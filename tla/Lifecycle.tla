----------------------------- MODULE Lifecycle -----------------------------
(***************************************************************************)
(* The efctl commands and the state they share: there is no daemon, every  *)
(* command is a process that works step by step on the objects pinned in   *)
(* the bpf file system (src/cli).  Another command may run between any two *)
(* steps, and a step may fail or the process be killed.                    *)
(*                                                                         *)
(* apply and the first monitor load one eBPF object, a set of fresh maps   *)
(* with the program that uses them; process p names the object p loads.    *)
(* Of the pinned maps only those some command opens again are modelled;    *)
(* the others are write-only and pinned the same way.  A configuration is  *)
(* the set of its sections, a function from <<interface, protocol>> to the *)
(* version of the section (PolicyMaps has what is in one).                 *)
(***************************************************************************)
EXTENDS Naturals, Sequences, FiniteSets

CONSTANTS
  Procs,     \* invocations of efctl; each runs one command
  Ifaces,    \* network interfaces
  Versions,  \* what a section may say
  Configs,   \* configurations the user may apply
  NONE,      \* no object
  SERIAL,    \* the user never starts a command while another one works
  STOPS,     \* system calls fail and processes are killed
  UNPLUGS    \* interfaces disappear and come back

(* A configuration holds a version of each of its sections.                *)
Sections == Ifaces \X {"udp", "tcp"}
Config   == UNION {[S -> Versions] : S \in SUBSET Sections}

ASSUME ConfigsAssumption == IsFiniteSet(Ifaces) /\ Configs \subseteq Config
ASSUME NoneAssumption == NONE \notin Procs \cup Config
ASSUME ModeAssumption == {SERIAL, STOPS, UNPLUGS} \subseteq BOOLEAN

VARIABLES
  dirs,      \* the pin roots that exist: "main", "udp"
  pins,      \* pin name -> the object it refers to
  links,     \* interface -> the object whose pinned link is at its path
  attached,  \* interface -> the object whose program runs on it
  nics,      \* the interfaces that are present
  loaded,    \* object -> the configuration its maps hold
  indexed,   \* object -> the interfaces its maps have rules for, under an
             \* index that stays theirs as long as its command works; read
             \* by packets only, and kept of commands that have not failed
  slipped,   \* history: object -> the interfaces that went away meanwhile
  enabled,   \* objects whose MONITOR_ENABLED is set
  proc,      \* the state of every process
  last       \* the process that last ended or began to wait

objects == <<loaded, indexed, slipped>>
kernel == <<dirs, pins, links, attached, nics, objects, enabled>>
vars == <<kernel, proc, last>>

Nothing == <<>>   \* the configuration without sections

MainPins == {"CFG", "CFG_LEN", "UDP4_EVENTS", "TCP4_EVENTS",
             "MONITOR_ENABLED"}
Pins == MainPins \cup {"program"}

Root(name) == IF name = "program" THEN "udp" ELSE "main"

\* The order of pin_maps and load_and_pin_program, and of setup_bpf_state.
PinOrder(cmd) ==
  LET monitored ==
        <<"UDP4_EVENTS", "TCP4_EVENTS", "MONITOR_ENABLED", "program">>
  IN  IF cmd = "apply" THEN <<"CFG", "CFG_LEN">> \o monitored ELSE monitored

\* EfenseConfig::merge, section by section.
\* Mutant: only what the new configuration says is kept.
MergeNewOnly(new, old) == new
Merge(new, old) ==
  [s \in DOMAIN new \cup DOMAIN old |->
     IF s \in DOMAIN new THEN new[s] ELSE old[s]]

\* interfaces_with_policy.
InterfacesOf(cfg) == {s[1] : s \in DOMAIN cfg}

(* The length of the JSON text: every section adds the same.               *)
Length(cfg) == 1 + Cardinality(DOMAIN cfg)

-----------------------------------------------------------------------------
(* Processes *)

Ended == {"done", "failed", "unreadable"}

Steps == Ended \cup
  {"idle", "ensure_dirs", "probe", "read_length", "read_blob", "load",
   "remove_pin", "pin", "unlink", "attach", "pin_link",
   "open_rings", "enable", "waiting", "detach", "remove_main"}

Process ==
  [cmd : {"none", "apply", "show", "monitor", "purge"}, pc : Steps,
   given : Config, cfg : Config, len : Nat, at : Nat,
   iface : Ifaces \cup {NONE}, todo : SUBSET Ifaces]

Idle == [cmd |-> "none", pc |-> "idle", given |-> Nothing, cfg |-> Nothing,
         len |-> 0, at |-> 1, iface |-> NONE, todo |-> {}]

Working(p) == proc[p].pc \notin Ended \cup {"idle", "waiting"}

Becomes(p, next) == proc' = [proc EXCEPT ![p] = next]

Start(p, cmd, pc, given, iface) ==
  /\ proc[p] = Idle
  /\ SERIAL => \A q \in Procs : ~Working(q)
  /\ Becomes(p, [Idle EXCEPT !.cmd = cmd, !.pc = pc, !.given = given,
                             !.cfg = given, !.iface = iface])
  /\ last' = IF pc = "done" THEN p ELSE last

\* What a process has in its own memory is gone when it ends.
Step(p, next) ==
  /\ Becomes(p, CASE next.pc = "done" ->
                        [Idle EXCEPT !.cmd = next.cmd, !.pc = next.pc,
                                     !.given = next.given, !.cfg = next.cfg]
                   [] next.pc \in Ended \ {"done"} ->
                        [Idle EXCEPT !.cmd = next.cmd, !.pc = next.pc]
                   [] OTHER -> next)
  /\ last' = IF next.pc \in Ended \cup {"waiting"} THEN p ELSE last

StepTo(p, pc) == Step(p, [proc[p] EXCEPT !.pc = pc])

(* What is kept of the object of a command that fails: not its index.      *)
Forget(p) ==
  /\ indexed' = [indexed EXCEPT ![p] = {}]
  /\ slipped' = [slipped EXCEPT ![p] = {}]

(* An error ends the command.  A link that is not pinned yet goes with the *)
(* process, and with the link goes the program from the interface.         *)
\* Mutant: attaching without a link object survives the process.
FailLeavingProgram(p, how) ==
  /\ Forget(p)
  /\ UNCHANGED <<dirs, pins, links, attached, nics, loaded, enabled>>
  /\ StepTo(p, how)
Fail(p, how) ==
  /\ attached' = [i \in Ifaces |->
       IF attached[i] = p /\ links[i] # p THEN NONE ELSE attached[i]]
  /\ Forget(p)
  /\ UNCHANGED <<dirs, pins, links, nics, loaded, enabled>>
  /\ StepTo(p, how)

Stop(p) ==
  /\ STOPS
  /\ Working(p) \/ proc[p].pc = "waiting"
  /\ Fail(p, "failed")

-----------------------------------------------------------------------------
(* Reading the stored configuration: show::read_config, for apply and show *)

HasRead(p, cfg) ==
  IF proc[p].cmd = "apply"
  THEN Step(p, [proc[p] EXCEPT !.cfg = Merge(proc[p].given, cfg),
                               !.pc = "load"])
  ELSE Step(p, [proc[p] EXCEPT !.cfg = cfg, !.pc = "done"])

ReadLength(p) ==
  /\ proc[p].pc = "read_length"
  /\ IF pins["CFG_LEN"] = NONE
     THEN HasRead(p, Nothing)
     ELSE Step(p, [proc[p] EXCEPT !.len = Length(loaded[pins["CFG_LEN"]]),
                                  !.pc = "read_blob"])
  /\ UNCHANGED kernel

\* A text of another length than CFG_LEN says does not parse.
ReadBlob(p) ==
  /\ proc[p].pc = "read_blob"
  /\ IF pins["CFG"] # NONE /\ Length(loaded[pins["CFG"]]) = proc[p].len
     THEN HasRead(p, loaded[pins["CFG"]]) /\ UNCHANGED kernel
     ELSE Fail(p, "unreadable")

-----------------------------------------------------------------------------
(* efctl apply, and the part of it that the first monitor repeats *)

StartApply(p) ==
  /\ \E cfg \in Configs : Start(p, "apply", "ensure_dirs", cfg, NONE)
  /\ UNCHANGED kernel

EnsureDirs(p) ==
  /\ proc[p].pc = "ensure_dirs"
  /\ dirs' = {"main", "udp"}
  /\ StepTo(p, IF proc[p].cmd = "apply" THEN "probe" ELSE "load")
  /\ UNCHANGED <<pins, links, attached, nics, objects, enabled>>

\* Mutant: where nothing is stored, the maps are pinned before they are
\* populated.
ProbeThenPin(p) ==
  /\ proc[p].pc = "probe"
  /\ StepTo(p, IF pins["CFG_LEN"] = NONE THEN "remove_pin" ELSE "read_length")
  /\ UNCHANGED kernel
Probe(p) ==
  /\ proc[p].pc = "probe"
  /\ StepTo(p, IF pins["CFG_LEN"] = NONE THEN "load" ELSE "read_length")
  /\ UNCHANGED kernel

(* The object is private to the process until its maps are pinned.  Its    *)
(* rules are written under the index that lookup_ifindex finds for a name. *)
\* Mutant: rules are written for the interfaces the user names, no others.
PopulateGiven(p) ==
  /\ proc[p].pc = "load"
  /\ IF InterfacesOf(proc[p].cfg) \subseteq nics
     THEN /\ loaded' = [loaded EXCEPT ![p] = proc[p].cfg]
          /\ indexed' = [indexed EXCEPT ![p] = InterfacesOf(proc[p].given)]
          /\ StepTo(p, "remove_pin")
          /\ UNCHANGED <<dirs, pins, links, attached, nics, slipped, enabled>>
     ELSE Fail(p, "failed")
LoadAndPopulate(p) ==
  /\ proc[p].pc = "load"
  /\ IF InterfacesOf(proc[p].cfg) \subseteq nics
     THEN /\ loaded' = [loaded EXCEPT ![p] = proc[p].cfg]
          /\ indexed' = [indexed EXCEPT ![p] = InterfacesOf(proc[p].cfg)]
          /\ StepTo(p, "remove_pin")
          /\ UNCHANGED <<dirs, pins, links, attached, nics, slipped, enabled>>
     ELSE Fail(p, "failed")

RemovePin(p) ==
  /\ proc[p].pc = "remove_pin"
  /\ pins' = [pins EXCEPT ![PinOrder(proc[p].cmd)[proc[p].at]] = NONE]
  /\ StepTo(p, "pin")
  /\ UNCHANGED <<dirs, links, attached, nics, objects, enabled>>

\* Mutant: only the interfaces the user names are attached again.
TargetsGiven(p) ==
  IF proc[p].cmd = "apply" THEN InterfacesOf(proc[p].given) ELSE {proc[p].iface}

(* The interfaces to attach are those of the merged configuration, or the  *)
(* one monitor was started for.                                            *)
Targets(p) ==
  IF proc[p].cmd = "apply" THEN InterfacesOf(proc[p].cfg) ELSE {proc[p].iface}

AfterLastLink(p) == IF proc[p].cmd = "apply" THEN "done" ELSE "open_rings"

AfterPin(p) ==
  IF proc[p].at < Len(PinOrder(proc[p].cmd))
  THEN [proc[p] EXCEPT !.at = @ + 1, !.pc = "remove_pin"]
  ELSE [proc[p] EXCEPT !.todo = Targets(p),
                       !.pc = IF Targets(p) = {} THEN AfterLastLink(p)
                                                 ELSE "unlink"]

Pin(p) ==
  LET name == PinOrder(proc[p].cmd)[proc[p].at]
  IN  /\ proc[p].pc = "pin"
      /\ IF Root(name) \in dirs /\ pins[name] = NONE
         THEN /\ pins' = [pins EXCEPT ![name] = p]
              /\ Step(p, AfterPin(p))
              /\ UNCHANGED <<dirs, links, attached, nics, objects, enabled>>
         ELSE Fail(p, "failed")

(* Removing a pinned link takes its program from the interface.            *)
Unpin(i) ==
  /\ links' = [links EXCEPT ![i] = NONE]
  /\ attached' = [attached EXCEPT ![i] = IF @ = links[i] THEN NONE ELSE @]

(* attach_and_pin_link for one of the interfaces left, in any order.       *)
\* Mutant: all old links are removed before the first new one is attached.
UnlinkAll(p) ==
  /\ proc[p].pc = "unlink"
  /\ links' = [i \in Ifaces |-> IF i \in proc[p].todo THEN NONE ELSE links[i]]
  /\ attached' = [i \in Ifaces |->
       IF i \in proc[p].todo /\ attached[i] = links[i] THEN NONE ELSE attached[i]]
  /\ \E i \in proc[p].todo :
       Step(p, [proc[p] EXCEPT !.pc = "attach", !.iface = i])
  /\ UNCHANGED <<dirs, pins, nics, objects, enabled>>
Unlink(p) ==
  /\ proc[p].pc = "unlink"
  /\ \E i \in proc[p].todo :
       /\ Unpin(i)
       /\ Step(p, [proc[p] EXCEPT !.pc = "attach", !.iface = i])
  /\ UNCHANGED <<dirs, pins, nics, objects, enabled>>

\* The program is attached by name: to whichever interface has it now.
Attach(p) ==
  LET i == proc[p].iface
  IN  /\ proc[p].pc = "attach"
      /\ IF i \in nics /\ attached[i] = NONE
         THEN /\ attached' = [attached EXCEPT ![i] = p]
              /\ StepTo(p, "pin_link")
              /\ UNCHANGED <<dirs, pins, links, nics, objects, enabled>>
         ELSE Fail(p, "failed")

PinLink(p) ==
  LET i    == proc[p].iface
      left == proc[p].todo \ {i}
  IN  /\ proc[p].pc = "pin_link"
      /\ IF "udp" \in dirs /\ links[i] = NONE
         THEN /\ links' = [links EXCEPT ![i] = p]
              /\ Step(p, [proc[p] EXCEPT !.todo = left,
                            !.pc = IF left = {} THEN AfterLastLink(p)
                                                ELSE "unlink"])
              /\ UNCHANGED <<dirs, pins, attached, nics, objects, enabled>>
         ELSE Fail(p, "failed")

-----------------------------------------------------------------------------
(* efctl show *)

StartShow(p) ==
  /\ Start(p, "show", IF "main" \in dirs THEN "read_length" ELSE "done",
           Nothing, NONE)
  /\ UNCHANGED kernel

-----------------------------------------------------------------------------
(* efctl monitor; what comes through the rings is IngressFilter's subject *)

StartMonitor(p) ==
  /\ \E i \in Ifaces :
       Start(p, "monitor", IF "main" \in dirs THEN "open_rings" ELSE "ensure_dirs",
             Nothing, i)
  /\ UNCHANGED kernel

OpenRings(p) ==
  /\ proc[p].pc = "open_rings"
  /\ IF NONE \in {pins["UDP4_EVENTS"], pins["TCP4_EVENTS"]}
     THEN Fail(p, "failed")
     ELSE StepTo(p, "enable") /\ UNCHANGED kernel

Enable(p) ==
  LET switch == pins["MONITOR_ENABLED"]
  IN  /\ proc[p].pc = "enable"
      /\ IF switch = NONE
         THEN Fail(p, "failed")
         ELSE /\ enabled' = enabled \cup {switch}
              /\ StepTo(p, "waiting")
              /\ UNCHANGED <<dirs, pins, links, attached, nics, objects>>

\* Mutant: the monitor exits without switching the events off.
CtrlCOnly(p) ==
  /\ proc[p].pc = "waiting"
  /\ StepTo(p, "done")
  /\ UNCHANGED kernel
CtrlC(p) ==
  /\ proc[p].pc = "waiting"
  /\ enabled' = enabled \ {pins["MONITOR_ENABLED"]}
  /\ StepTo(p, "done")
  /\ UNCHANGED <<dirs, pins, links, attached, nics, objects>>

-----------------------------------------------------------------------------
(* efctl purge *)

\* Mutant: one pin root that is gone is taken for all of them.
StartPurgeUdpRoot(p) ==
  /\ Start(p, "purge", IF "udp" \in dirs THEN "detach" ELSE "done", Nothing, NONE)
  /\ UNCHANGED kernel
StartPurge(p) ==
  /\ Start(p, "purge", IF dirs = {} THEN "done" ELSE "detach", Nothing, NONE)
  /\ UNCHANGED kernel

DetachLink(p) ==
  /\ proc[p].pc = "detach"
  /\ \E i \in Ifaces : links[i] # NONE /\ Unpin(i)
  /\ UNCHANGED <<dirs, pins, nics, objects, enabled, proc, last>>

(* The tree with the links: a link pinned meanwhile is removed with it.    *)
RemoveUdpTree(p) ==
  /\ proc[p].pc = "detach"
  /\ \A i \in Ifaces : links[i] = NONE
  /\ dirs' = dirs \ {"udp"}
  /\ pins' = [pins EXCEPT !["program"] = NONE]
  /\ StepTo(p, "remove_main")
  /\ UNCHANGED <<links, attached, nics, objects, enabled>>

RemoveMainPin(p) ==
  /\ proc[p].pc = "remove_main"
  /\ \E name \in MainPins :
       pins[name] # NONE /\ pins' = [pins EXCEPT ![name] = NONE]
  /\ UNCHANGED <<dirs, links, attached, nics, objects, enabled, proc, last>>

RemoveMainTree(p) ==
  /\ proc[p].pc = "remove_main"
  /\ \A name \in MainPins : pins[name] = NONE
  /\ dirs' = dirs \ {"main"}
  /\ StepTo(p, "done")
  /\ UNCHANGED <<pins, links, attached, nics, objects, enabled>>

-----------------------------------------------------------------------------
(* Interfaces come and go; a link of an interface that is gone stays       *)
(* pinned and is dead.  One that comes back has another index, for which   *)
(* no object has rules; the object of a command that has ended is not      *)
(* attached to it again.                                                   *)
Unplug(i) ==
  /\ UNPLUGS
  /\ i \in nics
  /\ nics' = nics \ {i}
  /\ attached' = [attached EXCEPT ![i] = NONE]
  /\ indexed' = [p \in Procs |->
       IF Working(p) THEN indexed[p] \ {i} ELSE indexed[p]]
  /\ slipped' = [p \in Procs |->
       IF Working(p) /\ i \in indexed[p] THEN slipped[p] \cup {i} ELSE slipped[p]]
  /\ UNCHANGED <<dirs, pins, links, loaded, enabled, proc, last>>

Plug(i) ==
  /\ i \notin nics
  /\ nics' = nics \cup {i}
  /\ UNCHANGED <<dirs, pins, links, attached, objects, enabled, proc, last>>

Init ==
  /\ dirs = {}
  /\ pins = [name \in Pins |-> NONE]
  /\ links = [i \in Ifaces |-> NONE]
  /\ attached = [i \in Ifaces |-> NONE]
  /\ nics = Ifaces
  /\ loaded = [p \in Procs |-> NONE]
  /\ indexed = [p \in Procs |-> {}]
  /\ slipped = [p \in Procs |-> {}]
  /\ enabled = {}
  /\ proc = [p \in Procs |-> Idle]
  /\ last = NONE

Command(p) ==
  \/ StartApply(p) \/ StartShow(p) \/ StartMonitor(p) \/ StartPurge(p)
  \/ EnsureDirs(p) \/ Probe(p) \/ ReadLength(p) \/ ReadBlob(p)
  \/ LoadAndPopulate(p) \/ RemovePin(p) \/ Pin(p)
  \/ Unlink(p) \/ Attach(p) \/ PinLink(p)
  \/ OpenRings(p) \/ Enable(p) \/ CtrlC(p)
  \/ DetachLink(p) \/ RemoveUdpTree(p) \/ RemoveMainPin(p) \/ RemoveMainTree(p)
  \/ Stop(p)

Next ==
  \/ \E p \in Procs : Command(p)
  \/ \E i \in Ifaces : Unplug(i) \/ Plug(i)

Spec == Init /\ [][Next]_vars
-----------------------------------------------------------------------------
(* Properties *)

AtRest == \A p \in Procs : ~Working(p)

EndedWell(p, cmd) == proc[p].cmd = cmd /\ proc[p].pc = "done"

NoneFailed(cmd) ==
  \A p \in Procs : proc[p].cmd = cmd => proc[p].pc \notin {"failed", "unreadable"}

(* Types, and what the file system implies: nothing is pinned under a root *)
(* that does not exist, and what is pinned has been populated before: no   *)
(* command pins the maps of an object it has not filled (apply.rs:131-134).*)
TypeOK ==
  /\ dirs \subseteq {"main", "udp"}
  /\ pins \in [Pins -> Procs \cup {NONE}]
  /\ links \in [Ifaces -> Procs \cup {NONE}]
  /\ attached \in [Ifaces -> Procs \cup {NONE}]
  /\ nics \subseteq Ifaces
  /\ loaded \in [Procs -> Config \cup {NONE}]
  /\ indexed \in [Procs -> SUBSET Ifaces]
  /\ \A p \in Procs : Working(p) => indexed[p] \subseteq nics
  /\ slipped \in [Procs -> SUBSET Ifaces]
  /\ enabled \subseteq Procs
  /\ last \in Procs \cup {NONE}
  /\ proc \in [Procs -> Process]
  /\ \A name \in Pins :
       pins[name] # NONE => Root(name) \in dirs /\ loaded[pins[name]] # NONE
  /\ \A i \in Ifaces : links[i] # NONE => "udp" \in dirs

(* A program on an interface is held by the pinned link at the interface's *)
(* path, where apply and purge find it, or by a process about to pin it.   *)
(* No race of commands, error or kill leaves a filter nobody can remove    *)
(* (apply.rs:706-722, purge.rs:51-83).                                     *)
AttachedIsHeld ==
  \A i \in Ifaces : attached[i] # NONE =>
    \/ links[i] = attached[i]
    \/ /\ proc[attached[i]].pc = "pin_link"
       /\ proc[attached[i]].iface = i

(* After a purge nothing of efense is left, whatever earlier commands that *)
(* failed half way had left behind (purge.rs:20, "Remove all eBPF          *)
(* programs, maps and links pinned by `apply`").                           *)
PurgeLeavesNothing ==
  last # NONE /\ AtRest /\ EndedWell(last, "purge") =>
    /\ dirs = {}
    /\ \A name \in Pins : pins[name] = NONE
    /\ \A i \in Ifaces : links[i] = NONE /\ attached[i] = NONE

(* The program on the interface is that of object p, and p has rules for   *)
(* the interface; it has none for one that went away under the command.    *)
RunsRulesOf(i, p) ==
  attached[i] = p /\ (i \in indexed[p] \/ i \in slipped[p])

(* After an apply every pin refers to its object and every interface of    *)
(* the merged configuration runs its program, with rules under the index   *)
(* the interface has, unless the interface has been unplugged; earlier     *)
(* commands may have failed anywhere (apply.rs:106-140).                   *)
ApplyTakesEffect ==
  last # NONE /\ AtRest /\ EndedWell(last, "apply") =>
    /\ loaded[last] = proc[last].cfg
    /\ \A name \in Pins : pins[name] = last
    /\ \A i \in InterfacesOf(proc[last].cfg) :
         /\ links[i] = last
         /\ RunsRulesOf(i, last) \/ (UNPLUGS /\ attached[i] = NONE)

(* An apply replaces the filters one by one: when it takes one off, the new *)
(* program is populated with the merged configuration and all its pins are *)
(* in place, the interfaces it is done with run it, and those still to do  *)
(* keep what they have.  Whatever fails then, the failure of an attach     *)
(* included, no more than one interface is left bare (apply.rs:106-140,    *)
(* 672-726).                                                               *)
OneInterfaceAtATime ==
  [][\A p \in Procs, i \in Ifaces :
       /\ SERIAL /\ proc[p].cmd = "apply"
       /\ proc[p].pc = "unlink" /\ proc'[p].pc = "attach"
       /\ attached[i] # NONE /\ attached'[i] = NONE
       =>
       /\ loaded[p] = proc[p].cfg
       /\ \A name \in Pins : pins[name] = p
       /\ \A j \in InterfacesOf(proc[p].cfg) \ {i} :
            /\ attached'[j] = attached[j]
            /\ j \notin proc[p].todo =>
                 /\ links[j] = p
                 /\ attached[j] \in IF UNPLUGS THEN {p, NONE} ELSE {p}]_vars

(* What show prints is what the kernel runs (show.rs:18, "Show the efense  *)
(* configuration currently loaded in the kernel"): on every interface an   *)
(* apply has attached to runs a program whose maps hold the configuration  *)
(* shown, under the index the interface has now unless it went away while  *)
(* that apply was at work, and unless an apply failed half way; a purge, a *)
(* show or a monitor may have.                                             *)
ShowIsLoaded ==
  last # NONE /\ AtRest /\ EndedWell(last, "show") /\ NoneFailed("apply") =>
    \A i \in Ifaces :
      attached[i] # NONE /\ proc[attached[i]].cmd = "apply" =>
        /\ loaded[attached[i]] = proc[last].cfg
        /\ RunsRulesOf(i, attached[i])

(* Until a purge, the stored configuration has every section that any      *)
(* apply has put in force (config.rs:18-20, "Any field or interface only   *)
(* present in `old` is preserved"), unless an apply failed half way; a     *)
(* monitor or a show may have.                                             *)
AppliedIsKept ==
  AtRest /\ NoneFailed("apply") /\ (\A p \in Procs : proc[p].cmd # "purge") =>
    \A p \in Procs : EndedWell(p, "apply") =>
      /\ pins["CFG"] # NONE
      /\ DOMAIN proc[p].given \subseteq DOMAIN loaded[pins["CFG"]]

(* The pinned switch is on only while some monitor waits (monitor.rs:70,   *)
(* 83), also when an apply has replaced the maps under it, whatever other  *)
(* command failed.                                                         *)
EventsOnlyForMonitors ==
  pins["MONITOR_ENABLED"] \in enabled /\ NoneFailed("monitor") =>
    \E p \in Procs : proc[p].cmd = "monitor" /\ proc[p].pc = "waiting"
=============================================================================
