-------------------------- MODULE LifecycleProofs ---------------------------
(***************************************************************************)
(* What Lifecycle guarantees for any number of commands, interfaces and    *)
(* configurations, racing or not, failing or not.                          *)
(***************************************************************************)
EXTENDS Lifecycle, TLAPS, FiniteSetTheorems

USE DEF objects

Loading == {"ensure_dirs", "probe", "read_length", "read_blob", "load"}
Pinning == {"remove_pin", "pin"}
Linking == {"unlink", "attach", "pin_link"}

(* Which steps belong to which command, and what a process knows there.    *)
Control(r) ==
  /\ r.pc \in {"ensure_dirs", "load"} \cup Pinning \cup Linking
       => r.cmd \in {"apply", "monitor"}
  /\ r.pc = "probe" => r.cmd = "apply"
  /\ r.pc \in {"read_length", "read_blob"} => r.cmd \in {"apply", "show"}
  /\ r.pc \in {"open_rings", "enable", "waiting"} => r.cmd = "monitor"
  /\ r.pc \in {"detach", "remove_main"} => r.cmd = "purge"
  /\ r.cmd = "purge" => r.pc \in {"detach", "remove_main", "done", "failed"}
  /\ r.pc \in Loading => r.at = 1
  /\ r.pc \in Pinning => r.at \in 1 .. Len(PinOrder(r.cmd))
  /\ r.cmd = "monitor" /\ r.pc \notin Ended => r.iface \in Ifaces
  /\ r.pc \in {"attach", "pin_link"} => r.iface \in Ifaces

ProcsOK ==
  /\ proc \in [Procs -> Process]
  /\ last \in Procs \cup {NONE}
  /\ \A p \in Procs : Control(proc[p])

(* TypeOK without the processes and the indices.                           *)
KernelOK ==
  /\ dirs \subseteq {"main", "udp"}
  /\ pins \in [Pins -> Procs \cup {NONE}]
  /\ links \in [Ifaces -> Procs \cup {NONE}]
  /\ attached \in [Ifaces -> Procs \cup {NONE}]
  /\ nics \subseteq Ifaces
  /\ loaded \in [Procs -> Config \cup {NONE}]
  /\ enabled \subseteq Procs
  /\ \A name \in Pins :
       pins[name] # NONE => Root(name) \in dirs /\ loaded[pins[name]] # NONE
  /\ \A i \in Ifaces : links[i] # NONE => "udp" \in dirs

(* A process that pins or attaches its object has populated it.            *)
Populated ==
  \A p \in Procs : proc[p].pc \in Pinning \cup Linking => loaded[p] # NONE

IInv == ProcsOK /\ KernelOK /\ Populated /\ AttachedIsHeld

-----------------------------------------------------------------------------
(* Configurations *)

LEMMA NothingIsConfig == Nothing \in Config
<1>1. Nothing \in [{} -> Versions]
  BY DEF Nothing
<1> QED BY <1>1 DEF Config

LEMMA MergeConfig ==
  ASSUME NEW new \in Config, NEW old \in Config
  PROVE  Merge(new, old) \in Config
<1>1. PICK S \in SUBSET Sections : new \in [S -> Versions]
  BY DEF Config
<1>2. PICK T \in SUBSET Sections : old \in [T -> Versions]
  BY DEF Config
<1>3. Merge(new, old) \in [S \cup T -> Versions]
  BY <1>1, <1>2 DEF Merge
<1> QED BY <1>3 DEF Config

LEMMA ConfigFacts ==
  ASSUME NEW cfg \in Config
  PROVE  Length(cfg) \in Nat /\ InterfacesOf(cfg) \subseteq Ifaces /\ cfg # NONE
<1>1. PICK S \in SUBSET Sections : cfg \in [S -> Versions]
  BY DEF Config
<1>2. IsFiniteSet({"udp", "tcp"})
  <2>1. IsFiniteSet({"udp"}) /\ IsFiniteSet({"tcp"})
    BY FS_Singleton
  <2>2. IsFiniteSet({"udp"} \cup {"tcp"})
    BY <2>1, FS_Union
  <2>3. {"udp", "tcp"} = {"udp"} \cup {"tcp"}
    OBVIOUS
  <2> QED BY <2>2, <2>3
<1>3. IsFiniteSet(Sections)
  BY <1>2, ConfigsAssumption, FS_Product DEF Sections
<1>4. Cardinality(DOMAIN cfg) \in Nat
  BY <1>1, <1>3, FS_Subset, FS_CardinalityType
<1>5. InterfacesOf(cfg) \subseteq Ifaces
  BY <1>1 DEF InterfacesOf, Sections
<1> QED BY <1>4, <1>5, NoneAssumption DEF Length

LEMMA PinOrderFacts ==
  ASSUME NEW cmd \in {"apply", "monitor"}
  PROVE  /\ Len(PinOrder(cmd)) \in Nat /\ Len(PinOrder(cmd)) >= 1
         /\ \A n \in 1 .. Len(PinOrder(cmd)) : PinOrder(cmd)[n] \in Pins
<1> DEFINE m == <<"UDP4_EVENTS", "TCP4_EVENTS", "MONITOR_ENABLED", "program">>
           c == <<"CFG", "CFG_LEN">>
<1>1. /\ m \in Seq(Pins) /\ Len(m) = 4
      /\ c \in Seq(Pins) /\ Len(c) = 2
  BY DEF Pins, MainPins
<1>2. c \o m \in Seq(Pins) /\ Len(c \o m) = 6
  BY <1>1
<1>3. PinOrder(cmd) \in {m, c \o m}
  BY DEF PinOrder
<1> HIDE DEF m, c
<1>4. PinOrder(cmd) \in Seq(Pins) /\ Len(PinOrder(cmd)) \in {4, 6}
  BY <1>1, <1>2, <1>3
<1> QED BY <1>4

-----------------------------------------------------------------------------
(* Processes *)

LEMMA IdleOK == Idle \in Process /\ Control(Idle)
<1>1. Idle \in Process
  <2>1. {} \in SUBSET Ifaces /\ NONE \in Ifaces \cup {NONE} /\ "idle" \in Steps
    BY DEF Steps
  <2> QED BY <2>1, NothingIsConfig DEF Idle, Process
<1>2. Idle.cmd = "none" /\ Idle.pc = "idle"
  BY DEF Idle
<1> QED BY <1>1, <1>2 DEF Control, Pinning, Linking, Loading, Ended

(* A step of a process that knows what it may: the others are left alone,  *)
(* and its own state follows the step unless it ends there.                *)
LEMMA StepFacts ==
  ASSUME ProcsOK, NEW p \in Procs, NEW next \in Process, Control(next),
         Step(p, next)
  PROVE  /\ ProcsOK'
         /\ \A q \in Procs \ {p} : proc'[q] = proc[q]
         /\ proc'[p].pc = next.pc /\ proc'[p].cmd = next.cmd
         /\ next.pc \notin Ended => proc'[p] = next
         /\ next.pc \in Ended \cup {"waiting"} => last' = p
         /\ next.pc \notin Ended \cup {"waiting"} => last' = last
<1>1. PICK r \in Process :
        /\ proc' = [proc EXCEPT ![p] = r]
        /\ r.cmd = next.cmd /\ r.pc = next.pc
        /\ next.pc \notin Ended => r = next
  <2> DEFINE finished == [Idle EXCEPT !.cmd = next.cmd, !.pc = next.pc,
                                      !.given = next.given, !.cfg = next.cfg]
             stopped  == [Idle EXCEPT !.cmd = next.cmd, !.pc = next.pc]
  <2>1. /\ finished \in Process /\ stopped \in Process
        /\ finished.cmd = next.cmd /\ finished.pc = next.pc
        /\ stopped.cmd = next.cmd /\ stopped.pc = next.pc
    BY IdleOK DEF Process
  <2>2. CASE next.pc = "done"
    BY <2>1, <2>2 DEF Step, Becomes, Ended
  <2>3. CASE next.pc \in Ended \ {"done"}
    BY <2>1, <2>3 DEF Step, Becomes, Ended
  <2>4. CASE next.pc \notin Ended
    BY <2>4 DEF Step, Becomes, Ended
  <2> QED BY <2>2, <2>3, <2>4
<1>2. Control(r)
  <2>1. CASE next.pc \in Ended
    BY <1>1, <2>1 DEF Control, Ended, Pinning, Linking, Loading
  <2>2. CASE next.pc \notin Ended
    BY <1>1, <2>2
  <2> QED BY <2>1, <2>2
<1>3. /\ next.pc \in Ended \cup {"waiting"} => last' = p
      /\ next.pc \notin Ended \cup {"waiting"} => last' = last
  BY DEF Step
<1>4. proc' \in [Procs -> Process] /\ proc'[p] = r
      /\ \A q \in Procs \ {p} : proc'[q] = proc[q]
  BY <1>1 DEF ProcsOK
<1>5. \A q \in Procs : Control(proc'[q])
  BY <1>2, <1>4 DEF ProcsOK
<1>6. last' \in Procs \cup {NONE}
  BY <1>3 DEF ProcsOK
<1> QED BY <1>1, <1>3, <1>4, <1>5, <1>6 DEF ProcsOK

(* Steps that leave the kernel alone and do not touch an attached program. *)
LEMMA QuietStep ==
  ASSUME IInv, NEW p \in Procs, NEW next \in Process, Control(next),
         Step(p, next), UNCHANGED kernel,
         next.pc \notin Pinning \cup Linking, proc[p].pc # "pin_link"
  PROVE  IInv'
<1>1. /\ ProcsOK'
      /\ \A q \in Procs \ {p} : proc'[q] = proc[q]
      /\ proc'[p].pc = next.pc
  BY StepFacts DEF IInv
<1>2. KernelOK'
  BY DEF IInv, KernelOK, kernel
<1>3. Populated'
  BY <1>1 DEF IInv, Populated, kernel
<1>4. AttachedIsHeld'
  BY <1>1, NoneAssumption DEF IInv, KernelOK, AttachedIsHeld, kernel
<1> QED BY <1>1, <1>2, <1>3, <1>4 DEF IInv

(* A command that ends with an error takes its unpinned link with it.      *)
LEMMA FailStep ==
  ASSUME IInv, NEW p \in Procs, NEW how \in {"failed", "unreadable"},
         how = "failed" \/ proc[p].cmd # "purge", Fail(p, how)
  PROVE  IInv'
<1> DEFINE next == [proc[p] EXCEPT !.pc = how]
<1>1. next \in Process /\ Control(next) /\ next.pc = how
  BY SMTT(60) DEF IInv, ProcsOK, Process, Steps, Control, Ended, Pinning, Linking, Loading
<1>2. Step(p, next)
  BY DEF Fail, StepTo
<1> HIDE DEF next
<1>3. /\ ProcsOK'
      /\ \A q \in Procs \ {p} : proc'[q] = proc[q]
      /\ proc'[p].pc = how
  BY <1>1, <1>2, StepFacts DEF IInv
<1>4. KernelOK'
  BY DEF IInv, KernelOK, Fail
<1>5. Populated'
  BY <1>3 DEF IInv, Populated, Fail, Pinning, Linking
<1>6. AttachedIsHeld'
  BY <1>3, NoneAssumption DEF IInv, KernelOK, AttachedIsHeld, Fail
<1> QED BY <1>3, <1>4, <1>5, <1>6 DEF IInv

(* A command that starts knows its argument and nothing else.              *)
LEMMA StartStep ==
  ASSUME IInv, NEW p \in Procs, NEW cmd, NEW pc, NEW given \in Config,
         NEW iface \in Ifaces \cup {NONE},
         [Idle EXCEPT !.cmd = cmd, !.pc = pc, !.given = given,
                      !.cfg = given, !.iface = iface] \in Process,
         Control([Idle EXCEPT !.cmd = cmd, !.pc = pc, !.given = given,
                              !.cfg = given, !.iface = iface]),
         pc \notin Pinning \cup Linking,
         Start(p, cmd, pc, given, iface), UNCHANGED kernel
  PROVE  IInv'
<1> DEFINE next == [Idle EXCEPT !.cmd = cmd, !.pc = pc, !.given = given,
                                !.cfg = given, !.iface = iface]
<1>1. next \in Process /\ Control(next) /\ next.pc = pc
  BY DEF Idle
<1>2. proc' = [proc EXCEPT ![p] = next] /\ last' \in {p, last}
  BY DEF Start, Becomes
<1>3. proc[p].pc = "idle"
  BY DEF Start, Idle
<1> HIDE DEF next
<1>4. proc' \in [Procs -> Process] /\ proc'[p] = next
      /\ \A q \in Procs \ {p} : proc'[q] = proc[q]
  BY <1>1, <1>2 DEF IInv, ProcsOK
<1>5. ProcsOK'
  <2>1. \A q \in Procs : Control(proc'[q])
    BY <1>1, <1>4 DEF IInv, ProcsOK
  <2> QED BY <1>2, <1>4, <2>1 DEF IInv, ProcsOK
<1>6. KernelOK'
  BY DEF IInv, KernelOK, kernel
<1>7. Populated'
  BY <1>1, <1>4 DEF IInv, Populated, kernel
<1>8. AttachedIsHeld'
  BY <1>3, <1>4, NoneAssumption DEF IInv, KernelOK, AttachedIsHeld, kernel
<1> QED BY <1>5, <1>6, <1>7, <1>8 DEF IInv

-----------------------------------------------------------------------------
(* One lemma per action *)

LEMMA Starting ==
  ASSUME IInv, NEW p \in Procs,
         StartApply(p) \/ StartShow(p) \/ StartMonitor(p) \/ StartPurge(p)
  PROVE  IInv'
<1> DEFINE start(cmd, pc, given, iface) ==
             [Idle EXCEPT !.cmd = cmd, !.pc = pc, !.given = given,
                          !.cfg = given, !.iface = iface]
<1> USE DEF Control, Ended, Pinning, Linking, Loading, Steps
<1>1. CASE StartApply(p)
  <2>1. PICK cfg \in Configs : Start(p, "apply", "ensure_dirs", cfg, NONE)
    BY <1>1 DEF StartApply
  <2>2. cfg \in Config
    BY ConfigsAssumption
  <2>3. /\ start("apply", "ensure_dirs", cfg, NONE) \in Process
        /\ Control(start("apply", "ensure_dirs", cfg, NONE))
    BY <2>2, IdleOK DEF Process, Idle
  <2> QED BY <1>1, <2>1, <2>2, <2>3, StartStep DEF StartApply
<1>2. CASE StartShow(p)
  <2>1. PICK pc \in {"read_length", "done"} : Start(p, "show", pc, Nothing, NONE)
    BY <1>2 DEF StartShow
  <2>2. /\ start("show", pc, Nothing, NONE) \in Process
        /\ Control(start("show", pc, Nothing, NONE))
    BY IdleOK, NothingIsConfig DEF Process, Idle
  <2> QED BY <1>2, <2>1, <2>2, NothingIsConfig, StartStep DEF StartShow
<1>3. CASE StartMonitor(p)
  <2>1. PICK i \in Ifaces, pc \in {"open_rings", "ensure_dirs"} :
          Start(p, "monitor", pc, Nothing, i)
    BY <1>3 DEF StartMonitor
  <2>2. /\ start("monitor", pc, Nothing, i) \in Process
        /\ Control(start("monitor", pc, Nothing, i))
    BY IdleOK, NothingIsConfig DEF Process, Idle
  <2> QED BY <1>3, <2>1, <2>2, NothingIsConfig, StartStep DEF StartMonitor
<1>4. CASE StartPurge(p)
  <2>1. PICK pc \in {"detach", "done"} : Start(p, "purge", pc, Nothing, NONE)
    BY <1>4 DEF StartPurge
  <2>2. /\ start("purge", pc, Nothing, NONE) \in Process
        /\ Control(start("purge", pc, Nothing, NONE))
    BY IdleOK, NothingIsConfig DEF Process, Idle
  <2> QED BY <1>4, <2>1, <2>2, NothingIsConfig, StartStep DEF StartPurge
<1> QED BY <1>1, <1>2, <1>3, <1>4

(* What a command reads is a configuration, and so is the merge.           *)
LEMMA Reading ==
  ASSUME IInv, NEW p \in Procs, NEW cfg \in Config, HasRead(p, cfg),
         proc[p].pc \in {"read_length", "read_blob"}, UNCHANGED kernel
  PROVE  IInv'
<1>1. proc[p] \in Process /\ Control(proc[p])
  BY DEF IInv, ProcsOK
<1>2. CASE proc[p].cmd = "apply"
  <2> DEFINE next == [proc[p] EXCEPT !.cfg = Merge(proc[p].given, cfg),
                                     !.pc = "load"]
  <2>1. Merge(proc[p].given, cfg) \in Config
    BY <1>1, MergeConfig DEF Process
  <2>2. next \in Process /\ Control(next) /\ next.pc = "load"
    BY <1>1, <1>2, <2>1
       DEF Process, Steps, Control, Ended, Pinning, Linking, Loading
  <2>3. Step(p, next)
    BY <1>2 DEF HasRead
  <2> QED BY <2>2, <2>3, QuietStep DEF Pinning, Linking
<1>3. CASE proc[p].cmd # "apply"
  <2> DEFINE next == [proc[p] EXCEPT !.cfg = cfg, !.pc = "done"]
  <2>1. next \in Process /\ Control(next) /\ next.pc = "done"
    BY <1>1, <1>3 DEF Process, Steps, Control, Ended, Pinning, Linking, Loading
  <2>2. Step(p, next)
    BY <1>3 DEF HasRead
  <2> QED BY <2>1, <2>2, QuietStep DEF Pinning, Linking
<1> QED BY <1>2, <1>3

LEMMA Quiet ==
  ASSUME IInv, NEW p \in Procs,
         Probe(p) \/ ReadLength(p) \/ ReadBlob(p) \/ OpenRings(p)
  PROVE  IInv'
<1> USE DEF Process, Steps, Control, Ended, Pinning, Linking, Loading
<1>1. proc[p] \in Process /\ Control(proc[p])
  BY DEF IInv, ProcsOK
<1>2. \A name \in Pins : pins[name] # NONE => loaded[pins[name]] \in Config
  BY DEF IInv, KernelOK
<1>3. CASE Probe(p)
  <2>1. PICK pc \in {"load", "read_length"} : StepTo(p, pc)
    BY <1>3 DEF Probe
  <2> DEFINE next == [proc[p] EXCEPT !.pc = pc]
  <2>2. next \in Process /\ Control(next) /\ next.pc = pc
    BY <1>1, <1>3 DEF Probe
  <2> QED BY <1>3, <2>1, <2>2, QuietStep DEF Probe, StepTo
<1>4. CASE ReadLength(p)
  <2>1. CASE pins["CFG_LEN"] = NONE
    BY <1>4, <2>1, NothingIsConfig, Reading DEF ReadLength
  <2>2. CASE pins["CFG_LEN"] # NONE
    <3> DEFINE next == [proc[p] EXCEPT
                          !.len = Length(loaded[pins["CFG_LEN"]]),
                          !.pc = "read_blob"]
    <3>1. Length(loaded[pins["CFG_LEN"]]) \in Nat
      BY <1>2, <2>2, ConfigFacts DEF Pins, MainPins
    <3>2. next \in Process /\ Control(next) /\ next.pc = "read_blob"
      BY <1>1, <1>4, <3>1 DEF ReadLength
    <3> QED BY <1>4, <2>2, <3>2, QuietStep DEF ReadLength
  <2> QED BY <2>1, <2>2
<1>5. CASE ReadBlob(p)
  <2>1. CASE pins["CFG"] # NONE /\ Length(loaded[pins["CFG"]]) = proc[p].len
    <3>1. loaded[pins["CFG"]] \in Config
      BY <1>2, <2>1 DEF Pins, MainPins
    <3> QED BY <1>5, <2>1, <3>1, Reading DEF ReadBlob
  <2>2. CASE ~(pins["CFG"] # NONE /\ Length(loaded[pins["CFG"]]) = proc[p].len)
    BY <1>1, <1>5, <2>2, FailStep DEF ReadBlob
  <2> QED BY <2>1, <2>2
<1>6. CASE OpenRings(p)
  <2>1. CASE Fail(p, "failed")
    BY <2>1, FailStep
  <2>2. CASE StepTo(p, "enable") /\ UNCHANGED kernel
    <3> DEFINE next == [proc[p] EXCEPT !.pc = "enable"]
    <3>1. next \in Process /\ Control(next) /\ next.pc = "enable"
      BY <1>1, <1>6 DEF OpenRings
    <3> QED BY <1>6, <2>2, <3>1, QuietStep DEF OpenRings, StepTo
  <2> QED BY <1>6, <2>1, <2>2 DEF OpenRings
<1> QED BY <1>3, <1>4, <1>5, <1>6

(* Setting up and pinning: no link and no attached program changes.        *)
LEMMA Pinned ==
  ASSUME IInv, NEW p \in Procs,
         EnsureDirs(p) \/ LoadAndPopulate(p) \/ RemovePin(p) \/ Pin(p)
  PROVE  IInv'
<1> USE DEF Process, Steps, Control, Ended, Pinning, Linking, Loading
<1>1. proc[p] \in Process /\ Control(proc[p])
  BY DEF IInv, ProcsOK
<1>2. ASSUME NEW next \in Process, Control(next), Step(p, next), KernelOK',
             next.pc \in Pinning \cup Linking => loaded'[p] # NONE,
             \A q \in Procs : loaded[q] # NONE => loaded'[q] # NONE,
             proc[p].pc # "pin_link", UNCHANGED <<links, attached>>
      PROVE  IInv'
  <2>1. /\ ProcsOK'
        /\ \A q \in Procs \ {p} : proc'[q] = proc[q]
        /\ proc'[p].pc = next.pc
    BY <1>2, StepFacts DEF IInv
  <2>2. Populated'
    BY <1>2, <2>1 DEF IInv, Populated
  <2>3. AttachedIsHeld'
    BY <1>2, <2>1, NoneAssumption DEF IInv, KernelOK, AttachedIsHeld
  <2> QED BY <1>2, <2>1, <2>2, <2>3 DEF IInv
<1>3. CASE EnsureDirs(p)
  <2>1. PICK pc \in {"probe", "load"} :
          StepTo(p, pc) /\ (pc = "probe" => proc[p].cmd = "apply")
    BY <1>3 DEF EnsureDirs
  <2> DEFINE next == [proc[p] EXCEPT !.pc = pc]
  <2>2. next \in Process /\ Control(next) /\ next.pc = pc
    BY <1>1, <1>3, <2>1 DEF EnsureDirs
  <2>3. KernelOK'
    BY <1>3 DEF EnsureDirs, IInv, KernelOK, Root
  <2> QED BY <1>2, <1>3, <2>1, <2>2, <2>3 DEF EnsureDirs, StepTo
<1>4. CASE LoadAndPopulate(p)
  <2>1. CASE Fail(p, "failed")
    BY <2>1, FailStep
  <2>2. CASE /\ loaded' = [loaded EXCEPT ![p] = proc[p].cfg]
             /\ StepTo(p, "remove_pin")
             /\ UNCHANGED <<dirs, pins, links, attached, nics, enabled>>
    <3> DEFINE next == [proc[p] EXCEPT !.pc = "remove_pin"]
    <3>1. proc[p].cfg \in Config /\ proc[p].cfg # NONE
      BY <1>1, ConfigFacts
    <3>2. next \in Process /\ next.pc = "remove_pin" /\ next.cmd = proc[p].cmd
          /\ next.at = 1 /\ next.iface = proc[p].iface
      BY <1>1, <1>4 DEF LoadAndPopulate
    <3>3. proc[p].cmd \in {"apply", "monitor"}
      BY <1>1, <1>4 DEF LoadAndPopulate
    <3>4. Control(next)
      BY <1>1, <1>4, <3>2, <3>3, PinOrderFacts DEF LoadAndPopulate
    <3>5. KernelOK'
      BY <2>2, <3>1 DEF IInv, KernelOK
    <3>6. /\ loaded'[p] # NONE
          /\ \A q \in Procs : loaded[q] # NONE => loaded'[q] # NONE
      BY <2>2, <3>1 DEF IInv, KernelOK
    <3> QED BY <1>2, <1>4, <2>2, <3>2, <3>4, <3>5, <3>6
            DEF LoadAndPopulate, StepTo
  <2> QED BY <1>4, <2>1, <2>2 DEF LoadAndPopulate
<1>5. CASE RemovePin(p)
  <2> DEFINE next == [proc[p] EXCEPT !.pc = "pin"]
  <2>1. next \in Process /\ Control(next) /\ next.pc = "pin"
    BY <1>1, <1>5 DEF RemovePin
  <2>2. KernelOK'
    BY <1>5 DEF RemovePin, IInv, KernelOK
  <2>3. loaded[p] # NONE
    BY <1>5 DEF RemovePin, IInv, Populated
  <2> QED BY <1>2, <1>5, <2>1, <2>2, <2>3 DEF RemovePin, StepTo
<1>6. CASE Pin(p)
  <2> DEFINE name == PinOrder(proc[p].cmd)[proc[p].at]
             next == AfterPin(p)
  <2>1. CASE Fail(p, "failed")
    BY <2>1, FailStep
  <2>2. CASE /\ Root(name) \in dirs
             /\ pins' = [pins EXCEPT ![name] = p]
             /\ Step(p, AfterPin(p))
             /\ UNCHANGED <<dirs, links, attached, nics, loaded, enabled>>
    <3>1. /\ proc[p].cmd \in {"apply", "monitor"}
          /\ proc[p].at \in 1 .. Len(PinOrder(proc[p].cmd))
      BY <1>1, <1>6 DEF Pin
    <3>2. loaded[p] # NONE
      BY <1>6 DEF Pin, IInv, Populated
    <3>3. KernelOK'
      BY <2>2, <3>1, <3>2, PinOrderFacts, NoneAssumption DEF IInv, KernelOK
    <3>4. Targets(p) \subseteq Ifaces
      BY <1>1, <1>6, <3>1, ConfigFacts DEF Targets, Pin
    <3>5. CASE proc[p].at < Len(PinOrder(proc[p].cmd))
      <4>1. next = [proc[p] EXCEPT !.at = @ + 1, !.pc = "remove_pin"]
        BY <3>5 DEF AfterPin
      <4>2. /\ next \in Process /\ next.pc = "remove_pin"
            /\ next.cmd = proc[p].cmd /\ next.at = proc[p].at + 1
            /\ next.iface = proc[p].iface
        <5>1. proc[p].at \in Nat /\ proc[p].at + 1 \in Nat
          BY <1>1
        <5> HIDE DEF next
        <5> QED BY <1>1, <4>1, <5>1
      <4>3. next.at \in 1 .. Len(PinOrder(proc[p].cmd))
        BY <3>1, <3>5, <4>2, PinOrderFacts
      <4>4. Control(next)
        BY <1>1, <1>6, <3>1, <4>2, <4>3 DEF Pin
      <4> QED BY <1>2, <1>6, <2>2, <3>2, <3>3, <4>2, <4>4 DEF Pin
    <3>6. CASE ~(proc[p].at < Len(PinOrder(proc[p].cmd)))
      <4>1. PICK pc \in {"done", "open_rings", "unlink"} :
              /\ next = [proc[p] EXCEPT !.todo = Targets(p), !.pc = pc]
              /\ pc = "open_rings" => proc[p].cmd = "monitor"
        BY <3>1, <3>6 DEF AfterPin, AfterLastLink
      <4>2. /\ next \in Process /\ next.pc = pc
            /\ next.cmd = proc[p].cmd /\ next.iface = proc[p].iface
        BY <1>1, <3>4, <4>1, ZenonT(60)
      <4>3. Control(next)
        BY <1>1, <1>6, <3>1, <4>1, <4>2 DEF Pin
      <4> QED BY <1>2, <1>6, <2>2, <3>2, <3>3, <4>2, <4>3 DEF Pin
    <3> QED BY <3>5, <3>6
  <2> QED BY <1>6, <2>1, <2>2 DEF Pin
<1> QED BY <1>3, <1>4, <1>5, <1>6

(* Attaching.  Between Attach and PinLink the process itself holds the     *)
(* program; whoever is at the path of the link meanwhile, it stays so.     *)
LEMMA Linked ==
  ASSUME IInv, NEW p \in Procs, Unlink(p) \/ Attach(p) \/ PinLink(p)
  PROVE  IInv'
<1> USE DEF Process, Steps, Control, Ended, Pinning, Linking, Loading
<1>1. proc[p] \in Process /\ Control(proc[p])
  BY DEF IInv, ProcsOK
<1>2. /\ p # NONE /\ loaded[p] # NONE
      /\ proc[p].cmd \in {"apply", "monitor"}
  BY <1>1, NoneAssumption
     DEF Unlink, Attach, PinLink, IInv, Populated
<1>3. ASSUME NEW next \in Process, Control(next), Step(p, next), KernelOK',
             UNCHANGED loaded, AttachedIsHeld'
      PROVE  IInv'
  <2>1. ProcsOK' /\ \A q \in Procs \ {p} : proc'[q] = proc[q]
    BY <1>3, StepFacts DEF IInv
  <2>2. Populated'
    BY <1>2, <1>3, <2>1 DEF IInv, Populated
  <2> QED BY <1>3, <2>1, <2>2 DEF IInv
<1>4. CASE Unlink(p)
  <2>1. PICK i \in proc[p].todo :
          /\ Unpin(i)
          /\ Step(p, [proc[p] EXCEPT !.pc = "attach", !.iface = i])
    BY <1>4 DEF Unlink
  <2> DEFINE next == [proc[p] EXCEPT !.pc = "attach", !.iface = i]
  <2>2. i \in Ifaces
    BY <1>1, <2>1
  <2>3. next \in Process /\ Control(next) /\ next.pc = "attach"
    BY <1>1, <1>2, <2>2
  <2>4. KernelOK'
    BY <1>4, <2>1 DEF Unlink, Unpin, IInv, KernelOK
  <2>5. /\ \A q \in Procs \ {p} : proc'[q] = proc[q]
        /\ proc[p].pc # "pin_link"
    BY <1>4, <2>1, <2>3, StepFacts, ZenonT(60) DEF Unlink, IInv
  <2>6. AttachedIsHeld'
    BY <2>1, <2>5, NoneAssumption DEF Unpin, IInv, KernelOK, AttachedIsHeld
  <2> QED BY <1>3, <1>4, <2>1, <2>3, <2>4, <2>6 DEF Unlink
<1>5. CASE Attach(p)
  <2> DEFINE i == proc[p].iface
             next == [proc[p] EXCEPT !.pc = "pin_link"]
  <2>1. CASE Fail(p, "failed")
    BY <2>1, FailStep
  <2>2. CASE /\ attached[i] = NONE
             /\ attached' = [attached EXCEPT ![i] = p]
             /\ StepTo(p, "pin_link")
             /\ UNCHANGED <<dirs, pins, links, nics, loaded, enabled>>
    <3>1. i \in Ifaces
      BY <1>1, <1>5 DEF Attach
    <3>2. next \in Process /\ Control(next)
          /\ next.pc = "pin_link" /\ next.iface = i
      BY <1>1, <1>2, <1>5 DEF Attach
    <3>3. KernelOK'
      BY <2>2, <3>1 DEF IInv, KernelOK
    <3>4. /\ \A q \in Procs \ {p} : proc'[q] = proc[q]
          /\ proc'[p] = next /\ proc[p].pc # "pin_link"
      BY <1>5, <2>2, <3>2, StepFacts DEF Attach, StepTo, IInv
    <3>5. AttachedIsHeld'
      BY <1>2, <2>2, <3>1, <3>2, <3>4, NoneAssumption
         DEF IInv, KernelOK, AttachedIsHeld
    <3> QED BY <1>3, <2>2, <3>2, <3>3, <3>5 DEF StepTo
  <2> QED BY <1>5, <2>1, <2>2 DEF Attach
<1>6. CASE PinLink(p)
  <2> DEFINE i == proc[p].iface
             left == proc[p].todo \ {i}
             after == IF left = {} THEN AfterLastLink(p) ELSE "unlink"
             next == [proc[p] EXCEPT !.todo = left, !.pc = after]
  <2>1. CASE Fail(p, "failed")
    BY <2>1, FailStep
  <2>2. CASE /\ "udp" \in dirs /\ links[i] = NONE
             /\ links' = [links EXCEPT ![i] = p]
             /\ Step(p, next)
             /\ UNCHANGED <<dirs, pins, attached, nics, loaded, enabled>>
    <3>1. i \in Ifaces
      BY <1>1, <1>6 DEF PinLink
    <3>2. /\ after \in {"done", "open_rings", "unlink"}
          /\ after = "open_rings" => proc[p].cmd = "monitor"
      BY <1>2 DEF AfterLastLink
    <3>3. next \in Process /\ next.pc = after
          /\ next.cmd = proc[p].cmd /\ next.iface = i
      BY <1>1, <3>2
    <3>4. Control(next)
      BY <1>1, <1>2, <1>6, <3>2, <3>3, ZenonT(60) DEF PinLink
    <3>5. KernelOK'
      BY <2>2, <3>1 DEF IInv, KernelOK
    <3>6. /\ \A q \in Procs \ {p} : proc'[q] = proc[q]
          /\ proc[p].pc = "pin_link"
      <4>1. proc[p].pc = "pin_link" /\ ProcsOK
        BY <1>6 DEF PinLink, IInv
      <4> HIDE DEF next
      <4> QED BY <2>2, <3>3, <3>4, <4>1, StepFacts
    <3>7. AttachedIsHeld'
      BY <1>2, <2>2, <3>1, <3>6, NoneAssumption
         DEF IInv, KernelOK, AttachedIsHeld
    <3> HIDE DEF next
    <3> QED BY <1>3, <2>2, <3>3, <3>4, <3>5, <3>7
  <2> QED BY <1>6, <2>1, <2>2 DEF PinLink
<1> QED BY <1>4, <1>5, <1>6

LEMMA Switched ==
  ASSUME IInv, NEW p \in Procs, Enable(p) \/ CtrlC(p)
  PROVE  IInv'
<1> USE DEF Process, Steps, Control, Ended, Pinning, Linking, Loading
<1>1. CASE Fail(p, "failed")
  BY <1>1, FailStep
<1>2. CASE ~Fail(p, "failed")
  <2>1. PICK pc \in {"waiting", "done"} :
          StepTo(p, pc) /\ UNCHANGED <<dirs, pins, links, attached, nics, loaded>>
    BY <1>2 DEF Enable, CtrlC
  <2> DEFINE next == [proc[p] EXCEPT !.pc = pc]
  <2>2. proc[p].cmd = "monitor" /\ proc[p].pc \in {"enable", "waiting"}
    BY DEF Enable, CtrlC, IInv, ProcsOK
  <2>3. next \in Process /\ Control(next) /\ next.pc = pc
    BY <2>2 DEF IInv, ProcsOK
  <2>4. /\ ProcsOK'
        /\ \A q \in Procs \ {p} : proc'[q] = proc[q]
        /\ proc'[p].pc = pc
    <3>1. Step(p, next) /\ ProcsOK
      BY <2>1 DEF StepTo, IInv
    <3> HIDE DEF next, Process, Steps, Control, Ended, Pinning, Linking, Loading
    <3> QED BY <2>3, <3>1, StepFacts
  <2>5. KernelOK'
    <3>1. enabled' \subseteq Procs
      BY <1>2 DEF Enable, CtrlC, IInv, KernelOK, Pins, MainPins
    <3> QED BY <2>1, <3>1 DEF IInv, KernelOK
  <2>6. Populated'
    BY <2>1, <2>4 DEF IInv, Populated
  <2>7. AttachedIsHeld'
    BY <2>1, <2>2, <2>4, NoneAssumption DEF IInv, KernelOK, AttachedIsHeld
  <2> QED BY <2>4, <2>5, <2>6, <2>7 DEF IInv
<1> QED BY <1>1, <1>2

(* A purge only removes, and a link together with its program.             *)
LEMMA Purged ==
  ASSUME IInv, NEW p \in Procs,
         \/ DetachLink(p) \/ RemoveUdpTree(p)
         \/ RemoveMainPin(p) \/ RemoveMainTree(p)
  PROVE  IInv'
<1> USE DEF Process, Steps, Control, Ended, Pinning, Linking, Loading
<1>1. CASE DetachLink(p)
  <2>1. PICK i \in Ifaces : Unpin(i)
    BY <1>1 DEF DetachLink
  <2>2. KernelOK'
    BY <1>1, <2>1 DEF DetachLink, Unpin, IInv, KernelOK
  <2>3. AttachedIsHeld'
    BY <1>1, <2>1, NoneAssumption
       DEF DetachLink, Unpin, IInv, KernelOK, AttachedIsHeld
  <2>4. ProcsOK' /\ Populated'
    BY <1>1 DEF DetachLink, IInv, ProcsOK, Populated
  <2> QED BY <2>2, <2>3, <2>4 DEF IInv
<1>2. CASE RemoveMainPin(p)
  <2>1. KernelOK'
    BY <1>2 DEF RemoveMainPin, IInv, KernelOK
  <2>2. ProcsOK' /\ Populated' /\ AttachedIsHeld'
    BY <1>2 DEF RemoveMainPin, IInv, ProcsOK, Populated, AttachedIsHeld
  <2> QED BY <2>1, <2>2 DEF IInv
<1>3. CASE RemoveUdpTree(p) \/ RemoveMainTree(p)
  <2>1. PICK pc \in {"remove_main", "done"} : StepTo(p, pc)
    BY <1>3 DEF RemoveUdpTree, RemoveMainTree
  <2> DEFINE next == [proc[p] EXCEPT !.pc = pc]
  <2>2. /\ proc[p].cmd = "purge" /\ proc[p].pc \in {"detach", "remove_main"}
        /\ UNCHANGED <<links, attached, loaded>>
    BY <1>3 DEF RemoveUdpTree, RemoveMainTree, IInv, ProcsOK
  <2>3. next \in Process /\ Control(next) /\ next.pc = pc
    BY <2>2 DEF IInv, ProcsOK
  <2>4. /\ ProcsOK'
        /\ \A q \in Procs \ {p} : proc'[q] = proc[q]
        /\ proc'[p].pc = pc
    <3>1. Step(p, next) /\ ProcsOK
      BY <2>1 DEF StepTo, IInv
    <3> HIDE DEF next
    <3> QED BY <2>3, <3>1, StepFacts
  <2>5. KernelOK'
    <3>1. CASE RemoveUdpTree(p)
      BY <3>1 DEF RemoveUdpTree, IInv, KernelOK, Root
    <3>2. CASE RemoveMainTree(p)
      BY <3>2 DEF RemoveMainTree, IInv, KernelOK, Root, Pins
    <3> QED BY <1>3, <3>1, <3>2
  <2>6. Populated'
    BY <2>2, <2>4 DEF IInv, Populated
  <2>7. AttachedIsHeld'
    BY <2>2, <2>4, NoneAssumption DEF IInv, KernelOK, AttachedIsHeld
  <2> QED BY <2>4, <2>5, <2>6, <2>7 DEF IInv
<1> QED BY <1>1, <1>2, <1>3

LEMMA Plugged ==
  ASSUME IInv, NEW i \in Ifaces, Unplug(i) \/ Plug(i)
  PROVE  IInv'
<1>1. KernelOK'
  BY DEF Unplug, Plug, IInv, KernelOK
<1>2. AttachedIsHeld'
  BY DEF Unplug, Plug, IInv, KernelOK, AttachedIsHeld
<1>3. ProcsOK' /\ Populated'
  BY DEF Unplug, Plug, IInv, ProcsOK, Populated
<1> QED BY <1>1, <1>2, <1>3 DEF IInv

-----------------------------------------------------------------------------
(* The invariant, and a program in nobody's hands *)

LEMMA IInvInit == Init => IInv
<1> SUFFICES ASSUME Init PROVE IInv
  OBVIOUS
<1>1. ProcsOK
  BY IdleOK DEF Init, ProcsOK
<1>2. KernelOK
  BY DEF Init, KernelOK
<1>3. Populated /\ AttachedIsHeld
  BY DEF Init, Populated, AttachedIsHeld, Idle, Pinning, Linking
<1> QED BY <1>1, <1>2, <1>3 DEF IInv

LEMMA IInvNext == IInv /\ [Next]_vars => IInv'
<1> SUFFICES ASSUME IInv, [Next]_vars PROVE IInv'
  OBVIOUS
<1>1. ASSUME NEW p \in Procs, Command(p) PROVE IInv'
  <2>1. CASE Stop(p)
    BY <2>1, FailStep DEF Stop
  <2> QED BY <1>1, <2>1, Starting, Quiet, Pinned, Linked, Switched, Purged
          DEF Command
<1>2. CASE UNCHANGED vars
  BY <1>2 DEF vars, kernel, IInv, ProcsOK, KernelOK, Populated, AttachedIsHeld
<1> QED BY <1>1, <1>2, Plugged DEF Next

THEOREM InvCorrect == Spec => []IInv
<1> QED BY IInvInit, IInvNext, PTL DEF Spec

(* However many commands race, fail or are killed, and whatever interfaces *)
(* come and go, every attached program can be found and removed.           *)
THEOREM Held == Spec => []AttachedIsHeld
<1>1. IInv => AttachedIsHeld
  BY DEF IInv
<1> QED BY <1>1, InvCorrect, PTL

-----------------------------------------------------------------------------
(* What a purge leaves when commands do not overlap *)

(* At most one command works, and half way through a purge nothing is left *)
(* of the tree with the links.                                             *)
Alone == \A p, q \in Procs : Working(p) /\ Working(q) => p = q

HalfPurged ==
  \A p \in Procs : proc[p].pc = "remove_main" =>
    /\ "udp" \notin dirs /\ pins["program"] = NONE
    /\ \A i \in Ifaces : links[i] = NONE /\ attached[i] = NONE

PInv == SERIAL => Alone /\ HalfPurged /\ PurgeLeavesNothing

\* What any step of process p leaves as it is, and how it ends.
Steady(p) ==
  /\ UNCHANGED <<dirs, pins, links>>
  /\ \A i \in Ifaces : attached'[i] \in {attached[i], NONE}

StepOf(p) ==
  /\ \A q \in Procs \ {p} : proc'[q] = proc[q]
  /\ proc'[p].pc # "idle"
  /\ proc'[p].pc \in Ended \cup {"waiting"} => last' = p
  /\ SERIAL /\ ~Working(p) => AtRest \/ proc'[p].pc \in Ended
  /\ ~Working(p) => Steady(p)
  /\ proc'[p].pc = "remove_main" => RemoveUdpTree(p) \/ RemoveMainPin(p)
  /\ proc'[p].cmd = "purge" /\ proc'[p].pc = "done"
       => \/ RemoveMainTree(p)
          \/ (SERIAL => AtRest) /\ dirs = {} /\ Steady(p)

LEMMA StepEnds ==
  ASSUME ProcsOK, NEW p \in Procs, NEW next, Step(p, next)
  PROVE  /\ \A q \in Procs \ {p} : proc'[q] = proc[q]
         /\ proc'[p].pc = next.pc /\ proc'[p].cmd = next.cmd
         /\ next.pc \in Ended \cup {"waiting"} => last' = p
<1>1. PICK r : proc' = [proc EXCEPT ![p] = r] /\ r.cmd = next.cmd /\ r.pc = next.pc
  <2> DEFINE finished == [Idle EXCEPT !.cmd = next.cmd, !.pc = next.pc,
                                      !.given = next.given, !.cfg = next.cfg]
             stopped  == [Idle EXCEPT !.cmd = next.cmd, !.pc = next.pc]
  <2>1. /\ finished.cmd = next.cmd /\ finished.pc = next.pc
        /\ stopped.cmd = next.cmd /\ stopped.pc = next.pc
    BY DEF Idle
  <2>2. proc' \in {[proc EXCEPT ![p] = finished], [proc EXCEPT ![p] = stopped],
                   [proc EXCEPT ![p] = next]}
    BY DEF Step, Becomes, Ended
  <2> HIDE DEF finished, stopped
  <2> QED BY <2>1, <2>2
<1>2. next.pc \in Ended \cup {"waiting"} => last' = p
  BY DEF Step
<1> QED BY <1>1, <1>2 DEF ProcsOK

LEMMA StartOf ==
  ASSUME IInv, NEW p \in Procs,
         StartApply(p) \/ StartShow(p) \/ StartMonitor(p) \/ StartPurge(p)
  PROVE  StepOf(p)
<1>1. PICK cmd, pc, given, iface :
        /\ Start(p, cmd, pc, given, iface) /\ UNCHANGED kernel
        /\ pc \notin {"idle", "waiting", "failed", "unreadable", "remove_main"}
        /\ cmd = "purge" /\ pc = "done" => dirs = {}
  BY DEF StartApply, StartShow, StartMonitor, StartPurge
<1> DEFINE next == [Idle EXCEPT !.cmd = cmd, !.pc = pc, !.given = given,
                                !.cfg = given, !.iface = iface]
<1>2. /\ proc' = [proc EXCEPT ![p] = next] /\ (pc = "done" => last' = p)
      /\ next.cmd = cmd /\ next.pc = pc
  BY <1>1 DEF Start, Becomes, Idle
<1>3. SERIAL => AtRest
  BY <1>1 DEF Start, AtRest
<1>4. Steady(p)
  BY <1>1 DEF Steady, kernel
<1> HIDE DEF next
<1>5. proc'[p] = next /\ \A q \in Procs \ {p} : proc'[q] = proc[q]
  BY <1>2 DEF IInv, ProcsOK
<1> QED BY <1>1, <1>2, <1>3, <1>4, <1>5 DEF StepOf, Ended

LEMMA FailOf ==
  ASSUME IInv, NEW p \in Procs, NEW how \in {"failed", "unreadable"},
         Fail(p, how)
  PROVE  StepOf(p)
<1> DEFINE next == [proc[p] EXCEPT !.pc = how]
<1>1. Step(p, next) /\ next.pc = how /\ ProcsOK
  BY DEF Fail, StepTo, IInv, ProcsOK, Process
<1>2. Steady(p)
  BY DEF Steady, Fail
<1> HIDE DEF next
<1> QED BY <1>1, <1>2, StepEnds DEF StepOf, Ended

(* A step of apply, show or monitor.                                       *)
LEMMA OtherOf ==
  ASSUME IInv, NEW p \in Procs, NEW next, Step(p, next),
         next.cmd = proc[p].cmd, next.cmd # "purge",
         next.pc \notin {"idle", "remove_main"},
         Working(p)
  PROVE  StepOf(p)
<1>1. ProcsOK
  BY DEF IInv
<1> QED BY <1>1, StepEnds DEF StepOf

LEMMA SetupOf ==
  ASSUME IInv, NEW p \in Procs,
         \/ EnsureDirs(p) \/ Probe(p) \/ ReadLength(p) \/ ReadBlob(p)
         \/ LoadAndPopulate(p) \/ RemovePin(p) \/ Pin(p)
  PROVE  StepOf(p)
<1> USE DEF Ended
<1>1. proc[p] \in Process /\ Control(proc[p])
  BY DEF IInv, ProcsOK
<1>2. Working(p) /\ proc[p].cmd # "purge"
  BY <1>1 DEF Working, Control, Pinning, EnsureDirs, Probe, ReadLength,
              ReadBlob, LoadAndPopulate, RemovePin, Pin
<1>3. ASSUME NEW pc \in Steps \ {"idle", "remove_main"}, StepTo(p, pc)
      PROVE  StepOf(p)
  <2> DEFINE next == [proc[p] EXCEPT !.pc = pc]
  <2>1. Step(p, next) /\ next.cmd = proc[p].cmd /\ next.pc = pc
    BY <1>1, <1>3 DEF StepTo, Process
  <2> HIDE DEF next
  <2> QED BY <1>2, <2>1, OtherOf
<1>4. ASSUME NEW cfg, HasRead(p, cfg) PROVE StepOf(p)
  <2>1. PICK c : \E pc \in {"load", "done"} :
          Step(p, [proc[p] EXCEPT !.cfg = c, !.pc = pc])
    BY <1>4 DEF HasRead
  <2>2. PICK pc \in {"load", "done"} :
          Step(p, [proc[p] EXCEPT !.cfg = c, !.pc = pc])
    BY <2>1
  <2> DEFINE next == [proc[p] EXCEPT !.cfg = c, !.pc = pc]
  <2>3. Step(p, next) /\ next.cmd = proc[p].cmd /\ next.pc = pc
    BY <1>1, <2>2 DEF Process
  <2> HIDE DEF next
  <2> QED BY <1>2, <2>3, OtherOf
<1>5. CASE EnsureDirs(p) \/ Probe(p) \/ RemovePin(p)
  <2>1. PICK pc \in {"probe", "load", "read_length", "pin"} : StepTo(p, pc)
    BY <1>5 DEF EnsureDirs, Probe, RemovePin
  <2> QED BY <1>3, <2>1 DEF Steps
<1>6. CASE ReadLength(p)
  <2>1. CASE pins["CFG_LEN"] = NONE
    BY <1>4, <1>6, <2>1 DEF ReadLength
  <2>2. CASE pins["CFG_LEN"] # NONE
    <3> DEFINE next == [proc[p] EXCEPT
                          !.len = Length(loaded[pins["CFG_LEN"]]),
                          !.pc = "read_blob"]
    <3>1. Step(p, next) /\ next.cmd = proc[p].cmd /\ next.pc = "read_blob"
      BY <1>1, <1>6, <2>2 DEF ReadLength, Process
    <3> HIDE DEF next
    <3> QED BY <1>2, <3>1, OtherOf
  <2> QED BY <2>1, <2>2
<1>7. CASE ReadBlob(p)
  BY <1>4, <1>7, FailOf DEF ReadBlob
<1>8. CASE LoadAndPopulate(p)
  BY <1>3, <1>8, FailOf DEF LoadAndPopulate, Steps
<1>9. CASE Pin(p)
  <2>1. CASE Step(p, AfterPin(p))
    <3>1. AfterPin(p).cmd = proc[p].cmd
      BY <1>1 DEF AfterPin, Process
    <3>2. AfterPin(p).pc \in {"remove_pin", "done", "open_rings", "unlink"}
      BY <1>1 DEF AfterPin, AfterLastLink, Process
    <3> QED BY <1>2, <2>1, <3>1, <3>2, OtherOf
  <2> QED BY <1>9, <2>1, FailOf DEF Pin
<1> QED BY <1>5, <1>6, <1>7, <1>8, <1>9

LEMMA LinkOf ==
  ASSUME IInv, NEW p \in Procs, Unlink(p) \/ Attach(p) \/ PinLink(p)
  PROVE  StepOf(p)
<1>1. proc[p] \in Process /\ Control(proc[p])
  BY DEF IInv, ProcsOK
<1>2. Working(p) /\ proc[p].cmd # "purge"
  BY <1>1 DEF Working, Ended, Control, Linking, Unlink, Attach, PinLink
<1>3. ASSUME NEW pc \in {"attach", "pin_link", "done", "open_rings", "unlink"},
             NEW todo, NEW iface,
             Step(p, [proc[p] EXCEPT !.pc = pc, !.todo = todo, !.iface = iface])
      PROVE  StepOf(p)
  <2> DEFINE next == [proc[p] EXCEPT !.pc = pc, !.todo = todo, !.iface = iface]
  <2>1. Step(p, next) /\ next.cmd = proc[p].cmd /\ next.pc = pc
    BY <1>1, <1>3 DEF Process
  <2> HIDE DEF next
  <2> QED BY <1>2, <2>1, OtherOf
<1>4. CASE Unlink(p)
  <2>1. PICK i : Step(p, [proc[p] EXCEPT !.pc = "attach", !.iface = i])
    BY <1>4 DEF Unlink
  <2>2. [proc[p] EXCEPT !.pc = "attach", !.iface = i]
          = [proc[p] EXCEPT !.pc = "attach", !.todo = proc[p].todo, !.iface = i]
    BY <1>1 DEF Process
  <2> QED BY <1>3, <2>1, <2>2
<1>5. CASE Attach(p)
  <2>1. CASE StepTo(p, "pin_link")
    <3>1. [proc[p] EXCEPT !.pc = "pin_link"]
            = [proc[p] EXCEPT !.pc = "pin_link", !.todo = proc[p].todo,
                              !.iface = proc[p].iface]
      BY <1>1 DEF Process
    <3> QED BY <1>3, <2>1, <3>1 DEF StepTo
  <2> QED BY <1>5, <2>1, FailOf DEF Attach
<1>6. CASE PinLink(p)
  <2> DEFINE left == proc[p].todo \ {proc[p].iface}
             after == IF left = {} THEN AfterLastLink(p) ELSE "unlink"
  <2>1. CASE Step(p, [proc[p] EXCEPT !.todo = left, !.pc = after])
    <3>1. [proc[p] EXCEPT !.todo = left, !.pc = after]
            = [proc[p] EXCEPT !.pc = after, !.todo = left,
                              !.iface = proc[p].iface]
      BY <1>1 DEF Process
    <3>2. after \in {"done", "open_rings", "unlink"}
      BY DEF AfterLastLink
    <3> HIDE DEF after, left
    <3> QED BY <1>3, <2>1, <3>1, <3>2
  <2> QED BY <1>6, <2>1, FailOf DEF PinLink
<1> QED BY <1>4, <1>5, <1>6

LEMMA MonitorOf ==
  ASSUME IInv, NEW p \in Procs, OpenRings(p) \/ Enable(p) \/ CtrlC(p)
  PROVE  StepOf(p)
<1>1. /\ proc[p] \in Process /\ Control(proc[p]) /\ ProcsOK
      /\ proc[p].cmd = "monitor"
  BY DEF IInv, ProcsOK, Control, OpenRings, Enable, CtrlC
<1>2. CASE Fail(p, "failed")
  BY <1>2, FailOf
<1>3. CASE ~Fail(p, "failed")
  <2>1. PICK pc \in {"enable", "waiting", "done"} :
          StepTo(p, pc) /\ (Working(p) \/ (pc = "done" /\ Steady(p)))
    BY <1>3 DEF OpenRings, Enable, CtrlC, Working, Ended, Steady
  <2> DEFINE next == [proc[p] EXCEPT !.pc = pc]
  <2>2. Step(p, next) /\ next.cmd = "monitor" /\ next.pc = pc
    BY <1>1, <2>1 DEF StepTo, Process
  <2> HIDE DEF next
  <2> QED BY <1>1, <2>1, <2>2, StepEnds DEF StepOf, Ended
<1> QED BY <1>2, <1>3

LEMMA PurgeOf ==
  ASSUME IInv, NEW p \in Procs,
         \/ DetachLink(p) \/ RemoveUdpTree(p)
         \/ RemoveMainPin(p) \/ RemoveMainTree(p)
  PROVE  StepOf(p)
<1>1. proc[p] \in Process /\ ProcsOK
  BY DEF IInv, ProcsOK
<1>2. Working(p) /\ proc[p].pc \in {"detach", "remove_main"}
  BY DEF Working, Ended, DetachLink, RemoveUdpTree, RemoveMainPin, RemoveMainTree
<1>3. CASE DetachLink(p) \/ RemoveMainPin(p)
  <2>1. proc' = proc
    BY <1>3 DEF DetachLink, RemoveMainPin
  <2>2. proc[p].pc = "remove_main" => RemoveMainPin(p)
    BY <1>3 DEF DetachLink
  <2> QED BY <1>2, <2>1, <2>2 DEF StepOf, Ended
<1>4. CASE RemoveUdpTree(p) \/ RemoveMainTree(p)
  <2>1. PICK pc \in {"remove_main", "done"} :
          /\ StepTo(p, pc)
          /\ pc = "remove_main" => RemoveUdpTree(p)
          /\ pc = "done" => RemoveMainTree(p)
    BY <1>4 DEF RemoveUdpTree, RemoveMainTree
  <2> DEFINE next == [proc[p] EXCEPT !.pc = pc]
  <2>2. Step(p, next) /\ next.pc = pc
    BY <1>1, <2>1 DEF StepTo, Process
  <2> HIDE DEF next
  <2> QED BY <1>1, <1>2, <2>1, <2>2, StepEnds DEF StepOf, Ended
<1> QED BY <1>3, <1>4

LEMMA CommandOf ==
  ASSUME IInv, NEW p \in Procs, Command(p)
  PROVE  StepOf(p)
<1>1. CASE Stop(p)
  BY <1>1, FailOf DEF Stop
<1> QED BY <1>1, StartOf, SetupOf, LinkOf, MonitorOf, PurgeOf DEF Command

(* Without a process about to pin a link, every program has its link.      *)
LEMMA NoneLeftOver ==
  ASSUME IInv, NEW i \in Ifaces, links[i] = NONE,
         \A q \in Procs : proc[q].pc # "pin_link"
  PROVE  attached[i] = NONE
BY DEF IInv, KernelOK, AttachedIsHeld

LEMMA PurgeNext ==
  ASSUME IInv, PInv, SERIAL, NEW p \in Procs, Command(p)
  PROVE  PInv'
<1>1. StepOf(p)
  BY CommandOf
<1>2. \A q \in Procs : Working(q) <=> proc[q].pc \notin Ended \cup {"idle", "waiting"}
  BY DEF Working
<1>3. \A q \in Procs :
        Working(q)' <=> proc'[q].pc \notin Ended \cup {"idle", "waiting"}
  BY DEF Working
<1>4. Alone'
  <2>1. \A q \in Procs \ {p} : Working(q)' <=> Working(q)
    BY <1>1, <1>2, <1>3 DEF StepOf
  <2>2. Working(p) \/ ~Working(p)' \/ \A q \in Procs : ~Working(q)
    BY <1>1, <1>3 DEF StepOf, AtRest
  <2> QED BY <2>1, <2>2 DEF PInv, Alone
<1>5. HalfPurged'
  <2> SUFFICES ASSUME NEW q \in Procs, proc'[q].pc = "remove_main"
               PROVE  /\ "udp" \notin dirs' /\ pins'["program"] = NONE
                      /\ \A i \in Ifaces : links'[i] = NONE /\ attached'[i] = NONE
    BY DEF HalfPurged
  <2>1. CASE q # p
    <3>1. proc[q].pc = "remove_main" /\ Working(q)
      BY <1>1, <1>2, <2>1 DEF StepOf, Ended
    <3>2. ~Working(p)
      BY <2>1, <3>1 DEF PInv, Alone
    <3> QED BY <1>1, <3>1, <3>2 DEF StepOf, Steady, PInv, HalfPurged
  <2>2. CASE q = p /\ RemoveUdpTree(p)
    <3>1. \A r \in Procs : proc[r].pc # "pin_link"
      BY <1>2, <2>2 DEF RemoveUdpTree, PInv, Alone, Ended
    <3>2. \A i \in Ifaces : attached[i] = NONE
      BY <2>2, <3>1, NoneLeftOver DEF RemoveUdpTree
    <3>3. pins'["program"] = NONE
      BY <2>2 DEF RemoveUdpTree, IInv, KernelOK, Pins
    <3> QED BY <2>2, <3>2, <3>3 DEF RemoveUdpTree
  <2>3. CASE q = p /\ RemoveMainPin(p)
    <3>1. pins'["program"] = pins["program"]
      BY <2>3 DEF RemoveMainPin, IInv, KernelOK, Pins, MainPins
    <3> QED BY <2>3, <3>1 DEF RemoveMainPin, PInv, HalfPurged
  <2> QED BY <1>1, <2>1, <2>2, <2>3 DEF StepOf
<1>6. PurgeLeavesNothing'
  <2> SUFFICES ASSUME AtRest', EndedWell(last, "purge")', last' # NONE
               PROVE  /\ dirs' = {}
                      /\ \A name \in Pins : pins'[name] = NONE
                      /\ \A i \in Ifaces : links'[i] = NONE /\ attached'[i] = NONE
    BY DEF PurgeLeavesNothing
  <2>1. ~Working(p)'
    BY DEF AtRest
  <2>2. last' = p
    BY <1>1, <1>3, <2>1 DEF StepOf
  <2>3. proc'[p].cmd = "purge" /\ proc'[p].pc = "done"
    BY <2>2 DEF EndedWell
  <2>4. CASE RemoveMainTree(p)
    <3>1. /\ "udp" \notin dirs /\ pins["program"] = NONE
          /\ \A i \in Ifaces : links[i] = NONE /\ attached[i] = NONE
      BY <2>4 DEF RemoveMainTree, PInv, HalfPurged
    <3>2. dirs' = {}
      BY <2>4, <3>1 DEF RemoveMainTree, IInv, KernelOK
    <3> QED BY <2>4, <3>1, <3>2 DEF RemoveMainTree, Pins
  <2>5. CASE AtRest /\ dirs = {} /\ Steady(p)
    <3>1. /\ \A name \in Pins : pins[name] = NONE
          /\ \A i \in Ifaces : links[i] = NONE
      BY <2>5 DEF IInv, KernelOK
    <3>2. \A q \in Procs : proc[q].pc # "pin_link"
      BY <1>2, <2>5 DEF AtRest, Ended
    <3>3. \A i \in Ifaces : attached[i] = NONE
      BY <3>1, <3>2, NoneLeftOver
    <3> QED BY <2>5, <3>1, <3>3 DEF Steady
  <2> QED BY <1>1, <2>3, <2>4, <2>5 DEF StepOf
<1> QED BY <1>4, <1>5, <1>6 DEF PInv

(* The invariant of commands that do not overlap.                          *)
THEOREM SerialCorrect == Spec => []PInv
<1>1. Init => PInv
  BY DEF Init, PInv, Alone, HalfPurged, PurgeLeavesNothing, Working, Idle
<1>2. IInv /\ PInv /\ [Next]_vars => PInv'
  <2> SUFFICES ASSUME IInv, PInv, [Next]_vars, SERIAL PROVE PInv'
    BY DEF PInv
  <2>1. CASE UNCHANGED vars
    BY <2>1 DEF vars, kernel, PInv, Alone, HalfPurged, PurgeLeavesNothing,
                Working, AtRest, EndedWell
  <2>2. ASSUME NEW i \in Ifaces, Unplug(i) \/ Plug(i) PROVE PInv'
    <3>1. /\ UNCHANGED <<dirs, pins, links, proc, last>>
          /\ \A j \in Ifaces : attached'[j] \in {attached[j], NONE}
      BY <2>2 DEF Unplug, Plug, IInv, KernelOK
    <3> QED BY <3>1 DEF PInv, Alone, HalfPurged, PurgeLeavesNothing, Working,
                        AtRest, EndedWell
  <2> QED BY <2>1, <2>2, PurgeNext DEF Next
<1> QED BY <1>1, <1>2, InvCorrect, PTL DEF Spec

(* When commands do not overlap, a purge that succeeds leaves nothing,     *)
(* whatever commands before it failed or were killed at whatever step, and *)
(* however many interfaces and configurations there are.                   *)
THEOREM PurgeComplete == Spec => [](SERIAL => PurgeLeavesNothing)
<1>1. PInv => (SERIAL => PurgeLeavesNothing)
  BY DEF PInv
<1> QED BY <1>1, SerialCorrect, PTL

-----------------------------------------------------------------------------
(* The rules and the interfaces they are written for *)

(* An object has rules for every interface its configuration names, except *)
(* the ones that went away under its command; while the command works, the *)
(* ones it has rules for are present.                                      *)
IndexOK ==
  /\ indexed \in [Procs -> SUBSET Ifaces]
  /\ slipped \in [Procs -> SUBSET Ifaces]
  /\ \A p \in Procs :
       /\ Working(p) => indexed[p] \subseteq nics
       /\ proc[p].pc = "idle" => indexed[p] = {}
       /\ loaded[p] # NONE /\ proc[p].pc \notin {"failed", "unreadable"}
            => InterfacesOf(loaded[p]) \subseteq indexed[p] \cup slipped[p]

\* What a step of p may do to the objects.
Populates(p) ==
  /\ InterfacesOf(proc[p].cfg) \subseteq nics
  /\ loaded' = [loaded EXCEPT ![p] = proc[p].cfg]
  /\ indexed' = [indexed EXCEPT ![p] = InterfacesOf(proc[p].cfg)]
  /\ slipped' = slipped

Forgets(p) ==
  Forget(p) /\ loaded' = loaded /\ proc'[p].pc \in {"failed", "unreadable"}

LEMMA Forgetting ==
  ASSUME IInv, NEW p \in Procs, NEW how \in {"failed", "unreadable"},
         Fail(p, how)
  PROVE  Forgets(p)
<1> DEFINE next == [proc[p] EXCEPT !.pc = how]
<1>1. Step(p, next) /\ next.pc = how /\ ProcsOK
  BY DEF Fail, StepTo, IInv, ProcsOK, Process
<1> HIDE DEF next
<1>2. proc'[p].pc = how
  BY <1>1, StepEnds
<1> QED BY <1>2 DEF Forgets, Fail

LEMMA ObjectsOf ==
  ASSUME IInv, NEW p \in Procs, Command(p)
  PROVE  /\ nics' = nics /\ proc[p].pc \notin Ended
         /\ UNCHANGED objects \/ Populates(p) \/ Forgets(p)
<1>1. nics' = nics
  BY DEF Command, StartApply, StartShow, StartMonitor, StartPurge, EnsureDirs,
     Probe, ReadLength, ReadBlob, LoadAndPopulate, RemovePin, Pin, Unlink, Attach,
     PinLink, OpenRings, Enable, CtrlC, DetachLink, RemoveUdpTree, RemoveMainPin,
     RemoveMainTree, Stop, Fail, kernel
<1>2. proc[p].pc \notin Ended
  <2>1. Idle.pc = "idle"
    BY DEF Idle
  <2> QED BY <2>1 DEF Command, StartApply, StartShow, StartMonitor, StartPurge,
     Start, EnsureDirs, Probe, ReadLength, ReadBlob, LoadAndPopulate, RemovePin,
     Pin, Unlink, Attach, PinLink, OpenRings, Enable, CtrlC, DetachLink,
     RemoveUdpTree, RemoveMainPin, RemoveMainTree, Stop, Working, Ended
<1>3. CASE Fail(p, "failed") \/ Fail(p, "unreadable")
  BY <1>1, <1>2, <1>3, Forgetting
<1>4. CASE LoadAndPopulate(p) /\ ~Fail(p, "failed")
  BY <1>1, <1>2, <1>4 DEF LoadAndPopulate, Populates
<1>5. CASE ~LoadAndPopulate(p) /\ ~(Fail(p, "failed") \/ Fail(p, "unreadable"))
  <2>1. UNCHANGED objects
    BY <1>5 DEF Command, StartApply, StartShow, StartMonitor, StartPurge,
       EnsureDirs, Probe, ReadLength, ReadBlob, RemovePin, Pin, Unlink, Attach,
       PinLink, OpenRings, Enable, CtrlC, DetachLink, RemoveUdpTree,
       RemoveMainPin, RemoveMainTree, Stop, kernel
  <2> QED BY <1>1, <1>2, <2>1
<1> QED BY <1>3, <1>4, <1>5

\* A monitor that waits does nothing else until it ends.
LEMMA WaitingEnds ==
  ASSUME IInv, NEW p \in Procs, Command(p), proc[p].pc = "waiting"
  PROVE  ~Working(p)'
<1>1. PICK pc \in {"done", "failed"} : StepTo(p, pc)
  <2>1. CtrlC(p) \/ Stop(p)
    <3>1. Idle.pc = "idle"
      BY DEF Idle
    <3> QED BY <3>1 DEF Command, StartApply, StartShow, StartMonitor, StartPurge,
       Start, EnsureDirs, Probe, ReadLength, ReadBlob, LoadAndPopulate, RemovePin,
       Pin, Unlink, Attach, PinLink, OpenRings, Enable, DetachLink, RemoveUdpTree,
       RemoveMainPin, RemoveMainTree
  <2> QED BY <2>1 DEF CtrlC, Stop, Fail
<1> DEFINE next == [proc[p] EXCEPT !.pc = pc]
<1>2. Step(p, next) /\ next.pc = pc /\ ProcsOK
  BY <1>1 DEF StepTo, IInv, ProcsOK, Process
<1> HIDE DEF next
<1>3. proc'[p].pc = pc
  BY <1>2, StepEnds
<1> QED BY <1>3 DEF Working, Ended

LEMMA IndexStep ==
  ASSUME IInv, IndexOK, NEW p \in Procs, Command(p)
  PROVE  IndexOK'
<1>1. /\ StepOf(p) /\ nics' = nics /\ proc[p].pc \notin Ended
      /\ UNCHANGED objects \/ Populates(p) \/ Forgets(p)
  BY CommandOf, ObjectsOf
<1>2. /\ \A q \in Procs \ {p} : proc'[q] = proc[q]
      /\ proc'[p].pc # "idle"
      /\ InterfacesOf(proc[p].cfg) \subseteq Ifaces
      /\ loaded \in [Procs -> Config \cup {NONE}]
  BY <1>1, ConfigFacts DEF StepOf, IInv, ProcsOK, KernelOK, Process
<1>3. indexed' \in [Procs -> SUBSET Ifaces] /\ slipped' \in [Procs -> SUBSET Ifaces]
  BY <1>1, <1>2 DEF IndexOK, Populates, Forgets, Forget
<1>4. \A q \in Procs \ {p} :
        /\ indexed'[q] = indexed[q] /\ slipped'[q] = slipped[q]
        /\ loaded'[q] = loaded[q]
  BY <1>1, <1>2 DEF IndexOK, Populates, Forgets, Forget
<1>5. ASSUME NEW q \in Procs
      PROVE  /\ Working(q)' => indexed'[q] \subseteq nics'
             /\ proc'[q].pc = "idle" => indexed'[q] = {}
             /\ loaded'[q] # NONE /\ proc'[q].pc \notin {"failed", "unreadable"}
                  => InterfacesOf(loaded'[q]) \subseteq indexed'[q] \cup slipped'[q]
  <2>1. CASE q # p
    <3>1. Working(q)' => Working(q)
      BY <1>2, <2>1 DEF Working
    <3> QED BY <1>1, <1>2, <1>4, <2>1, <3>1 DEF IndexOK
  <2>2. CASE q = p /\ UNCHANGED objects
    <3>1. proc[p].pc = "waiting" => ~Working(p)'
      BY WaitingEnds
    <3>2. Working(p)' => Working(p) \/ proc[p].pc = "idle"
      BY <1>1, <3>1 DEF Working
    <3> QED BY <1>1, <1>2, <2>2, <3>2 DEF IndexOK, Ended
  <2>3. CASE q = p /\ Populates(p)
    <3>1. /\ indexed'[p] = InterfacesOf(proc[p].cfg)
          /\ loaded'[p] = proc[p].cfg
      BY <1>2, <2>3 DEF IndexOK, Populates
    <3> QED BY <1>1, <1>2, <2>3, <3>1 DEF Populates
  <2>4. CASE q = p /\ Forgets(p)
    <3>1. indexed'[p] = {}
      BY <2>4 DEF IndexOK, Forgets, Forget
    <3> QED BY <2>4, <3>1 DEF Forgets
  <2> QED BY <1>1, <2>1, <2>2, <2>3, <2>4
<1> QED BY <1>3, <1>5 DEF IndexOK

LEMMA IndexPlugged ==
  ASSUME IndexOK, NEW i \in Ifaces, Unplug(i) \/ Plug(i)
  PROVE  IndexOK'
<1>1. CASE Plug(i)
  BY <1>1 DEF Plug, IndexOK, Working
<1>2. CASE Unplug(i)
  <2>1. indexed' \in [Procs -> SUBSET Ifaces] /\ slipped' \in [Procs -> SUBSET Ifaces]
    BY <1>2 DEF Unplug, IndexOK
  <2>2. ASSUME NEW q \in Procs
        PROVE  /\ indexed'[q] = IF Working(q) THEN indexed[q] \ {i} ELSE indexed[q]
               /\ indexed[q] \cup slipped[q] = indexed'[q] \cup slipped'[q]
               /\ Working(q)' <=> Working(q)
    BY <1>2 DEF Unplug, IndexOK, Working
  <2> QED BY <1>2, <2>1, <2>2 DEF Unplug, IndexOK
<1> QED BY <1>1, <1>2

THEOREM IndexCorrect == Spec => []IndexOK
<1>1. Init => IndexOK
  BY DEF Init, IndexOK, Working, Idle
<1>2. IInv /\ IndexOK /\ [Next]_vars => IndexOK'
  <2>1. IndexOK /\ UNCHANGED vars => IndexOK'
    BY DEF IndexOK, vars, kernel, Working
  <2> QED BY <2>1, IndexStep, IndexPlugged DEF Next
<1> QED BY <1>1, <1>2, InvCorrect, PTL DEF Spec

(* Types; nothing is pinned under a root that is gone; what is pinned has  *)
(* been populated by the command that loaded it; the interfaces a working  *)
(* command has written rules for are there, unless they went away since.   *)
THEOREM TypeCorrect == Spec => []TypeOK
<1>1. IInv /\ IndexOK => TypeOK
  BY DEF IInv, ProcsOK, KernelOK, IndexOK, TypeOK
<1> QED BY <1>1, InvCorrect, IndexCorrect, PTL
=============================================================================
