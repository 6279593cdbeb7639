----------------------- MODULE LifecycleOutcomeProofs ------------------------
(***************************************************************************)
(* What the commands of Lifecycle leave behind when they end: the switch   *)
(* of the monitors, the objects of an apply, the sections of all applies.  *)
(***************************************************************************)
EXTENDS LifecycleProofs, SequenceTheorems

USE DEF objects

(* The pins in the order in which they are replaced.                       *)
LEMMA PinOrderOfApply ==
  /\ Len(PinOrder("apply")) = 6
  /\ PinOrder("apply")[1] = "CFG" /\ PinOrder("apply")[2] = "CFG_LEN"
  /\ PinOrder("apply")[3] = "UDP4_EVENTS" /\ PinOrder("apply")[4] = "TCP4_EVENTS"
  /\ PinOrder("apply")[5] = "MONITOR_ENABLED" /\ PinOrder("apply")[6] = "program"
<1> DEFINE m == <<"UDP4_EVENTS", "TCP4_EVENTS", "MONITOR_ENABLED", "program">>
           c == <<"CFG", "CFG_LEN">>
<1>1. PinOrder("apply") = c \o m
  BY DEF PinOrder
<1>2. /\ Len(c) = 2 /\ c[1] = "CFG" /\ c[2] = "CFG_LEN"
      /\ Len(m) = 4 /\ m[1] = "UDP4_EVENTS" /\ m[2] = "TCP4_EVENTS"
      /\ m[3] = "MONITOR_ENABLED" /\ m[4] = "program"
      /\ c \in Seq(Pins) /\ m \in Seq(Pins)
  BY DEF Pins, MainPins
<1> HIDE DEF c, m
<1>3. /\ Len(c \o m) = Len(c) + Len(m)
      /\ \A n \in 1 .. Len(c) + Len(m) :
           (c \o m)[n] = IF n <= Len(c) THEN c[n] ELSE m[n - Len(c)]
  BY <1>2, ConcatProperties
<1>4. /\ (c \o m)[1] = c[1] /\ (c \o m)[2] = c[2]
      /\ (c \o m)[3] = m[1] /\ (c \o m)[4] = m[2]
      /\ (c \o m)[5] = m[3] /\ (c \o m)[6] = m[4]
  BY <1>2, <1>3
<1>5. Len(c \o m) = 6
  BY <1>2, <1>3
<1> QED BY <1>1, <1>2, <1>4, <1>5, Zenon

LEMMA PinOrderOfMonitor ==
  /\ Len(PinOrder("monitor")) = 4
  /\ PinOrder("monitor")[1] = "UDP4_EVENTS"
  /\ PinOrder("monitor")[2] = "TCP4_EVENTS"
  /\ PinOrder("monitor")[3] = "MONITOR_ENABLED"
  /\ PinOrder("monitor")[4] = "program"
BY DEF PinOrder

(* No pin is replaced twice.                                               *)
LEMMA PinnedOnce ==
  ASSUME NEW cmd \in {"apply", "monitor"}, NEW j \in 1 .. Len(PinOrder(cmd)),
         NEW k \in 1 .. Len(PinOrder(cmd)), PinOrder(cmd)[j] = PinOrder(cmd)[k]
  PROVE  j = k
<1>1. CASE cmd = "apply"
  <2>1. j \in 1 .. 6 /\ k \in 1 .. 6
    BY <1>1, PinOrderOfApply
  <2>2. \A a, b \in 1 .. 6 : PinOrder("apply")[a] = PinOrder("apply")[b] => a = b
    <3> SUFFICES ASSUME NEW a \in 1 .. 6, NEW b \in 1 .. 6,
                        PinOrder("apply")[a] = PinOrder("apply")[b]
                 PROVE  a = b
      OBVIOUS
    <3>1. /\ a = 1 \/ a = 2 \/ a = 3 \/ a = 4 \/ a = 5 \/ a = 6
          /\ b = 1 \/ b = 2 \/ b = 3 \/ b = 4 \/ b = 5 \/ b = 6
      OBVIOUS
    <3> QED BY <3>1, PinOrderOfApply
  <2> QED BY <1>1, <2>1, <2>2
<1>2. CASE cmd = "monitor"
  <2>1. /\ j = 1 \/ j = 2 \/ j = 3 \/ j = 4
        /\ k = 1 \/ k = 2 \/ k = 3 \/ k = 4
    BY <1>2, PinOrderOfMonitor
  <2> QED BY <1>2, <2>1, PinOrderOfMonitor
<1> QED BY <1>1, <1>2

(* A step that does not end the command leaves the process where it says;  *)
(* one that ends it well keeps its configuration.                          *)
LEMMA StepGoes ==
  ASSUME ProcsOK, NEW p \in Procs, NEW next, Step(p, next)
  PROVE  /\ next.pc \notin Ended => proc'[p] = next
         /\ next.pc = "done" => /\ proc'[p].given = next.given
                                /\ proc'[p].cfg = next.cfg
<1>1. CASE next.pc \notin Ended
  <2>1. proc' = [proc EXCEPT ![p] = next]
    BY <1>1 DEF Step, Becomes, Ended
  <2> QED BY <1>1, <2>1 DEF ProcsOK, Ended
<1>2. CASE next.pc = "done"
  <2> DEFINE finished == [Idle EXCEPT !.cmd = next.cmd, !.pc = next.pc,
                                      !.given = next.given, !.cfg = next.cfg]
  <2>1. proc' = [proc EXCEPT ![p] = finished]
    BY <1>2 DEF Step, Becomes
  <2>2. finished.given = next.given /\ finished.cfg = next.cfg
    BY DEF Idle
  <2> HIDE DEF finished
  <2> QED BY <1>2, <2>1, <2>2 DEF ProcsOK, Ended
<1>3. next.pc = "done" => next.pc \in Ended
  BY DEF Ended
<1> QED BY <1>1, <1>2, <1>3

-----------------------------------------------------------------------------
(* The switch of the monitors *)

Switch == "MONITOR_ENABLED"

(* A process has not come to pinning its own map under a name.             *)
NotYet(r, name) ==
  \/ r.pc \in {"idle"} \cup Loading
  \/ r.pc \in Pinning /\ \A n \in 1 .. r.at - 1 : PinOrder(r.cmd)[n] # name

(* A map that is not pinned yet is nobody else's, and the switch in it is  *)
(* off: an apply puts a switch that is off in the place of one that is on. *)
Fresh ==
  \A p \in Procs :
    /\ \A name \in Pins : NotYet(proc[p], name) => pins[name] # p
    /\ NotYet(proc[p], Switch) => p \notin enabled

\* What a step of p may do to pins and switches.
Pushes(p) ==
  \/ enabled' = enabled /\ proc[p].pc # "waiting"
  \/ enabled' = enabled /\ proc'[p].pc = "failed" /\ proc'[p].cmd = "monitor"
  \/ /\ enabled' = enabled \cup {pins[Switch]} /\ pins' = pins
     /\ proc'[p].pc = "waiting" /\ proc'[p].cmd = "monitor"
  \/ enabled' = enabled \ {pins[Switch]} /\ pins' = pins

SwitchStep(p) ==
  /\ \A name \in Pins : NotYet(proc'[p], name) => NotYet(proc[p], name)
  /\ \A name \in Pins :
       \/ pins'[name] \in {pins[name], NONE}
       \/ /\ pins'[name] = p
          /\ NotYet(proc[p], name) /\ ~NotYet(proc'[p], name)
  /\ Pushes(p)
  /\ proc[p].pc \notin Ended

\* A step that leaves pins and switches alone, and comes to no pin again.
LEMMA SwitchAlone ==
  ASSUME IInv, NEW p \in Procs, UNCHANGED <<pins, enabled>>,
         \/ proc[p].pc \in {"idle"} \cup Loading
         \/ proc'[p].pc \notin {"idle"} \cup Loading \cup Pinning,
         proc[p].pc \notin Ended \cup {"waiting"}
  PROVE  SwitchStep(p)
BY DEF SwitchStep, NotYet, Pushes

LEMMA SwitchFail ==
  ASSUME IInv, NEW p \in Procs, NEW how \in {"failed", "unreadable"},
         how = "failed" \/ proc[p].pc # "waiting", proc[p].pc \notin Ended,
         Fail(p, how)
  PROVE  SwitchStep(p)
<1> DEFINE next == [proc[p] EXCEPT !.pc = how]
<1>1. /\ Step(p, next) /\ next.pc = how /\ next.cmd = proc[p].cmd /\ ProcsOK
      /\ proc[p].pc = "waiting" => proc[p].cmd = "monitor"
  BY DEF Fail, StepTo, IInv, ProcsOK, Process, Control
<1> HIDE DEF next
<1>2. proc'[p].pc = how /\ proc'[p].cmd = proc[p].cmd
  BY <1>1, StepEnds
<1>3. UNCHANGED <<pins, enabled>>
  BY DEF Fail
<1> QED BY <1>1, <1>2, <1>3 DEF SwitchStep, NotYet, Pushes, Loading, Pinning

LEMMA SwitchStart ==
  ASSUME IInv, NEW p \in Procs,
         StartApply(p) \/ StartShow(p) \/ StartMonitor(p) \/ StartPurge(p)
  PROVE  SwitchStep(p)
<1>1. proc[p] = Idle /\ UNCHANGED kernel
  BY DEF StartApply, StartShow, StartMonitor, StartPurge, Start
<1>2. proc[p].pc = "idle"
  BY <1>1 DEF Idle
<1> QED BY <1>1, <1>2, SwitchAlone DEF kernel, Ended

LEMMA SwitchSetup ==
  ASSUME IInv, NEW p \in Procs,
         \/ EnsureDirs(p) \/ Probe(p) \/ ReadLength(p) \/ ReadBlob(p)
         \/ LoadAndPopulate(p)
  PROVE  SwitchStep(p)
<1>1. proc[p].pc \in Loading
  BY DEF EnsureDirs, Probe, ReadLength, ReadBlob, LoadAndPopulate, Loading
<1>2. UNCHANGED <<pins, enabled>>
  BY DEF EnsureDirs, Probe, ReadLength, ReadBlob, LoadAndPopulate, Fail, kernel
<1> QED BY <1>1, <1>2, SwitchAlone DEF Loading, Ended

LEMMA SwitchPins ==
  ASSUME IInv, NEW p \in Procs, RemovePin(p) \/ Pin(p)
  PROVE  SwitchStep(p)
<1> DEFINE r == proc[p]
           order == PinOrder(r.cmd)
           name == order[r.at]
<1>1. /\ r \in Process /\ Control(r) /\ ProcsOK /\ r.pc \in Pinning
      /\ pins \in [Pins -> Procs \cup {NONE}]
  BY DEF IInv, ProcsOK, KernelOK, RemovePin, Pin, Pinning
<1>2. /\ r.cmd \in {"apply", "monitor"} /\ r.at \in 1 .. Len(order)
      /\ r.pc \notin Ended \cup {"waiting"}
  BY <1>1 DEF Control, Pinning, Ended
<1>3. Len(order) \in Nat /\ name \in Pins
  BY <1>2, PinOrderFacts
<1>4. CASE RemovePin(p)
  <2> DEFINE next == [r EXCEPT !.pc = "pin"]
  <2>1. /\ Step(p, next) /\ next.pc = "pin" /\ next.at = r.at
        /\ next.cmd = r.cmd
    BY <1>1, <1>4 DEF RemovePin, StepTo, Process
  <2> HIDE DEF next
  <2>2. proc'[p] = next
    BY <1>1, <2>1, StepGoes DEF Ended
  <2>3. /\ \A other \in Pins : pins'[other] \in {pins[other], NONE}
        /\ enabled' = enabled
    BY <1>1, <1>3, <1>4 DEF RemovePin
  <2> QED BY <1>1, <1>2, <2>1, <2>2, <2>3
          DEF SwitchStep, NotYet, Pushes, Pinning, Loading
<1>5. CASE Pin(p) /\ Fail(p, "failed")
  BY <1>2, <1>5, SwitchFail
<1>6. CASE Pin(p) /\ ~Fail(p, "failed")
  <2>1. /\ pins' = [pins EXCEPT ![name] = p] /\ enabled' = enabled
        /\ Step(p, AfterPin(p))
    BY <1>6 DEF Pin
  <2>2. NotYet(r, name)
    <3>1. \A n \in 1 .. r.at - 1 : order[n] # name
      <4> SUFFICES ASSUME NEW n \in 1 .. r.at - 1, order[n] = name PROVE FALSE
        OBVIOUS
      <4>1. n \in 1 .. Len(order) /\ n # r.at
        BY <1>2, <1>3
      <4> QED BY <1>2, <4>1, PinnedOnce
    <3> QED BY <1>1, <3>1 DEF NotYet
  <2>3. CASE r.at < Len(order)
    <3> DEFINE next == [r EXCEPT !.at = @ + 1, !.pc = "remove_pin"]
    <3>1. /\ Step(p, next) /\ next.pc = "remove_pin" /\ next.at = r.at + 1
          /\ next.cmd = r.cmd
      BY <1>1, <2>1, <2>3 DEF AfterPin, Process
    <3> HIDE DEF next
    <3>2. proc'[p] = next
      BY <1>1, <3>1, StepGoes DEF Ended
    <3>3. r.at \in 1 .. (r.at + 1) - 1 /\ 1 .. r.at - 1 \subseteq 1 .. (r.at + 1) - 1
      BY <1>2, <1>3
    <3>4. \A other \in Pins : NotYet(next, other) => NotYet(r, other)
      BY <1>1, <3>1, <3>3 DEF NotYet, Pinning, Loading
    <3>5. ~NotYet(next, name)
      BY <3>1, <3>3 DEF NotYet, Loading
    <3>6. \A other \in Pins \ {name} : pins'[other] = pins[other]
      BY <1>1, <2>1
    <3>7. pins'[name] = p
      BY <1>1, <1>3, <2>1
    <3> QED BY <1>2, <2>1, <2>2, <3>2, <3>4, <3>5, <3>6, <3>7
            DEF SwitchStep, Pushes
  <2>4. CASE ~(r.at < Len(order))
    <3>1. AfterPin(p).pc \in {"done", "open_rings", "unlink"}
      BY <1>1, <2>4 DEF AfterPin, AfterLastLink, Process
    <3>2. proc'[p].pc \in {"done", "open_rings", "unlink"}
      BY <1>1, <2>1, <3>1, StepEnds
    <3>3. \A other \in Pins : ~NotYet(proc'[p], other)
      BY <3>2 DEF NotYet, Pinning, Loading
    <3>4. \A other \in Pins \ {name} : pins'[other] = pins[other]
      BY <1>1, <2>1
    <3>5. pins'[name] = p
      BY <1>1, <1>3, <2>1
    <3> QED BY <1>2, <2>1, <2>2, <3>3, <3>4, <3>5 DEF SwitchStep, Pushes
  <2> QED BY <2>3, <2>4
<1> QED BY <1>4, <1>5, <1>6

LEMMA SwitchLinks ==
  ASSUME IInv, NEW p \in Procs, Unlink(p) \/ Attach(p) \/ PinLink(p)
  PROVE  SwitchStep(p)
<1>1. /\ ProcsOK /\ proc[p] \in Process
      /\ proc[p].pc \notin Ended \cup {"waiting"}
  BY DEF IInv, ProcsOK, Unlink, Attach, PinLink, Ended
<1>2. CASE Fail(p, "failed")
  BY <1>1, <1>2, SwitchFail
<1>3. CASE ~Fail(p, "failed")
  <2>1. PICK next : /\ Step(p, next)
                    /\ next.pc \in {"attach", "pin_link", "unlink", "done",
                                    "open_rings"}
    <3>1. CASE Unlink(p)
      <4>1. PICK i : Step(p, [proc[p] EXCEPT !.pc = "attach", !.iface = i])
        BY <3>1 DEF Unlink
      <4> DEFINE next == [proc[p] EXCEPT !.pc = "attach", !.iface = i]
      <4>2. Step(p, next) /\ next.pc = "attach"
        BY <1>1, <4>1 DEF Process
      <4> HIDE DEF next
      <4> QED BY <4>2
    <3>2. CASE Attach(p)
      <4> DEFINE next == [proc[p] EXCEPT !.pc = "pin_link"]
      <4>1. Step(p, next) /\ next.pc = "pin_link"
        BY <1>1, <1>3, <3>2 DEF Attach, StepTo, Process
      <4> HIDE DEF next
      <4> QED BY <4>1
    <3>3. CASE PinLink(p)
      <4> DEFINE left == proc[p].todo \ {proc[p].iface}
      <4>1. PICK pc \in {"unlink", "done", "open_rings"} :
              Step(p, [proc[p] EXCEPT !.todo = left, !.pc = pc])
        BY <1>3, <3>3 DEF PinLink, AfterLastLink
      <4> DEFINE next == [proc[p] EXCEPT !.todo = left, !.pc = pc]
      <4>2. Step(p, next) /\ next.pc = pc
        BY <1>1, <4>1 DEF Process
      <4> HIDE DEF next
      <4> QED BY <4>1, <4>2
    <3> QED BY <3>1, <3>2, <3>3
  <2>2. proc'[p].pc \in {"attach", "pin_link", "unlink", "done", "open_rings"}
    BY <1>1, <2>1, StepEnds
  <2>3. UNCHANGED <<pins, enabled>>
    BY <1>3 DEF Unlink, Attach, PinLink
  <2> QED BY <1>1, <2>2, <2>3, SwitchAlone DEF Loading, Pinning
<1> QED BY <1>2, <1>3

LEMMA SwitchMonitor ==
  ASSUME IInv, NEW p \in Procs, OpenRings(p) \/ Enable(p) \/ CtrlC(p)
  PROVE  SwitchStep(p)
<1>1. /\ proc[p] \in Process /\ Control(proc[p]) /\ ProcsOK
      /\ proc[p].cmd = "monitor" /\ proc[p].pc \notin Ended
  BY DEF IInv, ProcsOK, Control, OpenRings, Enable, CtrlC, Ended
<1>2. CASE Fail(p, "failed")
  BY <1>1, <1>2, SwitchFail
<1>3. CASE ~Fail(p, "failed")
  <2>1. PICK pc \in {"enable", "waiting", "done"} :
          /\ StepTo(p, pc) /\ pins' = pins
          /\ \/ pc = "enable" /\ enabled' = enabled /\ proc[p].pc # "waiting"
             \/ pc = "waiting" /\ enabled' = enabled \cup {pins[Switch]}
             \/ pc = "done" /\ enabled' = enabled \ {pins[Switch]}
    BY <1>3 DEF OpenRings, Enable, CtrlC, kernel, Switch
  <2> DEFINE next == [proc[p] EXCEPT !.pc = pc]
  <2>2. Step(p, next) /\ next.cmd = "monitor" /\ next.pc = pc
    BY <1>1, <2>1 DEF StepTo, Process
  <2> HIDE DEF next
  <2>3. proc'[p].pc = pc /\ proc'[p].cmd = "monitor"
    BY <1>1, <2>2, StepEnds
  <2> QED BY <1>1, <2>1, <2>3 DEF SwitchStep, NotYet, Pushes, Loading, Pinning
<1> QED BY <1>2, <1>3

LEMMA SwitchPurge ==
  ASSUME IInv, NEW p \in Procs,
         \/ DetachLink(p) \/ RemoveUdpTree(p)
         \/ RemoveMainPin(p) \/ RemoveMainTree(p)
  PROVE  SwitchStep(p)
<1>1. /\ proc[p].pc \in {"detach", "remove_main"} /\ enabled' = enabled
      /\ proc[p] \in Process /\ ProcsOK /\ pins \in [Pins -> Procs \cup {NONE}]
  BY DEF IInv, ProcsOK, KernelOK, DetachLink, RemoveUdpTree, RemoveMainPin,
         RemoveMainTree
<1>2. \A name \in Pins : pins'[name] \in {pins[name], NONE}
  BY <1>1 DEF DetachLink, RemoveUdpTree, RemoveMainPin, RemoveMainTree
<1>3. proc'[p].pc \in {"detach", "remove_main", "done"}
  <2>1. CASE DetachLink(p) \/ RemoveMainPin(p)
    BY <1>1, <2>1 DEF DetachLink, RemoveMainPin
  <2>2. CASE RemoveUdpTree(p) \/ RemoveMainTree(p)
    <3>1. PICK pc \in {"remove_main", "done"} : StepTo(p, pc)
      BY <2>2 DEF RemoveUdpTree, RemoveMainTree
    <3> DEFINE next == [proc[p] EXCEPT !.pc = pc]
    <3>2. Step(p, next) /\ next.pc = pc
      BY <1>1, <3>1 DEF StepTo, Process
    <3> HIDE DEF next
    <3> QED BY <1>1, <3>2, StepEnds
  <2> QED BY <2>1, <2>2
<1> QED BY <1>1, <1>2, <1>3
        DEF SwitchStep, NotYet, Pushes, Loading, Pinning, Ended

LEMMA SwitchOf ==
  ASSUME IInv, NEW p \in Procs, Command(p)
  PROVE  SwitchStep(p)
<1>1. CASE Stop(p)
  <2>1. proc[p].pc \notin Ended
    BY <1>1 DEF Stop, Working, Ended
  <2> QED BY <1>1, <2>1, SwitchFail DEF Stop
<1> QED BY <1>1, SwitchStart, SwitchSetup, SwitchPins, SwitchLinks,
           SwitchMonitor, SwitchPurge DEF Command

LEMMA FreshNext ==
  ASSUME IInv, Fresh, NEW p \in Procs, Command(p)
  PROVE  Fresh'
<1>1. SwitchStep(p) /\ \A q \in Procs \ {p} : proc'[q] = proc[q]
  BY SwitchOf, CommandOf DEF StepOf
<1>2. /\ pins \in [Pins -> Procs \cup {NONE}] /\ NONE \notin Procs
      /\ Switch \in Pins
  BY NoneAssumption DEF IInv, KernelOK, Switch, Pins, MainPins
<1>3. \A q \in Procs, name \in Pins :
        NotYet(proc'[q], name) => NotYet(proc[q], name)
  BY <1>1 DEF SwitchStep
<1>4. \A q \in Procs, name \in Pins : NotYet(proc'[q], name) => pins'[name] # q
  BY <1>1, <1>2, <1>3 DEF SwitchStep, Fresh
<1>5. enabled' \subseteq enabled \cup {pins[Switch]}
  BY <1>1 DEF SwitchStep, Pushes
<1>6. \A q \in Procs : NotYet(proc'[q], Switch) => q \notin enabled'
  BY <1>2, <1>3, <1>5 DEF Fresh
<1> QED BY <1>4, <1>6 DEF Fresh

SwitchInv == Fresh /\ EventsOnlyForMonitors

LEMMA SwitchNext ==
  ASSUME IInv, SwitchInv, NEW p \in Procs, Command(p)
  PROVE  EventsOnlyForMonitors'
<1> SUFFICES ASSUME pins'[Switch] \in enabled', NoneFailed("monitor")'
             PROVE  \E q \in Procs : proc'[q].cmd = "monitor"
                                       /\ proc'[q].pc = "waiting"
  BY DEF EventsOnlyForMonitors, Switch
<1>1. SwitchStep(p) /\ \A q \in Procs \ {p} : proc'[q] = proc[q]
  BY SwitchOf, CommandOf DEF StepOf
<1>2. /\ pins \in [Pins -> Procs \cup {NONE}] /\ enabled \subseteq Procs
      /\ NONE \notin Procs /\ Switch \in Pins
  BY NoneAssumption DEF IInv, KernelOK, Switch, Pins, MainPins
<1>3. CASE proc'[p].pc = "waiting" /\ proc'[p].cmd = "monitor"
  BY <1>3
<1>4. CASE enabled' = enabled \ {pins[Switch]} /\ pins' = pins
  BY <1>4
<1>5. ~(proc'[p].pc = "failed" /\ proc'[p].cmd = "monitor")
  BY DEF NoneFailed
<1>6. CASE enabled' = enabled /\ proc[p].pc # "waiting"
  <2>1. pins'[Switch] = pins[Switch] /\ pins[Switch] \in enabled
    BY <1>1, <1>2, <1>6 DEF SwitchStep, SwitchInv, Fresh
  <2>2. NoneFailed("monitor")
    BY <1>1 DEF NoneFailed, SwitchStep, Ended
  <2>3. PICK q \in Procs : proc[q].cmd = "monitor" /\ proc[q].pc = "waiting"
    BY <2>1, <2>2 DEF SwitchInv, EventsOnlyForMonitors, Switch
  <2> QED BY <1>1, <1>6, <2>3
<1> QED BY <1>1, <1>3, <1>4, <1>5, <1>6 DEF SwitchStep, Pushes

(* No command finds a map it has not pinned yet pinned or switched on.     *)
THEOREM SwitchCorrect == Spec => []SwitchInv
<1>1. Init => SwitchInv
  BY NoneAssumption DEF Init, SwitchInv, Fresh, EventsOnlyForMonitors, Pins, MainPins
<1>2. IInv /\ SwitchInv /\ [Next]_vars => SwitchInv'
  <2> SUFFICES ASSUME IInv, SwitchInv, [Next]_vars PROVE SwitchInv'
    OBVIOUS
  <2>1. CASE UNCHANGED vars
    BY <2>1 DEF vars, kernel, SwitchInv, Fresh, NotYet, EventsOnlyForMonitors,
                NoneFailed
  <2>2. ASSUME NEW i \in Ifaces, Unplug(i) \/ Plug(i) PROVE SwitchInv'
    BY <2>2 DEF Unplug, Plug, SwitchInv, Fresh, NotYet, EventsOnlyForMonitors,
                NoneFailed
  <2> QED BY <2>1, <2>2, FreshNext, SwitchNext DEF Next, SwitchInv
<1> QED BY <1>1, <1>2, InvCorrect, PTL DEF Spec

(* However many commands race, replace each other's maps or fail, events   *)
(* are on only while a monitor waits, unless a monitor itself was killed.  *)
THEOREM EventsForMonitors == Spec => []EventsOnlyForMonitors
<1>1. SwitchInv => EventsOnlyForMonitors
  BY DEF SwitchInv
<1> QED BY <1>1, SwitchCorrect, PTL

-----------------------------------------------------------------------------
(* What an apply leaves when commands do not overlap *)

Running(p) == IF UNPLUGS THEN {p, NONE} ELSE {p}

InForce(p, todo) ==
  /\ loaded[p] = proc[p].cfg
  /\ \A name \in Pins : pins[name] = p
  /\ \A i \in InterfacesOf(proc[p].cfg) \ todo :
       links[i] = p /\ attached[i] \in Running(p)

(* How far an apply is: its object has the merged configuration, the pins  *)
(* it has come past are its own, and so are the interfaces it is done with.*)
Progress(p) ==
  LET r == proc[p] IN
  r.cmd = "apply" =>
    /\ r.pc \in Pinning =>
         /\ loaded[p] = r.cfg
         /\ \A n \in 1 .. r.at - 1 : pins[PinOrder("apply")[n]] = p
    /\ r.pc \in Linking => InForce(p, r.todo)
    /\ r.pc = "pin_link" => attached[r.iface] \in Running(p)

Succeeds(p) == EndedWell(p, "apply") => InForce(p, {})

LEMMA EveryPinHasItsPlace ==
  ASSUME NEW name \in Pins
  PROVE  \E n \in 1 .. 6 : PinOrder("apply")[n] = name
<1>1. 1 \in 1 .. 6 /\ 2 \in 1 .. 6 /\ 3 \in 1 .. 6 /\ 4 \in 1 .. 6
      /\ 5 \in 1 .. 6 /\ 6 \in 1 .. 6
  OBVIOUS
<1>2. name \in {"CFG", "CFG_LEN", "UDP4_EVENTS", "TCP4_EVENTS",
                "MONITOR_ENABLED", "program"}
  BY DEF Pins, MainPins
<1> QED BY <1>1, <1>2, PinOrderOfApply

\* Steps that neither come to a pin or a link nor end an apply well.
LEMMA NotYetApplied ==
  ASSUME NEW p \in Procs,
         \/ proc'[p].cmd # "apply"
         \/ proc'[p].pc \notin Pinning \cup Linking \cup {"done"}
  PROVE  Progress(p)' /\ Succeeds(p)'
BY DEF Progress, Succeeds, EndedWell, Pinning, Linking

LEMMA FailedApply ==
  ASSUME IInv, NEW p \in Procs, NEW how \in {"failed", "unreadable"},
         Fail(p, how)
  PROVE  Progress(p)' /\ Succeeds(p)'
<1> DEFINE next == [proc[p] EXCEPT !.pc = how]
<1>1. Step(p, next) /\ next.pc = how /\ ProcsOK
  BY DEF Fail, StepTo, IInv, ProcsOK, Process
<1> HIDE DEF next
<1>2. proc'[p].pc = how
  BY <1>1, StepEnds
<1> QED BY <1>2, NotYetApplied DEF Pinning, Linking

LEMMA ApplyStarts ==
  ASSUME IInv, NEW p \in Procs,
         StartApply(p) \/ StartShow(p) \/ StartMonitor(p) \/ StartPurge(p)
  PROVE  Progress(p)' /\ Succeeds(p)'
<1>1. PICK cmd, pc, given, iface :
        /\ Start(p, cmd, pc, given, iface)
        /\ cmd # "apply" \/ pc = "ensure_dirs"
  BY DEF StartApply, StartShow, StartMonitor, StartPurge
<1> DEFINE next == [Idle EXCEPT !.cmd = cmd, !.pc = pc, !.given = given,
                                !.cfg = given, !.iface = iface]
<1>2. proc' = [proc EXCEPT ![p] = next] /\ next.cmd = cmd /\ next.pc = pc
  BY <1>1 DEF Start, Becomes, Idle
<1> HIDE DEF next
<1>3. proc'[p] = next
  BY <1>2 DEF IInv, ProcsOK
<1> QED BY <1>1, <1>2, <1>3, NotYetApplied DEF Pinning, Linking

LEMMA ApplyReads ==
  ASSUME IInv, NEW p \in Procs,
         EnsureDirs(p) \/ Probe(p) \/ ReadLength(p) \/ ReadBlob(p)
  PROVE  Progress(p)' /\ Succeeds(p)'
<1>1. proc[p] \in Process /\ ProcsOK
  BY DEF IInv, ProcsOK
<1>2. ASSUME NEW next, Step(p, next),
             next.cmd # "apply" \/ next.pc \in Loading
      PROVE  Progress(p)' /\ Succeeds(p)'
  BY <1>1, <1>2, StepEnds, NotYetApplied DEF Loading, Pinning, Linking
<1>3. ASSUME NEW cfg, HasRead(p, cfg)
      PROVE  Progress(p)' /\ Succeeds(p)'
  <2>1. PICK next : Step(p, next) /\ (next.cmd # "apply" \/ next.pc \in Loading)
    <3>1. CASE proc[p].cmd = "apply"
      <4> DEFINE next == [proc[p] EXCEPT !.cfg = Merge(proc[p].given, cfg),
                                         !.pc = "load"]
      <4>1. Step(p, next) /\ next.pc = "load"
        BY <1>1, <1>3, <3>1 DEF HasRead, Process
      <4> HIDE DEF next
      <4> QED BY <4>1 DEF Loading
    <3>2. CASE proc[p].cmd # "apply"
      <4> DEFINE next == [proc[p] EXCEPT !.cfg = cfg, !.pc = "done"]
      <4>1. Step(p, next) /\ next.cmd = proc[p].cmd
        BY <1>1, <1>3, <3>2 DEF HasRead, Process
      <4> HIDE DEF next
      <4> QED BY <3>2, <4>1
    <3> QED BY <3>1, <3>2
  <2> QED BY <1>2, <2>1
<1>4. CASE EnsureDirs(p) \/ Probe(p)
  <2>1. PICK pc \in Loading : StepTo(p, pc)
    BY <1>4 DEF EnsureDirs, Probe, Loading
  <2> DEFINE next == [proc[p] EXCEPT !.pc = pc]
  <2>2. Step(p, next) /\ next.pc = pc
    BY <1>1, <2>1 DEF StepTo, Process
  <2> HIDE DEF next
  <2> QED BY <1>2, <2>2
<1>5. CASE ReadLength(p)
  <2>1. CASE pins["CFG_LEN"] = NONE
    BY <1>3, <1>5, <2>1 DEF ReadLength
  <2>2. CASE pins["CFG_LEN"] # NONE
    <3> DEFINE next == [proc[p] EXCEPT
                          !.len = Length(loaded[pins["CFG_LEN"]]),
                          !.pc = "read_blob"]
    <3>1. Step(p, next) /\ next.pc = "read_blob"
      BY <1>1, <1>5, <2>2 DEF ReadLength, Process
    <3> HIDE DEF next
    <3> QED BY <1>2, <3>1 DEF Loading
  <2> QED BY <2>1, <2>2
<1>6. CASE ReadBlob(p)
  BY <1>3, <1>6, FailedApply DEF ReadBlob
<1> QED BY <1>4, <1>5, <1>6

LEMMA ApplyLoads ==
  ASSUME IInv, NEW p \in Procs, LoadAndPopulate(p)
  PROVE  Progress(p)' /\ Succeeds(p)'
<1>1. /\ proc[p] \in Process /\ Control(proc[p]) /\ ProcsOK
      /\ loaded \in [Procs -> Config \cup {NONE}]
  BY DEF IInv, ProcsOK, KernelOK
<1>2. CASE Fail(p, "failed")
  BY <1>2, FailedApply
<1>3. CASE ~Fail(p, "failed")
  <2> DEFINE next == [proc[p] EXCEPT !.pc = "remove_pin"]
  <2>1. /\ Step(p, next) /\ next.pc = "remove_pin" /\ next.at = 1
        /\ next.cfg = proc[p].cfg /\ loaded' = [loaded EXCEPT ![p] = proc[p].cfg]
    BY <1>1, <1>3 DEF LoadAndPopulate, StepTo, Process, Control, Loading
  <2> HIDE DEF next
  <2>2. proc'[p] = next
    BY <1>1, <2>1, StepGoes DEF Ended
  <2>3. loaded'[p] = next.cfg
    BY <1>1, <2>1
  <2> QED BY <2>1, <2>2, <2>3
          DEF Progress, Succeeds, EndedWell, Pinning, Linking
<1> QED BY <1>2, <1>3

LEMMA ApplyPins ==
  ASSUME IInv, NEW p \in Procs, Progress(p), RemovePin(p) \/ Pin(p)
  PROVE  Progress(p)' /\ Succeeds(p)'
<1> DEFINE r == proc[p]
           order == PinOrder("apply")
           name == order[r.at]
<1>1. /\ r \in Process /\ Control(r) /\ ProcsOK /\ r.pc \in Pinning
      /\ pins \in [Pins -> Procs \cup {NONE}]
  BY DEF IInv, ProcsOK, KernelOK, RemovePin, Pin, Pinning
<1>2. CASE r.cmd # "apply"
  <2>1. PICK next : Step(p, next) /\ next.cmd # "apply"
    <3>1. CASE RemovePin(p) \/ Fail(p, "failed")
      <4>1. PICK pc : Step(p, [r EXCEPT !.pc = pc])
        BY <3>1 DEF RemovePin, Fail, StepTo
      <4>2. [r EXCEPT !.pc = pc].cmd = r.cmd
        BY <1>1 DEF Process
      <4> QED BY <1>2, <4>1, <4>2
    <3>2. CASE Pin(p) /\ ~Fail(p, "failed")
      <4>1. Step(p, AfterPin(p))
        BY <3>2 DEF Pin
      <4>2. AfterPin(p).cmd = r.cmd
        BY <1>1 DEF AfterPin, Process
      <4> QED BY <1>2, <4>1, <4>2
    <3> QED BY <3>1, <3>2
  <2>2. proc'[p].cmd # "apply"
    BY <1>1, <2>1, StepEnds
  <2> QED BY <2>2, NotYetApplied
<1>3. CASE r.cmd = "apply"
  <2>1. /\ r.at \in 1 .. 6 /\ name \in Pins /\ loaded[p] = r.cfg
        /\ \A n \in 1 .. 6 : order[n] \in Pins
        /\ \A n \in 1 .. r.at - 1 : pins[order[n]] = p
        /\ \A n \in 1 .. 6 : n # r.at => order[n] # name
    <3>1. r.at \in 1 .. 6 /\ \A n \in 1 .. 6 : order[n] \in Pins
      BY <1>1, <1>3, PinOrderOfApply, PinOrderFacts DEF Control
    <3>2. \A n \in 1 .. 6 : n # r.at => order[n] # name
      BY <3>1, PinnedOnce, PinOrderOfApply
    <3> QED BY <1>1, <1>3, <3>1, <3>2 DEF Progress
  <2>2. CASE RemovePin(p)
    <3> DEFINE next == [r EXCEPT !.pc = "pin"]
    <3>1. /\ Step(p, next) /\ next.pc = "pin" /\ next.at = r.at
          /\ next.cfg = r.cfg
      BY <1>1, <2>2 DEF RemovePin, StepTo, Process
    <3> HIDE DEF next
    <3>2. proc'[p] = next
      BY <1>1, <3>1, StepGoes DEF Ended
    <3>3. \A n \in 1 .. r.at - 1 : pins'[order[n]] = p
      <4>1. pins' = [pins EXCEPT ![name] = NONE]
        BY <1>3, <2>2 DEF RemovePin
      <4>2. \A n \in 1 .. r.at - 1 : n \in 1 .. 6 /\ n # r.at
        BY <2>1
      <4> QED BY <1>1, <2>1, <4>1, <4>2
    <3>4. loaded' = loaded
      BY <2>2 DEF RemovePin
    <3> QED BY <2>1, <3>1, <3>2, <3>3, <3>4
            DEF Progress, Succeeds, EndedWell, Pinning, Linking
  <2>3. CASE Pin(p) /\ Fail(p, "failed")
    BY <2>3, FailedApply
  <2>4. CASE Pin(p) /\ ~Fail(p, "failed")
    <3>1. /\ pins' = [pins EXCEPT ![name] = p] /\ Step(p, AfterPin(p))
          /\ loaded' = loaded
      BY <1>3, <2>4 DEF Pin
    <3>2. \A n \in 1 .. r.at : pins'[order[n]] = p
      <4>1. \A n \in 1 .. r.at : n \in 1 .. 6 /\ (n # r.at => n \in 1 .. r.at - 1)
        BY <2>1
      <4>2. pins'[name] = p
        BY <1>1, <2>1, <3>1
      <4>3. \A n \in 1 .. r.at : n # r.at => pins'[order[n]] = pins[order[n]]
        BY <1>1, <2>1, <3>1, <4>1
      <4> QED BY <2>1, <4>1, <4>2, <4>3
    <3>3. CASE r.at < 6
      <4> DEFINE next == [r EXCEPT !.at = @ + 1, !.pc = "remove_pin"]
      <4>1. /\ Step(p, next) /\ next.pc = "remove_pin" /\ next.at = r.at + 1
            /\ next.cfg = r.cfg
        BY <1>1, <1>3, <3>1, <3>3, PinOrderOfApply DEF AfterPin, Process
      <4> HIDE DEF next
      <4>2. proc'[p] = next
        BY <1>1, <4>1, StepGoes DEF Ended
      <4>3. 1 .. next.at - 1 = 1 .. r.at
        BY <2>1, <4>1
      <4> QED BY <2>1, <3>1, <3>2, <4>1, <4>2, <4>3
              DEF Progress, Succeeds, EndedWell, Pinning, Linking
    <3>4. CASE ~(r.at < 6)
      <4>1. \A other \in Pins : pins'[other] = p
        BY <2>1, <3>2, <3>4, EveryPinHasItsPlace
      <4> DEFINE next == AfterPin(p)
      <4>2. /\ next.cfg = r.cfg /\ next.todo = InterfacesOf(r.cfg)
            /\ next.pc = IF InterfacesOf(r.cfg) = {} THEN "done" ELSE "unlink"
        BY <1>1, <1>3, <3>4, PinOrderOfApply
           DEF AfterPin, AfterLastLink, Targets, Process
      <4> HIDE DEF next
      <4>3. proc'[p].pc = next.pc /\ proc'[p].cfg = r.cfg
            /\ (next.pc = "unlink" => proc'[p].todo = InterfacesOf(r.cfg))
        BY <1>1, <3>1, <4>2, StepEnds, StepGoes DEF next, Ended
      <4>4. loaded'[p] = proc'[p].cfg
        BY <2>1, <3>1, <4>3
      <4> QED BY <4>1, <4>2, <4>3, <4>4
              DEF Progress, Succeeds, EndedWell, InForce, Pinning, Linking
    <3> QED BY <3>3, <3>4
  <2> QED BY <2>2, <2>3, <2>4
<1> QED BY <1>2, <1>3

LEMMA ApplyLinks ==
  ASSUME IInv, NEW p \in Procs, Progress(p), Unlink(p) \/ Attach(p) \/ PinLink(p)
  PROVE  Progress(p)' /\ Succeeds(p)'
<1> DEFINE r == proc[p]
<1>1. /\ r \in Process /\ Control(r) /\ ProcsOK /\ r.pc \in Linking
      /\ links \in [Ifaces -> Procs \cup {NONE}]
      /\ attached \in [Ifaces -> Procs \cup {NONE}]
      /\ InterfacesOf(r.cfg) \subseteq Ifaces
  <2>1. r \in Process
    BY DEF IInv, ProcsOK
  <2>2. InterfacesOf(r.cfg) \subseteq Ifaces
    BY <2>1, ConfigFacts DEF Process
  <2> QED BY <2>1, <2>2
          DEF IInv, ProcsOK, KernelOK, Unlink, Attach, PinLink, Linking
<1>2. CASE Fail(p, "failed")
  BY <1>2, FailedApply
<1>3. CASE ~Fail(p, "failed") /\ r.cmd # "apply"
  <2>1. PICK next : Step(p, next) /\ next.cmd # "apply"
    <3>1. PICK next :
            /\ Step(p, next)
            /\ \/ \E i : next = [r EXCEPT !.pc = "attach", !.iface = i]
               \/ next = [r EXCEPT !.pc = "pin_link"]
               \/ \E pc, left : next = [r EXCEPT !.todo = left, !.pc = pc]
      BY <1>3 DEF Unlink, Attach, PinLink, StepTo
    <3>2. next.cmd = r.cmd
      BY <1>1, <3>1 DEF Process
    <3> QED BY <1>3, <3>1, <3>2
  <2>2. proc'[p].cmd # "apply"
    BY <1>1, <2>1, StepEnds
  <2> QED BY <2>2, NotYetApplied
<1>4. CASE ~Fail(p, "failed") /\ r.cmd = "apply"
  <2>1. /\ InForce(p, r.todo)
        /\ r.pc = "pin_link" => attached[r.iface] \in Running(p)
        /\ UNCHANGED <<pins, loaded>>
    BY <1>1, <1>4 DEF Progress, Unlink, Attach, PinLink
  <2>2. CASE Unlink(p)
    <3>1. PICK i \in r.todo :
            /\ Unpin(i)
            /\ Step(p, [r EXCEPT !.pc = "attach", !.iface = i])
      BY <2>2 DEF Unlink
    <3> DEFINE next == [r EXCEPT !.pc = "attach", !.iface = i]
    <3>2. /\ Step(p, next) /\ next.pc = "attach" /\ next.todo = r.todo
          /\ next.cfg = r.cfg
      BY <1>1, <3>1 DEF Process
    <3> HIDE DEF next
    <3>3. proc'[p] = next
      BY <1>1, <3>2, StepGoes DEF Ended
    <3>4. \A j \in Ifaces \ {i} : links'[j] = links[j] /\ attached'[j] = attached[j]
      BY <1>1, <3>1 DEF Unpin
    <3>5. InForce(p, r.todo)'
      BY <1>1, <2>1, <3>1, <3>2, <3>3, <3>4 DEF InForce, Running
    <3> QED BY <3>2, <3>3, <3>5 DEF Progress, Succeeds, EndedWell, Pinning, InForce
  <2>3. CASE Attach(p)
    <3> DEFINE next == [r EXCEPT !.pc = "pin_link"]
    <3>1. /\ Step(p, next) /\ next.pc = "pin_link" /\ next.todo = r.todo
          /\ next.cfg = r.cfg /\ next.iface = r.iface /\ r.iface \in Ifaces
          /\ attached' = [attached EXCEPT ![r.iface] = p] /\ links' = links
      BY <1>1, <1>4, <2>3 DEF Attach, StepTo, Process, Control
    <3> HIDE DEF next
    <3>2. proc'[p] = next
      BY <1>1, <3>1, StepGoes DEF Ended
    <3>3. /\ attached'[r.iface] \in Running(p)
          /\ \A i \in Ifaces : attached[i] \in Running(p)
                                 => attached'[i] \in Running(p)
      BY <1>1, <3>1 DEF Running
    <3>4. InForce(p, r.todo)'
      BY <1>1, <2>1, <3>1, <3>2, <3>3 DEF InForce, Running
    <3> QED BY <3>1, <3>2, <3>3, <3>4
            DEF Progress, Succeeds, EndedWell, Pinning, InForce, Running
  <2>4. CASE PinLink(p)
    <3> DEFINE i == r.iface
               left == r.todo \ {i}
               next == [r EXCEPT !.todo = left,
                          !.pc = IF left = {} THEN "done" ELSE "unlink"]
    <3>1. /\ Step(p, next) /\ next.pc = IF left = {} THEN "done" ELSE "unlink"
          /\ next.todo = left /\ next.cfg = r.cfg /\ i \in Ifaces
          /\ links' = [links EXCEPT ![i] = p] /\ attached' = attached
          /\ attached[i] \in Running(p)
      BY <1>1, <1>4, <2>1, <2>4 DEF PinLink, AfterLastLink, Process, Control
    <3> HIDE DEF next
    <3>2. /\ proc'[p].pc = next.pc /\ proc'[p].cfg = r.cfg
          /\ next.pc = "unlink" => proc'[p].todo = left
      BY <1>1, <3>1, StepEnds, StepGoes DEF Ended
    <3>3. /\ loaded'[p] = proc'[p].cfg
          /\ \A name \in Pins : pins'[name] = p
      BY <2>1, <3>2 DEF InForce
    <3>4. \A j \in InterfacesOf(proc'[p].cfg) \ left :
            links'[j] = p /\ attached'[j] \in Running(p)
      <4>1. \A j \in InterfacesOf(r.cfg) \ left : j = i \/ j \notin r.todo
        OBVIOUS
      <4> QED BY <1>1, <2>1, <3>1, <3>2, <4>1 DEF InForce
    <3>5. next.pc = "done" => InForce(p, {})'
      BY <3>1, <3>3, <3>4 DEF InForce, Running
    <3>6. next.pc = "unlink" => InForce(p, proc[p].todo)'
      BY <3>2, <3>3, <3>4 DEF InForce, Running
    <3> QED BY <3>1, <3>2, <3>5, <3>6
            DEF Progress, Succeeds, EndedWell, Pinning, InForce, Running
  <2> QED BY <1>1, <2>2, <2>3, <2>4
<1> QED BY <1>2, <1>3, <1>4

\* A monitor or a purge is no apply.
LEMMA NoApply ==
  ASSUME IInv, NEW p \in Procs,
         \/ OpenRings(p) \/ Enable(p) \/ CtrlC(p)
         \/ DetachLink(p) \/ RemoveUdpTree(p)
         \/ RemoveMainPin(p) \/ RemoveMainTree(p)
  PROVE  Progress(p)' /\ Succeeds(p)'
<1>1. /\ proc[p] \in Process /\ Control(proc[p]) /\ ProcsOK
      /\ proc[p].cmd \in {"monitor", "purge"}
  BY DEF IInv, ProcsOK, Control, OpenRings, Enable, CtrlC, DetachLink,
         RemoveUdpTree, RemoveMainPin, RemoveMainTree
<1>2. CASE proc' = proc
  BY <1>1, <1>2, NotYetApplied
<1>3. CASE proc' # proc
  <2>1. PICK pc : Step(p, [proc[p] EXCEPT !.pc = pc])
    BY <1>3 DEF OpenRings, Enable, CtrlC, DetachLink, RemoveUdpTree,
                RemoveMainPin, RemoveMainTree, Fail, StepTo
  <2> DEFINE next == [proc[p] EXCEPT !.pc = pc]
  <2>2. Step(p, next) /\ next.cmd = proc[p].cmd
    BY <1>1, <2>1 DEF Process
  <2> HIDE DEF next
  <2>3. proc'[p].cmd = proc[p].cmd
    BY <1>1, <2>2, StepEnds
  <2> QED BY <1>1, <2>3, NotYetApplied
<1> QED BY <1>2, <1>3

LEMMA ApplyStep ==
  ASSUME IInv, NEW p \in Procs, Progress(p), Command(p)
  PROVE  Progress(p)' /\ Succeeds(p)'
<1>1. CASE Stop(p)
  BY <1>1, FailedApply DEF Stop
<1> QED BY <1>1, ApplyStarts, ApplyReads, ApplyLoads, ApplyPins, ApplyLinks,
           NoApply DEF Command

\* A command that starts, or a monitor that waits, moves no object.
LEMMA RestingStep ==
  ASSUME IInv, NEW p \in Procs, Command(p), ~Working(p)
  PROVE  UNCHANGED <<pins, links, attached, loaded>>
<1>1. CASE StartApply(p) \/ StartShow(p) \/ StartMonitor(p) \/ StartPurge(p)
  BY <1>1 DEF StartApply, StartShow, StartMonitor, StartPurge, kernel
<1>2. CASE CtrlC(p)
  BY <1>2 DEF CtrlC
<1>3. CASE Stop(p)
  <2>1. proc[p].pc = "waiting" /\ p # NONE
    BY <1>3, NoneAssumption DEF Stop
  <2>2. \A i \in Ifaces : attached[i] = p => links[i] = p
    BY <2>1 DEF IInv, AttachedIsHeld
  <2>3. attached' = attached
    BY <1>3, <2>2 DEF Stop, Fail, IInv, KernelOK
  <2> QED BY <1>3, <2>3 DEF Stop, Fail
<1>4. CASE ~(StartApply(p) \/ StartShow(p) \/ StartMonitor(p) \/ StartPurge(p)
              \/ CtrlC(p) \/ Stop(p))
  BY <1>4 DEF Command, Working, Ended, EnsureDirs, Probe, ReadLength, ReadBlob,
              LoadAndPopulate, RemovePin, Pin, Unlink, Attach, PinLink,
              OpenRings, Enable, DetachLink, RemoveUdpTree, RemoveMainPin,
              RemoveMainTree
<1> QED BY <1>1, <1>2, <1>3, <1>4

IsInForce == last # NONE /\ AtRest /\ EndedWell(last, "apply") => InForce(last, {})

AInv == SERIAL => (\A p \in Procs : Progress(p)) /\ IsInForce

LEMMA ApplyNext ==
  ASSUME IInv, PInv, AInv, SERIAL, NEW p \in Procs, Command(p)
  PROVE  AInv'
<1>1. /\ StepOf(p) /\ Progress(p)' /\ Succeeds(p)'
      /\ \A q \in Procs \ {p} : proc'[q] = proc[q]
  BY ApplyStep, CommandOf DEF AInv, StepOf
<1>2. ASSUME NEW q \in Procs \ {p} PROVE Progress(q)'
  <2>1. CASE proc[q].pc \in Pinning \cup Linking
    <3>1. Working(q)
      BY <2>1 DEF Working, Pinning, Linking, Ended
    <3>2. ~Working(p)
      BY <1>2, <3>1 DEF PInv, Alone
    <3>3. UNCHANGED <<pins, links, attached, loaded>>
      BY <3>2, RestingStep
    <3> QED BY <1>1, <1>2, <3>3, ZenonT(60) DEF AInv, Progress, InForce, Running
  <2>2. CASE proc[q].pc \notin Pinning \cup Linking
    BY <1>1, <1>2, <2>2 DEF Progress, Pinning, Linking
  <2> QED BY <2>1, <2>2
<1>3. IsInForce'
  <2> SUFFICES ASSUME last' # NONE, AtRest', EndedWell(last, "apply")'
               PROVE  InForce(last, {})'
    BY DEF IsInForce, InForce, Running
  <2>1. ~Working(p)'
    BY DEF AtRest
  <2>2. last' = p
    BY <1>1, <2>1 DEF StepOf, Working
  <2> QED BY <1>1, <2>2 DEF Succeeds, EndedWell, InForce, Running
<1> QED BY <1>1, <1>2, <1>3 DEF AInv

(* When commands do not overlap, what an apply has pinned and attached is  *)
(* its own at every step.                                                  *)
THEOREM SerialApply == Spec => []AInv
<1>1. Init => AInv
  BY DEF Init, AInv, Progress, IsInForce, Idle
<1>2. IInv /\ PInv /\ AInv /\ [Next]_vars => AInv'
  <2> SUFFICES ASSUME IInv, PInv, AInv, [Next]_vars, SERIAL PROVE AInv'
    BY DEF AInv
  <2>1. CASE UNCHANGED vars
    BY <2>1 DEF vars, kernel, AInv, Progress, InForce, Running, IsInForce,
                AtRest, Working, EndedWell
  <2>2. ASSUME NEW i \in Ifaces, Unplug(i) \/ Plug(i) PROVE AInv'
    <3>1. /\ UNCHANGED <<pins, links, loaded, proc, last>>
          /\ \A j \in Ifaces :
               attached'[j] = attached[j] \/ (UNPLUGS /\ attached'[j] = NONE)
      BY <2>2 DEF Unplug, Plug, IInv, KernelOK
    <3>2. \A j \in Ifaces, p \in Procs :
            attached[j] \in Running(p) => attached'[j] \in Running(p)
      BY <3>1 DEF Running
    <3>3. \A p \in Procs :
            /\ InterfacesOf(proc[p].cfg) \subseteq Ifaces
            /\ proc[p].pc = "pin_link" => proc[p].iface \in Ifaces
      BY ConfigFacts DEF IInv, ProcsOK, Process, Control
    <3>4. \A p \in Procs : Progress(p)'
      BY <3>1, <3>2, <3>3 DEF AInv, Progress, InForce, Running
    <3>5. IsInForce'
      <4> SUFFICES ASSUME last # NONE, AtRest, EndedWell(last, "apply")
                   PROVE  InForce(last, {})'
        BY <3>1 DEF IsInForce, AtRest, Working, EndedWell, InForce, Running
      <4>1. InForce(last, {}) /\ last \in Procs
        BY DEF AInv, IsInForce, InForce, Running, IInv, ProcsOK
      <4> QED BY <3>1, <3>2, <3>3, <4>1 DEF InForce, Running
    <3> QED BY <3>4, <3>5 DEF AInv
  <2> QED BY <2>1, <2>2, ApplyNext DEF Next
<1> QED BY <1>1, <1>2, InvCorrect, SerialCorrect, PTL DEF Spec

(* When commands do not overlap, an apply that succeeds is in force: all   *)
(* pins are its own, and every interface of the merged configuration runs  *)
(* its program with rules under its index, unless it was unplugged         *)
(* meanwhile, whatever earlier commands failed or were killed.             *)
THEOREM ApplyComplete == Spec => [](SERIAL => ApplyTakesEffect)
<1>1. IInv /\ IndexOK /\ AInv => (SERIAL => ApplyTakesEffect)
  <2> SUFFICES ASSUME IInv, IndexOK, AInv, SERIAL,
                      last # NONE, AtRest, EndedWell(last, "apply")
               PROVE  /\ InForce(last, {})
                      /\ \A i \in InterfacesOf(proc[last].cfg) :
                           RunsRulesOf(i, last) \/ (UNPLUGS /\ attached[i] = NONE)
    BY DEF ApplyTakesEffect, InForce
  <2>1. InForce(last, {}) /\ last \in Procs
    BY DEF AInv, IsInForce, IInv, ProcsOK
  <2>2. /\ proc[last].pc \notin {"failed", "unreadable"}
        /\ loaded[last] = proc[last].cfg /\ loaded[last] # NONE
    BY <2>1, ConfigFacts DEF InForce, EndedWell, IInv, ProcsOK, Process
  <2>3. InterfacesOf(proc[last].cfg) \subseteq indexed[last] \cup slipped[last]
    BY <2>1, <2>2 DEF IndexOK
  <2>4. \A i \in InterfacesOf(proc[last].cfg) :
          attached[i] = last \/ (UNPLUGS /\ attached[i] = NONE)
    BY <2>1 DEF InForce, Running
  <2> QED BY <2>1, <2>3, <2>4 DEF RunsRulesOf
<1> QED BY <1>1, InvCorrect, IndexCorrect, SerialApply, PTL

(* Only Unlink takes a process from "unlink" to "attach".                   *)
LEMMA UnlinkOnly ==
  ASSUME IInv, NEW p \in Procs, Next,
         proc[p].pc = "unlink", proc'[p].pc = "attach"
  PROVE  Unlink(p)
<1>1. PICK q \in Procs : Command(q)
  BY DEF Next, Unplug, Plug
<1>2. q = p
  BY <1>1, CommandOf DEF StepOf
<1>3. ~Stop(p)
  <2> SUFFICES ASSUME Stop(p) PROVE FALSE
    OBVIOUS
  <2> DEFINE next == [proc[p] EXCEPT !.pc = "failed"]
  <2>1. Step(p, next) /\ next.pc = "failed" /\ ProcsOK
    BY DEF Stop, Fail, StepTo, IInv, ProcsOK, Process
  <2> HIDE DEF next
  <2>2. proc'[p].pc = "failed"
    BY <2>1, StepEnds
  <2> QED BY <2>2
<1>4. proc[p] # Idle
  BY DEF Idle
<1>5. CASE StartApply(p) \/ StartShow(p) \/ StartMonitor(p) \/ StartPurge(p)
  BY <1>4, <1>5 DEF StartApply, StartShow, StartMonitor, StartPurge, Start
<1> QED
  BY <1>1, <1>2, <1>3, <1>5
  DEF Command, EnsureDirs, Probe, ReadLength, ReadBlob, LoadAndPopulate,
      RemovePin, Pin, Attach, PinLink, OpenRings, Enable, CtrlC,
      DetachLink, RemoveUdpTree, RemoveMainPin, RemoveMainTree

(* When commands do not overlap, an apply takes the filter off one         *)
(* interface at a time, and only when its own program is ready and runs on *)
(* the interfaces it is done with.                                         *)
THEOREM OneByOne == Spec => OneInterfaceAtATime
<1> DEFINE Ready ==
      \A p \in Procs, i \in Ifaces :
        /\ SERIAL /\ proc[p].cmd = "apply"
        /\ proc[p].pc = "unlink" /\ proc'[p].pc = "attach"
        /\ attached[i] # NONE /\ attached'[i] = NONE
        =>
        /\ loaded[p] = proc[p].cfg
        /\ \A name \in Pins : pins[name] = p
        /\ \A j \in InterfacesOf(proc[p].cfg) \ {i} :
             /\ attached'[j] = attached[j]
             /\ j \notin proc[p].todo =>
                  /\ links[j] = p
                  /\ attached[j] \in IF UNPLUGS THEN {p, NONE} ELSE {p}
<1>1. ASSUME IInv, AInv, Next PROVE Ready
  <2> SUFFICES ASSUME SERIAL, NEW p \in Procs, NEW i \in Ifaces,
                      proc[p].cmd = "apply",
                      proc[p].pc = "unlink", proc'[p].pc = "attach",
                      attached[i] # NONE, attached'[i] = NONE
               PROVE  /\ loaded[p] = proc[p].cfg
                      /\ \A name \in Pins : pins[name] = p
                      /\ \A j \in InterfacesOf(proc[p].cfg) \ {i} :
                           /\ attached'[j] = attached[j]
                           /\ j \notin proc[p].todo =>
                                links[j] = p /\ attached[j] \in Running(p)
    BY DEF Running
  <2>1. InForce(p, proc[p].todo)
    BY <1>1 DEF AInv, Progress, Linking
  <2>2. PICK k \in proc[p].todo : Unpin(k)
    BY <1>1, UnlinkOnly DEF Unlink
  <2>3. /\ attached \in [Ifaces -> Procs \cup {NONE}]
        /\ InterfacesOf(proc[p].cfg) \subseteq Ifaces /\ k \in Ifaces
    BY <1>1, ConfigFacts DEF IInv, KernelOK, ProcsOK, Process
  <2>4. \A j \in Ifaces : j # k => attached'[j] = attached[j]
    BY <2>2, <2>3 DEF Unpin
  <2> QED BY <2>1, <2>3, <2>4 DEF InForce
<1>2. IInv /\ AInv /\ [Next]_vars => [Ready]_vars
  <2> HIDE DEF Ready
  <2> QED BY <1>1
<1> QED BY <1>2, InvCorrect, SerialApply, PTL DEF Spec, OneInterfaceAtATime

-----------------------------------------------------------------------------
(* The configuration that is kept in the pins, when commands do not        *)
(* overlap and no apply has failed: it is what the attached programs run,  *)
(* and it has every section that was ever applied.                         *)

Early == {"idle"} \cup Loading \cup Pinning

(* An object whose process has not come to its links is on no interface.   *)
Unattached ==
  \A p \in Procs : proc[p].pc \in Early => \A i \in Ifaces : attached[i] # p

Applied(i) == attached[i] # NONE /\ proc[attached[i]].cmd = "apply"

Writes(p) == proc[p].cmd = "apply" /\ proc[p].pc \in Pinning \cup Linking

Applying == \E p \in Procs : Writes(p)

Covers(cfg) == \A i \in Ifaces : Applied(i) => i \in InterfacesOf(cfg)

HasAll(cfg) ==
  \A p \in Procs : EndedWell(p, "apply") => DOMAIN proc[p].given \subseteq DOMAIN cfg

(* Between applies the stored configuration is that of the attached        *)
(* programs, and names their interfaces; during one, the merged            *)
(* configuration does, and what is not attached anew is still to do.       *)
StoredIsAttached ==
  ~Applying =>
    \A i \in Ifaces : Applied(i) =>
      /\ pins["CFG"] = attached[i] /\ pins["CFG_LEN"] = attached[i]
      /\ i \in InterfacesOf(loaded[attached[i]])

MergedIsAttached(p) ==
  proc[p].cmd = "apply" =>
    /\ proc[p].pc \in {"load"} \cup Pinning \cup Linking => Covers(proc[p].cfg)
    /\ proc[p].pc \in Linking =>
         /\ proc[p].todo \subseteq InterfacesOf(proc[p].cfg)
         /\ \A i \in Ifaces :
              Applied(i) => attached[i] = p \/ i \in proc[p].todo
    /\ proc[p].pc \in {"attach", "pin_link"} => proc[p].iface \in proc[p].todo

AttachedInv == StoredIsAttached /\ \A p \in Procs : MergedIsAttached(p)

(* The same of the sections of all applies, as long as nobody purges.      *)
StoredHasAll ==
  ~Applying =>
    /\ pins["CFG"] = pins["CFG_LEN"]
    /\ (\E p \in Procs : EndedWell(p, "apply")) => pins["CFG"] # NONE
    /\ pins["CFG"] # NONE => HasAll(loaded[pins["CFG"]])

MergedHasAll(p) ==
  proc[p].cmd = "apply" =>
    /\ proc[p].pc \notin Ended => DOMAIN proc[p].given \subseteq DOMAIN proc[p].cfg
    /\ proc[p].pc \in {"load"} \cup Pinning \cup Linking => HasAll(proc[p].cfg)

KeptInv == StoredHasAll /\ \A p \in Procs : MergedHasAll(p)

NonePurged == \A p \in Procs : proc[p].cmd # "purge"

-----------------------------------------------------------------------------
(* What is attached *)

(* Only Attach puts an object on an interface.                             *)
LEMMA AttachedBy ==
  ASSUME IInv, NEW p \in Procs, Command(p), NEW i \in Ifaces
  PROVE  \/ attached'[i] \in {attached[i], NONE}
         \/ /\ Attach(p) /\ ~Fail(p, "failed")
            /\ i = proc[p].iface /\ attached'[i] = p
<1>1. attached \in [Ifaces -> Procs \cup {NONE}]
  BY DEF IInv, KernelOK
<1>2. CASE \E how \in {"failed", "unreadable"} : Fail(p, how)
  BY <1>1, <1>2 DEF Fail
<1>3. CASE (Unlink(p) \/ DetachLink(p)) /\ ~(\E how \in {"failed", "unreadable"} : Fail(p, how))
  BY <1>1, <1>3 DEF Unlink, DetachLink, Unpin
<1>4. CASE Attach(p) /\ ~(\E how \in {"failed", "unreadable"} : Fail(p, how))
  BY <1>1, <1>4 DEF Attach
<1>5. CASE ~(Unlink(p) \/ DetachLink(p) \/ Attach(p)) /\ ~(\E how \in {"failed", "unreadable"} : Fail(p, how))
  BY <1>5 DEF Command, StartApply, StartShow, StartMonitor, StartPurge,
       EnsureDirs, Probe, ReadLength, ReadBlob, LoadAndPopulate, RemovePin, Pin,
       PinLink, OpenRings, Enable, CtrlC, RemoveUdpTree, RemoveMainPin,
       RemoveMainTree, Stop, kernel
<1> QED BY <1>2, <1>3, <1>4, <1>5

(* Nobody comes back to its pins once it is past them.                     *)
LEMMA EarlyBefore ==
  ASSUME IInv, NEW p \in Procs, Command(p), proc'[p].pc \in Early
  PROVE  proc[p].pc \in Early
<1>1. SwitchStep(p)
  BY SwitchOf
<1>2. PICK name \in Pins : NotYet(proc'[p], name)
  <2>1. CASE proc'[p].pc \in {"idle"} \cup Loading
    BY <2>1 DEF NotYet, Pins
  <2>2. CASE proc'[p].pc \in Pinning
    <3> DEFINE r == proc'[p]
               order == PinOrder(r.cmd)
    <3>1. /\ r.cmd \in {"apply", "monitor"} /\ r.at \in 1 .. Len(order)
          /\ Len(order) \in Nat
      <4>1. IInv'
        BY IInvNext DEF Next
      <4>2. Control(r)
        BY <4>1 DEF IInv, ProcsOK
      <4> QED BY <2>2, <4>2, PinOrderFacts DEF Control
    <3>2. order[r.at] \in Pins
      BY <3>1, PinOrderFacts
    <3>3. \A n \in 1 .. r.at - 1 : order[n] # order[r.at]
      <4> SUFFICES ASSUME NEW n \in 1 .. r.at - 1, order[n] = order[r.at]
                   PROVE  FALSE
        OBVIOUS
      <4>1. n \in 1 .. Len(order) /\ n # r.at
        BY <3>1
      <4> QED BY <3>1, <4>1, PinnedOnce
    <3>4. NotYet(r, order[r.at])
      BY <2>2, <3>3 DEF NotYet
    <3> QED BY <3>2, <3>4
  <2> QED BY <2>1, <2>2 DEF Early
<1> QED BY <1>1, <1>2 DEF SwitchStep, NotYet, Early

LEMMA UnattachedNext ==
  ASSUME IInv, Unattached, NEW p \in Procs, Command(p)
  PROVE  Unattached'
<1>1. \A q \in Procs \ {p} : proc'[q] = proc[q]
  BY CommandOf DEF StepOf
<1>2. ASSUME NEW q \in Procs, proc'[q].pc \in Early, NEW i \in Ifaces,
             attached'[i] = q
      PROVE  FALSE
  <2>1. proc[q].pc \in Early
    BY <1>1, <1>2, EarlyBefore
  <2>2. attached[i] # q /\ q # NONE
    BY <2>1, NoneAssumption DEF Unattached
  <2>3. Attach(p) /\ q = p
    BY <1>2, <2>2, AttachedBy
  <2> QED BY <2>1, <2>3 DEF Attach, Early, Loading, Pinning
<1> QED BY <1>2 DEF Unattached

-----------------------------------------------------------------------------
(* Steps that leave the stored configuration to the next apply *)

Tame(p) ==
  /\ \/ pins'["CFG"] = pins["CFG"] /\ pins'["CFG_LEN"] = pins["CFG_LEN"]
     \/ proc'[p].cmd = "purge" /\ \A i \in Ifaces : attached[i] = NONE
  /\ \A i \in Ifaces :
       attached'[i] = attached[i] \/ attached'[i] = NONE
         \/ (attached'[i] = p /\ proc'[p].cmd # "apply")
  /\ \A q \in Procs : loaded'[q] = loaded[q] \/ (q = p /\ proc[p].pc = "load")
  /\ proc[p].pc # "idle" => proc'[p].cmd = proc[p].cmd
  /\ proc'[p].cmd = "apply" =>
       /\ proc'[p].pc \notin {"load", "done"} \cup Pinning \cup Linking
       /\ \/ proc'[p].cfg = proc'[p].given
          \/ /\ proc'[p].cfg = proc[p].cfg /\ proc'[p].given = proc[p].given
             /\ proc[p].cmd = "apply"
  /\ ~Writes(p)

\* An earlier failure is not undone.
LEMMA FailedBefore ==
  ASSUME IInv, NEW p \in Procs, Command(p), NoneFailed("apply")'
  PROVE  NoneFailed("apply")
<1>1. proc[p].pc \notin Ended /\ \A q \in Procs \ {p} : proc'[q] = proc[q]
  BY SwitchOf, CommandOf DEF SwitchStep, StepOf
<1> QED BY <1>1 DEF NoneFailed, Ended

LEMMA TameStep ==
  ASSUME IInv, Fresh, Unattached, NEW p \in Procs, Command(p), Tame(p),
         AttachedInv, NonePurged => KeptInv
  PROVE  AttachedInv' /\ (NonePurged => KeptInv)'
<1>1. /\ \A q \in Procs \ {p} : proc'[q] = proc[q]
      /\ proc[p].pc \notin Ended /\ p # NONE /\ NONE \notin Procs
      /\ attached \in [Ifaces -> Procs \cup {NONE}]
      /\ pins \in [Pins -> Procs \cup {NONE}]
      /\ "CFG" \in Pins /\ "CFG_LEN" \in Pins
      /\ Control(proc[p])
  BY SwitchOf, CommandOf, NoneAssumption
     DEF SwitchStep, StepOf, IInv, KernelOK, ProcsOK, Pins, MainPins
<1>2. \A i \in Ifaces : Applied(i)' => Applied(i) /\ attached'[i] = attached[i]
  <2> SUFFICES ASSUME NEW i \in Ifaces, Applied(i)'
               PROVE  Applied(i) /\ attached'[i] = attached[i]
    OBVIOUS
  <2>1. attached'[i] = attached[i] /\ attached[i] \in Procs
    BY <1>1 DEF Tame, Applied
  <2>2. attached[i] = p => proc[p].pc # "idle"
    BY <2>1 DEF Unattached, Early
  <2> QED BY <1>1, <2>1, <2>2 DEF Tame, Applied
<1>3. Applying => Applying'
  <2>1. \A q \in Procs : Writes(q) => q # p
    BY DEF Tame
  <2> QED BY <1>1, <2>1 DEF Applying, Writes
<1>4. \A q \in Procs : EndedWell(q, "apply")' => q # p /\ EndedWell(q, "apply")
  BY <1>1 DEF Tame, EndedWell
<1>5. \A name \in Pins : pins[name] # NONE
                           => loaded'[pins[name]] = loaded[pins[name]]
  BY <1>1 DEF Tame, Fresh, NotYet, Loading
<1>6. StoredIsAttached'
  <2> SUFFICES ASSUME ~Applying', NEW i \in Ifaces, Applied(i)'
               PROVE  /\ pins'["CFG"] = attached'[i] /\ pins'["CFG_LEN"] = attached'[i]
                      /\ i \in InterfacesOf(loaded'[attached'[i]])
    BY DEF StoredIsAttached
  <2>1. /\ pins["CFG"] = attached[i] /\ pins["CFG_LEN"] = attached[i]
        /\ i \in InterfacesOf(loaded[attached[i]]) /\ Applied(i)
        /\ attached'[i] = attached[i]
    BY <1>2, <1>3 DEF AttachedInv, StoredIsAttached
  <2>2. attached[i] # NONE
    BY <2>1 DEF Applied
  <2> QED BY <1>1, <1>5, <2>1, <2>2 DEF Tame
<1>7. ASSUME NEW q \in Procs PROVE MergedIsAttached(q)'
  <2>1. CASE q = p
    BY <2>1 DEF Tame, MergedIsAttached, Linking
  <2>2. CASE q # p
    <3>1. MergedIsAttached(q) /\ proc'[q] = proc[q]
      BY <1>1, <2>2 DEF AttachedInv
    <3> QED BY <1>2, <3>1 DEF MergedIsAttached, Covers
  <2> QED BY <2>1, <2>2
<1>8. ASSUME NonePurged' PROVE KeptInv'
  <2>1. NonePurged
    BY <1>1, <1>8 DEF NonePurged, Tame, Control
  <2>2. pins'["CFG"] = pins["CFG"] /\ pins'["CFG_LEN"] = pins["CFG_LEN"]
    BY <1>8 DEF NonePurged, Tame
  <2>3. \A cfg : HasAll(cfg) => \A q \in Procs : EndedWell(q, "apply")' =>
                   DOMAIN proc'[q].given \subseteq DOMAIN cfg
    BY <1>1, <1>4 DEF HasAll
  <2>4. StoredHasAll'
    <3>1. StoredHasAll
      BY <2>1 DEF KeptInv
    <3>2. pins["CFG"] # NONE => loaded'[pins["CFG"]] = loaded[pins["CFG"]]
      BY <1>1, <1>5
    <3> QED BY <1>3, <1>4, <2>2, <2>3, <3>1, <3>2 DEF StoredHasAll, HasAll
  <2>5. ASSUME NEW q \in Procs PROVE MergedHasAll(q)'
    <3>1. MergedHasAll(q)
      BY <2>1 DEF KeptInv
    <3>2. CASE q = p
      BY <1>1, <3>1, <3>2 DEF Tame, MergedHasAll
    <3>3. CASE q # p
      <4>1. proc'[q] = proc[q]
        BY <1>1, <3>3
      <4> QED BY <2>3, <3>1, <4>1 DEF MergedHasAll, HasAll
    <3> QED BY <3>2, <3>3
  <2> QED BY <2>4, <2>5 DEF KeptInv
<1> QED BY <1>6, <1>7, <1>8 DEF AttachedInv

(* A process stays with its command.                                       *)
LEMMA CommandKept ==
  ASSUME IInv, NEW p \in Procs, Command(p), proc[p].pc # "idle"
  PROVE  proc'[p].cmd = proc[p].cmd
<1> DEFINE r == proc[p]
<1>1. r \in Process /\ ProcsOK
  BY DEF IInv, ProcsOK
<1>2. CASE proc' = proc
  BY <1>2
<1>3. CASE proc' # proc
  <2>1. /\ \A a : [r EXCEPT !.pc = a].cmd = r.cmd
        /\ \A a, b : [r EXCEPT !.cfg = a, !.pc = b].cmd = r.cmd
        /\ \A a, b : [r EXCEPT !.len = a, !.pc = b].cmd = r.cmd
        /\ \A a, b : [r EXCEPT !.pc = a, !.iface = b].cmd = r.cmd
        /\ \A a, b : [r EXCEPT !.todo = a, !.pc = b].cmd = r.cmd
        /\ \A a, b : [r EXCEPT !.at = a, !.pc = b].cmd = r.cmd
    BY <1>1 DEF Process
  <2>2. CASE \E how : Fail(p, how)
    <3>1. PICK how : Step(p, [r EXCEPT !.pc = how])
      BY <2>2 DEF Fail, StepTo
    <3> DEFINE next == [r EXCEPT !.pc = how]
    <3>2. Step(p, next) /\ next.cmd = r.cmd
      BY <2>1, <3>1
    <3> HIDE DEF next
    <3> QED BY <1>1, <3>2, StepEnds
  <2>3. CASE /\ ~\E how : Fail(p, how)
             /\ \/ EnsureDirs(p) \/ Probe(p) \/ LoadAndPopulate(p) \/ RemovePin(p)
                \/ Attach(p) \/ OpenRings(p) \/ Enable(p) \/ CtrlC(p) \/ Stop(p)
                \/ DetachLink(p) \/ RemoveUdpTree(p)
                \/ RemoveMainPin(p) \/ RemoveMainTree(p)
    <3>1. PICK pc : Step(p, [r EXCEPT !.pc = pc])
      BY <1>3, <2>3 DEF EnsureDirs, Probe, LoadAndPopulate, RemovePin, Attach,
         OpenRings, Enable, CtrlC, DetachLink, RemoveUdpTree, RemoveMainPin,
         RemoveMainTree, Stop, StepTo
    <3> DEFINE next == [r EXCEPT !.pc = pc]
    <3>2. Step(p, next) /\ next.cmd = r.cmd
      BY <2>1, <3>1
    <3> HIDE DEF next
    <3> QED BY <1>1, <3>2, StepEnds
  <2>4. CASE ~(\E how : Fail(p, how)) /\ (ReadLength(p) \/ ReadBlob(p))
    <3>1. CASE \E cfg : HasRead(p, cfg)
      <4>1. PICK cfg, pc : Step(p, [r EXCEPT !.cfg = cfg, !.pc = pc])
        BY <3>1 DEF HasRead
      <4> DEFINE next == [r EXCEPT !.cfg = cfg, !.pc = pc]
      <4>2. Step(p, next) /\ next.cmd = r.cmd
        BY <2>1, <4>1
      <4> HIDE DEF next
      <4> QED BY <1>1, <4>2, StepEnds
    <3>2. CASE ~\E cfg : HasRead(p, cfg)
      <4>1. PICK len, pc : Step(p, [r EXCEPT !.len = len, !.pc = pc])
        BY <2>4, <3>2 DEF ReadLength, ReadBlob
      <4> DEFINE next == [r EXCEPT !.len = len, !.pc = pc]
      <4>2. Step(p, next) /\ next.cmd = r.cmd
        BY <2>1, <4>1
      <4> HIDE DEF next
      <4> QED BY <1>1, <4>2, StepEnds
    <3> QED BY <3>1, <3>2
  <2>5. CASE ~(\E how : Fail(p, how)) /\ Pin(p)
    <3>1. Step(p, AfterPin(p))
      BY <2>5 DEF Pin
    <3>2. AfterPin(p).cmd = r.cmd
      BY <2>1 DEF AfterPin
    <3> QED BY <3>1, <3>2, <1>1, StepEnds
  <2>6. CASE Unlink(p)
    <3>1. PICK i : Step(p, [r EXCEPT !.pc = "attach", !.iface = i])
      BY <2>6 DEF Unlink
    <3> DEFINE next == [r EXCEPT !.pc = "attach", !.iface = i]
    <3>2. Step(p, next) /\ next.cmd = r.cmd
      BY <2>1, <3>1
    <3> HIDE DEF next
    <3> QED BY <1>1, <3>2, StepEnds
  <2>7. CASE ~(\E how : Fail(p, how)) /\ PinLink(p)
    <3>1. PICK todo, pc : Step(p, [r EXCEPT !.todo = todo, !.pc = pc])
      BY <2>7 DEF PinLink
    <3> DEFINE next == [r EXCEPT !.todo = todo, !.pc = pc]
    <3>2. Step(p, next) /\ next.cmd = r.cmd
      BY <2>1, <3>1
    <3> HIDE DEF next
    <3> QED BY <1>1, <3>2, StepEnds
  <2>8. CASE StartApply(p) \/ StartShow(p) \/ StartMonitor(p) \/ StartPurge(p)
    <3>1. r = Idle
      BY <2>8 DEF StartApply, StartShow, StartMonitor, StartPurge, Start
    <3> QED BY <3>1 DEF Idle
  <2> QED BY <2>2, <2>3, <2>4, <2>5, <2>6, <2>7, <2>8 DEF Command
<1> QED BY <1>2, <1>3

LEMMA TameStart ==
  ASSUME IInv, NEW p \in Procs,
         StartApply(p) \/ StartShow(p) \/ StartMonitor(p) \/ StartPurge(p)
  PROVE  Tame(p)
<1>1. PICK cmd, pc, given, iface :
        /\ Start(p, cmd, pc, given, iface) /\ UNCHANGED kernel
        /\ cmd # "apply" \/ pc = "ensure_dirs"
  BY DEF StartApply, StartShow, StartMonitor, StartPurge
<1> DEFINE next == [Idle EXCEPT !.cmd = cmd, !.pc = pc, !.given = given,
                                !.cfg = given, !.iface = iface]
<1>2. /\ proc' = [proc EXCEPT ![p] = next] /\ next.cmd = cmd /\ next.pc = pc
      /\ next.cfg = next.given /\ proc[p].pc = "idle"
  BY <1>1 DEF Start, Becomes, Idle
<1> HIDE DEF next
<1>3. proc'[p] = next
  BY <1>2 DEF IInv, ProcsOK
<1> QED BY <1>1, <1>2, <1>3 DEF Tame, Writes, kernel, Pinning, Linking

(* Whatever a show, a monitor or a purge does.                             *)
LEMMA TameOther ==
  ASSUME IInv, HalfPurged, NEW p \in Procs, Command(p),
         proc[p].pc # "idle", proc[p].cmd # "apply"
  PROVE  Tame(p)
<1>1. /\ Control(proc[p]) /\ pins \in [Pins -> Procs \cup {NONE}]
      /\ loaded \in [Procs -> Config \cup {NONE}]
      /\ proc'[p].cmd = proc[p].cmd
  BY CommandKept DEF IInv, ProcsOK, KernelOK
<1>2. \/ pins'["CFG"] = pins["CFG"] /\ pins'["CFG_LEN"] = pins["CFG_LEN"]
      \/ proc'[p].cmd = "purge" /\ \A i \in Ifaces : attached[i] = NONE
  <2>1. CASE RemovePin(p) \/ Pin(p)
    <3>1. /\ proc[p].cmd = "monitor"
          /\ proc[p].at \in 1 .. Len(PinOrder("monitor"))
      BY <1>1, <2>1 DEF Control, RemovePin, Pin, Pinning
    <3>2. proc[p].at = 1 \/ proc[p].at = 2 \/ proc[p].at = 3 \/ proc[p].at = 4
      <4>1. Len(PinOrder("monitor")) = 4
        BY PinOrderOfMonitor
      <4>2. proc[p].at \in 1 .. 4
        BY <3>1, <4>1
      <4> QED BY <4>2
    <3>3. PinOrder("monitor")[proc[p].at] \notin {"CFG", "CFG_LEN"}
      BY <3>2, PinOrderOfMonitor
    <3>4. \/ pins' = pins
          \/ \E x : pins' = [pins EXCEPT ![PinOrder("monitor")[proc[p].at]] = x]
      BY <2>1, <3>1 DEF RemovePin, Pin, Fail
    <3> QED BY <1>1, <3>3, <3>4 DEF Pins, MainPins
  <2>2. CASE RemoveMainPin(p) \/ RemoveMainTree(p)
    <3>1. proc[p].pc = "remove_main"
      BY <2>2 DEF RemoveMainPin, RemoveMainTree
    <3> QED BY <1>1, <3>1 DEF HalfPurged, Control
  <2>3. CASE RemoveUdpTree(p)
    BY <1>1, <2>3 DEF RemoveUdpTree, Pins, MainPins
  <2>4. CASE ~(RemovePin(p) \/ Pin(p) \/ RemoveMainPin(p) \/ RemoveMainTree(p)
                \/ RemoveUdpTree(p))
    <3>1. pins' = pins
      BY <2>4 DEF Command, StartApply, StartShow, StartMonitor, StartPurge,
         EnsureDirs, Probe, ReadLength, ReadBlob, LoadAndPopulate, Unlink, Attach,
         PinLink, OpenRings, Enable, CtrlC, DetachLink, Stop, Fail, kernel
    <3> QED BY <3>1
  <2> QED BY <2>1, <2>2, <2>3, <2>4
<1>3. \A i \in Ifaces :
        attached'[i] = attached[i] \/ attached'[i] = NONE \/ attached'[i] = p
  BY AttachedBy
<1>4. \A q \in Procs : loaded'[q] = loaded[q] \/ (q = p /\ proc[p].pc = "load")
  <2>1. CASE LoadAndPopulate(p)
    BY <1>1, <2>1 DEF LoadAndPopulate, Fail
  <2>2. CASE ~LoadAndPopulate(p)
    BY <2>2 DEF Command, StartApply, StartShow, StartMonitor, StartPurge,
         EnsureDirs, Probe, ReadLength, ReadBlob, RemovePin, Pin, Unlink, Attach,
         PinLink, OpenRings, Enable, CtrlC, DetachLink, RemoveUdpTree,
         RemoveMainPin, RemoveMainTree, Stop, Fail, kernel
  <2> QED BY <2>1, <2>2
<1> QED BY <1>1, <1>2, <1>3, <1>4 DEF Tame, Writes

\* The steps of an apply that only find out whether there is something to read.
LEMMA TameApply ==
  ASSUME IInv, NEW p \in Procs, proc[p].cmd = "apply", UNCHANGED <<pins, attached, loaded>>,
         proc[p].pc \in Loading,
         proc'[p].cmd = "apply", proc'[p].pc \in {"probe", "read_length", "read_blob"},
         proc'[p].cfg = proc[p].cfg, proc'[p].given = proc[p].given
  PROVE  Tame(p)
BY DEF Tame, Writes, Loading, Pinning, Linking

-----------------------------------------------------------------------------
(* The steps of an apply *)

LEMMA InterfacesGrow ==
  ASSUME NEW cfg, NEW more, DOMAIN cfg \subseteq DOMAIN more
  PROVE  InterfacesOf(cfg) \subseteq InterfacesOf(more)
BY DEF InterfacesOf

(* An apply that works is the only one.                                    *)
LEMMA OthersRest ==
  ASSUME IInv, Alone, NEW p \in Procs, Working(p), NEW q \in Procs \ {p}
  PROVE  proc[q].pc \notin Loading \cup Pinning \cup Linking
BY DEF Alone, Working, Loading, Pinning, Linking, Ended

(* An apply that has read the stored configuration has merged it.          *)
LEMMA ReadStep ==
  ASSUME IInv, Alone, NEW p \in Procs, Command(p),
         AttachedInv, NonePurged => KeptInv, UNCHANGED kernel,
         proc[p].cmd = "apply", proc[p].pc \in Loading,
         proc'[p].cmd = "apply", proc'[p].pc = "load",
         proc'[p].given = proc[p].given,
         DOMAIN proc[p].given \subseteq DOMAIN proc[p].cfg
           => DOMAIN proc[p].given \subseteq DOMAIN proc'[p].cfg,
         \/ pins["CFG_LEN"] = NONE
         \/ /\ pins["CFG"] # NONE
            /\ DOMAIN loaded[pins["CFG"]] \subseteq DOMAIN proc'[p].cfg
  PROVE  AttachedInv' /\ (NonePurged => KeptInv)'
<1>1. /\ \A q \in Procs \ {p} : proc'[q] = proc[q]
      /\ attached \in [Ifaces -> Procs \cup {NONE}]
  BY CommandOf DEF StepOf, IInv, KernelOK
<1>2. Working(p)
  BY DEF Working, Loading, Ended
<1>3. ~Applying /\ ~Applying'
  BY <1>1, <1>2, OthersRest DEF Applying, Writes, Loading, Pinning, Linking
<1>4. /\ \A i \in Ifaces : Applied(i)' <=> Applied(i)
      /\ \A q \in Procs : EndedWell(q, "apply")' => q # p /\ EndedWell(q, "apply")
  BY <1>1 DEF Applied, EndedWell, kernel
<1>5. Covers(proc[p].cfg)'
  <2> SUFFICES ASSUME NEW i \in Ifaces, Applied(i)
               PROVE  i \in InterfacesOf(proc'[p].cfg)
    BY <1>4 DEF Covers
  <2>1. /\ pins["CFG"] = attached[i] /\ pins["CFG_LEN"] = attached[i]
        /\ i \in InterfacesOf(loaded[attached[i]]) /\ attached[i] # NONE
    BY <1>3 DEF AttachedInv, StoredIsAttached, Applied
  <2> QED BY <2>1, InterfacesGrow
<1>6. AttachedInv'
  <2>1. StoredIsAttached'
    BY <1>3, <1>4 DEF AttachedInv, StoredIsAttached, kernel
  <2>2. ASSUME NEW q \in Procs PROVE MergedIsAttached(q)'
    <3>1. CASE q = p
      BY <1>5, <3>1 DEF MergedIsAttached, Linking
    <3>2. CASE q # p
      <4>1. proc'[q] = proc[q] /\ MergedIsAttached(q)
        BY <1>1, <3>2 DEF AttachedInv
      <4> QED BY <1>4, <4>1 DEF MergedIsAttached, Covers, kernel
    <3> QED BY <3>1, <3>2
  <2> QED BY <2>1, <2>2 DEF AttachedInv
<1>7. ASSUME NonePurged' PROVE KeptInv'
  <2>1. KeptInv
    BY <1>1, <1>7 DEF NonePurged
  <2>2. \A cfg : HasAll(cfg) => \A q \in Procs : EndedWell(q, "apply")' =>
                   DOMAIN proc'[q].given \subseteq DOMAIN cfg
    BY <1>1, <1>4 DEF HasAll
  <2>3. StoredHasAll'
    BY <1>3, <1>4, <2>1, <2>2 DEF KeptInv, StoredHasAll, HasAll, kernel
  <2>4. \A q \in Procs : EndedWell(q, "apply")'
          => DOMAIN proc'[q].given \subseteq DOMAIN proc'[p].cfg
    <3> SUFFICES ASSUME NEW q \in Procs, EndedWell(q, "apply")'
                 PROVE  DOMAIN proc'[q].given \subseteq DOMAIN proc'[p].cfg
      OBVIOUS
    <3>1. /\ pins["CFG"] = pins["CFG_LEN"] /\ pins["CFG"] # NONE
          /\ HasAll(loaded[pins["CFG"]])
      BY <1>3, <1>4, <2>1 DEF KeptInv, StoredHasAll
    <3>2. DOMAIN proc'[q].given \subseteq DOMAIN loaded[pins["CFG"]]
      BY <2>2, <3>1
    <3> QED BY <3>1, <3>2
  <2>5. ASSUME NEW q \in Procs PROVE MergedHasAll(q)'
    <3>1. MergedHasAll(q)
      BY <2>1 DEF KeptInv
    <3>2. CASE q = p
      BY <2>4, <3>1, <3>2 DEF MergedHasAll, HasAll, Loading, Ended
    <3>3. CASE q # p
      <4>1. proc'[q] = proc[q]
        BY <1>1, <3>3
      <4> QED BY <2>2, <3>1, <4>1 DEF MergedHasAll, HasAll
    <3> QED BY <3>2, <3>3
  <2> QED BY <2>3, <2>5 DEF KeptInv
<1> QED BY <1>6, <1>7

(* What is left to do when an apply has come to its links.                 *)
Left(r) == IF r.pc = "done" THEN {} ELSE r.todo

LEMMA WorkStep ==
  ASSUME IInv, Alone, Unattached, NEW p \in Procs, Command(p), Succeeds(p)',
         AttachedInv, NonePurged => KeptInv,
         proc[p].cmd = "apply", proc[p].pc \in {"load"} \cup Pinning \cup Linking,
         proc'[p].cmd = "apply",
         proc'[p].pc \in Pinning \cup Linking \cup {"done"},
         proc'[p].given = proc[p].given, proc'[p].cfg = proc[p].cfg,
         \A i \in Ifaces :
           \/ attached'[i] = attached[i] \/ attached'[i] = NONE
           \/ attached'[i] = p /\ i \in InterfacesOf(proc[p].cfg),
         proc'[p].pc \in Linking \cup {"done"} =>
           \A i \in Ifaces : Applied(i)' => attached'[i] = p \/ i \in Left(proc'[p]),
         proc'[p].pc \in Linking =>
           proc'[p].todo \subseteq InterfacesOf(proc[p].cfg),
         proc'[p].pc \in {"attach", "pin_link"} => proc'[p].iface \in proc'[p].todo
  PROVE  AttachedInv' /\ (NonePurged => KeptInv)'
<1>1. /\ \A q \in Procs \ {p} : proc'[q] = proc[q]
      /\ attached \in [Ifaces -> Procs \cup {NONE}]
      /\ "CFG" \in Pins /\ "CFG_LEN" \in Pins /\ p # NONE
  BY CommandOf, NoneAssumption DEF StepOf, IInv, KernelOK, Pins, MainPins
<1>2. Working(p)
  BY DEF Working, Pinning, Linking, Ended
<1>3. \A q \in Procs \ {p} : proc[q].pc \notin Loading \cup Pinning \cup Linking
  BY <1>2, OthersRest
<1>4. Covers(proc[p].cfg)'
  <2> SUFFICES ASSUME NEW i \in Ifaces, Applied(i)'
               PROVE  i \in InterfacesOf(proc[p].cfg)
    BY DEF Covers
  <2>1. CASE attached'[i] = attached[i]
    <3>1. Applied(i)
      BY <1>1, <2>1 DEF Applied
    <3> QED BY <3>1 DEF AttachedInv, MergedIsAttached, Covers
  <2>2. CASE attached'[i] # attached[i]
    BY <2>2 DEF Applied
  <2> QED BY <2>1, <2>2
<1>5. ~Applying' => /\ proc'[p].pc = "done"
                    /\ loaded'[p] = proc[p].cfg
                    /\ pins'["CFG"] = p /\ pins'["CFG_LEN"] = p
  BY <1>1 DEF Applying, Writes, Succeeds, EndedWell, InForce
<1>6. AttachedInv'
  <2>1. StoredIsAttached'
    <3> SUFFICES ASSUME ~Applying', NEW i \in Ifaces, Applied(i)'
                 PROVE  /\ pins'["CFG"] = attached'[i] /\ pins'["CFG_LEN"] = attached'[i]
                        /\ i \in InterfacesOf(loaded'[attached'[i]])
      BY DEF StoredIsAttached
    <3>1. attached'[i] = p
      BY <1>5 DEF Left
    <3> QED BY <1>4, <1>5, <3>1 DEF Covers
  <2>2. ASSUME NEW q \in Procs PROVE MergedIsAttached(q)'
    <3>1. CASE q = p
      BY <1>4, <3>1 DEF MergedIsAttached, Left, Linking
    <3>2. CASE q # p
      BY <1>1, <1>3, <3>2 DEF MergedIsAttached, Loading, Linking
    <3> QED BY <3>1, <3>2
  <2> QED BY <2>1, <2>2 DEF AttachedInv
<1>7. ASSUME NonePurged' PROVE KeptInv'
  <2>1. KeptInv
    BY <1>1, <1>7 DEF NonePurged
  <2>2. /\ DOMAIN proc[p].given \subseteq DOMAIN proc[p].cfg
        /\ HasAll(proc[p].cfg)
    BY <2>1 DEF KeptInv, MergedHasAll, Ended, Pinning, Linking
  <2>3. HasAll(proc[p].cfg)'
    BY <1>1, <2>2 DEF HasAll, EndedWell
  <2>4. StoredHasAll'
    BY <1>1, <1>5, <2>3 DEF StoredHasAll
  <2>5. ASSUME NEW q \in Procs PROVE MergedHasAll(q)'
    <3>1. CASE q = p
      BY <2>2, <2>3, <3>1 DEF MergedHasAll
    <3>2. CASE q # p
      <4>1. MergedHasAll(q) /\ proc'[q] = proc[q]
        BY <1>1, <2>1, <3>2 DEF KeptInv
      <4> QED BY <1>3, <3>2, <4>1 DEF MergedHasAll, Loading
    <3> QED BY <3>1, <3>2
  <2> QED BY <2>4, <2>5 DEF KeptInv
<1> QED BY <1>6, <1>7
(* A failing apply ends the promise.                                       *)
LEMMA FailsLoudly ==
  ASSUME IInv, NEW p \in Procs, proc[p].cmd = "apply",
         NEW how \in {"failed", "unreadable"}, Fail(p, how)
  PROVE  ~NoneFailed("apply")'
<1> DEFINE next == [proc[p] EXCEPT !.pc = how]
<1>1. Step(p, next) /\ next.pc = how /\ next.cmd = "apply" /\ ProcsOK
  BY DEF Fail, StepTo, IInv, ProcsOK, Process
<1> HIDE DEF next
<1>2. proc'[p].pc = how /\ proc'[p].cmd = "apply"
  BY <1>1, StepEnds
<1> QED BY <1>2 DEF NoneFailed

StoreOK == AttachedInv /\ (NonePurged => KeptInv)

LEMMA StoreSetup ==
  ASSUME IInv, Fresh, Unattached, Alone, StoreOK, NEW p \in Procs, Command(p),
         proc[p].cmd = "apply", EnsureDirs(p) \/ Probe(p)
  PROVE  StoreOK'
<1>1. proc[p] \in Process /\ ProcsOK
  BY DEF IInv, ProcsOK
<1>2. /\ proc[p].pc \in {"ensure_dirs", "probe"}
      /\ UNCHANGED <<pins, attached, loaded>>
  BY DEF EnsureDirs, Probe, kernel
<1>3. PICK pc \in {"probe", "read_length", "load"} :
        /\ StepTo(p, pc)
        /\ pc = "load" => pins["CFG_LEN"] = NONE /\ UNCHANGED kernel
  BY DEF EnsureDirs, Probe
<1> DEFINE next == [proc[p] EXCEPT !.pc = pc]
<1>4. /\ Step(p, next) /\ next.pc = pc /\ next.cmd = "apply"
      /\ next.cfg = proc[p].cfg /\ next.given = proc[p].given
  BY <1>1, <1>3 DEF StepTo, Process
<1> HIDE DEF next
<1>5. proc'[p] = next
  BY <1>1, <1>3, <1>4, StepGoes DEF Ended
<1>6. CASE pc = "load"
  BY <1>2, <1>3, <1>4, <1>5, <1>6, ReadStep DEF StoreOK, Loading
<1>7. CASE pc # "load"
  <2>1. Tame(p)
    BY <1>2, <1>3, <1>4, <1>5, <1>7, TameApply DEF Loading
  <2> QED BY <2>1, TameStep DEF StoreOK
<1> QED BY <1>6, <1>7

LEMMA StoreRead ==
  ASSUME IInv, Fresh, Unattached, Alone, StoreOK, NEW p \in Procs, Command(p),
         proc[p].cmd = "apply", ReadLength(p) \/ ReadBlob(p),
         NoneFailed("apply")'
  PROVE  StoreOK'
<1>1. /\ proc[p] \in Process /\ ProcsOK /\ proc[p].pc \in Loading
      /\ UNCHANGED kernel
  BY FailsLoudly DEF IInv, ProcsOK, ReadLength, ReadBlob, Loading
<1>2. CASE ReadLength(p) /\ pins["CFG_LEN"] # NONE
  <2> DEFINE next == [proc[p] EXCEPT !.len = Length(loaded[pins["CFG_LEN"]]),
                                     !.pc = "read_blob"]
  <2>1. /\ Step(p, next) /\ next.pc = "read_blob" /\ next.cmd = "apply"
        /\ next.cfg = proc[p].cfg /\ next.given = proc[p].given
    BY <1>1, <1>2 DEF ReadLength, Process
  <2> HIDE DEF next
  <2>2. proc'[p] = next
    BY <1>1, <2>1, StepGoes DEF Ended
  <2>3. Tame(p)
    BY <1>1, <2>1, <2>2, TameApply DEF kernel
  <2> QED BY <2>3, TameStep DEF StoreOK
<1>3. CASE ~(ReadLength(p) /\ pins["CFG_LEN"] # NONE)
  <2>1. PICK old : /\ HasRead(p, old)
                   /\ \/ pins["CFG_LEN"] = NONE
                      \/ pins["CFG"] # NONE /\ old = loaded[pins["CFG"]]
    BY <1>3, FailsLoudly DEF ReadLength, ReadBlob
  <2> DEFINE merged == Merge(proc[p].given, old)
             next == [proc[p] EXCEPT !.cfg = merged, !.pc = "load"]
  <2>2. /\ Step(p, next) /\ next.pc = "load" /\ next.cmd = "apply"
        /\ next.cfg = merged /\ next.given = proc[p].given
    BY <1>1, <2>1 DEF HasRead, Process
  <2>3. DOMAIN merged = DOMAIN proc[p].given \cup DOMAIN old
    BY DEF Merge
  <2> HIDE DEF next, merged
  <2>4. proc'[p] = next
    BY <1>1, <2>2, StepGoes DEF Ended
  <2> QED BY <1>1, <2>1, <2>2, <2>3, <2>4, ReadStep DEF StoreOK
<1> QED BY <1>2, <1>3

LEMMA StoreLoad ==
  ASSUME IInv, Unattached, Alone, StoreOK, NEW p \in Procs, Command(p),
         Succeeds(p)', proc[p].cmd = "apply",
         LoadAndPopulate(p) \/ RemovePin(p), NoneFailed("apply")'
  PROVE  StoreOK'
<1>1. /\ proc[p] \in Process /\ ProcsOK
      /\ proc[p].pc \in {"load"} \cup Pinning /\ attached' = attached
  BY FailsLoudly DEF IInv, ProcsOK, LoadAndPopulate, RemovePin, Pinning
<1>2. PICK pc \in {"remove_pin", "pin"} : StepTo(p, pc)
  BY FailsLoudly DEF LoadAndPopulate, RemovePin
<1> DEFINE next == [proc[p] EXCEPT !.pc = pc]
<1>3. /\ Step(p, next) /\ next.pc = pc /\ next.cmd = "apply"
      /\ next.cfg = proc[p].cfg /\ next.given = proc[p].given
  BY <1>1, <1>2 DEF StepTo, Process
<1> HIDE DEF next
<1>4. proc'[p] = next
  BY <1>1, <1>2, <1>3, StepGoes DEF Ended
<1> QED BY <1>1, <1>2, <1>3, <1>4, WorkStep DEF StoreOK, Pinning, Linking

LEMMA StorePin ==
  ASSUME IInv, Unattached, Alone, StoreOK, NEW p \in Procs, Command(p),
         Succeeds(p)', proc[p].cmd = "apply", Pin(p), NoneFailed("apply")'
  PROVE  StoreOK'
<1> DEFINE r == proc[p]
           next == AfterPin(p)
<1>1. /\ r \in Process /\ ProcsOK /\ r.pc \in Pinning /\ attached' = attached
      /\ Step(p, next) /\ MergedIsAttached(p)
      /\ \A q \in Procs \ {p} : proc'[q] = proc[q]
      /\ attached \in [Ifaces -> Procs \cup {NONE}]
  BY FailsLoudly, CommandOf
     DEF StepOf, IInv, ProcsOK, KernelOK, Pin, Pinning, StoreOK, AttachedInv
<1>2. /\ next.cmd = "apply" /\ next.cfg = r.cfg /\ next.given = r.given
      /\ \/ next.pc = "remove_pin"
         \/ next.pc = "unlink" /\ next.todo = InterfacesOf(r.cfg)
         \/ next.pc = "done" /\ InterfacesOf(r.cfg) = {}
  BY <1>1 DEF AfterPin, AfterLastLink, Targets, Process
<1> HIDE DEF next
<1>3. /\ proc'[p].cmd = "apply" /\ proc'[p].pc = next.pc
      /\ proc'[p].cfg = r.cfg /\ proc'[p].given = r.given
      /\ next.pc = "unlink" => proc'[p].todo = InterfacesOf(r.cfg)
  BY <1>1, <1>2, StepEnds, StepGoes DEF Ended
<1>4. \A i \in Ifaces : Applied(i)' => i \in InterfacesOf(r.cfg)
  <2>1. \A i \in Ifaces : Applied(i)' => Applied(i)
    BY <1>1 DEF Applied
  <2> QED BY <1>1, <2>1 DEF MergedIsAttached, Covers
<1>5. /\ proc'[p].pc \in Linking \cup {"done"} =>
           \A i \in Ifaces : Applied(i)' => i \in Left(proc'[p])
      /\ proc'[p].pc \in Linking => proc'[p].todo \subseteq InterfacesOf(r.cfg)
      /\ proc'[p].pc \in {"remove_pin", "unlink", "done"}
  BY <1>2, <1>3, <1>4 DEF Left, Linking
<1> QED BY <1>1, <1>3, <1>5, WorkStep DEF StoreOK, Pinning, Linking

LEMMA StoreLink ==
  ASSUME IInv, Unattached, Alone, StoreOK, NEW p \in Procs, Command(p),
         Progress(p), Succeeds(p)', proc[p].cmd = "apply",
         Unlink(p) \/ Attach(p) \/ PinLink(p), NoneFailed("apply")'
  PROVE  StoreOK'
<1> DEFINE r == proc[p]
<1>1. /\ r \in Process /\ ProcsOK /\ r.pc \in Linking /\ MergedIsAttached(p)
      /\ \A q \in Procs \ {p} : proc'[q] = proc[q]
      /\ attached \in [Ifaces -> Procs \cup {NONE}]
      /\ ~Fail(p, "failed")
  BY FailsLoudly, CommandOf
     DEF StepOf, IInv, ProcsOK, KernelOK, Unlink, Attach, PinLink, Linking,
         StoreOK, AttachedInv
<1>2. /\ r.todo \subseteq InterfacesOf(r.cfg)
      /\ \A i \in Ifaces : Applied(i) => attached[i] = p \/ i \in r.todo
      /\ r.pc \in {"attach", "pin_link"} => r.iface \in r.todo
  BY <1>1 DEF MergedIsAttached
<1>3. CASE Unlink(p)
  <2>1. PICK i \in r.todo :
          Unpin(i) /\ Step(p, [r EXCEPT !.pc = "attach", !.iface = i])
    BY <1>3 DEF Unlink
  <2> DEFINE next == [r EXCEPT !.pc = "attach", !.iface = i]
  <2>2. /\ Step(p, next) /\ next.pc = "attach" /\ next.cmd = "apply"
        /\ next.cfg = r.cfg /\ next.given = r.given
        /\ next.todo = r.todo /\ next.iface = i
    BY <1>1, <2>1 DEF Process
  <2> HIDE DEF next
  <2>3. proc'[p] = next
    BY <1>1, <2>2, StepGoes DEF Ended
  <2>4. \A j \in Ifaces : attached'[j] = attached[j] \/ attached'[j] = NONE
    BY <1>1, <2>1 DEF Unpin
  <2>5. \A j \in Ifaces : Applied(j)' => attached'[j] = p \/ j \in Left(proc'[p])
    BY <1>1, <1>2, <2>2, <2>3, <2>4 DEF Applied, Left
  <2> QED BY <1>1, <1>2, <2>1, <2>2, <2>3, <2>4, <2>5, WorkStep
          DEF StoreOK, Pinning, Linking
<1>4. CASE Attach(p)
  <2> DEFINE next == [r EXCEPT !.pc = "pin_link"]
  <2>1. /\ Step(p, next) /\ next.pc = "pin_link" /\ next.cmd = "apply"
        /\ next.cfg = r.cfg /\ next.given = r.given
        /\ next.todo = r.todo /\ next.iface = r.iface /\ r.iface \in r.todo
        /\ attached' = [attached EXCEPT ![r.iface] = p]
    BY <1>1, <1>2, <1>4 DEF Attach, StepTo, Process
  <2> HIDE DEF next
  <2>2. proc'[p] = next
    BY <1>1, <2>1, StepGoes DEF Ended
  <2>3. \A j \in Ifaces :
          \/ attached'[j] = attached[j]
          \/ attached'[j] = p /\ j \in InterfacesOf(r.cfg)
    BY <1>1, <1>2, <2>1
  <2>4. \A j \in Ifaces : Applied(j)' => attached'[j] = p \/ j \in Left(proc'[p])
    BY <1>1, <1>2, <2>1, <2>2, <2>3 DEF Applied, Left
  <2> QED BY <1>1, <1>2, <2>1, <2>2, <2>3, <2>4, WorkStep
          DEF StoreOK, Pinning, Linking
<1>5. CASE PinLink(p)
  <2> DEFINE left == r.todo \ {r.iface}
             next == [r EXCEPT !.todo = left,
                        !.pc = IF left = {} THEN "done" ELSE "unlink"]
  <2>1. /\ Step(p, next) /\ next.pc = IF left = {} THEN "done" ELSE "unlink"
        /\ next.cmd = "apply" /\ next.cfg = r.cfg /\ next.given = r.given
        /\ next.todo = left /\ attached' = attached /\ r.pc = "pin_link"
    BY <1>1, <1>5 DEF PinLink, AfterLastLink, Process
  <2>2. left \subseteq InterfacesOf(r.cfg)
    BY <1>2
  <2>3. /\ proc'[p].cmd = "apply" /\ proc'[p].pc = next.pc
        /\ proc'[p].cfg = r.cfg /\ proc'[p].given = r.given
        /\ next.pc = "unlink" => proc'[p].todo = left
        /\ Left(proc'[p]) = left
    <3> HIDE DEF next
    <3>1. /\ proc'[p].cmd = "apply" /\ proc'[p].pc = next.pc
          /\ proc'[p].cfg = r.cfg /\ proc'[p].given = r.given
          /\ next.pc = "unlink" => proc'[p].todo = left
      BY <1>1, <2>1, StepEnds, StepGoes DEF Ended
    <3> QED BY <2>1, <3>1 DEF Left
  <2>4. attached[r.iface] \in {p, NONE}
    BY <2>1 DEF Progress, Running, Linking
  <2>5. \A j \in Ifaces : Applied(j)' => attached'[j] = p \/ j \in left
    BY <1>1, <1>2, <2>1, <2>4 DEF Applied
  <2>6. proc'[p].pc \in {"unlink", "done"}
    BY <2>1, <2>3
  <2> HIDE DEF next, left
  <2> QED BY <1>1, <2>1, <2>2, <2>3, <2>5, <2>6, WorkStep
          DEF StoreOK, Pinning, Linking
<1> QED BY <1>3, <1>4, <1>5
LEMMA StoreNext ==
  ASSUME IInv, Fresh, Unattached, Alone, HalfPurged, NEW p \in Procs, Progress(p),
         Command(p), NoneFailed("apply")', StoreOK
  PROVE  StoreOK'
<1>1. /\ Control(proc[p]) /\ proc[p].pc \notin Ended /\ Succeeds(p)'
      /\ \A how \in {"failed", "unreadable"} :
           proc[p].cmd = "apply" => ~Fail(p, how)
  BY SwitchOf, ApplyStep, FailsLoudly DEF IInv, ProcsOK, SwitchStep
<1>2. CASE StartApply(p) \/ StartShow(p) \/ StartMonitor(p) \/ StartPurge(p)
  <2>1. Tame(p)
    BY <1>2, TameStart
  <2> QED BY <2>1, TameStep DEF StoreOK
<1>3. CASE proc[p].pc # "idle" /\ proc[p].cmd # "apply"
  <2>1. Tame(p)
    BY <1>3, TameOther
  <2> QED BY <2>1, TameStep DEF StoreOK
<1>4. CASE /\ proc[p].cmd = "apply"
           /\ ~(StartApply(p) \/ StartShow(p) \/ StartMonitor(p) \/ StartPurge(p))
  <2>1. \/ EnsureDirs(p) \/ Probe(p) \/ ReadLength(p) \/ ReadBlob(p)
        \/ LoadAndPopulate(p) \/ RemovePin(p) \/ Pin(p)
        \/ Unlink(p) \/ Attach(p) \/ PinLink(p)
    BY <1>1, <1>4 DEF Command, Stop, Control, OpenRings, Enable, CtrlC, DetachLink,
       RemoveUdpTree, RemoveMainPin, RemoveMainTree
  <2> QED BY <1>1, <1>4, <2>1, StoreSetup, StoreRead, StoreLoad, StorePin, StoreLink
<1>5. proc[p].pc = "idle" =>
        StartApply(p) \/ StartShow(p) \/ StartMonitor(p) \/ StartPurge(p)
  BY DEF Command, EnsureDirs, Probe, ReadLength, ReadBlob, LoadAndPopulate,
     RemovePin, Pin, Unlink, Attach, PinLink, OpenRings, Enable, CtrlC, DetachLink,
     RemoveUdpTree, RemoveMainPin, RemoveMainTree, Stop, Working
<1> QED BY <1>2, <1>3, <1>4, <1>5

-----------------------------------------------------------------------------
(* What a show has read *)

Reads(p) ==
  /\ UNCHANGED <<pins, attached, loaded>>
  /\ \/ pins["CFG_LEN"] = NONE
     \/ pins["CFG"] # NONE /\ proc'[p].cfg = loaded[pins["CFG"]]

LEMMA ShowEnds ==
  ASSUME IInv, NEW p \in Procs, Command(p), EndedWell(p, "show")'
  PROVE  Reads(p)
<1>1. /\ proc[p] \in Process /\ ProcsOK /\ Control(proc[p])
      /\ proc[p].pc \notin Ended
      /\ proc'[p].pc = "done" /\ proc'[p].cmd = "show"
  BY SwitchOf DEF SwitchStep, IInv, ProcsOK, EndedWell
<1>2. CASE proc[p].pc = "idle"
  <2>1. StartApply(p) \/ StartShow(p) \/ StartMonitor(p) \/ StartPurge(p)
    BY <1>2 DEF Command, EnsureDirs, Probe, ReadLength, ReadBlob, LoadAndPopulate,
       RemovePin, Pin, Unlink, Attach, PinLink, OpenRings, Enable, CtrlC, DetachLink,
       RemoveUdpTree, RemoveMainPin, RemoveMainTree, Stop, Working
  <2>2. PICK cmd, pc, given, iface :
          /\ Start(p, cmd, pc, given, iface) /\ UNCHANGED kernel
          /\ cmd = "show" /\ pc = "done" => "main" \notin dirs
    BY <2>1 DEF StartApply, StartShow, StartMonitor, StartPurge
  <2> DEFINE next == [Idle EXCEPT !.cmd = cmd, !.pc = pc, !.given = given,
                                  !.cfg = given, !.iface = iface]
  <2>3. proc' = [proc EXCEPT ![p] = next] /\ next.cmd = cmd /\ next.pc = pc
    BY <2>2 DEF Start, Becomes, Idle
  <2> HIDE DEF next
  <2>4. proc'[p] = next
    BY <1>1, <2>3 DEF ProcsOK
  <2>5. "main" \notin dirs
    BY <1>1, <2>2, <2>3, <2>4
  <2>6. pins["CFG_LEN"] = NONE
    BY <2>5 DEF IInv, KernelOK, Root, Pins, MainPins
  <2> QED BY <2>2, <2>6 DEF Reads, kernel
<1>3. CASE proc[p].pc # "idle"
  <2>1. proc[p].cmd = "show"
    BY <1>1, <1>3, CommandKept
  <2>2. ASSUME NEW how \in {"failed", "unreadable"}, Fail(p, how)
        PROVE  FALSE
    <3> DEFINE next == [proc[p] EXCEPT !.pc = how]
    <3>1. Step(p, next) /\ next.pc = how
      BY <1>1, <2>2 DEF Fail, StepTo, Process
    <3> HIDE DEF next
    <3> QED BY <1>1, <3>1, StepEnds
  <2>3. ReadLength(p) \/ ReadBlob(p)
    <3>1. proc[p].pc \in {"read_length", "read_blob"}
      BY <1>1, <1>3, <2>1 DEF Process, Steps, Control, Ended, Pinning, Linking
    <3>2. ~Stop(p)
      BY <2>2 DEF Stop
    <3>3. ~(StartApply(p) \/ StartShow(p) \/ StartMonitor(p) \/ StartPurge(p))
      <4>1. Idle.pc = "idle"
        BY DEF Idle
      <4> QED BY <1>3, <4>1 DEF StartApply, StartShow, StartMonitor, StartPurge, Start
    <3> QED BY <3>1, <3>2, <3>3
         DEF Command, EnsureDirs, Probe, LoadAndPopulate, RemovePin, Pin, Unlink,
         Attach, PinLink, OpenRings, Enable, CtrlC, DetachLink, RemoveUdpTree,
         RemoveMainPin, RemoveMainTree
  <2>4. CASE ReadLength(p)
    <3>1. CASE pins["CFG_LEN"] # NONE
      <4> DEFINE next == [proc[p] EXCEPT !.len = Length(loaded[pins["CFG_LEN"]]),
                                         !.pc = "read_blob"]
      <4>1. Step(p, next) /\ next.pc = "read_blob"
        BY <1>1, <2>4, <3>1 DEF ReadLength, Process
      <4> HIDE DEF next
      <4> QED BY <1>1, <4>1, StepEnds
    <3>2. CASE pins["CFG_LEN"] = NONE
      BY <2>4, <3>2 DEF ReadLength, Reads, kernel
    <3> QED BY <3>1, <3>2
  <2>5. CASE ReadBlob(p)
    <3>1. pins["CFG"] # NONE /\ UNCHANGED kernel /\ HasRead(p, loaded[pins["CFG"]])
      BY <2>2, <2>5 DEF ReadBlob
    <3> DEFINE cfg == loaded[pins["CFG"]]
               next == [proc[p] EXCEPT !.cfg = cfg, !.pc = "done"]
    <3>2. Step(p, next) /\ next.pc = "done" /\ next.cfg = cfg
      BY <1>1, <2>1, <3>1 DEF HasRead, Process
    <3> HIDE DEF next
    <3>3. proc'[p].cfg = cfg
      BY <1>1, <3>2, StepGoes
    <3> QED BY <3>1, <3>3 DEF Reads, kernel
  <2> QED BY <2>3, <2>4, <2>5
<1> QED BY <1>2, <1>3

\* What a show has printed names every interface an apply has attached.
ShownIsAttached ==
  last # NONE /\ AtRest /\ EndedWell(last, "show") /\ NoneFailed("apply") =>
    \A i \in Ifaces : Applied(i) =>
      /\ loaded[attached[i]] = proc[last].cfg
      /\ i \in InterfacesOf(loaded[attached[i]])

StoreInv ==
  /\ Unattached
  /\ SERIAL /\ NoneFailed("apply") => StoreOK
  /\ SERIAL => ShownIsAttached

LEMMA ShowNext ==
  ASSUME IInv, NEW p \in Procs, Command(p), NoneFailed("apply")' => StoreOK'
  PROVE  ShownIsAttached'
<1> SUFFICES ASSUME last' # NONE, AtRest', EndedWell(last, "show")',
                    NoneFailed("apply")', NEW i \in Ifaces, Applied(i)'
             PROVE  /\ loaded'[attached'[i]] = proc'[last'].cfg
                    /\ i \in InterfacesOf(loaded'[attached'[i]])
  BY DEF ShownIsAttached
<1>1. last' = p
  BY CommandOf DEF StepOf, AtRest, Working
<1>2. Reads(p)
  BY <1>1, ShowEnds DEF EndedWell
<1>3. ~Applying'
  BY DEF AtRest, Working, Applying, Writes, Pinning, Linking, Ended
<1>4. /\ pins'["CFG"] = attached'[i] /\ pins'["CFG_LEN"] = attached'[i]
      /\ i \in InterfacesOf(loaded'[attached'[i]])
  BY <1>3 DEF StoreOK, AttachedInv, StoredIsAttached
<1> QED BY <1>1, <1>2, <1>4 DEF Reads, Applied

(* The invariant behind the next two theorems: an apply that works has     *)
(* merged what is stored, and what it has not attached yet is to do.       *)
THEOREM StoreCorrect == Spec => []StoreInv
<1>1. Init => StoreInv
  <2> SUFFICES ASSUME Init PROVE StoreInv
    OBVIOUS
  <2>1. /\ \A i \in Ifaces : attached[i] = NONE
        /\ \A p \in Procs : proc[p].cmd = "none" /\ proc[p].pc = "idle"
        /\ pins["CFG"] = NONE /\ pins["CFG_LEN"] = NONE /\ last = NONE
    BY DEF Init, Idle, Pins, MainPins
  <2>2. Unattached /\ ShownIsAttached
    BY <2>1, NoneAssumption DEF Unattached, ShownIsAttached
  <2>3. AttachedInv
    BY <2>1 DEF AttachedInv, StoredIsAttached, MergedIsAttached, Applied
  <2>4. KeptInv
    BY <2>1 DEF KeptInv, StoredHasAll, MergedHasAll, EndedWell
  <2> QED BY <2>2, <2>3, <2>4 DEF StoreInv, StoreOK
<1>2. IInv /\ SwitchInv /\ PInv /\ AInv /\ StoreInv /\ [Next]_vars => StoreInv'
  <2> SUFFICES ASSUME IInv, SwitchInv, PInv, AInv, StoreInv, [Next]_vars
               PROVE  StoreInv'
    OBVIOUS
  <2>1. ASSUME NEW p \in Procs, Command(p) PROVE StoreInv'
    <3>1. Unattached'
      BY <2>1, UnattachedNext DEF StoreInv
    <3>2. ASSUME SERIAL PROVE NoneFailed("apply")' => StoreOK'
      <4> SUFFICES ASSUME NoneFailed("apply")' PROVE StoreOK'
        OBVIOUS
      <4>1. StoreOK
        BY <2>1, <3>2, FailedBefore DEF StoreInv
      <4>2. Fresh /\ Unattached /\ Alone /\ HalfPurged /\ Progress(p)
        BY <3>2 DEF SwitchInv, StoreInv, PInv, AInv
      <4> QED BY <2>1, <4>1, <4>2, StoreNext
    <3>3. SERIAL => ShownIsAttached'
      BY <2>1, <3>2, ShowNext
    <3> QED BY <3>1, <3>2, <3>3 DEF StoreInv
  <2>2. CASE \/ UNCHANGED vars
             \/ \E i \in Ifaces : Unplug(i) \/ Plug(i)
    <3>1. /\ UNCHANGED <<pins, loaded, proc, last>>
          /\ \A i \in Ifaces : attached'[i] = attached[i] \/ attached'[i] = NONE
      BY <2>2 DEF vars, kernel, Unplug, Plug, IInv, KernelOK
    <3>2. \A i \in Ifaces : Applied(i)' => Applied(i) /\ attached'[i] = attached[i]
      BY <3>1 DEF Applied
    <3>3. Unattached' /\ (SERIAL => ShownIsAttached')
      BY <3>1, <3>2, NoneAssumption DEF StoreInv, Unattached, ShownIsAttached,
         AtRest, Working, EndedWell, NoneFailed
    <3>4. AttachedInv => AttachedInv'
      BY <3>1, <3>2 DEF AttachedInv, StoredIsAttached, MergedIsAttached, Covers,
         Applying, Writes
    <3>5. (NonePurged => KeptInv) => (NonePurged => KeptInv)'
      BY <3>1 DEF NonePurged, KeptInv, StoredHasAll, MergedHasAll, HasAll,
         EndedWell, Applying, Writes
    <3>6. NoneFailed("apply")' => NoneFailed("apply")
      BY <3>1 DEF NoneFailed
    <3> QED BY <3>3, <3>4, <3>5, <3>6 DEF StoreInv, StoreOK
  <2> QED BY <2>1, <2>2 DEF Next
<1> QED BY <1>1, <1>2, InvCorrect, SwitchCorrect, SerialCorrect, SerialApply, PTL
        DEF Spec

(* When commands do not overlap and no apply fails, what show prints is    *)
(* the configuration in the maps of the program on every interface an      *)
(* apply has attached to, under the index the interface has, unless it     *)
(* went away while that apply was at work.                                 *)
THEOREM ShowCorrect == Spec => [](SERIAL => ShowIsLoaded)
<1>1. IInv /\ IndexOK /\ StoreInv => (SERIAL => ShowIsLoaded)
  <2> SUFFICES ASSUME IInv, IndexOK, StoreInv, SERIAL, last # NONE, AtRest,
                      EndedWell(last, "show"), NoneFailed("apply"),
                      NEW i \in Ifaces, Applied(i)
               PROVE  /\ loaded[attached[i]] = proc[last].cfg
                      /\ RunsRulesOf(i, attached[i])
    BY DEF ShowIsLoaded, Applied
  <2> DEFINE p == attached[i]
  <2>1. /\ p \in Procs /\ last \in Procs
        /\ proc[p].pc \notin {"failed", "unreadable"}
    BY DEF Applied, NoneFailed, IInv, ProcsOK, KernelOK
  <2>2. loaded[p] = proc[last].cfg /\ i \in InterfacesOf(loaded[p])
    BY DEF StoreInv, ShownIsAttached
  <2>3. loaded[p] # NONE
    BY <2>1, <2>2, ConfigFacts DEF IInv, ProcsOK, Process
  <2>4. i \in indexed[p] \cup slipped[p]
    BY <2>1, <2>2, <2>3 DEF IndexOK
  <2> QED BY <2>2, <2>4 DEF RunsRulesOf
<1> QED BY <1>1, InvCorrect, IndexCorrect, StoreCorrect, PTL

(* Nor is a section of any successful apply lost before a purge.           *)
THEOREM KeptCorrect == Spec => [](SERIAL => AppliedIsKept)
<1>1. StoreInv => (SERIAL => AppliedIsKept)
  <2> SUFFICES ASSUME StoreInv, SERIAL, AtRest, NoneFailed("apply"), NonePurged,
                      NEW p \in Procs, EndedWell(p, "apply")
               PROVE  /\ pins["CFG"] # NONE
                      /\ DOMAIN proc[p].given \subseteq DOMAIN loaded[pins["CFG"]]
    BY DEF AppliedIsKept, NonePurged
  <2>1. ~Applying
    BY DEF AtRest, Working, Applying, Writes, Pinning, Linking, Ended
  <2> QED BY <2>1 DEF StoreInv, StoreOK, KeptInv, StoredHasAll, HasAll
<1> QED BY <1>1, StoreCorrect, PTL
=============================================================================
