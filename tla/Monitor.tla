------------------------------ MODULE Monitor -------------------------------
(***************************************************************************)
(* Events on their way from the XDP program to the terminal: the switch    *)
(* MONITOR_ENABLED and the two ring buffers (src/ebpf/monitor.rs), and the *)
(* tasks of "efctl monitor" that read them (src/cli/monitor.rs).           *)
(*                                                                         *)
(* Every CPU tests the switch, stamps the event and submits it in separate *)
(* steps; a record that is reserved and not yet submitted blocks those     *)
(* behind it.  A reader sends a record on while it holds it, and the ring  *)
(* loses the record when the reader lets go.  A session may end or be      *)
(* killed at any time, and the next one finds the rings, the switch and    *)
(* the CPUs as the last one left them.                                     *)
(* Which packets are traced is IngressFilter's subject, and what an apply  *)
(* does to the pins Lifecycle's.                                           *)
(***************************************************************************)
EXTENDS Naturals, Sequences

CONSTANTS
  CPUs,          \* the CPUs that run the program
  Rings,         \* UDP4_EVENTS and TCP4_EVENTS
  CAPACITY,      \* records that fit a ring: EVENT_MONITOR_BUF_SIZE
  BootTimes,     \* what /proc/stat may give for the boot time
  NONE,          \* no boot time read yet, no event
  MAX_EVENTS,    \* bound: events that are stamped
  MAX_SESSIONS   \* bound: invocations of efctl monitor

ASSUME RingAssumption == CAPACITY \in Nat \ {0}
ASSUME TimeAssumption == BootTimes \subseteq Nat /\ NONE \notin Nat
ASSUME BoundAssumption == MAX_EVENTS \in Nat /\ MAX_SESSIONS \in Nat

(* bpf_ktime_get_boot_ns is read by one packet at a time on each CPU, and  *)
(* no two events have the same time; the addresses tell the ring.          *)
Event == [ring : Rings, cpu : CPUs, time : 1 .. MAX_EVENTS]

ASSUME NoneAssumption == NONE \notin Event

(* Udp4Event and Tcp4Event carry the wall-clock time instead.              *)
Report == [event : Event, date : Nat]

VARIABLES
  enabled,   \* MONITOR_ENABLED
  ring,      \* the records of each ring, in the order they were reserved
  cpu,       \* what each CPU is about to do, and with which event
  clock,     \* the last time stamp
  session,   \* how far the monitor process is
  sessions,  \* bound: sessions so far
  boot,      \* BOOT_TIME of the process, read when first needed
  chan,      \* the channel from the readers to the printer
  printed,   \* the output of the session that runs
  held,      \* the rings whose oldest record is sent on and not let go yet
  traced,    \* history: events stamped since the session that runs began
  late       \* history: per CPU, records stored while the switch is off

kernel  == <<enabled, ring, cpu, clock>>
process == <<session, sessions, boot, chan, printed, held>>
history == <<traced, late>>
vars == <<kernel, process, history>>

Nobody == [c \in CPUs |-> 0]

Init ==
  /\ enabled = FALSE
  /\ ring = [q \in Rings |-> <<>>]
  /\ cpu = [c \in CPUs |-> [pc |-> "idle", event |-> NONE]]
  /\ clock = 0
  /\ session = "none"
  /\ sessions = 0
  /\ boot = NONE
  /\ chan = <<>>
  /\ printed = <<>>
  /\ held = {}
  /\ traced = {}
  /\ late = Nobody

-----------------------------------------------------------------------------
(* The XDP program *)

Goes(c, pc, event) == cpu' = [cpu EXCEPT ![c] = [pc |-> pc, event |-> event]]

\* What an enabled session may expect to see.
Noted(e) == IF session = "running" THEN traced \cup {e} ELSE traced

\* Mutant: the switch is not tested.
StampUntested(c, q) ==
  LET e == [ring |-> q, cpu |-> c, time |-> clock + 1]
  IN  /\ cpu[c].pc = "idle"
      /\ clock < MAX_EVENTS
      /\ clock' = clock + 1
      /\ Goes(c, "reserve", e)
      /\ traced' = Noted(e)
      /\ UNCHANGED <<enabled, ring, process, late>>

(* try_monitor_udp, try_monitor_tcp: test the switch and stamp the event.  *)
(* While the switch is off nothing happens.                                *)
Stamp(c, q) ==
  LET e == [ring |-> q, cpu |-> c, time |-> clock + 1]
  IN  /\ cpu[c].pc = "idle"
      /\ enabled
      /\ clock < MAX_EVENTS
      /\ clock' = clock + 1
      /\ Goes(c, "reserve", e)
      /\ traced' = Noted(e)
      /\ UNCHANGED <<enabled, ring, process, late>>

StoredLate(c) == [late EXCEPT ![c] = IF enabled THEN @ ELSE @ + 1]

\* Mutant: a ring takes one record too many.
ReserveOverfull(c) ==
  LET e == cpu[c].event
  IN  /\ cpu[c].pc = "reserve"
      /\ Len(ring[e.ring]) <= CAPACITY
      /\ ring' = [ring EXCEPT ![e.ring] = Append(@, e)]
      /\ late' = StoredLate(c)
      /\ Goes(c, "submit", e)
      /\ UNCHANGED <<enabled, clock, process, traced>>

(* submit_udp4_event, submit_tcp4_event: reserve a record...               *)
Reserve(c) ==
  LET e == cpu[c].event
  IN  /\ cpu[c].pc = "reserve"
      /\ Len(ring[e.ring]) < CAPACITY
      /\ ring' = [ring EXCEPT ![e.ring] = Append(@, e)]
      /\ late' = StoredLate(c)
      /\ Goes(c, "submit", e)
      /\ UNCHANGED <<enabled, clock, process, traced>>

(* ... write and submit it...                                              *)
Submit(c) ==
  /\ cpu[c].pc = "submit"
  /\ Goes(c, "idle", NONE)
  /\ UNCHANGED <<enabled, ring, clock, process, history>>

\* Mutant: the event is dropped and the switch stays on.
DropIfFull(c) ==
  /\ cpu[c].pc = "reserve"
  /\ Len(ring[cpu[c].event.ring]) = CAPACITY
  /\ Goes(c, "idle", NONE)
  /\ UNCHANGED <<enabled, ring, clock, process, history>>

(* ... or, the ring being full, go on to disable_monitor.                  *)
FindFull(c) ==
  /\ cpu[c].pc = "reserve"
  /\ Len(ring[cpu[c].event.ring]) = CAPACITY
  /\ Goes(c, "disable", cpu[c].event)
  /\ UNCHANGED <<enabled, ring, clock, process, history>>

Disable(c) ==
  /\ cpu[c].pc = "disable"
  /\ enabled' = FALSE
  /\ Goes(c, "idle", NONE)
  /\ UNCHANGED <<ring, clock, process, history>>

-----------------------------------------------------------------------------
(* efctl monitor *)

(* The two rings are opened; the maps exist (Lifecycle has when they do).  *)
OpenRings ==
  /\ session = "none"
  /\ sessions < MAX_SESSIONS
  /\ sessions' = sessions + 1
  /\ session' = "opened"
  /\ UNCHANGED <<kernel, boot, chan, printed, held, history>>

(* set_monitor_enabled(true), and the tasks are spawned.                   *)
SwitchOn ==
  /\ session = "opened"
  /\ enabled' = TRUE
  /\ session' = "running"
  /\ late' = Nobody
  /\ UNCHANGED <<ring, cpu, clock, sessions, boot, chan, printed, held, traced>>

Live == session \in {"running", "exiting"}

\* The consumer stops at a record that is reserved but not submitted.
\* Mutant: a record is found only when the next one wakes the reader.
ReadableBeforeNext(q) ==
  /\ Len(ring[q]) > 1
  /\ \A c \in CPUs : cpu[c].pc = "submit" => cpu[c].event # Head(ring[q])
Readable(q) ==
  /\ ring[q] # <<>>
  /\ \A c \in CPUs : cpu[c].pc = "submit" => cpu[c].event # Head(ring[q])

Converted(e, at) == [event |-> e, date |-> at + e.time]

\* Mutant: the boot time is read again for every event.
ReadEachBootTime(q) ==
  /\ Live
  /\ q \notin held
  /\ Readable(q)
  /\ boot' \in BootTimes
  /\ chan' = Append(chan, Converted(Head(ring[q]), boot'))
  /\ held' = held \cup {q}
  /\ UNCHANGED <<kernel, session, sessions, printed, history>>

(* A reader task takes the next record, converts it and sends it on; it    *)
(* still holds the RingBufItem, and the record still fills the ring...     *)
Read(q) ==
  /\ Live
  /\ q \notin held
  /\ Readable(q)
  /\ boot' \in IF boot = NONE THEN BootTimes ELSE {boot}
  /\ chan' = Append(chan, Converted(Head(ring[q]), boot'))
  /\ held' = held \cup {q}
  /\ UNCHANGED <<kernel, session, sessions, printed, history>>

\* Mutant: the item is not given back.
ReleaseUnread(q) ==
  /\ q \in held
  /\ held' = held \ {q}
  /\ UNCHANGED <<kernel, session, sessions, boot, chan, printed, history>>

(* ... until the item is dropped at the end of the loop's body, which      *)
(* moves the consumer's position past it.                                  *)
Release(q) ==
  /\ q \in held
  /\ held' = held \ {q}
  /\ ring' = [ring EXCEPT ![q] = Tail(@)]
  /\ UNCHANGED <<enabled, cpu, clock, session, sessions, boot, chan, printed, history>>

PrintEvent ==
  /\ Live
  /\ chan # <<>>
  /\ printed' = Append(printed, Head(chan))
  /\ chan' = Tail(chan)
  /\ UNCHANGED <<kernel, session, sessions, boot, held, history>>

(* Ctrl-C: set_monitor_enabled(false); the tasks go on until the process   *)
(* exits and takes the channel with it.                                    *)
CtrlC ==
  /\ session = "running"
  /\ enabled' = FALSE
  /\ session' = "exiting"
  /\ traced' = {}
  /\ UNCHANGED <<ring, cpu, clock, sessions, boot, chan, printed, held, late>>

ProcessGone ==
  /\ session' = "none"
  /\ chan' = <<>>
  /\ printed' = <<>>
  /\ boot' = NONE
  /\ held' = {}
  /\ traced' = {}
  /\ UNCHANGED <<kernel, sessions, late>>

(* At its end the runtime stops a task where it waits, and no reader waits *)
(* with an item in its hands...                                            *)
Exit == session = "exiting" /\ held = {} /\ ProcessGone

(* ... but a kill does not ask: the next session finds a held record.      *)
Kill == session \in {"opened", "running", "exiting"} /\ ProcessGone

-----------------------------------------------------------------------------
OnCPU(c) ==
  \/ Reserve(c) \/ Submit(c) \/ FindFull(c) \/ Disable(c)

Next ==
  \/ \E c \in CPUs : OnCPU(c) \/ \E q \in Rings : Stamp(c, q)
  \/ \E q \in Rings : Read(q) \/ Release(q)
  \/ OpenRings \/ SwitchOn \/ PrintEvent \/ CtrlC \/ Exit \/ Kill

(* The program runs to its end on every packet it has begun, and the       *)
(* runtime polls a task that has something to do.  Nobody has to send      *)
(* packets, start a monitor or stop it.                                    *)
Fairness ==
  /\ \A c \in CPUs : WF_vars(OnCPU(c))
  /\ \A q \in Rings : WF_vars(Read(q)) /\ WF_vars(Release(q))
  /\ WF_vars(PrintEvent)

Spec == Init /\ [][Next]_vars /\ Fairness

-----------------------------------------------------------------------------
(* Properties *)

In(e, s) == \E i \in 1 .. Len(s) : s[i] = e

ReportedIn(e, s) == \E i \in 1 .. Len(s) : s[i].event = e

\* The records of a ring that no reader has sent on.
Unread(q) == IF q \in held THEN Tail(ring[q]) ELSE ring[q]

(* The variables have their types, no ring holds more than it can          *)
(* (monitor.rs:48), a held record is in its ring, and no reader has got at *)
(* one that a CPU is still filling in.                                     *)
TypeOK ==
  /\ enabled \in BOOLEAN
  /\ ring \in [Rings -> Seq(Event)]
  /\ cpu \in [CPUs -> [pc : {"idle"}, event : {NONE}]
                      \cup [pc : {"reserve", "submit", "disable"}, event : Event]]
  /\ clock \in 0 .. MAX_EVENTS
  /\ session \in {"none", "opened", "running", "exiting"}
  /\ sessions \in 0 .. MAX_SESSIONS
  /\ boot \in BootTimes \cup {NONE}
  /\ chan \in Seq(Report) /\ printed \in Seq(Report)
  /\ traced \subseteq Event
  /\ late \in [CPUs -> Nat]
  /\ \A q \in Rings : Len(ring[q]) <= CAPACITY
  /\ held \subseteq Rings /\ \A q \in held : ring[q] # <<>>
  /\ \A c \in CPUs, q \in Rings :
       cpu[c].pc = "submit" /\ cpu[c].event.ring = q => In(cpu[c].event, Unread(q))

(* While a session runs and the switch is on, no event stamped since the   *)
(* session began is lost: it is printed, or in the channel, or in a ring,  *)
(* or some CPU still has it (monitor.rs:44-64: an event that cannot be     *)
(* stored switches events off), however the CPUs, the tasks and a kill of  *)
(* the session before interleave.                                          *)
NothingLostWhileOn ==
  session = "running" /\ enabled =>
    \A e \in traced :
      \/ ReportedIn(e, printed) \/ ReportedIn(e, chan)
      \/ \E q \in Rings : In(e, ring[q])
      \/ \E c \in CPUs : cpu[c].event = e

(* The switch is tested before the ring is touched (monitor.rs:76): once   *)
(* it is off, each CPU stores at most the one event it was already at, so  *)
(* a ring that nobody reads does not fill.                                 *)
AtMostOneLate == \A c \in CPUs : late[c] <= 1

(* Events of one kind from one CPU are printed in the order, and with the  *)
(* dates in the order, in which they happened (monitor.rs:79, event.rs:13: *)
(* stamped before they are stored, dated by a boot time read once).        *)
DatesInOrder ==
  LET out == printed \o chan IN
  \A i \in 1 .. Len(out) : \A j \in 1 .. i - 1 :
    /\ out[i].event.ring = out[j].event.ring
    /\ out[i].event.cpu = out[j].event.cpu
    => out[j].date < out[i].date

(* What is unread of a ring, behind the part of the channel that came from *)
(* it, is one queue of the stream.                                         *)
Queued(events, q, r) ==
  IF r.event.ring = q THEN Append(events, r.event) ELSE events

FromRing(q, reports) ==
  LET events[k \in 0 .. Len(reports)] ==
        IF k = 0 THEN <<>> ELSE Queued(events[k - 1], q, reports[k])
  IN  events[Len(reports)]

PendingOf(q) == FromRing(q, chan) \o Unread(q)

ShownOf(q) == FromRing(q, printed)

Stream == INSTANCE EventStream
  WITH Events <- Event, watching <- Live,
       shown <- [q \in Rings |-> ShownOf(q)],
       pending <- [q \in Rings |-> PendingOf(q)]

(* The session implements EventStream: an event that is stored is printed  *)
(* once, in its turn, unless the session ends first, and a killed session  *)
(* leaves at most one of a kind to be printed again by the next            *)
(* (ebpf/monitor.rs:44-64 and the tasks of cli/monitor.rs)...              *)
ImplementsStream == Stream!Order

(* ... and it is printed as long as the session goes on: no record waits   *)
(* for another one, for a packet or for the other ring.                    *)
EveryEventIsShown == Stream!Delivery
=============================================================================
