--------------------------- MODULE MonitorProofs ----------------------------
(***************************************************************************)
(* What Monitor guarantees for any number of CPUs, rings and records in a  *)
(* ring, any number of events and of sessions.                             *)
(***************************************************************************)
EXTENDS Monitor, SequenceTheorems, LoopTheorems, TLAPS

(* What a queue holds after an element has been appended...                *)
LEMMA InAppend ==
  ASSUME NEW S, NEW s \in Seq(S), NEW x \in S, NEW e
  PROVE  In(e, Append(s, x)) <=> (In(e, s) \/ e = x)
<1>1. /\ Len(Append(s, x)) = Len(s) + 1 /\ Len(s) \in Nat
      /\ \A i \in 1 .. Len(s) : Append(s, x)[i] = s[i]
      /\ Append(s, x)[Len(s) + 1] = x
  BY AppendProperties
<1>2. \A i \in 1 .. Len(s) + 1 : i \in 1 .. Len(s) \/ i = Len(s) + 1
  BY <1>1
<1>3. 1 .. Len(s) \subseteq 1 .. Len(s) + 1 /\ Len(s) + 1 \in 1 .. Len(s) + 1
  BY <1>1
<1> QED BY <1>1, <1>2, <1>3 DEF In

LEMMA ReportedInAppend ==
  ASSUME NEW S, NEW s \in Seq(S), NEW x \in S, NEW e
  PROVE  ReportedIn(e, Append(s, x)) <=> (ReportedIn(e, s) \/ e = x.event)
<1>1. /\ Len(Append(s, x)) = Len(s) + 1 /\ Len(s) \in Nat
      /\ \A i \in 1 .. Len(s) : Append(s, x)[i] = s[i]
      /\ Append(s, x)[Len(s) + 1] = x
  BY AppendProperties
<1>2. \A i \in 1 .. Len(s) + 1 : i \in 1 .. Len(s) \/ i = Len(s) + 1
  BY <1>1
<1>3. 1 .. Len(s) \subseteq 1 .. Len(s) + 1 /\ Len(s) + 1 \in 1 .. Len(s) + 1
  BY <1>1
<1> QED BY <1>1, <1>2, <1>3 DEF ReportedIn

(* ... and after its head has been taken.                                  *)
LEMMA HeadTail ==
  ASSUME NEW S, NEW s \in Seq(S), s # <<>>
  PROVE  /\ Head(s) \in S /\ Head(s) = s[1]
         /\ Tail(s) \in Seq(S) /\ Len(Tail(s)) = Len(s) - 1
         /\ Len(s) \in Nat \ {0}
         /\ \A i \in 1 .. Len(s) - 1 : i + 1 \in 1 .. Len(s) /\ Tail(s)[i] = s[i + 1]
         /\ \A i \in 1 .. Len(s) : i = 1 \/ (i - 1 \in 1 .. Len(s) - 1 /\ Tail(s)[i - 1] = s[i])
<1>1. /\ Head(s) \in S /\ Tail(s) \in Seq(S) /\ Len(Tail(s)) = Len(s) - 1
      /\ \A i \in 1 .. Len(Tail(s)) : Tail(s)[i] = s[i + 1]
  BY HeadTailProperties
<1>2. Len(s) \in Nat \ {0} /\ Head(s) = s[1]
  BY EmptySeq
<1>3. \A i \in 1 .. Len(s) - 1 : i + 1 \in 1 .. Len(s) /\ Tail(s)[i] = s[i + 1]
  BY <1>1, <1>2
<1>4. ASSUME NEW i \in 1 .. Len(s), i # 1
      PROVE  i - 1 \in 1 .. Len(s) - 1 /\ Tail(s)[i - 1] = s[i]
  <2>1. i - 1 \in 1 .. Len(s) - 1 /\ (i - 1) + 1 = i
    BY <1>2, <1>4
  <2> QED BY <1>3, <2>1
<1> QED BY <1>1, <1>2, <1>3, <1>4

LEMMA InTail ==
  ASSUME NEW S, NEW s \in Seq(S), s # <<>>, NEW e
  PROVE  In(e, s) <=> (In(e, Tail(s)) \/ e = Head(s))
<1>1. ASSUME In(e, s)
      PROVE  In(e, Tail(s)) \/ e = Head(s)
  <2>1. PICK i \in 1 .. Len(s) : s[i] = e
    BY <1>1 DEF In
  <2>2. CASE i = 1
    BY <2>1, <2>2, HeadTail
  <2>3. CASE i # 1
    <3>1. i - 1 \in 1 .. Len(Tail(s)) /\ Tail(s)[i - 1] = e
      BY <2>1, <2>3, HeadTail
    <3> QED BY <3>1 DEF In
  <2> QED BY <2>2, <2>3
<1>2. ASSUME In(e, Tail(s))
      PROVE  In(e, s)
  <2>1. PICK i \in 1 .. Len(Tail(s)) : Tail(s)[i] = e
    BY <1>2 DEF In
  <2>2. i + 1 \in 1 .. Len(s) /\ s[i + 1] = e
    BY <2>1, HeadTail
  <2> QED BY <2>2 DEF In
<1>3. e = Head(s) => In(e, s)
  <2>1. 1 \in 1 .. Len(s) /\ Head(s) = s[1]
    BY HeadTail
  <2> QED BY <2>1 DEF In
<1> QED BY <1>1, <1>2, <1>3

LEMMA ReportedInTail ==
  ASSUME NEW S, NEW s \in Seq(S), s # <<>>, NEW e
  PROVE  ReportedIn(e, s) <=> (ReportedIn(e, Tail(s)) \/ e = Head(s).event)
<1>1. 1 \in 1 .. Len(s)
  BY HeadTail
<1> QED BY <1>1, HeadTail DEF ReportedIn

-----------------------------------------------------------------------------
(* Type correctness                                                        *)

LEMMA SplitFirst ==
  \A s \in Seq(Event) : s # <<>> => s = <<Head(s)>> \o Tail(s)
<1> SUFFICES ASSUME NEW s \in Seq(Event), s # <<>>
             PROVE  s = <<Head(s)>> \o Tail(s)
  OBVIOUS
<1>1. s[1] = Head(s) /\ Len(s) \in Nat \ {0} /\ 1 \in 1 .. Len(s)
  BY HeadTail
<1>2. SubSeq(s, 1, Len(s)) = <<s[1]>> \o SubSeq(s, 1 + 1, Len(s))
  BY <1>1, LenProperties, SubSeqRecursiveFirst
<1> QED BY <1>1, <1>2, SubSeqFull, TailIsSubSeq

LEMMA TailOfAppend ==
  \A s \in Seq(Event), e \in Event :
    s # <<>> => Tail(Append(s, e)) = Append(Tail(s), e)
BY SMTT(60)

LEMMA InitTypeOK == Init => TypeOK
<1> SUFFICES ASSUME Init PROVE TypeOK
  OBVIOUS
<1>1. /\ ring = [q \in Rings |-> <<>>] /\ ring \in [Rings -> Seq(Event)]
      /\ chan \in Seq(Report) /\ printed \in Seq(Report)
  BY DEF Init
<1>2. \A q \in Rings : Len(ring[q]) <= CAPACITY
  BY <1>1, RingAssumption, EmptySeq
<1>3. /\ clock \in 0 .. MAX_EVENTS /\ sessions \in 0 .. MAX_SESSIONS
      /\ late \in [CPUs -> Nat]
  BY BoundAssumption DEF Init, Nobody
<1>4. cpu \in [CPUs -> [pc : {"idle"}, event : {NONE}]
                       \cup [pc : {"reserve", "submit", "disable"}, event : Event]]
  BY DEF Init
<1>5. (\A c \in CPUs : cpu[c].pc # "submit") /\ held = {}
  BY DEF Init
<1> QED BY <1>1, <1>2, <1>3, <1>4, <1>5 DEF Init, TypeOK

(* The CPUs.  A record that is reserved stays in its ring until it has     *)
(* been submitted.                                                         *)
LEMMA StampTypeOK ==
  ASSUME TypeOK, NEW c \in CPUs, NEW q \in Rings, Stamp(c, q)
  PROVE  TypeOK'
<1> DEFINE e == [ring |-> q, cpu |-> c, time |-> clock + 1]
<1>1. e \in Event /\ clock' = clock + 1 /\ clock' \in 0 .. MAX_EVENTS
  BY BoundAssumption DEF TypeOK, Stamp, Event
<1>2. /\ cpu' = [cpu EXCEPT ![c] = [pc |-> "reserve", event |-> e]]
      /\ traced' \subseteq traced \cup {e}
      /\ UNCHANGED <<enabled, ring, session, sessions, boot, chan, printed, held, late>>
  BY DEF Stamp, Goes, process, Noted
<1> HIDE DEF e
<1>3. cpu' \in [CPUs -> [pc : {"idle"}, event : {NONE}]
                        \cup [pc : {"reserve", "submit", "disable"}, event : Event]]
  BY <1>1, <1>2 DEF TypeOK
<1>4. \A d \in CPUs, p \in Rings :
        cpu'[d].pc = "submit" /\ cpu'[d].event.ring = p => In(cpu'[d].event, Unread(p)')
  BY <1>2 DEF TypeOK, Unread
<1> QED BY <1>1, <1>2, <1>3, <1>4 DEF TypeOK

(* A record that a CPU reserves comes behind the unread ones of its ring,  *)
(* whether or not the oldest is held.                                      *)
LEMMA UnreadType ==
  ASSUME TypeOK, NEW q \in Rings
  PROVE  /\ ring[q] \in Seq(Event) /\ Unread(q) \in Seq(Event)
         /\ q \in held => ring[q] # <<>> /\ ring[q] = <<Head(ring[q])>> \o Unread(q)
         /\ q \notin held => ring[q] = Unread(q)
<1>1. ring[q] \in Seq(Event) /\ (q \in held => ring[q] # <<>>)
  BY DEF TypeOK
<1>2. CASE q \in held
  <2> DEFINE s == ring[q]
  <2>1. s \in Seq(Event) /\ s # <<>> /\ Unread(q) = Tail(s)
    BY <1>1, <1>2 DEF Unread
  <2> HIDE DEF s
  <2>2. Tail(s) \in Seq(Event)
    BY <2>1, HeadTail
  <2>3. s = <<Head(s)>> \o Tail(s)
    BY <2>1, SplitFirst
  <2> QED BY <1>2, <2>1, <2>2, <2>3 DEF s
<1>3. CASE q \notin held
  BY <1>1, <1>3 DEF Unread
<1> QED BY <1>2, <1>3

LEMMA UnreadOfReserve ==
  ASSUME TypeOK, NEW c \in CPUs, Reserve(c)
  PROVE  /\ cpu[c].event \in Event /\ cpu[c].event.ring \in Rings
         /\ \A p \in Rings :
              Unread(p)' = IF p = cpu[c].event.ring THEN Append(Unread(p), cpu[c].event) ELSE Unread(p)
<1>1. PICK e \in Event : e = cpu[c].event
  BY DEF TypeOK, Reserve
<1>2. PICK q \in Rings : q = e.ring
  BY DEF Event
<1>3. /\ ring[q] \in Seq(Event) /\ ring'[q] = Append(ring[q], e)
      /\ \A p \in Rings : p # q => ring'[p] = ring[p]
      /\ held' = held
  BY <1>1, <1>2 DEF Reserve, process, TypeOK
<1>4. \A p \in Rings : p # q => Unread(p)' = Unread(p)
  BY <1>3 DEF Unread
<1>5. Unread(q)' = Append(Unread(q), e)
  <2>1. CASE q \in held
    <3> DEFINE s == ring[q]
    <3>1. s \in Seq(Event) /\ s # <<>>
      BY <1>3, <2>1 DEF TypeOK
    <3>2. Unread(q) = Tail(s) /\ Unread(q)' = Tail(ring'[q]) /\ ring'[q] = Append(s, e)
      BY <1>3, <2>1 DEF Unread
    <3> HIDE DEF s
    <3>3. Tail(Append(s, e)) = Append(Tail(s), e)
      BY <3>1, TailOfAppend
    <3> QED BY <3>2, <3>3
  <2>2. CASE q \notin held
    BY <1>3, <2>2 DEF Unread
  <2> QED BY <2>1, <2>2
<1> QED BY <1>1, <1>2, <1>4, <1>5

LEMMA ReserveTypeOK ==
  ASSUME TypeOK, NEW c \in CPUs, Reserve(c)
  PROVE  TypeOK'
<1>a. PICK e \in Event : e = cpu[c].event
  BY DEF TypeOK, Reserve
<1>b. PICK q \in Rings : q = e.ring
  BY DEF Event
<1>1. ring[q] \in Seq(Event) /\ Len(ring[q]) < CAPACITY
  BY <1>a, <1>b DEF TypeOK, Reserve
<1>2. /\ ring' = [ring EXCEPT ![q] = Append(ring[q], e)]
      /\ cpu' = [cpu EXCEPT ![c] = [pc |-> "submit", event |-> e]]
      /\ late' = [late EXCEPT ![c] = IF enabled THEN @ ELSE @ + 1]
      /\ UNCHANGED <<enabled, clock, session, sessions, boot, chan, printed, held, traced>>
  BY <1>a, <1>b DEF Reserve, Goes, process, StoredLate
<1>3. Append(ring[q], e) \in Seq(Event) /\ Len(Append(ring[q], e)) = Len(ring[q]) + 1
  BY <1>1, AppendProperties
<1>4. ring' \in [Rings -> Seq(Event)]
  BY <1>1, <1>2, <1>3 DEF TypeOK
<1>5. cpu' \in [CPUs -> [pc : {"idle"}, event : {NONE}]
                        \cup [pc : {"reserve", "submit", "disable"}, event : Event]]
  BY <1>1, <1>2 DEF TypeOK
<1>6. late' \in [CPUs -> Nat]
  BY <1>2 DEF TypeOK
<1>7. \A p \in Rings : Len(ring'[p]) <= CAPACITY
  <2>1. Len(ring[q]) \in Nat
    BY <1>1, LenProperties
  <2>2. Len(ring'[q]) <= CAPACITY
    BY <1>1, <1>2, <1>3, <2>1, RingAssumption DEF TypeOK
  <2> QED BY <1>2, <2>2 DEF TypeOK
<1>8. /\ Unread(q)' = Append(Unread(q), e) /\ Unread(q) \in Seq(Event)
      /\ \A p \in Rings : p # q => Unread(p)' = Unread(p)
  BY <1>a, <1>b, UnreadOfReserve, UnreadType
<1>9. ASSUME NEW d \in CPUs, NEW p \in Rings, cpu'[d].pc = "submit", cpu'[d].event.ring = p
      PROVE  In(cpu'[d].event, Unread(p)')
  <2>1. CASE d = c
    <3>1. cpu'[d].event = e /\ p = q
      BY <1>b, <1>2, <1>9, <2>1 DEF TypeOK
    <3>2. In(e, Append(Unread(q), e))
      BY <1>1, <1>8, InAppend
    <3> QED BY <1>8, <3>1, <3>2
  <2>2. CASE d # c
    <3>1. cpu'[d] = cpu[d]
      BY <1>2, <2>2 DEF TypeOK
    <3>2. In(cpu[d].event, Unread(p))
      BY <1>9, <3>1 DEF TypeOK
    <3>3. CASE p = q
      <4>1. In(cpu[d].event, Append(Unread(q), e))
        BY <1>1, <1>8, <3>2, <3>3, InAppend
      <4> QED BY <1>8, <3>1, <3>3, <4>1
    <3>4. CASE p # q
      BY <1>8, <3>1, <3>2, <3>4
    <3> QED BY <3>3, <3>4
  <2> QED BY <2>1, <2>2
<1>10. held' \subseteq Rings /\ \A p \in held' : ring'[p] # <<>>
  <2>1. held' = held /\ held \subseteq Rings /\ \A p \in held : ring[p] # <<>>
    BY <1>2 DEF TypeOK
  <2>2. ring'[q] # <<>>
    <3>1. ring'[q] = Append(ring[q], e)
      BY <1>1, <1>2 DEF TypeOK
    <3>2. Len(Append(ring[q], e)) # 0
      BY <1>1, <1>3, LenProperties
    <3> QED BY <3>1, <3>2, EmptySeq
  <2> QED BY <1>2, <2>1, <2>2 DEF TypeOK
<1> HIDE DEF Unread
<1> QED BY <1>2, <1>4, <1>5, <1>6, <1>7, <1>9, <1>10 DEF TypeOK

LEMMA DoneTypeOK ==
  ASSUME TypeOK, NEW c \in CPUs, Submit(c) \/ FindFull(c) \/ Disable(c)
  PROVE  TypeOK'
<1>1. PICK s \in {"idle", "disable"} :
        /\ cpu' = [cpu EXCEPT ![c] = [pc |-> s, event |-> IF s = "idle" THEN NONE ELSE cpu[c].event]]
        /\ s = "disable" => cpu[c].pc = "reserve"
  BY DEF Submit, FindFull, Disable, Goes
<1>2. /\ enabled' \in BOOLEAN
      /\ UNCHANGED <<ring, clock, session, sessions, boot, chan, printed, held, traced, late>>
  BY DEF TypeOK, Submit, FindFull, Disable, process, history
<1>3. cpu' \in [CPUs -> [pc : {"idle"}, event : {NONE}]
                        \cup [pc : {"reserve", "submit", "disable"}, event : Event]]
  BY <1>1 DEF TypeOK
<1>4. \A d \in CPUs, p \in Rings :
        cpu'[d].pc = "submit" /\ cpu'[d].event.ring = p => In(cpu'[d].event, Unread(p)')
  BY <1>1, <1>2 DEF TypeOK, Unread
<1> QED BY <1>2, <1>3, <1>4 DEF TypeOK

(* The monitor process.                                                    *)
LEMMA ReadTypeOK ==
  ASSUME TypeOK, NEW q \in Rings, Read(q)
  PROVE  TypeOK'
<1> DEFINE e == Head(ring[q])
           r == Converted(e, boot')
<1>1. /\ boot' \in IF boot = NONE THEN BootTimes ELSE {boot}
      /\ chan' = Append(chan, r)
      /\ q \notin held /\ held' = held \cup {q}
      /\ UNCHANGED <<enabled, ring, cpu, clock, session, sessions, printed, traced, late>>
  BY DEF Read, kernel, history
<1>2. ring[q] \in Seq(Event) /\ ring[q] # <<>>
  BY DEF TypeOK, Read, Readable
<1>3. e \in Event
  BY <1>2, HeadTail
<1>4. boot' \in BootTimes \cup {NONE} /\ boot' \in Nat
  BY <1>1, TimeAssumption DEF TypeOK
<1>5. r \in Report
  BY <1>3, <1>4 DEF Converted, Report, Event
<1>6. chan' \in Seq(Report)
  BY <1>1, <1>5, AppendProperties DEF TypeOK
<1>7. ASSUME NEW c \in CPUs, NEW p \in Rings, cpu[c].pc = "submit", cpu[c].event.ring = p
      PROVE  In(cpu[c].event, Unread(p)')
  <2>1. In(cpu[c].event, Unread(p))
    BY <1>7 DEF TypeOK
  <2>2. CASE p = q
    <3>1. cpu[c].event # e
      BY <1>7 DEF Read, Readable
    <3>2. Unread(q) = ring[q] /\ Unread(q)' = Tail(ring[q])
      BY <1>1 DEF Unread
    <3>3. In(cpu[c].event, Tail(ring[q]))
      BY <1>2, <2>1, <2>2, <3>1, <3>2, InTail
    <3> QED BY <2>2, <3>2, <3>3
  <2>3. CASE p # q
    BY <1>1, <2>1, <2>3 DEF Unread
  <2> QED BY <2>2, <2>3
<1>8. held' \subseteq Rings /\ \A p \in held' : ring'[p] # <<>>
  BY <1>1, <1>2 DEF TypeOK
<1> HIDE DEF r, e, Unread
<1> QED BY <1>1, <1>4, <1>6, <1>7, <1>8 DEF TypeOK

LEMMA UnreadOfRelease ==
  ASSUME TypeOK, NEW q \in Rings, Release(q)
  PROVE  \A p \in Rings : Unread(p)' = Unread(p)
<1>1. /\ ring' = [ring EXCEPT ![q] = Tail(ring[q])]
      /\ q \in held /\ held' = held \ {q}
  BY DEF Release
<1> QED BY <1>1 DEF Unread, TypeOK

LEMMA ReleaseTypeOK ==
  ASSUME TypeOK, NEW q \in Rings, Release(q)
  PROVE  TypeOK'
<1> DEFINE s == ring[q]
<1>1. /\ ring' = [ring EXCEPT ![q] = Tail(s)]
      /\ q \in held /\ held' = held \ {q}
      /\ UNCHANGED <<enabled, cpu, clock, session, sessions, boot, chan, printed, traced, late>>
  BY DEF Release, history
<1>2. s \in Seq(Event) /\ s # <<>>
  BY <1>1 DEF TypeOK
<1> HIDE DEF s
<1>3. Tail(s) \in Seq(Event) /\ Len(Tail(s)) = Len(s) - 1 /\ Len(s) \in Nat
  BY <1>2, HeadTail
<1>4. ring' \in [Rings -> Seq(Event)]
  BY <1>1, <1>3 DEF TypeOK
<1>5. \A p \in Rings : Len(ring'[p]) <= CAPACITY
  <2>1. Len(s) <= CAPACITY
    BY DEF TypeOK, s
  <2>2. Len(ring'[q]) <= CAPACITY
    <3>1. ring'[q] = Tail(s)
      BY <1>1 DEF TypeOK
    <3> QED BY <1>3, <2>1, <3>1, RingAssumption
  <2> QED BY <1>1, <2>2 DEF TypeOK
<1>6. held' \subseteq Rings /\ \A p \in held' : ring'[p] # <<>>
  BY <1>1 DEF TypeOK
<1>7. \A c \in CPUs, p \in Rings :
        cpu'[c].pc = "submit" /\ cpu'[c].event.ring = p => In(cpu'[c].event, Unread(p)')
  <2>1. \A p \in Rings : Unread(p)' = Unread(p)
    BY UnreadOfRelease
  <2> QED BY <1>1, <2>1 DEF TypeOK
<1> HIDE DEF Unread
<1> QED BY <1>1, <1>4, <1>5, <1>6, <1>7 DEF TypeOK

LEMMA PrintTypeOK == ASSUME TypeOK, PrintEvent PROVE TypeOK'
<1>1. /\ printed' = Append(printed, Head(chan)) /\ chan' = Tail(chan)
      /\ UNCHANGED <<enabled, ring, cpu, clock, session, sessions, boot, held, traced, late>>
  BY DEF PrintEvent, kernel, history
<1>2. chan \in Seq(Report) /\ chan # <<>> /\ printed \in Seq(Report)
  BY DEF TypeOK, PrintEvent
<1>3. Head(chan) \in Report /\ chan' \in Seq(Report)
  BY <1>1, <1>2, HeadTail
<1>4. printed' \in Seq(Report)
  BY <1>1, <1>2, <1>3, AppendProperties
<1> QED BY <1>1, <1>3, <1>4 DEF TypeOK, Unread

LEMMA SessionTypeOK ==
  ASSUME TypeOK, OpenRings \/ SwitchOn \/ CtrlC \/ Exit \/ Kill
  PROVE  TypeOK'
<1>1. UNCHANGED <<ring, cpu, clock>>
  BY DEF OpenRings, SwitchOn, CtrlC, Exit, Kill, ProcessGone, kernel
<1>2. /\ enabled' \in BOOLEAN
      /\ session' \in {"none", "opened", "running", "exiting"}
      /\ boot' \in BootTimes \cup {NONE}
  BY DEF TypeOK, OpenRings, SwitchOn, CtrlC, Exit, Kill, ProcessGone, kernel
<1>4. sessions' \in 0 .. MAX_SESSIONS
  <2>1. sessions \in 0 .. MAX_SESSIONS
    BY DEF TypeOK
  <2>2. sessions' = sessions \/ (sessions < MAX_SESSIONS /\ sessions' = sessions + 1)
    BY DEF OpenRings, SwitchOn, CtrlC, Exit, Kill, ProcessGone
  <2> QED BY <2>1, <2>2, BoundAssumption
<1>5. traced' \subseteq Event /\ late' \in [CPUs -> Nat]
  <2>1. traced \subseteq Event /\ late \in [CPUs -> Nat]
    BY DEF TypeOK
  <2>2. (traced' = traced \/ traced' = {}) /\ (late' = late \/ late' = [c \in CPUs |-> 0])
    BY DEF OpenRings, SwitchOn, CtrlC, Exit, Kill, ProcessGone, history, Nobody
  <2> QED BY <2>1, <2>2
<1>3. chan' \in Seq(Report) /\ printed' \in Seq(Report)
  BY EmptySeq DEF TypeOK, OpenRings, SwitchOn, CtrlC, Exit, Kill, ProcessGone
<1>6. held' = held \/ held' = {}
  BY DEF OpenRings, SwitchOn, CtrlC, Exit, Kill, ProcessGone
<1>7. ASSUME NEW c \in CPUs, NEW q \in Rings, cpu[c].pc = "submit", cpu[c].event.ring = q
      PROVE  In(cpu[c].event, Unread(q)')
  <2>1. In(cpu[c].event, Unread(q))
    BY <1>7 DEF TypeOK
  <2>2. CASE Unread(q)' = Unread(q)
    BY <2>1, <2>2
  <2>3. CASE Unread(q)' # Unread(q)
    <3>1. q \in held /\ Unread(q) = Tail(ring[q]) /\ Unread(q)' = ring[q]
      BY <1>1, <1>6, <2>3 DEF Unread
    <3>2. ring[q] \in Seq(Event) /\ ring[q] # <<>>
      BY <3>1 DEF TypeOK
    <3> QED BY <2>1, <3>1, <3>2, InTail
  <2> QED BY <2>2, <2>3
<1>8. held' \subseteq Rings /\ \A p \in held' : ring'[p] # <<>>
  BY <1>1, <1>6 DEF TypeOK
<1> HIDE DEF Unread
<1> QED BY <1>1, <1>2, <1>3, <1>4, <1>5, <1>7, <1>8 DEF TypeOK

LEMMA StutterTypeOK == ASSUME TypeOK, UNCHANGED vars PROVE TypeOK'
BY DEF TypeOK, Unread, vars, kernel, process, history

(* TypeOK holds of every behaviour: no ring is ever overfull, and what a   *)
(* CPU is still writing is still in the ring (monitor.rs:44-64).           *)
THEOREM TypeCorrect == Spec => []TypeOK
<1>1. ASSUME TypeOK, [Next]_vars
      PROVE  TypeOK'
  <2>1. CASE Next
    BY <1>1, <2>1, StampTypeOK, ReserveTypeOK, DoneTypeOK, ReadTypeOK, ReleaseTypeOK, PrintTypeOK, SessionTypeOK
      DEF Next, OnCPU
  <2>2. CASE UNCHANGED vars
    BY <1>1, <2>2, StutterTypeOK
  <2> QED BY <1>1, <2>1, <2>2
<1> QED BY <1>1, InitTypeOK, PTL DEF Spec

-----------------------------------------------------------------------------
(* The switch                                                              *)

(* Inductive strengthening: nothing has been stored late as long as the    *)
(* switch is on, nor by a CPU that is still at its event.                  *)
LateInv ==
  \A c \in CPUs :
    /\ late[c] <= 1
    /\ enabled => late[c] = 0
    /\ cpu[c].pc = "reserve" => late[c] = 0

LEMMA LateStep ==
  ASSUME TypeOK, LateInv, [Next]_vars
  PROVE  LateInv'
<1>1. CASE \E c \in CPUs, q \in Rings : Stamp(c, q)
  <2>1. PICK c \in CPUs : \E q \in Rings : Stamp(c, q)
    BY <1>1
  <2>2. enabled /\ enabled' /\ late' = late /\ \A d \in CPUs : d # c => cpu'[d] = cpu[d]
    BY <2>1 DEF Stamp, Goes, TypeOK
  <2> QED BY <2>2 DEF LateInv
<1>2. CASE \E c \in CPUs : Reserve(c)
  <2>1. PICK c \in CPUs : Reserve(c)
    BY <1>2
  <2>2. /\ enabled' = enabled /\ cpu[c].pc = "reserve"
        /\ cpu'[c].pc = "submit" /\ \A d \in CPUs : d # c => cpu'[d] = cpu[d]
        /\ late' = [late EXCEPT ![c] = IF enabled THEN @ ELSE @ + 1]
    BY <2>1 DEF Reserve, Goes, StoredLate, TypeOK
  <2>3. late'[c] = (IF enabled THEN 0 ELSE 1) /\ \A d \in CPUs : d # c => late'[d] = late[d]
    BY <2>2 DEF LateInv, TypeOK
  <2> QED BY <2>2, <2>3 DEF LateInv
<1>3. CASE \E c \in CPUs : Submit(c) \/ FindFull(c) \/ Disable(c)
  <2>1. PICK c \in CPUs : Submit(c) \/ FindFull(c) \/ Disable(c)
    BY <1>3
  <2>2. /\ late' = late /\ (enabled' => enabled)
        /\ cpu'[c].pc # "reserve" /\ \A d \in CPUs : d # c => cpu'[d] = cpu[d]
    BY <2>1 DEF Submit, FindFull, Disable, Goes, history, TypeOK
  <2> QED BY <2>2 DEF LateInv
<1>4. CASE SwitchOn
  <2>1. late' = [c \in CPUs |-> 0]
    BY <1>4 DEF SwitchOn, Nobody
  <2> QED BY <2>1 DEF LateInv
<1>5. CASE (\E q \in Rings : Read(q) \/ Release(q)) \/ PrintEvent \/ OpenRings \/ CtrlC \/ Exit \/ Kill \/ UNCHANGED vars
  <2>1. late' = late /\ cpu' = cpu /\ (enabled' => enabled)
    BY <1>5 DEF Read, Release, PrintEvent, OpenRings, CtrlC, Exit, Kill, ProcessGone, vars, kernel, history
  <2> QED BY <2>1 DEF LateInv
<1> QED BY <1>1, <1>2, <1>3, <1>4, <1>5 DEF Next, OnCPU

(* Once the switch is off, a CPU stores at most the event it was at        *)
(* (monitor.rs:76), whatever sessions start, stop and are killed.          *)
THEOREM LateBounded == Spec => []AtMostOneLate
<1>1. ASSUME Init PROVE LateInv
  <2>1. \A c \in CPUs : late[c] = 0
    BY <1>1 DEF Init, Nobody
  <2>2. 0 <= 1
    OBVIOUS
  <2> QED BY <2>1, <2>2 DEF LateInv
<1>2. LateInv => AtMostOneLate
  BY DEF LateInv, AtMostOneLate
<1> QED BY <1>1, <1>2, TypeCorrect, LateStep, PTL DEF Spec

-----------------------------------------------------------------------------
(* Nothing is lost                                                         *)

(* Inductive strengthening: nothing is traced outside a session, and what  *)
(* a reader has sent on need not be found in the ring any more.            *)
Somewhere(e) ==
  \/ ReportedIn(e, printed) \/ ReportedIn(e, chan)
  \/ \E q \in Rings : In(e, Unread(q))
  \/ \E c \in CPUs : cpu[c].event = e

LostInv ==
  /\ session # "running" => traced = {}
  /\ session = "running" /\ enabled => \A e \in traced : Somewhere(e)

LEMMA LostStep ==
  ASSUME TypeOK, LostInv, [Next]_vars
  PROVE  LostInv'
<1>0. session' # "running" => traced' = {}
  BY DEF LostInv, Next, OnCPU, Stamp, Noted, Reserve, Submit, FindFull, Disable, OpenRings,
         SwitchOn, Read, Release, PrintEvent, CtrlC, Exit, Kill, ProcessGone, vars, kernel,
         process, history
<1> SUFFICES ASSUME session' = "running", enabled', NEW e \in traced'
             PROVE  Somewhere(e)'
  BY <1>0 DEF LostInv
<1>1. CASE \E c \in CPUs, q \in Rings : Stamp(c, q)
  <2>1. PICK c \in CPUs, q \in Rings : Stamp(c, q)
    BY <1>1
  <2> DEFINE f == [ring |-> q, cpu |-> c, time |-> clock + 1]
  <2>2. /\ cpu[c].event = NONE /\ cpu'[c].event = f
        /\ traced' = traced \cup {f}
        /\ \A d \in CPUs : d # c => cpu'[d] = cpu[d]
        /\ UNCHANGED <<enabled, session, ring, held, chan, printed>>
    BY <2>1 DEF Stamp, Noted, Goes, process, TypeOK
  <2> HIDE DEF f
  <2>3. CASE e = f
    BY <2>2, <2>3 DEF Somewhere
  <2>4. CASE e # f
    <3>1. e \in traced /\ e # NONE /\ Somewhere(e)
      BY <2>2, <2>4, NoneAssumption DEF LostInv, TypeOK
    <3> QED BY <2>2, <3>1 DEF Somewhere, Unread
  <2> QED BY <2>3, <2>4
<1>2. CASE \E c \in CPUs : Reserve(c)
  <2>1. PICK c \in CPUs : Reserve(c)
    BY <1>2
  <2>2. /\ cpu'[c].event = cpu[c].event
        /\ \A d \in CPUs : d # c => cpu'[d] = cpu[d]
        /\ UNCHANGED <<enabled, session, traced, chan, printed>>
    BY <2>1 DEF Reserve, Goes, process, TypeOK
  <2>3. Somewhere(e)
    BY <2>2 DEF LostInv
  <2>4. ASSUME NEW p \in Rings, In(e, Unread(p))
        PROVE  In(e, Unread(p)')
    <3>1. Unread(p) \in Seq(Event) /\ cpu[c].event \in Event
      BY <2>1, UnreadType, UnreadOfReserve
    <3>2. In(e, Append(Unread(p), cpu[c].event))
      BY <2>4, <3>1, InAppend
    <3>3. Unread(p)' = Unread(p) \/ Unread(p)' = Append(Unread(p), cpu[c].event)
      BY <2>1, UnreadOfReserve
    <3> QED BY <2>4, <3>2, <3>3
  <2> QED BY <2>2, <2>3, <2>4 DEF Somewhere
<1>3. CASE \E c \in CPUs : Submit(c) \/ FindFull(c) \/ Disable(c)
  <2>1. PICK c \in CPUs : Submit(c) \/ FindFull(c)
    BY <1>3 DEF Disable
  <2>2. /\ \A d \in CPUs : d # c => cpu'[d] = cpu[d]
        /\ UNCHANGED <<enabled, session, ring, held, traced, chan, printed>>
    BY <2>1 DEF Submit, FindFull, Goes, process, history, TypeOK
  <2>3. Somewhere(e)
    BY <2>2 DEF LostInv
  <2>4. cpu[c].event = e => cpu'[c].event = e \/ \E q \in Rings : In(e, Unread(q))
    <3>1. CASE Submit(c)
      <4>1. \E q \in Rings : In(cpu[c].event, Unread(q))
        BY <3>1 DEF Submit, TypeOK, Event
      <4> QED BY <4>1
    <3>2. CASE FindFull(c)
      BY <3>2 DEF FindFull, Goes, TypeOK
    <3> QED BY <2>1, <3>1, <3>2
  <2>5. \A p \in Rings : Unread(p)' = Unread(p)
    BY <2>2 DEF Unread
  <2> QED BY <2>2, <2>3, <2>4, <2>5 DEF Somewhere
<1>4. CASE \E q \in Rings : Read(q)
  <2>1. PICK q \in Rings : Read(q)
    BY <1>4
  <2> DEFINE h == Head(ring[q])
             r == Converted(h, boot')
  <2>2. /\ Unread(q) = ring[q] /\ Unread(q)' = Tail(ring[q])
        /\ \A p \in Rings : p # q => Unread(p)' = Unread(p)
    BY <2>1 DEF Read, Unread, kernel
  <2>3. /\ chan' = Append(chan, r)
        /\ boot' \in (IF boot = NONE THEN BootTimes ELSE {boot})
        /\ ring[q] \in Seq(Event) /\ ring[q] # <<>> /\ chan \in Seq(Report)
        /\ UNCHANGED <<enabled, session, cpu, traced, printed>>
    BY <2>1 DEF Read, Readable, TypeOK, kernel, history
  <2>4. Somewhere(e)
    BY <2>3 DEF LostInv
  <2>5. r \in Report /\ r.event = h
    <3>1. h \in Event
      BY <2>3, HeadTail
    <3>2. boot' \in Nat
      BY <2>3, TimeAssumption DEF TypeOK
    <3> HIDE DEF h
    <3> QED BY <3>1, <3>2 DEF Report, Converted, Event
  <2> HIDE DEF r
  <2>6. ReportedIn(e, chan') <=> (ReportedIn(e, chan) \/ e = h)
    BY <2>3, <2>5, ReportedInAppend
  <2>7. In(e, ring[q]) => In(e, Tail(ring[q])) \/ e = h
    BY <2>3, InTail
  <2> HIDE DEF h
  <2>8. \A p \in Rings : In(e, Unread(p)) => In(e, Unread(p)') \/ ReportedIn(e, chan')
    BY <2>2, <2>6, <2>7
  <2> QED BY <2>3, <2>4, <2>6, <2>8 DEF Somewhere
<1>9. CASE \E q \in Rings : Release(q)
  <2>1. PICK q \in Rings : Release(q)
    BY <1>9
  <2>2. UNCHANGED <<enabled, session, cpu, traced, chan, printed>>
    BY <2>1 DEF Release, history
  <2>3. \A p \in Rings : Unread(p)' = Unread(p)
    BY <2>1, UnreadOfRelease
  <2> QED BY <2>2, <2>3 DEF LostInv, Somewhere
<1>5. CASE PrintEvent
  <2>1. /\ printed' = Append(printed, Head(chan)) /\ chan' = Tail(chan)
        /\ chan # <<>> /\ chan \in Seq(Report) /\ printed \in Seq(Report)
        /\ UNCHANGED <<enabled, session, ring, held, cpu, traced>>
    BY <1>5 DEF PrintEvent, TypeOK, kernel, history
  <2>2. Somewhere(e)
    BY <2>1 DEF LostInv
  <2>3. ReportedIn(e, chan) <=> (ReportedIn(e, chan') \/ e = Head(chan).event)
    BY <2>1, ReportedInTail
  <2>4. Head(chan) \in Report
    BY <2>1, HeadTail
  <2>5. ReportedIn(e, printed') <=> (ReportedIn(e, printed) \/ e = Head(chan).event)
    BY <2>1, <2>4, ReportedInAppend
  <2>6. \A p \in Rings : Unread(p)' = Unread(p)
    BY <2>1 DEF Unread
  <2> QED BY <2>1, <2>2, <2>3, <2>5, <2>6 DEF Somewhere
<1>6. CASE SwitchOn
  BY <1>6 DEF SwitchOn, LostInv
<1>7. CASE OpenRings \/ CtrlC \/ Exit \/ Kill
  BY <1>7 DEF OpenRings, CtrlC, Exit, Kill, ProcessGone
<1>8. CASE UNCHANGED vars
  <2>1. UNCHANGED <<enabled, session, ring, held, cpu, traced, chan, printed>>
    BY <1>8 DEF vars, kernel, process, history
  <2> QED BY <2>1 DEF LostInv, Somewhere, Unread
<1> QED BY <1>1, <1>2, <1>3, <1>4, <1>5, <1>6, <1>7, <1>8, <1>9 DEF Next, OnCPU

(* As long as a session runs and the switch stays on, every event stamped  *)
(* since it began is on its way or printed (monitor.rs:44-64).             *)
THEOREM NothingLost == Spec => []NothingLostWhileOn
<1>1. Init => LostInv
  BY DEF Init, LostInv
<1>2. ASSUME TypeOK, LostInv PROVE NothingLostWhileOn
  <2>1. \A q \in Rings, e \in Event : In(e, Unread(q)) => In(e, ring[q])
    <3> SUFFICES ASSUME NEW q \in Rings, NEW e \in Event, In(e, Unread(q))
                 PROVE  In(e, ring[q])
      OBVIOUS
    <3>1. CASE q \in held
      <4>1. ring[q] \in Seq(Event) /\ ring[q] # <<>> /\ Unread(q) = Tail(ring[q])
        BY <1>2, <3>1 DEF TypeOK, Unread
      <4> QED BY <4>1, InTail
    <3>2. CASE q \notin held
      BY <3>2 DEF Unread
    <3> QED BY <3>1, <3>2
  <2>2. traced \subseteq Event
    BY <1>2 DEF TypeOK
  <2> QED BY <1>2, <2>1, <2>2 DEF LostInv, Somewhere, NothingLostWhileOn
<1> QED BY <1>1, <1>2, TypeCorrect, LostStep, PTL DEF Spec

-----------------------------------------------------------------------------
(* The order of the dates                                                  *)

Before(e, f) == e.ring = f.ring /\ e.cpu = f.cpu => e.time < f.time

Ordered(s) == \A i \in 1 .. Len(s) : \A j \in 1 .. i - 1 : Before(s[j], s[i])

Output == printed \o chan

(* Inductive strengthening: along the way of an event (output, ring, CPU)  *)
(* the times of one CPU increase, none is in the future, and the dates of  *)
(* a session come from one boot time.                                      *)
PastInv ==
  /\ \A c \in CPUs : cpu[c].pc # "idle" => cpu[c].event.cpu = c /\ cpu[c].event.time <= clock
  /\ \A q \in Rings : \A i \in 1 .. Len(ring[q]) : ring[q][i].ring = q /\ ring[q][i].time <= clock
  /\ \A i \in 1 .. Len(Output) : Output[i].event.time <= clock

RingInv ==
  /\ \A q \in Rings : Ordered(ring[q])
  /\ \A c \in CPUs : cpu[c].pc = "reserve" =>
       \A q \in Rings : \A i \in 1 .. Len(ring[q]) : Before(ring[q][i], cpu[c].event)

OutputInv ==
  /\ \A i \in 1 .. Len(Output) : \A j \in 1 .. i - 1 : Before(Output[j].event, Output[i].event)
  /\ \A i \in 1 .. Len(Output), q \in Rings : \A j \in 1 .. Len(Unread(q)) :
       Before(Output[i].event, Unread(q)[j])
  /\ \A i \in 1 .. Len(Output), c \in CPUs :
       cpu[c].pc = "reserve" => Before(Output[i].event, cpu[c].event)

BootInv ==
  /\ ~Live => boot = NONE /\ chan = <<>> /\ printed = <<>> /\ held = {}
  /\ Live /\ boot = NONE => Output = <<>>
  /\ \E b \in Nat :
       /\ boot # NONE => b = boot
       /\ \A i \in 1 .. Len(Output) : Output[i].date = b + Output[i].event.time

OrderInv == PastInv /\ RingInv /\ OutputInv /\ BootInv

(* What the steps of the CPUs and of the process do to the output.         *)
LEMMA OutputType == TypeOK => Output \in Seq(Report) /\ Len(Output) \in Nat
<1> SUFFICES ASSUME TypeOK PROVE Output \in Seq(Report)
  BY LenProperties
<1> QED BY ConcatProperties DEF TypeOK, Output

LEMMA OutputOfRead ==
  ASSUME TypeOK, NEW q \in Rings, Read(q)
  PROVE  Output' = Append(Output, Converted(Head(ring[q]), boot'))
BY SMTT(60) DEF Read, Output, TypeOK

LEMMA OutputOfPrint ==
  ASSUME TypeOK, PrintEvent
  PROVE  Output' = Output
<1> DEFINE p == printed
           x == Head(chan)
           r == Tail(chan)
<1>1. /\ printed' = Append(p, x) /\ chan' = r
      /\ chan \in Seq(Report) /\ chan # <<>> /\ p \in Seq(Report)
  BY DEF PrintEvent, TypeOK
<1>2. /\ x \in Report /\ r \in Seq(Report) /\ x = chan[1]
      /\ Len(r) = Len(chan) - 1 /\ Len(chan) \in Nat \ {0} /\ Len(p) \in Nat
      /\ \A i \in 1 .. Len(chan) - 1 : r[i] = chan[i + 1]
  BY <1>1, HeadTail, LenProperties
<1> DEFINE a == Append(p, x)
<1>3. /\ a \in Seq(Report) /\ Len(a) = Len(p) + 1
      /\ \A i \in 1 .. Len(p) : a[i] = p[i]
      /\ a[Len(p) + 1] = x
  BY <1>1, <1>2, AppendProperties
<1> HIDE DEF a, r, x
<1>4. /\ a \o r \in Seq(Report) /\ Len(a \o r) = Len(a) + Len(r)
      /\ \A i \in 1 .. Len(a) + Len(r) : (a \o r)[i] = IF i <= Len(a) THEN a[i] ELSE r[i - Len(a)]
  BY <1>2, <1>3, ConcatProperties
<1>5. /\ p \o chan \in Seq(Report) /\ Len(p \o chan) = Len(p) + Len(chan)
      /\ \A i \in 1 .. Len(p) + Len(chan) : (p \o chan)[i] = IF i <= Len(p) THEN p[i] ELSE chan[i - Len(p)]
  BY <1>1, ConcatProperties
<1>6. ASSUME NEW i \in 1 .. Len(a \o r)
      PROVE  (a \o r)[i] = (p \o chan)[i]
  <2>1. i \in 1 .. Len(p) + Len(chan) /\ i \in 1 .. Len(a) + Len(r)
    BY <1>2, <1>3, <1>4, <1>6
  <2>2. CASE i <= Len(p)
    BY <2>1, <2>2, <1>2, <1>3, <1>4, <1>5
  <2>3. CASE i = Len(p) + 1
    BY <2>1, <2>3, <1>2, <1>3, <1>4, <1>5
  <2>4. CASE i > Len(p) + 1
    <3>1. i - Len(a) \in 1 .. Len(chan) - 1 /\ (i - Len(a)) + 1 = i - Len(p)
      BY <2>1, <2>4, <1>2, <1>3
    <3>2. r[i - Len(a)] = chan[i - Len(p)]
      BY <3>1, <1>2
    <3> QED BY <2>1, <2>4, <3>2, <1>2, <1>3, <1>4, <1>5
  <2>5. i <= Len(p) \/ i = Len(p) + 1 \/ i > Len(p) + 1
    <3>1. i \in Nat /\ Len(p) \in Nat
      BY <1>2, <2>1
    <3> QED BY ONLY <3>1
  <2> QED BY ONLY <2>2, <2>3, <2>4, <2>5
<1>7. a \o r = p \o chan
  <2>1. Len(a \o r) = Len(p \o chan)
    BY <1>2, <1>3, <1>4, <1>5
  <2> HIDE DEF p
  <2> QED BY <1>4, <1>5, <1>6, <2>1, SeqEqual
<1> QED BY <1>1, <1>7 DEF Output, a, r, x, p

LEMMA OrderedAppend ==
  ASSUME NEW S, NEW s \in Seq(S), NEW e \in S, Ordered(s),
         \A i \in 1 .. Len(s) : Before(s[i], e)
  PROVE  Ordered(Append(s, e))
<1>1. /\ Len(Append(s, e)) = Len(s) + 1 /\ Len(s) \in Nat
      /\ \A i \in 1 .. Len(s) : Append(s, e)[i] = s[i]
      /\ Append(s, e)[Len(s) + 1] = e
  BY AppendProperties, LenProperties
<1> DEFINE a == Append(s, e)
<1> HIDE DEF a
<1>2. ASSUME NEW i \in 1 .. Len(a), NEW j \in 1 .. i - 1
      PROVE  Before(a[j], a[i])
  <2>1. j \in 1 .. Len(s) /\ a[j] = s[j]
    BY <1>1, <1>2 DEF a
  <2>2. CASE i = Len(s) + 1
    BY <1>1, <2>1, <2>2 DEF a
  <2>3. CASE i # Len(s) + 1
    <3>1. i \in 1 .. Len(s) /\ a[i] = s[i]
      BY <1>1, <2>3 DEF a
    <3> QED BY <2>1, <3>1 DEF Ordered
  <2> QED BY <2>2, <2>3
<1> QED BY <1>2 DEF Ordered, a

LEMMA OrderedTail ==
  ASSUME NEW S, NEW s \in Seq(S), s # <<>>, Ordered(s)
  PROVE  Ordered(Tail(s)) /\ \A i \in 1 .. Len(Tail(s)) : Before(Head(s), Tail(s)[i])
<1> DEFINE t == Tail(s)
<1>1. /\ Len(t) = Len(s) - 1 /\ Len(s) \in Nat \ {0} /\ Head(s) = s[1]
      /\ \A i \in 1 .. Len(s) - 1 : i + 1 \in 1 .. Len(s) /\ t[i] = s[i + 1]
  BY HeadTail
<1> HIDE DEF t
<1>2. ASSUME NEW i \in 1 .. Len(t), NEW j \in 1 .. i - 1
      PROVE  Before(t[j], t[i])
  <2>1. /\ i \in 1 .. Len(s) - 1 /\ j \in 1 .. Len(s) - 1
        /\ j + 1 \in 1 .. (i + 1) - 1
    <3>1. Len(t) = Len(s) - 1 /\ Len(s) \in Nat
      BY <1>1
    <3> QED BY <1>2, <3>1
  <2>2. i + 1 \in 1 .. Len(s) /\ t[i] = s[i + 1] /\ t[j] = s[j + 1]
    BY <1>1, <2>1
  <2> QED BY <2>1, <2>2 DEF Ordered
<1>3. ASSUME NEW i \in 1 .. Len(t)
      PROVE  Before(Head(s), t[i])
  <2>1. i + 1 \in 1 .. Len(s) /\ t[i] = s[i + 1] /\ 1 \in 1 .. (i + 1) - 1
    BY <1>1, <1>3
  <2> QED BY <1>1, <2>1 DEF Ordered
<1> QED BY <1>2, <1>3 DEF Ordered, t

(* A step that moves no event and starts none.                             *)
LEMMA QuietStep ==
  ASSUME OrderInv, UNCHANGED <<ring, held, clock, boot>>, Output' = Output,
         Live' <=> Live, ~Live' => chan' = <<>> /\ printed' = <<>>,
         \A c \in CPUs : cpu'[c].pc # "idle" =>
           /\ cpu[c].pc # "idle" /\ cpu'[c].event = cpu[c].event
           /\ cpu'[c].pc = "reserve" => cpu[c].pc = "reserve"
  PROVE  OrderInv'
<1>1. PastInv'
  BY DEF OrderInv, PastInv
<1>2. RingInv'
  BY DEF OrderInv, RingInv
<1>3. OutputInv'
  <2>1. \A q \in Rings : Unread(q)' = Unread(q)
    BY DEF Unread
  <2> QED BY <2>1 DEF OrderInv, OutputInv
<1>4. BootInv'
  BY DEF OrderInv, BootInv
<1> QED BY <1>1, <1>2, <1>3, <1>4 DEF OrderInv

LEMMA QuietOrder ==
  ASSUME TypeOK, OrderInv,
         \/ \E c \in CPUs : Submit(c) \/ FindFull(c) \/ Disable(c)
         \/ PrintEvent \/ OpenRings \/ CtrlC \/ UNCHANGED vars
  PROVE  OrderInv'
<1>1. CASE \E c \in CPUs : Submit(c) \/ FindFull(c) \/ Disable(c)
  <2>1. UNCHANGED <<ring, held, clock, boot, session, chan, printed>>
    BY <1>1 DEF Submit, FindFull, Disable, process
  <2>2. Output' = Output /\ (Live' <=> Live) /\ (~Live' => chan' = <<>> /\ printed' = <<>>)
    BY <2>1 DEF Output, Live, OrderInv, BootInv
  <2>3. \A d \in CPUs : cpu'[d].pc # "idle" =>
          /\ cpu[d].pc # "idle" /\ cpu'[d].event = cpu[d].event
          /\ cpu'[d].pc = "reserve" => cpu[d].pc = "reserve"
    <3>1. PICK c \in CPUs : Submit(c) \/ FindFull(c) \/ Disable(c)
      BY <1>1
    <3>2. \A d \in CPUs : d # c => cpu'[d] = cpu[d]
      BY <3>1 DEF Submit, FindFull, Disable, Goes, TypeOK
    <3>3. cpu'[c].pc = "idle" \/ (/\ cpu[c].pc = "reserve" /\ cpu'[c].pc = "disable"
                                 /\ cpu'[c].event = cpu[c].event)
      BY <3>1 DEF Submit, FindFull, Disable, Goes, TypeOK
    <3> QED BY <3>2, <3>3
  <2> QED BY <2>1, <2>2, <2>3, QuietStep
<1>2. CASE PrintEvent
  <2>1. UNCHANGED <<ring, held, clock, boot, session, cpu>> /\ Live
    BY <1>2 DEF PrintEvent, kernel
  <2>2. Output' = Output /\ (Live' <=> Live) /\ Live'
    BY <1>2, <2>1, OutputOfPrint DEF Live
  <2> QED BY <2>1, <2>2, QuietStep
<1>3. CASE OpenRings \/ CtrlC \/ UNCHANGED vars
  <2>1. UNCHANGED <<ring, held, clock, boot, cpu, chan, printed>> /\ (Live' <=> Live)
    BY <1>3 DEF OpenRings, CtrlC, vars, kernel, process, Live
  <2>2. Output' = Output /\ (~Live' => chan' = <<>> /\ printed' = <<>>)
    BY <2>1 DEF Output, OrderInv, BootInv
  <2> QED BY <2>1, <2>2, QuietStep
<1> QED BY <1>1, <1>2, <1>3

LEMMA StampOrder ==
  ASSUME TypeOK, OrderInv, NEW c \in CPUs, NEW q \in Rings, Stamp(c, q)
  PROVE  OrderInv'
<1> DEFINE e == [ring |-> q, cpu |-> c, time |-> clock + 1]
<1>1. /\ cpu'[c].pc = "reserve" /\ cpu'[c].event = e /\ clock' = clock + 1 /\ clock \in Nat
      /\ \A d \in CPUs : d # c => cpu'[d] = cpu[d]
      /\ UNCHANGED <<ring, held, boot, session, chan, printed>>
  BY BoundAssumption DEF Stamp, Goes, process, TypeOK
<1>2. Output' = Output /\ (Live' <=> Live)
  BY <1>1 DEF Output, Live
<1>3. /\ \A p \in Rings : \A i \in 1 .. Len(ring[p]) : ring[p][i].time \in Nat
      /\ \A i \in 1 .. Len(Output) : Output[i].event.time \in Nat
  <2>1. \A x \in Event : x.time \in Nat
    BY DEF Event
  <2>2. \A p \in Rings : \A i \in 1 .. Len(ring[p]) : ring[p][i] \in Event
    BY ElementOfSeq DEF TypeOK
  <2>3. \A i \in 1 .. Len(Output) : Output[i].event \in Event
    <3>1. Output \in Seq(Report)
      BY OutputType
    <3>2. \A i \in 1 .. Len(Output) : Output[i] \in Report
      BY <3>1, ElementOfSeq
    <3> QED BY <3>2 DEF Report
  <2> QED BY <2>1, <2>2, <2>3
<1>4. \A d \in CPUs : cpu[d].pc # "idle" => cpu[d].event.time \in Nat
  BY DEF TypeOK, Event
<1>5. e.ring = q /\ e.cpu = c /\ e.time = clock + 1
  OBVIOUS
<1> HIDE DEF e
<1>6. PastInv'
  <2>1. \A d \in CPUs : cpu'[d].pc # "idle" => cpu'[d].event.cpu = d /\ cpu'[d].event.time <= clock'
    BY <1>1, <1>4, <1>5 DEF OrderInv, PastInv
  <2>2. \A p \in Rings : \A i \in 1 .. Len(ring[p]) : ring[p][i].ring = p /\ ring[p][i].time <= clock'
    BY <1>1, <1>3 DEF OrderInv, PastInv
  <2>3. \A i \in 1 .. Len(Output) : Output[i].event.time <= clock'
    BY <1>1, <1>3 DEF OrderInv, PastInv
  <2> QED BY <1>1, <1>2, <2>1, <2>2, <2>3 DEF PastInv
<1>7. RingInv'
  <2>1. \A p \in Rings : \A i \in 1 .. Len(ring[p]) : Before(ring[p][i], e)
    BY <1>1, <1>3, <1>5 DEF OrderInv, PastInv, Before
  <2> QED BY <1>1, <2>1 DEF OrderInv, RingInv
<1>8. OutputInv'
  <2>1. \A i \in 1 .. Len(Output) : Before(Output[i].event, e)
    BY <1>1, <1>3, <1>5 DEF OrderInv, PastInv, Before
  <2>2. \A p \in Rings : Unread(p)' = Unread(p)
    BY <1>1 DEF Unread
  <2> QED BY <1>1, <1>2, <2>1, <2>2 DEF OrderInv, OutputInv
<1>9. BootInv'
  BY <1>1, <1>2 DEF OrderInv, BootInv
<1> QED BY <1>6, <1>7, <1>8, <1>9 DEF OrderInv

LEMMA ReserveOrder ==
  ASSUME TypeOK, OrderInv, NEW c \in CPUs, Reserve(c)
  PROVE  OrderInv'
<1>a. PICK e \in Event : e = cpu[c].event
  BY DEF TypeOK, Reserve
<1>b. PICK q \in Rings : q = e.ring
  BY DEF Event
<1>1. /\ cpu[c].pc = "reserve" /\ ring[q] \in Seq(Event)
      /\ cpu'[c].pc = "submit" /\ cpu'[c].event = e
      /\ \A d \in CPUs : d # c => cpu'[d] = cpu[d]
      /\ ring'[q] = Append(ring[q], e) /\ \A p \in Rings : p # q => ring'[p] = ring[p]
      /\ UNCHANGED <<clock, boot, session, held, chan, printed>>
  BY <1>a, <1>b DEF Reserve, Goes, process, TypeOK
<1>2. Output' = Output /\ (Live' <=> Live)
  BY <1>1 DEF Output, Live
<1>3. e.ring = q /\ e.cpu = c /\ e.time <= clock
  BY <1>a, <1>b, <1>1 DEF OrderInv, PastInv
<1>4. /\ Len(ring'[q]) = Len(ring[q]) + 1 /\ Len(ring[q]) \in Nat
      /\ \A i \in 1 .. Len(ring[q]) : ring'[q][i] = ring[q][i]
      /\ ring'[q][Len(ring[q]) + 1] = e
  BY <1>1, AppendProperties, LenProperties
<1>5. \A i \in 1 .. Len(ring'[q]) : ring'[q][i] = e \/ \E j \in 1 .. Len(ring[q]) : j = i /\ ring'[q][i] = ring[q][j]
  BY <1>4
<1>6. PastInv'
  <2>1. \A p \in Rings : \A i \in 1 .. Len(ring'[p]) : ring'[p][i].ring = p /\ ring'[p][i].time <= clock
    <3>1. \A i \in 1 .. Len(ring'[q]) : ring'[q][i].ring = q /\ ring'[q][i].time <= clock
      BY <1>1, <1>3, <1>5 DEF OrderInv, PastInv
    <3> QED BY <1>1, <3>1, SMTT(60) DEF OrderInv, PastInv
  <2>2. \A d \in CPUs : cpu'[d].pc # "idle" => cpu'[d].event.cpu = d /\ cpu'[d].event.time <= clock
    BY <1>1, <1>3 DEF OrderInv, PastInv
  <2> QED BY <1>1, <1>2, <2>1, <2>2 DEF OrderInv, PastInv
<1>7. RingInv'
  <2>1. Ordered(ring'[q])
    <3>1. Ordered(ring[q]) /\ \A i \in 1 .. Len(ring[q]) : Before(ring[q][i], e)
      BY <1>a, <1>1 DEF OrderInv, RingInv
    <3> QED BY <1>1, <3>1, OrderedAppend
  <2>2. \A d \in CPUs : d # c /\ cpu[d].pc = "reserve" => Before(e, cpu[d].event)
    BY <1>3 DEF OrderInv, PastInv, Before
  <2>3. ASSUME NEW d \in CPUs, cpu'[d].pc = "reserve", NEW p \in Rings, NEW i \in 1 .. Len(ring'[p])
        PROVE  Before(ring'[p][i], cpu'[d].event)
    <3>1. d # c /\ cpu'[d] = cpu[d]
      BY <1>1, <2>3
    <3>2. CASE p = q
      BY <1>5, <2>2, <2>3, <3>1, <3>2, <1>1 DEF OrderInv, RingInv
    <3>3. CASE p # q
      BY <1>1, <2>3, <3>1, <3>3 DEF OrderInv, RingInv
    <3> QED BY <3>2, <3>3
  <2> QED BY <1>1, <2>1, <2>3 DEF OrderInv, RingInv
<1>8. OutputInv'
  <2> DEFINE u == Unread(q)
  <2>1. Unread(q)' = Append(u, e) /\ u \in Seq(Event) /\ \A p \in Rings : p # q => Unread(p)' = Unread(p)
    BY <1>a, <1>b, UnreadOfReserve, UnreadType
  <2>2. \A i \in 1 .. Len(Output), j \in 1 .. Len(u) : Before(Output[i].event, u[j])
    BY <1>1 DEF OrderInv, OutputInv
  <2> HIDE DEF u
  <2>3. /\ Len(Append(u, e)) = Len(u) + 1 /\ Len(u) \in Nat
        /\ \A i \in 1 .. Len(u) : Append(u, e)[i] = u[i]
        /\ Append(u, e)[Len(u) + 1] = e
    BY <1>1, <2>1, AppendProperties, LenProperties
  <2>4. \A i \in 1 .. Len(Output) : Before(Output[i].event, e)
    BY <1>a, <1>1 DEF OrderInv, OutputInv
  <2>5. ASSUME NEW i \in 1 .. Len(Output), NEW j \in 1 .. Len(Append(u, e))
        PROVE  Before(Output[i].event, Append(u, e)[j])
    <3>1. CASE j \in 1 .. Len(u)
      BY <2>2, <2>3, <3>1
    <3>2. CASE j = Len(u) + 1
      BY <2>3, <2>4, <3>2
    <3> QED BY <2>3, <2>5, <3>1, <3>2
  <2>6. ASSUME NEW i \in 1 .. Len(Output), NEW p \in Rings, NEW j \in 1 .. Len(Unread(p)')
        PROVE  Before(Output[i].event, Unread(p)'[j])
    <3>1. CASE p = q
      BY <2>1, <2>5, <2>6, <3>1
    <3>2. CASE p # q
      BY <2>1, <2>6, <3>2 DEF OrderInv, OutputInv
    <3> QED BY <3>1, <3>2
  <2>7. \A i \in 1 .. Len(Output), d \in CPUs :
          cpu'[d].pc = "reserve" => Before(Output[i].event, cpu'[d].event)
    BY <1>1 DEF OrderInv, OutputInv
  <2> HIDE DEF Unread
  <2> QED BY <1>2, <2>6, <2>7 DEF OrderInv, OutputInv
<1>9. BootInv'
  BY <1>1, <1>2 DEF OrderInv, BootInv
<1> QED BY <1>6, <1>7, <1>8, <1>9 DEF OrderInv

(* What is unread of a ring belongs to it.                                 *)
LEMMA UnreadRing ==
  ASSUME TypeOK, OrderInv, NEW q \in Rings, NEW i \in 1 .. Len(Unread(q))
  PROVE  Unread(q)[i].ring = q
<1>1. CASE q \in held
  <2> DEFINE s == ring[q]
  <2>1. s \in Seq(Event) /\ s # <<>> /\ Unread(q) = Tail(s)
    BY <1>1 DEF TypeOK, Unread
  <2>2. \A j \in 1 .. Len(s) : s[j].ring = q
    BY DEF OrderInv, PastInv
  <2> HIDE DEF s
  <2>3. i + 1 \in 1 .. Len(s) /\ Tail(s)[i] = s[i + 1]
    BY <2>1, HeadTail
  <2> QED BY <2>1, <2>2, <2>3
<1>2. CASE q \notin held
  BY <1>2 DEF OrderInv, PastInv, Unread
<1> QED BY <1>1, <1>2

LEMMA ReadOrder ==
  ASSUME TypeOK, OrderInv, NEW q \in Rings, Read(q)
  PROVE  OrderInv'
<1> DEFINE h == Head(ring[q])
           x == Tail(ring[q])
           r == Converted(h, boot')
<1>1. /\ ring[q] \in Seq(Event) /\ ring[q] # <<>> /\ Unread(q)' = x /\ Unread(q) = ring[q]
      /\ \A p \in Rings : p # q => Unread(p)' = Unread(p)
      /\ boot' \in (IF boot = NONE THEN BootTimes ELSE {boot})
      /\ Live /\ UNCHANGED <<ring, clock, cpu, session>>
  BY DEF Read, Readable, TypeOK, Unread, kernel
<1>2. /\ h \in Event /\ h = ring[q][1] /\ 1 \in 1 .. Len(ring[q])
      /\ \A i \in 1 .. Len(x) : i + 1 \in 1 .. Len(ring[q]) /\ x[i] = ring[q][i + 1]
  BY <1>1, HeadTail
<1>3. boot' \in Nat /\ boot' # NONE /\ Live'
  BY <1>1, TimeAssumption DEF TypeOK, Live
<1>4. r \in Report /\ r.event = h /\ r.date = boot' + h.time
  <2> HIDE DEF h
  <2> QED BY <1>2, <1>3 DEF Report, Converted, Event
<1>5. Output \in Seq(Report) /\ Output' = Append(Output, r)
  BY OutputType, OutputOfRead
<1> HIDE DEF h, x, r
<1>6. /\ Len(Output') = Len(Output) + 1 /\ Len(Output) \in Nat
      /\ \A i \in 1 .. Len(Output) : Output'[i] = Output[i]
      /\ Output'[Len(Output) + 1] = r
  BY <1>4, <1>5, AppendProperties, LenProperties
<1>7. \A i \in 1 .. Len(Output') :
        \/ i \in 1 .. Len(Output) /\ Output'[i] = Output[i]
        \/ i = Len(Output) + 1 /\ Output'[i] = r
  BY <1>6
<1>8. \A i \in 1 .. Len(x) : Before(h, x[i])
  BY <1>1, OrderedTail DEF OrderInv, RingInv, x, h
<1>9. PastInv'
  <2>1. \A i \in 1 .. Len(Output') : Output'[i].event.time <= clock
    <3>1. h.time <= clock
      BY <1>2 DEF OrderInv, PastInv
    <3> QED BY <1>4, <1>7, <3>1 DEF OrderInv, PastInv
  <2>2. \A c \in CPUs : cpu[c].pc # "idle" => cpu[c].event.cpu = c /\ cpu[c].event.time <= clock
    BY DEF OrderInv, PastInv
  <2>3. \A p \in Rings : \A i \in 1 .. Len(ring[p]) : ring[p][i].ring = p /\ ring[p][i].time <= clock
    BY DEF OrderInv, PastInv
  <2> QED BY <1>1, <2>1, <2>2, <2>3 DEF PastInv
<1>10. RingInv'
  BY <1>1 DEF OrderInv, RingInv
<1>11. OutputInv'
  <2>1. ASSUME NEW i \in 1 .. Len(Output'), NEW j \in 1 .. i - 1
        PROVE  Before(Output'[j].event, Output'[i].event)
    <3>1. j \in 1 .. Len(Output) /\ Output'[j] = Output[j]
      BY <1>6, <2>1
    <3>2. CASE i \in 1 .. Len(Output) /\ Output'[i] = Output[i]
      BY <2>1, <3>1, <3>2 DEF OrderInv, OutputInv
    <3>3. CASE Output'[i] = r
      BY <1>1, <1>2, <1>4, <3>1, <3>3 DEF OrderInv, OutputInv
    <3> QED BY <1>7, <3>2, <3>3
  <2>2. ASSUME NEW i \in 1 .. Len(Output'), NEW p \in Rings, NEW j \in 1 .. Len(Unread(p)')
        PROVE  Before(Output'[i].event, Unread(p)'[j])
    <3>1. CASE p = q
      <4>1. j \in 1 .. Len(x) /\ Unread(p)'[j] = x[j]
        BY <1>1, <2>2, <3>1
      <4>2. CASE i \in 1 .. Len(Output) /\ Output'[i] = Output[i]
        BY <1>1, <1>2, <4>1, <4>2 DEF OrderInv, OutputInv
      <4>3. CASE Output'[i] = r
        BY <1>4, <1>8, <4>1, <4>3
      <4> QED BY <1>7, <4>2, <4>3
    <3>2. CASE p # q
      <4>1. j \in 1 .. Len(Unread(p)) /\ Unread(p)'[j] = Unread(p)[j]
        BY <1>1, <2>2, <3>2
      <4>2. CASE i \in 1 .. Len(Output) /\ Output'[i] = Output[i]
        BY <4>1, <4>2 DEF OrderInv, OutputInv
      <4>3. CASE Output'[i] = r
        <5>1. Unread(p)[j].ring = p
          BY <4>1, UnreadRing
        <5>2. h.ring = q
          BY <1>1, <1>2 DEF OrderInv, PastInv
        <5> QED BY <1>4, <3>2, <4>1, <4>3, <5>1, <5>2 DEF Before
      <4> QED BY <1>7, <4>2, <4>3
    <3> QED BY <3>1, <3>2
  <2>3. ASSUME NEW i \in 1 .. Len(Output'), NEW c \in CPUs, cpu[c].pc = "reserve"
        PROVE  Before(Output'[i].event, cpu[c].event)
    <3>1. CASE i \in 1 .. Len(Output) /\ Output'[i] = Output[i]
      BY <2>3, <3>1 DEF OrderInv, OutputInv
    <3>2. CASE Output'[i] = r
      BY <1>2, <1>4, <2>3, <3>2 DEF OrderInv, RingInv
    <3> QED BY <1>7, <3>1, <3>2
  <2> QED BY <1>1, <2>1, <2>2, <2>3 DEF OutputInv
<1>12. BootInv'
  <2>1. ASSUME NEW i \in 1 .. Len(Output)
        PROVE  Output[i].date = boot' + Output[i].event.time
    <3>1. CASE boot = NONE
      <4>1. Len(Output) = 0
        BY <1>1, <3>1 DEF OrderInv, BootInv
      <4> QED BY <2>1, <4>1
    <3>2. CASE boot # NONE
      BY <1>1, <2>1, <3>2 DEF OrderInv, BootInv
    <3> QED BY <3>1, <3>2
  <2>2. \A i \in 1 .. Len(Output') : Output'[i].date = boot' + Output'[i].event.time
    BY <1>4, <1>7, <2>1
  <2> QED BY <1>3, <2>2 DEF BootInv
<1> QED BY <1>9, <1>10, <1>11, <1>12 DEF OrderInv

(* What a reader lets go of is not looked at any more.                     *)
LEMMA ReleaseOrder ==
  ASSUME TypeOK, OrderInv, NEW q \in Rings, Release(q)
  PROVE  OrderInv'
<1> DEFINE x == Tail(ring[q])
<1>1. /\ ring[q] \in Seq(Event) /\ ring[q] # <<>> /\ ring'[q] = x
      /\ \A p \in Rings : p # q => ring'[p] = ring[p]
      /\ q \in held /\ held' = held \ {q}
      /\ UNCHANGED <<clock, cpu, session, boot, chan, printed>>
  BY DEF Release, TypeOK
<1>2. \A i \in 1 .. Len(x) : i + 1 \in 1 .. Len(ring[q]) /\ x[i] = ring[q][i + 1]
  BY <1>1, HeadTail
<1>3. Output' = Output /\ (Live' <=> Live)
  BY <1>1 DEF Output, Live
<1>4. Ordered(x)
  BY <1>1, OrderedTail DEF OrderInv, RingInv
<1> HIDE DEF x
<1>5. PastInv'
  <2>1. \A p \in Rings : \A i \in 1 .. Len(ring'[p]) : ring'[p][i].ring = p /\ ring'[p][i].time <= clock
    <3>1. \A i \in 1 .. Len(x) : x[i].ring = q /\ x[i].time <= clock
      BY <1>2 DEF OrderInv, PastInv
    <3> QED BY <1>1, <3>1 DEF OrderInv, PastInv
  <2> QED BY <1>1, <1>3, <2>1 DEF OrderInv, PastInv
<1>6. RingInv'
  <2>1. \A p \in Rings : Ordered(ring'[p])
    BY <1>1, <1>4 DEF OrderInv, RingInv
  <2>2. ASSUME NEW c \in CPUs, cpu[c].pc = "reserve", NEW p \in Rings, NEW i \in 1 .. Len(ring'[p])
        PROVE  Before(ring'[p][i], cpu[c].event)
    <3>1. CASE p = q
      BY <1>1, <1>2, <2>2, <3>1 DEF OrderInv, RingInv
    <3>2. CASE p # q
      BY <1>1, <2>2, <3>2 DEF OrderInv, RingInv
    <3> QED BY <3>1, <3>2
  <2> QED BY <1>1, <2>1, <2>2 DEF RingInv
<1>7. OutputInv'
  <2>1. \A p \in Rings : Unread(p)' = Unread(p)
    BY UnreadOfRelease
  <2> QED BY <1>1, <1>3, <2>1 DEF OrderInv, OutputInv
<1>8. BootInv'
  BY <1>1, <1>3 DEF OrderInv, BootInv
<1> QED BY <1>5, <1>6, <1>7, <1>8 DEF OrderInv

(* A session that starts has no output, and of one that ends none is left. *)
LEMMA SwitchOnOrder ==
  ASSUME TypeOK, OrderInv, SwitchOn
  PROVE  OrderInv'
<1>1. UNCHANGED <<ring, held, cpu, clock, boot, chan, printed>> /\ ~Live /\ Live'
  BY DEF SwitchOn, Live
<1>2. Output' = <<>> /\ Len(Output') = 0 /\ boot' = NONE
  BY <1>1 DEF OrderInv, BootInv, Output
<1>3. PastInv' /\ RingInv' /\ OutputInv'
  BY <1>1, <1>2 DEF OrderInv, PastInv, RingInv, OutputInv
<1>4. BootInv'
  BY <1>1, <1>2 DEF BootInv
<1> QED BY <1>3, <1>4 DEF OrderInv

LEMMA GoneOrder ==
  ASSUME TypeOK, OrderInv, ProcessGone
  PROVE  OrderInv'
<1>1. /\ UNCHANGED <<ring, cpu, clock>> /\ ~Live' /\ boot' = NONE
      /\ chan' = <<>> /\ printed' = <<>> /\ held' = {}
  BY DEF ProcessGone, Live, kernel
<1>2. Output' = <<>> /\ Len(Output') = 0
  BY <1>1 DEF Output
<1>3. PastInv' /\ RingInv' /\ OutputInv'
  BY <1>1, <1>2 DEF OrderInv, PastInv, RingInv, OutputInv
<1>4. BootInv'
  BY <1>1, <1>2 DEF BootInv
<1> QED BY <1>3, <1>4 DEF OrderInv

LEMMA InitOrder == Init => OrderInv
<1> SUFFICES ASSUME Init PROVE OrderInv
  OBVIOUS
<1>1. /\ \A c \in CPUs : cpu[c].pc = "idle"
      /\ \A q \in Rings : Len(ring[q]) = 0
      /\ boot = NONE /\ chan = <<>> /\ printed = <<>> /\ held = {} /\ ~Live
  BY EmptySeq DEF Init, Live
<1>2. Output = <<>> /\ Len(Output) = 0
  BY DEF Init, Output
<1>3. PastInv /\ RingInv /\ OutputInv
  BY <1>1, <1>2 DEF PastInv, RingInv, OutputInv, Ordered
<1>4. BootInv
  BY <1>1, <1>2 DEF BootInv
<1> QED BY <1>3, <1>4 DEF OrderInv

LEMMA OrderStep ==
  ASSUME TypeOK, OrderInv, [Next]_vars
  PROVE  OrderInv'
BY StampOrder, ReserveOrder, QuietOrder, ReadOrder, ReleaseOrder, SwitchOnOrder, GoneOrder
  DEF Next, OnCPU, Exit, Kill

LEMMA OrderGivesDates == TypeOK /\ OrderInv => DatesInOrder
<1> SUFFICES ASSUME TypeOK, OrderInv,
                    NEW i \in 1 .. Len(Output), NEW j \in 1 .. i - 1,
                    Output[i].event.ring = Output[j].event.ring,
                    Output[i].event.cpu = Output[j].event.cpu
             PROVE  Output[j].date < Output[i].date
  BY DEF DatesInOrder, Output
<1>1. Output \in Seq(Report) /\ Len(Output) \in Nat /\ j \in 1 .. Len(Output)
  BY OutputType
<1>2. Output[i].event.time \in Nat /\ Output[j].event.time \in Nat
  <2>1. \A k \in 1 .. Len(Output) : Output[k] \in Report
    BY <1>1, ElementOfSeq
  <2>2. \A r \in Report : r.event.time \in Nat
    BY DEF Report, Event
  <2>3. Output[i] \in Report /\ Output[j] \in Report
    BY <1>1, <2>1
  <2> QED BY ONLY <2>2, <2>3
<1>3. PICK b \in Nat : \A k \in 1 .. Len(Output) : Output[k].date = b + Output[k].event.time
  BY DEF OrderInv, BootInv
<1>4. Output[j].event.time < Output[i].event.time
  BY DEF OrderInv, OutputInv, Before
<1>5. /\ Output[i].date = b + Output[i].event.time
      /\ Output[j].date = b + Output[j].event.time
  BY <1>1, <1>3
<1> QED BY <1>2, <1>4, <1>5, SMTT(60)

(* What is printed of one kind from one CPU has its dates in the order of  *)
(* the packets (monitor.rs:79, event.rs:13), whatever session, reader and  *)
(* CPUs do.                                                                *)
THEOREM DatesOrdered == Spec => []DatesInOrder
BY InitOrder, OrderStep, OrderGivesDates, TypeCorrect, PTL DEF Spec

-----------------------------------------------------------------------------
(* The stream *)

(* What is appended to two sequences is appended to the second.            *)
LEMMA AppendToConcat ==
  \A s, t \in Seq(Event), e \in Event : Append(s \o t, e) = s \o Append(t, e)
<1> SUFFICES ASSUME NEW s \in Seq(Event), NEW t \in Seq(Event), NEW e \in Event
             PROVE  Append(s \o t, e) = s \o Append(t, e)
  OBVIOUS
<1>1. <<e>> \in Seq(Event)
  OBVIOUS
<1>2. s \o t \in Seq(Event)
  BY ConcatProperties
<1>3. Append(s \o t, e) = (s \o t) \o <<e>>
  BY <1>2, AppendIsConcat
<1>4. Append(t, e) = t \o <<e>>
  BY AppendIsConcat
<1>5. (s \o t) \o <<e>> = s \o (t \o <<e>>)
  BY <1>1, ConcatAssociative
<1> QED BY <1>3, <1>4, <1>5

(* FromRing is a loop over the reports.                                    *)
LEMMA FromRingLoop ==
  ASSUME NEW q \in Rings, NEW s \in Seq(Report)
  PROVE  \E f \in [0 .. Len(s) -> Seq(Event)] :
           /\ f[0] = <<>>
           /\ \A k \in 1 .. Len(s) : f[k] = Queued(f[k - 1], q, s[k])
           /\ FromRing(q, s) = f[Len(s)]
<1> DEFINE n == Len(s)
           S == Seq(Event)
           G == [k \in 1 .. n |-> [x \in S |-> Queued(x, q, s[k])]]
<1>1. n \in Nat /\ <<>> \in S /\ \A k \in 1 .. n : s[k] \in Report
  BY LenProperties, ElementOfSeq, EmptySeq
<1>2. ASSUME NEW x \in S, NEW k \in 1 .. n PROVE Queued(x, q, s[k]) \in S
  <2>1. s[k].event \in Event
    BY <1>1 DEF Report
  <2> QED BY <2>1, AppendProperties DEF Queued
<1> HIDE DEF n
<1>3. PICK f \in [0 .. n -> S] : Loops(f, <<>>, n, G)
  <2>1. G \in [1 .. n -> [S -> S]]
    BY <1>2
  <2> HIDE DEF G, S
  <2> QED BY <1>1, <2>1, LoopRecursion
<1>4. f = [k \in 0 .. n |-> IF k = 0 THEN <<>> ELSE Queued(f[k - 1], q, s[k])]
  <2>1. ASSUME NEW k \in 1 .. n PROVE G[k][f[k - 1]] = Queued(f[k - 1], q, s[k])
    <3>1. f[k - 1] \in S
      BY <1>1
    <3> QED BY <3>1
  <2>2. f = [k \in 0 .. n |-> IF k = 0 THEN <<>> ELSE G[k][f[k - 1]]]
    <3> HIDE DEF G
    <3> QED BY <1>3 DEF Loops
  <2>3. \A k \in 0 .. n : k # 0 => k \in 1 .. n
    BY <1>1
  <2> HIDE DEF G
  <2> QED BY <2>1, <2>2, <2>3
<1> DEFINE g == CHOOSE h : h = [k \in 0 .. n |->
                  IF k = 0 THEN <<>> ELSE Queued(h[k - 1], q, s[k])]
<1>5. g = [k \in 0 .. n |-> IF k = 0 THEN <<>> ELSE Queued(g[k - 1], q, s[k])]
  BY <1>4
<1>6. FromRing(q, s) = g[n]
  BY DEF FromRing, n
<1> HIDE DEF g, G
<1>7. g[0] = <<>> /\ \A k \in 1 .. n : g[k] = Queued(g[k - 1], q, s[k])
  BY <1>1, <1>5
<1>8. \A k \in 0 .. n : g[k] \in S
  <2> DEFINE T == {k \in 0 .. n : g[k] \in S}
  <2>1. 0 \in T
    <3>1. 0 \in 0 .. n /\ g[0] \in S
      BY <1>1, <1>7
    <3> HIDE DEF S
    <3> QED BY <3>1
  <2>2. ASSUME NEW k \in 0 .. n - 1, k \in T PROVE k + 1 \in T
    <3>1. k + 1 \in 1 .. n /\ (k + 1) - 1 = k
      BY <1>1
    <3>2. g[k + 1] = Queued(g[k], q, s[k + 1])
      BY <1>7, <3>1
    <3>3. Queued(g[k], q, s[k + 1]) \in S
      BY <1>2, <2>2, <3>1
    <3> QED BY <3>1, <3>2, <3>3
  <2> HIDE DEF T
  <2>3. 0 .. n \subseteq T
    BY <1>1, <2>1, <2>2, LoopInduction
  <2> QED BY <2>3 DEF T
<1>9. g \in [0 .. n -> S]
  BY <1>5, <1>8
<1> QED BY <1>6, <1>7, <1>9 DEF n

(* So it gives events, of nothing none...                                  *)
LEMMA FromRingType ==
  ASSUME NEW q \in Rings, NEW s \in Seq(Report)
  PROVE  FromRing(q, s) \in Seq(Event) /\ (s = <<>> => FromRing(q, s) = <<>>)
<1>1. PICK f \in [0 .. Len(s) -> Seq(Event)] :
        f[0] = <<>> /\ FromRing(q, s) = f[Len(s)]
  BY FromRingLoop
<1>2. Len(s) \in Nat /\ (s = <<>> => Len(s) = 0)
  BY LenProperties, EmptySeq
<1> QED BY <1>1, <1>2

(* ... of one report more what that one adds...                            *)
LEMMA FromRingAppend ==
  ASSUME NEW q \in Rings, NEW s \in Seq(Report), NEW r \in Report
  PROVE  FromRing(q, Append(s, r)) = Queued(FromRing(q, s), q, r)
<1> DEFINE n == Len(s)
           t == Append(s, r)
<1>1. /\ t \in Seq(Report) /\ Len(t) = n + 1 /\ n \in Nat
      /\ \A k \in 1 .. n : t[k] = s[k]
      /\ t[n + 1] = r
  BY AppendProperties, LenProperties
<1>2. PICK f \in [0 .. n -> Seq(Event)] :
        /\ f[0] = <<>> /\ FromRing(q, s) = f[n]
        /\ \A k \in 1 .. n : f[k] = Queued(f[k - 1], q, s[k])
  BY FromRingLoop
<1> HIDE DEF t, n
<1>3. PICK g \in [0 .. Len(t) -> Seq(Event)] :
        /\ g[0] = <<>> /\ FromRing(q, t) = g[Len(t)]
        /\ \A k \in 1 .. Len(t) : g[k] = Queued(g[k - 1], q, t[k])
  BY <1>1, FromRingLoop
<1> DEFINE T == {k \in 0 .. n : f[k] = g[k]}
<1>4. 0 \in T
  BY <1>1, <1>2, <1>3
<1>5. ASSUME NEW k \in 0 .. n - 1, k \in T PROVE k + 1 \in T
  <2>1. k + 1 \in 1 .. n /\ k + 1 \in 1 .. n + 1 /\ (k + 1) - 1 = k
    BY <1>1
  <2>2. f[k + 1] = Queued(f[k], q, s[k + 1]) /\ g[k + 1] = Queued(g[k], q, t[k + 1])
    BY <1>1, <1>2, <1>3, <2>1
  <2> QED BY <1>1, <1>5, <2>1, <2>2
<1> HIDE DEF T
<1>6. 0 .. n \subseteq T
  BY <1>1, <1>4, <1>5, LoopInduction
<1>7. f[n] = g[n]
  BY <1>1, <1>6 DEF T
<1>8. g[n + 1] = Queued(g[n], q, r)
  <2>1. n + 1 \in 1 .. n + 1 /\ (n + 1) - 1 = n
    BY <1>1
  <2> QED BY <1>1, <1>3, <2>1
<1> QED BY <1>1, <1>2, <1>3, <1>7, <1>8 DEF t

(* ... and of reports what the first gives, then what the rest gives.      *)
LEMMA FromRingTail ==
  ASSUME NEW q \in Rings, NEW s \in Seq(Report), s # <<>>
  PROVE  FromRing(q, s) = Queued(<<>>, q, Head(s)) \o FromRing(q, Tail(s))
<1> DEFINE n == Len(s) - 1
           t == Tail(s)
           h == Head(s)
<1>1. /\ t \in Seq(Report) /\ Len(t) = n /\ n \in Nat /\ Len(s) = n + 1
      /\ h \in Report /\ h = s[1]
      /\ \A k \in 1 .. n : t[k] = s[k + 1]
  BY HeadTail
<1> HIDE DEF t, h, n
<1>2. PICK f \in [0 .. n + 1 -> Seq(Event)] :
        /\ f[0] = <<>> /\ FromRing(q, s) = f[n + 1]
        /\ \A k \in 1 .. n + 1 : f[k] = Queued(f[k - 1], q, s[k])
  BY <1>1, FromRingLoop
<1>3. PICK g \in [0 .. n -> Seq(Event)] :
        /\ g[0] = <<>> /\ FromRing(q, t) = g[n]
        /\ \A k \in 1 .. n : g[k] = Queued(g[k - 1], q, t[k])
  BY <1>1, FromRingLoop
<1>4. PICK first \in Seq(Event) : first = Queued(<<>>, q, h)
  <2>1. h.event \in Event /\ <<>> \in Seq(Event)
    BY <1>1, EmptySeq DEF Report
  <2> QED BY <2>1, AppendProperties DEF Queued
<1>5. \A x \in Seq(Event), e \in Event : Append(first \o x, e) = first \o Append(x, e)
  BY <1>4, AppendToConcat
<1> DEFINE T == {k \in 0 .. n : f[k + 1] = first \o g[k]}
<1>6. 0 \in T
  <2>1. 1 \in 1 .. n + 1 /\ 0 + 1 = 1 /\ 1 - 1 = 0 /\ 0 \in 0 .. n
    BY <1>1
  <2>2. f[1] = Queued(f[0], q, s[1])
    BY <1>2, <2>1
  <2>3. f[1] = first
    BY <1>1, <1>2, <1>4, <2>2
  <2>4. first \o g[0] = first
    BY <1>3, <1>4, ConcatEmptySeq
  <2> QED BY <2>1, <2>3, <2>4
<1>7. ASSUME NEW k \in 0 .. n - 1, k \in T PROVE k + 1 \in T
  <2>1. /\ k + 1 \in 1 .. n /\ k + 1 \in 0 .. n /\ (k + 1) - 1 = k
        /\ (k + 1) + 1 \in 1 .. n + 1 /\ ((k + 1) + 1) - 1 = k + 1
    BY <1>1
  <2>2. g[k + 1] = Queued(g[k], q, t[k + 1])
    BY <1>3, <2>1
  <2>3. f[(k + 1) + 1] = Queued(f[k + 1], q, s[(k + 1) + 1])
    BY <1>2, <2>1
  <2>4. s[(k + 1) + 1] = t[k + 1] /\ t[k + 1] \in Report
    BY <1>1, <2>1, ElementOfSeq
  <2> DEFINE r == t[k + 1]
  <2>5. Queued(first \o g[k], q, r) = first \o Queued(g[k], q, r)
    <3>1. g[k] \in Seq(Event) /\ r.event \in Event
      BY <1>1, <1>3, <2>4 DEF Report
    <3>2. Append(first \o g[k], r.event) = first \o Append(g[k], r.event)
      BY <1>5, <3>1
    <3> QED BY <3>2 DEF Queued
  <2> HIDE DEF r
  <2>6. f[k + 1] = first \o g[k]
    BY <1>7
  <2>7. f[(k + 1) + 1] = first \o g[k + 1]
    BY <2>2, <2>3, <2>4, <2>5, <2>6 DEF r
  <2> QED BY <2>1, <2>7
<1> HIDE DEF T
<1>8. 0 .. n \subseteq T
  BY <1>1, <1>6, <1>7, LoopInduction
<1>9. f[n + 1] = first \o g[n]
  BY <1>1, <1>8 DEF T
<1> QED BY <1>2, <1>3, <1>4, <1>9 DEF t, h

(* What is shown and what is pending is made of events.                    *)
LEMMA PendingType ==
  ASSUME TypeOK, NEW q \in Rings
  PROVE  /\ FromRing(q, chan) \in Seq(Event) /\ Unread(q) \in Seq(Event)
         /\ PendingOf(q) \in Seq(Event) /\ ShownOf(q) \in Seq(Event)
<1>1. FromRing(q, chan) \in Seq(Event) /\ ShownOf(q) \in Seq(Event)
  BY FromRingType DEF TypeOK, ShownOf
<1>2. Unread(q) \in Seq(Event)
  BY UnreadType
<1> QED BY <1>1, <1>2, ConcatProperties DEF PendingOf

(* Inductive strengthening: the record that a reader holds is the last of  *)
(* its ring that the session has shown or sent on.                         *)
Way(q) == ShownOf(q) \o FromRing(q, chan)

HeldInv == \A q \in held : Way(q) # <<>> /\ Way(q)[Len(Way(q))] = Head(ring[q])

LEMMA HeadOfReserve ==
  ASSUME TypeOK, NEW c \in CPUs, Reserve(c), NEW q \in held
  PROVE  Head(ring'[q]) = Head(ring[q])
<1> DEFINE s == ring[q]
           e == cpu[c].event
<1>1. s \in Seq(Event) /\ s # <<>> /\ e \in Event
  BY DEF TypeOK, Reserve
<1>2. ring'[q] = s \/ ring'[q] = Append(s, e)
  BY DEF TypeOK, Reserve
<1> HIDE DEF s, e
<1>3. Head(Append(s, e)) = Head(s)
  BY <1>1, SMTT(60)
<1> QED BY <1>2, <1>3 DEF s

(* What is printed moves on its way...                                     *)
LEMMA PrintMoves ==
  ASSUME TypeOK, PrintEvent
  PROVE  /\ \A q \in Rings : Way(q)' = Way(q) /\ Unread(q)' = Unread(q)
         /\ \E e \in Event : \E q \in Rings :
              /\ FromRing(q, chan) = <<e>> \o FromRing(q, chan)'
              /\ ShownOf(q)' = Append(ShownOf(q), e)
              /\ \A p \in Rings : p # q =>
                   FromRing(p, chan)' = FromRing(p, chan) /\ ShownOf(p)' = ShownOf(p)
<1>1. PICK h \in Report : h = Head(chan)
  BY HeadTail DEF PrintEvent, TypeOK
<1>2. /\ chan \in Seq(Report) /\ chan # <<>> /\ chan' = Tail(chan)
      /\ printed \in Seq(Report) /\ printed' = Append(printed, h)
      /\ UNCHANGED <<ring, held>>
  BY <1>1 DEF PrintEvent, TypeOK, kernel
<1>3. chan' \in Seq(Report)
  BY <1>2, HeadTail
<1>4. PICK e \in Event : e = h.event
  BY DEF Report
<1>5. PICK q \in Rings : q = e.ring
  BY DEF Event
<1>6. \A p \in Rings :
        FromRing(p, chan) = Queued(<<>>, p, h) \o FromRing(p, chan)'
  BY <1>1, <1>2, FromRingTail
<1>7. \A p \in Rings : ShownOf(p)' = Queued(ShownOf(p), p, h)
  BY <1>2, FromRingAppend DEF ShownOf
<1>8. \A p \in Rings : FromRing(p, chan)' \in Seq(Event) /\ ShownOf(p) \in Seq(Event)
  BY <1>2, <1>3, FromRingType DEF ShownOf
<1>9. FromRing(q, chan) = <<e>> \o FromRing(q, chan)' /\ ShownOf(q)' = Append(ShownOf(q), e)
  BY <1>4, <1>5, <1>6, <1>7 DEF Queued
<1>10. ASSUME NEW p \in Rings, p # q
       PROVE  FromRing(p, chan)' = FromRing(p, chan) /\ ShownOf(p)' = ShownOf(p)
  <2>1. FromRing(p, chan) = <<>> \o FromRing(p, chan)' /\ ShownOf(p)' = ShownOf(p)
    BY <1>4, <1>5, <1>6, <1>7, <1>10 DEF Queued
  <2> QED BY <1>8, <2>1, ConcatEmptySeq
<1>11. Way(q)' = Way(q)
  <2> DEFINE s == ShownOf(q)
             c == FromRing(q, chan)'
  <2>1. s \in Seq(Event) /\ c \in Seq(Event) /\ <<e>> \in Seq(Event)
    BY <1>8
  <2>2. Way(q) = s \o (<<e>> \o c) /\ Way(q)' = Append(s, e) \o c
    BY <1>9 DEF Way
  <2> HIDE DEF s, c
  <2>3. Append(s, e) = s \o <<e>>
    BY <2>1, AppendIsConcat
  <2> QED BY <2>1, <2>2, <2>3, ConcatAssociative
<1>12. \A p \in Rings : Way(p)' = Way(p)
  BY <1>10, <1>11 DEF Way
<1>13. \A p \in Rings : Unread(p)' = Unread(p)
  BY <1>2 DEF Unread
<1> QED BY <1>9, <1>10, <1>12, <1>13

(* ... and what is read comes to the end of it.                            *)
LEMMA ReadMoves ==
  ASSUME TypeOK, OrderInv, NEW q \in Rings, Read(q)
  PROVE  /\ Head(ring[q]) \in Event
         /\ FromRing(q, chan)' = Append(FromRing(q, chan), Head(ring[q]))
         /\ Unread(q) = <<Head(ring[q])>> \o Unread(q)'
         /\ Unread(q)' \in Seq(Event)
         /\ \A p \in Rings : p # q =>
              FromRing(p, chan)' = FromRing(p, chan) /\ Unread(p)' = Unread(p)
         /\ \A p \in Rings : ShownOf(p)' = ShownOf(p)
<1> DEFINE s == ring[q]
           h == Head(s)
           r == Converted(h, boot')
<1>1. /\ s \in Seq(Event) /\ s # <<>> /\ Unread(q) = s /\ Unread(q)' = Tail(s)
      /\ \A p \in Rings : p # q => Unread(p)' = Unread(p)
      /\ chan \in Seq(Report) /\ chan' = Append(chan, r)
      /\ boot' \in (IF boot = NONE THEN BootTimes ELSE {boot})
      /\ UNCHANGED <<session, printed>>
  BY DEF Read, Readable, TypeOK, Unread, kernel
<1>2. h = s[1] /\ 1 \in 1 .. Len(s)
  BY <1>1, HeadTail
<1>3. h.ring = q
  BY <1>2 DEF OrderInv, PastInv
<1> HIDE DEF s
<1>4. h \in Event /\ Tail(s) \in Seq(Event) /\ s = <<h>> \o Tail(s)
  BY <1>1, HeadTail, SplitFirst
<1>5. boot' \in Nat
  BY <1>1, TimeAssumption DEF TypeOK
<1>6. r \in Report /\ r.event = h
  <2> HIDE DEF h
  <2> QED BY <1>4, <1>5 DEF Report, Converted, Event
<1> HIDE DEF h, r
<1>7. \A p \in Rings : FromRing(p, chan)' = Queued(FromRing(p, chan), p, r)
  BY <1>1, <1>6, FromRingAppend
<1>8. \A p \in Rings : ShownOf(p)' = ShownOf(p)
  BY <1>1 DEF ShownOf
<1>9. FromRing(q, chan)' = Append(FromRing(q, chan), h)
  BY <1>3, <1>6, <1>7 DEF Queued
<1>10. \A p \in Rings : p # q => FromRing(p, chan)' = FromRing(p, chan)
  BY <1>3, <1>6, <1>7 DEF Queued
<1> QED BY <1>1, <1>4, <1>8, <1>9, <1>10 DEF h, s

LEMMA LastOfAppend ==
  \A s \in Seq(Event), t \in Seq(Event), e \in Event :
    /\ s \o Append(t, e) # <<>>
    /\ (s \o Append(t, e))[Len(s \o Append(t, e))] = e
<1> SUFFICES ASSUME NEW s \in Seq(Event), NEW t \in Seq(Event), NEW e \in Event
             PROVE  /\ s \o Append(t, e) # <<>>
                    /\ (s \o Append(t, e))[Len(s \o Append(t, e))] = e
  OBVIOUS
<1>1. s \o Append(t, e) = Append(s \o t, e)
  BY AppendToConcat
<1>2. s \o t \in Seq(Event)
  BY ConcatProperties
<1> QED BY <1>1, <1>2, AppendProperties, EmptySeq, LenProperties

LEMMA HeldStep ==
  ASSUME TypeOK, OrderInv, HeldInv, [Next]_vars
  PROVE  HeldInv'
<1>1. CASE \E q \in Rings : Read(q)
  <2>1. PICK q \in Rings : Read(q)
    BY <1>1
  <2>2. held' = held \cup {q} /\ ring' = ring
    BY <2>1 DEF Read, kernel
  <2>3. Way(q)' # <<>> /\ Way(q)'[Len(Way(q)')] = Head(ring[q])
    <3>1. Way(q)' = ShownOf(q) \o Append(FromRing(q, chan), Head(ring[q]))
      BY <2>1, ReadMoves DEF Way
    <3>2. /\ ShownOf(q) \in Seq(Event) /\ FromRing(q, chan) \in Seq(Event)
          /\ Head(ring[q]) \in Event
      BY <2>1, PendingType, ReadMoves
    <3> QED BY <3>1, <3>2, LastOfAppend
  <2>4. \A p \in Rings : p # q => Way(p)' = Way(p)
    BY <2>1, ReadMoves DEF Way
  <2> HIDE DEF Way
  <2>5. held \subseteq Rings
    BY DEF TypeOK
  <2> QED BY <2>2, <2>3, <2>4, <2>5 DEF HeldInv
<1>2. CASE PrintEvent
  <2>1. held' = held /\ ring' = ring /\ held \subseteq Rings
    BY <1>2 DEF PrintEvent, kernel, TypeOK
  <2>2. \A q \in Rings : Way(q)' = Way(q)
    BY <1>2, PrintMoves
  <2> QED BY <2>1, <2>2 DEF HeldInv
<1>3. CASE \E q \in Rings : Release(q)
  <2>1. PICK q \in Rings : Release(q)
    BY <1>3
  <2>2. /\ held' \subseteq held /\ q \notin held' /\ held \subseteq Rings
        /\ \A p \in Rings : p # q => ring'[p] = ring[p]
        /\ UNCHANGED <<chan, printed>>
    BY <2>1 DEF Release, TypeOK
  <2> QED BY <2>2 DEF HeldInv, Way, ShownOf
<1>4. CASE \E c \in CPUs : Reserve(c)
  <2>1. PICK c \in CPUs : Reserve(c)
    BY <1>4
  <2>2. UNCHANGED <<held, chan, printed>>
    BY <2>1 DEF Reserve, process
  <2>3. \A q \in held : Head(ring'[q]) = Head(ring[q])
    BY <2>1, HeadOfReserve
  <2> QED BY <2>2, <2>3 DEF HeldInv, Way, ShownOf
<1>5. CASE Exit \/ Kill
  BY <1>5 DEF Exit, Kill, ProcessGone, HeldInv
<1>6. CASE \/ \E c \in CPUs : Submit(c) \/ FindFull(c) \/ Disable(c) \/ \E q \in Rings : Stamp(c, q)
           \/ OpenRings \/ SwitchOn \/ CtrlC \/ UNCHANGED vars
  <2>1. UNCHANGED <<ring, held, chan, printed>>
    BY <1>6 DEF Submit, FindFull, Disable, Stamp, OpenRings, SwitchOn, CtrlC, vars, kernel, process
  <2> QED BY <2>1 DEF HeldInv, Way, ShownOf
<1> QED BY <1>1, <1>2, <1>3, <1>4, <1>5, <1>6 DEF Next, OnCPU

-----------------------------------------------------------------------------
(* A record that a CPU reserves is one event more in its queue.            *)
LEMMA ReserveStores ==
  ASSUME TypeOK, NEW c \in CPUs, Reserve(c)
  PROVE  Stream!Next
<1> DEFINE pending == [p \in Rings |-> PendingOf(p)]
<1>1. PICK e \in Event : e = cpu[c].event
  BY UnreadOfReserve
<1>2. PICK q \in Rings : q = e.ring
  BY DEF Event
<1>3. UNCHANGED <<chan, printed, session>>
  BY DEF Reserve, process
<1>4. PendingOf(q)' = Append(PendingOf(q), e)
  <2>1. FromRing(q, chan) \in Seq(Event) /\ Unread(q) \in Seq(Event)
    BY PendingType
  <2>2. Unread(q)' = Append(Unread(q), e)
    BY <1>1, <1>2, UnreadOfReserve
  <2>3. PendingOf(q)' = FromRing(q, chan) \o Append(Unread(q), e)
    BY <1>3, <2>2 DEF PendingOf
  <2> QED BY <2>1, <2>3, AppendToConcat DEF PendingOf
<1>5. \A p \in Rings : p # q => PendingOf(p)' = PendingOf(p)
  BY <1>1, <1>2, <1>3, UnreadOfReserve DEF PendingOf
<1>6. pending' = [pending EXCEPT ![q] = Append(@, e)]
  <2>1. pending' = [p \in Rings |-> PendingOf(p)']
    OBVIOUS
  <2> HIDE DEF PendingOf
  <2> QED BY <1>4, <1>5, <2>1
<1>7. (Live' <=> Live) /\ [p \in Rings |-> ShownOf(p)]' = [p \in Rings |-> ShownOf(p)]
  BY <1>3 DEF Live, ShownOf
<1> HIDE DEF PendingOf
<1> QED BY <1>6, <1>7 DEF Stream!Next, Stream!Store

(* A record that a reader takes stays where it is in its queue.            *)
LEMMA ReadStutters ==
  ASSUME TypeOK, OrderInv, NEW q \in Rings, Read(q)
  PROVE  UNCHANGED Stream!vars
<1> DEFINE h == Head(ring[q])
           x == Unread(q)'
           c == FromRing(q, chan)
<1>1. /\ h \in Event /\ x \in Seq(Event) /\ c \in Seq(Event)
      /\ PendingOf(q) = c \o (<<h>> \o x)
      /\ PendingOf(q)' = Append(c, h) \o x
  BY PendingType, ReadMoves DEF PendingOf
<1>2. \A p \in Rings : p # q => PendingOf(p)' = PendingOf(p)
  BY ReadMoves DEF PendingOf
<1>3. \A p \in Rings : ShownOf(p)' = ShownOf(p)
  BY ReadMoves
<1> HIDE DEF h, x, c
<1>4. PendingOf(q)' = PendingOf(q)
  <2>1. Append(c, h) = c \o <<h>> /\ <<h>> \in Seq(Event)
    BY <1>1, AppendIsConcat
  <2> QED BY <1>1, <2>1, ConcatAssociative
<1>5. Live' <=> Live
  BY DEF Read, Live
<1>6. /\ [p \in Rings |-> PendingOf(p)]' = [p \in Rings |-> PendingOf(p)]
      /\ [p \in Rings |-> ShownOf(p)]' = [p \in Rings |-> ShownOf(p)]
  <2> HIDE DEF PendingOf, ShownOf
  <2>1. /\ [p \in Rings |-> PendingOf(p)]' = [p \in Rings |-> PendingOf(p)']
        /\ [p \in Rings |-> ShownOf(p)]' = [p \in Rings |-> ShownOf(p)']
    OBVIOUS
  <2> QED BY <1>2, <1>3, <1>4, <2>1
<1> QED BY <1>5, <1>6 DEF Stream!vars

(* What is printed was at the front of its queue.                          *)
LEMMA PrintShows ==
  ASSUME TypeOK, PrintEvent
  PROVE  Stream!Next
<1> DEFINE pending == [p \in Rings |-> PendingOf(p)]
           shown == [p \in Rings |-> ShownOf(p)]
<1>1. PICK e \in Event, q \in Rings :
        /\ FromRing(q, chan) = <<e>> \o FromRing(q, chan)'
        /\ ShownOf(q)' = Append(ShownOf(q), e)
        /\ \A p \in Rings : p # q =>
             FromRing(p, chan)' = FromRing(p, chan) /\ ShownOf(p)' = ShownOf(p)
  BY PrintMoves
<1>2. \A p \in Rings : Unread(p)' = Unread(p)
  BY PrintMoves
<1>3. /\ PendingOf(q)' \in Seq(Event) /\ FromRing(q, chan)' \in Seq(Event)
      /\ Unread(q) \in Seq(Event)
  <2>1. TypeOK'
    BY PrintTypeOK
  <2>2. chan' \in Seq(Report)
    BY <2>1 DEF TypeOK
  <2>3. FromRing(q, chan)' \in Seq(Event) /\ Unread(q) \in Seq(Event)
    BY <2>2, FromRingType, UnreadType
  <2> QED BY <1>2, <2>3, ConcatProperties DEF PendingOf
<1>4. PendingOf(q) = <<e>> \o PendingOf(q)'
  <2> DEFINE c == FromRing(q, chan)'
             u == Unread(q)
  <2>1. c \in Seq(Event) /\ u \in Seq(Event)
    BY <1>3
  <2>2. PendingOf(q) = (<<e>> \o c) \o u /\ PendingOf(q)' = c \o u
    BY <1>1, <1>2 DEF PendingOf
  <2>3. <<e>> \in Seq(Event)
    OBVIOUS
  <2> HIDE DEF c, u
  <2> QED BY <2>1, <2>2, <2>3, ConcatAssociative
<1>5. \A p \in Rings : p # q => PendingOf(p)' = PendingOf(p)
  BY <1>1, <1>2 DEF PendingOf
<1>6. /\ PendingOf(q) # <<>> /\ Head(PendingOf(q)) = e
      /\ Tail(PendingOf(q)) = PendingOf(q)'
  <2> DEFINE t == PendingOf(q)'
  <2> HIDE DEF t
  <2>1. t \in Seq(Event) /\ PendingOf(q) = <<e>> \o t
    BY <1>3, <1>4 DEF t
  <2>2. <<e>> \o t # <<>> /\ Head(<<e>> \o t) = e /\ Tail(<<e>> \o t) = t
    BY <2>1
  <2> QED BY <2>1, <2>2 DEF t
<1>7. /\ pending' = [pending EXCEPT ![q] = Tail(@)]
      /\ shown' = [shown EXCEPT ![q] = Append(@, e)]
  <2>1. /\ pending' = [p \in Rings |-> PendingOf(p)']
        /\ shown' = [p \in Rings |-> ShownOf(p)']
    OBVIOUS
  <2> HIDE DEF PendingOf, ShownOf
  <2> QED BY <1>1, <1>5, <1>6, <2>1
<1>8. Live /\ (Live' <=> Live)
  BY DEF PrintEvent, Live
<1>9. pending[q] = PendingOf(q)
  OBVIOUS
<1> HIDE DEF pending, shown
<1> QED BY <1>6, <1>7, <1>8, <1>9 DEF Stream!Next, Stream!Show, pending, shown

(* A session begins with nothing shown...                                  *)
LEMMA SwitchOnBegins ==
  ASSUME SwitchOn
  PROVE  Stream!Next
<1>1. UNCHANGED <<ring, held, chan, printed>> /\ ~Live /\ Live'
  BY DEF SwitchOn, Live
<1>2. /\ [p \in Rings |-> PendingOf(p)]' = [p \in Rings |-> PendingOf(p)]
      /\ [p \in Rings |-> ShownOf(p)]' = [p \in Rings |-> ShownOf(p)]
  BY <1>1 DEF PendingOf, ShownOf, Unread
<1> HIDE DEF PendingOf, ShownOf
<1> QED BY <1>1, <1>2 DEF Stream!Next, Stream!Begin

(* ... and one that ends leaves what is in the rings: of each what was not *)
(* read, and the record held, be it still in the channel or printed.       *)
LEMMA SuffixOfConcat ==
  \A c \in Seq(Event), s \in Seq(Event) :
    \E lost \in 0 .. Len(c \o s) : s = SubSeq(c \o s, lost + 1, Len(c \o s))
<1> SUFFICES ASSUME NEW c \in Seq(Event), NEW s \in Seq(Event)
             PROVE  \E lost \in 0 .. Len(c \o s) : s = SubSeq(c \o s, lost + 1, Len(c \o s))
  OBVIOUS
<1>1. Len(c) \in Nat /\ Len(s) \in Nat /\ Len(c \o s) = Len(c) + Len(s)
  BY ConcatProperties, LenProperties
<1>2. SubSeq(c \o s, Len(c) + 1, Len(c) + Len(s)) = s
  <2>1. CASE Len(s) = 0
    BY <1>1, <2>1, SubSeqEmpty, EmptySeq
  <2>2. CASE Len(s) # 0
    <3>1. /\ Len(c) + 1 \in Len(c) + 1 .. Len(c) + Len(s)
          /\ Len(c) + Len(s) \in Len(c) + 1 .. Len(c) + Len(s)
          /\ (Len(c) + 1) - Len(c) = 1 /\ (Len(c) + Len(s)) - Len(c) = Len(s)
      BY <1>1, <2>2
    <3>2. SubSeq(c \o s, Len(c) + 1, Len(c) + Len(s)) = SubSeq(s, 1, Len(s))
      BY <3>1, SubSeqOfConcat2
    <3> QED BY <3>2, SubSeqFull
  <2> QED BY <2>1, <2>2
<1>3. Len(c) \in 0 .. Len(c \o s)
  BY <1>1
<1> QED BY <1>1, <1>2, <1>3

LEMMA SplitLast ==
  \A s \in Seq(Event) : s # <<>> =>
    /\ s[Len(s)] \in Event
    /\ \E t \in Seq(Event) : s = t \o <<s[Len(s)]>>
<1> SUFFICES ASSUME NEW s \in Seq(Event), s # <<>>
             PROVE  /\ s[Len(s)] \in Event
                    /\ \E t \in Seq(Event) : s = t \o <<s[Len(s)]>>
  OBVIOUS
<1>1. Len(s) \in Nat \ {0} /\ Len(s) \in 1 .. Len(s)
  BY HeadTail
<1>2. s[Len(s)] \in Event
  BY <1>1, ElementOfSeq
<1> DEFINE t == SubSeq(s, 1, Len(s) - 1)
<1>3. t \in Seq(Event) /\ s = Append(t, s[Len(s)])
  BY <1>1, SMTT(60)
<1>4. Append(t, s[Len(s)]) = t \o <<s[Len(s)]>>
  <2> HIDE DEF t
  <2> QED BY <1>2, <1>3, AppendIsConcat
<1> HIDE DEF t
<1> QED BY <1>2, <1>3, <1>4

(* The queue before and after: some are lost, or one comes back.           *)
LEMMA GoneLeaves ==
  ASSUME TypeOK, HeldInv, NEW q \in Rings
  PROVE  \/ \E lost \in 0 .. Len(PendingOf(q)) :
              ring[q] = SubSeq(PendingOf(q), lost + 1, Len(PendingOf(q)))
         \/ /\ ShownOf(q) # <<>>
            /\ ring[q] = <<ShownOf(q)[Len(ShownOf(q))]>> \o PendingOf(q)
<1> DEFINE c == FromRing(q, chan)
           u == Unread(q)
           s == ShownOf(q)
           h == Head(ring[q])
           k == PendingOf(q)
<1>1. /\ c \in Seq(Event) /\ u \in Seq(Event) /\ s \in Seq(Event)
      /\ k = c \o u
      /\ q \in held => ring[q] = <<h>> \o u /\ s \o c # <<>> /\ (s \o c)[Len(s \o c)] = h
      /\ q \notin held => ring[q] = u
  BY PendingType, UnreadType DEF PendingOf, HeldInv, Way
<1> HIDE DEF c, u, s, h, k
<1>2. CASE q \notin held
  <2>1. \E lost \in 0 .. Len(k) : u = SubSeq(k, lost + 1, Len(k))
    BY <1>1, SuffixOfConcat
  <2> QED BY <1>1, <1>2, <2>1 DEF k
<1>3. CASE q \in held /\ c = <<>>
  <2>1. s \o c = s /\ c \o u = u
    BY <1>1, <1>3, ConcatEmptySeq
  <2> QED BY <1>1, <1>3, <2>1 DEF s, k
<1>4. CASE q \in held /\ c # <<>>
  <2>1. Len(c) \in Nat \ {0} /\ Len(s) \in Nat
    BY <1>1, <1>4, EmptySeq, LenProperties
  <2>2. c[Len(c)] = h
    <3>1. /\ Len(s \o c) = Len(s) + Len(c)
          /\ \A i \in 1 .. Len(s) + Len(c) : (s \o c)[i] = IF i <= Len(s) THEN s[i] ELSE c[i - Len(s)]
      BY <1>1, ConcatProperties
    <3>2. /\ Len(s) + Len(c) \in 1 .. Len(s) + Len(c) /\ ~(Len(s) + Len(c) <= Len(s))
          /\ (Len(s) + Len(c)) - Len(s) = Len(c)
      BY <2>1
    <3> QED BY <1>1, <1>4, <3>1, <3>2
  <2>3. PICK t \in Seq(Event) : c = t \o <<h>>
    BY <1>1, <1>4, <2>2, SplitLast
  <2>4. h \in Event
    BY <1>1, <1>4, <2>2, SplitLast
  <2>5. <<h>> \in Seq(Event) /\ <<h>> \o u \in Seq(Event)
    BY <1>1, <2>4, ConcatProperties
  <2>6. c \o u = t \o (<<h>> \o u)
    BY <1>1, <2>3, <2>5, ConcatAssociative
  <2>7. \E lost \in 0 .. Len(k) : <<h>> \o u = SubSeq(k, lost + 1, Len(k))
    <3>1. PICK v \in Seq(Event) : v = <<h>> \o u
      BY <2>5
    <3>2. k = t \o v
      BY <1>1, <2>6, <3>1
    <3>3. \E lost \in 0 .. Len(t \o v) : v = SubSeq(t \o v, lost + 1, Len(t \o v))
      BY <3>1, SuffixOfConcat
    <3> QED BY ONLY <3>1, <3>2, <3>3
  <2> QED BY <1>1, <1>4, <2>7 DEF k
<1> QED BY <1>2, <1>3, <1>4

LEMMA GoneEnds ==
  ASSUME TypeOK, OrderInv, HeldInv, ProcessGone
  PROVE  [Stream!Next]_(Stream!vars)
<1> DEFINE pending == [p \in Rings |-> PendingOf(p)]
           shown == [p \in Rings |-> ShownOf(p)]
<1>1. UNCHANGED ring /\ ~Live' /\ chan' = <<>> /\ printed' = <<>> /\ held' = {}
  BY DEF ProcessGone, Live, kernel
<1>2. \A p \in Rings : PendingOf(p)' = ring[p] /\ ShownOf(p)' = <<>>
  <2> SUFFICES ASSUME NEW p \in Rings PROVE PendingOf(p)' = ring[p] /\ ShownOf(p)' = <<>>
    OBVIOUS
  <2>1. FromRing(p, <<>>) = <<>> /\ ring[p] \in Seq(Event)
    BY FromRingType, EmptySeq DEF TypeOK
  <2>2. PendingOf(p)' = FromRing(p, <<>>) \o ring[p] /\ ShownOf(p)' = FromRing(p, <<>>)
    BY <1>1 DEF PendingOf, ShownOf, Unread
  <2> QED BY <2>1, <2>2, ConcatEmptySeq
<1>3. pending' = [p \in Rings |-> ring[p]] /\ shown' = [p \in Rings |-> <<>>]
  <2>1. pending' = [p \in Rings |-> PendingOf(p)'] /\ shown' = [p \in Rings |-> ShownOf(p)']
    OBVIOUS
  <2> HIDE DEF PendingOf, ShownOf
  <2> QED BY <1>2, <2>1
<1>4. CASE Live
  <2>1. \A p \in Rings : pending[p] = PendingOf(p) /\ pending'[p] = ring[p] /\ shown[p] = ShownOf(p)
    BY <1>3
  <2>2. DOMAIN pending' = Rings
    BY <1>3
  <2> HIDE DEF pending, shown
  <2>3. \A p \in Rings :
          \/ \E lost \in 0 .. Len(pending[p]) :
               pending'[p] = SubSeq(pending[p], lost + 1, Len(pending[p]))
          \/ shown[p] # <<>> /\ pending'[p] = <<shown[p][Len(shown[p])]>> \o pending[p]
    BY <2>1, GoneLeaves
  <2>4. Stream!End
    BY <1>1, <1>3, <1>4, <2>2, <2>3
      DEF Stream!End, Stream!Losing, Stream!Repeating, pending, shown
  <2> QED BY <2>4 DEF Stream!Next
<1>5. CASE ~Live
  <2>1. \A p \in Rings : PendingOf(p) = ring[p] /\ ShownOf(p) = <<>>
    <3> SUFFICES ASSUME NEW p \in Rings PROVE PendingOf(p) = ring[p] /\ ShownOf(p) = <<>>
      OBVIOUS
    <3>1. chan = <<>> /\ printed = <<>> /\ held = {}
      BY <1>5 DEF OrderInv, BootInv
    <3>2. FromRing(p, <<>>) = <<>> /\ ring[p] \in Seq(Event)
      BY FromRingType, EmptySeq DEF TypeOK
    <3> QED BY <3>1, <3>2, ConcatEmptySeq DEF PendingOf, ShownOf, Unread
  <2>2. pending' = pending /\ shown' = shown
    BY <1>3, <2>1
  <2> HIDE DEF pending, shown
  <2>3. Live' <=> Live
    BY <1>1, <1>5
  <2> QED BY <2>2, <2>3 DEF Stream!vars, pending, shown
<1> QED BY <1>4, <1>5

(* All other steps leave the stream as it is.                              *)
LEMMA OtherStutters ==
  ASSUME \A p \in Rings : Unread(p)' = Unread(p), UNCHANGED <<chan, printed>>, Live' <=> Live
  PROVE  UNCHANGED Stream!vars
BY DEF Stream!vars, PendingOf, ShownOf

(* It begins empty.                                                        *)
LEMMA StreamInit == Init => Stream!Init
<1> SUFFICES ASSUME Init PROVE Stream!Init
  OBVIOUS
<1>1. ~Live /\ printed = <<>> /\ chan = <<>> /\ ring = [q \in Rings |-> <<>>] /\ held = {}
  BY DEF Init, Live
<1>2. \A q \in Rings : PendingOf(q) = <<>> /\ ShownOf(q) = <<>>
  <2> SUFFICES ASSUME NEW q \in Rings PROVE PendingOf(q) = <<>> /\ ShownOf(q) = <<>>
    OBVIOUS
  <2>1. FromRing(q, <<>>) = <<>> /\ <<>> \in Seq(Event)
    BY FromRingType, EmptySeq
  <2> QED BY <1>1, <2>1, ConcatEmptySeq DEF PendingOf, ShownOf, Unread
<1> QED BY <1>1, <1>2 DEF Stream!Init

(* Every step of Monitor is one of the stream, or none.                    *)
LEMMA StreamStep ==
  ASSUME TypeOK, OrderInv, HeldInv, [Next]_vars
  PROVE  [Stream!Next]_(Stream!vars)
<1>1. ASSUME NEW c \in CPUs, Reserve(c) PROVE Stream!Next
  BY <1>1, ReserveStores
<1>2. ASSUME NEW q \in Rings, Read(q) PROVE UNCHANGED Stream!vars
  BY <1>2, ReadStutters
<1>3. CASE PrintEvent
  BY <1>3, PrintShows
<1>4. CASE SwitchOn
  BY <1>4, SwitchOnBegins
<1>5. CASE Exit \/ Kill
  BY <1>5, GoneEnds DEF Exit, Kill
<1>6. ASSUME NEW c \in CPUs, Submit(c) \/ FindFull(c) \/ Disable(c)
      PROVE  UNCHANGED Stream!vars
  BY <1>6, OtherStutters DEF Submit, FindFull, Disable, process, Live, Unread
<1>7. ASSUME NEW c \in CPUs, NEW q \in Rings, Stamp(c, q) PROVE UNCHANGED Stream!vars
  BY <1>7, OtherStutters DEF Stamp, process, Live, Unread
<1>8. CASE OpenRings \/ CtrlC \/ UNCHANGED vars
  BY <1>8, OtherStutters DEF OpenRings, CtrlC, vars, kernel, process, Live, Unread
<1>9. ASSUME NEW q \in Rings, Release(q) PROVE UNCHANGED Stream!vars
  BY <1>9, OtherStutters, UnreadOfRelease DEF Release, Live
<1> QED BY <1>1, <1>2, <1>3, <1>4, <1>5, <1>6, <1>7, <1>8, <1>9 DEF Next, OnCPU

(* Whatever session, readers, CPUs and kills do, the events of a kind are  *)
(* printed in the order in which they were stored, each at most once in a  *)
(* session.  Only the end of a session loses any, the oldest first, and    *)
(* only a killed one leaves a printed event to be printed again: one of a  *)
(* kind, the last (cli/monitor.rs:203-211).                                *)
THEOREM StreamImplemented == Spec => ImplementsStream
<1>1. Init => HeldInv
  BY DEF Init, HeldInv
<1>2. Spec => [](TypeOK /\ OrderInv /\ HeldInv)
  BY <1>1, InitOrder, OrderStep, HeldStep, TypeCorrect, PTL DEF Spec
<1> QED BY <1>2, StreamInit, StreamStep, PTL DEF Spec, ImplementsStream, Stream!Order
=============================================================================
