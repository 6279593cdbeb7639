-------------------------- MODULE AckSessionProofs --------------------------
(***************************************************************************)
(* The connections of AckSession for any number of CPUs and connections,   *)
(* any number of segments and any width of sequence numbers: the types,    *)
(* and, of senders with one segment outstanding, that the protection never *)
(* drops a segment the receiver waits for.                                 *)
(***************************************************************************)
EXTENDS AckSession, FiniteSetTheorems, TLAPS

-----------------------------------------------------------------------------
(* Sequence numbers                                                        *)

LEMMA SeqType ==
  ASSUME NEW x \in Int
  PROVE  x % SEQ_MOD \in SeqNum
BY SequenceAssumption DEF SeqNum

(* The distance of two numbers of a connection is that of their segments,  *)
(* also across the wrap.                                                   *)
LEMMA Remainder ==
  ASSUME NEW m \in Nat \ {0}, NEW q \in Int, NEW r \in 0 .. m - 1
  PROVE  (q * m + r) % m = r
OBVIOUS

LEMMA ModuloDifference ==
  ASSUME NEW m \in Nat \ {0}, NEW i \in Nat, NEW t \in Nat, NEW d \in 0 .. m - 1
  PROVE  (((i + (t + d)) % m) - ((i + t) % m)) % m = d
<1> DEFINE q == (i + t) \div m
           r == (i + t) % m
<1>1. q \in Int /\ r \in 0 .. m - 1 /\ i + t = q * m + r
  OBVIOUS
<1> HIDE DEF q, r
<1>2. CASE r + d < m
  <2>1. i + (t + d) = q * m + (r + d) /\ r + d \in 0 .. m - 1
    BY <1>1, <1>2
  <2>2. (i + (t + d)) % m = r + d
    BY <1>1, <2>1, Remainder
  <2>3. ((r + d) - r) % m = d
    BY <1>1
  <2> QED BY <2>2, <2>3 DEF r
<1>3. CASE r + d >= m
  <2>1. (q + 1) * m = q * m + m
    BY <1>1
  <2>2. i + (t + d) = (q + 1) * m + (r + d - m) /\ r + d - m \in 0 .. m - 1 /\ q + 1 \in Int
    BY <1>1, <1>3, <2>1
  <2>3. (i + (t + d)) % m = r + d - m
    BY <2>2, Remainder
  <2>4. (r + d - m) - r = (0 - 1) * m + d
    BY <1>1
  <2>5. ((r + d - m) - r) % m = d
    BY <2>4, Remainder
  <2> QED BY <2>3, <2>5 DEF r
<1> QED BY <1>1, <1>2, <1>3

LEMMA DeltaOfSegments ==
  ASSUME TypeOK, NEW c \in Connections, NEW t \in Nat, NEW n \in Nat,
         n - t \in 0 .. ACK_WINDOW
  PROVE  InWindow(Seq(c, n), Seq(c, t))
<1> DEFINE d == n - t
<1>1. isn[c] \in Nat /\ SEQ_MOD \in Nat \ {0} /\ d \in 0 .. SEQ_MOD - 1 /\ n = t + d
  BY SequenceAssumption DEF TypeOK, SeqNum
<1> HIDE DEF d
<1>2. (((isn[c] + (t + d)) % SEQ_MOD) - ((isn[c] + t) % SEQ_MOD)) % SEQ_MOD = d
  BY <1>1, ModuloDifference
<1>3. Delta(Seq(c, n), Seq(c, t)) = d
  BY <1>1, <1>2 DEF Delta, Seq
<1> QED BY <1>3, SequenceAssumption DEF InWindow, d

LEMMA SeqOfSegment ==
  ASSUME TypeOK, NEW c \in Connections, NEW n \in Segment
  PROVE  Seq(c, n) \in SeqNum
<1>1. isn[c] + n \in Int
  BY PeersAssumption DEF TypeOK, SeqNum, Segment
<1> QED BY <1>1, SeqType DEF Seq

-----------------------------------------------------------------------------
(* Types                                                                   *)

LEMMA InsertType ==
  ASSUME NEW t \in [Keys -> SeqNum \cup {UNTRACKED}], NEW k \in Keys, NEW s \in SeqNum
  PROVE  Insert(t, k, s) \in [Keys -> SeqNum \cup {UNTRACKED}]
BY DEF Insert

(* What is under way after a step.                                         *)
LEMMA UnderWayIs ==
  ASSUME NEW c \in Connections
  PROVE  \A n : n \in UnderWay(c) <=>
           n \in net[c] \/ \E p \in CPUs : cpu[p] # NONE /\ cpu[p].conn = c /\ n = cpu[p].seg
BY DEF UnderWay

(* The progress of one connection: the part of TypeOK that relates its     *)
(* counters and sets.                                                      *)
Progress(c) ==
  /\ sent[c] \in acked[c] .. acked[c] + Window(c)
  /\ UnderWay(c) \cup got[c] \subseteq 0 .. sent[c] - 1
  /\ 0 .. acked[c] - 1 \subseteq got[c]

LEMMA InitTypeOK == Init => TypeOK
<1> SUFFICES ASSUME Init PROVE TypeOK
  OBVIOUS
<1>1. /\ isn \in [Connections -> SeqNum]
      /\ tracker \in [Keys -> SeqNum \cup {UNTRACKED}]
      /\ cpu \in [CPUs -> Work \cup {NONE}]
      /\ net \in [Connections -> SUBSET Segment]
      /\ got \in [Connections -> SUBSET Segment]
  BY PeersAssumption DEF Init
<1>2. /\ acked \in [Connections -> 0 .. SEGMENTS + 1]
      /\ sent \in [Connections -> 0 .. SEGMENTS + 1]
  BY PeersAssumption DEF Init
<1>3. ASSUME NEW c \in Connections
      PROVE  Progress(c)
  <2>1. sent[c] = 0 /\ acked[c] = 0 /\ got[c] = {} /\ UnderWay(c) = {} /\ Window(c) = 1
    BY <1>3 DEF Init, UnderWay, Window
  <2> QED BY <2>1 DEF Progress
<1> QED BY <1>1, <1>2, <1>3 DEF TypeOK, Progress

(* The sender.                                                             *)
LEMMA SendTypeOK ==
  ASSUME TypeOK, NEW c \in Connections, Send(c) \/ Retransmit(c)
  PROVE  TypeOK'
<1> DEFINE n == IF Send(c) THEN sent[c] ELSE acked[c]
<1>1. /\ UNCHANGED <<isn, tracker, cpu, acked, got>>
      /\ n \in Segment /\ n \in Nat
      /\ net' = [net EXCEPT ![c] = net[c] \cup {n}]
      /\ sent' = [sent EXCEPT ![c] = IF Send(c) THEN sent[c] + 1 ELSE sent[c]]
      /\ sent[c] \in Nat /\ acked[c] \in Nat
  BY PeersAssumption DEF Send, Retransmit, TypeOK, Segment
<1>2. sent'[c] \in acked[c] .. acked[c] + Window(c) /\ n <= sent'[c] - 1 /\ sent'[c] \in 0 .. SEGMENTS + 1
  BY <1>1, PeersAssumption DEF Send, Retransmit, TypeOK, Segment, Window
<1> HIDE DEF n
<1>3. ASSUME NEW d \in Connections
      PROVE  Progress(d)'
  <2>1. UnderWay(d)' = IF d = c THEN UnderWay(c) \cup {n} ELSE UnderWay(d)
    BY <1>1 DEF UnderWay, TypeOK
  <2>2. Window(d)' = Window(d)
    BY <1>1 DEF Window
  <2>3. Progress(d) /\ sent[d] \in Nat
    BY PeersAssumption DEF TypeOK, Progress
  <2>4. CASE d = c
    <3>1. sent[c] <= sent'[c] /\ sent'[c] \in Nat
      BY <1>1, <1>2 DEF TypeOK
    <3> QED BY <1>1, <1>2, <2>1, <2>2, <2>3, <2>4, <3>1 DEF Progress
  <2>5. CASE d # c
    <3>1. sent'[d] = sent[d]
      BY <1>1, <2>5 DEF TypeOK
    <3> QED BY <1>1, <2>1, <2>2, <2>3, <2>5, <3>1 DEF Progress
  <2> QED BY <2>4, <2>5
<1>4. net' \in [Connections -> SUBSET Segment] /\ sent' \in [Connections -> 0 .. SEGMENTS + 1]
  BY <1>1, <1>2 DEF TypeOK
<1> QED BY <1>1, <1>3, <1>4 DEF TypeOK, Progress

LEMMA AcknowledgeTypeOK ==
  ASSUME TypeOK, NEW c \in Connections, Acknowledge(c)
  PROVE  TypeOK'
<1>1. /\ UNCHANGED <<isn, tracker, cpu, sent, net, got>>
      /\ acked' = [acked EXCEPT ![c] = acked[c] + 1] /\ acked[c] \in got[c]
      /\ acked[c] \in Nat /\ sent[c] \in Nat /\ acked[c] + 1 <= sent[c]
  BY PeersAssumption DEF Acknowledge, TypeOK
<1>2. acked' \in [Connections -> 0 .. SEGMENTS + 1]
  BY <1>1, PeersAssumption DEF TypeOK
<1>3. ASSUME NEW d \in Connections
      PROVE  Progress(d)'
  <2>1. UnderWay(d)' = UnderWay(d) /\ Progress(d)
    BY <1>1 DEF UnderWay, TypeOK, Progress
  <2>2. CASE d = c
    <3>1. acked'[c] = acked[c] + 1 /\ acked[c] + Window(c) <= acked'[c] + Window(c)'
      BY <1>1, PeersAssumption DEF TypeOK, Window
    <3>2. sent[c] \in acked'[c] .. acked'[c] + Window(c)'
      BY <1>1, <3>1, PeersAssumption DEF TypeOK, Window
    <3>3. 0 .. acked'[c] - 1 \subseteq got[c]
      BY <1>1, <3>1, SMTT(60) DEF TypeOK
    <3> QED BY <1>1, <2>1, <2>2, <3>2, <3>3 DEF Progress
  <2>3. CASE d # c
    <3>1. acked'[d] = acked[d] /\ Window(d)' = Window(d)
      BY <1>1, <2>3 DEF TypeOK, Window
    <3> QED BY <1>1, <2>1, <3>1 DEF Progress
  <2> QED BY <2>2, <2>3
<1> QED BY <1>1, <1>2, <1>3 DEF TypeOK, Progress

(* A step of the network or of a CPU moves segments on: less is under way, *)
(* and what was may have been received.                                    *)
LEMMA MovesTypeOK ==
  ASSUME TypeOK, UNCHANGED <<isn, acked, sent>>,
         tracker' \in [Keys -> SeqNum \cup {UNTRACKED}],
         cpu' \in [CPUs -> Work \cup {NONE}],
         net' \in [Connections -> SUBSET Segment],
         got' \in [Connections -> SUBSET Segment],
         \A d \in Connections :
           /\ UnderWay(d)' \subseteq UnderWay(d)
           /\ got[d] \subseteq got'[d] /\ got'[d] \subseteq got[d] \cup UnderWay(d)
  PROVE  TypeOK'
<1>1. ASSUME NEW d \in Connections
      PROVE  Progress(d)'
  <2>1. Progress(d) /\ Window(d)' = Window(d)
    BY DEF TypeOK, Progress, Window
  <2> QED BY <2>1 DEF Progress
<1> QED BY <1>1 DEF TypeOK, Progress

LEMMA TakenShrinks ==
  ASSUME TypeOK, NEW c \in Connections, NEW n \in Segment, Taken(c, n), UNCHANGED cpu
  PROVE  /\ net' \in [Connections -> SUBSET Segment]
         /\ n \in UnderWay(c)
         /\ \A d \in Connections : UnderWay(d)' \subseteq UnderWay(d)
BY DEF TypeOK, Taken, UnderWay

LEMMA GoneTypeOK ==
  ASSUME TypeOK, NEW c \in Connections, NEW n \in Segment, Lose(c, n) \/ Drop(c, n)
  PROVE  TypeOK'
<1>1. Taken(c, n) /\ UNCHANGED <<isn, tracker, cpu, acked, sent, got>>
  BY DEF Lose, Drop
<1> QED BY <1>1, TakenShrinks, MovesTypeOK DEF TypeOK

LEMMA PassSynTypeOK ==
  ASSUME TypeOK, NEW c \in Connections, PassSyn(c)
  PROVE  TypeOK'
<1>1. /\ Taken(c, 0) /\ UNCHANGED <<isn, cpu, acked, sent>> /\ 0 \in Segment
      /\ tracker' = Insert(tracker, KeyOf[c], Seq(c, 0))
      /\ got' = [got EXCEPT ![c] = got[c] \cup {0}]
  BY PeersAssumption DEF PassSyn, Received, Segment
<1>2. tracker' \in [Keys -> SeqNum \cup {UNTRACKED}]
  BY <1>1, InsertType, SeqOfSegment DEF TypeOK, Keys
<1>3. /\ got' \in [Connections -> SUBSET Segment]
      /\ \A d \in Connections : got[d] \subseteq got'[d] /\ got'[d] \subseteq got[d] \cup UnderWay(d)
  BY <1>1, TakenShrinks DEF TypeOK
<1> QED BY <1>1, <1>2, <1>3, TakenShrinks, MovesTypeOK DEF TypeOK

LEMMA AcceptMoves ==
  ASSUME TypeOK, NEW p \in CPUs, NEW c \in Connections, NEW n \in Segment, Accept(p, c, n)
  PROVE  /\ UNCHANGED <<isn, tracker, acked, sent, got>>
         /\ cpu' \in [CPUs -> Work \cup {NONE}]
         /\ net' \in [Connections -> SUBSET Segment]
         /\ \A d \in Connections : UnderWay(d)' \subseteq UnderWay(d)
<1>1. /\ UNCHANGED <<isn, tracker, acked, sent, got>> /\ n \in net[c]
      /\ cpu' = [cpu EXCEPT ![p] = [conn |-> c, seg |-> n]]
      /\ net' = [net EXCEPT ![c] = net[c] \ {n}]
      /\ [conn |-> c, seg |-> n] \in Work
  BY DEF Accept, Taken, Work
<1>2. cpu' \in [CPUs -> Work \cup {NONE}] /\ net' \in [Connections -> SUBSET Segment]
  BY <1>1 DEF TypeOK
<1>3. ASSUME NEW d \in Connections, NEW k \in UnderWay(d)'
      PROVE  k \in UnderWay(d)
  <2>1. CASE k \in net'[d]
    BY <1>1, <2>1 DEF UnderWay, TypeOK
  <2>2. CASE \E q \in CPUs : cpu'[q] # NONE /\ cpu'[q].conn = d /\ k = cpu'[q].seg
    <3>1. PICK q \in CPUs : cpu'[q] # NONE /\ cpu'[q].conn = d /\ k = cpu'[q].seg
      BY <2>2
    <3>2. CASE q = p
      BY <1>1, <3>1, <3>2 DEF UnderWay, TypeOK
    <3>3. CASE q # p
      BY <1>1, <3>1, <3>3 DEF UnderWay, TypeOK
    <3> QED BY <3>2, <3>3
  <2> QED BY <1>3, <2>1, <2>2 DEF UnderWay
<1> QED BY <1>1, <1>2, <1>3

LEMMA StoreMoves ==
  ASSUME TypeOK, NEW p \in CPUs, Store(p)
  PROVE  /\ UNCHANGED <<isn, acked, sent, net>>
         /\ cpu' \in [CPUs -> Work \cup {NONE}]
         /\ \A d \in Connections : UnderWay(d)' \subseteq UnderWay(d)
         /\ \E c \in Connections : \E n \in Segment :
              /\ n \in UnderWay(c)
              /\ tracker' = Insert(tracker, KeyOf[c], Seq(c, n))
              /\ got' = [got EXCEPT ![c] = got[c] \cup {n}]
<1> DEFINE c == cpu[p].conn
           n == cpu[p].seg
<1>1. cpu[p] \in Work /\ cpu[p] # NONE
  BY DEF TypeOK, Store
<1>2. c \in Connections /\ n \in Segment
  BY <1>1 DEF Work
<1>3. n \in UnderWay(c)
  BY <1>1 DEF UnderWay
<1>4. /\ UNCHANGED <<isn, acked, sent, net>>
      /\ tracker' = Insert(tracker, KeyOf[c], Seq(c, n))
      /\ got' = [got EXCEPT ![c] = got[c] \cup {n}]
      /\ cpu' = [cpu EXCEPT ![p] = NONE]
  BY DEF Store, Received
<1>5. cpu' \in [CPUs -> Work \cup {NONE}] /\ \A q \in CPUs : cpu'[q] # NONE => cpu'[q] = cpu[q]
  BY <1>4 DEF TypeOK
<1>6. \A d \in Connections : UnderWay(d)' \subseteq UnderWay(d)
  BY <1>4, <1>5 DEF UnderWay
<1> QED BY <1>2, <1>3, <1>4, <1>5, <1>6

LEMMA StoreTypeOK ==
  ASSUME TypeOK, NEW p \in CPUs, Store(p)
  PROVE  TypeOK'
<1>1. PICK c \in Connections, n \in Segment :
        /\ n \in UnderWay(c)
        /\ tracker' = Insert(tracker, KeyOf[c], Seq(c, n))
        /\ got' = [got EXCEPT ![c] = got[c] \cup {n}]
  BY StoreMoves
<1>2. tracker' \in [Keys -> SeqNum \cup {UNTRACKED}]
  <2>1. KeyOf[c] \in Keys /\ Seq(c, n) \in SeqNum /\ tracker \in [Keys -> SeqNum \cup {UNTRACKED}]
    BY SeqOfSegment DEF TypeOK, Keys
  <2> QED BY <1>1, <2>1, InsertType
<1>3. /\ got' \in [Connections -> SUBSET Segment]
      /\ \A d \in Connections : got[d] \subseteq got'[d] /\ got'[d] \subseteq got[d] \cup UnderWay(d)
  BY <1>1 DEF TypeOK
<1>4. UNCHANGED <<isn, acked, sent, net>> /\ cpu' \in [CPUs -> Work \cup {NONE}]
      /\ \A d \in Connections : UnderWay(d)' \subseteq UnderWay(d)
  BY StoreMoves
<1> QED BY <1>2, <1>3, <1>4, MovesTypeOK DEF TypeOK

(* The actions Next is made of.                                            *)
LEMMA Steps ==
  ASSUME [Next]_vars
  PROVE  \/ UNCHANGED vars
         \/ \E p \in CPUs : Store(p)
         \/ \E c \in Connections : Send(c) \/ Retransmit(c) \/ Acknowledge(c)
         \/ \E c \in Connections, n \in Segment : Lose(c, n) \/ Drop(c, n)
         \/ \E c \in Connections : PassSyn(c)
         \/ \E p \in CPUs, c \in Connections, n \in Segment : Accept(p, c, n)
BY DEF Next, Arrive, Finished

LEMMA StutterTypeOK == ASSUME TypeOK, UNCHANGED vars PROVE TypeOK'
BY DEF TypeOK, vars, UnderWay, Window

(* Types, and that no sender is further than its window, nothing is under  *)
(* way that has not been sent and nothing acknowledged that has not been   *)
(* received, for every number of connections and CPUs.                     *)
THEOREM TypeCorrect == Spec => []TypeOK
<1>1. ASSUME TypeOK, [Next]_vars
      PROVE  TypeOK'
  <2>1. CASE \E p \in CPUs, c \in Connections, n \in Segment : Accept(p, c, n)
    <3>1. UNCHANGED <<isn, tracker, acked, sent, got>> /\ cpu' \in [CPUs -> Work \cup {NONE}]
          /\ net' \in [Connections -> SUBSET Segment]
          /\ \A d \in Connections : UnderWay(d)' \subseteq UnderWay(d)
      BY <1>1, <2>1, AcceptMoves
    <3> QED BY <1>1, <3>1, MovesTypeOK DEF TypeOK
  <2> QED BY <1>1, <2>1, Steps, StutterTypeOK, StoreTypeOK, SendTypeOK, AcknowledgeTypeOK,
             GoneTypeOK, PassSynTypeOK
<1> QED BY <1>1, InitTypeOK, PTL DEF Spec

-----------------------------------------------------------------------------
(* Senders with one segment outstanding                                    *)

(* What the result needs: a sender waits for the acknowledgement of each   *)
(* segment, no segment is under way while as many as fit the window are    *)
(* sent, and every connection has an entry of its own in the tracker.      *)
StopAndWait == SEND_WINDOW = 1 /\ LIFETIME < ACK_WINDOW

OwnEntries ==
  /\ \A c, d \in Connections : KeyOf[c] = KeyOf[d] => c = d
  /\ IsFiniteSet(Keys) /\ Cardinality(Keys) <= MAX_TCP_ACK_SEQ_ENTRIES

LEMMA RoomForAll ==
  ASSUME OwnEntries, TypeOK, NEW k \in Keys
  PROVE  HasRoomFor(tracker, k)
<1>1. CASE k \in Tracked(tracker)
  BY <1>1 DEF HasRoomFor
<1>2. CASE k \notin Tracked(tracker)
  <2>1. Tracked(tracker) \subseteq Keys /\ Tracked(tracker) # Keys
    BY <1>2 DEF Tracked, TypeOK
  <2>2. /\ IsFiniteSet(Tracked(tracker)) /\ Cardinality(Tracked(tracker)) <= Cardinality(Keys)
        /\ Cardinality(Tracked(tracker)) # Cardinality(Keys)
    BY <2>1, FS_Subset DEF OwnEntries
  <2>3. Cardinality(Tracked(tracker)) \in Nat /\ Cardinality(Keys) \in Nat
    BY <2>2, FS_CardinalityType DEF OwnEntries
  <2> QED BY <2>2, <2>3, TrackerAssumption DEF OwnEntries, HasRoomFor
<1> QED BY <1>1, <1>2

(* Inductive strengthening: what is under way is young, and the number     *)
(* stored for a connection is that of a young segment; it may be one       *)
(* segment older while the last one sent has not been received.            *)
Young(c) == \A n \in UnderWay(c) : sent[c] - 1 - n <= LIFETIME

Age(c) == IF sent[c] - 1 \in got[c] THEN LIFETIME ELSE LIFETIME + 1

Followed(c) ==
  got[c] # {} =>
    \E t \in 0 .. sent[c] - 1 : tracker[KeyOf[c]] = Seq(c, t) /\ sent[c] - 1 - t <= Age(c)

SessionInv == \A c \in Connections : Young(c) /\ Followed(c)

LEMMA InitSession == Init => SessionInv
BY DEF Init, SessionInv, Young, Followed, UnderWay

(* The receiver still waits for a segment: it is the last one sent.        *)
LEMMA MissingIsLast ==
  ASSUME StopAndWait, TypeOK, NEW c \in Connections, NEW n \in UnderWay(c) \ got[c]
  PROVE  n = sent[c] - 1 /\ n = acked[c]
<1>1. Progress(c) /\ acked[c] \in Nat /\ sent[c] \in Nat
  BY PeersAssumption DEF TypeOK, Progress
<1>2. Window(c) = 1
  BY DEF Window, StopAndWait
<1>3. n \in 0 .. sent[c] - 1 /\ ~(n \in 0 .. acked[c] - 1)
  BY <1>1 DEF Progress
<1> QED BY <1>1, <1>2, <1>3 DEF Progress

LEMMA SessionGivesMissing ==
  StopAndWait /\ TypeOK /\ SessionInv => MissingSegmentsPass
<1> SUFFICES ASSUME StopAndWait, TypeOK, SessionInv,
                    NEW c \in Connections, NEW n \in net[c] \ got[c], n # 0
             PROVE  Accepts(c, n)
  BY DEF MissingSegmentsPass
<1>1. n = sent[c] - 1 /\ n = acked[c] /\ n \in Nat
  BY MissingIsLast, PeersAssumption DEF UnderWay, TypeOK, Segment
<1>2. 0 \in got[c]
  BY <1>1 DEF TypeOK
<1>3. PICK t \in 0 .. sent[c] - 1 : tracker[KeyOf[c]] = Seq(c, t) /\ sent[c] - 1 - t <= Age(c)
  BY <1>2 DEF SessionInv, Followed
<1>4. n - t \in 0 .. ACK_WINDOW /\ t \in Nat /\ t \in Segment
  BY <1>1, <1>3, SequenceAssumption, PeersAssumption DEF Age, StopAndWait, TypeOK, Segment
<1>5. InWindow(Seq(c, n), Seq(c, t))
  BY <1>1, <1>4, DeltaOfSegments
<1>6. Seq(c, t) # UNTRACKED
  BY <1>4, SeqOfSegment, TrackerAssumption DEF SeqNum
<1> QED BY <1>3, <1>5, <1>6 DEF Accepts

LEMMA SendSession ==
  ASSUME StopAndWait, TypeOK, SessionInv, NEW c \in Connections, Send(c)
  PROVE  SessionInv'
<1>1. /\ UNCHANGED <<isn, tracker, cpu, acked, got>>
      /\ net' = [net EXCEPT ![c] = net[c] \cup {sent[c]}]
      /\ sent' = [sent EXCEPT ![c] = sent[c] + 1]
      /\ \A n \in UnderWay(c) : sent[c] - n <= LIFETIME
      /\ sent[c] < acked[c] + Window(c)
  BY DEF Send
<1>2. sent[c] \in Nat /\ acked[c] \in Nat /\ Progress(c) /\ Window(c) = 1
  BY PeersAssumption DEF TypeOK, Progress, Window, StopAndWait
<1>3. sent'[c] = sent[c] + 1 /\ sent[c] = acked[c]
  BY <1>1, <1>2 DEF TypeOK, Progress
<1>4. ASSUME NEW d \in Connections
      PROVE  (Young(d) /\ Followed(d))'
  <2>1. CASE d = c
    <3>1. UnderWay(c)' = UnderWay(c) \cup {sent[c]}
      BY <1>1 DEF UnderWay, TypeOK
    <3>2. UnderWay(c) \subseteq 0 .. sent[c] - 1
      BY <1>2 DEF Progress
    <3>3. Young(c)'
      BY <1>1, <1>2, <1>3, <3>1, <3>2, PeersAssumption DEF Young
    <3>4. ASSUME got[c] # {}
          PROVE  \E t \in 0 .. sent'[c] - 1 :
                   tracker[KeyOf[c]] = Seq(c, t) /\ sent'[c] - 1 - t <= LIFETIME + 1
      <4>1. sent[c] - 1 \in got[c]
        BY <1>2, <1>3, <3>4 DEF Progress
      <4>2. PICK t \in 0 .. sent[c] - 1 : tracker[KeyOf[c]] = Seq(c, t) /\ sent[c] - 1 - t <= LIFETIME
        BY <3>4, <4>1 DEF SessionInv, Followed, Age
      <4>3. t \in 0 .. sent'[c] - 1 /\ sent'[c] - 1 - t <= LIFETIME + 1
        BY <1>2, <1>3, <4>2, PeersAssumption
      <4> QED BY <4>2, <4>3
    <3>5. ~(sent'[c] - 1 \in got[c])
      BY <1>2, <1>3 DEF Progress
    <3>6. Followed(c)'
      BY <1>1, <3>4, <3>5 DEF Followed, Age, Seq
    <3> QED BY <2>1, <3>3, <3>6
  <2>2. CASE d # c
    <3>1. sent'[d] = sent[d] /\ UnderWay(d)' = UnderWay(d)
      BY <1>1, <2>2 DEF UnderWay, TypeOK
    <3> QED BY <1>1, <3>1 DEF SessionInv, Young, Followed, Age, Seq
  <2> QED BY <2>1, <2>2
<1> QED BY <1>4 DEF SessionInv

LEMMA RetransmitSession ==
  ASSUME StopAndWait, TypeOK, SessionInv, NEW c \in Connections, Retransmit(c)
  PROVE  SessionInv'
<1>1. /\ UNCHANGED <<isn, tracker, cpu, acked, sent, got>> /\ acked[c] < sent[c]
      /\ net' = [net EXCEPT ![c] = net[c] \cup {acked[c]}]
  BY DEF Retransmit
<1>2. sent[c] - 1 - acked[c] <= LIFETIME
  <2>1. sent[c] \in Nat /\ acked[c] \in Nat /\ Progress(c) /\ Window(c) = 1
    BY PeersAssumption DEF TypeOK, Progress, Window, StopAndWait
  <2> QED BY <1>1, <2>1, PeersAssumption DEF Progress
<1>3. \A d \in Connections : UnderWay(d)' \subseteq UnderWay(d) \cup (IF d = c THEN {acked[c]} ELSE {})
  BY <1>1 DEF UnderWay, TypeOK
<1> QED BY <1>1, <1>2, <1>3 DEF SessionInv, Young, Followed, Age, Seq

(* Steps that only take segments away, or acknowledge them.                *)
LEMMA LessUnderWay ==
  ASSUME SessionInv, UNCHANGED <<isn, tracker, sent, got>>,
         \A d \in Connections : UnderWay(d)' \subseteq UnderWay(d)
  PROVE  SessionInv'
BY DEF SessionInv, Young, Followed, Age, Seq

(* The number of a segment that was under way is stored.                   *)
LEMMA StoredSession ==
  ASSUME OwnEntries, TypeOK, SessionInv, NEW c \in Connections, NEW n \in UnderWay(c),
         UNCHANGED <<isn, sent>>,
         \A d \in Connections : UnderWay(d)' \subseteq UnderWay(d),
         tracker' = Insert(tracker, KeyOf[c], Seq(c, n)),
         got' = [got EXCEPT ![c] = got[c] \cup {n}]
  PROVE  SessionInv'
<1>1. KeyOf[c] \in Keys /\ tracker' = [tracker EXCEPT ![KeyOf[c]] = Seq(c, n)]
  BY RoomForAll DEF Insert, Keys
<1>2. n \in 0 .. sent[c] - 1 /\ sent[c] - 1 - n <= LIFETIME
  BY DEF SessionInv, Young, TypeOK
<1>3. ASSUME NEW d \in Connections
      PROVE  (Young(d) /\ Followed(d))'
  <2>1. Young(d)'
    BY DEF SessionInv, Young
  <2>2. CASE d = c
    <3>1. tracker'[KeyOf[c]] = Seq(c, n)'
      BY <1>1 DEF TypeOK, Seq
    <3>2. sent'[c] - 1 - n <= Age(c)'
      <4>1. LIFETIME \in Nat /\ (Age(c)' = LIFETIME \/ Age(c)' = LIFETIME + 1)
        BY PeersAssumption DEF Age
      <4>2. sent[c] \in Nat /\ n \in Nat
        BY <1>2, PeersAssumption DEF TypeOK
      <4> QED BY <1>2, <4>1, <4>2
    <3> QED BY <1>2, <2>1, <2>2, <3>1, <3>2 DEF Followed
  <2>3. CASE d # c
    <3>1. KeyOf[d] # KeyOf[c] /\ KeyOf[d] \in Keys
      BY <2>3 DEF OwnEntries, Keys
    <3>2. tracker'[KeyOf[d]] = tracker[KeyOf[d]] /\ got'[d] = got[d]
      BY <1>1, <2>3, <3>1 DEF TypeOK
    <3> QED BY <2>1, <3>2 DEF SessionInv, Followed, Age, Seq
  <2> QED BY <2>2, <2>3
<1> QED BY <1>3 DEF SessionInv

LEMMA SessionStep ==
  ASSUME StopAndWait, OwnEntries, TypeOK, SessionInv, [Next]_vars
  PROVE  SessionInv'
<1>1. CASE \E p \in CPUs : Store(p)
  <2>1. PICK p \in CPUs : Store(p)
    BY <1>1
  <2>2. PICK c \in Connections, n \in Segment :
          /\ n \in UnderWay(c)
          /\ tracker' = Insert(tracker, KeyOf[c], Seq(c, n))
          /\ got' = [got EXCEPT ![c] = got[c] \cup {n}]
    BY <2>1, StoreMoves
  <2>3. UNCHANGED <<isn, sent>> /\ \A d \in Connections : UnderWay(d)' \subseteq UnderWay(d)
    BY <2>1, StoreMoves
  <2> QED BY <2>2, <2>3, StoredSession
<1>2. CASE \E c \in Connections : PassSyn(c)
  <2>1. PICK c \in Connections : PassSyn(c)
    BY <1>2
  <2>2. /\ Taken(c, 0) /\ UNCHANGED <<isn, cpu, acked, sent>> /\ 0 \in Segment
        /\ tracker' = Insert(tracker, KeyOf[c], Seq(c, 0))
        /\ got' = [got EXCEPT ![c] = got[c] \cup {0}]
    BY <2>1, PeersAssumption DEF PassSyn, Received, Segment
  <2> QED BY <2>2, TakenShrinks, StoredSession
<1>3. CASE \E c \in Connections : Send(c) \/ Retransmit(c)
  BY <1>3, SendSession, RetransmitSession
<1>4. CASE \E c \in Connections : Acknowledge(c)
  <2>1. UNCHANGED <<isn, tracker, cpu, sent, net, got>>
    BY <1>4 DEF Acknowledge
  <2> QED BY <2>1, LessUnderWay DEF UnderWay
<1>5. CASE \E c \in Connections, n \in Segment : Lose(c, n) \/ Drop(c, n)
  <2>1. PICK c \in Connections, n \in Segment : Lose(c, n) \/ Drop(c, n)
    BY <1>5
  <2>2. Taken(c, n) /\ UNCHANGED <<isn, tracker, cpu, acked, sent, got>>
    BY <2>1 DEF Lose, Drop
  <2> QED BY <2>2, TakenShrinks, LessUnderWay
<1>6. CASE \E p \in CPUs, c \in Connections, n \in Segment : Accept(p, c, n)
  BY <1>6, AcceptMoves, LessUnderWay
<1>7. CASE UNCHANGED vars
  BY <1>7, LessUnderWay DEF vars, UnderWay
<1> QED BY <1>1, <1>2, <1>3, <1>4, <1>5, <1>6, <1>7, Steps

(* A sender that waits for each acknowledgement never has a segment        *)
(* dropped that the receiver still waits for (protect.rs:89-124): not when *)
(* segments are lost, overtaken or sent again, not when copies of its SYN  *)
(* arrive late or CPUs store numbers out of order, for any number of       *)
(* connections, as long as nothing is under way for a whole window.        *)
THEOREM MissingPass ==
  ASSUME StopAndWait, OwnEntries
  PROVE  Spec => []MissingSegmentsPass
<1>1. TypeOK /\ SessionInv /\ [Next]_vars => SessionInv'
  BY SessionStep
<1>2. TypeOK /\ SessionInv => MissingSegmentsPass
  BY SessionGivesMissing
<1> QED BY <1>1, <1>2, InitSession, TypeCorrect, PTL DEF Spec
=============================================================================
