------------------------- MODULE AckTrackerProofs ---------------------------
(***************************************************************************)
(* What AckTracker guarantees for any number of CPUs and sources, any      *)
(* capacity of the map and any width of sequence numbers.                  *)
(***************************************************************************)
EXTENDS AckTracker, TLAPS, FiniteSetTheorems

(* An insertion keeps the type, tracks at most its own source, and finds   *)
(* room for those tracked already.                                         *)
LEMMA InsertProperties ==
  ASSUME NEW t \in [Sources -> SeqNum \cup {UNTRACKED}],
         NEW k \in Sources, NEW seq \in SeqNum
  PROVE  /\ Insert(t, k, seq) \in [Sources -> SeqNum \cup {UNTRACKED}]
         /\ Tracked(t) \subseteq Tracked(Insert(t, k, seq))
         /\ Tracked(Insert(t, k, seq)) \subseteq Tracked(t) \cup {k}
<1>1. seq # UNTRACKED
  BY TrackerAssumption DEF SeqNum
<1> QED BY <1>1 DEF Insert, Tracked

(* Unless the map is full afterwards, the source inserted is tracked; and  *)
(* the number of sources tracked never falls.                              *)
LEMMA InsertTracks ==
  ASSUME NEW t \in [Sources -> SeqNum \cup {UNTRACKED}],
         NEW k \in Sources, NEW seq \in SeqNum
  PROVE  /\ Cardinality(Tracked(t)) <= Cardinality(Tracked(Insert(t, k, seq)))
         /\ \/ k \in Tracked(Insert(t, k, seq))
            \/ Cardinality(Tracked(Insert(t, k, seq))) >= MAX_TCP_ACK_SEQ_ENTRIES
<1> DEFINE u == Insert(t, k, seq)
<1>1. u \in [Sources -> SeqNum \cup {UNTRACKED}] /\ Tracked(t) \subseteq Tracked(u)
  BY InsertProperties
<1>2. Tracked(u) \subseteq Sources /\ IsFiniteSet(Tracked(u))
  BY FS_Subset, PeersAssumption, <1>1 DEF Tracked
<1>3. /\ Cardinality(Tracked(t)) <= Cardinality(Tracked(u))
      /\ Cardinality(Tracked(t)) \in Nat /\ Cardinality(Tracked(u)) \in Nat
  BY <1>1, <1>2, FS_Subset, FS_CardinalityType
<1>4. CASE HasRoomFor(t, k)
  <2>1. seq # UNTRACKED /\ u = [t EXCEPT ![k] = seq]
    BY <1>4, TrackerAssumption DEF SeqNum, Insert
  <2> QED BY <1>3, <2>1 DEF Tracked
<1>5. CASE ~HasRoomFor(t, k)
  BY <1>3, <1>5, TrackerAssumption DEF HasRoomFor, Insert
<1> QED BY <1>3, <1>4, <1>5

-----------------------------------------------------------------------------
(* Types *)

LEMMA TypeInit == Init => TypeOK
BY DEF Init, TypeOK

LEMMA TypeNext == TypeOK /\ [Next]_vars => TypeOK'
<1> SUFFICES ASSUME TypeOK, [Next]_vars PROVE TypeOK'
  OBVIOUS
<1> USE DEF TypeOK
<1>1. ASSUME NEW c \in CPUs, NEW k \in Sources, NEW seq \in SeqNum,
             LearnSyn(c, k, seq)
      PROVE  TypeOK'
  BY <1>1, InsertProperties DEF LearnSyn
<1>2. ASSUME NEW c \in CPUs, NEW k \in Sources, NEW seq \in SeqNum,
             DropSegment(c, k, seq) \/ AcceptSegment(c, k, seq)
      PROVE  TypeOK'
  BY <1>2 DEF DropSegment, AcceptSegment
<1>3. ASSUME NEW c \in CPUs, StoreSeq(c)
      PROVE  TypeOK'
  <2>1. cpu[c].key \in Sources /\ cpu[c].seq \in SeqNum
    BY <1>3 DEF StoreSeq
  <2> QED BY <1>3, <2>1, InsertProperties DEF StoreSeq
<1>4. CASE UNCHANGED vars
  BY <1>4 DEF vars
<1> QED
  BY <1>1, <1>2, <1>3, <1>4 DEF Next, Receive, ReceiveSyn, ReceiveSynAck

(* The variables have their types.                                         *)
THEOREM TypeCorrect == Spec => []TypeOK
<1> QED BY TypeInit, TypeNext, PTL DEF Spec

-----------------------------------------------------------------------------
(* Peers locked out *)

(* One insertion, of a peer whose SYN passed or passes now, locks nobody   *)
(* out while there is room.                                                *)
LEMMA InsertLocksNobodyOut ==
  ASSUME TypeOK, LockedOutOnlyWhenFull, NEW k \in Sources, NEW seq \in SeqNum,
         tracker' = Insert(tracker, k, seq), opened' \subseteq opened \cup {k}
  PROVE  LockedOutOnlyWhenFull'
<1> SUFFICES ASSUME NEW j \in opened'
             PROVE  \/ j \in Tracked(tracker')
                    \/ Cardinality(Tracked(tracker')) >= MAX_TCP_ACK_SEQ_ENTRIES
  BY DEF LockedOutOnlyWhenFull
<1>1. tracker \in [Sources -> SeqNum \cup {UNTRACKED}]
  BY DEF TypeOK
<1>2. /\ Tracked(tracker) \subseteq Tracked(tracker')
      /\ tracker' \in [Sources -> SeqNum \cup {UNTRACKED}]
  BY <1>1, InsertProperties
<1>3. /\ Cardinality(Tracked(tracker)) <= Cardinality(Tracked(tracker'))
      /\ \/ k \in Tracked(tracker')
         \/ Cardinality(Tracked(tracker')) >= MAX_TCP_ACK_SEQ_ENTRIES
  BY <1>1, InsertTracks
<1>4. Cardinality(Tracked(tracker)) \in Int /\ Cardinality(Tracked(tracker')) \in Int
  <2>1. Tracked(tracker) \subseteq Sources /\ Tracked(tracker') \subseteq Sources
    BY <1>1, <1>2 DEF Tracked
  <2> QED BY <2>1, FS_Subset, FS_CardinalityType, PeersAssumption
<1>5. CASE j = k
  BY <1>3, <1>5
<1>6. CASE j \in opened
  BY <1>2, <1>3, <1>4, <1>6, TrackerAssumption DEF LockedOutOnlyWhenFull
<1> QED BY <1>5, <1>6

(* A peer whose SYN passed lacks an entry only while the tracker is full,  *)
(* however many CPUs insert.                                               *)
THEOREM LockedOut == Spec => []LockedOutOnlyWhenFull
<1>1. Init => LockedOutOnlyWhenFull
  BY DEF Init, LockedOutOnlyWhenFull
<1>2. ASSUME TypeOK, LockedOutOnlyWhenFull, [Next]_vars
      PROVE  LockedOutOnlyWhenFull'
  <2>1. ASSUME NEW c \in CPUs, NEW k \in Sources, NEW seq \in SeqNum,
               LearnSyn(c, k, seq)
        PROVE  LockedOutOnlyWhenFull'
    BY <1>2, <2>1, InsertLocksNobodyOut DEF LearnSyn
  <2>2. ASSUME NEW c \in CPUs, StoreSeq(c) PROVE LockedOutOnlyWhenFull'
    <3>1. cpu[c].key \in Sources /\ cpu[c].seq \in SeqNum
      BY <1>2, <2>2 DEF StoreSeq, TypeOK
    <3> QED BY <1>2, <2>2, <3>1, InsertLocksNobodyOut DEF StoreSeq
  <2>3. CASE UNCHANGED <<tracker, opened>>
    BY <1>2, <2>3 DEF LockedOutOnlyWhenFull
  <2> QED
    BY <1>2, <2>1, <2>2, <2>3
       DEF Next, Receive, ReceiveSyn, ReceiveSynAck, DropSegment,
           AcceptSegment, vars
<1> QED BY <1>1, <1>2, TypeCorrect, PTL DEF Spec

-----------------------------------------------------------------------------
(* Tracked sources *)

LEMMA OpenedNext ==
  TypeOK /\ OnlyOpenedSourcesPass /\ [Next]_vars => OnlyOpenedSourcesPass'
<1> SUFFICES ASSUME TypeOK, OnlyOpenedSourcesPass, [Next]_vars
             PROVE  OnlyOpenedSourcesPass'
  OBVIOUS
<1> USE DEF TypeOK, OnlyOpenedSourcesPass
<1>1. ASSUME NEW c \in CPUs, NEW k \in Sources, NEW seq \in SeqNum,
             LearnSyn(c, k, seq)
      PROVE  OnlyOpenedSourcesPass'
  BY <1>1, InsertProperties DEF LearnSyn
<1>2. ASSUME NEW c \in CPUs, NEW k \in Sources, NEW seq \in SeqNum,
             DropSegment(c, k, seq)
      PROVE  OnlyOpenedSourcesPass'
  BY <1>2 DEF DropSegment
<1>3. ASSUME NEW c \in CPUs, NEW k \in Sources, NEW seq \in SeqNum,
             AcceptSegment(c, k, seq)
      PROVE  OnlyOpenedSourcesPass'
  <2>1. k \in opened
    BY <1>3 DEF AcceptSegment, Accepts, Tracked
  <2> QED BY <1>3, <2>1 DEF AcceptSegment
<1>4. ASSUME NEW c \in CPUs, StoreSeq(c) PROVE OnlyOpenedSourcesPass'
  <2>1. cpu[c].key \in Sources /\ cpu[c].seq \in SeqNum /\ cpu[c].key \in opened
    BY <1>4 DEF StoreSeq
  <2> QED BY <1>4, <2>1, InsertProperties DEF StoreSeq
<1>5. CASE UNCHANGED vars
  BY <1>5 DEF vars, Tracked
<1> QED
  BY <1>1, <1>2, <1>3, <1>4, <1>5 DEF Next, Receive, ReceiveSyn, ReceiveSynAck

(* No segment other than a SYN passes from a source no SYN was accepted    *)
(* from, in any interleaving of lookups and insertions.                    *)
THEOREM OpenedOnly == Spec => []OnlyOpenedSourcesPass
<1>1. Init => OnlyOpenedSourcesPass
  BY DEF Init, OnlyOpenedSourcesPass, Tracked
<1> QED BY <1>1, OpenedNext, TypeCorrect, PTL DEF Spec

(* A CPU about to store a number finds the entry it looked up: the         *)
(* insertion whose result is ignored does not fail.                        *)
THEOREM StoreSucceeds == Spec => []StoredWhereLookedUp
<1> DEFINE Held == \A c \in CPUs : cpu[c] # NONE => cpu[c].key \in Tracked(tracker)
<1>1. Init => Held
  BY DEF Init
<1>2. ASSUME TypeOK, Held, [Next]_vars PROVE Held'
  <2> USE <1>2 DEF TypeOK
  <2>1. ASSUME NEW c \in CPUs, NEW k \in Sources, NEW seq \in SeqNum,
               LearnSyn(c, k, seq)
        PROVE  Held'
    <3>1. Tracked(tracker) \subseteq Tracked(tracker')
      BY <2>1, InsertProperties DEF LearnSyn
    <3>2. Tracked(tracker)' = Tracked(tracker')
      OBVIOUS
    <3> QED BY <2>1, <3>1, <3>2 DEF LearnSyn
  <2>2. ASSUME NEW c \in CPUs, NEW k \in Sources, NEW seq \in SeqNum,
               AcceptSegment(c, k, seq)
        PROVE  Held'
    <3>1. k \in Tracked(tracker)
      BY <2>2 DEF AcceptSegment, Accepts, Tracked
    <3> QED BY <2>2, <3>1 DEF AcceptSegment, Tracked
  <2>3. ASSUME NEW c \in CPUs, StoreSeq(c) PROVE Held'
    <3>1. cpu[c].key \in Sources /\ cpu[c].seq \in SeqNum
      BY <2>3 DEF StoreSeq
    <3>2. Tracked(tracker) \subseteq Tracked(tracker')
      BY <2>3, <3>1, InsertProperties DEF StoreSeq
    <3> QED BY <2>3, <3>2 DEF StoreSeq
  <2>4. CASE UNCHANGED <<tracker, cpu>>
    BY <2>4
  <2> QED
    BY <2>1, <2>2, <2>3, <2>4
       DEF Next, Receive, ReceiveSyn, ReceiveSynAck, DropSegment, vars
<1>3. Held => StoredWhereLookedUp
  BY DEF StoredWhereLookedUp, HasRoomFor
<1> QED BY <1>1, <1>2, <1>3, TypeCorrect, PTL DEF Spec
=============================================================================
