----------------------------- MODULE AckTracker -----------------------------
(***************************************************************************)
(* protect_tcp_ack_flood (src/ebpf/protect.rs) on several CPUs at once,    *)
(* on one interface with the protection enabled.                           *)
(*                                                                         *)
(* Every CPU runs the XDP program on its own packets, and all of them      *)
(* share TCP_ACK_SEQ_TRACKER without a lock.  A single map operation is    *)
(* atomic, but a segment of a tracked source takes two of them: the lookup *)
(* that judges its sequence number and the insertion that stores it.       *)
(***************************************************************************)
EXTENDS AckWindow

CONSTANTS
  CPUs,           \* the CPUs that receive packets
  Sources,        \* TCP peers: a source address and a source port
  AllowOutgoing,  \* allow_outgoing of the interface
  NONE            \* a CPU that handles no segment

ASSUME PeersAssumption ==
  /\ IsFiniteSet(Sources) /\ AllowOutgoing \in BOOLEAN
  /\ NONE \notin [key : Sources, seq : SeqNum]

VARIABLES
  tracker,  \* TCP_ACK_SEQ_TRACKER
  cpu,      \* the segment each CPU has accepted and not yet stored
  opened,   \* history: sources a SYN was accepted from
  passed    \* history: sources another segment was accepted from

vars == <<tracker, cpu, opened, passed>>

Init ==
  /\ tracker = [k \in Sources |-> UNTRACKED]
  /\ cpu = [c \in CPUs |-> NONE]
  /\ opened = {}
  /\ passed = {}

-----------------------------------------------------------------------------
(* A SYN, or a SYN-ACK where outgoing connections are allowed: one insert. *)
LearnSyn(c, k, seq) ==
  /\ cpu[c] = NONE
  /\ tracker' = Insert(tracker, k, seq)
  /\ opened' = opened \cup {k}
  /\ UNCHANGED <<cpu, passed>>

\* Mutant: the SYN-ACK passes and its number is not learned.
PassSynAck(c, k, seq) ==
  /\ AllowOutgoing /\ cpu[c] = NONE
  /\ opened' = opened \cup {k}
  /\ UNCHANGED <<tracker, cpu, passed>>

ReceiveSyn(c, k, seq)    == LearnSyn(c, k, seq)
ReceiveSynAck(c, k, seq) == AllowOutgoing /\ LearnSyn(c, k, seq)

(* Any other segment: a source that is not tracked or a sequence number    *)
(* out of the window is dropped; else the CPU goes on to store the number. *)
\* Mutant: a source that is not tracked is accepted.
AcceptsUntracked(k, seq) ==
  tracker[k] # UNTRACKED => InWindow(seq, tracker[k])

Accepts(k, seq) == tracker[k] # UNTRACKED /\ InWindow(seq, tracker[k])

DropSegment(c, k, seq) ==
  /\ cpu[c] = NONE
  /\ ~Accepts(k, seq)
  /\ UNCHANGED <<tracker, cpu, opened, passed>>

AcceptSegment(c, k, seq) ==
  /\ cpu[c] = NONE
  /\ Accepts(k, seq)
  /\ cpu' = [cpu EXCEPT ![c] = [key |-> k, seq |-> seq]]
  /\ UNCHANGED <<tracker, opened, passed>>

\* Mutant: the next number expected, computed without wrapping.
StoreNextSeq(c) ==
  /\ cpu[c] # NONE
  /\ tracker' = Insert(tracker, cpu[c].key, cpu[c].seq + 1)
  /\ passed' = passed \cup {cpu[c].key}
  /\ cpu' = [cpu EXCEPT ![c] = NONE]
  /\ UNCHANGED opened

StoreSeq(c) ==
  /\ cpu[c] # NONE
  /\ tracker' = Insert(tracker, cpu[c].key, cpu[c].seq)
  /\ passed' = passed \cup {cpu[c].key}
  /\ cpu' = [cpu EXCEPT ![c] = NONE]
  /\ UNCHANGED opened

Receive(c, k, seq) ==
  \/ ReceiveSyn(c, k, seq) \/ ReceiveSynAck(c, k, seq)
  \/ DropSegment(c, k, seq) \/ AcceptSegment(c, k, seq)

Next ==
  \E c \in CPUs :
    \/ StoreSeq(c)
    \/ \E k \in Sources, seq \in SeqNum : Receive(c, k, seq)

Spec == Init /\ [][Next]_vars

-----------------------------------------------------------------------------
(* Properties *)

(* The variables have their types.                                         *)
TypeOK ==
  /\ tracker \in [Sources -> SeqNum \cup {UNTRACKED}]
  /\ cpu \in [CPUs -> [key : Sources, seq : SeqNum] \cup {NONE}]
  /\ opened \subseteq Sources
  /\ passed \subseteq Sources

(* A peer whose SYN passed is locked out - every further segment of it is  *)
(* dropped for want of an entry (protect.rs:117-123) - only while the      *)
(* tracker is full: the ignored failure of protect.rs:90 is the one way to *)
(* lose a connection that was opened, and no CPU's insertion takes away    *)
(* the entry of another peer.                                              *)
LockedOutOnlyWhenFull ==
  \A k \in opened :
    \/ k \in Tracked(tracker)
    \/ Cardinality(Tracked(tracker)) >= MAX_TCP_ACK_SEQ_ENTRIES

(* Only after a SYN from the same source does any other segment pass       *)
(* (protect.rs:95-124: "No entry => drop"), also when the lookup and the   *)
(* insertion of several CPUs are interleaved.                              *)
OnlyOpenedSourcesPass ==
  /\ Tracked(tracker) \cup passed \subseteq opened
  /\ \A c \in CPUs : cpu[c] # NONE => cpu[c].key \in opened

(* Only a source that is tracked waits for its number to be stored, so     *)
(* that an insertion whose failure is ignored (protect.rs:110) never fails *)
(* for a segment: what it stores is what later segments are judged by.     *)
StoredWhereLookedUp ==
  \A c \in CPUs : cpu[c] # NONE => HasRoomFor(tracker, cpu[c].key)
=============================================================================
