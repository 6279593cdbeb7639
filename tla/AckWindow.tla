----------------------------- MODULE AckWindow ------------------------------
(***************************************************************************)
(* The sequence-number tracker of the TCP ACK flood protection             *)
(* (src/ebpf/protect.rs): a bounded hash map from a TCP source, that is an *)
(* address and a source port, to the last sequence number accepted from    *)
(* it, and the window test on wrapping 32-bit sequence numbers.            *)
(***************************************************************************)
EXTENDS Integers, FiniteSets

CONSTANTS
  SEQ_MOD,                  \* sequence numbers wrap here: 2^32 in the code
  ACK_WINDOW,               \* largest forward step accepted: 0xffff
  MAX_TCP_ACK_SEQ_ENTRIES,  \* capacity of the tracker: 32768
  UNTRACKED                 \* no entry for this source

ASSUME SequenceAssumption ==
  SEQ_MOD \in Nat \ {0} /\ ACK_WINDOW \in 0 .. SEQ_MOD - 1
ASSUME TrackerAssumption ==
  MAX_TCP_ACK_SEQ_ENTRIES \in Nat /\ UNTRACKED \notin 0 .. SEQ_MOD - 1

SeqNum == 0 .. SEQ_MOD - 1

\* Mutant: the difference taken the other way round.
DeltaBackwards(seq, pre_seq) == (pre_seq - seq) % SEQ_MOD

(* seq.wrapping_sub(pre_seq)                                               *)
Delta(seq, pre_seq) == (seq - pre_seq) % SEQ_MOD

\* Mutant: no wrapping.
InWindowUnwrapped(seq, pre_seq) ==
  seq >= pre_seq /\ seq - pre_seq <= ACK_WINDOW

InWindow(seq, pre_seq) == Delta(seq, pre_seq) <= ACK_WINDOW

Tracked(tracker) == {k \in DOMAIN tracker : tracker[k] # UNTRACKED}

(* HashMap::insert with flags 0: overwrites an entry, adds one while there *)
(* is room, and otherwise fails; the caller ignores the failure.           *)
HasRoomFor(tracker, key) ==
  \/ key \in Tracked(tracker)
  \/ Cardinality(Tracked(tracker)) < MAX_TCP_ACK_SEQ_ENTRIES

\* Mutant: a full map makes room by evicting an entry.
InsertEvicting(tracker, key, seq) ==
  LET victim == CHOOSE k \in Tracked(tracker) : TRUE IN
  IF HasRoomFor(tracker, key)
    THEN [tracker EXCEPT ![key] = seq]
    ELSE [tracker EXCEPT ![key] = seq, ![victim] = UNTRACKED]

Insert(tracker, key, seq) ==
  IF HasRoomFor(tracker, key) THEN [tracker EXCEPT ![key] = seq] ELSE tracker
=============================================================================
