---------------------------- MODULE MCAckTracker ----------------------------
(* AckTracker with few CPUs and sources; sequence numbers wrap at SEQ_MOD. *)
EXTENDS AckTracker, TLC

Symmetry == Permutations(CPUs) \cup Permutations(Sources)
=============================================================================
