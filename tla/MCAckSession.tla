---------------------------- MODULE MCAckSession ----------------------------
(* AckSession with connections of different peers, or of one peer that     *)
(* uses another source port for each.                                      *)
EXTENDS AckSession

OwnKeys == [c \in Connections |-> c]
=============================================================================
