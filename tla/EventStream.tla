---------------------------- MODULE EventStream -----------------------------
(***************************************************************************)
(* What "efctl monitor" promises of the events the kernel has stored for   *)
(* it: those of each kind are shown one by one in the order in which they  *)
(* were stored, each once, and all of them as long as the session goes on. *)
(* The end of a session may take the oldest events with it, or leave the   *)
(* last one of a kind that was shown for the next session to show again.   *)
(* Rings, channel, tasks and CPUs are not mentioned.                       *)
(***************************************************************************)
EXTENDS Naturals, Sequences

CONSTANTS
  Rings,  \* the kinds of events
  Events  \* the events there are

VARIABLES
  watching,  \* a session shows events
  pending,   \* per kind, the events stored and not shown yet
  shown      \* per kind, what the session that runs has shown

vars == <<watching, pending, shown>>

Init ==
  /\ watching = FALSE
  /\ pending = [q \in Rings |-> <<>>]
  /\ shown = [q \in Rings |-> <<>>]

Begin ==
  /\ ~watching
  /\ watching' = TRUE
  /\ UNCHANGED <<pending, shown>>

Store(q) ==
  /\ \E e \in Events : pending' = [pending EXCEPT ![q] = Append(@, e)]
  /\ UNCHANGED <<watching, shown>>

Show(q) ==
  /\ watching
  /\ pending[q] # <<>>
  /\ shown' = [shown EXCEPT ![q] = Append(@, Head(pending[q]))]
  /\ pending' = [pending EXCEPT ![q] = Tail(@)]
  /\ UNCHANGED watching

Losing(q) ==
  \E lost \in 0 .. Len(pending[q]) :
    pending'[q] = SubSeq(pending[q], lost + 1, Len(pending[q]))

Repeating(q) ==
  /\ shown[q] # <<>>
  /\ pending'[q] = <<shown[q][Len(shown[q])]>> \o pending[q]

End ==
  /\ watching
  /\ watching' = FALSE
  /\ DOMAIN pending' = Rings
  /\ \A q \in Rings : Losing(q) \/ Repeating(q)
  /\ shown' = [q \in Rings |-> <<>>]

Next == Begin \/ End \/ \E q \in Rings : Store(q) \/ Show(q)

(* What may happen, and what must.                                         *)
Order == Init /\ [][Next]_vars

Delivery == \A q \in Rings : WF_vars(Show(q))

Spec == Order /\ Delivery
=============================================================================
