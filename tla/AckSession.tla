----------------------------- MODULE AckSession -----------------------------
(***************************************************************************)
(* TCP connections whose segments pass the ACK flood protection            *)
(* (src/ebpf/protect.rs) on their way to the receiver, on several CPUs.    *)
(*                                                                         *)
(* Senders, network and receivers are the environment of efense and kept   *)
(* small: a sender has up to SEND_WINDOW segments outstanding and sends    *)
(* the oldest one again, the network loses, reorders and delays segments,  *)
(* the receiver acknowledges what it has without gaps.  Segment n carries  *)
(* the initial sequence number plus n; segment 0 is the SYN, or the        *)
(* SYN-ACK of a connection the host has opened.                            *)
(***************************************************************************)
EXTENDS AckWindow

CONSTANTS
  CPUs,         \* the CPUs that receive the segments
  Connections,  \* TCP connections of peers with the host
  KeyOf,        \* the AckTrackKey of each connection
  Isns,         \* initial sequence numbers the peers may choose
  SEGMENTS,     \* how many segments of data a sender has to deliver
  SEND_WINDOW,  \* how many of them it sends ahead of the acknowledgement
  LIFETIME,     \* how far the sender gets while a segment is under way
  NONE          \* a CPU that handles no segment

ASSUME PeersAssumption ==
  /\ Isns \subseteq SeqNum
  /\ SEGMENTS \in Nat /\ SEND_WINDOW \in Nat \ {0} /\ LIFETIME \in Nat

Keys == {KeyOf[c] : c \in Connections}

Segment == 0 .. SEGMENTS

Work == [conn : Connections, seg : Segment]

ASSUME NoneAssumption == NONE \notin Work

VARIABLES
  isn,      \* initial sequence number of each connection
  tracker,  \* TCP_ACK_SEQ_TRACKER
  cpu,      \* the segment each CPU has accepted and not yet stored
  acked,    \* how many segments are acknowledged, the SYN included
  sent,     \* how many have been sent
  net,      \* the segments under way
  got       \* the segments received

vars == <<isn, tracker, cpu, acked, sent, net, got>>

Seq(c, n) == (isn[c] + n) % SEQ_MOD

Init ==
  /\ isn \in [Connections -> Isns]
  /\ tracker = [k \in Keys |-> UNTRACKED]
  /\ cpu = [p \in CPUs |-> NONE]
  /\ acked = [c \in Connections |-> 0]
  /\ sent = [c \in Connections |-> 0]
  /\ net = [c \in Connections |-> {}]
  /\ got = [c \in Connections |-> {}]

-----------------------------------------------------------------------------
(* The sender.  Nothing follows the SYN before it is acknowledged.         *)

Window(c) == IF acked[c] = 0 THEN 1 ELSE SEND_WINDOW

UnderWay(c) ==
  net[c] \cup {cpu[p].seg : p \in {q \in CPUs : cpu[q] # NONE /\ cpu[q].conn = c}}

(* By the time a segment is sent, those LIFETIME and more before it have   *)
(* left the network and the CPUs.                                          *)
Send(c) ==
  /\ sent[c] \in Segment
  /\ sent[c] < acked[c] + Window(c)
  /\ \A n \in UnderWay(c) : sent[c] - n <= LIFETIME
  /\ sent' = [sent EXCEPT ![c] = @ + 1]
  /\ net' = [net EXCEPT ![c] = @ \cup {sent[c]}]
  /\ UNCHANGED <<isn, tracker, cpu, acked, got>>

Retransmit(c) ==
  /\ acked[c] < sent[c]
  /\ net' = [net EXCEPT ![c] = @ \cup {acked[c]}]
  /\ UNCHANGED <<isn, tracker, cpu, acked, sent, got>>

-----------------------------------------------------------------------------
(* The network and the receiver *)

Taken(c, n) == n \in net[c] /\ net' = [net EXCEPT ![c] = @ \ {n}]

Received(c, n) == got' = [got EXCEPT ![c] = @ \cup {n}]

Lose(c, n) == Taken(c, n) /\ UNCHANGED <<isn, tracker, cpu, acked, sent, got>>

Acknowledge(c) ==
  /\ acked[c] \in got[c]
  /\ acked' = [acked EXCEPT ![c] = @ + 1]
  /\ UNCHANGED <<isn, tracker, cpu, sent, net, got>>

-----------------------------------------------------------------------------
(* The protection: a SYN is stored and passes...                           *)
PassSyn(c) ==
  /\ Taken(c, 0)
  /\ tracker' = Insert(tracker, KeyOf[c], Seq(c, 0))
  /\ Received(c, 0)
  /\ UNCHANGED <<isn, cpu, acked, sent>>

Accepts(c, n) ==
  LET pre_seq == tracker[KeyOf[c]] IN
  pre_seq # UNTRACKED /\ InWindow(Seq(c, n), pre_seq)

(* ... any other segment is judged by the number stored last...            *)
Drop(c, n) ==
  /\ n # 0
  /\ ~Accepts(c, n)
  /\ Taken(c, n)
  /\ UNCHANGED <<isn, tracker, cpu, acked, sent, got>>

Accept(p, c, n) ==
  /\ n # 0
  /\ cpu[p] = NONE
  /\ Accepts(c, n)
  /\ Taken(c, n)
  /\ cpu' = [cpu EXCEPT ![p] = [conn |-> c, seg |-> n]]
  /\ UNCHANGED <<isn, tracker, acked, sent, got>>

\* Mutant: the number is stored without wrapping.
StoreUnwrapped(p) ==
  LET c == cpu[p].conn
      n == cpu[p].seg
  IN  /\ cpu[p] # NONE
      /\ tracker' = Insert(tracker, KeyOf[c], isn[c] + n)
      /\ Received(c, n)
      /\ cpu' = [cpu EXCEPT ![p] = NONE]
      /\ UNCHANGED <<isn, acked, sent, net>>

(* ... and passes when its own number has been stored.                     *)
Store(p) ==
  LET c == cpu[p].conn
      n == cpu[p].seg
  IN  /\ cpu[p] # NONE
      /\ tracker' = Insert(tracker, KeyOf[c], Seq(c, n))
      /\ Received(c, n)
      /\ cpu' = [cpu EXCEPT ![p] = NONE]
      /\ UNCHANGED <<isn, acked, sent, net>>

Arrive(c, n) ==
  \/ n = 0 /\ PassSyn(c)
  \/ Drop(c, n)
  \/ \E p \in CPUs : Accept(p, c, n)

-----------------------------------------------------------------------------
Delivered(c) == got[c] = Segment

Finished ==
  /\ \A c \in Connections : acked[c] = SEGMENTS + 1 /\ net[c] = {}
  /\ \A p \in CPUs : cpu[p] = NONE
  /\ UNCHANGED vars

Next ==
  \/ Finished
  \/ \E p \in CPUs : Store(p)
  \/ \E c \in Connections :
       \/ Send(c) \/ Retransmit(c) \/ Acknowledge(c)
       \/ \E n \in Segment : Lose(c, n) \/ Arrive(c, n)

(* A sender sends what it may, its timer fires while something is          *)
(* outstanding, acknowledgements arrive, a segment that is sent again and  *)
(* again is not lost every time, nothing stays in the network, and the     *)
(* program runs to its end.                                                *)
Fairness ==
  /\ \A c \in Connections :
       /\ WF_vars(Send(c)) /\ WF_vars(Retransmit(c)) /\ WF_vars(Acknowledge(c))
       /\ SF_vars(Arrive(c, acked[c]))
       /\ WF_vars(\E n \in Segment : Arrive(c, n))
  /\ \A p \in CPUs : WF_vars(Store(p))

Spec == Init /\ [][Next]_vars /\ Fairness

-----------------------------------------------------------------------------
(* Properties *)

(* The variables have their types, no sender runs further ahead than its   *)
(* window, and what is acknowledged has been received.                     *)
TypeOK ==
  /\ isn \in [Connections -> SeqNum]
  /\ tracker \in [Keys -> SeqNum \cup {UNTRACKED}]
  /\ cpu \in [CPUs -> Work \cup {NONE}]
  /\ acked \in [Connections -> 0 .. SEGMENTS + 1]
  /\ sent \in [Connections -> 0 .. SEGMENTS + 1]
  /\ net \in [Connections -> SUBSET Segment]
  /\ got \in [Connections -> SUBSET Segment]
  /\ \A c \in Connections :
       /\ sent[c] \in acked[c] .. acked[c] + Window(c)
       /\ UnderWay(c) \cup got[c] \subseteq 0 .. sent[c] - 1
       /\ 0 .. acked[c] - 1 \subseteq got[c]

(* A segment the receiver still waits for is inside the window of the      *)
(* tracker whenever it arrives (protect.rs:98-108), although other         *)
(* connections share the tracker, copies of the SYN arrive late            *)
(* (protect.rs:90) and CPUs store numbers in another order than they       *)
(* accepted them (protect.rs:110).                                         *)
MissingSegmentsPass ==
  \A c \in Connections : \A n \in net[c] \ got[c] : n = 0 \/ Accepts(c, n)

(* The protection is there to "drop illegal TCP ACK before send to kernel  *)
(* process" (README.md:53): connections that keep to TCP deliver all their *)
(* segments.                                                               *)
AllDelivered == <>(\A c \in Connections : Delivered(c))
=============================================================================
