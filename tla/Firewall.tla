------------------------------ MODULE Firewall ------------------------------
(***************************************************************************)
(* What efense promises of the traffic of a host, said of the configura-   *)
(* tion alone: no tries, no shared tables, no default actions.             *)
(*                                                                         *)
(*   A protocol without a section on the interface is not filtered.        *)
(*   With a section, a packet passes when a rule of this section lists it; *)
(*   with allow_outgoing every TCP packet passes that asks for no new      *)
(*   connection; everything else is dropped.                               *)
(*   The flood protection may drop TCP packets other than connection       *)
(*   requests, and drops all those of a source it has seen no SYN from.    *)
(*                                                                         *)
(* IngressFilter implements this specification as long as the merged       *)
(* configuration is Separated (see there).                                 *)
(***************************************************************************)
EXTENDS Traffic

CONSTANT Configs  \* the configurations handed to efctl apply

VARIABLES
  policy,  \* the merged configuration
  seen,    \* TCP sources the flood protection knows
  out      \* the last packet and its verdict

ListedUdp(p) ==
  \E r \in policy[p.iface].udp :
    /\ r.src_port \in {NONE, p.sport}
    /\ \E x \in RulePrefixes(r.ranges) : Covers(x, p.src)

ListedTcp(p) ==
  \E r \in policy[p.iface].tcp.rules :
    /\ r.port = p.dport
    /\ \E x \in RulePrefixes(r.ranges) : Covers(x, p.src)

(* What the configuration says of the packet.                              *)
Admits(p) ==
  \/ p.proto = "OTHER"
  \/ /\ p.proto = "UDP"
     /\ policy[p.iface].udp = NONE \/ ListedUdp(p)
  \/ /\ p.proto = "TCP"
     /\ \/ policy[p.iface].tcp = NONE
        \/ policy[p.iface].tcp.allow_outgoing /\ ~PureSyn(p)
        \/ ListedTcp(p)

Protected(p) ==
  /\ p.proto = "TCP"
  /\ policy[p.iface].tcp # NONE
  /\ policy[p.iface].tcp.tcp_ack_flood

Init == policy = Unconfigured /\ seen = {} /\ out = NoPacket

Pass(p) ==
  /\ Admits(p)
  /\ Protected(p) /\ ~p.syn => AckTrackKey(p) \in seen
  /\ out' = [pkt |-> p, verdict |-> "XDP_PASS"]

Drop(p) ==
  /\ Admits(p) => Protected(p) /\ ~PureSyn(p)
  /\ out' = [pkt |-> p, verdict |-> "XDP_DROP"]

(* A SYN makes its source known, unless the protection is out of room.     *)
Learn(p) ==
  \/ UNCHANGED seen
  \/ Protected(p) /\ p.syn /\ seen' = seen \cup {AckTrackKey(p)}

Handle(p) == (Pass(p) \/ Drop(p)) /\ Learn(p) /\ UNCHANGED policy

Configure(c) ==
  /\ policy' = Merge(c, policy)
  /\ seen' = {}
  /\ out' = NoPacket

Next == (\E p \in Packets : Handle(p)) \/ (\E c \in Configs : Configure(c))

Spec == Init /\ [][Next]_<<policy, seen, out>>
=============================================================================
