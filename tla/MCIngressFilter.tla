--------------------------- MODULE MCIngressFilter --------------------------
(***************************************************************************)
(* Small instances of IngressFilter: two interfaces, two-bit addresses,    *)
(* ports 0 to 2, sequence numbers modulo 4.                                *)
(***************************************************************************)
EXTENDS IngressFilter

CONSTANTS eth0, eth1  \* model values

MCIfaces == {eth0, eth1}

-----------------------------------------------------------------------------
(* Pieces of configurations *)

Range(addr, len)  == [addr |-> addr, len |-> len]
Udp(ranges, port) == [ranges |-> ranges, src_port |-> port]
Tcp(ranges, port) == [ranges |-> ranges, port |-> port]

TcpSection(rules, outgoing, flood) ==
  [rules |-> rules, allow_outgoing |-> outgoing, tcp_ack_flood |-> flood]

Only(iface, udp, tcp) ==
  [Unconfigured EXCEPT ![iface] = [udp |-> udp, tcp |-> tcp]]

Both(udp0, tcp0, udp1, tcp1) ==
  [i \in Ifaces |-> IF i = eth0 THEN [udp |-> udp0, tcp |-> tcp0]
                                ELSE [udp |-> udp1, tcp |-> tcp1]]

\* Ranges as a user writes them: the first two have bits below the prefix.
Low  == Range(1, 1)   \* 0 and 1
High == Range(3, 1)   \* 2 and 3
Two  == Range(2, 2)   \* 2

-----------------------------------------------------------------------------
(* Packets *)

UdpFrom(iface, src, sport) ==
  [proto |-> "UDP", iface |-> iface, src |-> src, sport |-> sport]

\* Every peer has source port 1.
TcpFrom(iface, src, dport, flags, seq) ==
  [proto |-> "TCP", iface |-> iface, src |-> src, sport |-> 1,
   dport |-> dport, syn |-> "S" \in flags, ack |-> "A" \in flags,
   payload |-> "P" \in flags, seq |-> seq]

Other(iface) == [proto |-> "OTHER", iface |-> iface]

Syn    == {"S"}
SynAck == {"S", "A"}
Ack    == {"A"}
Data   == {"A", "P"}

-----------------------------------------------------------------------------
(* Any configurations: overlapping ranges, wildcard ports, prefixes shared *)
(* by the interfaces, a section on one interface only, flood protection    *)
(* with replies allowed, one that does not fit the maps.  Sets are written in the order in which TLC sorts them:   *)
(* its workers share them, and sorting them twice at once is not safe.     *)
AnyConfigs ==
  {Only(eth1, NONE, TcpSection({Tcp({Low, Two, High}, 1)}, TRUE, FALSE)),
   Only(eth1, {Udp({High}, 2)},
              TcpSection({Tcp({Two}, 2), Tcp({High}, 0), Tcp({High}, 1)},
                         FALSE, TRUE)),
   Only(eth0, NONE, TcpSection({Tcp({Low}, 1)}, TRUE, TRUE)),
   Only(eth0, NONE, TcpSection({Tcp({}, 2), Tcp({Low}, 1)}, TRUE, FALSE)),
   Only(eth0, {Udp({}, NONE), Udp({Two}, 1)}, NONE)}

AnyPackets ==
  {UdpFrom(i, a, s) : i \in Ifaces, a \in {0, 2}, s \in {1, 2}}
  \cup {TcpFrom(i, a, d, Syn, 3) : i \in Ifaces, a \in {0, 2}, d \in {1, 2}}
  \cup {TcpFrom(eth0, 2, 1, f, 3) : f \in {Ack, SynAck, Data}}
  \cup {TcpFrom(eth1, 2, 1, Data, s) : s \in {0, 1}}
  \cup {Other(eth0)}

(* Separated configurations, however they are merged.                      *)
SeparatedConfigs ==
  {Both(NONE, TcpSection({Tcp({Two}, 2)}, TRUE, FALSE),
        NONE, TcpSection({Tcp({Low}, 1)}, TRUE, TRUE)),
   Both(NONE, TcpSection({Tcp({Low}, 1), Tcp({Two}, 2)}, FALSE, TRUE),
        NONE, TcpSection({Tcp({Low}, 1)}, TRUE, FALSE)),
   Both({Udp({Low}, 1)}, NONE, {Udp({Low}, 1), Udp({High}, 2)}, NONE)}

SeparatedPackets ==
  {UdpFrom(i, a, s) : i \in Ifaces, a \in {1, 2}, s \in {1, 2}}
  \cup {TcpFrom(i, a, d, Syn, 3) : i \in Ifaces, a \in {1, 2}, d \in {1, 2}}
  \cup {TcpFrom(i, 1, 1, Data, s) : i \in Ifaces, s \in {1, 3, 0}}
  \cup {TcpFrom(i, 1, 2, SynAck, 0) : i \in Ifaces}

\* SeparatedConfigs before the first apply and under each merge.
RECURSIVE Merges(_)
Merges(cs) ==
  LET more == cs \cup {Merge(new, old) : new \in SeparatedConfigs, old \in cs}
  IN IF more = cs THEN cs ELSE Merges(more)

ASSUME SeparatedAssumption ==
  \A c \in Merges({Unconfigured}) : Separated(c)

-----------------------------------------------------------------------------
(* One disagreement each *)

UdpOnly == {Only(eth0, {Udp({}, NONE)}, NONE)}
OneEach ==
  {Both({Udp({Low}, 1)}, NONE, NONE, TcpSection({Tcp({High}, 2)}, TRUE, FALSE))}
SharedPrefix ==
  {Both(NONE, TcpSection({Tcp({Low}, 1), Tcp({High}, 2)}, TRUE, FALSE),
        NONE, TcpSection({Tcp({High}, 1)}, TRUE, FALSE))}

\* Small traffic for them.
FewPackets ==
  {UdpFrom(i, a, 1) : i \in Ifaces, a \in {0, 2}}
  \cup {TcpFrom(i, a, 1, f, 3) : i \in Ifaces, a \in {0, 2},
                                 f \in {Syn, SynAck, Ack}}
=============================================================================
