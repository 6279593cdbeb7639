----------------------------- MODULE PolicyMaps -----------------------------
(***************************************************************************)
(* The configuration of efense and the eBPF map contents compiled from it. *)
(*                                                                         *)
(* A configuration gives every interface an optional UDP section and an    *)
(* optional TCP section, each with an allow list.  "efctl apply" merges it *)
(* with the configuration in force (src/lib/config.rs) and flattens the    *)
(* result into the maps the XDP program looks up (src/cli/apply.rs):       *)
(*                                                                         *)
(*   per interface   a trie of source prefixes for each protocol           *)
(*   shared by all   the set of (prefix, port) pairs of each protocol,     *)
(*                   the (interface, port) allow list of both protocols,   *)
(*                   and one default action per protocol.                  *)
(*                                                                         *)
(* An interface stands for its name and its index at once; an interface    *)
(* with neither section is one the configuration does not mention.         *)
(* Addresses have AddrBits bits, ports run from 0 to MaxPort.              *)
(***************************************************************************)
EXTENDS Integers, FiniteSets

CONSTANTS
  Ifaces,     \* network interfaces of the host
  AddrBits,   \* width of an address: 32 in the code
  MaxPort,    \* largest port: 65535 in the code
  NONE,       \* an absent section or source port
  MAX_IFACES, MAX_PREFIXES,                             \* map capacities
  MAX_PREFIX_PORT_ENTRIES, MAX_PORT_ALLOW_LIST_ENTRIES

ASSUME AddressAssumption == AddrBits \in Nat /\ MaxPort \in Nat
ASSUME CapacityAssumption ==
  {MAX_IFACES, MAX_PREFIXES,
   MAX_PREFIX_PORT_ENTRIES, MAX_PORT_ALLOW_LIST_ENTRIES} \subseteq Nat

-----------------------------------------------------------------------------
(* Addresses, prefixes and ports *)

ACTION_PASS == 0
ACTION_DROP == 1
PORT_ANY == 0

(* Two to the power n, as a function that proofs can unfold.               *)
Pow2[n \in Nat] == IF n = 0 THEN 1 ELSE 2 * Pow2[n - 1]

Port   == 0 .. MaxPort
Addr   == 0 .. Pow2[AddrBits] - 1
Prefix == [addr : Addr, len : 0 .. AddrBits]

(* The leading len bits of an address, the bits below them cleared.        *)
Mask(addr, len) == addr - (addr % Pow2[AddrBits - len])

(* Ipv4Cidr::new: the one canonical form of a range as the user wrote it.  *)
Canonical(range) == [addr |-> Mask(range.addr, range.len), len |-> range.len]

AnySource == [addr |-> 0, len |-> 0]

Covers(prefix, addr) == Mask(addr, prefix.len) = Mask(prefix.addr, prefix.len)

-----------------------------------------------------------------------------
(* Configurations *)

UdpRule == [ranges : SUBSET Prefix, src_port : Port \cup {NONE}]
TcpRule == [ranges : SUBSET Prefix, port : Port]

UdpPolicy == SUBSET UdpRule
TcpPolicy == [rules : SUBSET TcpRule, allow_outgoing : BOOLEAN,
              tcp_ack_flood : BOOLEAN]

Interface == [udp : UdpPolicy \cup {NONE}, tcp : TcpPolicy \cup {NONE}]
Config    == [Ifaces -> Interface]

Unconfigured == [i \in Ifaces |-> [udp |-> NONE, tcp |-> NONE]]

(* Interface::merge and EfenseConfig::merge: what the new configuration    *)
(* leaves out is taken from the one in force.                              *)
Merge(new, old) ==
  [i \in Ifaces |->
     [udp |-> IF new[i].udp = NONE THEN old[i].udp ELSE new[i].udp,
      tcp |-> IF new[i].tcp = NONE THEN old[i].tcp ELSE new[i].tcp]]

WithUdp(c) == {i \in Ifaces : c[i].udp # NONE}
WithTcp(c) == {i \in Ifaces : c[i].tcp # NONE}

-----------------------------------------------------------------------------
(* Rule expansion: the (prefix, port) pairs an allow list stands for *)

RulePrefixes(ranges) ==
  IF ranges = {} THEN {AnySource} ELSE {Canonical(r) : r \in ranges}

RulePort(src_port) == IF src_port = NONE THEN PORT_ANY ELSE src_port

UdpPairs(c, i) ==
  UNION {RulePrefixes(r.ranges) \X {RulePort(r.src_port)} : r \in c[i].udp}

TcpPairs(c, i) ==
  UNION {RulePrefixes(r.ranges) \X {r.port} : r \in c[i].tcp.rules}

PrefixesOf(pairs) == {k[1] : k \in pairs}

-----------------------------------------------------------------------------
(* The maps that populate_maps fills *)

(* UDP_IN_IF2LPM and TCP_IN_IF2LPM: a trie for each interface that has a   *)
(* section for the protocol.                                               *)
UdpTries(c) == [i \in WithUdp(c) |-> PrefixesOf(UdpPairs(c, i))]
TcpTries(c) == [i \in WithTcp(c) |-> PrefixesOf(TcpPairs(c, i))]

(* Both protocols have default action drop, so every rule's action is the  *)
(* opposite one; the key holds no interface.                               *)
UdpPortAction(c) ==
  [k \in UNION {UdpPairs(c, i) : i \in WithUdp(c)} |-> ACTION_PASS]
TcpPortAction(c) ==
  [k \in UNION {TcpPairs(c, i) : i \in WithTcp(c)} |-> ACTION_PASS]

(* One list for both protocols: TCP rules enter their destination port,    *)
(* UDP rules their source port, unless the rule is for any source port.    *)
TcpAllowedPorts(c, i) ==
  IF c[i].tcp = NONE THEN {} ELSE {r.port : r \in c[i].tcp.rules}
UdpAllowedPorts(c, i) ==
  IF c[i].udp = NONE THEN {} ELSE {r.src_port : r \in c[i].udp} \ {NONE}

PortAllowList(c) ==
  UNION {{i} \X (TcpAllowedPorts(c, i) \cup UdpAllowedPorts(c, i))
           : i \in Ifaces}

(* PROTO_DFLT: a protocol no interface configures is passed unexamined.    *)
UdpDefault(c) == IF WithUdp(c) # {} THEN ACTION_DROP ELSE ACTION_PASS
TcpDefault(c) == IF WithTcp(c) # {} THEN ACTION_DROP ELSE ACTION_PASS

AllowOutgoing(c) ==
  [i \in Ifaces |-> i \in WithTcp(c) /\ c[i].tcp.allow_outgoing]
AckFloodEnabled(c) ==
  [i \in Ifaces |-> i \in WithTcp(c) /\ c[i].tcp.tcp_ack_flood]

Compile(c) ==
  [udp_trie |-> UdpTries(c), udp_act |-> UdpPortAction(c),
   tcp_trie |-> TcpTries(c), tcp_act |-> TcpPortAction(c),
   allow    |-> PortAllowList(c),
   udp_dflt |-> UdpDefault(c), tcp_dflt |-> TcpDefault(c),
   outgoing |-> AllowOutgoing(c), flood |-> AckFloodEnabled(c)]

(* Every insertion into a bounded map succeeds; otherwise apply gives up   *)
(* before it has pinned or attached anything.                              *)
Fits(c) ==
  /\ Cardinality(WithUdp(c)) <= MAX_IFACES
  /\ Cardinality(WithTcp(c)) <= MAX_IFACES
  /\ \A i \in WithUdp(c) :
       Cardinality(PrefixesOf(UdpPairs(c, i))) <= MAX_PREFIXES
  /\ \A i \in WithTcp(c) :
       Cardinality(PrefixesOf(TcpPairs(c, i))) <= MAX_PREFIXES
  /\ Cardinality(DOMAIN UdpPortAction(c)) <= MAX_PREFIX_PORT_ENTRIES
  /\ Cardinality(DOMAIN TcpPortAction(c)) <= MAX_PREFIX_PORT_ENTRIES
  /\ Cardinality(PortAllowList(c)) <= MAX_PORT_ALLOW_LIST_ENTRIES

(* interfaces_with_policy: where apply attaches the program.               *)
InterfacesWithPolicy(c) == WithUdp(c) \cup WithTcp(c)
=============================================================================
