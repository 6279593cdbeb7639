------------------------ MODULE IngressFilterProofs -------------------------
(***************************************************************************)
(* What IngressFilter guarantees for any interfaces, address width, ports, *)
(* capacities, configurations and packets.                                 *)
(***************************************************************************)
EXTENDS IngressFilter, TLAPS, LoopTheorems

-----------------------------------------------------------------------------
(* Lookups *)

(* The trie lookup finds a narrowest covering prefix whenever there is any *)
(* that covers the address.                                                *)
LEMMA LongestMatchMatches ==
  ASSUME NEW trie, \A x \in trie : x.len \in 0 .. AddrBits,
         NEW addr, Matching(trie, addr) # {}
  PROVE  /\ LongestMatch(trie, addr) \in Matching(trie, addr)
         /\ \A y \in Matching(trie, addr) :
              y.len <= LongestMatch(trie, addr).len
<1> DEFINE M == Matching(trie, addr)
           L == {x.len : x \in M}
<1>1. L \in SUBSET (0 .. AddrBits) /\ L # {}
  BY DEF Matching
<1>2. PICK l \in L : \A k \in L : k <= l
  BY <1>1, LargestElement, AddressAssumption
<1>3. \E x \in M : \A y \in M : y.len <= x.len
  BY <1>2
<1> QED BY <1>3 DEF LongestMatch

(* A lookup that passes found a narrowest covering prefix of the trie      *)
(* which the port table holds with this port or with any port.             *)
LEMMA LookUpPass ==
  ASSUME NEW trie, \A x \in trie : x.len \in 0 .. AddrBits,
         NEW act, NEW addr, NEW port,
         LookUp(trie, act, addr, port).action = "XDP_PASS"
  PROVE  NarrowestListed(trie, DOMAIN act, addr, port)
<1> DEFINE x == LongestMatch(trie, addr)
<1>1. Matching(trie, addr) # {}
  BY DEF LookUp, DefaultDrop, Decision
<1>2. /\ x \in Matching(trie, addr)
      /\ \A y \in Matching(trie, addr) : y.len <= x.len
  BY <1>1, LongestMatchMatches
<1>3. PortRule(act, x, port).action = "XDP_PASS"
  BY <1>1 DEF LookUp
<1>4. <<x, port>> \in DOMAIN act \/ <<x, PORT_ANY>> \in DOMAIN act
  BY <1>3 DEF PortRule, DefaultDrop, Decision
<1> QED BY <1>2, <1>4 DEF NarrowestListed, Matching

(* A verdict is pass or drop.                                              *)
LEMMA LookUpVerdict ==
  ASSUME NEW trie, NEW act, NEW addr, NEW port
  PROVE  LookUp(trie, act, addr, port).action \in {"XDP_PASS", "XDP_DROP"}
BY DEF LookUp, PortRule, DefaultDrop, Decision, action_to_xdp

-----------------------------------------------------------------------------
(* Configurations *)

LEMMA UnconfiguredType == Unconfigured \in Config
BY DEF Unconfigured, Config, Interface

LEMMA MergeType ==
  ASSUME NEW new \in Config, NEW old \in Config
  PROVE  Merge(new, old) \in Config
BY DEF Merge, Config, Interface

LEMMA UdpPrefixLength ==
  ASSUME NEW c \in Config, NEW i \in WithUdp(c)
  PROVE  \A x \in PrefixesOf(UdpPairs(c, i)) : x.len \in 0 .. AddrBits
<1>1. c[i].udp \in SUBSET UdpRule
  BY DEF Config, Interface, WithUdp, UdpPolicy
<1>2. \A r \in UdpRule : \A x \in RulePrefixes(r.ranges) :
        x.len \in 0 .. AddrBits
  BY AddressAssumption DEF UdpRule, RulePrefixes, AnySource, Canonical, Prefix
<1> QED BY <1>1, <1>2 DEF PrefixesOf, UdpPairs

LEMMA TcpPrefixLength ==
  ASSUME NEW c \in Config, NEW i \in WithTcp(c)
  PROVE  \A x \in PrefixesOf(TcpPairs(c, i)) : x.len \in 0 .. AddrBits
<1>1. c[i].tcp.rules \in SUBSET TcpRule
  BY DEF Config, Interface, WithTcp, TcpPolicy
<1>2. \A r \in TcpRule : \A x \in RulePrefixes(r.ranges) :
        x.len \in 0 .. AddrBits
  BY AddressAssumption DEF TcpRule, RulePrefixes, AnySource, Canonical, Prefix
<1> QED BY <1>1, <1>2 DEF PrefixesOf, TcpPairs

-----------------------------------------------------------------------------
(* Types *)

LEMMA PacketFields ==
  ASSUME NEW p \in Packets
  PROVE  /\ p.proto \in {"UDP", "TCP", "OTHER"}
         /\ p.iface \in Ifaces
         /\ p.proto # "OTHER" => AckTrackKey(p) \in Sources
         /\ p.proto = "TCP" => p.seq \in SeqNum
BY PacketsAssumption
   DEF UdpPacket, TcpPacket, OtherPacket, AckTrackKey, Sources

LEMMA InsertType ==
  ASSUME NEW t \in [Sources -> SeqNum \cup {UNTRACKED}],
         NEW k \in Sources, NEW seq \in SeqNum
  PROVE  Insert(t, k, seq) \in [Sources -> SeqNum \cup {UNTRACKED}]
BY DEF Insert

LEMMA DecideVerdict ==
  ASSUME NEW m, NEW p
  PROVE  /\ decide_udp(m, p).action \in {"XDP_PASS", "XDP_DROP"}
         /\ decide_tcp(m, p).action \in {"XDP_PASS", "XDP_DROP"}
BY LookUpVerdict DEF decide_udp, decide_tcp, Decision

(* Submitting an event keeps the ring buffers within their size.           *)
LEMMA EventsType ==
  ASSUME TypeOK, NEW p \in Packets, p.proto \in {"UDP", "TCP"},
         try_monitor(p) \/ NoEvent
  PROVE  /\ monitor' \in BOOLEAN
         /\ events' \in [{"UDP", "TCP"} -> 0 .. RING_CAPACITY]
<1>1. CASE UNCHANGED <<monitor, events>>
  BY <1>1 DEF TypeOK
<1>2. CASE /\ events[p.proto] < RING_CAPACITY
           /\ events' = [events EXCEPT ![p.proto] = @ + 1]
           /\ UNCHANGED monitor
  <2>1. events[p.proto] + 1 \in 0 .. RING_CAPACITY
    BY <1>2, RingAssumption DEF TypeOK
  <2> QED BY <1>2, <2>1 DEF TypeOK
<1>3. CASE monitor' = FALSE /\ UNCHANGED events
  BY <1>3 DEF TypeOK
<1> QED BY <1>1, <1>2, <1>3 DEF try_monitor, NoEvent

(* Every way the handler returns leaves the configuration and the maps     *)
(* alone and records a verdict.                                            *)
LEMMA ReceiveType ==
  ASSUME TypeOK, NEW p \in Packets, Receive(p)
  PROVE  TypeOK' /\ UNCHANGED <<cfg, maps>> /\ last'.pkt = p
<1> DEFINE Done(verdict) ==
      /\ verdict \in {"XDP_PASS", "XDP_DROP"}
      /\ tracker' \in [Sources -> SeqNum \cup {UNTRACKED}]
      /\ monitor' \in BOOLEAN
      /\ events' \in [{"UDP", "TCP"} -> 0 .. RING_CAPACITY]
      /\ Return(p, verdict)
<1>1. \A v : Done(v) => TypeOK' /\ UNCHANGED <<cfg, maps>> /\ last'.pkt = p
  BY DEF TypeOK, Return
<1>2. CASE PassUnexamined(p)
  <2> Done("XDP_PASS")
    BY <1>2 DEF PassUnexamined, NoEvent, TypeOK
  <2> QED BY <1>1
<1>3. CASE PassUdpUnfiltered(p) \/ PassTcpUnfiltered(p)
  <2> Done("XDP_PASS")
    BY <1>3, EventsType
       DEF PassUdpUnfiltered, PassTcpUnfiltered, Examined, TypeOK
  <2> QED BY <1>1
<1>4. CASE DropUdpUnlistedPort(p) \/ DropTcpUnlistedSyn(p) \/ DropTcpFlood(p)
  <2> Done("XDP_DROP")
    BY <1>4 DEF DropUdpUnlistedPort, DropTcpUnlistedSyn, DropTcpFlood,
                NoEvent, TypeOK
  <2> QED BY <1>1
<1>5. CASE DecideUdp(p)
  <2> Done(decide_udp(maps, p).action)
    BY <1>5, EventsType, DecideVerdict DEF DecideUdp, Examined, TypeOK
  <2> QED BY <1>1
<1>6. CASE DecideTcp(p)
  <2>1. tracker' \in [Sources -> SeqNum \cup {UNTRACKED}]
    BY <1>6, PacketFields, InsertType
       DEF DecideTcp, Examined, FloodTracks, TypeOK
  <2> Done(decide_tcp(maps, p).action)
    BY <1>6, <2>1, EventsType, DecideVerdict DEF DecideTcp, Examined
  <2> QED BY <1>1
<1> QED BY <1>2, <1>3, <1>4, <1>5, <1>6 DEF Receive

Inv == TypeOK /\ MapsOfConfig

LEMMA EmptyTables ==
  /\ NoEntries \in [Sources -> SeqNum \cup {UNTRACKED}]
  /\ NoEvents \in [{"UDP", "TCP"} -> 0 .. RING_CAPACITY]
BY RingAssumption DEF NoEntries, NoEvents

LEMMA InitInv == Init => Inv
BY UnconfiguredType, EmptyTables DEF Init, Inv, TypeOK, MapsOfConfig

LEMMA ApplyInv ==
  ASSUME Inv, NEW c \in Configs, Apply(c)
  PROVE  Inv'
<1>1. cfg' \in Config
  BY MergeType, ConfigsAssumption DEF Apply, Inv, TypeOK
<1> QED
  BY <1>1, EmptyTables DEF Apply, Inv, TypeOK, MapsOfConfig

LEMMA NextInv == Inv /\ [Next]_vars => Inv'
<1> SUFFICES ASSUME Inv, [Next]_vars PROVE Inv'
  OBVIOUS
<1> USE DEF Inv
<1>1. ASSUME NEW p \in Packets, Receive(p) PROVE Inv'
  BY <1>1, ReceiveType DEF MapsOfConfig
<1>2. ASSUME NEW c \in Configs, Apply(c) PROVE Inv'
  BY <1>2, ApplyInv
<1>3. ASSUME NEW c \in Configs, ApplyRejected(c) PROVE Inv'
  BY <1>3 DEF ApplyRejected, vars, TypeOK, MapsOfConfig
<1>4. CASE StartMonitor \/ StopMonitor
  BY <1>4 DEF StartMonitor, StopMonitor, TypeOK, MapsOfConfig
<1>5. ASSUME NEW proto \in DOMAIN events, ReadEvent(proto) PROVE Inv'
  BY <1>5, RingAssumption DEF ReadEvent, TypeOK, MapsOfConfig
<1>6. CASE UNCHANGED vars
  BY <1>6 DEF vars, TypeOK, MapsOfConfig
<1> QED BY <1>1, <1>2, <1>3, <1>4, <1>5, <1>6 DEF Next

(* The maps of the attached program are always those compiled from the     *)
(* configuration in force, and the variables have their types.             *)
THEOREM InvCorrect == Spec => []Inv
<1> QED BY InitInv, NextInv, PTL DEF Spec

THEOREM TypeCorrect == Spec => []TypeOK
<1>1. Inv => TypeOK
  BY DEF Inv
<1> QED BY <1>1, InvCorrect, PTL

-----------------------------------------------------------------------------
(* What passes is listed *)

(* Every step but a packet's clears the record of the last packet or       *)
(* leaves it, the configuration and the tracker alone.                     *)
LEMMA OtherSteps ==
  ASSUME Inv, [Next]_vars
  PROVE  \/ \E p \in Packets : Receive(p)
         \/ last' = NoPacket
         \/ UNCHANGED <<cfg, maps, tracker, last>>
BY DEF Next, vars, Apply, ApplyRejected, StartMonitor, StopMonitor, ReadEvent

LEMMA NoPacketFields == ASSUME NEW p \in Packets, NEW v
                        PROVE  [pkt |-> p, verdict |-> v] # NoPacket
BY PacketsAssumption DEF NoPacket

(* A connection request at an interface with a TCP section passes only     *)
(* through the port allow list and the lookup.                             *)
LEMMA PassedSynStep ==
  ASSUME Inv, NEW p \in Packets, Receive(p),
         p.proto = "TCP", PureSyn(p), p.iface \in WithTcp(cfg),
         last'.verdict = "XDP_PASS"
  PROVE  /\ <<p.iface, p.dport>> \in PortAllowList(cfg)
         /\ LookUp(TcpTries(cfg)[p.iface], TcpPortAction(cfg),
                   p.src, p.dport).action = "XDP_PASS"
<1>1. maps = Compile(cfg)
  BY DEF Inv, MapsOfConfig
<1>2. maps.tcp_dflt = ACTION_DROP /\ maps.allow = PortAllowList(cfg)
  BY <1>1 DEF Compile, TcpDefault
<1>3. Examined(p, "TCP")
  BY DEF Examined, InterfacesWithPolicy
<1>4. DecideTcp(p)
  BY <1>2, <1>3
     DEF Receive, PassUnexamined, PassUdpUnfiltered, DropUdpUnlistedPort,
         DecideUdp, PassTcpUnfiltered, DropTcpUnlistedSyn, DropTcpFlood,
         Examined, Return, ACTION_DROP, ACTION_PASS
<1>5. <<p.iface, p.dport>> \in PortAllowList(cfg)
  BY <1>2, <1>4 DEF DecideTcp, SynToUnlistedPort
<1>6. decide_tcp(maps, p).action = "XDP_PASS"
  BY <1>4 DEF DecideTcp, Return
<1>7. p.iface \in DOMAIN maps.tcp_trie /\ maps.tcp_trie = TcpTries(cfg)
      /\ maps.tcp_act = TcpPortAction(cfg)
  BY <1>1 DEF Compile, TcpTries
<1> QED BY <1>5, <1>6, <1>7 DEF decide_tcp

(* The trie and port table of TCP hold nothing but pairs of TCP rules.     *)
LEMMA TcpLookUpListed ==
  ASSUME NEW c \in Config, NEW i \in WithTcp(c), NEW addr, NEW port,
         LookUp(TcpTries(c)[i], TcpPortAction(c), addr, port).action
           = "XDP_PASS"
  PROVE  NarrowestListed(PrefixesOf(TcpPairs(c, i)),
                         UNION {TcpPairs(c, j) : j \in WithTcp(c)},
                         addr, port)
<1>1. TcpTries(c)[i] = PrefixesOf(TcpPairs(c, i))
  BY DEF TcpTries
<1>2. DOMAIN TcpPortAction(c) = UNION {TcpPairs(c, j) : j \in WithTcp(c)}
  BY DEF TcpPortAction
<1> QED BY <1>1, <1>2, TcpPrefixLength, LookUpPass

(* A connection request that passes an interface with a TCP section has    *)
(* its port on the interface's list, and the narrowest of the interface's  *)
(* ranges around its source is listed with the port by some interface, for *)
(* every configuration.                                                    *)
THEOREM SynListed == Spec => []PassedSynIsListed
<1>1. Init => PassedSynIsListed
  BY DEF Init, PassedSynIsListed, Passed, Handled
<1>2. ASSUME Inv, PassedSynIsListed, [Next]_vars PROVE PassedSynIsListed'
  <2>1. ASSUME NEW p \in Packets, Receive(p) PROVE PassedSynIsListed'
    <3>1. last'.pkt = p /\ cfg' = cfg /\ cfg \in Config
      BY <1>2, <2>1, ReceiveType DEF Inv, TypeOK
    <3> QED
      BY <1>2, <2>1, <3>1, PassedSynStep, TcpLookUpListed
         DEF PassedSynIsListed, Passed, Handled
  <2>2. CASE last' = NoPacket
    BY <2>2 DEF PassedSynIsListed, Passed, Handled
  <2>3. CASE UNCHANGED <<cfg, maps, tracker, last>>
    BY <1>2, <2>3 DEF PassedSynIsListed, Passed, Handled
  <2> QED BY <1>2, <2>1, <2>2, <2>3, OtherSteps
<1> QED BY <1>1, <1>2, InvCorrect, PTL DEF Spec

(* The same of UDP.                                                        *)
LEMMA PassedUdpStep ==
  ASSUME Inv, NEW p \in Packets, Receive(p),
         p.proto = "UDP", p.iface \in WithUdp(cfg),
         last'.verdict = "XDP_PASS"
  PROVE  /\ <<p.iface, p.sport>> \in PortAllowList(cfg)
         /\ LookUp(UdpTries(cfg)[p.iface], UdpPortAction(cfg),
                   p.src, p.sport).action = "XDP_PASS"
<1>1. maps = Compile(cfg)
  BY DEF Inv, MapsOfConfig
<1>2. maps.udp_dflt = ACTION_DROP /\ maps.allow = PortAllowList(cfg)
  BY <1>1 DEF Compile, UdpDefault
<1>3. Examined(p, "UDP")
  BY DEF Examined, InterfacesWithPolicy
<1>4. DecideUdp(p)
  BY <1>2, <1>3
     DEF Receive, PassUnexamined, PassUdpUnfiltered, DropUdpUnlistedPort,
         DecideTcp, PassTcpUnfiltered, DropTcpUnlistedSyn, DropTcpFlood,
         Examined, Return, ACTION_DROP, ACTION_PASS
<1>5. <<p.iface, p.sport>> \in PortAllowList(cfg)
  BY <1>2, <1>4 DEF DecideUdp
<1>6. decide_udp(maps, p).action = "XDP_PASS"
  BY <1>4 DEF DecideUdp, Return
<1>7. p.iface \in DOMAIN maps.udp_trie /\ maps.udp_trie = UdpTries(cfg)
      /\ maps.udp_act = UdpPortAction(cfg)
  BY <1>1 DEF Compile, UdpTries
<1> QED BY <1>5, <1>6, <1>7 DEF decide_udp

LEMMA UdpLookUpListed ==
  ASSUME NEW c \in Config, NEW i \in WithUdp(c), NEW addr, NEW port,
         LookUp(UdpTries(c)[i], UdpPortAction(c), addr, port).action
           = "XDP_PASS"
  PROVE  NarrowestListed(PrefixesOf(UdpPairs(c, i)),
                         UNION {UdpPairs(c, j) : j \in WithUdp(c)},
                         addr, port)
<1>1. UdpTries(c)[i] = PrefixesOf(UdpPairs(c, i))
  BY DEF UdpTries
<1>2. DOMAIN UdpPortAction(c) = UNION {UdpPairs(c, j) : j \in WithUdp(c)}
  BY DEF UdpPortAction
<1> QED BY <1>1, <1>2, UdpPrefixLength, LookUpPass

(* A UDP packet that passes an interface with a UDP section has its source *)
(* port on the interface's list, and the narrowest of the interface's      *)
(* ranges around its source is listed with the port by some interface.     *)
THEOREM UdpListed == Spec => []PassedUdpIsListed
<1>1. Init => PassedUdpIsListed
  BY DEF Init, PassedUdpIsListed, Passed, Handled
<1>2. ASSUME Inv, PassedUdpIsListed, [Next]_vars PROVE PassedUdpIsListed'
  <2>1. ASSUME NEW p \in Packets, Receive(p) PROVE PassedUdpIsListed'
    <3>1. last'.pkt = p /\ cfg' = cfg /\ cfg \in Config
      BY <1>2, <2>1, ReceiveType DEF Inv, TypeOK
    <3> QED
      BY <1>2, <2>1, <3>1, PassedUdpStep, UdpLookUpListed
         DEF PassedUdpIsListed, Passed, Handled
  <2>2. CASE last' = NoPacket
    BY <2>2 DEF PassedUdpIsListed, Passed, Handled
  <2>3. CASE UNCHANGED <<cfg, maps, tracker, last>>
    BY <1>2, <2>3 DEF PassedUdpIsListed, Passed, Handled
  <2> QED BY <1>2, <2>1, <2>2, <2>3, OtherSteps
<1> QED BY <1>1, <1>2, InvCorrect, PTL DEF Spec

-----------------------------------------------------------------------------
(* Replies *)

(* The flags of an interface in the maps are those of its TCP section.     *)
LEMMA TcpFlags ==
  ASSUME MapsOfConfig, NEW i \in Ifaces
  PROVE  /\ maps.outgoing[i] = (i \in WithTcp(cfg) /\ cfg[i].tcp.allow_outgoing)
         /\ maps.flood[i] = (i \in WithTcp(cfg) /\ cfg[i].tcp.tcp_ack_flood)
BY DEF MapsOfConfig, Compile, AllowOutgoing, AckFloodEnabled

(* Where outgoing connections are allowed, a packet that opens none is     *)
(* dropped by nothing but the flood protection, and only because it does   *)
(* not continue what the tracker holds, which dropping it leaves as it is. *)
THEOREM RepliesPass == Spec => []OutgoingRepliesPass
<1>1. Init => OutgoingRepliesPass
  BY DEF Init, OutgoingRepliesPass, Dropped, Handled
<1>2. ASSUME Inv, OutgoingRepliesPass, [Next]_vars PROVE OutgoingRepliesPass'
  <2>1. ASSUME NEW p \in Packets, Receive(p) PROVE OutgoingRepliesPass'
    <3>1. last'.pkt = p /\ cfg' = cfg
      BY <1>2, <2>1, ReceiveType DEF Inv
    <3>2. SUFFICES ASSUME p.proto = "TCP", ~PureSyn(p),
                          last'.verdict = "XDP_DROP",
                          p.iface \in WithTcp(cfg),
                          cfg[p.iface].tcp.allow_outgoing
                   PROVE  /\ cfg[p.iface].tcp.tcp_ack_flood
                          /\ ~p.syn /\ ~Continues(p)'
      BY <3>1 DEF OutgoingRepliesPass, Dropped, Handled
    <3>3. /\ maps.outgoing[p.iface]
          /\ maps.flood[p.iface] => cfg[p.iface].tcp.tcp_ack_flood
      BY <1>2, <3>2, TcpFlags, PacketFields DEF Inv
    <3>4. decide_tcp(maps, p).action = "XDP_PASS"
      BY <3>2, <3>3 DEF decide_tcp, Decision
    <3>5. ~SynToUnlistedPort(p)
      BY <3>2 DEF SynToUnlistedPort
    <3>6. DropTcpFlood(p)
      BY <2>1, <3>2, <3>4, <3>5
         DEF Receive, PassUnexamined, PassUdpUnfiltered, DropUdpUnlistedPort,
             DecideUdp, PassTcpUnfiltered, DropTcpUnlistedSyn, DecideTcp,
             Examined, Return
    <3>7. /\ cfg[p.iface].tcp.tcp_ack_flood
          /\ ~p.syn /\ ~Continues(p)
      BY <3>2, <3>3, <3>6 DEF DropTcpFlood, FloodDrops, PureSyn
    <3> QED BY <3>6, <3>7 DEF DropTcpFlood, Continues
  <2>2. CASE last' = NoPacket
    BY <2>2 DEF OutgoingRepliesPass, Dropped, Handled
  <2>3. CASE UNCHANGED <<cfg, maps, tracker, last>>
    BY <1>2, <2>3 DEF OutgoingRepliesPass, Dropped, Handled, Continues
  <2> QED BY <1>2, <2>1, <2>2, <2>3, OtherSteps
<1> QED BY <1>1, <1>2, InvCorrect, PTL DEF Spec

-----------------------------------------------------------------------------
(* Interfaces without a section of the protocol *)

(* Where the interface has no section of a packet's protocol, its tries    *)
(* and the flood protection let the packet pass.                           *)
LEMMA NoRules ==
  ASSUME MapsOfConfig, NEW p \in Packets
  PROVE  /\ p.iface \notin WithUdp(cfg) =>
              decide_udp(maps, p).action = "XDP_PASS"
         /\ p.iface \notin WithTcp(cfg) =>
              decide_tcp(maps, p).action = "XDP_PASS" /\ ~FloodDrops(p)
<1>1. /\ DOMAIN maps.udp_trie = WithUdp(cfg)
      /\ DOMAIN maps.tcp_trie = WithTcp(cfg)
  BY DEF MapsOfConfig, Compile, UdpTries, TcpTries
<1>2. p.iface \notin WithTcp(cfg) => ~maps.flood[p.iface]
  BY TcpFlags, PacketFields
<1> QED BY <1>1, <1>2 DEF decide_udp, decide_tcp, Decision, FloodDrops

LEMMA PortsOfInterface ==
  ASSUME NEW i, NEW port, <<i, port>> \notin PortAllowList(cfg), i \in Ifaces
  PROVE  port \notin TcpAllowedPorts(cfg, i) \cup UdpAllowedPorts(cfg, i)
BY DEF PortAllowList

(* On an interface without a section of the protocol a packet is dropped   *)
(* by nothing but the early check of the port list, and only because some  *)
(* other interface has such a section.                                     *)
THEOREM SectionlessDrops == Spec => []SectionlessDropsOnlyAtThePort
<1>1. Init => SectionlessDropsOnlyAtThePort
  BY DEF Init, SectionlessDropsOnlyAtThePort, Dropped, Handled
<1>2. ASSUME Inv, SectionlessDropsOnlyAtThePort, [Next]_vars
      PROVE  SectionlessDropsOnlyAtThePort'
  <2>1. ASSUME NEW p \in Packets, Receive(p)
        PROVE  SectionlessDropsOnlyAtThePort'
    <3>1. last'.pkt = p /\ cfg' = cfg /\ p.iface \in Ifaces
      BY <1>2, <2>1, ReceiveType, PacketFields DEF Inv
    <3>2. /\ maps.allow = PortAllowList(cfg)
          /\ maps.udp_dflt # ACTION_PASS => WithUdp(cfg) # {}
          /\ maps.tcp_dflt # ACTION_PASS => WithTcp(cfg) # {}
      BY <1>2 DEF Inv, MapsOfConfig, Compile, UdpDefault, TcpDefault
    <3>3. ASSUME p.proto = "UDP", p.iface \notin WithUdp(cfg),
                 last'.verdict = "XDP_DROP"
          PROVE  /\ WithUdp(cfg) # {} /\ p.iface \in WithTcp(cfg)
                 /\ p.sport \notin TcpAllowedPorts(cfg, p.iface)
      <4>1. DropUdpUnlistedPort(p)
        BY <1>2, <2>1, <3>3, NoRules
           DEF Receive, PassUnexamined, PassUdpUnfiltered, DecideUdp,
               PassTcpUnfiltered, DropTcpUnlistedSyn, DropTcpFlood,
               DecideTcp, Examined, Return, Inv
      <4> QED
        BY <3>1, <3>2, <3>3, <4>1, PortsOfInterface
           DEF DropUdpUnlistedPort, Examined, InterfacesWithPolicy
    <3>4. ASSUME p.proto = "TCP", p.iface \notin WithTcp(cfg),
                 last'.verdict = "XDP_DROP"
          PROVE  /\ WithTcp(cfg) # {} /\ p.iface \in WithUdp(cfg)
                 /\ PureSyn(p) /\ p.dport \notin UdpAllowedPorts(cfg, p.iface)
      <4>1. DropTcpUnlistedSyn(p)
        BY <1>2, <2>1, <3>4, NoRules
           DEF Receive, PassUnexamined, PassUdpUnfiltered,
               DropUdpUnlistedPort, DecideUdp, PassTcpUnfiltered,
               DropTcpFlood, DecideTcp, Examined, Return, Inv
      <4> QED
        BY <3>1, <3>2, <3>4, <4>1, PortsOfInterface
           DEF DropTcpUnlistedSyn, SynToUnlistedPort, Examined,
               InterfacesWithPolicy
    <3> QED
      BY <3>1, <3>3, <3>4
         DEF SectionlessDropsOnlyAtThePort, Dropped, Handled
  <2>2. CASE last' = NoPacket
    BY <2>2 DEF SectionlessDropsOnlyAtThePort, Dropped, Handled
  <2>3. CASE UNCHANGED <<cfg, maps, tracker, last>>
    BY <1>2, <2>3 DEF SectionlessDropsOnlyAtThePort, Dropped, Handled
  <2> QED BY <1>2, <2>1, <2>2, <2>3, OtherSteps
<1> QED BY <1>1, <1>2, InvCorrect, PTL DEF Spec

-----------------------------------------------------------------------------
(* Separated configurations *)

(* With prefixes that do not overlap, the lookup of an address a listed    *)
(* pair covers finds this pair.                                            *)
LEMMA LookUpOfListed ==
  ASSUME NEW pairs, NonOverlapping(pairs),
         NEW act, \A k \in DOMAIN act : act[k] = ACTION_PASS,
         NEW addr \in Addr, NEW port, NEW x, <<x, port>> \in pairs,
         Covers(x, addr), <<x, port>> \in DOMAIN act
  PROVE  LookUp(PrefixesOf(pairs), act, addr, port).action = "XDP_PASS"
<1>1. x \in PrefixesOf(pairs)
  BY DEF PrefixesOf
<1>2. Matching(PrefixesOf(pairs), addr) = {x}
  BY <1>1 DEF Matching, NonOverlapping
<1>3. LongestMatch(PrefixesOf(pairs), addr) = x
  <2>1. \A y \in Matching(PrefixesOf(pairs), addr) :
          (\A z \in Matching(PrefixesOf(pairs), addr) : z.len <= y.len)
            => y = x
    BY <1>2
  <2> QED BY <1>2, <2>1 DEF LongestMatch
<1>4. act[<<x, port>>] = ACTION_PASS
  OBVIOUS
<1>5. action_to_xdp(ACTION_PASS) = "XDP_PASS"
  BY DEF action_to_xdp, ACTION_PASS
<1> QED BY <1>2, <1>3, <1>4, <1>5 DEF LookUp, PortRule, Decision

UdpRuleLists(c, i, addr, port) ==
  \E r \in c[i].udp :
    /\ r.src_port \in {NONE, port}
    /\ \E x \in RulePrefixes(r.ranges) : Covers(x, addr)

TcpRuleLists(c, i, addr, port) ==
  \E r \in c[i].tcp.rules :
    /\ r.port = port
    /\ \E x \in RulePrefixes(r.ranges) : Covers(x, addr)

LEMMA UdpDecidesAsListed ==
  ASSUME NEW c \in Config, Separated(c), NEW i \in WithUdp(c),
         NEW addr \in Addr, NEW port
  PROVE  /\ (LookUp(UdpTries(c)[i], UdpPortAction(c), addr, port).action
               = "XDP_PASS") <=> UdpRuleLists(c, i, addr, port)
         /\ UdpRuleLists(c, i, addr, port) => <<i, port>> \in PortAllowList(c)
<1> DEFINE pairs == UdpPairs(c, i)
<1>1. /\ \A r \in c[i].udp : r.src_port # NONE /\ r.src_port # PORT_ANY
      /\ NonOverlapping(pairs)
      /\ \A j \in WithUdp(c) : NotShared(pairs, UdpPairs(c, j))
  BY DEF Separated
<1>2. i \in Ifaces /\ c[i].udp # NONE
  BY DEF WithUdp
<1>3. ASSUME LookUp(UdpTries(c)[i], UdpPortAction(c), addr, port).action
               = "XDP_PASS"
      PROVE  UdpRuleLists(c, i, addr, port)
  <2>1. PICK x \in PrefixesOf(pairs) :
          /\ Covers(x, addr)
          /\ \E j \in WithUdp(c) : \/ <<x, port>> \in UdpPairs(c, j)
                                   \/ <<x, PORT_ANY>> \in UdpPairs(c, j)
    <3> NarrowestListed(PrefixesOf(pairs),
                        UNION {UdpPairs(c, j) : j \in WithUdp(c)}, addr, port)
      BY <1>3, UdpLookUpListed
    <3> QED BY DEF NarrowestListed
  <2>2. <<x, port>> \in pairs \/ <<x, PORT_ANY>> \in pairs
    BY <1>1, <2>1 DEF NotShared
  <2>3. <<x, PORT_ANY>> \notin pairs
    BY <1>1 DEF UdpPairs, RulePort
  <2>4. PICK q \in c[i].udp : /\ x \in RulePrefixes(q.ranges)
                             /\ RulePort(q.src_port) = port
    BY <2>2, <2>3 DEF UdpPairs
  <2> QED BY <1>1, <2>1, <2>4 DEF UdpRuleLists, RulePort
<1>4. ASSUME UdpRuleLists(c, i, addr, port)
      PROVE  /\ LookUp(UdpTries(c)[i], UdpPortAction(c), addr, port).action
                   = "XDP_PASS"
             /\ <<i, port>> \in PortAllowList(c)
  <2>1. PICK r \in c[i].udp : /\ r.src_port = port /\ r.src_port # NONE
                             /\ \E x \in RulePrefixes(r.ranges) :
                                  Covers(x, addr)
    BY <1>1, <1>4 DEF UdpRuleLists
  <2>2. PICK x \in RulePrefixes(r.ranges) : Covers(x, addr)
    BY <2>1
  <2>3. <<x, port>> \in pairs
    BY <2>1, <2>2 DEF UdpPairs, RulePort
  <2>4. <<x, port>> \in DOMAIN UdpPortAction(c)
    BY <2>3 DEF UdpPortAction
  <2>5. \A k \in DOMAIN UdpPortAction(c) : UdpPortAction(c)[k] = ACTION_PASS
    BY DEF UdpPortAction
  <2>6. UdpTries(c)[i] = PrefixesOf(pairs)
    BY DEF UdpTries
  <2>7. port \in UdpAllowedPorts(c, i)
    BY <1>2, <2>1 DEF UdpAllowedPorts
  <2> QED
    BY <1>1, <1>2, <2>2, <2>3, <2>4, <2>5, <2>6, <2>7, LookUpOfListed
       DEF PortAllowList
<1> QED BY <1>3, <1>4

LEMMA TcpDecidesAsListed ==
  ASSUME NEW c \in Config, Separated(c), NEW i \in WithTcp(c),
         NEW addr \in Addr, NEW port
  PROVE  /\ (LookUp(TcpTries(c)[i], TcpPortAction(c), addr, port).action
               = "XDP_PASS") <=> TcpRuleLists(c, i, addr, port)
         /\ TcpRuleLists(c, i, addr, port) => <<i, port>> \in PortAllowList(c)
<1> DEFINE pairs == TcpPairs(c, i)
<1>1. /\ \A r \in c[i].tcp.rules : r.port # PORT_ANY
      /\ NonOverlapping(pairs)
      /\ \A j \in WithTcp(c) : NotShared(pairs, TcpPairs(c, j))
  BY DEF Separated
<1>2. i \in Ifaces /\ c[i].tcp # NONE
  BY DEF WithTcp
<1>3. ASSUME LookUp(TcpTries(c)[i], TcpPortAction(c), addr, port).action
               = "XDP_PASS"
      PROVE  TcpRuleLists(c, i, addr, port)
  <2>1. PICK x \in PrefixesOf(pairs) :
          /\ Covers(x, addr)
          /\ \E j \in WithTcp(c) : \/ <<x, port>> \in TcpPairs(c, j)
                                   \/ <<x, PORT_ANY>> \in TcpPairs(c, j)
    <3> NarrowestListed(PrefixesOf(pairs),
                        UNION {TcpPairs(c, j) : j \in WithTcp(c)}, addr, port)
      BY <1>3, TcpLookUpListed
    <3> QED BY DEF NarrowestListed
  <2>2. <<x, port>> \in pairs \/ <<x, PORT_ANY>> \in pairs
    BY <1>1, <2>1 DEF NotShared
  <2>3. <<x, PORT_ANY>> \notin pairs
    BY <1>1 DEF TcpPairs
  <2> QED BY <2>1, <2>2, <2>3 DEF TcpRuleLists, TcpPairs
<1>4. ASSUME TcpRuleLists(c, i, addr, port)
      PROVE  /\ LookUp(TcpTries(c)[i], TcpPortAction(c), addr, port).action
                   = "XDP_PASS"
             /\ <<i, port>> \in PortAllowList(c)
  <2>1. PICK r \in c[i].tcp.rules :
          r.port = port /\ \E x \in RulePrefixes(r.ranges) : Covers(x, addr)
    BY <1>4 DEF TcpRuleLists
  <2>2. PICK x \in RulePrefixes(r.ranges) : Covers(x, addr)
    BY <2>1
  <2>3. <<x, port>> \in pairs
    BY <2>1, <2>2 DEF TcpPairs
  <2>4. <<x, port>> \in DOMAIN TcpPortAction(c)
    BY <2>3 DEF TcpPortAction
  <2>5. \A k \in DOMAIN TcpPortAction(c) : TcpPortAction(c)[k] = ACTION_PASS
    BY DEF TcpPortAction
  <2>6. TcpTries(c)[i] = PrefixesOf(pairs)
    BY DEF TcpTries
  <2>7. port \in TcpAllowedPorts(c, i)
    BY <1>2, <2>1 DEF TcpAllowedPorts
  <2> QED
    BY <1>1, <1>2, <2>2, <2>3, <2>4, <2>5, <2>6, <2>7, LookUpOfListed
       DEF PortAllowList
<1> QED BY <1>3, <1>4

-----------------------------------------------------------------------------
(* The program implements the firewall *)

LEMMA PacketSource == ASSUME NEW p \in Packets, p.proto # "OTHER"
                      PROVE  p.src \in Addr
BY PacketsAssumption DEF UdpPacket, TcpPacket, OtherPacket

(* What the abstract specification reads off the configuration.            *)
LEMMA PromiseRules ==
  ASSUME NEW p
  PROVE  /\ Promise!ListedUdp(p) <=> UdpRuleLists(cfg, p.iface, p.src, p.sport)
         /\ Promise!ListedTcp(p) <=> TcpRuleLists(cfg, p.iface, p.src, p.dport)
<1>1. ASSUME NEW x, NEW a PROVE Promise!Covers(x, a) = Covers(x, a)
  BY DEF Promise!Covers, Covers, Promise!Mask, Mask, Promise!Pow2, Pow2
<1>2. ASSUME NEW ranges PROVE Promise!RulePrefixes(ranges) = RulePrefixes(ranges)
  BY DEF Promise!RulePrefixes, RulePrefixes, Promise!Canonical, Canonical,
         Promise!Mask, Mask, Promise!Pow2, Pow2, Promise!AnySource, AnySource
<1> QED
  BY <1>1, <1>2
     DEF Promise!ListedUdp, Promise!ListedTcp, UdpRuleLists, TcpRuleLists

LEMMA PromiseFirewallInit == Init => Promise!Init
<1> SUFFICES ASSUME Init PROVE Promise!Init
  OBVIOUS
<1>1. cfg = Promise!Unconfigured
  BY DEF Init, Unconfigured, Promise!Unconfigured
<1>2. Tracked(tracker) = {}
  BY DEF Init, Tracked, NoEntries
<1>3. last = Promise!NoPacket
  BY DEF Init, NoPacket, Promise!NoPacket
<1> QED BY <1>1, <1>2, <1>3 DEF Promise!Init

(* A source becomes tracked only by an insertion of its own.               *)
LEMMA InsertTracks ==
  ASSUME NEW t \in [Sources -> SeqNum \cup {UNTRACKED}],
         NEW k \in Sources, NEW seq \in SeqNum
  PROVE  \/ Tracked(Insert(t, k, seq)) = Tracked(t)
         \/ Tracked(Insert(t, k, seq)) = Tracked(t) \cup {k}
<1>1. seq # UNTRACKED
  BY TrackerAssumption DEF SeqNum
<1>2. Tracked([t EXCEPT ![k] = seq]) = Tracked(t) \cup {k}
  BY <1>1 DEF Tracked
<1> QED BY <1>2 DEF Insert

LEMMA PromiseConfigure ==
  ASSUME Inv, NEW c \in Configs, Apply(c)
  PROVE  Promise!Configure(c)
<1>1. cfg' = Promise!Merge(c, cfg)
  BY DEF Apply, Merge, Promise!Merge
<1>2. Tracked(tracker)' = {}
  BY DEF Apply, Tracked, NoEntries
<1>3. last' = Promise!NoPacket
  BY DEF Apply, NoPacket, Promise!NoPacket
<1> QED BY <1>1, <1>2, <1>3 DEF Promise!Configure

(* In a Separated configuration, an examined protocol is configured on the *)
(* interface of the packet unless it is configured nowhere.                *)
LEMMA SeparatedSections ==
  ASSUME Inv, Separated(cfg), NEW i \in InterfacesWithPolicy(cfg)
  PROVE  /\ maps.udp_dflt = ACTION_PASS => i \notin WithUdp(cfg)
         /\ maps.udp_dflt # ACTION_PASS => i \in WithUdp(cfg)
         /\ maps.tcp_dflt = ACTION_PASS => i \notin WithTcp(cfg)
         /\ maps.tcp_dflt # ACTION_PASS => i \in WithTcp(cfg)
BY DEF Inv, MapsOfConfig, Compile, UdpDefault, TcpDefault, Separated,
       ACTION_PASS, ACTION_DROP

LEMMA SectionAbsent ==
  ASSUME NEW i \in Ifaces
  PROVE  /\ i \notin WithUdp(cfg) <=> cfg[i].udp = NONE
         /\ i \notin WithTcp(cfg) <=> cfg[i].tcp = NONE
BY DEF WithUdp, WithTcp

(* UDP packets are handled as the abstract specification allows.           *)
LEMMA PromiseUdp ==
  ASSUME Inv, Separated(cfg), NEW p \in Packets, p.proto = "UDP", Receive(p)
  PROVE  Promise!Pass(p) \/ Promise!Drop(p)
<1> USE DEF Inv
<1>1. cfg \in Config /\ p.iface \in Ifaces /\ p.src \in Addr
  BY PacketFields, PacketSource DEF TypeOK
<1>2. CASE PassUnexamined(p) \/ PassUdpUnfiltered(p)
  <2>1. p.iface \notin WithUdp(cfg)
    BY <1>2, SeparatedSections
       DEF PassUnexamined, PassUdpUnfiltered, Examined, InterfacesWithPolicy
  <2> QED
    BY <1>1, <1>2, <2>1, SectionAbsent
       DEF Promise!Pass, Promise!Admits, Promise!Protected,
           PassUnexamined, PassUdpUnfiltered, Return
<1>3. CASE DropUdpUnlistedPort(p)
  <2>1. p.iface \in WithUdp(cfg)
    BY <1>3, SeparatedSections DEF DropUdpUnlistedPort, Examined
  <2>2. <<p.iface, p.sport>> \notin PortAllowList(cfg)
    BY <1>3 DEF DropUdpUnlistedPort, MapsOfConfig, Compile
  <2>3. ~Promise!ListedUdp(p)
    BY <1>1, <2>1, <2>2, UdpDecidesAsListed, PromiseRules
  <2> QED
    BY <1>1, <1>3, <2>1, <2>3, SectionAbsent
       DEF Promise!Drop, Promise!Admits, DropUdpUnlistedPort, Return
<1>4. CASE DecideUdp(p)
  <2>1. p.iface \in WithUdp(cfg)
    BY <1>4, SeparatedSections DEF DecideUdp, Examined
  <2>2. decide_udp(maps, p) =
          LookUp(UdpTries(cfg)[p.iface], UdpPortAction(cfg), p.src, p.sport)
    BY <2>1 DEF decide_udp, MapsOfConfig, Compile, UdpTries
  <2>3. (decide_udp(maps, p).action = "XDP_PASS") <=> Promise!ListedUdp(p)
    <3>1. (LookUp(UdpTries(cfg)[p.iface], UdpPortAction(cfg),
                  p.src, p.sport).action = "XDP_PASS")
            <=> UdpRuleLists(cfg, p.iface, p.src, p.sport)
      BY <1>1, <2>1, UdpDecidesAsListed
    <3> QED BY <2>2, <3>1, PromiseRules
  <2>4. decide_udp(maps, p).action \in {"XDP_PASS", "XDP_DROP"}
    BY DecideVerdict
  <2>5. last' = [pkt |-> p, verdict |-> decide_udp(maps, p).action]
    BY <1>4 DEF DecideUdp, Return
  <2>6. CASE Promise!ListedUdp(p)
    BY <2>3, <2>5, <2>6
       DEF Promise!Pass, Promise!Admits, Promise!Protected
  <2>7. CASE ~Promise!ListedUdp(p)
    BY <1>1, <2>1, <2>3, <2>4, <2>5, <2>7, SectionAbsent
       DEF Promise!Drop, Promise!Admits
  <2> QED BY <2>6, <2>7
<1> QED
  BY <1>2, <1>3, <1>4
     DEF Receive, PassTcpUnfiltered, DropTcpUnlistedSyn, DropTcpFlood,
         DecideTcp, Examined

(* So are TCP packets.                                                     *)
LEMMA PromiseTcp ==
  ASSUME Inv, Separated(cfg), NEW p \in Packets, p.proto = "TCP", Receive(p)
  PROVE  Promise!Pass(p) \/ Promise!Drop(p)
<1> USE DEF Inv
<1>1. /\ cfg \in Config /\ p.iface \in Ifaces /\ p.src \in Addr
      /\ AckTrackKey(p) \in Sources
  BY PacketFields, PacketSource DEF TypeOK
<1>2. CASE PassUnexamined(p) \/ PassTcpUnfiltered(p)
  <2>1. p.iface \notin WithTcp(cfg)
    BY <1>2, SeparatedSections
       DEF PassUnexamined, PassTcpUnfiltered, Examined, InterfacesWithPolicy
  <2> QED
    BY <1>1, <1>2, <2>1, SectionAbsent
       DEF Promise!Pass, Promise!Admits, Promise!Protected,
           PassUnexamined, PassTcpUnfiltered, Return
<1>3. CASE DropTcpUnlistedSyn(p)
  <2>1. p.iface \in WithTcp(cfg)
    BY <1>3, SeparatedSections DEF DropTcpUnlistedSyn, Examined
  <2>2. PureSyn(p) /\ <<p.iface, p.dport>> \notin PortAllowList(cfg)
    BY <1>3 DEF DropTcpUnlistedSyn, SynToUnlistedPort, MapsOfConfig, Compile
  <2>3. ~Promise!ListedTcp(p)
    BY <1>1, <2>1, <2>2, TcpDecidesAsListed, PromiseRules
  <2> QED
    BY <1>1, <1>3, <2>1, <2>2, <2>3, SectionAbsent
       DEF Promise!Drop, Promise!Admits, Promise!PureSyn, PureSyn,
           DropTcpUnlistedSyn, Return
<1>4. CASE DropTcpFlood(p)
  <2>1. p.iface \in WithTcp(cfg) /\ cfg[p.iface].tcp.tcp_ack_flood
    BY <1>1, <1>4, TcpFlags DEF DropTcpFlood, FloodDrops
  <2>2. ~PureSyn(p)
    BY <1>4 DEF DropTcpFlood, FloodDrops, PureSyn
  <2> QED
    BY <1>1, <1>4, <2>1, <2>2, SectionAbsent
       DEF Promise!Drop, Promise!Protected, Promise!PureSyn, PureSyn,
           DropTcpFlood, Return
<1>5. CASE DecideTcp(p)
  <2>1. p.iface \in WithTcp(cfg)
    BY <1>5, SeparatedSections DEF DecideTcp, Examined
  <2>2. cfg[p.iface].tcp # NONE
    BY <1>1, <2>1, SectionAbsent
  <2>3. last' = [pkt |-> p, verdict |-> decide_tcp(maps, p).action]
    BY <1>5 DEF DecideTcp, Return
  <2>4. Promise!Protected(p) /\ ~p.syn => Promise!AckTrackKey(p) \in Tracked(tracker)
    BY <1>1, <1>5, <2>1, TcpFlags
       DEF DecideTcp, FloodDrops, Continues, Tracked, Promise!Protected,
           Promise!AckTrackKey, AckTrackKey, TypeOK
  <2>5. CASE cfg[p.iface].tcp.allow_outgoing /\ ~PureSyn(p)
    <3>1. decide_tcp(maps, p).action = "XDP_PASS"
      BY <1>1, <2>1, <2>5, TcpFlags DEF decide_tcp, Decision
    <3> QED
      BY <2>3, <2>4, <2>5, <3>1
         DEF Promise!Pass, Promise!Admits, Promise!PureSyn, PureSyn
  <2>6. CASE ~(cfg[p.iface].tcp.allow_outgoing /\ ~PureSyn(p))
    <3>1. decide_tcp(maps, p) =
            LookUp(TcpTries(cfg)[p.iface], TcpPortAction(cfg), p.src, p.dport)
      BY <1>1, <2>1, <2>6, TcpFlags
         DEF decide_tcp, MapsOfConfig, Compile, TcpTries
    <3>2. (decide_tcp(maps, p).action = "XDP_PASS") <=> Promise!ListedTcp(p)
      <4>1. (LookUp(TcpTries(cfg)[p.iface], TcpPortAction(cfg),
                    p.src, p.dport).action = "XDP_PASS")
              <=> TcpRuleLists(cfg, p.iface, p.src, p.dport)
        BY <1>1, <2>1, TcpDecidesAsListed
      <4> QED BY <3>1, <4>1, PromiseRules
    <3>3. decide_tcp(maps, p).action \in {"XDP_PASS", "XDP_DROP"}
      BY DecideVerdict
    <3>4. CASE Promise!ListedTcp(p)
      BY <2>3, <2>4, <3>2, <3>4 DEF Promise!Pass, Promise!Admits
    <3>5. CASE ~Promise!ListedTcp(p)
      BY <2>2, <2>3, <2>6, <3>2, <3>3, <3>5
         DEF Promise!Drop, Promise!Admits, Promise!PureSyn, PureSyn
    <3> QED BY <3>4, <3>5
  <2> QED BY <2>5, <2>6
<1> QED
  BY <1>2, <1>3, <1>4, <1>5
     DEF Receive, PassUdpUnfiltered, DropUdpUnlistedPort, DecideUdp, Examined

(* A packet changes the tracked sources by no more than its own.           *)
LEMMA PromiseLearn ==
  ASSUME Inv, NEW p \in Packets, Receive(p)
  PROVE  \/ Tracked(tracker)' = Tracked(tracker)
         \/ /\ Promise!Protected(p) /\ p.syn
            /\ Tracked(tracker)' = Tracked(tracker) \cup {Promise!AckTrackKey(p)}
<1>1. CASE UNCHANGED tracker
  BY <1>1
<1>2. CASE DecideTcp(p) /\ tracker' # tracker
  <2>1. /\ p.iface \in Ifaces /\ AckTrackKey(p) \in Sources
        /\ p.seq \in SeqNum /\ p.proto = "TCP"
    BY <1>2, PacketFields DEF DecideTcp, Examined
  <2>2. tracker' = Insert(tracker, AckTrackKey(p), p.seq) /\ maps.flood[p.iface]
    BY <1>2 DEF DecideTcp, FloodTracks
  <2>3. Promise!Protected(p)
    BY <2>1, <2>2, TcpFlags, SectionAbsent DEF Inv, Promise!Protected
  <2>4. \/ Tracked(tracker)' = Tracked(tracker)
        \/ Tracked(tracker)' = Tracked(tracker) \cup {AckTrackKey(p)}
    BY <2>1, <2>2, InsertTracks DEF Inv, TypeOK
  <2>5. ~p.syn => AckTrackKey(p) \in Tracked(tracker)
    BY <1>2, <2>1, <2>2 DEF DecideTcp, FloodDrops, Continues, Tracked, Inv, TypeOK
  <2> QED BY <2>3, <2>4, <2>5 DEF Promise!AckTrackKey, AckTrackKey
<1> QED
  BY <1>1, <1>2
     DEF Receive, PassUnexamined, PassUdpUnfiltered, DropUdpUnlistedPort,
         DecideUdp, PassTcpUnfiltered, DropTcpUnlistedSyn, DropTcpFlood

LEMMA PromiseHandle ==
  ASSUME Inv, Separated(cfg), NEW p \in Packets, Receive(p)
  PROVE  Promise!Handle(p)
<1>1. Promise!Pass(p) \/ Promise!Drop(p)
  <2>1. CASE p.proto = "OTHER"
    BY <2>1
       DEF Receive, PassUnexamined, PassUdpUnfiltered, DropUdpUnlistedPort,
           DecideUdp, PassTcpUnfiltered, DropTcpUnlistedSyn, DropTcpFlood,
           DecideTcp, Examined, Return, Promise!Pass, Promise!Admits,
           Promise!Protected
  <2> QED BY <2>1, PacketFields, PromiseUdp, PromiseTcp
<1>2. cfg' = cfg
  BY ReceiveType DEF Inv
<1>3. Promise!Learn(p)
  BY PromiseLearn DEF Promise!Learn
<1> QED BY <1>1, <1>2, <1>3 DEF Promise!Handle

(* As long as the merged configurations are Separated, every behaviour of  *)
(* the program on its shared tables is one the rules of the interfaces     *)
(* allow.                                                                  *)
THEOREM FirewallImplemented == Spec /\ []Separated(cfg) => ImplementsFirewall
<1>1. Init => Promise!Init
  BY PromiseFirewallInit
<1>2. ASSUME Inv, Separated(cfg), [Next]_vars
      PROVE  [Promise!Next]_<<cfg, Tracked(tracker), last>>
  <2>1. ASSUME NEW p \in Packets, Receive(p) PROVE Promise!Next
    BY <1>2, <2>1, PromiseHandle DEF Promise!Next
  <2>2. ASSUME NEW c \in Configs, Apply(c) PROVE Promise!Next
    BY <1>2, <2>2, PromiseConfigure DEF Promise!Next
  <2>3. CASE UNCHANGED <<cfg, tracker, last>>
    BY <2>3 DEF Tracked
  <2> QED
    BY <1>2, <2>1, <2>2, <2>3
       DEF Next, vars, ApplyRejected, StartMonitor, StopMonitor, ReadEvent
<1> QED BY <1>1, <1>2, InvCorrect, PTL DEF Spec, ImplementsFirewall, Promise!Spec
=============================================================================
