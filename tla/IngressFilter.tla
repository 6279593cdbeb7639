--------------------------- MODULE IngressFilter ----------------------------
(***************************************************************************)
(* The XDP program efense_net_xdp_ingress_apply running on the maps that   *)
(* "efctl apply" compiled: one action per way the handler returns          *)
(* (src/ebpf/enforce.rs), with the flood protection it calls               *)
(* (src/ebpf/protect.rs) and the events it submits (src/ebpf/monitor.rs).  *)
(*                                                                         *)
(* A packet is handled in one step and a configuration is applied in one   *)
(* step.  What several CPUs do to the tracker at once is AckTracker's      *)
(* subject; how apply replaces the program in many steps is Lifecycle's.   *)
(***************************************************************************)
EXTENDS Traffic

CONSTANTS
  Configs,       \* the configurations handed to efctl apply
  RING_CAPACITY  \* events a ring buffer holds

ASSUME ConfigsAssumption == Configs \subseteq Config
ASSUME RingAssumption == RING_CAPACITY \in Nat

VARIABLES
  cfg,      \* the merged configuration in force (the CFG blob)
  maps,     \* the policy maps of the attached program
  tracker,  \* TCP_ACK_SEQ_TRACKER
  monitor,  \* MONITOR_ENABLED
  events,   \* per protocol, how many events its ring buffer holds
  last      \* the packet handled last and its verdict

vars == <<cfg, maps, tracker, monitor, events, last>>

NoEntries == [k \in Sources |-> UNTRACKED]
NoEvents  == [proto \in {"UDP", "TCP"} |-> 0]

Init ==
  /\ cfg = Unconfigured
  /\ maps = Compile(Unconfigured)
  /\ tracker = NoEntries
  /\ monitor = FALSE
  /\ events = NoEvents
  /\ last = NoPacket

-----------------------------------------------------------------------------
(* Looking a packet up in the maps *)

Matching(trie, addr) == {x \in trie : Covers(x, addr)}

LongestMatch(trie, addr) ==
  CHOOSE x \in Matching(trie, addr) :
    \A y \in Matching(trie, addr) : y.len <= x.len

action_to_xdp(action) == IF action % 2 = 0 THEN "XDP_PASS" ELSE "XDP_DROP"

Decision(default, action) == [default |-> default, action |-> action]
DefaultDrop == Decision(TRUE, "XDP_DROP")

(* The rule for a prefix: the entry of the exact port, else of any port.   *)
PortRule(act, prefix, port) ==
  IF <<prefix, port>> \in DOMAIN act
    THEN Decision(FALSE, action_to_xdp(act[<<prefix, port>>]))
  ELSE IF <<prefix, PORT_ANY>> \in DOMAIN act
    THEN Decision(FALSE, action_to_xdp(act[<<prefix, PORT_ANY>>]))
  ELSE DefaultDrop

\* Mutant: a wider prefix is asked when the narrowest lacks the port.
LookUpWider(trie, act, addr, port) ==
  LET holding == {x \in trie : ~PortRule(act, x, port).default} IN
  IF Matching(holding, addr) = {}
    THEN DefaultDrop
    ELSE PortRule(act, LongestMatch(holding, addr), port)

LookUp(trie, act, addr, port) ==
  IF Matching(trie, addr) = {}
    THEN DefaultDrop
    ELSE PortRule(act, LongestMatch(trie, addr), port)

\* Mutant: the port table of the other protocol.
decide_udp_in_tcp_table(m, p) ==
  IF p.iface \notin DOMAIN m.udp_trie
    THEN Decision(FALSE, "XDP_PASS")
    ELSE LookUp(m.udp_trie[p.iface], m.tcp_act, p.src, p.sport)

decide_udp(m, p) ==
  IF p.iface \notin DOMAIN m.udp_trie
    THEN Decision(FALSE, "XDP_PASS")
    ELSE LookUp(m.udp_trie[p.iface], m.udp_act, p.src, p.sport)

\* Mutant: a SYN-ACK is taken for a connection request.
decide_tcp_syn_ack_filtered(m, p) ==
  IF \/ p.iface \notin DOMAIN m.tcp_trie
     \/ m.outgoing[p.iface] /\ ~p.syn
    THEN Decision(FALSE, "XDP_PASS")
    ELSE LookUp(m.tcp_trie[p.iface], m.tcp_act, p.src, p.dport)

\* Mutant: an interface without rules gets the default action.
decide_tcp_no_rules_dropped(m, p) ==
  IF p.iface \notin DOMAIN m.tcp_trie
    THEN DefaultDrop
  ELSE IF m.outgoing[p.iface] /\ ~PureSyn(p)
    THEN Decision(FALSE, "XDP_PASS")
    ELSE LookUp(m.tcp_trie[p.iface], m.tcp_act, p.src, p.dport)

decide_tcp(m, p) ==
  IF \/ p.iface \notin DOMAIN m.tcp_trie
     \/ m.outgoing[p.iface] /\ ~PureSyn(p)
    THEN Decision(FALSE, "XDP_PASS")
    ELSE LookUp(m.tcp_trie[p.iface], m.tcp_act, p.src, p.dport)

-----------------------------------------------------------------------------
(* What the handler calls on the way *)

(* try_monitor_udp, try_monitor_tcp: of TCP only ACKs without payload are  *)
(* traced; a full ring buffer switches monitoring off.                     *)
Traceable(p) ==
  monitor /\ (p.proto = "TCP" => p.ack /\ ~p.syn /\ ~p.payload)

NoEvent == UNCHANGED <<monitor, events>>

\* Mutant: one event more than the ring buffer has room for.
try_monitor_overfull(p) ==
  \/ /\ ~Traceable(p)
     /\ NoEvent
  \/ /\ Traceable(p)
     /\ events[p.proto] <= RING_CAPACITY
     /\ events' = [events EXCEPT ![p.proto] = @ + 1]
     /\ UNCHANGED monitor

try_monitor(p) ==
  \/ /\ ~Traceable(p)
     /\ NoEvent
  \/ /\ Traceable(p)
     /\ events[p.proto] < RING_CAPACITY
     /\ events' = [events EXCEPT ![p.proto] = @ + 1]
     /\ UNCHANGED monitor
  \/ /\ Traceable(p)
     /\ events[p.proto] = RING_CAPACITY
     /\ monitor' = FALSE
     /\ UNCHANGED events

(* protect_tcp_ack_flood: a SYN is learned, a SYN-ACK only where outgoing  *)
(* connections are allowed; anything else must continue a tracked source.  *)
Continues(p) ==
  /\ tracker[AckTrackKey(p)] # UNTRACKED
  /\ InWindow(p.seq, tracker[AckTrackKey(p)])

\* Mutant: a source that is not tracked is not checked.
FloodDropsTracked(p) ==
  /\ maps.flood[p.iface]
  /\ IF p.syn
       THEN p.ack /\ ~maps.outgoing[p.iface]
       ELSE tracker[AckTrackKey(p)] # UNTRACKED /\ ~Continues(p)

FloodDrops(p) ==
  /\ maps.flood[p.iface]
  /\ IF p.syn THEN p.ack /\ ~maps.outgoing[p.iface] ELSE ~Continues(p)

FloodTracks(p) ==
  tracker' = IF maps.flood[p.iface]
               THEN Insert(tracker, AckTrackKey(p), p.seq)
               ELSE tracker

Return(p, verdict) ==
  /\ last' = [pkt |-> p, verdict |-> verdict]
  /\ UNCHANGED <<cfg, maps>>

-----------------------------------------------------------------------------
(* The packet handler: one action per way out *)

(* The program is not attached there, or the packet is not its business.   *)
PassUnexamined(p) ==
  /\ p.iface \notin InterfacesWithPolicy(cfg) \/ p.proto = "OTHER"
  /\ NoEvent
  /\ UNCHANGED tracker
  /\ Return(p, "XDP_PASS")

Examined(p, proto) == p.iface \in InterfacesWithPolicy(cfg) /\ p.proto = proto

PassUdpUnfiltered(p) ==
  /\ Examined(p, "UDP")
  /\ maps.udp_dflt = ACTION_PASS
  /\ try_monitor(p)
  /\ UNCHANGED tracker
  /\ Return(p, "XDP_PASS")

DropUdpUnlistedPort(p) ==
  /\ Examined(p, "UDP")
  /\ maps.udp_dflt # ACTION_PASS
  /\ <<p.iface, p.sport>> \notin maps.allow
  /\ NoEvent
  /\ UNCHANGED tracker
  /\ Return(p, "XDP_DROP")

DecideUdp(p) ==
  /\ Examined(p, "UDP")
  /\ maps.udp_dflt # ACTION_PASS
  /\ <<p.iface, p.sport>> \in maps.allow
  /\ IF decide_udp(maps, p).default THEN try_monitor(p) ELSE NoEvent
  /\ UNCHANGED tracker
  /\ Return(p, decide_udp(maps, p).action)

PassTcpUnfiltered(p) ==
  /\ Examined(p, "TCP")
  /\ maps.tcp_dflt = ACTION_PASS
  /\ try_monitor(p)
  /\ UNCHANGED tracker
  /\ Return(p, "XDP_PASS")

SynToUnlistedPort(p) == PureSyn(p) /\ <<p.iface, p.dport>> \notin maps.allow

DropTcpUnlistedSyn(p) ==
  /\ Examined(p, "TCP")
  /\ maps.tcp_dflt # ACTION_PASS
  /\ SynToUnlistedPort(p)
  /\ NoEvent
  /\ UNCHANGED tracker
  /\ Return(p, "XDP_DROP")

DropTcpFlood(p) ==
  /\ Examined(p, "TCP")
  /\ maps.tcp_dflt # ACTION_PASS
  /\ ~SynToUnlistedPort(p)
  /\ FloodDrops(p)
  /\ NoEvent
  /\ UNCHANGED tracker
  /\ Return(p, "XDP_DROP")

DecideTcp(p) ==
  /\ Examined(p, "TCP")
  /\ maps.tcp_dflt # ACTION_PASS
  /\ ~SynToUnlistedPort(p)
  /\ ~FloodDrops(p)
  /\ FloodTracks(p)
  /\ IF decide_tcp(maps, p).default THEN try_monitor(p) ELSE NoEvent
  /\ Return(p, decide_tcp(maps, p).action)

Receive(p) ==
  \/ PassUnexamined(p)
  \/ PassUdpUnfiltered(p) \/ DropUdpUnlistedPort(p) \/ DecideUdp(p)
  \/ PassTcpUnfiltered(p) \/ DropTcpUnlistedSyn(p) \/ DropTcpFlood(p)
  \/ DecideTcp(p)

-----------------------------------------------------------------------------
(* The commands of efctl *)

(* apply: a new program with new, fully populated maps replaces the one    *)
(* attached; it starts with no tracked source and with monitoring off.     *)
Apply(c) ==
  LET merged == Merge(c, cfg) IN
  /\ Fits(merged)
  /\ cfg' = merged
  /\ maps' = Compile(merged)
  /\ tracker' = NoEntries
  /\ monitor' = FALSE
  /\ events' = NoEvents
  /\ last' = NoPacket

(* apply gives up while it fills the maps of the new program, which is     *)
(* then discarded: nothing in force changes.                               *)
ApplyRejected(c) ==
  /\ ~Fits(Merge(c, cfg))
  /\ UNCHANGED vars

(* monitor, when a configuration has been applied: switch events on, read  *)
(* one from a ring buffer, switch them off at Ctrl-C.                      *)
StartMonitor ==
  /\ cfg # Unconfigured
  /\ monitor' = TRUE
  /\ UNCHANGED <<cfg, maps, tracker, events, last>>

ReadEvent(proto) ==
  /\ events[proto] > 0
  /\ events' = [events EXCEPT ![proto] = @ - 1]
  /\ UNCHANGED <<cfg, maps, tracker, monitor, last>>

StopMonitor ==
  /\ monitor' = FALSE
  /\ UNCHANGED <<cfg, maps, tracker, events, last>>

Next ==
  \/ \E p \in Packets : Receive(p)
  \/ \E c \in Configs : Apply(c) \/ ApplyRejected(c)
  \/ StartMonitor \/ StopMonitor
  \/ \E proto \in DOMAIN events : ReadEvent(proto)

Spec == Init /\ [][Next]_vars

-----------------------------------------------------------------------------
(* Properties *)

(* The variables have their types, no ring buffer holds more events than   *)
(* it has room for, and no verdict is left undecided (the maps of          *)
(* enforce.rs and protect.rs, the ring buffers of ebpf/monitor.rs).        *)
TypeOK ==
  /\ cfg \in Config
  /\ tracker \in [Sources -> SeqNum \cup {UNTRACKED}]
  /\ monitor \in BOOLEAN
  /\ events \in [{"UDP", "TCP"} -> 0 .. RING_CAPACITY]
  /\ \/ last = NoPacket
     \/ /\ last.pkt \in Packets
        /\ last.verdict \in {"XDP_PASS", "XDP_DROP"}

(* The maps in the kernel are those of the configuration that "show" would *)
(* print (populate_maps and the CFG blob of apply.rs).                     *)
MapsOfConfig == maps = Compile(cfg)

Handled(proto, verdict) ==
  last # NoPacket /\ last.pkt.proto = proto /\ last.verdict = verdict

Passed(proto)  == Handled(proto, "XDP_PASS")
Dropped(proto) == Handled(proto, "XDP_DROP")

(* A prefix of the interface covers the address, and the rules of the      *)
(* interfaces together hold that prefix with this port or with any port.   *)
ListedSomewhere(prefixes, pairs, addr, port) ==
  \E x \in prefixes :
    Covers(x, addr) /\ {<<x, port>>, <<x, PORT_ANY>>} \cap pairs # {}

(* It is enough that some narrowest of the prefixes that cover the address *)
(* is held with the port: a wider one counts for nothing.                  *)
NarrowestListed(prefixes, pairs, addr, port) ==
  LET covering == {x \in prefixes : Covers(x, addr)} IN
  \E x \in covering :
    /\ \A y \in covering : y.len <= x.len
    /\ {<<x, port>>, <<x, PORT_ANY>>} \cap pairs # {}

(* A connection request passes an interface with a TCP section only if a   *)
(* rule of that interface names its port, and the narrowest range of that  *)
(* section which covers its source is listed with this port or any by some *)
(* interface: a wider range that lists the port does not help.  It is what *)
(* the chain of allow list, trie and port table of enforce.rs:201-228      *)
(* guarantees for every configuration.                                     *)
PassedSynIsListed ==
  LET p == last.pkt IN
  Passed("TCP") /\ PureSyn(p) /\ p.iface \in WithTcp(cfg) =>
    /\ <<p.iface, p.dport>> \in PortAllowList(cfg)
    /\ NarrowestListed(PrefixesOf(TcpPairs(cfg, p.iface)),
                       UNION {TcpPairs(cfg, i) : i \in WithTcp(cfg)},
                       p.src, p.dport)

(* The same of UDP packets and their source port (enforce.rs:170-182).     *)
PassedUdpIsListed ==
  LET p == last.pkt IN
  Passed("UDP") /\ p.iface \in WithUdp(cfg) =>
    /\ <<p.iface, p.sport>> \in PortAllowList(cfg)
    /\ NarrowestListed(PrefixesOf(UdpPairs(cfg, p.iface)),
                       UNION {UdpPairs(cfg, i) : i \in WithUdp(cfg)},
                       p.src, p.sport)

(* "TCP packets that are not pure SYNs (i.e. not opening a new connection) *)
(* are unconditionally passed" where allow_outgoing is set                 *)
(* (lib/tcp.rs:58-61), with one exception: the flood protection, which     *)
(* runs first (enforce.rs:213), drops a segment that does not continue     *)
(* what the tracker knows of its source.  A SYN-ACK is never dropped, and  *)
(* neither the port allow list nor the tries come in the way of a reply.   *)
OutgoingRepliesPass ==
  LET p == last.pkt IN
  /\ Dropped("TCP") /\ ~PureSyn(p)
  /\ p.iface \in WithTcp(cfg)
  /\ cfg[p.iface].tcp.allow_outgoing
  => /\ cfg[p.iface].tcp.tcp_ack_flood
     /\ ~p.syn /\ ~Continues(p)

(* The program is attached for a section of either protocol, and the       *)
(* default actions are the host's, not the interface's.  An interface      *)
(* without a section of the packet's protocol has no rules for it, and     *)
(* neither the flood protection nor decide_udp and decide_tcp drop the     *)
(* packet (enforce.rs:213, 234-285).  The early check of the port list     *)
(* (enforce.rs:170-174, 201-211) comes first and does, unless the other    *)
(* protocol lists the port: that is the only loss.                         *)
SectionlessDropsOnlyAtThePort ==
  LET p == last.pkt IN
  /\ Dropped("UDP") /\ p.iface \notin WithUdp(cfg) =>
       /\ WithUdp(cfg) # {} /\ p.iface \in WithTcp(cfg)
       /\ p.sport \notin TcpAllowedPorts(cfg, p.iface)
  /\ Dropped("TCP") /\ p.iface \notin WithTcp(cfg) =>
       /\ WithTcp(cfg) # {} /\ p.iface \in WithUdp(cfg)
       /\ PureSyn(p) /\ p.dport \notin UdpAllowedPorts(cfg, p.iface)

-----------------------------------------------------------------------------
(* Where the maps say exactly what the configuration says *)

(* No address is covered by two prefixes of one section.                   *)
NonOverlapping(pairs) ==
  \A x, y \in PrefixesOf(pairs) :
    (\E a \in Addr : Covers(x, a) /\ Covers(y, a)) => x = y

(* A prefix two interfaces share has the same ports on both.               *)
NotShared(pairs, others) ==
  \A k \in others : k[1] \in PrefixesOf(pairs) => k \in pairs

(* Every attached interface has a section for the protocols in use, rules  *)
(* name their port, and prefixes neither overlap within a section nor mean *)
(* different things on different interfaces.                               *)
Separated(c) ==
  /\ WithUdp(c) \in {{}, InterfacesWithPolicy(c)}
  /\ WithTcp(c) \in {{}, InterfacesWithPolicy(c)}
  /\ \A i \in WithUdp(c) :
       /\ \A r \in c[i].udp : r.src_port \notin {NONE, PORT_ANY}
       /\ NonOverlapping(UdpPairs(c, i))
       /\ \A j \in WithUdp(c) : NotShared(UdpPairs(c, i), UdpPairs(c, j))
  /\ \A i \in WithTcp(c) :
       /\ \A r \in c[i].tcp.rules : r.port # PORT_ANY
       /\ NonOverlapping(TcpPairs(c, i))
       /\ \A j \in WithTcp(c) : NotShared(TcpPairs(c, i), TcpPairs(c, j))

Promise == INSTANCE Firewall
  WITH policy <- cfg, seen <- Tracked(tracker), out <- last

(* While the configuration is Separated, the shared tables, the tries and  *)
(* the defaults of enforce.rs treat every packet as the rules of its own   *)
(* interface say.                                                          *)
ImplementsFirewall == Promise!Spec

-----------------------------------------------------------------------------
(* What the documentation says beyond that *)

(* "A missing `src_port` is treated as 'any source port' for the matched   *)
(* prefix" (lib/udp.rs:22-23): while no other rule could shadow it, a      *)
(* packet such a rule covers is not dropped.                               *)
AnySourcePortPasses ==
  LET p == last.pkt
      pairs == UdpPairs(cfg, p.iface) IN
  ~ /\ Dropped("UDP")
    /\ p.iface \in WithUdp(cfg)
    /\ NonOverlapping(pairs)
    /\ \E x \in PrefixesOf(pairs) :
         Covers(x, p.src) /\ <<x, PORT_ANY>> \in pairs

(* "Once tcp section defined, by default, all incoming TCP connection will *)
(* be silently dropped unless explicitly defined in `allow_list`"          *)
(* (examples/tcp.yml:11-12): the allow list of the interface itself.       *)
PassedSynIsOnOwnList ==
  LET p == last.pkt IN
  Passed("TCP") /\ PureSyn(p) /\ p.iface \in WithTcp(cfg) =>
    ListedSomewhere(PrefixesOf(TcpPairs(cfg, p.iface)),
                    TcpPairs(cfg, p.iface), p.src, p.dport)

(* "If the interface has no UDP policy attached, pass" (enforce.rs:10-12), *)
(* "If the interface has no TCP policy attached, pass" (enforce.rs:24-26). *)
SectionlessPasses ==
  LET p == last.pkt IN
  /\ Dropped("UDP") => p.iface \in WithUdp(cfg)
  /\ Dropped("TCP") => p.iface \in WithTcp(cfg)
=============================================================================
