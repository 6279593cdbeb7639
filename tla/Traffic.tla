------------------------------ MODULE Traffic -------------------------------
(***************************************************************************)
(* The packets the XDP program sees: what src/ebpf/enforce.rs reads from   *)
(* the headers before it decides.                                          *)
(***************************************************************************)
EXTENDS PolicyMaps, AckWindow

CONSTANT Packets  \* the packets that arrive

UdpPacket   == [proto : {"UDP"}, iface : Ifaces, src : Addr, sport : Port]
TcpPacket   == [proto : {"TCP"}, iface : Ifaces, src : Addr, sport : Port,
                dport : Port, syn : BOOLEAN, ack : BOOLEAN,
                payload : BOOLEAN, seq : SeqNum]
\* Not IPv4, too short for its headers, or neither UDP nor TCP.
OtherPacket == [proto : {"OTHER"}, iface : Ifaces]

ASSUME PacketsAssumption ==
  /\ Packets \subseteq UdpPacket \cup TcpPacket \cup OtherPacket
  /\ NONE \notin Packets

(* A request for a new incoming connection.                                *)
PureSyn(p) == p.syn /\ ~p.ack

(* The tracker knows a TCP peer by its address and source port.            *)
AckTrackKey(p) == <<p.src, p.sport>>
Sources == Addr \X Port

NoPacket == [pkt |-> NONE, verdict |-> NONE]
=============================================================================
