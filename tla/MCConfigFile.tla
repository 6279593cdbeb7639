--------------------------- MODULE MCConfigFile ---------------------------
(* Files of up to two entries over two interfaces, an interface possibly   *)
(* twice; and files of one rule with any range text, good or bad.          *)
EXTENDS ConfigFile

CONSTANTS eth0, eth1

Text(addr, len) == [addr |-> addr, len |-> len]

AnyUdp == {[ranges |-> {}, src_port |-> NONE]}
TwoRanges == {[ranges |-> {Text(5, 3), Text(10, NONE)}, src_port |-> 1]}
Open == [rules |-> {[ranges |-> {Text(9, 2)}, port |-> 1]},
         allow_outgoing |-> TRUE, tcp_ack_flood |-> FALSE]
Guarded == [rules |-> {[ranges |-> {Text(6, NONE)}, port |-> 2]},
            allow_outgoing |-> FALSE, tcp_ack_flood |-> TRUE]

Entry ==
  [name : {eth0}, udp : {NONE, AnyUdp, TwoRanges}, tcp : {NONE, Open, Guarded}]
    \cup [name : {eth1}, udp : {NONE, AnyUdp}, tcp : {NONE}]

Lists == UNION {[1 .. n -> Entry] : n \in 0 .. 2}

AnyText ==
  {Text(addr, len) : addr \in {5, 10, 15},
                     len \in (0 .. AddrBits + 1) \cup {NONE}}
    \cup {Text(MALFORMED, 1), Text(1, MALFORMED)}

OneRange(text) ==
  <<[name |-> eth1, udp |-> {[ranges |-> {text}, src_port |-> 2]},
     tcp |-> NONE]>>

MCFiles == Lists \cup {OneRange(text) : text \in AnyText}
=============================================================================
