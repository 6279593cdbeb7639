---------------------------- MODULE ConfigFile ----------------------------
(***************************************************************************)
(* What the user writes and what apply makes of it (src/lib/config.rs,     *)
(* src/lib/ip.rs, src/cli/apply.rs).                                       *)
(*                                                                         *)
(* PolicyMaps sees a configuration as one record per interface, with       *)
(* ranges already read.  In the code it is a list of entries, in the order *)
(* of the file, each with the name of an interface, an optional UDP and an *)
(* optional TCP section, and range texts that stay texts: nothing reads    *)
(* them before apply expands the rules, and the list that is stored, shown *)
(* and merged again keeps them as written.  Nothing forbids a file to name *)
(* an interface twice.                                                     *)
(*                                                                         *)
(* An action is a whole command, none of them at the same time as another  *)
(* (Lifecycle has their steps); one that fails changes nothing here.       *)
(***************************************************************************)
EXTENDS PolicyMaps, SequencesExt

CONSTANTS
  OCTETS, OCTET_BITS,  \* an address is 4 octets of 8 bits in the code
  MALFORMED,           \* a part of a range text that is no number or address
  Files,               \* what users may apply
  CFG_BLOB_LEN         \* room for the stored list

ASSUME OctetAssumption == /\ {OCTETS, OCTET_BITS} \subseteq Nat \ {0}
                          /\ AddrBits = OCTETS * OCTET_BITS

\* What a range text says before anything reads it, and the entries of a list.
RangeText == [addr : Addr \cup {MALFORMED}, len : Nat \cup {NONE, MALFORMED}]

UdpSection(Texts) ==
  SUBSET [ranges : SUBSET Texts, src_port : Port \cup {NONE}]
TcpSection(Texts) ==
  [rules : SUBSET [ranges : SUBSET Texts, port : Port],
   allow_outgoing : BOOLEAN, tcp_ack_flood : BOOLEAN]

ListEntry == [name : Ifaces, udp : UdpSection(RangeText) \cup {NONE},
              tcp : TcpSection(RangeText) \cup {NONE}]

ASSUME FilesAssumption == Files \subseteq Seq(ListEntry)
ASSUME PartsAssumption == NONE \notin Nat /\ MALFORMED \notin Nat \cup {NONE}

VARIABLES
  stored,   \* the list in the pinned CFG map, NONE if there is none
  tries,    \* protocol -> interface -> the prefixes of its trie
  present   \* the interfaces that exist

vars == <<stored, tries, present>>

Protocols == {"udp", "tcp"}

NoTries == [proto \in Protocols |-> [i \in Ifaces |-> {}]]

-----------------------------------------------------------------------------
(* Range texts: "A.B.C.D" (no length) or "A.B.C.D/N" *)

\* Ipv4Cidr::parse: no length stands for the full one; the bits of the host
\* stay.
Parse(text) ==
  IF \/ text.len = MALFORMED \/ text.addr = MALFORMED
     \/ text.len # NONE /\ text.len > AddrBits
  THEN NONE
  ELSE [text EXCEPT !.len = IF @ = NONE THEN AddrBits ELSE @]

Octet(addr, k) ==
  (addr \div Pow2[OCTET_BITS * (OCTETS - k)]) % Pow2[OCTET_BITS]

\* The octet with all but its leading bits cleared.
Leading(octet, bits) == octet - (octet % Pow2[OCTET_BITS - bits])

\* Ipv4Cidr::new: octet by octet, counting down the bits left to keep; one
\* turn of the loop, and the whole.
\* Mutant: no bit is cleared.
NextOctet(last, addr, k) ==
  LET octet == Octet(addr, k)
      whole == last.left >= OCTET_BITS
  IN  [addr |-> last.addr * Pow2[OCTET_BITS]
                  + IF whole THEN octet ELSE Leading(octet, last.left),
       left |-> IF whole THEN last.left - OCTET_BITS ELSE 0]

NewCidrUnmasked(range) == range
NewCidr(range) ==
  LET out[k \in 0 .. OCTETS] ==
        IF k = 0 THEN [addr |-> 0, left |-> range.len]
                 ELSE NextOctet(out[k - 1], range.addr, k)
  IN  [addr |-> out[OCTETS].addr, len |-> range.len]

-----------------------------------------------------------------------------
(* Lists of entries [name, udp, tcp] *)

\* The place of the entry that answers for a name, 0 if there is none.
\* Mutant: the last of several entries is found.
FindLast(cfg, name) == SelectLastInSeq(cfg, LAMBDA e : e.name = name)
Find(cfg, name) == SelectInSeq(cfg, LAMBDA e : e.name = name)

\* Interface::merge.
\* Mutant: the sections in force win.
MergeEntryOldWins(new, old) ==
  [new EXCEPT !.udp = IF old.udp = NONE THEN @ ELSE old.udp,
              !.tcp = IF old.tcp = NONE THEN @ ELSE old.tcp]
MergeEntry(new, old) ==
  [new EXCEPT !.udp = IF @ = NONE THEN old.udp ELSE @,
              !.tcp = IF @ = NONE THEN old.tcp ELSE @]

\* One turn of the loop of EfenseConfig::merge, and the whole.
\* Mutants: an entry only in force is dropped; it goes to the front; every
\* entry in force is added, those the file names already too.
MergeOneAppended(cfg, old) == Append(cfg, old)
MergeOneKnown(cfg, old) ==
  LET k == Find(cfg, old.name)
  IN  IF k = 0 THEN cfg ELSE [cfg EXCEPT ![k] = MergeEntry(@, old)]
MergeOneInFront(cfg, old) ==
  LET k == Find(cfg, old.name)
  IN  IF k = 0 THEN <<old>> \o cfg ELSE [cfg EXCEPT ![k] = MergeEntry(@, old)]
MergeOne(cfg, old) ==
  LET k == Find(cfg, old.name)
  IN  IF k = 0 THEN Append(cfg, old) ELSE [cfg EXCEPT ![k] = MergeEntry(@, old)]

MergeList(new, old) ==
  LET merged[k \in 0 .. Len(old)] ==
        IF k = 0 THEN new ELSE MergeOne(merged[k - 1], old[k])
  IN  merged[Len(old)]

-----------------------------------------------------------------------------
(* What a list means *)

Read(rules) == {[r EXCEPT !.ranges = {Parse(t) : t \in @}] : r \in rules}

\* A section that is there is still there when its texts are read.
ASSUME NoneAssumption ==
  /\ \A file \in Files : \A k \in DOMAIN file :
       file[k].udp # NONE => Read(file[k].udp) # NONE
  /\ NONE \notin TcpSection(Prefix \cup {NONE})

WithUdpOf(cfg, i) == {k \in DOMAIN cfg : cfg[k].name = i /\ cfg[k].udp # NONE}
WithTcpOf(cfg, i) == {k \in DOMAIN cfg : cfg[k].name = i /\ cfg[k].tcp # NONE}

\* collect_udp_per_iface and collect_tcp_per_iface: the rules of all entries
\* of an interface; of two allow_outgoing the later one counts, and the
\* flood protection is on when one entry asks for it.
\* Mutant: an entry replaces the rules of those before it.
UdpRulesOfLast(cfg, i) ==
  IF WithUdpOf(cfg, i) = {} THEN {} ELSE Read(cfg[Max(WithUdpOf(cfg, i))].udp)
UdpRulesOf(cfg, i) == UNION {Read(cfg[k].udp) : k \in WithUdpOf(cfg, i)}
TcpRulesOf(cfg, i) == UNION {Read(cfg[k].tcp.rules) : k \in WithTcpOf(cfg, i)}

UdpOf(cfg, i) == IF WithUdpOf(cfg, i) = {} THEN NONE ELSE UdpRulesOf(cfg, i)
TcpOf(cfg, i) ==
  LET places == WithTcpOf(cfg, i)
  IN  IF places = {} THEN NONE
      ELSE [rules          |-> TcpRulesOf(cfg, i),
            allow_outgoing |-> cfg[Max(places)].tcp.allow_outgoing,
            tcp_ack_flood  |-> \E k \in places : cfg[k].tcp.tcp_ack_flood]

\* The configuration of PolicyMaps that a list stands for.
Meaning(cfg) ==
  [i \in Ifaces |-> [udp |-> UdpOf(cfg, i), tcp |-> TcpOf(cfg, i)]]

\* The prefixes that rules put into the trie of an interface.
TrieOf(rules) ==
  UNION {IF r.ranges = {} THEN {AnySource} ELSE {NewCidr(t) : t \in r.ranges}
           : r \in rules}

TriesOf(cfg) ==
  [proto \in Protocols |-> [i \in Ifaces |->
     TrieOf(IF proto = "udp" THEN UdpRulesOf(cfg, i) ELSE TcpRulesOf(cfg, i))]]

\* The rules of one entry as they are written.
UdpRulesIn(e) == IF e.udp = NONE THEN {} ELSE e.udp
TcpRulesIn(e) == IF e.tcp = NONE THEN {} ELSE e.tcp.rules

\* The length of the JSON text: every entry and every rule adds its share.
Length(cfg) ==
  FoldLeft(LAMBDA sum, e : sum + 1 + Cardinality(UdpRulesIn(e))
                                   + Cardinality(TcpRulesIn(e)), 0, cfg)

TextsOf(e) == UNION {r.ranges : r \in UdpRulesIn(e) \cup TcpRulesIn(e)}

\* populate_maps runs through: every range is read, every name is looked up,
\* everything has room.
Populates(cfg) ==
  /\ \A k \in DOMAIN cfg : \A t \in TextsOf(cfg[k]) : Parse(t) # NONE
  /\ \A k \in DOMAIN cfg : cfg[k].name \in present
  /\ Fits(Meaning(cfg))
  /\ Length(cfg) <= CFG_BLOB_LEN

-----------------------------------------------------------------------------
Init ==
  /\ stored = NONE
  /\ tries = NoTries
  /\ present = Ifaces

\* read_config: nothing stored reads as the empty list.
ReadConfig == IF stored = NONE THEN <<>> ELSE stored

\* efctl apply, all steps in one.
\* Mutant: the list is pinned before the rules are expanded.
ApplyPinsFirst(file) ==
  LET merged == MergeList(file, ReadConfig)
  IN  /\ Length(merged) <= CFG_BLOB_LEN
      /\ stored' = merged
      /\ tries' = IF Populates(merged) THEN TriesOf(merged) ELSE tries
      /\ UNCHANGED present
Apply(file) ==
  LET merged == MergeList(file, ReadConfig)
  IN  /\ Populates(merged)
      /\ stored' = merged
      /\ tries' = TriesOf(merged)
      /\ UNCHANGED present

\* efctl purge.
Purge ==
  /\ stored' = NONE
  /\ tries' = NoTries
  /\ UNCHANGED present

\* An interface goes away, or comes back.
Unplug(i) ==
  /\ i \in present
  /\ present' = present \ {i}
  /\ UNCHANGED <<stored, tries>>
Plug(i) ==
  /\ i \notin present
  /\ present' = present \cup {i}
  /\ UNCHANGED <<stored, tries>>

Next ==
  \/ \E file \in Files : Apply(file)
  \/ Purge
  \/ \E i \in Ifaces : Unplug(i) \/ Plug(i)

Spec == Init /\ [][Next]_vars

-----------------------------------------------------------------------------
(* Properties *)

(* What is stored is a list of entries, and every trie holds prefixes in   *)
(* their one canonical form, as the XDP program's exact lookups require.   *)
TypeOK ==
  /\ stored = NONE \/ \A k \in DOMAIN stored : stored[k].name \in Ifaces
  /\ tries \in [Protocols -> [Ifaces -> SUBSET {Canonical(p) : p \in Prefix}]]
  /\ present \subseteq Ifaces

(* A range as the reader of the file understands it.                       *)
InRange(addr, text) ==
  LET len == IF text.len = NONE THEN AddrBits ELSE text.len
  IN  addr \div Pow2[AddrBits - len] = text.addr \div Pow2[AddrBits - len]

Names(addr, rules) ==
  \E r \in rules : r.ranges = {} \/ \E t \in r.ranges : InRange(addr, t)

(* What show prints is in force: a trie of an interface matches an address *)
(* exactly when a rule that is stored for the interface, in whichever of   *)
(* its entries and with whatever host bits, names the address.             *)
ShownRangesMatch ==
  stored # NONE =>
    \A i \in Ifaces, addr \in Addr :
      LET mine == {k \in DOMAIN stored : stored[k].name = i}
      IN  /\ (\E p \in tries["udp"][i] : Covers(p, addr))
               <=> \E k \in mine : Names(addr, UdpRulesIn(stored[k]))
          /\ (\E p \in tries["tcp"][i] : Covers(p, addr))
               <=> \E k \in mine : Names(addr, TcpRulesIn(stored[k]))

(* An apply that fails over a range text fails over one of its own file,  *)
(* never over one that an earlier file left in the list: texts are stored  *)
(* as they were written (config.rs) and nothing reads them before          *)
(* populate_maps does.                                                     *)
BadTextIsTheFilesOwn ==
  \A file \in Files :
    LET merged == MergeList(file, ReadConfig)
    IN  \A k \in DOMAIN merged : \A t \in TextsOf(merged[k]) :
          Parse(t) = NONE => \E j \in DOMAIN file : t \in TextsOf(file[j])

NamedOnce(cfg) == \A j, k \in DOMAIN cfg : cfg[j].name = cfg[k].name => j = k

(* EfenseConfig::merge does what its comment promises, section by section  *)
(* as PolicyMaps states it, as long as nothing is named twice.             *)
MergeIsPerSection ==
  \A file \in Files :
    (NamedOnce(file) /\ NamedOnce(ReadConfig)) =>
      Meaning(MergeList(file, ReadConfig)) =
        Merge(Meaning(file), Meaning(ReadConfig))

(* The entries of the file come first, in their order, then those only in  *)
(* force, once each, in theirs; no interface is forgotten.                 *)
MergeKeepsOrder ==
  \A file \in Files :
    LET merged == MergeList(file, ReadConfig)
        rest   == (Len(file) + 1) .. Len(merged)
        place(k) == Find(ReadConfig, merged[k].name)
    IN  /\ Len(merged) >= Len(file)
        /\ \A k \in DOMAIN file : merged[k].name = file[k].name
        /\ \A k \in rest : place(k) # 0 /\ Find(merged, merged[k].name) = k
        /\ \A j, k \in rest : j < k => place(j) < place(k)
        /\ \A k \in DOMAIN ReadConfig : Find(merged, ReadConfig[k].name) # 0

(* Applying a file once more changes nothing that is in force, also when   *)
(* it names an interface twice and the merge rewrites its entries.         *)
ReapplyChangesNothing ==
  \A file \in Files :
    LET once == MergeList(file, ReadConfig)
    IN  Meaning(MergeList(file, once)) = Meaning(once)

(* Applying a file once more does not fail either: the list it makes is    *)
(* the same again, so a retry of what succeeded succeeds, unless an        *)
(* interface went away.  Only a file that names an interface twice may     *)
(* make the list longer, when the merge fills an entry of it.              *)
RetryIsAccepted ==
  \A file \in Files :
    LET once  == MergeList(file, ReadConfig)
        again == MergeList(file, once)
    IN  /\ NamedOnce(file) => again = once
        /\ Populates(once) => Populates(again) \/ ~(Length(again) <= CFG_BLOB_LEN)

(* What show prints is a backup: applied, it restores what is in force.    *)
ShownCanBeApplied ==
  Meaning(MergeList(ReadConfig, ReadConfig)) = Meaning(ReadConfig)
=============================================================================
