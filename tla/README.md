# A verification project for efense

efense filters the IPv4 traffic that arrives at a Linux host. The tool `efctl`
turns a YAML file into eBPF maps and attaches an XDP program to the interfaces
the file names; from then on the program decides every packet by looking it up
in the maps. There is no daemon: all state lives in maps, programs and links
pinned under `/sys/fs/bpf`, and every `efctl` command is a process that works on
them and exits.

This directory holds TLA+ models of that system, TLC runs that check them on
small instances, and theorems proved with TLAPS for all values of the constants.

## 1. Inventory

| part | source | state it keeps | operations |
|---|---|---|---|
| policy compilation | `src/cli/apply.rs`, `src/lib/config.rs`, `src/lib_nostd/policy.rs` | none; fills the maps | merge, rule expansion, nine `populate_*` functions, the CFG blob |
| packet filter | `src/ebpf/enforce.rs` | policy maps (read only) | one handler with eight ways out |
| flood protection | `src/ebpf/protect.rs` | `TCP_ACK_SEQ_TRACKER` | learn a SYN or SYN-ACK, judge and store a segment |
| event submission | `src/ebpf/monitor.rs` | two ring buffers, `MONITOR_ENABLED` | test the switch, stamp, reserve, submit; switch off when the ring is full |
| `efctl apply` | `src/cli/apply.rs`, `src/cli/pin.rs` | pins, links, attached programs | about twenty steps that fail or are killed anywhere |
| `efctl monitor` | `src/cli/monitor.rs`, `src/lib/event.rs` | the switch; the rings it opened; a channel; the boot time | standalone setup, enable, two reader tasks, a printer, Ctrl-C |
| address texts | `src/lib/ip.rs`, `src/lib_nostd/policy.rs` | none | `Ipv4Cidr::parse`, `Ipv4Cidr::new` |
| `efctl purge` | `src/cli/purge.rs` | removes pins | detach links, remove three trees |
| `efctl show` | `src/cli/show.rs` | none | two reads of the stored configuration |
| command line, errors, build scripts | `main.rs`, `error.rs`, ... | none | parsing, formatting, dispatch |

How they interact. `apply` merges its file with the stored configuration,
compiles the result into the maps of a fresh eBPF object, and then replaces pins
and links one by one. The packet handler calls the flood protection between the
port allow list and the filter, and event submission after the filter. `monitor`
shares two rings and a switch with the handler, through pins that an `apply` may
replace meanwhile; its readers pass the events through a channel to the printer. `show` and
the next `apply` read two of the pins.

What is hard about it:

* the handler is a chain of checks over maps that all interfaces and both
  protocols share, so a rule of one interface may act on another;
* the handler runs on all CPUs at once, without locks, and its updates of the
  tracker are a lookup followed by an insertion;
* the tracker, the rings and the policy maps are bounded, and some failures to
  insert are ignored;
* the switch is tested before the ring is touched, a killed monitor leaves it on,
  and rings, switch and slow CPUs outlive the session they served;
* the configuration is merged as a list of texts, again and again, while the maps
  are filled from what the list means;
* sequence numbers wrap, and TCP loses, reorders and retransmits;
* commands interleave on the pins, can be killed between any two steps, and
  leave behind what the next command finds.

`PROJECT.json` lists the hazards one by one under "hazards", each with its line
and the properties that watch it, or the reason none does.

## 2. Modules

| module | what it is | corresponds to |
|---|---|---|
| `PolicyMaps` | configurations, merge, and the contents of every policy map as functions of the configuration | `apply.rs:146-528`, `config.rs`, `policy.rs` |
| `AckWindow` | wrapping distance of sequence numbers, window, insertion into the bounded tracker | `protect.rs:27-33`, `:98-110` |
| `Traffic` | the packets both the filter and its specification speak of | header fields in `enforce.rs` |
| `Firewall` | the abstract promise: each interface filters by its own allow lists | the documentation, and nothing of the maps |
| `IngressFilter` | the XDP program: one action per way out of the handler, plus apply and monitor as one step each | `enforce.rs`, `protect.rs`, `ebpf/monitor.rs` |
| `AckTracker` | the flood protection on several CPUs: lookup and insertion as separate steps | `protect.rs:54-125` |
| `AckSession` | TCP connections under the protection, on several CPUs, sharing the tracker | `protect.rs:84-124`; senders, network and receivers are external |
| `Monitor` | switch, rings, reader tasks, channel and printer, over several sessions | `ebpf/monitor.rs`, `cli/monitor.rs`, `lib/event.rs` |
| `EventStream` | the abstract promise of `monitor`: each kind of event is a queue that is shown in order (`Order`), and all of it (`Delivery`); the end of a session may lose the oldest, or leave the last shown one to be shown again | what a user of `monitor` may expect |
| `ConfigFile` | the file as a list of entries with range texts, the stored list, and the tries made of it | `config.rs`, `ip.rs`, `policy.rs:189-211`, `apply.rs:146-299` |
| `Lifecycle` | the four commands step by step on pins and links, with races, failures, kills and interfaces that come and go | `src/cli/*.rs` |
| `MCIngressFilter`, `MCAckTracker`, `MCAckSession`, `MCLifecycle`, `MCConfigFile` | constants for TLC | |
| `LoopTheorems` | lemmas the proofs share: induction along a loop, functions defined by recursion, division | |
| `IngressFilterProofs`, `AckTrackerProofs`, `AckSessionProofs`, `MonitorProofs`, `ConfigFileProofs`, `LifecycleProofs`, `LifecycleOutcomeProofs` | theorems and proofs | |

`Traffic` extends `PolicyMaps` and `AckWindow`; `Firewall` and `IngressFilter`
extend `Traffic`; `AckTracker` and `AckSession` extend `AckWindow`, so the three
models of the flood protection share one window and one insertion.
`IngressFilter` instantiates `Firewall` and is shown to implement it, and so does
`Monitor` with `EventStream`. `ConfigFile` extends `PolicyMaps`: the meaning of its
list is a configuration of `PolicyMaps`, its merge is compared with `Merge` there,
and `Fits` decides whether an apply has room.

### State and actions

*`IngressFilter`.* `cfg` is the configuration in the CFG blob, `maps` what
`populate_maps` made of it, `tracker` and `monitor` and `events` the maps the
handler writes. A packet is a record of the header fields the handler reads;
a packet that is not IPv4, is too short, or is neither UDP nor TCP is one kind.
`PassUdpUnfiltered`, `DropUdpUnlistedPort`, `DecideUdp`, `PassTcpUnfiltered`,
`DropTcpUnlistedSyn`, `DropTcpFlood`, `DecideTcp` and `PassUnexamined` are the
`return`s of `try_efense_net_xdp_ingress_apply`, each with everything the handler
did on the way. An address has `AddrBits` bits and a prefix is an address and a
length; a trie is the set of its prefixes, the lookup the longest that matches.

*`AckTracker`.* `cpu[c]` is the segment CPU `c` has found in the window and has
not stored yet: the state between `protect.rs:96` and `:110`. `opened` and
`passed` are histories.

*`AckSession`.* Segment `n` of a connection has sequence number `isn + n`, segment 0
is the SYN. `tracker` is shared by all connections, `cpu[p]` is again a segment that
is accepted and not stored. A sender keeps `SEND_WINDOW` segments outstanding and
sends the oldest again; the network loses, reorders and delays, also the SYN, but
by the time a segment is sent those `LIFETIME` before it are gone.

*`Monitor`.* On each CPU the program tests the switch and stamps the event (`Stamp`),
reserves a record (`Reserve`) or finds the ring full (`FindFull`), submits it
(`Submit`) or sets the switch (`Disable`); any other CPU and the process run in
between. A reader takes the oldest record unless its CPU has not submitted it yet
(`Readable`), converts it with the boot time the process has read once, and sends
it to the printer (`PrintEvent`). It holds the record while it does so (`held`): only
when the item is dropped at the end of the loop's body does the ring lose the record
(`Release`), so the printer may be done with it, and the process killed, before that.
Ctrl-C and a kill end the session; rings, switch and CPUs stay as they are for the next
one. A runtime that shuts down stops tasks where they wait, which no reader does with a
record in its hands, so `Exit` follows `Release`; a `Kill` need not. `traced` and `late`
are histories.

*`ConfigFile`.* `stored` is the list in the CFG map, `tries` the prefixes in every
interface's trie. An apply is one step: it merges the file in front of the stored
list (`MergeList`, the loop of `merge` entry by entry), reads the range texts
(`Parse`), masks them octet by octet (`NewCidr`, whose loop body is `NextOctet`), and
succeeds if everything `Populates`. Each loop over a list is a recursive function on
its indices, one value per iteration. Two entries for one interface are allowed, as in the code.

*`Lifecycle`.* Every process runs one command and owns the eBPF object it loads.
`pins`, `links` and `attached` map a pin name, a link path and an interface to
the object found there. Of the pinned maps only `CFG`, `CFG_LEN`, the two rings
and the switch are ever opened again, and only these are modelled, with the
program pin; the rest are pinned in the same way and never read. A pin is
replaced in two steps, as `pin_one_map` does. A process that ends while it holds
a link it has not pinned takes the program off the interface, as a BPF link
does. A configuration is the set of its (interface, protocol) sections, which is
the granularity of `merge`; the length of its JSON text depends on the number
of sections, so that two texts may or may not have the same length. The removal
of the tree with the links, and the creation of the pin directories, are one step.
Interfaces without a section, which `merge` keeps but nothing attaches, are left
out. The rules in the maps are keyed by interface index, looked up by name while the
maps are populated (`apply.rs:133`, `301-313`), and the program is attached by name
later (`apply.rs:719`). `indexed` says for which interfaces an object has rules under
the index they have: `LoadAndPopulate` writes them, and an interface that is unplugged
under a working command is taken out, since it comes back with another index. `slipped`
is the history of those. No command reads either, only packets do, and they are kept of
commands that have not failed.

## 3. Runs

Every run finishes within five minutes on two cores, most within one.

| run | module, cfg | shows |
|---|---|---|
| `filter` | `MCIngressFilter`, `IngressFilter.cfg` | for any configurations: a connection request that passes is to a port of the interface's own list, and the narrowest range of its own section around the source is listed with the port by some interface (`PassedSynIsListed`); the same of UDP (`PassedUdpIsListed`); where outgoing connections are allowed, replies are lost to the flood protection only, and only segments that do not continue what is tracked (`OutgoingRepliesPass`); an interface without a section of the protocol loses packets to the early port check only (`SectionlessDropsOnlyAtThePort`) |
| `filter_implements_firewall` | `Separated.cfg` | for configurations that are `Separated`, the filter implements `Firewall` |
| `tracker_two_cpus` | `AckTracker.cfg` | interleaved CPUs: a peer that sent a SYN is locked out only while the tracker is full, no segment passes without a SYN, no ignored failure for a segment |
| `stop_and_wait` | `MCAckSession`, `StopAndWait.cfg` | two connections with one segment outstanding on two CPUs: late SYNs and stores in another order never close the window on a segment that is missing, and both deliver all |
| `monitor` | `Monitor`, `Monitor.cfg` | two CPUs, two rings, two sessions: no event is lost while the switch is on, a ring nobody reads does not fill, dates stay in order, every step is one of `EventStream` (`ImplementsStream`: shown in order and once in a session; a kill may bring back one event of a kind), and what is stored is shown in the end (`EveryEventIsShown`) |
| `commands_failing` | `MCLifecycle`, `LifecycleStops.cfg` | one command at a time, any of them failing or killed anywhere, interfaces going and coming back under another index: a purge that succeeds leaves nothing, an apply that succeeds is in force, and on the way it takes the filter off one interface at a time; as long as no apply failed, show is truthful and earlier sections are kept; an interface runs a program without rules for it only if it went away while that apply was at work; the pinned switch is on for nobody only if a monitor was killed |
| `commands_racing` | `LifecycleRace.cfg` | three racing commands: every attached program can be found and removed |
| `config_file` | `MCConfigFile`, `ConfigFile.cfg` | any sequence of applies and purges: what is shown is what the tries match, and can be applied again; a range text fails only the file it is in; applying a file again neither changes anything nor fails; the merge keeps order and sections; tries hold canonical prefixes |

`Separated` says when the shared tables cannot make interfaces interfere: each
attached interface has a section for each protocol in use, rules name their port,
no two prefixes of a section overlap, and a prefix two interfaces share has the
same ports on both. Outside of it the filter differs from `Firewall` in the ways
listed below.

### Where the code and its documentation disagree

Each of these runs checks one sentence of the documentation and finds it violated.

| run | the sentence | what happens |
|---|---|---|
| `any_source_port` | `lib/udp.rs:22-23` | a UDP rule without `src_port` passes nothing: the port allow list has no entry for it |
| `own_list` | `examples/tcp.yml:11-12` | another interface's rule lets a connection in, because the port table has no interface in its key |
| `retransmission` | `README.md:53` | a lost segment is behind the tracked number whenever it is sent again, and is dropped |
| `no_section` | `enforce.rs:10-12`, `:24-26` | an interface without a section for a protocol loses packets of it once another interface has one: the port allow list is asked before the interface |

Others were met while modelling. They follow from one reading of the definitions
and have no run:

* `lib/tcp.rs:73` says that empty ranges match any source; a longer prefix of
  another rule shadows them (`LookUp` takes the longest match only).
* `protect.rs:44-47` says that a SYN-ACK is silently skipped where `allow_outgoing` is
  false; `FloodDrops` drops it.
* `protect.rs:29` says that the tracker is populated by the ACK that completes the
  handshake; `FloodTracks` enters the SYN, whether or not the filter drops it next.
* `protect.rs:42-43` says that a SYN is recorded; with a full tracker it passes
  unrecorded (`Insert`). `protect.rs:52` says that the latest number is stored; two
  CPUs may store the older one last (`StoreSeq` of `AckTracker`).
* `lib/tcp.rs:18-19` says that a TCP event is an established connection;
  `DecideTcp` traces an ACK that it drops by default.
* `config.rs:18-20` says that what is only in force is preserved; of two applies at
  once, the later to pin loses the sections of the other, because each has merged
  with what it read before (`apply.rs:115`). `Lifecycle` without `SERIAL` shows it in
  a few steps.
* `config.rs:18` says that the file always wins. A file that names an interface twice,
  first with a UDP section and then with a TCP section, over a stored entry with both
  is merged into its first entry only: the old TCP section stays beside the new one.
  `ConfigFile` has such files; `MergeIsPerSection` is stated for the others.
* `cli/monitor.rs:42-43` says that monitoring stops automatically when the event
  queue is full; what stops are the events (`Disable` of `Monitor`), while the process
  waits for Ctrl-C. A CPU that found the ring of one session full and is slow to
  clear the switch may also switch off the session after it.
* `monitor.rs:50` calls its argument the interface to attach to; nothing is attached
  once the main pin root exists (`StartMonitor` of `Lifecycle`).
* `show.rs:18` speaks of the configuration loaded in the kernel; `show` prints the
  CFG pins, which an apply killed half way has replaced before the programs.

Three more things the code does surprise, though no sentence denies them:

* An apply killed between replacing CFG and CFG_LEN leaves texts of two lengths, and
  every later apply fails to read them until a purge (`ReadBlob`). The comment at
  `apply.rs:112-114` speaks of a directory "with no maps inside", which this is not.
* An interface that goes away and comes back between the lookup of its index and the
  attachment runs the program of an apply that succeeds, and has no rules: connections
  to it are dropped by the port check, the listed ones too, and other segments pass
  (`slipped` of `ShowIsLoaded` and `ApplyTakesEffect`).
* A stored list that names an interface which has disappeared, or has no room for one
  more entry, makes later applies fail although their own file is good (`Populates`).
  `RetryIsAccepted` is about a file that has just been accepted; a file that names an
  interface twice may even then make a longer list, and fail for want of room.

### Bounds

* Filter runs: two interfaces, 2-bit addresses, ports 0 to 2 (0 is the any-port
  entry), sequence numbers modulo 4 with a window of 1, one tracker entry, one
  event per ring. Two bits give prefixes of length 0, 1 and 2 and so the overlaps
  the longest match decides; one entry and one event put tracker and rings at
  their limits at once. The configurations include ones that merge to something
  too large for the maps, so that an apply is rejected.
* Tracker runs: two peers, sequence numbers modulo 6 with a window of 2, one
  entry. A difference may then be in the window, behind it, or beyond it.
* Session runs: `stop_and_wait` has two CPUs and two connections with an entry each,
  four segments modulo 7 with a window of 2, and `LIFETIME` 1, so that the numbers
  wrap within the session, a segment may be stored after its successor, and a late
  copy of the SYN may arrive while the first segment is under way. With `LIFETIME` 2 a
  copy of the SYN can set the number back by the whole window and the property fails: the
  bound is the tightest under which it holds. `retransmission` has one connection
  and one CPU, modulo 8, and two segments outstanding.
* Monitor run (321,425 states): two CPUs, two rings of two records, three events, two sessions. A
  CPU may then be between test and reservation while the other fills the ring, and
  one session's CPU may act in the next. A boot time is one of two values so that
  reading it again would show.
* File run: two interfaces, addresses of two octets of two bits, so that prefixes
  end inside and between octets; every file of up to two entries over five
  sections, an interface possibly twice, and every file of one range text, good
  or malformed. Two prefixes per table and six units of text per blob reject
  some of the merges.
* Command runs: three processes with one command each. Violations of
  the properties need an earlier state, a command that fails or races, and one that
  notices. The sequential run (1,991,795 states) has two interfaces and three
  configurations whose merges keep, replace and add sections; the racing run has one
  interface, where all three meet. Its states are told apart by what guards read
  (`GuardState`, 3,035,371 of them): the indices and the histories, which no guard reads
  and `AttachedIsHeld` does not mention, would multiply them. `SERIAL`, `STOPS` and `UNPLUGS` switch racing, failures and
  disappearing interfaces on. Deadlock is not checked there: when all processes
  have ended, nothing is left to do.

Symmetry is used for CPUs, peers and processes in runs of safety properties only.

### Fairness

`AckSession`: the sender sends what its window allows and its timer
fires while something is outstanding (weak fairness of `Send` and `Retransmit`),
acknowledgements arrive (weak fairness), a segment that is sent again and
again is not lost every time (strong fairness of its `Arrive`), and nothing stays
in the network (weak fairness of any arrival). These are assumptions about TCP and
the network. Of efense only `Store` is assumed: an XDP program runs to its end.

`Monitor`: the program runs to its end on each CPU, and the tokio runtime polls a
reader that has a record and the printer when something is in the channel
(`cli/monitor.rs:201-216`), and the reader goes on to the end of its loop's body
(`Release`). Nothing is assumed of packets, Ctrl-C or new sessions.

## 4. Proofs

All proofs are checked by TLAPS without further assumptions than those the modules
name: capacities, `AddrBits`, `MaxPort` and `SEGMENTS` are natural numbers, the window
is less than the modulus, `NONE` and `UNTRACKED` are no values of other kinds, packets
and configurations are well formed.

`IngressFilterProofs`:

* The inductive invariant `Inv` is `TypeOK` together with `MapsOfConfig`, `maps =
  Compile(cfg)`: the properties of the last verdict speak of the configuration,
  the handler reads the maps, and only this equality connects them.
* `TypeCorrect`, `SynListed`, `UdpListed`, `RepliesPass`, `SectionlessDrops`: the
  invariants of the run `filter`. Each verdict property is established anew by each
  packet: a case split over the ways out, then a lemma on `LookUp` or on an interface
  without rules (`NoRules`); that a dropped reply does not continue what is tracked
  stays true because its drop, and every other step that keeps the verdict, leaves the
  tracker alone. That the longest match exists
  is shown from a well-founded order on lengths (`LargestElement`), since the set
  of prefixes may be infinite for the prover.
* `FirewallImplemented`: `Spec /\ []Separated(cfg) => ImplementsFirewall`. With
  `Separated`, at most one prefix of an interface covers an address
  (`LookUpOfListed`), which makes the table lookup equal to "some rule lists it";
  then every step maps to a `Handle`, a `Configure` or a stutter.

`AckTrackerProofs`: `TypeCorrect`, `LockedOut`, `OpenedOnly`, `StoreSucceeds`, for any
number of CPUs and peers. No insertion takes an entry away, so a source found by a
lookup is still there when its number is stored, a peer whose SYN was recorded stays
recorded, and a tracker that was too full for a SYN stays full (`LockedOutOnlyWhenFull`).

`AckSessionProofs`, for any number of connections, CPUs and segments:

* `TypeCorrect`.
* `MissingPass`: `MissingSegmentsPass` is an invariant under `StopAndWait` (one segment
  outstanding, `LIFETIME < ACK_WINDOW`) and `OwnEntries` (no two connections share a
  key, and there is room for all). The strengthening `SessionInv` says of every
  connection that nothing under way is older than `LIFETIME` segments (`Young`), and
  that the tracked number is that of a segment sent no longer ago than that, or one
  segment more while the last one sent has not arrived (`Followed`). The distance of
  two numbers is then that of their segments, also across the wrap
  (`DeltaOfSegments`).

`MonitorProofs`, for any number of CPUs, rings, records and sessions:

* `TypeCorrect`, which includes that no ring exceeds its capacity.
* `LateBounded` (`AtMostOneLate`) from `LateInv`: nothing has been stored late while the
  switch is on, nor by a CPU that is still at the event it tested the switch for.
* `NothingLost` (`NothingLostWhileOn`): an action that takes an event from one place
  either puts it in the next or finds the ring full, and then the switch goes off.
* `DatesOrdered` (`DatesInOrder`) from `OrderInv`. The order of what is printed needs the
  order along the whole way: output before ring before CPU, each in itself ordered
  (`RingInv`, `OutputInv`), none in the future (`PastInv`), and one boot time behind all
  dates of a session (`BootInv`).
* `StreamImplemented`: `Spec => ImplementsStream`. The queue of a ring is what the channel
  holds of it followed by what no reader has sent on (`PendingOf`, `Unread`), so a reader
  that sends a record changes nothing (`ReadStutters`), nor does the release of it, a
  reservation stores (`ReserveStores`) and the printer shows (`PrintShows`). The end of
  a session empties the channel, which is the front of every queue, and gives a held
  record back to its ring, which is one of a kind (`GoneEnds`). It needs `OrderInv` and
  one fact more: the record a reader holds is the last of its ring that the session has
  sent on or shown (`HeldInv`).

`LifecycleProofs`, for any number of commands, interfaces and configurations:

* `InvCorrect` is the inductive invariant `IInv`. `TypeOK` alone is not inductive: that
  what is pinned has been populated needs that a process in its pinning steps has
  loaded its object (`Populated`), and that the pin it comes to is one of its list
  needs that it belongs to `apply` or `monitor` and how far it is (`Control`).
* `TypeCorrect` and `Held` (`AttachedIsHeld`) follow, racing or not: a program whose
  link is not pinned is in the hands of the process that attached it, nobody else
  moves that process, and every error of that process takes the program down.
* `IndexCorrect` is `IndexOK`, a second invariant: what an object has no rules for, of its
  own configuration, has slipped. `TypeCorrect` takes the types of `indexed` and
  `slipped` from it.
* `PurgeComplete`: `Spec => [](SERIAL => PurgeLeavesNothing)`. `SerialCorrect` is the
  invariant behind it: one command works at a time (`Alone`), and what has gone half way
  through a purge (`HalfPurged`). `StepOf` collects what any step of a command may do, so
  that the case split over the actions is done once.

`LifecycleOutcomeProofs` builds on it:

* `EventsForMonitors` (`EventsOnlyForMonitors`), racing or not. A switch that an apply pins
  in the place of another must be off: `Fresh` says that nobody has pinned or switched
  on a map before its own process comes to pin it (`NotYet`).
* `ApplyComplete` (`ApplyTakesEffect` under `SERIAL`). `Progress` says how far an apply is:
  the pins it has come past are its own, and so are the interfaces it is done with.
  That they have their rules is `IndexOK`.
* `OneByOne` (`OneInterfaceAtATime`): the same invariant at the step that removes an old
  link. Whatever fails after it, the attach included, that interface alone is bare.
* `ShowCorrect` and `KeptCorrect` (`ShowIsLoaded` and `AppliedIsKept` under `SERIAL`) from
  `StoreInv`. Between applies, the stored configuration is that of the attached programs
  and names their interfaces; during one, the merged configuration does, and what is
  not attached anew is still to do (`StoredIsAttached`, `MergedIsAttached`). The same is
  said of the sections of all applies (`StoredHasAll`, `MergedHasAll`). Most steps of
  the other commands cannot disturb this and are treated together (`Tame`).

Assumed there: `Ifaces` is finite, configurations are functions from sections to
versions, `NONE` is neither a command nor a configuration.

`ConfigFileProofs`, for files and lists of any length, any number of interfaces, and
addresses of any number of octets of any width:

* `Invariant` is the inductive invariant `Inv`: what is stored is a list of entries whose
  every range can be parsed, it fits, and the tries are those it compiles to. That an
  apply keeps it is the lemma that `MergeList` takes a list of entries over another.
* `TypeCorrect` (`TypeOK`) says that the tries hold canonical prefixes; `NewCidr`
  masks octet by octet and `Canonical` of `PolicyMaps` divides once. Their equality is
  shown octet by octet, from the behaviour of division by powers of two.
* `RangesMatch` (`ShownRangesMatch`) relates the lookup in the tries to the rules that `show`
  would print, through parsing, masking and collecting.
* `OwnText` (`BadTextIsTheFilesOwn`): the texts of a merged list are those of the file and
  those of the stored list, and by `Inv` the latter can be parsed.
* `Retry` (`RetryIsAccepted`): a second merge of a file that names nothing twice finds
  every entry filled and gives the list it started from; else the meaning is the same
  (`Reapply`), and with it every capacity but the length of the text.
* `PerSection` (`MergeIsPerSection`), `Order` (`MergeKeepsOrder`), `Reapply`
  (`ReapplyChangesNothing`) and `ShownApplies` (`ShownCanBeApplied`) are facts about
  `MergeList`: what `Find` returns, what one more stored entry does to the list merged so far
  (`MergeOne`), and then what the loop has computed after any number of entries.

Assumed there: an address is `OCTETS` octets of `OCTET_BITS` bits, files are lists of
entries, `NONE` is no section, and `NONE` and `MALFORMED` are no numbers.

The library states induction with an operator as a parameter, which no prover here can
instantiate. `LoopTheorems` therefore proves it for sets: a set of indices that holds
the first and with each the next holds all, because a least index outside it would
contradict that. The same gives that a function defined by recursion exists and
equals what its body says (`LoopRecursion`), which a proof may not assume, and so that
a loop of the model computes what its iterations do.

Only model-checked: liveness (`AllDelivered` of `AckSession` and `EveryEventIsShown` of
`Monitor`), because temporal reasoning from fairness needs ENABLED, which the prover does
not handle; and the violations, which are counterexamples of one instance each.

## 5. Not modelled

* The syntax of YAML and JSON, the text of an address beyond what can be wrong with it,
  the byte layout of event records, the text of a date, and log output: conversions
  without control, most with unit tests.
* IP options: the handler reads L4 headers at a fixed offset. A packet with
  options is to the model the packet the handler takes it for.
* The flood protection reads the stored number through a pointer into the map, right
  after the lookup; the model takes the two for one step.
* In `IngressFilter` an apply is atomic and a packet meets one set of maps; this is
  what attaching a fully populated program means for each interface. The time
  between detaching and attaching is in `Lifecycle`.
* The kernel's reuse of an interface index: one that comes back has a new one.
* That aya moves the consumer position of a ring when the item is dropped, and that tokio
  stops tasks only where they wait: the two libraries are not in the tree, and `Release`
  and `Exit` are modelled from how the code uses them.
* What happens to the switch of maps that an apply has replaced under a monitor, whose
  program is replaced too: `EventsOnlyForMonitors` is about the pinned one.
* Two monitors at once, which would share rings and switch: in `Lifecycle` they do, but
  `Monitor` has one reader at a time.
* Two connections that share an entry of the tracker in `AckSession`: the connections
  there have entries of their own, and nothing is promised of those that do not.
* The pins nobody opens again, and with them the third pin root: they are written and
  removed in the same way as those modelled.
* The task that forwards the log of the eBPF program, and the command line.

## 6. Plan

Done: all modules of section 2, with the proofs of section 4. Every safety property a
run checks, invariant, action property or refinement, is also proved.

Left, most important first:

1. That the one-step flood protection of `IngressFilter` and `AckTracker`, which splits the
   lookup from the insertion, agree when CPUs do not overlap, as a refinement.
2. `AckSession` with connections that share an entry, to say what is still promised.
3. Two monitors on one set of rings: which of them prints which event.
