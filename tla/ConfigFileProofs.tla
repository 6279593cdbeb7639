-------------------------- MODULE ConfigFileProofs --------------------------
(***************************************************************************)
(* What ConfigFile guarantees for any files, interfaces, address width,    *)
(* ports and capacities.                                                   *)
(*                                                                         *)
(* The loops of the code are recursive functions in ConfigFile.  Nothing   *)
(* is known of one before it is known to exist: LoopTheorems gives that,   *)
(* and a lemma for each function says what it computes.                    *)
(***************************************************************************)
EXTENDS ConfigFile, TLAPS, LoopTheorems

-----------------------------------------------------------------------------
(* Powers of two *)

(* The powers of two are a function that exists, and unfold...             *)
LEMMA Pow2Unfold ==
  Pow2 = [n \in Nat |-> IF n = 0 THEN 1 ELSE 2 * Pow2[n - 1]]
<1> DEFINE G == [n \in Nat |-> [x \in Nat |-> 2 * x]]
<1>1. PICK f \in [Nat -> Nat] : Follows(f, 1, G)
  <2>1. G \in [Nat -> [Nat -> Nat]]
    OBVIOUS
  <2> HIDE DEF G
  <2> QED BY <2>1, Recursion
<1>2. f[0] = 1 /\ \A n \in Nat : f[n + 1] = 2 * f[n]
  <2>1. \A n \in Nat : G[n + 1][f[n]] = 2 * f[n]
    OBVIOUS
  <2> HIDE DEF G
  <2> QED BY <1>1, <2>1 DEF Follows
<1>3. \A n \in Nat : n # 0 => f[n] = 2 * f[n - 1]
  <2> SUFFICES ASSUME NEW n \in Nat, n # 0 PROVE f[n] = 2 * f[n - 1]
    OBVIOUS
  <2>1. n - 1 \in Nat /\ (n - 1) + 1 = n
    OBVIOUS
  <2> QED BY <2>1, <1>2
<1>4. f = [n \in Nat |-> IF n = 0 THEN 1 ELSE 2 * f[n - 1]]
  BY <1>2, <1>3
<1> QED BY <1>4 DEF Pow2

(* ... from one number to the next...                                      *)
LEMMA Pow2Step ==
  /\ Pow2[0] = 1
  /\ \A n \in Nat : Pow2[n + 1] = 2 * Pow2[n]
BY Pow2Unfold

(* ... all of them positive...                                             *)
LEMMA Pow2Type == \A n \in Nat : Pow2[n] \in Nat \ {0}
<1> DEFINE T == {n \in Nat : Pow2[n] \in Nat \ {0}}
<1>1. 0 \in T /\ \A n \in Nat : n \in T => n + 1 \in T
  BY Pow2Step
<1> HIDE DEF T
<1>2. Nat \subseteq T
  BY <1>1, SetInduction
<1> QED BY <1>2 DEF T

(* ... and of a sum, the product.                                          *)
LEMMA Pow2Sum == \A m, n \in Nat : Pow2[m + n] = Pow2[m] * Pow2[n]
<1> SUFFICES ASSUME NEW m \in Nat
             PROVE  \A n \in Nat : Pow2[m + n] = Pow2[m] * Pow2[n]
  OBVIOUS
<1> DEFINE T == {n \in Nat : Pow2[m + n] = Pow2[m] * Pow2[n]}
<1>1. 0 \in T
  BY Pow2Step, Pow2Type
<1>2. ASSUME NEW n \in Nat, n \in T PROVE n + 1 \in T
  <2>1. Pow2[(m + n) + 1] = 2 * Pow2[m + n] /\ Pow2[n + 1] = 2 * Pow2[n]
    BY Pow2Step
  <2>2. m + (n + 1) = (m + n) + 1
    OBVIOUS
  <2>3. Pow2[m + n] = Pow2[m] * Pow2[n]
    BY <1>2
  <2>4. Pow2[m] \in Nat /\ Pow2[n] \in Nat
    BY Pow2Type
  <2>5. 2 * (Pow2[m] * Pow2[n]) = Pow2[m] * (2 * Pow2[n])
    BY <2>4
  <2> QED BY <2>1, <2>2, <2>3, <2>5
<1> HIDE DEF T
<1>3. Nat \subseteq T
  BY <1>1, <1>2, SetInduction
<1> QED BY <1>3 DEF T

-----------------------------------------------------------------------------
(* Entries and lists of them *)

(* What a file and the stored list are made of.                            *)
Entries == {e \in ListEntry : e.udp # NONE => Read(e.udp) # NONE}
Lists   == Seq(Entries)

(* What the user writes is a list of entries.                              *)
LEMMA FilesAreLists == Files \subseteq Lists
<1> SUFFICES ASSUME NEW file \in Files PROVE file \in Lists
  OBVIOUS
<1>1. file \in Seq(ListEntry)
  BY FilesAssumption
<1>2. \A k \in 1 .. Len(file) : file[k] \in Entries
  BY <1>1, NoneAssumption DEF Entries
<1> QED BY <1>1, <1>2 DEF Lists

(* The first entry with a name.                                            *)
LEMMA FindFirst ==
  ASSUME NEW cfg \in Lists, NEW name
  PROVE  /\ Find(cfg, name) \in 0 .. Len(cfg)
         /\ Find(cfg, name) = 0 => \A j \in 1 .. Len(cfg) : cfg[j].name # name
         /\ Find(cfg, name) # 0 =>
              /\ cfg[Find(cfg, name)].name = name
              /\ \A j \in 1 .. Len(cfg) :
                   cfg[j].name = name => Find(cfg, name) <= j
<1> DEFINE I == {j \in 1 .. Len(cfg) : cfg[j].name = name}
<1>0. Len(cfg) \in Nat
  BY DEF Lists
<1>1. Find(cfg, name) = IF I # {} THEN Min(I) ELSE 0
  BY DEF Find, SelectInSeq
<1>2. CASE I = {}
  BY <1>0, <1>1, <1>2
<1>3. CASE I # {}
  <2>1. PICK x \in I : \A y \in I : x <= y
    <3>1. I \in SUBSET Nat
      OBVIOUS
    <3> HIDE DEF I
    <3> QED BY <1>3, <3>1, SmallestElement
  <2>2. Min(I) \in I /\ \A y \in I : Min(I) <= y
    BY <2>1 DEF Min
  <2> HIDE DEF I
  <2>3. Find(cfg, name) \in I /\ \A y \in I : Find(cfg, name) <= y
    BY <1>1, <1>3, <2>2
  <2> QED BY <1>0, <2>3 DEF I
<1> QED BY <1>2, <1>3

(* Interface::merge makes an entry of two...                               *)
LEMMA MergeEntryType ==
  ASSUME NEW e \in Entries, NEW o \in Entries
  PROVE  MergeEntry(e, o) \in Entries
BY DEF MergeEntry, Entries, ListEntry

(* What one turn of the merge does to the list.                            *)
LEMMA MergeOneEffect ==
  ASSUME NEW cfg \in Lists, NEW o \in Entries
  PROVE  LET m == MergeOne(cfg, o)
             k == Find(cfg, o.name)
         IN  /\ m \in Lists
             /\ k = 0 => Len(m) = Len(cfg) + 1 /\ m[Len(cfg) + 1] = o
             /\ k # 0 => Len(m) = Len(cfg) /\ m[k] = MergeEntry(cfg[k], o)
             /\ \A j \in 1 .. Len(cfg) : j # k => m[j] = cfg[j]
<1> DEFINE m == MergeOne(cfg, o)
           k == Find(cfg, o.name)
<1>1. k \in 0 .. Len(cfg)
  BY FindFirst
<1>2. CASE k = 0
  <2>1. m = Append(cfg, o)
    BY <1>2 DEF MergeOne
  <2> QED BY <1>2, <2>1 DEF Lists
<1>3. CASE k # 0
  <2>1. m = [cfg EXCEPT ![k] = MergeEntry(cfg[k], o)]
    BY <1>3 DEF MergeOne
  <2>2. MergeEntry(cfg[k], o) \in Entries
    BY <1>1, <1>3, MergeEntryType DEF Lists
  <2> QED BY <1>1, <1>3, <2>1, <2>2 DEF Lists
<1> QED BY <1>2, <1>3

(* The merge is a loop over the list in force.                             *)
LEMMA MergeLoop ==
  ASSUME NEW new \in Lists, NEW old \in Lists
  PROVE  \E m \in [0 .. Len(old) -> Lists] :
           /\ m[0] = new
           /\ \A k \in 1 .. Len(old) : m[k] = MergeOne(m[k - 1], old[k])
           /\ MergeList(new, old) = m[Len(old)]
<1> DEFINE n == Len(old)
           G == [k \in 1 .. n |-> [c \in Lists |-> MergeOne(c, old[k])]]
<1>1. n \in Nat /\ \A k \in 1 .. n : old[k] \in Entries
  BY DEF Lists
<1>2. PICK f \in [0 .. n -> Lists] : Loops(f, new, n, G)
  <2>1. G \in [1 .. n -> [Lists -> Lists]]
    BY <1>1, MergeOneEffect
  <2> HIDE DEF G
  <2> QED BY <1>1, <2>1, LoopRecursion
<1>3. f = [k \in 0 .. n |-> IF k = 0 THEN new ELSE MergeOne(f[k - 1], old[k])]
  <2>1. ASSUME NEW k \in 1 .. n PROVE G[k][f[k - 1]] = MergeOne(f[k - 1], old[k])
    <3>1. f[k - 1] \in Lists
      BY <1>1
    <3> QED BY <3>1
  <2>2. f = [k \in 0 .. n |-> IF k = 0 THEN new ELSE G[k][f[k - 1]]]
    <3> HIDE DEF G
    <3> QED BY <1>2 DEF Loops
  <2>3. \A k \in 0 .. n : k # 0 => k \in 1 .. n
    BY <1>1
  <2> HIDE DEF G
  <2> QED BY <2>1, <2>2, <2>3
<1> DEFINE g == CHOOSE h : h =
                  [k \in 0 .. n |-> IF k = 0 THEN new ELSE MergeOne(h[k - 1], old[k])]
<1>4. g = [k \in 0 .. n |-> IF k = 0 THEN new ELSE MergeOne(g[k - 1], old[k])]
  BY <1>3
<1>5. MergeList(new, old) = g[n]
  BY DEF MergeList
<1> HIDE DEF g, G
<1>6. g[0] = new /\ \A k \in 1 .. n : g[k] = MergeOne(g[k - 1], old[k])
  BY <1>1, <1>4
<1>7. \A k \in 0 .. n : g[k] \in Lists
  <2> DEFINE T == {k \in 0 .. n : g[k] \in Lists}
  <2>1. 0 \in T
    BY <1>1, <1>6
  <2>2. ASSUME NEW k \in 0 .. n - 1, k \in T PROVE k + 1 \in T
    <3>1. k + 1 \in 1 .. n /\ (k + 1) - 1 = k
      BY <1>1
    <3>2. g[k + 1] = MergeOne(g[k], old[k + 1])
      BY <1>6, <3>1
    <3>3. MergeOne(g[k], old[k + 1]) \in Lists
      BY <1>1, <2>2, <3>1, MergeOneEffect
    <3> QED BY <3>1, <3>2, <3>3
  <2> HIDE DEF T
  <2>3. 0 .. n \subseteq T
    BY <1>1, <2>1, <2>2, LoopInduction
  <2> QED BY <2>3 DEF T
<1>8. g \in [0 .. n -> Lists]
  BY <1>4, <1>7
<1> QED BY <1>5, <1>6, <1>8

-----------------------------------------------------------------------------
(* The shape of a merged list *)

(* Entry e has every section of f as it is in f.                           *)
Extends(e, f) ==
  /\ e.name = f.name
  /\ f.udp # NONE => e.udp = f.udp
  /\ f.tcp # NONE => e.tcp = f.tcp

(* Entry k repeats the name of an earlier one.                             *)
Earlier(cfg, k) == \E j \in 1 .. k - 1 : cfg[j].name = cfg[k].name

(* The entries of the file come first; only the first of a name may have   *)
(* changed, by sections it lacked.  Those behind have names of their own.  *)
Heads(m, new) ==
  /\ Len(m) >= Len(new)
  /\ \A k \in 1 .. Len(new) : Extends(m[k], new[k])
  /\ \A k \in 1 .. Len(new) : Earlier(new, k) => m[k] = new[k]
  /\ \A k \in Len(new) + 1 .. Len(m) : ~Earlier(m, k)

(* The entries behind them are those of the first q in force, in order.    *)
Tails(m, new, old, q) ==
  /\ \A k \in Len(new) + 1 .. Len(m) : Find(old, m[k].name) \in 1 .. q
  /\ \A j, k \in Len(new) + 1 .. Len(m) :
       j < k => Find(old, m[j].name) < Find(old, m[k].name)
  /\ \A p \in 1 .. q : \E j \in 1 .. Len(m) : m[j].name = old[p].name

(* ... that keeps what the newer one has.                                  *)
LEMMA MergeEntryExtends ==
  ASSUME NEW e \in Entries, NEW o \in Entries
  PROVE  MergeEntry(e, o) \in Entries /\ Extends(MergeEntry(e, o), e)
BY MergeEntryType DEF MergeEntry, Entries, ListEntry, Extends

(* A turn of the merge keeps the entries of the file in front...           *)
LEMMA HeadsStep ==
  ASSUME NEW new \in Lists, NEW m \in Lists, NEW o \in Entries, Heads(m, new)
  PROVE  Heads(MergeOne(m, o), new)
<1> DEFINE next == MergeOne(m, o)
           k == Find(m, o.name)
<1>1. /\ next \in Lists
      /\ k = 0 => Len(next) = Len(m) + 1 /\ next[Len(m) + 1] = o
      /\ k # 0 => Len(next) = Len(m) /\ next[k] = MergeEntry(m[k], o)
      /\ \A j \in 1 .. Len(m) : j # k => next[j] = m[j]
  BY MergeOneEffect
<1>2. /\ k \in 0 .. Len(m)
      /\ k = 0 => \A j \in 1 .. Len(m) : m[j].name # o.name
      /\ k # 0 => /\ m[k].name = o.name
                  /\ \A j \in 1 .. Len(m) : m[j].name = o.name => k <= j
  BY FindFirst
<1>3. /\ Len(m) \in Nat /\ Len(new) \in Nat
      /\ \A j \in 1 .. Len(m) : m[j] \in Entries
  BY DEF Lists
<1> HIDE DEF next, k
<1>4. k # 0 => Extends(next[k], m[k])
  BY <1>1, <1>2, <1>3, MergeEntryExtends
<1>5. \A j \in 1 .. Len(m) : next[j].name = m[j].name
  BY <1>1, <1>4 DEF Extends
<1>6. Len(next) >= Len(new)
  BY <1>1, <1>2, <1>3 DEF Heads
<1>7. ASSUME NEW j \in 1 .. Len(new) PROVE Extends(next[j], new[j])
  BY <1>1, <1>3, <1>4 DEF Heads, Extends
<1>8. ASSUME NEW j \in 1 .. Len(new), Earlier(new, j) PROVE next[j] = new[j]
  <2>1. PICK h \in 1 .. j - 1 : new[h].name = new[j].name
    BY <1>8 DEF Earlier
  <2>2. h \in 1 .. Len(m) /\ j \in 1 .. Len(m) /\ h < j
    BY <1>3 DEF Heads
  <2>3. m[h].name = m[j].name
    BY <1>3, <2>1 DEF Heads, Extends
  <2>4. j # k
    BY <1>2, <2>2, <2>3
  <2> QED BY <1>1, <1>8, <2>2, <2>4 DEF Heads
<1>9. ASSUME NEW j \in Len(new) + 1 .. Len(next) PROVE ~Earlier(next, j)
  <2>1. CASE j \in 1 .. Len(m)
    <3>1. ~Earlier(m, j)
      BY <1>3, <2>1 DEF Heads
    <3> QED BY <1>3, <1>5, <2>1, <3>1 DEF Earlier
  <2>2. CASE j \notin 1 .. Len(m)
    <3>1. k = 0 /\ j = Len(m) + 1
      BY <1>1, <1>2, <1>3, <2>2
    <3> QED BY <1>1, <1>2, <1>3, <1>5, <3>1 DEF Earlier
  <2> QED BY <2>1, <2>2
<1> QED BY <1>6, <1>7, <1>8, <1>9 DEF Heads, next

(* ... and those only in force in their order behind them.                 *)
LEMMA TailsStep ==
  ASSUME NEW new \in Lists, NEW old \in Lists, NEW q \in 1 .. Len(old),
         NEW m \in Lists, Heads(m, new), Tails(m, new, old, q - 1)
  PROVE  Tails(MergeOne(m, old[q]), new, old, q)
<1> DEFINE o == old[q]
           next == MergeOne(m, o)
           k == Find(m, o.name)
<1>0. o \in Entries
  BY DEF Lists
<1>1. /\ next \in Lists
      /\ k = 0 => Len(next) = Len(m) + 1 /\ next[Len(m) + 1] = o
      /\ k # 0 => Len(next) = Len(m) /\ next[k] = MergeEntry(m[k], o)
      /\ \A j \in 1 .. Len(m) : j # k => next[j] = m[j]
  BY <1>0, MergeOneEffect
<1>2. /\ k \in 0 .. Len(m)
      /\ k = 0 => \A j \in 1 .. Len(m) : m[j].name # o.name
      /\ k # 0 => m[k].name = o.name
  BY FindFirst
<1>3. /\ Len(m) \in Nat /\ Len(new) \in Nat /\ Len(old) \in Nat
      /\ Len(m) >= Len(new)
      /\ \A j \in 1 .. Len(m) : m[j] \in Entries
  BY DEF Lists, Heads
<1> HIDE DEF next, k
<1>4. k # 0 => Extends(next[k], m[k])
  BY <1>0, <1>1, <1>2, <1>3, MergeEntryExtends
<1>5. \A j \in 1 .. Len(m) : next[j].name = m[j].name
  BY <1>1, <1>4, SMTT(60) DEF Extends
<1>6. k = 0 => Find(old, o.name) = q
  <2> SUFFICES ASSUME k = 0 PROVE Find(old, o.name) = q
    OBVIOUS
  <2>1. /\ Find(old, o.name) \in 1 .. q
        /\ old[Find(old, o.name)].name = o.name
    BY FindFirst
  <2>2. \A p \in 1 .. q - 1 : old[p].name # o.name
    BY <1>2 DEF Tails
  <2> HIDE DEF o
  <2> QED BY <2>1, <2>2
<1>7. ASSUME NEW j \in Len(new) + 1 .. Len(next)
      PROVE  /\ Find(old, next[j].name) \in 1 .. q
             /\ j <= Len(m) => Find(old, next[j].name) = Find(old, m[j].name)
             /\ j <= Len(m) => Find(old, m[j].name) \in 1 .. q - 1
             /\ j > Len(m) => Find(old, next[j].name) = q /\ j = Len(m) + 1
  <2>1. CASE j \in Len(new) + 1 .. Len(m)
    <3>1. Find(old, m[j].name) \in 1 .. q - 1
      BY <2>1 DEF Tails
    <3> QED BY <1>3, <1>5, <2>1, <3>1
  <2>2. CASE j \notin Len(new) + 1 .. Len(m)
    <3>1. k = 0 /\ j = Len(m) + 1
      BY <1>1, <1>2, <1>3, <2>2
    <3> QED BY <1>1, <1>3, <1>6, <3>1
  <2> QED BY <2>1, <2>2
<1>8. ASSUME NEW h \in Len(new) + 1 .. Len(next),
             NEW j \in Len(new) + 1 .. Len(next), h < j
      PROVE  Find(old, next[h].name) < Find(old, next[j].name)
  <2>1. CASE j <= Len(m)
    <3>1. h \in Len(new) + 1 .. Len(m) /\ j \in Len(new) + 1 .. Len(m)
      BY <1>3, <1>8, <2>1
    <3>2. Find(old, m[h].name) < Find(old, m[j].name)
      BY <1>8, <3>1 DEF Tails
    <3> QED BY <1>3, <1>7, <3>1, <3>2
  <2>2. CASE j > Len(m)
    <3>1. Find(old, next[j].name) = q /\ h <= Len(m)
      BY <1>3, <1>7, <1>8, <2>2
    <3>2. Find(old, next[h].name) \in 1 .. q - 1
      BY <1>7, <3>1
    <3> QED BY <3>1, <3>2
  <2> QED BY <1>3, <2>1, <2>2
<1>9. ASSUME NEW p \in 1 .. q
      PROVE  \E j \in 1 .. Len(next) : next[j].name = old[p].name
  <2>1. Len(next) >= Len(m)
    BY <1>1, <1>2, <1>3
  <2>2. CASE p = q
    <3>1. CASE k = 0
      BY <1>1, <1>3, <2>2, <3>1
    <3>2. CASE k # 0
      BY <1>1, <1>2, <1>3, <1>5, <2>2, <3>2
    <3> QED BY <3>1, <3>2
  <2>3. CASE p # q
    <3>1. PICK j \in 1 .. Len(m) : m[j].name = old[p].name
      BY <2>3 DEF Tails
    <3> QED BY <1>1, <1>3, <1>5, <2>1, <3>1
  <2> QED BY <2>2, <2>3
<1>10. \A j \in Len(new) + 1 .. Len(next) : Find(old, next[j].name) \in 1 .. q
  BY <1>7
<1> HIDE DEF o
<1> QED BY <1>8, <1>9, <1>10 DEF Tails, next, o

(* So the merged list is a list of that shape.                             *)
LEMMA MergeShape ==
  ASSUME NEW new \in Lists, NEW old \in Lists
  PROVE  /\ MergeList(new, old) \in Lists
         /\ Heads(MergeList(new, old), new)
         /\ Tails(MergeList(new, old), new, old, Len(old))
<1>1. PICK m \in [0 .. Len(old) -> Lists] :
        /\ m[0] = new
        /\ \A k \in 1 .. Len(old) : m[k] = MergeOne(m[k - 1], old[k])
        /\ MergeList(new, old) = m[Len(old)]
  BY MergeLoop
<1>2. /\ Len(old) \in Nat /\ Len(new) \in Nat
      /\ \A k \in 1 .. Len(old) : old[k] \in Entries
  BY DEF Lists
<1> DEFINE T == {k \in 0 .. Len(old) :
                   Heads(m[k], new) /\ Tails(m[k], new, old, k)}
<1>3. 0 \in T
  BY <1>1, <1>2 DEF Heads, Tails, Extends
<1>4. ASSUME NEW k \in 0 .. Len(old) - 1, k \in T PROVE k + 1 \in T
  <2>1. k + 1 \in 1 .. Len(old) /\ (k + 1) - 1 = k /\ m[k] \in Lists
    BY <1>2
  <2>2. m[k + 1] = MergeOne(m[k], old[k + 1])
    BY <1>1, <2>1
  <2>3. Heads(m[k + 1], new)
    BY <1>2, <1>4, <2>1, <2>2, HeadsStep
  <2>4. Tails(m[k], new, old, (k + 1) - 1)
    BY <1>4, <2>1
  <2>5. Tails(m[k + 1], new, old, k + 1)
    BY <1>4, <2>1, <2>2, <2>4, TailsStep
  <2> QED BY <2>1, <2>3, <2>5
<1> HIDE DEF T
<1>5. 0 .. Len(old) \subseteq T
  BY <1>2, <1>3, <1>4, LoopInduction
<1> QED BY <1>1, <1>2, <1>5 DEF T

(* As MergeKeepsOrder says it.                                             *)
LEMMA MergeOrdered ==
  ASSUME NEW new \in Lists, NEW old \in Lists
  PROVE  LET merged == MergeList(new, old)
             rest   == (Len(new) + 1) .. Len(merged)
             place(k) == Find(old, merged[k].name)
         IN  /\ Len(merged) >= Len(new)
             /\ \A k \in DOMAIN new : merged[k].name = new[k].name
             /\ \A k \in rest : place(k) # 0 /\ Find(merged, merged[k].name) = k
             /\ \A j, k \in rest : j < k => place(j) < place(k)
             /\ \A k \in DOMAIN old : Find(merged, old[k].name) # 0
<1> DEFINE m == MergeList(new, old)
<1>1. m \in Lists /\ Heads(m, new) /\ Tails(m, new, old, Len(old))
  BY MergeShape
<1>2. /\ Len(m) \in Nat /\ Len(new) \in Nat /\ Len(old) \in Nat
      /\ DOMAIN new = 1 .. Len(new) /\ DOMAIN old = 1 .. Len(old)
  BY <1>1 DEF Lists
<1> HIDE DEF m
<1>3. ASSUME NEW k \in (Len(new) + 1) .. Len(m)
      PROVE  Find(old, m[k].name) # 0 /\ Find(m, m[k].name) = k
  <2>1. Find(old, m[k].name) \in 1 .. Len(old)
    BY <1>1, <1>2 DEF Tails
  <2>2. k \in 1 .. Len(m)
    BY <1>2
  <2> DEFINE f == Find(m, m[k].name)
  <2>3. f \in 1 .. k /\ m[f].name = m[k].name
    BY <1>1, <2>2, FindFirst
  <2>4. \A j \in 1 .. k - 1 : m[j].name # m[k].name
    BY <1>1 DEF Heads, Earlier
  <2> HIDE DEF f
  <2>5. f = k
    BY <2>2, <2>3, <2>4
  <2> QED BY <2>1, <2>5 DEF f
<1>4. ASSUME NEW k \in 1 .. Len(old) PROVE Find(m, old[k].name) # 0
  BY <1>1, FindFirst DEF Tails
<1>5. \A k \in 1 .. Len(new) : m[k].name = new[k].name
  BY <1>1 DEF Heads, Extends
<1> QED BY <1>1, <1>2, <1>3, <1>4, <1>5 DEF Heads, Tails, m

-----------------------------------------------------------------------------
(* Merging a list with one that extends it *)

(* Entry k of m has the sections of entry k of c, or one it lacks there    *)
(* from a later entry of the same interface.                               *)
UdpFilled(m, c, k) ==
  \/ m[k].udp = c[k].udp
  \/ /\ c[k].udp = NONE
     /\ \E j \in k + 1 .. Len(c) : /\ c[j].name = c[k].name
                                  /\ c[j].udp # NONE /\ m[k].udp = c[j].udp
TcpFilled(m, c, k) ==
  \/ m[k].tcp = c[k].tcp
  \/ /\ c[k].tcp = NONE
     /\ \E j \in k + 1 .. Len(c) : /\ c[j].name = c[k].name
                                  /\ c[j].tcp # NONE /\ m[k].tcp = c[j].tcp

(* Every entry of m is so.                                                 *)
Filled(m, c) ==
  /\ Len(m) = Len(c)
  /\ \A k \in 1 .. Len(c) :
       m[k].name = c[k].name /\ UdpFilled(m, c, k) /\ TcpFilled(m, c, k)

(* That changes nothing of what the list means.                            *)
LEMMA FilledMeansSame ==
  ASSUME NEW m \in Lists, NEW c \in Lists, Filled(m, c)
  PROVE  Meaning(m) = Meaning(c)
<1>0. /\ Len(c) \in Nat /\ DOMAIN m = 1 .. Len(c) /\ DOMAIN c = 1 .. Len(c)
  BY DEF Lists, Filled
<1>1. ASSUME NEW i \in Ifaces PROVE UdpOf(m, i) = UdpOf(c, i)
  <2>1. \A k \in WithUdpOf(c, i) : k \in WithUdpOf(m, i) /\ m[k].udp = c[k].udp
    BY <1>0 DEF WithUdpOf, Filled, UdpFilled
  <2>2. \A k \in WithUdpOf(m, i) : \E j \in WithUdpOf(c, i) : m[k].udp = c[j].udp
    BY <1>0 DEF WithUdpOf, Filled, UdpFilled
  <2>3. UdpRulesOf(m, i) = UdpRulesOf(c, i)
    BY <2>1, <2>2 DEF UdpRulesOf
  <2> QED BY <2>1, <2>2, <2>3 DEF UdpOf
<1>2. ASSUME NEW i \in Ifaces PROVE TcpOf(m, i) = TcpOf(c, i)
  <2>1. \A k \in WithTcpOf(c, i) : k \in WithTcpOf(m, i) /\ m[k].tcp = c[k].tcp
    BY <1>0 DEF WithTcpOf, Filled, TcpFilled
  <2>2. \A k \in WithTcpOf(m, i) :
          \E j \in WithTcpOf(c, i) : k <= j /\ m[k].tcp = c[j].tcp
    BY <1>0 DEF WithTcpOf, Filled, TcpFilled
  <2>3. TcpRulesOf(m, i) = TcpRulesOf(c, i)
    BY <2>1, <2>2 DEF TcpRulesOf
  <2>4. CASE WithTcpOf(c, i) = {}
    BY <2>2, <2>4 DEF TcpOf
  <2>5. CASE WithTcpOf(c, i) # {}
    <3>1. WithTcpOf(c, i) \in SUBSET (0 .. Len(c))
      BY <1>0 DEF WithTcpOf
    <3>2. PICK x \in WithTcpOf(c, i) : \A y \in WithTcpOf(c, i) : y <= x
      BY <1>0, <2>5, <3>1, LargestElement
    <3>3. \A y \in WithTcpOf(m, i) : y \in Int /\ y <= x
      BY <1>0, <2>2, <3>1, <3>2 DEF WithTcpOf
    <3>4. Max(WithTcpOf(c, i)) = x
      BY <3>1, <3>2 DEF Max
    <3>5. Max(WithTcpOf(m, i)) = x
      BY <2>1, <3>1, <3>2, <3>3 DEF Max
    <3>6. (\E k \in WithTcpOf(m, i) : m[k].tcp.tcp_ack_flood)
            <=> \E k \in WithTcpOf(c, i) : c[k].tcp.tcp_ack_flood
      BY <2>1, <2>2
    <3>7. m[x].tcp = c[x].tcp /\ WithTcpOf(m, i) # {}
      BY <2>1, <3>2
    <3> QED BY <2>3, <2>5, <3>2, <3>4, <3>5, <3>6, <3>7 DEF TcpOf
  <2> QED BY <2>4, <2>5
<1> QED BY <1>1, <1>2 DEF Meaning

(* The merge of f with c after q entries of c, when c has f as its head.   *)
Redone(m, f, c, q) ==
  /\ Len(m) = IF q <= Len(f) THEN Len(f) ELSE q
  /\ \A k \in 1 .. Len(m) : m[k].name = c[k].name
  /\ \A k \in 1 .. Len(f) : k <= q => UdpFilled(m, c, k) /\ TcpFilled(m, c, k)
  /\ \A k \in 1 .. Len(f) : q < k => m[k] = f[k]
  /\ \A k \in Len(f) + 1 .. Len(m) : m[k] = c[k]

(* A turn of the second merge keeps that.                                  *)
LEMMA RedoneStep ==
  ASSUME NEW f \in Lists, NEW c \in Lists, Heads(c, f), NEW q \in 1 .. Len(c),
         NEW m \in Lists, Redone(m, f, c, q - 1)
  PROVE  Redone(MergeOne(m, c[q]), f, c, q)
<1> DEFINE o == c[q]
           next == MergeOne(m, o)
           k == Find(m, o.name)
<1>0. /\ Len(m) \in Nat /\ Len(f) \in Nat /\ Len(c) \in Nat
      /\ Len(m) >= Len(f) /\ Len(m) >= q - 1 /\ Len(c) >= Len(f)
      /\ Len(m) <= Len(c)
      /\ \A j \in 1 .. Len(m) : m[j] \in Entries
      /\ \A j \in 1 .. Len(c) : c[j] \in Entries
      /\ \A j \in 1 .. Len(f) : f[j] \in Entries
  BY DEF Lists, Redone, Heads
<1>1. /\ k = 0 => Len(next) = Len(m) + 1 /\ next[Len(m) + 1] = o
      /\ k # 0 => Len(next) = Len(m) /\ next[k] = MergeEntry(m[k], o)
      /\ \A j \in 1 .. Len(m) : j # k => next[j] = m[j]
  BY <1>0, MergeOneEffect
<1>2. /\ k \in 0 .. Len(m)
      /\ k = 0 => \A j \in 1 .. Len(m) : m[j].name # o.name
      /\ k # 0 => /\ m[k].name = o.name
                  /\ \A j \in 1 .. Len(m) : m[j].name = o.name => k <= j
  BY FindFirst
<1> HIDE DEF next, k
<1>3. CASE q > Len(f)
  <2>1. Len(m) = q - 1
    BY <1>0, <1>3 DEF Redone
  <2>2. \A j \in 1 .. q - 1 : c[j].name # o.name
    BY <1>0, <1>3 DEF Heads, Earlier
  <2>3. k = 0
    BY <1>0, <1>2, <2>1, <2>2 DEF Redone
  <2>4. /\ Len(next) = q /\ next[q] = c[q]
        /\ \A j \in 1 .. q - 1 : next[j] = m[j]
    BY <1>0, <1>1, <2>1, <2>3
  <2> QED BY <1>0, <1>3, <2>1, <2>4, SMTT(60) DEF Redone, UdpFilled, TcpFilled, next
<1>4. CASE q <= Len(f)
  <2>1. Len(m) = Len(f)
    BY <1>0, <1>4 DEF Redone
  <2>2. k \in 1 .. q
    BY <1>0, <1>2, <1>4, <2>1 DEF Redone
  <2>3. /\ next[k] = MergeEntry(m[k], o) /\ Len(next) = Len(f)
        /\ \A j \in 1 .. Len(f) : j # k => next[j] = m[j]
    BY <1>1, <2>1, <2>2
  <2>4. Extends(c[q], f[q]) /\ (Earlier(f, q) => c[q] = f[q]) /\ m[q] = f[q]
    BY <1>0, <1>4 DEF Heads, Redone
  <2>5. m[k] \in Entries /\ c[q] \in Entries
    BY <1>0, <1>4, <2>1, <2>2
  <2>6. /\ next[k].name = m[k].name
        /\ next[k].udp = IF m[k].udp = NONE THEN c[q].udp ELSE m[k].udp
        /\ next[k].tcp = IF m[k].tcp = NONE THEN c[q].tcp ELSE m[k].tcp
    BY <2>3, <2>5 DEF MergeEntry, Entries, ListEntry
  <2>7. CASE k = q
    <3>1. next[q].udp = c[q].udp /\ next[q].tcp = c[q].tcp
      BY <2>4, <2>6, <2>7 DEF Extends
    <3>2. \A j \in 1 .. Len(f) : j <= q - 1 =>
            UdpFilled(next, c, j) /\ TcpFilled(next, c, j)
      BY <1>0, <2>3, <2>7 DEF Redone, UdpFilled, TcpFilled
    <3>3. UdpFilled(next, c, q) /\ TcpFilled(next, c, q)
      BY <3>1 DEF UdpFilled, TcpFilled
    <3> QED
      BY <1>0, <1>4, <2>1, <2>3, <2>6, <2>7, <3>2, <3>3 DEF Redone, next
  <2>8. CASE k # q
    <3>1. k \in 1 .. q - 1 /\ c[k].name = c[q].name
      BY <1>0, <1>2, <2>1, <2>2, <2>8 DEF Redone
    <3>2. UdpFilled(m, c, k) /\ TcpFilled(m, c, k)
      BY <1>0, <1>4, <3>1 DEF Redone
    <3>3. Earlier(f, q)
      BY <1>0, <1>4, <3>1 DEF Earlier, Heads, Extends
    <3>4. next[q].udp = c[q].udp /\ next[q].tcp = c[q].tcp
      BY <1>0, <1>4, <2>3, <2>4, <2>8, <3>3
    <3>5. UdpFilled(next, c, k)
      BY <1>0, <2>6, <3>1, <3>2 DEF UdpFilled
    <3>6. TcpFilled(next, c, k)
      BY <1>0, <2>6, <3>1, <3>2 DEF TcpFilled
    <3>7. UdpFilled(next, c, q) /\ TcpFilled(next, c, q)
      BY <3>4 DEF UdpFilled, TcpFilled
    <3>8. \A j \in 1 .. Len(f) : j <= q - 1 /\ j # k =>
            UdpFilled(next, c, j) /\ TcpFilled(next, c, j)
      BY <1>0, <2>3 DEF Redone, UdpFilled, TcpFilled
    <3>9. \A j \in 1 .. Len(f) : j <= q =>
            UdpFilled(next, c, j) /\ TcpFilled(next, c, j)
      BY <1>0, <1>4, <3>5, <3>6, <3>7, <3>8
    <3> QED
      BY <1>0, <1>4, <2>1, <2>3, <2>6, <3>1, <3>9 DEF Redone, next
  <2> QED BY <2>7, <2>8
<1> QED BY <1>0, <1>3, <1>4

(* A file merged into a list that begins with it fills some entries...     *)
LEMMA RemergeFills ==
  ASSUME NEW f \in Lists, NEW c \in Lists, Heads(c, f)
  PROVE  MergeList(f, c) \in Lists /\ Filled(MergeList(f, c), c)
<1>1. PICK m \in [0 .. Len(c) -> Lists] :
        /\ m[0] = f
        /\ \A k \in 1 .. Len(c) : m[k] = MergeOne(m[k - 1], c[k])
        /\ MergeList(f, c) = m[Len(c)]
  BY MergeLoop
<1>2. Len(c) \in Nat /\ Len(f) \in Nat /\ Len(c) >= Len(f)
  BY DEF Lists, Heads
<1> DEFINE T == {k \in 0 .. Len(c) : Redone(m[k], f, c, k)}
<1>3. 0 \in T
  BY <1>1, <1>2 DEF Redone, Heads, Extends
<1>4. ASSUME NEW k \in 0 .. Len(c) - 1, k \in T PROVE k + 1 \in T
  <2>1. k + 1 \in 1 .. Len(c) /\ (k + 1) - 1 = k /\ m[k] \in Lists
    BY <1>2
  <2>2. m[k + 1] = MergeOne(m[k], c[k + 1])
    BY <1>1, <2>1
  <2>3. Redone(m[k], f, c, (k + 1) - 1)
    BY <1>4, <2>1
  <2>4. Redone(m[k + 1], f, c, k + 1)
    BY <2>1, <2>2, <2>3, RedoneStep
  <2> QED BY <2>1, <2>4
<1> HIDE DEF T
<1>5. 0 .. Len(c) \subseteq T
  BY <1>2, <1>3, <1>4, LoopInduction
<1>6. Redone(m[Len(c)], f, c, Len(c)) /\ m[Len(c)] \in Lists
  BY <1>2, <1>5 DEF T
<1>7. Filled(m[Len(c)], c)
  <2> DEFINE n == m[Len(c)]
  <2>1. Len(n) = Len(c)
    BY <1>2, <1>6 DEF Redone
  <2>2. \A k \in 1 .. Len(f) : UdpFilled(n, c, k) /\ TcpFilled(n, c, k)
    BY <1>2, <1>6 DEF Redone
  <2>3. \A k \in Len(f) + 1 .. Len(c) : UdpFilled(n, c, k) /\ TcpFilled(n, c, k)
    BY <1>6, <2>1 DEF Redone, UdpFilled, TcpFilled
  <2>4. \A k \in 1 .. Len(c) : n[k].name = c[k].name
    BY <1>6, <2>1 DEF Redone
  <2> HIDE DEF n
  <2>5. \A k \in 1 .. Len(c) : k \in 1 .. Len(f) \/ k \in Len(f) + 1 .. Len(c)
    BY <1>2
  <2>6. Filled(n, c)
    BY <2>1, <2>2, <2>3, <2>4, <2>5 DEF Filled
  <2> QED BY <2>6 DEF n
<1> QED BY <1>1, <1>6, <1>7

(* ... changes no meaning...                                               *)
LEMMA RemergeMeansSame ==
  ASSUME NEW f \in Lists, NEW c \in Lists, Heads(c, f)
  PROVE  Meaning(MergeList(f, c)) = Meaning(c)
BY RemergeFills, FilledMeansSame

(* ... and nothing at all in a list that names no interface twice, as that *)
(* is which a file without repetitions is merged into.                     *)
LEMMA FilledOnceIsSame ==
  ASSUME NEW m \in Lists, NEW c \in Lists, Filled(m, c), NamedOnce(c)
  PROVE  m = c
<1>1. /\ Len(c) \in Nat /\ DOMAIN m = 1 .. Len(c) /\ DOMAIN c = 1 .. Len(c)
      /\ \A k \in 1 .. Len(c) : m[k] \in ListEntry /\ c[k] \in ListEntry
  BY DEF Lists, Filled, Entries
<1>2. ASSUME NEW k \in 1 .. Len(c) PROVE m[k] = c[k]
  <2>1. \A j \in k + 1 .. Len(c) : c[j].name # c[k].name
    BY <1>1 DEF NamedOnce
  <2>2. m[k].name = c[k].name /\ m[k].udp = c[k].udp /\ m[k].tcp = c[k].tcp
    BY <2>1 DEF Filled, UdpFilled, TcpFilled
  <2> QED BY <1>1, <2>2 DEF ListEntry
<1> QED BY <1>1, <1>2 DEF Lists

LEMMA HeadsNamedOnce ==
  ASSUME NEW f \in Lists, NEW c \in Lists, Heads(c, f), NamedOnce(f)
  PROVE  NamedOnce(c)
<1>1. /\ Len(c) \in Nat /\ Len(f) \in Nat /\ Len(c) >= Len(f)
      /\ DOMAIN f = 1 .. Len(f) /\ DOMAIN c = 1 .. Len(c)
  BY DEF Lists, Heads
<1>2. ASSUME NEW j \in 1 .. Len(c), NEW k \in 1 .. Len(c), j < k
      PROVE  c[j].name # c[k].name
  <2>1. CASE k \in 1 .. Len(f)
    BY <1>1, <1>2, <2>1 DEF Heads, Extends, NamedOnce
  <2>2. CASE k \in Len(f) + 1 .. Len(c)
    BY <1>1, <1>2, <2>2 DEF Heads, Earlier
  <2> QED BY <1>1, <2>1, <2>2
<1> QED BY <1>1, <1>2 DEF NamedOnce

-----------------------------------------------------------------------------
(* Where the texts of a list come from *)

(* Every section of m is one of new or of old.                             *)
UdpFrom(udp, new, old) ==
  \/ udp = NONE
  \/ \E j \in 1 .. Len(new) : udp = new[j].udp
  \/ \E j \in 1 .. Len(old) : udp = old[j].udp
TcpFrom(tcp, new, old) ==
  \/ tcp = NONE
  \/ \E j \in 1 .. Len(new) : tcp = new[j].tcp
  \/ \E j \in 1 .. Len(old) : tcp = old[j].tcp

SectionsFrom(m, new, old) ==
  \A k \in 1 .. Len(m) : UdpFrom(m[k].udp, new, old) /\ TcpFrom(m[k].tcp, new, old)

(* A merge makes up no section.                                            *)
LEMMA MergeSections ==
  ASSUME NEW new \in Lists, NEW old \in Lists
  PROVE  SectionsFrom(MergeList(new, old), new, old)
<1>1. PICK m \in [0 .. Len(old) -> Lists] :
        /\ m[0] = new
        /\ \A k \in 1 .. Len(old) : m[k] = MergeOne(m[k - 1], old[k])
        /\ MergeList(new, old) = m[Len(old)]
  BY MergeLoop
<1>2. /\ Len(old) \in Nat /\ Len(new) \in Nat
      /\ \A k \in 1 .. Len(old) : old[k] \in Entries
  BY DEF Lists
<1> DEFINE T == {k \in 0 .. Len(old) : SectionsFrom(m[k], new, old)}
<1>3. 0 \in T
  BY <1>1, <1>2 DEF SectionsFrom, UdpFrom, TcpFrom
<1>4. ASSUME NEW q \in 0 .. Len(old) - 1, q \in T PROVE q + 1 \in T
  <2> DEFINE now == m[q]
             next == MergeOne(now, old[q + 1])
             k == Find(now, old[q + 1].name)
  <2>1. q + 1 \in 1 .. Len(old) /\ now \in Lists /\ old[q + 1] \in Entries
    BY <1>2
  <2>2. /\ next \in Lists
        /\ k = 0 => Len(next) = Len(now) + 1 /\ next[Len(now) + 1] = old[q + 1]
        /\ k # 0 => Len(next) = Len(now) /\ next[k] = MergeEntry(now[k], old[q + 1])
        /\ \A j \in 1 .. Len(now) : j # k => next[j] = now[j]
    BY <2>1, MergeOneEffect
  <2>3. k \in 0 .. Len(now) /\ Len(now) \in Nat
        /\ \A j \in 1 .. Len(now) : now[j] \in Entries
    BY <2>1, FindFirst DEF Lists
  <2>4. m[q + 1] = next
    BY <1>1, <2>1
  <2>5. SectionsFrom(now, new, old)
    BY <1>4
  <2> HIDE DEF now, next, k
  <2>6. ASSUME k # 0
        PROVE  /\ next[k].udp \in {now[k].udp, old[q + 1].udp}
               /\ next[k].tcp \in {now[k].tcp, old[q + 1].tcp}
    <3>1. now[k] \in Entries
      BY <2>3, <2>6
    <3> QED BY <2>1, <2>2, <2>6, <3>1 DEF MergeEntry, Entries, ListEntry
  <2>7. UdpFrom(old[q + 1].udp, new, old) /\ TcpFrom(old[q + 1].tcp, new, old)
    BY <2>1 DEF UdpFrom, TcpFrom
  <2>8. ASSUME NEW j \in 1 .. Len(now)
        PROVE  UdpFrom(now[j].udp, new, old) /\ TcpFrom(now[j].tcp, new, old)
    BY <2>5 DEF SectionsFrom
  <2>9. ASSUME NEW j \in 1 .. Len(next)
        PROVE  UdpFrom(next[j].udp, new, old) /\ TcpFrom(next[j].tcp, new, old)
    <3>1. CASE j = k
      BY <2>3, <2>6, <2>7, <2>8, <2>9, <3>1
    <3>2. CASE j # k /\ j \in 1 .. Len(now)
      BY <2>2, <2>8, <3>2
    <3>3. CASE j \notin 1 .. Len(now)
      BY <2>2, <2>3, <2>7, <2>9, <3>3
    <3> QED BY <3>1, <3>2, <3>3
  <2> QED BY <2>1, <2>4, <2>9 DEF SectionsFrom
<1> HIDE DEF T
<1>5. 0 .. Len(old) \subseteq T
  BY <1>2, <1>3, <1>4, LoopInduction
<1> QED BY <1>1, <1>2, <1>5 DEF T

(* Nor, then, a text.                                                      *)
LEMMA SectionTexts ==
  ASSUME NEW m, NEW new, NEW old, SectionsFrom(m, new, old),
         NEW k \in 1 .. Len(m), NEW t \in TextsOf(m[k])
  PROVE  \/ \E j \in 1 .. Len(new) : t \in TextsOf(new[j])
         \/ \E j \in 1 .. Len(old) : t \in TextsOf(old[j])
<1>1. PICK r \in UdpRulesIn(m[k]) \cup TcpRulesIn(m[k]) : t \in r.ranges
  BY DEF TextsOf
<1>2. CASE r \in UdpRulesIn(m[k])
  <2>1. m[k].udp # NONE /\ r \in m[k].udp
    BY <1>2 DEF UdpRulesIn
  <2>2. \/ \E j \in 1 .. Len(new) : r \in UdpRulesIn(new[j])
        \/ \E j \in 1 .. Len(old) : r \in UdpRulesIn(old[j])
    BY <2>1 DEF SectionsFrom, UdpFrom, UdpRulesIn
  <2> QED BY <1>1, <2>2 DEF TextsOf
<1>3. CASE r \in TcpRulesIn(m[k])
  <2>1. m[k].tcp # NONE /\ r \in m[k].tcp.rules
    BY <1>3 DEF TcpRulesIn
  <2>2. \/ \E j \in 1 .. Len(new) : r \in TcpRulesIn(new[j])
        \/ \E j \in 1 .. Len(old) : r \in TcpRulesIn(old[j])
    BY <2>1 DEF SectionsFrom, TcpFrom, TcpRulesIn
  <2> QED BY <1>1, <2>2 DEF TextsOf
<1> QED BY <1>1, <1>2, <1>3

(* A filled list has the sections of the list it fills.                    *)
LEMMA FilledSections ==
  ASSUME NEW m, NEW c \in Lists, Filled(m, c)
  PROVE  SectionsFrom(m, c, c)
<1>1. Len(c) \in Nat
  BY DEF Lists
<1> QED BY <1>1 DEF Filled, UdpFilled, TcpFilled, SectionsFrom, UdpFrom, TcpFrom

-----------------------------------------------------------------------------
(* Reading a section *)

(* A text reads as a prefix or not at all.                                 *)
LEMMA ParseType ==
  ASSUME NEW t \in RangeText
  PROVE  Parse(t) \in Prefix \cup {NONE}
<1>1. CASE Parse(t) = NONE
  BY <1>1
<1>2. CASE Parse(t) # NONE
  <2>1. /\ t.len # MALFORMED /\ t.addr # MALFORMED
        /\ ~(t.len # NONE /\ t.len > AddrBits)
        /\ Parse(t) = [t EXCEPT !.len = IF @ = NONE THEN AddrBits ELSE @]
    BY <1>2 DEF Parse
  <2>2. t.addr \in Addr /\ t.len \in Nat \cup {NONE}
    BY <2>1 DEF RangeText
  <2>3. Parse(t) = [addr |-> t.addr, len |-> IF t.len = NONE THEN AddrBits ELSE t.len]
    BY <2>1 DEF RangeText
  <2>4. CASE t.len = NONE
    <3>1. AddrBits \in 0 .. AddrBits
      BY AddressAssumption
    <3> QED BY <2>2, <2>3, <2>4, <3>1 DEF Prefix
  <2>5. CASE t.len # NONE
    <3>1. t.len \in 0 .. AddrBits
      BY <2>1, <2>2, <2>5, AddressAssumption
    <3> QED BY <2>2, <2>3, <2>5, <3>1 DEF Prefix
  <2> QED BY <2>4, <2>5
<1> QED BY <1>1, <1>2

(* The sections of one entry as the configuration of PolicyMaps has them.  *)
ReadUdp(e) == IF e.udp = NONE THEN NONE ELSE Read(e.udp)
ReadTcp(e) ==
  IF e.tcp = NONE THEN NONE
  ELSE [rules          |-> Read(e.tcp.rules),
        allow_outgoing |-> e.tcp.allow_outgoing,
        tcp_ack_flood  |-> e.tcp.tcp_ack_flood]

(* They are missing only where the entry lacks them.                       *)
LEMMA ReadIsThere ==
  ASSUME NEW e \in Entries
  PROVE  (ReadUdp(e) = NONE <=> e.udp = NONE) /\ (ReadTcp(e) = NONE <=> e.tcp = NONE)
<1>1. ReadUdp(e) = NONE <=> e.udp = NONE
  BY DEF Entries, ReadUdp
<1>2. ASSUME e.tcp # NONE PROVE ReadTcp(e) # NONE
  <2>1. e.tcp \in TcpSection(RangeText)
    BY <1>2 DEF Entries, ListEntry
  <2>2. \A r \in e.tcp.rules :
          r \in [ranges : SUBSET RangeText, port : Port]
    BY <2>1 DEF TcpSection
  <2>3. \A r \in [ranges : SUBSET RangeText, port : Port] :
          [r EXCEPT !.ranges = {Parse(t) : t \in r.ranges}]
            \in [ranges : SUBSET (Prefix \cup {NONE}), port : Port]
    BY ParseType
  <2>4. Read(e.tcp.rules) \in
          SUBSET [ranges : SUBSET (Prefix \cup {NONE}), port : Port]
    BY <2>2, <2>3 DEF Read
  <2>5. ReadTcp(e) \in TcpSection(Prefix \cup {NONE})
    BY <1>2, <2>1, <2>4 DEF ReadTcp, TcpSection
  <2> QED BY <2>5, NoneAssumption
<1>3. e.tcp = NONE => ReadTcp(e) = NONE
  BY DEF ReadTcp
<1> QED BY <1>1, <1>2, <1>3

(* A list without repetitions means what its entries say.                  *)
LEMMA MeaningOfEntry ==
  ASSUME NEW cfg \in Lists, NamedOnce(cfg), NEW k \in 1 .. Len(cfg),
         NEW i \in Ifaces, cfg[k].name = i
  PROVE  Meaning(cfg)[i] = [udp |-> ReadUdp(cfg[k]), tcp |-> ReadTcp(cfg[k])]
<1>0. DOMAIN cfg = 1 .. Len(cfg) /\ cfg[k] \in Entries
  BY DEF Lists
<1>1. \A j \in DOMAIN cfg : cfg[j].name = i => j = k
  BY <1>0 DEF NamedOnce
<1>2. UdpOf(cfg, i) = ReadUdp(cfg[k])
  <2>1. CASE cfg[k].udp = NONE
    <3>1. WithUdpOf(cfg, i) = {}
      BY <1>1, <2>1 DEF WithUdpOf
    <3> QED BY <2>1, <3>1 DEF UdpOf, ReadUdp
  <2>2. CASE cfg[k].udp # NONE
    <3>1. WithUdpOf(cfg, i) = {k}
      BY <1>0, <1>1, <2>2 DEF WithUdpOf
    <3>2. UdpRulesOf(cfg, i) = Read(cfg[k].udp)
      BY <3>1 DEF UdpRulesOf
    <3> QED BY <2>2, <3>1, <3>2 DEF UdpOf, ReadUdp
  <2> QED BY <2>1, <2>2
<1>3. TcpOf(cfg, i) = ReadTcp(cfg[k])
  <2>1. CASE cfg[k].tcp = NONE
    <3>1. WithTcpOf(cfg, i) = {}
      BY <1>1, <2>1 DEF WithTcpOf
    <3> QED BY <2>1, <3>1 DEF TcpOf, ReadTcp
  <2>2. CASE cfg[k].tcp # NONE
    <3>1. WithTcpOf(cfg, i) = {k}
      BY <1>0, <1>1, <2>2 DEF WithTcpOf
    <3>2. TcpRulesOf(cfg, i) = Read(cfg[k].tcp.rules)
      BY <3>1 DEF TcpRulesOf
    <3>3. Max({k}) = k
      BY DEF Max
    <3>4. (\E j \in {k} : cfg[j].tcp.tcp_ack_flood) = cfg[k].tcp.tcp_ack_flood
      <4>1. cfg[k].tcp.tcp_ack_flood \in BOOLEAN
        BY <1>0, <2>2 DEF Entries, ListEntry, TcpSection
      <4> QED BY <4>1
    <3> QED BY <2>2, <3>1, <3>2, <3>3, <3>4 DEF TcpOf, ReadTcp
  <2> QED BY <2>1, <2>2
<1> QED BY <1>2, <1>3 DEF Meaning

(* Nothing is said of an interface that it does not name.                  *)
LEMMA MeaningOfNone ==
  ASSUME NEW cfg \in Lists, NEW i \in Ifaces,
         \A k \in 1 .. Len(cfg) : cfg[k].name # i
  PROVE  Meaning(cfg)[i] = [udp |-> NONE, tcp |-> NONE]
<1>1. DOMAIN cfg = 1 .. Len(cfg)
  BY DEF Lists
<1>2. WithUdpOf(cfg, i) = {} /\ WithTcpOf(cfg, i) = {}
  BY <1>1 DEF WithUdpOf, WithTcpOf
<1> QED BY <1>2 DEF Meaning, UdpOf, TcpOf

-----------------------------------------------------------------------------
(* Merging lists without repetitions *)

(* The merge after q entries in force, each of which met at most one.      *)
MergedOnce(m, new, old, q) ==
  /\ \A k \in 1 .. Len(new), p \in 1 .. q :
       old[p].name = new[k].name => m[k] = MergeEntry(new[k], old[p])
  /\ \A k \in 1 .. Len(new) :
       (\A p \in 1 .. q : old[p].name # new[k].name) => m[k] = new[k]
  /\ \A k \in Len(new) + 1 .. Len(m) : \E p \in 1 .. q : m[k] = old[p]

(* A turn of the merge keeps that.                                         *)
LEMMA MergedOnceStep ==
  ASSUME NEW new \in Lists, NEW old \in Lists, NamedOnce(new), NamedOnce(old),
         NEW q \in 1 .. Len(old),
         NEW m \in Lists, Heads(m, new), MergedOnce(m, new, old, q - 1)
  PROVE  MergedOnce(MergeOne(m, old[q]), new, old, q)
<1> DEFINE o == old[q]
           next == MergeOne(m, o)
           k == Find(m, o.name)
<1>0. /\ Len(m) \in Nat /\ Len(new) \in Nat /\ Len(old) \in Nat
      /\ Len(m) >= Len(new)
      /\ DOMAIN old = 1 .. Len(old) /\ DOMAIN new = 1 .. Len(new)
      /\ o \in Entries
  BY DEF Lists, Heads
<1>1. /\ k = 0 => Len(next) = Len(m) + 1 /\ next[Len(m) + 1] = o
      /\ k # 0 => Len(next) = Len(m) /\ next[k] = MergeEntry(m[k], o)
      /\ \A j \in 1 .. Len(m) : j # k => next[j] = m[j]
  BY <1>0, MergeOneEffect
<1>2. /\ k \in 0 .. Len(m)
      /\ k = 0 => \A j \in 1 .. Len(m) : m[j].name # o.name
      /\ k # 0 => m[k].name = o.name
  BY FindFirst
<1>3. \A p \in 1 .. q - 1 : old[p].name # old[q].name
  BY <1>0 DEF NamedOnce
<1>4. \A j \in 1 .. Len(new) : m[j].name = new[j].name
  BY DEF Heads, Extends
<1> HIDE DEF next, k
<1>5. k \notin Len(new) + 1 .. Len(m)
  BY <1>2, <1>3 DEF MergedOnce
<1>6. ASSUME NEW j \in 1 .. Len(new), NEW p \in 1 .. q, old[p].name = new[j].name
      PROVE  next[j] = MergeEntry(new[j], old[p])
  <2>1. CASE p = q
    <3>1. \A h \in 1 .. q - 1 : old[h].name # new[j].name
      BY <1>3, <1>6, <2>1
    <3>2. m[j] = new[j]
      BY <3>1 DEF MergedOnce
    <3>3. k # 0
      BY <1>0, <1>2, <1>4, <1>6, <2>1
    <3>4. k \in 1 .. Len(new)
      BY <1>0, <1>2, <1>5, <3>3
    <3>5. k = j
      BY <1>0, <1>2, <1>4, <1>6, <2>1, <3>4 DEF NamedOnce
    <3> QED BY <1>1, <2>1, <3>2, <3>3, <3>5
  <2>2. CASE p # q
    <3>1. p \in 1 .. q - 1
      BY <2>2
    <3>2. m[j] = MergeEntry(new[j], old[p])
      BY <1>6, <3>1 DEF MergedOnce
    <3>3. j # k
      BY <1>2, <1>3, <1>4, <1>6, <3>1
    <3> QED BY <1>0, <1>1, <3>2, <3>3
  <2> QED BY <2>1, <2>2
<1>7. ASSUME NEW j \in 1 .. Len(new), \A p \in 1 .. q : old[p].name # new[j].name
      PROVE  next[j] = new[j]
  <2>1. m[j] = new[j]
    BY <1>7 DEF MergedOnce
  <2>2. j # k
    BY <1>2, <1>4, <1>7
  <2> QED BY <1>0, <1>1, <2>1, <2>2, SMTT(60)
<1>8. ASSUME NEW j \in Len(new) + 1 .. Len(next)
      PROVE  \E p \in 1 .. q : next[j] = old[p]
  <2>1. CASE j \in Len(new) + 1 .. Len(m)
    BY <1>0, <1>1, <1>5, <2>1 DEF MergedOnce
  <2>2. CASE j \notin Len(new) + 1 .. Len(m)
    <3>1. k = 0 /\ j = Len(m) + 1
      BY <1>0, <1>1, <1>2, <2>2
    <3> QED BY <1>1, <3>1
  <2> QED BY <2>1, <2>2
<1> QED BY <1>6, <1>7, <1>8 DEF MergedOnce, next

(* So without repetitions the lists merge as PolicyMaps merges.            *)
LEMMA MergePerSection ==
  ASSUME NEW new \in Lists, NEW old \in Lists, NamedOnce(new), NamedOnce(old)
  PROVE  Meaning(MergeList(new, old)) = Merge(Meaning(new), Meaning(old))
<1>1. PICK m \in [0 .. Len(old) -> Lists] :
        /\ m[0] = new
        /\ \A k \in 1 .. Len(old) : m[k] = MergeOne(m[k - 1], old[k])
        /\ MergeList(new, old) = m[Len(old)]
  BY MergeLoop
<1>2. /\ Len(old) \in Nat /\ Len(new) \in Nat
      /\ \A k \in 1 .. Len(old) : old[k] \in Entries
      /\ \A k \in 1 .. Len(new) : new[k] \in Entries
      /\ DOMAIN old = 1 .. Len(old) /\ DOMAIN new = 1 .. Len(new)
  BY DEF Lists
<1> DEFINE T == {k \in 0 .. Len(old) :
                   Heads(m[k], new) /\ MergedOnce(m[k], new, old, k)}
<1>3. 0 \in T
  BY <1>1, <1>2 DEF Heads, MergedOnce, Extends
<1>4. ASSUME NEW k \in 0 .. Len(old) - 1, k \in T PROVE k + 1 \in T
  <2>1. k + 1 \in 1 .. Len(old) /\ (k + 1) - 1 = k /\ m[k] \in Lists
    BY <1>2
  <2>2. m[k + 1] = MergeOne(m[k], old[k + 1])
    BY <1>1, <2>1
  <2>3. Heads(m[k + 1], new)
    BY <1>2, <1>4, <2>1, <2>2, HeadsStep
  <2>4. MergedOnce(m[k], new, old, (k + 1) - 1)
    BY <1>4, <2>1
  <2>5. MergedOnce(m[k + 1], new, old, k + 1)
    BY <1>4, <2>1, <2>2, <2>4, MergedOnceStep
  <2> QED BY <2>1, <2>3, <2>5
<1> HIDE DEF T
<1>5. 0 .. Len(old) \subseteq T
  BY <1>2, <1>3, <1>4, LoopInduction
<1> DEFINE M == MergeList(new, old)
<1>6. MergedOnce(M, new, old, Len(old))
  BY <1>1, <1>2, <1>5 DEF T
<1>7. M \in Lists /\ Heads(M, new) /\ Tails(M, new, old, Len(old))
  BY MergeShape
<1>8. /\ Len(M) \in Nat /\ Len(M) >= Len(new) /\ DOMAIN M = 1 .. Len(M)
      /\ \A k \in 1 .. Len(M) : M[k] \in Entries
  BY <1>7 DEF Lists, Heads
<1> HIDE DEF M
<1>9. \A k \in 1 .. Len(new) : M[k].name = new[k].name
  BY <1>7 DEF Heads, Extends
<1>10. NamedOnce(M)
  <2>1. ASSUME NEW j \in 1 .. Len(M), NEW k \in 1 .. Len(M),
               j < k, M[j].name = M[k].name
        PROVE  FALSE
    <3>1. CASE k \in 1 .. Len(new)
      BY <1>2, <1>9, <2>1, <3>1 DEF NamedOnce
    <3>2. CASE k \in Len(new) + 1 .. Len(M)
      BY <1>7, <2>1, <3>2 DEF Heads, Earlier
    <3> QED BY <1>2, <1>8, <3>1, <3>2
  <2>2. \A j, k \in 1 .. Len(M) : j < k \/ j = k \/ k < j
    BY <1>8
  <2> QED BY <1>8, <2>1, <2>2 DEF NamedOnce
<1>11. ASSUME NEW i \in Ifaces
       PROVE  Meaning(M)[i] = Merge(Meaning(new), Meaning(old))[i]
  <2>0. Merge(Meaning(new), Meaning(old))[i] =
          [udp |-> IF Meaning(new)[i].udp = NONE THEN Meaning(old)[i].udp
                                                 ELSE Meaning(new)[i].udp,
           tcp |-> IF Meaning(new)[i].tcp = NONE THEN Meaning(old)[i].tcp
                                                 ELSE Meaning(new)[i].tcp]
    BY DEF Merge
  <2>1. ASSUME NEW k \in 1 .. Len(new), new[k].name = i,
               NEW p \in 1 .. Len(old), old[p].name = i
        PROVE  Meaning(M)[i] = Merge(Meaning(new), Meaning(old))[i]
    <3>1. M[k] = MergeEntry(new[k], old[p]) /\ k \in 1 .. Len(M) /\ M[k].name = i
      BY <1>6, <1>8, <1>9, <2>1 DEF MergedOnce
    <3>2. /\ Meaning(M)[i] = [udp |-> ReadUdp(M[k]), tcp |-> ReadTcp(M[k])]
          /\ Meaning(new)[i] = [udp |-> ReadUdp(new[k]), tcp |-> ReadTcp(new[k])]
          /\ Meaning(old)[i] = [udp |-> ReadUdp(old[p]), tcp |-> ReadTcp(old[p])]
      BY <1>7, <1>10, <2>1, <3>1, MeaningOfEntry
    <3>3. /\ M[k].udp = IF new[k].udp = NONE THEN old[p].udp ELSE new[k].udp
          /\ M[k].tcp = IF new[k].tcp = NONE THEN old[p].tcp ELSE new[k].tcp
      BY <1>2, <3>1 DEF MergeEntry, Entries, ListEntry
    <3>4. /\ ReadUdp(new[k]) = NONE <=> new[k].udp = NONE
          /\ ReadTcp(new[k]) = NONE <=> new[k].tcp = NONE
      BY <1>2, ReadIsThere
    <3>5. ReadUdp(M[k]) = IF ReadUdp(new[k]) = NONE THEN ReadUdp(old[p])
                                                    ELSE ReadUdp(new[k])
      BY <3>3, <3>4 DEF ReadUdp
    <3>6. ReadTcp(M[k]) = IF ReadTcp(new[k]) = NONE THEN ReadTcp(old[p])
                                                    ELSE ReadTcp(new[k])
      BY <3>3, <3>4 DEF ReadTcp
    <3> QED BY <2>0, <3>2, <3>5, <3>6
  <2>2. ASSUME NEW k \in 1 .. Len(new), new[k].name = i,
               \A p \in 1 .. Len(old) : old[p].name # i
        PROVE  Meaning(M)[i] = Merge(Meaning(new), Meaning(old))[i]
    <3>1. M[k] = new[k] /\ k \in 1 .. Len(M) /\ M[k].name = i
      BY <1>6, <1>8, <1>9, <2>2 DEF MergedOnce
    <3>2. /\ Meaning(M)[i] = [udp |-> ReadUdp(M[k]), tcp |-> ReadTcp(M[k])]
          /\ Meaning(new)[i] = [udp |-> ReadUdp(new[k]), tcp |-> ReadTcp(new[k])]
      BY <1>7, <1>10, <2>2, <3>1, MeaningOfEntry
    <3>3. Meaning(old)[i] = [udp |-> NONE, tcp |-> NONE]
      BY <2>2, MeaningOfNone
    <3> QED BY <2>0, <3>1, <3>2, <3>3
  <2>3. ASSUME \A k \in 1 .. Len(new) : new[k].name # i,
               NEW p \in 1 .. Len(old), old[p].name = i
        PROVE  Meaning(M)[i] = Merge(Meaning(new), Meaning(old))[i]
    <3>1. PICK k \in 1 .. Len(M) : M[k].name = i
      BY <1>7, <2>3 DEF Tails
    <3>2. k \in Len(new) + 1 .. Len(M)
      BY <1>2, <1>8, <1>9, <2>3, <3>1
    <3>3. PICK h \in 1 .. Len(old) : M[k] = old[h]
      BY <1>6, <3>2 DEF MergedOnce
    <3>4. h = p
      BY <1>2, <2>3, <3>1, <3>3 DEF NamedOnce
    <3>5. /\ Meaning(M)[i] = [udp |-> ReadUdp(M[k]), tcp |-> ReadTcp(M[k])]
          /\ Meaning(old)[i] = [udp |-> ReadUdp(old[p]), tcp |-> ReadTcp(old[p])]
      BY <1>7, <1>10, <2>3, <3>1, MeaningOfEntry
    <3>6. Meaning(new)[i] = [udp |-> NONE, tcp |-> NONE]
      BY <2>3, MeaningOfNone
    <3> QED BY <2>0, <3>3, <3>4, <3>5, <3>6
  <2>4. ASSUME \A k \in 1 .. Len(new) : new[k].name # i,
               \A p \in 1 .. Len(old) : old[p].name # i
        PROVE  Meaning(M)[i] = Merge(Meaning(new), Meaning(old))[i]
    <3>1. \A k \in 1 .. Len(M) : M[k].name # i
      <4> SUFFICES ASSUME NEW k \in 1 .. Len(M), M[k].name = i PROVE FALSE
        OBVIOUS
      <4>1. k \in Len(new) + 1 .. Len(M)
        BY <1>2, <1>8, <1>9, <2>4
      <4> QED BY <1>6, <2>4, <4>1 DEF MergedOnce
    <3>2. /\ Meaning(M)[i] = [udp |-> NONE, tcp |-> NONE]
          /\ Meaning(new)[i] = [udp |-> NONE, tcp |-> NONE]
          /\ Meaning(old)[i] = [udp |-> NONE, tcp |-> NONE]
      BY <1>7, <2>4, <3>1, MeaningOfNone
    <3> QED BY <2>0, <3>2
  <2> QED BY <2>1, <2>2, <2>3, <2>4
<1>12. Meaning(M) = Merge(Meaning(new), Meaning(old))
  <2>1. /\ Meaning(M) = [i \in Ifaces |-> Meaning(M)[i]]
        /\ Merge(Meaning(new), Meaning(old)) =
             [i \in Ifaces |-> Merge(Meaning(new), Meaning(old))[i]]
    BY DEF Meaning, Merge
  <2> QED BY <1>11, <2>1
<1> QED BY <1>12 DEF M

-----------------------------------------------------------------------------
(* Ipv4Cidr::new masks as Canonical says *)

(* Ipv4Cidr::new is a loop over the octets.                                *)
LEMMA NewCidrLoop ==
  ASSUME NEW range \in Prefix
  PROVE  \E out \in [0 .. OCTETS -> [addr : Int, left : Nat]] :
           /\ out[0] = [addr |-> 0, left |-> range.len]
           /\ \A k \in 1 .. OCTETS : out[k] = NextOctet(out[k - 1], range.addr, k)
           /\ NewCidr(range) = [addr |-> out[OCTETS].addr, len |-> range.len]
<1> DEFINE n == OCTETS
           S == [addr : Int, left : Nat]
           s == [addr |-> 0, left |-> range.len]
           G == [k \in 1 .. n |-> [x \in S |-> NextOctet(x, range.addr, k)]]
<1>1. n \in Nat /\ s \in S
  BY OctetAssumption, AddressAssumption DEF Prefix
<1>2. ASSUME NEW x \in S, NEW k \in 1 .. n PROVE NextOctet(x, range.addr, k) \in S
  <2>1. range.addr \in Nat
    BY AddressAssumption, Pow2Type DEF Prefix, Addr
  <2>2. OCTET_BITS \in Nat /\ Pow2[OCTET_BITS] \in Nat
    BY OctetAssumption, Pow2Type
  <2>3. OCTET_BITS * (OCTETS - k) \in Nat
    BY OctetAssumption
  <2>4. Octet(range.addr, k) \in Int
    BY <2>1, <2>2, <2>3, Pow2Type, OctetAssumption DEF Octet
  <2>5. CASE x.left >= OCTET_BITS
    BY <2>2, <2>4, <2>5 DEF NextOctet
  <2>6. CASE ~(x.left >= OCTET_BITS)
    <3>1. OCTET_BITS - x.left \in Nat
      BY <2>2, <2>6
    <3>2. Leading(Octet(range.addr, k), x.left) \in Int
      BY <2>4, <3>1, Pow2Type DEF Leading
    <3> QED BY <2>2, <2>6, <3>2 DEF NextOctet
  <2> QED BY <2>5, <2>6
<1>3. PICK f \in [0 .. n -> S] : Loops(f, s, n, G)
  <2>1. G \in [1 .. n -> [S -> S]]
    BY <1>2
  <2> HIDE DEF G
  <2> QED BY <1>1, <2>1, LoopRecursion
<1>4. f = [k \in 0 .. n |-> IF k = 0 THEN s ELSE NextOctet(f[k - 1], range.addr, k)]
  <2>1. ASSUME NEW k \in 1 .. n
        PROVE  G[k][f[k - 1]] = NextOctet(f[k - 1], range.addr, k)
    <3>1. f[k - 1] \in S
      BY <1>1
    <3> QED BY <3>1
  <2>2. f = [k \in 0 .. n |-> IF k = 0 THEN s ELSE G[k][f[k - 1]]]
    <3> HIDE DEF G
    <3> QED BY <1>3 DEF Loops
  <2>3. \A k \in 0 .. n : k # 0 => k \in 1 .. n
    BY <1>1
  <2> HIDE DEF G
  <2> QED BY <2>1, <2>2, <2>3
<1> DEFINE g == CHOOSE h : h = [k \in 0 .. n |->
                  IF k = 0 THEN s ELSE NextOctet(h[k - 1], range.addr, k)]
<1>5. g = [k \in 0 .. n |-> IF k = 0 THEN s ELSE NextOctet(g[k - 1], range.addr, k)]
  BY <1>4
<1>6. NewCidr(range) = [addr |-> g[n].addr, len |-> range.len]
  BY DEF NewCidr
<1> HIDE DEF g, G
<1>7. g[0] = s /\ \A k \in 1 .. n : g[k] = NextOctet(g[k - 1], range.addr, k)
  BY <1>1, <1>5
<1>8. \A k \in 0 .. n : g[k] \in S
  <2> DEFINE T == {k \in 0 .. n : g[k] \in S}
  <2>1. 0 \in T
    BY <1>1, <1>7
  <2>2. ASSUME NEW k \in 0 .. n - 1, k \in T PROVE k + 1 \in T
    <3>1. k + 1 \in 1 .. n /\ (k + 1) - 1 = k
      BY <1>1
    <3>2. g[k + 1] = NextOctet(g[k], range.addr, k + 1)
      BY <1>7, <3>1
    <3>3. NextOctet(g[k], range.addr, k + 1) \in S
      BY <1>2, <2>2, <3>1
    <3> QED BY <3>1, <3>2, <3>3
  <2> HIDE DEF T
  <2>3. 0 .. n \subseteq T
    BY <1>1, <2>1, <2>2, LoopInduction
  <2> QED BY <2>3 DEF T
<1>9. g \in [0 .. n -> S]
  BY <1>5, <1>8
<1> QED BY <1>6, <1>7, <1>9

(* The leading k octets of an address, and how many of their low bits the  *)
(* prefix does not keep.                                                   *)
Top(addr, k) == addr \div Pow2[OCTET_BITS * (OCTETS - k)]
Cut(len, k)  == IF len >= OCTET_BITS * k THEN 0 ELSE OCTET_BITS * k - len
Left(len, k) == IF len >= OCTET_BITS * k THEN len - OCTET_BITS * k ELSE 0

(* One octet more: the leading ones before, and the octet.                 *)
LEMMA TopStep ==
  ASSUME NEW addr \in Nat, NEW k \in 1 .. OCTETS
  PROVE  /\ Top(addr, k) \in Nat /\ Top(addr, k - 1) \in Nat
         /\ Top(addr, k) \div Pow2[OCTET_BITS] = Top(addr, k - 1)
         /\ Top(addr, k) % Pow2[OCTET_BITS] = Octet(addr, k)
<1> DEFINE w == OCTET_BITS
           e == w * (OCTETS - k)
<1>1. w \in Nat /\ e \in Nat /\ w * (OCTETS - (k - 1)) = e + w
  BY OctetAssumption
<1>2. Pow2[e + w] = Pow2[e] * Pow2[w]
  BY <1>1, Pow2Sum
<1>3. Pow2[e] \in Nat \ {0} /\ Pow2[w] \in Nat \ {0} /\ Pow2[e + w] \in Nat \ {0}
  BY <1>1, Pow2Type
<1>4. addr \div Pow2[e] \in Nat /\ addr \div Pow2[e + w] \in Nat
  BY <1>3, DivMod
<1>5. (addr \div Pow2[e]) \div Pow2[w] = addr \div Pow2[e + w]
  BY <1>2, <1>3, DivDiv
<1> QED BY <1>1, <1>4, <1>5 DEF Top, Octet

(* A turn keeps this: the octets so far are the leading ones, cut off.     *)
CutOff(last, range, k) ==
  /\ last.addr = Top(range.addr, k) - (Top(range.addr, k) % Pow2[Cut(range.len, k)])
  /\ last.left = Left(range.len, k)

(* A turn of the loop keeps that.                                          *)
LEMMA NextOctetCuts ==
  ASSUME NEW range \in Prefix, NEW k \in 1 .. OCTETS, NEW last, CutOff(last, range, k - 1)
  PROVE  CutOff(NextOctet(last, range.addr, k), range, k)
<1> DEFINE w    == OCTET_BITS
           len  == range.len
           t    == Top(range.addr, k)
           u    == Top(range.addr, k - 1)
           o    == Octet(range.addr, k)
           b    == Pow2[w]
           next == NextOctet(last, range.addr, k)
<1>1. /\ len \in Nat /\ w \in Nat \ {0} /\ w * k \in Nat /\ w * (k - 1) \in Nat
      /\ w * k = w * (k - 1) + w /\ k \in Nat /\ k - 1 \in Nat
  BY OctetAssumption, AddressAssumption DEF Prefix
<1>2. range.addr \in Nat
  BY AddressAssumption, Pow2Type DEF Prefix, Addr
<1>3. t \in Nat /\ u \in Nat /\ t \div b = u /\ t % b = o
  BY <1>2, TopStep
<1>4. b \in Nat \ {0}
  BY <1>1, Pow2Type
<1>5. o \in 0 .. b - 1 /\ t = b * u + o
  BY <1>3, <1>4, DivMod
<1>6. /\ last.addr = u - (u % Pow2[Cut(len, k - 1)])
      /\ last.left = Left(len, k - 1)
  BY DEF CutOff
<1>7. /\ next.addr = last.addr * b
                      + IF last.left >= w THEN o ELSE Leading(o, last.left)
      /\ next.left = IF last.left >= w THEN last.left - w ELSE 0
  BY DEF NextOctet
<1>8. \A x \in Nat : x % Pow2[0] = 0
  BY Pow2Step
<1> HIDE DEF t, u, o, next
<1>9. CASE len >= w * k
  <2>1. Cut(len, k) = 0 /\ Cut(len, k - 1) = 0
    BY <1>1, <1>9 DEF Cut
  <2>2. /\ last.left = len - w * (k - 1) /\ last.left >= w
        /\ Left(len, k) = last.left - w
    BY <1>1, <1>6, <1>9 DEF Left
  <2>3. next.addr = u * b + o
    BY <1>3, <1>6, <1>7, <1>8, <2>1, <2>2
  <2>4. next.addr = t - (t % Pow2[0])
    BY <1>3, <1>4, <1>5, <1>8, <2>3
  <2> QED BY <1>7, <2>1, <2>2, <2>4 DEF CutOff, next, t
<1>10. CASE len < w * k /\ len >= w * (k - 1)
  <2> DEFINE c == Pow2[w - last.left]
             d == Pow2[last.left]
  <2>1. /\ Cut(len, k) = w - last.left /\ Cut(len, k - 1) = 0
        /\ last.left \in 0 .. w - 1 /\ Left(len, k) = 0
    BY <1>1, <1>6, <1>10 DEF Cut, Left
  <2>2. w - last.left \in Nat /\ last.left \in Nat /\ (w - last.left) + last.left = w
    BY <1>1, <2>1
  <2>3. c \in Nat \ {0} /\ d \in Nat \ {0}
    BY <2>2, Pow2Type
  <2>4. c * d = b
    BY <2>2, Pow2Sum
  <2>5. t % c = o % c
    BY <1>3, <2>3, <2>4, ModOfDivisor
  <2>6. next.addr = u * b + (o - (o % c)) /\ next.left = 0
    BY <1>1, <1>3, <1>6, <1>7, <1>8, <2>1 DEF Leading
  <2>7. o % c \in Nat
    <3>1. o \in Nat
      BY <1>4, <1>5
    <3> HIDE DEF c, d
    <3>2. o % c \in 0 .. c - 1
      BY <2>3, <3>1, DivMod
    <3> QED BY <2>3, <3>2
  <2>8. next.addr = t - (t % c)
    BY <1>3, <1>4, <1>5, <2>5, <2>6, <2>7
  <2> QED BY <2>1, <2>6, <2>8 DEF CutOff, next, t
<1>11. CASE len < w * (k - 1)
  <2> DEFINE e == Pow2[Cut(len, k - 1)]
  <2>1. /\ Cut(len, k) = w + Cut(len, k - 1) /\ Cut(len, k - 1) \in Nat
        /\ last.left = 0 /\ Left(len, k) = 0
    BY <1>1, <1>6, <1>11 DEF Cut, Left
  <2>2. e \in Nat \ {0} /\ Pow2[Cut(len, k)] = b * e
    BY <1>1, <2>1, Pow2Type, Pow2Sum
  <2>3. t % (b * e) = (u % e) * b + o
    BY <1>3, <1>4, <2>2, ModOfMultiple
  <2>4. Leading(o, 0) = 0
    BY <1>1, <1>4, <1>5 DEF Leading
  <2>5. u % e \in Nat
    <3> HIDE DEF e
    <3>1. u % e \in 0 .. e - 1
      BY <1>3, <2>2, DivMod
    <3> QED BY <2>2, <3>1
  <2>6. next.addr = (u - (u % e)) * b /\ next.left = 0
    <3>1. ~(last.left >= w)
      BY <1>1, <2>1
    <3>2. next.addr = last.addr * b + Leading(o, 0) /\ next.left = 0
      BY <1>7, <2>1, <3>1
    <3>3. last.addr = u - (u % e)
      BY <1>6
    <3> DEFINE v == u % e
    <3> HIDE DEF v, b
    <3>4. (u - v) * b \in Int
      BY <1>3, <1>4, <2>5 DEF v
    <3> QED BY <2>4, <3>2, <3>3, <3>4 DEF v
  <2>7. (u - (u % e)) * b = t - ((u % e) * b + o)
    <3> DEFINE v == u % e
    <3> HIDE DEF v, e, b
    <3>1. v \in Nat
      BY <2>5 DEF v
    <3>2. (u - v) * b = u * b - v * b
      BY <1>3, <1>4, <3>1
    <3>3. u * b = b * u /\ u * b \in Int /\ v * b \in Int
      BY <1>3, <1>4, <3>1
    <3>4. (u - v) * b = t - (v * b + o)
      BY <1>3, <1>5, <3>2, <3>3
    <3> QED BY <3>4 DEF v
  <2> QED BY <2>1, <2>2, <2>3, <2>6, <2>7 DEF CutOff, next, t
<1> QED BY <1>1, <1>9, <1>10, <1>11

(* The canonical form that PolicyMaps speaks of is what the code computes. *)
LEMMA NewCidrCanonical ==
  ASSUME NEW range \in Prefix
  PROVE  NewCidr(range) = Canonical(range)
<1>1. PICK out \in [0 .. OCTETS -> [addr : Int, left : Nat]] :
        /\ out[0] = [addr |-> 0, left |-> range.len]
        /\ \A k \in 1 .. OCTETS : out[k] = NextOctet(out[k - 1], range.addr, k)
        /\ NewCidr(range) = [addr |-> out[OCTETS].addr, len |-> range.len]
  BY NewCidrLoop
<1>2. /\ OCTETS \in Nat /\ OCTET_BITS \in Nat /\ OCTET_BITS * OCTETS = AddrBits
      /\ AddrBits \in Nat
  BY OctetAssumption, AddressAssumption
<1>3. /\ range.addr \in Nat /\ range.addr < Pow2[AddrBits]
      /\ range.len \in 0 .. AddrBits
  BY <1>2, Pow2Type DEF Prefix, Addr
<1> DEFINE T == {k \in 0 .. OCTETS : CutOff(out[k], range, k)}
<1>4. 0 \in T
  <2>1. OCTET_BITS * (OCTETS - 0) = AddrBits /\ OCTET_BITS * 0 = 0
    BY <1>2
  <2>2. Top(range.addr, 0) = 0
    <3> DEFINE p == Pow2[AddrBits]
    <3>1. p \in Nat \ {0} /\ range.addr \in 0 .. p - 1
      BY <1>2, <1>3, Pow2Type
    <3>2. range.addr = p * 0 + range.addr
      BY <1>3, <3>1
    <3> HIDE DEF p
    <3>3. range.addr \div p = 0
      BY <1>3, <3>1, <3>2, DivModUnique
    <3> QED BY <2>1, <3>3 DEF Top, p
  <2>3. Cut(range.len, 0) = 0 /\ Left(range.len, 0) = range.len
    BY <1>3, <2>1 DEF Cut, Left
  <2>4. 0 % Pow2[0] = 0
    BY Pow2Step
  <2> QED BY <1>1, <1>2, <2>2, <2>3, <2>4 DEF CutOff
<1>5. ASSUME NEW k \in 0 .. OCTETS - 1, k \in T PROVE k + 1 \in T
  <2>1. k + 1 \in 1 .. OCTETS /\ (k + 1) - 1 = k
    BY <1>2
  <2>2. out[k + 1] = NextOctet(out[k], range.addr, k + 1)
    BY <1>1, <2>1
  <2>3. CutOff(out[k], range, (k + 1) - 1)
    BY <1>5, <2>1
  <2>4. CutOff(out[k + 1], range, k + 1)
    BY <2>1, <2>2, <2>3, NextOctetCuts
  <2> QED BY <2>1, <2>4
<1> HIDE DEF T
<1>6. 0 .. OCTETS \subseteq T
  BY <1>2, <1>4, <1>5, LoopInduction
<1>7. CutOff(out[OCTETS], range, OCTETS)
  BY <1>2, <1>6 DEF T
<1>8. Top(range.addr, OCTETS) = range.addr
  <2>1. OCTET_BITS * (OCTETS - OCTETS) = 0
    <3>1. OCTETS - OCTETS = 0
      BY <1>2
    <3>2. OCTET_BITS * 0 = 0
      BY <1>2
    <3> QED BY ONLY <3>1, <3>2
  <2>2. Top(range.addr, OCTETS) = range.addr \div 1
    BY ONLY <2>1, Pow2Step DEF Top
  <2>3. range.addr \in Nat
    BY <1>3
  <2>4. \A x \in Nat : x \div 1 = x
    OBVIOUS
  <2> QED BY ONLY <2>2, <2>3, <2>4
<1>9. Cut(range.len, OCTETS) = AddrBits - range.len
  <2>1. Cut(range.len, OCTETS) =
          IF range.len >= AddrBits THEN 0 ELSE AddrBits - range.len
    BY <1>2 DEF Cut
  <2> QED BY <1>2, <1>3, <2>1
<1> QED BY <1>1, <1>7, <1>8, <1>9 DEF CutOff, Canonical, Mask

-----------------------------------------------------------------------------
(* Ranges and tries *)

(* To mask an address is to round it down to a multiple of its block.      *)
LEMMA MaskRounds ==
  ASSUME NEW addr \in Addr, NEW len \in 0 .. AddrBits
  PROVE  LET p == Pow2[AddrBits - len]
         IN  /\ p \in Nat \ {0}
             /\ addr \div p \in Nat
             /\ Mask(addr, len) = p * (addr \div p)
<1> DEFINE p == Pow2[AddrBits - len]
<1>1. AddrBits - len \in Nat /\ addr \in Nat
  BY AddressAssumption, Pow2Type DEF Addr
<1>2. p \in Nat \ {0}
  BY <1>1, Pow2Type
<1>3. Mask(addr, len) = addr - (addr % p)
  BY DEF Mask
<1> HIDE DEF p
<1>4. /\ addr \div p \in Nat /\ addr % p \in 0 .. p - 1
      /\ addr = p * (addr \div p) + (addr % p)
  BY <1>1, <1>2, DivMod
<1>5. p * (addr \div p) \in Nat
  BY <1>2, <1>4
<1>6. Mask(addr, len) = p * (addr \div p)
  BY <1>1, <1>2, <1>3, <1>4, <1>5
<1> QED BY <1>2, <1>4, <1>6 DEF p

(* The canonical form of a prefix covers what shares its leading bits.     *)
LEMMA CoversByBlock ==
  ASSUME NEW r \in Prefix, NEW addr \in Addr
  PROVE  Covers(Canonical(r), addr) <=>
           addr \div Pow2[AddrBits - r.len] = r.addr \div Pow2[AddrBits - r.len]
<1> DEFINE p == Pow2[AddrBits - r.len]
           q == r.addr \div p
           b == addr \div p
<1>1. r.addr \in Addr /\ r.len \in 0 .. AddrBits
  BY DEF Prefix
<1>2. /\ p \in Nat \ {0} /\ q \in Nat /\ b \in Nat
      /\ Mask(r.addr, r.len) = p * q /\ Mask(addr, r.len) = p * b
  BY <1>1, MaskRounds
<1>3. Covers(Canonical(r), addr) <=> Mask(addr, r.len) = Mask(Mask(r.addr, r.len), r.len)
  BY DEF Covers, Canonical
<1>4. Mask(p * q, r.len) = p * q - ((p * q) % p)
  BY DEF Mask
<1> HIDE DEF p, q, b
<1>5. p * q \in Nat /\ p * q = p * q + 0 /\ 0 \in 0 .. p - 1
  BY <1>2
<1>6. (p * q) % p = 0
  <2> DEFINE m == p * q
  <2>1. m \in Nat /\ m = p * q + 0
    BY <1>5
  <2> HIDE DEF m
  <2>2. m % p = 0
    BY <1>2, <1>5, <2>1, DivModUnique
  <2> QED BY <2>2 DEF m
<1>7. Covers(Canonical(r), addr) <=> p * b = p * q
  <2> DEFINE m == p * q
             n == p * b
  <2>1. m - 0 = m
    BY <1>5
  <2> HIDE DEF m, n
  <2>2. Mask(m, r.len) = m
    BY <1>4, <1>6, <2>1 DEF m
  <2>3. Mask(r.addr, r.len) = m /\ Mask(addr, r.len) = n
    BY <1>2 DEF m, n
  <2>4. Covers(Canonical(r), addr) <=> n = m
    BY <1>3, <2>2, <2>3
  <2> QED BY <2>4 DEF m, n
<1>8. p * b = p * q <=> b = q
  <2> SUFFICES ASSUME p * b = p * q PROVE b = q
    OBVIOUS
  <2> DEFINE m == p * b
  <2>1. m \in Nat /\ m = p * b + 0 /\ m = p * q + 0
    BY <1>2
  <2> HIDE DEF m
  <2>2. m \div p = b /\ m \div p = q
    BY <1>2, <1>5, <2>1, DivModUnique
  <2> QED BY <2>2
<1> QED BY <1>7, <1>8 DEF p, q, b

(* The source of a rule without ranges covers every address.               *)
LEMMA AnySourceCovers ==
  /\ AnySource \in {Canonical(p) : p \in Prefix}
  /\ \A addr \in Addr : Covers(AnySource, addr)
<1> DEFINE r == [addr |-> 0, len |-> 0]
           p == Pow2[AddrBits]
<1>1. AddrBits \in Nat /\ AddrBits - 0 = AddrBits /\ p \in Nat \ {0}
  BY AddressAssumption, Pow2Type
<1>2. r \in Prefix /\ 0 \in Addr
  BY <1>1 DEF Prefix, Addr
<1>3. ASSUME NEW addr \in Addr PROVE addr \div p = 0
  <2>1. addr \in Nat /\ addr \in 0 .. p - 1
    BY <1>1 DEF Addr
  <2> HIDE DEF p
  <2>2. addr = p * 0 + addr
    BY <1>1, <2>1
  <2> QED BY <1>1, <2>1, <2>2, DivModUnique
<1>4. Canonical(r) = AnySource
  <2>1. Mask(0, 0) = p * (0 \div p)
    BY <1>1, <1>2, MaskRounds
  <2> HIDE DEF p
  <2>2. Mask(0, 0) = 0
    BY <1>1, <1>2, <1>3, <2>1
  <2> QED BY <2>2 DEF Canonical, AnySource
<1>5. ASSUME NEW addr \in Addr PROVE Covers(AnySource, addr)
  <2>1. addr \div p = 0 \div p
    BY <1>2, <1>3
  <2> QED BY <1>1, <1>2, <1>4, <2>1, CoversByBlock
<1> QED BY <1>2, <1>4, <1>5

(* A text that can be read becomes a prefix that covers what it names.     *)
LEMMA RangeMatches ==
  ASSUME NEW t \in RangeText, Parse(t) # NONE
  PROVE  /\ Parse(t) \in Prefix
         /\ NewCidr(Parse(t)) = Canonical(Parse(t))
         /\ \A addr \in Addr : Covers(NewCidr(Parse(t)), addr) <=> InRange(addr, t)
<1>1. Parse(t) \in Prefix
  BY ParseType
<1>2. NewCidr(Parse(t)) = Canonical(Parse(t))
  BY <1>1, NewCidrCanonical
<1>3. Parse(t) = [t EXCEPT !.len = IF @ = NONE THEN AddrBits ELSE @]
  BY DEF Parse
<1>4. /\ Parse(t).addr = t.addr
      /\ Parse(t).len = IF t.len = NONE THEN AddrBits ELSE t.len
  BY <1>3 DEF RangeText
<1>5. ASSUME NEW addr \in Addr
      PROVE  Covers(Canonical(Parse(t)), addr) <=> InRange(addr, t)
  BY <1>1, <1>4, CoversByBlock DEF InRange
<1> QED BY <1>1, <1>2, <1>5

(* Rules all of whose texts can be read.                                   *)
Readable(rules) ==
  \A r \in rules :
    /\ r.ranges \subseteq RangeText
    /\ \A t \in r.ranges : Parse(t) # NONE
    /\ [r EXCEPT !.ranges = {Parse(t) : t \in @}].ranges = {Parse(t) : t \in r.ranges}

(* Their trie holds canonical prefixes and matches what they name.         *)
LEMMA TrieMatches ==
  ASSUME NEW rules, Readable(rules)
  PROVE  /\ TrieOf(Read(rules)) \subseteq {Canonical(p) : p \in Prefix}
         /\ \A addr \in Addr :
              (\E p \in TrieOf(Read(rules)) : Covers(p, addr)) <=> Names(addr, rules)
<1> DEFINE PrefixesOfRule(r) == IF r.ranges = {} THEN {AnySource}
                          ELSE {NewCidr(Parse(t)) : t \in r.ranges}
<1>1. \A p : p \in TrieOf(Read(rules)) <=> \E r \in rules : p \in PrefixesOfRule(r)
  <2>1. \A r \in rules :
          LET s == [r EXCEPT !.ranges = {Parse(t) : t \in @}]
          IN  (IF s.ranges = {} THEN {AnySource} ELSE {NewCidr(x) : x \in s.ranges})
                = PrefixesOfRule(r)
    <3> SUFFICES ASSUME NEW r \in rules
                 PROVE  (IF {Parse(t) : t \in r.ranges} = {} THEN {AnySource}
                         ELSE {NewCidr(x) : x \in {Parse(t) : t \in r.ranges}})
                          = PrefixesOfRule(r)
      BY DEF Readable
    <3> QED OBVIOUS
  <2> QED BY <2>1 DEF TrieOf, Read
<1>2. ASSUME NEW r \in rules
      PROVE  /\ PrefixesOfRule(r) \subseteq {Canonical(p) : p \in Prefix}
             /\ \A addr \in Addr :
                  (\E p \in PrefixesOfRule(r) : Covers(p, addr)) <=>
                    (r.ranges = {} \/ \E t \in r.ranges : InRange(addr, t))
  BY AnySourceCovers, RangeMatches DEF Readable
<1> HIDE DEF PrefixesOfRule
<1>3. TrieOf(Read(rules)) \subseteq {Canonical(p) : p \in Prefix}
  BY <1>1, <1>2
<1>4. ASSUME NEW addr \in Addr
      PROVE  (\E p \in TrieOf(Read(rules)) : Covers(p, addr)) <=> Names(addr, rules)
  <2>1. (\E p \in TrieOf(Read(rules)) : Covers(p, addr)) <=>
          \E r \in rules : \E p \in PrefixesOfRule(r) : Covers(p, addr)
    BY <1>1
  <2> QED BY <1>2, <2>1 DEF Names
<1> QED BY <1>3, <1>4

(* A list all of whose texts can be read.                                  *)
AllReadable(cfg) == \A k \in DOMAIN cfg : \A t \in TextsOf(cfg[k]) : Parse(t) # NONE

(* Its entries have readable rules in both sections.                       *)
LEMMA EntryReadable ==
  ASSUME NEW e \in Entries, \A t \in TextsOf(e) : Parse(t) # NONE
  PROVE  Readable(UdpRulesIn(e)) /\ Readable(TcpRulesIn(e))
<1>1. /\ UdpRulesIn(e) \subseteq [ranges : SUBSET RangeText, src_port : Port \cup {NONE}]
      /\ TcpRulesIn(e) \subseteq [ranges : SUBSET RangeText, port : Port]
  BY DEF Entries, ListEntry, UdpSection, TcpSection, UdpRulesIn, TcpRulesIn
<1>2. /\ \A r \in UdpRulesIn(e) : \A t \in r.ranges : Parse(t) # NONE
      /\ \A r \in TcpRulesIn(e) : \A t \in r.ranges : Parse(t) # NONE
  BY DEF TextsOf
<1>3. ASSUME NEW Other,
             NEW r \in [ranges : SUBSET RangeText, src_port : Other]
                         \cup [ranges : SUBSET RangeText, port : Other]
      PROVE  /\ r.ranges \subseteq RangeText
             /\ [r EXCEPT !.ranges = {Parse(t) : t \in @}].ranges
                  = {Parse(t) : t \in r.ranges}
  OBVIOUS
<1> QED BY <1>1, <1>2, <1>3 DEF Readable

(* What the tries of a readable list hold, and what they match.            *)
LEMMA TriesMatch ==
  ASSUME NEW cfg \in Lists, AllReadable(cfg), NEW i \in Ifaces
  PROVE  LET mine == {k \in DOMAIN cfg : cfg[k].name = i}
         IN  /\ TrieOf(UdpRulesOf(cfg, i)) \subseteq {Canonical(p) : p \in Prefix}
             /\ TrieOf(TcpRulesOf(cfg, i)) \subseteq {Canonical(p) : p \in Prefix}
             /\ \A addr \in Addr :
                  /\ (\E p \in TrieOf(UdpRulesOf(cfg, i)) : Covers(p, addr))
                       <=> \E k \in mine : Names(addr, UdpRulesIn(cfg[k]))
                  /\ (\E p \in TrieOf(TcpRulesOf(cfg, i)) : Covers(p, addr))
                       <=> \E k \in mine : Names(addr, TcpRulesIn(cfg[k]))
<1> DEFINE mine == {k \in DOMAIN cfg : cfg[k].name = i}
<1>1. \A k \in DOMAIN cfg : cfg[k] \in Entries /\ \A t \in TextsOf(cfg[k]) : Parse(t) # NONE
  BY DEF Lists, AllReadable
<1>2. \A k \in mine : Readable(UdpRulesIn(cfg[k])) /\ Readable(TcpRulesIn(cfg[k]))
  BY <1>1, EntryReadable
<1>3. \A p : p \in TrieOf(UdpRulesOf(cfg, i)) <=>
               \E k \in mine : p \in TrieOf(Read(UdpRulesIn(cfg[k])))
  <2>1. UdpRulesOf(cfg, i) = UNION {Read(UdpRulesIn(cfg[k])) : k \in mine}
    BY DEF UdpRulesOf, WithUdpOf, UdpRulesIn, Read
  <2> QED BY <2>1 DEF TrieOf
<1>4. \A p : p \in TrieOf(TcpRulesOf(cfg, i)) <=>
               \E k \in mine : p \in TrieOf(Read(TcpRulesIn(cfg[k])))
  <2>1. TcpRulesOf(cfg, i) = UNION {Read(TcpRulesIn(cfg[k])) : k \in mine}
    BY DEF TcpRulesOf, WithTcpOf, TcpRulesIn, Read
  <2> QED BY <2>1 DEF TrieOf
<1>5. \A k \in mine :
        /\ TrieOf(Read(UdpRulesIn(cfg[k]))) \subseteq {Canonical(p) : p \in Prefix}
        /\ TrieOf(Read(TcpRulesIn(cfg[k]))) \subseteq {Canonical(p) : p \in Prefix}
  BY <1>2, TrieMatches
<1>6. \A k \in mine : \A addr \in Addr :
        /\ (\E p \in TrieOf(Read(UdpRulesIn(cfg[k]))) : Covers(p, addr))
             <=> Names(addr, UdpRulesIn(cfg[k]))
        /\ (\E p \in TrieOf(Read(TcpRulesIn(cfg[k]))) : Covers(p, addr))
             <=> Names(addr, TcpRulesIn(cfg[k]))
  BY <1>2, TrieMatches
<1> HIDE DEF mine
<1>7. /\ TrieOf(UdpRulesOf(cfg, i)) \subseteq {Canonical(p) : p \in Prefix}
      /\ TrieOf(TcpRulesOf(cfg, i)) \subseteq {Canonical(p) : p \in Prefix}
  BY <1>3, <1>4, <1>5
<1>8. ASSUME NEW addr \in Addr
      PROVE  /\ (\E p \in TrieOf(UdpRulesOf(cfg, i)) : Covers(p, addr))
                  <=> \E k \in mine : Names(addr, UdpRulesIn(cfg[k]))
             /\ (\E p \in TrieOf(TcpRulesOf(cfg, i)) : Covers(p, addr))
                  <=> \E k \in mine : Names(addr, TcpRulesIn(cfg[k]))
  BY <1>3, <1>4, <1>6
<1> QED BY <1>7, <1>8 DEF mine

-----------------------------------------------------------------------------
(* The invariant *)

(* What is stored can be read, and the tries are those it compiles to.     *)
Inv ==
  /\ present \subseteq Ifaces
  /\ tries \in [Protocols -> [Ifaces -> SUBSET {Canonical(p) : p \in Prefix}]]
  /\ stored # NONE => /\ stored \in Lists
                      /\ AllReadable(stored)
                      /\ tries = TriesOf(stored)
                      /\ Length(stored) <= CFG_BLOB_LEN

(* What is read back is always a list.                                     *)
LEMMA ReadConfigType ==
  ASSUME Inv
  PROVE  ReadConfig \in Lists
BY DEF Inv, ReadConfig, Lists

(* Nothing is stored and no trie holds anything at first.                  *)
LEMMA InitInv == Init => Inv
BY DEF Init, Inv, NoTries

(* apply stores what it could expand, and purge leaves nothing.            *)
LEMMA NextInv == Inv /\ [Next]_vars => Inv'
<1> SUFFICES ASSUME Inv, [Next]_vars PROVE Inv'
  OBVIOUS
<1>1. ASSUME NEW file \in Files, Apply(file) PROVE Inv'
  <2> DEFINE merged == MergeList(file, ReadConfig)
  <2>1. merged \in Lists
    BY FilesAreLists, ReadConfigType, MergeShape
  <2>2. /\ stored' = merged /\ tries' = TriesOf(merged) /\ present' = present
        /\ Populates(merged)
    BY <1>1 DEF Apply
  <2> HIDE DEF merged
  <2>3. AllReadable(merged) /\ Length(merged) <= CFG_BLOB_LEN
    BY <2>2 DEF Populates, AllReadable
  <2>4. \A i \in Ifaces :
          /\ TrieOf(UdpRulesOf(merged, i)) \subseteq {Canonical(p) : p \in Prefix}
          /\ TrieOf(TcpRulesOf(merged, i)) \subseteq {Canonical(p) : p \in Prefix}
    BY <2>1, <2>3, TriesMatch
  <2>5. tries' \in [Protocols -> [Ifaces -> SUBSET {Canonical(p) : p \in Prefix}]]
    BY <2>2, <2>4 DEF TriesOf
  <2> QED BY <2>1, <2>2, <2>3, <2>5 DEF Inv
<1>2. ASSUME Purge PROVE Inv'
  BY <1>2 DEF Inv, Purge, NoTries
<1>3. ASSUME NEW i \in Ifaces, Unplug(i) \/ Plug(i) PROVE Inv'
  BY <1>3 DEF Inv, Unplug, Plug
<1>4. ASSUME UNCHANGED vars PROVE Inv'
  BY <1>4 DEF Inv, vars
<1> QED BY <1>1, <1>2, <1>3, <1>4 DEF Next

(* The invariant holds in every reachable state.                           *)
THEOREM Invariant == Spec => []Inv
<1>1. QED BY InitInv, NextInv, PTL DEF Spec

-----------------------------------------------------------------------------
(* The properties of ConfigFile *)

(* Only interfaces are named in what is stored, and every trie holds       *)
(* canonical prefixes, as the XDP program's exact lookups require.         *)
THEOREM TypeCorrect == Spec => []TypeOK
<1>1. Inv => TypeOK
  <2> SUFFICES ASSUME Inv PROVE TypeOK
    OBVIOUS
  <2>1. ASSUME stored # NONE, NEW k \in DOMAIN stored PROVE stored[k].name \in Ifaces
    <3>1. stored \in Seq(Entries)
      BY <2>1 DEF Inv, Lists
    <3>2. stored[k] \in ListEntry
      BY <3>1 DEF Entries
    <3> QED BY <3>2 DEF ListEntry
  <2> QED BY <2>1 DEF Inv, TypeOK
<1> QED BY <1>1, Invariant, PTL

(* What show prints is in force: a trie of an interface matches an address *)
(* exactly when a stored rule of the interface names it.  Through          *)
(* Ipv4Cidr::parse, Ipv4Cidr::new, the collection of the rules of all      *)
(* entries of an interface and the exact lookups.                          *)
THEOREM RangesMatch == Spec => []ShownRangesMatch
<1>1. Inv => ShownRangesMatch
  <2> SUFFICES ASSUME Inv, stored # NONE, NEW i \in Ifaces, NEW addr \in Addr
               PROVE  LET mine == {k \in DOMAIN stored : stored[k].name = i}
                      IN  /\ (\E p \in tries["udp"][i] : Covers(p, addr))
                               <=> \E k \in mine : Names(addr, UdpRulesIn(stored[k]))
                          /\ (\E p \in tries["tcp"][i] : Covers(p, addr))
                               <=> \E k \in mine : Names(addr, TcpRulesIn(stored[k]))
    BY DEF ShownRangesMatch
  <2>1. stored \in Lists /\ AllReadable(stored) /\ tries = TriesOf(stored)
    BY DEF Inv
  <2>2. /\ tries["udp"][i] = TrieOf(UdpRulesOf(stored, i))
        /\ tries["tcp"][i] = TrieOf(TcpRulesOf(stored, i))
    BY <2>1 DEF TriesOf, Protocols
  <2> QED BY <2>1, <2>2, TriesMatch
<1> QED BY <1>1, Invariant, PTL

(* An apply that fails over a range text fails over one of its own file.   *)
THEOREM OwnText == Spec => []BadTextIsTheFilesOwn
<1>1. Inv => BadTextIsTheFilesOwn
  <2> SUFFICES ASSUME Inv, NEW file \in Files,
                      NEW k \in DOMAIN MergeList(file, ReadConfig),
                      NEW t \in TextsOf(MergeList(file, ReadConfig)[k]),
                      Parse(t) = NONE
               PROVE  \E j \in DOMAIN file : t \in TextsOf(file[j])
    BY DEF BadTextIsTheFilesOwn
  <2>1. ReadConfig \in Lists /\ file \in Lists
    BY ReadConfigType, FilesAreLists
  <2>2. /\ MergeList(file, ReadConfig) \in Lists
        /\ SectionsFrom(MergeList(file, ReadConfig), file, ReadConfig)
    BY <2>1, MergeShape, MergeSections
  <2>3. k \in 1 .. Len(MergeList(file, ReadConfig))
    BY <2>2 DEF Lists
  <2>4. \/ \E j \in 1 .. Len(file) : t \in TextsOf(file[j])
        \/ \E j \in 1 .. Len(ReadConfig) : t \in TextsOf(ReadConfig[j])
    BY <2>2, <2>3, SectionTexts
  <2>5. \A j \in 1 .. Len(ReadConfig) : t \notin TextsOf(ReadConfig[j])
    <3>1. CASE stored = NONE
      BY <3>1 DEF ReadConfig
    <3>2. CASE stored # NONE
      <4>1. stored \in Lists /\ AllReadable(stored) /\ ReadConfig = stored
        BY <3>2 DEF Inv, ReadConfig
      <4>2. DOMAIN stored = 1 .. Len(stored)
        BY <4>1 DEF Lists
      <4> QED BY <4>1, <4>2 DEF AllReadable
    <3> QED BY <3>1, <3>2
  <2>6. DOMAIN file = 1 .. Len(file)
    BY <2>1 DEF Lists
  <2> QED BY <2>4, <2>5, <2>6
<1> QED BY <1>1, Invariant, PTL

(* EfenseConfig::merge does what its comment promises, section by section, *)
(* as long as nothing is named twice.                                      *)
THEOREM PerSection == Spec => []MergeIsPerSection
<1>1. Inv => MergeIsPerSection
  BY ReadConfigType, FilesAreLists, MergePerSection DEF MergeIsPerSection
<1> QED BY <1>1, Invariant, PTL

(* The merge keeps the order of the file, then that of what was in force,  *)
(* and forgets no interface.                                               *)
THEOREM Order == Spec => []MergeKeepsOrder
<1>1. Inv => MergeKeepsOrder
  <2> SUFFICES ASSUME Inv PROVE MergeKeepsOrder
    OBVIOUS
  <2>1. ReadConfig \in Lists /\ Files \subseteq Lists
    BY ReadConfigType, FilesAreLists
  <2> QED BY <2>1, MergeOrdered DEF MergeKeepsOrder
<1> QED BY <1>1, Invariant, PTL

(* Applying a file once more changes nothing that is in force.             *)
THEOREM Reapply == Spec => []ReapplyChangesNothing
<1>1. Inv => ReapplyChangesNothing
  <2> SUFFICES ASSUME Inv, NEW file \in Files
               PROVE  LET once == MergeList(file, ReadConfig)
                      IN  Meaning(MergeList(file, once)) = Meaning(once)
    BY DEF ReapplyChangesNothing
  <2>1. ReadConfig \in Lists /\ file \in Lists
    BY ReadConfigType, FilesAreLists
  <2>2. /\ MergeList(file, ReadConfig) \in Lists
        /\ Heads(MergeList(file, ReadConfig), file)
    BY <2>1, MergeShape
  <2> QED BY <2>1, <2>2, RemergeMeansSame
<1> QED BY <1>1, Invariant, PTL

(* A retry of an apply that succeeds, succeeds: the same list is made,     *)
(* or, of a file that names an interface twice, one that means the same    *)
(* and lacks nothing but room.                                             *)
THEOREM Retry == Spec => []RetryIsAccepted
<1>1. Inv => RetryIsAccepted
  <2> SUFFICES ASSUME Inv, NEW file \in Files
               PROVE  LET once  == MergeList(file, ReadConfig)
                          again == MergeList(file, once)
                      IN  /\ NamedOnce(file) => again = once
                          /\ Populates(once) =>
                               \/ Populates(again)
                               \/ ~(Length(again) <= CFG_BLOB_LEN)
    BY DEF RetryIsAccepted
  <2> DEFINE once  == MergeList(file, ReadConfig)
             again == MergeList(file, once)
  <2>1. ReadConfig \in Lists /\ file \in Lists
    BY ReadConfigType, FilesAreLists
  <2>2. once \in Lists /\ Heads(once, file)
    BY <2>1, MergeShape
  <2>3. again \in Lists /\ Filled(again, once) /\ Meaning(again) = Meaning(once)
    BY <2>1, <2>2, RemergeFills, RemergeMeansSame
  <2> HIDE DEF once, again
  <2>4. NamedOnce(file) => again = once
    BY <2>1, <2>2, <2>3, HeadsNamedOnce, FilledOnceIsSame
  <2>5. ASSUME Populates(once), Length(again) <= CFG_BLOB_LEN
        PROVE  Populates(again)
    <3>1. /\ DOMAIN again = 1 .. Len(again) /\ DOMAIN once = 1 .. Len(once)
          /\ Len(again) = Len(once)
      BY <2>2, <2>3 DEF Lists, Filled
    <3>2. \A k \in DOMAIN again : \A t \in TextsOf(again[k]) : Parse(t) # NONE
      <4>1. SectionsFrom(again, once, once)
        BY <2>2, <2>3, FilledSections
      <4>2. ASSUME NEW k \in 1 .. Len(again), NEW t \in TextsOf(again[k])
            PROVE  \E j \in 1 .. Len(once) : t \in TextsOf(once[j])
        BY <4>1, SectionTexts
      <4> QED BY <2>5, <3>1, <4>2 DEF Populates
    <3>3. \A k \in DOMAIN again : again[k].name \in present
      BY <2>3, <2>5, <3>1 DEF Populates, Filled
    <3>4. Fits(Meaning(again))
      BY <2>3, <2>5 DEF Populates
    <3> QED BY <2>5, <3>2, <3>3, <3>4 DEF Populates
  <2> QED BY <2>4, <2>5 DEF once, again
<1> QED BY <1>1, Invariant, PTL

(* What show prints is a backup: applied, it restores what is in force.    *)
THEOREM ShownApplies == Spec => []ShownCanBeApplied
<1>1. Inv => ShownCanBeApplied
  <2> SUFFICES ASSUME Inv PROVE ShownCanBeApplied
    OBVIOUS
  <2>1. ReadConfig \in Lists
    BY ReadConfigType
  <2>2. Heads(ReadConfig, ReadConfig)
    BY <2>1 DEF Heads, Extends, Lists
  <2> QED BY <2>1, <2>2, RemergeMeansSame DEF ShownCanBeApplied
<1> QED BY <1>1, Invariant, PTL
=============================================================================
