---------------------------- MODULE LoopTheorems -----------------------------
(***************************************************************************)
(* Induction over numbers, and what it gives the proofs of this project:   *)
(* that a function defined by recursion exists, and so computes what its   *)
(* definition says, and the laws of quotients and remainders.              *)
(*                                                                         *)
(* What is proved by induction is the membership of numbers in a set.      *)
(* NaturalsInduction has it for a predicate, which is an operator.         *)
(***************************************************************************)
EXTENDS Integers, TLAPS, WellFoundedInduction

-----------------------------------------------------------------------------
(* Induction and recursion *)

(* A set of natural numbers has a smallest element.                        *)
LEMMA SmallestElement ==
  ASSUME NEW T \in SUBSET Nat, T # {}
  PROVE  \E x \in T : \A y \in T : x <= y
<1>1. \E x \in T : \A y \in T : <<y, x>> \notin OpToRel(<, Nat)
  BY NatLessThanWellFounded, WFMin
<1>2. \A x, y \in Nat : <<y, x>> \notin OpToRel(<, Nat) => x <= y
  BY DEF OpToRel
<1> QED BY <1>1, <1>2

(* A bounded one has a largest.                                            *)
LEMMA LargestElement ==
  ASSUME NEW n \in Nat, NEW T \in SUBSET (0 .. n), T # {}
  PROVE  \E x \in T : \A y \in T : y <= x
<1> DEFINE U == {n - x : x \in T}
<1>1. \A x \in T : n - x \in Nat
  OBVIOUS
<1>2. U \in SUBSET Nat /\ U # {}
  BY <1>1
<1>3. PICK u \in U : \A v \in U : u <= v
  BY <1>2, SmallestElement
<1> QED BY <1>3

(* What holds of 0, and of every successor of a number it holds of.        *)
LEMMA SetInduction ==
  ASSUME NEW S, 0 \in S, \A n \in Nat : n \in S => n + 1 \in S
  PROVE  Nat \subseteq S
<1> SUFFICES ASSUME Nat \ S # {} PROVE FALSE
  OBVIOUS
<1>1. PICK x \in Nat \ S : \A y \in Nat \ S : x <= y
  BY SmallestElement
<1>2. x - 1 \in Nat /\ ~(x <= x - 1)
  OBVIOUS
<1>3. x - 1 \in S
  BY <1>1, <1>2
<1> QED BY <1>2, <1>3

(* The same up to a bound, as a loop needs it.                             *)
LEMMA LoopInduction ==
  ASSUME NEW n \in Nat, NEW S, 0 \in S,
         \A k \in 0 .. n - 1 : k \in S => k + 1 \in S
  PROVE  0 .. n \subseteq S
<1> DEFINE T == {k \in Nat : k <= n => k \in S}
<1>1. 0 \in T /\ \A k \in Nat : k \in T => k + 1 \in T
  OBVIOUS
<1> HIDE DEF T
<1>2. Nat \subseteq T
  BY <1>1, SetInduction
<1> QED BY <1>2 DEF T

(* f starts at s and goes on by the steps of G.                            *)
Follows(f, s, G) == f[0] = s /\ \A n \in Nat : f[n + 1] = G[n + 1][f[n]]

(* A value, and a step for each number, determine a function.              *)
LEMMA Recursion ==
  ASSUME NEW S, NEW s \in S, NEW G \in [Nat -> [S -> S]]
  PROVE  \E f \in [Nat -> S] : Follows(f, s, G)
<1> DEFINE Upto(n) == {g \in [0 .. n -> S] :
              g[0] = s /\ \A k \in 0 .. n - 1 : g[k + 1] = G[k + 1][g[k]]}
           Has == {n \in Nat : Upto(n) # {}}
<1>1. 0 \in Has
  <2> DEFINE g == [k \in 0 .. 0 |-> s]
  <2>1. g \in Upto(0)
    OBVIOUS
  <2> QED BY <2>1
<1>2. ASSUME NEW n \in Nat, n \in Has PROVE n + 1 \in Has
  <2>1. PICK g \in Upto(n) : TRUE
    BY <1>2
  <2> DEFINE h == [k \in 0 .. n + 1 |->
                     IF k = n + 1 THEN G[n + 1][g[n]] ELSE g[k]]
  <2>2. h \in [0 .. n + 1 -> S]
    BY <2>1
  <2>3. h[0] = s
    BY <2>1
  <2>4. ASSUME NEW k \in 0 .. n PROVE h[k + 1] = G[k + 1][h[k]]
    <3>1. CASE k = n
      <4>1. n \in 0 .. n + 1 /\ n + 1 \in 0 .. n + 1 /\ n # n + 1
        OBVIOUS
      <4>2. h[n] = g[n] /\ h[n + 1] = G[n + 1][g[n]]
        BY <4>1
      <4> QED BY <3>1, <4>2
    <3>2. CASE k # n
      <4>1. k \in 0 .. n - 1 /\ k + 1 \in 0 .. n
        BY <3>2
      <4>2. h[k] = g[k] /\ h[k + 1] = g[k + 1]
        BY <4>1
      <4> QED BY <2>1, <4>1, <4>2
    <3> QED BY <3>1, <3>2
  <2> HIDE DEF h
  <2>5. h \in Upto(n + 1)
    <3>1. (n + 1) - 1 = n
      OBVIOUS
    <3> QED BY <2>2, <2>3, <2>4, <3>1
  <2> QED BY <2>5
<1>3. \A n \in Nat : Upto(n) # {}
  <2> HIDE DEF Has
  <2>1. Nat \subseteq Has
    BY <1>1, <1>2, SetInduction
  <2> QED BY <2>1 DEF Has
<1>4. ASSUME NEW n \in Nat, NEW m \in n .. n + 1,
             NEW g \in Upto(n), NEW h \in Upto(m)
      PROVE  g[n] = h[n]
  <2> DEFINE Same == {k \in 0 .. n : g[k] = h[k]}
  <2>1. 0 \in Same
    OBVIOUS
  <2>2. ASSUME NEW k \in 0 .. n - 1, k \in Same PROVE k + 1 \in Same
    <3>1. k \in 0 .. m - 1 /\ k + 1 \in 0 .. n
      OBVIOUS
    <3>2. g[k + 1] = G[k + 1][g[k]] /\ h[k + 1] = G[k + 1][h[k]]
      BY <3>1
    <3> QED BY <2>2, <3>1, <3>2
  <2> HIDE DEF Same
  <2>3. 0 .. n \subseteq Same
    BY <2>1, <2>2, LoopInduction
  <2> QED BY <2>3 DEF Same
<1> DEFINE pick(n) == CHOOSE g \in Upto(n) : TRUE
           f == [n \in Nat |-> pick(n)[n]]
<1>5. \A n \in Nat : pick(n) \in Upto(n)
  <2> HIDE DEF Upto
  <2> QED BY <1>3
<1> HIDE DEF pick
<1>6. f \in [Nat -> S] /\ f[0] = s
  BY <1>5
<1>7. ASSUME NEW n \in Nat PROVE f[n + 1] = G[n + 1][f[n]]
  <2>1. pick(n)[n] = pick(n + 1)[n]
    <3> HIDE DEF Upto
    <3> QED BY <1>4, <1>5
  <2>2. pick(n + 1)[n + 1] = G[n + 1][pick(n + 1)[n]]
    BY <1>5
  <2> QED BY <2>1, <2>2
<1> QED BY <1>6, <1>7 DEF Follows

(* A loop of n turns that starts at s and takes the steps of G.            *)
Loops(f, s, n, G) == f = [k \in 0 .. n |-> IF k = 0 THEN s ELSE G[k][f[k - 1]]]

(* It has a run.                                                           *)
LEMMA LoopRecursion ==
  ASSUME NEW S, NEW s \in S, NEW n \in Nat, NEW G \in [1 .. n -> [S -> S]]
  PROVE  \E f \in [0 .. n -> S] : Loops(f, s, n, G)
<1> DEFINE H == [k \in Nat |-> IF k \in 1 .. n THEN G[k] ELSE [x \in S |-> x]]
<1>1. PICK h \in [Nat -> S] : Follows(h, s, H)
  <2>1. H \in [Nat -> [S -> S]]
    OBVIOUS
  <2> HIDE DEF H
  <2> QED BY <2>1, Recursion
<1> DEFINE f == [k \in 0 .. n |-> h[k]]
<1>2. f \in [0 .. n -> S] /\ f[0] = s
  BY <1>1 DEF Follows
<1>3. ASSUME NEW k \in 1 .. n PROVE f[k] = G[k][f[k - 1]]
  <2>1. k - 1 \in 0 .. n /\ k - 1 \in Nat /\ (k - 1) + 1 = k
    OBVIOUS
  <2>2. h[(k - 1) + 1] = H[(k - 1) + 1][h[k - 1]]
    <3> HIDE DEF H
    <3> QED BY <1>1, <2>1 DEF Follows
  <2>3. H[k] = G[k]
    OBVIOUS
  <2>4. f[k] = h[k] /\ f[k - 1] = h[k - 1]
    BY <2>1
  <2> HIDE DEF H, f
  <2> QED BY <2>1, <2>2, <2>3, <2>4
<1> HIDE DEF f
<1>4. f = [k \in 0 .. n |-> IF k = 0 THEN s ELSE G[k][f[k - 1]]]
  BY <1>2, <1>3
<1> QED BY <1>2, <1>4 DEF Loops

-----------------------------------------------------------------------------
(* Division *)

(* Quotient and remainder...                                               *)
LEMMA DivMod ==
  ASSUME NEW a \in Nat, NEW b \in Nat \ {0}
  PROVE  /\ a \div b \in Nat /\ a % b \in 0 .. b - 1
         /\ a = b * (a \div b) + (a % b)
OBVIOUS

(* ... are the only ones...                                                *)
LEMMA DivModUnique ==
  ASSUME NEW a \in Nat, NEW b \in Nat \ {0}, NEW q \in Nat, NEW r \in 0 .. b - 1,
         a = b * q + r
  PROVE  a \div b = q /\ a % b = r
OBVIOUS

(* ... and to divide twice is to divide by the product.                    *)
LEMMA DivDiv ==
  ASSUME NEW a \in Nat, NEW b \in Nat \ {0}, NEW c \in Nat \ {0}
  PROVE  (a \div b) \div c = a \div (b * c)
OBVIOUS

(* The remainder by a divisor of b, from the remainder by b.               *)
LEMMA ModOfDivisor ==
  ASSUME NEW t \in Nat, NEW c \in Nat \ {0}, NEW d \in Nat \ {0}
  PROVE  t % c = (t % (c * d)) % c
<1> DEFINE q == t \div (c * d)
           o == t % (c * d)
           e == o \div c
           f == o % c
<1>0. c * d \in Nat \ {0}
  OBVIOUS
<1>1. q \in Nat /\ o \in Nat /\ t = (c * d) * q + o
  <2> DEFINE b == c * d
  <2>1. b \in Nat \ {0}
    BY <1>0
  <2> HIDE DEF b
  <2>2. /\ t \div b \in Nat /\ t % b \in Nat
        /\ t = b * (t \div b) + (t % b)
    BY <2>1, DivMod
  <2> QED BY <2>2 DEF b
<1>2. e \in Nat /\ f \in 0 .. c - 1 /\ o = c * e + f
  <2> HIDE DEF o
  <2> QED BY <1>1, DivMod
<1> HIDE DEF q, o, e, f
<1>3. t = c * (d * q + e) + f
  BY <1>1, <1>2
<1>4. d * q + e \in Nat
  BY <1>1, <1>2
<1>5. t % c = f
  <2> DEFINE g == d * q + e
  <2>1. t = c * g + f /\ g \in Nat
    BY <1>3, <1>4
  <2> HIDE DEF g
  <2> QED BY <1>2, <2>1, DivModUnique
<1> QED BY <1>5 DEF f, o

(* The remainder by a multiple of b, from quotient and remainder by b.     *)
LEMMA ModOfMultiple ==
  ASSUME NEW t \in Nat, NEW b \in Nat \ {0}, NEW e \in Nat \ {0}
  PROVE  t % (b * e) = ((t \div b) % e) * b + (t % b)
<1> DEFINE q == t \div b
           o == t % b
           g == q \div e
           h == q % e
<1>1. q \in Nat /\ o \in 0 .. b - 1 /\ t = b * q + o
  BY DivMod
<1>2. g \in Nat /\ h \in 0 .. e - 1 /\ q = e * g + h
  <2> HIDE DEF q
  <2> QED BY <1>1, DivMod
<1> HIDE DEF q, o, g, h
<1> DEFINE m == b * e
           r == h * b + o
<1>3. t = m * g + r
  BY <1>1, <1>2
<1>4. m \in Nat \ {0} /\ r \in Nat
  BY <1>1, <1>2
<1>5. r < m
  <2>1. h * b <= (e - 1) * b
    BY <1>2
  <2>2. (e - 1) * b = m - b
    OBVIOUS
  <2> QED BY <1>1, <1>2, <2>1, <2>2
<1>6. r \in 0 .. m - 1
  BY <1>4, <1>5
<1> HIDE DEF m, r
<1>7. t % m = r
  BY <1>2, <1>3, <1>4, <1>6, DivModUnique
<1> QED BY <1>7 DEF m, r, h, q, o
=============================================================================
