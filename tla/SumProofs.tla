------------------------------ MODULE SumProofs ------------------------------
(* Lemmas about sums over a sequence, for the proofs about bytes in buffers   *)
(* and about the sizes of texts.  What holds of every length is shown by the  *)
(* least length for which it does not.                                        *)
EXTENDS Sums, WellFoundedInduction, SequenceTheorems, TLAPS

\* Any natural numbers have a least one.
LEMMA WellOrdered ==
  ASSUME NEW S, S \subseteq Nat, S # {}
  PROVE  \E x \in S : \A y \in S : x <= y
<1> DEFINE below == {ss \in Nat \X Nat : ss[1] < ss[2]}
<1>1. IsWellFoundedOn(below, Nat)
  BY NatLessThanWellFounded, Zenon DEF OpToRel
<1>2. PICK x \in S : \A y \in S : ~ (<<y, x>> \in below)
  <2> HIDE DEF below
  <2>1. QED
    BY <1>1, WFMin
<1>3. \A y \in S : x \in Nat /\ y \in Nat /\ ~ (y < x)
  BY <1>2
<1>4. QED
  BY <1>3

(* Sums.                                                                     *)

\* A function adds up a sequence.
AddsUp(f, s) ==
  /\ f \in [0 .. Len(s) -> Int] /\ f[0] = 0
  /\ \A i \in 1 .. Len(s) : f[i] = f[i - 1] + s[i]

\* Two functions that add up the same sequence are the same.
LEMMA AddsUpOnce ==
  ASSUME NEW s \in Seq(Int), NEW f, NEW g, AddsUp(f, s), AddsUp(g, s)
  PROVE  f = g
<1> DEFINE S == {i \in 0 .. Len(s) : f[i] # g[i]}
<1>1. Len(s) \in Nat
  OBVIOUS
<1>2. S = {}
  <2> SUFFICES ASSUME S # {} PROVE FALSE
    OBVIOUS
  <2>1. S \subseteq Nat
    BY <1>1
  <2>2. PICK x \in S : \A y \in S : x <= y
    BY <2>1, WellOrdered
  <2>3. x \in 0 .. Len(s) /\ f[x] # g[x]
    OBVIOUS
  <2>4. x # 0
    BY <2>3 DEF AddsUp
  <2>5. x \in 1 .. Len(s) /\ x - 1 \in 0 .. Len(s) /\ x - 1 < x
    BY <1>1, <2>3, <2>4
  <2>6. x - 1 \notin S
    BY <1>1, <2>2, <2>5
  <2>7. f[x - 1] = g[x - 1]
    BY <2>5, <2>6
  <2>8. QED
    BY <2>3, <2>5, <2>7 DEF AddsUp
<1>3. \A i \in 0 .. Len(s) : f[i] = g[i]
  BY <1>2
<1>4. QED
  BY <1>3 DEF AddsUp

\* The first n of a sequence.
AddsUpTo(f, s, n) ==
  /\ f \in [0 .. n -> Int] /\ f[0] = 0
  /\ \A i \in 1 .. n : f[i] = f[i - 1] + s[i]

LEMMA AddedUp ==
  ASSUME NEW s \in Seq(Int)
  PROVE  \E f : AddsUp(f, s)
<1> DEFINE S == {n \in 0 .. Len(s) : ~ \E f : AddsUpTo(f, s, n)}
<1>1. Len(s) \in Nat /\ \A i \in 1 .. Len(s) : s[i] \in Int
  OBVIOUS
<1>2. S = {}
  <2> SUFFICES ASSUME S # {} PROVE FALSE
    OBVIOUS
  <2>1. S \subseteq Nat
    BY <1>1
  <2>2. PICK n \in S : \A y \in S : n <= y
    BY <2>1, WellOrdered
  <2>3. n \in 0 .. Len(s) /\ ~ \E f : AddsUpTo(f, s, n)
    OBVIOUS
  <2>4. n # 0
    <3> DEFINE zero == [i \in 0 .. 0 |-> 0]
    <3>1. AddsUpTo(zero, s, 0)
      BY DEF AddsUpTo
    <3>2. QED
      BY <2>3, <3>1
  <2>5. n \in 1 .. Len(s) /\ n - 1 \in 0 .. Len(s) /\ n - 1 < n
    BY <1>1, <2>3, <2>4
  <2>6. n - 1 \notin S
    BY <1>1, <2>2, <2>5, SMTT(30)
  <2>7. PICK f : AddsUpTo(f, s, n - 1)
    BY <2>5, <2>6
  <2> DEFINE g == [i \in 0 .. n |-> IF i = n THEN f[n - 1] + s[n] ELSE f[i]]
  <2>8. AddsUpTo(g, s, n)
    <3>1. \A i \in 0 .. n - 1 : g[i] = f[i] /\ f[i] \in Int
      BY <2>5, <2>7 DEF AddsUpTo
    <3>2. g[n] = f[n - 1] + s[n] /\ g[n] \in Int
      BY <1>1, <2>5, <2>7 DEF AddsUpTo
    <3>3. \A i \in 1 .. n - 1 : f[i] = f[i - 1] + s[i]
      BY <2>7 DEF AddsUpTo
    <3> HIDE DEF g
    <3>4. \A i \in 1 .. n : g[i] = g[i - 1] + s[i]
      <4> SUFFICES ASSUME NEW i \in 1 .. n PROVE g[i] = g[i - 1] + s[i]
        OBVIOUS
      <4>1. CASE i = n
        <5>1. g[n - 1] = f[n - 1]
          BY <2>5, <3>1
        <5>2. QED
          BY <3>2, <4>1, <5>1
      <4>2. CASE i # n
        <5>1. i \in 1 .. n - 1 /\ i \in 0 .. n - 1 /\ i - 1 \in 0 .. n - 1
          BY <2>5, <4>2
        <5>2. QED
          BY <3>1, <3>3, <5>1
      <4>3. QED
        BY <4>1, <4>2
    <3>5. g \in [0 .. n -> Int] /\ g[0] = 0
      <4>1. \A i \in 0 .. n : g[i] \in Int
        <5> SUFFICES ASSUME NEW i \in 0 .. n PROVE g[i] \in Int
          OBVIOUS
        <5>1. i = n \/ i \in 0 .. n - 1
          BY <2>5
        <5>2. QED
          BY <3>1, <3>2, <5>1
      <4>2. 0 \in 0 .. n - 1 /\ f[0] = 0
        BY <2>5, <2>7 DEF AddsUpTo
      <4>3. g[0] = 0
        BY <3>1, <4>2
      <4>4. g \in [0 .. n -> Int]
        BY <4>1 DEF g
      <4>5. QED
        BY <4>3, <4>4
    <3>6. QED
      BY <3>4, <3>5 DEF AddsUpTo
  <2>9. QED
    BY <2>3, <2>8
<1>3. Len(s) \in 0 .. Len(s) /\ Len(s) \notin S
  BY <1>1, <1>2
<1>4. QED
  BY <1>3 DEF AddsUp, AddsUpTo

\* The partial sums of a sequence.
LEMMA SumsAddUp ==
  ASSUME NEW s \in Seq(Int)
  PROVE  AddsUp(SumsOf(s), s)
<1>1. PICK f : AddsUp(f, s)
  BY AddedUp
<1>2. f = [i \in 0 .. Len(s) |-> IF i = 0 THEN 0 ELSE f[i - 1] + s[i]]
  <2>1. f \in [0 .. Len(s) -> Int] /\ \A i \in 0 .. Len(s) : f[i] = IF i = 0 THEN 0 ELSE f[i - 1] + s[i]
    BY <1>1 DEF AddsUp
  <2>2. QED
    BY <2>1
<1> DEFINE g == CHOOSE h : h = [i \in 0 .. Len(s) |-> IF i = 0 THEN 0 ELSE h[i - 1] + s[i]]
<1>3. g = [i \in 0 .. Len(s) |-> IF i = 0 THEN 0 ELSE g[i - 1] + s[i]]
  BY <1>2, Zenon
<1>4. SumsOf(s) = g
  BY Zenon DEF SumsOf
<1> HIDE DEF g
<1>5. Len(s) \in Nat /\ \A i \in 1 .. Len(s) : s[i] \in Int
  OBVIOUS
<1>6. DOMAIN g = 0 .. Len(s) /\ \A i \in 0 .. Len(s) : g[i] = IF i = 0 THEN 0 ELSE g[i - 1] + s[i]
  BY <1>3
<1> DEFINE S == {i \in 0 .. Len(s) : g[i] # f[i]}
<1>7. S = {}
  <2> SUFFICES ASSUME S # {} PROVE FALSE
    OBVIOUS
  <2>1. S \subseteq Nat
    BY <1>5
  <2>2. PICK x \in S : \A y \in S : x <= y
    BY <2>1, WellOrdered
  <2>3. x \in 0 .. Len(s) /\ g[x] # f[x]
    OBVIOUS
  <2>4. x # 0
    BY <1>6, <2>3, <1>1 DEF AddsUp
  <2>5. x \in 1 .. Len(s) /\ x - 1 \in 0 .. Len(s) /\ x - 1 < x
    BY <1>5, <2>3, <2>4
  <2>6. x - 1 \notin S
    BY <1>5, <2>2, <2>5
  <2>7. g[x - 1] = f[x - 1]
    BY <2>5, <2>6
  <2>8. g[x] = g[x - 1] + s[x]
    BY <1>6, <2>3, <2>4
  <2>9. QED
    BY <1>1, <2>3, <2>5, <2>7, <2>8 DEF AddsUp
<1>8. g = f
  <2>1. DOMAIN f = 0 .. Len(s) /\ \A i \in 0 .. Len(s) : g[i] = f[i]
    BY <1>1, <1>7 DEF AddsUp
  <2>2. g = [i \in 0 .. Len(s) |-> g[i]] /\ f = [i \in 0 .. Len(s) |-> f[i]]
    <3>1. g = [i \in DOMAIN g |-> g[i]]
      BY <1>3
    <3>2. QED
      BY <1>1, <1>6, <2>1, <3>1 DEF AddsUp
  <2>3. QED
    BY <2>1, <2>2
<1>9. QED
  BY <1>1, <1>4, <1>8

\* What adds up a sequence is its partial sums.
LEMMA SumsOfUnique ==
  ASSUME NEW s \in Seq(Int), NEW f, AddsUp(f, s)
  PROVE  SumsOf(s) = f /\ SumOf(s) = f[Len(s)]
<1>1. AddsUp(SumsOf(s), s)
  BY SumsAddUp
<1>2. SumsOf(s) = f
  BY <1>1, AddsUpOnce
<1>3. QED
  BY <1>2 DEF SumOf

\* The sums of lengths grow.
LEMMA SumsGrow ==
  ASSUME NEW s \in Seq(Nat), NEW i \in 0 .. Len(s), NEW j \in 0 .. Len(s), i <= j
  PROVE  SumsOf(s)[i] <= SumsOf(s)[j] /\ SumsOf(s)[i] \in Nat
<1> DEFINE f == SumsOf(s)
<1>0. s \in Seq(Int) /\ Len(s) \in Nat /\ \A k \in 1 .. Len(s) : s[k] \in Nat
  OBVIOUS
<1>1. AddsUp(f, s)
  BY <1>0, SumsAddUp
<1> HIDE DEF f
<1>2. /\ \A k \in 0 .. Len(s) : f[k] \in Int
      /\ \A k \in 1 .. Len(s) : f[k - 1] <= f[k]
      /\ f[0] = 0
  <2>1. \A k \in 0 .. Len(s) : f[k] \in Int
    BY <1>1 DEF AddsUp
  <2>2. ASSUME NEW k \in 1 .. Len(s) PROVE f[k - 1] <= f[k]
    <3>1. k - 1 \in 0 .. Len(s) /\ k \in 0 .. Len(s)
      BY <1>0
    <3>2. f[k] = f[k - 1] + s[k] /\ s[k] \in Nat /\ f[k - 1] \in Int
      BY <1>0, <1>1, <2>1, <3>1 DEF AddsUp
    <3>3. QED
      BY <3>2
  <2>3. QED
    BY <1>1, <2>1, <2>2 DEF AddsUp
<1>3. ASSUME NEW a \in 0 .. Len(s)
      PROVE  \A k \in 0 .. Len(s) : a <= k => f[a] <= f[k]
  <2> DEFINE S == {k \in 0 .. Len(s) : a <= k /\ ~ (f[a] <= f[k])}
  <2> SUFFICES ASSUME S # {} PROVE FALSE
    OBVIOUS
  <2>1. S \subseteq Nat
    BY <1>0
  <2>2. PICK x \in S : \A y \in S : x <= y
    BY <2>1, WellOrdered
  <2>3. x \in 0 .. Len(s) /\ a <= x /\ ~ (f[a] <= f[x])
    OBVIOUS
  <2>4. a # x
    BY <1>2, <2>3
  <2>5. x \in 1 .. Len(s) /\ x - 1 \in 0 .. Len(s) /\ x - 1 < x /\ a <= x - 1
    BY <1>0, <2>3, <2>4
  <2>6. x - 1 \notin S
    BY <1>0, <2>2, <2>5
  <2>7. f[a] <= f[x - 1]
    BY <2>5, <2>6
  <2>8. f[x - 1] <= f[x] /\ f[a] \in Int /\ f[x] \in Int /\ f[x - 1] \in Int
    BY <1>2, <2>3, <2>5
  <2>9. QED
    BY <2>3, <2>7, <2>8
<1>4. f[i] <= f[j]
  BY <1>3
<1>5. f[0] <= f[i] /\ f[i] \in Int
  BY <1>0, <1>2, <1>3
<1>6. QED
  BY <1>2, <1>4, <1>5 DEF f
=============================================================================
