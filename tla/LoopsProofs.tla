------------------------------ MODULE LoopsProofs ------------------------------
(***************************************************************************)
(* What the functions of Loops obey, for sequences of every length.  The   *)
(* proofs are by induction; as the provers cannot instantiate the          *)
(* library's rules of induction, which take an operator, they use UpTo,    *)
(* which is about a set and follows from the least element that is not in  *)
(* it.                                                                     *)
(***************************************************************************)
EXTENDS Loops, SequenceTheorems, FiniteSetTheorems, WellFoundedInduction, TLAPS

LEMMA LeastNumber ==
  ASSUME NEW T, T \subseteq Nat, T # {}
  PROVE  \E x \in T : \A y \in T : x <= y
<1>1. PICK x \in T : \A y \in T : ~(<<y, x>> \in OpToRel(<, Nat))
  BY NatLessThanWellFounded, WFMin
<1>2. ASSUME NEW y \in T PROVE x <= y
  <2>1. x \in Nat /\ y \in Nat
    OBVIOUS
  <2>2. ~(y < x)
    BY <1>1, <2>1 DEF OpToRel
  <2> QED BY <2>1, <2>2
<1> QED BY <1>2

(* A set has all the numbers up to k if it has 0 and, with a number below   *)
(* k, its successor.                                                        *)
LEMMA UpTo ==
  ASSUME NEW k \in Nat, NEW T, 0 \in T, \A n \in 0..(k - 1) : n \in T => n + 1 \in T
  PROVE  \A n \in 0..k : n \in T
<1> DEFINE Out == {n \in 0..k : n \notin T}
<1>1. SUFFICES ASSUME Out # {} PROVE FALSE
  OBVIOUS
<1>2. Out \subseteq Nat
  OBVIOUS
<1>3. PICK x \in Out : \A y \in Out : x <= y
  <2> HIDE DEF Out
  <2> QED BY <1>1, <1>2, LeastNumber
<1>4. x \in 0..k /\ x \notin T /\ x # 0
  BY <1>3
<1>5. x - 1 \in 0..(k - 1) /\ x - 1 \in 0..k /\ ~(x <= x - 1) /\ (x - 1) + 1 = x
  BY <1>4
<1>6. x - 1 \in T
  BY <1>3, <1>5
<1> QED BY <1>4, <1>5, <1>6

-----------------------------------------------------------------------------
AreSums(f, v, k) == f \in [0..k -> Int] /\ f[0] = 0 /\ \A n \in 1..k : f[n] = f[n - 1] + v[n]

LEMMA SumsExist ==
  ASSUME NEW v \in Seq(Int)
  PROVE  \E f : AreSums(f, v, Len(v))
<1> DEFINE T == {n \in Nat : n <= Len(v) => \E f : AreSums(f, v, n)}
<1>1. Len(v) \in Nat /\ \A n \in 1..Len(v) : v[n] \in Int
  OBVIOUS
<1>2. 0 \in T
  <2>1. AreSums([n \in 0..0 |-> 0], v, 0)
    BY DEF AreSums
  <2> QED BY <2>1
<1>3. ASSUME NEW n \in 0..(Len(v) - 1), n \in T PROVE n + 1 \in T
  <2>1. PICK f : AreSums(f, v, n)
    BY <1>1, <1>3
  <2>2. PICK g : g = [i \in 0..(n + 1) |-> IF i = n + 1 THEN f[n] + v[n + 1] ELSE f[i]]
    OBVIOUS
  <2>3. n \in Nat /\ v[n + 1] \in Int /\ f[n] \in Int
    BY <1>1, <2>1 DEF AreSums
  <2>4. g \in [0..(n + 1) -> Int]
    BY <2>1, <2>2, <2>3 DEF AreSums
  <2>5. g[0] = 0
    BY <2>1, <2>2, <2>3 DEF AreSums
  <2>6. ASSUME NEW i \in 1..(n + 1) PROVE g[i] = g[i - 1] + v[i]
    <3>1. CASE i = n + 1
      BY <2>2, <2>3, <3>1
    <3>2. CASE i # n + 1
      <4>1. i \in 1..n /\ i \in 0..(n + 1) /\ i - 1 \in 0..(n + 1) /\ i - 1 # n + 1
        BY <2>3, <3>2
      <4> QED BY <2>1, <2>2, <3>2, <4>1 DEF AreSums
    <3> QED BY <3>1, <3>2
  <2>7. AreSums(g, v, n + 1)
    BY <2>4, <2>5, <2>6 DEF AreSums
  <2> QED BY <2>3, <2>7
<1> HIDE DEF T
<1>4. \A n \in 0..Len(v) : n \in T
  BY <1>1, <1>2, <1>3, UpTo
<1> QED BY <1>1, <1>4 DEF T

(* The recursive definition defines what it says.                           *)
LEMMA SumsAre ==
  ASSUME NEW v \in Seq(Int)
  PROVE  AreSums(PartialSums(v), v, Len(v))
<1>1. PICK k : k = Len(v)
  OBVIOUS
<1>2. k \in Nat /\ \A n \in 1..k : v[n] \in Int
  BY <1>1
<1>3. PICK f : AreSums(f, v, k)
  BY <1>1, SumsExist
<1>4. f = [n \in 0..k |-> IF n = 0 THEN 0 ELSE f[n - 1] + v[n]]
  BY <1>2, <1>3 DEF AreSums
<1>5. PICK s : s = PartialSums(v)
  OBVIOUS
<1>6. s = CHOOSE g : g = [n \in 0..k |-> IF n = 0 THEN 0 ELSE g[n - 1] + v[n]]
  BY <1>1, <1>5 DEF PartialSums
<1>7. s = [n \in 0..k |-> IF n = 0 THEN 0 ELSE s[n - 1] + v[n]]
  BY <1>4, <1>6
<1> DEFINE T == {n \in Nat : s[n] \in Int}
<1>8. s[0] = 0 /\ \A n \in 1..k : s[n] = s[n - 1] + v[n]
  BY <1>2, <1>7
<1>9. 0 \in T
  BY <1>8
<1>10. ASSUME NEW n \in 0..(k - 1), n \in T PROVE n + 1 \in T
  BY <1>2, <1>8, <1>10, SMTT(30)
<1> HIDE DEF T
<1>11. \A n \in 0..k : n \in T
  BY <1>2, <1>9, <1>10, UpTo
<1>12. s \in [0..k -> Int]
  BY <1>7, <1>11 DEF T
<1> QED BY <1>1, <1>5, <1>8, <1>12 DEF AreSums

LEMMA SumOfNothing == SeqSum(<<>>) = 0
<1>1. <<>> \in Seq(Int) /\ Len(<<>>) = 0
  OBVIOUS
<1> QED BY <1>1, SumsAre DEF SeqSum, AreSums

(* One more term leaves the sums of the ones before it as they are.         *)
LEMMA SumsAppend ==
  ASSUME NEW v \in Seq(Int), NEW x \in Int
  PROVE  /\ \A n \in 0..Len(v) : PartialSums(Append(v, x))[n] = PartialSums(v)[n]
         /\ SeqSum(Append(v, x)) = SeqSum(v) + x
<1>1. PICK k, w, f, g : k = Len(v) /\ w = Append(v, x) /\ f = PartialSums(w) /\ g = PartialSums(v)
  OBVIOUS
<1>2. /\ k \in Nat /\ w \in Seq(Int) /\ Len(w) = k + 1 /\ w[k + 1] = x
      /\ \A n \in 1..k : w[n] = v[n]
  BY <1>1, AppendProperties
<1>3. AreSums(f, w, k + 1) /\ AreSums(g, v, k)
  BY <1>1, <1>2, SumsAre
<1>4. \A n \in 1..k : f[n - 1] = g[n - 1] => f[n] = g[n]
  BY <1>2, <1>3 DEF AreSums
<1>5. \A n \in 0..k : f[n] = g[n]
  <2> DEFINE T == {n \in Nat : f[n] = g[n]}
  <2>1. 0 \in T
    BY <1>3 DEF AreSums
  <2>2. \A n \in 0..(k - 1) : n \in T => n + 1 \in T
    BY <1>2, <1>4
  <2> HIDE DEF T
  <2>3. \A n \in 0..k : n \in T
    BY <1>2, <2>1, <2>2, UpTo
  <2> QED BY <2>3 DEF T
<1>6. f[k + 1] = g[k] + x
  BY <1>2, <1>3, <1>5 DEF AreSums
<1> QED BY <1>1, <1>2, <1>5, <1>6 DEF SeqSum

(* The sum of a part is the difference of two sums of the whole.            *)
LEMMA SumOfPart ==
  ASSUME NEW v \in Seq(Int), NEW n \in 0..Len(v), NEW m \in 0..n
  PROVE  SeqSum(SubSeq(v, m + 1, n)) = PartialSums(v)[n] - PartialSums(v)[m]
<1>1. PICK a, w, f : a = m + 1 /\ w = SubSeq(v, a, n) /\ f = PartialSums(v)
  OBVIOUS
<1>2. n \in Nat /\ m \in Nat /\ m <= n /\ n <= Len(v) /\ Len(v) \in Nat
  OBVIOUS
<1>3. w \in Seq(Int) /\ Len(w) = n - m /\ \A i \in 1..(n - m) : w[i] = v[m + i]
  <2>1. \A i \in a..n : v[i] \in Int
    BY <1>1, <1>2
  <2>2. a \in Int /\ n \in Int
    BY <1>1, <1>2
  <2>3. /\ w \in Seq(Int) /\ Len(w) = (IF a <= n THEN n - a + 1 ELSE 0)
        /\ \A i \in 1..(n - a + 1) : w[i] = v[a + i - 1]
    BY <1>1, <2>1, <2>2, SubSeqProperties
  <2>4. n - a + 1 = n - m /\ Len(w) = n - m
    BY <1>1, <1>2, <2>3
  <2>5. \A i \in 1..(n - m) : a + i - 1 = m + i
    BY <1>1, <1>2
  <2> QED BY <2>3, <2>4, <2>5
<1>4. PICK s : s = PartialSums(w)
  OBVIOUS
<1>5. AreSums(s, w, n - m) /\ AreSums(f, v, Len(v))
  BY <1>1, <1>3, <1>4, SumsAre
<1>6. PICK k : k = n - m
  OBVIOUS
<1>7. PICK d : d = [i \in 0..k |-> f[m + i] - f[m]]
  OBVIOUS
<1>8. /\ k \in Nat /\ m + k = n /\ 0 \in 0..k /\ k \in 0..k
      /\ \A i \in 0..k : m + i \in 0..Len(v)
  BY <1>2, <1>6
<1>9. \A i \in 0..k : f[m + i] \in Int /\ d[i] = f[m + i] - f[m] /\ f[m] \in Int
  <2>1. m \in 0..Len(v) /\ f \in [0..Len(v) -> Int]
    BY <1>2, <1>5 DEF AreSums
  <2> QED BY <1>7, <1>8, <2>1
<1>10. d[0] = s[0]
  <2>1. m + 0 = m
    BY <1>2
  <2>2. d[0] = 0
    BY <1>8, <1>9, <2>1
  <2> QED BY <1>5, <2>2 DEF AreSums
<1>11. ASSUME NEW i \in 1..k, d[i - 1] = s[i - 1] PROVE d[i] = s[i]
  <2>1. m + i \in 1..Len(v) /\ (m + i) - 1 = m + (i - 1) /\ i - 1 \in 0..k /\ i \in 0..k
    BY <1>2, <1>6
  <2>2. f[m + i] = f[m + (i - 1)] + v[m + i]
    BY <1>5, <2>1 DEF AreSums
  <2>3. s[i] = s[i - 1] + v[m + i]
    BY <1>3, <1>5, <1>6 DEF AreSums
  <2>4. v[m + i] \in Int
    BY <2>1
  <2>5. /\ d[i] = f[m + i] - f[m] /\ d[i - 1] = f[m + (i - 1)] - f[m]
        /\ f[m] \in Int /\ f[m + i] \in Int /\ f[m + (i - 1)] \in Int
    BY <1>9, <2>1
  <2> QED BY <1>11, <2>2, <2>3, <2>4, <2>5
<1>12. s[n - m] = f[n] - f[m]
  <2> DEFINE T == {i \in Nat : d[i] = s[i]}
  <2>1. 0 \in T
    BY <1>10
  <2>2. ASSUME NEW i \in 0..(k - 1), i \in T PROVE i + 1 \in T
    <3>1. i + 1 \in 1..k /\ (i + 1) - 1 = i
      BY <1>8
    <3> QED BY <1>11, <2>2, <3>1
  <2> HIDE DEF T
  <2>3. \A i \in 0..k : i \in T
    BY <1>8, <2>1, <2>2, UpTo
  <2> QED BY <1>6, <1>8, <1>9, <2>3 DEF T
<1> QED BY <1>1, <1>3, <1>4, <1>12 DEF SeqSum

(* Sums of natural numbers only grow.                                       *)
LEMMA SumsGrow ==
  ASSUME NEW v \in Seq(Nat), NEW n \in 0..Len(v), NEW m \in 0..n
  PROVE  PartialSums(v)[m] \in Nat /\ PartialSums(v)[n] \in Nat /\ PartialSums(v)[m] <= PartialSums(v)[n]
<1>1. PICK f : f = PartialSums(v)
  OBVIOUS
<1>2. v \in Seq(Int) /\ \A i \in 1..Len(v) : v[i] \in Nat
  OBVIOUS
<1>3. AreSums(f, v, Len(v)) /\ Len(v) \in Nat /\ n \in Nat /\ m \in Nat /\ m <= n /\ n <= Len(v)
  BY <1>1, <1>2, SumsAre
<1> DEFINE T == {i \in Nat : f[i] \in Nat /\ (m <= i => f[m] <= f[i])}
<1>4. 0 \in T
  BY <1>3 DEF AreSums
<1>5. ASSUME NEW i \in 0..(Len(v) - 1), i \in T PROVE i + 1 \in T
  <2>1. i + 1 \in 1..Len(v) /\ (i + 1) - 1 = i /\ v[i + 1] \in Nat /\ i \in Nat
    BY <1>2, <1>3
  <2>2. f[i + 1] = f[i] + v[i + 1]
    BY <1>3, <2>1 DEF AreSums
  <2>3. f[i + 1] \in Nat /\ f[i] <= f[i + 1]
    BY <1>5, <2>1, <2>2
  <2>4. CASE m = i + 1
    BY <2>1, <2>3, <2>4
  <2>5. CASE m # i + 1
    <3>1. m <= i + 1 => m <= i
      BY <1>3, <2>1, <2>5
    <3>2. f[m] \in Int
      <4>1. m \in 0..Len(v) /\ f \in [0..Len(v) -> Int]
        BY <1>3 DEF AreSums
      <4> QED BY <4>1
    <3> QED BY <1>5, <2>1, <2>3, <3>1, <3>2
  <2> QED BY <2>4, <2>5
<1> HIDE DEF T
<1>6. \A i \in 0..Len(v) : i \in T
  BY <1>3, <1>4, <1>5, UpTo
<1> QED BY <1>1, <1>3, <1>6 DEF T
-----------------------------------------------------------------------------
(* Picking elements. *)

ArePicks(f, s, T, k) ==
  /\ f \in [0..k -> Seq(T)] /\ f[0] = <<>>
  /\ \A n \in 1..k : f[n] = IF s[n] \in T THEN Append(f[n - 1], s[n]) ELSE f[n - 1]

LEMMA PicksExist ==
  ASSUME NEW s, NEW T, Len(s) \in Nat
  PROVE  \E f : ArePicks(f, s, T, Len(s))
<1> DEFINE A == {n \in Nat : \E f : ArePicks(f, s, T, n)}
<1>1. 0 \in A
  <2>1. ArePicks([n \in 0..0 |-> <<>>], s, T, 0)
    BY DEF ArePicks
  <2> QED BY <2>1
<1>2. ASSUME NEW n \in 0..(Len(s) - 1), n \in A PROVE n + 1 \in A
  <2>1. PICK f : ArePicks(f, s, T, n)
    BY <1>2
  <2>2. PICK x : x = IF s[n + 1] \in T THEN Append(f[n], s[n + 1]) ELSE f[n]
    OBVIOUS
  <2>3. n \in Nat /\ n \in 0..n /\ f[n] \in Seq(T)
    BY <2>1 DEF ArePicks
  <2>4. x \in Seq(T)
    BY <2>2, <2>3
  <2>5. PICK g : g = [i \in 0..(n + 1) |-> IF i = n + 1 THEN x ELSE f[i]]
    OBVIOUS
  <2>6. \A i \in 0..n : g[i] = f[i]
    BY <2>3, <2>5
  <2>7. g[n + 1] = x
    BY <2>3, <2>5
  <2>8. g \in [0..(n + 1) -> Seq(T)]
    <3>1. ASSUME NEW i \in 0..(n + 1) PROVE (IF i = n + 1 THEN x ELSE f[i]) \in Seq(T)
      <4>1. CASE i = n + 1
        BY <2>4, <4>1
      <4>2. CASE i \in 0..n
        <5>1. f[i] \in Seq(T) /\ i # n + 1
          BY <2>1, <2>3, <4>2 DEF ArePicks
        <5> QED BY <5>1
      <4> QED BY <2>3, <4>1, <4>2
    <3> QED BY <2>5, <3>1
  <2>9. ASSUME NEW i \in 1..(n + 1) PROVE g[i] = IF s[i] \in T THEN Append(g[i - 1], s[i]) ELSE g[i - 1]
    <3>1. CASE i = n + 1
      <4>1. i - 1 = n /\ g[i - 1] = f[n]
        BY <2>3, <2>6, <3>1
      <4> QED BY <2>2, <2>7, <3>1, <4>1
    <3>2. CASE i \in 1..n
      <4>1. g[i] = f[i] /\ g[i - 1] = f[i - 1]
        BY <2>3, <2>6, <3>2
      <4>2. f[i] = IF s[i] \in T THEN Append(f[i - 1], s[i]) ELSE f[i - 1]
        BY <2>1, <3>2 DEF ArePicks
      <4> QED BY <4>1, <4>2
    <3> QED BY <2>3, <3>1, <3>2
  <2>10. g[0] = <<>>
    BY <2>1, <2>3, <2>6 DEF ArePicks
  <2>11. ArePicks(g, s, T, n + 1)
    BY <2>8, <2>9, <2>10 DEF ArePicks
  <2> QED BY <2>3, <2>11
<1> HIDE DEF A
<1>3. \A n \in 0..Len(s) : n \in A
  BY <1>1, <1>2, UpTo
<1>4. Len(s) \in A
  BY <1>3
<1> QED BY <1>4 DEF A

(* The recursive definition defines what it says.                           *)
LEMMA PicksAre ==
  ASSUME NEW s, NEW T, Len(s) \in Nat
  PROVE  ArePicks(PartialPicks(s, T), s, T, Len(s))
<1>1. PICK k : k = Len(s)
  OBVIOUS
<1>2. PICK f : ArePicks(f, s, T, k)
  BY <1>1, PicksExist
<1>3. f = [n \in 0..k |-> IF n = 0 THEN <<>>
                          ELSE IF s[n] \in T THEN Append(f[n - 1], s[n]) ELSE f[n - 1]]
  <2>1. ASSUME NEW n \in 0..k
        PROVE  f[n] = IF n = 0 THEN <<>>
                      ELSE IF s[n] \in T THEN Append(f[n - 1], s[n]) ELSE f[n - 1]
    <3>1. CASE n = 0
      BY <1>2, <3>1 DEF ArePicks
    <3>2. CASE n \in 1..k
      <4>1. n # 0
        BY <1>1, <3>2
      <4>2. f[n] = IF s[n] \in T THEN Append(f[n - 1], s[n]) ELSE f[n - 1]
        BY <1>2, <3>2 DEF ArePicks
      <4> QED BY <4>1, <4>2
    <3> QED BY <1>1, <3>1, <3>2
  <2>2. f = [n \in 0..k |-> f[n]]
    BY <1>2 DEF ArePicks
  <2> QED BY <2>1, <2>2
<1>4. PICK p : p = PartialPicks(s, T)
  OBVIOUS
<1>5. p = CHOOSE g : g = [n \in 0..k |-> IF n = 0 THEN <<>>
                                         ELSE IF s[n] \in T THEN Append(g[n - 1], s[n]) ELSE g[n - 1]]
  BY <1>1, <1>4 DEF PartialPicks
<1>6. p = [n \in 0..k |-> IF n = 0 THEN <<>>
                          ELSE IF s[n] \in T THEN Append(p[n - 1], s[n]) ELSE p[n - 1]]
  BY <1>3, <1>5
<1>7. /\ p[0] = <<>> /\ DOMAIN p = 0..k /\ p = [n \in 0..k |-> p[n]]
      /\ \A n \in 1..k : p[n] = IF s[n] \in T THEN Append(p[n - 1], s[n]) ELSE p[n - 1]
  <2>1. DOMAIN p = 0..k /\ p = [n \in 0..k |-> p[n]]
    BY <1>6
  <2>2. p[0] = <<>>
    <3>1. 0 \in 0..k
      BY <1>1
    <3> QED BY <1>6, <3>1
  <2>3. ASSUME NEW n \in 1..k
        PROVE  p[n] = IF s[n] \in T THEN Append(p[n - 1], s[n]) ELSE p[n - 1]
    <3>1. n # 0 /\ n \in 0..k
      BY <1>1, <2>3
    <3>2. p[n] = IF n = 0 THEN <<>>
                 ELSE IF s[n] \in T THEN Append(p[n - 1], s[n]) ELSE p[n - 1]
      BY <1>6, <3>1
    <3> QED BY <3>1, <3>2
  <2> QED BY <2>1, <2>2, <2>3
<1> DEFINE A == {n \in Nat : p[n] \in Seq(T)}
<1>8. 0 \in A
  <2>1. <<>> \in Seq(T) /\ 0 \in Nat
    OBVIOUS
  <2> QED BY <1>7, <2>1
<1>9. ASSUME NEW n \in 0..(k - 1), n \in A PROVE n + 1 \in A
  <2>1. n + 1 \in 1..k /\ (n + 1) - 1 = n /\ n + 1 \in Nat
    BY <1>1
  <2>2. p[n] \in Seq(T)
    BY <1>9
  <2>3. p[n + 1] = IF s[n + 1] \in T THEN Append(p[n], s[n + 1]) ELSE p[n]
    BY <1>7, <2>1
  <2>4. p[n + 1] \in Seq(T)
    BY <2>2, <2>3
  <2> QED BY <2>1, <2>4
<1> HIDE DEF A
<1>10. \A n \in 0..k : n \in A
  BY <1>1, <1>8, <1>9, UpTo
<1>11. \A n \in 0..k : p[n] \in Seq(T)
  BY <1>10 DEF A
<1>12. p \in [0..k -> Seq(T)]
  BY <1>7, <1>11
<1> QED BY <1>1, <1>4, <1>7, <1>12 DEF ArePicks

LEMMA PickedTyped ==
  ASSUME NEW s, NEW T, Len(s) \in Nat
  PROVE  Picked(s, T) \in Seq(T)
<1>1. Len(s) \in 0..Len(s)
  OBVIOUS
<1> QED BY <1>1, PicksAre DEF Picked, ArePicks

LEMMA PickedNothing == ASSUME NEW T PROVE Picked(<<>>, T) = <<>>
<1>1. Len(<<>>) = 0 /\ Len(<<>>) \in Nat
  OBVIOUS
<1> QED BY <1>1, PicksAre DEF Picked, ArePicks

(* What is appended is picked last, if it is to be picked.                  *)
LEMMA PickedAppend ==
  ASSUME NEW S, NEW s \in Seq(S), NEW x \in S, NEW T
  PROVE  Picked(Append(s, x), T) = IF x \in T THEN Append(Picked(s, T), x) ELSE Picked(s, T)
<1>1. PICK k, w, f, g : k = Len(s) /\ w = Append(s, x) /\ f = PartialPicks(w, T) /\ g = PartialPicks(s, T)
  OBVIOUS
<1>2. k \in Nat /\ Len(w) = k + 1 /\ w[k + 1] = x /\ \A n \in 1..k : w[n] = s[n]
  BY <1>1, AppendProperties
<1>3. ArePicks(f, w, T, k + 1) /\ ArePicks(g, s, T, k)
  <2>1. ArePicks(PartialPicks(s, T), s, T, Len(s))
    BY <1>1, <1>2, PicksAre
  <2>2. Len(w) \in Nat
    BY <1>2
  <2>3. ArePicks(PartialPicks(w, T), w, T, Len(w))
    BY <2>2, PicksAre
  <2> QED BY <1>1, <1>2, <2>1, <2>3
<1>4. ASSUME NEW n \in 1..k, f[n - 1] = g[n - 1] PROVE f[n] = g[n]
  <2>1. n \in 1..(k + 1) /\ w[n] = s[n]
    BY <1>2
  <2>2. f[n] = IF s[n] \in T THEN Append(f[n - 1], s[n]) ELSE f[n - 1]
    BY <1>3, <2>1 DEF ArePicks
  <2>3. g[n] = IF s[n] \in T THEN Append(g[n - 1], s[n]) ELSE g[n - 1]
    BY <1>3 DEF ArePicks
  <2> QED BY <1>4, <2>2, <2>3
<1>5. f[k] = g[k]
  <2> DEFINE A == {n \in Nat : f[n] = g[n]}
  <2>1. 0 \in A
    BY <1>3 DEF ArePicks
  <2>2. ASSUME NEW n \in 0..(k - 1), n \in A PROVE n + 1 \in A
    <3>1. n + 1 \in 1..k /\ (n + 1) - 1 = n /\ n + 1 \in Nat
      BY <1>2
    <3> QED BY <1>4, <2>2, <3>1
  <2> HIDE DEF A
  <2>3. \A n \in 0..k : n \in A
    BY <1>2, <2>1, <2>2, UpTo
  <2>4. k \in A
    BY <1>2, <2>3
  <2> QED BY <2>4 DEF A
<1>6. f[k + 1] = IF x \in T THEN Append(f[k], x) ELSE f[k]
  <2>1. k + 1 \in 1..(k + 1) /\ (k + 1) - 1 = k
    BY <1>2
  <2>2. f[k + 1] = IF w[k + 1] \in T THEN Append(f[(k + 1) - 1], w[k + 1]) ELSE f[(k + 1) - 1]
    BY <1>3, <2>1 DEF ArePicks
  <2> QED BY <1>2, <2>1, <2>2
<1> QED BY <1>1, <1>2, <1>5, <1>6 DEF Picked

(* As many are picked as there are.                                         *)
LEMMA PickedCount ==
  ASSUME NEW s, NEW T, Len(s) \in Nat
  PROVE  Len(Picked(s, T)) = Cardinality({i \in 1..Len(s) : s[i] \in T})
<1>1. PICK k, f : k = Len(s) /\ f = PartialPicks(s, T)
  OBVIOUS
<1>2. k \in Nat /\ ArePicks(f, s, T, k)
  BY <1>1, PicksAre
<1> DEFINE In(n) == {i \in 1..n : s[i] \in T}
           A     == {n \in Nat : Len(f[n]) = Cardinality(In(n))}
<1>3. 0 \in A
  <2>1. f[0] = <<>> /\ In(0) = {}
    BY <1>2 DEF ArePicks
  <2>2. Len(f[0]) = 0
    BY <2>1
  <2> QED BY <2>1, <2>2, FS_EmptySet
<1>4. ASSUME NEW n \in 0..(k - 1), n \in A PROVE n + 1 \in A
  <2>1. n \in Nat /\ n + 1 \in Nat /\ n + 1 \in 1..k /\ (n + 1) - 1 = n /\ n \in 0..k
    BY <1>2
  <2>2. f[n + 1] = IF s[n + 1] \in T THEN Append(f[n], s[n + 1]) ELSE f[n]
    BY <1>2, <2>1 DEF ArePicks
  <2>3. f[n] \in Seq(T) /\ Len(f[n]) = Cardinality(In(n))
    BY <1>2, <1>4, <2>1 DEF ArePicks
  <2>4. IsFiniteSet(In(n)) /\ n + 1 \notin In(n)
    <3>1. IsFiniteSet(1..n)
      BY <2>1, FS_Interval
    <3>2. In(n) \in SUBSET (1..n)
      OBVIOUS
    <3>3. n + 1 \notin 1..n
      BY <2>1
    <3> QED BY <3>1, <3>2, <3>3, FS_Subset
  <2>5. \A i : i \in 1..(n + 1) <=> i \in 1..n \/ i = n + 1
    BY <2>1
  <2>6. CASE s[n + 1] \in T
    <3>1. In(n + 1) = In(n) \cup {n + 1}
      BY <2>5, <2>6
    <3>2. Len(f[n + 1]) = Len(f[n]) + 1
      BY <2>2, <2>3, <2>6, AppendProperties
    <3>3. Cardinality(In(n) \cup {n + 1}) = Cardinality(In(n)) + 1
      BY <2>4, FS_AddElement
    <3> QED BY <2>1, <2>3, <3>1, <3>2, <3>3
  <2>7. CASE s[n + 1] \notin T
    <3>1. In(n + 1) = In(n)
      BY <2>5, <2>7
    <3> QED BY <2>1, <2>2, <2>3, <2>7, <3>1
  <2> QED BY <2>6, <2>7
<1>5. \A n \in 0..k : n \in A
  <2> HIDE DEF A
  <2> QED BY <1>2, <1>3, <1>4, UpTo
<1>6. k \in A
  BY <1>2, <1>5
<1> QED BY <1>1, <1>6 DEF Picked

(* Something is picked if there is something to pick.                       *)
LEMMA SomePicked ==
  ASSUME NEW s, NEW T, Len(s) \in Nat, NEW i \in 1..Len(s), s[i] \in T
  PROVE  Picked(s, T) # <<>>
<1>1. PICK A : A = {n \in 1..Len(s) : s[n] \in T}
  OBVIOUS
<1>2. IsFiniteSet(A)
  <2>1. IsFiniteSet(1..Len(s)) /\ A \in SUBSET (1..Len(s))
    BY <1>1, FS_Interval
  <2> QED BY <2>1, FS_Subset
<1>3. A # {}
  BY <1>1
<1>4. Len(Picked(s, T)) # 0
  BY <1>1, <1>2, <1>3, PickedCount, FS_EmptySet
<1> QED BY <1>4

LEMMA HeadPicked ==
  ASSUME NEW s, NEW T, Len(s) \in Nat, Picked(s, T) # <<>>
  PROVE  Head(Picked(s, T)) \in T
<1>1. PICK p : p = Picked(s, T)
  OBVIOUS
<1>2. p \in Seq(T)
  BY <1>1, PickedTyped
<1>3. Len(p) > 0 /\ Head(p) = p[1]
  BY <1>1, <1>2
<1> QED BY <1>1, <1>2, <1>3
================================================================================
