------------------------------ MODULE ListLemmas ------------------------------
(***************************************************************************)
(* What the proofs need of the two operations the models keep their lists  *)
(* of requests, answers and edits with: appending one, and taking one out; *)
(* sums; the greatest of a set; and induction on what a list is computed   *)
(* from.                                                                   *)
(***************************************************************************)
EXTENDS Sums, SequencesExt, FiniteSetTheorems, SequenceTheorems, WellFoundedInduction, TLAPS

-----------------------------------------------------------------------------
(* Induction on the natural numbers, of sets *)

LEMMA NatWellFounded == IsWellFoundedOn({p \in Nat \X Nat : p[1] < p[2]}, Nat)
BY NatLessThanWellFounded DEF OpToRel

\* A set of numbers has a least one.
LEMMA Least ==
  ASSUME NEW T, T \subseteq Nat, T # {}
  PROVE  \E x \in T : \A y \in T : x <= y
<1> DEFINE R == {p \in Nat \X Nat : p[1] < p[2]}
<1>1. IsWellFoundedOn(R, Nat)
  BY NatWellFounded
<1>2. \E x \in T : \A y \in T : ~(<<y, x>> \in R)
  <2> HIDE DEF R
  <2>1. QED
    BY <1>1, WFMin
<1>3. \A x \in T, y \in T : ~(<<y, x>> \in R) => x <= y
  <2>1. TAKE x \in T, y \in T
  <2>2. x \in Nat /\ y \in Nat
    OBVIOUS
  <2>3. y < x => <<y, x>> \in R
    BY <2>2
  <2>4. QED
    BY <2>2, <2>3
<1> HIDE DEF R
<1>4. QED
  BY <1>2, <1>3

LEMMA Induction ==
  ASSUME NEW T, 0 \in T, \A n \in Nat : n \in T => n + 1 \in T
  PROVE  Nat \subseteq T
<1>1. SUFFICES ASSUME Nat \ T # {} PROVE FALSE
  OBVIOUS
<1>2. PICK x \in Nat \ T : \A y \in Nat \ T : x <= y
  BY <1>1, Least
<1>3. QED
  BY <1>2, x - 1 \in Nat

\* A recursive function that asks for itself at smaller numbers only: at n, the
\* value of step for n and the value at back[n], or the first one.
Descends(D, V, Base, back, step) ==
  \A n \in D \ Base : back[n] \in D /\ back[n] < n /\ \A v \in V : step[<<n, v>>] \in V
Recursive(f, D, Base, first, back, step) ==
  \A n \in D : f[n] = IF n \in Base THEN first ELSE step[<<n, f[back[n]]>>]

LEMMA RecursionExists ==
  ASSUME NEW N \in Nat, NEW D, D \subseteq 0..N, NEW V, NEW first \in V, NEW Base, NEW back, NEW step,
         Descends(D, V, Base, back, step)
  PROVE  \E f \in [D -> V] : Recursive(f, D, Base, first, back, step)
<1>0. \A n \in D \ Base : back[n] \in D /\ back[n] < n /\ \A v \in V : step[<<n, v>>] \in V
  BY DEF Descends
<1> DEFINE To(m) == {n \in D : n <= m}
<1> DEFINE T == {m \in Nat : \E f \in [To(m) -> V] :
                               \A n \in To(m) : f[n] = IF n \in Base THEN first ELSE step[<<n, f[back[n]]>>]}
<1>1. 0 \in T
  <2> DEFINE f == [n \in To(0) |-> first]
  <2>1. f \in [To(0) -> V]
    OBVIOUS
  <2>2. ASSUME NEW n \in To(0) PROVE n \in Base
    <3>1. n = 0 /\ n \in D
      OBVIOUS
    <3>2. n \notin Base => back[n] \in 0..N /\ back[n] < 0
      BY <1>0, <3>1
    <3>3. QED
      BY <3>2
  <2>3. \A n \in To(0) : f[n] = IF n \in Base THEN first ELSE step[<<n, f[back[n]]>>]
    BY <2>2
  <2>4. QED
    BY <2>1, <2>3
<1>2. ASSUME NEW m \in Nat, m \in T PROVE m + 1 \in T
  <2>1. PICK f \in [To(m) -> V] :
               \A n \in To(m) : f[n] = IF n \in Base THEN first ELSE step[<<n, f[back[n]]>>]
    BY <1>2
  <2> DEFINE h == [n \in To(m + 1) |-> IF n \in To(m) THEN f[n]
                                       ELSE IF n \in Base THEN first ELSE step[<<n, f[back[n]]>>]]
  <2>2. ASSUME NEW n \in To(m + 1), n \notin Base PROVE back[n] \in To(m) /\ back[n] \in To(m + 1)
    <3>1. n \in D /\ n <= m + 1 /\ back[n] \in D /\ back[n] < n
      BY <1>0, <2>2
    <3>2. n \in 0..N /\ back[n] \in 0..N
      BY <3>1
    <3>3. back[n] <= m /\ back[n] <= m + 1
      BY <3>1, <3>2
    <3>4. QED
      BY <3>1, <3>3
  <2>3. ASSUME NEW n \in To(m + 1)
        PROVE  h[n] \in V /\ h[n] = IF n \in Base THEN first ELSE step[<<n, h[back[n]]>>]
    <3>1. CASE n \in Base
      BY <2>1, <3>1
    <3>2. CASE n \notin Base
      <4>1. back[n] \in To(m) /\ h[back[n]] = f[back[n]] /\ f[back[n]] \in V
        BY <2>1, <2>2, <3>2
      <4>2. h[n] = step[<<n, f[back[n]]>>]
        BY <2>1, <3>2
      <4>3. step[<<n, f[back[n]]>>] \in V
        BY <1>0, <3>2, <4>1
      <4>4. QED
        BY <3>2, <4>1, <4>2, <4>3
    <3>3. QED
      BY <3>1, <3>2
  <2>4. h \in [To(m + 1) -> V]
    BY <2>3
  <2> HIDE DEF h, To
  <2>5. QED
    BY <2>3, <2>4
<1>3. N \in T
  <2> HIDE DEF T
  <2>1. QED
    BY <1>1, <1>2, Induction
<1>4. To(N) = D
  <2>1. \A n \in D : n <= N
    OBVIOUS
  <2>2. QED
    BY <2>1
<1>5. PICK f \in [D -> V] : \A n \in D : f[n] = IF n \in Base THEN first ELSE step[<<n, f[back[n]]>>]
  BY <1>3, <1>4
<1>6. QED
  BY <1>5 DEF Recursive

\* Induction up to a bound.
LEMMA UpTo ==
  ASSUME NEW N \in Nat, NEW T, 0 \in T, \A n \in 1..N : n - 1 \in T => n \in T
  PROVE  0..N \subseteq T
<1> DEFINE Reached == {n \in Nat : n <= N => n \in T}
<1>1. 0 \in Reached
  OBVIOUS
<1>2. ASSUME NEW n \in Nat, n \in Reached PROVE n + 1 \in Reached
  <2>1. SUFFICES ASSUME n + 1 <= N PROVE n + 1 \in T
    OBVIOUS
  <2>2. n \in T /\ n + 1 \in 1..N /\ (n + 1) - 1 = n
    BY <1>2, <2>1
  <2>3. QED
    BY <2>2
<1> HIDE DEF Reached
<1>3. Nat \subseteq Reached
  BY <1>1, <1>2, Induction
<1>4. QED
  BY <1>3 DEF Reached

\* A recursive function over 0..N that goes one step at a time.
StaysIn(N, V, step) == \A n \in 1..N : \A v \in V : step[<<n, v>>] \in V
Folds(f, N, first, step) == f[0] = first /\ \A n \in 1..N : f[n] = step[<<n, f[n - 1]>>]

LEMMA FoldExists ==
  ASSUME NEW N \in Nat, NEW V, NEW first \in V, NEW step, StaysIn(N, V, step)
  PROVE  \E f \in [0..N -> V] : Folds(f, N, first, step)
<1> DEFINE D == 0..N
<1> DEFINE Base == {0}
<1> DEFINE back == [n \in D |-> n - 1]
<1>1. Descends(D, V, Base, back, step)
  <2>1. ASSUME NEW n \in D \ Base
        PROVE  back[n] \in D /\ back[n] < n /\ \A v \in V : step[<<n, v>>] \in V
    <3>1. n \in 1..N
      OBVIOUS
    <3>2. back[n] = n - 1
      OBVIOUS
    <3>3. QED
      BY <3>1, <3>2 DEF StaysIn
  <2> HIDE DEF D, Base, back
  <2>2. QED
    BY <2>1 DEF Descends
<1>2. \E f \in [D -> V] : Recursive(f, D, Base, first, back, step)
  <2>1. D \subseteq 0..N
    OBVIOUS
  <2> HIDE DEF D, Base, back
  <2>2. QED
    BY <1>1, <2>1, RecursionExists
<1>3. PICK f \in [D -> V] : \A n \in D : f[n] = IF n \in Base THEN first ELSE step[<<n, f[back[n]]>>]
  BY <1>2 DEF Recursive
<1>4. f[0] = first
  <2>1. 0 \in D /\ 0 \in Base
    OBVIOUS
  <2> HIDE DEF D, Base
  <2>2. QED
    BY <1>3, <2>1
<1>5. ASSUME NEW n \in 1..N PROVE f[n] = step[<<n, f[n - 1]>>]
  <2>1. n \in D /\ n \notin Base /\ back[n] = n - 1
    OBVIOUS
  <2>2. QED
    BY <1>3, <2>1
<1>6. QED
  BY <1>4, <1>5 DEF Folds

-----------------------------------------------------------------------------
(* Sums *)

LEMMA PartialSumsAre ==
  ASSUME NEW s \in Seq(Int)
  PROVE  /\ PartialSums(s) \in [0..Len(s) -> Int]
         /\ PartialSums(s)[0] = 0
         /\ \A n \in 1..Len(s) : PartialSums(s)[n] = PartialSums(s)[n - 1] + s[n]
<1> DEFINE D == 0..Len(s)
<1> DEFINE Base == {n \in D : n = 0}
<1> DEFINE back == [n \in D |-> n - 1]
<1> DEFINE step == [x \in D \X Int |-> x[2] + s[x[1]]]
<1> DEFINE Body(f) == [n \in D |-> IF n = 0 THEN 0 ELSE f[n - 1] + s[n]]
<1> DEFINE sums == PartialSums(s)
<1>1. Len(s) \in Nat /\ D \subseteq 0..Len(s) /\ D \subseteq Nat /\ \A n \in D \ Base : n \in 1..Len(s) /\ s[n] \in Int
  OBVIOUS
<1>2. Descends(D, Int, Base, back, step)
  <2>1. ASSUME NEW n \in D \ Base
        PROVE  back[n] \in D /\ back[n] < n /\ \A v \in Int : step[<<n, v>>] \in Int
    BY <1>1
  <2> HIDE DEF D, Base, back, step
  <2>2. QED
    BY <2>1 DEF Descends
<1>3. \E f \in [D -> Int] : Recursive(f, D, Base, 0, back, step)
  <2> DEFINE N == Len(s)
  <2>1. N \in Nat /\ D \subseteq 0..N /\ 0 \in Int
    OBVIOUS
  <2> HIDE DEF D, Base, back, step, N
  <2>2. QED
    BY <2>1, <1>2, RecursionExists
<1>4. PICK f \in [D -> Int] : \A n \in D : f[n] = IF n \in Base THEN 0 ELSE step[<<n, f[back[n]]>>]
  BY <1>3 DEF Recursive
<1>5. f = Body(f)
  <2>1. ASSUME NEW n \in D PROVE f[n] = IF n = 0 THEN 0 ELSE f[n - 1] + s[n]
    <3>1. CASE n = 0
      BY <1>4, <3>1
    <3>2. CASE n # 0
      <4>1. n \in D \ Base /\ back[n] = n - 1 /\ n - 1 \in D
        BY <3>2
      <4>2. f[n - 1] \in Int /\ f[n] = step[<<n, f[n - 1]>>]
        BY <1>4, <4>1
      <4>3. QED
        BY <3>2, <4>2
    <3>3. QED
      BY <3>1, <3>2
  <2> HIDE DEF D
  <2>2. QED
    BY <2>1
<1>6. sums = Body(sums)
  <2> HIDE DEF Body
  <2>1. (CHOOSE g : g = Body(g)) = Body(CHOOSE g : g = Body(g))
    BY <1>5
  <2>2. sums = CHOOSE g : g = Body(g)
    BY DEF PartialSums, Body
  <2>3. QED
    BY <2>1, <2>2
<1> HIDE DEF sums
<1>7. /\ sums[0] = 0
      /\ \A n \in 1..Len(s) : n \in D /\ n # 0 /\ n - 1 \in D /\ sums[n] = sums[n - 1] + s[n] /\ s[n] \in Int
      /\ DOMAIN sums = D
  <2>1. 0 \in D /\ \A n \in 1..Len(s) : n \in D /\ n # 0 /\ n - 1 \in D /\ s[n] \in Int
    OBVIOUS
  <2>2. \A n \in D : sums[n] = IF n = 0 THEN 0 ELSE sums[n - 1] + s[n]
    <3> HIDE DEF D
    <3>1. QED
      BY <1>6
  <2>3. DOMAIN sums = D
    BY <1>6
  <2> HIDE DEF D
  <2>4. QED
    BY <2>1, <2>2, <2>3
<1>8. sums \in [D -> Int]
  <2> DEFINE Typed == {n \in Nat : n \in D => sums[n] \in Int}
  <2>1. 0 \in Typed
    BY <1>7
  <2>2. ASSUME NEW n \in Nat, n \in Typed PROVE n + 1 \in Typed
    <3>1. SUFFICES ASSUME n + 1 \in D PROVE sums[n + 1] \in Int
      OBVIOUS
    <3>2. n \in D /\ n + 1 \in 1..Len(s) /\ (n + 1) - 1 = n
      BY <3>1
    <3>3. sums[n] \in Int /\ sums[n + 1] = sums[n] + s[n + 1] /\ s[n + 1] \in Int
      BY <1>7, <2>2, <3>2
    <3>4. QED
      BY <3>3
  <2> HIDE DEF Typed
  <2>3. Nat \subseteq Typed
    BY <2>1, <2>2, Induction
  <2>4. \A n \in D : sums[n] \in Int
    BY <1>1, <2>3 DEF Typed
  <2>5. sums = [n \in D |-> sums[n]]
    BY <1>6, <1>7
  <2> HIDE DEF D
  <2>6. QED
    BY <2>4, <2>5
<1>9. QED
  BY <1>7, <1>8 DEF sums

\* Sums of sequences that differ by what is at i, if anything.
LEMMA SumsDiffer ==
  ASSUME NEW s \in Seq(Int), NEW t \in Seq(Int), NEW m \in Nat, m <= Len(s), m <= Len(t),
         NEW i \in Nat, i \in 1..m \/ i > m, \A j \in 1..m : j # i => t[j] = s[j]
  PROVE  /\ i \in 1..m => PartialSums(t)[m] = PartialSums(s)[m] + (t[i] - s[i])
         /\ i > m => PartialSums(t)[m] = PartialSums(s)[m]
<1> DEFINE a == PartialSums(s)
<1> DEFINE b == PartialSums(t)
<1> DEFINE By(n) == IF i \in 1..n THEN t[i] - s[i] ELSE 0
<1> DEFINE So == {n \in Nat : n <= m => b[n] = a[n] + By(n)}
<1>1. /\ a \in [0..Len(s) -> Int] /\ a[0] = 0 /\ \A n \in 1..Len(s) : a[n] = a[n - 1] + s[n]
      /\ b \in [0..Len(t) -> Int] /\ b[0] = 0 /\ \A n \in 1..Len(t) : b[n] = b[n - 1] + t[n]
  BY PartialSumsAre
<1> HIDE DEF a, b
<1>2. 0 \in So
  BY <1>1
<1>3. ASSUME NEW n \in Nat, n \in So PROVE n + 1 \in So
  <2>1. SUFFICES ASSUME n + 1 <= m PROVE b[n + 1] = a[n + 1] + By(n + 1)
    OBVIOUS
  <2>2. n <= m /\ n + 1 \in 1..Len(s) /\ n + 1 \in 1..Len(t) /\ n \in 0..Len(s) /\ n \in 0..Len(t) /\ (n + 1) - 1 = n
        /\ n + 1 \in 1..m
    <3> DEFINE k == Len(s)
    <3> DEFINE l == Len(t)
    <3>1. k \in Nat /\ l \in Nat /\ m <= k /\ m <= l
      OBVIOUS
    <3> HIDE DEF k, l
    <3>2. n <= m /\ n + 1 \in 1..k /\ n + 1 \in 1..l
      BY <2>1, <3>1
    <3>3. n \in 0..k /\ n \in 0..l /\ (n + 1) - 1 = n /\ n + 1 \in 1..m
      BY <2>1, <3>1
    <3>4. QED
      BY <3>2, <3>3 DEF k, l
  <2>3. a[n] \in Int /\ b[n] \in Int /\ a[n + 1] = a[n] + s[n + 1] /\ b[n + 1] = b[n] + t[n + 1] /\ b[n] = a[n] + By(n)
    BY <1>1, <1>3, <2>2
  <2>4. s[n + 1] \in Int /\ t[n + 1] \in Int
    BY <2>2
  <2>5. CASE i = n + 1
    <3>1. By(n) = 0 /\ By(n + 1) = t[n + 1] - s[n + 1]
      BY <2>5
    <3>2. QED
      BY <2>3, <2>4, <3>1
  <2>6. CASE i # n + 1
    <3>1. t[n + 1] = s[n + 1]
      BY <2>2, <2>6
    <3>2. By(n + 1) = By(n)
      BY <2>6
    <3>3. By(n) \in Int
      BY <2>2, i \in 1..n => i \in 1..Len(s) /\ i \in 1..Len(t)
    <3> HIDE DEF By
    <3>4. QED
      BY <2>3, <2>4, <3>1, <3>2, <3>3
  <2>7. QED
    BY <2>5, <2>6
<1> HIDE DEF So
<1>4. m \in So
  BY <1>2, <1>3, Induction
<1>5. b[m] = a[m] + By(m)
  BY <1>4 DEF So
<1>6. a[m] \in Int
  BY <1>1, m \in 0..Len(s)
<1>7. QED
  BY <1>5, <1>6 DEF a, b

LEMMA SumUpdated ==
  ASSUME NEW s \in Seq(Int), NEW t \in Seq(Int), Len(t) = Len(s), NEW i \in 1..Len(s),
         \A j \in 1..Len(s) : j # i => t[j] = s[j]
  PROVE  SumOf(t) = SumOf(s) + t[i] - s[i] /\ SumOf(s) \in Int /\ SumOf(t) \in Int
<1>1. PartialSums(t)[Len(s)] = PartialSums(s)[Len(s)] + (t[i] - s[i])
  <2> DEFINE m == Len(s)
  <2>1. m \in Nat /\ m <= Len(s) /\ m <= Len(t) /\ i \in Nat /\ i \in 1..m /\ \A j \in 1..m : j # i => t[j] = s[j]
    OBVIOUS
  <2> HIDE DEF m
  <2>2. PartialSums(t)[m] = PartialSums(s)[m] + (t[i] - s[i])
    BY <2>1, SumsDiffer
  <2>3. QED
    BY <2>2 DEF m
<1>2. PartialSums(s)[Len(s)] \in Int /\ PartialSums(t)[Len(t)] \in Int
  BY PartialSumsAre, Len(s) \in 0..Len(s), Len(t) \in 0..Len(t)
<1>3. s[i] \in Int /\ t[i] \in Int
  OBVIOUS
<1>4. QED
  BY <1>1, <1>2, <1>3 DEF SumOf

LEMMA SumAppended ==
  ASSUME NEW s \in Seq(Int), NEW x \in Int
  PROVE  SumOf(Append(s, x)) = SumOf(s) + x /\ SumOf(s) \in Int
<1> DEFINE t == Append(s, x)
<1>1. t \in Seq(Int) /\ Len(t) = Len(s) + 1 /\ t[Len(s) + 1] = x /\ \A j \in 1..Len(s) : t[j] = s[j]
  OBVIOUS
<1> HIDE DEF t
<1>2. Len(s) \in Nat /\ Len(s) + 1 > Len(s) /\ Len(s) + 1 \in Nat /\ Len(s) + 1 \notin 1..Len(s)
  OBVIOUS
<1>3. PartialSums(t)[Len(s)] = PartialSums(s)[Len(s)]
  <2> DEFINE m == Len(s)
  <2> DEFINE i == m + 1
  <2>1. /\ m \in Nat /\ m <= Len(s) /\ m <= Len(t) /\ i \in Nat /\ i > m
        /\ \A j \in 1..m : j # i => t[j] = s[j]
    BY <1>1
  <2> HIDE DEF m, i
  <2>2. PartialSums(t)[m] = PartialSums(s)[m]
    BY <1>1, <2>1, SumsDiffer
  <2>3. QED
    BY <2>2 DEF m
<1>4. PartialSums(t)[Len(t)] = PartialSums(t)[Len(s)] + x
  BY <1>1, <1>2, PartialSumsAre, Len(t) \in 1..Len(t), Len(t) - 1 = Len(s)
<1>5. PartialSums(s)[Len(s)] \in Int
  BY PartialSumsAre, Len(s) \in 0..Len(s)
<1>6. QED
  BY <1>2, <1>3, <1>4, <1>5 DEF SumOf, t

LEMMA SumIsInt ==
  ASSUME NEW s \in Seq(Int)
  PROVE  SumOf(s) \in Int
BY PartialSumsAre, Len(s) \in 0..Len(s) DEF SumOf

\* Of numbers none of which is negative.
LEMMA SumCovers ==
  ASSUME NEW s \in Seq(Nat)
  PROVE  SumOf(s) \in Nat /\ \A i \in DOMAIN s : s[i] <= SumOf(s)
<1> DEFINE a == PartialSums(s)
<1> DEFINE So == {n \in Nat : n <= Len(s) => a[n] \in Nat /\ \A i \in 1..n : s[i] <= a[n]}
<1>1. s \in Seq(Int) /\ Len(s) \in Nat /\ DOMAIN s = 1..Len(s)
  OBVIOUS
<1>2. a \in [0..Len(s) -> Int] /\ a[0] = 0 /\ \A n \in 1..Len(s) : a[n] = a[n - 1] + s[n]
  BY <1>1, PartialSumsAre
<1> HIDE DEF a
<1>3. 0 \in So
  BY <1>2
<1>4. ASSUME NEW n \in Nat, n \in So PROVE n + 1 \in So
  <2>1. SUFFICES ASSUME n + 1 <= Len(s) PROVE a[n + 1] \in Nat /\ \A i \in 1..(n + 1) : s[i] <= a[n + 1]
    OBVIOUS
  <2>2. n + 1 \in 1..Len(s) /\ (n + 1) - 1 = n /\ n <= Len(s)
    BY <1>1, <2>1
  <2>3. a[n] \in Nat /\ a[n + 1] = a[n] + s[n + 1] /\ s[n + 1] \in Nat /\ \A i \in 1..n : s[i] <= a[n] /\ s[i] \in Nat
    BY <1>2, <1>4, <2>2
  <2>4. \A i \in 1..(n + 1) : i \in 1..n \/ i = n + 1
    OBVIOUS
  <2>5. QED
    BY <2>3, <2>4
<1> HIDE DEF So
<1>5. Len(s) \in So
  BY <1>1, <1>3, <1>4, Induction
<1>6. QED
  BY <1>1, <1>5 DEF So, SumOf, a

LEMMA SumOfNone ==
  ASSUME NEW s \in Seq(Int), \A i \in DOMAIN s : s[i] = 0
  PROVE  SumOf(s) = 0
<1> DEFINE a == PartialSums(s)
<1> DEFINE So == {n \in Nat : n <= Len(s) => a[n] = 0}
<1>1. a \in [0..Len(s) -> Int] /\ a[0] = 0 /\ \A n \in 1..Len(s) : a[n] = a[n - 1] + s[n]
  BY PartialSumsAre
<1> HIDE DEF a
<1>2. 0 \in So
  BY <1>1
<1>3. ASSUME NEW n \in Nat, n \in So PROVE n + 1 \in So
  <2>1. SUFFICES ASSUME n + 1 <= Len(s) PROVE a[n + 1] = 0
    OBVIOUS
  <2>2. n + 1 \in 1..Len(s) /\ (n + 1) - 1 = n /\ n <= Len(s)
    BY <2>1
  <2>3. a[n] = 0 /\ a[n + 1] = a[n] + s[n + 1] /\ s[n + 1] = 0
    BY <1>1, <1>3, <2>2
  <2>4. QED
    BY <2>3
<1> HIDE DEF So
<1>4. Len(s) \in So
  BY <1>2, <1>3, Induction, Len(s) \in Nat
<1>5. QED
  BY <1>4, Len(s) \in Nat DEF So, SumOf, a

-----------------------------------------------------------------------------
(* Entries of a sequence *)

LEMMA AppendType ==
  ASSUME NEW S, NEW s \in Seq(S), NEW e \in S
  PROVE  /\ Append(s, e) \in Seq(S) /\ Append(s, e) # <<>>
         /\ Len(Append(s, e)) = Len(s) + 1
         /\ Append(s, e)[Len(Append(s, e))] = e
         /\ \A i \in DOMAIN s : i \in DOMAIN Append(s, e) /\ Append(s, e)[i] = s[i]
OBVIOUS

\* The entries of two sequences put together.
LEMMA ConcatEntries ==
  ASSUME NEW S, NEW a \in Seq(S), NEW b \in Seq(S)
  PROVE  /\ a \o b \in Seq(S)
         /\ Len(a \o b) = Len(a) + Len(b)
         /\ \A j \in 1..Len(a) + Len(b) :
              (a \o b)[j] = IF j <= Len(a) THEN a[j] ELSE b[j - Len(a)]
<1>1. a \o b \in Seq(S) /\ Len(a \o b) = Len(a) + Len(b)
  OBVIOUS
<1>2. ASSUME NEW j \in 1..Len(a) + Len(b)
      PROVE  (a \o b)[j] = IF j <= Len(a) THEN a[j] ELSE b[j - Len(a)]
  OBVIOUS
<1>3. QED
  BY <1>1, <1>2

\* RemoveAt takes the entry at i out, and moves those behind it forward.
LEMMA RemoveAtEntries ==
  ASSUME NEW S, NEW s \in Seq(S), NEW i \in DOMAIN s
  PROVE  /\ RemoveAt(s, i) \in Seq(S)
         /\ Len(RemoveAt(s, i)) = Len(s) - 1
         /\ \A j \in 1..Len(s) - 1 :
              RemoveAt(s, i)[j] = IF j < i THEN s[j] ELSE s[j + 1]
<1>1. i \in 1..Len(s) /\ Len(s) \in Nat
  OBVIOUS
<1>2. /\ SubSeq(s, 1, i - 1) \in Seq(S) /\ Len(SubSeq(s, 1, i - 1)) = i - 1
      /\ \A j \in 1..i - 1 : SubSeq(s, 1, i - 1)[j] = s[j]
  BY <1>1
<1>3. /\ SubSeq(s, i + 1, Len(s)) \in Seq(S) /\ Len(SubSeq(s, i + 1, Len(s))) = Len(s) - i
      /\ \A j \in 1..Len(s) - i : SubSeq(s, i + 1, Len(s))[j] = s[i + j]
  BY <1>1
<1>4. RemoveAt(s, i) = SubSeq(s, 1, i - 1) \o SubSeq(s, i + 1, Len(s))
  BY DEF RemoveAt
<1> DEFINE front == SubSeq(s, 1, i - 1)
<1> DEFINE back == SubSeq(s, i + 1, Len(s))
<1> HIDE DEF front, back
<1>5. /\ front \in Seq(S) /\ Len(front) = i - 1 /\ \A j \in 1..i - 1 : front[j] = s[j]
      /\ back \in Seq(S) /\ Len(back) = Len(s) - i /\ \A j \in 1..Len(s) - i : back[j] = s[i + j]
      /\ RemoveAt(s, i) = front \o back
  BY <1>2, <1>3, <1>4 DEF front, back
<1>6. /\ front \o back \in Seq(S) /\ Len(front \o back) = Len(s) - 1
      /\ \A j \in 1..Len(s) - 1 :
           (front \o back)[j] = IF j <= Len(front) THEN front[j] ELSE back[j - Len(front)]
  <2>1. Len(front) + Len(back) = Len(s) - 1
    BY <1>1, <1>5
  <2>2. front \in Seq(S) /\ back \in Seq(S)
    BY <1>5
  <2>3. QED
    BY <2>1, <2>2, ConcatEntries
<1>7. ASSUME NEW j \in 1..Len(s) - 1
      PROVE  (front \o back)[j] = IF j < i THEN s[j] ELSE s[j + 1]
  <2>1. CASE j < i
    BY <1>1, <1>5, <1>6, <2>1
  <2>2. CASE ~(j < i)
    <3>0. j \in Int /\ j <= Len(s) - 1 /\ Len(front) = i - 1
      BY <1>1, <1>5
    <3>1. j - Len(front) \in 1..Len(s) - i /\ i + (j - Len(front)) = j + 1
      BY <1>1, <2>2, <3>0
    <3>2. (front \o back)[j] = back[j - Len(front)]
      <4>1. ~(j <= Len(front))
        BY <1>1, <2>2, <3>0
      <4>2. QED
        BY <1>6, <4>1
    <3>3. back[j - Len(front)] = s[i + (j - Len(front))]
      BY <1>5, <3>1
    <3>4. QED
      BY <2>2, <3>1, <3>2, <3>3
  <2>3. QED
    BY <2>1, <2>2
<1>8. QED
  BY <1>5, <1>6, <1>7

\* What is left was there before.
LEMMA RemoveAtOld ==
  ASSUME NEW S, NEW s \in Seq(S), NEW i \in DOMAIN s
  PROVE  /\ RemoveAt(s, i) \in Seq(S)
         /\ \A j \in DOMAIN RemoveAt(s, i) : \E k \in DOMAIN s : k # i /\ RemoveAt(s, i)[j] = s[k]
<1>1. /\ RemoveAt(s, i) \in Seq(S) /\ Len(RemoveAt(s, i)) = Len(s) - 1
      /\ \A j \in 1..Len(s) - 1 :
           RemoveAt(s, i)[j] = IF j < i THEN s[j] ELSE s[j + 1]
  BY RemoveAtEntries
<1> DEFINE r == RemoveAt(s, i)
<1> HIDE DEF r
<1>2. /\ r \in Seq(S) /\ Len(r) = Len(s) - 1 /\ i \in 1..Len(s)
      /\ \A j \in 1..Len(s) - 1 : r[j] = IF j < i THEN s[j] ELSE s[j + 1]
  BY <1>1 DEF r
<1>3. ASSUME NEW j \in DOMAIN r PROVE \E k \in DOMAIN s : k # i /\ r[j] = s[k]
  <2>1. CASE j < i
    BY <1>2, <2>1
  <2>2. CASE ~(j < i)
    <3>1. j + 1 \in DOMAIN s /\ j + 1 # i /\ r[j] = s[j + 1]
      BY <1>2, <2>2
    <3>2. QED
      BY <3>1
  <2>3. QED
    BY <2>1, <2>2
<1>4. QED
  BY <1>2, <1>3 DEF r

\* What was not taken out is still there.
LEMMA RemoveAtKeeps ==
  ASSUME NEW S, NEW s \in Seq(S), NEW i \in DOMAIN s, NEW k \in DOMAIN s, k # i
  PROVE  \E j \in DOMAIN RemoveAt(s, i) : RemoveAt(s, i)[j] = s[k]
<1> DEFINE r == RemoveAt(s, i)
<1>1. /\ r \in Seq(S) /\ Len(r) = Len(s) - 1
      /\ \A j \in 1..Len(s) - 1 : r[j] = IF j < i THEN s[j] ELSE s[j + 1]
  BY RemoveAtEntries
<1> HIDE DEF r
<1>2. i \in 1..Len(s) /\ k \in 1..Len(s) /\ Len(s) \in Nat
  OBVIOUS
<1>3. CASE k < i
  <2>1. k \in DOMAIN r /\ r[k] = s[k]
    BY <1>1, <1>2, <1>3
  <2>2. QED
    BY <2>1 DEF r
<1>4. CASE ~(k < i)
  <2>1. k - 1 \in DOMAIN r /\ r[k - 1] = s[k]
    BY <1>1, <1>2, <1>4
  <2>2. QED
    BY <2>1 DEF r
<1>5. QED
  BY <1>3, <1>4

\* Two that are left were two before.
LEMMA RemoveAtApart ==
  ASSUME NEW S, NEW s \in Seq(S), NEW i \in DOMAIN s,
         NEW j \in DOMAIN RemoveAt(s, i), NEW k \in DOMAIN RemoveAt(s, i), j # k
  PROVE  \E a, b \in DOMAIN s :
           a # b /\ a # i /\ b # i /\ RemoveAt(s, i)[j] = s[a] /\ RemoveAt(s, i)[k] = s[b]
<1> DEFINE r == RemoveAt(s, i)
<1>1. /\ r \in Seq(S) /\ Len(r) = Len(s) - 1
      /\ \A m \in 1..Len(s) - 1 : r[m] = IF m < i THEN s[m] ELSE s[m + 1]
  BY RemoveAtEntries
<1>2. j \in DOMAIN r /\ k \in DOMAIN r
  OBVIOUS
<1> HIDE DEF r
<1>3. i \in 1..Len(s) /\ Len(s) \in Nat /\ j \in 1..Len(s) - 1 /\ k \in 1..Len(s) - 1
  BY <1>1, <1>2
<1> DEFINE old(m) == IF m < i THEN m ELSE m + 1
<1>4. \A m \in 1..Len(s) - 1 : old(m) \in DOMAIN s /\ old(m) # i /\ r[m] = s[old(m)]
  BY <1>1, <1>3
<1>5. old(j) # old(k)
  BY <1>3
<1> HIDE DEF old
<1>6. QED
  BY <1>3, <1>4, <1>5 DEF r

-----------------------------------------------------------------------------
(* A list with one entry of a kind at most *)

AtMostOne(s, T) == \A i, j \in DOMAIN s : s[i] \in T /\ s[j] \in T => i = j
Has(s, T) == \E i \in DOMAIN s : s[i] \in T

LEMMA AppendOne ==
  ASSUME NEW S, NEW s \in Seq(S), NEW e \in S, NEW T, AtMostOne(s, T), e \in T => ~Has(s, T)
  PROVE  /\ AtMostOne(Append(s, e), T)
         /\ Has(Append(s, e), T) <=> Has(s, T) \/ e \in T
<1> DEFINE r == Append(s, e)
<1>1. /\ Len(s) \in Nat /\ DOMAIN r = 1..Len(s) + 1 /\ r[Len(s) + 1] = e
      /\ DOMAIN s = 1..Len(s)
      /\ \A i \in DOMAIN s : r[i] = s[i]
  OBVIOUS
<1> HIDE DEF r
<1>2. DOMAIN r = DOMAIN s \cup {Len(s) + 1}
  BY <1>1
<1>3. QED
  BY <1>1, <1>2 DEF AtMostOne, Has, r

LEMMA RemoveOne ==
  ASSUME NEW S, NEW s \in Seq(S), NEW i \in DOMAIN s, NEW T, AtMostOne(s, T)
  PROVE  /\ AtMostOne(RemoveAt(s, i), T)
         /\ Has(RemoveAt(s, i), T) <=> Has(s, T) /\ s[i] \notin T
<1> DEFINE r == RemoveAt(s, i)
<1>1. AtMostOne(r, T)
  <2>1. SUFFICES ASSUME NEW j \in DOMAIN r, NEW k \in DOMAIN r, r[j] \in T, r[k] \in T, j # k
                 PROVE  FALSE
    BY DEF AtMostOne
  <2>2. PICK a, b \in DOMAIN s : a # b /\ r[j] = s[a] /\ r[k] = s[b]
    BY <2>1, RemoveAtApart
  <2>3. QED
    BY <2>1, <2>2 DEF AtMostOne
<1>2. ASSUME Has(r, T) PROVE Has(s, T) /\ s[i] \notin T
  <2>1. PICK j \in DOMAIN r : r[j] \in T
    BY <1>2 DEF Has
  <2>2. PICK k \in DOMAIN s : k # i /\ r[j] = s[k]
    BY <2>1, RemoveAtOld
  <2>3. QED
    BY <2>1, <2>2 DEF AtMostOne, Has
<1>3. ASSUME Has(s, T), s[i] \notin T PROVE Has(r, T)
  <2>1. PICK k \in DOMAIN s : s[k] \in T /\ k # i
    BY <1>3 DEF Has
  <2>2. \E j \in DOMAIN r : r[j] = s[k]
    BY <2>1, RemoveAtKeeps
  <2>3. QED
    BY <2>1, <2>2 DEF Has
<1>4. QED
  BY <1>1, <1>2, <1>3

\* An entry that is changed, to one of the kind or not.
LEMMA ReplaceOne ==
  ASSUME NEW S, NEW s \in Seq(S), NEW i \in DOMAIN s, NEW e \in S, NEW T, AtMostOne(s, T),
         e \in T => s[i] \in T
  PROVE  /\ AtMostOne([s EXCEPT ![i] = e], T)
         /\ Has([s EXCEPT ![i] = e], T) => Has(s, T)
         /\ (e \in T <=> s[i] \in T) => (Has([s EXCEPT ![i] = e], T) <=> Has(s, T))
<1> DEFINE r == [s EXCEPT ![i] = e]
<1>1. DOMAIN r = DOMAIN s /\ r[i] = e /\ \A j \in DOMAIN s : j # i => r[j] = s[j]
  OBVIOUS
<1> HIDE DEF r
<1>2. QED
  BY <1>1 DEF AtMostOne, Has, r

LEMMA CountOne ==
  ASSUME NEW S, NEW s \in Seq(S), NEW T, AtMostOne(s, T)
  PROVE  Cardinality({i \in DOMAIN s : s[i] \in T}) = IF Has(s, T) THEN 1 ELSE 0
<1>1. CASE Has(s, T)
  <2>1. PICK k \in DOMAIN s : s[k] \in T
    BY <1>1 DEF Has
  <2>2. {i \in DOMAIN s : s[i] \in T} = {k}
    BY <2>1 DEF AtMostOne
  <2>3. QED
    BY <1>1, <2>2, FS_Singleton
<1>2. CASE ~Has(s, T)
  <2>1. {i \in DOMAIN s : s[i] \in T} = {}
    BY <1>2 DEF Has
  <2>2. QED
    BY <1>2, <2>1, FS_EmptySet
<1>3. QED
  BY <1>1, <1>2

-----------------------------------------------------------------------------
(* Rows of entries, and the greatest of a set of places *)

\* What is taken out of the first of two is taken out of both put together.
LEMMA RemoveAtConcat ==
  ASSUME NEW S, NEW s \in Seq(S), NEW t \in Seq(S), NEW k \in DOMAIN s
  PROVE  k \in DOMAIN (s \o t) /\ (s \o t)[k] = s[k] /\ RemoveAt(s \o t, k) = RemoveAt(s, k) \o t
<1> DEFINE st == s \o t
<1> DEFINE r == RemoveAt(s, k)
<1> DEFINE rt == RemoveAt(st, k)
<1>1. /\ Len(s) \in Nat /\ Len(t) \in Nat /\ k \in 1..Len(s)
      /\ st \in Seq(S) /\ Len(st) = Len(s) + Len(t)
      /\ \A j \in 1..Len(s) + Len(t) : st[j] = IF j <= Len(s) THEN s[j] ELSE t[j - Len(s)]
  BY ConcatEntries
<1> HIDE DEF st
<1>2. k \in DOMAIN st /\ k \in 1..Len(st) /\ st[k] = s[k]
  BY <1>1
<1>3. /\ r \in Seq(S) /\ Len(r) = Len(s) - 1
      /\ \A j \in 1..Len(s) - 1 : r[j] = IF j < k THEN s[j] ELSE s[j + 1]
  BY RemoveAtEntries
<1>4. /\ rt \in Seq(S) /\ Len(rt) = Len(st) - 1
      /\ \A j \in 1..Len(st) - 1 : rt[j] = IF j < k THEN st[j] ELSE st[j + 1]
  BY <1>1, <1>2, RemoveAtEntries
<1> HIDE DEF r, rt
<1>5. /\ r \o t \in Seq(S) /\ Len(r \o t) = Len(r) + Len(t)
      /\ \A j \in 1..Len(r) + Len(t) : (r \o t)[j] = IF j <= Len(r) THEN r[j] ELSE t[j - Len(r)]
  BY <1>3, ConcatEntries
<1> DEFINE u == r \o t
<1>6. u \in Seq(S) /\ Len(u) = Len(rt)
  BY <1>1, <1>3, <1>4, <1>5
<1>7. ASSUME NEW j \in 1..Len(rt) PROVE u[j] = rt[j]
  <2>1. j \in Int /\ 1 <= j /\ j <= Len(s) + Len(t) - 1 /\ j \in 1..Len(st) - 1 /\ j \in 1..Len(r) + Len(t)
    BY <1>1, <1>3, <1>4
  <2>2. CASE j <= Len(s) - 1
    <3>1. u[j] = r[j] /\ r[j] = IF j < k THEN s[j] ELSE s[j + 1]
      BY <1>1, <1>3, <1>5, <2>1, <2>2
    <3>2. st[j] = s[j] /\ st[j + 1] = s[j + 1]
      BY <1>1, <2>1, <2>2
    <3>3. QED
      BY <1>4, <2>1, <3>1, <3>2
  <2>3. CASE ~(j <= Len(s) - 1)
    <3>1. u[j] = t[j - (Len(s) - 1)]
      BY <1>1, <1>3, <1>5, <2>1, <2>3
    <3>2. st[j + 1] = t[(j + 1) - Len(s)]
      BY <1>1, <2>1, <2>3
    <3>3. ~(j < k) /\ (j + 1) - Len(s) = j - (Len(s) - 1)
      BY <1>1, <2>1, <2>3
    <3>4. QED
      BY <1>4, <2>1, <3>1, <3>2, <3>3
  <2>4. QED
    BY <2>2, <2>3
<1> HIDE DEF u
<1>8. u = rt
  BY <1>4, <1>6, <1>7, SeqEqual
<1>9. QED
  BY <1>2, <1>8 DEF u, rt, r, st

LEMMA RemoveLast ==
  ASSUME NEW S, NEW s \in Seq(S), NEW e \in S
  PROVE  /\ s \o <<e>> \in Seq(S) /\ Len(s) + 1 \in DOMAIN (s \o <<e>>)
         /\ (s \o <<e>>)[Len(s) + 1] = e /\ RemoveAt(s \o <<e>>, Len(s) + 1) = s
<1> DEFINE t == s \o <<e>>
<1> DEFINE k == Len(s) + 1
<1> DEFINE r == RemoveAt(t, k)
<1>1. Len(s) \in Nat /\ t \in Seq(S) /\ Len(t) = k /\ t[k] = e /\ k \in DOMAIN t /\ \A j \in 1..Len(s) : t[j] = s[j]
  OBVIOUS
<1> HIDE DEF t
<1>2. /\ r \in Seq(S) /\ Len(r) = Len(t) - 1
      /\ \A j \in 1..Len(t) - 1 : r[j] = IF j < k THEN t[j] ELSE t[j + 1]
  BY <1>1, RemoveAtEntries
<1> HIDE DEF r
<1>3. Len(r) = Len(s) /\ \A j \in 1..Len(r) : r[j] = s[j]
  BY <1>1, <1>2
<1>4. r = s
  BY <1>2, <1>3, SeqEqual
<1>5. QED
  BY <1>1, <1>4 DEF t, r

LEMMA MaxIs ==
  ASSUME NEW n \in Nat, NEW T, T \subseteq 0..n, T # {}
  PROVE  Max(T) \in T /\ \A x \in T : x <= Max(T)
<1> DEFINE Down == {n - x : x \in T}
<1>1. Down \subseteq Nat /\ Down # {}
  <2>1. ASSUME NEW x \in T PROVE n - x \in Nat
    <3>1. x \in 0..n
      OBVIOUS
    <3>2. QED
      BY <3>1
  <2>2. PICK x : x \in T
    OBVIOUS
  <2>3. n - x \in Down
    BY <2>2
  <2>4. QED
    BY <2>1, <2>3
<1>2. PICK d \in Down : \A y \in Down : d <= y
  <2> HIDE DEF Down
  <2>1. QED
    BY <1>1, Least
<1>3. PICK x \in T : d = n - x
  OBVIOUS
<1>4. ASSUME NEW y \in T PROVE x >= y
  <2>1. n - y \in Down /\ x \in Int /\ y \in Int
    OBVIOUS
  <2>2. QED
    BY <1>2, <1>3, <2>1
<1>5. Max(T) \in T /\ \A y \in T : Max(T) >= y
  BY <1>4 DEF Max
<1>6. QED
  BY <1>5
=============================================================================
