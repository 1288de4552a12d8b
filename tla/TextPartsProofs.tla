---------------------------- MODULE TextPartsProofs ----------------------------
(***************************************************************************)
(* What a user writes and reads around a text: the search box and its      *)
(* chips, the comments beside a text, and what is highlighted in it.       *)
(***************************************************************************)
EXTENDS ChipEditor, CommentPanel, CommentHighlighter, ListLemmas

(***************************************************************************)
(* The search box: a row has an input on either side of each chip, and     *)
(* deleting a chip joins the inputs beside it and moves what follows two   *)
(* places forward.                                                         *)
(***************************************************************************)

Letters == Words \cup {Plus, Minus}
AnyElement == AllInputs \cup AllChips

Odd(i) == i % 2 = 1
Alternates(es) == \A i \in DOMAIN es : IF Odd(i) THEN es[i] \in AllInputs ELSE es[i] \in AllChips
IsRow(es) == es \in Seq(AnyElement) /\ (es = <<>> \/ Odd(Len(es))) /\ Alternates(es)

LEMMA OddIs ==
  /\ Odd(1)
  /\ \A i \in Int : (Odd(i + 1) <=> ~Odd(i)) /\ (Odd(i - 1) <=> ~Odd(i)) /\ (Odd(i + 2) <=> Odd(i)) /\ (Odd(i - 2) <=> Odd(i))
BY DEF Odd

LEMMA KindsAre ==
  /\ \A e \in AllInputs : e.type = "input" /\ e.text \in Seq(Letters) /\ e.chipStart \in Nat /\ e.cursorPosition \in Nat
                          /\ e.chipStart <= e.cursorPosition /\ e.cursorPosition <= Len(e.text)
  /\ \A e \in AllChips : e.type = "chip" /\ e \notin Letters /\ e.type # "input"
<1>1. AllChips \cap Letters = {}
  BY QueriesAssumption DEF QueriesAssumption, Letters
<1>2. \A e \in AllInputs : e.type = "input" /\ e.text \in Seq(Letters) /\ e.chipStart \in Nat /\ e.cursorPosition \in Nat
                          /\ e.chipStart <= e.cursorPosition /\ e.cursorPosition <= Len(e.text)
  BY DEF AllInputs, Letters
<1>3. \A e \in AllChips : e.type = "chip"
  BY DEF AllChips
<1>4. QED
  BY <1>1, <1>2, <1>3

LEMMA InputIs ==
  ASSUME NEW text \in Seq(Letters), NEW start \in Nat, NEW cursor \in Nat, start <= cursor, cursor <= Len(text)
  PROVE  Input(text, start, cursor) \in AllInputs /\ Input(text, start, cursor).text = text
BY DEF Input, AllInputs, Letters

LEMMA Replaced ==
  ASSUME NEW es, IsRow(es), NEW i \in DOMAIN es, NEW e, IF Odd(i) THEN e \in AllInputs ELSE e \in AllChips
  PROVE  IsRow([es EXCEPT ![i] = e]) /\ Len([es EXCEPT ![i] = e]) = Len(es)
<1>1. es \in Seq(AnyElement) /\ e \in AnyElement /\ Alternates(es) /\ (es = <<>> \/ Odd(Len(es)))
  BY DEF IsRow, AnyElement
<1> DEFINE r == [es EXCEPT ![i] = e]
<1>2. r \in Seq(AnyElement) /\ Len(r) = Len(es) /\ DOMAIN r = DOMAIN es /\ r[i] = e /\ \A j \in DOMAIN es : j # i => r[j] = es[j]
  BY <1>1
<1>3. es # <<>>
  OBVIOUS
<1> HIDE DEF r
<1>4. Alternates(r)
  BY <1>1, <1>2 DEF Alternates
<1>5. QED
  BY <1>1, <1>2, <1>3, <1>4 DEF IsRow, r

\* What stands beside what.
LEMMA RowIs ==
  ASSUME NEW es, IsRow(es)
  PROVE  /\ es \in Seq(AnyElement) /\ Len(es) \in Nat /\ DOMAIN es = 1..Len(es)
         /\ es # <<>> => Odd(Len(es))
         /\ \A i \in DOMAIN es : /\ i \in Int
                                 /\ Odd(i) <=> es[i].type = "input"
                                 /\ Odd(i) => es[i] \in AllInputs
                                 /\ ~Odd(i) => es[i] \in AllChips /\ i - 1 \in DOMAIN es /\ i + 1 \in DOMAIN es
<1>1. es \in Seq(AnyElement) /\ Len(es) \in Nat /\ DOMAIN es = 1..Len(es) /\ (es # <<>> => Odd(Len(es))) /\ Alternates(es)
  BY DEF IsRow
<1>2. ASSUME NEW i \in DOMAIN es
      PROVE  /\ i \in Int
             /\ Odd(i) <=> es[i].type = "input"
             /\ Odd(i) => es[i] \in AllInputs
             /\ ~Odd(i) => es[i] \in AllChips /\ i - 1 \in DOMAIN es /\ i + 1 \in DOMAIN es
  <2>1. i \in Int /\ 1 <= i /\ i <= Len(es) /\ es # <<>>
    BY <1>1
  <2>2. (Odd(i) => es[i] \in AllInputs) /\ (~Odd(i) => es[i] \in AllChips)
    BY DEF Alternates, IsRow
  <2>3. ~Odd(i) => i # 1 /\ i # Len(es)
    BY <1>1, <2>1, OddIs
  <2>4. ~Odd(i) => i - 1 \in DOMAIN es /\ i + 1 \in DOMAIN es
    BY <1>1, <2>1, <2>3
  <2>5. Odd(i) <=> es[i].type = "input"
    BY <2>2, KindsAre
  <2>6. QED
    BY <2>1, <2>2, <2>4, <2>5
<1>3. QED
  BY <1>1, <1>2

\* Three entries between others.
Between(S, front, three, back, m, n) ==
  LET r == (front \o three) \o back
  IN  /\ r \in Seq(S) /\ Len(r) = m + 3 + n
      /\ \A j \in 1..m : r[j] = front[j]
      /\ \A j \in 1..3 : r[m + j] = three[j]
      /\ \A j \in 1..n : r[m + 3 + j] = back[j]

LEMMA ThreeBetween ==
  ASSUME NEW S, NEW front \in Seq(S), NEW three \in Seq(S), NEW back \in Seq(S),
         NEW m \in Nat, NEW n \in Nat, Len(front) = m, Len(three) = 3, Len(back) = n
  PROVE  Between(S, front, three, back, m, n)
<1> DEFINE ft == front \o three
<1>1. /\ ft \in Seq(S) /\ Len(ft) = m + 3
      /\ \A j \in 1..m + 3 : ft[j] = IF j <= m THEN front[j] ELSE three[j - m]
  <2>1. /\ ft \in Seq(S) /\ Len(ft) = Len(front) + Len(three)
        /\ \A j \in 1..Len(front) + Len(three) : ft[j] = IF j <= Len(front) THEN front[j] ELSE three[j - Len(front)]
    BY ConcatEntries
  <2> HIDE DEF ft
  <2>2. QED
    BY <2>1
<1> HIDE DEF ft
<1> DEFINE r == ft \o back
<1>2. /\ r \in Seq(S) /\ Len(r) = m + 3 + n
      /\ \A j \in 1..m + 3 + n : r[j] = IF j <= m + 3 THEN ft[j] ELSE back[j - (m + 3)]
  <2>0. ft \in Seq(S)
    BY <1>1
  <2>1. /\ r \in Seq(S) /\ Len(r) = Len(ft) + Len(back)
        /\ \A j \in 1..Len(ft) + Len(back) : r[j] = IF j <= Len(ft) THEN ft[j] ELSE back[j - Len(ft)]
    BY <2>0, ConcatEntries
  <2> HIDE DEF r
  <2>2. QED
    BY <1>1, <2>1
<1> HIDE DEF r
<1>3. ASSUME NEW j \in 1..m PROVE r[j] = front[j]
  <2>1. j \in 1..m + 3 /\ j \in 1..m + 3 + n /\ j <= m /\ j <= m + 3
    OBVIOUS
  <2>2. QED
    BY <1>1, <1>2, <2>1
<1>4. ASSUME NEW j \in 1..3 PROVE r[m + j] = three[j]
  <2>1. m + j \in 1..m + 3 /\ m + j \in 1..m + 3 + n /\ ~(m + j <= m) /\ m + j <= m + 3 /\ (m + j) - m = j
    OBVIOUS
  <2>2. QED
    BY <1>1, <1>2, <2>1
<1>5. ASSUME NEW j \in 1..n PROVE r[m + 3 + j] = back[j]
  <2>1. m + 3 + j \in 1..m + 3 + n /\ ~(m + 3 + j <= m + 3) /\ (m + 3 + j) - (m + 3) = j
    OBVIOUS
  <2>2. QED
    BY <1>2, <2>1
<1>6. QED
  BY <1>2, <1>3, <1>4, <1>5 DEF r, ft, Between

LEMMA Inserted ==
  ASSUME NEW es, IsRow(es), NEW i \in DOMAIN es, Odd(i), NEW a \in AllInputs, NEW c \in AllChips, NEW b \in AllInputs
  PROVE  LET r == SubSeq(es, 1, i - 1) \o <<a, c, b>> \o SubSeq(es, i + 1, Len(es))
         IN  IsRow(r) /\ Len(r) = Len(es) + 2
<1> DEFINE front == SubSeq(es, 1, i - 1)
<1> DEFINE three == <<a, c, b>>
<1> DEFINE back == SubSeq(es, i + 1, Len(es))
<1> DEFINE N == Len(es)
<1> DEFINE m == i - 1
<1> DEFINE n == N - i
<1>1. /\ es \in Seq(AnyElement) /\ N \in Nat /\ i \in 1..N /\ es # <<>> /\ Odd(N) /\ i \in Int
      /\ \A j \in 1..N : IF Odd(j) THEN es[j] \in AllInputs ELSE es[j] \in AllChips
  BY DEF IsRow, Alternates
<1>2. front \in Seq(AnyElement) /\ Len(front) = m /\ \A j \in 1..m : front[j] = es[j]
  BY <1>1
<1>3. back \in Seq(AnyElement) /\ Len(back) = n /\ \A j \in 1..n : back[j] = es[i + j]
  BY <1>1
<1>4. three \in Seq(AnyElement) /\ Len(three) = 3 /\ three[1] = a /\ three[2] = c /\ three[3] = b
  BY DEF AnyElement
<1>5. m \in Nat /\ n \in Nat /\ N = m + 1 + n /\ i = m + 1 /\ ~Odd(m)
  <2>1. ~Odd(i - 1)
    BY <1>1, OddIs
  <2>2. N \in Nat /\ i \in 1..N
    BY <1>1
  <2> HIDE DEF N
  <2>3. QED
    BY <2>1, <2>2
<1> DEFINE r == (front \o three) \o back
<1> HIDE DEF front, back, three, m, n, N
<1>6. /\ r \in Seq(AnyElement) /\ Len(r) = m + 3 + n
      /\ \A j \in 1..m : r[j] = front[j]
      /\ \A j \in 1..3 : r[m + j] = three[j]
      /\ \A j \in 1..n : r[m + 3 + j] = back[j]
  <2>1. Between(AnyElement, front, three, back, m, n)
    BY <1>2, <1>3, <1>4, <1>5, ThreeBetween
  <2>2. QED
    BY <2>1 DEF Between
<1> HIDE DEF r
<1>7. ASSUME NEW j \in 1..m + 3 + n PROVE IF Odd(j) THEN r[j] \in AllInputs ELSE r[j] \in AllChips
  <2>1. CASE j <= m
    <3>1. j \in 1..m /\ j \in 1..N
      BY <1>5, <2>1
    <3>2. r[j] = es[j]
      BY <1>2, <1>6, <3>1
    <3>3. QED
      BY <1>1, <3>1, <3>2
  <2>2. CASE j \in {m + 1, m + 2, m + 3}
    <3>1. r[m + 1] = a /\ r[m + 2] = c /\ r[m + 3] = b
      BY <1>4, <1>6
    <3>2. Odd(m + 1) /\ ~Odd(m + 2) /\ Odd(m + 3)
      BY <1>5, OddIs, m + 3 = (m + 1) + 2
    <3>3. QED
      BY <2>2, <3>1, <3>2
  <2>3. CASE j > m + 3
    <3> DEFINE k == j - (m + 3)
    <3>1. k \in 1..n /\ j = m + 3 + k /\ i + k \in 1..N /\ i + k = j - 2 /\ j \in Int
      BY <1>5, <2>3
    <3> HIDE DEF k
    <3>2. r[j] = back[k] /\ back[k] = es[i + k]
      BY <1>3, <1>6, <3>1
    <3>3. Odd(i + k) <=> Odd(j)
      BY <3>1, OddIs
    <3>4. QED
      BY <1>1, <3>1, <3>2, <3>3
  <2>4. QED
    BY <1>5, <2>1, <2>2, <2>3
<1>8. Len(r) = N + 2 /\ Odd(N + 2)
  BY <1>1, <1>5, <1>6, OddIs
<1>9. DOMAIN r = 1..m + 3 + n
  BY <1>5, <1>6
<1>10. IsRow(r) /\ Len(r) = N + 2
  BY <1>6, <1>7, <1>8, <1>9 DEF IsRow, Alternates
<1>11. QED
  BY <1>10 DEF r, front, three, back, N

Joined(a, b) == IF b.text = <<>> THEN a ELSE Input(a.text \o b.text, 0, 0)

LEMMA JoinedIs ==
  ASSUME NEW a \in AllInputs, NEW b \in AllInputs
  PROVE  Joined(a, b) \in AllInputs /\ Joined(a, b).text = a.text \o b.text
<1>1. a.text \in Seq(Letters) /\ b.text \in Seq(Letters)
  BY KindsAre
<1>2. CASE b.text = <<>>
  <2>1. a.text \o <<>> = a.text
    BY <1>1, ConcatEmptySeq
  <2>2. QED
    BY <1>2, <2>1 DEF Joined
<1>3. CASE b.text # <<>>
  <2> DEFINE text == a.text \o b.text
  <2>1. text \in Seq(Letters)
    BY <1>1
  <2> HIDE DEF text
  <2>2. Input(text, 0, 0) \in AllInputs /\ Input(text, 0, 0).text = text
    BY <2>1, InputIs
  <2>3. QED
    BY <1>3, <2>2 DEF Joined, text
<1>4. QED
  BY <1>2, <1>3

LEMMA MergeIs ==
  ASSUME NEW acc \in Seq(AnyElement), NEW e \in AnyElement
  PROVE  /\ Merge(acc, e) \in Seq(AnyElement)
         /\ acc = <<>> \/ e \in AllChips \/ acc[Len(acc)] \in AllChips => Merge(acc, e) = Append(acc, e)
         /\ acc # <<>> /\ e \in AllInputs /\ acc[Len(acc)] \in AllInputs =>
              /\ Len(Merge(acc, e)) = Len(acc)
              /\ \A j \in 1..Len(acc) - 1 : Merge(acc, e)[j] = acc[j]
              /\ Merge(acc, e)[Len(acc)] = Joined(acc[Len(acc)], e)
<1>1. Append(acc, e) \in Seq(AnyElement)
  OBVIOUS
<1>2. CASE acc = <<>> \/ e \in AllChips \/ acc[Len(acc)] \in AllChips
  <2>1. Merge(acc, e) = Append(acc, e)
    BY <1>2, KindsAre DEF Merge, Last
  <2>2. acc # <<>> /\ e \in AllInputs => acc[Len(acc)] \notin AllInputs
    BY <1>2, KindsAre
  <2>3. QED
    BY <1>1, <2>1, <2>2
<1>3. CASE acc # <<>> /\ e \in AllInputs /\ acc[Len(acc)] \in AllInputs
  <2> DEFINE last == acc[Len(acc)]
  <2>1. last \in AllInputs /\ last.type = "input" /\ e.type = "input" /\ Len(acc) \in Nat /\ Len(acc) >= 1
    BY <1>3, KindsAre
  <2>2. Joined(last, e) \in AnyElement
    BY <1>3, <2>1, JoinedIs DEF AnyElement
  <2>3. Merge(acc, e) = IF e.text = <<>> THEN acc ELSE Append(SubSeq(acc, 1, Len(acc) - 1), Input(last.text \o e.text, 0, 0))
    BY <1>3, <2>1 DEF Merge, Last, Front
  <2>4. CASE e.text = <<>>
    BY <1>3, <2>1, <2>3, <2>4, KindsAre DEF Joined
  <2>5. CASE e.text # <<>>
    <3> DEFINE front == SubSeq(acc, 1, Len(acc) - 1)
    <3> DEFINE j == Joined(last, e)
    <3>1. front \in Seq(AnyElement) /\ Len(front) = Len(acc) - 1 /\ \A k \in 1..Len(acc) - 1 : front[k] = acc[k]
      <4> DEFINE n == Len(acc) - 1
      <4>1. n \in Nat /\ n <= Len(acc)
        BY <2>1
      <4> HIDE DEF n
      <4>2. SubSeq(acc, 1, n) \in Seq(AnyElement) /\ Len(SubSeq(acc, 1, n)) = n
        BY <4>1
      <4>3. \A k \in 1..n : SubSeq(acc, 1, n)[k] = acc[k]
        BY <4>1
      <4>4. QED
        BY <4>2, <4>3 DEF n
    <3>2. Merge(acc, e) = Append(front, j)
      BY <2>3, <2>5 DEF Joined
    <3>3. j \in AnyElement
      BY <2>2
    <3> HIDE DEF front, j
    <3>4. /\ Append(front, j) \in Seq(AnyElement) /\ Len(Append(front, j)) = Len(acc)
          /\ \A k \in 1..Len(acc) - 1 : Append(front, j)[k] = acc[k]
          /\ Append(front, j)[Len(acc)] = j
      BY <2>1, <3>1, <3>3
    <3>5. ~(acc = <<>> \/ e \in AllChips \/ acc[Len(acc)] \in AllChips)
      BY <1>3, <2>1, KindsAre
    <3>6. QED
      BY <3>2, <3>4, <3>5 DEF j
  <2>6. QED
    BY <2>4, <2>5
<1>4. QED
  BY <1>2, <1>3 DEF AnyElement

LEMMA MergedIs ==
  ASSUME NEW row \in Seq(AnyElement)
  PROVE  \E m \in [0..Len(row) -> Seq(AnyElement)] :
           /\ m[0] = <<>> /\ \A k \in 1..Len(row) : m[k] = Merge(m[k - 1], row[k])
           /\ Merged(row) = m[Len(row)]
<1> DEFINE N == Len(row)
<1> DEFINE D == 0..N
<1> DEFINE V == Seq(AnyElement)
<1> DEFINE step == [x \in (1..N) \X V |-> Merge(x[2], row[x[1]])]
<1> DEFINE Body(f) == [k \in D |-> IF k = 0 THEN <<>> ELSE Merge(f[k - 1], row[k])]
<1> DEFINE m == CHOOSE f : f = Body(f)
<1>1. N \in Nat /\ <<>> \in V /\ \A k \in 1..N : row[k] \in AnyElement
  OBVIOUS
<1>2. \A k \in 1..N : \A v \in V : step[<<k, v>>] = Merge(v, row[k]) /\ step[<<k, v>>] \in V
  BY <1>1, MergeIs
<1>3. \E f \in [0..N -> V] : Folds(f, N, <<>>, step)
  <2>1. StaysIn(N, V, step)
    BY <1>2 DEF StaysIn
  <2>2. N \in Nat /\ <<>> \in V
    BY <1>1
  <2> HIDE DEF N, V, step
  <2>3. QED
    BY <2>1, <2>2, FoldExists
<1>4. PICK f \in [0..N -> V] : f[0] = <<>> /\ \A k \in 1..N : f[k] = step[<<k, f[k - 1]>>]
  BY <1>3 DEF Folds
<1> HIDE DEF V
<1>5. \A k \in 1..N : f[k] = Merge(f[k - 1], row[k])
  <2>1. \A k \in 1..N : k - 1 \in 0..N
    BY <1>1
  <2> HIDE DEF step, N
  <2>2. QED
    BY <1>2, <1>4, <2>1
<1>6. f = Body(f)
  <2>1. \A k \in D : f[k] = IF k = 0 THEN <<>> ELSE Merge(f[k - 1], row[k])
    BY <1>1, <1>4, <1>5, \A k \in D : k # 0 => k \in 1..N
  <2>2. f = [k \in D |-> f[k]]
    BY <1>4
  <2> HIDE DEF D
  <2>3. QED
    BY <2>1, <2>2
<1>7. m = Body(m)
  <2> HIDE DEF Body
  <2>1. QED
    BY <1>6
<1>8. Merged(row) = m[N]
  BY DEF Merged
<1> HIDE DEF m
<1>9. m[0] = <<>> /\ \A k \in 1..N : m[k] = Merge(m[k - 1], row[k])
  <2>1. 0 \in D /\ \A k \in 1..N : k \in D /\ k # 0
    BY <1>1
  <2> HIDE DEF D, N
  <2>2. QED
    BY <1>7, <2>1
<1>10. \A k \in D : m[k] \in V
  <2> DEFINE T == {k \in D : m[k] \in V}
  <2>1. 0 \in T
    BY <1>1, <1>9
  <2>2. ASSUME NEW k \in 1..N, k - 1 \in T PROVE k \in T
    <3>1. m[k - 1] \in Seq(AnyElement) /\ row[k] \in AnyElement
      BY <1>1, <2>2 DEF V
    <3>2. Merge(m[k - 1], row[k]) \in V
      BY <3>1, MergeIs DEF V
    <3>3. k \in D /\ m[k] = Merge(m[k - 1], row[k])
      BY <1>1, <1>9
    <3>4. QED
      BY <3>2, <3>3
  <2> HIDE DEF T, N
  <2>3. 0..N \subseteq T
    BY <1>1, <2>1, <2>2, UpTo
  <2>4. QED
    BY <2>3 DEF T
<1>11. m \in [D -> V]
  <2> HIDE DEF D
  <2>1. QED
    BY <1>7, <1>10
<1>12. QED
  BY <1>8, <1>9, <1>11 DEF V

\* What has been merged of a row without the chip at i, after k of its elements.
MergedSoFar(es, i, acc, k) ==
  /\ acc \in Seq(AnyElement)
  /\ Len(acc) = IF k < i THEN k ELSE k - 1
  /\ \A j \in 1..Len(acc) :
       acc[j] = IF j = i - 1 /\ k >= i THEN Joined(es[i - 1], es[i + 1]) ELSE IF j < i THEN es[j] ELSE es[j + 2]

LEMMA MergedFurther ==
  ASSUME NEW es, IsRow(es), NEW i \in DOMAIN es, ~Odd(i), NEW k \in 1..Len(es) - 1,
         NEW acc, MergedSoFar(es, i, acc, k - 1), NEW e, e = IF k < i THEN es[k] ELSE es[k + 1]
  PROVE  MergedSoFar(es, i, Merge(acc, e), k)
<1> DEFINE L == Len(es)
<1> DEFINE M == Merge(acc, e)
<1>1. /\ es \in Seq(AnyElement) /\ L \in Nat /\ i \in Int /\ 2 <= i /\ i < L /\ k \in Int /\ 1 <= k /\ k <= L - 1
      /\ DOMAIN es = 1..L
  <2>1. i - 1 \in DOMAIN es /\ i + 1 \in DOMAIN es
    BY RowIs
  <2>2. QED
    BY <2>1, RowIs
<1>2. \A j \in 1..L : /\ Odd(j) => es[j] \in AllInputs
                      /\ ~Odd(j) => es[j] \in AllChips
  BY <1>1, RowIs
<1> HIDE DEF L
<1>3. e \in AnyElement /\ (IF k < i THEN k ELSE k + 1) \in 1..L /\ Odd(i - 1) /\ Odd(i + 1)
  <2> DEFINE at == IF k < i THEN k ELSE k + 1
  <2>1. at \in 1..L
    BY <1>1
  <2>2. Odd(i - 1) /\ Odd(i + 1)
    BY <1>1, OddIs
  <2>3. e = es[at]
    OBVIOUS
  <2> HIDE DEF at
  <2>4. e \in AnyElement
    BY <1>1, <2>1, <2>3
  <2>5. QED
    BY <2>1, <2>2, <2>4 DEF at
<1>4. /\ acc \in Seq(AnyElement) /\ Len(acc) = IF k - 1 < i THEN k - 1 ELSE k - 2
      /\ \A j \in 1..Len(acc) :
           acc[j] = IF j = i - 1 /\ k - 1 >= i THEN Joined(es[i - 1], es[i + 1]) ELSE IF j < i THEN es[j] ELSE es[j + 2]
  BY <1>1 DEF MergedSoFar
<1>5. M \in Seq(AnyElement)
  BY <1>3, <1>4, MergeIs
<1>6. Joined(es[i - 1], es[i + 1]) \in AllInputs
  <2>1. i - 1 \in 1..L /\ i + 1 \in 1..L
    BY <1>1
  <2>2. QED
    BY <1>2, <1>3, <2>1, JoinedIs
<1>7. CASE k = i
  <2>1. Len(acc) = i - 1 /\ acc # <<>> /\ acc[i - 1] = es[i - 1] /\ e = es[i + 1]
    BY <1>1, <1>4, <1>7
  <2>2. acc[Len(acc)] \in AllInputs /\ e \in AllInputs
    <3>1. i - 1 \in 1..L /\ i + 1 \in 1..L
      BY <1>1
    <3>2. QED
      BY <1>2, <1>3, <2>1, <3>1
  <2>3. /\ Len(M) = Len(acc) /\ M[Len(acc)] = Joined(acc[Len(acc)], e)
        /\ \A j \in 1..Len(acc) - 1 : M[j] = acc[j]
    BY <1>3, <1>4, <2>1, <2>2, MergeIs
  <2> HIDE DEF M
  <2>4. Len(M) = k - 1 /\ M[i - 1] = Joined(es[i - 1], es[i + 1])
    BY <1>7, <2>1, <2>3
  <2>5. \A j \in 1..i - 2 : M[j] = es[j]
    BY <1>1, <1>4, <1>7, <2>1, <2>3
  <2>6. QED
    BY <1>1, <1>5, <1>7, <2>4, <2>5 DEF MergedSoFar, M
<1>8. CASE k # i
  <2>1. M = Append(acc, e)
    <3>1. CASE k = 1
      <4>1. Len(acc) = 0
        BY <1>1, <1>4, <3>1
      <4>2. acc = <<>>
        BY <1>4, <4>1
      <4>3. QED
        BY <1>3, <1>4, <4>2, MergeIs
    <3>2. CASE k # 1 /\ ~Odd(IF k < i THEN k ELSE k + 1)
      <4>1. e \in AllChips
        BY <1>2, <1>3, <3>2
      <4>2. QED
        BY <1>3, <1>4, <4>1, MergeIs
    <3>3. CASE k # 1 /\ Odd(IF k < i THEN k ELSE k + 1) /\ k < i
      <4>1. Len(acc) = k - 1 /\ k - 1 \in 1..Len(acc) /\ k - 1 \in 1..L
        BY <1>1, <1>4, <3>3
      <4>2. acc[Len(acc)] = es[k - 1]
        BY <1>1, <1>4, <3>3, <4>1
      <4>3. ~Odd(k - 1)
        BY <1>1, <3>3, OddIs
      <4>4. acc[Len(acc)] \in AllChips
        BY <1>2, <4>1, <4>2, <4>3
      <4>5. QED
        BY <1>3, <1>4, <4>4, MergeIs
    <3>4. CASE k # 1 /\ Odd(IF k < i THEN k ELSE k + 1) /\ k > i
      <4>1. k # i + 1
        <5>1. ~Odd(i + 2)
          BY <1>1, OddIs
        <5>2. QED
          BY <1>1, <3>4, <5>1
      <4>2. Len(acc) = k - 2 /\ k - 2 \in 1..Len(acc) /\ k \in 1..L /\ k - 2 >= i
        BY <1>1, <1>4, <3>4, <4>1
      <4>3. acc[Len(acc)] = es[k]
        BY <1>1, <1>4, <3>4, <4>2
      <4>4. ~Odd(k)
        <5>1. Odd(k + 1)
          BY <1>1, <3>4
        <5>2. QED
          BY <1>1, <5>1, OddIs
      <4>5. acc[Len(acc)] \in AllChips
        BY <1>2, <4>2, <4>3, <4>4
      <4>6. QED
        BY <1>3, <1>4, <4>5, MergeIs
    <3>5. QED
      BY <1>1, <1>8, <3>1, <3>2, <3>3, <3>4
  <2>2. Len(M) = Len(acc) + 1 /\ M[Len(acc) + 1] = e /\ \A j \in 1..Len(acc) : M[j] = acc[j]
    <3>1. acc \in Seq(AnyElement) /\ e \in AnyElement
      BY <1>3, <1>4
    <3> HIDE DEF M
    <3>2. QED
      BY <2>1, <3>1
  <2> HIDE DEF M
  <2>3. CASE k < i
    <3>1. Len(M) = k /\ M[k] = es[k]
      BY <1>1, <1>4, <2>2, <2>3
    <3>2. \A j \in 1..k - 1 : M[j] = es[j]
      BY <1>1, <1>4, <2>2, <2>3
    <3>3. QED
      BY <1>1, <1>5, <2>3, <3>1, <3>2 DEF MergedSoFar, M
  <2>4. CASE k > i
    <3>1. Len(M) = k - 1 /\ M[k - 1] = es[k + 1] /\ k - 1 >= i
      BY <1>1, <1>4, <2>2, <2>4
    <3>2. \A j \in 1..k - 2 : M[j] = IF j = i - 1 THEN Joined(es[i - 1], es[i + 1]) ELSE IF j < i THEN es[j] ELSE es[j + 2]
      BY <1>1, <1>4, <2>2, <2>4
    <3>3. QED
      BY <1>1, <1>5, <2>4, <3>1, <3>2 DEF MergedSoFar, M
  <2>5. QED
    BY <1>1, <1>8, <2>3, <2>4
<1>9. QED
  BY <1>7, <1>8

\* A row without the chip at i.
WithoutChip(es, i, r) ==
  /\ IsRow(r) /\ Len(r) = Len(es) - 2
  /\ \A j \in 1..i - 2 : r[j] = es[j]
  /\ r[i - 1] = Joined(es[i - 1], es[i + 1])
  /\ \A j \in i..Len(es) - 2 : r[j] = es[j + 2]

LEMMA DeletedRow ==
  ASSUME NEW es, IsRow(es), NEW i \in DOMAIN es, ~Odd(i)
  PROVE  WithoutChip(es, i, Merged(RemoveAt(es, i)))
<1> DEFINE L == Len(es)
<1> DEFINE row == RemoveAt(es, i)
<1> DEFINE N == Len(row)
<1>1. /\ es \in Seq(AnyElement) /\ L \in Nat /\ i \in Int /\ 2 <= i /\ i < L /\ Odd(L) /\ DOMAIN es = 1..L
      /\ i - 1 \in 1..L /\ i + 1 \in 1..L
  <2>1. i - 1 \in DOMAIN es /\ i + 1 \in DOMAIN es /\ es # <<>>
    BY RowIs
  <2>2. QED
    BY <2>1, RowIs
<1>2. /\ row \in Seq(AnyElement) /\ N = L - 1
      /\ \A j \in 1..L - 1 : row[j] = IF j < i THEN es[j] ELSE es[j + 1]
  <2>1. es \in Seq(AnyElement)
    BY <1>1
  <2>2. QED
    BY <2>1, RemoveAtEntries
<1> HIDE DEF row
<1>3. PICK m \in [0..N -> Seq(AnyElement)] :
        /\ m[0] = <<>> /\ \A k \in 1..N : m[k] = Merge(m[k - 1], row[k])
        /\ Merged(row) = m[N]
  <2>1. row \in Seq(AnyElement)
    BY <1>2
  <2>2. QED
    BY <2>1, MergedIs
<1> HIDE DEF N, L
<1> DEFINE T == {k \in 0..N : MergedSoFar(es, i, m[k], k)}
<1>4. 0 \in T
  <2>1. m[0] = <<>> /\ 0 \in 0..N
    BY <1>1, <1>2, <1>3
  <2>2. MergedSoFar(es, i, <<>>, 0)
    BY <1>1 DEF MergedSoFar
  <2>3. QED
    BY <2>1, <2>2
<1>5. ASSUME NEW k \in 1..N, k - 1 \in T PROVE k \in T
  <2>1. row[k] = IF k < i THEN es[k] ELSE es[k + 1]
    BY <1>2
  <2>2. MergedSoFar(es, i, m[k - 1], k - 1) /\ k \in 1..Len(es) - 1
    BY <1>1, <1>2, <1>5 DEF L
  <2> DEFINE acc == m[k - 1]
  <2> DEFINE e == row[k]
  <2> HIDE DEF acc, e
  <2>3. MergedSoFar(es, i, Merge(acc, e), k)
    BY <2>1, <2>2, MergedFurther DEF acc, e
  <2>4. QED
    BY <1>3, <2>3 DEF acc, e
<1>6. N \in T
  <2> HIDE DEF T
  <2>1. N \in Nat
    BY <1>1, <1>2
  <2>2. 0..N \subseteq T
    BY <1>4, <1>5, <2>1, UpTo
  <2>3. QED
    BY <2>1, <2>2
<1> DEFINE r == Merged(row)
<1>7. MergedSoFar(es, i, r, N)
  BY <1>3, <1>6
<1> HIDE DEF r
<1>8. /\ r \in Seq(AnyElement) /\ Len(r) = L - 2
      /\ \A j \in 1..L - 2 :
           r[j] = IF j = i - 1 THEN Joined(es[i - 1], es[i + 1]) ELSE IF j < i THEN es[j] ELSE es[j + 2]
  <2>1. r \in Seq(AnyElement) /\ Len(r) = IF N < i THEN N ELSE N - 1
    BY <1>7 DEF MergedSoFar
  <2>2. Len(r) = L - 2 /\ N >= i
    BY <1>1, <1>2, <2>1
  <2>3. \A j \in 1..L - 2 :
          r[j] = IF j = i - 1 /\ N >= i THEN Joined(es[i - 1], es[i + 1]) ELSE IF j < i THEN es[j] ELSE es[j + 2]
    BY <1>7, <2>2 DEF MergedSoFar
  <2>4. QED
    BY <2>1, <2>2, <2>3
<1>9. Joined(es[i - 1], es[i + 1]) \in AllInputs /\ Odd(i - 1)
  <2>1. Odd(i - 1) /\ Odd(i + 1)
    BY <1>1, OddIs
  <2>2. es[i - 1] \in AllInputs /\ es[i + 1] \in AllInputs
    BY <1>1, <2>1, RowIs
  <2>3. QED
    BY <2>1, <2>2, JoinedIs
<1>10. ASSUME NEW j \in 1..L - 2 PROVE IF Odd(j) THEN r[j] \in AllInputs ELSE r[j] \in AllChips
  <2>1. j \in Int /\ j \in 1..L /\ j + 2 \in 1..L /\ (Odd(j + 2) <=> Odd(j))
    BY <1>1, OddIs
  <2>2. es[j] \in (IF Odd(j) THEN AllInputs ELSE AllChips) /\ es[j + 2] \in (IF Odd(j) THEN AllInputs ELSE AllChips)
    BY <1>1, <2>1, RowIs
  <2>3. CASE j = i - 1
    BY <1>8, <1>9, <2>3
  <2>4. CASE j # i - 1
    BY <1>8, <2>2, <2>4
  <2>5. QED
    BY <2>3, <2>4
<1>11. Odd(L - 2)
  BY <1>1, OddIs
<1>12. DOMAIN r = 1..L - 2
  BY <1>8
<1>13. IsRow(r)
  BY <1>8, <1>10, <1>11, <1>12 DEF IsRow, Alternates
<1>14. QED
  <2>1. r[i - 1] = Joined(es[i - 1], es[i + 1])
    BY <1>1, <1>8
  <2>2. \A j \in 1..i - 2 : r[j] = es[j]
    BY <1>1, <1>8
  <2>3. \A j \in i..L - 2 : r[j] = es[j + 2]
    BY <1>1, <1>8
  <2>4. WithoutChip(es, i, r)
    BY <1>8, <1>13, <2>1, <2>2, <2>3 DEF WithoutChip, L
  <2>5. QED
    BY <2>4 DEF r, row

Item == Letters \cup AllChips
Content(e) == IF e.type = "input" THEN e.text ELSE <<e>>

LEMMA ContentIs ==
  /\ \A e \in AnyElement : Content(e) \in Seq(Item)
  /\ \A e \in AllInputs : Content(e) = e.text /\ e.text \in Seq(Item)
  /\ \A e \in AllChips : Content(e) = <<e>> /\ e \in Item /\ e \notin Letters
<1>1. ASSUME NEW e \in AllInputs PROVE Content(e) = e.text /\ e.text \in Seq(Item)
  <2>1. e.type = "input" /\ e.text \in Seq(Letters)
    BY KindsAre
  <2>2. Letters \subseteq Item
    BY DEF Item
  <2>3. QED
    BY <2>1, <2>2, SeqMonotonic DEF Content
<1>2. ASSUME NEW e \in AllChips PROVE Content(e) = <<e>> /\ e \in Item /\ e \notin Letters
  BY KindsAre DEF Content, Item
<1>3. \A e \in AllChips : <<e>> \in Seq(Item)
  BY <1>2
<1>4. QED
  BY <1>1, <1>2, <1>3 DEF AnyElement

LEMMA FlattenedIs ==
  ASSUME NEW es \in Seq(AnyElement)
  PROVE  \E f \in [0..Len(es) -> Seq(Item)] :
           /\ f[0] = <<>> /\ \A k \in 1..Len(es) : f[k] = f[k - 1] \o Content(es[k])
           /\ Flattened(es) = f[Len(es)]
<1> DEFINE N == Len(es)
<1> DEFINE D == 0..N
<1> DEFINE V == Seq(Item)
<1> DEFINE step == [x \in (1..N) \X V |-> x[2] \o Content(es[x[1]])]
<1> DEFINE Body(f) == [k \in D |-> IF k = 0 THEN <<>> ELSE f[k - 1] \o Content(es[k])]
<1> DEFINE m == CHOOSE f : f = Body(f)
<1>1. N \in Nat /\ <<>> \in V /\ \A k \in 1..N : Content(es[k]) \in V
  BY ContentIs
<1>2. \A k \in 1..N : \A v \in V : step[<<k, v>>] = v \o Content(es[k]) /\ step[<<k, v>>] \in V
  <2>1. ASSUME NEW k \in 1..N, NEW v \in V
        PROVE  step[<<k, v>>] = v \o Content(es[k]) /\ step[<<k, v>>] \in V
    <3> DEFINE c == Content(es[k])
    <3>1. c \in Seq(Item) /\ v \in Seq(Item)
      BY <1>1
    <3>2. step[<<k, v>>] = v \o c
      OBVIOUS
    <3> HIDE DEF c, step
    <3>3. v \o c \in Seq(Item)
      BY <3>1, ConcatEntries
    <3>4. QED
      BY <3>2, <3>3 DEF c
  <2> HIDE DEF step
  <2>2. QED
    BY <2>1
<1>3. \E f \in [0..N -> V] : Folds(f, N, <<>>, step)
  <2>1. StaysIn(N, V, step)
    BY <1>2 DEF StaysIn
  <2>2. N \in Nat /\ <<>> \in V
    BY <1>1
  <2> HIDE DEF N, V, step
  <2>3. QED
    BY <2>1, <2>2, FoldExists
<1>4. PICK f \in [0..N -> V] : f[0] = <<>> /\ \A k \in 1..N : f[k] = step[<<k, f[k - 1]>>]
  BY <1>3 DEF Folds
<1> HIDE DEF V
<1>5. \A k \in 1..N : f[k] = f[k - 1] \o Content(es[k])
  <2>1. \A k \in 1..N : k - 1 \in 0..N
    BY <1>1
  <2> HIDE DEF step, N
  <2>2. QED
    BY <1>2, <1>4, <2>1
<1>6. f = Body(f)
  <2>1. \A k \in D : f[k] = IF k = 0 THEN <<>> ELSE f[k - 1] \o Content(es[k])
    BY <1>1, <1>4, <1>5, \A k \in D : k # 0 => k \in 1..N
  <2>2. f = [k \in D |-> f[k]]
    BY <1>4
  <2> HIDE DEF D
  <2>3. QED
    BY <2>1, <2>2
<1>7. m = Body(m)
  <2> HIDE DEF Body
  <2>1. QED
    BY <1>6
<1>8. Flattened(es) = m[N]
  BY DEF Flattened, Content
<1> HIDE DEF m
<1>9. m[0] = <<>> /\ \A k \in 1..N : m[k] = m[k - 1] \o Content(es[k])
  <2>1. 0 \in D /\ \A k \in 1..N : k \in D /\ k # 0
    BY <1>1
  <2> HIDE DEF D, N
  <2>2. QED
    BY <1>7, <2>1
<1>10. \A k \in D : m[k] \in V
  <2> DEFINE T == {k \in D : m[k] \in V}
  <2>1. 0 \in T
    BY <1>1, <1>9
  <2>2. ASSUME NEW k \in 1..N, k - 1 \in T PROVE k \in T
    <3> DEFINE c == Content(es[k])
    <3>1. m[k - 1] \in Seq(Item) /\ c \in Seq(Item)
      BY <1>1, <2>2 DEF V
    <3>2. k \in D /\ m[k] = m[k - 1] \o c
      BY <1>1, <1>9
    <3> HIDE DEF c
    <3>3. m[k - 1] \o c \in V
      BY <3>1, ConcatEntries DEF V
    <3>4. QED
      BY <3>2, <3>3
  <2> HIDE DEF T, N
  <2>3. 0..N \subseteq T
    BY <1>1, <2>1, <2>2, UpTo
  <2>4. QED
    BY <2>3 DEF T
<1>11. m \in [D -> V]
  <2> HIDE DEF D
  <2>1. QED
    BY <1>7, <1>10
<1>12. QED
  BY <1>8, <1>9, <1>11 DEF V

ChipTaken(s, t) == \E k \in DOMAIN s : s[k] \notin Letters /\ t = RemoveAt(s, k)

\* Deleting a chip takes it, and nothing else, out of the words and chips.
LEMMA ChipGoes ==
  ASSUME NEW es, IsRow(es), NEW i \in DOMAIN es, ~Odd(i), NEW r, WithoutChip(es, i, r)
  PROVE  ChipTaken(Flattened(es), Flattened(r))
<1> DEFINE L == Len(es)
<1>1. /\ es \in Seq(AnyElement) /\ L \in Nat /\ i \in Int /\ 2 <= i /\ i < L /\ DOMAIN es = 1..L
      /\ i - 1 \in 1..L /\ i + 1 \in 1..L /\ es[i] \in AllChips
  <2>1. i - 1 \in DOMAIN es /\ i + 1 \in DOMAIN es /\ es # <<>>
    BY RowIs
  <2>2. QED
    BY <2>1, RowIs
<1>2. r \in Seq(AnyElement) /\ Len(r) = L - 2
  BY DEF WithoutChip, IsRow
<1>3. PICK f \in [0..Len(es) -> Seq(Item)] :
        /\ f[0] = <<>> /\ \A k \in 1..Len(es) : f[k] = f[k - 1] \o Content(es[k])
        /\ Flattened(es) = f[Len(es)]
  BY <1>1, FlattenedIs
<1>4. PICK g \in [0..Len(r) -> Seq(Item)] :
        /\ g[0] = <<>> /\ \A k \in 1..Len(r) : g[k] = g[k - 1] \o Content(r[k])
        /\ Flattened(r) = g[Len(r)]
  BY <1>2, FlattenedIs
<1>5. /\ f \in [0..L -> Seq(Item)] /\ f[0] = <<>> /\ \A k \in 1..L : f[k] = f[k - 1] \o Content(es[k])
      /\ g \in [0..L - 2 -> Seq(Item)] /\ g[0] = <<>> /\ \A k \in 1..L - 2 : g[k] = g[k - 1] \o Content(r[k])
  BY <1>2, <1>3, <1>4
<1> HIDE DEF L
<1>6. g[i - 2] = f[i - 2]
  <2> DEFINE T == {k \in 0..i - 2 : g[k] = f[k]}
  <2>1. 0 \in T
    <3>1. 0 \in 0..i - 2
      BY <1>1
    <3>2. g[0] = f[0]
      BY <1>5
    <3>3. QED
      BY <3>1, <3>2
  <2>2. ASSUME NEW k \in 1..i - 2, k - 1 \in T PROVE k \in T
    <3>1. k \in 1..L - 2 /\ k \in 1..L /\ k \in 0..i - 2
      BY <1>1
    <3>2. r[k] = es[k]
      BY DEF WithoutChip
    <3>3. g[k - 1] = f[k - 1]
      BY <2>2
    <3>4. QED
      BY <1>5, <3>1, <3>2, <3>3
  <2> DEFINE n == i - 2
  <2>3. n \in Nat
    BY <1>1
  <2> HIDE DEF T, n
  <2>4. 0..n \subseteq T
    BY <2>1, <2>2, <2>3, UpTo DEF n
  <2>5. n \in T
    BY <2>3, <2>4
  <2>6. QED
    BY <2>5 DEF T, n
<1> DEFINE p == f[i - 2]
<1> DEFINE a == es[i - 1].text
<1> DEFINE b == es[i + 1].text
<1> DEFINE c == es[i]
<1>7. /\ p \in Seq(Item) /\ a \in Seq(Item) /\ b \in Seq(Item) /\ c \in Item /\ c \notin Letters
      /\ Content(es[i - 1]) = a /\ Content(es[i]) = <<c>> /\ Content(es[i + 1]) = b
      /\ Content(r[i - 1]) = a \o b
  <2>1. Odd(i - 1) /\ Odd(i + 1)
    BY <1>1, OddIs
  <2>2. es[i - 1] \in AllInputs /\ es[i + 1] \in AllInputs
    BY <1>1, <2>1, RowIs
  <2>3. Joined(es[i - 1], es[i + 1]) \in AllInputs /\ Joined(es[i - 1], es[i + 1]).text = a \o b
    BY <2>2, JoinedIs
  <2>4. r[i - 1] = Joined(es[i - 1], es[i + 1])
    BY DEF WithoutChip
  <2>5. i - 2 \in 0..L
    BY <1>1
  <2>6. p \in Seq(Item)
    BY <1>5, <2>5
  <2> HIDE DEF p, a, b, c
  <2>7. Content(r[i - 1]) = a \o b
    BY <2>3, <2>4, ContentIs
  <2>8. a \in Seq(Item) /\ b \in Seq(Item) /\ Content(es[i - 1]) = a /\ Content(es[i + 1]) = b
    BY <2>2, ContentIs DEF a, b
  <2>9. c \in Item /\ c \notin Letters /\ Content(es[i]) = <<c>>
    BY <1>1, ContentIs DEF c
  <2>10. QED
    BY <2>6, <2>7, <2>8, <2>9
<1>8. f[i - 1] = p \o a /\ f[i] = (p \o a) \o <<c>> /\ f[i + 1] = ((p \o a) \o <<c>>) \o b /\ g[i - 1] = p \o (a \o b)
  <2>1. i - 1 \in 1..L /\ i \in 1..L /\ i + 1 \in 1..L /\ i - 1 \in 1..L - 2
        /\ (i - 1) - 1 = i - 2 /\ (i + 1) - 1 = i
    BY <1>1
  <2>2. f[i - 1] = f[i - 2] \o Content(es[i - 1]) /\ f[i] = f[i - 1] \o Content(es[i]) /\ f[i + 1] = f[i] \o Content(es[i + 1])
        /\ g[i - 1] = g[i - 2] \o Content(r[i - 1])
    BY <1>5, <2>1
  <2> HIDE DEF a, b, c
  <2>3. QED
    BY <1>6, <1>7, <2>2
<1> HIDE DEF p, a, b, c
<1> DEFINE pa == p \o a
<1> DEFINE k == Len(pa) + 1
<1>9. pa \in Seq(Item)
  BY <1>7, ConcatEntries
<1>10. p \o (a \o b) = pa \o b
  <2>1. p \in Seq(Item) /\ a \in Seq(Item) /\ b \in Seq(Item)
    BY <1>7
  <2>2. (p \o a) \o b = p \o (a \o b)
    BY <2>1, ConcatAssociative
  <2>3. QED
    BY <2>2 DEF pa
<1> HIDE DEF pa
<1> DEFINE pac == pa \o <<c>>
<1>11. pac \in Seq(Item) /\ k \in DOMAIN pac /\ pac[k] = c /\ RemoveAt(pac, k) = pa
  BY <1>7, <1>9, RemoveLast
<1> HIDE DEF pac, k
<1> DEFINE Gone(s, t) == k \in DOMAIN s /\ s[k] = c /\ t = RemoveAt(s, k)
<1>12. Gone(f[i + 1], g[i - 1])
  <2>1. k \in DOMAIN (pac \o b) /\ (pac \o b)[k] = pac[k] /\ RemoveAt(pac \o b, k) = RemoveAt(pac, k) \o b
    <3>1. pac \in Seq(Item) /\ b \in Seq(Item) /\ k \in DOMAIN pac
      BY <1>7, <1>11
    <3>2. QED
      BY <3>1, RemoveAtConcat
  <2>2. f[i + 1] = pac \o b /\ g[i - 1] = pa \o b
    BY <1>8, <1>10 DEF pac, pa
  <2>3. QED
    BY <1>11, <2>1, <2>2
<1> DEFINE n == L - 2 - (i - 1)
<1> DEFINE T == {j \in 0..n : Gone(f[i + 1 + j], g[i - 1 + j])}
<1>13. 0 \in T
  <2>1. 0 \in 0..n /\ i + 1 + 0 = i + 1 /\ i - 1 + 0 = i - 1
    BY <1>1
  <2> HIDE DEF Gone, n
  <2>2. QED
    BY <1>12, <2>1
<1>14. ASSUME NEW j \in 1..n, j - 1 \in T PROVE j \in T
  <2> DEFINE x == f[i + 1 + (j - 1)]
  <2> DEFINE y == g[i - 1 + (j - 1)]
  <2> DEFINE d == Content(es[i + 1 + j])
  <2>1. /\ i + 1 + j \in 1..L /\ (i + 1 + j) - 1 = i + 1 + (j - 1) /\ i + 1 + (j - 1) \in 0..L
        /\ i - 1 + j \in 1..L - 2 /\ (i - 1 + j) - 1 = i - 1 + (j - 1) /\ j \in 0..n
        /\ i - 1 + j \in i..L - 2 /\ i + 1 + j = (i - 1 + j) + 2
    <3>1. i \in Int /\ 2 <= i /\ i < L /\ L \in Nat
      BY <1>1
    <3>2. j \in Int /\ 1 <= j /\ j <= L - 2 - (i - 1) /\ j \in 0..n
      BY <3>1
    <3> HIDE DEF n
    <3>3. /\ i + 1 + j \in 1..L /\ i + 1 + (j - 1) \in 0..L
          /\ i - 1 + j \in 1..L - 2 /\ i - 1 + j \in i..L - 2
      BY <3>1, <3>2
    <3>4. (i + 1 + j) - 1 = i + 1 + (j - 1) /\ (i - 1 + j) - 1 = i - 1 + (j - 1) /\ i + 1 + j = (i - 1 + j) + 2
      <4>1. i \in Int /\ j \in Int
        BY <3>1, <3>2
      <4>2. (i + 1 + j) - 1 = i + 1 + (j - 1)
        BY <4>1
      <4>3. (i - 1 + j) - 1 = i - 1 + (j - 1)
        BY <4>1
      <4>4. i + 1 + j = (i - 1 + j) + 2
        BY <4>1
      <4>5. QED
        BY <4>2, <4>3, <4>4
    <3>5. QED
      BY <3>2, <3>3, <3>4
  <2>2. r[i - 1 + j] = es[i + 1 + j]
    BY <1>1, <2>1 DEF WithoutChip, L
  <2>3. f[i + 1 + j] = x \o d /\ g[i - 1 + j] = y \o d
    BY <1>5, <2>1, <2>2
  <2>4. Gone(x, y)
    <3> HIDE DEF Gone, x, y
    <3>1. QED
      BY <1>14 DEF x, y
  <2>5. x \in Seq(Item)
    BY <1>5, <2>1
  <2>6. d \in Seq(Item)
    <3>1. es[i + 1 + j] \in AnyElement
      <4>1. es \in Seq(AnyElement) /\ i + 1 + j \in 1..Len(es)
        BY <1>1, <2>1 DEF L
      <4> DEFINE at == i + 1 + j
      <4> HIDE DEF at
      <4>2. es[at] \in AnyElement
        BY <4>1 DEF at
      <4>3. QED
        BY <4>2 DEF at
    <3>2. QED
      BY <3>1, ContentIs
  <2> HIDE DEF x, y, d
  <2>7. k \in DOMAIN (x \o d) /\ (x \o d)[k] = x[k] /\ RemoveAt(x \o d, k) = RemoveAt(x, k) \o d
    BY <2>4, <2>5, <2>6, RemoveAtConcat
  <2>8. Gone(x \o d, y \o d)
    BY <2>4, <2>7
  <2> HIDE DEF Gone
  <2>9. QED
    BY <2>1, <2>3, <2>8
<1>15. n \in T
  <2>1. n \in Nat
    BY <1>1
  <2> HIDE DEF T, n
  <2>2. 0..n \subseteq T
    BY <1>13, <1>14, <2>1, UpTo
  <2>3. QED
    BY <2>1, <2>2
<1>16. Gone(f[L], g[L - 2])
  <2>1. i + 1 + n = L /\ i - 1 + n = L - 2
    <3>1. i \in Int /\ L \in Int
      BY <1>1
    <3>2. QED
      BY <3>1
  <2> HIDE DEF Gone, n
  <2>2. QED
    BY <1>15, <2>1
<1>17. Flattened(es) = f[L] /\ Flattened(r) = g[L - 2]
  BY <1>2, <1>3, <1>4 DEF L
<1>18. QED
  BY <1>7, <1>16, <1>17 DEF ChipTaken

-----------------------------------------------------------------------------
(* What the user does in the search box *)

ChipInv ==
  /\ IsRow(elements)
  /\ suggestions \in {<<>>, Fields} /\ currentChip \in Nat /\ (currentChip <= Len(Fields) \/ currentChip = 1)
  /\ current \in Nat /\ replaced \in Nat

\* A step of the search box, or one that received another query.
StepIsGood ==
  /\ ChipInv'
  /\ replaced' = replaced =>
       FocusIsThere' /\ (Len(elements') < Len(elements) => ChipTaken(Flattened(elements), Flattened(elements')))

LEMMA ElementsAre ==
  ASSUME ChipInv
  PROVE  /\ elements \in Seq(AnyElement) /\ Len(elements) \in Nat /\ DOMAIN elements = 1..Len(elements)
         /\ \A i \in DOMAIN elements : i \in Int
         /\ \A i \in Inputs : i \in DOMAIN elements /\ Odd(i) /\ elements[i] \in AllInputs
         /\ \A i \in Chips : /\ i \in DOMAIN elements /\ ~Odd(i) /\ elements[i] \in AllChips
                             /\ i - 1 \in DOMAIN elements /\ i + 1 \in DOMAIN elements
<1>1. IsRow(elements)
  BY DEF ChipInv
<1>2. /\ elements \in Seq(AnyElement) /\ Len(elements) \in Nat /\ DOMAIN elements = 1..Len(elements)
      /\ \A i \in DOMAIN elements : /\ i \in Int
                                    /\ Odd(i) <=> elements[i].type = "input"
                                    /\ Odd(i) => elements[i] \in AllInputs
                                    /\ ~Odd(i) => elements[i] \in AllChips /\ i - 1 \in DOMAIN elements /\ i + 1 \in DOMAIN elements
  BY <1>1, RowIs
<1>3. \A i \in Inputs : i \in DOMAIN elements /\ Odd(i) /\ elements[i] \in AllInputs
  BY <1>2 DEF Inputs
<1>4. \A i \in Chips : /\ i \in DOMAIN elements /\ ~Odd(i) /\ elements[i] \in AllChips
                       /\ i - 1 \in DOMAIN elements /\ i + 1 \in DOMAIN elements
  BY <1>2 DEF Chips, Inputs
<1>5. QED
  BY <1>2, <1>3, <1>4

\* One element is changed to another of its kind.
LEMMA ChangeIsGood ==
  ASSUME ChipInv, FocusIsThere, NEW i \in DOMAIN elements, NEW e,
         IF Odd(i) THEN e \in AllInputs ELSE e \in AllChips,
         elements' = [elements EXCEPT ![i] = e], current' = i \/ current' = current,
         suggestions' \in {<<>>, Fields}, currentChip' = 1 \/ currentChip' = currentChip, replaced' = replaced
  PROVE  StepIsGood
<1>1. IsRow(elements) /\ elements \in Seq(AnyElement) /\ Len(elements) \in Nat /\ DOMAIN elements = 1..Len(elements)
  BY ElementsAre DEF ChipInv
<1> DEFINE r == [elements EXCEPT ![i] = e]
<1>2. IsRow(r) /\ Len(r) = Len(elements) /\ DOMAIN r = DOMAIN elements
  BY <1>1, Replaced
<1> HIDE DEF r
<1>3. elements' = r
  BY DEF r
<1>4. IsRow(elements)'
  BY <1>2, <1>3 DEF IsRow, Alternates
<1>5. current' \in DOMAIN elements \cup {0} /\ current' \in Nat
  BY <1>1 DEF FocusIsThere, ChipInv
<1>6. ~(Len(elements') < Len(elements))
  BY <1>1, <1>2, <1>3
<1>7. ChipInv'
  BY <1>4, <1>5 DEF ChipInv
<1>8. FocusIsThere'
  BY <1>2, <1>3, <1>5 DEF FocusIsThere
<1>9. QED
  BY <1>6, <1>7, <1>8 DEF StepIsGood

\* The row stays as it is.
LEMMA FocusMoveIsGood ==
  ASSUME ChipInv, FocusIsThere, UNCHANGED <<elements, suggestions, replaced>>,
         current' \in DOMAIN elements \cup {0}, currentChip' \in Nat, currentChip' <= Len(Fields) \/ currentChip' = currentChip
  PROVE  StepIsGood
<1>1. IsRow(elements) /\ Len(elements) \in Nat /\ DOMAIN elements = 1..Len(elements)
  BY ElementsAre DEF ChipInv
<1>2. IsRow(elements)' /\ current' \in Nat
  BY <1>1 DEF IsRow, Alternates
<1>3. ChipInv'
  BY <1>2 DEF ChipInv
<1>4. QED
  BY <1>1, <1>3 DEF StepIsGood, FocusIsThere

LEMMA CheckForSuggestionsIs ==
  ASSUME NEW text \in Seq(Letters), NEW cursor \in 0..Len(text)
  PROVE  CheckForSuggestions(text, cursor) \in AllInputs
<1> DEFINE signs == {k \in 1..cursor : text[k] \in {Plus, Minus}}
<1>1. cursor \in Nat /\ Len(text) \in Nat /\ cursor <= Len(text) /\ signs \subseteq 0..cursor /\ signs \subseteq 1..cursor
  OBVIOUS
<1>2. CASE signs = {}
  <2>1. CheckForSuggestions(text, cursor) = Input(text, 0, 0)
    BY <1>2 DEF CheckForSuggestions
  <2>2. QED
    BY <1>1, <2>1, InputIs
<1>3. CASE signs # {}
  <2>1. CheckForSuggestions(text, cursor) = Input(text, Max(signs), cursor)
    BY <1>3 DEF CheckForSuggestions
  <2> HIDE DEF signs
  <2>2. Max(signs) \in signs
    BY <1>1, <1>3, MaxIs
  <2> DEFINE start == Max(signs)
  <2> HIDE DEF start
  <2>3. start \in Nat /\ start <= cursor
    <3>1. start \in 1..cursor
      BY <1>1, <2>2 DEF start
    <3>2. QED
      BY <1>1, <3>1
  <2>4. QED
    BY <1>1, <2>1, <2>3, InputIs DEF start
<1>4. QED
  BY <1>2, <1>3

LEMMA SplitIs ==
  ASSUME NEW e \in AllInputs, NEW field \in ToSet(Fields)
  PROVE  \E a \in AllInputs, c \in AllChips, b \in AllInputs : Split(e, field) = <<a, c, b>>
<1>1. /\ e.text \in Seq(Letters) /\ e.chipStart \in Nat /\ e.cursorPosition \in Nat
      /\ e.chipStart <= e.cursorPosition /\ e.cursorPosition <= Len(e.text) /\ Len(e.text) \in Nat
  BY KindsAre
<1>2. ASSUME NEW negate \in BOOLEAN PROVE Chip(field, "", negate) \in AllChips
  BY ChipEditorAssumption DEF Chip, AllChips
<1>3. CASE e.chipStart = 0
  <2>1. Input(e.text, 0, 0) \in AllInputs
    BY <1>1, InputIs
  <2>2. Split(e, field) = <<Input(e.text, 0, 0), Chip(field, "", FALSE), Input(e.text, 0, 0)>>
    BY <1>3 DEF Split
  <2>3. QED
    BY <1>2, <2>1, <2>2
<1>4. CASE e.chipStart # 0
  <2> DEFINE front == SubSeq(e.text, 1, e.chipStart - 1)
  <2> DEFINE back == SubSeq(e.text, e.cursorPosition + 1, Len(e.text))
  <2>1. front \in Seq(Letters) /\ back \in Seq(Letters)
    <3> DEFINE text == e.text
    <3> DEFINE m == e.chipStart - 1
    <3> DEFINE n == e.cursorPosition + 1
    <3>1. text \in Seq(Letters) /\ m \in Nat /\ m <= Len(text) /\ n \in Nat /\ n >= 1 /\ Len(text) \in Nat
      BY <1>1, <1>4
    <3> HIDE DEF text, m, n
    <3>2. SubSeq(text, 1, m) \in Seq(Letters)
      BY <3>1
    <3>3. SubSeq(text, n, Len(text)) \in Seq(Letters)
      BY <3>1
    <3>4. QED
      BY <3>2, <3>3 DEF text, m, n
  <2>2. Split(e, field) = <<Input(front, 0, 0), Chip(field, "", e.text[e.chipStart] = Minus), Input(back, 0, 0)>>
    BY <1>4 DEF Split
  <2> HIDE DEF front, back
  <2>3. Input(front, 0, 0) \in AllInputs /\ Input(back, 0, 0) \in AllInputs
    BY <2>1, InputIs
  <2>4. Chip(field, "", e.text[e.chipStart] = Minus) \in AllChips
    BY <1>2
  <2>5. QED
    BY <2>2, <2>3, <2>4
<1>5. QED
  BY <1>3, <1>4

LEMMA ChipSelectedIsGood ==
  ASSUME ChipInv, NEW field \in ToSet(Fields), ChipSelected(field),
         UNCHANGED <<suggestions, replaced>>, currentChip' \in Nat, currentChip' <= Len(Fields) \/ currentChip' = currentChip
  PROVE  StepIsGood
<1>1. /\ IsRow(elements) /\ Len(elements) \in Nat /\ DOMAIN elements = 1..Len(elements)
      /\ current \in DOMAIN elements /\ Odd(current) /\ elements[current] \in AllInputs /\ current \in 1..Len(elements)
  BY ElementsAre DEF ChipInv, ChipSelected
<1>2. PICK a \in AllInputs, c \in AllChips, b \in AllInputs : Split(elements[current], field) = <<a, c, b>>
  BY <1>1, SplitIs
<1> DEFINE r == SubSeq(elements, 1, current - 1) \o <<a, c, b>> \o SubSeq(elements, current + 1, Len(elements))
<1>3. elements' = r /\ current' = current + 1
  BY <1>2 DEF ChipSelected, Elements
<1>4. IsRow(r) /\ Len(r) = Len(elements) + 2
  BY <1>1, Inserted
<1> HIDE DEF r
<1>5. DOMAIN r = 1..Len(r)
  BY <1>4, RowIs
<1>6. current' \in DOMAIN elements' /\ current' \in Nat
  BY <1>1, <1>3, <1>4, <1>5
<1>7. IsRow(elements)'
  BY <1>3, <1>4 DEF IsRow, Alternates
<1>8. ~(Len(elements') < Len(elements))
  BY <1>1, <1>3, <1>4
<1>9. ChipInv'
  BY <1>6, <1>7 DEF ChipInv
<1>10. QED
  BY <1>6, <1>8, <1>9 DEF StepIsGood, FocusIsThere

LEMMA OnDeleteClickedIsGood ==
  ASSUME ChipInv, NEW i \in Chips, OnDeleteClicked(i), UNCHANGED replaced
  PROVE  StepIsGood
<1>1. /\ IsRow(elements) /\ Len(elements) \in Nat /\ DOMAIN elements = 1..Len(elements)
      /\ i \in DOMAIN elements /\ ~Odd(i) /\ i - 1 \in 1..Len(elements) /\ i + 1 \in 1..Len(elements)
  BY ElementsAre DEF ChipInv
<1> DEFINE r == Merged(RemoveAt(elements, i))
<1>2. elements' = r /\ current' = i - 1 /\ UNCHANGED <<suggestions, currentChip>>
  BY DEF OnDeleteClicked, Elements, FocusBefore
<1>3. WithoutChip(elements, i, r)
  BY <1>1, DeletedRow
<1>4. ChipTaken(Flattened(elements), Flattened(r))
  BY <1>1, <1>3, ChipGoes
<1> HIDE DEF r
<1>5. IsRow(r) /\ Len(r) = Len(elements) - 2
  BY <1>3 DEF WithoutChip
<1>6. DOMAIN r = 1..Len(r)
  BY <1>5, RowIs
<1>7. current' \in DOMAIN elements' /\ current' \in Nat
  BY <1>1, <1>2, <1>5, <1>6
<1>8. IsRow(elements)'
  BY <1>2, <1>5 DEF IsRow, Alternates
<1>9. ChipInv'
  BY <1>2, <1>7, <1>8 DEF ChipInv
<1>10. ChipTaken(Flattened(elements), Flattened(elements'))
  BY <1>2, <1>4
<1>11. QED
  BY <1>7, <1>9, <1>10 DEF StepIsGood, FocusIsThere

LEMMA RowReceived ==
  ASSUME ChipInv, NEW q \in ReceivedQueries, ChippifyText(q)
  PROVE  IsRow(elements')
<1>1. IsRow(q) /\ q \in Seq(AnyElement) /\ DOMAIN q = 1..Len(q) /\ Len(q) \in Nat
  <2>1. IsRow(q)
    BY QueriesAssumption DEF QueriesAssumption, IsRow, Alternates, Odd, AnyElement
  <2>2. QED
    BY <2>1, RowIs
<1>2. CASE ~Extends(q)
  <2>1. elements' = q
    BY <1>2 DEF ChippifyText, Elements
  <2>2. QED
    BY <1>1, <2>1
<1>3. CASE Extends(q)
  <2> DEFINE r == [i \in DOMAIN q |-> Assigned(elements[i], q[i])]
  <2>1. elements' = r
    BY <1>3 DEF ChippifyText, Elements
  <2>2. /\ elements \in Seq(AnyElement) /\ DOMAIN elements = DOMAIN q
        /\ \A i \in DOMAIN q : (Odd(i) => elements[i] \in AllInputs /\ q[i] \in AllInputs) /\ (~Odd(i) => elements[i] \in AllChips /\ q[i] \in AllChips)
    <3>1. IsRow(elements) /\ DOMAIN elements = 1..Len(elements) /\ Len(q) = Len(elements)
      BY <1>3, ElementsAre DEF ChipInv, Extends
    <3>2. \A i \in DOMAIN q : (Odd(i) => elements[i] \in AllInputs) /\ (~Odd(i) => elements[i] \in AllChips)
      BY <1>1, <3>1, RowIs
    <3>3. \A i \in DOMAIN q : (Odd(i) => q[i] \in AllInputs) /\ (~Odd(i) => q[i] \in AllChips)
      BY <1>1, RowIs
    <3>4. QED
      BY <1>1, <3>1, <3>2, <3>3, RowIs
  <2>3. ASSUME NEW i \in DOMAIN q PROVE IF Odd(i) THEN r[i] \in AllInputs ELSE r[i] \in AllChips
    <3>1. CASE Odd(i)
      <4> DEFINE e == elements[i]
      <4> DEFINE text == q[i].text
      <4>1. e \in AllInputs /\ q[i] \in AllInputs
        BY <2>2, <3>1
      <4>2. e.type = "input" /\ q[i].type = "input" /\ text \in Seq(Letters) /\ e.text \in Seq(Letters) /\ IsPrefix(e.text, text)
        BY <1>3, <4>1, KindsAre DEF Extends
      <4>3. r[i] = [e EXCEPT !.text = text]
        BY <4>2 DEF Assigned
      <4>4. Len(e.text) <= Len(text)
        BY <4>2 DEF IsPrefix
      <4> HIDE DEF e, text, r
      <4>5. e.chipStart <= e.cursorPosition /\ e.cursorPosition <= Len(text) /\ e.chipStart \in Nat /\ e.cursorPosition \in Nat
        <5>1. /\ e.cursorPosition <= Len(e.text) /\ e.chipStart <= e.cursorPosition
              /\ e.chipStart \in Nat /\ e.cursorPosition \in Nat /\ Len(e.text) \in Nat /\ Len(text) \in Nat
          BY <4>1, <4>2, KindsAre
        <5>2. QED
          BY <4>4, <5>1
      <4>6. r[i] \in AllInputs
        BY <4>1, <4>2, <4>3, <4>5 DEF AllInputs, Letters
      <4>7. QED
        BY <3>1, <4>6
    <3>2. CASE ~Odd(i)
      <4>1. elements[i].type # "input" /\ q[i] \in AllChips
        BY <2>2, <3>2, KindsAre
      <4>2. r[i] = q[i]
        BY <4>1 DEF Assigned
      <4>3. QED
        BY <3>2, <4>1, <4>2
    <3>3. QED
      BY <3>1, <3>2
  <2>4. DOMAIN r = 1..Len(q)
    BY <1>1
  <2> HIDE DEF r
  <2>5. \A i \in 1..Len(q) : r[i] \in AnyElement
    BY <1>1, <2>3 DEF AnyElement
  <2>6. r \in Seq(AnyElement) /\ Len(r) = Len(q)
    <3>1. r = [i \in 1..Len(q) |-> r[i]]
      BY <1>1, <2>1, <2>4 DEF r
    <3>2. QED
      BY <1>1, <2>5, <3>1
  <2>7. r = <<>> \/ Odd(Len(r))
    <3>1. q # <<>> => Odd(Len(q))
      BY <1>1, RowIs
    <3>2. q = <<>> => r = <<>>
      <4>1. q = <<>> => Len(r) = 0
        BY <2>6
      <4>2. QED
        BY <2>6, <4>1
    <3>3. QED
      BY <2>6, <3>1, <3>2
  <2>8. IsRow(r)
    BY <1>1, <2>3, <2>4, <2>6, <2>7 DEF IsRow, Alternates
  <2>9. QED
    BY <2>1, <2>8
<1>4. QED
  BY <1>2, <1>3

LEMMA ChipInvInit == ChipInit => ChipInv
<1>1. <<>> \in Seq(AnyElement) /\ Alternates(<<>>)
  BY DEF Alternates
<1>2. QED
  BY <1>1 DEF ChipInit, ChipInv, IsRow

LEMMA ChipStep == ChipInv /\ ChipNext => StepIsGood
<1> SUFFICES ASSUME ChipInv, ChipNext PROVE StepIsGood
  OBVIOUS
<1>0. /\ FocusIsThere /\ replaced \in Nat
      /\ IsRow(elements) /\ Len(elements) \in Nat /\ DOMAIN elements = 1..Len(elements)
      /\ suggestions \in {<<>>, Fields} /\ currentChip \in Nat /\ (currentChip <= Len(Fields) \/ currentChip = 1)
      /\ Fields \in Seq(ToSet(Fields)) /\ Len(Fields) \in Nat
  <2>1. FocusIsThere
    BY DEF ChipNext
  <2>2. Len(elements) \in Nat /\ DOMAIN elements = 1..Len(elements)
    BY ElementsAre
  <2>3. Fields \in Seq(ToSet(Fields))
    BY ChipEditorAssumption
  <2>4. Len(Fields) \in Nat
    BY <2>3
  <2>5. QED
    BY <2>1, <2>2, <2>3, <2>4 DEF ChipInv
<1>1. ASSUME NEW i \in Inputs, NEW text \in Texts, NEW cursor \in 0..Len(text), TypeInInput(i, text, cursor)
      PROVE  StepIsGood
  <2> DEFINE e == CheckForSuggestions(text, cursor)
  <2>1. e \in AllInputs
    BY ChipEditorAssumption, CheckForSuggestionsIs DEF Letters
  <2>2. i \in DOMAIN elements /\ Odd(i)
    BY ElementsAre
  <2>3. elements' = [elements EXCEPT ![i] = e] /\ current' = i /\ suggestions' = FilteredSuggestions(e)
        /\ currentChip' = 1 /\ replaced' = replaced
    BY <1>1 DEF TypeInInput, InputUpdated, Elements
  <2> HIDE DEF e
  <2>4. suggestions' \in {<<>>, Fields}
    BY <2>3 DEF FilteredSuggestions
  <2>5. QED
    BY <1>0, <2>1, <2>2, <2>3, <2>4, ChangeIsGood
<1>2. ASSUME NEW i \in Chips, NEW value \in Values, TypeInChip(i, value) PROVE StepIsGood
  <2> DEFINE e == [elements[i] EXCEPT !.value = value]
  <2>1. i \in DOMAIN elements /\ ~Odd(i) /\ elements[i] \in AllChips
    BY ElementsAre
  <2>2. e \in AllChips
    BY <2>1 DEF AllChips
  <2>3. elements' = [elements EXCEPT ![i] = e] /\ current' = i /\ suggestions' = FilteredSuggestions(elements[i])
        /\ currentChip' = 1 /\ replaced' = replaced
    BY <1>2 DEF TypeInChip, InputUpdated
  <2> HIDE DEF e
  <2>4. suggestions' \in {<<>>, Fields}
    BY <2>3 DEF FilteredSuggestions
  <2>5. QED
    BY <1>0, <2>1, <2>2, <2>3, <2>4, ChangeIsGood
<1>3. ASSUME NEW c \in checks, CheckValidity(c) PROVE StepIsGood
  <2>1. UNCHANGED <<elements, current, suggestions, currentChip, replaced>>
    BY <1>3 DEF CheckValidity, editVars
  <2>2. QED
    BY <1>0, <2>1, FocusMoveIsGood DEF FocusIsThere
<1>4. ASSUME NEW step \in {-1, 1}, MoveSuggestions(step) PROVE StepIsGood
  <2>1. UNCHANGED <<elements, current, suggestions, replaced>> /\ currentChip' = Moved(currentChip, step)
    BY <1>4 DEF MoveSuggestions
  <2>2. Moved(currentChip, step) \in 0..Len(Fields)
    <3>1. CASE suggestions = <<>> \/ currentChip = 0
      BY <1>0, <3>1 DEF Moved
    <3>2. CASE ~(suggestions = <<>> \/ currentChip = 0)
      <4> DEFINE n == Len(Fields)
      <4>1. suggestions = Fields /\ n # 0
        BY <1>0, <3>2
      <4>2. Moved(currentChip, step) = ((currentChip - 1 + step) % n) + 1
        BY <3>2, <4>1 DEF Moved
      <4>3. n \in Nat /\ n > 0 /\ currentChip - 1 + step \in Int
        BY <1>0, <4>1
      <4> HIDE DEF n
      <4>4. (currentChip - 1 + step) % n \in 0..n - 1
        BY <4>3
      <4>5. QED
        BY <4>2, <4>3, <4>4 DEF n
    <3>3. QED
      BY <3>1, <3>2
  <2>3. QED
    BY <1>0, <2>1, <2>2, FocusMoveIsGood DEF FocusIsThere
<1>5. CASE OnEnter
  <2>1. suggestions = Fields /\ currentChip \in 1..Len(Fields)
    <3>1. suggestions # <<>> /\ currentChip # 0
      BY <1>5 DEF OnEnter
    <3>2. suggestions = Fields /\ Len(Fields) # 0
      BY <1>0, <3>1
    <3>3. QED
      BY <1>0, <3>1, <3>2
  <2>2. Fields[currentChip] \in ToSet(Fields)
    BY <1>0, <2>1
  <2>3. ChipSelected(Fields[currentChip]) /\ UNCHANGED <<suggestions, replaced, currentChip>>
    BY <1>5, <2>1 DEF OnEnter
  <2>4. QED
    BY <1>0, <2>2, <2>3, ChipSelectedIsGood
<1>6. ASSUME NEW k \in DOMAIN Fields, SuggestionClicked(k) PROVE StepIsGood
  <2>1. k \in DOMAIN suggestions /\ ChipSelected(suggestions[k]) /\ UNCHANGED <<suggestions, replaced>> /\ currentChip' = k
    BY <1>6 DEF SuggestionClicked
  <2>2. suggestions = Fields
    BY <1>0, <2>1
  <2>3. Fields[k] \in ToSet(Fields) /\ k \in 1..Len(Fields) /\ ChipSelected(Fields[k])
    BY <1>0, <2>1, <2>2
  <2>4. currentChip' \in Nat /\ currentChip' <= Len(Fields)
    BY <1>0, <2>1, <2>3
  <2>5. QED
    BY <2>1, <2>3, <2>4, ChipSelectedIsGood
<1>7. ASSUME NEW i \in DOMAIN elements, OnNegateClicked(i) PROVE StepIsGood
  <2> DEFINE e == [elements[i] EXCEPT !.negate = ~@]
  <2>1. i \in DOMAIN elements /\ ~Odd(i) /\ elements[i] \in AllChips
    BY <1>7, ElementsAre DEF OnNegateClicked
  <2>2. e \in AllChips
    <3> DEFINE chip == elements[i]
    <3>1. chip \in AllChips
      BY <2>1
    <3> HIDE DEF chip
    <3>2. [chip EXCEPT !.negate = ~chip.negate] \in AllChips
      BY <3>1 DEF AllChips
    <3>3. QED
      BY <3>2 DEF chip
  <2>3. elements' = [elements EXCEPT ![i] = e] /\ UNCHANGED <<current, suggestions, currentChip, replaced>>
    BY <1>7 DEF OnNegateClicked
  <2> HIDE DEF e
  <2>4. QED
    BY <1>0, <2>1, <2>2, <2>3, ChangeIsGood
<1>8. ASSUME UNCHANGED <<elements, suggestions, currentChip, replaced>>, current' \in DOMAIN elements PROVE StepIsGood
  BY <1>0, <1>8, FocusMoveIsGood
<1>9. ASSUME NEW i \in DOMAIN elements, OnFocus(i) PROVE StepIsGood
  BY <1>8, <1>9 DEF OnFocus
<1>10. ASSUME NEW i \in DOMAIN elements, OnChipEnterPressed(i) PROVE StepIsGood
  <2>1. i + 1 \in DOMAIN elements
    BY <1>10, ElementsAre DEF OnChipEnterPressed
  <2>2. QED
    BY <1>8, <1>10, <2>1 DEF OnChipEnterPressed
<1>11. ASSUME NEW i \in DOMAIN elements, NEW step \in {-1, 1}, OnStepOut(i, step) PROVE StepIsGood
  BY <1>8, <1>11 DEF OnStepOut
<1>12. ASSUME NEW i \in DOMAIN elements, DeleteChip(i) PROVE StepIsGood
  BY <1>12, OnDeleteClickedIsGood DEF DeleteChip
<1>13. ASSUME NEW i \in DOMAIN elements, NEW step \in {-1, 1}, OnDeleteSibling(i, step) PROVE StepIsGood
  <2>1. CASE staged = i + step
    <3>1. OnDeleteClicked(i + step) /\ UNCHANGED replaced
      BY <1>13, <2>1 DEF OnDeleteSibling, DeleteStaged
    <3>2. i \in Inputs /\ i + step \in DOMAIN elements
      BY <1>13 DEF OnDeleteSibling
    <3>3. Odd(i) /\ i \in Int
      BY <3>2, ElementsAre
    <3>4. ~Odd(i + step)
      BY <3>3, OddIs, i + 1 = i - (-1), i - 1 = i + (-1)
    <3>5. i + step \in Chips
      BY <3>2, <3>4, ElementsAre DEF Chips
    <3>6. QED
      BY <3>1, <3>5, OnDeleteClickedIsGood
  <2>2. CASE staged # i + step
    <3>1. UNCHANGED <<elements, current, suggestions, currentChip, replaced>>
      BY <1>13, <2>2 DEF OnDeleteSibling, Stage, editVars
    <3>2. QED
      BY <1>0, <3>1, FocusMoveIsGood DEF FocusIsThere
  <2>3. QED
    BY <2>1, <2>2
<1>14. CASE DeleteExpiryTick
  <2>1. UNCHANGED <<elements, current, suggestions, currentChip, replaced>>
    BY <1>14 DEF DeleteExpiryTick, editVars
  <2>2. QED
    BY <1>0, <2>1, FocusMoveIsGood DEF FocusIsThere
<1>15. ASSUME NEW q \in ReceivedQueries, ReceiveQuery(q) PROVE StepIsGood
  <2>1. ChippifyText(q) /\ replaced' = replaced + 1 /\ UNCHANGED <<current, suggestions, currentChip>>
    BY <1>15 DEF ReceiveQuery
  <2>2. IsRow(elements')
    BY <2>1, RowReceived
  <2>3. IsRow(elements)'
    BY <2>2 DEF IsRow, Alternates
  <2>4. replaced' \in Nat /\ replaced' # replaced
    BY <1>0, <2>1
  <2>5. QED
    BY <1>0, <2>1, <2>3, <2>4 DEF StepIsGood, ChipInv
<1>16. CASE ReceiveNone
  <2>1. elements' = Cleared /\ replaced' = replaced + 1 /\ current' = 1 /\ UNCHANGED <<suggestions, currentChip>>
    BY <1>16 DEF ReceiveNone, Elements
  <2>2. IsRow(Cleared)
    <3> DEFINE e == Input(<<>>, 0, 0)
    <3>1. e \in AllInputs
      <4> DEFINE none == <<>>
      <4>1. none \in Seq(Letters) /\ 0 \in Nat /\ 0 <= 0 /\ 0 <= Len(none)
        OBVIOUS
      <4> HIDE DEF none
      <4>2. Input(none, 0, 0) \in AllInputs
        BY <4>1, InputIs
      <4>3. QED
        BY <4>2 DEF none
    <3>2. Cleared = <<e>>
      BY DEF Cleared
    <3> HIDE DEF e
    <3>3. QED
      BY <3>1, <3>2, OddIs DEF IsRow, Alternates, AnyElement
  <2>3. IsRow(elements)'
    BY <2>1, <2>2 DEF IsRow, Alternates
  <2>4. replaced' \in Nat /\ replaced' # replaced /\ current' \in Nat
    BY <1>0, <2>1
  <2>5. QED
    BY <1>0, <2>1, <2>3, <2>4 DEF StepIsGood, ChipInv
<1>17. QED
  BY <1>1, <1>2, <1>3, <1>4, <1>5, <1>6, <1>7, <1>9, <1>10, <1>11, <1>12, <1>13, <1>14, <1>15, <1>16 DEF ChipNext

LEMMA ChipStutter == ChipInv /\ UNCHANGED chipVars => ChipInv' /\ UNCHANGED <<elements, current>>
BY DEF ChipInv, chipVars, editVars, IsRow, Alternates

LEMMA ChipInvHolds == ChipSpec => []ChipInv
<1>1. ChipInv /\ [ChipNext]_chipVars => ChipInv'
  BY ChipStep, ChipStutter DEF StepIsGood
<1>2. QED
  BY <1>1, ChipInvInit, PTL DEF ChipSpec

\* The element to be given the focus is there after whatever the user does in
\* the search box, whatever fields it has and however long the row is
\* (componentDidUpdate).
THEOREM UserAlwaysKeepsFocus == ChipSpec => UserKeepsFocus
<1>1. ChipInv /\ [ChipNext]_chipVars => [replaced' = replaced => FocusIsThere']_chipVars
  BY ChipStep DEF StepIsGood
<1>2. QED
  BY <1>1, ChipInvHolds, PTL DEF ChipSpec, UserKeepsFocus

\* Whatever chip is deleted, wherever it stands, it goes alone: the words on its
\* sides stay, in their order (onDeleteClicked).
THEOREM OneChipAlwaysGoes == ChipSpec => OneChipGoes
<1>1. ChipInv /\ [ChipNext]_chipVars
        => [Len(elements') < Len(elements) /\ replaced' = replaced =>
              \E k \in DOMAIN Flattened(elements) :
                /\ Flattened(elements)[k] \notin Words \cup {Plus, Minus}
                /\ Flattened(elements') = RemoveAt(Flattened(elements), k)]_chipVars
  BY ChipStep DEF StepIsGood, ChipTaken, Letters
<1>2. QED
  BY <1>1, ChipInvHolds, PTL DEF ChipSpec, OneChipGoes

(***************************************************************************)
(* Comments beside a text: their groups are in the order of their lines,   *)
(* pushing and pulling them keeps each below the one before, and the one   *)
(* in focus is where its line is.                                          *)
(***************************************************************************)

-----------------------------------------------------------------------------
(* Heights *)

TermsOf(members) == [c \in Ids |-> IF c \in members THEN height[c] + Margin ELSE 0]

LEMMA HeightsMeasured ==
  ASSUME CommentPanelTypeOK
  PROVE  \A c \in Ids : height[c] \in Nat
<1>1. height \in [Ids -> Heights \cup {0}]
  BY DEF CommentPanelTypeOK
<1>2. Heights \cup {0} \subseteq Nat
  BY CommentPanelAssumption DEF CommentPanelAssumption
<1>3. QED
  BY <1>1, <1>2

LEMMA TermsAre ==
  ASSUME CommentPanelTypeOK, NEW members
  PROVE  /\ TermsOf(members) \in Seq(Nat) /\ TermsOf(members) \in Seq(Int)
         /\ Len(TermsOf(members)) = Count /\ DOMAIN TermsOf(members) = 1..Count
         /\ \A c \in Ids : /\ c \in 1..Count /\ height[c] \in Nat
                           /\ TermsOf(members)[c] = IF c \in members THEN height[c] + Margin ELSE 0
         /\ Count \in Nat /\ Margin \in Nat
<1>1. Count \in Nat /\ Margin \in Nat /\ Heights \subseteq Nat /\ Ids = 1..Count
  BY CommentPanelAssumption DEF CommentPanelAssumption, Ids
<1>2. \A c \in Ids : height[c] \in Nat
  BY HeightsMeasured
<1> DEFINE t == TermsOf(members)
<1>3. t \in [1..Count -> Nat] /\ \A c \in Ids : t[c] = IF c \in members THEN height[c] + Margin ELSE 0
  BY <1>1, <1>2 DEF TermsOf
<1> HIDE DEF t
<1>4. t \in Seq(Nat) /\ t \in Seq(Int) /\ Len(t) = Count /\ DOMAIN t = 1..Count
  BY <1>1, <1>3
<1>5. QED
  BY <1>1, <1>2, <1>3, <1>4 DEF t

LEMMA TotalIs ==
  ASSUME CommentPanelTypeOK, NEW members
  PROVE  Total(members) \in Nat
<1>1. Total(members) = SumOf(TermsOf(members))
  BY DEF Total, TermsOf
<1>2. TermsOf(members) \in Seq(Nat)
  BY TermsAre
<1>3. QED
  BY <1>1, <1>2, SumCovers

\* A comment more adds its height and the space under it.
LEMMA TotalAdded ==
  ASSUME CommentPanelTypeOK, NEW members, NEW c \in Ids, c \notin members
  PROVE  Total(members \cup {c}) = Total(members) + height[c] + Margin
<1> DEFINE s == TermsOf(members)
<1> DEFINE t == TermsOf(members \cup {c})
<1>1. /\ s \in Seq(Int) /\ Len(s) = Count
      /\ \A d \in Ids : s[d] = IF d \in members THEN height[d] + Margin ELSE 0
      /\ c \in 1..Count /\ height[c] \in Nat /\ Margin \in Nat
  BY TermsAre
<1>2. /\ t \in Seq(Int) /\ Len(t) = Count
      /\ \A d \in Ids : t[d] = IF d \in members \cup {c} THEN height[d] + Margin ELSE 0
  BY TermsAre
<1>3. Total(members) = SumOf(s) /\ Total(members \cup {c}) = SumOf(t)
  BY DEF Total, TermsOf
<1> HIDE DEF s, t
<1>4. Len(t) = Len(s) /\ c \in 1..Len(s) /\ \A j \in 1..Len(s) : j # c => t[j] = s[j]
  BY <1>1, <1>2 DEF Ids
<1>5. SumOf(t) = SumOf(s) + t[c] - s[c] /\ SumOf(s) \in Int
  BY <1>1, <1>2, <1>4, SumUpdated
<1>6. t[c] = height[c] + Margin /\ s[c] = 0
  BY <1>1, <1>2
<1>7. QED
  BY <1>1, <1>3, <1>5, <1>6

\* Sums of sequences one of which is nowhere above the other.
LEMMA SumsGrow ==
  ASSUME NEW s \in Seq(Int), NEW t \in Seq(Int), Len(t) = Len(s), \A i \in 1..Len(s) : s[i] <= t[i]
  PROVE  SumOf(s) <= SumOf(t)
<1> DEFINE n == Len(s)
<1> DEFINE a == PartialSums(s)
<1> DEFINE b == PartialSums(t)
<1> DEFINE T == {k \in 0..n : a[k] <= b[k]}
<1>1. /\ a \in [0..n -> Int] /\ a[0] = 0 /\ \A k \in 1..n : a[k] = a[k - 1] + s[k]
      /\ b \in [0..n -> Int] /\ b[0] = 0 /\ \A k \in 1..n : b[k] = b[k - 1] + t[k]
  BY PartialSumsAre
<1>2. n \in Nat /\ \A k \in 1..n : s[k] \in Int /\ t[k] \in Int /\ s[k] <= t[k]
  OBVIOUS
<1>3. SumOf(s) = a[n] /\ SumOf(t) = b[n]
  BY DEF SumOf
<1> HIDE DEF a, b, n
<1>4. 0 \in T
  BY <1>1, <1>2
<1>5. ASSUME NEW k \in 1..n, k - 1 \in T PROVE k \in T
  <2>1. k \in 0..n /\ k - 1 \in 0..n /\ a[k - 1] <= b[k - 1]
    BY <1>2, <1>5
  <2>2. a[k - 1] \in Int /\ b[k - 1] \in Int /\ s[k] \in Int /\ t[k] \in Int /\ s[k] <= t[k]
    BY <1>1, <1>2, <2>1
  <2>3. a[k] = a[k - 1] + s[k] /\ b[k] = b[k - 1] + t[k]
    BY <1>1
  <2>4. a[k] <= b[k]
    BY <2>1, <2>2, <2>3
  <2>5. QED
    BY <2>1, <2>4
<1> HIDE DEF T
<1>6. 0..n \subseteq T
  BY <1>2, <1>4, <1>5, UpTo
<1>7. n \in T
  BY <1>2, <1>6
<1>8. QED
  BY <1>3, <1>7 DEF T

LEMMA TotalGrows ==
  ASSUME CommentPanelTypeOK, NEW few, NEW many, few \subseteq many
  PROVE  Total(few) <= Total(many)
<1> DEFINE s == TermsOf(few)
<1> DEFINE t == TermsOf(many)
<1>1. /\ s \in Seq(Int) /\ Len(s) = Count
      /\ \A d \in Ids : s[d] = IF d \in few THEN height[d] + Margin ELSE 0
      /\ \A d \in Ids : height[d] \in Nat
      /\ Margin \in Nat
  BY TermsAre
<1>2. /\ t \in Seq(Int) /\ Len(t) = Count
      /\ \A d \in Ids : t[d] = IF d \in many THEN height[d] + Margin ELSE 0
  BY TermsAre
<1>3. Total(few) = SumOf(s) /\ Total(many) = SumOf(t)
  BY DEF Total, TermsOf
<1> HIDE DEF s, t
<1>4. Len(t) = Len(s) /\ \A d \in 1..Len(s) : s[d] <= t[d]
  <2>1. ASSUME NEW d \in Ids PROVE s[d] <= t[d]
    <3>1. height[d] \in Nat /\ Margin \in Nat
      BY <1>1
    <3>2. CASE d \in few
      BY <1>1, <1>2, <3>1, <3>2
    <3>3. CASE d \notin few
      BY <1>1, <1>2, <3>1, <3>3
    <3>4. QED
      BY <3>2, <3>3
  <2>2. QED
    BY <1>1, <1>2, <2>1 DEF Ids
<1>5. QED
  BY <1>1, <1>2, <1>3, <1>4, SumsGrow

-----------------------------------------------------------------------------
(* The order of the lines *)

\* A finite set of numbers can be put in order.
LEMMA OrderExists ==
  ASSUME NEW T, T \subseteq Nat, IsFiniteSet(T)
  PROVE  \E s \in [1..Cardinality(T) -> T] : Increasing(s)
<1> DEFINE R == {n \in Nat : \A U \in SUBSET T : IsFiniteSet(U) /\ Cardinality(U) = n =>
                                                \E s \in [1..n -> U] : Increasing(s)}
<1>1. 0 \in R
  <2>1. ASSUME NEW U PROVE \E s \in [1..0 -> U] : Increasing(s)
    <3> DEFINE s == [i \in 1..0 |-> i]
    <3>1. s \in [1..0 -> U] /\ Increasing(s)
      BY DEF Increasing
    <3>2. QED
      BY <3>1
  <2>2. QED
    BY <2>1
<1>2. ASSUME NEW n \in Nat, n \in R PROVE n + 1 \in R
  <2>1. SUFFICES ASSUME NEW U \in SUBSET T, IsFiniteSet(U), Cardinality(U) = n + 1
                 PROVE  \E s \in [1..n + 1 -> U] : Increasing(s)
    OBVIOUS
  <2>2. U # {} /\ U \subseteq Nat
    BY <2>1, FS_EmptySet
  <2>3. PICK m \in U : \A y \in U : m <= y
    BY <2>2, Least
  <2> DEFINE V == U \ {m}
  <2>4. V \in SUBSET T /\ IsFiniteSet(V) /\ Cardinality(V) = n
    <3>1. IsFiniteSet(V) /\ Cardinality(V) = Cardinality(U) - 1
      BY <2>1, <2>3, FS_RemoveElement
    <3>2. (n + 1) - 1 = n
      OBVIOUS
    <3>3. QED
      BY <2>1, <3>1, <3>2
  <2>5. PICK s \in [1..n -> V] : Increasing(s)
    BY <1>2, <2>4
  <2> DEFINE q == [i \in 1..n + 1 |-> IF i = 1 THEN m ELSE s[i - 1]]
  <2>6. \A i \in 1..n : s[i] \in U /\ s[i] \in Nat /\ m < s[i] /\ m \in Nat
    <3>1. ASSUME NEW i \in 1..n PROVE s[i] \in U /\ s[i] # m
      BY <2>5
    <3>2. ASSUME NEW i \in 1..n PROVE s[i] \in Nat /\ m \in Nat /\ m <= s[i]
      <4>1. s[i] \in U /\ m \in U
        BY <2>3, <3>1
      <4>2. QED
        BY <2>2, <2>3, <4>1
    <3>3. QED
      BY <3>1, <3>2
  <2>7. \A i \in 1..n + 1 : i = 1 \/ i - 1 \in 1..n
    OBVIOUS
  <2>8. q \in [1..n + 1 -> U]
    BY <2>6, <2>7
  <2>9. ASSUME NEW i \in 1..n + 1, NEW j \in 1..n + 1, i < j PROVE q[i] < q[j]
    <3>1. j # 1 /\ j - 1 \in 1..n /\ q[j] = s[j - 1]
      BY <2>7, <2>9
    <3>2. CASE i = 1
      BY <2>6, <3>1, <3>2
    <3>3. CASE i # 1
      <4>1. i - 1 \in 1..n /\ q[i] = s[i - 1] /\ i - 1 < j - 1
        BY <2>7, <2>9, <3>3
      <4>2. QED
        BY <2>5, <3>1, <4>1 DEF Increasing
    <3>4. QED
      BY <3>2, <3>3
  <2> HIDE DEF q
  <2>10. Increasing(q)
    BY <2>8, <2>9 DEF Increasing
  <2>11. QED
    BY <2>8, <2>10
<1>3. Cardinality(T) \in Nat
  BY FS_CardinalityType
<1> DEFINE k == Cardinality(T)
<1>4. k \in R
  <2> HIDE DEF R, k
  <2>1. Nat \subseteq R
    BY <1>1, <1>2, Induction
  <2>2. QED
    BY <1>3, <2>1 DEF k
<1>5. T \in SUBSET T
  OBVIOUS
<1>6. QED
  BY <1>4, <1>5

LEMMA TopsInOrderIs ==
  ASSUME NEW T, T \subseteq Nat, IsFiniteSet(T)
  PROVE  /\ TopsInOrder(T) \in Seq(T) /\ Increasing(TopsInOrder(T))
         /\ \A x \in T : \E i \in DOMAIN TopsInOrder(T) : TopsInOrder(T)[i] = x
<1> DEFINE n == Cardinality(T)
<1> DEFINE s == TopsInOrder(T)
<1>1. n \in Nat
  BY FS_CardinalityType
<1>2. s \in [1..n -> T] /\ Increasing(s)
  BY OrderExists DEF TopsInOrder
<1> HIDE DEF s
<1>3. s \in Injection(1..n, T)
  <2>1. ASSUME NEW i \in 1..n, NEW j \in 1..n, s[i] = s[j] PROVE i = j
    <3>1. s[i] \in Nat /\ s[j] \in Nat
      BY <1>2
    <3>2. i < j => s[i] < s[j]
      BY <1>2 DEF Increasing
    <3>3. j < i => s[j] < s[i]
      BY <1>2 DEF Increasing
    <3>4. QED
      BY <2>1, <3>1, <3>2, <3>3
  <2>2. QED
    BY <1>2, <2>1 DEF Injection, IsInjective
<1>4. s \in Surjection(1..n, T)
  <2> DEFINE I == 1..n
  <2>1. s \in Injection(I, T) /\ Cardinality(I) = Cardinality(T)
    BY <1>1, <1>3, FS_Interval
  <2> HIDE DEF I, n
  <2>2. s \in Surjection(I, T)
    BY <2>1, FS_Injection
  <2>3. QED
    BY <2>2 DEF I
<1>5. \A x \in T : \E i \in 1..n : s[i] = x
  BY <1>4 DEF Surjection
<1>6. s \in Seq(T) /\ DOMAIN s = 1..n
  BY <1>1, <1>2
<1>7. QED
  BY <1>2, <1>5, <1>6 DEF s

-----------------------------------------------------------------------------
(* Groups *)

Groups == [top : Int, height : Nat, comments : SUBSET Ids]

\* The groups of comments: one for each of their lines, in the order of the lines.
Grouped(groups) ==
  /\ groups \in Seq(Groups)
  /\ \A i \in DOMAIN groups :
       /\ groups[i].comments = {c \in Placed : top[c] = groups[i].top}
       /\ groups[i].height = Total(groups[i].comments)
  /\ \A i, j \in DOMAIN groups : i < j => groups[i].top < groups[j].top
  /\ \A c \in Placed : \E i \in DOMAIN groups : c \in groups[i].comments

LEMMA PlacedIs ==
  ASSUME CommentPanelTypeOK
  PROVE  /\ Placed \subseteq Ids /\ IsFiniteSet(Placed)
         /\ \A c \in Ids : c \in Int /\ top[c] \in Nat /\ height[c] \in Nat
<1>1. Count \in Nat /\ Ids = 1..Count /\ Tops \subseteq Nat /\ Heights \subseteq Nat
  BY CommentPanelAssumption DEF CommentPanelAssumption, Ids
<1>2. Placed \subseteq Ids
  BY DEF CommentPanelTypeOK, Placed
<1>3. IsFiniteSet(Ids)
  BY <1>1, FS_Interval
<1>4. IsFiniteSet(Placed)
  BY <1>2, <1>3, FS_Subset
<1>5. \A c \in Ids : top[c] \in Nat /\ height[c] \in Nat
  BY <1>1, HeightsMeasured DEF CommentPanelTypeOK
<1>6. QED
  BY <1>1, <1>2, <1>4, <1>5

LEMMA GroupsAre ==
  ASSUME CommentPanelTypeOK
  PROVE  Grouped(GroupCommentsByTop)
<1> DEFINE T == {top[c] : c \in Placed}
<1> DEFINE lines == TopsInOrder(T)
<1> DEFINE groups == GroupCommentsByTop
<1>1. Placed \subseteq Ids /\ IsFiniteSet(Placed) /\ \A c \in Ids : top[c] \in Nat
  BY PlacedIs
<1>2. T \subseteq Nat
  BY <1>1
<1>3. IsFiniteSet(T)
  <2> DEFINE f == [c \in Placed |-> top[c]]
  <2>1. f \in Surjection(Placed, T)
    BY DEF Surjection
  <2> HIDE DEF f, T
  <2>2. QED
    BY <1>1, <2>1, FS_Surjection
<1>4. groups = [i \in DOMAIN lines |-> Group(lines[i])]
  BY DEF GroupCommentsByTop
<1>5. lines \in Seq(T) /\ Increasing(lines) /\ \A x \in T : \E i \in DOMAIN lines : lines[i] = x
  <2> HIDE DEF T
  <2>1. QED
    BY <1>2, <1>3, TopsInOrderIs
<1> HIDE DEF lines, groups
<1>6. DOMAIN groups = 1..Len(lines) /\ DOMAIN lines = 1..Len(lines) /\ Len(lines) \in Nat
  BY <1>4, <1>5
<1>7. ASSUME NEW i \in 1..Len(lines)
      PROVE  /\ groups[i] \in Groups /\ groups[i].top = lines[i] /\ lines[i] \in T
             /\ groups[i].comments = {c \in Placed : top[c] = lines[i]}
             /\ groups[i].height = Total(groups[i].comments)
  <2> DEFINE x == lines[i]
  <2> DEFINE members == {c \in Placed : top[c] = x}
  <2>1. x \in T /\ x \in Int
    <3>1. lines[i] \in T
      BY <1>5
    <3>2. QED
      BY <1>2, <3>1
  <2> HIDE DEF x
  <2>2. members \in SUBSET Ids
    BY <1>1
  <2>3. groups[i] = [top |-> x, height |-> Total(members), comments |-> members]
    BY <1>4, <1>6 DEF Group, x
  <2> HIDE DEF members
  <2>4. Total(members) \in Nat
    BY TotalIs
  <2>5. groups[i] \in Groups /\ groups[i].top = x /\ groups[i].comments = members /\ groups[i].height = Total(members)
    BY <2>1, <2>2, <2>3, <2>4 DEF Groups
  <2>6. QED
    BY <2>1, <2>5 DEF x, members
<1>8. groups \in Seq(Groups)
  <2> DEFINE n == Len(lines)
  <2>1. n \in Nat /\ groups \in [1..n -> Groups]
    BY <1>4, <1>6, <1>7
  <2> HIDE DEF n
  <2>2. QED
    BY <2>1
<1>9. \A i, j \in DOMAIN groups : i < j => groups[i].top < groups[j].top
  BY <1>5, <1>6, <1>7 DEF Increasing
<1>10. ASSUME NEW c \in Placed PROVE \E i \in DOMAIN groups : c \in groups[i].comments
  <2>1. top[c] \in T
    OBVIOUS
  <2>2. PICK i \in DOMAIN lines : lines[i] = top[c]
    BY <1>5, <2>1
  <2>3. i \in DOMAIN groups /\ groups[i].comments = {d \in Placed : top[d] = lines[i]}
    BY <1>6, <1>7
  <2>4. QED
    BY <2>2, <2>3
<1>11. \A i \in DOMAIN groups :
         /\ groups[i].comments = {c \in Placed : top[c] = groups[i].top}
         /\ groups[i].height = Total(groups[i].comments)
  BY <1>6, <1>7
<1>12. QED
  BY <1>8, <1>9, <1>10, <1>11 DEF Grouped, groups

-----------------------------------------------------------------------------
(* Pushing down *)

\* Of the first n groups: the root's is where the root needs it, and any other is
\* below the one before.
PushedSoFar(groups, root, acc, n) ==
  /\ acc \in Seq(Groups) /\ Len(acc) = n
  /\ \A k \in 1..n :
       /\ acc[k].height = groups[k].height /\ acc[k].comments = groups[k].comments
       /\ HasRoot(groups[k], root) => acc[k].top = RootTop(groups[k], root)
       /\ k > 1 /\ ~HasRoot(groups[k], root) => acc[k - 1].top + acc[k - 1].height <= acc[k].top

LEMMA PushIs ==
  ASSUME CommentPanelTypeOK, NEW acc \in Seq(Groups), NEW group \in Groups, NEW root
  PROVE  \E t \in Int :
           /\ PushDown(acc, group, root) = Append(acc, [group EXCEPT !.top = t])
           /\ HasRoot(group, root) => t = RootTop(group, root)
           /\ acc # <<>> /\ ~HasRoot(group, root) => acc[Len(acc)].top + acc[Len(acc)].height <= t
<1> DEFINE offset == IF acc = <<>> THEN group.top ELSE acc[Len(acc)].top + acc[Len(acc)].height + Margin
<1> DEFINE t == IF HasRoot(group, root) THEN RootTop(group, root)
                ELSE IF group.top < offset THEN offset ELSE group.top
<1>1. PushDown(acc, group, root) = Append(acc, [group EXCEPT !.top = t])
  BY DEF PushDown
<1>2. Margin \in Nat /\ group.top \in Int
  BY CommentPanelAssumption DEF CommentPanelAssumption, Groups
<1>3. acc # <<>> => acc[Len(acc)].top \in Int /\ acc[Len(acc)].height \in Nat
  <2>1. acc # <<>> => acc[Len(acc)] \in Groups
    OBVIOUS
  <2>2. QED
    BY <2>1 DEF Groups
<1>4. offset \in Int
  BY <1>2, <1>3
<1>5. acc # <<>> => acc[Len(acc)].top + acc[Len(acc)].height <= offset
  BY <1>2, <1>3
<1> HIDE DEF offset
<1>6. RootTop(group, root) \in Int
  <2>1. Total({c \in group.comments : c < root}) \in Nat
    BY TotalIs
  <2>2. QED
    BY <1>2, <2>1 DEF RootTop
<1>7. t \in Int
  BY <1>2, <1>4, <1>6
<1>8. HasRoot(group, root) => t = RootTop(group, root)
  OBVIOUS
<1>9. acc # <<>> /\ ~HasRoot(group, root) => acc[Len(acc)].top + acc[Len(acc)].height <= t
  BY <1>2, <1>3, <1>4, <1>5
<1> HIDE DEF t
<1>10. QED
  BY <1>1, <1>7, <1>8, <1>9

LEMMA PushedFurther ==
  ASSUME CommentPanelTypeOK, NEW groups \in Seq(Groups), NEW root, NEW n \in 1..Len(groups),
         NEW acc, PushedSoFar(groups, root, acc, n - 1)
  PROVE  PushedSoFar(groups, root, PushDown(acc, groups[n], root), n)
<1> DEFINE group == groups[n]
<1>1. acc \in Seq(Groups) /\ Len(acc) = n - 1 /\ group \in Groups /\ n \in Nat
  BY DEF PushedSoFar
<1> HIDE DEF group
<1>2. PICK t \in Int :
        /\ PushDown(acc, group, root) = Append(acc, [group EXCEPT !.top = t])
        /\ HasRoot(group, root) => t = RootTop(group, root)
        /\ acc # <<>> /\ ~HasRoot(group, root) => acc[Len(acc)].top + acc[Len(acc)].height <= t
  BY <1>1, PushIs
<1> DEFINE g == [group EXCEPT !.top = t]
<1> DEFINE q == Append(acc, g)
<1>3. g \in Groups /\ g.top = t /\ g.height = group.height /\ g.comments = group.comments
  BY <1>1 DEF Groups
<1> HIDE DEF g
<1>4. q \in Seq(Groups) /\ Len(q) = n /\ q[n] = g /\ \A k \in 1..n - 1 : q[k] = acc[k]
  BY <1>1, <1>3
<1> HIDE DEF q
<1>5. ASSUME NEW k \in 1..n
      PROVE  /\ q[k].height = groups[k].height /\ q[k].comments = groups[k].comments
             /\ HasRoot(groups[k], root) => q[k].top = RootTop(groups[k], root)
             /\ k > 1 /\ ~HasRoot(groups[k], root) => q[k - 1].top + q[k - 1].height <= q[k].top
  <2>1. CASE k = n
    <3>1. q[k] = g /\ groups[k] = group
      BY <1>4, <2>1 DEF group
    <3>2. k > 1 => acc # <<>> /\ q[k - 1] = acc[Len(acc)]
      <4>1. k > 1 => k - 1 \in 1..n - 1 /\ Len(acc) = k - 1 /\ Len(acc) # 0
        BY <1>1, <2>1
      <4>2. QED
        BY <1>4, <4>1
    <3>3. QED
      BY <1>2, <1>3, <3>1, <3>2
  <2>2. CASE k # n
    <3>1. k \in 1..n - 1 /\ q[k] = acc[k] /\ (k > 1 => k - 1 \in 1..n - 1)
      BY <1>1, <1>4, <2>2
    <3>2. k > 1 => q[k - 1] = acc[k - 1]
      BY <1>4, <3>1
    <3>3. QED
      BY <3>1, <3>2 DEF PushedSoFar
  <2>3. QED
    BY <2>1, <2>2
<1>6. PushedSoFar(groups, root, q, n)
  BY <1>4, <1>5 DEF PushedSoFar
<1>7. QED
  BY <1>2, <1>6 DEF q, g, group

LEMMA PushedIs ==
  ASSUME CommentPanelTypeOK, NEW groups \in Seq(Groups), NEW root
  PROVE  PushedSoFar(groups, root, Pushed(groups, root), Len(groups))
<1> DEFINE N == Len(groups)
<1> DEFINE D == 0..N
<1> DEFINE V == Seq(Groups)
<1> DEFINE step == [x \in (1..N) \X V |-> PushDown(x[2], groups[x[1]], root)]
<1> DEFINE Body(f) == [k \in D |-> IF k = 0 THEN <<>> ELSE PushDown(f[k - 1], groups[k], root)]
<1> DEFINE p == CHOOSE f : f = Body(f)
<1>1. N \in Nat /\ <<>> \in V /\ \A k \in 1..N : groups[k] \in Groups
  OBVIOUS
<1>2. \A k \in 1..N : \A v \in V : step[<<k, v>>] = PushDown(v, groups[k], root) /\ step[<<k, v>>] \in V
  <2>1. ASSUME NEW k \in 1..N, NEW v \in V PROVE PushDown(v, groups[k], root) \in V
    <3> DEFINE group == groups[k]
    <3>1. group \in Groups
      BY <1>1
    <3> HIDE DEF group
    <3>2. v \in Seq(Groups)
      OBVIOUS
    <3> HIDE DEF V
    <3>3. PICK t \in Int :
            /\ PushDown(v, group, root) = Append(v, [group EXCEPT !.top = t])
            /\ HasRoot(group, root) => t = RootTop(group, root)
            /\ v # <<>> /\ ~HasRoot(group, root) => v[Len(v)].top + v[Len(v)].height <= t
      BY <3>1, <3>2, PushIs
    <3>4. [group EXCEPT !.top = t] \in Groups
      BY <3>1 DEF Groups
    <3>5. QED
      BY <3>2, <3>3, <3>4 DEF group, V
  <2>2. QED
    BY <2>1
<1>3. \E f \in [0..N -> V] : Folds(f, N, <<>>, step)
  <2>1. StaysIn(N, V, step)
    BY <1>2 DEF StaysIn
  <2>2. N \in Nat /\ <<>> \in V
    BY <1>1
  <2> HIDE DEF N, V, step
  <2>3. QED
    BY <2>1, <2>2, FoldExists
<1>4. PICK f \in [0..N -> V] : f[0] = <<>> /\ \A k \in 1..N : f[k] = step[<<k, f[k - 1]>>]
  BY <1>3 DEF Folds
<1> HIDE DEF V
<1>5. \A k \in 1..N : f[k] = PushDown(f[k - 1], groups[k], root)
  <2>1. \A k \in 1..N : k - 1 \in 0..N
    BY <1>1
  <2> HIDE DEF step, N
  <2>2. QED
    BY <1>2, <1>4, <2>1
<1>6. f = Body(f)
  <2>1. \A k \in D : f[k] = IF k = 0 THEN <<>> ELSE PushDown(f[k - 1], groups[k], root)
    BY <1>1, <1>4, <1>5, \A k \in D : k # 0 => k \in 1..N
  <2>2. f = [k \in D |-> f[k]]
    BY <1>4
  <2> HIDE DEF D
  <2>3. QED
    BY <2>1, <2>2
<1>7. p = Body(p)
  <2> HIDE DEF Body
  <2>1. QED
    BY <1>6
<1>8. Pushed(groups, root) = p[N]
  BY DEF Pushed
<1> HIDE DEF p
<1>9. p[0] = <<>> /\ \A k \in 1..N : p[k] = PushDown(p[k - 1], groups[k], root)
  <2>1. 0 \in D /\ \A k \in 1..N : k \in D /\ k # 0
    BY <1>1
  <2> HIDE DEF D, N
  <2>2. QED
    BY <1>7, <2>1
<1>10. PushedSoFar(groups, root, p[N], N)
  <2> DEFINE T == {k \in D : PushedSoFar(groups, root, p[k], k)}
  <2>1. 0 \in T
    <3>1. PushedSoFar(groups, root, <<>>, 0)
      BY DEF PushedSoFar
    <3>2. QED
      BY <1>1, <1>9, <3>1
  <2>2. ASSUME NEW k \in 1..N, k - 1 \in T PROVE k \in T
    <3>1. PushedSoFar(groups, root, p[k - 1], k - 1)
      BY <2>2
    <3>2. PushedSoFar(groups, root, PushDown(p[k - 1], groups[k], root), k)
      BY <3>1, PushedFurther
    <3>3. k \in D /\ p[k] = PushDown(p[k - 1], groups[k], root)
      BY <1>1, <1>9
    <3>4. QED
      BY <3>2, <3>3
  <2> HIDE DEF T, N
  <2>3. 0..N \subseteq T
    BY <1>1, <2>1, <2>2, UpTo
  <2>4. N \in T
    BY <1>1, <2>3
  <2>5. QED
    BY <2>4 DEF T
<1>11. QED
  BY <1>8, <1>10

-----------------------------------------------------------------------------
(* Pulling up *)

\* Every group but the root's is below the one before it.
Below(groups, root) ==
  \A k \in DOMAIN groups :
    k > 1 /\ ~HasRoot(groups[k], root) => groups[k - 1].top + groups[k - 1].height <= groups[k].top

\* Of the last n groups: each is above the next, and those from the root's on, or all
\* where there is none, are where they were pushed.
PulledSoFar(groups, root, acc, n) ==
  LET of(k) == groups[Len(groups) - n + k] IN
  /\ acc \in Seq(Groups) /\ Len(acc) = n
  /\ \A k \in 1..n :
       /\ acc[k].height = of(k).height /\ acc[k].comments = of(k).comments
       /\ (\A l \in 1..n : l > k => ~HasRoot(of(l), root)) => acc[k] = of(k)
       /\ k < n => acc[k].top + acc[k].height <= acc[k + 1].top

LEMMA PullIs ==
  ASSUME NEW group \in Groups, NEW acc \in Seq(Groups), NEW root
  PROVE  \E t \in Int :
           /\ PullUp(group, acc, root) = <<[group EXCEPT !.top = t]>> \o acc
           /\ (\A i \in DOMAIN acc : ~HasRoot(acc[i], root)) => [group EXCEPT !.top = t] = group
           /\ (\E i \in DOMAIN acc : HasRoot(acc[i], root)) => t + group.height <= acc[1].top
<1> DEFINE overlap == group.top + group.height - Head(acc).top
<1> DEFINE rooted == \E i \in DOMAIN acc : HasRoot(acc[i], root)
<1> DEFINE t == IF acc # <<>> /\ rooted /\ overlap > 0 THEN group.top - overlap ELSE group.top
<1>1. group.top \in Int /\ group.height \in Nat /\ [group EXCEPT !.top = group.top] = group
  BY DEF Groups
<1>2. acc # <<>> => Head(acc) = acc[1] /\ acc[1].top \in Int
  <2>1. acc # <<>> => Head(acc) = acc[1] /\ acc[1] \in Groups
    OBVIOUS
  <2>2. QED
    BY <2>1 DEF Groups
<1>3. PullUp(group, acc, root) = <<[group EXCEPT !.top = t]>> \o acc
  BY <1>1 DEF PullUp
<1>4. acc # <<>> => overlap \in Int /\ group.top - overlap + group.height = acc[1].top
                    /\ (~(overlap > 0) => group.top + group.height <= acc[1].top)
  BY <1>1, <1>2
<1>5. rooted => acc # <<>>
  OBVIOUS
<1> HIDE DEF overlap, rooted
<1>6. t \in Int
  BY <1>1, <1>4
<1>7. ~rooted => [group EXCEPT !.top = t] = group
  BY <1>1
<1>8. rooted => t + group.height <= acc[1].top
  <2>1. SUFFICES ASSUME rooted PROVE t + group.height <= acc[1].top
    OBVIOUS
  <2>2. CASE overlap > 0
    <3>1. t = group.top - overlap
      BY <1>5, <2>1, <2>2
    <3>2. QED
      BY <1>1, <1>2, <1>4, <1>5, <2>1, <3>1
  <2>3. CASE ~(overlap > 0)
    BY <1>4, <1>5, <2>1, <2>3
  <2>4. QED
    BY <2>2, <2>3
<1> HIDE DEF t
<1>9. QED
  BY <1>3, <1>6, <1>7, <1>8 DEF rooted

LEMMA PulledFurther ==
  ASSUME NEW groups \in Seq(Groups), NEW root, Below(groups, root), NEW n \in 1..Len(groups),
         NEW acc, PulledSoFar(groups, root, acc, n - 1)
  PROVE  PulledSoFar(groups, root, PullUp(groups[Len(groups) - n + 1], acc, root), n)
<1> DEFINE N == Len(groups)
<1> DEFINE m == N - n + 1
<1> DEFINE group == groups[m]
<1> DEFINE before(k) == groups[N - (n - 1) + k]
<1> DEFINE of(k) == groups[N - n + k]
<1>1. N \in Nat /\ n \in Int /\ 1 <= n /\ n <= N /\ m \in DOMAIN groups /\ group \in Groups /\ DOMAIN groups = 1..N
      /\ \A k \in 1..N : groups[k] \in Groups
  OBVIOUS
<1>2. acc \in Seq(Groups) /\ Len(acc) = n - 1 /\ DOMAIN acc = 1..n - 1
  BY <1>1 DEF PulledSoFar
<1>3. \A k \in 1..n - 1 :
        /\ acc[k].height = before(k).height /\ acc[k].comments = before(k).comments
        /\ (\A l \in 1..n - 1 : l > k => ~HasRoot(before(l), root)) => acc[k] = before(k)
        /\ k < n - 1 => acc[k].top + acc[k].height <= acc[k + 1].top
  BY DEF PulledSoFar
<1>4. \A k \in 1..n - 1 : before(k) = of(k + 1)
  <2>1. \A k \in 1..n - 1 : N - (n - 1) + k = N - n + (k + 1)
    BY <1>1
  <2>2. QED
    BY <2>1
<1>5. of(1) = group
  OBVIOUS
<1>6. n > 1 => of(2) = groups[m + 1] /\ m + 1 \in DOMAIN groups /\ m + 1 > 1 /\ (m + 1) - 1 = m
  <2>1. n > 1 => N - n + 2 = m + 1 /\ m + 1 \in 1..N /\ m + 1 > 1 /\ (m + 1) - 1 = m
    BY <1>1
  <2>2. QED
    BY <1>1, <2>1
<1>7. n > 1 /\ ~HasRoot(of(2), root) => group.top + group.height <= of(2).top
  <2>1. ASSUME n > 1, ~HasRoot(of(2), root) PROVE group.top + group.height <= of(2).top
    <3> DEFINE k == m + 1
    <3>1. k \in DOMAIN groups /\ k > 1 /\ k - 1 = m /\ of(2) = groups[k]
      BY <1>6, <2>1
    <3> HIDE DEF k, m
    <3>2. groups[k - 1].top + groups[k - 1].height <= groups[k].top
      BY <2>1, <3>1 DEF Below
    <3>3. QED
      BY <3>1, <3>2
  <2>2. QED
    BY <2>1
<1> HIDE DEF N, group, before, of, m
<1>8. PICK t \in Int :
        /\ PullUp(group, acc, root) = <<[group EXCEPT !.top = t]>> \o acc
        /\ (\A i \in DOMAIN acc : ~HasRoot(acc[i], root)) => [group EXCEPT !.top = t] = group
        /\ (\E i \in DOMAIN acc : HasRoot(acc[i], root)) => t + group.height <= acc[1].top
  <2>1. group \in Groups /\ acc \in Seq(Groups)
    BY <1>1, <1>2
  <2>2. QED
    BY <2>1, PullIs
<1> DEFINE g == [group EXCEPT !.top = t]
<1>9. g \in Groups /\ g.top = t /\ g.height = group.height /\ g.comments = group.comments
  BY <1>1 DEF Groups
<1>10. PullUp(group, acc, root) = <<g>> \o acc
       /\ ((\A i \in DOMAIN acc : ~HasRoot(acc[i], root)) => g = group)
  BY <1>8
<1> HIDE DEF g
<1> DEFINE one == <<g>>
<1> DEFINE q == one \o acc
<1>11. /\ q \in Seq(Groups) /\ Len(q) = n /\ q[1] = g
       /\ \A k \in 1..n : k > 1 => k - 1 \in 1..n - 1 /\ q[k] = acc[k - 1]
  <2>1. one \in Seq(Groups) /\ Len(one) = 1 /\ one[1] = g
    BY <1>9
  <2> HIDE DEF one
  <2>2. /\ q \in Seq(Groups) /\ Len(q) = Len(one) + Len(acc)
        /\ \A j \in 1..Len(one) + Len(acc) : q[j] = IF j <= Len(one) THEN one[j] ELSE acc[j - Len(one)]
    BY <1>2, <2>1, ConcatEntries
  <2> HIDE DEF q
  <2>3. Len(one) + Len(acc) = n
    BY <1>1, <1>2, <2>1
  <2>4. \A j \in 1..n : q[j] = IF j <= 1 THEN one[j] ELSE acc[j - 1]
    BY <2>1, <2>2, <2>3
  <2>5. 1 \in 1..n /\ \A k \in 1..n : k > 1 => k - 1 \in 1..n - 1 /\ ~(k <= 1)
    BY <1>1
  <2>6. QED
    BY <2>1, <2>2, <2>3, <2>4, <2>5
<1> HIDE DEF q, one
<1>12. \A i \in DOMAIN acc : HasRoot(acc[i], root) <=> HasRoot(of(i + 1), root)
  BY <1>2, <1>3, <1>4 DEF HasRoot
<1>13. (\A l \in 1..n : l > 1 => ~HasRoot(of(l), root)) => \A i \in DOMAIN acc : ~HasRoot(acc[i], root)
  <2>1. \A i \in 1..n - 1 : i + 1 \in 1..n /\ i + 1 > 1
    BY <1>1
  <2>2. QED
    BY <1>2, <1>12, <2>1
<1>14. n > 1 => q[1].top + q[1].height <= q[2].top
  <2>1. SUFFICES ASSUME n > 1 PROVE g.top + g.height <= acc[1].top
    <3>1. n > 1 => 2 \in 1..n /\ 2 > 1 /\ 2 - 1 = 1
      BY <1>1
    <3>2. QED
      BY <1>11, <3>1
  <2>2. CASE \E i \in DOMAIN acc : HasRoot(acc[i], root)
    BY <1>8, <1>9, <2>2
  <2>3. CASE \A i \in DOMAIN acc : ~HasRoot(acc[i], root)
    <3>1. 1 \in DOMAIN acc /\ 1 \in 1..n - 1 /\ 1 + 1 = 2
      BY <1>1, <1>2, <2>1
    <3>2. ~HasRoot(of(2), root)
      BY <1>12, <2>3, <3>1
    <3>3. \A l \in 1..n - 1 : l > 1 => ~HasRoot(before(l), root)
      BY <1>2, <1>3, <2>3 DEF HasRoot
    <3>4. acc[1] = of(2)
      <4>1. acc[1] = before(1)
        BY <1>3, <3>1, <3>3
      <4>2. QED
        BY <1>4, <3>1, <4>1
    <3>5. g = group
      BY <1>10, <2>3
    <3>6. QED
      BY <1>7, <2>1, <3>2, <3>4, <3>5
  <2>4. QED
    BY <2>2, <2>3
<1>15. ASSUME NEW k \in 1..n
       PROVE  /\ q[k].height = of(k).height /\ q[k].comments = of(k).comments
              /\ (\A l \in 1..n : l > k => ~HasRoot(of(l), root)) => q[k] = of(k)
              /\ k < n => q[k].top + q[k].height <= q[k + 1].top
  <2>1. CASE k = 1
    <3>1. q[k].height = of(k).height /\ q[k].comments = of(k).comments
      BY <1>5, <1>9, <1>11, <2>1
    <3>2. (\A l \in 1..n : l > k => ~HasRoot(of(l), root)) => q[k] = of(k)
      BY <1>5, <1>10, <1>11, <1>13, <2>1
    <3>3. k < n => q[k].top + q[k].height <= q[k + 1].top
      <4>1. 1 + 1 = 2 /\ (1 < n => n > 1)
        BY <1>1
      <4>2. QED
        BY <1>14, <2>1, <4>1
    <3>4. QED
      BY <3>1, <3>2, <3>3
  <2>2. CASE k # 1
    <3> DEFINE j == k - 1
    <3>1. j \in 1..n - 1 /\ j + 1 = k /\ k > 1 /\ (k < n => j < n - 1 /\ k + 1 \in 1..n /\ k + 1 > 1 /\ (k + 1) - 1 = j + 1)
      BY <1>1, <2>2
    <3>2. q[k] = acc[j] /\ (k < n => q[k + 1] = acc[j + 1])
      BY <1>11, <3>1
    <3> HIDE DEF j
    <3>3. before(j) = of(k)
      BY <1>4, <3>1
    <3>4. (\A l \in 1..n : l > k => ~HasRoot(of(l), root)) => \A l \in 1..n - 1 : l > j => ~HasRoot(before(l), root)
      <4>1. \A l \in 1..n - 1 : l > j => l + 1 \in 1..n /\ l + 1 > k
        BY <1>1, <3>1
      <4>2. QED
        BY <1>4, <4>1
    <3>5. QED
      BY <1>3, <3>1, <3>2, <3>3, <3>4
  <2>3. QED
    BY <2>1, <2>2
<1>16. PulledSoFar(groups, root, q, n)
  BY <1>11, <1>15 DEF PulledSoFar, of, N
<1>17. PullUp(group, acc, root) = q
  BY <1>10 DEF q, one
<1>18. QED
  BY <1>16, <1>17 DEF group, m, N

LEMMA PulledIs ==
  ASSUME NEW groups \in Seq(Groups), NEW root, Below(groups, root)
  PROVE  PulledSoFar(groups, root, Pulled(groups, root), Len(groups))
<1> DEFINE N == Len(groups)
<1> DEFINE D == 0..N
<1> DEFINE V == Seq(Groups)
<1> DEFINE at(k) == N - k + 1
<1> DEFINE step == [x \in (1..N) \X V |-> PullUp(groups[at(x[1])], x[2], root)]
<1> DEFINE Body(f) == [k \in D |-> IF k = 0 THEN <<>> ELSE PullUp(groups[N - k + 1], f[k - 1], root)]
<1> DEFINE p == CHOOSE f : f = Body(f)
<1>1. N \in Nat /\ <<>> \in V /\ \A k \in 1..N : at(k) \in 1..N /\ groups[at(k)] \in Groups
  <2>1. N \in Nat /\ <<>> \in V /\ \A k \in 1..N : groups[k] \in Groups
    OBVIOUS
  <2>2. \A k \in 1..N : at(k) \in 1..N
    BY <2>1
  <2>3. QED
    BY <2>1, <2>2
<1>2. \A k \in 1..N : \A v \in V : step[<<k, v>>] = PullUp(groups[at(k)], v, root) /\ step[<<k, v>>] \in V
  <2>1. ASSUME NEW k \in 1..N, NEW v \in V PROVE PullUp(groups[at(k)], v, root) \in V
    <3> DEFINE group == groups[at(k)]
    <3>1. group \in Groups
      BY <1>1
    <3>2. v \in Seq(Groups)
      OBVIOUS
    <3> HIDE DEF group, V
    <3>3. PICK t \in Int :
            /\ PullUp(group, v, root) = <<[group EXCEPT !.top = t]>> \o v
            /\ (\A i \in DOMAIN v : ~HasRoot(v[i], root)) => [group EXCEPT !.top = t] = group
            /\ (\E i \in DOMAIN v : HasRoot(v[i], root)) => t + group.height <= v[1].top
      BY <3>1, <3>2, PullIs
    <3> DEFINE g == [group EXCEPT !.top = t]
    <3>4. g \in Groups
      BY <3>1 DEF Groups
    <3> HIDE DEF g
    <3>5. <<g>> \o v \in Seq(Groups)
      BY <3>2, <3>4
    <3>6. QED
      BY <3>3, <3>5 DEF group, V, g
  <2>2. QED
    BY <2>1
<1>3. \E f \in [0..N -> V] : Folds(f, N, <<>>, step)
  <2>1. StaysIn(N, V, step)
    BY <1>2 DEF StaysIn
  <2>2. N \in Nat /\ <<>> \in V
    BY <1>1
  <2> HIDE DEF N, V, step
  <2>3. QED
    BY <2>1, <2>2, FoldExists
<1>4. PICK f \in [0..N -> V] : f[0] = <<>> /\ \A k \in 1..N : f[k] = step[<<k, f[k - 1]>>]
  BY <1>3 DEF Folds
<1> HIDE DEF V
<1>5. \A k \in 1..N : f[k] = PullUp(groups[at(k)], f[k - 1], root)
  <2>1. \A k \in 1..N : k - 1 \in 0..N
    BY <1>1
  <2> HIDE DEF step, N, at
  <2>2. QED
    BY <1>2, <1>4, <2>1
<1>6. f = Body(f)
  <2>1. \A k \in D : f[k] = IF k = 0 THEN <<>> ELSE PullUp(groups[N - k + 1], f[k - 1], root)
    BY <1>1, <1>4, <1>5, \A k \in D : k # 0 => k \in 1..N
  <2>2. f = [k \in D |-> f[k]]
    BY <1>4
  <2> HIDE DEF D
  <2>3. QED
    BY <2>1, <2>2
<1>7. p = Body(p)
  <2> HIDE DEF Body
  <2>1. QED
    BY <1>6
<1>8. Pulled(groups, root) = p[N]
  BY DEF Pulled
<1> HIDE DEF p
<1>9. p[0] = <<>> /\ \A k \in 1..N : p[k] = PullUp(groups[N - k + 1], p[k - 1], root)
  <2>1. 0 \in D /\ \A k \in 1..N : k \in D /\ k # 0
    BY <1>1
  <2> HIDE DEF D, N
  <2>2. QED
    BY <1>7, <2>1
<1>10. PulledSoFar(groups, root, p[N], N)
  <2> DEFINE T == {k \in D : PulledSoFar(groups, root, p[k], k)}
  <2>1. 0 \in T
    <3>1. PulledSoFar(groups, root, <<>>, 0)
      BY DEF PulledSoFar
    <3>2. QED
      BY <1>1, <1>9, <3>1
  <2>2. ASSUME NEW k \in 1..N, k - 1 \in T PROVE k \in T
    <3>1. PulledSoFar(groups, root, p[k - 1], k - 1)
      BY <2>2
    <3>2. PulledSoFar(groups, root, PullUp(groups[N - k + 1], p[k - 1], root), k)
      BY <3>1, PulledFurther
    <3>3. k \in D /\ p[k] = PullUp(groups[N - k + 1], p[k - 1], root)
      BY <1>1, <1>9
    <3>4. QED
      BY <3>2, <3>3
  <2> HIDE DEF T, N
  <2>3. 0..N \subseteq T
    BY <1>1, <2>1, <2>2, UpTo
  <2>4. N \in T
    BY <1>1, <2>3
  <2>5. QED
    BY <2>4 DEF T
<1>11. QED
  BY <1>8, <1>10

-----------------------------------------------------------------------------
(* The layout *)

\* The groups as they are laid out.
LaidOut(groups, root, laid) ==
  /\ laid \in Seq(Groups) /\ Len(laid) = Len(groups)
  /\ \A k \in DOMAIN groups :
       /\ laid[k].height = groups[k].height /\ laid[k].comments = groups[k].comments
       /\ HasRoot(groups[k], root) => laid[k].top = RootTop(groups[k], root)
       /\ k < Len(groups) => laid[k].top + laid[k].height <= laid[k + 1].top

\* A comment is in one group only.
LEMMA OneGroup ==
  ASSUME NEW groups, Grouped(groups), NEW i \in DOMAIN groups, NEW j \in DOMAIN groups, NEW c,
         c \in groups[i].comments, c \in groups[j].comments
  PROVE  i = j
<1>1. groups \in Seq(Groups)
  BY DEF Grouped
<1>2. groups[i].top \in Int /\ groups[j].top \in Int /\ i \in Int /\ j \in Int
  <2>1. groups[i] \in Groups /\ groups[j] \in Groups /\ i \in Int /\ j \in Int
    BY <1>1
  <2>2. QED
    BY <2>1 DEF Groups
<1>3. top[c] = groups[i].top /\ top[c] = groups[j].top
  BY DEF Grouped
<1>4. i < j => groups[i].top < groups[j].top
  BY DEF Grouped
<1>5. j < i => groups[j].top < groups[i].top
  BY DEF Grouped
<1>6. QED
  BY <1>2, <1>3, <1>4, <1>5

LEMMA LaidOutIs ==
  ASSUME CommentPanelTypeOK, NEW root
  PROVE  LaidOut(GroupCommentsByTop, root, LayoutGroups(root))
<1> DEFINE groups == GroupCommentsByTop
<1> DEFINE pushed == Pushed(groups, root)
<1> DEFINE laid == Pulled(pushed, root)
<1> DEFINE N == Len(groups)
<1>1. Grouped(groups) /\ groups \in Seq(Groups)
  BY GroupsAre DEF Grouped
<1>2. LayoutGroups(root) = laid
  BY DEF LayoutGroups
<1> HIDE DEF groups
<1>3. N \in Nat /\ DOMAIN groups = 1..N
  BY <1>1
<1>4. PushedSoFar(groups, root, pushed, N)
  BY <1>1, PushedIs
<1> HIDE DEF pushed
<1>5. /\ pushed \in Seq(Groups) /\ Len(pushed) = N /\ DOMAIN pushed = 1..N
      /\ \A k \in 1..N :
           /\ pushed[k].height = groups[k].height /\ pushed[k].comments = groups[k].comments
           /\ HasRoot(groups[k], root) => pushed[k].top = RootTop(groups[k], root)
           /\ k > 1 /\ ~HasRoot(groups[k], root) => pushed[k - 1].top + pushed[k - 1].height <= pushed[k].top
  <2>1. pushed \in Seq(Groups) /\ Len(pushed) = N
    BY <1>4 DEF PushedSoFar
  <2>2. QED
    BY <1>4, <2>1 DEF PushedSoFar
<1>6. Below(pushed, root)
  BY <1>5 DEF Below, HasRoot
<1>7. PulledSoFar(pushed, root, laid, N)
  BY <1>5, <1>6, PulledIs
<1> HIDE DEF laid
<1>8. \A k \in 1..N : pushed[Len(pushed) - N + k] = pushed[k]
  BY <1>3, <1>5
<1>9. /\ laid \in Seq(Groups) /\ Len(laid) = N
      /\ \A k \in 1..N :
           /\ laid[k].height = pushed[k].height /\ laid[k].comments = pushed[k].comments
           /\ (\A l \in 1..N : l > k => ~HasRoot(pushed[l], root)) => laid[k] = pushed[k]
           /\ k < N => laid[k].top + laid[k].height <= laid[k + 1].top
  BY <1>7, <1>8 DEF PulledSoFar
<1>10. ASSUME NEW k \in 1..N, HasRoot(groups[k], root) PROVE laid[k].top = RootTop(groups[k], root)
  <2>1. ASSUME NEW l \in 1..N, l > k PROVE ~HasRoot(pushed[l], root)
    <3>1. SUFFICES ASSUME HasRoot(pushed[l], root) PROVE FALSE
      OBVIOUS
    <3>2. root \in groups[l].comments /\ root \in groups[k].comments
      BY <1>5, <1>10, <3>1 DEF HasRoot
    <3>3. l = k
      BY <1>1, <1>3, <3>2, OneGroup
    <3>4. QED
      BY <1>3, <2>1, <3>3
  <2>2. laid[k] = pushed[k]
    BY <1>9, <2>1
  <2>3. QED
    BY <1>5, <1>10, <2>2
<1>11. LaidOut(groups, root, laid)
  BY <1>3, <1>5, <1>9, <1>10 DEF LaidOut
<1>12. QED
  BY <1>2, <1>11 DEF groups

\* A group laid out before another is above it.
LEMMA Above ==
  ASSUME NEW groups \in Seq(Groups), NEW root, NEW laid, LaidOut(groups, root, laid),
         NEW i \in DOMAIN groups, NEW j \in DOMAIN groups, i < j
  PROVE  laid[i].top + laid[i].height <= laid[j].top
<1> DEFINE N == Len(groups)
<1> DEFINE bottom == laid[i].top + laid[i].height
<1> DEFINE T == {k \in 0..N : i < k => bottom <= laid[k].top}
<1>1. N \in Nat /\ DOMAIN groups = 1..N /\ i \in Int /\ j \in Int /\ i \in 1..N /\ j \in 1..N
  OBVIOUS
<1>2. laid \in Seq(Groups) /\ Len(laid) = N
  BY DEF LaidOut
<1>3. \A k \in 1..N : laid[k].top \in Int /\ laid[k].height \in Nat
  <2>1. \A k \in 1..N : laid[k] \in Groups
    BY <1>2
  <2>2. QED
    BY <2>1 DEF Groups
<1>4. \A k \in 1..N : k < N => laid[k].top + laid[k].height <= laid[k + 1].top
  BY <1>1 DEF LaidOut
<1>5. bottom \in Int
  BY <1>1, <1>3
<1> HIDE DEF N
<1>6. 0 \in T
  BY <1>1
<1>7. ASSUME NEW k \in 1..N, k - 1 \in T PROVE k \in T
  <2>1. SUFFICES ASSUME i < k PROVE bottom <= laid[k].top
    BY <1>1
  <2>2. k - 1 \in 1..N /\ k - 1 < N /\ (k - 1) + 1 = k
    BY <1>1, <2>1
  <2>3. laid[k - 1].top + laid[k - 1].height <= laid[k].top
    <3> DEFINE l == k - 1
    <3>1. l \in 1..N /\ l < N /\ l + 1 = k
      BY <2>2
    <3> HIDE DEF l
    <3>2. laid[l].top + laid[l].height <= laid[l + 1].top
      BY <1>4, <3>1
    <3>3. QED
      BY <3>1, <3>2 DEF l
  <2>4. CASE i = k - 1
    BY <2>3, <2>4
  <2>5. CASE i # k - 1
    <3>1. i < k - 1
      BY <1>1, <2>1, <2>5
    <3>2. bottom <= laid[k - 1].top
      BY <1>7, <3>1
    <3>3. laid[k - 1].top \in Int /\ laid[k - 1].height \in Nat /\ laid[k].top \in Int
      BY <1>3, <2>2
    <3> HIDE DEF bottom
    <3>4. QED
      BY <1>5, <2>3, <3>2, <3>3
  <2>6. QED
    BY <2>4, <2>5
<1> HIDE DEF T
<1>8. 0..N \subseteq T
  BY <1>1, <1>6, <1>7, UpTo
<1>9. j \in T
  BY <1>1, <1>8
<1>10. QED
  BY <1>9 DEF T

\* Where a comment goes: from the top of its group, under those posted before it.
LEMMA PositionIs ==
  ASSUME CommentPanelTypeOK, NEW root, NEW c \in Placed
  PROVE  \E i \in DOMAIN GroupCommentsByTop :
           /\ c \in GroupCommentsByTop[i].comments
           /\ LayoutComments(root)[c] =
                LayoutGroups(root)[i].top + Total({d \in GroupCommentsByTop[i].comments : d < c})
<1> DEFINE groups == GroupCommentsByTop
<1> DEFINE laid == LayoutGroups(root)
<1> DEFINE at(d) == CHOOSE i \in DOMAIN laid : d \in laid[i].comments
<1> DEFINE position == [d \in Placed |-> Layout(laid[at(d)])[d]]
<1>1. Grouped(groups) /\ LaidOut(groups, root, laid)
  BY GroupsAre, LaidOutIs
<1>2. LayoutComments(root) = position
  BY DEF LayoutComments
<1>3. position[c] = Layout(laid[at(c)])[c]
  OBVIOUS
<1> HIDE DEF groups, laid, position
<1>4. DOMAIN laid = DOMAIN groups
  <2>1. groups \in Seq(Groups) /\ laid \in Seq(Groups) /\ Len(laid) = Len(groups)
    BY <1>1 DEF Grouped, LaidOut
  <2>2. QED
    BY <2>1
<1>5. \A i \in DOMAIN groups : laid[i].comments = groups[i].comments
  BY <1>1 DEF LaidOut
<1> DEFINE i == at(c)
<1>6. i \in DOMAIN laid /\ c \in laid[i].comments
  <2>1. \E k \in DOMAIN groups : c \in groups[k].comments
    BY <1>1 DEF Grouped
  <2>2. \E k \in DOMAIN laid : c \in laid[k].comments
    BY <1>4, <1>5, <2>1
  <2>3. QED
    BY <2>2
<1> HIDE DEF at
<1>7. Layout(laid[i])[c] = laid[i].top + Total({d \in laid[i].comments : d < c})
  BY <1>6 DEF Layout
<1>8. laid[i].comments = groups[i].comments
  BY <1>4, <1>5, <1>6
<1> HIDE DEF i
<1>9. position[c] = laid[i].top + Total({d \in groups[i].comments : d < c})
  BY <1>3, <1>7, <1>8 DEF i
<1>10. QED
  BY <1>2, <1>4, <1>6, <1>8, <1>9 DEF groups, laid

LEMMA InPlace ==
  ASSUME CommentPanelTypeOK
  PROVE  CommentsInPlace
<1> DEFINE root == Root
<1> DEFINE groups == GroupCommentsByTop
<1> DEFINE laid == LayoutGroups(root)
<1> DEFINE position == LayoutComments(root)
<1>1. Grouped(groups) /\ LaidOut(groups, root, laid) /\ groups \in Seq(Groups) /\ laid \in Seq(Groups) /\ Len(laid) = Len(groups)
  BY GroupsAre, LaidOutIs DEF Grouped, LaidOut
<1>2. ASSUME NEW c \in Placed
      PROVE  \E i \in DOMAIN groups :
               /\ c \in groups[i].comments
               /\ position[c] = laid[i].top + Total({d \in groups[i].comments : d < c})
  BY PositionIs
<1>3. CommentsDoNotOverlap <=>
        \A c, d \in Placed : Precedes(c, d) => position[c] + height[c] + Margin <= position[d]
  BY DEF CommentsDoNotOverlap
<1>4. FocusedIsAtItsLine <=> (focused \in Placed => position[focused] = top[focused])
  BY DEF FocusedIsAtItsLine, Root
<1>5. Placed \subseteq Ids /\ \A c \in Ids : c \in Int /\ top[c] \in Nat /\ height[c] \in Nat
  BY PlacedIs
<1>6. Margin \in Nat
  BY CommentPanelAssumption DEF CommentPanelAssumption
<1>7. focused \in Placed => root = focused
  BY <1>5, CommentPanelAssumption DEF CommentPanelAssumption, Root
<1> HIDE DEF root, groups, laid, position
<1>8. \A i \in DOMAIN groups :
        /\ i \in Int /\ laid[i].top \in Int /\ laid[i].height = groups[i].height /\ groups[i].top \in Int
        /\ groups[i].comments = {c \in Placed : top[c] = groups[i].top}
        /\ groups[i].height = Total(groups[i].comments)
        /\ HasRoot(groups[i], root) => laid[i].top = RootTop(groups[i], root)
  <2>1. \A i \in DOMAIN groups : i \in Int /\ i \in DOMAIN laid /\ groups[i] \in Groups
    BY <1>1
  <2>2. \A i \in DOMAIN laid : laid[i] \in Groups
    BY <1>1
  <2>3. \A i \in DOMAIN groups : laid[i].top \in Int /\ groups[i].top \in Int
    BY <2>1, <2>2 DEF Groups
  <2>4. QED
    BY <1>1, <2>1, <2>3 DEF Grouped, LaidOut
<1>9. ASSUME NEW c \in Placed, NEW d \in Placed, Precedes(c, d)
      PROVE  position[c] + height[c] + Margin <= position[d]
  <2>1. PICK i \in DOMAIN groups :
          c \in groups[i].comments /\ position[c] = laid[i].top + Total({e \in groups[i].comments : e < c})
    BY <1>2
  <2>2. PICK j \in DOMAIN groups :
          d \in groups[j].comments /\ position[d] = laid[j].top + Total({e \in groups[j].comments : e < d})
    BY <1>2
  <2> DEFINE before == {e \in groups[i].comments : e < c}
  <2> DEFINE upTo == before \cup {c}
  <2> DEFINE above == {e \in groups[j].comments : e < d}
  <2>3. c \in Ids /\ d \in Ids /\ c \in Int /\ d \in Int /\ height[c] \in Nat /\ top[c] \in Nat /\ top[d] \in Nat
    BY <1>5
  <2>4. c \notin before
    BY <2>3
  <2>5. upTo \subseteq groups[i].comments
    BY <2>1
  <2>6. top[c] = groups[i].top /\ top[d] = groups[j].top
    BY <1>8, <2>1, <2>2
  <2>7. i = j /\ c < d => upTo \subseteq above
    <3>1. SUFFICES ASSUME i = j, c < d, NEW e \in upTo PROVE e \in above
      OBVIOUS
    <3>2. e \in groups[i].comments
      BY <2>5, <3>1
    <3>3. e \in Int
      BY <1>5, <1>8, <3>2
    <3>4. e < c \/ e = c
      BY <3>1
    <3>5. e < d
      BY <2>3, <3>1, <3>3, <3>4
    <3>6. QED
      BY <3>1, <3>2, <3>5
  <2>8. position[c] = laid[i].top + Total(before) /\ position[d] = laid[j].top + Total(above)
    BY <2>1, <2>2
  <2> HIDE DEF before, above
  <2>9. /\ Total(before) \in Nat /\ Total(upTo) = Total(before) + height[c] + Margin
        /\ Total(above) \in Nat /\ Total(groups[i].comments) \in Nat
    BY <2>3, <2>4, TotalIs, TotalAdded
  <2> HIDE DEF upTo
  <2>10. position[c] + height[c] + Margin = laid[i].top + Total(upTo) /\ Total(upTo) \in Nat /\ laid[i].top \in Int
    BY <1>6, <1>8, <2>3, <2>8, <2>9
  <2>11. CASE top[c] < top[d]
    <3>1. i < j
      <4>1. j < i => groups[j].top < groups[i].top
        BY <1>1 DEF Grouped
      <4>2. i \in Int /\ j \in Int /\ groups[i].top \in Int /\ groups[j].top \in Int
        BY <1>8
      <4>3. i # j
        BY <2>6, <2>11, <4>2
      <4>4. QED
        BY <2>6, <2>11, <4>1, <4>2, <4>3
    <3>2. laid[i].top + laid[i].height <= laid[j].top
      BY <1>1, <3>1, Above
    <3>3. Total(upTo) <= laid[i].height
      <4>1. Total(upTo) <= Total(groups[i].comments)
        BY <2>5, TotalGrows
      <4>2. laid[i].height = Total(groups[i].comments)
        BY <1>8
      <4>3. QED
        BY <4>1, <4>2
    <3>4. laid[i].height \in Nat /\ laid[j].top \in Int
      BY <1>8, <2>9
    <3>5. laid[i].top + Total(upTo) <= laid[j].top + Total(above)
      BY <2>9, <2>10, <3>2, <3>3, <3>4
    <3>6. QED
      BY <2>8, <2>10, <3>5
  <2>12. CASE ~(top[c] < top[d])
    <3>1. top[c] = top[d] /\ c < d
      BY <1>9, <2>12 DEF Precedes
    <3>2. i = j
      <4>1. d \in groups[i].comments
        BY <1>8, <2>6, <3>1
      <4>2. QED
        BY <1>1, <2>2, <4>1, OneGroup
    <3>3. Total(upTo) <= Total(above)
      BY <2>7, <3>1, <3>2, TotalGrows
    <3>4. laid[i].top + Total(upTo) <= laid[i].top + Total(above)
      BY <2>9, <2>10, <3>3
    <3>5. QED
      BY <2>8, <2>10, <3>2, <3>4
  <2>13. QED
    BY <2>11, <2>12
<1>10. ASSUME focused \in Placed PROVE position[focused] = top[focused]
  <2>1. PICK i \in DOMAIN groups :
          focused \in groups[i].comments /\ position[focused] = laid[i].top + Total({e \in groups[i].comments : e < focused})
    BY <1>2, <1>10
  <2>2. HasRoot(groups[i], root)
    BY <1>7, <1>10, <2>1 DEF HasRoot
  <2> DEFINE rest == Total({e \in groups[i].comments : e < focused})
  <2>3. laid[i].top = groups[i].top - rest
    BY <1>7, <1>8, <1>10, <2>2 DEF RootTop
  <2>4. rest \in Nat
    BY TotalIs
  <2>5. position[focused] = laid[i].top + rest
    BY <2>1
  <2> HIDE DEF rest
  <2>6. groups[i].top \in Int /\ top[focused] = groups[i].top
    BY <1>8, <2>1
  <2>7. QED
    BY <2>3, <2>4, <2>5, <2>6
<1>11. QED
  BY <1>3, <1>4, <1>9, <1>10 DEF CommentsInPlace

\* Comments are displayed in the order of their lines, each with the room that was
\* measured for it, and the one in focus is next to its line (TextPreview.tsx, layoutComments).
THEOREM CommentsAlwaysInPlace == CommentPanelSpec => []CommentsInPlace
<1>1. CommentPanelInit => CommentPanelTypeOK
  BY DEF CommentPanelInit, CommentPanelTypeOK
<1>2. CommentPanelTypeOK /\ [CommentPanelNext]_panelVars => CommentPanelTypeOK'
  BY DEF CommentPanelTypeOK, CommentPanelNext, panelVars, GetComments, OnCommentMount, OnCommentClick, OnTextClick,
         FocusComment, Placed, Mismeasured, OffsetHeight
<1>3. CommentPanelTypeOK => CommentsInPlace
  BY InPlace
<1>4. QED
  BY <1>1, <1>2, <1>3, PTL DEF CommentPanelSpec

(***************************************************************************)
(* The highlights of a text: what is written, whatever has been cut; and   *)
(* where each comment is cut when they overlap two at a time.              *)
(***************************************************************************)

Places == 0..Characters
Cuts == [id : Nat, kind : Kinds, range : [start : Places, end : Places]]

StartOf(g, i) == g[i].range.start
EndOf(g, i) == g[i].range.end

-----------------------------------------------------------------------------
(* Writing *)

Upto(n) == [k \in 1..n |-> k]

LEMMA CharactersAre == Characters \in Nat /\ Characters > 0 /\ Places \subseteq Nat
BY HighlighterAssumption DEF Places

LEMMA SliceIs ==
  ASSUME NEW from \in Places, NEW to \in Places
  PROVE  /\ Slice(from, to) \in Seq(1..Characters)
         /\ ToSet(Slice(from, to)) = (from + 1)..to
         /\ from <= to => Upto(from) \o Slice(from, to) = Upto(to)
<1> DEFINE n == IF to > from THEN to - from ELSE 0
<1> DEFINE s == Slice(from, to)
<1>1. /\ from \in Nat /\ to \in Nat /\ n \in Nat /\ Characters \in Nat /\ from <= Characters /\ to <= Characters
      /\ \A k \in 1..n : from + k \in 1..Characters /\ from + k \in (from + 1)..to
  BY CharactersAre DEF Places
<1>2. s = [k \in 1..n |-> from + k]
  BY DEF Slice
<1>3. s \in Seq(1..Characters) /\ Len(s) = n /\ DOMAIN s = 1..n /\ \A k \in 1..n : s[k] = from + k
  BY <1>1, <1>2
<1>4. ToSet(s) = (from + 1)..to
  <2>1. ToSet(s) \subseteq (from + 1)..to
    BY <1>1, <1>3 DEF ToSet
  <2>2. ASSUME NEW c \in (from + 1)..to PROVE c \in ToSet(s)
    <3>1. c - from \in 1..n /\ from + (c - from) = c
      BY <1>1
    <3> HIDE DEF s, n
    <3>2. c - from \in DOMAIN s /\ s[c - from] = c
      BY <1>3, <3>1
    <3>3. QED
      BY <3>2 DEF ToSet
  <2>3. QED
    BY <2>1, <2>2
<1>5. ASSUME from <= to PROVE Upto(from) \o s = Upto(to)
  <2> DEFINE u == Upto(from)
  <2> DEFINE v == Upto(to)
  <2>1. /\ u \in Seq(Nat) /\ Len(u) = from /\ \A k \in 1..from : u[k] = k
        /\ v \in Seq(Nat) /\ Len(v) = to /\ \A k \in 1..to : v[k] = k
    BY <1>1 DEF Upto
  <2>2. s \in Seq(Nat) /\ n = to - from
    BY <1>1, <1>3, <1>5
  <2> HIDE DEF u, v, s
  <2> DEFINE w == u \o s
  <2>3. /\ w \in Seq(Nat) /\ Len(w) = Len(u) + Len(s)
        /\ \A j \in 1..Len(u) + Len(s) : w[j] = IF j <= Len(u) THEN u[j] ELSE s[j - Len(u)]
    BY <2>1, <2>2, ConcatEntries
  <2> HIDE DEF w
  <2>4. Len(w) = to
    BY <1>1, <1>3, <2>1, <2>2, <2>3
  <2>5. ASSUME NEW j \in 1..to PROVE w[j] = j
    <3>1. CASE j <= from
      <4>1. j <= Len(u) /\ j \in 1..from /\ j \in 1..Len(u) + Len(s)
        BY <1>1, <1>3, <2>1, <2>2, <3>1
      <4>2. QED
        BY <2>1, <2>3, <4>1
    <3>2. CASE ~(j <= from)
      <4>1. j - from \in 1..n /\ from + (j - from) = j
        BY <1>1, <2>2, <3>2
      <4>2. w[j] = s[j - from]
        <5>1. ~(j <= Len(u)) /\ j \in 1..Len(u) + Len(s) /\ Len(u) = from
          BY <1>1, <1>3, <2>1, <2>2, <3>2
        <5>2. QED
          BY <2>3, <5>1
      <4>3. QED
        BY <1>3, <4>1, <4>2
    <3>3. QED
      BY <3>1, <3>2
  <2>6. w = v
    BY <2>1, <2>3, <2>4, <2>5, SeqEqual
  <2>7. QED
    BY <2>6 DEF w, u, v
<1>6. QED
  BY <1>3, <1>4, <1>5

LEMMA EntriesIn ==
  ASSUME NEW T, NEW s \in Seq(T)
  PROVE  ToSet(s) \subseteq T
BY DEF ToSet

LEMMA ToSetConcat ==
  ASSUME NEW T, NEW a \in Seq(T), NEW b \in Seq(T)
  PROVE  a \o b \in Seq(T) /\ ToSet(a \o b) = ToSet(a) \cup ToSet(b)
<1> DEFINE c == a \o b
<1>1. /\ c \in Seq(T) /\ Len(c) = Len(a) + Len(b) /\ Len(a) \in Nat /\ Len(b) \in Nat
      /\ \A j \in 1..Len(a) + Len(b) : c[j] = IF j <= Len(a) THEN a[j] ELSE b[j - Len(a)]
  BY ConcatEntries
<1> HIDE DEF c
<1>2. DOMAIN c = 1..Len(a) + Len(b) /\ DOMAIN a = 1..Len(a) /\ DOMAIN b = 1..Len(b)
  BY <1>1
<1>3. ASSUME NEW j \in DOMAIN c PROVE c[j] \in ToSet(a) \cup ToSet(b)
  <2>1. CASE j <= Len(a)
    <3>1. j \in DOMAIN a /\ c[j] = a[j]
      BY <1>1, <1>2, <2>1
    <3>2. QED
      BY <3>1 DEF ToSet
  <2>2. CASE ~(j <= Len(a))
    <3>1. j - Len(a) \in DOMAIN b /\ c[j] = b[j - Len(a)]
      BY <1>1, <1>2, <2>2
    <3>2. QED
      BY <3>1 DEF ToSet
  <2>3. QED
    BY <2>1, <2>2
<1>4. ASSUME NEW j \in DOMAIN a PROVE a[j] \in ToSet(c)
  <2>1. j \in DOMAIN c /\ c[j] = a[j]
    BY <1>1, <1>2
  <2>2. QED
    BY <2>1 DEF ToSet
<1>5. ASSUME NEW j \in DOMAIN b PROVE b[j] \in ToSet(c)
  <2>1. Len(a) + j \in DOMAIN c /\ ~(Len(a) + j <= Len(a)) /\ (Len(a) + j) - Len(a) = j
    BY <1>1, <1>2
  <2>2. c[Len(a) + j] = b[j]
    BY <1>1, <1>2, <2>1
  <2>3. QED
    BY <2>1, <2>2 DEF ToSet
<1>6. ToSet(c) = ToSet(a) \cup ToSet(b)
  BY <1>3, <1>4, <1>5 DEF ToSet
<1>7. QED
  BY <1>1, <1>6 DEF c

Passages == [text : Seq(1..Characters), end : Places]

LEMMA WriteIs ==
  ASSUME NEW acc \in Passages, NEW h \in Cuts
  PROVE  /\ Write(acc, h) \in Passages /\ Write(acc, h).end = h.range.end
         /\ 1..acc.end \subseteq ToSet(acc.text) => 1..h.range.end \subseteq ToSet(Write(acc, h).text)
         /\ acc.text = Upto(acc.end) /\ acc.end <= h.range.start /\ h.range.start <= h.range.end
              => Write(acc, h).text = Upto(h.range.end)
<1> DEFINE text == acc.text
<1> DEFINE end == acc.end
<1> DEFINE s == h.range.start
<1> DEFINE e == h.range.end
<1> DEFINE a == Slice(end, s)
<1> DEFINE b == Slice(s, e)
<1>1. text \in Seq(1..Characters) /\ end \in Places /\ s \in Places /\ e \in Places
  BY DEF Passages, Cuts
<1>2. Write(acc, h) = [text |-> (text \o a) \o b, end |-> e]
  BY DEF Write
<1> HIDE DEF text, end, s, e
<1>3. /\ a \in Seq(1..Characters) /\ ToSet(a) = (end + 1)..s /\ (end <= s => Upto(end) \o a = Upto(s))
      /\ b \in Seq(1..Characters) /\ ToSet(b) = (s + 1)..e /\ (s <= e => Upto(s) \o b = Upto(e))
  BY <1>1, SliceIs
<1> HIDE DEF a, b
<1> DEFINE ta == text \o a
<1>4. ta \in Seq(1..Characters) /\ ToSet(ta) = ToSet(text) \cup ToSet(a)
  <2>1. text \in Seq(1..Characters)
    BY <1>1
  <2>2. a \in Seq(1..Characters)
    BY <1>3
  <2>3. QED
    BY <2>1, <2>2, ToSetConcat
<1>5. ta \o b \in Seq(1..Characters) /\ ToSet(ta \o b) = ToSet(ta) \cup ToSet(b)
  <2>1. ta \in Seq(1..Characters)
    BY <1>4
  <2>2. b \in Seq(1..Characters)
    BY <1>3
  <2> HIDE DEF ta
  <2>3. QED
    BY <2>1, <2>2, ToSetConcat
<1>6. Write(acc, h).text = ta \o b /\ Write(acc, h).end = e
  BY <1>2
<1>7. Write(acc, h) \in Passages
  BY <1>1, <1>2, <1>5 DEF Passages
<1>8. ASSUME 1..end \subseteq ToSet(text) PROVE 1..e \subseteq ToSet(ta \o b)
  <2>1. ToSet(ta \o b) = (ToSet(text) \cup ((end + 1)..s)) \cup ((s + 1)..e)
    BY <1>3, <1>4, <1>5
  <2>2. ASSUME NEW k \in 1..e PROVE k \in 1..end \/ k \in (end + 1)..s \/ k \in (s + 1)..e
    BY <1>1, CharactersAre
  <2>3. QED
    BY <1>8, <2>1, <2>2
<1>9. ASSUME text = Upto(end), end <= s, s <= e PROVE ta \o b = Upto(e)
  BY <1>3, <1>9
<1>10. QED
  BY <1>6, <1>7, <1>8, <1>9 DEF text, end, s, e

\* What is written of the first so many.
LEMMA WrittenIs ==
  ASSUME NEW n \in Nat, ret \in Seq(Cuts), Len(ret) = n
  PROVE  \E w \in [0..n -> Passages] :
           /\ w[0] = [text |-> <<>>, end |-> 0]
           /\ \A k \in 1..n : w[k] = Write(w[k - 1], ret[k])
           /\ Written = w[n].text \o Slice(w[n].end, Characters)
<1> DEFINE D == 0..n
<1> DEFINE first == [text |-> <<>>, end |-> 0]
<1> DEFINE step == [x \in (1..n) \X Passages |-> Write(x[2], ret[x[1]])]
<1> DEFINE Body(f) == [k \in D |-> IF k = 0 THEN first ELSE Write(f[k - 1], ret[k])]
<1> DEFINE w == CHOOSE f : f = Body(f)
<1>1. \A k \in 1..n : ret[k] \in Cuts
  OBVIOUS
<1>2. \A k \in 1..n : \A v \in Passages : step[<<k, v>>] = Write(v, ret[k]) /\ step[<<k, v>>] \in Passages
  BY <1>1, WriteIs
<1>3. first \in Passages
  <2>1. 0 \in Places /\ <<>> \in Seq(1..Characters)
    BY CharactersAre DEF Places
  <2>2. QED
    BY <2>1 DEF Passages
<1>4. \E f \in [0..n -> Passages] : Folds(f, n, first, step)
  <2>1. StaysIn(n, Passages, step)
    BY <1>2 DEF StaysIn
  <2> HIDE DEF step, first
  <2>2. QED
    BY <1>3, <2>1, FoldExists
<1>5. PICK f \in [0..n -> Passages] : f[0] = first /\ \A k \in 1..n : f[k] = step[<<k, f[k - 1]>>]
  BY <1>4 DEF Folds
<1>6. \A k \in 1..n : f[k] = Write(f[k - 1], ret[k])
  <2>1. \A k \in 1..n : k - 1 \in 0..n
    OBVIOUS
  <2> HIDE DEF step
  <2>2. QED
    BY <1>2, <1>5, <2>1
<1>7. f = Body(f)
  <2>1. \A k \in D : f[k] = IF k = 0 THEN first ELSE Write(f[k - 1], ret[k])
    BY <1>5, <1>6, \A k \in D : k # 0 => k \in 1..n
  <2>2. f = [k \in D |-> f[k]]
    BY <1>5
  <2> HIDE DEF D, first
  <2>3. QED
    BY <2>1, <2>2
<1>8. w = Body(w)
  <2> HIDE DEF Body
  <2>1. QED
    BY <1>7
<1>9. Written = w[n].text \o Slice(w[n].end, Characters)
  BY DEF Written
<1> HIDE DEF w
<1>10. w[0] = first /\ \A k \in 1..n : w[k] = Write(w[k - 1], ret[k])
  <2>1. 0 \in D /\ \A k \in 1..n : k \in D /\ k # 0
    OBVIOUS
  <2> HIDE DEF D, first
  <2>2. QED
    BY <1>8, <2>1
<1> HIDE DEF first
<1>11. \A k \in D : w[k] \in Passages
  <2> DEFINE T == {k \in D : w[k] \in Passages}
  <2>1. 0 \in T
    BY <1>3, <1>10
  <2>2. ASSUME NEW k \in 1..n, k - 1 \in T PROVE k \in T
    <3>1. w[k - 1] \in Passages /\ ret[k] \in Cuts
      BY <1>1, <2>2
    <3>2. Write(w[k - 1], ret[k]) \in Passages
      BY <3>1, WriteIs
    <3>3. k \in D /\ w[k] = Write(w[k - 1], ret[k])
      BY <1>10
    <3>4. QED
      BY <3>2, <3>3
  <2> HIDE DEF T
  <2>3. 0..n \subseteq T
    BY <2>1, <2>2, UpTo
  <2>4. QED
    BY <2>3 DEF T
<1>12. w \in [0..n -> Passages]
  <2> HIDE DEF D
  <2>1. w = [k \in D |-> IF k = 0 THEN first ELSE Write(w[k - 1], ret[k])]
    BY <1>8
  <2>2. w \in [D -> Passages]
    BY <1>11, <2>1
  <2>3. QED
    BY <2>2 DEF D
<1>13. QED
  BY <1>9, <1>10, <1>12 DEF first

\* Nothing is lost, whatever has been cut.
LEMMA AllIsWritten ==
  ASSUME NEW n \in Nat, ret \in Seq(Cuts), Len(ret) = n
  PROVE  ToSet(Written) = 1..Characters
<1>1. PICK w \in [0..n -> Passages] :
        /\ w[0] = [text |-> <<>>, end |-> 0]
        /\ \A k \in 1..n : w[k] = Write(w[k - 1], ret[k])
        /\ Written = w[n].text \o Slice(w[n].end, Characters)
  BY WrittenIs
<1> DEFINE T == {k \in 0..n : 1..w[k].end \subseteq ToSet(w[k].text)}
<1>2. 0 \in T
  <2>1. 1..w[0].end = {}
    BY <1>1
  <2>2. QED
    BY <2>1
<1>3. ASSUME NEW k \in 1..n, k - 1 \in T PROVE k \in T
  <2>1. w[k - 1] \in Passages /\ ret[k] \in Cuts /\ k - 1 \in 0..n /\ k \in 0..n
    OBVIOUS
  <2> DEFINE v == w[k - 1]
  <2> DEFINE h == ret[k]
  <2>2. v \in Passages /\ h \in Cuts /\ 1..v.end \subseteq ToSet(v.text)
    BY <1>3, <2>1
  <2>3. w[k] = Write(v, h)
    BY <1>1
  <2> HIDE DEF v, h
  <2>4. Write(v, h).end = h.range.end /\ 1..h.range.end \subseteq ToSet(Write(v, h).text)
    BY <2>2, WriteIs
  <2>5. QED
    BY <2>1, <2>3, <2>4
<1>4. n \in T
  <2> HIDE DEF T
  <2>1. 0..n \subseteq T
    BY <1>2, <1>3, UpTo
  <2>2. QED
    BY <2>1
<1> DEFINE a == w[n].text
<1> DEFINE e == w[n].end
<1> DEFINE b == Slice(e, Characters)
<1>5. a \in Seq(1..Characters) /\ e \in Places /\ 1..e \subseteq ToSet(a) /\ Written = a \o b
  <2>1. w[n] \in Passages
    OBVIOUS
  <2>2. a \in Seq(1..Characters) /\ e \in Places
    BY <2>1 DEF Passages
  <2>3. QED
    BY <1>1, <1>4, <2>2
<1> HIDE DEF a, e
<1>6. b \in Seq(1..Characters) /\ ToSet(b) = (e + 1)..Characters
  <2>1. Characters \in Places
    BY CharactersAre DEF Places
  <2>2. QED
    BY <1>5, <2>1, SliceIs
<1> HIDE DEF b
<1>7. ToSet(a \o b) = ToSet(a) \cup ToSet(b)
  <2>1. a \in Seq(1..Characters)
    BY <1>5
  <2>2. b \in Seq(1..Characters)
    BY <1>6
  <2>3. QED
    BY <2>1, <2>2, ToSetConcat
<1>8. ToSet(a) \subseteq 1..Characters /\ ToSet(b) \subseteq 1..Characters
  <2>1. a \in Seq(1..Characters)
    BY <1>5
  <2>2. b \in Seq(1..Characters)
    BY <1>6
  <2>3. QED
    BY <2>1, <2>2, EntriesIn
<1>9. \A k \in 1..Characters : k \in 1..e \/ k \in (e + 1)..Characters
  BY <1>5, CharactersAre DEF Places
<1>10. QED
  BY <1>5, <1>6, <1>7, <1>8, <1>9

\* The cuts come one after the other.
InTurn(cuts) ==
  /\ \A i \in DOMAIN cuts : cuts[i].range.start <= cuts[i].range.end
  /\ \A i, j \in DOMAIN cuts : i < j => cuts[i].range.end <= cuts[j].range.start

LEMMA TextIsWrittenOnce ==
  ASSUME NEW n \in Nat, ret \in Seq(Cuts), Len(ret) = n, InTurn(ret)
  PROVE  TextOnce
<1>1. PICK w \in [0..n -> Passages] :
        /\ w[0] = [text |-> <<>>, end |-> 0]
        /\ \A k \in 1..n : w[k] = Write(w[k - 1], ret[k])
        /\ Written = w[n].text \o Slice(w[n].end, Characters)
  BY WrittenIs
<1> DEFINE Ended(k) == w[k].end = IF k = 0 THEN 0 ELSE ret[k].range.end
<1> DEFINE T == {k \in 0..n : w[k].text = Upto(w[k].end) /\ Ended(k)}
<1>2. 0 \in T
  <2>1. Upto(0) = <<>>
    BY DEF Upto
  <2>2. QED
    BY <1>1, <2>1
<1>3. ASSUME NEW k \in 1..n, k - 1 \in T PROVE k \in T
  <2> DEFINE v == w[k - 1]
  <2> DEFINE h == ret[k]
  <2>1. v \in Passages /\ h \in Cuts /\ k \in 0..n /\ v.text = Upto(v.end) /\ Ended(k - 1) /\ k \in DOMAIN ret
    BY <1>3
  <2>2. w[k] = Write(v, h)
    BY <1>1
  <2>3. h.range.start <= h.range.end
    BY <2>1 DEF InTurn
  <2>4. v.end <= h.range.start
    <3>1. CASE k = 1
      <4>1. v.end = 0
        BY <2>1, <3>1
      <4>2. h.range.start \in Nat
        BY <2>1, CharactersAre DEF Cuts
      <4>3. QED
        BY <4>1, <4>2
    <3>2. CASE k # 1
      <4>1. k - 1 \in DOMAIN ret /\ k - 1 < k /\ k - 1 # 0
        BY <3>2
      <4>2. ret[k - 1].range.end <= ret[k].range.start
        BY <2>1, <4>1 DEF InTurn
      <4>3. QED
        BY <2>1, <4>1, <4>2
    <3>3. QED
      BY <3>1, <3>2
  <2> HIDE DEF v
  <2>5. w[k].end = ret[k].range.end
    <3> HIDE DEF h
    <3>1. Write(v, h).end = h.range.end
      BY <2>1, WriteIs
    <3>2. QED
      BY <2>2, <3>1 DEF h
  <2> HIDE DEF h
  <2>6. Write(v, h).end = h.range.end /\ Write(v, h).text = Upto(h.range.end)
    BY <2>1, <2>3, <2>4, WriteIs
  <2>7. k # 0
    OBVIOUS
  <2>8. QED
    BY <2>1, <2>2, <2>5, <2>6, <2>7
<1>4. w[n].text = Upto(w[n].end)
  <2> HIDE DEF T
  <2>1. 0..n \subseteq T
    BY <1>2, <1>3, UpTo
  <2>2. n \in T
    BY <2>1
  <2>3. QED
    BY <2>2 DEF T
<1>5. w[n].end \in Places /\ Characters \in Places /\ w[n].end <= Characters
  <2>1. w[n] \in Passages
    OBVIOUS
  <2>2. w[n].end \in Places
    BY <2>1 DEF Passages
  <2>3. QED
    BY <2>2, CharactersAre DEF Places
<1> DEFINE e == w[n].end
<1>6. Written = Upto(e) \o Slice(e, Characters)
  BY <1>1, <1>4
<1> HIDE DEF e
<1>7. Upto(e) \o Slice(e, Characters) = Upto(Characters)
  BY <1>5, SliceIs DEF e
<1>8. QED
  BY <1>6, <1>7 DEF TextOnce, Upto

-----------------------------------------------------------------------------
(* Where comments are cut *)

Given(g) == g \in HighlightLists /\ Sorted(g)

LEMMA GivenIs ==
  ASSUME NEW g, Given(g)
  PROVE  /\ g \in Seq(Highlights) /\ Len(g) \in Nat /\ DOMAIN g = 1..Len(g)
         /\ \A i \in DOMAIN g : /\ i \in Int /\ g[i].kind \in Kinds
                                /\ StartOf(g, i) \in Places /\ StartOf(g, i) \in Int
                                /\ EndOf(g, i) \in Places /\ EndOf(g, i) \in Int /\ StartOf(g, i) < EndOf(g, i)
                                /\ g[i].range = [start |-> StartOf(g, i), end |-> EndOf(g, i)]
<1>1. PICK n \in 0..MaxHighlights : g \in [1..n -> Highlights]
  BY DEF Given, HighlightLists
<1>2. n \in Nat
  BY HighlighterAssumption
<1>3. g \in Seq(Highlights) /\ Len(g) \in Nat /\ DOMAIN g = 1..Len(g)
  BY <1>1, <1>2
<1>4. ASSUME NEW i \in DOMAIN g
      PROVE  /\ i \in Int /\ g[i].kind \in Kinds
             /\ StartOf(g, i) \in Places /\ StartOf(g, i) \in Int
             /\ EndOf(g, i) \in Places /\ EndOf(g, i) \in Int /\ StartOf(g, i) < EndOf(g, i)
             /\ g[i].range = [start |-> StartOf(g, i), end |-> EndOf(g, i)]
  <2>1. g[i] \in Highlights /\ i \in Int
    BY <1>1, <1>2
  <2>2. g[i].range \in Ranges /\ g[i].kind \in Kinds
    BY <2>1 DEF Highlights
  <2> DEFINE r == g[i].range
  <2>3. r \in [start : 0..Characters, end : 0..Characters] /\ r.start < r.end
    BY <2>2 DEF Ranges
  <2> HIDE DEF r
  <2>4. r.start \in Places /\ r.end \in Places /\ r = [start |-> r.start, end |-> r.end]
    BY <2>3 DEF Places
  <2>5. r.start \in Int /\ r.end \in Int
    BY <2>4, CharactersAre
  <2>6. QED
    BY <2>1, <2>2, <2>3, <2>4, <2>5 DEF StartOf, EndOf, r
<1>5. QED
  BY <1>3, <1>4

\* Those that are given start one after the other.
LEMMA StartsInOrder ==
  ASSUME NEW g, Given(g), NEW i \in DOMAIN g, NEW j \in DOMAIN g, i <= j
  PROVE  StartOf(g, i) <= StartOf(g, j)
<1> DEFINE n == Len(g)
<1> DEFINE T == {k \in 0..n : \A l \in 1..n : l <= k => StartOf(g, l) <= StartOf(g, k)}
<1>1. n \in Nat /\ DOMAIN g = 1..n /\ \A k \in 1..n : StartOf(g, k) \in Int
  BY GivenIs
<1>2. \A k \in 1..n - 1 : StartOf(g, k) <= StartOf(g, k + 1)
  BY DEF Given, Sorted, StartOf
<1> HIDE DEF n
<1>3. 0 \in T
  BY <1>1
<1>4. ASSUME NEW k \in 1..n, k - 1 \in T PROVE k \in T
  <2>1. ASSUME NEW l \in 1..n, l <= k PROVE StartOf(g, l) <= StartOf(g, k)
    <3>1. CASE l = k
      BY <1>1, <3>1
    <3>2. CASE l # k
      <4>1. l <= k - 1 /\ k - 1 \in 1..n - 1 /\ (k - 1) + 1 = k /\ k - 1 \in 1..n
        BY <1>1, <2>1, <3>2
      <4>2. StartOf(g, l) <= StartOf(g, k - 1)
        BY <1>4, <4>1
      <4>3. StartOf(g, k - 1) <= StartOf(g, (k - 1) + 1)
        BY <1>2, <4>1
      <4>4. StartOf(g, l) \in Int /\ StartOf(g, k - 1) \in Int /\ StartOf(g, k) \in Int
        BY <1>1, <4>1
      <4>5. QED
        BY <4>1, <4>2, <4>3, <4>4
    <3>3. QED
      BY <3>1, <3>2
  <2>2. k \in 0..n
    BY <1>1
  <2>3. QED
    BY <2>1, <2>2
<1> HIDE DEF T
<1>5. 0..n \subseteq T
  BY <1>1, <1>3, <1>4, UpTo
<1>6. j \in T
  BY <1>1, <1>5
<1>7. QED
  BY <1>1, <1>6 DEF T

\* TwoAtATime, of what is given.
Apart(g) ==
  /\ \A i, j \in DOMAIN g : i # j => g[i].range.start # g[j].range.start
  /\ \A k \in 0..Characters : \A i, j, l \in {i \in DOMAIN g : Inside(k, g[i].range)} :
       i = j \/ j = l \/ i = l

LEMMA StartsApart ==
  ASSUME NEW g, Given(g), Apart(g), NEW i \in DOMAIN g, NEW j \in DOMAIN g
  PROVE  /\ StartOf(g, i) < StartOf(g, j) <=> i < j
         /\ StartOf(g, i) = StartOf(g, j) => i = j
<1>1. i # j => StartOf(g, i) # StartOf(g, j)
  BY DEF Apart, StartOf
<1>2. i \in Int /\ j \in Int /\ StartOf(g, i) \in Int /\ StartOf(g, j) \in Int
  BY GivenIs
<1>3. i < j \/ i = j \/ j < i
  BY <1>2
<1>4. CASE i < j
  <2>1. StartOf(g, i) <= StartOf(g, j)
    BY <1>2, <1>4, StartsInOrder
  <2>2. QED
    BY <1>1, <1>2, <1>4, <2>1
<1>5. CASE j < i
  <2>1. StartOf(g, j) <= StartOf(g, i)
    BY <1>2, <1>5, StartsInOrder
  <2>2. QED
    BY <1>1, <1>2, <1>5, <2>1
<1>6. QED
  BY <1>1, <1>2, <1>3, <1>4, <1>5

\* No three of them share a place.
LEMMA NoThree ==
  ASSUME NEW g, Given(g), Apart(g), NEW i \in DOMAIN g, NEW j \in DOMAIN g, NEW l \in DOMAIN g,
         i # j, j # l, i # l, NEW k \in Int,
         StartOf(g, i) <= k, k <= EndOf(g, i), StartOf(g, j) <= k, k <= EndOf(g, j), StartOf(g, l) <= k, k <= EndOf(g, l)
  PROVE  FALSE
<1>1. k \in 0..Characters
  <2>1. StartOf(g, i) \in Places /\ EndOf(g, i) \in Places
    BY GivenIs
  <2>2. QED
    BY <2>1, CharactersAre DEF Places
<1>2. Inside(k, g[i].range) /\ Inside(k, g[j].range) /\ Inside(k, g[l].range)
  BY DEF Inside, StartOf, EndOf
<1>3. {i, j, l} \subseteq {m \in DOMAIN g : Inside(k, g[m].range)}
  BY <1>2
<1>4. QED
  BY <1>1, <1>3 DEF Apart

\* One that ends in another, or with it.
Meets(g, i, j) == StartOf(g, i) < StartOf(g, j) /\ StartOf(g, j) <= EndOf(g, i) /\ EndOf(g, i) <= EndOf(g, j)
CutEnd(g, i) ==
  IF \E j \in DOMAIN g : Meets(g, i, j) THEN StartOf(g, CHOOSE j \in DOMAIN g : Meets(g, i, j)) ELSE EndOf(g, i)

\* Not in the midst of another.
Covers(g, j, i) == StartOf(g, j) < StartOf(g, i) /\ EndOf(g, i) < EndOf(g, j)
Kept(g, i) == \A j \in DOMAIN g : ~Covers(g, j, i)

LEMMA CutEndIs ==
  ASSUME NEW g, Given(g), Apart(g), NEW i \in DOMAIN g
  PROVE  /\ \A j \in DOMAIN g : Meets(g, i, j) => CutEnd(g, i) = StartOf(g, j)
         /\ (\A j \in DOMAIN g : ~Meets(g, i, j)) => CutEnd(g, i) = EndOf(g, i)
         /\ CutEnd(g, i) \in Places /\ CutEnd(g, i) \in Int
         /\ StartOf(g, i) < CutEnd(g, i) /\ CutEnd(g, i) <= EndOf(g, i)
<1>1. ASSUME NEW j \in DOMAIN g, Meets(g, i, j), NEW l \in DOMAIN g, Meets(g, i, l)
      PROVE  j = l
  <2>1. SUFFICES ASSUME j # l PROVE FALSE
    OBVIOUS
  <2>2. /\ StartOf(g, i) \in Int /\ EndOf(g, i) \in Int /\ StartOf(g, j) \in Int /\ EndOf(g, j) \in Int
        /\ StartOf(g, l) \in Int /\ EndOf(g, l) \in Int /\ StartOf(g, i) < EndOf(g, i)
    BY GivenIs
  <2>3. /\ StartOf(g, i) < StartOf(g, j) /\ StartOf(g, j) <= EndOf(g, i) /\ EndOf(g, i) <= EndOf(g, j)
        /\ StartOf(g, i) < StartOf(g, l) /\ StartOf(g, l) <= EndOf(g, i) /\ EndOf(g, i) <= EndOf(g, l)
    BY <1>1 DEF Meets
  <2>4. i # j /\ i # l
    BY <2>2, <2>3
  <2> DEFINE k == EndOf(g, i)
  <2>5. /\ k \in Int /\ StartOf(g, i) <= k /\ k <= EndOf(g, i) /\ StartOf(g, j) <= k /\ k <= EndOf(g, j)
        /\ StartOf(g, l) <= k /\ k <= EndOf(g, l)
    BY <2>2, <2>3
  <2> HIDE DEF k
  <2>6. QED
    BY <2>1, <2>4, <2>5, NoThree
<1>2. ASSUME NEW j \in DOMAIN g, Meets(g, i, j) PROVE CutEnd(g, i) = StartOf(g, j)
  <2> DEFINE c == CHOOSE l \in DOMAIN g : Meets(g, i, l)
  <2>1. c \in DOMAIN g /\ Meets(g, i, c)
    BY <1>2
  <2>2. CutEnd(g, i) = StartOf(g, c)
    BY <1>2 DEF CutEnd
  <2> HIDE DEF c
  <2>3. c = j
    BY <1>1, <1>2, <2>1
  <2>4. QED
    BY <2>2, <2>3
<1>3. (\A j \in DOMAIN g : ~Meets(g, i, j)) => CutEnd(g, i) = EndOf(g, i)
  BY DEF CutEnd
<1>4. /\ StartOf(g, i) \in Int /\ EndOf(g, i) \in Int /\ StartOf(g, i) < EndOf(g, i) /\ EndOf(g, i) \in Places
      /\ \A j \in DOMAIN g : StartOf(g, j) \in Int /\ StartOf(g, j) \in Places
  BY GivenIs
<1>5. CutEnd(g, i) \in Places /\ CutEnd(g, i) \in Int /\ StartOf(g, i) < CutEnd(g, i) /\ CutEnd(g, i) <= EndOf(g, i)
  <2>1. CASE \E j \in DOMAIN g : Meets(g, i, j)
    <3>1. PICK j \in DOMAIN g : Meets(g, i, j)
      BY <2>1
    <3>2. CutEnd(g, i) = StartOf(g, j)
      BY <1>2, <3>1
    <3>3. StartOf(g, i) < StartOf(g, j) /\ StartOf(g, j) <= EndOf(g, i)
      BY <3>1 DEF Meets
    <3>4. QED
      BY <1>4, <3>2, <3>3
  <2>2. CASE \A j \in DOMAIN g : ~Meets(g, i, j)
    BY <1>3, <1>4, <2>2
  <2>3. QED
    BY <2>1, <2>2
<1>6. QED
  BY <1>2, <1>3, <1>5

\* What covers another is not covered itself, and is not cut so short that it
\* no longer does.
LEMMA CoveringIsKept ==
  ASSUME NEW g, Given(g), Apart(g), NEW i \in DOMAIN g, NEW j \in DOMAIN g, Covers(g, j, i)
  PROVE  Kept(g, j) /\ EndOf(g, i) < CutEnd(g, j) /\ j < i
<1>1. /\ StartOf(g, i) \in Int /\ EndOf(g, i) \in Int /\ StartOf(g, i) < EndOf(g, i)
      /\ StartOf(g, j) \in Int /\ EndOf(g, j) \in Int /\ StartOf(g, j) < EndOf(g, j)
  BY GivenIs
<1>2. StartOf(g, j) < StartOf(g, i) /\ EndOf(g, i) < EndOf(g, j)
  BY DEF Covers
<1>3. i # j
  BY <1>1, <1>2
<1>4. Kept(g, j)
  <2>1. SUFFICES ASSUME NEW l \in DOMAIN g, Covers(g, l, j) PROVE FALSE
    BY DEF Kept
  <2>2. StartOf(g, l) < StartOf(g, j) /\ EndOf(g, j) < EndOf(g, l) /\ StartOf(g, l) \in Int /\ EndOf(g, l) \in Int
    BY <2>1, GivenIs DEF Covers
  <2> DEFINE k == StartOf(g, i)
  <2>3. /\ k \in Int /\ StartOf(g, i) <= k /\ k <= EndOf(g, i) /\ StartOf(g, j) <= k /\ k <= EndOf(g, j)
        /\ StartOf(g, l) <= k /\ k <= EndOf(g, l)
    BY <1>1, <1>2, <2>2
  <2>4. i # l /\ j # l
    BY <1>1, <1>2, <2>2
  <2> HIDE DEF k
  <2>5. QED
    BY <1>3, <2>3, <2>4, NoThree
<1>5. EndOf(g, i) < CutEnd(g, j)
  <2>1. CASE \A m \in DOMAIN g : ~Meets(g, j, m)
    <3>1. CutEnd(g, j) = EndOf(g, j)
      BY <2>1, CutEndIs
    <3>2. QED
      BY <1>2, <3>1
  <2>2. CASE \E m \in DOMAIN g : Meets(g, j, m)
    <3>1. PICK m \in DOMAIN g : Meets(g, j, m)
      BY <2>2
    <3>2. CutEnd(g, j) = StartOf(g, m)
      BY <3>1, CutEndIs
    <3>3. /\ StartOf(g, j) < StartOf(g, m) /\ StartOf(g, m) <= EndOf(g, j) /\ EndOf(g, j) <= EndOf(g, m)
          /\ StartOf(g, m) \in Int /\ EndOf(g, m) \in Int
      BY <3>1, GivenIs DEF Meets
    <3>4. SUFFICES ASSUME ~(EndOf(g, i) < StartOf(g, m)) PROVE FALSE
      BY <3>2
    <3> DEFINE k == IF StartOf(g, m) <= StartOf(g, i) THEN StartOf(g, i) ELSE StartOf(g, m)
    <3>5. /\ k \in Int /\ StartOf(g, i) <= k /\ k <= EndOf(g, i) /\ StartOf(g, j) <= k /\ k <= EndOf(g, j)
          /\ StartOf(g, m) <= k /\ k <= EndOf(g, m)
      BY <1>1, <1>2, <3>3, <3>4
    <3>6. i # m /\ j # m
      BY <1>1, <1>2, <3>3
    <3> HIDE DEF k
    <3>7. QED
      BY <1>3, <3>5, <3>6, NoThree
  <2>3. QED
    BY <2>1, <2>2
<1>6. j < i
  BY <1>2, StartsApart
<1>7. QED
  BY <1>4, <1>5, <1>6

\* Those that are kept end before the next one starts.
LEMMA KeptInTurn ==
  ASSUME NEW g, Given(g), Apart(g), NEW i \in DOMAIN g, NEW j \in DOMAIN g, i < j, Kept(g, j)
  PROVE  CutEnd(g, i) <= StartOf(g, j)
<1>1. /\ StartOf(g, i) \in Int /\ EndOf(g, i) \in Int /\ StartOf(g, j) \in Int /\ EndOf(g, j) \in Int
      /\ CutEnd(g, i) \in Int /\ CutEnd(g, i) <= EndOf(g, i)
  BY GivenIs, CutEndIs
<1>2. StartOf(g, i) < StartOf(g, j)
  BY StartsApart
<1>3. CASE EndOf(g, i) < StartOf(g, j)
  BY <1>1, <1>3
<1>4. CASE ~(EndOf(g, i) < StartOf(g, j))
  <2>1. ~(EndOf(g, j) < EndOf(g, i))
    BY <1>2 DEF Kept, Covers
  <2>2. Meets(g, i, j)
    BY <1>1, <1>2, <1>4, <2>1 DEF Meets
  <2>3. CutEnd(g, i) = StartOf(g, j)
    BY <2>2, CutEndIs
  <2>4. QED
    BY <1>1, <2>3
<1>5. QED
  BY <1>3, <1>4

-----------------------------------------------------------------------------
(* What has been cut so far *)

\* Whatever is given: those left are in order, and all those still to be cut are.
Cutting(g, r, c) ==
  /\ Given(g) /\ c \in 1..(Len(g) + 1) /\ r \in Seq(Cuts)
  /\ \A i \in DOMAIN r : r[i].id \in DOMAIN g /\ r[i].kind = g[r[i].id].kind
  /\ \A i, j \in DOMAIN r : i < j => r[i].id < r[j].id
  /\ \A id \in DOMAIN g : id >= c => \E i \in DOMAIN r : r[i].id = id

OfComments(g) == (\A i \in DOMAIN g : g[i].kind = "comment") /\ Apart(g)

\* Of comments two at a time: those cut are the ones that are not covered, and they
\* end where the next one starts.
CutInTurn(g, r, c) ==
  /\ \A i \in DOMAIN r : /\ r[i].range.start = StartOf(g, r[i].id)
                         /\ r[i].range.end = IF r[i].id < c THEN CutEnd(g, r[i].id) ELSE EndOf(g, r[i].id)
                         /\ r[i].id < c => Kept(g, r[i].id)
  /\ \A id \in DOMAIN g : Kept(g, id) => \E i \in DOMAIN r : r[i].id = id

CuttingInv == Cutting(given, ret, cutting) /\ (OfComments(given) => CutInTurn(given, ret, cutting))

Others(r, at) == {i \in DOMAIN r : i # at /\ IsComment(r[i])}

LEMMA CuttingIs ==
  ASSUME NEW g, NEW r, NEW c, Cutting(g, r, c)
  PROVE  /\ Given(g) /\ c \in Int /\ 1 <= c /\ r \in Seq(Cuts) /\ DOMAIN r = 1..Len(r) /\ Len(r) \in Nat
         /\ \A i \in DOMAIN r : /\ r[i] \in Cuts /\ i \in Int
                                /\ r[i].id \in DOMAIN g /\ r[i].id \in Int
                                /\ r[i].range.start \in Places /\ r[i].range.end \in Places
         /\ \A i, j \in DOMAIN r : r[i].id = r[j].id => i = j
<1>1. Given(g) /\ c \in 1..(Len(g) + 1) /\ r \in Seq(Cuts) /\ Len(g) \in Nat /\ DOMAIN g = 1..Len(g)
  BY GivenIs DEF Cutting
<1>2. c \in Int /\ 1 <= c /\ DOMAIN r = 1..Len(r) /\ Len(r) \in Nat
  BY <1>1
<1>3. ASSUME NEW i \in DOMAIN r
      PROVE  /\ r[i] \in Cuts /\ i \in Int
             /\ r[i].id \in DOMAIN g /\ r[i].id \in Int
             /\ r[i].range.start \in Places /\ r[i].range.end \in Places
  <2>1. r[i] \in Cuts /\ i \in Int
    BY <1>1, <1>2
  <2>2. r[i].id \in DOMAIN g
    BY DEF Cutting
  <2>3. r[i].range.start \in Places /\ r[i].range.end \in Places
    BY <2>1 DEF Cuts
  <2>4. QED
    BY <1>1, <2>1, <2>2, <2>3
<1>4. ASSUME NEW i \in DOMAIN r, NEW j \in DOMAIN r, r[i].id = r[j].id PROVE i = j
  <2>1. i < j \/ j < i \/ i = j
    BY <1>3
  <2>2. i < j => r[i].id < r[j].id
    BY DEF Cutting
  <2>3. j < i => r[j].id < r[i].id
    BY DEF Cutting
  <2>4. r[i].id \in Int /\ r[j].id \in Int
    BY <1>3
  <2>5. QED
    BY <1>4, <2>1, <2>2, <2>3, <2>4
<1>5. QED
  BY <1>1, <1>2, <1>3, <1>4

\* One that starts before the one being cut, and reaches into it or beyond it.
LEMMA StartsInsideIs ==
  ASSUME CuttingInv, OfComments(given), cutting \in DOMAIN given,
         NEW at \in DOMAIN ret, ret[at].id = cutting,
         NEW i \in StartsInside(given[cutting].range, Others(ret, at))
  PROVE  /\ i \in DOMAIN ret /\ ret[i].id \in DOMAIN given /\ ret[i].id < cutting
         /\ ret[i].range.end = CutEnd(given, ret[i].id)
         /\ Covers(given, ret[i].id, cutting) \/ Meets(given, ret[i].id, cutting)
<1> DEFINE j == ret[i].id
<1> DEFINE c == cutting
<1>1. i \in DOMAIN ret /\ i # at /\ Inside(given[cutting].range.start, ret[i].range)
  BY DEF StartsInside, Others
<1>2. Cutting(given, ret, cutting) /\ Given(given) /\ Apart(given)
  BY CuttingIs DEF CuttingInv, OfComments
<1>3. j \in DOMAIN given /\ j \in Int /\ c \in Int /\ j # c
  BY <1>1, <1>2, CuttingIs
<1>4. /\ ret[i].range.start = StartOf(given, j)
      /\ ret[i].range.end = IF j < cutting THEN CutEnd(given, j) ELSE EndOf(given, j)
  BY <1>1 DEF CuttingInv, CutInTurn
<1>5. StartOf(given, j) <= StartOf(given, c) /\ StartOf(given, c) <= ret[i].range.end
  BY <1>1, <1>4 DEF Inside, StartOf
<1>6. /\ StartOf(given, j) \in Int /\ EndOf(given, j) \in Int /\ StartOf(given, c) \in Int /\ EndOf(given, c) \in Int
      /\ StartOf(given, j) < EndOf(given, j) /\ CutEnd(given, j) <= EndOf(given, j) /\ CutEnd(given, j) \in Int
  BY <1>2, <1>3, GivenIs, CutEndIs
<1> HIDE DEF j, c
<1>7. StartOf(given, j) < StartOf(given, c) /\ j < c
  <2>1. StartOf(given, j) # StartOf(given, c)
    BY <1>2, <1>3, StartsApart DEF c
  <2>2. StartOf(given, j) < StartOf(given, c)
    BY <1>5, <1>6, <2>1
  <2>3. QED
    BY <1>2, <1>3, <2>2, StartsApart DEF c
<1>8. ret[i].range.end = CutEnd(given, j)
  BY <1>4, <1>7 DEF c
<1>9. StartOf(given, c) <= EndOf(given, j)
  BY <1>5, <1>6, <1>8
<1>10. Covers(given, j, c) \/ Meets(given, j, c)
  <2>1. CASE EndOf(given, c) < EndOf(given, j)
    BY <1>7, <2>1 DEF Covers
  <2>2. CASE ~(EndOf(given, c) < EndOf(given, j))
    BY <1>6, <1>7, <1>9, <2>2 DEF Meets
  <2>3. QED
    BY <2>1, <2>2
<1>11. QED
  BY <1>1, <1>3, <1>7, <1>8, <1>10 DEF j, c

\* One that holds the end of the one being cut.
LEMMA EndsInsideIs ==
  ASSUME CuttingInv, OfComments(given), cutting \in DOMAIN given,
         NEW at \in DOMAIN ret, ret[at].id = cutting,
         NEW i \in EndsInside(given[cutting].range, Others(ret, at))
  PROVE  \/ i \in StartsInside(given[cutting].range, Others(ret, at))
         \/ /\ i \in DOMAIN ret /\ ret[i].id \in DOMAIN given
            /\ ret[i].range.start = StartOf(given, ret[i].id) /\ Meets(given, cutting, ret[i].id)
<1> DEFINE j == ret[i].id
<1> DEFINE c == cutting
<1>1. i \in DOMAIN ret /\ i # at /\ i \in Others(ret, at) /\ Inside(given[cutting].range.end, ret[i].range)
  BY DEF EndsInside, Others
<1>2. Cutting(given, ret, cutting) /\ Given(given) /\ Apart(given)
  BY CuttingIs DEF CuttingInv, OfComments
<1>3. j \in DOMAIN given /\ j \in Int /\ c \in Int /\ j # c /\ c \in DOMAIN given
  BY <1>1, <1>2, CuttingIs
<1>4. /\ ret[i].range.start = StartOf(given, j)
      /\ ret[i].range.end = IF j < cutting THEN CutEnd(given, j) ELSE EndOf(given, j)
  BY <1>1 DEF CuttingInv, CutInTurn
<1>5. StartOf(given, j) <= EndOf(given, c) /\ EndOf(given, c) <= ret[i].range.end
  BY <1>1, <1>4 DEF Inside, EndOf
<1>6. /\ StartOf(given, j) \in Int /\ EndOf(given, j) \in Int /\ StartOf(given, c) \in Int /\ EndOf(given, c) \in Int
      /\ StartOf(given, c) < EndOf(given, c) /\ CutEnd(given, j) <= EndOf(given, j) /\ CutEnd(given, j) \in Int
  BY <1>2, <1>3, GivenIs, CutEndIs
<1> HIDE DEF j, c
<1>7. CASE j < c
  <2>1. StartOf(given, j) < StartOf(given, c)
    BY <1>2, <1>3, <1>7, StartsApart
  <2>2. ret[i].range.end = CutEnd(given, j)
    BY <1>4, <1>7 DEF c
  <2>3. ret[i].range.start <= StartOf(given, c) /\ StartOf(given, c) <= ret[i].range.end
    BY <1>4, <1>5, <1>6, <2>1, <2>2
  <2>4. Inside(given[cutting].range.start, ret[i].range)
    BY <2>3 DEF Inside, StartOf, c
  <2>5. QED
    BY <1>1, <2>4 DEF StartsInside
<1>8. CASE ~(j < c)
  <2>1. c < j /\ ret[i].range.end = EndOf(given, j)
    BY <1>3, <1>4, <1>8 DEF c
  <2>2. StartOf(given, c) < StartOf(given, j)
    BY <1>2, <1>3, <2>1, StartsApart
  <2>3. Meets(given, c, j)
    BY <1>5, <2>1, <2>2 DEF Meets
  <2>4. QED
    BY <1>1, <1>3, <1>4, <2>3 DEF j, c
<1>9. QED
  BY <1>7, <1>8

LEMMA CoveredIs ==
  ASSUME CuttingInv, OfComments(given), cutting \in DOMAIN given,
         NEW at \in DOMAIN ret, ret[at].id = cutting
  PROVE  Covered(given[cutting].range, Others(ret, at)) <=> ~Kept(given, cutting)
<1> DEFINE target == given[cutting].range
<1> DEFINE others == Others(ret, at)
<1>1. Cutting(given, ret, cutting) /\ Given(given) /\ Apart(given)
  BY CuttingIs DEF CuttingInv, OfComments
<1>2. StartOf(given, cutting) \in Int /\ EndOf(given, cutting) \in Int /\ StartOf(given, cutting) < EndOf(given, cutting)
  BY <1>1, GivenIs
<1>3. ASSUME Covered(target, others) PROVE ~Kept(given, cutting)
  <2>1. PICK i : i \in StartsInside(target, others) /\ i \in EndsInside(target, others)
    BY <1>3 DEF Covered
  <2> DEFINE j == ret[i].id
  <2>2. /\ i \in DOMAIN ret /\ j \in DOMAIN given /\ ret[i].range.end = CutEnd(given, j)
        /\ Covers(given, j, cutting) \/ Meets(given, j, cutting)
    BY <2>1, StartsInsideIs
  <2>3. EndOf(given, cutting) <= ret[i].range.end
    BY <2>1 DEF EndsInside, Inside, EndOf
  <2> HIDE DEF j
  <2>4. ~Meets(given, j, cutting)
    <3>1. SUFFICES ASSUME Meets(given, j, cutting) PROVE FALSE
      OBVIOUS
    <3>2. CutEnd(given, j) = StartOf(given, cutting)
      BY <1>1, <2>2, <3>1, CutEndIs
    <3>3. QED
      BY <1>2, <2>2, <2>3, <3>2
  <2>5. QED
    BY <2>2, <2>4 DEF Kept
<1>4. ASSUME ~Kept(given, cutting) PROVE Covered(target, others)
  <2>1. PICK j \in DOMAIN given : Covers(given, j, cutting)
    BY <1>4 DEF Kept
  <2>2. Kept(given, j) /\ EndOf(given, cutting) < CutEnd(given, j) /\ j < cutting
    BY <1>1, <2>1, CoveringIsKept
  <2>3. PICK i \in DOMAIN ret : ret[i].id = j
    BY <2>2 DEF CuttingInv, CutInTurn
  <2>4. ret[i].range.start = StartOf(given, j) /\ ret[i].range.end = CutEnd(given, j)
    BY <2>2, <2>3 DEF CuttingInv, CutInTurn
  <2>5. StartOf(given, j) < StartOf(given, cutting) /\ StartOf(given, j) \in Int /\ CutEnd(given, j) \in Int
    BY <1>1, <2>1, GivenIs, CutEndIs DEF Covers
  <2>6. i # at
    <3>1. j \in Int /\ cutting \in Int
      BY <1>1, <2>1, GivenIs
    <3>2. QED
      BY <2>2, <2>3, <3>1
  <2>7. i \in others
    <3>1. ret[i].kind = given[j].kind
      BY <1>1, <2>3 DEF Cutting
    <3>2. IsComment(ret[i])
      BY <3>1 DEF OfComments, IsComment
    <3>3. QED
      BY <2>6, <3>2 DEF Others
  <2>8. /\ StartOf(given, j) <= StartOf(given, cutting) /\ StartOf(given, cutting) <= CutEnd(given, j)
        /\ StartOf(given, j) <= EndOf(given, cutting) /\ EndOf(given, cutting) <= CutEnd(given, j)
    BY <1>2, <2>2, <2>5
  <2>9. Inside(target.start, ret[i].range) /\ Inside(target.end, ret[i].range)
    BY <2>4, <2>8 DEF Inside, StartOf, EndOf
  <2>10. i \in StartsInside(target, others) /\ i \in EndsInside(target, others)
    BY <2>7, <2>9 DEF StartsInside, EndsInside
  <2>11. QED
    BY <2>10 DEF Covered
<1>5. QED
  BY <1>3, <1>4

LEMMA TruncatedIs ==
  ASSUME CuttingInv, OfComments(given), cutting \in DOMAIN given,
         NEW at \in DOMAIN ret, ret[at].id = cutting, Kept(given, cutting)
  PROVE  Truncated(given[cutting].range, Others(ret, at)) =
           [start |-> StartOf(given, cutting), end |-> CutEnd(given, cutting)]
<1> DEFINE target == given[cutting].range
<1> DEFINE others == Others(ret, at)
<1> DEFINE starts == StartsInside(target, others)
<1> DEFINE ends == EndsInside(target, others) \ starts
<1> DEFINE start == IF starts = {} THEN target.start ELSE ret[Max(starts)].range.end
<1> DEFINE end == IF ends = {} THEN target.end ELSE ret[Max(ends)].range.start
<1>1. /\ Cutting(given, ret, cutting) /\ Given(given) /\ Apart(given)
      /\ Len(ret) \in Nat /\ DOMAIN ret = 1..Len(ret)
  BY CuttingIs DEF CuttingInv, OfComments
<1>2. Truncated(target, others) = [start |-> start, end |-> end]
  BY DEF Truncated
<1>3. starts \subseteq 0..Len(ret) /\ ends \subseteq 0..Len(ret)
  <2>1. others \subseteq 1..Len(ret)
    BY <1>1 DEF Others
  <2>2. starts \subseteq others /\ ends \subseteq others
    BY DEF StartsInside, EndsInside
  <2> HIDE DEF starts, ends, others
  <2>3. 1..Len(ret) \subseteq 0..Len(ret)
    BY <1>1
  <2>4. QED
    BY <2>1, <2>2, <2>3
<1>4. start = StartOf(given, cutting)
  <2>1. CASE starts = {}
    BY <2>1 DEF StartOf
  <2>2. CASE starts # {}
    <3> DEFINE x == Max(starts)
    <3>1. x \in starts
      <4> HIDE DEF starts
      <4>1. QED
        BY <1>1, <1>3, <2>2, MaxIs
    <3>2. start = ret[x].range.end
      BY <2>2
    <3> HIDE DEF x
    <3> DEFINE j == ret[x].id
    <3>3. /\ x \in DOMAIN ret /\ j \in DOMAIN given /\ ret[x].range.end = CutEnd(given, j)
          /\ Covers(given, j, cutting) \/ Meets(given, j, cutting)
      BY <3>1, StartsInsideIs
    <3> HIDE DEF j, start, starts
    <3>4. Meets(given, j, cutting)
      BY <3>3 DEF Kept
    <3>5. CutEnd(given, j) = StartOf(given, cutting)
      BY <1>1, <3>3, <3>4, CutEndIs
    <3>6. QED
      BY <3>2, <3>3, <3>5
  <2>3. QED
    BY <2>1, <2>2
<1>5. end = CutEnd(given, cutting)
  <2>1. CASE ends = {}
    <3>1. ASSUME NEW m \in DOMAIN given, Meets(given, cutting, m) PROVE FALSE
      <4>1. /\ StartOf(given, cutting) < StartOf(given, m) /\ StartOf(given, m) <= EndOf(given, cutting)
            /\ EndOf(given, cutting) <= EndOf(given, m) /\ StartOf(given, m) \in Int /\ StartOf(given, cutting) \in Int
            /\ cutting \in Int /\ m \in Int
        BY <1>1, <3>1, GivenIs DEF Meets
      <4>2. cutting < m /\ m >= cutting /\ ~(m < cutting) /\ m # cutting
        <5>1. cutting < m
          BY <1>1, <4>1, StartsApart
        <5>2. QED
          BY <4>1, <5>1
      <4>3. PICK i \in DOMAIN ret : ret[i].id = m
        BY <1>1, <4>2 DEF Cutting
      <4>4. ret[i].range.start = StartOf(given, m) /\ ret[i].range.end = EndOf(given, m)
        BY <4>2, <4>3 DEF CuttingInv, CutInTurn
      <4>5. i \in others
        <5>1. ret[i].kind = given[m].kind
          BY <1>1, <4>3 DEF Cutting
        <5>2. IsComment(ret[i])
          BY <5>1 DEF OfComments, IsComment
        <5>3. i # at
          BY <4>2, <4>3
        <5>4. QED
          BY <5>2, <5>3 DEF Others
      <4>6. Inside(target.end, ret[i].range)
        BY <4>1, <4>4 DEF Inside, EndOf
      <4>7. ~Inside(target.start, ret[i].range)
        BY <4>1, <4>4 DEF Inside, StartOf
      <4>8. i \in EndsInside(target, others) /\ i \notin StartsInside(target, others)
        BY <4>5, <4>6, <4>7 DEF StartsInside, EndsInside
      <4>9. QED
        BY <2>1, <4>8
    <3>2. CutEnd(given, cutting) = EndOf(given, cutting)
      BY <1>1, <3>1, CutEndIs
    <3>3. QED
      BY <2>1, <3>2 DEF EndOf
  <2>2. CASE ends # {}
    <3> DEFINE x == Max(ends)
    <3>1. x \in ends
      <4> HIDE DEF ends
      <4>1. QED
        BY <1>1, <1>3, <2>2, MaxIs
    <3>2. end = ret[x].range.start
      BY <2>2
    <3> HIDE DEF x
    <3> DEFINE j == ret[x].id
    <3>3. x \in EndsInside(target, others) /\ x \notin StartsInside(target, others)
      BY <3>1
    <3>4. j \in DOMAIN given /\ ret[x].range.start = StartOf(given, j) /\ Meets(given, cutting, j)
      BY <3>3, EndsInsideIs
    <3> HIDE DEF j, end
    <3>5. QED
      BY <1>1, <3>2, <3>4, CutEndIs
  <2>3. QED
    BY <2>1, <2>2
<1> HIDE DEF start, end
<1>6. QED
  BY <1>2, <1>4, <1>5

-----------------------------------------------------------------------------
(* A step *)

LEMMA RangesAre ==
  ASSUME Cutting(given, ret, cutting), cutting \in DOMAIN given, NEW others, others \subseteq DOMAIN ret
  PROVE  Truncated(given[cutting].range, others) \in [start : Places, end : Places]
<1> DEFINE target == given[cutting].range
<1> DEFINE starts == StartsInside(target, others)
<1> DEFINE ends == EndsInside(target, others) \ starts
<1> DEFINE start == IF starts = {} THEN target.start ELSE ret[Max(starts)].range.end
<1> DEFINE end == IF ends = {} THEN target.end ELSE ret[Max(ends)].range.start
<1>1. Given(given) /\ Len(ret) \in Nat /\ DOMAIN ret = 1..Len(ret)
      /\ \A i \in DOMAIN ret : ret[i].range.start \in Places /\ ret[i].range.end \in Places
  BY CuttingIs
<1>2. Truncated(target, others) = [start |-> start, end |-> end]
  BY DEF Truncated
<1>3. starts \subseteq DOMAIN ret /\ ends \subseteq DOMAIN ret
  BY DEF StartsInside, EndsInside
<1>4. target.start \in Places /\ target.end \in Places
  BY <1>1, GivenIs DEF StartOf, EndOf
<1>5. DOMAIN ret \subseteq 0..Len(ret)
  BY <1>1
<1> HIDE DEF target, starts, ends
<1>6. starts # {} => Max(starts) \in DOMAIN ret
  <2>1. starts # {} => Max(starts) \in starts
    BY <1>1, <1>3, <1>5, MaxIs
  <2>2. QED
    BY <1>3, <2>1
<1>7. ends # {} => Max(ends) \in DOMAIN ret
  <2>1. ends # {} => Max(ends) \in ends
    BY <1>1, <1>3, <1>5, MaxIs
  <2>2. QED
    BY <1>3, <2>1
<1>8. start \in Places /\ end \in Places
  BY <1>1, <1>4, <1>6, <1>7
<1> HIDE DEF start, end
<1>9. QED
  BY <1>2, <1>8 DEF target

\* One is left out.
LEMMA LeftOut ==
  ASSUME NEW g, NEW r, NEW c, Cutting(g, r, c), c \in DOMAIN g, NEW at \in DOMAIN r, r[at].id = c
  PROVE  /\ Cutting(g, RemoveAt(r, at), c + 1)
         /\ \A j \in DOMAIN RemoveAt(r, at) :
              \E i \in DOMAIN r : r[i].id # c /\ RemoveAt(r, at)[j] = r[i]
         /\ \A i \in DOMAIN r : r[i].id # c =>
              \E j \in DOMAIN RemoveAt(r, at) : RemoveAt(r, at)[j] = r[i]
<1> DEFINE q == RemoveAt(r, at)
<1>1. /\ r \in Seq(Cuts) /\ DOMAIN r = 1..Len(r) /\ Len(r) \in Nat /\ Given(g) /\ c \in Int
      /\ \A i, j \in DOMAIN r : r[i].id = r[j].id => i = j
  BY CuttingIs
<1>2. /\ q \in Seq(Cuts) /\ Len(q) = Len(r) - 1
      /\ \A j \in 1..Len(r) - 1 : q[j] = IF j < at THEN r[j] ELSE r[j + 1]
  <2>1. r \in Seq(Cuts)
    BY <1>1
  <2>2. QED
    BY <2>1, RemoveAtEntries
<1>3. \A k \in DOMAIN r : k # at => \E j \in DOMAIN q : q[j] = r[k]
  <2>1. r \in Seq(Cuts)
    BY <1>1
  <2>2. QED
    BY <2>1, RemoveAtKeeps
<1> HIDE DEF q
<1> DEFINE old(j) == IF j < at THEN j ELSE j + 1
<1>4. ASSUME NEW j \in DOMAIN q PROVE old(j) \in DOMAIN r /\ old(j) # at /\ q[j] = r[old(j)] /\ j \in Int
  <2>1. j \in 1..Len(r) - 1 /\ at \in 1..Len(r) /\ j \in Int
    BY <1>1, <1>2
  <2>2. q[j] = r[old(j)]
    BY <1>2, <2>1
  <2>3. QED
    BY <1>1, <2>1, <2>2
<1>5. ASSUME NEW i \in DOMAIN q, NEW j \in DOMAIN q, i < j PROVE old(i) < old(j)
  <2>1. i \in Int /\ j \in Int /\ at \in Int
    BY <1>1, <1>4
  <2>2. QED
    BY <1>5, <2>1
<1> HIDE DEF old
<1>6. ASSUME NEW j \in DOMAIN q PROVE q[j].id \in DOMAIN g /\ q[j].kind = g[q[j].id].kind /\ q[j].id # c
  <2>1. old(j) \in DOMAIN r /\ old(j) # at /\ q[j] = r[old(j)]
    BY <1>4
  <2>2. r[old(j)].id \in DOMAIN g /\ r[old(j)].kind = g[r[old(j)].id].kind
    BY <2>1 DEF Cutting
  <2>3. r[old(j)].id # c
    BY <1>1, <2>1
  <2>4. QED
    BY <2>1, <2>2, <2>3
<1>7. ASSUME NEW i \in DOMAIN q, NEW j \in DOMAIN q, i < j PROVE q[i].id < q[j].id
  <2>1. old(i) \in DOMAIN r /\ old(j) \in DOMAIN r /\ q[i] = r[old(i)] /\ q[j] = r[old(j)] /\ old(i) < old(j)
    BY <1>4, <1>5, <1>7
  <2>2. r[old(i)].id < r[old(j)].id
    BY <2>1 DEF Cutting
  <2>3. QED
    BY <2>1, <2>2
<1>8. ASSUME NEW i \in DOMAIN r, r[i].id # c PROVE \E j \in DOMAIN q : q[j] = r[i]
  BY <1>3, <1>8
<1>9. ASSUME NEW id \in DOMAIN g, id >= c + 1 PROVE \E j \in DOMAIN q : q[j].id = id
  <2>1. id \in Int
    BY <1>1, GivenIs
  <2>2. id >= c /\ id # c
    BY <1>1, <1>9, <2>1
  <2>3. PICK i \in DOMAIN r : r[i].id = id
    BY <2>2 DEF Cutting
  <2>4. PICK j \in DOMAIN q : q[j] = r[i]
    BY <1>8, <2>2, <2>3
  <2>5. QED
    BY <2>3, <2>4
<1>10. c + 1 \in 1..(Len(g) + 1)
  BY <1>1, GivenIs
<1>11. Cutting(g, q, c + 1)
  BY <1>1, <1>2, <1>6, <1>7, <1>9, <1>10 DEF Cutting
<1>12. \A j \in DOMAIN q : \E i \in DOMAIN r : r[i].id # c /\ q[j] = r[i]
  BY <1>4, <1>6
<1>13. QED
  BY <1>8, <1>11, <1>12 DEF q

\* One is cut, or is left as it is.
LEMMA Cut ==
  ASSUME NEW g, NEW r, NEW c, Cutting(g, r, c), c \in DOMAIN g, NEW at \in DOMAIN r, r[at].id = c,
         NEW range \in [start : Places, end : Places]
  PROVE  /\ Cutting(g, [r EXCEPT ![at].range = range], c + 1)
         /\ DOMAIN [r EXCEPT ![at].range = range] = DOMAIN r
         /\ \A i \in DOMAIN r : /\ [r EXCEPT ![at].range = range][i].id = r[i].id
                                /\ r[i].id # c => [r EXCEPT ![at].range = range][i] = r[i]
         /\ [r EXCEPT ![at].range = range][at].range = range
<1> DEFINE q == [r EXCEPT ![at].range = range]
<1>1. /\ r \in Seq(Cuts) /\ DOMAIN r = 1..Len(r) /\ Len(r) \in Nat /\ Given(g) /\ c \in Int
      /\ r[at] \in Cuts
      /\ \A i, j \in DOMAIN r : r[i].id = r[j].id => i = j
  BY CuttingIs
<1> DEFINE x == [r[at] EXCEPT !.range = range]
<1>2. x \in Cuts /\ x.id = r[at].id /\ x.kind = r[at].kind /\ x.range = range
  BY <1>1 DEF Cuts
<1>3. q = [r EXCEPT ![at] = x]
  OBVIOUS
<1> HIDE DEF x, q
<1>4. q \in Seq(Cuts) /\ DOMAIN q = DOMAIN r /\ q[at] = x /\ \A i \in DOMAIN r : i # at => q[i] = r[i]
  BY <1>1, <1>2, <1>3
<1>5. \A i \in DOMAIN r : q[i].id = r[i].id /\ q[i].kind = r[i].kind
  BY <1>2, <1>4
<1>6. \A i \in DOMAIN r : r[i].id # c => q[i] = r[i]
  BY <1>4
<1>7. ASSUME NEW id \in DOMAIN g, id >= c + 1 PROVE \E j \in DOMAIN q : q[j].id = id
  <2>1. id \in Int
    BY <1>1, GivenIs
  <2>2. id >= c
    BY <1>1, <1>7, <2>1
  <2>3. PICK i \in DOMAIN r : r[i].id = id
    BY <2>2 DEF Cutting
  <2>4. QED
    BY <1>4, <1>5, <2>3
<1>8. c + 1 \in 1..(Len(g) + 1)
  BY <1>1, GivenIs
<1>9. (\A i \in DOMAIN r : r[i].id \in DOMAIN g /\ r[i].kind = g[r[i].id].kind)
      /\ (\A i, j \in DOMAIN r : i < j => r[i].id < r[j].id)
  BY DEF Cutting
<1>10. \A i \in DOMAIN q : q[i].id \in DOMAIN g /\ q[i].kind = g[q[i].id].kind
  BY <1>4, <1>5, <1>9
<1>11. \A i, j \in DOMAIN q : i < j => q[i].id < q[j].id
  BY <1>4, <1>5, <1>9
<1>12. Cutting(g, q, c + 1)
  BY <1>1, <1>4, <1>7, <1>8, <1>10, <1>11 DEF Cutting
<1>13. QED
  BY <1>2, <1>4, <1>5, <1>6, <1>12 DEF q

\* What has just been selected.
LEMMA Passed ==
  ASSUME NEW g, NEW r, NEW c, Cutting(g, r, c), c \in DOMAIN g
  PROVE  Cutting(g, r, c + 1)
<1>1. c \in Int /\ Given(g)
  BY CuttingIs
<1>2. c + 1 \in 1..(Len(g) + 1) /\ \A id \in DOMAIN g : id \in Int
  BY <1>1, GivenIs
<1>3. \A id \in DOMAIN g : id >= c + 1 => id >= c
  BY <1>1, <1>2
<1>4. QED
  BY <1>2, <1>3 DEF Cutting

LEMMA FirstCut ==
  ASSUME HighlighterInit
  PROVE  CuttingInv
<1> DEFINE r == [i \in DOMAIN given |-> [id |-> i, kind |-> given[i].kind, range |-> given[i].range]]
<1>1. Given(given) /\ cutting = 1 /\ ret = r
  BY DEF HighlighterInit, Given
<1>2. /\ Len(given) \in Nat /\ DOMAIN given = 1..Len(given)
      /\ \A i \in DOMAIN given : /\ i \in Int /\ given[i].kind \in Kinds
                                 /\ StartOf(given, i) \in Places /\ EndOf(given, i) \in Places
                                 /\ given[i].range = [start |-> StartOf(given, i), end |-> EndOf(given, i)]
  BY <1>1, GivenIs
<1>3. DOMAIN r = 1..Len(given)
  BY <1>2
<1>4. ASSUME NEW i \in 1..Len(given)
      PROVE  /\ r[i] \in Cuts /\ r[i].id = i /\ r[i].kind = given[i].kind
             /\ r[i].range.start = StartOf(given, i) /\ r[i].range.end = EndOf(given, i)
  <2>1. r[i] = [id |-> i, kind |-> given[i].kind, range |-> given[i].range]
    BY <1>2
  <2>2. given[i].range \in [start : Places, end : Places] /\ i \in Nat
    <3> DEFINE s == StartOf(given, i)
    <3> DEFINE e == EndOf(given, i)
    <3>1. i \in DOMAIN given /\ i \in Nat
      BY <1>2
    <3>2. s \in Places /\ e \in Places /\ given[i].range = [start |-> s, end |-> e]
      BY <1>2, <3>1
    <3> HIDE DEF s, e
    <3>3. QED
      BY <3>1, <3>2
  <2>3. QED
    BY <1>2, <2>1, <2>2 DEF Cuts, StartOf, EndOf
<1>5. r \in Seq(Cuts)
  <2>1. r \in [1..Len(given) -> Cuts]
    BY <1>2, <1>3, <1>4
  <2>2. QED
    BY <1>2, <2>1
<1> HIDE DEF r
<1>6. /\ \A i \in DOMAIN r : r[i].id \in DOMAIN given /\ r[i].kind = given[r[i].id].kind
      /\ \A i, j \in DOMAIN r : i < j => r[i].id < r[j].id
      /\ \A id \in DOMAIN given : \E i \in DOMAIN r : r[i].id = id
  BY <1>2, <1>3, <1>4
<1>7. 1 \in 1..(Len(given) + 1)
  BY <1>2
<1>8. Cutting(given, r, 1)
  BY <1>1, <1>5, <1>6, <1>7 DEF Cutting
<1>9. CutInTurn(given, r, 1)
  <2>1. \A i \in DOMAIN r : ~(r[i].id < 1)
    BY <1>2, <1>3, <1>4
  <2>2. QED
    BY <1>3, <1>4, <1>6, <2>1 DEF CutInTurn
<1>10. QED
  BY <1>1, <1>8, <1>9 DEF CuttingInv

LEMMA CutFurther ==
  ASSUME CuttingInv, Separate
  PROVE  CuttingInv'
<1> DEFINE c == cutting
<1>1. Cutting(given, ret, cutting) /\ Given(given) /\ cutting \in Int /\ 1 <= cutting
  BY CuttingIs DEF CuttingInv
<1>2. cutting \in DOMAIN given /\ cutting' = cutting + 1 /\ given' = given /\ DOMAIN given = 1..Len(given)
  <2>1. Len(given) \in Nat /\ DOMAIN given = 1..Len(given)
    BY <1>1, GivenIs
  <2>2. QED
    BY <1>1, <2>1 DEF Separate
<1>3. CASE given[cutting].kind = "new"
  <2>1. ret' = ret
    BY <1>3 DEF Separate
  <2>2. Cutting(given, ret, cutting + 1)
    BY <1>1, <1>2, Passed
  <2>3. ~OfComments(given)
    BY <1>2, <1>3 DEF OfComments
  <2>4. QED
    BY <1>2, <2>1, <2>2, <2>3 DEF CuttingInv
<1>4. CASE given[cutting].kind # "new"
  <2> DEFINE at == CHOOSE i \in DOMAIN ret : ret[i].id = cutting
  <2> DEFINE others == Others(ret, at)
  <2> DEFINE target == given[cutting].range
  <2>1. at \in DOMAIN ret /\ ret[at].id = cutting
    <3>1. \E i \in DOMAIN ret : ret[i].id = cutting
      BY <1>1, <1>2 DEF Cutting
    <3>2. QED
      BY <3>1
  <2>2. ret' = IF Covered(target, others) THEN RemoveAt(ret, at)
               ELSE [ret EXCEPT ![at].range = Truncated(target, others)]
    BY <1>4 DEF Separate, Separated, Others
  <2> HIDE DEF at
  <2>3. CASE Covered(target, others)
    <3> DEFINE q == RemoveAt(ret, at)
    <3>1. /\ Cutting(given, q, cutting + 1)
          /\ \A j \in DOMAIN q : \E i \in DOMAIN ret : ret[i].id # cutting /\ q[j] = ret[i]
          /\ \A i \in DOMAIN ret : ret[i].id # cutting => \E j \in DOMAIN q : q[j] = ret[i]
      BY <1>1, <1>2, <2>1, LeftOut
    <3>2. ret' = q
      BY <2>2, <2>3
    <3> HIDE DEF q
    <3>3. ASSUME OfComments(given) PROVE CutInTurn(given, q, cutting + 1)
      <4>1. ~Kept(given, cutting)
        BY <1>2, <2>1, <2>3, <3>3, CoveredIs
      <4>2. CutInTurn(given, ret, cutting)
        BY <3>3 DEF CuttingInv
      <4>3. ASSUME NEW j \in DOMAIN q
            PROVE  /\ q[j].range.start = StartOf(given, q[j].id)
                   /\ q[j].range.end = IF q[j].id < cutting + 1 THEN CutEnd(given, q[j].id) ELSE EndOf(given, q[j].id)
                   /\ q[j].id < cutting + 1 => Kept(given, q[j].id)
        <5>1. PICK i \in DOMAIN ret : ret[i].id # cutting /\ q[j] = ret[i]
          BY <3>1
        <5>2. ret[i].id \in Int
          BY <1>1, CuttingIs
        <5>3. ret[i].id < cutting + 1 <=> ret[i].id < cutting
          BY <1>1, <5>1, <5>2
        <5>4. QED
          BY <4>2, <5>1, <5>3 DEF CutInTurn
      <4>4. ASSUME NEW id \in DOMAIN given, Kept(given, id) PROVE \E j \in DOMAIN q : q[j].id = id
        <5>1. PICK i \in DOMAIN ret : ret[i].id = id
          BY <4>2, <4>4 DEF CutInTurn
        <5>2. id # cutting
          BY <4>1, <4>4
        <5>3. PICK j \in DOMAIN q : q[j] = ret[i]
          BY <3>1, <5>1, <5>2
        <5>4. QED
          BY <5>1, <5>3
      <4>5. QED
        BY <4>3, <4>4 DEF CutInTurn
    <3>4. QED
      BY <1>2, <3>1, <3>2, <3>3 DEF CuttingInv
  <2>4. CASE ~Covered(target, others)
    <3> DEFINE range == Truncated(target, others)
    <3> DEFINE q == [ret EXCEPT ![at].range = range]
    <3>1. range \in [start : Places, end : Places]
      <4>1. others \subseteq DOMAIN ret
        BY DEF Others
      <4>2. QED
        BY <1>1, <1>2, <4>1, RangesAre
    <3>2. ret' = q
      BY <2>2, <2>4
    <3>3. OfComments(given) => Kept(given, cutting)
      BY <1>2, <2>1, <2>4, CoveredIs
    <3>4. OfComments(given) => range = [start |-> StartOf(given, cutting), end |-> CutEnd(given, cutting)]
      BY <1>2, <2>1, <3>3, TruncatedIs
    <3> HIDE DEF range
    <3>5. /\ Cutting(given, q, cutting + 1)
          /\ DOMAIN q = DOMAIN ret
          /\ \A i \in DOMAIN ret : q[i].id = ret[i].id /\ (ret[i].id # cutting => q[i] = ret[i])
          /\ q[at].range = range
      BY <1>1, <1>2, <2>1, <3>1, Cut
    <3> HIDE DEF q
    <3>6. ASSUME OfComments(given) PROVE CutInTurn(given, q, cutting + 1)
      <4>1. CutInTurn(given, ret, cutting)
        BY <3>6 DEF CuttingInv
      <4>2. ASSUME NEW j \in DOMAIN q
            PROVE  /\ q[j].range.start = StartOf(given, q[j].id)
                   /\ q[j].range.end = IF q[j].id < cutting + 1 THEN CutEnd(given, q[j].id) ELSE EndOf(given, q[j].id)
                   /\ q[j].id < cutting + 1 => Kept(given, q[j].id)
        <5>1. j \in DOMAIN ret /\ ret[j].id \in Int /\ q[j].id = ret[j].id
          BY <1>1, <3>5, CuttingIs
        <5>2. CASE ret[j].id = cutting
          <6>1. j = at
            BY <1>1, <2>1, <5>1, <5>2, CuttingIs
          <6>2. q[j].range = range /\ q[j].id = cutting /\ cutting < cutting + 1
            BY <1>1, <3>5, <5>1, <5>2, <6>1
          <6>3. QED
            BY <3>3, <3>4, <3>6, <6>2
        <5>3. CASE ret[j].id # cutting
          <6>1. q[j] = ret[j]
            BY <3>5, <5>1, <5>3
          <6>2. ret[j].id < cutting + 1 <=> ret[j].id < cutting
            BY <1>1, <5>1, <5>3
          <6>3. QED
            BY <4>1, <5>1, <6>1, <6>2 DEF CutInTurn
        <5>4. QED
          BY <5>2, <5>3
      <4>3. ASSUME NEW id \in DOMAIN given, Kept(given, id) PROVE \E j \in DOMAIN q : q[j].id = id
        <5>1. PICK i \in DOMAIN ret : ret[i].id = id
          BY <4>1, <4>3 DEF CutInTurn
        <5>2. QED
          BY <3>5, <5>1
      <4>4. QED
        BY <4>2, <4>3 DEF CutInTurn
    <3>7. QED
      BY <1>2, <3>2, <3>5, <3>6 DEF CuttingInv
  <2>5. QED
    BY <2>3, <2>4
<1>5. QED
  BY <1>3, <1>4

\* What is written in the end.
LEMMA TextIsWhole ==
  ASSUME CuttingInv
  PROVE  CommentedTextIsWhole
<1>1. SUFFICES ASSUME cutting > Len(given)
      PROVE  /\ ToSet(Written) = 1..Characters
             /\ (\A i \in DOMAIN given : given[i].kind = "comment") /\ TwoAtATime => TextOnce
  BY DEF CommentedTextIsWhole, CutAll
<1>2. Cutting(given, ret, cutting) /\ Given(given) /\ cutting \in Int /\ ret \in Seq(Cuts)
  BY CuttingIs DEF CuttingInv
<1> DEFINE n == Len(ret)
<1>3. n \in Nat /\ Len(ret) = n
  BY <1>2
<1> HIDE DEF n
<1>4. ToSet(Written) = 1..Characters
  BY <1>2, <1>3, AllIsWritten
<1>5. ASSUME \A i \in DOMAIN given : given[i].kind = "comment", TwoAtATime PROVE TextOnce
  <2>1. OfComments(given) /\ Apart(given)
    BY <1>5 DEF OfComments, Apart, TwoAtATime
  <2>2. CutInTurn(given, ret, cutting)
    BY <2>1 DEF CuttingInv
  <2>3. ASSUME NEW i \in DOMAIN ret
        PROVE  LET id == ret[i].id IN
               /\ id \in DOMAIN given /\ id \in Int /\ Kept(given, id)
               /\ ret[i].range.start = StartOf(given, id) /\ ret[i].range.end = CutEnd(given, id)
    <3>1. ret[i].id \in DOMAIN given /\ ret[i].id \in Int
      BY <1>2, CuttingIs
    <3>2. ret[i].id < cutting
      BY <1>1, <1>2, <3>1, GivenIs
    <3>3. QED
      BY <2>2, <3>1, <3>2 DEF CutInTurn
  <2>4. ASSUME NEW i \in DOMAIN ret PROVE ret[i].range.start <= ret[i].range.end
    <3> DEFINE id == ret[i].id
    <3>1. id \in DOMAIN given /\ ret[i].range.start = StartOf(given, id) /\ ret[i].range.end = CutEnd(given, id)
      BY <2>3
    <3> HIDE DEF id
    <3>2. StartOf(given, id) < CutEnd(given, id) /\ StartOf(given, id) \in Int /\ CutEnd(given, id) \in Int
      BY <1>2, <2>1, <3>1, GivenIs, CutEndIs
    <3>3. QED
      BY <3>1, <3>2
  <2>5. ASSUME NEW i \in DOMAIN ret, NEW j \in DOMAIN ret, i < j PROVE ret[i].range.end <= ret[j].range.start
    <3> DEFINE a == ret[i].id
    <3> DEFINE b == ret[j].id
    <3>1. /\ a \in DOMAIN given /\ b \in DOMAIN given /\ Kept(given, b)
          /\ ret[i].range.end = CutEnd(given, a) /\ ret[j].range.start = StartOf(given, b)
      BY <2>3
    <3>2. a < b
      BY <1>2, <2>5 DEF Cutting
    <3> HIDE DEF a, b
    <3>3. QED
      BY <1>2, <2>1, <3>1, <3>2, KeptInTurn
  <2>6. InTurn(ret)
    BY <2>4, <2>5 DEF InTurn
  <2>7. QED
    BY <1>2, <1>3, <2>6, TextIsWrittenOnce
<1>6. QED
  BY <1>4, <1>5

\* Nothing of the text is lost, whatever is highlighted in it, and it is
\* displayed once where comments overlap two at a time (CommentHighlighter.tsx).
THEOREM CommentedTextIsAlwaysWhole == HighlighterSpec => []CommentedTextIsWhole
<1>1. HighlighterInit => CuttingInv
  BY FirstCut
<1>2. CuttingInv /\ [HighlighterNext]_highlighterVars => CuttingInv'
  <2>1. SUFFICES ASSUME CuttingInv, [HighlighterNext]_highlighterVars PROVE CuttingInv'
    OBVIOUS
  <2>2. CASE Separate
    BY <2>1, <2>2, CutFurther
  <2>3. CASE UNCHANGED highlighterVars
    BY <2>1, <2>3 DEF CuttingInv, highlighterVars
  <2>4. QED
    BY <2>1, <2>2, <2>3 DEF HighlighterNext
<1>3. CuttingInv => CommentedTextIsWhole
  BY TextIsWhole
<1>4. QED
  BY <1>1, <1>2, <1>3, PTL DEF HighlighterSpec
================================================================================
