----------------------------- MODULE ViewerProofs -----------------------------
(***************************************************************************)
(* Theorems about PageViewer, with the cache and the highlights it is made *)
(* of: whatever is scrolled, zoomed, stepped to and searched for while     *)
(* requests are in flight, fail or are aborted, the two caches agree, the  *)
(* pages around the viewport are mounted, and they show what was searched  *)
(* for last.  The lemmas about one loop over pages are stated of the page  *)
(* it is at, whichever handler runs it.                                    *)
(***************************************************************************)
EXTENDS PageViewer, ListLemmas

(***************************************************************************)
(* Queues of a cache: each key once.                                       *)
(***************************************************************************)

Apart(q) == \A i, j \in DOMAIN q : q[i] = q[j] => i = j
On(q) == {q[i] : i \in DOMAIN q}

\* Without takes one key out.
LEMMA WithoutKey ==
  ASSUME NEW K, NEW q \in Seq(K), Apart(q), NEW k \in On(q)
  PROVE  /\ Without(q, k) \in Seq(K) /\ Len(Without(q, k)) = Len(q) - 1
         /\ Apart(Without(q, k)) /\ On(Without(q, k)) = On(q) \ {k}
<1> DEFINE index == CHOOSE i \in 1..Len(q) : q[i] = k
<1> DEFINE r == [i \in 1..(Len(q) - 1) |-> IF i < index THEN q[i] ELSE q[i + 1]]
<1>1. Len(q) \in Nat /\ DOMAIN q = 1..Len(q) /\ \A i \in 1..Len(q) : q[i] \in K
  OBVIOUS
<1>2. index \in 1..Len(q) /\ q[index] = k
  BY <1>1 DEF On
<1>3. r = Without(q, k)
  BY DEF Without
<1> HIDE DEF index
<1>4. r \in Seq(K) /\ Len(r) = Len(q) - 1
  <2>1. Len(q) - 1 \in Nat /\ \A i \in 1..(Len(q) - 1) : r[i] \in K
    BY <1>1, <1>2
  <2>2. QED
    BY <2>1
<1>5. DOMAIN r = 1..(Len(q) - 1)
      /\ \A i \in 1..(Len(q) - 1) : r[i] = IF i < index THEN q[i] ELSE q[i + 1]
  OBVIOUS
<1> HIDE DEF r
<1>6. Apart(r)
  <2>1. SUFFICES ASSUME NEW i \in DOMAIN r, NEW j \in DOMAIN r, r[i] = r[j] PROVE i = j
    BY DEF Apart
  <2>2. PICK a \in 1..Len(q) : r[i] = q[a] /\ a # index /\ a = IF i < index THEN i ELSE i + 1
    BY <1>1, <1>2, <1>5
  <2>3. PICK b \in 1..Len(q) : r[j] = q[b] /\ b # index /\ b = IF j < index THEN j ELSE j + 1
    BY <1>1, <1>2, <1>5
  <2>4. a = b
    BY <1>1, <2>1, <2>2, <2>3 DEF Apart
  <2>5. QED
    BY <1>1, <1>2, <1>5, <2>2, <2>3, <2>4
<1>7. On(r) = On(q) \ {k}
  <2>1. ASSUME NEW i \in DOMAIN r PROVE r[i] \in On(q) \ {k}
    <3>1. PICK a \in 1..Len(q) : r[i] = q[a] /\ a # index
      BY <1>1, <1>2, <1>5
    <3>2. QED
      BY <1>1, <1>2, <3>1 DEF Apart, On
  <2>2. ASSUME NEW a \in DOMAIN q, q[a] # k PROVE q[a] \in On(r)
    <3>1. CASE a < index
      <4>1. a \in DOMAIN r /\ r[a] = q[a]
        BY <1>1, <1>2, <1>5, <3>1
      <4>2. QED
        BY <4>1 DEF On
    <3>2. CASE ~(a < index)
      <4>1. a - 1 \in DOMAIN r /\ r[a - 1] = q[a]
        BY <1>1, <1>2, <1>5, <2>2, <3>2
      <4>2. QED
        BY <4>1 DEF On
    <3>3. QED
      BY <3>1, <3>2
  <2>3. QED
    BY <2>1, <2>2 DEF On
<1>8. QED
  BY <1>3, <1>4, <1>6, <1>7

\* A new key at the end.
LEMMA AppendKey ==
  ASSUME NEW K, NEW q \in Seq(K), Apart(q), NEW k \in K, k \notin On(q)
  PROVE  /\ Append(q, k) \in Seq(K) /\ Len(Append(q, k)) = Len(q) + 1
         /\ Apart(Append(q, k)) /\ On(Append(q, k)) = On(q) \cup {k}
         /\ Append(q, k)[Len(q) + 1] = k
<1> DEFINE r == Append(q, k)
<1>1. /\ r \in Seq(K) /\ Len(r) = Len(q) + 1 /\ Len(q) \in Nat
      /\ DOMAIN q = 1..Len(q) /\ DOMAIN r = 1..Len(q) + 1
      /\ r[Len(q) + 1] = k /\ \A i \in 1..Len(q) : r[i] = q[i]
  OBVIOUS
<1> HIDE DEF r
<1>2. DOMAIN r = DOMAIN q \cup {Len(q) + 1}
  BY <1>1
<1>3. On(r) = On(q) \cup {k}
  BY <1>1, <1>2 DEF On
<1>4. Apart(r)
  BY <1>1, <1>2 DEF On, Apart
<1>5. QED
  BY <1>1, <1>3, <1>4 DEF r

\* A key that is used moves to the end.
LEMMA BumpKey ==
  ASSUME NEW K, NEW q \in Seq(K), Apart(q), NEW k \in K, k \in On(q)
  PROVE  /\ Append(Without(q, k), k) \in Seq(K) /\ Len(Append(Without(q, k), k)) = Len(q)
         /\ Apart(Append(Without(q, k), k)) /\ On(Append(Without(q, k), k)) = On(q)
         /\ Append(Without(q, k), k)[Len(q)] = k
<1> DEFINE r == Without(q, k)
<1>1. r \in Seq(K) /\ Len(r) = Len(q) - 1 /\ Apart(r) /\ On(r) = On(q) \ {k}
  BY WithoutKey
<1> HIDE DEF r
<1>2. /\ Append(r, k) \in Seq(K) /\ Len(Append(r, k)) = Len(r) + 1
      /\ Apart(Append(r, k)) /\ On(Append(r, k)) = On(r) \cup {k}
      /\ Append(r, k)[Len(r) + 1] = k
  BY <1>1, AppendKey
<1>3. Len(q) \in Nat /\ Len(r) + 1 = Len(q)
  BY <1>1
<1>4. QED
  BY <1>1, <1>2, <1>3 DEF r

\* One that is there already stays there.
LEMMA BumpLast ==
  ASSUME NEW K, NEW q \in Seq(K), Apart(q), NEW k \in K, q # <<>>, q[Len(q)] = k
  PROVE  Append(Without(q, k), k) = q
<1> DEFINE n == Len(q)
<1> DEFINE index == CHOOSE i \in 1..Len(q) : q[i] = k
<1> DEFINE r == [i \in 1..(Len(q) - 1) |-> IF i < index THEN q[i] ELSE q[i + 1]]
<1>1. n \in Nat \ {0} /\ DOMAIN q = 1..n /\ \A i \in 1..n : q[i] \in K
  OBVIOUS
<1>2. index \in 1..n /\ q[index] = k
  BY <1>1
<1>3. r = Without(q, k)
  BY DEF Without
<1> HIDE DEF index
<1>4. index = n
  <2>1. n \in DOMAIN q /\ index \in DOMAIN q /\ q[n] = q[index]
    BY <1>1, <1>2
  <2>2. QED
    BY <2>1 DEF Apart
<1>5. r \in Seq(K) /\ Len(r) = n - 1 /\ \A i \in 1..(n - 1) : r[i] = q[i]
  <2>1. n - 1 \in Nat /\ \A i \in 1..(n - 1) : r[i] = q[i] /\ r[i] \in K
    BY <1>1, <1>4
  <2>2. QED
    BY <2>1
<1> HIDE DEF r, n
<1>6. /\ Append(r, k) \in Seq(K) /\ Len(Append(r, k)) = n
      /\ \A i \in 1..n : Append(r, k)[i] = q[i]
  <2>1. q[n] = k
    BY DEF n
  <2>2. /\ Append(r, k) \in Seq(K) /\ Len(Append(r, k)) = n /\ Append(r, k)[n] = k
        /\ \A i \in 1..(n - 1) : Append(r, k)[i] = r[i]
    BY <1>1, <1>5
  <2>3. QED
    BY <1>1, <1>5, <2>1, <2>2
<1>7. Append(r, k) = q
  <2> DEFINE a == Append(r, k)
  <2> HIDE DEF a
  <2>1. a \in Seq(K) /\ Len(a) = Len(q) /\ \A i \in 1..Len(q) : a[i] = q[i]
    BY <1>6 DEF a, n
  <2>2. a = q
    BY <2>1, SeqEqual
  <2>3. QED
    BY <2>2 DEF a
<1>8. QED
  BY <1>3, <1>7

\* The least recent key goes.
LEMMA TailKey ==
  ASSUME NEW K, NEW q \in Seq(K), Apart(q), q # <<>>
  PROVE  /\ Tail(q) \in Seq(K) /\ Len(Tail(q)) = Len(q) - 1
         /\ Apart(Tail(q)) /\ On(Tail(q)) = On(q) \ {Head(q)} /\ Head(q) \in On(q)
         /\ Len(q) > 1 => Tail(q)[Len(q) - 1] = q[Len(q)]
<1> DEFINE r == Tail(q)
<1>1. /\ r \in Seq(K) /\ Len(r) = Len(q) - 1 /\ Len(q) \in Nat \ {0}
      /\ DOMAIN q = 1..Len(q) /\ DOMAIN r = 1..(Len(q) - 1)
      /\ Head(q) = q[1] /\ \A i \in 1..(Len(q) - 1) : r[i] = q[i + 1]
  OBVIOUS
<1> HIDE DEF r
<1>2. Apart(r)
  BY <1>1 DEF Apart
<1>3. On(r) = On(q) \ {Head(q)}
  <2>1. ASSUME NEW i \in DOMAIN r PROVE r[i] \in On(q) \ {q[1]}
    <3>1. i + 1 \in DOMAIN q /\ r[i] = q[i + 1] /\ 1 \in DOMAIN q /\ i + 1 # 1
      BY <1>1
    <3>2. QED
      BY <3>1 DEF On, Apart
  <2>2. ASSUME NEW a \in DOMAIN q, q[a] # q[1] PROVE q[a] \in On(r)
    <3>1. a - 1 \in DOMAIN r /\ r[a - 1] = q[a]
      BY <1>1, <2>2
    <3>2. QED
      BY <3>1 DEF On
  <2>3. QED
    BY <1>1, <2>1, <2>2 DEF On
<1>4. Head(q) \in On(q)
  BY <1>1 DEF On
<1>5. Len(q) > 1 => r[Len(q) - 1] = q[Len(q)]
  BY <1>1
<1>6. QED
  BY <1>1, <1>2, <1>3, <1>4, <1>5 DEF r

(***************************************************************************)
(* A cache.                                                                *)
(***************************************************************************)

Caches(K, V) == [queue : Seq(K), entries : UNION {[D -> V] : D \in SUBSET K}]

\* A cache c becomes g: it has e for k, which is now the most recent key, and
\* has lost at most those that were evicted.
Takes(c, g, k, e, evicted) ==
  /\ k \in Cached(g) /\ g.entries[k] = e
  /\ g.queue # <<>> /\ g.queue[Len(g.queue)] = k
  /\ \A x \in Cached(g) : x # k => x \in Cached(c) /\ g.entries[x] = c.entries[x]
  /\ \A x \in Cached(c) : x \in Cached(g) \/ x \in evicted
  /\ evicted \subseteq Cached(c)

LEMMA WellFormedMeans ==
  ASSUME NEW c, NEW max
  PROVE  WellFormed(c, max) <=> Apart(c.queue) /\ On(c.queue) = Cached(c) /\ Len(c.queue) <= max
BY DEF WellFormed, Apart, On

LEMMA CacheParts ==
  ASSUME NEW K, NEW V, NEW c \in Caches(K, V)
  PROVE  /\ c.queue \in Seq(K) /\ Cached(c) \subseteq K
         /\ \A x \in Cached(c) : c.entries[x] \in V
BY DEF Caches, Cached

LEMMA MakesCache ==
  ASSUME NEW K, NEW V, NEW q \in Seq(K), NEW f, DOMAIN f \subseteq K, f = [x \in DOMAIN f |-> f[x]],
         \A x \in DOMAIN f : f[x] \in V
  PROVE  [queue |-> q, entries |-> f] \in Caches(K, V)
<1>1. f \in [DOMAIN f -> V] /\ DOMAIN f \in SUBSET K
  OBVIOUS
<1>2. QED
  BY <1>1 DEF Caches

\* CacheGet of a key that is there.
LEMMA BumpStep ==
  ASSUME NEW K, NEW V, NEW c \in Caches(K, V), NEW max \in Nat, WellFormed(c, max),
         NEW k \in Cached(c)
  PROVE  /\ BumpRecency(c, k) \in Caches(K, V) /\ WellFormed(BumpRecency(c, k), max)
         /\ BumpRecency(c, k).entries = c.entries
         /\ BumpRecency(c, k).queue = Append(Without(c.queue, k), k)
         /\ Takes(c, BumpRecency(c, k), k, c.entries[k], {})
<1> DEFINE q == Append(Without(c.queue, k), k)
<1> DEFINE g == BumpRecency(c, k)
<1>1. Apart(c.queue) /\ On(c.queue) = Cached(c) /\ Len(c.queue) <= max /\ c.queue \in Seq(K) /\ k \in K
  BY WellFormedMeans, CacheParts
<1>2. q \in Seq(K) /\ Len(q) = Len(c.queue) /\ Apart(q) /\ On(q) = On(c.queue) /\ q[Len(c.queue)] = k
  BY <1>1, BumpKey
<1>3. g = [queue |-> q, entries |-> c.entries]
  <2>1. g = [c EXCEPT !.queue = q]
    BY DEF BumpRecency
  <2> HIDE DEF q, g
  <2>2. [c EXCEPT !.queue = q] = [queue |-> q, entries |-> c.entries]
    BY DEF Caches
  <2>3. QED
    BY <2>1, <2>2
<1> HIDE DEF q, g
<1>4. g \in Caches(K, V) /\ g.queue = q /\ g.entries = c.entries /\ Cached(g) = Cached(c)
  BY <1>2, <1>3 DEF Caches, Cached
<1>5. WellFormed(g, max)
  BY <1>1, <1>2, <1>4, WellFormedMeans
<1>6. q # <<>>
  <2>1. q = <<>> => DOMAIN q = {}
    OBVIOUS
  <2>2. QED
    BY <1>1, <1>2, <2>1 DEF On
<1>7. Takes(c, g, k, c.entries[k], {})
  BY <1>2, <1>4, <1>6 DEF Takes
<1>8. QED
  BY <1>4, <1>5, <1>7 DEF g, q

\* A key that is not there: the least recent one goes when there is no room.
LEMMA AddStep ==
  ASSUME NEW K, NEW V, NEW c \in Caches(K, V), NEW max \in Nat \ {0}, WellFormed(c, max),
         NEW k \in K, k \notin Cached(c), NEW v \in V
  PROVE  /\ AddToCache(c, k, v, max) \in Caches(K, V) /\ WellFormed(AddToCache(c, k, v, max), max)
         /\ Takes(c, AddToCache(c, k, v, max), k, v, EvictedByGet(c, k, max))
         /\ AddToCache(c, k, v, max).queue =
              IF Len(c.queue) + 1 > max THEN Tail(Append(c.queue, k)) ELSE Append(c.queue, k)
<1> DEFINE q == Append(c.queue, k)
<1> DEFINE f == WithEntry(c.entries, k, v)
<1> DEFINE g == AddToCache(c, k, v, max)
<1>1. /\ Apart(c.queue) /\ On(c.queue) = Cached(c) /\ Len(c.queue) <= max
      /\ c.queue \in Seq(K) /\ Cached(c) \subseteq K /\ \A x \in Cached(c) : c.entries[x] \in V
      /\ Len(c.queue) \in Nat
  BY WellFormedMeans, CacheParts
<1>2. /\ q \in Seq(K) /\ Len(q) = Len(c.queue) + 1 /\ Apart(q) /\ On(q) = Cached(c) \cup {k}
      /\ q[Len(c.queue) + 1] = k
  BY <1>1, AppendKey
<1>3. /\ DOMAIN f = Cached(c) \cup {k} /\ f[k] = v /\ \A x \in Cached(c) : f[x] = c.entries[x]
      /\ f = [x \in DOMAIN f |-> f[x]]
  BY DEF WithEntry, Cached
<1>4. g = IF Len(q) > max THEN [queue |-> Tail(q), entries |-> WithoutEntry(f, Head(q))]
          ELSE [queue |-> q, entries |-> f]
  BY DEF AddToCache
<1>5. q # <<>> /\ Head(q) = IF c.queue = <<>> THEN k ELSE c.queue[1]
  <2> DEFINE s == c.queue
  <2> HIDE DEF s
  <2>1. s \in Seq(K) => Append(s, k) # <<>> /\ Head(Append(s, k)) = IF s = <<>> THEN k ELSE s[1]
    OBVIOUS
  <2>2. QED
    BY <1>1, <2>1 DEF s
<1>6. EvictedByGet(c, k, max) = IF Len(c.queue) >= max THEN {Head(q)} ELSE {}
  BY DEF EvictedByGet, Full
<1> HIDE DEF q, f, g
<1>7. CASE ~(Len(q) > max)
  <2>1. g = [queue |-> q, entries |-> f]
    BY <1>4, <1>7
  <2>2. \A x \in DOMAIN f : f[x] \in V
    BY <1>1, <1>3
  <2>3. g \in Caches(K, V)
    BY <1>1, <1>2, <1>3, <2>1, <2>2, MakesCache
  <2>4. g.queue = q /\ g.entries = f /\ Cached(g) = Cached(c) \cup {k}
    BY <1>3, <2>1 DEF Cached
  <2>5. WellFormed(g, max)
    <3>1. Apart(g.queue) /\ On(g.queue) = Cached(g) /\ Len(g.queue) <= max
      BY <1>1, <1>2, <1>7, <2>4
    <3>2. QED
      BY <3>1, WellFormedMeans
  <2>6. EvictedByGet(c, k, max) = {}
    BY <1>1, <1>2, <1>6, <1>7
  <2>7. Takes(c, g, k, v, EvictedByGet(c, k, max))
    BY <1>2, <1>3, <1>5, <2>4, <2>6 DEF Takes
  <2>8. QED
    BY <1>2, <1>7, <2>3, <2>4, <2>5, <2>7 DEF g, q
<1>8. CASE Len(q) > max
  <2> DEFINE h == WithoutEntry(f, Head(q))
  <2>1. g = [queue |-> Tail(q), entries |-> h]
    BY <1>4, <1>8
  <2>2. Len(c.queue) = max /\ c.queue # <<>> /\ Len(q) = max + 1 /\ Len(q) > 1
    BY <1>1, <1>2, <1>8
  <2>3. Head(q) \in Cached(c) /\ Head(q) # k
    <3>1. 1 \in DOMAIN c.queue /\ Head(q) = c.queue[1]
      BY <1>1, <1>5, <2>2
    <3>2. Head(q) \in On(c.queue)
      BY <3>1 DEF On
    <3>3. QED
      BY <1>1, <3>2
  <2>4. /\ Tail(q) \in Seq(K) /\ Len(Tail(q)) = max
        /\ Apart(Tail(q)) /\ On(Tail(q)) = On(q) \ {Head(q)} /\ Tail(q)[max] = k
    BY <1>2, <1>5, <2>2, TailKey
  <2>5. /\ DOMAIN h = (Cached(c) \cup {k}) \ {Head(q)} /\ h = [x \in DOMAIN h |-> h[x]]
        /\ \A x \in DOMAIN h : h[x] = f[x]
    BY <1>3 DEF WithoutEntry
  <2> HIDE DEF h
  <2>6. \A x \in DOMAIN h : h[x] \in V
    BY <1>1, <1>3, <2>5
  <2>7. g \in Caches(K, V)
    BY <1>1, <2>1, <2>4, <2>5, <2>6, MakesCache
  <2>8. g.queue = Tail(q) /\ g.entries = h /\ Cached(g) = (Cached(c) \cup {k}) \ {Head(q)}
    BY <2>1, <2>5 DEF Cached
  <2>9. WellFormed(g, max)
    <3>1. Apart(g.queue) /\ On(g.queue) = Cached(g) /\ Len(g.queue) <= max
      BY <1>2, <2>4, <2>8
    <3>2. QED
      BY <3>1, WellFormedMeans
  <2>10. EvictedByGet(c, k, max) = {Head(q)}
    BY <1>6, <2>2
  <2>11. Tail(q) # <<>>
    BY <2>4
  <2>12. Takes(c, g, k, v, EvictedByGet(c, k, max))
    BY <1>3, <2>3, <2>4, <2>5, <2>8, <2>10, <2>11 DEF Takes
  <2>13. QED
    BY <1>2, <1>8, <2>7, <2>8, <2>9, <2>12 DEF g, q
<1>9. QED
  BY <1>7, <1>8

\* The queue after a key was asked for.
QueueAfter(q, k, max) ==
  IF k \in On(q) THEN Append(Without(q, k), k)
  ELSE IF Len(q) + 1 > max THEN Tail(Append(q, k)) ELSE Append(q, k)

LEMMA GetStep ==
  ASSUME NEW K, NEW V, NEW c \in Caches(K, V), NEW max \in Nat \ {0}, WellFormed(c, max),
         NEW k \in K, NEW v \in V
  PROVE  /\ CacheGet(c, k, v, max) \in Caches(K, V) /\ WellFormed(CacheGet(c, k, v, max), max)
         /\ Takes(c, CacheGet(c, k, v, max), k, IF k \in Cached(c) THEN c.entries[k] ELSE v,
                  EvictedByGet(c, k, max))
         /\ CacheGet(c, k, v, max).queue = QueueAfter(c.queue, k, max)
<1>1. On(c.queue) = Cached(c)
  BY WellFormedMeans
<1>2. CASE k \in Cached(c)
  <2>1. CacheGet(c, k, v, max) = BumpRecency(c, k) /\ EvictedByGet(c, k, max) = {}
    BY <1>2 DEF CacheGet, EvictedByGet
  <2>2. QED
    BY <1>1, <1>2, <2>1, BumpStep DEF QueueAfter
<1>3. CASE k \notin Cached(c)
  <2>1. CacheGet(c, k, v, max) = AddToCache(c, k, v, max)
    BY <1>3 DEF CacheGet
  <2>2. QED
    BY <1>1, <1>3, <2>1, AddStep DEF QueueAfter
<1>4. QED
  BY <1>2, <1>3

LEMMA EvictStep ==
  ASSUME NEW K, NEW V, NEW c \in Caches(K, V), NEW max \in Nat \ {0}, WellFormed(c, max),
         NEW k \in Cached(c)
  PROVE  /\ Evict(c, k) \in Caches(K, V) /\ WellFormed(Evict(c, k), max)
         /\ Evict(c, k).queue = Without(c.queue, k) /\ Len(Evict(c, k).queue) + 1 = Len(c.queue)
         /\ Cached(Evict(c, k)) = Cached(c) \ {k}
         /\ \A x \in Cached(Evict(c, k)) : Evict(c, k).entries[x] = c.entries[x]
<1> DEFINE q == Without(c.queue, k)
<1> DEFINE f == WithoutEntry(c.entries, k)
<1> DEFINE g == Evict(c, k)
<1>1. /\ Apart(c.queue) /\ On(c.queue) = Cached(c) /\ Len(c.queue) <= max /\ c.queue \in Seq(K)
      /\ Cached(c) \subseteq K /\ (\A x \in Cached(c) : c.entries[x] \in V) /\ Len(c.queue) \in Nat
  BY WellFormedMeans, CacheParts
<1>2. q \in Seq(K) /\ Len(q) = Len(c.queue) - 1 /\ Apart(q) /\ On(q) = Cached(c) \ {k}
  BY <1>1, WithoutKey
<1>3. /\ DOMAIN f = Cached(c) \ {k} /\ f = [x \in DOMAIN f |-> f[x]]
      /\ \A x \in DOMAIN f : f[x] = c.entries[x]
  BY DEF WithoutEntry, Cached
<1>4. g = [queue |-> q, entries |-> f]
  BY DEF Evict
<1> HIDE DEF q, f, g
<1>5. \A x \in DOMAIN f : f[x] \in V
  BY <1>1, <1>3
<1>6. g \in Caches(K, V)
  BY <1>1, <1>2, <1>3, <1>4, <1>5, MakesCache
<1>7. g.queue = q /\ g.entries = f /\ Cached(g) = Cached(c) \ {k}
  BY <1>3, <1>4 DEF Cached
<1>8. WellFormed(g, max)
  <2>1. Apart(g.queue) /\ On(g.queue) = Cached(g) /\ Len(g.queue) <= max
    BY <1>1, <1>2, <1>7
  <2>2. QED
    BY <2>1, WellFormedMeans
<1>9. Len(g.queue) + 1 = Len(c.queue)
  BY <1>1, <1>2, <1>7
<1>10. \A x \in Cached(g) : g.entries[x] = c.entries[x]
  BY <1>3, <1>7
<1>11. QED
  BY <1>6, <1>7, <1>8, <1>9, <1>10 DEF g, q

\* A value is put in the place of the one there is.
LEMMA ForceStep ==
  ASSUME NEW K, NEW V, NEW c \in Caches(K, V), NEW max \in Nat \ {0}, WellFormed(c, max),
         NEW k \in K, NEW v \in V
  PROVE  /\ GetAndForceRefresh(c, k, v, max) \in Caches(K, V)
         /\ WellFormed(GetAndForceRefresh(c, k, v, max), max)
         /\ Takes(c, GetAndForceRefresh(c, k, v, max), k, v, EvictedByRefresh(c, k, max))
         /\ GetAndForceRefresh(c, k, v, max).queue = QueueAfter(c.queue, k, max)
<1>1. On(c.queue) = Cached(c) /\ Len(c.queue) <= max /\ Len(c.queue) \in Nat
  BY WellFormedMeans, CacheParts
<1>2. CASE k \in Cached(c)
  <2> DEFINE e == Evict(c, k)
  <2>1. /\ e \in Caches(K, V) /\ WellFormed(e, max)
        /\ e.queue = Without(c.queue, k) /\ Len(e.queue) + 1 = Len(c.queue)
        /\ Cached(e) = Cached(c) \ {k} /\ \A x \in Cached(e) : e.entries[x] = c.entries[x]
    BY <1>2, EvictStep
  <2> DEFINE g == AddToCache(e, k, v, max)
  <2>2. GetAndForceRefresh(c, k, v, max) = g /\ EvictedByRefresh(c, k, max) = {k}
    BY <1>2 DEF GetAndForceRefresh, EvictedByRefresh
  <2> HIDE DEF e
  <2>3. /\ g \in Caches(K, V) /\ WellFormed(g, max) /\ Takes(e, g, k, v, EvictedByGet(e, k, max))
        /\ g.queue = IF Len(e.queue) + 1 > max THEN Tail(Append(e.queue, k)) ELSE Append(e.queue, k)
    BY <2>1, AddStep
  <2> HIDE DEF g
  <2>4. ~(Len(e.queue) + 1 > max)
    BY <1>1, <2>1
  <2>5. EvictedByGet(e, k, max) = {}
    <3>1. ~Full(e, max)
      BY <1>1, <2>1 DEF Full
    <3>2. QED
      BY <3>1 DEF EvictedByGet
  <2>6. g.queue = QueueAfter(c.queue, k, max)
    BY <1>1, <1>2, <2>1, <2>3, <2>4 DEF QueueAfter
  <2>7. Takes(c, g, k, v, {k})
    BY <1>2, <2>1, <2>3, <2>5 DEF Takes
  <2>8. QED
    BY <2>2, <2>3, <2>6, <2>7
<1>3. CASE k \notin Cached(c)
  <2>1. /\ GetAndForceRefresh(c, k, v, max) = AddToCache(c, k, v, max)
        /\ EvictedByRefresh(c, k, max) = EvictedByGet(c, k, max)
    BY <1>3 DEF GetAndForceRefresh, EvictedByRefresh
  <2>2. QED
    BY <1>1, <1>3, <2>1, AddStep DEF QueueAfter
<1>4. QED
  BY <1>2, <1>3

LEMMA EntryStep ==
  ASSUME NEW K, NEW V, NEW c \in Caches(K, V), NEW g \in Caches(K, V), NEW max \in Nat \ {0},
         WellFormed(g, max), NEW k \in K, NEW v \in V, NEW e, NEW evicted, Takes(c, g, k, e, evicted)
  PROVE  LET h == [g EXCEPT !.entries = WithEntry(@, k, v)]
         IN  /\ h \in Caches(K, V) /\ WellFormed(h, max) /\ h.queue = g.queue
             /\ Takes(c, h, k, v, evicted)
<1> DEFINE f == WithEntry(g.entries, k, v)
<1> DEFINE h == [g EXCEPT !.entries = WithEntry(@, k, v)]
<1>1. h = [g EXCEPT !.entries = f]
  OBVIOUS
<1>2. g.queue \in Seq(K) /\ Cached(g) \subseteq K /\ \A x \in Cached(g) : g.entries[x] \in V
  BY CacheParts
<1>3. k \in Cached(g)
  BY DEF Takes
<1>4. /\ DOMAIN f = Cached(g) /\ f[k] = v /\ f = [x \in DOMAIN f |-> f[x]]
      /\ \A x \in Cached(g) : x # k => f[x] = g.entries[x]
  BY <1>3 DEF WithEntry, Cached
<1> HIDE DEF f
<1>5. [g EXCEPT !.entries = f] = [queue |-> g.queue, entries |-> f]
  BY DEF Caches
<1> HIDE DEF h
<1>6. h = [queue |-> g.queue, entries |-> f]
  BY <1>1, <1>5
<1>7. \A x \in DOMAIN f : f[x] \in V
  BY <1>2, <1>4
<1>8. h \in Caches(K, V)
  BY <1>2, <1>4, <1>6, <1>7, MakesCache
<1>9. h.queue = g.queue /\ h.entries = f /\ Cached(h) = Cached(g)
  BY <1>4, <1>6 DEF Cached
<1>10. WellFormed(h, max)
  BY <1>9, WellFormedMeans
<1>11. Takes(c, h, k, v, evicted)
  BY <1>3, <1>4, <1>9 DEF Takes
<1>12. QED
  BY <1>8, <1>9, <1>10, <1>11 DEF h

\* The value of the key used last is replaced: it is still the key used last.
LEMMA ReplaceStep ==
  ASSUME NEW K, NEW V, NEW g \in Caches(K, V), NEW max \in Nat \ {0}, WellFormed(g, max),
         NEW k \in K, k \in Cached(g), g.queue # <<>>, g.queue[Len(g.queue)] = k, NEW v \in V
  PROVE  /\ Replace(g, k, v, max) \in Caches(K, V) /\ WellFormed(Replace(g, k, v, max), max)
         /\ Replace(g, k, v, max).queue = g.queue
<1>1. Apart(g.queue) /\ g.queue \in Seq(K)
  BY WellFormedMeans, CacheParts
<1>2. /\ BumpRecency(g, k) \in Caches(K, V) /\ WellFormed(BumpRecency(g, k), max)
      /\ BumpRecency(g, k).queue = Append(Without(g.queue, k), k)
      /\ Takes(g, BumpRecency(g, k), k, g.entries[k], {})
  BY BumpStep
<1>3. Append(Without(g.queue, k), k) = g.queue
  BY <1>1, BumpLast
<1>4. Replace(g, k, v, max) = [BumpRecency(g, k) EXCEPT !.entries = WithEntry(@, k, v)]
  BY DEF Replace
<1> DEFINE b == BumpRecency(g, k)
<1> HIDE DEF b
<1>5. /\ b \in Caches(K, V) /\ WellFormed(b, max) /\ b.queue = g.queue /\ Takes(g, b, k, g.entries[k], {})
      /\ Replace(g, k, v, max) = [b EXCEPT !.entries = WithEntry(@, k, v)]
  BY <1>2, <1>3, <1>4 DEF b
<1>6. QED
  BY <1>5, EntryStep

(***************************************************************************)
(* The invariant.                                                          *)
(***************************************************************************)

\* The caches of the viewer, always asked for the same pages.
CacheInv ==
  /\ data \in Caches(DocumentPages, Promises) /\ WellFormed(data, MaxCachedPages)
  /\ previews \in Caches(DocumentPages, Scales) /\ WellFormed(previews, MaxCachedPages)
  /\ data.queue = previews.queue

\* What a handler may have left to do: a loop over pages, then what follows it.
SomePages == {P \in SUBSET DocumentPages : P # {}}
Runs(w, name) == w # <<>> /\ Head(w).job = name
ScrollLast(w) == w # <<>> /\ w[Len(w)].job = "scrolled"
RenderLeft(w) == IF Runs(w, "render") THEN Head(w).pages ELSE {}

Todo(w, name, P, rest) == w = Job(name, P) \o rest
Belongs(name, P, rest, shown, m, preloads, cached) ==
  \/ name = "render" /\ rest \in {<<>>, Job("scrolled", {m})}
  \/ name = "preload" /\ rest = Job("scrolled", {m}) /\ P \subseteq preloads
  \/ name = "refresh" /\ rest = Job("await", shown) /\ P \subseteq shown
  \/ name = "background" /\ rest = <<>> /\ P \subseteq cached
  \/ name = "resize" /\ rest = <<>> /\ P \subseteq shown
WorkShape(w, shown, m, preloads, cached) ==
  \E P \in SUBSET DocumentPages, name \in JobNames, rest \in {<<>>, Job("scrolled", {m}), Job("await", shown)} :
    Todo(w, name, P, rest) /\ Belongs(name, P, rest, shown, m, preloads, cached)
WorkInv == WorkShape(work, DOMAIN mounted, middle, PreloadPages, Cached(data))

\* The range is mounted, or is being rendered; it is around the page that was
\* worked out last, or will be; and that page is where the viewport is, unless a
\* scroll is not handled yet, or an older throttle handled one last.
RangeInv ==
  /\ DOMAIN mounted \cup RenderLeft(work) = Window(pageRange)
  /\ IF rangeTimer = NoTimer THEN pageRange = reported ELSE rangeTimer = reported
  /\ ~ScrollLast(work) => throttle = "trailing" \/ misled \/ reported = middle

\* A page hears of a request only as long as the cache has it for that page and
\* the page was given nothing later; a promise without its highlights comes after
\* the one it is derived from.
ContentOf(s, reqs) == IF s.wiped THEN NoFindQuery ELSE reqs[s.request].query
SoundPage(c, p, d, reqs) ==
  /\ c.data \in c.subscribed
  /\ \A s \in c.subscribed :
       /\ s.request \in DOMAIN reqs
       /\ reqs[s.request].state = "pending" =>
            p \in Cached(d) /\ d.entries[p].request = s.request /\ c.data.request = s.request
       /\ s.wiped /\ c.data.request = s.request => c.data.wiped
       /\ s.wiped /\ p \in Cached(d) /\ d.entries[p].request = s.request => d.entries[p].wiped
  /\ reqs[c.data.request].state = "loaded" => c.shown = ContentOf(c.data, reqs)

AllKnown(d, reqs) == \A p \in Cached(d) : d.entries[p].request \in DOMAIN reqs

PromiseInv ==
  /\ AllKnown(data, requests)
  /\ \A p \in DOMAIN mounted : SoundPage(mounted[p], p, data, requests)

\* The pages on screen are refreshed first; then a refresh of the others is to
\* come, or under way, or has been given up.
Stale == {p \in Cached(data) : Content(data.entries[p]) # cacheQuery}
RefreshToCome == \E t \in refreshes : Stale \cap t.pages = {}
StaleInv ==
  IF Runs(work, "refresh") THEN Stale \cap DOMAIN mounted \subseteq Head(work).pages
  ELSE IF Runs(work, "await") THEN Stale \cap DOMAIN mounted = {}
  ELSE lost \/ Stale = {} \/ RefreshToCome \/ (Runs(work, "background") /\ Stale \subseteq Head(work).pages)

\* The types of what is neither a cache nor a list of jobs.
SettingsOK ==
  /\ scale \in Scales /\ cacheSize \in Scales
  /\ zoomTimer \in Scales \cup {NoTimer} /\ rangeTimer \in DocumentPages \cup {NoTimer}
  /\ cacheQuery \in FindQueries \cup {NoFindQuery}
  /\ throttle \in ThrottleStates /\ leftBehind \in Seq(Scales)
  /\ reported \in DocumentPages /\ misled \in BOOLEAN
  /\ middle \in DocumentPages /\ pageRange \in DocumentPages
  /\ jump \in [page : DocumentPages, nonce : Nat] /\ lastJump \in Nat
  /\ events \in Nat
PagesOK ==
  /\ requests \in Seq(DataRequests)
  /\ DOMAIN mounted \subseteq DocumentPages /\ mounted \in [DOMAIN mounted -> PageComponents]
  /\ refreshes \subseteq Refreshes /\ lost \in BOOLEAN

ViewerInv ==
  /\ NavTypeOK /\ FocusIsAHighlight /\ SettingsOK
  /\ PagesOK /\ CacheInv /\ WorkInv /\ RangeInv /\ PromiseInv /\ StaleInv

(***************************************************************************)
(* The page a loop is at.                                                  *)
(***************************************************************************)

LEMMA SomePagesAre ==
  ASSUME NEW P
  PROVE  P \in SomePages <=> P \subseteq DocumentPages /\ P # {}
BY DEF SomePages

LEMMA FirstPage ==
  ASSUME NEW P \in SomePages
  PROVE  \E p \in P : \A q \in P : p <= q
<1>1. P \subseteq Nat /\ P # {}
  BY NumPagesAssumption, SomePagesAre DEF DocumentPages
<1>2. QED
  BY <1>1, Least

LEMMA LeastRecentPage ==
  ASSUME CacheInv, NEW P \in SomePages, P \subseteq Cached(data)
  PROVE  \E p \in P : \A q \in P : Position(data.queue, p) <= Position(data.queue, q)
<1> DEFINE queue == data.queue
<1>1. Apart(queue) /\ On(queue) = Cached(data) /\ queue \in Seq(DocumentPages)
  BY WellFormedMeans, CacheParts DEF CacheInv
<1> HIDE DEF queue
<1>2. ASSUME NEW i \in DOMAIN queue PROVE Position(queue, queue[i]) = i
  BY <1>1, <1>2 DEF Position, Apart
<1> DEFINE T == {i \in DOMAIN queue : queue[i] \in P}
<1>3. T \subseteq Nat
  BY <1>1
<1>4. \A p \in P : \E i \in T : queue[i] = p
  BY <1>1 DEF On
<1>5. T # {}
  BY <1>4, SomePagesAre
<1>6. PICK i \in T : \A j \in T : i <= j
  <2> HIDE DEF T
  <2>1. QED
    BY <1>3, <1>5, Least
<1>7. ASSUME NEW q \in P PROVE Position(queue, queue[i]) <= Position(queue, q)
  <2>1. PICK j \in T : queue[j] = q
    BY <1>4
  <2>2. QED
    BY <1>2, <1>6, <2>1
<1>8. QED
  BY <1>6, <1>7 DEF queue

LEMMA NearestPage ==
  ASSUME NEW P \in SomePages, P \subseteq PreloadPages
  PROVE  \E p \in P : \A q \in P : Before("preload", p, q)
<1>1. \A p \in P : \E i \in 0..5 : HighlightAround(i) = p
  BY DEF PreloadPages
<1> DEFINE T == {i \in 0..5 : HighlightAround(i) \in P}
<1>2. T \subseteq Nat /\ T # {}
  BY <1>1, SomePagesAre
<1>3. PICK i \in T : \A j \in T : i <= j
  <2> HIDE DEF T
  <2>1. QED
    BY <1>2, Least
<1>4. i \in 0..5 /\ HighlightAround(i) \in P /\ \A j \in 0..(i - 1) : HighlightAround(j) \notin P
  <2>1. i \in 0..5 /\ HighlightAround(i) \in P
    BY <1>3
  <2>2. ASSUME NEW j \in 0..(i - 1), HighlightAround(j) \in P PROVE FALSE
    <3>1. j \in T /\ j < i
      BY <2>1, <2>2
    <3>2. QED
      BY <1>3, <2>1, <3>1
  <2>3. QED
    BY <2>1, <2>2
<1> DEFINE p == HighlightAround(i)
<1>5. ASSUME NEW q \in P PROVE Before("preload", p, q)
  <2>1. \E m \in 0..5 : /\ HighlightAround(m) = p
                        /\ \A j \in 0..(m - 1) : HighlightAround(j) # q
    BY <1>4
  <2>2. QED
    BY <2>1 DEF Before
<1>6. QED
  BY <1>4, <1>5

\* A list of jobs: a loop over pages and what follows it.
LEMMA JobIs ==
  ASSUME NEW name, NEW P
  PROVE  /\ P = {} => Job(name, P) = <<>>
         /\ P # {} => Job(name, P) = <<[job |-> name, pages |-> P]>>
BY DEF Job

LEMMA PairOfTwo ==
  ASSUME NEW x, NEW y
  PROVE  <<x>> \o <<y>> = <<x, y>>
<1> DEFINE K == {x, y}
<1> DEFINE s == <<x>> \o <<y>>
<1> DEFINE t == <<x, y>>
<1>1. <<x>> \in Seq(K) /\ <<y>> \in Seq(K) /\ Len(<<x>>) = 1 /\ Len(<<y>>) = 1
      /\ <<x>>[1] = x /\ <<y>>[1] = y
  OBVIOUS
<1>2. t \in Seq(K) /\ Len(t) = 2 /\ t[1] = x /\ t[2] = y
  OBVIOUS
<1>3. s \in Seq(K) /\ Len(s) = 2 /\ s[1] = x /\ s[2] = y
  <2>1. /\ s \in Seq(K) /\ Len(s) = Len(<<x>>) + Len(<<y>>)
        /\ \A j \in 1..Len(<<x>>) + Len(<<y>>) :
             s[j] = IF j <= Len(<<x>>) THEN <<x>>[j] ELSE <<y>>[j - Len(<<x>>)]
    BY <1>1, ConcatEntries
  <2>2. QED
    BY <1>1, <2>1
<1> HIDE DEF s, t
<1>4. s = t
  BY <1>2, <1>3, SeqEqual
<1>5. QED
  BY <1>4 DEF s, t

Follows(rest) == rest = <<>> \/ \E x : rest = <<x>>

\* What there is to do, when pages are left and when none are.
Looks(w, name, P, rest) ==
  /\ w # <<>> /\ Head(w) = [job |-> name, pages |-> P] /\ Tail(w) = rest
  /\ \A other : Runs(w, other) <=> other = name
  /\ RenderLeft(w) = IF name = "render" THEN P ELSE {}
  /\ w[Len(w)] = IF rest = <<>> THEN [job |-> name, pages |-> P] ELSE rest[1]

LEMMA JobThen ==
  ASSUME NEW name, NEW P, NEW rest, Follows(rest), NEW w, Todo(w, name, P, rest)
  PROVE  IF P = {} THEN w = rest ELSE Looks(w, name, P, rest)
<1> DEFINE loop == [job |-> name, pages |-> P]
<1>0. loop.job = name /\ loop.pages = P /\ w = Job(name, P) \o rest
  BY DEF Todo
<1>1. CASE P = {}
  <2>1. w = <<>> \o rest
    BY <1>0, <1>1, JobIs
  <2>2. <<>> \o <<>> = <<>> /\ \A x : <<>> \o <<x>> = <<x>>
    OBVIOUS
  <2>3. QED
    BY <1>1, <2>1, <2>2 DEF Follows
<1>2. CASE P # {} /\ rest = <<>>
  <2>1. Job(name, P) = <<loop>>
    BY <1>2, JobIs
  <2> HIDE DEF loop
  <2>2. <<loop>> \o <<>> = <<loop>>
    OBVIOUS
  <2>3. w = <<loop>>
    BY <1>0, <1>2, <2>1, <2>2
  <2>4. w # <<>> /\ Head(w) = loop /\ Tail(w) = <<>> /\ w[Len(w)] = loop
    BY <2>3
  <2>5. QED
    BY <1>0, <1>2, <2>4 DEF Runs, RenderLeft, loop, Looks
<1>3. ASSUME P # {}, NEW x, rest = <<x>> PROVE Looks(w, name, P, rest)
  <2>1. Job(name, P) = <<loop>>
    BY <1>3, JobIs
  <2> HIDE DEF loop
  <2>2. w = <<loop, x>>
    BY <1>0, <1>3, <2>1, PairOfTwo
  <2>3. w # <<>> /\ Head(w) = loop /\ Tail(w) = <<x>> /\ w[Len(w)] = x
    BY <2>2
  <2>4. rest[1] = x /\ rest # <<>>
    BY <1>3
  <2>5. QED
    BY <1>0, <1>3, <2>3, <2>4 DEF Runs, RenderLeft, loop, Looks
<1>4. QED
  BY <1>1, <1>2, <1>3 DEF Follows

\* A job by itself.
AloneIs(name, P) ==
  /\ Follows(Job(name, P)) /\ Job(name, P) \o <<>> = Job(name, P)
  /\ \A other : Runs(Job(name, P), other) => other = name /\ P # {}
  /\ ScrollLast(Job(name, P)) => name = "scrolled"
  /\ name # "render" => RenderLeft(Job(name, P)) = {}
  /\ P # {} => /\ Job(name, P) # <<>> /\ Tail(Job(name, P)) = <<>>
               /\ Head(Job(name, P)) = [job |-> name, pages |-> P]
               /\ Job(name, P)[1] = [job |-> name, pages |-> P]
               /\ name = "scrolled" => ScrollLast(Job(name, P))

LEMMA NothingToDo ==
  /\ ~ScrollLast(<<>>) /\ RenderLeft(<<>>) = {} /\ Follows(<<>>) /\ <<>> \o <<>> = <<>>
  /\ \A other : ~Runs(<<>>, other)
BY DEF Runs, ScrollLast, RenderLeft, Follows

LEMMA JobAlone ==
  ASSUME NEW name, NEW P
  PROVE  AloneIs(name, P)
<1> DEFINE loop == [job |-> name, pages |-> P]
<1>0. loop.job = name /\ loop.pages = P
  OBVIOUS
<1>3. CASE P = {}
  <2>1. Job(name, P) = <<>>
    BY <1>3, JobIs
  <2>2. QED
    BY <1>3, <2>1, NothingToDo DEF AloneIs
<1>4. CASE P # {}
  <2>1. Job(name, P) = <<loop>>
    BY <1>4, JobIs
  <2> DEFINE w == Job(name, P)
  <2> HIDE DEF loop
  <2>2. <<loop>> # <<>> /\ <<loop>> \o <<>> = <<loop>> /\ Head(<<loop>>) = loop /\ Tail(<<loop>>) = <<>>
        /\ <<loop>>[1] = loop /\ Len(<<loop>>) = 1 /\ Follows(<<loop>>)
    BY DEF Follows
  <2> HIDE DEF w
  <2>3. w = <<loop>>
    BY <2>1 DEF w
  <2>4. /\ w # <<>> /\ w \o <<>> = w /\ Head(w) = loop /\ Tail(w) = <<>> /\ w[1] = loop /\ w[Len(w)] = loop
        /\ Follows(w)
    BY <2>2, <2>3
  <2>5. \A other : Runs(w, other) <=> other = name
    BY <1>0, <2>4 DEF Runs
  <2>6. (ScrollLast(w) <=> name = "scrolled") /\ (name # "render" => RenderLeft(w) = {})
    BY <1>0, <2>4, <2>5 DEF ScrollLast, RenderLeft
  <2>7. QED
    BY <1>4, <2>4, <2>5, <2>6 DEF w, loop, AloneIs
<1>5. QED
  BY <1>3, <1>4

LEMMA DoneIs ==
  ASSUME NEW name, NEW P, P # {}, NEW rest, Follows(rest), Todo(work, name, P, rest), NEW p
  PROVE  Todo(Done(p), name, P \ {p}, rest)
<1>1. Head(work) = [job |-> name, pages |-> P] /\ Tail(work) = rest
  <2>1. Looks(work, name, P, rest)
    BY JobThen
  <2>2. QED
    BY <2>1 DEF Looks
<1>2. Head(work).pages = P
  BY <1>1
<1>3. CASE P = {p}
  <2>1. Done(p) = rest
    BY <1>1, <1>2, <1>3 DEF Done
  <2>2. Job(name, P \ {p}) = <<>>
    BY <1>3, JobIs
  <2>3. <<>> \o rest = rest
    <3>1. <<>> \o <<>> = <<>> /\ \A x : <<>> \o <<x>> = <<x>>
      OBVIOUS
    <3>2. QED
      BY <3>1 DEF Follows
  <2>4. QED
    BY <2>1, <2>2, <2>3 DEF Todo
<1>4. CASE P # {p} /\ P \ {p} # {}
  <2>1. Done(p) = <<[Head(work) EXCEPT !.pages = @ \ {p}]>> \o rest
    BY <1>1, <1>2, <1>4 DEF Done
  <2>2. [[job |-> name, pages |-> P] EXCEPT !.pages = @ \ {p}] = [job |-> name, pages |-> P \ {p}]
    OBVIOUS
  <2>3. Job(name, P \ {p}) = <<[job |-> name, pages |-> P \ {p}]>>
    BY <1>4, JobIs
  <2>4. QED
    BY <1>1, <2>1, <2>2, <2>3 DEF Todo
<1>5. QED
  BY <1>3, <1>4

\* The job that runs, and what follows it.
AtWork(w, name, P, rest, shown, m, preloads, cached) ==
  \/ name = "await" /\ w = Job("await", shown) /\ shown # {}
  \/ name = "scrolled" /\ w = Job("scrolled", {m})
  \/ /\ P \in SomePages /\ Follows(rest) /\ Todo(w, name, P, rest) /\ Looks(w, name, P, rest)
     /\ Belongs(name, P, rest, shown, m, preloads, cached)

LEMMA WorkIs ==
  ASSUME NEW w, NEW shown, NEW m, NEW preloads, NEW cached, WorkShape(w, shown, m, preloads, cached),
         NEW name, Runs(w, name)
  PROVE  \E P, rest : AtWork(w, name, P, rest, shown, m, preloads, cached)
<1>1. PICK P \in SUBSET DocumentPages, n \in JobNames, rest \in {<<>>, Job("scrolled", {m}), Job("await", shown)} :
        Todo(w, n, P, rest) /\ Belongs(n, P, rest, shown, m, preloads, cached)
  BY DEF WorkShape
<1>2. Follows(rest) /\ \A other : Runs(rest, other) =>
        (other = "scrolled" /\ rest = Job("scrolled", {m})) \/ (other = "await" /\ rest = Job("await", shown) /\ shown # {})
  <2>1. AloneIs("scrolled", {m}) /\ AloneIs("await", shown)
    BY JobAlone
  <2>2. QED
    BY <1>1, <2>1, NothingToDo DEF AloneIs
<1>3. IF P = {} THEN w = rest ELSE Looks(w, n, P, rest)
  BY <1>1, <1>2, JobThen
<1>4. CASE P = {}
  BY <1>2, <1>3, <1>4 DEF AtWork
<1>5. CASE P # {}
  <2>1. Looks(w, n, P, rest) /\ n = name
    BY <1>3, <1>5 DEF Looks
  <2>2. P \in SomePages
    BY <1>1, <1>5, SomePagesAre
  <2>3. QED
    BY <1>1, <1>2, <2>1, <2>2 DEF AtWork
<1>6. QED
  BY <1>4, <1>5

LEMMA WorkTyped ==
  ASSUME NEW w, NEW shown \in SUBSET DocumentPages, NEW m \in DocumentPages, NEW preloads, NEW cached,
         WorkShape(w, shown, m, preloads, cached)
  PROVE  w \in Seq(Jobs)
<1>1. \A name \in JobNames, P \in SUBSET DocumentPages : Job(name, P) \in Seq(Jobs)
  <2>1. TAKE name \in JobNames, P \in SUBSET DocumentPages
  <2>2. [job |-> name, pages |-> P] \in Jobs
    BY DEF Jobs
  <2>3. QED
    BY <2>2 DEF Job
<1>2. PICK P \in SUBSET DocumentPages, name \in JobNames, rest \in {<<>>, Job("scrolled", {m}), Job("await",
                                                                      shown)} :
        Todo(w, name, P, rest)
  BY DEF WorkShape
<1>3. "scrolled" \in JobNames /\ "await" \in JobNames /\ {m} \in SUBSET DocumentPages /\ <<>> \in Seq(Jobs)
  BY DEF JobNames
<1>4. rest \in Seq(Jobs) /\ Job(name, P) \in Seq(Jobs)
  BY <1>1, <1>2, <1>3
<1>5. QED
  BY <1>2, <1>4 DEF Todo

LEMMA CacheTyped ==
  ASSUME NEW K, NEW V, NEW c \in Caches(K, V)
  PROVE  c.queue \in Seq(K) /\ c.entries \in [Cached(c) -> V]
BY DEF Caches, Cached

\* The invariant gives the types.
LEMMA InvTyped == ViewerInv => ViewerTypeOK
<1> SUFFICES ASSUME ViewerInv PROVE ViewerTypeOK
  OBVIOUS
<1>1. NavTypeOK /\ SettingsOK /\ PagesOK /\ CacheInv /\ WorkInv
  BY DEF ViewerInv
<1>2. work \in Seq(Jobs)
  <2>1. DOMAIN mounted \in SUBSET DocumentPages /\ middle \in DocumentPages
    BY <1>1 DEF PagesOK, SettingsOK
  <2>2. QED
    BY <1>1, <2>1, WorkTyped DEF WorkInv
<1>3. /\ previews.queue \in Seq(DocumentPages) /\ previews.entries \in [Cached(previews) -> Scales]
      /\ data.queue \in Seq(DocumentPages) /\ data.entries \in [Cached(data) -> Promises]
  BY <1>1, CacheTyped DEF CacheInv
<1>4. QED
  BY <1>1, <1>2, <1>3 DEF SettingsOK, PagesOK, ViewerTypeOK

LEMMA NextPageTaken ==
  ASSUME NEW P \in SomePages, Head(work).pages = P,
         Head(work).job = "background" => CacheInv /\ P \subseteq Cached(data),
         Head(work).job = "preload" => P \subseteq PreloadPages
  PROVE  NextPage \in P /\ NextPage \in DocumentPages
<1> DEFINE name == Head(work).job
<1>1. \E p \in P : \A q \in P : Before(name, p, q)
  <2>1. CASE name = "background"
    <3>1. \E p \in P : \A q \in P : Position(data.queue, p) <= Position(data.queue, q)
      BY <2>1, LeastRecentPage
    <3>2. QED
      BY <2>1, <3>1 DEF Before
  <2>2. CASE name = "preload"
    BY <2>2, NearestPage
  <2>3. CASE name \notin {"background", "preload"}
    <3>1. \E p \in P : \A q \in P : p <= q
      BY FirstPage
    <3>2. QED
      BY <2>3, <3>1 DEF Before
  <2>4. QED
    BY <2>1, <2>2, <2>3
<1>2. NextPage = CHOOSE p \in P : \A q \in P : Before(name, p, q)
  BY DEF NextPage
<1> HIDE DEF name
<1>3. NextPage \in P
  BY <1>1, <1>2
<1>4. QED
  BY <1>3, SomePagesAre

(***************************************************************************)
(* What a step of a loop does to the pages.                                *)
(***************************************************************************)

\* Requests are aborted, and one may have been made.
RequestsAfter(reqs, after, aborted) ==
  /\ DOMAIN reqs \subseteq DOMAIN after
  /\ \A r \in DOMAIN reqs :
       /\ after[r].query = reqs[r].query
       /\ after[r].state = IF r \in aborted THEN "aborted" ELSE reqs[r].state

\* The entry of k after the step: the one it had, perhaps without its highlights,
\* or one for a request that has just been made.
NextEntry(d, k, e, evicted, reqs, after) ==
  IF k \in Cached(d) \ evicted
  THEN e.request = d.entries[k].request /\ (d.entries[k].wiped => e.wiped)
  ELSE e.request \in DOMAIN after \ DOMAIN reqs /\ after[e.request].state = "pending"

LEMMA PageStaysSound ==
  ASSUME NEW d, NEW g, NEW reqs, NEW after, NEW k, NEW e, NEW evicted, NEW aborted,
         Takes(d, g, k, e, evicted), RequestsAfter(reqs, after, aborted),
         \A x \in evicted : reqs[d.entries[x].request].state = "pending" => d.entries[x].request \in aborted,
         \A r \in aborted : reqs[r].state = "pending",
         NextEntry(d, k, e, evicted, reqs, after),
         NEW c, NEW p, SoundPage(c, p, d, reqs)
  PROVE  SoundPage(c, p, g, after)
<1>1. ASSUME NEW s \in c.subscribed PROVE s.request \in DOMAIN reqs /\ s.request \in DOMAIN after
  BY DEF SoundPage, RequestsAfter
<1>2. ASSUME NEW s \in c.subscribed, after[s.request].state = "pending"
      PROVE  p \in Cached(g) /\ g.entries[p].request = s.request /\ c.data.request = s.request
  <2>1. reqs[s.request].state = "pending" /\ s.request \notin aborted
    BY <1>1, <1>2 DEF RequestsAfter
  <2>2. p \in Cached(d) /\ d.entries[p].request = s.request /\ c.data.request = s.request
    BY <2>1 DEF SoundPage
  <2>3. p \notin evicted
    BY <2>1, <2>2
  <2>4. QED
    BY <2>2, <2>3 DEF Takes, NextEntry
<1>3. ASSUME NEW s \in c.subscribed, s.wiped, p \in Cached(g), g.entries[p].request = s.request
      PROVE  g.entries[p].wiped
  <2>1. CASE p = k
    <3>1. g.entries[p] = e
      BY <2>1 DEF Takes
    <3>2. k \in Cached(d) \ evicted
      BY <1>1, <1>3, <3>1 DEF NextEntry
    <3>3. QED
      BY <1>3, <2>1, <3>1, <3>2 DEF NextEntry, SoundPage
  <2>2. CASE p # k
    <3>1. p \in Cached(d) /\ g.entries[p] = d.entries[p]
      BY <1>3, <2>2 DEF Takes
    <3>2. QED
      BY <1>3, <3>1 DEF SoundPage
  <2>3. QED
    BY <2>1, <2>2
<1>4. ASSUME after[c.data.request].state = "loaded" PROVE c.shown = ContentOf(c.data, after)
  <2>1. c.data \in c.subscribed /\ c.data.request \in DOMAIN reqs
    BY <1>1 DEF SoundPage
  <2>2. reqs[c.data.request].state = "loaded" /\ after[c.data.request].query = reqs[c.data.request].query
    BY <1>4, <2>1 DEF RequestsAfter
  <2>3. QED
    BY <2>2 DEF SoundPage, ContentOf
<1>5. QED
  BY <1>1, <1>2, <1>3, <1>4 DEF SoundPage

\* The promises a page had before it is given one.
Had(k) == IF k \in DOMAIN mounted THEN mounted[k].subscribed ELSE {}
HadSound(had, k, d, reqs) == had = {} \/ \E old : old.subscribed = had /\ SoundPage(old, k, d, reqs)

\* A page is given the entry; before that it had the promises in had.
LEMMA GivenIsSound ==
  ASSUME NEW d, NEW g, NEW reqs, NEW after, NEW k, NEW e, NEW evicted, NEW aborted,
         Takes(d, g, k, e, evicted), RequestsAfter(reqs, after, aborted),
         \A x \in evicted : reqs[d.entries[x].request].state = "pending" => d.entries[x].request \in aborted,
         \A r \in aborted : reqs[r].state = "pending",
         NextEntry(d, k, e, evicted, reqs, after), AllKnown(d, reqs),
         NEW had, NEW c, c.data = e, c.subscribed = had \cup {e},
         HadSound(had, k, d, reqs),
         e.request \in DOMAIN reqs /\ reqs[e.request].state = "loaded" => c.shown = ContentOf(e, reqs)
  PROVE  SoundPage(c, k, g, after)
<1>1. k \in Cached(g) /\ g.entries[k] = e
  BY DEF Takes
<1>2. e.request \in DOMAIN after
  BY DEF NextEntry, AllKnown, RequestsAfter
<1>3. ASSUME NEW s \in had
      PROVE  /\ s.request \in DOMAIN reqs /\ s.request \in DOMAIN after
             /\ after[s.request].state = "pending" => e.request = s.request
             /\ s.wiped /\ e.request = s.request => e.wiped
  <2>1. PICK old : old.subscribed = had /\ SoundPage(old, k, d, reqs)
    BY DEF HadSound
  <2>2. s.request \in DOMAIN reqs /\ s.request \in DOMAIN after
    BY <2>1 DEF SoundPage, RequestsAfter
  <2>3. ASSUME after[s.request].state = "pending" PROVE e.request = s.request
    <3>1. reqs[s.request].state = "pending" /\ s.request \notin aborted
      BY <2>2, <2>3 DEF RequestsAfter
    <3>2. k \in Cached(d) /\ d.entries[k].request = s.request
      BY <2>1, <3>1 DEF SoundPage
    <3>3. k \notin evicted
      BY <3>1, <3>2
    <3>4. QED
      BY <3>2, <3>3 DEF NextEntry
  <2>4. ASSUME s.wiped, e.request = s.request PROVE e.wiped
    <3>1. k \in Cached(d) \ evicted
      BY <2>2, <2>4 DEF NextEntry
    <3>2. QED
      BY <2>1, <2>4, <3>1 DEF NextEntry, SoundPage
  <2>5. QED
    BY <2>2, <2>3, <2>4
<1>4. ASSUME after[e.request].state = "loaded" PROVE c.shown = ContentOf(e, after)
  <2>1. e.request \in DOMAIN reqs
    BY <1>4 DEF NextEntry, AllKnown
  <2>2. reqs[e.request].state = "loaded" /\ after[e.request].query = reqs[e.request].query
    BY <1>4, <2>1 DEF RequestsAfter
  <2>3. QED
    BY <2>1, <2>2 DEF ContentOf
<1>5. QED
  BY <1>1, <1>2, <1>3, <1>4 DEF SoundPage

\* The requests: some are aborted, and one is sent for a promise that is new.
LEMMA RequestsStep ==
  ASSUME requests \in Seq(DataRequests), cacheQuery \in FindQueries \cup {NoFindQuery},
         NEW g, NEW evicted, NEW sends \in BOOLEAN, NEW components,
         DataBecomes(g, evicted, sends, components)
  PROVE  LET aborted == Pending({data.entries[x].request : x \in evicted})
             next == Len(requests) + 1
         IN  /\ requests' \in Seq(DataRequests) /\ RequestsAfter(requests, requests', aborted)
             /\ \A r \in aborted : requests[r].state = "pending"
             /\ sends => /\ next \in DOMAIN requests' \ DOMAIN requests
                         /\ requests'[next].state = "pending" /\ requests'[next].query = cacheQuery
<1> DEFINE aborted == Pending({data.entries[x].request : x \in evicted})
<1> DEFINE new == [query |-> cacheQuery, state |-> "pending"]
<1> DEFINE sent == IF sends THEN Append(requests, new) ELSE requests
<1> DEFINE next == Len(requests) + 1
<1>1. requests' = [r \in DOMAIN sent |-> IF r \in aborted THEN [sent[r] EXCEPT !.state = "aborted"] ELSE sent[r]]
  BY DEF DataBecomes
<1>2. aborted \subseteq DOMAIN requests /\ \A r \in aborted : requests[r].state = "pending"
  BY DEF Pending
<1>3. new \in DataRequests /\ new.query = cacheQuery /\ new.state = "pending"
  BY DEF DataRequests, RequestStates
<1> HIDE DEF new, aborted
<1>4. /\ sent \in Seq(DataRequests) /\ \A r \in DOMAIN requests : r \in DOMAIN sent /\ sent[r] = requests[r]
      /\ sends => next \in DOMAIN sent \ DOMAIN requests /\ sent[next] = new
  <2>1. CASE sends
    <3> DEFINE s == Append(requests, new)
    <3>1. /\ s \in Seq(DataRequests) /\ Len(s) = Len(requests) + 1 /\ Len(requests) \in Nat
          /\ DOMAIN requests = 1..Len(requests) /\ DOMAIN s = 1..Len(requests) + 1
          /\ s[Len(requests) + 1] = new /\ \A i \in 1..Len(requests) : s[i] = requests[i]
      BY <1>3
    <3> HIDE DEF s
    <3>2. sent = s
      BY <2>1 DEF s
    <3> HIDE DEF sent
    <3>3. QED
      BY <3>1, <3>2
  <2>2. CASE ~sends
    BY <2>2
  <2>3. QED
    BY <2>1, <2>2
<1> HIDE DEF sent
<1>5. ASSUME NEW r \in DOMAIN sent PROVE requests'[r] \in DataRequests
  <2>1. sent[r] \in DataRequests
    BY <1>4
  <2>2. [sent[r] EXCEPT !.state = "aborted"] \in DataRequests
    BY <2>1 DEF DataRequests, RequestStates
  <2>3. QED
    BY <1>1, <2>1, <2>2
<1>6. requests' \in Seq(DataRequests)
  <2>1. Len(sent) \in Nat /\ DOMAIN sent = 1..Len(sent)
    BY <1>4
  <2> DEFINE f == [r \in 1..Len(sent) |-> requests'[r]]
  <2>2. requests' = f
    BY <1>1, <2>1
  <2>3. f \in Seq(DataRequests)
    BY <1>5, <2>1
  <2>4. QED
    BY <2>2, <2>3
<1>7. \A r \in DOMAIN requests :
        /\ r \in DOMAIN requests' /\ requests'[r].query = requests[r].query
        /\ requests'[r].state = IF r \in aborted THEN "aborted" ELSE requests[r].state
  <2>1. TAKE r \in DOMAIN requests
  <2>2. r \in DOMAIN sent /\ sent[r] = requests[r] /\ sent[r] \in DataRequests
    BY <1>4
  <2>3. QED
    BY <1>1, <2>2 DEF DataRequests
<1>8. RequestsAfter(requests, requests', aborted)
  BY <1>7 DEF RequestsAfter
<1>9. sends => /\ next \in DOMAIN requests' \ DOMAIN requests
               /\ requests'[next].state = "pending" /\ requests'[next].query = cacheQuery
  BY <1>1, <1>2, <1>3, <1>4
<1>10. QED
  BY <1>2, <1>6, <1>8, <1>9 DEF aborted

\* The pages: what was aborted is marked on those that wait for it.
LEMMA ComponentsStep ==
  ASSUME NEW g, NEW evicted, NEW sends, NEW components, DataBecomes(g, evicted, sends, components),
         components \in [DOMAIN components -> PageComponents]
  PROVE  /\ DOMAIN mounted' = DOMAIN components /\ mounted' \in [DOMAIN mounted' -> PageComponents]
         /\ \A p \in DOMAIN components :
              /\ mounted'[p].data = components[p].data /\ mounted'[p].shown = components[p].shown
              /\ mounted'[p].subscribed = components[p].subscribed
<1> DEFINE aborted == Pending({data.entries[x].request : x \in evicted})
<1>1. mounted' = [p \in DOMAIN components |->
                    IF Subscribes(components[p], aborted)
                    THEN [components[p] EXCEPT !.aborted = TRUE] ELSE components[p]]
  BY DEF DataBecomes
<1> HIDE DEF aborted
<1>2. ASSUME NEW p \in DOMAIN components
      PROVE  /\ mounted'[p] \in PageComponents
             /\ mounted'[p].data = components[p].data /\ mounted'[p].shown = components[p].shown
             /\ mounted'[p].subscribed = components[p].subscribed
  BY <1>1 DEF PageComponents
<1>3. QED
  BY <1>1, <1>2

\* A page is given a promise and a size.
GivenTo(components, k, e) ==
  /\ components \in [DOMAIN components -> PageComponents]
  /\ DOMAIN components = DOMAIN mounted \cup {k}
  /\ \A p \in DOMAIN mounted \ {k} : components[p] = mounted[p]
  /\ components[k].data = e /\ components[k].subscribed = Had(k) \cup {e}
  /\ e.request \in DOMAIN requests /\ requests[e.request].state = "loaded" =>
       components[k].shown = ContentOf(e, requests)

LEMMA GivenStep ==
  ASSUME mounted \in [DOMAIN mounted -> PageComponents], requests \in Seq(DataRequests),
         NEW k, NEW e \in Promises, NEW size \in Scales
  PROVE  GivenTo(Given(k, e, size), k, e)
<1> DEFINE components == Given(k, e, size)
<1> DEFINE old == IF k \in DOMAIN mounted THEN mounted[k]
                  ELSE [subscribed |-> {}, shown |-> NothingShown, aborted |-> FALSE]
<1> DEFINE fulfilled == e.request \in DOMAIN requests /\ requests[e.request].state = "loaded"
<1> DEFINE c == [data |-> e, size |-> size, subscribed |-> old.subscribed \cup {e},
                 shown |-> IF fulfilled THEN Content(e) ELSE old.shown, aborted |-> old.aborted]
<1>1. components = [q \in DOMAIN mounted \cup {k} |-> IF q # k THEN mounted[q] ELSE c]
  BY DEF Given
<1>2. /\ old.subscribed = Had(k)
      /\ old.subscribed \in SUBSET Promises
      /\ old.shown \in FindQueries \cup {NoFindQuery, NothingShown} /\ old.aborted \in BOOLEAN
  <2>1. CASE k \in DOMAIN mounted
    <3>1. old = mounted[k] /\ mounted[k] \in PageComponents
      BY <2>1
    <3> HIDE DEF old
    <3>2. QED
      BY <2>1, <3>1 DEF PageComponents, Had
  <2>2. CASE k \notin DOMAIN mounted
    BY <2>2 DEF Had
  <2>3. QED
    BY <2>1, <2>2
<1>3. fulfilled => Content(e) = ContentOf(e, requests) /\ Content(e) \in FindQueries \cup {NoFindQuery}
  <2>1. fulfilled => requests[e.request] \in DataRequests
    OBVIOUS
  <2>2. QED
    BY <2>1 DEF Content, ContentOf, DataRequests
<1> HIDE DEF old
<1>4. c \in PageComponents
  BY <1>2, <1>3 DEF PageComponents
<1>5. c.data = e /\ c.subscribed = old.subscribed \cup {e} /\ (fulfilled => c.shown = ContentOf(e, requests))
  BY <1>3
<1> HIDE DEF c, components, fulfilled
<1>6. components[k] = c /\ DOMAIN components = DOMAIN mounted \cup {k}
      /\ \A p \in DOMAIN mounted \ {k} : components[p] = mounted[p]
  BY <1>1
<1>7. components \in [DOMAIN components -> PageComponents]
  BY <1>1, <1>4
<1>8. QED
  BY <1>2, <1>5, <1>6, <1>7 DEF components, fulfilled, GivenTo

LEMMA SoundSame ==
  ASSUME NEW a, NEW b, NEW p, NEW d, NEW reqs, a.data = b.data, a.shown = b.shown,
         a.subscribed = b.subscribed, SoundPage(b, p, d, reqs)
  PROVE  SoundPage(a, p, d, reqs)
BY DEF SoundPage

\* A step of a loop asks the data cache for a page, which may be given what it gets:
\* the entry it has for it, or one for a request that is sent.
DataAsked(k, e, g, evicted, sends, components) ==
  /\ Takes(data, g, k, e, evicted)
  /\ sends => e.request = NewPromise.request
  /\ k \in Cached(data) \ evicted => e.request = data.entries[k].request /\ (data.entries[k].wiped => e.wiped)
  /\ k \notin Cached(data) \ evicted => sends
  /\ components = mounted \/ \E size \in Scales : components = Given(k, e, size)
  /\ DataBecomes(g, evicted, sends, components)

PagesAfter(k, components) ==
  /\ requests' \in Seq(DataRequests)
  /\ DOMAIN mounted' = DOMAIN components /\ mounted' \in [DOMAIN mounted' -> PageComponents]
  /\ DOMAIN components \in {DOMAIN mounted, DOMAIN mounted \cup {k}}
  /\ refreshes' \subseteq refreshes /\ lost' \in BOOLEAN /\ (~lost' => ~lost /\ refreshes' = refreshes)
  /\ PromiseInv'

DataGets(k, e, g, sends, components) ==
  /\ data' = g
  /\ PagesAfter(k, components)
  /\ Stale' \subseteq Stale \cup {k}
  /\ ContentOf(e, requests') = cacheQuery => k \notin Stale'
  /\ e.request \in DOMAIN requests => ContentOf(e, requests') = ContentOf(e, requests)
  /\ sends => requests'[e.request].query = cacheQuery

PagesKnown ==
  /\ requests \in Seq(DataRequests) /\ cacheQuery \in FindQueries \cup {NoFindQuery}
  /\ mounted \in [DOMAIN mounted -> PageComponents] /\ lost \in BOOLEAN
  /\ PromiseInv

LEMMA DataStep ==
  ASSUME PagesKnown, cacheQuery' = cacheQuery,
         NEW k, NEW e \in Promises, NEW g, NEW evicted, NEW sends \in BOOLEAN, NEW components,
         DataAsked(k, e, g, evicted, sends, components)
  PROVE  DataGets(k, e, g, sends, components)
<1>0. /\ requests \in Seq(DataRequests) /\ cacheQuery \in FindQueries \cup {NoFindQuery}
      /\ mounted \in [DOMAIN mounted -> PageComponents] /\ lost \in BOOLEAN
      /\ PromiseInv
  BY DEF PagesKnown
<1>a. /\ Takes(data, g, k, e, evicted)
      /\ sends => e.request = NewPromise.request
      /\ k \in Cached(data) \ evicted => e.request = data.entries[k].request /\ (data.entries[k].wiped => e.wiped)
      /\ k \notin Cached(data) \ evicted => sends
      /\ components = mounted \/ \E size \in Scales : components = Given(k, e, size)
      /\ DataBecomes(g, evicted, sends, components)
  BY DEF DataAsked
<1> USE <1>0, <1>a
<1> DEFINE aborted == Pending({data.entries[x].request : x \in evicted})
<1>1. data' = g /\ refreshes' \subseteq refreshes /\ lost' = (lost \/ refreshes' # refreshes)
  BY DEF DataBecomes
<1>2. /\ requests' \in Seq(DataRequests) /\ RequestsAfter(requests, requests', aborted)
      /\ \A r \in aborted : requests[r].state = "pending"
      /\ sends => /\ Len(requests) + 1 \in DOMAIN requests' \ DOMAIN requests
                  /\ requests'[Len(requests) + 1].state = "pending"
                  /\ requests'[Len(requests) + 1].query = cacheQuery
  BY RequestsStep
<1>3. /\ components \in [DOMAIN components -> PageComponents]
      /\ DOMAIN components \in {DOMAIN mounted, DOMAIN mounted \cup {k}}
      /\ components = mounted \/ GivenTo(components, k, e)
  <2>1. ASSUME NEW size \in Scales, components = Given(k, e, size) PROVE GivenTo(components, k, e)
    <3>1. GivenTo(Given(k, e, size), k, e)
      BY GivenStep
    <3>2. QED
      BY <2>1, <3>1
  <2>2. components = mounted \/ GivenTo(components, k, e)
    BY <2>1
  <2>3. QED
    BY <2>2 DEF GivenTo
<1>4. /\ DOMAIN mounted' = DOMAIN components /\ mounted' \in [DOMAIN mounted' -> PageComponents]
      /\ \A p \in DOMAIN components :
           /\ mounted'[p].data = components[p].data /\ mounted'[p].shown = components[p].shown
           /\ mounted'[p].subscribed = components[p].subscribed
  BY <1>3, ComponentsStep
<1>5. AllKnown(data, requests) /\ \A p \in DOMAIN mounted : SoundPage(mounted[p], p, data, requests)
  BY DEF PromiseInv
<1>6. ASSUME NEW x \in evicted, requests[data.entries[x].request].state = "pending"
      PROVE  data.entries[x].request \in aborted
  <2>1. x \in Cached(data)
    BY DEF Takes
  <2>2. data.entries[x].request \in DOMAIN requests
    BY <1>5, <2>1 DEF AllKnown
  <2>3. QED
    BY <1>6, <2>2 DEF Pending
<1>7. NextEntry(data, k, e, evicted, requests, requests')
  <2>1. sends => e.request = Len(requests) + 1
    BY DEF NewPromise
  <2>2. QED
    BY <1>2, <2>1 DEF NextEntry
<1> HIDE DEF aborted
<1>8. ASSUME NEW p \in DOMAIN mounted PROVE SoundPage(mounted[p], p, g, requests')
  <2>1. SoundPage(mounted[p], p, data, requests)
    BY <1>5
  <2>2. QED
    BY <1>2, <1>6, <1>7, <2>1, PageStaysSound
<1>9. ASSUME components # mounted PROVE SoundPage(components[k], k, g, requests')
  <2>1. HadSound(Had(k), k, data, requests)
    <3>1. CASE k \in DOMAIN mounted
      <4>1. Had(k) = mounted[k].subscribed /\ SoundPage(mounted[k], k, data, requests)
        BY <1>5, <3>1 DEF Had
      <4>2. QED
        BY <4>1 DEF HadSound
    <3>2. CASE k \notin DOMAIN mounted
      BY <3>2 DEF Had, HadSound
    <3>3. QED
      BY <3>1, <3>2
  <2> DEFINE c == components[k]
  <2>2. /\ c.data = e /\ c.subscribed = Had(k) \cup {e}
        /\ e.request \in DOMAIN requests /\ requests[e.request].state = "loaded" => c.shown = ContentOf(e, requests)
    BY <1>3, <1>9 DEF GivenTo
  <2> HIDE DEF c
  <2>3. SoundPage(c, k, g, requests')
    <3>1. \A x \in evicted : requests[data.entries[x].request].state = "pending" =>
                             data.entries[x].request \in aborted
      BY <1>6
    <3>2. /\ Takes(data, g, k, e, evicted) /\ RequestsAfter(requests, requests', aborted)
          /\ \A r \in aborted : requests[r].state = "pending"
          /\ AllKnown(data, requests)
      BY <1>2, <1>5
    <3>3. QED
      BY <1>7, <2>1, <2>2, <3>1, <3>2, GivenIsSound
  <2>4. QED
    BY <2>3 DEF c
<1>10. ASSUME NEW p \in DOMAIN components PROVE SoundPage(mounted'[p], p, g, requests')
  <2>1. SoundPage(components[p], p, g, requests')
    BY <1>3, <1>8, <1>9 DEF GivenTo
  <2>2. QED
    BY <1>4, <2>1, SoundSame
<1>11. PromiseInv'
  <2>1. ASSUME NEW x \in Cached(g) PROVE g.entries[x].request \in DOMAIN requests'
    <3>1. CASE x = k
      <4>1. g.entries[x] = e
        BY <3>1 DEF Takes
      <4>2. (k \in Cached(data) /\ e.request = data.entries[k].request) \/ e.request \in DOMAIN requests'
        BY <1>7 DEF NextEntry
      <4>3. QED
        BY <1>2, <1>5, <4>1, <4>2 DEF AllKnown, RequestsAfter
    <3>2. CASE x # k
      <4>1. x \in Cached(data) /\ g.entries[x] = data.entries[x]
        BY <3>2 DEF Takes
      <4>2. QED
        BY <1>2, <1>5, <4>1 DEF AllKnown, RequestsAfter
    <3>3. QED
      BY <3>1, <3>2
  <2>2. AllKnown(g, requests')
    BY <2>1 DEF AllKnown
  <2>3. \A p \in DOMAIN mounted' : SoundPage(mounted'[p], p, g, requests')
    BY <1>4, <1>10
  <2>4. QED
    BY <1>1, <2>2, <2>3 DEF PromiseInv, AllKnown, SoundPage, ContentOf, Cached
<1>12. \A x \in Cached(g) : Content(g.entries[x])' = ContentOf(g.entries[x], requests')
  BY DEF Content, ContentOf
<1>13. Stale' \subseteq Stale \cup {k}
  <2>1. ASSUME NEW x \in Stale', x # k PROVE x \in Stale
    <3>1. x \in Cached(g) /\ ContentOf(g.entries[x], requests') # cacheQuery
      BY <1>1, <2>1 DEF Stale, Cached, Content, ContentOf
    <3>2. x \in Cached(data) /\ g.entries[x] = data.entries[x]
      BY <2>1, <3>1 DEF Takes
    <3>3. requests'[data.entries[x].request].query = requests[data.entries[x].request].query
      BY <1>2, <1>5, <3>2 DEF AllKnown, RequestsAfter
    <3>4. QED
      BY <3>1, <3>2, <3>3 DEF Stale, Content, ContentOf
  <2>2. QED
    BY <2>1
<1>14. ContentOf(e, requests') = cacheQuery => k \notin Stale'
  <2>1. k \in Stale' => ContentOf(g.entries[k], requests') # cacheQuery
    BY <1>1 DEF Stale, Cached, Content, ContentOf
  <2>2. QED
    BY <2>1 DEF Takes
<1>15. e.request \in DOMAIN requests => ContentOf(e, requests') = ContentOf(e, requests)
  BY <1>2 DEF RequestsAfter, ContentOf
<1>16. sends => requests'[e.request].query = cacheQuery
  BY <1>2 DEF NewPromise
<1>17. PagesAfter(k, components)
  BY <1>1, <1>2, <1>3, <1>4, <1>11 DEF PagesAfter
<1>18. QED
  BY <1>1, <1>13, <1>14, <1>15, <1>16, <1>17 DEF DataGets

\* What asking the data cache for page k does, whether or not the page is refreshed.
DataTaken(k, components) ==
  /\ data' \in Caches(DocumentPages, Promises) /\ WellFormed(data', MaxCachedPages)
  /\ data'.queue = QueueAfter(data.queue, k, MaxCachedPages)
  /\ k \in Cached(data) => Cached(data') = Cached(data)
  /\ PagesAfter(k, components)

LEMMA PromiseTypes ==
  ASSUME requests \in Seq(DataRequests), data \in Caches(DocumentPages, Promises), NEW k
  PROVE  /\ NewPromise \in Promises /\ NewPromise.request = Len(requests) + 1 /\ ~NewPromise.wiped
         /\ PromiseFor(k) \in Promises /\ RefreshedPromise(k) \in Promises
         /\ k \in Cached(data) => PromiseFor(k) = data.entries[k]
         /\ k \notin Cached(data) => PromiseFor(k) = NewPromise
         /\ cacheQuery # NoFindQuery => RefreshedPromise(k) = NewPromise
         /\ cacheQuery = NoFindQuery => /\ RefreshedPromise(k).request = PromiseFor(k).request
                                        /\ RefreshedPromise(k).wiped
<1>1. NewPromise \in Promises /\ NewPromise.request = Len(requests) + 1 /\ ~NewPromise.wiped
  BY DEF NewPromise, Promises
<1>2. \A x \in Cached(data) : data.entries[x] \in Promises
  BY CacheParts
<1>3. /\ PromiseFor(k) \in Promises
      /\ k \in Cached(data) => PromiseFor(k) = data.entries[k]
      /\ k \notin Cached(data) => PromiseFor(k) = NewPromise
  BY <1>1, <1>2 DEF PromiseFor
<1>4. /\ RefreshedPromise(k) \in Promises
      /\ cacheQuery # NoFindQuery => RefreshedPromise(k) = NewPromise
      /\ cacheQuery = NoFindQuery => /\ RefreshedPromise(k).request = PromiseFor(k).request
                                     /\ RefreshedPromise(k).wiped
  BY <1>1, <1>3 DEF RefreshedPromise, Promises
<1>5. QED
  BY <1>1, <1>3, <1>4

LEMMA SameKeys ==
  ASSUME NEW c, NEW g, NEW k, NEW e, NEW evicted, Takes(c, g, k, e, evicted),
         k \in Cached(c) => evicted \subseteq {k}
  PROVE  k \in Cached(c) => Cached(g) = Cached(c)
BY DEF Takes

LEMMA GetDataStep ==
  ASSUME PagesKnown, CacheInv, cacheQuery' = cacheQuery,
         NEW k \in DocumentPages, NEW components,
         components = mounted \/ \E size \in Scales : components = Given(k, PromiseFor(k), size),
         GetData(k, components)
  PROVE  DataTaken(k, components) /\ Stale' \subseteq Stale
<1> DEFINE g == CacheGet(data, k, NewPromise, MaxCachedPages)
<1> DEFINE e == PromiseFor(k)
<1> DEFINE evicted == EvictedByGet(data, k, MaxCachedPages)
<1> DEFINE sends == k \notin Cached(data)
<1>1. DataBecomes(g, evicted, sends, components)
  BY DEF GetData
<1>2. data \in Caches(DocumentPages, Promises) /\ WellFormed(data, MaxCachedPages)
  BY DEF CacheInv
<1>3. /\ NewPromise \in Promises /\ ~NewPromise.wiped /\ e \in Promises
      /\ e = IF k \in Cached(data) THEN data.entries[k] ELSE NewPromise
  BY <1>2, PromiseTypes DEF PagesKnown
<1>4. /\ g \in Caches(DocumentPages, Promises) /\ WellFormed(g, MaxCachedPages)
      /\ Takes(data, g, k, e, evicted) /\ g.queue = QueueAfter(data.queue, k, MaxCachedPages)
  BY <1>2, <1>3, GetStep, MaxCachedPagesAssumption
<1>5. k \in Cached(data) => evicted = {}
  BY DEF EvictedByGet
<1>6. sends \in BOOLEAN
  OBVIOUS
<1>7. DataAsked(k, e, g, evicted, sends, components)
  BY <1>1, <1>3, <1>4, <1>5 DEF DataAsked
<1> HIDE DEF g, e, evicted, sends
<1>8. DataGets(k, e, g, sends, components)
  BY <1>3, <1>6, <1>7, DataStep
<1>9. k \in Cached(data) => Cached(g) = Cached(data)
  BY <1>4, <1>5, SameKeys
<1>10. k \in Stale' => k \in Stale
  <2>1. CASE k \in Cached(data)
    <3>1. e = data.entries[k] /\ e.request \in DOMAIN requests
      BY <1>3, <2>1 DEF PagesKnown, PromiseInv, AllKnown
    <3>2. k \notin Stale => ContentOf(e, requests) = cacheQuery
      BY <2>1, <3>1 DEF Stale, Content, ContentOf
    <3>3. QED
      BY <1>8, <3>1, <3>2 DEF DataGets
  <2>2. CASE k \notin Cached(data)
    BY <1>3, <1>8, <2>2 DEF ContentOf, sends, DataGets
  <2>3. QED
    BY <2>1, <2>2
<1>11. DataTaken(k, components)
  BY <1>4, <1>8, <1>9 DEF DataTaken, DataGets
<1>12. QED
  BY <1>8, <1>10, <1>11 DEF DataGets

LEMMA RefreshDataStep ==
  ASSUME PagesKnown, CacheInv, cacheQuery' = cacheQuery,
         NEW k \in DocumentPages, NEW components,
         components = mounted \/ \E size \in Scales : components = Given(k, RefreshedPromise(k), size),
         RefreshData(k, components)
  PROVE  DataTaken(k, components) /\ Stale' \subseteq Stale \ {k}
<1> DEFINE e == RefreshedPromise(k)
<1>1. data \in Caches(DocumentPages, Promises) /\ WellFormed(data, MaxCachedPages)
  BY DEF CacheInv
<1>2. /\ NewPromise \in Promises /\ NewPromise.request = Len(requests) + 1 /\ ~NewPromise.wiped /\ e \in Promises
      /\ PromiseFor(k) = IF k \in Cached(data) THEN data.entries[k] ELSE NewPromise
      /\ cacheQuery # NoFindQuery => e = NewPromise
      /\ cacheQuery = NoFindQuery => e.request = PromiseFor(k).request /\ e.wiped
  BY <1>1, PromiseTypes DEF PagesKnown
<1>3. \E g, evicted : \E sends \in BOOLEAN :
        /\ DataAsked(k, e, g, evicted, sends, components)
        /\ g \in Caches(DocumentPages, Promises) /\ WellFormed(g, MaxCachedPages)
        /\ g.queue = QueueAfter(data.queue, k, MaxCachedPages)
        /\ k \in Cached(data) => evicted \subseteq {k}
        /\ sends \/ e.wiped
        /\ cacheQuery # NoFindQuery => ~e.wiped
  <2>1. CASE cacheQuery # NoFindQuery
    <3> DEFINE g == GetAndForceRefresh(data, k, NewPromise, MaxCachedPages)
    <3> DEFINE evicted == EvictedByRefresh(data, k, MaxCachedPages)
    <3>1. DataBecomes(g, evicted, TRUE, components)
      BY <2>1 DEF RefreshData
    <3>2. /\ g \in Caches(DocumentPages, Promises) /\ WellFormed(g, MaxCachedPages)
          /\ Takes(data, g, k, NewPromise, evicted) /\ g.queue = QueueAfter(data.queue, k, MaxCachedPages)
      BY <1>1, <1>2, ForceStep, MaxCachedPagesAssumption
    <3>3. k \in Cached(data) => evicted = {k}
      BY DEF EvictedByRefresh
    <3> HIDE DEF g, evicted
    <3>4. DataAsked(k, e, g, evicted, TRUE, components)
      BY <1>2, <2>1, <3>1, <3>2, <3>3 DEF DataAsked
    <3>5. QED
      BY <1>2, <2>1, <3>2, <3>3, <3>4
  <2>2. CASE cacheQuery = NoFindQuery
    <3> DEFINE got == CacheGet(data, k, NewPromise, MaxCachedPages)
    <3> DEFINE g == [got EXCEPT !.entries = WithEntry(@, k, e)]
    <3> DEFINE evicted == EvictedByGet(data, k, MaxCachedPages)
    <3> DEFINE sends == k \notin Cached(data)
    <3>1. DataBecomes(g, evicted, sends, components)
      BY <2>2 DEF RefreshData
    <3>2. /\ got \in Caches(DocumentPages, Promises) /\ WellFormed(got, MaxCachedPages)
          /\ Takes(data, got, k, IF k \in Cached(data) THEN data.entries[k] ELSE NewPromise, evicted)
          /\ got.queue = QueueAfter(data.queue, k, MaxCachedPages)
      BY <1>1, <1>2, GetStep, MaxCachedPagesAssumption
    <3> HIDE DEF got, e
    <3>3. /\ g \in Caches(DocumentPages, Promises) /\ WellFormed(g, MaxCachedPages) /\ g.queue = got.queue
          /\ Takes(data, g, k, e, evicted)
      BY <1>1, <1>2, <3>2, EntryStep, MaxCachedPagesAssumption
    <3>4. k \in Cached(data) => evicted = {}
      BY DEF EvictedByGet
    <3>5. sends \in BOOLEAN
      OBVIOUS
    <3> HIDE DEF g, evicted
    <3>6. components = mounted \/ \E size \in Scales : components = Given(k, e, size)
      BY DEF e
    <3>7. DataAsked(k, e, g, evicted, sends, components)
      BY <1>2, <2>2, <3>1, <3>3, <3>4, <3>6 DEF DataAsked
    <3>8. QED
      BY <1>2, <2>2, <3>2, <3>3, <3>4, <3>5, <3>7
  <2>3. QED
    BY <2>1, <2>2
<1>4. PICK g, evicted : \E sends \in BOOLEAN :
        /\ DataAsked(k, e, g, evicted, sends, components)
        /\ g \in Caches(DocumentPages, Promises) /\ WellFormed(g, MaxCachedPages)
        /\ g.queue = QueueAfter(data.queue, k, MaxCachedPages)
        /\ k \in Cached(data) => evicted \subseteq {k}
        /\ sends \/ e.wiped
        /\ cacheQuery # NoFindQuery => ~e.wiped
  BY <1>3
<1>5. PICK sends \in BOOLEAN :
        /\ DataAsked(k, e, g, evicted, sends, components)
        /\ g \in Caches(DocumentPages, Promises) /\ WellFormed(g, MaxCachedPages)
        /\ g.queue = QueueAfter(data.queue, k, MaxCachedPages)
        /\ k \in Cached(data) => evicted \subseteq {k}
        /\ sends \/ e.wiped
        /\ cacheQuery # NoFindQuery => ~e.wiped
  BY <1>4
<1> HIDE DEF e
<1>6. DataGets(k, e, g, sends, components)
  BY <1>2, <1>5, DataStep
<1>7. k \in Cached(data) => Cached(g) = Cached(data)
  BY <1>5, SameKeys DEF DataAsked
<1>8. ContentOf(e, requests') = cacheQuery
  BY <1>2, <1>5, <1>6 DEF ContentOf, DataGets
<1>9. DataTaken(k, components)
  BY <1>5, <1>6, <1>7 DEF DataTaken, DataGets
<1>10. QED
  BY <1>6, <1>8, <1>9 DEF DataGets

(***************************************************************************)
(* The loops of a handler: each step keeps the invariant.                  *)
(***************************************************************************)

\* A loop over P is at page p.
LoopAt(name, P, rest, p) ==
  /\ AtWork(work, name, P, rest, DOMAIN mounted, middle, PreloadPages, Cached(data))
  /\ name \in JobNames /\ P \in SomePages /\ Follows(rest) /\ Looks(work, name, P, rest)
  /\ Belongs(name, P, rest, DOMAIN mounted, middle, PreloadPages, Cached(data))
  /\ p \in P /\ p \in DocumentPages
  /\ Todo(Done(p), name, P \ {p}, rest)

LEMMA AtNextPage ==
  ASSUME ViewerInv, NEW name \in {"render", "preload", "refresh", "background", "resize"}, Doing(name)
  PROVE  \E P, rest : LoopAt(name, P, rest, NextPage)
<1>1. WorkShape(work, DOMAIN mounted, middle, PreloadPages, Cached(data)) /\ Runs(work, name) /\ CacheInv
  BY DEF ViewerInv, WorkInv, Doing, Runs
<1>2. PICK P, rest : AtWork(work, name, P, rest, DOMAIN mounted, middle, PreloadPages, Cached(data))
  BY <1>1, WorkIs
<1>3. /\ P \in SomePages /\ Follows(rest) /\ Todo(work, name, P, rest) /\ Looks(work, name, P, rest)
      /\ Belongs(name, P, rest, DOMAIN mounted, middle, PreloadPages, Cached(data))
  BY <1>2 DEF AtWork
<1>4. Head(work).pages = P /\ Head(work).job = name
  BY <1>3 DEF Looks
<1>5. /\ name = "background" => CacheInv /\ P \subseteq Cached(data)
      /\ name = "preload" => P \subseteq PreloadPages
  BY <1>1, <1>3 DEF Belongs
<1>6. NextPage \in P /\ NextPage \in DocumentPages
  BY <1>3, <1>4, <1>5, NextPageTaken
<1>7. Todo(Done(NextPage), name, P \ {NextPage}, rest)
  BY <1>3, <1>6, DoneIs, SomePagesAre
<1>8. QED
  BY <1>2, <1>3, <1>6, <1>7 DEF LoopAt, JobNames

\* Neither the highlights nor the pages to preload change in a loop.
LEMMA NavKept ==
  ASSUME UNCHANGED navVars, NavTypeOK, FocusIsAHighlight
  PROVE  NavTypeOK' /\ FocusIsAHighlight' /\ PreloadPages' = PreloadPages
BY DEF navVars, NavTypeOK, FocusIsAHighlight, PreloadPages, HighlightAround

\* What is left after the page.
LEMMA LoopGoesOn ==
  ASSUME ViewerInv, NEW name, NEW P, NEW rest, NEW p, LoopAt(name, P, rest, p), work' = Done(p),
         UNCHANGED <<navVars, middle, pageRange, rangeTimer, throttle, leftBehind, reported, misled>>,
         DOMAIN mounted' = IF name = "render" THEN DOMAIN mounted \cup {p} ELSE DOMAIN mounted,
         name = "background" => Cached(data') = Cached(data)
  PROVE  /\ WorkInv' /\ RangeInv'
         /\ IF P \ {p} = {} THEN work' = rest ELSE Looks(work', name, P \ {p}, rest)
<1>1. /\ name \in JobNames /\ P \in SomePages /\ Follows(rest) /\ Looks(work, name, P, rest) /\ p \in P
      /\ Belongs(name, P, rest, DOMAIN mounted, middle, PreloadPages, Cached(data))
      /\ Todo(work', name, P \ {p}, rest)
  BY DEF LoopAt
<1>2. PreloadPages' = PreloadPages
  BY NavKept DEF ViewerInv
<1>3. /\ rest \in {<<>>, Job("scrolled", {middle}), Job("await", DOMAIN mounted)}
      /\ name = "render" => rest \in {<<>>, Job("scrolled", {middle})}
  BY <1>1 DEF Belongs
<1>4. WorkInv'
  <2>1. P \ {p} \in SUBSET DocumentPages
    BY <1>1, SomePagesAre
  <2>2. Belongs(name, P \ {p}, rest, DOMAIN mounted', middle', PreloadPages', Cached(data'))
    BY <1>1, <1>2 DEF Belongs
  <2>3. rest \in {<<>>, Job("scrolled", {middle'}), Job("await", DOMAIN mounted')}
    BY <1>3
  <2>4. WorkShape(work', DOMAIN mounted', middle', PreloadPages', Cached(data'))
    BY <1>1, <2>1, <2>2, <2>3 DEF WorkShape
  <2>5. QED
    BY <2>4 DEF WorkInv, Cached
<1>5. IF P \ {p} = {} THEN work' = rest ELSE Looks(work', name, P \ {p}, rest)
  BY <1>1, JobThen
<1>6. RenderLeft(work) = IF name = "render" THEN P ELSE {}
  BY <1>1 DEF Looks
<1>7. RenderLeft(work') = IF name = "render" THEN P \ {p} ELSE {}
  <2>1. CASE P \ {p} = {}
    <3>1. AloneIs("scrolled", {middle}) /\ AloneIs("await", DOMAIN mounted)
      BY JobAlone
    <3>2. QED
      BY <1>3, <1>5, <2>1, <3>1, NothingToDo DEF AloneIs
  <2>2. CASE P \ {p} # {}
    BY <1>5, <2>2 DEF Looks
  <2>3. QED
    BY <2>1, <2>2
<1>8. ScrollLast(work') <=> ScrollLast(work)
  <2>1. AloneIs("scrolled", {middle}) /\ AloneIs("await", DOMAIN mounted)
    BY JobAlone
  <2>2. name # "scrolled" /\ rest # <<>> => (ScrollLast(work) <=> rest[1].job = "scrolled")
    BY <1>1 DEF Looks, ScrollLast, Belongs
  <2>3. name # "scrolled" /\ (rest = <<>> => ~ScrollLast(work))
    BY <1>1 DEF Looks, ScrollLast, Belongs
  <2>4. CASE P \ {p} = {}
    <3>1. work' = rest /\ (ScrollLast(rest) <=> rest # <<>> /\ rest[1].job = "scrolled")
      <4>1. \A x : <<x>> # <<>> /\ <<x>>[Len(<<x>>)] = <<x>>[1]
        OBVIOUS
      <4>2. work' = rest
        BY <1>5, <2>4
      <4>3. QED
        BY <1>1, <4>1, <4>2 DEF ScrollLast, Follows
    <3>2. QED
      BY <2>2, <2>3, <3>1
  <2>5. CASE P \ {p} # {}
    BY <1>1, <1>5, <2>2, <2>3, <2>5 DEF Looks, ScrollLast
  <2>6. QED
    BY <2>4, <2>5
<1>9. RangeInv'
  <2>1. /\ DOMAIN mounted \cup RenderLeft(work) = Window(pageRange)
        /\ IF rangeTimer = NoTimer THEN pageRange = reported ELSE rangeTimer = reported
        /\ ~ScrollLast(work) => throttle = "trailing" \/ misled \/ reported = middle
    BY DEF ViewerInv, RangeInv
  <2>2. DOMAIN mounted' \cup RenderLeft(work') = Window(pageRange)
    BY <1>1, <1>6, <1>7, <2>1
  <2>3. QED
    BY <1>8, <2>1, <2>2 DEF RangeInv, Window, Top, Bottom
<1>10. QED
  BY <1>4, <1>5, <1>9

\* What is leftBehind, in the loops that neither make a refresh nor are one.
LEMMA StaleKept ==
  ASSUME StaleInv, Stale' \subseteq Stale, ~lost' => ~lost /\ refreshes' = refreshes,
         \A n \in {"refresh", "await", "background"} : ~Runs(work, n),
         \A n \in {"refresh", "await"} : ~Runs(work', n)
  PROVE  StaleInv'
<1>1. lost \/ Stale = {} \/ RefreshToCome
  BY DEF StaleInv
<1>2. lost' \/ Stale' = {} \/ RefreshToCome'
  BY <1>1 DEF RefreshToCome
<1>3. QED
  BY <1>2 DEF StaleInv

\* The cache of previews after page k was asked for.
PreviewTaken(c, k) ==
  /\ c \in Caches(DocumentPages, Scales) /\ WellFormed(c, MaxCachedPages)
  /\ c.queue = QueueAfter(previews.queue, k, MaxCachedPages)

LEMMA PreviewStep ==
  ASSUME ViewerInv, NEW k \in DocumentPages, NEW size \in Scales
  PROVE  PreviewTaken(GetPreview(k), k) /\ PreviewTaken(Replace(GetPreview(k), k, size, MaxCachedPages), k)
<1>1. /\ previews \in Caches(DocumentPages, Scales) /\ WellFormed(previews, MaxCachedPages)
      /\ cacheSize \in Scales
  BY DEF ViewerInv, CacheInv, SettingsOK
<1> DEFINE got == CacheGet(previews, k, cacheSize, MaxCachedPages)
<1> DEFINE e == IF k \in Cached(previews) THEN previews.entries[k] ELSE cacheSize
<1>2. /\ got \in Caches(DocumentPages, Scales) /\ WellFormed(got, MaxCachedPages)
      /\ Takes(previews, got, k, e, EvictedByGet(previews, k, MaxCachedPages))
      /\ got.queue = QueueAfter(previews.queue, k, MaxCachedPages)
  BY <1>1, GetStep, MaxCachedPagesAssumption
<1> HIDE DEF got, e
<1>3. k \in Cached(got) /\ got.queue # <<>> /\ got.queue[Len(got.queue)] = k
  BY <1>2 DEF Takes
<1>4. /\ Replace(got, k, size, MaxCachedPages) \in Caches(DocumentPages, Scales)
      /\ WellFormed(Replace(got, k, size, MaxCachedPages), MaxCachedPages)
      /\ Replace(got, k, size, MaxCachedPages).queue = got.queue
  BY <1>2, <1>3, ReplaceStep, MaxCachedPagesAssumption
<1>5. QED
  BY <1>2, <1>4 DEF got, GetPreview, PreviewTaken

\* The caches and the pages after a step of a loop.
LEMMA LoopKeeps ==
  ASSUME ViewerInv, NEW k \in DocumentPages, NEW components, DataTaken(k, components), PreviewTaken(previews', k)
  PROVE  PagesOK' /\ CacheInv' /\ PromiseInv'
<1>1. PagesAfter(k, components) /\ PagesOK /\ data.queue = previews.queue
  BY DEF DataTaken, ViewerInv, CacheInv
<1>2. CacheInv'
  BY <1>1 DEF DataTaken, PreviewTaken, CacheInv, WellFormed, Cached
<1>3. QED
  BY <1>1, <1>2 DEF PagesAfter, PagesOK

LEMMA KnownPages ==
  ASSUME ViewerInv
  PROVE  /\ PagesKnown /\ CacheInv /\ requests \in Seq(DataRequests) /\ cacheSize \in Scales /\ scale \in Scales
         /\ data \in Caches(DocumentPages, Promises) /\ lost \in BOOLEAN
         /\ \A p \in DOMAIN mounted : mounted[p] \in PageComponents /\ mounted[p].size \in Scales
<1>1. SettingsOK /\ PagesOK /\ PromiseInv /\ CacheInv
  BY DEF ViewerInv
<1>2. \A p \in DOMAIN mounted : mounted[p] \in PageComponents /\ mounted[p].size \in Scales
  BY <1>1 DEF PagesOK, PageComponents
<1>3. QED
  BY <1>1, <1>2 DEF SettingsOK, PagesOK, PagesKnown, CacheInv

LEMMA RenderPageKeeps ==
  ASSUME ViewerInv, RenderPage
  PROVE  ViewerInv'
<1> DEFINE p == NextPage
<1> DEFINE size == IF GetPreview(p).entries[p] = cacheSize THEN cacheSize ELSE scale
<1> DEFINE components == Given(p, PromiseFor(p), size)
<1>1. /\ Doing("render") /\ cacheSize' = size /\ GetData(p, components) /\ work' = Done(p) /\ JobUnchanged
      /\ previews' = IF GetPreview(p).entries[p] = cacheSize THEN GetPreview(p)
                     ELSE Replace(GetPreview(p), p, size, MaxCachedPages)
  BY DEF RenderPage
<1>2. PICK P, rest : LoopAt("render", P, rest, p)
  BY <1>1, AtNextPage
<1>3. p \in DocumentPages /\ Looks(work, "render", P, rest)
      /\ Belongs("render", P, rest, DOMAIN mounted, middle, PreloadPages, Cached(data))
  BY <1>2 DEF LoopAt
<1>4. size \in Scales
  BY KnownPages
<1>5. PreviewTaken(previews', p)
  BY <1>1, <1>3, <1>4, PreviewStep
<1>6. UNCHANGED <<navVars, scale, timers, throttleVars, middle, jump, lastJump, pageRange, cacheQuery, events>>
      /\ UNCHANGED <<rangeTimer, throttle, leftBehind, reported, misled, zoomTimer>>
  BY <1>1 DEF JobUnchanged, timers, throttleVars
<1>7. PromiseFor(p) \in Promises
  BY KnownPages, PromiseTypes
<1> HIDE DEF size, p
<1>8. DataTaken(p, components) /\ Stale' \subseteq Stale
  BY <1>1, <1>3, <1>4, <1>6, KnownPages, GetDataStep
<1>9. DOMAIN components = DOMAIN mounted \cup {p}
  BY DEF Given
<1> HIDE DEF components
<1>10. DOMAIN mounted' = DOMAIN mounted \cup {p} /\ (~lost' => ~lost /\ refreshes' = refreshes)
  BY <1>8, <1>9 DEF DataTaken, PagesAfter
<1>11. PagesOK' /\ CacheInv' /\ PromiseInv'
  BY <1>3, <1>5, <1>8, LoopKeeps
<1>12. /\ WorkInv' /\ RangeInv'
       /\ IF P \ {p} = {} THEN work' = rest ELSE Looks(work', "render", P \ {p}, rest)
  BY <1>1, <1>2, <1>6, <1>10, LoopGoesOn
<1>13. StaleInv'
  <2>1. \A n \in {"refresh", "await", "background"} : ~Runs(work, n)
    BY <1>3 DEF Looks
  <2>2. \A n \in {"refresh", "await"} : ~Runs(work', n)
    <3>1. AloneIs("scrolled", {middle})
      BY JobAlone
    <3>2. CASE P \ {p} = {}
      BY <1>3, <1>12, <3>1, <3>2, NothingToDo DEF Belongs, AloneIs
    <3>3. CASE P \ {p} # {}
      BY <1>12, <3>3 DEF Looks
    <3>4. QED
      BY <3>2, <3>3
  <2>3. QED
    BY <1>8, <1>10, <2>1, <2>2, StaleKept DEF ViewerInv
<1>14. NavTypeOK' /\ FocusIsAHighlight'
  BY <1>6, NavKept DEF ViewerInv
<1>15. SettingsOK'
  BY <1>1, <1>4, <1>6 DEF ViewerInv, SettingsOK
<1>16. QED
  BY <1>11, <1>12, <1>13, <1>14, <1>15 DEF ViewerInv

LEMMA PreloadPageKeeps ==
  ASSUME ViewerInv, PreloadPage
  PROVE  ViewerInv'
<1> DEFINE p == NextPage
<1>1. /\ Doing("preload") /\ previews' = GetPreview(p) /\ GetData(p, mounted) /\ work' = Done(p)
      /\ UNCHANGED cacheSize /\ JobUnchanged
  BY DEF PreloadPage
<1>2. PICK P, rest : LoopAt("preload", P, rest, p)
  BY <1>1, AtNextPage
<1>3. p \in DocumentPages /\ Looks(work, "preload", P, rest)
      /\ Belongs("preload", P, rest, DOMAIN mounted, middle, PreloadPages, Cached(data))
  BY <1>2 DEF LoopAt
<1>4. PreviewTaken(previews', p)
  BY <1>1, <1>3, KnownPages, PreviewStep
<1>5. UNCHANGED <<navVars, scale, timers, throttleVars, middle, jump, lastJump, pageRange, cacheQuery, events>>
      /\ UNCHANGED <<rangeTimer, throttle, leftBehind, reported, misled, zoomTimer>>
  BY <1>1 DEF JobUnchanged, timers, throttleVars
<1> HIDE DEF p
<1>6. DataTaken(p, mounted) /\ Stale' \subseteq Stale
  BY <1>1, <1>3, <1>5, KnownPages, GetDataStep
<1>7. DOMAIN mounted' = DOMAIN mounted /\ (~lost' => ~lost /\ refreshes' = refreshes)
  BY <1>6 DEF DataTaken, PagesAfter
<1>8. PagesOK' /\ CacheInv' /\ PromiseInv'
  BY <1>3, <1>4, <1>6, LoopKeeps
<1>9. /\ WorkInv' /\ RangeInv'
      /\ IF P \ {p} = {} THEN work' = rest ELSE Looks(work', "preload", P \ {p}, rest)
  BY <1>1, <1>2, <1>5, <1>7, LoopGoesOn
<1>10. StaleInv'
  <2>1. \A n \in {"refresh", "await", "background"} : ~Runs(work, n)
    BY <1>3 DEF Looks
  <2>2. \A n \in {"refresh", "await"} : ~Runs(work', n)
    <3>1. AloneIs("scrolled", {middle})
      BY JobAlone
    <3>2. CASE P \ {p} = {}
      BY <1>3, <1>9, <3>1, <3>2 DEF Belongs, AloneIs
    <3>3. CASE P \ {p} # {}
      BY <1>9, <3>3 DEF Looks
    <3>4. QED
      BY <3>2, <3>3
  <2>3. QED
    BY <1>6, <1>7, <2>1, <2>2, StaleKept DEF ViewerInv
<1>11. NavTypeOK' /\ FocusIsAHighlight'
  BY <1>5, NavKept DEF ViewerInv
<1>12. SettingsOK'
  BY <1>1, <1>5 DEF ViewerInv, SettingsOK
<1>13. QED
  BY <1>8, <1>9, <1>10, <1>11, <1>12 DEF ViewerInv

LEMMA ResizePageKeeps ==
  ASSUME ViewerInv, ResizePage
  PROVE  ViewerInv'
<1> DEFINE p == NextPage
<1> DEFINE components == Given(p, PromiseFor(p), cacheSize)
<1>1. /\ Doing("resize") /\ previews' = Replace(GetPreview(p), p, cacheSize, MaxCachedPages)
      /\ GetData(p, components) /\ work' = Done(p) /\ UNCHANGED cacheSize /\ JobUnchanged
  BY DEF ResizePage
<1>2. PICK P, rest : LoopAt("resize", P, rest, p)
  BY <1>1, AtNextPage
<1>3. p \in DocumentPages /\ p \in DOMAIN mounted /\ rest = <<>> /\ Looks(work, "resize", P, rest)
  BY <1>2 DEF LoopAt, Belongs
<1>4. PreviewTaken(previews', p)
  BY <1>1, <1>3, KnownPages, PreviewStep
<1>5. UNCHANGED <<navVars, scale, timers, throttleVars, middle, jump, lastJump, pageRange, cacheQuery, events>>
      /\ UNCHANGED <<rangeTimer, throttle, leftBehind, reported, misled, zoomTimer>>
  BY <1>1 DEF JobUnchanged, timers, throttleVars
<1> HIDE DEF p
<1>6. DataTaken(p, components) /\ Stale' \subseteq Stale
  BY <1>1, <1>3, <1>5, KnownPages, GetDataStep
<1>7. DOMAIN components = DOMAIN mounted
  BY <1>3 DEF Given
<1> HIDE DEF components
<1>8. DOMAIN mounted' = DOMAIN mounted /\ (~lost' => ~lost /\ refreshes' = refreshes)
  BY <1>6, <1>7 DEF DataTaken, PagesAfter
<1>9. PagesOK' /\ CacheInv' /\ PromiseInv'
  BY <1>3, <1>4, <1>6, LoopKeeps
<1>10. /\ WorkInv' /\ RangeInv'
       /\ IF P \ {p} = {} THEN work' = rest ELSE Looks(work', "resize", P \ {p}, rest)
  BY <1>1, <1>2, <1>5, <1>8, LoopGoesOn
<1>11. StaleInv'
  <2>1. \A n \in {"refresh", "await", "background"} : ~Runs(work, n)
    BY <1>3 DEF Looks
  <2>2. \A n \in {"refresh", "await"} : ~Runs(work', n)
    BY <1>3, <1>10, NothingToDo DEF Looks
  <2>3. QED
    BY <1>6, <1>8, <2>1, <2>2, StaleKept DEF ViewerInv
<1>12. NavTypeOK' /\ FocusIsAHighlight'
  BY <1>5, NavKept DEF ViewerInv
<1>13. SettingsOK'
  BY <1>1, <1>5 DEF ViewerInv, SettingsOK
<1>14. QED
  BY <1>9, <1>10, <1>11, <1>12, <1>13 DEF ViewerInv

\* A refresh of the pages on screen leaves none of them leftBehind; one of the others
\* leaves no page leftBehind at all.
LEMMA RefreshPageKeeps ==
  ASSUME ViewerInv, RefreshPage
  PROVE  ViewerInv'
<1> DEFINE p == NextPage
<1> DEFINE components == IF Doing("refresh") THEN Given(p, RefreshedPromise(p), mounted[p].size) ELSE mounted
<1>1. /\ Doing("refresh") \/ Doing("background")
      /\ previews' = GetPreview(p) /\ RefreshData(p, components) /\ work' = Done(p)
      /\ UNCHANGED cacheSize /\ JobUnchanged
  BY DEF RefreshPage
<1>2. PICK name \in {"refresh", "background"} : Doing(name)
  BY <1>1
<1>3. PICK P, rest : LoopAt(name, P, rest, p)
  BY <1>2, AtNextPage
<1>4. /\ p \in P /\ p \in DocumentPages /\ Looks(work, name, P, rest)
      /\ name = "refresh" => P \subseteq DOMAIN mounted /\ rest = Job("await", DOMAIN mounted)
      /\ name = "background" => P \subseteq Cached(data) /\ rest = <<>>
  BY <1>3 DEF LoopAt, Belongs
<1>5. Doing("refresh") <=> name = "refresh"
  BY <1>4 DEF Doing, Looks, Runs
<1>6. PreviewTaken(previews', p)
  BY <1>1, <1>4, KnownPages, PreviewStep
<1>7. UNCHANGED <<navVars, scale, timers, throttleVars, middle, jump, lastJump, pageRange, cacheQuery, events>>
      /\ UNCHANGED <<rangeTimer, throttle, leftBehind, reported, misled, zoomTimer>>
  BY <1>1 DEF JobUnchanged, timers, throttleVars
<1>8. components = mounted \/ \E size \in Scales : components = Given(p, RefreshedPromise(p), size)
  <2>1. name = "refresh" => mounted[p].size \in Scales
    BY <1>4, KnownPages
  <2>2. QED
    BY <1>5, <2>1
<1>9. DOMAIN components = DOMAIN mounted
  BY <1>4, <1>5 DEF Given
<1> HIDE DEF p, components
<1>10. DataTaken(p, components) /\ Stale' \subseteq Stale \ {p}
  BY <1>1, <1>4, <1>7, <1>8, KnownPages, RefreshDataStep
<1>11. DOMAIN mounted' = DOMAIN mounted /\ (~lost' => ~lost /\ refreshes' = refreshes)
       /\ (name = "background" => Cached(data') = Cached(data))
  BY <1>4, <1>9, <1>10 DEF DataTaken, PagesAfter
<1>12. PagesOK' /\ CacheInv' /\ PromiseInv'
  BY <1>4, <1>6, <1>10, LoopKeeps
<1>13. /\ WorkInv' /\ RangeInv'
       /\ IF P \ {p} = {} THEN work' = rest ELSE Looks(work', name, P \ {p}, rest)
  BY <1>1, <1>3, <1>7, <1>11, LoopGoesOn
<1>14. StaleInv'
  <2>1. CASE name = "refresh"
    <3>1. Stale \cap DOMAIN mounted \subseteq P
      BY <1>4, <2>1 DEF ViewerInv, StaleInv, Looks
    <3>2. Stale' \cap DOMAIN mounted' \subseteq P \ {p}
      BY <1>10, <1>11, <3>1
    <3>3. CASE P \ {p} = {}
      <4>1. DOMAIN mounted # {} /\ work' = Job("await", DOMAIN mounted)
        BY <1>4, <1>13, <2>1, <3>3
      <4>2. AloneIs("await", DOMAIN mounted)
        BY JobAlone
      <4>3. Runs(work', "await") /\ ~Runs(work', "refresh")
        BY <4>1, <4>2 DEF AloneIs, Runs
      <4>4. QED
        BY <3>2, <3>3, <4>3 DEF StaleInv
    <3>4. CASE P \ {p} # {}
      <4>1. Runs(work', "refresh") /\ Head(work').pages = P \ {p}
        BY <1>13, <2>1, <3>4 DEF Looks
      <4>2. QED
        BY <3>2, <4>1 DEF StaleInv
    <3>5. QED
      BY <3>3, <3>4
  <2>2. CASE name = "background"
    <3>1. lost \/ Stale = {} \/ RefreshToCome \/ Stale \subseteq P
      BY <1>4, <2>2 DEF ViewerInv, StaleInv, Looks
    <3>2. lost' \/ Stale' = {} \/ RefreshToCome' \/ Stale' \subseteq P \ {p}
      BY <1>10, <1>11, <3>1 DEF RefreshToCome
    <3>3. CASE P \ {p} = {}
      <4>1. work' = <<>>
        BY <1>4, <1>13, <2>2, <3>3
      <4>2. QED
        BY <3>2, <3>3, <4>1, NothingToDo DEF StaleInv
    <3>4. CASE P \ {p} # {}
      <4>1. Runs(work', "background") /\ Head(work').pages = P \ {p} /\ ~Runs(work', "refresh") /\ ~Runs(work', "await")
        BY <1>13, <2>2, <3>4 DEF Looks
      <4>2. QED
        BY <3>2, <4>1 DEF StaleInv
    <3>5. QED
      BY <3>3, <3>4
  <2>3. QED
    BY <2>1, <2>2
<1>15. NavTypeOK' /\ FocusIsAHighlight'
  BY <1>7, NavKept DEF ViewerInv
<1>16. SettingsOK'
  BY <1>1, <1>7 DEF ViewerInv, SettingsOK
<1>17. QED
  BY <1>12, <1>13, <1>14, <1>15, <1>16 DEF ViewerInv

(***************************************************************************)
(* Events: what a handler starts, and what it leaves as it is.             *)
(***************************************************************************)

LEMMA WindowIs ==
  ASSUME NEW m \in DocumentPages
  PROVE  m \in Window(m) /\ Window(m) \subseteq DocumentPages
BY NumPagesAssumption, DistancesAssumption DEF Window, Top, Bottom, DocumentPages

LEMMA IdleIs ==
  ASSUME ViewerInv, work = <<>>
  PROVE  /\ DOMAIN mounted = Window(pageRange) /\ DOMAIN mounted # {} /\ DOMAIN mounted \subseteq DocumentPages
         /\ IF rangeTimer = NoTimer THEN pageRange = reported ELSE rangeTimer = reported
         /\ throttle = "trailing" \/ misled \/ reported = middle
         /\ lost \/ Stale = {} \/ RefreshToCome
<1>1. pageRange \in DocumentPages /\ DOMAIN mounted \subseteq DocumentPages
  BY DEF ViewerInv, SettingsOK, PagesOK
<1>2. pageRange \in Window(pageRange)
  BY <1>1, WindowIs
<1>3. RangeInv /\ StaleInv
  BY DEF ViewerInv
<1>4. ~ScrollLast(work) /\ RenderLeft(work) = {} /\ \A n : ~Runs(work, n)
  BY NothingToDo
<1>5. DOMAIN mounted = Window(pageRange)
  BY <1>3, <1>4 DEF RangeInv
<1>6. /\ IF rangeTimer = NoTimer THEN pageRange = reported ELSE rangeTimer = reported
      /\ throttle = "trailing" \/ misled \/ reported = middle
  BY <1>3, <1>4 DEF RangeInv
<1>7. lost \/ Stale = {} \/ RefreshToCome
  BY <1>3, <1>4 DEF StaleInv
<1>8. QED
  BY <1>1, <1>2, <1>5, <1>6, <1>7

Started(w, shown, m, preloads, cached, name, P, rest) ==
  /\ WorkShape(w, shown, m, preloads, cached)
  /\ rest = Job("scrolled", {m}) => ScrollLast(w)
  /\ RenderLeft(w) = IF name = "render" THEN P ELSE {}
  /\ \A n : Runs(w, n) => (P # {} /\ n = name) \/ (P = {} /\ Runs(rest, n))
  /\ P # {} => Runs(w, name) /\ Head(w).pages = P

LEMMA Starts ==
  ASSUME NEW w, NEW shown, NEW m, NEW preloads, NEW cached, NEW name \in JobNames, NEW P \in SUBSET DocumentPages,
         NEW rest \in {<<>>, Job("scrolled", {m}), Job("await", shown)}, Todo(w, name, P, rest),
         Belongs(name, P, rest, shown, m, preloads, cached)
  PROVE  Started(w, shown, m, preloads, cached, name, P, rest)
<1>1. WorkShape(w, shown, m, preloads, cached)
  BY DEF WorkShape
<1>2. AloneIs("scrolled", {m}) /\ AloneIs("await", shown)
  BY JobAlone
<1>3. Follows(rest)
  BY <1>2, NothingToDo DEF AloneIs
<1>4. IF P = {} THEN w = rest ELSE Looks(w, name, P, rest)
  BY <1>3, JobThen
<1>5. CASE P = {}
  BY <1>1, <1>2, <1>4, <1>5, NothingToDo DEF AloneIs, Started
<1>6. CASE P # {}
  <2>1. Looks(w, name, P, rest)
    BY <1>4, <1>6
  <2>2. rest = Job("scrolled", {m}) => rest # <<>> /\ rest[1].job = "scrolled"
    BY <1>2 DEF AloneIs
  <2>3. QED
    BY <1>1, <1>6, <2>1, <2>2 DEF Looks, ScrollLast, Started
<1>7. QED
  BY <1>5, <1>6

\* The pages when the caches stay and some pages may have left the window.
LEMMA PagesKept ==
  ASSUME ViewerInv, UNCHANGED <<previews, data, requests>>, NEW D, D \subseteq DOMAIN mounted,
         mounted' = [p \in D |-> mounted[p]]
  PROVE  /\ CacheInv' /\ PromiseInv' /\ requests' \in Seq(DataRequests)
         /\ DOMAIN mounted' = D /\ D \subseteq DocumentPages /\ mounted' \in [DOMAIN mounted' -> PageComponents]
<1>1. CacheInv /\ PromiseInv /\ PagesOK
  BY DEF ViewerInv
<1>2. CacheInv'
  BY <1>1 DEF CacheInv, WellFormed, Cached
<1>3. AllKnown(data', requests')
  BY <1>1 DEF PromiseInv
<1>4. \A p \in D : SoundPage(mounted'[p], p, data', requests')
  BY <1>1 DEF PromiseInv
<1>5. PromiseInv'
  BY <1>3, <1>4 DEF PromiseInv, AllKnown, SoundPage, ContentOf, Cached
<1>6. QED
  BY <1>1, <1>2, <1>5 DEF PagesOK

LEMMA StaleSame ==
  ASSUME UNCHANGED <<data, requests, cacheQuery>>
  PROVE  Stale' = Stale
BY DEF Stale, Content, Cached

\* An event that touches no page.
LEMMA EventKeeps ==
  ASSUME ViewerInv, work = <<>>, UNCHANGED <<previews, data, requests, cacheQuery, mounted, refreshes, lost>>,
         NavTypeOK', FocusIsAHighlight', SettingsOK', WorkInv', RangeInv',
         \A n \in {"refresh", "await"} : ~Runs(work', n)
  PROVE  ViewerInv'
<1>1. mounted = [p \in DOMAIN mounted |-> mounted[p]] /\ PagesOK
  BY DEF ViewerInv, PagesOK
<1>2. CacheInv' /\ PromiseInv' /\ requests' \in Seq(DataRequests)
  BY <1>1, PagesKept
<1>3. PagesOK'
  BY <1>1 DEF PagesOK
<1>4. Stale' = Stale /\ (RefreshToCome' <=> RefreshToCome)
  BY StaleSame DEF RefreshToCome
<1>5. StaleInv'
  BY <1>4, IdleIs DEF StaleInv
<1>6. QED
  BY <1>2, <1>3, <1>5 DEF ViewerInv

\* An event that moves the viewport; the scroll is handled last.
LEMMA ScrollKeeps ==
  ASSUME ViewerInv, work = <<>>,
         UNCHANGED <<previews, data, requests, cacheQuery, mounted, refreshes, lost, pageRange, rangeTimer,
                     reported>>,
         NavTypeOK', FocusIsAHighlight', SettingsOK',
         NEW name \in {"render", "preload"}, NEW P \in SUBSET DocumentPages,
         name = "render" => P \subseteq Window(pageRange), name = "preload" => P \subseteq PreloadPages',
         Todo(work', name, P, Job("scrolled", {middle'}))
  PROVE  ViewerInv'
<1> DEFINE rest == Job("scrolled", {middle'})
<1>1. name \in JobNames /\ Belongs(name, P, rest, DOMAIN mounted', middle', PreloadPages', Cached(data'))
  BY DEF JobNames, Belongs
<1>0. Started(work', DOMAIN mounted', middle', PreloadPages', Cached(data'), name, P, rest)
  BY <1>1, Starts
<1>2. /\ WorkShape(work', DOMAIN mounted', middle', PreloadPages', Cached(data'))
      /\ ScrollLast(work')
      /\ RenderLeft(work') = IF name = "render" THEN P ELSE {}
      /\ \A n : Runs(work', n) => (P # {} /\ n = name) \/ (P = {} /\ Runs(rest, n))
  BY <1>0 DEF Started
<1>3. AloneIs("scrolled", {middle'})
  BY JobAlone
<1>4. \A n \in {"refresh", "await"} : ~Runs(work', n)
  BY <1>2, <1>3 DEF AloneIs
<1>5. WorkInv'
  BY <1>2 DEF WorkInv, Cached
<1>6. RangeInv'
  BY <1>2, IdleIs DEF RangeInv, Window, Top, Bottom
<1>7. QED
  BY <1>4, <1>5, <1>6, EventKeeps

LEMMA WrappedIs ==
  ASSUME NEW n \in Nat, NEW f \in Nat, f # 0, f <= n, NEW offset \in 0..5
  PROVE  Wrapped(f + n * 3 + offset - 3, n) \in 1..n
<1> DEFINE i == f + n * 3 + offset - 3 - 1
<1>1. i \in Nat /\ n > 0
  OBVIOUS
<1> HIDE DEF i
<1>2. (i % n) \in 0..(n - 1)
  BY <1>1
<1>3. (i % n) + 1 \in 1..n
  BY <1>2
<1>4. Wrapped(f + n * 3 + offset - 3, n) = (i % n) + 1
  BY DEF Wrapped, i
<1>5. QED
  BY <1>3, <1>4

\* A loop starts from nothing, or the scroll alone.
LEMMA Alone ==
  ASSUME NEW name, NEW P
  PROVE  Todo(Job(name, P), name, P, <<>>) /\ Todo(Job("scrolled", P), "render", {}, Job("scrolled", P))
<1>1. AloneIs(name, P) /\ AloneIs("scrolled", P)
  BY JobAlone
<1>2. Job("render", {}) = <<>>
  BY JobIs
<1>3. <<>> \o Job("scrolled", P) = Job("scrolled", P)
  <2>1. <<>> \o <<>> = <<>> /\ \A x : <<>> \o <<x>> = <<x>>
    OBVIOUS
  <2>2. QED
    BY <1>1, <2>1 DEF AloneIs, Follows
<1>4. QED
  BY <1>1, <1>2, <1>3 DEF AloneIs, Todo

LEMMA ScrollOnlyKeeps ==
  ASSUME ViewerInv, work = <<>>,
         UNCHANGED <<previews, data, requests, cacheQuery, mounted, refreshes, lost, pageRange, rangeTimer,
                     reported>>,
         NavTypeOK', FocusIsAHighlight', SettingsOK', work' = Job("scrolled", {middle'})
  PROVE  ViewerInv'
<1> DEFINE P == {}
<1>1. Todo(work', "render", P, Job("scrolled", {middle'}))
  BY Alone
<1>2. P \in SUBSET DocumentPages /\ P \subseteq Window(pageRange)
  OBVIOUS
<1> HIDE DEF P
<1>3. QED
  BY <1>1, <1>2, ScrollKeeps

LEMMA ScrollEventKeeps ==
  ASSUME ViewerInv, NEW m \in DocumentPages, Scroll(m)
  PROVE  ViewerInv'
<1>1. /\ work = <<>> /\ events' = events + 1 /\ middle' = m /\ work' = Job("scrolled", {m})
      /\ UNCHANGED <<navVars, scale, cacheVars, timers, throttleVars, jump, lastJump, pageRange, mounted,
                     refreshes, lost>>
      /\ UNCHANGED <<cacheSize, cacheQuery, previews, data, requests, zoomTimer, rangeTimer, throttle,
                     leftBehind, reported, misled>>
  BY DEF Scroll, UserEvent, AnEvent, Idle, ScrollTo, cacheVars, timers, throttleVars
<1>2. NavTypeOK' /\ FocusIsAHighlight'
  BY <1>1, NavKept DEF ViewerInv
<1>3. SettingsOK'
  BY <1>1 DEF ViewerInv, SettingsOK
<1>4. QED
  BY <1>1, <1>2, <1>3, ScrollOnlyKeeps

LEMMA JumpToPageKeeps ==
  ASSUME ViewerInv, NEW typed \in 0..(NumPages + 1), JumpToPage(typed)
  PROVE  ViewerInv'
<1> DEFINE m == Clamp(typed)
<1>1. /\ work = <<>> /\ events' = events + 1 /\ middle' = m /\ work' = Job("scrolled", {m})
      /\ jump' = [page |-> m, nonce |-> jump.nonce + 1] /\ lastJump' = jump'.nonce
      /\ UNCHANGED <<navVars, scale, cacheVars, timers, throttleVars, pageRange, mounted, refreshes, lost>>
      /\ UNCHANGED <<cacheSize, cacheQuery, previews, data, requests, zoomTimer, rangeTimer, throttle,
                     leftBehind, reported, misled>>
  BY DEF JumpToPage, UserEvent, AnEvent, Idle, ScrollTo, cacheVars, timers, throttleVars
<1>2. NavTypeOK' /\ FocusIsAHighlight'
  BY <1>1, NavKept DEF ViewerInv
<1>3. m \in DocumentPages
  BY NumPagesAssumption DEF Clamp, DocumentPages
<1> HIDE DEF m
<1>4. jump.nonce \in Nat
  BY DEF ViewerInv, SettingsOK
<1>5. SettingsOK'
  BY <1>1, <1>3, <1>4 DEF ViewerInv, SettingsOK
<1>6. QED
  BY <1>1, <1>2, <1>5, ScrollOnlyKeeps

\* The highlight in focus is on a page of the document.
LEMMA FocusedIs ==
  ASSUME NavTypeOK, FocusIsAHighlight, focusedIndex # 0
  PROVE  highlights[focusedIndex] \in DocumentPages
BY DEF NavTypeOK, FocusIsAHighlight

LEMMA ZoomKeeps ==
  ASSUME ViewerInv, NEW s \in Scales, Zoom(s)
  PROVE  ViewerInv'
<1> DEFINE m == IF focusedIndex = 0 THEN AppliedJump ELSE FocusedPage
<1>1. /\ work = <<>> /\ events' = events + 1 /\ scale' = s
      /\ zoomTimer' = (IF s # cacheSize THEN s ELSE zoomTimer)
      /\ lastJump' = jump.nonce /\ middle' = m
      /\ work' = Job("render", Window(pageRange)) \o Job("scrolled", {m})
      /\ UNCHANGED <<navVars, cacheVars, rangeTimer, reported, misled, jump, pageRange, mounted, refreshes, lost>>
      /\ throttle' = "open" /\ leftBehind' = IF throttle = "trailing" THEN Append(leftBehind, scale) ELSE leftBehind
      /\ UNCHANGED <<cacheSize, cacheQuery, previews, data, requests>>
  BY DEF Zoom, UserEvent, AnEvent, Idle, cacheVars
<1>2. NavTypeOK' /\ FocusIsAHighlight'
  BY <1>1, NavKept DEF ViewerInv
<1>3. SettingsOK /\ NavTypeOK /\ FocusIsAHighlight
  BY DEF ViewerInv
<1>4. m \in DocumentPages
  BY <1>3, FocusedIs DEF SettingsOK, AppliedJump, FocusedPage
<1> HIDE DEF m
<1>9. leftBehind' \in Seq(Scales) /\ throttle' \in ThrottleStates
  <2>1. leftBehind \in Seq(Scales) /\ scale \in Scales
    BY <1>3 DEF SettingsOK
  <2>2. Append(leftBehind, scale) \in Seq(Scales)
    BY <2>1
  <2>3. QED
    BY <1>1, <2>1, <2>2 DEF ThrottleStates
<1>5. SettingsOK'
  BY <1>1, <1>3, <1>4, <1>9 DEF SettingsOK
<1>6. Todo(work', "render", Window(pageRange), Job("scrolled", {middle'}))
  BY <1>1 DEF Todo
<1>7. Window(pageRange) \in SUBSET DocumentPages
  BY <1>3, WindowIs DEF SettingsOK
<1>8. QED
  BY <1>1, <1>2, <1>5, <1>6, <1>7, ScrollKeeps

LEMMA PreloadsInDocument ==
  ASSUME NavTypeOK', FocusIsAHighlight'
  PROVE  PreloadPages' \in SUBSET DocumentPages
<1>1. CASE focusedIndex' = 0
  BY <1>1 DEF PreloadPages
<1>2. CASE focusedIndex' # 0
  <2>1. highlights' \in Seq(DocumentPages) /\ focusedIndex' \in Nat /\ focusedIndex' <= Len(highlights')
    BY DEF NavTypeOK, FocusIsAHighlight
  <2>2. ASSUME NEW offset \in 0..5 PROVE HighlightAround(offset)' \in DocumentPages
    <3>1. Wrapped(focusedIndex' + Len(highlights') * 3 + offset - 3, Len(highlights')) \in 1..Len(highlights')
      <4> DEFINE n == Len(highlights')
      <4> DEFINE f == focusedIndex'
      <4>1. n \in Nat /\ f \in Nat /\ f # 0 /\ f <= n
        BY <1>2, <2>1
      <4> HIDE DEF n, f
      <4>2. Wrapped(f + n * 3 + offset - 3, n) \in 1..n
        BY <4>1, WrappedIs
      <4>3. QED
        BY <4>2 DEF n, f
    <3>2. HighlightAround(offset)'
            = highlights'[Wrapped(focusedIndex' + Len(highlights') * 3 + offset - 3, Len(highlights'))]
      BY DEF HighlightAround
    <3>3. QED
      BY <2>1, <3>1, <3>2
  <2>3. QED
    BY <1>2, <2>2 DEF PreloadPages
<1>3. QED
  BY <1>1, <1>2

LEMMA StepKeeps ==
  ASSUME ViewerInv, StepToHighlight
  PROVE  ViewerInv'
<1>1. /\ work = <<>> /\ events' = events + 1 /\ middle' = highlights[focusedIndex']
      /\ work' = Job("preload", PreloadPages') \o Job("scrolled", {middle'})
      /\ JumpToNext \/ JumpToPrevious
      /\ UNCHANGED <<scale, cacheVars, timers, throttleVars, jump, lastJump, pageRange, mounted, refreshes, lost>>
      /\ UNCHANGED <<cacheSize, cacheQuery, previews, data, requests, zoomTimer, rangeTimer, throttle,
                     leftBehind, reported, misled>>
  BY DEF StepToHighlight, UserEvent, AnEvent, Idle, cacheVars, timers, throttleVars
<1>2. NavTypeOK /\ FocusIsAHighlight /\ SettingsOK
  BY DEF ViewerInv
<1>3. /\ highlights' = highlights /\ highlights # <<>> /\ focusedIndex' \in 1..Len(highlights)
      /\ UNCHANGED <<query, isPending, inFlight>>
  BY <1>1, <1>2 DEF JumpToNext, JumpToPrevious, NavTypeOK, FocusIsAHighlight
<1>4. NavTypeOK' /\ FocusIsAHighlight'
  BY <1>2, <1>3 DEF NavTypeOK, FocusIsAHighlight
<1>5. middle' \in DocumentPages
  BY <1>1, <1>2, <1>3 DEF NavTypeOK
<1>6. SettingsOK'
  BY <1>1, <1>2, <1>5 DEF SettingsOK
<1>7. Todo(work', "preload", PreloadPages', Job("scrolled", {middle'})) /\ PreloadPages' \in SUBSET DocumentPages
  BY <1>1, <1>4, PreloadsInDocument DEF Todo
<1>8. QED
  BY <1>1, <1>4, <1>6, <1>7, ScrollKeeps

\* Nothing is started: the range and the viewport stay.
LEMMA StillKeeps ==
  ASSUME ViewerInv, work = <<>>, work' = <<>>,
         UNCHANGED <<previews, data, requests, cacheQuery, mounted, refreshes, lost, pageRange, middle, rangeTimer,
                     reported, misled>>,
         throttle = "trailing" => throttle' = "trailing",
         NavTypeOK', FocusIsAHighlight', SettingsOK'
  PROVE  ViewerInv'
<1>1. AloneIs("render", {}) /\ Job("render", {}) = <<>>
  BY JobAlone, JobIs
<1>2. Todo(<<>>, "render", {}, <<>>)
  BY <1>1 DEF AloneIs, Todo
<1>3. WorkInv'
  <2>1. Belongs("render", {}, <<>>, DOMAIN mounted', middle', PreloadPages', Cached(data')) /\ "render" \in JobNames
    BY DEF Belongs, JobNames
  <2>2. Started(work', DOMAIN mounted', middle', PreloadPages', Cached(data'), "render", {}, <<>>)
    BY <1>2, <2>1, Starts
  <2>3. QED
    BY <2>2 DEF Started, WorkInv, Cached
<1>4. RangeInv'
  BY IdleIs, NothingToDo DEF RangeInv, Window, Top, Bottom
<1>5. QED
  BY <1>3, <1>4, EventKeeps, NothingToDo

LEMMA ShowHighlightsKeeps ==
  ASSUME ViewerInv, NEW q \in FindQueries, ShowHighlights(q)
  PROVE  ViewerInv'
<1>1. /\ work = <<>> /\ HighlightsArrive(q)
      /\ middle' = IF focusedIndex' = 0 THEN middle ELSE highlights'[focusedIndex']
      /\ work' = IF focusedIndex' = 0 THEN <<>>
                 ELSE Job("preload", PreloadPages') \o Job("scrolled", {middle'})
      /\ UNCHANGED <<scale, cacheVars, timers, throttleVars, jump, lastJump, pageRange, mounted, refreshes,
                     lost, events>>
      /\ UNCHANGED <<cacheSize, cacheQuery, previews, data, requests, zoomTimer, rangeTimer, throttle,
                     leftBehind, reported, misled>>
  BY DEF ShowHighlights, Idle, cacheVars, timers, throttleVars
<1>2. NavTypeOK /\ SettingsOK
  BY DEF ViewerInv
<1>3. Hits[q] \in Seq(DocumentPages)
  BY HitsAssumption DEF FindQueries
<1>4. highlights' \in Seq(DocumentPages) /\ focusedIndex' \in Nat /\ FocusIsAHighlight'
  <2>1. highlights' = Hits[q] /\ focusedIndex' = IF Len(Hits[q]) > 0 THEN 1 ELSE 0
    BY <1>1 DEF HighlightsArrive, FirstFocus
  <2>2. QED
    BY <1>3, <2>1 DEF FocusIsAHighlight
<1>5. NavTypeOK'
  <2>1. query' = query /\ isPending' = FALSE /\ inFlight' = [inFlight EXCEPT ![q] = @ - 1] /\ inFlight[q] > 0
    BY <1>1 DEF HighlightsArrive
  <2>2. inFlight[q] - 1 \in Nat /\ inFlight \in [FindQueries -> Nat]
    BY <1>2, <2>1 DEF NavTypeOK
  <2>3. inFlight' \in [FindQueries -> Nat]
    BY <2>1, <2>2
  <2>4. QED
    BY <1>2, <1>4, <2>1, <2>3 DEF NavTypeOK
<1>6. middle' \in DocumentPages
  BY <1>1, <1>2, <1>4 DEF FocusIsAHighlight, SettingsOK
<1>7. SettingsOK'
  BY <1>1, <1>2, <1>6 DEF SettingsOK
<1>8. CASE focusedIndex' = 0
  BY <1>1, <1>4, <1>5, <1>7, <1>8, StillKeeps
<1>9. CASE focusedIndex' # 0
  <2>1. Todo(work', "preload", PreloadPages', Job("scrolled", {middle'})) /\ PreloadPages' \in SUBSET DocumentPages
    BY <1>1, <1>4, <1>5, <1>9, PreloadsInDocument DEF Todo
  <2>2. QED
    BY <1>1, <1>4, <1>5, <1>7, <2>1, ScrollKeeps
<1>10. QED
  BY <1>8, <1>9

LEMMA LoseHighlightsKeeps ==
  ASSUME ViewerInv, NEW q \in FindQueries, LoseHighlights(q)
  PROVE  ViewerInv'
<1>1. work = <<>> /\ HighlightsFail(q) /\ UNCHANGED viewerVars
  BY DEF LoseHighlights, Idle
<1>2. /\ UNCHANGED <<scale, cacheSize, zoomTimer, rangeTimer, throttle, leftBehind, reported, misled,
                     cacheQuery, middle, pageRange, jump, lastJump, events>>
      /\ UNCHANGED <<previews, data, requests, cacheQuery, mounted, refreshes, lost, pageRange, middle,
                     rangeTimer, throttle, leftBehind, reported, misled, work>>
  BY <1>1 DEF viewerVars, cacheVars, timers, throttleVars
<1>3. NavTypeOK /\ FocusIsAHighlight /\ SettingsOK
  BY DEF ViewerInv
<1>4. NavTypeOK' /\ FocusIsAHighlight'
  BY <1>1, <1>3 DEF HighlightsFail, NavTypeOK, FocusIsAHighlight
<1>5. SettingsOK'
  BY <1>2, <1>3 DEF SettingsOK
<1>6. QED
  BY <1>1, <1>2, <1>4, <1>5, StillKeeps

\* A find, and a find that is cleared.
LEMMA FindQueryKeeps ==
  ASSUME ViewerInv, work = <<>>, NEW q \in FindQueries \cup {NoFindQuery}, NewFindQuery(q),
         NavTypeOK', FocusIsAHighlight', events' = events + 1,
         UNCHANGED <<scale, cacheSize, previews, data, requests, zoomTimer, rangeTimer, throttle, leftBehind,
                     reported, misled, middle, jump, lastJump,
                     pageRange, mounted, refreshes, lost>>
  PROVE  ViewerInv'
<1>1. SettingsOK /\ PagesOK
  BY DEF ViewerInv
<1>2. CASE q = query
  <2>1. UNCHANGED <<cacheQuery, work>>
    BY <1>2 DEF NewFindQuery
  <2>2. SettingsOK'
    BY <1>1, <2>1 DEF SettingsOK
  <2>3. QED
    BY <2>1, <2>2, StillKeeps
<1>3. CASE q # query
  <2>1. cacheQuery' = q /\ Todo(work', "refresh", DOMAIN mounted, Job("await", DOMAIN mounted))
    BY <1>3 DEF NewFindQuery, Todo
  <2>2. SettingsOK'
    BY <1>1, <2>1 DEF SettingsOK
  <2>3. DOMAIN mounted' \in SUBSET DocumentPages /\ DOMAIN mounted' # {} /\ DOMAIN mounted = DOMAIN mounted'
    BY IdleIs
  <2>4. Started(work', DOMAIN mounted', middle', PreloadPages', Cached(data'), "refresh", DOMAIN mounted',
                Job("await", DOMAIN mounted'))
    <3>1. /\ "refresh" \in JobNames /\ Todo(work', "refresh", DOMAIN mounted', Job("await", DOMAIN mounted'))
          /\ Belongs("refresh", DOMAIN mounted', Job("await", DOMAIN mounted'), DOMAIN mounted', middle',
                     PreloadPages', Cached(data'))
      BY <2>1 DEF JobNames, Belongs
    <3>2. QED
      BY <2>3, <3>1, Starts
  <2>5. WorkInv' /\ RenderLeft(work') = {} /\ Runs(work', "refresh") /\ Head(work').pages = DOMAIN mounted'
    BY <2>3, <2>4 DEF Started, WorkInv, Cached
  <2>6. RangeInv'
    BY <2>3, <2>5, IdleIs DEF RangeInv, Window, Top, Bottom
  <2>7. StaleInv'
    BY <2>5 DEF StaleInv
  <2>8. mounted = [p \in DOMAIN mounted |-> mounted[p]]
    BY <1>1 DEF PagesOK
  <2>9. CacheInv' /\ PromiseInv' /\ PagesOK'
    BY <1>1, <2>8, PagesKept DEF PagesOK
  <2>10. QED
    BY <2>2, <2>5, <2>6, <2>7, <2>9 DEF ViewerInv
<1>4. QED
  BY <1>2, <1>3

LEMMA FindKeeps ==
  ASSUME ViewerInv, NEW q \in FindQueries, Find(q)
  PROVE  ViewerInv'
<1>1. /\ work = <<>> /\ events' = events + 1 /\ FetchHighlights(q) /\ NewFindQuery(q)
      /\ UNCHANGED <<scale, cacheSize, previews, data, requests, zoomTimer, rangeTimer, throttle, leftBehind,
                     reported, misled, middle, jump, lastJump,
                     pageRange, mounted, refreshes, lost>>
  BY DEF Find, UserEvent, AnEvent, Idle, timers, throttleVars
<1>2. NavTypeOK /\ FocusIsAHighlight
  BY DEF ViewerInv
<1>3. inFlight' \in [FindQueries -> Nat]
  <2>1. inFlight' = [inFlight EXCEPT ![q] = @ + 1] /\ inFlight \in [FindQueries -> Nat]
    BY <1>1, <1>2 DEF FetchHighlights, NavTypeOK
  <2>2. QED
    BY <2>1
<1>4. NavTypeOK' /\ FocusIsAHighlight'
  BY <1>1, <1>2, <1>3 DEF FetchHighlights, NavTypeOK, FocusIsAHighlight
<1>5. QED
  BY <1>1, <1>4, FindQueryKeeps

LEMMA ClearFindKeeps ==
  ASSUME ViewerInv, ClearFind
  PROVE  ViewerInv'
<1>1. /\ work = <<>> /\ events' = events + 1 /\ ClearHighlights /\ NewFindQuery(NoFindQuery)
      /\ UNCHANGED <<scale, cacheSize, previews, data, requests, zoomTimer, rangeTimer, throttle, leftBehind,
                     reported, misled, middle, jump, lastJump,
                     pageRange, mounted, refreshes, lost>>
  BY DEF ClearFind, UserEvent, AnEvent, Idle, timers, throttleVars
<1>2. NavTypeOK
  BY DEF ViewerInv
<1>3. highlights' = <<>> /\ focusedIndex' = 0 /\ Len(<<>>) = 0
  BY <1>1 DEF ClearHighlights
<1>4. NavTypeOK' /\ FocusIsAHighlight'
  BY <1>1, <1>2, <1>3 DEF ClearHighlights, NavTypeOK, FocusIsAHighlight
<1>5. QED
  BY <1>1, <1>4, FindQueryKeeps

\* The throttle after a call of handleScroll that works out page m.
Followed(m) ==
  /\ throttle' \in ThrottleStates /\ leftBehind' \in Seq(Scales) /\ misled' \in BOOLEAN
  /\ throttle' = "trailing" \/ misled' \/ m = middle

\* The range moves to the page that is worked out.
LEMMA RangeKeeps ==
  ASSUME ViewerInv, DOMAIN mounted = Window(pageRange), lost \/ Stale = {} \/ RefreshToCome,
         NEW m \in DocumentPages, SetPageRange(m, <<>>), rangeTimer' = NoTimer, reported' = m, Followed(m),
         UNCHANGED <<navVars, scale, cacheSize, cacheQuery, previews, data, requests, zoomTimer, middle, jump,
                     lastJump, refreshes, lost, events>>
  PROVE  ViewerInv'
<1>1. SettingsOK /\ PagesOK
  BY DEF ViewerInv
<1> DEFINE moves == Window(m) # Window(pageRange)
<1>2. /\ pageRange' = m
      /\ mounted' = IF moves THEN [p \in DOMAIN mounted \cap Window(m) |-> mounted[p]] ELSE mounted
      /\ work' = IF moves THEN Job("render", Window(m)) \o <<>> ELSE <<>>
  BY DEF SetPageRange
<1>3. Window(m) \in SUBSET DocumentPages
  BY WindowIs
<1> DEFINE D == IF moves THEN DOMAIN mounted \cap Window(m) ELSE DOMAIN mounted
<1> DEFINE P == IF moves THEN Window(m) ELSE {}
<1>4. mounted' = [p \in D |-> mounted[p]] /\ D \subseteq DOMAIN mounted
  BY <1>1, <1>2 DEF PagesOK
<1>5. Todo(work', "render", P, <<>>)
  <2>1. Job("render", {}) = <<>> /\ <<>> \o <<>> = <<>>
    BY JobIs, NothingToDo
  <2>2. QED
    BY <1>2, <2>1 DEF Todo
<1>6. D \cup P = Window(m) /\ P \in SUBSET DocumentPages
  BY <1>3
<1> HIDE DEF moves, D, P
<1>7. CacheInv' /\ PromiseInv' /\ PagesOK' /\ DOMAIN mounted' = D
  BY <1>1, <1>4, PagesKept DEF PagesOK
<1>8. Started(work', DOMAIN mounted', middle', PreloadPages', Cached(data'), "render", P, <<>>)
  <2>1. Belongs("render", P, <<>>, DOMAIN mounted', middle', PreloadPages', Cached(data')) /\ "render" \in JobNames
    BY DEF Belongs, JobNames
  <2>2. QED
    BY <1>5, <1>6, <2>1, Starts
<1>9. /\ WorkInv' /\ RenderLeft(work') = P
      /\ \A n \in {"refresh", "await"} : ~Runs(work', n)
  BY <1>8, NothingToDo DEF Started, WorkInv, Cached
<1>10. RangeInv'
  BY <1>2, <1>6, <1>7, <1>9 DEF RangeInv, Followed, Window, Top, Bottom
<1>11. StaleInv'
  <2>1. Stale' = Stale /\ (RefreshToCome' <=> RefreshToCome)
    BY StaleSame DEF RefreshToCome
  <2>2. QED
    BY <1>9, <2>1 DEF StaleInv
<1>12. NavTypeOK' /\ FocusIsAHighlight'
  BY NavKept DEF ViewerInv
<1>13. SettingsOK'
  BY <1>1, <1>2 DEF SettingsOK, Followed
<1>14. QED
  BY <1>7, <1>9, <1>10, <1>11, <1>12, <1>13 DEF ViewerInv

LEMMA RangeTimerKeeps ==
  ASSUME ViewerInv, RangeTimerFires
  PROVE  ViewerInv'
<1>1. /\ work = <<>> /\ rangeTimer # NoTimer /\ rangeTimer' = NoTimer /\ SetPageRange(rangeTimer, <<>>)
      /\ UNCHANGED <<throttle, leftBehind, reported, misled>>
      /\ UNCHANGED <<navVars, scale, cacheSize, cacheQuery, previews, data, requests, zoomTimer, middle, jump,
                     lastJump, refreshes, lost, events>>
  BY DEF RangeTimerFires, Idle, cacheVars, throttleVars
<1>2. /\ rangeTimer = reported /\ DOMAIN mounted = Window(pageRange) /\ (lost \/ Stale = {} \/ RefreshToCome)
      /\ throttle = "trailing" \/ misled \/ reported = middle
  BY <1>1, IdleIs
<1>3. SetPageRange(reported, <<>>) /\ reported' = reported
  BY <1>1, <1>2
<1>4. Followed(reported) /\ reported \in DocumentPages
  BY <1>1, <1>2 DEF Followed, ViewerInv, SettingsOK
<1>5. QED
  BY <1>1, <1>2, <1>3, <1>4, RangeKeeps

\* A handler ends that has moved nothing.
LEMMA PutOffKeeps ==
  ASSUME ViewerInv, DOMAIN mounted = Window(pageRange), lost \/ Stale = {} \/ RefreshToCome,
         work' = <<>>, rangeTimer' \in DocumentPages \cup {NoTimer}, NEW m \in DocumentPages, reported' = m,
                   Followed(m),
         IF rangeTimer' = NoTimer THEN pageRange = m ELSE rangeTimer' = m,
         UNCHANGED <<navVars, scale, cacheSize, cacheQuery, previews, data, requests, zoomTimer, middle, jump,
                     lastJump, pageRange, mounted, refreshes, lost, events>>
  PROVE  ViewerInv'
<1>1. SettingsOK /\ PagesOK
  BY DEF ViewerInv
<1>2. Todo(<<>>, "render", {}, <<>>)
  BY JobIs, NothingToDo DEF Todo
<1>3. Started(work', DOMAIN mounted', middle', PreloadPages', Cached(data'), "render", {}, <<>>)
  <2>1. Belongs("render", {}, <<>>, DOMAIN mounted', middle', PreloadPages', Cached(data')) /\ "render" \in JobNames
    BY DEF Belongs, JobNames
  <2>2. QED
    BY <1>2, <2>1, Starts
<1>4. WorkInv'
  BY <1>3 DEF Started, WorkInv, Cached
<1>5. RangeInv'
  BY NothingToDo DEF RangeInv, Followed, Window, Top, Bottom
<1>6. mounted = [p \in DOMAIN mounted |-> mounted[p]]
  BY <1>1 DEF PagesOK
<1>7. CacheInv' /\ PromiseInv' /\ PagesOK'
  BY <1>1, <1>6, PagesKept DEF PagesOK
<1>8. StaleInv'
  <2>1. Stale' = Stale /\ (RefreshToCome' <=> RefreshToCome)
    BY StaleSame DEF RefreshToCome
  <2>2. QED
    BY <2>1, NothingToDo DEF StaleInv
<1>9. NavTypeOK' /\ FocusIsAHighlight'
  BY NavKept DEF ViewerInv
<1>10. SettingsOK'
  BY <1>1 DEF SettingsOK, Followed
<1>11. QED
  BY <1>4, <1>5, <1>7, <1>8, <1>9, <1>10 DEF ViewerInv

\* A call of handleScroll moves the range, or puts that off.
LEMMA SetRangeKeeps ==
  ASSUME ViewerInv, DOMAIN mounted = Window(pageRange), lost \/ Stale = {} \/ RefreshToCome,
         NEW m \in DocumentPages, SetRangeFromScrollPosition(m, <<>>),
         throttle' \in ThrottleStates, leftBehind' \in Seq(Scales)
  PROVE  ViewerInv'
<1> DEFINE far == Distance(m, pageRange) > SmoothDistance
<1>1. /\ rangeTimer' = IF far THEN m ELSE NoTimer
      /\ IF far THEN work' = <<>> /\ UNCHANGED <<pageRange, mounted>> ELSE SetPageRange(m, <<>>)
      /\ reported' = m /\ misled' = (m # middle)
      /\ UNCHANGED <<navVars, scale, cacheSize, cacheQuery, previews, data, requests, zoomTimer, middle, jump,
                     lastJump, refreshes, lost, events>>
  BY DEF SetRangeFromScrollPosition, cacheVars
<1>2. Followed(m)
  BY <1>1 DEF Followed
<1> HIDE DEF far
<1>3. CASE ~far
  BY <1>1, <1>2, <1>3, RangeKeeps
<1>4. CASE far
  <2>1. m # NoTimer
    BY NoTimerAssumption DEF DocumentPages
  <2>2. rangeTimer' = m /\ rangeTimer' \in DocumentPages \cup {NoTimer}
        /\ work' = <<>> /\ UNCHANGED <<pageRange, mounted>>
    BY <1>1, <1>4
  <2>3. IF rangeTimer' = NoTimer THEN pageRange = m ELSE rangeTimer' = m
    BY <2>1, <2>2
  <2>4. QED
    BY <1>1, <1>2, <2>2, <2>3, PutOffKeeps
<1>5. QED
  BY <1>3, <1>4

\* The scroll that is handled last is that of the viewport.
LEMMA ScrolledIs ==
  ASSUME ViewerInv, Doing("scrolled")
  PROVE  /\ NextPage = middle /\ Tail(work) = <<>> /\ DOMAIN mounted = Window(pageRange)
         /\ lost \/ Stale = {} \/ RefreshToCome
<1>1. WorkShape(work, DOMAIN mounted, middle, PreloadPages, Cached(data)) /\ Runs(work, "scrolled")
  BY DEF ViewerInv, WorkInv, Doing, Runs
<1>2. work = Job("scrolled", {middle})
  <2>1. PICK P, rest : AtWork(work, "scrolled", P, rest, DOMAIN mounted, middle, PreloadPages, Cached(data))
    BY <1>1, WorkIs
  <2>2. QED
    BY <2>1 DEF AtWork, Belongs
<1>3. AloneIs("scrolled", {middle})
  BY JobAlone
<1>4. /\ Head(work) = [job |-> "scrolled", pages |-> {middle}] /\ Tail(work) = <<>> /\ RenderLeft(work) = {}
      /\ \A n \in {"refresh", "await", "background"} : ~Runs(work, n)
  BY <1>2, <1>3 DEF AloneIs
<1>5. {middle} \in SomePages
  BY SomePagesAre DEF ViewerInv, SettingsOK
<1>6. NextPage = middle
  <2> DEFINE P == {middle}
  <2>1. P \in SomePages /\ Head(work).pages = P /\ Head(work).job = "scrolled"
    BY <1>4, <1>5
  <2> HIDE DEF P
  <2>2. NextPage \in P
    BY <2>1, NextPageTaken
  <2>3. QED
    BY <2>2 DEF P
<1>7. DOMAIN mounted = Window(pageRange) /\ (lost \/ Stale = {} \/ RefreshToCome)
  BY <1>4 DEF ViewerInv, RangeInv, StaleInv
<1>8. QED
  BY <1>4, <1>6, <1>7

LEMMA HandleScrollKeeps ==
  ASSUME ViewerInv, HandleScroll
  PROVE  ViewerInv'
<1>1. /\ NextPage = middle /\ Tail(work) = <<>> /\ DOMAIN mounted = Window(pageRange)
      /\ lost \/ Stale = {} \/ RefreshToCome
  BY ScrolledIs DEF HandleScroll
<1>2. SettingsOK /\ leftBehind' = leftBehind /\ RangeInv
  BY DEF ViewerInv, HandleScroll
<1>3. CASE throttle = "open"
  <2>1. throttle' = "shut" /\ SetRangeFromScrollPosition(NextPage, Tail(work))
    BY <1>3 DEF HandleScroll
  <2>2. SetRangeFromScrollPosition(middle, <<>>)
    BY <1>1, <2>1
  <2>3. throttle' \in ThrottleStates /\ leftBehind' \in Seq(Scales) /\ middle \in DocumentPages
    BY <1>2, <2>1 DEF SettingsOK, ThrottleStates
  <2>4. QED
    BY <1>1, <2>2, <2>3, SetRangeKeeps
<1>4. CASE throttle # "open"
  <2>1. /\ throttle' = "trailing" /\ work' = <<>>
        /\ UNCHANGED <<rangeTimer, reported, misled>>
        /\ UNCHANGED <<navVars, scale, cacheSize, cacheQuery, previews, data, requests, zoomTimer, middle, jump,
                       lastJump, pageRange, mounted, refreshes, lost, events>>
    BY <1>1, <1>4 DEF HandleScroll, cacheVars, timers
  <2>2. Followed(reported)
    BY <1>2, <2>1 DEF Followed, SettingsOK, ThrottleStates
  <2>3. IF rangeTimer' = NoTimer THEN pageRange = reported ELSE rangeTimer' = reported
    BY <1>2, <2>1 DEF RangeInv
  <2>4. rangeTimer' \in DocumentPages \cup {NoTimer} /\ reported \in DocumentPages /\ reported' = reported
    BY <1>2, <2>1 DEF SettingsOK
  <2>5. QED
    BY <1>1, <2>1, <2>2, <2>3, <2>4, PutOffKeeps
<1>5. QED
  BY <1>3, <1>4

LEMMA ThrottleEndsKeeps ==
  ASSUME ViewerInv, ThrottleEnds
  PROVE  ViewerInv'
<1>1. /\ DOMAIN mounted = Window(pageRange) /\ (lost \/ Stale = {} \/ RefreshToCome)
      /\ work = <<>> /\ leftBehind' = leftBehind /\ SettingsOK
  BY IdleIs DEF ThrottleEnds, Idle, ViewerInv
<1>2. CASE throttle = "trailing"
  <2>1. throttle' = "shut" /\ SetRangeFromScrollPosition(middle, <<>>)
    BY <1>2 DEF ThrottleEnds
  <2>2. throttle' \in ThrottleStates /\ leftBehind' \in Seq(Scales) /\ middle \in DocumentPages
    BY <1>1, <2>1 DEF SettingsOK, ThrottleStates
  <2>3. QED
    BY <1>1, <2>1, <2>2, SetRangeKeeps
<1>3. CASE throttle = "shut"
  <2>1. /\ throttle' = "open" /\ work' = <<>>
        /\ UNCHANGED <<navVars, scale, cacheSize, cacheQuery, previews, data, requests, zoomTimer, rangeTimer,
                       reported, misled, middle, jump, lastJump, pageRange, mounted, refreshes, lost, events>>
    BY <1>1, <1>3 DEF ThrottleEnds, cacheVars, timers
  <2>2. NavTypeOK' /\ FocusIsAHighlight'
    BY <2>1, NavKept DEF ViewerInv
  <2>3. SettingsOK'
    BY <1>1, <2>1 DEF SettingsOK, ThrottleStates
  <2>4. QED
    BY <1>1, <1>3, <2>1, <2>2, <2>3, StillKeeps
<1>4. QED
  BY <1>2, <1>3 DEF ThrottleEnds

\* Whatever page a stale call works out, the range is that page's afterwards.
LEMMA StaleScrollKeeps ==
  ASSUME ViewerInv, NEW m \in DocumentPages, StaleScroll(m)
  PROVE  ViewerInv'
<1>1. /\ DOMAIN mounted = Window(pageRange) /\ (lost \/ Stale = {} \/ RefreshToCome)
      /\ leftBehind # <<>> /\ leftBehind' = Tail(leftBehind) /\ throttle' = throttle
      /\ SetRangeFromScrollPosition(m, <<>>)
  BY IdleIs DEF StaleScroll, Idle
<1>2. leftBehind \in Seq(Scales) /\ throttle \in ThrottleStates
  BY DEF ViewerInv, SettingsOK
<1>3. leftBehind' \in Seq(Scales) /\ throttle' \in ThrottleStates
  BY <1>1, <1>2
<1>4. QED
  BY <1>1, <1>3, SetRangeKeeps

LEMMA ZoomTimerKeeps ==
  ASSUME ViewerInv, ZoomTimerFires
  PROVE  ViewerInv'
<1>1. /\ work = <<>> /\ zoomTimer # NoTimer /\ zoomTimer' = NoTimer /\ cacheSize' = zoomTimer
      /\ work' = Job("resize", DOMAIN mounted)
      /\ UNCHANGED <<navVars, scale, cacheQuery, previews, data, requests, rangeTimer, throttle, leftBehind,
                     reported, misled, middle, jump, lastJump,
                     pageRange, mounted, refreshes, lost, events>>
  BY DEF ZoomTimerFires, Idle, throttleVars
<1>2. SettingsOK'
  BY <1>1 DEF ViewerInv, SettingsOK
<1>3. NavTypeOK' /\ FocusIsAHighlight'
  BY <1>1, NavKept DEF ViewerInv
<1>4. DOMAIN mounted' \in SUBSET DocumentPages /\ DOMAIN mounted' = DOMAIN mounted
  BY <1>1, IdleIs
<1>5. Started(work', DOMAIN mounted', middle', PreloadPages', Cached(data'), "resize", DOMAIN mounted', <<>>)
  <2>1. /\ "resize" \in JobNames /\ Todo(work', "resize", DOMAIN mounted', <<>>)
        /\ Belongs("resize", DOMAIN mounted', <<>>, DOMAIN mounted', middle', PreloadPages', Cached(data'))
    BY <1>1, <1>4, Alone DEF Belongs, JobNames
  <2>2. QED
    BY <1>4, <2>1, Starts
<1>6. WorkInv' /\ RenderLeft(work') = {} /\ \A n \in {"refresh", "await"} : ~Runs(work', n)
  BY <1>5, NothingToDo DEF Started, WorkInv, Cached
<1>7. RangeInv'
  BY <1>1, <1>4, <1>6, IdleIs DEF RangeInv, Window, Top, Bottom
<1>8. QED
  BY <1>1, <1>2, <1>3, <1>6, <1>7, EventKeeps

\* What was refreshed is waited for.
LEMMA AwaitKeeps ==
  ASSUME ViewerInv, AwaitPages
  PROVE  ViewerInv'
<1> DEFINE pages == Head(work).pages
<1> DEFINE promises == {mounted[p].data : p \in pages}
<1> DEFINE rejected == \E s \in promises : requests[s.request].state \in {"failed", "aborted"}
<1> DEFINE t == [promises |-> promises, pages |-> pages]
<1>1. /\ Doing("await") /\ lost' = rejected /\ work' = Tail(work)
      /\ refreshes' = IF rejected THEN refreshes ELSE refreshes \cup {t}
      /\ UNCHANGED <<cacheSize, previews, data, requests, mounted>> /\ JobUnchanged
  BY DEF AwaitPages
<1>2. UNCHANGED <<navVars, scale, middle, jump, lastJump, pageRange, cacheQuery, events, rangeTimer,
                  throttle, leftBehind, reported, misled, zoomTimer>>
  BY <1>1 DEF JobUnchanged, timers, throttleVars
<1>3. WorkShape(work, DOMAIN mounted, middle, PreloadPages, Cached(data)) /\ Runs(work, "await")
      /\ SettingsOK /\ PagesOK
  BY <1>1 DEF ViewerInv, WorkInv, Doing, Runs
<1>4. work = Job("await", DOMAIN mounted) /\ DOMAIN mounted # {}
  <2>1. PICK P, rest : AtWork(work, "await", P, rest, DOMAIN mounted, middle, PreloadPages, Cached(data))
    BY <1>3, WorkIs
  <2>2. QED
    BY <2>1 DEF AtWork, Belongs
<1>5. AloneIs("await", DOMAIN mounted)
  BY JobAlone
<1>6. pages = DOMAIN mounted /\ work' = <<>> /\ RenderLeft(work) = {} /\ ~ScrollLast(work)
      /\ ~Runs(work, "refresh")
  BY <1>1, <1>4, <1>5 DEF AloneIs
<1>7. t \in Refreshes
  <2>1. \A p \in DOMAIN mounted : mounted[p].data \in Promises
    BY <1>3 DEF PagesOK, PageComponents
  <2>2. promises \in SUBSET Promises /\ pages \in SUBSET DocumentPages
    BY <1>3, <1>6, <2>1 DEF PagesOK
  <2>3. QED
    BY <2>2 DEF Refreshes
<1> HIDE DEF promises, rejected, t
<1>8. t.pages = DOMAIN mounted
  BY <1>6 DEF t
<1>9. Stale \cap DOMAIN mounted = {}
  BY <1>3, <1>6 DEF ViewerInv, StaleInv
<1>10. Stale' = Stale
  BY <1>1, <1>2, StaleSame
<1>11. StaleInv'
  <2>1. rejected \/ RefreshToCome'
    BY <1>1, <1>8, <1>9, <1>10 DEF RefreshToCome
  <2>2. QED
    BY <1>1, <1>6, <2>1, NothingToDo DEF StaleInv
<1>12. lost' \in BOOLEAN
  BY <1>1 DEF rejected
<1>13. mounted = [p \in DOMAIN mounted |-> mounted[p]]
  BY <1>3 DEF PagesOK
<1>14. CacheInv' /\ PromiseInv' /\ PagesOK'
  BY <1>1, <1>3, <1>7, <1>12, <1>13, PagesKept DEF PagesOK
<1>15. WorkInv'
  <2>1. Todo(<<>>, "render", {}, <<>>)
    BY JobIs, NothingToDo DEF Todo
  <2>2. Belongs("render", {}, <<>>, DOMAIN mounted', middle', PreloadPages', Cached(data')) /\ "render" \in JobNames
    BY DEF Belongs, JobNames
  <2>3. Started(work', DOMAIN mounted', middle', PreloadPages', Cached(data'), "render", {}, <<>>)
    BY <1>6, <2>1, <2>2, Starts
  <2>4. QED
    BY <2>3 DEF Started, WorkInv, Cached
<1>16. RangeInv'
  BY <1>1, <1>2, <1>6, NothingToDo DEF ViewerInv, RangeInv, Window, Top, Bottom
<1>17. NavTypeOK' /\ FocusIsAHighlight'
  BY <1>2, NavKept DEF ViewerInv
<1>18. SettingsOK'
  BY <1>1, <1>2, <1>3 DEF SettingsOK
<1>19. QED
  BY <1>11, <1>14, <1>15, <1>16, <1>17, <1>18 DEF ViewerInv

\* When it has all come, the pages that are only cached are refreshed.
LEMMA RefreshCachedKeeps ==
  ASSUME ViewerInv, RefreshCachedPages
  PROVE  ViewerInv'
<1>1. PICK t \in Ready : refreshes' = refreshes \ {t} /\ work' = Job("background", Cached(data) \ t.pages)
  BY DEF RefreshCachedPages
<1>2. /\ work = <<>>
      /\ UNCHANGED <<navVars, scale, cacheSize, cacheQuery, previews, data, requests, zoomTimer, rangeTimer,
                     throttle, leftBehind, reported, misled, middle,
                     jump, lastJump, pageRange, mounted, lost, events>>
  BY DEF RefreshCachedPages, cacheVars, timers, throttleVars
<1>3. SettingsOK /\ PagesOK /\ data \in Caches(DocumentPages, Promises)
  BY DEF ViewerInv, CacheInv
<1> DEFINE P == Cached(data) \ t.pages
<1>4. P \in SUBSET DocumentPages /\ P \subseteq Cached(data')
  BY <1>2, <1>3, CacheParts DEF Cached
<1> HIDE DEF P
<1>5. work' = Job("background", P)
  BY <1>1 DEF P
<1>6. Started(work', DOMAIN mounted', middle', PreloadPages', Cached(data'), "background", P, <<>>)
  <2>1. /\ "background" \in JobNames /\ Todo(work', "background", P, <<>>)
        /\ Belongs("background", P, <<>>, DOMAIN mounted', middle', PreloadPages', Cached(data'))
    BY <1>4, <1>5, Alone DEF Belongs, JobNames
  <2>2. QED
    BY <1>4, <2>1, Starts
<1>7. /\ WorkInv' /\ RenderLeft(work') = {} /\ \A n \in {"refresh", "await"} : ~Runs(work', n)
      /\ P # {} => Runs(work', "background") /\ Head(work').pages = P
  BY <1>6, NothingToDo DEF Started, WorkInv, Cached
<1>8. RangeInv'
  BY <1>2, <1>7, IdleIs DEF RangeInv, Window, Top, Bottom
<1>9. StaleInv'
  <2>1. Stale' = Stale /\ Stale \subseteq Cached(data)
    BY <1>2, StaleSame DEF Stale
  <2>2. lost \/ Stale = {} \/ RefreshToCome
    BY <1>2, IdleIs
  <2>3. ASSUME RefreshToCome PROVE RefreshToCome' \/ Stale \subseteq P
    <3>1. PICK u \in refreshes : Stale \cap u.pages = {}
      BY <2>3 DEF RefreshToCome
    <3>2. CASE u = t
      BY <2>1, <3>1, <3>2 DEF P
    <3>3. CASE u # t
      <4>1. u \in refreshes'
        BY <1>1, <3>1, <3>3
      <4>2. QED
        BY <2>1, <3>1, <4>1 DEF RefreshToCome
    <3>4. QED
      BY <3>2, <3>3
  <2>4. lost' \/ Stale' = {} \/ RefreshToCome' \/ (P # {} /\ Stale' \subseteq P)
    BY <1>2, <2>1, <2>2, <2>3
  <2>5. QED
    BY <1>7, <2>4 DEF StaleInv
<1>10. mounted = [p \in DOMAIN mounted |-> mounted[p]]
  BY <1>3 DEF PagesOK
<1>11. CacheInv' /\ PromiseInv' /\ PagesOK'
  <2>1. refreshes' \subseteq Refreshes /\ lost' \in BOOLEAN /\ DOMAIN mounted' = DOMAIN mounted
    BY <1>1, <1>2, <1>3 DEF PagesOK
  <2>2. QED
    BY <1>2, <1>10, <2>1, PagesKept DEF PagesOK
<1>12. NavTypeOK' /\ FocusIsAHighlight'
  BY <1>2, NavKept DEF ViewerInv
<1>13. SettingsOK'
  BY <1>2, <1>3 DEF SettingsOK
<1>14. QED
  BY <1>7, <1>8, <1>9, <1>11, <1>12, <1>13 DEF ViewerInv

\* What an answer does to a page.
LEMMA AnsweredIs ==
  ASSUME NEW r \in DOMAIN requests, requests[r].query \in FindQueries \cup {NoFindQuery}, NEW c \in PageComponents
  PROVE  /\ Answered(c, r) \in PageComponents
         /\ Answered(c, r).data = c.data /\ Answered(c, r).subscribed = c.subscribed
         /\ Answered(c, r).shown =
              IF Subscribes(c, {r})
              THEN IF [request |-> r, wiped |-> TRUE] \in c.subscribed THEN NoFindQuery ELSE requests[r].query
              ELSE c.shown
BY DEF Answered, PageComponents

\* The request r has got an answer.
AnswerTo(r, reqs, after, state) ==
  /\ r \in DOMAIN reqs /\ reqs[r].state = "pending"
  /\ DOMAIN after = DOMAIN reqs
  /\ \A x \in DOMAIN reqs :
       after[x].query = reqs[x].query /\ after[x].state = IF x = r THEN state ELSE reqs[x].state

LEMMA AnswerIsSound ==
  ASSUME NEW reqs, NEW after, NEW r, AnswerTo(r, reqs, after, "loaded"),
         NEW d, NEW p, NEW c \in PageComponents, SoundPage(c, p, d, reqs), NEW b,
         b.data = c.data, b.subscribed = c.subscribed,
         b.shown = IF Subscribes(c, {r})
                   THEN IF [request |-> r, wiped |-> TRUE] \in c.subscribed THEN NoFindQuery ELSE reqs[r].query
                   ELSE c.shown
  PROVE  SoundPage(b, p, d, after)
<1>1. c.data \in c.subscribed /\ \A s \in c.subscribed : s.request \in DOMAIN reqs
  BY DEF SoundPage
<1>2. ASSUME after[c.data.request].state = "loaded" PROVE b.shown = ContentOf(c.data, after)
  <2>1. CASE c.data.request = r
    <3>1. Subscribes(c, {r})
      BY <1>1, <2>1 DEF Subscribes
    <3>2. [request |-> r, wiped |-> TRUE] \in c.subscribed => c.data.wiped
      BY <2>1 DEF SoundPage
    <3>3. c.data.wiped => c.data = [request |-> r, wiped |-> TRUE]
      BY <2>1 DEF PageComponents, Promises
    <3>4. QED
      BY <1>1, <2>1, <3>1, <3>2, <3>3 DEF ContentOf, AnswerTo
  <2>2. CASE c.data.request # r
    <3>1. ~Subscribes(c, {r})
      BY <2>2 DEF Subscribes, SoundPage, AnswerTo
    <3>2. reqs[c.data.request].state = "loaded"
      BY <1>1, <1>2, <2>2 DEF AnswerTo
    <3>3. QED
      BY <1>1, <3>1, <3>2 DEF SoundPage, ContentOf, AnswerTo
  <2>3. QED
    BY <2>1, <2>2
<1>3. \A s \in c.subscribed : after[s.request].state = "pending" => reqs[s.request].state = "pending"
  BY <1>1 DEF AnswerTo
<1>4. QED
  BY <1>1, <1>2, <1>3 DEF SoundPage, AnswerTo

LEMMA FailureIsSound ==
  ASSUME NEW reqs, NEW after, NEW r, AnswerTo(r, reqs, after, "failed"),
         NEW d, NEW p, NEW c, SoundPage(c, p, d, reqs)
  PROVE  SoundPage(c, p, d, after)
<1>1. /\ c.data \in c.subscribed /\ c.data.request \in DOMAIN reqs
      /\ \A s \in c.subscribed : s.request \in DOMAIN reqs
  BY DEF SoundPage
<1>2. \A s \in c.subscribed : after[s.request].state = "pending" => reqs[s.request].state = "pending"
  BY <1>1 DEF AnswerTo
<1>3. after[c.data.request].state = "loaded" => reqs[c.data.request].state = "loaded"
  BY <1>1 DEF AnswerTo
<1>4. ContentOf(c.data, after) = ContentOf(c.data, reqs)
  BY <1>1 DEF AnswerTo, ContentOf
<1>5. QED
  BY <1>1, <1>2, <1>3, <1>4 DEF SoundPage, AnswerTo

\* An answer to a request, or its failure, when the pages stay sound.
LEMMA AnswerKeeps ==
  ASSUME ViewerInv, work = <<>>, NEW r \in DOMAIN requests, NEW state \in {"loaded", "failed"},
         requests[r].state = "pending",
         requests' = [requests EXCEPT ![r] = [@ EXCEPT !.state = state]],
         UNCHANGED <<navVars, scale, cacheSize, cacheQuery, previews, data, zoomTimer, rangeTimer, throttle,
                     leftBehind, reported, misled, middle, jump,
                     lastJump, pageRange, work>>, events' \in {events, events + 1},
         refreshes' \subseteq refreshes, lost' = (lost \/ refreshes' # refreshes),
         DOMAIN mounted' = DOMAIN mounted, mounted' \in [DOMAIN mounted' -> PageComponents],
         \A p \in DOMAIN mounted : SoundPage(mounted'[p], p, data, requests')
  PROVE  ViewerInv'
<1>1. SettingsOK /\ PagesOK /\ CacheInv /\ PromiseInv
  BY DEF ViewerInv
<1>2. requests' \in Seq(DataRequests) /\ DOMAIN requests' = DOMAIN requests
  <2>1. requests \in Seq(DataRequests) /\ requests[r] \in DataRequests
    BY <1>1 DEF PagesOK
  <2>2. [requests[r] EXCEPT !.state = state] \in DataRequests
    BY <2>1 DEF DataRequests, RequestStates
  <2>3. QED
    BY <2>1, <2>2
<1>3. \A x \in DOMAIN requests : requests'[x].query = requests[x].query
  BY <1>1 DEF PagesOK, DataRequests
<1>4. PagesOK'
  BY <1>1, <1>2 DEF PagesOK
<1>5. CacheInv'
  BY <1>1 DEF CacheInv, WellFormed, Cached
<1>6. PromiseInv'
  BY <1>1, <1>2 DEF PromiseInv, AllKnown, SoundPage, ContentOf, Cached
<1>7. Stale' = Stale
  BY <1>1, <1>3 DEF Stale, Content, PromiseInv, AllKnown, Cached
<1>8. StaleInv'
  <2>1. lost' \/ Stale' = {} \/ RefreshToCome'
    BY <1>7, IdleIs DEF RefreshToCome
  <2>2. QED
    BY <2>1, NothingToDo DEF StaleInv
<1>9. WorkInv'
  <2>1. Todo(<<>>, "render", {}, <<>>)
    BY JobIs, NothingToDo DEF Todo
  <2>2. Belongs("render", {}, <<>>, DOMAIN mounted', middle', PreloadPages', Cached(data')) /\ "render" \in JobNames
    BY DEF Belongs, JobNames
  <2>3. Started(work', DOMAIN mounted', middle', PreloadPages', Cached(data'), "render", {}, <<>>)
    BY <2>1, <2>2, Starts
  <2>4. QED
    BY <2>3 DEF Started, WorkInv, Cached
<1>10. RangeInv'
  BY IdleIs, NothingToDo DEF RangeInv, Window, Top, Bottom
<1>11. NavTypeOK' /\ FocusIsAHighlight'
  BY NavKept DEF ViewerInv
<1>12. SettingsOK'
  BY <1>1 DEF SettingsOK
<1>13. QED
  BY <1>4, <1>5, <1>6, <1>8, <1>9, <1>10, <1>11, <1>12 DEF ViewerInv

LEMMA RespondKeeps ==
  ASSUME ViewerInv, NEW r, Respond(r)
  PROVE  ViewerInv'
<1>1. /\ work = <<>> /\ r \in DOMAIN requests /\ requests[r].state = "pending"
      /\ requests' = [requests EXCEPT ![r] = [@ EXCEPT !.state = "loaded"]]
      /\ mounted' = [p \in DOMAIN mounted |-> Answered(mounted[p], r)]
      /\ UNCHANGED <<navVars, scale, cacheSize, cacheQuery, previews, data, zoomTimer, rangeTimer, throttle,
                     leftBehind, reported, misled, middle, jump,
                     lastJump, pageRange, refreshes, lost, work, events>>
  BY DEF Respond, Idle, Pending, timers, throttleVars
<1>2. PagesOK /\ PromiseInv
  BY DEF ViewerInv
<1>3. requests[r].query \in FindQueries \cup {NoFindQuery}
  <2>1. requests[r] \in DataRequests
    BY <1>1, <1>2 DEF PagesOK
  <2>2. QED
    BY <2>1 DEF DataRequests
<1>4. AnswerTo(r, requests, requests', "loaded")
  BY <1>1, <1>2 DEF AnswerTo, PagesOK, DataRequests
<1>5. ASSUME NEW p \in DOMAIN mounted
      PROVE  mounted'[p] \in PageComponents /\ SoundPage(mounted'[p], p, data, requests')
  <2>1. mounted[p] \in PageComponents /\ SoundPage(mounted[p], p, data, requests) /\ mounted'[p] = Answered(mounted[p], r)
    BY <1>1, <1>2 DEF PagesOK, PromiseInv
  <2> DEFINE c == mounted[p]
  <2> HIDE DEF c
  <2>2. c \in PageComponents /\ SoundPage(c, p, data, requests) /\ mounted'[p] = Answered(c, r)
    BY <2>1 DEF c
  <2> DEFINE b == Answered(c, r)
  <2>3. /\ b \in PageComponents /\ b.data = c.data /\ b.subscribed = c.subscribed
        /\ b.shown = IF Subscribes(c, {r})
                     THEN IF [request |-> r, wiped |-> TRUE] \in c.subscribed THEN NoFindQuery ELSE requests[r].query
                     ELSE c.shown
    BY <1>1, <1>3, <2>2, AnsweredIs
  <2> HIDE DEF b
  <2>4. SoundPage(b, p, data, requests')
    BY <1>4, <2>2, <2>3, AnswerIsSound
  <2>5. QED
    BY <2>2, <2>3, <2>4 DEF b
<1>6. DOMAIN mounted' = DOMAIN mounted /\ mounted' \in [DOMAIN mounted' -> PageComponents]
  BY <1>1, <1>5
<1>7. lost' = (lost \/ refreshes' # refreshes)
  BY <1>1, <1>2 DEF PagesOK
<1>8. QED
  BY <1>1, <1>5, <1>6, <1>7, AnswerKeeps

LEMMA FailRequestKeeps ==
  ASSUME ViewerInv, NEW r, FailRequest(r)
  PROVE  ViewerInv'
<1>1. /\ work = <<>> /\ r \in DOMAIN requests /\ requests[r].state = "pending"
      /\ requests' = [requests EXCEPT ![r] = [@ EXCEPT !.state = "failed"]]
      /\ refreshes' \subseteq refreshes /\ lost' = (lost \/ refreshes' # refreshes)
      /\ UNCHANGED <<navVars, scale, cacheSize, cacheQuery, previews, data, zoomTimer, rangeTimer, throttle,
                     leftBehind, reported, misled, middle, jump,
                     lastJump, pageRange, mounted, work>>
      /\ events' = events + 1
  BY DEF FailRequest, AnEvent, Idle, Pending, timers, throttleVars
<1>2. PagesOK /\ PromiseInv
  BY DEF ViewerInv
<1>3. AnswerTo(r, requests, requests', "failed")
  BY <1>1, <1>2 DEF AnswerTo, PagesOK, DataRequests
<1>4. \A p \in DOMAIN mounted : SoundPage(mounted'[p], p, data, requests')
  BY <1>1, <1>2, <1>3, FailureIsSound DEF PromiseInv
<1>5. mounted' \in [DOMAIN mounted' -> PageComponents]
  BY <1>1, <1>2 DEF PagesOK
<1>6. QED
  BY <1>1, <1>4, <1>5, AnswerKeeps

(***************************************************************************)
(* The invariant holds, and what it gives.                                 *)
(***************************************************************************)

LEMMA InitKeeps == Init => ViewerInv
<1> SUFFICES ASSUME Init PROVE ViewerInv
  OBVIOUS
<1>1. 1 \in DocumentPages /\ 1 \in Scales
  BY NumPagesAssumption, MaxScaleAssumption DEF DocumentPages, Scales
<1>2. /\ NavInit /\ scale = 1 /\ cacheSize = 1 /\ zoomTimer = NoTimer /\ rangeTimer = NoTimer
      /\ cacheQuery = NoFindQuery /\ previews = EmptyCache /\ data = EmptyCache /\ requests = <<>>
      /\ middle = 1 /\ pageRange = 1 /\ jump = [page |-> 1, nonce |-> 0] /\ lastJump = 0
      /\ throttle = "open" /\ leftBehind = <<>> /\ reported = 1 /\ misled = FALSE
      /\ mounted = [p \in {} |-> p] /\ refreshes = {} /\ lost = FALSE
      /\ work = Job("render", Window(1)) /\ events = 0
  BY DEF Init
<1>0. ASSUME NEW S PROVE <<>> \in Seq(S) /\ Len(<<>>) = 0
  OBVIOUS
<1>3. NavTypeOK /\ FocusIsAHighlight
  <2>1. /\ query = NoFindQuery /\ highlights = <<>> /\ focusedIndex = 0 /\ isPending = FALSE
        /\ inFlight = [q \in FindQueries |-> 0]
    BY <1>2 DEF NavInit
  <2>2. inFlight \in [FindQueries -> Nat]
    BY <2>1
  <2>3. NavTypeOK
    BY <1>0, <2>1, <2>2 DEF NavTypeOK
  <2>4. FocusIsAHighlight
    BY <1>0, <2>1 DEF FocusIsAHighlight
  <2>5. QED
    BY <2>3, <2>4
<1>4. SettingsOK
  <2>1. leftBehind \in Seq(Scales)
    BY <1>0, <1>2
  <2>2. QED
    BY <1>1, <1>2, <2>1 DEF SettingsOK, ThrottleStates
<1>5. PagesOK
  <2>1. DOMAIN mounted = {}
    BY <1>2
  <2>2. mounted \in [{} -> PageComponents]
    BY <1>2
  <2>3. mounted \in [DOMAIN mounted -> PageComponents]
    BY <2>1, <2>2
  <2>4. requests \in Seq(DataRequests)
    BY <1>0, <1>2
  <2>5. QED
    BY <1>2, <2>1, <2>3, <2>4 DEF PagesOK
<1>6. CacheInv
  <2>1. EmptyCache.queue = <<>> /\ DOMAIN EmptyCache.entries = {}
    BY DEF EmptyCache
  <2>2. ASSUME NEW K, NEW V PROVE EmptyCache \in Caches(K, V)
    <3>1. EmptyCache.entries \in [{} -> V] /\ {} \in SUBSET K
      BY DEF EmptyCache
    <3>2. EmptyCache.entries \in UNION {[D -> V] : D \in SUBSET K}
      BY <3>1
    <3>3. EmptyCache.queue \in Seq(K)
      BY <1>0, <2>1
    <3>4. EmptyCache = [queue |-> EmptyCache.queue, entries |-> EmptyCache.entries]
      BY DEF EmptyCache
    <3>5. QED
      BY <3>2, <3>3, <3>4, MakesCache
  <2>3. WellFormed(EmptyCache, MaxCachedPages)
    BY <2>1, MaxCachedPagesAssumption DEF WellFormed, Cached
  <2>4. QED
    BY <1>2, <2>2, <2>3 DEF CacheInv
<1>7. PromiseInv
  BY <1>2 DEF PromiseInv, AllKnown, Cached, EmptyCache
<1> DEFINE P == Window(1)
<1>8. P \in SUBSET DocumentPages
  BY <1>1, WindowIs
<1>9. Started(work, DOMAIN mounted, middle, PreloadPages, Cached(data), "render", P, <<>>)
  <2>1. Todo(work, "render", P, <<>>)
    BY <1>2, Alone
  <2>2. Belongs("render", P, <<>>, DOMAIN mounted, middle, PreloadPages, Cached(data)) /\ "render" \in JobNames
    BY DEF Belongs, JobNames
  <2> HIDE DEF P
  <2>3. QED
    BY <1>8, <2>1, <2>2, Starts
<1>10. WorkInv
  BY <1>9 DEF Started, WorkInv
<1>11. RangeInv
  <2>1. RenderLeft(work) = P
    BY <1>9 DEF Started
  <2>2. QED
    BY <1>2, <2>1 DEF RangeInv
<1>12. StaleInv
  <2>1. Stale = {}
    BY <1>2 DEF Stale, Cached, EmptyCache
  <2>2. QED
    BY <2>1 DEF StaleInv
<1>13. QED
  BY <1>3, <1>4, <1>5, <1>6, <1>7, <1>10, <1>11, <1>12 DEF ViewerInv

LEMMA StutterKeeps ==
  ASSUME ViewerInv, UNCHANGED vars
  PROVE  ViewerInv'
<1>1. UNCHANGED <<navVars, scale, cacheSize, cacheQuery, previews, data, requests, zoomTimer, rangeTimer,
                  throttle, leftBehind, reported, misled, middle,
                  jump, lastJump, pageRange, mounted, refreshes, lost, work, events>>
  BY DEF vars, viewerVars, cacheVars, timers, throttleVars
<1>2. SettingsOK /\ PagesOK /\ WorkInv /\ RangeInv /\ StaleInv
  BY DEF ViewerInv
<1>3. mounted = [p \in DOMAIN mounted |-> mounted[p]]
  BY <1>2 DEF PagesOK
<1>4. CacheInv' /\ PromiseInv' /\ PagesOK'
  BY <1>1, <1>2, <1>3, PagesKept DEF PagesOK
<1>5. NavTypeOK' /\ FocusIsAHighlight' /\ PreloadPages' = PreloadPages
  BY <1>1, NavKept DEF ViewerInv
<1>6. WorkInv'
  BY <1>1, <1>2, <1>5 DEF WorkInv, Cached
<1>7. RangeInv'
  BY <1>1, <1>2 DEF RangeInv, Window, Top, Bottom
<1>8. Stale' = Stale /\ (RefreshToCome' <=> RefreshToCome)
  BY <1>1, StaleSame DEF RefreshToCome
<1>9. StaleInv'
  BY <1>1, <1>2, <1>8 DEF StaleInv
<1>10. SettingsOK'
  BY <1>1, <1>2 DEF SettingsOK
<1>11. QED
  BY <1>4, <1>5, <1>6, <1>7, <1>9, <1>10 DEF ViewerInv

LEMMA NextKeeps ==
  ASSUME ViewerInv, Next
  PROVE  ViewerInv'
<1>1. CASE Work
  BY <1>1, RenderPageKeeps, PreloadPageKeeps, RefreshPageKeeps, ResizePageKeeps, AwaitKeeps, HandleScrollKeeps DEF Work
<1>2. CASE User
  BY <1>2, ScrollEventKeeps, JumpToPageKeeps, ZoomKeeps, FindKeeps, ClearFindKeeps, StepKeeps DEF User
<1>3. CASE Answers
  BY <1>3, ShowHighlightsKeeps, LoseHighlightsKeeps, RespondKeeps, FailRequestKeeps DEF Answers
<1>4. CASE RefreshCachedPages \/ Timers
  BY <1>4, RefreshCachedKeeps, RangeTimerKeeps, ZoomTimerKeeps, ThrottleEndsKeeps, StaleScrollKeeps DEF Timers
<1>5. QED
  BY <1>1, <1>2, <1>3, <1>4 DEF Next

LEMMA ViewerInvHolds == Spec => []ViewerInv
<1>1. ViewerInv /\ [Next]_vars => ViewerInv'
  BY NextKeeps, StutterKeeps
<1>2. QED
  BY <1>1, InitKeeps, PTL DEF Spec

(* The state of the viewer keeps its types whatever the user does and in   *)
(* whatever order the answers come (PageViewer/VirtualScroll.tsx,          *)
(* PageCache.ts).                                                          *)
THEOREM ViewerTypeCorrect == Spec => []ViewerTypeOK
BY ViewerInvHolds, InvTyped, PTL

(* The cache of previews and the cache of page data always hold the same   *)
(* pages in the same order of use, within their limit, although a find     *)
(* replaces entries of only one of them (PageCache.ts, LruCache.ts).       *)
THEOREM CachesInStep == Spec => []CachesAgree
<1>1. ViewerInv => CachesAgree
  <2> SUFFICES ASSUME ViewerInv PROVE CachesAgree
    OBVIOUS
  <2>1. WellFormed(data, MaxCachedPages) /\ WellFormed(previews, MaxCachedPages) /\ data.queue = previews.queue
    BY DEF ViewerInv, CacheInv
  <2>2. On(data.queue) = Cached(data) /\ On(previews.queue) = Cached(previews)
    BY <2>1, WellFormedMeans
  <2>3. QED
    BY <2>1, <2>2 DEF CachesAgree
<1>2. QED
  BY <1>1, ViewerInvHolds, PTL

(* The pages around the page the footer shows are mounted, or a debounced  *)
(* move to them is scheduled; that page is the viewport's, unless a scroll  *)
(* waits for the trailing call of the throttle or the last call came from   *)
(* before a zoom; the highlight in focus is one there is                    *)
(* (VirtualScroll.tsx, useHighlightNavigation.ts).                          *)
THEOREM ViewportShown == Spec => []InView
<1>1. ViewerInv => InView
  <2> SUFFICES ASSUME ViewerInv PROVE InView
    OBVIOUS
  <2>1. FocusIsAHighlight
    BY DEF ViewerInv
  <2>2. ASSUME work = <<>>, rangeTimer = NoTimer PROVE DOMAIN mounted = Window(reported)
    BY <2>2, IdleIs
  <2>3. ASSUME work = <<>>, throttle # "trailing", ~misled PROVE reported = middle
    BY <2>3, IdleIs
  <2>4. QED
    BY <2>1, <2>2, <2>3 DEF InView, ViewportRendered, ReportedIsRendered, ReportsTheViewport
<1>2. QED
  BY <1>1, ViewerInvHolds, PTL

(* An answer that comes late never overwrites what a page should show, and *)
(* a cached page with highlights of another query is fetched again unless  *)
(* a refresh was given up (Page.tsx, PageCache.ts, usePageFind.ts).        *)
THEOREM FindShown == Spec => []PagesShowFind
<1>1. ViewerInv => PagesShowFind
  <2> SUFFICES ASSUME ViewerInv PROVE PagesShowFind
    OBVIOUS
  <2>1. ShowsLatestAnswer
    BY DEF ViewerInv, PromiseInv, SoundPage, ContentOf, Content, ShowsLatestAnswer
  <2>2. ASSUME work = <<>>, ~lost, NEW p \in Cached(data), Content(data.entries[p]) # cacheQuery
        PROVE  \E t \in refreshes : p \notin t.pages
    <3>1. p \in Stale
      BY <2>2 DEF Stale
    <3>2. RefreshToCome
      BY <2>2, <3>1, IdleIs
    <3>3. QED
      BY <3>1, <3>2 DEF RefreshToCome
  <2>3. StaleOnlyWhileRefreshing
    BY <2>2 DEF StaleOnlyWhileRefreshing
  <2>4. QED
    BY <2>1, <2>3 DEF PagesShowFind
<1>2. QED
  BY <1>1, ViewerInvHolds, PTL
==============================================================================
