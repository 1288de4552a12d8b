------------------------------ MODULE LruCache ------------------------------
(***************************************************************************)
(* The least-recently-used cache of the web client (util/LruCache.ts): a   *)
(* queue of keys, the most recent one last, and an object of entries.      *)
(* A cache is a value; what onMiss returns is passed as v.                 *)
(***************************************************************************)
EXTENDS Naturals, Sequences

EmptyCache == [queue |-> <<>>, entries |-> [k \in {} |-> k]]

Cached(c) == DOMAIN c.entries

\* findIndex and splice: the queue without the first occurrence of k.
Without(queue, k) ==
  LET index == CHOOSE i \in 1..Len(queue) : queue[i] = k
  IN  [i \in 1..(Len(queue) - 1) |-> IF i < index THEN queue[i] ELSE queue[i + 1]]

BumpRecency(c, k) == [c EXCEPT !.queue = Append(Without(@, k), k)]

WithEntry(entries, k, v) ==
  [x \in DOMAIN entries \cup {k} |-> IF x = k THEN v ELSE entries[x]]

WithoutEntry(entries, k) == [x \in DOMAIN entries \ {k} |-> entries[x]]

Full(c, max) == Len(c.queue) >= max

AddToCache(c, k, v, max) ==
  LET queue == Append(c.queue, k)
      entries == WithEntry(c.entries, k, v)
  IN  IF Len(queue) > max
      THEN [queue |-> Tail(queue), entries |-> WithoutEntry(entries, Head(queue))]
      ELSE [queue |-> queue, entries |-> entries]

Evict(c, k) ==
  [queue |-> Without(c.queue, k), entries |-> WithoutEntry(c.entries, k)]

CacheGet(c, k, v, max) ==
  IF k \in Cached(c) THEN BumpRecency(c, k) ELSE AddToCache(c, k, v, max)

\* Mutant: the old entry is overwritten and its key stays in the queue.
RefreshWithoutEvict(c, k, v, max) == AddToCache(c, k, v, max)

GetAndForceRefresh(c, k, v, max) ==
  AddToCache(IF k \in Cached(c) THEN Evict(c, k) ELSE c, k, v, max)

Replace(c, k, v, max) ==
  IF k \in Cached(c)
  THEN [BumpRecency(c, k) EXCEPT !.entries = WithEntry(@, k, v)]
  ELSE AddToCache(c, k, v, max)

\* The keys whose values onEvict is called with.
EvictedByGet(c, k, max) ==
  IF k \notin Cached(c) /\ Full(c, max) THEN {Head(Append(c.queue, k))} ELSE {}

\* Mutant: the value that is replaced is not handed to onEvict.
EvictsNothing(c, k, max) == {}

EvictedByRefresh(c, k, max) ==
  IF k \in Cached(c) THEN {k} ELSE EvictedByGet(c, k, max)

(* What a cache has to be for findIndex to find, and for the queue to      *)
(* choose which entry goes.                                                *)
WellFormed(c, max) ==
  /\ \A i, j \in DOMAIN c.queue : c.queue[i] = c.queue[j] => i = j
  /\ {c.queue[i] : i \in DOMAIN c.queue} = Cached(c)
  /\ Len(c.queue) <= max
=============================================================================
