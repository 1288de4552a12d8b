---------------------------- MODULE BatchSelection ----------------------------
(***************************************************************************)
(* How fetchWork (Neo4jManifest.scala) turns the TODOs that match into a   *)
(* batch: ORDER BY priority, LIMIT, and a reduce that stops adding tasks   *)
(* when their cost would reach maxCost.  Module WorkQueue abstracts all of *)
(* it to "some of the candidates".                                         *)
(***************************************************************************)
EXTENDS Sums, FiniteSets, SequencesExt

CONSTANTS
  MaxBatchSize,        \* Worker.maxBatchSize
  MaxCost,             \* Worker.maxCost
  ExtractorPriorities, \* Extractor.priority
  Sizes,               \* what Extractor.cost makes of a blob's size
  MaxCandidates,       \* bound: number of candidates
  Null                 \* a property that is not set

ASSUME LimitsAssumption == MaxBatchSize \in Nat \ {0} /\ MaxCost \in Nat
ASSUME CostsAssumption == Sizes \subseteq Nat /\ Null \notin Nat

(***************************************************************************)
(* A TODO is made by insertBlob, or by rerunSuccessfulExtractorsForBlob    *)
(* from a PROCESSED: that one copies the priority and the cost of the      *)
(* Extractor node.  No query sets a cost on Extractor nodes.               *)
(***************************************************************************)
Candidate == [extractor : ExtractorPriorities, size : Sizes, workspace : BOOLEAN,
              fastLane : BOOLEAN, rerun : BOOLEAN]

Priority(t) ==
  IF t.rerun THEN t.extractor
  ELSE t.extractor * (IF t.workspace THEN 100 ELSE 1) * (IF t.fastLane THEN 10 ELSE 1)
Cost(t) == IF t.rerun THEN Null ELSE t.size

\* Arithmetic of Cypher: null is contagious, and not a reason to skip.
Plus(a, b) == IF Null \in {a, b} THEN Null ELSE a + b
AtLeast(a, b) == IF a = Null THEN FALSE ELSE a >= b

Ordered(tasks) ==
  \A i, j \in DOMAIN tasks : i < j => Priority(tasks[i]) >= Priority(tasks[j])

Limited(tasks) == IF Len(tasks) <= MaxBatchSize THEN tasks ELSE SubSeq(tasks, 1, MaxBatchSize)

\* The reduce, over positions so that equal tasks stay apart.
Added(tasks, acc, k) == [cost |-> Plus(acc.cost, Cost(tasks[k])), chosen |-> acc.chosen \cup {k}]

\* Mutants: the task's cost counts twice; it does not count.
AddDouble(tasks, acc, k) ==
  IF acc.chosen # {} /\ AtLeast(Plus(Plus(acc.cost, Cost(tasks[k])), Cost(tasks[k])), MaxCost)
  THEN acc ELSE Added(tasks, acc, k)
AddUntilFull(tasks, acc, k) ==
  IF acc.chosen # {} /\ AtLeast(acc.cost, MaxCost) THEN acc ELSE Added(tasks, acc, k)
AddTask(tasks, acc, k) ==
  IF acc.chosen # {} /\ AtLeast(Plus(acc.cost, Cost(tasks[k])), MaxCost)
  THEN acc ELSE Added(tasks, acc, k)

\* After each of the tasks.
Reduced(tasks) ==
  LET reduced[k \in 0..Len(Limited(tasks))] ==
        IF k = 0 THEN [cost |-> 0, chosen |-> {}] ELSE AddTask(tasks, reduced[k - 1], k)
  IN  reduced

Chosen(tasks) == Reduced(tasks)[Len(Limited(tasks))].chosen

VARIABLES candidates, chosen
selectionVars == <<candidates, chosen>>

Pending == {0}  \* no batch chosen yet; positions start at 1

Init == candidates = <<>> /\ chosen = Pending

\* The MATCH and its ORDER BY return one row more.
Row(t) ==
  /\ chosen = Pending /\ Len(candidates) < MaxCandidates
  /\ candidates' = Append(candidates, t)
  /\ Ordered(candidates')
  /\ UNCHANGED chosen

Select ==
  /\ chosen = Pending
  /\ chosen' = Chosen(candidates)
  /\ UNCHANGED candidates

Next == Select \/ \E t \in Candidate : Row(t)
Spec == Init /\ [][Next]_selectionVars

-----------------------------------------------------------------------------
TotalSize(ks) == SumOf([k \in DOMAIN candidates |-> IF k \in ks THEN candidates[k].size ELSE 0])

TypeOK ==
  /\ candidates \in Seq(Candidate) /\ Len(candidates) <= MaxCandidates
  /\ chosen = Pending \/ chosen \subseteq DOMAIN candidates

\* What WorkQueue assumes of fetchWork: a batch is empty only if there is
\* nothing to do, even when the first task alone exceeds maxCost, and it stays
\* within maxBatchSize.
SomeBatch ==
  chosen # Pending =>
    /\ chosen = {} => candidates = <<>>
    /\ Cardinality(chosen) <= MaxBatchSize

\* A task is passed over for one of lower priority only because it would have
\* taken the tasks ahead of it to maxCost.
PassedOverForCost ==
  chosen # Pending =>
    \A k \in DOMAIN candidates \ chosen :
      (\E l \in chosen : l > k) =>
        AtLeast(TotalSize({l \in chosen : l < k}) + candidates[k].size, MaxCost)

\* With the costs ingestion records, a batch of several tasks stays below
\* maxCost.
IngestedWithinCost ==
  chosen # Pending /\ (\A k \in chosen : ~candidates[k].rerun) =>
    Cardinality(chosen) <= 1 \/ TotalSize(chosen) < MaxCost

\* A batch takes what is first, within its limits (fetchWork's ORDER BY, LIMIT and
\* reduce).
BatchTakesTheFirst == SomeBatch /\ PassedOverForCost /\ IngestedWithinCost

\* The test "Can batch work by todo cost" (Neo4JManifestITest), of any TODOs: it
\* does not hold of those that a rerun made, which have no cost.
BatchWithinCost ==
  chosen # Pending => Cardinality(chosen) <= 1 \/ TotalSize(chosen) < MaxCost
===============================================================================
