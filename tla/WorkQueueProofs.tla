--------------------------- MODULE WorkQueueProofs ---------------------------
(***************************************************************************)
(* Proofs about module WorkQueue, for every number of blobs, extractors,   *)
(* contexts and workers, and every value of the bounds of the TLC runs.    *)
(***************************************************************************)
EXTENDS WorkQueue, FiniteSetTheorems, TLAPS

-----------------------------------------------------------------------------
(* The operations of the manifest preserve its types. *)

LEMMA CreateTodosType ==
  ASSUME todo \in [TodoIds -> Todos \cup {NoTodo}],
         NEW items \in SUBSET Items, NEW held, CreateTodos(items, held)
  PROVE  todo' \in [TodoIds -> Todos \cup {NoTodo}]
BY DEF CreateTodos, Bijection, Injection, Todos

LEMMA ResetType ==
  ASSUME todo \in [TodoIds -> Todos \cup {NoTodo}], NEW ids \in SUBSET Live
  PROVE  ResetAttempts(ids) \in [TodoIds -> Todos \cup {NoTodo}]
BY DEF ResetAttempts, Todos, Live

LEMMA InsertBlobType ==
  ASSUME ManifestTypeOK, NEW b \in Blobs, NEW ctx \in Contexts, NEW es \in SUBSET Extractors,
         NEW held, InsertBlob(b, es, ctx, held)
  PROVE  ManifestTypeOK'
<1>1. Missing(b, es, ctx) \in SUBSET Items
  BY DEF Missing, Wanted, Items
<1>2. CreateTodos(Missing(b, es, ctx), held)
  BY DEF InsertBlob
<1>3. todo' \in [TodoIds -> Todos \cup {NoTodo}]
  BY <1>1, <1>2, CreateTodosType DEF ManifestTypeOK
<1>4. QED
  BY <1>3 DEF InsertBlob, ManifestTypeOK

LEMMA ClaimTodosType ==
  ASSUME ManifestTypeOK, NEW w \in Workers, NEW ids \in SUBSET Live, ClaimTodos(w, ids)
  PROVE  ManifestTypeOK'
<1>1. \A id \in ids : todo[id] \in Todos
  BY DEF ManifestTypeOK, Live
<1>2. \A id \in ids : [todo[id] EXCEPT !.attempts = @ + 1] \in Todos
  BY <1>1 DEF Todos
<1>3. todo' \in [TodoIds -> Todos \cup {NoTodo}]
  BY <1>2 DEF ClaimTodos, ManifestTypeOK
<1>4. locks' \subseteq Blobs \X Workers
  BY <1>1 DEF ClaimTodos, ManifestTypeOK, Todos, Items
<1>5. QED
  BY <1>3, <1>4 DEF ClaimTodos, ManifestTypeOK

LEMMA ReleaseLocksType ==
  ASSUME ManifestTypeOK, NEW ws \in SUBSET Workers, ReleaseLocks(ws)
  PROVE  ManifestTypeOK'
<1>1. \A id \in Live : [todo[id] EXCEPT !.attempts = 0] \in Todos
  BY DEF ManifestTypeOK, Live, Todos
<1>2. todo' \in [TodoIds -> Todos \cup {NoTodo}]
  BY <1>1 DEF ReleaseLocks, ResetAttempts, Restarted, ManifestTypeOK
<1>3. QED
  BY <1>2 DEF ReleaseLocks, ManifestTypeOK

LEMMA MarkAsCompleteType ==
  ASSUME ManifestTypeOK, NEW i \in Items, MarkAsComplete(i)
  PROVE  ManifestTypeOK'
BY DEF ManifestTypeOK, MarkAsComplete, DeleteTodo, manifestVars

LEMMA MarkExternalAsProcessingType ==
  ASSUME ManifestTypeOK, NEW i \in Items, MarkExternalAsProcessing(i)
  PROVE  ManifestTypeOK'
BY DEF ManifestTypeOK, MarkExternalAsProcessing, DeleteTodo, manifestVars

LEMMA LogExtractionFailureType ==
  ASSUME ManifestTypeOK, NEW b \in Blobs, NEW e \in Extractors, LogExtractionFailure(b, e)
  PROVE  ManifestTypeOK'
BY DEF ManifestTypeOK, LogExtractionFailure

LEMMA ClearFailuresType ==
  ASSUME ManifestTypeOK, NEW b \in Blobs, NEW es, ClearFailures(b, es)
  PROVE  failures' \in [Blobs -> [Extractors -> Nat]]
BY DEF ManifestTypeOK, ClearFailures

LEMMA RerunFailedType ==
  ASSUME ManifestTypeOK, NEW b \in Blobs, RerunFailed(b)
  PROVE  ManifestTypeOK'
<1> DEFINE es == FailedExtractors(b, Extractors \ External)
<1>1. Attempted(b, es) \in SUBSET Live
  BY DEF Attempted
<1>2. todo' \in [TodoIds -> Todos \cup {NoTodo}]
  BY <1>1, ResetType DEF RerunFailed, ManifestTypeOK
<1>3. failures' \in [Blobs -> [Extractors -> Nat]]
  BY ClearFailuresType DEF RerunFailed
<1>4. QED
  BY <1>2, <1>3 DEF RerunFailed, ManifestTypeOK

LEMMA RerunFailedExternalType ==
  ASSUME ManifestTypeOK, NEW b \in Blobs, NEW held, RerunFailedExternal(b, held)
  PROVE  ManifestTypeOK'
<1> DEFINE es    == FailedExtractors(b, External)
           reset == ResetAttempts(Attempted(b, es))
<1>1. reset \in [TodoIds -> Todos \cup {NoTodo}]
  BY ResetType DEF Attempted, ManifestTypeOK
<1>2. WithoutTodo(Replaced(b)) \subseteq Items
  BY DEF WithoutTodo, Replaced, ProcessingItems
<1>3. todo' \in [TodoIds -> Todos \cup {NoTodo}]
  <2>1. CASE todo' = reset
    BY <1>1, <2>1
  <2>2. CASE \E i \in WithoutTodo(Replaced(b)), id \in FreshIds(held) :
               todo' = [reset EXCEPT ![id] = [item |-> i, attempts |-> 0]]
    <3> HIDE DEF reset
    <3>1. \A i \in Items : [item |-> i, attempts |-> 0] \in Todos
      BY DEF Todos
    <3>2. QED
      BY <1>1, <1>2, <2>2, <3>1
  <2>3. QED
    BY <2>1, <2>2 DEF RerunFailedExternal
<1>4. processing' \in [Items -> Nat]
  BY DEF RerunFailedExternal, ManifestTypeOK
<1>5. failures' \in [Blobs -> [Extractors -> Nat]]
  BY ClearFailuresType DEF RerunFailedExternal
<1>6. QED
  BY <1>3, <1>4, <1>5 DEF RerunFailedExternal, ManifestTypeOK

LEMMA RerunSuccessfulType ==
  ASSUME ManifestTypeOK, NEW b \in Blobs, NEW held, RerunSuccessful(b, held)
  PROVE  ManifestTypeOK'
<1> DEFINE done == {p \in processed : p.blob = b}
<1>1. done \in SUBSET Items
  BY DEF ManifestTypeOK
<1>2. CreateTodos(done, held)
  BY DEF RerunSuccessful
<1>3. todo' \in [TodoIds -> Todos \cup {NoTodo}]
  BY <1>1, <1>2, CreateTodosType DEF ManifestTypeOK
<1>4. QED
  BY <1>3 DEF RerunSuccessful, ManifestTypeOK

-----------------------------------------------------------------------------
(* Type correctness *)

LEMMA InitType == Init => TypeOK
BY ApplicableAssumption DEF Init, TypeOK, ManifestInit, ManifestTypeOK

LEMMA BatchesAreCandidates ==
  ASSUME NEW candidates, NEW ids \in Batches(candidates)
  PROVE  ids \subseteq candidates
BY DEF Batches

LEMMA PollType ==
  ASSUME TypeOK, NEW w \in Workers, Poll(w)
  PROVE  TypeOK'
<1>1. CASE GetWorkerDetails(w)
  <2>1. Running \in SUBSET Workers
    BY DEF Running
  <2>2. QED
    BY <1>1, <2>1 DEF GetWorkerDetails, Goto, TypeOK, ManifestTypeOK, manifestVars, rerunVars
<1>2. CASE FetchRead(w)
  <2>1. PICK ids \in Batches(Candidates(w, view[w])) : selected' = [selected EXCEPT ![w] = ids]
    BY <1>2 DEF FetchRead
  <2>2. ids \in SUBSET TodoIds
    BY <2>1, BatchesAreCandidates DEF Candidates
  <2>3. QED
    BY <1>2, <2>1, <2>2 DEF FetchRead, Goto, TypeOK, ManifestTypeOK, manifestVars, rerunVars
<1>3. CASE FetchWrite(w)
  <2>1. CASE selected[w] \subseteq Live
    <3>1. ClaimTodos(w, selected[w])
      BY <1>3, <2>1 DEF FetchWrite
    <3>2. ManifestTypeOK'
      BY <2>1, <3>1, ClaimTodosType DEF TypeOK
    <3>3. {todo[id].item : id \in selected[w]} \in SUBSET Items
      BY <2>1 DEF Live, TypeOK, ManifestTypeOK, Todos
    <3>4. QED
      BY <1>3, <2>1, <3>2, <3>3 DEF FetchWrite, Goto, TypeOK, rerunVars
  <2>2. CASE ~(selected[w] \subseteq Live)
    BY <1>3, <2>2 DEF FetchWrite, Goto, TypeOK, ManifestTypeOK, manifestVars, rerunVars
  <2>3. QED
    BY <2>1, <2>2
<1>4. CASE RejectBatch(w)
  <2> DEFINE unknown == batch[w] \ Recognised(w)
             of(b, e) == {i \in unknown : i.blob = b /\ i.extractor = e}
  <2>1. \A b \in Blobs, e \in Extractors : Cardinality(of(b, e)) \in Nat
    <3>1. \A b, e : of(b, e) \in SUBSET Items
      BY DEF TypeOK
    <3>2. QED
      BY <3>1, ItemsAssumption, FS_Subset, FS_CardinalityType
  <2>2. failures' = [b \in Blobs |-> [e \in Extractors |-> failures[b][e] + Cardinality(of(b, e))]]
    BY <1>4 DEF RejectBatch
  <2> HIDE DEF of
  <2>3. failures' \in [Blobs -> [Extractors -> Nat]]
    BY <2>1, <2>2 DEF TypeOK, ManifestTypeOK
  <2>4. QED
    BY <1>4, <2>3 DEF RejectBatch, TypeOK, ManifestTypeOK, rerunVars
<1>5. CASE Release(w)
  <2>1. ManifestTypeOK'
    BY <1>5, ReleaseLocksType DEF Release, TypeOK
  <2>2. QED
    BY <1>5, <2>1 DEF Release, Goto, TypeOK, rerunVars
<1>6. ASSUME NEW i \in Items, Succeed(w, i) \/ HandOver(w, i) \/ Fail(w, i)
      PROVE  TypeOK'
  <2>1. i.blob \in Blobs /\ i.extractor \in Extractors
    BY DEF Items
  <2>2. ManifestTypeOK'
    BY <1>6, <2>1, MarkAsCompleteType, MarkExternalAsProcessingType, LogExtractionFailureType
       DEF Succeed, HandOver, Fail, TypeOK
  <2>3. Execute(w, i) /\ UNCHANGED faults
    BY <1>6 DEF Succeed, HandOver, Fail
  <2>4. QED
    BY <2>2, <2>3 DEF Execute, TypeOK, rerunVars
<1>7. QED
  BY <1>1, <1>2, <1>3, <1>4, <1>5, <1>6 DEF Poll

LEMMA TroubleType ==
  ASSUME TypeOK, NEW w \in Workers, Trouble(w)
  PROVE  TypeOK'
<1> USE DEF TypeOK, rerunVars
<1>1. CASE Launch(w) \/ Terminate(w)
  BY <1>1 DEF Launch, Terminate, ManifestTypeOK, manifestVars
<1>2. CASE Disappear(w) \/ Crash(w)
  <2>1. CASE Disappear(w)
    BY <2>1 DEF Disappear, Stopped, Goto, ManifestTypeOK, manifestVars
  <2>2. CASE Crash(w)
    BY <2>2 DEF Crash, Stopped, Goto, ManifestTypeOK, manifestVars
  <2>3. QED
    BY <1>2, <2>1, <2>2
<1>3. CASE FetchFails(w) \/ ReleaseFails(w)
  BY <1>3 DEF FetchFails, ReleaseFails, Goto, ManifestTypeOK, manifestVars
<1>4. ASSUME NEW i \in Items, Interrupt(w, i) \/ LoseOutcome(w, i)
      PROVE  TypeOK'
  BY <1>4 DEF Interrupt, LoseOutcome, Execute, ManifestTypeOK, manifestVars
<1>5. QED
  BY <1>1, <1>2, <1>3, <1>4 DEF Trouble

LEMMA ReprocessType ==
  ASSUME TypeOK, NEW b \in Blobs, Reprocess(b)
  PROVE  TypeOK'
<1>1. ASSUME NEW steps \in {RerunSteps, {"failed", "external"}, {"successful"}},
             RequestReprocess(b, steps)
      PROVE  TypeOK'
  BY <1>1 DEF RequestReprocess, RerunSteps, TypeOK, workerVars, ManifestTypeOK, manifestVars
<1>2. CASE ReprocessFailed(b)
  <2>1. ManifestTypeOK'
    BY <1>2, RerunFailedType DEF ReprocessFailed, TypeOK, ManifestTypeOK, manifestVars
  <2>2. QED
    BY <1>2, <2>1 DEF ReprocessFailed, StepDone, StepFailed, TypeOK, workerVars
<1>3. CASE ReprocessExternal(b)
  <2>1. ManifestTypeOK'
    BY <1>3, RerunFailedExternalType DEF ReprocessExternal, TypeOK, ManifestTypeOK, manifestVars
  <2>2. QED
    BY <1>3, <2>1 DEF ReprocessExternal, StepDone, StepFailed, TypeOK, workerVars
<1>4. CASE ReprocessSuccessful(b)
  <2>1. ManifestTypeOK'
    BY <1>4, RerunSuccessfulType DEF ReprocessSuccessful, TypeOK
  <2>2. QED
    BY <1>4, <2>1 DEF ReprocessSuccessful, StepDone, TypeOK, workerVars
<1>5. QED
  BY <1>1, <1>2, <1>3, <1>4 DEF Reprocess

LEMMA NextType == TypeOK /\ [Next]_vars => TypeOK'
<1> SUFFICES ASSUME TypeOK, [Next]_vars PROVE TypeOK'
  OBVIOUS
<1>1. ASSUME NEW w \in Workers, Poll(w) \/ Trouble(w) PROVE TypeOK'
  BY <1>1, PollType, TroubleType
<1>2. ASSUME NEW b \in Blobs, Reprocess(b) PROVE TypeOK'
  BY <1>2, ReprocessType
<1>3. ASSUME NEW b \in Blobs, NEW ctx \in Uploads, Ingest(b, ctx) PROVE TypeOK'
  <2>1. ctx \in Contexts /\ Applicable[b] \in SUBSET Extractors
    BY UploadsAssumption, ApplicableAssumption
  <2>2. ManifestTypeOK'
    BY <1>3, <2>1, InsertBlobType DEF Ingest, TypeOK
  <2>3. QED
    BY <1>3, <2>2 DEF Ingest, TypeOK, workerVars, rerunVars
<1>4. CASE BreakLocks
  <2>1. Workers \ Running \in SUBSET Workers
    OBVIOUS
  <2>2. ManifestTypeOK'
    BY <1>4, <2>1, ReleaseLocksType DEF BreakLocks, TypeOK
  <2>3. QED
    BY <1>4, <2>2 DEF BreakLocks, TypeOK, workerVars, rerunVars
<1>5. CASE UNCHANGED vars
  BY <1>5 DEF vars, manifestVars, workerVars, rerunVars, TypeOK, ManifestTypeOK
<1>6. QED
  BY <1>1, <1>2, <1>3, <1>4, <1>5 DEF Next

\* The variables keep their types, whatever the workers, the users and EC2 do.
THEOREM TypeCorrect == Spec => []TypeOK
BY InitType, NextType, PTL DEF Spec

-----------------------------------------------------------------------------
(***************************************************************************)
(* No attempt is stranded.  The operations that raise attempts lock the    *)
(* blob in the same transaction; those that delete locks or failures reset *)
(* the attempts they would strand.                                         *)
(***************************************************************************)

LEMMA StrandedClaim ==
  ASSUME ManifestTypeOK, NoAttemptStranded, NEW w \in Workers, NEW ids \in SUBSET Live,
         ClaimTodos(w, ids)
  PROVE  NoAttemptStranded'
<1> SUFFICES ASSUME NEW id \in TodoIds, todo'[id] # NoTodo, todo'[id].attempts > 0
             PROVE  (Locked(todo[id].item.blob) \/ Failed(todo[id].item))'
  BY DEF NoAttemptStranded, Live
<1>1. CASE id \in ids
  <2>1. todo[id] \in Todos
    BY <1>1 DEF Live, ManifestTypeOK
  <2>2. todo'[id].item = todo[id].item
    BY <1>1, <2>1 DEF ClaimTodos, Todos
  <2>3. <<todo[id].item.blob, w>> \in locks'
    BY <1>1 DEF ClaimTodos
  <2>4. QED
    BY <2>2, <2>3 DEF Locked
<1>2. CASE id \notin ids
  <2>1. todo'[id] = todo[id]
    BY <1>2 DEF ClaimTodos
  <2>2. Locked(todo[id].item.blob) \/ Failed(todo[id].item)
    BY <2>1 DEF NoAttemptStranded, Live
  <2>3. QED
    BY <2>1, <2>2 DEF ClaimTodos, Locked, Failed
<1>3. QED
  BY <1>1, <1>2

LEMMA StrandedRelease ==
  ASSUME ManifestTypeOK, NoAttemptStranded, NEW ws \in SUBSET Workers, ReleaseLocks(ws)
  PROVE  NoAttemptStranded'
<1> SUFFICES ASSUME NEW id \in TodoIds, todo'[id] # NoTodo, todo'[id].attempts > 0
             PROVE  (Locked(todo[id].item.blob) \/ Failed(todo[id].item))'
  BY DEF NoAttemptStranded, Live
<1>1. todo' = [x \in TodoIds |->
                 IF x \in Restarted(ws) THEN [todo[x] EXCEPT !.attempts = 0] ELSE todo[x]]
  BY DEF ReleaseLocks, ResetAttempts
<1>2. id \notin Restarted(ws)
  <2>1. \A x \in Restarted(ws) : todo[x] \in Todos
    BY DEF Restarted, Live, ManifestTypeOK
  <2>2. \A x \in Restarted(ws) : [todo[x] EXCEPT !.attempts = 0].attempts = 0
    BY <2>1 DEF Todos
  <2>3. QED
    BY <1>1, <2>2
<1>3. todo'[id] = todo[id] /\ id \in Live
  BY <1>1, <1>2 DEF Live
<1>4. todo[id] \in Todos /\ todo[id].item.blob \in Blobs
  BY <1>3 DEF Live, ManifestTypeOK, Todos, Items
<1>5. CASE Failed(todo[id].item)
  BY <1>3, <1>5 DEF ReleaseLocks, Failed
<1>6. CASE ~Failed(todo[id].item)
  <2>1. todo[id].item.blob \notin LockedBlobs(ws)
    BY <1>2, <1>3, <1>6 DEF Restarted
  <2>2. PICK v \in Workers : <<todo[id].item.blob, v>> \in locks
    BY <1>3, <1>6 DEF NoAttemptStranded, Locked
  <2>3. v \notin ws
    BY <1>4, <2>1, <2>2 DEF LockedBlobs
  <2>4. <<todo[id].item.blob, v>> \in locks'
    BY <2>2, <2>3 DEF ReleaseLocks, WorkerLocks
  <2>5. QED
    BY <1>3, <2>4 DEF Locked
<1>7. QED
  BY <1>5, <1>6

\* New TODOs have no attempts, and CreateTodos leaves the others alone.
LEMMA CreatedUnattempted ==
  ASSUME ManifestTypeOK, NEW items \in SUBSET Items, NEW held, CreateTodos(items, held),
         NEW id \in TodoIds, todo'[id] # NoTodo, todo'[id].attempts > 0
  PROVE  id \in Live /\ todo'[id] = todo[id]
<1>1. PICK new \in SUBSET FreshIds(held) :
        \E f \in Bijection(new, items) :
          todo' = [x \in TodoIds |->
                     IF x \in new THEN [item |-> f[x], attempts |-> 0] ELSE todo[x]]
  BY DEF CreateTodos
<1>2. PICK f \in Bijection(new, items) :
        todo' = [x \in TodoIds |->
                   IF x \in new THEN [item |-> f[x], attempts |-> 0] ELSE todo[x]]
  BY <1>1
<1>3. id \notin new
  BY <1>2
<1>4. QED
  BY <1>2, <1>3 DEF Live

LEMMA StrandedCreate ==
  ASSUME ManifestTypeOK, NoAttemptStranded, NEW items \in SUBSET Items, NEW held,
         CreateTodos(items, held), UNCHANGED <<failures, locks>>
  PROVE  NoAttemptStranded'
<1> SUFFICES ASSUME NEW id \in TodoIds, todo'[id] # NoTodo, todo'[id].attempts > 0
             PROVE  (Locked(todo[id].item.blob) \/ Failed(todo[id].item))'
  BY DEF NoAttemptStranded, Live
<1>1. id \in Live /\ todo'[id] = todo[id]
  BY CreatedUnattempted
<1>2. QED
  BY <1>1 DEF NoAttemptStranded, Locked, Failed

LEMMA StrandedDelete ==
  ASSUME ManifestTypeOK, NoAttemptStranded, NEW id \in TodoIds, DeleteTodo(id),
         UNCHANGED <<failures, locks>>
  PROVE  NoAttemptStranded'
<1> SUFFICES ASSUME NEW x \in TodoIds, todo'[x] # NoTodo, todo'[x].attempts > 0
             PROVE  (Locked(todo[x].item.blob) \/ Failed(todo[x].item))'
  BY DEF NoAttemptStranded, Live
<1>1. x \in Live /\ todo'[x] = todo[x]
  BY DEF DeleteTodo, ManifestTypeOK, Live
<1>2. QED
  BY <1>1 DEF NoAttemptStranded, Locked, Failed

\* More failures strand nothing.
LEMMA StrandedFailure ==
  ASSUME ManifestTypeOK, NoAttemptStranded, UNCHANGED <<todo, locks>>,
         \A b \in Blobs, e \in Extractors : failures[b][e] > 0 => failures'[b][e] > 0
  PROVE  NoAttemptStranded'
<1> SUFFICES ASSUME NEW id \in Live, todo[id].attempts > 0
             PROVE  (Locked(todo[id].item.blob) \/ Failed(todo[id].item))'
  BY DEF NoAttemptStranded, Live
<1>1. todo[id].item.blob \in Blobs /\ todo[id].item.extractor \in Extractors
  BY DEF Live, ManifestTypeOK, Todos, Items
<1>2. QED
  BY <1>1 DEF NoAttemptStranded, Locked, Failed

\* A rerun deletes the failures of some extractors and resets their TODOs,
\* beside which it may create one.
LEMMA StrandedRerun ==
  ASSUME ManifestTypeOK, NoAttemptStranded, NEW b \in Blobs, NEW es \in SUBSET Extractors,
         ClearFailures(b, es), UNCHANGED locks,
         \A id \in TodoIds :
            \/ todo'[id] = ResetAttempts(Attempted(b, es))[id]
            \/ todo'[id] # NoTodo /\ todo'[id].attempts = 0
  PROVE  NoAttemptStranded'
<1> SUFFICES ASSUME NEW id \in TodoIds, todo'[id] # NoTodo, todo'[id].attempts > 0
             PROVE  (Locked(todo[id].item.blob) \/ Failed(todo[id].item))'
  BY DEF NoAttemptStranded, Live
<1>1. todo'[id] = ResetAttempts(Attempted(b, es))[id]
  OBVIOUS
<1>2. id \notin Attempted(b, es)
  <2>1. \A x \in Attempted(b, es) : todo[x] \in Todos
    BY DEF Attempted, Live, ManifestTypeOK
  <2>2. \A x \in Attempted(b, es) : [todo[x] EXCEPT !.attempts = 0].attempts = 0
    BY <2>1 DEF Todos
  <2>3. QED
    BY <1>1, <2>2 DEF ResetAttempts
<1>3. todo'[id] = todo[id] /\ id \in Live
  BY <1>1, <1>2 DEF ResetAttempts, Live
<1>4. todo[id].item.blob \in Blobs /\ todo[id].item.extractor \in Extractors
  BY <1>3 DEF Live, ManifestTypeOK, Todos, Items
<1>5. CASE Locked(todo[id].item.blob)
  BY <1>3, <1>5 DEF Locked
<1>6. CASE Failed(todo[id].item)
  <2>1. todo[id].item.blob # b \/ todo[id].item.extractor \notin es
    BY <1>2, <1>3 DEF Attempted
  <2>2. failures'[todo[id].item.blob][todo[id].item.extractor]
          = failures[todo[id].item.blob][todo[id].item.extractor]
    BY <1>4, <2>1 DEF ClearFailures, ManifestTypeOK
  <2>3. QED
    BY <1>3, <1>6, <2>2 DEF Failed
<1>7. QED
  BY <1>3, <1>5, <1>6 DEF NoAttemptStranded

LEMMA StrandedUnchanged ==
  ASSUME NoAttemptStranded, UNCHANGED <<todo, failures, locks>>
  PROVE  NoAttemptStranded'
BY DEF NoAttemptStranded, Live, Locked, Failed

LEMMA StrandedPoll ==
  ASSUME TypeOK, NoAttemptStranded, NEW w \in Workers, Poll(w)
  PROVE  NoAttemptStranded'
<1>1. CASE GetWorkerDetails(w) \/ FetchRead(w)
  BY <1>1, StrandedUnchanged DEF GetWorkerDetails, FetchRead, manifestVars
<1>2. CASE FetchWrite(w)
  <2>1. CASE selected[w] \subseteq Live
    BY <1>2, <2>1, StrandedClaim DEF FetchWrite, TypeOK
  <2>2. CASE ~(selected[w] \subseteq Live)
    BY <1>2, <2>2, StrandedUnchanged DEF FetchWrite, manifestVars
  <2>3. QED
    BY <2>1, <2>2
<1>3. CASE RejectBatch(w)
  <2> DEFINE of(b, e) == {i \in batch[w] \ Recognised(w) : i.blob = b /\ i.extractor = e}
  <2>1. \A b \in Blobs, e \in Extractors : Cardinality(of(b, e)) \in Nat
    <3>1. \A b, e : of(b, e) \in SUBSET Items
      BY DEF TypeOK
    <3>2. QED
      BY <3>1, ItemsAssumption, FS_Subset, FS_CardinalityType
  <2>2. failures' = [b \in Blobs |-> [e \in Extractors |-> failures[b][e] + Cardinality(of(b, e))]]
    BY <1>3 DEF RejectBatch
  <2> HIDE DEF of
  <2>3. \A b \in Blobs, e \in Extractors : failures[b][e] > 0 => failures'[b][e] > 0
    BY <2>1, <2>2 DEF TypeOK, ManifestTypeOK
  <2>4. QED
    BY <1>3, <2>3, StrandedFailure DEF RejectBatch, TypeOK
<1>4. CASE Release(w)
  BY <1>4, StrandedRelease DEF Release, TypeOK
<1>5. ASSUME NEW i \in Items, Succeed(w, i) \/ HandOver(w, i)
      PROVE  NoAttemptStranded'
  <2>1. CASE UNCHANGED manifestVars
    BY <2>1, StrandedUnchanged DEF manifestVars
  <2>2. CASE \E id \in TodoIds : DeleteTodo(id) /\ UNCHANGED <<failures, locks>>
    BY <2>2, StrandedDelete DEF TypeOK
  <2>3. QED
    BY <1>5, <2>1, <2>2
       DEF Succeed, HandOver, MarkAsComplete, MarkExternalAsProcessing, MatchingTodos, Live
<1>6. ASSUME NEW i \in Items, Fail(w, i)
      PROVE  NoAttemptStranded'
  <2>1. \A b \in Blobs, e \in Extractors : failures[b][e] > 0 => failures'[b][e] > 0
    BY <1>6 DEF Fail, LogExtractionFailure, TypeOK, ManifestTypeOK
  <2>2. QED
    BY <1>6, <2>1, StrandedFailure DEF Fail, LogExtractionFailure, TypeOK
<1>7. QED
  BY <1>1, <1>2, <1>3, <1>4, <1>5, <1>6 DEF Poll

LEMMA StrandedReprocess ==
  ASSUME TypeOK, NoAttemptStranded, NEW b \in Blobs, Reprocess(b)
  PROVE  NoAttemptStranded'
<1>1. CASE UNCHANGED manifestVars
  BY <1>1, StrandedUnchanged DEF manifestVars
<1>2. CASE RerunFailed(b)
  <2> DEFINE es == FailedExtractors(b, Extractors \ External)
  <2>1. es \in SUBSET Extractors
    BY DEF FailedExtractors
  <2> HIDE DEF es
  <2>2. ClearFailures(b, es) /\ todo' = ResetAttempts(Attempted(b, es)) /\ UNCHANGED locks
    BY <1>2 DEF RerunFailed, es
  <2>3. QED
    BY <2>1, <2>2, StrandedRerun DEF TypeOK
<1>3. CASE RerunFailedExternal(b, Held)
  <2> DEFINE es == FailedExtractors(b, External)
             reset == ResetAttempts(Attempted(b, es))
  <2>1. es \in SUBSET Extractors
    BY ExternalAssumption DEF FailedExtractors
  <2>2. \A id \in TodoIds :
           todo'[id] = reset[id] \/ (todo'[id] # NoTodo /\ todo'[id].attempts = 0)
    <3> HIDE DEF es
    <3>1. CASE todo' = reset
      BY <3>1
    <3>2. ASSUME NEW i \in WithoutTodo(Replaced(b)), NEW new \in FreshIds(Held),
                 todo' = [reset EXCEPT ![new] = [item |-> i, attempts |-> 0]]
          PROVE  \A id \in TodoIds :
                   todo'[id] = reset[id] \/ (todo'[id] # NoTodo /\ todo'[id].attempts = 0)
      <4>1. i \in Items
        BY DEF WithoutTodo, Replaced, ProcessingItems
      <4>2. [item |-> i, attempts |-> 0] # NoTodo
        BY <4>1, NoTodoAssumption DEF Todos
      <4>3. reset = [id \in TodoIds |-> reset[id]]
        BY DEF ResetAttempts
      <4> HIDE DEF reset
      <4>4. QED
        BY <3>2, <4>2, <4>3
    <3>3. QED
      BY <1>3, <3>1, <3>2 DEF RerunFailedExternal, es
  <2> HIDE DEF es
  <2>3. ClearFailures(b, es) /\ UNCHANGED locks
    BY <1>3 DEF RerunFailedExternal, es
  <2>4. QED
    BY <2>1, <2>2, <2>3, StrandedRerun DEF TypeOK
<1>4. CASE RerunSuccessful(b, Held)
  <2> DEFINE done == {p \in processed : p.blob = b}
  <2>1. done \in SUBSET Items
    BY DEF TypeOK, ManifestTypeOK
  <2>2. CreateTodos(done, Held) /\ UNCHANGED <<failures, locks>>
    BY <1>4 DEF RerunSuccessful
  <2>3. QED
    BY <2>1, <2>2, StrandedCreate DEF TypeOK
<1>5. QED
  BY <1>1, <1>2, <1>3, <1>4
     DEF Reprocess, RequestReprocess, ReprocessFailed, ReprocessExternal, ReprocessSuccessful

LEMMA StrandedNext == TypeOK /\ NoAttemptStranded /\ [Next]_vars => NoAttemptStranded'
<1> SUFFICES ASSUME TypeOK, NoAttemptStranded, [Next]_vars PROVE NoAttemptStranded'
  OBVIOUS
<1>1. ASSUME NEW w \in Workers, Poll(w) PROVE NoAttemptStranded'
  BY <1>1, StrandedPoll
<1>2. ASSUME NEW w \in Workers, Trouble(w) PROVE NoAttemptStranded'
  BY <1>2, StrandedUnchanged
     DEF Trouble, Launch, Terminate, Disappear, Crash, FetchFails, ReleaseFails, Interrupt,
         LoseOutcome, manifestVars
<1>3. ASSUME NEW b \in Blobs, Reprocess(b) PROVE NoAttemptStranded'
  BY <1>3, StrandedReprocess
<1>4. ASSUME NEW b \in Blobs, NEW ctx \in Uploads, Ingest(b, ctx) PROVE NoAttemptStranded'
  <2>1. Missing(b, Applicable[b], ctx) \in SUBSET Items
    BY UploadsAssumption, ApplicableAssumption DEF Missing, Wanted, Items
  <2>2. CreateTodos(Missing(b, Applicable[b], ctx), Held) /\ UNCHANGED <<failures, locks>>
    BY <1>4 DEF Ingest, InsertBlob
  <2>3. QED
    BY <2>1, <2>2, StrandedCreate DEF TypeOK
<1>5. CASE BreakLocks
  BY <1>5, StrandedRelease DEF BreakLocks, TypeOK
<1>6. CASE UNCHANGED vars
  BY <1>6, StrandedUnchanged DEF vars, manifestVars
<1>7. QED
  BY <1>1, <1>2, <1>3, <1>4, <1>5, <1>6 DEF Next

\* No TODO is out of every worker's reach for good: one whose attempts are used
\* up is locked, and will be reset when the lock goes, or its extractor has a
\* failure a user can rerun.
THEOREM NothingStranded == Spec => []NoAttemptStranded
<1>1. Init => NoAttemptStranded
  BY DEF Init, ManifestInit, NoAttemptStranded, Live
<1>2. QED
  BY <1>1, InitType, NextType, StrandedNext, PTL DEF Spec

-----------------------------------------------------------------------------
(***************************************************************************)
(* A running worker holds the locks of its batch.  Locks are taken in the  *)
(* transaction that returns the batch, and deleted only for a worker whose *)
(* batch is over or that EC2 no longer lists as running.  The invariant    *)
(* has to add that an instance starts with nothing to execute.             *)
(***************************************************************************)

NothingBeforeLaunch ==
  \A w \in Workers : status[w] = "absent" => pc[w] = "idle" /\ batch[w] = {}

BatchLocked == RunningBatchLocked /\ NothingBeforeLaunch

\* A step that keeps the locks of the running workers and adds nothing to any
\* batch, nor starts a worker that has one.
LEMMA LockedShrink ==
  ASSUME BatchLocked, Running' \subseteq Running,
         \A w \in Workers : batch'[w] \subseteq batch[w],
         \A w \in Running : \A i \in batch'[w] : <<i.blob, w>> \in locks => <<i.blob, w>> \in locks'
  PROVE  RunningBatchLocked'
BY DEF BatchLocked, RunningBatchLocked, Running

LEMMA LockedPoll ==
  ASSUME TypeOK, BatchLocked, NEW w \in Workers, Poll(w)
  PROVE  BatchLocked'
<1> USE DEF BatchLocked
<1>1. CASE GetWorkerDetails(w)
  BY <1>1 DEF GetWorkerDetails, RunningBatchLocked, NothingBeforeLaunch, Running, Alive, Goto,
              TypeOK, manifestVars
<1>2. CASE FetchRead(w)
  BY <1>2 DEF FetchRead, RunningBatchLocked, NothingBeforeLaunch, Running, Goto,
              TypeOK, manifestVars
<1>3. CASE FetchWrite(w)
  <2>1. NothingBeforeLaunch'
    BY <1>3 DEF FetchWrite, NothingBeforeLaunch, Goto, TypeOK
  <2>2. CASE selected[w] \subseteq Live
    <3>1. locks' = locks \cup {<<todo[id].item.blob, w>> : id \in selected[w]}
      BY <1>3, <2>2 DEF FetchWrite, ClaimTodos
    <3>2. batch' = [batch EXCEPT ![w] = {todo[id].item : id \in selected[w]}]
      BY <1>3, <2>2 DEF FetchWrite
    <3>3. Running' = Running
      BY <1>3 DEF FetchWrite, Running
    <3>4. ASSUME NEW v \in Running, NEW i \in batch'[v]
          PROVE  <<i.blob, v>> \in locks'
      <4>1. CASE v = w
        BY <3>1, <3>2, <4>1 DEF TypeOK
      <4>2. CASE v # w
        BY <3>1, <3>2, <4>2 DEF TypeOK, RunningBatchLocked, Running
      <4>3. QED
        BY <4>1, <4>2
    <3>5. QED
      BY <2>1, <3>3, <3>4 DEF RunningBatchLocked
  <2>3. CASE ~(selected[w] \subseteq Live)
    BY <1>3, <2>1, <2>3 DEF FetchWrite, RunningBatchLocked, Running, manifestVars
  <2>4. QED
    BY <2>2, <2>3
<1>4. CASE RejectBatch(w)
  BY <1>4, LockedShrink DEF RejectBatch, NothingBeforeLaunch, Running, TypeOK
<1>5. CASE Release(w)
  <2>1. NothingBeforeLaunch'
    BY <1>5 DEF Release, NothingBeforeLaunch, Goto, TypeOK
  <2>2. locks' = {l \in locks : l[2] # w} /\ batch[w] = {} /\ batch' = batch /\ Running' = Running
    BY <1>5 DEF Release, ReleaseLocks, WorkerLocks, Running
  <2>3. ASSUME NEW v \in Running, NEW i \in batch'[v], <<i.blob, v>> \in locks
        PROVE  <<i.blob, v>> \in locks'
    BY <2>2, <2>3
  <2>4. QED
    BY <2>1, <2>2, <2>3, LockedShrink
<1>6. ASSUME NEW i \in Items, Succeed(w, i) \/ HandOver(w, i) \/ Fail(w, i)
      PROVE  BatchLocked'
  <2>1. Execute(w, i)
    BY <1>6 DEF Succeed, HandOver, Fail
  <2>2. UNCHANGED <<locks, status, pc>>
    BY <1>6 DEF Succeed, HandOver, Fail, Execute, MarkAsComplete, MarkExternalAsProcessing,
                LogExtractionFailure, manifestVars
  <2>3. \A v \in Workers : batch'[v] \subseteq batch[v]
    BY <2>1 DEF Execute, TypeOK
  <2>4. QED
    BY <2>2, <2>3, LockedShrink DEF NothingBeforeLaunch, Running
<1>7. QED
  BY <1>1, <1>2, <1>3, <1>4, <1>5, <1>6 DEF Poll

LEMMA LockedTrouble ==
  ASSUME TypeOK, BatchLocked, NEW w \in Workers, Trouble(w)
  PROVE  BatchLocked'
<1> USE DEF BatchLocked
<1>1. CASE Launch(w)
  BY <1>1 DEF Launch, RunningBatchLocked, NothingBeforeLaunch, Running, TypeOK, manifestVars
<1>2. CASE Terminate(w)
  BY <1>2 DEF Terminate, RunningBatchLocked, NothingBeforeLaunch, Running, TypeOK, manifestVars
<1>3. CASE Disappear(w) \/ Crash(w)
  <2>1. UNCHANGED locks /\ batch' = [batch EXCEPT ![w] = {}] /\ Running' \subseteq Running
    BY <1>3 DEF Disappear, Crash, Stopped, Running, TypeOK, manifestVars
  <2>2. NothingBeforeLaunch'
    BY <1>3 DEF Disappear, Crash, Stopped, Goto, NothingBeforeLaunch, TypeOK
  <2>3. QED
    BY <2>1, <2>2, LockedShrink DEF TypeOK
<1>4. CASE FetchFails(w) \/ ReleaseFails(w)
  <2>1. UNCHANGED <<locks, batch, status>>
    BY <1>4 DEF FetchFails, ReleaseFails, manifestVars
  <2>2. NothingBeforeLaunch'
    BY <1>4 DEF FetchFails, ReleaseFails, Alive, Goto, NothingBeforeLaunch, TypeOK
  <2>3. QED
    BY <2>1, <2>2 DEF RunningBatchLocked, Running
<1>5. ASSUME NEW i \in Items, Interrupt(w, i) \/ LoseOutcome(w, i)
      PROVE  BatchLocked'
  BY <1>5, LockedShrink
     DEF Interrupt, LoseOutcome, Execute, NothingBeforeLaunch, Running, TypeOK, manifestVars
<1>6. QED
  BY <1>1, <1>2, <1>3, <1>4, <1>5 DEF Trouble

LEMMA LockedNext == TypeOK /\ BatchLocked /\ [Next]_vars => BatchLocked'
<1> SUFFICES ASSUME TypeOK, BatchLocked, [Next]_vars PROVE BatchLocked'
  OBVIOUS
<1>1. ASSUME NEW w \in Workers, Poll(w) \/ Trouble(w) PROVE BatchLocked'
  BY <1>1, LockedPoll, LockedTrouble
<1>2. CASE UNCHANGED <<locks, workerVars>>
  BY <1>2 DEF BatchLocked, RunningBatchLocked, NothingBeforeLaunch, Running, workerVars
<1>3. ASSUME NEW b \in Blobs, Reprocess(b) \/ \E ctx \in Uploads : Ingest(b, ctx)
      PROVE  BatchLocked'
  BY <1>2, <1>3
     DEF Reprocess, RequestReprocess, ReprocessFailed, ReprocessExternal, ReprocessSuccessful,
         RerunFailed, RerunFailedExternal, RerunSuccessful, Ingest, InsertBlob, manifestVars
<1>4. CASE BreakLocks
  <2>1. UNCHANGED workerVars /\ locks' = {l \in locks : l[2] \notin Workers \ Running}
    BY <1>4 DEF BreakLocks, ReleaseLocks, WorkerLocks
  <2>2. QED
    BY <2>1, LockedShrink DEF BatchLocked, NothingBeforeLaunch, Running, workerVars
<1>5. CASE UNCHANGED vars
  BY <1>2, <1>5 DEF vars, manifestVars
<1>6. QED
  BY <1>1, <1>3, <1>4, <1>5 DEF Next

\* Nobody takes away the lock of a blob that a worker EC2 lists as running is
\* still to execute: not the lock breaker, not the end of another batch.
THEOREM RunningKeepLocks == Spec => []RunningBatchLocked
<1>1. Init => BatchLocked
  BY DEF Init, BatchLocked, RunningBatchLocked, NothingBeforeLaunch, Running
<1>2. BatchLocked => RunningBatchLocked
  BY DEF BatchLocked
<1>3. QED
  BY <1>1, <1>2, InitType, NextType, LockedNext, PTL DEF Spec

-----------------------------------------------------------------------------
(***************************************************************************)
(* An item is recorded once.  The invariant is inductive as it stands: a   *)
(* TODO is created for items that have neither a TODO nor a PROCESSED, or  *)
(* in the transaction that deletes the PROCESSED, and a PROCESSED is       *)
(* created in the one that deletes the only TODO that matches it.          *)
(***************************************************************************)

Internal(i) == i.extractor \notin External

LEMMA OnceCreate ==
  ASSUME ManifestTypeOK, RecordedOnce, NEW items \in SUBSET Items, NEW held,
         CreateTodos(items, held), processed' \subseteq processed,
         \A i \in items : Internal(i) => i \notin TodoItems /\ i \notin processed'
  PROVE  RecordedOnce'
<1>1. PICK new \in SUBSET FreshIds(held) :
        \E f \in Bijection(new, items) :
          todo' = [x \in TodoIds |->
                     IF x \in new THEN [item |-> f[x], attempts |-> 0] ELSE todo[x]]
  BY DEF CreateTodos
<1>2. PICK f \in Bijection(new, items) :
        todo' = [x \in TodoIds |->
                   IF x \in new THEN [item |-> f[x], attempts |-> 0] ELSE todo[x]]
  BY <1>1
<1>3. /\ f \in [new -> items]
      /\ \A x, y \in new : f[x] = f[y] => x = y
  BY <1>2 DEF Bijection, Injection, IsInjective
<1>4. \A x \in new : x \in TodoIds /\ x \notin Live /\ todo'[x].item = f[x] /\ f[x] \in items
  BY <1>2, <1>3 DEF FreshIds
<1>5. \A x \in Live' \ new : x \in Live /\ todo'[x].item = todo[x].item /\ todo[x].item \in TodoItems
  BY <1>2 DEF Live, TodoItems
<1> SUFFICES ASSUME NEW id \in Live', Internal(todo'[id].item)
             PROVE  /\ todo'[id].item \notin processed'
                    /\ \A other \in Live' \ {id} : todo'[other].item # todo'[id].item
  BY DEF RecordedOnce, Internal
<1>6. todo'[id].item \notin processed'
  BY <1>4, <1>5 DEF RecordedOnce, Internal
<1>7. ASSUME NEW other \in Live' \ {id}, todo'[other].item = todo'[id].item
      PROVE  FALSE
  <2>1. CASE id \in new /\ other \in new
    BY <1>3, <1>4, <1>7, <2>1
  <2>2. CASE id \notin new /\ other \notin new
    BY <1>5, <1>7, <2>2 DEF RecordedOnce, Internal
  <2>3. CASE id \in new /\ other \notin new
    BY <1>4, <1>5, <1>7, <2>3
  <2>4. CASE id \notin new /\ other \in new
    BY <1>4, <1>5, <1>7, <2>4
  <2>5. QED
    BY <2>1, <2>2, <2>3, <2>4
<1>8. QED
  BY <1>6, <1>7

\* A step that creates no TODO of an internal extractor, nor a PROCESSED beside
\* a TODO.
LEMMA OnceKept ==
  ASSUME RecordedOnce,
         \A id \in Live' : Internal(todo'[id].item) =>
            id \in Live /\ todo'[id].item = todo[id].item,
         \A i \in processed' : i \in processed \/ \A id \in Live' : todo'[id].item # i
  PROVE  RecordedOnce'
BY DEF RecordedOnce, Internal

\* Attempts are no part of the item.
LEMMA OnceReset ==
  ASSUME ManifestTypeOK, NEW ids \in SUBSET Live, NEW id \in TodoIds,
         ResetAttempts(ids)[id] # NoTodo
  PROVE  id \in Live /\ ResetAttempts(ids)[id].item = todo[id].item
<1>1. CASE id \in ids
  <2>1. todo[id] \in Todos
    BY <1>1 DEF Live, ManifestTypeOK
  <2>2. [todo[id] EXCEPT !.attempts = 0].item = todo[id].item
    BY <2>1 DEF Todos
  <2>3. QED
    BY <1>1, <2>2 DEF ResetAttempts
<1>2. CASE id \notin ids
  BY <1>2 DEF ResetAttempts, Live
<1>3. QED
  BY <1>1, <1>2

LEMMA OnceRelease ==
  ASSUME ManifestTypeOK, RecordedOnce, NEW ws, ReleaseLocks(ws)
  PROVE  RecordedOnce'
<1>1. Restarted(ws) \in SUBSET Live
  BY DEF Restarted
<1>2. \A id \in Live' : id \in Live /\ todo'[id].item = todo[id].item
  BY <1>1, OnceReset DEF ReleaseLocks, Live
<1>3. QED
  BY <1>2, OnceKept DEF ReleaseLocks

LEMMA OnceComplete ==
  ASSUME ManifestTypeOK, RecordedOnce, NEW i \in Items, MarkAsComplete(i)
  PROVE  RecordedOnce'
<1>1. CASE UNCHANGED manifestVars
  BY <1>1 DEF manifestVars, RecordedOnce, Live
<1>2. ASSUME CompletionCommits(i), NEW id \in MatchingTodos(i), DeleteTodo(id),
             processed' = processed \cup {i}
      PROVE  RecordedOnce'
  <2>1. MatchingTodos(i) = {id}
    BY <1>2 DEF CompletionCommits
  <2>2. \A x \in Live' : x \in Live \ {id} /\ todo'[x] = todo[x]
    BY <1>2 DEF DeleteTodo, ManifestTypeOK, Live
  <2>3. \A x \in Live' : todo'[x].item # i
    BY <2>1, <2>2 DEF MatchingTodos, Matches, SameWork
  <2>4. QED
    BY <1>2, <2>2, <2>3, OnceKept
<1>3. QED
  BY <1>1, <1>2 DEF MarkAsComplete

LEMMA OnceHandOver ==
  ASSUME ManifestTypeOK, RecordedOnce, NEW i \in Items, MarkExternalAsProcessing(i)
  PROVE  RecordedOnce'
<1>1. CASE UNCHANGED manifestVars
  BY <1>1 DEF manifestVars, RecordedOnce, Live
<1>2. ASSUME NEW id \in MatchingTodos(i), DeleteTodo(id), UNCHANGED processed
      PROVE  RecordedOnce'
  <2>1. \A x \in Live' : x \in Live /\ todo'[x] = todo[x]
    BY <1>2 DEF DeleteTodo, ManifestTypeOK, Live
  <2>2. QED
    BY <1>2, <2>1, OnceKept
<1>3. QED
  BY <1>1, <1>2 DEF MarkExternalAsProcessing

LEMMA OncePoll ==
  ASSUME TypeOK, RecordedOnce, NEW w \in Workers, Poll(w)
  PROVE  RecordedOnce'
<1>1. CASE UNCHANGED <<todo, processed>>
  BY <1>1 DEF RecordedOnce, Live
<1>2. CASE FetchWrite(w)
  <2>1. ASSUME selected[w] \subseteq Live PROVE RecordedOnce'
    <3>1. \A id \in Live' : id \in Live /\ todo'[id].item = todo[id].item
      <4>1. \A id \in selected[w] : [todo[id] EXCEPT !.attempts = @ + 1].item = todo[id].item
        BY <2>1 DEF Live, Todos, TypeOK, ManifestTypeOK
      <4>2. QED
        BY <1>2, <2>1, <4>1 DEF FetchWrite, ClaimTodos, Live
    <3>2. QED
      BY <1>2, <2>1, <3>1, OnceKept DEF FetchWrite, ClaimTodos
  <2>2. QED
    BY <1>1, <1>2, <2>1 DEF FetchWrite, manifestVars
<1>3. CASE Release(w)
  BY <1>3, OnceRelease DEF Release, TypeOK
<1>4. ASSUME NEW i \in Items, Succeed(w, i) \/ HandOver(w, i) \/ Fail(w, i)
      PROVE  RecordedOnce'
  BY <1>1, <1>4, OnceComplete, OnceHandOver DEF Succeed, HandOver, Fail, LogExtractionFailure, TypeOK
<1>5. CASE GetWorkerDetails(w) \/ FetchRead(w) \/ RejectBatch(w)
  BY <1>1, <1>5 DEF GetWorkerDetails, FetchRead, RejectBatch, manifestVars
<1>6. QED
  BY <1>2, <1>3, <1>4, <1>5 DEF Poll

LEMMA OnceReprocess ==
  ASSUME TypeOK, RecordedOnce, NEW b \in Blobs, Reprocess(b)
  PROVE  RecordedOnce'
<1>1. CASE UNCHANGED <<todo, processed>>
  BY <1>1 DEF RecordedOnce, Live
<1>2. CASE RerunFailed(b)
  <2> DEFINE again == Attempted(b, FailedExtractors(b, Extractors \ External))
  <2>1. again \in SUBSET Live
    BY DEF Attempted
  <2>2. todo' = ResetAttempts(again) /\ UNCHANGED processed
    BY <1>2 DEF RerunFailed
  <2> HIDE DEF again
  <2>3. \A id \in Live' : id \in Live /\ todo'[id].item = todo[id].item
    BY <2>1, <2>2, OnceReset DEF Live, TypeOK
  <2>4. QED
    BY <2>2, <2>3, OnceKept
<1>3. CASE RerunFailedExternal(b, Held)
  <2> DEFINE again == Attempted(b, FailedExtractors(b, External))
             reset == ResetAttempts(again)
  <2>1. again \in SUBSET Live
    BY DEF Attempted
  <2> HIDE DEF again
  <2>2. \A id \in TodoIds : reset[id] # NoTodo => id \in Live /\ reset[id].item = todo[id].item
    BY <2>1, OnceReset DEF TypeOK
  <2>3. UNCHANGED processed
    BY <1>3 DEF RerunFailedExternal
  <2>4. CASE todo' = reset
    BY <2>2, <2>3, <2>4, OnceKept DEF Live
  <2>5. ASSUME NEW i \in WithoutTodo(Replaced(b)), NEW new \in FreshIds(Held),
               todo' = [reset EXCEPT ![new] = [item |-> i, attempts |-> 0]]
        PROVE  RecordedOnce'
    <3>1. ~Internal(i)
      BY DEF WithoutTodo, Replaced, FailedExtractors, Internal
    <3>2. reset = [id \in TodoIds |-> reset[id]]
      BY DEF ResetAttempts
    <3> HIDE DEF reset
    <3>3. \A id \in TodoIds : id # new => todo'[id] = reset[id]
      BY <2>5, <3>2
    <3>4. new \in Live' => todo'[new].item = i
      BY <2>5, <3>2 DEF Live
    <3>5. \A id \in Live' : Internal(todo'[id].item) => id \in Live /\ todo'[id].item = todo[id].item
      BY <2>2, <3>1, <3>3, <3>4 DEF Live
    <3>6. QED
      BY <2>3, <3>5, OnceKept
  <2>6. QED
    BY <1>3, <2>4, <2>5 DEF RerunFailedExternal, again
<1>4. CASE RerunSuccessful(b, Held)
  <2> DEFINE done == {p \in processed : p.blob = b}
  <2>1. done \in SUBSET Items
    BY DEF TypeOK, ManifestTypeOK
  <2>2. CreateTodos(done, Held) /\ processed' = processed \ done
    BY <1>4 DEF RerunSuccessful
  <2>3. \A i \in done : Internal(i) => i \notin TodoItems /\ i \notin processed'
    BY <2>2 DEF RecordedOnce, Internal, TodoItems
  <2> HIDE DEF done
  <2>4. QED
    BY <2>1, <2>2, <2>3, OnceCreate DEF TypeOK
<1>5. QED
  BY <1>1, <1>2, <1>3, <1>4
     DEF Reprocess, RequestReprocess, ReprocessFailed, ReprocessExternal, ReprocessSuccessful,
         manifestVars

LEMMA OnceNext == TypeOK /\ RecordedOnce /\ [Next]_vars => RecordedOnce'
<1> SUFFICES ASSUME TypeOK, RecordedOnce, [Next]_vars PROVE RecordedOnce'
  OBVIOUS
<1>1. CASE UNCHANGED manifestVars
  BY <1>1 DEF manifestVars, RecordedOnce, Live
<1>2. ASSUME NEW w \in Workers, Poll(w) PROVE RecordedOnce'
  BY <1>2, OncePoll
<1>3. ASSUME NEW w \in Workers, Trouble(w) PROVE RecordedOnce'
  BY <1>1, <1>3
     DEF Trouble, Launch, Terminate, Disappear, Crash, FetchFails, ReleaseFails, Interrupt,
         LoseOutcome
<1>4. ASSUME NEW b \in Blobs, Reprocess(b) PROVE RecordedOnce'
  BY <1>4, OnceReprocess
<1>5. ASSUME NEW b \in Blobs, NEW ctx \in Uploads, Ingest(b, ctx) PROVE RecordedOnce'
  <2> DEFINE items == Missing(b, Applicable[b], ctx)
  <2>1. items \in SUBSET Items
    BY UploadsAssumption, ApplicableAssumption DEF Missing, Wanted, Items
  <2>2. CreateTodos(items, Held) /\ UNCHANGED processed
    BY <1>5 DEF Ingest, InsertBlob
  <2>3. \A i \in items : i \notin TodoItems /\ i \notin processed
    BY DEF Missing, MatchingProcessed, MatchingTodos, Matches, SameWork, TodoItems
  <2> HIDE DEF items
  <2>4. QED
    BY <2>1, <2>2, <2>3, OnceCreate DEF TypeOK
<1>6. CASE BreakLocks
  BY <1>6, OnceRelease DEF BreakLocks, TypeOK
<1>7. QED
  BY <1>1, <1>2, <1>3, <1>4, <1>5, <1>6 DEF Next, vars

\* An internal extractor's item never has two TODOs, or a TODO beside its
\* PROCESSED, however ingestion, reprocessing and workers interleave.
THEOREM WorkRecordedOnce == Spec => []RecordedOnce
<1>1. Init => RecordedOnce
  BY DEF Init, ManifestInit, RecordedOnce, Live
<1>2. QED
  BY <1>1, InitType, NextType, OnceNext, PTL DEF Spec

-----------------------------------------------------------------------------
(* What the operations of the manifest do to the items of the TODOs. *)

\* The same TODOs, whatever their attempts.
SameTodos == Live' = Live /\ \A id \in Live : todo'[id].item = todo[id].item

LEMMA ResetSame ==
  ASSUME ManifestTypeOK, NEW ids \in SUBSET Live, todo' = ResetAttempts(ids)
  PROVE  SameTodos
<1>1. \A id \in Live : todo'[id] # NoTodo
  BY NoTodoAssumption DEF ResetAttempts, ManifestTypeOK, Live, Todos
<1>2. \A id \in TodoIds : todo'[id] # NoTodo => id \in Live /\ todo'[id].item = todo[id].item
  BY OnceReset
<1>3. QED
  BY <1>1, <1>2 DEF SameTodos, Live

LEMMA ClaimSame ==
  ASSUME ManifestTypeOK, NEW w, NEW ids \in SUBSET Live, ClaimTodos(w, ids)
  PROVE  SameTodos
<1>1. ASSUME NEW id \in Live
      PROVE  todo'[id] # NoTodo /\ todo'[id].item = todo[id].item
  <2>1. todo[id] \in Todos
    BY DEF Live, ManifestTypeOK
  <2>2. [todo[id] EXCEPT !.attempts = @ + 1] \in Todos
        /\ [todo[id] EXCEPT !.attempts = @ + 1].item = todo[id].item
    BY <2>1 DEF Todos
  <2>3. QED
    BY <2>1, <2>2, NoTodoAssumption DEF ClaimTodos, Live
<1>2. \A id \in TodoIds : todo'[id] # NoTodo => id \in Live
  BY DEF ClaimTodos, Live
<1>3. QED
  BY <1>1, <1>2 DEF SameTodos, Live

LEMMA ReleaseSame ==
  ASSUME ManifestTypeOK, NEW ws, ReleaseLocks(ws)
  PROVE  SameTodos
BY ResetSame DEF ReleaseLocks, Restarted

\* One new TODO for each of the items, with an id that nobody holds.
LEMMA CreatedTodos ==
  ASSUME NEW items \in SUBSET Items, NEW held, CreateTodos(items, held)
  PROVE  \E new \in SUBSET FreshIds(held) :
           /\ Live' = Live \cup new
           /\ \A id \in Live : todo'[id] = todo[id]
           /\ \A id \in new : todo'[id].item \in items
           /\ \A i \in items : \E id \in new : todo'[id].item = i
<1>1. PICK new \in SUBSET FreshIds(held) :
        \E f \in Bijection(new, items) :
          todo' = [x \in TodoIds |->
                     IF x \in new THEN [item |-> f[x], attempts |-> 0] ELSE todo[x]]
  BY DEF CreateTodos
<1>2. PICK f \in Bijection(new, items) :
        todo' = [x \in TodoIds |->
                   IF x \in new THEN [item |-> f[x], attempts |-> 0] ELSE todo[x]]
  BY <1>1
<1>3. \A x \in new : f[x] \in Items
  BY <1>2 DEF Bijection, Injection
<1>4. \A x \in new : x \in TodoIds /\ x \notin Live
  BY DEF FreshIds
<1>5. \A x \in new : todo'[x] = [item |-> f[x], attempts |-> 0]
  BY <1>2, <1>4
<1>6. \A x \in Live : todo'[x] = todo[x]
  BY <1>2, <1>4 DEF Live
<1>7. Live' = Live \cup new
  <2>1. \A i \in Items : [item |-> i, attempts |-> 0] # NoTodo
    BY NoTodoAssumption DEF Todos
  <2>2. \A x \in new : todo'[x] # NoTodo
    BY <1>3, <1>5, <2>1
  <2>3. \A x \in TodoIds \ new : todo'[x] = todo[x]
    BY <1>2
  <2>4. QED
    BY <1>4, <2>2, <2>3 DEF Live
<1>8. \A x \in new : todo'[x].item = f[x]
  BY <1>2, <1>4
<1>9. /\ \A x \in new : f[x] \in items
      /\ \A i \in items : \E x \in new : f[x] = i
  BY <1>2 DEF Bijection, Injection, Surjection
<1>10. /\ \A x \in new : todo'[x].item \in items
       /\ \A i \in items : \E x \in new : todo'[x].item = i
  BY <1>8, <1>9
<1>11. WITNESS new \in SUBSET FreshIds(held)
<1>12. QED
  BY <1>6, <1>7, <1>10

LEMMA DeletedTodo ==
  ASSUME ManifestTypeOK, NEW id \in TodoIds, DeleteTodo(id)
  PROVE  Live' = Live \ {id} /\ \A x \in Live' : todo'[x] = todo[x]
BY DEF DeleteTodo, ManifestTypeOK, Live

-----------------------------------------------------------------------------
(***************************************************************************)
(* Workers with the same view are apart.  The two halves of fetchWork are  *)
(* not one step, so what a worker has read must be kept apart from what    *)
(* the others execute, from the read on: no lock was on the blob then, the *)
(* ids it read are of its own partition, and nobody reuses an id while it  *)
(* is held.  With one TODO for each item, its write finds the same.        *)
(***************************************************************************)

\* What a worker has read it holds between the two halves of fetchWork only,
\* and a batch from then to its end.
HoldsInTurn ==
  \A w \in Workers :
    /\ pc[w] # "fetching" => selected[w] = {}
    /\ pc[w] # "executing" => batch[w] = {}
    /\ status[w] = "absent" => pc[w] = "idle"

ReadsItsPartition ==
  \A w \in Running : \A id \in selected[w] : InPartition(w, view[w], id)

ReadIsApart ==
  \A w, v \in Running :
    w # v /\ view[w] = view[v] =>
      \A id \in selected[w] \cap Live :
        Internal(todo[id].item) => todo[id].item \notin batch[v]

Apart == HoldsInTurn /\ ReadsItsPartition /\ ReadIsApart /\ SameViewExclusive

\* The TODOs that somebody has read are deleted or stay what they were.
HeldKept == \A id \in Held \cap Live' : id \in Live /\ todo'[id].item = todo[id].item

LEMMA IndexGrows ==
  ASSUME NEW nodes \in SUBSET Workers, NEW w \in nodes, NEW v \in nodes, w < v
  PROVE  WorkerIndex(w, nodes) < WorkerIndex(v, nodes)
<1> DEFINE below(x) == {u \in nodes : u < x}
<1>1. IsFiniteSet(below(v)) /\ below(w) \in SUBSET below(v) /\ w \in below(v) \ below(w)
  <2>1. IsFiniteSet(below(v))
    BY WorkersAssumption, FS_Subset
  <2>2. \A u \in nodes : u \in Nat
    BY WorkersAssumption
  <2>3. ~(w < w) /\ \A u \in nodes : u < w => u < v
    BY <2>2
  <2>4. QED
    BY <2>1, <2>3
<1> HIDE DEF below
<1>2. /\ Cardinality(below(w)) <= Cardinality(below(v))
      /\ Cardinality(below(w)) # Cardinality(below(v))
      /\ IsFiniteSet(below(w))
  BY <1>1, FS_Subset
<1>3. Cardinality(below(w)) \in Nat /\ Cardinality(below(v)) \in Nat
  BY <1>1, <1>2, FS_CardinalityType
<1>4. Cardinality(below(w)) < Cardinality(below(v))
  BY <1>2, <1>3
<1>5. QED
  BY <1>4 DEF WorkerIndex, below

LEMMA IndexType ==
  ASSUME NEW nodes \in SUBSET Workers, NEW w \in nodes
  PROVE  WorkerIndex(w, nodes) \in Nat
<1>1. IsFiniteSet({u \in nodes : u < w})
  BY WorkersAssumption, FS_Subset
<1>2. QED
  BY <1>1, FS_CardinalityType DEF WorkerIndex

LEMMA PartitionsApart ==
  ASSUME NEW nodes \in SUBSET Workers, NEW w \in nodes, NEW v \in nodes, w # v, NEW id,
         InPartition(w, nodes, id), InPartition(v, nodes, id)
  PROVE  FALSE
<1>1. WorkerIndex(w, nodes) = WorkerIndex(v, nodes)
  BY DEF InPartition
<1>2. CASE w < v
  BY <1>1, <1>2, IndexGrows, IndexType
<1>3. CASE v < w
  BY <1>1, <1>3, IndexGrows, IndexType
<1>4. QED
  BY <1>2, <1>3, WorkersAssumption

LEMMA HeldSame ==
  ASSUME SameTodos
  PROVE  HeldKept
BY DEF SameTodos, HeldKept

LEMMA HeldUnchanged ==
  ASSUME UNCHANGED todo
  PROVE  HeldKept
BY DEF HeldKept, Live

LEMMA HeldCreated ==
  ASSUME NEW items \in SUBSET Items, CreateTodos(items, Held)
  PROVE  HeldKept
<1>1. PICK new \in SUBSET FreshIds(Held) :
        Live' = Live \cup new /\ \A id \in Live : todo'[id] = todo[id]
  BY CreatedTodos
<1>2. new \cap Held = {}
  BY DEF FreshIds
<1>3. QED
  BY <1>1, <1>2 DEF HeldKept

LEMMA HeldDeleted ==
  ASSUME ManifestTypeOK, NEW id \in TodoIds, DeleteTodo(id)
  PROVE  HeldKept
BY DeletedTodo DEF HeldKept

LEMMA HeldPoll ==
  ASSUME TypeOK, NEW w \in Workers, Poll(w)
  PROVE  HeldKept
<1>1. ManifestTypeOK
  BY DEF TypeOK
<1>2. CASE UNCHANGED todo
  BY <1>2, HeldUnchanged
<1>3. CASE FetchWrite(w)
  <2>1. CASE selected[w] \subseteq Live
    BY <1>1, <1>3, <2>1, ClaimSame, HeldSame DEF FetchWrite
  <2>2. CASE ~(selected[w] \subseteq Live)
    BY <1>2, <1>3, <2>2 DEF FetchWrite, manifestVars
  <2>3. QED
    BY <2>1, <2>2
<1>4. CASE Release(w)
  BY <1>1, <1>4, ReleaseSame, HeldSame DEF Release
<1>5. ASSUME NEW i \in Items, Succeed(w, i) \/ HandOver(w, i)
      PROVE  HeldKept
  <2>1. CASE \E id \in TodoIds : DeleteTodo(id)
    BY <1>1, <2>1, HeldDeleted
  <2>2. QED
    BY <1>2, <1>5, <2>1 DEF Succeed, HandOver, MarkAsComplete, MarkExternalAsProcessing,
                            MatchingTodos, Live, manifestVars
<1>6. CASE GetWorkerDetails(w) \/ FetchRead(w) \/ RejectBatch(w) \/ \E i \in Items : Fail(w, i)
  BY <1>2, <1>6 DEF GetWorkerDetails, FetchRead, RejectBatch, Fail, LogExtractionFailure, manifestVars
<1>7. QED
  BY <1>3, <1>4, <1>5, <1>6 DEF Poll

LEMMA HeldReprocess ==
  ASSUME TypeOK, NEW b \in Blobs, Reprocess(b)
  PROVE  HeldKept
<1>1. ManifestTypeOK
  BY DEF TypeOK
<1>2. CASE UNCHANGED manifestVars
  BY <1>2, HeldUnchanged DEF manifestVars
<1>3. CASE RerunFailed(b)
  BY <1>1, <1>3, ResetSame, HeldSame DEF RerunFailed, Attempted
<1>4. CASE RerunFailedExternal(b, Held)
  <2> DEFINE again == Attempted(b, FailedExtractors(b, External))
             reset == ResetAttempts(again)
  <2>1. again \in SUBSET Live
    BY DEF Attempted
  <2> HIDE DEF again
  <2>2. \A id \in TodoIds : reset[id] # NoTodo => id \in Live /\ reset[id].item = todo[id].item
    BY <1>1, <2>1, OnceReset
  <2>3. reset = [id \in TodoIds |-> reset[id]]
    BY DEF ResetAttempts
  <2>4. \A id \in TodoIds \cap Held : todo'[id] = reset[id]
    <3> HIDE DEF reset
    <3>1. CASE todo' = reset
      BY <3>1
    <3>2. ASSUME NEW i, NEW new \in FreshIds(Held),
                 todo' = [reset EXCEPT ![new] = [item |-> i, attempts |-> 0]]
          PROVE  \A id \in TodoIds \cap Held : todo'[id] = reset[id]
      BY <2>3, <3>2 DEF FreshIds
    <3>3. QED
      BY <1>4, <3>1, <3>2 DEF RerunFailedExternal, again, reset
  <2> HIDE DEF reset
  <2>5. QED
    BY <2>2, <2>4 DEF HeldKept, Live
<1>5. CASE RerunSuccessful(b, Held)
  BY <1>1, <1>5, HeldCreated DEF RerunSuccessful, ManifestTypeOK
<1>6. QED
  BY <1>2, <1>3, <1>4, <1>5
     DEF Reprocess, RequestReprocess, ReprocessFailed, ReprocessExternal, ReprocessSuccessful

LEMMA HeldNext == TypeOK /\ [Next]_vars => HeldKept
<1> SUFFICES ASSUME TypeOK, [Next]_vars PROVE HeldKept
  OBVIOUS
<1>1. CASE UNCHANGED manifestVars
  BY <1>1, HeldUnchanged DEF manifestVars
<1>2. ASSUME NEW w \in Workers, Poll(w) \/ Trouble(w) PROVE HeldKept
  BY <1>1, <1>2, HeldPoll
     DEF Trouble, Launch, Terminate, Disappear, Crash, FetchFails, ReleaseFails, Interrupt, LoseOutcome
<1>3. ASSUME NEW b \in Blobs, Reprocess(b) PROVE HeldKept
  BY <1>3, HeldReprocess
<1>4. ASSUME NEW b \in Blobs, NEW ctx \in Uploads, Ingest(b, ctx) PROVE HeldKept
  <2>1. Missing(b, Applicable[b], ctx) \in SUBSET Items
    BY UploadsAssumption, ApplicableAssumption DEF Missing, Wanted, Items
  <2>2. QED
    BY <1>4, <2>1, HeldCreated DEF Ingest, InsertBlob
<1>5. CASE BreakLocks
  BY <1>5, ReleaseSame, HeldSame DEF BreakLocks, TypeOK
<1>6. QED
  BY <1>1, <1>2, <1>3, <1>4, <1>5 DEF Next, vars

LEMMA TurnNext == TypeOK /\ HoldsInTurn /\ [Next]_vars => HoldsInTurn'
<1> SUFFICES ASSUME TypeOK, HoldsInTurn, [Next]_vars PROVE HoldsInTurn'
  OBVIOUS
<1> USE DEF HoldsInTurn
<1>1. CASE UNCHANGED workerVars
  BY <1>1 DEF workerVars
<1>2. ASSUME NEW w \in Workers, Poll(w) PROVE HoldsInTurn'
  <2>1. CASE GetWorkerDetails(w) \/ FetchRead(w)
    BY <2>1 DEF GetWorkerDetails, FetchRead, Alive, Goto, TypeOK
  <2>2. CASE FetchWrite(w)
    BY <2>2 DEF FetchWrite, Goto, manifestVars, TypeOK
  <2>3. CASE RejectBatch(w) \/ Release(w)
    BY <2>3 DEF RejectBatch, Release, Goto, TypeOK
  <2>4. CASE \E i \in Items : Succeed(w, i) \/ HandOver(w, i) \/ Fail(w, i)
    BY <2>4 DEF Succeed, HandOver, Fail, Execute, Executing, TypeOK
  <2>5. QED
    BY <1>2, <2>1, <2>2, <2>3, <2>4 DEF Poll
<1>3. ASSUME NEW w \in Workers, Trouble(w) PROVE HoldsInTurn'
  <2>1. CASE Launch(w) \/ Terminate(w)
    BY <2>1 DEF Launch, Terminate, TypeOK
  <2>2. CASE Disappear(w) \/ Crash(w)
    BY <2>2 DEF Disappear, Crash, Stopped, Goto, TypeOK
  <2>3. CASE FetchFails(w) \/ ReleaseFails(w)
    BY <2>3 DEF FetchFails, ReleaseFails, Alive, Goto, TypeOK
  <2>4. CASE \E i \in Items : Interrupt(w, i) \/ LoseOutcome(w, i)
    BY <2>4 DEF Interrupt, LoseOutcome, Execute, Executing, TypeOK
  <2>5. QED
    BY <1>3, <2>1, <2>2, <2>3, <2>4 DEF Trouble
<1>4. ASSUME NEW b \in Blobs, Reprocess(b) \/ \E ctx \in Uploads : Ingest(b, ctx)
      PROVE  HoldsInTurn'
  BY <1>1, <1>4 DEF Reprocess, RequestReprocess, ReprocessFailed, ReprocessExternal,
                    ReprocessSuccessful, Ingest
<1>5. CASE BreakLocks
  BY <1>1, <1>5 DEF BreakLocks
<1>6. QED
  BY <1>1, <1>2, <1>3, <1>4, <1>5 DEF Next, vars

\* A step in which each running worker keeps its view and takes up nothing, or
\* has nothing.
LEMMA ApartKept ==
  ASSUME Apart, HeldKept,
         \A w \in Running' :
           \/ batch'[w] = {} /\ selected'[w] = {}
           \/ /\ w \in Running /\ view'[w] = view[w]
              /\ batch'[w] \subseteq batch[w] /\ selected'[w] \subseteq selected[w]
  PROVE  ReadsItsPartition' /\ ReadIsApart' /\ SameViewExclusive'
<1>1. ReadsItsPartition'
  BY DEF Apart, ReadsItsPartition, InPartition, WorkerIndex
<1>2. ReadIsApart'
  <2> SUFFICES ASSUME NEW w \in Running', NEW v \in Running', w # v, view'[w] = view'[v],
                      NEW id \in selected'[w] \cap Live', Internal(todo'[id].item),
                      todo'[id].item \in batch'[v]
               PROVE  FALSE
    BY DEF ReadIsApart, Internal
  <2>1. w \in Running /\ v \in Running /\ view[w] = view[v]
        /\ id \in selected[w] /\ batch'[v] \subseteq batch[v]
    OBVIOUS
  <2>2. id \in Live /\ todo'[id].item = todo[id].item
    BY <2>1 DEF HeldKept, Held, Running
  <2>3. QED
    BY <2>1, <2>2 DEF Apart, ReadIsApart
<1>3. SameViewExclusive'
  <2> SUFFICES ASSUME NEW w \in Running', NEW v \in Running', w # v, view'[w] = view'[v],
                      NEW i \in batch'[w] \cap batch'[v]
               PROVE  i.extractor \in External
    BY DEF SameViewExclusive
  <2>1. w \in Running /\ v \in Running /\ view[w] = view[v] /\ i \in batch[w] \cap batch[v]
    OBVIOUS
  <2>2. QED
    BY <2>1 DEF Apart, SameViewExclusive
<1>4. QED
  BY <1>1, <1>2, <1>3

LEMMA ApartRead ==
  ASSUME TypeOK, RunningBatchLocked, Apart, NEW w \in Workers, FetchRead(w)
  PROVE  ReadsItsPartition' /\ ReadIsApart' /\ SameViewExclusive'
<1>1. PICK ids \in Batches(Candidates(w, view[w])) : selected' = [selected EXCEPT ![w] = ids]
  BY DEF FetchRead
<1>2. /\ ids \subseteq Candidates(w, view[w])
      /\ selected' = [v \in Workers |-> IF v = w THEN ids ELSE selected[v]]
  BY <1>1, BatchesAreCandidates DEF TypeOK
<1>3. UNCHANGED <<todo, status, view, batch>> /\ batch[w] = {} /\ Running' = Running /\ Live' = Live
  BY DEF FetchRead, manifestVars, Apart, HoldsInTurn, Running, Live
<1>4. ReadsItsPartition'
  BY <1>2, <1>3 DEF Apart, ReadsItsPartition, Candidates, InPartition, WorkerIndex, Running
<1>5. ReadIsApart'
  <2> SUFFICES ASSUME NEW v \in Running, NEW u \in Running, v # u, view[v] = view[u],
                      NEW id \in selected'[v] \cap Live, Internal(todo[id].item),
                      todo[id].item \in batch[u]
               PROVE  FALSE
    BY <1>3 DEF ReadIsApart, Internal
  <2>1. CASE v = w
    <3>1. ~Locked(todo[id].item.blob)
      BY <1>2, <2>1 DEF Candidates, Claimable, Running
    <3>2. <<todo[id].item.blob, u>> \in locks
      BY DEF RunningBatchLocked
    <3>3. QED
      BY <3>1, <3>2 DEF Locked, Running
  <2>2. CASE v # w
    BY <1>2, <2>2 DEF Apart, ReadIsApart, Running
  <2>3. QED
    BY <2>1, <2>2
<1>6. SameViewExclusive'
  BY <1>3 DEF Apart, SameViewExclusive
<1>7. QED
  BY <1>4, <1>5, <1>6

LEMMA ApartWrite ==
  ASSUME TypeOK, RecordedOnce, Apart, NEW w \in Workers, FetchWrite(w), selected[w] \subseteq Live
  PROVE  ReadsItsPartition' /\ ReadIsApart' /\ SameViewExclusive'
<1> DEFINE taken == {todo[id].item : id \in selected[w]}
<1>1. SameTodos
  BY ClaimSame DEF FetchWrite, TypeOK
<1>2. /\ batch' = [v \in Workers |-> IF v = w THEN taken ELSE batch[v]]
      /\ selected' = [v \in Workers |-> IF v = w THEN {} ELSE selected[v]]
      /\ view' = view /\ Running' = Running
  BY DEF FetchWrite, TypeOK, Running
<1>3. \A v \in Running' : v # w => batch'[v] = batch[v] /\ selected'[v] = selected[v]
  BY <1>2 DEF Running
<1>4. w \in Running' => batch'[w] = taken /\ selected'[w] = {}
  BY <1>2
<1> HIDE DEF taken
\* The ids that w has claimed are of its partition, those of v are of another.
<1>5. ASSUME NEW v \in Running, v # w, w \in Running, view[v] = view[w],
             NEW id \in selected[v] \cap Live, Internal(todo[id].item)
      PROVE  todo[id].item \notin taken
  <2>1. SUFFICES ASSUME NEW mine \in selected[w], todo[mine].item = todo[id].item
                 PROVE  FALSE
    BY DEF taken
  <2>2. mine = id
    BY <1>5, <2>1 DEF RecordedOnce, Internal
  <2>3. InPartition(w, view[w], id) /\ InPartition(v, view[w], id)
    BY <1>5, <2>2 DEF Apart, ReadsItsPartition
  <2>4. view[w] \in SUBSET Workers
    BY DEF TypeOK
  <2>5. QED
    BY <1>5, <2>3, <2>4, PartitionsApart DEF InPartition
\* What w claims was not, when it was read, in the batch of another.
<1>6. ASSUME NEW v \in Running, v # w, w \in Running, view[v] = view[w],
             NEW i \in taken \cap batch[v]
      PROVE  i.extractor \in External
  <2>1. PICK mine \in selected[w] : todo[mine].item = i
    BY DEF taken
  <2>2. QED
    BY <1>6, <2>1 DEF Apart, ReadIsApart, Internal
<1>7. ReadsItsPartition'
  BY <1>2, <1>3, <1>4 DEF Apart, ReadsItsPartition, InPartition, WorkerIndex
<1>8. ReadIsApart'
  <2> SUFFICES ASSUME NEW v \in Running', NEW u \in Running', v # u, view'[v] = view'[u],
                      NEW id \in selected'[v] \cap Live', Internal(todo'[id].item),
                      todo'[id].item \in batch'[u]
               PROVE  FALSE
    BY DEF ReadIsApart, Internal
  <2>1. v # w /\ v \in Running /\ u \in Running /\ view[v] = view[u]
        /\ id \in selected[v] \cap Live /\ todo'[id].item = todo[id].item
    BY <1>1, <1>2, <1>3, <1>4 DEF SameTodos
  <2>2. CASE u = w
    BY <1>4, <1>5, <2>1, <2>2
  <2>3. CASE u # w
    BY <1>3, <2>1, <2>3 DEF Apart, ReadIsApart
  <2>4. QED
    BY <2>2, <2>3
<1>9. SameViewExclusive'
  <2> SUFFICES ASSUME NEW v \in Running', NEW u \in Running', v # u, view'[v] = view'[u],
                      NEW i \in batch'[v] \cap batch'[u]
               PROVE  i.extractor \in External
    BY DEF SameViewExclusive
  <2>1. CASE v # w /\ u # w
    BY <1>2, <1>3, <2>1 DEF Apart, SameViewExclusive
  <2>2. CASE v = w
    BY <1>2, <1>3, <1>4, <1>6, <2>2
  <2>3. CASE u = w
    BY <1>2, <1>3, <1>4, <1>6, <2>3
  <2>4. QED
    BY <2>1, <2>2, <2>3
<1>10. QED
  BY <1>7, <1>8, <1>9

LEMMA ApartNext ==
  ASSUME TypeOK, RunningBatchLocked, RecordedOnce, Apart, [Next]_vars
  PROVE  Apart'
<1>1. HoldsInTurn'
  BY TurnNext DEF Apart
<1>2. HeldKept
  BY HeldNext
<1> DEFINE Rest == ReadsItsPartition' /\ ReadIsApart' /\ SameViewExclusive'
           Less(w) == \/ batch'[w] = {} /\ selected'[w] = {}
                      \/ /\ w \in Running /\ view'[w] = view[w]
                         /\ batch'[w] \subseteq batch[w] /\ selected'[w] \subseteq selected[w]
<1>3. (\A w \in Running' : Less(w)) => Rest
  BY <1>2, ApartKept
<1> HIDE DEF Rest
<1>4. ASSUME UNCHANGED workerVars PROVE Rest
  <2>1. UNCHANGED <<status, view, batch, selected>> /\ Running' = Running
    BY <1>4 DEF workerVars, Running
  <2>2. QED
    BY <1>3, <2>1
<1>5. ASSUME NEW w \in Workers, Poll(w) PROVE Rest
  <2>1. CASE GetWorkerDetails(w)
    <3>1. batch[w] = {} /\ selected[w] = {}
      BY <2>1 DEF GetWorkerDetails, Apart, HoldsInTurn
    <3>2. QED
      BY <1>3, <2>1, <3>1 DEF GetWorkerDetails, TypeOK, Running
  <2>2. CASE FetchRead(w)
    BY <2>2, ApartRead DEF Rest
  <2>3. CASE FetchWrite(w)
    <3>1. CASE selected[w] \subseteq Live
      BY <2>3, <3>1, ApartWrite DEF Rest
    <3>2. CASE ~(selected[w] \subseteq Live)
      BY <1>3, <2>3, <3>2 DEF FetchWrite, manifestVars, TypeOK, Running
    <3>3. QED
      BY <3>1, <3>2
  <2>4. CASE RejectBatch(w)
    BY <1>3, <2>4 DEF RejectBatch, TypeOK, Running
  <2>5. CASE Release(w)
    <3>1. batch[w] = {} /\ selected[w] = {}
      BY <2>5 DEF Release, Apart, HoldsInTurn
    <3>2. QED
      BY <1>3, <2>5, <3>1 DEF Release, TypeOK, Running
  <2>6. CASE \E i \in Items : Succeed(w, i) \/ HandOver(w, i) \/ Fail(w, i)
    BY <1>3, <2>6 DEF Succeed, HandOver, Fail, Execute, TypeOK, Running
  <2>7. QED
    BY <1>5, <2>1, <2>2, <2>3, <2>4, <2>5, <2>6 DEF Poll
<1>6. ASSUME NEW w \in Workers, Trouble(w) PROVE Rest
  <2>1. CASE Launch(w)
    <3>1. batch[w] = {} /\ selected[w] = {}
      BY <2>1 DEF Launch, Apart, HoldsInTurn
    <3>2. QED
      BY <1>3, <2>1, <3>1 DEF Launch, TypeOK, Running
  <2>2. CASE Terminate(w)
    BY <1>3, <2>2 DEF Terminate, TypeOK, Running
  <2>3. CASE Disappear(w) \/ Crash(w)
    BY <1>3, <2>3 DEF Disappear, Crash, Stopped, TypeOK, Running
  <2>4. CASE FetchFails(w)
    BY <1>3, <2>4 DEF FetchFails, TypeOK, Running
  <2>5. CASE ReleaseFails(w)
    <3>1. batch[w] = {} /\ selected[w] = {}
      BY <2>5 DEF ReleaseFails, Apart, HoldsInTurn
    <3>2. QED
      BY <1>3, <2>5, <3>1 DEF ReleaseFails, TypeOK, Running
  <2>6. CASE \E i \in Items : Interrupt(w, i) \/ LoseOutcome(w, i)
    BY <1>3, <2>6 DEF Interrupt, LoseOutcome, Execute, TypeOK, Running
  <2>7. QED
    BY <1>6, <2>1, <2>2, <2>3, <2>4, <2>5, <2>6 DEF Trouble
<1>7. ASSUME NEW b \in Blobs, Reprocess(b) \/ \E ctx \in Uploads : Ingest(b, ctx)
      PROVE  Rest
  <2>1. UNCHANGED workerVars
    BY <1>7 DEF Reprocess, RequestReprocess, ReprocessFailed, ReprocessExternal,
                ReprocessSuccessful, Ingest
  <2>2. QED
    BY <1>4, <2>1
<1>8. ASSUME BreakLocks PROVE Rest
  BY <1>4, <1>8 DEF BreakLocks
<1>9. Rest
  BY <1>4, <1>5, <1>6, <1>7, <1>8 DEF Next, vars
<1>10. QED
  BY <1>1, <1>9 DEF Apart, Rest

LEMMA ApartInit == Init => Apart
BY DEF Init, Apart, HoldsInTurn, ReadsItsPartition, ReadIsApart, SameViewExclusive, Running

\* Two running workers with the same list of nodes never execute the same item
\* of an internal extractor at once, whatever happens between what fetchWork
\* reads and what it writes.
THEOREM SameViewApart == Spec => []SameViewExclusive
<1>1. Init => BatchLocked /\ RecordedOnce
  BY DEF Init, ManifestInit, BatchLocked, RunningBatchLocked, NothingBeforeLaunch, Running,
         RecordedOnce, Live
<1>2. BatchLocked => RunningBatchLocked
  BY DEF BatchLocked
<1>3. Apart => SameViewExclusive
  BY DEF Apart
<1>4. QED
  BY <1>1, <1>2, <1>3, InitType, NextType, LockedNext, OnceNext, ApartInit, ApartNext, PTL DEF Spec

(***************************************************************************)
(* The books of the work queue: the items to do, handed over and done.  No *)
(* work is ever forgotten, and for the internal extractors the queue       *)
(* implements ExtractionLedger.                                            *)
(***************************************************************************)

Books == TodoItems \cup ProcessingItems \cup processed
SameBooks == TodoItems' = TodoItems /\ UNCHANGED <<processing, processed>>

-----------------------------------------------------------------------------
(* What the operations of the manifest do to the books *)

LEMMA TodosAreItems == ManifestTypeOK => TodoItems \subseteq Items
BY DEF ManifestTypeOK, TodoItems, Live, Todos

LEMMA SameItems ==
  ASSUME SameTodos
  PROVE  TodoItems' = TodoItems
BY DEF SameTodos, TodoItems

LEMMA UnchangedItems ==
  ASSUME UNCHANGED todo
  PROVE  TodoItems' = TodoItems
BY DEF TodoItems, Live

LEMMA CreatedItems ==
  ASSUME NEW items \in SUBSET Items, NEW held, CreateTodos(items, held)
  PROVE  TodoItems' = TodoItems \cup items
<1>1. PICK new \in SUBSET FreshIds(held) :
        /\ Live' = Live \cup new
        /\ \A id \in Live : todo'[id] = todo[id]
        /\ \A id \in new : todo'[id].item \in items
        /\ \A i \in items : \E id \in new : todo'[id].item = i
  BY CreatedTodos
<1>2. TodoItems' = {todo'[id].item : id \in Live'}
  BY DEF TodoItems
<1>3. TodoItems' \subseteq TodoItems \cup items
  BY <1>1, <1>2 DEF TodoItems
<1>4. TodoItems \subseteq TodoItems'
  BY <1>1, <1>2 DEF TodoItems
<1>5. items \subseteq TodoItems'
  BY <1>1, <1>2
<1>6. QED
  BY <1>3, <1>4, <1>5

\* The only TODO that matches an item is deleted.
LEMMA DeletedItems ==
  ASSUME ManifestTypeOK, NEW i, NEW id \in MatchingTodos(i), MatchingTodos(i) = {id}, DeleteTodo(id)
  PROVE  /\ Matches(i, todo[id].item) /\ todo[id].item \in TodoItems
         /\ TodoItems' \subseteq TodoItems
         /\ TodoItems \subseteq TodoItems' \cup {todo[id].item}
         /\ \A j \in TodoItems' : ~Matches(i, j)
<1>1. id \in Live /\ id \in TodoIds /\ Matches(i, todo[id].item)
  BY DEF MatchingTodos, Live
<1>2. Live' = Live \ {id} /\ \A x \in Live' : todo'[x] = todo[x]
  BY <1>1, DeletedTodo
<1>3. TodoItems' = {todo[x].item : x \in Live \ {id}}
  BY <1>2 DEF TodoItems
<1>4. \A j \in TodoItems' : ~Matches(i, j)
  BY <1>3 DEF MatchingTodos
<1>5. QED
  BY <1>1, <1>3, <1>4 DEF TodoItems

\* The TODOs of external extractors are reset, and at most one is made.
LEMMA RerunExternalItems ==
  ASSUME ManifestTypeOK, NEW b, NEW held, RerunFailedExternal(b, held)
  PROVE  \/ Replaced(b) = {} /\ TodoItems' = TodoItems
         \/ \E i \in WithoutTodo(Replaced(b)) : TodoItems' = TodoItems \cup {i}
<1> DEFINE again == Attempted(b, FailedExtractors(b, External))
           reset == ResetAttempts(again)
<1>1. again \in SUBSET Live
  BY DEF Attempted
<1> HIDE DEF again
<1>2. \A id \in Live : reset[id] # NoTodo /\ reset[id].item = todo[id].item
  <2>1. \A id \in Live : reset[id] # NoTodo
    BY NoTodoAssumption DEF ResetAttempts, ManifestTypeOK, Live, Todos
  <2>2. QED
    BY <1>1, <2>1, OnceReset DEF Live
<1>3. \A id \in TodoIds \ Live : reset[id] = NoTodo
  BY <1>1 DEF ResetAttempts, Live
<1>4. reset = [id \in TodoIds |-> reset[id]]
  BY DEF ResetAttempts
<1>5. CASE Replaced(b) = {} /\ todo' = reset
  <2>1. SameTodos
    BY <1>1, <1>5, ResetSame
  <2>2. QED
    BY <1>5, <2>1, SameItems
<1>6. ASSUME NEW i \in WithoutTodo(Replaced(b)), NEW new \in FreshIds(held),
             todo' = [reset EXCEPT ![new] = [item |-> i, attempts |-> 0]]
      PROVE  TodoItems' = TodoItems \cup {i}
  <2> HIDE DEF reset
  <2>1. i \in Items /\ new \in TodoIds /\ new \notin Live
    BY DEF WithoutTodo, Replaced, ProcessingItems, FreshIds
  <2>2. todo'[new] = [item |-> i, attempts |-> 0]
    BY <1>4, <1>6, <2>1
  <2>3. todo'[new] # NoTodo /\ todo'[new].item = i
    BY <2>1, <2>2, NoTodoAssumption DEF Todos
  <2>4. \A id \in TodoIds : id # new => todo'[id] = reset[id]
    BY <1>4, <1>6
  <2>5. Live' = Live \cup {new}
    BY <1>2, <1>3, <2>1, <2>3, <2>4 DEF Live
  <2>6. \A id \in Live : todo'[id].item = todo[id].item
    BY <1>2, <2>1, <2>4 DEF Live
  <2>7. TodoItems' = {todo'[id].item : id \in Live \cup {new}}
    BY <2>5 DEF TodoItems
  <2>8. QED
    BY <2>3, <2>6, <2>7 DEF TodoItems
<1>7. QED
  BY <1>5, <1>6 DEF RerunFailedExternal, again

\* Every step, seen on the books.
LEMMA BookSteps ==
  ASSUME TypeOK, [Next]_vars
  PROVE  \/ SameBooks
         \/ \E b \in Blobs, ctx \in Uploads : Ingest(b, ctx)
         \/ \E w \in Workers : \E i \in batch[w] : Internal(i) /\ MarkAsComplete(i)
         \/ \E w \in Workers : \E i \in batch[w] :
              i.extractor \in External /\ MarkExternalAsProcessing(i)
         \/ \E b \in Blobs : RerunFailedExternalCommits(b) /\ RerunFailedExternal(b, Held)
         \/ \E b \in Blobs : RerunSuccessful(b, Held)
<1>1. ManifestTypeOK
  BY DEF TypeOK
<1>2. ASSUME UNCHANGED <<todo, processing, processed>> PROVE SameBooks
  BY <1>2, UnchangedItems DEF SameBooks
<1>3. ASSUME NEW w \in Workers, Poll(w)
      PROVE  \/ SameBooks
             \/ \E i \in batch[w] : Internal(i) /\ MarkAsComplete(i)
             \/ \E i \in batch[w] : i.extractor \in External /\ MarkExternalAsProcessing(i)
  <2>1. CASE FetchWrite(w)
    <3>1. CASE selected[w] \subseteq Live
      BY <1>1, <2>1, <3>1, ClaimSame, SameItems DEF FetchWrite, ClaimTodos, SameBooks
    <3>2. QED
      BY <1>2, <2>1, <3>1 DEF FetchWrite, manifestVars
  <2>2. CASE Release(w)
    BY <1>1, <2>2, ReleaseSame, SameItems DEF Release, ReleaseLocks, SameBooks
  <2>3. ASSUME NEW i \in Items, Succeed(w, i) \/ HandOver(w, i) \/ Fail(w, i)
        PROVE  \/ SameBooks
               \/ i \in batch[w] /\ Internal(i) /\ MarkAsComplete(i)
               \/ i \in batch[w] /\ i.extractor \in External /\ MarkExternalAsProcessing(i)
    BY <1>2, <2>3 DEF Succeed, HandOver, Fail, Execute, Executing, Internal, LogExtractionFailure
  <2>4. CASE GetWorkerDetails(w) \/ FetchRead(w) \/ RejectBatch(w)
    BY <1>2, <2>4 DEF GetWorkerDetails, FetchRead, RejectBatch, manifestVars
  <2>5. QED
    BY <1>3, <2>1, <2>2, <2>3, <2>4 DEF Poll
<1>4. ASSUME NEW w \in Workers, Trouble(w) PROVE SameBooks
  BY <1>2, <1>4 DEF Trouble, Launch, Terminate, Disappear, Crash, FetchFails, ReleaseFails,
                    Interrupt, LoseOutcome, manifestVars
<1>5. ASSUME NEW b \in Blobs, RerunFailed(b) PROVE SameBooks
  BY <1>1, <1>5, ResetSame, SameItems DEF RerunFailed, Attempted, SameBooks
<1>6. ASSUME NEW b \in Blobs, Reprocess(b)
      PROVE  \/ SameBooks
             \/ RerunFailedExternalCommits(b) /\ RerunFailedExternal(b, Held)
             \/ RerunSuccessful(b, Held)
  BY <1>2, <1>5, <1>6 DEF Reprocess, RequestReprocess, ReprocessFailed, ReprocessExternal,
                          ReprocessSuccessful, manifestVars
<1>7. CASE BreakLocks
  BY <1>1, <1>7, ReleaseSame, SameItems DEF BreakLocks, ReleaseLocks, SameBooks
<1>8. CASE UNCHANGED vars
  BY <1>2, <1>8 DEF vars, manifestVars
<1>9. QED
  BY <1>3, <1>4, <1>6, <1>7, <1>8 DEF Next

-----------------------------------------------------------------------------
(* No work is forgotten. *)

\* Whatever leaves the books is followed by the same work, of some context.
Remembered == \A j \in Books : \E k \in Books' : SameWork(j, k)

LEMMA RememberedGrown ==
  ASSUME Books \subseteq Books'
  PROVE  Remembered
BY DEF Remembered, SameWork

LEMMA RememberedComplete ==
  ASSUME ManifestTypeOK, NEW i \in Items, MarkAsComplete(i) \/ MarkExternalAsProcessing(i)
  PROVE  Remembered
<1>1. CASE UNCHANGED manifestVars
  BY <1>1, UnchangedItems, RememberedGrown DEF manifestVars, Books, ProcessingItems
<1>2. ASSUME NEW id \in MatchingTodos(i), MatchingTodos(i) = {id}, DeleteTodo(id),
             i \in Books', ProcessingItems \cup processed \subseteq Books'
      PROVE  Remembered
  <2>1. /\ Matches(i, todo[id].item)
        /\ TodoItems \subseteq TodoItems' \cup {todo[id].item}
    BY <1>2, DeletedItems
  <2>2. SameWork(todo[id].item, i)
    BY <2>1 DEF Matches, SameWork
  <2>3. QED
    BY <1>2, <2>1, <2>2 DEF Remembered, Books, SameWork
<1>3. CASE CompletionCommits(i) /\ MarkAsComplete(i)
  <2>1. i \in Books' /\ ProcessingItems \cup processed \subseteq Books'
    BY <1>3 DEF MarkAsComplete, Books, ProcessingItems
  <2>2. PICK id \in MatchingTodos(i) : MatchingTodos(i) = {id} /\ DeleteTodo(id)
    BY <1>3 DEF MarkAsComplete, CompletionCommits
  <2>3. QED
    BY <1>2, <2>1, <2>2
<1>4. CASE HandoverCommits(i) /\ MarkExternalAsProcessing(i)
  <2>1. processing' = [processing EXCEPT ![i] = @ + 1] /\ UNCHANGED processed
    BY <1>4 DEF MarkExternalAsProcessing
  <2>2. \A j \in Items : processing[j] \in Nat /\ (processing[j] > 0 => processing'[j] > 0)
    BY <2>1 DEF ManifestTypeOK
  <2>3. processing'[i] > 0
    BY <2>1, <2>2 DEF ManifestTypeOK
  <2>4. i \in Books' /\ ProcessingItems \cup processed \subseteq Books'
    BY <2>1, <2>2, <2>3 DEF Books, ProcessingItems
  <2>5. PICK id \in MatchingTodos(i) : MatchingTodos(i) = {id} /\ DeleteTodo(id)
    BY <1>4 DEF MarkExternalAsProcessing, HandoverCommits
  <2>6. QED
    BY <1>2, <2>4, <2>5
<1>5. QED
  BY <1>1, <1>3, <1>4 DEF MarkAsComplete, MarkExternalAsProcessing

\* What is replaced is of one extractor, or has a TODO already: that the
\* statement counts the TODOs it creates is what keeps the others' work.
LEMMA RememberedRerun ==
  ASSUME ManifestTypeOK, NEW b, NEW held,
         RerunFailedExternalCommits(b), RerunFailedExternal(b, held)
  PROVE  Remembered
<1>1. UNCHANGED processed /\ ProcessingItems \ Replaced(b) \subseteq ProcessingItems'
  BY DEF RerunFailedExternal, ProcessingItems
<1>2. CASE Replaced(b) = {} /\ TodoItems' = TodoItems
  BY <1>1, <1>2, RememberedGrown DEF Books
<1>3. ASSUME NEW i \in WithoutTodo(Replaced(b)), TodoItems' = TodoItems \cup {i}
      PROVE  Remembered
  <2>1. i \in Replaced(b) /\ i.blob = b
    BY DEF WithoutTodo, Replaced
  <2>2. PICK e \in External : {k.extractor : k \in WithoutTodo(Replaced(b))} = {e}
    BY <2>1 DEF RerunFailedExternalCommits
  <2>3. ASSUME NEW j \in Replaced(b) PROVE \E k \in TodoItems' : SameWork(j, k)
    <3>1. CASE j \in WithoutTodo(Replaced(b))
      <4>1. j.extractor = e /\ i.extractor = e /\ j.blob = b
        BY <2>2, <3>1 DEF Replaced
      <4>2. QED
        BY <1>3, <2>1, <4>1 DEF SameWork
    <3>2. CASE j \notin WithoutTodo(Replaced(b))
      BY <1>3, <3>2 DEF WithoutTodo, TodoItems
    <3>3. QED
      BY <3>1, <3>2
  <2>4. TodoItems \cup processed \cup (ProcessingItems \ Replaced(b)) \subseteq Books'
    BY <1>1, <1>3 DEF Books
  <2>5. ASSUME NEW j \in Books PROVE \E k \in Books' : SameWork(j, k)
    <3>1. CASE j \in Replaced(b)
      BY <2>3, <3>1 DEF Books
    <3>2. CASE j \notin Replaced(b)
      BY <2>4, <3>2 DEF Books, SameWork
    <3>3. QED
      BY <3>1, <3>2
  <2>6. QED
    BY <2>5 DEF Remembered
<1>4. QED
  BY <1>2, <1>3, RerunExternalItems

LEMMA RememberedNext == TypeOK /\ [Next]_vars => Remembered
<1> SUFFICES ASSUME TypeOK, [Next]_vars PROVE Remembered
  OBVIOUS
<1>1. ManifestTypeOK
  BY DEF TypeOK
<1>2. CASE SameBooks
  BY <1>2, RememberedGrown DEF SameBooks, Books, ProcessingItems
<1>3. ASSUME NEW b \in Blobs, NEW ctx \in Uploads, Ingest(b, ctx) PROVE Remembered
  <2>1. Missing(b, Applicable[b], ctx) \in SUBSET Items
    BY ApplicableAssumption, UploadsAssumption DEF Missing, Wanted, Items
  <2>2. Books \subseteq Books'
    BY <1>3, <2>1, CreatedItems DEF Ingest, InsertBlob, Books, ProcessingItems
  <2>3. QED
    BY <2>2, RememberedGrown
<1>4. ASSUME NEW w \in Workers, NEW i \in batch[w], MarkAsComplete(i) PROVE Remembered
  BY <1>1, <1>4, RememberedComplete DEF TypeOK
<1>5. ASSUME NEW w \in Workers, NEW i \in batch[w], MarkExternalAsProcessing(i) PROVE Remembered
  BY <1>1, <1>5, RememberedComplete DEF TypeOK
<1>6. ASSUME NEW b \in Blobs, RerunFailedExternalCommits(b), RerunFailedExternal(b, Held)
      PROVE  Remembered
  BY <1>1, <1>6, RememberedRerun
<1>7. ASSUME NEW b \in Blobs, RerunSuccessful(b, Held) PROVE Remembered
  <2> DEFINE done == {p \in processed : p.blob = b}
  <2>1. done \in SUBSET Items
    BY <1>1 DEF ManifestTypeOK
  <2>2. CreateTodos(done, Held) /\ processed' = processed \ done /\ UNCHANGED processing
    BY <1>7 DEF RerunSuccessful
  <2> HIDE DEF done
  <2>3. Books \subseteq Books'
    BY <2>1, <2>2, CreatedItems DEF Books, ProcessingItems
  <2>4. QED
    BY <2>3, RememberedGrown
<1>8. QED
  BY <1>2, <1>3, <1>4, <1>5, <1>6, <1>7, BookSteps

LEMMA RememberedOnBooks ==
  ASSUME Remembered
  PROVE  \A b \in Blobs, e \in Extractors : OnTheBooks(b, e) => OnTheBooks(b, e)'
BY DEF Remembered, Books, OnTheBooks, SameWork

\* Whatever an ingestion has asked for stays on the books, to do, handed over
\* or done: no worker, crash, reprocessing or rolled back transaction makes the
\* queue forget that an extractor was to run on a blob.
THEOREM NothingIsForgotten == Spec => NothingForgotten
<1>1. TypeOK /\ [Next]_vars =>
        [\A b \in Blobs, e \in Extractors : OnTheBooks(b, e) => OnTheBooks(b, e)']_vars
  BY RememberedNext, RememberedOnBooks
<1>2. QED
  BY <1>1, TypeCorrect, PTL DEF Spec, NothingForgotten

-----------------------------------------------------------------------------
(***************************************************************************)
(* The items of the internal extractors, against ExtractionLedger.  A      *)
(* pattern without a workspace also deletes the TODO of an item that has   *)
(* one; what a worker executes has a TODO of its own, or is done, so that  *)
(* such a deletion does not commit.                                        *)
(***************************************************************************)

NeverHandedOver == \A i \in InternalItems : processing[i] = 0
BatchOnTheBooks ==
  \A w \in Workers : \A i \in batch[w] : Internal(i) => i \in TodoItems \cup processed
LedgerInv == NeverHandedOver /\ BatchOnTheBooks

InternalEntry == [i \in InternalItems |-> Entry[i]]
InternalBlob == [i \in InternalItems |-> i.blob]

LEMMA EntryOf ==
  ASSUME NEW i \in InternalItems
  PROVE  /\ NeverHandedOver =>
              InternalEntry[i] = IF i \in TodoItems THEN "todo"
                                 ELSE IF i \in processed THEN "done" ELSE "absent"
         /\ NeverHandedOver' =>
              InternalEntry'[i] = IF i \in TodoItems' THEN "todo"
                                  ELSE IF i \in processed' THEN "done" ELSE "absent"
<1>1. i \in Items
  BY DEF InternalItems
<1>2. QED
  BY <1>1 DEF InternalEntry, Entry, NeverHandedOver

\* Of the items that are not in "is", neither the TODOs nor the PROCESSEDs change.
OthersStay(is) ==
  \A i \in InternalItems \ is :
    (i \in TodoItems' <=> i \in TodoItems) /\ (i \in processed' <=> i \in processed)

LEMMA EntriesMove ==
  ASSUME NeverHandedOver, NeverHandedOver', NEW is, OthersStay(is)
  PROVE  /\ \A i \in InternalItems \ is : InternalEntry'[i] = InternalEntry[i]
         /\ InternalEntry' = [i \in InternalItems |-> InternalEntry'[i]]
<1>1. \A i \in InternalItems \ is : InternalEntry'[i] = InternalEntry[i]
  BY EntryOf DEF OthersStay
<1>2. QED
  BY <1>1 DEF InternalEntry

LEMMA EntriesStay ==
  ASSUME NeverHandedOver, NeverHandedOver', OthersStay({})
  PROVE  InternalEntry' = InternalEntry
<1>1. \A i \in InternalItems : InternalEntry'[i] = InternalEntry[i]
  BY EntryOf DEF OthersStay
<1>2. QED
  BY <1>1 DEF InternalEntry

\* A file is ingested, or a blob is reprocessed.
LEMMA LedgerRequest ==
  ASSUME NeverHandedOver, NeverHandedOver', NEW b, NEW is \in SUBSET Items,
         TodoItems' = TodoItems \cup is, UNCHANGED processed,
         \A i \in is : i.blob = b /\ (Internal(i) => i \notin TodoItems /\ i \notin processed)
  PROVE  [InternalLedger!LedgerNext]_InternalEntry
<1> DEFINE new == is \cap InternalItems
<1>1. OthersStay(new)
  BY DEF OthersStay, InternalItems
<1>2. \A i \in new : i.blob = b /\ InternalEntry[i] = "absent" /\ InternalEntry'[i] = "todo"
  BY EntryOf DEF InternalItems, Internal
<1>3. InternalEntry' = [i \in InternalItems |-> IF i \in new THEN "todo" ELSE InternalEntry[i]]
  <2> HIDE DEF new
  <2>1. \A i \in new \cap InternalItems : InternalEntry'[i] = "todo"
    BY <1>2
  <2>2. /\ \A i \in InternalItems \ new : InternalEntry'[i] = InternalEntry[i]
        /\ InternalEntry' = [i \in InternalItems |-> InternalEntry'[i]]
    BY <1>1, EntriesMove
  <2>3. QED
    BY <2>1, <2>2
<1>4. CASE new = {}
  BY <1>1, <1>4, EntriesStay
<1>5. ASSUME NEW k \in new PROVE InternalLedger!Request(InternalBlob[k])
  <2>1. InternalBlob[k] = b /\ \A i \in InternalItems : InternalBlob[i] = i.blob
    BY <1>2 DEF InternalBlob
  <2>2. new \in SUBSET {i \in InternalItems : InternalBlob[i] = b /\ InternalEntry[i] = "absent"}
    BY <1>2, <2>1
  <2> HIDE DEF new
  <2>3. QED
    BY <1>3, <2>1, <2>2 DEF InternalLedger!Request, InternalLedger!Move, InternalBlob, InternalEntry
<1>6. QED
  BY <1>4, <1>5 DEF InternalLedger!LedgerNext, InternalBlob

\* An extractor is recorded as having run.  The TODO deleted is the item's own.
LEMMA DeletedOwn ==
  ASSUME NEW i \in TodoItems, NEW id, MatchingTodos(i) = {id}
  PROVE  todo[id].item = i
<1>1. PICK own \in Live : todo[own].item = i
  BY DEF TodoItems
<1>2. own \in MatchingTodos(i)
  BY <1>1 DEF MatchingTodos, Matches, SameWork
<1>3. QED
  BY <1>1, <1>2

LEMMA CompleteItems ==
  ASSUME TypeOK, BatchOnTheBooks, NEW w \in Workers, NEW i \in batch[w], Internal(i),
         MarkAsComplete(i)
  PROVE  \/ UNCHANGED manifestVars
         \/ /\ i \in InternalItems /\ i \in TodoItems
            /\ TodoItems' = TodoItems \ {i}
            /\ processed' = processed \cup {i}
            /\ UNCHANGED processing
<1>1. i \in InternalItems
  BY DEF TypeOK, InternalItems, Internal
<1>2. CASE CompletionCommits(i) /\ ~UNCHANGED manifestVars
  <2>1. i \notin processed
    BY <1>2 DEF CompletionCommits, MatchingProcessed, Matches, SameWork
  <2>2. i \in TodoItems
    BY <2>1 DEF BatchOnTheBooks
  <2>3. PICK id \in MatchingTodos(i) : MatchingTodos(i) = {id} /\ DeleteTodo(id)
    BY <1>2 DEF MarkAsComplete, CompletionCommits
  <2>4. todo[id].item = i
    BY <2>2, <2>3, DeletedOwn
  <2>5. /\ TodoItems' \subseteq TodoItems /\ TodoItems \subseteq TodoItems' \cup {i}
        /\ ~Matches(i, i) \/ i \notin TodoItems'
    BY <2>3, <2>4, DeletedItems DEF TypeOK
  <2>6. Matches(i, i)
    BY DEF Matches, SameWork
  <2>7. TodoItems' = TodoItems \ {i}
    BY <2>5, <2>6
  <2>8. processed' = processed \cup {i} /\ UNCHANGED processing
    BY <1>2 DEF MarkAsComplete
  <2>9. QED
    BY <1>1, <2>2, <2>7, <2>8
<1>3. QED
  BY <1>2 DEF MarkAsComplete

LEMMA LedgerFinish ==
  ASSUME NeverHandedOver, NeverHandedOver', NEW i \in InternalItems, i \in TodoItems,
         TodoItems' = TodoItems \ {i}, processed' = processed \cup {i}
  PROVE  [InternalLedger!LedgerNext]_InternalEntry
<1>1. InternalEntry[i] = "todo" /\ InternalEntry'[i] = "done"
  BY EntryOf
<1>2. OthersStay({i})
  BY DEF OthersStay
<1>3. InternalEntry' = [j \in InternalItems |-> IF j \in {i} THEN "done" ELSE InternalEntry[j]]
  <2>1. /\ \A j \in InternalItems \ {i} : InternalEntry'[j] = InternalEntry[j]
        /\ InternalEntry' = [j \in InternalItems |-> InternalEntry'[j]]
    BY <1>2, EntriesMove
  <2>2. QED
    BY <1>1, <2>1
<1>4. InternalLedger!Finish(i)
  BY <1>1, <1>3 DEF InternalLedger!Finish, InternalLedger!Move, InternalEntry
<1>5. QED
  BY <1>4 DEF InternalLedger!LedgerNext

LEMMA LedgerRedo ==
  ASSUME TypeOK, NeverHandedOver, NeverHandedOver', NEW b \in Blobs, RerunSuccessful(b, Held)
  PROVE  [InternalLedger!LedgerNext]_InternalEntry
<1> DEFINE done  == {p \in processed : p.blob = b}
           again == {i \in InternalItems : InternalBlob[i] = b /\ InternalEntry[i] = "done"}
<1>1. \A i \in InternalItems : InternalBlob[i] = i.blob
  BY DEF InternalBlob
<1>2. TodoItems' = TodoItems \cup done /\ processed' = processed \ done
  <2>1. done \in SUBSET Items
    BY DEF TypeOK, ManifestTypeOK
  <2>2. CreateTodos(done, Held)
    BY DEF RerunSuccessful
  <2>3. TodoItems' = TodoItems \cup done
    <3> HIDE DEF done
    <3>1. QED
      BY <2>1, <2>2, CreatedItems
  <2>4. QED
    BY <2>3 DEF RerunSuccessful
<1>3. \A i \in again : InternalEntry'[i] = "todo"
  BY <1>1, <1>2, EntryOf
<1>4. \A i \in InternalItems \ again : InternalEntry'[i] = InternalEntry[i]
  BY <1>1, <1>2, EntryOf
<1>5. InternalEntry' = [i \in InternalItems |-> IF i \in again THEN "todo" ELSE InternalEntry[i]]
  <2> HIDE DEF again
  <2>1. InternalEntry' = [i \in InternalItems |-> InternalEntry'[i]]
    BY DEF InternalEntry
  <2>2. QED
    BY <1>3, <1>4, <2>1
<1>6. CASE again = {}
  <2>1. \A i \in InternalItems : InternalEntry'[i] = InternalEntry[i]
    BY <1>4, <1>6
  <2>2. QED
    BY <2>1 DEF InternalEntry
<1>7. ASSUME NEW k \in again PROVE InternalLedger!Redo(InternalBlob[k])
  <2>1. InternalBlob[k] = b
    OBVIOUS
  <2>2. QED
    BY <1>5, <2>1 DEF InternalLedger!Redo, InternalLedger!Move, InternalBlob, InternalEntry
<1>8. QED
  BY <1>6, <1>7 DEF InternalLedger!LedgerNext, InternalBlob

\* What a step does to the items of internal extractors: none is handed over or
\* dropped, and their entries take a step of the ledger or none.
InternalKept == InternalItems \cap (TodoItems \cup processed) \subseteq (TodoItems \cup processed)'
LedgerStep == NeverHandedOver' /\ InternalKept /\ [InternalLedger!LedgerNext]_InternalEntry

LEMMA LedgerStay ==
  ASSUME NeverHandedOver, OthersStay({}),
         \A i \in InternalItems : processing'[i] = processing[i] \/ processing'[i] = 0
  PROVE  LedgerStep
<1>1. NeverHandedOver'
  BY DEF NeverHandedOver
<1>2. InternalKept
  BY DEF OthersStay, InternalKept
<1>3. InternalEntry' = InternalEntry
  BY <1>1, EntriesStay
<1>4. QED
  BY <1>1, <1>2, <1>3 DEF LedgerStep

LEMMA LedgerSame ==
  ASSUME NeverHandedOver, SameBooks
  PROVE  LedgerStep
BY LedgerStay DEF SameBooks, OthersStay

LEMMA LedgerHandOver ==
  ASSUME TypeOK, NeverHandedOver, NEW i \in Items, i.extractor \in External,
         MarkExternalAsProcessing(i)
  PROVE  LedgerStep
<1>1. CASE UNCHANGED manifestVars
  BY <1>1, UnchangedItems, LedgerSame DEF manifestVars, SameBooks
<1>2. CASE HandoverCommits(i) /\ ~UNCHANGED manifestVars
  <2>1. PICK id \in MatchingTodos(i) : MatchingTodos(i) = {id} /\ DeleteTodo(id)
    BY <1>2 DEF MarkExternalAsProcessing, HandoverCommits
  <2>2. /\ processing' = [processing EXCEPT ![i] = @ + 1]
        /\ UNCHANGED processed
    BY <1>2 DEF MarkExternalAsProcessing
  <2>3. /\ TodoItems' \subseteq TodoItems /\ TodoItems \subseteq TodoItems' \cup {todo[id].item}
        /\ Matches(i, todo[id].item)
    BY <2>1, DeletedItems DEF TypeOK
  <2>4. todo[id].item \notin InternalItems
    BY <2>3 DEF Matches, SameWork, InternalItems
  <2>5. OthersStay({})
    BY <2>2, <2>3, <2>4 DEF OthersStay
  <2>6. \A j \in InternalItems : j # i /\ processing'[j] = processing[j]
    BY <2>2 DEF InternalItems, TypeOK, ManifestTypeOK
  <2>7. QED
    BY <2>5, <2>6, LedgerStay
<1>3. QED
  BY <1>1, <1>2 DEF MarkExternalAsProcessing

LEMMA LedgerRerunExternal ==
  ASSUME TypeOK, NeverHandedOver, NEW b, NEW held, RerunFailedExternal(b, held)
  PROVE  LedgerStep
<1>1. UNCHANGED processed
  BY DEF RerunFailedExternal
<1>2. \A i \in InternalItems : processing'[i] = processing[i] \/ processing'[i] = 0
  BY DEF RerunFailedExternal, InternalItems
<1>3. \A i \in WithoutTodo(Replaced(b)) : i \notin InternalItems
  BY DEF WithoutTodo, Replaced, FailedExtractors, InternalItems
<1>4. TodoItems' = TodoItems \/ \E i \in WithoutTodo(Replaced(b)) : TodoItems' = TodoItems \cup {i}
  BY RerunExternalItems DEF TypeOK
<1>5. OthersStay({})
  BY <1>1, <1>3, <1>4 DEF OthersStay
<1>6. QED
  BY <1>2, <1>5, LedgerStay

LEMMA LedgerOfNext ==
  ASSUME TypeOK, LedgerInv, [Next]_vars
  PROVE  LedgerStep
<1>1. NeverHandedOver /\ BatchOnTheBooks
  BY DEF LedgerInv
<1>2. ASSUME UNCHANGED processing PROVE NeverHandedOver'
  BY <1>1, <1>2 DEF NeverHandedOver
<1>3. CASE SameBooks
  BY <1>1, <1>3, LedgerSame
<1>4. ASSUME NEW b \in Blobs, NEW ctx \in Uploads, Ingest(b, ctx) PROVE LedgerStep
  <2> DEFINE items == Missing(b, Applicable[b], ctx)
  <2>1. items \in SUBSET Items
    BY ApplicableAssumption, UploadsAssumption DEF Missing, Wanted, Items
  <2>2. \A i \in items : i.blob = b /\ i \notin TodoItems /\ i \notin processed
    BY DEF Missing, Wanted, MatchingProcessed, MatchingTodos, Matches, SameWork, TodoItems
  <2>3. CreateTodos(items, Held) /\ UNCHANGED <<processing, processed>>
    BY <1>4 DEF Ingest, InsertBlob
  <2> HIDE DEF items
  <2>4. TodoItems' = TodoItems \cup items
    BY <2>1, <2>3, CreatedItems
  <2>5. [InternalLedger!LedgerNext]_InternalEntry
    BY <1>1, <1>2, <2>1, <2>2, <2>3, <2>4, LedgerRequest
  <2>6. QED
    BY <1>2, <2>3, <2>4, <2>5 DEF LedgerStep, InternalKept
<1>5. ASSUME NEW w \in Workers, NEW i \in batch[w], Internal(i), MarkAsComplete(i)
      PROVE  LedgerStep
  <2>1. CASE UNCHANGED manifestVars
    BY <1>3, <2>1, UnchangedItems DEF manifestVars, SameBooks
  <2>2. CASE /\ i \in InternalItems /\ i \in TodoItems
             /\ TodoItems' = TodoItems \ {i} /\ processed' = processed \cup {i}
             /\ UNCHANGED processing
    BY <1>1, <1>2, <2>2, LedgerFinish DEF LedgerStep, InternalKept
  <2>3. QED
    BY <1>1, <1>5, <2>1, <2>2, CompleteItems
<1>6. ASSUME NEW w \in Workers, NEW i \in batch[w], i.extractor \in External,
             MarkExternalAsProcessing(i)
      PROVE  LedgerStep
  BY <1>1, <1>6, LedgerHandOver DEF TypeOK
<1>7. ASSUME NEW b \in Blobs, RerunFailedExternal(b, Held) PROVE LedgerStep
  BY <1>1, <1>7, LedgerRerunExternal
<1>8. ASSUME NEW b \in Blobs, RerunSuccessful(b, Held) PROVE LedgerStep
  <2> DEFINE done == {p \in processed : p.blob = b}
  <2>1. done \in SUBSET Items
    BY DEF TypeOK, ManifestTypeOK
  <2>2. CreateTodos(done, Held) /\ processed' = processed \ done /\ UNCHANGED processing
    BY <1>8 DEF RerunSuccessful
  <2> HIDE DEF done
  <2>3. InternalKept
    BY <2>1, <2>2, CreatedItems DEF InternalKept
  <2>4. QED
    BY <1>1, <1>2, <1>8, <2>2, <2>3, LedgerRedo DEF LedgerStep
<1>9. QED
  BY <1>3, <1>4, <1>5, <1>6, <1>7, <1>8, BookSteps

\* A batch only shrinks, but for the items of TODOs that fetchWork claims.
LEMMA BatchSteps ==
  ASSUME TypeOK, [Next]_vars
  PROVE  \A w \in Workers : batch'[w] \subseteq batch[w] \cup TodoItems
<1>1. CASE UNCHANGED batch
  BY <1>1
<1>2. ASSUME NEW w \in Workers, Poll(w)
      PROVE  \A v \in Workers : batch'[v] \subseteq batch[v] \cup TodoItems
  <2>1. CASE FetchWrite(w)
    BY <2>1 DEF FetchWrite, TodoItems, TypeOK
  <2>2. CASE RejectBatch(w)
    BY <2>2 DEF RejectBatch, TypeOK
  <2>3. CASE \E i \in Items : Succeed(w, i) \/ HandOver(w, i) \/ Fail(w, i)
    BY <2>3 DEF Succeed, HandOver, Fail, Execute, TypeOK
  <2>4. CASE GetWorkerDetails(w) \/ FetchRead(w) \/ Release(w)
    BY <2>4 DEF GetWorkerDetails, FetchRead, Release
  <2>5. QED
    BY <1>2, <2>1, <2>2, <2>3, <2>4 DEF Poll
<1>3. ASSUME NEW w \in Workers, Trouble(w)
      PROVE  \A v \in Workers : batch'[v] \subseteq batch[v] \cup TodoItems
  BY <1>3 DEF Trouble, Launch, Terminate, Disappear, Crash, Stopped, FetchFails, ReleaseFails,
              Interrupt, LoseOutcome, Execute, TypeOK
<1>4. ASSUME NEW b \in Blobs, Reprocess(b) \/ \E ctx \in Uploads : Ingest(b, ctx)
      PROVE  UNCHANGED batch
  BY <1>4 DEF Reprocess, RequestReprocess, ReprocessFailed, ReprocessExternal,
              ReprocessSuccessful, Ingest, workerVars
<1>5. QED
  BY <1>1, <1>2, <1>3, <1>4 DEF Next, BreakLocks, vars, workerVars

LEMMA LedgerInvNext == TypeOK /\ LedgerInv /\ [Next]_vars => LedgerInv'
<1> SUFFICES ASSUME TypeOK, LedgerInv, [Next]_vars PROVE LedgerInv'
  OBVIOUS
<1>1. LedgerStep
  BY LedgerOfNext
<1>2. ASSUME NEW w \in Workers, NEW i \in batch'[w], Internal(i)
      PROVE  i \in (TodoItems \cup processed)'
  <2>1. i \in TodoItems \cup processed
    BY <1>2, BatchSteps DEF LedgerInv, BatchOnTheBooks
  <2>2. i \in InternalItems
    BY <1>2, <2>1, TodosAreItems DEF TypeOK, ManifestTypeOK, InternalItems, Internal
  <2>3. QED
    BY <1>1, <2>1, <2>2 DEF LedgerStep, InternalKept
<1>3. BatchOnTheBooks'
  BY <1>2 DEF BatchOnTheBooks, Internal
<1>4. QED
  BY <1>1, <1>3 DEF LedgerInv, LedgerStep

LEMMA LedgerStart == Init => LedgerInv /\ InternalLedger!LedgerInit
<1>1. Init => LedgerInv
  BY DEF Init, ManifestInit, LedgerInv, NeverHandedOver, BatchOnTheBooks, InternalItems
<1>2. Init => TodoItems = {} /\ processed = {}
  BY DEF Init, ManifestInit, TodoItems, Live
<1>3. Init => InternalLedger!LedgerInit
  BY <1>1, <1>2, EntryOf DEF LedgerInv, InternalLedger!LedgerInit, InternalEntry
<1>4. QED
  BY <1>1, <1>3

\* For the internal extractors the queue implements the ledger, with any
\* number of workers, crashes and reruns and whatever becomes of the external
\* ones: what was asked for is finished one by one, and goes back to the start
\* with all that is finished on its blob.
THEOREM InternalWorkImplementsLedger == Spec => ImplementsInternalLedger
<1>1. TypeOK /\ LedgerInv /\ [Next]_vars => [InternalLedger!LedgerNext]_InternalEntry
  BY LedgerOfNext DEF LedgerStep
<1>2. QED
  BY <1>1, LedgerStart, LedgerInvNext, TypeCorrect, PTL
     DEF Spec, ImplementsInternalLedger, InternalLedger!LedgerSpec, InternalEntry

\* A deployment without the queues to the external services
\* (WorkerConfig.useExternalExtractors is false): every entry is of the ledger.
THEOREM QueueImplementsLedger ==
  ASSUME External = {}
  PROVE  Spec => ImplementsLedger
<1>1. InternalItems = Items
  BY DEF InternalItems
<1>2. InternalEntry = Entry /\ InternalEntry' = Entry'
  BY <1>1 DEF InternalEntry, Entry
<1>3. InternalBlob = [i \in Items |-> i.blob]
  BY <1>1 DEF InternalBlob
<1>4. InternalLedger!LedgerInit => Ledger!LedgerInit
  BY <1>1, <1>2 DEF InternalLedger!LedgerInit, Ledger!LedgerInit, InternalEntry
<1>5. [InternalLedger!LedgerNext]_InternalEntry => [Ledger!LedgerNext]_Entry
  <2>1. ASSUME NEW is, NEW to, InternalLedger!Move(is, to) PROVE Ledger!Move(is, to)
    <3>1. InternalEntry' = [i \in InternalItems |-> IF i \in is THEN to ELSE InternalEntry[i]]
      BY <2>1 DEF InternalLedger!Move, InternalEntry
    <3>2. Entry' = [i \in Items |-> IF i \in is THEN to ELSE Entry[i]]
      BY <1>1, <1>2, <3>1
    <3>3. QED
      BY <3>2 DEF Ledger!Move
  <2>2. \A i \in Items : InternalBlob[i] = i.blob /\ [j \in Items |-> j.blob][i] = i.blob
    BY <1>3
  <2>3. ASSUME NEW i \in Items,
               InternalLedger!Finish(i) \/ InternalLedger!HandOver(i) \/ InternalLedger!GiveBack(i)
        PROVE  Ledger!LedgerNext
    <3>1. Ledger!Finish(i) \/ Ledger!HandOver(i) \/ Ledger!GiveBack(i)
      BY <1>2, <2>1, <2>3
         DEF InternalLedger!Finish, InternalLedger!HandOver, InternalLedger!GiveBack,
             Ledger!Finish, Ledger!HandOver, Ledger!GiveBack, InternalEntry
    <3>2. QED
      BY <3>1 DEF Ledger!LedgerNext
  <2>4. ASSUME NEW i \in Items, InternalLedger!Request(InternalBlob[i]) PROVE Ledger!LedgerNext
    <3>1. PICK is \in SUBSET {j \in InternalItems : InternalBlob[j] = InternalBlob[i]
                                                    /\ InternalEntry[j] = "absent"} :
            InternalLedger!Move(is, "todo")
      BY <2>4 DEF InternalLedger!Request, InternalEntry, InternalBlob
    <3>2. is \in SUBSET {j \in Items : [k \in Items |-> k.blob][j] = [k \in Items |-> k.blob][i]
                                       /\ Entry[j] = "absent"}
      BY <1>1, <1>2, <2>2, <3>1
    <3>3. Ledger!Request([k \in Items |-> k.blob][i])
      BY <2>1, <3>1, <3>2 DEF Ledger!Request
    <3>4. QED
      BY <3>3 DEF Ledger!LedgerNext
  <2>5. ASSUME NEW i \in Items, InternalLedger!Redo(InternalBlob[i]) PROVE Ledger!LedgerNext
    <3> DEFINE of(e) == {j \in Items : [k \in Items |-> k.blob][j] = [k \in Items |-> k.blob][i]
                                       /\ Entry[j] = e}
    <3>1. InternalLedger!Move({j \in InternalItems : InternalBlob[j] = InternalBlob[i]
                                                     /\ InternalEntry[j] = "done"}, "todo")
      BY <2>5 DEF InternalLedger!Redo, InternalEntry, InternalBlob
    <3>2. of("done") = {j \in InternalItems : InternalBlob[j] = InternalBlob[i]
                                              /\ InternalEntry[j] = "done"}
      BY <1>1, <1>2, <2>2
    <3>3. Ledger!Move(of("done"), "todo")
      BY <2>1, <3>1, <3>2
    <3>4. Ledger!Redo([k \in Items |-> k.blob][i])
      BY <3>3 DEF Ledger!Redo
    <3>5. QED
      BY <3>4 DEF Ledger!LedgerNext
  <2>6. ASSUME NEW i \in Items, InternalLedger!Return(InternalBlob[i]) PROVE Ledger!LedgerNext
    <3>1. PICK is \in SUBSET {j \in InternalItems : InternalBlob[j] = InternalBlob[i]
                                                    /\ InternalEntry[j] = "external"} :
            InternalLedger!Move(is, "done")
      BY <2>6 DEF InternalLedger!Return, InternalEntry, InternalBlob
    <3>2. is \in SUBSET {j \in Items : [k \in Items |-> k.blob][j] = [k \in Items |-> k.blob][i]
                                       /\ Entry[j] = "external"}
      BY <1>1, <1>2, <2>2, <3>1
    <3>3. Ledger!Return([k \in Items |-> k.blob][i])
      BY <2>1, <3>1, <3>2 DEF Ledger!Return
    <3>4. QED
      BY <3>3 DEF Ledger!LedgerNext
  <2>7. InternalLedger!LedgerNext =>
          \E i \in Items :
            \/ InternalLedger!Finish(i) \/ InternalLedger!HandOver(i) \/ InternalLedger!GiveBack(i)
            \/ InternalLedger!Request(InternalBlob[i]) \/ InternalLedger!Redo(InternalBlob[i])
            \/ InternalLedger!Return(InternalBlob[i])
    BY <1>1 DEF InternalLedger!LedgerNext, InternalBlob
  <2>8. QED
    BY <1>2, <2>3, <2>4, <2>5, <2>6, <2>7
<1>6. TypeOK /\ LedgerInv /\ [Next]_vars => [Ledger!LedgerNext]_Entry
  BY <1>5, LedgerOfNext DEF LedgerStep
<1>7. QED
  BY <1>4, <1>6, LedgerStart, LedgerInvNext, TypeCorrect, PTL
     DEF Spec, ImplementsLedger, Ledger!LedgerSpec

-----------------------------------------------------------------------------
(***************************************************************************)
(* The items of all extractors, when a file comes in one context and is    *)
(* not ingested again while an external extractor has it.  Then an item is *)
(* in one place: to do, handed over once, or done.                         *)
(***************************************************************************)

OneContext == \A c, d \in Uploads : c = d

BooksPlaced ==
  /\ \A i \in Books : i.ctx \in Uploads
  /\ \A i \in TodoItems : processing[i] = 0 /\ i \notin processed
  /\ \A i \in processed : processing[i] = 0
  /\ \A i \in Items : processing[i] \in {0, 1}
BatchPlaced == \A w \in Workers : \A i \in batch[w] : i.ctx \in Uploads
PlacesInv == LedgerInv /\ BooksPlaced /\ BatchPlaced

PlaceStep == BooksPlaced' /\ [Ledger!LedgerNext]_Entry

LEMMA SameItem ==
  ASSUME OneContext, NEW i \in Items, NEW j \in Items, SameWork(i, j),
         i.ctx \in Uploads, j.ctx \in Uploads
  PROVE  i = j
<1>1. i.blob = j.blob /\ i.extractor = j.extractor /\ i.ctx = j.ctx
  BY DEF SameWork, OneContext
<1>2. QED
  BY <1>1 DEF Items

LEMMA PlaceOf ==
  ASSUME NEW i \in Items
  PROVE  /\ Entry[i] = IF i \in TodoItems THEN "todo"
                       ELSE IF processing[i] > 0 THEN "external"
                       ELSE IF i \in processed THEN "done" ELSE "absent"
         /\ Entry'[i] = IF i \in TodoItems' THEN "todo"
                        ELSE IF processing'[i] > 0 THEN "external"
                        ELSE IF i \in processed' THEN "done" ELSE "absent"
BY DEF Entry

LEMMA EntryMoves ==
  ASSUME NEW is \in SUBSET Items, NEW to, \A i \in is : Entry'[i] = to,
         \A i \in Items \ is : Entry'[i] = Entry[i]
  PROVE  Ledger!Move(is, to)
<1>1. Entry' = [i \in Items |-> Entry'[i]]
  BY DEF Entry
<1>2. QED
  BY <1>1 DEF Ledger!Move

LEMMA PlacedSame ==
  ASSUME BooksPlaced, SameBooks
  PROVE  PlaceStep
<1>1. BooksPlaced'
  BY DEF BooksPlaced, SameBooks, Books, ProcessingItems
<1>2. Entry' = Entry
  BY DEF Entry, SameBooks
<1>3. QED
  BY <1>1, <1>2 DEF PlaceStep

\* A file is ingested: what is new of its items.
LEMMA PlacedIngest ==
  ASSUME TypeOK, LedgerInv, BooksPlaced, MaxHandovers = 1,
         NEW b \in Blobs, NEW ctx \in Uploads, Ingest(b, ctx)
  PROVE  PlaceStep
<1> DEFINE is == Missing(b, Applicable[b], ctx)
<1>1. is \in SUBSET Items
  BY ApplicableAssumption, UploadsAssumption DEF Missing, Wanted, Items
<1>2. ASSUME NEW i \in is
      PROVE  /\ i.blob = b /\ i.ctx \in Uploads
             /\ i \notin TodoItems /\ i \notin processed /\ processing[i] = 0
  <2>1. PICK e \in Applicable[b] : i = [blob |-> b, extractor |-> e, ctx |-> ctx]
    BY DEF Missing, Wanted
  <2>2. i \notin TodoItems /\ i \notin processed
    BY DEF Missing, MatchingProcessed, MatchingTodos, Matches, SameWork, TodoItems
  <2>3. i \in Items /\ processing[i] \in Nat
    BY <1>1 DEF TypeOK, ManifestTypeOK
  <2>4. CASE e \in External
    <3>1. processing[i] < 1
      BY <2>1, <2>4 DEF Ingest
    <3>2. QED
      BY <2>1, <2>2, <2>3, <3>1
  <2>5. CASE e \notin External
    <3>1. i \in InternalItems
      BY <2>1, <2>3, <2>5 DEF InternalItems
    <3>2. QED
      BY <2>1, <2>2, <3>1 DEF LedgerInv, NeverHandedOver
  <2>6. QED
    BY <2>4, <2>5
<1>3. CreateTodos(is, Held) /\ UNCHANGED <<processing, processed>>
  BY DEF Ingest, InsertBlob
<1> HIDE DEF is
<1>4. TodoItems' = TodoItems \cup is
  BY <1>1, <1>3, CreatedItems
<1>5. BooksPlaced'
  <2>1. Books' = Books \cup is
    BY <1>3, <1>4 DEF Books, ProcessingItems
  <2>2. QED
    BY <1>2, <1>3, <1>4, <2>1 DEF BooksPlaced
<1>6. \A i \in is : Entry[i] = "absent" /\ Entry'[i] = "todo"
  BY <1>1, <1>2, <1>4, PlaceOf
<1>7. \A i \in Items \ is : Entry'[i] = Entry[i]
  BY <1>3, <1>4, PlaceOf
<1>8. Ledger!Move(is, "todo")
  BY <1>1, <1>6, <1>7, EntryMoves
<1>9. CASE is = {}
  BY <1>3, <1>4, <1>5, <1>9 DEF PlaceStep, Entry
<1>10. ASSUME NEW k \in is PROVE Ledger!LedgerNext
  <2>1. is \in SUBSET {i \in Items : [j \in Items |-> j.blob][i] = [j \in Items |-> j.blob][k]
                                     /\ Entry[i] = "absent"}
    BY <1>1, <1>2, <1>6
  <2>2. Ledger!Request([j \in Items |-> j.blob][k])
    BY <1>8, <2>1 DEF Ledger!Request
  <2>3. QED
    BY <1>1, <2>2 DEF Ledger!LedgerNext
<1>11. QED
  BY <1>5, <1>9, <1>10 DEF PlaceStep

LEMMA PlacedFinish ==
  ASSUME TypeOK, BooksPlaced, NEW i \in TodoItems, TodoItems' = TodoItems \ {i},
         processed' = processed \cup {i}, UNCHANGED processing
  PROVE  PlaceStep
<1>1. i \in Items
  BY TodosAreItems DEF TypeOK
<1>2. BooksPlaced'
  <2>1. Books' \subseteq Books
    BY DEF Books, ProcessingItems
  <2>2. QED
    BY <1>1, <2>1 DEF BooksPlaced
<1>3. Entry[i] = "todo" /\ Entry'[i] = "done"
  BY <1>1, PlaceOf DEF BooksPlaced
<1>4. \A j \in Items \ {i} : Entry'[j] = Entry[j]
  BY PlaceOf
<1>5. Ledger!Move({i}, "done")
  BY <1>1, <1>3, <1>4, EntryMoves
<1>6. Ledger!Finish(i)
  BY <1>3, <1>5 DEF Ledger!Finish
<1>7. QED
  BY <1>1, <1>2, <1>6 DEF PlaceStep, Ledger!LedgerNext

\* The TODO that is deleted is the item's own.
LEMMA HandOverItems ==
  ASSUME TypeOK, OneContext, BooksPlaced, NEW i \in Items, i.ctx \in Uploads,
         MarkExternalAsProcessing(i)
  PROVE  \/ UNCHANGED manifestVars
         \/ /\ i \in TodoItems /\ TodoItems' = TodoItems \ {i}
            /\ processing' = [processing EXCEPT ![i] = @ + 1]
            /\ UNCHANGED processed
<1>1. CASE HandoverCommits(i) /\ ~UNCHANGED manifestVars
  <2>1. PICK id \in MatchingTodos(i) : MatchingTodos(i) = {id} /\ DeleteTodo(id)
    BY <1>1 DEF MarkExternalAsProcessing, HandoverCommits
  <2>2. /\ Matches(i, todo[id].item) /\ todo[id].item \in TodoItems
        /\ TodoItems' \subseteq TodoItems /\ TodoItems \subseteq TodoItems' \cup {todo[id].item}
        /\ \A j \in TodoItems' : ~Matches(i, j)
    BY <2>1, DeletedItems DEF TypeOK
  <2>3. todo[id].item \in Items /\ todo[id].item.ctx \in Uploads
    BY <2>2, TodosAreItems DEF TypeOK, BooksPlaced, Books
  <2>4. todo[id].item = i
    BY <2>2, <2>3, SameItem DEF Matches, SameWork
  <2>5. Matches(i, i)
    BY DEF Matches, SameWork
  <2>6. TodoItems' = TodoItems \ {i}
    BY <2>2, <2>4, <2>5
  <2>7. processing' = [processing EXCEPT ![i] = @ + 1] /\ UNCHANGED processed
    BY <1>1 DEF MarkExternalAsProcessing
  <2>8. QED
    BY <2>2, <2>4, <2>6, <2>7
<1>2. QED
  BY <1>1 DEF MarkExternalAsProcessing

LEMMA PlacedHandOver ==
  ASSUME TypeOK, BooksPlaced, NEW i \in TodoItems, TodoItems' = TodoItems \ {i},
         processing' = [processing EXCEPT ![i] = @ + 1], UNCHANGED processed
  PROVE  PlaceStep
<1>1. i \in Items
  BY TodosAreItems DEF TypeOK
<1>2. processing'[i] = 1 /\ \A j \in Items \ {i} : processing'[j] = processing[j]
  BY <1>1 DEF TypeOK, ManifestTypeOK, BooksPlaced
<1>3. BooksPlaced'
  <2>1. Books' \subseteq Books
    BY <1>2 DEF Books, ProcessingItems
  <2>2. processed \subseteq Items /\ TodoItems \subseteq Items
    BY TodosAreItems DEF TypeOK, ManifestTypeOK
  <2>3. QED
    BY <1>1, <1>2, <2>1, <2>2 DEF BooksPlaced
<1>4. Entry[i] = "todo" /\ Entry'[i] = "external"
  BY <1>1, <1>2, PlaceOf
<1>5. \A j \in Items \ {i} : Entry'[j] = Entry[j]
  BY <1>2, PlaceOf
<1>6. Ledger!Move({i}, "external")
  BY <1>1, <1>4, <1>5, EntryMoves
<1>7. Ledger!HandOver(i)
  BY <1>4, <1>6 DEF Ledger!HandOver
<1>8. QED
  BY <1>1, <1>3, <1>7 DEF PlaceStep, Ledger!LedgerNext

\* What is replaced has a TODO made of it, and is only one item: the statement
\* rolls back if it would be more.
LEMMA PlacedGiveBack ==
  ASSUME TypeOK, OneContext, BooksPlaced, NEW b, NEW held,
         RerunFailedExternalCommits(b), RerunFailedExternal(b, held)
  PROVE  PlaceStep
<1>1. /\ UNCHANGED processed
      /\ processing' = [i \in Items |-> IF i \in Replaced(b) THEN 0 ELSE processing[i]]
  BY DEF RerunFailedExternal
<1>2. CASE Replaced(b) = {} /\ TodoItems' = TodoItems
  <2>1. processing' = processing
    BY <1>1, <1>2 DEF TypeOK, ManifestTypeOK
  <2>2. QED
    BY <1>1, <1>2, <2>1, PlacedSame DEF SameBooks
<1>3. ASSUME NEW i \in WithoutTodo(Replaced(b)), TodoItems' = TodoItems \cup {i}
      PROVE  PlaceStep
  <2>1. i \in Items /\ i \in Replaced(b) /\ processing[i] > 0 /\ i \in Books
    BY DEF WithoutTodo, Replaced, ProcessingItems, Books
  <2>2. PICK e \in External : {k.extractor : k \in WithoutTodo(Replaced(b))} = {e}
    BY <2>1 DEF RerunFailedExternalCommits
  <2>3. ASSUME NEW j \in Replaced(b) PROVE j = i
    <3>1. j \in Items /\ processing[j] > 0 /\ j \in Books /\ j.blob = b /\ i.blob = b
      BY <2>1 DEF Replaced, ProcessingItems, Books
    <3>2. ASSUME NEW id \in Live, SameWork(j, todo[id].item) PROVE FALSE
      <4>1. todo[id].item \in TodoItems
        BY DEF TodoItems
      <4>2. todo[id].item \in Items /\ todo[id].item.ctx \in Uploads
        BY <4>1, TodosAreItems DEF TypeOK, BooksPlaced, Books
      <4>3. j = todo[id].item
        BY <3>1, <3>2, <4>2, SameItem DEF BooksPlaced
      <4>4. QED
        BY <3>1, <4>1, <4>3 DEF BooksPlaced
    <3>3. j \in WithoutTodo(Replaced(b))
      BY <3>2 DEF WithoutTodo
    <3>4. j.extractor = i.extractor
      BY <2>2, <3>3
    <3>5. QED
      BY <2>1, <3>1, <3>4, SameItem DEF BooksPlaced, SameWork
  <2>4. processing'[i] = 0 /\ \A j \in Items \ {i} : processing'[j] = processing[j]
    BY <1>1, <2>1, <2>3
  <2>5. i \notin processed
    BY <2>1 DEF BooksPlaced
  <2>6. BooksPlaced'
    <3>1. Books' \subseteq Books
      BY <1>1, <1>3, <2>1, <2>4 DEF Books, ProcessingItems
    <3>2. processed \subseteq Items /\ TodoItems \subseteq Items
      BY TodosAreItems DEF TypeOK, ManifestTypeOK
    <3>3. QED
      BY <1>1, <1>3, <2>1, <2>4, <2>5, <3>1, <3>2 DEF BooksPlaced
  <2>7. Entry[i] = "external" /\ Entry'[i] = "todo"
    BY <1>3, <2>1, PlaceOf DEF BooksPlaced
  <2>8. \A j \in Items \ {i} : Entry'[j] = Entry[j]
    BY <1>1, <1>3, <2>4, PlaceOf
  <2>9. Ledger!Move({i}, "todo")
    BY <2>1, <2>7, <2>8, EntryMoves
  <2>10. Ledger!GiveBack(i)
    BY <2>7, <2>9 DEF Ledger!GiveBack
  <2>11. QED
    BY <2>1, <2>6, <2>10 DEF PlaceStep, Ledger!LedgerNext
<1>4. QED
  BY <1>2, <1>3, RerunExternalItems DEF TypeOK

LEMMA PlacedRedo ==
  ASSUME TypeOK, BooksPlaced, NEW b \in Blobs, RerunSuccessful(b, Held)
  PROVE  PlaceStep
<1> DEFINE done == {p \in processed : p.blob = b}
<1>1. done \in SUBSET Items /\ \A i \in done : i \in processed /\ i.blob = b
  BY DEF TypeOK, ManifestTypeOK
<1>2. CreateTodos(done, Held) /\ processed' = processed \ done /\ UNCHANGED processing
  BY DEF RerunSuccessful
<1>3. done = {i \in Items : i.blob = b /\ Entry[i] = "done"}
  <2>1. \A i \in Items : i \in processed <=> Entry[i] = "done"
    BY PlaceOf DEF BooksPlaced
  <2>2. QED
    BY <1>1, <2>1
<1> HIDE DEF done
<1>4. TodoItems' = TodoItems \cup done
  BY <1>1, <1>2, CreatedItems
<1>5. BooksPlaced'
  <2>1. Books' \subseteq Books
    BY <1>1, <1>2, <1>4 DEF Books, ProcessingItems
  <2>2. QED
    BY <1>1, <1>2, <1>4, <2>1 DEF BooksPlaced
<1>6. \A i \in done : Entry'[i] = "todo"
  BY <1>1, <1>4, PlaceOf
<1>7. \A i \in Items \ done : Entry'[i] = Entry[i]
  BY <1>2, <1>4, PlaceOf
<1>8. Ledger!Move(done, "todo")
  BY <1>1, <1>6, <1>7, EntryMoves
<1>9. CASE done = {}
  BY <1>2, <1>4, <1>5, <1>9 DEF PlaceStep, Entry
<1>10. ASSUME NEW k \in done PROVE Ledger!LedgerNext
  <2>1. k \in Items /\ [j \in Items |-> j.blob][k] = b
    BY <1>1
  <2>2. done = {i \in Items : [j \in Items |-> j.blob][i] = [j \in Items |-> j.blob][k]
                              /\ Entry[i] = "done"}
    BY <1>3, <2>1
  <2>3. Ledger!Redo([j \in Items |-> j.blob][k])
    BY <1>8, <2>2 DEF Ledger!Redo
  <2>4. QED
    BY <2>1, <2>3 DEF Ledger!LedgerNext
<1>11. QED
  BY <1>5, <1>9, <1>10 DEF PlaceStep

LEMMA PlacedNext ==
  ASSUME TypeOK, OneContext, MaxHandovers = 1, PlacesInv, [Next]_vars
  PROVE  PlaceStep
<1>1. LedgerInv /\ BooksPlaced /\ BatchPlaced /\ BatchOnTheBooks
  BY DEF PlacesInv, LedgerInv
<1>2. CASE SameBooks
  BY <1>1, <1>2, PlacedSame
<1>3. UNCHANGED manifestVars => SameBooks
  BY UnchangedItems DEF manifestVars, SameBooks
<1>4. ASSUME NEW b \in Blobs, NEW ctx \in Uploads, Ingest(b, ctx) PROVE PlaceStep
  BY <1>1, <1>4, PlacedIngest
<1>5. ASSUME NEW w \in Workers, NEW i \in batch[w], Internal(i), MarkAsComplete(i) PROVE PlaceStep
  BY <1>1, <1>2, <1>3, <1>5, CompleteItems, PlacedFinish
<1>6. ASSUME NEW w \in Workers, NEW i \in batch[w], MarkExternalAsProcessing(i) PROVE PlaceStep
  <2>1. i \in Items /\ i.ctx \in Uploads
    BY <1>1 DEF TypeOK, BatchPlaced
  <2>2. QED
    BY <1>1, <1>2, <1>3, <1>6, <2>1, HandOverItems, PlacedHandOver
<1>7. ASSUME NEW b \in Blobs, RerunFailedExternalCommits(b), RerunFailedExternal(b, Held)
      PROVE  PlaceStep
  BY <1>1, <1>7, PlacedGiveBack
<1>8. ASSUME NEW b \in Blobs, RerunSuccessful(b, Held) PROVE PlaceStep
  BY <1>1, <1>8, PlacedRedo
<1>9. QED
  BY <1>2, <1>4, <1>5, <1>6, <1>7, <1>8, BookSteps

LEMMA PlacesInvNext ==
  ASSUME TypeOK, OneContext, MaxHandovers = 1, PlacesInv, [Next]_vars
  PROVE  PlacesInv' /\ [Ledger!LedgerNext]_Entry
<1>1. PlaceStep
  BY PlacedNext
<1>2. LedgerInv'
  BY LedgerInvNext DEF PlacesInv
<1>3. BatchPlaced'
  <2>1. \A i \in TodoItems : i.ctx \in Uploads
    BY DEF PlacesInv, BooksPlaced, Books
  <2>2. QED
    BY <2>1, BatchSteps DEF PlacesInv, BatchPlaced
<1>4. QED
  BY <1>1, <1>2, <1>3 DEF PlacesInv, PlaceStep

LEMMA PlacesStart == Init => PlacesInv /\ Ledger!LedgerInit
<1> SUFFICES ASSUME Init PROVE PlacesInv /\ Ledger!LedgerInit
  OBVIOUS
<1>1. TodoItems = {} /\ processed = {} /\ processing = [i \in Items |-> 0]
  BY DEF Init, ManifestInit, TodoItems, Live
<1>2. BooksPlaced /\ BatchPlaced
  BY <1>1 DEF BooksPlaced, BatchPlaced, Books, ProcessingItems, Init
<1>3. Ledger!LedgerInit
  BY <1>1 DEF Ledger!LedgerInit, Entry
<1>4. QED
  BY <1>2, <1>3, LedgerStart DEF PlacesInv

\* With external extractors too, every entry is of the ledger, as long as a
\* file comes in one context and not again while one of them has it: it is
\* handed over and given back one by one, and no TODO of another goes with it.
THEOREM OneContextImplementsLedger ==
  ASSUME OneContext, MaxHandovers = 1
  PROVE  Spec => ImplementsLedger
<1>1. Spec => []TypeOK
  BY TypeCorrect
<1>2. TypeOK /\ PlacesInv /\ [Next]_vars => PlacesInv' /\ [Ledger!LedgerNext]_Entry
  BY PlacesInvNext
<1>3. QED
  BY <1>1, <1>2, PlacesStart, PTL DEF Spec, ImplementsLedger, Ledger!LedgerSpec
==============================================================================
