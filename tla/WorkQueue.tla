------------------------------ MODULE WorkQueue ------------------------------
(***************************************************************************)
(* The extraction workers (backend/app/extraction/Worker.scala) on the     *)
(* work queue of module Manifest, with everything that touches the queue   *)
(* beside them: ingestion, reprocessing, the lock breaker that webapp      *)
(* instances run (backend/app/utils/WorkerControl.scala), and EC2, which   *)
(* starts and terminates worker instances.                                 *)
(*                                                                         *)
(* A worker is a single thread that polls, fetches a batch, runs it item   *)
(* by item and releases its locks.  Each database transaction is a step of *)
(* its own.  fetchWork takes two: Neo4j isolates transactions at the       *)
(* read-committed level, so what its MATCH read may have changed by the    *)
(* time its SET and MERGE take their locks.                                *)
(***************************************************************************)
EXTENDS Manifest

CONSTANTS
  Applicable,   \* blob -> the extractors for its mime type
  Uploads,      \* the contexts files are ingested in
  Known,        \* worker -> the extractors its build has
  InitWorkers,  \* the workers that are running at the start
  MaxBatchSize, \* Worker.maxBatchSize
  MaxFaults,    \* bound: database errors and process crashes
  MaxReruns,    \* bound: reprocess requests
  MaxHandovers  \* bound: times one item is handed over before it is ingested again

ASSUME ApplicableAssumption == Applicable \in [Blobs -> SUBSET Extractors]
ASSUME UploadsAssumption == Uploads \subseteq Contexts
ASSUME KnownAssumption == Known \in [Workers -> SUBSET Extractors]
ASSUME InitWorkersAssumption == InitWorkers \subseteq Workers

VARIABLES
  status,      \* EC2's view of each instance
  pc,          \* where the worker's thread is
  view,        \* the nodes getWorkerDetails returned for this poll
  selected,    \* the TODOs the MATCH of fetchWork has read
  batch,       \* the work items still to execute
  rerun,       \* blob -> the transactions a reprocess request has yet to run
  faults, reruns

workerVars == <<status, pc, view, selected, batch>>
rerunVars == <<rerun, reruns>>
vars == <<manifestVars, workerVars, rerunVars, faults>>

Running == {w \in Workers : status[w] = "running"}
\* EC2 no longer lists a terminating instance, but its process still runs.
Alive(w) == status[w] \in {"running", "terminating"}
Held == UNION {selected[w] : w \in Workers}
Executing(w, i) == pc[w] = "executing" /\ i \in batch[w]

RerunSteps == {"failed", "external", "successful"}

TypeOK ==
  /\ ManifestTypeOK
  /\ status \in [Workers -> {"absent", "running", "terminating", "gone"}]
  /\ pc \in [Workers -> {"idle", "polled", "fetching", "executing"}]
  /\ view \in [Workers -> SUBSET Workers]
  /\ selected \in [Workers -> SUBSET TodoIds]
  /\ batch \in [Workers -> SUBSET Items]
  /\ rerun \in [Blobs -> SUBSET RerunSteps]
  /\ faults \in Nat /\ reruns \in Nat

Init ==
  /\ ManifestInit
  /\ status = [w \in Workers |-> IF w \in InitWorkers THEN "running" ELSE "absent"]
  /\ pc = [w \in Workers |-> "idle"]
  /\ view = [w \in Workers |-> {}]
  /\ selected = [w \in Workers |-> {}]
  /\ batch = [w \in Workers |-> {}]
  /\ rerun = [b \in Blobs |-> {}]
  /\ faults = 0 /\ reruns = 0

-----------------------------------------------------------------------------
(* Ingestion and reprocessing *)

Ingest(b, ctx) ==
  /\ \A e \in External : processing[[blob |-> b, extractor |-> e, ctx |-> ctx]] < MaxHandovers
  /\ InsertBlob(b, Applicable[b], ctx, Held)
  /\ UNCHANGED <<workerVars, rerunVars, faults>>

\* Blobs.reprocess: the failed extractors (internal, then external), the
\* successful ones, or both, each in a transaction of its own.
RequestReprocess(b, steps) ==
  /\ rerun[b] = {} /\ reruns < MaxReruns
  /\ rerun' = [rerun EXCEPT ![b] = steps]
  /\ reruns' = reruns + 1
  /\ UNCHANGED <<manifestVars, workerVars, faults>>

StepDone(b, step) == rerun' = [rerun EXCEPT ![b] = @ \ {step}]
\* The first Left ends the for-comprehension.
StepFailed(b) == rerun' = [rerun EXCEPT ![b] = {}]

ReprocessFailed(b) ==
  /\ "failed" \in rerun[b]
  /\ \/ RerunFailedCommits(b) /\ RerunFailed(b) /\ StepDone(b, "failed")
     \/ ~RerunFailedCommits(b) /\ StepFailed(b) /\ UNCHANGED manifestVars
  /\ UNCHANGED <<workerVars, reruns, faults>>

ReprocessExternal(b) ==
  /\ "external" \in rerun[b] /\ "failed" \notin rerun[b]
  /\ \/ RerunFailedExternalCommits(b) /\ RerunFailedExternal(b, Held) /\ StepDone(b, "external")
     \/ ~RerunFailedExternalCommits(b) /\ StepFailed(b) /\ UNCHANGED manifestVars
  /\ UNCHANGED <<workerVars, reruns, faults>>

ReprocessSuccessful(b) ==
  /\ rerun[b] = {"successful"}
  /\ RerunSuccessful(b, Held)
  /\ StepDone(b, "successful")
  /\ UNCHANGED <<workerVars, reruns, faults>>

-----------------------------------------------------------------------------
(* One poll of a worker: pollAndExecute *)

Goto(w, label) == pc' = [pc EXCEPT ![w] = label]

GetWorkerDetails(w) ==
  /\ Alive(w) /\ pc[w] = "idle"
  /\ view' = [view EXCEPT ![w] = Running]
  /\ Goto(w, "polled")
  /\ UNCHANGED <<manifestVars, status, selected, batch, rerunVars, faults>>

(***************************************************************************)
(* LIMIT and the cost fold keep some of the candidates, and the first of   *)
(* them whatever it costs (module BatchSelection): any set of them that is *)
(* not empty, within the limit, stands for the result.                     *)
(***************************************************************************)
Batches(candidates) ==
  {ids \in SUBSET candidates :
     /\ ids = {} => candidates = {}
     /\ Cardinality(ids) <= MaxBatchSize}

FetchRead(w) ==
  /\ pc[w] = "polled"
  /\ \E ids \in Batches(Candidates(w, view[w])) :
       selected' = [selected EXCEPT ![w] = ids]
  /\ Goto(w, "fetching")
  /\ UNCHANGED <<manifestVars, status, view, batch, rerunVars, faults>>

\* A TODO deleted since it was read fails the transaction.
FetchWrite(w) ==
  /\ pc[w] = "fetching"
  /\ IF selected[w] \subseteq Live
     THEN /\ ClaimTodos(w, selected[w])
          /\ batch' = [batch EXCEPT ![w] = {todo[id].item : id \in selected[w]}]
     ELSE UNCHANGED <<manifestVars, batch>>
  /\ selected' = [selected EXCEPT ![w] = {}]
  /\ Goto(w, "executing")
  /\ UNCHANGED <<status, view, rerunVars, faults>>

\* getWorkerDetails or fetchWork returns a Left: nothing to execute, and
\* recoverWith releases the worker's locks all the same.
FetchFails(w) ==
  /\ Alive(w) /\ pc[w] \in {"idle", "polled", "fetching"}
  /\ faults < MaxFaults /\ faults' = faults + 1
  /\ selected' = [selected EXCEPT ![w] = {}]
  /\ Goto(w, "executing")
  /\ UNCHANGED <<manifestVars, status, view, batch, rerunVars>>

Recognised(w) == {i \in batch[w] : i.extractor \in Known[w]}

\* fetchBatch: an extractor the worker's build does not have fails the whole
\* batch, after a failure is logged for every item of such an extractor.
RejectBatch(w) ==
  LET unknown == batch[w] \ Recognised(w)
  IN /\ unknown # {}
     /\ failures' = [b \in Blobs |-> [e \in Extractors |->
                       failures[b][e] + Cardinality({i \in unknown : i.blob = b /\ i.extractor = e})]]
     /\ batch' = [batch EXCEPT ![w] = {}]
     /\ UNCHANGED <<todo, processing, processed, locks, status, pc, view, selected,
                    rerunVars, faults>>

\* executeBatch, one item; whatever the outcome, the fold moves on.
Execute(w, i) ==
  /\ Executing(w, i) /\ batch[w] = Recognised(w)
  /\ batch' = [batch EXCEPT ![w] = @ \ {i}]
  /\ UNCHANGED <<status, pc, view, selected, rerunVars>>

Succeed(w, i) ==
  /\ Execute(w, i)
  /\ i.extractor \notin External
  /\ MarkAsComplete(i)
  /\ UNCHANGED faults

HandOver(w, i) ==
  /\ Execute(w, i)
  /\ i.extractor \in External
  /\ MarkExternalAsProcessing(i)
  /\ UNCHANGED faults

Fail(w, i) ==
  /\ Execute(w, i)
  /\ LogExtractionFailure(i.blob, i.extractor)
  /\ UNCHANGED faults

\* SubprocessInterruptedFailure: the subprocess of an internal extractor is
\* stopped with the instance.  Nothing is recorded.
Interrupt(w, i) ==
  /\ Execute(w, i)
  /\ status[w] = "terminating" /\ i.extractor \notin External
  /\ UNCHANGED <<manifestVars, faults>>

\* The outcome could not be written, after the retries markAsComplete makes.
LoseOutcome(w, i) ==
  /\ Execute(w, i)
  /\ faults < MaxFaults /\ faults' = faults + 1
  /\ UNCHANGED manifestVars

Release(w) ==
  /\ pc[w] = "executing" /\ batch[w] = {}
  /\ ReleaseLocks({w})
  /\ Goto(w, "idle")
  /\ view' = [view EXCEPT ![w] = {}]
  /\ UNCHANGED <<status, selected, batch, rerunVars, faults>>

\* The Left of releaseLocks is ignored.
ReleaseFails(w) ==
  /\ pc[w] = "executing" /\ batch[w] = {}
  /\ faults < MaxFaults /\ faults' = faults + 1
  /\ Goto(w, "idle")
  /\ view' = [view EXCEPT ![w] = {}]
  /\ UNCHANGED <<manifestVars, status, selected, batch, rerunVars>>

-----------------------------------------------------------------------------
(* Instances *)

Stopped(w) ==
  /\ Goto(w, "idle")
  /\ view' = [view EXCEPT ![w] = {}]
  /\ selected' = [selected EXCEPT ![w] = {}]
  /\ batch' = [batch EXCEPT ![w] = {}]

Launch(w) ==
  /\ status[w] = "absent"
  /\ status' = [status EXCEPT ![w] = "running"]
  /\ UNCHANGED <<manifestVars, pc, view, selected, batch, rerunVars, faults>>

\* The auto-scaling group replaces what it terminates; as names are never
\* used twice and the set of them is finite, the last one stays.
Terminate(w) ==
  /\ status[w] = "running" /\ Running # {w}
  /\ status' = [status EXCEPT ![w] = "terminating"]
  /\ UNCHANGED <<manifestVars, pc, view, selected, batch, rerunVars, faults>>

Disappear(w) ==
  /\ status[w] = "terminating"
  /\ status' = [status EXCEPT ![w] = "gone"]
  /\ Stopped(w)
  /\ UNCHANGED <<manifestVars, rerunVars, faults>>

\* The process dies and is restarted under the same instance id.
Crash(w) ==
  /\ status[w] = "running" /\ pc[w] # "idle"
  /\ faults < MaxFaults /\ faults' = faults + 1
  /\ Stopped(w)
  /\ UNCHANGED <<manifestVars, status, rerunVars>>

(***************************************************************************)
(* breakLocksOnTerminatedWorkers, every controlInterval.  The list of      *)
(* running instances is read just before the query: an instance that       *)
(* started in between takes minutes to fetch anything, and one that        *)
(* terminated in between is found by the next check.                       *)
(***************************************************************************)
BreakLocks ==
  /\ ReleaseLocks(Workers \ Running)
  /\ UNCHANGED <<workerVars, rerunVars, faults>>

-----------------------------------------------------------------------------
Poll(w) ==
  \/ GetWorkerDetails(w)
  \/ FetchRead(w)
  \/ FetchWrite(w)
  \/ RejectBatch(w)
  \/ Release(w)
  \/ \E i \in Items : Succeed(w, i) \/ HandOver(w, i) \/ Fail(w, i)

Trouble(w) ==
  \/ Launch(w)
  \/ Terminate(w)
  \/ Disappear(w)
  \/ Crash(w)
  \/ FetchFails(w)
  \/ ReleaseFails(w)
  \/ \E i \in Items : Interrupt(w, i) \/ LoseOutcome(w, i)

Reprocess(b) ==
  \/ \E steps \in {RerunSteps, {"failed", "external"}, {"successful"}} : RequestReprocess(b, steps)
  \/ ReprocessFailed(b)
  \/ ReprocessExternal(b)
  \/ ReprocessSuccessful(b)

Next ==
  \/ \E w \in Workers : Poll(w) \/ Trouble(w)
  \/ \E b \in Blobs : Reprocess(b) \/ \E ctx \in Uploads : Ingest(b, ctx)
  \/ BreakLocks

Spec == Init /\ [][Next]_vars

\* The schedulers keep every process going, and the check for terminated
\* workers runs at a fixed delay; a terminating instance does disappear.
FairSpec ==
  /\ Spec
  /\ \A w \in Workers : WF_vars(Poll(w)) /\ WF_vars(Disappear(w))
  /\ WF_vars(BreakLocks)

-----------------------------------------------------------------------------
(* Safety *)

\* A TODO that fetchWork will not pick up because its attempts are used up is
\* on a blob somebody has locked, so that a release will reset it, or of an
\* extractor with a recorded failure, so that a user gets to see it.
NoAttemptStranded ==
  \A id \in Live :
    todo[id].attempts > 0 => Locked(todo[id].item.blob) \/ Failed(todo[id].item)

\* While EC2 lists a worker as running, it holds the lock of every blob it is
\* still to execute: neither the lock breaker nor the end of another worker's
\* batch takes it away.
RunningBatchLocked ==
  \A w \in Running : \A i \in batch[w] : <<i.blob, w>> \in locks

\* An item of an internal extractor is recorded once: two TODOs for it, or a
\* TODO beside its PROCESSED, would make markAsComplete roll back for ever.
RecordedOnce ==
  \A id \in Live :
    todo[id].item.extractor \notin External =>
      /\ todo[id].item \notin processed
      /\ \A other \in Live \ {id} : todo[other].item # todo[id].item

\* Two running workers that computed their partitions from the same list of
\* nodes never execute the same item of an internal extractor at the same time,
\* in spite of the gap between the read and the write of fetchWork.  (An item of
\* an external extractor can have two TODOs, one in each worker's partition.)
SameViewExclusive ==
  \A w, v \in Running :
    w # v /\ view[w] = view[v] =>
      \A i \in batch[w] \cap batch[v] : i.extractor \in External

\* The test "Two workers calling fetchWork concurrently should not receive the
\* same blob" (Neo4JManifestITest): running workers execute disjoint blobs.
OneWorkerPerBlob ==
  \A w, v \in Running :
    w # v => \A i \in batch[w], j \in batch[v] : i.blob # j.blob

\* markAsComplete treats anything but one TODO deleted and one PROCESSED
\* created as an IllegalStateFailure: for an item a running worker executes,
\* the assertion holds.
CompletionIsLegal ==
  \A w \in Running : \A i \in batch[w] :
    i.extractor \in Known[w] \ External => CompletionCommits(i)

(* Statements of the code that do not hold, on instances the README gives *)

\* The comment in rerunFailedExtractorsForBlob: "Failed extractors leave in
\* place a TODO with attempts > 0 and an EXTRACTION_FAILURE".
FailureLeavesTodo ==
  \A b \in Blobs, e \in Extractors :
    failures[b][e] > 0 =>
      \E id \in Live : /\ todo[id].item.blob = b /\ todo[id].item.extractor = e
                      /\ todo[id].attempts > 0

\* rerunFailedExtractorsForBlob takes it for an IllegalStateFailure if the
\* EXTRACTION_FAILUREs deleted and the TODOs reset differ in number: "These
\* should be equal", whenever nobody is at work on the blob.
RerunIsLegal ==
  \A b \in Blobs : ~Locked(b) => RerunFailedCommits(b)

\* What rerunFailedExternalExtractorsForBlob, markAsComplete and their like
\* promise between them: once an extractor was asked for on a blob it stays on
\* the books, to do, handed over or done, in one context or another.
OnTheBooks(b, e) ==
  \E i \in TodoItems \cup ProcessingItems \cup processed : i.blob = b /\ i.extractor = e
NothingForgotten ==
  [][\A b \in Blobs, e \in Extractors : OnTheBooks(b, e) => OnTheBooks(b, e)']_vars

(* Liveness *)

\* Every item that is to be done is eventually done, or a failure of its
\* extractor is recorded on the blob.
EveryTodoSettles ==
  \A i \in Items : i \in TodoItems ~> (i \notin TodoItems \/ Failed(i))

-----------------------------------------------------------------------------
(* Refinement *)

\* The entry of each item in the ledger: a TODO counts before anything else.
Entry ==
  [i \in Items |-> IF i \in TodoItems THEN "todo"
                  ELSE IF processing[i] > 0 THEN "external"
                  ELSE IF i \in processed THEN "done" ELSE "absent"]

Ledger == INSTANCE ExtractionLedger WITH entry <- Entry, BlobOf <- [i \in Items |-> i.blob]

\* The workers' steps, in any interleaving and with any crash, change the
\* books only as ExtractionLedger allows: nothing asked for is ever lost.
ImplementsLedger == Ledger!LedgerSpec

\* The same of the items of internal extractors, whatever becomes of the others.
InternalItems == {i \in Items : i.extractor \notin External}
InternalLedger == INSTANCE ExtractionLedger WITH
  Items  <- InternalItems,
  BlobOf <- [i \in InternalItems |-> i.blob],
  entry  <- [i \in InternalItems |-> Entry[i]]
ImplementsInternalLedger == InternalLedger!LedgerSpec
===============================================================================
