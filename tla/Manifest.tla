------------------------------- MODULE Manifest -------------------------------
(***************************************************************************)
(* The extraction work queue that Giant keeps in its Neo4j graph           *)
(* (backend/app/services/manifest/Neo4jManifest.scala).  A blob and an     *)
(* extractor are joined by relationships:                                  *)
(*                                                                         *)
(*   TODO                   the extractor has yet to run on the blob       *)
(*   PROCESSING_EXTERNALLY  it was handed to an external service           *)
(*   PROCESSED              it has run                                     *)
(*   EXTRACTION_FAILURE     one run of it failed                           *)
(*                                                                         *)
(* and a blob is joined by LOCKED_BY to the worker that is busy with it.   *)
(* Every definition below is one Cypher statement, run in a transaction of *)
(* its own, or a part of one.  Actions leave alone what they do not name   *)
(* in a primed conjunct: a module that composes them says UNCHANGED.       *)
(***************************************************************************)
EXTENDS Integers, FiniteSets, FiniteSetsExt, Functions

CONSTANTS
  Blobs,        \* uris of the files, as hashes of their content
  Extractors,   \* extractor names
  External,     \* the extractors that hand the blob to another service
  Origins,      \* an ingestion with its languages and its parent blobs
  Workspaces,   \* workspace items a file can be uploaded to
  NoWorkspace,  \* the file was not uploaded to a workspace
  TodoIds,      \* Neo4j ids for TODO relationships: id(todo) in the code
  NoTodo,       \* an id that no TODO carries at the moment
  Workers       \* worker names: EC2 instance ids, ordered as numbers here

\* MaxExtractionAttempts is Manifest.maxExtractionAttempts.
MaxExtractionAttempts == 1

Contexts == [origin : Origins, workspace : Workspaces \cup {NoWorkspace}]
Items == [blob : Blobs, extractor : Extractors, ctx : Contexts]
Todos == [item : Items, attempts : Nat]

ASSUME ExternalAssumption == External \subseteq Extractors
ASSUME ItemsAssumption == IsFiniteSet(Items)
ASSUME TodoIdsAssumption == TodoIds \subseteq Nat
ASSUME WorkersAssumption == Workers \subseteq Nat /\ IsFiniteSet(Workers)
ASSUME NoTodoAssumption == NoTodo \notin Todos
ASSUME NoWorkspaceAssumption == NoWorkspace \notin Workspaces

VARIABLES
  todo,        \* id -> the TODO relationship that carries it, or NoTodo
  processing,  \* item -> how many PROCESSING_EXTERNALLY relationships it has
  processed,   \* the items with a PROCESSED relationship (always MERGEd)
  failures,    \* blob -> extractor -> number of EXTRACTION_FAILUREs
  locks        \* LOCKED_BY relationships, as <<blob, worker>>

manifestVars == <<todo, processing, processed, failures, locks>>

ManifestTypeOK ==
  /\ todo \in [TodoIds -> Todos \cup {NoTodo}]
  /\ processing \in [Items -> Nat]
  /\ processed \subseteq Items
  /\ failures \in [Blobs -> [Extractors -> Nat]]
  /\ locks \subseteq Blobs \X Workers

ManifestInit ==
  /\ todo = [id \in TodoIds |-> NoTodo]
  /\ processing = [i \in Items |-> 0]
  /\ processed = {}
  /\ failures = [b \in Blobs |-> [e \in Extractors |-> 0]]
  /\ locks = {}

-----------------------------------------------------------------------------
(* Reading the graph *)

Live == {id \in TodoIds : todo[id] # NoTodo}
TodoItems == {todo[id].item : id \in Live}
ProcessingItems == {i \in Items : processing[i] > 0}
Locked(b) == \E w \in Workers : <<b, w>> \in locks
LockedBlobs(ws) == {b \in Blobs : \E w \in ws : <<b, w>> \in locks}

(***************************************************************************)
(* A Cypher pattern names the workspace properties only when the item has  *)
(* a workspace, so a pattern without one also matches the relationships    *)
(* that have one.                                                          *)
(***************************************************************************)
SameWork(i, j) == i.blob = j.blob /\ i.extractor = j.extractor
Matches(pattern, i) ==
  /\ SameWork(pattern, i)
  /\ pattern.ctx.origin = i.ctx.origin
  /\ \/ pattern.ctx.workspace = NoWorkspace
     \/ pattern.ctx.workspace = i.ctx.workspace

MatchingTodos(i) == {id \in Live : Matches(i, todo[id].item)}
MatchingProcessed(i) == {p \in processed : Matches(i, p)}

-----------------------------------------------------------------------------
(* Creating TODOs *)

\* Ids are allocated by Neo4j: any that are neither in use nor in "held",
\* those some transaction has read and not yet written.
FreshIds(held) == (TodoIds \ Live) \ held

CreateTodos(items, held) ==
  \E new \in {ids \in SUBSET FreshIds(held) : Cardinality(ids) = Cardinality(items)} :
    \E f \in Bijection(new, items) :
      todo' = [id \in TodoIds |->
                 IF id \in new THEN [item |-> f[id], attempts |-> 0] ELSE todo[id]]

(***************************************************************************)
(* insertBlob: MERGE a TODO for every extractor that has no matching       *)
(* PROCESSED.  PROCESSING_EXTERNALLY and EXTRACTION_FAILURE are not looked *)
(* at.                                                                     *)
(***************************************************************************)
Wanted(b, es, ctx) == {[blob |-> b, extractor |-> e, ctx |-> ctx] : e \in es}

\* Mutant: PROCESSED is not looked at.
MissingTodos(b, es, ctx) == {i \in Wanted(b, es, ctx) : MatchingTodos(i) = {}}
Missing(b, es, ctx) ==
  {i \in Wanted(b, es, ctx) : MatchingProcessed(i) = {} /\ MatchingTodos(i) = {}}

InsertBlob(b, es, ctx, held) ==
  /\ Missing(b, es, ctx) # {}
  /\ CreateTodos(Missing(b, es, ctx), held)
  /\ UNCHANGED <<processing, processed, failures, locks>>

\* addTranslationTodoToBlob: MERGE one TODO; PROCESSED is not looked at.
\* Mutant: the MERGE does not name the extractor.
AddOnlyTodo(i, held) ==
  /\ \/ \E id \in Live : todo[id].item.blob = i.blob /\ UNCHANGED todo
     \/ (\A id \in Live : todo[id].item.blob # i.blob) /\ CreateTodos({i}, held)
  /\ UNCHANGED <<processing, processed, failures, locks>>
AddTranslationTodo(i, held) ==
  /\ \/ MatchingTodos(i) # {} /\ UNCHANGED todo
     \/ MatchingTodos(i) = {} /\ CreateTodos({i}, held)
  /\ UNCHANGED <<processing, processed, failures, locks>>

-----------------------------------------------------------------------------
(* fetchWork *)

\* The partition of worker w among the nodes it sees: its index in their
\* sorted list, -1 when it is not one of them.
WorkerIndex(w, nodes) ==
  IF w \in nodes THEN Cardinality({v \in nodes : v < w}) ELSE -1

\* Mutant: every worker is given every TODO.
Unpartitioned(w, nodes, id) == w \in nodes
InPartition(w, nodes, id) ==
  w \in nodes /\ id % Cardinality(nodes) = WorkerIndex(w, nodes)

Claimable(id) ==
  /\ id \in Live
  /\ ~Locked(todo[id].item.blob)
  /\ todo[id].attempts < MaxExtractionAttempts

\* The MATCH ... WHERE of fetchWork, before LIMIT and the cost fold.
Candidates(w, nodes) == {id \in TodoIds : Claimable(id) /\ InPartition(w, nodes, id)}

\* The write half: count the attempt and lock the blobs.
ClaimTodos(w, ids) ==
  /\ todo' = [id \in TodoIds |->
                IF id \in ids THEN [todo[id] EXCEPT !.attempts = @ + 1] ELSE todo[id]]
  /\ locks' = locks \cup {<<todo[id].item.blob, w>> : id \in ids}
  /\ UNCHANGED <<processing, processed, failures>>

-----------------------------------------------------------------------------
(* Locks *)

\* Mutant: the attempt is taken back, of TODOs that had none too.
LowerAttempts(ids) ==
  [id \in TodoIds |-> IF id \in ids THEN [todo[id] EXCEPT !.attempts = @ - 1] ELSE todo[id]]
ResetAttempts(ids) ==
  [id \in TodoIds |-> IF id \in ids THEN [todo[id] EXCEPT !.attempts = 0] ELSE todo[id]]

\* The locks of the workers in ws.  Mutant: of any worker on the same blobs.
BlobLocks(ws) == {l \in locks : l[1] \in LockedBlobs(ws)}
WorkerLocks(ws) == {l \in locks : l[2] \in ws}

\* The TODOs that get their attempts back when those locks go: all of the
\* blobs' whose extractor has no EXTRACTION_FAILURE there.  Mutant: none.
Failed(i) == failures[i.blob][i.extractor] > 0
Unrestarted(ws) == {}
Restarted(ws) ==
  {id \in Live : todo[id].item.blob \in LockedBlobs(ws) /\ ~Failed(todo[id].item)}

\* releaseLocks and releaseLocksForTerminatedWorkers
ReleaseLocks(ws) ==
  /\ locks' = locks \ WorkerLocks(ws)
  /\ todo' = ResetAttempts(Restarted(ws))
  /\ UNCHANGED <<processing, processed, failures>>

-----------------------------------------------------------------------------
(* Recording the outcome of an extraction *)

DeleteTodo(id) == todo' = [todo EXCEPT ![id] = NoTodo]

\* markAsComplete commits when exactly one TODO is deleted and exactly one
\* PROCESSED is created; otherwise it rolls back and returns a Left.
\* Mutant: one of several matching TODOs is deleted.
SomeTodoMatches(i) == MatchingTodos(i) # {} /\ MatchingProcessed(i) = {}
CompletionCommits(i) ==
  /\ \E id \in TodoIds : MatchingTodos(i) = {id}
  /\ MatchingProcessed(i) = {}

\* Mutant: the PROCESSED is not created.
MarkAsGone(i) ==
  /\ IF CompletionCommits(i) THEN \E id \in MatchingTodos(i) : DeleteTodo(id) ELSE UNCHANGED todo
  /\ UNCHANGED <<processing, processed, failures, locks>>
MarkAsComplete(i) ==
  \/ /\ CompletionCommits(i)
     /\ \E id \in MatchingTodos(i) : DeleteTodo(id)
     /\ processed' = processed \cup {i}
     /\ UNCHANGED <<processing, failures, locks>>
  \/ /\ ~CompletionCommits(i)
     /\ UNCHANGED manifestVars

\* markExternalAsProcessing: the start time makes every
\* PROCESSING_EXTERNALLY a new one, so only the deletions can differ from 1.
HandoverCommits(i) == \E id \in TodoIds : MatchingTodos(i) = {id}

MarkExternalAsProcessing(i) ==
  \/ /\ HandoverCommits(i)
     /\ \E id \in MatchingTodos(i) : DeleteTodo(id)
     /\ processing' = [processing EXCEPT ![i] = @ + 1]
     /\ UNCHANGED <<processed, failures, locks>>
  \/ /\ ~HandoverCommits(i)
     /\ UNCHANGED manifestVars

(***************************************************************************)
(* markExternalAsComplete knows the blob and the extractor only.  When a   *)
(* PROCESSED exists in any context it does nothing and succeeds; otherwise *)
(* it replaces every PROCESSING_EXTERNALLY by a PROCESSED that is MERGEd   *)
(* by origin, and rolls back unless as many are created as are deleted,    *)
(* which takes exactly one in each origin.                                 *)
(***************************************************************************)
HandedOver(b, e) == {i \in ProcessingItems : i.blob = b /\ i.extractor = e}
AlreadyProcessed(b, e) == \E p \in processed : p.blob = b /\ p.extractor = e
ExternalCompletionCommits(b, e) ==
  /\ HandedOver(b, e) # {}
  /\ \A i \in HandedOver(b, e) :
       /\ processing[i] = 1
       /\ \A j \in HandedOver(b, e) : i.ctx.origin = j.ctx.origin => i = j
ExternalCompletionSucceeds(b, e) ==
  AlreadyProcessed(b, e) \/ ExternalCompletionCommits(b, e)

\* Mutant: the PROCESSED is not created.
ForgetHandedOver(b, e) ==
  /\ processing' = [i \in Items |-> IF i \in HandedOver(b, e) THEN 0 ELSE processing[i]]
  /\ UNCHANGED <<todo, processed, failures, locks>>

MarkExternalAsComplete(b, e) ==
  \/ /\ ~AlreadyProcessed(b, e) /\ ExternalCompletionCommits(b, e)
     /\ processing' = [i \in Items |-> IF i \in HandedOver(b, e) THEN 0 ELSE processing[i]]
     /\ processed' = processed \cup HandedOver(b, e)
     /\ UNCHANGED <<todo, failures, locks>>
  \/ /\ AlreadyProcessed(b, e) \/ ~ExternalCompletionCommits(b, e)
     /\ UNCHANGED manifestVars

LogExtractionFailure(b, e) ==
  /\ failures' = [failures EXCEPT ![b][e] = @ + 1]
  /\ UNCHANGED <<todo, processing, processed, locks>>

-----------------------------------------------------------------------------
(* Reprocessing *)

FailedExtractors(b, es) == {e \in es : failures[b][e] > 0}
ClearFailures(b, es) ==
  failures' = [failures EXCEPT ![b] = [e \in Extractors |-> IF e \in es THEN 0 ELSE @[e]]]

\* TODOs of blob b with attempts to reset, for extractors in es.
\* Mutant: the comparison is the wrong way round.
Unattempted(b, es) ==
  {id \in Live : /\ todo[id].item.blob = b
                 /\ todo[id].item.extractor \in es
                 /\ todo[id].attempts = 0}
Attempted(b, es) ==
  {id \in Live : /\ todo[id].item.blob = b
                 /\ todo[id].item.extractor \in es
                 /\ todo[id].attempts > 0}

\* rerunFailedExtractorsForBlob rolls back unless as many TODOs were reset
\* as EXTRACTION_FAILUREs were deleted.
RerunFailedCommits(b) ==
  LET es == FailedExtractors(b, Extractors \ External)
  IN MapThenSumSet(LAMBDA e : failures[b][e], es) = Cardinality(Attempted(b, es))

RerunFailed(b) ==
  LET es == FailedExtractors(b, Extractors \ External)
  IN /\ todo' = ResetAttempts(Attempted(b, es))
     /\ ClearFailures(b, es)
     /\ UNCHANGED <<processing, processed, locks>>

(***************************************************************************)
(* rerunFailedExternalExtractorsForBlob: reset the TODOs of the external   *)
(* extractors that failed, replace their PROCESSING_EXTERNALLYs by one     *)
(* TODO (MERGEd without properties: any TODO of that extractor will do)    *)
(* and delete the failures; roll back when relationships were deleted and  *)
(* the number of TODOs created is not exactly one.                         *)
(***************************************************************************)
Replaced(b) ==
  {i \in ProcessingItems : i.blob = b /\ i.extractor \in FailedExtractors(b, External)}
WithoutTodo(is) == {i \in is : ~\E id \in Live : SameWork(i, todo[id].item)}

RerunFailedExternalCommits(b) ==
  \/ Replaced(b) = {}
  \/ \E e \in External : {i.extractor : i \in WithoutTodo(Replaced(b))} = {e}

\* Mutant: the PROCESSING_EXTERNALLYs are deleted before the TODO is made of them.
RerunTooLate(b, held) ==
  LET es == FailedExtractors(b, External)
  IN /\ todo' = ResetAttempts(Attempted(b, es))
     /\ processing' = [i \in Items |-> IF i \in Replaced(b) THEN 0 ELSE processing[i]]
     /\ ClearFailures(b, es)
     /\ UNCHANGED <<processed, locks>>
RerunFailedExternal(b, held) ==
  LET es    == FailedExtractors(b, External)
      reset == ResetAttempts(Attempted(b, es))
  IN /\ \/ Replaced(b) = {} /\ todo' = reset
        \/ \E i \in WithoutTodo(Replaced(b)), id \in FreshIds(held) :
             todo' = [reset EXCEPT ![id] = [item |-> i, attempts |-> 0]]
     /\ processing' = [i \in Items |-> IF i \in Replaced(b) THEN 0 ELSE processing[i]]
     /\ ClearFailures(b, es)
     /\ UNCHANGED <<processed, locks>>

\* rerunSuccessfulExtractorsForBlob: every PROCESSED becomes a TODO.
RerunSuccessful(b, held) ==
  LET done == {p \in processed : p.blob = b}
  IN /\ CreateTodos(done, held)
     /\ processed' = processed \ done
     /\ UNCHANGED <<processing, failures, locks>>

===============================================================================
