-------------------------- MODULE ExternalExtraction --------------------------
(***************************************************************************)
(* The round trip of an external extraction, composed on WorkQueue.        *)
(*                                                                         *)
(* A worker sends a job to the transcription service over SQS, then marks  *)
(* the item as PROCESSING_EXTERNALLY (extraction/External*Extractor.scala).*)
(* The service puts its answer on another queue.  On every worker instance *)
(* a second thread consumes that queue (ExternalTranscriptionWorker.scala):*)
(* it deletes the message, stores the result in the index, marks the work  *)
(* as complete.  A translation is requested by the extractor that finds    *)
(* text in another language (DocumentBodyExtractor, OcrMyPdfExtractor).    *)
(*                                                                         *)
(* An answer names the blob and the extractor, not the context of the item *)
(* it was sent for.  The set of instances is fixed here: launching,        *)
(* terminating and lock breaking are checked in WorkQueue.                 *)
(***************************************************************************)
EXTENDS WorkQueue

CONSTANTS
  TranslatedBy, \* internal extractor -> the external one for the text it finds
  Foreign,      \* the blobs whose text is not in English
  Nested,       \* the origins with parent blobs: files out of an archive
  Consumers,    \* the threads that poll for results
  NoMessage,    \* a consumer is handling none
  Overtakes,    \* whether an answer may come before the sender's next transaction
  MaxLosses     \* bound: errors after a result was taken from the queue

ASSUME TranslatedByAssumption ==
  /\ DOMAIN TranslatedBy \subseteq Extractors \ External
  /\ Range(TranslatedBy) \subseteq External
ASSUME OvertakesAssumption == Overtakes \in BOOLEAN

\* MAX_RECEIVE_COUNT of ExternalTranscriptionWorker
MaxReceiveCount == 3

Keys == Blobs \X External
KeyOf(i) == <<i.blob, i.extractor>>
Stages == {"polling", "received", "overdue", "deleted", "stored", "erred"}
Points == {"fresh", "requested", "indexed", "sent", "needless"}
\* noAudioDetected is a success without a result; a body that is no
\* TranscriptionOutput is unreadable.
Outcomes == {"success", "silence", "failure", "unreadable"}
Messages == [key : Keys, outcome : Outcomes, receipts : 0..MaxReceiveCount]

ASSUME NoMessageAssumption == NoMessage \notin Messages

VARIABLES
  progress,  \* worker -> item -> how far the extractor has come with it
  texts,     \* the keys of translators that find text in the index
  jobs,      \* key -> jobs the service has yet to answer
  results,   \* message -> how many such messages the output queue has
  message,   \* consumer -> the message it is handling
  stage,     \* consumer -> what it has done with it
  writing,   \* keys whose result is being written to the index
  unwritten, \* keys whose result the index has refused
  lost,      \* keys whose answer is gone with nothing recorded; for the statements only
  losses

serviceVars == <<jobs, results>>
consumerVars == <<message, stage>>
indexVars == <<writing, unwritten>>
externalVars == <<progress, texts, serviceVars, consumerVars, indexVars, lost, losses>>
allVars == <<vars, externalVars>>

ExternalTypeOK ==
  /\ TypeOK
  /\ progress \in [Workers -> [Items -> Points]]
  /\ texts \subseteq Keys
  /\ jobs \in [Keys -> Nat]
  /\ results \in [Messages -> Nat]
  /\ message \in [Consumers -> Messages \cup {NoMessage}]
  /\ stage \in [Consumers -> Stages]
  /\ \A c \in Consumers : stage[c] = "polling" <=> message[c] = NoMessage
  /\ writing \subseteq Keys /\ unwritten \subseteq Keys /\ lost \subseteq Keys
  /\ losses \in Nat

ExternalInit ==
  /\ Init
  /\ progress = [w \in Workers |-> [i \in Items |-> "fresh"]]
  /\ texts = {}
  /\ jobs = [k \in Keys |-> 0]
  /\ results = [m \in Messages |-> 0]
  /\ message = [c \in Consumers |-> NoMessage]
  /\ stage = [c \in Consumers |-> "polling"]
  /\ writing = {} /\ unwritten = {} /\ lost = {}
  /\ losses = 0

-----------------------------------------------------------------------------
(* The worker: one item, from the extractor's first step to the record *)

\* A worker is at one item at a time.
At(w, i, point) ==
  /\ Executing(w, i) /\ batch[w] = Recognised(w)
  /\ progress[w][i] = point
  /\ \A j \in Items : progress[w][j] # "fresh" => j = i

Reach(w, i, point) ==
  /\ progress' = [progress EXCEPT ![w][i] = point]
  /\ UNCHANGED <<workerVars, rerunVars, faults>>

\* The item's outcome is recorded, by an action of WorkQueue.
Finish(w, i, point) ==
  /\ At(w, i, point)
  /\ progress' = [progress EXCEPT ![w][i] = "fresh"]
  /\ UNCHANGED <<texts, serviceVars, consumerVars, indexVars, lost, losses>>

Translatable(i) == i.extractor \in DOMAIN TranslatedBy /\ i.blob \in Foreign
Translation(i) == [i EXCEPT !.extractor = TranslatedBy[i.extractor]]

(***************************************************************************)
(* addTranslationTodo, whose Left the extractor ignores.  The parent blobs *)
(* are passed as an array of Uri objects, which the driver cannot convert: *)
(* the transaction fails unless there are none.                            *)
(***************************************************************************)
RequestTranslation(w, i) ==
  /\ At(w, i, "fresh") /\ Translatable(i)
  /\ IF i.ctx.origin \in Nested
     THEN UNCHANGED manifestVars
     ELSE AddTranslationTodo(Translation(i), Held)
  /\ Reach(w, i, "requested")
  /\ UNCHANGED <<texts, serviceVars, consumerVars, indexVars, lost, losses>>

\* The same, with a database error.
LoseRequest(w, i) ==
  /\ At(w, i, "fresh") /\ Translatable(i)
  /\ faults < MaxFaults /\ faults' = faults + 1
  /\ progress' = [progress EXCEPT ![w][i] = "requested"]
  /\ UNCHANGED <<manifestVars, workerVars, rerunVars, texts, serviceVars, consumerVars,
                 indexVars, lost, losses>>

\* addDocumentDetails or addDocumentOcr, awaited.
IndexText(w, i) ==
  /\ At(w, i, "requested")
  /\ texts' = texts \cup {KeyOf(Translation(i))}
  /\ Reach(w, i, "indexed")
  /\ UNCHANGED <<manifestVars, serviceVars, consumerVars, indexVars, lost, losses>>

SucceedInternally(w, i) ==
  /\ \/ Finish(w, i, "fresh") /\ ~Translatable(i)
     \/ Finish(w, i, "indexed")
  /\ Succeed(w, i)

\* A translator works on the text it finds in the index.
HasInput(i) == i.extractor \in Range(TranslatedBy) => KeyOf(i) \in texts

\* triggerExtraction, up to the Right of sendToQueue
SendJob(w, i) ==
  /\ At(w, i, "fresh") /\ i.extractor \in External /\ HasInput(i)
  /\ jobs' = [jobs EXCEPT ![KeyOf(i)] = @ + 1]
  /\ lost' = lost \ {KeyOf(i)}
  /\ Reach(w, i, "sent")
  /\ UNCHANGED <<manifestVars, texts, results, consumerVars, indexVars, losses>>

\* triggerExtraction of a translator without text: the work is marked as
\* complete, with any result, and the extraction fails all the same.
NothingToTranslate(w, i) ==
  /\ At(w, i, "fresh") /\ i.extractor \in External /\ ~HasInput(i)
  /\ MarkExternalAsComplete(i.blob, i.extractor)
  /\ Reach(w, i, "needless")
  /\ UNCHANGED <<texts, serviceVars, consumerVars, indexVars, lost, losses>>

MarkSent(w, i) == Finish(w, i, "sent") /\ HandOver(w, i)

FailItem(w, i) ==
  /\ \E point \in {"fresh", "requested", "needless"} : Finish(w, i, point)
  /\ Fail(w, i)

LoseItem(w, i) ==
  /\ \E point \in Points : Finish(w, i, point)
  /\ LoseOutcome(w, i)

CrashAt(w) ==
  /\ Crash(w)
  /\ progress' = [progress EXCEPT ![w] = [i \in Items |-> "fresh"]]
  /\ UNCHANGED <<texts, serviceVars, consumerVars, indexVars, lost, losses>>

WorkOn(w, i) ==
  \/ RequestTranslation(w, i) \/ IndexText(w, i) \/ SucceedInternally(w, i)
  \/ SendJob(w, i) \/ NothingToTranslate(w, i) \/ MarkSent(w, i)
  \/ FailItem(w, i)

Work(w) ==
  \/ GetWorkerDetails(w) /\ UNCHANGED externalVars
  \/ FetchRead(w) /\ UNCHANGED externalVars
  \/ FetchWrite(w) /\ UNCHANGED externalVars
  \/ Release(w) /\ UNCHANGED externalVars
  \/ \E i \in Items : WorkOn(w, i)

-----------------------------------------------------------------------------
(* The service and the output queue *)

Put(m) == results' = [results EXCEPT ![m] = @ + 1]

\* The jobs whose sender has yet to mark its item.
Unmarked(k) ==
  {p \in Workers \X Items : progress[p[1]][p[2]] = "sent" /\ KeyOf(p[2]) = k}

Answer(k, outcome) ==
  /\ jobs[k] > 0
  /\ Overtakes \/ jobs[k] > Cardinality(Unmarked(k))
  /\ outcome = "silence" => k[2] \notin Range(TranslatedBy)
  /\ jobs' = [jobs EXCEPT ![k] = @ - 1]
  /\ Put([key |-> k, outcome |-> outcome, receipts |-> 0])
  /\ UNCHANGED <<vars, progress, texts, consumerVars, indexVars, lost, losses>>

-----------------------------------------------------------------------------
(* The consumer: handleMessage *)

\* Mutant: the consumer keeps the message it is done with.
BecomesKeeping(c, s) ==
  /\ stage' = [stage EXCEPT ![c] = s]
  /\ UNCHANGED message
Becomes(c, s) ==
  /\ stage' = [stage EXCEPT ![c] = s]
  /\ message' = [message EXCEPT ![c] = IF s = "polling" THEN NoMessage ELSE @]

\* A received message stays on the queue, out of sight.
Receive(c, m) ==
  /\ stage[c] = "polling" /\ results[m] > 0
  /\ results' = [results EXCEPT ![m] = @ - 1]
  /\ message' = [message EXCEPT ![c] =
                   [m EXCEPT !.receipts = IF @ < MaxReceiveCount THEN @ + 1 ELSE @]]
  /\ stage' = [stage EXCEPT ![c] = "received"]
  /\ UNCHANGED <<vars, progress, texts, jobs, indexVars, lost, losses>>

LastReceipt(c) == message[c].receipts >= MaxReceiveCount
LogFailure(c) == LogExtractionFailure(message[c].key[1], message[c].key[2])

\* The visibility timeout of a message that was not deleted has run out: it
\* comes back, until the queue's own policy drops it after as many receipts.
TimesOut(c) == IF LastReceipt(c) THEN UNCHANGED results ELSE Put(message[c])

\* A consumer that still handles its message; if "overdue", it is late.
Handling(c) == stage[c] \in {"received", "overdue"}

\* The message is in sight again, or dropped, before it was deleted.
Redeliver(c) ==
  /\ stage[c] = "received"
  /\ faults < MaxFaults /\ faults' = faults + 1
  /\ TimesOut(c)
  /\ Becomes(c, "overdue")
  /\ UNCHANGED <<manifestVars, workerVars, rerunVars, progress, texts, jobs, indexVars,
                 lost, losses>>

\* That was because the consumer has died, or it goes on and the queue refuses
\* the receipt handle, which has expired: deleteMessage throws, and nothing is
\* recorded, at whatever receipt.
Abandon(c) ==
  /\ stage[c] = "overdue"
  /\ lost' = IF LastReceipt(c) THEN lost \cup {message[c].key} ELSE lost
  /\ Becomes(c, "polling")
  /\ UNCHANGED <<vars, progress, texts, serviceVars, indexVars, losses>>

\* parseMessage gives a Left: the message is not deleted.
\* Mutant: nothing is recorded at the last receipt.
RejectSilently(c) ==
  /\ Handling(c) /\ message[c].outcome = "unreadable"
  /\ IF stage[c] = "received" THEN TimesOut(c) ELSE UNCHANGED results
  /\ Becomes(c, "polling")
  /\ UNCHANGED <<vars, progress, texts, jobs, indexVars, lost, losses>>
Reject(c) ==
  /\ Handling(c) /\ message[c].outcome = "unreadable"
  /\ IF stage[c] = "received" THEN TimesOut(c) ELSE UNCHANGED results
  /\ IF LastReceipt(c) THEN LogFailure(c) ELSE UNCHANGED manifestVars
  /\ Becomes(c, "polling")
  /\ UNCHANGED <<workerVars, rerunVars, faults, progress, texts, jobs, indexVars, lost, losses>>

\* With an old receipt handle this has no effect on the message that is back.
DeleteMessage(c) ==
  /\ Handling(c) /\ message[c].outcome # "unreadable"
  /\ Becomes(c, "deleted")
  /\ UNCHANGED <<vars, progress, texts, serviceVars, indexVars, lost, losses>>

\* getTranscripts and addDocumentTranscription, or the same for a
\* translation: the write to the index is started, and not awaited.
StoreResult(c) ==
  /\ stage[c] = "deleted" /\ message[c].outcome = "success"
  /\ writing' = writing \cup {message[c].key}
  /\ Becomes(c, "stored")
  /\ UNCHANGED <<vars, progress, texts, serviceVars, unwritten, lost, losses>>

Completing(c) == stage[c] = "stored" \/ (stage[c] = "deleted" /\ message[c].outcome = "silence")

\* markExternalExtractorAsComplete.
CompleteResult(c) ==
  LET k == message[c].key
  IN /\ Completing(c)
     /\ MarkExternalAsComplete(k[1], k[2])
     /\ Becomes(c, IF ExternalCompletionSucceeds(k[1], k[2]) THEN "polling" ELSE "erred")
     /\ UNCHANGED <<workerVars, rerunVars, faults, progress, texts, serviceVars, indexVars, lost, losses>>

\* handleExternalTranscriptionOutputFailure; nothing reads the dead letters.
\* Mutant: without markAsFailure.
DeadLetterOnly(c) ==
  /\ stage[c] = "deleted" /\ message[c].outcome = "failure"
  /\ Becomes(c, "polling")
  /\ UNCHANGED <<vars, progress, texts, serviceVars, indexVars, lost, losses>>
DeadLetter(c) ==
  /\ stage[c] = "deleted" /\ message[c].outcome = "failure"
  /\ LogFailure(c)
  /\ Becomes(c, "polling")
  /\ UNCHANGED <<workerVars, rerunVars, faults, progress, texts, serviceVars, indexVars, lost, losses>>

\* Left(failure) of a message that was read: recorded at the last receipt only.
GiveUp(c) ==
  /\ stage[c] = "erred"
  /\ IF LastReceipt(c) THEN LogFailure(c) ELSE UNCHANGED manifestVars
  /\ Becomes(c, "polling")
  /\ UNCHANGED <<workerVars, rerunVars, faults, progress, texts, serviceVars, indexVars, lost, losses>>

Consume(c) ==
  \/ \E m \in Messages : Receive(c, m)
  \/ Reject(c) \/ Abandon(c) \/ DeleteMessage(c) \/ StoreResult(c) \/ CompleteResult(c)
  \/ DeadLetter(c) \/ GiveUp(c)

\* S3, Elasticsearch, SQS or Neo4j fail after the message was deleted, or the
\* consumer dies.  Only an error at the last receipt will be recorded.
LoseResult(c) ==
  /\ stage[c] \in {"deleted", "stored"}
  /\ losses < MaxLosses /\ losses' = losses + 1
  /\ \/ Becomes(c, "polling") /\ lost' = lost \cup {message[c].key}
     \/ /\ Becomes(c, "erred") /\ message[c].outcome # "failure"
        /\ lost' = IF LastReceipt(c) THEN lost ELSE lost \cup {message[c].key}
  /\ UNCHANGED <<vars, progress, texts, serviceVars, indexVars>>

IndexWritten(k) ==
  /\ k \in writing
  /\ writing' = writing \ {k} /\ unwritten' = unwritten \ {k}
  /\ UNCHANGED <<vars, progress, texts, serviceVars, consumerVars, lost, losses>>

\* The error is thrown in the future that nobody waits for.
IndexRefuses(k) ==
  /\ k \in writing
  /\ losses < MaxLosses /\ losses' = losses + 1
  /\ writing' = writing \ {k} /\ unwritten' = unwritten \cup {k}
  /\ UNCHANGED <<vars, progress, texts, serviceVars, consumerVars, lost>>

-----------------------------------------------------------------------------
ExternalNext ==
  \/ \E w \in Workers : Work(w) \/ CrashAt(w) \/ \E i \in Items : LoseItem(w, i) \/ LoseRequest(w, i)
  \/ \E k \in Keys, outcome \in Outcomes : Answer(k, outcome)
  \/ \E c \in Consumers : Consume(c) \/ Redeliver(c) \/ LoseResult(c)
  \/ \E k \in Keys : IndexWritten(k) \/ IndexRefuses(k)
  \/ \E b \in Blobs : Reprocess(b) /\ UNCHANGED externalVars
  \/ \E b \in Blobs, ctx \in Uploads : Ingest(b, ctx) /\ UNCHANGED externalVars

ExternalSpec == ExternalInit /\ [][ExternalNext]_allVars

\* WorkerScheduler and ExternalWorkerScheduler start the next poll whatever
\* became of the last; the service is taken to answer every job.
FairExternalSpec ==
  /\ ExternalSpec
  /\ \A w \in Workers : WF_allVars(Work(w))
  /\ \A c \in Consumers : WF_allVars(Consume(c))
  /\ \A k \in Keys : WF_allVars(\E outcome \in Outcomes : Answer(k, outcome))

-----------------------------------------------------------------------------
(* Safety *)

\* An answer that a consumer has taken and is not done with.  The message of a
\* late one is back on the queue, and an error is forgotten, except at the last
\* receipt.
InHand(c, k) ==
  /\ message[c] # NoMessage /\ message[c].key = k
  /\ stage[c] \in {"overdue", "erred"} => LastReceipt(c)

\* A job, an answer on the queue, or a consumer that has one in hand.
Outstanding(k) ==
  \/ jobs[k] > 0
  \/ \E m \in Messages : results[m] > 0 /\ m.key = k
  \/ \E c \in Consumers : InHand(c, k)

\* ExternalExtractor: "Once the response comes in we need to store the data
\* and update the manifest to mark the extraction as complete".  So an item
\* that is still marked as processing has an answer to come, or its extractor
\* a recorded failure, for a user to see and to rerun.  Only two things take
\* its answer away without a record: an error below the last receipt, or a crash,
\* after the message was deleted, and a timeout at the last receipt.
HandoverAccounted ==
  \A i \in ProcessingItems :
    Outstanding(KeyOf(i)) \/ Failed(i) \/ KeyOf(i) \in lost

\* The comment in addDocumentTranscription: an error of the index "will be
\* caught by catchNonFatal", and so stops the work from being marked as
\* complete.
CompletedIsIndexed ==
  \A i \in processed : KeyOf(i) \in unwritten => Failed(i)

\* "Triggered by the DocumentBodyExtractor when it detects non-English text"
\* (ExternalDocumentTranslationExtractor): when the extractor is done with
\* such a text, its translation is on the books.  (A database error can lose
\* the request, as LoseRequest shows; that of a file out of an archive fails.)
ForeignIsTranslated ==
  faults = 0 =>
    \A i \in processed : Translatable(i) /\ i.ctx.origin \notin Nested =>
      OnTheBooks(i.blob, TranslatedBy[i.extractor])

(* Statements of the code that do not hold, on instances the README gives *)

\* The same comment as it stands: the message is deleted before its result is
\* stored, and what goes wrong after that, or at the last receipt, is forgotten.
\* Refuted.
HandoverAnswered ==
  \A i \in ProcessingItems : Outstanding(KeyOf(i)) \/ Failed(i)

\* Without the two exceptions.  Refuted.
EveryForeignIsTranslated ==
  \A i \in processed : Translatable(i) => OnTheBooks(i.blob, TranslatedBy[i.extractor])

\* markExternalAsComplete takes it for an IllegalStateFailure if the numbers
\* of relationships it deletes and creates differ.  A consumer that has a
\* result, with an item waiting for it, does not meet that.
ExternalCompletionIsLegal ==
  \A c \in Consumers :
    Completing(c) /\ HandedOver(message[c].key[1], message[c].key[2]) # {} =>
      ExternalCompletionSucceeds(message[c].key[1], message[c].key[2])

(* Liveness *)

\* An item that was handed over is completed or given back in the end, or the
\* failure of its extractor is recorded.  Excepted are the answers that are
\* lost, and those that find the extractor PROCESSED on the blob, when a
\* translation was asked for again: markExternalAsComplete takes them for
\* duplicates.
EveryHandoverSettles ==
  \A i \in Items :
    processing[i] = 1 ~> \/ processing[i] # 1 \/ Failed(i)
                        \/ KeyOf(i) \in lost \/ AlreadyProcessed(i.blob, i.extractor)

\* Work does not stay where it is, neither to be done (EveryTodoSettles) nor
\* handed over, while the schedulers of workers and of consumers go on.
EveryItemSettles == EveryTodoSettles /\ EveryHandoverSettles
===============================================================================
