------------------------ MODULE ExternalExtractionProofs ------------------------
(***************************************************************************)
(* Theorems about ExternalExtraction.  A step of it is, on the work queue, *)
(* a step of WorkQueue or one of three statements that WorkQueue lacks;    *)
(* so the invariants proved in WorkQueueProofs carry over once each of the *)
(* three is seen to preserve them.                                         *)
(***************************************************************************)
EXTENDS ExternalExtraction, WorkQueueProofs

\* What a step does to the work queue that WorkQueue does not.
Added ==
  /\ \/ \E i \in Items : i.extractor \in Range(TranslatedBy) /\ AddTranslationTodo(i, Held)
     \/ \E k \in Keys : MarkExternalAsComplete(k[1], k[2])
     \/ \E k \in Keys : LogExtractionFailure(k[1], k[2])
  /\ UNCHANGED <<workerVars, rerunVars, faults>>

LEMMA TranslationType ==
  ASSUME NEW i \in Items, Translatable(i)
  PROVE  /\ Translation(i) \in Items
         /\ Translation(i).extractor \in External /\ Translation(i).extractor \in Range(TranslatedBy)
         /\ KeyOf(Translation(i)) \in Keys
<1>1. TranslatedBy[i.extractor] \in Range(TranslatedBy) /\ TranslatedBy[i.extractor] \in External
  BY TranslatedByAssumption DEF Translatable, Range
<1>2. TranslatedBy[i.extractor] \in Extractors
  BY <1>1, ExternalAssumption
<1>3. /\ Translation(i) = [i EXCEPT !.extractor = TranslatedBy[i.extractor]]
      /\ i \in [blob : Blobs, extractor : Extractors, ctx : Contexts]
  BY DEF Translation, Items
<1>4. QED
  BY <1>1, <1>2, <1>3 DEF Items, KeyOf, Keys

LEMMA KeyType ==
  ASSUME NEW i \in Items, i.extractor \in External
  PROVE  KeyOf(i) \in Keys
BY DEF KeyOf, Keys, Items

\* The message a consumer is handling.
LEMMA MessageType ==
  ASSUME ExternalTypeOK, NEW c \in Consumers, stage[c] # "polling"
  PROVE  message[c] \in Messages /\ message[c].key \in Keys
BY DEF ExternalTypeOK, Messages

LEMMA WorkSteps ==
  ASSUME ExternalTypeOK, NEW w \in Workers, NEW i \in Items, WorkOn(w, i)
  PROVE  [Next]_vars \/ Added
<1>1. CASE RequestTranslation(w, i)
  <2>1. CASE i.ctx.origin \in Nested
    BY <1>1, <2>1 DEF RequestTranslation, Reach, vars
  <2>2. CASE i.ctx.origin \notin Nested
    BY <1>1, <2>2, TranslationType DEF RequestTranslation, Reach, Added
  <2>3. QED
    BY <2>1, <2>2
<1>2. CASE IndexText(w, i) \/ SendJob(w, i)
  BY <1>2 DEF IndexText, SendJob, Reach, vars
<1>3. CASE SucceedInternally(w, i) \/ MarkSent(w, i) \/ FailItem(w, i)
  BY <1>3 DEF SucceedInternally, MarkSent, FailItem, Next, Poll
<1>4. CASE NothingToTranslate(w, i)
  <2>1. /\ KeyOf(i) \in Keys /\ MarkExternalAsComplete(KeyOf(i)[1], KeyOf(i)[2])
    BY <1>4, KeyType DEF NothingToTranslate, KeyOf
  <2>2. QED
    BY <1>4, <2>1 DEF NothingToTranslate, Reach, Added
<1>5. QED
  BY <1>1, <1>2, <1>3, <1>4 DEF WorkOn

LEMMA ConsumerSteps ==
  ASSUME ExternalTypeOK, NEW c \in Consumers, Consume(c)
  PROVE  [Next]_vars \/ Added
<1>1. CASE (\E m \in Messages : Receive(c, m)) \/ Abandon(c) \/ DeleteMessage(c) \/ StoreResult(c)
  BY <1>1 DEF Receive, Abandon, DeleteMessage, StoreResult
<1>2. CASE Reject(c) \/ GiveUp(c) \/ DeadLetter(c)
  <2>1. /\ LogFailure(c) \/ UNCHANGED manifestVars
        /\ UNCHANGED <<workerVars, rerunVars, faults>>
        /\ stage[c] # "polling"
    BY <1>2 DEF Reject, GiveUp, DeadLetter, Handling
  <2>2. message[c].key \in Keys
    BY <2>1, MessageType
  <2>3. QED
    BY <2>1, <2>2 DEF LogFailure, Added, vars
<1>3. CASE CompleteResult(c)
  BY <1>3, MessageType DEF CompleteResult, Completing, Added
<1>4. QED
  BY <1>1, <1>2, <1>3 DEF Consume

\* Every step, seen on the work queue.  faults is a counter of the model.
LEMMA QueueSteps ==
  ASSUME ExternalTypeOK, [ExternalNext]_allVars
  PROVE  \/ [Next]_vars
         \/ Added
         \/ UNCHANGED <<manifestVars, workerVars, rerunVars>> /\ faults' = faults + 1
<1>1. ASSUME NEW w \in Workers, Work(w) PROVE [Next]_vars \/ Added
  BY <1>1, WorkSteps DEF Work, Next, Poll
<1>2. ASSUME NEW w \in Workers, CrashAt(w) PROVE [Next]_vars
  BY <1>2 DEF CrashAt, Next, Trouble
<1>3. ASSUME NEW w \in Workers, NEW i \in Items, LoseItem(w, i) PROVE [Next]_vars
  BY <1>3 DEF LoseItem, Next, Trouble
<1>4. ASSUME NEW w \in Workers, NEW i \in Items, LoseRequest(w, i)
      PROVE  UNCHANGED <<manifestVars, workerVars, rerunVars>> /\ faults' = faults + 1
  BY <1>4 DEF LoseRequest, ExternalTypeOK, TypeOK
<1>5. ASSUME NEW k \in Keys, NEW outcome \in Outcomes, Answer(k, outcome) PROVE [Next]_vars
  BY <1>5 DEF Answer
<1>6. ASSUME NEW c \in Consumers, Consume(c) \/ Redeliver(c) \/ LoseResult(c)
      PROVE  \/ [Next]_vars
             \/ Added
             \/ UNCHANGED <<manifestVars, workerVars, rerunVars>> /\ faults' = faults + 1
  <2>1. CASE Redeliver(c)
    BY <2>1 DEF Redeliver, ExternalTypeOK, TypeOK
  <2>2. CASE LoseResult(c)
    BY <2>2 DEF LoseResult
  <2>3. CASE Consume(c)
    BY <2>3, ConsumerSteps
  <2>4. QED
    BY <1>6, <2>1, <2>2, <2>3
<1>7. ASSUME NEW k \in Keys, IndexWritten(k) \/ IndexRefuses(k) PROVE [Next]_vars
  BY <1>7 DEF IndexWritten, IndexRefuses
<1>8. ASSUME NEW b \in Blobs, Reprocess(b) \/ \E ctx \in Uploads : Ingest(b, ctx) PROVE [Next]_vars
  BY <1>8 DEF Next
<1>9. CASE UNCHANGED allVars
  BY <1>9 DEF allVars
<1>10. QED
  BY <1>1, <1>2, <1>3, <1>4, <1>5, <1>6, <1>7, <1>8, <1>9 DEF ExternalNext

-----------------------------------------------------------------------------
(* What the three statements preserve *)

LEMMA AddTranslationTodoType ==
  ASSUME ManifestTypeOK, NEW i \in Items, NEW held, AddTranslationTodo(i, held)
  PROVE  ManifestTypeOK'
<1>1. todo' \in [TodoIds -> Todos \cup {NoTodo}]
  BY CreateTodosType DEF AddTranslationTodo, ManifestTypeOK
<1>2. QED
  BY <1>1 DEF AddTranslationTodo, ManifestTypeOK

LEMMA MarkExternalAsCompleteType ==
  ASSUME ManifestTypeOK, NEW b, NEW e, MarkExternalAsComplete(b, e)
  PROVE  ManifestTypeOK'
<1>1. HandedOver(b, e) \subseteq Items
  BY DEF HandedOver, ProcessingItems
<1>2. QED
  BY <1>1 DEF MarkExternalAsComplete, ManifestTypeOK, manifestVars

LEMMA AddedType == TypeOK /\ Added => TypeOK'
<1> SUFFICES ASSUME TypeOK, Added PROVE TypeOK'
  OBVIOUS
<1>1. \A k \in Keys : k[1] \in Blobs /\ k[2] \in Extractors
  BY ExternalAssumption DEF Keys
<1>2. ManifestTypeOK'
  BY <1>1, AddTranslationTodoType, MarkExternalAsCompleteType, LogExtractionFailureType
     DEF Added, TypeOK
<1>3. QED
  BY <1>2 DEF Added, TypeOK, workerVars, rerunVars

LEMMA QueueType ==
  ASSUME ExternalTypeOK, [ExternalNext]_allVars
  PROVE  TypeOK'
<1>1. TypeOK
  BY DEF ExternalTypeOK
<1>2. CASE UNCHANGED <<manifestVars, workerVars, rerunVars>> /\ faults' = faults + 1
  BY <1>1, <1>2 DEF TypeOK, ManifestTypeOK, manifestVars, workerVars, rerunVars
<1>3. QED
  BY <1>1, <1>2, QueueSteps, NextType, AddedType

LEMMA AddedStranded ==
  ASSUME TypeOK, NoAttemptStranded, Added
  PROVE  NoAttemptStranded'
<1>1. ASSUME NEW i \in Items, AddTranslationTodo(i, Held) PROVE NoAttemptStranded'
  <2>1. CASE CreateTodos({i}, Held)
    BY <1>1, <2>1, StrandedCreate DEF AddTranslationTodo, TypeOK
  <2>2. QED
    BY <1>1, <2>1, StrandedUnchanged DEF AddTranslationTodo
<1>2. ASSUME NEW k \in Keys, MarkExternalAsComplete(k[1], k[2]) PROVE NoAttemptStranded'
  BY <1>2, StrandedUnchanged DEF MarkExternalAsComplete, manifestVars
<1>3. ASSUME NEW k \in Keys, LogExtractionFailure(k[1], k[2]) PROVE NoAttemptStranded'
  <2>1. \A b \in Blobs, e \in Extractors : failures[b][e] > 0 => failures'[b][e] > 0
    BY <1>3 DEF LogExtractionFailure, TypeOK, ManifestTypeOK
  <2>2. QED
    BY <1>3, <2>1, StrandedFailure DEF LogExtractionFailure, TypeOK
<1>4. QED
  BY <1>1, <1>2, <1>3 DEF Added

LEMMA AddedOnce ==
  ASSUME TypeOK, RecordedOnce, Added
  PROVE  RecordedOnce'
<1>1. ASSUME NEW i \in Items, i.extractor \in Range(TranslatedBy), AddTranslationTodo(i, Held)
      PROVE  RecordedOnce'
  <2>1. CASE CreateTodos({i}, Held)
    BY <1>1, <2>1, OnceCreate, TranslatedByAssumption DEF AddTranslationTodo, TypeOK, Internal
  <2>2. QED
    BY <1>1, <2>1 DEF AddTranslationTodo, RecordedOnce, Live
<1>2. ASSUME NEW k \in Keys, MarkExternalAsComplete(k[1], k[2]) PROVE RecordedOnce'
  <2>1. k[2] \in External
    BY DEF Keys
  <2>2. \A i \in processed' : i \in processed \/ i.extractor \in External
    BY <1>2, <2>1 DEF MarkExternalAsComplete, HandedOver, manifestVars
  <2>3. QED
    BY <1>2, <2>2 DEF MarkExternalAsComplete, RecordedOnce, Live, manifestVars
<1>3. ASSUME NEW k \in Keys, LogExtractionFailure(k[1], k[2]) PROVE RecordedOnce'
  BY <1>3 DEF LogExtractionFailure, RecordedOnce, Live
<1>4. QED
  BY <1>1, <1>2, <1>3 DEF Added

-----------------------------------------------------------------------------
(* Theorems *)

\* The part of ExternalTypeOK that is not the work queue's.
RoundTripTypeOK ==
  /\ progress \in [Workers -> [Items -> Points]]
  /\ texts \subseteq Keys
  /\ jobs \in [Keys -> Nat]
  /\ results \in [Messages -> Nat]
  /\ message \in [Consumers -> Messages \cup {NoMessage}]
  /\ stage \in [Consumers -> Stages]
  /\ \A c \in Consumers : stage[c] = "polling" <=> message[c] = NoMessage
  /\ writing \subseteq Keys /\ unwritten \subseteq Keys /\ lost \subseteq Keys
  /\ losses \in Nat

\* Only then is the text that is indexed that of a translator.
OnlyForeignRequested ==
  \A w \in Workers, i \in Items :
    progress[w][i] \in {"requested", "indexed"} => Translatable(i)

RoundTripInv == RoundTripTypeOK /\ OnlyForeignRequested

LEMMA ReachInv ==
  ASSUME RoundTripInv, NEW w \in Workers, NEW i \in Items, NEW point \in Points,
         progress' = [progress EXCEPT ![w][i] = point],
         point \in {"requested", "indexed"} => Translatable(i)
  PROVE  progress' \in [Workers -> [Items -> Points]] /\ OnlyForeignRequested'
BY DEF RoundTripInv, RoundTripTypeOK, OnlyForeignRequested, Translatable

LEMMA FinishInv ==
  ASSUME RoundTripInv, NEW w \in Workers, NEW i \in Items, NEW point, Finish(w, i, point)
  PROVE  RoundTripInv'
<1>1. progress' \in [Workers -> [Items -> Points]] /\ OnlyForeignRequested'
  BY ReachInv DEF Finish, Points
<1>2. QED
  BY <1>1 DEF RoundTripInv, RoundTripTypeOK, Finish, serviceVars, consumerVars, indexVars

LEMMA WorkInv ==
  ASSUME RoundTripInv, NEW w \in Workers, NEW i \in Items,
         WorkOn(w, i) \/ LoseItem(w, i) \/ LoseRequest(w, i)
  PROVE  RoundTripInv'
<1>1. CASE RequestTranslation(w, i) \/ LoseRequest(w, i)
  <2>1. progress' = [progress EXCEPT ![w][i] = "requested"] /\ Translatable(i)
    BY <1>1 DEF RequestTranslation, LoseRequest, Reach
  <2>2. progress' \in [Workers -> [Items -> Points]] /\ OnlyForeignRequested'
    BY <2>1, ReachInv DEF Points
  <2>3. QED
    BY <1>1, <2>2 DEF RequestTranslation, LoseRequest, RoundTripInv, RoundTripTypeOK,
                      serviceVars, consumerVars, indexVars
<1>2. CASE IndexText(w, i)
  <2>1. Translatable(i)
    BY <1>2 DEF IndexText, At, RoundTripInv, OnlyForeignRequested
  <2>2. progress' \in [Workers -> [Items -> Points]] /\ OnlyForeignRequested'
    BY <1>2, <2>1, ReachInv DEF IndexText, Reach, Points
  <2>3. texts' \subseteq Keys
    BY <1>2, <2>1, TranslationType DEF IndexText, RoundTripInv, RoundTripTypeOK
  <2>4. QED
    BY <1>2, <2>2, <2>3 DEF IndexText, RoundTripInv, RoundTripTypeOK,
                            serviceVars, consumerVars, indexVars
<1>3. CASE SendJob(w, i)
  <2>1. KeyOf(i) \in Keys
    BY <1>3, KeyType DEF SendJob
  <2>2. progress' \in [Workers -> [Items -> Points]] /\ OnlyForeignRequested'
    BY <1>3, ReachInv DEF SendJob, Reach, Points
  <2>3. jobs' \in [Keys -> Nat]
    BY <1>3, <2>1 DEF SendJob, RoundTripInv, RoundTripTypeOK
  <2>4. QED
    BY <1>3, <2>2, <2>3 DEF SendJob, RoundTripInv, RoundTripTypeOK, consumerVars, indexVars
<1>4. CASE NothingToTranslate(w, i)
  <2>1. progress' \in [Workers -> [Items -> Points]] /\ OnlyForeignRequested'
    BY <1>4, ReachInv DEF NothingToTranslate, Reach, Points
  <2>2. QED
    BY <1>4, <2>1 DEF NothingToTranslate, RoundTripInv, RoundTripTypeOK,
                      serviceVars, consumerVars, indexVars
<1>5. CASE SucceedInternally(w, i) \/ MarkSent(w, i) \/ FailItem(w, i) \/ LoseItem(w, i)
  BY <1>5, FinishInv DEF SucceedInternally, MarkSent, FailItem, LoseItem
<1>6. QED
  BY <1>1, <1>2, <1>3, <1>4, <1>5 DEF WorkOn

\* The consumer's part: its message, and the queue's count of messages.
LEMMA BecomesType ==
  ASSUME RoundTripTypeOK, NEW c \in Consumers, stage[c] # "polling",
         NEW s \in Stages, s # "received", Becomes(c, s)
  PROVE  /\ message' \in [Consumers -> Messages \cup {NoMessage}]
         /\ stage' \in [Consumers -> Stages]
         /\ \A d \in Consumers : stage'[d] = "polling" <=> message'[d] = NoMessage
<1>1. /\ message' \in [Consumers -> Messages \cup {NoMessage}]
      /\ stage' \in [Consumers -> Stages]
  BY DEF Becomes, RoundTripTypeOK
<1>2. ASSUME NEW d \in Consumers
      PROVE  stage'[d] = "polling" <=> message'[d] = NoMessage
  <2>1. CASE d = c
    BY <2>1 DEF Becomes, RoundTripTypeOK
  <2>2. CASE d # c
    BY <2>2 DEF Becomes, RoundTripTypeOK
  <2>3. QED
    BY <2>1, <2>2
<1>3. QED
  BY <1>1, <1>2

LEMMA PutType ==
  ASSUME RoundTripTypeOK, NEW m \in Messages, Put(m)
  PROVE  results' \in [Messages -> Nat]
BY DEF Put, RoundTripTypeOK

LEMMA ReceiveType ==
  ASSUME RoundTripTypeOK, NEW c \in Consumers, NEW m \in Messages, Receive(c, m)
  PROVE  RoundTripTypeOK'
<1> DEFINE received == [m EXCEPT !.receipts = IF @ < MaxReceiveCount THEN @ + 1 ELSE @]
<1>1. received \in Messages
  <2>1. /\ m.receipts \in 0..MaxReceiveCount
        /\ m \in [key : Keys, outcome : Outcomes, receipts : 0..MaxReceiveCount]
    BY DEF Messages
  <2>2. (IF m.receipts < MaxReceiveCount THEN m.receipts + 1 ELSE m.receipts)
          \in 0..MaxReceiveCount
    BY <2>1 DEF MaxReceiveCount
  <2>3. QED
    BY <2>1, <2>2 DEF Messages
<1>2. message' = [message EXCEPT ![c] = received]
  BY DEF Receive
<1>3. received # NoMessage
  BY <1>1, NoMessageAssumption
<1> HIDE DEF received
<1>4. /\ message' \in [Consumers -> Messages \cup {NoMessage}]
      /\ stage' \in [Consumers -> Stages]
  BY <1>1, <1>2 DEF Receive, RoundTripTypeOK, Stages
<1>5. ASSUME NEW d \in Consumers
      PROVE  stage'[d] = "polling" <=> message'[d] = NoMessage
  <2>1. CASE d = c
    BY <1>2, <1>3, <2>1 DEF Receive, RoundTripTypeOK
  <2>2. CASE d # c
    BY <1>2, <2>2 DEF Receive, RoundTripTypeOK
  <2>3. QED
    BY <2>1, <2>2
<1>6. results' \in [Messages -> Nat]
  <2>1. results[m] \in Nat /\ results[m] > 0
    BY DEF Receive, RoundTripTypeOK
  <2>2. results[m] - 1 \in Nat
    BY <2>1
  <2>3. QED
    BY <2>2 DEF Receive, RoundTripTypeOK
<1>7. QED
  BY <1>4, <1>5, <1>6 DEF Receive, RoundTripTypeOK, indexVars

LEMMA ConsumerType ==
  ASSUME RoundTripTypeOK, NEW c \in Consumers, Consume(c) \/ Redeliver(c) \/ LoseResult(c)
  PROVE  RoundTripTypeOK'
<1> DEFINE Kept == /\ message' \in [Consumers -> Messages \cup {NoMessage}]
                   /\ stage' \in [Consumers -> Stages]
                   /\ \A d \in Consumers : stage'[d] = "polling" <=> message'[d] = NoMessage
<1>1. stage[c] # "polling" => message[c] \in Messages /\ message[c].key \in Keys
  BY DEF RoundTripTypeOK, Messages
<1>2. CASE \E m \in Messages : Receive(c, m)
  BY <1>2, ReceiveType
<1>3. ASSUME stage[c] # "polling", TimesOut(c) \/ UNCHANGED results
      PROVE  results' \in [Messages -> Nat]
  BY <1>1, <1>3, PutType DEF TimesOut, RoundTripTypeOK
<1>4. CASE Reject(c) \/ Redeliver(c)
  <2>1. stage[c] # "polling" /\ (TimesOut(c) \/ UNCHANGED results)
    BY <1>4 DEF Reject, Redeliver, Handling
  <2>2. Becomes(c, "polling") \/ Becomes(c, "overdue")
    BY <1>4 DEF Reject, Redeliver
  <2>3. Kept
    BY <2>1, <2>2, BecomesType DEF Stages
  <2>4. results' \in [Messages -> Nat]
    BY <1>3, <2>1
  <2>5. UNCHANGED <<progress, texts, jobs, indexVars, lost, losses>>
    BY <1>4 DEF Reject, Redeliver
  <2>6. QED
    BY <2>3, <2>4, <2>5 DEF RoundTripTypeOK, indexVars
<1>5. CASE DeleteMessage(c) \/ DeadLetter(c) \/ GiveUp(c)
  <2>1. stage[c] # "polling"
    BY <1>5 DEF DeleteMessage, DeadLetter, GiveUp, Handling
  <2>2. Becomes(c, "polling") \/ Becomes(c, "deleted")
    BY <1>5 DEF DeleteMessage, DeadLetter, GiveUp
  <2>3. Kept
    BY <2>1, <2>2, BecomesType DEF Stages
  <2>4. QED
    BY <1>5, <2>3 DEF DeleteMessage, DeadLetter, GiveUp, RoundTripTypeOK, serviceVars, indexVars
<1>6. CASE StoreResult(c)
  <2>1. Kept
    BY <1>6, BecomesType DEF StoreResult, Stages
  <2>2. writing' \subseteq Keys
    BY <1>1, <1>6 DEF StoreResult, RoundTripTypeOK
  <2>3. QED
    BY <1>6, <2>1, <2>2 DEF StoreResult, RoundTripTypeOK, serviceVars
<1>7. CASE CompleteResult(c)
  <2>1. stage[c] # "polling"
    BY <1>7 DEF CompleteResult, Completing
  <2>2. Becomes(c, "polling") \/ Becomes(c, "erred")
    BY <1>7 DEF CompleteResult
  <2>3. Kept
    BY <2>1, <2>2, BecomesType DEF Stages
  <2>4. QED
    BY <1>7, <2>3 DEF CompleteResult, RoundTripTypeOK, serviceVars, indexVars
<1>8. CASE LoseResult(c) \/ Abandon(c)
  <2>1. stage[c] # "polling"
    BY <1>8 DEF LoseResult, Abandon
  <2>2. Becomes(c, "polling") \/ Becomes(c, "erred")
    BY <1>8 DEF LoseResult, Abandon
  <2>3. Kept
    BY <2>1, <2>2, BecomesType DEF Stages
  <2>4. lost' \subseteq Keys
    BY <1>1, <1>8, <2>1 DEF LoseResult, Abandon, RoundTripTypeOK
  <2>5. losses' \in Nat
    BY <1>8 DEF LoseResult, Abandon, RoundTripTypeOK
  <2>6. UNCHANGED <<progress, texts, serviceVars, indexVars>>
    BY <1>8 DEF LoseResult, Abandon
  <2>7. QED
    BY <2>3, <2>4, <2>5, <2>6 DEF RoundTripTypeOK, serviceVars, indexVars
<1>9. QED
  BY <1>2, <1>4, <1>5, <1>6, <1>7, <1>8 DEF Consume

LEMMA AnswerType ==
  ASSUME RoundTripTypeOK, NEW k \in Keys, NEW outcome \in Outcomes, Answer(k, outcome)
  PROVE  RoundTripTypeOK'
<1>1. [key |-> k, outcome |-> outcome, receipts |-> 0] \in Messages
  BY DEF Messages, MaxReceiveCount
<1>2. results' \in [Messages -> Nat]
  BY <1>1, PutType DEF Answer
<1>3. jobs[k] \in Nat /\ jobs[k] > 0
  BY DEF Answer, RoundTripTypeOK
<1>4. jobs' \in [Keys -> Nat]
  BY <1>3 DEF Answer, RoundTripTypeOK
<1>5. QED
  BY <1>2, <1>4 DEF Answer, RoundTripTypeOK, consumerVars, indexVars

LEMMA RoundTripNext ==
  ASSUME RoundTripInv, [ExternalNext]_allVars
  PROVE  RoundTripInv'
<1>1. CASE UNCHANGED externalVars
  BY <1>1 DEF RoundTripInv, RoundTripTypeOK, OnlyForeignRequested, externalVars,
              serviceVars, consumerVars, indexVars
<1>2. ASSUME NEW w \in Workers, Work(w) PROVE RoundTripInv'
  BY <1>1, <1>2, WorkInv DEF Work
<1>3. ASSUME NEW w \in Workers, CrashAt(w) PROVE RoundTripInv'
  <2>1. progress' \in [Workers -> [Items -> Points]] /\ OnlyForeignRequested'
    BY <1>3 DEF CrashAt, RoundTripInv, RoundTripTypeOK, OnlyForeignRequested, Points, Translatable
  <2>2. QED
    BY <1>3, <2>1 DEF CrashAt, RoundTripInv, RoundTripTypeOK, serviceVars, consumerVars, indexVars
<1>4. ASSUME UNCHANGED progress, RoundTripTypeOK' PROVE RoundTripInv'
  BY <1>4 DEF RoundTripInv, OnlyForeignRequested, Translatable
<1>5. ASSUME NEW k \in Keys, NEW outcome \in Outcomes, Answer(k, outcome) PROVE RoundTripInv'
  BY <1>4, <1>5, AnswerType DEF Answer, RoundTripInv
<1>6. ASSUME NEW c \in Consumers, Consume(c) \/ Redeliver(c) \/ LoseResult(c) PROVE RoundTripInv'
  <2>1. UNCHANGED progress
    BY <1>6 DEF Consume, Receive, Reject, Abandon, DeleteMessage, StoreResult, CompleteResult,
                DeadLetter, GiveUp, Redeliver, LoseResult
  <2>2. QED
    BY <1>4, <1>6, <2>1, ConsumerType DEF RoundTripInv
<1>7. ASSUME NEW k \in Keys, IndexWritten(k) \/ IndexRefuses(k) PROVE RoundTripInv'
  <2>1. RoundTripTypeOK'
    BY <1>7 DEF IndexWritten, IndexRefuses, RoundTripInv, RoundTripTypeOK, serviceVars, consumerVars
  <2>2. QED
    BY <1>4, <1>7, <2>1 DEF IndexWritten, IndexRefuses
<1>8. QED
  BY <1>1, <1>2, <1>3, <1>5, <1>6, <1>7, WorkInv DEF ExternalNext, allVars

LEMMA RoundTripInit == ExternalInit => RoundTripInv
BY NoMessageAssumption
   DEF ExternalInit, RoundTripInv, RoundTripTypeOK, OnlyForeignRequested, Points, Stages

\* The variables of the work queue and of the round trip always have their
\* types: there is no message without a consumer's stage to go with it, and
\* neither queue is left with fewer than no messages.
THEOREM ExternalTypeCorrect == ExternalSpec => []ExternalTypeOK
<1>1. ExternalTypeOK <=> TypeOK /\ RoundTripTypeOK
  BY DEF ExternalTypeOK, RoundTripTypeOK
<1>2. ExternalInit => TypeOK /\ RoundTripInv
  BY RoundTripInit, InitType DEF ExternalInit
<1>3. TypeOK /\ RoundTripInv /\ [ExternalNext]_allVars => (TypeOK /\ RoundTripInv)'
  BY <1>1, RoundTripNext, QueueType DEF RoundTripInv
<1>4. TypeOK /\ RoundTripInv => ExternalTypeOK
  BY <1>1 DEF RoundTripInv
<1>5. QED
  BY <1>2, <1>3, <1>4, PTL DEF ExternalSpec

\* A fault of the model's environment only moves a counter.
LEMMA QueueStranded ==
  ASSUME ExternalTypeOK, NoAttemptStranded, [ExternalNext]_allVars
  PROVE  NoAttemptStranded'
<1>1. TypeOK
  BY DEF ExternalTypeOK
<1>2. CASE UNCHANGED <<manifestVars, workerVars, rerunVars>>
  BY <1>2, StrandedUnchanged DEF manifestVars
<1>3. QED
  BY <1>1, <1>2, QueueSteps, StrandedNext, AddedStranded

LEMMA QueueOnce ==
  ASSUME ExternalTypeOK, RecordedOnce, [ExternalNext]_allVars
  PROVE  RecordedOnce'
<1>1. TypeOK
  BY DEF ExternalTypeOK
<1>2. CASE UNCHANGED <<manifestVars, workerVars, rerunVars>>
  BY <1>2 DEF manifestVars, RecordedOnce, Live
<1>3. QED
  BY <1>1, <1>2, QueueSteps, OnceNext, AddedOnce

\* With the consumers and the translators at work, still no TODO has an attempt
\* without a lock on its blob, a recorded failure or an attempt left: the
\* translation TODOs are made with no attempt, and the failures the consumers
\* record only add to those that excuse one.
THEOREM ExternalNothingStranded == ExternalSpec => []NoAttemptStranded
<1>1. ExternalInit => NoAttemptStranded
  BY DEF ExternalInit, Init, ManifestInit, NoAttemptStranded, Live
<1>2. QED
  BY <1>1, ExternalTypeCorrect, QueueStranded, PTL DEF ExternalSpec

\* With them, still no work of an internal extractor is recorded twice, or
\* recorded as done and to do: what they write is of external extractors only.
THEOREM ExternalRecordedOnce == ExternalSpec => []RecordedOnce
<1>1. ExternalInit => RecordedOnce
  BY DEF ExternalInit, Init, ManifestInit, RecordedOnce, Live
<1>2. QED
  BY <1>1, ExternalTypeCorrect, QueueOnce, PTL DEF ExternalSpec

-----------------------------------------------------------------------------
(* Workers with the same view, among the consumers and the translators *)

LEMMA AddedHeld ==
  ASSUME TypeOK, Added
  PROVE  HeldKept
<1>1. ASSUME NEW i \in Items, AddTranslationTodo(i, Held) PROVE HeldKept
  BY <1>1, HeldCreated, HeldUnchanged DEF AddTranslationTodo
<1>2. ASSUME UNCHANGED todo PROVE HeldKept
  BY <1>2, HeldUnchanged
<1>3. QED
  BY <1>1, <1>2 DEF Added, MarkExternalAsComplete, LogExtractionFailure, manifestVars

LEMMA QueueLocked ==
  ASSUME ExternalTypeOK, BatchLocked, [ExternalNext]_allVars
  PROVE  BatchLocked'
<1>1. CASE UNCHANGED <<locks, workerVars>>
  BY <1>1 DEF BatchLocked, RunningBatchLocked, NothingBeforeLaunch, Running, workerVars
<1>2. Added => UNCHANGED <<locks, workerVars>>
  BY DEF Added, AddTranslationTodo, MarkExternalAsComplete, LogExtractionFailure, manifestVars
<1>3. UNCHANGED <<manifestVars, workerVars, rerunVars>> => UNCHANGED <<locks, workerVars>>
  BY DEF manifestVars
<1>4. QED
  BY <1>1, <1>2, <1>3, QueueSteps, LockedNext DEF ExternalTypeOK

LEMMA QueueApart ==
  ASSUME ExternalTypeOK, RunningBatchLocked, RecordedOnce, Apart, [ExternalNext]_allVars
  PROVE  Apart'
<1>1. TypeOK
  BY DEF ExternalTypeOK
<1>2. ASSUME HeldKept, UNCHANGED workerVars PROVE Apart'
  <2>1. UNCHANGED <<status, pc, view, batch, selected>> /\ Running' = Running
    BY <1>2 DEF workerVars, Running
  <2>2. HoldsInTurn'
    BY <2>1 DEF Apart, HoldsInTurn
  <2>3. ReadsItsPartition' /\ ReadIsApart' /\ SameViewExclusive'
    BY <1>2, <2>1, ApartKept
  <2>4. QED
    BY <2>2, <2>3 DEF Apart
<1>3. Added => HeldKept /\ UNCHANGED workerVars
  BY <1>1, AddedHeld DEF Added
<1>4. UNCHANGED <<manifestVars, workerVars, rerunVars>> => HeldKept /\ UNCHANGED workerVars
  BY HeldUnchanged DEF manifestVars
<1>5. QED
  BY <1>1, <1>2, <1>3, <1>4, QueueSteps, ApartNext

LEMMA QueueStart == ExternalInit => BatchLocked /\ RecordedOnce /\ Apart
<1>1. Init => BatchLocked /\ RecordedOnce
  BY DEF Init, ManifestInit, BatchLocked, RunningBatchLocked, NothingBeforeLaunch, Running,
         RecordedOnce, Live
<1>2. QED
  BY <1>1, ApartInit DEF ExternalInit

\* What the consumers and translators write takes no lock, and no id that a
\* worker has read: two workers with the same list of nodes still never execute
\* the same item of an internal extractor at once.
THEOREM ExternalSameViewApart == ExternalSpec => []SameViewExclusive
<1>1. BatchLocked => RunningBatchLocked
  BY DEF BatchLocked
<1>2. Apart => SameViewExclusive
  BY DEF Apart
<1>3. QED
  BY <1>1, <1>2, QueueStart, ExternalTypeCorrect, QueueLocked, QueueOnce, QueueApart, PTL
     DEF ExternalSpec

-----------------------------------------------------------------------------
(* The books, with the answers of the external services *)

LEMMA HandedOverItems ==
  ASSUME NEW b, NEW e, MarkExternalAsComplete(b, e)
  PROVE  /\ UNCHANGED todo
         /\ processed \subseteq processed'
         /\ \A i \in processed' \ processed : i.extractor = e
         /\ \A i \in ProcessingItems : i \in ProcessingItems' \/ i \in processed'
         /\ \A i \in Items : processing'[i] = processing[i] \/ processing'[i] = 0
BY DEF MarkExternalAsComplete, HandedOver, ProcessingItems, manifestVars

LEMMA TranslationItems ==
  ASSUME NEW i \in Items, NEW held, AddTranslationTodo(i, held)
  PROVE  /\ TodoItems' = TodoItems \/ TodoItems' = TodoItems \cup {i}
         /\ \E j \in TodoItems' : SameWork(i, j)
         /\ UNCHANGED <<processing, processed>>
<1>1. CASE MatchingTodos(i) # {} /\ UNCHANGED todo
  BY <1>1, UnchangedItems DEF AddTranslationTodo, MatchingTodos, Matches, TodoItems
<1>2. CASE CreateTodos({i}, held)
  <2>1. TodoItems' = TodoItems \cup {i}
    BY <1>2, CreatedItems
  <2>2. QED
    BY <2>1 DEF AddTranslationTodo, SameWork
<1>3. QED
  BY <1>1, <1>2 DEF AddTranslationTodo

LEMMA QueueRemembered ==
  ASSUME ExternalTypeOK, [ExternalNext]_allVars
  PROVE  Remembered
<1>1. TypeOK
  BY DEF ExternalTypeOK
<1>2. ASSUME UNCHANGED <<todo, processing, processed>> PROVE Remembered
  BY <1>2, UnchangedItems, RememberedGrown DEF Books, ProcessingItems
<1>3. ASSUME NEW i \in Items, AddTranslationTodo(i, Held) PROVE Remembered
  BY <1>3, TranslationItems, RememberedGrown DEF Books, ProcessingItems
<1>4. ASSUME NEW k \in Keys, MarkExternalAsComplete(k[1], k[2]) PROVE Remembered
  <2>1. Books \subseteq Books'
    BY <1>4, HandedOverItems, UnchangedItems DEF Books
  <2>2. QED
    BY <2>1, RememberedGrown
<1>5. Added => Remembered
  BY <1>2, <1>3, <1>4 DEF Added, LogExtractionFailure
<1>6. QED
  BY <1>1, <1>2, <1>5, QueueSteps, RememberedNext DEF manifestVars

\* Nor do the answers make it forget one: an answer turns all that was handed
\* over of its key into work that is done.
THEOREM ExternalNothingForgotten == ExternalSpec => NothingForgotten
<1>1. ExternalTypeOK /\ [ExternalNext]_allVars =>
        [\A b \in Blobs, e \in Extractors : OnTheBooks(b, e) => OnTheBooks(b, e)']_vars
  BY QueueRemembered, RememberedOnBooks
<1>2. QED
  BY <1>1, ExternalTypeCorrect, PTL DEF ExternalSpec, NothingForgotten

LEMMA QueueLedger ==
  ASSUME ExternalTypeOK, LedgerInv, [ExternalNext]_allVars
  PROVE  LedgerInv' /\ [InternalLedger!LedgerNext]_InternalEntry
<1>1. TypeOK /\ NeverHandedOver
  BY DEF ExternalTypeOK, LedgerInv
<1>2. ASSUME LedgerStep, UNCHANGED workerVars PROVE LedgerInv'
  <2>1. \A w \in Workers : \A i \in batch[w] : Internal(i) => i \in InternalItems
    BY <1>1 DEF TypeOK, InternalItems, Internal
  <2>2. BatchOnTheBooks'
    BY <1>2, <2>1 DEF LedgerInv, BatchOnTheBooks, LedgerStep, InternalKept, Internal, workerVars
  <2>3. QED
    BY <1>2, <2>2 DEF LedgerInv, LedgerStep
<1>3. ASSUME UNCHANGED <<todo, processing, processed>> PROVE LedgerStep
  BY <1>1, <1>3, UnchangedItems, LedgerSame DEF SameBooks
<1>4. ASSUME NEW i \in Items, i.extractor \in Range(TranslatedBy), AddTranslationTodo(i, Held)
      PROVE  LedgerStep
  <2>1. OthersStay({})
    BY <1>4, TranslationItems, TranslatedByAssumption DEF OthersStay, InternalItems
  <2>2. QED
    BY <1>1, <1>4, <2>1, TranslationItems, LedgerStay
<1>5. ASSUME NEW k \in Keys, MarkExternalAsComplete(k[1], k[2]) PROVE LedgerStep
  <2>1. k[2] \in External
    BY DEF Keys
  <2>2. OthersStay({})
    BY <1>5, <2>1, HandedOverItems, UnchangedItems DEF OthersStay, InternalItems
  <2>3. \A i \in InternalItems : processing'[i] = processing[i] \/ processing'[i] = 0
    BY <1>5, HandedOverItems DEF InternalItems
  <2>4. QED
    BY <1>1, <2>2, <2>3, LedgerStay
<1>6. Added => LedgerStep /\ UNCHANGED workerVars
  BY <1>3, <1>4, <1>5 DEF Added, LogExtractionFailure
<1>7. UNCHANGED <<manifestVars, workerVars, rerunVars>> => LedgerStep /\ UNCHANGED workerVars
  BY <1>3 DEF manifestVars
<1>8. [Next]_vars => LedgerStep /\ LedgerInv'
  BY <1>1, LedgerOfNext, LedgerInvNext
<1>9. QED
  BY <1>2, <1>6, <1>7, <1>8, QueueSteps DEF LedgerStep

\* The books of the internal extractors are those of the ledger in the composed
\* system too: an answer, a lost message or a translation changes none of them.
THEOREM ExternalImplementsInternalLedger == ExternalSpec => ImplementsInternalLedger
<1>1. ExternalInit => LedgerInv /\ InternalLedger!LedgerInit
  BY LedgerStart DEF ExternalInit
<1>2. QED
  BY <1>1, ExternalTypeCorrect, QueueLedger, PTL
     DEF ExternalSpec, ImplementsInternalLedger, InternalLedger!LedgerSpec, InternalEntry

-----------------------------------------------------------------------------
(***************************************************************************)
(* Foreign text is translated.  Without database errors, the request for   *)
(* a translation is on the books from before the text is indexed, hence    *)
(* from before the extractor is done, and is never forgotten.              *)
(***************************************************************************)

Asked(i) ==
  Translatable(i) /\ i.ctx.origin \notin Nested => OnTheBooks(i.blob, TranslatedBy[i.extractor])
AskedInTurn ==
  \A w \in Workers, i \in Items : progress[w][i] \in {"requested", "indexed"} => Asked(i)
AskedWhenDone == \A i \in processed : Asked(i)
AskedInv == faults = 0 => AskedInTurn /\ AskedWhenDone

LEMMA AskedStays ==
  ASSUME ExternalTypeOK, [ExternalNext]_allVars, NEW i \in Items, Asked(i)
  PROVE  Asked(i)'
<1>1. Translatable(i) => i.blob \in Blobs /\ TranslatedBy[i.extractor] \in Extractors
  BY TranslationType, ExternalAssumption DEF Items, Translatable, Translation
<1>2. OnTheBooks(i.blob, TranslatedBy[i.extractor]) /\ Translatable(i)
        => OnTheBooks(i.blob, TranslatedBy[i.extractor])'
  BY <1>1, QueueRemembered, RememberedOnBooks
<1>3. QED
  BY <1>2 DEF Asked, Translatable

\* A run without faults has had none so far.
LEMMA FaultsGrow ==
  ASSUME ExternalTypeOK, [ExternalNext]_allVars, faults' = 0
  PROVE  UNCHANGED faults
<1>1. faults \in Nat
  BY DEF ExternalTypeOK, TypeOK
<1>2. ASSUME NEW w \in Workers, Poll(w) PROVE UNCHANGED faults
  BY <1>2 DEF Poll, GetWorkerDetails, FetchRead, FetchWrite, RejectBatch, Release, Succeed,
              HandOver, Fail
<1>3. ASSUME NEW w \in Workers, Trouble(w) PROVE UNCHANGED faults \/ faults' = faults + 1
  BY <1>3 DEF Trouble, Launch, Terminate, Disappear, Crash, FetchFails, ReleaseFails,
              Interrupt, LoseOutcome
<1>4. ASSUME NEW b \in Blobs, Reprocess(b) \/ \E ctx \in Uploads : Ingest(b, ctx)
      PROVE  UNCHANGED faults
  BY <1>4 DEF Reprocess, RequestReprocess, ReprocessFailed, ReprocessExternal,
              ReprocessSuccessful, Ingest
<1>5. [Next]_vars => UNCHANGED faults \/ faults' = faults + 1
  BY <1>2, <1>3, <1>4 DEF Next, BreakLocks, vars
<1>6. UNCHANGED faults \/ faults' = faults + 1
  BY <1>5, QueueSteps DEF Added
<1>7. QED
  BY <1>1, <1>6

LEMMA AskedOnRequest ==
  ASSUME ExternalTypeOK, NEW w \in Workers, NEW i \in Items, RequestTranslation(w, i)
  PROVE  Asked(i)'
<1> SUFFICES ASSUME i.ctx.origin \notin Nested
             PROVE  OnTheBooks(i.blob, TranslatedBy[i.extractor])'
  BY DEF Asked
<1>1. Translatable(i) /\ AddTranslationTodo(Translation(i), Held)
  BY DEF RequestTranslation
<1>2. PICK j \in TodoItems' : SameWork(Translation(i), j)
  BY <1>1, TranslationType, TranslationItems
<1>3. Translation(i).blob = i.blob /\ Translation(i).extractor = TranslatedBy[i.extractor]
  BY DEF Translation, Items
<1>4. QED
  BY <1>2, <1>3 DEF OnTheBooks, SameWork

LEMMA AskedProgress ==
  ASSUME ExternalTypeOK, AskedInTurn, [ExternalNext]_allVars, UNCHANGED faults,
         NEW w \in Workers, NEW i \in Items, progress'[w][i] \in {"requested", "indexed"}
  PROVE  Asked(i)'
<1>1. CASE progress[w][i] \in {"requested", "indexed"}
  BY <1>1, AskedStays DEF AskedInTurn
<1>2. CASE progress[w][i] \notin {"requested", "indexed"}
  <2>1. progress \in [Workers -> [Items -> Points]] /\ faults \in Nat
    BY DEF ExternalTypeOK, TypeOK
  <2>2. progress' # progress
    BY <1>2
  <2>3. ASSUME NEW v \in Workers, NEW j \in Items, NEW point,
               progress' = [progress EXCEPT ![v][j] = point]
        PROVE  v = w /\ j = i /\ point \in {"requested", "indexed"}
    BY <1>2, <2>1, <2>3
  <2>4. ASSUME NEW v \in Workers, NEW j \in Items, WorkOn(v, j) PROVE Asked(i)'
    <3>1. CASE RequestTranslation(v, j)
      BY <2>3, <3>1, AskedOnRequest DEF RequestTranslation, Reach
    <3>2. CASE IndexText(v, j)
      BY <1>2, <2>3, <3>2 DEF IndexText, Reach, At
    <3>3. CASE SucceedInternally(v, j) \/ MarkSent(v, j) \/ FailItem(v, j)
      BY <2>3, <3>3 DEF SucceedInternally, MarkSent, FailItem, Finish
    <3>4. CASE SendJob(v, j) \/ NothingToTranslate(v, j)
      BY <2>3, <3>4 DEF SendJob, NothingToTranslate, Reach
    <3>5. QED
      BY <2>4, <3>1, <3>2, <3>3, <3>4 DEF WorkOn
  <2>5. ASSUME NEW v \in Workers, Work(v) PROVE Asked(i)'
    BY <2>2, <2>4, <2>5 DEF Work, externalVars
  <2>6. ASSUME NEW v \in Workers,
               CrashAt(v) \/ \E j \in Items : LoseItem(v, j) \/ LoseRequest(v, j)
        PROVE  FALSE
    BY <2>1, <2>6 DEF CrashAt, Crash, LoseItem, LoseOutcome, LoseRequest
  <2>7. ASSUME NEW c \in Consumers, Consume(c) \/ Redeliver(c) \/ LoseResult(c)
        PROVE  UNCHANGED progress
    BY <2>7 DEF Consume, Receive, Reject, Abandon, DeleteMessage, StoreResult, CompleteResult, DeadLetter,
                GiveUp, Redeliver, LoseResult
  <2>8. QED
    BY <2>2, <2>5, <2>6, <2>7 DEF ExternalNext, Answer, IndexWritten, IndexRefuses, externalVars,
                                  allVars
<1>3. QED
  BY <1>1, <1>2

\* What becomes PROCESSED is of an extractor that is done with its text, or of
\* an external one.
LEMMA AskedDone ==
  ASSUME ExternalTypeOK, AskedInTurn, [ExternalNext]_allVars,
         NEW i \in processed', i \notin processed
  PROVE  Asked(i)'
<1>1. ASSUME i.extractor \in External PROVE Asked(i)'
  BY <1>1, TranslatedByAssumption DEF Asked, Translatable
<1>2. ASSUME NEW b, NEW e \in External, MarkExternalAsComplete(b, e) PROVE Asked(i)'
  BY <1>1, <1>2, HandedOverItems
<1>3. ASSUME NEW w \in Workers, NEW j \in Items, WorkOn(w, j) PROVE Asked(i)'
  <2>1. CASE SucceedInternally(w, j)
    <3>1. i = j
      BY <2>1 DEF SucceedInternally, Succeed, MarkAsComplete, manifestVars
    <3>2. CASE Translatable(j)
      <4>1. Asked(j)
        BY <2>1, <3>2 DEF SucceedInternally, Finish, At, AskedInTurn
      <4>2. QED
        BY <3>1, <4>1, AskedStays
    <3>3. QED
      BY <3>1, <3>2 DEF Asked, Translatable
  <2>2. CASE NothingToTranslate(w, j)
    BY <1>2, <2>2 DEF NothingToTranslate
  <2>3. QED
    BY <1>3, <2>1, <2>2
       DEF WorkOn, RequestTranslation, AddTranslationTodo, IndexText, SendJob, MarkSent, HandOver,
           MarkExternalAsProcessing, FailItem, Fail, LogExtractionFailure, manifestVars
<1>4. ASSUME NEW w \in Workers, Work(w) PROVE Asked(i)'
  BY <1>3, <1>4 DEF Work, GetWorkerDetails, FetchRead, FetchWrite, ClaimTodos, Release,
                    ReleaseLocks, manifestVars
<1>5. ASSUME NEW w \in Workers,
             CrashAt(w) \/ \E j \in Items : LoseItem(w, j) \/ LoseRequest(w, j)
      PROVE  FALSE
  BY <1>5 DEF CrashAt, Crash, LoseItem, LoseOutcome, LoseRequest, manifestVars
<1>6. ASSUME NEW c \in Consumers, Consume(c) \/ Redeliver(c) \/ LoseResult(c) PROVE Asked(i)'
  <2>1. CASE CompleteResult(c)
    <3>1. message[c].key[2] \in External
      BY <2>1, MessageType DEF CompleteResult, Completing, Keys
    <3>2. QED
      BY <1>2, <2>1, <3>1 DEF CompleteResult
  <2>2. QED
    BY <1>6, <2>1 DEF Consume, Receive, Reject, Abandon, DeleteMessage, StoreResult, DeadLetter, GiveUp,
                      Redeliver, LoseResult, LogFailure, LogExtractionFailure, vars, manifestVars
<1>7. ASSUME NEW b \in Blobs, Reprocess(b) \/ \E ctx \in Uploads : Ingest(b, ctx)
      PROVE  FALSE
  BY <1>7 DEF Reprocess, RequestReprocess, ReprocessFailed, ReprocessExternal,
              ReprocessSuccessful, RerunFailed, RerunFailedExternal, RerunSuccessful, Ingest,
              InsertBlob, manifestVars
<1>8. QED
  BY <1>4, <1>5, <1>6, <1>7 DEF ExternalNext, Answer, IndexWritten, IndexRefuses, vars, allVars,
                                manifestVars

LEMMA AskedNext ==
  ASSUME ExternalTypeOK, AskedInv, [ExternalNext]_allVars
  PROVE  AskedInv'
<1> SUFFICES ASSUME faults' = 0 PROVE AskedInTurn' /\ AskedWhenDone'
  BY DEF AskedInv
<1>1. UNCHANGED faults /\ AskedInTurn /\ AskedWhenDone
  BY FaultsGrow DEF AskedInv
<1>2. AskedInTurn'
  BY <1>1, AskedProgress DEF AskedInTurn, Asked, Translatable, OnTheBooks
<1>3. ASSUME NEW i \in processed' PROVE Asked(i)'
  <2>1. CASE i \in processed
    <3>1. i \in Items
      BY <2>1 DEF ExternalTypeOK, TypeOK, ManifestTypeOK
    <3>2. QED
      BY <1>1, <2>1, <3>1, AskedStays DEF AskedWhenDone
  <2>2. CASE i \notin processed
    BY <1>1, <2>2, AskedDone
  <2>3. QED
    BY <2>1, <2>2
<1>4. QED
  BY <1>2, <1>3 DEF AskedWhenDone, Asked, Translatable, OnTheBooks

\* Without database errors, when the extractor is done with a text in another
\* language (of a file that is not out of an archive), its translation has been
\* asked for, however the request, the index and other workers' transactions
\* interleave, and is on the books ever after.
THEOREM ForeignTextTranslated == ExternalSpec => []ForeignIsTranslated
<1>1. ExternalInit => AskedInv
  BY DEF ExternalInit, Init, ManifestInit, AskedInv, AskedInTurn, AskedWhenDone
<1>2. AskedInv => ForeignIsTranslated
  BY DEF AskedInv, AskedWhenDone, Asked, ForeignIsTranslated
<1>3. QED
  BY <1>1, <1>2, ExternalTypeCorrect, AskedNext, PTL DEF ExternalSpec

-----------------------------------------------------------------------------
(***************************************************************************)
(* The round trip against ExtractionLedger.  An answer names the blob and  *)
(* the extractor; with one context, and no translation to be asked for     *)
(* twice, at most one item waits for it.                                   *)
(***************************************************************************)

NoTranslators == DOMAIN TranslatedBy = {}

LEMMA OneWaits ==
  ASSUME TypeOK, OneContext, BooksPlaced, NEW i \in ProcessingItems
  PROVE  /\ HandedOver(i.blob, i.extractor) = {i}
         /\ ~AlreadyProcessed(i.blob, i.extractor)
         /\ ExternalCompletionCommits(i.blob, i.extractor)
<1>1. i \in Items /\ i \in Books /\ processing[i] = 1
  BY DEF ProcessingItems, Books, BooksPlaced
<1>2. \A j \in ProcessingItems \cup processed : j \in Items /\ j.ctx \in Uploads
  BY DEF ProcessingItems, Books, BooksPlaced, TypeOK, ManifestTypeOK
<1>3. \A j \in ProcessingItems \cup processed : SameWork(i, j) => i = j
  BY <1>1, <1>2, SameItem
<1>4. HandedOver(i.blob, i.extractor) = {i}
  BY <1>3 DEF HandedOver, SameWork
<1>5. i \notin processed
  BY <1>1 DEF BooksPlaced
<1>6. ~AlreadyProcessed(i.blob, i.extractor)
  BY <1>3, <1>5 DEF AlreadyProcessed, SameWork
<1>7. QED
  BY <1>1, <1>4, <1>6 DEF ExternalCompletionCommits

LEMMA PlacedReturn ==
  ASSUME TypeOK, OneContext, BooksPlaced, NEW b, NEW e, MarkExternalAsComplete(b, e)
  PROVE  PlaceStep
<1>1. CASE UNCHANGED manifestVars
  BY <1>1, UnchangedItems, PlacedSame DEF manifestVars, SameBooks
<1>2. CASE ExternalCompletionCommits(b, e) /\ ~UNCHANGED manifestVars
  <2>1. PICK i \in ProcessingItems : i.blob = b /\ i.extractor = e
    BY <1>2 DEF ExternalCompletionCommits, HandedOver
  <2>2. HandedOver(b, e) = {i} /\ i \in Items /\ processing[i] = 1
    BY <2>1, OneWaits DEF ProcessingItems, BooksPlaced
  <2>3. /\ processing' = [j \in Items |-> IF j \in {i} THEN 0 ELSE processing[j]]
        /\ processed' = processed \cup {i} /\ TodoItems' = TodoItems
    BY <1>2, <2>2, UnchangedItems DEF MarkExternalAsComplete
  <2>4. i \notin TodoItems
    BY <2>2 DEF BooksPlaced
  <2>5. BooksPlaced'
    <3>1. Books' \subseteq Books
      BY <2>2, <2>3 DEF Books, ProcessingItems
    <3>2. processed \subseteq Items /\ TodoItems \subseteq Items
      BY TodosAreItems DEF TypeOK, ManifestTypeOK
    <3>3. QED
      BY <2>2, <2>3, <2>4, <3>1, <3>2 DEF BooksPlaced
  <2>6. Entry[i] = "external" /\ Entry'[i] = "done"
    BY <2>2, <2>3, <2>4, PlaceOf
  <2>7. \A j \in Items \ {i} : Entry'[j] = Entry[j]
    BY <2>3, PlaceOf
  <2>8. Ledger!Move({i}, "done")
    BY <2>2, <2>6, <2>7, EntryMoves
  <2>9. Ledger!Return([j \in Items |-> j.blob][i])
    BY <2>2, <2>6, <2>8 DEF Ledger!Return
  <2>10. QED
    BY <2>2, <2>5, <2>9 DEF PlaceStep, Ledger!LedgerNext
<1>3. QED
  BY <1>1, <1>2 DEF MarkExternalAsComplete

LEMMA QueuePlaces ==
  ASSUME NoTranslators, OneContext, MaxHandovers = 1,
         ExternalTypeOK, PlacesInv, [ExternalNext]_allVars
  PROVE  PlacesInv' /\ [Ledger!LedgerNext]_Entry
<1>1. TypeOK /\ LedgerInv /\ BooksPlaced /\ BatchPlaced
  BY DEF ExternalTypeOK, PlacesInv
<1>2. LedgerInv'
  BY <1>1, QueueLedger
<1>3. ASSUME PlaceStep, UNCHANGED workerVars PROVE PlacesInv' /\ [Ledger!LedgerNext]_Entry
  BY <1>1, <1>2, <1>3 DEF PlaceStep, PlacesInv, BatchPlaced, workerVars
<1>4. ASSUME UNCHANGED <<todo, processing, processed>> PROVE PlaceStep
  BY <1>1, <1>4, UnchangedItems, PlacedSame DEF SameBooks
<1>5. Range(TranslatedBy) = {}
  BY DEF NoTranslators, Range
<1>6. Added => PlaceStep /\ UNCHANGED workerVars
  BY <1>1, <1>4, <1>5, PlacedReturn DEF Added, LogExtractionFailure
<1>7. UNCHANGED <<manifestVars, workerVars, rerunVars>> => PlaceStep /\ UNCHANGED workerVars
  BY <1>4 DEF manifestVars
<1>8. QED
  BY <1>1, <1>3, <1>6, <1>7, PlacesInvNext, QueueSteps

\* Workers, the service and the consumers together implement the ledger, with
\* any number of each, and with any redelivery, lost answer or crash.
THEOREM RoundTripImplementsLedger ==
  ASSUME NoTranslators, OneContext, MaxHandovers = 1
  PROVE  ExternalSpec => ImplementsLedger
<1>1. ExternalInit => PlacesInv /\ Ledger!LedgerInit
  BY PlacesStart DEF ExternalInit
<1>2. ExternalTypeOK /\ PlacesInv /\ [ExternalNext]_allVars =>
        PlacesInv' /\ [Ledger!LedgerNext]_Entry
  BY QueuePlaces
<1>3. QED
  BY <1>1, <1>2, ExternalTypeCorrect, PTL DEF ExternalSpec, ImplementsLedger, Ledger!LedgerSpec

-----------------------------------------------------------------------------
(***************************************************************************)
(* Work that was handed over has an answer to come.  An item is marked in  *)
(* a transaction after its job was sent: that the answer waits for it is   *)
(* kept by counting the jobs whose sender has yet to mark its item.        *)
(***************************************************************************)

JobsCover == \A k \in Keys : jobs[k] >= Cardinality(Unmarked(k))

LEMMA UnmarkedFinite ==
  ASSUME NEW k
  PROVE  /\ IsFiniteSet(Unmarked(k)) /\ Cardinality(Unmarked(k)) \in Nat
         /\ IsFiniteSet(Unmarked(k)') /\ Cardinality(Unmarked(k)') \in Nat
<1>1. IsFiniteSet(Workers \X Items)
  BY WorkersAssumption, ItemsAssumption, FS_Product
<1>2. Unmarked(k) \in SUBSET (Workers \X Items) /\ Unmarked(k)' \in SUBSET (Workers \X Items)
  BY DEF Unmarked
<1>3. QED
  BY <1>1, <1>2, FS_Subset, FS_CardinalityType

LEMMA CoverKept ==
  ASSUME ExternalTypeOK, JobsCover, UNCHANGED jobs,
         \A w \in Workers, i \in Items : progress'[w][i] = "sent" => progress[w][i] = "sent"
  PROVE  JobsCover'
<1>1. ASSUME NEW k \in Keys PROVE jobs'[k] >= Cardinality(Unmarked(k)')
  <2>1. Unmarked(k)' \in SUBSET Unmarked(k)
    BY DEF Unmarked
  <2>2. Cardinality(Unmarked(k)') <= Cardinality(Unmarked(k))
    BY <2>1, UnmarkedFinite, FS_Subset
  <2>3. jobs[k] \in Nat /\ jobs[k] >= Cardinality(Unmarked(k))
    BY DEF ExternalTypeOK, JobsCover
  <2>4. QED
    BY <2>2, <2>3, UnmarkedFinite
<1>2. QED
  BY <1>1 DEF JobsCover

LEMMA CoverSend ==
  ASSUME ExternalTypeOK, JobsCover, NEW w \in Workers, NEW i \in Items, SendJob(w, i)
  PROVE  JobsCover'
<1>1. KeyOf(i) \in Keys
  BY KeyType DEF SendJob
<1>2. progress' = [progress EXCEPT ![w][i] = "sent"] /\ jobs' = [jobs EXCEPT ![KeyOf(i)] = @ + 1]
  BY DEF SendJob, Reach
<1>3. ASSUME NEW k \in Keys PROVE jobs'[k] >= Cardinality(Unmarked(k)')
  <2>1. jobs[k] \in Nat /\ jobs[k] >= Cardinality(Unmarked(k))
    BY DEF ExternalTypeOK, JobsCover
  <2>2. \A v \in Workers, j \in Items :
          progress'[v][j] = "sent" => progress[v][j] = "sent" \/ (v = w /\ j = i)
    BY <1>2 DEF ExternalTypeOK
  <2>3. CASE k = KeyOf(i)
    <3>1. Unmarked(k)' \in SUBSET (Unmarked(k) \cup {<<w, i>>})
      BY <2>2 DEF Unmarked
    <3>2. /\ IsFiniteSet(Unmarked(k) \cup {<<w, i>>})
          /\ Cardinality(Unmarked(k) \cup {<<w, i>>}) <= Cardinality(Unmarked(k)) + 1
      <4>1. IsFiniteSet(Unmarked(k)) /\ Cardinality(Unmarked(k)) \in Nat
        BY UnmarkedFinite
      <4>2. IsFiniteSet(Unmarked(k) \cup {<<w, i>>})
        BY <4>1, FS_AddElement
      <4>3. \/ Cardinality(Unmarked(k) \cup {<<w, i>>}) = Cardinality(Unmarked(k))
            \/ Cardinality(Unmarked(k) \cup {<<w, i>>}) = Cardinality(Unmarked(k)) + 1
        BY <4>1, FS_AddElement, Zenon
      <4>4. QED
        BY <4>1, <4>2, <4>3
    <3>3. Cardinality(Unmarked(k)') <= Cardinality(Unmarked(k) \cup {<<w, i>>})
      BY <3>1, <3>2, FS_Subset
    <3>4. Cardinality(Unmarked(k) \cup {<<w, i>>}) \in Nat
      BY <3>2, FS_CardinalityType
    <3>5. jobs'[k] = jobs[k] + 1
      BY <1>2, <2>3 DEF ExternalTypeOK
    <3>6. QED
      BY <2>1, <3>2, <3>3, <3>4, <3>5, UnmarkedFinite
  <2>4. CASE k # KeyOf(i)
    <3>1. Unmarked(k)' \in SUBSET Unmarked(k)
      BY <2>2, <2>4 DEF Unmarked
    <3>2. Cardinality(Unmarked(k)') <= Cardinality(Unmarked(k))
      BY <3>1, UnmarkedFinite, FS_Subset
    <3>3. jobs'[k] = jobs[k]
      BY <1>2, <2>4 DEF ExternalTypeOK
    <3>4. QED
      BY <2>1, <3>2, <3>3, UnmarkedFinite
  <2>5. QED
    BY <2>3, <2>4
<1>4. QED
  BY <1>3 DEF JobsCover

LEMMA CoverAnswer ==
  ASSUME ~Overtakes, ExternalTypeOK, JobsCover, NEW k \in Keys, NEW outcome \in Outcomes,
         Answer(k, outcome)
  PROVE  JobsCover'
<1>1. jobs' = [jobs EXCEPT ![k] = @ - 1] /\ jobs[k] > Cardinality(Unmarked(k)) /\ UNCHANGED progress
  BY DEF Answer
<1>2. ASSUME NEW l \in Keys PROVE jobs'[l] >= Cardinality(Unmarked(l)')
  <2>1. Unmarked(l)' = Unmarked(l)
    BY <1>1 DEF Unmarked
  <2>2. jobs[l] \in Nat /\ jobs[l] >= Cardinality(Unmarked(l))
    BY DEF ExternalTypeOK, JobsCover
  <2>3. jobs'[l] = IF l = k THEN jobs[k] - 1 ELSE jobs[l]
    BY <1>1 DEF ExternalTypeOK
  <2>4. QED
    BY <1>1, <2>1, <2>2, <2>3, UnmarkedFinite
<1>3. QED
  BY <1>2 DEF JobsCover

\* The steps that send no job and answer none.
LEMMA SentShrinks ==
  ASSUME ExternalTypeOK, NEW w \in Workers, NEW i \in Items, NEW point, point # "sent",
         progress' = [progress EXCEPT ![w][i] = point]
  PROVE  \A v \in Workers, j \in Items : progress'[v][j] = "sent" => progress[v][j] = "sent"
BY DEF ExternalTypeOK

LEMMA CoverNext ==
  ASSUME ~Overtakes, ExternalTypeOK, JobsCover, [ExternalNext]_allVars
  PROVE  JobsCover'
<1>1. ASSUME UNCHANGED <<progress, jobs>> PROVE JobsCover'
  BY <1>1, CoverKept
<1>2. ASSUME NEW w \in Workers, NEW i \in Items, WorkOn(w, i) PROVE JobsCover'
  <2>1. CASE SendJob(w, i)
    BY <2>1, CoverSend
  <2>2. ASSUME NEW point, Finish(w, i, point) PROVE JobsCover'
    BY <2>2, SentShrinks, CoverKept DEF Finish, serviceVars
  <2>3. CASE RequestTranslation(w, i) \/ IndexText(w, i) \/ NothingToTranslate(w, i)
    <3>1. /\ \E point \in {"requested", "indexed", "needless"} :
               progress' = [progress EXCEPT ![w][i] = point]
          /\ UNCHANGED jobs
      BY <2>3 DEF RequestTranslation, IndexText, NothingToTranslate, Reach, serviceVars
    <3>2. QED
      BY <3>1, SentShrinks, CoverKept
  <2>4. QED
    BY <1>2, <2>1, <2>2, <2>3 DEF WorkOn, SucceedInternally, MarkSent, FailItem
<1>3. ASSUME NEW w \in Workers, Work(w) PROVE JobsCover'
  BY <1>1, <1>2, <1>3 DEF Work, externalVars, serviceVars
<1>4. ASSUME NEW w \in Workers, CrashAt(w) PROVE JobsCover'
  <2>1. \A v \in Workers, i \in Items : progress'[v][i] = "sent" => progress[v][i] = "sent"
    BY <1>4 DEF CrashAt, ExternalTypeOK
  <2>2. QED
    BY <1>4, <2>1, CoverKept DEF CrashAt, serviceVars
<1>5. ASSUME NEW w \in Workers, NEW i \in Items, LoseItem(w, i) \/ LoseRequest(w, i)
      PROVE  JobsCover'
  <2>1. /\ \E point \in {"fresh", "requested"} : progress' = [progress EXCEPT ![w][i] = point]
        /\ UNCHANGED jobs
    BY <1>5 DEF LoseItem, LoseRequest, Finish, serviceVars
  <2>2. QED
    BY <2>1, SentShrinks, CoverKept
<1>6. ASSUME NEW c \in Consumers, Consume(c) \/ Redeliver(c) \/ LoseResult(c)
      PROVE  UNCHANGED <<progress, jobs>>
  BY <1>6 DEF Consume, Receive, Reject, Abandon, DeleteMessage, StoreResult, CompleteResult, DeadLetter,
              GiveUp, Redeliver, LoseResult, serviceVars
<1>7. QED
  BY <1>1, <1>3, <1>4, <1>5, <1>6, CoverAnswer
     DEF ExternalNext, IndexWritten, IndexRefuses, externalVars, serviceVars, allVars

LEMMA StillOutstanding ==
  ASSUME ExternalTypeOK, ExternalTypeOK', NEW k \in Keys, Outstanding(k),
         jobs'[k] >= jobs[k], \A m \in Messages : results'[m] >= results[m],
         \A c \in Consumers : InHand(c, k) => InHand(c, k)'
  PROVE  Outstanding(k)'
<1>1. jobs[k] \in Nat /\ jobs'[k] \in Nat
  BY DEF ExternalTypeOK
<1>2. \A m \in Messages : results[m] \in Nat /\ results'[m] \in Nat
  BY DEF ExternalTypeOK
<1>3. CASE jobs[k] > 0
  BY <1>1, <1>3 DEF Outstanding
<1>4. ASSUME NEW m \in Messages, results[m] > 0, m.key = k PROVE Outstanding(k)'
  <2>1. results'[m] > 0
    BY <1>2, <1>4
  <2>2. QED
    BY <1>4, <2>1 DEF Outstanding
<1>5. ASSUME NEW c \in Consumers, InHand(c, k) PROVE Outstanding(k)'
  BY <1>5 DEF Outstanding
<1>6. QED
  BY <1>3, <1>4, <1>5 DEF Outstanding

LEMMA PutAdds ==
  ASSUME ExternalTypeOK, NEW m \in Messages, Put(m)
  PROVE  /\ results'[m] = results[m] + 1 /\ results'[m] > 0
         /\ \A n \in Messages : results'[n] >= results[n]
BY DEF Put, ExternalTypeOK

\* The service answers a job.
LEMMA AnswerKeeps ==
  ASSUME ExternalTypeOK, ExternalTypeOK', NEW k \in Keys, Outstanding(k),
         NEW l \in Keys, NEW outcome \in Outcomes, Answer(l, outcome)
  PROVE  Outstanding(k)'
<1> DEFINE m == [key |-> l, outcome |-> outcome, receipts |-> 0]
<1>1. m \in Messages /\ m.key = l
  BY DEF Messages, MaxReceiveCount
<1>2. Put(m) /\ jobs' = [jobs EXCEPT ![l] = @ - 1] /\ UNCHANGED consumerVars
  BY DEF Answer
<1> HIDE DEF m
<1>3. results'[m] > 0 /\ \A n \in Messages : results'[n] >= results[n]
  BY <1>1, <1>2, PutAdds
<1>4. CASE l = k
  BY <1>1, <1>3, <1>4 DEF Outstanding
<1>5. CASE l # k
  <2>1. jobs'[k] = jobs[k] /\ jobs[k] \in Nat
    BY <1>2, <1>5 DEF ExternalTypeOK
  <2>2. \A c \in Consumers : InHand(c, k) => InHand(c, k)'
    BY <1>2 DEF InHand, LastReceipt, consumerVars
  <2>3. QED
    BY <1>3, <2>1, <2>2, StillOutstanding
<1>6. QED
  BY <1>4, <1>5

LEMMA ReceiveKeeps ==
  ASSUME ExternalTypeOK, ExternalTypeOK', NEW k \in Keys, Outstanding(k),
         NEW c \in Consumers, NEW m \in Messages, Receive(c, m)
  PROVE  Outstanding(k)'
<1>1. stage[c] = "polling" /\ stage'[c] = "received" /\ message'[c].key = m.key
  BY DEF Receive, ExternalTypeOK, Messages
<1>2. CASE m.key = k
  <2>1. message'[c] # NoMessage
    BY <1>1 DEF ExternalTypeOK
  <2>2. InHand(c, k)'
    BY <1>1, <1>2, <2>1 DEF InHand
  <2>3. QED
    BY <2>2 DEF Outstanding
<1>3. CASE m.key # k
  <2>1. ASSUME NEW n \in Messages, results[n] > 0, n.key = k PROVE Outstanding(k)'
    <3>1. results'[n] = results[n]
      BY <1>3, <2>1 DEF Receive, ExternalTypeOK
    <3>2. QED
      BY <2>1, <3>1 DEF Outstanding
  <2>2. ASSUME NEW d \in Consumers, InHand(d, k) PROVE Outstanding(k)'
    <3>1. d # c
      BY <1>1, <2>2 DEF InHand, ExternalTypeOK
    <3>2. stage'[d] = stage[d] /\ message'[d] = message[d]
      BY <3>1 DEF Receive, ExternalTypeOK
    <3>3. QED
      BY <2>2, <3>2 DEF InHand, LastReceipt, Outstanding
  <2>3. jobs'[k] = jobs[k]
    BY DEF Receive
  <2>4. QED
    BY <2>1, <2>2, <2>3 DEF Outstanding
<1>4. QED
  BY <1>2, <1>3

\* The steps of a consumer that do not touch the queue.  The answer in its hand
\* stays there if it goes on to another stage, at the last receipt to any.
LEMMA BecomesKeeps ==
  ASSUME ExternalTypeOK, ExternalTypeOK', NEW k \in Keys, Outstanding(k),
         NEW c \in Consumers, NEW s, Becomes(c, s), UNCHANGED serviceVars,
         \/ s \in {"deleted", "stored"}
         \/ s \in {"overdue", "erred"} /\ LastReceipt(c)
         \/ ~InHand(c, k)
  PROVE  Outstanding(k)'
<1>1. ASSUME NEW d \in Consumers, InHand(d, k) PROVE InHand(d, k)'
  <2>1. CASE d = c
    <3>1. s \in {"deleted", "stored"} \/ (s \in {"overdue", "erred"} /\ LastReceipt(c))
      BY <1>1, <2>1
    <3>2. s # "polling"
      BY <3>1
    <3>3. stage'[c] = s /\ message'[c] = message[c]
      BY <3>2 DEF Becomes, ExternalTypeOK
    <3>4. stage'[c] \in {"overdue", "erred"} => LastReceipt(c)'
      BY <3>1, <3>3 DEF LastReceipt
    <3>5. QED
      BY <1>1, <2>1, <3>3, <3>4 DEF InHand
  <2>2. CASE d # c
    BY <1>1, <2>2 DEF Becomes, InHand, LastReceipt, ExternalTypeOK
  <2>3. QED
    BY <2>1, <2>2
<1>2. jobs'[k] >= jobs[k] /\ \A m \in Messages : results'[m] >= results[m]
  BY DEF serviceVars, ExternalTypeOK
<1>3. QED
  BY <1>1, <1>2, StillOutstanding

\* A message goes back to the queue.
LEMMA PutKeeps ==
  ASSUME ExternalTypeOK, ExternalTypeOK', NEW k \in Keys, Outstanding(k),
         NEW c \in Consumers, stage[c] = "received", Put(message[c]), UNCHANGED jobs,
         Becomes(c, "polling") \/ Becomes(c, "overdue")
  PROVE  Outstanding(k)'
<1>1. message[c] \in Messages
  BY MessageType
<1>2. results'[message[c]] > 0 /\ \A n \in Messages : results'[n] >= results[n]
  BY <1>1, PutAdds
<1>3. CASE message[c].key = k
  BY <1>1, <1>2, <1>3 DEF Outstanding
<1>4. CASE message[c].key # k
  <2>1. \A d \in Consumers : InHand(d, k) => InHand(d, k)'
    BY <1>4 DEF InHand, LastReceipt, Becomes, ExternalTypeOK
  <2>2. jobs'[k] >= jobs[k]
    BY DEF ExternalTypeOK
  <2>3. QED
    BY <1>2, <2>1, <2>2, StillOutstanding
<1>5. QED
  BY <1>3, <1>4

\* What becomes of an answer: it moves on, or is lost, or its failure is
\* recorded, or the work is marked as complete.
LEMMA ConsumerKeeps ==
  ASSUME ExternalTypeOK, ExternalTypeOK', NEW k \in Keys, Outstanding(k),
         NEW c \in Consumers, Consume(c) \/ Redeliver(c) \/ LoseResult(c)
  PROVE  \/ Outstanding(k)' \/ k \in lost'
         \/ message[c].key = k /\ (LogFailure(c) \/ CompleteResult(c))
<1>1. ASSUME NEW m \in Messages, Receive(c, m) PROVE Outstanding(k)'
  BY <1>1, ReceiveKeeps
<1>2. CASE Reject(c)
  <2>1. CASE stage[c] = "received" /\ ~LastReceipt(c)
    BY <1>2, <2>1, PutKeeps DEF Reject, TimesOut
  <2>2. CASE ~(stage[c] = "received" /\ ~LastReceipt(c))
    <3>1. UNCHANGED serviceVars /\ Becomes(c, "polling")
      BY <1>2, <2>2 DEF Reject, TimesOut, serviceVars
    <3>2. CASE InHand(c, k)
      BY <1>2, <2>2, <3>2 DEF Reject, Handling, InHand
    <3>3. CASE ~InHand(c, k)
      BY <3>1, <3>3, BecomesKeeps
    <3>4. QED
      BY <3>2, <3>3
  <2>3. QED
    BY <2>1, <2>2
<1>3. CASE DeleteMessage(c) \/ StoreResult(c)
  BY <1>3, BecomesKeeps DEF DeleteMessage, StoreResult
<1>4. CASE CompleteResult(c)
  <2>1. \E s \in Stages : Becomes(c, s) /\ UNCHANGED serviceVars
    BY <1>4 DEF CompleteResult, Stages
  <2>2. QED
    BY <1>4, <2>1, BecomesKeeps DEF InHand
<1>5. CASE DeadLetter(c)
  BY <1>5, BecomesKeeps DEF DeadLetter, InHand
<1>6. CASE GiveUp(c)
  BY <1>6, BecomesKeeps DEF GiveUp, InHand
<1>7. CASE Redeliver(c)
  <2>1. CASE LastReceipt(c)
    BY <1>7, <2>1, BecomesKeeps DEF Redeliver, TimesOut, serviceVars
  <2>2. CASE ~LastReceipt(c)
    BY <1>7, <2>2, PutKeeps DEF Redeliver, TimesOut
  <2>3. QED
    BY <2>1, <2>2
<1>8. CASE LoseResult(c)
  <2>1. CASE Becomes(c, "polling") /\ lost' = lost \cup {message[c].key}
    BY <1>8, <2>1, BecomesKeeps DEF LoseResult, InHand
  <2>2. CASE Becomes(c, "erred") /\ lost' = IF LastReceipt(c) THEN lost ELSE lost \cup {message[c].key}
    BY <1>8, <2>2, BecomesKeeps DEF LoseResult, InHand
  <2>3. QED
    BY <1>8, <2>1, <2>2 DEF LoseResult
<1>9. CASE Abandon(c)
  BY <1>9, BecomesKeeps DEF Abandon, InHand
<1>10. QED
  BY <1>1, <1>2, <1>3, <1>4, <1>5, <1>6, <1>7, <1>8, <1>9 DEF Consume

LEMMA OutstandingNext ==
  ASSUME ExternalTypeOK, ExternalTypeOK', [ExternalNext]_allVars,
         NEW k \in Keys, Outstanding(k)
  PROVE  \/ Outstanding(k)' \/ k \in lost'
         \/ \E c \in Consumers : message[c].key = k /\ (LogFailure(c) \/ CompleteResult(c))
<1>1. ASSUME UNCHANGED <<results, consumerVars>>,
             \/ UNCHANGED jobs
             \/ \E i \in Items :
                  KeyOf(i) \in Keys /\ jobs' = [jobs EXCEPT ![KeyOf(i)] = @ + 1]
      PROVE  Outstanding(k)'
  <2>1. jobs'[k] >= jobs[k]
    BY <1>1 DEF ExternalTypeOK
  <2>2. \A m \in Messages : results'[m] >= results[m]
    BY <1>1 DEF ExternalTypeOK
  <2>3. \A c \in Consumers : InHand(c, k) => InHand(c, k)'
    BY <1>1 DEF InHand, LastReceipt, consumerVars
  <2>4. QED
    BY <2>1, <2>2, <2>3, StillOutstanding
<1>2. ASSUME NEW w \in Workers, NEW i \in Items, WorkOn(w, i) PROVE Outstanding(k)'
  <2>1. CASE SendJob(w, i)
    BY <1>1, <2>1, KeyType DEF SendJob
  <2>2. CASE ~SendJob(w, i)
    BY <1>1, <1>2, <2>2 DEF WorkOn, RequestTranslation, IndexText, SucceedInternally,
                            NothingToTranslate, MarkSent, FailItem, Finish, serviceVars
  <2>3. QED
    BY <2>1, <2>2
<1>3. ASSUME NEW w \in Workers, Work(w) PROVE Outstanding(k)'
  BY <1>1, <1>2, <1>3 DEF Work, externalVars, serviceVars
<1>4. ASSUME NEW w \in Workers,
             CrashAt(w) \/ \E i \in Items : LoseItem(w, i) \/ LoseRequest(w, i)
      PROVE  Outstanding(k)'
  BY <1>1, <1>4 DEF CrashAt, LoseItem, LoseRequest, Finish, serviceVars
<1>5. ASSUME NEW l \in Keys, IndexWritten(l) \/ IndexRefuses(l) PROVE Outstanding(k)'
  BY <1>1, <1>5 DEF IndexWritten, IndexRefuses, serviceVars
<1>6. ASSUME UNCHANGED externalVars PROVE Outstanding(k)'
  BY <1>1, <1>6 DEF externalVars, serviceVars
<1>7. QED
  BY <1>3, <1>4, <1>5, <1>6, AnswerKeeps, ConsumerKeeps DEF ExternalNext, allVars

\* A lost answer is only forgotten when another job is sent.
LEMMA LostStays ==
  ASSUME ExternalTypeOK, ExternalTypeOK', [ExternalNext]_allVars, NEW k \in Keys, k \in lost
  PROVE  Outstanding(k)' \/ k \in lost'
<1>1. ASSUME NEW w \in Workers, NEW i \in Items, SendJob(w, i) PROVE Outstanding(k)' \/ k \in lost'
  <2>1. KeyOf(i) \in Keys
    BY <1>1, KeyType DEF SendJob
  <2>2. CASE KeyOf(i) = k
    <3>1. jobs[k] \in Nat /\ jobs'[k] = jobs[k] + 1
      BY <1>1, <2>2 DEF SendJob, ExternalTypeOK
    <3>2. jobs'[k] > 0
      BY <3>1
    <3>3. QED
      BY <3>2 DEF Outstanding
  <2>3. CASE KeyOf(i) # k
    BY <1>1, <2>3 DEF SendJob
  <2>4. QED
    BY <2>2, <2>3
<1>2. ASSUME NEW w \in Workers, NEW i \in Items, WorkOn(w, i) PROVE Outstanding(k)' \/ k \in lost'
  BY <1>1, <1>2 DEF WorkOn, RequestTranslation, IndexText, SucceedInternally, NothingToTranslate,
                    MarkSent, FailItem, Finish
<1>3. ASSUME NEW w \in Workers, Work(w) PROVE Outstanding(k)' \/ k \in lost'
  BY <1>2, <1>3 DEF Work, externalVars
<1>4. ASSUME NEW w \in Workers,
             CrashAt(w) \/ \E i \in Items : LoseItem(w, i) \/ LoseRequest(w, i)
      PROVE  k \in lost'
  BY <1>4 DEF CrashAt, LoseItem, LoseRequest, Finish
<1>5. ASSUME NEW c \in Consumers, Consume(c) \/ Redeliver(c) \/ LoseResult(c) PROVE k \in lost'
  BY <1>5 DEF Consume, Receive, Reject, Abandon, DeleteMessage, StoreResult, CompleteResult,
              DeadLetter, GiveUp, Redeliver, LoseResult
<1>6. QED
  BY <1>3, <1>4, <1>5 DEF ExternalNext, Answer, IndexWritten, IndexRefuses, externalVars, allVars

-----------------------------------------------------------------------------
(* The failures that account for the rest *)

\* A recorded failure of work that is handed over is there until it is given back.
LEMMA FailureStays ==
  ASSUME TypeOK, [Next]_vars, NEW i \in Items, i.extractor \in External, Failed(i),
         i \in ProcessingItems, i \in ProcessingItems'
  PROVE  Failed(i)'
<1>1. i.blob \in Blobs /\ i.extractor \in Extractors /\ failures[i.blob][i.extractor] \in Nat
  BY DEF Items, TypeOK, ManifestTypeOK
<1>2. ASSUME UNCHANGED failures PROVE Failed(i)'
  BY <1>2 DEF Failed
<1>3. ASSUME NEW b \in Blobs, NEW e \in Extractors, LogExtractionFailure(b, e) PROVE Failed(i)'
  BY <1>1, <1>3 DEF LogExtractionFailure, Failed, TypeOK, ManifestTypeOK
<1>4. ASSUME NEW w \in Workers, RejectBatch(w) PROVE Failed(i)'
  <2> DEFINE of(b, e) == {j \in batch[w] \ Recognised(w) : j.blob = b /\ j.extractor = e}
  <2>1. Cardinality(of(i.blob, i.extractor)) \in Nat
    <3>1. of(i.blob, i.extractor) \in SUBSET Items
      BY DEF TypeOK
    <3>2. QED
      BY <3>1, ItemsAssumption, FS_Subset, FS_CardinalityType
  <2>2. failures' = [b \in Blobs |-> [e \in Extractors |-> failures[b][e] + Cardinality(of(b, e))]]
    BY <1>4 DEF RejectBatch
  <2> HIDE DEF of
  <2>3. QED
    BY <1>1, <2>1, <2>2 DEF Failed
<1>5. ASSUME NEW b \in Blobs, RerunFailed(b) PROVE Failed(i)'
  BY <1>1, <1>5 DEF RerunFailed, ClearFailures, FailedExtractors, Failed, TypeOK, ManifestTypeOK
<1>6. ASSUME NEW b \in Blobs, RerunFailedExternal(b, Held) PROVE Failed(i)'
  <2>1. CASE i.blob = b
    <3>1. i \in Replaced(b)
      BY <2>1 DEF Replaced, FailedExtractors, Failed
    <3>2. processing'[i] = 0
      BY <1>6, <3>1 DEF RerunFailedExternal
    <3>3. QED
      BY <3>2 DEF ProcessingItems
  <2>2. CASE i.blob # b
    BY <1>1, <1>6, <2>2 DEF RerunFailedExternal, ClearFailures, Failed, TypeOK, ManifestTypeOK
  <2>3. QED
    BY <2>1, <2>2
<1>7. ASSUME NEW w \in Workers, Poll(w) PROVE Failed(i)'
  <2>1. ASSUME NEW j \in Items, Fail(w, j) PROVE Failed(i)'
    BY <1>3, <2>1 DEF Fail, Items
  <2>2. QED
    BY <1>2, <1>4, <1>7, <2>1
       DEF Poll, GetWorkerDetails, FetchRead, FetchWrite, ClaimTodos, Release, ReleaseLocks, Succeed,
           MarkAsComplete, HandOver, MarkExternalAsProcessing, manifestVars
<1>8. ASSUME NEW w \in Workers, Trouble(w) PROVE UNCHANGED failures
  BY <1>8 DEF Trouble, Launch, Terminate, Disappear, Crash, FetchFails, ReleaseFails,
              Interrupt, LoseOutcome, manifestVars
<1>9. ASSUME NEW b \in Blobs, Reprocess(b) PROVE Failed(i)'
  BY <1>2, <1>5, <1>6, <1>9 DEF Reprocess, RequestReprocess, ReprocessFailed, ReprocessExternal,
                                ReprocessSuccessful, RerunSuccessful, manifestVars
<1>10. ASSUME NEW b \in Blobs, NEW ctx \in Uploads, Ingest(b, ctx) PROVE UNCHANGED failures
  BY <1>10 DEF Ingest, InsertBlob
<1>11. QED
  BY <1>2, <1>7, <1>8, <1>9, <1>10 DEF Next, BreakLocks, ReleaseLocks, vars, manifestVars

LEMMA QueueFailureStays ==
  ASSUME ExternalTypeOK, [ExternalNext]_allVars, NEW i \in Items, i.extractor \in External, Failed(i),
         i \in ProcessingItems, i \in ProcessingItems'
  PROVE  Failed(i)'
<1>1. TypeOK /\ i.blob \in Blobs /\ i.extractor \in Extractors
  BY DEF ExternalTypeOK, Items
<1>2. ASSUME NEW k \in Keys, LogExtractionFailure(k[1], k[2]) PROVE Failed(i)'
  BY <1>1, <1>2 DEF LogExtractionFailure, Failed, TypeOK, ManifestTypeOK
<1>3. ASSUME UNCHANGED failures PROVE Failed(i)'
  BY <1>3 DEF Failed
<1>4. Added => Failed(i)'
  BY <1>2, <1>3 DEF Added, AddTranslationTodo, MarkExternalAsComplete, manifestVars
<1>5. QED
  BY <1>1, <1>3, <1>4, FailureStays, QueueSteps DEF manifestVars

\* Work is handed over by the transaction after its job was sent.
LEMMA HandedOverNow ==
  ASSUME ExternalTypeOK, [ExternalNext]_allVars, NEW i \in Items,
         i \notin ProcessingItems, i \in ProcessingItems'
  PROVE  \E w \in Workers : MarkSent(w, i)
<1>1. processing[i] = 0 /\ processing'[i] > 0 /\ processing \in [Items -> Nat]
  BY DEF ProcessingItems, ExternalTypeOK, TypeOK, ManifestTypeOK
<1>2. processing' # processing
  BY <1>1
<1>3. ASSUME NEW b, NEW e, MarkExternalAsComplete(b, e) PROVE FALSE
  BY <1>1, <1>3 DEF MarkExternalAsComplete, manifestVars
<1>4. ASSUME NEW w \in Workers, NEW j \in Items, MarkSent(w, j) PROVE j = i
  BY <1>1, <1>4 DEF MarkSent, HandOver, MarkExternalAsProcessing, manifestVars
<1>5. ASSUME NEW w \in Workers, NEW j \in Items, WorkOn(w, j) PROVE MarkSent(w, i)
  BY <1>2, <1>3, <1>4, <1>5
     DEF WorkOn, RequestTranslation, AddTranslationTodo, IndexText, SucceedInternally, Succeed,
         MarkAsComplete, SendJob, NothingToTranslate, FailItem, Fail, LogExtractionFailure, manifestVars
<1>6. ASSUME NEW w \in Workers, Work(w) PROVE MarkSent(w, i)
  BY <1>2, <1>5, <1>6 DEF Work, GetWorkerDetails, FetchRead, FetchWrite, ClaimTodos, Release,
                          ReleaseLocks, manifestVars
<1>7. ASSUME NEW w \in Workers,
             CrashAt(w) \/ \E j \in Items : LoseItem(w, j) \/ LoseRequest(w, j)
      PROVE  FALSE
  BY <1>2, <1>7 DEF CrashAt, Crash, LoseItem, LoseOutcome, LoseRequest, manifestVars
<1>8. ASSUME NEW c \in Consumers, Consume(c) \/ Redeliver(c) \/ LoseResult(c) PROVE FALSE
  BY <1>2, <1>3, <1>8 DEF Consume, Receive, Reject, Abandon, DeleteMessage, StoreResult, CompleteResult,
                          DeadLetter, GiveUp, Redeliver, LoseResult, LogFailure,
                          LogExtractionFailure, vars, manifestVars
<1>9. ASSUME NEW b \in Blobs, Reprocess(b) \/ \E ctx \in Uploads : Ingest(b, ctx) PROVE FALSE
  BY <1>1, <1>2, <1>9 DEF Reprocess, RequestReprocess, ReprocessFailed, ReprocessExternal,
                     ReprocessSuccessful, RerunFailed, RerunFailedExternal, RerunSuccessful, Ingest,
                     InsertBlob, manifestVars
<1>10. QED
  BY <1>2, <1>6, <1>7, <1>8, <1>9 DEF ExternalNext, Answer, IndexWritten, IndexRefuses, vars, allVars,
                                      manifestVars

LEMMA AccountedNext ==
  ASSUME OneContext, ExternalTypeOK, ExternalTypeOK', PlacesInv, JobsCover,
         HandoverAccounted, [ExternalNext]_allVars
  PROVE  HandoverAccounted'
<1> SUFFICES ASSUME NEW i \in ProcessingItems'
                PROVE  Outstanding(KeyOf(i))' \/ Failed(i)' \/ KeyOf(i) \in lost'
  BY DEF HandoverAccounted, Outstanding, InHand, LastReceipt, Failed
<1>1. i \in Items /\ TypeOK /\ BooksPlaced
  BY DEF ProcessingItems, ExternalTypeOK, PlacesInv
<1>2. CASE i \notin ProcessingItems
  <2>1. PICK w \in Workers : MarkSent(w, i)
    BY <1>1, <1>2, HandedOverNow
  <2>2. /\ i.extractor \in External /\ progress[w][i] = "sent" /\ UNCHANGED jobs
    BY <2>1 DEF MarkSent, HandOver, Finish, At, serviceVars
  <2>3. KeyOf(i) \in Keys
    BY <1>1, <2>2, KeyType
  <2>4. <<w, i>> \in Unmarked(KeyOf(i))
    BY <1>1, <2>2 DEF Unmarked
  <2>5. Cardinality(Unmarked(KeyOf(i))) # 0
    BY <2>4, UnmarkedFinite, FS_EmptySet
  <2>6. jobs[KeyOf(i)] \in Nat /\ jobs[KeyOf(i)] >= Cardinality(Unmarked(KeyOf(i)))
    BY <2>3 DEF JobsCover, ExternalTypeOK
  <2>7. jobs'[KeyOf(i)] > 0
    BY <2>2, <2>5, <2>6, UnmarkedFinite
  <2>8. QED
    BY <2>7 DEF Outstanding
<1>3. CASE i \in ProcessingItems
  <2>1. i.extractor \in External
    BY <1>1, <1>3 DEF PlacesInv, LedgerInv, NeverHandedOver, InternalItems, ProcessingItems
  <2>2. KeyOf(i) \in Keys /\ i.blob \in Blobs /\ i.extractor \in Extractors
    BY <1>1, <2>1, KeyType DEF Items
  <2>3. CASE Failed(i)
    BY <1>1, <1>3, <2>1, <2>3, QueueFailureStays
  <2>4. ASSUME NEW c \in Consumers, message[c].key = KeyOf(i), LogFailure(c) PROVE Failed(i)'
    <3>1. LogExtractionFailure(i.blob, i.extractor)
      BY <2>4 DEF LogFailure, KeyOf
    <3>2. QED
      BY <1>1, <2>2, <3>1 DEF LogExtractionFailure, Failed, TypeOK, ManifestTypeOK
  <2>5. ASSUME NEW c \in Consumers, message[c].key = KeyOf(i), CompleteResult(c) PROVE FALSE
    <3>1. MarkExternalAsComplete(i.blob, i.extractor)
      BY <2>5 DEF CompleteResult, KeyOf
    <3>2. /\ i \in HandedOver(i.blob, i.extractor) /\ ~AlreadyProcessed(i.blob, i.extractor)
          /\ ExternalCompletionCommits(i.blob, i.extractor)
      BY <1>1, <1>3, OneWaits
    <3>3. processing'[i] = 0
      BY <1>1, <3>1, <3>2 DEF MarkExternalAsComplete
    <3>4. QED
      BY <3>3 DEF ProcessingItems
  <2>6. CASE Outstanding(KeyOf(i))
    BY <2>2, <2>4, <2>5, <2>6, OutstandingNext
  <2>7. CASE KeyOf(i) \in lost
    BY <2>2, <2>7, LostStays
  <2>8. QED
    BY <1>3, <2>3, <2>6, <2>7 DEF HandoverAccounted
<1>4. QED
  BY <1>2, <1>3

\* An item that is marked as handed over has a job, an answer on the queue or a
\* consumer at work on it, or a failure for a user to see, whatever crashes, is
\* redelivered, rejected or reprocessed; or its answer was lost in one of the two
\* ways there are, at the last receipt or after the message was deleted.  TLC
\* finds a counterexample without any one of the four hypotheses: if an answer
\* overtakes the transaction that marks its item, if a file is ingested again
\* while it is out or comes in two contexts, or if a translation can be asked
\* for twice.
THEOREM HandedOverAccounted ==
  ASSUME NoTranslators, OneContext, MaxHandovers = 1, ~Overtakes
  PROVE  ExternalSpec => []HandoverAccounted
<1>1. ExternalInit => PlacesInv /\ JobsCover /\ HandoverAccounted
  <2> SUFFICES ASSUME ExternalInit PROVE PlacesInv /\ JobsCover /\ HandoverAccounted
    OBVIOUS
  <2>1. PlacesInv
    BY PlacesStart DEF ExternalInit
  <2>2. \A k \in Keys : Unmarked(k) = {}
    BY DEF ExternalInit, Unmarked
  <2>3. JobsCover
    <3>1. \A k \in Keys : jobs[k] = 0 /\ Cardinality(Unmarked(k)) = 0
      BY <2>2, FS_EmptySet DEF ExternalInit
    <3>2. QED
      BY <3>1 DEF JobsCover
  <2>4. ProcessingItems = {}
    BY DEF ExternalInit, Init, ManifestInit, ProcessingItems
  <2>5. QED
    BY <2>1, <2>3, <2>4 DEF HandoverAccounted
<1>2. /\ ExternalTypeOK /\ ExternalTypeOK' /\ PlacesInv /\ JobsCover /\ HandoverAccounted
      /\ [ExternalNext]_allVars
      => PlacesInv' /\ JobsCover' /\ HandoverAccounted'
  BY QueuePlaces, CoverNext, AccountedNext
<1>3. QED
  BY <1>1, <1>2, ExternalTypeCorrect, PTL DEF ExternalSpec
===============================================================================
