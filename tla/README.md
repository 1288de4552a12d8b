# A verification project for Giant

Giant takes in files (single uploads, archives, disk images, remote media),
stores them as blobs under the hash of their content, extracts text, metadata
and children from them, and makes the result searchable. This directory models
the parts of it where several processes share state, and those of its web
client where requests, timers and what the user does meet, checks them with TLC
and proves the central invariants with TLAPS. Paths below are relative to
`src/backend/app/`, those of the web client (`.js`, `.ts`, `.tsx`) to
`src/frontend/src/js/`.

## The system

| Component | State | Operations | Speaks to |
|---|---|---|---|
| Manifest (`services/manifest/Neo4jManifest.scala`) | the Neo4j graph: blobs, extractors, and between them `TODO`, `PROCESSING_EXTERNALLY`, `PROCESSED`, `EXTRACTION_FAILURE`; `LOCKED_BY` between blobs and workers | insert, fetch, lock, complete, fail, rerun, delete, move | everything below |
| Worker (`extraction/Worker.scala`, `services/WorkerScheduler.scala`) | the batch in hand | poll: find peers, fetch a batch, execute, record, release | manifest, blob store, index, extractors |
| Worker control (`utils/WorkerControl.scala`) | none of its own: EC2 and the auto-scaling groups | list running nodes, scale, break locks of terminated workers | EC2, manifest |
| Ingestion (`ingestion/phase2`, `services/IngestStorage.scala`, `commands/IngestFile.scala`, `services/ingestion`) | data and metadata objects in an S3 bucket, dead letters in another | select a key, store the blob, insert it in manifest and index, delete the key, retry | S3, manifest, index |
| External extraction (`extraction/External*.scala`, `services/ExternalWorkerScheduler.scala`) | SQS queues, outputs in S3 | send a job, poll for results, store the transcript, complete or fail | SQS, S3, manifest, index |
| Deleting and moving (`commands/DeleteResource.scala`, `commands/MoveIngestion.scala`) | none | the same change in S3, Elasticsearch and Neo4j one after another | all stores |
| Remote ingest (`services/ingestion/*RemoteIngest*`) | tasks in Neo4j with a status | create, send to the downloader, take in results | SNS, SQS, S3, ingestion |
| Reprocessing (`controllers/api/Blobs.scala`, `Collections.scala`) | none | rerun failed, failed external, successful | manifest |
| Users (`services/users/Neo4jUserManagement.scala`, `controllers/api/Users.scala`, `commands/TFACommands.scala`) | users, permissions, second factors, visible collections in Neo4j | create, register, delete, set permissions and collections | the web client |
| Document viewer (`components/PageViewer`, `util/LruCache.ts`) | two caches of promises, the pages that are mounted, zoom, the highlight in focus | scroll, zoom, find, step, jump | search index and previews over HTTP |
| Documents (`components/viewer`, `Directory`, `ResourceHandler`, `actions/resources`) | the one resource of the store, its view and comments | open, step, choose a view, count pages, comment | resources over HTTP |
| Comments (`viewer/CommentPanel`, `CommentHighlighter.tsx`) | measured heights, the comment in focus | lay out, cut a text into highlights | |
| Search page and box (`components/Search`, `SearchSidebar`, `UtilComponents/InputSupper`, `reducers/searchReducer.js`) | query, filters and page in the address, results, chips | type, filter, sort, page, open, go back | search over HTTP, the address |
| Uploads (`components/Uploads`, `util/auth/authUploadWithProgress.ts`) | files with their states, loops that send them | choose, drop, remove, send, retry | ingestion, workspaces |
| Workspace pages (`components/workspace`, `UtilComponents/TreeBrowser`, `actions/workspaces`) | the workspace that was fetched, selection, expansion, moves, the list of workspaces | select, drag, edit, poll, create, delete | workspaces over HTTP |
| Session and registration (`components/Login`, `components/users`, `reducers/authReducer.js`, `util/auth`) | the token in the store and in the local storage, the forms | log in, keep alive, expire, register | authentication, users |
| Previews, search index, ingestion events, command-line client, infrastructure | | | |

The parts interact through the graph above all: there is no message between a
webapp instance and a worker, both change relationships of the graph in
transactions, and Neo4j isolates these at the read-committed level only.

What is hard:

* **Interleaving.** `fetchWork` looks for unlocked blobs and takes the locks in
  one transaction, but the reads of two such transactions can come before the
  writes of both. What is meant to keep workers apart is the partition
  `id(todo) % workerCount = workerIndex`, computed from a list of nodes that each
  worker gets from EC2 at a time of its own.
* **Zombies.** An instance that EC2 no longer lists as running may still execute
  its batch. Its locks are broken, its TODOs are handed out again, and afterwards
  it records outcomes.
* **Crashes and lost writes.** Locks and attempts stay behind; a completion that
  is not written, a release that fails.
* **Assertions in transactions.** `markAsComplete`, `markExternalAsProcessing`
  and the reruns count what they created and deleted, and roll back when the
  numbers are not those expected. Where they are legally different, work is stuck.
* **Contexts.** A blob can be ingested in several contexts (ingestion, languages,
  parents, workspace), each with TODOs of its own, whereas locks are held per blob
  and failures per blob and extractor.
* **Messages.** The job for an external service is sent before the graph says so;
  its answer is deleted from the queue before it is processed, can be delivered
  twice, and names the blob and the extractor but not the context.
* **Several stores.** Ingestion, deletion and external extraction write S3,
  Elasticsearch and Neo4j in turn.
* **Answers in any order.** The web client hardly ever cancels a request. What an
  answer does depends on what is in the store when it comes: another document,
  another query, another workspace, another modal, or a page that is gone.
* **Debounce, throttle, poll.** What they do comes when the page has moved on.
* **Several parties load the same thing.** The viewer and its sidebar, a
  directory, a redirection; the pages of workspaces and their dialogs.
* **Retries of what was done.** An upload whose answer is lost is sent again.

What makes each component correct: work that was asked for is not lost and is
not done twice by workers that see the same world; a TODO is always either
available, in someone's hands or marked as failed; what is recorded agrees with
what was done; a file whose ingestion fails is kept for a retry; a message is
not forgotten before its effect is stored; a deleted blob leaves nothing behind.

## Modules

| Module | Models |
|---|---|
| `Manifest` | the work queue: every Cypher statement of `Neo4jManifest.scala` that workers, consumers of results, ingestion and reprocessing run, as an action on five variables |
| `WorkQueue` | workers, ingestion, reprocessing, lock breaker and EC2, composed on `Manifest`; the properties |
| `ExternalExtraction` | the round trip of an external extraction over SQS and the request for a translation, composed on `WorkQueue` |
| `ExtractionLedger` | the abstract specification: each item absent, to do, with an external service, or done |
| `BatchSelection` | the part of `fetchWork` that turns candidates into a batch: priority, limit and cost |
| `LruCache`, `HighlightNavigation` | the cache as operators on a queue and its entries; the highlights of a query and the one in focus |
| `PageViewer` | the viewer of a paged document, composed of both: scrolling, zooming, finding, its caches and its pages |
| `Documents` | the document that is loaded, by viewer, sidebar, directory, redirection and footer; the view it is shown in |
| `CommentPanel`, `CommentHighlighter` | where comments are laid out; how a text is cut into highlights |
| `SearchPage` | query, filters and results, the address and the browser's history, and the document opened from it |
| `ChipEditor` | the elements of the search box and the focus among them |
| `Uploads` | the dialog of uploads, its loops, the retries, and what the server keeps |
| `WorkspaceTree` | the rows of a workspace: keys, clicks, ranges, what a drop moves |
| `WorkspacePage` | fetching, polling and editing a workspace, with the dialogs that delete |
| `WorkspaceMoves` | drops sent in batches, refreshes and progress |
| `WorkspaceList` | the sidebar: creation, deletion, redirection |
| `Session` | tokens, the automatic login, keep-alive and expiry |
| `Registration` | the two forms of registration and the server's verification and writes |
| `UserAdmin` | the page of users against other changes on the server |
| `MCWorkQueue`, `MCExternalExtraction`, `MCPageViewer` | small instances for TLC |
| `MCDocumentPages`, `MCWorkspacePages`, `MCSmallParts` | small instances of several parts of the web client |
| `Sums` | the sum of a sequence or a function of numbers, as a recursive function |
| `WorkQueueProofs`, `ExternalExtractionProofs` | theorems about the work queue and its refinement of the ledger, and about the round trip |
| `ViewerProofs` | theorems about `PageViewer`, with lemmas about `LruCache` |
| `DocumentPagesProofs` | theorems about `SearchPage`, `Documents` and `Uploads` |
| `WorkspaceProofs` | theorems about `WorkspacePage`, `WorkspaceList`, `WorkspaceMoves` and `WorkspaceTree` |
| `SmallPartsProofs` | theorems about `Registration`, `UserAdmin` and `BatchSelection` |
| `TextPartsProofs` | theorems about `ChipEditor`, `CommentPanel` and `CommentHighlighter` |
| `ListLemmas` | induction over numbers; that a recursive function over a sequence exists and goes step by step; sums; appending to, removing from, replacing in and joining sequences |

Operators introduced by a comment "Mutant" are variants of the definition after
them, with a mistake the code could have. They are used by no specification;
each has been put in the place of the real definition to see that a property
notices. Properties introduced by "Refuted" state what a comment or a text of the
code says and TLC finds violated; they are listed below.

### From code to state

| Variable | In the code |
|---|---|
| `todo` | `TODO` relationships by Neo4j id (the id decides the partition); an item (blob, extractor, context) and `attempts`. Cost and priority are left to `BatchSelection` |
| `processing` | number of `PROCESSING_EXTERNALLY` relationships of each item: the start time in the MERGE makes each a new one |
| `processed` | items with a `PROCESSED`; always MERGEd, so a set |
| `failures` | number of `EXTRACTION_FAILURE`s by blob and extractor |
| `locks` | `LOCKED_BY` as pairs of blob and worker: a blob can have several |
| `status` | how EC2 sees an instance: absent, running, terminating (no longer listed, still executing), gone |
| `pc`, `view`, `selected`, `batch` | where `pollAndExecute` is: the nodes it was told, the TODOs its `MATCH` has read, the items left of its batch |
| `rerun` | what a reprocess request has still to do, as its transactions are separate |
| `progress` | how far an extractor has come with the item a worker is at: translation requested, text indexed, job sent |
| `texts` | what the translators find in the search index |
| `jobs`, `results` | the service's input queue by blob and extractor; the output queue as a bag of messages with their outcome and receive count |
| `message`, `stage` | the message an `ExternalTranscriptionWorker` is handling, and what it has done with it; `overdue` when its visibility has timed out |
| `lost` | a ghost: what was handed over and whose answer is gone without a record |
| `writing`, `unwritten` | writes to the index that nobody awaits, and those refused |

A context is a record of an origin (ingestion, languages and parent blobs, which
the code compares as a whole) and a workspace or none. The workspace is kept
apart since `getWorkspaceProperties` leaves it out of a pattern when there is
none, so that the pattern also matches relationships that have one.

`fetchWork` is two steps, `FetchRead` and `FetchWrite`; all other transactions
are one. A TODO may be deleted in between, in which case the write fails; its id
is not reused by a transaction that has not read it (`Held`). Which of the
candidates form the batch is left open in `WorkQueue` and settled in
`BatchSelection`, whose `SomeBatch` is the assumption made.

An extractor is a step with the outcomes success, failure and interruption (the
subprocess of an OCR run is killed with the instance; possible only while it
terminates). `LoseOutcome` is a database error after the retries of
`markAsComplete`. In `ExternalExtraction` the extractor's own effects are steps
before the outcome: `RequestTranslation` and `IndexText` for a body in another
language, `SendJob` or `NothingToTranslate` for an external extractor. A worker
works on one item at a time (`At`). The set of instances is fixed there:
launching, terminating and lock breaking are the business of `WorkQueue`.

The queues, the service and the visibility timeout are external. The service
answers every job, with success, silence (`noAudioDetected`), failure or a body
that is no `TranscriptionOutput`; a body that is no JSON at all, at which
`parseMessage` throws, is left out. The redrive policy of the output queue
is not in the repository; it is taken to drop a message after as many receipts
as `MAX_RECEIVE_COUNT`, which is what `ExternalTranscriptionWorker` (110) counts
on when it records a failure at the last one. A received message is out of sight
until it is deleted or its visibility times out: `Redeliver` puts it back on the
queue below the last receipt, and at the last the queue drops it (`TimesOut`). The
consumer that had it is late then. It may go on and have its effect
(`Handling`), so that two consumers handle one answer; or it comes to nothing,
because it died or because the queue refuses to delete a message whose receipt has
expired (`Abandon`). At the last receipt nobody will see the answer again, and no
failure is recorded. With what goes wrong after the message was deleted
(`LoseResult`; at the last receipt the error is recorded as a failure, a crash is
not) this is how an answer gets `lost`.

#### The web client

The store of Redux is one: an action of a model is an event handler or the
continuation of a request that runs to its end, with every dispatch it makes and
what the components do on receiving the new properties. A request in flight is an
element of a sequence or a set; the server reads and writes in a step of its own
wherever the code makes more than one transaction of it or an answer can be
overtaken. Components that are unmounted do not hear of answers unless the code
lets them.

| Module | State and what is abstracted |
|---|---|
| `PageViewer` | `data` and `previews` are the two caches, `requests` what was asked of the server, a promise is a request with what `then` has been put on it; `mounted` the `Page` components with what each shows; the loop of an effect over pages is a list of jobs, `work`, that no event interrupts. `throttle` is that of the scroll handler; `leftBehind` are the trailing calls of throttles from before a zoom, each with the scale it was made for; `reported` is the page the last call made known, `misled` says that this call was from before a zoom. A call with another height of a page finds a page on the same side of the viewport's as in the code, any of them; past the last page it counts as the last. A rotation and the correction of the first page's dimensions make a throttle too, and are left out. Sizes and texts are not modelled, nor how a page is drawn |
| `HighlightNavigation` | results of a query are the pages of its highlights; `focusedIndex` counts from 1. The highlights answered last are shown, whichever query they are of, and even when the query was cleared since, as in the code |
| `Documents` | `store` is the resource, view, loading flag and page count of the store with what the components have mounted; `flights` are requests with their kind; `counts` the documents whose pages the viewer has asked for, which are not waited for once it is gone; `mixed` is a ghost: something has loaded beside the viewer by pages and its sidebar. `/viewer-old` is the viewer that loads when its address changes. A text or OCR that is blank counts as none, the languages of a transcript or an OCR as one; the second request of `hasSingleIngestionChild` is left out |
| `SearchPage` | a query is a record of text, filters, order and page (not its size, which no link keeps); `trail` is the history of the browser and `here` the entry it is at, with the query of each; `params` the query in the store. `typed` and `stray` are what the debounced updates of the page and of a page left before wait to apply, the latter to the properties that page had. `passedOver` is a ghost: the text was changed under the mounted page and not searched. A link to the very address one is at counts as a new entry |
| `ChipEditor` | `elements` as in the component's state: inputs around chips; words are model values; the counter to delete a chip has the steps of the code |
| `CommentPanel` | `Tops` and `Heights` are lengths in units; a comment is `tall` once it is displayed and has no height before, and `height` is what was measured of it; a rendering measures every comment again, and the one that counts is the last of those that differ. Positions are computed by the same three passes |
| `CommentHighlighter` | ranges over a text of four characters, cut as `separateOverlappingHighlights` does one after another |
| `Uploads` | a path is a sequence of names; a loop of `uploadFiles` has its queue and cache of folders; `requests` is what the server sees of uploads, `folders` and `items` what it keeps |
| `WorkspaceTree` | a tree is a function from entry to parent; `trees` has one for each fetch, since the code compares objects of different fetches |
| `WorkspacePage` | contents of a workspace are the number of edits applied; `loading` has the two ids that `getWorkspace.ts` keeps outside the store |
| `WorkspaceMoves` | each drop has its batches and its throttle; `stale` is a ghost: something was moved since the last fetch |
| `WorkspaceList` | `disturbed`, `mixed`, `missed` and the like are ghosts that hold the exceptions of a property |
| `Session` | a token is the number of its login and whether it has expired; `inFlight` are requests but logins |
| `Registration` | a password is good or bad, a secret a number; a submission has the stage it has reached on the server |
| `UserAdmin` | `visible` is written by three transactions, as in `setUserCollections`; `disturbed` is a ghost that holds the exceptions: a failure, an answer overtaken, a user created or deleted while a change of the same name is in flight |

## Runs

| Run | Instance | Shows |
|---|---|---|
| `claims` | 1 blob, 1 extractor, 2 contexts, 2 instances of which one starts later, 1 fault, 1 reprocess request | types; no attempt stranded; running workers keep their locks; an item is recorded once; workers with the same view never execute the same item of an internal extractor |
| `external` | 1 blob, an internal and an external extractor, 2 builds, 1 reprocess request | what was asked for stays on the books; the items of the internal extractor implement the ledger, whatever becomes of the others |
| `ledger` | 1 blob in two ways, of which one matches the other | the queue implements the ledger |
| `round_trip` | 1 transcription, 1 worker, 2 consumers, 2 faults, 1 lost result, 1 reprocess request | types; work handed over has an answer to come or a recorded failure, unless its answer was lost; the round trip implements the ledger |
| `composed` | a body extractor and its translator, 1 consumer, 2 faults, 1 lost result, fairness | a foreign text has its translation on the books; what was asked for, of both, is done, given back or failed in the end, unless its answer was lost |
| `settles` | 1 transcription, 2 workers, 1 consumer, 1 fault, 1 lost result, 1 reprocess request, fairness | every TODO is done or has failed in the end; work handed over is completed, given back or failed, unless its answer was lost |
| `viewer` | 3 pages, caches of 2, a query with hits on the first and the last page, 2 zoom steps, 3 events: things the user does and requests that fail | the caches agree; the viewport is rendered when no scroll is put off and none of before a zoom came last, and the highlight in focus is one; what a page shows is what was last asked for |
| `documents` | see below | uploads are put once and where their path says; the dialog tells the truth; documents load one at a time and what was opened is shown; results are of the query in the address; chips go one at a time and the focus stays; comments do not overlap and the text stays whole |
| `workspaces` | see below | drops are whole; keys follow rows; a fetch that is waited for is coming; edits, moves and the list are shown in the end |
| `small_parts` | see below | a batch takes the first candidates within limit and cost; registration ends with a second factor that is held; the page of users is true to the server; a session settles |
| `two_workers_one_blob` | | violated: two workers execute the same blob at the same time |
| `result_lost` | 1 lost result | violated: an item stays `PROCESSING_EXTERNALLY` for ever, with no failure that would let a user rerun it |

The modules of `documents`, `workspaces` and `small_parts` share no state. Each
of these runs has a variable `part`, chosen at the start, and lets the module of
that part take its steps; the others stay as they start. It explores the sum of
their states, not the product, and says of each what a run of its own would.
Run alone, each part was seen to take every one of its actions.

| Part | Instance |
|---|---|
| uploads | 4 paths: a system file, one too large, two in folders of which one is named like its parent and begins the other; 3 new folders, 2 submissions, 1 retry, 1 fault, 2 changes, a new login |
| documents | a scan with pages, a recording with a transcript, a sheet with OCR only, an email, a book too long to be sent with its contents, a folder, a file with a single child; both viewers; 3 requests in flight, 4 moves |
| search | a word or blanks, an option with 2 suboptions, 2 orders, 2 pages, 2 searches in flight, 5 things the user does, among them the link in the header and going anywhere in the history |
| chips | 2 fields of which one is a date, up to 7 elements, 3 things the user does after one of 2 queries was received or none, and then another |
| panel | 3 comments on 3 lines, the second on the first of them, of 2 heights, measured one after another and again, any in focus |
| highlighter | 4 characters, 3 highlights of 3 kinds |
| tree | 4 entries in 3 trees, a new fetch, 3 gestures |
| page | 2 workspaces, 1 item, 1 edit and its answer, 3 fetches in flight, 2 visits, 1 poll |
| moves | 3 entries in 2 batches, 2 drops, 2 mounts |
| list | 2 workspaces, 2 lists in flight, 2 changes, 3 moves |
| batch | lists of up to 4 candidates, limit 3, cost 6, sizes 1, 3 and 6 |
| session | 3 providers, 2 tokens, 2 requests in flight, 3 things the user does |
| registration | both forms, with a second factor required or not, 2 secrets, 2 submissions, 1 request that the server stops at half way |
| users | an administrator and a user, 1 collection, 2 lists in flight, 3 changes, 1 mount |

The two violations are places where the code does not do what a comment or a
test of the repository says; the traces are short. TLC refutes more such
statements. They are no runs of their own, and can be had by naming them in the
configuration of one that is, in those of the queue with the change given:

| Statement | Refuted by | What happens |
|---|---|---|
| `FailureLeavesTodo`: "Failed extractors leave in place a TODO with attempts > 0 and an EXTRACTION_FAILURE" (`Neo4jManifest.scala:1058`) | `Claims.cfg` | a terminating worker whose lock was broken, and the attempts of its TODOs reset, fails an item |
| `RerunIsLegal`: "These should be equal" (`Neo4jManifest.scala:1082`) | `Claims.cfg` | one attempt of an extractor on a blob failed and the outcome of another was lost: `rerunFailedExtractorsForBlob` counts one failure and two TODOs, and rolls back every time |
| `CompletionIsLegal`: "Unexpected number of creates/deletes" (`Neo4jManifest.scala:731`) | `Ledger.cfg` | the completion of one item matches two TODOs, of a file ingested on its own and into a workspace, and rolls back every time |
| `BatchWithinCost`: "Can batch work by todo cost" (`Neo4JManifestITest.scala:254`) | `SmallParts.cfg` | a rerun copies the cost of the Extractor node, which no query sets; a TODO without a cost makes the accumulated cost null and ends the limit |
| `ExternalCompletionIsLegal`: "Unexpected number of creates/deletes" (`Neo4jManifest.scala:686`) | `RoundTrip.cfg`, `MaxHandovers = 2` | a file ingested again while its transcription is under way is handed over twice; the completion merges one `PROCESSED`, deletes two and rolls back every time |
| `CompletedIsIndexed`: the work is marked complete after the transcript was added to the index (`ExternalTranscriptionWorker.scala:166`) | `RoundTrip.cfg` | nobody awaits the write to the index: it fails, the work is complete, and the transcript is nowhere |
| `HandoverAccounted`: "Once the response comes in we need to store the data and update the manifest" (`ExternalExtractor.scala:18`) | `RoundTrip.cfg`, `Overtakes = TRUE` | the answer is consumed before the sender has marked its item |
| | `RoundTrip.cfg`, `MaxHandovers = 2` | a file ingested again while it is out is handed over twice, and neither answer completes it |
| | `RoundTrip.cfg`, two origins | a second context is handed over after the first was completed: "There is already a processed relation", and nothing is done |
| | `Composed.cfg`, `MaxReruns = 1` | text is extracted again, its translation is asked for again beside the `PROCESSED` of the first, and never completed |
| `HandoverAnswered`, the same without the exception of what was lost | `RoundTrip.cfg`, `MaxLosses = 0` | the visibility of a message times out at its last receipt and its consumer comes to nothing: the run `result_lost` shows the other way, with no timeout in it |
| `EveryForeignIsTranslated`: "Triggered by the DocumentBodyExtractor when it detects non-English text" (`ExternalDocumentTranslationExtractor.scala:13`) | `Composed.cfg` | the request for the translation fails; `DocumentBodyExtractor` (57) ignores how it ended |
| | `Composed.cfg`, `Nested = {o1}`, `MaxFaults = 0` | `parentBlobs.toArray` is an array of `Uri` objects, which the driver cannot convert: no translation is ever requested for a document out of an archive |
| `ViewportAlwaysRendered` (`PageViewer/VirtualScroll.tsx:262`) | `Viewer.cfg` | two scrolls and a zoom within 75 ms: the zoom makes a new throttle, the trailing call of the old one comes with the old height of a page and takes the pages elsewhere, until the next scroll |
| `VisibleNeverAborted`: "we should never get an eviction on a visible page" (`PageViewer/Page.tsx:38`) | `Viewer.cfg` | preloading the pages of highlights fills the cache beside the pages on screen |
| `PreviewsMatchZoom` (`VirtualScroll.tsx:115-116`) | `Viewer.cfg` | a zoom that is undone before its timer fires leaves the previews that were scrolled to in between as they are |
| `CombinedHasPages`: "Combined view is only available when the document has been ingested as pages" (`viewer/PreviewSwitcher.tsx:97`) | `DocumentPages.cfg` | the view in the address survives the step from a document with pages to one without |
| `DisplaysAlways` (`viewer/PreviewSwitcher.tsx:42`) | `DocumentPages.cfg` | a view that is not looked for in the document (transcript, combined) is kept when the user steps from a recording to a document without one: "Cannot display this document"; a viewer mounted in no view on a document that is loaded shows the text, blank or not, until it is updated |
| `NoLoadsRace`: "avoid duplicate requests which race each other" (`viewer/Viewer.tsx:103`) | `DocumentPages.cfg` | a directory or a redirection that was left loads beside the viewer |
| `ViewerShowsItself`, `ViewerHasADocument` | `DocumentPages.cfg` | a document stepped to while another loads is never loaded; comments that arrive first are taken for a document |
| `LastSelectedKeepsLayout`: "maintain the layout as if the last comment were still selected" (`viewer/TextPreview.tsx:140`) | `DocumentPages.cfg` | a second click on the text forgets the comment before |
| `TextIsOnce`: "Highlights that overlap each other need special treatment" (`viewer/CommentHighlighter.tsx:39`) | `DocumentPages.cfg` | a found word around a comment is not cut, and what follows is displayed twice |
| `SpinnerIsTrue` (`Search/SearchBox.tsx:33`), `FailedHasNoResults`: "Search failed" (`Search/SearchStatus.js:15`) | `DocumentPages.cfg` | the answer of an older query ends the spinner of the newer; its failure is shown above the results of the newer |
| `AddressIsAlwaysSearched` (`Search/Search.tsx:147`) | `DocumentPages.cfg` | the link in the header leaves an entry of another text in the history; back at it the page, which stays mounted and does not compare the text, keeps the results of the query in between |
| `ListedAreTheResults` (`Search/SearchBox.tsx:61`), `ParametersAreSearched` (`Search/Search.tsx:136`), `OpenedStays` | `DocumentPages.cfg` | cleared results stay listed; going back to another page of results does not search it; a debounced update closes the document opened meanwhile |
| `FocusIsKept`, `ChipIsWhatWasTyped`, `WarnsOfBadDates`, `OneInterval` | `DocumentPages.cfg` | the box knows its elements by index: a query received, a split input or a deleted chip shifts what focus, suggestion, warning and interval refer to |
| `DescendantsStayInside`: "It's important to match on the id and not for object equality" (`util/treeUtils.ts:11-12`) | `Workspaces.cfg` | `isDescendantOf` (63) compares objects: after a fetch a drop takes a folder apart |
| `ShownIsOfAddress`, `VisitedIsShown`: "only dispatch if still relevant" (`workspaces/getWorkspace.ts:38`) | `Workspaces.cfg` | an edit answered late fetches the workspace that was left; the answer for one workspace ends what is noted of the other, which is then never shown |
| `DoneMeansGone`: "This item has been successfully deleted from Giant." (`workspace/ConfirmModal.tsx:38`) | `Workspaces.cfg` | the answer to one deletion tells it of the item whose dialog is open by then |
| `FolderIsOfWorkspace` | `Workspaces.cfg` | a dialog keeps the folder in focus when another workspace is chosen, and adds to it |
| `WarnsOfMoves`: "Items are being moved." (`workspace/Workspaces.tsx:510`) | `Workspaces.cfg` | a page that is left while it moves does not take its warning along |
| `NotAtDeleted`: "We want to redirect to workspace stored in localStorage if the workspace stored in there exists" (`workspace/WorkspacesSidebar.tsx:50`) | `Workspaces.cfg` | a list read before a deletion and answered after it leads back to the workspace that is gone |
| `BlockedUserIsTold` (`Login/Login.js:190`) | `SmallParts.cfg` | with a 403 the form stays busy, and the message is under it |
| `ToldWhatIsTrue`: "Unauthenticated, go back to first page" (`users/RegisterUser.js:105`) | `SmallParts.cfg` | a user who is registered by the first of two submissions is told of bad credentials |
| `CreatedIsRegistered`: "We will immediately register after creating" (`DatabaseUserProvider.scala:54`) | `SmallParts.cfg` | the server stops in between: setup is closed by a user nobody can register |
| `OneDefaultIngestion`: "default = Some(true)" (`Neo4jUserManagement.scala:440`) | `SmallParts.cfg` | two submissions verified before either is written make two |
| `RowsHavePermissions` (`Settings/Users.tsx:183`), `AskedIsAnswered`: "Really delete user" (`Settings/Users.tsx:85`) | `SmallParts.cfg` | an administrator who no longer is one gets users without permissions and the page fails on them; the answer to one deletion closes the question about another user |

Two properties say less than one would like, because TLC refutes the rest.
`SameViewExclusive` is of internal extractors: an external item that was handed
over, ingested again, completed and reprocessed has two TODOs, since the rerun
uses `CREATE` where the ingestion uses `MERGE` (`Neo4jManifest.scala:1010`), and
the ids of the two can fall into the partitions of two workers. `UsersPageIsCurrent` excepts changes
of one user that overlap: with three changes, a user is deleted, the collections
of a list read before are written for it, and a user of the same name is created
while that call is on its way. Two changes, or two other names, did not show it.

`HandoverAccounted` holds under four hypotheses, which `round_trip` states as
constants and `HandedOverAccounted` as assumptions: answers come after the
sender's next transaction (`Overtakes = FALSE`), a file comes in one context
(`Uploads`) and not again while an external extractor has it (`MaxHandovers = 1`),
and no translation can be asked for a second time (no `TranslatedBy`). None can be
left out, as the table shows. What it excepts is in `lost`: an answer that was
gone without a record, at the last receipt or after its message was deleted.
`EveryItemSettles` has the same exception, and another for a translation that was
asked for a second time. `ForeignIsTranslated` is stated for as long as nothing has
failed, and not of documents out of archives; `EveryForeignIsTranslated` is the rest. `DialogIsTrue` excepts a loop
whose files were dropped again while it was sending: the dialog is enabled then,
with the files to do, while the loop goes on below it. In the same way the properties of
the web client name their exceptions, as a condition on a ghost variable or on
the state itself: what was lost, overtaken or left is said there, and nowhere else.

Seen while modelling, and not stated as properties: the genesis form reads
`require2FA` where the server sends `require2fa`, so that skipping is always
offered; an error in creating a Panda user disables the form until the page is
loaded again; a changed filter keeps the page number; a failed document never
ends loading; an error in moving or copying is dispatched as a function and
never shown (`moveItem.ts:39`, `copyItem.ts:37`); the keys Home and End pass
their event where `toggle` is expected.

**Bounds.** One blob is enough for the queue's properties: each speaks of the
TODOs of one blob, no statement relates two blobs, and a batch that spans blobs
is executed item by item, so two contexts of one blob, which share locks and
failures, are the harder case; the theorems are for any number of blobs. Two
TODO ids and two workers give every way to share or split a partition. Counters
are bounded by `MaxFaults` (crashes and database errors), `MaxReruns` (reprocess
requests), `MaxHandovers` (a guard on ingesting again while an external
service has the item, without which `processing` grows for ever) and `MaxLosses`
(errors and crashes between the deletion of a result and its record). A timeout of
the visibility counts as a fault. Two consumers and two
faults let a result be delivered twice and handled at the same time; receive
counts go to `MAX_RECEIVE_COUNT`, as in the code. Names of
instances are never reused, as in EC2, so there are finitely many replacements,
and the last instance is not terminated.

In the web client two requests in flight are what it takes for one to overtake
the other, and a third to be asked for in between; the numbers of things the user
does are the largest with which a run ends in minutes, and allow each refuted
statement above its trace. A cache of two pages of a document of three is at its
limit at once, where the code has 50; the distance of preloading is 0, where the
code has 2, so that there are pages off screen. `MAX_NUMBER_OF_CHILDREN` is 3
instead of 5000, 2 batches of moves stand for 5.

**Fairness.** `WorkerScheduler.go` calls itself or schedules the next call
whatever happens, so the steps of a poll are weakly fair; EC2 does complete a
termination; `AWSWorkerControl.start` schedules the check with a fixed delay, so
breaking locks is weakly fair too (a deploy suspends it, and ends). Extraction
outcomes are not fair: an item may fail every time. `ExternalWorkerScheduler.go`
schedules the next poll whatever the last one did or threw, so a consumer's steps
are weakly fair; the transcription service is taken to answer every job in the
end, which its own repository has to justify. Nothing is assumed of
ingestion and reprocessing, or of faults. Of the session it is assumed that a
browser sees every request answered or failed, that the interval of
`SessionKeepalive` fires, and that the login service sends the browser back;
nothing is assumed of the user. The safety properties of the web client speak of
states in which nothing is in flight instead of assuming that there will be one.

**Symmetry** of blobs and ingestions is used in `claims`, which checks
invariants only.

## Proofs

Proved for every value of the constants that satisfies the assumptions below.

Of `Spec`, the work queue, in `WorkQueueProofs`:

| Theorem | States | Argument |
|---|---|---|
| `TypeCorrect` | `[]TypeOK` | a lemma for each statement of `Manifest`, then one step per action; the count of unknown items in a batch needs `Items` to be finite |
| `NothingStranded` | `[]NoAttemptStranded` | inductive with `TypeOK`: attempts rise in the transaction that locks the blob; deleting locks resets the TODOs without a failure; deleting failures resets the TODOs of those extractors |
| `RunningKeepLocks` | `[]RunningBatchLocked` | needs the strengthening `NothingBeforeLaunch`: an instance that starts has no batch. Locks are deleted for a worker at the end of its batch, or for workers that are not running |
| `WorkRecordedOnce` | `[]RecordedOnce` | inductive with `TypeOK`: TODOs are created for items that have neither TODO nor `PROCESSED`, or together with deleting the `PROCESSED`; completing deletes the only TODO that matches |
| `SameViewApart` | `[]SameViewExclusive` | `Apart` adds what holds between the two halves of `fetchWork`: what a worker has read is of its partition (`ReadsItsPartition`), and none of it that is still to do is of an item in the batch of another with the same list (`ReadIsApart`). Two workers of one list have positions of their own in it, so partitions that do not meet (the remainder of the id by the length of the list), and by `RecordedOnce` an item has one TODO to be found by |
| `NothingIsForgotten` | `[][...]_vars`, `NothingForgotten` | each statement that deletes a relationship creates, in the same transaction, one of the same blob and extractor; it needs no invariant but the types |
| `InternalWorkImplementsLedger` | `ImplementsInternalLedger` | the initial state is that of the ledger; every action moves the entries of internal items as the ledger does, or leaves them alone. `RecordedOnce` and the matching of patterns give that the TODO a completion deletes was of the item itself, and that nothing else that is internal is lost with it |
| `QueueImplementsLedger` | `ImplementsLedger`, where `External = {}` | then all items are internal ones |
| `OneContextImplementsLedger` | `ImplementsLedger`, where a file comes in one context and not again while an external extractor has it | `BooksPlaced`: then an item is in one place, to do, handed over once, or done, so each statement moves one entry as the ledger does; a pattern that names a blob and an extractor finds one item (`SameItem`) |

Of `ExternalSpec`, the round trip, in `ExternalExtractionProofs`:

| Theorem | States | Argument |
|---|---|---|
| `ExternalTypeCorrect` | `[]ExternalTypeOK` | needs the strengthening `OnlyForeignRequested`: only an extractor that has found a foreign text comes to index one. A count of messages is taken down only by a step that has seen it above nought |
| `ExternalNothingStranded`, `ExternalRecordedOnce`, `ExternalSameViewApart`, `ExternalNothingForgotten`, `ExternalImplementsInternalLedger` | what the theorems above say of `Spec` | `QueueSteps`: seen on the work queue, a step of `ExternalSpec` is a step of `WorkQueue`, or one of the three statements it lacks (`addTranslationTodoToBlob`, `markExternalAsComplete`, `logExtractionFailure` by a consumer), each of which preserves the invariant, or is a step of the abstract specification |
| `RoundTripImplementsLedger` | `ImplementsLedger`, under the same hypotheses and without translators | `BooksPlaced` carries over: an answer finds one item to complete (`OneWaits`) |
| `HandedOverAccounted` | `[]HandoverAccounted`, under the four hypotheses above | `JobsCover`: of each key there are at least as many jobs unanswered as senders that have yet to mark their item, so that there is one when the item is marked. From there the answer is followed: it moves from the service to the queue and through the hands of consumers, who give it back, record a failure, complete the item, which by `OneWaits` is the only one, or leave it `lost`, where it stays until the item is handed over anew (`LostStays`); below the last receipt, what times out is back on the queue; and a failure on record goes only with the item it is for (`FailureStays`) |
| `ForeignTextTranslated` | `[]ForeignIsTranslated` | the property speaks of the end of an extraction, the invariant of every point of it: from the request for the translation on it is on the books, where `NothingForgotten` keeps it; an extractor that is past the request, or done, has made it |

Of the web client, each of the specification of its module:

| Theorem | States | Argument |
|---|---|---|
| `SidebarFollows` (`WorkspaceProofs`) | `[]SidebarIsCurrent` | the property says nothing of the states in between; `Followed` does: a change that is done on the server and will ask for the list when answered, or the last list in flight is unread or holds what there is, or nothing is in flight and the sidebar is right. A list that overtakes another is a disturbance, so the last list is the last to be answered |
| `InProgressTrue` (`WorkspaceProofs`) | `[]InProgressIsInFlight` | inductive with the types: `idInProgress` is set with a fetch, and each answer or failure either clears it, starts another fetch, or is of a fetch whose workspace is no longer the one noted. Proved for the operators of `getWorkspace`, from which all the actions are made |
| `EveryEditShown` (`WorkspaceProofs`) | `[]EditsAreShown` | `FreshInv`: as long as nothing was missed, at most one fetch is in flight, of the workspace that counts as being fetched; if it has been read and no other will follow it, or if there is none, then what it read, or what is shown, has every edit, or the answer to an edit made since is still to come and will ask for the workspace again. It rests on `PageInv` of the theorem before |
| `RegistrationSound` (`SmallPartsProofs`) | `[]RegistrationIsSound` | `RegistrationInv` follows a secret: a code is only of a secret that the authenticator holds; a submission past verification carries the secret of its code, or none where none is required; what is written is what was verified, and an ingestion is created before the form is told |
| `UsersPageTrue` (`SmallPartsProofs`) | `[]UsersPageIsCurrent` | `ListInv`: the last list in flight was read after the last change, or a change that is in flight will ask for one, or the page has what there is. `CollectionsInv`: the call in flight for a user has read, has taken away or has still to add so much that it ends with what was chosen last |
| `SearchFollowsAddress` (`DocumentPagesProofs`) | `[]SearchIsOfAddress` | `SearchInv`: every entry of the history (`TrailProper`) and every update to come has a query that says each filter once; what changes the address searches its query, or leaves it to `passedOver`, if the text changed and nothing else did; an answer is put on screen only if it is of the query that is current or takes its place |
| `LoadsWaitedFor` (`DocumentPagesProofs`) | `[]LoadsAreWaitedFor` | `Good` is stated of a store and the requests made so far, and preserved by every component that is mounted, updated or removed on the way: until a directory or a redirection has loaded, at most one request for a document is in flight, none of theirs is, and the flag says so; the flag without a request takes a failure |
| `OpenedShown` (`DocumentPagesProofs`) | `[]OpenedIsShown` | a directory has the resource of its address or a request for a resource in flight, whose answer it looks at again (`Finds`); each update of a viewer without pages ends with `FallbackView`, which leaves a view that the document has something in, if it looks for the view at all (`Shows`); what is stored between two updates cannot undo that |
| `ViewerTypeCorrect`, `CachesInStep` (`ViewerProofs`) | `[]ViewerTypeOK`, `[]CachesAgree` | `CacheInv`, with a lemma for each operation of the cache: what is asked of both caches leaves their queues equal, and a cache that is full evicts the entry that is least recently used. The types need `WorkInv`: what a handler has left is a loop over pages, then at most one job more, over pages that are mounted, cached or to be preloaded |
| `ViewportShown` (`ViewerProofs`) | `[]InView` | `RangeInv` speaks of every point of a scroll: what is mounted and what is left to be rendered make the window of the range; the range, or the one its timer will set, is that of the page `reported` last, since a move that is handled at once cancels the timer; and that page is the viewport's unless a scroll is still to be handled, a trailing call is to come, or the last call was from before a zoom (`misled`) |
| `FindShown` (`ViewerProofs`) | `[]PagesShowFind` | `PromiseInv` is of all the promises a page has subscribed to, not of its last one alone: one that is pending is the cache's for this page and the page was given nothing later, so an answer cannot overwrite; a promise without highlights comes after the one it is made from. `StaleInv` follows a find through its loops: pages on screen first, then the refresh of the others to come, under way or given up |
| `FilesInPlace` (`DocumentPagesProofs`) | `[]EachFileInItsPlace` | `UploadInv`: the folders a loop has created are each in the one of the shorter path (`CacheSound`), so that a file for which none is missing has the folder of its path (`Placed`), which stays the folder when others are created; ids of folders rise from parent to child, by which induction the path of a folder is unique. A request that is awaited is the one its loop waits for, and one that found the file missing is of a file that is not there (`NotYet`) |
| `DialogTrue` (`DocumentPagesProofs`) | `[]DialogIsTrue` | the same invariant: what the server says it stored is there (`HeldIn`), and while no file that was being sent was dropped again, a loop that runs has all of its queue in the dialog and runs alone (`OneShown`) |
| `MovesAreFollowedAlways` (`WorkspaceProofs`) | `[]MovesAreFollowed` | the progress is a sum over batches and drops: a step takes as much from the sum as it adds to what is settled, by lemmas of how a sum changes with one of its terms. If something was moved since the last fetch, a fetch is unanswered, or a drop will still ask for one (`Reminds`): a move that is applied has its answer to come, and an answer within the second of another leaves the timer running (`DropSound`) |
| `DropsAlwaysOnceAndWhole` (`WorkspaceProofs`) | `[]DropsOnceAndWhole` | `TreeInv`: every selection has its entries once (`Fit`), which clicking, toggling and ranges keep, whatever their anchor is, if the rows have each entry once (`OrderedOnce`). Rows below two siblings are apart, because the folders above an entry are less and less deep; so the rows of a folder put together have no entry twice (`RowsOfRooted`). What is inside of a folder on screen is its descendant, and the filter has left out descendants |
| `KeysAlwaysFollowRows` (`WorkspaceProofs`) | `[]KeysFollowRows` | a fact of each tree and expansion. `Follows` says of a list that the keys go from each entry to its neighbours, from the first up to a given entry and from the last down to another; it holds of the rows of a folder if it holds of the rows of each entry in it (`ChildrenFollow`, `RowIsGood`), from the deepest entries up |
| `BatchTakesTheFirstAlways` (`SmallPartsProofs`) | `[]BatchTakesTheFirst` | induction over the candidates, of the reduction: what is chosen of the first `k`, what it costs, and that each one passed over would have reached the maximum |
| `UserAlwaysKeepsFocus`, `OneChipAlwaysGoes` (`TextPartsProofs`) | `UserKeepsFocus`, `OneChipGoes` | `ChipInv`: inputs and chips alternate in a row, beginning and ending with an input. Then deleting a chip joins the inputs on its sides and shifts the rest by two places (induction over the row), which leaves the words and the other chips as they were and moves the focus to an element that is there; every other step keeps the row's length or inserts a chip and an input |
| `CommentsAlwaysInPlace` (`TextPartsProofs`) | `[]CommentsInPlace` | the invariant is the types; the work is in the layout. Lines can be put in order (induction over a finite set). Pushing down leaves each group but the root's below the one before; pulling up, from the last group to the first, leaves the root and what follows it alone and ends with each group above the next; within a group the positions are sums of the heights measured, whatever these are |
| `CommentedTextIsAlwaysWhole` (`TextPartsProofs`) | `[]CommentedTextIsWhole` | that all the text is written follows for any cuts, by induction over what is written. That it is written once needs `CuttingInv`: of comments that overlap two at a time, those already cut are the ones no other covers, and each ends where the next one starts, if it had reached that far; those still to be cut are as given |

They rest on the assumptions named in the modules they extend: finitely many
items and workers, ids and worker names that are numbers, `NoTodo` no TODO and
`NoMessage` no message, external extractors among the extractors, translators
external and started by internal extractors (`Manifest`, `WorkQueue`,
`ExternalExtraction`); values that stand for nothing are none of the values
(`NowhereAssumption`, `HomeAssumption`, `RegistrationAssumption`,
`NoSearchAssumption`, `DocumentsAssumption`, `NoTimerAssumption`,
`CommentPanelAssumption`); an option is not its own suboption
and has some (`SearchAssumption`); a document has a view, none of which is called
"no preview", and is no directory (`DocumentsAssumption`); a cache has room for a
page, a document has one, and the hits of a query are pages of it
(`MaxCachedPagesAssumption`, `NumPagesAssumption`, `HitsAssumption`); a query that
the search box receives has an input on either side of each chip, as links to a
search and the box itself write it (`QueriesAssumption`); lengths, costs and limits
are natural numbers (`HighlighterAssumption`, `CommentPanelAssumption`,
`CostsAssumption`, `LimitsAssumption`, `BatchesAssumption`,
`UploadBoundsAssumption`); no path is empty or comes twice in the
order of paths (`PathOrderAssumption`); entries of a workspace are in one order by
name, and a tree that the server answers with, in which a folder holds its
children, has no entry below itself (`EntriesAssumption`, `TreesAssumption`).

The invariants of the web client drop the bounds that the runs set: lists,
fetches, edits, changes, submissions and searches in flight can be any number, and
so can pages, cached pages, comments, characters, chips and candidates of a batch.
`ListLemmas` states what the proofs need of sequences, for any of them: `Append`
and `RemoveAt` keep the type, an entry that was not removed is still there, and
two entries stay two.

**Induction over data** is proved with sets instead of predicates: a set of numbers
that has 0 and with each number the next is all of `Nat` (`Induction`, from the well
foundedness of `Nat`), so the statement of a proof by induction is the definition of
a set. A recursive function of TLA+ is a `CHOOSE`, of which nothing is known before
a function with its equation is known to exist; `FoldExists` gives one for any step
that stays within a set. Where a proof needs it, a model therefore says what a reduce
or a loop of the code computes as a recursive function over the length of a list
(`Reduced`, `Merged`, `Pushed`, `Pulled`, `Written`, `SumOf`, `Those`, `Joined`).
Recursion over a tree is over the depth of its entries: `LevelledExists` gives a
function that asks for itself at lower levels only, and `LevelInduction` is the
induction that goes with it.

**The ledger of external items** is kept in general only under the hypotheses of
`OneContextImplementsLedger`. Handing over the item of a file ingested on its own
can delete the TODO of the same file in a workspace, since its pattern matches
both; a file ingested again while an external service has it is on the books twice;
`rerunFailedExternalExtractorsForBlob` replaces the `PROCESSING_EXTERNALLY` of
several contexts by a single TODO, as its comment says, and the contexts of the
others are lost. What survives all of this is `NothingForgotten`: blob and
extractor stay on the books.

**Only model-checked:**

* The type invariants of the runs that hold several parts of the web client
  (`DocumentPagesTypeOK`, `WorkspacesTypeOK`, `SmallPartsTypeOK`). They are of
  modules without theorems; what of them a proof needs is in the invariant of the
  part.
* The liveness properties `EveryItemSettles` (`EveryTodoSettles` and
  `EveryHandoverSettles`) and `SessionSettles`: fairness and `ENABLED` are out of the prover's reach.

## Not modelled

* The ingestion store, its dead letters and the order of its writes; deleting
  resources and moving ingestions: loops over S3, Elasticsearch and Neo4j whose
  objects no module here has. What is ingested appears in `WorkQueue` as the
  transaction that puts it on the books.
* Remote ingest of web media: the downloader, its queues and their redrive are
  outside the repository, and the promises of this part rest on them.
* Scaling of the auto-scaling groups: a function of two counts.
* Parsing of file formats, search queries and mappings, previews, the event log,
  the command-line client and the infrastructure: computation on data or I/O
  with no state shared in a way that a model would tell anything about.
* Of the server's workspaces and uploads, the Cypher statements:
  `WorkspacePage`, `WorkspaceMoves`, `WorkspaceList` and `Uploads` have what the calls of
  `Workspaces.scala` and `Collections.scala` do, each in one step that the server may
  refuse as a whole. A fetch reads metadata, jobs and contents in three transactions;
  its one read here is the earliest of them, so what it may miss is missed. Deleting
  and reprocessing an entry ignore the workspace in the address (`ChangedBy`); that the
  folder of a capture is one of the workspace is not checked; a workspace that is gone
  cannot be deleted again; an entry that can be deleted stands for a blob in one
  workspace only. Files of different paths have different contents, as an upload is
  recognised by the fingerprint of what is in its folder. `Neo4jAnnotations.move` (585)
  reads the parents before it writes, so that two moves into each other's folder could
  both succeed; nothing here states it.
* Of the web client, views that render what one request answers or forms that
  send one: settings, ingestion events, the video verifier, charts, layout;
  adding and deleting a comment; how anything is drawn or worded.

`PROJECT.json` lists these parts.

An interrupted item (`SubprocessInterruptedFailure`) is not recorded "to allow a
new worker to pick up the work" (`Worker.scala:122`), but keeps its attempt if
the extractor has a failure on the blob in another context. Stating that takes a
history of interruptions, which no module keeps.

## What could follow

The order in which more would pay: `IngestStore` (keys with data and metadata,
selection by node index, dead letters; promise: an uploaded file is ingested or
kept); `BlobLifecycle` (ingestion against deletion and moving over three stores).
