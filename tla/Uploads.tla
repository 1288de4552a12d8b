------------------------------- MODULE Uploads -------------------------------
(***************************************************************************)
(* Uploading files to a workspace (Uploads/UploadFiles.tsx): the dialog,   *)
(* files dropped while something else goes on, the loop that creates       *)
(* folders and sends one file after another, retries, and what the server  *)
(* keeps.  Of the session there is only whether the store has a token; the *)
(* dialog is unmounted when it has none, whereas a loop goes on.           *)
(***************************************************************************)
EXTENDS Naturals, Sequences, FiniteSets, SequencesExt

CONSTANTS
  PathOrder,    \* the paths there are, as sequences of names, in the order of sortBy
  TooLarge,     \* paths of files over MAX_FILE_UPLOAD_SIZE_BYTES
  Begins,       \* pairs of names of which the first begins the second
  SystemNames,  \* JUNK_BASENAMES, resource forks
  SystemFolders,\* JUNK_SEGMENTS
  RetryLimit,   \* RETRY_MAX_LIMIT
  MaxLoops,     \* bound: submissions
  MaxFolders,   \* bound: folders of the workspace
  MaxFaults,    \* bound: failures and lost connections
  MaxUploadEdits, \* bound: files added and removed, dialogs opened
  MaxSessions   \* bound: logins

ASSUME PathOrderAssumption ==
  /\ PathOrder \in Seq(Seq(STRING)) /\ IsInjective(PathOrder)
  /\ <<>> \notin Range(PathOrder)
ASSUME RetryLimitAssumption == RetryLimit \in Nat
ASSUME UploadBoundsAssumption ==
  /\ MaxLoops \in Nat /\ MaxFolders \in Nat \ {0} /\ MaxSessions \in Nat \ {0}
  /\ MaxFaults \in Nat /\ MaxUploadEdits \in Nat

VARIABLES
  session,  \* the number of the session, and whether it goes on
  open,     \* the dialog is open
  files,    \* path -> state of its upload
  focus,    \* focusedWorkspaceFolder
  reading,  \* files that are being read after a drop
  loops,    \* what each call of uploadFiles is at
  requests, \* uploads under way, as the server sees them
  folders,  \* folders of the workspace
  items,    \* files in it
  faults, uploadEdits

uploadVars == <<session, open, files, focus, reading, loops, requests, folders, items, faults, uploadEdits>>

Paths == Range(PathOrder)
RootFolder == 0
Existing == 1 \* a folder that is there from the start
Targets == {RootFolder, Existing}
FolderIds == 0..MaxFolders

States == {"pending", "uploading", "uploaded", "failed"}

\* What a loop waits for.
Waits == {"folder", "upload", "pause", "done"}

Loops == [
  session  : Nat,             \* the one its dialog belongs to
  target   : Targets,         \* workspaceEntry
  queue    : Seq(Paths),      \* files still to send, the current one first
  cache    : SUBSET [key : Seq(STRING), id : FolderIds], \* workspaceFolderCache
  waits    : Waits,
  token    : BOOLEAN,         \* the store had a token when it sent its request
  retry    : 0..RetryLimit,   \* retryCount
  replaced : BOOLEAN]         \* a dropped file took the entry of one being sent

\* An upload request: the server looks for the file in its folder, then
\* stores it; meanwhile the client may have given the request up.
UploadRequests == [loop : 1..MaxLoops, path : Paths, folder : FolderIds, retry : 0..RetryLimit,
             token : BOOLEAN, stage : {"sent", "found", "missing", "stored"}, awaited : BOOLEAN]

Folders == [id : FolderIds, parent : FolderIds, name : STRING, loop : 1..MaxLoops]
\* late: stored for a request that had been given up.
Items == [loop : 1..MaxLoops, path : Paths, folder : FolderIds, retry : 0..RetryLimit, late : BOOLEAN]

UploadsTypeOK ==
  /\ session \in [number : 1..MaxSessions, active : BOOLEAN]
  /\ open \in BOOLEAN
  /\ DOMAIN files \subseteq Paths /\ files \in [DOMAIN files -> States]
  /\ focus \in Targets
  /\ reading \subseteq [paths : SUBSET Paths, folder : Targets, opens : BOOLEAN]
  /\ loops \in Seq(Loops)
  /\ requests \subseteq UploadRequests
  /\ folders \subseteq Folders
  /\ items \subseteq Items
  /\ faults \in 0..MaxFaults /\ uploadEdits \in 0..MaxUploadEdits

(***************************************************************************)
(* The reducer of the dialog.                                              *)
(***************************************************************************)

NoFiles == [p \in {} |-> "pending"]

AddFiles(old, paths) ==
  [p \in DOMAIN old \cup paths |-> IF p \in paths THEN "pending" ELSE old[p]]

\* key.startsWith(path): whole names but for the last one.
StartsWith(key, path) ==
  /\ Len(key) >= Len(path)
  /\ \A i \in 1..Len(path) : \/ key[i] = path[i]
                             \/ i = Len(path) /\ <<path[i], key[i]>> \in Begins

RemovePath(old, path) ==
  [p \in {p \in DOMAIN old : ~StartsWith(p, path)} |-> old[p]]

SetUploadState(old, path, state) ==
  IF path \in DOMAIN old THEN [old EXCEPT ![path] = state] ELSE old

SomeFile(state) == \E p \in DOMAIN files : files[p] = state

IsUploading == SomeFile("uploading")
IsComplete == SomeFile("uploaded")
IsEditDisabled == IsUploading \/ IsComplete

(***************************************************************************)
(* The dialog.                                                             *)
(***************************************************************************)

Shown == session.active
Edit == Shown /\ uploadEdits < MaxUploadEdits /\ uploadEdits' = uploadEdits + 1
ServerIdle == UNCHANGED <<loops, requests, folders, items, faults>>

\* onClick, with a folder in focus in the tree, or nothing: then the folder
\* is still that of the last time, if the dialog was closed by Close.
OpenUploadDialog(folder) ==
  /\ Edit /\ ~open
  /\ open' = TRUE
  /\ focus' \in {folder, focus}
  /\ UNCHANGED <<session, files, reading>>
  /\ ServerIdle

IsSystemFile(path) ==
  Last(path) \in SystemNames \/ \E i \in DOMAIN path : path[i] \in SystemFolders

FilterSystemFiles(paths) == {p \in paths : ~IsSystemFile(p)}

\* Either what is in one directory, or files.
DroppedSelections ==
  {paths \in SUBSET Paths \ {{}} :
     \/ \A p \in paths : Len(p) = 1
     \/ \A p, q \in paths : Len(p) > 1 /\ Head(p) = Head(q)}

PickFiles(paths) ==
  /\ Edit /\ open /\ ~IsEditDisabled
  /\ files' = AddFiles(files, FilterSystemFiles(paths))
  /\ UNCHANGED <<session, open, focus, reading>>
  /\ ServerIdle

\* A file, or one of the folders that FileList shows above it.
Rows == UNION {{SubSeq(p, 1, n) : n \in 1..Len(p)} : p \in DOMAIN files}

RemoveFiles(path) ==
  /\ Edit /\ open /\ ~IsEditDisabled
  /\ path \in Rows
  /\ files' = RemovePath(files, path)
  /\ UNCHANGED <<session, open, focus, reading>>
  /\ ServerIdle

\* Files are dropped on the buttons of the dialog, which accept them even
\* when they are disabled, or on the tree.  They are read first.
Drop(paths, folder) ==
  /\ Edit /\ FilterSystemFiles(paths) # {}
  /\ reading' = reading \cup {[paths |-> FilterSystemFiles(paths), folder |-> folder, opens |-> ~open]}
  /\ UNCHANGED <<session, open, files, focus>>
  /\ ServerIdle

Reset == files' = NoFiles

Dismiss ==
  /\ Shown /\ open /\ ~IsUploading
  /\ open' = FALSE
  /\ focus' = RootFolder
  /\ Reset
  /\ UNCHANGED <<session, reading, uploadEdits>>
  /\ ServerIdle

\* dismissAndResetModal
Close ==
  /\ Shown /\ open /\ IsComplete /\ ~IsUploading
  /\ open' = FALSE
  /\ Reset
  /\ UNCHANGED <<session, focus, reading, uploadEdits>>
  /\ ServerIdle

(***************************************************************************)
(* The loop.                                                               *)
(***************************************************************************)

Directories(path) == Front(path)

\* partName: the folder with those it is in.
CacheKey(dirs) == dirs

Cached(loop, dirs) == \E c \in loop.cache : c.key = CacheKey(dirs)
FolderOf(loop, dirs) ==
  IF dirs = <<>> THEN loop.target ELSE (CHOOSE c \in loop.cache : c.key = CacheKey(dirs)).id

\* The first folder on the way to a file that the loop has not created.
MissingDirs(loop, path) ==
  {dirs \in {SubSeq(path, 1, i) : i \in 1..(Len(path) - 1)} : ~Cached(loop, dirs)}
NextDirs(loop) ==
  LET missing == MissingDirs(loop, Head(loop.queue))
  IN  CHOOSE d \in missing : \A e \in missing : Len(d) <= Len(e)

\* A loop that has sent the next request for its current file.
Proceeding(loop) ==
  [loop EXCEPT !.waits = IF MissingDirs(loop, Head(loop.queue)) = {} THEN "upload" ELSE "folder",
               !.token = session.active]

Sent(i, loop) ==
  IF loop.waits # "upload" THEN {}
  ELSE {[loop |-> i, path |-> Head(loop.queue), folder |-> FolderOf(loop, Directories(Head(loop.queue))),
         retry |-> loop.retry, token |-> loop.token, stage |-> "sent", awaited |-> TRUE]}

\* nextFile: files that are too large fail at once; the first other one is
\* what the loop waits for.
ToSend(queue) == {j \in DOMAIN queue : queue[j] \notin TooLarge}
First(queue) == CHOOSE j \in ToSend(queue) : \A k \in ToSend(queue) : j <= k

NextFile(loop, queue) ==
  IF ToSend(queue) = {} THEN [loop EXCEPT !.queue = <<>>, !.waits = "done"]
  ELSE Proceeding([loop EXCEPT !.queue = SubSeq(queue, First(queue), Len(queue)), !.retry = 0])

ShownFor(queue, old) ==
  LET skipped == {queue[j] : j \in {j \in DOMAIN queue : ToSend(queue) # {} => j < First(queue)}}
      current == IF ToSend(queue) = {} THEN {} ELSE {queue[First(queue)]}
  IN  [p \in DOMAIN old |-> IF p \in skipped THEN "failed"
                              ELSE IF p \in current THEN "uploading" ELSE old[p]]

\* What a loop dispatches reaches the dialog of its own session only.
Dispatched(loop, changed) ==
  files' = IF Shown /\ loop.session = session.number THEN changed ELSE files

\* sortBy: those of the files, in the order of their paths.
InOrder(paths) ==
  LET chosen[n \in 0..Len(PathOrder)] ==
        IF n = 0 THEN <<>>
        ELSE IF PathOrder[n] \in paths THEN Append(chosen[n - 1], PathOrder[n]) ELSE chosen[n - 1]
  IN  chosen[Len(PathOrder)]

CanSubmit == files # NoFiles /\ ~IsUploading /\ ~IsComplete

\* getUploadTarget
NewLoop ==
  [session |-> session.number, target |-> focus, queue |-> <<>>, cache |-> {},
   waits |-> "done", token |-> TRUE, retry |-> 0, replaced |-> FALSE]

\* onSubmit: the target and the files are those of this moment.
Submit ==
  /\ Shown /\ open /\ CanSubmit
  /\ Len(loops) < MaxLoops
  /\ LET queue == InOrder(DOMAIN files)
         loop == NextFile(NewLoop, queue)
     IN  /\ files' = ShownFor(queue, files)
         /\ loops' = Append(loops, loop)
         /\ requests' = requests \cup Sent(Len(loops'), loop)
  /\ UNCHANGED <<session, open, focus, reading, folders, items, faults, uploadEdits>>

\* The current file is uploaded or has failed; old requests are those left.
Finish(i, state, left) ==
  LET loop == loops[i]
      next == NextFile(loop, Tail(loop.queue))
  IN  /\ loops' = [loops EXCEPT ![i] = next]
      /\ requests' = left \cup Sent(i, next)
      /\ Dispatched(loop, ShownFor(Tail(loop.queue), SetUploadState(files, Head(loop.queue), state)))

DialogUnchanged == UNCHANGED <<session, open, focus, reading>>

\* The dialog is unmounted.
Unmounted == open' = FALSE /\ files' = NoFiles /\ focus' = RootFolder /\ reading' = {}

NextFolder(i, id) ==
  LET dirs == NextDirs(loops[i])
  IN  [id |-> id, parent |-> FolderOf(loops[i], Front(dirs)), name |-> Last(dirs), loop |-> i]
NewId == Cardinality(folders) + 2

Fault == faults < MaxFaults /\ faults' = faults + 1

\* addFolderToWorkspace answers.  Folders of the same name are not merged.
FolderCreated(i) ==
  LET loop == loops[i]
      next == Proceeding([loop EXCEPT !.cache = @ \cup {[key |-> CacheKey(NextDirs(loop)), id |-> NewId]}])
  IN  /\ loop.waits = "folder" /\ loop.token /\ NewId <= MaxFolders
      /\ folders' = folders \cup {NextFolder(i, NewId)}
      /\ loops' = [loops EXCEPT ![i] = next]
      /\ requests' = requests \cup Sent(i, next)
      /\ DialogUnchanged
      /\ UNCHANGED <<files, items, faults, uploadEdits>>

\* It fails, or its answer is lost: so does the file, and the next is tried.
FolderFails(i) ==
  /\ loops[i].waits = "folder" /\ loops[i].token
  /\ Fault
  /\ \/ UNCHANGED folders
     \/ NewId <= MaxFolders /\ folders' = folders \cup {NextFolder(i, NewId)}
  /\ Finish(i, "failed", requests)
  /\ DialogUnchanged
  /\ UNCHANGED <<items, uploadEdits>>

\* A request without a token is answered with 401, which ends the session
\* there is; the loop goes on in the same way as after other failures.
FolderRefused(i) ==
  LET next == NextFile(loops[i], Tail(loops[i].queue)) IN
  /\ loops[i].waits = "folder" /\ ~loops[i].token
  /\ session' = [session EXCEPT !.active = FALSE]
  /\ Unmounted
  /\ loops' = [loops EXCEPT ![i] = [next EXCEPT !.token = FALSE]]
  /\ requests' = requests \cup Sent(i, loops'[i])
  /\ UNCHANGED <<folders, items, faults, uploadEdits>>

MayRetry(r) == r.retry < RetryLimit

\* Mutant: the end of the request counts as its success.
Ended(r) == r.stage # "sent"

Succeeded(r) == r.stage = "stored"

AwaitedUpload(i, r) == loops[i].waits = "upload" /\ r.loop = i /\ r.awaited

UploadSucceeds(i, r) ==
  /\ AwaitedUpload(i, r) /\ Succeeded(r)
  /\ Finish(i, "uploaded", requests \ {r})
  /\ DialogUnchanged
  /\ UNCHANGED <<folders, items, faults, uploadEdits>>

Paused(i) == [loops EXCEPT ![i] = [@ EXCEPT !.waits = "pause"]]

\* Any other status, that of a lost connection included: the request is sent
\* again after a pause, or given up; the server may still be at it.
UploadFails(i, r) ==
  /\ AwaitedUpload(i, r) /\ r.token
  /\ Fault
  /\ \E lost \in {{}, {[r EXCEPT !.awaited = FALSE]}} :
       IF MayRetry(r)
       THEN loops' = Paused(i) /\ requests' = (requests \ {r}) \cup lost /\ UNCHANGED files
       ELSE Finish(i, "failed", (requests \ {r}) \cup lost)
  /\ DialogUnchanged
  /\ UNCHANGED <<folders, items, uploadEdits>>

UploadRefused(i, r) ==
  LET next == [NextFile(loops[i], Tail(loops[i].queue)) EXCEPT !.token = FALSE] IN
  /\ AwaitedUpload(i, r) /\ ~r.token
  /\ session' = [session EXCEPT !.active = FALSE]
  /\ Unmounted
  /\ IF MayRetry(r)
     THEN loops' = Paused(i) /\ requests' = requests \ {r}
     ELSE loops' = [loops EXCEPT ![i] = next] /\ requests' = (requests \ {r}) \cup Sent(i, next)
  /\ UNCHANGED <<folders, items, faults, uploadEdits>>

\* retryRequest: the token is read again.
Retry(i) ==
  LET next == [loops[i] EXCEPT !.waits = "upload", !.retry = @ + 1, !.token = session.active] IN
  /\ loops[i].waits = "pause"
  /\ loops' = [loops EXCEPT ![i] = next]
  /\ requests' = requests \cup Sent(i, next)
  /\ DialogUnchanged
  /\ UNCHANGED <<files, folders, items, faults, uploadEdits>>

\* xhr.upload.onprogress
Progress(i) ==
  /\ loops[i].waits = "upload"
  /\ Dispatched(loops[i], SetUploadState(files, Head(loops[i].queue), "uploading"))
  /\ files' # files
  /\ DialogUnchanged
  /\ UNCHANGED <<loops, requests, folders, items, faults, uploadEdits>>

(***************************************************************************)
(* The server (Collections.uploadFileWithNewIngestion): a file of which    *)
(* the folder already has the content is not added again.                  *)
(***************************************************************************)

Held(r) == \E item \in items : item.folder = r.folder /\ item.path = r.path

\* Mutant: the content of the folder is not looked at.
LookAway(r) ==
  /\ r.stage = "sent" /\ r.token
  /\ requests' = (requests \ {r}) \cup {[r EXCEPT !.stage = "missing"]}
  /\ UNCHANGED <<session, open, files, focus, reading, loops, folders, items, faults, uploadEdits>>

ServerLooks(r) ==
  /\ r.stage = "sent" /\ r.token
  /\ requests' = (requests \ {r}) \cup {[r EXCEPT !.stage = IF Held(r) THEN "found" ELSE "missing"]}
  /\ UNCHANGED <<session, open, files, focus, reading, loops, folders, items, faults, uploadEdits>>

ServerStores(r) ==
  /\ r.stage \in {"found", "missing"}
  /\ requests' = IF r.awaited THEN (requests \ {r}) \cup {[r EXCEPT !.stage = "stored"]} ELSE requests \ {r}
  /\ items' = IF r.stage = "found" THEN items
              ELSE items \cup {[loop |-> r.loop, path |-> r.path, folder |-> r.folder,
                              retry |-> r.retry, late |-> ~r.awaited]}
  /\ UNCHANGED <<session, open, files, focus, reading, loops, folders, faults, uploadEdits>>

(***************************************************************************)
(* Dropped files that have been read, and the session.                     *)
(***************************************************************************)

\* An entry of a file that a loop is sending is overwritten.
Replacing(paths) ==
  [i \in DOMAIN loops |->
     [loops[i] EXCEPT !.replaced = @ \/ /\ loops[i].waits # "done"
                                        /\ loops[i].session = session.number
                                        /\ Head(loops[i].queue) \in paths]]

FilesRead(drop) ==
  /\ Shown /\ drop \in reading
  /\ reading' = reading \ {drop}
  /\ files' = AddFiles(files, drop.paths)
  /\ open' = (open \/ drop.opens)
  /\ focus' = IF drop.opens THEN drop.folder ELSE focus
  /\ loops' = Replacing(drop.paths)
  /\ UNCHANGED <<session, requests, folders, items, faults, uploadEdits>>

\* The store loses its token, and the application its components.
SessionEnds ==
  /\ session.active /\ session.number < MaxSessions
  /\ session' = [session EXCEPT !.active = FALSE]
  /\ Unmounted
  /\ UNCHANGED <<loops, requests, folders, items, faults, uploadEdits>>

SessionStarts ==
  /\ ~session.active /\ session.number < MaxSessions
  /\ session' = [number |-> session.number + 1, active |-> TRUE]
  /\ UNCHANGED <<open, files, focus, reading, loops, requests, folders, items, faults, uploadEdits>>

User ==
  \/ \E folder \in Targets : OpenUploadDialog(folder)
  \/ \E paths \in DroppedSelections : PickFiles(paths)
  \/ \E path \in Rows : RemoveFiles(path)
  \/ \E paths \in DroppedSelections, folder \in Targets : Drop(paths, folder)
  \/ Dismiss \/ Close \/ Submit

Loop(i) ==
  \/ FolderCreated(i) \/ FolderFails(i) \/ FolderRefused(i)
  \/ \E r \in requests : UploadSucceeds(i, r) \/ UploadFails(i, r) \/ UploadRefused(i, r)
  \/ Retry(i) \/ Progress(i)

Server == \E r \in requests : ServerLooks(r) \/ ServerStores(r)

UploadsInit ==
  /\ session = [number |-> 1, active |-> TRUE]
  /\ open = FALSE /\ files = NoFiles /\ focus = RootFolder /\ reading = {}
  /\ loops = <<>> /\ requests = {} /\ folders = {} /\ items = {}
  /\ faults = 0 /\ uploadEdits = 0

UploadsNext ==
  \/ User \/ (\E i \in DOMAIN loops : Loop(i)) \/ Server
  \/ (\E drop \in reading : FilesRead(drop)) \/ SessionEnds \/ SessionStarts

UploadsSpec == UploadsInit /\ [][UploadsNext]_uploadVars

(***************************************************************************)
(* Properties.                                                             *)
(***************************************************************************)

Active(i) == loops[i].waits # "done" /\ loops[i].session = session.number /\ session.active

FolderPath[id \in Targets \cup {f.id : f \in folders}] ==
  IF id \in Targets THEN <<>>
  ELSE LET f == CHOOSE f \in folders : f.id = id IN Append(FolderPath[f.parent], f.name)

(* Every file of the workspace is in the folder that its path says: those  *)
(* on the way to it have been created one in the other, and are shared     *)
(* between the files of a loop (createIntermediateDirectories).            *)
FoldersMirrorPaths ==
  \A item \in items : FolderPath[item.folder] = Directories(item.path)

(* The dialog lets one loop run at a time and shows the file it is at as   *)
(* uploading, unless a file that was being sent has been dropped again:    *)
(* that makes its entry pending, and enables the dialog.                   *)
OneLoopAtATime ==
  (\A i \in DOMAIN loops : loops[i].session = session.number => ~loops[i].replaced) =>
    \A i \in DOMAIN loops : Active(i) =>
      /\ files[Head(loops[i].queue)] = "uploading"
      /\ \A j \in DOMAIN loops : j # i => ~Active(j)

(* A loop puts a file into its folder twice only if the server was still   *)
(* working on a request that the client had given up: a retry of a file    *)
(* that is there already does not add it (getWorkspaceChildrenWithUri).    *)
TwiceOnlyWhenGivenUp ==
  \A item, other \in items :
    item.loop = other.loop /\ item.path = other.path /\ item # other => item.late \/ other.late

(* The workspace mirrors what was uploaded: every file in the folder of  *)
(* its path, and once (uploadFiles, createIntermediateDirectories).        *)
EachFileInItsPlace == FoldersMirrorPaths /\ TwiceOnlyWhenGivenUp

(* What the dialog shows as uploaded is in the workspace, whatever was     *)
(* retried, dropped again or submitted before (Set_Upload_State).          *)
UploadedIsKept ==
  \A p \in DOMAIN files : files[p] = "uploaded" => \E item \in items : item.path = p

(* The dialog is true to what goes on: the file shown as uploading is the  *)
(* one being sent, and what is shown as uploaded is there.                 *)
DialogIsTrue == OneLoopAtATime /\ UploadedIsKept
==============================================================================
