---------------------------- MODULE WorkspacePage ----------------------------
(***************************************************************************)
(* The page of a workspace: fetching the workspace (getWorkspace), going   *)
(* from one to another, edits and what their answers do, the dialogs that  *)
(* confirm a deletion and those that add something to a folder.            *)
(***************************************************************************)
EXTENDS Integers, Sequences, FiniteSets, SequencesExt

CONSTANTS
  Workspaces,
  WorkspaceItems, \* entries that can be removed
  Deletable,      \* files of them that the user has added, or captures that failed
  Home,           \* entry -> its workspace
  None,
  MaxFetches,     \* bound: fetches in flight
  MaxWorkspaceEdits, \* bound: edits sent
  MaxVisits,      \* bound: times the page is mounted or goes to another workspace
  MaxPolls        \* bound: polls, refreshes, choices in a dialog

ASSUME HomeAssumption ==
  /\ Home \in [WorkspaceItems -> Workspaces] /\ Deletable \subseteq WorkspaceItems
  /\ None \notin Workspaces \cup WorkspaceItems

VARIABLES
  address,  \* the workspace of the page, None when another page is there
  visit,    \* number of the page component
  visits,
  polls,
  loading,  \* currentWorkspace, isGettingWorkspace, the ids of getWorkspace.ts, fetches in flight
  versions, \* on the server: workspace -> number of edits applied
  gone,     \* entries deleted
  edits,    \* edits sent and not answered
  sent,     \* how many were sent
  confirm,  \* contexts of the two confirmation dialogs
  target,   \* the workspace of the folder in focus, which a dialog adds to
  missed    \* a fetch or an answer to an edit was lost, or fetches of two workspaces met

pageVars == <<address, visit, visits, polls, loading, versions, gone, edits, sent, confirm, target, missed>>

Unread == -1
Versions == 0..MaxWorkspaceEdits
Nothing == [workspace |-> None, version |-> Unread]
Contents == [workspace : Workspaces, version : Versions]
Dialogs == {"delete", "remove"}
Kinds == Dialogs \cup {"entry", "blob", "workspace", "capture", "add"}
Statuses == {"unconfirmed", "doing", "done", "failed"}
Closed == [open |-> FALSE, item |-> None, status |-> "unconfirmed"]

\* folder: the workspace of the folder that is added to, or of the entry that is edited.
Edits == [kind : Kinds, workspace : Workspaces, folder : Workspaces \cup {None},
          item : WorkspaceItems \cup {None}, visit : 0..MaxVisits + MaxWorkspaceEdits,
          stage : {"sent", "done", "failed"}]

PageTypeOK ==
  /\ address \in Workspaces \cup {None} /\ target \in Workspaces \cup {None}
  /\ visit \in 0..MaxVisits + MaxWorkspaceEdits /\ visits \in 0..MaxVisits /\ polls \in 0..MaxPolls
  /\ loading.shown \in Contents \cup {Nothing}
  /\ loading.getting \in BOOLEAN
  /\ {loading.inProgress, loading.again} \subseteq Workspaces \cup {None}
  /\ loading.fetches \in Seq([workspace : Workspaces, version : Versions \cup {Unread}])
  /\ versions \in [Workspaces -> Versions]
  /\ gone \subseteq WorkspaceItems
  /\ edits \in Seq(Edits) /\ sent \in Versions
  /\ confirm \in [Dialogs -> [open : BOOLEAN, item : WorkspaceItems \cup {None}, status : Statuses]]
  /\ missed \subseteq {"failure", "meeting"}

(***************************************************************************)
(* getWorkspace.                                                           *)
(***************************************************************************)

Operation(l, w) ==
  [l EXCEPT !.getting = TRUE, !.fetches = Append(@, [workspace |-> w, version |-> Unread])]

\* Mutant: a request while one is in progress is dropped.
GetWorkspaceOnce(l, w, shouldClearFirst) ==
  LET cleared == IF shouldClearFirst THEN [l EXCEPT !.shown = Nothing, !.getting = FALSE] ELSE l
  IN  IF l.inProgress = w THEN cleared
      ELSE Operation([cleared EXCEPT !.inProgress = w, !.again = None], w)

GetWorkspace(l, w, shouldClearFirst) ==
  LET cleared == IF shouldClearFirst THEN [l EXCEPT !.shown = Nothing, !.getting = FALSE] ELSE l
  IN  IF l.inProgress = w THEN [cleared EXCEPT !.again = w]
      ELSE Operation([cleared EXCEPT !.inProgress = w, !.again = None], w)

\* finally: one that was asked for again starts over, with the id of this one.
Settled(l, w) ==
  IF l.again # None /\ l.inProgress = l.again
    THEN Operation([l EXCEPT !.again = None], w)
    ELSE [l EXCEPT !.inProgress = None]

Dropped(l, i) == [l EXCEPT !.fetches = RemoveAt(@, i)]

Received(l, i) ==
  LET f == l.fetches[i]
      rest == Dropped(l, i)
  IN  IF l.inProgress = f.workspace THEN [rest EXCEPT !.shown = f, !.getting = FALSE] ELSE rest

\* A fetch is started while one of another workspace is in flight.
Meeting(l) == {m \in {"meeting"} : \E f, g \in Range(l.fetches) : f.workspace # g.workspace}

Loads(l) ==
  /\ Len(l.fetches) <= MaxFetches
  /\ loading' = l
  /\ missed' = missed \cup Meeting(l)

FetchRead(i) ==
  /\ loading.fetches[i].version = Unread
  /\ loading' = [loading EXCEPT !.fetches[i].version = versions[loading.fetches[i].workspace]]
  /\ UNCHANGED <<address, visit, visits, polls, versions, gone, edits, sent, confirm, target, missed>>

FetchAnswered(i) ==
  /\ loading.fetches[i].version # Unread
  /\ Loads(Settled(Received(loading, i), loading.fetches[i].workspace))
  /\ UNCHANGED <<address, visit, visits, polls, versions, gone, edits, sent, confirm, target>>

\* Mutant: a failure ends it without what finally does.
FetchForgotten(i) ==
  /\ loading' = Dropped(loading, i)
  /\ missed' = missed \cup {"failure"}
  /\ UNCHANGED <<address, visit, visits, polls, versions, gone, edits, sent, confirm, target>>

FetchFailed(i) ==
  /\ loading' = Settled(Dropped(loading, i), loading.fetches[i].workspace)
  /\ missed' = missed \cup {"failure"}
  /\ UNCHANGED <<address, visit, visits, polls, versions, gone, edits, sent, confirm, target>>

(***************************************************************************)
(* Coming, going, and asking again.                                        *)
(***************************************************************************)

ServerUnchanged == UNCHANGED <<versions, gone, edits, sent>>
NoDialog == \A d \in Dialogs : ~confirm[d].open

\* What was shown before stays until there is an answer.
Mount(w) ==
  /\ address = None /\ visits < MaxVisits
  /\ address' = w /\ visit' = visit + 1 /\ visits' = visits + 1
  /\ confirm' = [d \in Dialogs |-> Closed]
  /\ Loads(GetWorkspace(loading, w, FALSE))
  /\ ServerUnchanged /\ UNCHANGED <<polls, target>>

\* A link in the sidebar, back or forward.
GoTo(w) ==
  /\ address \notin {None, w} /\ visits < MaxVisits
  /\ address' = w /\ visits' = visits + 1
  /\ target' = None
  /\ Loads(GetWorkspace(loading, w, TRUE))
  /\ ServerUnchanged /\ UNCHANGED <<visit, polls, confirm>>

Unmount ==
  /\ address # None
  /\ address' = None
  /\ UNCHANGED <<visit, visits, polls, loading, target, missed, confirm>> /\ ServerUnchanged

\* performPollingIfRequired, the refresh button.
Poll ==
  /\ address # None /\ loading.shown # Nothing
  /\ polls < MaxPolls /\ polls' = polls + 1
  /\ Loads(GetWorkspace(loading, loading.shown.workspace, FALSE))
  /\ ServerUnchanged /\ UNCHANGED <<address, visit, visits, confirm, target>>

\* A workspace is chosen in a dialog, of this page or of a document.
Choose(w) ==
  /\ NoDialog
  /\ polls < MaxPolls /\ polls' = polls + 1
  /\ Loads(GetWorkspace(loading, w, FALSE))
  /\ ServerUnchanged /\ UNCHANGED <<address, visit, visits, confirm, target>>

\* A folder of what is shown gets the focus.
FocusFolder ==
  /\ loading.shown # Nothing /\ NoDialog
  /\ target' = loading.shown.workspace
  /\ UNCHANGED <<address, visit, visits, polls, loading, missed, confirm>> /\ ServerUnchanged

(***************************************************************************)
(* Edits.                                                                  *)
(***************************************************************************)

Send(kind, w, folder, item) ==
  /\ sent < MaxWorkspaceEdits /\ sent' = sent + 1
  /\ edits' = Append(edits, [kind |-> kind, workspace |-> w, folder |-> folder, item |-> item,
                             visit |-> visit, stage |-> "sent"])
  /\ UNCHANGED <<visit, visits, polls, loading, missed, versions, gone>>

\* An edit of an entry goes to the workspace of the address, others to the one
\* that is shown.
EditEntry(kind) ==
  /\ address # None /\ loading.shown # Nothing /\ NoDialog
  /\ Send(kind, address, loading.shown.workspace, None)
  /\ UNCHANGED <<address, confirm, target>>

RenameItem == EditEntry("entry")
ReprocessBlob == EditEntry("blob")
ReprocessFolder == EditEntry("entry")

EditWorkspace ==
  /\ address # None /\ loading.shown # Nothing /\ NoDialog
  /\ Send("workspace", loading.shown.workspace, None, None)
  /\ UNCHANGED <<address, confirm, target>>

AddFolder == EditWorkspace
RenameWorkspace == EditWorkspace
ShareWorkspace == EditWorkspace
TakeOwnership == EditWorkspace

\* A folder of the workspace that is shown when nothing has the focus.
AddTo(kind) ==
  /\ loading.shown # Nothing /\ NoDialog
  /\ LET w == loading.shown.workspace
     IN  Send(kind, w, IF target = None THEN w ELSE target, None)
  /\ UNCHANGED <<address, confirm, target>>

Capture == AddTo("capture")
AddResource == address = None /\ AddTo("add")

\* The context menu offers it.
OpenDialog(d, item) ==
  /\ address # None /\ loading.shown # Nothing /\ NoDialog
  /\ Home[item] = loading.shown.workspace
  /\ d = "delete" => item \in Deletable
  /\ confirm' = [confirm EXCEPT ![d] = [open |-> TRUE, item |-> item, status |-> "unconfirmed"]]
  /\ UNCHANGED <<address, visit, visits, polls, loading, target, missed>> /\ ServerUnchanged

DismissDialog(d) ==
  /\ address # None /\ confirm[d].open
  /\ confirm' = [confirm EXCEPT ![d] = Closed]
  /\ UNCHANGED <<address, visit, visits, polls, loading, target, missed>> /\ ServerUnchanged

\* onDeleteItem, onRemoveFromWorkspace.
Confirm(d) ==
  /\ address # None /\ confirm[d].open /\ confirm[d].status = "unconfirmed"
  /\ confirm' = [confirm EXCEPT ![d].status = "doing"]
  /\ target' = None
  /\ Send(d, address, None, confirm[d].item)
  /\ UNCHANGED address

(***************************************************************************)
(* The server, and the answers.                                            *)
(***************************************************************************)

\* A file is deleted, and processed again, wherever it is.
ChangedBy(e) ==
  IF e.kind = "delete" THEN Home[e.item] ELSE IF e.kind = "blob" THEN e.folder ELSE e.workspace

\* An entry has to be there; it and a folder have to be of the workspace, but
\* for the folder of a capture.
Applies(e) ==
  /\ e.kind \in Dialogs => e.item \notin gone
  /\ e.kind = "remove" => Home[e.item] = e.workspace
  /\ e.kind \in {"entry", "workspace", "add"} => e.folder \in {None, e.workspace}

\* In one transaction, or refused: the user may not, or the file has children.
EditApplied(i) ==
  /\ edits[i].stage = "sent"
  /\ \/ /\ Applies(edits[i])
        /\ edits' = [edits EXCEPT ![i].stage = "done"]
        /\ versions' = [versions EXCEPT ![ChangedBy(edits[i])] = @ + 1]
        /\ gone' = gone \cup ({edits[i].item} \ {None})
     \/ /\ edits' = [edits EXCEPT ![i].stage = "failed"]
        /\ UNCHANGED <<versions, gone>>
  /\ UNCHANGED <<address, visit, visits, polls, loading, sent, confirm, target, missed>>

\* The handler of a dialog changes the dialog that is open then.
Completed(c, e, status) ==
  IF e.kind \in Dialogs /\ e.visit = visit /\ c[e.kind].open
    THEN [c EXCEPT ![e.kind].status = status] ELSE c

EditAnswered(i) ==
  LET e == edits[i]
  IN  /\ e.stage = "done" /\ e.kind # "capture"
      /\ edits' = RemoveAt(edits, i)
      /\ confirm' = Completed(confirm, e, "done")
      /\ IF e.kind = "add"
           THEN missed' = missed \cup {"failure"} /\ UNCHANGED loading
           ELSE Loads(GetWorkspace(loading, e.workspace, FALSE))
      /\ UNCHANGED <<address, visit, visits, polls, versions, gone, sent, target>>

\* A capture goes to the page of its workspace first.
CaptureAnswered(i) ==
  LET w == edits[i].workspace
      there == IF address = w THEN loading ELSE GetWorkspace(loading, w, address # None)
  IN  /\ edits[i].stage = "done" /\ edits[i].kind = "capture"
      /\ edits' = RemoveAt(edits, i)
      /\ address' = w
      /\ visit' = IF address = None THEN visit + 1 ELSE visit
      /\ confirm' = IF address = None THEN [d \in Dialogs |-> Closed] ELSE confirm
      /\ target' = IF address \in {None, w} THEN target ELSE None
      /\ Loads(GetWorkspace(there, w, FALSE))
      /\ UNCHANGED <<visits, polls, versions, gone, sent>>

\* It fails, or its answer is lost.
EditFailed(i) ==
  LET e == edits[i]
      l == IF e.kind = "capture" THEN GetWorkspace(loading, e.workspace, FALSE) ELSE loading
  IN  /\ e.stage # "sent"
      /\ edits' = RemoveAt(edits, i)
      /\ confirm' = Completed(confirm, e, "failed")
      /\ Len(l.fetches) <= MaxFetches
      /\ loading' = l
      /\ missed' = missed \cup Meeting(l) \cup {m \in {"failure"} : e.stage = "done"}
      /\ UNCHANGED <<address, visit, visits, polls, versions, gone, sent, target>>

(***************************************************************************)
(* The specification.                                                      *)
(***************************************************************************)

PageInit ==
  /\ address = None /\ visit = 0 /\ visits = 0 /\ polls = 0
  /\ loading = [shown |-> Nothing, getting |-> FALSE, inProgress |-> None, again |-> None,
                fetches |-> <<>>]
  /\ versions = [w \in Workspaces |-> 0]
  /\ gone = {} /\ edits = <<>> /\ sent = 0
  /\ confirm = [d \in Dialogs |-> Closed]
  /\ target = None /\ missed = {}

PageNext ==
  \/ \E w \in Workspaces : Mount(w) \/ GoTo(w) \/ Choose(w)
  \/ Unmount \/ Poll \/ FocusFolder
  \/ RenameItem \/ ReprocessBlob \/ ReprocessFolder
  \/ AddFolder \/ RenameWorkspace \/ ShareWorkspace \/ TakeOwnership
  \/ Capture \/ AddResource
  \/ \E d \in Dialogs, item \in WorkspaceItems : OpenDialog(d, item)
  \/ \E d \in Dialogs : DismissDialog(d) \/ Confirm(d)
  \/ \E i \in DOMAIN loading.fetches : FetchRead(i) \/ FetchAnswered(i) \/ FetchFailed(i)
  \/ \E i \in DOMAIN edits :
       EditApplied(i) \/ EditAnswered(i) \/ CaptureAnswered(i) \/ EditFailed(i)

PageSpec == PageInit /\ [][PageNext]_pageVars

\* Requests are answered, one way or the other.
PageFairness ==
  /\ WF_pageVars(\E i \in DOMAIN loading.fetches : FetchRead(i) \/ FetchAnswered(i) \/ FetchFailed(i))
  /\ WF_pageVars(\E i \in DOMAIN edits :
                   EditApplied(i) \/ EditAnswered(i) \/ CaptureAnswered(i) \/ EditFailed(i))

FairPageSpec == PageSpec /\ PageFairness

(***************************************************************************)
(* Properties.                                                             *)
(***************************************************************************)

\* A workspace that counts as being fetched is being fetched: else a request
\* for it would only be marked, and it could never be fetched again
\* (getWorkspace.ts, idInProgress).
InProgressIsInFlight ==
  loading.inProgress # None
    => \E i \in DOMAIN loading.fetches : loading.fetches[i].workspace = loading.inProgress

\* When all has been answered, the workspace on screen contains every edit,
\* also one that was answered while a fetch had already been read, unless
\* fetches of two workspaces met, something failed, or a document was added
\* from its own page (getWorkspace.ts, idRequestedAgainWhilstInProgress).
EditsAreShown ==
  /\ edits = <<>> /\ loading.fetches = <<>> /\ missed = {}
  /\ loading.shown # Nothing
  => loading.shown.version = versions[loading.shown.workspace]

\* Refuted.  What is shown is of the workspace in the address: a fetch is to be
\* used "only ... if still relevant" (actions/workspaces/getWorkspace.ts:38),
\* but an edit answered after the user has gone to another workspace fetches
\* its own, and a page that is mounted again shows the one from before.
ShownIsOfAddress ==
  address # None /\ loading.shown # Nothing /\ loading.fetches = <<>>
    => loading.shown.workspace = address

\* Refuted.  A workspace the user goes to and stays at is shown, unless its
\* fetch fails: going there while another is being fetched, the answer for
\* the other clears idInProgress, and the one that is "still relevant"
\* (actions/workspaces/getWorkspace.ts:38) is not dispatched.
VisitedIsShown ==
  address # None /\ loading.fetches = <<>> /\ loading.shown = Nothing => "failure" \in missed

\* Refuted.  "This item has been successfully deleted from Giant."
\* (components/workspace/ConfirmModal.tsx:38, 85), but the answer to an
\* earlier deletion says so of the entry whose dialog is open by then.
DoneMeansGone ==
  \A d \in Dialogs : confirm[d].status = "done" => confirm[d].item \in gone

\* Refuted.  What is added goes to a folder of the workspace it is sent to: the
\* choice of another workspace in the dialogs of CaptureFromUrl and
\* AddToWorkspaceModal keeps the folder in focus.
FolderIsOfWorkspace ==
  \A i \in DOMAIN edits :
    edits[i].kind \in {"capture", "add"} => edits[i].folder = edits[i].workspace
==============================================================================
