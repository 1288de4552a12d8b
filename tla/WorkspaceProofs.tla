---------------------------- MODULE WorkspaceProofs ----------------------------
(***************************************************************************)
(* Theorems about WorkspacePage, WorkspaceList, WorkspaceMoves and         *)
(* WorkspaceTree, however many workspaces, entries and drops there are.    *)
(*                                                                         *)
(* getWorkspace never takes a workspace for being fetched when it is not.  *)
(* Given the types, InProgressIsInFlight is inductive: each of the         *)
(* operators that make up a step of getWorkspace preserves it.             *)
(*                                                                         *)
(* Every edit is shown when all has been answered.  EditsAreShown is not   *)
(* inductive: what is being fetched may lack edits.  As long as nothing is *)
(* lost and fetches of two workspaces have not met, there is one fetch at  *)
(* most, and what it has read, or what is shown if there is none, lacks    *)
(* only edits whose answer is yet to ask for it, or is asked for again.    *)
(*                                                                         *)
(* The sidebar comes to list the workspaces there are.  SidebarIsCurrent   *)
(* says nothing of the states in between; the invariant that does is       *)
(* Followed: whoever shall update the sidebar is still to come.            *)
(*                                                                         *)
(* Of the tree on screen: its rows are put together by recursion, from the *)
(* deepest entries up, and the keys go by recursion too.  These recursions *)
(* have solutions because no entry is below itself: LevelledExists and     *)
(* LevelInduction, with the depth of an entry.  TreeInv is inductive.      *)
(***************************************************************************)
EXTENDS WorkspacePage, WorkspaceList, WorkspaceMoves, WorkspaceTree, ListLemmas

Fetches == [workspace : Workspaces, version : Int]
Loadings == [shown : Fetches \cup {Nothing}, getting : BOOLEAN, inProgress : Workspaces \cup {None},
             again : Workspaces \cup {None}, fetches : Seq(Fetches)]
SentEdits == [kind : Kinds, workspace : Workspaces, folder : Workspaces \cup {None},
              item : WorkspaceItems \cup {None}, visit : Int,
              stage : {"sent", "done", "failed"}]

\* The types the proof needs, without the bounds.
PageTypes ==
  /\ address \in Workspaces \cup {None} /\ target \in Workspaces \cup {None}
  /\ visit \in Int
  /\ loading \in Loadings
  /\ versions \in [Workspaces -> Int]
  /\ edits \in Seq(SentEdits)
  /\ confirm \in [Dialogs -> [open : BOOLEAN, item : WorkspaceItems \cup {None}, status : Statuses]]

\* InProgressIsInFlight, of any state of getWorkspace.
InFlight(l) ==
  l.inProgress # None => \E i \in DOMAIN l.fetches : l.fetches[i].workspace = l.inProgress

Sound(l) == l \in Loadings /\ InFlight(l)

PageInv == PageTypes /\ InProgressIsInFlight

-----------------------------------------------------------------------------
(* getWorkspace *)

\* A fetch that is started is in flight, whatever was.
LEMMA OperationSound ==
  ASSUME NEW l \in Loadings, NEW w \in Workspaces,
         l.inProgress = w \/ InFlight(l)
  PROVE  Sound(Operation(l, w)) /\ Operation(l, w).inProgress = l.inProgress
<1> DEFINE e == [workspace |-> w, version |-> Unread]
<1>1. e \in Fetches
  BY DEF Fetches, Unread
<1>2. l.fetches \in Seq(Fetches)
  BY DEF Loadings
<1> DEFINE fs == Append(l.fetches, e)
<1>3. /\ fs \in Seq(Fetches) /\ Len(fs) = Len(l.fetches) + 1 /\ fs[Len(fs)] = e
      /\ \A i \in DOMAIN l.fetches : i \in DOMAIN fs /\ fs[i] = l.fetches[i]
  BY <1>1, <1>2, AppendType
<1>4. Len(fs) \in DOMAIN fs /\ fs[Len(fs)].workspace = w
  BY <1>2, <1>3
<1> HIDE DEF fs
<1>5. Operation(l, w) = [l EXCEPT !.getting = TRUE, !.fetches = fs]
  BY DEF Operation, fs
<1>6. /\ Operation(l, w) \in Loadings
      /\ Operation(l, w).fetches = fs /\ Operation(l, w).inProgress = l.inProgress
  BY <1>3, <1>5 DEF Loadings
<1>7. l.inProgress # None => \E i \in DOMAIN fs : fs[i].workspace = l.inProgress
  BY <1>3, <1>4 DEF InFlight
<1>8. QED
  BY <1>6, <1>7 DEF Sound, InFlight

LEMMA GetWorkspaceSound ==
  ASSUME NEW l, Sound(l), NEW w \in Workspaces, NEW b \in BOOLEAN
  PROVE  Sound(GetWorkspace(l, w, b))
<1> DEFINE c == IF b THEN [l EXCEPT !.shown = Nothing, !.getting = FALSE] ELSE l
<1>1. l \in Loadings /\ InFlight(l)
  BY DEF Sound
<1>2. c \in Loadings /\ c.inProgress = l.inProgress /\ c.fetches = l.fetches
  BY <1>1 DEF Loadings
<1> HIDE DEF c
<1>3. GetWorkspace(l, w, b) =
        IF l.inProgress = w THEN [c EXCEPT !.again = w]
        ELSE Operation([c EXCEPT !.inProgress = w, !.again = None], w)
  BY DEF GetWorkspace, c
<1>4. CASE l.inProgress = w
  <2>1. /\ [c EXCEPT !.again = w] \in Loadings
        /\ [c EXCEPT !.again = w].inProgress = l.inProgress
        /\ [c EXCEPT !.again = w].fetches = l.fetches
    BY <1>2 DEF Loadings
  <2>2. QED
    BY <1>1, <1>3, <1>4, <2>1 DEF Sound, InFlight
<1>5. CASE l.inProgress # w
  <2>1. /\ [c EXCEPT !.inProgress = w, !.again = None] \in Loadings
        /\ [c EXCEPT !.inProgress = w, !.again = None].inProgress = w
    BY <1>2 DEF Loadings
  <2>2. QED
    BY <1>3, <1>5, <2>1, OperationSound
<1>6. QED
  BY <1>4, <1>5

\* What is left once the fetch at i is gone, and what finally then does about it.
LEMMA SettledSound ==
  ASSUME NEW l, Sound(l), NEW i \in DOMAIN l.fetches,
         NEW d \in Loadings, d.inProgress = l.inProgress, d.again = l.again,
         d.fetches = RemoveAt(l.fetches, i)
  PROVE  Sound(Settled(d, l.fetches[i].workspace))
<1> DEFINE w == l.fetches[i].workspace
<1>1. l \in Loadings /\ InFlight(l) /\ l.fetches \in Seq(Fetches)
  BY DEF Sound, Loadings
<1>2. w \in Workspaces
  <2>1. l.fetches[i] \in Fetches
    BY <1>1
  <2>2. QED
    BY <2>1 DEF Fetches
<1>3. d.inProgress = w \/ InFlight(d)
  <2>1. SUFFICES ASSUME l.inProgress # w, l.inProgress # None
                 PROVE  \E j \in DOMAIN d.fetches : d.fetches[j].workspace = l.inProgress
    BY DEF InFlight
  <2>2. PICK k \in DOMAIN l.fetches : l.fetches[k].workspace = l.inProgress
    BY <1>1, <2>1 DEF InFlight
  <2>3. k # i
    BY <2>1, <2>2
  <2>4. \E j \in DOMAIN RemoveAt(l.fetches, i) : RemoveAt(l.fetches, i)[j] = l.fetches[k]
    BY <1>1, <2>3, RemoveAtKeeps
  <2>5. QED
    BY <2>2, <2>4
<1> HIDE DEF w
<1>4. CASE d.again # None /\ d.inProgress = d.again
  <2> DEFINE c == [d EXCEPT !.again = None]
  <2>1. c \in Loadings /\ c.inProgress = d.inProgress /\ c.fetches = d.fetches
    BY DEF Loadings
  <2>2. c.inProgress = w \/ InFlight(c)
    BY <1>3, <2>1 DEF InFlight
  <2>3. Settled(d, w) = Operation(c, w)
    BY <1>4 DEF Settled
  <2> HIDE DEF c
  <2>4. QED
    BY <1>2, <2>1, <2>2, <2>3, OperationSound DEF w
<1>5. CASE ~(d.again # None /\ d.inProgress = d.again)
  <2>1. Settled(d, w) = [d EXCEPT !.inProgress = None]
    BY <1>5 DEF Settled
  <2>2. [d EXCEPT !.inProgress = None] \in Loadings /\ [d EXCEPT !.inProgress = None].inProgress = None
    BY DEF Loadings
  <2>3. QED
    BY <2>1, <2>2 DEF Sound, InFlight, w
<1>6. QED
  BY <1>4, <1>5

-----------------------------------------------------------------------------
(* The steps *)

LEMMA PageInvIsSound == PageTypes => (InProgressIsInFlight <=> Sound(loading))
BY DEF PageTypes, Sound, InFlight, InProgressIsInFlight

LEMMA FetchStep ==
  ASSUME PageInv, NEW i \in DOMAIN loading.fetches,
         FetchRead(i) \/ FetchAnswered(i) \/ FetchFailed(i)
  PROVE  PageInv'
<1> DEFINE f == loading.fetches[i]
<1>1. PageTypes /\ Sound(loading) /\ loading \in Loadings /\ loading.fetches \in Seq(Fetches)
  BY PageInvIsSound DEF PageInv, PageTypes, Loadings
<1>2. f \in Fetches /\ f.workspace \in Workspaces
  <2>1. f \in Fetches
    BY <1>1
  <2>2. QED
    BY <2>1 DEF Fetches
<1>3. UNCHANGED <<address, target, visit, versions, edits, confirm>>
  BY DEF FetchRead, FetchAnswered, FetchFailed
<1>4. SUFFICES Sound(loading')
  BY <1>1, <1>3 DEF PageInv, PageTypes, Sound, InFlight, InProgressIsInFlight
<1>5. RemoveAt(loading.fetches, i) \in Seq(Fetches)
  BY <1>1, RemoveAtOld
<1> DEFINE rest == Dropped(loading, i)
<1>6. /\ rest \in Loadings /\ rest.inProgress = loading.inProgress
      /\ rest.again = loading.again /\ rest.fetches = RemoveAt(loading.fetches, i)
  BY <1>1, <1>5 DEF Dropped, Loadings
<1>7. CASE FetchRead(i)
  <2> DEFINE v == versions[f.workspace]
  <2>1. v \in Int
    BY <1>1, <1>2 DEF PageTypes
  <2> DEFINE g == [f EXCEPT !.version = v]
  <2>2. g \in Fetches /\ g.workspace = f.workspace
    BY <1>2, <2>1 DEF Fetches
  <2> DEFINE fs == [loading.fetches EXCEPT ![i] = g]
  <2>3. loading' = [loading EXCEPT !.fetches = fs]
    BY <1>1, <1>7 DEF FetchRead, Loadings
  <2> HIDE DEF g, v
  <2>4. fs \in Seq(Fetches) /\ DOMAIN fs = DOMAIN loading.fetches
        /\ \A j \in DOMAIN fs : fs[j].workspace = loading.fetches[j].workspace
    BY <1>1, <2>2
  <2> HIDE DEF fs
  <2>5. /\ loading' \in Loadings
        /\ loading'.fetches = fs /\ loading'.inProgress = loading.inProgress
    BY <1>1, <2>3, <2>4 DEF Loadings
  <2>6. QED
    BY <1>1, <2>4, <2>5 DEF Sound, InFlight
<1>8. CASE FetchAnswered(i)
  <2> DEFINE d == Received(loading, i)
  <2>1. d = IF loading.inProgress = f.workspace
              THEN [rest EXCEPT !.shown = f, !.getting = FALSE] ELSE rest
    BY DEF Received
  <2> HIDE DEF rest, f
  <2>2. /\ d \in Loadings /\ d.inProgress = loading.inProgress
        /\ d.again = loading.again /\ d.fetches = RemoveAt(loading.fetches, i)
    BY <1>2, <1>6, <2>1 DEF Loadings
  <2>3. loading' = Settled(d, f.workspace)
    BY <1>8 DEF FetchAnswered, Loads, f
  <2> HIDE DEF d
  <2>4. QED
    BY <1>1, <2>2, <2>3, SettledSound DEF f
<1>9. CASE FetchFailed(i)
  BY <1>1, <1>6, <1>9, SettledSound DEF FetchFailed
<1>10. QED
  BY <1>7, <1>8, <1>9

\* A step that asks getWorkspace, or does not.
LEMMA AskStep ==
  ASSUME PageTypes, InProgressIsInFlight, NEW w \in Workspaces, NEW b \in BOOLEAN,
         loading' = GetWorkspace(loading, w, b) \/ UNCHANGED loading
  PROVE  Sound(loading')
<1>1. Sound(loading)
  BY PageInvIsSound
<1>2. QED
  BY <1>1, GetWorkspaceSound

LEMMA SendStep ==
  ASSUME PageInv, NEW kind \in Kinds, NEW w \in Workspaces, NEW folder \in Workspaces \cup {None},
         NEW item \in WorkspaceItems \cup {None}, Send(kind, w, folder, item)
  PROVE  /\ edits' \in Seq(SentEdits)
         /\ UNCHANGED <<visit, loading, versions>>
<1>1. [kind |-> kind, workspace |-> w, folder |-> folder, item |-> item,
       visit |-> visit, stage |-> "sent"] \in SentEdits
  BY DEF PageInv, PageTypes, SentEdits
<1>2. QED
  BY <1>1, AppendType DEF Send, PageInv, PageTypes

\* What is shown has a workspace to be asked for.
LEMMA ShownType ==
  ASSUME PageTypes, loading.shown # Nothing
  PROVE  loading.shown.workspace \in Workspaces
<1>1. loading.shown \in Fetches
  BY DEF PageTypes, Loadings
<1>2. QED
  BY <1>1 DEF Fetches

\* The rest of the types, when it has been seen what becomes of loading.
LEMMA Conclude ==
  ASSUME Sound(loading'), address' \in Workspaces \cup {None}, target' \in Workspaces \cup {None},
         visit' \in Int, versions' \in [Workspaces -> Int], edits' \in Seq(SentEdits),
         confirm' \in [Dialogs -> [open : BOOLEAN, item : WorkspaceItems \cup {None}, status : Statuses]]
  PROVE  PageInv'
BY DEF PageInv, PageTypes, Sound, InFlight, InProgressIsInFlight

LEMMA VisitStep ==
  ASSUME PageInv,
         \/ \E w \in Workspaces : Mount(w) \/ GoTo(w) \/ Choose(w)
         \/ Unmount \/ Poll \/ FocusFolder
  PROVE  PageInv'
<1>1. PageTypes /\ InProgressIsInFlight /\ Sound(loading)
  BY PageInvIsSound DEF PageInv
<1>2. [d \in Dialogs |-> Closed]
        \in [Dialogs -> [open : BOOLEAN, item : WorkspaceItems \cup {None}, status : Statuses]]
  BY DEF Closed, Statuses
<1>3. ASSUME NEW w \in Workspaces, Mount(w) PROVE PageInv'
  <2>1. Sound(loading')
    BY <1>1, <1>3, AskStep DEF Mount, Loads
  <2>2. QED
    BY <1>1, <1>2, <1>3, <2>1, Conclude DEF Mount, ServerUnchanged, PageTypes
<1>4. ASSUME NEW w \in Workspaces, GoTo(w) PROVE PageInv'
  <2>1. Sound(loading')
    BY <1>1, <1>4, AskStep DEF GoTo, Loads
  <2>2. QED
    BY <1>1, <1>4, <2>1, Conclude DEF GoTo, ServerUnchanged, PageTypes
<1>5. ASSUME NEW w \in Workspaces, Choose(w) PROVE PageInv'
  <2>1. Sound(loading')
    BY <1>1, <1>5, AskStep DEF Choose, Loads
  <2>2. QED
    BY <1>1, <1>5, <2>1, Conclude DEF Choose, ServerUnchanged, PageTypes
<1>6. CASE Poll
  <2>1. Sound(loading')
    BY <1>1, <1>6, AskStep, ShownType DEF Poll, Loads
  <2>2. QED
    BY <1>1, <1>6, <2>1, Conclude DEF Poll, ServerUnchanged, PageTypes
<1>7. CASE Unmount
  BY <1>1, <1>7, Conclude DEF Unmount, ServerUnchanged, PageTypes
<1>8. CASE FocusFolder
  BY <1>1, <1>8, Conclude, ShownType DEF FocusFolder, ServerUnchanged, PageTypes
<1>9. QED
  BY <1>3, <1>4, <1>5, <1>6, <1>7, <1>8

LEMMA UserEditStep ==
  ASSUME PageInv,
         \/ \E kind \in {"entry", "blob"} : EditEntry(kind)
         \/ EditWorkspace
         \/ \E kind \in {"capture", "add"} : AddTo(kind)
         \/ \E d \in Dialogs : Confirm(d)
  PROVE  PageInv'
<1>1. PageTypes /\ Sound(loading)
  BY PageInvIsSound DEF PageInv
<1>2. {"delete", "remove", "entry", "blob", "workspace", "capture", "add"} \subseteq Kinds
  BY DEF Kinds, Dialogs
<1>3. ASSUME NEW kind \in {"entry", "blob"}, EditEntry(kind) PROVE PageInv'
  <2> DEFINE folder == loading.shown.workspace
  <2>1. address \in Workspaces /\ folder \in Workspaces \cup {None} /\ kind \in Kinds
    BY <1>1, <1>2, <1>3, ShownType DEF EditEntry, PageTypes
  <2>2. Send(kind, address, folder, None) /\ UNCHANGED <<address, confirm, target>>
    BY <1>3 DEF EditEntry
  <2> HIDE DEF folder
  <2>3. edits' \in Seq(SentEdits) /\ UNCHANGED <<visit, loading, versions>>
    BY <2>1, <2>2, SendStep
  <2>4. QED
    BY <1>1, <2>2, <2>3, Conclude DEF PageTypes
<1>4. CASE EditWorkspace
  <2>1. edits' \in Seq(SentEdits) /\ UNCHANGED <<visit, loading, versions>>
    BY <1>1, <1>2, <1>4, SendStep, ShownType DEF EditWorkspace
  <2>2. QED
    BY <1>1, <1>4, <2>1, Conclude DEF EditWorkspace, PageTypes
<1>5. ASSUME NEW kind \in {"capture", "add"}, AddTo(kind) PROVE PageInv'
  <2> DEFINE w == loading.shown.workspace
  <2> DEFINE folder == IF target = None THEN w ELSE target
  <2>1. w \in Workspaces /\ folder \in Workspaces \cup {None} /\ kind \in Kinds
    BY <1>1, <1>2, <1>5, ShownType DEF AddTo, PageTypes
  <2>2. Send(kind, w, folder, None) /\ UNCHANGED <<address, confirm, target>>
    BY <1>5 DEF AddTo
  <2> HIDE DEF w, folder
  <2>3. edits' \in Seq(SentEdits) /\ UNCHANGED <<visit, loading, versions>>
    BY <2>1, <2>2, SendStep
  <2>4. QED
    BY <1>1, <2>2, <2>3, Conclude DEF PageTypes
<1>6. ASSUME NEW d \in Dialogs, Confirm(d) PROVE PageInv'
  <2>1. address \in Workspaces /\ d \in Kinds
    BY <1>1, <1>6 DEF Confirm, PageTypes, Kinds
  <2>2. confirm[d] \in [open : BOOLEAN, item : WorkspaceItems \cup {None}, status : Statuses]
    BY <1>1 DEF PageTypes
  <2>3. confirm[d].item \in WorkspaceItems \cup {None}
    BY <2>2
  <2>4. edits' \in Seq(SentEdits) /\ UNCHANGED <<visit, loading, versions>>
    BY <1>6, <2>1, <2>3, SendStep DEF Confirm
  <2>5. [confirm[d] EXCEPT !.status = "doing"]
          \in [open : BOOLEAN, item : WorkspaceItems \cup {None}, status : Statuses]
    BY <2>2 DEF Statuses
  <2>6. confirm' = [confirm EXCEPT ![d] = [confirm[d] EXCEPT !.status = "doing"]]
    BY <1>6 DEF Confirm
  <2>7. confirm' \in [Dialogs -> [open : BOOLEAN, item : WorkspaceItems \cup {None}, status : Statuses]]
    BY <1>1, <2>5, <2>6 DEF PageTypes
  <2>8. QED
    BY <1>1, <1>6, <2>4, <2>7, Conclude DEF Confirm, PageTypes
<1>7. QED
  BY <1>3, <1>4, <1>5, <1>6

LEMMA DialogStep ==
  ASSUME PageInv,
         \/ \E d \in Dialogs, item \in WorkspaceItems : OpenDialog(d, item)
         \/ \E d \in Dialogs : DismissDialog(d)
  PROVE  PageInv'
<1> DEFINE Contexts == [open : BOOLEAN, item : WorkspaceItems \cup {None}, status : Statuses]
<1>1. PageTypes /\ Sound(loading)
  BY PageInvIsSound DEF PageInv
<1>2. PICK d \in Dialogs, c \in Contexts : confirm' = [confirm EXCEPT ![d] = c]
  <2>1. Closed \in Contexts
    BY DEF Closed, Statuses
  <2>2. \A item \in WorkspaceItems :
          [open |-> TRUE, item |-> item, status |-> "unconfirmed"] \in Contexts
    BY DEF Statuses
  <2>3. QED
    BY <2>1, <2>2 DEF OpenDialog, DismissDialog
<1>3. confirm' \in [Dialogs -> Contexts]
  BY <1>1, <1>2 DEF PageTypes
<1>4. UNCHANGED <<address, visit, loading, target, versions, edits>>
  BY DEF OpenDialog, DismissDialog, ServerUnchanged
<1>5. QED
  BY <1>1, <1>3, <1>4, Conclude DEF PageTypes

LEMMA EditStep ==
  ASSUME PageInv, NEW i \in DOMAIN edits,
         EditApplied(i) \/ EditAnswered(i) \/ CaptureAnswered(i) \/ EditFailed(i)
  PROVE  PageInv'
<1> DEFINE Contexts == [open : BOOLEAN, item : WorkspaceItems \cup {None}, status : Statuses]
<1> DEFINE e == edits[i]
<1>1. PageTypes /\ InProgressIsInFlight /\ Sound(loading) /\ edits \in Seq(SentEdits)
  BY PageInvIsSound DEF PageInv, PageTypes
<1>2. e \in SentEdits
  BY <1>1
<1>3. e.workspace \in Workspaces
  BY <1>2 DEF SentEdits
<1>4. RemoveAt(edits, i) \in Seq(SentEdits)
  BY <1>1, RemoveAtOld
<1>5. ASSUME NEW status \in Statuses
      PROVE  Completed(confirm, e, status) \in [Dialogs -> Contexts]
  <2>1. CASE e.kind \in Dialogs /\ e.visit = visit /\ confirm[e.kind].open
    <3>1. confirm[e.kind] \in Contexts
      BY <1>1, <2>1 DEF PageTypes
    <3>2. [confirm[e.kind] EXCEPT !.status = status] \in Contexts
      BY <3>1
    <3>3. Completed(confirm, e, status) =
            [confirm EXCEPT ![e.kind] = [confirm[e.kind] EXCEPT !.status = status]]
      BY <2>1 DEF Completed
    <3>4. QED
      BY <1>1, <3>2, <3>3 DEF PageTypes
  <2>2. CASE ~(e.kind \in Dialogs /\ e.visit = visit /\ confirm[e.kind].open)
    <3>1. Completed(confirm, e, status) = confirm
      BY <2>2 DEF Completed
    <3>2. QED
      BY <1>1, <3>1 DEF PageTypes
  <2>3. QED
    BY <2>1, <2>2
<1>6. {"done", "failed"} \subseteq Statuses
  BY DEF Statuses
<1>7. ASSUME NEW s \in {"done", "failed"}
      PROVE  [edits EXCEPT ![i].stage = s] \in Seq(SentEdits)
  <2>1. [e EXCEPT !.stage = s] \in SentEdits
    BY <1>2 DEF SentEdits
  <2> DEFINE g == [e EXCEPT !.stage = s]
  <2>2. [edits EXCEPT ![i].stage = s] = [edits EXCEPT ![i] = g]
    OBVIOUS
  <2> HIDE DEF g
  <2>3. g \in SentEdits
    BY <2>1 DEF g
  <2>4. QED
    BY <1>1, <2>2, <2>3
<1>8. CASE EditApplied(i)
  <2>1. edits' \in Seq(SentEdits)
    BY <1>7, <1>8 DEF EditApplied
  <2>2. versions' \in [Workspaces -> Int]
    <3> DEFINE c == ChangedBy(e)
    <3>1. versions' = [versions EXCEPT ![c] = @ + 1] \/ UNCHANGED versions
      BY <1>8 DEF EditApplied
    <3> HIDE DEF c
    <3>2. QED
      BY <1>1, <3>1 DEF PageTypes
  <2>3. QED
    BY <1>1, <1>8, <2>1, <2>2, Conclude DEF EditApplied, PageTypes
<1>9. CASE EditAnswered(i)
  <2>1. Sound(loading')
    <3>1. loading' = GetWorkspace(loading, e.workspace, FALSE) \/ UNCHANGED loading
      BY <1>9 DEF EditAnswered, Loads
    <3> HIDE DEF e
    <3>2. QED
      BY <1>1, <1>3, <3>1, AskStep
  <2>2. edits' \in Seq(SentEdits) /\ confirm' \in [Dialogs -> Contexts]
    BY <1>4, <1>5, <1>6, <1>9 DEF EditAnswered
  <2>3. QED
    BY <1>1, <1>9, <2>1, <2>2, Conclude DEF EditAnswered, PageTypes
<1>10. CASE CaptureAnswered(i)
  <2> DEFINE there == IF address = e.workspace THEN loading
                      ELSE GetWorkspace(loading, e.workspace, address # None)
  <2>1. Sound(there)
    <3>1. (address # None) \in BOOLEAN
      OBVIOUS
    <3> HIDE DEF e
    <3>2. QED
      BY <1>1, <1>3, <3>1, GetWorkspaceSound
  <2>2. loading' = GetWorkspace(there, e.workspace, FALSE)
    BY <1>10 DEF CaptureAnswered, Loads
  <2> HIDE DEF there, e
  <2>3. Sound(loading')
    BY <1>3, <2>1, <2>2, GetWorkspaceSound
  <2>4. [d \in Dialogs |-> Closed] \in [Dialogs -> Contexts]
    BY DEF Closed, Statuses
  <2>5. confirm' \in [Dialogs -> Contexts]
    BY <1>1, <1>10, <2>4 DEF CaptureAnswered, PageTypes
  <2>6. visit' \in Int
    BY <1>1, <1>10 DEF CaptureAnswered, PageTypes
  <2>7. /\ edits' \in Seq(SentEdits) /\ address' \in Workspaces \cup {None}
        /\ target' \in Workspaces \cup {None} /\ versions' \in [Workspaces -> Int]
    BY <1>1, <1>3, <1>4, <1>10 DEF CaptureAnswered, PageTypes, e
  <2>8. QED
    BY <2>3, <2>5, <2>6, <2>7, Conclude
<1>11. CASE EditFailed(i)
  <2>1. Sound(loading')
    <3>1. loading' = GetWorkspace(loading, e.workspace, FALSE) \/ UNCHANGED loading
      BY <1>11 DEF EditFailed
    <3> HIDE DEF e
    <3>2. QED
      BY <1>1, <1>3, <3>1, AskStep
  <2>2. edits' \in Seq(SentEdits) /\ confirm' \in [Dialogs -> Contexts]
    BY <1>4, <1>5, <1>6, <1>11 DEF EditFailed
  <2>3. QED
    BY <1>1, <1>11, <2>1, <2>2, Conclude DEF EditFailed, PageTypes
<1>12. QED
  BY <1>8, <1>9, <1>10, <1>11

LEMMA PageStep ==
  ASSUME PageInv, [PageNext]_pageVars
  PROVE  PageInv'
<1>1. CASE PageNext
  <2>1. CASE \/ RenameItem \/ ReprocessBlob \/ ReprocessFolder
             \/ AddFolder \/ RenameWorkspace \/ ShareWorkspace \/ TakeOwnership
             \/ Capture \/ AddResource
    BY <2>1, UserEditStep
       DEF RenameItem, ReprocessBlob, ReprocessFolder, AddFolder, RenameWorkspace,
           ShareWorkspace, TakeOwnership, Capture, AddResource
  <2>2. QED
    BY <1>1, <2>1, VisitStep, UserEditStep, DialogStep, FetchStep, EditStep DEF PageNext
<1>2. CASE UNCHANGED pageVars
  <2>1. Sound(loading)
    BY PageInvIsSound DEF PageInv
  <2>2. QED
    BY <1>2, <2>1, Conclude DEF pageVars, PageInv, PageTypes
<1>3. QED
  BY <1>1, <1>2

LEMMA PageInvStart == PageInit => PageInv
<1> SUFFICES ASSUME PageInit PROVE PageInv
  OBVIOUS
<1>1. loading \in Loadings /\ loading.inProgress = None
  <2>1. <<>> \in Seq(Fetches)
    OBVIOUS
  <2>2. QED
    BY <2>1 DEF PageInit, Loadings
<1>2. edits \in Seq(SentEdits)
  BY DEF PageInit
<1>3. confirm \in [Dialogs -> [open : BOOLEAN, item : WorkspaceItems \cup {None}, status : Statuses]]
  BY DEF PageInit, Closed, Statuses
<1>4. QED
  BY <1>1, <1>2, <1>3 DEF PageInit, PageInv, PageTypes, InProgressIsInFlight

\* Whatever is visited, asked for, edited, answered late or never: a workspace
\* that counts as being fetched is being fetched (getWorkspace.ts, idInProgress).
THEOREM InProgressTrue == PageSpec => []InProgressIsInFlight
<1>1. PageInv => InProgressIsInFlight
  BY DEF PageInv
<1>2. QED
  BY <1>1, PageInvStart, PageStep, PTL DEF PageSpec

-----------------------------------------------------------------------------
(* What is shown *)

\* The answer to an edit that has changed w on the server is still to come; it
\* asks for w, or for the workspace of the address.
Owed(w) == \E i \in DOMAIN edits : edits[i].stage = "done" /\ ChangedBy(edits[i]) = w

Current(c) == c.version = versions[c.workspace] \/ Owed(c.workspace)

\* One fetch at most, of the workspace that counts as being fetched.
OneFetch(l) ==
  \/ l.fetches = <<>> /\ l.inProgress = None /\ l.again = None
  \/ /\ Len(l.fetches) = 1 /\ l.inProgress = l.fetches[1].workspace
     /\ l.again \in {None, l.inProgress}

UpToDate(l) ==
  /\ OneFetch(l)
  /\ l.fetches = <<>> /\ l.shown # Nothing => Current(l.shown)
  /\ l.fetches # <<>> /\ l.again = None /\ l.fetches[1].version # Unread
       => Current(l.fetches[1])

FreshInv == missed = {} => UpToDate(loading)

\* A fetch of w is to read it, or to be followed by one that does.
Asked(l, w) ==
  /\ OneFetch(l) /\ l.fetches # <<>> /\ l.fetches[1].workspace = w
  /\ l.again # None \/ l.fetches[1].version = Unread

LEMMA GetWorkspaceKeeps ==
  ASSUME NEW l \in Loadings, NEW w \in Workspaces, NEW b \in BOOLEAN
  PROVE  GetWorkspace(l, w, b).inProgress = w
BY DEF GetWorkspace, Operation, Loadings

LEMMA OneFetchMeets ==
  ASSUME NEW l \in Loadings, NEW w \in Workspaces, Len(l.fetches) = 1,
         l.fetches[1].workspace # w
  PROVE  Meeting(Operation(l, w)) # {}
<1> DEFINE e == [workspace |-> w, version |-> Unread]
<1> DEFINE fs == Append(l.fetches, e)
<1>1. l.fetches \in Seq(Fetches) /\ e \in Fetches
  BY DEF Loadings, Fetches, Unread
<1>2. 1 \in DOMAIN fs /\ fs[1] = l.fetches[1] /\ 2 \in DOMAIN fs /\ fs[2] = e
  BY <1>1
<1>3. e.workspace = w
  OBVIOUS
<1> HIDE DEF fs, e
<1>4. fs[1] \in Range(fs) /\ fs[2] \in Range(fs) /\ fs[1].workspace # fs[2].workspace
  BY <1>2, <1>3 DEF Range
<1>5. Operation(l, w).fetches = fs
  BY DEF Operation, Loadings, fs, e
<1>6. QED
  BY <1>4, <1>5 DEF Meeting

\* A workspace that is asked for while no other is being fetched.
LEMMA GetWorkspaceAsks ==
  ASSUME NEW l \in Loadings, OneFetch(l), NEW w \in Workspaces, NEW b \in BOOLEAN,
         Meeting(GetWorkspace(l, w, b)) = {}
  PROVE  Asked(GetWorkspace(l, w, b), w)
<1> DEFINE c == IF b THEN [l EXCEPT !.shown = Nothing, !.getting = FALSE] ELSE l
<1>1. /\ c \in Loadings /\ c.inProgress = l.inProgress /\ c.again = l.again
      /\ c.fetches = l.fetches
  BY DEF Loadings
<1> HIDE DEF c
<1>2. GetWorkspace(l, w, b) =
        IF l.inProgress = w THEN [c EXCEPT !.again = w]
        ELSE Operation([c EXCEPT !.inProgress = w, !.again = None], w)
  BY DEF GetWorkspace, c
<1>3. w # None
  BY HomeAssumption
<1>4. CASE l.inProgress = w
  <2> DEFINE r == [c EXCEPT !.again = w]
  <2>1. r.fetches = l.fetches /\ r.inProgress = w /\ r.again = w
    BY <1>1, <1>4 DEF Loadings
  <2>2. Len(l.fetches) = 1 /\ l.fetches # <<>> /\ l.fetches[1].workspace = w
    BY <1>3, <1>4 DEF OneFetch
  <2> HIDE DEF r
  <2>3. Asked(r, w)
    BY <1>3, <2>1, <2>2 DEF Asked, OneFetch
  <2>4. QED
    BY <1>2, <1>4, <2>3 DEF r
<1>5. CASE l.inProgress # w
  <2> DEFINE d == [c EXCEPT !.inProgress = w, !.again = None]
  <2>1. d \in Loadings /\ d.inProgress = w /\ d.again = None /\ d.fetches = l.fetches
    BY <1>1 DEF Loadings
  <2>2. GetWorkspace(l, w, b) = Operation(d, w)
    BY <1>2, <1>5
  <2> HIDE DEF d
  <2>3. l.fetches = <<>>
    <3>1. ASSUME Len(l.fetches) = 1, l.inProgress = l.fetches[1].workspace PROVE FALSE
      BY <1>5, <2>1, <2>2, <3>1, OneFetchMeets
    <3>2. QED
      BY <3>1 DEF OneFetch
  <2> DEFINE e == [workspace |-> w, version |-> Unread]
  <2>4. Append(d.fetches, e) = <<e>>
    BY <2>1, <2>3
  <2>5. Operation(d, w) = [d EXCEPT !.getting = TRUE, !.fetches = <<e>>]
    BY <2>4 DEF Operation
  <2>6. Operation(d, w).fetches = <<e>> /\ Operation(d, w).inProgress = w /\ Operation(d, w).again = None
    BY <2>1, <2>5 DEF Loadings
  <2>7. Len(<<e>>) = 1 /\ <<e>> # <<>> /\ <<e>>[1].workspace = w /\ <<e>>[1].version = Unread
    OBVIOUS
  <2> HIDE DEF e
  <2>8. QED
    BY <2>2, <2>6, <2>7 DEF Asked, OneFetch
<1>6. QED
  BY <1>4, <1>5

\* What has been asked for may be out of date.
LEMMA AskedIsFresh ==
  ASSUME NEW w, missed' = {} => Asked(loading', w)
  PROVE  FreshInv'
BY DEF FreshInv, UpToDate, Asked

LEMMA AskStepFresh ==
  ASSUME PageTypes, FreshInv, NEW w \in Workspaces, NEW b \in BOOLEAN,
         Loads(GetWorkspace(loading, w, b))
  PROVE  FreshInv'
<1>1. ASSUME missed' = {} PROVE Asked(loading', w)
  <2>1. missed = {} /\ Meeting(loading') = {} /\ loading' = GetWorkspace(loading, w, b)
    BY <1>1 DEF Loads
  <2>2. OneFetch(loading) /\ loading \in Loadings
    BY <2>1 DEF FreshInv, UpToDate, PageTypes
  <2>3. QED
    BY <2>1, <2>2, GetWorkspaceAsks
<1>2. QED
  BY <1>1, AskedIsFresh

\* The answers that are owed still are.
StillOwed == \A w \in Workspaces : Owed(w) => Owed(w)'

LEMMA FetchType ==
  ASSUME PageTypes, NEW i \in DOMAIN loading.fetches
  PROVE  loading.fetches[i].workspace \in Workspaces
<1>1. loading.fetches[i] \in Fetches
  BY DEF PageTypes, Loadings
<1>2. QED
  BY <1>1 DEF Fetches

\* What was current is, if only edits that are owed change its workspace.
LEMMA StaysFresh ==
  ASSUME PageTypes, FreshInv, UNCHANGED loading, missed \subseteq missed', StillOwed,
         \A w \in Workspaces : versions'[w] = versions[w] \/ Owed(w)'
  PROVE  FreshInv'
<1>1. SUFFICES ASSUME missed' = {} PROVE UpToDate(loading)'
  BY DEF FreshInv
<1>2. UpToDate(loading)
  BY <1>1 DEF FreshInv
<1>3. ASSUME NEW c, c.workspace \in Workspaces, Current(c)
      PROVE  c.version = versions'[c.workspace] \/ Owed(c.workspace)'
  BY <1>3 DEF Current, StillOwed
<1>4. ASSUME loading.fetches = <<>>, loading.shown # Nothing
      PROVE  Current(loading.shown)'
  <2>1. Current(loading.shown)
    BY <1>2, <1>4 DEF UpToDate
  <2>2. QED
    BY <1>3, <1>4, <2>1, ShownType DEF Current
<1>5. ASSUME loading.fetches # <<>>, loading.again = None, loading.fetches[1].version # Unread
      PROVE  Current(loading.fetches[1])'
  <2>1. Current(loading.fetches[1])
    BY <1>2, <1>5 DEF UpToDate
  <2>2. 1 \in DOMAIN loading.fetches
    BY <1>2, <1>5 DEF UpToDate, OneFetch, PageTypes, Loadings
  <2>3. QED
    BY <1>3, <2>1, <2>2, FetchType DEF Current
<1>6. QED
  BY <1>2, <1>4, <1>5 DEF UpToDate

LEMMA VisitFresh ==
  ASSUME PageInv, FreshInv,
         \/ \E w \in Workspaces : Mount(w) \/ GoTo(w) \/ Choose(w)
         \/ Unmount \/ Poll \/ FocusFolder
  PROVE  FreshInv'
<1>1. PageTypes
  BY DEF PageInv
<1>2. ASSUME NEW w \in Workspaces, Mount(w) \/ GoTo(w) \/ Choose(w) PROVE FreshInv'
  BY <1>1, <1>2, AskStepFresh DEF Mount, GoTo, Choose
<1>3. CASE Poll
  BY <1>1, <1>3, AskStepFresh, ShownType DEF Poll
<1>4. CASE Unmount \/ FocusFolder
  <2>1. UNCHANGED <<loading, missed, edits, versions>>
    BY <1>4 DEF Unmount, FocusFolder, ServerUnchanged
  <2>2. StillOwed
    BY <2>1 DEF StillOwed, Owed
  <2>3. QED
    BY <1>1, <2>1, <2>2, StaysFresh
<1>5. QED
  BY <1>2, <1>3, <1>4

\* An edit that is sent is not owed, and the others still are.
LEMMA SentFresh ==
  ASSUME PageInv, FreshInv,
         \E kind, w, folder, item : Send(kind, w, folder, item)
  PROVE  FreshInv'
<1>1. PageTypes /\ edits \in Seq(SentEdits) /\ UNCHANGED <<loading, missed, versions>>
  BY DEF PageInv, PageTypes, Send
<1>2. PICK e : edits' = Append(edits, e)
  BY DEF Send
<1>3. \A i \in DOMAIN edits : i \in DOMAIN edits' /\ edits'[i] = edits[i]
  BY <1>1, <1>2
<1>4. StillOwed
  BY <1>3 DEF StillOwed, Owed
<1>5. QED
  BY <1>1, <1>4, StaysFresh

LEMMA DialogFresh ==
  ASSUME PageInv, FreshInv,
         \/ \E d \in Dialogs, item \in WorkspaceItems : OpenDialog(d, item)
         \/ \E d \in Dialogs : DismissDialog(d)
         \/ UNCHANGED pageVars
  PROVE  FreshInv'
<1>1. UNCHANGED <<loading, missed, edits, versions>>
  BY DEF OpenDialog, DismissDialog, ServerUnchanged, pageVars
<1>2. StillOwed
  BY <1>1 DEF StillOwed, Owed
<1>3. QED
  BY <1>1, <1>2, StaysFresh DEF PageInv

\* A fetch that is read is current then, and what it has read is when it is shown.
LEMMA FetchFresh ==
  ASSUME PageInv, FreshInv, NEW i \in DOMAIN loading.fetches,
         FetchRead(i) \/ FetchAnswered(i) \/ FetchFailed(i)
  PROVE  FreshInv'
<1> DEFINE f == loading.fetches[i]
<1>1. SUFFICES ASSUME missed' = {} PROVE UpToDate(loading)'
  BY DEF FreshInv
<1>2. missed = {} /\ ~FetchFailed(i)
  BY <1>1 DEF FetchRead, FetchAnswered, FetchFailed, Loads
<1>3. /\ UpToDate(loading) /\ OneFetch(loading) /\ loading \in Loadings
      /\ loading.fetches \in Seq(Fetches)
  BY <1>2 DEF FreshInv, UpToDate, PageInv, PageTypes, Loadings
<1>4. /\ Len(loading.fetches) = 1 /\ i = 1 /\ loading.inProgress = f.workspace
      /\ loading.again \in {None, f.workspace} /\ loading.fetches # <<>>
  BY <1>3 DEF OneFetch
<1>5. f \in Fetches /\ f.workspace \in Workspaces /\ f.workspace # None
  <2>1. f \in Fetches
    BY <1>3
  <2>2. QED
    BY <2>1, HomeAssumption DEF Fetches
<1>6. UNCHANGED <<edits, versions>>
  BY DEF FetchRead, FetchAnswered, FetchFailed
<1>7. CASE FetchRead(i)
  <2> DEFINE g == [f EXCEPT !.version = versions[f.workspace]]
  <2> DEFINE fs == [loading.fetches EXCEPT ![i] = g]
  <2>1. g.workspace = f.workspace /\ g.version = versions[f.workspace]
    BY <1>5 DEF Fetches
  <2>2. loading' = [loading EXCEPT !.fetches = fs]
    BY <1>3, <1>7 DEF FetchRead, Loadings
  <2>3. Len(fs) = 1 /\ fs[1] = g /\ fs # <<>>
    BY <1>3, <1>4
  <2> HIDE DEF fs, g
  <2>4. /\ loading'.fetches = fs /\ loading'.again = loading.again
        /\ loading'.inProgress = f.workspace
    BY <1>3, <1>4, <2>2 DEF Loadings
  <2>5. g.version = versions'[g.workspace]
    BY <1>6, <2>1
  <2> HIDE DEF f
  <2>6. QED
    BY <1>4, <2>1, <2>3, <2>4, <2>5 DEF UpToDate, OneFetch, Current
<1>8. CASE FetchAnswered(i)
  <2> DEFINE r == [loading EXCEPT !.fetches = <<>>, !.shown = f, !.getting = FALSE]
  <2>1. Received(loading, i) = r
    <3>1. RemoveAt(loading.fetches, i) = <<>>
      BY <1>3, <1>4, RemoveAtEntries
    <3>2. QED
      BY <1>3, <1>4, <3>1 DEF Received, Dropped, Loadings
  <2>2. loading' = Settled(r, f.workspace)
    BY <1>8, <2>1 DEF FetchAnswered, Loads
  <2>3. /\ r.fetches = <<>> /\ r.shown = f /\ r.again = loading.again
        /\ r.inProgress = f.workspace /\ r \in Loadings
    <3>1. <<>> \in Seq(Fetches)
      OBVIOUS
    <3>2. QED
      BY <1>3, <1>4, <1>5, <3>1 DEF Loadings
  <2> HIDE DEF r, f
  <2>4. CASE loading.again = None
    <3>1. loading' = [r EXCEPT !.inProgress = None]
      BY <2>2, <2>3, <2>4 DEF Settled
    <3>2. /\ loading'.fetches = <<>> /\ loading'.inProgress = None
          /\ loading'.again = None /\ loading'.shown = f
      BY <2>3, <2>4, <3>1 DEF Loadings
    <3>3. Current(f)
      BY <1>3, <1>4, <1>8, <2>4 DEF UpToDate, FetchAnswered, f
    <3>4. Current(loading.shown)'
      BY <1>6, <3>2, <3>3 DEF Current, Owed
    <3>5. QED
      BY <3>2, <3>4 DEF UpToDate, OneFetch, Current
  <2>5. CASE loading.again = f.workspace
    <3> DEFINE e == [workspace |-> f.workspace, version |-> Unread]
    <3>1. loading' = [r EXCEPT !.again = None, !.getting = TRUE, !.fetches = <<e>>]
      <4>1. Settled(r, f.workspace) = Operation([r EXCEPT !.again = None], f.workspace)
        BY <1>5, <2>3, <2>5 DEF Settled
      <4>2. Append(r.fetches, e) = <<e>>
        BY <2>3
      <4>3. QED
        BY <2>2, <2>3, <4>1, <4>2 DEF Operation, Loadings
    <3>2. /\ loading'.fetches = <<e>> /\ loading'.inProgress = f.workspace
          /\ loading'.again = None
      BY <2>3, <3>1 DEF Loadings
    <3>3. Len(<<e>>) = 1 /\ <<e>> # <<>> /\ <<e>>[1].workspace = f.workspace /\ <<e>>[1].version = Unread
      OBVIOUS
    <3> HIDE DEF e
    <3>4. QED
      BY <3>2, <3>3 DEF UpToDate, OneFetch
  <2>6. QED
    BY <1>4, <2>4, <2>5 DEF f
<1>9. QED
  BY <1>2, <1>7, <1>8

\* Taking out an edit that is not owed leaves those that are.
LEMMA RestOwed ==
  ASSUME PageTypes, NEW i \in DOMAIN edits, edits[i].stage # "done",
         edits' = RemoveAt(edits, i)
  PROVE  StillOwed
<1>1. edits \in Seq(SentEdits)
  BY DEF PageTypes
<1>2. ASSUME NEW w \in Workspaces, Owed(w) PROVE Owed(w)'
  <2>1. PICK k \in DOMAIN edits : edits[k].stage = "done" /\ ChangedBy(edits[k]) = w
    BY <1>2 DEF Owed
  <2>2. \E j \in DOMAIN RemoveAt(edits, i) : RemoveAt(edits, i)[j] = edits[k]
    BY <1>1, <2>1, RemoveAtKeeps
  <2>3. QED
    BY <2>1, <2>2 DEF Owed
<1>3. QED
  BY <1>2 DEF StillOwed

\* An answer asks for the workspace of its edit, which is all that was owed.
LEMMA AnsweredFresh ==
  ASSUME PageInv, FreshInv, NEW i \in DOMAIN edits, EditAnswered(i) \/ CaptureAnswered(i)
  PROVE  FreshInv'
<1> DEFINE w == edits[i].workspace
<1>1. PageTypes /\ loading \in Loadings /\ Sound(loading)
  BY PageInvIsSound DEF PageInv, PageTypes
<1>2. w \in Workspaces
  <2>1. edits[i] \in SentEdits
    BY <1>1 DEF PageTypes
  <2>2. QED
    BY <2>1 DEF SentEdits
<1>3. CASE EditAnswered(i)
  <2>1. CASE edits[i].kind = "add"
    BY <1>3, <2>1 DEF EditAnswered, FreshInv
  <2>2. CASE edits[i].kind # "add"
    <3>1. Loads(GetWorkspace(loading, w, FALSE))
      BY <1>3, <2>2 DEF EditAnswered
    <3> HIDE DEF w
    <3>2. QED
      BY <1>1, <1>2, <3>1, AskStepFresh
  <2>3. QED
    BY <2>1, <2>2
<1>4. CASE CaptureAnswered(i)
  <2> DEFINE there == IF address = w THEN loading ELSE GetWorkspace(loading, w, address # None)
  <2>1. Loads(GetWorkspace(there, w, FALSE))
    BY <1>4 DEF CaptureAnswered
  <2>2. SUFFICES ASSUME missed' = {} PROVE Asked(loading', w)
    BY AskedIsFresh
  <2>3. missed = {} /\ loading' = GetWorkspace(there, w, FALSE) /\ Meeting(loading') = {}
    BY <2>1, <2>2 DEF Loads
  <2>4. OneFetch(loading)
    BY <2>3 DEF FreshInv, UpToDate
  <2>5. CASE address = w
    BY <1>1, <1>2, <2>3, <2>4, <2>5, GetWorkspaceAsks
  <2>6. CASE address # w
    <3>1. there = GetWorkspace(loading, w, address # None) /\ (address # None) \in BOOLEAN
      BY <2>6
    <3> HIDE DEF there, w
    <3>2. there \in Loadings
      BY <1>1, <1>2, <3>1, GetWorkspaceSound DEF Sound
    <3>3. there.inProgress = w
      BY <1>1, <1>2, <3>1, GetWorkspaceKeeps
    <3>4. loading' = [there EXCEPT !.again = w]
      BY <2>3, <3>3 DEF GetWorkspace
    <3>5. loading'.fetches = there.fetches
      BY <3>2, <3>4 DEF Loadings
    <3>6. Meeting(there) = {}
      BY <2>3, <3>5 DEF Meeting
    <3>7. OneFetch(there)
      BY <1>1, <1>2, <2>4, <3>1, <3>6, GetWorkspaceAsks DEF Asked
    <3>8. QED
      BY <1>2, <2>3, <3>2, <3>7, GetWorkspaceAsks
  <2>7. QED
    BY <2>5, <2>6
<1>5. QED
  BY <1>3, <1>4

\* An edit that is made is owed; one that fails after that is a failure that counts.
LEMMA EditFresh ==
  ASSUME PageInv, FreshInv, NEW i \in DOMAIN edits, EditApplied(i) \/ EditFailed(i)
  PROVE  FreshInv'
<1> DEFINE e == edits[i]
<1>1. PageTypes /\ edits \in Seq(SentEdits) /\ versions \in [Workspaces -> Int]
  BY DEF PageInv, PageTypes
<1>2. e.workspace \in Workspaces
  <2>1. e \in SentEdits
    BY <1>1
  <2>2. QED
    BY <2>1 DEF SentEdits
<1>3. CASE EditApplied(i)
  <2>1. UNCHANGED <<loading, missed>> /\ e.stage = "sent"
    BY <1>3 DEF EditApplied
  <2>2. PICK s \in {"done", "failed"} : edits' = [edits EXCEPT ![i].stage = s]
    BY <1>3 DEF EditApplied
  <2>3. \A k \in DOMAIN edits : k \in DOMAIN edits' /\ (k # i => edits'[k] = edits[k])
    BY <1>1, <2>2
  <2>4. StillOwed
    BY <2>1, <2>3 DEF StillOwed, Owed
  <2> PICK c : c = ChangedBy(e)
    OBVIOUS
  <2>5. CASE /\ edits' = [edits EXCEPT ![i].stage = "done"]
             /\ versions' = [versions EXCEPT ![c] = @ + 1]
    <3> DEFINE g == [e EXCEPT !.stage = "done"]
    <3>1. e \in SentEdits
      BY <1>1
    <3>2. edits'[i] = g /\ i \in DOMAIN edits'
      BY <1>1, <2>5
    <3>3. g.stage = "done" /\ ChangedBy(g) = c
      <4> HIDE DEF e
      <4>1. /\ g.stage = "done" /\ g.kind = e.kind /\ g.item = e.item
            /\ g.folder = e.folder /\ g.workspace = e.workspace
        BY <3>1 DEF SentEdits
      <4> HIDE DEF g
      <4>2. QED
        BY <4>1 DEF ChangedBy
    <3> HIDE DEF g
    <3>4. Owed(c)'
      BY <3>2, <3>3 DEF Owed
    <3>5. \A w \in Workspaces : w # c => versions'[w] = versions[w]
      BY <1>1, <2>5
    <3>6. \A w \in Workspaces : versions'[w] = versions[w] \/ Owed(w)'
      BY <3>4, <3>5
    <3>7. QED
      BY <1>1, <2>1, <2>4, <3>6, StaysFresh
  <2>6. CASE UNCHANGED versions
    BY <1>1, <2>1, <2>4, <2>6, StaysFresh
  <2>7. QED
    BY <1>3, <2>5, <2>6 DEF EditApplied
<1>4. CASE EditFailed(i)
  <2>1. CASE e.stage = "done"
    BY <1>4, <2>1 DEF EditFailed, FreshInv
  <2>2. CASE e.stage # "done"
    <3>1. StillOwed
      BY <1>1, <1>4, <2>2, RestOwed DEF EditFailed
    <3>2. UNCHANGED versions /\ missed \subseteq missed'
      BY <1>4 DEF EditFailed
    <3>3. CASE e.kind = "capture"
      <4>1. Loads(GetWorkspace(loading, e.workspace, FALSE))
        <5>1. {m \in {"failure"} : e.stage = "done"} = {}
          BY <2>2
        <5>2. QED
          BY <1>4, <3>3, <5>1 DEF EditFailed, Loads
      <4> HIDE DEF e
      <4>2. QED
        BY <1>1, <1>2, <4>1, AskStepFresh
    <3>4. CASE e.kind # "capture"
      <4>1. UNCHANGED loading
        BY <1>4, <3>4 DEF EditFailed
      <4>2. QED
        BY <1>1, <3>1, <3>2, <4>1, StaysFresh
    <3>5. QED
      BY <3>3, <3>4
  <2>3. QED
    BY <2>1, <2>2
<1>5. QED
  BY <1>3, <1>4

LEMMA FreshStep ==
  ASSUME PageInv, FreshInv, [PageNext]_pageVars
  PROVE  FreshInv'
<1>1. CASE \/ RenameItem \/ ReprocessBlob \/ ReprocessFolder
           \/ AddFolder \/ RenameWorkspace \/ ShareWorkspace \/ TakeOwnership
           \/ Capture \/ AddResource
           \/ \E d \in Dialogs : Confirm(d)
  <2>1. \E kind, w, folder, item : Send(kind, w, folder, item)
    BY <1>1 DEF RenameItem, ReprocessBlob, ReprocessFolder, AddFolder, RenameWorkspace,
                ShareWorkspace, TakeOwnership, Capture, AddResource, AddTo, EditEntry,
                EditWorkspace, Confirm
  <2>2. QED
    BY <2>1, SentFresh
<1>2. QED
  BY <1>1, VisitFresh, DialogFresh, FetchFresh, AnsweredFresh, EditFresh DEF PageNext

\* When all has been answered, the workspace on screen contains every edit, unless
\* something failed, fetches of two workspaces met or a document was added from its own
\* page (getWorkspace.ts, idRequestedAgainWhilstInProgress).
THEOREM EveryEditShown == PageSpec => []EditsAreShown
<1>1. PageInit => FreshInv
  BY DEF PageInit, FreshInv, UpToDate, OneFetch
<1>2. FreshInv => EditsAreShown
  BY DEF FreshInv, UpToDate, Current, Owed, EditsAreShown
<1>3. PageSpec => []PageInv
  BY PageInvStart, PageStep, PTL DEF PageSpec
<1>4. PageInv /\ FreshInv /\ [PageNext]_pageVars => FreshInv'
  BY FreshStep
<1>5. QED
  BY <1>1, <1>2, <1>3, <1>4, PTL DEF PageSpec

-----------------------------------------------------------------------------
(* The sidebar *)

IdLists == [read : BOOLEAN, ids : SUBSET WorkspaceIds]
ListChanges == [kind : {"create", "delete"}, id : WorkspaceIds, done : BOOLEAN]

\* The types the proof needs, without the bounds.
ListTypes ==
  /\ existing \subseteq WorkspaceIds
  /\ lists \in Seq(IdLists)
  /\ changes \in Seq(ListChanges)
  /\ disturbed \in BOOLEAN

\* A change the server has made and whose answer has yet to come: it will ask
\* for the list.
Expected == \E i \in DOMAIN changes : changes[i].done

\* The last list asked for is one that the server has yet to read, or that
\* holds what there is.
LastIsFresh ==
  /\ lists # <<>>
  /\ \/ ~lists[Len(lists)].read
     \/ lists[Len(lists)].ids = existing

Followed ==
  ~disturbed /\ at # Elsewhere =>
    \/ Expected
    \/ LastIsFresh
    \/ lists = <<>> /\ sidebar = existing

ListInv == ListTypes /\ Followed

-----------------------------------------------------------------------------

\* A request for the list makes the last of the lists one yet to be read.
LEMMA ListAskedIsFresh ==
  ASSUME ListTypes, GetWorkspacesMetadata
  PROVE  lists' \in Seq(IdLists) /\ lists' # <<>> /\ ~lists'[Len(lists')].read
<1>1. UnreadList \in IdLists
  BY DEF UnreadList, IdLists
<1>2. QED
  BY <1>1, AppendType DEF ListTypes, GetWorkspacesMetadata, UnreadList

LEMMA AskedManyIsFresh ==
  ASSUME ListTypes, NEW n \in {1, 2}, ListsAsked(n)
  PROVE  lists' \in Seq(IdLists) /\ lists' # <<>> /\ ~lists'[Len(lists')].read
<1>1. UnreadList \in IdLists /\ ~UnreadList.read
  BY DEF UnreadList, IdLists
<1> DEFINE new == [i \in 1..n |-> UnreadList]
<1>2. new \in Seq(IdLists) /\ Len(new) = n /\ \A i \in 1..n : new[i] = UnreadList
  BY <1>1
<1>3. lists \in Seq(IdLists) /\ lists' = lists \o new
  BY DEF ListTypes, ListsAsked
<1> HIDE DEF new
<1>4. lists' \in Seq(IdLists) /\ Len(lists') = Len(lists) + n
      /\ lists'[Len(lists) + n] = new[n]
  BY <1>2, <1>3
<1>5. QED
  BY <1>1, <1>2, <1>4

LEMMA ReadStep ==
  ASSUME ListInv, NEW i \in DOMAIN lists, ListRead(i)
  PROVE  ListInv'
<1>1. [read |-> TRUE, ids |-> existing] \in IdLists
  BY DEF ListInv, ListTypes, IdLists
<1>2. /\ lists \in Seq(IdLists)
      /\ lists' = [lists EXCEPT ![i] = [read |-> TRUE, ids |-> existing]]
      /\ UNCHANGED <<existing, sidebar, at, changes, disturbed>>
  BY DEF ListInv, ListTypes, ListRead
<1>3. /\ lists' \in Seq(IdLists) /\ Len(lists') = Len(lists)
      /\ \A j \in DOMAIN lists : lists'[j] = IF j = i THEN [read |-> TRUE, ids |-> existing] ELSE lists[j]
  BY <1>1, <1>2
<1>4. lists # <<>> /\ Len(lists) \in DOMAIN lists /\ lists' # <<>>
  BY <1>2, <1>3
<1>5. LastIsFresh => LastIsFresh'
  BY <1>2, <1>3, <1>4 DEF LastIsFresh
<1>6. QED
  BY <1>2, <1>3, <1>4, <1>5 DEF ListInv, ListTypes, Followed, Expected

LEMMA AnsweredStep ==
  ASSUME ListInv, NEW i \in DOMAIN lists, ListAnswered(i)
  PROVE  ListInv'
<1>1. /\ lists \in Seq(IdLists) /\ lists' = RemoveAt(lists, i)
      /\ UNCHANGED <<existing, changes>>
      /\ lists[i].read /\ i \in 1..Len(lists)
      /\ at' # Elsewhere => at # Elsewhere /\ sidebar' = lists[i].ids
  <2>1. at' = Redirect(lists[i].ids) /\ lists[i].ids \subseteq WorkspaceIds
    <3>1. lists[i] \in IdLists
      BY DEF ListInv, ListTypes
    <3>2. QED
      BY <3>1 DEF ListAnswered, IdLists
  <2>2. at' # Elsewhere => at # Elsewhere
    BY <2>1, NowhereAssumption DEF Redirect
  <2>3. QED
    BY <2>2 DEF ListInv, ListTypes, ListAnswered
<1>2. /\ lists' \in Seq(IdLists) /\ Len(lists') = Len(lists) - 1
      /\ \A j \in 1..Len(lists) - 1 : lists'[j] = IF j < i THEN lists[j] ELSE lists[j + 1]
  BY <1>1, RemoveAtEntries
<1>3. ListTypes'
  <2>1. disturbed' \in BOOLEAN
    BY DEF ListAnswered
  <2>2. QED
    BY <1>1, <1>2, <2>1 DEF ListInv, ListTypes
<1>4. SUFFICES ASSUME ~disturbed', at' # Elsewhere
               PROVE  Expected' \/ LastIsFresh' \/ (lists' = <<>> /\ sidebar' = existing')
  BY <1>3 DEF ListInv, Followed
<1>5. i = 1 /\ ~disturbed /\ at # Elsewhere /\ lists # <<>>
  <2>1. ~(disturbed \/ i # 1)
    BY <1>4, Zenon DEF ListAnswered
  <2>2. QED
    BY <1>1, <1>4, <2>1
<1>6. Expected \/ LastIsFresh
  BY <1>5 DEF ListInv, Followed
<1>7. CASE Expected
  BY <1>1, <1>7 DEF Expected
<1>8. CASE LastIsFresh /\ Len(lists) = 1
  <2>1. lists' = <<>>
    BY <1>2, <1>8
  <2>2. lists[1].ids = existing
    BY <1>1, <1>5, <1>8 DEF LastIsFresh
  <2>3. QED
    BY <1>1, <1>4, <1>5, <2>1, <2>2
<1>9. CASE LastIsFresh /\ Len(lists) # 1
  <2>1. lists' # <<>> /\ lists'[Len(lists')] = lists[Len(lists)]
    BY <1>1, <1>2, <1>5, <1>9
  <2>2. QED
    BY <1>1, <1>9, <2>1 DEF LastIsFresh
<1>10. QED
  BY <1>6, <1>7, <1>8, <1>9

\* Steps that leave the list in flight alone, and whether one is expected, and
\* show no page that was not shown.
LEMMA QuietStep ==
  ASSUME ListInv, ListTypes', Expected => Expected',
         at' # Elsewhere /\ ~disturbed' => at # Elsewhere /\ ~disturbed,
         UNCHANGED <<existing, lists, sidebar>>
  PROVE  ListInv'
<1>1. LastIsFresh => LastIsFresh'
  BY DEF LastIsFresh
<1>2. QED
  BY <1>1 DEF ListInv, Followed

LEMMA UserStep ==
  ASSUME ListInv,
         \/ \E w \in existing \cup {Nowhere} : Enter(w)
         \/ \E w \in WorkspaceIds \cup {Nowhere} : Open(w)
         \/ Leave \/ DismissModal
         \/ \E id \in WorkspaceIds : CreateWorkspace(id) \/ DeleteWorkspace(id)
  PROVE  ListInv'
<1>1. ListTypes /\ Followed
  BY DEF ListInv
<1>2. ASSUME NEW w \in existing \cup {Nowhere}, Enter(w) PROVE ListInv'
  <2>1. lists' \in Seq(IdLists) /\ LastIsFresh'
    BY <1>1, <1>2, ListAskedIsFresh DEF Enter, LastIsFresh
  <2>2. QED
    BY <1>1, <1>2, <2>1 DEF Enter, ListInv, ListTypes, Followed
<1>3. ASSUME NEW w \in WorkspaceIds \cup {Nowhere}, Open(w) PROVE ListInv'
  BY <1>1, <1>3, QuietStep DEF Open, ListTypes, Expected
<1>4. CASE Leave
  BY <1>1, <1>4, QuietStep DEF Leave, ListTypes, Expected
<1>5. CASE DismissModal
  <2>1. lists' \in Seq(IdLists) /\ LastIsFresh'
    BY <1>1, <1>5, ListAskedIsFresh DEF DismissModal, LastIsFresh
  <2>2. QED
    BY <1>1, <1>5, <2>1 DEF DismissModal, ListInv, ListTypes, Followed
<1>6. ASSUME NEW kind \in {"create", "delete"}, NEW id \in WorkspaceIds, Change(kind, id)
      PROVE  changes' \in Seq(ListChanges) /\ (Expected => Expected')
  <2>1. [kind |-> kind, id |-> id, done |-> FALSE] \in ListChanges
    BY DEF ListChanges
  <2>2. QED
    BY <1>1, <1>6, <2>1, AppendType DEF Change, ListTypes, Expected
<1>7. ASSUME NEW id \in WorkspaceIds, CreateWorkspace(id) PROVE ListInv'
  <2>1. lists' \in Seq(IdLists) /\ LastIsFresh'
    BY <1>1, <1>7, ListAskedIsFresh DEF CreateWorkspace, LastIsFresh
  <2>2. changes' \in Seq(ListChanges)
    BY <1>6, <1>7 DEF CreateWorkspace
  <2>3. QED
    BY <1>1, <1>7, <2>1, <2>2 DEF CreateWorkspace, ListInv, ListTypes, Followed
<1>8. ASSUME NEW id \in WorkspaceIds, DeleteWorkspace(id) PROVE ListInv'
  <2>1. changes' \in Seq(ListChanges) /\ (Expected => Expected')
    BY <1>6, <1>8 DEF DeleteWorkspace
  <2>2. QED
    BY <1>1, <1>8, <2>1, QuietStep DEF DeleteWorkspace, ListTypes
<1>9. QED
  BY <1>2, <1>3, <1>4, <1>5, <1>7, <1>8

LEMMA FailedStep ==
  ASSUME ListInv, NEW i \in DOMAIN lists, ListFailed(i)
  PROVE  ListInv'
<1>1. lists' \in Seq(IdLists)
  BY RemoveAtEntries DEF ListInv, ListTypes, ListFailed
<1>2. QED
  BY <1>1 DEF ListInv, ListTypes, Followed, ListFailed

LEMMA ChangeStep ==
  ASSUME ListInv, NEW i \in DOMAIN changes,
         ChangeDone(i) \/ CreateAnswered(i) \/ DeleteAnswered(i) \/ ChangeFailed(i)
  PROVE  ListInv'
<1>1. ListTypes /\ Followed /\ changes[i] \in ListChanges /\ changes \in Seq(ListChanges)
  BY DEF ListInv, ListTypes
<1>2. RemoveAt(changes, i) \in Seq(ListChanges)
  BY <1>1, RemoveAtOld
<1>3. CASE ChangeDone(i)
  <2>1. [changes[i] EXCEPT !.done = TRUE] \in ListChanges
    BY <1>1 DEF ListChanges
  <2>2. changes' = [changes EXCEPT ![i] = [changes[i] EXCEPT !.done = TRUE]]
    BY <1>3 DEF ChangeDone
  <2>3. changes' \in Seq(ListChanges) /\ i \in DOMAIN changes'
        /\ changes'[i] = [changes[i] EXCEPT !.done = TRUE]
    BY <1>1, <2>1, <2>2
  <2>4. changes'[i].done
    BY <1>1, <2>3 DEF ListChanges
  <2>5. existing' \subseteq WorkspaceIds
    BY <1>1, <1>3 DEF ChangeDone, ListTypes, ListChanges
  <2>6. QED
    BY <1>1, <1>3, <2>3, <2>4, <2>5 DEF ChangeDone, ListInv, ListTypes, Followed, Expected
<1>4. CASE CreateAnswered(i) \/ DeleteAnswered(i)
  <2>1. PICK n \in {1, 2} : ListsAsked(n)
    BY <1>4 DEF CreateAnswered, DeleteAnswered
  <2>2. lists' \in Seq(IdLists) /\ LastIsFresh'
    BY <1>1, <2>1, AskedManyIsFresh DEF LastIsFresh
  <2>3. QED
    BY <1>1, <1>2, <1>4, <2>2
       DEF CreateAnswered, DeleteAnswered, ListInv, ListTypes, Followed
<1>5. CASE ChangeFailed(i)
  <2>1. CASE changes[i].done
    BY <1>1, <1>2, <1>5, <2>1 DEF ChangeFailed, ListInv, ListTypes, Followed
  <2>2. CASE ~changes[i].done
    <3>1. Expected => Expected'
      <4>1. ASSUME NEW j \in DOMAIN changes, changes[j].done PROVE Expected'
        <5>1. changes' = RemoveAt(changes, i) /\ j # i
          BY <1>5, <2>2, <4>1 DEF ChangeFailed
        <5>2. QED
          BY <1>1, <4>1, <5>1, RemoveAtKeeps DEF Expected
      <4>2. QED
        BY <4>1 DEF Expected
    <3>2. disturbed' \in BOOLEAN /\ (disturbed => disturbed')
      BY <1>5 DEF ChangeFailed
    <3>3. QED
      BY <1>1, <1>2, <1>5, <3>1, <3>2, QuietStep DEF ChangeFailed, ListTypes
  <2>3. QED
    BY <2>1, <2>2
<1>6. QED
  BY <1>3, <1>4, <1>5

LEMMA ListStep ==
  ASSUME ListInv, [ListNext]_listVars
  PROVE  ListInv'
<1>1. CASE ListNext
  BY <1>1, UserStep, ReadStep, AnsweredStep, FailedStep, ChangeStep DEF ListNext
<1>2. CASE UNCHANGED listVars
  BY <1>2, QuietStep DEF listVars, ListInv, ListTypes, Expected
<1>3. QED
  BY <1>1, <1>2

\* Whatever the workspaces, the bounds, and the order of the answers: when all
\* has been answered, nothing has failed and no list has overtaken another, the
\* sidebar lists the workspaces there are (createWorkspace.ts,
\* deleteWorkspace.ts, WorkspacesSidebar.tsx).
THEOREM SidebarFollows == ListSpec => []SidebarIsCurrent
<1>1. ListInit => ListInv
  <2>1. <<>> \in Seq(IdLists)
    OBVIOUS
  <2>2. <<>> \in Seq(ListChanges)
    OBVIOUS
  <2>3. QED
    BY <2>1, <2>2 DEF ListInit, ListInv, ListTypes, Followed
<1>2. ListInv => SidebarIsCurrent
  BY DEF ListInv, Followed, Expected, LastIsFresh, SidebarIsCurrent, Quiet
<1>3. QED
  BY <1>1, <1>2, ListStep, PTL DEF ListSpec

(***************************************************************************)
(* Moves: what the page counts is what its drops have left, and whenever   *)
(* the server has moved something since the workspace was asked for, some  *)
(* drop will ask for it: an answer is still to come, or the throttle has a *)
(* call to make when its timer expires.                                    *)
(***************************************************************************)

\* The types the proof needs, without the bounds.
MoveDrops == [page : Nat, parent : MoveIds \cup {Outside}, batches : Seq(BatchStates),
              throttled : BOOLEAN, due : BOOLEAN, timer : BOOLEAN]

OwnOf(d, p) == IF d.page = p THEN LeftIn(d.batches) ELSE 0
LeftOf(ds, p) == SumOf([i \in DOMAIN ds |-> OwnOf(ds[i], p)])

Reminds(d) == d.due \/ \E b \in DOMAIN d.batches : d.batches[b].applied
DropSound(d, p) ==
  /\ d.page <= p /\ (d.due => d.timer)
  /\ \A b \in DOMAIN d.batches : d.batches[b].applied => d.batches[b].ids # <<>>

Progress(moved, done, ds, p) == moved - done = LeftOf(ds, p) /\ (moved = done => moved = 0)

MovesInv ==
  /\ drops \in Seq(MoveDrops)
  /\ beingMoved \in Int /\ settled \in Int /\ page \in Nat
  /\ mounted \in BOOLEAN /\ stale \in BOOLEAN /\ unanswered \in BOOLEAN
  /\ mounted => page # 0 /\ Progress(beingMoved, settled, drops, page)
  /\ \A i \in DOMAIN drops : DropSound(drops[i], page)
  /\ stale => unanswered \/ \E i \in DOMAIN drops : Reminds(drops[i])

LEMMA LeftInIs ==
  ASSUME NEW batches \in Seq(BatchStates)
  PROVE  /\ LeftIn(batches) \in Nat
         /\ \A b \in DOMAIN batches : Len(batches[b].ids) <= LeftIn(batches)
<1> DEFINE s == [b \in DOMAIN batches |-> Len(batches[b].ids)]
<1>1. \A b \in DOMAIN batches : batches[b] \in BatchStates
  OBVIOUS
<1>2. \A b \in DOMAIN batches : Len(batches[b].ids) \in Nat
  BY <1>1 DEF BatchStates
<1>3. s \in Seq(Nat) /\ DOMAIN s = DOMAIN batches
  BY <1>2
<1>4. \A b \in DOMAIN batches : s[b] = Len(batches[b].ids)
  OBVIOUS
<1>5. LeftIn(batches) = SumOf(s)
  BY DEF LeftIn
<1> HIDE DEF s
<1>6. QED
  BY <1>3, <1>4, <1>5, SumCovers

BatchBecomes(batches, next, b, x) ==
  /\ next \in Seq(BatchStates) /\ DOMAIN next = DOMAIN batches
  /\ next[b] = x /\ \A j \in DOMAIN batches : j # b => next[j] = batches[j]
  /\ LeftIn(next) = LeftIn(batches) + Len(x.ids) - Len(batches[b].ids)

LEMMA LeftInUpdated ==
  ASSUME NEW batches \in Seq(BatchStates), NEW b \in DOMAIN batches, NEW x \in BatchStates, NEW next,
         next = [batches EXCEPT ![b] = x]
  PROVE  BatchBecomes(batches, next, b, x)
<1> DEFINE s == [j \in DOMAIN batches |-> Len(batches[j].ids)]
<1> DEFINE t == [j \in DOMAIN next |-> Len(next[j].ids)]
<1>1. /\ next \in Seq(BatchStates) /\ DOMAIN next = DOMAIN batches /\ DOMAIN batches = 1..Len(batches)
      /\ next[b] = x /\ \A j \in DOMAIN batches : j # b => next[j] = batches[j]
  OBVIOUS
<1>2. \A j \in DOMAIN batches : batches[j] \in BatchStates /\ next[j] \in BatchStates
  BY <1>1
<1>3. \A j \in DOMAIN batches : Len(batches[j].ids) \in Int /\ Len(next[j].ids) \in Int
  BY <1>2 DEF BatchStates
<1>4. /\ s \in Seq(Int) /\ t \in Seq(Int) /\ Len(t) = Len(s) /\ b \in 1..Len(s)
      /\ \A j \in 1..Len(s) : j # b => t[j] = s[j]
      /\ s[b] = Len(batches[b].ids) /\ t[b] = Len(x.ids)
  BY <1>1, <1>3
<1>5. LeftIn(batches) = SumOf(s) /\ LeftIn(next) = SumOf(t)
  BY DEF LeftIn
<1> HIDE DEF s, t
<1>6. SumOf(t) = SumOf(s) + t[b] - s[b]
  BY <1>4, SumUpdated
<1>7. QED
  BY <1>1, <1>4, <1>5, <1>6 DEF BatchBecomes

LEMMA OwnIs ==
  ASSUME NEW d \in MoveDrops, NEW p
  PROVE  OwnOf(d, p) \in Nat /\ d.batches \in Seq(BatchStates)
<1>1. d.batches \in Seq(BatchStates)
  BY DEF MoveDrops
<1>2. QED
  BY <1>1, LeftInIs DEF OwnOf

DropBecomes(ds, next, i, d, p) ==
  /\ next \in Seq(MoveDrops) /\ DOMAIN next = DOMAIN ds
  /\ next[i] = d /\ \A j \in DOMAIN ds : j # i => next[j] = ds[j]
  /\ LeftOf(next, p) = LeftOf(ds, p) + OwnOf(d, p) - OwnOf(ds[i], p)
  /\ LeftOf(ds, p) \in Int

LEMMA LeftUpdated ==
  ASSUME NEW ds \in Seq(MoveDrops), NEW i \in DOMAIN ds, NEW d \in MoveDrops, NEW p, NEW next,
         next = [ds EXCEPT ![i] = d]
  PROVE  DropBecomes(ds, next, i, d, p)
<1> DEFINE s == [j \in DOMAIN ds |-> OwnOf(ds[j], p)]
<1> DEFINE t == [j \in DOMAIN next |-> OwnOf(next[j], p)]
<1>1. /\ next \in Seq(MoveDrops) /\ DOMAIN next = DOMAIN ds /\ DOMAIN ds = 1..Len(ds)
      /\ next[i] = d /\ \A j \in DOMAIN ds : j # i => next[j] = ds[j]
  OBVIOUS
<1>2. \A j \in DOMAIN ds : ds[j] \in MoveDrops /\ next[j] \in MoveDrops
  BY <1>1
<1>3. \A j \in DOMAIN ds : OwnOf(ds[j], p) \in Int /\ OwnOf(next[j], p) \in Int
  BY <1>2, OwnIs
<1>4. /\ s \in Seq(Int) /\ t \in Seq(Int) /\ Len(t) = Len(s) /\ i \in 1..Len(s)
      /\ \A j \in 1..Len(s) : j # i => t[j] = s[j]
      /\ s[i] = OwnOf(ds[i], p) /\ t[i] = OwnOf(d, p)
  BY <1>1, <1>3
<1>5. LeftOf(ds, p) = SumOf(s) /\ LeftOf(next, p) = SumOf(t)
  BY DEF LeftOf
<1> HIDE DEF s, t
<1>6. SumOf(t) = SumOf(s) + t[i] - s[i] /\ SumOf(s) \in Int
  BY <1>4, SumUpdated
<1>7. QED
  BY <1>1, <1>4, <1>5, <1>6 DEF DropBecomes

DropFollows(ds, next, d, p) ==
  /\ next \in Seq(MoveDrops) /\ DOMAIN ds \subseteq DOMAIN next
  /\ \A j \in DOMAIN next : IF j \in DOMAIN ds THEN next[j] = ds[j] ELSE next[j] = d
  /\ LeftOf(next, p) = LeftOf(ds, p) + OwnOf(d, p)
  /\ LeftOf(ds, p) \in Int

LEMMA LeftAppended ==
  ASSUME NEW ds \in Seq(MoveDrops), NEW d \in MoveDrops, NEW p, NEW next, next = Append(ds, d)
  PROVE  DropFollows(ds, next, d, p)
<1> DEFINE s == [j \in DOMAIN ds |-> OwnOf(ds[j], p)]
<1> DEFINE t == [j \in DOMAIN next |-> OwnOf(next[j], p)]
<1>1. /\ next \in Seq(MoveDrops) /\ DOMAIN next = 1..(Len(ds) + 1) /\ DOMAIN ds = 1..Len(ds) /\ Len(ds) \in Nat
      /\ next[Len(ds) + 1] = d /\ \A j \in DOMAIN ds : next[j] = ds[j]
  OBVIOUS
<1>2. DOMAIN ds \subseteq DOMAIN next /\ \A j \in DOMAIN next : IF j \in DOMAIN ds THEN next[j] = ds[j] ELSE next[j] = d
  BY <1>1
<1>3. \A j \in DOMAIN ds : OwnOf(ds[j], p) \in Int
  BY OwnIs
<1>4. OwnOf(d, p) \in Int
  BY OwnIs
<1>5. s \in Seq(Int) /\ t = Append(s, OwnOf(d, p))
  <2>1. s \in Seq(Int) /\ Len(s) = Len(ds)
    BY <1>1, <1>3
  <2>2. t = [j \in 1..(Len(ds) + 1) |-> IF j \in 1..Len(ds) THEN OwnOf(ds[j], p) ELSE OwnOf(d, p)]
    BY <1>1, <1>2
  <2>3. QED
    BY <1>1, <1>4, <2>1, <2>2
<1>6. LeftOf(ds, p) = SumOf(s) /\ LeftOf(next, p) = SumOf(t)
  BY DEF LeftOf
<1> HIDE DEF s, t
<1>7. SumOf(t) = SumOf(s) + OwnOf(d, p) /\ SumOf(s) \in Int
  BY <1>4, <1>5, SumAppended
<1>8. QED
  BY <1>1, <1>2, <1>6, <1>7 DEF DropFollows

LEMMA NothingLeft ==
  ASSUME NEW ds \in Seq(MoveDrops), NEW p, \A i \in DOMAIN ds : ds[i].page # p
  PROVE  LeftOf(ds, p) = 0
<1> DEFINE s == [j \in DOMAIN ds |-> OwnOf(ds[j], p)]
<1>1. \A j \in DOMAIN ds : OwnOf(ds[j], p) = 0
  BY DEF OwnOf
<1>2. s \in Seq(Int) /\ \A j \in DOMAIN s : s[j] = 0
  BY <1>1
<1>3. LeftOf(ds, p) = SumOf(s)
  BY DEF LeftOf
<1> HIDE DEF s
<1>4. QED
  BY <1>2, <1>3, SumOfNone

-----------------------------------------------------------------------------
(* Batches *)

LEMMA SliceIs ==
  ASSUME NEW ids \in Seq(MoveIds), NEW i \in Nat
  PROVE  Slice(ids, i) \in Seq(MoveIds)
<1> DEFINE size == (Len(ids) + Batches - 1) \div Batches
<1> DEFINE m == i * size + 1
<1> DEFINE n == IF (i + 1) * size < Len(ids) THEN (i + 1) * size ELSE Len(ids)
<1>1. size \in Nat
  <2>1. Batches \in Nat /\ Batches > 0 /\ Len(ids) + Batches - 1 \in Nat
    BY BatchesAssumption
  <2>2. QED
    BY <2>1
<1> HIDE DEF size
<1>2. i * size \in Nat /\ (i + 1) * size \in Nat
  BY <1>1
<1>3. m \in Nat /\ m >= 1 /\ n \in Nat /\ n <= Len(ids)
  BY <1>2
<1> HIDE DEF m, n
<1>4. \A j \in m..n : ids[j] \in MoveIds
  BY <1>3
<1>5. SubSeq(ids, m, n) \in Seq(MoveIds)
  BY <1>3, <1>4, SubSeqProperties
<1>6. QED
  BY <1>5 DEF Slice, size, m, n

LEMMA StartIs ==
  ASSUME NEW ids \in Seq(MoveIds), NEW parent
  PROVE  Start(ids, parent) \in BatchStates /\ Start(ids, parent).applied = FALSE
BY DEF Start, Skipping, BatchStates

\* A batch goes on with the next entry that has to be sent.
LEMMA GoesIs ==
  ASSUME NEW d \in MoveDrops, NEW b \in DOMAIN d.batches, d.batches[b].ids # <<>>
  PROVE  /\ Goes(d, b) \in MoveDrops /\ Goes(d, b).page = d.page /\ Goes(d, b).due = d.due
         /\ Goes(d, b).timer = d.timer /\ DOMAIN Goes(d, b).batches = DOMAIN d.batches
         /\ ~Goes(d, b).batches[b].applied
         /\ \A j \in DOMAIN d.batches : j # b => Goes(d, b).batches[j] = d.batches[j]
         /\ LeftIn(Goes(d, b).batches) = LeftIn(d.batches) - SettledWith(d, b) /\ SettledWith(d, b) \in Int
<1> DEFINE x == Start(Tail(d.batches[b].ids), d.parent)
<1> DEFINE next == [d.batches EXCEPT ![b] = x]
<1>1. d.batches \in Seq(BatchStates)
  BY DEF MoveDrops
<1>2. d.batches[b] \in BatchStates
  BY <1>1
<1>3. d.batches[b].ids \in Seq(MoveIds)
  BY <1>2 DEF BatchStates
<1>4. Tail(d.batches[b].ids) \in Seq(MoveIds)
  BY <1>3
<1>5. x \in BatchStates /\ ~x.applied
  BY <1>4, StartIs
<1>6. Goes(d, b) = [d EXCEPT !.batches = next]
  BY DEF Goes
<1> HIDE DEF x
<1>7. /\ next \in Seq(BatchStates) /\ DOMAIN next = DOMAIN d.batches
      /\ next[b] = x /\ \A j \in DOMAIN d.batches : j # b => next[j] = d.batches[j]
      /\ LeftIn(next) = LeftIn(d.batches) + Len(x.ids) - Len(d.batches[b].ids)
  <2> DEFINE bs == d.batches
  <2>1. bs \in Seq(BatchStates) /\ b \in DOMAIN bs /\ next = [bs EXCEPT ![b] = x]
    BY <1>1
  <2> HIDE DEF bs, next
  <2>2. BatchBecomes(bs, next, b, x)
    BY <1>5, <2>1, LeftInUpdated
  <2>3. QED
    BY <2>2 DEF BatchBecomes, bs
<1> HIDE DEF next
<1>8. /\ Goes(d, b) \in MoveDrops /\ Goes(d, b).page = d.page /\ Goes(d, b).due = d.due
      /\ Goes(d, b).timer = d.timer /\ Goes(d, b).batches = next
  BY <1>6, <1>7 DEF MoveDrops
<1>9. SettledWith(d, b) = Len(d.batches[b].ids) - Len(x.ids)
  BY <1>7, <1>8 DEF SettledWith
<1>10. Len(x.ids) \in Int /\ Len(d.batches[b].ids) \in Int /\ LeftIn(d.batches) \in Int
  <2>1. x.ids \in Seq(MoveIds)
    BY <1>5 DEF BatchStates
  <2> DEFINE bs == d.batches
  <2>2. bs \in Seq(BatchStates)
    BY <1>1
  <2> HIDE DEF bs
  <2>3. LeftIn(bs) \in Int
    BY <2>2, LeftInIs
  <2>4. QED
    BY <1>3, <2>1, <2>3 DEF bs
<1>11. LeftIn(next) = LeftIn(d.batches) - SettledWith(d, b) /\ SettledWith(d, b) \in Int
  <2> DEFINE l == LeftIn(d.batches)
  <2> DEFINE m == Len(x.ids)
  <2> DEFINE n == Len(d.batches[b].ids)
  <2>1. l \in Int /\ m \in Int /\ n \in Int
    BY <1>10
  <2>2. LeftIn(next) = l + m - n /\ SettledWith(d, b) = n - m
    BY <1>7, <1>9
  <2> HIDE DEF l, m, n
  <2>3. LeftIn(next) = l - SettledWith(d, b) /\ SettledWith(d, b) \in Int
    BY <2>1, <2>2
  <2>4. QED
    BY <2>3 DEF l
<1> DEFINE g == Goes(d, b)
<1> HIDE DEF g
<1>12. g \in MoveDrops /\ g.page = d.page /\ g.due = d.due /\ g.timer = d.timer /\ g.batches = next
  BY <1>8 DEF g
<1>13. /\ DOMAIN g.batches = DOMAIN d.batches /\ ~g.batches[b].applied
       /\ \A j \in DOMAIN d.batches : j # b => g.batches[j] = d.batches[j]
       /\ LeftIn(g.batches) = LeftIn(d.batches) - SettledWith(d, b)
  BY <1>5, <1>7, <1>11, <1>12
<1>14. QED
  BY <1>11, <1>12, <1>13 DEF g

LEMMA CallbackIs ==
  ASSUME NEW d \in MoveDrops, NEW c \in Callback(d)
  PROVE  /\ c.drop \in MoveDrops /\ c.drop.page = d.page /\ c.drop.batches = d.batches
         /\ c.drop.due => c.drop.timer
         /\ c.call \in BOOLEAN /\ (~c.call => c.drop.due)
<1> DEFINE called == [d EXCEPT !.due = FALSE, !.timer = d.throttled]
<1> DEFINE put == [d EXCEPT !.due = TRUE, !.timer = TRUE]
<1>1. c \in {[call |-> TRUE, drop |-> called], [call |-> FALSE, drop |-> put]}
  BY DEF Callback
<1>2. /\ called \in MoveDrops /\ called.page = d.page /\ called.batches = d.batches /\ called.due = FALSE
      /\ put \in MoveDrops /\ put.page = d.page /\ put.batches = d.batches /\ put.due = TRUE /\ put.timer = TRUE
  BY DEF MoveDrops
<1> HIDE DEF called, put
<1>3. CASE c = [call |-> TRUE, drop |-> called]
  <2>1. c.drop = called /\ c.call = TRUE
    BY <1>3
  <2>2. QED
    BY <1>2, <2>1
<1>4. CASE c = [call |-> FALSE, drop |-> put]
  <2>1. c.drop = put /\ c.call = FALSE
    BY <1>4
  <2>2. QED
    BY <1>2, <2>1
<1>5. QED
  BY <1>1, <1>3, <1>4

-----------------------------------------------------------------------------
(* Steps *)

\* The page counts that n entries have settled.
Counted(n) ==
  /\ beingMoved' \in Int /\ settled' \in Int
  /\ mounted => /\ beingMoved' - settled' = beingMoved - settled - n
                /\ beingMoved' = settled' => beingMoved' = 0

LEMMA CountsAre ==
  ASSUME NEW moved \in Int, NEW done \in Int, Counts(moved, done)
  PROVE  /\ beingMoved' \in Int /\ settled' \in Int /\ beingMoved' - settled' = moved - done
         /\ beingMoved' = settled' => beingMoved' = 0
BY DEF Counts

LEMMA CountSettledIs ==
  ASSUME MovesInv, NEW d, NEW n \in Int, CountSettled(d, n)
  PROVE  Counted(IF d.page = page THEN n ELSE 0)
<1>1. beingMoved \in Int /\ settled \in Int /\ (mounted /\ beingMoved = settled => beingMoved = 0)
  BY DEF MovesInv, Progress
<1>2. CASE mounted /\ d.page = page
  <2>1. Counts(beingMoved, settled + n)
    BY <1>2 DEF CountSettled
  <2>2. QED
    BY <1>1, <1>2, <2>1, CountsAre DEF Counted
<1>3. CASE ~(mounted /\ d.page = page)
  <2>1. beingMoved' = beingMoved /\ settled' = settled
    BY <1>3 DEF CountSettled
  <2>2. QED
    BY <1>1, <1>3, <2>1 DEF Counted
<1>4. QED
  BY <1>2, <1>3

LEMMA DropChanged ==
  ASSUME MovesInv, NEW i \in DOMAIN drops, NEW d \in MoveDrops, d.page = drops[i].page, DropSound(d, page),
         drops' = [drops EXCEPT ![i] = d], page' = page, mounted' = mounted,
         Counted(IF d.page = page THEN LeftIn(drops[i].batches) - LeftIn(d.batches) ELSE 0),
         stale' \in BOOLEAN, unanswered' \in BOOLEAN,
         stale' /\ ~unanswered' => Reminds(d) \/ (stale /\ ~unanswered /\ ~Reminds(drops[i]))
  PROVE  MovesInv'
<1>1. drops \in Seq(MoveDrops) /\ drops[i] \in MoveDrops
  BY DEF MovesInv
<1>2. /\ drops' \in Seq(MoveDrops) /\ DOMAIN drops' = DOMAIN drops
      /\ drops'[i] = d /\ \A j \in DOMAIN drops : j # i => drops'[j] = drops[j]
      /\ LeftOf(drops', page) = LeftOf(drops, page) + OwnOf(d, page) - OwnOf(drops[i], page)
      /\ LeftOf(drops, page) \in Int
  <2>1. DropBecomes(drops, drops', i, d, page)
    BY <1>1, LeftUpdated
  <2>2. QED
    BY <2>1 DEF DropBecomes
<1>3. mounted => Progress(beingMoved', settled', drops', page)
  <2>1. SUFFICES ASSUME mounted PROVE Progress(beingMoved', settled', drops', page)
    OBVIOUS
  <2>2. beingMoved - settled = LeftOf(drops, page)
    BY <2>1 DEF MovesInv, Progress
  <2>3. OwnOf(d, page) \in Int /\ OwnOf(drops[i], page) \in Int
    BY <1>1, OwnIs
  <2>4. /\ beingMoved' - settled' = beingMoved - settled - (OwnOf(drops[i], page) - OwnOf(d, page))
        /\ beingMoved' = settled' => beingMoved' = 0
    BY <2>1 DEF Counted, OwnOf
  <2>5. beingMoved' - settled' = LeftOf(drops', page)
    BY <1>2, <2>2, <2>3, <2>4
  <2>6. QED
    BY <2>4, <2>5 DEF Progress
<1>4. \A j \in DOMAIN drops' : DropSound(drops'[j], page)
  BY <1>2 DEF MovesInv
<1>5. stale' => unanswered' \/ \E j \in DOMAIN drops' : Reminds(drops'[j])
  <2>1. SUFFICES ASSUME stale', ~unanswered', ~Reminds(d) PROVE \E j \in DOMAIN drops' : Reminds(drops'[j])
    BY <1>2
  <2>2. PICK j \in DOMAIN drops : Reminds(drops[j])
    BY <2>1 DEF MovesInv
  <2>3. j # i
    BY <2>1, <2>2
  <2>4. QED
    BY <1>2, <2>2, <2>3
<1>6. page \in Nat /\ mounted \in BOOLEAN /\ (mounted => page # 0) /\ beingMoved' \in Int /\ settled' \in Int
  BY DEF MovesInv, Counted
<1>7. QED
  BY <1>2, <1>3, <1>4, <1>5, <1>6 DEF MovesInv

LEMMA DropAdded ==
  ASSUME MovesInv, NEW d \in MoveDrops, DropSound(d, page), drops' = Append(drops, d),
         Counted(-OwnOf(d, page)), UNCHANGED <<page, mounted, stale, unanswered>>
  PROVE  MovesInv'
<1>1. drops \in Seq(MoveDrops)
  BY DEF MovesInv
<1>2. /\ drops' \in Seq(MoveDrops) /\ DOMAIN drops \subseteq DOMAIN drops'
      /\ \A j \in DOMAIN drops' : IF j \in DOMAIN drops THEN drops'[j] = drops[j] ELSE drops'[j] = d
      /\ LeftOf(drops', page) = LeftOf(drops, page) + OwnOf(d, page)
      /\ LeftOf(drops, page) \in Int
  <2>1. DropFollows(drops, drops', d, page)
    BY <1>1, LeftAppended
  <2>2. QED
    BY <2>1 DEF DropFollows
<1>3. mounted => Progress(beingMoved', settled', drops', page)
  <2>1. OwnOf(d, page) \in Int
    BY OwnIs
  <2>2. QED
    BY <1>2, <2>1 DEF MovesInv, Progress, Counted
<1>4. \A j \in DOMAIN drops' : DropSound(drops'[j], page)
  BY <1>2 DEF MovesInv
<1>5. stale => unanswered \/ \E j \in DOMAIN drops' : Reminds(drops'[j])
  <2>1. SUFFICES ASSUME stale, ~unanswered PROVE \E j \in DOMAIN drops' : Reminds(drops'[j])
    OBVIOUS
  <2>2. PICK j \in DOMAIN drops : Reminds(drops[j])
    BY <2>1 DEF MovesInv
  <2>3. j \in DOMAIN drops' /\ drops'[j] = drops[j]
    BY <1>2
  <2>4. QED
    BY <2>2, <2>3
<1>6. page \in Nat /\ mounted \in BOOLEAN /\ (mounted => page # 0) /\ beingMoved' \in Int /\ settled' \in Int
      /\ stale \in BOOLEAN /\ unanswered \in BOOLEAN
  BY DEF MovesInv, Counted
<1>7. QED
  BY <1>2, <1>3, <1>4, <1>5, <1>6 DEF MovesInv

LEMMA DropOnTreeKeeps ==
  ASSUME MovesInv, NEW ids \in Selections, NEW parent \in MoveTargets, DropOnTree(ids, parent)
  PROVE  MovesInv'
<1> DEFINE batches == [i \in 1..Batches |-> Start(Slice(ids, i - 1), parent)]
<1> DEFINE d == [page |-> page, parent |-> parent, batches |-> batches, throttled |-> TRUE,
                 due |-> FALSE, timer |-> FALSE]
<1>1. ids \in Seq(MoveIds) /\ parent \in MoveIds \cup {Outside} /\ Batches \in Nat /\ page \in Nat
      /\ beingMoved \in Int /\ settled \in Int
  BY BatchesAssumption, SelectionsAssumption DEF MovesInv
<1>2. ASSUME NEW i \in 1..Batches
      PROVE  Start(Slice(ids, i - 1), parent) \in BatchStates /\ ~Start(Slice(ids, i - 1), parent).applied
  <2>1. i - 1 \in Nat
    BY <1>1
  <2>2. Slice(ids, i - 1) \in Seq(MoveIds)
    BY <1>1, <2>1, SliceIs
  <2>3. QED
    BY <2>2, StartIs
<1>3. batches \in Seq(BatchStates) /\ \A b \in DOMAIN batches : ~batches[b].applied
  BY <1>1, <1>2
<1>4. /\ drops' = Append(drops, d) /\ Counts(beingMoved + Len(ids), settled + SettledAtOnce(ids, batches))
      /\ UNCHANGED <<page, mounted, stale, unanswered>>
  BY DEF DropOnTree, Add
<1> HIDE DEF batches
<1>5. d \in MoveDrops /\ DropSound(d, page) /\ OwnOf(d, page) = LeftIn(batches)
  BY <1>1, <1>3 DEF MoveDrops, DropSound, OwnOf
<1>6. LeftIn(batches) \in Int /\ Len(ids) \in Int
  BY <1>1, <1>3, LeftInIs
<1>7. SettledAtOnce(ids, batches) = Len(ids) - LeftIn(batches)
  BY DEF SettledAtOnce
<1>8. Counted(-LeftIn(batches))
  <2> DEFINE moved == beingMoved + Len(ids)
  <2> DEFINE done == settled + SettledAtOnce(ids, batches)
  <2>1. moved \in Int /\ done \in Int /\ moved - done = beingMoved - settled - (-LeftIn(batches)) /\ Counts(moved, done)
    BY <1>1, <1>4, <1>6, <1>7
  <2> HIDE DEF moved, done
  <2>2. QED
    BY <2>1, CountsAre DEF Counted
<1> HIDE DEF d
<1>9. QED
  BY <1>4, <1>5, <1>8, DropAdded

LEMMA DropOnSidebarKeeps ==
  ASSUME MovesInv, NEW ids \in Selections, NEW copying \in BOOLEAN, DropOnSidebar(ids, copying)
  PROVE  MovesInv'
<1> DEFINE copies == [i \in DOMAIN ids |-> Start(<<ids[i]>>, Outside)]
<1> DEFINE slices == [i \in 1..Batches |-> Start(Slice(ids, i - 1), Outside)]
<1> DEFINE batches == IF copying THEN copies ELSE slices
<1> DEFINE d == [page |-> 0, parent |-> Outside, batches |-> batches, throttled |-> ~copying,
                 due |-> FALSE, timer |-> FALSE]
<1>1. ids \in Seq(MoveIds) /\ Batches \in Nat /\ page \in Nat /\ beingMoved \in Int /\ settled \in Int
      /\ (mounted => page # 0 /\ (beingMoved = settled => beingMoved = 0))
  BY BatchesAssumption, SelectionsAssumption DEF MovesInv, Progress
<1>2. ASSUME NEW i \in 1..Batches
      PROVE  Start(Slice(ids, i - 1), Outside) \in BatchStates /\ ~Start(Slice(ids, i - 1), Outside).applied
  <2>1. i - 1 \in Nat
    BY <1>1
  <2>2. Slice(ids, i - 1) \in Seq(MoveIds)
    BY <1>1, <2>1, SliceIs
  <2>3. QED
    BY <2>2, StartIs
<1>3. ASSUME NEW i \in DOMAIN ids
      PROVE  Start(<<ids[i]>>, Outside) \in BatchStates /\ ~Start(<<ids[i]>>, Outside).applied
  <2>1. <<ids[i]>> \in Seq(MoveIds)
    BY <1>1
  <2>2. QED
    BY <2>1, StartIs
<1>4. slices \in Seq(BatchStates) /\ \A b \in DOMAIN slices : ~slices[b].applied
  BY <1>1, <1>2
<1>5. copies \in Seq(BatchStates) /\ \A b \in DOMAIN copies : ~copies[b].applied
  <2>1. DOMAIN ids = 1..Len(ids) /\ Len(ids) \in Nat
    BY <1>1
  <2>2. QED
    BY <1>3, <2>1
<1>6. drops' = Append(drops, d) /\ UNCHANGED <<beingMoved, settled, page, mounted, stale, unanswered>>
  BY DEF DropOnSidebar, Add
<1> HIDE DEF slices, copies
<1>7. batches \in Seq(BatchStates) /\ \A b \in DOMAIN batches : ~batches[b].applied
  BY <1>4, <1>5
<1> HIDE DEF batches
<1>8. d \in MoveDrops /\ DropSound(d, page) /\ d.page = 0
  BY <1>1, <1>7 DEF MoveDrops, DropSound
<1> HIDE DEF d
<1>9. OwnOf(d, page) \in Int /\ (mounted => OwnOf(d, page) = 0)
  BY <1>1, <1>8, OwnIs DEF OwnOf
<1>10. Counted(-OwnOf(d, page))
  BY <1>1, <1>6, <1>9 DEF Counted
<1>11. QED
  BY <1>6, <1>8, <1>10, DropAdded

LEMMA DropIs ==
  ASSUME MovesInv, NEW i \in DOMAIN drops
  PROVE  /\ drops[i] \in MoveDrops /\ DropSound(drops[i], page) /\ drops[i].batches \in Seq(BatchStates)
         /\ stale \in BOOLEAN /\ unanswered \in BOOLEAN
<1>1. drops[i] \in MoveDrops
  BY DEF MovesInv
<1>2. QED
  BY <1>1 DEF MovesInv, MoveDrops

LEMMA MoveAppliedKeeps ==
  ASSUME MovesInv, NEW i \in DOMAIN drops, NEW b \in DOMAIN drops[i].batches, MoveApplied(i, b)
  PROVE  MovesInv'
<1> DEFINE old == drops[i]
<1> DEFINE x == [old.batches[b] EXCEPT !.applied = TRUE]
<1> DEFINE next == [old.batches EXCEPT ![b] = x]
<1> DEFINE d == [old EXCEPT !.batches = next]
<1>1. old \in MoveDrops /\ DropSound(old, page) /\ old.batches \in Seq(BatchStates)
  BY DropIs
<1>2. old.batches[b] \in BatchStates /\ old.batches[b].ids # <<>>
  BY <1>1 DEF MoveApplied
<1>3. x \in BatchStates /\ x.ids = old.batches[b].ids /\ x.applied = TRUE
  BY <1>2 DEF BatchStates
<1>4. drops' = [drops EXCEPT ![i] = d] /\ stale' = TRUE
      /\ UNCHANGED <<beingMoved, settled, warns, page, mounted, unanswered>>
  BY DEF MoveApplied
<1> HIDE DEF x
<1>5. BatchBecomes(old.batches, next, b, x)
  <2> DEFINE bs == old.batches
  <2>1. bs \in Seq(BatchStates) /\ b \in DOMAIN bs /\ next = [bs EXCEPT ![b] = x]
    BY <1>1
  <2> HIDE DEF bs, next
  <2>2. BatchBecomes(bs, next, b, x)
    BY <1>3, <2>1, LeftInUpdated
  <2>3. QED
    BY <2>2 DEF bs
<1> HIDE DEF next
<1>6. /\ next \in Seq(BatchStates) /\ DOMAIN next = DOMAIN old.batches
      /\ next[b] = x /\ \A j \in DOMAIN old.batches : j # b => next[j] = old.batches[j]
      /\ LeftIn(next) = LeftIn(old.batches) + Len(x.ids) - Len(old.batches[b].ids)
  BY <1>5 DEF BatchBecomes
<1>7. d \in MoveDrops /\ d.page = old.page /\ d.due = old.due /\ d.timer = old.timer /\ d.batches = next
  BY <1>1, <1>6 DEF MoveDrops
<1> HIDE DEF d
<1>8. DropSound(d, page)
  BY <1>1, <1>2, <1>3, <1>6, <1>7 DEF DropSound
<1>9. LeftIn(old.batches) - LeftIn(d.batches) = 0
  <2>1. Len(x.ids) \in Int
    BY <1>3 DEF BatchStates
  <2>2. LeftIn(old.batches) \in Int
    BY <1>1, LeftInIs
  <2>3. QED
    BY <1>3, <1>6, <1>7, <2>1, <2>2
<1>10. Counted(0)
  BY <1>4 DEF Counted, MovesInv, Progress
<1>11. Reminds(d)
  BY <1>3, <1>6, <1>7 DEF Reminds
<1>12. unanswered' \in BOOLEAN /\ stale' \in BOOLEAN
  BY <1>1, <1>4, DropIs
<1>13. Counted(IF d.page = page THEN LeftIn(old.batches) - LeftIn(d.batches) ELSE 0)
  BY <1>9, <1>10
<1>14. QED
  BY <1>4, <1>7, <1>8, <1>11, <1>12, <1>13, DropChanged

LEMMA MoveAnsweredKeeps ==
  ASSUME MovesInv, NEW i \in DOMAIN drops, NEW b \in DOMAIN drops[i].batches, MoveAnswered(i, b)
  PROVE  MovesInv'
<1> DEFINE old == drops[i]
<1> DEFINE g == Goes(old, b)
<1>1. old \in MoveDrops /\ DropSound(old, page) /\ old.batches \in Seq(BatchStates)
      /\ stale \in BOOLEAN /\ unanswered \in BOOLEAN
  BY DropIs
<1>2. PICK c \in Callback(g) : drops' = [drops EXCEPT ![i] = c.drop] /\ stale' = (stale /\ ~c.call)
  BY DEF MoveAnswered
<1>3. old.batches[b].applied /\ CountSettled(old, SettledWith(old, b)) /\ UNCHANGED <<page, mounted, unanswered>>
  BY DEF MoveAnswered
<1>4. old.batches[b].ids # <<>>
  BY <1>1, <1>3 DEF DropSound
<1> HIDE DEF old
<1>5. b \in DOMAIN old.batches
  BY DEF old
<1>6. /\ g \in MoveDrops /\ g.page = old.page /\ g.due = old.due
      /\ g.timer = old.timer /\ DOMAIN g.batches = DOMAIN old.batches
      /\ ~g.batches[b].applied /\ \A j \in DOMAIN old.batches : j # b => g.batches[j] = old.batches[j]
      /\ LeftIn(g.batches) = LeftIn(old.batches) - SettledWith(old, b) /\ SettledWith(old, b) \in Int
  BY <1>1, <1>4, <1>5, GoesIs
<1> HIDE DEF g
<1> DEFINE d == c.drop
<1>7. d \in MoveDrops /\ d.page = g.page /\ d.batches = g.batches /\ (d.due => d.timer)
      /\ c.call \in BOOLEAN /\ (~c.call => d.due)
  BY <1>2, <1>6, CallbackIs
<1> HIDE DEF d
<1>8. DropSound(d, page)
  BY <1>1, <1>6, <1>7 DEF DropSound
<1>9. Counted(IF d.page = page THEN LeftIn(old.batches) - LeftIn(d.batches) ELSE 0)
  <2>1. Counted(IF old.page = page THEN SettledWith(old, b) ELSE 0)
    BY <1>3, <1>6, CountSettledIs
  <2>2. LeftIn(old.batches) - LeftIn(d.batches) = SettledWith(old, b)
    <3>1. LeftIn(old.batches) \in Int
      BY <1>1, LeftInIs
    <3>2. QED
      BY <1>6, <1>7, <3>1
  <2>3. QED
    BY <1>6, <1>7, <2>1, <2>2
<1>10. stale' => Reminds(d)
  BY <1>2, <1>7 DEF Reminds, d
<1>11. stale' \in BOOLEAN /\ unanswered' \in BOOLEAN /\ page' = page /\ mounted' = mounted
       /\ drops' = [drops EXCEPT ![i] = d]
  BY <1>1, <1>2, <1>3 DEF d
<1>12. d.page = drops[i].page
       /\ Counted(IF d.page = page THEN LeftIn(drops[i].batches) - LeftIn(d.batches) ELSE 0)
  BY <1>6, <1>7, <1>9 DEF old
<1>13. QED
  BY <1>7, <1>8, <1>10, <1>11, <1>12, DropChanged

LEMMA MoveFailedKeeps ==
  ASSUME MovesInv, NEW i \in DOMAIN drops, NEW b \in DOMAIN drops[i].batches, MoveFailed(i, b)
  PROVE  MovesInv'
<1> DEFINE old == drops[i]
<1> DEFINE d == Goes(old, b)
<1>1. old \in MoveDrops /\ DropSound(old, page) /\ old.batches \in Seq(BatchStates)
      /\ stale \in BOOLEAN /\ unanswered \in BOOLEAN
  BY DropIs
<1>2. /\ old.batches[b].ids # <<>> /\ drops' = [drops EXCEPT ![i] = d]
      /\ unanswered' = (unanswered \/ old.batches[b].applied)
      /\ CountSettled(old, SettledWith(old, b)) /\ UNCHANGED <<page, mounted, stale>>
  BY DEF MoveFailed
<1> HIDE DEF old
<1>3. b \in DOMAIN old.batches
  BY DEF old
<1>4. /\ d \in MoveDrops /\ d.page = old.page /\ d.due = old.due
      /\ d.timer = old.timer /\ DOMAIN d.batches = DOMAIN old.batches
      /\ ~d.batches[b].applied /\ \A j \in DOMAIN old.batches : j # b => d.batches[j] = old.batches[j]
      /\ LeftIn(d.batches) = LeftIn(old.batches) - SettledWith(old, b) /\ SettledWith(old, b) \in Int
  BY <1>1, <1>2, <1>3, GoesIs
<1> HIDE DEF d
<1>5. DropSound(d, page)
  BY <1>1, <1>4 DEF DropSound
<1>6. Counted(IF d.page = page THEN LeftIn(old.batches) - LeftIn(d.batches) ELSE 0)
  <2>1. Counted(IF old.page = page THEN SettledWith(old, b) ELSE 0)
    BY <1>2, <1>4, CountSettledIs
  <2>2. LeftIn(old.batches) - LeftIn(d.batches) = SettledWith(old, b)
    <3>1. LeftIn(old.batches) \in Int
      BY <1>1, LeftInIs
    <3>2. QED
      BY <1>4, <3>1
  <2>3. QED
    BY <1>4, <2>1, <2>2
<1>7. unanswered' \in BOOLEAN
  <2>1. old.batches[b] \in BatchStates
    BY <1>1, <1>3
  <2>2. QED
    BY <1>1, <1>2, <2>1 DEF BatchStates
<1>8. stale' /\ ~unanswered' => Reminds(d) \/ (stale /\ ~unanswered /\ ~Reminds(old))
  BY <1>2, <1>4 DEF Reminds
<1>9. stale' \in BOOLEAN /\ page' = page /\ mounted' = mounted /\ drops' = [drops EXCEPT ![i] = d]
  BY <1>1, <1>2
<1>10. QED
  BY <1>4, <1>5, <1>6, <1>7, <1>8, <1>9, DropChanged DEF old

LEMMA TimerExpiresKeeps ==
  ASSUME MovesInv, NEW i \in DOMAIN drops, TimerExpires(i)
  PROVE  MovesInv'
<1> DEFINE old == drops[i]
<1> DEFINE d == [old EXCEPT !.timer = FALSE, !.due = FALSE]
<1>1. old \in MoveDrops /\ DropSound(old, page) /\ old.batches \in Seq(BatchStates)
      /\ stale \in BOOLEAN /\ unanswered \in BOOLEAN
  BY DropIs
<1>2. drops' = [drops EXCEPT ![i] = d]
  <2>1. i \in DOMAIN drops /\ drops' = [drops EXCEPT ![i].timer = FALSE, ![i].due = FALSE]
    BY DEF TimerExpires
  <2>2. QED
    BY <2>1
<1>3. stale' = (stale /\ ~old.due) /\ UNCHANGED <<beingMoved, settled, warns, page, mounted, unanswered>>
  BY DEF TimerExpires
<1>4. d \in MoveDrops /\ d.page = old.page /\ d.batches = old.batches /\ d.due = FALSE
  BY <1>1 DEF MoveDrops
<1> HIDE DEF d
<1>5. DropSound(d, page)
  BY <1>1, <1>4 DEF DropSound
<1>6. Counted(IF d.page = page THEN LeftIn(old.batches) - LeftIn(d.batches) ELSE 0)
  <2>1. LeftIn(old.batches) - LeftIn(d.batches) = 0
    BY <1>1, <1>4, LeftInIs
  <2>2. Counted(0)
    BY <1>3 DEF Counted, MovesInv, Progress
  <2>3. QED
    BY <2>1, <2>2
<1>7. stale' /\ ~unanswered' => Reminds(d) \/ (stale /\ ~unanswered /\ ~Reminds(old))
  BY <1>3, <1>4 DEF Reminds
<1>8. stale' \in BOOLEAN /\ unanswered' \in BOOLEAN
  <2>1. old.due \in BOOLEAN
    BY <1>1 DEF MoveDrops
  <2>2. QED
    BY <1>1, <1>3, <2>1
<1>9. QED
  BY <1>2, <1>3, <1>4, <1>5, <1>6, <1>7, <1>8, DropChanged

LEMMA OpenPageKeeps ==
  ASSUME MovesInv, OpenPage
  PROVE  MovesInv'
<1>1. /\ mounted' = TRUE /\ page' = page + 1 /\ beingMoved' = 0 /\ settled' = 0 /\ stale' = FALSE
      /\ drops' = drops /\ unanswered' = unanswered
  BY DEF OpenPage
<1>2. drops \in Seq(MoveDrops) /\ page \in Nat /\ \A i \in DOMAIN drops : DropSound(drops[i], page) /\ drops[i].page \in Nat
  <2>1. \A i \in DOMAIN drops : drops[i] \in MoveDrops
    BY DropIs
  <2>2. QED
    BY <2>1 DEF MovesInv, MoveDrops
<1>3. \A i \in DOMAIN drops : DropSound(drops[i], page + 1) /\ drops[i].page # page + 1
  BY <1>2 DEF DropSound
<1>4. LeftOf(drops, page + 1) = 0
  <2> DEFINE p == page + 1
  <2>1. \A i \in DOMAIN drops : drops[i].page # p
    BY <1>3
  <2> HIDE DEF p
  <2>2. LeftOf(drops, p) = 0
    BY <1>2, <2>1, NothingLeft
  <2>3. QED
    BY <2>2 DEF p
<1>5. Progress(0, 0, drops, page + 1)
  BY <1>4 DEF Progress
<1>6. unanswered \in BOOLEAN
  BY DEF MovesInv
<1>7. /\ Progress(beingMoved', settled', drops', page') /\ page' # 0 /\ page' \in Nat
      /\ beingMoved' \in Int /\ settled' \in Int
  BY <1>1, <1>2, <1>5
<1>8. drops' \in Seq(MoveDrops) /\ \A i \in DOMAIN drops' : DropSound(drops'[i], page')
  BY <1>1, <1>2, <1>3
<1>9. mounted' \in BOOLEAN /\ stale' \in BOOLEAN /\ unanswered' \in BOOLEAN /\ ~stale'
  BY <1>1, <1>6
<1>10. QED
  BY <1>7, <1>8, <1>9 DEF MovesInv

LEMMA LeavePageKeeps ==
  ASSUME MovesInv, LeavePage
  PROVE  MovesInv'
BY DEF MovesInv, LeavePage

LEMMA MovesNextKeeps ==
  ASSUME MovesInv, MovesNext
  PROVE  MovesInv'
BY DropOnTreeKeeps, DropOnSidebarKeeps, MoveAppliedKeeps, MoveAnsweredKeeps, MoveFailedKeeps, TimerExpiresKeeps,
   OpenPageKeeps, LeavePageKeeps DEF MovesNext

LEMMA MovesStutter ==
  ASSUME MovesInv, UNCHANGED movesVars
  PROVE  MovesInv'
BY DEF MovesInv, movesVars

LEMMA MovesInitially == MovesInit => MovesInv
<1> SUFFICES ASSUME MovesInit PROVE MovesInv
  OBVIOUS
<1>1. /\ drops = <<>> /\ beingMoved = 0 /\ settled = 0 /\ page = 0 /\ mounted = FALSE /\ stale = FALSE
      /\ unanswered = FALSE
  BY DEF MovesInit
<1>2. drops \in Seq(MoveDrops) /\ \A i \in DOMAIN drops : DropSound(drops[i], page)
  BY <1>1
<1>3. beingMoved \in Int /\ settled \in Int /\ page \in Nat
  BY <1>1
<1>4. mounted \in BOOLEAN /\ stale \in BOOLEAN /\ unanswered \in BOOLEAN /\ ~mounted /\ ~stale
  BY <1>1
<1>5. QED
  BY <1>2, <1>3, <1>4 DEF MovesInv

LEMMA MovesInvHolds == MovesSpec => []MovesInv
<1>1. MovesInv /\ [MovesNext]_movesVars => MovesInv'
  BY MovesNextKeeps, MovesStutter
<1>2. QED
  BY <1>1, MovesInitially, PTL DEF MovesSpec

LEMMA MovesFollowed == MovesInv => MovesAreFollowed
<1> SUFFICES ASSUME MovesInv PROVE MovesAreFollowed
  OBVIOUS
<1>1. ProgressIsWhatIsLeft
  <2>1. SUFFICES ASSUME mounted
                 PROVE  /\ beingMoved - settled = LeftOf(drops, page)
                        /\ LeftOf(drops, page) = 0 => beingMoved = 0
    BY DEF ProgressIsWhatIsLeft, LeftOf, OwnOf, Own, Pending
  <2>2. QED
    BY <2>1 DEF MovesInv, Progress
<1>2. RefreshedAfterMoves
  <2>1. SUFFICES ASSUME \A i \in DOMAIN drops : Pending(i) = 0 /\ ~drops[i].timer, stale, ~unanswered
                 PROVE  FALSE
    BY DEF RefreshedAfterMoves
  <2>2. PICK i \in DOMAIN drops : Reminds(drops[i])
    BY <2>1 DEF MovesInv
  <2>3. DropSound(drops[i], page) /\ drops[i].batches \in Seq(BatchStates)
    BY DropIs
  <2>4. PICK b \in DOMAIN drops[i].batches : drops[i].batches[b].applied
    BY <2>1, <2>2, <2>3 DEF DropSound, Reminds
  <2> DEFINE batches == drops[i].batches
  <2>5. batches[b].ids # <<>> /\ batches \in Seq(BatchStates) /\ b \in DOMAIN batches
    BY <2>3, <2>4 DEF DropSound
  <2>6. LeftIn(batches) = 0
    BY <2>1 DEF Pending
  <2> HIDE DEF batches
  <2>7. Len(batches[b].ids) <= 0
    BY <2>5, <2>6, LeftInIs
  <2>8. batches[b] \in BatchStates
    BY <2>5
  <2>9. batches[b].ids \in Seq(MoveIds)
    BY <2>8 DEF BatchStates
  <2>10. QED
    BY <2>5, <2>7, <2>9
<1>3. QED
  BY <1>1, <1>2 DEF MovesAreFollowed

(* The progress of a page counts what its drops have left, whatever fails  *)
(* or is dropped meanwhile, and the workspace is asked for after the last  *)
(* move, unless an answer was lost (onMoveItems, moveItems, copyItem).     *)
THEOREM MovesAreFollowedAlways == MovesSpec => []MovesAreFollowed
BY MovesInvHolds, MovesFollowed, PTL

-----------------------------------------------------------------------------
(* Recursion over levels *)

\* A recursive function that asks for itself at places of a lower level only.
AsksLower(D, V, level, step) ==
  /\ \A f \in [D -> V], n \in D : step[<<n, f>>] \in V
  /\ \A f, g \in [D -> V], n \in D :
       (\A m \in D : level[m] < level[n] => f[m] = g[m]) => step[<<n, f>>] = step[<<n, g>>]
Solves(f, D, step) == \A n \in D : f[n] = step[<<n, f>>]

LEMMA LevelledExists ==
  ASSUME NEW K \in Nat, NEW D, NEW V, NEW v0 \in V, NEW level \in [D -> 0..K], NEW step,
         AsksLower(D, V, level, step)
  PROVE  \E f \in [D -> V] : Solves(f, D, step)
<1>0. /\ \A f \in [D -> V], n \in D : step[<<n, f>>] \in V
      /\ \A f, g \in [D -> V], n \in D :
           (\A m \in D : level[m] < level[n] => f[m] = g[m]) => step[<<n, f>>] = step[<<n, g>>]
  BY DEF AsksLower
<1> DEFINE So(f, k) == \A n \in D : level[n] < k => f[n] = step[<<n, f>>]
<1> DEFINE T == {k \in Nat : \E f \in [D -> V] : So(f, k)}
<1>1. \A n \in D : level[n] \in Nat /\ level[n] < K + 1
  OBVIOUS
<1>2. 0 \in T
  <2> DEFINE f == [n \in D |-> v0]
  <2>1. f \in [D -> V]
    OBVIOUS
  <2>2. So(f, 0)
    BY <1>1
  <2>3. QED
    BY <2>1, <2>2
<1>3. ASSUME NEW k \in Nat, k \in T PROVE k + 1 \in T
  <2>1. PICK f \in [D -> V] : \A n \in D : level[n] < k => f[n] = step[<<n, f>>]
    BY <1>3
  <2> DEFINE g == [n \in D |-> IF level[n] < k THEN f[n] ELSE step[<<n, f>>]]
  <2>2. g \in [D -> V]
    BY <1>0
  <2>3. ASSUME NEW n \in D, level[n] < k + 1 PROVE g[n] = step[<<n, g>>]
    <3>1. \A m \in D : level[m] < level[n] => g[m] = f[m]
      BY <1>1, <2>3
    <3>2. step[<<n, g>>] = step[<<n, f>>]
      <4> HIDE DEF g
      <4>1. QED
        BY <1>0, <2>2, <3>1
    <3>3. g[n] = step[<<n, f>>]
      BY <2>1
    <3>4. QED
      BY <3>2, <3>3
  <2> HIDE DEF g
  <2>4. QED
    BY <2>2, <2>3
<1> HIDE DEF T
<1>4. K + 1 \in T
  BY <1>2, <1>3, Induction
<1>5. PICK f \in [D -> V] : So(f, K + 1)
  BY <1>4 DEF T
<1>6. QED
  BY <1>1, <1>5 DEF Solves

LEMMA LevelInduction ==
  ASSUME NEW D, NEW level \in [D -> Nat], NEW T,
         \A n \in D : (\A m \in D : level[m] < level[n] => m \in T) => n \in T
  PROVE  D \subseteq T
<1> DEFINE L == {level[n] : n \in D \ T}
<1>1. SUFFICES ASSUME D \ T # {} PROVE FALSE
  OBVIOUS
<1>2. L \subseteq Nat /\ L # {}
  BY <1>1
<1>3. PICK k \in L : \A y \in L : k <= y
  <2> HIDE DEF L
  <2>1. QED
    BY <1>2, Least
<1>4. PICK n \in D \ T : k = level[n]
  BY <1>3
<1>5. ASSUME NEW m \in D, level[m] < level[n] PROVE m \in T
  <2>1. SUFFICES ASSUME m \notin T PROVE FALSE
    OBVIOUS
  <2>2. level[m] \in L /\ level[m] \in Nat /\ level[n] \in Nat
    BY <2>1
  <2>3. QED
    BY <1>3, <1>4, <1>5, <2>2
<1>6. QED
  BY <1>4, <1>5

-----------------------------------------------------------------------------
(* What is left of a list, and lists put together *)

Distinct(s) == \A i, j \in DOMAIN s : s[i] = s[j] => i = j

\* Entries of r are those of s at n places or fewer, each of them once.
Picks(r, s, keep, n) ==
  \E place \in [DOMAIN r -> 1..n] :
    /\ \A i, j \in DOMAIN r : place[i] = place[j] => i = j
    /\ \A i \in DOMAIN r : r[i] = s[place[i]] /\ r[i] \in keep

LEMMA PicksOneMore ==
  ASSUME NEW S, NEW s \in Seq(S), NEW keep, NEW n \in 1..Len(s), NEW r \in Seq(S), Picks(r, s, keep, n - 1)
  PROVE  Picks(r, s, keep, n) /\ (s[n] \in keep => Picks(Append(r, s[n]), s, keep, n))
<1>1. PICK place \in [DOMAIN r -> 1..(n - 1)] :
        /\ \A i, j \in DOMAIN r : place[i] = place[j] => i = j
        /\ \A i \in DOMAIN r : r[i] = s[place[i]] /\ r[i] \in keep
  BY DEF Picks
<1>2. n \in Nat /\ \A k \in 1..(n - 1) : k \in 1..n /\ k # n
  OBVIOUS
<1>3. place \in [DOMAIN r -> 1..n]
  BY <1>2
<1>4. Picks(r, s, keep, n)
  BY <1>1, <1>3 DEF Picks
<1>5. ASSUME s[n] \in keep PROVE Picks(Append(r, s[n]), s, keep, n)
  <2> DEFINE u == Append(r, s[n])
  <2> DEFINE a == [i \in DOMAIN u |-> IF i \in DOMAIN r THEN place[i] ELSE n]
  <2>1. /\ DOMAIN r \subseteq DOMAIN u /\ \A i \in DOMAIN r : u[i] = r[i]
        /\ \A i \in DOMAIN u \ DOMAIN r : i = Len(r) + 1 /\ u[i] = s[n]
    OBVIOUS
  <2> HIDE DEF u
  <2>2. \A i \in DOMAIN u : a[i] = IF i \in DOMAIN r THEN place[i] ELSE n
    OBVIOUS
  <2>3. a \in [DOMAIN u -> 1..n]
    <3>1. n \in 1..n
      BY <1>2
    <3>2. QED
      BY <1>3, <3>1
  <2> HIDE DEF a
  <2>4. ASSUME NEW i \in DOMAIN u, NEW j \in DOMAIN u, a[i] = a[j] PROVE i = j
    BY <1>1, <1>2, <2>1, <2>2, <2>4
  <2>5. ASSUME NEW i \in DOMAIN u PROVE u[i] = s[a[i]] /\ u[i] \in keep
    BY <1>1, <1>5, <2>1, <2>2
  <2>6. Picks(u, s, keep, n)
    BY <2>3, <2>4, <2>5 DEF Picks
  <2>7. QED
    BY <2>6 DEF u
<1>6. QED
  BY <1>4, <1>5

\* A filter keeps the order and what it keeps, and each entry once.
LEMMA ThoseIs ==
  ASSUME NEW S, NEW s \in Seq(S), NEW keep
  PROVE  Those(s, keep) \in Seq(S) /\ Picks(Those(s, keep), s, keep, Len(s))
<1> DEFINE N == Len(s)
<1> DEFINE D == 0..N
<1> DEFINE V == Seq(S)
<1> DEFINE Next1(v, k) == IF s[k] \in keep THEN Append(v, s[k]) ELSE v
<1> DEFINE step == [x \in (1..N) \X V |-> Next1(x[2], x[1])]
<1> DEFINE Body(f) == [k \in D |-> IF k = 0 THEN <<>> ELSE Next1(f[k - 1], k)]
<1> DEFINE m == CHOOSE f : f = Body(f)
<1>1. N \in Nat /\ <<>> \in V /\ \A k \in 1..N : s[k] \in S
  OBVIOUS
<1>2. \A k \in 1..N : \A v \in V : step[<<k, v>>] = Next1(v, k) /\ step[<<k, v>>] \in V
  BY <1>1
<1>3. \E f \in [0..N -> V] : Folds(f, N, <<>>, step)
  <2>1. StaysIn(N, V, step)
    BY <1>2 DEF StaysIn
  <2>2. N \in Nat /\ <<>> \in V
    BY <1>1
  <2> HIDE DEF N, V, step
  <2>3. QED
    BY <2>1, <2>2, FoldExists
<1>4. PICK f \in [0..N -> V] : f[0] = <<>> /\ \A k \in 1..N : f[k] = step[<<k, f[k - 1]>>]
  BY <1>3 DEF Folds
<1> HIDE DEF V
<1>5. \A k \in 1..N : f[k] = Next1(f[k - 1], k)
  <2>1. \A k \in 1..N : k - 1 \in 0..N
    BY <1>1
  <2> HIDE DEF step, N, Next1
  <2>2. QED
    BY <1>2, <1>4, <2>1
<1>6. f = Body(f)
  <2>1. \A k \in D : f[k] = IF k = 0 THEN <<>> ELSE Next1(f[k - 1], k)
    <3>1. \A k \in D : k # 0 => k \in 1..N
      BY <1>1
    <3> HIDE DEF D, Next1, N
    <3>2. QED
      BY <1>4, <1>5, <3>1
  <2>2. f = [k \in D |-> f[k]]
    BY <1>4
  <2> HIDE DEF D, Next1
  <2>3. QED
    BY <2>1, <2>2
<1>7. m = Body(m)
  <2> HIDE DEF Body
  <2>1. QED
    BY <1>6
<1>8. Those(s, keep) = m[N]
  BY DEF Those
<1> HIDE DEF m
<1>9. m[0] = <<>> /\ \A k \in 1..N : m[k] = Next1(m[k - 1], k)
  <2>1. 0 \in D /\ \A k \in 1..N : k \in D /\ k # 0
    BY <1>1
  <2> HIDE DEF D, N, Next1
  <2>2. QED
    BY <1>7, <2>1
<1>10. \A k \in D : m[k] \in Seq(S) /\ Picks(m[k], s, keep, k)
  <2> DEFINE T == {k \in D : m[k] \in Seq(S) /\ Picks(m[k], s, keep, k)}
  <2>1. 0 \in T
    <3>1. Picks(<<>>, s, keep, 0)
      <4> DEFINE place == <<>>
      <4>1. place \in [DOMAIN <<>> -> 1..0]
        OBVIOUS
      <4>2. QED
        BY <4>1 DEF Picks
    <3>2. <<>> \in Seq(S)
      OBVIOUS
    <3>3. m[0] = <<>>
      BY <1>9
    <3>4. 0 \in D
      BY <1>1
    <3> HIDE DEF D
    <3>5. QED
      BY <3>1, <3>2, <3>3, <3>4
  <2>2. ASSUME NEW k \in 1..N, k - 1 \in T PROVE k \in T
    <3>1. m[k - 1] \in Seq(S) /\ Picks(m[k - 1], s, keep, k - 1) /\ s[k] \in S
      BY <1>1, <2>2
    <3> DEFINE r == m[k - 1]
    <3>2. r \in Seq(S)
      BY <3>1
    <3>3. Picks(r, s, keep, k - 1)
      BY <3>1
    <3>4. k \in 1..Len(s)
      OBVIOUS
    <3>5. m[k] = IF s[k] \in keep THEN Append(r, s[k]) ELSE r
      BY <1>9
    <3> HIDE DEF r
    <3>6. Picks(r, s, keep, k) /\ (s[k] \in keep => Picks(Append(r, s[k]), s, keep, k))
      BY <3>2, <3>3, <3>4, PicksOneMore
    <3>7. m[k] \in Seq(S) /\ Picks(m[k], s, keep, k)
      BY <3>1, <3>2, <3>5, <3>6
    <3>8. k \in D
      BY <1>1
    <3>9. QED
      BY <3>7, <3>8
  <2> HIDE DEF T, N
  <2>3. 0..N \subseteq T
    BY <1>1, <2>1, <2>2, UpTo
  <2>4. QED
    BY <2>3 DEF T
<1>11. N \in D
  BY <1>1
<1>12. QED
  BY <1>8, <1>10, <1>11

\* Nothing that was there once is there twice after a filter.
LEMMA ThoseDistinct ==
  ASSUME NEW S, NEW s \in Seq(S), NEW keep, Distinct(s)
  PROVE  /\ Those(s, keep) \in Seq(S) /\ Distinct(Those(s, keep))
         /\ \A i \in DOMAIN Those(s, keep) : Those(s, keep)[i] \in keep
<1> DEFINE r == Those(s, keep)
<1>1. r \in Seq(S) /\ Picks(r, s, keep, Len(s))
  BY ThoseIs
<1> HIDE DEF r
<1>2. PICK place \in [DOMAIN r -> 1..Len(s)] :
        /\ \A i, j \in DOMAIN r : place[i] = place[j] => i = j
        /\ \A i \in DOMAIN r : r[i] = s[place[i]] /\ r[i] \in keep
  BY <1>1 DEF Picks
<1>3. DOMAIN s = 1..Len(s)
  OBVIOUS
<1>4. Distinct(r)
  BY <1>2, <1>3 DEF Distinct
<1>5. QED
  BY <1>1, <1>2, <1>4 DEF r

LEMMA JoinedSteps ==
  ASSUME NEW S, NEW rows \in Seq(Seq(S))
  PROVE  \E m \in [0..Len(rows) -> Seq(S)] :
           /\ m[0] = <<>> /\ \A k \in 1..Len(rows) : m[k] = m[k - 1] \o rows[k]
           /\ Joined(rows) = m[Len(rows)]
<1> DEFINE N == Len(rows)
<1> DEFINE D == 0..N
<1> DEFINE V == Seq(S)
<1> DEFINE step == [x \in (1..N) \X V |-> x[2] \o rows[x[1]]]
<1> DEFINE Body(f) == [k \in D |-> IF k = 0 THEN <<>> ELSE f[k - 1] \o rows[k]]
<1> DEFINE m == CHOOSE f : f = Body(f)
<1>1. N \in Nat /\ <<>> \in V /\ \A k \in 1..N : rows[k] \in V
  OBVIOUS
<1>2. \A k \in 1..N : \A v \in V : step[<<k, v>>] = v \o rows[k] /\ step[<<k, v>>] \in V
  <2>1. \A k \in 1..N : \A v \in V : v \o rows[k] \in V
    BY <1>1
  <2> HIDE DEF V, N
  <2>2. QED
    BY <2>1
<1>3. \E f \in [0..N -> V] : Folds(f, N, <<>>, step)
  <2>1. StaysIn(N, V, step)
    BY <1>2 DEF StaysIn
  <2>2. N \in Nat /\ <<>> \in V
    BY <1>1
  <2> HIDE DEF N, V, step
  <2>3. QED
    BY <2>1, <2>2, FoldExists
<1>4. PICK f \in [0..N -> V] : f[0] = <<>> /\ \A k \in 1..N : f[k] = step[<<k, f[k - 1]>>]
  BY <1>3 DEF Folds
<1> HIDE DEF V
<1>5. \A k \in 1..N : f[k] = f[k - 1] \o rows[k]
  <2>1. \A k \in 1..N : k - 1 \in 0..N
    BY <1>1
  <2> HIDE DEF step, N
  <2>2. QED
    BY <1>2, <1>4, <2>1
<1>6. f = Body(f)
  <2>1. \A k \in D : f[k] = IF k = 0 THEN <<>> ELSE f[k - 1] \o rows[k]
    <3>1. \A k \in D : k # 0 => k \in 1..N
      BY <1>1
    <3> HIDE DEF D, N
    <3>2. QED
      BY <1>4, <1>5, <3>1
  <2>2. f = [k \in D |-> f[k]]
    BY <1>4
  <2> HIDE DEF D
  <2>3. QED
    BY <2>1, <2>2
<1>7. m = Body(m)
  <2> HIDE DEF Body
  <2>1. QED
    BY <1>6
<1>8. Joined(rows) = m[N]
  BY DEF Joined
<1> HIDE DEF m
<1>9. m[0] = <<>> /\ \A k \in 1..N : m[k] = m[k - 1] \o rows[k]
  <2>1. 0 \in D /\ \A k \in 1..N : k \in D /\ k # 0
    BY <1>1
  <2> HIDE DEF D, N
  <2>2. QED
    BY <1>7, <2>1
<1>10. \A k \in D : m[k] \in V
  <2> DEFINE T == {k \in D : m[k] \in V}
  <2>1. 0 \in T
    BY <1>1, <1>9
  <2>2. ASSUME NEW k \in 1..N, k - 1 \in T PROVE k \in T
    <3>1. m[k - 1] \in V /\ rows[k] \in V /\ k \in D
      BY <1>1, <2>2
    <3>2. m[k - 1] \o rows[k] \in V
      BY <3>1 DEF V
    <3>3. QED
      BY <1>9, <3>1, <3>2
  <2> HIDE DEF T, N
  <2>3. 0..N \subseteq T
    BY <1>1, <2>1, <2>2, UpTo
  <2>4. QED
    BY <2>3 DEF T
<1>11. m \in [D -> V]
  <2> HIDE DEF D
  <2>1. QED
    BY <1>7, <1>10
<1>12. QED
  BY <1>8, <1>9, <1>11 DEF V

\* Of lists that have nothing in common.
LEMMA ConcatDistinct ==
  ASSUME NEW S, NEW a \in Seq(S), NEW b \in Seq(S), Distinct(a), Distinct(b), Range(a) \cap Range(b) = {}
  PROVE  a \o b \in Seq(S) /\ Distinct(a \o b) /\ Range(a \o b) = Range(a) \cup Range(b)
<1> DEFINE c == a \o b
<1>1. /\ Len(a) \in Nat /\ Len(b) \in Nat
      /\ c \in Seq(S) /\ Len(c) = Len(a) + Len(b)
      /\ \A j \in 1..Len(a) + Len(b) : c[j] = IF j <= Len(a) THEN a[j] ELSE b[j - Len(a)]
  BY ConcatEntries
<1> HIDE DEF c
<1>2. DOMAIN c = 1..Len(a) + Len(b) /\ DOMAIN a = 1..Len(a) /\ DOMAIN b = 1..Len(b)
  BY <1>1
<1>3. ASSUME NEW j \in DOMAIN c
      PROVE  \/ j \in DOMAIN a /\ c[j] = a[j]
             \/ j - Len(a) \in DOMAIN b /\ c[j] = b[j - Len(a)] /\ j \in Int
  <2>1. j \in 1..Len(a) + Len(b) /\ j \in Int
    BY <1>1, <1>2
  <2>2. CASE j <= Len(a)
    BY <1>1, <1>2, <2>1, <2>2
  <2>3. CASE ~(j <= Len(a))
    BY <1>1, <1>2, <2>1, <2>3
  <2>4. QED
    BY <2>2, <2>3
<1>4. ASSUME NEW i \in DOMAIN a, NEW j \in DOMAIN b PROVE a[i] # b[j]
  <2>1. a[i] \in Range(a) /\ b[j] \in Range(b)
    BY DEF Range
  <2>2. QED
    BY <2>1
<1>5. ASSUME NEW i \in DOMAIN c, NEW j \in DOMAIN c, c[i] = c[j] PROVE i = j
  <2>1. CASE i \in DOMAIN a /\ c[i] = a[i] /\ j \in DOMAIN a /\ c[j] = a[j]
    BY <1>5, <2>1 DEF Distinct
  <2>2. CASE /\ i - Len(a) \in DOMAIN b /\ c[i] = b[i - Len(a)] /\ i \in Int
             /\ j - Len(a) \in DOMAIN b /\ c[j] = b[j - Len(a)] /\ j \in Int
    <3>1. i - Len(a) = j - Len(a)
      BY <1>5, <2>2 DEF Distinct
    <3>2. QED
      BY <1>1, <2>2, <3>1
  <2>3. QED
    BY <1>3, <1>4, <1>5, <2>1, <2>2
<1>6. \A i \in DOMAIN a : i \in DOMAIN c /\ c[i] = a[i]
  BY <1>1, <1>2
<1>7. ASSUME NEW j \in DOMAIN b PROVE \E i \in DOMAIN c : c[i] = b[j]
  <2>1. Len(a) + j \in DOMAIN c /\ ~(Len(a) + j <= Len(a)) /\ (Len(a) + j) - Len(a) = j
    BY <1>1, <1>2
  <2>2. QED
    BY <1>1, <1>2, <2>1
<1>8. Range(c) = Range(a) \cup Range(b)
  BY <1>3, <1>6, <1>7 DEF Range
<1>9. QED
  BY <1>1, <1>5, <1>8 DEF c, Distinct

\* Lists of which no two have anything in common, put together.
LEMMA JoinedDistinct ==
  ASSUME NEW S, NEW rows \in Seq(Seq(S)), \A i \in DOMAIN rows : Distinct(rows[i]),
         \A i, j \in DOMAIN rows : i # j => Range(rows[i]) \cap Range(rows[j]) = {}
  PROVE  /\ Joined(rows) \in Seq(S) /\ Distinct(Joined(rows))
         /\ Range(Joined(rows)) = UNION {Range(rows[i]) : i \in DOMAIN rows}
<1> DEFINE N == Len(rows)
<1>1. PICK m \in [0..N -> Seq(S)] :
        /\ m[0] = <<>> /\ \A k \in 1..N : m[k] = m[k - 1] \o rows[k]
        /\ Joined(rows) = m[N]
  BY JoinedSteps
<1>2. N \in Nat /\ DOMAIN rows = 1..N /\ \A k \in 1..N : rows[k] \in Seq(S)
  OBVIOUS
<1> DEFINE First(k) == UNION {Range(rows[i]) : i \in 1..k}
<1> DEFINE T == {k \in 0..N : Distinct(m[k]) /\ Range(m[k]) = First(k)}
<1> HIDE DEF N
<1>3. 0 \in T
  <2>1. Distinct(<<>>) /\ Range(<<>>) = {}
    BY DEF Distinct, Range
  <2>2. First(0) = {}
    OBVIOUS
  <2>3. QED
    BY <1>1, <1>2, <2>1, <2>2
<1>4. ASSUME NEW k \in 1..N, k - 1 \in T PROVE k \in T
  <2> DEFINE a == m[k - 1]
  <2> DEFINE b == rows[k]
  <2>1. a \in Seq(S) /\ Distinct(a) /\ Range(a) = First(k - 1)
    BY <1>1, <1>4
  <2>2. b \in Seq(S) /\ Distinct(b)
    BY <1>2
  <2>3. \A i \in 1..(k - 1) : i \in DOMAIN rows /\ i # k /\ k \in DOMAIN rows
    BY <1>2
  <2>4. Range(a) \cap Range(b) = {}
    BY <2>1, <2>3
  <2>5. m[k] = a \o b
    BY <1>1
  <2>6. First(k) = First(k - 1) \cup Range(b)
    <3>1. \A i : i \in 1..k <=> i \in 1..(k - 1) \/ i = k
      BY <1>2
    <3>2. QED
      BY <3>1
  <2> HIDE DEF a, b, First
  <2>7. Distinct(a \o b) /\ Range(a \o b) = Range(a) \cup Range(b)
    BY <2>1, <2>2, <2>4, ConcatDistinct
  <2>8. k \in 0..N
    BY <1>2
  <2>9. QED
    BY <2>1, <2>5, <2>6, <2>7, <2>8
<1> HIDE DEF T
<1>5. 0..N \subseteq T
  BY <1>2, <1>3, <1>4, UpTo
<1>6. N \in T
  BY <1>2, <1>5
<1>7. N \in 0..N
  BY <1>2
<1>8. QED
  BY <1>1, <1>2, <1>6, <1>7 DEF T

-----------------------------------------------------------------------------
(* The rows of a tree *)

IsDeep(t, depth) ==
  /\ depth \in [Entries -> 1..Len(EntryOrder)]
  /\ \A e \in Entries : t[e] \in Entries => depth[t[e]] < depth[e]

LEMMA TreesAreDeep ==
  ASSUME NEW t \in Trees
  PROVE  t \in [Entries -> FolderEntries \cup {Top, Absent}] /\ \E depth : IsDeep(t, depth)
BY EntriesAssumption, TreesAssumption DEF IsDeep

LEMMA OrderIs ==
  /\ EntryOrder \in Seq(Entries) /\ Distinct(EntryOrder) /\ Len(EntryOrder) \in Nat
  /\ Entries \subseteq Nat /\ Top \notin Entries /\ Absent \notin Entries /\ FolderEntries \subseteq Entries
<1>1. EntryOrder \in Seq(Nat) /\ Entries = {EntryOrder[i] : i \in DOMAIN EntryOrder}
  BY EntriesAssumption DEF Entries, Range
<1>2. EntryOrder \in Seq(Entries) /\ Len(EntryOrder) \in Nat
  BY <1>1
<1>3. Distinct(EntryOrder)
  BY EntriesAssumption DEF IsInjective, Distinct
<1>4. Entries \subseteq Nat /\ Top \notin Entries /\ Absent \notin Entries /\ FolderEntries \subseteq Entries
  BY EntriesAssumption DEF Top, Absent
<1>5. QED
  BY <1>2, <1>3, <1>4

\* What is below an entry: with each one the folder it is in, and deeper than that.
Under(R, c, t, depth) == \A x \in R : x \in Entries /\ t[x] \in R \cup {c} /\ depth[c] < depth[x]

\* What is below one of two siblings is not below the other.
LEMMA SiblingsApart ==
  ASSUME NEW t, NEW depth, IsDeep(t, depth), NEW c \in Entries, NEW d \in Entries, c # d, t[c] = t[d],
         NEW R, NEW Q, Under(R, c, t, depth), Under(Q, d, t, depth)
  PROVE  (R \cup {c}) \cap (Q \cup {d}) = {}
<1> DEFINE Both == (R \cup {c}) \cap (Q \cup {d})
<1> DEFINE T == {x \in Entries : x \notin Both}
<1>1. /\ depth \in [Entries -> Nat]
      /\ \A e \in Entries : t[e] \in Entries => depth[t[e]] < depth[e]
  BY OrderIs DEF IsDeep
<1>2. /\ \A x \in R : x \in Entries /\ t[x] \in R \cup {c} /\ depth[c] < depth[x]
      /\ \A x \in Q : x \in Entries /\ t[x] \in Q \cup {d} /\ depth[d] < depth[x]
  BY DEF Under
<1>3. c \notin Q
  <2>1. SUFFICES ASSUME c \in Q PROVE FALSE
    OBVIOUS
  <2>2. t[c] \in Q \cup {d} /\ t[c] \in Entries
    BY <1>2, <2>1
  <2>3. depth[d] <= depth[t[c]] /\ depth[t[d]] < depth[d]
    BY <1>1, <1>2, <2>2
  <2>4. depth[d] \in Nat /\ depth[t[d]] \in Nat
    BY <1>1, <2>2
  <2>5. QED
    BY <2>3, <2>4
<1>4. d \notin R
  <2>1. SUFFICES ASSUME d \in R PROVE FALSE
    OBVIOUS
  <2>2. t[d] \in R \cup {c} /\ t[d] \in Entries
    BY <1>2, <2>1
  <2>3. depth[c] <= depth[t[d]] /\ depth[t[c]] < depth[c]
    BY <1>1, <1>2, <2>2
  <2>4. depth[c] \in Nat /\ depth[t[c]] \in Nat
    BY <1>1, <2>2
  <2>5. QED
    BY <2>3, <2>4
<1>5. ASSUME NEW x \in Entries, \A y \in Entries : depth[y] < depth[x] => y \in T PROVE x \in T
  <2>1. SUFFICES ASSUME x \in Both PROVE FALSE
    OBVIOUS
  <2>2. x \in R /\ x \in Q
    BY <1>3, <1>4, <2>1
  <2>3. t[x] \in Both
    BY <1>2, <2>2
  <2>4. t[x] \in Entries /\ depth[t[x]] < depth[x]
    BY <1>1, <1>2, <2>2
  <2>5. QED
    BY <1>5, <2>3, <2>4
<1> HIDE DEF T
<1>6. Entries \subseteq T
  BY <1>1, <1>5, LevelInduction
<1>7. \A x \in Both : x \in Entries
  BY <1>2
<1>8. QED
  BY <1>6, <1>7 DEF T

LEMMA ChildrenAre ==
  ASSUME NEW p
  PROVE  /\ SortedChildren(p) \in Seq(Entries) /\ Distinct(SortedChildren(p))
         /\ \A i \in DOMAIN SortedChildren(p) : SortedChildren(p)[i] \in Entries /\ Tree[SortedChildren(p)[i]] = p
<1> DEFINE keep == {e \in Entries : Tree[e] = p}
<1> DEFINE sorted == Those(EntryOrder, keep)
<1>1. sorted \in Seq(Entries) /\ Distinct(sorted) /\ \A i \in DOMAIN sorted : sorted[i] \in keep
  <2> HIDE DEF keep
  <2>1. QED
    BY OrderIs, ThoseDistinct
<1>2. SortedChildren(p) = IF sortDescending THEN Reverse(sorted) ELSE sorted
  BY DEF SortedChildren
<1> HIDE DEF sorted
<1>3. CASE sortDescending
  <2> DEFINE r == Reverse(sorted)
  <2> DEFINE N == Len(sorted)
  <2>1. N \in Nat /\ DOMAIN sorted = 1..N
    BY <1>1
  <2>2. r = [i \in 1..N |-> sorted[(N - i) + 1]]
    BY DEF Reverse
  <2> HIDE DEF N, r
  <2>3. \A i \in 1..N : (N - i) + 1 \in DOMAIN sorted /\ i \in Int
    BY <2>1
  <2>4. DOMAIN r = 1..N /\ \A i \in 1..N : r[i] = sorted[(N - i) + 1]
    BY <2>2
  <2>5. \A i \in 1..N : r[i] \in keep
    BY <1>1, <2>3, <2>4
  <2>6. r \in Seq(Entries)
    BY <2>1, <2>2, <2>5
  <2>7. Distinct(r)
    <3>1. ASSUME NEW i \in 1..N, NEW j \in 1..N, r[i] = r[j] PROVE i = j
      <4>1. (N - i) + 1 = (N - j) + 1
        BY <1>1, <2>3, <2>4, <3>1 DEF Distinct
      <4>2. QED
        BY <2>1, <2>3, <4>1
    <3>2. QED
      BY <2>4, <3>1 DEF Distinct
  <2>8. SortedChildren(p) = r
    BY <1>2, <1>3 DEF r
  <2>9. QED
    BY <2>4, <2>5, <2>6, <2>7, <2>8
<1>4. QED
  BY <1>1, <1>2, <1>3

-----------------------------------------------------------------------------
(* Rows below a folder, or below the root: of the tree, each once. *)

Rooted(rows, p, depth) ==
  /\ rows \in Seq(Entries) /\ Distinct(rows)
  /\ \A x \in Range(rows) : Tree[x] \in Range(rows) \cup {p} /\ (p # Top => depth[p] < depth[x])

RowOf(e, below) == IF e \in expanded THEN <<e>> \o below[e] ELSE <<e>>
WithinRow(e, below) == IF e \in expanded THEN Range(below[e]) ELSE {}

\* The row of an entry, and those below it.
LEMMA RowIs ==
  ASSUME NEW e \in Entries, NEW below, NEW depth, IsDeep(Tree, depth), e \in expanded => Rooted(below[e], e, depth)
  PROVE  /\ RowOf(e, below) \in Seq(Entries) /\ Distinct(RowOf(e, below))
         /\ Range(RowOf(e, below)) = WithinRow(e, below) \cup {e}
         /\ Under(WithinRow(e, below), e, Tree, depth)
<1>1. <<e>> \in Seq(Entries) /\ Distinct(<<e>>) /\ Range(<<e>>) = {e}
  BY DEF Distinct, Range
<1>2. depth[e] \in Nat /\ e # Top
  BY OrderIs DEF IsDeep
<1>3. CASE e \in expanded
  <2> DEFINE b == below[e]
  <2>1. b \in Seq(Entries) /\ Distinct(b) /\ \A x \in Range(b) : Tree[x] \in Range(b) \cup {e} /\ depth[e] < depth[x]
    BY <1>2, <1>3 DEF Rooted
  <2> HIDE DEF b
  <2>2. \A x \in Range(b) : x \in Entries
    BY <2>1 DEF Range
  <2>3. Range(<<e>>) \cap Range(b) = {}
    BY <1>1, <1>2, <2>1
  <2>4. <<e>> \o b \in Seq(Entries) /\ Distinct(<<e>> \o b) /\ Range(<<e>> \o b) = {e} \cup Range(b)
    <3> DEFINE a == <<e>>
    <3>1. a \in Seq(Entries) /\ Distinct(a) /\ Range(a) = {e} /\ Range(a) \cap Range(b) = {}
      BY <1>1, <2>3
    <3> HIDE DEF a
    <3>2. a \o b \in Seq(Entries) /\ Distinct(a \o b) /\ Range(a \o b) = Range(a) \cup Range(b)
      BY <2>1, <3>1, ConcatDistinct
    <3>3. QED
      BY <3>1, <3>2 DEF a
  <2>5. RowOf(e, below) = <<e>> \o b /\ WithinRow(e, below) = Range(b)
    BY <1>3 DEF RowOf, WithinRow, b
  <2>6. Under(Range(b), e, Tree, depth)
    BY <2>1, <2>2 DEF Under
  <2>7. QED
    BY <2>4, <2>5, <2>6
<1>4. CASE e \notin expanded
  <2>1. RowOf(e, below) = <<e>> /\ WithinRow(e, below) = {}
    BY <1>4 DEF RowOf, WithinRow
  <2>2. QED
    BY <1>1, <2>1 DEF Under
<1>5. QED
  BY <1>3, <1>4

LEMMA RowsOfRooted ==
  ASSUME NEW p \in FolderEntries \cup {Top}, NEW below, NEW depth, IsDeep(Tree, depth),
         \A e \in expanded : e \in Entries /\ Tree[e] = p => Rooted(below[e], e, depth)
  PROVE  Rooted(RowsOf(p, below), p, depth)
<1> DEFINE c == SortedChildren(p)
<1> DEFINE rows == [i \in DOMAIN c |-> RowOf(c[i], below)]
<1>1. c \in Seq(Entries) /\ Distinct(c) /\ \A i \in DOMAIN c : c[i] \in Entries /\ Tree[c[i]] = p
  BY ChildrenAre
<1>2. RowsOf(p, below) = Joined(rows)
  BY DEF RowsOf, RowOf
<1> HIDE DEF c
<1>3. ASSUME NEW i \in DOMAIN c
      PROVE  /\ RowOf(c[i], below) \in Seq(Entries) /\ Distinct(RowOf(c[i], below))
             /\ Range(RowOf(c[i], below)) = WithinRow(c[i], below) \cup {c[i]}
             /\ Under(WithinRow(c[i], below), c[i], Tree, depth)
  <2> DEFINE e == c[i]
  <2>1. e \in Entries /\ (e \in expanded => Rooted(below[e], e, depth))
    BY <1>1
  <2> HIDE DEF e
  <2>2. QED
    BY <2>1, RowIs DEF e
<1>4. DOMAIN rows = DOMAIN c /\ \A i \in DOMAIN c : rows[i] = RowOf(c[i], below)
  OBVIOUS
<1>5. rows \in Seq(Seq(Entries))
  <2>1. Len(c) \in Nat /\ DOMAIN c = 1..Len(c)
    BY <1>1
  <2>2. \A i \in 1..Len(c) : RowOf(c[i], below) \in Seq(Entries)
    BY <1>3, <2>1
  <2>3. rows = [i \in 1..Len(c) |-> RowOf(c[i], below)]
    BY <2>1
  <2> HIDE DEF rows
  <2>4. QED
    BY <2>1, <2>2, <2>3
<1> HIDE DEF rows
<1>6. ASSUME NEW i \in DOMAIN rows, NEW j \in DOMAIN rows, i # j PROVE Range(rows[i]) \cap Range(rows[j]) = {}
  <2> DEFINE a == c[i]
  <2> DEFINE b == c[j]
  <2> DEFINE R == WithinRow(a, below)
  <2> DEFINE Q == WithinRow(b, below)
  <2>1. a \in Entries /\ b \in Entries /\ Tree[a] = Tree[b]
    BY <1>1, <1>4
  <2>2. a # b
    BY <1>1, <1>4, <1>6 DEF Distinct
  <2>3. Range(rows[i]) = R \cup {a} /\ Range(rows[j]) = Q \cup {b}
    BY <1>3, <1>4
  <2>4. Under(R, a, Tree, depth) /\ Under(Q, b, Tree, depth)
    BY <1>3, <1>4
  <2> HIDE DEF a, b, R, Q
  <2>5. (R \cup {a}) \cap (Q \cup {b}) = {}
    <3> DEFINE t == Tree
    <3>1. IsDeep(t, depth) /\ t[a] = t[b] /\ Under(R, a, t, depth) /\ Under(Q, b, t, depth)
      BY <2>1, <2>4
    <3> HIDE DEF t
    <3>2. QED
      BY <2>1, <2>2, <3>1, SiblingsApart
  <2>6. QED
    BY <2>3, <2>5
<1>7. \A i \in DOMAIN rows : Distinct(rows[i])
  BY <1>3, <1>4
<1> DEFINE all == Joined(rows)
<1>8. all \in Seq(Entries) /\ Distinct(all) /\ Range(all) = UNION {Range(rows[i]) : i \in DOMAIN rows}
  BY <1>5, <1>6, <1>7, JoinedDistinct
<1> HIDE DEF all
<1>9. ASSUME NEW x \in Range(all) PROVE Tree[x] \in Range(all) \cup {p} /\ (p # Top => depth[p] < depth[x])
  <2>1. PICK i \in DOMAIN rows : x \in Range(rows[i])
    BY <1>8
  <2> DEFINE e == c[i]
  <2> DEFINE R == WithinRow(e, below)
  <2>2. Range(rows[i]) = R \cup {e} /\ Under(R, e, Tree, depth) /\ e \in Entries /\ Tree[e] = p
    BY <1>1, <1>3, <1>4
  <2>3. Range(rows[i]) \subseteq Range(all)
    BY <1>8
  <2> HIDE DEF e, R
  <2>4. x \in Entries /\ (x = e \/ (x \in R /\ Tree[x] \in R \cup {e} /\ depth[e] < depth[x]))
    BY <2>1, <2>2 DEF Under
  <2>5. Tree[x] \in Range(all) \cup {p}
    BY <2>2, <2>3, <2>4
  <2>6. ASSUME p # Top PROVE depth[p] < depth[x]
    <3>1. p \in Entries /\ depth[p] < depth[e]
      BY <2>2, <2>6, OrderIs DEF IsDeep
    <3>2. depth[p] \in Nat /\ depth[e] \in Nat /\ depth[x] \in Nat
      BY <2>2, <2>4, <3>1, OrderIs DEF IsDeep
    <3>3. QED
      BY <2>4, <3>1, <3>2
  <2>7. QED
    BY <2>5, <2>6
<1>10. QED
  BY <1>2, <1>8, <1>9 DEF Rooted, all

\* Rows of lists are lists, and ask for what is in the tree below only.
LEMMA RowsOfAsks ==
  ASSUME NEW p, expanded \subseteq FolderEntries, NEW f \in [FolderEntries \cup {Top} -> Seq(Entries)]
  PROVE  /\ RowsOf(p, f) \in Seq(Entries)
         /\ \A g \in [FolderEntries \cup {Top} -> Seq(Entries)] :
              (\A e \in FolderEntries : Tree[e] = p => f[e] = g[e]) => RowsOf(p, f) = RowsOf(p, g)
<1> DEFINE c == SortedChildren(p)
<1> DEFINE Rows(h) == [i \in DOMAIN c |-> RowOf(c[i], h)]
<1>1. c \in Seq(Entries) /\ \A i \in DOMAIN c : c[i] \in Entries /\ Tree[c[i]] = p
  BY ChildrenAre
<1>2. \A h : RowsOf(p, h) = Joined(Rows(h))
  BY DEF RowsOf, RowOf
<1> HIDE DEF c
<1>3. RowsOf(p, f) \in Seq(Entries)
  <2>1. ASSUME NEW e \in Entries PROVE RowOf(e, f) \in Seq(Entries)
    <3>1. <<e>> \in Seq(Entries)
      OBVIOUS
    <3>2. CASE e \in expanded
      <4>1. f[e] \in Seq(Entries)
        BY <3>2
      <4>2. <<e>> \o f[e] \in Seq(Entries)
        BY <3>1, <4>1
      <4>3. QED
        BY <3>2, <4>2 DEF RowOf
    <3>3. QED
      BY <3>1, <3>2 DEF RowOf
  <2> DEFINE rows == Rows(f)
  <2>2. Len(c) \in Nat /\ DOMAIN c = 1..Len(c)
    BY <1>1
  <2>3. \A i \in 1..Len(c) : RowOf(c[i], f) \in Seq(Entries)
    BY <1>1, <2>1, <2>2
  <2>4. rows = [i \in 1..Len(c) |-> RowOf(c[i], f)]
    BY <2>2
  <2> HIDE DEF rows
  <2>5. rows \in Seq(Seq(Entries))
    BY <2>2, <2>3, <2>4
  <2>6. PICK m \in [0..Len(rows) -> Seq(Entries)] : Joined(rows) = m[Len(rows)]
    BY <2>5, JoinedSteps
  <2>7. Len(rows) \in 0..Len(rows)
    BY <2>5
  <2>8. Joined(rows) \in Seq(Entries)
    BY <2>6, <2>7
  <2>9. QED
    BY <1>2, <2>8 DEF rows
<1>4. ASSUME NEW g \in [FolderEntries \cup {Top} -> Seq(Entries)],
             \A e \in FolderEntries : Tree[e] = p => f[e] = g[e]
      PROVE  RowsOf(p, f) = RowsOf(p, g)
  <2>1. ASSUME NEW i \in DOMAIN c PROVE RowOf(c[i], f) = RowOf(c[i], g)
    BY <1>1, <1>4 DEF RowOf
  <2>2. Rows(f) = Rows(g)
    BY <2>1
  <2> HIDE DEF Rows
  <2>3. QED
    BY <1>2, <2>2
<1>5. QED
  BY <1>3, <1>4

\* The rows of the page, and those below each folder.
IsBelow(below) == \A p \in FolderEntries \cup {Top} : below[p] = RowsOf(p, below)

LEMMA BelowExists ==
  ASSUME Tree \in Trees, expanded \subseteq FolderEntries
  PROVE  \E below, depth :
           /\ IsDeep(Tree, depth) /\ IsBelow(below) /\ OrderedEntries = below[Top]
           /\ \A p \in FolderEntries \cup {Top} : Rooted(below[p], p, depth)
<1> DEFINE D == FolderEntries \cup {Top}
<1> DEFINE K == Len(EntryOrder)
<1> DEFINE V == Seq(Entries)
<1>1. PICK depth : IsDeep(Tree, depth)
  BY TreesAreDeep
<1>2. K \in Nat /\ FolderEntries \subseteq Entries /\ Top \notin Entries /\ <<>> \in V
  BY OrderIs
<1>3. \A e \in Entries : depth[e] \in 1..K /\ (Tree[e] \in Entries => depth[Tree[e]] < depth[e])
  BY <1>1 DEF IsDeep
<1> DEFINE level == [p \in D |-> IF p = Top THEN K ELSE K - depth[p]]
<1> DEFINE step == [x \in D \X [D -> V] |-> RowsOf(x[1], x[2])]
<1> DEFINE Body(f) == [p \in D |-> RowsOf(p, f)]
<1> DEFINE below == CHOOSE f : f = Body(f)
<1> HIDE DEF K
<1>4. \A p \in D : level[p] \in 0..K
  BY <1>2, <1>3
<1>5. ASSUME NEW e \in FolderEntries, NEW p \in D, Tree[e] = p PROVE e \in D /\ level[e] < level[p]
  <2>1. e # Top /\ depth[e] \in 1..K
    BY <1>2, <1>3
  <2>2. level[e] = K - depth[e]
    BY <2>1
  <2>3. CASE p = Top
    BY <1>2, <2>1, <2>2, <2>3
  <2>4. CASE p # Top
    <3>1. p \in Entries /\ depth[p] \in 1..K /\ depth[p] < depth[e] /\ level[p] = K - depth[p]
      BY <1>2, <1>3, <1>5, <2>4
    <3>2. QED
      BY <1>2, <2>1, <2>2, <3>1
  <2>5. QED
    BY <2>3, <2>4
<1>6. level \in [D -> 0..K]
  <2>1. level = [p \in D |-> level[p]]
    OBVIOUS
  <2> HIDE DEF level
  <2>2. QED
    BY <1>4, <2>1
<1> HIDE DEF level
<1>7. \A p \in D : \A f \in [D -> V] : step[<<p, f>>] = RowsOf(p, f)
  OBVIOUS
<1> HIDE DEF step
<1>8. ASSUME NEW f \in [D -> V], NEW p \in D PROVE step[<<p, f>>] \in V
  <2>1. RowsOf(p, f) \in V
    BY RowsOfAsks
  <2>2. QED
    BY <1>7, <2>1
<1>9. ASSUME NEW f \in [D -> V], NEW g \in [D -> V], NEW p \in D,
             \A m \in D : level[m] < level[p] => f[m] = g[m]
      PROVE  step[<<p, f>>] = step[<<p, g>>]
  <2>1. \A e \in FolderEntries : Tree[e] = p => f[e] = g[e]
    BY <1>5, <1>9
  <2>2. RowsOf(p, f) = RowsOf(p, g)
    BY <2>1, RowsOfAsks
  <2>3. QED
    BY <1>7, <2>2
<1>10. AsksLower(D, V, level, step)
  BY <1>8, <1>9 DEF AsksLower
<1>11. PICK f \in [D -> V] : Solves(f, D, step)
  <2> HIDE DEF D, V
  <2>1. QED
    BY <1>2, <1>6, <1>10, LevelledExists
<1>12. f = Body(f)
  <2>1. \A p \in D : f[p] = RowsOf(p, f)
    BY <1>7, <1>11 DEF Solves
  <2>2. f = [p \in D |-> f[p]]
    OBVIOUS
  <2> HIDE DEF D
  <2>3. QED
    BY <2>1, <2>2
<1>13. below = Body(below)
  <2> HIDE DEF Body
  <2>1. QED
    BY <1>12
<1>14. OrderedEntries = below[Top]
  BY DEF OrderedEntries
<1> HIDE DEF below
<1>15. \A p \in D : below[p] = RowsOf(p, below)
  <2> HIDE DEF D
  <2>1. QED
    BY <1>13
<1> DEFINE T == {p \in D : Rooted(below[p], p, depth)}
<1>16. ASSUME NEW p \in D, \A m \in D : level[m] < level[p] => m \in T PROVE p \in T
  <2>1. \A e \in expanded : e \in Entries /\ Tree[e] = p => Rooted(below[e], e, depth)
    BY <1>5, <1>16
  <2>2. Rooted(RowsOf(p, below), p, depth)
    BY <1>1, <2>1, RowsOfRooted
  <2>3. QED
    BY <1>15, <2>2
<1>17. D \subseteq T
  <2>1. level \in [D -> Nat]
    BY <1>2, <1>6
  <2> HIDE DEF D, T
  <2>2. QED
    BY <1>16, <2>1, LevelInduction
<1>18. IsBelow(below)
  BY <1>15 DEF IsBelow
<1>19. \A p \in D : Rooted(below[p], p, depth)
  BY <1>17
<1>20. QED
  BY <1>1, <1>14, <1>18, <1>19

\* The rows of the page: entries of the workspace, each of them once.
LEMMA OrderedOnce ==
  ASSUME Tree \in Trees, expanded \subseteq FolderEntries
  PROVE  OrderedEntries \in Seq(Entries) /\ Distinct(OrderedEntries)
BY BelowExists DEF Rooted

-----------------------------------------------------------------------------
(* Selections without doubles *)

Things == [id : Entries, generation : Nat]
OnceEach(s) == \A i, j \in DOMAIN s : s[i].id = s[j].id => i = j
Fit(s) == s \in Seq(Things) /\ OnceEach(s)

LEMMA ThoseFit ==
  ASSUME NEW s, Fit(s), NEW keep
  PROVE  /\ Fit(Those(s, keep))
         /\ \A i \in DOMAIN Those(s, keep) : Those(s, keep)[i] \in keep /\ Those(s, keep)[i] \in Range(s)
<1> DEFINE r == Those(s, keep)
<1>1. s \in Seq(Things) /\ OnceEach(s)
  BY DEF Fit
<1>2. r \in Seq(Things) /\ Picks(r, s, keep, Len(s))
  BY <1>1, ThoseIs
<1> HIDE DEF r
<1>3. PICK place \in [DOMAIN r -> 1..Len(s)] :
        /\ \A i, j \in DOMAIN r : place[i] = place[j] => i = j
        /\ \A i \in DOMAIN r : r[i] = s[place[i]] /\ r[i] \in keep
  BY <1>2 DEF Picks
<1>4. DOMAIN s = 1..Len(s)
  BY <1>1
<1>5. OnceEach(r)
  <2>1. ASSUME NEW i \in DOMAIN r, NEW j \in DOMAIN r, r[i].id = r[j].id PROVE i = j
    <3>1. place[i] \in DOMAIN s /\ place[j] \in DOMAIN s
      BY <1>4
    <3>2. place[i] = place[j]
      BY <1>1, <1>3, <2>1, <3>1 DEF OnceEach
    <3>3. QED
      BY <1>3, <3>2
  <2>2. QED
    BY <2>1 DEF OnceEach
<1>6. \A i \in DOMAIN r : r[i] \in Range(s)
  BY <1>3, <1>4 DEF Range
<1>7. QED
  BY <1>2, <1>3, <1>5, <1>6 DEF r, Fit

\* Two selections of different entries, one after the other.
LEMMA ConcatFit ==
  ASSUME NEW a, NEW b, Fit(a), Fit(b), Ids(a) \cap Ids(b) = {}
  PROVE  Fit(a \o b)
<1> DEFINE c == a \o b
<1>1. a \in Seq(Things) /\ b \in Seq(Things) /\ OnceEach(a) /\ OnceEach(b)
  BY DEF Fit
<1>2. /\ Len(a) \in Nat /\ Len(b) \in Nat
      /\ c \in Seq(Things) /\ Len(c) = Len(a) + Len(b)
      /\ \A j \in 1..Len(a) + Len(b) : c[j] = IF j <= Len(a) THEN a[j] ELSE b[j - Len(a)]
  BY <1>1, ConcatEntries
<1> HIDE DEF c
<1>3. DOMAIN c = 1..Len(a) + Len(b) /\ DOMAIN a = 1..Len(a) /\ DOMAIN b = 1..Len(b)
  BY <1>1, <1>2
<1>4. ASSUME NEW j \in DOMAIN c
      PROVE  \/ j \in DOMAIN a /\ c[j] = a[j]
             \/ j - Len(a) \in DOMAIN b /\ c[j] = b[j - Len(a)] /\ j \in Int
  <2>1. j \in 1..Len(a) + Len(b) /\ j \in Int
    BY <1>2, <1>3
  <2>2. CASE j <= Len(a)
    BY <1>2, <1>3, <2>1, <2>2
  <2>3. CASE ~(j <= Len(a))
    BY <1>2, <1>3, <2>1, <2>3
  <2>4. QED
    BY <2>2, <2>3
<1>5. ASSUME NEW i \in DOMAIN a, NEW j \in DOMAIN b PROVE a[i].id # b[j].id
  <2>1. a[i].id \in Ids(a) /\ b[j].id \in Ids(b)
    BY DEF Ids
  <2>2. QED
    BY <2>1
<1>6. ASSUME NEW i \in DOMAIN c, NEW j \in DOMAIN c, c[i].id = c[j].id PROVE i = j
  <2>1. CASE i \in DOMAIN a /\ c[i] = a[i] /\ j \in DOMAIN a /\ c[j] = a[j]
    BY <1>1, <1>6, <2>1 DEF OnceEach
  <2>2. CASE /\ i - Len(a) \in DOMAIN b /\ c[i] = b[i - Len(a)] /\ i \in Int
             /\ j - Len(a) \in DOMAIN b /\ c[j] = b[j - Len(a)] /\ j \in Int
    <3>1. i - Len(a) = j - Len(a)
      BY <1>1, <1>6, <2>2 DEF OnceEach
    <3>2. QED
      BY <1>2, <2>2, <3>1
  <2>3. QED
    BY <1>4, <1>5, <1>6, <2>1, <2>2
<1>7. QED
  BY <1>2, <1>6 DEF c, Fit, OnceEach

LEMMA OneFit ==
  ASSUME NEW o \in Things
  PROVE  Fit(<<o>>) /\ Ids(<<o>>) = {o.id}
BY DEF Fit, OnceEach, Ids

LEMMA NoneFit == Fit(<<>>)
BY DEF Fit, OnceEach

LEMMA ToggleFit ==
  ASSUME NEW s, Fit(s.selection), NEW o \in Things
  PROVE  Fit(Toggle(s, o).selection)
<1> DEFINE l == s.selection
<1> DEFINE others == Those(l, {x \in Range(l) : x.id # o.id})
<1>1. Fit(others)
  BY ThoseFit
<1>2. CASE o.id \in Ids(l)
  BY <1>1, <1>2 DEF Toggle
<1>3. CASE o.id \notin Ids(l)
  <2>1. Toggle(s, o).selection = Append(l, o)
    BY <1>3 DEF Toggle
  <2>2. l \in Seq(Things)
    BY DEF Fit
  <2>3. Append(l, o) = l \o <<o>>
    BY <2>2
  <2>4. Ids(l) \cap Ids(<<o>>) = {}
    BY <1>3, OneFit
  <2>5. Fit(l \o <<o>>)
    <3> DEFINE b == <<o>>
    <3>1. Fit(l) /\ Fit(b) /\ Ids(l) \cap Ids(b) = {}
      BY <2>4, OneFit
    <3> HIDE DEF b, l
    <3>2. Fit(l \o b)
      BY <3>1, ConcatFit
    <3>3. QED
      BY <3>2 DEF b
  <2>6. QED
    BY <2>1, <2>3, <2>5
<1>4. QED
  BY <1>2, <1>3

\* A range has each of its rows once, whatever its anchor is.
LEMMA RangeOnce ==
  ASSUME Tree \in Trees, expanded \subseteq FolderEntries, NEW anchor, NEW e
  PROVE  ShiftRange(anchor, e) \in Seq(Entries) /\ Distinct(ShiftRange(anchor, e))
<1> DEFINE rows == OrderedEntries
<1> DEFINE a == Index(rows, anchor)
<1> DEFINE b == Index(rows, e)
<1> DEFINE from == IF 0 \in {a, b} THEN Len(rows) ELSE IF a <= b THEN a ELSE b
<1> DEFINE to == IF a <= b THEN b ELSE a
<1>1. rows \in Seq(Entries) /\ Distinct(rows)
  BY OrderedOnce
<1>2. ShiftRange(anchor, e) = IF to = 0 THEN <<>> ELSE SubSeq(rows, from, to)
  BY DEF ShiftRange
<1> HIDE DEF rows
<1>3. Len(rows) \in Nat /\ DOMAIN rows = 1..Len(rows)
  BY <1>1
<1>4. ASSUME NEW x PROVE Index(rows, x) \in 0..Len(rows)
  <2>1. CASE x \in Range(rows)
    <3>1. \E i \in DOMAIN rows : rows[i] = x
      BY <2>1 DEF Range
    <3>2. Index(rows, x) \in DOMAIN rows
      BY <2>1, <3>1 DEF Index
    <3>3. QED
      BY <1>3, <3>2
  <2>2. CASE x \notin Range(rows)
    BY <1>3, <2>2 DEF Index
  <2>3. QED
    BY <2>1, <2>2
<1>5. a \in 0..Len(rows) /\ b \in 0..Len(rows)
  BY <1>4
<1> HIDE DEF a, b
<1>6. to \in 0..Len(rows) /\ from \in 0..Len(rows) /\ (to # 0 => from # 0)
  BY <1>3, <1>5
<1> HIDE DEF from, to
<1>7. CASE to = 0
  BY <1>2, <1>7 DEF Distinct
<1>8. CASE to # 0
  <2> DEFINE r == SubSeq(rows, from, to)
  <2>1. from \in Nat /\ to \in Nat /\ 1 <= from /\ to <= Len(rows)
    BY <1>3, <1>6, <1>8
  <2>2. /\ r \in Seq(Entries) /\ Len(r) = IF from <= to THEN to - from + 1 ELSE 0
        /\ \A i \in 1..to - from + 1 : r[i] = rows[from + i - 1]
    BY <1>1, <2>1, SubSeqProperties
  <2> HIDE DEF r
  <2>3. Len(r) \in Nat /\ DOMAIN r = 1..Len(r)
    BY <2>2
  <2>4. \A i \in DOMAIN r : i \in Nat /\ i \in 1..to - from + 1 /\ from + i - 1 \in DOMAIN rows
    BY <1>3, <2>1, <2>2, <2>3
  <2>5. ASSUME NEW i \in DOMAIN r, NEW j \in DOMAIN r, r[i] = r[j] PROVE i = j
    <3>1. from + i - 1 = from + j - 1
      BY <1>1, <2>2, <2>4, <2>5 DEF Distinct
    <3>2. QED
      BY <2>1, <2>4, <3>1
  <2>6. r \in Seq(Entries) /\ Distinct(r)
    BY <2>2, <2>5 DEF Distinct
  <2>7. QED
    BY <1>2, <1>8, <2>6 DEF r
<1>9. QED
  BY <1>7, <1>8

-----------------------------------------------------------------------------
(* Every selection the page makes *)

LEMMA ExtendFit ==
  ASSUME Tree \in Trees, Generation \in Nat, expanded \subseteq FolderEntries,
         NEW s, Fit(s.selection), NEW o
  PROVE  Fit(Extend(s, o).selection)
<1> DEFINE anchor == IF s.focused = NoEntry THEN Object(Head(OrderedEntries)) ELSE s.focused
<1> DEFINE range == ShiftRange(anchor.id, o.id)
<1> DEFINE a == Those(s.selection, {x \in Range(s.selection) : x.id \notin s.previous \cup Range(range)})
<1> DEFINE b == [i \in DOMAIN range |-> Object(range[i])]
<1>1. Extend(s, o).selection = a \o b
  BY DEF Extend, NewSelection
<1>2. range \in Seq(Entries) /\ Distinct(range)
  BY RangeOnce
<1> HIDE DEF range
<1>3. Fit(a) /\ \A i \in DOMAIN a : a[i].id \notin Range(range)
  <2> DEFINE l == s.selection
  <2> DEFINE keep == {x \in Range(l) : x.id \notin s.previous \cup Range(range)}
  <2>1. a = Those(l, keep) /\ \A x \in keep : x.id \notin Range(range)
    OBVIOUS
  <2>2. Fit(l)
    OBVIOUS
  <2> HIDE DEF a, keep, l
  <2>3. Fit(Those(l, keep)) /\ \A i \in DOMAIN Those(l, keep) : Those(l, keep)[i] \in keep
    BY <2>2, ThoseFit
  <2>4. QED
    BY <2>1, <2>3
<1>4. DOMAIN b = DOMAIN range /\ \A i \in DOMAIN b : b[i] = Object(range[i])
  OBVIOUS
<1>5. \A i \in DOMAIN range : Object(range[i]) \in Things /\ Object(range[i]).id = range[i]
  BY <1>2 DEF Object, Things
<1>6. b \in Seq(Things)
  <2>1. Len(range) \in Nat /\ DOMAIN range = 1..Len(range)
    BY <1>2
  <2>2. b = [i \in 1..Len(range) |-> Object(range[i])] /\ \A i \in 1..Len(range) : Object(range[i]) \in Things
    BY <1>5, <2>1
  <2> HIDE DEF b
  <2>3. QED
    BY <2>1, <2>2
<1> HIDE DEF a, b
<1>7. \A i \in DOMAIN b : b[i].id = range[i]
  BY <1>4, <1>5
<1>8. OnceEach(b)
  BY <1>2, <1>4, <1>7 DEF OnceEach, Distinct
<1>9. Ids(b) \subseteq Range(range)
  BY <1>4, <1>7 DEF Ids, Range
<1>10. Ids(a) \cap Ids(b) = {}
  BY <1>3, <1>9 DEF Ids
<1>11. Fit(b)
  BY <1>6, <1>8 DEF Fit
<1>12. Fit(a \o b)
  BY <1>3, <1>10, <1>11, ConcatFit
<1>13. QED
  BY <1>1, <1>12

SoundTree ==
  /\ trees \in Seq(Trees) /\ trees # <<>>
  /\ expanded \subseteq FolderEntries
TreeInv == SoundTree /\ Fit(selection)

LEMMA LastTree ==
  ASSUME SoundTree
  PROVE  Tree \in Trees /\ Generation \in Nat /\ Generation \in DOMAIN trees
<1>1. Len(trees) \in Nat /\ Len(trees) # 0 /\ DOMAIN trees = 1..Len(trees)
  BY DEF SoundTree
<1>2. Len(trees) \in DOMAIN trees
  BY <1>1
<1>3. trees[Len(trees)] \in Trees
  BY <1>2 DEF SoundTree
<1>4. QED
  BY <1>1, <1>2, <1>3 DEF Tree, Generation

LEMMA ObjectsAreThings ==
  ASSUME SoundTree, NEW e \in Entries
  PROVE  Object(e) \in Things
BY LastTree DEF Object, Things

LEMMA FocusFit ==
  ASSUME TreeInv, NEW e \in Entries, NEW modifier
  PROVE  Fit(OnFocus(Selected, Object(e), modifier).selection)
<1> DEFINE s == Selected
<1> DEFINE o == Object(e)
<1>1. SoundTree /\ Fit(s.selection) /\ o \in Things
  BY ObjectsAreThings DEF TreeInv, Selected
<1>2. Tree \in Trees /\ Generation \in Nat /\ expanded \subseteq FolderEntries
  BY <1>1, LastTree DEF SoundTree
<1> HIDE DEF s, o
<1>3. Fit(Toggle(s, o).selection)
  BY <1>1, ToggleFit
<1>4. Fit(Extend(s, o).selection)
  BY <1>1, <1>2, ExtendFit
<1>5. Fit(SelectOnly(s, o).selection)
  BY <1>1, OneFit DEF SelectOnly
<1>6. Fit(OnFocus(s, o, modifier).selection)
  BY <1>3, <1>4, <1>5 DEF OnFocus
<1>7. QED
  BY <1>6 DEF s, o

LEMMA TreeStarts ==
  ASSUME TreeInit
  PROVE  TreeInv
<1>1. PICK t \in Trees : trees = <<t>>
  BY DEF TreeInit
<1>2. trees \in Seq(Trees) /\ trees # <<>>
  BY <1>1
<1>3. QED
  BY <1>2, NoneFit DEF TreeInit, TreeInv, SoundTree

LEMMA TreeKeeps ==
  ASSUME TreeInv, TreeNext
  PROVE  TreeInv'
<1>1. trees \in Seq(Trees) /\ trees # <<>> /\ expanded \subseteq FolderEntries /\ Fit(selection) /\ SoundTree
  BY DEF TreeInv, SoundTree
<1>2. ASSUME NEW e \in Entries, NEW modifier, selection' = OnFocus(Selected, Object(e), modifier).selection
      PROVE  Fit(selection)'
  BY <1>2, FocusFit DEF Fit, OnceEach
<1>3. ASSUME UNCHANGED trees, expanded' \subseteq FolderEntries, Fit(selection)' PROVE TreeInv'
  BY <1>1, <1>3 DEF TreeInv, SoundTree
<1>4. ASSUME NEW e \in Entries, NEW modifier, MouseDown(e, modifier) PROVE TreeInv'
  <2>1. UNCHANGED trees /\ expanded' \subseteq FolderEntries
    BY <1>1, <1>4 DEF MouseDown, TreeUnchanged
  <2>2. \/ selection' = OnFocus(Selected, Object(e), modifier).selection
        \/ selection' = selection
    BY <1>4 DEF MouseDown, Selects, Selected
  <2>3. Fit(selection)'
    <3>1. CASE selection' = selection
      BY <1>1, <3>1 DEF Fit, OnceEach
    <3>2. QED
      BY <1>2, <2>2, <3>1
  <2>4. QED
    BY <1>3, <2>1, <2>3
<1>5. ASSUME NEW e \in Entries, NEW modifier, MouseUp(e, modifier) PROVE TreeInv'
  <2>1. UNCHANGED trees /\ expanded' \subseteq FolderEntries
    BY <1>1, <1>5 DEF MouseUp, TreeUnchanged
  <2>2. selection' = OnFocus(Selected, Object(e), modifier).selection
    BY <1>5 DEF MouseUp, Selects
  <2>3. QED
    BY <1>2, <1>3, <2>1, <2>2
<1>6. ASSUME NEW e, NEW modifier, MoveTo(e, modifier) PROVE TreeInv'
  <2>1. e \in Entries /\ UNCHANGED trees /\ expanded' \subseteq FolderEntries
    BY <1>1, <1>6 DEF MoveTo, TreeUnchanged
  <2>2. selection' = OnFocus(Selected, Object(e), modifier).selection
    BY <1>6 DEF MoveTo, Selects
  <2>3. QED
    BY <1>2, <1>3, <2>1, <2>2
<1>7. ASSUME NEW e \in Entries, NEW modifier, Expand(e, modifier) \/ Collapse(e, modifier) PROVE TreeInv'
  <2>1. UNCHANGED trees /\ expanded' \subseteq FolderEntries
    BY <1>1, <1>7 DEF Expand, Collapse, SetExpanded, TreeUnchanged
  <2>2. selection' = OnFocus(Selected, Object(e), modifier).selection
    BY <1>7 DEF Expand, Collapse, SetExpanded, Selects
  <2>3. QED
    BY <1>2, <1>3, <2>1, <2>2
<1>8. ASSUME ClearFocus PROVE TreeInv'
  <2>1. UNCHANGED trees /\ expanded' \subseteq FolderEntries /\ selection' = <<>>
    BY <1>1, <1>8 DEF ClearFocus, TreeUnchanged, Selects, Selected
  <2>2. Fit(selection)'
    BY <2>1, NoneFit DEF Fit, OnceEach
  <2>3. QED
    BY <1>3, <2>1, <2>2
<1>9. ASSUME ClickColumn PROVE TreeInv'
  <2>1. UNCHANGED <<trees, expanded, selection>>
    BY <1>9 DEF ClickColumn
  <2>2. Fit(selection)'
    BY <1>1, <2>1 DEF Fit, OnceEach
  <2>3. QED
    BY <1>1, <1>3, <2>1, <2>2
<1>10. ASSUME NEW e \in Entries, OpenContextMenu(e) PROVE TreeInv'
  <2>1. UNCHANGED trees /\ expanded' \subseteq FolderEntries /\ selection' = <<Object(e)>>
    BY <1>1, <1>10 DEF OpenContextMenu, TreeUnchanged, Selects, Selected
  <2>2. Fit(<<Object(e)>>)
    BY <1>1, ObjectsAreThings, OneFit
  <2>3. Fit(selection)'
    BY <2>1, <2>2 DEF Fit, OnceEach
  <2>4. QED
    BY <1>3, <2>1, <2>3
<1>11. ASSUME NEW e \in Entries, OpenLocation(e) PROVE TreeInv'
  <2>1. UNCHANGED trees /\ expanded' \subseteq FolderEntries /\ selection' = selection
    BY <1>1, <1>11 DEF OpenLocation, TreeUnchanged, Selects, Selected
  <2>2. Fit(selection)'
    BY <1>1, <2>1 DEF Fit, OnceEach
  <2>3. QED
    BY <1>3, <2>1, <2>2
<1>12. ASSUME NEW t \in Trees, Refresh(t) PROVE TreeInv'
  <2>1. trees' = Append(trees, t) /\ expanded' = expanded /\ selection' = selection
    BY <1>12 DEF Refresh
  <2>2. Append(trees, t) \in Seq(Trees) /\ Append(trees, t) # <<>>
    BY <1>1
  <2>3. Fit(selection)'
    BY <1>1, <2>1 DEF Fit, OnceEach
  <2>4. QED
    BY <1>1, <2>1, <2>2, <2>3 DEF TreeInv, SoundTree
<1>13. QED
  BY <1>4, <1>5, <1>6, <1>7, <1>8, <1>9, <1>10, <1>11, <1>12
     DEF TreeNext, ArrowUp, ArrowDown, HomeKey, EndKey

-----------------------------------------------------------------------------
(* What a drop moves *)

LEMMA FitCounts ==
  ASSUME NEW s, Fit(s)
  PROVE  Cardinality(Ids(s)) = Len(s)
<1> DEFINE N == Len(s)
<1> DEFINE f == [i \in 1..N |-> s[i].id]
<1>1. N \in Nat /\ DOMAIN s = 1..N
  BY DEF Fit
<1> HIDE DEF N
<1>2. Ids(s) = {s[i].id : i \in 1..N}
  BY <1>1 DEF Ids
<1>3. f \in [1..N -> Ids(s)]
  BY <1>2
<1>4. \A i, j \in 1..N : f[i] = f[j] => i = j
  BY <1>1 DEF Fit, OnceEach
<1>5. \A x \in Ids(s) : \E i \in 1..N : f[i] = x
  BY <1>2
<1> HIDE DEF f
<1>6. ExistsBijection(1..N, Ids(s))
  BY <1>3, <1>4, <1>5 DEF ExistsBijection, Bijection, Injection, Surjection, IsInjective
<1>7. QED
  BY <1>1, <1>6, FS_CountingElements DEF N

\* Nothing is inside of what is no folder.
LEMMA NothingInsideOfFiles ==
  ASSUME SoundTree, NEW o \in Things, NEW folder \in Things, folder.id \notin FolderEntries
  PROVE  ~InsideOf(o, folder)
<1> DEFINE Body(f) == [x \in Entries |-> Tree[x] = folder.id \/ (Tree[x] \in Entries /\ f[Tree[x]])]
<1> DEFINE in == CHOOSE f : f = Body(f)
<1> DEFINE none == [x \in Entries |-> FALSE]
<1>1. PICK depth : IsDeep(Tree, depth)
  BY LastTree, TreesAreDeep
<1>2. Tree \in [Entries -> FolderEntries \cup {Top, Absent}]
  BY LastTree, TreesAreDeep
<1>3. \A x \in Entries : Tree[x] # folder.id
  <2>1. folder.id \in Entries /\ folder.id # Top /\ folder.id # Absent
    BY OrderIs DEF Things
  <2>2. QED
    BY <1>2, <2>1
<1>4. none = Body(none)
  <2>1. \A x \in Entries : (Tree[x] = folder.id \/ (Tree[x] \in Entries /\ none[Tree[x]])) = FALSE
    BY <1>3
  <2> HIDE DEF none
  <2>2. Body(none) = [x \in Entries |-> FALSE]
    BY <2>1
  <2>3. QED
    BY <2>2 DEF none
<1>5. in = Body(in)
  <2> HIDE DEF Body, none
  <2>1. QED
    BY <1>4
<1>6. InsideOf(o, folder) = in[o.id]
  BY DEF InsideOf
<1> HIDE DEF in
<1>7. \A x \in Entries : in[x] = (Tree[x] = folder.id \/ (Tree[x] \in Entries /\ in[Tree[x]]))
  BY <1>5
<1> DEFINE T == {x \in Entries : ~in[x]}
<1>8. ASSUME NEW x \in Entries, \A y \in Entries : depth[y] < depth[x] => y \in T PROVE x \in T
  <2>1. CASE Tree[x] \in Entries
    <3>1. depth[Tree[x]] < depth[x]
      BY <1>1, <2>1 DEF IsDeep
    <3>2. ~in[Tree[x]]
      BY <1>8, <2>1, <3>1
    <3>3. QED
      BY <1>3, <1>7, <3>2
  <2>2. CASE Tree[x] \notin Entries
    BY <1>3, <1>7, <2>2
  <2>3. QED
    BY <2>1, <2>2
<1>9. Entries \subseteq T
  <2>1. depth \in [Entries -> Nat]
    BY <1>1, OrderIs DEF IsDeep
  <2> HIDE DEF T
  <2>2. QED
    BY <1>8, <2>1, LevelInduction
<1>10. o.id \in Entries
  BY DEF Things
<1>11. QED
  BY <1>6, <1>9, <1>10

\* Of the tree on screen, what is inside of a folder is a descendant of it.
LEMMA InsideIsDescendant ==
  ASSUME SoundTree, NEW o \in Things, NEW folder \in Things,
         o.generation = Generation, folder.generation = Generation, InsideOf(o, folder)
  PROVE  IsDescendantOf(o, folder)
<1>1. folder.id \in FolderEntries
  BY NothingInsideOfFiles
<1> DEFINE in == CHOOSE f : f = [x \in Entries |-> Tree[x] = folder.id \/ (Tree[x] \in Entries /\ f[Tree[x]])]
<1>2. in[o.id]
  BY DEF InsideOf
<1>3. trees[folder.generation] = Tree
  BY DEF Tree
<1>4. IsDescendantOf(o, folder) = (o.generation = folder.generation /\ folder.id \in FolderEntries /\ in[o.id])
  BY <1>3 DEF IsDescendantOf
<1>5. QED
  BY <1>1, <1>2, <1>4

LEMMA MovesWhole ==
  ASSUME TreeInv
  PROVE  MovesWholeFolders
<1>1. SUFFICES ASSUME \A i \in DOMAIN selection : selection[i].generation = Generation PROVE ~MovesInside
  BY DEF MovesWholeFolders
<1>2. SoundTree /\ Fit(selection) /\ selection \in Seq(Things)
  BY DEF TreeInv, Fit
<1>3. ASSUME NEW dragged, NEW i \in DOMAIN EntriesToMove(dragged), NEW j \in DOMAIN EntriesToMove(dragged),
             InsideOf(EntriesToMove(dragged)[i], EntriesToMove(dragged)[j])
      PROVE  FALSE
  <2> DEFINE keep == {o \in Range(selection) : \A k \in DOMAIN selection : ~IsDescendantOf(o, selection[k])}
  <2> DEFINE moved == EntriesToMove(dragged)
  <2>1. moved = Those(selection, keep)
    BY <1>3 DEF EntriesToMove
  <2>2. \A k \in DOMAIN Those(selection, keep) :
          Those(selection, keep)[k] \in keep /\ Those(selection, keep)[k] \in Range(selection)
    <3> HIDE DEF keep
    <3>1. QED
      BY <1>2, ThoseFit
  <2>3. moved[i] \in keep /\ moved[j] \in Range(selection)
    BY <1>3, <2>1, <2>2
  <2>4. PICK k \in DOMAIN selection : moved[j] = selection[k]
    BY <2>3 DEF Range
  <2>5. PICK l \in DOMAIN selection : moved[i] = selection[l]
    BY <2>3 DEF Range
  <2>6. ~IsDescendantOf(selection[l], selection[k])
    BY <2>3, <2>5
  <2>7. InsideOf(selection[l], selection[k])
    BY <1>3, <2>4, <2>5
  <2>8. selection[l] \in Things /\ selection[k] \in Things
    BY <1>2
  <2>9. selection[l].generation = Generation /\ selection[k].generation = Generation
    BY <1>1
  <2>10. QED
    <3> DEFINE o == selection[l]
    <3> DEFINE folder == selection[k]
    <3>1. o \in Things /\ folder \in Things /\ o.generation = Generation /\ folder.generation = Generation
      BY <2>8, <2>9
    <3>2. InsideOf(o, folder) /\ ~IsDescendantOf(o, folder)
      BY <2>6, <2>7
    <3> HIDE DEF o, folder
    <3>3. QED
      BY <1>2, <3>1, <3>2, InsideIsDescendant
<1>4. QED
  BY <1>3 DEF MovesInside

\* TreeInv is inductive: whatever is clicked, toggled, stretched and fetched again,
\* no entry is in the selection twice.
THEOREM TreeInvariant == TreeSpec => []TreeInv
<1>1. ASSUME TreeInv, UNCHANGED treeVars PROVE TreeInv'
  BY <1>1 DEF TreeInv, SoundTree, Fit, OnceEach, treeVars
<1>2. TreeInv /\ [TreeNext]_treeVars => TreeInv'
  BY <1>1, TreeKeeps
<1>3. QED
  BY TreeStarts, <1>2, PTL DEF TreeSpec

\* What a drop moves is moved once and whole, in every workspace, whatever was
\* selected how: a selection has no entry twice, and with a folder nothing that is
\* in it (treeUtils.ts, newSelectionFromShiftClick, getIdsOfEntriesToMove).
THEOREM DropsAlwaysOnceAndWhole == TreeSpec => []DropsOnceAndWhole
<1>1. TreeInv => DropsOnceAndWhole
  BY FitCounts, MovesWhole DEF TreeInv, DropsOnceAndWhole, SelectedOnce
<1>2. QED
  BY TreeInvariant, <1>1, PTL

-----------------------------------------------------------------------------
(* Rows one after the other, as the keys go *)

\* From each entry of s the keys go to its neighbours, from the first up to first and
\* from the last down to next.
Follows(s, first, next) ==
  \A i \in DOMAIN s :
    /\ RowAbove(s[i]) = IF i = 1 THEN first ELSE s[i - 1]
    /\ RowBelow(s[i]) = IF i = Len(s) THEN next ELSE s[i + 1]

LEMMA ConcatFollows ==
  ASSUME NEW S, NEW a \in Seq(S), NEW b \in Seq(S), a # <<>>, b # <<>>, NEW first, NEW next,
         Follows(a, first, b[1]), Follows(b, a[Len(a)], next)
  PROVE  /\ Follows(a \o b, first, next)
         /\ a \o b # <<>> /\ (a \o b)[1] = a[1] /\ (a \o b)[Len(a \o b)] = b[Len(b)]
<1> DEFINE c == a \o b
<1>1. /\ Len(a) \in Nat /\ Len(b) \in Nat
      /\ c \in Seq(S) /\ Len(c) = Len(a) + Len(b)
      /\ \A j \in 1..Len(a) + Len(b) : c[j] = IF j <= Len(a) THEN a[j] ELSE b[j - Len(a)]
  BY ConcatEntries
<1>2. Len(a) > 0 /\ Len(b) > 0
  OBVIOUS
<1> HIDE DEF c
<1>3. DOMAIN c = 1..Len(a) + Len(b) /\ DOMAIN a = 1..Len(a) /\ DOMAIN b = 1..Len(b)
  BY <1>1
<1>4. c[1] = a[1] /\ c[Len(c)] = b[Len(b)]
  <2>1. 1 \in 1..Len(a) + Len(b) /\ 1 <= Len(a) /\ Len(c) \in 1..Len(a) + Len(b) /\ ~(Len(c) <= Len(a))
    BY <1>1, <1>2
  <2>2. Len(c) - Len(a) = Len(b)
    BY <1>1
  <2>3. QED
    BY <1>1, <2>1, <2>2
<1>5. ASSUME NEW i \in DOMAIN c, i <= Len(a)
      PROVE  /\ RowAbove(c[i]) = IF i = 1 THEN first ELSE c[i - 1]
             /\ RowBelow(c[i]) = IF i = Len(c) THEN next ELSE c[i + 1]
  <2>1. i \in DOMAIN a /\ c[i] = a[i] /\ i # Len(c) /\ i \in Nat
    BY <1>1, <1>2, <1>3, <1>5
  <2>2. RowAbove(a[i]) = (IF i = 1 THEN first ELSE a[i - 1]) /\ RowBelow(a[i]) = IF i = Len(a) THEN b[1] ELSE a[i + 1]
    BY <2>1 DEF Follows
  <2>3. i # 1 => c[i - 1] = a[i - 1]
    <3>1. i # 1 => i - 1 \in 1..Len(a) + Len(b) /\ i - 1 <= Len(a)
      BY <1>1, <1>3, <1>5, <2>1
    <3>2. QED
      BY <1>1, <3>1
  <2>4. c[i + 1] = IF i = Len(a) THEN b[1] ELSE a[i + 1]
    <3>1. i + 1 \in 1..Len(a) + Len(b)
      BY <1>1, <1>2, <1>5, <2>1
    <3>2. CASE i = Len(a)
      <4>1. ~(i + 1 <= Len(a)) /\ (i + 1) - Len(a) = 1
        BY <1>1, <3>2
      <4>2. QED
        BY <1>1, <3>1, <3>2, <4>1
    <3>3. CASE i # Len(a)
      <4>1. i + 1 <= Len(a)
        BY <1>1, <1>5, <2>1, <3>3
      <4>2. QED
        BY <1>1, <3>1, <3>3, <4>1
    <3>4. QED
      BY <3>2, <3>3
  <2>5. QED
    BY <2>1, <2>2, <2>3, <2>4
<1>6. ASSUME NEW i \in DOMAIN c, ~(i <= Len(a))
      PROVE  /\ RowAbove(c[i]) = IF i = 1 THEN first ELSE c[i - 1]
             /\ RowBelow(c[i]) = IF i = Len(c) THEN next ELSE c[i + 1]
  <2> DEFINE j == i - Len(a)
  <2>1. j \in DOMAIN b /\ c[i] = b[j] /\ i # 1 /\ i \in Nat /\ j \in Nat /\ i = j + Len(a)
    BY <1>1, <1>2, <1>3, <1>6
  <2> HIDE DEF j
  <2>2. RowAbove(b[j]) = (IF j = 1 THEN a[Len(a)] ELSE b[j - 1]) /\ RowBelow(b[j]) = IF j = Len(b) THEN next ELSE b[j + 1]
    BY <2>1 DEF Follows
  <2>3. c[i - 1] = IF j = 1 THEN a[Len(a)] ELSE b[j - 1]
    <3>1. i - 1 \in 1..Len(a) + Len(b)
      BY <1>1, <1>2, <1>3, <2>1
    <3>2. CASE j = 1
      <4>1. i - 1 = Len(a) /\ i - 1 <= Len(a)
        BY <1>1, <2>1, <3>2
      <4>2. QED
        BY <1>1, <3>1, <3>2, <4>1
    <3>3. CASE j # 1
      <4>1. ~(i - 1 <= Len(a)) /\ (i - 1) - Len(a) = j - 1
        BY <1>1, <1>3, <2>1, <3>3
      <4>2. QED
        BY <1>1, <3>1, <3>3, <4>1
    <3>4. QED
      BY <3>2, <3>3
  <2> DEFINE la == Len(a)
  <2> DEFINE lb == Len(b)
  <2>0. la \in Nat /\ lb \in Nat /\ Len(c) = la + lb /\ i \in 1..la + lb /\ i = j + la /\ j \in Nat /\ 1 <= j
    BY <1>1, <1>3, <2>1
  <2>4. i = Len(c) <=> j = Len(b)
    <3> HIDE DEF la, lb
    <3>1. i = Len(c) <=> j = lb
      BY <2>0
    <3>2. QED
      BY <3>1 DEF lb
  <2>5. i # Len(c) => c[i + 1] = b[j + 1]
    <3>1. i # Len(c) => i + 1 \in 1..la + lb /\ ~(i + 1 <= la) /\ (i + 1) - la = j + 1
      <4> HIDE DEF la, lb
      <4>1. QED
        BY <2>0
    <3>2. QED
      BY <1>1, <3>1
  <2>6. QED
    BY <2>1, <2>2, <2>3, <2>4, <2>5
<1>7. Follows(c, first, next)
  BY <1>5, <1>6 DEF Follows
<1>8. c # <<>>
  <2>1. Len(c) # 0
    BY <1>1, <1>2
  <2>2. QED
    BY <2>1
<1>9. QED
  BY <1>4, <1>7, <1>8 DEF c

\* The same of any number of lists.
Linked(rows, k, first, next) ==
  /\ rows[k] # <<>>
  /\ Follows(rows[k], IF k = 1 THEN first ELSE rows[k - 1][Len(rows[k - 1])],
             IF k = Len(rows) THEN next ELSE rows[k + 1][1])

LEMMA JoinedFollows ==
  ASSUME NEW S, NEW rows \in Seq(Seq(S)), rows # <<>>, NEW first, NEW next,
         \A k \in DOMAIN rows : Linked(rows, k, first, next)
  PROVE  /\ Joined(rows) \in Seq(S) /\ Joined(rows) # <<>>
         /\ Follows(Joined(rows), first, next)
         /\ Joined(rows)[1] = rows[1][1]
         /\ Joined(rows)[Len(Joined(rows))] = rows[Len(rows)][Len(rows[Len(rows)])]
<1> DEFINE N == Len(rows)
<1>1. PICK m \in [0..N -> Seq(S)] :
        /\ m[0] = <<>> /\ \A k \in 1..N : m[k] = m[k - 1] \o rows[k]
        /\ Joined(rows) = m[N]
  BY JoinedSteps
<1>2. N \in Nat /\ N # 0 /\ DOMAIN rows = 1..N /\ \A k \in 1..N : rows[k] \in Seq(S)
  OBVIOUS
<1> DEFINE After(k) == IF k = N THEN next ELSE rows[k + 1][1]
<1> DEFINE Before(k) == IF k = 1 THEN first ELSE rows[k - 1][Len(rows[k - 1])]
<1>3. \A k \in 1..N : rows[k] # <<>> /\ Follows(rows[k], Before(k), After(k))
  BY <1>2 DEF Linked
<1> DEFINE Good(k) == /\ m[k] # <<>> /\ Follows(m[k], first, After(k))
                      /\ m[k][1] = rows[1][1] /\ m[k][Len(m[k])] = rows[k][Len(rows[k])]
<1> DEFINE T == {k \in 0..N : k # 0 => Good(k)}
<1> HIDE DEF N
<1>4. 0 \in T
  BY <1>2
<1>5. ASSUME NEW k \in 1..N, k - 1 \in T PROVE k \in T
  <2>1. k \in 0..N /\ k - 1 \in 0..N /\ k \in Nat
    BY <1>2
  <2>2. m[k] = m[k - 1] \o rows[k] /\ rows[k] \in Seq(S) /\ m[k - 1] \in Seq(S)
    BY <1>1, <1>2, <2>1
  <2>3. CASE k = 1
    <3>0. k - 1 = 0
      BY <2>3
    <3>1. m[k] = <<>> \o rows[k]
      BY <1>1, <2>2, <3>0
    <3>2. m[k] = rows[k]
      BY <2>2, <3>1
    <3>3. rows[k] # <<>> /\ Follows(rows[k], Before(k), After(k)) /\ Before(k) = first
      BY <1>3, <2>3
    <3> HIDE DEF After, Before
    <3>4. Good(k)
      BY <2>3, <3>2, <3>3
    <3>5. QED
      BY <2>1, <3>4
  <2>4. CASE k # 1
    <3> DEFINE a == m[k - 1]
    <3> DEFINE b == rows[k]
    <3>1. Good(k - 1)
      BY <1>5, <2>1, <2>4
    <3>2. Before(k) = rows[k - 1][Len(rows[k - 1])] /\ After(k - 1) = rows[k][1]
      <4>1. k - 1 # N /\ (k - 1) + 1 = k
        BY <1>2, <2>1
      <4>2. QED
        BY <2>4, <4>1
    <3>3. rows[k] # <<>> /\ Follows(rows[k], Before(k), After(k))
      BY <1>3
    <3> DEFINE n == After(k)
    <3>4. a \in Seq(S) /\ a # <<>> /\ Follows(a, first, b[1]) /\ a[1] = rows[1][1]
      BY <2>2, <3>1, <3>2
    <3>5. b \in Seq(S) /\ b # <<>> /\ Follows(b, a[Len(a)], n)
      BY <2>2, <3>1, <3>2, <3>3
    <3>6. m[k] = a \o b
      BY <2>2
    <3> DEFINE c == a \o b
    <3>7. Follows(c, first, n) /\ c # <<>> /\ c[1] = a[1] /\ c[Len(c)] = b[Len(b)]
      <4> HIDE DEF a, b, n
      <4>1. QED
        BY <3>4, <3>5, ConcatFollows
    <3>8. Good(k)
      <4>1. m[k] = c /\ b = rows[k] /\ n = After(k) /\ a[1] = rows[1][1]
        BY <3>4, <3>6
      <4> HIDE DEF a, b, c, n, After
      <4>2. QED
        BY <3>7, <4>1
    <3> HIDE DEF Good
    <3>9. QED
      BY <2>1, <3>8
  <2>5. QED
    BY <2>3, <2>4
<1> HIDE DEF T
<1>6. 0..N \subseteq T
  BY <1>2, <1>4, <1>5, UpTo
<1>7. N \in 0..N
  BY <1>2
<1>8. Good(N)
  BY <1>2, <1>6, <1>7 DEF T
<1>9. m[N] \in Seq(S)
  BY <1>7
<1>10. After(N) = next
  OBVIOUS
<1> HIDE DEF After
<1>11. QED
  BY <1>1, <1>8, <1>9, <1>10 DEF N

-----------------------------------------------------------------------------
(* The keys *)

LEMMA RenderedAre ==
  ASSUME NEW p
  PROVE  /\ Rendered(p) \in Seq(Entries) /\ Distinct(Rendered(p))
         /\ \A i \in DOMAIN Rendered(p) : Rendered(p)[i] \in Entries /\ Tree[Rendered(p)[i]] = p
<1>1. CASE Rendered(p) = <<>>
  BY <1>1 DEF Distinct
<1>2. CASE Rendered(p) = SortedChildren(p)
  BY <1>2, ChildrenAre
<1>3. QED
  BY <1>1, <1>2 DEF Rendered

\* The last row of an entry: itself, or that of the last entry in it.
LastOf(x, last) == IF x \in expanded /\ Rendered(x) # <<>> THEN last[Last(Rendered(x))] ELSE x

LEMMA LastIs ==
  ASSUME Tree \in Trees, NEW e \in Entries
  PROVE  /\ FocusLast(e) \in Entries
         /\ FocusLast(e) = IF e \in expanded /\ Rendered(e) # <<>> THEN FocusLast(Last(Rendered(e))) ELSE e
<1> DEFINE D == Entries
<1> DEFINE K == Len(EntryOrder)
<1>1. PICK depth : IsDeep(Tree, depth)
  BY TreesAreDeep
<1>2. K \in Nat
  BY OrderIs
<1>3. \A x \in D : depth[x] \in 1..K /\ (Tree[x] \in D => depth[Tree[x]] < depth[x])
  BY <1>1 DEF IsDeep
<1> DEFINE level == [x \in D |-> K - depth[x]]
<1> DEFINE step == [y \in D \X [D -> D] |-> LastOf(y[1], y[2])]
<1> DEFINE Body(f) == [x \in D |-> LastOf(x, f)]
<1> DEFINE last == CHOOSE f : f = Body(f)
<1> HIDE DEF K
<1>4. ASSUME NEW x \in D, Rendered(x) # <<>>
      PROVE  Last(Rendered(x)) \in D /\ level[Last(Rendered(x))] < level[x]
  <2> DEFINE r == Rendered(x)
  <2>1. r \in Seq(Entries) /\ \A i \in DOMAIN r : r[i] \in Entries /\ Tree[r[i]] = x
    BY RenderedAre
  <2>2. Last(r) = r[Len(r)]
    BY DEF Last
  <2> HIDE DEF r
  <2>3. Len(r) \in DOMAIN r
    BY <1>4, <2>1 DEF r
  <2>4. Last(r) \in D /\ Tree[Last(r)] = x
    BY <2>1, <2>2, <2>3
  <2> DEFINE z == Last(r)
  <2>5. z \in D /\ depth[x] < depth[z] /\ depth[x] \in 1..K /\ depth[z] \in 1..K
    BY <1>3, <2>4
  <2> HIDE DEF z
  <2>6. level[z] = K - depth[z] /\ level[x] = K - depth[x]
    BY <2>5
  <2>7. level[z] < level[x]
    BY <1>2, <2>5, <2>6
  <2>8. QED
    BY <2>5, <2>7 DEF z, r
<1>5. level \in [D -> 0..K]
  BY <1>2, <1>3
<1> HIDE DEF level
<1>6. \A x \in D : \A f \in [D -> D] : step[<<x, f>>] = LastOf(x, f)
  OBVIOUS
<1> HIDE DEF step
<1>7. \A f \in [D -> D], x \in D : step[<<x, f>>] \in D
  BY <1>4, <1>6 DEF LastOf
<1>8. ASSUME NEW f \in [D -> D], NEW g \in [D -> D], NEW x \in D,
             \A y \in D : level[y] < level[x] => f[y] = g[y]
      PROVE  step[<<x, f>>] = step[<<x, g>>]
  BY <1>4, <1>6, <1>8 DEF LastOf
<1>9. AsksLower(D, D, level, step)
  BY <1>7, <1>8 DEF AsksLower
<1>10. PICK f \in [D -> D] : Solves(f, D, step)
  <2>1. e \in D
    OBVIOUS
  <2> HIDE DEF D
  <2>2. QED
    BY <1>2, <1>5, <1>9, <2>1, LevelledExists
<1>11. f = Body(f)
  <2>1. \A x \in D : f[x] = LastOf(x, f)
    BY <1>6, <1>10 DEF Solves
  <2>2. f = [x \in D |-> f[x]]
    OBVIOUS
  <2> HIDE DEF D
  <2>3. QED
    BY <2>1, <2>2
<1>12. last = Body(last)
  <2> HIDE DEF Body
  <2>1. QED
    BY <1>11
<1>13. \A x : FocusLast(x) = last[x]
  BY DEF FocusLast, LastOf
<1> HIDE DEF last
<1>14. \A x \in D : last[x] = LastOf(x, last)
  BY <1>12
<1> DEFINE T == {x \in D : last[x] \in D}
<1>15. ASSUME NEW x \in D, \A y \in D : level[y] < level[x] => y \in T PROVE x \in T
  BY <1>4, <1>14, <1>15 DEF LastOf
<1>16. D \subseteq T
  <2>1. level \in [D -> Nat]
    BY <1>2, <1>5
  <2> HIDE DEF D, T
  <2>2. QED
    BY <1>15, <2>1, LevelInduction
<1>17. QED
  BY <1>13, <1>14, <1>16 DEF LastOf

\* Where a row goes: to a sibling, or to what its parent says.
SiblingOf(x, offset, sibling) ==
  LET p == Tree[x]
      rows == Rendered(p)
      there == Index(rows, x) + offset
  IN  CASE there \in DOMAIN rows -> IF offset < 0 THEN FocusLast(rows[there]) ELSE rows[there]
        [] there = 0 -> IF p \in Entries THEN p ELSE Absent
        [] OTHER -> IF p \in Entries THEN sibling[p] ELSE Absent

LEMMA SiblingIs ==
  ASSUME Tree \in Trees, NEW e \in Entries, NEW offset \in Int
  PROVE  LET p == Tree[e]
             rows == Rendered(p)
             there == Index(rows, e) + offset
         IN  /\ there \in DOMAIN rows =>
                  FocusSibling(e, offset) = IF offset < 0 THEN FocusLast(rows[there]) ELSE rows[there]
             /\ there = 0 => FocusSibling(e, offset) = IF p \in Entries THEN p ELSE Absent
             /\ there \notin DOMAIN rows /\ there # 0 =>
                  FocusSibling(e, offset) = IF p \in Entries THEN FocusSibling(p, offset) ELSE Absent
<1> DEFINE D == Entries
<1> DEFINE V == Entries \cup {Absent}
<1> DEFINE K == Len(EntryOrder)
<1>1. PICK depth : IsDeep(Tree, depth)
  BY TreesAreDeep
<1>2. K \in Nat
  BY OrderIs
<1>3. depth \in [D -> 0..K] /\ \A x \in D : Tree[x] \in D => depth[Tree[x]] < depth[x]
  <2>1. depth \in [D -> 1..K]
    BY <1>1 DEF IsDeep
  <2>2. \A k \in 1..K : k \in 0..K
    BY <1>2
  <2>3. QED
    BY <1>1, <2>1, <2>2 DEF IsDeep
<1> DEFINE step == [y \in D \X [D -> V] |-> SiblingOf(y[1], offset, y[2])]
<1> DEFINE Body(f) == [x \in D |-> SiblingOf(x, offset, f)]
<1> DEFINE sibling == CHOOSE f : f = Body(f)
<1> DEFINE Rows(x) == Rendered(Tree[x])
<1> DEFINE Target(x) == Index(Rows(x), x) + offset
<1>4. \A x : 0 \notin DOMAIN Rows(x) /\ \A i \in DOMAIN Rows(x) : Rows(x)[i] \in D
  <2>1. ASSUME NEW x PROVE 0 \notin DOMAIN Rows(x) /\ \A i \in DOMAIN Rows(x) : Rows(x)[i] \in D
    <3>1. Rows(x) \in Seq(Entries)
      BY RenderedAre
    <3> HIDE DEF Rows
    <3>2. QED
      BY <3>1
  <2>2. QED
    BY <2>1
<1>5. ASSUME NEW x, NEW f
      PROVE  /\ Target(x) \in DOMAIN Rows(x) =>
                  SiblingOf(x, offset, f) = IF offset < 0 THEN FocusLast(Rows(x)[Target(x)]) ELSE Rows(x)[Target(x)]
             /\ Target(x) = 0 => SiblingOf(x, offset, f) = IF Tree[x] \in Entries THEN Tree[x] ELSE Absent
             /\ Target(x) \notin DOMAIN Rows(x) /\ Target(x) # 0 =>
                  SiblingOf(x, offset, f) = IF Tree[x] \in Entries THEN f[Tree[x]] ELSE Absent
  <2>1. 0 \notin DOMAIN Rows(x)
    BY <1>4
  <2>2. SiblingOf(x, offset, f) =
          CASE Target(x) \in DOMAIN Rows(x) ->
                 IF offset < 0 THEN FocusLast(Rows(x)[Target(x)]) ELSE Rows(x)[Target(x)]
            [] Target(x) = 0 -> IF Tree[x] \in Entries THEN Tree[x] ELSE Absent
            [] OTHER -> IF Tree[x] \in Entries THEN f[Tree[x]] ELSE Absent
    BY DEF SiblingOf
  <2> HIDE DEF Rows, Target
  <2>3. QED
    BY <2>1, <2>2
<1> HIDE DEF K
<1>6. \A x \in D : \A f \in [D -> V] : step[<<x, f>>] = SiblingOf(x, offset, f)
  OBVIOUS
<1> HIDE DEF step
<1>7. ASSUME NEW f \in [D -> V], NEW x \in D PROVE step[<<x, f>>] \in V
  <2>1. \A i \in DOMAIN Rows(x) : FocusLast(Rows(x)[i]) \in D
    BY <1>4, LastIs
  <2>2. \A i \in DOMAIN Rows(x) : Rows(x)[i] \in D
    BY <1>4
  <2> HIDE DEF Rows, Target
  <2>3. SiblingOf(x, offset, f) \in V
    BY <1>5, <2>1, <2>2
  <2>4. QED
    BY <1>6, <2>3
<1>8. ASSUME NEW f \in [D -> V], NEW g \in [D -> V], NEW x \in D,
             \A y \in D : depth[y] < depth[x] => f[y] = g[y]
      PROVE  step[<<x, f>>] = step[<<x, g>>]
  <2> HIDE DEF Rows, Target
  <2>1. Tree[x] \in D => f[Tree[x]] = g[Tree[x]]
    BY <1>3, <1>8
  <2>2. SiblingOf(x, offset, f) = SiblingOf(x, offset, g)
    BY <1>5, <2>1
  <2>3. QED
    BY <1>6, <2>2
<1>9. AsksLower(D, V, depth, step)
  BY <1>7, <1>8 DEF AsksLower
<1>10. PICK f \in [D -> V] : Solves(f, D, step)
  <2>1. Absent \in V
    OBVIOUS
  <2> HIDE DEF D, V
  <2>2. QED
    BY <1>2, <1>3, <1>9, <2>1, LevelledExists
<1>11. f = Body(f)
  <2>1. \A x \in D : f[x] = SiblingOf(x, offset, f)
    BY <1>6, <1>10 DEF Solves
  <2>2. f = [x \in D |-> f[x]]
    OBVIOUS
  <2> HIDE DEF D
  <2>3. QED
    BY <2>1, <2>2
<1>12. sibling = Body(sibling)
  <2> HIDE DEF Body
  <2>1. QED
    BY <1>11
<1>13. \A x : FocusSibling(x, offset) = sibling[x]
  BY DEF FocusSibling, SiblingOf
<1> HIDE DEF sibling
<1>14. FocusSibling(e, offset) = SiblingOf(e, offset, sibling) /\ FocusSibling(Tree[e], offset) = sibling[Tree[e]]
  BY <1>12, <1>13
<1>15. QED
  <2>1. /\ Target(e) \in DOMAIN Rows(e) =>
             FocusSibling(e, offset) = IF offset < 0 THEN FocusLast(Rows(e)[Target(e)]) ELSE Rows(e)[Target(e)]
        /\ Target(e) = 0 => FocusSibling(e, offset) = IF Tree[e] \in Entries THEN Tree[e] ELSE Absent
        /\ Target(e) \notin DOMAIN Rows(e) /\ Target(e) # 0 =>
             FocusSibling(e, offset) = IF Tree[e] \in Entries THEN FocusSibling(Tree[e], offset) ELSE Absent
    <3> HIDE DEF Rows, Target
    <3>1. QED
      BY <1>5, <1>14
  <2>2. QED
    BY <2>1

-----------------------------------------------------------------------------
(* The keys follow the rows *)

FewRows == \A p \in expanded \cup {Top} : Len(SortedChildren(p)) < MaxChildren

LEMMA AllRendered ==
  ASSUME FewRows, NEW p \in expanded \cup {Top}
  PROVE  Rendered(p) = SortedChildren(p)
<1> DEFINE n == Len(SortedChildren(p))
<1>1. SortedChildren(p) \in Seq(Entries)
  BY ChildrenAre
<1>2. n \in Nat /\ MaxChildren \in Nat
  BY <1>1, EntriesAssumption
<1>3. n < MaxChildren
  BY DEF FewRows
<1> HIDE DEF n
<1>4. ~(n >= MaxChildren)
  BY <1>2, <1>3
<1>5. QED
  BY <1>4 DEF Rendered, n

\* The place of a row in a list without doubles.
LEMMA IndexIs ==
  ASSUME NEW rows, Distinct(rows), NEW k \in DOMAIN rows
  PROVE  Index(rows, rows[k]) = k
<1>1. rows[k] \in Range(rows)
  BY DEF Range
<1>2. \A i \in DOMAIN rows : rows[i] = rows[k] => i = k
  BY DEF Distinct
<1>3. (CHOOSE i \in DOMAIN rows : rows[i] = rows[k]) = k
  BY <1>2
<1>4. QED
  BY <1>1, <1>3 DEF Index

\* The row of an entry and what is below it: from the entry to the last of it, as the keys go.
RowGood(e, below) ==
  /\ RowOf(e, below) \in Seq(Entries) /\ RowOf(e, below) # <<>>
  /\ RowOf(e, below)[1] = e /\ RowOf(e, below)[Len(RowOf(e, below))] = FocusLast(e)
  /\ Tree[e] \in expanded \cup {Top}
       => Follows(RowOf(e, below), FocusSibling(e, -1), FocusSibling(e, 1))

Parent(p) == IF p \in Entries THEN p ELSE Absent
After(p) == IF p \in Entries THEN FocusSibling(p, 1) ELSE Absent

\* Where the first, the last and the others of the entries in p go.
LEMMA SiblingsFollow ==
  ASSUME Tree \in Trees, FewRows, NEW p \in expanded \cup {Top}, NEW k \in DOMAIN SortedChildren(p)
  PROVE  /\ FocusSibling(SortedChildren(p)[k], -1) =
              IF k = 1 THEN Parent(p) ELSE FocusLast(SortedChildren(p)[k - 1])
         /\ FocusSibling(SortedChildren(p)[k], 1) =
              IF k = Len(SortedChildren(p)) THEN After(p) ELSE SortedChildren(p)[k + 1]
<1> DEFINE c == SortedChildren(p)
<1> DEFINE e == c[k]
<1>1. c \in Seq(Entries) /\ Distinct(c) /\ e \in Entries /\ Tree[e] = p
  BY ChildrenAre
<1>2. Rendered(Tree[e]) = c
  BY <1>1, AllRendered
<1> HIDE DEF c
<1>3. Index(c, e) = k
  BY <1>1, IndexIs DEF c
<1>4. Len(c) \in Nat /\ DOMAIN c = 1..Len(c) /\ k \in 1..Len(c)
  BY <1>1 DEF c
<1>5. \A offset \in Int :
        /\ k + offset \in DOMAIN c =>
             FocusSibling(e, offset) = IF offset < 0 THEN FocusLast(c[k + offset]) ELSE c[k + offset]
        /\ k + offset = 0 => FocusSibling(e, offset) = IF p \in Entries THEN p ELSE Absent
        /\ k + offset \notin DOMAIN c /\ k + offset # 0 =>
             FocusSibling(e, offset) = IF p \in Entries THEN FocusSibling(p, offset) ELSE Absent
  <2>1. SUFFICES ASSUME NEW offset \in Int
                 PROVE  /\ k + offset \in DOMAIN c =>
                             FocusSibling(e, offset) = IF offset < 0 THEN FocusLast(c[k + offset]) ELSE c[k + offset]
                        /\ k + offset = 0 => FocusSibling(e, offset) = IF p \in Entries THEN p ELSE Absent
                        /\ k + offset \notin DOMAIN c /\ k + offset # 0 =>
                             FocusSibling(e, offset) = IF p \in Entries THEN FocusSibling(p, offset) ELSE Absent
    OBVIOUS
  <2>2. e \in Entries /\ Tree[e] = p /\ Rendered(Tree[e]) = c /\ Index(c, e) = k
    BY <1>1, <1>2, <1>3
  <2> HIDE DEF e
  <2>3. LET q == Tree[e]
            rows == Rendered(q)
            there == Index(rows, e) + offset
        IN  /\ there \in DOMAIN rows =>
                 FocusSibling(e, offset) = IF offset < 0 THEN FocusLast(rows[there]) ELSE rows[there]
            /\ there = 0 => FocusSibling(e, offset) = IF q \in Entries THEN q ELSE Absent
            /\ there \notin DOMAIN rows /\ there # 0 =>
                 FocusSibling(e, offset) = IF q \in Entries THEN FocusSibling(q, offset) ELSE Absent
    BY <2>2, SiblingIs
  <2>4. QED
    BY <2>2, <2>3
<1> HIDE DEF e
<1>6. FocusSibling(e, -1) = IF k = 1 THEN Parent(p) ELSE FocusLast(c[k - 1])
  <2>1. CASE k = 1
    <3>1. k + (-1) = 0 /\ -1 \in Int
      BY <2>1
    <3>2. FocusSibling(e, -1) = IF p \in Entries THEN p ELSE Absent
      BY <1>5, <3>1
    <3>3. QED
      BY <2>1, <3>2 DEF Parent
  <2>2. CASE k # 1
    <3>1. k + (-1) \in DOMAIN c /\ k + (-1) = k - 1 /\ -1 \in Int /\ -1 < 0
      BY <1>4, <2>2
    <3>2. FocusSibling(e, -1) = FocusLast(c[k + (-1)])
      BY <1>5, <3>1
    <3>3. QED
      BY <2>2, <3>1, <3>2
  <2>3. QED
    BY <2>1, <2>2
<1>7. FocusSibling(e, 1) = IF k = Len(c) THEN After(p) ELSE c[k + 1]
  <2>1. CASE k = Len(c)
    <3>1. k + 1 \notin DOMAIN c /\ k + 1 # 0 /\ 1 \in Int
      BY <1>4, <2>1
    <3>2. FocusSibling(e, 1) = IF p \in Entries THEN FocusSibling(p, 1) ELSE Absent
      BY <1>5, <3>1
    <3>3. QED
      BY <2>1, <3>2 DEF After
  <2>2. CASE k # Len(c)
    <3>1. k + 1 \in DOMAIN c /\ ~(1 < 0) /\ 1 \in Int
      BY <1>4, <2>2
    <3>2. FocusSibling(e, 1) = c[k + 1]
      BY <1>5, <3>1
    <3>3. QED
      BY <2>2, <3>2
  <2>3. QED
    BY <2>1, <2>2
<1>8. QED
  BY <1>6, <1>7 DEF c, e

\* The rows below p, if those of each entry in it are as the keys go.
LEMMA ChildrenFollow ==
  ASSUME Tree \in Trees, FewRows, NEW p \in expanded \cup {Top}, NEW below,
         \A e \in Entries : Tree[e] = p => RowGood(e, below), SortedChildren(p) # <<>>
  PROVE  /\ RowsOf(p, below) \in Seq(Entries) /\ RowsOf(p, below) # <<>>
         /\ Follows(RowsOf(p, below), Parent(p), After(p))
         /\ RowsOf(p, below)[1] = SortedChildren(p)[1]
         /\ RowsOf(p, below)[Len(RowsOf(p, below))] = FocusLast(SortedChildren(p)[Len(SortedChildren(p))])
<1> DEFINE c == SortedChildren(p)
<1> DEFINE rows == [i \in DOMAIN c |-> RowOf(c[i], below)]
<1>1. c \in Seq(Entries) /\ \A i \in DOMAIN c : c[i] \in Entries /\ Tree[c[i]] = p
  BY ChildrenAre
<1>2. RowsOf(p, below) = Joined(rows)
  BY DEF RowsOf, RowOf
<1>3. \A k \in DOMAIN c :
        /\ FocusSibling(c[k], -1) = IF k = 1 THEN Parent(p) ELSE FocusLast(c[k - 1])
        /\ FocusSibling(c[k], 1) = IF k = Len(c) THEN After(p) ELSE c[k + 1]
  BY SiblingsFollow
<1>4. c # <<>>
  OBVIOUS
<1> HIDE DEF c
<1>5. Len(c) \in Nat /\ Len(c) # 0 /\ DOMAIN c = 1..Len(c)
  BY <1>1, <1>4
<1>6. DOMAIN rows = 1..Len(c) /\ \A k \in 1..Len(c) : rows[k] = RowOf(c[k], below)
  BY <1>5
<1>7. ASSUME NEW k \in 1..Len(c)
      PROVE  /\ rows[k] \in Seq(Entries) /\ rows[k] # <<>>
             /\ rows[k][1] = c[k] /\ rows[k][Len(rows[k])] = FocusLast(c[k])
             /\ Follows(rows[k], FocusSibling(c[k], -1), FocusSibling(c[k], 1))
  <2> DEFINE e == c[k]
  <2>1. RowGood(e, below) /\ Tree[e] \in expanded \cup {Top} /\ rows[k] = RowOf(e, below)
    BY <1>1, <1>5, <1>6
  <2> HIDE DEF e, rows
  <2>2. QED
    BY <2>1 DEF RowGood, e
<1>8. rows \in Seq(Seq(Entries)) /\ Len(rows) = Len(c)
  <2>1. rows = [k \in 1..Len(c) |-> rows[k]]
    BY <1>5
  <2>2. \A k \in 1..Len(c) : rows[k] \in Seq(Entries)
    BY <1>7
  <2> HIDE DEF rows
  <2>3. QED
    BY <1>5, <2>1, <2>2
<1> HIDE DEF rows
<1>9. ASSUME NEW k \in DOMAIN rows PROVE Linked(rows, k, Parent(p), After(p))
  <2>1. k \in 1..Len(c) /\ k \in Int
    BY <1>6
  <2>2. FocusSibling(c[k], -1) = IF k = 1 THEN Parent(p) ELSE rows[k - 1][Len(rows[k - 1])]
    <3>1. k # 1 => k - 1 \in 1..Len(c)
      BY <1>5, <2>1
    <3>2. k # 1 => rows[k - 1][Len(rows[k - 1])] = FocusLast(c[k - 1])
      BY <1>7, <3>1
    <3>3. QED
      BY <1>3, <1>5, <2>1, <3>2
  <2>3. FocusSibling(c[k], 1) = IF k = Len(rows) THEN After(p) ELSE rows[k + 1][1]
    <3>1. k # Len(c) => k + 1 \in 1..Len(c)
      BY <1>5, <2>1
    <3>2. k # Len(c) => rows[k + 1][1] = c[k + 1]
      BY <1>7, <3>1
    <3>3. QED
      BY <1>3, <1>5, <1>8, <2>1, <3>2
  <2>4. rows[k] # <<>> /\ Follows(rows[k], FocusSibling(c[k], -1), FocusSibling(c[k], 1))
    BY <1>7, <2>1
  <2>5. QED
    BY <2>2, <2>3, <2>4 DEF Linked
<1>10. rows # <<>>
  BY <1>5, <1>8
<1> DEFINE first == Parent(p)
<1> DEFINE next == After(p)
<1> DEFINE all == Joined(rows)
<1>11. \A k \in DOMAIN rows : Linked(rows, k, first, next)
  BY <1>9
<1> HIDE DEF first, next
<1>12. /\ all \in Seq(Entries) /\ all # <<>> /\ Follows(all, first, next)
       /\ all[1] = rows[1][1] /\ all[Len(all)] = rows[Len(rows)][Len(rows[Len(rows)])]
  BY <1>8, <1>10, <1>11, JoinedFollows
<1> HIDE DEF all
<1>13. 1 \in 1..Len(c) /\ Len(c) \in 1..Len(c)
  BY <1>5
<1>14. all[1] = c[1] /\ all[Len(all)] = FocusLast(c[Len(c)])
  BY <1>7, <1>8, <1>12, <1>13
<1>15. QED
  BY <1>2, <1>12, <1>14 DEF all, first, next, c

\* Of nothing there are no rows.
LEMMA NoRows ==
  ASSUME NEW p, NEW below, SortedChildren(p) = <<>>
  PROVE  RowsOf(p, below) = <<>>
<1> DEFINE c == SortedChildren(p)
<1> DEFINE none == [i \in DOMAIN c |-> RowOf(c[i], below)]
<1>1. RowsOf(p, below) = Joined(none)
  BY DEF RowsOf, RowOf
<1>2. DOMAIN c = {} /\ 1..0 = {}
  OBVIOUS
<1>3. none = [i \in 1..0 |-> RowOf(c[i], below)]
  BY <1>2
<1> HIDE DEF c
<1>4. none \in Seq(Seq(Entries)) /\ Len(none) = 0
  BY <1>3
<1> HIDE DEF none
<1>5. PICK m \in [0..Len(none) -> Seq(Entries)] : m[0] = <<>> /\ Joined(none) = m[Len(none)]
  BY <1>4, JoinedSteps
<1>6. QED
  BY <1>1, <1>4, <1>5

\* One row, when those of what is in it are as the keys go.
LEMMA RowIsGood ==
  ASSUME Tree \in Trees, FewRows, expanded \subseteq FolderEntries, NEW below, IsBelow(below), NEW e \in Entries,
         \A x \in Entries : Tree[x] = e => RowGood(x, below)
  PROVE  RowGood(e, below)
<1> DEFINE c == SortedChildren(e)
<1> DEFINE one == <<e>>
<1>1. FocusLast(e) = IF e \in expanded /\ Rendered(e) # <<>> THEN FocusLast(Last(Rendered(e))) ELSE e
  BY LastIs
<1>2. RowAbove(e) = FocusSibling(e, -1)
  BY DEF RowAbove
<1>3. one \in Seq(Entries) /\ one # <<>> /\ one[1] = e /\ Len(one) = 1 /\ DOMAIN one = {1}
  OBVIOUS
<1>4. CASE e \in expanded /\ c # <<>>
  <2> DEFINE b == RowsOf(e, below)
  <2> DEFINE first == FocusSibling(e, -1)
  <2> DEFINE next == FocusSibling(e, 1)
  <2>1. RowOf(e, below) = one \o b
    <3>1. below[e] = RowsOf(e, below)
      BY <1>4 DEF IsBelow
    <3>2. QED
      BY <1>4, <3>1 DEF RowOf
  <2>2. Parent(e) = e /\ After(e) = next
    BY DEF Parent, After
  <2>3. /\ b \in Seq(Entries) /\ b # <<>> /\ Follows(b, Parent(e), After(e))
        /\ b[1] = c[1] /\ b[Len(b)] = FocusLast(c[Len(c)])
    <3>1. e \in expanded \cup {Top} /\ \A x \in Entries : Tree[x] = e => RowGood(x, below)
      BY <1>4
    <3>2. SortedChildren(e) # <<>>
      BY <1>4
    <3>3. QED
      BY <3>1, <3>2, ChildrenFollow
  <2>4. Rendered(e) = c
    BY <1>4, AllRendered
  <2>5. FocusLast(e) = FocusLast(c[Len(c)])
    BY <1>1, <1>4, <2>4 DEF Last
  <2>6. RowBelow(e) = c[1]
    BY <1>4, <2>4 DEF RowBelow
  <2> HIDE DEF b, c, first, next
  <2>7. Follows(one, first, b[1])
    BY <1>2, <1>3, <2>3, <2>6 DEF Follows, first
  <2>8. Follows(b, one[Len(one)], next)
    BY <1>3, <2>2, <2>3
  <2> HIDE DEF one
  <2> DEFINE r == one \o b
  <2>9. r # <<>> /\ Follows(r, first, next) /\ r[1] = one[1] /\ r[Len(r)] = b[Len(b)]
    BY <1>3, <2>3, <2>7, <2>8, ConcatFollows
  <2>10. r \in Seq(Entries)
    BY <1>3, <2>3
  <2> HIDE DEF r
  <2>11. RowOf(e, below) = r
    BY <2>1 DEF r
  <2>12. r[1] = e /\ r[Len(r)] = FocusLast(e) /\ Follows(r, FocusSibling(e, -1), FocusSibling(e, 1))
    BY <1>3, <2>3, <2>5, <2>9 DEF first, next
  <2>13. QED
    BY <2>9, <2>10, <2>11, <2>12 DEF RowGood
<1>5. CASE ~(e \in expanded /\ c # <<>>)
  <2>1. RowOf(e, below) = one
    <3>1. CASE e \in expanded
      <4>1. below[e] = RowsOf(e, below)
        BY <3>1 DEF IsBelow
      <4>2. c = <<>>
        BY <1>5, <3>1
      <4>3. RowsOf(e, below) = <<>>
        BY <4>2, NoRows
      <4>4. RowOf(e, below) = one \o <<>>
        BY <3>1, <4>1, <4>3 DEF RowOf
      <4>5. QED
        BY <1>3, <4>4
    <3>2. CASE e \notin expanded
      BY <3>2 DEF RowOf
    <3>3. QED
      BY <3>1, <3>2
  <2>2. Rendered(e) # <<>> => e \notin expanded
    <3>1. e \in expanded => Rendered(e) = c
      BY AllRendered
    <3>2. QED
      BY <1>5, <3>1
  <2>3. FocusLast(e) = e
    BY <1>1, <2>2
  <2>4. RowBelow(e) = FocusSibling(e, 1)
    BY <1>5 DEF RowBelow
  <2> HIDE DEF one
  <2>5. Follows(one, FocusSibling(e, -1), FocusSibling(e, 1))
    BY <1>2, <1>3, <2>4 DEF Follows
  <2>6. QED
    BY <1>3, <2>1, <2>3, <2>5 DEF RowGood
<1>6. QED
  BY <1>4, <1>5

LEMMA KeysFollow ==
  ASSUME SoundTree
  PROVE  KeysFollowRows
<1>1. SUFFICES ASSUME FewRows
               PROVE  LET rows == OrderedEntries
                          Row(i) == IF i \in DOMAIN rows THEN rows[i] ELSE Absent
                      IN  \A i \in DOMAIN rows : RowAbove(rows[i]) = Row(i - 1) /\ RowBelow(rows[i]) = Row(i + 1)
  BY DEF KeysFollowRows, FewRows
<1>2. Tree \in Trees /\ expanded \subseteq FolderEntries
  BY LastTree DEF SoundTree
<1>3. PICK below, depth :
        IsDeep(Tree, depth) /\ IsBelow(below) /\ OrderedEntries = below[Top]
  BY <1>2, BelowExists
<1> DEFINE K == Len(EntryOrder)
<1> DEFINE level == [e \in Entries |-> K - depth[e]]
<1> DEFINE T == {e \in Entries : RowGood(e, below)}
<1>4. K \in Nat /\ depth \in [Entries -> 1..K]
  BY <1>3, OrderIs DEF IsDeep
<1> HIDE DEF K
<1>5. level \in [Entries -> Nat]
  BY <1>4
<1>6. ASSUME NEW e \in Entries, \A x \in Entries : level[x] < level[e] => x \in T PROVE e \in T
  <2>1. ASSUME NEW x \in Entries, Tree[x] = e PROVE RowGood(x, below)
    <3>1. depth[e] < depth[x] /\ depth[e] \in 1..K /\ depth[x] \in 1..K
      BY <1>3, <1>4, <2>1 DEF IsDeep
    <3>2. level[x] < level[e]
      BY <1>4, <3>1
    <3>3. QED
      BY <1>6, <3>2
  <2>2. RowGood(e, below)
    BY <1>1, <1>2, <1>3, <2>1, RowIsGood
  <2>3. QED
    BY <2>2
<1> HIDE DEF level, T
<1>7. Entries \subseteq T
  BY <1>5, <1>6, LevelInduction
<1>8. \A e \in Entries : RowGood(e, below)
  BY <1>7 DEF T
<1> DEFINE rows == OrderedEntries
<1>9. rows = RowsOf(Top, below) /\ rows \in Seq(Entries)
  <2>1. below[Top] = RowsOf(Top, below)
    BY <1>3 DEF IsBelow
  <2>2. QED
    BY <1>2, <1>3, <2>1, OrderedOnce
<1>10. Follows(rows, Absent, Absent)
  <2>1. CASE SortedChildren(Top) # <<>>
    <3>1. Top \in expanded \cup {Top} /\ \A e \in Entries : Tree[e] = Top => RowGood(e, below)
      BY <1>8
    <3>2. Follows(RowsOf(Top, below), Parent(Top), After(Top))
      BY <1>1, <1>2, <2>1, <3>1, ChildrenFollow
    <3>3. Parent(Top) = Absent /\ After(Top) = Absent
      BY OrderIs DEF Parent, After
    <3>4. QED
      BY <1>9, <3>2, <3>3
  <2>2. CASE SortedChildren(Top) = <<>>
    <3>1. rows = <<>>
      BY <1>9, <2>2, NoRows
    <3>2. QED
      BY <3>1 DEF Follows
  <2>3. QED
    BY <2>1, <2>2
<1> HIDE DEF rows
<1>11. Len(rows) \in Nat /\ DOMAIN rows = 1..Len(rows)
  BY <1>9
<1>12. ASSUME NEW i \in DOMAIN rows
       PROVE  /\ RowAbove(rows[i]) = IF i - 1 \in DOMAIN rows THEN rows[i - 1] ELSE Absent
              /\ RowBelow(rows[i]) = IF i + 1 \in DOMAIN rows THEN rows[i + 1] ELSE Absent
  <2>1. i - 1 \in DOMAIN rows <=> i # 1
    BY <1>11
  <2>2. i + 1 \in DOMAIN rows <=> i # Len(rows)
    BY <1>11
  <2>3. QED
    BY <1>10, <2>1, <2>2 DEF Follows
<1>13. QED
  BY <1>12 DEF rows

\* The arrow keys follow the rows in the order in which ranges are selected, in every
\* workspace, whatever is expanded and however it is sorted, unless a folder has too
\* many entries to show (Node.tsx and TreeBrowser/index.tsx, focusEntry,
\* focusLastChild; treeUtils.ts, treeToOrderedEntries).
THEOREM KeysAlwaysFollowRows == TreeSpec => []KeysFollowRows
<1>1. TreeInv => KeysFollowRows
  BY KeysFollow DEF TreeInv
<1>2. QED
  BY TreeInvariant, <1>1, PTL
==============================================================================
