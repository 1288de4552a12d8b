---------------------------- MODULE WorkspaceList ----------------------------
(***************************************************************************)
(* The list of workspaces in the sidebar, creating and deleting one, and   *)
(* the redirection to the workspace that was open last.                    *)
(***************************************************************************)
EXTENDS Integers, Sequences, FiniteSets, SequencesExt

CONSTANTS
  WorkspaceIds,
  Nowhere,       \* /workspaces, or no workspace
  MaxLists,      \* bound: lists in flight
  MaxChanges,    \* bound: creations and deletions
  MaxMoves       \* bound: what the user opens

VARIABLES
  existing,   \* on the server
  listed,     \* state.workspaces.workspacesMetadata
  sidebar,    \* what the sidebar has made of it
  lists,      \* lists in flight: what the server has read, or nothing yet
  at,         \* the workspace of the page, Nowhere for the page without one, or "elsewhere"
  remembered, \* selectedWorkspaceId of the local storage
  changes,    \* creations and deletions in flight
  changed, moves,
  disturbed   \* a request failed, or a list overtook another

listVars == <<existing, listed, sidebar, lists, at, remembered, changes, changed, moves, disturbed>>

Elsewhere == "elsewhere"

ASSUME NowhereAssumption ==
  Nowhere \notin WorkspaceIds /\ Elsewhere \notin WorkspaceIds \cup {Nowhere}

UnreadList == [read |-> FALSE, ids |-> {}]

ListTypeOK ==
  /\ {existing, listed, sidebar} \subseteq SUBSET WorkspaceIds
  /\ lists \in Seq([read : BOOLEAN, ids : SUBSET WorkspaceIds])
  /\ at \in WorkspaceIds \cup {Nowhere, Elsewhere}
  /\ remembered \in WorkspaceIds \cup {Nowhere}
  /\ changes \in Seq([kind : {"create", "delete"}, id : WorkspaceIds, done : BOOLEAN])
  /\ changed \in 0..MaxChanges /\ moves \in 0..MaxMoves
  /\ disturbed \in BOOLEAN

(***************************************************************************)
(* The list.                                                               *)
(***************************************************************************)

GetWorkspacesMetadata == Len(lists) < MaxLists /\ lists' = Append(lists, UnreadList)

\* componentWillReceiveProps of the sidebar.
Redirect(list) == IF remembered \in list /\ at = Nowhere THEN remembered ELSE at

\* componentDidUpdate of the page puts its own back.
Remembers(list, address) ==
  IF address \in WorkspaceIds THEN address
  ELSE IF at # Elsewhere /\ remembered \notin list THEN Nowhere ELSE remembered

ListRead(i) ==
  /\ ~lists[i].read
  /\ lists' = [lists EXCEPT ![i] = [read |-> TRUE, ids |-> existing]]
  /\ UNCHANGED <<existing, listed, sidebar, at, remembered, changes, changed, moves, disturbed>>

ListAnswered(i) ==
  /\ lists[i].read
  /\ lists' = RemoveAt(lists, i)
  /\ listed' = lists[i].ids
  /\ sidebar' = IF at = Elsewhere THEN sidebar ELSE lists[i].ids
  /\ at' = Redirect(lists[i].ids)
  /\ remembered' = Remembers(lists[i].ids, at')
  /\ disturbed' = (disturbed \/ i # 1)
  /\ UNCHANGED <<existing, changes, changed, moves>>

ListFailed(i) ==
  /\ lists' = RemoveAt(lists, i)
  /\ disturbed' = TRUE
  /\ UNCHANGED <<existing, listed, sidebar, at, remembered, changes, changed, moves>>

(***************************************************************************)
(* The user.                                                               *)
(***************************************************************************)

Moves == moves < MaxMoves /\ moves' = moves + 1

\* The sidebar is mounted with nothing in it.
Enter(w) ==
  /\ at = Elsewhere /\ Moves
  /\ at' = w /\ sidebar' = {}
  /\ remembered' = IF w = Nowhere THEN remembered ELSE w
  /\ GetWorkspacesMetadata
  /\ UNCHANGED <<existing, listed, changes, changed, disturbed>>

Leave ==
  /\ at # Elsewhere /\ Moves
  /\ at' = Elsewhere
  /\ UNCHANGED <<existing, listed, sidebar, lists, remembered, changes, changed, disturbed>>

Open(w) ==
  /\ at # Elsewhere /\ w # at /\ w \in sidebar \cup {Nowhere} /\ Moves
  /\ at' = w
  /\ remembered' = IF w = Nowhere THEN remembered ELSE w
  /\ UNCHANGED <<existing, listed, sidebar, lists, changes, changed, disturbed>>

\* The modal asks for the list when it is dismissed, submitted or not.
DismissModal ==
  /\ at # Elsewhere /\ Moves
  /\ GetWorkspacesMetadata
  /\ UNCHANGED <<existing, listed, sidebar, at, remembered, changes, changed, disturbed>>

Change(kind, id) ==
  /\ changed < MaxChanges /\ changed' = changed + 1
  /\ changes' = Append(changes, [kind |-> kind, id |-> id, done |-> FALSE])

CreateWorkspace(id) ==
  /\ at # Elsewhere /\ id \notin existing
  /\ \A i \in DOMAIN changes : changes[i].id # id
  /\ Change("create", id)
  /\ GetWorkspacesMetadata
  /\ UNCHANGED <<existing, listed, sidebar, at, remembered, moves, disturbed>>

\* Offered once the page shows it.
DeleteWorkspace(id) ==
  /\ at = id /\ id \in existing
  /\ Change("delete", id)
  /\ UNCHANGED <<existing, listed, sidebar, lists, at, remembered, moves, disturbed>>

(***************************************************************************)
(* The server, and the answers.                                            *)
(***************************************************************************)

\* A workspace that is gone is not deleted again.
ChangeDone(i) ==
  /\ ~changes[i].done
  /\ changes[i].kind = "delete" => changes[i].id \in existing
  /\ existing' = IF changes[i].kind = "create" THEN existing \cup {changes[i].id}
                 ELSE existing \ {changes[i].id}
  /\ changes' = [changes EXCEPT ![i].done = TRUE]
  /\ UNCHANGED <<listed, sidebar, lists, at, remembered, changed, moves, disturbed>>

\* history.push: the sidebar is mounted if the user was elsewhere, and asks again.
GoesTo(w) ==
  /\ at' = w
  /\ remembered' = IF w = Nowhere THEN remembered ELSE w
  /\ sidebar' = IF at = Elsewhere THEN {} ELSE sidebar

\* Mutant: the one who is sent back relies on a sidebar that is mounted for it.
ListsAskedByMount(n) ==
  /\ Len(lists) + n - 1 <= MaxLists
  /\ lists' = lists \o [i \in 1..n - 1 |-> UnreadList]

ListsAsked(n) ==
  /\ Len(lists) + n <= MaxLists
  /\ lists' = lists \o [i \in 1..n |-> UnreadList]

CreateAnswered(i) ==
  /\ changes[i].done /\ changes[i].kind = "create"
  /\ changes' = RemoveAt(changes, i)
  /\ ListsAsked(IF at = Elsewhere THEN 2 ELSE 1)
  /\ GoesTo(changes[i].id)
  /\ UNCHANGED <<existing, listed, changed, moves, disturbed>>

DeleteAnswered(i) ==
  /\ changes[i].done /\ changes[i].kind = "delete"
  /\ changes' = RemoveAt(changes, i)
  /\ ListsAsked(IF at = Elsewhere THEN 2 ELSE 1)
  /\ GoesTo(Nowhere)
  /\ UNCHANGED <<existing, listed, changed, moves, disturbed>>

ChangeFailed(i) ==
  /\ changes' = RemoveAt(changes, i)
  /\ disturbed' = (disturbed \/ changes[i].done)
  /\ UNCHANGED <<existing, listed, sidebar, lists, at, remembered, changed, moves>>

(***************************************************************************)
(* The specification.                                                      *)
(***************************************************************************)

ListInit ==
  /\ existing \in SUBSET WorkspaceIds
  /\ listed = {} /\ sidebar = {} /\ lists = <<>>
  /\ at = Elsewhere
  /\ remembered \in WorkspaceIds \cup {Nowhere}
  /\ changes = <<>> /\ changed = 0 /\ moves = 0
  /\ disturbed = FALSE

ListNext ==
  \/ \E w \in existing \cup {Nowhere} : Enter(w)
  \/ \E w \in WorkspaceIds \cup {Nowhere} : Open(w)
  \/ Leave \/ DismissModal
  \/ \E id \in WorkspaceIds : CreateWorkspace(id) \/ DeleteWorkspace(id)
  \/ \E i \in DOMAIN lists : ListRead(i) \/ ListAnswered(i) \/ ListFailed(i)
  \/ \E i \in DOMAIN changes :
       ChangeDone(i) \/ CreateAnswered(i) \/ DeleteAnswered(i) \/ ChangeFailed(i)

ListSpec == ListInit /\ [][ListNext]_listVars

(***************************************************************************)
(* Properties.                                                             *)
(***************************************************************************)

Quiet == lists = <<>> /\ changes = <<>>

\* When all has been answered, nothing has failed and no list has overtaken
\* another, the sidebar lists the workspaces there are, whichever page the
\* user was on when a creation or a deletion was answered
\* (createWorkspace.ts, deleteWorkspace.ts, WorkspacesSidebar.tsx).
SidebarIsCurrent == Quiet /\ ~disturbed /\ at # Elsewhere => sidebar = existing

\* Refuted.  "We want to redirect to workspace stored in localStorage if the
\* workspace stored in there exists" (components/workspace/WorkspacesSidebar.tsx:50):
\* with nothing lost or overtaken, a list read before a deletion and answered
\* after it brings the user back to the workspace that is gone, and it is
\* remembered again.
NotAtDeleted == Quiet /\ ~disturbed => at \in existing \cup {Nowhere, Elsewhere}
==============================================================================
