-------------------------- MODULE MCWorkspacePages --------------------------
(***************************************************************************)
(* Small instances of what a user has open about workspaces, one of them   *)
(* at a time: the tree of a workspace, its page, the moves within it, the  *)
(* list of workspaces.  The rest stays as it opens.                        *)
(***************************************************************************)
EXTENDS WorkspaceTree, WorkspacePage, WorkspaceMoves, WorkspaceList, TLC

CONSTANTS wa, wb, x

VARIABLE part

workspaceVars == <<part, treeVars, pageVars, movesVars, listVars>>

ByName == <<1, 2, 3, 4>>

\* A folder in a folder with a file each, and a file; then the inner folder moves up
\* and the last file goes,
\* or all gather in one folder, which then has too many to show.
Nested == (1 :> Top) @@ (2 :> 1) @@ (3 :> 2) @@ (4 :> Top)
SomeTrees ==
  {Nested,
   (1 :> Top) @@ (2 :> Top) @@ (3 :> 2) @@ (4 :> Absent),
   (1 :> Top) @@ (2 :> 1) @@ (3 :> 1) @@ (4 :> 1)}

HomeOf == x :> wa

\* A batch of two and one of one, and an entry alone.
SomeSelections == {<<1, 2, 3>>, <<2>>}

WorkspacesInit ==
  /\ part \in {"tree", "page", "moves", "list"}
  /\ (part = "tree" \/ (trees = <<Nested>> /\ expanded = {})) /\ TreeInit
  /\ (part = "list" \/ (existing = {} /\ remembered = Nowhere)) /\ ListInit
  /\ PageInit /\ MovesInit

UseTree == part = "tree" /\ TreeNext /\ UNCHANGED <<part, pageVars, movesVars, listVars>>
UsePage == part = "page" /\ PageNext /\ UNCHANGED <<part, treeVars, movesVars, listVars>>
UseMoves == part = "moves" /\ MovesNext /\ UNCHANGED <<part, treeVars, pageVars, listVars>>
UseList == part = "list" /\ ListNext /\ UNCHANGED <<part, treeVars, pageVars, movesVars>>

WorkspacesNext == UseTree \/ UsePage \/ UseMoves \/ UseList

WorkspacesSpec == WorkspacesInit /\ [][WorkspacesNext]_workspaceVars

\* Each page has states of its type.
WorkspacesTypeOK == TreeTypeOK /\ PageTypeOK /\ MovesTypeOK /\ ListTypeOK
=============================================================================
