---------------------------- MODULE WorkspaceTree ----------------------------
(***************************************************************************)
(* The tree of a workspace on screen: rows, expansion, selection with the  *)
(* mouse and the keyboard, and what a drag moves.  The workspace may be    *)
(* fetched again at any moment: its entries are then other objects, of     *)
(* another generation, and the ones held in the store stay what they were. *)
(***************************************************************************)
EXTENDS Integers, Sequences, FiniteSets, SequencesExt

CONSTANTS
  EntryOrder,     \* the entries in the order of the Name column, folders first
  FolderEntries,  \* those that are nodes
  Trees,          \* trees the server may answer with: entry -> parent
  MaxChildren,    \* MAX_NUMBER_OF_CHILDREN
  MaxGeneration,  \* bound: fetches
  MaxGestures     \* bound: what the user does

Top == 0      \* the root
Absent == -1  \* not in the workspace

Entries == Range(EntryOrder)

ASSUME EntriesAssumption ==
  /\ Entries \subseteq Nat \ {Top} /\ FolderEntries \subseteq Entries
  /\ IsInjective(EntryOrder)
  /\ EntryOrder \in Seq(Nat)
  /\ MaxChildren \in Nat
  /\ Trees \subseteq [Entries -> FolderEntries \cup {Top, Absent}]

\* A tree is an answer in which every folder holds its children: no entry is below
\* itself.
ASSUME TreesAssumption ==
  \A t \in Trees : \E depth \in [Entries -> 1..Len(EntryOrder)] :
    \A e \in Entries : t[e] \in Entries => depth[t[e]] < depth[e]

VARIABLES
  trees,          \* the tree of each generation; the last is on screen
  selection,      \* selectedEntries, in order
  focused,        \* focusedEntry
  expanded,       \* ids of expandedNodes
  previousShift,  \* ids of previousShiftClickSelectedEntries
  sortDescending,
  keyboard,       \* the row that has the focus of the browser
  gestures

treeVars ==
  <<trees, selection, focused, expanded, previousShift, sortDescending, keyboard, gestures>>

NoEntry == [id |-> Absent, generation |-> 0]
Objects == [id : Entries, generation : 1..MaxGeneration]

TreeTypeOK ==
  /\ trees \in Seq(Trees) /\ Len(trees) \in 1..MaxGeneration
  /\ selection \in Seq(Objects)
  /\ focused \in Objects \cup {NoEntry}
  /\ expanded \subseteq FolderEntries
  /\ previousShift \subseteq Entries
  /\ sortDescending \in BOOLEAN
  /\ keyboard \in Entries \cup {Absent}
  /\ gestures \in 0..MaxGestures

\* filter: those of s that are in keep.
Those(s, keep) ==
  LET those[n \in 0..Len(s)] ==
        IF n = 0 THEN <<>> ELSE IF s[n] \in keep THEN Append(those[n - 1], s[n]) ELSE those[n - 1]
  IN  those[Len(s)]

\* entriesIndexOf, with 0 for what is not there.
Index(rows, x) == IF x \in Range(rows) THEN CHOOSE i \in DOMAIN rows : rows[i] = x ELSE 0

Ids(objects) == {objects[i].id : i \in DOMAIN objects}

(***************************************************************************)
(* Rows.                                                                   *)
(***************************************************************************)

Generation == Len(trees)
Tree == trees[Generation]
Object(e) == [id |-> e, generation |-> Generation]

\* sortEntries: descending reverses it all.
SortedChildren(p) ==
  LET sorted == Those(EntryOrder, {e \in Entries : Tree[e] = p})
  IN  IF sortDescending THEN Reverse(sorted) ELSE sorted

\* treeToOrderedEntries: the entries in the order of the rows.
Joined(rows) ==
  LET joined[n \in 0..Len(rows)] == IF n = 0 THEN <<>> ELSE joined[n - 1] \o rows[n]
  IN  joined[Len(rows)]

RowsOf(p, below) ==
  LET children == SortedChildren(p)
      Row(e) == IF e \in expanded THEN <<e>> \o below[e] ELSE <<e>>
  IN  Joined([i \in DOMAIN children |-> Row(children[i])])

OrderedEntries ==
  LET below[p \in FolderEntries \cup {Top}] == RowsOf(p, below) IN below[Top]

\* The rows there are below an expanded entry: too many are not rendered.
Rendered(p) ==
  LET children == SortedChildren(p)
  IN  IF Len(children) >= MaxChildren THEN <<>> ELSE children

IsRow(e) ==
  LET row[x \in Entries] ==
        LET p == Tree[x]
        IN  p # Absent /\ Contains(Rendered(p), x) /\ (p # Top => p \in expanded /\ row[p])
  IN  row[e]

(***************************************************************************)
(* The keyboard: each row knows its siblings only, and asks its parent.    *)
(***************************************************************************)

\* Mutant: a folder that is expanded takes the focus itself.
FocusLastShallow(e) == e

FocusLast(e) ==
  LET last[x \in Entries] ==
        IF x \in expanded /\ Rendered(x) # <<>> THEN last[Last(Rendered(x))] ELSE x
  IN  last[e]

\* focusSibling of the row e.
FocusSibling(e, offset) ==
  LET sibling[x \in Entries] ==
        LET p == Tree[x]
            rows == Rendered(p)
            target == Index(rows, x) + offset
        IN  CASE target \in DOMAIN rows -> IF offset < 0 THEN FocusLast(rows[target]) ELSE rows[target]
              [] target = 0 -> IF p \in Entries THEN p ELSE Absent
              [] OTHER -> IF p \in Entries THEN sibling[p] ELSE Absent
  IN  sibling[e]

RowAbove(e) == FocusSibling(e, -1)

\* An expanded folder goes to its first child; one with too many stays.
RowBelow(e) ==
  IF e \in expanded /\ SortedChildren(e) # <<>>
    THEN IF Rendered(e) # <<>> THEN Head(Rendered(e)) ELSE FocusSibling(e, 0)
    ELSE FocusSibling(e, 1)

(***************************************************************************)
(* Selection.  A state of it is what the store and the page hold.          *)
(***************************************************************************)

Selected == [selection |-> selection, focused |-> focused, previous |-> previousShift]

IsSelected(e) == e \in Ids(selection)

Selects(s) ==
  /\ selection' = s.selection
  /\ focused' = s.focused
  /\ previousShift' = s.previous

\* setSelectedEntry.
SelectOnly(s, o) == [selection |-> <<o>>, focused |-> o, previous |-> {}]

\* setSelectedEntriesAfterMetaClick.
Toggle(s, o) ==
  LET others == Those(s.selection, {x \in Range(s.selection) : x.id # o.id})
      latest == IF others = <<>> THEN NoEntry ELSE Last(others)
  IN  IF o.id \in Ids(s.selection)
        THEN [selection |-> others, previous |-> {},
              focused |-> IF s.focused.id = o.id THEN latest ELSE s.focused]
        ELSE [selection |-> Append(s.selection, o), focused |-> o, previous |-> {}]

\* getShiftClickSelectedEntries: slice(-1, n) from one that is no row is empty, or
\* the last row.
ShiftRange(anchor, e) ==
  LET rows == OrderedEntries
      a == Index(rows, anchor)  b == Index(rows, e)
      from == IF 0 \in {a, b} THEN Len(rows) ELSE IF a <= b THEN a ELSE b
      to == IF a <= b THEN b ELSE a
  IN  IF to = 0 THEN <<>> ELSE SubSeq(rows, from, to)

NewSelection(s, range) ==
  Those(s.selection, {x \in Range(s.selection) : x.id \notin s.previous \cup Range(range)})
    \o [i \in DOMAIN range |-> Object(range[i])]

\* setSelectedEntriesAfterShiftClick.
Extend(s, o) ==
  LET anchor == IF s.focused = NoEntry THEN Object(Head(OrderedEntries)) ELSE s.focused
      range == ShiftRange(anchor.id, o.id)
  IN  [selection |-> NewSelection(s, range), focused |-> anchor, previous |-> Range(range)]

\* With both, meta is what counts.
Modifiers == {"none", "meta", "shift"}

\* onFocus.
OnFocus(s, o, modifier) ==
  CASE modifier = "meta" -> Toggle(s, o)
    [] modifier = "shift" -> Extend(s, o)
    [] OTHER -> SelectOnly(s, o)

(***************************************************************************)
(* What the user does.                                                     *)
(***************************************************************************)

Gesture == gestures < MaxGestures /\ gestures' = gestures + 1
TreeUnchanged == UNCHANGED <<trees, sortDescending>>
\* A row that is unmounted loses the focus of the browser.
KeyboardOnRow == keyboard' = IF keyboard \in {e \in Entries : IsRow(e)'} THEN keyboard ELSE Absent

\* Pressing on a selected row waits: it may be the start of a drag.
MouseDown(e, modifier) ==
  /\ Gesture /\ IsRow(e)
  /\ keyboard' = e
  /\ Selects(IF ~IsSelected(e) \/ modifier = "meta"
               THEN OnFocus(Selected, Object(e), modifier) ELSE Selected)
  /\ TreeUnchanged /\ UNCHANGED expanded

\* A toggle was done when the button went down.
MouseUp(e, modifier) ==
  /\ Gesture /\ IsRow(e) /\ modifier # "meta"
  /\ keyboard' = e
  /\ Selects(OnFocus(Selected, Object(e), modifier))
  /\ TreeUnchanged /\ UNCHANGED expanded

\* Up and down; home and end call focus with the event and the name of the key
\* for meta and shift.
MoveTo(e, modifier) ==
  /\ e \in Entries /\ Gesture
  /\ keyboard' = e
  /\ Selects(OnFocus(Selected, Object(e), modifier))
  /\ TreeUnchanged /\ UNCHANGED expanded

ArrowUp(modifier) == keyboard # Absent /\ MoveTo(RowAbove(keyboard), modifier)
ArrowDown(modifier) == keyboard # Absent /\ MoveTo(RowBelow(keyboard), modifier)
HomeKey == Rendered(Top) # <<>> /\ MoveTo(Head(Rendered(Top)), "meta")
EndKey == Rendered(Top) # <<>> /\ MoveTo(FocusLast(Last(Rendered(Top))), "meta")

\* ArrowRight, ArrowLeft, Enter, the chevron or a double click.
SetExpanded(e, to, modifier) ==
  /\ Gesture /\ IsRow(e) /\ e \in FolderEntries
  /\ expanded' = to
  /\ Selects(OnFocus(Selected, Object(e), modifier))
  /\ TreeUnchanged /\ KeyboardOnRow

Expand(e, modifier) == SetExpanded(e, expanded \cup {e}, modifier)
Collapse(e, modifier) == SetExpanded(e, expanded \ {e}, modifier)

\* A click below the rows, or escape.
ClearFocus ==
  /\ Gesture
  /\ Selects([Selected EXCEPT !.selection = <<>>, !.focused = NoEntry])
  /\ TreeUnchanged /\ UNCHANGED <<keyboard, expanded>>

OpenContextMenu(e) ==
  /\ Gesture /\ IsRow(e)
  /\ Selects([Selected EXCEPT !.selection = <<Object(e)>>, !.focused = Object(e)])
  /\ TreeUnchanged /\ UNCHANGED <<keyboard, expanded>>

ClickColumn ==
  /\ Gesture
  /\ sortDescending' = ~sortDescending
  /\ UNCHANGED <<trees, selection, focused, expanded, previousShift, keyboard>>

\* A link to an entry: the folders on the way are expanded, and it is focused.
OpenLocation(e) ==
  /\ gestures = 0 /\ Gesture /\ Tree[e] # Absent
  /\ LET way[x \in Entries] == IF Tree[x] = Top THEN {x} ELSE {x} \cup way[Tree[x]]
     IN  expanded' = expanded \cup (way[e] \cap FolderEntries)
  /\ Selects([Selected EXCEPT !.focused = Object(e)])
  /\ TreeUnchanged /\ UNCHANGED keyboard

(***************************************************************************)
(* Moving.                                                                 *)
(***************************************************************************)

\* Mutant: only the children of a folder count.
IsChildOf(o, folder) ==
  /\ o.generation = folder.generation
  /\ folder.id \in FolderEntries
  /\ trees[folder.generation][o.id] = folder.id

\* child === potentialDescendant: of the same fetch.
IsDescendantOf(o, folder) ==
  LET t == trees[folder.generation]
      in[x \in Entries] == t[x] = folder.id \/ (t[x] \in Entries /\ in[t[x]])
  IN  o.generation = folder.generation /\ folder.id \in FolderEntries /\ in[o.id]

EntriesToMove(dragged) ==
  IF ~IsSelected(dragged) THEN <<>>
  ELSE Those(selection,
             {o \in Range(selection) : \A i \in DOMAIN selection : ~IsDescendantOf(o, selection[i])})

(***************************************************************************)
(* The workspace is fetched again.                                         *)
(***************************************************************************)

Refresh(t) ==
  /\ Generation < MaxGeneration
  /\ trees' = Append(trees, t)
  /\ UNCHANGED <<selection, focused, expanded, previousShift, sortDescending, gestures>>
  /\ KeyboardOnRow

(***************************************************************************)
(* The specification.                                                      *)
(***************************************************************************)

TreeInit ==
  /\ trees \in {<<t>> : t \in Trees}
  /\ selection = <<>> /\ focused = NoEntry
  /\ expanded \in SUBSET FolderEntries \* left from before
  /\ previousShift = {}
  /\ sortDescending = FALSE
  /\ keyboard = Absent
  /\ gestures = 0

TreeNext ==
  \/ \E e \in Entries, modifier \in Modifiers :
       \/ MouseDown(e, modifier) \/ MouseUp(e, modifier)
       \/ Expand(e, modifier) \/ Collapse(e, modifier)
  \/ \E modifier \in Modifiers : ArrowUp(modifier) \/ ArrowDown(modifier)
  \/ HomeKey \/ EndKey
  \/ ClearFocus \/ ClickColumn
  \/ \E e \in Entries : OpenContextMenu(e) \/ OpenLocation(e)
  \/ \E t \in Trees : Refresh(t)

TreeSpec == TreeInit /\ [][TreeNext]_treeVars

(***************************************************************************)
(* Properties.                                                             *)
(***************************************************************************)

\* No entry is selected twice, whatever clicks, toggles and ranges with
\* anchors that are hidden or gone came before: an entry that is there twice
\* is moved twice, and toggling it counts wrongly
\* (Workspaces.tsx, setSelectedEntriesAfterShiftClick; treeUtils.ts,
\* newSelectionFromShiftClick).
SelectedOnce == Cardinality(Ids(selection)) = Len(selection)

\* The arrow keys, which go from row to row by asking siblings and parents,
\* follow the rows in the order in which ranges are selected, unless a folder
\* has too many entries to show (Node.tsx and TreeBrowser/index.tsx,
\* focusEntry, focusLastChild; treeUtils.ts, treeToOrderedEntries).
KeysFollowRows ==
  LET rows == OrderedEntries
      Row(i) == IF i \in DOMAIN rows THEN rows[i] ELSE Absent
  IN  (\A p \in expanded \cup {Top} : Len(SortedChildren(p)) < MaxChildren)
        => \A i \in DOMAIN rows : RowAbove(rows[i]) = Row(i - 1) /\ RowBelow(rows[i]) = Row(i + 1)

InsideOf(o, folder) ==
  LET in[x \in Entries] == Tree[x] = folder.id \/ (Tree[x] \in Entries /\ in[Tree[x]])
  IN  in[o.id]

MovesInside ==
  \E dragged \in Ids(selection) :
    LET moved == EntriesToMove(dragged)
    IN  \E i, j \in DOMAIN moved : InsideOf(moved[i], moved[j])

\* A drop moves no entry along with a folder it is in, as long as all that is
\* selected is of the tree on screen: else what is in the folder would be
\* moved out of it (treeUtils.ts, getIdsOfEntriesToMove).
MovesWholeFolders ==
  (\A i \in DOMAIN selection : selection[i].generation = Generation) => ~MovesInside

\* What a drop moves is moved once and whole (treeUtils.ts, getIdsOfEntriesToMove).
DropsOnceAndWhole == SelectedOnce /\ MovesWholeFolders

\* Refuted.  The same without the condition: "It's important to match on the
\* id and not for object equality, because we may have re-fetched the workspace
\* and create new objects" (util/treeUtils.ts:11-12), but isDescendantOf (63)
\* compares objects.
DescendantsStayInside == ~MovesInside
==============================================================================
