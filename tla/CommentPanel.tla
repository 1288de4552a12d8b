----------------------------- MODULE CommentPanel -----------------------------
(***************************************************************************)
(* The comments beside a text: each next to its line, pushed down by those *)
(* above it or pulled up for the one in focus, as their heights become     *)
(* known one rendering after another.                                      *)
(***************************************************************************)
EXTENDS Sums, FiniteSets

CONSTANTS
  Count,         \* comments, known by the order they were posted in
  Tops,          \* of lines
  Heights,       \* of comments
  Margin,
  None

Ids == 1..Count

ASSUME CommentPanelAssumption ==
  /\ Count \in Nat /\ Margin \in Nat
  /\ Tops \subseteq Nat /\ Heights \subseteq Nat
  /\ None \notin Ids

VARIABLES
  top, tall,       \* of each comment: its line, and how high it is when it is displayed
  comments,        \* those the panel is given
  heights,         \* those it has measured
  height,          \* what it has measured of them
  focused, previous

panelVars == <<top, tall, comments, heights, height, focused, previous>>

CommentPanelTypeOK ==
  /\ top \in [Ids -> Tops] /\ tall \in [Ids -> Heights] /\ height \in [Ids -> Heights \cup {0}]
  /\ comments \subseteq Ids /\ heights \subseteq Ids
  /\ {focused, previous} \subseteq Ids \cup {None}

(***************************************************************************)
(* Layout.                                                                 *)
(***************************************************************************)

Placed == comments \cap heights
Total(members) == SumOf([c \in Ids |-> IF c \in members THEN height[c] + Margin ELSE 0])

Increasing(s) == \A i, j \in DOMAIN s : i < j => s[i] < s[j]
TopsInOrder(lines) == CHOOSE s \in [1..Cardinality(lines) -> lines] : Increasing(s)

Group(line) ==
  LET members == {c \in Placed : top[c] = line}
  IN  [top |-> line, height |-> Total(members), comments |-> members]

GroupCommentsByTop ==
  LET lines == TopsInOrder({top[c] : c \in Placed}) IN [i \in DOMAIN lines |-> Group(lines[i])]

Root == IF focused # None THEN focused ELSE previous

HasRoot(group, root) == root \in group.comments

\* Where its group has to be for the root to be at its line.
RootTop(group, root) == group.top - Total({c \in group.comments : c < root})

\* Mutant: a group stays at its line.
PushNothing(acc, group, root) == Append(acc, group)

PushDown(acc, group, root) ==
  LET offset == IF acc = <<>> THEN group.top ELSE acc[Len(acc)].top + acc[Len(acc)].height + Margin IN
  Append(acc, [group EXCEPT !.top =
    IF HasRoot(group, root) THEN RootTop(group, root) ELSE IF @ < offset THEN offset ELSE @])

Pushed(groups, root) ==
  LET pushed[n \in 0..Len(groups)] ==
        IF n = 0 THEN <<>> ELSE PushDown(pushed[n - 1], groups[n], root)
  IN  pushed[Len(groups)]

\* Groups are taken from the last to the first, and left alone until the root is met.
PullUp(group, acc, root) ==
  LET overlap == group.top + group.height - Head(acc).top IN
  IF acc # <<>> /\ (\E i \in DOMAIN acc : HasRoot(acc[i], root)) /\ overlap > 0
  THEN <<[group EXCEPT !.top = @ - overlap]>> \o acc
  ELSE <<group>> \o acc

Pulled(groups, root) ==
  LET pulled[n \in 0..Len(groups)] ==
        IF n = 0 THEN <<>> ELSE PullUp(groups[Len(groups) - n + 1], pulled[n - 1], root)
  IN  pulled[Len(groups)]

LayoutGroups(root) == Pulled(Pushed(GroupCommentsByTop, root), root)

\* Where each comment of a group goes.
Layout(group) ==
  [c \in group.comments |-> group.top + Total({d \in group.comments : d < c})]

LayoutComments(root) ==
  LET groups == LayoutGroups(root) IN
  [c \in Placed |-> LET i == CHOOSE i \in DOMAIN groups : c \in groups[i].comments
                    IN  Layout(groups[i])[c]]

(***************************************************************************)
(* The panel.                                                              *)
(***************************************************************************)

\* What is posted and deleted comes with the comments of others.
GetComments(given) ==
  /\ given # comments
  /\ comments' = given
  /\ UNCHANGED <<top, tall, heights, height, focused, previous>>

\* Until it can be laid out a comment is mounted, and not displayed.
OffsetHeight(c) == IF c \in Placed THEN tall[c] ELSE 0

Mismeasured == {c \in comments : c \notin heights \/ height[c] # OffsetHeight(c)}

\* Every comment that is not as high as was measured adds its height to those there
\* were when the panel was rendered, and the last of them to be mounted is the one that
\* counts; then the panel is rendered again.
OnCommentMount(c) ==
  /\ c \in Mismeasured
  /\ \A d \in Mismeasured : d <= c
  /\ heights' = heights \cup {c}
  /\ height' = [height EXCEPT ![c] = OffsetHeight(c)]
  /\ UNCHANGED <<top, tall, comments, focused, previous>>

FocusComment(id) == focused' = id /\ previous' = focused

\* A comment, or its words in the text.
OnCommentClick(c) ==
  /\ c \in Placed
  /\ FocusComment(c)
  /\ UNCHANGED <<top, tall, comments, heights, height>>

OnTextClick ==
  /\ FocusComment(None)
  /\ UNCHANGED <<top, tall, comments, heights, height>>

(***************************************************************************)
(* The specification.                                                      *)
(***************************************************************************)

CommentPanelInit ==
  /\ top \in [Ids -> Tops] /\ tall \in [Ids -> Heights]
  /\ comments = {} /\ heights = {} /\ height = [c \in Ids |-> 0]
  /\ focused = None /\ previous = None

CommentPanelNext ==
  \/ \E given \in SUBSET Ids : GetComments(given)
  \/ \E c \in Ids : OnCommentMount(c) \/ OnCommentClick(c)
  \/ OnTextClick

CommentPanelSpec == CommentPanelInit /\ [][CommentPanelNext]_panelVars

(***************************************************************************)
(* Properties.                                                             *)
(***************************************************************************)

Precedes(c, d) == top[c] < top[d] \/ (top[c] = top[d] /\ c < d)

\* Comments are displayed in the order of their lines, then of their posting, each
\* with the room that was measured for it: so one that is measured as high as it is
\* covers none, whichever is in focus and however many are still to be measured
\* (layoutComments).
CommentsDoNotOverlap ==
  LET position == LayoutComments(Root) IN
  \A c, d \in Placed : Precedes(c, d) => position[c] + height[c] + Margin <= position[d]

\* The comment in focus is next to its line, whatever there is around it.
FocusedIsAtItsLine == focused \in Placed => LayoutComments(Root)[focused] = top[focused]

\* Comments are where they belong (TextPreview.tsx, layoutComments).
CommentsInPlace == CommentsDoNotOverlap /\ FocusedIsAtItsLine

\* Refuted.  "but rather maintain the layout as if the last comment were still
\* selected" (components/viewer/TextPreview.tsx:140): not once the text is
\* clicked again.
LastSelectedKeepsLayout ==
  [][focused' = None => \E root \in {Root'} : LayoutComments(root) = LayoutComments(Root)]_panelVars
===============================================================================
