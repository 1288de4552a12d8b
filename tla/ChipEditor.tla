------------------------------ MODULE ChipEditor ------------------------------
(***************************************************************************)
(* The search box: a row of inputs with a chip between each and the next,  *)
(* edited in place, while the query may also come from outside.  Elements  *)
(* are known by their index alone: so are the focus, the chip staged for   *)
(* deletion, and what React keeps for each.                                *)
(***************************************************************************)
EXTENDS Integers, Sequences, FiniteSets, SequencesExt

CONSTANTS
  Fields,        \* the fields that can be searched, in order
  Dates,         \* those that hold a date
  Words, Plus, Minus,
  Values, Bad,   \* what is typed in a chip, and what of it is no date
  Texts,         \* bound: what is typed in an input
  ReceivedQueries,       \* queries of the page: searches opened from elsewhere
  MaxElements, MaxUses, MaxQueries   \* bounds: elements, what the user does, queries received

ASSUME ChipEditorAssumption ==
  /\ Fields \in Seq(ToSet(Fields)) /\ Dates \subseteq ToSet(Fields) /\ Bad \subseteq Values /\ "" \in Values \ Bad
  /\ Plus # Minus /\ {Plus, Minus} \cap Words = {}
  /\ Texts \subseteq Seq(Words \cup {Plus, Minus})
  /\ {MaxElements, MaxUses, MaxQueries} \subseteq Nat

\* chipStart and cursorPosition are 0 where the code leaves them undefined.
Input(text, start, cursor) == [type |-> "input", text |-> text, chipStart |-> start, cursorPosition |-> cursor]
Chip(name, value, negate) == [type |-> "chip", name |-> name, value |-> value, negate |-> negate]
AllInputs ==
  {e \in [type : {"input"}, text : Seq(Words \cup {Plus, Minus}), chipStart : Nat, cursorPosition : Nat] :
     e.chipStart <= e.cursorPosition /\ e.cursorPosition <= Len(e.text)}
AllChips == [type : {"chip"}, name : ToSet(Fields), value : Values, negate : BOOLEAN]

\* Links to a search, like the search box, have an input on either side of a chip.
QueriesAssumption ==
  /\ AllChips \cap (Words \cup {Plus, Minus}) = {}
  /\ \A q \in ReceivedQueries :
       /\ q \in Seq(AllInputs \cup AllChips) /\ Len(q) % 2 = 1
       /\ \A i \in DOMAIN q : IF i % 2 = 1 THEN q[i] \in AllInputs ELSE q[i] \in AllChips

ASSUME QueriesAssumption

VARIABLES
  elements,
  current,       \* the element with the focus, 0 for none
  suggestions, currentChip,
  staged,        \* the chip that is deleted if asked once more, 0 for none
  deleteExpiry,
  ticking, leaked,   \* the interval last set, and those forgotten before
  warned, checks,    \* date controls that warn, and those about to look
  uses, replaced

editVars == <<elements, current, suggestions, currentChip>>
stageVars == <<staged, deleteExpiry, ticking, leaked>>
dateVars == <<warned, checks>>
chipVars == <<editVars, stageVars, dateVars, uses, replaced>>

Inputs == {i \in DOMAIN elements : elements[i].type = "input"}
Chips == DOMAIN elements \ Inputs
DateControls(es) == {i \in DOMAIN es : es[i].type = "chip" /\ es[i].name \in Dates}

\* Of a row of elements: there is somewhere to type on either side of a chip,
\* whatever is inserted, merged or received, and what stands beside an input is a
\* chip (onDeleteSibling).  A chip that glows stops by itself: an interval counts
\* it down, whatever was staged, expired and deleted before.
InputsAroundChips ==
  \A i \in DOMAIN elements : (i \in Inputs) = (i % 2 = 1) /\ Len(elements) % 2 = 1
StagedIsTimed == staged # 0 => deleteExpiry > 0 /\ (ticking \/ leaked > 0)

ChipsTypeOK ==
  /\ InputsAroundChips /\ StagedIsTimed
  /\ elements \in Seq(AllInputs \cup AllChips)
  /\ {current, staged} \subseteq Nat
  /\ suggestions \in {<<>>, Fields} /\ currentChip \in 0..Len(Fields)
  /\ deleteExpiry \in 0..2 /\ ticking \in BOOLEAN /\ leaked \in Nat
  /\ warned \subseteq DateControls(elements)
  /\ \A c \in checks : c.at \in DateControls(elements)
  /\ uses \in 0..MaxUses /\ replaced \in 0..MaxQueries

(***************************************************************************)
(* Editing.                                                                *)
(***************************************************************************)

Uses == uses < MaxUses /\ uses' = uses + 1

\* A control keeps its state while an element of its kind stays at its index.
Elements(es) ==
  /\ elements' = es
  /\ warned' = warned \cap DateControls(elements')
  /\ checks' = {c \in checks : c.at \in DateControls(elements')}

\* The last sign before the cursor starts a chip.
CheckForSuggestions(text, cursor) ==
  LET signs == {k \in 1..cursor : text[k] \in {Plus, Minus}} IN
  IF signs = {} THEN Input(text, 0, 0) ELSE Input(text, Max(signs), cursor)

\* Every field starts with nothing, and none with another word.
FilteredSuggestions(e) ==
  IF e.type = "input" /\ e.chipStart # 0 /\ e.chipStart = e.cursorPosition THEN Fields ELSE <<>>

InputUpdated(i, e) ==
  /\ current' = i /\ currentChip' = 1
  /\ suggestions' = FilteredSuggestions(e)

TypeInInput(i, text, cursor) ==
  LET e == CheckForSuggestions(text, cursor) IN
  /\ i \in Inputs /\ Uses
  /\ InputUpdated(i, e)
  /\ Elements([elements EXCEPT ![i] = e])
  /\ UNCHANGED <<stageVars, replaced>>

\* A date is looked at half a second after it was last changed.
TypeInChip(i, value) ==
  /\ i \in Chips /\ Uses
  /\ InputUpdated(i, elements[i])
  /\ elements' = [elements EXCEPT ![i].value = value]
  /\ checks' = IF i \in DateControls(elements)
               THEN {c \in checks : c.at # i} \cup {[at |-> i, value |-> value]} ELSE checks
  /\ UNCHANGED <<warned, stageVars, replaced>>

CheckValidity(c) ==
  /\ checks' = checks \ {c}
  /\ warned' = IF c.value \in Bad THEN warned \cup {c.at} ELSE warned \ {c.at}
  /\ UNCHANGED <<editVars, stageVars, uses, replaced>>

\* The chip of a workspace folder, which nobody types, cannot be negated.
OnNegateClicked(i) ==
  /\ i \in Chips /\ Uses
  /\ elements' = [elements EXCEPT ![i].negate = ~@]
  /\ UNCHANGED <<current, suggestions, currentChip, stageVars, dateVars, replaced>>

(***************************************************************************)
(* Suggestions.                                                            *)
(***************************************************************************)

Moved(from, step) == IF suggestions = <<>> \/ from = 0 THEN 0 ELSE ((from - 1 + step) % Len(suggestions)) + 1

MoveSuggestions(step) ==
  /\ current \in Inputs /\ Uses
  /\ currentChip' = Moved(currentChip, step)
  /\ UNCHANGED <<elements, current, suggestions, stageVars, dateVars, replaced>>

\* An input with no chip started in it is given whole to either side.
Split(e, field) ==
  IF e.chipStart = 0
  THEN << Input(e.text, 0, 0), Chip(field, "", FALSE), Input(e.text, 0, 0) >>
  ELSE << Input(SubSeq(e.text, 1, e.chipStart - 1), 0, 0),
          Chip(field, "", e.text[e.chipStart] = Minus),
          Input(SubSeq(e.text, e.cursorPosition + 1, Len(e.text)), 0, 0) >>

ChipSelected(field) ==
  /\ current \in Inputs /\ Len(elements) + 2 <= MaxElements
  /\ Elements(SubSeq(elements, 1, current - 1) \o Split(elements[current], field)
              \o SubSeq(elements, current + 1, Len(elements)))
  /\ current' = current + 1

\* Suggestions are kept when the focus moves on.
OnEnter ==
  /\ currentChip # 0 /\ suggestions # <<>> /\ Uses
  /\ ChipSelected(suggestions[currentChip])
  /\ UNCHANGED <<suggestions, currentChip, stageVars, replaced>>

SuggestionClicked(k) ==
  /\ current \in Inputs /\ elements[current].chipStart # 0 /\ k \in DOMAIN suggestions /\ Uses
  /\ currentChip' = k
  /\ ChipSelected(suggestions[k])
  /\ UNCHANGED <<suggestions, stageVars, replaced>>

(***************************************************************************)
(* Moving.                                                                 *)
(***************************************************************************)

\* Date controls do not say that they have the focus.
Focused(i) == i = current \/ i \in DateControls(elements)

OnFocus(i) ==
  /\ i \in DOMAIN elements \ DateControls(elements) /\ i # current /\ Uses
  /\ current' = i
  /\ UNCHANGED <<elements, suggestions, currentChip, stageVars, dateVars, replaced>>

OnChipEnterPressed(i) ==
  /\ i \in Chips /\ Focused(i) /\ Uses
  /\ current' = i + 1
  /\ UNCHANGED <<elements, suggestions, currentChip, stageVars, dateVars, replaced>>

OnStepOut(i, step) ==
  /\ i \in DOMAIN elements /\ Focused(i) /\ Uses
  /\ i + step \in DOMAIN elements
  /\ current' = i + step
  /\ UNCHANGED <<elements, suggestions, currentChip, stageVars, dateVars, replaced>>

(***************************************************************************)
(* Deleting.                                                               *)
(***************************************************************************)

\* Mutant: inputs that come to be neighbours stay as they are.
AppendOnly(acc, e) == Append(acc, e)

\* Mutant: the input to the right takes the place of the input to the left.
MergeRight(acc, e) ==
  IF acc = <<>> \/ e.type # "input" \/ Last(acc).type # "input" THEN Append(acc, e)
  ELSE Append(Front(acc), e)

Merge(acc, e) ==
  IF acc = <<>> \/ e.type # "input" \/ Last(acc).type # "input" THEN Append(acc, e)
  ELSE IF e.text = <<>> THEN acc
  ELSE Append(Front(acc), Input(Last(acc).text \o e.text, 0, 0))

\* Mutant: the focus stays at its index.
FocusAtDeleted(i) == i

FocusBefore(i) == i - 1

\* Inputs left side by side become one.
Merged(row) ==
  LET merged[k \in 0..Len(row)] == IF k = 0 THEN <<>> ELSE Merge(merged[k - 1], row[k])
  IN  merged[Len(row)]

OnDeleteClicked(i) ==
  /\ Elements(Merged(RemoveAt(elements, i)))
  /\ current' = FocusBefore(i)
  /\ UNCHANGED <<suggestions, currentChip>>

DeleteChip(i) ==
  /\ i \in Chips /\ Uses
  /\ OnDeleteClicked(i)
  /\ UNCHANGED <<stageVars, replaced>>

\* The interval that was set before is forgotten, and goes on.
SetInterval == ticking' = TRUE /\ leaked' = IF ticking THEN leaked + 1 ELSE leaked

Stage(target) ==
  /\ staged' = target /\ deleteExpiry' = 2
  /\ SetInterval
  /\ UNCHANGED <<editVars, dateVars>>

DeleteStaged(target) ==
  /\ OnDeleteClicked(target)
  /\ staged' = 0
  /\ UNCHANGED <<deleteExpiry, ticking, leaked>>

OnDeleteSibling(i, step) ==
  /\ i \in Inputs /\ Focused(i) /\ i + step \in DOMAIN elements /\ Uses
  /\ IF staged = i + step THEN DeleteStaged(i + step) ELSE Stage(i + step)
  /\ UNCHANGED replaced

Expire == staged' = 0 /\ ticking' = FALSE

\* Whichever interval ticks, and whatever was staged when it was set.
DeleteExpiryTick ==
  /\ ticking \/ leaked > 0
  /\ deleteExpiry > 0
  /\ deleteExpiry' = deleteExpiry - 1
  /\ IF deleteExpiry = 1 THEN Expire ELSE UNCHANGED <<staged, ticking>>
  /\ UNCHANGED <<leaked, editVars, dateVars, uses, replaced>>

(***************************************************************************)
(* The query of the page.                                                  *)
(***************************************************************************)

\* Elements that only say more are updated in place.
Extends(q) ==
  /\ Len(q) = Len(elements)
  /\ \A i \in DOMAIN q :
       /\ q[i].type = elements[i].type
       /\ IF q[i].type = "input" THEN IsPrefix(elements[i].text, q[i].text)
          ELSE elements[i].value \in {"", q[i].value}

Assigned(e, by) == IF e.type = "input" THEN [e EXCEPT !.text = by.text] ELSE by

ChippifyText(q) ==
  Elements(IF Extends(q) THEN [i \in DOMAIN q |-> Assigned(elements[i], q[i])] ELSE q)

ReceiveQuery(q) ==
  /\ q # elements /\ replaced < MaxQueries
  /\ ChippifyText(q)
  /\ replaced' = replaced + 1
  /\ UNCHANGED <<uses, current, suggestions, currentChip, stageVars>>

Cleared == << Input(<<>>, 0, 0) >>

ReceiveNone ==
  /\ elements # Cleared /\ replaced < MaxQueries
  /\ Elements(Cleared) /\ current' = 1
  /\ replaced' = replaced + 1
  /\ UNCHANGED <<uses, suggestions, currentChip, stageVars>>

(***************************************************************************)
(* The specification.                                                      *)
(***************************************************************************)

ChipInit ==
  /\ elements = <<>> /\ current = 0
  /\ suggestions = <<>> /\ currentChip = 1
  /\ staged = 0 /\ deleteExpiry = 0 /\ ticking = FALSE /\ leaked = 0
  /\ warned = {} /\ checks = {}
  /\ uses = 0 /\ replaced = 0

\* Once rendered, the element that is current is given the focus: there must be one.
FocusIsThere == current \in DOMAIN elements \cup {0}

ChipNext ==
  /\ FocusIsThere
  /\ \/ \E i \in Inputs, text \in Texts : \E cursor \in 0..Len(text) : TypeInInput(i, text, cursor)
     \/ \E i \in Chips, value \in Values : TypeInChip(i, value)
     \/ \E c \in checks : CheckValidity(c)
     \/ \E step \in {-1, 1} : MoveSuggestions(step)
     \/ OnEnter
     \/ \E k \in DOMAIN Fields : SuggestionClicked(k)
     \/ \E i \in DOMAIN elements :
          OnNegateClicked(i) \/ OnFocus(i) \/ OnChipEnterPressed(i) \/ DeleteChip(i)
     \/ \E i \in DOMAIN elements, step \in {-1, 1} : OnStepOut(i, step) \/ OnDeleteSibling(i, step)
     \/ DeleteExpiryTick
     \/ \E q \in ReceivedQueries : ReceiveQuery(q)
     \/ ReceiveNone

ChipSpec == ChipInit /\ [][ChipNext]_chipVars

(***************************************************************************)
(* Properties.                                                             *)
(***************************************************************************)

\* The words and chips of a row, in order.
Flattened(es) ==
  LET flat[k \in 0..Len(es)] ==
        IF k = 0 THEN <<>> ELSE flat[k - 1] \o (IF es[k].type = "input" THEN es[k].text ELSE <<es[k]>>)
  IN  flat[Len(es)]

\* A row gets shorter by one chip at a time, and nothing else of the query goes
\* with it (onDeleteClicked), unless another query is received.
OneChipGoes ==
  [][Len(elements') < Len(elements) /\ replaced' = replaced =>
       \E k \in DOMAIN Flattened(elements) :
         /\ Flattened(elements)[k] \notin Words \cup {Plus, Minus}
         /\ Flattened(elements') = RemoveAt(Flattened(elements), k)]_chipVars

\* The element to be given the focus is there after whatever the user does in
\* the box, however many elements are merged or deleted (componentDidUpdate).
UserKeepsFocus == [][replaced' = replaced => FocusIsThere']_chipVars

\* Refuted: a shorter query received from the page leaves the focus behind, and
\* the search box fails to give it.
FocusIsKept == FocusIsThere

\* Refuted: Enter inserts a chip that was suggested for another input, or for
\* the input before it was split, and writes that input's words twice.
ChipIsWhatWasTyped ==
  [][Len(elements') > Len(elements) /\ replaced' = replaced /\ elements # <<>>
       => elements[current].chipStart # 0]_chipVars

\* Refuted: the warning of a deleted date is that of the date that takes its place.
WarnsOfBadDates ==
  \A i \in warned : elements[i].value \in Bad \/ (\E c \in checks : c.at = i)

\* Refuted: intervals that were forgotten count a chip down twice as fast, and
\* are never cleared.
OneInterval == leaked = 0
===============================================================================
