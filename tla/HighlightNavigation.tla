------------------------ MODULE HighlightNavigation ------------------------
(***************************************************************************)
(* The highlights of a query in a paged document, and the one in focus     *)
(* (PageViewer/useHighlightNavigation.ts), as the find box of the viewer   *)
(* uses them.  A fetch is a request in flight: typing on sends another,    *)
(* and answers come in any order.  An answer is applied whatever the       *)
(* query has become.                                                       *)
(***************************************************************************)
EXTENDS Naturals, Sequences

CONSTANTS
  NumPages,   \* totalPages of the document
  Hits        \* query -> the pages of its highlights, in the server's order

ASSUME NumPagesAssumption == NumPages \in Nat \ {0}

DocumentPages == 1..NumPages
FindQueries == DOMAIN Hits
NoFindQuery == ""

ASSUME HitsAssumption == NoFindQuery \notin FindQueries /\ Hits \in [FindQueries -> Seq(DocumentPages)]

VARIABLES
  query,        \* the query last asked for
  highlights,   \* the pages of the highlights shown
  focusedIndex, \* position in highlights, from 1; 0 is the code's null
  isPending,
  inFlight      \* query -> requests sent and not answered

navVars == <<query, highlights, focusedIndex, isPending, inFlight>>

NavTypeOK ==
  /\ query \in FindQueries \cup {NoFindQuery}
  /\ highlights \in Seq(DocumentPages)
  /\ focusedIndex \in Nat
  /\ isPending \in BOOLEAN
  /\ inFlight \in [FindQueries -> Nat]

NavInit ==
  /\ query = NoFindQuery
  /\ highlights = <<>>
  /\ focusedIndex = 0
  /\ isPending = FALSE
  /\ inFlight = [q \in FindQueries |-> 0]

ClearHighlights ==
  /\ query' = NoFindQuery
  /\ highlights' = <<>>
  /\ focusedIndex' = 0
  /\ UNCHANGED <<isPending, inFlight>>

FetchHighlights(q) ==
  /\ query' = q
  /\ isPending' = TRUE
  /\ inFlight' = [inFlight EXCEPT ![q] = @ + 1]
  /\ UNCHANGED <<highlights, focusedIndex>>

FirstFocus(hits) == IF Len(hits) > 0 THEN 1 ELSE 0

HighlightsArrive(q) ==
  /\ inFlight[q] > 0
  /\ inFlight' = [inFlight EXCEPT ![q] = @ - 1]
  /\ isPending' = FALSE
  /\ highlights' = Hits[q]
  /\ focusedIndex' = FirstFocus(Hits[q])
  /\ UNCHANGED query

\* The rejected promise is handled nowhere: isPending stays as it is.
HighlightsFail(q) ==
  /\ inFlight[q] > 0
  /\ inFlight' = [inFlight EXCEPT ![q] = @ - 1]
  /\ UNCHANGED <<query, highlights, focusedIndex, isPending>>

JumpToNext ==
  /\ highlights # <<>>
  /\ focusedIndex' = IF focusedIndex \in 1..(Len(highlights) - 1) THEN focusedIndex + 1 ELSE 1
  /\ UNCHANGED <<query, highlights, isPending, inFlight>>

JumpToPrevious ==
  /\ highlights # <<>>
  /\ focusedIndex' = IF focusedIndex > 1 THEN focusedIndex - 1 ELSE Len(highlights)
  /\ UNCHANGED <<query, highlights, isPending, inFlight>>

\* getPreloadPages: three highlights before the focused one to two after it.
Wrapped(i, count) == ((i - 1) % count) + 1
HighlightAround(offset) ==
  highlights[Wrapped(focusedIndex + Len(highlights) * 3 + offset - 3, Len(highlights))]
PreloadPages ==
  IF focusedIndex = 0 THEN {}
  ELSE {HighlightAround(offset) : offset \in 0..5}

(* There is a highlight in focus exactly when there are highlights, and it *)
(* is one of them, whatever the order in which answers came: setHighlights *)
(* and setFocusedIndex of an answer, and the guards of the two jumps.      *)
FocusIsAHighlight ==
  /\ focusedIndex = 0 <=> highlights = <<>>
  /\ focusedIndex <= Len(highlights)
=============================================================================
