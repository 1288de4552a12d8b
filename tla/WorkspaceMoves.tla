---------------------------- MODULE WorkspaceMoves ----------------------------
(***************************************************************************)
(* Moving and copying entries of a workspace: a drop is split into batches *)
(* that send one request after the other, in parallel with each other and  *)
(* with other drops; answers ask for the workspace again, throttled; the   *)
(* page counts what has settled.                                           *)
(***************************************************************************)
EXTENDS Sums, FiniteSets, SequencesExt

CONSTANTS
  MoveIds,     \* entries that can be dropped, on each other too
  Outside,     \* a folder that is not dropped
  MoveTargets, \* what they are dropped on
  Selections,  \* what may be dropped, in the order of the selection
  Batches,     \* 5 in the code
  MaxDrops,    \* bound: drops
  MaxMounts    \* bound: times the page is opened

ASSUME BatchesAssumption ==
  Batches \in Nat \ {0} /\ Outside \notin MoveIds /\ MoveTargets \subseteq MoveIds \cup {Outside}
ASSUME SelectionsAssumption ==
  Selections \subseteq Seq(MoveIds) /\ \A ids \in Selections : ids # <<>> /\ IsInjective(ids)

VARIABLES
  drops,      \* every drop so far
  beingMoved, \* itemsBeingMoved
  settled,    \* itemsWithMoveSettled
  warns,      \* window.onbeforeunload is set
  page,       \* number of the page component
  mounted,
  stale,      \* the server has moved something since the workspace was asked for
  unanswered  \* it has, and its answer was lost

movesVars == <<drops, beingMoved, settled, warns, page, mounted, stale, unanswered>>

\* The first id of a batch is the one that has been sent.
BatchStates == [ids : Seq(MoveIds), applied : BOOLEAN]
\* page: who counts, 0 for nobody.
Drops == [page : 0..MaxMounts, parent : MoveIds \cup {Outside}, batches : Seq(BatchStates),
          throttled : BOOLEAN, \* FALSE when copying
          due : BOOLEAN,       \* the throttle has a call to make
          timer : BOOLEAN]     \* when its timer expires

MovesTypeOK ==
  /\ drops \in Seq(Drops) /\ Len(drops) <= MaxDrops
  /\ beingMoved \in Nat /\ settled \in 0..beingMoved
  /\ page \in 0..MaxMounts
  /\ {warns, mounted, stale, unanswered} \subseteq BOOLEAN

(***************************************************************************)
(* The counters of the page.                                               *)
(***************************************************************************)

\* componentDidUpdate: the warning is set and removed with the progress.
Counts(moved, done) ==
  LET all == done = moved
  IN  /\ beingMoved' = IF all THEN 0 ELSE moved
      /\ settled' = IF all THEN 0 ELSE done
      /\ warns' = IF (beingMoved' > 0) # (beingMoved > 0) THEN beingMoved' > 0 ELSE warns

\* Mutant: the page that is there now counts it.
CountAnyway(d, n) == Counts(beingMoved, settled + n)

\* A component that is unmounted ignores it.
CountSettled(d, n) ==
  IF mounted /\ d.page = page THEN Counts(beingMoved, settled + n)
  ELSE UNCHANGED <<beingMoved, settled, warns>>

(***************************************************************************)
(* A drop.                                                                 *)
(***************************************************************************)

\* ids.slice(i * size, (i + 1) * size), of size Math.ceil(ids.length / Batches)
Slice(ids, i) ==
  LET size == (Len(ids) + Batches - 1) \div Batches
      end == (i + 1) * size
  IN  SubSeq(ids, i * size + 1, IF end < Len(ids) THEN end ELSE Len(ids))

\* The ids up to the next that has to be sent: an entry is not moved into itself.
Skipping(ids, parent) == IF ids # <<>> /\ Head(ids) = parent THEN Tail(ids) ELSE ids

Start(ids, parent) == [ids |-> Skipping(ids, parent), applied |-> FALSE]

LeftIn(batches) == SumOf([b \in DOMAIN batches |-> Len(batches[b].ids)])

\* How many of ids settle without a request.
SettledAtOnce(ids, batches) ==
  Len(ids) - LeftIn(batches)

Add(d) == Len(drops) < MaxDrops /\ drops' = Append(drops, d)

\* onMoveItems: on a row, or below the rows.
DropOnTree(ids, parent) ==
  LET batches == [i \in 1..Batches |-> Start(Slice(ids, i - 1), parent)]
  IN  /\ mounted
      /\ Add([page |-> page, parent |-> parent, batches |-> batches, throttled |-> TRUE,
              due |-> FALSE, timer |-> FALSE])
      /\ Counts(beingMoved + Len(ids), settled + SettledAtOnce(ids, batches))
      /\ UNCHANGED <<page, mounted, stale, unanswered>>

\* On another workspace in the sidebar, and then one of the two buttons.
DropOnSidebar(ids, copying) ==
  /\ Add([page |-> 0, parent |-> Outside,
          batches |-> IF copying THEN [i \in DOMAIN ids |-> Start(<<ids[i]>>, Outside)]
                      ELSE [i \in 1..Batches |-> Start(Slice(ids, i - 1), Outside)],
          throttled |-> ~copying, due |-> FALSE, timer |-> FALSE])
  /\ UNCHANGED <<beingMoved, settled, warns, page, mounted, stale, unanswered>>

(***************************************************************************)
(* Answers, and the throttle.                                              *)
(***************************************************************************)

\* Mutant: calls while the timer runs are dropped.
CallbackLeading(d) ==
  IF ~d.timer THEN {[call |-> TRUE, drop |-> [d EXCEPT !.timer = d.throttled]]}
  ELSE {[call |-> FALSE, drop |-> d]}

\* The first call is made at once, and so is one a second after the last; the
\* others wait for the timer.  Copying calls every time.
Callback(d) ==
  LET now == [call |-> TRUE, drop |-> [d EXCEPT !.due = FALSE, !.timer = d.throttled]]
      later == [call |-> FALSE, drop |-> [d EXCEPT !.due = TRUE, !.timer = TRUE]]
  IN  IF ~d.throttled THEN {now} ELSE IF d.timer THEN {later} ELSE {now, later}

MoveApplied(i, b) ==
  /\ drops[i].batches[b].ids # <<>> /\ ~drops[i].batches[b].applied
  /\ drops' = [drops EXCEPT ![i].batches[b].applied = TRUE]
  /\ stale' = TRUE
  /\ UNCHANGED <<beingMoved, settled, warns, page, mounted, unanswered>>

Goes(d, b) == [d EXCEPT !.batches[b] = Start(Tail(@.ids), d.parent)]
SettledWith(d, b) == Len(d.batches[b].ids) - Len(Goes(d, b).batches[b].ids)

MoveAnswered(i, b) ==
  /\ drops[i].batches[b].applied
  /\ \E c \in Callback(Goes(drops[i], b)) :
       /\ drops' = [drops EXCEPT ![i] = c.drop]
       /\ stale' = (stale /\ ~c.call)
  /\ CountSettled(drops[i], SettledWith(drops[i], b))
  /\ UNCHANGED <<page, mounted, unanswered>>

\* Refused, or the answer does not arrive.
MoveFailed(i, b) ==
  /\ drops[i].batches[b].ids # <<>>
  /\ drops' = [drops EXCEPT ![i] = Goes(@, b)]
  /\ unanswered' = (unanswered \/ drops[i].batches[b].applied)
  /\ CountSettled(drops[i], SettledWith(drops[i], b))
  /\ UNCHANGED <<page, mounted, stale>>

TimerExpires(i) ==
  /\ drops[i].timer
  /\ drops' = [drops EXCEPT ![i].timer = FALSE, ![i].due = FALSE]
  /\ stale' = (stale /\ ~drops[i].due)
  /\ UNCHANGED <<beingMoved, settled, warns, page, mounted, unanswered>>

(***************************************************************************)
(* The page.                                                               *)
(***************************************************************************)

OpenPage ==
  /\ ~mounted /\ page < MaxMounts
  /\ mounted' = TRUE /\ page' = page + 1
  /\ beingMoved' = 0 /\ settled' = 0
  /\ stale' = FALSE \* getWorkspace
  /\ UNCHANGED <<drops, warns, unanswered>>

LeavePage ==
  /\ mounted
  /\ mounted' = FALSE
  /\ UNCHANGED <<drops, beingMoved, settled, warns, page, stale, unanswered>>

(***************************************************************************)
(* The specification.                                                      *)
(***************************************************************************)

MovesInit ==
  /\ drops = <<>>
  /\ beingMoved = 0 /\ settled = 0
  /\ page = 0
  /\ warns = FALSE /\ mounted = FALSE /\ stale = FALSE /\ unanswered = FALSE

MovesNext ==
  \/ \E ids \in Selections :
       \/ \E parent \in MoveTargets : DropOnTree(ids, parent)
       \/ \E copying \in BOOLEAN : DropOnSidebar(ids, copying)
  \/ \E i \in DOMAIN drops : \E b \in DOMAIN drops[i].batches :
       MoveApplied(i, b) \/ MoveAnswered(i, b) \/ MoveFailed(i, b)
  \/ \E i \in DOMAIN drops : TimerExpires(i)
  \/ OpenPage \/ LeavePage

MovesSpec == MovesInit /\ [][MovesNext]_movesVars

(***************************************************************************)
(* Properties.                                                             *)
(***************************************************************************)

Pending(i) == LeftIn(drops[i].batches)
Own(i) == IF drops[i].page = page THEN Pending(i) ELSE 0

\* The progress of a page counts what its drops have left, several of them
\* together, failed and skipped entries included, and disappears when there is
\* nothing left (Workspaces.tsx, onMoveItems; moveItem.ts, onEachSettled).
ProgressIsWhatIsLeft ==
  mounted =>
    LET left == SumOf([i \in DOMAIN drops |-> Own(i)])
    IN  /\ beingMoved - settled = left
        /\ left = 0 => beingMoved = 0

\* When all has been answered and no timer runs, the workspace has been asked
\* for after the last move, however many answers came within a second
\* (moveItem.ts, throttledCallback; copyItem.ts).
RefreshedAfterMoves ==
  (\A i \in DOMAIN drops : Pending(i) = 0 /\ ~drops[i].timer) => ~stale \/ unanswered

\* The page follows the moves it has asked for, to their end (Workspaces.tsx).
MovesAreFollowed == ProgressIsWhatIsLeft /\ RefreshedAfterMoves

\* Refuted.  "Items are being moved." (components/workspace/Workspaces.tsx:510)
\* is what the browser asks about when leaving only while that is so: a page
\* that is left for another one does not remove it.
WarnsOfMoves == warns => \E i \in DOMAIN drops : Pending(i) > 0
===============================================================================
