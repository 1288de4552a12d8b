-------------------------- MODULE CommentHighlighter --------------------------
(***************************************************************************)
(* The highlights of a text: found words, comments, and the words about to *)
(* be commented, which are cut so that they do not overlap and are then    *)
(* written one after the other with the text between them.                 *)
(***************************************************************************)
EXTENDS Integers, Sequences, SequencesExt

CONSTANTS
  Characters,     \* of the text
  MaxHighlights   \* bound

ASSUME HighlighterAssumption == Characters \in Nat \ {0} /\ MaxHighlights \in Nat

VARIABLES
  given,        \* as they are given, by where they start
  ret,          \* as they have been cut so far
  cutting       \* the next to be cut

highlighterVars == <<given, ret, cutting>>

Kinds == {"result", "comment", "new"}   \* "new": a comment not written yet
Ranges == {r \in [start : 0..Characters, end : 0..Characters] : r.start < r.end}
Highlights == [kind : Kinds, range : Ranges]

IsComment(h) == h.kind \in {"comment", "new"}

\* Known by their place in what was given.
HighlightLists == UNION {[1..n -> Highlights] : n \in 0..MaxHighlights}

Sorted(hs) ==
  /\ \A i \in 1..(Len(hs) - 1) : hs[i].range.start <= hs[i + 1].range.start
  /\ \A i, j \in DOMAIN hs : hs[i].kind = "new" /\ hs[j].kind = "new" => i = j

HighlighterTypeOK ==
  /\ given \in HighlightLists /\ Sorted(given)
  /\ \A i \in DOMAIN ret : ret[i].id \in DOMAIN given /\ IsInjective(ret)
  /\ cutting \in 1..(Len(given) + 1)

(***************************************************************************)
(* Cutting.                                                                *)
(***************************************************************************)

Inside(k, r) == r.start <= k /\ k <= r.end

\* Of the others, by their place.
StartsInside(target, others) == {i \in others : Inside(target.start, ret[i].range)}
EndsInside(target, others) == {i \in others : Inside(target.end, ret[i].range)}

\* The last comment that covers an end of the target decides where it is cut.
Truncated(target, others) ==
  LET starts == StartsInside(target, others)
      ends == EndsInside(target, others) \ starts
  IN  [start |-> IF starts = {} THEN target.start ELSE ret[Max(starts)].range.end,
       end |-> IF ends = {} THEN target.end ELSE ret[Max(ends)].range.start]

\* Mutant: a highlight in the midst of a comment is cut, not left out.
NeverCovered(target, others) == FALSE

Covered(target, others) == StartsInside(target, others) \cap EndsInside(target, others) # {}

Separated(h, id) ==
  LET at == CHOOSE i \in DOMAIN ret : ret[i].id = id
      others == {i \in DOMAIN ret : i # at /\ IsComment(ret[i])}
  IN  IF Covered(h.range, others) THEN RemoveAt(ret, at)
      ELSE [ret EXCEPT ![at].range = Truncated(h.range, others)]

\* What has just been selected is never cut.
Separate ==
  /\ cutting <= Len(given)
  /\ ret' = IF given[cutting].kind = "new" THEN ret ELSE Separated(given[cutting], cutting)
  /\ cutting' = cutting + 1
  /\ UNCHANGED given

(***************************************************************************)
(* Writing.                                                                *)
(***************************************************************************)

\* Characters are known by their place.
Slice(from, to) == [k \in 1..(IF to > from THEN to - from ELSE 0) |-> from + k]

Write(acc, h) ==
  [text |-> acc.text \o Slice(acc.end, h.range.start) \o Slice(h.range.start, h.range.end),
   end |-> h.range.end]

Written ==
  LET children[n \in 0..Len(ret)] ==
        IF n = 0 THEN [text |-> <<>>, end |-> 0] ELSE Write(children[n - 1], ret[n])
      all == children[Len(ret)]
  IN  all.text \o Slice(all.end, Characters)

(***************************************************************************)
(* The specification.                                                      *)
(***************************************************************************)

HighlighterInit ==
  /\ given \in {hs \in HighlightLists : Sorted(hs)}
  /\ ret = [i \in DOMAIN given |->
              [id |-> i, kind |-> given[i].kind, range |-> given[i].range]]
  /\ cutting = 1

HighlighterNext == Separate

HighlighterSpec == HighlighterInit /\ [][HighlighterNext]_highlighterVars

(***************************************************************************)
(* Properties.                                                             *)
(***************************************************************************)

CutAll == cutting > Len(given)
TextOnce == Written = [k \in 1..Characters |-> k]

TwoAtATime ==
  /\ \A i, j \in DOMAIN given : i # j => given[i].range.start # given[j].range.start
  /\ \A k \in 0..Characters : \A i, j, l \in {i \in DOMAIN given : Inside(k, given[i].range)} :
       i = j \/ j = l \/ i = l

\* Nothing of the text is lost, whatever is highlighted in it, and it is
\* displayed once where comments overlap two at a time, starting apart.
CommentedTextIsWhole ==
  CutAll =>
    /\ ToSet(Written) = 1..Characters
    /\ (\A i \in DOMAIN given : given[i].kind = "comment") /\ TwoAtATime => TextOnce

\* Refuted.  "Highlights that overlap each other need special treatment because
\* of the hierarchical nature of the DOM"
\* (components/viewer/CommentHighlighter.tsx:39): a word found or commented
\* around a comment is not cut, and what follows is displayed twice.
TextIsOnce == CutAll => TextOnce
===============================================================================
