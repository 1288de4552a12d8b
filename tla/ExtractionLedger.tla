--------------------------- MODULE ExtractionLedger ---------------------------
(***************************************************************************)
(* What the work queue promises, without workers, locks, attempts or       *)
(* failures: an item that is asked for stays on the books, is finished one *)
(* at a time, and goes back to the start only when its blob is             *)
(* reprocessed, together with everything finished on that blob.            *)
(***************************************************************************)
CONSTANTS
  Items,  \* what can be asked for: an extractor, on a blob, in a context
  BlobOf  \* item -> blob

VARIABLE entry

LedgerInit == entry = [i \in Items |-> "absent"]

Move(is, to) == entry' = [i \in Items |-> IF i \in is THEN to ELSE entry[i]]

\* A file is ingested: all new items of one blob.
Request(b) ==
  \E is \in SUBSET {i \in Items : BlobOf[i] = b /\ entry[i] = "absent"} : Move(is, "todo")

\* An extractor is recorded as having run.
Finish(i) == entry[i] = "todo" /\ Move({i}, "done")

\* A blob is reprocessed.
Redo(b) == Move({i \in Items : BlobOf[i] = b /\ entry[i] = "done"}, "todo")

\* An external extractor has taken the item over, or gives it back.
HandOver(i) == entry[i] = "todo" /\ Move({i}, "external")
GiveBack(i) == entry[i] = "external" /\ Move({i}, "todo")

\* The external service has answered: the answer names the blob only, and
\* may finish several items of it.
Return(b) ==
  \E is \in SUBSET {i \in Items : BlobOf[i] = b /\ entry[i] = "external"} : Move(is, "done")

LedgerNext ==
  \/ \E i \in Items : Finish(i) \/ HandOver(i) \/ GiveBack(i)
  \/ \E i \in Items : Request(BlobOf[i]) \/ Redo(BlobOf[i]) \/ Return(BlobOf[i])

LedgerSpec == LedgerInit /\ [][LedgerNext]_entry
===============================================================================
