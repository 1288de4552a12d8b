---------------------------- MODULE MCPageViewer ----------------------------
(* Small instances of PageViewer for TLC. *)
EXTENDS PageViewer

OneQuery == [q \in {"q"} |-> <<1, NumPages>>]
=============================================================================
