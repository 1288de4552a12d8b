----------------------------- MODULE MCWorkQueue -----------------------------
(* Small instances of WorkQueue for TLC. *)
EXTENDS WorkQueue, TLC
CONSTANTS b1, b2, e1, e2, o1, o2, ws1

OneWorker == {0}
TwoWorkers == {0, 1}
TwoIds == 0..1
OneUpload == [origin : {o1}, workspace : {NoWorkspace}]
TwoOrigins == [origin : {o1, o2}, workspace : {NoWorkspace}]
\* The same file, on its own and into a workspace.
TwoWays == [origin : {o1}, workspace : {NoWorkspace, ws1}]
EveryExtractor == [b \in Blobs |-> Extractors]
OneBuild == [w \in Workers |-> Extractors]
\* A rolling deploy: worker 0 still runs the build that lacks e2.
TwoBuilds == [w \in Workers |-> IF w = 0 THEN Extractors \ {e2} ELSE Extractors]

\* Safety does not tell blobs or ingestions apart.
Interchangeable == Permutations({b1, b2}) \cup Permutations({o1, o2})
===============================================================================
