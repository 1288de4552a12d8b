------------------------ MODULE MCExternalExtraction ------------------------
(* Small instances of ExternalExtraction for TLC. *)
EXTENDS ExternalExtraction, TLC
CONSTANTS b1, body, transcribe, translate, o1, o2, c1, c2

OneWorker == {0}
TwoWorkers == {0, 1}
TwoIds == 0..1
OneUpload == [origin : {o1}, workspace : {NoWorkspace}]
TwoOrigins == [origin : {o1, o2}, workspace : {NoWorkspace}]
OneBuild == [w \in Workers |-> Extractors]

\* The consumers are alike: no statement and no fairness of a safety run tells
\* one from the other.
AlikeConsumers == Permutations(Consumers)

\* A recording, with nothing to translate.
Recording == [b \in Blobs |-> {transcribe}]
NoTranslation == [e \in {} |-> translate]

\* A document whose text the body extractor finds.
Document == [b \in Blobs |-> {body}]
BodyTranslation == [e \in {body} |-> translate]
===============================================================================
