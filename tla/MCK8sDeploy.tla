----------------------------- MODULE MCK8sDeploy ----------------------------
(* Values of the constants of K8sDeploy for TLC.                           *)
EXTENDS K8sDeploy

OneImage == <<"frkr-ingest-gateway">>

\* the code's order; two of the three are found, enough for one change to be
\* lost while the other is kept
StreamingInBetween == <<"frkr-ingest-gateway", "frkr-streaming-gateway", "frkr-operator">>
StreamingMissing == Images \ {"frkr-streaming-gateway"}

AllFound == Images

AnyProvider == BOOLEAN
NoProvider == {FALSE}

AnyError == {"pvcCheck", "rollout"}
NoError == {}
=============================================================================
