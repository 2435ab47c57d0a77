------------------------------ MODULE MCPutRetry ------------------------------
(* Instances of PutBody, over RetryLoop, for TLC. *)
EXTENDS PutBody

\* None, one, the default and enough to reach the cut of the delay.
RetryCounts == {0, 1, 3, 5}
=============================================================================
