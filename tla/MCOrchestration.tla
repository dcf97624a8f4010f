-------------------------- MODULE MCOrchestration --------------------------
(***************************************************************************)
(* Small instances of Orchestration.                                       *)
(***************************************************************************)
EXTENDS Orchestration

\* Only the last stage, verification in the code, has no retry.
RetryOnce == [s \in Stages |-> IF s = N THEN 0 ELSE 1]
=============================================================================
