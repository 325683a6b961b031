---------------------------- MODULE MCRunnerWork ----------------------------
(***************************************************************************)
(* RunnerWork with commands of one runner.                                 *)
(***************************************************************************)
EXTENDS RunnerWork

CONSTANTS r1, o1

OneOwner == [r \in Runners |-> o1]
OneRunner == [p \in Commands |-> r1]
=============================================================================
