---------------------------- MODULE MCRunnerProfile ----------------------------
(* Small instances of RunnerProfile for TLC. *)
EXTENDS RunnerProfile, TLC

CONSTANTS c1, k1, k2, other

PairingSymmetry ==
    Permutations(Owners) \cup Permutations(Runners)
        \cup Permutations(OwnKeys) \cup Permutations(Commands)
=============================================================================
