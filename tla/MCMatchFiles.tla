---------------------------- MODULE MCMatchFiles ----------------------------
EXTENDS MatchFiles, TLC

RunSymmetry == Permutations(Runs)
=============================================================================
