---------------------------- MODULE MCRequestNonce ----------------------------
(* Small instances of RequestNonce for TLC. *)
EXTENDS RequestNonce, TLC

CallSymmetry == Permutations(Calls) \cup Permutations(Nonces)
=============================================================================
