------------------------ MODULE MCBrowserIdempotency ------------------------
(* Small instances of BrowserIdempotency for TLC. *)
EXTENDS BrowserIdempotency, TLC

GatewaySymmetry == Permutations(Slots) \cup Permutations(Calls)
                   \cup Permutations(Bodies) \cup Permutations(SealKeys)
=============================================================================
