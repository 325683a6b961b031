----------------------------- MODULE MCRateWindow -----------------------------
(* A small instance of RateWindow for TLC: one operation with a short window *)
(* and one, as delete_owner, with a longer window and a lower limit.         *)
EXTENDS RateWindow, TLC

CONSTANTS confirm_pairing, delete_owner

SmallLimit == confirm_pairing :> 2 @@ delete_owner :> 1
SmallWindow == confirm_pairing :> 2 @@ delete_owner :> 4

CallSymmetry == Permutations(Calls)
=============================================================================
