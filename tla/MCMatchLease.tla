----------------------------- MODULE MCMatchLease -----------------------------
(* Small instances of MatchLease for TLC. *)
EXTENDS MatchLease, TLC

CONSTANTS r1, r2, o1, o2

\* Two runners of two owners, or of one.
SeparateOwners == r1 :> o1 @@ r2 :> o2
OneOwner == [r \in Runners |-> o1]

\* Jobs may be exchanged; runners too when they share an owner.
ExchangeJobs == Permutations(Jobs)
Exchange == Permutations(Runners) \cup Permutations(Jobs)
=============================================================================
