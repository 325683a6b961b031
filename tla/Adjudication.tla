---------------------------- MODULE Adjudication ----------------------------
(* What a match promises: two seats move in turn by the rules, and the match *)
(* is decided at most once, by the rules, by a forfeit of the seat that had  *)
(* to answer, or for nobody.                                                 *)
EXTENDS Integers

CONSTANTS Opening, Moves, Legal(_, _), Apply(_, _), Over(_), Winner(_), Nobody,
          Offences      \* the reasons for a forfeit

VARIABLES
    board,      \* the last position on record
    verdict     \* Nobody, or the winner and the reason that were published

vars == <<board, verdict>>

Init == board = Opening /\ verdict = Nobody

Play(m) ==
    /\ verdict = Nobody
    /\ ~Over(board)
    /\ Legal(board, m)
    /\ board' = Apply(board, m)
    /\ verdict' = verdict

Decide(outcome) ==
    /\ verdict = Nobody
    /\ verdict' = outcome
    /\ board' = board

\* The game ended by its rules.
Win == Over(board) /\ Decide([winner |-> Winner(board), reason |-> "terminal"])

\* The seat that had to answer did not; before the first move either may fail.
Default == \E s \in {0, 1}, why \in Offences :
    /\ ~Over(board)
    /\ s = board.to_move \/ board = Opening
    /\ Decide([winner |-> 1 - s, reason |-> why])

\* A fault of the referee or the bound on moves: nobody wins.
Annul == \E why \in {"engine_error", "unfinished"} :
    Decide([winner |-> Nobody, reason |-> why])

Next == (\E m \in Moves : Play(m)) \/ Win \/ Default \/ Annul
Spec == Init /\ [][Next]_vars
=============================================================================
