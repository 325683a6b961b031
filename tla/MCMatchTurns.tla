----------------------------- MODULE MCMatchTurns -----------------------------
(* Matches of Nim on the heaps 1 and 2 for TLC, and the functions of Nim over*)
(* all layouts of the instance against reference definitions.                *)
EXTENDS MatchTurns, Nim

NimOpening == [heaps |-> <<1, 2>>, to_move |-> 0, last_mover |-> Nobody, turn |-> 0]
NimWinner(p) == p.last_mover

\* What three objects allow: each move takes at least one of them.
NimPositions ==
    {p \in [heaps : [1..2 -> 0..2], to_move : Seats, last_mover : Seats \cup {Nobody},
            turn : 0..3] : p.turn + Objects(p.heaps) <= 3}

\* Every legal move of such a match; each of them may be named again when it
\* is illegal.
NamedMoves == {[heap |-> 1, take |-> 1], [heap |-> 2, take |-> 1],
               [heap |-> 2, take |-> 2]}

------------------------------------------------------------------------------
(* Backward induction: a position is won by the seat to move if one of its   *)
(* moves leaves a position that is not; and the most moves that the rules    *)
(* allow.  Both look at every line of play.                                  *)
Heaps == UNION {[1..n -> 0..MaxHeap] : n \in HeapCounts}
After(heaps, m) == [heaps EXCEPT ![m.heap] = @ - m.take]
Won[h \in Heaps] == \E m \in legal_moves(h) : ~Won[After(h, m)]
Longest[h \in Heaps] == Max({0} \cup {1 + Longest[After(h, m)] : m \in legal_moves(h)})

\* winning_moves is exactly the set of legal moves to a position the other seat
\* has lost, an empty set if there is none; every layout that setup deals is won
\* for the seat that starts; and move_bound, computed from it once, is no less
\* than any line of play, so that no match is cut off which the players could go
\* on with.  It is about all layouts and not about this match, so it is looked
\* at once, before the match.
LayoutsAreFair ==
    pc = "open" =>
        /\ \A h \in Heaps :
              winning_moves(h) = {m \in legal_moves(h) : ~Won[After(h, m)]}
        /\ \A p \in setup : Won[p.heaps] /\ Longest[p.heaps] <= move_bound(p)
=============================================================================
