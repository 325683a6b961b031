---------------------------- MODULE ReplayPromise ----------------------------
(* What a PASS of verify proves (the docstring of src/arena/replay.py),      *)
(* whoever wrote the file.  verify finds it out in one pass that carries the *)
(* position, the turn and whether a position is due from record to record;   *)
(* here it is said without a pass, of each record by the records that it     *)
(* stands on.                                                                *)
EXTENDS Transcript

\* A move record names a move of the game or none, and has a ruling: legal rejects
\* every other move, and verify every other ruling.
WellFormed(r) ==
    r.kind = "move" => r.move \in Moves \union {Nobody} /\ r.legal \in BOOLEAN

Accepted(r) == r.kind = "move" /\ r.legal
OfTheGame(r) == r.kind \in {"state", "move"}

\* The position of record j is the one on the table at record i.
StandsAt(rs, j, i) ==
    /\ j \in DOMAIN rs /\ j < i /\ rs[j].kind = "state"
    /\ \A k \in DOMAIN rs : j < k /\ k < i => rs[k].kind # "state" /\ ~Accepted(rs[k])

\* A move is judged right: by the seat to move, in a game that is not over, and
\* accepted exactly if the rules allow it there.
RightlyRuled(rs, i) ==
    \E j \in DOMAIN rs :
        /\ StandsAt(rs, j, i)
        /\ rs[i].turn = rs[j].turn
        /\ rs[i].player = rs[j].position.to_move
        /\ ~Over(rs[j].position)
        /\ rs[i].legal <=> Legal(rs[j].position, rs[i].move)

\* Record i holds the position that the accepted move of record k leads to.
FollowsFrom(rs, i, k) ==
    /\ k \in DOMAIN rs /\ k < i /\ Accepted(rs[k])
    /\ \A l \in DOMAIN rs : k < l /\ l < i => ~OfTheGame(rs[l])
    /\ \E j \in DOMAIN rs :
          /\ StandsAt(rs, j, k)
          /\ rs[i].position = Apply(rs[j].position, rs[k].move)
          /\ rs[i].turn = rs[j].turn + 1

RightlyPlaced(rs, i) ==
    \/ /\ rs[i].position = Opening /\ rs[i].turn = 0
       /\ \A k \in DOMAIN rs : k < i => ~OfTheGame(rs[k])
    \/ \E k \in DOMAIN rs : FollowsFrom(rs, i, k)

\* A seat wins at the last position of the file, by the rules or because the other
\* seat named a move there that is not legal.
Won(rs, w) ==
    \E j \in DOMAIN rs :
        /\ StandsAt(rs, j, Len(rs))
        /\ \/ Over(rs[j].position) /\ Winner(rs[j].position) = w
           \/ \E i \in DOMAIN rs :
                 /\ i = Len(rs) - 2 /\ j < i
                 /\ rs[i].kind = "move" /\ rs[i].player = 1 - w
                 /\ ~Legal(rs[j].position, rs[i].move)

\* Every ruling and every position is as the rules have it.
LawfulGame(rs) ==
    \A i \in DOMAIN rs :
        /\ rs[i].kind = "move" => RightlyRuled(rs, i)
        /\ rs[i].kind = "state" => RightlyPlaced(rs, i)

\* And the file has an opening, and a result that the game bears out.
Lawful(rs) ==
    /\ LawfulGame(rs)
    /\ Has(rs, "state")
    /\ Last(rs).kind = "result"
    /\ Last(rs).winner \in Seats => Won(rs, Last(rs).winner)
=============================================================================
