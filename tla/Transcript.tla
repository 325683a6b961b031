----------------------------- MODULE Transcript -----------------------------
(* The records of a match, the score derived from them and their independent*)
(* replay (src/arena/transcript.py, scoring.py and replay.py), for any game  *)
(* that meets the interface of src/arena/games/__init__.py.  A position is a *)
(* record with a field to_move.  A hash is modelled by what it commits to:   *)
(* a line holds its record and the number of lines its writer had chained    *)
(* when it wrote it, so the chain of a file is whole exactly when every line *)
(* follows the one before it.  Digests of positions are the positions.       *)
EXTENDS Integers, Sequences, SequencesExt

CONSTANTS
    Opening,            \* setup(Random(seed)): the position the seed decides
    Legal(_, _),        \* legal(state, move)
    Apply(_, _),        \* apply(state, move)
    Over(_),            \* terminal(state) is not None
    Winner(_),          \* terminal(state)["winner"], a seat or Nobody
    Nobody,             \* None, where a seat, a move or an outcome is expected
    Positions,          \* the positions a match may reach
    Moves               \* the moves an entrant may name

Seats == {0, 1}

\* The interface of a game: setup deals a position to be played, None is neither a
\* position nor a legal move, every position names the seat to move, and apply
\* keeps to positions.
ASSUME GameAssumption ==
    /\ Opening \in Positions /\ ~Over(Opening) /\ Nobody \notin Positions
    /\ \A p \in Positions : p.to_move \in Seats /\ ~Legal(p, Nobody)
    /\ \A p \in Positions, m \in Moves : Legal(p, m) => Apply(p, m) \in Positions

------------------------------------------------------------------------------
(* The records a referee appends, by kind.                                   *)
Header == [kind |-> "header"]
Ready(s) == [kind |-> "ready", player |-> s]
State(p, t) == [kind |-> "state", position |-> p, turn |-> t]
Move(s, t, m, ok) == [kind |-> "move", player |-> s, turn |-> t, move |-> m, legal |-> ok]
Forfeit(s, why, t) == [kind |-> "forfeit", player |-> s, reason |-> why, turn |-> t]
Abort == [kind |-> "abort"]
EngineError(code) == [kind |-> "engine_error", code |-> code]
Result(outcome, n) ==
    [kind |-> "result", winner |-> outcome.winner, reason |-> outcome.reason, moves |-> n]

Has(records, kind) == \E i \in DOMAIN records : records[i].kind = kind
AtMostOne(records, kind) ==
    \A i, j \in DOMAIN records : records[i].kind = kind /\ records[j].kind = kind => i = j

\* forfeits[0] and states[-1], where there are any.
FirstOf(records, kind) ==
    records[CHOOSE i \in DOMAIN records :
                /\ records[i].kind = kind
                /\ \A j \in DOMAIN records : j < i => records[j].kind # kind]
LastOf(records, kind) ==
    records[CHOOSE i \in DOMAIN records :
                /\ records[i].kind = kind
                /\ \A j \in DOMAIN records : j > i => records[j].kind # kind]

------------------------------------------------------------------------------
(* scoring.py: the outcome from referee state alone.  Points and decisive    *)
(* follow from the winner.                                                   *)
Outcome(w, why) == [winner |-> w, reason |-> why]
Void == Outcome(Nobody, "engine_error")
EndOf(p) == IF Over(p) THEN Outcome(Winner(p), "terminal") ELSE Outcome(Nobody, "unfinished")

\* Mutant: the seat that failed wins.
ForfeitedFor(f) == Outcome(f.player, f.reason)

ForfeitedBy(f) == Outcome(1 - f.player, f.reason)

\* Mutant: a forfeit decides before a fault of the referee voids.
ScoreForfeitsFirst(records) ==
    CASE Has(records, "forfeit") -> ForfeitedBy(FirstOf(records, "forfeit"))
      [] ~Has(records, "forfeit") /\ Has(records, "engine_error") -> Void
      [] OTHER -> EndOf(LastOf(records, "state").position)

score(records) ==
    CASE Has(records, "engine_error") -> Void
      [] ~Has(records, "engine_error") /\ ~Has(records, "state") ->
            Outcome(Nobody, "no_state_recorded")
      [] ~Has(records, "engine_error") /\ Has(records, "state") /\ Has(records, "forfeit") ->
            ForfeitedBy(FirstOf(records, "forfeit"))
      [] OTHER -> EndOf(LastOf(records, "state").position)

MovesOf(records) == Cardinality({i \in DOMAIN records : records[i].kind = "move"})

------------------------------------------------------------------------------
(* transcript.py: the lines of the file and the check of their chain.        *)
Line(r, chained) == [record |-> r, seq |-> chained]
verify_chain(file) == \A i \in DOMAIN file : file[i].seq = i - 1
RecordsOf(file) == [i \in DOMAIN file |-> file[i].record]

------------------------------------------------------------------------------
(* replay.py: the pass over the records that recomputes every position.      *)
Fresh == [computed |-> Nobody, turn |-> 0, expected |-> TRUE,
          setup |-> FALSE, states |-> TRUE, moves |-> TRUE]

ReplayState(v, r) ==
    LET opening == v.computed = Nobody
        target == IF opening THEN Opening ELSE v.computed
        ok == v.expected /\ r.turn = v.turn /\ r.position = target
    IN  [v EXCEPT !.computed = target, !.expected = FALSE, !.states = @ /\ ok,
                  !.setup = IF opening THEN ok ELSE @]

WellPlaced(v, r) ==
    /\ v.computed # Nobody
    /\ ~v.expected
    /\ r.turn = v.turn
    /\ r.player = v.computed.to_move
    /\ ~Over(v.computed)

ReplayMove(v, r) ==
    IF ~WellPlaced(v, r) \/ ~(Legal(v.computed, r.move) <=> r.legal)
    THEN [v EXCEPT !.moves = FALSE]
    ELSE IF r.legal
         THEN [v EXCEPT !.computed = Apply(@, r.move), !.turn = @ + 1, !.expected = TRUE]
         ELSE v

ReplayRecord(v, r) ==
    CASE r.kind = "state" -> ReplayState(v, r)
      [] r.kind = "move" -> ReplayMove(v, r)
      [] OTHER -> v

\* What the verifier holds after the first n records, and after all of them.
Pass(records) ==
    LET after[n \in 0..Len(records)] ==
            IF n = 0 THEN Fresh ELSE ReplayRecord(after[n - 1], records[n])
    IN  after

Replayed(records) == Pass(records)[Len(records)]

\* Mutant: an accepted move without its position is refused, whatever follows it.
NeverPartial(records) == FALSE

\* The last accepted move may lack its position when an engine error voids the match.
ClosedByVoid(records) ==
    /\ Len(records) >= 2
    /\ records[Len(records) - 1].kind = "engine_error"

\* Mutant: any single forfeit will do.
AnyForfeitReplays(records) == AtMostOne(records, "forfeit")

\* The only forfeit that replay can reproduce is the one ruled on a rejected move.
replayable_forfeit_evidence(records) ==
    \A i \in DOMAIN records : records[i].kind = "forfeit" =>
        /\ records[i].reason = "illegal_move"
        /\ i = Len(records) - 1
        /\ i > 1
        /\ LET m == records[i - 1]
           IN  /\ m.kind = "move"
               /\ m.player = records[i].player
               /\ m.turn = records[i].turn
               /\ ~m.legal

Structured(records) ==
    /\ \A i \in DOMAIN records : records[i].kind = "header" <=> i = 1
    /\ \A i \in DOMAIN records : records[i].kind = "result" <=> i = Len(records)

Adjudicated(records) ==
    Has(records, "forfeit") => Last(records).winner = 1 - FirstOf(records, "forfeit").player

\* verify: TRUE stands for the verdict PASS.
verify(file) ==
    /\ file # <<>>
    /\ verify_chain(file)
    /\ LET records == RecordsOf(file)
           v == Replayed(records)
       IN  /\ Structured(records)
           /\ v.setup /\ v.states /\ v.moves
           /\ v.computed # Nobody /\ v.expected => ClosedByVoid(records)
           /\ replayable_forfeit_evidence(records)
           /\ Adjudicated(records)
           /\ ~Has(records, "abort")
           /\ AtMostOne(records, "engine_error")
           /\ Last(records) = Result(score(records), MovesOf(records))
=============================================================================
