----------------------------- MODULE MatchTurns -----------------------------
(* One match (run_match of src/arena/match.py): a referee that shakes hands  *)
(* with two entrant processes, asks the seat to move, rules on the answer    *)
(* and appends every ruling to the transcript, until it appends the result   *)
(* and removes what it does not want to keep.  The entrants are processes of *)
(* their own: between any two steps of the referee they may answer, write a  *)
(* line nobody asked for, or exit.  The reader thread of an entrant          *)
(* (src/arena/sandbox.py) is part of the step that writes the line: the pipe *)
(* and the queue behind it keep the order.  Every append, every call into    *)
(* the game and every start may fail; the process may die at any step.       *)
EXTENDS Transcript

CONSTANTS
    Bound,          \* move_bound(Opening)
    MaxFaults,      \* bound: how many operations of the referee fail
    MaxBlurts       \* bound: how many lines a seat writes unasked

Offences == {"timeout", "entrant_exited", "malformed_json", "not_ready",
             "entrant_not_running", "illegal_move"}
Reasons == Offences \union {"terminal", "unfinished", "engine_error", "move_bound_exceeded"}

ASSUME MatchAssumption ==
    /\ Bound \in Nat /\ MaxFaults \in Nat /\ MaxBlurts \in Nat
    /\ Nobody \notin Seats
    /\ Nobody \notin [winner : Seats \union {Nobody}, reason : Reasons]

VARIABLES
    pc,         \* where the referee is
    seat,       \* the seat it deals with
    position,   \* state, as the referee holds it
    turn,       \* accepted moves
    reply,      \* the move of the answer being judged
    outcome,    \* outcome of the loop, Nobody while undecided
    records,    \* what the writer has chained, in memory
    file,       \* the lines on disk
    kept,       \* the file exists
    inbox,      \* per seat: requests it has not answered
    queue,      \* per seat: lines the reader thread has queued
    process,    \* per seat: "idle", "running" or "gone"
    blurts,     \* per seat: lines written unasked
    faults,     \* operations of the referee that failed before the result
    astray,     \* history: seats that broke the protocol or missed a deadline
    misread     \* history: seats whose answer to an older request was judged

referee == <<pc, seat, position, turn, reply, outcome>>
disk == <<records, file, kept>>
seats == <<inbox, queue, process, blurts>>
history == <<astray, misread>>
vars == <<pc, seat, position, turn, reply, outcome, records, file, kept,
          inbox, queue, process, blurts, faults, astray, misread>>

------------------------------------------------------------------------------
(* Lines of an entrant.  about: the turn of the request it answers, -1 for   *)
(* hello, Nobody for a line nobody asked for; only the history reads it.     *)
ReadyLine(about) == [type |-> "ready", move |-> Nobody, about |-> about]
MoveLine(m, about) == [type |-> "move", move |-> m, about |-> about]
Junk == [type |-> "junk", move |-> Nobody, about |-> Nobody]
Eof == [type |-> "eof", move |-> Nobody, about |-> Nobody]
Replies == {"ready", "move"}

Hello == [turn |-> -1, position |-> Nobody]
MoveRequest == [turn |-> turn, position |-> position]

(* The stages of the referee that the try block around the play protects.    *)
InPlay == {"turn", "await", "judge", "apply", "rejected", "charged"}
Stages == InPlay \union
    {"open", "greet", "handshake", "handshake_charged", "handshake_fault", "opening", "fault",
     "score", "score_fault", "commit", "commit_void", "close", "unwind",
     "sweep", "sweep_unwind", "returned", "raised", "dead"}

Committed == Has(records, "result")

TypeOK ==
    /\ pc \in Stages /\ seat \in Seats
    /\ position \in Positions /\ turn \in 0..Bound
    /\ reply \in Moves \union {Nobody}
    /\ \A i \in DOMAIN file : file[i].seq \in 0..Len(records)
    /\ kept \in BOOLEAN
    /\ process \in [Seats -> {"idle", "running", "gone"}]
    /\ blurts \in [Seats -> 0..MaxBlurts]
    /\ faults \in 0..MaxFaults
    /\ astray \subseteq Seats /\ misread \subseteq Seats
    /\ \A s \in Seats : Len(inbox[s]) <= MaxBlurts + 1 /\ Len(queue[s]) <= MaxBlurts + 2

Init ==
    /\ pc = "open" /\ seat = 0
    /\ position = Opening /\ turn = 0
    /\ reply = Nobody /\ outcome = Nobody
    /\ records = <<>> /\ file = <<>> /\ kept = FALSE
    /\ inbox = [s \in Seats |-> <<>>] /\ queue = [s \in Seats |-> <<>>]
    /\ process = [s \in Seats |-> "idle"]
    /\ blurts = [s \in Seats |-> 0]
    /\ faults = 0
    /\ astray = {} /\ misread = {}

------------------------------------------------------------------------------
(* TranscriptWriter.append.  A failed append chains nothing, but the line it *)
(* wrote may be in the file, or reach it with the next flush.                *)
Chained(r) ==
    /\ records' = Append(records, r)
    /\ file' = Append(file, Line(r, Len(records)))
    /\ kept' = TRUE
    /\ faults' = faults

Lost(r) ==
    /\ faults < MaxFaults
    /\ faults' = faults + 1
    /\ records' = records
    /\ file' \in {file, Append(file, Line(r, Len(records)))}
    /\ kept' = TRUE

\* Append r and go on at next; a failure goes on at handler.
Record(r, next, handler) ==
    \/ Chained(r) /\ pc' = next
    \/ Lost(r) /\ pc' = handler

\* An operation that is no append fails.
Fault(handler) ==
    /\ faults < MaxFaults
    /\ faults' = faults + 1
    /\ pc' = handler
    /\ UNCHANGED disk

\* outcome is assigned once the ruling is on record.
Ruled(o, next) == outcome' = IF pc' = next THEN o ELSE outcome

Goto(next) == pc' = next /\ UNCHANGED <<disk, faults>>

------------------------------------------------------------------------------
(* Entrant.recv: the oldest line of the queue is the answer, whatever it was *)
(* written for.                                                              *)
\* Mutant: the line stays in the queue.
Peek == queue' = queue

Pop == queue' = [queue EXCEPT ![seat] = Tail(@)]

Silent == queue[seat] = <<>>
Heard(types) == ~Silent /\ Head(queue[seat]).type \in types

\* Mutant: the referee waits for ever.
UnansweredAtLeisure(why) ==
    \/ /\ Heard({"eof"}) /\ why = "entrant_exited" /\ Pop /\ UNCHANGED astray
    \/ /\ Heard({"junk"}) /\ why = "malformed_json" /\ Pop /\ UNCHANGED astray

\* The seat failed to answer: the reason, and the queue after the attempt.
Unanswered(why) ==
    \/ /\ Silent /\ why = "timeout" /\ queue' = queue
       /\ astray' = astray \union {seat}
    \/ /\ Heard({"eof"}) /\ why = "entrant_exited" /\ Pop /\ UNCHANGED astray
    \/ /\ Heard({"junk"}) /\ why = "malformed_json" /\ Pop /\ UNCHANGED astray

\* The reader thread of s queues a line.
Says(s, line) == queue' = [queue EXCEPT ![s] = Append(@, line)]

------------------------------------------------------------------------------
(* Header, handshake and opening position.                                   *)
Open ==
    /\ pc = "open"
    /\ \/ Record(Header, "greet", "unwind")
       \/ Fault("unwind")
    /\ UNCHANGED <<seat, position, turn, reply, outcome, seats, history>>

Greet ==
    /\ pc = "greet"
    /\ \/ /\ Goto("handshake")
          /\ process' = [process EXCEPT ![seat] = "running"]
          /\ inbox' = [inbox EXCEPT ![seat] = Append(@, Hello)]
       \/ /\ Fault("handshake_fault")
          /\ process' \in {process, [process EXCEPT ![seat] = "running"]}
          /\ inbox' = inbox
    /\ UNCHANGED <<seat, position, turn, reply, outcome, queue, blurts, history>>

HearReady ==
    /\ pc = "handshake" /\ Heard({"ready"})
    /\ Pop
    /\ \/ Chained(Ready(seat)) /\ pc' = (IF seat = 0 THEN "greet" ELSE "opening") /\ seat' = 1
       \/ Lost(Ready(seat)) /\ pc' = "handshake_fault" /\ seat' = seat
    /\ UNCHANGED <<position, turn, reply, outcome, inbox, process, blurts, history>>

HandshakeForfeit ==
    /\ pc = "handshake"
    /\ \E why \in Offences :
          /\ \/ Unanswered(why)
             \/ Heard({"move"}) /\ why = "not_ready" /\ Pop /\ UNCHANGED astray
          /\ Record(Forfeit(seat, why, Nobody), "handshake_charged", "unwind")
          /\ Ruled(Outcome(1 - seat, why), "handshake_charged")
    /\ UNCHANGED <<seat, position, turn, reply, inbox, process, blurts, misread>>

\* The diagnostics line about the entrant is not protected here.
HandshakeDiagnosis ==
    /\ pc = "handshake_charged"
    /\ Goto("opening") \/ Fault("unwind")
    /\ UNCHANGED <<seat, position, turn, reply, outcome, seats, history>>

\* Mutant: a seat that could not be started is charged for it.
HandshakeFaultCharged ==
    /\ pc = "handshake_fault"
    /\ Record(Forfeit(seat, "not_ready", Nobody), "opening", "unwind")
    /\ Ruled(Outcome(1 - seat, "not_ready"), "opening")
    /\ UNCHANGED <<seat, position, turn, reply, seats, history>>

HandshakeFault ==
    /\ pc = "handshake_fault"
    /\ Record(EngineError("handshake_failed"), "opening", "unwind")
    /\ Ruled(Void, "opening")
    /\ UNCHANGED <<seat, position, turn, reply, seats, history>>

OpeningState ==
    /\ pc = "opening"
    /\ Record(State(position, 0), IF outcome = Nobody THEN "turn" ELSE "score", "unwind")
    /\ UNCHANGED <<seat, position, turn, reply, outcome, seats, history>>

------------------------------------------------------------------------------
(* The play loop.                                                            *)
GameOver ==
    /\ pc = "turn" /\ Over(position)
    /\ outcome' = EndOf(position)
    /\ Goto("score")
    /\ UNCHANGED <<seat, position, turn, reply, seats, history>>

BoundExceeded ==
    /\ pc = "turn" /\ ~Over(position) /\ turn >= Bound
    /\ Record(Abort, "score", "fault")
    /\ Ruled(Outcome(Nobody, "move_bound_exceeded"), "score")
    /\ UNCHANGED <<seat, position, turn, reply, seats, history>>

\* Entrant.send refuses a process that is gone, and ends one that does not read.
Ask ==
    /\ pc = "turn" /\ ~Over(position) /\ turn < Bound
    /\ seat' = position.to_move
    /\ \/ /\ process[seat'] = "running"
          /\ inbox' = [inbox EXCEPT ![seat'] = Append(@, MoveRequest)]
          /\ Goto("await")
          /\ UNCHANGED <<queue, process, astray>>
       \/ /\ process[seat'] # "running"
          /\ Record(Forfeit(seat', "entrant_not_running", turn), "charged", "fault")
          /\ UNCHANGED <<inbox, queue, process, astray>>
       \/ /\ process[seat'] = "running"
          /\ process' = [process EXCEPT ![seat'] = "gone"]
          /\ Says(seat', Eof)
          /\ astray' = astray \union {seat'}
          /\ Record(Forfeit(seat', "timeout", turn), "charged", "fault")
          /\ UNCHANGED inbox
    /\ UNCHANGED <<position, turn, reply, outcome, blurts, misread>>

Hear ==
    /\ pc = "await" /\ Heard(Replies)
    /\ Pop
    /\ reply' = Head(queue[seat]).move
    /\ misread' = IF Head(queue[seat]).about = turn THEN misread ELSE misread \union {seat}
    /\ Goto("judge")
    /\ UNCHANGED <<seat, position, turn, outcome, inbox, process, blurts, astray>>

MoveForfeit ==
    /\ pc = "await"
    /\ \E why \in Offences :
          /\ Unanswered(why)
          /\ Record(Forfeit(seat, why, turn), "charged", "fault")
    /\ UNCHANGED <<seat, position, turn, reply, outcome, inbox, process, blurts, misread>>

\* The outcome of a forfeit is set after its diagnostics line is written.
Charge ==
    /\ pc = "charged"
    /\ outcome' = ForfeitedBy(Last(records))
    /\ Goto("score")
    /\ UNCHANGED <<seat, position, turn, reply, seats, history>>

Accept ==
    /\ pc = "judge" /\ Legal(position, reply)
    /\ Record(Move(seat, turn, reply, TRUE), "apply", "fault")
    /\ UNCHANGED <<seat, position, turn, reply, outcome, seats, history>>

Reject ==
    /\ pc = "judge" /\ ~Legal(position, reply)
    /\ Record(Move(seat, turn, reply, FALSE), "rejected", "fault")
    /\ UNCHANGED <<seat, position, turn, reply, outcome, seats, history>>

RejectForfeit ==
    /\ pc = "rejected"
    /\ Record(Forfeit(seat, "illegal_move", turn), "score", "fault")
    /\ Ruled(Outcome(1 - seat, "illegal_move"), "score")
    /\ UNCHANGED <<seat, position, turn, reply, seats, history>>

Advance ==
    /\ pc = "apply"
    /\ position' = Apply(position, reply)
    /\ turn' = turn + 1
    /\ reply' = Nobody
    /\ Record(State(position', turn'), "turn", "fault")
    /\ UNCHANGED <<seat, outcome, seats, history>>

\* The game, the diagnostics file or the messaging raises inside the play.
RefereeFault ==
    /\ pc \in InPlay
    /\ Fault("fault")
    /\ UNCHANGED <<seat, position, turn, reply, outcome, seats, history>>

PlayFault ==
    /\ pc = "fault"
    /\ Record(EngineError("referee_fault"), "score", "unwind")
    /\ Ruled(Void, "score")
    /\ UNCHANGED <<seat, position, turn, reply, seats, history>>

------------------------------------------------------------------------------
(* Score, result and the finally block.                                      *)
Score ==
    /\ pc = "score"
    /\ Goto("commit") \/ Fault("score_fault")
    /\ UNCHANGED <<seat, position, turn, reply, outcome, seats, history>>

ScoreFault ==
    /\ pc = "score_fault"
    /\ IF Has(records, "engine_error")
       THEN Goto("commit_void")
       ELSE Record(EngineError("referee_fault"), "commit_void", "unwind")
    /\ UNCHANGED <<seat, position, turn, reply, outcome, seats, history>>

Scored == IF pc = "commit_void" THEN Void ELSE score(records)

\* An interrupt after the append and before result_committed is set ends like an
\* append that fails with its line in the file: the files are removed.
Commit ==
    /\ pc \in {"commit", "commit_void"}
    /\ Record(Result(Scored, MovesOf(records)), "close", "unwind")
    /\ UNCHANGED <<seat, position, turn, reply, outcome, seats, history>>

\* What follows the commit, goodbyes and the report, may still raise.
Report ==
    /\ pc = "close"
    /\ Goto("unwind")
    /\ UNCHANGED <<seat, position, turn, reply, outcome, seats, history>>

\* Entrant.close seals the channel and discards what is queued.
CloseEntrants ==
    /\ pc \in {"close", "unwind"}
    /\ process' = [s \in Seats |-> IF process[s] = "idle" THEN "idle" ELSE "gone"]
    /\ queue' = [s \in Seats |-> <<>>]
    /\ inbox' = [s \in Seats |-> <<>>]
    /\ Goto(IF pc = "close" THEN "sweep" ELSE "sweep_unwind")
    /\ UNCHANGED <<seat, position, turn, reply, outcome, blurts, history>>

\* Mutant: a match without a result keeps its file.
SweepKeeping ==
    /\ \/ pc = "sweep" /\ pc' \in {"returned", "raised"}
       \/ pc = "sweep_unwind" /\ pc' = "raised"
    /\ UNCHANGED <<seat, position, turn, reply, outcome, disk, faults, seats, history>>

\* An error of the cleanup is raised, but does not remove a file.
Sweep ==
    /\ \/ pc = "sweep" /\ pc' \in {"returned", "raised"} /\ kept' = kept
       \/ pc = "sweep_unwind" /\ pc' = "raised" /\ kept' = (kept /\ Committed)
    /\ UNCHANGED <<seat, position, turn, reply, outcome, records, file, faults,
                   seats, history>>

Crash ==
    /\ pc \notin {"returned", "raised", "dead"}
    /\ pc' = "dead"
    /\ UNCHANGED <<seat, position, turn, reply, outcome, disk, faults, seats, history>>

------------------------------------------------------------------------------
(* The entrants.                                                             *)
\* s answers its oldest request: with ready, or with some move.
Answer(s) ==
    /\ process[s] = "running" /\ inbox[s] # <<>>
    /\ LET request == Head(inbox[s])
       IN  IF request = Hello
           THEN Says(s, ReadyLine(-1)) /\ UNCHANGED astray
           ELSE \E m \in Moves :
                   /\ Says(s, MoveLine(m, request.turn))
                   /\ astray' = IF Legal(request.position, m) THEN astray
                                                              ELSE astray \union {s}
    /\ inbox' = [inbox EXCEPT ![s] = Tail(@)]
    /\ UNCHANGED <<referee, disk, faults, process, blurts, misread>>

\* s writes a line that answers nothing.
Blurt(s) ==
    /\ process[s] = "running" /\ blurts[s] < MaxBlurts
    /\ \E line \in {Junk, ReadyLine(Nobody)} \union {MoveLine(m, Nobody) : m \in Moves} :
          Says(s, line)
    /\ blurts' = [blurts EXCEPT ![s] = @ + 1]
    /\ astray' = astray \union {s}
    /\ UNCHANGED <<referee, disk, faults, inbox, process, misread>>

Exit(s) ==
    /\ process[s] = "running"
    /\ process' = [process EXCEPT ![s] = "gone"]
    /\ Says(s, Eof)
    /\ astray' = astray \union {s}
    /\ UNCHANGED <<referee, disk, faults, inbox, blurts, misread>>

------------------------------------------------------------------------------
Referee ==
    \/ Open \/ Greet \/ HearReady \/ HandshakeForfeit \/ HandshakeDiagnosis
    \/ HandshakeFault \/ OpeningState
    \/ GameOver \/ BoundExceeded \/ Ask \/ Hear \/ MoveForfeit \/ Charge
    \/ Accept \/ Reject \/ RejectForfeit \/ Advance
    \/ RefereeFault \/ PlayFault
    \/ Score \/ ScoreFault \/ Commit \/ Report \/ CloseEntrants \/ Sweep

Entrants == \E s \in Seats : Answer(s) \/ Blurt(s) \/ Exit(s)

Next == Referee \/ Entrants \/ Crash
Spec == Init /\ [][Next]_vars

\* The referee is never blocked: its waits have deadlines.  Nothing is assumed
\* of the entrants.
FairSpec == Spec /\ WF_vars(Referee)

------------------------------------------------------------------------------
(* Safety.                                                                   *)
Runtime(rs) == \E i \in DOMAIN rs : rs[i].kind = "forfeit" /\ rs[i].reason # "illegal_move"
ForfeitThenError(rs) == Has(rs, "forfeit") /\ Has(rs, "engine_error")

\* A committed match replays to PASS, if its chain is whole, whatever the referee
\* went through: an accepted move whose position was never written, a rejected
\* move without its forfeit, a handshake that failed half way.  That the chain may
\* be broken is what ResultsAreRecomputable finds; other exceptions are the ones
\* the verifier states: rulings on the clock or the process, and aborted matches;
\* a fault after a forfeit, which voids the match, is refused as well.
HonestMatchesReplay ==
    /\ Committed /\ verify_chain(file)
    /\ ~Runtime(records) /\ ~Has(records, "abort") /\ ~ForfeitThenError(records)
    => verify(file)

\* A file that replays to PASS tells the truth about this match: its last
\* position is the referee's (or one accepted move behind, in a match voided
\* for that reason), and its winner is the one the play loop had decided on,
\* unless the score itself failed.  Files cut short by a crash never pass.
PassTellsTheMatch ==
    kept /\ verify(file) =>
        LET rs == RecordsOf(file)
            final == LastOf(rs, "state")
        IN  /\ Last(rs).winner = Nobody \/ Last(rs).winner = outcome.winner
            /\ final.position = position \/ Last(rs).reason = "engine_error"
            /\ final.turn = turn \/ Last(rs).reason = "engine_error"
            /\ ~Runtime(rs)
            /\ Last(rs).winner \in Seats => outcome # Nobody

\* The scorer, which sees nothing but the records, agrees with the loop that
\* ruled on the match; only the reason of an aborted match is told apart.
ScorerAgrees ==
    pc = "commit" =>
        /\ score(records).winner = outcome.winner
        /\ outcome.reason # "move_bound_exceeded" => score(records) = outcome

\* "A referee's own crash must not be allowed to decide who won": after any
\* fault of the referee the committed result is a void, whatever had been
\* ruled before.
FaultNeverDecides ==
    Committed /\ faults > 0 =>
        Last(records) = Result(Void, MovesOf(records))

\* A seat that answers every request once, in time and by the rules is never
\* charged with a forfeit or a rejected move and never loses by default,
\* whatever the other seat writes, and no answer of its is taken for the answer
\* to another request.
GoodSeatIsNeverCharged ==
    /\ misread \subseteq astray
    /\ \A i \in DOMAIN records :
          \/ records[i].kind = "forfeit"
          \/ records[i].kind = "move" /\ ~records[i].legal
          => records[i].player \in astray

\* When run_match is over no entrant is left running, and a file is left behind
\* exactly when a result was committed.
NothingIsLeftBehind ==
    pc \in {"returned", "raised"} =>
        /\ kept <=> Committed
        /\ \A s \in Seats : process[s] # "running"
        /\ pc = "returned" => Last(records).kind = "result"

------------------------------------------------------------------------------
\* "A match that stops without a record is the fail-silent shape this engine
\* exists to avoid": silent or dying entrants never keep the match from its end.
MatchEnds == <>(pc \in {"returned", "raised", "dead"})

\* The published match is an adjudicated game.
LastBoard ==
    IF Has(records, "state") THEN LastOf(records, "state").position ELSE Opening
Published ==
    IF Committed THEN Outcome(Last(records).winner, Last(records).reason) ELSE Nobody

Adjudged == INSTANCE Adjudication WITH board <- LastBoard, verdict <- Published

\* Positions on record follow from legal moves, and the result is the winner by
\* the rules, a default of the seat that had to answer, or nobody.
KeepsPromise == Adjudged!Spec

\* "The transcript is the match. A result is not a claim the engine makes; it
\* is the head of a chain that anyone can recompute from the file."
ResultsAreRecomputable == Committed => verify_chain(file)
=============================================================================
