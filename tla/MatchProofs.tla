----------------------------- MODULE MatchProofs -----------------------------
(* Proofs about a match, for every game that meets the interface, any bound  *)
(* on its moves and any number of faults and stray lines: TurnsInv is        *)
(* inductive, so a fault of the referee never decides, a seat that keeps to  *)
(* the protocol is never charged, the scorer agrees with the loop, nothing   *)
(* is left behind, and the published match is an adjudicated game.  Then the *)
(* replay of a match: ReplayInv says what the verifier has recomputed at the *)
(* end of the records, stage by stage, so an honest file passes and a file   *)
(* that passes tells the match as the referee ruled it.  Then the verifier   *)
(* and any file: what it refuses is exactly what the rules do not allow, and *)
(* a file that passes is a game that its winner has won.  And the files of a *)
(* match id for every set of calls: FilesInv is inductive, so a result that  *)
(* was produced alone keeps its files and a failed match leaves none of its  *)
(* own.                                                                      *)
EXTENDS MatchTurns, MatchFiles, ReplayPromise, TLAPS, WellFoundedInduction

------------------------------------------------------------------------------
(* The invariant of a match.  Sequences are typed by the set of what they    *)
(* hold, so that a step that appends needs no type for what it appends.      *)
IsSeq(s) == s \in Seq({s[i] : i \in DOMAIN s})

Requests == [turn : Int, position : Positions \union {Nobody}]
Lines == [type : {"ready", "move", "junk", "eof"}, move : Moves \union {Nobody},
          about : Int \union {Nobody}]

TurnsTyped ==
    /\ pc \in Stages /\ seat \in Seats
    /\ position \in Positions /\ turn \in 0..Bound
    /\ reply \in Moves \union {Nobody}
    /\ faults \in Nat /\ kept \in BOOLEAN
    /\ records \in Seq({records[i] : i \in DOMAIN records})
    /\ inbox \in [Seats -> Seq(Requests)]
    /\ queue \in [Seats -> Seq(Lines)]
    /\ process \in [Seats -> {"idle", "running", "gone"}]
    /\ astray \subseteq Seats

\* The kinds of record that the rest of a match depends on.
Voided == Has(records, "engine_error")
Forfeited == Has(records, "forfeit")
Placed == Has(records, "state")

\* The result is the last record, and nothing runs behind the last stages.
Swept == {"sweep", "sweep_unwind", "returned", "raised"}
AfterResult == Swept \union {"close", "unwind", "dead"}
TurnsClosed ==
    /\ pc \in {"close", "sweep", "returned"} => Committed
    /\ Committed => pc \in AfterResult /\ kept /\ Last(records).kind = "result"
    /\ pc = "raised" => (kept <=> Committed)
    /\ pc \in Swept => \A s \in Seats : process[s] # "running"

\* A failed operation is on record before anything is scored.
Unwinding == {"handshake_fault", "fault", "score_fault", "unwind", "sweep_unwind",
              "raised", "dead"}
FaultsRecorded ==
    /\ faults > 0 => pc \in Unwinding \/ Voided
    /\ pc = "commit_void" => Voided
    /\ FaultNeverDecides

------------------------------------------------------------------------------
(* What the loop has decided, against what is on record.                     *)
LastStateAt(rs, i) ==
    /\ rs[i].kind = "state"
    /\ \A j \in DOMAIN rs : j > i => rs[j].kind # "state"
OnlyForfeitAt(rs, i) ==
    /\ rs[i].kind = "forfeit"
    /\ \A j \in DOMAIN rs : rs[j].kind = "forfeit" => j = i

BoardKnown == Placed => \E i \in DOMAIN records : LastStateAt(records, i)
OnBoard ==
    \E i \in DOMAIN records : LastStateAt(records, i) /\ records[i] = State(position, turn)

Uncharged == ~Forfeited /\ ~Voided
Undecided == outcome = Nobody /\ Uncharged
Answerable(f) ==
    /\ f.player \in Seats /\ f.reason \in Offences
    /\ position = Opening \/ f.player = position.to_move
Pending == OnlyForfeitAt(records, Len(records)) /\ Answerable(Last(records)) /\ ~Voided
Defaulted ==
    /\ ~Voided
    /\ \E i \in DOMAIN records :
          /\ OnlyForfeitAt(records, i) /\ Answerable(records[i])
          /\ outcome = ForfeitedBy(records[i])
Annulled == Voided /\ outcome = Void

BeforePlay == {"open", "greet", "handshake", "handshake_fault", "handshake_charged", "opening"}
Asking == {"await", "judge", "apply", "rejected"}

OpeningRuled ==
    pc \in BeforePlay =>
        /\ position = Opening /\ turn = 0 /\ ~Placed
        /\ \/ Undecided /\ pc # "handshake_charged"
           \/ Defaulted /\ pc \in {"handshake_charged", "opening"}
           \/ Annulled /\ pc = "opening"

PlayRuled ==
    /\ pc \in Asking \union {"turn"} => Undecided /\ OnBoard
    /\ pc \in Asking => ~Over(position) /\ seat = position.to_move /\ turn < Bound
    /\ pc = "apply" => Legal(position, reply)
    /\ pc = "charged" => Pending /\ OnBoard /\ ~Over(position)

Decided ==
    \/ Annulled
    \/ /\ OnBoard
       /\ \/ Defaulted /\ ~Over(position)
          \/ Uncharged /\ Over(position) /\ outcome = EndOf(position)
          \/ /\ Uncharged /\ ~Over(position)
             /\ outcome = Outcome(Nobody, "move_bound_exceeded")

RulingsRecorded ==
    /\ BoardKnown /\ OpeningRuled /\ PlayRuled
    /\ pc \in {"score", "commit"} => Decided

------------------------------------------------------------------------------
(* A seat that keeps to the protocol has at most one request to answer, or   *)
(* one answer to it in the queue.                                            *)
InTouch ==
    \/ pc \in {"open", "greet", "handshake", "turn"} \union Asking
    \/ pc = "opening" /\ outcome = Nobody
Asked(s) == seat = s /\ pc \in {"handshake", "await"}
Answers(s) ==
    IF pc = "handshake" THEN {ReadyLine(-1)}
    ELSE {MoveLine(m, turn) : m \in {n \in Moves : Legal(position, n)}}
InStep(s) ==
    \/ /\ Asked(s)
       /\ \/ inbox[s] = <<IF pc = "handshake" THEN Hello ELSE MoveRequest>> /\ queue[s] = <<>>
          \/ inbox[s] = <<>> /\ \E line \in Answers(s) : queue[s] = <<line>>
    \/ ~Asked(s) /\ inbox[s] = <<>> /\ queue[s] = <<>>
Greeted(s) ==
    \/ pc \in {"opening", "turn"} \union Asking
    \/ pc = "handshake" /\ s = seat
    \/ pc \in {"open", "greet", "handshake"} /\ s = 0 /\ seat = 1

Keeping(s) ==
    /\ InTouch => InStep(s) /\ (Greeted(s) => process[s] = "running")
    /\ pc = "judge" /\ seat = s => Legal(position, reply)
SeatsInStep ==
    /\ \A s \in Seats \ astray : Keeping(s)
    /\ pc = "rejected" => seat \in astray
    /\ GoodSeatIsNeverCharged

TurnsInv ==
    TurnsTyped /\ TurnsClosed /\ FaultsRecorded /\ RulingsRecorded /\ SeatsInStep

------------------------------------------------------------------------------
(* Sequences of records.                                                     *)
\* What Append does, without a type for what is appended.
LEMMA Appending ==
  ASSUME NEW s, IsSeq(s), NEW x
  PROVE  LET t == Append(s, x)
         IN  /\ Len(s) \in Nat /\ DOMAIN s = 1..Len(s)
             /\ IsSeq(t) /\ Len(t) = Len(s) + 1 /\ DOMAIN t = 1..(Len(s) + 1)
             /\ \A i \in 1..Len(s) : t[i] = s[i]
             /\ t[Len(s) + 1] = x
<1> DEFINE E == {s[i] : i \in DOMAIN s}
           F == E \union {x}
           t == Append(s, x)
<1>1. s \in Seq(E) /\ s \in Seq(F)
  <2>1. s \in Seq(E)
    BY DEF IsSeq
  <2>2. E \subseteq F
    OBVIOUS
  <2> HIDE DEF E, F
  <2> QED
    BY <2>1, <2>2
<1>2. Len(s) \in Nat /\ DOMAIN s = 1..Len(s)
  <2> HIDE DEF E, F
  <2> QED BY <1>1
<1>3. /\ t \in Seq(F) /\ Len(t) = Len(s) + 1 /\ DOMAIN t = 1..(Len(s) + 1)
      /\ \A i \in 1..Len(s) : t[i] = s[i]
      /\ t[Len(s) + 1] = x
  <2>1. x \in F
    OBVIOUS
  <2> HIDE DEF E, F
  <2> QED BY <1>1, <2>1
<1>4. F = {t[i] : i \in DOMAIN t}
  <2>1. \A i \in 1..(Len(s) + 1) : i \in 1..Len(s) \/ i = Len(s) + 1
    BY <1>2
  <2>2. Len(s) + 1 \in 1..(Len(s) + 1) /\ 1..Len(s) \subseteq 1..(Len(s) + 1)
    BY <1>2
  <2> HIDE DEF t
  <2> QED
    BY <1>2, <1>3, <2>1, <2>2
<1> QED
  BY <1>2, <1>3, <1>4 DEF IsSeq

\* states[-1] and forfeits[0] are the records that the invariant points at.
LEMMA LastStateIsLast ==
  ASSUME NEW rs, IsSeq(rs), NEW i \in DOMAIN rs, LastStateAt(rs, i)
  PROVE  Has(rs, "state") /\ LastOf(rs, "state") = rs[i]
<1>1. DOMAIN rs = 1..Len(rs) /\ Len(rs) \in Nat
  BY Appending
<1>2. \A j \in DOMAIN rs : (rs[j].kind = "state" /\ \A k \in DOMAIN rs : k > j => rs[k].kind # "state") => j = i
  BY <1>1 DEF LastStateAt
<1> QED
  BY <1>2 DEF LastOf, Has, LastStateAt

\* The only forfeit of a transcript is the first one.
LEMMA OnlyForfeitIsFirst ==
  ASSUME NEW rs, IsSeq(rs), NEW i \in DOMAIN rs, OnlyForfeitAt(rs, i)
  PROVE  Has(rs, "forfeit") /\ FirstOf(rs, "forfeit") = rs[i]
<1>1. DOMAIN rs = 1..Len(rs) /\ Len(rs) \in Nat
  BY Appending
<1>2. \A j \in DOMAIN rs : (rs[j].kind = "forfeit" /\ \A k \in DOMAIN rs : k < j => rs[k].kind # "forfeit") => j = i
  BY <1>1 DEF OnlyForfeitAt
<1>3. \A k \in DOMAIN rs : k < i => rs[k].kind # "forfeit"
  BY <1>1 DEF OnlyForfeitAt
<1> QED
  BY <1>2, <1>3 DEF FirstOf, Has, OnlyForfeitAt

\* A transcript gains the kind of the record appended, and no other.
LEMMA HasAppended ==
  ASSUME NEW rs, IsSeq(rs), NEW r, NEW k
  PROVE  Has(Append(rs, r), k) <=> Has(rs, k) \/ r.kind = k
<1>1. \A i \in 1..(Len(rs) + 1) : i \in 1..Len(rs) \/ i = Len(rs) + 1
  BY Appending
<1>2. Len(rs) + 1 \in 1..(Len(rs) + 1) /\ 1..Len(rs) \subseteq 1..(Len(rs) + 1)
  BY Appending
<1> QED
  BY <1>1, <1>2, Appending DEF Has

\* Queues keep their type when lines are added and taken.
LEMMA QueueFacts ==
  ASSUME NEW S, NEW q \in Seq(S)
  PROVE  /\ \A x \in S : Append(q, x) \in Seq(S)
         /\ q # <<>> => Tail(q) \in Seq(S) /\ Head(q) \in S
  OBVIOUS


\* The three ways an operation of the referee goes, the records told element by
\* element.
DiskTyped ==
    /\ faults \in Nat /\ kept \in BOOLEAN
    /\ records \in Seq({records[i] : i \in DOMAIN records})
Appended(told, r) ==
    /\ Len(told) = Len(records) + 1 /\ DOMAIN told = 1..(Len(records) + 1)
    /\ \A i \in 1..Len(records) : told[i] = records[i]
    /\ told[Len(records) + 1] = r

\* An append that succeeds adds one record and no fault.
LEMMA Chaining ==
  ASSUME DiskTyped, NEW r, Chained(r)
  PROVE  DiskTyped' /\ kept' = TRUE /\ Appended(records', r) /\ faults' = faults
<1>1. IsSeq(records)
  BY DEF DiskTyped, IsSeq
<1>2. /\ IsSeq(Append(records, r)) /\ Appended(Append(records, r), r)
  BY <1>1, Appending DEF Appended
<1>3. PICK told : told = Append(records, r)
  OBVIOUS
<1>4. IsSeq(told) /\ Appended(told, r) /\ records' = told
  BY <1>2, <1>3 DEF Chained
<1> QED
  BY <1>4 DEF Chained, DiskTyped, IsSeq

\* An append that fails adds no record the referee counts, and one fault.
LEMMA Losing ==
  ASSUME DiskTyped, NEW r, Lost(r)
  PROVE  DiskTyped' /\ kept' = TRUE /\ records' = records /\ faults' = faults + 1
  BY DEF Lost, DiskTyped

\* A record is appended and the referee goes on, or it is lost and the handler
\* runs.
LEMMA Recording ==
  ASSUME DiskTyped, NEW r, NEW next, NEW handler, Record(r, next, handler)
  PROVE  /\ DiskTyped' /\ kept' = TRUE
         /\ \/ Appended(records', r) /\ faults' = faults /\ pc' = next
            \/ records' = records /\ faults' = faults + 1 /\ pc' = handler
  BY Chaining, Losing DEF Record

\* A fault of the referee changes no record and goes to its handler.
LEMMA Faulting ==
  ASSUME DiskTyped, NEW handler, Fault(handler)
  PROVE  DiskTyped' /\ records' = records /\ kept' = kept /\ faults' = faults + 1 /\ pc' = handler
  BY DEF Fault, disk, DiskTyped

\* A step without a record.
LEMMA Going ==
  ASSUME DiskTyped, NEW next, Goto(next)
  PROVE  DiskTyped' /\ records' = records /\ kept' = kept /\ faults' = faults /\ pc' = next
  BY DEF Goto, disk, DiskTyped

\* What a step does to the queues.
SeatsTyped ==
    /\ inbox \in [Seats -> Seq(Requests)]
    /\ queue \in [Seats -> Seq(Lines)]
    /\ process \in [Seats -> {"idle", "running", "gone"}]
RefereeTyped ==
    /\ pc \in Stages /\ seat \in Seats
    /\ position \in Positions /\ turn \in 0..Bound
    /\ reply \in Moves \union {Nobody}
    /\ astray \subseteq Seats

\* Lines and requests of the protocol are typed.
LEMMA LinesAndRequests ==
  ASSUME RefereeTyped
  PROVE  /\ Junk \in Lines /\ Eof \in Lines /\ Hello \in Requests /\ MoveRequest \in Requests
         /\ \A t \in Int \union {Nobody} :
               ReadyLine(t) \in Lines /\ \A m \in Moves : MoveLine(m, t) \in Lines
  BY MatchAssumption DEF RefereeTyped, Lines, Requests, Junk, Eof, Hello, MoveRequest, ReadyLine, MoveLine

\* The queues of the entrants keep their type likewise.
LEMMA Queueing ==
  ASSUME NEW S, NEW q \in Seq(S)
  PROVE  /\ \A x \in S : Append(q, x) \in Seq(S)
         /\ q # <<>> => Tail(q) \in Seq(S) /\ Head(q) \in S
  OBVIOUS

\* What a step does to the queues keeps their types.
LEMMA Popping ==
  ASSUME SeatsTyped, seat \in Seats, ~Silent
  PROVE  /\ Head(queue[seat]) \in Lines
         /\ Pop => queue' \in [Seats -> Seq(Lines)]
<1>1. queue[seat] \in Seq(Lines) /\ queue[seat] # <<>>
  BY DEF SeatsTyped, Silent
<1>2. Head(queue[seat]) \in Lines /\ Tail(queue[seat]) \in Seq(Lines)
  BY <1>1, Queueing
<1> QED
  BY <1>2 DEF SeatsTyped, Pop

\* A line that an entrant writes is queued.
LEMMA Saying ==
  ASSUME SeatsTyped, NEW s \in Seats, NEW line \in Lines, Says(s, line)
  PROVE  queue' \in [Seats -> Seq(Lines)]
  BY Queueing DEF SeatsTyped, Says

\* A request that the referee sends is queued.
LEMMA Requesting ==
  ASSUME SeatsTyped, NEW s \in Seats, NEW request \in Requests
  PROVE  [inbox EXCEPT ![s] = Append(@, request)] \in [Seats -> Seq(Requests)]
  BY Queueing DEF SeatsTyped

\* The types of the match are those of the disk, the referee and the seats.
LEMMA TypedParts == TurnsTyped <=> DiskTyped /\ RefereeTyped /\ SeatsTyped
  BY DEF TurnsTyped, DiskTyped, RefereeTyped, SeatsTyped

\* Every step keeps the types.
LEMMA DiskTypedStep ==
  ASSUME TurnsTyped, Next
  PROVE  DiskTyped'
<1> USE TypedParts DEF TurnsTyped
<1>1. CASE Open
  BY <1>1, Recording, Faulting, Going DEF Open
<1>2. CASE Greet
  BY <1>2, Recording, Faulting, Going DEF Greet
<1>3. CASE HearReady
  BY <1>3, Chaining, Losing DEF HearReady
<1>4. CASE HandshakeForfeit
  BY <1>4, Recording, Faulting, Going DEF HandshakeForfeit
<1>5. CASE HandshakeDiagnosis
  BY <1>5, Recording, Faulting, Going DEF HandshakeDiagnosis
<1>6. CASE HandshakeFault
  BY <1>6, Recording, Faulting, Going DEF HandshakeFault
<1>7. CASE OpeningState
  BY <1>7, Recording, Faulting, Going DEF OpeningState
<1>8. CASE GameOver
  BY <1>8, Recording, Faulting, Going DEF GameOver
<1>9. CASE BoundExceeded
  BY <1>9, Recording, Faulting, Going DEF BoundExceeded
<1>10. CASE Ask
  BY <1>10, Recording, Faulting, Going DEF Ask
<1>11. CASE Hear
  BY <1>11, Recording, Faulting, Going DEF Hear
<1>12. CASE MoveForfeit
  BY <1>12, Recording, Faulting, Going DEF MoveForfeit
<1>13. CASE Charge
  BY <1>13, Recording, Faulting, Going DEF Charge
<1>14. CASE Accept
  BY <1>14, Recording, Faulting, Going DEF Accept
<1>15. CASE Reject
  BY <1>15, Recording, Faulting, Going DEF Reject
<1>16. CASE RejectForfeit
  BY <1>16, Recording, Faulting, Going DEF RejectForfeit
<1>17. CASE Advance
  BY <1>17, Recording, Faulting, Going DEF Advance, DiskTyped
<1>18. CASE RefereeFault
  BY <1>18, Recording, Faulting, Going DEF RefereeFault
<1>19. CASE PlayFault
  BY <1>19, Recording, Faulting, Going DEF PlayFault
<1>20. CASE Score
  BY <1>20, Recording, Faulting, Going DEF Score
<1>21. CASE ScoreFault
  BY <1>21, Recording, Faulting, Going DEF ScoreFault
<1>22. CASE Commit
  BY <1>22, Recording, Faulting, Going DEF Commit
<1>23. CASE Report
  BY <1>23, Recording, Faulting, Going DEF Report
<1>24. CASE CloseEntrants
  BY <1>24, Recording, Faulting, Going DEF CloseEntrants
<1>25. CASE Sweep
  BY <1>25, Recording, Faulting, Going DEF Sweep, DiskTyped, Committed
<1>26. CASE Crash
  BY <1>26, Recording, Faulting, Going DEF Crash, DiskTyped, disk
<1>27. ASSUME NEW s \in Seats, Answer(s) PROVE DiskTyped'
  BY <1>27 DEF Answer, DiskTyped, disk
<1>28. ASSUME NEW s \in Seats, Blurt(s) PROVE DiskTyped'
  BY <1>28 DEF Blurt, DiskTyped, disk
<1>29. ASSUME NEW s \in Seats, Exit(s) PROVE DiskTyped'
  BY <1>29 DEF Exit, DiskTyped, disk
<1> QED
  BY <1>1, <1>2, <1>3, <1>4, <1>5, <1>6, <1>7, <1>8, <1>9, <1>10, <1>11, <1>12, <1>13, <1>14, <1>15, <1>16, <1>17, <1>18, <1>19, <1>20, <1>21, <1>22, <1>23, <1>24, <1>25, <1>26, <1>27, <1>28, <1>29 DEF Next, Referee, Entrants

\* Every step keeps the types of the referee.
LEMMA RefereeTypedStep ==
  ASSUME TurnsTyped, Next,
         pc = "apply" => Legal(position, reply) /\ turn < Bound
  PROVE  RefereeTyped'
<1> USE TypedParts DEF RefereeTyped, referee, seats, history, Stages, InPlay
<1>1. CASE Open
  BY <1>1, Recording, Faulting, Going DEF Open
<1>2. CASE Greet
  BY <1>2, Recording, Faulting, Going DEF Greet
<1>3. CASE HearReady
  BY <1>3, Recording, Faulting, Going, Chaining, Losing DEF HearReady, Seats
<1>4. CASE HandshakeForfeit
  BY <1>4, Recording, Faulting, Going DEF HandshakeForfeit, Unanswered
<1>5. CASE HandshakeDiagnosis
  BY <1>5, Recording, Faulting, Going DEF HandshakeDiagnosis
<1>6. CASE HandshakeFault
  BY <1>6, Recording, Faulting, Going DEF HandshakeFault
<1>7. CASE OpeningState
  BY <1>7, Recording, Faulting, Going DEF OpeningState
<1>8. CASE GameOver
  BY <1>8, Recording, Faulting, Going DEF GameOver
<1>9. CASE BoundExceeded
  BY <1>9, Recording, Faulting, Going DEF BoundExceeded
<1>10. CASE Ask
  <2>1. seat' \in Seats /\ astray' \subseteq Seats
    BY <1>10, GameAssumption DEF Ask
  <2>2. pc' \in {"await", "charged", "fault"}
    BY <1>10, Recording, Going DEF Ask
  <2> QED
    BY <1>10, <2>1, <2>2 DEF Ask
<1>11. CASE Hear
  BY <1>11, Recording, Faulting, Going, Popping DEF Hear, Lines, Heard, Silent
<1>12. CASE MoveForfeit
  BY <1>12, Recording, Faulting, Going DEF MoveForfeit, Unanswered
<1>13. CASE Charge
  BY <1>13, Recording, Faulting, Going DEF Charge
<1>14. CASE Accept
  BY <1>14, Recording, Faulting, Going DEF Accept
<1>15. CASE Reject
  BY <1>15, Recording, Faulting, Going DEF Reject
<1>16. CASE RejectForfeit
  BY <1>16, Recording, Faulting, Going DEF RejectForfeit
<1>17. CASE Advance
  <2>1. position \in Positions /\ Legal(position, reply) /\ reply \in Moves /\ turn < Bound
    BY <1>17, GameAssumption DEF Advance
  <2>2. Apply(position, reply) \in Positions /\ turn + 1 \in 0..Bound
    BY <2>1, GameAssumption, MatchAssumption
  <2> QED
    BY <1>17, <2>2, Recording DEF Advance
<1>18. CASE RefereeFault
  BY <1>18, Recording, Faulting, Going DEF RefereeFault
<1>19. CASE PlayFault
  BY <1>19, Recording, Faulting, Going DEF PlayFault
<1>20. CASE Score
  BY <1>20, Recording, Faulting, Going DEF Score
<1>21. CASE ScoreFault
  BY <1>21, Recording, Faulting, Going DEF ScoreFault
<1>22. CASE Commit
  BY <1>22, Recording, Faulting, Going DEF Commit
<1>23. CASE Report
  BY <1>23, Recording, Faulting, Going DEF Report
<1>24. CASE CloseEntrants
  BY <1>24, Recording, Faulting, Going DEF CloseEntrants
<1>25. CASE Sweep
  BY <1>25, Recording, Faulting, Going DEF Sweep
<1>26. CASE Crash
  BY <1>26, Recording, Faulting, Going DEF Crash
<1>27. ASSUME NEW s \in Seats, Answer(s) PROVE RefereeTyped'
  BY <1>27 DEF Answer
<1>28. ASSUME NEW s \in Seats, Blurt(s) PROVE RefereeTyped'
  BY <1>28 DEF Blurt
<1>29. ASSUME NEW s \in Seats, Exit(s) PROVE RefereeTyped'
  BY <1>29 DEF Exit
<1> QED
  BY <1>1, <1>2, <1>3, <1>4, <1>5, <1>6, <1>7, <1>8, <1>9, <1>10, <1>11, <1>12, <1>13, <1>14, <1>15, <1>16, <1>17, <1>18, <1>19, <1>20, <1>21, <1>22, <1>23, <1>24, <1>25, <1>26, <1>27, <1>28, <1>29 DEF Next, Referee, Entrants

\* Every step keeps the types of the seats.
LEMMA SeatsTypedStep ==
  ASSUME TurnsTyped, Next
  PROVE  SeatsTyped'
<1> USE TypedParts DEF SeatsTyped, seats, history
<1>1. CASE Open
  BY <1>1 DEF Open
<1>2. CASE Greet
  <2>1. [inbox EXCEPT ![seat] = Append(@, Hello)] \in [Seats -> Seq(Requests)]
    BY LinesAndRequests, Requesting DEF RefereeTyped
  <2> QED
    BY <1>2, <2>1 DEF Greet, RefereeTyped
<1>3. CASE HearReady
  <2>1. queue' \in [Seats -> Seq(Lines)]
    <3>1. CASE queue' = queue
      BY <3>1
    <3>2. CASE Pop /\ ~Silent
      BY <3>2, Popping DEF RefereeTyped
    <3> QED
      BY <1>3, <3>1, <3>2 DEF HearReady, Heard
  <2> QED
    BY <1>3, <2>1 DEF HearReady
<1>4. CASE HandshakeForfeit
  <2>1. queue' \in [Seats -> Seq(Lines)]
    <3>1. CASE queue' = queue
      BY <3>1
    <3>2. CASE Pop /\ ~Silent
      BY <3>2, Popping DEF RefereeTyped
    <3> QED
      BY <1>4, <3>1, <3>2 DEF HandshakeForfeit, Heard, Unanswered
  <2> QED
    BY <1>4, <2>1 DEF HandshakeForfeit
<1>5. CASE HandshakeDiagnosis
  BY <1>5 DEF HandshakeDiagnosis
<1>6. CASE HandshakeFault
  BY <1>6 DEF HandshakeFault
<1>7. CASE OpeningState
  BY <1>7 DEF OpeningState
<1>8. CASE GameOver
  BY <1>8 DEF GameOver
<1>9. CASE BoundExceeded
  BY <1>9 DEF BoundExceeded
<1>10. CASE Ask
  <2>1. seat' \in Seats
    BY <1>10, GameAssumption DEF Ask, RefereeTyped
  <2>2. PICK s \in Seats : s = seat'
    BY <2>1
  <2>3. [inbox EXCEPT ![s] = Append(@, MoveRequest)] \in [Seats -> Seq(Requests)]
    BY LinesAndRequests, Requesting
  <2>4. Says(s, Eof) => queue' \in [Seats -> Seq(Lines)]
    BY LinesAndRequests, Saying
  <2> QED
    BY <1>10, <2>2, <2>3, <2>4 DEF Ask
<1>11. CASE Hear
  <2>1. queue' \in [Seats -> Seq(Lines)]
    <3>1. CASE queue' = queue
      BY <3>1
    <3>2. CASE Pop /\ ~Silent
      BY <3>2, Popping DEF RefereeTyped
    <3> QED
      BY <1>11, <3>1, <3>2 DEF Hear, Heard
  <2> QED
    BY <1>11, <2>1 DEF Hear
<1>12. CASE MoveForfeit
  <2>1. queue' \in [Seats -> Seq(Lines)]
    <3>1. CASE queue' = queue
      BY <3>1
    <3>2. CASE Pop /\ ~Silent
      BY <3>2, Popping DEF RefereeTyped
    <3> QED
      BY <1>12, <3>1, <3>2 DEF MoveForfeit, Heard, Unanswered
  <2> QED
    BY <1>12, <2>1 DEF MoveForfeit
<1>13. CASE Charge
  BY <1>13 DEF Charge
<1>14. CASE Accept
  BY <1>14 DEF Accept
<1>15. CASE Reject
  BY <1>15 DEF Reject
<1>16. CASE RejectForfeit
  BY <1>16 DEF RejectForfeit
<1>17. CASE Advance
  BY <1>17 DEF Advance
<1>18. CASE RefereeFault
  BY <1>18 DEF RefereeFault
<1>19. CASE PlayFault
  BY <1>19 DEF PlayFault
<1>20. CASE Score
  BY <1>20 DEF Score
<1>21. CASE ScoreFault
  BY <1>21 DEF ScoreFault
<1>22. CASE Commit
  BY <1>22 DEF Commit
<1>23. CASE Report
  BY <1>23 DEF Report
<1>24. CASE CloseEntrants
  BY <1>24 DEF CloseEntrants
<1>25. CASE Sweep
  BY <1>25 DEF Sweep
<1>26. CASE Crash
  BY <1>26 DEF Crash
<1>27. ASSUME NEW s \in Seats, Answer(s) PROVE SeatsTyped'
  <2>1. inbox[s] \in Seq(Requests) /\ inbox[s] # <<>>
    BY <1>27 DEF Answer
  <2>2. Head(inbox[s]) \in Requests /\ Tail(inbox[s]) \in Seq(Requests)
    BY <2>1, Queueing
  <2>3. PICK r \in Requests : r = Head(inbox[s])
    BY <2>2
  <2>4. r.turn \in Int
    BY DEF Requests
  <2>5. queue' \in [Seats -> Seq(Lines)]
    <3>1. \E line \in Lines : Says(s, line)
      BY <1>27, <2>3, <2>4, LinesAndRequests DEF Answer
    <3> QED
      BY <3>1, Saying
  <2> QED
    BY <1>27, <2>2, <2>5 DEF Answer
<1>28. ASSUME NEW s \in Seats, Blurt(s) PROVE SeatsTyped'
  BY <1>28, Popping, Saying, LinesAndRequests, Requesting  DEF Blurt
<1>29. ASSUME NEW s \in Seats, Exit(s) PROVE SeatsTyped'
  BY <1>29, Popping, Saying, LinesAndRequests, Requesting  DEF Exit
<1> QED
  BY <1>1, <1>2, <1>3, <1>4, <1>5, <1>6, <1>7, <1>8, <1>9, <1>10, <1>11, <1>12, <1>13, <1>14, <1>15, <1>16, <1>17, <1>18, <1>19, <1>20, <1>21, <1>22, <1>23, <1>24, <1>25, <1>26, <1>27, <1>28, <1>29 DEF Next, Referee, Entrants

\* The kinds of the records.
LEMMA KindsOfRecord ==
  /\ Header.kind = "header" /\ Abort.kind = "abort"
  /\ \A q : Ready(q).kind = "ready"
  /\ \A c : EngineError(c).kind = "engine_error"
  /\ \A p, t : State(p, t).kind = "state"
  /\ \A q, t, m, ok : Move(q, t, m, ok).kind = "move"
  /\ \A q, why, t : Forfeit(q, why, t).kind = "forfeit"
  /\ \A o, n : Result(o, n).kind = "result"
  BY DEF Header, Abort, Ready, EngineError, State, Move, Forfeit, Result

\* What a record adds to what is known of the records.
LEMMA Knowing ==
  ASSUME DiskTyped, NEW r, Appended(records', r)
  PROVE  /\ Committed' <=> Committed \/ r.kind = "result"
         /\ Voided' <=> Voided \/ r.kind = "engine_error"
         /\ Forfeited' <=> Forfeited \/ r.kind = "forfeit"
         /\ Placed' <=> Placed \/ r.kind = "state"
         /\ Last(records)' = r
<1>1. Len(records) \in Nat /\ DOMAIN records = 1..Len(records)
  BY DEF DiskTyped
<1>2. \A i \in 1..(Len(records) + 1) : i \in 1..Len(records) \/ i = Len(records) + 1
  BY <1>1
<1>3. Len(records) + 1 \in 1..(Len(records) + 1) /\ 1..Len(records) \subseteq 1..(Len(records) + 1)
  BY <1>1
<1> QED
  BY <1>1, <1>2, <1>3 DEF Appended, Has, Committed, Voided, Forfeited, Placed, Last

\* Without a new record, what the transcript says stays.
LEMMA KnowingNothingNew ==
  ASSUME records' = records
  PROVE  /\ (Committed' <=> Committed) /\ (Voided' <=> Voided)
         /\ (Forfeited' <=> Forfeited) /\ (Placed' <=> Placed)
         /\ Last(records)' = Last(records)
  BY DEF Has, Committed, Voided, Forfeited, Placed, Last

\* An operation of the referee, as the rest of the match depends on it.
LEMMA RecordStep ==
  ASSUME DiskTyped, NEW r, NEW next, NEW handler, Record(r, next, handler)
  PROVE  /\ kept'
         /\ \/ /\ pc' = next /\ faults' = faults
               /\ Committed' <=> Committed \/ r.kind = "result"
               /\ Voided' <=> Voided \/ r.kind = "engine_error"
               /\ Last(records)' = r
            \/ /\ pc' = handler /\ faults' = faults + 1 /\ records' = records
               /\ (Committed' <=> Committed) /\ (Voided' <=> Voided)
               /\ Last(records)' = Last(records)
<1>1. CASE Appended(records', r) /\ faults' = faults /\ pc' = next
  BY <1>1, Recording, Knowing
<1>2. CASE records' = records /\ faults' = faults + 1 /\ pc' = handler
  BY <1>2, Recording, KnowingNothingNew
<1> QED
  BY <1>1, <1>2, Recording

\* A fault of the referee leaves the transcript as it was.
LEMMA FaultStep ==
  ASSUME DiskTyped, NEW handler, Fault(handler)
  PROVE  /\ pc' = handler /\ faults' = faults + 1 /\ records' = records /\ kept' = kept
         /\ (Committed' <=> Committed) /\ (Voided' <=> Voided)
         /\ Last(records)' = Last(records)
  BY Faulting, KnowingNothingNew

\* So does a step without a record.
LEMMA GotoStep ==
  ASSUME DiskTyped, NEW next, Goto(next)
  PROVE  /\ pc' = next /\ faults' = faults /\ records' = records /\ kept' = kept
         /\ (Committed' <=> Committed) /\ (Voided' <=> Voided)
         /\ Last(records)' = Last(records)
  BY Going, KnowingNothingNew

\* The result is the last record, and the end of a match is as it should be.
LEMMA ClosedStep ==
  ASSUME TurnsTyped, TurnsClosed, Next
  PROVE  TurnsClosed'
<1> USE TypedParts DEF TurnsClosed, Swept, AfterResult, InPlay
<1>1. CASE Open
  BY <1>1, RecordStep, KindsOfRecord, FaultStep DEF Open
<1>2. CASE Greet
  BY <1>2, FaultStep, GotoStep DEF Greet
<1>3. CASE HearReady
  BY <1>3, Chaining, Losing, Knowing, KnowingNothingNew, KindsOfRecord DEF HearReady
<1>4. CASE HandshakeForfeit
  BY <1>4, RecordStep, KindsOfRecord DEF HandshakeForfeit
<1>5. CASE HandshakeDiagnosis
  BY <1>5, FaultStep, GotoStep DEF HandshakeDiagnosis
<1>6. CASE HandshakeFault
  BY <1>6, RecordStep, KindsOfRecord DEF HandshakeFault
<1>7. CASE OpeningState
  BY <1>7, RecordStep, KindsOfRecord DEF OpeningState
<1>8. CASE GameOver
  BY <1>8, GotoStep DEF GameOver
<1>9. CASE BoundExceeded
  BY <1>9, RecordStep, KindsOfRecord DEF BoundExceeded
<1>10. CASE Ask
  BY <1>10, RecordStep, KindsOfRecord, GotoStep DEF Ask
<1>11. CASE Hear
  BY <1>11, GotoStep DEF Hear
<1>12. CASE MoveForfeit
  BY <1>12, RecordStep, KindsOfRecord DEF MoveForfeit
<1>13. CASE Charge
  BY <1>13, GotoStep DEF Charge
<1>14. CASE Accept
  <2>1. PICK r : r = Move(seat, turn, reply, TRUE)
    OBVIOUS
  <2>2. r.kind = "move"
    BY <2>1 DEF Move
  <2>3. Record(r, "apply", "fault")
    BY <1>14, <2>1 DEF Accept
  <2> QED
    BY <1>14, <2>2, <2>3, RecordStep DEF Accept
<1>15. CASE Reject
  <2>1. PICK r : r = Move(seat, turn, reply, FALSE)
    OBVIOUS
  <2>2. r.kind = "move"
    BY <2>1 DEF Move
  <2>3. Record(r, "rejected", "fault")
    BY <1>15, <2>1 DEF Reject
  <2> QED
    BY <1>15, <2>2, <2>3, RecordStep DEF Reject
<1>16. CASE RejectForfeit
  BY <1>16, RecordStep, KindsOfRecord DEF RejectForfeit
<1>17. CASE Advance
  BY <1>17, RecordStep, KindsOfRecord DEF Advance
<1>18. CASE RefereeFault
  BY <1>18, FaultStep DEF RefereeFault
<1>19. CASE PlayFault
  BY <1>19, RecordStep, KindsOfRecord DEF PlayFault
<1>20. CASE Score
  BY <1>20, FaultStep, GotoStep DEF Score
<1>21. CASE ScoreFault
  BY <1>21, RecordStep, KindsOfRecord, GotoStep DEF ScoreFault
<1>22. CASE Commit
  BY <1>22, RecordStep, KindsOfRecord DEF Commit
<1>23. CASE Report
  <2>1. pc = "close" /\ pc' = "unwind" /\ (Committed' <=> Committed) /\ kept' = kept
        /\ Last(records)' = Last(records)
    BY <1>23, GotoStep DEF Report
  <2> QED
    BY <2>1
<1>24. CASE CloseEntrants
  BY <1>24, GotoStep DEF CloseEntrants, SeatsTyped
<1>25. CASE Sweep
  BY <1>25, KnowingNothingNew DEF Sweep, disk, seats
<1>26. CASE Crash
  BY <1>26, KnowingNothingNew DEF Crash, disk, seats
<1>27. ASSUME NEW s \in Seats, Answer(s) PROVE TurnsClosed'
  BY <1>27, KnowingNothingNew DEF Answer, disk, referee
<1>28. ASSUME NEW s \in Seats, Blurt(s) PROVE TurnsClosed'
  BY <1>28, KnowingNothingNew DEF Blurt, disk, referee
<1>29. ASSUME NEW s \in Seats, Exit(s) PROVE TurnsClosed'
  BY <1>29, KnowingNothingNew DEF Exit, disk, referee
<1> QED
  BY <1>1, <1>2, <1>3, <1>4, <1>5, <1>6, <1>7, <1>8, <1>9, <1>10, <1>11, <1>12, <1>13, <1>14, <1>15, <1>16, <1>17, <1>18, <1>19, <1>20, <1>21, <1>22, <1>23, <1>24, <1>25, <1>26, <1>27, <1>28, <1>29 DEF Next, Referee, Entrants

\* Behind the result nothing is recorded and nothing fails.
LEMMA Settled ==
  ASSUME TurnsTyped, TurnsClosed, Next
  PROVE  Committed => UNCHANGED <<records, faults>>
<1> USE TypedParts DEF TurnsClosed, Swept, AfterResult, InPlay
<1>1. CASE Open
  BY <1>1 DEF Open
<1>2. CASE Greet
  BY <1>2 DEF Greet
<1>3. CASE HearReady
  BY <1>3 DEF HearReady
<1>4. CASE HandshakeForfeit
  BY <1>4 DEF HandshakeForfeit
<1>5. CASE HandshakeDiagnosis
  BY <1>5 DEF HandshakeDiagnosis
<1>6. CASE HandshakeFault
  BY <1>6 DEF HandshakeFault
<1>7. CASE OpeningState
  BY <1>7 DEF OpeningState
<1>8. CASE GameOver
  BY <1>8 DEF GameOver
<1>9. CASE BoundExceeded
  BY <1>9 DEF BoundExceeded
<1>10. CASE Ask
  BY <1>10 DEF Ask
<1>11. CASE Hear
  BY <1>11 DEF Hear
<1>12. CASE MoveForfeit
  BY <1>12 DEF MoveForfeit
<1>13. CASE Charge
  BY <1>13 DEF Charge
<1>14. CASE Accept
  BY <1>14 DEF Accept
<1>15. CASE Reject
  BY <1>15 DEF Reject
<1>16. CASE RejectForfeit
  BY <1>16 DEF RejectForfeit
<1>17. CASE Advance
  BY <1>17 DEF Advance
<1>18. CASE RefereeFault
  BY <1>18 DEF RefereeFault
<1>19. CASE PlayFault
  BY <1>19 DEF PlayFault
<1>20. CASE Score
  BY <1>20 DEF Score
<1>21. CASE ScoreFault
  BY <1>21 DEF ScoreFault
<1>22. CASE Commit
  BY <1>22 DEF Commit
<1>23. CASE Report
  BY <1>23, GotoStep DEF Report
<1>24. CASE CloseEntrants
  BY <1>24, GotoStep DEF CloseEntrants
<1>25. CASE Sweep
  BY <1>25 DEF Sweep, disk
<1>26. CASE Crash
  BY <1>26 DEF Crash, disk
<1>27. ASSUME NEW s \in Seats, Answer(s) PROVE Committed => UNCHANGED <<records, faults>>
  BY <1>27 DEF Answer, disk
<1>28. ASSUME NEW s \in Seats, Blurt(s) PROVE Committed => UNCHANGED <<records, faults>>
  BY <1>28 DEF Blurt, disk
<1>29. ASSUME NEW s \in Seats, Exit(s) PROVE Committed => UNCHANGED <<records, faults>>
  BY <1>29 DEF Exit, disk
<1> QED
  BY <1>1, <1>2, <1>3, <1>4, <1>5, <1>6, <1>7, <1>8, <1>9, <1>10, <1>11, <1>12, <1>13, <1>14, <1>15, <1>16, <1>17, <1>18, <1>19, <1>20, <1>21, <1>22, <1>23, <1>24, <1>25, <1>26, <1>27, <1>28, <1>29 DEF Next, Referee, Entrants

\* Only the commit adds a result.
LEMMA OnlyCommitCommits ==
  ASSUME TurnsTyped, Next
  PROVE  Commit \/ (Committed' <=> Committed)
<1> USE TypedParts DEF InPlay
<1>1. CASE Open
  BY <1>1, RecordStep, KindsOfRecord, FaultStep DEF Open
<1>2. CASE Greet
  BY <1>2, FaultStep, GotoStep DEF Greet
<1>3. CASE HearReady
  BY <1>3, Chaining, Losing, Knowing, KnowingNothingNew, KindsOfRecord DEF HearReady
<1>4. CASE HandshakeForfeit
  BY <1>4, RecordStep, KindsOfRecord DEF HandshakeForfeit
<1>5. CASE HandshakeDiagnosis
  BY <1>5, FaultStep, GotoStep DEF HandshakeDiagnosis
<1>6. CASE HandshakeFault
  BY <1>6, RecordStep, KindsOfRecord DEF HandshakeFault
<1>7. CASE OpeningState
  BY <1>7, RecordStep, KindsOfRecord DEF OpeningState
<1>8. CASE GameOver
  BY <1>8, GotoStep DEF GameOver
<1>9. CASE BoundExceeded
  BY <1>9, RecordStep, KindsOfRecord DEF BoundExceeded
<1>10. CASE Ask
  BY <1>10, RecordStep, KindsOfRecord, GotoStep DEF Ask
<1>11. CASE Hear
  BY <1>11, GotoStep DEF Hear
<1>12. CASE MoveForfeit
  BY <1>12, RecordStep, KindsOfRecord DEF MoveForfeit
<1>13. CASE Charge
  BY <1>13, GotoStep DEF Charge
<1>14. CASE Accept
  BY <1>14, RecordStep, KindsOfRecord DEF Accept
<1>15. CASE Reject
  BY <1>15, RecordStep, KindsOfRecord DEF Reject
<1>16. CASE RejectForfeit
  BY <1>16, RecordStep, KindsOfRecord DEF RejectForfeit
<1>17. CASE Advance
  BY <1>17, RecordStep, KindsOfRecord DEF Advance
<1>18. CASE RefereeFault
  BY <1>18, FaultStep DEF RefereeFault
<1>19. CASE PlayFault
  BY <1>19, RecordStep, KindsOfRecord DEF PlayFault
<1>20. CASE Score
  BY <1>20, FaultStep, GotoStep DEF Score
<1>21. CASE ScoreFault
  BY <1>21, RecordStep, KindsOfRecord, GotoStep DEF ScoreFault
<1>22. CASE Commit
  BY <1>22, RecordStep, KindsOfRecord DEF Commit
<1>23. CASE Report
  BY <1>23, GotoStep DEF Report
<1>24. CASE CloseEntrants
  BY <1>24, GotoStep DEF CloseEntrants
<1>25. CASE Sweep
  BY <1>25, KnowingNothingNew DEF Sweep, disk
<1>26. CASE Crash
  BY <1>26, KnowingNothingNew DEF Crash, disk
<1>27. ASSUME NEW s \in Seats, Answer(s) PROVE Commit \/ (Committed' <=> Committed)
  BY <1>27, KnowingNothingNew DEF Answer, disk
<1>28. ASSUME NEW s \in Seats, Blurt(s) PROVE Commit \/ (Committed' <=> Committed)
  BY <1>28, KnowingNothingNew DEF Blurt, disk
<1>29. ASSUME NEW s \in Seats, Exit(s) PROVE Commit \/ (Committed' <=> Committed)
  BY <1>29, KnowingNothingNew DEF Exit, disk
<1> QED
  BY <1>1, <1>2, <1>3, <1>4, <1>5, <1>6, <1>7, <1>8, <1>9, <1>10, <1>11, <1>12, <1>13, <1>14, <1>15, <1>16, <1>17, <1>18, <1>19, <1>20, <1>21, <1>22, <1>23, <1>24, <1>25, <1>26, <1>27, <1>28, <1>29 DEF Next, Referee, Entrants

\* A fault is on record as a void, or on its way to be.
LEMMA FaultKept ==
  ASSUME TurnsTyped, TurnsClosed, FaultsRecorded, Next
  PROVE  faults' > 0 => pc' \in Unwinding \/ Voided'
<1> USE TypedParts DEF DiskTyped, FaultsRecorded, Unwinding, InPlay
<1>1. CASE Open
  BY <1>1, RecordStep, KindsOfRecord, FaultStep DEF Open
<1>2. CASE Greet
  BY <1>2, FaultStep, GotoStep DEF Greet
<1>3. CASE HearReady
  BY <1>3, Chaining, Losing, Knowing, KnowingNothingNew, KindsOfRecord DEF HearReady
<1>4. CASE HandshakeForfeit
  BY <1>4, RecordStep, KindsOfRecord DEF HandshakeForfeit
<1>5. CASE HandshakeDiagnosis
  BY <1>5, FaultStep, GotoStep DEF HandshakeDiagnosis
<1>6. CASE HandshakeFault
  BY <1>6, RecordStep, KindsOfRecord DEF HandshakeFault
<1>7. CASE OpeningState
  BY <1>7, RecordStep, KindsOfRecord DEF OpeningState
<1>8. CASE GameOver
  BY <1>8, GotoStep DEF GameOver
<1>9. CASE BoundExceeded
  BY <1>9, RecordStep, KindsOfRecord DEF BoundExceeded
<1>10. CASE Ask
  BY <1>10, RecordStep, KindsOfRecord, GotoStep DEF Ask
<1>11. CASE Hear
  BY <1>11, GotoStep DEF Hear
<1>12. CASE MoveForfeit
  BY <1>12, RecordStep, KindsOfRecord DEF MoveForfeit
<1>13. CASE Charge
  BY <1>13, GotoStep DEF Charge
<1>14. CASE Accept
  BY <1>14, RecordStep, KindsOfRecord DEF Accept
<1>15. CASE Reject
  BY <1>15, RecordStep, KindsOfRecord DEF Reject
<1>16. CASE RejectForfeit
  BY <1>16, RecordStep, KindsOfRecord DEF RejectForfeit
<1>17. CASE Advance
  BY <1>17, RecordStep, KindsOfRecord DEF Advance
<1>18. CASE RefereeFault
  BY <1>18, FaultStep DEF RefereeFault
<1>19. CASE PlayFault
  BY <1>19, RecordStep, KindsOfRecord DEF PlayFault
<1>20. CASE Score
  BY <1>20, FaultStep, GotoStep DEF Score
<1>21. CASE ScoreFault
  <2>1. CASE Voided /\ Goto("commit_void")
    BY <2>1, GotoStep
  <2>2. CASE Record(EngineError("referee_fault"), "commit_void", "unwind")
    BY <2>2, RecordStep, KindsOfRecord
  <2> QED
    BY <1>21, <2>1, <2>2 DEF ScoreFault, Voided
<1>22. CASE Commit
  BY <1>22, RecordStep, KindsOfRecord DEF Commit
<1>23. CASE Report
  BY <1>23, GotoStep DEF Report, seats
<1>24. CASE CloseEntrants
  BY <1>24, GotoStep DEF CloseEntrants, SeatsTyped
<1>25. CASE Sweep
  BY <1>25, KnowingNothingNew DEF Sweep, disk, seats
<1>26. CASE Crash
  BY <1>26, KnowingNothingNew DEF Crash, disk, seats
<1>27. ASSUME NEW s \in Seats, Answer(s) PROVE faults' > 0 => pc' \in Unwinding \/ Voided'
  BY <1>27, KnowingNothingNew DEF Answer, disk, referee
<1>28. ASSUME NEW s \in Seats, Blurt(s) PROVE faults' > 0 => pc' \in Unwinding \/ Voided'
  BY <1>28, KnowingNothingNew DEF Blurt, disk, referee
<1>29. ASSUME NEW s \in Seats, Exit(s) PROVE faults' > 0 => pc' \in Unwinding \/ Voided'
  BY <1>29, KnowingNothingNew DEF Exit, disk, referee
<1> QED
  BY <1>1, <1>2, <1>3, <1>4, <1>5, <1>6, <1>7, <1>8, <1>9, <1>10, <1>11, <1>12, <1>13, <1>14, <1>15, <1>16, <1>17, <1>18, <1>19, <1>20, <1>21, <1>22, <1>23, <1>24, <1>25, <1>26, <1>27, <1>28, <1>29 DEF Next, Referee, Entrants

\* Who commits a void has recorded the engine error.
LEMMA VoidKept ==
  ASSUME TurnsTyped, FaultsRecorded, Next
  PROVE  pc' = "commit_void" => Voided'
<1> USE TypedParts DEF FaultsRecorded, InPlay
<1>1. CASE Open
  BY <1>1, RecordStep, KindsOfRecord, FaultStep DEF Open
<1>2. CASE Greet
  BY <1>2, FaultStep, GotoStep DEF Greet
<1>3. CASE HearReady
  BY <1>3, Chaining, Losing, Knowing, KnowingNothingNew, KindsOfRecord DEF HearReady
<1>4. CASE HandshakeForfeit
  BY <1>4, RecordStep, KindsOfRecord DEF HandshakeForfeit
<1>5. CASE HandshakeDiagnosis
  BY <1>5, FaultStep, GotoStep DEF HandshakeDiagnosis
<1>6. CASE HandshakeFault
  BY <1>6, RecordStep, KindsOfRecord DEF HandshakeFault
<1>7. CASE OpeningState
  BY <1>7, RecordStep, KindsOfRecord DEF OpeningState
<1>8. CASE GameOver
  BY <1>8, GotoStep DEF GameOver
<1>9. CASE BoundExceeded
  BY <1>9, RecordStep, KindsOfRecord DEF BoundExceeded
<1>10. CASE Ask
  BY <1>10, RecordStep, KindsOfRecord, GotoStep DEF Ask
<1>11. CASE Hear
  BY <1>11, GotoStep DEF Hear
<1>12. CASE MoveForfeit
  BY <1>12, RecordStep, KindsOfRecord DEF MoveForfeit
<1>13. CASE Charge
  BY <1>13, GotoStep DEF Charge
<1>14. CASE Accept
  <2>1. PICK r : r = Move(seat, turn, reply, TRUE)
    OBVIOUS
  <2>2. r.kind = "move"
    BY <2>1 DEF Move
  <2>3. Record(r, "apply", "fault")
    BY <1>14, <2>1 DEF Accept
  <2> QED
    BY <1>14, <2>2, <2>3, RecordStep DEF Accept
<1>15. CASE Reject
  <2>1. PICK r : r = Move(seat, turn, reply, FALSE)
    OBVIOUS
  <2>2. r.kind = "move"
    BY <2>1 DEF Move
  <2>3. Record(r, "rejected", "fault")
    BY <1>15, <2>1 DEF Reject
  <2> QED
    BY <1>15, <2>2, <2>3, RecordStep DEF Reject
<1>16. CASE RejectForfeit
  BY <1>16, RecordStep, KindsOfRecord DEF RejectForfeit
<1>17. CASE Advance
  BY <1>17, RecordStep, KindsOfRecord DEF Advance
<1>18. CASE RefereeFault
  BY <1>18, FaultStep DEF RefereeFault
<1>19. CASE PlayFault
  BY <1>19, RecordStep, KindsOfRecord DEF PlayFault
<1>20. CASE Score
  BY <1>20, FaultStep, GotoStep DEF Score
<1>21. CASE ScoreFault
  <2>1. CASE Voided /\ Goto("commit_void")
    BY <2>1, GotoStep
  <2>2. CASE Record(EngineError("referee_fault"), "commit_void", "unwind")
    BY <2>2, RecordStep, KindsOfRecord
  <2> QED
    BY <1>21, <2>1, <2>2 DEF ScoreFault, Voided
<1>22. CASE Commit
  BY <1>22, RecordStep, KindsOfRecord DEF Commit
<1>23. CASE Report
  BY <1>23, GotoStep DEF Report, seats
<1>24. CASE CloseEntrants
  BY <1>24, GotoStep DEF CloseEntrants, SeatsTyped
<1>25. CASE Sweep
  BY <1>25, KnowingNothingNew DEF Sweep, disk, seats
<1>26. CASE Crash
  BY <1>26, KnowingNothingNew DEF Crash, disk, seats
<1>27. ASSUME NEW s \in Seats, Answer(s) PROVE pc' = "commit_void" => Voided'
  BY <1>27, KnowingNothingNew DEF Answer, disk, referee
<1>28. ASSUME NEW s \in Seats, Blurt(s) PROVE pc' = "commit_void" => Voided'
  BY <1>28, KnowingNothingNew DEF Blurt, disk, referee
<1>29. ASSUME NEW s \in Seats, Exit(s) PROVE pc' = "commit_void" => Voided'
  BY <1>29, KnowingNothingNew DEF Exit, disk, referee
<1> QED
  BY <1>1, <1>2, <1>3, <1>4, <1>5, <1>6, <1>7, <1>8, <1>9, <1>10, <1>11, <1>12, <1>13, <1>14, <1>15, <1>16, <1>17, <1>18, <1>19, <1>20, <1>21, <1>22, <1>23, <1>24, <1>25, <1>26, <1>27, <1>28, <1>29 DEF Next, Referee, Entrants

\* A record that is no move does not change the count of moves.
LEMMA MovesCounted ==
  ASSUME DiskTyped, NEW r, Appended(records', r), r.kind # "move"
  PROVE  MovesOf(records)' = MovesOf(records)
<1>1. Len(records) \in Nat /\ DOMAIN records = 1..Len(records)
  BY DEF DiskTyped
<1>2. {i \in DOMAIN records' : records'[i].kind = "move"} = {i \in DOMAIN records : records[i].kind = "move"}
  BY <1>1 DEF Appended
<1> QED
  BY <1>2 DEF MovesOf

\* Every step keeps what is known of faults.
LEMMA FaultsRecordedStep ==
  ASSUME TurnsTyped, TurnsClosed, FaultsRecorded, Next
  PROVE  FaultsRecorded'
<1>1. CASE Committed
  <2>1. UNCHANGED <<records, faults>>
    BY <1>1, Settled
  <2>2. FaultNeverDecides'
    BY <1>1, <2>1 DEF FaultsRecorded, FaultNeverDecides, Committed, MovesOf, Last
  <2> QED
    BY <2>2, FaultKept, VoidKept DEF FaultsRecorded
<1>2. CASE ~Committed /\ ~Commit
  <2>1. ~Committed'
    BY <1>2, OnlyCommitCommits
  <2> QED
    BY <2>1, FaultKept, VoidKept DEF FaultsRecorded, FaultNeverDecides
<1>3. CASE ~Committed /\ Commit
  <2>1. PICK r : r = Result(Scored, MovesOf(records))
    OBVIOUS
  <2>2. r.kind = "result"
    BY <2>1 DEF Result
  <2>3. Record(r, "close", "unwind")
    BY <1>3, <2>1 DEF Commit
  <2>4. CASE Appended(records', r) /\ faults' = faults
    <3>1. faults > 0 => Voided
      BY <1>3 DEF FaultsRecorded, Unwinding, Commit
    <3>2. Voided => Scored = Void
      BY DEF Scored, score, Voided
    <3>3. MovesOf(records)' = MovesOf(records)
      BY <2>2, <2>4, MovesCounted, TypedParts
    <3>4. Last(records)' = r
      BY <2>4, Knowing, TypedParts
    <3>5. faults' > 0 => Last(records)' = Result(Void, MovesOf(records)')
      BY <2>1, <2>4, <3>1, <3>2, <3>3, <3>4
    <3> QED
      BY <3>5, FaultKept, VoidKept DEF FaultsRecorded, FaultNeverDecides
  <2>5. CASE records' = records
    BY <1>3, <2>5, FaultKept, VoidKept, KnowingNothingNew DEF FaultsRecorded, FaultNeverDecides
  <2> QED
    BY <2>3, <2>4, <2>5, Recording, TypedParts
<1> QED
  BY <1>1, <1>2, <1>3

------------------------------------------------------------------------------
(* The rulings.                                                              *)
\* What a record does to the last state and the only forfeit.
LEMMA Placing ==
  ASSUME DiskTyped, NEW r, NEW told, Appended(told, r)
  PROVE  /\ \A i \in DOMAIN records : i \in DOMAIN told /\ told[i] = records[i]
         /\ Len(told) \in DOMAIN told /\ told[Len(told)] = r
         /\ r.kind # "state" =>
               \A i \in DOMAIN records : LastStateAt(records, i) => LastStateAt(told, i)
         /\ r.kind = "state" => LastStateAt(told, Len(told))
         /\ r.kind # "forfeit" =>
               \A i \in DOMAIN records : OnlyForfeitAt(records, i) => OnlyForfeitAt(told, i)
         /\ r.kind = "forfeit" /\ ~Forfeited => OnlyForfeitAt(told, Len(told))
<1>1. Len(records) \in Nat /\ DOMAIN records = 1..Len(records)
  BY DEF DiskTyped
<1>2. \A j \in DOMAIN told :
         (j \in DOMAIN records /\ told[j] = records[j]) \/ (j = Len(told) /\ told[j] = r)
  <2>1. DOMAIN told = 1..(Len(records) + 1) /\ Len(told) = Len(records) + 1
    BY DEF Appended
  <2>2. \A j \in DOMAIN told : j \in DOMAIN records \/ j = Len(told)
    BY <1>1, <2>1
  <2>3. \A j \in DOMAIN records : told[j] = records[j]
    BY <1>1 DEF Appended
  <2>4. told[Len(told)] = r
    BY <2>1 DEF Appended
  <2>5. ASSUME NEW j \in DOMAIN told
        PROVE  (j \in DOMAIN records /\ told[j] = records[j]) \/ (j = Len(told) /\ told[j] = r)
    BY <2>2, <2>3, <2>4
  <2> QED
    BY <2>5
<1>3. /\ \A i \in DOMAIN records : i \in DOMAIN told /\ told[i] = records[i] /\ i < Len(told)
      /\ Len(told) \in DOMAIN told /\ told[Len(told)] = r
  BY <1>1 DEF Appended
<1>4. r.kind # "state" =>
         \A i \in DOMAIN records : LastStateAt(records, i) => LastStateAt(told, i)
  BY <1>2, <1>3 DEF LastStateAt
<1>5. r.kind = "state" => LastStateAt(told, Len(told))
  BY <1>1, <1>2, <1>3 DEF LastStateAt
<1>6. r.kind # "forfeit" =>
         \A i \in DOMAIN records : OnlyForfeitAt(records, i) => OnlyForfeitAt(told, i)
  BY <1>2, <1>3 DEF OnlyForfeitAt
<1>7. r.kind = "forfeit" /\ ~Forfeited => OnlyForfeitAt(told, Len(told))
  BY <1>2, <1>3 DEF OnlyForfeitAt, Forfeited, Has
<1> QED
  BY <1>3, <1>4, <1>5, <1>6, <1>7

\* What a new record does to the last position on record.
LEMMA BoardRecorded ==
  ASSUME DiskTyped, NEW r, Appended(records', r)
  PROVE  /\ r.kind # "state" => (BoardKnown => BoardKnown')
         /\ r.kind # "state" /\ UNCHANGED <<position, turn>> => (OnBoard => OnBoard')
         /\ r.kind = "state" => BoardKnown'
         /\ r = State(position', turn') => OnBoard'
<1>1. PICK told : told = records'
  OBVIOUS
<1>2. Appended(told, r)
  BY <1>1
<1>3. Placed' <=> Placed \/ r.kind = "state"
  BY Knowing
<1>4. ASSUME NEW i \in DOMAIN told, LastStateAt(told, i)
      PROVE  BoardKnown' /\ (told[i] = State(position', turn') => OnBoard')
  BY <1>1, <1>4 DEF BoardKnown, OnBoard, LastStateAt
<1>5. r.kind # "state" => (BoardKnown => BoardKnown')
  BY <1>2, <1>3, <1>4, Placing DEF BoardKnown
<1>6. r.kind # "state" /\ UNCHANGED <<position, turn>> => (OnBoard => OnBoard')
  BY <1>2, <1>4, Placing DEF OnBoard
<1>7. r.kind = "state" => BoardKnown' /\ (r = State(position', turn') => OnBoard')
  BY <1>2, <1>4, Placing
<1>8. r = State(position', turn') => r.kind = "state"
  BY DEF State
<1> QED
  BY <1>5, <1>6, <1>7, <1>8

\* What a new record does to the forfeit on record.
LEMMA DefaultRecorded ==
  ASSUME DiskTyped, NEW r, Appended(records', r), position' = position
  PROVE  /\ r.kind \notin {"forfeit", "engine_error"} /\ outcome' = outcome =>
               (Defaulted => Defaulted')
         /\ r.kind = "forfeit" /\ Uncharged /\ Answerable(r) =>
               Pending' /\ (outcome' = ForfeitedBy(r) => Defaulted')
<1>1. PICK told : told = records'
  OBVIOUS
<1>2. Appended(told, r)
  BY <1>1
<1>3. Voided' <=> Voided \/ r.kind = "engine_error"
  BY Knowing
<1>4. ASSUME NEW i \in DOMAIN told, OnlyForfeitAt(told, i), Answerable(told[i]), ~Voided',
             outcome' = ForfeitedBy(told[i])
      PROVE  Defaulted'
  BY <1>1, <1>4 DEF Defaulted, OnlyForfeitAt, Answerable, ForfeitedBy, Outcome
<1>5. ASSUME OnlyForfeitAt(told, Len(told)), Answerable(told[Len(told)]), ~Voided'
      PROVE  Pending'
  BY <1>1, <1>5 DEF Pending, OnlyForfeitAt, Answerable, Last
<1>6. ASSUME r.kind \notin {"forfeit", "engine_error"}, outcome' = outcome, Defaulted
      PROVE  Defaulted'
  BY <1>2, <1>3, <1>4, <1>6, Placing DEF Defaulted
<1>7. ASSUME r.kind = "forfeit", Uncharged, Answerable(r)
      PROVE  Pending' /\ (outcome' = ForfeitedBy(r) => Defaulted')
  BY <1>2, <1>3, <1>4, <1>5, <1>7, Placing DEF Uncharged
<1> QED
  BY <1>6, <1>7

\* Without a new record both stay.
LEMMA NothingRecorded ==
  ASSUME records' = records
  PROVE  /\ BoardKnown' <=> BoardKnown
         /\ UNCHANGED <<position, turn>> => (OnBoard' <=> OnBoard)
         /\ UNCHANGED <<position, outcome>> => (Defaulted' <=> Defaulted)
<1>1. BoardKnown' <=> BoardKnown
  BY KnowingNothingNew DEF BoardKnown, LastStateAt
<1>2. UNCHANGED <<position, turn>> => (OnBoard' <=> OnBoard)
  BY DEF OnBoard, LastStateAt
<1>3. UNCHANGED <<position, outcome>> => (Defaulted' <=> Defaulted)
  BY KnowingNothingNew DEF Defaulted, OnlyForfeitAt, Answerable
<1> QED
  BY <1>1, <1>2, <1>3
\* The stages of the two loops, and what is ruled at each of them.
LEMMA RuledByStage ==
  ASSUME RulingsRecorded
  PROVE  /\ pc \in {"open", "greet", "handshake", "handshake_fault"} =>
               Undecided /\ position = Opening /\ turn = 0 /\ ~Placed
         /\ pc = "handshake_charged" => Defaulted /\ position = Opening /\ turn = 0 /\ ~Placed
         /\ pc \in Asking \union {"turn"} => Undecided /\ OnBoard
  BY DEF RulingsRecorded, OpeningRuled, PlayRuled, BeforePlay, Defaulted, Undecided, Uncharged

Unbinding == Stages \ (BeforePlay \union Asking \union {"turn", "charged", "score", "commit"})
\* Stages at which nothing need be known of the rulings.
LEMMA Unbound ==
  ASSUME BoardKnown, records' = records, pc' \in Unbinding
  PROVE  RulingsRecorded'
  BY NothingRecorded
     DEF RulingsRecorded, OpeningRuled, PlayRuled, Unbinding, BeforePlay, Asking

\* Which stages these are.
LEMMA UnboundNames ==
  {"fault", "score_fault", "commit_void", "close", "unwind", "sweep", "sweep_unwind",
   "returned", "raised", "dead"} \subseteq Unbinding
  BY DEF Unbinding, Stages, InPlay, BeforePlay, Asking

\* None is no outcome, so the loop knows whether it has one.
LEMMA OutcomesAreRecords ==
  (Defaulted => outcome # Nobody) /\ (Annulled => outcome # Nobody)
<1>1. \A s \in Seats, why \in Offences : Outcome(1 - s, why) # Nobody
  BY MatchAssumption DEF Outcome, Seats, Reasons
<1>2. Void # Nobody
  BY MatchAssumption DEF Void, Outcome, Reasons
<1> QED
  BY <1>1, <1>2 DEF Defaulted, Annulled, Answerable, ForfeitedBy

\* A record written on the way between such stages.
LEMMA UnboundRecorded ==
  ASSUME DiskTyped, BoardKnown, NEW r, r.kind # "state",
         NEW next \in Unbinding, NEW handler \in Unbinding, Record(r, next, handler)
  PROVE  RulingsRecorded'
<1>1. BoardKnown' /\ pc' \in Unbinding
  BY Recording, BoardRecorded, NothingRecorded
<1> QED
  BY <1>1 DEF RulingsRecorded, OpeningRuled, PlayRuled, Unbinding, BeforePlay, Asking

\* A forfeit ruled on the seat that had to answer is all that is pending.
LEMMA ForfeitRecorded ==
  ASSUME DiskTyped, BoardKnown, Uncharged, OnBoard, ~Over(position),
         UNCHANGED <<position, turn>>,
         NEW s \in Seats, s = position.to_move, NEW why \in Offences, NEW t,
         Record(Forfeit(s, why, t), "charged", "fault")
  PROVE  RulingsRecorded'
<1>1. PICK r : r = Forfeit(s, why, t)
  OBVIOUS
<1>2. r.kind = "forfeit" /\ Answerable(r)
  BY <1>1 DEF Forfeit, Answerable
<1>3. CASE Appended(records', r) /\ pc' = "charged"
  <2>1. Pending' /\ OnBoard' /\ BoardKnown'
    BY <1>2, <1>3, DefaultRecorded, BoardRecorded
  <2> QED
    BY <1>3, <2>1 DEF RulingsRecorded, OpeningRuled, PlayRuled, BeforePlay, Asking
<1>4. CASE records' = records /\ pc' = "fault"
  BY <1>4, Unbound, UnboundNames
<1> QED
  BY <1>1, <1>3, <1>4, Recording

\* Every step rules as the invariant says.
LEMMA RulingsStep ==
  ASSUME TurnsTyped, TurnsClosed, FaultsRecorded, RulingsRecorded, Next
  PROVE  RulingsRecorded'
<1> USE TypedParts
<1>0. BoardKnown /\ (pc \in {"score", "commit"} => Decided)
  BY DEF RulingsRecorded
<1>1. CASE Open
  <2>1. CASE Record(Header, "greet", "unwind")
    <3>1. PICK r : r = Header
      OBVIOUS
    <3>2. r.kind = "header" /\ Record(r, "greet", "unwind")
      BY <2>1, <3>1, KindsOfRecord
    <3>3. CASE Appended(records', r) /\ pc' = "greet"
      <4>1. Undecided /\ position = Opening /\ turn = 0 /\ ~Placed
        BY <1>1, RuledByStage DEF Open
      <4>2. Undecided' /\ position' = Opening /\ turn' = 0 /\ ~Placed' /\ BoardKnown'
        BY <1>0, <1>1, <3>2, <3>3, <4>1, Knowing, BoardRecorded DEF Open, Undecided, Uncharged
      <4> QED
        BY <3>3, <4>2 DEF RulingsRecorded, OpeningRuled, PlayRuled, BeforePlay, Asking
    <3>4. CASE records' = records /\ pc' = "unwind"
      BY <1>0, <3>4, Unbound, UnboundNames
    <3> QED
      BY <3>2, <3>3, <3>4, Recording
  <2>2. CASE Fault("unwind")
    BY <1>0, <2>2, Faulting, Unbound, UnboundNames
  <2> QED
    BY <1>1, <2>1, <2>2 DEF Open
<1>2. CASE Greet
  <2>1. records' = records /\ pc' \in {"handshake", "handshake_fault"} /\ UNCHANGED <<position, turn, outcome>>
    BY <1>2, Going, Faulting DEF Greet
  <2>2. Undecided /\ position = Opening /\ turn = 0 /\ ~Placed
    BY <1>2, RuledByStage DEF Greet
  <2>3. Undecided' /\ position' = Opening /\ turn' = 0 /\ ~Placed' /\ BoardKnown'
    BY <1>0, <2>1, <2>2, KnowingNothingNew, NothingRecorded DEF Undecided, Uncharged
  <2> QED
    BY <2>1, <2>3 DEF RulingsRecorded, OpeningRuled, PlayRuled, BeforePlay, Asking
<1>3. CASE HearReady
  <2>1. PICK r : r = Ready(seat)
    OBVIOUS
  <2>2. r.kind = "ready"
    BY <2>1, KindsOfRecord
  <2>3. /\ Appended(records', r) \/ records' = records
        /\ pc' \in {"greet", "opening", "handshake_fault"} /\ UNCHANGED <<position, turn, outcome>>
    BY <1>3, <2>1, Chaining, Losing DEF HearReady
  <2>4. Undecided /\ position = Opening /\ turn = 0 /\ ~Placed
    BY <1>3, RuledByStage DEF HearReady
  <2>5. Undecided' /\ position' = Opening /\ turn' = 0 /\ ~Placed' /\ BoardKnown'
    BY <1>0, <2>2, <2>3, <2>4, Knowing, BoardRecorded, KnowingNothingNew, NothingRecorded
       DEF Undecided, Uncharged
  <2> QED
    BY <2>3, <2>5 DEF RulingsRecorded, OpeningRuled, PlayRuled, BeforePlay, Asking
<1>4. CASE HandshakeForfeit
  <2>1. PICK why \in Offences :
          /\ Record(Forfeit(seat, why, Nobody), "handshake_charged", "unwind")
          /\ Ruled(Outcome(1 - seat, why), "handshake_charged")
    BY <1>4 DEF HandshakeForfeit
  <2>2. PICK r : r = Forfeit(seat, why, Nobody)
    OBVIOUS
  <2>3. r.kind = "forfeit" /\ r.player = seat /\ r.reason = why
    BY <2>2 DEF Forfeit
  <2>4. Undecided /\ position = Opening /\ turn = 0 /\ ~Placed /\ UNCHANGED <<position, turn>>
    BY <1>4, RuledByStage DEF HandshakeForfeit
  <2>5. CASE Appended(records', r) /\ pc' = "handshake_charged"
    <3>1. outcome' = ForfeitedBy(r)
      BY <2>1, <2>3, <2>5 DEF Ruled, ForfeitedBy
    <3>2. Answerable(r)
      BY <2>3, <2>4 DEF Answerable, RefereeTyped
    <3>3. Defaulted' /\ ~Placed' /\ BoardKnown'
      BY <1>0, <2>3, <2>4, <2>5, <3>1, <3>2, Knowing, BoardRecorded, DefaultRecorded DEF Undecided
    <3> QED
      BY <2>4, <2>5, <3>3 DEF RulingsRecorded, OpeningRuled, PlayRuled, BeforePlay, Asking
  <2>6. CASE records' = records /\ pc' = "unwind"
    BY <1>0, <2>6, Unbound, UnboundNames
  <2> QED
    BY <2>1, <2>2, <2>5, <2>6, Recording
<1>5. CASE HandshakeDiagnosis
  <2>1. CASE Goto("opening")
    <3>1. records' = records /\ pc' = "opening" /\ UNCHANGED <<position, turn, outcome>>
      BY <1>5, <2>1, Going DEF HandshakeDiagnosis
    <3>2. Defaulted /\ position = Opening /\ turn = 0 /\ ~Placed
      BY <1>5, RuledByStage DEF HandshakeDiagnosis
    <3>3. Defaulted' /\ ~Placed' /\ BoardKnown'
      BY <1>0, <3>1, <3>2, KnowingNothingNew, NothingRecorded
    <3> QED
      BY <3>1, <3>2, <3>3 DEF RulingsRecorded, OpeningRuled, PlayRuled, BeforePlay, Asking
  <2>2. CASE Fault("unwind")
    BY <1>0, <2>2, Faulting, Unbound, UnboundNames
  <2> QED
    BY <1>5, <2>1, <2>2 DEF HandshakeDiagnosis
<1>6. CASE HandshakeFault
  <2>1. PICK r : r = EngineError("handshake_failed")
    OBVIOUS
  <2>2. r.kind = "engine_error"
    BY <2>1, KindsOfRecord
  <2>3. Record(r, "opening", "unwind") /\ UNCHANGED <<position, turn>>
    BY <1>6, <2>1 DEF HandshakeFault
  <2>4. CASE Appended(records', r) /\ pc' = "opening"
    <3>1. Undecided /\ position = Opening /\ turn = 0 /\ ~Placed
      BY <1>6, RuledByStage DEF HandshakeFault
    <3>2. outcome' = Void /\ Voided' /\ ~Placed' /\ BoardKnown'
      BY <1>0, <1>6, <2>2, <2>4, <3>1, Knowing, BoardRecorded DEF HandshakeFault, Ruled
    <3> QED
      BY <2>3, <2>4, <3>1, <3>2
         DEF RulingsRecorded, OpeningRuled, PlayRuled, BeforePlay, Asking, Annulled
  <2>5. CASE records' = records /\ pc' = "unwind"
    BY <1>0, <2>5, Unbound, UnboundNames
  <2> QED
    BY <2>3, <2>4, <2>5, Recording
<1>7. CASE OpeningState
  <2>0. PICK next : next = IF outcome = Nobody THEN "turn" ELSE "score"
    OBVIOUS
  <2>1. PICK r : r = State(position, 0)
    OBVIOUS
  <2>2. r.kind = "state"
    BY <2>1, KindsOfRecord
  <2>3. Record(r, next, "unwind") /\ UNCHANGED <<position, turn, outcome>>
    BY <1>7, <2>0, <2>1 DEF OpeningState
  <2>4. /\ position = Opening /\ turn = 0 /\ ~Placed
        /\ Undecided \/ Defaulted \/ Annulled
    BY <1>7 DEF OpeningState, RulingsRecorded, OpeningRuled, BeforePlay
  <2>5. CASE Appended(records', r) /\ pc' = next
    <3>1. OnBoard' /\ BoardKnown' /\ ~Over(position)'
      BY <2>1, <2>2, <2>3, <2>4, <2>5, BoardRecorded, GameAssumption
    <3>2. CASE outcome = Nobody
      <4>1. Undecided
        BY <2>4, <3>2, OutcomesAreRecords
      <4>2. Undecided'
        BY <2>2, <2>3, <2>5, <4>1, Knowing DEF Undecided, Uncharged
      <4> QED
        BY <2>0, <2>5, <3>1, <3>2, <4>2 DEF RulingsRecorded, OpeningRuled, PlayRuled, BeforePlay, Asking
    <3>3. CASE outcome # Nobody
      <4>1. Defaulted \/ Annulled
        BY <2>4, <3>3 DEF Undecided
      <4>2. Defaulted' \/ Annulled'
        BY <2>2, <2>3, <2>5, <4>1, Knowing, DefaultRecorded DEF Annulled
      <4>3. Decided'
        BY <3>1, <4>2 DEF Decided
      <4> QED
        BY <2>0, <2>5, <3>1, <3>3, <4>3 DEF RulingsRecorded, OpeningRuled, PlayRuled, BeforePlay, Asking
    <3> QED
      BY <3>2, <3>3
  <2>6. CASE records' = records /\ pc' = "unwind"
    BY <1>0, <2>6, Unbound, UnboundNames
  <2> QED
    BY <2>3, <2>5, <2>6, Recording
<1>8. CASE GameOver
  <2>1. records' = records /\ pc' = "score" /\ UNCHANGED <<position, turn>>
    BY <1>8, Going DEF GameOver
  <2>2. OnBoard' /\ BoardKnown' /\ Uncharged'
    BY <1>0, <1>8, <2>1, RuledByStage, KnowingNothingNew, NothingRecorded DEF GameOver, Undecided, Uncharged
  <2>3. Decided'
    BY <1>8, <2>1, <2>2 DEF GameOver, Decided, EndOf, Outcome
  <2> QED
    BY <2>1, <2>2, <2>3 DEF RulingsRecorded, OpeningRuled, PlayRuled, BeforePlay, Asking
<1>9. CASE BoundExceeded
  <2>1. PICK r : r = Abort
    OBVIOUS
  <2>2. r.kind = "abort"
    BY <2>1 DEF Abort
  <2>3. Record(r, "score", "fault") /\ UNCHANGED <<position, turn>>
    BY <1>9, <2>1 DEF BoundExceeded
  <2>4. CASE Appended(records', r) /\ pc' = "score"
    <3>1. Undecided /\ OnBoard /\ ~Over(position)
      BY <1>9, RuledByStage DEF BoundExceeded
    <3>2. outcome' = Outcome(Nobody, "move_bound_exceeded") /\ Uncharged' /\ OnBoard' /\ BoardKnown'
      BY <1>0, <1>9, <2>2, <2>3, <2>4, <3>1, Knowing, BoardRecorded
         DEF BoundExceeded, Ruled, Undecided, Uncharged
    <3>3. Decided'
      BY <2>3, <3>1, <3>2 DEF Decided, Outcome
    <3> QED
      BY <2>4, <3>2, <3>3 DEF RulingsRecorded, OpeningRuled, PlayRuled, BeforePlay, Asking
  <2>5. CASE records' = records /\ pc' = "fault"
    BY <1>0, <2>5, Unbound, UnboundNames
  <2> QED
    BY <2>3, <2>4, <2>5, Recording
<1>10. CASE Ask
  <2>1. /\ Undecided /\ OnBoard /\ ~Over(position) /\ turn < Bound
        /\ seat' = position.to_move /\ seat' \in Seats /\ UNCHANGED <<position, turn, outcome>>
    BY <1>10, RuledByStage, GameAssumption DEF Ask, RefereeTyped
  <2>2. CASE Goto("await")
    <3>1. records' = records /\ pc' = "await"
      BY <2>2, Going
    <3>2. Undecided' /\ OnBoard' /\ BoardKnown'
      BY <1>0, <2>1, <3>1, KnowingNothingNew, NothingRecorded DEF Undecided, Uncharged
    <3> QED
      BY <2>1, <3>1, <3>2 DEF RulingsRecorded, OpeningRuled, PlayRuled, BeforePlay, Asking
  <2>3. ASSUME NEW why \in Offences, Record(Forfeit(seat', why, turn), "charged", "fault")
        PROVE  RulingsRecorded'
    BY <1>0, <2>1, <2>3, ForfeitRecorded DEF Undecided
  <2> QED
    BY <1>10, <2>2, <2>3 DEF Ask, Offences
<1>11. CASE Hear
  <2>1. /\ Undecided /\ OnBoard /\ ~Over(position) /\ turn < Bound /\ seat = position.to_move
        /\ records' = records /\ pc' = "judge" /\ UNCHANGED <<position, turn, outcome, seat>>
    BY <1>11, Going DEF Hear, RulingsRecorded, PlayRuled, Asking
  <2>2. Undecided' /\ OnBoard' /\ BoardKnown'
    BY <1>0, <2>1, KnowingNothingNew, NothingRecorded DEF Undecided, Uncharged
  <2> QED
    BY <2>1, <2>2 DEF RulingsRecorded, OpeningRuled, PlayRuled, BeforePlay, Asking
<1>12. CASE MoveForfeit
  <2>1. /\ Undecided /\ OnBoard /\ ~Over(position) /\ seat = position.to_move
        /\ UNCHANGED <<position, turn, outcome, seat>>
    BY <1>12 DEF MoveForfeit, RulingsRecorded, PlayRuled, Asking
  <2>2. PICK why \in Offences : Record(Forfeit(seat, why, turn), "charged", "fault")
    BY <1>12 DEF MoveForfeit
  <2> QED
    BY <1>0, <2>1, <2>2, ForfeitRecorded DEF Undecided, RefereeTyped
<1>13. CASE Charge
  <2>1. /\ Pending /\ OnBoard /\ ~Over(position)
        /\ records' = records /\ pc' = "score" /\ UNCHANGED <<position, turn>>
        /\ outcome' = ForfeitedBy(Last(records))
    BY <1>13, Going DEF Charge, RulingsRecorded, PlayRuled
  <2>2. OnBoard' /\ BoardKnown'
    BY <1>0, <2>1, NothingRecorded
  <2>3. Len(records) \in DOMAIN records
    BY <2>1 DEF OnBoard, DiskTyped
  <2>4. Defaulted'
    <3>1. ~Voided'
      BY <2>1, KnowingNothingNew DEF Pending
    <3>2. outcome' = ForfeitedBy(records[Len(records)]) /\ Answerable(records[Len(records)])
      BY <2>1 DEF Pending, Last
    <3> QED
      BY <2>1, <2>3, <3>1, <3>2 DEF Pending, Defaulted, OnlyForfeitAt, Answerable
  <2> QED
    BY <2>1, <2>2, <2>4 DEF RulingsRecorded, OpeningRuled, PlayRuled, BeforePlay, Asking, Decided
<1>14. CASE Accept
  <2>1. PICK r : r = Move(seat, turn, reply, TRUE)
    OBVIOUS
  <2>2. r.kind = "move"
    BY <2>1 DEF Move
  <2>3. Record(r, "apply", "fault") /\ UNCHANGED <<position, turn, outcome, seat, reply>>
    BY <1>14, <2>1 DEF Accept
  <2>4. CASE Appended(records', r) /\ pc' = "apply"
    <3>1. /\ Undecided /\ OnBoard /\ ~Over(position) /\ turn < Bound /\ seat = position.to_move
          /\ Legal(position, reply)
      BY <1>14 DEF Accept, RulingsRecorded, PlayRuled, Asking
    <3>2. Undecided' /\ OnBoard' /\ BoardKnown'
      BY <1>0, <2>2, <2>3, <2>4, <3>1, Knowing, BoardRecorded DEF Undecided, Uncharged
    <3> QED
      BY <2>3, <2>4, <3>1, <3>2 DEF RulingsRecorded, OpeningRuled, PlayRuled, BeforePlay, Asking
  <2>5. CASE records' = records /\ pc' = "fault"
    BY <1>0, <2>5, Unbound, UnboundNames
  <2> QED
    BY <2>3, <2>4, <2>5, Recording
<1>15. CASE Reject
  <2>1. PICK r : r = Move(seat, turn, reply, FALSE)
    OBVIOUS
  <2>2. r.kind = "move"
    BY <2>1 DEF Move
  <2>3. Record(r, "rejected", "fault") /\ UNCHANGED <<position, turn, outcome, seat, reply>>
    BY <1>15, <2>1 DEF Reject
  <2>4. CASE Appended(records', r) /\ pc' = "rejected"
    <3>1. /\ Undecided /\ OnBoard /\ ~Over(position) /\ turn < Bound /\ seat = position.to_move
          /\ ~Legal(position, reply)
      BY <1>15 DEF Reject, RulingsRecorded, PlayRuled, Asking
    <3>2. Undecided' /\ OnBoard' /\ BoardKnown'
      BY <1>0, <2>2, <2>3, <2>4, <3>1, Knowing, BoardRecorded DEF Undecided, Uncharged
    <3> QED
      BY <2>3, <2>4, <3>1, <3>2 DEF RulingsRecorded, OpeningRuled, PlayRuled, BeforePlay, Asking
  <2>5. CASE records' = records /\ pc' = "fault"
    BY <1>0, <2>5, Unbound, UnboundNames
  <2> QED
    BY <2>3, <2>4, <2>5, Recording
<1>16. CASE RejectForfeit
  <2>1. PICK r : r = Forfeit(seat, "illegal_move", turn)
    OBVIOUS
  <2>2. r.kind = "forfeit"
    BY <2>1 DEF Forfeit
  <2>3. Record(r, "score", "fault") /\ UNCHANGED <<position, turn>>
    BY <1>16, <2>1 DEF RejectForfeit
  <2>4. CASE Appended(records', r) /\ pc' = "score"
    <3>1. Undecided /\ OnBoard /\ ~Over(position) /\ seat = position.to_move
      BY <1>16 DEF RejectForfeit, RulingsRecorded, PlayRuled, Asking
    <3>2. Answerable(r) /\ outcome' = ForfeitedBy(r)
      BY <1>16, <2>1, <2>4, <3>1
         DEF RejectForfeit, Ruled, Answerable, RefereeTyped, Offences, Forfeit, ForfeitedBy
    <3>3. Defaulted' /\ OnBoard' /\ BoardKnown'
      BY <1>0, <2>2, <2>3, <2>4, <3>1, <3>2, DefaultRecorded, BoardRecorded DEF Undecided
    <3>4. Decided'
      BY <2>3, <3>1, <3>3 DEF Decided
    <3> QED
      BY <2>4, <3>3, <3>4 DEF RulingsRecorded, OpeningRuled, PlayRuled, BeforePlay, Asking
  <2>5. CASE records' = records /\ pc' = "fault"
    BY <1>0, <2>5, Unbound, UnboundNames
  <2> QED
    BY <2>3, <2>4, <2>5, Recording
<1>17. CASE Advance
  <2>1. Record(State(position', turn'), "turn", "fault") /\ outcome' = outcome
    BY <1>17 DEF Advance
  <2>2. PICK r : r = State(position', turn')
    OBVIOUS
  <2>3. r.kind = "state" /\ Record(r, "turn", "fault")
    BY <2>1, <2>2 DEF State
  <2>4. CASE Appended(records', r) /\ pc' = "turn"
    <3>1. Undecided
      BY <1>17, RuledByStage DEF Advance, Asking
    <3>2. Undecided' /\ OnBoard' /\ BoardKnown'
      BY <2>1, <2>2, <2>3, <2>4, <3>1, Knowing, BoardRecorded DEF Undecided, Uncharged
    <3> QED
      BY <2>4, <3>2 DEF RulingsRecorded, OpeningRuled, PlayRuled, BeforePlay, Asking
  <2>5. CASE records' = records /\ pc' = "fault"
    BY <1>0, <2>5, Unbound, UnboundNames
  <2> QED
    BY <2>3, <2>4, <2>5, Recording
<1>18. CASE RefereeFault
  BY <1>0, <1>18, Faulting, Unbound, UnboundNames DEF RefereeFault
<1>19. CASE PlayFault
  <2>1. PICK r : r = EngineError("referee_fault")
    OBVIOUS
  <2>2. r.kind = "engine_error"
    BY <2>1 DEF EngineError
  <2>3. Record(r, "score", "unwind") /\ UNCHANGED <<position, turn>>
    BY <1>19, <2>1 DEF PlayFault
  <2>4. CASE Appended(records', r) /\ pc' = "score"
    <3>1. outcome' = Void /\ Voided' /\ BoardKnown'
      BY <1>0, <1>19, <2>2, <2>4, Knowing, BoardRecorded DEF PlayFault, Ruled
    <3> QED
      BY <2>4, <3>1 DEF RulingsRecorded, OpeningRuled, PlayRuled, BeforePlay, Asking, Decided, Annulled
  <2>5. CASE records' = records /\ pc' = "unwind"
    BY <1>0, <2>5, Unbound, UnboundNames
  <2> QED
    BY <2>3, <2>4, <2>5, Recording
<1>20. CASE Score
  <2>1. CASE Goto("commit")
    <3>1. Decided /\ records' = records /\ pc' = "commit" /\ UNCHANGED <<position, turn, outcome>>
      BY <1>0, <1>20, <2>1, Going DEF Score
    <3>2. Decided' /\ BoardKnown'
      BY <1>0, <3>1, KnowingNothingNew, NothingRecorded DEF Decided, Annulled, Uncharged
    <3> QED
      BY <3>1, <3>2 DEF RulingsRecorded, OpeningRuled, PlayRuled, BeforePlay, Asking
  <2>2. CASE Fault("score_fault")
    BY <1>0, <2>2, Faulting, Unbound, UnboundNames
  <2> QED
    BY <1>20, <2>1, <2>2 DEF Score
<1>21. CASE ScoreFault
  <2>1. CASE Goto("commit_void")
    BY <1>0, <2>1, Going, Unbound, UnboundNames
  <2>2. CASE Record(EngineError("referee_fault"), "commit_void", "unwind")
    BY <1>0, <2>2, KindsOfRecord, UnboundRecorded, UnboundNames
  <2> QED
    BY <1>21, <2>1, <2>2 DEF ScoreFault
<1>22. CASE Commit
  BY <1>0, <1>22, KindsOfRecord, UnboundRecorded, UnboundNames DEF Commit
<1>23. CASE Report
  BY <1>0, <1>23, Going, Unbound, UnboundNames DEF Report
<1>24. CASE CloseEntrants
  BY <1>0, <1>24, Going, Unbound, UnboundNames DEF CloseEntrants
<1>25. CASE Sweep
  BY <1>0, <1>25, Unbound, UnboundNames DEF Sweep
<1>26. CASE Crash
  BY <1>0, <1>26, Unbound, UnboundNames DEF Crash, disk
<1>27. CASE Entrants
  <2>1. UNCHANGED <<pc, seat, position, turn, reply, outcome, records>>
    BY <1>27 DEF Entrants, Answer, Blurt, Exit, referee, disk
  <2>2. /\ (Placed' <=> Placed) /\ (Undecided' <=> Undecided) /\ (Uncharged' <=> Uncharged)
        /\ (Annulled' <=> Annulled) /\ (Pending' <=> Pending)
    BY <2>1, KnowingNothingNew
       DEF Undecided, Uncharged, Annulled, Pending, OnlyForfeitAt, Answerable, Last
  <2>3. (BoardKnown' <=> BoardKnown) /\ (OnBoard' <=> OnBoard) /\ (Defaulted' <=> Defaulted)
    BY <2>1, NothingRecorded
  <2> QED
    BY <2>1, <2>2, <2>3
       DEF RulingsRecorded, OpeningRuled, PlayRuled, BeforePlay, Asking, Decided
<1> QED
  BY <1>1, <1>2, <1>3, <1>4, <1>5, <1>6, <1>7, <1>8, <1>9, <1>10, <1>11, <1>12, <1>13, <1>14, <1>15, <1>16, <1>17, <1>18, <1>19, <1>20, <1>21, <1>22, <1>23, <1>24, <1>25, <1>26, <1>27 DEF Next, Referee
\* The scorer finds what the loop decided on.
LEMMA ScorerAgreesHere ==
  ASSUME TurnsTyped, RulingsRecorded
  PROVE  ScorerAgrees
<1> SUFFICES ASSUME pc = "commit"
             PROVE  /\ score(records).winner = outcome.winner
                    /\ outcome.reason # "move_bound_exceeded" => score(records) = outcome
  BY DEF ScorerAgrees
<1>1. Decided /\ IsSeq(records)
  BY DEF RulingsRecorded, TurnsTyped, IsSeq
<1>2. CASE Annulled
  BY <1>2 DEF Annulled, score, Voided
<1>3. CASE OnBoard /\ ~Voided
  <2>1. Placed /\ LastOf(records, "state").position = position
    BY <1>1, <1>3, LastStateIsLast DEF OnBoard, State, Placed
  <2>2. CASE Defaulted
    <3>1. PICK i \in DOMAIN records : OnlyForfeitAt(records, i) /\ outcome = ForfeitedBy(records[i])
      BY <2>2 DEF Defaulted
    <3>2. Forfeited /\ FirstOf(records, "forfeit") = records[i]
      BY <1>1, <3>1, OnlyForfeitIsFirst DEF Forfeited
    <3> QED
      BY <1>3, <2>1, <3>1, <3>2 DEF score, Voided, Forfeited, Placed
  <2>3. CASE Uncharged
    <3>1. score(records) = EndOf(position)
      BY <2>1, <2>3 DEF score, Uncharged, Voided, Forfeited, Placed
    <3> QED
      BY <1>1, <1>3, <2>2, <2>3, <3>1 DEF Decided, Annulled, EndOf, Outcome
  <2> QED
    BY <1>1, <1>3, <2>2, <2>3 DEF Decided, Annulled
<1> QED
  BY <1>1, <1>2, <1>3 DEF Decided, Defaulted, Uncharged

------------------------------------------------------------------------------
(* The seats.                                                                *)
\* A queue of one line.
LEMMA Singletons ==
  ASSUME NEW x
  PROVE  Append(<<>>, x) = <<x>> /\ Head(<<x>>) = x /\ Tail(<<x>>) = <<>> /\ <<x>> # <<>>
  OBVIOUS

Blamed ==
    \A i \in DOMAIN records :
        records[i].kind = "forfeit" \/ (records[i].kind = "move" /\ ~records[i].legal)
        => records[i].player \in astray

\* A record blames no seat that is not astray.
LEMMA Blaming ==
  ASSUME DiskTyped, Blamed, astray \subseteq astray', NEW r, Appended(records', r),
         r.kind = "forfeit" \/ (r.kind = "move" /\ ~r.legal) => r.player \in astray'
  PROVE  Blamed'
<1>1. \A i \in 1..Len(records) : records'[i] = records[i] /\ i \in DOMAIN records
  BY DEF DiskTyped, Appended
<1>2. \A i \in DOMAIN records' : i \in 1..Len(records) \/ i = Len(records) + 1
  BY DEF DiskTyped, Appended
<1>3. records'[Len(records) + 1] = r
  BY DEF Appended
<1> QED
  BY <1>1, <1>2, <1>3 DEF Blamed

\* Nobody is blamed without a record.
LEMMA BlamingNobody ==
  ASSUME Blamed, astray \subseteq astray', records' = records
  PROVE  Blamed'
  BY DEF Blamed
\* The property is about misread lines and about blame.
LEMMA ChargedParts == GoodSeatIsNeverCharged <=> misread \subseteq astray /\ Blamed
  BY DEF GoodSeatIsNeverCharged, Blamed

\* A record blames only a seat that went astray.
LEMMA RecordedBlame ==
  ASSUME DiskTyped, Blamed, astray \subseteq astray', NEW r, NEW next, NEW handler,
         Record(r, next, handler),
         r.kind = "forfeit" \/ (r.kind = "move" /\ ~r.legal) => r.player \in astray'
  PROVE  Blamed'
<1>1. CASE Appended(records', r)
  BY <1>1, Blaming
<1>2. CASE records' = records
  BY <1>2, BlamingNobody
<1> QED
  BY <1>1, <1>2, Recording

\* What a seat in step has in its queue is the answer.
LEMMA GoodSeatAnswers ==
  ASSUME SeatsInStep, seat \in Seats \ astray, pc \in {"handshake", "await"}
  PROVE  /\ process[seat] = "running"
         /\ ~Heard({"eof"}) /\ ~Heard({"junk"})
         /\ pc = "handshake" => ~Heard({"move"})
         /\ pc = "await" /\ ~Silent =>
               \E m \in Moves : Legal(position, m) /\ queue[seat] = <<MoveLine(m, turn)>>
<1>1. InStep(seat) /\ Asked(seat) /\ process[seat] = "running"
  BY DEF SeatsInStep, Keeping, InTouch, Asking, Asked, Greeted
<1>2. \/ Silent
      \/ \E line \in Answers(seat) : queue[seat] = <<line>>
  BY <1>1 DEF InStep, Silent
<1>3. ASSUME NEW line \in Answers(seat), queue[seat] = <<line>>
      PROVE  /\ Head(queue[seat]) = line
             /\ pc = "handshake" => line.type = "ready"
             /\ pc = "await" => line.type = "move" /\ \E m \in Moves : Legal(position, m) /\ line = MoveLine(m, turn)
  BY <1>3, Singletons DEF Answers, ReadyLine, MoveLine
<1> QED
  BY <1>1, <1>2, <1>3 DEF Heard

\* A seat is only ever blamed when it is astray.
LEMMA BlameStep ==
  ASSUME TurnsTyped, RulingsRecorded, SeatsInStep, Next
  PROVE  Blamed' /\ astray \subseteq astray'
<1> USE TypedParts
<1>0. Blamed
  BY ChargedParts DEF SeatsInStep
<1>1. CASE Open
  BY <1>0, <1>1, RecordedBlame, KindsOfRecord, Faulting, Going, BlamingNobody DEF Open, history
<1>2. CASE Greet
  BY <1>0, <1>2, Faulting, Going, BlamingNobody DEF Greet, history
<1>3. CASE HearReady
  BY <1>0, <1>3, KindsOfRecord, Chaining, Losing, Blaming, BlamingNobody DEF HearReady, history
<1>4. CASE HandshakeForfeit
  <2>1. PICK why \in Offences : Record(Forfeit(seat, why, Nobody), "handshake_charged", "unwind")
    BY <1>4 DEF HandshakeForfeit
  <2>2. astray \subseteq astray' /\ seat \in astray'
    BY <1>4, GoodSeatAnswers DEF HandshakeForfeit, Unanswered, RefereeTyped
  <2>3. PICK r : r = Forfeit(seat, why, Nobody)
    OBVIOUS
  <2>4. r.player \in astray'
    BY <2>2, <2>3 DEF Forfeit
  <2> QED
    BY <1>0, <2>1, <2>2, <2>3, <2>4, RecordedBlame
<1>5. CASE HandshakeDiagnosis
  BY <1>0, <1>5, Faulting, Going, BlamingNobody DEF HandshakeDiagnosis, history
<1>6. CASE HandshakeFault
  BY <1>0, <1>6, RecordedBlame, KindsOfRecord, Faulting, Going, BlamingNobody DEF HandshakeFault, history
<1>7. CASE OpeningState
  BY <1>0, <1>7, RecordedBlame, KindsOfRecord, Faulting, Going, BlamingNobody DEF OpeningState, history
<1>8. CASE GameOver
  BY <1>0, <1>8, Faulting, Going, BlamingNobody DEF GameOver, history
<1>9. CASE BoundExceeded
  BY <1>0, <1>9, RecordedBlame, KindsOfRecord, Faulting, Going, BlamingNobody DEF BoundExceeded, history
<1>10. CASE Ask
  <2>1. seat' \in Seats /\ astray \subseteq astray'
    BY <1>10, GameAssumption DEF Ask, RefereeTyped
  <2>2. CASE Goto("await")
    BY <1>0, <2>1, <2>2, Going, BlamingNobody
  <2>3. ASSUME NEW why, Record(Forfeit(seat', why, turn), "charged", "fault"), seat' \in astray'
        PROVE  Blamed'
    <3>1. PICK r : r = Forfeit(seat', why, turn)
      OBVIOUS
    <3>2. r.player \in astray'
      BY <2>3, <3>1 DEF Forfeit
    <3> QED
      BY <1>0, <2>1, <2>3, <3>1, <3>2, RecordedBlame
  <2>4. process[seat'] # "running" => seat' \in astray
    BY <1>10, <2>1 DEF Ask, SeatsInStep, Keeping, InTouch, Greeted
  <2> QED
    BY <1>10, <2>1, <2>2, <2>3, <2>4 DEF Ask
<1>11. CASE Hear
  BY <1>0, <1>11, Faulting, Going, BlamingNobody DEF Hear, history
<1>12. CASE MoveForfeit
  <2>1. PICK why \in Offences : Record(Forfeit(seat, why, turn), "charged", "fault")
    BY <1>12 DEF MoveForfeit
  <2>2. astray \subseteq astray' /\ seat \in astray'
    BY <1>12, GoodSeatAnswers DEF MoveForfeit, Unanswered, RefereeTyped
  <2>3. PICK r : r = Forfeit(seat, why, turn)
    OBVIOUS
  <2>4. r.player \in astray'
    BY <2>2, <2>3 DEF Forfeit
  <2> QED
    BY <1>0, <2>1, <2>2, <2>3, <2>4, RecordedBlame
<1>13. CASE Charge
  BY <1>0, <1>13, Faulting, Going, BlamingNobody DEF Charge, history
<1>14. CASE Accept
  <2>1. PICK r : r = Move(seat, turn, reply, TRUE)
    OBVIOUS
  <2>2. r.kind = "move" /\ r.player = seat /\ r.legal = TRUE
    BY <2>1 DEF Move
  <2>3. Record(r, "apply", "fault") /\ astray' = astray
    BY <1>14, <2>1 DEF Accept, history
  <2>4. ~r.legal => seat \in astray
    BY <1>14, <2>2 DEF Accept, SeatsInStep, Keeping, RefereeTyped
  <2> QED
    BY <1>0, <2>2, <2>3, <2>4, RecordedBlame
<1>15. CASE Reject
  <2>1. PICK r : r = Move(seat, turn, reply, FALSE)
    OBVIOUS
  <2>2. r.kind = "move" /\ r.player = seat /\ r.legal = FALSE
    BY <2>1 DEF Move
  <2>3. Record(r, "rejected", "fault") /\ astray' = astray
    BY <1>15, <2>1 DEF Reject, history
  <2>4. ~r.legal => seat \in astray
    BY <1>15, <2>2 DEF Reject, SeatsInStep, Keeping, RefereeTyped
  <2> QED
    BY <1>0, <2>2, <2>3, <2>4, RecordedBlame
<1>16. CASE RejectForfeit
  <2>1. PICK r : r = Forfeit(seat, "illegal_move", turn)
    OBVIOUS
  <2>2. Record(r, "score", "fault") /\ astray' = astray /\ r.player = seat /\ seat \in astray
    BY <1>16, <2>1 DEF RejectForfeit, history, Forfeit, SeatsInStep
  <2> QED
    BY <1>0, <2>2, RecordedBlame
<1>17. CASE Advance
  BY <1>0, <1>17, RecordedBlame, KindsOfRecord, Faulting, Going, BlamingNobody DEF Advance, history
<1>18. CASE RefereeFault
  BY <1>0, <1>18, Faulting, Going, BlamingNobody DEF RefereeFault, history
<1>19. CASE PlayFault
  BY <1>0, <1>19, RecordedBlame, KindsOfRecord, Faulting, Going, BlamingNobody DEF PlayFault, history
<1>20. CASE Score
  BY <1>0, <1>20, Faulting, Going, BlamingNobody DEF Score, history
<1>21. CASE ScoreFault
  BY <1>0, <1>21, RecordedBlame, KindsOfRecord, Faulting, Going, BlamingNobody DEF ScoreFault, history
<1>22. CASE Commit
  BY <1>0, <1>22, RecordedBlame, KindsOfRecord, Faulting, Going, BlamingNobody DEF Commit, history
<1>23. CASE Report
  BY <1>0, <1>23, Faulting, Going, BlamingNobody DEF Report, history
<1>24. CASE CloseEntrants
  BY <1>0, <1>24, Faulting, Going, BlamingNobody DEF CloseEntrants, history
<1>25. CASE Sweep
  BY <1>0, <1>25, BlamingNobody DEF Sweep, history, disk
<1>26. CASE Crash
  BY <1>0, <1>26, BlamingNobody DEF Crash, history, disk
<1>27. CASE Entrants
  <2>1. astray \subseteq astray' /\ records' = records
    BY <1>27 DEF Entrants, Answer, Blurt, Exit, disk
  <2> QED
    BY <1>0, <2>1, BlamingNobody
<1> QED
  BY <1>1, <1>2, <1>3, <1>4, <1>5, <1>6, <1>7, <1>8, <1>9, <1>10, <1>11, <1>12, <1>13, <1>14, <1>15, <1>16, <1>17, <1>18, <1>19, <1>20, <1>21, <1>22, <1>23, <1>24, <1>25, <1>26, <1>27 DEF Next, Referee
\* The answer of a seat in step is the answer to the request.
LEMMA MisreadStep ==
  ASSUME TurnsTyped, RulingsRecorded, SeatsInStep, Next
  PROVE  misread' \subseteq astray'
<1>1. misread \subseteq astray
  BY ChargedParts DEF SeatsInStep
<1>2. CASE Hear
  <2>1. CASE seat \in astray
    BY <1>1, <1>2, <2>1 DEF Hear
  <2>2. CASE seat \notin astray
    <3>1. PICK m \in Moves : queue[seat] = <<MoveLine(m, turn)>>
      BY <1>2, <2>2, GoodSeatAnswers, TypedParts DEF Hear, Heard, RefereeTyped
    <3>2. Head(queue[seat]).about = turn
      BY <3>1, Singletons DEF MoveLine
    <3> QED
      BY <1>1, <1>2, <3>2 DEF Hear
  <2> QED
    BY <2>1, <2>2
<1>3. CASE ~Hear
  <2>1. misread' = misread
    BY <1>3 DEF Next, Referee, Open, Greet, HearReady, HandshakeForfeit, HandshakeDiagnosis,
        HandshakeFault, OpeningState, GameOver, BoundExceeded, Ask, MoveForfeit, Charge, Accept,
        Reject, RejectForfeit, Advance, RefereeFault, PlayFault, Score, ScoreFault, Commit,
        Report, CloseEntrants, Sweep, Entrants, Answer, Blurt, Exit, Crash, history
  <2>2. astray \subseteq astray'
    BY BlameStep
  <2> QED
    BY <1>1, <2>1, <2>2
<1> QED
  BY <1>2, <1>3

\* Where nothing is asked any more, seats may do what they like.
LEMMA OutOfTouch ==
  ASSUME pc' \in Unbinding \union {"score", "charged", "handshake_fault", "handshake_charged"}
  PROVE  (\A s \in Seats : Keeping(s)') /\ pc' # "rejected"
  BY DEF Keeping, InTouch, Asking, Unbinding, BeforePlay

\* A seat that stays on the right side keeps in step with the referee.
LEMMA KeepingStep ==
  ASSUME TurnsTyped, RulingsRecorded, SeatsInStep, Next, NEW s \in Seats, s \notin astray'
  PROVE  Keeping(s)'
<1> USE TypedParts
<1>0. Keeping(s) /\ s \notin astray
  BY BlameStep DEF SeatsInStep
<1> DEFINE Calm == inbox[s] = <<>> /\ queue[s] = <<>>
<1>01. InTouch /\ ~Asked(s) => Calm
  BY <1>0 DEF Keeping, InStep
<1>1. CASE Open
  <2>1. pc = "open" /\ pc' \in {"greet", "unwind"} /\ UNCHANGED <<seat, inbox, queue, process>>
    BY <1>1, Recording, Faulting DEF Open, seats
  <2> QED
    BY <1>0, <2>1 DEF Keeping, InTouch, Asking, InStep, Asked, Greeted
<1>2. CASE Greet
  <2>1. CASE pc' = "handshake_fault"
    BY <2>1, OutOfTouch
  <2>2. CASE /\ pc = "greet" /\ pc' = "handshake" /\ UNCHANGED <<seat, queue>>
             /\ process' = [process EXCEPT ![seat] = "running"]
             /\ inbox' = [inbox EXCEPT ![seat] = Append(@, Hello)]
    <3>1. Calm
      BY <1>01, <2>2 DEF InTouch, Asked
    <3>2. CASE s = seat
      <4>1. inbox'[s] = <<Hello>> /\ queue'[s] = <<>> /\ process'[s] = "running"
        BY <2>2, <3>1, <3>2, Singletons DEF SeatsTyped
      <4> QED
        BY <2>2, <3>2, <4>1 DEF Keeping, InTouch, Asking, InStep, Asked, Greeted, Hello
    <3>3. CASE s # seat
      <4>1. inbox'[s] = <<>> /\ queue'[s] = <<>> /\ process'[s] = process[s]
        BY <2>2, <3>1, <3>3 DEF SeatsTyped, RefereeTyped
      <4> QED
        BY <1>0, <2>2, <3>3, <4>1 DEF Keeping, InTouch, Asking, InStep, Asked, Greeted
    <3> QED
      BY <3>2, <3>3
  <2> QED
    BY <1>2, <2>1, <2>2, Going, Faulting DEF Greet
<1>3. CASE HearReady
  <2>1. CASE pc' = "handshake_fault"
    BY <2>1, OutOfTouch
  <2>2. CASE /\ pc = "handshake" /\ pc' = (IF seat = 0 THEN "greet" ELSE "opening") /\ seat' = 1
             /\ UNCHANGED <<inbox, process>> /\ Pop /\ ~Silent
    <3>1. inbox'[s] = <<>> /\ queue'[s] = <<>>
      <4>1. CASE s = seat
        <5>1. \E line \in Answers(s) : queue[s] = <<line>> /\ inbox[s] = <<>>
          BY <1>0, <2>2, <4>1 DEF Keeping, InTouch, InStep, Asked, Silent
        <5> QED
          BY <2>2, <4>1, <5>1, Singletons DEF Pop, SeatsTyped
      <4>2. CASE s # seat
        <5>1. Calm
          BY <1>01, <2>2, <4>2 DEF InTouch, Asked
        <5> QED
          BY <2>2, <4>2, <5>1 DEF Pop, SeatsTyped, RefereeTyped
      <4> QED
        BY <4>1, <4>2
    <3>2. Greeted(s)' => process[s] = "running"
      BY <1>0, <2>2 DEF Keeping, InTouch, Greeted, Asking, Seats, RefereeTyped
    <3> QED
      BY <2>2, <3>1, <3>2 DEF Keeping, InTouch, Asking, InStep, Asked
  <2> QED
    BY <1>3, <2>1, <2>2, Chaining, Losing DEF HearReady, Heard
<1>4. CASE HandshakeForfeit
  BY <1>4, Recording, OutOfTouch, UnboundNames DEF HandshakeForfeit
<1>5. CASE HandshakeDiagnosis
  <2>1. CASE pc' = "unwind"
    BY <2>1, OutOfTouch, UnboundNames
  <2>2. CASE pc' = "opening" /\ outcome' = outcome
    <3>1. outcome # Nobody
      BY <1>5, RuledByStage, OutcomesAreRecords DEF HandshakeDiagnosis
    <3> QED
      BY <2>2, <3>1 DEF Keeping, InTouch, Asking
  <2> QED
    BY <1>5, <2>1, <2>2, Going, Faulting DEF HandshakeDiagnosis
<1>6. CASE HandshakeFault
  <2>1. CASE pc' = "unwind"
    BY <2>1, OutOfTouch, UnboundNames
  <2>2. CASE pc' = "opening" /\ outcome' = Void
    <3>1. outcome' # Nobody
      BY <2>2, MatchAssumption DEF Void, Outcome, Reasons
    <3> QED
      BY <2>2, <3>1 DEF Keeping, InTouch, Asking
  <2> QED
    BY <1>6, <2>1, <2>2, Recording DEF HandshakeFault, Ruled
<1>7. CASE OpeningState
  <2>1. CASE pc' \in {"score", "unwind"}
    BY <2>1, OutOfTouch, UnboundNames
  <2>2. CASE pc = "opening" /\ outcome = Nobody /\ pc' = "turn" /\ UNCHANGED <<seat, inbox, queue, process>>
    BY <1>0, <2>2 DEF Keeping, InTouch, Asking, InStep, Asked, Greeted
  <2> QED
    BY <1>7, <2>1, <2>2, Recording DEF OpeningState, seats
<1>8. CASE GameOver
  BY <1>8, Going, OutOfTouch DEF GameOver
<1>9. CASE BoundExceeded
  BY <1>9, Recording, OutOfTouch, UnboundNames DEF BoundExceeded
<1>10. CASE Ask
  <2>1. CASE pc' \in {"charged", "fault"}
    BY <2>1, OutOfTouch, UnboundNames
  <2>2. CASE /\ pc = "turn" /\ pc' = "await" /\ UNCHANGED <<queue, process, position, turn>>
             /\ inbox' = [inbox EXCEPT ![seat'] = Append(@, MoveRequest)]
    <3>0. seat' \in Seats
      BY <1>10, GameAssumption DEF Ask, RefereeTyped
    <3>1. Calm /\ process[s] = "running"
      BY <1>0, <1>01, <2>2 DEF InTouch, Asked, Keeping, Greeted
    <3>2. CASE s = seat'
      <4>1. inbox'[s] = <<MoveRequest>> /\ queue'[s] = <<>>
        BY <2>2, <3>1, <3>2, Singletons DEF SeatsTyped
      <4>2. MoveRequest' = MoveRequest
        BY <2>2 DEF MoveRequest
      <4> QED
        BY <2>2, <3>1, <3>2, <4>1, <4>2 DEF Keeping, InTouch, Asking, InStep, Asked
    <3>3. CASE s # seat'
      <4>1. inbox'[s] = <<>> /\ queue'[s] = <<>>
        BY <2>2, <3>0, <3>1, <3>3 DEF SeatsTyped
      <4> QED
        BY <2>2, <3>1, <3>3, <4>1 DEF Keeping, InTouch, Asking, InStep, Asked
    <3> QED
      BY <3>2, <3>3
  <2> QED
    BY <1>10, <2>1, <2>2, Going, Recording DEF Ask
<1>11. CASE Hear
  <2>1. /\ pc = "await" /\ pc' = "judge" /\ Pop /\ ~Silent /\ reply' = Head(queue[seat]).move
        /\ UNCHANGED <<seat, position, turn, inbox, process>>
    BY <1>11, Going DEF Hear, Heard
  <2>2. process[s] = "running"
    BY <1>0, <2>1 DEF Keeping, InTouch, Asking, Greeted
  <2>3. CASE s = seat
    <3>1. PICK m \in Moves : Legal(position, m) /\ queue[s] = <<MoveLine(m, turn)>>
      BY <1>0, <2>1, <2>3, GoodSeatAnswers
    <3>2. inbox[s] = <<>>
      BY <1>0, <2>1, <3>1, Singletons DEF Keeping, InTouch, Asking, InStep, Asked
    <3>3. reply' = m /\ queue'[s] = <<>>
      BY <2>1, <2>3, <3>1, Singletons DEF MoveLine, Pop, SeatsTyped
    <3> QED
      BY <2>1, <2>2, <3>1, <3>2, <3>3 DEF Keeping, InTouch, Asking, InStep, Asked
  <2>4. CASE s # seat
    <3>1. Calm
      BY <1>01, <2>1, <2>4 DEF InTouch, Asking, Asked
    <3>2. inbox'[s] = <<>> /\ queue'[s] = <<>>
      BY <2>1, <2>4, <3>1 DEF Pop, SeatsTyped, RefereeTyped
    <3> QED
      BY <2>1, <2>2, <2>4, <3>2 DEF Keeping, InTouch, Asking, InStep, Asked
  <2> QED
    BY <2>3, <2>4
<1>12. CASE MoveForfeit
  BY <1>12, Recording, OutOfTouch, UnboundNames DEF MoveForfeit
<1>13. CASE Charge
  BY <1>13, Going, OutOfTouch DEF Charge
<1>14. CASE Accept \/ Reject
  <2>1. CASE pc' = "fault"
    BY <2>1, OutOfTouch, UnboundNames
  <2>2. CASE pc = "judge" /\ pc' \in {"apply", "rejected"} /\ UNCHANGED <<seat, inbox, queue, process>>
    BY <1>0, <2>2 DEF Keeping, InTouch, Asking, InStep, Asked, Greeted
  <2> QED
    BY <1>14, <2>1, <2>2, Recording DEF Accept, Reject, seats
<1>15. CASE RejectForfeit
  BY <1>15, Recording, OutOfTouch, UnboundNames DEF RejectForfeit
<1>16. CASE Advance
  <2>1. CASE pc' = "fault"
    BY <2>1, OutOfTouch, UnboundNames
  <2>2. CASE pc = "apply" /\ pc' = "turn" /\ UNCHANGED <<seat, inbox, queue, process>>
    BY <1>0, <2>2 DEF Keeping, InTouch, Asking, InStep, Asked, Greeted
  <2> QED
    BY <1>16, <2>1, <2>2, Recording DEF Advance, seats
<1>17. CASE RefereeFault
  BY <1>17, Faulting, OutOfTouch, UnboundNames DEF RefereeFault
<1>18. CASE PlayFault
  BY <1>18, Recording, OutOfTouch, UnboundNames DEF PlayFault
<1>19. CASE Score
  <2>1. CASE pc' = "commit"
    BY <2>1 DEF Keeping, InTouch, Asking
  <2>2. CASE pc' = "score_fault"
    BY <2>2, OutOfTouch, UnboundNames
  <2> QED
    BY <1>19, <2>1, <2>2, Going, Faulting DEF Score
<1>20. CASE ScoreFault
  BY <1>20, Recording, Going, OutOfTouch, UnboundNames DEF ScoreFault
<1>21. CASE Commit
  BY <1>21, Recording, OutOfTouch, UnboundNames DEF Commit
<1>22. CASE Report \/ CloseEntrants \/ Sweep \/ Crash
  BY <1>22, Going, OutOfTouch, UnboundNames DEF Report, CloseEntrants, Sweep, Crash
<1>23. ASSUME NEW q \in Seats, Answer(q)
       PROVE  Keeping(s)'
  <2>0. UNCHANGED <<pc, seat, position, turn, reply, outcome, process>>
    BY <1>23 DEF Answer, referee
  <2>1. CASE q # s
    <3>1. inbox'[s] = inbox[s] /\ queue'[s] = queue[s]
      BY <1>23, <2>1 DEF Answer, Says, SeatsTyped
    <3> QED
      BY <1>0, <2>0, <3>1
         DEF Keeping, InTouch, InStep, Asked, Answers, Greeted, MoveRequest
  <2>2. CASE q = s /\ ~InTouch
    BY <1>0, <2>0, <2>2 DEF Keeping, InTouch
  <2>3. CASE q = s /\ InTouch
    <3>1. PICK request : request = Head(inbox[s])
      OBVIOUS
    <3>2. /\ Asked(s) /\ inbox[s] # <<>> /\ process[s] = "running"
          /\ queue[s] = <<>> /\ inbox[s] = <<request>>
          /\ request = IF pc = "handshake" THEN Hello ELSE MoveRequest
      BY <1>0, <1>23, <2>3, <3>1, Singletons DEF Answer, Keeping, InStep
    <3>3. inbox'[s] = <<>>
      BY <1>23, <2>3, <3>2, Singletons DEF Answer, SeatsTyped
    <3>4. PICK line \in Answers(s) : Says(s, line)
      <4>1. CASE pc = "handshake"
        BY <1>23, <2>3, <3>1, <3>2, <4>1 DEF Answer, Answers
      <4>2. CASE pc = "await"
        <5>1. request = MoveRequest /\ request # Hello
          BY <3>2, <4>2, MatchAssumption DEF MoveRequest, Hello, RefereeTyped
        <5>2. PICK m \in Moves :
                /\ Says(s, MoveLine(m, request.turn))
                /\ astray' = IF Legal(request.position, m) THEN astray ELSE astray \union {s}
          BY <1>23, <2>3, <3>1, <5>1 DEF Answer
        <5>3. request.turn = turn /\ request.position = position
          BY <5>1 DEF MoveRequest
        <5>4. Legal(position, m)
          BY <5>2, <5>3
        <5> QED
          BY <4>2, <5>2, <5>3, <5>4 DEF Answers
      <4> QED
        BY <3>2, <4>1, <4>2 DEF Asked
    <3>5. queue'[s] = <<line>>
      BY <3>2, <3>4, Singletons DEF Says, SeatsTyped
    <3>6. line \in Answers(s)' /\ Asked(s)'
      BY <2>0, <3>2, <3>4 DEF Answers, Asked
    <3>7. InStep(s)'
      BY <3>3, <3>5, <3>6 DEF InStep
    <3> QED
      BY <1>0, <2>0, <3>2, <3>7 DEF Keeping, InTouch, Asked
  <2> QED
    BY <2>1, <2>2, <2>3
<1>24. ASSUME NEW q \in Seats, Blurt(q) \/ Exit(q)
       PROVE  Keeping(s)'
  <2>1. q # s
    BY <1>24 DEF Blurt, Exit
  <2>2. UNCHANGED <<pc, seat, position, turn, reply, outcome>>
    BY <1>24 DEF Blurt, Exit, referee
  <2>3. inbox'[s] = inbox[s] /\ queue'[s] = queue[s] /\ process'[s] = process[s]
    BY <1>24, <2>1 DEF Blurt, Exit, Says, SeatsTyped
  <2> QED
    BY <1>0, <2>2, <2>3 DEF Keeping, InTouch, InStep, Asked, Answers, Greeted, MoveRequest
<1> QED
  BY <1>1, <1>2, <1>3, <1>4, <1>5, <1>6, <1>7, <1>8, <1>9, <1>10, <1>11, <1>12, <1>13, <1>14, <1>15, <1>16, <1>17, <1>18, <1>19, <1>20, <1>21, <1>22, <1>23, <1>24 DEF Next, Referee, Entrants
\* Every step keeps the good seats in step with the referee.
LEMMA SeatsInStepStep ==
  ASSUME TurnsTyped, RulingsRecorded, SeatsInStep, Next
  PROVE  SeatsInStep'
<1>1. \A s \in Seats \ astray' : Keeping(s)'
  BY KeepingStep
<1>2. pc' = "rejected" => seat' \in astray'
  <2>1. CASE Reject
    <3>1. seat \in astray /\ seat' = seat /\ astray' = astray
      BY <2>1 DEF Reject, SeatsInStep, Keeping, TurnsTyped, history
    <3> QED
      BY <3>1
  <2>2. CASE Entrants
    <3>1. pc' = pc /\ seat' = seat
      BY <2>2 DEF Entrants, Answer, Blurt, Exit, referee
    <3> QED
      BY <3>1, BlameStep DEF SeatsInStep
  <2>3. CASE ~Reject /\ ~Entrants
    <3>1. pc' # "rejected"
      BY <2>3 DEF Next, Referee, Open, Greet, HearReady, HandshakeForfeit, HandshakeDiagnosis,
          HandshakeFault, OpeningState, GameOver, BoundExceeded, Ask, Hear, MoveForfeit, Charge,
          Accept, RejectForfeit, Advance, RefereeFault, PlayFault, Score, ScoreFault, Commit,
          Report, CloseEntrants, Sweep, Crash, Record, Fault, Goto
    <3> QED
      BY <3>1
  <2> QED
    BY <2>1, <2>2, <2>3
<1>3. GoodSeatIsNeverCharged'
  BY BlameStep, MisreadStep DEF GoodSeatIsNeverCharged, Blamed
<1> QED
  BY <1>1, <1>2, <1>3 DEF SeatsInStep

------------------------------------------------------------------------------
\* The queues are empty at first.
LEMMA InitialQueues ==
  ASSUME NEW S
  PROVE  0 \in Seats /\ [s \in Seats |-> <<>>] \in [Seats -> Seq(S)]
  BY DEF Seats

\* The invariant holds at first and is kept by every step.
LEMMA TurnsInit == Init => TurnsInv
<1> SUFFICES ASSUME Init
             PROVE  TurnsInv
  OBVIOUS
<1>1. records = <<>> /\ \A k : ~Has(records, k)
  BY DEF Init, Has
<1>2. ~Committed /\ ~Voided /\ ~Forfeited /\ ~Placed
  BY <1>1 DEF Committed, Voided, Forfeited, Placed
<1>3. TurnsTyped
  <2>1. records \in Seq({records[i] : i \in DOMAIN records})
    BY <1>1
  <2> QED
    BY <2>1, MatchAssumption, GameAssumption, InitialQueues DEF Init, TurnsTyped, Stages
<1>4. TurnsClosed /\ FaultsRecorded
  BY <1>2 DEF Init, TurnsClosed, FaultsRecorded, FaultNeverDecides, Swept
<1>5. RulingsRecorded
  BY <1>2 DEF Init, RulingsRecorded, BoardKnown, OpeningRuled, PlayRuled, BeforePlay, Asking,
              Undecided, Uncharged
<1>6. SeatsInStep
  BY <1>1 DEF Init, SeatsInStep, Keeping, GoodSeatIsNeverCharged, InStep, Asked, Greeted, Asking
<1> QED
  BY <1>3, <1>4, <1>5, <1>6 DEF TurnsInv

\* Every step keeps the invariant of the match.
LEMMA TurnsStep ==
  ASSUME TurnsInv, [Next]_vars
  PROVE  TurnsInv'
<1>1. CASE Next
  <2>1. pc = "apply" => Legal(position, reply) /\ turn < Bound
    BY DEF TurnsInv, RulingsRecorded, PlayRuled, Asking
  <2>2. TurnsTyped'
    BY <1>1, <2>1, TypedParts, DiskTypedStep, RefereeTypedStep, SeatsTypedStep
       DEF TurnsInv, TurnsTyped, DiskTyped, RefereeTyped, SeatsTyped
  <2>3. TurnsClosed' /\ FaultsRecorded' /\ RulingsRecorded' /\ SeatsInStep'
    BY <1>1, ClosedStep, FaultsRecordedStep, RulingsStep, SeatsInStepStep DEF TurnsInv
  <2> QED
    BY <2>2, <2>3 DEF TurnsInv
<1>2. CASE UNCHANGED vars
  <2>1. TurnsTyped' /\ (Committed' <=> Committed) /\ (Voided' <=> Voided)
        /\ (Forfeited' <=> Forfeited) /\ (Placed' <=> Placed)
    BY <1>2 DEF TurnsInv, TurnsTyped, vars, Committed, Voided, Forfeited, Placed, Has
  <2>2. TurnsClosed' /\ FaultsRecorded'
    BY <1>2, <2>1 DEF TurnsInv, TurnsClosed, FaultsRecorded, FaultNeverDecides, vars, Last, MovesOf
  <2>3. RulingsRecorded'
    BY <1>2, <2>1 DEF TurnsInv, RulingsRecorded, BoardKnown, OpeningRuled, PlayRuled, vars, LastStateAt,
       Undecided, Uncharged, Defaulted, Annulled, Pending, OnlyForfeitAt, Answerable, OnBoard, Decided, Last
  <2>4. SeatsInStep'
    BY <1>2 DEF TurnsInv, SeatsInStep, Keeping, InTouch, InStep, Asked, Answers, Greeted, MoveRequest,
       GoodSeatIsNeverCharged, vars
  <2> QED
    BY <2>1, <2>2, <2>3, <2>4 DEF TurnsInv
<1> QED
  BY <1>1, <1>2

\* What a match is at every stage (run_match): what it holds, what it has decided
\* against what is on record, and where its seats are.
THEOREM MatchInvariant == Spec => []TurnsInv
  BY TurnsInit, TurnsStep, PTL DEF Spec

\* A match that is over left no entrant running, and a file exactly with a result
\* (the finally block of run_match).
THEOREM NothingLeft == Spec => []NothingIsLeftBehind
<1>1. TurnsInv => NothingIsLeftBehind
  BY DEF TurnsInv, TurnsClosed, NothingIsLeftBehind, Swept
<1> QED
  BY <1>1, MatchInvariant, PTL

\* After a fault of the referee the committed result is a void (the handlers of
\* run_match), whatever had been ruled before.
THEOREM FaultsNeverDecide == Spec => []FaultNeverDecides
<1>1. TurnsInv => FaultNeverDecides
  BY DEF TurnsInv, FaultsRecorded
<1> QED
  BY <1>1, MatchInvariant, PTL

\* score, which sees only the records, agrees with the play loop.
THEOREM ScorerAgreement == Spec => []ScorerAgrees
<1>1. TurnsInv => ScorerAgrees
  BY ScorerAgreesHere DEF TurnsInv
<1> QED
  BY <1>1, MatchInvariant, PTL

\* A seat that keeps to the protocol is never charged with anything.
THEOREM GoodSeats == Spec => []GoodSeatIsNeverCharged
<1>1. TurnsInv => GoodSeatIsNeverCharged
  BY DEF TurnsInv, SeatsInStep
<1> QED
  BY <1>1, MatchInvariant, PTL

------------------------------------------------------------------------------
(* A match is an adjudicated game.                                           *)
\* The last position on record is the position of the referee.
LEMMA BoardIsPosition ==
  ASSUME TurnsTyped, OnBoard
  PROVE  LastBoard = position /\ Placed
<1>1. PICK i \in DOMAIN records : LastStateAt(records, i) /\ records[i] = State(position, turn)
  BY DEF OnBoard
<1>2. Placed /\ LastOf(records, "state") = records[i]
  BY <1>1, LastStateIsLast DEF TurnsTyped, IsSeq, Placed
<1> QED
  BY <1>1, <1>2 DEF LastBoard, State, Placed

\* The last position on record is the position of the referee.
LEMMA BoardIsPositionNext ==
  ASSUME DiskTyped', OnBoard'
  PROVE  LastBoard' = position'
<1>1. PICK told : told = records'
  OBVIOUS
<1>2. PICK i \in DOMAIN told : LastStateAt(told, i) /\ told[i] = State(position', turn')
  BY <1>1 DEF OnBoard, LastStateAt
<1>3. LastOf(told, "state") = told[i] /\ Has(told, "state")
  BY <1>1, <1>2, LastStateIsLast DEF DiskTyped, IsSeq
<1>4. LastBoard' = LastOf(told, "state").position
  BY <1>1, <1>3 DEF LastBoard, LastOf, Has
<1> QED
  BY <1>2, <1>3, <1>4 DEF State

\* Only a state record moves the last position on record.
LEMMA BoardStays ==
  ASSUME TurnsTyped, DiskTyped', BoardKnown, NEW r, Appended(records', r), r.kind # "state"
  PROVE  LastBoard' = LastBoard
<1> USE TypedParts
<1>1. Placed' <=> Placed
  BY Knowing
<1>2. CASE ~Placed
  BY <1>1, <1>2 DEF LastBoard, Placed
<1>3. CASE Placed
  <2>1. PICK told : told = records'
    OBVIOUS
  <2>2. Appended(told, r) /\ IsSeq(records) /\ IsSeq(told)
    BY <2>1 DEF DiskTyped, IsSeq
  <2>3. PICK i \in DOMAIN records : LastStateAt(records, i)
    BY <1>3 DEF BoardKnown
  <2>4. i \in DOMAIN told /\ told[i] = records[i] /\ LastStateAt(told, i)
    BY <2>2, <2>3, Placing
  <2>5. LastOf(told, "state") = LastOf(records, "state") /\ Has(told, "state") /\ Has(records, "state")
    BY <2>2, <2>3, <2>4, LastStateIsLast
  <2> QED
    BY <2>1, <2>5 DEF LastBoard, LastOf, Has
<1> QED
  BY <1>2, <1>3

\* Without a new record nothing is published.
LEMMA NothingPublished ==
  ASSUME records' = records
  PROVE  LastBoard' = LastBoard /\ Published' = Published
  BY DEF LastBoard, Published, Committed, Has, LastOf, Last

\* Records other than states and results are no steps of the promise.
LEMMA RecordedInside ==
  ASSUME TurnsTyped, BoardKnown, ~Committed, NEW r, r.kind \notin {"state", "result"},
         NEW next, NEW handler, Record(r, next, handler)
  PROVE  LastBoard' = LastBoard /\ Published' = Published
<1>1. CASE records' = records
  BY <1>1, NothingPublished
<1>2. CASE Appended(records', r)
  BY <1>2, BoardStays, Knowing, Recording, TypedParts DEF Published
<1> QED
  BY <1>1, <1>2, Recording, TypedParts
\* Every step of a match is a step of the adjudicated game or none.
LEMMA PromiseStep ==
  ASSUME TurnsInv, [Next]_vars
  PROVE  [Adjudged!Next]_(Adjudged!vars)
<1> USE TypedParts DEF TurnsInv
<1> DEFINE Same == LastBoard' = LastBoard /\ Published' = Published
<1>0. /\ BoardKnown
      /\ pc \notin AfterResult => ~Committed
  BY DEF RulingsRecorded, TurnsClosed
<1>01. Same => [Adjudged!Next]_(Adjudged!vars)
  BY DEF Adjudged!vars
<1>02. ~Committed => Published = Nobody
  BY DEF Published
<1> HIDE DEF Same
<1>1. CASE Open
  <2>1. PICK r : r = Header
    OBVIOUS
  <2>2. r.kind = "header" /\ ~Committed
    BY <1>0, <1>1, <2>1 DEF Open, Header, AfterResult, Swept
  <2>3. CASE Record(r, "greet", "unwind")
    BY <1>0, <1>01, <2>2, <2>3, RecordedInside DEF Same
  <2>4. CASE Fault("unwind")
    BY <1>01, <2>4, Faulting, NothingPublished DEF Same
  <2> QED
    BY <1>1, <2>1, <2>3, <2>4 DEF Open
<1>2. CASE Greet
  BY <1>01, <1>2, Going, Faulting, NothingPublished DEF Greet, Same, disk
<1>3. CASE HearReady
  <2>1. PICK r : r = Ready(seat)
    OBVIOUS
  <2>2. r.kind = "ready" /\ ~Committed /\ (Appended(records', r) \/ records' = records) /\ DiskTyped'
    BY <1>0, <1>3, <2>1, Chaining, Losing DEF HearReady, Ready, AfterResult, Swept
  <2>3. CASE Appended(records', r)
    BY <1>0, <1>01, <2>2, <2>3, BoardStays, Knowing DEF Same, Published
  <2>4. CASE records' = records
    BY <1>01, <2>4, NothingPublished DEF Same
  <2> QED
    BY <2>2, <2>3, <2>4
<1>4. CASE HandshakeForfeit
  <2>1. PICK why \in Offences : Record(Forfeit(seat, why, Nobody), "handshake_charged", "unwind")
    BY <1>4 DEF HandshakeForfeit
  <2>2. PICK r : r = Forfeit(seat, why, Nobody)
    OBVIOUS
  <2>3. r.kind = "forfeit" /\ ~Committed
    BY <1>0, <1>4, <2>2 DEF HandshakeForfeit, Forfeit, AfterResult, Swept
  <2> QED
    BY <1>0, <1>01, <2>1, <2>2, <2>3, RecordedInside DEF Same
<1>5. CASE HandshakeDiagnosis
  BY <1>01, <1>5, Going, Faulting, NothingPublished DEF HandshakeDiagnosis, Same, disk
<1>6. CASE HandshakeFault
  <2>1. PICK r : r = EngineError("handshake_failed")
    OBVIOUS
  <2>2. r.kind = "engine_error" /\ Record(r, "opening", "unwind") /\ ~Committed
    BY <1>0, <1>6, <2>1 DEF HandshakeFault, EngineError, AfterResult, Swept
  <2> QED
    BY <1>0, <1>01, <2>2, RecordedInside DEF Same
<1>7. CASE OpeningState
  <2>1. PICK next : Record(State(position, 0), next, "unwind")
    BY <1>7 DEF OpeningState
  <2>2. PICK r : r = State(position, 0)
    OBVIOUS
  <2>3. position = Opening /\ turn = 0 /\ ~Placed /\ ~Committed /\ UNCHANGED <<position, turn>>
    BY <1>0, <1>7 DEF OpeningState, RulingsRecorded, OpeningRuled, BeforePlay, AfterResult, Swept
  <2>4. CASE Appended(records', r)
    <3>1. r.kind = "state" /\ r = State(position', turn')
      BY <2>2, <2>3 DEF State
    <3>2. LastBoard' = position' /\ ~Committed'
      BY <2>1, <2>2, <2>3, <2>4, <3>1, BoardRecorded, BoardIsPositionNext, Recording, Knowing
    <3>3. LastBoard = Opening
      BY <2>3 DEF LastBoard, Placed
    <3> QED
      BY <1>01, <2>3, <3>2, <3>3 DEF Same, Published
  <2>5. CASE records' = records
    BY <1>01, <2>5, NothingPublished DEF Same
  <2> QED
    BY <2>1, <2>2, <2>4, <2>5, Recording
<1>8. CASE GameOver
  BY <1>01, <1>8, Going, Faulting, NothingPublished DEF GameOver, Same, disk
<1>9. CASE BoundExceeded
  <2>1. PICK r : r = Abort
    OBVIOUS
  <2>2. r.kind = "abort" /\ Record(r, "score", "fault") /\ ~Committed
    BY <1>0, <1>9, <2>1 DEF BoundExceeded, Abort, AfterResult, Swept
  <2> QED
    BY <1>0, <1>01, <2>2, RecordedInside DEF Same
<1>10. CASE Ask
  <2>1. CASE Goto("await")
    BY <1>01, <2>1, Going, NothingPublished DEF Same
  <2>2. ASSUME NEW why, Record(Forfeit(seat', why, turn), "charged", "fault")
        PROVE  [Adjudged!Next]_(Adjudged!vars)
    <3>1. PICK r : r = Forfeit(seat', why, turn)
      OBVIOUS
    <3>2. r.kind = "forfeit" /\ ~Committed
      BY <1>0, <1>10, <3>1 DEF Ask, Forfeit, AfterResult, Swept
    <3> QED
      BY <1>0, <1>01, <2>2, <3>1, <3>2, RecordedInside DEF Same
  <2> QED
    BY <1>10, <2>1, <2>2 DEF Ask
<1>11. CASE Hear
  BY <1>01, <1>11, Going, Faulting, NothingPublished DEF Hear, Same, disk
<1>12. CASE MoveForfeit
  <2>1. PICK why \in Offences : Record(Forfeit(seat, why, turn), "charged", "fault")
    BY <1>12 DEF MoveForfeit
  <2>2. PICK r : r = Forfeit(seat, why, turn)
    OBVIOUS
  <2>3. r.kind = "forfeit" /\ ~Committed
    BY <1>0, <1>12, <2>2 DEF MoveForfeit, Forfeit, AfterResult, Swept
  <2> QED
    BY <1>0, <1>01, <2>1, <2>2, <2>3, RecordedInside DEF Same
<1>13. CASE Charge
  BY <1>01, <1>13, Going, Faulting, NothingPublished DEF Charge, Same, disk
<1>14. CASE Accept
  <2>1. PICK r : r = Move(seat, turn, reply, TRUE)
    OBVIOUS
  <2>2. r.kind = "move" /\ Record(r, "apply", "fault") /\ ~Committed
    BY <1>0, <1>14, <2>1 DEF Accept, Move, AfterResult, Swept
  <2> QED
    BY <1>0, <1>01, <2>2, RecordedInside DEF Same
<1>15. CASE Reject
  <2>1. PICK r : r = Move(seat, turn, reply, FALSE)
    OBVIOUS
  <2>2. r.kind = "move" /\ Record(r, "rejected", "fault") /\ ~Committed
    BY <1>0, <1>15, <2>1 DEF Reject, Move, AfterResult, Swept
  <2> QED
    BY <1>0, <1>01, <2>2, RecordedInside DEF Same
<1>16. CASE RejectForfeit
  <2>1. PICK r : r = Forfeit(seat, "illegal_move", turn)
    OBVIOUS
  <2>2. r.kind = "forfeit" /\ Record(r, "score", "fault") /\ ~Committed
    BY <1>0, <1>16, <2>1 DEF RejectForfeit, Forfeit, AfterResult, Swept
  <2> QED
    BY <1>0, <1>01, <2>2, RecordedInside DEF Same
<1>17. CASE Advance
  <2>1. /\ Record(State(position', turn'), "turn", "fault")
        /\ position' = Apply(position, reply) /\ ~Committed
    BY <1>0, <1>17 DEF Advance, AfterResult, Swept
  <2>2. PICK r : r = State(position', turn')
    OBVIOUS
  <2>3. /\ OnBoard /\ ~Over(position) /\ Legal(position, reply) /\ reply \in Moves
        /\ LastBoard = position
    BY <1>17, GameAssumption, BoardIsPosition
       DEF Advance, RulingsRecorded, PlayRuled, Asking, RefereeTyped
  <2>4. CASE Appended(records', r)
    <3>1. r.kind = "state"
      BY <2>2 DEF State
    <3>2. LastBoard' = position' /\ ~Committed'
      BY <2>1, <2>2, <2>4, <3>1, BoardRecorded, BoardIsPositionNext, Recording, Knowing
    <3>3. Adjudged!Play(reply)
      BY <2>1, <2>3, <3>2 DEF Adjudged!Play, Published
    <3> QED
      BY <2>3, <3>3 DEF Adjudged!Next
  <2>5. CASE records' = records
    BY <1>01, <2>5, NothingPublished DEF Same
  <2> QED
    BY <2>1, <2>2, <2>4, <2>5, Recording
<1>18. CASE RefereeFault
  BY <1>01, <1>18, Going, Faulting, NothingPublished DEF RefereeFault, Same, disk
<1>19. CASE PlayFault
  <2>1. PICK r : r = EngineError("referee_fault")
    OBVIOUS
  <2>2. r.kind = "engine_error" /\ Record(r, "score", "unwind") /\ ~Committed
    BY <1>0, <1>19, <2>1 DEF PlayFault, EngineError, AfterResult, Swept
  <2> QED
    BY <1>0, <1>01, <2>2, RecordedInside DEF Same
<1>20. CASE Score
  BY <1>01, <1>20, Going, Faulting, NothingPublished DEF Score, Same, disk
<1>21. CASE ScoreFault
  <2>1. PICK r : r = EngineError("referee_fault")
    OBVIOUS
  <2>2. r.kind = "engine_error" /\ ~Committed
    BY <1>0, <1>21, <2>1 DEF ScoreFault, EngineError, AfterResult, Swept
  <2>3. CASE Goto("commit_void")
    BY <1>01, <2>3, Going, NothingPublished DEF Same
  <2>4. CASE Record(r, "commit_void", "unwind")
    BY <1>0, <1>01, <2>2, <2>4, RecordedInside DEF Same
  <2> QED
    BY <1>21, <2>1, <2>3, <2>4 DEF ScoreFault
<1>22. CASE Commit
  <2>1. PICK r : r = Result(Scored, MovesOf(records))
    OBVIOUS
  <2>2. /\ r.kind = "result" /\ r.winner = Scored.winner /\ r.reason = Scored.reason
        /\ Record(r, "close", "unwind") /\ ~Committed
    BY <1>0, <1>22, <2>1 DEF Commit, Result, AfterResult, Swept
  <2>3. CASE Appended(records', r)
    <3>1. LastBoard' = LastBoard
      BY <1>0, <2>2, <2>3, BoardStays, Recording
    <3>2. Published = Nobody /\ Published' = Outcome(Scored.winner, Scored.reason)
      BY <2>2, <2>3, Knowing DEF Published
    <3>3. CASE Scored = Void
      <4>1. Adjudged!Annul
        BY <3>1, <3>2, <3>3 DEF Adjudged!Annul, Adjudged!Decide, Void, Outcome
      <4> QED
        BY <4>1 DEF Adjudged!Next
    <3>4. CASE pc = "commit" /\ ~Annulled
      <4>1. OnBoard /\ LastBoard = position /\ IsSeq(records) /\ Scored = score(records)
        BY <3>4, BoardIsPosition DEF RulingsRecorded, Decided, DiskTyped, IsSeq, Scored
      <4>2. CASE Defaulted /\ ~Over(position)
        <5>1. PICK i \in DOMAIN records :
                 OnlyForfeitAt(records, i) /\ Answerable(records[i]) /\ outcome = ForfeitedBy(records[i])
          BY <4>2 DEF Defaulted
        <5>2. score(records) = ForfeitedBy(records[i])
          BY <4>1, <4>2, <5>1, BoardIsPosition, OnlyForfeitIsFirst
             DEF score, Defaulted, Voided, Placed
        <5>3. Adjudged!Default
          BY <3>1, <3>2, <4>1, <4>2, <5>1, <5>2
             DEF Adjudged!Default, Adjudged!Decide, Answerable, ForfeitedBy, Outcome, Seats
        <5> QED
          BY <5>3 DEF Adjudged!Next
      <4>3. CASE Uncharged /\ Over(position)
        <5>1. score(records) = EndOf(position)
          BY <4>1, <4>3, BoardIsPosition DEF score, Uncharged, Voided, Forfeited, Placed, LastBoard
        <5>2. Adjudged!Win
          BY <3>1, <3>2, <4>1, <4>3, <5>1 DEF Adjudged!Win, Adjudged!Decide, EndOf, Outcome
        <5> QED
          BY <5>2 DEF Adjudged!Next
      <4>4. CASE Uncharged /\ ~Over(position)
        <5>1. score(records) = EndOf(position)
          BY <4>1, <4>4, BoardIsPosition DEF score, Uncharged, Voided, Forfeited, Placed, LastBoard
        <5>2. Adjudged!Annul
          BY <3>1, <3>2, <4>1, <4>4, <5>1 DEF Adjudged!Annul, Adjudged!Decide, EndOf, Outcome
        <5> QED
          BY <5>2 DEF Adjudged!Next
      <4> QED
        BY <3>4, <4>2, <4>3, <4>4 DEF RulingsRecorded, Decided
    <3>5. Scored = Void \/ (pc = "commit" /\ ~Annulled)
      BY <1>22 DEF Commit, Scored, Annulled, score, Voided
    <3> QED
      BY <3>3, <3>4, <3>5
  <2>4. CASE records' = records
    BY <1>01, <2>4, NothingPublished DEF Same
  <2> QED
    BY <2>2, <2>3, <2>4, Recording
<1>23. CASE Report
  BY <1>01, <1>23, Going, Faulting, NothingPublished DEF Report, Same, disk
<1>24. CASE CloseEntrants
  BY <1>01, <1>24, Going, Faulting, NothingPublished DEF CloseEntrants, Same, disk
<1>25. CASE Sweep
  BY <1>01, <1>25, Going, Faulting, NothingPublished DEF Sweep, Same, disk
<1>26. CASE Crash
  BY <1>01, <1>26, Going, Faulting, NothingPublished DEF Crash, Same, disk
<1>27. CASE Entrants
  BY <1>01, <1>27, NothingPublished DEF Entrants, Answer, Blurt, Exit, Same, disk
<1>28. CASE UNCHANGED vars
  BY <1>01, <1>28, NothingPublished DEF vars, Same
<1> QED
  BY <1>1, <1>2, <1>3, <1>4, <1>5, <1>6, <1>7, <1>8, <1>9, <1>10, <1>11, <1>12, <1>13, <1>14, <1>15, <1>16, <1>17, <1>18, <1>19, <1>20, <1>21, <1>22, <1>23, <1>24, <1>25, <1>26, <1>27, <1>28 DEF Next, Referee

\* run_match implements the adjudicated game: the last position on record moves by
\* legal moves, and a result is published once and for a reason.
THEOREM MatchKeepsPromise == Spec => KeepsPromise
<1>1. Init => Adjudged!Init
  BY DEF Init, Adjudged!Init, LastBoard, Published, Committed, Has
<1>2. TurnsInv /\ [Next]_vars => [Adjudged!Next]_(Adjudged!vars)
  BY PromiseStep
<1> QED
  BY <1>1, <1>2, MatchInvariant, PTL DEF Spec, KeepsPromise, Adjudged!Spec

------------------------------------------------------------------------------
(* The replay of a match.  What the verifier has recomputed when it comes to *)
(* the end of the records, stage by stage: the position the referee holds,   *)
(* or the one that follows from the move it has just accepted.               *)
Ended == {"unwind", "sweep_unwind", "raised", "dead"}
AtError(rs, i) == i \in DOMAIN rs /\ rs[i].kind = "engine_error"

RecordsInOrder ==
    /\ \A i \in DOMAIN records : records[i].kind = "header" <=> i = 1
    /\ \A i \in DOMAIN records : records[i].kind = "result" => i = Len(records)
    /\ AtMostOne(records, "engine_error")
    /\ pc = "open" => Len(records) = 0
    /\ pc \notin {"open"} \union Ended => Len(records) > 0
    /\ pc = "fault" => ~Voided
    /\ Committed \/ pc \notin BeforePlay \union Ended => Placed

\* A forfeit for an illegal move stands behind the move, and only an error of the
\* referee or the result stands behind the forfeit.
RejectedAt(rs, i, s, t) ==
    /\ i \in DOMAIN rs /\ rs[i].kind = "move" /\ rs[i].player = s /\ rs[i].turn = t
    /\ rs[i].legal = FALSE
EvidenceRecorded ==
    /\ pc = "rejected" => RejectedAt(records, Len(records), seat, turn)
    /\ \A i \in DOMAIN records :
          records[i].kind = "forfeit" /\ records[i].reason = "illegal_move" =>
              /\ Placed /\ RejectedAt(records, i - 1, records[i].player, records[i].turn)
              /\ Voided \/ i = Len(records) \/ (Committed /\ i = Len(records) - 1)

Verified(p, t, e) ==
    [computed |-> p, turn |-> t, expected |-> e, setup |-> TRUE, states |-> TRUE, moves |-> TRUE]
Verifying(v) ==
    /\ v.computed \in Positions /\ v.expected \in BOOLEAN
    /\ v = Verified(v.computed, v.turn, v.expected)

Unplaced ==
    \/ pc \in {"apply", "fault"}
    \/ pc \in Ended /\ ~Committed
    \/ AtError(records, Len(records))
    \/ Committed /\ AtError(records, Len(records) - 1)
Recomputed(v) ==
    /\ ~Placed => v = Fresh
    /\ Placed => Verifying(v)
    /\ pc \in InPlay \ {"apply"} => v = Verified(position, turn, FALSE)
    /\ pc = "apply" => v = Verified(Apply(position, reply), turn + 1, TRUE)
    /\ Placed /\ v.expected = TRUE => Unplaced

\* The result is what the score makes of the records before it, and what the loop
\* had ruled unless it is a void.
Conclusive(r) ==
    \/ r.reason = "engine_error" /\ r.winner = Nobody
    \/ OnBoard /\ r.winner = outcome.winner /\ (r.winner \in Seats => outcome # Nobody)
Concluded ==
    Committed =>
        /\ Last(records) = Result(score(records), MovesOf(records))
        /\ Conclusive(Last(records))

\* The file holds the records, or one more line that was not acknowledged, or it
\* is broken.
Intact == verify_chain(file) /\ Len(file) = Len(records)
              /\ \A i \in DOMAIN file : file[i].record = records[i]
Torn == verify_chain(file) /\ Len(file) = Len(records) + 1
            /\ \A i \in DOMAIN records : file[i].record = records[i]
Unacknowledged(r) ==
    /\ ~Committed
    /\ r.kind = "result" => pc \in AfterResult /\ Conclusive(r)
FileKnown ==
    /\ IsSeq(file)
    /\ \/ Intact
       \/ faults > 0 /\ Torn /\ Unacknowledged(file[Len(file)].record)
       \/ faults > 0 /\ ~verify_chain(file)

ReplayInv ==
    /\ RecordsInOrder /\ EvidenceRecorded /\ Recomputed(Replayed(records))
    /\ Concluded /\ FileKnown

------------------------------------------------------------------------------
(* The pass of the verifier over the records.  It is a recursive function;   *)
(* that there is one, and that it depends on nothing but the records it has  *)
(* seen, follows from the order of the naturals: of all the records at which *)
(* either could fail there would be a first one.                             *)
Less == {p \in Nat \X Nat : p[1] < p[2]}

\* The naturals are well founded.
LEMMA LessWF == IsWellFoundedOn(Less, Nat)
  BY NatLessThanWellFounded DEF OpToRel, Less

\* A set of naturals has a least one.
LEMMA LeastOf ==
  ASSUME NEW S \in SUBSET Nat, S # {}
  PROVE  \E m \in S : \A n \in S : m <= n
<1>1. PICK m \in S : \A n \in S : ~(<<n, m>> \in Less)
  BY LessWF, WFMin
<1>2. \A n \in S : m <= n
  <2> TAKE n \in S
  <2>1. ~(n < m)
    BY <1>1 DEF Less
  <2> QED BY <2>1
<1> QED BY <1>2

Passes(f, rs, k) ==
    f = [n \in 0..k |-> IF n = 0 THEN Fresh ELSE ReplayRecord(f[n - 1], rs[n])]

\* The verifier gets past any number of records.
LEMMA PassExists ==
  ASSUME NEW rs, NEW k \in Nat
  PROVE  \E f : Passes(f, rs, k)
<1> DEFINE S == {n \in Nat : ~\E f : Passes(f, rs, n)}
<1> SUFFICES ASSUME S # {} PROVE FALSE
  OBVIOUS
<1>1. PICK m \in S : \A n \in S : m <= n
  BY LeastOf
<1>2. m # 0
  <2>1. PICK f : f = [n \in 0..0 |-> Fresh]
    OBVIOUS
  <2>2. Passes(f, rs, 0)
    BY <2>1 DEF Passes
  <2> QED BY <2>2
<1>3. PICK f : Passes(f, rs, m - 1)
  BY <1>1, <1>2
<1>4. PICK g : g = [n \in 0..m |-> IF n = m THEN ReplayRecord(f[m - 1], rs[m]) ELSE f[n]]
  OBVIOUS
<1>5. ASSUME NEW n \in 0..m
      PROVE  g[n] = IF n = 0 THEN Fresh ELSE ReplayRecord(g[n - 1], rs[n])
  <2>1. m \in Nat
    OBVIOUS
  <2>2. CASE n = m
    BY <1>2, <1>4, <2>1, <2>2
  <2>3. CASE n # m
    <3>1. n \in 0..(m - 1) /\ (n # 0 => n - 1 \in 0..(m - 1) /\ n - 1 # m)
      BY <2>1, <2>3
    <3>2. f[n] = IF n = 0 THEN Fresh ELSE ReplayRecord(f[n - 1], rs[n])
      BY <1>3, <3>1 DEF Passes
    <3>3. g[n] = f[n] /\ (n # 0 => g[n - 1] = f[n - 1])
      BY <1>4, <2>1, <2>3, <3>1
    <3> QED BY <3>2, <3>3
  <2> QED BY <2>2, <2>3
<1>6. Passes(g, rs, m)
  <2>1. g = [n \in 0..m |-> g[n]]
    BY <1>4
  <2> QED BY <1>5, <2>1 DEF Passes
<1> QED BY <1>6

\* What the verifier holds after each record follows from what it held before.
LEMMA PassEquation ==
  ASSUME NEW rs, Len(rs) \in Nat
  PROVE  /\ Pass(rs)[0] = Fresh
         /\ \A n \in 1..Len(rs) : Pass(rs)[n] = ReplayRecord(Pass(rs)[n - 1], rs[n])
<1>1. Pass(rs) = CHOOSE f : f = [n \in 0..Len(rs) |-> IF n = 0 THEN Fresh
                                                      ELSE ReplayRecord(f[n - 1], rs[n])]
  BY Zenon DEF Pass
<1>2. PICK f : Passes(f, rs, Len(rs))
  BY PassExists
<1>3. Pass(rs) = [n \in 0..Len(rs) |-> IF n = 0 THEN Fresh
                                       ELSE ReplayRecord(Pass(rs)[n - 1], rs[n])]
  BY <1>1, <1>2, Zenon DEF Passes
<1>4. PICK g : g = Pass(rs)
  OBVIOUS
<1>5. g = [n \in 0..Len(rs) |-> IF n = 0 THEN Fresh ELSE ReplayRecord(g[n - 1], rs[n])]
  BY <1>3, <1>4
<1> QED BY <1>4, <1>5

\* It depends on nothing but the records seen so far.
LEMMA PassPrefix ==
  ASSUME NEW rs, NEW told, Len(rs) \in Nat, Len(told) \in Nat,
         NEW k \in Nat, k <= Len(rs), k <= Len(told),
         \A i \in 1..k : told[i] = rs[i]
  PROVE  Pass(told)[k] = Pass(rs)[k]
<1> DEFINE S == {n \in Nat : n <= k /\ Pass(told)[n] # Pass(rs)[n]}
<1> SUFFICES ASSUME S # {} PROVE FALSE
  OBVIOUS
<1>1. PICK m \in S : \A n \in S : m <= n
  BY LeastOf
<1>2. m # 0
  BY <1>1, PassEquation
<1>3. m \in 1..k /\ m \in 1..Len(rs) /\ m \in 1..Len(told) /\ m - 1 \in 0..k
  BY <1>2
<1>4. Pass(told)[m - 1] = Pass(rs)[m - 1]
  BY <1>1, <1>3
<1>5. Pass(told)[m] = ReplayRecord(Pass(told)[m - 1], told[m])
      /\ Pass(rs)[m] = ReplayRecord(Pass(rs)[m - 1], rs[m])
  BY <1>3, PassEquation
<1> QED BY <1>3, <1>4, <1>5

\* The verifier starts afresh and goes on with every record that is added.
LEMMA ReplayedNothing ==
  ASSUME NEW rs, Len(rs) = 0
  PROVE  Replayed(rs) = Fresh
  BY PassEquation DEF Replayed

\* Likewise after one more record.
LEMMA ReplayedNext ==
  ASSUME NEW rs, Len(rs) \in Nat, NEW told, NEW r,
         Len(told) = Len(rs) + 1, \A i \in 1..Len(rs) : told[i] = rs[i],
         told[Len(rs) + 1] = r
  PROVE  Replayed(told) = ReplayRecord(Replayed(rs), r)
<1>1. Pass(told)[Len(rs)] = Pass(rs)[Len(rs)]
  BY PassPrefix
<1>2. Len(told) \in 1..Len(told) /\ Len(told) - 1 = Len(rs) /\ Len(told) \in Nat
  OBVIOUS
<1>3. Pass(told)[Len(told)] = ReplayRecord(Pass(told)[Len(told) - 1], told[Len(told)])
  BY <1>2, PassEquation
<1> QED BY <1>1, <1>2, <1>3 DEF Replayed

\* Two transcripts with the same records are replayed the same way.
LEMMA ReplayedSame ==
  ASSUME NEW rs, Len(rs) \in Nat, NEW told, Len(told) = Len(rs),
         \A i \in 1..Len(rs) : told[i] = rs[i]
  PROVE  Replayed(told) = Replayed(rs)
  BY PassPrefix DEF Replayed

------------------------------------------------------------------------------
(* What each record that the referee writes does to the verifier.            *)
VerifierFields == {"computed", "turn", "expected", "setup", "states", "moves"}

\* A record of the verifier is known by its fields.
LEMMA VerifiedByFields ==
  ASSUME NEW v, v = [k \in VerifierFields |-> v[k]],
         v.setup = TRUE, v.states = TRUE, v.moves = TRUE
  PROVE  v = Verified(v.computed, v.turn, v.expected)
  BY DEF Verified, VerifierFields

\* The verifier looks at positions and moves only.
LEMMA ReplayOther ==
  ASSUME NEW v, NEW r, r.kind \notin {"state", "move"}
  PROVE  ReplayRecord(v, r) = v
  BY DEF ReplayRecord

\* It accepts the opening position.
LEMMA ReplayOpening ==
  ReplayRecord(Fresh, State(Opening, 0)) = Verified(Opening, 0, FALSE)
<1>1. PICK r : r = State(Opening, 0)
  OBVIOUS
<1>2. r.kind = "state" /\ r.position = Opening /\ r.turn = 0
  BY <1>1 DEF State
<1>3. PICK v : v = Fresh
  OBVIOUS
<1>4. /\ DOMAIN v = VerifierFields /\ v.computed = Nobody /\ v.turn = 0 /\ v.expected = TRUE
      /\ v.states = TRUE /\ v.moves = TRUE
  BY <1>3 DEF Fresh, VerifierFields
<1>5. ReplayState(v, r) = [v EXCEPT !.computed = Opening, !.expected = FALSE, !.states = TRUE,
                                    !.setup = TRUE]
  BY <1>2, <1>4 DEF ReplayState
<1>6. PICK w : w = [v EXCEPT !.computed = Opening, !.expected = FALSE, !.states = TRUE,
                             !.setup = TRUE]
  OBVIOUS
<1>7. /\ w = [k \in VerifierFields |-> w[k]]
      /\ w.computed = Opening /\ w.turn = 0 /\ w.expected = FALSE
      /\ w.setup = TRUE /\ w.states = TRUE /\ w.moves = TRUE
  BY <1>4, <1>6 DEF VerifierFields
<1>8. w = Verified(Opening, 0, FALSE)
  BY <1>7, VerifiedByFields
<1> QED
  BY <1>1, <1>2, <1>3, <1>5, <1>6, <1>8 DEF ReplayRecord

\* It accepts the position that it has computed.
LEMMA ReplayPosition ==
  ASSUME NEW p \in Positions, NEW t
  PROVE  ReplayRecord(Verified(p, t, TRUE), State(p, t)) = Verified(p, t, FALSE)
<1>1. PICK r : r = State(p, t)
  OBVIOUS
<1>2. r.kind = "state" /\ r.position = p /\ r.turn = t /\ p # Nobody
  BY <1>1, GameAssumption DEF State
<1>3. PICK v : v = Verified(p, t, TRUE)
  OBVIOUS
<1>4. /\ DOMAIN v = VerifierFields /\ v.computed = p /\ v.turn = t /\ v.expected = TRUE
      /\ v.setup = TRUE /\ v.states = TRUE /\ v.moves = TRUE
  BY <1>3 DEF Verified, VerifierFields
<1>5. ReplayState(v, r) = [v EXCEPT !.computed = p, !.expected = FALSE, !.states = TRUE,
                                    !.setup = TRUE]
  BY <1>2, <1>4 DEF ReplayState
<1>6. PICK w : w = [v EXCEPT !.computed = p, !.expected = FALSE, !.states = TRUE, !.setup = TRUE]
  OBVIOUS
<1>7. /\ w = [k \in VerifierFields |-> w[k]]
      /\ w.computed = p /\ w.turn = t /\ w.expected = FALSE
      /\ w.setup = TRUE /\ w.states = TRUE /\ w.moves = TRUE
  BY <1>4, <1>6 DEF VerifierFields
<1>8. w = Verified(p, t, FALSE)
  BY <1>7, VerifiedByFields
<1> QED
  BY <1>1, <1>2, <1>3, <1>5, <1>6, <1>8 DEF ReplayRecord

\* It makes the move that the referee accepted, and waits for the position.
LEMMA ReplayAccepted ==
  ASSUME NEW p \in Positions, NEW t, NEW m, ~Over(p), Legal(p, m)
  PROVE  ReplayRecord(Verified(p, t, FALSE), Move(p.to_move, t, m, TRUE))
            = Verified(Apply(p, m), t + 1, TRUE)
<1>1. PICK r : r = Move(p.to_move, t, m, TRUE)
  OBVIOUS
<1>2. r.kind = "move" /\ r.player = p.to_move /\ r.turn = t /\ r.move = m /\ r.legal = TRUE /\ p # Nobody
  BY <1>1, GameAssumption DEF Move
<1>3. PICK v : v = Verified(p, t, FALSE)
  OBVIOUS
<1>4. /\ DOMAIN v = VerifierFields /\ v.computed = p /\ v.turn = t /\ v.expected = FALSE
      /\ v.setup = TRUE /\ v.states = TRUE /\ v.moves = TRUE
  BY <1>3 DEF Verified, VerifierFields
<1>5. WellPlaced(v, r)
  BY <1>2, <1>4 DEF WellPlaced
<1>6. ReplayMove(v, r) = [v EXCEPT !.computed = Apply(@, m), !.turn = @ + 1, !.expected = TRUE]
  BY <1>2, <1>4, <1>5 DEF ReplayMove
<1>7. PICK w : w = [v EXCEPT !.computed = Apply(@, m), !.turn = @ + 1, !.expected = TRUE]
  OBVIOUS
<1>8. /\ w = [k \in VerifierFields |-> w[k]]
      /\ w.computed = Apply(p, m) /\ w.turn = t + 1 /\ w.expected = TRUE
      /\ w.setup = TRUE /\ w.states = TRUE /\ w.moves = TRUE
  BY <1>4, <1>7 DEF VerifierFields
<1>9. w = Verified(Apply(p, m), t + 1, TRUE)
  BY <1>8, VerifiedByFields
<1> QED
  BY <1>1, <1>2, <1>3, <1>6, <1>7, <1>9 DEF ReplayRecord

\* It agrees with the referee that a move is illegal.
LEMMA ReplayRejected ==
  ASSUME NEW p \in Positions, NEW t, NEW m, ~Over(p), ~Legal(p, m)
  PROVE  ReplayRecord(Verified(p, t, FALSE), Move(p.to_move, t, m, FALSE)) = Verified(p, t, FALSE)
<1>1. PICK r : r = Move(p.to_move, t, m, FALSE)
  OBVIOUS
<1>2. r.kind = "move" /\ r.player = p.to_move /\ r.turn = t /\ r.move = m /\ r.legal = FALSE /\ p # Nobody
  BY <1>1, GameAssumption DEF Move
<1>3. PICK v : v = Verified(p, t, FALSE)
  OBVIOUS
<1>4. v.computed = p /\ v.turn = t /\ v.expected = FALSE
  BY <1>3 DEF Verified
<1>5. WellPlaced(v, r)
  BY <1>2, <1>4 DEF WellPlaced
<1>6. ReplayMove(v, r) = v
  BY <1>2, <1>4, <1>5 DEF ReplayMove
<1> QED
  BY <1>1, <1>2, <1>3, <1>6 DEF ReplayRecord

------------------------------------------------------------------------------
(* The steps of a match, as the transcript sees them: at every stage there   *)
(* is one record that the referee may write, and every other step leaves the *)
(* file alone.                                                               *)
Fixed == UNCHANGED <<position, turn, outcome, reply, seat>>
Setting(r, next, handler) ==
    /\ UNCHANGED <<position, turn>>
    /\ \/ pc = "open" /\ r.kind = "header" /\ next = "greet" /\ handler = "unwind"
       \/ /\ pc = "handshake" /\ r.kind = "ready"
          /\ next \in {"greet", "opening"} /\ handler = "handshake_fault"
       \/ /\ pc = "handshake" /\ r.kind = "forfeit" /\ r.reason # "illegal_move"
          /\ next = "handshake_charged" /\ handler = "unwind"
       \/ pc = "handshake_fault" /\ r.kind = "engine_error" /\ next = "opening" /\ handler = "unwind"
       \/ /\ pc = "opening" /\ r = State(position, 0)
          /\ next = (IF outcome = Nobody THEN "turn" ELSE "score") /\ handler = "unwind"
Playing(r, next, handler) ==
    /\ handler = "fault"
    /\ \/ pc = "turn" /\ r.kind = "abort" /\ next = "score" /\ UNCHANGED <<position, turn>>
       \/ /\ pc \in {"turn", "await"} /\ r.kind = "forfeit" /\ r.reason # "illegal_move"
          /\ next = "charged" /\ UNCHANGED <<position, turn>>
       \/ /\ pc = "judge" /\ Legal(position, reply) /\ r = Move(seat, turn, reply, TRUE)
          /\ next = "apply" /\ Fixed
       \/ /\ pc = "judge" /\ ~Legal(position, reply) /\ r = Move(seat, turn, reply, FALSE)
          /\ next = "rejected" /\ Fixed
       \/ /\ pc = "rejected" /\ r = Forfeit(seat, "illegal_move", turn)
          /\ next = "score" /\ UNCHANGED <<position, turn>>
       \/ /\ pc = "apply" /\ position' = Apply(position, reply) /\ turn' = turn + 1
          /\ r = State(position', turn') /\ next = "turn"
Closing(r, next, handler) ==
    /\ handler = "unwind" /\ UNCHANGED <<position, turn>>
    /\ \/ pc = "fault" /\ r.kind = "engine_error" /\ next = "score"
       \/ pc = "score_fault" /\ ~Voided /\ r.kind = "engine_error" /\ next = "commit_void"
       \/ /\ pc \in {"commit", "commit_void"} /\ r = Result(Scored, MovesOf(records))
          /\ next = "close" /\ outcome' = outcome
Writing(r, next, handler) ==
    Setting(r, next, handler) \/ Playing(r, next, handler) \/ Closing(r, next, handler)

Scoring == {"score", "score_fault", "commit", "commit_void"}
Leaving == {"close", "sweep", "returned"}
Quiet ==
    /\ UNCHANGED <<records, file, position, turn>> /\ faults' \in {faults, faults + 1}
    /\ \/ UNCHANGED <<pc, seat, reply, outcome>>
       \/ pc' \in Ended /\ outcome' = outcome
       \/ pc \in BeforePlay \ {"open"} /\ pc' \in BeforePlay \ {"open"}
       \/ pc = "turn" /\ pc' = "await"
       \/ pc = "await" /\ pc' = "judge"
       \/ pc \in InPlay /\ pc' = "fault"
       \/ pc \in {"turn", "charged"} /\ pc' = "score"
       \/ pc \in Scoring /\ pc' \in Scoring /\ outcome' = outcome
       \/ pc \in Leaving /\ pc' \in Leaving /\ outcome' = outcome

\* A step of the referee that writes nothing.
LEMMA GoingQuietly ==
  ASSUME DiskTyped, NEW next, Goto(next) \/ Fault(next)
  PROVE  UNCHANGED <<records, file>> /\ faults' \in {faults, faults + 1} /\ pc' = next
  BY DEF Goto, Fault, disk

\* Every step of a match is one of these.
LEMMA EveryStepWrites ==
  ASSUME TurnsTyped, Next
  PROVE  Quiet \/ \E r, next, handler : Writing(r, next, handler) /\ Record(r, next, handler)
<1> USE TypedParts
<1> DEFINE Writes == \E r, next, handler : Writing(r, next, handler) /\ Record(r, next, handler)
<1> SUFFICES Quiet \/ Writes
  OBVIOUS
<1>0. ASSUME NEW r, NEW next, NEW handler, Writing(r, next, handler), Record(r, next, handler)
      PROVE  Writes
  BY <1>0
<1> HIDE DEF Writes
<1>1. CASE Open
  <2>1. CASE Fault("unwind")
    BY <1>1, <2>1, GoingQuietly DEF Open, Quiet, Ended
  <2>2. CASE Record(Header, "greet", "unwind")
    <3>1. PICK r : r = Header
      OBVIOUS
    <3>2. r.kind = "header"
      BY <3>1, KindsOfRecord
    <3>3. Writing(r, "greet", "unwind") /\ Record(r, "greet", "unwind")
      BY <1>1, <2>2, <3>1, <3>2 DEF Open, Setting, Writing
    <3> QED
      BY <1>0, <3>3
  <2> QED
    BY <1>1, <2>1, <2>2 DEF Open
<1>2. CASE Greet
  BY <1>2, GoingQuietly DEF Greet, Quiet, Stages, InPlay, BeforePlay, Ended, Scoring, Leaving, referee, seats, history, disk
<1>3. CASE HearReady
  <2>1. PICK r : r = Ready(seat)
    OBVIOUS
  <2>2. r.kind = "ready"
    BY <2>1, KindsOfRecord
  <2>3. PICK next \in {"greet", "opening"} : next = IF seat = 0 THEN "greet" ELSE "opening"
    OBVIOUS
  <2>4. Writing(r, next, "handshake_fault") /\ Record(r, next, "handshake_fault")
    BY <1>3, <2>1, <2>2, <2>3 DEF HearReady, Setting, Writing, Record
  <2> QED
    BY <1>0, <2>4
<1>4. CASE HandshakeForfeit
  <2>1. PICK why \in Offences :
          /\ Record(Forfeit(seat, why, Nobody), "handshake_charged", "unwind")
          /\ why # "illegal_move"
    BY <1>4 DEF HandshakeForfeit, Unanswered
  <2>2. PICK r : r = Forfeit(seat, why, Nobody)
    OBVIOUS
  <2>3. r.kind = "forfeit" /\ r.reason = why
    BY <2>2 DEF Forfeit
  <2>4. Writing(r, "handshake_charged", "unwind") /\ Record(r, "handshake_charged", "unwind")
    BY <1>4, <2>1, <2>2, <2>3 DEF HandshakeForfeit, Setting, Writing
  <2> QED
    BY <1>0, <2>4
<1>5. CASE HandshakeDiagnosis
  BY <1>5, GoingQuietly DEF HandshakeDiagnosis, Quiet, Stages, InPlay, BeforePlay, Ended, Scoring, Leaving, referee, seats, history, disk
<1>6. CASE HandshakeFault
  <2>1. PICK r : r = EngineError("handshake_failed")
    OBVIOUS
  <2>2. r.kind = "engine_error"
    BY <2>1, KindsOfRecord
  <2>3. Writing(r, "opening", "unwind") /\ Record(r, "opening", "unwind")
    BY <1>6, <2>1, <2>2 DEF HandshakeFault, Setting, Writing
  <2> QED
    BY <1>0, <2>3
<1>7. CASE OpeningState
  <2>1. PICK r : r = State(position, 0)
    OBVIOUS
  <2>2. PICK next : next = IF outcome = Nobody THEN "turn" ELSE "score"
    OBVIOUS
  <2>3. Writing(r, next, "unwind") /\ Record(r, next, "unwind")
    BY <1>7, <2>1, <2>2 DEF OpeningState, Setting, Writing
  <2> QED
    BY <1>0, <2>3
<1>8. CASE GameOver
  BY <1>8, GoingQuietly DEF GameOver, Quiet, Stages, InPlay, BeforePlay, Ended, Scoring, Leaving, referee, seats, history, disk
<1>9. CASE BoundExceeded
  <2>1. PICK r : r = Abort
    OBVIOUS
  <2>2. r.kind = "abort"
    BY <2>1, KindsOfRecord
  <2>3. Writing(r, "score", "fault") /\ Record(r, "score", "fault")
    BY <1>9, <2>1, <2>2 DEF BoundExceeded, Playing, Writing
  <2> QED
    BY <1>0, <2>3
<1>10. CASE Ask
  <2>1. CASE Goto("await")
    BY <1>10, <2>1, GoingQuietly DEF Ask, Quiet
  <2>2. ASSUME NEW why \in {"entrant_not_running", "timeout"},
               Record(Forfeit(seat', why, turn), "charged", "fault")
        PROVE  Writes
    <3>1. PICK r : r = Forfeit(seat', why, turn)
      OBVIOUS
    <3>2. r.kind = "forfeit" /\ r.reason # "illegal_move"
      BY <3>1 DEF Forfeit
    <3>3. Writing(r, "charged", "fault") /\ Record(r, "charged", "fault")
      BY <1>10, <2>2, <3>1, <3>2 DEF Ask, Playing, Writing
    <3> QED
      BY <1>0, <3>3
  <2> QED
    BY <1>10, <2>1, <2>2 DEF Ask
<1>11. CASE Hear
  BY <1>11, GoingQuietly DEF Hear, Quiet, Stages, InPlay, BeforePlay, Ended, Scoring, Leaving, referee, seats, history, disk
<1>12. CASE MoveForfeit
  <2>1. PICK why \in Offences :
          Record(Forfeit(seat, why, turn), "charged", "fault") /\ why # "illegal_move"
    BY <1>12 DEF MoveForfeit, Unanswered
  <2>2. PICK r : r = Forfeit(seat, why, turn)
    OBVIOUS
  <2>3. r.kind = "forfeit" /\ r.reason # "illegal_move"
    BY <2>1, <2>2 DEF Forfeit
  <2>4. Writing(r, "charged", "fault") /\ Record(r, "charged", "fault")
    BY <1>12, <2>1, <2>2, <2>3 DEF MoveForfeit, Playing, Writing
  <2> QED
    BY <1>0, <2>4
<1>13. CASE Charge
  BY <1>13, GoingQuietly DEF Charge, Quiet, Stages, InPlay, BeforePlay, Ended, Scoring, Leaving, referee, seats, history, disk
<1>14. CASE Accept
  <2>1. PICK r : r = Move(seat, turn, reply, TRUE)
    OBVIOUS
  <2>2. Writing(r, "apply", "fault") /\ Record(r, "apply", "fault")
    BY <1>14, <2>1 DEF Accept, Playing, Writing, Fixed
  <2> QED
    BY <1>0, <2>2
<1>15. CASE Reject
  <2>1. PICK r : r = Move(seat, turn, reply, FALSE)
    OBVIOUS
  <2>2. Writing(r, "rejected", "fault") /\ Record(r, "rejected", "fault")
    BY <1>15, <2>1 DEF Reject, Playing, Writing, Fixed
  <2> QED
    BY <1>0, <2>2
<1>16. CASE RejectForfeit
  <2>1. PICK r : r = Forfeit(seat, "illegal_move", turn)
    OBVIOUS
  <2>2. Writing(r, "score", "fault") /\ Record(r, "score", "fault")
    BY <1>16, <2>1 DEF RejectForfeit, Playing, Writing
  <2> QED
    BY <1>0, <2>2
<1>17. CASE Advance
  <2>1. PICK r : r = State(position', turn')
    OBVIOUS
  <2>2. Writing(r, "turn", "fault") /\ Record(r, "turn", "fault")
    BY <1>17, <2>1 DEF Advance, Playing, Writing
  <2> QED
    BY <1>0, <2>2
<1>18. CASE RefereeFault
  BY <1>18, GoingQuietly DEF RefereeFault, Quiet, Stages, InPlay, BeforePlay, Ended, Scoring, Leaving, referee, seats, history, disk
<1>19. CASE PlayFault
  <2>1. PICK r : r = EngineError("referee_fault")
    OBVIOUS
  <2>2. r.kind = "engine_error"
    BY <2>1, KindsOfRecord
  <2>3. Writing(r, "score", "unwind") /\ Record(r, "score", "unwind")
    BY <1>19, <2>1, <2>2 DEF PlayFault, Closing, Writing
  <2> QED
    BY <1>0, <2>3
<1>20. CASE Score
  BY <1>20, GoingQuietly DEF Score, Quiet, Stages, InPlay, BeforePlay, Ended, Scoring, Leaving, referee, seats, history, disk
<1>21. CASE ScoreFault
  <2>1. CASE Voided /\ Goto("commit_void")
    BY <1>21, <2>1, GoingQuietly DEF ScoreFault, Quiet, Scoring, Leaving
  <2>2. CASE ~Voided /\ Record(EngineError("referee_fault"), "commit_void", "unwind")
    <3>1. PICK r : r = EngineError("referee_fault")
      OBVIOUS
    <3>2. r.kind = "engine_error"
      BY <3>1, KindsOfRecord
    <3>3. Writing(r, "commit_void", "unwind") /\ Record(r, "commit_void", "unwind")
      BY <1>21, <2>2, <3>1, <3>2 DEF ScoreFault, Closing, Writing
    <3> QED
      BY <1>0, <3>3
  <2> QED
    BY <1>21, <2>1, <2>2 DEF ScoreFault, Voided
<1>22. CASE Commit
  <2>1. PICK r : r = Result(Scored, MovesOf(records))
    OBVIOUS
  <2>2. Writing(r, "close", "unwind") /\ Record(r, "close", "unwind")
    BY <1>22, <2>1 DEF Commit, Closing, Writing
  <2> QED
    BY <1>0, <2>2
<1>23. CASE Report
  BY <1>23, GoingQuietly DEF Report, Quiet, Stages, InPlay, BeforePlay, Ended, Scoring, Leaving, referee, seats, history, disk
<1>24. CASE CloseEntrants
  BY <1>24, GoingQuietly DEF CloseEntrants, Quiet, Stages, InPlay, BeforePlay, Ended, Scoring, Leaving, referee, seats, history, disk
<1>25. CASE Sweep
  BY <1>25 DEF Sweep, Quiet, Ended, Scoring, Leaving, DiskTyped
<1>26. CASE Crash
  BY <1>26 DEF Crash, Quiet, Ended, disk, DiskTyped
<1>27. ASSUME NEW s \in Seats, Answer(s) PROVE Quiet
  BY <1>27 DEF Answer, Quiet, referee, disk
<1>28. ASSUME NEW s \in Seats, Blurt(s) PROVE Quiet
  BY <1>28 DEF Blurt, Quiet, referee, disk
<1>29. ASSUME NEW s \in Seats, Exit(s) PROVE Quiet
  BY <1>29 DEF Exit, Quiet, referee, disk
<1> QED
  BY <1>1, <1>2, <1>3, <1>4, <1>5, <1>6, <1>7, <1>8, <1>9, <1>10, <1>11, <1>12, <1>13, <1>14, <1>15, <1>16, <1>17, <1>18, <1>19, <1>20, <1>21, <1>22, <1>23, <1>24, <1>25, <1>26, <1>27, <1>28, <1>29 DEF Next, Referee, Entrants

------------------------------------------------------------------------------
(* The replay invariant, part by part.                                       *)
\* While the match is decided upon nothing is voided, and a result comes last.
LEMMA NothingVoided ==
  ASSUME TurnsInv
  PROVE  /\ pc \in InPlay \union {"handshake_fault"} => ~Voided
         /\ pc \notin AfterResult => ~Committed
<1>1. pc \notin AfterResult => ~Committed
  BY DEF TurnsInv, TurnsClosed
<1>2. pc \in Asking \union {"turn", "handshake_fault"} => ~Voided
  BY RuledByStage DEF TurnsInv, Undecided, Uncharged
<1>3. pc = "charged" => ~Voided
  BY DEF TurnsInv, RulingsRecorded, PlayRuled, Pending
<1> QED
  BY <1>1, <1>2, <1>3 DEF InPlay, Asking

\* The records after one was added, element by element.
LEMMA OneMore ==
  ASSUME DiskTyped, NEW r, NEW told, Appended(told, r)
  PROVE  /\ Len(records) \in Nat /\ DOMAIN records = 1..Len(records)
         /\ Len(told) = Len(records) + 1 /\ Len(told) \in DOMAIN told /\ told[Len(told)] = r
         /\ \A i \in DOMAIN told :
               \/ i \in DOMAIN records /\ told[i] = records[i] /\ i < Len(told)
               \/ i = Len(told) /\ told[i] = r
         /\ \A i \in DOMAIN records : i \in DOMAIN told /\ told[i] = records[i]
<1>1. Len(records) \in Nat /\ DOMAIN records = 1..Len(records)
  BY DEF DiskTyped
<1> QED
  BY <1>1 DEF Appended

\* Which record is written at which stage.
LEMMA WrittenKinds ==
  ASSUME NEW r, NEW next, NEW handler, Writing(r, next, handler)
  PROVE  /\ pc \notin AfterResult /\ pc \notin Ended
         /\ r.kind = "header" <=> pc = "open"
         /\ r.kind = "engine_error" <=> pc \in {"handshake_fault", "fault", "score_fault"}
         /\ r.kind = "result" <=> pc \in {"commit", "commit_void"}
         /\ r.kind = "move" <=> pc = "judge"
         /\ r.kind = "state" <=> pc \in {"opening", "apply"}
         /\ r.kind \in {"header", "ready", "forfeit", "abort", "engine_error", "result", "move", "state"}
<1>1. \/ pc = "open" /\ r.kind = "header"
      \/ pc = "handshake" /\ r.kind \in {"ready", "forfeit"}
      \/ pc \in {"handshake_fault", "fault", "score_fault"} /\ r.kind = "engine_error"
      \/ pc \in {"opening", "apply"} /\ r.kind = "state"
      \/ pc = "turn" /\ r.kind \in {"abort", "forfeit"}
      \/ pc \in {"await", "rejected"} /\ r.kind = "forfeit"
      \/ pc = "judge" /\ r.kind = "move"
      \/ pc \in {"commit", "commit_void"} /\ r.kind = "result"
  BY KindsOfRecord DEF Writing, Setting, Playing, Closing
<1> QED
  BY <1>1 DEF AfterResult, Swept, Ended

\* Every step keeps the records in order.
LEMMA OrderStep ==
  ASSUME TurnsInv, RecordsInOrder, Next
  PROVE  RecordsInOrder'
<1> USE TypedParts DEF TurnsInv
<1>0. /\ DiskTyped /\ Len(records) \in Nat /\ DOMAIN records = 1..Len(records)
      /\ pc \in Stages
  BY DEF DiskTyped, TurnsTyped
<1>1. ASSUME Quiet PROVE RecordsInOrder'
  <2>1. records' = records /\ (Placed' <=> Placed) /\ (Voided' <=> Voided) /\ (Committed' <=> Committed)
    BY <1>1, KnowingNothingNew DEF Quiet
  <2>2. pc' = "open" => Len(records) = 0
    BY <1>1 DEF Quiet, RecordsInOrder, Ended, BeforePlay, Scoring, Leaving
  <2>3. pc' \notin {"open"} \union Ended => Len(records) > 0
    BY <1>1 DEF Quiet, RecordsInOrder, Ended, BeforePlay, Scoring, Leaving, InPlay
  <2>4. pc' = "fault" => ~Voided
    BY <1>1, NothingVoided DEF Quiet, RecordsInOrder, Ended, BeforePlay, Scoring, Leaving
  <2>5. Committed \/ pc' \notin BeforePlay \union Ended => Placed
    BY <1>1 DEF Quiet, RecordsInOrder, Ended, BeforePlay, Scoring, Leaving, InPlay
  <2> QED
    BY <2>1, <2>2, <2>3, <2>4, <2>5 DEF RecordsInOrder, AtMostOne
<1>2. ASSUME NEW r, NEW next, NEW handler, Writing(r, next, handler), Record(r, next, handler)
      PROVE  RecordsInOrder'
  <2>0. pc \notin AfterResult /\ pc \notin Ended /\ (r.kind = "header" <=> pc = "open")
    BY <1>2, WrittenKinds
  <2> USE KindsOfRecord DEF Writing, Setting, Playing, Closing
  <2>1. CASE records' = records /\ pc' = handler
    <3>1. (Placed' <=> Placed) /\ (Voided' <=> Voided) /\ (Committed' <=> Committed)
      BY <2>1, KnowingNothingNew
    <3>2. pc' \in {"unwind", "handshake_fault", "fault"}
      BY <1>2, <2>1
    <3>3. pc' \notin Ended => Len(records) > 0
      BY <1>2, <2>1 DEF RecordsInOrder, Ended, InPlay
    <3>4. pc' = "fault" => ~Voided /\ Placed
      BY <1>2, <2>1, NothingVoided DEF RecordsInOrder, Ended, InPlay, BeforePlay
    <3> QED
      BY <2>1, <3>1, <3>2, <3>3, <3>4 DEF RecordsInOrder, AtMostOne, BeforePlay, Ended
  <2>2. CASE Appended(records', r) /\ pc' = next
    <3>1. PICK told : told = records'
      OBVIOUS
    <3>2. Appended(told, r)
      BY <2>2, <3>1
    <3>3. /\ Placed' <=> Placed \/ r.kind = "state"
          /\ Voided' <=> Voided \/ r.kind = "engine_error"
          /\ Committed' <=> Committed \/ r.kind = "result"
      BY <1>0, <2>2, Knowing
    <3>4. ~Committed /\ (r.kind = "header" <=> Len(records) = 0)
      BY <1>0, <2>0, NothingVoided DEF RecordsInOrder
    <3>5. \A i \in DOMAIN told : told[i].kind = "header" <=> i = 1
      BY <1>0, <3>2, <3>4, OneMore DEF RecordsInOrder
    <3>6. \A i \in DOMAIN told : told[i].kind = "result" => i = Len(told)
      BY <1>0, <3>2, <3>4, OneMore DEF Committed, Has
    <3>7. r.kind = "engine_error" => ~Voided
      BY <1>2, NothingVoided DEF RecordsInOrder
    <3>8. AtMostOne(told, "engine_error")
      BY <1>0, <3>2, <3>7, OneMore DEF AtMostOne, Voided, Has, RecordsInOrder
    <3>9. Len(told) > 0
      BY <1>0, <3>2, OneMore
    <3>10. next \notin {"open", "fault"}
      BY <1>2
    <3>11. r.kind = "result" \/ next \notin BeforePlay \union Ended => Placed'
      BY <1>2, <3>3 DEF RecordsInOrder, BeforePlay, Ended
    <3>12. /\ AtMostOne(records, "engine_error")' /\ Len(records)' > 0
           /\ \A i \in DOMAIN records' : records'[i].kind = "header" <=> i = 1
           /\ \A i \in DOMAIN records' : records'[i].kind = "result" => i = Len(records')
      BY <3>1, <3>5, <3>6, <3>8, <3>9 DEF AtMostOne
    <3> QED
      BY <2>2, <3>3, <3>4, <3>10, <3>11, <3>12 DEF RecordsInOrder
  <2> QED
    BY <1>0, <1>2, <2>1, <2>2, Recording
<1> QED
  BY <1>1, <1>2, EveryStepWrites

\* Until a forfeit is being charged, none is on record.
LEMMA NothingForfeited ==
  ASSUME TurnsInv
  PROVE  pc \in {"open", "handshake", "handshake_fault", "turn"} \union Asking => ~Forfeited
  BY RuledByStage DEF TurnsInv, Undecided, Uncharged

\* Every step leaves the evidence of a forfeit in front of it.
LEMMA EvidenceStep ==
  ASSUME TurnsInv, RecordsInOrder, EvidenceRecorded, Next
  PROVE  EvidenceRecorded'
<1> USE TypedParts DEF TurnsInv
<1>0. /\ DiskTyped /\ Len(records) \in Nat /\ DOMAIN records = 1..Len(records)
  BY DEF DiskTyped, TurnsTyped
<1>1. ASSUME records' = records, pc' = "rejected" => pc = "rejected" /\ UNCHANGED <<seat, turn>>
      PROVE  EvidenceRecorded'
  BY <1>1, KnowingNothingNew DEF EvidenceRecorded, RejectedAt
<1>2. ASSUME Quiet PROVE EvidenceRecorded'
  <2>1. pc' = "rejected" => pc = "rejected" /\ UNCHANGED <<seat, turn>>
    BY <1>2 DEF Quiet, Ended, BeforePlay, Scoring, Leaving
  <2> QED
    BY <1>1, <1>2, <2>1 DEF Quiet
<1>3. ASSUME NEW r, NEW next, NEW handler, Writing(r, next, handler), Record(r, next, handler)
      PROVE  EvidenceRecorded'
  <2>0. /\ pc \notin AfterResult
        /\ r.kind = "engine_error" <=> pc \in {"handshake_fault", "fault", "score_fault"}
        /\ r.kind = "result" <=> pc \in {"commit", "commit_void"}
    BY <1>3, WrittenKinds
  <2>1. handler \in {"unwind", "handshake_fault", "fault"}
    BY <1>3 DEF Writing, Setting, Playing, Closing
  <2>2. CASE records' = records /\ pc' = handler
    BY <1>1, <2>1, <2>2
  <2>3. CASE Appended(records', r) /\ pc' = next
    <3>1. PICK told : told = records'
      OBVIOUS
    <3>2. Appended(told, r)
      BY <2>3, <3>1
    <3>3. /\ Placed' <=> Placed \/ r.kind = "state"
          /\ Voided' <=> Voided \/ r.kind = "engine_error"
          /\ Committed' <=> Committed \/ r.kind = "result"
      BY <1>0, <2>3, Knowing
    <3>4. next = "rejected" => RejectedAt(told, Len(told), seat', turn')
      <4>1. SUFFICES ASSUME next = "rejected" PROVE RejectedAt(told, Len(told), seat', turn')
        OBVIOUS
      <4>2. r = Move(seat, turn, reply, FALSE) /\ Fixed
        BY <1>3, <4>1 DEF Writing, Setting, Playing, Closing
      <4>3. r.kind = "move" /\ r.player = seat' /\ r.turn = turn' /\ r.legal = FALSE
        BY <4>2 DEF Move, Fixed
      <4> QED
        BY <1>0, <3>2, <4>3, OneMore DEF RejectedAt
    <3>5. ASSUME NEW i \in DOMAIN records, NEW s, NEW t, RejectedAt(records, i, s, t)
          PROVE  RejectedAt(told, i, s, t)
      BY <1>0, <3>2, <3>5, OneMore DEF RejectedAt
    <3>6. ASSUME NEW i \in DOMAIN records, records[i].kind = "forfeit",
                 records[i].reason = "illegal_move"
          PROVE  /\ Placed' /\ RejectedAt(told, i - 1, records[i].player, records[i].turn)
                 /\ Voided' \/ (Committed' /\ i = Len(told) - 1)
      <4>1. /\ Placed /\ RejectedAt(records, i - 1, records[i].player, records[i].turn)
            /\ Voided \/ i = Len(records)
        BY <2>0, <3>6, NothingVoided DEF EvidenceRecorded
      <4>2. Forfeited
        BY <3>6 DEF Forfeited, Has
      <4>3. pc # "opening"
        BY <4>1 DEF RulingsRecorded, OpeningRuled, BeforePlay
      <4>4. r.kind \in {"engine_error", "result"}
        BY <1>3, <2>0, <4>2, <4>3, NothingForfeited DEF Writing, Setting, Playing, Closing, Asking
      <4>5. Len(told) - 1 = Len(records)
        BY <1>0, <3>2, OneMore
      <4>6. i - 1 \in DOMAIN records
        BY <4>1 DEF RejectedAt
      <4> QED
        BY <3>3, <3>5, <4>1, <4>4, <4>5, <4>6
    <3>7. ASSUME r.kind = "forfeit", r.reason = "illegal_move"
          PROVE  Placed' /\ RejectedAt(told, Len(told) - 1, r.player, r.turn)
      <4>1. pc = "rejected" /\ r = Forfeit(seat, "illegal_move", turn)
        <5>1. pc \notin {"judge", "opening", "apply", "commit", "commit_void", "open", "handshake_fault",
                         "fault", "score_fault"}
          BY <1>3, <3>7, WrittenKinds
        <5> QED
          BY <1>3, <3>7, <5>1, KindsOfRecord DEF Writing, Setting, Playing, Closing
      <4>2. Placed /\ RejectedAt(records, Len(records), seat, turn)
        BY <4>1 DEF EvidenceRecorded, RecordsInOrder, BeforePlay, Ended
      <4>3. r.player = seat /\ r.turn = turn
        BY <4>1 DEF Forfeit
      <4>4. Len(records) \in DOMAIN records /\ Len(told) - 1 = Len(records)
        BY <1>0, <3>2, <4>2, OneMore DEF RejectedAt
      <4> QED
        BY <3>3, <3>5, <4>2, <4>3, <4>4
    <3>8. ASSUME NEW i \in DOMAIN told, told[i].kind = "forfeit", told[i].reason = "illegal_move"
          PROVE  /\ Placed' /\ RejectedAt(told, i - 1, told[i].player, told[i].turn)
                 /\ Voided' \/ i = Len(told) \/ (Committed' /\ i = Len(told) - 1)
      <4>1. CASE i \in DOMAIN records /\ told[i] = records[i]
        BY <3>6, <3>8, <4>1
      <4>2. CASE i = Len(told) /\ told[i] = r
        BY <3>7, <3>8, <4>2
      <4> QED
        BY <1>0, <3>2, <4>1, <4>2, OneMore
    <3> QED
      BY <2>3, <3>1, <3>4, <3>8 DEF EvidenceRecorded, RejectedAt
  <2> QED
    BY <1>0, <1>3, <2>2, <2>3, Recording
<1> QED
  BY <1>2, <1>3, EveryStepWrites

\* A verified position, by what the verifier expects next.
LEMMA VerifiedFacts ==
  ASSUME NEW p \in Positions, NEW t
  PROVE  /\ Verifying(Verified(p, t, TRUE)) /\ Verifying(Verified(p, t, FALSE))
         /\ Verified(p, t, FALSE).expected # TRUE
<1>1. PICK v : v = Verified(p, t, TRUE)
  OBVIOUS
<1>2. v.computed = p /\ v.turn = t /\ v.expected = TRUE
  BY <1>1 DEF Verified
<1>3. Verifying(v)
  BY <1>1, <1>2 DEF Verifying
<1>4. PICK w : w = Verified(p, t, FALSE)
  OBVIOUS
<1>5. w.computed = p /\ w.turn = t /\ w.expected = FALSE
  BY <1>4 DEF Verified
<1>6. Verifying(w) /\ w.expected # TRUE
  BY <1>4, <1>5 DEF Verifying
<1> QED BY <1>1, <1>3, <1>4, <1>6

\* What the verifier holds after a record was added.
LEMMA ReplayedMore ==
  ASSUME DiskTyped, NEW r, Appended(records', r)
  PROVE  Replayed(records)' = ReplayRecord(Replayed(records), r)
<1>1. PICK told : told = records'
  OBVIOUS
<1>2. Appended(told, r) /\ Len(records) \in Nat
  BY <1>1 DEF DiskTyped
<1>3. Replayed(told) = ReplayRecord(Replayed(records), r)
  BY <1>2, ReplayedNext DEF Appended
<1> QED BY <1>1, <1>3

\* Every step keeps the verifier with the referee, or one position behind.
LEMMA RecomputedStep ==
  ASSUME TurnsInv, RecordsInOrder, Recomputed(Replayed(records)), Next
  PROVE  Recomputed(Replayed(records))'
<1> USE TypedParts DEF TurnsInv
<1>0. /\ DiskTyped /\ Len(records) \in Nat /\ DOMAIN records = 1..Len(records)
      /\ position \in Positions /\ reply \in Moves \union {Nobody}
  BY DEF DiskTyped, TurnsTyped
<1>1. PICK v : v = Replayed(records)
  OBVIOUS
<1>2. Recomputed(v)
  BY <1>1
<1>3. PICK w : w = Replayed(records)'
  OBVIOUS
<1>4. SUFFICES Recomputed(w)'
  BY <1>3 DEF Recomputed
<1>5. ASSUME Quiet PROVE Recomputed(w)'
  <2>1. /\ w = v /\ UNCHANGED <<position, turn, records>>
        /\ (Placed' <=> Placed) /\ (Committed' <=> Committed)
    BY <1>1, <1>3, <1>5, KnowingNothingNew DEF Quiet
  <2>2. pc' \in InPlay \ {"apply"} => v = Verified(position, turn, FALSE)
    BY <1>2, <1>5 DEF Quiet, Recomputed, Ended, BeforePlay, Scoring, Leaving, InPlay
  <2>3. pc' = "apply" => pc = "apply" /\ reply' = reply
    BY <1>5 DEF Quiet, Ended, BeforePlay, Scoring, Leaving
  <2>4. Unplaced => Unplaced'
    <3>1. CASE pc \in {"apply", "fault"}
      <4>1. pc' \in {"apply", "fault"} \union Ended
        BY <1>5, <3>1 DEF Quiet, BeforePlay, Scoring, Leaving, InPlay
      <4>2. ~Committed'
        BY <2>1, <3>1, NothingVoided DEF AfterResult, Swept
      <4> QED
        BY <4>1, <4>2 DEF Unplaced
    <3>2. CASE pc \in Ended /\ ~Committed
      <4>1. pc' \in Ended
        BY <1>5, <3>2 DEF Quiet, BeforePlay, Scoring, Leaving, InPlay, Ended
      <4> QED
        BY <2>1, <3>2, <4>1 DEF Unplaced
    <3>3. CASE AtError(records, Len(records)) \/ (Committed /\ AtError(records, Len(records) - 1))
      BY <2>1, <3>3 DEF Unplaced, AtError
    <3> QED
      BY <3>1, <3>2, <3>3 DEF Unplaced
  <2> QED
    BY <1>2, <2>1, <2>2, <2>3, <2>4 DEF Recomputed
<1>6. ASSUME NEW r, NEW next, NEW handler, Writing(r, next, handler), Record(r, next, handler)
      PROVE  Recomputed(w)'
  <2>0. /\ pc \notin AfterResult /\ pc \notin Ended /\ ~Committed
        /\ r.kind = "engine_error" <=> pc \in {"handshake_fault", "fault", "score_fault"}
        /\ r.kind = "result" <=> pc \in {"commit", "commit_void"}
        /\ r.kind = "move" <=> pc = "judge"
        /\ r.kind = "state" <=> pc \in {"opening", "apply"}
    BY <1>6, WrittenKinds, NothingVoided
  <2>1. CASE records' = records /\ pc' = handler
    <3>1. w = v /\ (Placed' <=> Placed) /\ (Committed' <=> Committed)
      BY <1>1, <1>3, <2>1, KnowingNothingNew
    <3>2. pc' \in {"unwind", "fault"} \/ (pc' = "handshake_fault" /\ ~Placed)
      BY <1>6, <2>1 DEF Writing, Setting, Playing, Closing, RulingsRecorded, OpeningRuled, BeforePlay
    <3>3. Placed => Unplaced'
      BY <2>0, <3>1, <3>2 DEF Unplaced, Ended
    <3> QED
      BY <1>2, <3>1, <3>2, <3>3 DEF Recomputed, InPlay
  <2>2. CASE Appended(records', r) /\ pc' = next
    <3>1. w = ReplayRecord(v, r)
      BY <1>0, <1>1, <1>3, <2>2, ReplayedMore
    <3>2. PICK told : told = records'
      OBVIOUS
    <3>3. Appended(told, r)
      BY <2>2, <3>2
    <3>4. /\ Placed' <=> Placed \/ r.kind = "state"
          /\ Committed' <=> Committed \/ r.kind = "result"
      BY <1>0, <2>2, Knowing
    <3>5. CASE r.kind \notin {"state", "move"}
      <4>1. w = v
        BY <3>1, <3>5, ReplayOther
      <4>2. next \in InPlay => next = "charged" /\ pc \in {"turn", "await"} /\ UNCHANGED <<position, turn>>
        BY <1>6, <2>0, <3>5 DEF Writing, Setting, Playing, Closing, InPlay
      <4>3. Placed /\ Unplaced => Unplaced'
        <5>1. /\ Len(told) \in DOMAIN told /\ told[Len(told)] = r /\ Len(told) - 1 = Len(records)
              /\ \A i \in DOMAIN records : i \in DOMAIN told /\ told[i] = records[i]
          BY <1>0, <3>3, OneMore
        <5>2. CASE r.kind = "engine_error"
          BY <3>2, <5>1, <5>2 DEF Unplaced, AtError
        <5>3. CASE Placed /\ AtError(records, Len(records))
          <6>1. Voided
            BY <5>3 DEF AtError, Voided, Has
          <6>2. pc \notin BeforePlay \union InPlay
            BY <5>3, <6>1, NothingVoided DEF RulingsRecorded, OpeningRuled
          <6>3. r.kind \in {"engine_error", "result"}
            BY <1>6, <2>0, <6>2 DEF Writing, Setting, Playing, Closing, BeforePlay, InPlay
          <6>4. AtError(told, Len(told) - 1)
            BY <5>1, <5>3 DEF AtError
          <6> QED
            BY <3>2, <3>4, <5>2, <6>3, <6>4 DEF Unplaced, AtError
        <5> QED
          BY <2>0, <3>5, <5>2, <5>3 DEF Unplaced
      <4> QED
        BY <1>2, <2>2, <3>4, <3>5, <4>1, <4>2, <4>3 DEF Recomputed, InPlay
    <3>6. CASE pc = "opening"
      <4>1. r = State(position, 0) /\ next \in {"turn", "score"} /\ UNCHANGED <<position, turn>>
        BY <1>6, <3>6 DEF Writing, Setting, Playing, Closing
      <4>2. ~Placed /\ position = Opening /\ turn = 0
        BY <3>6 DEF RulingsRecorded, OpeningRuled, BeforePlay
      <4>3. w = Verified(Opening, 0, FALSE)
        BY <1>2, <3>1, <4>1, <4>2, ReplayOpening DEF Recomputed
      <4> QED
        BY <2>2, <3>4, <4>1, <4>2, <4>3, VerifiedFacts, GameAssumption, KindsOfRecord DEF Recomputed
    <3>7. CASE pc = "apply"
      <4>1. /\ position' = Apply(position, reply) /\ turn' = turn + 1
            /\ r = State(position', turn') /\ next = "turn"
        BY <1>6, <3>7 DEF Writing, Setting, Playing, Closing
      <4>2. v = Verified(Apply(position, reply), turn + 1, TRUE)
        BY <1>2, <3>7 DEF Recomputed
      <4>3. Apply(position, reply) \in Positions
        BY <1>0, <3>7, GameAssumption DEF RulingsRecorded, PlayRuled
      <4>4. w = Verified(position', turn', FALSE)
        BY <3>1, <4>1, <4>2, <4>3, ReplayPosition
      <4> QED
        BY <2>2, <3>4, <4>1, <4>3, <4>4, VerifiedFacts, KindsOfRecord DEF Recomputed
    <3>8. CASE pc = "judge"
      <4>1. /\ seat = position.to_move /\ ~Over(position) /\ v = Verified(position, turn, FALSE) /\ Placed
        BY <1>2, <3>8 DEF RulingsRecorded, PlayRuled, Asking, Recomputed, InPlay, RecordsInOrder,
           BeforePlay, Ended
      <4>2. \/ /\ Legal(position, reply) /\ r = Move(seat, turn, reply, TRUE)
               /\ next = "apply" /\ Fixed
            \/ /\ ~Legal(position, reply) /\ r = Move(seat, turn, reply, FALSE)
               /\ next = "rejected" /\ Fixed
        BY <1>6, <3>8 DEF Writing, Setting, Playing, Closing
      <4>3. CASE Legal(position, reply)
        <5>1. w = Verified(Apply(position, reply), turn + 1, TRUE)
          BY <1>0, <3>1, <4>1, <4>2, <4>3, ReplayAccepted
        <5>2. Apply(position, reply) \in Positions
          BY <1>0, <4>3, GameAssumption
        <5>3. Unplaced' /\ pc' = "apply" /\ Placed'
          BY <2>2, <3>4, <4>1, <4>2, <4>3 DEF Unplaced
        <5> QED
          BY <4>2, <4>3, <5>1, <5>2, <5>3, VerifiedFacts DEF Recomputed, Fixed
      <4>4. CASE ~Legal(position, reply)
        <5>1. w = Verified(position, turn, FALSE)
          BY <1>0, <3>1, <4>1, <4>2, <4>4, ReplayRejected
        <5>2. pc' = "rejected" /\ Placed'
          BY <2>2, <3>4, <4>1, <4>2, <4>4
        <5> QED
          BY <1>0, <4>2, <5>1, <5>2, VerifiedFacts DEF Recomputed, Fixed
      <4> QED
        BY <4>3, <4>4
    <3> QED
      BY <2>0, <3>5, <3>6, <3>7, <3>8
  <2> QED
    BY <1>0, <1>6, <2>1, <2>2, Recording
<1> QED
  BY <1>5, <1>6, EveryStepWrites

\* Once the result is written or given up, nothing but the cleanup follows.
LEMMA NothingFollows ==
  ASSUME TurnsInv, Next, pc \in AfterResult
  PROVE  pc' \in AfterResult /\ UNCHANGED <<records, file, position, turn, outcome>>
<1>1. Quiet
  BY EveryStepWrites, WrittenKinds DEF TurnsInv
<1> QED
  BY <1>1 DEF Quiet, AfterResult, Swept, Ended, BeforePlay, InPlay, Scoring, Leaving

\* A result does not change the score it was made from.
LEMMA ScoreStays ==
  ASSUME DiskTyped, NEW told, IsSeq(told), NEW r, Appended(told, r), r.kind = "result",
         \A k \in {"engine_error", "state", "forfeit"} : Has(told, k) <=> Has(records, k),
         Voided \/ (OnBoard /\ (Defaulted \/ ~Forfeited))
  PROVE  score(told) = score(records)
<1> USE DEF Voided, Forfeited
<1>1. CASE Voided
  BY <1>1 DEF score
<1>2. CASE ~Voided
  <2>1. PICK i \in DOMAIN records : LastStateAt(records, i)
    BY <1>2 DEF OnBoard
  <2>2. i \in DOMAIN told /\ told[i] = records[i] /\ LastStateAt(told, i)
    BY <2>1, Placing
  <2>3. /\ Has(records, "state") /\ Has(told, "state")
        /\ LastOf(told, "state") = LastOf(records, "state")
    BY <2>1, <2>2, LastStateIsLast DEF DiskTyped, IsSeq
  <2>4. CASE ~Forfeited
    BY <1>2, <2>3, <2>4 DEF score
  <2>5. CASE Forfeited
    <3>1. PICK j \in DOMAIN records : OnlyForfeitAt(records, j)
      BY <1>2, <2>5 DEF Defaulted
    <3>2. j \in DOMAIN told /\ told[j] = records[j] /\ OnlyForfeitAt(told, j)
      BY <3>1, Placing
    <3>3. FirstOf(told, "forfeit") = FirstOf(records, "forfeit")
      BY <3>1, <3>2, OnlyForfeitIsFirst DEF DiskTyped, IsSeq
    <3> QED
      BY <1>2, <2>3, <2>5, <3>3 DEF score
  <2> QED BY <2>4, <2>5
<1> QED BY <1>1, <1>2

\* The result that is about to be written says what the loop has ruled, or is a void.
LEMMA ResultConclusive ==
  ASSUME TurnsInv, pc \in {"commit", "commit_void"}, NEW r, r = Result(Scored, MovesOf(records))
  PROVE  Conclusive(r) /\ (Voided \/ (OnBoard /\ (Defaulted \/ ~Forfeited)))
<1> USE DEF TurnsInv
<1>1. r.winner = Scored.winner /\ r.reason = Scored.reason
  BY DEF Result
<1>2. CASE pc = "commit_void"
  <2>1. Scored = Void /\ Voided
    BY <1>2 DEF Scored, FaultsRecorded
  <2> QED
    BY <1>1, <2>1 DEF Void, Outcome, Conclusive
<1>3. CASE pc = "commit"
  <2>1. Scored = score(records) /\ Decided /\ score(records).winner = outcome.winner
    BY <1>3, ScorerAgreesHere DEF Scored, RulingsRecorded, ScorerAgrees
  <2>2. CASE Annulled
    BY <1>1, <2>1, <2>2 DEF Annulled, score, Voided, Void, Outcome, Conclusive
  <2>3. CASE ~Annulled
    <3>1. OnBoard /\ (Defaulted \/ ~Forfeited)
      BY <2>1, <2>3 DEF Decided, Uncharged
    <3>2. outcome.winner \in Seats => outcome # Nobody
      <4>1. CASE Defaulted
        BY <4>1, OutcomesAreRecords
      <4>2. CASE outcome = EndOf(position) /\ Over(position)
        BY <4>2, MatchAssumption DEF EndOf, Outcome, Reasons
      <4>3. CASE outcome = Outcome(Nobody, "move_bound_exceeded")
        BY <4>3, MatchAssumption DEF Outcome, Reasons
      <4> QED
        BY <2>1, <2>3, <4>1, <4>2, <4>3 DEF Decided
    <3> QED
      BY <1>1, <2>1, <3>1, <3>2 DEF Conclusive
  <2> QED BY <2>2, <2>3
<1> QED BY <1>2, <1>3

\* Every step keeps the result what the score makes of the records.
LEMMA ConcludedStep ==
  ASSUME TurnsInv, TurnsTyped', Concluded, Next
  PROVE  Concluded'
<1> USE TypedParts DEF TurnsInv
<1>1. CASE Committed
  <2>1. UNCHANGED <<records, position, turn, outcome>>
    BY <1>1, NothingFollows DEF TurnsClosed
  <2> QED
    BY <1>1, <2>1, KnowingNothingNew DEF Concluded, Conclusive, OnBoard, LastStateAt
<1>2. CASE ~Committed
  <2>1. SUFFICES ASSUME Committed' PROVE Concluded'
    BY DEF Concluded
  <2>2. ~Quiet
    BY <1>2, <2>1, KnowingNothingNew DEF Quiet
  <2>3. PICK r, next, handler : Writing(r, next, handler) /\ Record(r, next, handler)
    BY <2>2, EveryStepWrites
  <2>4. Appended(records', r) /\ r.kind = "result"
    BY <1>2, <2>1, <2>3, Recording, Knowing, KnowingNothingNew
  <2>5. pc \in {"commit", "commit_void"}
    BY <2>3, <2>4, WrittenKinds
  <2>6. r = Result(Scored, MovesOf(records)) /\ UNCHANGED <<position, turn, outcome>>
    BY <2>3, <2>5 DEF Writing, Setting, Playing, Closing
  <2>7. Conclusive(r) /\ (Voided \/ (OnBoard /\ (Defaulted \/ ~Forfeited)))
    BY <2>5, <2>6, ResultConclusive
  <2>8. PICK told : told = records'
    OBVIOUS
  <2>9. Appended(told, r) /\ IsSeq(told)
    BY <2>4, <2>8 DEF TurnsTyped, IsSeq
  <2>10. \A k \in {"engine_error", "state", "forfeit"} : Has(told, k) <=> Has(records, k)
    <3>1. (Placed' <=> Placed) /\ (Voided' <=> Voided) /\ (Forfeited' <=> Forfeited)
      BY <2>4, Knowing
    <3> QED
      BY <2>8, <3>1 DEF Placed, Voided, Forfeited, Has
  <2>11. score(told) = score(records)
    BY <2>4, <2>7, <2>9, <2>10, ScoreStays
  <2>12. Scored = score(records)
    BY <2>5 DEF Scored, FaultsRecorded, Voided, score
  <2>13. score(records)' = score(told)
    BY <2>8 DEF score, Has, FirstOf, LastOf
  <2>14. Last(records)' = r /\ MovesOf(records)' = MovesOf(records)
    BY <2>4, Knowing, MovesCounted
  <2>15. Conclusive(r)'
    BY <2>4, <2>6, <2>7, BoardRecorded DEF Conclusive
  <2> QED
    BY <2>6, <2>11, <2>12, <2>13, <2>14, <2>15 DEF Concluded
<1> QED BY <1>1, <1>2

\* The file once an append went through or was lost.
LEMMA FileStep ==
  ASSUME TurnsInv, FileKnown, Next
  PROVE  FileKnown'
<1> USE TypedParts DEF TurnsInv
<1>0. /\ DiskTyped /\ Len(records) \in Nat /\ DOMAIN records = 1..Len(records) /\ faults \in Nat
      /\ IsSeq(file) /\ Len(file) \in Nat /\ DOMAIN file = 1..Len(file)
  <2>1. DiskTyped /\ IsSeq(file)
    BY DEF FileKnown
  <2>2. Len(file) \in Nat /\ DOMAIN file = 1..Len(file)
    BY <2>1, Appending
  <2> QED
    BY <2>1, <2>2 DEF DiskTyped
<1>9. Torn => Len(file) # Len(records)
  <2>1. Torn => Len(file) = Len(records) + 1
    BY DEF Torn
  <2>2. \A n \in Nat : n + 1 # n
    OBVIOUS
  <2> QED
    BY <1>0, <2>1, <2>2
\* A line that was not acknowledged stays one, as long as nothing is written.
<1>1. ASSUME NEW x, Unacknowledged(x), records' = records,
             pc \in AfterResult => pc' \in AfterResult /\ UNCHANGED <<position, turn, outcome>>
      PROVE  Unacknowledged(x)'
  <2>1. Committed' <=> Committed
    BY <1>1, KnowingNothingNew
  <2>2. UNCHANGED <<position, turn>> => (OnBoard' <=> OnBoard)
    BY <1>1, NothingRecorded
  <2> QED
    BY <1>1, <2>1, <2>2 DEF Unacknowledged, Conclusive
<1>2. ASSUME UNCHANGED <<records, file>>, faults' \in {faults, faults + 1},
             pc \in AfterResult => pc' \in AfterResult /\ UNCHANGED <<position, turn, outcome>>
      PROVE  FileKnown'
  <2>1. CASE Intact
    BY <1>2, <2>1 DEF FileKnown, Intact, verify_chain, IsSeq
  <2>2. CASE faults > 0 /\ Torn /\ Unacknowledged(file[Len(file)].record)
    <3>1. PICK x : x = file[Len(file)].record
      OBVIOUS
    <3>2. Unacknowledged(x)'
      BY <1>1, <1>2, <2>2, <3>1
    <3>3. Unacknowledged(file[Len(file)].record)'
      BY <1>2, <3>1, <3>2
    <3> QED
      BY <1>0, <1>2, <2>2, <3>3 DEF FileKnown, Torn, verify_chain, IsSeq
  <2>3. CASE faults > 0 /\ ~verify_chain(file)
    BY <1>0, <1>2, <2>3 DEF FileKnown, verify_chain, IsSeq
  <2> QED
    BY <2>1, <2>2, <2>3 DEF FileKnown
<1>3. ASSUME Quiet PROVE FileKnown'
  BY <1>2, <1>3, NothingFollows DEF Quiet
<1>4. ASSUME NEW r, NEW next, NEW handler, Writing(r, next, handler), Record(r, next, handler)
      PROVE  FileKnown'
  <2>0. pc \notin AfterResult /\ ~Committed
    BY <1>4, WrittenKinds, NothingVoided
  <2> DEFINE line == Line(r, Len(records))
  <2>1. line.record = r /\ line.seq = Len(records)
    BY DEF Line
  <2>2. PICK l : l = line
    OBVIOUS
  <2>3. PICK more : more = Append(file, l)
    OBVIOUS
  <2>4. /\ IsSeq(more) /\ Len(more) = Len(file) + 1 /\ DOMAIN more = 1..(Len(file) + 1)
        /\ \A i \in DOMAIN file : more[i] = file[i] /\ i \in DOMAIN more
        /\ more[Len(file) + 1] = l /\ Len(file) + 1 \in DOMAIN more
        /\ \A i \in DOMAIN more : i \in DOMAIN file \/ i = Len(file) + 1
    BY <1>0, <2>3, Appending
  <2>5. l.record = r /\ l.seq = Len(records)
    BY <2>1, <2>2
  <2> HIDE DEF line
  <2>6. verify_chain(more) <=> (verify_chain(file) /\ Len(file) = Len(records))
    <3>1. ASSUME verify_chain(more) PROVE verify_chain(file) /\ Len(file) = Len(records)
      <4>1. \A i \in DOMAIN more : more[i].seq = i - 1
        BY <3>1 DEF verify_chain
      <4>2. \A i \in DOMAIN file : file[i].seq = i - 1
        BY <2>4, <4>1
      <4>3. l.seq = Len(file) + 1 - 1
        BY <2>4, <4>1
      <4> QED
        BY <1>0, <2>5, <4>2, <4>3 DEF verify_chain
    <3>2. ASSUME verify_chain(file), Len(file) = Len(records) PROVE verify_chain(more)
      <4>1. \A i \in DOMAIN file : more[i].seq = i - 1
        BY <2>4, <3>2 DEF verify_chain
      <4>2. more[Len(file) + 1].seq = Len(file) + 1 - 1
        BY <1>0, <2>4, <2>5, <3>2
      <4> QED
        BY <2>4, <4>1, <4>2 DEF verify_chain
    <3> QED
      BY <3>1, <3>2
  <2>7. CASE Chained(r)
    <3>1. file' = more /\ faults' = faults
      BY <2>2, <2>3, <2>7 DEF Chained, line
    <3>2. PICK told : told = records'
      OBVIOUS
    <3>3. Appended(told, r)
      BY <1>0, <2>7, <3>2, Chaining
    <3>4. CASE Intact
      <4>1. Len(more) = Len(told) /\ \A i \in DOMAIN more : more[i].record = told[i]
        BY <1>0, <2>4, <2>5, <3>3, <3>4 DEF Intact, Appended
      <4>2. verify_chain(more)
        BY <2>6, <3>4 DEF Intact
      <4> QED
        BY <2>4, <3>1, <3>2, <4>1, <4>2 DEF FileKnown, Intact, IsSeq, verify_chain
    <3>5. CASE faults > 0 /\ (~verify_chain(file) \/ Torn)
      <4>1. ~verify_chain(more)
        <5>1. CASE ~verify_chain(file)
          BY <2>6, <5>1
        <5>2. CASE Torn
          BY <1>9, <2>6, <5>2
        <5> QED
          BY <3>5, <5>1, <5>2
      <4> QED
        BY <2>4, <3>1, <3>5, <4>1 DEF FileKnown, IsSeq, verify_chain
    <3> QED
      BY <3>4, <3>5 DEF FileKnown
  <2>8. CASE Lost(r) /\ pc' = handler
    <3>1. records' = records /\ faults' = faults + 1
      BY <2>8 DEF Lost
    <3>2. CASE file' = file
      BY <1>2, <2>0, <3>1, <3>2
    <3>3. CASE file' = more /\ Intact
      <4>1. verify_chain(more) /\ Len(more) = Len(records) + 1
            /\ \A i \in DOMAIN records : more[i].record = records[i]
        BY <1>0, <2>4, <2>6, <3>3 DEF Intact
      <4>2. more[Len(more)].record = r
        BY <2>4, <2>5
      <4>3. r.kind = "result" => pc' \in AfterResult /\ Conclusive(r)
                                 /\ UNCHANGED <<position, turn, outcome>>
        <5>1. SUFFICES ASSUME r.kind = "result"
                       PROVE  pc' \in AfterResult /\ Conclusive(r)
                              /\ UNCHANGED <<position, turn, outcome>>
          OBVIOUS
        <5>2. pc \in {"commit", "commit_void"}
          BY <1>4, <5>1, WrittenKinds
        <5>3. /\ r = Result(Scored, MovesOf(records)) /\ UNCHANGED <<position, turn, outcome>>
              /\ handler = "unwind"
          BY <1>4, <5>2 DEF Writing, Setting, Playing, Closing
        <5> QED
          BY <2>8, <5>2, <5>3, ResultConclusive DEF AfterResult
      <4>4. Unacknowledged(r)'
        <5>1. Committed' <=> Committed
          BY <3>1, KnowingNothingNew
        <5>2. UNCHANGED <<position, turn>> => (OnBoard' <=> OnBoard)
          BY <3>1, NothingRecorded
        <5> QED
          BY <2>0, <4>3, <5>1, <5>2 DEF Unacknowledged, Conclusive
      <4>5. Unacknowledged(file[Len(file)].record)'
        BY <3>3, <4>2, <4>4
      <4>6. Torn' /\ faults' > 0 /\ IsSeq(file)'
        BY <1>0, <2>4, <3>1, <3>3, <4>1 DEF Torn, verify_chain, IsSeq
      <4> QED
        BY <4>5, <4>6 DEF FileKnown
    <3>4. CASE file' = more /\ (Torn \/ ~verify_chain(file))
      <4>1. ~verify_chain(more)
        <5>1. CASE ~verify_chain(file)
          BY <2>6, <5>1
        <5>2. CASE Torn
          BY <1>9, <2>6, <5>2
        <5> QED
          BY <3>4, <5>1, <5>2
      <4> QED
        BY <1>0, <2>4, <3>1, <3>4, <4>1 DEF FileKnown, IsSeq, verify_chain
    <3>5. file' = file \/ file' = more
      BY <2>2, <2>3, <2>8 DEF Lost, line
    <3> QED
      BY <3>2, <3>3, <3>4, <3>5 DEF FileKnown
  <2> QED
    BY <1>4, <2>7, <2>8 DEF Record
<1> QED
  BY <1>3, <1>4, EveryStepWrites

\* Nothing is on record at first.
LEMMA ReplayInit == Init => ReplayInv
<1> SUFFICES ASSUME Init PROVE ReplayInv
  OBVIOUS
<1>1. Len(records) = 0 /\ Len(file) = 0 /\ DOMAIN records = {} /\ DOMAIN file = {} /\ pc = "open"
  BY DEF Init
<1>2. ~Placed /\ ~Committed
  BY <1>1 DEF Placed, Committed, Has
<1>3. RecordsInOrder
  BY <1>1, <1>2 DEF RecordsInOrder, AtMostOne, BeforePlay
<1>4. EvidenceRecorded
  BY <1>1 DEF EvidenceRecorded
<1>5. Recomputed(Replayed(records))
  <2>1. PICK v : v = Replayed(records)
    OBVIOUS
  <2>2. v = Fresh
    BY <1>1, <2>1, ReplayedNothing
  <2>3. Recomputed(v)
    BY <1>1, <1>2, <2>2 DEF Recomputed, InPlay
  <2> QED BY <2>1, <2>3
<1>6. FileKnown
  <2>1. IsSeq(file)
    BY DEF Init, IsSeq
  <2> QED
    BY <1>1, <2>1 DEF FileKnown, Intact, verify_chain
<1> QED
  BY <1>2, <1>3, <1>4, <1>5, <1>6 DEF ReplayInv, Concluded

\* Every step of the match keeps the replay invariant.
LEMMA ReplayStep ==
  ASSUME TurnsInv, TurnsInv', ReplayInv, [Next]_vars
  PROVE  ReplayInv'
<1>1. CASE Next
  <2>1. RecordsInOrder' /\ EvidenceRecorded' /\ Recomputed(Replayed(records))'
    BY <1>1, OrderStep, EvidenceStep, RecomputedStep DEF ReplayInv
  <2>2. Concluded' /\ FileKnown'
    BY <1>1, ConcludedStep, FileStep DEF ReplayInv, TurnsInv
  <2> QED
    BY <2>1, <2>2 DEF ReplayInv
<1>2. CASE UNCHANGED vars
  <2>1. /\ Committed' <=> Committed
        /\ Voided' <=> Voided
        /\ Placed' <=> Placed
        /\ OnBoard' <=> OnBoard
        /\ Last(records)' = Last(records)
    BY <1>2, KnowingNothingNew, NothingRecorded DEF vars
  <2>2. RecordsInOrder'
    BY <1>2, <2>1 DEF ReplayInv, RecordsInOrder, vars, AtMostOne
  <2>3. EvidenceRecorded'
    BY <1>2, <2>1 DEF ReplayInv, EvidenceRecorded, vars, RejectedAt
  <2>4. Recomputed(Replayed(records))'
    <3>1. PICK v : v = Replayed(records)
      OBVIOUS
    <3>2. Replayed(records)' = v
      BY <1>2, <3>1 DEF vars
    <3>3. Recomputed(v)
      BY <3>1 DEF ReplayInv
    <3>4. Recomputed(v)'
      BY <1>2, <2>1, <3>3 DEF Recomputed, Unplaced, AtError, vars
    <3> QED
      BY <3>2, <3>4 DEF Recomputed
  <2>5. Concluded'
    BY <1>2, <2>1 DEF ReplayInv, Concluded, Conclusive, vars, score, Has, FirstOf, LastOf, MovesOf
  <2>6. FileKnown'
    BY <1>2, <2>1 DEF ReplayInv, FileKnown, Intact, Torn, Unacknowledged, Conclusive, vars, IsSeq,
       verify_chain
  <2> QED
    BY <2>2, <2>3, <2>4, <2>5, <2>6 DEF ReplayInv
<1> QED BY <1>1, <1>2

\* What the verifier makes of the records of a match at every stage of it, what the
\* result says and what the file holds (run_match and verify).
THEOREM ReplayInvariant == Spec => []ReplayInv
<1>1. Init => TurnsInv /\ ReplayInv
  BY TurnsInit, ReplayInit
<1>2. TurnsInv /\ ReplayInv /\ [Next]_vars => TurnsInv' /\ ReplayInv'
  BY TurnsStep, ReplayStep
<1> QED
  BY <1>1, <1>2, PTL DEF Spec

\* The records of a file are a transcript of as many records as it has lines.
LEMMA RecordsOfFile ==
  ASSUME NEW f, IsSeq(f), NEW rs, rs = RecordsOf(f)
  PROVE  /\ Len(f) \in Nat /\ DOMAIN f = 1..Len(f)
         /\ IsSeq(rs) /\ Len(rs) = Len(f) /\ DOMAIN rs = 1..Len(f)
         /\ \A i \in DOMAIN f : rs[i] = f[i].record
<1>1. Len(f) \in Nat /\ DOMAIN f = 1..Len(f)
  BY Appending
<1>2. rs = [i \in 1..Len(f) |-> f[i].record]
  BY <1>1 DEF RecordsOf
<1>3. DOMAIN rs = 1..Len(f) /\ \A i \in 1..Len(f) : rs[i] = f[i].record
  BY <1>2
<1>4. PICK S : S = {rs[i] : i \in DOMAIN rs}
  OBVIOUS
<1>5. rs \in [1..Len(f) -> S]
  BY <1>2, <1>3, <1>4
<1>6. rs \in Seq(S) /\ Len(rs) = Len(f)
  BY <1>1, <1>5
<1> QED
  BY <1>1, <1>3, <1>4, <1>6 DEF IsSeq

\* What the file of a match holds when its chain is whole.
LEMMA WholeFile ==
  ASSUME TurnsInv, ReplayInv, verify_chain(file), NEW rs, rs = RecordsOf(file)
  PROVE  /\ IsSeq(rs) /\ IsSeq(records)
         /\ \/ rs = records
            \/ ~Committed /\ Appended(rs, Last(rs)) /\ Unacknowledged(Last(rs))
<1>1. /\ IsSeq(file) /\ Len(records) \in Nat /\ DOMAIN records = 1..Len(records) /\ IsSeq(records)
  BY DEF ReplayInv, FileKnown, TurnsInv, TurnsTyped, IsSeq
<1>2. /\ Len(file) \in Nat /\ DOMAIN file = 1..Len(file)
      /\ IsSeq(rs) /\ Len(rs) = Len(file) /\ DOMAIN rs = 1..Len(file)
      /\ \A i \in DOMAIN file : rs[i] = file[i].record
  BY <1>1, RecordsOfFile
<1>3. CASE Intact
  <2>1. DOMAIN rs = DOMAIN records /\ \A i \in DOMAIN rs : rs[i] = records[i]
    BY <1>1, <1>2, <1>3 DEF Intact
  <2>2. rs = [i \in DOMAIN rs |-> rs[i]] /\ records = [i \in DOMAIN records |-> records[i]]
    <3>1. \A s : IsSeq(s) => s = [i \in DOMAIN s |-> s[i]]
      BY DEF IsSeq
    <3> QED BY <1>1, <1>2, <3>1
  <2>3. rs = records
    BY <2>1, <2>2
  <2> QED BY <1>1, <1>2, <2>3
<1>4. CASE Torn /\ Unacknowledged(file[Len(file)].record)
  <2>1. Len(rs) = Len(records) + 1 /\ Len(file) = Len(records) + 1
    BY <1>2, <1>4 DEF Torn
  <2>2. Last(rs) = file[Len(file)].record /\ Last(rs) = rs[Len(rs)]
    BY <1>1, <1>2, <2>1 DEF Last
  <2>3. Appended(rs, Last(rs))
    BY <1>1, <1>2, <1>4, <2>1, <2>2 DEF Torn, Appended
  <2> QED
    BY <1>1, <1>2, <1>4, <2>2, <2>3 DEF Unacknowledged
<1> QED
  BY <1>3, <1>4 DEF ReplayInv, FileKnown

\* The last record of a committed match is its result.
LEMMA ResultIsLast ==
  ASSUME TurnsInv, Committed
  PROVE  /\ Len(records) \in Nat /\ Len(records) > 0 /\ DOMAIN records = 1..Len(records)
         /\ Last(records) = records[Len(records)] /\ records[Len(records)].kind = "result"
         /\ pc \in AfterResult
<1>1. Len(records) \in Nat /\ DOMAIN records = 1..Len(records)
  BY DEF TurnsInv, TurnsTyped
<1>2. Len(records) > 0
  BY <1>1 DEF Committed, Has
<1> QED
  BY <1>1, <1>2 DEF TurnsInv, TurnsClosed, Last

\* A committed match whose chain is whole replays.
LEMMA HonestReplays ==
  ASSUME TurnsInv, ReplayInv
  PROVE  HonestMatchesReplay
<1> SUFFICES ASSUME Committed, verify_chain(file), ~Runtime(records), ~Has(records, "abort"),
                    ~ForfeitThenError(records)
             PROVE  verify(file)
  BY DEF HonestMatchesReplay
<1>1. PICK rs : rs = RecordsOf(file)
  OBVIOUS
<1>2. rs = records /\ IsSeq(rs)
  BY <1>1, WholeFile
<1>3. /\ Len(rs) \in Nat /\ Len(rs) > 0 /\ DOMAIN rs = 1..Len(rs)
      /\ Last(rs) = rs[Len(rs)] /\ rs[Len(rs)].kind = "result" /\ pc \in AfterResult
  BY <1>2, ResultIsLast
<1>4. file # <<>>
  <2>1. Len(rs) = Len(file)
    BY <1>1, RecordsOfFile DEF ReplayInv, FileKnown
  <2> QED BY <1>3, <2>1
<1>5. Structured(rs)
  BY <1>2, <1>3 DEF ReplayInv, RecordsInOrder, Structured
<1>6. PICK v : v = Replayed(rs)
  OBVIOUS
<1>7. Recomputed(v) /\ Placed
  BY <1>2, <1>6 DEF ReplayInv, RecordsInOrder
<1>8. v.setup /\ v.states /\ v.moves
  <2>1. v = Verified(v.computed, v.turn, v.expected)
    BY <1>7 DEF Recomputed, Verifying
  <2> QED BY <2>1 DEF Verified
<1>9. v.computed # Nobody /\ v.expected => ClosedByVoid(rs)
  <2>1. SUFFICES ASSUME v.expected PROVE ClosedByVoid(rs)
    OBVIOUS
  <2>2. v.expected = TRUE
    BY <1>7, <2>1 DEF Recomputed, Verifying
  <2>3. Unplaced
    BY <1>7, <2>2 DEF Recomputed
  <2>4. AtError(records, Len(records) - 1)
    BY <1>2, <1>3, <2>3 DEF Unplaced, AtError, AfterResult, Swept
  <2> QED
    BY <1>2, <1>3, <2>4 DEF AtError, ClosedByVoid
<1>10. ASSUME NEW i \in DOMAIN rs, rs[i].kind = "forfeit"
       PROVE  ~Voided /\ rs[i].reason = "illegal_move"
  BY <1>2, <1>10 DEF Runtime, ForfeitThenError, Has, Voided
<1>11. replayable_forfeit_evidence(rs)
  <2>1. SUFFICES ASSUME NEW i \in DOMAIN rs, rs[i].kind = "forfeit"
                 PROVE  /\ rs[i].reason = "illegal_move" /\ i = Len(rs) - 1 /\ i > 1
                        /\ rs[i - 1].kind = "move" /\ rs[i - 1].player = rs[i].player
                        /\ rs[i - 1].turn = rs[i].turn /\ rs[i - 1].legal = FALSE
    BY DEF replayable_forfeit_evidence
  <2>2. ~Voided /\ rs[i].reason = "illegal_move"
    BY <1>10, <2>1
  <2>3. /\ RejectedAt(rs, i - 1, rs[i].player, rs[i].turn)
        /\ i = Len(rs) \/ i = Len(rs) - 1
    BY <1>2, <2>1, <2>2 DEF ReplayInv, EvidenceRecorded
  <2>4. i # Len(rs)
    BY <1>3, <2>1
  <2> QED
    BY <1>3, <2>2, <2>3, <2>4 DEF RejectedAt
<1>12. Last(rs) = Result(score(rs), MovesOf(rs))
  BY <1>2 DEF ReplayInv, Concluded
<1>13. Adjudicated(rs)
  <2>1. SUFFICES ASSUME Has(rs, "forfeit")
                 PROVE  Last(rs).winner = 1 - FirstOf(rs, "forfeit").player
    BY DEF Adjudicated
  <2>2. ~Has(rs, "engine_error") /\ Has(rs, "state")
    BY <1>2, <1>7, <2>1 DEF ForfeitThenError, Placed
  <2>3. score(rs) = ForfeitedBy(FirstOf(rs, "forfeit"))
    BY <2>1, <2>2 DEF score
  <2>4. score(rs).winner = 1 - FirstOf(rs, "forfeit").player
    BY <2>3 DEF ForfeitedBy, Outcome
  <2>5. PICK o : o = score(rs)
    OBVIOUS
  <2>6. Result(o, MovesOf(rs)).winner = o.winner
    BY DEF Result
  <2> QED
    BY <1>12, <2>4, <2>5, <2>6
<1>14. AtMostOne(rs, "engine_error") /\ ~Has(rs, "abort")
  BY <1>2 DEF ReplayInv, RecordsInOrder
<1> QED
  BY <1>1, <1>4, <1>5, <1>6, <1>8, <1>9, <1>11, <1>12, <1>13, <1>14 DEF verify

\* A file that replays to PASS tells the truth about the match.
LEMMA PassTells ==
  ASSUME TurnsInv, ReplayInv
  PROVE  PassTellsTheMatch
<1> SUFFICES ASSUME verify(file) PROVE PassTellsTheMatch
  BY DEF PassTellsTheMatch
<1>1. PICK rs : rs = RecordsOf(file)
  OBVIOUS
<1>2. verify_chain(file) /\ Structured(rs) /\ replayable_forfeit_evidence(rs) /\ file # <<>>
  BY <1>1 DEF verify
<1>3. /\ IsSeq(rs) /\ IsSeq(records)
      /\ \/ rs = records
         \/ ~Committed /\ Appended(rs, Last(rs)) /\ Unacknowledged(Last(rs))
  BY <1>1, <1>2, WholeFile
<1>4. Len(rs) \in Nat /\ Len(rs) > 0 /\ DOMAIN rs = 1..Len(rs) /\ Last(rs) = rs[Len(rs)]
  <2>1. IsSeq(file) /\ Len(rs) = Len(file)
    BY <1>1, RecordsOfFile DEF ReplayInv, FileKnown
  <2>2. Len(file) # 0
    BY <1>2, <2>1 DEF IsSeq
  <2> QED
    BY <1>3, <2>1, <2>2, Appending DEF Last
<1>5. Last(rs).kind = "result"
  BY <1>2, <1>4 DEF Structured
<1>6. /\ Conclusive(Last(rs))
      /\ OnBoard => \E i \in DOMAIN rs : LastStateAt(rs, i) /\ rs[i] = State(position, turn)
  <2>1. CASE rs = records
    <3>1. Committed
      BY <1>4, <1>5, <2>1 DEF Committed, Has
    <3> QED
      BY <2>1, <3>1 DEF ReplayInv, Concluded, OnBoard
  <2>2. CASE Appended(rs, Last(rs)) /\ Unacknowledged(Last(rs))
    <3>1. Conclusive(Last(rs))
      BY <1>5, <2>2 DEF Unacknowledged
    <3>2. DiskTyped
      BY TypedParts DEF TurnsInv
    <3>3. \A i \in DOMAIN records :
             LastStateAt(records, i) => i \in DOMAIN rs /\ rs[i] = records[i] /\ LastStateAt(rs, i)
      BY <1>5, <2>2, <3>2, Placing
    <3> QED
      BY <3>1, <3>3 DEF OnBoard
  <2> QED BY <1>3, <2>1, <2>2
<1>7. OnBoard => LastOf(rs, "state") = State(position, turn)
  BY <1>3, <1>6, LastStateIsLast
<1>8. OnBoard => LastOf(rs, "state").position = position /\ LastOf(rs, "state").turn = turn
  BY <1>7 DEF State
<1>9. ~Runtime(rs)
  BY <1>2 DEF Runtime, replayable_forfeit_evidence
<1>10. Nobody \notin Seats
  BY MatchAssumption
<1> QED
  BY <1>1, <1>6, <1>8, <1>9, <1>10 DEF Conclusive, PassTellsTheMatch

\* A committed match replays to PASS (run_match against verify), unless it was ruled on
\* the clock or the process, aborted, or failed after a forfeit.
THEOREM HonestReplay == Spec => []HonestMatchesReplay
<1>1. TurnsInv /\ ReplayInv => HonestMatchesReplay
  BY HonestReplays
<1> QED
  BY <1>1, MatchInvariant, ReplayInvariant, PTL

\* A file that verify passes tells the truth about the match that wrote it, wherever
\* run_match was cut short.
THEOREM PassIsTrue == Spec => []PassTellsTheMatch
<1>1. TurnsInv /\ ReplayInv => PassTellsTheMatch
  BY PassTells
<1> QED
  BY <1>1, MatchInvariant, ReplayInvariant, PTL

\* A result is "the head of a chain that anyone can recompute from the file" as long as
\* no operation of the referee failed (TranscriptWriter.append); a failed append is what
\* may break it.
THEOREM FaultlessResults == Spec => [](faults = 0 => ResultsAreRecomputable)
<1>1. ReplayInv => (faults = 0 => ResultsAreRecomputable)
  BY DEF ReplayInv, FileKnown, Intact, ResultsAreRecomputable
<1> QED
  BY <1>1, ReplayInvariant, PTL

------------------------------------------------------------------------------
(* The verifier and any file.  After every record that it has not refused,   *)
(* what it holds is the position on the table, and all records of the game   *)
(* that it has read stand on one another.                                    *)
Moved(rs, n, k, v) ==
    /\ k \in 1..n /\ Accepted(rs[k])
    /\ \A l \in DOMAIN rs : k < l /\ l <= n => ~OfTheGame(rs[l])
    /\ \E j \in DOMAIN rs :
          /\ StandsAt(rs, j, k)
          /\ v.computed = Apply(rs[j].position, rs[k].move)
          /\ v.turn = rs[j].turn + 1

ReadSoFar(rs, n) ==
    \A i \in 1..n :
        /\ rs[i].kind = "move" => RightlyRuled(rs, i)
        /\ rs[i].kind = "state" => RightlyPlaced(rs, i) /\ rs[i].position \in Positions

NothingPlayed(rs, n, v) ==
    /\ v.computed = Nobody /\ v.expected = TRUE /\ v.turn = 0 /\ v.setup = FALSE
    /\ \A i \in 1..n : ~OfTheGame(rs[i])
OnTable(rs, n, v) ==
    /\ v.computed \in Positions /\ v.expected = FALSE
    /\ \E j \in DOMAIN rs : /\ StandsAt(rs, j, n + 1)
                            /\ v.computed = rs[j].position /\ v.turn = rs[j].turn
JustMoved(rs, n, v) ==
    /\ v.computed \in Positions /\ v.expected = TRUE
    /\ \E k \in DOMAIN rs : Moved(rs, n, k, v)

VerifierTyped(v) ==
    /\ DOMAIN v = VerifierFields
    /\ v.expected \in BOOLEAN /\ v.setup \in BOOLEAN /\ v.states \in BOOLEAN /\ v.moves \in BOOLEAN
Unrefused(v) == v.states = TRUE /\ v.moves = TRUE
Told(rs, n, v) ==
    /\ ReadSoFar(rs, n)
    /\ NothingPlayed(rs, n, v) \/ OnTable(rs, n, v) \/ JustMoved(rs, n, v)

Readable(rs) == IsSeq(rs) /\ \A i \in DOMAIN rs : WellFormed(rs[i])

\* What the verifier makes of a position or a move that it does not refuse.
PlacedOn(v, r, w) ==
    /\ v.computed = Nobody => w.computed = Opening
    /\ v.computed # Nobody => w.computed = v.computed
    /\ w.turn = v.turn /\ w.expected = FALSE
    /\ v.expected = TRUE /\ r.turn = v.turn /\ r.position = w.computed
RuledBy(v, r, w) ==
    /\ WellPlaced(v, r) /\ (Legal(v.computed, r.move) <=> r.legal)
    /\ r.legal = FALSE => w = v
    /\ r.legal = TRUE => /\ w.computed = Apply(v.computed, r.move)
                         /\ w.turn = v.turn + 1 /\ w.expected = TRUE

\* A position is refused, or it is the one expected.
LEMMA StateRead ==
  ASSUME NEW v, VerifierTyped(v), NEW r, r.kind = "state", NEW w, w = ReplayRecord(v, r)
  PROVE  VerifierTyped(w) /\ (Unrefused(w) => Unrefused(v) /\ PlacedOn(v, r, w))
<1>1. PICK target : target = IF v.computed = Nobody THEN Opening ELSE v.computed
  OBVIOUS
<1>2. PICK ok \in BOOLEAN : ok <=> v.expected /\ r.turn = v.turn /\ r.position = target
  OBVIOUS
<1>3. PICK opening \in BOOLEAN : opening <=> v.computed = Nobody
  OBVIOUS
<1>4. w = [v EXCEPT !.computed = target, !.expected = FALSE, !.states = @ /\ ok,
                    !.setup = IF opening THEN ok ELSE @]
  BY <1>1, <1>2, <1>3 DEF ReplayRecord, ReplayState
<1>5. /\ DOMAIN w = VerifierFields /\ w.computed = target /\ w.expected = FALSE
      /\ w.turn = v.turn /\ w.moves = v.moves
      /\ w.states = (v.states /\ ok) /\ w.setup = (IF opening THEN ok ELSE v.setup)
  BY <1>4 DEF VerifierTyped, VerifierFields
<1>6. VerifierTyped(w)
  BY <1>5 DEF VerifierTyped
<1>7. Unrefused(w) => Unrefused(v) /\ ok = TRUE
  BY <1>5 DEF VerifierTyped, Unrefused
<1>8. ok = TRUE => PlacedOn(v, r, w)
  BY <1>1, <1>2, <1>5 DEF PlacedOn, VerifierTyped
<1> QED
  BY <1>6, <1>7, <1>8

\* A move is refused, or rightly rejected, or played.
LEMMA MoveRead ==
  ASSUME NEW v, VerifierTyped(v), NEW r, r.kind = "move", r.legal \in BOOLEAN,
         NEW w, w = ReplayRecord(v, r)
  PROVE  VerifierTyped(w) /\ (Unrefused(w) => Unrefused(v) /\ RuledBy(v, r, w))
<1>1. w = ReplayMove(v, r)
  BY DEF ReplayRecord
<1>2. CASE ~WellPlaced(v, r) \/ ~(Legal(v.computed, r.move) <=> r.legal)
  <2>1. w = [v EXCEPT !.moves = FALSE]
    BY <1>1, <1>2 DEF ReplayMove
  <2>2. /\ DOMAIN w = VerifierFields /\ w.moves = FALSE /\ w.states = v.states
        /\ w.setup = v.setup /\ w.expected = v.expected
    BY <2>1 DEF VerifierTyped, VerifierFields
  <2> QED
    BY <2>2 DEF VerifierTyped, Unrefused
<1>3. CASE WellPlaced(v, r) /\ (Legal(v.computed, r.move) <=> r.legal) /\ r.legal = TRUE
  <2>1. w = [v EXCEPT !.computed = Apply(@, r.move), !.turn = @ + 1, !.expected = TRUE]
    BY <1>1, <1>3 DEF ReplayMove
  <2>2. /\ DOMAIN w = VerifierFields /\ w.moves = v.moves /\ w.states = v.states
        /\ w.setup = v.setup /\ w.expected = TRUE /\ w.turn = v.turn + 1
        /\ w.computed = Apply(v.computed, r.move)
    BY <2>1 DEF VerifierTyped, VerifierFields
  <2>3. VerifierTyped(w) /\ (Unrefused(w) => Unrefused(v))
    BY <2>2 DEF VerifierTyped, Unrefused
  <2> QED
    BY <1>3, <2>2, <2>3 DEF RuledBy
<1>4. CASE WellPlaced(v, r) /\ (Legal(v.computed, r.move) <=> r.legal) /\ r.legal = FALSE
  <2>1. w = v
    BY <1>1, <1>4 DEF ReplayMove
  <2> QED
    BY <1>4, <2>1 DEF RuledBy
<1> QED
  BY <1>2, <1>3, <1>4

\* Every record leaves the verifier typed, and none takes back a refusal.
LEMMA RecordRead ==
  ASSUME NEW v, VerifierTyped(v), NEW r, WellFormed(r), NEW w, w = ReplayRecord(v, r)
  PROVE  VerifierTyped(w) /\ (Unrefused(w) => Unrefused(v))
<1>1. CASE r.kind = "state"
  BY <1>1, StateRead
<1>2. CASE r.kind = "move"
  BY <1>2, MoveRead DEF WellFormed
<1>3. CASE r.kind \notin {"state", "move"}
  BY <1>3, ReplayOther
<1> QED BY <1>1, <1>2, <1>3

\* The fields of the verifier keep their types over the whole file.
LEMMA PassTyped ==
  ASSUME NEW rs, Readable(rs), NEW n \in 0..Len(rs)
  PROVE  VerifierTyped(Pass(rs)[n])
<1> DEFINE S == {k \in Nat : k <= Len(rs) /\ ~VerifierTyped(Pass(rs)[k])}
<1>0. Len(rs) \in Nat /\ DOMAIN rs = 1..Len(rs)
  BY Appending DEF Readable
<1> SUFFICES ASSUME S # {} PROVE FALSE
  BY <1>0
<1>1. PICK m \in S : \A k \in S : m <= k
  BY LeastOf
<1>2. m # 0
  <2>1. PICK v : v = Fresh
    OBVIOUS
  <2>2. VerifierTyped(v)
    BY <2>1 DEF VerifierTyped, Fresh, VerifierFields
  <2> QED BY <1>0, <1>1, <2>1, <2>2, PassEquation
<1>3. m \in 1..Len(rs) /\ m - 1 \in Nat /\ m - 1 <= Len(rs) /\ ~(m - 1 \in S)
  BY <1>0, <1>1, <1>2
<1>4. VerifierTyped(Pass(rs)[m - 1])
  BY <1>3
<1>5. Pass(rs)[m] = ReplayRecord(Pass(rs)[m - 1], rs[m])
  BY <1>0, <1>3, PassEquation
<1>6. VerifierTyped(Pass(rs)[m])
  BY <1>0, <1>3, <1>4, <1>5, RecordRead DEF Readable
<1> QED BY <1>1, <1>6

\* The number of a record is among those read, or it is the one read last.
LEMMA OneMoreRead ==
  ASSUME NEW rs, Readable(rs), NEW n \in 1..Len(rs)
  PROVE  /\ Len(rs) \in Nat /\ DOMAIN rs = 1..Len(rs) /\ n - 1 \in Nat /\ n - 1 + 1 = n
         /\ \A i \in 1..n : i \in 1..(n - 1) \/ i = n
         /\ 1..(n - 1) \subseteq DOMAIN rs
  BY Appending DEF Readable

\* A record that is not one of the game leaves everything standing.
LEMMA OtherTold ==
  ASSUME NEW rs, Readable(rs), NEW n \in 1..Len(rs), NEW v, Told(rs, n - 1, v),
         ~OfTheGame(rs[n])
  PROVE  Told(rs, n, v)
<1> USE OneMoreRead
<1>1. ReadSoFar(rs, n)
  BY DEF Told, ReadSoFar, OfTheGame
<1>2. CASE NothingPlayed(rs, n - 1, v)
  BY <1>1, <1>2 DEF Told, NothingPlayed
<1>3. CASE OnTable(rs, n - 1, v)
  <2>1. PICK j \in DOMAIN rs : /\ StandsAt(rs, j, n) /\ v.computed = rs[j].position
                               /\ v.turn = rs[j].turn
    BY <1>3 DEF OnTable
  <2>2. rs[n].kind # "state" /\ ~Accepted(rs[n])
    BY DEF OfTheGame, Accepted
  <2>3. StandsAt(rs, j, n + 1)
    BY <2>1, <2>2 DEF StandsAt
  <2> QED
    BY <1>1, <1>3, <2>1, <2>3 DEF Told, OnTable
<1>4. CASE JustMoved(rs, n - 1, v)
  <2>1. PICK k \in DOMAIN rs : Moved(rs, n - 1, k, v)
    BY <1>4 DEF JustMoved
  <2>2. Moved(rs, n, k, v)
    BY <2>1 DEF Moved
  <2> QED
    BY <1>1, <1>4, <2>1, <2>2 DEF Told, JustMoved
<1> QED
  BY <1>2, <1>3, <1>4 DEF Told

\* A position that is not refused is the opening or follows from the move before.
LEMMA StateTold ==
  ASSUME NEW rs, Readable(rs), NEW n \in 1..Len(rs), NEW v, VerifierTyped(v),
         Told(rs, n - 1, v), rs[n].kind = "state",
         NEW w, w = ReplayRecord(v, rs[n]), Unrefused(w)
  PROVE  Told(rs, n, w)
<1> USE OneMoreRead
<1>1. PlacedOn(v, rs[n], w)
  BY StateRead
<1>2. RightlyPlaced(rs, n) /\ w.computed \in Positions
  <2>1. CASE NothingPlayed(rs, n - 1, v)
    <3>1. \A k \in DOMAIN rs : k < n => ~OfTheGame(rs[k])
      BY <2>1 DEF NothingPlayed
    <3>2. rs[n].position = Opening /\ rs[n].turn = 0
      BY <1>1, <2>1 DEF NothingPlayed, PlacedOn
    <3> QED
      BY <1>1, <3>1, <3>2, GameAssumption DEF RightlyPlaced, PlacedOn
  <2>2. CASE JustMoved(rs, n - 1, v)
    <3>1. PICK k \in DOMAIN rs : Moved(rs, n - 1, k, v)
      BY <2>2 DEF JustMoved
    <3>2. v.computed \in Positions /\ w.computed = v.computed
      BY <1>1, <2>2, GameAssumption DEF JustMoved, PlacedOn
    <3>3. k < n /\ Accepted(rs[k]) /\ \A l \in DOMAIN rs : k < l /\ l < n => ~OfTheGame(rs[l])
      BY <3>1 DEF Moved
    <3>4. PICK j \in DOMAIN rs : /\ StandsAt(rs, j, k)
                                 /\ v.computed = Apply(rs[j].position, rs[k].move)
                                 /\ v.turn = rs[j].turn + 1
      BY <3>1 DEF Moved
    <3>5. FollowsFrom(rs, n, k)
      BY <1>1, <3>2, <3>3, <3>4 DEF FollowsFrom, PlacedOn
    <3> QED
      BY <3>2, <3>5 DEF RightlyPlaced
  <2>3. CASE OnTable(rs, n - 1, v)
    BY <1>1, <2>3 DEF OnTable, PlacedOn
  <2> QED
    BY <2>1, <2>2, <2>3 DEF Told
<1>3. ReadSoFar(rs, n)
  BY <1>1, <1>2 DEF Told, ReadSoFar, PlacedOn
<1>4. StandsAt(rs, n, n + 1)
  BY DEF StandsAt
<1>5. OnTable(rs, n, w)
  BY <1>1, <1>2, <1>4 DEF OnTable, PlacedOn
<1> QED
  BY <1>3, <1>5 DEF Told

\* A move that is not refused is judged by the position on the table, and leads to
\* the next one if it is accepted.
LEMMA MoveTold ==
  ASSUME NEW rs, Readable(rs), NEW n \in 1..Len(rs), NEW v, VerifierTyped(v),
         Told(rs, n - 1, v), rs[n].kind = "move",
         NEW w, w = ReplayRecord(v, rs[n]), Unrefused(w)
  PROVE  Told(rs, n, w)
<1> USE OneMoreRead
<1>0. rs[n].move \in Moves \union {Nobody} /\ rs[n].legal \in BOOLEAN
  BY DEF Readable, WellFormed
<1>1. RuledBy(v, rs[n], w)
  BY <1>0, MoveRead
<1>2. v.computed # Nobody /\ v.expected # TRUE
  BY <1>1 DEF WellPlaced, RuledBy
<1>3. OnTable(rs, n - 1, v)
  BY <1>2 DEF Told, NothingPlayed, JustMoved
<1>4. PICK j \in DOMAIN rs : /\ StandsAt(rs, j, n) /\ v.computed = rs[j].position
                             /\ v.turn = rs[j].turn
  BY <1>3 DEF OnTable
<1>5. RightlyRuled(rs, n)
  <2>1. rs[n].turn = v.turn /\ rs[n].player = v.computed.to_move /\ ~Over(v.computed)
    BY <1>1 DEF WellPlaced, RuledBy
  <2> QED
    BY <1>1, <1>4, <2>1 DEF RightlyRuled, RuledBy
<1>6. ReadSoFar(rs, n)
  BY <1>5 DEF Told, ReadSoFar
<1>7. CASE rs[n].legal = FALSE
  <2>1. ~Accepted(rs[n]) /\ w = v
    BY <1>1, <1>7 DEF Accepted, RuledBy
  <2>2. StandsAt(rs, j, n + 1)
    BY <1>4, <2>1 DEF StandsAt
  <2>3. OnTable(rs, n, w)
    BY <1>3, <1>4, <2>1, <2>2 DEF OnTable
  <2> QED
    BY <1>6, <2>3 DEF Told
<1>8. CASE rs[n].legal = TRUE
  <2>1. /\ Legal(v.computed, rs[n].move) /\ v.computed \in Positions
        /\ w.computed = Apply(v.computed, rs[n].move)
        /\ w.turn = v.turn + 1 /\ w.expected = TRUE
    BY <1>1, <1>3, <1>8 DEF OnTable, RuledBy
  <2>2. w.computed \in Positions
    BY <1>0, <2>1, GameAssumption
  <2>3. Accepted(rs[n]) /\ n \in 1..n
    BY <1>8 DEF Accepted
  <2>4. Moved(rs, n, n, w)
    BY <1>4, <2>1, <2>3 DEF Moved
  <2>5. JustMoved(rs, n, w)
    BY <2>1, <2>2, <2>4 DEF JustMoved
  <2> QED
    BY <1>6, <2>5 DEF Told
<1> QED
  BY <1>0, <1>7, <1>8

\* As long as nothing was refused, all that was read is as the rules have it.
LEMMA PassTold ==
  ASSUME NEW rs, Readable(rs), NEW n \in 0..Len(rs), Unrefused(Pass(rs)[n])
  PROVE  Told(rs, n, Pass(rs)[n])
<1> DEFINE S == {k \in Nat : k <= Len(rs) /\ Unrefused(Pass(rs)[k]) /\ ~Told(rs, k, Pass(rs)[k])}
<1>0. Len(rs) \in Nat /\ DOMAIN rs = 1..Len(rs)
  BY Appending DEF Readable
<1> SUFFICES ASSUME S # {} PROVE FALSE
  BY <1>0
<1>1. PICK m \in S : \A k \in S : m <= k
  BY LeastOf
<1>2. m # 0
  <2>1. PICK v : v = Fresh
    OBVIOUS
  <2>2. v.computed = Nobody /\ v.expected = TRUE /\ v.turn = 0 /\ v.setup = FALSE
    BY <2>1 DEF Fresh
  <2>3. Told(rs, 0, v)
    BY <2>2 DEF Told, NothingPlayed, ReadSoFar
  <2> QED BY <1>0, <1>1, <2>1, <2>3, PassEquation
<1>3. m \in 1..Len(rs) /\ m - 1 \in 0..Len(rs) /\ m - 1 \in Nat /\ m - 1 <= Len(rs) /\ ~(m - 1 \in S)
  BY <1>0, <1>1, <1>2
<1>4. PICK v : v = Pass(rs)[m - 1]
  OBVIOUS
<1>5. PICK w : w = Pass(rs)[m]
  OBVIOUS
<1>6. w = ReplayRecord(v, rs[m]) /\ VerifierTyped(v)
  BY <1>0, <1>3, <1>4, <1>5, PassEquation, PassTyped
<1>7. Unrefused(w) /\ WellFormed(rs[m])
  BY <1>0, <1>1, <1>3, <1>5 DEF Readable
<1>8. Unrefused(v)
  BY <1>6, <1>7, RecordRead
<1>9. Told(rs, m - 1, v)
  BY <1>3, <1>4, <1>8
<1>10. Told(rs, m, w)
  <2>1. CASE rs[m].kind = "state"
    BY <1>3, <1>6, <1>7, <1>9, <2>1, StateTold
  <2>2. CASE rs[m].kind = "move"
    BY <1>3, <1>6, <1>7, <1>9, <2>2, MoveTold
  <2>3. CASE rs[m].kind \notin {"state", "move"}
    <3>1. w = v /\ ~OfTheGame(rs[m])
      BY <1>6, <2>3, ReplayOther DEF OfTheGame
    <3> QED
      BY <1>3, <1>9, <3>1, OtherTold
  <2> QED BY <2>1, <2>2, <2>3
<1> QED BY <1>1, <1>5, <1>10

\* What a file that passes was found to be.
LEMMA Passed ==
  ASSUME NEW f, IsSeq(f), NEW rs, rs = RecordsOf(f), Readable(rs), verify(f)
  PROVE  /\ Len(rs) \in Nat /\ DOMAIN rs = 1..Len(rs) /\ Len(rs) > 0
         /\ Last(rs) = rs[Len(rs)] /\ Last(rs) = Result(score(rs), MovesOf(rs))
         /\ replayable_forfeit_evidence(rs)
         /\ ReadSoFar(rs, Len(rs))
         /\ Has(rs, "state")
         /\ \/ \E j \in DOMAIN rs : StandsAt(rs, j, Len(rs) + 1)
            \/ Has(rs, "engine_error")
<1>1. Len(f) \in Nat /\ DOMAIN f = 1..Len(f) /\ Len(rs) = Len(f) /\ DOMAIN rs = 1..Len(rs) /\ IsSeq(rs)
  BY RecordsOfFile
<1>2. f # <<>>
  BY DEF verify
<1>3. Len(rs) > 0
  <2> SUFFICES ASSUME Len(f) = 0 PROVE FALSE
    BY <1>1
  <2>1. f \in Seq({f[i] : i \in DOMAIN f})
    BY DEF IsSeq
  <2> QED
    BY <1>1, <1>2, <2>1
<1>4. PICK v : v = Replayed(rs)
  OBVIOUS
<1>5. /\ v.setup /\ v.states /\ v.moves
      /\ v.computed # Nobody /\ v.expected => ClosedByVoid(rs)
      /\ replayable_forfeit_evidence(rs)
      /\ Last(rs) = Result(score(rs), MovesOf(rs))
  BY <1>4 DEF verify
<1>6. v = Pass(rs)[Len(rs)] /\ Len(rs) \in 0..Len(rs)
  BY <1>1, <1>4 DEF Replayed
<1>7. VerifierTyped(v)
  BY <1>6, PassTyped
<1>8. Unrefused(v)
  BY <1>5, <1>7 DEF VerifierTyped, Unrefused
<1>9. Told(rs, Len(rs), v)
  BY <1>6, <1>8, PassTold
<1>10. /\ Has(rs, "state")
       /\ \/ \E j \in DOMAIN rs : StandsAt(rs, j, Len(rs) + 1)
          \/ Has(rs, "engine_error")
  <2>1. ~NothingPlayed(rs, Len(rs), v)
    BY <1>5 DEF NothingPlayed
  <2>2. CASE OnTable(rs, Len(rs), v)
    BY <2>2 DEF OnTable, StandsAt, Has
  <2>3. CASE JustMoved(rs, Len(rs), v)
    <3>1. v.computed # Nobody /\ v.expected = TRUE
      BY <2>3, GameAssumption DEF JustMoved
    <3>2. ClosedByVoid(rs)
      BY <1>5, <3>1
    <3>3. Has(rs, "engine_error")
      BY <1>1, <3>2 DEF ClosedByVoid, Has
    <3>4. Has(rs, "state")
      BY <2>3 DEF JustMoved, Moved, StandsAt, Has
    <3> QED
      BY <3>3, <3>4
  <2> QED
    BY <1>9, <2>1, <2>2, <2>3 DEF Told
<1>11. Last(rs) = rs[Len(rs)]
  BY DEF Last
<1> QED
  BY <1>1, <1>3, <1>5, <1>9, <1>10, <1>11 DEF Told

\* The seat that a forfeit makes the winner has won at the last position, where the
\* other seat named a move that is not legal.
LEMMA WonByForfeit ==
  ASSUME NEW f, IsSeq(f), NEW rs, rs = RecordsOf(f), Readable(rs), verify(f),
         Has(rs, "forfeit"), NEW w \in Seats, w = ForfeitedBy(FirstOf(rs, "forfeit")).winner
  PROVE  Won(rs, w)
<1>1. /\ Len(rs) \in Nat /\ DOMAIN rs = 1..Len(rs) /\ Len(rs) > 0
      /\ replayable_forfeit_evidence(rs) /\ ReadSoFar(rs, Len(rs))
      /\ Last(rs) = rs[Len(rs)] /\ Last(rs) = Result(score(rs), MovesOf(rs))
  BY Passed
<1>2. PICK i \in DOMAIN rs : rs[i].kind = "forfeit"
  BY DEF Has
<1>3. /\ i = Len(rs) - 1 /\ i > 1
      /\ rs[i - 1].kind = "move" /\ rs[i - 1].player = rs[i].player /\ ~rs[i - 1].legal
  BY <1>1, <1>2 DEF replayable_forfeit_evidence
<1>4. FirstOf(rs, "forfeit") = rs[i]
  <2>1. OnlyForfeitAt(rs, i)
    BY <1>1, <1>2, <1>3 DEF OnlyForfeitAt, replayable_forfeit_evidence
  <2> QED
    BY <2>1, OnlyForfeitIsFirst DEF Readable
<1>5. w = 1 - rs[i - 1].player
  BY <1>3, <1>4 DEF ForfeitedBy, Outcome
<1>6. PICK k : k = i - 1
  OBVIOUS
<1>7. k \in DOMAIN rs /\ k = Len(rs) - 2 /\ k \in 1..Len(rs) /\ k + 1 = i /\ rs[k].kind = "move" /\ ~rs[k].legal
  BY <1>1, <1>3, <1>6
<1>8. RightlyRuled(rs, k)
  BY <1>1, <1>7 DEF ReadSoFar
<1>9. PICK j \in DOMAIN rs : /\ StandsAt(rs, j, k) /\ rs[k].player = rs[j].position.to_move
                             /\ rs[k].legal <=> Legal(rs[j].position, rs[k].move)
  BY <1>8 DEF RightlyRuled
<1>10. rs[k].player \in Seats /\ rs[k].player = 1 - w
  <2>1. j \in 1..Len(rs) /\ rs[j].kind = "state"
    BY <1>1, <1>9 DEF StandsAt
  <2>2. rs[j].position \in Positions
    BY <1>1, <2>1 DEF ReadSoFar
  <2>3. rs[k].player \in Seats
    BY <1>9, <2>2, GameAssumption
  <2> QED
    BY <1>5, <1>6, <2>3 DEF Seats
<1>11. StandsAt(rs, j, Len(rs))
  <2>1. \A l \in DOMAIN rs : l < Len(rs) => l < k \/ l = k \/ l = i
    BY <1>1, <1>7
  <2>2. rs[k].kind # "state" /\ ~Accepted(rs[k]) /\ rs[i].kind # "state" /\ ~Accepted(rs[i])
    BY <1>2, <1>7 DEF Accepted
  <2> QED
    BY <1>1, <1>7, <1>9, <2>1, <2>2 DEF StandsAt
<1>12. j < k
  BY <1>9 DEF StandsAt
<1> QED
  BY <1>7, <1>9, <1>10, <1>11, <1>12 DEF Won

\* The seat that the last position makes the winner has won there.
LEMMA WonOnTheBoard ==
  ASSUME NEW f, IsSeq(f), NEW rs, rs = RecordsOf(f), Readable(rs), verify(f),
         ~Has(rs, "engine_error"),
         NEW w \in Seats, w = EndOf(LastOf(rs, "state").position).winner
  PROVE  Won(rs, w)
<1>1. /\ Len(rs) \in Nat /\ DOMAIN rs = 1..Len(rs) /\ Len(rs) > 0
      /\ Last(rs) = rs[Len(rs)] /\ Last(rs) = Result(score(rs), MovesOf(rs))
      /\ \E j \in DOMAIN rs : StandsAt(rs, j, Len(rs) + 1)
  BY Passed
<1>2. PICK j \in DOMAIN rs : StandsAt(rs, j, Len(rs) + 1)
  BY <1>1
<1>3. rs[Len(rs)].kind = "result" /\ rs[j].kind = "state"
  BY <1>1, <1>2 DEF Result, StandsAt
<1>4. StandsAt(rs, j, Len(rs))
  <2>1. j # Len(rs) /\ j < Len(rs) + 1
    BY <1>2, <1>3 DEF StandsAt
  <2>2. \A k \in DOMAIN rs : k < Len(rs) => k < Len(rs) + 1
    BY <1>1
  <2>3. j < Len(rs)
    BY <1>1, <2>1
  <2> QED
    BY <1>2, <2>2, <2>3 DEF StandsAt
<1>5. LastOf(rs, "state") = rs[j]
  <2>1. LastStateAt(rs, j)
    BY <1>1, <1>2 DEF StandsAt, LastStateAt
  <2> QED
    BY <2>1, LastStateIsLast DEF Readable
<1>6. Over(rs[j].position) /\ Winner(rs[j].position) = w
  BY <1>5, MatchAssumption DEF EndOf, Outcome
<1> QED
  BY <1>4, <1>6 DEF Won

\* Whatever file the verifier is given, of any length and written by whom it may be:
\* if it passes, the records are a game as the rules have it, and the seat that the
\* result names has won it (verify of src/arena/replay.py).
THEOREM PassProves ==
  ASSUME NEW f, IsSeq(f), \A i \in DOMAIN f : WellFormed(f[i].record), verify(f)
  PROVE  Lawful(RecordsOf(f))
<1>1. PICK rs : rs = RecordsOf(f)
  OBVIOUS
<1>2. Readable(rs)
  BY <1>1, RecordsOfFile DEF Readable
<1>3. /\ Len(rs) \in Nat /\ DOMAIN rs = 1..Len(rs) /\ Len(rs) > 0
      /\ Last(rs) = rs[Len(rs)] /\ Last(rs) = Result(score(rs), MovesOf(rs))
      /\ ReadSoFar(rs, Len(rs)) /\ Has(rs, "state")
  BY <1>1, <1>2, Passed
<1>4. LawfulGame(rs)
  BY <1>3 DEF ReadSoFar, LawfulGame
<1>5. Last(rs).kind = "result" /\ Last(rs).winner = score(rs).winner
  BY <1>3 DEF Result
<1>6. ASSUME score(rs).winner \in Seats
      PROVE  Won(rs, score(rs).winner)
  <2>1. ~Has(rs, "engine_error")
    BY <1>6, MatchAssumption DEF score, Void, Outcome
  <2>2. Has(rs, "state")
    BY <1>3
  <2>3. CASE Has(rs, "forfeit")
    <3>1. score(rs) = ForfeitedBy(FirstOf(rs, "forfeit"))
      BY <2>1, <2>2, <2>3 DEF score
    <3> QED
      BY <1>1, <1>2, <1>6, <2>3, <3>1, WonByForfeit
  <2>4. CASE ~Has(rs, "forfeit")
    <3>1. score(rs) = EndOf(LastOf(rs, "state").position)
      BY <2>1, <2>2, <2>4 DEF score
    <3> QED
      BY <1>1, <1>2, <1>6, <2>1, <3>1, WonOnTheBoard
  <2> QED BY <2>3, <2>4
<1>7. Lawful(rs)
  BY <1>3, <1>4, <1>5, <1>6 DEF Lawful
<1> QED BY <1>1, <1>7


\* There is one position on the table, and at most one accepted move that has none.
LEMMA OneStands ==
  ASSUME NEW rs, Readable(rs), NEW i \in Int, NEW j, NEW k, StandsAt(rs, j, i), StandsAt(rs, k, i)
  PROVE  j = k
<1>1. DOMAIN rs \subseteq Int
  BY Appending DEF Readable
<1>2. j \in DOMAIN rs /\ k \in DOMAIN rs /\ j < i /\ k < i /\ rs[j].kind = "state" /\ rs[k].kind = "state"
  BY DEF StandsAt
<1>3. ~(j < k) /\ ~(k < j)
  BY <1>2 DEF StandsAt
<1> QED BY <1>1, <1>2, <1>3

\* A move that is rightly ruled is not refused.
LEMMA RightMove ==
  ASSUME NEW rs, Readable(rs), NEW n \in 1..Len(rs), NEW v, VerifierTyped(v),
         Told(rs, n - 1, v), Unrefused(v), rs[n].kind = "move", RightlyRuled(rs, n),
         NEW w, w = ReplayRecord(v, rs[n])
  PROVE  Unrefused(w)
<1> USE OneMoreRead
<1>1. PICK j \in DOMAIN rs : /\ StandsAt(rs, j, n) /\ rs[n].turn = rs[j].turn
                             /\ rs[n].player = rs[j].position.to_move
                             /\ ~Over(rs[j].position)
                             /\ rs[n].legal <=> Legal(rs[j].position, rs[n].move)
  BY DEF RightlyRuled
<1>2. j \in DOMAIN rs /\ j < n /\ rs[j].kind = "state" /\ j \in 1..(n - 1)
  BY <1>1 DEF StandsAt
<1>3. ~NothingPlayed(rs, n - 1, v)
  BY <1>2 DEF NothingPlayed, OfTheGame
<1>4. ~JustMoved(rs, n - 1, v)
  <2> SUFFICES ASSUME NEW k \in DOMAIN rs, Moved(rs, n - 1, k, v) PROVE FALSE
    BY DEF JustMoved
  <2>1. k \in 1..(n - 1) /\ Accepted(rs[k])
    BY DEF Moved
  <2>2. ~(k < j)
    BY <1>2 DEF Moved, OfTheGame
  <2>3. ~(j < k)
    BY <1>1, <2>1 DEF StandsAt
  <2>4. k # j
    BY <1>2, <2>1 DEF Accepted
  <2> QED BY <1>2, <2>1, <2>2, <2>3, <2>4
<1>5. OnTable(rs, n - 1, v)
  BY <1>3, <1>4 DEF Told
<1>6. PICK k \in DOMAIN rs : StandsAt(rs, k, n) /\ v.computed = rs[k].position /\ v.turn = rs[k].turn
  BY <1>5 DEF OnTable
<1>7. k = j
  BY <1>1, <1>6, OneStands
<1>8. v.computed # Nobody /\ v.expected = FALSE
  BY <1>5, GameAssumption DEF OnTable
<1>9. PICK r : r = rs[n]
  OBVIOUS
<1>10. WellPlaced(v, r) /\ (Legal(v.computed, r.move) <=> r.legal)
  BY <1>1, <1>6, <1>7, <1>8, <1>9 DEF WellPlaced
<1>11. w = IF r.legal THEN [v EXCEPT !.computed = Apply(@, r.move), !.turn = @ + 1, !.expected = TRUE]
                      ELSE v
  BY <1>9, <1>10 DEF ReplayRecord, ReplayMove
<1>12. w.states = v.states /\ w.moves = v.moves
  BY <1>11 DEF VerifierTyped, VerifierFields
<1> QED BY <1>12 DEF Unrefused

\* A position that is rightly placed is not refused.
LEMMA RightState ==
  ASSUME NEW rs, Readable(rs), NEW n \in 1..Len(rs), NEW v, VerifierTyped(v),
         Told(rs, n - 1, v), Unrefused(v), rs[n].kind = "state", RightlyPlaced(rs, n),
         NEW w, w = ReplayRecord(v, rs[n])
  PROVE  Unrefused(w)
<1> USE OneMoreRead
<1>1. PICK target : target = IF v.computed = Nobody THEN Opening ELSE v.computed
  OBVIOUS
<1>2. v.expected = TRUE /\ rs[n].turn = v.turn /\ rs[n].position = target
  <2>1. CASE /\ rs[n].position = Opening /\ rs[n].turn = 0
             /\ \A k \in DOMAIN rs : k < n => ~OfTheGame(rs[k])
    <3>1. ~OnTable(rs, n - 1, v)
      BY <2>1 DEF OnTable, StandsAt, OfTheGame
    <3>2. ~JustMoved(rs, n - 1, v)
      BY <2>1 DEF JustMoved, Moved, Accepted, OfTheGame
    <3>3. NothingPlayed(rs, n - 1, v)
      BY <3>1, <3>2 DEF Told
    <3> QED BY <1>1, <2>1, <3>3 DEF NothingPlayed
  <2>2. ASSUME NEW k \in DOMAIN rs, FollowsFrom(rs, n, k)
        PROVE  v.expected = TRUE /\ rs[n].turn = v.turn /\ rs[n].position = target
    <3>1. /\ k < n /\ k \in 1..(n - 1) /\ Accepted(rs[k]) /\ OfTheGame(rs[k])
          /\ \A l \in DOMAIN rs : k < l /\ l < n => ~OfTheGame(rs[l])
      BY <2>2 DEF FollowsFrom, Accepted, OfTheGame
    <3>2. ~NothingPlayed(rs, n - 1, v)
      BY <3>1 DEF NothingPlayed
    <3>3. ~OnTable(rs, n - 1, v)
      <4> SUFFICES ASSUME NEW j \in DOMAIN rs, StandsAt(rs, j, n) PROVE FALSE
        BY DEF OnTable
      <4>1. j < n /\ rs[j].kind = "state" /\ OfTheGame(rs[j])
        BY DEF StandsAt, OfTheGame
      <4>2. ~(k < j) /\ ~(j < k)
        BY <3>1, <4>1 DEF StandsAt
      <4>3. k # j
        BY <3>1, <4>1 DEF Accepted
      <4> QED BY <4>2, <4>3
    <3>4. JustMoved(rs, n - 1, v)
      BY <3>2, <3>3 DEF Told
    <3>5. PICK l \in DOMAIN rs : Moved(rs, n - 1, l, v)
      BY <3>4 DEF JustMoved
    <3>6. l = k
      <4>1. l < n /\ OfTheGame(rs[l])
        BY <3>5 DEF Moved, Accepted, OfTheGame
      <4>2. ~(k < l)
        BY <3>1, <4>1
      <4>3. ~(l < k)
        BY <3>1, <3>5 DEF Moved
      <4> QED BY <4>2, <4>3
    <3>7. PICK j \in DOMAIN rs : /\ StandsAt(rs, j, k)
                                 /\ v.computed = Apply(rs[j].position, rs[k].move)
                                 /\ v.turn = rs[j].turn + 1
      BY <3>5, <3>6 DEF Moved
    <3>8. PICK i \in DOMAIN rs : /\ StandsAt(rs, i, k)
                                 /\ rs[n].position = Apply(rs[i].position, rs[k].move)
                                 /\ rs[n].turn = rs[i].turn + 1
      BY <2>2 DEF FollowsFrom
    <3>9. i = j
      BY <3>1, <3>7, <3>8, OneStands
    <3>10. v.expected = TRUE /\ v.computed # Nobody
      BY <3>4, GameAssumption DEF JustMoved
    <3> QED BY <1>1, <3>7, <3>8, <3>9, <3>10
  <2> QED BY <2>1, <2>2 DEF RightlyPlaced
<1>3. PICK opening \in BOOLEAN : opening <=> v.computed = Nobody
  OBVIOUS
<1>4. PICK ok \in BOOLEAN : ok <=> v.expected /\ rs[n].turn = v.turn /\ rs[n].position = target
  OBVIOUS
<1>5. w = [v EXCEPT !.computed = target, !.expected = FALSE, !.states = @ /\ ok,
                    !.setup = IF opening THEN ok ELSE @]
  BY <1>1, <1>3, <1>4 DEF ReplayRecord, ReplayState
<1>6. w.states = (v.states /\ ok) /\ w.moves = v.moves
  BY <1>5 DEF VerifierTyped, VerifierFields
<1> QED BY <1>2, <1>4, <1>6 DEF Unrefused

\* A lawful game is not refused.
LEMMA LawfulTold ==
  ASSUME NEW rs, Readable(rs), LawfulGame(rs), NEW n \in 0..Len(rs)
  PROVE  Unrefused(Pass(rs)[n])
<1> DEFINE S == {k \in Nat : k <= Len(rs) /\ ~Unrefused(Pass(rs)[k])}
<1>0. Len(rs) \in Nat /\ DOMAIN rs = 1..Len(rs)
  BY Appending DEF Readable
<1> SUFFICES ASSUME S # {} PROVE FALSE
  BY <1>0
<1>1. PICK m \in S : \A k \in S : m <= k
  BY LeastOf
<1>2. m # 0
  <2>1. PICK v : v = Fresh
    OBVIOUS
  <2>2. Unrefused(v)
    BY <2>1 DEF Fresh, Unrefused
  <2> QED BY <1>0, <1>1, <2>1, <2>2, PassEquation
<1>3. m \in 1..Len(rs) /\ m - 1 \in 0..Len(rs) /\ m - 1 \in Nat /\ m - 1 <= Len(rs) /\ ~(m - 1 \in S)
  BY <1>0, <1>1, <1>2
<1>4. PICK v : v = Pass(rs)[m - 1]
  OBVIOUS
<1>5. PICK w : w = Pass(rs)[m]
  OBVIOUS
<1>6. w = ReplayRecord(v, rs[m]) /\ VerifierTyped(v)
  BY <1>0, <1>3, <1>4, <1>5, PassEquation, PassTyped
<1>7. Unrefused(v)
  BY <1>3, <1>4
<1>8. Told(rs, m - 1, v)
  BY <1>3, <1>4, <1>7, PassTold
<1>9. Unrefused(w)
  <2>1. CASE rs[m].kind = "state"
    <3>1. RightlyPlaced(rs, m)
      BY <1>0, <1>3, <2>1 DEF LawfulGame
    <3> QED BY <1>3, <1>6, <1>7, <1>8, <2>1, <3>1, RightState
  <2>2. CASE rs[m].kind = "move"
    <3>1. RightlyRuled(rs, m)
      BY <1>0, <1>3, <2>2 DEF LawfulGame
    <3> QED BY <1>3, <1>6, <1>7, <1>8, <2>2, <3>1, RightMove
  <2>3. CASE rs[m].kind \notin {"state", "move"}
    BY <1>6, <1>7, <2>3, ReplayOther
  <2> QED BY <2>1, <2>2, <2>3
<1> QED BY <1>1, <1>5, <1>9

\* For every file, of any length: the pass refuses a record if and only if the
\* records are not a lawful game (the loop of verify).
THEOREM PassIsExact ==
  ASSUME NEW rs, Readable(rs)
  PROVE  Replayed(rs).states /\ Replayed(rs).moves <=> LawfulGame(rs)
<1>1. PICK v : v = Replayed(rs)
  OBVIOUS
<1>2. v = Pass(rs)[Len(rs)] /\ Len(rs) \in 0..Len(rs) /\ DOMAIN rs = 1..Len(rs)
  BY <1>1, Appending DEF Replayed, Readable
<1>3. VerifierTyped(v)
  BY <1>2, PassTyped
<1>4. v.states /\ v.moves <=> Unrefused(v)
  BY <1>3 DEF VerifierTyped, Unrefused
<1>5. Unrefused(v) => LawfulGame(rs)
  BY <1>2, PassTold DEF Told, ReadSoFar, LawfulGame
<1>6. LawfulGame(rs) => Unrefused(v)
  BY <1>2, LawfulTold
<1> QED BY <1>1, <1>4, <1>5, <1>6

\* The referee names a move of the game, or none, in every ruling it writes.
LEMMA WellFormedStep ==
  ASSUME TurnsInv, \A i \in DOMAIN records : WellFormed(records[i]), [Next]_vars
  PROVE  \A i \in DOMAIN records' : WellFormed(records'[i])
<1> USE TypedParts DEF TurnsInv
<1>0. DiskTyped /\ reply \in Moves \union {Nobody}
  BY DEF DiskTyped, TurnsTyped
<1>1. CASE UNCHANGED records
  BY <1>1
<1>2. CASE Quiet
  BY <1>2 DEF Quiet
<1>3. ASSUME NEW r, NEW next, NEW handler, Writing(r, next, handler), Record(r, next, handler)
      PROVE  \A i \in DOMAIN records' : WellFormed(records'[i])
  <2>1. WellFormed(r)
    <3>1. CASE r.kind = "move"
      <4>1. pc = "judge"
        BY <1>3, <3>1, WrittenKinds
      <4>2. r = Move(seat, turn, reply, TRUE) \/ r = Move(seat, turn, reply, FALSE)
        BY <1>3, <4>1 DEF Writing, Setting, Playing, Closing
      <4>3. r.move = reply /\ (r.legal = TRUE \/ r.legal = FALSE)
        <5>1. CASE r = Move(seat, turn, reply, TRUE)
          BY <5>1 DEF Move
        <5>2. CASE r = Move(seat, turn, reply, FALSE)
          BY <5>2 DEF Move
        <5> QED BY <4>2, <5>1, <5>2
      <4> QED
        BY <1>0, <4>3 DEF WellFormed
    <3>2. CASE r.kind # "move"
      BY <3>2 DEF WellFormed
    <3> QED BY <3>1, <3>2
  <2>2. CASE records' = records
    BY <2>2
  <2>3. CASE Appended(records', r)
    <3>1. PICK told : told = records'
      OBVIOUS
    <3>2. \A i \in DOMAIN told : \/ i \in DOMAIN records /\ told[i] = records[i]
                                 \/ told[i] = r
      BY <1>0, <2>3, <3>1, OneMore
    <3>3. \A i \in DOMAIN told : WellFormed(told[i])
      BY <2>1, <3>2
    <3> QED BY <3>1, <3>3
  <2> QED
    BY <1>0, <1>3, <2>2, <2>3, Recording
<1> QED
  <2>1. CASE Next
    <3>1. Quiet \/ \E r, next, handler : Writing(r, next, handler) /\ Record(r, next, handler)
      BY <2>1, EveryStepWrites
    <3> QED BY <1>2, <1>3, <3>1
  <2>2. CASE UNCHANGED vars
    BY <1>1, <2>2 DEF vars
  <2> QED BY <2>1, <2>2

\* At every step of a match, whatever fails and however the entrants behave, what
\* the referee has chained is a lawful game: every ruling and every position in it
\* is as the rules have it, also in a match that is cut short, aborted or voided.
THEOREM TranscriptsAreLawful == Spec => []LawfulGame(records)
<1> DEFINE WellRuled == \A i \in DOMAIN records : WellFormed(records[i])
<1>1. Init => TurnsInv /\ WellRuled
  BY TurnsInit DEF Init
<1>2. TurnsInv /\ WellRuled /\ [Next]_vars => TurnsInv' /\ WellRuled'
  BY TurnsStep, WellFormedStep
<1>3. TurnsInv /\ ReplayInv /\ WellRuled => LawfulGame(records)
  <2> SUFFICES ASSUME TurnsInv, ReplayInv, WellRuled PROVE LawfulGame(records)
    OBVIOUS
  <2>1. Readable(records)
    BY DEF Readable, TurnsInv, TurnsTyped, IsSeq
  <2>2. PICK v : v = Replayed(records)
    OBVIOUS
  <2>3. Recomputed(v)
    BY <2>2 DEF ReplayInv
  <2>4. v.states = TRUE /\ v.moves = TRUE
    <3>1. CASE ~Placed
      BY <2>3, <3>1 DEF Recomputed, Fresh
    <3>2. CASE Placed
      BY <2>3, <3>2 DEF Recomputed, Verifying, Verified
    <3> QED BY <3>1, <3>2
  <2>5. Replayed(records).states /\ Replayed(records).moves
    BY <2>2, <2>4
  <2> QED BY <2>1, <2>5, PassIsExact
<1> QED
  BY <1>1, <1>2, <1>3, ReplayInvariant, PTL DEF Spec

------------------------------------------------------------------------------
(* The files of a match id.                                                  *)
\* The stages of a call that is under way.
LEMMA StageNames ==
    /\ UnderWay \subseteq RunStages
    /\ "called" \notin UnderWay /\ "refused" \notin UnderWay
    /\ "ended" \notin UnderWay /\ "dead" \notin UnderWay
  BY DEF UnderWay, RunStages

\* The invariant of the files holds at first.
LEMMA FilesInitInv == FilesInit => FilesInv
  BY FilesAssumption, StageNames
     DEF FilesInit, FilesInv, FilesTypeOK, OverlapsAreKnown, LoneRunsOwnTheirFiles,
         FailedRunsOwnNothing, RunStages

\* The calls other than the one that steps stay where they are.
LEMMA OthersStay ==
  ASSUME FilesTypeOK, NEW r \in Runs, NEW from, NEW to, Stage(r, from, to)
  PROVE  /\ stage[r] = from /\ stage'[r] = to
         /\ \A q \in Runs \ {r} : stage'[q] = stage[q]
         /\ stage' \in [Runs -> RunStages \union {to}]
  BY DEF FilesTypeOK, Stage

\* A call that is not under way before its step joins whoever is.
LEMMA PreflightStep ==
  ASSUME FilesInv, NEW r \in Runs, Preflight(r)
  PROVE  FilesInv'
<1>1. CASE Free /\ Stage(r, "called", "open_transcript")
  <2>1. /\ stage[r] = "called" /\ stage'[r] = "open_transcript"
        /\ \A q \in Runs \ {r} : stage'[q] = stage[q]
        /\ stage' \in [Runs -> RunStages]
    BY <1>1 DEF FilesInv, FilesTypeOK, Stage, RunStages, UnderWay
  <2>2. /\ UNCHANGED <<transcript, sidecar, scratch, committed, left>>
        /\ transcript = NoRun /\ sidecar = NoRun /\ scratch = {}
        /\ met' = IF Active = {} THEN met ELSE met \union Active \union {r}
    BY <1>1 DEF Preflight, Free, Stage
  <2>3. FilesTypeOK'
    BY <2>1, <2>2 DEF FilesInv, FilesTypeOK, Active
  <2>4. OverlapsAreKnown'
    BY <2>1, <2>2 DEF FilesInv, OverlapsAreKnown, Active, UnderWay
  <2>5. LoneRunsOwnTheirFiles'
    BY <2>1, <2>2, FilesAssumption DEF FilesInv, LoneRunsOwnTheirFiles, Active, UnderWay
  <2>6. FailedRunsOwnNothing'
    BY <2>1, <2>2, FilesAssumption DEF FilesInv, FailedRunsOwnNothing
  <2> QED
    BY <2>3, <2>4, <2>5, <2>6 DEF FilesInv
<1>2. CASE ~Free /\ Stage(r, "called", "refused")
  <2>1. /\ stage[r] = "called" /\ stage'[r] = "refused"
        /\ \A q \in Runs \ {r} : stage'[q] = stage[q]
        /\ stage' \in [Runs -> RunStages]
        /\ UNCHANGED <<transcript, sidecar, scratch, committed, met, left>>
    BY <1>2 DEF FilesInv, FilesTypeOK, Stage, RunStages, Preflight, Free
  <2> QED
    BY <2>1 DEF FilesInv, FilesTypeOK, OverlapsAreKnown, LoneRunsOwnTheirFiles,
                FailedRunsOwnNothing, UnderWay
<1> QED
  BY <1>1, <1>2 DEF Preflight

\* The exclusive creation of the transcript keeps it.
LEMMA OpenTranscriptStep ==
  ASSUME FilesInv, NEW r \in Runs, OpenTranscript(r)
  PROVE  FilesInv'
<1>1. CASE transcript = NoRun /\ Stage(r, "open_transcript", "open_sidecar") /\ transcript' = r
  <2>1. /\ stage[r] = "open_transcript" /\ stage'[r] = "open_sidecar"
        /\ \A q \in Runs \ {r} : stage'[q] = stage[q]
        /\ stage' \in [Runs -> RunStages]
        /\ UNCHANGED <<sidecar, scratch, committed, met, left>>
    BY <1>1 DEF FilesInv, FilesTypeOK, Stage, RunStages, UnderWay, OpenTranscript
  <2>2. r \notin met => \A q \in Runs \ {r} : stage[q] \notin UnderWay
    BY <2>1 DEF FilesInv, OverlapsAreKnown, UnderWay
  <2>3. \A q \in Runs \ met : q # r => stage[q] \notin UnderWay
    BY <2>1 DEF FilesInv, OverlapsAreKnown, UnderWay
  <2>4. \A q \in committed \ met : FALSE
    BY <1>1, FilesAssumption DEF FilesInv, FilesTypeOK, LoneRunsOwnTheirFiles
  <2>5. FilesTypeOK' /\ OverlapsAreKnown'
    BY <1>1, <2>1 DEF FilesInv, FilesTypeOK, OverlapsAreKnown, UnderWay
  <2>6. LoneRunsOwnTheirFiles'
    BY <1>1, <2>1, <2>2, <2>3, <2>4 DEF FilesInv, LoneRunsOwnTheirFiles, UnderWay
  <2>7. FailedRunsOwnNothing'
    BY <1>1, <2>1 DEF FilesInv, FailedRunsOwnNothing
  <2> QED
    BY <2>5, <2>6, <2>7 DEF FilesInv
<1>2. CASE transcript # NoRun /\ Stage(r, "open_transcript", "unlink_transcript")
  <2>1. /\ stage[r] = "open_transcript" /\ stage'[r] = "unlink_transcript"
        /\ \A q \in Runs \ {r} : stage'[q] = stage[q]
        /\ stage' \in [Runs -> RunStages]
        /\ UNCHANGED <<transcript, sidecar, scratch, committed, met, left>>
    BY <1>2 DEF FilesInv, FilesTypeOK, Stage, RunStages, UnderWay, OpenTranscript
  <2> QED
    BY <2>1 DEF FilesInv, FilesTypeOK, OverlapsAreKnown, LoneRunsOwnTheirFiles,
                FailedRunsOwnNothing, UnderWay
<1> QED
  BY <1>1, <1>2 DEF OpenTranscript

\* So does that of the diagnostics,
LEMMA OpenSidecarStep ==
  ASSUME FilesInv, NEW r \in Runs, OpenSidecar(r)
  PROVE  FilesInv'
<1>1. CASE sidecar = NoRun /\ Stage(r, "open_sidecar", "start") /\ sidecar' = r
  <2>1. /\ stage[r] = "open_sidecar" /\ stage'[r] = "start"
        /\ \A q \in Runs \ {r} : stage'[q] = stage[q]
        /\ stage' \in [Runs -> RunStages]
        /\ UNCHANGED <<transcript, scratch, committed, met, left>>
    BY <1>1 DEF FilesInv, FilesTypeOK, Stage, RunStages, UnderWay, OpenSidecar
  <2>2. \A q \in Runs \ met : q # r => stage[q] \notin UnderWay
    BY <2>1 DEF FilesInv, OverlapsAreKnown, UnderWay
  <2>3. \A q \in committed \ met : FALSE
    BY <1>1, FilesAssumption DEF FilesInv, FilesTypeOK, LoneRunsOwnTheirFiles
  <2>4. FilesTypeOK' /\ OverlapsAreKnown'
    BY <1>1, <2>1 DEF FilesInv, FilesTypeOK, OverlapsAreKnown, UnderWay
  <2>5. LoneRunsOwnTheirFiles'
    BY <1>1, <2>1, <2>2, <2>3 DEF FilesInv, LoneRunsOwnTheirFiles, UnderWay
  <2>6. FailedRunsOwnNothing'
    BY <1>1, <2>1 DEF FilesInv, FailedRunsOwnNothing
  <2> QED
    BY <2>4, <2>5, <2>6 DEF FilesInv
<1>2. CASE sidecar # NoRun /\ Stage(r, "open_sidecar", "unlink_transcript")
  <2>1. /\ stage[r] = "open_sidecar" /\ stage'[r] = "unlink_transcript"
        /\ \A q \in Runs \ {r} : stage'[q] = stage[q]
        /\ stage' \in [Runs -> RunStages]
        /\ UNCHANGED <<transcript, sidecar, scratch, committed, met, left>>
    BY <1>2 DEF FilesInv, FilesTypeOK, Stage, RunStages, UnderWay, OpenSidecar
  <2> QED
    BY <2>1 DEF FilesInv, FilesTypeOK, OverlapsAreKnown, LoneRunsOwnTheirFiles,
                FailedRunsOwnNothing, UnderWay
<1> QED
  BY <1>1, <1>2 DEF OpenSidecar

\* the start of the entrants,
LEMMA StartStep ==
  ASSUME FilesInv, NEW r \in Runs, Start(r)
  PROVE  FilesInv'
<1>1. /\ stage[r] = "start" /\ stage'[r] = "play"
      /\ \A q \in Runs \ {r} : stage'[q] = stage[q]
      /\ stage' \in [Runs -> RunStages]
      /\ UNCHANGED <<transcript, sidecar, committed, met, left>>
      /\ scratch' = scratch \union {r} /\ scratch' \subseteq Runs
  BY DEF FilesInv, FilesTypeOK, Stage, RunStages, UnderWay, Start
<1> QED
  BY <1>1 DEF FilesInv, FilesTypeOK, OverlapsAreKnown, LoneRunsOwnTheirFiles,
              FailedRunsOwnNothing, UnderWay

\* the commit,
LEMMA CommitRunStep ==
  ASSUME FilesInv, NEW r \in Runs, CommitRun(r)
  PROVE  FilesInv'
<1>1. /\ stage[r] = "play" /\ stage'[r] = "settle"
      /\ \A q \in Runs \ {r} : stage'[q] = stage[q]
      /\ stage' \in [Runs -> RunStages]
      /\ UNCHANGED <<transcript, sidecar, scratch, met, left>>
      /\ committed' = committed \union {r}
  BY DEF FilesInv, FilesTypeOK, Stage, RunStages, UnderWay, CommitRun
<1> QED
  BY <1>1 DEF FilesInv, FilesTypeOK, OverlapsAreKnown, LoneRunsOwnTheirFiles,
              FailedRunsOwnNothing, UnderWay

\* a failure,
LEMMA FailStep ==
  ASSUME FilesInv, NEW r \in Runs, Fail(r)
  PROVE  FilesInv'
<1>1. /\ stage[r] \in {"open_transcript", "open_sidecar", "start", "play"}
      /\ stage'[r] = "unlink_transcript"
      /\ \A q \in Runs \ {r} : stage'[q] = stage[q]
      /\ stage' \in [Runs -> RunStages]
      /\ UNCHANGED <<transcript, sidecar, scratch, committed, met, left>>
  BY DEF FilesInv, FilesTypeOK, Stage, RunStages, UnderWay, Fail
<1> QED
  BY <1>1 DEF FilesInv, FilesTypeOK, OverlapsAreKnown, LoneRunsOwnTheirFiles,
              FailedRunsOwnNothing, UnderWay

\* A call that removes an entry has no result, and an unmet call whose entry it
\* might remove would have to be alone under way.
LEMMA UnlinkTranscriptStep ==
  ASSUME FilesInv, NEW r \in Runs, UnlinkTranscript(r)
  PROVE  FilesInv'
<1>1. /\ stage[r] = "unlink_transcript" /\ stage'[r] = "unlink_sidecar"
      /\ \A q \in Runs \ {r} : stage'[q] = stage[q]
      /\ stage' \in [Runs -> RunStages]
      /\ UNCHANGED <<sidecar, scratch, committed, met>>
      /\ \/ transcript' = NoRun /\ left' = left
         \/ transcript' = transcript /\ left' = left \union {r}
  BY DEF FilesInv, FilesTypeOK, Stage, RunStages, UnderWay, UnlinkTranscript
<1>2. r \notin committed
  BY <1>1 DEF FilesInv, FilesTypeOK
<1>3. \A q \in Runs \ met : q # r => stage[q] \notin UnderWay /\ q \notin committed
  BY <1>1 DEF FilesInv, OverlapsAreKnown, LoneRunsOwnTheirFiles, UnderWay
<1>4. FilesTypeOK' /\ OverlapsAreKnown'
  BY <1>1 DEF FilesInv, FilesTypeOK, OverlapsAreKnown, UnderWay
<1>5. LoneRunsOwnTheirFiles'
  BY <1>1, <1>2, <1>3, FilesAssumption DEF FilesInv, LoneRunsOwnTheirFiles, UnderWay
<1>6. FailedRunsOwnNothing'
  BY <1>1, FilesAssumption DEF FilesInv, FailedRunsOwnNothing
<1> QED
  BY <1>4, <1>5, <1>6 DEF FilesInv

\* the removal of the diagnostics,
LEMMA UnlinkSidecarStep ==
  ASSUME FilesInv, NEW r \in Runs, UnlinkSidecar(r)
  PROVE  FilesInv'
<1>1. /\ stage[r] = "unlink_sidecar" /\ stage'[r] = "remove_scratch"
      /\ \A q \in Runs \ {r} : stage'[q] = stage[q]
      /\ stage' \in [Runs -> RunStages]
      /\ UNCHANGED <<transcript, scratch, committed, met>>
      /\ \/ sidecar' = NoRun /\ left' = left
         \/ sidecar' = sidecar /\ left' = left \union {r}
  BY DEF FilesInv, FilesTypeOK, Stage, RunStages, UnderWay, UnlinkSidecar
<1>2. r \notin committed
  BY <1>1 DEF FilesInv, FilesTypeOK
<1>3. \A q \in Runs \ met : q # r => stage[q] \notin UnderWay /\ q \notin committed
  BY <1>1 DEF FilesInv, OverlapsAreKnown, LoneRunsOwnTheirFiles, UnderWay
<1>4. FilesTypeOK' /\ OverlapsAreKnown'
  BY <1>1 DEF FilesInv, FilesTypeOK, OverlapsAreKnown, UnderWay
<1>5. LoneRunsOwnTheirFiles'
  BY <1>1, <1>2, <1>3, FilesAssumption DEF FilesInv, LoneRunsOwnTheirFiles, UnderWay
<1>6. FailedRunsOwnNothing'
  BY <1>1, FilesAssumption DEF FilesInv, FailedRunsOwnNothing
<1> QED
  BY <1>4, <1>5, <1>6 DEF FilesInv

\* the removal of the scratch directory
LEMMA RemoveScratchStep ==
  ASSUME FilesInv, NEW r \in Runs, RemoveScratch(r)
  PROVE  FilesInv'
<1>1. /\ stage[r] \in {"settle", "remove_scratch"} /\ stage'[r] = "ended"
      /\ \A q \in Runs \ {r} : stage'[q] = stage[q]
      /\ stage' \in [Runs -> RunStages]
      /\ UNCHANGED <<transcript, sidecar, committed, met>>
      /\ \/ scratch' = {} /\ left' = left
         \/ scratch' = scratch /\ left' = left \union {r}
  BY DEF FilesInv, FilesTypeOK, Stage, RunStages, UnderWay, RemoveScratch
<1>2. stage[r] = "settle" => r \in committed
  BY DEF FilesInv, FilesTypeOK
<1> QED
  BY <1>1, <1>2 DEF FilesInv, FilesTypeOK, OverlapsAreKnown, LoneRunsOwnTheirFiles,
              FailedRunsOwnNothing, UnderWay

\* and the end of the process.
LEMMA DieStep ==
  ASSUME FilesInv, NEW r \in Runs, Die(r)
  PROVE  FilesInv'
<1>1. /\ stage[r] \in UnderWay /\ stage'[r] = "dead"
      /\ \A q \in Runs \ {r} : stage'[q] = stage[q]
      /\ stage' \in [Runs -> RunStages]
      /\ UNCHANGED <<transcript, sidecar, scratch, committed, met, left>>
  BY DEF FilesInv, FilesTypeOK, RunStages, Die
<1> QED
  BY <1>1 DEF FilesInv, FilesTypeOK, OverlapsAreKnown, LoneRunsOwnTheirFiles,
              FailedRunsOwnNothing, UnderWay

\* Every step keeps the invariant of the files.
LEMMA FilesStepInv == FilesInv /\ [FilesNext]_filesVars => FilesInv'
<1> SUFFICES ASSUME FilesInv, [FilesNext]_filesVars PROVE FilesInv'
  OBVIOUS
<1>1. CASE UNCHANGED filesVars
  BY <1>1 DEF filesVars, FilesInv, FilesTypeOK, OverlapsAreKnown, LoneRunsOwnTheirFiles,
              FailedRunsOwnNothing
<1>2. CASE FilesNext
  BY <1>2, PreflightStep, OpenTranscriptStep, OpenSidecarStep, StartStep,
     CommitRunStep, FailStep, UnlinkTranscriptStep, UnlinkSidecarStep,
     RemoveScratchStep, DieStep DEF FilesNext
<1> QED
  BY <1>1, <1>2

\* The invariant of the files holds for every set of calls.
THEOREM FilesSafety == FilesSpec => []FilesInv
  BY FilesInitInv, FilesStepInv, PTL DEF FilesSpec

\* The result of a call that never overlapped with another keeps its files.
THEOREM LoneResults == FilesSpec => []LoneResultsStay
<1>1. FilesInv => LoneResultsStay
  BY DEF FilesInv, FilesTypeOK, LoneRunsOwnTheirFiles, LoneResultsStay
<1> QED
  BY <1>1, FilesSafety, PTL

\* Whatever occupies an entry of the match id is there for a call that is under
\* way, committed, died, or left what it had; other failed calls can be retried.
THEOREM Retries == FilesSpec => []FailedMatchesCanBeRetried
<1>1. FilesInv => FailedMatchesCanBeRetried
  <2> SUFFICES ASSUME FilesInv PROVE FailedMatchesCanBeRetried
    OBVIOUS
  <2> DEFINE owners == committed \union left
                          \union {r \in Runs : stage[r] \in UnderWay \union {"dead"}}
  <2>1. \A r \in Runs \ owners :
            stage[r] \in {"called", "refused", "ended"} /\ r \notin committed \union left
    BY DEF FilesInv, FilesTypeOK, RunStages
  <2>2. \A r \in Runs \ owners : transcript # r /\ sidecar # r /\ r \notin scratch
    BY <2>1 DEF FilesInv, FailedRunsOwnNothing
  <2>3. /\ transcript \in Runs \union {NoRun} /\ sidecar \in Runs \union {NoRun}
        /\ scratch \subseteq Runs
    BY DEF FilesInv, FilesTypeOK
  <2> QED
    BY <2>2, <2>3 DEF FailedMatchesCanBeRetried
<1> QED
  BY <1>1, FilesSafety, PTL
=============================================================================
