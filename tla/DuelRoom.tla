------------------------------- MODULE DuelRoom -------------------------------
(***************************************************************************)
(* Duels between two browsers: class DuelRoom (live-arena/src/duel.ts) on  *)
(* the device of a host and on those of its possible guests, over the data *)
(* channels of PeerJS.                                                     *)
(*                                                                         *)
(* A host opens a room and passes on its invitation; a guest joins with an *)
(* invitation, perhaps one of an earlier room.  Both owners press Ready,   *)
(* then each browser asks its own agent for its own moves and sends the    *)
(* whole record.  Every way out is close(), which abandons the moves under *)
(* way by counting up the generation they captured.                        *)
(*                                                                         *)
(* A channel keeps order; what is still on the way when an end closes may  *)
(* be lost from some point on; it may stall for good or for a while; and a *)
(* browser may vanish without closing its end.  Heartbeats are not kept as *)
(* messages: silence is what a stalled or abandoned channel leaves behind. *)
(***************************************************************************)
EXTENDS Integers, SequencesExt, Bags

CONSTANTS
    Host,       \* the device that invites
    Guests,     \* devices that may hold an invitation
    None,       \* null
    Turn,       \* the seat to move at each ply, by the rules of the game
    moveLimit,  \* the move limit of the offer
    MaxOpens    \* bound: rooms opened on each device

VARIABLES
    room,        \* the DuelRoom of each device
    invitation,  \* the room of the host that a channel asks for
    end,         \* the state of both ends of a channel, by seat
    wire,        \* the messages on the way to each end, by seat
    flow,        \* whether a channel carries messages; it stalls once at most
    calls,       \* the runs of move() that have not ended
    asked,       \* history: how often an agent was asked for a ply
    consents     \* history: the rooms in which Ready was pressed

vars == <<room, invitation, end, wire, flow, calls, asked, consents>>

Rooms == {Host} \cup Guests
Seats == {0, 1}
Seat(r) == IF r = Host THEN 0 ELSE 1

\* The n-th room a guest opens has one channel.
Channels == UNION {{<<g, n>> : n \in 1..MaxOpens[g]} : g \in Guests}
At(c, s) == IF s = 0 THEN Host ELSE c[1]

\* What an agent may answer: a move that ends the game or one that does not.
Decisions == {"go", "win"}

\* A record holds the decisions of the duel over one channel.
Records == [id : Channels, events : Seq(Decisions)]

\* null is no channel and no record.
ASSUME DuelAssumption ==
    /\ Host \notin Guests
    /\ moveLimit \in Nat \ {0}
    /\ Turn \in [1..moveLimit -> Seats]
    /\ MaxOpens \in [Rooms -> Nat]
    /\ None \notin Channels
    /\ None \notin Records

\* peer and offer say whether the field is set; the opponent's metadata comes
\* with remoteReady.
ClosedRoom(opens, generation) ==
    [peer |-> FALSE, conn |-> None, offer |-> FALSE, localReady |-> FALSE,
     remoteReady |-> FALSE, started |-> FALSE, busy |-> FALSE,
     record |-> None, opens |-> opens, generation |-> generation]

Init ==
    /\ room = [r \in Rooms |-> ClosedRoom(0, 0)]
    /\ invitation = [c \in Channels |-> 0]
    /\ end = [c \in Channels |-> [s \in Seats |-> "none"]]
    /\ wire = [c \in Channels |-> [s \in Seats |-> <<>>]]
    /\ flow = [c \in Channels |-> "steady"]
    /\ calls = {}
    /\ asked = EmptyBag
    /\ consents = {}

IsOpen(c, s) == c # None /\ end[c][s] = "open"

\* send: more messages on the way to the other end, if that still listens.
Listens(c, s) == end[c][s] \in {"opening", "open"}
Sent(w, c, s, ms) ==
    IF ms # <<>> /\ Listens(c, 1 - s) THEN [w EXCEPT ![c][1 - s] = @ \o ms] ELSE w

-----------------------------------------------------------------------------
(* close(), and the ways that lead there.                                  *)

\* The room is left, its record stays.
Closed(rm) ==
    [rm EXCEPT !.peer = FALSE, !.conn = None, !.busy = FALSE,
               !.localReady = FALSE, !.remoteReady = FALSE,
               !.offer = @ /\ rm.record # None, !.generation = @ + 1]

\* A connection that is open sends stop first; of what is on the way, the first
\* k messages will arrive.
Close(r, k) ==
    LET c == room[r].conn
        s == Seat(r)
        left == IF IsOpen(c, s) THEN Sent(wire, c, s, <<[type |-> "stop"]>>)[c][1 - s]
                ELSE <<>>
    IN /\ room' = [room EXCEPT ![r] = Closed(@)]
       /\ IF c = None THEN k = 0 /\ UNCHANGED <<end, wire>>
          ELSE /\ k \in 0..Len(left)
               /\ end' = [end EXCEPT ![c][s] = "closed"]
               /\ wire' = [wire EXCEPT ![c] = [t \in Seats |->
                              IF t = s THEN <<>> ELSE SubSeq(left, 1, k)]]

\* How many messages may be on their way when a room closes.
Kept(r) == IF room[r].conn = None THEN {0}
           ELSE 0..(Len(wire[room[r].conn][1 - Seat(r)]) + 1)

\* The owner leaves, the app goes to the background, the connection errs: at
\* any time.
Leave(r) ==
    /\ room[r].peer
    /\ \E k \in Kept(r) : Close(r, k)
    /\ UNCHANGED <<invitation, flow, calls, asked, consents>>

\* The other end has closed, or is gone and twenty seconds were silent.
Abandoned(r) ==
    /\ end[room[r].conn][1 - Seat(r)] \in {"closed", "gone"}
    /\ wire[room[r].conn][Seat(r)] = <<>>

\* Twenty seconds without a heartbeat, or without the channel opening (which
\* it never does when the invitation is not the host's).
Silent(r) ==
    \/ flow[room[r].conn] = "stalled"
    \/ end[room[r].conn][Seat(r)] = "opening"

\* Mutant: silence is only noticed in the lobby.
TimeOutInLobby(r) ==
    /\ room[r].conn # None /\ ~room[r].started
    /\ Abandoned(r) \/ Silent(r)
    /\ Leave(r)

\* The timers and close events that are sure to come.
TimeOut(r) ==
    /\ room[r].conn # None
    /\ Abandoned(r) \/ Silent(r)
    /\ Leave(r)

\* The tab is gone, with its room, its record and the moves under way.
Vanish(r) ==
    /\ room[r].peer
    /\ room' = [room EXCEPT ![r] = ClosedRoom(@.opens, @.generation + 1)]
    /\ calls' = {x \in calls : x.room # r}
    /\ LET c == room[r].conn
           s == Seat(r)
       IN IF c = None THEN UNCHANGED <<end, wire>>
          ELSE /\ end' = [end EXCEPT ![c][s] = "gone"]
               /\ \E k \in 0..Len(wire[c][1 - s]) :
                      wire' = [wire EXCEPT ![c] = [t \in Seats |->
                                  IF t = s THEN <<>>
                                  ELSE SubSeq(wire[c][t], 1, k)]]
    /\ UNCHANGED <<invitation, flow, asked, consents>>

-----------------------------------------------------------------------------
(* Opening a room and connecting two of them.                              *)

\* open(), up to the identifier from the signalling server: all is reset but
\* the generation, which its close() counted up.
Opened(r) == [ClosedRoom(room[r].opens + 1, room[r].generation + 1)
                 EXCEPT !.peer = TRUE]

host ==
    /\ ~room[Host].peer
    /\ room[Host].opens < MaxOpens[Host]
    /\ room' = [room EXCEPT ![Host] = [Opened(Host) EXCEPT !.offer = TRUE]]
    /\ UNCHANGED <<invitation, end, wire, flow, calls, asked, consents>>

join(g) ==
    LET c == <<g, room[g].opens + 1>>
    IN /\ ~room[g].peer
       /\ room[g].opens < MaxOpens[g]
       /\ \E id \in 1..room[Host].opens :
              invitation' = [invitation EXCEPT ![c] = id]
       /\ room' = [room EXCEPT ![g] = [Opened(g) EXCEPT !.conn = c]]
       /\ end' = [end EXCEPT ![c][1] = "opening"]
       /\ UNCHANGED <<wire, flow, calls, asked, consents>>

\* A channel reaches the host's peer of its invitation.
Reaches(c) ==
    /\ end[c] = [s \in Seats |-> IF s = 0 THEN "none" ELSE "opening"]
    /\ room[Host].peer
    /\ room[Host].opens = invitation[c]

\* The first channel is reserved as soon as it is created.
Admit(c) ==
    /\ Reaches(c)
    /\ room[Host].conn = None
    /\ room' = [room EXCEPT ![Host].conn = c]
    /\ end' = [end EXCEPT ![c][0] = "opening"]
    /\ UNCHANGED <<invitation, wire, flow, calls, asked, consents>>

\* Another one is closed.
TurnAway(c) ==
    /\ Reaches(c)
    /\ room[Host].conn # None
    /\ end' = [end EXCEPT ![c][0] = "closed"]
    /\ UNCHANGED <<room, invitation, wire, flow, calls, asked, consents>>

\* The open event of an end; the host sends its offer.
ChannelOpens(c, s) ==
    /\ end[c][s] = "opening"
    /\ Listens(c, 1 - s)
    /\ end' = [end EXCEPT ![c][s] = "open"]
    /\ wire' = IF s = 0
               THEN Sent(wire, c, 0, <<[type |-> "offer", hostReady |-> room[Host].localReady]>>)
               ELSE wire
    /\ UNCHANGED <<room, invitation, flow, calls, asked, consents>>

-----------------------------------------------------------------------------
(* Readiness, the game, and the messages of both: ready, start, advance and  *)
(* receive.                                                                *)

Over(record) == record.events # <<>> /\ Last(record.events) = "win"
Ended(record) == Over(record) \/ Len(record.events) >= moveLimit

\* advance: a room whose turn it is starts a move; rest are the other moves.
MovesNext(r, rm) ==
    /\ rm.started /\ ~rm.busy
    /\ ~Ended(rm.record)
    /\ Turn[Len(rm.record.events) + 1] = Seat(r)
advance(r, rm, rest) ==
    /\ room' = [room EXCEPT ![r] = [rm EXCEPT !.busy = @ \/ MovesNext(r, rm)]]
    /\ calls' = rest \cup
           {x \in {[room |-> r, generation |-> rm.generation,
                    previous |-> rm.record, stage |-> "pacing"]} : MovesNext(r, rm)}

\* start: the host starts when both are ready; ms are the messages before.
Starts(rm) == rm.localReady /\ rm.remoteReady /\ ~rm.started
Started(rm) == [rm EXCEPT !.started = TRUE,
                          !.record = [id |-> rm.conn, events |-> <<>>]]
Setup(rm) == [type |-> "start", record |-> Started(rm).record]
start(rm, w, ms) ==
    IF Starts(rm)
    THEN /\ wire' = Sent(w, rm.conn, 0, ms \o <<Setup(rm)>>)
         /\ advance(Host, Started(rm), calls)
    ELSE /\ wire' = Sent(w, rm.conn, 0, ms)
         /\ advance(Host, rm, calls)

CanBeReady(r) ==
    room[r].peer /\ room[r].offer /\ ~room[r].localReady /\ ~room[r].started
Consent(r) ==
    /\ CanBeReady(r)
    /\ consents' = consents \cup {<<r, room[r].opens>>}
    /\ UNCHANGED <<invitation, end, flow, asked>>

HostReady == <<[type |-> "host-ready"]>>

\* Mutant: the game starts before the guest hears that the host is ready.
readyHostLast ==
    LET rm == [room[Host] EXCEPT !.localReady = TRUE]
    IN /\ Consent(Host)
       /\ wire' = IF Starts(rm) THEN Sent(wire, rm.conn, 0, <<Setup(rm)>> \o HostReady)
                  ELSE IF IsOpen(rm.conn, 0) THEN Sent(wire, rm.conn, 0, HostReady)
                  ELSE wire
       /\ advance(Host, IF Starts(rm) THEN Started(rm) ELSE rm, calls)

\* The host presses Ready; a guest that is connected is told.
readyHost ==
    LET rm == [room[Host] EXCEPT !.localReady = TRUE]
    IN /\ Consent(Host)
       /\ start(rm, wire, IF IsOpen(rm.conn, 0) THEN HostReady ELSE <<>>)

\* A guest presses Ready.
readyGuest(g) ==
    /\ Consent(g)
    /\ wire' = Sent(wire, room[g].conn, 1, <<[type |-> "ready"]>>)
    /\ room' = [room EXCEPT ![g].localReady = TRUE]
    /\ UNCHANGED calls

\* One legal move of the right seat on top of an unchanged history.
acceptDuelMove(previous, next, seat) ==
    /\ ~Ended(previous)
    /\ Turn[Len(previous.events) + 1] = seat
    /\ next.id = previous.id
    /\ Len(next.events) = Len(previous.events) + 1
    /\ IsPrefix(previous.events, next.events)

\* The messages receive knows what to do with; any other one closes the room
\* as an invalid update.
Expects(r, m) ==
    LET rm == room[r]
    IN \/ m.type = "stop"
       \/ m.type = "offer" /\ r # Host /\ ~rm.offer
       \/ m.type = "host-ready" /\ r # Host /\ rm.offer /\ ~rm.started
       \/ m.type = "ready" /\ r = Host /\ ~rm.remoteReady /\ ~rm.started
       \/ m.type = "start" /\ r # Host /\ rm.localReady /\ ~rm.started
       \/ /\ m.type = "move" /\ rm.started
          /\ acceptDuelMove(rm.record, m.record, 1 - Seat(r))

\* A message of that type is next at an end that is open and current.
HasMessage(r) == IsOpen(room[r].conn, Seat(r)) /\ wire[room[r].conn][Seat(r)] # <<>>
Message(r) == Head(wire[room[r].conn][Seat(r)])
Rest(r) == [wire EXCEPT ![room[r].conn][Seat(r)] = Tail(@)]
Arriving(r, type) ==
    /\ HasMessage(r) /\ flow[room[r].conn] # "stalled"
    /\ Message(r).type = type /\ Expects(r, Message(r))

\* The room after the message, which may start a move.
Receive(r, type, rm) ==
    /\ Arriving(r, type)
    /\ wire' = Rest(r)
    /\ advance(r, rm, calls)
    /\ UNCHANGED <<invitation, end, flow, asked, consents>>

receiveOffer(g) ==
    Receive(g, "offer", [room[g] EXCEPT !.offer = TRUE,
                                        !.remoteReady = Message(g).hostReady])
receiveHostReady(g) ==
    Receive(g, "host-ready", [room[g] EXCEPT !.remoteReady = TRUE])
receiveStart(g) ==
    Receive(g, "start", [room[g] EXCEPT !.record = Message(g).record,
                                        !.started = TRUE, !.remoteReady = TRUE])
receiveMove(r) ==
    Receive(r, "move", [room[r] EXCEPT !.record = Message(r).record])

\* Mutant: the game starts when the guest is ready.
receiveReadyStarts ==
    LET rm == [room[Host] EXCEPT !.localReady = TRUE, !.remoteReady = TRUE]
    IN /\ Arriving(Host, "ready")
       /\ start(rm, Rest(Host), <<>>)
       /\ UNCHANGED <<invitation, end, flow, asked, consents>>

receiveReady ==
    LET rm == [room[Host] EXCEPT !.remoteReady = TRUE]
    IN /\ Arriving(Host, "ready")
       /\ start(rm, Rest(Host), <<>>)
       /\ UNCHANGED <<invitation, end, flow, asked, consents>>

receiveStop(r) ==
    /\ Arriving(r, "stop")
    /\ Leave(r)

-----------------------------------------------------------------------------
(* move: a pause, the owner's agent, and the record with its decision.     *)

Current(x) == x.generation = room[x.room].generation
Ply(x) == [room |-> x.room, id |-> x.previous.id,
           ply |-> Len(x.previous.events) + 1]

\* The pause is over: choose is called.
Ask(x) ==
    /\ x.stage = "pacing" /\ Current(x)
    /\ calls' = (calls \ {x}) \cup {[x EXCEPT !.stage = "asking"]}
    /\ asked' = asked (+) SetToBag({Ply(x)})
    /\ UNCHANGED <<room, invitation, end, wire, flow, consents>>

\* Mutant: the move is sent, and recorded when the opponent answers it.
AnswerUnrecorded(x, decision) ==
    LET next == [x.previous EXCEPT !.events = Append(@, decision)]
        s == Seat(x.room)
    IN /\ x.stage = "asking" /\ Current(x)
       /\ acceptDuelMove(x.previous, next, s)
       /\ wire' = Sent(wire, room[x.room].conn, s, <<[type |-> "move", record |-> next]>>)
       /\ room' = [room EXCEPT ![x.room].busy = FALSE]
       /\ calls' = calls \ {x}
       /\ UNCHANGED <<invitation, end, flow, asked, consents>>

\* A legal answer: the record grows, is sent, and the room goes on.
Answer(x, decision) ==
    LET next == [x.previous EXCEPT !.events = Append(@, decision)]
        rm == [room[x.room] EXCEPT !.record = next, !.busy = FALSE]
        s == Seat(x.room)
    IN /\ x.stage = "asking" /\ Current(x)
       /\ acceptDuelMove(x.previous, next, s)
       /\ wire' = Sent(wire, rm.conn, s, <<[type |-> "move", record |-> next]>>)
       /\ advance(x.room, rm, calls \ {x})
       /\ UNCHANGED <<invitation, end, flow, asked, consents>>

\* Mutant: what the agent answers late is recorded as well.
ReturnLateRecorded(x) ==
    /\ x.stage = "asking" /\ ~Current(x)
    /\ room' = [room EXCEPT ![x.room].record =
                    [x.previous EXCEPT !.events = Append(@, "go")]]
    /\ calls' = calls \ {x}
    /\ UNCHANGED <<invitation, end, wire, flow, asked, consents>>

\* The room closed meanwhile: nothing happens, whatever the agent answers.
ReturnLate(x) ==
    /\ ~Current(x)
    /\ calls' = calls \ {x}
    /\ UNCHANGED <<room, invitation, end, wire, flow, asked, consents>>

\* No answer in time, or an illegal one.
Fault(x) ==
    /\ x.stage = "asking" /\ Current(x)
    /\ \E k \in Kept(x.room) : Close(x.room, k)
    /\ calls' = calls \ {x}
    /\ UNCHANGED <<invitation, flow, asked, consents>>

-----------------------------------------------------------------------------
(* The network.                                                            *)

Stall(c) ==
    /\ flow[c] = "steady"
    /\ \A s \in Seats : Listens(c, s)
    /\ flow' = [flow EXCEPT ![c] = "stalled"]
    /\ UNCHANGED <<room, invitation, end, wire, calls, asked, consents>>

Resume(c) ==
    /\ flow[c] = "stalled"
    /\ \E s \in Seats : Listens(c, s)
    /\ flow' = [flow EXCEPT ![c] = "resumed"]
    /\ UNCHANGED <<room, invitation, end, wire, calls, asked, consents>>

-----------------------------------------------------------------------------
Closes(r) == Leave(r) \/ TimeOut(r) \/ Vanish(r)
Lobby == host \/ readyHost \/ \E g \in Guests : join(g) \/ readyGuest(g)
Connects(c) == Admit(c) \/ TurnAway(c) \/ \E s \in Seats : ChannelOpens(c, s)
Receives ==
    \/ \E g \in Guests : receiveOffer(g) \/ receiveHostReady(g) \/ receiveStart(g)
    \/ receiveReady
    \/ \E r \in Rooms : receiveMove(r) \/ receiveStop(r)
Moves(x) ==
    Ask(x) \/ ReturnLate(x) \/ Fault(x) \/ \E d \in Decisions : Answer(x, d)

Next ==
    \/ Lobby \/ Receives
    \/ \E r \in Rooms : Closes(r)
    \/ \E c \in Channels : Connects(c) \/ Stall(c) \/ Resume(c)
    \/ \E x \in calls : Moves(x)

Spec == Init /\ [][Next]_vars

\* The owners may do nothing and networks may do anything, but timers run out,
\* what is on the way over a channel that is not stalled arrives, and choose
\* returns: every request of it has a time limit.
LiveSpec ==
    /\ Spec
    /\ WF_vars(Receives)
    /\ \A r \in Rooms :
           /\ WF_vars(TimeOut(r))
           /\ WF_vars(\E x \in {y \in calls : y.room = r} : Moves(x))

-----------------------------------------------------------------------------
(* What a duel promises to its two owners.                                 *)

Record(r) == room[r].record
SameDuel(r, q) ==
    /\ Record(r) # None /\ Record(q) # None
    /\ Record(r).id = Record(q).id

\* "Host and guest can export the same replay": wherever messages were lost and
\* rooms closed, the records of one duel are a common history, and what one
\* side has on top of it are moves of its own agent.
ReplaysAgree ==
    \A r, q \in Rooms : SameDuel(r, q) /\ Len(Record(r).events) >= Len(Record(q).events) =>
        /\ IsPrefix(Record(q).events, Record(r).events)
        /\ \A n \in (Len(Record(q).events) + 1)..Len(Record(r).events) :
               Turn[n] = Seat(r)

\* Agents cost money.  An agent is asked for a ply only in a duel both of whose
\* owners pressed Ready in the rooms it connects, once, and for one seat only.
CallsAreAgreed ==
    /\ \A x \in BagToSet(asked) :
           /\ asked[x] = 1
           /\ Turn[x.ply] = Seat(x.room)
           /\ {<<Host, invitation[x.id]>>, x.id} \subseteq consents
    /\ \A x, y \in BagToSet(asked) : x.id = y.id /\ x.ply = y.ply => x = y

\* Two rooms that follow the protocol never take each other's messages for an
\* invalid update, whatever the order of clicks, events and answers.
MessagesAreExpected ==
    \A r \in Rooms : HasMessage(r) => Expects(r, Message(r))

\* A room that closed asks no agent any more and keeps its record as it is,
\* however late the answer to an earlier question comes.
ClosedRoomsRest ==
    [][\A r \in Rooms :
           ~room[r].peer /\ ~room'[r].peer =>
               /\ room'[r].record = room[r].record
               /\ \A x \in BagToSet(asked' (-) asked) : x.room # r]_vars

\* A duel that started ends, by the rules or by its room closing, though the
\* other owner leaves, vanishes or stays behind a dead connection.
Playing(r) ==
    room[r].peer /\ room[r].started /\ ~Ended(Record(r))
StartedDuelsEnd == \A r \in Rooms : Playing(r) ~> ~Playing(r)
=============================================================================
