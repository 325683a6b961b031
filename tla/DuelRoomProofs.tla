--------------------------- MODULE DuelRoomProofs ---------------------------
(***************************************************************************)
(* Proofs about duels, for any guests, any number of rooms opened, any     *)
(* length of a duel and any line of moves: the invariant over both rooms   *)
(* and the messages on their way is inductive, so both replays tell one    *)
(* game, no room is sent what it must refuse, calls are made by agreement, *)
(* and a closed room leaves nothing behind.                                *)
(***************************************************************************)
EXTENDS DuelRoom, TLAPS

-----------------------------------------------------------------------------
(* The invariant.                                                          *)

\* What a room, a message, a call and a channel are.
DuelRooms ==
    [peer : BOOLEAN, conn : Channels \cup {None}, offer : BOOLEAN,
     localReady : BOOLEAN, remoteReady : BOOLEAN, started : BOOLEAN,
     busy : BOOLEAN, record : Records \cup {None}, opens : Nat, generation : Nat]
Messages ==
    [type : {"stop", "host-ready", "ready"}]
        \cup [type : {"offer"}, hostReady : BOOLEAN]
        \cup [type : {"start", "move"}, record : Records]
Calls ==
    [room : Rooms, generation : Nat, previous : Records,
     stage : {"pacing", "asking"}]
Plies == [room : Rooms, id : Channels, ply : 1..moveLimit]
EndStates == {"none", "opening", "open", "closed", "gone"}
Lines == [Seats -> Seq(Messages)]
Wirings == [Channels -> Lines]

\* The types of the variables of DuelRoom, in one invariant with the ranges
\* that the proofs count on.
DuelTypeOK ==
    /\ room \in [Rooms -> DuelRooms]
    /\ invitation \in [Channels -> Nat]
    /\ end \in [Channels -> [Seats -> EndStates]]
    /\ wire \in Wirings
    /\ flow \in [Channels -> {"steady", "stalled", "resumed"}]
    /\ calls \subseteq Calls
    /\ IsABag(asked) /\ BagToSet(asked) \subseteq Plies
    /\ consents \subseteq Rooms \X Nat

\* Both owners pressed Ready in the rooms that a channel connects.
Agreed(c) == {<<Host, invitation[c]>>, c} \subseteq consents

\* Who holds which end of a channel.
Ends ==
    /\ \A r \in Rooms : room[r].conn # None =>
           /\ room[r].peer
           /\ At(room[r].conn, Seat(r)) = r
           /\ Listens(room[r].conn, Seat(r))
    /\ \A c \in Channels, s \in Seats : Listens(c, s) => room[At(c, s)].conn = c
    /\ \A g \in Guests : room[g].peer =>
           room[g].conn # None /\ room[g].conn = <<g, room[g].opens>>
    /\ \A c \in Channels : c[2] > room[c[1]].opens => end[c][1] = "none"
    /\ \A c \in Channels : end[c][1] = "none" => end[c][0] = "none"
    /\ \A c \in Channels : Listens(c, 0) => invitation[c] = room[Host].opens

\* What the fields of a room say of each other and of its channel.
Playable(r) ==
    LET rm == room[r]
    IN /\ ~rm.peer => ~rm.localReady /\ ~rm.remoteReady /\ ~rm.busy
       /\ rm.localReady => <<r, rm.opens>> \in consents
       /\ rm.started <=> rm.record # None
       /\ rm.busy => rm.started
       /\ rm.started /\ rm.peer =>
              /\ rm.localReady /\ rm.remoteReady
              /\ rm.conn # None
              /\ rm.record.id = rm.conn
       /\ rm.started =>
              /\ At(rm.record.id, Seat(r)) = r
              /\ Len(rm.record.events) <= moveLimit
              /\ Agreed(rm.record.id)
              /\ end[rm.record.id][Seat(r)] \in {"open", "closed"}

\* The host hears of "ready" over the channel that both owners agreed to.
HostReadiness ==
    room[Host].remoteReady =>
        /\ room[Host].conn # None
        /\ end[room[Host].conn][0] = "open"
        /\ room[Host].conn \in consents

\* A guest is offered a duel by a host that opened the channel, and only then
\* is anybody ready.
GuestReadiness(g) ==
    LET rm == room[g]
    IN /\ rm.peer /\ rm.offer =>
              /\ end[rm.conn][1] = "open"
              /\ end[rm.conn][0] \in {"open", "closed", "gone"}
       /\ rm.localReady \/ rm.remoteReady => rm.offer

\* The flags of all rooms.
Flags ==
    /\ \A r \in Rooms : Playable(r)
    /\ HostReadiness
    /\ \A g \in Guests : GuestReadiness(g)

\* The messages on a wire.
On(w) == {w[i] : i \in 1..Len(w)}

\* The messages that carry a record.
Carries(m) == m.type \in {"start", "move"}

\* What may come first at a guest and at the host, and after which message.
FirstAtGuest(rm, m) ==
    \/ m.type = "offer" /\ ~rm.offer
    \/ m.type \in {"host-ready", "start"} /\ rm.offer /\ ~rm.started
    \/ m.type = "stop" /\ rm.offer
    \/ m.type = "move" /\ rm.started /\ acceptDuelMove(rm.record, m.record, 0)

\* What may follow a message on the way to a guest.
NextAtGuest(p, m) ==
    \/ m.type = "stop" /\ p.type # "stop"
    \/ m.type \in {"host-ready", "start"} /\ p.type \in {"offer", "host-ready"}
    \/ /\ m.type = "move" /\ p.type \in {"start", "move"}
       /\ acceptDuelMove(p.record, m.record, 0)

\* What may come first at the host.
FirstAtHost(rm, m) ==
    \/ m.type = "ready" /\ ~rm.remoteReady /\ ~rm.started
    \/ m.type = "stop"
    \/ m.type = "move" /\ rm.started /\ acceptDuelMove(rm.record, m.record, 1)

\* What may follow a message on the way to the host.
NextAtHost(p, m) ==
    \/ m.type = "stop" /\ p.type # "stop"
    \/ m.type = "move" /\ p.type = "move" /\ acceptDuelMove(p.record, m.record, 1)

\* A whole wire to a guest, and to the host, in order.
ToGuest(rm, w) ==
    /\ w # <<>> => FirstAtGuest(rm, w[1])
    /\ \A i \in 1..Len(w) : i > 1 => NextAtGuest(w[i - 1], w[i])
ToHost(rm, w) ==
    /\ w # <<>> => FirstAtHost(rm, w[1])
    /\ \A i \in 1..Len(w) : i > 1 => NextAtHost(w[i - 1], w[i])

\* What is on the way to the guest of a channel: the right messages in the
\* right order, and "start" only if the guest is ready.
GuestWire(c) ==
    LET w == wire[c][1]
    IN /\ w # <<>> => Listens(c, 1) /\ end[c][0] \notin {"none", "opening"}
       /\ ToGuest(room[c[1]], w)
       /\ \A m \in On(w) :
              /\ m.type = "start" =>
                     /\ room[c[1]].localReady
                     /\ m.record = [id |-> c, events |-> <<>>]
                     /\ Agreed(c)
              /\ Carries(m) => m.record.id = c
              /\ Listens(c, 0) => m.type # "stop"

\* What is on the way to the host: "ready" only if both owners agreed.
HostWire(c) ==
    LET v == wire[c][0]
    IN /\ v # <<>> => Listens(c, 0) /\ end[c][1] \notin {"none", "opening"}
       /\ ToHost(room[Host], v)
       /\ \A m \in On(v) :
              /\ m.type = "ready" => c \in consents
              /\ Carries(m) => m.record.id = c
              /\ Listens(c, 1) => m.type # "stop"

\* All that is on the way.
Wires == \A c \in Channels : GuestWire(c) /\ HostWire(c)

\* The room has the record of that channel; the history of its record.
Holds(r, c) == room[r].started /\ room[r].record.id = c
Events(r) == room[r].record.events

\* What each side knows of the other's readiness.
Knows(c) ==
    LET w == wire[c][1]
        v == wire[c][0]
    IN /\ end[c][0] = "open" /\ Listens(c, 1) /\ w = <<>> => room[c[1]].offer
       /\ Listens(c, 0) /\ ~room[Host].started =>
              ~Holds(c[1], c) /\ \A m \in On(w) : ~Carries(m)
       /\ Listens(c, 1) /\ (\E m \in On(v) : m.type = "ready") => room[c[1]].localReady
       /\ Listens(c, 0) /\ Listens(c, 1) /\ room[Host].remoteReady => room[c[1]].localReady
       /\ Listens(c, 1) /\ ~room[c[1]].started => \A m \in On(v) : ~Carries(m)

\* Nobody is ahead of what the other side told it.
Readiness == \A c \in Channels : Knows(c)

\* One history goes on from another, by moves of one seat.
Within(a, b, seat) ==
    /\ Len(a) <= Len(b)
    /\ \A n \in 1..Len(a) : a[n] = b[n]
    /\ \A n \in (Len(a) + 1)..Len(b) : Turn[n] = seat

\* The histories of a duel, in the records of both sides and on the way.
History(c) ==
    LET w == wire[c][1]
        v == wire[c][0]
        g == c[1]
    IN /\ Holds(Host, c) /\ Holds(g, c) =>
              Within(Events(g), Events(Host), 0) \/ Within(Events(Host), Events(g), 1)
       /\ Holds(Host, c) => \A m \in On(w) :
              Carries(m) => Within(m.record.events, Events(Host), 0)
       /\ Holds(g, c) => \A m \in On(v) :
              Carries(m) => Within(m.record.events, Events(g), 1)
       /\ Listens(c, 0) /\ Listens(c, 1) /\ room[Host].started =>
              IF w = <<>> THEN room[g].started /\ Len(Events(g)) >= Len(Events(Host))
              ELSE Carries(Last(w)) /\ Last(w).record.events = Events(Host)
       /\ Listens(c, 0) /\ Listens(c, 1) /\ room[g].started =>
              IF v = <<>> THEN room[Host].started /\ Len(Events(Host)) >= Len(Events(g))
              ELSE Carries(Last(v)) /\ Last(v).record.events = Events(g)

\* The histories of every duel.
Histories == \A c \in Channels : History(c)

\* A current call is about the position its room is at, there is one of
\* them, and the game is not over.
CallsInv ==
    /\ \A x \in calls :
           /\ x.generation <= room[x.room].generation
           /\ Current(x) =>
                  /\ room[x.room].busy /\ room[x.room].peer
                  /\ room[x.room].record = x.previous
                  /\ ~Ended(x.previous)
                  /\ Turn[Len(x.previous.events) + 1] = Seat(x.room)
    /\ \A x, y \in calls : Current(x) /\ Current(y) /\ x.room = y.room => x = y

\* What an agent was asked is behind it, or its answer is awaited.
Done(y) ==
    \/ end[y.id][Turn[y.ply]] \in {"closed", "gone"}
    \/ /\ room[y.room].conn = y.id /\ room[y.room].started
       /\ \/ y.ply <= Len(Events(y.room))
          \/ /\ y.ply = Len(Events(y.room)) + 1
             /\ \E x \in calls : Current(x) /\ x.room = y.room /\ x.stage = "asking"

\* Nobody is asked twice about a ply of a duel, and only its player is asked.
AskedInv ==
    \A y \in DOMAIN asked :
        /\ asked[y] = 1
        /\ y.room = At(y.id, Turn[y.ply]) /\ Seat(y.room) = Turn[y.ply]
        /\ Agreed(y.id)
        /\ end[y.id][1] # "none"
        /\ Done(y)

\* The invariant of the duels.
Duels == Ends /\ Flags /\ Wires /\ Readiness /\ Histories
DuelInvariants == Duels /\ CallsInv /\ AskedInv

-----------------------------------------------------------------------------

(* Channels, seats and bags.                                               *)

USE DEF Seats, Rooms

\* The host is no guest; null is no channel and no record.
LEMMA Apart ==
    /\ Host \notin Guests
    /\ moveLimit \in Nat \ {0}
    /\ None \notin Channels
    /\ None \notin Records
  BY DuelAssumption

\* A channel is a guest and a number; it connects that guest to the host.
LEMMA ChannelShape ==
    ASSUME NEW c \in Channels
    PROVE  /\ c[1] \in Guests /\ c[2] \in Nat \ {0} /\ c = <<c[1], c[2]>>
           /\ c # None
           /\ At(c, 0) = Host /\ At(c, 1) = c[1]
<1>1. PICK g \in Guests : c \in {<<g, n>> : n \in 1..MaxOpens[g]}
  BY DEF Channels
<1>2. PICK n \in 1..MaxOpens[g] : c = <<g, n>>
  BY <1>1
<1>3. MaxOpens[g] \in Nat
  BY DuelAssumption
<1>4. Host \notin Guests /\ c # None
  BY Apart
<1> QED
  BY <1>2, <1>3, <1>4 DEF At

\* The host has seat 0, a guest seat 1.
LEMMA SeatIs ==
    /\ Seat(Host) = 0
    /\ \A g \in Guests : Seat(g) = 1 /\ g # Host /\ g \in Rooms
    /\ \A r \in Rooms : Seat(r) \in Seats /\ (r = Host <=> Seat(r) = 0)
    /\ Host \in Rooms
  BY Apart DEF Seat

\* One more copy of something a bag does not hold yet.
LEMMA AddedIs ==
    ASSUME NEW b, NEW x, IsABag(b), x \notin DOMAIN b
    PROVE  /\ DOMAIN (b (+) SetToBag({x})) = DOMAIN b \cup {x}
           /\ (b (+) SetToBag({x}))[x] = 1
           /\ \A y \in DOMAIN b : (b (+) SetToBag({x}))[y] = b[y]
           /\ IsABag(b (+) SetToBag({x}))
           /\ \A y \in BagToSet((b (+) SetToBag({x})) (-) b) : y = x
  BY DEF (+), (-), SetToBag, IsABag, BagToSet

\* A bag without change has nothing more.
LEMMA NothingAdded ==
    ASSUME NEW b, IsABag(b)
    PROVE  BagToSet(b (-) b) = {}
  BY DEF (-), IsABag, BagToSet

-----------------------------------------------------------------------------
(* Histories.                                                              *)

\* A history goes on from itself.
LEMMA WithinItself ==
    ASSUME NEW a \in Seq(Decisions), NEW seat
    PROVE  Within(a, a, seat)
  BY DEF Within

\* Every history starts from the empty one, of any seat if it is empty itself.
LEMMA WithinNothing == \A seat : Within(<<>>, <<>>, seat)
  BY DEF Within

\* One more move of the seat.
LEMMA WithinMore ==
    ASSUME NEW a \in Seq(Decisions), NEW b \in Seq(Decisions), NEW n \in Seq(Decisions),
           NEW seat, Within(a, b, seat), Within(b, n, seat)
    PROVE  Within(a, n, seat)
  BY DEF Within

\* A history goes on from a longer one of the same length only if it is that one.
LEMMA WithinSame ==
    ASSUME NEW a \in Seq(Decisions), NEW b \in Seq(Decisions), NEW seat,
           Within(a, b, seat), Len(b) <= Len(a)
    PROVE  a = b
<1>1. Len(a) = Len(b)
  BY DEF Within
<1>2. \A n \in 1..Len(a) : a[n] = b[n]
  BY DEF Within
<1> QED
  BY <1>1, <1>2

\* If it is the other seat's turn after a history, nothing of this seat follows.
LEMMA WithinTurn ==
    ASSUME NEW a \in Seq(Decisions), NEW b \in Seq(Decisions), NEW seat,
           Within(a, b, seat), Turn[Len(a) + 1] # seat
    PROVE  a = b
<1>1. Len(b) <= Len(a)
  BY DEF Within
<1> QED
  BY <1>1, WithinSame

\* What acceptDuelMove lets through.
LEMMA Accepted ==
    ASSUME NEW p \in Records, NEW n \in Records, NEW seat, acceptDuelMove(p, n, seat)
    PROVE  /\ ~Ended(p)
           /\ Turn[Len(p.events) + 1] = seat
           /\ n.id = p.id
           /\ Len(n.events) = Len(p.events) + 1
           /\ Len(n.events) <= moveLimit
           /\ Within(p.events, n.events, seat)
<1>1. p.events \in Seq(Decisions) /\ n.events \in Seq(Decisions)
  BY DEF Records
<1>2. Len(p.events) < moveLimit
  BY <1>1, Apart DEF acceptDuelMove, Ended
<1>3. \A i \in 1..Len(p.events) : p.events[i] = n.events[i]
  <2> TAKE i \in 1..Len(p.events)
  <2>1. SubSeq(p.events, 1, Len(p.events)) = SubSeq(n.events, 1, Len(p.events))
    BY DEF acceptDuelMove, IsPrefix
  <2>2. SubSeq(p.events, 1, Len(p.events))[i] = p.events[i]
    BY <1>1
  <2>3. SubSeq(n.events, 1, Len(p.events))[i] = n.events[i]
    BY <1>1 DEF acceptDuelMove
  <2> QED
    BY <2>1, <2>2, <2>3
<1> QED
  BY <1>1, <1>2, <1>3, Apart DEF acceptDuelMove, Within

\* The first part of a history is a prefix of it.
LEMMA WithinPrefix ==
    ASSUME NEW a \in Seq(Decisions), NEW b \in Seq(Decisions), NEW seat, Within(a, b, seat)
    PROVE  IsPrefix(a, b)
<1>1. Len(a) <= Len(b) /\ \A n \in 1..Len(a) : a[n] = b[n]
  BY DEF Within
<1>2. SubSeq(a, 1, Len(a)) = SubSeq(b, 1, Len(a))
  BY <1>1
<1> QED
  BY <1>1, <1>2 DEF IsPrefix

-----------------------------------------------------------------------------
(* Wires.                                                                  *)

\* Nothing is on an empty wire.
LEMMA NothingOn == On(<<>>) = {}
  BY DEF On

\* What is on a wire are messages; the first and the last are among them.
LEMMA OnTyped ==
    ASSUME NEW w \in Seq(Messages)
    PROVE  /\ On(w) \subseteq Messages
           /\ w # <<>> => /\ w[1] \in On(w) /\ Last(w) \in On(w)
                          /\ Head(w) = w[1]
           /\ On(<<>>) = {}
           /\ \A m \in On(w) : w # <<>>
  BY DEF On, Last

\* A message arrives.
LEMMA OnTail ==
    ASSUME NEW w \in Seq(Messages), w # <<>>
    PROVE  /\ Tail(w) \in Seq(Messages)
           /\ On(Tail(w)) \subseteq On(w)
           /\ Tail(w) # <<>> => Last(Tail(w)) = Last(w)
           /\ Tail(w) = <<>> => Last(w) = w[1]
<1>1. /\ Tail(w) \in Seq(Messages)
      /\ Len(Tail(w)) = Len(w) - 1 /\ \A i \in 1..Len(Tail(w)) : Tail(w)[i] = w[i + 1]
  OBVIOUS
<1>2. On(Tail(w)) \subseteq On(w)
  BY <1>1 DEF On
<1>3. Tail(w) # <<>> => Last(Tail(w)) = Last(w)
  BY <1>1 DEF Last
<1>4. Tail(w) = <<>> => Len(w) = 1
  BY <1>1
<1> QED
  BY <1>1, <1>2, <1>3, <1>4 DEF Last

\* A message is sent.
LEMMA OnAppend ==
    ASSUME NEW w \in Seq(Messages), NEW m \in Messages
    PROVE  /\ w \o <<m>> \in Seq(Messages)
           /\ w \o <<m>> # <<>>
           /\ On(w \o <<m>>) = On(w) \cup {m}
           /\ Last(w \o <<m>>) = m
<1>1. /\ w \o <<m>> \in Seq(Messages)
      /\ Len(w \o <<m>>) = Len(w) + 1
      /\ (w \o <<m>>)[Len(w) + 1] = m
      /\ \A i \in 1..Len(w) : (w \o <<m>>)[i] = w[i]
  OBVIOUS
<1>2. \A x \in On(w \o <<m>>) : x \in On(w) \cup {m}
  BY <1>1 DEF On
<1>3. On(w) \subseteq On(w \o <<m>>) /\ m \in On(w \o <<m>>)
  BY <1>1 DEF On
<1> QED
  BY <1>1, <1>2, <1>3 DEF Last

\* What is on the way is lost from some point on.
LEMMA OnCut ==
    ASSUME NEW w \in Seq(Messages), NEW k \in 0..Len(w)
    PROVE  /\ SubSeq(w, 1, k) \in Seq(Messages)
           /\ On(SubSeq(w, 1, k)) \subseteq On(w)
           /\ SubSeq(w, 1, k) # <<>> => w # <<>>
<1>1. /\ SubSeq(w, 1, k) \in Seq(Messages)
      /\ Len(SubSeq(w, 1, k)) = k
      /\ \A i \in 1..k : SubSeq(w, 1, k)[i] = w[i]
  OBVIOUS
<1> QED
  BY <1>1 DEF On

\* The order on the way to a guest.
LEMMA GuestTail ==
    ASSUME NEW w \in Seq(Messages), w # <<>>, NEW rm, NEW now, ToGuest(rm, w),
           \A m \in On(w) : NextAtGuest(w[1], m) => FirstAtGuest(now, m)
    PROVE  ToGuest(now, Tail(w))
<1>1. Len(Tail(w)) = Len(w) - 1 /\ \A i \in 1..Len(Tail(w)) : Tail(w)[i] = w[i + 1]
  OBVIOUS
<1>2. Tail(w) # <<>> => FirstAtGuest(now, Tail(w)[1])
  BY <1>1 DEF ToGuest, On
<1>3. \A i \in 1..Len(Tail(w)) : i > 1 => NextAtGuest(Tail(w)[i - 1], Tail(w)[i])
  BY <1>1 DEF ToGuest
<1> QED
  BY <1>2, <1>3 DEF ToGuest

\* A message that fits may be added at the end of a wire to a guest,
LEMMA GuestAppend ==
    ASSUME NEW w \in Seq(Messages), NEW m \in Messages, NEW rm, ToGuest(rm, w),
           w = <<>> => FirstAtGuest(rm, m),
           w # <<>> => NextAtGuest(Last(w), m)
    PROVE  ToGuest(rm, w \o <<m>>)
<1>1. /\ Len(w \o <<m>>) = Len(w) + 1
      /\ (w \o <<m>>)[Len(w) + 1] = m
      /\ \A i \in 1..Len(w) : (w \o <<m>>)[i] = w[i]
  OBVIOUS
<1>2. FirstAtGuest(rm, (w \o <<m>>)[1])
  BY <1>1 DEF ToGuest
<1>3. \A i \in 1..Len(w \o <<m>>) : i > 1 => NextAtGuest((w \o <<m>>)[i - 1], (w \o <<m>>)[i])
  BY <1>1 DEF ToGuest, Last
<1> QED
  BY <1>2, <1>3 DEF ToGuest

\* what follows may be lost,
LEMMA GuestCut ==
    ASSUME NEW w \in Seq(Messages), NEW k \in 0..Len(w), NEW rm, ToGuest(rm, w)
    PROVE  ToGuest(rm, SubSeq(w, 1, k))
<1>1. Len(SubSeq(w, 1, k)) = k /\ \A i \in 1..k : SubSeq(w, 1, k)[i] = w[i]
  OBVIOUS
<1> QED
  BY <1>1 DEF ToGuest

\* and the guest may change as long as the first message still fits.
LEMMA GuestSame ==
    ASSUME NEW w \in Seq(Messages), NEW rm, NEW now, ToGuest(rm, w),
           \A m \in On(w) : FirstAtGuest(rm, m) => FirstAtGuest(now, m)
    PROVE  ToGuest(now, w)
  BY DEF ToGuest, On

\* An empty wire always fits.
LEMMA GuestNothing == \A rm : ToGuest(rm, <<>>)
  BY DEF ToGuest

\* The order on the way to the host.
LEMMA HostTail ==
    ASSUME NEW w \in Seq(Messages), w # <<>>, NEW rm, NEW now, ToHost(rm, w),
           \A m \in On(w) : NextAtHost(w[1], m) => FirstAtHost(now, m)
    PROVE  ToHost(now, Tail(w))
<1>1. Len(Tail(w)) = Len(w) - 1 /\ \A i \in 1..Len(Tail(w)) : Tail(w)[i] = w[i + 1]
  OBVIOUS
<1>2. Tail(w) # <<>> => FirstAtHost(now, Tail(w)[1])
  BY <1>1 DEF ToHost, On
<1>3. \A i \in 1..Len(Tail(w)) : i > 1 => NextAtHost(Tail(w)[i - 1], Tail(w)[i])
  BY <1>1 DEF ToHost
<1> QED
  BY <1>2, <1>3 DEF ToHost

\* A message that fits may be added at the end of a wire to the host,
LEMMA HostAppend ==
    ASSUME NEW w \in Seq(Messages), NEW m \in Messages, NEW rm, ToHost(rm, w),
           w = <<>> => FirstAtHost(rm, m),
           w # <<>> => NextAtHost(Last(w), m)
    PROVE  ToHost(rm, w \o <<m>>)
<1>1. /\ Len(w \o <<m>>) = Len(w) + 1
      /\ (w \o <<m>>)[Len(w) + 1] = m
      /\ \A i \in 1..Len(w) : (w \o <<m>>)[i] = w[i]
  OBVIOUS
<1>2. FirstAtHost(rm, (w \o <<m>>)[1])
  BY <1>1 DEF ToHost
<1>3. \A i \in 1..Len(w \o <<m>>) : i > 1 => NextAtHost((w \o <<m>>)[i - 1], (w \o <<m>>)[i])
  BY <1>1 DEF ToHost, Last
<1> QED
  BY <1>2, <1>3 DEF ToHost

\* what follows may be lost,
LEMMA HostCut ==
    ASSUME NEW w \in Seq(Messages), NEW k \in 0..Len(w), NEW rm, ToHost(rm, w)
    PROVE  ToHost(rm, SubSeq(w, 1, k))
<1>1. Len(SubSeq(w, 1, k)) = k /\ \A i \in 1..k : SubSeq(w, 1, k)[i] = w[i]
  OBVIOUS
<1> QED
  BY <1>1 DEF ToHost

\* and the host may change as long as the first message still fits.
LEMMA HostSame ==
    ASSUME NEW w \in Seq(Messages), NEW rm, NEW now, ToHost(rm, w),
           \A m \in On(w) : FirstAtHost(rm, m) => FirstAtHost(now, m)
    PROVE  ToHost(now, w)
  BY DEF ToHost, On

\* An empty wire always fits.
LEMMA HostNothing == \A rm : ToHost(rm, <<>>)
  BY DEF ToHost

-----------------------------------------------------------------------------
(* Types and the effect of each action.                                    *)

\* The fields of a room are typed.
LEMMA RoomIs ==
    ASSUME DuelTypeOK, NEW r \in Rooms
    PROVE  /\ room[r] \in DuelRooms
           /\ room[r].conn \in Channels \cup {None} /\ room[r].record \in Records \cup {None}
           /\ room[r].opens \in Nat /\ room[r].generation \in Nat
           /\ room[r].peer \in BOOLEAN /\ room[r].offer \in BOOLEAN
           /\ room[r].localReady \in BOOLEAN /\ room[r].remoteReady \in BOOLEAN
           /\ room[r].started \in BOOLEAN /\ room[r].busy \in BOOLEAN
  BY DEF DuelTypeOK, DuelRooms

\* Wires and ends of channels are typed.
LEMMA WireIs ==
    ASSUME DuelTypeOK, NEW c \in Channels, NEW s \in Seats
    PROVE  wire[c][s] \in Seq(Messages) /\ end[c][s] \in EndStates
  BY DEF DuelTypeOK, Wirings, Lines

\* A function with another value at one point.
Put(f, x, y) == [f EXCEPT ![x] = y]

\* One direction of a channel is replaced.
LEMMA LinePut ==
    ASSUME NEW f \in Lines, NEW s \in Seats, NEW ms \in Seq(Messages)
    PROVE  /\ Put(f, s, ms) \in Lines
           /\ Put(f, s, ms)[s] = ms
           /\ Put(f, s, ms)[1 - s] = f[1 - s]
<1>1. 1 - s \in Seats /\ 1 - s # s
  OBVIOUS
<1> QED
  BY <1>1 DEF Lines, Put

\* Both directions of one channel are replaced.
LEMMA WiringPut ==
    ASSUME NEW w \in Wirings, NEW c \in Channels, NEW f \in Lines
    PROVE  /\ Put(w, c, f) \in Wirings
           /\ Put(w, c, f)[c] = f
           /\ \A d \in Channels : d # c => Put(w, c, f)[d] = w[d]
  BY DEF Wirings, Put

\* The wires of a channel are typed.
LEMMA LineIs ==
    ASSUME NEW w \in Wirings, NEW c \in Channels
    PROVE  /\ w[c] \in Lines
           /\ \A s \in Seats : w[c][s] \in Seq(Messages)
  BY DEF Wirings, Lines

\* The parts of a message are typed.
LEMMA MessageIs ==
    ASSUME NEW m \in Messages
    PROVE  /\ m.type \in {"stop", "host-ready", "ready", "offer", "start", "move"}
           /\ m.type = "offer" => m.hostReady \in BOOLEAN
           /\ Carries(m) => m.record \in Records /\ m.record.events \in Seq(Decisions)
  BY DEF Messages, Carries, Records

\* The messages that the code makes are messages.
LEMMA MessagesAre ==
    /\ [type |-> "stop"] \in Messages
    /\ [type |-> "ready"] \in Messages
    /\ [type |-> "host-ready"] \in Messages
    /\ \A h \in BOOLEAN : [type |-> "offer", hostReady |-> h] \in Messages
    /\ \A t \in {"start", "move"}, x \in Records : [type |-> t, record |-> x] \in Messages
  BY DEF Messages

\* A record is of a channel, and is not null.
LEMMA RecordIs ==
    ASSUME NEW x \in Records
    PROVE  x # None /\ x.id \in Channels /\ x.events \in Seq(Decisions)
  BY Apart DEF Records

\* Everything that is said of a room but busy.
Face(a, b) ==
    /\ a.peer = b.peer /\ a.conn = b.conn /\ a.offer = b.offer
    /\ a.localReady = b.localReady /\ a.remoteReady = b.remoteReady
    /\ a.started = b.started /\ a.record = b.record
    /\ a.opens = b.opens /\ a.generation = b.generation

\* The run of move() that advance starts.
Call(r, rm) == [room |-> r, generation |-> rm.generation,
                previous |-> rm.record, stage |-> "pacing"]

\* advance changes one room, and adds at most one call.
LEMMA AdvanceSets ==
    ASSUME DuelTypeOK, NEW r \in Rooms, NEW rm \in DuelRooms, NEW rest,
           rm.started => rm.record # None, advance(r, rm, rest)
    PROVE  /\ room' \in [Rooms -> DuelRooms]
           /\ \A q \in Rooms : q # r => room'[q] = room[q]
           /\ Face(room'[r], rm)
           /\ room'[r].busy => rm.busy \/ MovesNext(r, rm)
           /\ rest \subseteq calls => calls' \subseteq Calls
           /\ \A x \in calls' : x \in rest \/ (MovesNext(r, rm) /\ x = Call(r, rm))
           /\ rest \subseteq calls'
           /\ MovesNext(r, rm) => room'[r].busy /\ rm.busy = FALSE
<1> DEFINE now == [rm EXCEPT !.busy = @ \/ MovesNext(r, rm)]
<1>1. MovesNext(r, rm) \in BOOLEAN /\ rm.busy \in BOOLEAN
  BY DEF MovesNext, DuelRooms
<1>2. now \in DuelRooms /\ Face(now, rm) /\ now.busy = (rm.busy \/ MovesNext(r, rm))
  BY <1>1 DEF DuelRooms, Face
<1>3. room' = [room EXCEPT ![r] = now]
  BY DEF advance
<1>4. room'[r] = now
  BY <1>3 DEF DuelTypeOK
<1>5. MovesNext(r, rm) => Call(r, rm) \in Calls /\ rm.busy = FALSE
  <2>1. MovesNext(r, rm) => rm.record \in Records /\ rm.generation \in Nat /\ rm.busy = FALSE
    BY <1>1 DEF MovesNext, DuelRooms
  <2> QED
    BY <2>1 DEF Call, Calls
<1>6. calls' = rest \cup {x \in {Call(r, rm)} : MovesNext(r, rm)}
  BY DEF advance, Call
<1> HIDE DEF now
<1> QED
  BY <1>1, <1>2, <1>3, <1>4, <1>5, <1>6 DEF DuelTypeOK

\* Sending changes the wire to the other end, if that listens, and no other.
LEMMA SentIs ==
    ASSUME NEW w \in Wirings, NEW c \in Channels,
           NEW s \in Seats, NEW ms \in Seq(Messages)
    PROVE  /\ Sent(w, c, s, ms) \in Wirings
           /\ \A d \in Channels : d # c => Sent(w, c, s, ms)[d] = w[d]
           /\ Sent(w, c, s, ms)[c][s] = w[c][s]
           /\ Listens(c, 1 - s) => Sent(w, c, s, ms)[c][1 - s] = w[c][1 - s] \o ms
           /\ ~Listens(c, 1 - s) => Sent(w, c, s, ms)[c][1 - s] = w[c][1 - s]
<1> DEFINE o == 1 - s
           out == w[c][o] \o ms
           line == Put(w[c], o, out)
<1>1. o \in Seats /\ 1 - o = s
  OBVIOUS
<1>2. out \in Seq(Messages) /\ (ms = <<>> => out = w[c][o])
  BY <1>1, LineIs
<1>3. CASE ms # <<>> /\ Listens(c, o)
  <2>1. Sent(w, c, s, ms) = Put(w, c, line)
    BY <1>3 DEF Sent, Put
  <2> HIDE DEF o, out
  <2>2. line \in Lines /\ line[o] = out /\ line[1 - o] = w[c][1 - o]
    BY <1>1, <1>2, LineIs, LinePut, ZenonT(60)
  <2> HIDE DEF line
  <2>3. Sent(w, c, s, ms) \in Wirings /\ Sent(w, c, s, ms)[c] = line
        /\ \A d \in Channels : d # c => Sent(w, c, s, ms)[d] = w[d]
    BY <2>1, <2>2, WiringPut
  <2> QED
    BY <1>1, <1>3, <2>2, <2>3 DEF o, out
<1>4. CASE ~(ms # <<>> /\ Listens(c, o))
  <2>1. Sent(w, c, s, ms) = w
    BY <1>4 DEF Sent
  <2> QED
    BY <1>2, <1>4, <2>1
<1> QED
  BY <1>3, <1>4

\* To send nothing is no change.
LEMMA SentNothing == \A w, c, s : Sent(w, c, s, <<>>) = w
  BY DEF Sent

\* A message that arrives is taken from its wire.
LEMMA RestIs ==
    ASSUME DuelTypeOK, NEW r \in Rooms, HasMessage(r)
    PROVE  LET c == room[r].conn
               s == Seat(r)
           IN /\ c \in Channels /\ end[c][s] = "open"
              /\ wire[c][s] # <<>> /\ wire[c][s] \in Seq(Messages)
              /\ Message(r) = wire[c][s][1]
              /\ Message(r) \in Messages
              /\ Rest(r) \in Wirings
              /\ \A d \in Channels : d # c => Rest(r)[d] = wire[d]
              /\ Rest(r)[c][s] = Tail(wire[c][s])
              /\ Rest(r)[c][1 - s] = wire[c][1 - s]
<1> DEFINE c == room[r].conn
           s == Seat(r)
<1>1. c \in Channels /\ end[c][s] = "open" /\ wire[c][s] # <<>> /\ s \in Seats
  BY RoomIs, SeatIs DEF HasMessage, IsOpen
<1>2. wire[c][s] \in Seq(Messages)
  BY <1>1, WireIs
<1>3. Head(wire[c][s]) = wire[c][s][1] /\ wire[c][s][1] \in Messages /\ Tail(wire[c][s]) \in Seq(Messages)
  BY <1>1, <1>2
<1> DEFINE rest == Tail(wire[c][s])
           line == Put(wire[c], s, rest)
<1>4. Rest(r) = Put(wire, c, line)
  BY DEF Rest, Put
<1>5. wire \in Wirings /\ Message(r) = wire[c][s][1]
  BY <1>3 DEF DuelTypeOK, Message
<1> HIDE DEF c, s, rest
<1>6. line \in Lines /\ line[s] = rest /\ line[1 - s] = wire[c][1 - s]
  BY <1>1, <1>3, <1>5, LineIs, LinePut, ZenonT(60) DEF rest
<1> HIDE DEF line
<1>7. Rest(r) \in Wirings /\ Rest(r)[c] = line /\ \A d \in Channels : d # c => Rest(r)[d] = wire[d]
  BY <1>1, <1>4, <1>5, <1>6, WiringPut
<1> QED
  BY <1>1, <1>2, <1>3, <1>5, <1>6, <1>7 DEF c, s, rest

-----------------------------------------------------------------------------
(* Every way out of a room has the same effect.                            *)

\* The message of a room that closes.
Stop == [type |-> "stop"]

\* A room is left: by close(), which keeps its record, or by a browser that goes,
ShutRoom(r) ==
    /\ room[r].peer
    /\ room' \in [Rooms -> DuelRooms]
    /\ \A q \in Rooms : q # r => room'[q] = room[q]
    /\ room'[r].peer = FALSE /\ room'[r].conn = None /\ room'[r].busy = FALSE
    /\ room'[r].localReady = FALSE /\ room'[r].remoteReady = FALSE
    /\ room'[r].opens = room[r].opens
    /\ room'[r].generation = room[r].generation + 1
    /\ \/ room'[r].started = room[r].started /\ room'[r].record = room[r].record
       \/ room'[r].started = FALSE /\ room'[r].record = None

\* with its end of the channel,
ShutEnd(r, c, s) ==
    /\ end' \in [Channels -> [Seats -> EndStates]]
    /\ \A d \in Channels : d # c => end'[d] = end[d]
    /\ end'[c][1 - s] = end[c][1 - s]
    /\ end'[c][s] \in {"closed", "gone"}
    /\ room'[r].started => end'[c][s] = "closed"

\* the messages to it and perhaps some of its own.
ShutWire(c, s) ==
    /\ wire' \in Wirings
    /\ \A d \in Channels : d # c => wire'[d] = wire[d]
    /\ wire'[c][s] = <<>>
    /\ \/ \E k \in 0..Len(wire[c][1 - s]) : wire'[c][1 - s] = SubSeq(wire[c][1 - s], 1, k)
       \/ /\ end[c][s] = "open" /\ Listens(c, 1 - s)
          /\ wire'[c][1 - s] = wire[c][1 - s] \o <<Stop>>

\* All that the ways out of a room have in common.
Shut(r) ==
    /\ ShutRoom(r)
    /\ room[r].conn = None => UNCHANGED <<end, wire>>
    /\ room[r].conn # None =>
           ShutEnd(r, room[r].conn, Seat(r)) /\ ShutWire(room[r].conn, Seat(r))
    /\ calls' \subseteq calls /\ \A x \in calls : x.room # r => x \in calls'
    /\ UNCHANGED <<invitation, flow, asked, consents>>

\* What is lost of a wire may be no more than the stop,
LEMMA CutLess ==
    ASSUME NEW w \in Seq(Messages), NEW k \in 0..Len(w)
    PROVE  SubSeq(w \o <<Stop>>, 1, k) = SubSeq(w, 1, k)
<1>1. Stop \in Messages
  BY MessagesAre DEF Stop
<1> QED
  BY <1>1

\* or nothing.
LEMMA CutAll ==
    ASSUME NEW w \in Seq(Messages)
    PROVE  SubSeq(w \o <<Stop>>, 1, Len(w) + 1) = w \o <<Stop>> /\ Len(w \o <<Stop>>) = Len(w) + 1
<1>1. Stop \in Messages
  BY MessagesAre DEF Stop
<1> QED
  BY <1>1

\* An end that goes silent, and what it had sent is cut.
LEMMA WireShuts ==
    ASSUME DuelTypeOK, NEW c \in Channels, NEW s \in Seats,
           NEW f \in Lines, wire' = Put(wire, c, f)
    PROVE  /\ wire' \in Wirings
           /\ \A d \in Channels : d # c => wire'[d] = wire[d]
           /\ wire'[c] = f
<1>1. wire \in Wirings
  BY DEF DuelTypeOK
<1>2. Put(wire, c, f) \in Wirings /\ Put(wire, c, f)[c] = f
      /\ \A d \in Channels : d # c => Put(wire, c, f)[d] = wire[d]
  BY <1>1, WiringPut
<1> QED
  BY <1>2

\* What close() leaves on the way: all with stop after it, or the first part.
Left(c, s) == IF IsOpen(c, s) THEN Sent(wire, c, s, <<Stop>>)[c][1 - s] ELSE <<>>

\* What arrives after close() are messages that were under way, and perhaps a stop.
LEMMA LeftIs ==
    ASSUME DuelTypeOK, NEW c \in Channels, NEW s \in Seats, NEW k \in 0..Len(Left(c, s))
    PROVE  /\ SubSeq(Left(c, s), 1, k) \in Seq(Messages)
           /\ \/ \E i \in 0..Len(wire[c][1 - s]) : SubSeq(Left(c, s), 1, k) = SubSeq(wire[c][1 - s], 1, i)
              \/ /\ end[c][s] = "open" /\ Listens(c, 1 - s)
                 /\ SubSeq(Left(c, s), 1, k) = wire[c][1 - s] \o <<Stop>>
<1> DEFINE w == wire[c][1 - s]
           left == Left(c, s)
<1>1. w \in Seq(Messages)
  BY WireIs
<1>2. <<Stop>> \in Seq(Messages) /\ wire \in Wirings
  BY MessagesAre DEF Stop, DuelTypeOK
<1>3. w \o <<Stop>> \in Seq(Messages)
  BY <1>1, <1>2
<1>4. /\ Listens(c, 1 - s) => Sent(wire, c, s, <<Stop>>)[c][1 - s] = w \o <<Stop>>
      /\ ~Listens(c, 1 - s) => Sent(wire, c, s, <<Stop>>)[c][1 - s] = w
  BY <1>2, SentIs, ZenonT(60)
<1>5. \/ left = <<>>
      \/ left = w
      \/ end[c][s] = "open" /\ Listens(c, 1 - s) /\ left = w \o <<Stop>>
  BY <1>4 DEF IsOpen, Left
<1> HIDE DEF w, left
<1>0. k \in 0..Len(left)
  BY DEF left
<1>6. left \in Seq(Messages)
  <2>1. <<>> \in Seq(Messages)
    OBVIOUS
  <2> QED
    BY <1>1, <1>3, <1>5, <2>1
<1>7. SubSeq(left, 1, k) \in Seq(Messages)
  BY <1>0, <1>6
<1>8. CASE left = <<>>
  <2>1. SubSeq(left, 1, k) = <<>> /\ SubSeq(w, 1, 0) = <<>> /\ 0 \in 0..Len(w)
    BY <1>0, <1>1, <1>8
  <2> QED
    BY <1>7, <2>1 DEF w, left
<1>9. CASE left = w
  BY <1>0, <1>7, <1>9 DEF w, left
<1>10. CASE end[c][s] = "open" /\ Listens(c, 1 - s) /\ left = w \o <<Stop>>
  <2>1. k \in 0..Len(w) \/ k = Len(w) + 1
    <3>1. Len(w) \in Nat /\ k \in 0..(Len(w) + 1)
      BY <1>0, <1>1, <1>10, CutAll
    <3> QED
      BY <3>1
  <2>2. CASE k \in 0..Len(w)
    <3>1. SubSeq(left, 1, k) = SubSeq(w, 1, k)
      BY <1>1, <1>10, <2>2, CutLess
    <3> QED
      BY <1>7, <2>2, <3>1 DEF w, left
  <2>3. CASE k = Len(w) + 1
    <3>1. SubSeq(left, 1, k) = w \o <<Stop>>
      BY <1>1, <1>10, <2>3, CutAll
    <3> QED
      BY <1>7, <1>10, <3>1 DEF w, left
  <2> QED
    BY <2>1, <2>2, <2>3
<1> QED
  BY <1>5, <1>8, <1>9, <1>10

\* One end of a channel changes its state.
PutEnd(c, s, e) == [end EXCEPT ![c][s] = e]

\* It is the only one.
LEMMA EndShuts ==
    ASSUME DuelTypeOK, NEW c \in Channels, NEW s \in Seats, NEW e \in EndStates
    PROVE  /\ PutEnd(c, s, e) \in [Channels -> [Seats -> EndStates]]
           /\ \A d \in Channels : d # c => PutEnd(c, s, e)[d] = end[d]
           /\ PutEnd(c, s, e)[c][1 - s] = end[c][1 - s]
           /\ PutEnd(c, s, e)[c][s] = e
<1>1. 1 - s \in Seats /\ 1 - s # s
  OBVIOUS
<1> QED
  BY <1>1 DEF DuelTypeOK, PutEnd

\* Nothing on the way to one end, something to the other.
Line(s, ms) == [t \in Seats |-> IF t = s THEN <<>> ELSE ms]

\* Of a closed end, only the other direction carries anything.
LEMMA LineMade ==
    ASSUME NEW s \in Seats, NEW ms \in Seq(Messages)
    PROVE  Line(s, ms) \in Lines /\ Line(s, ms)[s] = <<>> /\ Line(s, ms)[1 - s] = ms
<1>1. 1 - s \in Seats /\ 1 - s # s
  OBVIOUS
<1> QED
  BY <1>1 DEF Line, Lines

\* close() leaves the record and counts up the generation.
LEMMA ClosedIs ==
    ASSUME NEW rm \in DuelRooms
    PROVE  /\ Closed(rm) \in DuelRooms
           /\ Closed(rm).peer = FALSE /\ Closed(rm).conn = None /\ Closed(rm).busy = FALSE
           /\ Closed(rm).localReady = FALSE /\ Closed(rm).remoteReady = FALSE
           /\ Closed(rm).opens = rm.opens /\ Closed(rm).generation = rm.generation + 1
           /\ Closed(rm).started = rm.started /\ Closed(rm).record = rm.record
<1> DEFINE keeps == rm.offer /\ rm.record # None
<1>1. keeps \in BOOLEAN
  OBVIOUS
<1>2. Closed(rm) = [rm EXCEPT !.peer = FALSE, !.conn = None, !.busy = FALSE,
                              !.localReady = FALSE, !.remoteReady = FALSE,
                              !.offer = keeps, !.generation = rm.generation + 1]
  BY DEF Closed
<1> HIDE DEF keeps
<1>3. rm.generation + 1 \in Nat
  BY DEF DuelRooms
<1>4. Closed(rm) \in DuelRooms
  BY <1>1, <1>2, <1>3 DEF DuelRooms
<1> QED
  BY <1>2, <1>4 DEF DuelRooms

\* One room changes.
LEMMA RoomPut ==
    ASSUME DuelTypeOK, NEW r \in Rooms, NEW rm \in DuelRooms, room' = Put(room, r, rm)
    PROVE  /\ room' \in [Rooms -> DuelRooms] /\ room'[r] = rm
           /\ \A q \in Rooms : q # r => room'[q] = room[q]
<1>1. room \in [Rooms -> DuelRooms]
  BY DEF DuelTypeOK
<1> QED
  BY <1>1 DEF Put

\* Both ways out leave the room as ShutRoom says,
LEMMA ShutRoomIs ==
    ASSUME DuelTypeOK, NEW r \in Rooms, room[r].peer,
           \/ room' = Put(room, r, Closed(room[r]))
           \/ room' = Put(room, r, ClosedRoom(room[r].opens, room[r].generation + 1))
    PROVE  ShutRoom(r)
<1>1. room[r] \in DuelRooms /\ room[r].opens \in Nat /\ room[r].generation \in Nat
  BY RoomIs
<1>2. CASE room' = Put(room, r, Closed(room[r]))
  <2>1. Closed(room[r]) \in DuelRooms
    BY <1>1, ClosedIs
  <2>2. room' \in [Rooms -> DuelRooms] /\ room'[r] = Closed(room[r])
        /\ \A q \in Rooms : q # r => room'[q] = room[q]
    BY <1>2, <2>1, RoomPut
  <2> QED
    BY <1>1, <2>2, ClosedIs, ZenonT(60) DEF ShutRoom
<1>3. CASE room' = Put(room, r, ClosedRoom(room[r].opens, room[r].generation + 1))
  <2> DEFINE now == ClosedRoom(room[r].opens, room[r].generation + 1)
  <2>1. /\ now \in DuelRooms
        /\ now.peer = FALSE /\ now.conn = None /\ now.busy = FALSE
        /\ now.localReady = FALSE /\ now.remoteReady = FALSE
        /\ now.opens = room[r].opens /\ now.generation = room[r].generation + 1
        /\ now.started = FALSE /\ now.record = None
    BY <1>1 DEF ClosedRoom, DuelRooms
  <2> HIDE DEF now
  <2>2. room' \in [Rooms -> DuelRooms] /\ room'[r] = now
        /\ \A q \in Rooms : q # r => room'[q] = room[q]
    BY <1>3, <2>1, RoomPut DEF now
  <2> QED
    BY <2>1, <2>2 DEF ShutRoom
<1> QED
  BY <1>2, <1>3

\* The end goes and what is on the way from it is cut.
LEMMA ConnShuts ==
    ASSUME DuelTypeOK, NEW r \in Rooms, NEW c \in Channels, NEW s \in Seats,
           NEW e \in {"closed", "gone"}, end' = PutEnd(c, s, e),
           room'[r].started => e = "closed",
           NEW ms \in Seq(Messages), wire' = Put(wire, c, Line(s, ms)),
           \/ \E i \in 0..Len(wire[c][1 - s]) : ms = SubSeq(wire[c][1 - s], 1, i)
           \/ /\ end[c][s] = "open" /\ Listens(c, 1 - s)
              /\ ms = wire[c][1 - s] \o <<Stop>>
    PROVE  ShutEnd(r, c, s) /\ ShutWire(c, s)
<1>1. ShutEnd(r, c, s)
  <2>1. e \in EndStates
    BY DEF EndStates
  <2> QED
    BY <2>1, EndShuts DEF ShutEnd
<1>2. ShutWire(c, s)
  <2>1. Line(s, ms) \in Lines /\ Line(s, ms)[s] = <<>> /\ Line(s, ms)[1 - s] = ms
    BY LineMade
  <2>2. wire' \in Wirings /\ wire'[c] = Line(s, ms)
        /\ \A d \in Channels : d # c => wire'[d] = wire[d]
    BY <2>1, WireShuts
  <2>3. wire'[c][s] = <<>> /\ wire'[c][1 - s] = ms
    BY <2>1, <2>2
  <2> QED
    BY <2>2, <2>3 DEF ShutWire
<1> QED
  BY <1>1, <1>2

\* close() does both.
LEMMA CloseShuts ==
    ASSUME DuelTypeOK, NEW r \in Rooms, room[r].peer, NEW k, Close(r, k)
    PROVE  /\ ShutRoom(r)
           /\ room[r].conn = None => UNCHANGED <<end, wire>>
           /\ room[r].conn # None =>
                  ShutEnd(r, room[r].conn, Seat(r)) /\ ShutWire(room[r].conn, Seat(r))
<1>1. ShutRoom(r)
  <2>1. room' = Put(room, r, Closed(room[r]))
    BY DEF Close, Put
  <2> QED
    BY <2>1, ShutRoomIs
<1>2. CASE room[r].conn = None
  BY <1>1, <1>2 DEF Close
<1>3. CASE room[r].conn # None
  <2>1. PICK c \in Channels : c = room[r].conn
    BY <1>3, RoomIs
  <2>2. PICK s \in Seats : s = Seat(r)
    BY SeatIs
  <2>3. /\ k \in 0..Len(Left(c, s))
        /\ end' = PutEnd(c, s, "closed")
        /\ wire' = Put(wire, c, Line(s, SubSeq(Left(c, s), 1, k)))
    BY <1>3, <2>1, <2>2 DEF Close, Stop, Left, PutEnd, Put, Line
  <2>4. /\ SubSeq(Left(c, s), 1, k) \in Seq(Messages)
        /\ \/ \E i \in 0..Len(wire[c][1 - s]) : SubSeq(Left(c, s), 1, k) = SubSeq(wire[c][1 - s], 1, i)
           \/ /\ end[c][s] = "open" /\ Listens(c, 1 - s)
              /\ SubSeq(Left(c, s), 1, k) = wire[c][1 - s] \o <<Stop>>
    BY <2>3, LeftIs
  <2>5. ShutEnd(r, c, s) /\ ShutWire(c, s)
    BY <2>3, <2>4, ConnShuts
  <2> QED
    BY <1>1, <1>3, <2>1, <2>2, <2>5
<1> QED
  BY <1>2, <1>3

\* So does an owner that leaves,
LEMMA LeaveShuts ==
    ASSUME DuelTypeOK, NEW r \in Rooms, Leave(r)
    PROVE  Shut(r)
  BY CloseShuts DEF Leave, Shut

\* an agent that gives no legal answer in time,
LEMMA FaultShuts ==
    ASSUME DuelTypeOK, NEW x \in calls, room[x.room].peer, Fault(x)
    PROVE  Shut(x.room)
<1>1. x.room \in Rooms
  BY DEF DuelTypeOK, Calls
<1>2. PICK k \in Kept(x.room) : Close(x.room, k)
  BY DEF Fault
<1>3. calls' = calls \ {x} /\ UNCHANGED <<invitation, flow, asked, consents>>
  BY DEF Fault
<1> QED
  BY <1>1, <1>2, <1>3, CloseShuts DEF Shut

\* and a browser that vanishes.
LEMMA VanishShuts ==
    ASSUME DuelTypeOK, NEW r \in Rooms, Vanish(r)
    PROVE  Shut(r)
<1>0. room' = Put(room, r, ClosedRoom(room[r].opens, room[r].generation + 1)) /\ room[r].peer
  BY DEF Vanish, Put
<1>1. ShutRoom(r)
  BY <1>0, ShutRoomIs
<1>2. calls' \subseteq calls /\ \A x \in calls : x.room # r => x \in calls'
  BY DEF Vanish
<1>3. UNCHANGED <<invitation, flow, asked, consents>>
  BY DEF Vanish
<1>4. CASE room[r].conn = None
  BY <1>1, <1>2, <1>3, <1>4 DEF Vanish, Shut
<1>5. CASE room[r].conn # None
  <2>1. PICK c \in Channels : c = room[r].conn
    BY <1>5, RoomIs
  <2>2. PICK s \in Seats : s = Seat(r)
    BY SeatIs
  <2>3. /\ end' = PutEnd(c, s, "gone")
        /\ \E k \in 0..Len(wire[c][1 - s]) :
               wire' = [wire EXCEPT ![c] = [t \in Seats |->
                                  IF t = s THEN <<>> ELSE SubSeq(wire[c][t], 1, k)]]
    BY <1>5, <2>1, <2>2 DEF Vanish, PutEnd
  <2>4. PICK k \in 0..Len(wire[c][1 - s]) :
               wire' = [wire EXCEPT ![c] = [t \in Seats |->
                                  IF t = s THEN <<>> ELSE SubSeq(wire[c][t], 1, k)]]
    BY <2>3
  <2>5. [t \in Seats |-> IF t = s THEN <<>> ELSE SubSeq(wire[c][t], 1, k)]
          = Line(s, SubSeq(wire[c][1 - s], 1, k))
    BY DEF Line
  <2>6. wire' = Put(wire, c, Line(s, SubSeq(wire[c][1 - s], 1, k)))
    BY <2>4, <2>5 DEF Put
  <2>7. SubSeq(wire[c][1 - s], 1, k) \in Seq(Messages)
    <3>1. wire[c][1 - s] \in Seq(Messages)
      BY WireIs
    <3> QED
      BY <3>1
  <2>8. room'[r].started = FALSE
    <3> DEFINE now == ClosedRoom(room[r].opens, room[r].generation + 1)
    <3>1. now.started = FALSE
      BY DEF ClosedRoom
    <3> HIDE DEF now
    <3>2. room'[r] = now
      BY <1>0 DEF now, Put, DuelTypeOK
    <3> QED
      BY <3>1, <3>2
  <2>9. ShutEnd(r, c, s) /\ ShutWire(c, s)
    <3> DEFINE ms == SubSeq(wire[c][1 - s], 1, k)
    <3>1. \E i \in 0..Len(wire[c][1 - s]) : ms = SubSeq(wire[c][1 - s], 1, i)
      OBVIOUS
    <3> HIDE DEF ms
    <3> QED
      BY <2>3, <2>6, <2>7, <2>8, <3>1, ConnShuts DEF ms
  <2> QED
    BY <1>1, <1>2, <1>3, <1>5, <2>1, <2>2, <2>9 DEF Shut
<1> QED
  BY <1>4, <1>5

\* A room that is left stays typed.
LEMMA ShutTyped ==
    ASSUME DuelTypeOK, NEW r \in Rooms, Shut(r)
    PROVE  DuelTypeOK'
<1>1. room' \in [Rooms -> DuelRooms]
  BY DEF Shut, ShutRoom
<1>2. end' \in [Channels -> [Seats -> EndStates]] /\ wire' \in Wirings
  BY DEF Shut, ShutEnd, ShutWire, DuelTypeOK
<1> QED
  BY <1>1, <1>2 DEF Shut, DuelTypeOK

-----------------------------------------------------------------------------
(* Channels that an action leaves aside.                                   *)

\* For a channel aside, the host is as before, or without it;
AsideHost(c) ==
    \/ Face(room'[Host], room[Host])
    \/ /\ ~Listens(c, 0)
       /\ Holds(Host, c)' => Holds(Host, c) /\ Events(Host)' = Events(Host)

\* so is the guest;
AsideGuest(c) ==
    \/ Face(room'[c[1]], room[c[1]])
    \/ /\ ~Listens(c, 1)
       /\ Holds(c[1], c)' => Holds(c[1], c) /\ Events(c[1])' = Events(c[1])

\* and the channel itself is as before.
Aside(c) ==
    /\ end'[c] = end[c] /\ wire'[c] = wire[c]
    /\ invitation'[c] = invitation[c] /\ consents \subseteq consents'
    /\ AsideHost(c) /\ AsideGuest(c)

\* The invariant of one channel.
ChannelInv(c) == GuestWire(c) /\ HostWire(c) /\ Knows(c) /\ History(c)

\* What may come to a room depends on its fields other than busy.
LEMMA FaceToGuest ==
    ASSUME NEW a, NEW b, Face(a, b), NEW w, ToGuest(b, w)
    PROVE  ToGuest(a, w)
  BY DEF Face, ToGuest, FirstAtGuest

\* The same for the host.
LEMMA FaceToHost ==
    ASSUME NEW a, NEW b, Face(a, b), NEW w, ToHost(b, w)
    PROVE  ToHost(a, w)
  BY DEF Face, ToHost, FirstAtHost

\* A step aside keeps the invariant of a channel.
LEMMA AsideKeeps ==
    ASSUME DuelTypeOK, NEW c \in Channels, Aside(c), ChannelInv(c)
    PROVE  ChannelInv(c)'
<1> DEFINE w == wire[c][1]
           v == wire[c][0]
           g == c[1]
<1>1. /\ end'[c] = end[c] /\ wire'[c] = wire[c]
      /\ invitation'[c] = invitation[c] /\ consents \subseteq consents'
  BY DEF Aside
<1>2. /\ Listens(c, 0)' = Listens(c, 0) /\ Listens(c, 1)' = Listens(c, 1)
      /\ Agreed(c) => Agreed(c)'
  BY <1>1 DEF Listens, Agreed
<1>3. w \in Seq(Messages) /\ v \in Seq(Messages)
  BY WireIs
<1>4. /\ w # <<>> => Listens(c, 1)
      /\ v # <<>> => Listens(c, 0)
      /\ w = <<>> => On(w) = {}
      /\ v = <<>> => On(v) = {}
  BY NothingOn DEF ChannelInv, GuestWire, HostWire
<1>5. /\ Listens(c, 1) => Face(room'[g], room[g])
      /\ Listens(c, 0) => Face(room'[Host], room[Host])
      /\ Holds(g, c)' => Holds(g, c) /\ Events(g)' = Events(g)
      /\ Holds(Host, c)' => Holds(Host, c) /\ Events(Host)' = Events(Host)
  BY DEF Aside, AsideHost, AsideGuest, Face, Holds, Events
<1> HIDE DEF w, v, g
<1>6. GuestWire(c)'
  <2>1. ToGuest(room'[g], w)
    BY <1>4, <1>5, FaceToGuest, GuestNothing DEF ChannelInv, GuestWire, w, g
  <2>2. \A m \in On(w) : /\ m.type = "start" =>
                               /\ room'[g].localReady
                               /\ m.record = [id |-> c, events |-> <<>>]
                               /\ Agreed(c)'
                         /\ Carries(m) => m.record.id = c
                         /\ Listens(c, 0)' => m.type # "stop"
    BY <1>2, <1>4, <1>5 DEF ChannelInv, GuestWire, w, g, Face
  <2>3. w # <<>> => Listens(c, 1)' /\ end'[c][0] \notin {"none", "opening"}
    BY <1>1, <1>2 DEF ChannelInv, GuestWire, w
  <2> QED
    BY <1>1, <2>1, <2>2, <2>3 DEF GuestWire, w, g
<1>7. HostWire(c)'
  <2>1. ToHost(room'[Host], v)
    BY <1>4, <1>5, FaceToHost, HostNothing DEF ChannelInv, HostWire, v
  <2>2. \A m \in On(v) : /\ m.type = "ready" => c \in consents'
                         /\ Carries(m) => m.record.id = c
                         /\ Listens(c, 1)' => m.type # "stop"
    BY <1>1, <1>2 DEF ChannelInv, HostWire, v
  <2>3. v # <<>> => Listens(c, 0)' /\ end'[c][1] \notin {"none", "opening"}
    BY <1>1, <1>2 DEF ChannelInv, HostWire, v
  <2> QED
    BY <1>1, <2>1, <2>2, <2>3 DEF HostWire, v
<1>8. Knows(c)'
  <2>1. /\ end'[c][0] = "open" /\ Listens(c, 1)' /\ w = <<>> => room'[g].offer
        /\ Listens(c, 0)' /\ ~room'[Host].started =>
              ~Holds(g, c)' /\ \A m \in On(w) : ~Carries(m)
        /\ Listens(c, 1)' /\ (\E m \in On(v) : m.type = "ready") => room'[g].localReady
        /\ Listens(c, 0)' /\ Listens(c, 1)' /\ room'[Host].remoteReady => room'[g].localReady
        /\ Listens(c, 1)' /\ ~room'[g].started => \A m \in On(v) : ~Carries(m)
    BY <1>1, <1>2, <1>5 DEF ChannelInv, Knows, w, v, g, Face
  <2> QED
    BY <1>1, <2>1 DEF Knows, w, v, g
<1>9. History(c)'
  <2>1. /\ Holds(Host, c)' /\ Holds(g, c)' =>
              Within(Events(g)', Events(Host)', 0) \/ Within(Events(Host)', Events(g)', 1)
        /\ Holds(Host, c)' => \A m \in On(w) :
              Carries(m) => Within(m.record.events, Events(Host)', 0)
        /\ Holds(g, c)' => \A m \in On(v) :
              Carries(m) => Within(m.record.events, Events(g)', 1)
    BY <1>5 DEF ChannelInv, History, w, v, g
  <2>2. /\ Listens(c, 0)' /\ Listens(c, 1)' /\ room'[Host].started =>
              IF w = <<>> THEN room'[g].started /\ Len(Events(g)') >= Len(Events(Host)')
              ELSE Carries(Last(w)) /\ Last(w).record.events = Events(Host)'
        /\ Listens(c, 0)' /\ Listens(c, 1)' /\ room'[g].started =>
              IF v = <<>> THEN room'[Host].started /\ Len(Events(Host)') >= Len(Events(g)')
              ELSE Carries(Last(v)) /\ Last(v).record.events = Events(g)'
    BY <1>2, <1>5 DEF ChannelInv, History, w, v, g, Face, Events
  <2> QED
    BY <1>1, <2>1, <2>2 DEF History, w, v, g
<1> QED
  BY <1>6, <1>7, <1>8, <1>9 DEF ChannelInv

-----------------------------------------------------------------------------
(* A room that closes.                                                     *)

\* Leaving a room is aside for the channels that are not its own.
LEMMA ShutAside ==
    ASSUME DuelTypeOK, Ends, NEW r \in Rooms, Shut(r), NEW d \in Channels, d # room[r].conn
    PROVE  Aside(d)
<1>1. end'[d] = end[d] /\ wire'[d] = wire[d] /\ invitation' = invitation /\ consents' = consents
  BY DEF Shut, ShutEnd, ShutWire
<1>2. \A q \in Rooms : q # r => room'[q] = room[q]
  BY DEF Shut, ShutRoom
<1>3. d[1] \in Guests /\ d[1] \in Rooms /\ Host \in Rooms
  BY ChannelShape, SeatIs
<1>4. Listens(d, 0) => room[Host].conn = d
  BY <1>3, ChannelShape DEF Ends
<1>5. Listens(d, 1) => room[d[1]].conn = d
  BY <1>3, ChannelShape DEF Ends
<1>6. Holds(r, d)' => Holds(r, d) /\ Events(r)' = Events(r)
  BY DEF Shut, ShutRoom, Holds, Events
<1>7. AsideHost(d)
  <2>1. CASE r = Host
    BY <1>4, <1>6, <2>1 DEF AsideHost
  <2>2. CASE r # Host
    BY <1>2, <1>3, <2>2 DEF AsideHost, Face
  <2> QED
    BY <2>1, <2>2
<1>8. AsideGuest(d)
  <2>1. CASE r = d[1]
    BY <1>5, <1>6, <2>1 DEF AsideGuest
  <2>2. CASE r # d[1]
    BY <1>2, <1>3, <2>2 DEF AsideGuest, Face
  <2> QED
    BY <2>1, <2>2
<1> QED
  BY <1>1, <1>7, <1>8 DEF Aside

\* Leaving a room keeps who holds which end.
LEMMA ShutEnds ==
    ASSUME DuelTypeOK, Ends, NEW r \in Rooms, Shut(r)
    PROVE  Ends'
<1>1. /\ \A q \in Rooms : q # r => room'[q] = room[q]
      /\ room'[r].peer = FALSE /\ room'[r].conn = None /\ room'[r].opens = room[r].opens
      /\ invitation' = invitation
  BY DEF Shut, ShutRoom
<1>2. \A q \in Rooms : room'[q].opens = room[q].opens
  BY <1>1
<1>3. \A d \in Channels, s \in Seats :
          /\ Listens(d, s)' => Listens(d, s)
          /\ Listens(d, s) => Listens(d, s)' \/ (d = room[r].conn /\ s = Seat(r))
          /\ end'[d][s] = "none" <=> end[d][s] = "none"
          /\ d = room[r].conn /\ s = Seat(r) => ~Listens(d, s)'
  <2> TAKE d \in Channels, s \in Seats
  <2>0. d # None /\ Seat(r) \in Seats
    BY Apart, SeatIs
  <2>1. CASE d # room[r].conn
    <3>1. end'[d] = end[d]
      BY <2>1 DEF Shut, ShutEnd
    <3> QED
      BY <2>1, <3>1 DEF Listens
  <2>2. CASE d = room[r].conn
    <3>1. /\ end'[d][1 - Seat(r)] = end[d][1 - Seat(r)]
          /\ end'[d][Seat(r)] \in {"closed", "gone"}
          /\ Listens(d, Seat(r))
      BY <2>0, <2>2 DEF Shut, ShutEnd, Ends
    <3>2. s = Seat(r) \/ s = 1 - Seat(r)
      BY <2>0
    <3> QED
      BY <2>2, <3>1, <3>2 DEF Listens
  <2> QED
    BY <2>1, <2>2
<1>4. \A q \in Rooms : room'[q].conn # None =>
           /\ room'[q].peer
           /\ At(room'[q].conn, Seat(q)) = q
           /\ end'[room'[q].conn][Seat(q)] \in {"opening", "open"}
  <2> SUFFICES ASSUME NEW q \in Rooms, room'[q].conn # None
               PROVE  /\ room'[q].peer
                      /\ At(room'[q].conn, Seat(q)) = q
                      /\ end'[room'[q].conn][Seat(q)] \in {"opening", "open"}
    OBVIOUS
  <2>1. q # r /\ room'[q] = room[q]
    BY <1>1
  <2>2. PICK d \in Channels : d = room[q].conn
    BY <2>1, RoomIs
  <2>3. room[q].peer /\ At(d, Seat(q)) = q /\ Listens(d, Seat(q))
    BY <2>1, <2>2 DEF Ends
  <2>4. ~(d = room[r].conn /\ Seat(q) = Seat(r))
    <3>1. room[r].conn # None => At(room[r].conn, Seat(r)) = r
      BY DEF Ends
    <3> QED
      BY <2>1, <2>2, <2>3, <3>1
  <2>5. Listens(d, Seat(q))'
    BY <1>3, <2>3, <2>4, SeatIs
  <2> QED
    BY <2>1, <2>2, <2>3, <2>5 DEF Listens
<1>5. \A d \in Channels, s \in Seats : Listens(d, s)' => room'[At(d, s)].conn = d
  <2> SUFFICES ASSUME NEW d \in Channels, NEW s \in Seats, Listens(d, s)'
               PROVE  room'[At(d, s)].conn = d
    OBVIOUS
  <2>1. Listens(d, s) /\ room[At(d, s)].conn = d
    BY <1>3 DEF Ends
  <2>2. At(d, s) \in Rooms /\ Seat(At(d, s)) = s
    BY ChannelShape, SeatIs DEF At
  <2>3. At(d, s) # r
    BY <1>3, <2>1, <2>2
  <2> QED
    BY <1>1, <2>1, <2>2, <2>3
<1>6. \A g \in Guests : room'[g].peer =>
           room'[g].conn # None /\ room'[g].conn = <<g, room'[g].opens>>
  BY <1>1, SeatIs DEF Ends
<1>7. \A d \in Channels : /\ d[2] > room'[d[1]].opens => end'[d][1] = "none"
                          /\ end'[d][1] = "none" => end'[d][0] = "none"
                          /\ Listens(d, 0)' => invitation'[d] = room'[Host].opens
  BY <1>1, <1>2, <1>3, ChannelShape, SeatIs DEF Ends
<1> QED
  BY <1>4, <1>5, <1>6, <1>7 DEF Ends, Listens

\* Leaving a room closes its own end and no other.
LEMMA ShutEndIs ==
    ASSUME DuelTypeOK, NEW r \in Rooms, Shut(r), NEW d \in Channels, NEW s \in Seats
    PROVE  /\ d = room[r].conn /\ s = Seat(r) =>
                  /\ end'[d][s] \in {"closed", "gone"}
                  /\ room'[r].started => end'[d][s] = "closed"
           /\ ~(d = room[r].conn /\ s = Seat(r)) => end'[d][s] = end[d][s]
<1>0. d # None /\ Seat(r) \in Seats
  BY Apart, SeatIs
<1>1. CASE d # room[r].conn
  <2>1. end'[d] = end[d]
    BY <1>1 DEF Shut, ShutEnd
  <2> QED
    BY <1>1, <2>1
<1>2. CASE d = room[r].conn
  <2>1. /\ end'[d][1 - Seat(r)] = end[d][1 - Seat(r)]
        /\ end'[d][Seat(r)] \in {"closed", "gone"}
        /\ room'[r].started => end'[d][Seat(r)] = "closed"
    BY <1>0, <1>2 DEF Shut, ShutEnd
  <2>2. s = Seat(r) \/ s = 1 - Seat(r)
    BY <1>0
  <2> QED
    BY <1>2, <2>1, <2>2
<1> QED
  BY <1>1, <1>2

\* Leaving a room keeps what the fields of the rooms say of each other.
LEMMA ShutFlags ==
    ASSUME DuelTypeOK, Ends, Flags, NEW r \in Rooms, Shut(r)
    PROVE  Flags'
<1>1. /\ \A q \in Rooms : q # r => room'[q] = room[q]
      /\ room'[r].peer = FALSE /\ room'[r].conn = None /\ room'[r].opens = room[r].opens
      /\ room'[r].localReady = FALSE /\ room'[r].remoteReady = FALSE
      /\ room'[r].busy = FALSE
      /\ \/ room'[r].started = room[r].started /\ room'[r].record = room[r].record
         \/ room'[r].started = FALSE /\ room'[r].record = None
      /\ invitation' = invitation /\ consents' = consents
  BY DEF Shut, ShutRoom
<1>2. \A d : Agreed(d)' <=> Agreed(d)
  BY <1>1 DEF Agreed
<1>3. \A q \in Rooms : Playable(q)'
  <2> SUFFICES ASSUME NEW q \in Rooms PROVE Playable(q)'
    OBVIOUS
  <2>1. Playable(q) /\ Playable(r)
    BY DEF Flags
  <2>2. CASE q # r
    <3>1. room'[q] = room[q]
      BY <1>1, <2>2
    <3>2. room[q].started =>
             end'[room[q].record.id][Seat(q)] = end[room[q].record.id][Seat(q)]
      <4> SUFFICES ASSUME room[q].started
                   PROVE  end'[room[q].record.id][Seat(q)] = end[room[q].record.id][Seat(q)]
        OBVIOUS
      <4>1. room[q].record.id \in Channels /\ At(room[q].record.id, Seat(q)) = q
        BY <2>1, RoomIs, RecordIs DEF Playable
      <4>2. ~(room[q].record.id = room[r].conn /\ Seat(q) = Seat(r))
        BY <2>2, <4>1, Apart DEF Ends
      <4> QED
        BY <4>1, <4>2, SeatIs, ShutEndIs
    <3> QED
      BY <1>1, <1>2, <2>1, <3>1, <3>2 DEF Playable
  <2>3. CASE q = r
    <3>1. CASE room'[r].started = TRUE
      <4>1. room'[r].record = room[r].record /\ room[r].started
        BY <1>1, <2>1, <3>1 DEF Playable
      <4>2. room[r].record.id \in Channels /\ Seat(r) \in Seats
        BY <2>1, <4>1, RoomIs, RecordIs, SeatIs DEF Playable
      <4>3. end'[room[r].record.id][Seat(r)] \in {"open", "closed"}
        BY <2>1, <3>1, <4>1, <4>2, ShutEndIs DEF Playable
      <4> QED
        BY <1>1, <1>2, <2>1, <2>3, <3>1, <4>1, <4>3 DEF Playable
    <3>2. CASE room'[r].started = FALSE
      <4>1. room'[r].record = None
        BY <1>1, <2>1, <3>2 DEF Playable
      <4> QED
        BY <1>1, <2>3, <3>2, <4>1 DEF Playable
    <3>3. room'[r].started \in BOOLEAN
      BY DEF Shut, ShutRoom, DuelRooms
    <3> QED
      BY <3>1, <3>2, <3>3
  <2> QED
    BY <2>2, <2>3
<1>4. HostReadiness'
  <2>1. CASE r = Host
    BY <1>1, <2>1 DEF HostReadiness
  <2>2. CASE r # Host
    <3>1. room'[Host] = room[Host]
      BY <1>1, <2>2, SeatIs
    <3>2. room[Host].conn # None => end'[room[Host].conn][0] = end[room[Host].conn][0]
      BY <2>2, RoomIs, SeatIs, ShutEndIs
    <3> QED
      BY <1>1, <3>1, <3>2 DEF Flags, HostReadiness
  <2> QED
    BY <2>1, <2>2
<1>5. \A g \in Guests : GuestReadiness(g)'
  <2> SUFFICES ASSUME NEW g \in Guests PROVE GuestReadiness(g)'
    OBVIOUS
  <2>0. GuestReadiness(g) /\ g \in Rooms
    BY SeatIs DEF Flags
  <2>1. CASE r = g
    BY <1>1, <2>1 DEF GuestReadiness
  <2>2. CASE r # g
    <3>1. room'[g] = room[g]
      BY <1>1, <2>0, <2>2
    <3>2. room[g].peer => /\ room[g].conn \in Channels
                          /\ ~(room[g].conn = room[r].conn /\ Seat(g) = Seat(r))
      <4> SUFFICES ASSUME room[g].peer
                   PROVE  /\ room[g].conn \in Channels
                          /\ ~(room[g].conn = room[r].conn /\ Seat(g) = Seat(r))
        OBVIOUS
      <4>2. room[g].conn \in Channels
        BY <2>0, RoomIs DEF Ends
      <4>3. At(room[g].conn, Seat(g)) = g
        BY <2>0, <4>2, Apart DEF Ends
      <4> QED
        BY <2>0, <2>2, <4>2, <4>3, Apart DEF Ends
    <3>3. room[g].peer => /\ end'[room[g].conn][1] = end[room[g].conn][1]
                          /\ \/ end'[room[g].conn][0] = end[room[g].conn][0]
                             \/ end'[room[g].conn][0] \in {"closed", "gone"}
      BY <2>0, <3>2, SeatIs, ShutEndIs
    <3> QED
      BY <2>0, <3>1, <3>3 DEF GuestReadiness
  <2> QED
    BY <2>1, <2>2
<1> QED
  BY <1>3, <1>4, <1>5 DEF Flags

\* The host closes.
LEMMA HostShuts ==
    ASSUME DuelTypeOK, Ends, Flags, Shut(Host), NEW c \in Channels, c = room[Host].conn,
           ChannelInv(c)
    PROVE  ChannelInv(c)'
<1> DEFINE w == wire[c][1]
           g == c[1]
           now == wire'[c][1]
<1>0. /\ g \in Guests /\ g \in Rooms /\ g # Host /\ Host \in Rooms /\ Seat(Host) = 0
      /\ 1 - Seat(Host) = 1
      /\ c # None
  BY ChannelShape, SeatIs
<1>1. /\ room'[g] = room[g] /\ invitation' = invitation /\ consents' = consents
      /\ \/ room'[Host].started = room[Host].started /\ room'[Host].record = room[Host].record
         \/ room'[Host].started = FALSE /\ room'[Host].record = None
      /\ room'[Host].remoteReady = FALSE
  BY <1>0 DEF Shut, ShutRoom
<1>2. end'[c][1] = end[c][1] /\ end'[c][0] \in {"closed", "gone"}
  BY <1>0, ShutEndIs
<1>3. /\ Listens(c, 1)' = Listens(c, 1) /\ ~Listens(c, 0)' /\ Listens(c, 0)
      /\ Agreed(c)' = Agreed(c)
  BY <1>0, <1>1, <1>2 DEF Listens, Agreed, Ends
<1>4. w \in Seq(Messages) /\ Stop \in Messages /\ w # <<>> => Listens(c, 1)
  BY WireIs, MessagesAre DEF Stop, ChannelInv, GuestWire
<1>5. /\ wire'[c][0] = <<>>
      /\ \/ \E k \in 0..Len(w) : now = SubSeq(w, 1, k)
         \/ end[c][0] = "open" /\ Listens(c, 1) /\ now = w \o <<Stop>>
  BY <1>0 DEF Shut, ShutWire
<1>6. w \in Seq(Messages) /\ ToGuest(room[g], w)
  BY <1>4, WireIs DEF ChannelInv, GuestWire
<1>7. /\ ToGuest(room[g], now)
      /\ On(now) \subseteq On(w) \cup {Stop}
      /\ now # <<>> => Listens(c, 1)
  <2>1. CASE \E k \in 0..Len(w) : now = SubSeq(w, 1, k)
    <3>1. PICK k \in 0..Len(w) : now = SubSeq(w, 1, k)
      BY <2>1
    <3>2. w # <<>> => Listens(c, 1)
      BY DEF ChannelInv, GuestWire
    <3> HIDE DEF w, now
    <3> QED
      BY <1>6, <3>1, <3>2, GuestCut, OnCut
  <2>2. CASE end[c][0] = "open" /\ Listens(c, 1) /\ now = w \o <<Stop>>
    <3>1. w = <<>> => FirstAtGuest(room[g], Stop)
      BY <2>2 DEF ChannelInv, Knows, FirstAtGuest, Stop
    <3>2. w # <<>> => NextAtGuest(Last(w), Stop)
      <4>1. w # <<>> => Last(w).type # "stop"
        BY <1>3, <1>6, OnTyped DEF ChannelInv, GuestWire
      <4> QED
        BY <4>1 DEF NextAtGuest, Stop
    <3>3. Stop \in Messages
      BY MessagesAre DEF Stop
    <3> HIDE DEF w, now
    <3> QED
      BY <1>6, <2>2, <3>1, <3>2, <3>3, GuestAppend, OnAppend
  <2> QED
    BY <1>5, <2>1, <2>2
<1>8. /\ Stop.type = "stop" /\ ~Carries(Stop) /\ Stop.type # "start"
      /\ On(wire'[c][0]) = {}
      /\ \A m \in On(now) : Carries(m) => m \in On(w)
  <2>1. Stop.type = "stop" /\ ~Carries(Stop) /\ Stop.type # "start"
    BY DEF Stop, Carries
  <2>2. wire'[c][0] = <<>> /\ On(now) \subseteq On(w) \cup {Stop}
    BY <1>5, <1>7
  <2> HIDE DEF now, w
  <2> QED
    BY <2>1, <2>2, NothingOn
<1>9. GuestWire(c)'
  <2>1. \A m \in On(now) : m.type = "start" => Carries(m)
    BY DEF Carries
  <2>2. \A m \in On(now) :
              /\ m.type = "start" =>
                     /\ room'[g].localReady
                     /\ m.record = [id |-> c, events |-> <<>>]
                     /\ Agreed(c)'
              /\ Carries(m) => m.record.id = c
    BY <1>1, <1>3, <1>8, <2>1 DEF ChannelInv, GuestWire
  <2> HIDE DEF now
  <2> QED
    BY <1>1, <1>2, <1>3, <1>7, <2>2 DEF GuestWire, now
<1>10. HostWire(c)'
  BY <1>5, <1>8, HostNothing DEF HostWire
<1>11. Knows(c)'
  <2>1. Listens(c, 1)' /\ ~room'[g].started => \A m \in On(wire'[c][0]) : ~Carries(m)
    BY <1>8
  <2> QED
    BY <1>2, <1>3, <1>8, <2>1 DEF Knows
<1>12. History(c)'
  <2>1. Holds(Host, c)' => Holds(Host, c) /\ Events(Host)' = Events(Host)
    BY <1>1 DEF Holds, Events
  <2>2. Holds(g, c)' = Holds(g, c) /\ Events(g)' = Events(g)
    BY <1>1 DEF Holds, Events
  <2>3. Holds(Host, c)' => \A m \in On(now) :
              Carries(m) => Within(m.record.events, Events(Host)', 0)
    BY <1>8, <2>1 DEF ChannelInv, History
  <2>4. Holds(Host, c)' /\ Holds(g, c)' =>
              Within(Events(g)', Events(Host)', 0) \/ Within(Events(Host)', Events(g)', 1)
    BY <2>1, <2>2 DEF ChannelInv, History
  <2> HIDE DEF now
  <2> QED
    BY <1>3, <1>8, <2>3, <2>4 DEF History, now
<1> QED
  BY <1>9, <1>10, <1>11, <1>12 DEF ChannelInv

\* A guest closes.
LEMMA GuestShuts ==
    ASSUME DuelTypeOK, Ends, Flags, NEW g \in Guests, Shut(g),
           NEW c \in Channels, c = room[g].conn, ChannelInv(c)
    PROVE  ChannelInv(c)'
<1> DEFINE v == wire[c][0]
           now == wire'[c][0]
<1>0. /\ g \in Rooms /\ g # Host /\ Host \in Rooms /\ Seat(g) = 1
      /\ 1 - Seat(g) = 0
      /\ c # None /\ c[1] = g
  <2>1. At(c, 1) = g
    BY Apart, SeatIs DEF Ends
  <2> QED
    BY <2>1, ChannelShape, SeatIs
<1>1. /\ room'[Host] = room[Host] /\ invitation' = invitation /\ consents' = consents
      /\ \/ room'[g].started = room[g].started /\ room'[g].record = room[g].record
         \/ room'[g].started = FALSE /\ room'[g].record = None
  BY <1>0 DEF Shut, ShutRoom
<1>2. end'[c][0] = end[c][0] /\ end'[c][1] \in {"closed", "gone"}
  BY <1>0, ShutEndIs
<1>3. /\ Listens(c, 0)' = Listens(c, 0) /\ ~Listens(c, 1)' /\ Listens(c, 1)
  BY <1>0, <1>1, <1>2 DEF Listens, Ends
<1>5. /\ wire'[c][1] = <<>>
      /\ \/ \E k \in 0..Len(v) : now = SubSeq(v, 1, k)
         \/ end[c][1] = "open" /\ Listens(c, 0) /\ now = v \o <<Stop>>
  BY <1>0 DEF Shut, ShutWire
<1>6. v \in Seq(Messages) /\ ToHost(room[Host], v)
  BY WireIs DEF ChannelInv, HostWire
<1>7. /\ ToHost(room[Host], now)
      /\ On(now) \subseteq On(v) \cup {Stop}
      /\ now # <<>> => Listens(c, 0)
  <2>1. CASE \E k \in 0..Len(v) : now = SubSeq(v, 1, k)
    <3>1. PICK k \in 0..Len(v) : now = SubSeq(v, 1, k)
      BY <2>1
    <3>2. v # <<>> => Listens(c, 0)
      BY DEF ChannelInv, HostWire
    <3> HIDE DEF v, now
    <3> QED
      BY <1>6, <3>1, <3>2, HostCut, OnCut
  <2>2. CASE end[c][1] = "open" /\ Listens(c, 0) /\ now = v \o <<Stop>>
    <3>1. FirstAtHost(room[Host], Stop)
      BY DEF FirstAtHost, Stop
    <3>2. v # <<>> => NextAtHost(Last(v), Stop)
      <4>1. v # <<>> => Last(v).type # "stop"
        BY <1>3, <1>6, OnTyped DEF ChannelInv, HostWire
      <4> QED
        BY <4>1 DEF NextAtHost, Stop
    <3>3. Stop \in Messages
      BY MessagesAre DEF Stop
    <3> HIDE DEF v, now
    <3> QED
      BY <1>6, <2>2, <3>1, <3>2, <3>3, HostAppend, OnAppend
  <2> QED
    BY <1>5, <2>1, <2>2
<1>8. /\ ~Carries(Stop) /\ Stop.type # "ready"
      /\ On(wire'[c][1]) = {}
      /\ \A m \in On(now) : Carries(m) \/ m.type = "ready" => m \in On(v)
  <2>1. Stop.type = "stop" /\ ~Carries(Stop) /\ Stop.type # "ready"
    BY DEF Stop, Carries
  <2>2. wire'[c][1] = <<>> /\ On(now) \subseteq On(v) \cup {Stop}
    BY <1>5, <1>7
  <2> HIDE DEF now, v
  <2> QED
    BY <2>1, <2>2, NothingOn
<1>9. HostWire(c)'
  <2>2. \A m \in On(now) :
              /\ m.type = "ready" => c \in consents'
              /\ Carries(m) => m.record.id = c
    BY <1>1, <1>8 DEF ChannelInv, HostWire
  <2> HIDE DEF now
  <2> QED
    BY <1>1, <1>2, <1>3, <1>7, <2>2 DEF HostWire, now
<1>10. GuestWire(c)'
  BY <1>5, <1>8, GuestNothing DEF GuestWire
<1>11. Knows(c)'
  <2>1. Holds(g, c)' => Holds(g, c)
    BY <1>1 DEF Holds
  <2>2. Listens(c, 0)' /\ ~room'[Host].started => ~Holds(g, c)'
    BY <1>0, <1>1, <1>3, <2>1 DEF ChannelInv, Knows
  <2> QED
    BY <1>0, <1>3, <1>8, <2>2 DEF Knows
<1>12. History(c)'
  <2>1. Holds(g, c)' => Holds(g, c) /\ Events(g)' = Events(g)
    BY <1>1 DEF Holds, Events
  <2>2. Holds(Host, c)' = Holds(Host, c) /\ Events(Host)' = Events(Host)
    BY <1>1 DEF Holds, Events
  <2>3. Holds(g, c)' => \A m \in On(now) :
              Carries(m) => Within(m.record.events, Events(g)', 1)
    BY <1>0, <1>8, <2>1 DEF ChannelInv, History
  <2>4. Holds(Host, c)' /\ Holds(g, c)' =>
              Within(Events(g)', Events(Host)', 0) \/ Within(Events(Host)', Events(g)', 1)
    BY <1>0, <2>1, <2>2 DEF ChannelInv, History
  <2> HIDE DEF now
  <2> QED
    BY <1>0, <1>3, <1>8, <2>3, <2>4 DEF History, now
<1> QED
  BY <1>9, <1>10, <1>11, <1>12 DEF ChannelInv

\* The invariant of the duels, channel by channel.
LEMMA DuelsAre == Duels <=> Ends /\ Flags /\ \A c \in Channels : ChannelInv(c)
  BY DEF Duels, Wires, Readiness, Histories, ChannelInv

\* Leaving a room keeps the invariant of all duels.
LEMMA ShutDuels ==
    ASSUME DuelTypeOK, Duels, NEW r \in Rooms, Shut(r)
    PROVE  Duels'
<1>1. Ends /\ Flags /\ \A c \in Channels : ChannelInv(c)
  BY DuelsAre
<1>2. Ends' /\ Flags'
  BY <1>1, ShutEnds, ShutFlags
<1>3. ASSUME NEW c \in Channels PROVE ChannelInv(c)'
  <2>1. CASE c # room[r].conn
    BY <1>1, <2>1, ShutAside, AsideKeeps
  <2>2. CASE c = room[r].conn /\ r = Host
    BY <1>1, <2>2, HostShuts
  <2>3. CASE c = room[r].conn /\ r # Host
    BY <1>1, <2>3, GuestShuts
  <2> QED
    BY <2>1, <2>2, <2>3
<1> QED
  BY <1>2, <1>3 DEF Duels, Wires, Readiness, Histories, ChannelInv

-----------------------------------------------------------------------------
(* Opening a room.                                                         *)

\* A room just opened.
NewRoom(rm, opens, generation) ==
    /\ rm.localReady = FALSE /\ rm.remoteReady = FALSE
    /\ rm.started = FALSE /\ rm.busy = FALSE /\ rm.record = None
    /\ rm.peer = TRUE /\ rm.opens = opens + 1 /\ rm.generation = generation + 1

\* open() makes a new room.
LEMMA OpenedIs ==
    ASSUME DuelTypeOK, NEW r \in Rooms
    PROVE  /\ Opened(r) \in DuelRooms
           /\ NewRoom(Opened(r), room[r].opens, room[r].generation)
           /\ Opened(r).conn = None /\ Opened(r).offer = FALSE
<1> DEFINE o == room[r].opens
           n == room[r].generation
           base == ClosedRoom(o + 1, n + 1)
<1>1. o + 1 \in Nat /\ n + 1 \in Nat
  BY RoomIs
<1>2. Opened(r) = [base EXCEPT !.peer = TRUE]
  BY DEF Opened
<1> HIDE DEF o, n
<1>3. /\ base \in DuelRooms
      /\ base.localReady = FALSE /\ base.remoteReady = FALSE
      /\ base.started = FALSE /\ base.busy = FALSE /\ base.record = None
      /\ base.opens = o + 1 /\ base.generation = n + 1
      /\ base.conn = None /\ base.offer = FALSE
  BY <1>1 DEF ClosedRoom, DuelRooms
<1> HIDE DEF base
<1>4. Opened(r) \in DuelRooms
  BY <1>2, <1>3 DEF DuelRooms
<1>5. NewRoom(Opened(r), o, n) /\ Opened(r).conn = None /\ Opened(r).offer = FALSE
  BY <1>2, <1>3 DEF DuelRooms, NewRoom
<1> QED
  BY <1>4, <1>5 DEF o, n

\* What host() changes.
LEMMA HostSets ==
    ASSUME DuelTypeOK, host
    PROVE  /\ room' \in [Rooms -> DuelRooms]
           /\ \A q \in Rooms : q # Host => room'[q] = room[q]
           /\ NewRoom(room'[Host], room[Host].opens, room[Host].generation)
           /\ room'[Host].conn = None
           /\ ~room[Host].peer
           /\ UNCHANGED <<invitation, end, wire, flow, calls, asked, consents>>
<1> DEFINE now == [Opened(Host) EXCEPT !.offer = TRUE]
<1>0. Host \in Rooms
  BY SeatIs
<1>1. now \in DuelRooms /\ NewRoom(now, room[Host].opens, room[Host].generation) /\ now.conn = None
  <2> DEFINE base == Opened(Host)
  <2>1. /\ base \in DuelRooms /\ NewRoom(base, room[Host].opens, room[Host].generation)
        /\ base.conn = None
    BY <1>0, OpenedIs
  <2>2. now = [base EXCEPT !.offer = TRUE]
    OBVIOUS
  <2> HIDE DEF base, now
  <2> QED
    BY <2>1, <2>2 DEF NewRoom, DuelRooms
<1>2. room' = Put(room, Host, now)
  BY DEF host, Put
<1> HIDE DEF now
<1> QED
  BY <1>0, <1>1, <1>2, RoomPut DEF host

\* host() keeps the types,
LEMMA HostTyped == ASSUME DuelTypeOK, host PROVE DuelTypeOK'
  BY HostSets DEF DuelTypeOK

\* and the duels: no channel leads to the new room.
LEMMA HostDuels ==
    ASSUME DuelTypeOK, Duels, host
    PROVE  Duels'
<1>0. Host \in Rooms
  BY SeatIs
<1>1. /\ \A q \in Rooms : q # Host => room'[q] = room[q]
      /\ room'[Host].localReady = FALSE /\ room'[Host].remoteReady = FALSE
      /\ room'[Host].started = FALSE /\ room'[Host].busy = FALSE /\ room'[Host].record = None
      /\ room'[Host].peer = TRUE
      /\ room'[Host].conn = None
      /\ ~room[Host].peer
      /\ UNCHANGED <<invitation, end, wire, flow, calls, asked, consents>>
  BY HostSets DEF NewRoom
<1>2. Ends /\ Flags /\ \A c \in Channels : ChannelInv(c)
  BY DuelsAre
<1>3. room[Host].conn = None
  BY <1>0, <1>1, <1>2 DEF Ends
<1>4. \A c \in Channels : ~Listens(c, 0)
  BY <1>2, <1>3, ChannelShape DEF Ends
<1>5. \A c, s : Listens(c, s)' = Listens(c, s)
  BY <1>1 DEF Listens
<1>6. Ends'
  <2>1. \A q \in Rooms : room'[q].conn # None => q # Host
    BY <1>1
  <2>2. \A c \in Channels, s \in Seats : Listens(c, s) => room'[At(c, s)].conn = c
    <3> SUFFICES ASSUME NEW c \in Channels, NEW s \in Seats, Listens(c, s)
                 PROVE  room'[At(c, s)].conn = c
      OBVIOUS
    <3>1. s = 1 /\ At(c, s) = c[1] /\ c[1] \in Rooms /\ c[1] # Host
      BY <1>4, ChannelShape, SeatIs
    <3> QED
      BY <1>1, <1>2, <3>1 DEF Ends
  <2>3. \A c \in Channels : c[1] \in Rooms /\ c[1] # Host
    BY ChannelShape, SeatIs
  <2>4. \A g \in Guests : g \in Rooms /\ g # Host
    BY SeatIs
  <2>5. \A q \in Rooms : room'[q].conn # None =>
           /\ room'[q].peer
           /\ At(room'[q].conn, Seat(q)) = q
           /\ end'[room'[q].conn][Seat(q)] \in {"opening", "open"}
    BY <1>1, <1>2, <2>1 DEF Ends, Listens
  <2> QED
    BY <1>1, <1>2, <1>4, <1>5, <2>2, <2>3, <2>4, <2>5 DEF Ends, Listens
<1>7. Flags'
  <2>1. \A q \in Rooms : Playable(q)'
    <3> SUFFICES ASSUME NEW q \in Rooms PROVE Playable(q)'
      OBVIOUS
    <3>1. CASE q = Host
      BY <1>1, <3>1 DEF Playable
    <3>2. CASE q # Host
      <4>1. Playable(q) /\ room'[q] = room[q]
        BY <1>1, <1>2, <3>2 DEF Flags
      <4> QED
        BY <1>1, <4>1 DEF Playable, Agreed
    <3> QED
      BY <3>1, <3>2
  <2>2. HostReadiness'
    BY <1>1 DEF HostReadiness
  <2>3. \A g \in Guests : GuestReadiness(g)'
    BY <1>1, <1>2, SeatIs DEF Flags, GuestReadiness
  <2> QED
    BY <2>1, <2>2, <2>3 DEF Flags
<1>8. ASSUME NEW c \in Channels PROVE ChannelInv(c)'
  <2>1. AsideHost(c)
    BY <1>1, <1>4 DEF AsideHost, Holds
  <2>2. AsideGuest(c)
    <3>1. room'[c[1]] = room[c[1]]
      BY <1>1, ChannelShape, SeatIs
    <3> QED
      BY <3>1 DEF AsideGuest, Face
  <2> QED
    BY <1>1, <1>2, <2>1, <2>2, AsideKeeps DEF Aside
<1> QED
  BY <1>6, <1>7, <1>8 DEF Duels, Wires, Readiness, Histories, ChannelInv

\* What join() changes.
LEMMA JoinSets ==
    ASSUME DuelTypeOK, NEW g \in Guests, join(g)
    PROVE  LET c == <<g, room[g].opens + 1>>
           IN /\ c \in Channels
              /\ room' \in [Rooms -> DuelRooms]
              /\ \A q \in Rooms : q # g => room'[q] = room[q]
              /\ NewRoom(room'[g], room[g].opens, room[g].generation)
              /\ room'[g].conn = c /\ room'[g].offer = FALSE
              /\ ~room[g].peer
              /\ invitation' \in [Channels -> Nat]
              /\ \A d \in Channels : d # c => invitation'[d] = invitation[d]
              /\ end' = PutEnd(c, 1, "opening")
              /\ UNCHANGED <<wire, flow, calls, asked, consents>>
<1> DEFINE c == <<g, room[g].opens + 1>>
           now == [Opened(g) EXCEPT !.conn = c]
<1>0. g \in Rooms /\ room[g].opens \in Nat /\ room[Host].opens \in Nat
  BY SeatIs, RoomIs
<1>1. c \in Channels
  <2>1. MaxOpens[g] \in Nat
    BY <1>0, DuelAssumption
  <2>2. room[g].opens + 1 \in 1..MaxOpens[g]
    BY <1>0, <2>1 DEF join
  <2> QED
    BY <2>2 DEF Channels
<1>2. /\ now \in DuelRooms /\ NewRoom(now, room[g].opens, room[g].generation)
      /\ now.conn = c /\ now.offer = FALSE
  <2> DEFINE base == Opened(g)
  <2>1. /\ base \in DuelRooms /\ NewRoom(base, room[g].opens, room[g].generation)
        /\ base.offer = FALSE
    BY <1>0, OpenedIs
  <2>2. now = [base EXCEPT !.conn = c]
    OBVIOUS
  <2> HIDE DEF base, now, c
  <2> QED
    BY <1>1, <2>1, <2>2 DEF NewRoom, DuelRooms
<1>3. room' = Put(room, g, now)
  BY DEF join, Put
<1>4. PICK id \in 1..room[Host].opens : invitation' = [invitation EXCEPT ![c] = id]
  BY DEF join
<1>5. /\ invitation' \in [Channels -> Nat]
      /\ \A d \in Channels : d # c => invitation'[d] = invitation[d]
  BY <1>0, <1>1, <1>4 DEF DuelTypeOK
<1>6. end' = PutEnd(c, 1, "opening")
  BY DEF join, PutEnd
<1> HIDE DEF now
<1> QED
  BY <1>0, <1>1, <1>2, <1>3, <1>5, <1>6, RoomPut DEF join

\* join() keeps the types,
LEMMA JoinTyped == ASSUME DuelTypeOK, NEW g \in Guests, join(g) PROVE DuelTypeOK'
<1> DEFINE c == <<g, room[g].opens + 1>>
<1>1. /\ c \in Channels
      /\ room' \in [Rooms -> DuelRooms]
      /\ invitation' \in [Channels -> Nat]
      /\ end' = PutEnd(c, 1, "opening")
      /\ UNCHANGED <<wire, flow, calls, asked, consents>>
  BY JoinSets
<1>2. PutEnd(c, 1, "opening") \in [Channels -> [Seats -> EndStates]]
  <2> HIDE DEF c
  <2> QED
    BY <1>1, EndShuts DEF EndStates
<1> QED
  BY <1>1, <1>2 DEF DuelTypeOK

\* and the duels: its channel is a new one.
LEMMA JoinDuels ==
    ASSUME DuelTypeOK, Duels, NEW g \in Guests, join(g)
    PROVE  Duels'
<1>0. g \in Rooms /\ g # Host /\ Host \in Rooms
  BY SeatIs
<1>1. PICK c \in Channels :
      /\ c = <<g, room[g].opens + 1>>
      /\ \A q \in Rooms : q # g => room'[q] = room[q]
      /\ NewRoom(room'[g], room[g].opens, room[g].generation)
      /\ room'[g].conn = c /\ room'[g].offer = FALSE
      /\ ~room[g].peer
      /\ \A d \in Channels : d # c => invitation'[d] = invitation[d]
      /\ end' = PutEnd(c, 1, "opening")
      /\ UNCHANGED <<wire, flow, calls, asked, consents>>
  BY JoinSets
<1>2. /\ room'[g].localReady = FALSE /\ room'[g].remoteReady = FALSE
      /\ room'[g].started = FALSE /\ room'[g].busy = FALSE /\ room'[g].record = None
      /\ room'[g].peer = TRUE /\ room'[g].opens = room[g].opens + 1
  BY <1>1 DEF NewRoom
<1>3. Ends /\ Flags /\ \A d \in Channels : ChannelInv(d)
  BY DuelsAre
<1>4. c[1] = g /\ c[2] = room[g].opens + 1 /\ c # None /\ room[g].opens \in Nat
  BY <1>0, <1>1, Apart, RoomIs
<1>5. end[c][1] = "none" /\ end[c][0] = "none"
  BY <1>3, <1>4 DEF Ends
<1>6. /\ \A d \in Channels : d # c => end'[d] = end[d]
      /\ end'[c][0] = "none" /\ end'[c][1] = "opening"
  <2>1. /\ \A d \in Channels : d # c => PutEnd(c, 1, "opening")[d] = end[d]
        /\ PutEnd(c, 1, "opening")[c][1 - 1] = end[c][1 - 1]
        /\ PutEnd(c, 1, "opening")[c][1] = "opening"
    BY EndShuts DEF EndStates
  <2>2. 1 - 1 = 0
    OBVIOUS
  <2> QED
    BY <1>1, <1>5, <2>1, <2>2
<1>7. /\ \A d \in Channels, s \in Seats : d # c => Listens(d, s)' = Listens(d, s)
      /\ ~Listens(c, 0) /\ ~Listens(c, 1) /\ ~Listens(c, 0)' /\ Listens(c, 1)'
  BY <1>5, <1>6 DEF Listens
<1>8. room[g].conn = None
  BY <1>0, <1>1, <1>3 DEF Ends
<1>9. Ends'
  <2>1. ASSUME NEW q \in Rooms, room'[q].conn # None
        PROVE  /\ room'[q].peer
               /\ At(room'[q].conn, Seat(q)) = q
               /\ end'[room'[q].conn][Seat(q)] \in {"opening", "open"}
    <3>1. CASE q = g
      BY <1>1, <1>2, <1>4, <1>6, <3>1, ChannelShape, SeatIs
    <3>2. CASE q # g
      <4>1. room'[q] = room[q] /\ room[q].conn \in Channels
        BY <1>1, <2>1, <3>2, RoomIs
      <4>2. room[q].conn # c
        BY <1>3, <1>7, <2>1, <4>1, SeatIs DEF Ends
      <4> QED
        BY <1>3, <1>6, <2>1, <4>1, <4>2 DEF Ends, Listens
    <3> QED
      BY <3>1, <3>2
  <2>2. ASSUME NEW d \in Channels, NEW s \in Seats, Listens(d, s)'
        PROVE  room'[At(d, s)].conn = d
    <3>1. CASE d = c
      BY <1>1, <1>4, <1>7, <2>2, <3>1, ChannelShape
    <3>2. CASE d # c
      <4>1. room[At(d, s)].conn = d /\ d # None
        BY <1>3, <1>7, <2>2, <3>2, Apart DEF Ends
      <4>2. At(d, s) \in Rooms /\ At(d, s) # g
        BY <1>8, <4>1, ChannelShape, SeatIs
      <4> QED
        BY <1>1, <4>1, <4>2
    <3> QED
      BY <3>1, <3>2
  <2>3. ASSUME NEW h \in Guests, room'[h].peer
        PROVE  room'[h].conn # None /\ room'[h].conn = <<h, room'[h].opens>>
    <3>1. CASE h = g
      BY <1>1, <1>2, <1>4, <3>1
    <3>2. CASE h # g
      BY <1>1, <1>3, <2>3, <3>2, SeatIs DEF Ends
    <3> QED
      BY <3>1, <3>2
  <2>4. ASSUME NEW d \in Channels
        PROVE  /\ d[2] > room'[d[1]].opens => end'[d][1] = "none"
               /\ end'[d][1] = "none" => end'[d][0] = "none"
               /\ Listens(d, 0)' => invitation'[d] = room'[Host].opens
    <3>1. CASE d = c
      BY <1>2, <1>4, <1>6, <1>7, <3>1
    <3>2. CASE d # c
      <4>1. end'[d] = end[d] /\ invitation'[d] = invitation[d] /\ room'[Host] = room[Host]
        BY <1>0, <1>1, <1>6, <3>2
      <4>2. d[1] \in Rooms /\ d[2] \in Nat /\ room[d[1]].opens \in Nat
        BY ChannelShape, SeatIs, RoomIs
      <4>3. room'[d[1]].opens >= room[d[1]].opens /\ room'[d[1]].opens \in Nat
        BY <1>1, <1>2, <4>2, <1>4
      <4> QED
        BY <1>3, <1>7, <3>2, <4>1, <4>2, <4>3 DEF Ends
    <3> QED
      BY <3>1, <3>2
  <2> QED
    BY <2>1, <2>2, <2>3, <2>4 DEF Ends, Listens
<1>10. Flags'
  <2>1. ASSUME NEW q \in Rooms PROVE Playable(q)'
    <3>1. CASE q = g
      BY <1>2, <3>1 DEF Playable
    <3>2. CASE q # g
      <4>1. Playable(q) /\ room'[q] = room[q] /\ consents' = consents
        BY <1>1, <1>3, <3>2 DEF Flags
      <4>2. room[q].started => /\ room[q].record.id \in Channels /\ room[q].record.id # c
        <5> SUFFICES ASSUME room[q].started
                     PROVE  room[q].record.id \in Channels /\ room[q].record.id # c
          OBVIOUS
        <5>1. room[q].record.id \in Channels
          BY <4>1, RoomIs, RecordIs DEF Playable
        <5>2. end[room[q].record.id][Seat(q)] \in {"open", "closed"} /\ Seat(q) \in {0, 1}
          BY <4>1, SeatIs DEF Playable
        <5> QED
          BY <1>5, <5>1, <5>2
      <4>3. room[q].started => /\ end'[room[q].record.id] = end[room[q].record.id]
                               /\ invitation'[room[q].record.id] = invitation[room[q].record.id]
        BY <1>1, <1>6, <4>2
      <4> QED
        BY <4>1, <4>3 DEF Playable, Agreed
    <3> QED
      BY <3>1, <3>2
  <2>2. HostReadiness'
    <3>1. room'[Host] = room[Host] /\ consents' = consents
      BY <1>0, <1>1
    <3>2. room[Host].remoteReady => end'[room[Host].conn] = end[room[Host].conn]
      BY <1>0, <1>3, <1>5, <1>6, RoomIs DEF Flags, HostReadiness
    <3> QED
      BY <1>3, <3>1, <3>2 DEF Flags, HostReadiness
  <2>3. ASSUME NEW h \in Guests PROVE GuestReadiness(h)'
    <3>1. CASE h = g
      BY <1>1, <1>2, <3>1 DEF GuestReadiness
    <3>2. CASE h # g
      <4>1. room'[h] = room[h] /\ GuestReadiness(h) /\ h \in Rooms
        BY <1>1, <1>3, <3>2, SeatIs DEF Flags
      <4>2. room[h].peer /\ room[h].offer => end'[room[h].conn] = end[room[h].conn]
        BY <1>3, <1>5, <1>6, <4>1, RoomIs DEF Ends, GuestReadiness
      <4> QED
        BY <4>1, <4>2 DEF GuestReadiness
    <3> QED
      BY <3>1, <3>2
  <2> QED
    BY <2>1, <2>2, <2>3 DEF Flags
<1>11. ASSUME NEW d \in Channels PROVE ChannelInv(d)'
  <2>1. CASE d # c
    <3>1. AsideHost(d)
      BY <1>0, <1>1 DEF AsideHost, Face
    <3>2. AsideGuest(d)
      <4>1. CASE d[1] = g
        <5>1. ~Listens(d, 1)
          BY <1>3, <1>8, <4>1, ChannelShape, Apart DEF Ends
        <5> QED
          BY <1>2, <4>1, <5>1 DEF AsideGuest, Holds
      <4>2. CASE d[1] # g
        BY <1>1, <4>2, ChannelShape, SeatIs DEF AsideGuest, Face
      <4> QED
        BY <4>1, <4>2
    <3> QED
      BY <1>1, <1>3, <1>6, <2>1, <3>1, <3>2, AsideKeeps DEF Aside
  <2>2. CASE d = c
    <3>1. wire[c][1] = <<>> /\ wire[c][0] = <<>> /\ wire' = wire
      BY <1>1, <1>3, <1>7 DEF ChannelInv, GuestWire, HostWire
    <3>2. GuestWire(c)'
      BY <3>1, NothingOn, GuestNothing DEF GuestWire
    <3>3. HostWire(c)'
      BY <3>1, NothingOn, HostNothing DEF HostWire
    <3>4. Knows(c)'
      BY <1>6, <1>7, <3>1, NothingOn DEF Knows
    <3>5. ~Holds(g, c)'
      BY <1>2 DEF Holds
    <3>6. History(c)'
      BY <1>4, <1>7, <3>1, <3>5, NothingOn DEF History
    <3> QED
      BY <2>2, <3>2, <3>3, <3>4, <3>6 DEF ChannelInv
  <2> QED
    BY <2>1, <2>2
<1> QED
  BY <1>9, <1>10, <1>11 DEF Duels, Wires, Readiness, Histories, ChannelInv

-----------------------------------------------------------------------------
(* Connecting two rooms.                                                   *)

\* A guest that has not got the offer is not ready.
LEMMA Unready ==
    ASSUME DuelTypeOK, Duels, NEW c \in Channels, Listens(c, 1),
           end[c][1] # "open" \/ end[c][0] \in {"none", "opening"}
    PROVE  LET g == room[c[1]]
           IN /\ g.conn = c /\ g.peer /\ ~g.offer
              /\ ~g.localReady /\ ~g.remoteReady /\ ~g.started
<1> DEFINE g == c[1]
<1>1. g \in Guests /\ g \in Rooms /\ At(c, 1) = g /\ c # None
  BY ChannelShape, SeatIs
<1>2. Ends /\ Flags
  BY DuelsAre
<1>3. room[g].conn = c /\ room[g].peer
  BY <1>1, <1>2 DEF Ends
<1>4. GuestReadiness(g) /\ Playable(g)
  BY <1>1, <1>2 DEF Flags
<1>5. ~room[g].offer
  BY <1>3, <1>4 DEF GuestReadiness
<1> QED
  BY <1>3, <1>4, <1>5 DEF GuestReadiness, Playable

\* The host of an open channel, unless it started the game on it.
LEMMA HostConn ==
    ASSUME DuelTypeOK, Duels, NEW c \in Channels, Listens(c, 0)
    PROVE  /\ room[Host].conn = c /\ room[Host].peer
           /\ room[Host].started => room[Host].record.id = c
           /\ room[Host].started => Holds(Host, c)
<1>1. At(c, 0) = Host /\ Host \in Rooms /\ c # None
  BY ChannelShape, SeatIs
<1>2. Ends /\ Playable(Host)
  BY <1>1, DuelsAre DEF Flags
<1>3. room[Host].conn = c /\ room[Host].peer
  BY <1>1, <1>2 DEF Ends
<1> QED
  BY <1>2, <1>3 DEF Playable, Holds

\* So is that of a guest.
LEMMA GuestConn ==
    ASSUME DuelTypeOK, Duels, NEW c \in Channels, Listens(c, 1)
    PROVE  LET g == room[c[1]]
           IN /\ g.conn = c /\ g.peer
              /\ g.started => g.record.id = c
              /\ g.started => Holds(c[1], c)
<1>1. At(c, 1) = c[1] /\ c[1] \in Rooms /\ c # None
  BY ChannelShape, SeatIs
<1>2. Ends /\ Playable(c[1])
  BY <1>1, DuelsAre DEF Flags
<1>3. room[c[1]].conn = c /\ room[c[1]].peer
  BY <1>1, <1>2 DEF Ends
<1> QED
  BY <1>2, <1>3 DEF Playable, Holds

\* Nothing is under way before the host answers.
LEMMA NoWires ==
    ASSUME NEW c \in Channels, ChannelInv(c), end[c][0] \in {"none", "opening"}
    PROVE  /\ wire[c][1] = <<>>
           /\ end[c][0] = "none" => wire[c][0] = <<>>
  BY DEF ChannelInv, GuestWire, HostWire, Listens

\* Only one end of a channel changes, to one that listens as before.
LEMMA EndPut ==
    ASSUME DuelTypeOK, NEW c \in Channels, NEW s \in Seats, NEW e \in EndStates,
           end' = PutEnd(c, s, e)
    PROVE  /\ end' \in [Channels -> [Seats -> EndStates]]
           /\ \A d \in Channels : d # c => end'[d] = end[d]
           /\ \A t \in Seats : t # s => end'[c][t] = end[c][t]
           /\ end'[c][s] = e
           /\ \A d \in Channels, t \in Seats :
                  ~(d = c /\ t = s) => end'[d][t] = end[d][t]
<1>1. /\ PutEnd(c, s, e) \in [Channels -> [Seats -> EndStates]]
      /\ \A d \in Channels : d # c => PutEnd(c, s, e)[d] = end[d]
      /\ PutEnd(c, s, e)[c][1 - s] = end[c][1 - s]
      /\ PutEnd(c, s, e)[c][s] = e
  BY EndShuts
<1>2. \A t \in Seats : t # s => t = 1 - s
  OBVIOUS
<1> QED
  BY <1>1, <1>2

\* What a channel that is admitted changes.
LEMMA AdmitSets ==
    ASSUME DuelTypeOK, NEW c \in Channels, Admit(c)
    PROVE  /\ room' \in [Rooms -> DuelRooms]
           /\ \A q \in Rooms : q # Host => room'[q] = room[q]
           /\ LET a == room'[Host]
                  b == room[Host]
              IN /\ a.conn = c /\ b.conn = None /\ a.peer = b.peer /\ b.peer = TRUE
                 /\ a.offer = b.offer /\ a.localReady = b.localReady
                 /\ a.remoteReady = b.remoteReady /\ a.started = b.started
                 /\ a.busy = b.busy /\ a.record = b.record /\ a.opens = b.opens
                 /\ a.generation = b.generation
           /\ room[Host].opens = invitation[c]
           /\ end[c][0] = "none" /\ end[c][1] = "opening"
           /\ end' = PutEnd(c, 0, "opening")
           /\ UNCHANGED <<invitation, wire, flow, calls, asked, consents>>
<1> DEFINE now == [room[Host] EXCEPT !.conn = c]
<1>0. Host \in Rooms /\ room[Host] \in DuelRooms
  BY SeatIs, RoomIs
<1>1. room' = Put(room, Host, now)
  BY DEF Admit, Put
<1>2. /\ now \in DuelRooms
      /\ now.conn = c /\ now.peer = room[Host].peer
      /\ now.offer = room[Host].offer /\ now.localReady = room[Host].localReady
      /\ now.remoteReady = room[Host].remoteReady /\ now.started = room[Host].started
      /\ now.busy = room[Host].busy /\ now.record = room[Host].record
      /\ now.opens = room[Host].opens /\ now.generation = room[Host].generation
  BY <1>0 DEF DuelRooms
<1> HIDE DEF now
<1>3. end[c][0] = "none" /\ end[c][1] = "opening"
  BY DEF Admit, Reaches
<1>4. room[Host].peer = TRUE
  BY <1>0 DEF Admit, Reaches, DuelRooms
<1>5. end' = PutEnd(c, 0, "opening")
  BY DEF Admit, PutEnd
<1>6. room' \in [Rooms -> DuelRooms] /\ room'[Host] = now
      /\ \A q \in Rooms : q # Host => room'[q] = room[q]
  BY <1>0, <1>1, <1>2, RoomPut
<1> QED
  BY <1>2, <1>3, <1>4, <1>5, <1>6 DEF Admit, Reaches

\* Admitting a channel keeps the types,
LEMMA AdmitTyped == ASSUME DuelTypeOK, NEW c \in Channels, Admit(c) PROVE DuelTypeOK'
<1>1. /\ room' \in [Rooms -> DuelRooms] /\ end' = PutEnd(c, 0, "opening")
      /\ UNCHANGED <<invitation, wire, flow, calls, asked, consents>>
  BY AdmitSets
<1>2. end' \in [Channels -> [Seats -> EndStates]]
  BY <1>1, EndPut DEF EndStates
<1> QED
  BY <1>1, <1>2 DEF DuelTypeOK

\* and the duels: the host was connected to no one.
LEMMA AdmitDuels ==
    ASSUME DuelTypeOK, Duels, NEW c \in Channels, Admit(c)
    PROVE  Duels'
<1>0. Host \in Rooms /\ Seat(Host) = 0 /\ c # None /\ At(c, 0) = Host /\ c[1] \in Guests
      /\ c[1] # Host /\ c[1] \in Rooms
  BY SeatIs, ChannelShape
<1>1. /\ \A q \in Rooms : q # Host => room'[q] = room[q]
      /\ LET a == room'[Host]
             b == room[Host]
         IN /\ a.conn = c /\ b.conn = None /\ a.peer = b.peer /\ b.peer = TRUE
            /\ a.offer = b.offer /\ a.localReady = b.localReady
            /\ a.remoteReady = b.remoteReady /\ a.started = b.started
            /\ a.busy = b.busy /\ a.record = b.record /\ a.opens = b.opens
      /\ room[Host].opens = invitation[c]
      /\ end[c][0] = "none" /\ end[c][1] = "opening"
      /\ end' = PutEnd(c, 0, "opening")
      /\ UNCHANGED <<invitation, wire, flow, calls, asked, consents>>
  BY AdmitSets
<1>2. Ends /\ Flags /\ \A d \in Channels : ChannelInv(d)
  BY DuelsAre
<1>3. /\ \A d \in Channels : d # c => end'[d] = end[d]
      /\ \A d \in Channels, t \in Seats : ~(d = c /\ t = 0) => end'[d][t] = end[d][t]
      /\ end'[c][0] = "opening" /\ end'[c][1] = "opening"
  BY <1>1, EndPut DEF EndStates
<1>4. /\ \A d \in Channels : ~Listens(d, 0)
      /\ \A d \in Channels : d # c => ~Listens(d, 0)'
      /\ \A d \in Channels : Listens(d, 1)' = Listens(d, 1)
      /\ Listens(c, 0)' /\ Listens(c, 1)
  <2>1. \A d \in Channels : ~Listens(d, 0)
    BY <1>1, <1>2, ChannelShape DEF Ends
  <2> QED
    BY <1>1, <1>3, <2>1 DEF Listens
<1>5. Playable(Host) /\ HostReadiness
  BY <1>0, <1>2 DEF Flags
<1>6. ~room[Host].started /\ ~room[Host].remoteReady /\ ~room[Host].busy
  BY <1>1, <1>5 DEF Playable, HostReadiness
<1>7. LET g == room[c[1]]
      IN /\ g.conn = c /\ g.peer /\ ~g.offer
         /\ ~g.localReady /\ ~g.remoteReady /\ ~g.started
  BY <1>1, <1>4, Unready
<1>8. Ends'
  <2>1. ASSUME NEW q \in Rooms, room'[q].conn # None
        PROVE  /\ room'[q].peer
               /\ At(room'[q].conn, Seat(q)) = q
               /\ end'[room'[q].conn][Seat(q)] \in {"opening", "open"}
    <3>1. CASE q = Host
      BY <1>0, <1>1, <1>3, <3>1
    <3>2. CASE q # Host
      <4>1. room'[q] = room[q] /\ room[q].conn \in Channels /\ Seat(q) = 1
        BY <1>1, <2>1, <3>2, RoomIs, SeatIs
      <4> QED
        BY <1>2, <1>3, <2>1, <4>1 DEF Ends, Listens
    <3> QED
      BY <3>1, <3>2
  <2>2. ASSUME NEW d \in Channels, NEW s \in Seats, Listens(d, s)'
        PROVE  room'[At(d, s)].conn = d
    <3>1. CASE s = 0
      BY <1>0, <1>1, <1>4, <2>2, <3>1
    <3>2. CASE s = 1
      <4>1. At(d, s) = d[1] /\ d[1] \in Rooms /\ d[1] # Host
        BY <3>2, ChannelShape, SeatIs
      <4> QED
        BY <1>1, <1>2, <1>4, <2>2, <3>2, <4>1 DEF Ends
    <3> QED
      BY <3>1, <3>2
  <2>3. ASSUME NEW h \in Guests
        PROVE  room'[h] = room[h]
    BY <1>1, SeatIs
  <2>4. ASSUME NEW d \in Channels
        PROVE  /\ d[2] > room'[d[1]].opens => end'[d][1] = "none"
               /\ end'[d][1] = "none" => end'[d][0] = "none"
               /\ Listens(d, 0)' => invitation'[d] = room'[Host].opens
    <3>1. room'[d[1]] = room[d[1]] /\ end'[d][1] = end[d][1]
      BY <1>3, <2>3, ChannelShape
    <3> QED
      BY <1>1, <1>2, <1>3, <1>4, <3>1 DEF Ends
  <2> QED
    BY <1>2, <2>1, <2>2, <2>3, <2>4 DEF Ends, Listens
<1>9. Flags'
  <2>1. ASSUME NEW q \in Rooms PROVE Playable(q)'
    <3>1. CASE q = Host
      BY <1>1, <1>5, <1>6, <3>1 DEF Playable
    <3>2. CASE q # Host
      <4>1. Playable(q) /\ room'[q] = room[q] /\ Seat(q) = 1
        BY <1>1, <1>2, <3>2, SeatIs DEF Flags
      <4>2. room[q].started => end'[room[q].record.id][1] = end[room[q].record.id][1]
        BY <1>3, <4>1, RoomIs, RecordIs DEF Playable
      <4> QED
        BY <1>1, <4>1, <4>2 DEF Playable, Agreed
    <3> QED
      BY <3>1, <3>2
  <2>2. HostReadiness'
    BY <1>1, <1>6 DEF HostReadiness
  <2>3. ASSUME NEW h \in Guests PROVE GuestReadiness(h)'
    <3>1. room'[h] = room[h] /\ GuestReadiness(h) /\ h \in Rooms
      BY <1>1, <1>2, SeatIs DEF Flags
    <3>2. room[h].peer /\ room[h].offer => end'[room[h].conn] = end[room[h].conn]
      BY <1>1, <1>2, <1>3, <3>1, RoomIs DEF Ends, GuestReadiness
    <3> QED
      BY <3>1, <3>2 DEF GuestReadiness
  <2> QED
    BY <2>1, <2>2, <2>3 DEF Flags
<1>10. ASSUME NEW d \in Channels PROVE ChannelInv(d)'
  <2>1. CASE d # c
    <3>1. AsideHost(d)
      BY <1>1, <1>4, <1>6 DEF AsideHost, Holds
    <3>2. AsideGuest(d)
      BY <1>1, ChannelShape, SeatIs DEF AsideGuest, Face
    <3> QED
      BY <1>1, <1>2, <1>3, <2>1, <3>1, <3>2, AsideKeeps DEF Aside
  <2>2. CASE d = c
    <3>1. wire'[c][1] = <<>> /\ wire'[c][0] = <<>>
      BY <1>1, <1>2, NoWires
    <3>2. GuestWire(c)' /\ HostWire(c)'
      BY <3>1, NothingOn, GuestNothing, HostNothing DEF GuestWire, HostWire
    <3>3. ~Holds(c[1], c)' /\ ~Holds(Host, c)'
      BY <1>0, <1>1, <1>6, <1>7 DEF Holds
    <3>4. Knows(c)'
      BY <1>1, <1>3, <1>6, <3>1, <3>3, NothingOn DEF Knows
    <3>5. History(c)'
      BY <1>0, <1>1, <1>6, <1>7, <3>1, <3>3, NothingOn DEF History
    <3> QED
      BY <2>2, <3>2, <3>4, <3>5 DEF ChannelInv
  <2> QED
    BY <2>1, <2>2
<1> QED
  BY <1>8, <1>9, <1>10 DEF Duels, Wires, Readiness, Histories, ChannelInv

-----------------------------------------------------------------------------
(* What an action leaves as it is.                                         *)

\* An end that was open, closed or gone stays so.
Forward == \A d \in Channels, t \in Seats :
    end[d][t] \in {"open", "closed", "gone"} => end'[d][t] = end[d][t]

\* Who holds which end does not change when rooms and ends do not.
LEMMA EndsSame ==
    ASSUME Ends, DuelTypeOK,
           \A q \in Rooms : /\ room'[q].peer = room[q].peer
                            /\ room'[q].conn = room[q].conn
                            /\ room'[q].opens = room[q].opens,
           invitation' = invitation,
           \A d \in Channels, t \in Seats : Listens(d, t)' = Listens(d, t),
           \A d \in Channels : end'[d][1] = "none" <=> end[d][1] = "none",
           \A d \in Channels : end[d][1] = "none" => end'[d] = end[d]
    PROVE  Ends'
<1>0. \A q \in Rooms : room[q].conn = None \/ room[q].conn \in Channels
  BY RoomIs
<1>1. ASSUME NEW q \in Rooms, room'[q].conn # None
      PROVE  /\ room'[q].peer
             /\ At(room'[q].conn, Seat(q)) = q
             /\ Listens(room[q].conn, Seat(q))'
  BY <1>0, <1>1, SeatIs DEF Ends
<1>2. ASSUME NEW q \in Rooms, room'[q].conn # None
      PROVE  end'[room'[q].conn][Seat(q)] \in {"opening", "open"}
  BY <1>1, <1>2 DEF Listens
<1>3. ASSUME NEW d \in Channels, NEW s \in Seats, Listens(d, s)'
      PROVE  room'[At(d, s)].conn = d
  <2>1. At(d, s) \in Rooms
    BY ChannelShape, SeatIs
  <2> QED
    BY <1>3, <2>1 DEF Ends
<1>4. \A g \in Guests : room'[g].peer =>
          room'[g].conn # None /\ room'[g].conn = <<g, room'[g].opens>>
  BY SeatIs DEF Ends
<1>5. \A d \in Channels : /\ d[2] > room'[d[1]].opens => end'[d][1] = "none"
                          /\ end'[d][1] = "none" => end'[d][0] = "none"
                          /\ Listens(d, 0)' => invitation'[d] = room'[Host].opens
  BY ChannelShape, SeatIs DEF Ends
<1> QED
  BY <1>1, <1>2, <1>3, <1>4, <1>5 DEF Ends, Listens

\* A room as before is playable as before,
LEMMA PlayableSame ==
    ASSUME DuelTypeOK, NEW q \in Rooms, Playable(q), room'[q] = room[q],
           invitation' = invitation, consents \subseteq consents', Forward
    PROVE  Playable(q)'
<1>1. room[q].started => room[q].record.id \in Channels /\ Seat(q) \in Seats
  BY RoomIs, RecordIs, SeatIs DEF Playable
<1>2. room[q].started => end'[room[q].record.id][Seat(q)] \in {"open", "closed"}
  BY <1>1 DEF Playable, Forward
<1> QED
  BY <1>2 DEF Playable, Agreed

\* a guest as ready as before,
LEMMA GuestReadinessSame ==
    ASSUME DuelTypeOK, Ends, NEW g \in Guests, GuestReadiness(g), room'[g] = room[g], Forward
    PROVE  GuestReadiness(g)'
<1>1. room[g].peer => room[g].conn \in Channels
  BY RoomIs, SeatIs DEF Ends
<1> QED
  BY <1>1 DEF GuestReadiness, Forward

\* the host too,
LEMMA HostReadinessSame ==
    ASSUME DuelTypeOK, HostReadiness, room'[Host] = room[Host],
           consents \subseteq consents', Forward
    PROVE  HostReadiness'
<1>1. room[Host].remoteReady => room[Host].conn \in Channels
  BY RoomIs, SeatIs DEF HostReadiness
<1> QED
  BY <1>1 DEF HostReadiness, Forward

\* hence all rooms.
LEMMA FlagsSame ==
    ASSUME DuelTypeOK, Ends, Flags, UNCHANGED <<room, invitation, consents>>, Forward
    PROVE  Flags'
<1>1. ASSUME NEW q \in Rooms PROVE Playable(q)'
  BY PlayableSame DEF Flags
<1>2. ASSUME NEW g \in Guests PROVE GuestReadiness(g)'
  BY GuestReadinessSame DEF Flags
<1>3. HostReadiness'
  BY HostReadinessSame DEF Flags
<1> QED
  BY <1>1, <1>2, <1>3 DEF Flags

\* A channel between rooms as before keeps its invariant.
LEMMA AsideSame ==
    ASSUME DuelTypeOK, NEW c \in Channels, ChannelInv(c), room' = room,
           invitation' = invitation, consents' = consents,
           end'[c] = end[c], wire'[c] = wire[c]
    PROVE  ChannelInv(c)'
<1>1. AsideHost(c) /\ AsideGuest(c)
  BY DEF AsideHost, AsideGuest, Face
<1> QED
  BY <1>1, AsideKeeps DEF Aside

-----------------------------------------------------------------------------
(* A channel that the host turns away.                                     *)

\* What a channel that is turned away changes.
LEMMA TurnAwaySets ==
    ASSUME DuelTypeOK, NEW c \in Channels, TurnAway(c)
    PROVE  /\ end[c][0] = "none" /\ end[c][1] = "opening"
           /\ end' = PutEnd(c, 0, "closed")
           /\ UNCHANGED <<room, invitation, wire, flow, calls, asked, consents>>
<1>1. end[c][0] = "none" /\ end[c][1] = "opening"
  BY DEF TurnAway, Reaches
<1> QED
  BY <1>1 DEF TurnAway, PutEnd

\* Turning a channel away keeps the types,
LEMMA TurnAwayTyped == ASSUME DuelTypeOK, NEW c \in Channels, TurnAway(c) PROVE DuelTypeOK'
<1>1. end' = PutEnd(c, 0, "closed")
      /\ UNCHANGED <<room, invitation, wire, flow, calls, asked, consents>>
  BY TurnAwaySets
<1>2. end' \in [Channels -> [Seats -> EndStates]]
  BY <1>1, EndPut DEF EndStates
<1> QED
  BY <1>1, <1>2 DEF DuelTypeOK

\* and the duels.
LEMMA TurnAwayDuels ==
    ASSUME DuelTypeOK, Duels, NEW c \in Channels, TurnAway(c)
    PROVE  Duels'
<1>1. /\ end[c][0] = "none" /\ end[c][1] = "opening"
      /\ end' = PutEnd(c, 0, "closed")
      /\ UNCHANGED <<room, invitation, wire, flow, calls, asked, consents>>
  BY TurnAwaySets
<1>2. Ends /\ Flags /\ \A d \in Channels : ChannelInv(d)
  BY DuelsAre
<1>3. /\ \A d \in Channels : d # c => end'[d] = end[d]
      /\ \A d \in Channels, t \in Seats : ~(d = c /\ t = 0) => end'[d][t] = end[d][t]
      /\ end'[c][0] = "closed" /\ end'[c][1] = "opening"
  BY <1>1, EndPut DEF EndStates
<1>4. \A d \in Channels, t \in Seats : Listens(d, t)' = Listens(d, t)
  BY <1>1, <1>3 DEF Listens
<1>5. Forward
  BY <1>1, <1>3 DEF Forward
<1>6. Ends'
  BY <1>1, <1>2, <1>3, <1>4, EndsSame
<1>7. Flags'
  BY <1>1, <1>2, <1>5, FlagsSame
<1>8. ASSUME NEW d \in Channels PROVE ChannelInv(d)'
  <2>1. CASE d # c
    BY <1>1, <1>2, <1>3, <2>1, AsideSame
  <2>2. CASE d = c
    <3>1. wire'[c][1] = <<>> /\ wire'[c][0] = <<>> /\ wire' = wire
      BY <1>1, <1>2, NoWires
    <3>2. GuestWire(c)' /\ HostWire(c)'
      BY <3>1, NothingOn, GuestNothing, HostNothing DEF GuestWire, HostWire
    <3>3. ~Listens(c, 0)'
      BY <1>3 DEF Listens
    <3>4. Knows(c)'
      BY <1>3, <3>1, <3>3, NothingOn DEF Knows
    <3>5. History(c)'
      BY <1>1, <1>2, <3>1, <3>3, NothingOn DEF ChannelInv, History, Holds, Events
    <3> QED
      BY <2>2, <3>2, <3>4, <3>5 DEF ChannelInv
  <2> QED
    BY <2>1, <2>2
<1> QED
  BY <1>6, <1>7, <1>8 DEF Duels, Wires, Readiness, Histories, ChannelInv

-----------------------------------------------------------------------------
(* An end opens.                                                           *)

\* The offer that the host sends as its end opens.
Offer == [type |-> "offer", hostReady |-> room[Host].localReady]

\* An end that opens keeps the types.
LEMMA OpensTyped ==
    ASSUME DuelTypeOK, NEW c \in Channels, NEW s \in Seats, ChannelOpens(c, s)
    PROVE  DuelTypeOK'
<1>1. end' \in [Channels -> [Seats -> EndStates]]
  <2>1. end' = PutEnd(c, s, "open")
    BY DEF ChannelOpens, PutEnd
  <2> QED
    BY <2>1, EndPut DEF EndStates
<1>2. <<Offer>> \in Seq(Messages)
  <2>1. Offer \in Messages
    BY MessagesAre, RoomIs, SeatIs DEF Offer
  <2> QED
    BY <2>1
<1>3. wire' \in Wirings
  <2>1. wire' = wire \/ wire' = Sent(wire, c, 0, <<Offer>>)
    BY DEF ChannelOpens, Offer
  <2>2. 0 \in Seats /\ wire \in Wirings
    BY DEF DuelTypeOK
  <2>3. Sent(wire, c, 0, <<Offer>>) \in Wirings
    <3> DEFINE o == <<Offer>>
    <3> HIDE DEF o
    <3>1. Sent(wire, c, 0, o) \in Wirings
      BY <1>2, <2>2, SentIs DEF o
    <3> QED
      BY <3>1 DEF o
  <2> QED
    BY <2>1, <2>2, <2>3
<1> QED
  BY <1>1, <1>3 DEF ChannelOpens, DuelTypeOK

\* What the open event of an end changes.
LEMMA OpensSets ==
    ASSUME DuelTypeOK, NEW c \in Channels, NEW s \in Seats, ChannelOpens(c, s)
    PROVE  /\ end[c][s] = "opening"
           /\ \A t \in Seats : Listens(c, t)
           /\ \A d \in Channels : d # c => end'[d] = end[d] /\ wire'[d] = wire[d]
           /\ \A d \in Channels, t \in Seats : ~(d = c /\ t = s) => end'[d][t] = end[d][t]
           /\ end'[c][s] = "open"
           /\ wire'[c][0] = wire[c][0]
           /\ s = 1 => wire'[c][1] = wire[c][1]
           /\ s = 0 => wire'[c][1] = wire[c][1] \o <<Offer>>
           /\ UNCHANGED <<room, invitation, flow, calls, asked, consents>>
<1>1. end[c][s] = "opening" /\ \A t \in Seats : Listens(c, t)
  <2>1. \A t \in Seats : t = s \/ t = 1 - s
    OBVIOUS
  <2> QED
    BY <2>1 DEF ChannelOpens, Listens
<1>2. end' = PutEnd(c, s, "open")
  BY DEF ChannelOpens, PutEnd
<1>3. /\ \A d \in Channels : d # c => end'[d] = end[d]
      /\ \A d \in Channels, t \in Seats : ~(d = c /\ t = s) => end'[d][t] = end[d][t]
      /\ end'[c][s] = "open"
  BY <1>2, EndPut DEF EndStates
<1>4. CASE s = 1
  <2>1. wire' = wire
    BY <1>4 DEF ChannelOpens
  <2> QED
    BY <1>1, <1>3, <1>4, <2>1 DEF ChannelOpens
<1>5. CASE s = 0
  <2>1. wire' = Sent(wire, c, 0, <<Offer>>)
    BY <1>5 DEF ChannelOpens, Offer
  <2>2. <<Offer>> \in Seq(Messages)
    <3>1. Offer \in Messages
      BY MessagesAre, RoomIs, SeatIs DEF Offer
    <3> QED
      BY <3>1
  <2>3. 0 \in Seats /\ wire \in Wirings /\ 1 - 0 = 1 /\ Listens(c, 1)
    BY <1>1 DEF DuelTypeOK
  <2>4. /\ \A d \in Channels : d # c => wire'[d] = wire[d]
        /\ wire'[c][0] = wire[c][0]
        /\ wire'[c][1] = wire[c][1] \o <<Offer>>
    <3> DEFINE o == <<Offer>>
    <3> HIDE DEF o
    <3>1. wire' = Sent(wire, c, 0, o) /\ o \in Seq(Messages)
      BY <2>1, <2>2 DEF o
    <3>2. /\ \A d \in Channels : d # c => wire'[d] = wire[d]
          /\ wire'[c][0] = wire[c][0]
          /\ Listens(c, 1 - 0) => wire'[c][1 - 0] = wire[c][1 - 0] \o o
      BY <2>3, <3>1, SentIs, SMTT(40)
    <3> QED
      BY <2>3, <3>2 DEF o
  <2> QED
    BY <1>1, <1>3, <1>5, <2>4 DEF ChannelOpens
<1> QED
  BY <1>4, <1>5

\* It keeps the duels: the offer comes first to a guest that has none.
LEMMA OpensDuels ==
    ASSUME DuelTypeOK, Duels, NEW c \in Channels, NEW s \in Seats, ChannelOpens(c, s)
    PROVE  Duels'
<1>1. /\ end[c][s] = "opening"
      /\ \A t \in Seats : Listens(c, t)
      /\ \A d \in Channels : d # c => end'[d] = end[d] /\ wire'[d] = wire[d]
      /\ \A d \in Channels, t \in Seats : ~(d = c /\ t = s) => end'[d][t] = end[d][t]
      /\ end'[c][s] = "open"
      /\ wire'[c][0] = wire[c][0]
      /\ s = 1 => wire'[c][1] = wire[c][1]
      /\ s = 0 => wire'[c][1] = wire[c][1] \o <<Offer>>
      /\ UNCHANGED <<room, invitation, flow, calls, asked, consents>>
  BY OpensSets
<1>2. Ends /\ Flags /\ \A d \in Channels : ChannelInv(d)
  BY DuelsAre
<1>3. \A d \in Channels, t \in Seats : Listens(d, t)' = Listens(d, t)
  BY <1>1 DEF Listens
<1>4. Forward
  BY <1>1 DEF Forward
<1>5. Ends'
  <2>1. \A d \in Channels : end'[d][1] = "none" <=> end[d][1] = "none"
    BY <1>1
  <2>2. \A d \in Channels : end[d][1] = "none" => end'[d] = end[d]
    BY <1>1 DEF Listens
  <2> QED
    BY <1>1, <1>2, <1>3, <2>1, <2>2, EndsSame
<1>6. Flags'
  BY <1>1, <1>2, <1>4, FlagsSame
<1>7. LET g == room[c[1]]
      IN /\ g.conn = c /\ g.peer /\ ~g.offer
         /\ ~g.localReady /\ ~g.remoteReady /\ ~g.started
  <2>1. end[c][1] # "open" \/ end[c][0] \in {"none", "opening"}
    BY <1>1
  <2> QED
    BY <1>1, <2>1, Unready
<1>8. ~Holds(c[1], c)
  BY <1>7 DEF Holds
<1>9. ASSUME NEW d \in Channels PROVE ChannelInv(d)'
  <2>1. CASE d # c
    BY <1>1, <1>2, <2>1, AsideSame
  <2>2. CASE s = 1
    <3>1. wire'[c][0] = wire[c][0] /\ wire'[c][1] = wire[c][1] /\ end'[c][0] = end[c][0]
          /\ end'[c][1] = "open" /\ room' = room /\ invitation' = invitation /\ consents' = consents
          /\ Listens(c, 0)' = Listens(c, 0) /\ Listens(c, 1)' = Listens(c, 1)
      BY <1>1, <1>3, <2>2
    <3>2. GuestWire(c) /\ HostWire(c) /\ Knows(c) /\ History(c)
      BY <1>2 DEF ChannelInv
    <3>3. GuestWire(c)'
      BY <3>1, <3>2 DEF GuestWire, Agreed
    <3>4. HostWire(c)'
      BY <3>1, <3>2 DEF HostWire
    <3>5. Knows(c)'
      BY <3>1, <3>2 DEF Knows, Holds
    <3>6. History(c)'
      BY <3>1, <3>2 DEF History, Holds, Events
    <3>7. ChannelInv(c)'
      BY <3>3, <3>4, <3>5, <3>6 DEF ChannelInv
    <3> QED
      BY <2>1, <3>7
  <2>3. CASE s = 0
    <3>1. /\ wire'[c][0] = wire[c][0] /\ end'[c][1] = end[c][1]
          /\ end'[c][0] = "open" /\ end[c][0] = "opening"
          /\ room' = room /\ invitation' = invitation /\ consents' = consents
          /\ Listens(c, 0)' /\ Listens(c, 0) /\ Listens(c, 1)' /\ Listens(c, 1)
      BY <1>1, <1>3, <2>3
    <3>2. GuestWire(c) /\ HostWire(c) /\ Knows(c) /\ History(c)
      BY <1>2 DEF ChannelInv
    <3>3. wire[c][1] = <<>>
      BY <1>2, <3>1, NoWires
    <3>4. Offer \in Messages /\ Offer.type = "offer"
      BY MessagesAre, RoomIs, SeatIs DEF Offer
    <3>5. wire'[c][1] = <<Offer>> /\ <<Offer>> \in Seq(Messages) /\ On(<<Offer>>) = {Offer}
      <4>1. wire'[c][1] = <<>> \o <<Offer>>
        BY <1>1, <2>3, <3>3
      <4>2. <<>> \o <<Offer>> = <<Offer>> /\ <<Offer>> \in Seq(Messages)
        BY <3>4
      <4>3. On(<<Offer>>) = {Offer}
        BY DEF On
      <4> QED
        BY <4>1, <4>2, <4>3
    <3>6. Host \in Rooms /\ Seat(Host) = 0 /\ c # None
      BY SeatIs, ChannelShape
    <3>7. ~room[Host].started
      <4>1. room[Host].conn = c /\ room[Host].peer
        BY <3>1, HostConn
      <4>2. Playable(Host) /\ HostReadiness
        BY <1>2, <3>6 DEF Flags
      <4> QED
        BY <3>1, <4>1, <4>2 DEF Playable, HostReadiness
    <3>8. GuestWire(c)'
      <4> DEFINE o == Offer
                 w == <<o>>
      <4> HIDE DEF o
      <4>1. w[1] = o /\ Len(w) = 1 /\ w # <<>>
        OBVIOUS
      <4>2. ToGuest(room[c[1]], w)
        BY <1>7, <3>4, <4>1 DEF ToGuest, FirstAtGuest, o
      <4>3. wire'[c][1] = w /\ On(w) = {o} /\ o.type = "offer"
        BY <3>4, <3>5 DEF o
      <4> HIDE DEF w
      <4> QED
        BY <3>1, <4>1, <4>2, <4>3 DEF GuestWire, Carries
    <3>9. HostWire(c)'
      BY <3>1, <3>2 DEF HostWire
    <3>10. Knows(c)'
      <4>1. wire'[c][1] # <<>> /\ \A m \in On(wire'[c][1]) : ~Carries(m)
        BY <3>4, <3>5 DEF Carries
      <4> QED
        BY <1>8, <3>1, <3>2, <4>1 DEF Knows, Holds
    <3>11. History(c)'
      <4>1. \A m \in On(wire'[c][1]) : ~Carries(m)
        BY <3>4, <3>5 DEF Carries
      <4> QED
        BY <1>7, <3>1, <3>2, <3>7, <4>1 DEF History, Holds, Events
    <3>12. ChannelInv(c)'
      BY <3>8, <3>9, <3>10, <3>11 DEF ChannelInv
    <3> QED
      BY <2>1, <3>12
  <2> QED
    BY <2>2, <2>3
<1> QED
  BY <1>5, <1>6, <1>9 DEF Duels, Wires, Readiness, Histories, ChannelInv

-----------------------------------------------------------------------------
(* An action of one room over its channel.                                 *)

\* A room that acts over its own channel keeps the duels if it keeps what is
\* known of this channel.
LEMMA Acts ==
    ASSUME DuelTypeOK, Duels, NEW r \in Rooms, NEW c, c = room[r].conn,
           \A q \in Rooms : q # r => room'[q] = room[q],
           room'[r].peer = room[r].peer, room'[r].conn = c,
           room'[r].opens = room[r].opens,
           UNCHANGED <<invitation, end>>, consents \subseteq consents',
           \A d \in Channels : d # c => wire'[d] = wire[d],
           \/ room'[r].started = room[r].started /\ room'[r].record = room[r].record
           \/ c # None /\ room'[r].record.id = c,
           Playable(r)', r = Host => HostReadiness',
           \A g \in Guests : g = r => GuestReadiness(g)',
           c \in Channels => ChannelInv(c)'
    PROVE  Duels'
<1>1. Ends /\ Flags /\ \A d \in Channels : ChannelInv(d)
  BY DuelsAre
<1>2. Forward
  BY DEF Forward
<1>3. Ends'
  <2>1. \A q \in Rooms : /\ room'[q].peer = room[q].peer
                         /\ room'[q].conn = room[q].conn
                         /\ room'[q].opens = room[q].opens
    OBVIOUS
  <2>2. \A d \in Channels, t \in Seats : Listens(d, t)' = Listens(d, t)
    BY DEF Listens
  <2> QED
    BY <1>1, <2>1, <2>2, EndsSame
<1>4. Flags'
  <2>1. ASSUME NEW q \in Rooms PROVE Playable(q)'
    <3>1. CASE q = r
      BY <3>1
    <3>2. CASE q # r
      BY <1>1, <1>2, <3>2, PlayableSame DEF Flags
    <3> QED
      BY <3>1, <3>2
  <2>2. HostReadiness'
    <3>1. CASE Host = r
      BY <3>1
    <3>2. CASE Host # r
      <4>1. room'[Host] = room[Host]
        BY <3>2, SeatIs
      <4> QED
        BY <1>1, <1>2, <4>1, HostReadinessSame DEF Flags
    <3> QED
      BY <3>1, <3>2
  <2>3. ASSUME NEW g \in Guests PROVE GuestReadiness(g)'
    <3>1. CASE g = r
      BY <3>1
    <3>2. CASE g # r
      <4>1. room'[g] = room[g]
        BY <3>2, SeatIs
      <4> QED
        BY <1>1, <1>2, <4>1, GuestReadinessSame DEF Flags
    <3> QED
      BY <3>1, <3>2
  <2> QED
    BY <2>1, <2>2, <2>3 DEF Flags
<1>5. ASSUME NEW d \in Channels PROVE ChannelInv(d)'
  <2>1. CASE d = c
    BY <2>1
  <2>2. CASE d # c
    <3>0. /\ At(d, 0) = Host /\ At(d, 1) = d[1] /\ Host \in Rooms /\ d[1] \in Rooms
          /\ d[1] # Host /\ d # None
      BY ChannelShape, SeatIs
    <3>1. AsideHost(d)
      <4>1. CASE Host = r
        <5>1. ~Listens(d, 0)
          BY <1>1, <2>2, <3>0, <4>1 DEF Ends
        <5>2. Holds(Host, d)' => Holds(Host, d) /\ Events(Host)' = Events(Host)
          BY <2>2, <4>1 DEF Holds, Events
        <5> QED
          BY <5>1, <5>2 DEF AsideHost
      <4>2. CASE Host # r
        BY <3>0, <4>2 DEF AsideHost, Face
      <4> QED
        BY <4>1, <4>2
    <3>2. AsideGuest(d)
      <4>1. CASE d[1] = r
        <5>1. ~Listens(d, 1)
          BY <1>1, <2>2, <3>0, <4>1 DEF Ends
        <5>2. Holds(d[1], d)' => Holds(d[1], d) /\ Events(d[1])' = Events(d[1])
          BY <2>2, <4>1 DEF Holds, Events
        <5> QED
          BY <5>1, <5>2 DEF AsideGuest
      <4>2. CASE d[1] # r
        BY <3>0, <4>2 DEF AsideGuest, Face
      <4> QED
        BY <4>1, <4>2
    <3> QED
      BY <1>1, <2>2, <3>1, <3>2, AsideKeeps DEF Aside
  <2> QED
    BY <2>1, <2>2
<1> QED
  BY <1>3, <1>4, <1>5 DEF Duels, Wires, Readiness, Histories, ChannelInv

\* What can be on the way to a guest, and to the host.
LEMMA GuestTypes ==
    ASSUME NEW w \in Seq(Messages), NEW rm, ToGuest(rm, w), NEW m \in On(w)
    PROVE  m.type \in {"offer", "host-ready", "start", "move", "stop"}
<1>1. PICK i \in 1..Len(w) : m = w[i]
  BY DEF On
<1>2. CASE i = 1
  BY <1>1, <1>2 DEF ToGuest, FirstAtGuest
<1>3. CASE i > 1
  BY <1>1, <1>3 DEF ToGuest, NextAtGuest
<1> QED
  BY <1>1, <1>2, <1>3

\* and those the host may get.
LEMMA HostTypes ==
    ASSUME NEW w \in Seq(Messages), NEW rm, ToHost(rm, w), NEW m \in On(w)
    PROVE  m.type \in {"ready", "move", "stop"}
<1>1. PICK i \in 1..Len(w) : m = w[i]
  BY DEF On
<1>2. CASE i = 1
  BY <1>1, <1>2 DEF ToHost, FirstAtHost
<1>3. CASE i > 1
  BY <1>1, <1>3 DEF ToHost, NextAtHost
<1> QED
  BY <1>1, <1>2, <1>3

-----------------------------------------------------------------------------
(* The host says that it is ready, or starts the game.                     *)

\* The messages of a host that gets ready and starts.
Ready1 == [type |-> "host-ready"]

\* The start of the duel over a channel.
SetupOf(c) == [type |-> "start", record |-> [id |-> c, events |-> <<>>]]

\* They are messages.
LEMMA SetupIs ==
    ASSUME NEW c \in Channels
    PROVE  /\ Ready1 \in Messages /\ Ready1.type = "host-ready"
           /\ SetupOf(c) \in Messages /\ SetupOf(c).type = "start"
           /\ SetupOf(c).record = [id |-> c, events |-> <<>>]
           /\ SetupOf(c).record \in Records
           /\ SetupOf(c).record.id = c /\ SetupOf(c).record.events = <<>>
<1>1. [id |-> c, events |-> <<>>] \in Records
  BY DEF Records
<1> QED
  BY <1>1, MessagesAre DEF Ready1, SetupOf

\* Until the game starts, readiness and the setup can follow whatever is on the
\* way to the guest.
LEMMA CanFollow ==
    ASSUME DuelTypeOK, Duels, NEW c \in Channels, end[c][0] = "open", Listens(c, 1),
           ~room[Host].started,
           NEW m \in Messages, m.type \in {"host-ready", "start"}
    PROVE  /\ wire[c][1] = <<>> => FirstAtGuest(room[c[1]], m)
           /\ wire[c][1] # <<>> => NextAtGuest(Last(wire[c][1]), m)
<1> DEFINE w == wire[c][1]
           rm == room[c[1]]
<1>1. ChannelInv(c) /\ Listens(c, 0)
  BY DuelsAre DEF Listens
<1>2. w \in Seq(Messages)
  BY WireIs
<1>3. w = <<>> => rm.offer
  BY <1>1 DEF ChannelInv, Knows
<1>4. ~rm.started /\ \A p \in On(w) : ~Carries(p)
  BY <1>1, GuestConn DEF ChannelInv, Knows
<1>5. \A p \in On(w) : p.type # "stop"
  BY <1>1 DEF ChannelInv, GuestWire
<1>6. ToGuest(rm, w)
  BY <1>1 DEF ChannelInv, GuestWire
<1> HIDE DEF w, rm
<1>7. w # <<>> => Last(w) \in On(w)
  BY <1>2, OnTyped
<1>8. w # <<>> => Last(w).type \in {"offer", "host-ready"}
  <2>1. w # <<>> => Last(w).type \in {"offer", "host-ready", "start", "move", "stop"}
    BY <1>2, <1>6, <1>7, GuestTypes
  <2> QED
    BY <1>4, <1>5, <1>7, <2>1 DEF Carries
<1>9. /\ w = <<>> => FirstAtGuest(rm, m)
      /\ w # <<>> => NextAtGuest(Last(w), m)
  BY <1>3, <1>4, <1>8 DEF FirstAtGuest, NextAtGuest
<1> QED
  BY <1>9 DEF w, rm

\* The messages of the host: none, ready, start, or both.
Says(c, ms, starts) ==
    \/ starts = FALSE /\ (ms = <<>> \/ ms = <<Ready1>>)
    \/ starts = TRUE /\ (ms = <<SetupOf(c)>> \/ ms = <<Ready1>> \o <<SetupOf(c)>>)

\* Such words fit at the end of the wire to the guest.
LEMMA SaysIs ==
    ASSUME DuelTypeOK, Duels, NEW c \in Channels, Listens(c, 0), Listens(c, 1),
           ~room[Host].started,
           NEW ms, NEW starts, Says(c, ms, starts), ms # <<>> => end[c][0] = "open"
    PROVE  LET w == wire[c][1]
               x == wire[c][1] \o ms
           IN /\ x \in Seq(Messages)
              /\ ToGuest(room[c[1]], x)
              /\ \A m \in On(x) : m \in On(w) \/ m = Ready1 \/ (m = SetupOf(c) /\ starts = TRUE)
              /\ ms # <<>> => x # <<>>
              /\ ms = <<>> => x = w
              /\ starts = TRUE => Last(x) = SetupOf(c) /\ ms # <<>>
<1> DEFINE w == wire[c][1]
           rm == room[c[1]]
           p == Ready1
           q == SetupOf(c)
<1>1. w \in Seq(Messages) /\ ToGuest(rm, w)
  BY WireIs, DuelsAre DEF ChannelInv, GuestWire
<1>2. p \in Messages /\ q \in Messages /\ p.type = "host-ready" /\ q.type = "start"
  BY SetupIs
<1>3. end[c][0] = "open" =>
          /\ w = <<>> => FirstAtGuest(rm, p)
          /\ w # <<>> => NextAtGuest(Last(w), p)
          /\ w = <<>> => FirstAtGuest(rm, q)
          /\ w # <<>> => NextAtGuest(Last(w), q)
  BY <1>2, CanFollow
<1>4. NextAtGuest(p, q)
  BY <1>2 DEF NextAtGuest
<1> HIDE DEF w, rm, p, q
<1>5. CASE ms = <<>>
  <2>1. w \o ms = w /\ starts # TRUE
    <3>1. w \o <<>> = w
      BY <1>1
    <3>2. <<Ready1>> \o <<SetupOf(c)>> # <<>>
      OBVIOUS
    <3> QED
      BY <1>5, <3>1, <3>2 DEF Says
  <2> QED
    BY <1>1, <1>5, <2>1 DEF w, rm
<1>6. CASE starts = FALSE /\ ms = <<p>>
  <2>1. w \o <<p>> \in Seq(Messages) /\ w \o <<p>> # <<>> /\ On(w \o <<p>>) = On(w) \cup {p}
    BY <1>1, <1>2, OnAppend
  <2>2. end[c][0] = "open"
    BY <1>6
  <2>3. ToGuest(rm, w \o <<p>>)
    BY <1>1, <1>2, <1>3, <2>2, GuestAppend
  <2> QED
    BY <1>6, <2>1, <2>3 DEF w, rm, p
<1>7. CASE starts = TRUE /\ ms = <<q>>
  <2>1. w \o <<q>> \in Seq(Messages) /\ w \o <<q>> # <<>> /\ On(w \o <<q>>) = On(w) \cup {q}
        /\ Last(w \o <<q>>) = q
    BY <1>1, <1>2, OnAppend
  <2>2. end[c][0] = "open"
    BY <1>7
  <2>3. ToGuest(rm, w \o <<q>>)
    BY <1>1, <1>2, <1>3, <2>2, GuestAppend
  <2> QED
    BY <1>7, <2>1, <2>3 DEF w, rm, q
<1>8. CASE starts = TRUE /\ ms = <<p>> \o <<q>>
  <2> DEFINE x == w \o <<p>>
             y == x \o <<q>>
  <2>0. w \o ms = y /\ ms # <<>>
    BY <1>1, <1>2, <1>8
  <2>1. x \in Seq(Messages) /\ x # <<>> /\ On(x) = On(w) \cup {p} /\ Last(x) = p
    BY <1>1, <1>2, OnAppend
  <2>2. end[c][0] = "open"
    BY <1>8
  <2>3. ToGuest(rm, x)
    BY <1>1, <1>2, <1>3, <2>2, GuestAppend
  <2> HIDE DEF x
  <2>4. y \in Seq(Messages) /\ y # <<>> /\ On(y) = On(x) \cup {q} /\ Last(y) = q
    BY <1>2, <2>1, OnAppend
  <2>5. ToGuest(rm, y)
    BY <1>2, <1>4, <2>1, <2>3, GuestAppend
  <2> HIDE DEF y
  <2> QED
    BY <1>8, <2>0, <2>1, <2>4, <2>5 DEF w, rm, p, q
<1> QED
  BY <1>5, <1>6, <1>7, <1>8 DEF Says, p, q

\* What the host sends before and at the start, with what it does to its room:
\* the effect on the channel.
LEMMA HostTalks ==
    ASSUME DuelTypeOK, Duels, NEW c \in Channels, room[Host].conn = c,
           ~room[Host].started,
           NEW ms, NEW starts \in BOOLEAN, Says(c, ms, starts),
           ms # <<>> => end[c][0] = "open",
           UNCHANGED <<end, invitation>>, consents \subseteq consents',
           \A q \in Rooms : q # Host => room'[q] = room[q],
           Listens(c, 1) => wire'[c][1] = wire[c][1] \o ms,
           ~Listens(c, 1) => wire'[c][1] = wire[c][1],
           \A m \in On(wire'[c][0]) : m \in On(wire[c][0]),
           room'[Host].started = starts,
           starts => room'[Host].record = SetupOf(c).record,
           starts /\ Listens(c, 1) => room[c[1]].localReady,
           starts => Agreed(c)',
           room'[Host].remoteReady /\ Listens(c, 1) => room[c[1]].localReady
    PROVE  GuestWire(c)' /\ Knows(c)' /\ History(c)'
<1> DEFINE g == c[1]
           w == wire[c][1]
           x == wire'[c][1]
           v == wire'[c][0]
<1>1. GuestWire(c) /\ HostWire(c) /\ Knows(c) /\ History(c) /\ Ends
  BY DuelsAre DEF ChannelInv
<1>2. g \in Guests /\ g # Host /\ g \in Rooms /\ Host \in Rooms /\ c # None /\ At(c, 0) = Host
  BY ChannelShape, SeatIs
<1>3. room'[g] = room[g]
  BY <1>2
<1>4. Listens(c, 0)
  BY <1>1, <1>2, SeatIs DEF Ends
<1>5. Listens(c, 0)' /\ Listens(c, 1)' = Listens(c, 1) /\ (Agreed(c) => Agreed(c)')
  BY <1>4 DEF Listens, Agreed
<1>6. /\ ~Holds(g, c) /\ ~Holds(g, c)'
      /\ \A m \in On(w) : ~Carries(m)
      /\ Listens(c, 1) => ~room[g].started
  BY <1>1, <1>3, <1>4, GuestConn DEF Knows, Holds
<1>7. \A m : m.type = "start" => Carries(m)
  BY DEF Carries
<1>8. CASE ~Listens(c, 1)
  <2>1. x = <<>> /\ On(x) = {}
    BY <1>1, <1>8, NothingOn DEF GuestWire
  <2>2. GuestWire(c)'
    BY <2>1, GuestNothing DEF GuestWire
  <2>3. Knows(c)'
    BY <1>5, <1>6, <1>8, <2>1 DEF Knows
  <2>4. History(c)'
    BY <1>5, <1>6, <1>8, <2>1 DEF History
  <2> QED
    BY <2>2, <2>3, <2>4
<1>9. CASE Listens(c, 1)
  <2> DEFINE p == Ready1
             q == SetupOf(c)
  <2>1. /\ x \in Seq(Messages)
        /\ ToGuest(room[g], x)
        /\ \A m \in On(x) : m \in On(w) \/ m = p \/ (m = q /\ starts = TRUE)
        /\ ms # <<>> => x # <<>>
        /\ ms = <<>> => x = w
        /\ starts = TRUE => Last(x) = q /\ ms # <<>>
    <3> DEFINE y == wire[c][1] \o ms
    <3>1. /\ y \in Seq(Messages)
          /\ ToGuest(room[c[1]], y)
          /\ \A m \in On(y) : m \in On(wire[c][1]) \/ m = Ready1 \/ (m = SetupOf(c) /\ starts = TRUE)
          /\ ms # <<>> => y # <<>>
          /\ ms = <<>> => y = wire[c][1]
          /\ starts = TRUE => Last(y) = SetupOf(c) /\ ms # <<>>
      BY <1>4, <1>9, SaysIs, ZenonT(60)
    <3>2. x = y
      BY <1>9
    <3> HIDE DEF y, x
    <3> QED
      BY <3>1, <3>2
  <2>2. /\ p.type = "host-ready" /\ q.type = "start"
        /\ q.record = [id |-> c, events |-> <<>>]
        /\ q.record.id = c /\ q.record.events = <<>>
        /\ ~Carries(p) /\ Carries(q)
    <3>1. /\ p.type = "host-ready" /\ q.type = "start"
          /\ q.record = [id |-> c, events |-> <<>>]
          /\ q.record.id = c /\ q.record.events = <<>>
      BY SetupIs
    <3> HIDE DEF p, q
    <3> QED
      BY <3>1 DEF Carries
  <2> HIDE DEF p, q
  <2>3. x # <<>> => end[c][0] \notin {"none", "opening"}
    BY <1>1, <2>1 DEF GuestWire
  <2>4. \A m \in On(x) : Carries(m) => m = q /\ starts
    BY <1>6, <2>1, <2>2
  <2>5. GuestWire(c)'
    <3>1. \A m \in On(x) :
              /\ m.type = "start" =>
                     /\ room'[g].localReady
                     /\ m.record = [id |-> c, events |-> <<>>]
                     /\ Agreed(c)'
              /\ Carries(m) => m.record.id = c
              /\ m.type # "stop"
      BY <1>1, <1>3, <1>4, <1>7, <1>9, <2>1, <2>2, <2>4 DEF GuestWire
    <3>2. x # <<>> => Listens(c, 1)' /\ end'[c][0] \notin {"none", "opening"}
      BY <1>5, <1>9, <2>3
    <3>3. ToGuest(room'[g], x)
      BY <1>3, <2>1
    <3> HIDE DEF x, w
    <3> QED
      BY <3>1, <3>2, <3>3 DEF GuestWire, x
  <2>6. Knows(c)'
    <3>1. end'[c][0] = "open" /\ Listens(c, 1)' /\ x = <<>> => room'[g].offer
      BY <1>1, <1>3, <1>9, <2>1 DEF Knows
    <3>2. ~room'[Host].started => ~Holds(g, c)' /\ \A m \in On(x) : ~Carries(m)
      BY <1>6, <2>4
    <3>3. Listens(c, 1)' /\ (\E m \in On(v) : m.type = "ready") => room'[g].localReady
      BY <1>1, <1>3, <1>9 DEF Knows
    <3>4. room'[Host].remoteReady => room'[g].localReady
      BY <1>3, <1>9
    <3>5. \A m \in On(v) : ~Carries(m)
      BY <1>1, <1>6, <1>9 DEF Knows
    <3> HIDE DEF x, w, v
    <3> QED
      BY <3>1, <3>2, <3>3, <3>4, <3>5 DEF Knows, x, v
  <2>7. History(c)'
    <3>1. starts => Events(Host)' = <<>>
      BY <2>2 DEF Events, q
    <3>2. Holds(Host, c)' => \A m \in On(x) :
              Carries(m) => Within(m.record.events, Events(Host)', 0)
      BY <2>2, <2>4, <3>1, WithinNothing
    <3>3. room'[Host].started =>
              /\ x # <<>>
              /\ Carries(Last(x)) /\ Last(x).record.events = Events(Host)'
      BY <2>1, <2>2, <3>1
    <3>4. ~room'[g].started
      BY <1>3, <1>6, <1>9
    <3> HIDE DEF x, w, v
    <3> QED
      BY <1>6, <3>2, <3>3, <3>4 DEF History, x
  <2> QED
    BY <2>5, <2>6, <2>7
<1> QED
  BY <1>8, <1>9

\* The host acts in the lobby or starts the game.
LEMMA HostSays ==
    ASSUME DuelTypeOK, Duels, NEW c, c = room[Host].conn,
           room[Host].peer, ~room[Host].started,
           \A q \in Rooms : q # Host => room'[q] = room[q],
           UNCHANGED <<end, invitation>>, consents \subseteq consents',
           NEW starts \in BOOLEAN, NEW ms, Says(c, ms, starts),
           ms # <<>> => c \in Channels /\ end[c][0] = "open",
           room'[Host].peer = TRUE, room'[Host].conn = c,
           room'[Host].opens = room[Host].opens,
           room'[Host].localReady => <<Host, room[Host].opens>> \in consents',
           room'[Host].started = starts, room'[Host].busy => starts,
           starts => room'[Host].record = SetupOf(c).record,
           ~starts => room'[Host].record = None,
           starts => room'[Host].localReady /\ room'[Host].remoteReady,
           room'[Host].remoteReady =>
               /\ c \in Channels /\ end[c][0] = "open" /\ c \in consents'
               /\ Listens(c, 1) => room[c[1]].localReady,
           \A d \in Channels : d # c => wire'[d] = wire[d],
           c \in Channels =>
               /\ Listens(c, 1) => wire'[c][1] = wire[c][1] \o ms
               /\ ~Listens(c, 1) => wire'[c][1] = wire[c][1]
               /\ \A m \in On(wire'[c][0]) : m \in On(wire[c][0])
               /\ HostWire(c)'
    PROVE  Duels'
<1>1. Ends /\ Playable(Host) /\ Host \in Rooms /\ Seat(Host) = 0
  BY DuelsAre, SeatIs DEF Flags
<1>2. room[Host].record = None
  BY <1>1 DEF Playable
<1>3. starts => /\ c \in Channels /\ c # None /\ At(c, 0) = Host
                /\ SetupOf(c).record.id = c /\ SetupOf(c).record.events = <<>>
                /\ SetupOf(c).record # None
                /\ end[c][0] = "open"
  BY SetupIs, ChannelShape, RecordIs
<1>4. starts => Agreed(c)'
  <2>1. ASSUME starts PROVE /\ invitation[c] = room[Host].opens
                            /\ <<Host, room[Host].opens>> \in consents'
                            /\ c \in consents'
    BY <1>1, <1>3, <2>1 DEF Ends, Listens
  <2> QED
    BY <2>1 DEF Agreed
<1>5. Playable(Host)'
  <2> DEFINE e == SetupOf(c).record
  <2>1. starts => Len(e.events) <= moveLimit
    BY <1>3, Apart
  <2>2. /\ starts => e.id = c /\ e # None
        /\ starts => room'[Host].record = e
    BY <1>3
  <2> HIDE DEF e
  <2> QED
    BY <1>1, <1>3, <1>4, <2>1, <2>2 DEF Playable
<1>6. HostReadiness'
  BY Apart DEF HostReadiness
<1>7. c \in Channels => ChannelInv(c)'
  <2> SUFFICES ASSUME c \in Channels PROVE ChannelInv(c)'
    OBVIOUS
  <2>1. GuestWire(c)' /\ Knows(c)' /\ History(c)'
    BY <1>4, HostTalks
  <2> QED
    BY <2>1 DEF ChannelInv
<1>8. \A g \in Guests : g # Host
  BY SeatIs
<1>9. \/ room'[Host].started = room[Host].started /\ room'[Host].record = room[Host].record
      \/ c # None /\ room'[Host].record.id = c
  <2>1. CASE starts
    BY <1>3, <2>1
  <2>2. CASE ~starts
    BY <1>2, <2>2, RoomIs, SeatIs
  <2> QED
    BY <2>1, <2>2
<1> QED
  BY <1>1, <1>5, <1>6, <1>7, <1>8, <1>9, Acts, ZenonT(60)

-----------------------------------------------------------------------------
(* start.                                                                  *)

\* A move of a room begins.
Begins(r, x) ==
    /\ x.room = r /\ x.generation = room[r].generation
    /\ x.previous = room[r].record /\ x.stage = "pacing"
    /\ room[r].busy /\ room[r].started
    /\ ~Ended(x.previous)
    /\ Turn[Len(x.previous.events) + 1] = Seat(r)

\* A run of move() that advance adds has begun for the new record.
LEMMA BeginsIs ==
    ASSUME DuelTypeOK, NEW r \in Rooms, NEW rm \in DuelRooms, NEW rest,
           rm.started => rm.record # None, advance(r, rm, rest)
    PROVE  \A x \in calls' : x \in rest \/ (Begins(r, x)' /\ rm.busy = FALSE)
<1>1. /\ Face(room'[r], rm)
      /\ \A x \in calls' : x \in rest \/ (MovesNext(r, rm) /\ x = Call(r, rm))
      /\ MovesNext(r, rm) => room'[r].busy /\ rm.busy = FALSE
  BY AdvanceSets
<1>2. ASSUME NEW x \in calls', MovesNext(r, rm), x = Call(r, rm)
      PROVE  Begins(r, x)' /\ rm.busy = FALSE
  <2>1. x.room = r /\ x.generation = rm.generation /\ x.previous = rm.record /\ x.stage = "pacing"
    BY <1>2 DEF Call
  <2>2. rm.started /\ ~Ended(rm.record) /\ Turn[Len(rm.record.events) + 1] = Seat(r)
    BY <1>2 DEF MovesNext
  <2> QED
    BY <1>1, <1>2, <2>1, <2>2 DEF Begins, Face
<1> QED
  BY <1>1, <1>2

\* The room after start() has the empty record of its channel.
LEMMA StartedIs ==
    ASSUME NEW rm \in DuelRooms, rm.conn \in Channels
    PROVE  /\ Started(rm) \in DuelRooms
           /\ Started(rm).peer = rm.peer /\ Started(rm).conn = rm.conn
           /\ Started(rm).offer = rm.offer /\ Started(rm).localReady = rm.localReady
           /\ Started(rm).remoteReady = rm.remoteReady /\ Started(rm).started = TRUE
           /\ Started(rm).busy = rm.busy /\ Started(rm).opens = rm.opens
           /\ Started(rm).generation = rm.generation
           /\ Started(rm).record = SetupOf(rm.conn).record
           /\ Setup(rm) = SetupOf(rm.conn)
<1> DEFINE e == [id |-> rm.conn, events |-> <<>>]
<1>1. SetupOf(rm.conn).record = e /\ e \in Records
  BY SetupIs
<1>2. Started(rm) = [rm EXCEPT !.started = TRUE, !.record = e]
  BY DEF Started
<1>3. SetupOf(rm.conn) = [type |-> "start", record |-> e]
  BY DEF SetupOf
<1> HIDE DEF e
<1>4. Started(rm) \in DuelRooms
  BY <1>1, <1>2 DEF DuelRooms
<1>5. /\ Started(rm).peer = rm.peer /\ Started(rm).conn = rm.conn
      /\ Started(rm).offer = rm.offer /\ Started(rm).localReady = rm.localReady
      /\ Started(rm).remoteReady = rm.remoteReady /\ Started(rm).started = TRUE
      /\ Started(rm).busy = rm.busy /\ Started(rm).opens = rm.opens
      /\ Started(rm).generation = rm.generation
      /\ Started(rm).record = e
  BY <1>2 DEF DuelRooms
<1> QED
  BY <1>1, <1>3, <1>4, <1>5 DEF Setup

\* What start does to the rooms, the calls and the messages sent.
LEMMA StartSets ==
    ASSUME DuelTypeOK, NEW rm \in DuelRooms, NEW w \in Wirings,
           NEW ms \in Seq(Messages), rm.started = FALSE, rm.record = None,
           rm.remoteReady => rm.conn \in Channels, start(rm, w, ms)
    PROVE  /\ room' \in [Rooms -> DuelRooms]
           /\ \A q \in Rooms : q # Host => room'[q] = room[q]
           /\ LET now == room'[Host]
              IN /\ now.peer = rm.peer /\ now.conn = rm.conn
                 /\ now.localReady = rm.localReady
                 /\ now.remoteReady = rm.remoteReady
                 /\ now.opens = rm.opens /\ now.generation = rm.generation
                 /\ now.started = Starts(rm)
                 /\ now.busy => rm.busy \/ now.started
                 /\ Starts(rm) => now.record = SetupOf(rm.conn).record
                 /\ ~Starts(rm) => now.record = None
           /\ wire' = Sent(w, rm.conn, 0, IF Starts(rm) THEN ms \o <<SetupOf(rm.conn)>> ELSE ms)
           /\ calls' \subseteq Calls /\ calls \subseteq calls'
           /\ \A x \in calls' : x \in calls \/ (Begins(Host, x)' /\ rm.busy = FALSE)
<1>0. Host \in Rooms /\ Starts(rm) \in BOOLEAN
  BY SeatIs DEF Starts, DuelRooms
<1>1. CASE Starts(rm)
  <2>1. rm.conn \in Channels
    BY <1>1 DEF Starts
  <2>2. wire' = Sent(w, rm.conn, 0, ms \o <<Setup(rm)>>) /\ advance(Host, Started(rm), calls)
    BY <1>1 DEF start
  <2> DEFINE next == Started(rm)
  <2>3. /\ next \in DuelRooms
        /\ next.peer = rm.peer /\ next.conn = rm.conn
        /\ next.offer = rm.offer /\ next.localReady = rm.localReady
        /\ next.remoteReady = rm.remoteReady /\ next.started = TRUE
        /\ next.busy = rm.busy /\ next.opens = rm.opens
        /\ next.generation = rm.generation
        /\ next.record = SetupOf(rm.conn).record
        /\ Setup(rm) = SetupOf(rm.conn)
    BY <2>1, StartedIs
  <2>4. next.record # None
    BY <2>1, <2>3, SetupIs, RecordIs
  <2>5. advance(Host, next, calls)
    BY <2>2
  <2> HIDE DEF next
  <2>6. /\ room' \in [Rooms -> DuelRooms]
        /\ \A q \in Rooms : q # Host => room'[q] = room[q]
        /\ Face(room'[Host], next)
        /\ calls' \subseteq Calls /\ calls \subseteq calls'
    BY <1>0, <2>3, <2>4, <2>5, AdvanceSets
  <2>7. \A x \in calls' : x \in calls \/ (Begins(Host, x)' /\ next.busy = FALSE)
    BY <1>0, <2>3, <2>4, <2>5, BeginsIs
  <2> QED
    BY <1>0, <1>1, <2>2, <2>3, <2>6, <2>7 DEF Face
<1>2. CASE ~Starts(rm)
  <2>1. wire' = Sent(w, rm.conn, 0, ms) /\ advance(Host, rm, calls)
    BY <1>2 DEF start
  <2>2. /\ room' \in [Rooms -> DuelRooms]
        /\ \A q \in Rooms : q # Host => room'[q] = room[q]
        /\ Face(room'[Host], rm)
        /\ room'[Host].busy => rm.busy \/ MovesNext(Host, rm)
        /\ calls' \subseteq Calls /\ calls \subseteq calls'
    BY <1>0, <2>1, AdvanceSets
  <2>3. \A x \in calls' : x \in calls \/ (Begins(Host, x)' /\ rm.busy = FALSE)
    BY <1>0, <2>1, BeginsIs
  <2>4. ~MovesNext(Host, rm)
    BY DEF MovesNext
  <2> QED
    BY <1>0, <1>2, <2>1, <2>2, <2>3, <2>4 DEF Face
<1> QED
  BY <1>1, <1>2

-----------------------------------------------------------------------------
(* The host presses Ready.                                                 *)

\* Sending keeps the type of the wires.
LEMMA StartTyped ==
    ASSUME DuelTypeOK, NEW c, NEW w \in Wirings, NEW ms \in Seq(Messages),
           c \in Channels \/ ms = <<>>,
           wire' = Sent(w, c, 0, ms)
    PROVE  wire' \in Wirings
<1>1. CASE c \in Channels
  BY <1>1, SentIs
<1>2. CASE ms = <<>>
  BY <1>2, SentNothing
<1> QED
  BY <1>1, <1>2

\* What the host says.
LEMMA Spoken ==
    ASSUME NEW c \in Channels, NEW starts \in BOOLEAN, NEW told \in BOOLEAN
    PROVE  LET ms == IF told THEN HostReady ELSE <<>>
               all == IF starts THEN ms \o <<SetupOf(c)>> ELSE ms
           IN /\ ms \in Seq(Messages) /\ all \in Seq(Messages)
              /\ Says(c, all, starts)
              /\ all # <<>> => told \/ starts
<1> DEFINE p == Ready1
           q == SetupOf(c)
<1>1. p \in Messages /\ q \in Messages
  BY SetupIs
<1>2. HostReady = <<p>>
  BY DEF HostReady, Ready1
<1> HIDE DEF p, q
<1>3. /\ <<>> \in Seq(Messages) /\ <<p>> \in Seq(Messages)
      /\ <<>> \o <<q>> = <<q>> /\ <<q>> \in Seq(Messages) /\ <<p>> \o <<q>> \in Seq(Messages)
  BY <1>1
<1> QED
  BY <1>2, <1>3 DEF Says, p, q

\* What a host that presses Ready changes.
LEMMA ReadyHostSets ==
    ASSUME DuelTypeOK, Duels, readyHost
    PROVE  LET c == room[Host].conn
               now == room'[Host]
               told == IsOpen(c, 0)
               ms == IF told THEN HostReady ELSE <<>>
               starts == room[Host].remoteReady
               all == IF starts THEN ms \o <<SetupOf(c)>> ELSE ms
           IN /\ room[Host].peer /\ ~room[Host].started
              /\ room' \in [Rooms -> DuelRooms]
              /\ \A q \in Rooms : q # Host => room'[q] = room[q]
              /\ now.peer = TRUE /\ now.conn = c
              /\ now.localReady = TRUE /\ now.remoteReady = room[Host].remoteReady
              /\ now.opens = room[Host].opens /\ now.generation = room[Host].generation
              /\ now.started = starts
              /\ now.busy => room[Host].busy \/ starts
              /\ starts => now.record = SetupOf(c).record
              /\ ~starts => now.record = None
              /\ wire' = Sent(wire, c, 0, all)
              /\ calls' \subseteq Calls /\ calls \subseteq calls'
              /\ \A x \in calls' : x \in calls \/ (Begins(Host, x)' /\ room[Host].busy = FALSE)
              /\ consents' = consents \cup {<<Host, room[Host].opens>>}
              /\ UNCHANGED <<invitation, end, flow, asked>>
<1> DEFINE rm == [room[Host] EXCEPT !.localReady = TRUE]
           told == IsOpen(room[Host].conn, 0)
           ms == IF told THEN HostReady ELSE <<>>
<1>0. Host \in Rooms /\ Flags /\ Ends
  BY SeatIs, DuelsAre
<1>1. /\ room[Host] \in DuelRooms /\ room[Host].peer /\ ~room[Host].started
      /\ room[Host].record = None
      /\ room[Host].remoteReady => room[Host].conn \in Channels
  BY <1>0, RoomIs DEF readyHost, Consent, CanBeReady, Flags, Playable, HostReadiness
<1>2. /\ rm \in DuelRooms /\ rm.localReady = TRUE
      /\ rm.peer = TRUE /\ rm.conn = room[Host].conn
      /\ rm.remoteReady = room[Host].remoteReady /\ rm.started = FALSE
      /\ rm.busy = room[Host].busy /\ rm.opens = room[Host].opens
      /\ rm.generation = room[Host].generation /\ rm.record = None
  BY <1>1 DEF DuelRooms
<1>3. start(rm, wire, IF IsOpen(rm.conn, 0) THEN HostReady ELSE <<>>)
      /\ consents' = consents \cup {<<Host, room[Host].opens>>}
      /\ UNCHANGED <<invitation, end, flow, asked>>
  BY DEF readyHost, Consent
<1>4. start(rm, wire, ms)
  BY <1>2, <1>3
<1>5. ms \in Seq(Messages)
  BY MessagesAre DEF HostReady
<1>6. Starts(rm) = room[Host].remoteReady
  BY <1>1, <1>2 DEF Starts, DuelRooms
<1>7. wire \in Wirings
  BY DEF DuelTypeOK
<1> HIDE DEF rm, ms, told
<1>8. /\ room' \in [Rooms -> DuelRooms]
      /\ \A q \in Rooms : q # Host => room'[q] = room[q]
      /\ LET now == room'[Host]
         IN /\ now.peer = rm.peer /\ now.conn = rm.conn
            /\ now.localReady = rm.localReady
            /\ now.remoteReady = rm.remoteReady
            /\ now.opens = rm.opens /\ now.generation = rm.generation
            /\ now.started = Starts(rm)
            /\ now.busy => rm.busy \/ now.started
            /\ Starts(rm) => now.record = SetupOf(rm.conn).record
            /\ ~Starts(rm) => now.record = None
      /\ wire' = Sent(wire, rm.conn, 0, IF Starts(rm) THEN ms \o <<SetupOf(rm.conn)>> ELSE ms)
      /\ calls' \subseteq Calls /\ calls \subseteq calls'
      /\ \A x \in calls' : x \in calls \/ (Begins(Host, x)' /\ rm.busy = FALSE)
  BY <1>1, <1>2, <1>4, <1>5, <1>7, StartSets
<1> QED
  BY <1>1, <1>2, <1>3, <1>6, <1>8 DEF ms, told

\* It keeps the types,
LEMMA ReadyHostTyped ==
    ASSUME DuelTypeOK, Duels, readyHost
    PROVE  DuelTypeOK'
<1> DEFINE c == room[Host].conn
           told == IsOpen(c, 0)
           ms == IF told THEN HostReady ELSE <<>>
           starts == room[Host].remoteReady
           all == IF starts THEN ms \o <<SetupOf(c)>> ELSE ms
<1>1. /\ room' \in [Rooms -> DuelRooms]
      /\ wire' = Sent(wire, c, 0, all)
      /\ calls' \subseteq Calls
      /\ consents' = consents \cup {<<Host, room[Host].opens>>}
      /\ UNCHANGED <<invitation, end, flow, asked>>
  BY ReadyHostSets
<1>2. consents' \subseteq Rooms \X Nat
  BY <1>1, RoomIs, SeatIs DEF DuelTypeOK
<1>3. c \in Channels \/ c = None
  BY RoomIs, SeatIs
<1>4. starts \in BOOLEAN /\ told \in BOOLEAN
  BY RoomIs, SeatIs DEF IsOpen
<1>5. starts => c \in Channels
  BY <1>3, DuelsAre DEF Flags, HostReadiness
<1>6. all \in Seq(Messages) /\ (c \in Channels \/ all = <<>>)
  <2>1. CASE c \in Channels
    <3> HIDE DEF c, starts, told
    <3> QED
      BY <1>4, <2>1, Spoken
  <2>2. CASE c = None
    <3>1. ~told /\ ~starts
      BY <1>3, <1>5, <2>2, Apart DEF IsOpen
    <3>2. <<>> \in Seq(Messages)
      OBVIOUS
    <3> QED
      BY <3>1, <3>2
  <2> QED
    BY <1>3, <2>1, <2>2
<1>7. wire \in Wirings
  BY DEF DuelTypeOK
<1> HIDE DEF all, c
<1>8. wire' \in Wirings
  BY <1>1, <1>6, <1>7, StartTyped
<1> QED
  BY <1>1, <1>2, <1>8 DEF DuelTypeOK

\* and the duels.
LEMMA ReadyHostDuels ==
    ASSUME DuelTypeOK, Duels, readyHost
    PROVE  Duels'
<1>c. PICK c : c = room[Host].conn
  OBVIOUS
<1>s. PICK starts \in BOOLEAN : starts = room[Host].remoteReady
  BY RoomIs, SeatIs
<1>t. PICK told \in BOOLEAN : told = IsOpen(c, 0)
  BY DEF IsOpen
<1> DEFINE ms == IF told THEN HostReady ELSE <<>>
           all == IF starts THEN ms \o <<SetupOf(c)>> ELSE ms
           now == room'[Host]
<1>0. Host \in Rooms /\ Seat(Host) = 0 /\ Ends /\ Flags /\ Playable(Host) /\ HostReadiness
  BY SeatIs, DuelsAre DEF Flags
<1>1. /\ room[Host].peer /\ ~room[Host].started
      /\ room' \in [Rooms -> DuelRooms]
      /\ \A q \in Rooms : q # Host => room'[q] = room[q]
      /\ now.peer = TRUE /\ now.conn = c
      /\ now.localReady = TRUE /\ now.remoteReady = room[Host].remoteReady
      /\ now.opens = room[Host].opens
      /\ now.started = starts
      /\ now.busy => room[Host].busy \/ starts
      /\ starts => now.record = SetupOf(c).record
      /\ ~starts => now.record = None
      /\ wire' = Sent(wire, c, 0, all)
      /\ consents' = consents \cup {<<Host, room[Host].opens>>}
      /\ UNCHANGED <<invitation, end, flow, asked>>
  BY <1>c, <1>s, <1>t, ReadyHostSets
<1>2. ~room[Host].busy
  BY <1>0, <1>1 DEF Playable
<1>3. c \in Channels \/ c = None
  BY <1>c, RoomIs, SeatIs
<1>5. /\ starts => c \in Channels /\ end[c][0] = "open" /\ c \in consents
      /\ told => c \in Channels /\ end[c][0] = "open"
  BY <1>0, <1>3, <1>c, <1>s, <1>t DEF HostReadiness, IsOpen
<1>6. Says(c, all, starts) /\ (all # <<>> => told \/ starts) /\ all \in Seq(Messages)
      /\ (c \notin Channels => all = <<>>)
  <2>1. CASE c \in Channels
    BY <2>1, Spoken
  <2>2. CASE c = None
    <3>1. ~told /\ ~starts
      BY <1>5, <2>2, Apart
    <3>2. all = <<>> /\ starts = FALSE /\ <<>> \in Seq(Messages)
      BY <3>1
    <3> QED
      BY <3>2, <2>2 DEF Says
  <2> QED
    BY <1>3, <2>1, <2>2
<1> HIDE DEF all
<1>7. wire \in Wirings /\ 0 \in Seats /\ 1 - 0 = 1
  BY DEF DuelTypeOK
<1>8. c \in Channels =>
          /\ \A d \in Channels : d # c => wire'[d] = wire[d]
          /\ wire'[c][0] = wire[c][0]
          /\ Listens(c, 1) => wire'[c][1] = wire[c][1] \o all
          /\ ~Listens(c, 1) => wire'[c][1] = wire[c][1]
  <2> SUFFICES ASSUME c \in Channels
               PROVE  /\ \A d \in Channels : d # c => wire'[d] = wire[d]
                      /\ wire'[c][0] = wire[c][0]
                      /\ Listens(c, 1) => wire'[c][1] = wire[c][1] \o all
                      /\ ~Listens(c, 1) => wire'[c][1] = wire[c][1]
    OBVIOUS
  <2>1. /\ \A d \in Channels : d # c => Sent(wire, c, 0, all)[d] = wire[d]
        /\ Sent(wire, c, 0, all)[c][0] = wire[c][0]
        /\ Listens(c, 1 - 0) => Sent(wire, c, 0, all)[c][1 - 0] = wire[c][1 - 0] \o all
        /\ ~Listens(c, 1 - 0) => Sent(wire, c, 0, all)[c][1 - 0] = wire[c][1 - 0]
    BY <1>6, <1>7, SentIs
  <2> QED
    BY <1>1, <1>7, <2>1
<1>9. \A d \in Channels : d # c => wire'[d] = wire[d]
  <2>1. CASE c \in Channels
    BY <1>8, <2>1
  <2>2. CASE c \notin Channels
    BY <1>1, <1>6, <2>2, SentNothing
  <2> QED
    BY <2>1, <2>2
<1>10. c \in Channels => HostWire(c)'
  <2> SUFFICES ASSUME c \in Channels PROVE HostWire(c)'
    OBVIOUS
  <2> DEFINE v == wire[c][0]
  <2>1. HostWire(c) /\ v \in Seq(Messages)
    BY DuelsAre, WireIs DEF ChannelInv
  <2>2. ToHost(room'[Host], v)
    <3>1. CASE starts /\ v # <<>>
      <4>1. FirstAtHost(room[Host], v[1])
        BY <2>1, <3>1 DEF HostWire, ToHost
      <4>2. v[1].type = "stop"
        BY <1>1, <1>s, <3>1, <4>1 DEF FirstAtHost
      <4>3. FirstAtHost(room'[Host], v[1])
        BY <4>2 DEF FirstAtHost
      <4> QED
        BY <2>1, <4>3 DEF HostWire, ToHost
    <3>2. CASE ~starts
      <4>1. \A m \in On(v) : FirstAtHost(room[Host], m) => FirstAtHost(room'[Host], m)
        BY <1>1, <3>2 DEF FirstAtHost
      <4> HIDE DEF now, v
      <4> QED
        BY <2>1, <4>1, HostSame DEF HostWire, v
    <3>3. CASE v = <<>>
      BY <3>3, HostNothing
    <3> QED
      BY <3>1, <3>2, <3>3
  <2>3. wire'[c][0] = v
    BY <1>8
  <2>4. consents \subseteq consents' /\ end' = end
    BY <1>1
  <2> QED
    BY <2>1, <2>2, <2>3, <2>4 DEF HostWire, Listens
<1>11. starts /\ Listens(c, 1) => room[c[1]].localReady
  <2> SUFFICES ASSUME starts, Listens(c, 1) PROVE room[c[1]].localReady
    OBVIOUS
  <2>1. Knows(c) /\ Listens(c, 0)
    BY <1>5, DuelsAre DEF ChannelInv, Listens
  <2> QED
    BY <1>5, <1>s, <2>1 DEF Knows
<1>12. <<Host, room[Host].opens>> \in consents' /\ consents \subseteq consents'
  BY <1>1
<1>13. all # <<>> => c \in Channels /\ end[c][0] = "open"
  BY <1>5, <1>6
<1>14. c \in Channels =>
               /\ Listens(c, 1) => wire'[c][1] = wire[c][1] \o all
               /\ ~Listens(c, 1) => wire'[c][1] = wire[c][1]
               /\ \A m \in On(wire'[c][0]) : m \in On(wire[c][0])
               /\ HostWire(c)'
  BY <1>8, <1>10
<1>15. now.remoteReady =>
               /\ c \in Channels /\ end[c][0] = "open" /\ c \in consents'
               /\ Listens(c, 1) => room[c[1]].localReady
  BY <1>1, <1>5, <1>11, <1>s
<1> QED
  BY <1>c, <1>1, <1>2, <1>6, <1>9, <1>12, <1>13, <1>14, <1>15, <1>s, HostSays, ZenonT(60)

-----------------------------------------------------------------------------
(* The host hears that the guest is ready.                                 *)

\* What arrives is first on its wire and expected.
LEMMA ArrivingIs ==
    ASSUME DuelTypeOK, NEW r \in Rooms, NEW type, Arriving(r, type)
    PROVE  LET c == room[r].conn
               s == Seat(r)
           IN /\ c \in Channels /\ c # None /\ s \in Seats /\ end[c][s] = "open"
              /\ wire[c][s] # <<>> /\ wire[c][s] \in Seq(Messages)
              /\ Message(r) = wire[c][s][1]
              /\ Message(r) \in Messages /\ Message(r) \in On(wire[c][s])
              /\ Message(r).type = type /\ Expects(r, Message(r))
              /\ Rest(r) \in Wirings
              /\ \A d \in Channels : d # c => Rest(r)[d] = wire[d]
              /\ Rest(r)[c][s] = Tail(wire[c][s])
              /\ Rest(r)[c][1 - s] = wire[c][1 - s]
<1> DEFINE c == room[r].conn
           s == Seat(r)
<1>1. HasMessage(r) /\ Message(r).type = type /\ Expects(r, Message(r))
  BY DEF Arriving
<1>2. /\ c \in Channels /\ end[c][s] = "open"
      /\ wire[c][s] # <<>> /\ wire[c][s] \in Seq(Messages)
      /\ Message(r) = wire[c][s][1]
      /\ Message(r) \in Messages
      /\ Rest(r) \in Wirings
      /\ \A d \in Channels : d # c => Rest(r)[d] = wire[d]
      /\ Rest(r)[c][s] = Tail(wire[c][s])
      /\ Rest(r)[c][1 - s] = wire[c][1 - s]
  BY <1>1, RestIs
<1> HIDE DEF c, s
<1>3. wire[c][s][1] \in On(wire[c][s])
  BY <1>2, OnTyped
<1>4. c # None /\ s \in Seats
  BY <1>2, Apart, SeatIs DEF s
<1> QED
  BY <1>1, <1>2, <1>3, <1>4 DEF c, s

\* What the ready of a guest changes at the host.
LEMMA ReceiveReadySets ==
    ASSUME DuelTypeOK, Duels, receiveReady, NEW c, c = room[Host].conn
    PROVE  LET now == room'[Host]
               starts == room[Host].localReady
               all == IF starts THEN <<>> \o <<SetupOf(c)>> ELSE <<>>
           IN /\ room[Host].peer /\ ~room[Host].started /\ ~room[Host].remoteReady
              /\ c \in Channels /\ end[c][0] = "open"
              /\ wire[c][0] # <<>> /\ wire[c][0][1].type = "ready"
              /\ room' \in [Rooms -> DuelRooms]
              /\ \A q \in Rooms : q # Host => room'[q] = room[q]
              /\ now.peer = TRUE /\ now.conn = c
              /\ now.localReady = starts /\ now.remoteReady = TRUE
              /\ now.opens = room[Host].opens /\ now.generation = room[Host].generation
              /\ now.started = starts
              /\ now.busy => room[Host].busy \/ starts
              /\ starts => now.record = SetupOf(c).record
              /\ ~starts => now.record = None
              /\ Rest(Host) \in Wirings
              /\ \A d \in Channels : d # c => Rest(Host)[d] = wire[d]
              /\ Rest(Host)[c][0] = Tail(wire[c][0])
              /\ Rest(Host)[c][1] = wire[c][1]
              /\ wire' = Sent(Rest(Host), c, 0, all)
              /\ calls' \subseteq Calls /\ calls \subseteq calls'
              /\ \A x \in calls' : x \in calls \/ (Begins(Host, x)' /\ room[Host].busy = FALSE)
              /\ UNCHANGED <<invitation, end, flow, asked, consents>>
<1> DEFINE rm == [room[Host] EXCEPT !.remoteReady = TRUE]
<1>0. Host \in Rooms /\ Flags /\ Ends /\ Seat(Host) = 0 /\ 1 - 0 = 1
  BY SeatIs, DuelsAre
<1>1. Arriving(Host, "ready")
  BY DEF receiveReady
<1>2. /\ c \in Channels /\ c # None /\ end[c][0] = "open"
      /\ wire[c][0] # <<>>
      /\ wire[c][0][1].type = "ready" /\ Expects(Host, wire[c][0][1])
      /\ Rest(Host) \in Wirings
      /\ \A d \in Channels : d # c => Rest(Host)[d] = wire[d]
      /\ Rest(Host)[c][0] = Tail(wire[c][0])
      /\ Rest(Host)[c][1] = wire[c][1]
  <2>1. /\ c \in Channels /\ c # None /\ end[c][Seat(Host)] = "open"
        /\ wire[c][Seat(Host)] # <<>>
        /\ Message(Host) = wire[c][Seat(Host)][1]
        /\ Message(Host).type = "ready" /\ Expects(Host, Message(Host))
        /\ Rest(Host) \in Wirings
        /\ \A d \in Channels : d # c => Rest(Host)[d] = wire[d]
        /\ Rest(Host)[c][Seat(Host)] = Tail(wire[c][Seat(Host)])
        /\ Rest(Host)[c][1 - Seat(Host)] = wire[c][1 - Seat(Host)]
    BY <1>0, <1>1, ArrivingIs
  <2> QED
    BY <1>0, <2>1
<1>3. ~room[Host].started /\ ~room[Host].remoteReady
  BY <1>2 DEF Expects
<1>4. /\ room[Host] \in DuelRooms /\ room[Host].peer
      /\ room[Host].record = None
  BY <1>0, <1>2, <1>3, RoomIs DEF Flags, Playable, Ends
<1>5. /\ rm \in DuelRooms /\ rm.localReady = room[Host].localReady
      /\ rm.peer = TRUE /\ rm.conn = room[Host].conn
      /\ rm.remoteReady = TRUE /\ rm.started = FALSE
      /\ rm.busy = room[Host].busy /\ rm.opens = room[Host].opens
      /\ rm.generation = room[Host].generation /\ rm.record = None
  BY <1>3, <1>4 DEF DuelRooms
<1>6. start(rm, Rest(Host), <<>>)
      /\ UNCHANGED <<invitation, end, flow, asked, consents>>
  BY DEF receiveReady
<1>7. Starts(rm) = room[Host].localReady
  BY <1>4, <1>5 DEF Starts, DuelRooms
<1>8. <<>> \in Seq(Messages)
  OBVIOUS
<1> HIDE DEF rm
<1>9. /\ room' \in [Rooms -> DuelRooms]
      /\ \A q \in Rooms : q # Host => room'[q] = room[q]
      /\ LET now == room'[Host]
         IN /\ now.peer = rm.peer /\ now.conn = rm.conn
            /\ now.localReady = rm.localReady
            /\ now.remoteReady = rm.remoteReady
            /\ now.opens = rm.opens /\ now.generation = rm.generation
            /\ now.started = Starts(rm)
            /\ now.busy => rm.busy \/ now.started
            /\ Starts(rm) => now.record = SetupOf(rm.conn).record
            /\ ~Starts(rm) => now.record = None
      /\ wire' = Sent(Rest(Host), rm.conn, 0,
                      IF Starts(rm) THEN <<>> \o <<SetupOf(rm.conn)>> ELSE <<>>)
      /\ calls' \subseteq Calls /\ calls \subseteq calls'
      /\ \A x \in calls' : x \in calls \/ (Begins(Host, x)' /\ rm.busy = FALSE)
  BY <1>2, <1>5, <1>6, <1>8, StartSets
<1> QED
  BY <1>2, <1>3, <1>4, <1>5, <1>6, <1>7, <1>9

\* It keeps the types,
LEMMA ReceiveReadyTyped ==
    ASSUME DuelTypeOK, Duels, receiveReady
    PROVE  DuelTypeOK'
<1>c. PICK c : c = room[Host].conn
  OBVIOUS
<1> DEFINE starts == room[Host].localReady
           ms == IF FALSE THEN HostReady ELSE <<>>
           all == IF starts THEN ms \o <<SetupOf(c)>> ELSE ms
<1>1. /\ c \in Channels
      /\ room' \in [Rooms -> DuelRooms]
      /\ Rest(Host) \in Wirings
      /\ wire' = Sent(Rest(Host), c, 0, all)
      /\ calls' \subseteq Calls
      /\ UNCHANGED <<invitation, end, flow, asked, consents>>
  BY <1>c, ReceiveReadySets
<1>2. starts \in BOOLEAN
  BY RoomIs, SeatIs
<1>3. all \in Seq(Messages)
  <2> HIDE DEF starts
  <2> QED
    BY <1>1, <1>2, Spoken
<1> HIDE DEF all
<1>4. wire' \in Wirings
  BY <1>1, <1>3, StartTyped
<1> QED
  BY <1>1, <1>4 DEF DuelTypeOK

\* and the duels.
LEMMA ReceiveReadyDuels ==
    ASSUME DuelTypeOK, Duels, receiveReady
    PROVE  Duels'
<1>c. PICK c : c = room[Host].conn
  OBVIOUS
<1>s. PICK starts \in BOOLEAN : starts = room[Host].localReady
  BY RoomIs, SeatIs
<1> DEFINE ms == IF FALSE THEN HostReady ELSE <<>>
           all == IF starts THEN ms \o <<SetupOf(c)>> ELSE ms
           now == room'[Host]
           v == wire[c][0]
<1>0. Host \in Rooms /\ Seat(Host) = 0 /\ Ends /\ Flags /\ Playable(Host) /\ HostReadiness
  BY SeatIs, DuelsAre DEF Flags
<1>1. /\ room[Host].peer /\ ~room[Host].started /\ ~room[Host].remoteReady
      /\ c \in Channels /\ end[c][0] = "open"
      /\ v # <<>> /\ v[1].type = "ready"
      /\ room' \in [Rooms -> DuelRooms]
      /\ \A q \in Rooms : q # Host => room'[q] = room[q]
      /\ now.peer = TRUE /\ now.conn = c
      /\ now.localReady = starts /\ now.remoteReady = TRUE
      /\ now.opens = room[Host].opens
      /\ now.started = starts
      /\ now.busy => room[Host].busy \/ starts
      /\ starts => now.record = SetupOf(c).record
      /\ ~starts => now.record = None
      /\ Rest(Host) \in Wirings
      /\ \A d \in Channels : d # c => Rest(Host)[d] = wire[d]
      /\ Rest(Host)[c][0] = Tail(v)
      /\ Rest(Host)[c][1] = wire[c][1]
      /\ wire' = Sent(Rest(Host), c, 0, all)
      /\ UNCHANGED <<invitation, end, flow, asked, consents>>
  BY <1>c, <1>s, ReceiveReadySets, ZenonT(60)
<1>2. ~room[Host].busy
  BY <1>0, <1>1 DEF Playable
<1>6. Says(c, all, starts) /\ all \in Seq(Messages)
  BY <1>1, Spoken
<1> HIDE DEF all
<1>7. 0 \in Seats /\ 1 - 0 = 1
  OBVIOUS
<1>8. /\ \A d \in Channels : d # c => wire'[d] = wire[d]
      /\ wire'[c][0] = Tail(v)
      /\ Listens(c, 1) => wire'[c][1] = wire[c][1] \o all
      /\ ~Listens(c, 1) => wire'[c][1] = wire[c][1]
  <2>0. c \in Channels /\ Rest(Host) \in Wirings /\ all \in Seq(Messages)
    BY <1>1, <1>6
  <2>1. /\ \A d \in Channels : d # c => Sent(Rest(Host), c, 0, all)[d] = Rest(Host)[d]
        /\ Sent(Rest(Host), c, 0, all)[c][0] = Rest(Host)[c][0]
        /\ Listens(c, 1 - 0) => Sent(Rest(Host), c, 0, all)[c][1 - 0] = Rest(Host)[c][1 - 0] \o all
        /\ ~Listens(c, 1 - 0) => Sent(Rest(Host), c, 0, all)[c][1 - 0] = Rest(Host)[c][1 - 0]
    BY <2>0, <1>7, SentIs
  <2> QED
    BY <1>1, <1>7, <2>1, ZenonT(60)
<1>9. HostWire(c) /\ Knows(c) /\ v \in Seq(Messages)
  BY <1>1, <1>7, DuelsAre, WireIs DEF ChannelInv
<1>10. /\ Tail(v) \in Seq(Messages) /\ On(Tail(v)) \subseteq On(v)
       /\ v[1] \in On(v)
  <2> HIDE DEF v
  <2> QED
    BY <1>1, <1>9, OnTail, OnTyped
<1>11. HostWire(c)'
  <2>1. \A m \in On(v) : NextAtHost(v[1], m) => FirstAtHost(now, m)
    BY <1>1 DEF NextAtHost, FirstAtHost
  <2>2. ToHost(room[Host], v)
    BY <1>9 DEF HostWire
  <2>3. ToHost(now, Tail(v))
    <3> HIDE DEF v, now
    <3> QED
      BY <1>1, <1>9, <2>1, <2>2, HostTail
  <2>4. /\ v # <<>> => Listens(c, 0) /\ end[c][1] \notin {"none", "opening"}
        /\ \A m \in On(v) :
              /\ m.type = "ready" => c \in consents
              /\ Carries(m) => m.record.id = c
              /\ Listens(c, 1) => m.type # "stop"
    BY <1>9 DEF HostWire
  <2>5. Listens(c, 0)' = Listens(c, 0) /\ Listens(c, 1)' = Listens(c, 1)
        /\ end' = end /\ consents' = consents
    BY <1>1 DEF Listens
  <2>6. wire'[c][0] = Tail(v)
    BY <1>8
  <2>7. \A m \in On(Tail(v)) :
              /\ m.type = "ready" => c \in consents'
              /\ Carries(m) => m.record.id = c
              /\ Listens(c, 1)' => m.type # "stop"
    BY <1>10, <2>4, <2>5
  <2>8. Listens(c, 0)' /\ end'[c][1] \notin {"none", "opening"}
    BY <1>1, <2>4, <2>5
  <2> HIDE DEF v
  <2> QED
    BY <2>3, <2>6, <2>7, <2>8 DEF HostWire
<1>12. c \in consents
  BY <1>9, <1>10, <1>1 DEF HostWire
<1>13. Listens(c, 1) => room[c[1]].localReady
  BY <1>9, <1>10, <1>1 DEF Knows
<1>14. all # <<>> => c \in Channels /\ end[c][0] = "open"
  BY <1>1
<1>15. c \in Channels =>
               /\ Listens(c, 1) => wire'[c][1] = wire[c][1] \o all
               /\ ~Listens(c, 1) => wire'[c][1] = wire[c][1]
               /\ \A m \in On(wire'[c][0]) : m \in On(wire[c][0])
               /\ HostWire(c)'
  BY <1>8, <1>10, <1>11
<1>16. room[Host].localReady => <<Host, room[Host].opens>> \in consents
  BY <1>0 DEF Playable
<1>17. consents' = consents
  BY <1>1
<1> HIDE DEF v
<1>18. /\ UNCHANGED <<end, invitation>> /\ consents \subseteq consents'
       /\ now.localReady => <<Host, room[Host].opens>> \in consents'
       /\ now.remoteReady =>
               /\ c \in Channels /\ end[c][0] = "open" /\ c \in consents'
               /\ Listens(c, 1) => room[c[1]].localReady
       /\ now.busy => starts
       /\ starts => now.localReady /\ now.remoteReady
  BY <1>1, <1>2, <1>12, <1>13, <1>16, <1>17, <1>s
<1>19. /\ room[Host].peer /\ ~room[Host].started
       /\ \A q \in Rooms : q # Host => room'[q] = room[q]
       /\ now.peer = TRUE /\ now.conn = c /\ now.opens = room[Host].opens
       /\ now.started = starts
       /\ starts => now.record = SetupOf(c).record
       /\ ~starts => now.record = None
       /\ \A d \in Channels : d # c => wire'[d] = wire[d]
       /\ starts \in BOOLEAN /\ Says(c, all, starts)
  BY <1>1, <1>6, <1>8, <1>s
<1> QED
  BY <1>c, <1>14, <1>15, <1>18, <1>19, HostSays, ZenonT(60)

-----------------------------------------------------------------------------
(* A guest presses Ready.                                                  *)

\* The message of a guest that is ready.
GuestReady == [type |-> "ready"]

\* A guest that has a room, its channel and what it holds.
LEMMA GuestHas ==
    ASSUME DuelTypeOK, Duels, NEW g \in Guests, room[g].peer, NEW c, c = room[g].conn
    PROVE  /\ c \in Channels /\ c # None /\ c[1] = g /\ c = <<g, room[g].opens>>
           /\ Listens(c, 1)
           /\ g \in Rooms /\ g # Host /\ Seat(g) = 1 /\ Host \in Rooms /\ Seat(Host) = 0
           /\ Playable(g) /\ GuestReadiness(g)
           /\ GuestWire(c) /\ HostWire(c) /\ Knows(c) /\ History(c)
<1>1. Ends /\ Flags
  BY DuelsAre
<1>2. g \in Rooms /\ g # Host /\ Seat(g) = 1 /\ Host \in Rooms /\ Seat(Host) = 0
  BY SeatIs
<1>3. c # None /\ c = <<g, room[g].opens>> /\ c \in Channels
  BY <1>1, <1>2, RoomIs DEF Ends
<1>4. Listens(c, 1)
  BY <1>1, <1>2, <1>3 DEF Ends
<1> QED
  BY <1>1, <1>2, <1>3, <1>4, DuelsAre DEF Flags, ChannelInv

\* What a guest sends, and what the host sends.
LEMMA GuestSends ==
    ASSUME NEW w \in Wirings, NEW c \in Channels, NEW ms \in Seq(Messages)
    PROVE  /\ Sent(w, c, 1, ms) \in Wirings
           /\ \A d \in Channels : d # c => Sent(w, c, 1, ms)[d] = w[d]
           /\ Sent(w, c, 1, ms)[c][1] = w[c][1]
           /\ Listens(c, 0) => Sent(w, c, 1, ms)[c][0] = w[c][0] \o ms
           /\ ~Listens(c, 0) => Sent(w, c, 1, ms)[c][0] = w[c][0]
<1>1. PICK s \in Seats, t \in Seats : s = 1 /\ t = 0 /\ t = 1 - s
  OBVIOUS
<1>2. /\ Sent(w, c, s, ms) \in Wirings
      /\ \A d \in Channels : d # c => Sent(w, c, s, ms)[d] = w[d]
      /\ Sent(w, c, s, ms)[c][s] = w[c][s]
      /\ Listens(c, t) => Sent(w, c, s, ms)[c][t] = w[c][t] \o ms
      /\ ~Listens(c, t) => Sent(w, c, s, ms)[c][t] = w[c][t]
  BY <1>1, SentIs
<1> QED
  BY <1>1, <1>2

\* The host sends to the guest, on seat 0.
LEMMA HostSends ==
    ASSUME NEW w \in Wirings, NEW c \in Channels, NEW ms \in Seq(Messages)
    PROVE  /\ Sent(w, c, 0, ms) \in Wirings
           /\ \A d \in Channels : d # c => Sent(w, c, 0, ms)[d] = w[d]
           /\ Sent(w, c, 0, ms)[c][0] = w[c][0]
           /\ Listens(c, 1) => Sent(w, c, 0, ms)[c][1] = w[c][1] \o ms
           /\ ~Listens(c, 1) => Sent(w, c, 0, ms)[c][1] = w[c][1]
<1>1. PICK s \in Seats, t \in Seats : s = 0 /\ t = 1 /\ t = 1 - s
  OBVIOUS
<1>2. /\ Sent(w, c, s, ms) \in Wirings
      /\ \A d \in Channels : d # c => Sent(w, c, s, ms)[d] = w[d]
      /\ Sent(w, c, s, ms)[c][s] = w[c][s]
      /\ Listens(c, t) => Sent(w, c, s, ms)[c][t] = w[c][t] \o ms
      /\ ~Listens(c, t) => Sent(w, c, s, ms)[c][t] = w[c][t]
  BY <1>1, SentIs
<1> QED
  BY <1>1, <1>2

\* An action of a guest over its channel.
LEMMA GuestActs ==
    ASSUME DuelTypeOK, Duels, NEW g \in Guests, room[g].peer, NEW c, c = room[g].conn,
           \A q \in Rooms : q # g => room'[q] = room[q],
           room'[g].peer = room[g].peer, room'[g].conn = c,
           room'[g].opens = room[g].opens,
           invitation' = invitation, end' = end, consents \subseteq consents',
           \A d \in Channels : d # c => wire'[d] = wire[d],
           \/ room'[g].started = room[g].started /\ room'[g].record = room[g].record
           \/ room'[g].record.id = c,
           Playable(g)', GuestReadiness(g)',
           GuestWire(c)' /\ HostWire(c)' /\ Knows(c)' /\ History(c)'
    PROVE  Duels'
<1>1. g \in Rooms /\ g # Host /\ c # None
  BY GuestHas
<1>2. c \in Channels => ChannelInv(c)'
  BY DEF ChannelInv
<1>3. \A h \in Guests : h = g => GuestReadiness(h)'
  OBVIOUS
<1>4. g = Host => HostReadiness'
  BY <1>1
<1>5. UNCHANGED <<invitation, end>>
  OBVIOUS
<1>6. \/ room'[g].started = room[g].started /\ room'[g].record = room[g].record
      \/ c # None /\ room'[g].record.id = c
  BY <1>1, SMTT(40)
<1> QED
  BY <1>1, <1>2, <1>3, <1>4, <1>5, <1>6, Acts

\* What a guest that presses Ready changes.
LEMMA ReadyGuestSets ==
    ASSUME DuelTypeOK, Duels, NEW g \in Guests, readyGuest(g), NEW c, c = room[g].conn
    PROVE  LET now == room'[g]
               old == room[g]
           IN /\ old.peer /\ old.offer /\ ~old.localReady /\ ~old.started
              /\ room' \in [Rooms -> DuelRooms]
              /\ \A q \in Rooms : q # g => room'[q] = room[q]
              /\ now.peer = old.peer /\ now.conn = c /\ now.offer = old.offer
              /\ now.localReady = TRUE /\ now.remoteReady = old.remoteReady
              /\ now.started = old.started /\ now.busy = old.busy
              /\ now.record = old.record /\ now.opens = old.opens
              /\ now.generation = old.generation
              /\ wire' \in Wirings
              /\ \A d \in Channels : d # c => wire'[d] = wire[d]
              /\ wire'[c][1] = wire[c][1]
              /\ Listens(c, 0) => wire'[c][0] = wire[c][0] \o <<GuestReady>>
              /\ ~Listens(c, 0) => wire'[c][0] = wire[c][0]
              /\ consents' = consents \cup {<<g, old.opens>>}
              /\ UNCHANGED <<invitation, end, flow, calls, asked>>
<1> DEFINE rm == [room[g] EXCEPT !.localReady = TRUE]
           o == <<GuestReady>>
<1>1. /\ room[g].peer /\ room[g].offer /\ ~room[g].localReady /\ ~room[g].started
      /\ consents' = consents \cup {<<g, room[g].opens>>}
      /\ UNCHANGED <<invitation, end, flow, calls, asked>>
      /\ wire' = Sent(wire, c, 1, o)
      /\ room' = [room EXCEPT ![g].localReady = TRUE]
  BY DEF readyGuest, Consent, CanBeReady, GuestReady
<1>2. c \in Channels /\ g \in Rooms /\ room[g] \in DuelRooms
  BY <1>1, GuestHas, RoomIs
<1>3. /\ rm \in DuelRooms /\ rm.localReady = TRUE
      /\ rm.peer = room[g].peer /\ rm.conn = room[g].conn /\ rm.offer = room[g].offer
      /\ rm.remoteReady = room[g].remoteReady /\ rm.started = room[g].started
      /\ rm.busy = room[g].busy /\ rm.record = room[g].record
      /\ rm.opens = room[g].opens /\ rm.generation = room[g].generation
  BY <1>2 DEF DuelRooms
<1>4. room' = Put(room, g, rm)
  BY <1>1 DEF Put
<1>5. o \in Seq(Messages)
  BY MessagesAre DEF GuestReady
<1> HIDE DEF rm, o
<1>6. /\ room' \in [Rooms -> DuelRooms] /\ room'[g] = rm
      /\ \A q \in Rooms : q # g => room'[q] = room[q]
  BY <1>2, <1>3, <1>4, RoomPut
<1>7. wire \in Wirings
  BY DEF DuelTypeOK
<1>8. /\ Sent(wire, c, 1, o) \in Wirings
      /\ \A d \in Channels : d # c => Sent(wire, c, 1, o)[d] = wire[d]
      /\ Sent(wire, c, 1, o)[c][1] = wire[c][1]
      /\ Listens(c, 0) => Sent(wire, c, 1, o)[c][0] = wire[c][0] \o o
      /\ ~Listens(c, 0) => Sent(wire, c, 1, o)[c][0] = wire[c][0]
  BY <1>2, <1>5, <1>7, GuestSends
<1>9. /\ wire' \in Wirings
      /\ \A d \in Channels : d # c => wire'[d] = wire[d]
      /\ wire'[c][1] = wire[c][1]
      /\ Listens(c, 0) => wire'[c][0] = wire[c][0] \o <<GuestReady>>
      /\ ~Listens(c, 0) => wire'[c][0] = wire[c][0]
  BY <1>1, <1>7, <1>8 DEF o
<1> QED
  BY <1>1, <1>3, <1>6, <1>9

\* It keeps the types,
LEMMA ReadyGuestTyped ==
    ASSUME DuelTypeOK, Duels, NEW g \in Guests, readyGuest(g)
    PROVE  DuelTypeOK'
<1>1. /\ room' \in [Rooms -> DuelRooms] /\ wire' \in Wirings
      /\ consents' = consents \cup {<<g, room[g].opens>>}
      /\ UNCHANGED <<invitation, end, flow, calls, asked>>
  BY ReadyGuestSets
<1>2. consents' \subseteq Rooms \X Nat
  BY <1>1, RoomIs, SeatIs DEF DuelTypeOK
<1> QED
  BY <1>1, <1>2 DEF DuelTypeOK

\* Until a guest is ready, nothing is on the way to the host.
LEMMA NothingToHost ==
    ASSUME DuelTypeOK, Duels, NEW c \in Channels, Listens(c, 1),
           ~room[c[1]].localReady
    PROVE  wire[c][0] = <<>>
<1> DEFINE v == wire[c][0]
<1>1. HostWire(c) /\ Knows(c) /\ Playable(c[1]) /\ v \in Seq(Messages)
  BY DuelsAre, ChannelShape, SeatIs, WireIs DEF ChannelInv, Flags
<1>2. ~room[c[1]].started
  BY <1>1, GuestConn DEF Playable
<1>3. \A m \in On(v) : ~Carries(m) /\ m.type # "ready" /\ m.type # "stop"
  BY <1>1, <1>2 DEF Knows, HostWire
<1>4. ToHost(room[Host], v)
  BY <1>1 DEF HostWire
<1> HIDE DEF v
<1>5. \A m \in On(v) : FALSE
  BY <1>1, <1>3, <1>4, HostTypes DEF Carries
<1>6. v = <<>>
  BY <1>1, <1>5, OnTyped
<1> QED
  BY <1>6 DEF v

\* and the duels: nothing else is on the way to the host.
LEMMA ReadyGuestDuels ==
    ASSUME DuelTypeOK, Duels, NEW g \in Guests, readyGuest(g)
    PROVE  Duels'
<1>c. PICK c : c = room[g].conn
  OBVIOUS
<1> DEFINE now == room'[g]
           old == room[g]
           v == wire[c][0]
           w == wire[c][1]
           x == wire'[c][0]
<1>1. /\ old.peer /\ old.offer /\ ~old.localReady /\ ~old.started
      /\ \A q \in Rooms : q # g => room'[q] = room[q]
      /\ now.peer = old.peer /\ now.conn = c /\ now.offer = old.offer
      /\ now.localReady = TRUE /\ now.remoteReady = old.remoteReady
      /\ now.started = old.started /\ now.busy = old.busy
      /\ now.record = old.record /\ now.opens = old.opens
      /\ \A d \in Channels : d # c => wire'[d] = wire[d]
      /\ wire'[c][1] = w
      /\ Listens(c, 0) => x = v \o <<GuestReady>>
      /\ ~Listens(c, 0) => x = v
      /\ consents' = consents \cup {<<g, old.opens>>}
      /\ UNCHANGED <<invitation, end, flow, calls, asked>>
  BY <1>c, ReadyGuestSets, ZenonT(60)
<1> DEFINE m == GuestReady
<1>2. /\ c \in Channels /\ c # None /\ c[1] = g /\ c = <<g, old.opens>>
      /\ Listens(c, 1)
      /\ g \in Rooms /\ g # Host /\ Seat(g) = 1 /\ Host \in Rooms /\ Seat(Host) = 0
      /\ Playable(g) /\ GuestReadiness(g)
      /\ GuestWire(c) /\ HostWire(c) /\ Knows(c) /\ History(c)
  BY <1>1, <1>c, GuestHas
<1>3. /\ Listens(c, 0)' = Listens(c, 0) /\ Listens(c, 1)'
      /\ Agreed(c) => Agreed(c)'
      /\ c \in consents' /\ room'[Host] = room[Host]
      /\ end' = end
  BY <1>1, <1>2 DEF Listens, Agreed
<1>4. end[c][1] = "open" /\ end[c][0] \in {"open", "closed", "gone"}
  BY <1>1, <1>2, <1>c DEF GuestReadiness
<1>5. v = <<>>
  BY <1>1, <1>2, NothingToHost
<1>6. m \in Messages /\ m.type = "ready" /\ ~Carries(m)
  BY MessagesAre DEF GuestReady, Carries
<1>7. Playable(g)'
  <2>1. old.record = None
    BY <1>1, <1>2 DEF Playable
  <2> QED
    BY <1>1, <1>2, <2>1 DEF Playable
<1>8. GuestReadiness(g)'
  BY <1>1, <1>2, <1>4 DEF GuestReadiness
<1>9. GuestWire(c)'
  <2>1. w \in Seq(Messages) /\ ToGuest(old, w)
    BY <1>2, WireIs DEF GuestWire
  <2>2. \A p \in On(w) : FirstAtGuest(old, p) => FirstAtGuest(now, p)
    BY <1>1 DEF FirstAtGuest
  <2>3. ToGuest(now, w)
    <3> HIDE DEF w, now, old
    <3> QED
      BY <2>1, <2>2, GuestSame
  <2> QED
    BY <1>1, <1>2, <1>3, <2>3 DEF GuestWire
<1>10. ~Holds(g, c) /\ ~Holds(g, c)' /\ ~room'[g].started
  BY <1>1 DEF Holds
<1>11. (Holds(Host, c)' <=> Holds(Host, c)) /\ Events(Host)' = Events(Host)
  BY <1>3 DEF Holds, Events
<1>12. ASSUME ~Listens(c, 0)
       PROVE  GuestWire(c)' /\ HostWire(c)' /\ Knows(c)' /\ History(c)'
  <2>1. x = <<>> /\ On(x) = {}
    BY <1>1, <1>5, <1>12, NothingOn
  <2>2. HostWire(c)'
    BY <2>1, HostNothing DEF HostWire
  <2>3. Knows(c)'
    BY <1>3, <1>12, <2>1 DEF Knows, Listens
  <2>4. History(c)'
    BY <1>1, <1>2, <1>3, <1>10, <1>11, <1>12, <2>1 DEF History
  <2> QED
    BY <1>9, <2>2, <2>3, <2>4
<1>13. ASSUME Listens(c, 0)
       PROVE  GuestWire(c)' /\ HostWire(c)' /\ Knows(c)' /\ History(c)'
  <2>1. room[Host].conn = c /\ room[Host].peer /\ Playable(Host)
    BY <1>2, <1>13, HostConn, DuelsAre DEF Flags
  <2>2. ~room[Host].remoteReady /\ ~room[Host].started
    BY <1>1, <1>2, <1>13, <2>1 DEF Knows, Playable
  <2>3. FirstAtHost(room[Host], m)
    BY <1>6, <2>2 DEF FirstAtHost
  <2>4. x = v \o <<m>> /\ v \in Seq(Messages) /\ ToHost(room[Host], v)
    BY <1>1, <1>2, <1>13, WireIs DEF HostWire
  <2> HIDE DEF m, v
  <2>5. x \in Seq(Messages) /\ x # <<>> /\ On(x) = On(v) \cup {m} /\ ToHost(room[Host], x)
    BY <1>5, <1>6, <2>3, <2>4, OnAppend, HostAppend
  <2>6. On(x) = {m}
    BY <1>5, <2>5, NothingOn
  <2> HIDE DEF x
  <2>7. HostWire(c)'
    BY <1>3, <1>4, <1>6, <1>13, <2>5, <2>6 DEF HostWire, x
  <2>8. Knows(c)'
    <3>1. ~Holds(g, c)' /\ \A p \in On(w) : Listens(c, 0) /\ ~room[Host].started => ~Carries(p)
      BY <1>2, <1>10 DEF Knows
    <3>2. \A p \in On(x) : ~Carries(p)
      BY <1>6, <2>6
    <3>3. room'[g].localReady /\ room'[g].offer
      BY <1>1
    <3> HIDE DEF w
    <3> QED
      BY <1>1, <1>2, <1>3, <2>2, <3>1, <3>2, <3>3 DEF Knows, w, x
  <2>9. History(c)'
    BY <1>1, <1>2, <1>3, <1>10, <1>11, <2>2 DEF History
  <2> QED
    BY <1>9, <2>7, <2>8, <2>9
<1>14. GuestWire(c)' /\ HostWire(c)' /\ Knows(c)' /\ History(c)'
  BY <1>12, <1>13
<1>15. invitation' = invitation /\ end' = end /\ consents \subseteq consents'
  BY <1>1
<1> QED
  BY <1>c, <1>1, <1>7, <1>8, <1>14, <1>15, GuestActs

-----------------------------------------------------------------------------
(* A message is received.                                                  *)

\* A message of that type was received by room r, on seat s of channel c, and the
\* room went on as rm.
Received(r, type, rm, c, s) ==
    /\ c \in Channels /\ c # None /\ end[c][s] = "open"
    /\ wire[c][s] # <<>> /\ wire[c][s] \in Seq(Messages)
    /\ Message(r) = wire[c][s][1] /\ Message(r) \in Messages
    /\ Message(r) \in On(wire[c][s])
    /\ Message(r).type = type /\ Expects(r, Message(r))
    /\ room' \in [Rooms -> DuelRooms]
    /\ \A q \in Rooms : q # r => room'[q] = room[q]
    /\ Face(room'[r], rm)
    /\ room'[r].busy => rm.busy \/ rm.started
    /\ wire' \in Wirings
    /\ \A d \in Channels : d # c => wire'[d] = wire[d]
    /\ wire'[c][s] = Tail(wire[c][s])
    /\ wire'[c][1 - s] = wire[c][1 - s]
    /\ calls' \subseteq Calls /\ calls \subseteq calls'
    /\ \A x \in calls' : x \in calls \/ (Begins(r, x)' /\ rm.busy = FALSE)
    /\ UNCHANGED <<invitation, end, flow, asked, consents>>

\* This is what receive does.
LEMMA ReceiveSets ==
    ASSUME DuelTypeOK, NEW r \in Rooms, NEW type, NEW rm \in DuelRooms,
           rm.started => rm.record # None, Receive(r, type, rm),
           NEW c, c = room[r].conn, NEW s \in Seats, s = Seat(r)
    PROVE  Received(r, type, rm, c, s)
<1>1. /\ Arriving(r, type) /\ wire' = Rest(r) /\ advance(r, rm, calls)
      /\ UNCHANGED <<invitation, end, flow, asked, consents>>
  BY DEF Receive
<1>2. /\ c \in Channels /\ c # None /\ s \in Seats /\ end[c][s] = "open"
      /\ wire[c][s] # <<>> /\ wire[c][s] \in Seq(Messages)
      /\ Message(r) = wire[c][s][1]
      /\ Message(r) \in Messages /\ Message(r) \in On(wire[c][s])
      /\ Message(r).type = type /\ Expects(r, Message(r))
      /\ Rest(r) \in Wirings
      /\ \A d \in Channels : d # c => Rest(r)[d] = wire[d]
      /\ Rest(r)[c][s] = Tail(wire[c][s])
      /\ Rest(r)[c][1 - s] = wire[c][1 - s]
  BY <1>1, ArrivingIs
<1>3. /\ room' \in [Rooms -> DuelRooms]
      /\ \A q \in Rooms : q # r => room'[q] = room[q]
      /\ Face(room'[r], rm)
      /\ room'[r].busy => rm.busy \/ MovesNext(r, rm)
      /\ calls' \subseteq Calls /\ calls \subseteq calls'
  BY <1>1, AdvanceSets
<1>4. \A x \in calls' : x \in calls \/ (Begins(r, x)' /\ rm.busy = FALSE)
  BY <1>1, BeginsIs
<1>5. MovesNext(r, rm) => rm.started
  BY DEF MovesNext
<1> QED
  BY <1>1, <1>2, <1>3, <1>4, <1>5 DEF Received

\* The same at a guest, whose seat is 1, and at the host, whose seat is 0.
LEMMA GuestReceives ==
    ASSUME DuelTypeOK, NEW g \in Guests, NEW type, NEW rm \in DuelRooms,
           rm.started => rm.record # None, Receive(g, type, rm),
           NEW c, c = room[g].conn
    PROVE  /\ c \in Channels /\ c # None /\ end[c][1] = "open"
           /\ wire[c][1] # <<>> /\ wire[c][1] \in Seq(Messages)
           /\ Message(g) = wire[c][1][1] /\ Message(g) \in Messages
           /\ Message(g) \in On(wire[c][1])
           /\ Message(g).type = type /\ Expects(g, Message(g))
           /\ room' \in [Rooms -> DuelRooms]
           /\ \A q \in Rooms : q # g => room'[q] = room[q]
           /\ Face(room'[g], rm)
           /\ room'[g].busy => rm.busy \/ rm.started
           /\ \A d \in Channels : d # c => wire'[d] = wire[d]
           /\ wire'[c][1] = Tail(wire[c][1])
           /\ wire'[c][0] = wire[c][0]
           /\ UNCHANGED <<invitation, end, flow, asked, consents>>
<1>1. g \in Rooms /\ Seat(g) = 1
  BY SeatIs
<1>2. PICK s \in Seats : s = Seat(g) /\ s = 1 /\ 1 - s = 0
  BY <1>1
<1>3. Received(g, type, rm, c, s)
  BY <1>1, <1>2, ReceiveSets
<1> QED
  BY <1>2, <1>3 DEF Received

\* At the host, whose seat is 0.
LEMMA HostReceives ==
    ASSUME DuelTypeOK, NEW type, NEW rm \in DuelRooms,
           rm.started => rm.record # None, Receive(Host, type, rm),
           NEW c, c = room[Host].conn
    PROVE  /\ c \in Channels /\ c # None /\ end[c][0] = "open"
           /\ wire[c][0] # <<>> /\ wire[c][0] \in Seq(Messages)
           /\ Message(Host) = wire[c][0][1] /\ Message(Host) \in Messages
           /\ Message(Host) \in On(wire[c][0])
           /\ Message(Host).type = type /\ Expects(Host, Message(Host))
           /\ room' \in [Rooms -> DuelRooms]
           /\ \A q \in Rooms : q # Host => room'[q] = room[q]
           /\ Face(room'[Host], rm)
           /\ room'[Host].busy => rm.busy \/ rm.started
           /\ \A d \in Channels : d # c => wire'[d] = wire[d]
           /\ wire'[c][0] = Tail(wire[c][0])
           /\ wire'[c][1] = wire[c][1]
           /\ UNCHANGED <<invitation, end, flow, asked, consents>>
<1>1. Host \in Rooms /\ Seat(Host) = 0
  BY SeatIs
<1>2. PICK s \in Seats : s = Seat(Host) /\ s = 0 /\ 1 - s = 1
  BY <1>1
<1>3. Received(Host, type, rm, c, s)
  BY <1>1, <1>2, ReceiveSets
<1> QED
  BY <1>2, <1>3 DEF Received

\* It keeps the types.
LEMMA ReceiveTyped ==
    ASSUME DuelTypeOK, NEW r \in Rooms, NEW type, NEW rm \in DuelRooms,
           rm.started => rm.record # None, Receive(r, type, rm)
    PROVE  DuelTypeOK'
<1>c. PICK c : c = room[r].conn
  OBVIOUS
<1>1. PICK s \in Seats : s = Seat(r)
  BY SeatIs
<1>2. Received(r, type, rm, c, s)
  BY <1>1, <1>c, ReceiveSets
<1> QED
  BY <1>2 DEF Received, DuelTypeOK

\* A guest that takes a message has a room.
LEMMA GuestTakes ==
    ASSUME DuelTypeOK, Duels, NEW g \in Guests, room[g].conn # None
    PROVE  room[g].peer
  BY DuelsAre, SeatIs DEF Ends

-----------------------------------------------------------------------------
(* A guest hears of the game and of the host's readiness.                  *)

\* A guest hears the offer, or that the host is ready.
Heard(g, ready) == [room[g] EXCEPT !.offer = TRUE, !.remoteReady = ready]

\* It receives one of the two.
HearsOf(g, type, ready) == Receive(g, type, Heard(g, ready))

\* A guest that hears either has not started a game.
LEMMA HearsIs ==
    ASSUME DuelTypeOK, Duels, NEW g \in Guests, receiveOffer(g) \/ receiveHostReady(g)
    PROVE  \E type \in {"offer", "host-ready"}, ready \in BOOLEAN :
               /\ HearsOf(g, type, ready)
               /\ room[g].peer /\ ~room[g].started /\ ~room[g].busy /\ room[g].record = None
<1>0. g \in Rooms /\ Seat(g) = 1 /\ g # Host
  BY SeatIs
<1>1. ASSUME NEW type, Arriving(g, type)
      PROVE  /\ Message(g) \in Messages /\ Message(g).type = type
             /\ Expects(g, Message(g)) /\ room[g].conn # None
  BY <1>0, <1>1, ArrivingIs
<1>2. room[g].conn # None => room[g].peer
  BY GuestTakes
<1>3. Playable(g) /\ GuestReadiness(g)
  BY <1>0, DuelsAre DEF Flags
<1>4. CASE receiveOffer(g)
  <2>1. Arriving(g, "offer")
    BY <1>4 DEF receiveOffer, Receive
  <2>2. /\ Message(g) \in Messages /\ Message(g).type = "offer"
        /\ Expects(g, Message(g)) /\ room[g].peer
    BY <1>1, <1>2, <2>1
  <2>3. Message(g).hostReady \in BOOLEAN
    BY <2>2, MessageIs
  <2>4. ~room[g].offer
    BY <2>2 DEF Expects
  <2>5. ~room[g].started /\ ~room[g].busy /\ room[g].record = None
    BY <1>3, <2>2, <2>4 DEF Playable, GuestReadiness
  <2>6. HearsOf(g, "offer", Message(g).hostReady)
    BY <1>4 DEF receiveOffer, HearsOf, Heard
  <2> QED
    BY <2>2, <2>3, <2>5, <2>6
<1>5. CASE receiveHostReady(g)
  <2>1. Arriving(g, "host-ready")
    BY <1>5 DEF receiveHostReady, Receive
  <2>2. /\ Message(g).type = "host-ready"
        /\ Expects(g, Message(g)) /\ room[g].peer
    BY <1>1, <1>2, <2>1
  <2>3. room[g].offer /\ ~room[g].started
    BY <2>2 DEF Expects
  <2>4. ~room[g].busy /\ room[g].record = None
    BY <1>3, <2>3 DEF Playable
  <2>5. [room[g] EXCEPT !.remoteReady = TRUE]
          = [room[g] EXCEPT !.offer = TRUE, !.remoteReady = TRUE]
    <3>1. room[g] \in DuelRooms /\ room[g].offer = TRUE
      BY <1>0, <2>3, RoomIs
    <3> QED
      BY <3>1 DEF DuelRooms
  <2>6. HearsOf(g, "host-ready", TRUE)
    BY <1>5, <2>5 DEF receiveHostReady, HearsOf, Heard
  <2> QED
    BY <2>2, <2>3, <2>4, <2>6
<1> QED
  BY <1>4, <1>5

\* The room of a guest that heard.
LEMMA HeardIs ==
    ASSUME DuelTypeOK, NEW g \in Guests, NEW ready \in BOOLEAN
    PROVE  LET old == room[g]
               rm == Heard(g, ready)
           IN /\ rm \in DuelRooms
              /\ rm.peer = old.peer /\ rm.conn = old.conn /\ rm.offer = TRUE
              /\ rm.localReady = old.localReady /\ rm.remoteReady = ready
              /\ rm.started = old.started /\ rm.busy = old.busy
              /\ rm.record = old.record /\ rm.opens = old.opens
              /\ rm.generation = old.generation
<1>1. room[g] \in DuelRooms
  BY SeatIs, RoomIs
<1> QED
  BY <1>1 DEF DuelRooms, Heard

\* It keeps the types,
LEMMA HearsTyped ==
    ASSUME DuelTypeOK, Duels, NEW g \in Guests, receiveOffer(g) \/ receiveHostReady(g)
    PROVE  DuelTypeOK'
<1>1. PICK type \in {"offer", "host-ready"}, ready \in BOOLEAN :
          HearsOf(g, type, ready) /\ ~room[g].started
  BY HearsIs
<1> DEFINE rm == Heard(g, ready)
<1>2. Receive(g, type, rm) /\ rm \in DuelRooms /\ rm.started = room[g].started /\ g \in Rooms
  BY <1>1, HeardIs, SeatIs DEF HearsOf
<1> HIDE DEF rm
<1> QED
  BY <1>1, <1>2, ReceiveTyped

\* and the duels.
LEMMA HearsDuels ==
    ASSUME DuelTypeOK, Duels, NEW g \in Guests, receiveOffer(g) \/ receiveHostReady(g)
    PROVE  Duels'
<1>1. PICK type \in {"offer", "host-ready"}, ready \in BOOLEAN :
          /\ HearsOf(g, type, ready)
          /\ room[g].peer /\ ~room[g].started /\ ~room[g].busy /\ room[g].record = None
  BY HearsIs
<1>c. PICK c : c = room[g].conn
  OBVIOUS
<1> DEFINE rm == Heard(g, ready)
           old == room[g]
           now == room'[g]
           w == wire[c][1]
           v == wire[c][0]
<1>2. /\ c \in Channels /\ c # None /\ c[1] = g /\ c = <<g, old.opens>>
      /\ Listens(c, 1)
      /\ g \in Rooms /\ g # Host /\ Seat(g) = 1 /\ Host \in Rooms /\ Seat(Host) = 0
      /\ Playable(g) /\ GuestReadiness(g)
      /\ GuestWire(c) /\ HostWire(c) /\ Knows(c) /\ History(c)
  BY <1>1, <1>c, GuestHas
<1>3. /\ rm \in DuelRooms /\ rm.peer = old.peer /\ rm.conn = old.conn /\ rm.offer = TRUE
      /\ rm.localReady = old.localReady /\ rm.started = old.started /\ rm.busy = old.busy
      /\ rm.record = old.record /\ rm.opens = old.opens
  BY HeardIs
<1>4. Receive(g, type, rm)
  BY <1>1 DEF HearsOf
<1> HIDE DEF rm
<1>5. /\ end[c][1] = "open"
      /\ w # <<>> /\ w \in Seq(Messages)
      /\ w[1].type = type /\ w[1] \in On(w)
      /\ \A q \in Rooms : q # g => room'[q] = room[q]
      /\ Face(now, rm)
      /\ now.busy => rm.busy \/ rm.started
      /\ \A d \in Channels : d # c => wire'[d] = wire[d]
      /\ wire'[c][1] = Tail(w)
      /\ wire'[c][0] = v
      /\ UNCHANGED <<invitation, end, flow, asked, consents>>
  <2>0. rm.started => rm.record # None
    BY <1>1, <1>3
  <2> QED
    BY <1>3, <1>4, <1>c, <2>0, GuestReceives
<1>6. /\ now.peer /\ now.conn = c /\ now.offer
      /\ now.localReady = old.localReady /\ now.started = FALSE
      /\ now.busy = FALSE /\ now.record = None /\ now.opens = old.opens
  <2>1. now.busy \in BOOLEAN /\ old.started \in BOOLEAN
    <3>1. DuelTypeOK'
      BY HearsTyped
    <3> QED
      BY <1>2, <3>1, RoomIs DEF DuelTypeOK, DuelRooms
  <2> QED
    BY <1>1, <1>3, <1>5, <1>c, <2>1 DEF Face
<1>7. /\ Listens(c, 0)' = Listens(c, 0) /\ Listens(c, 1)' /\ (Agreed(c)' <=> Agreed(c))
      /\ room'[Host] = room[Host] /\ end' = end /\ consents' = consents
      /\ invitation' = invitation
  BY <1>2, <1>5 DEF Listens, Agreed
<1>8. Playable(g)'
  BY <1>1, <1>2, <1>6, <1>7 DEF Playable
<1>9. GuestReadiness(g)'
  <2>1. end[c][0] \in {"open", "closed", "gone"}
    BY <1>2, <1>5, WireIs DEF GuestWire, EndStates
  <2> QED
    BY <1>5, <1>6, <1>7, <2>1 DEF GuestReadiness
<1>10. /\ Tail(w) \in Seq(Messages) /\ On(Tail(w)) \subseteq On(w)
       /\ Tail(w) # <<>> => Last(Tail(w)) = Last(w)
       /\ Tail(w) = <<>> => Last(w) = w[1]
  <2> HIDE DEF w
  <2> QED
    BY <1>5, OnTail
<1>11. GuestWire(c)'
  <2>1. \A m \in On(w) : NextAtGuest(w[1], m) => FirstAtGuest(now, m)
    BY <1>5, <1>6 DEF NextAtGuest, FirstAtGuest
  <2>2. ToGuest(old, w)
    BY <1>2 DEF GuestWire
  <2>3. ToGuest(now, Tail(w))
    <3> HIDE DEF w, now, old
    <3> QED
      BY <1>5, <2>1, <2>2, GuestTail
  <2>4. \A m \in On(Tail(w)) :
              /\ m.type = "start" =>
                     /\ now.localReady
                     /\ m.record = [id |-> c, events |-> <<>>]
                     /\ Agreed(c)'
              /\ Carries(m) => m.record.id = c
              /\ Listens(c, 0)' => m.type # "stop"
    BY <1>2, <1>6, <1>7, <1>10 DEF GuestWire
  <2>5. end'[c][0] \notin {"none", "opening"}
    BY <1>2, <1>5, <1>7 DEF GuestWire
  <2> HIDE DEF w
  <2> QED
    BY <1>2, <1>5, <1>7, <2>3, <2>4, <2>5 DEF GuestWire
<1>12. HostWire(c)'
  BY <1>2, <1>5, <1>7 DEF HostWire
<1>13. ~Holds(g, c) /\ ~Holds(g, c)' /\ ~now.started
  BY <1>1, <1>6 DEF Holds
<1>14. Knows(c)'
  <2>1. Listens(c, 0) /\ ~room[Host].started => \A m \in On(Tail(w)) : ~Carries(m)
    BY <1>2, <1>10 DEF Knows
  <2> HIDE DEF w
  <2> QED
    BY <1>1, <1>2, <1>5, <1>6, <1>7, <1>13, <2>1 DEF Knows
<1>15. History(c)'
  <2>1. (Holds(Host, c)' <=> Holds(Host, c)) /\ Events(Host)' = Events(Host)
    BY <1>7 DEF Holds, Events
  <2>2. ~Carries(w[1])
    BY <1>5 DEF Carries
  <2>3. Listens(c, 0) /\ room[Host].started =>
            Tail(w) # <<>> /\ Carries(Last(Tail(w))) /\ Last(Tail(w)).record.events = Events(Host)
    BY <1>2, <1>5, <1>10, <2>2 DEF History
  <2>4. Holds(Host, c) => \A m \in On(Tail(w)) :
              Carries(m) => Within(m.record.events, Events(Host), 0)
    BY <1>2, <1>10 DEF History
  <2> HIDE DEF w
  <2> QED
    BY <1>2, <1>5, <1>7, <1>13, <2>1, <2>3, <2>4 DEF History
<1>16. /\ now.peer = old.peer
       /\ now.started = old.started /\ now.record = old.record
  BY <1>1, <1>6, RoomIs, <1>2
<1>17. invitation' = invitation /\ end' = end /\ consents \subseteq consents'
  BY <1>7
<1> QED
  BY <1>c, <1>1, <1>5, <1>6, <1>8, <1>9, <1>11, <1>12, <1>14, <1>15, <1>16, <1>17, GuestActs

-----------------------------------------------------------------------------
(* A guest takes the setup or a move of the host.                          *)

\* A guest takes over the record of a start or of a move.
Taken(g) == [room[g] EXCEPT !.record = Message(g).record,
                            !.started = TRUE, !.remoteReady = TRUE]

\* It is of its channel, and for a move, goes on from its own.
Takes(g, type, c) ==
    LET m == wire[c][1][1]
        old == room[g]
    IN /\ Receive(g, type, Taken(g)) /\ type \in {"start", "move"}
       /\ c = old.conn /\ c \in Channels
       /\ wire[c][1] # <<>> /\ Message(g) = m
       /\ m \in Messages /\ m \in On(wire[c][1]) /\ m.type = type
       /\ Carries(m) /\ m.record \in Records /\ m.record.id = c
       /\ Len(m.record.events) <= moveLimit /\ Agreed(c)
       /\ old.peer /\ old.localReady /\ old.offer
       /\ type = "start" => ~old.started /\ ~old.busy
       /\ type = "move" => /\ old.started /\ Holds(g, c) /\ old.record \in Records
                           /\ acceptDuelMove(old.record, m.record, 0)

\* Both messages are of this kind.
LEMMA TakesIs ==
    ASSUME DuelTypeOK, Duels, NEW g \in Guests, receiveStart(g) \/ receiveMove(g),
           NEW c, c = room[g].conn
    PROVE  \E type : Takes(g, type, c)
<1> DEFINE m == wire[c][1][1]
           old == room[g]
<1>0. g \in Rooms /\ Seat(g) = 1 /\ g # Host /\ Playable(g) /\ GuestReadiness(g)
  BY SeatIs, DuelsAre DEF Flags
<1>1. ASSUME NEW type, Arriving(g, type), type \in {"start", "move"}
      PROVE  /\ Message(g) = m
             /\ m \in Messages /\ m.type = type
             /\ Expects(g, m) /\ old.peer
             /\ c \in Channels /\ Listens(c, 1)
             /\ wire[c][1] # <<>> /\ m \in On(wire[c][1])
             /\ Carries(m) /\ m.record \in Records /\ m.record.id = c
  <2>1. PICK s : s = Seat(g) /\ s = 1
    BY <1>0
  <2>2. /\ c \in Channels /\ c # None
        /\ wire[c][s] # <<>>
        /\ Message(g) = wire[c][s][1]
        /\ Message(g) \in Messages /\ Message(g) \in On(wire[c][s])
        /\ Message(g).type = type /\ Expects(g, Message(g))
    BY <1>0, <1>1, <2>1, ArrivingIs
  <2>3. old.peer
    BY <2>2, GuestTakes
  <2>4. GuestWire(c) /\ Listens(c, 1)
    BY <2>3, GuestHas
  <2>5. Carries(m)
    BY <1>1, <2>1, <2>2 DEF Carries
  <2>6. m.record \in Records /\ m.record.id = c
    BY <2>1, <2>2, <2>4, <2>5, MessageIs DEF GuestWire
  <2> QED
    BY <1>1, <2>1, <2>2, <2>3, <2>4, <2>5, <2>6
<1>2. CASE receiveStart(g)
  <2>1. Arriving(g, "start") /\ Receive(g, "start", Taken(g))
    BY <1>2 DEF receiveStart, Receive, Taken
  <2>2. /\ Message(g) = m
        /\ m \in Messages /\ m.type = "start"
        /\ Expects(g, m) /\ old.peer
        /\ c \in Channels /\ Listens(c, 1)
        /\ wire[c][1] # <<>> /\ m \in On(wire[c][1])
        /\ Carries(m) /\ m.record \in Records /\ m.record.id = c
    BY <1>1, <2>1
  <2>3. GuestWire(c)
    BY <2>2, GuestHas
  <2>4. m.record.events = <<>> /\ Agreed(c)
    <3>1. m.record = [id |-> c, events |-> <<>>] /\ Agreed(c)
      BY <2>2, <2>3 DEF GuestWire
    <3> HIDE DEF m
    <3> QED
      BY <3>1
  <2>5. Len(m.record.events) <= moveLimit
    BY <2>4, Apart
  <2>6. old.localReady /\ ~old.started
    BY <2>2 DEF Expects
  <2>7. ~old.busy /\ old.offer
    BY <1>0, <2>6 DEF Playable, GuestReadiness
  <2>8. Takes(g, "start", c)
    BY <2>1, <2>2, <2>4, <2>5, <2>6, <2>7 DEF Takes
  <2> QED
    BY <2>8
<1>3. CASE receiveMove(g)
  <2>1. Arriving(g, "move") /\ Receive(g, "move", [old EXCEPT !.record = Message(g).record])
    BY <1>3 DEF receiveMove, Receive
  <2>2. /\ Message(g) = m
        /\ m \in Messages /\ m.type = "move"
        /\ Expects(g, m) /\ old.peer
        /\ c \in Channels /\ Listens(c, 1)
        /\ wire[c][1] # <<>> /\ m \in On(wire[c][1])
        /\ Carries(m) /\ m.record \in Records /\ m.record.id = c
    BY <1>1, <2>1
  <2>3. old.started /\ acceptDuelMove(old.record, m.record, 0)
    <3>1. old.started /\ acceptDuelMove(old.record, m.record, 1 - Seat(g))
      BY <2>2 DEF Expects
    <3>2. 1 - Seat(g) = 0
      BY <1>0, SMTT(40)
    <3> QED
      BY <3>1, <3>2
  <2>4. /\ old.localReady /\ old.remoteReady /\ old.record \in Records
        /\ old.record.id = c /\ Agreed(c)
    BY <1>0, <2>2, <2>3, RoomIs DEF Playable
  <2>5. old.offer /\ Holds(g, c)
    BY <1>0, <2>3, <2>4 DEF GuestReadiness, Holds
  <2>6. Len(m.record.events) <= moveLimit
    <3> HIDE DEF m, old
    <3> QED
      BY <2>2, <2>3, <2>4, Accepted
  <2>7. [old EXCEPT !.record = Message(g).record] = Taken(g)
    <3>1. old \in DuelRooms /\ old.started = TRUE /\ old.remoteReady = TRUE
      BY <1>0, <2>3, <2>4, RoomIs
    <3>2. Taken(g) = [old EXCEPT !.record = Message(g).record,
                                 !.started = TRUE, !.remoteReady = TRUE]
      BY DEF Taken
    <3>3. PICK e : e = Message(g).record
      OBVIOUS
    <3>4. [old EXCEPT !.record = e]
            = [old EXCEPT !.record = e, !.started = TRUE, !.remoteReady = TRUE]
      <4> HIDE DEF old
      <4> QED
        BY <3>1 DEF DuelRooms
    <3> QED
      BY <3>2, <3>3, <3>4
  <2>8. Takes(g, "move", c)
    BY <2>1, <2>2, <2>3, <2>4, <2>5, <2>6, <2>7 DEF Takes
  <2> QED
    BY <2>8
<1> QED
  BY <1>2, <1>3

\* The room of a guest that took one.
LEMMA TakenIs ==
    ASSUME DuelTypeOK, NEW g \in Guests, Message(g).record \in Records
    PROVE  LET old == room[g]
               rm == Taken(g)
           IN /\ rm \in DuelRooms
              /\ rm.peer = old.peer /\ rm.conn = old.conn /\ rm.offer = old.offer
              /\ rm.localReady = old.localReady /\ rm.remoteReady = TRUE
              /\ rm.started = TRUE /\ rm.busy = old.busy
              /\ rm.record = Message(g).record /\ rm.record # None /\ rm.opens = old.opens
              /\ rm.generation = old.generation
<1>1. room[g] \in DuelRooms
  BY SeatIs, RoomIs
<1>2. Message(g).record # None
  BY RecordIs
<1> DEFINE e == Message(g).record
           old == room[g]
<1>3. Taken(g) = [old EXCEPT !.record = e, !.started = TRUE, !.remoteReady = TRUE]
  BY DEF Taken
<1> HIDE DEF e, old
<1>4. Taken(g) \in DuelRooms
  BY <1>1, <1>3 DEF DuelRooms, e, old
<1> QED
  BY <1>1, <1>2, <1>3, <1>4 DEF DuelRooms, e, old

\* It keeps the types,
LEMMA TakesTyped ==
    ASSUME DuelTypeOK, Duels, NEW g \in Guests, receiveStart(g) \/ receiveMove(g)
    PROVE  DuelTypeOK'
<1>c. PICK c : c = room[g].conn
  OBVIOUS
<1>1. PICK type : Takes(g, type, c)
  BY <1>c, TakesIs
<1>2. Receive(g, type, Taken(g)) /\ Message(g).record \in Records /\ g \in Rooms
  BY <1>1, SeatIs DEF Takes
<1>3. Taken(g) \in DuelRooms /\ Taken(g).record # None
  BY <1>2, TakenIs
<1> QED
  BY <1>2, <1>3, ReceiveTyped

\* While a message of the host with a record waits at a guest that listens,
\* nothing is on the way to the host.
LEMMA NothingBack ==
    ASSUME DuelTypeOK, Duels, NEW g \in Guests, NEW c, NEW type, Takes(g, type, c)
    PROVE  wire[c][0] = <<>>
<1> DEFINE v == wire[c][0]
           m == wire[c][1][1]
           old == room[g]
<1>1. /\ c = old.conn /\ old.peer /\ m \in On(wire[c][1]) /\ Carries(m)
      /\ c \in Channels /\ m.record \in Records
      /\ type \in {"start", "move"}
      /\ type = "start" => ~old.started
      /\ type = "move" => /\ old.started /\ Holds(g, c) /\ old.record \in Records
                          /\ acceptDuelMove(old.record, m.record, 0)
  BY DEF Takes
<1>2. /\ c[1] = g /\ Listens(c, 1)
      /\ HostWire(c) /\ Knows(c) /\ History(c)
  BY <1>1, GuestHas
<1>3. SUFFICES ASSUME v # <<>> PROVE FALSE
  OBVIOUS
<1>4. Listens(c, 0) /\ ToHost(room[Host], v) /\ v \in Seq(Messages)
  BY <1>1, <1>2, <1>3, WireIs DEF HostWire
<1>5. room[Host].started
  BY <1>1, <1>2, <1>4 DEF Knows
<1>6. v[1] \in On(v)
  <2> HIDE DEF v
  <2> QED
    BY <1>3, <1>4, OnTyped
<1>7. v[1].type = "move" /\ acceptDuelMove(room[Host].record, v[1].record, 1) /\ Carries(v[1])
  <2>1. FirstAtHost(room[Host], v[1]) /\ v[1].type # "stop"
    BY <1>2, <1>3, <1>4, <1>6 DEF ToHost, HostWire
  <2> QED
    BY <1>5, <2>1 DEF FirstAtHost, Carries
<1>8. old.started
  BY <1>2, <1>6, <1>7 DEF Knows
<1>9. Len(m.record.events) = Len(Events(g)) + 1
  BY <1>1, <1>8 DEF acceptDuelMove, Events
<1>10. Len(v[1].record.events) = Len(Events(Host)) + 1
  BY <1>7, SMTT(40) DEF acceptDuelMove, Events
<1>11. Within(v[1].record.events, Events(g), 1)
  BY <1>1, <1>2, <1>6, <1>7, <1>8 DEF History
<1>12. Within(m.record.events, Events(Host), 0)
  <2>1. Holds(Host, c)
    BY <1>1, <1>4, <1>5, HostConn
  <2> QED
    BY <1>1, <1>2, <2>1 DEF History
<1>13. /\ Len(v[1].record.events) <= Len(Events(g)) /\ Len(m.record.events) <= Len(Events(Host))
       /\ Len(Events(g)) \in Nat /\ Len(Events(Host)) \in Nat
  <2>1. Len(v[1].record.events) <= Len(Events(g)) /\ Len(m.record.events) <= Len(Events(Host))
    BY <1>11, <1>12 DEF Within
  <2>2. room[g].record \in Records /\ room[Host].record \in Records
    BY <1>1, <1>5, <1>8, SeatIs, RoomIs, DuelsAre DEF Flags, Playable
  <2>3. Events(g) \in Seq(Decisions) /\ Events(Host) \in Seq(Decisions)
    BY <2>2 DEF Records, Events
  <2> QED
    BY <2>1, <2>3
<1> HIDE DEF v, m
<1> QED
  BY <1>9, <1>10, <1>13

\* and the duels: the record goes on from that of the guest.
LEMMA TakesDuels ==
    ASSUME DuelTypeOK, Duels, NEW g \in Guests, receiveStart(g) \/ receiveMove(g)
    PROVE  Duels'
<1>c. PICK c : c = room[g].conn
  OBVIOUS
<1>t. PICK type : Takes(g, type, c)
  BY <1>c, TakesIs
<1> DEFINE rm == Taken(g)
           old == room[g]
           now == room'[g]
           w == wire[c][1]
           v == wire[c][0]
           m == w[1]
<1>1. /\ Receive(g, type, rm) /\ type \in {"start", "move"}
      /\ c \in Channels
      /\ w # <<>> /\ Message(g) = m
      /\ m \in Messages /\ m \in On(w) /\ m.type = type
      /\ Carries(m) /\ m.record \in Records /\ m.record.id = c
      /\ Len(m.record.events) <= moveLimit /\ Agreed(c)
      /\ old.peer /\ old.localReady /\ old.offer
  BY <1>t DEF Takes
<1>2. /\ c[1] = g /\ c # None /\ c = <<g, old.opens>>
      /\ Listens(c, 1)
      /\ g \in Rooms /\ g # Host /\ Seat(g) = 1 /\ Host \in Rooms /\ Seat(Host) = 0
      /\ Playable(g) /\ GuestReadiness(g)
      /\ GuestWire(c) /\ HostWire(c) /\ Knows(c) /\ History(c)
  BY <1>1, <1>c, GuestHas
<1>3. /\ rm \in DuelRooms /\ rm.peer = old.peer /\ rm.conn = old.conn /\ rm.offer = old.offer
      /\ rm.localReady = old.localReady /\ rm.remoteReady = TRUE /\ rm.started = TRUE
      /\ rm.record = m.record /\ rm.record # None /\ rm.opens = old.opens
  BY <1>1, TakenIs
<1> HIDE DEF rm, m
<1>4. v = <<>>
  BY <1>t, NothingBack
<1>5. /\ end[c][1] = "open"
      /\ w # <<>> /\ w \in Seq(Messages)
      /\ \A q \in Rooms : q # g => room'[q] = room[q]
      /\ Face(now, rm)
      /\ \A d \in Channels : d # c => wire'[d] = wire[d]
      /\ wire'[c][1] = Tail(w)
      /\ wire'[c][0] = v
      /\ UNCHANGED <<invitation, end, flow, asked, consents>>
  BY <1>1, <1>3, <1>c, GuestReceives
<1>6. /\ now.peer /\ now.conn = c /\ now.offer
      /\ now.localReady /\ now.remoteReady /\ now.started
      /\ now.record = m.record /\ now.record # None /\ now.opens = old.opens
  BY <1>1, <1>3, <1>5, <1>c DEF Face
<1>7. /\ Listens(c, 0)' = Listens(c, 0) /\ Listens(c, 1)' /\ (Agreed(c)' <=> Agreed(c))
      /\ room'[Host] = room[Host] /\ end' = end /\ consents' = consents
      /\ invitation' = invitation
  BY <1>2, <1>5 DEF Listens, Agreed
<1>8. Playable(g)'
  <2>1. At(c, 1) = g
    BY <1>1, <1>2, ChannelShape
  <2>2. <<g, now.opens>> \in consents'
    BY <1>1, <1>2, <1>6, <1>7 DEF Playable
  <2>3. Agreed(c)'
    BY <1>1, <1>7
  <2> HIDE DEF now
  <2> QED
    BY <1>1, <1>2, <1>5, <1>6, <1>7, <2>1, <2>2, <2>3, SMTT(40) DEF Playable, now
<1>9. GuestReadiness(g)'
  <2>1. end[c][0] \in {"open", "closed", "gone"}
    BY <1>1, <1>2, <1>5, WireIs DEF GuestWire, EndStates
  <2> QED
    BY <1>5, <1>6, <1>7, <2>1 DEF GuestReadiness
<1>10. /\ Tail(w) \in Seq(Messages) /\ On(Tail(w)) \subseteq On(w)
       /\ Tail(w) # <<>> => Last(Tail(w)) = Last(w)
       /\ Tail(w) = <<>> => Last(w) = m
  <2> HIDE DEF w
  <2> QED
    BY <1>5, OnTail DEF m
<1>11. GuestWire(c)'
  <2>1. \A x \in On(w) : NextAtGuest(m, x) => FirstAtGuest(now, x)
    BY <1>1, <1>6 DEF NextAtGuest, FirstAtGuest
  <2>2. ToGuest(old, w)
    BY <1>2 DEF GuestWire
  <2>3. ToGuest(now, Tail(w))
    <3>1. \A x \in On(w) : NextAtGuest(w[1], x) => FirstAtGuest(now, x)
      BY <2>1 DEF m
    <3> HIDE DEF w, now, old
    <3> QED
      BY <1>5, <2>2, <3>1, GuestTail
  <2>4. \A x \in On(Tail(w)) :
              /\ x.type = "start" =>
                     /\ now.localReady
                     /\ x.record = [id |-> c, events |-> <<>>]
                     /\ Agreed(c)'
              /\ Carries(x) => x.record.id = c
              /\ Listens(c, 0)' => x.type # "stop"
    BY <1>2, <1>6, <1>7, <1>10 DEF GuestWire
  <2>5. end'[c][0] \notin {"none", "opening"}
    BY <1>2, <1>5, <1>7 DEF GuestWire
  <2> HIDE DEF w
  <2> QED
    BY <1>2, <1>5, <1>7, <2>3, <2>4, <2>5 DEF GuestWire
<1>12. HostWire(c)'
  BY <1>2, <1>5, <1>7 DEF HostWire
<1>13. Listens(c, 0) => room[Host].started /\ Holds(Host, c)
  BY <1>1, <1>2, HostConn DEF Knows
<1>14. Holds(g, c)' /\ Events(g)' = m.record.events
  BY <1>1, <1>6 DEF Holds, Events
<1>15. (Holds(Host, c)' <=> Holds(Host, c)) /\ Events(Host)' = Events(Host)
  BY <1>7 DEF Holds, Events
<1>16. Knows(c)'
  <2>1. On(v) = {}
    BY <1>4, NothingOn
  <2> HIDE DEF w, v, now
  <2>2. Listens(c, 0)' => room'[Host].started
    BY <1>7, <1>13
  <2> QED
    BY <1>2, <1>5, <1>6, <2>1, <2>2 DEF Knows, v, now
<1>17. History(c)'
  <2>1. Holds(Host, c) => Within(m.record.events, Events(Host), 0)
    BY <1>1, <1>2 DEF History
  <2>2. Holds(Host, c) => \A x \in On(Tail(w)) :
              Carries(x) => Within(x.record.events, Events(Host), 0)
    BY <1>2, <1>10 DEF History
  <2>3. On(v) = {}
    BY <1>4, NothingOn
  <2>4. Listens(c, 0) => Carries(Last(w)) /\ Last(w).record.events = Events(Host)
    BY <1>2, <1>5, <1>13 DEF History
  <2>5. Holds(Host, c) => /\ Len(Events(Host)) \in Nat /\ Len(m.record.events) \in Nat
                          /\ Len(m.record.events) <= Len(Events(Host))
    <3>1. Holds(Host, c) => room[Host].record \in Records
      BY <1>2, RoomIs DEF Holds, Playable, Flags, Duels
    <3>2. Holds(Host, c) => Events(Host) \in Seq(Decisions) /\ m.record.events \in Seq(Decisions)
      BY <1>1, <3>1 DEF Events, Records
    <3> QED
      BY <2>1, <3>2 DEF Within
  <2>6. Listens(c, 0) =>
            IF Tail(w) = <<>>
            THEN room'[g].started /\ Len(Events(g)') >= Len(Events(Host)')
            ELSE Carries(Last(Tail(w))) /\ Last(Tail(w)).record.events = Events(Host)'
    <3>1. CASE Tail(w) = <<>>
      <4>1. Listens(c, 0) => Len(m.record.events) = Len(Events(Host))
        BY <1>10, <2>4, <3>1
      <4> QED
        BY <1>6, <1>13, <1>14, <1>15, <2>5, <3>1, <4>1
    <3>2. CASE Tail(w) # <<>>
      BY <1>10, <1>15, <2>4, <3>2
    <3> QED
      BY <3>1, <3>2
  <2>7. Listens(c, 0) => room'[Host].started /\ Len(Events(Host)') >= Len(Events(g)')
    BY <1>7, <1>13, <1>14, <1>15, <2>5
  <2> HIDE DEF w, v
  <2>8. /\ Holds(Host, c)' /\ Holds(g, c)' =>
              Within(Events(g)', Events(Host)', 0) \/ Within(Events(Host)', Events(g)', 1)
        /\ Holds(Host, c)' => \A x \in On(Tail(w)) :
              Carries(x) => Within(x.record.events, Events(Host)', 0)
    BY <1>14, <1>15, <2>1, <2>2
  <2> QED
    BY <1>2, <1>4, <1>5, <1>7, <2>3, <2>6, <2>7, <2>8 DEF History, v
<1>18. /\ now.peer = old.peer
       /\ now.record.id = c
  BY <1>1, <1>3, <1>5, <1>6 DEF Face
<1>19. invitation' = invitation /\ end' = end /\ consents \subseteq consents'
  BY <1>7
<1>20. GuestWire(c)' /\ HostWire(c)' /\ Knows(c)' /\ History(c)'
  BY <1>11, <1>12, <1>16, <1>17
<1> QED
  BY <1>c, <1>1, <1>5, <1>6, <1>8, <1>9, <1>18, <1>19, <1>20, GuestActs

-----------------------------------------------------------------------------
(* The host takes a move of the guest.                                     *)

\* A host that acts keeps the duels if it keeps what is known of its channel.
LEMMA HostActs ==
    ASSUME DuelTypeOK, Duels, NEW c, c = room[Host].conn, c # None,
           \A q \in Rooms : q # Host => room'[q] = room[q],
           room'[Host].peer = room[Host].peer, room'[Host].conn = c,
           room'[Host].opens = room[Host].opens,
           invitation' = invitation, end' = end, consents \subseteq consents',
           \A d \in Channels : d # c => wire'[d] = wire[d],
           \/ room'[Host].started = room[Host].started /\ room'[Host].record = room[Host].record
           \/ room'[Host].record.id = c,
           Playable(Host)', HostReadiness',
           GuestWire(c)' /\ HostWire(c)' /\ Knows(c)' /\ History(c)'
    PROVE  Duels'
<1>1. Host \in Rooms
  BY SeatIs
<1>2. c \in Channels => ChannelInv(c)'
  BY DEF ChannelInv
<1>3. \A h \in Guests : h = Host => GuestReadiness(h)'
  BY Apart
<1>4. Host = Host => HostReadiness'
  OBVIOUS
<1>5. UNCHANGED <<invitation, end>>
  OBVIOUS
<1>6. \/ room'[Host].started = room[Host].started /\ room'[Host].record = room[Host].record
      \/ c # None /\ room'[Host].record.id = c
  OBVIOUS
<1> QED
  BY <1>1, <1>2, <1>3, <1>4, <1>5, <1>6, Acts

\* A host that is connected.
LEMMA HostHas ==
    ASSUME DuelTypeOK, Duels, NEW c \in Channels, c = room[Host].conn
    PROVE  /\ c # None /\ At(c, 0) = Host /\ Listens(c, 0) /\ room[Host].peer
           /\ c[1] \in Guests /\ c[1] \in Rooms /\ c[1] # Host /\ Host \in Rooms
           /\ Seat(Host) = 0 /\ Seat(c[1]) = 1
           /\ Playable(Host) /\ HostReadiness
           /\ Playable(c[1]) /\ GuestReadiness(c[1])
           /\ GuestWire(c) /\ HostWire(c) /\ Knows(c) /\ History(c)
<1>1. Ends /\ Flags
  BY DuelsAre
<1>2. /\ c # None /\ At(c, 0) = Host
      /\ c[1] \in Guests /\ c[1] \in Rooms /\ c[1] # Host /\ Host \in Rooms
      /\ Seat(Host) = 0 /\ Seat(c[1]) = 1
  BY ChannelShape, SeatIs
<1>3. Listens(c, 0) /\ room[Host].peer
  BY <1>1, <1>2 DEF Ends
<1> QED
  BY <1>1, <1>2, <1>3, DuelsAre DEF Flags, ChannelInv

\* The room of a host that takes a move,
Moved == [room[Host] EXCEPT !.record = Message(Host).record]

\* as it is after it.
LEMMA MovedIs ==
    ASSUME DuelTypeOK, Message(Host).record \in Records
    PROVE  LET old == room[Host]
               rm == Moved
           IN /\ rm \in DuelRooms
              /\ rm.peer = old.peer /\ rm.conn = old.conn /\ rm.offer = old.offer
              /\ rm.localReady = old.localReady /\ rm.remoteReady = old.remoteReady
              /\ rm.started = old.started /\ rm.busy = old.busy
              /\ rm.record = Message(Host).record /\ rm.record # None /\ rm.opens = old.opens
              /\ rm.generation = old.generation
<1>1. room[Host] \in DuelRooms
  BY SeatIs, RoomIs
<1>2. Message(Host).record # None
  BY RecordIs
<1> DEFINE e == Message(Host).record
           old == room[Host]
<1>3. Moved = [old EXCEPT !.record = e]
  BY DEF Moved
<1> HIDE DEF e, old
<1>4. Moved \in DuelRooms
  BY <1>1, <1>3, SMTT(40) DEF DuelRooms, e, old
<1> QED
  BY <1>1, <1>2, <1>3, <1>4 DEF DuelRooms, e, old

\* The move is of its channel, and goes on from its record.
MovesAtHost(c) ==
    LET m == wire[c][0][1]
        old == room[Host]
    IN /\ Receive(Host, "move", Moved)
       /\ c = old.conn /\ c \in Channels
       /\ wire[c][0] # <<>> /\ Message(Host) = m
       /\ m \in Messages /\ m \in On(wire[c][0]) /\ m.type = "move"
       /\ Carries(m) /\ m.record \in Records /\ m.record.id = c
       /\ Len(m.record.events) <= moveLimit
       /\ old.peer /\ old.started /\ Holds(Host, c) /\ old.record \in Records
       /\ acceptDuelMove(old.record, m.record, 1)

\* Every move that arrives is of this kind.
LEMMA MovesAtHostIs ==
    ASSUME DuelTypeOK, Duels, receiveMove(Host), NEW c, c = room[Host].conn
    PROVE  MovesAtHost(c)
<1> DEFINE m == wire[c][0][1]
           old == room[Host]
<1>0. Host \in Rooms /\ Seat(Host) = 0
  BY SeatIs
<1>1. Arriving(Host, "move") /\ Receive(Host, "move", Moved)
  BY DEF receiveMove, Receive, Moved
<1>2. PICK s : s = Seat(Host) /\ s = 0
  BY <1>0
<1>3. /\ c \in Channels /\ c # None
      /\ wire[c][s] # <<>>
      /\ Message(Host) = wire[c][s][1]
      /\ Message(Host) \in Messages /\ Message(Host) \in On(wire[c][s])
      /\ Message(Host).type = "move" /\ Expects(Host, Message(Host))
  BY <1>0, <1>1, <1>2, ArrivingIs
<1>4. /\ old.peer /\ Playable(Host) /\ HostWire(c) /\ Listens(c, 0)
  BY <1>3, HostHas
<1>5. Carries(m)
  BY <1>2, <1>3 DEF Carries
<1>6. m.record \in Records /\ m.record.id = c
  BY <1>2, <1>3, <1>4, <1>5, MessageIs DEF HostWire
<1>7. old.started /\ acceptDuelMove(old.record, m.record, 1)
  <2>1. old.started /\ acceptDuelMove(old.record, Message(Host).record, 1 - Seat(Host))
    BY <1>3 DEF Expects
  <2>2. 1 - Seat(Host) = 1
    BY <1>0
  <2> QED
    BY <1>2, <1>3, <2>1, <2>2
<1>8. Holds(Host, c) /\ old.record \in Records
  BY <1>0, <1>3, <1>4, <1>7, HostConn, RoomIs DEF Playable
<1>9. Len(m.record.events) <= moveLimit
  <2> HIDE DEF m, old
  <2> QED
    BY <1>6, <1>7, <1>8, Accepted
<1> QED
  BY <1>1, <1>2, <1>3, <1>4, <1>5, <1>6, <1>7, <1>8, <1>9 DEF MovesAtHost

\* It keeps the types,
LEMMA MovesTyped ==
    ASSUME DuelTypeOK, Duels, receiveMove(Host)
    PROVE  DuelTypeOK'
<1>c. PICK c : c = room[Host].conn
  OBVIOUS
<1>1. MovesAtHost(c)
  BY <1>c, MovesAtHostIs
<1>2. Receive(Host, "move", Moved) /\ Message(Host).record \in Records /\ Host \in Rooms
  BY <1>1, SeatIs DEF MovesAtHost
<1>3. Moved \in DuelRooms /\ Moved.record # None
  BY <1>2, MovedIs
<1> QED
  BY <1>2, <1>3, ReceiveTyped

\* While a move of the guest waits at the host, nothing is on the way back.
LEMMA NothingForth ==
    ASSUME DuelTypeOK, Duels, NEW c, MovesAtHost(c)
    PROVE  /\ wire[c][1] = <<>>
           /\ Listens(c, 1) => room[c[1]].started /\ Holds(c[1], c)
<1> DEFINE w == wire[c][1]
           g == c[1]
           m == wire[c][0][1]
           old == room[Host]
<1>1. /\ c = old.conn /\ old.peer /\ m \in On(wire[c][0]) /\ Carries(m)
      /\ c \in Channels /\ m.record \in Records
      /\ old.started /\ Holds(Host, c) /\ old.record \in Records
      /\ acceptDuelMove(old.record, m.record, 1)
  BY DEF MovesAtHost
<1>2. /\ g \in Guests /\ g \in Rooms /\ Playable(g) /\ GuestReadiness(g)
      /\ Listens(c, 0) /\ GuestWire(c) /\ Knows(c) /\ History(c)
  BY <1>1, HostHas
<1>3. Listens(c, 1) => room[g].started /\ Holds(g, c) /\ room[g].peer
  BY <1>1, <1>2, GuestConn DEF Knows
<1>4. ASSUME w # <<>> PROVE FALSE
  <2>1. Listens(c, 1) /\ ToGuest(room[g], w) /\ w \in Seq(Messages)
    BY <1>1, <1>2, <1>4, WireIs DEF GuestWire
  <2>2. w[1] \in On(w)
    <3> HIDE DEF w
    <3> QED
      BY <1>4, <2>1, OnTyped
  <2>3. room[g].offer /\ room[g].started /\ Holds(g, c)
    BY <1>2, <1>3, <2>1 DEF Playable, GuestReadiness
  <2>4. w[1].type = "move" /\ acceptDuelMove(room[g].record, w[1].record, 0) /\ Carries(w[1])
    <3>1. FirstAtGuest(room[g], w[1]) /\ w[1].type # "stop"
      BY <1>2, <1>4, <2>1, <2>2 DEF ToGuest, GuestWire
    <3> QED
      BY <2>3, <3>1 DEF FirstAtGuest, Carries
  <2>5. Len(w[1].record.events) = Len(Events(g)) + 1
    BY <2>4 DEF acceptDuelMove, Events
  <2>6. Len(m.record.events) = Len(Events(Host)) + 1
    BY <1>1 DEF acceptDuelMove, Events
  <2>7. Within(m.record.events, Events(g), 1) /\ Within(w[1].record.events, Events(Host), 0)
    <3>1. \A x \in On(wire[c][0]) : Carries(x) => Within(x.record.events, Events(g), 1)
      BY <1>2, <2>3 DEF History
    <3>2. \A x \in On(w) : Carries(x) => Within(x.record.events, Events(Host), 0)
      BY <1>1, <1>2 DEF History
    <3>3. Carries(w[1]) /\ w[1] \in On(w)
      BY <2>2, <2>4
    <3> HIDE DEF w, m, g
    <3>4. Within(m.record.events, Events(g), 1)
      BY <1>1, <3>1
    <3>5. Within(w[1].record.events, Events(Host), 0)
      BY <3>2, <3>3
    <3> QED
      BY <3>4, <3>5
  <2>8. /\ Len(m.record.events) <= Len(Events(g)) /\ Len(w[1].record.events) <= Len(Events(Host))
        /\ Len(Events(g)) \in Nat /\ Len(Events(Host)) \in Nat
    <3>1. Len(m.record.events) <= Len(Events(g)) /\ Len(w[1].record.events) <= Len(Events(Host))
      BY <2>7 DEF Within
    <3>2. room[g].record \in Records
      BY <1>2, <2>3, RoomIs DEF Playable
    <3>3. Events(g) \in Seq(Decisions) /\ Events(Host) \in Seq(Decisions)
      BY <1>1, <3>2 DEF Records, Events
    <3> QED
      BY <3>1, <3>3
  <2> HIDE DEF w, m
  <2> QED
    BY <2>5, <2>6, <2>8
<1> QED
  BY <1>3, <1>4

\* and the duels: the record goes on from that of the host.
LEMMA MovesDuels ==
    ASSUME DuelTypeOK, Duels, receiveMove(Host)
    PROVE  Duels'
<1>c. PICK c : c = room[Host].conn
  OBVIOUS
<1>t. MovesAtHost(c)
  BY <1>c, MovesAtHostIs, SMTT(40)
<1> DEFINE rm == Moved
           g == c[1]
           old == room[Host]
           now == room'[Host]
           w == wire[c][1]
           v == wire[c][0]
           m == v[1]
<1>1. /\ Receive(Host, "move", rm)
      /\ c \in Channels
      /\ v # <<>> /\ Message(Host) = m
      /\ m \in Messages /\ m \in On(v) /\ m.type = "move"
      /\ Carries(m) /\ m.record \in Records /\ m.record.id = c
      /\ Len(m.record.events) <= moveLimit
      /\ old.peer /\ old.started /\ Holds(Host, c) /\ old.record \in Records
  BY <1>t DEF MovesAtHost
<1>2. /\ c # None /\ At(c, 0) = Host /\ Listens(c, 0)
      /\ g \in Guests /\ g \in Rooms /\ g # Host /\ Host \in Rooms
      /\ Seat(Host) = 0
      /\ Playable(Host) /\ HostReadiness
      /\ GuestWire(c) /\ HostWire(c) /\ Knows(c) /\ History(c)
  BY <1>1, <1>c, HostHas
<1>3. /\ rm \in DuelRooms /\ rm.peer = old.peer /\ rm.conn = old.conn
      /\ rm.localReady = old.localReady /\ rm.remoteReady = old.remoteReady
      /\ rm.started = old.started
      /\ rm.record = m.record /\ rm.record # None /\ rm.opens = old.opens
  BY <1>1, MovedIs
<1> HIDE DEF rm, m
<1>4. w = <<>> /\ On(w) = {} /\ (Listens(c, 1) => room[g].started /\ Holds(g, c))
  BY <1>t, NothingForth, NothingOn
<1>5. /\ end[c][0] = "open"
      /\ v # <<>> /\ v \in Seq(Messages)
      /\ \A q \in Rooms : q # Host => room'[q] = room[q]
      /\ Face(now, rm)
      /\ \A d \in Channels : d # c => wire'[d] = wire[d]
      /\ wire'[c][0] = Tail(v)
      /\ wire'[c][1] = w
      /\ UNCHANGED <<invitation, end, flow, asked, consents>>
  BY <1>1, <1>3, <1>c, HostReceives
<1>6. /\ now.peer /\ now.conn = c /\ now.localReady /\ now.remoteReady /\ now.started
      /\ now.record = m.record /\ now.record # None /\ now.opens = old.opens
  <2>1. old.localReady /\ old.remoteReady
    BY <1>1, <1>2 DEF Playable
  <2> QED
    BY <1>1, <1>3, <1>5, <1>c, <2>1 DEF Face
<1>7. /\ Listens(c, 0)' /\ Listens(c, 1)' = Listens(c, 1) /\ (Agreed(c)' <=> Agreed(c))
      /\ room'[g] = room[g] /\ end' = end /\ consents' = consents
      /\ invitation' = invitation
  BY <1>2, <1>5 DEF Listens, Agreed
<1>8. Playable(Host)'
  <2>1. <<Host, now.opens>> \in consents'
    BY <1>1, <1>2, <1>6, <1>7 DEF Playable
  <2>2. Agreed(c)'
    BY <1>1, <1>2, <1>7 DEF Playable, Holds
  <2> HIDE DEF now
  <2> QED
    BY <1>1, <1>2, <1>5, <1>6, <1>7, <2>1, <2>2 DEF Playable, now
<1>9. HostReadiness'
  <2>1. c \in consents
    BY <1>1, <1>2, <1>c DEF Playable, HostReadiness
  <2> QED
    BY <1>2, <1>5, <1>6, <1>7, <2>1 DEF HostReadiness
<1>10. /\ Tail(v) \in Seq(Messages) /\ On(Tail(v)) \subseteq On(v)
       /\ Tail(v) # <<>> => Last(Tail(v)) = Last(v)
       /\ Tail(v) = <<>> => Last(v) = m
  <2> HIDE DEF v
  <2> QED
    BY <1>5, OnTail DEF m
<1>11. HostWire(c)'
  <2>1. \A x \in On(v) : NextAtHost(v[1], x) => FirstAtHost(now, x)
    BY <1>1, <1>6 DEF NextAtHost, FirstAtHost, m
  <2>2. ToHost(old, v)
    BY <1>2 DEF HostWire
  <2>3. ToHost(now, Tail(v))
    <3> HIDE DEF v, now, old
    <3> QED
      BY <1>5, <2>1, <2>2, HostTail
  <2>4. \A x \in On(Tail(v)) :
              /\ x.type = "ready" => c \in consents'
              /\ Carries(x) => x.record.id = c
              /\ Listens(c, 1)' => x.type # "stop"
    BY <1>2, <1>7, <1>10 DEF HostWire
  <2>5. end'[c][1] \notin {"none", "opening"}
    BY <1>2, <1>5, <1>7 DEF HostWire
  <2> HIDE DEF v
  <2> QED
    BY <1>2, <1>5, <1>7, <2>3, <2>4, <2>5 DEF HostWire
<1>12. GuestWire(c)'
  BY <1>4, <1>5, GuestNothing DEF GuestWire
<1>13. (Holds(g, c)' <=> Holds(g, c)) /\ Events(g)' = Events(g)
  BY <1>7 DEF Holds, Events
<1>14. Holds(Host, c)' /\ Events(Host)' = m.record.events
  BY <1>1, <1>6 DEF Holds, Events
<1>15. Knows(c)'
  <2>1. Listens(c, 1) /\ (\E x \in On(Tail(v)) : x.type = "ready") => room[g].localReady
    BY <1>2, <1>10 DEF Knows
  <2>2. Listens(c, 1) /\ ~room[g].started => \A x \in On(Tail(v)) : ~Carries(x)
    BY <1>4
  <2>3. Listens(c, 1) => room[g].localReady
    BY <1>1, <1>2, <1>6 DEF Knows, Playable
  <2> HIDE DEF v
  <2> QED
    BY <1>2, <1>4, <1>5, <1>6, <1>7, <2>1, <2>2, <2>3 DEF Knows, w
<1>16. History(c)'
  <2>1. Holds(g, c) => Within(m.record.events, Events(g), 1)
    BY <1>1, <1>2 DEF History
  <2>2. Holds(g, c) => \A x \in On(Tail(v)) :
              Carries(x) => Within(x.record.events, Events(g), 1)
    BY <1>2, <1>10 DEF History
  <2>3. Listens(c, 1) => Carries(Last(v)) /\ Last(v).record.events = Events(g)
    BY <1>2, <1>4, <1>5 DEF History
  <2>4. Holds(g, c) => /\ Len(Events(g)) \in Nat /\ Len(m.record.events) \in Nat
                       /\ Len(m.record.events) <= Len(Events(g))
    <3>1. Holds(g, c) => room[g].record \in Records
      BY <1>2, RoomIs, DuelsAre DEF Holds, Playable, Flags
    <3>2. Holds(g, c) => Events(g) \in Seq(Decisions) /\ m.record.events \in Seq(Decisions)
      BY <1>1, <3>1 DEF Events, Records
    <3> QED
      BY <2>1, <3>2 DEF Within
  <2>5. Listens(c, 1) =>
            IF Tail(v) = <<>>
            THEN room'[Host].started /\ Len(Events(Host)') >= Len(Events(g)')
            ELSE Carries(Last(Tail(v))) /\ Last(Tail(v)).record.events = Events(g)'
    <3>1. CASE Tail(v) = <<>>
      <4>1. Listens(c, 1) => Len(m.record.events) = Len(Events(g))
        BY <1>10, <2>3, <3>1
      <4> QED
        BY <1>4, <1>6, <1>13, <1>14, <2>4, <3>1, <4>1
    <3>2. CASE Tail(v) # <<>>
      BY <1>10, <1>13, <2>3, <3>2
    <3> QED
      BY <3>1, <3>2
  <2>6. Listens(c, 1) => room'[g].started /\ Len(Events(g)') >= Len(Events(Host)')
    BY <1>4, <1>7, <1>13, <1>14, <2>4
  <2> HIDE DEF v, w
  <2>7. /\ Holds(Host, c)' /\ Holds(g, c)' =>
              Within(Events(g)', Events(Host)', 0) \/ Within(Events(Host)', Events(g)', 1)
        /\ Holds(g, c)' => \A x \in On(Tail(v)) :
              Carries(x) => Within(x.record.events, Events(g)', 1)
    BY <1>13, <1>14, <2>1, <2>2
  <2> QED
    BY <1>4, <1>5, <1>7, <2>5, <2>6, <2>7 DEF History
<1>17. /\ now.peer = old.peer
       /\ now.record.id = c
  BY <1>1, <1>3, <1>5, <1>6 DEF Face
<1>18. invitation' = invitation /\ end' = end /\ consents \subseteq consents'
  BY <1>7
<1>19. GuestWire(c)' /\ HostWire(c)' /\ Knows(c)' /\ History(c)'
  BY <1>11, <1>12, <1>15, <1>16
<1> QED
  BY <1>c, <1>2, <1>5, <1>6, <1>8, <1>9, <1>17, <1>18, <1>19, HostActs

-----------------------------------------------------------------------------
(* An agent answers.                                                       *)

\* The record with the decision of the agent,
Answered(x, d) == [x.previous EXCEPT !.events = Append(@, d)]

\* the message with it,
MoveOf(x, d) == [type |-> "move", record |-> Answered(x, d)]

\* and the room that goes on.
After(x, d) == [room[x.room] EXCEPT !.record = Answered(x, d), !.busy = FALSE]

\* The room of a move under way that is current.
Underway(r, x, c) ==
    /\ r \in Rooms /\ x.room = r
    /\ c = room[r].conn /\ c \in Channels /\ c # None
    /\ room[r].peer /\ room[r].started /\ room[r].busy
    /\ room[r].record = x.previous /\ room[r].record \in Records
    /\ room[r].record.id = c /\ Holds(r, c)
    /\ Playable(r)

\* A current run of move() belongs to an open room and to its record.
LEMMA UnderwayIs ==
    ASSUME DuelTypeOK, Duels, CallsInv, NEW x \in calls, Current(x),
           NEW r, r = x.room, NEW c, c = room[r].conn
    PROVE  Underway(r, x, c)
<1>1. r \in Rooms
  BY DEF DuelTypeOK, Calls
<1>2. room[r].busy /\ room[r].peer /\ room[r].record = x.previous
  BY DEF CallsInv
<1>3. Playable(r)
  BY <1>1, DuelsAre DEF Flags
<1>4. /\ room[r].started /\ c # None /\ room[r].record.id = c
      /\ room[r].record # None
  BY <1>2, <1>3 DEF Playable
<1>5. room[r].record \in Records /\ c \in Channels
  BY <1>1, <1>4, RoomIs
<1> QED
  BY <1>1, <1>2, <1>3, <1>4, <1>5 DEF Underway, Holds

\* The record with the decision is a record of the same duel.
LEMMA AnsweredIs ==
    ASSUME NEW x, NEW d \in Decisions, x.previous \in Records
    PROVE  /\ Answered(x, d) \in Records
           /\ Answered(x, d).id = x.previous.id
           /\ Answered(x, d).events = Append(x.previous.events, d)
           /\ MoveOf(x, d) \in Messages /\ MoveOf(x, d).type = "move"
           /\ MoveOf(x, d).record = Answered(x, d)
           /\ Carries(MoveOf(x, d))
<1>1. x.previous.events \in Seq(Decisions)
  BY RecordIs
<1>2. /\ Answered(x, d) \in Records
      /\ Answered(x, d).id = x.previous.id
      /\ Answered(x, d).events = Append(x.previous.events, d)
  BY <1>1, SMTT(40) DEF Answered, Records
<1> QED
  BY <1>2, MessagesAre DEF MoveOf, Carries

\* The room after an answer differs in its record and in busy.
AfterFits(r, x, d) ==
    LET old == room[r]
        rm == After(x, d)
    IN /\ rm \in DuelRooms
       /\ rm.peer = old.peer /\ rm.conn = old.conn /\ rm.offer = old.offer
       /\ rm.localReady = old.localReady /\ rm.remoteReady = old.remoteReady
       /\ rm.started = old.started /\ rm.busy = FALSE
       /\ rm.record = Answered(x, d) /\ rm.record # None /\ rm.opens = old.opens
       /\ rm.generation = old.generation

\* This is the room that Answer makes.
LEMMA AfterIs ==
    ASSUME DuelTypeOK, NEW r \in Rooms, NEW x, x.room = r, NEW d, Answered(x, d) \in Records
    PROVE  AfterFits(r, x, d)
<1>1. room[r] \in DuelRooms
  BY RoomIs
<1>2. Answered(x, d) # None
  BY RecordIs
<1> DEFINE e == Answered(x, d)
           old == room[r]
<1>3. After(x, d) = [old EXCEPT !.record = e, !.busy = FALSE]
  BY DEF After
<1> HIDE DEF e, old
<1>4. After(x, d) \in DuelRooms
  BY <1>1, <1>3 DEF DuelRooms, e, old
<1> QED
  BY <1>1, <1>2, <1>3, <1>4 DEF DuelRooms, AfterFits, e, old

\* What an answer changes, in the room r of seat s over channel c.
Plays(r, s, x, d, c) ==
    /\ Underway(r, x, c) /\ s = Seat(r) /\ s \in Seats
    /\ Answered(x, d) \in Records /\ Answered(x, d).id = c
    /\ Len(Answered(x, d).events) <= moveLimit
    /\ acceptDuelMove(room[r].record, Answered(x, d), s)
    /\ MoveOf(x, d) \in Messages /\ MoveOf(x, d).type = "move"
    /\ MoveOf(x, d).record = Answered(x, d) /\ Carries(MoveOf(x, d))
    /\ room' \in [Rooms -> DuelRooms]
    /\ \A q \in Rooms : q # r => room'[q] = room[q]
    /\ room'[r].peer = room[r].peer /\ room'[r].conn = c
    /\ room'[r].offer = room[r].offer
    /\ room'[r].localReady = room[r].localReady
    /\ room'[r].remoteReady = room[r].remoteReady
    /\ room'[r].started = TRUE
    /\ room'[r].record = Answered(x, d) /\ room'[r].record # None
    /\ room'[r].opens = room[r].opens /\ room'[r].generation = room[r].generation
    /\ wire' = Sent(wire, c, s, <<MoveOf(x, d)>>)
    /\ calls' \subseteq Calls /\ calls \ {x} \subseteq calls'
    /\ \A y \in calls' : y \in calls \ {x} \/ Begins(r, y)'
    /\ UNCHANGED <<invitation, end, flow, asked, consents>>

\* This is what Answer does.
LEMMA AnswerSets ==
    ASSUME DuelTypeOK, Duels, CallsInv, NEW x \in calls, NEW d \in Decisions, Answer(x, d),
           NEW r, r = x.room, NEW c, c = room[r].conn, NEW s, s = Seat(r)
    PROVE  Plays(r, s, x, d, c)
<1> DEFINE next == Answered(x, d)
           rm == After(x, d)
<1>1. /\ Current(x) /\ acceptDuelMove(x.previous, next, s)
      /\ wire' = Sent(wire, rm.conn, s, <<MoveOf(x, d)>>)
      /\ advance(r, rm, calls \ {x})
      /\ UNCHANGED <<invitation, end, flow, asked, consents>>
  BY DEF Answer, Answered, After, MoveOf
<1>2. Underway(r, x, c)
  BY <1>1, UnderwayIs
<1>3. /\ r \in Rooms /\ s \in Seats /\ x.previous \in Records /\ x.previous.id = c
      /\ room[r].record = x.previous /\ room[r].started /\ room[r].conn = c
  BY <1>2, SeatIs DEF Underway
<1>4. /\ next \in Records /\ next.id = c
      /\ MoveOf(x, d) \in Messages /\ MoveOf(x, d).type = "move"
      /\ MoveOf(x, d).record = next /\ Carries(MoveOf(x, d))
  BY <1>3, AnsweredIs
<1>5. Len(next.events) <= moveLimit
  <2> HIDE DEF next
  <2> QED
    BY <1>1, <1>3, <1>4, Accepted
<1>6. /\ rm \in DuelRooms
      /\ rm.peer = room[r].peer /\ rm.conn = c /\ rm.offer = room[r].offer
      /\ rm.localReady = room[r].localReady /\ rm.remoteReady = room[r].remoteReady
      /\ rm.started = room[r].started /\ rm.busy = FALSE
      /\ rm.record = next /\ rm.record # None /\ rm.opens = room[r].opens
      /\ rm.generation = room[r].generation
  <2>1. r \in Rooms /\ x.room = r /\ Answered(x, d) \in Records
    BY <1>3, <1>4
  <2>2. AfterFits(r, x, d)
    BY <2>1, AfterIs
  <2> QED
    BY <1>3, <2>2 DEF AfterFits
<1> HIDE DEF rm, next
<1>7. /\ room' \in [Rooms -> DuelRooms]
      /\ \A q \in Rooms : q # r => room'[q] = room[q]
      /\ Face(room'[r], rm)
      /\ calls \ {x} \subseteq calls => calls' \subseteq Calls
      /\ calls \ {x} \subseteq calls'
  BY <1>1, <1>3, <1>6, AdvanceSets
<1>8. \A y \in calls' : y \in calls \ {x} \/ (Begins(r, y)' /\ rm.busy = FALSE)
  BY <1>1, <1>3, <1>6, BeginsIs
<1>9. /\ room'[r].peer = room[r].peer /\ room'[r].conn = c
      /\ room'[r].offer = room[r].offer
      /\ room'[r].localReady = room[r].localReady
      /\ room'[r].remoteReady = room[r].remoteReady
      /\ room'[r].started = TRUE
      /\ room'[r].record = next /\ room'[r].record # None
      /\ room'[r].opens = room[r].opens /\ room'[r].generation = room[r].generation
  BY <1>3, <1>6, <1>7 DEF Face
<1>10. /\ wire' = Sent(wire, c, s, <<MoveOf(x, d)>>)
       /\ calls' \subseteq Calls
       /\ acceptDuelMove(room[r].record, next, s)
  BY <1>1, <1>3, <1>6, <1>7
<1> QED
  BY <1>1, <1>2, <1>3, <1>4, <1>5, <1>7, <1>8, <1>9, <1>10 DEF Plays, next

\* It keeps the types.
LEMMA AnswerTyped ==
    ASSUME DuelTypeOK, Duels, CallsInv, NEW x \in calls, NEW d \in Decisions, Answer(x, d)
    PROVE  DuelTypeOK'
<1>1. PICK r, c, s : r = x.room /\ c = room[r].conn /\ s = Seat(r)
  OBVIOUS
<1>2. Plays(r, s, x, d, c)
  BY <1>1, AnswerSets
<1>3. /\ room' \in [Rooms -> DuelRooms] /\ calls' \subseteq Calls
      /\ wire' = Sent(wire, c, s, <<MoveOf(x, d)>>) /\ c \in Channels /\ s \in Seats
      /\ <<MoveOf(x, d)>> \in Seq(Messages)
      /\ UNCHANGED <<invitation, end, flow, asked, consents>>
  BY <1>2 DEF Plays, Underway
<1>4. wire' \in Wirings
  BY <1>3, SentIs DEF DuelTypeOK
<1> QED
  BY <1>3, <1>4 DEF DuelTypeOK

-----------------------------------------------------------------------------
(* The move of a guest.                                                    *)

\* When it is the guest's turn, the host's history is part of its own.
LEMMA HostBehind ==
    ASSUME DuelTypeOK, Duels, NEW g \in Guests, NEW x, NEW d, NEW c,
           Plays(g, 1, x, d, c), Holds(Host, c)
    PROVE  /\ Within(Events(Host), Events(g), 1)
           /\ room[Host].record \in Records
           /\ Events(Host) \in Seq(Decisions) /\ Events(g) \in Seq(Decisions)
<1>1. /\ c = room[g].conn /\ room[g].peer /\ Holds(g, c) /\ room[g].record \in Records
      /\ acceptDuelMove(room[g].record, Answered(x, d), 1)
  BY DEF Plays, Underway
<1>2. History(c) /\ Playable(Host) /\ Host \in Rooms
  BY <1>1, GuestHas, DuelsAre DEF Flags
<1>3. room[Host].record \in Records
  BY <1>2, RoomIs DEF Holds, Playable
<1>4. Events(Host) \in Seq(Decisions) /\ Events(g) \in Seq(Decisions)
  BY <1>1, <1>3 DEF Events, Records
<1>5. Turn[Len(Events(g)) + 1] = 1
  BY <1>1 DEF acceptDuelMove, Events
<1>6. c[1] = g
  BY <1>1, GuestHas
<1>7. Within(Events(g), Events(Host), 0) \/ Within(Events(Host), Events(g), 1)
  BY <1>1, <1>2, <1>6 DEF History
<1>8. ASSUME Within(Events(g), Events(Host), 0) PROVE Within(Events(Host), Events(g), 1)
  <2>1. Events(g) = Events(Host)
    BY <1>4, <1>5, <1>8, WithinTurn
  <2> QED
    BY <1>4, <2>1, WithinItself
<1> QED
  BY <1>3, <1>4, <1>7, <1>8

\* The guest's move is what the host may get next.
LEMMA HostAwaits ==
    ASSUME DuelTypeOK, Duels, NEW g \in Guests, NEW x, NEW d, NEW c,
           Plays(g, 1, x, d, c), Listens(c, 0)
    PROVE  /\ wire[c][0] = <<>> => FirstAtHost(room[Host], MoveOf(x, d))
           /\ wire[c][0] # <<>> => NextAtHost(Last(wire[c][0]), MoveOf(x, d))
<1> DEFINE v == wire[c][0]
           m == MoveOf(x, d)
<1>1. /\ c = room[g].conn /\ room[g].peer /\ Holds(g, c) /\ room[g].record \in Records
      /\ acceptDuelMove(room[g].record, Answered(x, d), 1)
      /\ m.type = "move" /\ m.record = Answered(x, d)
      /\ room[g].started /\ room[g].record.id = c
  BY DEF Plays, Underway
<1>2. /\ History(c) /\ HostWire(c) /\ c \in Channels /\ Listens(c, 1) /\ c[1] = g
  BY <1>1, GuestHas
<1>3. v \in Seq(Messages) /\ ToHost(room[Host], v)
  BY <1>2, WireIs DEF HostWire
<1>4. ASSUME v = <<>> PROVE FirstAtHost(room[Host], m)
  <2>1. room[Host].started /\ Len(Events(Host)) >= Len(Events(g))
    BY <1>1, <1>2, <1>4 DEF History
  <2>2. Holds(Host, c) /\ room[Host].record.id = c
    BY <1>2, <2>1, HostConn
  <2>3. /\ Within(Events(Host), Events(g), 1)
        /\ Events(Host) \in Seq(Decisions) /\ Events(g) \in Seq(Decisions)
    BY <2>2, HostBehind
  <2>4. Events(Host) = Events(g)
    BY <2>1, <2>3, WithinSame
  <2>5. acceptDuelMove(room[Host].record, m.record, 1)
    BY <1>1, <2>2, <2>4 DEF acceptDuelMove, Events, Ended, Over
  <2> QED
    BY <1>1, <2>1, <2>5 DEF FirstAtHost
<1>5. ASSUME v # <<>> PROVE NextAtHost(Last(v), m)
  <2>1. Carries(Last(v)) /\ Last(v).record.events = Events(g)
    BY <1>1, <1>2, <1>5 DEF History
  <2>2. Last(v) \in On(v)
    <3> HIDE DEF v
    <3> QED
      BY <1>3, <1>5, OnTyped
  <2>3. Last(v).record.id = c
    BY <1>2, <2>1, <2>2 DEF HostWire
  <2>4. Last(v).type \in {"ready", "move", "stop"}
    <3> HIDE DEF v
    <3> QED
      BY <1>3, <2>2, HostTypes
  <2>5. Last(v).type = "move"
    BY <2>1, <2>4 DEF Carries
  <2> HIDE DEF v, m
  <2>6. acceptDuelMove(Last(v).record, m.record, 1)
    BY <1>1, <2>1, <2>3, SMTT(40) DEF acceptDuelMove, Events, Ended, Over
  <2> QED
    BY <1>1, <2>5, <2>6 DEF NextAtHost
<1> QED
  BY <1>4, <1>5

\* A move of a guest keeps the duels.
LEMMA GuestPlays ==
    ASSUME DuelTypeOK, Duels, NEW g \in Guests, NEW x, NEW d, NEW c, Plays(g, 1, x, d, c)
    PROVE  Duels'
<1> DEFINE now == room'[g]
           old == room[g]
           v == wire[c][0]
           w == wire[c][1]
           z == wire'[c][0]
           m == MoveOf(x, d)
           e == Answered(x, d)
<1>1. /\ c = old.conn /\ old.peer /\ old.started /\ Holds(g, c) /\ old.record \in Records
      /\ e \in Records /\ e.id = c /\ Len(e.events) <= moveLimit
      /\ acceptDuelMove(old.record, e, 1)
      /\ m \in Messages /\ m.type = "move" /\ m.record = e /\ Carries(m)
  BY DEF Plays, Underway
<1>2. /\ room' \in [Rooms -> DuelRooms]
      /\ \A q \in Rooms : q # g => room'[q] = room[q]
      /\ now.peer = old.peer /\ now.conn = c /\ now.offer = old.offer
      /\ now.localReady = old.localReady /\ now.remoteReady = old.remoteReady
      /\ now.started = TRUE /\ now.record = e /\ now.record # None
      /\ now.opens = old.opens
      /\ wire' = Sent(wire, c, 1, <<m>>)
      /\ UNCHANGED <<invitation, end, flow, asked, consents>>
  BY DEF Plays
<1>3. /\ c \in Channels /\ c # None /\ c[1] = g
      /\ Listens(c, 1)
      /\ g \in Rooms /\ g # Host /\ Seat(g) = 1 /\ Host \in Rooms /\ Seat(Host) = 0
      /\ Playable(g) /\ GuestReadiness(g)
      /\ GuestWire(c) /\ HostWire(c) /\ Knows(c) /\ History(c)
  BY <1>1, GuestHas
<1> HIDE DEF m, e
<1>4. /\ \A y \in Channels : y # c => wire'[y] = wire[y]
      /\ wire'[c][1] = w
      /\ Listens(c, 0) => z = v \o <<m>>
      /\ ~Listens(c, 0) => z = v
  <2>1. <<m>> \in Seq(Messages) /\ wire \in Wirings
    BY <1>1 DEF DuelTypeOK
  <2>2. LET y == Sent(wire, c, 1, <<m>>)
        IN /\ \A b \in Channels : b # c => y[b] = wire[b]
           /\ y[c][1] = wire[c][1]
           /\ Listens(c, 0) => y[c][0] = wire[c][0] \o <<m>>
           /\ ~Listens(c, 0) => y[c][0] = wire[c][0]
    BY <1>3, <2>1, GuestSends
  <2> QED
    BY <1>2, <2>2
<1>5. /\ (Listens(c, 0)' <=> Listens(c, 0)) /\ Listens(c, 1)'
      /\ (Agreed(c)' <=> Agreed(c))
      /\ room'[Host] = room[Host]
      /\ end' = end /\ consents' = consents /\ invitation' = invitation
  BY <1>2, <1>3 DEF Listens, Agreed
<1>6. /\ v \in Seq(Messages) /\ w \in Seq(Messages)
      /\ old.localReady /\ old.remoteReady /\ old.offer
      /\ end[c][1] = "open" /\ Agreed(c) /\ At(c, 1) = g
      /\ end[c][0] \in {"open", "closed", "gone"}
  <2>1. v \in Seq(Messages) /\ w \in Seq(Messages) /\ At(c, 1) = g
    BY <1>3, WireIs, ChannelShape
  <2>2. old.localReady /\ old.remoteReady /\ Agreed(c)
    BY <1>1, <1>3 DEF Playable
  <2>3. old.offer /\ end[c][1] = "open" /\ end[c][0] \in {"open", "closed", "gone"}
    BY <1>1, <1>3, <2>2 DEF GuestReadiness
  <2> QED
    BY <2>1, <2>2, <2>3
<1>7. Playable(g)'
  <2>1. <<g, now.opens>> \in consents' /\ Agreed(c)' /\ end'[c][1] = "open"
    BY <1>2, <1>3, <1>5, <1>6 DEF Playable
  <2>2. now.peer /\ now.localReady /\ now.remoteReady /\ now.record.id = c
        /\ Len(now.record.events) <= moveLimit
    BY <1>1, <1>2, <1>6
  <2> HIDE DEF now
  <2> QED
    BY <1>2, <1>3, <1>6, <2>1, <2>2 DEF Playable, now
<1>8. GuestReadiness(g)'
  BY <1>2, <1>5, <1>6 DEF GuestReadiness
<1>9. GuestWire(c)'
  <2>1. ToGuest(old, w)
    BY <1>3 DEF GuestWire
  <2>2. \A p \in On(w) : FirstAtGuest(old, p) => FirstAtGuest(now, p)
    BY <1>1, <1>2 DEF FirstAtGuest, acceptDuelMove
  <2>3. ToGuest(now, w)
    <3> HIDE DEF w, now, old
    <3> QED
      BY <1>6, <2>1, <2>2, GuestSame
  <2>4. /\ w # <<>> => Listens(c, 1)' /\ end'[c][0] \notin {"none", "opening"}
        /\ \A p \in On(w) :
              /\ p.type = "start" =>
                     /\ now.localReady
                     /\ p.record = [id |-> c, events |-> <<>>]
                     /\ Agreed(c)'
              /\ Carries(p) => p.record.id = c
              /\ Listens(c, 0)' => p.type # "stop"
    BY <1>2, <1>3, <1>5, <1>6 DEF GuestWire
  <2> HIDE DEF w
  <2> QED
    BY <1>3, <1>4, <2>3, <2>4 DEF GuestWire
<1>10. /\ Holds(g, c)' /\ Events(g)' = e.events
       /\ (Holds(Host, c)' <=> Holds(Host, c)) /\ Events(Host)' = Events(Host)
  BY <1>1, <1>2, <1>5 DEF Holds, Events
<1>11. /\ Events(g) \in Seq(Decisions) /\ e.events \in Seq(Decisions)
       /\ Within(Events(g), e.events, 1) /\ Len(e.events) = Len(Events(g)) + 1
  BY <1>1, Accepted, RecordIs DEF Events
<1>12. Holds(Host, c) => /\ Within(Events(Host), e.events, 1)
                         /\ Len(e.events) >= Len(Events(Host))
  <2>1. Holds(Host, c) =>
            /\ Within(Events(Host), Events(g), 1)
            /\ Events(Host) \in Seq(Decisions)
    BY HostBehind
  <2>2. Holds(Host, c) => Within(Events(Host), e.events, 1)
    BY <1>11, <2>1, WithinMore
  <2> QED
    BY <1>11, <2>1, <2>2 DEF Within
<1>13. Holds(g, c) /\ \A p \in On(v) : Carries(p) => Within(p.record.events, e.events, 1)
  <2>1. \A p \in On(v) : Carries(p) => Within(p.record.events, Events(g), 1)
    BY <1>1, <1>3 DEF History
  <2>2. \A p \in On(v) : Carries(p) => p.record.events \in Seq(Decisions)
    <3> HIDE DEF v
    <3> QED
      BY <1>6, OnTyped, MessageIs
  <2> HIDE DEF v
  <2> QED
    BY <1>1, <1>11, <2>1, <2>2, WithinMore
<1>14. /\ z \in Seq(Messages)
       /\ \A p \in On(z) : p \in On(v) \/ (p = m /\ Listens(c, 0))
       /\ Listens(c, 0) => z # <<>> /\ Last(z) = m
       /\ ~Listens(c, 0) => z = v
       /\ ToHost(room[Host], z)
  <2>1. ToHost(room[Host], v)
    BY <1>3 DEF HostWire
  <2>2. Listens(c, 0) => /\ v = <<>> => FirstAtHost(room[Host], m)
                         /\ v # <<>> => NextAtHost(Last(v), m)
    BY HostAwaits DEF m
  <2> HIDE DEF v, z
  <2>3. CASE Listens(c, 0)
    <3>1. z = v \o <<m>> /\ v \in Seq(Messages) /\ m \in Messages
      BY <1>1, <1>4, <1>6, <2>3
    <3>2. z \in Seq(Messages) /\ z # <<>> /\ On(z) = On(v) \cup {m} /\ Last(z) = m
      BY <3>1, OnAppend
    <3>3. ToHost(room[Host], z)
      BY <2>1, <2>2, <2>3, <3>1, HostAppend
    <3> QED
      BY <2>3, <3>2, <3>3
  <2>4. CASE ~Listens(c, 0)
    BY <1>4, <1>6, <2>1, <2>4
  <2> QED
    BY <2>3, <2>4
<1>15. HostWire(c)'
  <2>1. z # <<>> => Listens(c, 0)' /\ end'[c][1] \notin {"none", "opening"}
    BY <1>3, <1>5, <1>6, <1>14 DEF HostWire
  <2>2. \A p \in On(z) :
              /\ p.type = "ready" => c \in consents'
              /\ Carries(p) => p.record.id = c
              /\ Listens(c, 1)' => p.type # "stop"
    BY <1>1, <1>3, <1>5, <1>14 DEF HostWire
  <2> HIDE DEF z
  <2> QED
    BY <1>5, <1>14, <2>1, <2>2 DEF HostWire, z
<1>16. Knows(c)'
  <2>1. /\ Listens(c, 0) => room[Host].started
        /\ now.localReady /\ now.started /\ now.offer
    BY <1>1, <1>2, <1>3, <1>6 DEF Knows
  <2> HIDE DEF now
  <2> QED
    BY <1>3, <1>5, <2>1 DEF Knows, now
<1>17. History(c)'
  <2>1. \A p \in On(w) : Holds(Host, c) /\ Carries(p) => Within(p.record.events, Events(Host), 0)
    BY <1>3 DEF History
  <2>2. \A p \in On(z) : Carries(p) => Within(p.record.events, e.events, 1)
    BY <1>1, <1>11, <1>13, <1>14, WithinItself
  <2>3. Listens(c, 0) /\ room[Host].started =>
            IF w = <<>> THEN now.started /\ Len(e.events) >= Len(Events(Host))
            ELSE Carries(Last(w)) /\ Last(w).record.events = Events(Host)
    <3>1. Listens(c, 0) /\ room[Host].started => Holds(Host, c)
      BY <1>3, HostConn
    <3>2. Listens(c, 0) /\ room[Host].started /\ w # <<>> =>
              Carries(Last(w)) /\ Last(w).record.events = Events(Host)
      BY <1>3 DEF History
    <3> QED
      BY <1>2, <1>12, <3>1, <3>2
  <2>4. Listens(c, 0) => z # <<>> /\ Carries(Last(z)) /\ Last(z).record.events = e.events
    BY <1>1, <1>14
  <2> HIDE DEF w, z
  <2> QED
    BY <1>2, <1>3, <1>4, <1>5, <1>10, <1>12, <2>1, <2>2, <2>3, <2>4 DEF History, w, z
<1>18. invitation' = invitation /\ end' = end /\ consents \subseteq consents'
  BY <1>2
<1>19. GuestWire(c)' /\ HostWire(c)' /\ Knows(c)' /\ History(c)'
  BY <1>9, <1>15, <1>16, <1>17
<1>20. now.record.id = c
  BY <1>1, <1>2
<1> QED
  BY <1>1, <1>2, <1>4, <1>7, <1>8, <1>18, <1>19, <1>20, GuestActs

-----------------------------------------------------------------------------
(* The move of the host.                                                   *)

\* When it is the host's turn, the guest's history is part of its own.
LEMMA GuestBehind ==
    ASSUME DuelTypeOK, Duels, NEW x, NEW d, NEW c,
           Plays(Host, 0, x, d, c), Holds(c[1], c)
    PROVE  /\ Within(Events(c[1]), Events(Host), 0)
           /\ room[c[1]].record \in Records
           /\ Events(Host) \in Seq(Decisions) /\ Events(c[1]) \in Seq(Decisions)
<1> DEFINE g == c[1]
<1>1. /\ c = room[Host].conn /\ c \in Channels /\ Holds(Host, c) /\ room[Host].record \in Records
      /\ acceptDuelMove(room[Host].record, Answered(x, d), 0)
  BY DEF Plays, Underway
<1>2. History(c) /\ Playable(g) /\ g \in Rooms
  BY <1>1, HostHas
<1>3. room[g].record \in Records
  BY <1>2, RoomIs DEF Holds, Playable
<1>4. Events(Host) \in Seq(Decisions) /\ Events(g) \in Seq(Decisions)
  BY <1>1, <1>3 DEF Events, Records
<1>5. Turn[Len(Events(Host)) + 1] = 0
  BY <1>1 DEF acceptDuelMove, Events
<1>7. Within(Events(g), Events(Host), 0) \/ Within(Events(Host), Events(g), 1)
  BY <1>1, <1>2 DEF History
<1>8. ASSUME Within(Events(Host), Events(g), 1) PROVE Within(Events(g), Events(Host), 0)
  <2>1. Events(g) = Events(Host)
    BY <1>4, <1>5, <1>8, WithinTurn
  <2> QED
    BY <1>4, <2>1, WithinItself
<1> QED
  BY <1>3, <1>4, <1>7, <1>8

\* The host's move is what the guest may get next.
LEMMA GuestAwaits ==
    ASSUME DuelTypeOK, Duels, NEW x, NEW d, NEW c,
           Plays(Host, 0, x, d, c), Listens(c, 1)
    PROVE  /\ wire[c][1] = <<>> => FirstAtGuest(room[c[1]], MoveOf(x, d))
           /\ wire[c][1] # <<>> => NextAtGuest(Last(wire[c][1]), MoveOf(x, d))
<1> DEFINE w == wire[c][1]
           m == MoveOf(x, d)
           g == c[1]
<1>1. /\ c = room[Host].conn /\ Holds(Host, c) /\ room[Host].record \in Records
      /\ acceptDuelMove(room[Host].record, Answered(x, d), 0)
      /\ m.type = "move" /\ m.record = Answered(x, d) /\ c \in Channels
      /\ room[Host].started /\ room[Host].record.id = c
  BY DEF Plays, Underway
<1>2. History(c) /\ GuestWire(c) /\ Listens(c, 0)
  BY <1>1, HostHas
<1>3. w \in Seq(Messages) /\ ToGuest(room[g], w)
  BY <1>1, <1>2, WireIs DEF GuestWire
<1>4. ASSUME w = <<>> PROVE FirstAtGuest(room[g], m)
  <2>1. room[g].started /\ Len(Events(g)) >= Len(Events(Host))
    BY <1>1, <1>2, <1>4 DEF History
  <2>2. Holds(g, c) /\ room[g].record.id = c
    BY <1>1, <2>1, GuestConn
  <2>3. /\ Within(Events(g), Events(Host), 0)
        /\ Events(Host) \in Seq(Decisions) /\ Events(g) \in Seq(Decisions)
    BY <2>2, GuestBehind
  <2> HIDE DEF g, m
  <2>4. Events(Host) = Events(g)
    BY <2>1, <2>3, WithinSame
  <2>5. acceptDuelMove(room[g].record, m.record, 0)
    BY <1>1, <2>2, <2>4 DEF acceptDuelMove, Events, Ended, Over
  <2> QED
    BY <1>1, <2>1, <2>5 DEF FirstAtGuest
<1>5. ASSUME w # <<>> PROVE NextAtGuest(Last(w), m)
  <2>1. Carries(Last(w)) /\ Last(w).record.events = Events(Host)
    BY <1>1, <1>2, <1>5 DEF History
  <2>2. Last(w) \in On(w)
    <3> HIDE DEF w
    <3> QED
      BY <1>3, <1>5, OnTyped
  <2>3. Last(w).record.id = c
    BY <1>2, <2>1, <2>2 DEF GuestWire
  <2>5. Last(w).type \in {"start", "move"}
    BY <2>1 DEF Carries
  <2> HIDE DEF w, m
  <2>6. acceptDuelMove(Last(w).record, m.record, 0)
    BY <1>1, <2>1, <2>3, SMTT(40) DEF acceptDuelMove, Events, Ended, Over
  <2> QED
    BY <1>1, <2>5, <2>6 DEF NextAtGuest
<1> QED
  BY <1>4, <1>5

\* A move of the host keeps the duels.
LEMMA HostPlays ==
    ASSUME DuelTypeOK, Duels, NEW x, NEW d, NEW c, Plays(Host, 0, x, d, c)
    PROVE  Duels'
<1> DEFINE now == room'[Host]
           old == room[Host]
           g == c[1]
           v == wire[c][0]
           w == wire[c][1]
           z == wire'[c][1]
           m == MoveOf(x, d)
           e == Answered(x, d)
<1>1. /\ c = old.conn /\ c \in Channels /\ c # None
      /\ old.peer /\ old.started /\ Holds(Host, c) /\ old.record \in Records
      /\ e \in Records /\ e.id = c /\ Len(e.events) <= moveLimit
      /\ acceptDuelMove(old.record, e, 0)
      /\ m \in Messages /\ m.type = "move" /\ m.record = e /\ Carries(m)
  BY DEF Plays, Underway
<1>2. /\ room' \in [Rooms -> DuelRooms]
      /\ \A q \in Rooms : q # Host => room'[q] = room[q]
      /\ now.peer = old.peer /\ now.conn = c /\ now.offer = old.offer
      /\ now.localReady = old.localReady /\ now.remoteReady = old.remoteReady
      /\ now.started = TRUE /\ now.record = e /\ now.record # None
      /\ now.opens = old.opens
      /\ wire' = Sent(wire, c, 0, <<m>>)
      /\ UNCHANGED <<invitation, end, flow, asked, consents>>
  BY DEF Plays
<1>3. /\ At(c, 0) = Host /\ Listens(c, 0)
      /\ g \in Guests /\ g \in Rooms /\ g # Host /\ Host \in Rooms
      /\ Seat(Host) = 0
      /\ Playable(Host) /\ HostReadiness
      /\ Playable(g) /\ GuestReadiness(g)
      /\ GuestWire(c) /\ HostWire(c) /\ Knows(c) /\ History(c)
  BY <1>1, HostHas
<1> HIDE DEF m, e
<1>4. /\ \A y \in Channels : y # c => wire'[y] = wire[y]
      /\ wire'[c][0] = v
      /\ Listens(c, 1) => z = w \o <<m>>
      /\ ~Listens(c, 1) => z = w
  <2>1. <<m>> \in Seq(Messages) /\ wire \in Wirings
    BY <1>1 DEF DuelTypeOK
  <2>2. LET y == Sent(wire, c, 0, <<m>>)
        IN /\ \A b \in Channels : b # c => y[b] = wire[b]
           /\ y[c][0] = wire[c][0]
           /\ Listens(c, 1) => y[c][1] = wire[c][1] \o <<m>>
           /\ ~Listens(c, 1) => y[c][1] = wire[c][1]
    BY <1>1, <2>1, HostSends, ZenonT(60)
  <2> QED
    BY <1>2, <2>2
<1>5. /\ (Listens(c, 1)' <=> Listens(c, 1)) /\ Listens(c, 0)'
      /\ (Agreed(c)' <=> Agreed(c))
      /\ room'[g] = room[g]
      /\ end' = end /\ consents' = consents /\ invitation' = invitation
  BY <1>2, <1>3 DEF Listens, Agreed
<1>6. /\ v \in Seq(Messages) /\ w \in Seq(Messages)
      /\ old.localReady /\ old.remoteReady
      /\ end[c][0] = "open" /\ Agreed(c)
      /\ c \in consents
  <2>1. v \in Seq(Messages) /\ w \in Seq(Messages)
    BY <1>1, WireIs, SMTT(40)
  <2>2. /\ old.localReady /\ old.remoteReady /\ Agreed(c)
    BY <1>1, <1>3 DEF Playable
  <2>3. end[c][0] = "open" /\ c \in consents
    BY <1>1, <2>2, <1>3, SMTT(40) DEF HostReadiness
  <2> QED
    BY <2>1, <2>2, <2>3
<1>7. Playable(Host)'
  <2>1. <<Host, now.opens>> \in consents' /\ Agreed(c)' /\ end'[c][0] = "open"
    BY <1>2, <1>3, <1>5, <1>6 DEF Playable
  <2>2. now.peer /\ now.localReady /\ now.remoteReady /\ now.record.id = c
        /\ Len(now.record.events) <= moveLimit
    BY <1>1, <1>2, <1>6
  <2> HIDE DEF now
  <2> QED
    BY <1>1, <1>2, <1>3, <1>6, <2>1, <2>2 DEF Playable, now
<1>8. HostReadiness'
  BY <1>1, <1>2, <1>5, <1>6 DEF HostReadiness
<1>9. HostWire(c)'
  <2>1. ToHost(old, v)
    BY <1>3 DEF HostWire
  <2>2. \A p \in On(v) : FirstAtHost(old, p) => FirstAtHost(now, p)
    BY <1>1, <1>2 DEF FirstAtHost, acceptDuelMove
  <2>3. ToHost(now, v)
    <3> HIDE DEF v, now, old
    <3> QED
      BY <1>6, <2>1, <2>2, HostSame
  <2>4. /\ v # <<>> => Listens(c, 0)' /\ end'[c][1] \notin {"none", "opening"}
        /\ \A p \in On(v) :
              /\ p.type = "ready" => c \in consents'
              /\ Carries(p) => p.record.id = c
              /\ Listens(c, 1)' => p.type # "stop"
    BY <1>3, <1>5, <1>6 DEF HostWire
  <2> HIDE DEF v
  <2> QED
    BY <1>4, <2>3, <2>4 DEF HostWire
<1>10. /\ Holds(Host, c)' /\ Events(Host)' = e.events
       /\ (Holds(g, c)' <=> Holds(g, c)) /\ Events(g)' = Events(g)
  BY <1>1, <1>2, <1>5 DEF Holds, Events
<1>11. /\ Events(Host) \in Seq(Decisions) /\ e.events \in Seq(Decisions)
       /\ Within(Events(Host), e.events, 0) /\ Len(e.events) = Len(Events(Host)) + 1
  BY <1>1, Accepted, RecordIs DEF Events
<1>12. Holds(g, c) => /\ Within(Events(g), e.events, 0)
                      /\ Len(e.events) >= Len(Events(g))
  <2>1. Holds(g, c) =>
            /\ Within(Events(g), Events(Host), 0)
            /\ Events(g) \in Seq(Decisions)
    BY GuestBehind
  <2>2. Holds(g, c) => Within(Events(g), e.events, 0)
    <3> HIDE DEF g
    <3> QED
      BY <1>11, <2>1, WithinMore
  <2> QED
    BY <1>11, <2>1, <2>2 DEF Within
<1>13. Holds(Host, c) /\ \A p \in On(w) : Carries(p) => Within(p.record.events, e.events, 0)
  <2>1. \A p \in On(w) : Carries(p) => Within(p.record.events, Events(Host), 0)
    BY <1>1, <1>3 DEF History
  <2>2. \A p \in On(w) : Carries(p) => p.record.events \in Seq(Decisions)
    <3> HIDE DEF w
    <3> QED
      BY <1>6, OnTyped, MessageIs
  <2> HIDE DEF w
  <2> QED
    BY <1>1, <1>11, <2>1, <2>2, WithinMore
<1>14. /\ z \in Seq(Messages)
       /\ \A p \in On(z) : p \in On(w) \/ (p = m /\ Listens(c, 1))
       /\ Listens(c, 1) => z # <<>> /\ Last(z) = m
       /\ ~Listens(c, 1) => z = w
       /\ ToGuest(room[g], z)
  <2>1. ToGuest(room[g], w)
    BY <1>3 DEF GuestWire
  <2>2. Listens(c, 1) => /\ w = <<>> => FirstAtGuest(room[g], m)
                         /\ w # <<>> => NextAtGuest(Last(w), m)
    BY GuestAwaits DEF m
  <2> HIDE DEF w, z, g
  <2>3. CASE Listens(c, 1)
    <3>1. z = w \o <<m>> /\ w \in Seq(Messages) /\ m \in Messages
      BY <1>1, <1>4, <1>6, <2>3
    <3>2. z \in Seq(Messages) /\ z # <<>> /\ On(z) = On(w) \cup {m} /\ Last(z) = m
      BY <3>1, OnAppend
    <3>3. ToGuest(room[g], z)
      BY <2>1, <2>2, <2>3, <3>1, GuestAppend
    <3> QED
      BY <2>3, <3>2, <3>3
  <2>4. CASE ~Listens(c, 1)
    BY <1>4, <1>6, <2>1, <2>4
  <2> QED
    BY <2>3, <2>4
<1>15. GuestWire(c)'
  <2>1. z # <<>> => Listens(c, 1)' /\ end'[c][0] \notin {"none", "opening"}
    BY <1>3, <1>5, <1>6, <1>14 DEF GuestWire
  <2>2. \A p \in On(z) :
              /\ p.type = "start" =>
                     /\ room[g].localReady
                     /\ p.record = [id |-> c, events |-> <<>>]
                     /\ Agreed(c)'
              /\ Carries(p) => p.record.id = c
              /\ Listens(c, 0)' => p.type # "stop"
    BY <1>1, <1>3, <1>5, <1>14 DEF GuestWire
  <2> HIDE DEF z
  <2> QED
    BY <1>5, <1>14, <2>1, <2>2 DEF GuestWire, z
<1>16. Knows(c)'
  <2>1. /\ Listens(c, 1) => room[g].localReady
        /\ now.started
    BY <1>1, <1>2, <1>3, <1>6 DEF Knows
  <2>2. Listens(c, 1) => z # <<>>
    BY <1>14
  <2> HIDE DEF now, z
  <2> QED
    BY <1>3, <1>4, <1>5, <2>1, <2>2 DEF Knows, now, z
<1>17. History(c)'
  <2>1. \A p \in On(v) : Holds(g, c) /\ Carries(p) => Within(p.record.events, Events(g), 1)
    BY <1>3 DEF History
  <2>2. \A p \in On(z) : Carries(p) => Within(p.record.events, e.events, 0)
    BY <1>1, <1>11, <1>13, <1>14, WithinItself
  <2>3. Listens(c, 1) /\ room[g].started =>
            IF v = <<>> THEN now.started /\ Len(e.events) >= Len(Events(g))
            ELSE Carries(Last(v)) /\ Last(v).record.events = Events(g)
    <3>1. Listens(c, 1) /\ room[g].started => Holds(g, c)
      BY <1>1, GuestConn
    <3>2. Listens(c, 1) /\ room[g].started /\ v # <<>> =>
              Carries(Last(v)) /\ Last(v).record.events = Events(g)
      BY <1>3 DEF History
    <3> QED
      BY <1>2, <1>12, <3>1, <3>2
  <2>4. Listens(c, 1) => z # <<>> /\ Carries(Last(z)) /\ Last(z).record.events = e.events
    BY <1>1, <1>14
  <2> HIDE DEF w, z, v
  <2> QED
    BY <1>2, <1>3, <1>4, <1>5, <1>10, <1>12, <2>1, <2>2, <2>3, <2>4 DEF History, w, z, v
<1>18. invitation' = invitation /\ end' = end /\ consents \subseteq consents'
  BY <1>2
<1>19. GuestWire(c)' /\ HostWire(c)' /\ Knows(c)' /\ History(c)'
  BY <1>9, <1>15, <1>16, <1>17
<1>20. now.record.id = c
  BY <1>1, <1>2
<1> QED
  BY <1>1, <1>2, <1>4, <1>7, <1>8, <1>18, <1>19, <1>20, HostActs

\* Answers keep the duels, of a guest as of the host.
LEMMA AnswerDuels ==
    ASSUME DuelTypeOK, Duels, CallsInv, NEW x \in calls, NEW d \in Decisions, Answer(x, d)
    PROVE  Duels'
<1>1. PICK r, c, s : r = x.room /\ c = room[r].conn /\ s = Seat(r)
  OBVIOUS
<1>2. Plays(r, s, x, d, c) /\ r \in Rooms
  BY <1>1, AnswerSets DEF DuelTypeOK, Calls
<1>3. CASE r = Host
  BY <1>1, <1>2, <1>3, SeatIs, HostPlays
<1>4. CASE r # Host
  BY <1>1, <1>2, <1>4, SeatIs, GuestPlays
<1> QED
  BY <1>3, <1>4

-----------------------------------------------------------------------------
(* The moves under way, and the plies an agent was asked for.              *)

\* The fields of a run of move() are typed.
LEMMA CallIs ==
    ASSUME DuelTypeOK, NEW x \in calls
    PROVE  /\ x.room \in Rooms /\ x.generation \in Nat /\ x.previous \in Records
           /\ x = [room |-> x.room, generation |-> x.generation,
                   previous |-> x.previous, stage |-> x.stage]
  BY DEF DuelTypeOK, Calls

\* A run is of a past generation, or current, for the record of its room.
LEMMA CallsAre ==
    ASSUME CallsInv, NEW x \in calls
    PROVE  /\ x.generation <= room[x.room].generation
           /\ Current(x) =>
                  /\ room[x.room].busy /\ room[x.room].peer
                  /\ room[x.room].record = x.previous
                  /\ ~Ended(x.previous)
                  /\ Turn[Len(x.previous.events) + 1] = Seat(x.room)
  BY DEF CallsInv

\* A room that starts another generation abandons its moves.
LEMMA CallsRest ==
    ASSUME DuelTypeOK, CallsInv, NEW r \in Rooms,
           \A q \in Rooms : q # r => room'[q] = room[q],
           room'[r].generation = room[r].generation + 1, calls' \subseteq calls
    PROVE  CallsInv'
<1>1. \A x \in calls' : x.room \in Rooms /\ x.generation \in Nat /\ x \in calls
  BY CallIs
<1>2. room[r].generation \in Nat
  BY RoomIs
<1>3. \A x \in calls' : /\ x.generation <= room'[x.room].generation
                        /\ Current(x)' => x.room # r /\ Current(x)
                        /\ x.room # r => room'[x.room] = room[x.room]
  BY <1>1, <1>2 DEF CallsInv, Current
<1> QED
  BY <1>1, <1>3 DEF CallsInv

\* A step that leaves generations and records alone.
LEMMA CallsSame ==
    ASSUME DuelTypeOK, CallsInv,
           \A q \in Rooms : /\ room'[q].generation = room[q].generation
                            /\ room'[q].record = room[q].record
                            /\ room'[q].peer = room[q].peer
                            /\ room'[q].busy = room[q].busy,
           calls' \subseteq calls
    PROVE  CallsInv'
<1>1. \A x \in calls' : x.room \in Rooms /\ x \in calls
  BY CallIs
<1>2. \A x \in calls' : Current(x)' <=> Current(x)
  BY <1>1 DEF Current
<1> QED
  BY <1>1, <1>2 DEF CallsInv

\* A room without a move under way may begin one.
LEMMA CallsPlay ==
    ASSUME DuelTypeOK, DuelTypeOK', CallsInv, NEW r \in Rooms, NEW rest,
           \A q \in Rooms : q # r => room'[q] = room[q],
           room'[r].generation = room[r].generation, room'[r].peer,
           rest \subseteq calls, \A y \in rest : y.room = r => ~Current(y),
           \A y \in calls' : y \in rest \/ Begins(r, y)'
    PROVE  CallsInv'
<1>1. \A y \in calls' : /\ y.room \in Rooms
                        /\ y = [room |-> y.room, generation |-> y.generation,
                                previous |-> y.previous, stage |-> y.stage]
  BY DEF DuelTypeOK, Calls
<1>2. room'[r].generation \in Nat
  BY RoomIs
<1>3. ASSUME NEW y \in calls', y \in rest
      PROVE  /\ y \in calls /\ y.generation <= room'[y.room].generation
             /\ Current(y)' => y.room # r /\ Current(y) /\ room'[y.room] = room[y.room]
  BY <1>1, <1>3 DEF CallsInv, Current
<1>4. ASSUME NEW y \in calls', Begins(r, y)'
      PROVE  /\ y.room = r /\ y.generation = room'[r].generation
             /\ y.previous = room'[r].record /\ y.stage = "pacing"
             /\ y.generation <= room'[r].generation
             /\ room'[r].busy /\ ~Ended(y.previous)
             /\ Turn[Len(y.previous.events) + 1] = Seat(y.room)
  BY <1>2, <1>4 DEF Begins
<1>5. \A y \in calls' :
           /\ y.generation <= room'[y.room].generation
           /\ Current(y)' =>
                  /\ room'[y.room].busy /\ room'[y.room].peer
                  /\ room'[y.room].record = y.previous
                  /\ ~Ended(y.previous)
                  /\ Turn[Len(y.previous.events) + 1] = Seat(y.room)
  BY <1>3, <1>4, CallsAre
<1>6. ASSUME NEW x \in calls', NEW y \in calls', Current(x)', Current(y)', x.room = y.room
      PROVE  x = y
  <2>1. CASE x.room = r
    <3>1. Begins(r, x)' /\ Begins(r, y)'
      BY <1>3, <1>6, <2>1
    <3>2. /\ x.generation = y.generation /\ x.previous = y.previous
          /\ x.stage = y.stage
      BY <1>4, <3>1
    <3> QED
      BY <1>1, <1>6, <3>2
  <2>2. CASE x.room # r
    <3>1. x \in rest /\ y \in rest
      BY <1>4, <1>6, <2>2
    <3>2. x \in calls /\ y \in calls /\ Current(x) /\ Current(y)
      BY <1>3, <1>6, <3>1
    <3> QED
      BY <1>6, <3>2 DEF CallsInv
  <2> QED
    BY <2>1, <2>2
<1> QED
  BY <1>5, <1>6 DEF CallsInv

\* A room whose game has not started has no move under way, nor has one that
\* takes a move of the other seat.
LEMMA Idle ==
    ASSUME DuelTypeOK, Duels, CallsInv, NEW r \in Rooms,
           \/ ~room[r].started
           \/ Turn[Len(room[r].record.events) + 1] = 1 - Seat(r)
    PROVE  \A y \in calls : y.room = r => ~Current(y)
<1> SUFFICES ASSUME NEW y \in calls, y.room = r, Current(y) PROVE FALSE
  OBVIOUS
<1>1. /\ room[r].busy /\ room[r].record = y.previous
      /\ Turn[Len(y.previous.events) + 1] = Seat(r)
  BY CallsAre
<1>2. room[r].started
  BY <1>1, DuelsAre DEF Flags, Playable
<1>3. Seat(r) = 0 \/ Seat(r) = 1
  BY SeatIs
<1> QED
  BY <1>1, <1>2, <1>3

\* What is known of a ply that was asked for.
LEMMA AskedAre ==
    ASSUME DuelTypeOK, AskedInv, NEW y \in DOMAIN asked
    PROVE  /\ asked[y] = 1
           /\ y.room \in Rooms /\ y.id \in Channels /\ y.ply \in Nat
           /\ Turn[y.ply] = Seat(y.room) /\ Turn[y.ply] \in Seats
           /\ Done(y)
<1>1. y \in Plies
  BY DEF DuelTypeOK, BagToSet
<1>2. y.room \in Rooms /\ y.id \in Channels /\ y.ply \in 1..moveLimit
  BY <1>1 DEF Plies
<1>3. y.ply \in Nat
  BY <1>2, Apart
<1>4. Turn[y.ply] = Seat(y.room) /\ asked[y] = 1 /\ Done(y)
  BY DEF AskedInv
<1> QED
  BY <1>2, <1>3, <1>4, SeatIs

\* Plies asked for stay in order while they stay behind.
LEMMA AskedKeeps ==
    ASSUME DuelTypeOK, AskedInv, asked' = asked, consents \subseteq consents',
           \A d \in Channels : end[d][1] # "none" =>
               end'[d][1] # "none" /\ invitation'[d] = invitation[d],
           \A y \in DOMAIN asked : Done(y)'
    PROVE  AskedInv'
<1>1. \A y \in DOMAIN asked : y.id \in Channels
  BY AskedAre
<1>2. \A y \in DOMAIN asked : Agreed(y.id)' /\ end'[y.id][1] # "none"
  BY <1>1 DEF AskedInv, Agreed
<1> QED
  BY <1>2 DEF AskedInv

\* A ply is behind once its end is closed.
LEMMA DoneCloses ==
    ASSUME NEW y, end'[y.id][Turn[y.ply]] \in {"closed", "gone"}
    PROVE  Done(y)'
  BY DEF Done

\* What was asked stays behind when rooms only go on.
LEMMA DoneStays ==
    ASSUME DuelTypeOK, Duels, AskedInv, NEW y \in DOMAIN asked,
           end[y.id][Turn[y.ply]] \in {"closed", "gone"} =>
               end'[y.id][Turn[y.ply]] \in {"closed", "gone"},
           room[y.room].conn = y.id /\ room[y.room].started =>
               /\ room'[y.room].conn = y.id /\ room'[y.room].started
               /\ \/ /\ Len(Events(y.room)') = Len(Events(y.room))
                     /\ \A x \in calls : /\ Current(x) /\ x.room = y.room
                                         /\ x.stage = "asking"
                                         => x \in calls' /\ Current(x)'
                  \/ Len(Events(y.room)') = Len(Events(y.room)) + 1
    PROVE  Done(y)'
<1>1. CASE end[y.id][Turn[y.ply]] \in {"closed", "gone"}
  BY <1>1, DoneCloses
<1>2. CASE /\ room[y.room].conn = y.id /\ room[y.room].started
           /\ \/ y.ply <= Len(Events(y.room))
              \/ /\ y.ply = Len(Events(y.room)) + 1
                 /\ \E x \in calls : Current(x) /\ x.room = y.room /\ x.stage = "asking"
  <2>1. y.ply \in Nat /\ y.room \in Rooms
    BY AskedAre
  <2>2. room'[y.room].conn = y.id /\ room'[y.room].started
    BY <1>2
  <2>3. CASE /\ Len(Events(y.room)') = Len(Events(y.room))
             /\ \A x \in calls : Current(x) /\ x.room = y.room /\ x.stage = "asking"
                                 => x \in calls' /\ Current(x)'
    <3>1. (\E x \in calls : Current(x) /\ x.room = y.room /\ x.stage = "asking") =>
              \E x \in calls' : Current(x)' /\ x.room = y.room /\ x.stage = "asking"
      BY <2>3
    <3> QED
      BY <1>2, <2>2, <2>3, <3>1 DEF Done
  <2>4. CASE Len(Events(y.room)') = Len(Events(y.room)) + 1
    <3>1. PICK n, k : n = Len(Events(y.room)) /\ k = Len(Events(y.room)')
      OBVIOUS
    <3>2. n \in Int
      <4>1. room[y.room].record \in Records
        BY <1>2, <2>1, RoomIs, DuelsAre DEF Flags, Playable
      <4>2. Events(y.room) \in Seq(Decisions)
        BY <4>1, RecordIs DEF Events
      <4> QED
        BY <3>1, <4>2
    <3>3. y.ply <= k
      BY <1>2, <2>1, <2>4, <3>1, <3>2
    <3> QED
      BY <2>2, <3>1, <3>3 DEF Done
  <2> QED
    BY <1>2, <2>3, <2>4
<1> QED
  BY <1>1, <1>2, AskedAre DEF Done

\* The runs under way and the plies asked for.
Plying == CallsInv /\ AskedInv

\* Leaving a room abandons its runs and closes its end.
LEMMA ShutPlies ==
    ASSUME DuelTypeOK, Duels, Plying, NEW r \in Rooms, Shut(r)
    PROVE  Plying'
<1>1. /\ \A q \in Rooms : q # r => room'[q] = room[q]
      /\ room'[r].generation = room[r].generation + 1
      /\ calls' \subseteq calls /\ \A x \in calls : x.room # r => x \in calls'
      /\ asked' = asked /\ consents' = consents /\ invitation' = invitation
  BY DEF Shut, ShutRoom
<1>2. CallsInv'
  BY <1>1, CallsRest DEF Plying
<1>3. \A d \in Channels : end[d][1] # "none" =>
               end'[d][1] # "none" /\ invitation'[d] = invitation[d]
  BY <1>1, ShutEndIs
<1>4. ASSUME NEW y \in DOMAIN asked PROVE Done(y)'
  <2>1. /\ y.room \in Rooms /\ y.id \in Channels
        /\ Turn[y.ply] = Seat(y.room) /\ Turn[y.ply] \in Seats /\ Done(y)
    BY <1>4, AskedAre DEF Plying
  <2>2. CASE end[y.id][Turn[y.ply]] \in {"closed", "gone"}
    BY <2>1, <2>2, ShutEndIs, DoneCloses
  <2>3. CASE end[y.id][Turn[y.ply]] \notin {"closed", "gone"} /\ y.room = r
    <3>1. room[r].conn = y.id
      BY <2>1, <2>3 DEF Done
    <3> QED
      BY <2>1, <2>3, <3>1, ShutEndIs, DoneCloses
  <2>4. CASE end[y.id][Turn[y.ply]] \notin {"closed", "gone"} /\ y.room # r
    <3>1. room'[y.room] = room[y.room]
      BY <1>1, <2>1, <2>4
    <3>2. Len(Events(y.room)') = Len(Events(y.room))
      BY <3>1 DEF Events
    <3>3. \A x \in calls : Current(x) /\ x.room = y.room => x \in calls' /\ Current(x)'
      BY <1>1, <2>4, <3>1 DEF Current
    <3> QED
      BY <2>4, <3>1, <3>2, <3>3, DoneStays DEF Plying
  <2> QED
    BY <2>2, <2>3, <2>4
<1> QED
  BY <1>1, <1>2, <1>3, <1>4, AskedKeeps DEF Plying

\* A room that opens had no channel.
LEMMA OpenedPlies ==
    ASSUME DuelTypeOK, Duels, Plying, NEW r \in Rooms, ~room[r].peer,
           \A q \in Rooms : q # r => room'[q] = room[q],
           room'[r].generation = room[r].generation + 1,
           \A d \in Channels : end[d][1] # "none" =>
               invitation'[d] = invitation[d] /\ end'[d] = end[d],
           calls' = calls, asked' = asked, consents' = consents
    PROVE  Plying'
<1>1. CallsInv'
  BY CallsRest DEF Plying
<1>2. room[r].conn = None
  BY DuelsAre DEF Ends
<1>3. ASSUME NEW y \in DOMAIN asked PROVE Done(y)'
  <2>1. y.room \in Rooms /\ y.id \in Channels /\ end[y.id][1] # "none"
    BY <1>3, AskedAre DEF Plying, AskedInv
  <2>2. end'[y.id] = end[y.id] /\ y.id # None
    BY <2>1, Apart
  <2>3. room[y.room].conn = y.id =>
            /\ room'[y.room] = room[y.room]
            /\ Len(Events(y.room)') = Len(Events(y.room))
            /\ \A x \in calls : Current(x) /\ x.room = y.room => x \in calls' /\ Current(x)'
    BY <1>2, <2>1, <2>2 DEF Events, Current
  <2> QED
    BY <1>3, <2>2, <2>3, DoneStays DEF Plying
<1> QED
  BY <1>1, <1>3, AskedKeeps DEF Plying

\* A step that concerns no game.
Keeps(q) ==
    /\ room'[q].generation = room[q].generation
    /\ room'[q].record = room[q].record
    /\ room'[q].peer = room[q].peer
    /\ room'[q].busy = room[q].busy
    /\ room'[q].started = room[q].started
    /\ room[q].conn # None => room'[q].conn = room[q].conn

\* It keeps both.
LEMMA KeptPlies ==
    ASSUME DuelTypeOK, Duels, Plying,
           \A q \in Rooms : Keeps(q),
           calls' \subseteq calls, \A x \in calls : Current(x) => x \in calls',
           \A d \in Channels, s \in Seats :
               /\ end[d][s] \in {"closed", "gone"} => end'[d][s] = end[d][s]
               /\ end[d][s] # "none" => end'[d][s] # "none",
           invitation' = invitation, asked' = asked, consents \subseteq consents'
    PROVE  Plying'
<1>1. CallsInv'
  BY CallsSame DEF Plying, Keeps
<1>2. ASSUME NEW y \in DOMAIN asked PROVE Done(y)'
  <2>1. y.room \in Rooms /\ y.id \in Channels /\ y.id # None /\ Turn[y.ply] \in Seats
    BY <1>2, AskedAre, Apart DEF Plying
  <2>2. end[y.id][Turn[y.ply]] \in {"closed", "gone"} =>
               end'[y.id][Turn[y.ply]] \in {"closed", "gone"}
    BY <2>1
  <2>3. Len(Events(y.room)') = Len(Events(y.room))
    BY <2>1 DEF Events, Keeps
  <2>4. room[y.room].conn = y.id /\ room[y.room].started =>
            room'[y.room].conn = y.id /\ room'[y.room].started
    BY <2>1 DEF Keeps
  <2>5. \A x \in calls : Current(x) /\ x.room = y.room => x \in calls' /\ Current(x)'
    BY <2>1 DEF Current, Keeps
  <2> QED
    BY <1>2, <2>2, <2>3, <2>4, <2>5, DoneStays DEF Plying
<1>3. \A d \in Channels : end[d][1] # "none" =>
               end'[d][1] # "none" /\ invitation'[d] = invitation[d]
  OBVIOUS
<1> QED
  BY <1>1, <1>2, <1>3, AskedKeeps DEF Plying

\* A room goes on: it has no other move under way, and may begin one.
LEMMA PlayedPlies ==
    ASSUME DuelTypeOK, DuelTypeOK', Duels, Plying, NEW r \in Rooms, NEW rest,
           \A q \in Rooms : q # r => room'[q] = room[q],
           room'[r].generation = room[r].generation, room'[r].peer,
           rest \subseteq calls, rest \subseteq calls',
           \A y \in rest : y.room = r => ~Current(y),
           \A y \in calls : y \in rest \/ y.room = r,
           \A y \in calls' : y \in rest \/ Begins(r, y)',
           room[r].started =>
               /\ room'[r].conn = room[r].conn /\ room'[r].started
               /\ \/ Len(Events(r)') = Len(Events(r)) + 1
                  \/ Len(Events(r)') = Len(Events(r)) /\ rest = calls,
           end' = end, invitation' = invitation, asked' = asked,
           consents \subseteq consents'
    PROVE  Plying'
<1>1. CallsInv'
  BY CallsPlay DEF Plying
<1>2. ASSUME NEW y \in DOMAIN asked PROVE Done(y)'
  <2>1. y.room \in Rooms
    BY <1>2, AskedAre DEF Plying
  <2>2. CASE y.room = r
    <3>1. room[r].conn = y.id /\ room[r].started =>
              /\ room'[r].conn = y.id /\ room'[r].started
              /\ \/ /\ Len(Events(r)') = Len(Events(r))
                    /\ \A x \in calls : ~(Current(x) /\ x.room = r)
                 \/ Len(Events(r)') = Len(Events(r)) + 1
      OBVIOUS
    <3>2. room[y.room].conn = y.id /\ room[y.room].started =>
              /\ room'[y.room].conn = y.id /\ room'[y.room].started
              /\ \/ /\ Len(Events(y.room)') = Len(Events(y.room))
                    /\ \A x \in calls : /\ Current(x) /\ x.room = y.room
                                        /\ x.stage = "asking"
                                        => x \in calls' /\ Current(x)'
                 \/ Len(Events(y.room)') = Len(Events(y.room)) + 1
      BY <2>2, <3>1
    <3> QED
      BY <1>2, <3>2, DoneStays DEF Plying
  <2>3. CASE y.room # r
    <3>1. room'[y.room] = room[y.room]
      BY <2>1, <2>3
    <3>2. Len(Events(y.room)') = Len(Events(y.room))
      BY <3>1 DEF Events
    <3>3. \A x \in calls : Current(x) /\ x.room = y.room => x \in calls' /\ Current(x)'
      BY <2>3, <3>1 DEF Current
    <3> QED
      BY <1>2, <3>1, <3>2, <3>3, DoneStays DEF Plying
  <2> QED
    BY <2>2, <2>3
<1>3. \A d \in Channels : end[d][1] # "none" =>
               end'[d][1] # "none" /\ invitation'[d] = invitation[d]
  OBVIOUS
<1> QED
  BY <1>1, <1>2, <1>3, AskedKeeps DEF Plying

-----------------------------------------------------------------------------
(* Every action keeps all of it.                                           *)

\* The inductive invariant.
DuelInd == DuelTypeOK /\ Duels /\ Plying

\* Leaving a room keeps it,
LEMMA ShutKeeps ==
    ASSUME DuelInd, NEW r \in Rooms, Shut(r)
    PROVE  DuelInd'
  BY ShutTyped, ShutDuels, ShutPlies DEF DuelInd

\* by whatever way,
LEMMA ClosesKeeps ==
    ASSUME DuelInd, NEW r \in Rooms, Closes(r) \/ receiveStop(r)
    PROVE  DuelInd'
  BY LeaveShuts, VanishShuts, ShutKeeps DEF DuelInd, Closes, TimeOut, receiveStop

\* also because of a fault of the agent.
LEMMA FaultKeeps ==
    ASSUME DuelInd, NEW x \in calls, Fault(x)
    PROVE  DuelInd'
<1>1. x.room \in Rooms /\ room[x.room].peer
  BY CallIs, CallsAre DEF DuelInd, Plying, Fault
<1> QED
  BY <1>1, FaultShuts, ShutKeeps DEF DuelInd

\* The steps of the lobby keep it.
LEMMA HostKeeps ==
    ASSUME DuelInd, host
    PROVE  DuelInd'
<1>1. DuelTypeOK' /\ Duels'
  BY HostTyped, HostDuels DEF DuelInd
<1>2. /\ \A q \in Rooms : q # Host => room'[q] = room[q]
      /\ room'[Host].generation = room[Host].generation + 1
      /\ ~room[Host].peer
      /\ UNCHANGED <<invitation, end, calls, asked, consents>>
  BY HostSets DEF DuelInd, NewRoom
<1>3. Plying'
  BY <1>2, SeatIs, OpenedPlies DEF DuelInd
<1> QED
  BY <1>1, <1>3 DEF DuelInd

\* A guest that joins keeps it.
LEMMA JoinKeeps ==
    ASSUME DuelInd, NEW g \in Guests, join(g)
    PROVE  DuelInd'
<1>1. DuelTypeOK' /\ Duels'
  BY JoinTyped, JoinDuels DEF DuelInd
<1>c. PICK c : c = <<g, room[g].opens + 1>>
  OBVIOUS
<1>2. /\ c \in Channels
      /\ \A q \in Rooms : q # g => room'[q] = room[q]
      /\ room'[g].generation = room[g].generation + 1
      /\ ~room[g].peer
      /\ \A d \in Channels : d # c => invitation'[d] = invitation[d]
      /\ end' = PutEnd(c, 1, "opening")
      /\ UNCHANGED <<calls, asked, consents>>
  BY <1>c, JoinSets DEF DuelInd, NewRoom
<1>3. end[c][1] = "none"
  <2>1. c[1] = g /\ c[2] = room[g].opens + 1 /\ room[g].opens \in Nat
    BY <1>c, SeatIs, RoomIs DEF DuelInd
  <2>2. c[2] > room[c[1]].opens
    BY <2>1
  <2> QED
    BY <1>2, <2>2, DuelsAre DEF DuelInd, Ends
<1>4. \A d \in Channels : d # c => end'[d] = end[d]
  BY <1>2, EndPut DEF DuelInd, EndStates
<1>5. g \in Rooms
  BY SeatIs
<1>6. Plying'
  BY <1>2, <1>3, <1>4, <1>5, OpenedPlies DEF DuelInd
<1> QED
  BY <1>1, <1>6 DEF DuelInd

\* The steps of channels and of a guest that presses Ready.
LEMMA ConnectsKeeps ==
    ASSUME DuelInd, NEW c \in Channels, Connects(c)
    PROVE  DuelInd'
<1>1. CASE Admit(c)
  <2>1. DuelTypeOK' /\ Duels'
    BY <1>1, AdmitTyped, AdmitDuels DEF DuelInd
  <2>2. /\ \A q \in Rooms : Keeps(q)
        /\ end[c][0] = "none" /\ end[c][1] = "opening"
        /\ end' = PutEnd(c, 0, "opening")
        /\ UNCHANGED <<invitation, calls, asked, consents>>
    BY <1>1, AdmitSets DEF DuelInd, Keeps
  <2>3. \A d \in Channels, s \in Seats :
               /\ end[d][s] \in {"closed", "gone"} => end'[d][s] = end[d][s]
               /\ end[d][s] # "none" => end'[d][s] # "none"
    BY <2>2, EndPut DEF DuelInd, EndStates
  <2> QED
    BY <2>1, <2>2, <2>3, KeptPlies DEF DuelInd
<1>2. CASE TurnAway(c)
  <2>1. DuelTypeOK' /\ Duels'
    BY <1>2, TurnAwayTyped, TurnAwayDuels DEF DuelInd
  <2>2. /\ \A q \in Rooms : Keeps(q)
        /\ end[c][0] = "none"
        /\ end' = PutEnd(c, 0, "closed")
        /\ UNCHANGED <<invitation, calls, asked, consents>>
    BY <1>2, TurnAwaySets DEF DuelInd, Keeps
  <2>3. \A d \in Channels, s \in Seats :
               /\ end[d][s] \in {"closed", "gone"} => end'[d][s] = end[d][s]
               /\ end[d][s] # "none" => end'[d][s] # "none"
    BY <2>2, EndPut DEF DuelInd, EndStates
  <2> QED
    BY <2>1, <2>2, <2>3, KeptPlies DEF DuelInd
<1>3. ASSUME NEW t \in Seats, ChannelOpens(c, t) PROVE DuelInd'
  <2>1. DuelTypeOK' /\ Duels'
    BY <1>3, OpensTyped, OpensDuels DEF DuelInd
  <2>2. /\ \A q \in Rooms : Keeps(q)
        /\ end[c][t] = "opening"
        /\ \A d \in Channels, s \in Seats : ~(d = c /\ s = t) => end'[d][s] = end[d][s]
        /\ end'[c][t] = "open"
        /\ UNCHANGED <<invitation, calls, asked, consents>>
    BY <1>3, OpensSets DEF DuelInd, Keeps
  <2>3. \A d \in Channels, s \in Seats :
               /\ end[d][s] \in {"closed", "gone"} => end'[d][s] = end[d][s]
               /\ end[d][s] # "none" => end'[d][s] # "none"
    BY <2>2
  <2> QED
    BY <2>1, <2>2, <2>3, KeptPlies DEF DuelInd
<1> QED
  BY <1>1, <1>2, <1>3 DEF Connects

\* A guest that presses Ready keeps it.
LEMMA ReadyGuestKeeps ==
    ASSUME DuelInd, NEW g \in Guests, readyGuest(g)
    PROVE  DuelInd'
<1>1. DuelTypeOK' /\ Duels'
  BY ReadyGuestTyped, ReadyGuestDuels DEF DuelInd
<1>2. PICK c : c = room[g].conn
  OBVIOUS
<1>3. LET now == room'[g]
          old == room[g]
      IN /\ \A q \in Rooms : q # g => room'[q] = room[q]
         /\ now.peer = old.peer /\ now.conn = c
         /\ now.started = old.started /\ now.busy = old.busy
         /\ now.record = old.record
         /\ now.generation = old.generation
         /\ consents' = consents \cup {<<g, old.opens>>}
         /\ UNCHANGED <<invitation, end, flow, calls, asked>>
  BY <1>2, ReadyGuestSets, ZenonT(60) DEF DuelInd
<1>4. \A q \in Rooms : Keeps(q)
  BY <1>2, <1>3 DEF Keeps
<1> QED
  BY <1>1, <1>3, <1>4, KeptPlies DEF DuelInd

\* Steps that leave rooms and channels alone.
LEMMA DuelsSame ==
    ASSUME DuelTypeOK, Duels, UNCHANGED <<room, invitation, end, wire, consents>>
    PROVE  Duels'
<1>1. Ends /\ Flags /\ \A c \in Channels : ChannelInv(c)
  BY DuelsAre
<1>2. Ends'
  BY <1>1, EndsSame DEF Listens
<1>3. Flags'
  BY <1>1, FlagsSame DEF Forward
<1>4. \A c \in Channels : ChannelInv(c)'
  BY <1>1, AsideSame
<1> QED
  BY <1>2, <1>3, <1>4 DEF Duels, Wires, Readiness, Histories, ChannelInv

\* A channel that stalls or resumes keeps it.
LEMMA FlowKeeps ==
    ASSUME DuelInd, NEW c \in Channels, Stall(c) \/ Resume(c)
    PROVE  DuelInd'
<1>1. /\ UNCHANGED <<room, invitation, end, wire, calls, asked, consents>>
      /\ flow' \in [Channels -> {"steady", "stalled", "resumed"}]
  BY DEF Stall, Resume, DuelInd, DuelTypeOK
<1>2. DuelTypeOK' /\ Duels'
  BY <1>1, DuelsSame DEF DuelInd, DuelTypeOK
<1>3. Plying'
  <2>1. \A q \in Rooms : Keeps(q)
    BY <1>1 DEF Keeps
  <2> QED
    BY <1>1, <2>1, KeptPlies DEF DuelInd
<1> QED
  BY <1>2, <1>3 DEF DuelInd

\* A late answer keeps it.
LEMMA ReturnLateKeeps ==
    ASSUME DuelInd, NEW x \in calls, ReturnLate(x)
    PROVE  DuelInd'
<1>1. /\ UNCHANGED <<room, invitation, end, wire, flow, asked, consents>>
      /\ calls' = calls \ {x} /\ ~Current(x)
  BY DEF ReturnLate
<1>2. DuelTypeOK' /\ Duels'
  BY <1>1, DuelsSame DEF DuelInd, DuelTypeOK
<1>3. Plying'
  <2>1. \A q \in Rooms : Keeps(q)
    BY <1>1 DEF Keeps
  <2> QED
    BY <1>1, <2>1, KeptPlies DEF DuelInd
<1> QED
  BY <1>2, <1>3 DEF DuelInd

\* The steps that may begin a move.
LEMMA ReadyHostKeeps ==
    ASSUME DuelInd, readyHost
    PROVE  DuelInd'
<1>1. DuelTypeOK' /\ Duels'
  BY ReadyHostTyped, ReadyHostDuels DEF DuelInd
<1>2. DuelTypeOK /\ Duels /\ Host \in Rooms /\ Seat(Host) = 0
  BY SeatIs DEF DuelInd
<1>3. /\ ~room[Host].started
      /\ \A q \in Rooms : q # Host => room'[q] = room[q]
      /\ room'[Host].peer /\ room'[Host].generation = room[Host].generation
      /\ calls \subseteq calls'
      /\ \A x \in calls' : x \in calls \/ Begins(Host, x)'
      /\ consents \subseteq consents'
      /\ UNCHANGED <<invitation, end, asked>>
  BY <1>2, ReadyHostSets
<1>4. \A y \in calls : y.room = Host => ~Current(y)
  BY <1>2, <1>3, Idle DEF DuelInd, Plying
<1>5. Plying'
  BY <1>1, <1>2, <1>3, <1>4, PlayedPlies DEF DuelInd
<1> QED
  BY <1>1, <1>5 DEF DuelInd

\* The ready of the guest keeps it.
LEMMA ReceiveReadyKeeps ==
    ASSUME DuelInd, receiveReady
    PROVE  DuelInd'
<1>1. DuelTypeOK' /\ Duels'
  BY ReceiveReadyTyped, ReceiveReadyDuels DEF DuelInd
<1>2. DuelTypeOK /\ Duels /\ Host \in Rooms /\ Seat(Host) = 0
  BY SeatIs DEF DuelInd
<1>3. /\ ~room[Host].started
      /\ \A q \in Rooms : q # Host => room'[q] = room[q]
      /\ room'[Host].peer /\ room'[Host].generation = room[Host].generation
      /\ calls \subseteq calls'
      /\ \A x \in calls' : x \in calls \/ Begins(Host, x)'
      /\ UNCHANGED <<invitation, end, asked, consents>>
  BY <1>2, ReceiveReadySets
<1>4. \A y \in calls : y.room = Host => ~Current(y)
  BY <1>2, <1>3, Idle DEF DuelInd, Plying
<1>5. Plying'
  BY <1>1, <1>2, <1>3, <1>4, PlayedPlies DEF DuelInd
<1> QED
  BY <1>1, <1>5 DEF DuelInd

\* A message keeps the runs and the plies: the room had no run under way.
LEMMA ReceivedPlies ==
    ASSUME DuelTypeOK, DuelTypeOK', Duels, Plying, NEW r \in Rooms,
           NEW type, NEW rm, NEW c, NEW s, Received(r, type, rm, c, s),
           rm.generation = room[r].generation, rm.peer, rm.conn = room[r].conn,
           \/ ~room[r].started
           \/ /\ Turn[Len(room[r].record.events) + 1] = 1 - Seat(r)
              /\ rm.started /\ Len(rm.record.events) = Len(Events(r)) + 1
    PROVE  Plying'
<1>1. /\ \A q \in Rooms : q # r => room'[q] = room[q]
      /\ room'[r].peer /\ room'[r].generation = room[r].generation
      /\ room'[r].conn = room[r].conn
      /\ room'[r].started = rm.started /\ room'[r].record = rm.record
      /\ calls \subseteq calls'
      /\ \A x \in calls' : x \in calls \/ Begins(r, x)'
      /\ UNCHANGED <<invitation, end, asked, consents>>
  BY DEF Received, Face
<1>2. \A y \in calls : y.room = r => ~Current(y)
  BY Idle DEF Plying
<1>3. room[r].started => room'[r].started /\ Len(Events(r)') = Len(Events(r)) + 1
  BY <1>1 DEF Events
<1> QED
  BY <1>1, <1>2, <1>3, PlayedPlies

\* The offer and host-ready keep the invariant.
LEMMA HearsKeeps ==
    ASSUME DuelInd, NEW g \in Guests, receiveOffer(g) \/ receiveHostReady(g)
    PROVE  DuelInd'
<1>1. DuelTypeOK /\ Duels /\ Plying /\ g \in Rooms /\ DuelTypeOK' /\ Duels'
  BY HearsTyped, HearsDuels, SeatIs DEF DuelInd
<1>2. PICK type \in {"offer", "host-ready"}, ready \in BOOLEAN :
          /\ HearsOf(g, type, ready)
          /\ room[g].peer /\ ~room[g].started /\ room[g].record = None
  BY <1>1, HearsIs
<1>3. PICK c, s : c = room[g].conn /\ s = Seat(g)
  OBVIOUS
<1> DEFINE rm == Heard(g, ready)
<1>4. /\ rm \in DuelRooms /\ rm.started = room[g].started
      /\ rm.generation = room[g].generation /\ rm.peer = room[g].peer
      /\ rm.conn = room[g].conn
  BY <1>1, HeardIs
<1>5. Receive(g, type, rm)
  BY <1>2 DEF HearsOf
<1> HIDE DEF rm
<1>6. Received(g, type, rm, c, s)
  BY <1>1, <1>2, <1>3, <1>4, <1>5, SeatIs, ReceiveSets
<1>7. Plying'
  BY <1>1, <1>2, <1>4, <1>6, ReceivedPlies
<1> QED
  BY <1>1, <1>7 DEF DuelInd

\* So do start and move at a guest,
LEMMA TakesKeeps ==
    ASSUME DuelInd, NEW g \in Guests, receiveStart(g) \/ receiveMove(g)
    PROVE  DuelInd'
<1>1. /\ DuelTypeOK /\ Duels /\ Plying /\ g \in Rooms /\ Seat(g) = 1
      /\ DuelTypeOK' /\ Duels'
  BY TakesTyped, TakesDuels, SeatIs DEF DuelInd
<1>3. PICK c, s : c = room[g].conn /\ s = Seat(g)
  OBVIOUS
<1>2. PICK type : Takes(g, type, c)
  BY <1>1, <1>3, TakesIs
<1> DEFINE rm == Taken(g)
           m == wire[c][1][1]
<1>4. /\ Receive(g, type, rm) /\ Message(g) = m /\ m.record \in Records
      /\ room[g].peer /\ type \in {"start", "move"}
      /\ type = "start" => ~room[g].started
      /\ type = "move" => acceptDuelMove(room[g].record, m.record, 0)
  BY <1>2 DEF Takes
<1>5. /\ rm \in DuelRooms /\ rm.started = TRUE
      /\ rm.generation = room[g].generation /\ rm.peer = room[g].peer
      /\ rm.conn = room[g].conn /\ rm.record = m.record /\ rm.record # None
  BY <1>1, <1>4, TakenIs
<1> HIDE DEF rm, m
<1>6. Received(g, type, rm, c, s)
  BY <1>1, <1>3, <1>4, <1>5, SeatIs, ReceiveSets
<1>7. \/ ~room[g].started
      \/ /\ Turn[Len(room[g].record.events) + 1] = 1 - Seat(g)
         /\ rm.started /\ Len(rm.record.events) = Len(Events(g)) + 1
  <2>1. type = "move" => /\ Turn[Len(room[g].record.events) + 1] = 0
                         /\ Len(m.record.events) = Len(Events(g)) + 1
    BY <1>4 DEF acceptDuelMove, Events
  <2> QED
    BY <1>1, <1>4, <1>5, <2>1
<1>8. Plying'
  BY <1>1, <1>4, <1>5, <1>6, <1>7, ReceivedPlies
<1> QED
  BY <1>1, <1>8 DEF DuelInd

\* a move at the host,
LEMMA MovesKeeps ==
    ASSUME DuelInd, receiveMove(Host)
    PROVE  DuelInd'
<1>1. /\ DuelTypeOK /\ Duels /\ Plying /\ Host \in Rooms /\ Seat(Host) = 0
      /\ DuelTypeOK' /\ Duels'
  BY MovesTyped, MovesDuels, SeatIs DEF DuelInd
<1>3. PICK c, s : c = room[Host].conn /\ s = Seat(Host)
  OBVIOUS
<1>2. MovesAtHost(c)
  BY <1>1, <1>3, MovesAtHostIs
<1> DEFINE rm == Moved
           m == wire[c][0][1]
<1>4. /\ Receive(Host, "move", rm) /\ Message(Host) = m /\ m.record \in Records
      /\ room[Host].peer /\ room[Host].started
      /\ acceptDuelMove(room[Host].record, m.record, 1)
  BY <1>2 DEF MovesAtHost
<1>5. /\ rm \in DuelRooms /\ rm.started = room[Host].started
      /\ rm.generation = room[Host].generation /\ rm.peer = room[Host].peer
      /\ rm.conn = room[Host].conn /\ rm.record = m.record /\ rm.record # None
  BY <1>1, <1>4, MovedIs
<1> HIDE DEF rm, m
<1>6. Received(Host, "move", rm, c, s)
  BY <1>1, <1>3, <1>4, <1>5, SeatIs, ReceiveSets
<1>7. /\ Turn[Len(room[Host].record.events) + 1] = 1 - Seat(Host)
      /\ rm.started /\ Len(rm.record.events) = Len(Events(Host)) + 1
  <2>1. /\ Turn[Len(room[Host].record.events) + 1] = 1
        /\ Len(m.record.events) = Len(Events(Host)) + 1
    BY <1>4 DEF acceptDuelMove, Events
  <2> QED
    BY <1>1, <1>4, <1>5, <2>1
<1>8. Plying'
  BY <1>1, <1>4, <1>5, <1>6, <1>7, ReceivedPlies
<1> QED
  BY <1>1, <1>8 DEF DuelInd

\* an answer,
LEMMA AnswerKeeps ==
    ASSUME DuelInd, NEW x \in calls, NEW d \in Decisions, Answer(x, d)
    PROVE  DuelInd'
<1>0. DuelTypeOK /\ Duels /\ Plying /\ CallsInv /\ Current(x)
  BY DEF DuelInd, Plying, Answer
<1>1. /\ DuelTypeOK /\ Duels /\ Plying /\ CallsInv /\ DuelTypeOK' /\ Duels'
      /\ Current(x)
  BY <1>0, AnswerTyped, AnswerDuels
<1>2. PICK r, c, s : r = x.room /\ c = room[r].conn /\ s = Seat(r)
  OBVIOUS
<1>3. Plays(r, s, x, d, c)
  BY <1>1, <1>2, AnswerSets
<1>4. /\ r \in Rooms /\ room[r].started /\ room[r].peer /\ room[r].conn = c
      /\ \A q \in Rooms : q # r => room'[q] = room[q]
      /\ room'[r].peer = room[r].peer /\ room'[r].conn = c
      /\ room'[r].started = TRUE
      /\ room'[r].record = Answered(x, d)
      /\ acceptDuelMove(room[r].record, Answered(x, d), s)
      /\ room'[r].generation = room[r].generation
      /\ calls \ {x} \subseteq calls'
      /\ \A y \in calls' : y \in calls \ {x} \/ Begins(r, y)'
      /\ UNCHANGED <<invitation, end, flow, asked, consents>>
  BY <1>3 DEF Plays, Underway
<1>5. \A y \in calls \ {x} : y.room = r => ~Current(y)
  BY <1>1, <1>2 DEF CallsInv
<1>6. Len(Events(r)') = Len(Events(r)) + 1
  BY <1>4 DEF acceptDuelMove, Events
<1>7. \A y \in calls : y \in calls \ {x} \/ y.room = r
  BY <1>2
<1>8. PICK rest : rest = calls \ {x}
  OBVIOUS
<1>9. Plying'
  <2>1. /\ rest \subseteq calls /\ rest \subseteq calls'
        /\ \A y \in rest : y.room = r => ~Current(y)
        /\ \A y \in calls : y \in rest \/ y.room = r
        /\ \A y \in calls' : y \in rest \/ Begins(r, y)'
    BY <1>4, <1>5, <1>7, <1>8
  <2>2. room[r].started =>
               /\ room'[r].conn = room[r].conn /\ room'[r].started
               /\ \/ Len(Events(r)') = Len(Events(r)) + 1
                  \/ Len(Events(r)') = Len(Events(r)) /\ rest = calls
    BY <1>4, <1>6
  <2>3. room'[r].peer /\ end' = end /\ invitation' = invitation /\ asked' = asked
        /\ consents \subseteq consents'
    BY <1>4
  <2> QED
    BY <1>1, <1>4, <2>1, <2>2, <2>3, PlayedPlies
<1> QED
  BY <1>1, <1>9 DEF DuelInd

\* An agent is asked for a ply it was not asked for before.
LEMMA AskIs ==
    ASSUME DuelInd, NEW x \in calls, Ask(x), NEW r, r = x.room, NEW c, c = room[r].conn
    PROVE  /\ Underway(r, x, c) /\ Current(x) /\ x.stage = "pacing"
           /\ Ply(x) = [room |-> r, id |-> c, ply |-> Len(Events(r)) + 1]
           /\ Ply(x) \in Plies /\ Ply(x) \notin DOMAIN asked
           /\ Turn[Len(Events(r)) + 1] = Seat(r)
           /\ Len(Events(r)) \in Nat
<1>1. DuelTypeOK /\ Duels /\ Plying /\ CallsInv /\ Current(x) /\ x.stage = "pacing"
  BY DEF DuelInd, Plying, Ask
<1>2. Underway(r, x, c)
  BY <1>1, UnderwayIs
<1>3. /\ r \in Rooms /\ c \in Channels /\ room[r].record = x.previous /\ room[r].record \in Records
      /\ room[r].record.id = c /\ room[r].conn = c /\ room[r].started
  BY <1>2 DEF Underway
<1>4. Ply(x) = [room |-> r, id |-> c, ply |-> Len(Events(r)) + 1]
  BY <1>3 DEF Ply, Events
<1>5. ~Ended(room[r].record) /\ Turn[Len(Events(r)) + 1] = Seat(r)
  BY <1>1, <1>3, CallsAre DEF Events
<1>6. Len(Events(r)) \in Nat /\ Len(Events(r)) + 1 \in 1..moveLimit
  <2>1. Events(r) \in Seq(Decisions)
    BY <1>3, RecordIs DEF Events
  <2>2. ~(Len(Events(r)) >= moveLimit)
    BY <1>5 DEF Ended, Events
  <2>3. Len(Events(r)) \in Nat
    BY <2>1
  <2> QED
    BY <2>2, <2>3, Apart
<1>7. Ply(x) \in Plies
  BY <1>3, <1>4, <1>6 DEF Plies
<1>8. ASSUME Ply(x) \in DOMAIN asked PROVE FALSE
  <2>1. PICK y : y = Ply(x) /\ y \in DOMAIN asked
    BY <1>8
  <2>2. y.room = r /\ y.id = c /\ y.ply = Len(Events(r)) + 1 /\ Done(y)
    BY <1>1, <1>4, <2>1, AskedAre DEF Plying
  <2>3. Turn[y.ply] = Seat(r) /\ Listens(c, Seat(r))
    BY <1>1, <1>3, <1>5, <2>2, DuelsAre, Apart DEF Ends
  <2>4. end[c][Seat(r)] \in {"opening", "open"}
    BY <2>3 DEF Listens
  <2>5. ~(y.ply <= Len(Events(y.room)))
    BY <1>6, <2>2
  <2>6. PICK z \in calls : Current(z) /\ z.room = r /\ z.stage = "asking"
    BY <2>2, <2>3, <2>4, <2>5 DEF Done
  <2>7. z = x
    BY <1>1, <2>6 DEF CallsInv
  <2> QED
    BY <1>1, <2>6, <2>7
<1> QED
  BY <1>1, <1>2, <1>4, <1>5, <1>6, <1>7, <1>8

\* and a question.
LEMMA AskKeeps ==
    ASSUME DuelInd, NEW x \in calls, Ask(x)
    PROVE  DuelInd'
<1>0. DuelTypeOK /\ Duels /\ CallsInv /\ AskedInv
  BY DEF DuelInd, Plying
<1>1. PICK r, c, e, z : /\ r = x.room /\ c = room[r].conn /\ e = Ply(x)
                        /\ z = [x EXCEPT !.stage = "asking"]
  OBVIOUS
<1>2. /\ Underway(r, x, c) /\ Current(x)
      /\ e = [room |-> r, id |-> c, ply |-> Len(Events(r)) + 1]
      /\ e \in Plies /\ e \notin DOMAIN asked
      /\ Turn[Len(Events(r)) + 1] = Seat(r)
  BY <1>1, AskIs
<1>3. /\ calls' = (calls \ {x}) \cup {z}
      /\ asked' = asked (+) SetToBag({e})
      /\ UNCHANGED <<room, invitation, end, wire, flow, consents>>
  BY <1>1 DEF Ask
<1>4. /\ z \in Calls /\ z.room = r /\ z.generation = x.generation
      /\ z.previous = x.previous /\ z.stage = "asking"
  BY <1>0, <1>1 DEF DuelTypeOK, Calls
<1>5. /\ DOMAIN asked' = DOMAIN asked \cup {e}
      /\ asked'[e] = 1
      /\ \A y \in DOMAIN asked : asked'[y] = asked[y]
      /\ IsABag(asked')
  <2>1. IsABag(asked)
    BY <1>0 DEF DuelTypeOK
  <2> QED
    <3>1. e \notin DOMAIN asked
      BY <1>2
    <3>2. /\ DOMAIN (asked (+) SetToBag({e})) = DOMAIN asked \cup {e}
          /\ (asked (+) SetToBag({e}))[e] = 1
          /\ \A y \in DOMAIN asked : (asked (+) SetToBag({e}))[y] = asked[y]
          /\ IsABag(asked (+) SetToBag({e}))
      BY <2>1, <3>1, AddedIs
    <3> QED
      BY <1>3, <3>2
<1>6. DuelTypeOK'
  <2>1. calls' \subseteq Calls
    BY <1>0, <1>3, <1>4 DEF DuelTypeOK
  <2>2. DOMAIN asked' \subseteq Plies
    BY <1>0, <1>2, <1>5 DEF DuelTypeOK, BagToSet
  <2> QED
    BY <1>0, <1>3, <1>5, <2>1, <2>2 DEF DuelTypeOK, BagToSet
<1>7. Duels'
  BY <1>0, <1>3, DuelsSame
<1>8. \A y : Current(y)' <=> Current(y)
  BY <1>3 DEF Current
<1>9. CallsInv'
  <2>1. \A y \in calls' : y = z \/ (y \in calls /\ y # x)
    BY <1>3
  <2>2. Current(z)
    BY <1>1, <1>2, <1>4 DEF Current
  <2>3. ASSUME NEW y \in calls'
        PROVE  /\ y.generation <= room[y.room].generation
               /\ Current(y) =>
                  /\ room[y.room].busy /\ room[y.room].peer
                  /\ room[y.room].record = y.previous
                  /\ ~Ended(y.previous)
                  /\ Turn[Len(y.previous.events) + 1] = Seat(y.room)
    <3>1. CASE y = z
      BY <1>0, <1>1, <1>2, <1>4, <3>1, CallsAre
    <3>2. CASE y \in calls
      BY <1>0, <3>2, CallsAre
    <3> QED
      BY <2>1, <3>1, <3>2
  <2>4. ASSUME NEW y \in calls', NEW u \in calls', Current(y), Current(u), y.room = u.room
        PROVE  y = u
    <3>1. \A k \in calls : k # x /\ Current(k) => k.room # r
      BY <1>0, <1>1, <1>2 DEF CallsInv
    <3>2. CASE y = z
      BY <1>4, <2>1, <2>4, <3>1, <3>2
    <3>3. CASE u = z
      BY <1>4, <2>1, <2>4, <3>1, <3>3
    <3>4. CASE y \in calls /\ u \in calls
      BY <1>0, <2>4, <3>4 DEF CallsInv
    <3> QED
      BY <2>1, <3>2, <3>3, <3>4
  <2> QED
    BY <1>3, <1>8, <2>3, <2>4 DEF CallsInv
<1>10. ASSUME NEW y \in DOMAIN asked PROVE Done(y)'
  <2>1. \A k \in calls : Current(k) /\ k.stage = "asking" => k \in calls' /\ Current(k)'
    BY <1>3, <1>8 DEF Ask
  <2>2. Len(Events(y.room)') = Len(Events(y.room))
    BY <1>3 DEF Events
  <2> QED
    BY <1>0, <1>3, <1>10, <2>1, <2>2, DoneStays
<1>11. Done(e)'
  <2>1. /\ e.room = r /\ e.id = c /\ e.ply = Len(Events(r)) + 1
        /\ room[r].conn = c /\ room[r].started
    BY <1>1, <1>2 DEF Underway
  <2>2. z \in calls' /\ Current(z)' /\ z.room = e.room /\ z.stage = "asking"
    BY <1>1, <1>2, <1>3, <1>4, <1>8, <2>1 DEF Current
  <2> QED
    BY <1>3, <2>1, <2>2 DEF Done, Events
<1>12. /\ e.room = At(e.id, Turn[e.ply]) /\ Seat(e.room) = Turn[e.ply]
       /\ Agreed(e.id) /\ end[e.id][1] # "none"
  <2>1. /\ r \in Rooms /\ c \in Channels /\ room[r].conn = c /\ c # None /\ room[r].started
        /\ room[r].record.id = c /\ Playable(r)
    BY <1>2 DEF Underway
  <2>2. At(c, Seat(r)) = r /\ Listens(c, Seat(r))
    BY <1>0, <2>1, DuelsAre DEF Ends
  <2>3. Agreed(c)
    BY <2>1 DEF Playable
  <2>4. end[c][1] # "none"
    <3>1. Seat(r) \in Seats /\ (end[c][1] = "none" => end[c][0] = "none")
      BY <1>0, <2>1, SeatIs, DuelsAre DEF Ends
    <3> QED
      BY <2>2, <3>1 DEF Listens
  <2> QED
    BY <1>2, <2>2, <2>3, <2>4
<1>13. AskedInv'
  <2>1. ASSUME NEW y \in DOMAIN asked'
        PROVE  /\ asked'[y] = 1
               /\ y.room = At(y.id, Turn[y.ply]) /\ Seat(y.room) = Turn[y.ply]
               /\ Agreed(y.id)'
               /\ end'[y.id][1] # "none"
               /\ Done(y)'
    <3>1. CASE y = e
      BY <1>3, <1>5, <1>11, <1>12, <3>1 DEF Agreed
    <3>2. CASE y \in DOMAIN asked
      BY <1>0, <1>3, <1>5, <1>10, <3>2 DEF AskedInv, Agreed
    <3> QED
      BY <1>5, <3>1, <3>2
  <2> QED
    BY <2>1 DEF AskedInv
<1> QED
  BY <1>6, <1>7, <1>9, <1>13 DEF DuelInd, Plying

-----------------------------------------------------------------------------
(* The inductive invariant.                                                *)

\* The initial state is typed.
LEMMA InitIsTyped ==
    ASSUME Init
    PROVE  /\ room \in [Rooms -> DuelRooms] /\ wire \in Wirings
           /\ DuelTypeOK
<1>1. room \in [Rooms -> DuelRooms]
  <2>1. ClosedRoom(0, 0) \in DuelRooms
    BY DEF ClosedRoom, DuelRooms
  <2> QED
    BY <2>1 DEF Init
<1>2. wire \in Wirings
  <2>1. [s \in Seats |-> <<>>] \in Lines
    <3>1. <<>> \in Seq(Messages)
      OBVIOUS
    <3> QED
      BY <3>1 DEF Lines
  <2> QED
    BY <2>1 DEF Init, Wirings
<1>3. end \in [Channels -> [Seats -> EndStates]]
  BY DEF Init, EndStates
<1>4. IsABag(asked) /\ BagToSet(asked) \subseteq Plies
  BY DEF Init, EmptyBag, SetToBag, IsABag, BagToSet
<1>5. /\ invitation \in [Channels -> Nat]
      /\ flow \in [Channels -> {"steady", "stalled", "resumed"}]
      /\ calls \subseteq Calls /\ consents \subseteq Rooms \X Nat
  BY DEF Init
<1> QED
  BY <1>1, <1>2, <1>3, <1>4, <1>5 DEF DuelTypeOK

\* The invariant holds at first.
LEMMA InitHolds == ASSUME Init PROVE DuelInd
<1>1. DuelTypeOK
  BY InitIsTyped
<1>2. /\ \A r \in Rooms :
             LET rm == room[r]
             IN /\ ~rm.peer /\ rm.conn = None /\ ~rm.localReady /\ ~rm.remoteReady
                /\ ~rm.started /\ ~rm.busy /\ ~rm.offer /\ rm.record = None /\ rm.opens = 0
      /\ \A c \in Channels, s \in Seats : end[c][s] = "none" /\ wire[c][s] = <<>>
      /\ calls = {} /\ DOMAIN asked = {}
  BY DEF Init, ClosedRoom, EmptyBag, SetToBag
<1>3. \A c \in Channels, s \in Seats : ~Listens(c, s) /\ On(wire[c][s]) = {}
  BY <1>2, NothingOn DEF Listens
<1>4. Ends
  BY <1>2, <1>3, SeatIs, ChannelShape DEF Ends
<1>5. Flags
  <2>1. \A r \in Rooms : Playable(r)
    BY <1>2 DEF Playable
  <2>2. HostReadiness /\ \A g \in Guests : GuestReadiness(g)
    BY <1>2, SeatIs DEF HostReadiness, GuestReadiness
  <2> QED
    BY <2>1, <2>2 DEF Flags
<1>6. ASSUME NEW c \in Channels PROVE ChannelInv(c)
  <2>1. /\ wire[c][0] = <<>> /\ wire[c][1] = <<>> /\ On(wire[c][0]) = {} /\ On(wire[c][1]) = {}
        /\ ~Listens(c, 0) /\ ~Listens(c, 1) /\ end[c][0] = "none"
    BY <1>2, <1>3
  <2>2. c[1] \in Rooms /\ Host \in Rooms
    BY ChannelShape, SeatIs
  <2>3. ~Holds(Host, c) /\ ~Holds(c[1], c)
    BY <1>2, <2>2 DEF Holds
  <2>4. GuestWire(c) /\ HostWire(c)
    BY <2>1, GuestNothing, HostNothing DEF GuestWire, HostWire
  <2>5. Knows(c)
    BY <2>1 DEF Knows
  <2>6. History(c)
    BY <2>1, <2>3 DEF History
  <2> QED
    BY <2>4, <2>5, <2>6 DEF ChannelInv
<1>7. Plying
  BY <1>2 DEF Plying, CallsInv, AskedInv
<1> QED
  BY <1>1, <1>4, <1>5, <1>6, <1>7, DuelsAre DEF DuelInd

\* Every step keeps it.
LEMMA NextKeeps ==
    ASSUME DuelInd, [Next]_vars
    PROVE  DuelInd'
<1>1. CASE Lobby
  BY <1>1, HostKeeps, ReadyHostKeeps, JoinKeeps, ReadyGuestKeeps DEF Lobby
<1>2. CASE Receives
  <2>1. ASSUME NEW r \in Rooms, receiveMove(r) PROVE DuelInd'
    BY <2>1, MovesKeeps, TakesKeeps
  <2>2. ASSUME NEW r \in Rooms, receiveStop(r) PROVE DuelInd'
    BY <2>2, ClosesKeeps
  <2>3. ASSUME NEW g \in Guests, receiveOffer(g) \/ receiveHostReady(g) PROVE DuelInd'
    BY <2>3, HearsKeeps
  <2>4. ASSUME NEW g \in Guests, receiveStart(g) PROVE DuelInd'
    BY <2>4, TakesKeeps
  <2> QED
    BY <1>2, <2>1, <2>2, <2>3, <2>4, ReceiveReadyKeeps DEF Receives
<1>3. ASSUME NEW r \in Rooms, Closes(r) PROVE DuelInd'
  BY <1>3, ClosesKeeps
<1>4. ASSUME NEW c \in Channels, Connects(c) \/ Stall(c) \/ Resume(c) PROVE DuelInd'
  BY <1>4, ConnectsKeeps, FlowKeeps
<1>5. ASSUME NEW x \in calls, Moves(x) PROVE DuelInd'
  BY <1>5, AskKeeps, ReturnLateKeeps, FaultKeeps, AnswerKeeps DEF Moves
<1>6. CASE UNCHANGED vars
  <2>1. UNCHANGED <<room, invitation, end, wire, flow, calls, asked, consents>>
    BY <1>6 DEF vars
  <2>2. DuelTypeOK' /\ Duels'
    BY <2>1, DuelsSame DEF DuelInd, DuelTypeOK
  <2>3. \A q \in Rooms : Keeps(q)
    BY <2>1 DEF Keeps
  <2>4. Plying'
    BY <2>1, <2>3, KeptPlies DEF DuelInd
  <2> QED
    BY <2>2, <2>4 DEF DuelInd
<1> QED
  BY <1>1, <1>2, <1>3, <1>4, <1>5, <1>6 DEF Next

\* In every reachable state rooms, channels, messages, histories, runs of move()
\* and the plies asked for agree as the invariant says, for any number of guests,
\* rooms and plies.
THEOREM DuelInvariant == Spec => [](DuelTypeOK /\ Duels /\ CallsInv /\ AskedInv)
<1>1. Init => DuelInd
  BY InitHolds
<1>2. DuelInd /\ [Next]_vars => DuelInd'
  BY NextKeeps
<1>3. DuelInd => DuelTypeOK /\ Duels /\ CallsInv /\ AskedInv
  BY DEF DuelInd, Plying
<1> QED
  BY <1>1, <1>2, <1>3, PTL DEF Spec

-----------------------------------------------------------------------------
(* What follows from it.                                                   *)

\* What follows of the plies asked for,
LEMMA CallsFollow == ASSUME DuelInd PROVE CallsAreAgreed
<1>0. DuelTypeOK /\ AskedInv
  BY DEF DuelInd, Plying
<1>1. \A x \in DOMAIN asked : /\ asked[x] = 1
                              /\ Turn[x.ply] = Seat(x.room)
                              /\ x.room = At(x.id, Turn[x.ply])
                              /\ {<<Host, invitation[x.id]>>, x.id} \subseteq consents
                              /\ x = [room |-> x.room, id |-> x.id, ply |-> x.ply]
  <2>1. DOMAIN asked \subseteq Plies
    BY <1>0 DEF DuelTypeOK, BagToSet
  <2>2. \A x \in Plies : x = [room |-> x.room, id |-> x.id, ply |-> x.ply]
    BY DEF Plies
  <2>3. \A x \in DOMAIN asked :
            /\ asked[x] = 1 /\ Seat(x.room) = Turn[x.ply]
            /\ x.room = At(x.id, Turn[x.ply]) /\ Agreed(x.id)
    BY <1>0 DEF AskedInv
  <2> QED
    BY <2>1, <2>2, <2>3 DEF Agreed
<1>2. ASSUME NEW x \in DOMAIN asked, NEW y \in DOMAIN asked, x.id = y.id, x.ply = y.ply
      PROVE  x = y
  <2>1. x.room = y.room
    BY <1>1, <1>2
  <2> QED
    BY <1>1, <1>2, <2>1
<1> QED
  BY <1>1, <1>2 DEF CallsAreAgreed, BagToSet

\* of the messages,
LEMMA MessagesFollow == ASSUME DuelInd PROVE MessagesAreExpected
<1> SUFFICES ASSUME NEW r \in Rooms, HasMessage(r) PROVE Expects(r, Message(r))
  BY DEF MessagesAreExpected
<1>0. DuelTypeOK /\ Duels
  BY DEF DuelInd
<1>1. PICK c, m : c = room[r].conn /\ m = Message(r)
  OBVIOUS
<1>2. CASE r = Host
  <2>1. /\ c \in Channels /\ wire[c][0] # <<>> /\ m = wire[c][0][1]
    BY <1>0, <1>1, <1>2, SeatIs, RestIs
  <2>2. FirstAtHost(room[Host], m)
    BY <1>0, <1>1, <1>2, <2>1, HostHas DEF HostWire, ToHost
  <2>3. Seat(Host) = 0
    BY SeatIs
  <2>4. Expects(Host, m)
    BY <2>2, <2>3 DEF FirstAtHost, Expects
  <2> QED
    BY <1>1, <1>2, <2>4
<1>3. CASE r \in Guests
  <2>1. /\ c \in Channels /\ wire[c][1] # <<>> /\ m = wire[c][1][1] /\ m \in On(wire[c][1])
        /\ Seat(r) = 1 /\ r # Host
    <3>1. /\ c \in Channels /\ wire[c][1] # <<>> /\ wire[c][1] \in Seq(Messages)
          /\ m = wire[c][1][1] /\ Seat(r) = 1 /\ r # Host
      BY <1>0, <1>1, <1>3, SeatIs, RestIs
    <3>2. m \in On(wire[c][1])
      BY <3>1, OnTyped
    <3> QED
      BY <3>1, <3>2
  <2>2. room[r].peer
    BY <1>0, <1>1, <1>3, <2>1, GuestTakes, ChannelShape
  <2>3. GuestWire(c) /\ c[1] = r
    BY <1>0, <1>1, <1>3, <2>2, GuestHas
  <2>4. FirstAtGuest(room[r], m)
    BY <2>1, <2>3 DEF GuestWire, ToGuest
  <2>5. m.type = "start" => room[r].localReady
    BY <2>1, <2>3 DEF GuestWire
  <2>6. Expects(r, m)
    BY <2>1, <2>4, <2>5 DEF FirstAtGuest, Expects
  <2> QED
    BY <1>1, <2>6
<1> QED
  BY <1>2, <1>3

\* The histories of the host and of a guest in one duel.
Agrees(r, q) ==
    Len(Events(r)) >= Len(Events(q)) =>
        /\ IsPrefix(Events(q), Events(r))
        /\ \A n \in (Len(Events(q)) + 1)..Len(Events(r)) : Turn[n] = Seat(r)

\* A history that another one is within differs by moves of one seat.
LEMMA WithinAgrees ==
    ASSUME NEW a \in Seq(Decisions), NEW b \in Seq(Decisions), NEW s, NEW t,
           Within(a, b, s) \/ Within(b, a, t), Len(b) >= Len(a)
    PROVE  /\ IsPrefix(a, b)
           /\ \A n \in (Len(a) + 1)..Len(b) : Turn[n] = s
<1>1. Within(a, b, s)
  <2>1. CASE Within(b, a, t)
    <3>1. a = b
      BY <2>1, WithinSame
    <3> QED
      BY <3>1, WithinItself
  <2> QED
    BY <2>1
<1> QED
  BY <1>1, WithinPrefix DEF Within

\* and of the records.
LEMMA ReplaysFollow == ASSUME DuelInd PROVE ReplaysAgree
<1>0. DuelTypeOK /\ Duels
  BY DEF DuelInd
<1> SUFFICES ASSUME NEW r \in Rooms, NEW q \in Rooms, SameDuel(r, q) PROVE Agrees(r, q)
  BY DEF ReplaysAgree, Agrees, Record, Events
<1>1. PICK c : c = room[r].record.id
  OBVIOUS
<1>2. /\ room[r].started /\ room[q].started /\ room[q].record.id = c
      /\ room[r].record # None /\ room[q].record # None
      /\ At(c, Seat(r)) = r /\ At(c, Seat(q)) = q
  BY <1>0, <1>1, DuelsAre DEF SameDuel, Record, Flags, Playable
<1>3. room[r].record \in Records /\ room[q].record \in Records /\ c \in Channels
  BY <1>0, <1>1, <1>2, RoomIs, RecordIs
<1>4. Events(r) \in Seq(Decisions) /\ Events(q) \in Seq(Decisions)
  BY <1>3, RecordIs DEF Events
<1>5. Holds(r, c) /\ Holds(q, c) /\ History(c)
  BY <1>0, <1>1, <1>2, <1>3, DuelsAre DEF Holds, ChannelInv
<1>6. At(c, 0) = Host /\ At(c, 1) = c[1] /\ Seat(Host) = 0 /\ c[1] \in Guests /\ Seat(c[1]) = 1
  BY <1>3, ChannelShape, SeatIs
<1>7. r \in {Host, c[1]} /\ q \in {Host, c[1]}
  BY <1>2, <1>6, SeatIs
<1>8. CASE r = q
  <2>1. Within(Events(r), Events(r), Seat(r))
    BY <1>4, WithinItself
  <2> QED
    BY <1>4, <1>8, <2>1, WithinAgrees DEF Agrees
<1>9. CASE r # q
  <2>1. \/ r = Host /\ q = c[1]
        \/ r = c[1] /\ q = Host
    BY <1>7, <1>9
  <2>2. Within(Events(c[1]), Events(Host), 0) \/ Within(Events(Host), Events(c[1]), 1)
    BY <1>5, <2>1 DEF History
  <2>3. CASE r = Host /\ q = c[1]
    BY <1>4, <1>6, <2>2, <2>3, WithinAgrees DEF Agrees
  <2>4. CASE r = c[1] /\ q = Host
    BY <1>4, <1>6, <2>2, <2>4, WithinAgrees DEF Agrees
  <2> QED
    BY <2>1, <2>3, <2>4
<1> QED
  BY <1>8, <1>9

\* The invariant, by its name.
LEMMA DuelIndHolds == Spec => []DuelInd
<1>1. Init => DuelInd
  BY InitHolds
<1>2. DuelInd /\ [Next]_vars => DuelInd'
  BY NextKeeps
<1> QED
  BY <1>1, <1>2, PTL DEF Spec

\* An agent is asked for a ply once, for one seat, and only in a duel whose two
\* owners pressed Ready.
THEOREM CallsAgreed == Spec => []CallsAreAgreed
<1>1. DuelInd => CallsAreAgreed
  BY CallsFollow
<1> QED
  BY <1>1, DuelIndHolds, PTL

\* No message between rooms that follow the protocol is an invalid update.
THEOREM MessagesExpected == Spec => []MessagesAreExpected
<1>1. DuelInd => MessagesAreExpected
  BY MessagesFollow
<1> QED
  BY <1>1, DuelIndHolds, PTL

\* Host and guest have the same replay, up to moves of one side that did not
\* arrive.
THEOREM ReplayAgreement == Spec => []ReplaysAgree
<1>1. DuelInd => ReplaysAgree
  BY ReplaysFollow
<1> QED
  BY <1>1, DuelIndHolds, PTL

-----------------------------------------------------------------------------
(* Closed rooms.                                                           *)

\* A step concerns a room that is open before it or after it.
Concerns(r) ==
    /\ room[r].peer \/ room'[r].peer
    /\ \A q \in Rooms : q # r => room'[q] = room[q]

\* Only an open room receives.
LEMMA ReceiverIsOpen ==
    ASSUME DuelInd, NEW r \in Rooms, HasMessage(r),
           NEW rm, NEW rest, advance(r, rm, rest)
    PROVE  Concerns(r)
<1>1. DuelTypeOK /\ Ends
  BY DuelsAre DEF DuelInd
<1>2. room[r].conn # None
  BY DEF HasMessage, IsOpen
<1>3. room[r].peer
  BY <1>1, <1>2 DEF Ends
<1>4. \A q \in Rooms : q # r => room'[q] = room[q]
  BY <1>1 DEF advance, DuelTypeOK
<1> QED
  BY <1>3, <1>4 DEF Concerns

\* Messages concern an open room and ask no agent,
LEMMA ReceivesConcern ==
    ASSUME DuelInd, Receives
    PROVE  asked' = asked /\ \E r \in Rooms : Concerns(r)
<1>1. ASSUME NEW r \in Rooms, NEW type, NEW rm, Receive(r, type, rm)
      PROVE  asked' = asked /\ Concerns(r)
  <2>1. asked' = asked /\ HasMessage(r) /\ advance(r, rm, calls)
    BY <1>1 DEF Receive, Arriving
  <2> QED
    BY <2>1, ReceiverIsOpen
<1>2. ASSUME NEW g \in Guests, receiveOffer(g) \/ receiveHostReady(g) \/ receiveStart(g)
      PROVE  asked' = asked /\ Concerns(g)
  BY <1>1, <1>2, SeatIs DEF receiveOffer, receiveHostReady, receiveStart
<1>3. ASSUME NEW r \in Rooms, receiveMove(r) PROVE asked' = asked /\ Concerns(r)
  BY <1>1, <1>3 DEF receiveMove
<1>4. ASSUME NEW r \in Rooms, receiveStop(r) PROVE asked' = asked /\ Concerns(r)
  <2>1. Shut(r)
    BY <1>4, LeaveShuts DEF DuelInd, receiveStop
  <2> QED
    BY <2>1 DEF Shut, ShutRoom, Concerns
<1>5. ASSUME receiveReady PROVE asked' = asked /\ Concerns(Host)
  <2>1. DuelTypeOK /\ Duels
    BY DEF DuelInd
  <2>2. /\ room[Host].peer
        /\ \A q \in Rooms : q # Host => room'[q] = room[q]
        /\ asked' = asked
    BY <1>5, <2>1, ReceiveReadySets
  <2> QED
    BY <2>2 DEF Concerns
<1>6. Host \in Rooms /\ \A g \in Guests : g \in Rooms
  BY SeatIs
<1>7. CASE \E g \in Guests : receiveOffer(g) \/ receiveHostReady(g) \/ receiveStart(g)
  BY <1>2, <1>6, <1>7
<1>8. CASE receiveReady
  BY <1>5, <1>6, <1>8
<1>9. CASE \E r \in Rooms : receiveMove(r) \/ receiveStop(r)
  BY <1>3, <1>4, <1>9
<1> QED
  BY <1>7, <1>8, <1>9 DEF Receives

\* nor do the steps of the lobby,
LEMMA LobbyConcerns ==
    ASSUME DuelInd, Lobby
    PROVE  asked' = asked /\ \E r \in Rooms : Concerns(r)
<1>0. DuelTypeOK /\ Duels /\ Host \in Rooms /\ \A g \in Guests : g \in Rooms
  BY SeatIs DEF DuelInd
<1>1. ASSUME host PROVE asked' = asked /\ Concerns(Host)
  BY <1>0, <1>1, HostSets DEF NewRoom, Concerns
<1>2. ASSUME readyHost PROVE asked' = asked /\ Concerns(Host)
  <2>1. /\ room[Host].peer /\ asked' = asked
        /\ \A q \in Rooms : q # Host => room'[q] = room[q]
    BY <1>0, <1>2, ReadyHostSets
  <2> QED
    BY <2>1 DEF Concerns
<1>3. ASSUME NEW g \in Guests, join(g) PROVE asked' = asked /\ Concerns(g)
  BY <1>0, <1>3, JoinSets DEF NewRoom, Concerns
<1>4. ASSUME NEW g \in Guests, readyGuest(g) PROVE asked' = asked /\ Concerns(g)
  <2>1. asked' = asked /\ room[g].peer /\ room' = [room EXCEPT ![g].localReady = TRUE]
    BY <1>4 DEF readyGuest, Consent, CanBeReady
  <2>2. \A q \in Rooms : q # g => room'[q] = room[q]
    BY <1>0, <2>1 DEF DuelTypeOK
  <2> QED
    BY <2>1, <2>2 DEF Concerns
<1> QED
  BY <1>0, <1>1, <1>2, <1>3, <1>4 DEF Lobby

\* nor those of channels;
LEMMA ConnectsConcern ==
    ASSUME DuelInd, NEW c \in Channels, Connects(c) \/ Stall(c) \/ Resume(c)
    PROVE  asked' = asked /\ (room' = room \/ \E r \in Rooms : Concerns(r))
<1>1. CASE Admit(c)
  <2>1. /\ asked' = asked /\ room[Host].peer /\ Host \in Rooms
        /\ \A q \in Rooms : q # Host => room'[q] = room[q]
    BY <1>1, AdmitSets, SeatIs DEF DuelInd
  <2> QED
    BY <2>1 DEF Concerns
<1>2. CASE TurnAway(c) \/ (\E s \in Seats : ChannelOpens(c, s)) \/ Stall(c) \/ Resume(c)
  BY <1>2 DEF TurnAway, ChannelOpens, Stall, Resume
<1> QED
  BY <1>1, <1>2 DEF Connects

\* of the runs of move(), only Ask does.
LEMMA MovesConcern ==
    ASSUME DuelInd, NEW x \in calls, Moves(x)
    PROVE  \/ asked' = asked /\ (room' = room \/ \E r \in Rooms : Concerns(r))
           \/ Ask(x)
<1>0. DuelTypeOK /\ Duels /\ Plying /\ CallsInv /\ x.room \in Rooms
  BY CallIs DEF DuelInd, Plying
<1>1. CASE ReturnLate(x)
  BY <1>1 DEF ReturnLate
<1>2. CASE Fault(x)
  <2>1. Shut(x.room)
    BY <1>0, <1>2, CallsAre, FaultShuts DEF Fault
  <2> QED
    BY <1>0, <2>1 DEF Shut, ShutRoom, Concerns
<1>3. ASSUME NEW d \in Decisions, Answer(x, d)
      PROVE  asked' = asked /\ Concerns(x.room)
  <2>1. PICK r, c, s : r = x.room /\ c = room[r].conn /\ s = Seat(r)
    OBVIOUS
  <2>2. Plays(r, s, x, d, c)
    BY <1>0, <1>3, <2>1, AnswerSets
  <2>3. asked' = asked /\ room[r].peer /\ \A q \in Rooms : q # r => room'[q] = room[q]
    BY <2>2 DEF Plays, Underway
  <2> QED
    BY <2>1, <2>3 DEF Concerns
<1> QED
  BY <1>0, <1>1, <1>2, <1>3 DEF Moves

\* What ClosedRoomsRest says of a step.
ClosedRest ==
    \A r \in Rooms :
        ~room[r].peer /\ ~room'[r].peer =>
            /\ room'[r].record = room[r].record
            /\ \A x \in BagToSet(asked' (-) asked) : x.room # r

\* It holds if no agent is asked,
LEMMA NothingAsked ==
    ASSUME DuelInd, asked' = asked,
           room' = room \/ \E r \in Rooms : Concerns(r)
    PROVE  ClosedRest
<1>1. BagToSet(asked' (-) asked) = {}
  BY NothingAdded DEF DuelInd, DuelTypeOK
<1>2. \A r \in Rooms : ~room[r].peer /\ ~room'[r].peer => room'[r] = room[r]
  BY DEF Concerns
<1> QED
  BY <1>1, <1>2 DEF ClosedRest

\* and if one is, since its room is open.
LEMMA AskOfOpen ==
    ASSUME DuelInd, NEW x \in calls, Ask(x)
    PROVE  ClosedRest
<1>1. PICK r, c, e : r = x.room /\ c = room[r].conn /\ e = Ply(x)
  OBVIOUS
<1>2. /\ Underway(r, x, c) /\ e = [room |-> r, id |-> c, ply |-> Len(Events(r)) + 1]
      /\ e \notin DOMAIN asked
  BY <1>1, AskIs
<1>3. room[r].peer /\ e.room = r
  BY <1>2 DEF Underway
<1>4. asked' = asked (+) SetToBag({e}) /\ room' = room
  BY <1>1 DEF Ask
<1>5. \A y \in BagToSet((asked (+) SetToBag({e})) (-) asked) : y = e
  <2>1. IsABag(asked)
    BY DEF DuelInd, DuelTypeOK
  <2> QED
    BY <1>2, <2>1, AddedIs
<1> QED
  BY <1>3, <1>4, <1>5 DEF ClosedRest

\* Hence of every step.
LEMMA RestFollows ==
    ASSUME DuelInd, [Next]_vars
    PROVE  ClosedRest
<1>1. CASE Lobby \/ Receives
  BY <1>1, LobbyConcerns, ReceivesConcern, NothingAsked
<1>2. ASSUME NEW r \in Rooms, Closes(r) PROVE ClosedRest
  <2>1. Shut(r)
    BY <1>2, LeaveShuts, VanishShuts DEF DuelInd, Closes, TimeOut
  <2>2. asked' = asked /\ Concerns(r)
    BY <2>1 DEF Shut, ShutRoom, Concerns
  <2> QED
    BY <2>2, NothingAsked
<1>3. ASSUME NEW c \in Channels, Connects(c) \/ Stall(c) \/ Resume(c) PROVE ClosedRest
  BY <1>3, ConnectsConcern, NothingAsked
<1>4. ASSUME NEW x \in calls, Moves(x) PROVE ClosedRest
  BY <1>4, MovesConcern, NothingAsked, AskOfOpen
<1>5. CASE UNCHANGED vars
  BY <1>5, NothingAsked DEF vars
<1> QED
  BY <1>1, <1>2, <1>3, <1>4, <1>5 DEF Next

\* A closed room keeps its record and asks no agent.
THEOREM RoomsRest == Spec => ClosedRoomsRest
<1>1. DuelInd /\ [Next]_vars => ClosedRest
  BY RestFollows
<1>2. Spec => [][ClosedRest]_vars
  BY <1>1, DuelIndHolds, PTL DEF Spec
<1> QED
  BY <1>2 DEF ClosedRoomsRest, ClosedRest
=============================================================================
