-------------------------- MODULE RequestNonceProofs --------------------------
(***************************************************************************)
(* A signed request is accepted at most once, and refused as a replay only *)
(* if one was accepted, for every number of runners, keys, nonces and      *)
(* threads and every window that RetentionAssumption allows.               *)
(***************************************************************************)
EXTENDS RequestNonce, TLAPS

\* The fields of a call that has verified a request, or observed the clock.
LEMMA CallFields ==
    ASSUME TypeOK, NEW c \in Calls
    PROVE  /\ call[c].stage = "verified" => call[c].req \in Requests
           /\ call[c].stage = "observed" =>
                  call[c].req \in Requests /\ call[c].at \in Instants
<1>1. call[c] \in CallStates
  BY DEF TypeOK
<1> QED
  BY <1>1 DEF CallStates, Idle, Verified, Observed

LEMMA RequestFields ==
    ASSUME NEW req \in Requests
    PROVE  req.runner \in Runners /\ req.nonce \in Nonces /\ req.stamp \in 0..MaxTime
  BY DEF Requests, Instants

\* A call sees a request inside the window and commits within MaxStall, and
\* every later purge until then keeps the row that spent the request.
LEMMA RowOutlivesTheWindow ==
    ASSUME NEW stamp \in Nat, NEW rowAt \in Nat, NEW at \in Nat, at <= now,
           now \in Nat, rowAt + MaxFuture >= stamp,
           now <= stamp + MaxAge + MaxStall
    PROVE  rowAt >= at - Retention
  BY RetentionAssumption, WindowAssumption

\* The first sighting of a request is no earlier than MaxFuture before it.
LEMMA WindowBounds ==
    ASSUME NEW req \in Requests, NEW t \in Instants, InWindow(req, t)
    PROVE  t + MaxFuture >= req.stamp /\ req.stamp + MaxAge >= t
  BY RequestFields, WindowAssumption DEF InWindow, Instants

LEMMA InitIInv == Init => IInv
<1> SUFFICES ASSUME Init PROVE IInv
  OBVIOUS
<1>1. TypeOK
  BY WindowAssumption DEF Init, TypeOK, Instants, CallStates, NonceRows
<1>2. \A c \in Calls : FreshCall(c)
  BY DEF Init, FreshCall, Idle
<1>3. \A req \in Requests : accepted[req] = 0
  BY DEF Init
<1> QED
  BY <1>1, <1>2, <1>3 DEF IInv, AcceptedOnce

\* Steps that leave the table of nonces and the history alone.
LEMMA PairKeeps ==
    ASSUME IInv, NEW r \in Runners, Pair(r)
    PROVE  IInv'
<1>1. TypeOK'
  BY DEF IInv, TypeOK, Pair, Stored
<1>2. \A c \in Calls : FreshCall(c)'
  BY DEF IInv, FreshCall, Pair
<1>3. \A s \in Runners : runner'[s].key = runner[s].key
                      /\ (runner[s].state = "deleted" => runner'[s].state = "deleted")
  BY DEF IInv, TypeOK, Pair
<1>4. ASSUME NEW req \in Requests, accepted'[req] > 0 PROVE Spent(req)'
  BY <1>3, <1>4, RequestFields DEF IInv, Spent, Pair
<1> QED
  BY <1>1, <1>2, <1>4 DEF IInv, AcceptedOnce, Pair

LEMMA RevokeKeeps ==
    ASSUME IInv, NEW r \in Runners, RevokeRunner(r)
    PROVE  IInv'
<1>1. TypeOK'
  BY DEF IInv, TypeOK, RevokeRunner, Stored
<1>2. \A c \in Calls : FreshCall(c)'
  BY DEF IInv, FreshCall, RevokeRunner
<1>3. \A s \in Runners : runner'[s].key = runner[s].key
                      /\ (runner[s].state = "deleted" => runner'[s].state = "deleted")
  BY DEF IInv, TypeOK, RevokeRunner
<1>4. ASSUME NEW req \in Requests, accepted'[req] > 0 PROVE Spent(req)'
  BY <1>3, <1>4, RequestFields DEF IInv, Spent, RevokeRunner
<1> QED
  BY <1>1, <1>2, <1>4 DEF IInv, AcceptedOnce, RevokeRunner

\* A deleted runner takes its own rows with it, and its requests are refused
\* for good.
LEMMA DeleteKeeps ==
    ASSUME IInv, NEW r \in Runners, DeleteRunner(r)
    PROVE  IInv'
<1>1. /\ runner'[r].state = "deleted"
      /\ \A s \in Runners : s # r => runner'[s] = runner[s]
      /\ \A n \in nonces : n.runner # r => n \in nonces'
      /\ now' = now
  BY DEF IInv, TypeOK, DeleteRunner
<1>2. TypeOK'
  BY DEF IInv, TypeOK, DeleteRunner, Stored
<1>3. \A c \in Calls : FreshCall(c)'
  BY DEF IInv, FreshCall, DeleteRunner
<1>4. ASSUME NEW req \in Requests, accepted'[req] > 0 PROVE Spent(req)'
  <2>1. Spent(req)
    BY <1>4 DEF IInv, DeleteRunner
  <2>2. CASE req.runner = r
    BY <1>1, <2>2 DEF Spent
  <2>3. CASE req.runner # r
    BY <1>1, <2>1, <2>3, RequestFields DEF Spent
  <2> QED
    BY <2>2, <2>3
<1> QED
  BY <1>2, <1>3, <1>4 DEF IInv, AcceptedOnce, DeleteRunner

LEMMA VerifyKeeps ==
    ASSUME IInv, NEW c \in Calls, NEW req \in Requests, Verify(c, req)
    PROVE  IInv'
<1>1. call' = [call EXCEPT ![c] = Verified(req)] /\ Verified(req) \in CallStates
  BY DEF Verify, CallStates
<1>2. TypeOK'
  BY <1>1 DEF IInv, TypeOK, Verify, Stored
<1>3. \A d \in Calls : FreshCall(d)'
  BY <1>1 DEF IInv, TypeOK, FreshCall, Verify, Verified
<1>4. \A q \in Requests : Spent(q) => Spent(q)'
  BY DEF Spent, Verify
<1> QED
  BY <1>2, <1>3, <1>4 DEF IInv, AcceptedOnce, Verify

LEMMA ObserveKeeps ==
    ASSUME IInv, NEW c \in Calls, Observe(c)
    PROVE  IInv'
<1> DEFINE next == IF InWindow(call[c].req, now)
                   THEN Observed(call[c].req, now) ELSE Idle
<1>1. call[c].req \in Requests /\ now \in Instants
  BY CallFields DEF IInv, TypeOK, Observe
<1>2. call' = [call EXCEPT ![c] = next] /\ next \in CallStates
  BY <1>1 DEF Observe, CallStates
<1>3. TypeOK'
  BY <1>2 DEF IInv, TypeOK, Observe, Stored
<1>4. ASSUME NEW d \in Calls PROVE FreshCall(d)'
  <2>1. CASE d # c
    BY <1>2, <2>1 DEF IInv, TypeOK, FreshCall, Observe
  <2>2. CASE d = c /\ InWindow(call[c].req, now)
    <3>1. call'[c] = Observed(call[c].req, now) /\ now' = now
      BY <1>2, <2>2 DEF IInv, TypeOK, Observe
    <3>2. now <= now /\ now <= now + MaxStall
      BY <1>1, WindowAssumption DEF Instants
    <3> QED
      BY <2>2, <3>1, <3>2 DEF FreshCall, Observed, InWindow
  <2>3. CASE d = c /\ ~InWindow(call[c].req, now)
    BY <1>2, <2>3 DEF IInv, TypeOK, FreshCall, Idle
  <2> QED
    BY <2>1, <2>2, <2>3
<1>5. \A q \in Requests : Spent(q) => Spent(q)'
  BY DEF Spent, Observe
<1> QED
  BY <1>3, <1>4, <1>5 DEF IInv, AcceptedOnce, Observe

LEMMA RefuseKeeps ==
    ASSUME IInv, NEW c \in Calls, Refuse(c)
    PROVE  IInv'
<1>1. /\ call' = [call EXCEPT ![c] = Idle]
      /\ UNCHANGED <<now, runner, nonces, accepted>>
  BY DEF Refuse
<1>2. TypeOK'
  BY <1>1 DEF IInv, TypeOK, Stored, CallStates
<1>3. \A d \in Calls : FreshCall(d)'
  BY <1>1 DEF IInv, TypeOK, FreshCall, Idle
<1>4. \A q \in Requests : Spent(q) => Spent(q)'
  BY <1>1 DEF Spent
<1> QED
  BY <1>1, <1>2, <1>3, <1>4 DEF IInv, AcceptedOnce

\* Time alone spends nothing back: the deadline of the second disjunct passes.
LEMMA TickKeeps ==
    ASSUME IInv, Tick
    PROVE  IInv'
<1>1. now \in Nat /\ now' = now + 1 /\ now' \in Instants
  BY WindowAssumption DEF IInv, TypeOK, Tick, Instants
<1>2. TypeOK'
  BY <1>1 DEF IInv, TypeOK, Tick, Stored
<1>3. ASSUME NEW c \in Calls PROVE FreshCall(c)'
  BY <1>1, CallFields DEF IInv, FreshCall, Tick, Instants, InWindow
<1>4. ASSUME NEW q \in Requests, Spent(q) PROVE Spent(q)'
  BY <1>1, <1>4, RequestFields, WindowAssumption DEF Spent, Tick
<1> QED
  BY <1>2, <1>3, <1>4 DEF IInv, AcceptedOnce, Tick

\* An accepted request was not spent before, and nothing that was spent comes
\* back: the purge keeps every row that still matters.
LEMMA AcceptKeeps ==
    ASSUME IInv, NEW c \in Calls, Accept(c)
    PROVE  IInv'
<1> PICK req \in Requests : req = call[c].req
  BY CallFields DEF IInv, Accept
<1> PICK at \in Instants : at = call[c].at
  BY CallFields DEF IInv, Accept
<1> DEFINE row == [key |-> runner[req.runner].key, nonce |-> req.nonce,
                   runner |-> req.runner, at |-> at]
<1>1. /\ req \in Requests /\ at \in Instants
      /\ at <= now /\ now <= at + MaxStall /\ InWindow(req, at)
  BY DEF IInv, FreshCall, Accept
<1>2. /\ runner[req.runner].state = "active"
      /\ \A n \in Kept(at) : n.key # row.key \/ n.nonce # row.nonce
      /\ nonces' = Kept(at) \cup {row}
      /\ accepted' = [accepted EXCEPT ![req] = @ + 1]
      /\ call' = [call EXCEPT ![c] = Idle]
      /\ now' = now /\ runner' = runner
  BY DEF Accept
<1>3. /\ now \in Nat /\ at \in Nat /\ req.stamp \in Nat
      /\ now <= req.stamp + MaxAge + MaxStall
      /\ at + MaxFuture >= req.stamp
  BY <1>1, WindowBounds, RequestFields, WindowAssumption
     DEF IInv, TypeOK, Instants
<1>4. ASSUME NEW q \in Requests, NEW n \in nonces,
             n.at + MaxFuture >= q.stamp, now <= q.stamp + MaxAge + MaxStall
      PROVE  n \in Kept(at)
  <2>1. n.at \in Nat /\ q.stamp \in Nat
    BY RequestFields DEF IInv, TypeOK, NonceRows, Instants
  <2>2. n.at >= at - Retention
    BY <1>1, <1>3, <1>4, <2>1, RowOutlivesTheWindow
  <2> QED
    BY <2>2 DEF Kept
<1>5. ~Spent(req)
  <2>1. ASSUME NEW n \in nonces, n.runner = req.runner,
               n.key = runner[req.runner].key, n.nonce = req.nonce,
               n.at + MaxFuture >= req.stamp
        PROVE  FALSE
    <3>1. n \in Kept(at)
      BY <1>1, <1>3, <1>4, <2>1
    <3> QED
      BY <1>2, <2>1, <3>1
  <2> QED
    BY <1>2, <1>3, <2>1, WindowAssumption DEF Spent
<1>6. ASSUME NEW q \in Requests, Spent(q) PROVE Spent(q)'
  <2>1. CASE runner[q.runner].state = "deleted"
    BY <1>2, <2>1 DEF Spent
  <2>2. CASE now > q.stamp + MaxAge + MaxStall
    BY <1>2, <2>2 DEF Spent
  <2>3. ASSUME NEW n \in nonces, n.runner = q.runner,
               n.key = runner[q.runner].key, n.nonce = q.nonce,
               n.at + MaxFuture >= q.stamp,
               ~(now > q.stamp + MaxAge + MaxStall)
        PROVE  Spent(q)'
    <3>1. now <= q.stamp + MaxAge + MaxStall
      BY <1>3, <2>3, RequestFields, WindowAssumption
    <3>2. n \in nonces'
      BY <1>2, <1>4, <2>3, <3>1
    <3> QED
      BY <1>2, <2>3, <3>2 DEF Spent
  <2> QED
    BY <1>6, <2>1, <2>2, <2>3 DEF Spent
<1>7. Spent(req)'
  <2>1. /\ row \in nonces'
        /\ row.runner = req.runner
        /\ row.key = runner'[req.runner].key
        /\ row.nonce = req.nonce
        /\ row.at + MaxFuture >= req.stamp
    BY <1>2, <1>3
  <2> HIDE DEF row
  <2> QED
    BY <2>1 DEF Spent
<1>8. accepted[req] = 0
  BY <1>1, <1>5 DEF IInv, TypeOK, AcceptedOnce
<1>9. TypeOK'
  <2>1. row \in NonceRows
    BY <1>1, RequestFields DEF IInv, TypeOK, NonceRows
  <2>2. nonces' \in SUBSET NonceRows
    BY <1>2, <2>1 DEF IInv, TypeOK, Kept
  <2>3. \A n \in nonces' : Stored(n.runner)'
    BY <1>2 DEF IInv, TypeOK, Kept, Stored
  <2>4. accepted' \in [Requests -> Nat]
    BY <1>1, <1>2 DEF IInv, TypeOK
  <2>5. call' \in [Calls -> CallStates]
    BY <1>2 DEF IInv, TypeOK, CallStates
  <2> QED
    BY <1>2, <2>2, <2>3, <2>4, <2>5 DEF IInv, TypeOK
<1>10. \A d \in Calls : FreshCall(d)'
  BY <1>2 DEF IInv, TypeOK, FreshCall, Idle
<1>11. \A q \in Requests : /\ q # req => accepted'[q] = accepted[q]
                           /\ q = req => accepted'[q] = 1
  BY <1>1, <1>2, <1>8 DEF IInv, TypeOK
<1>12. ASSUME NEW q \in Requests, accepted'[q] > 0 PROVE Spent(q)'
  <2>1. CASE q = req
    BY <1>7, <2>1
  <2>2. CASE q # req
    BY <1>6, <1>11, <1>12, <2>2 DEF IInv
  <2> QED
    BY <2>1, <2>2
<1>13. AcceptedOnce'
  BY <1>11 DEF IInv, AcceptedOnce
<1> QED
  BY <1>9, <1>10, <1>12, <1>13 DEF IInv

LEMMA StepIInv == IInv /\ [Next]_vars => IInv'
<1> SUFFICES ASSUME IInv, [Next]_vars PROVE IInv'
  OBVIOUS
<1>1. CASE UNCHANGED vars
  BY <1>1 DEF vars, IInv, TypeOK, Stored, FreshCall, Spent, AcceptedOnce, InWindow
<1>2. CASE Tick
  BY <1>2, TickKeeps
<1>3. ASSUME NEW r \in Runners, Pair(r) \/ RevokeRunner(r) \/ DeleteRunner(r)
      PROVE  IInv'
  BY <1>3, PairKeeps, RevokeKeeps, DeleteKeeps
<1>4. ASSUME NEW c \in Calls, NEW req \in Requests, Verify(c, req) PROVE IInv'
  BY <1>4, VerifyKeeps
<1>5. ASSUME NEW c \in Calls, Observe(c) \/ Refuse(c) \/ Accept(c) PROVE IInv'
  BY <1>5, ObserveKeeps, RefuseKeeps, AcceptKeeps
<1> QED
  BY <1>1, <1>2, <1>3, <1>4, <1>5 DEF Next

\* No signed request is accepted twice.
THEOREM NoReplay == Spec => []AcceptedOnce
<1>1. IInv => AcceptedOnce
  BY DEF IInv
<1>2. Spec => []IInv
  BY InitIInv, StepIInv, PTL DEF Spec
<1> QED
  BY <1>1, <1>2, PTL

-----------------------------------------------------------------------------
(* Refusals.                                                               *)

\* The request of a row in the table.
Earned(n) == \E req \in Requests :
                 req.runner = n.runner /\ req.nonce = n.nonce /\ accepted[req] > 0

\* No key has two rows in the table of runners, and the rows of nonces were
\* written with the key their runner still has.
KeysInv ==
    /\ \A r, s \in Runners :
           Stored(r) /\ Stored(s) /\ runner[r].key = runner[s].key => r = s
    /\ \A n \in nonces : n.key = runner[n.runner].key /\ Earned(n)

LEMMA AcceptKeepsKeys ==
    ASSUME IInv, KeysInv, NEW c \in Calls, Accept(c)
    PROVE  KeysInv'
<1> PICK req \in Requests : req = call[c].req
  BY CallFields DEF IInv, Accept
<1> PICK row : row = [key |-> runner[req.runner].key, nonce |-> req.nonce,
                      runner |-> req.runner, at |-> call[c].at]
  OBVIOUS
<1>1. /\ nonces' \subseteq nonces \cup {row} /\ runner' = runner
      /\ accepted' = [accepted EXCEPT ![req] = @ + 1]
  BY DEF Accept, Kept
<1>2. accepted \in [Requests -> Nat]
  BY DEF IInv, TypeOK
<1>3. \A q \in Requests : accepted[q] > 0 \/ q = req => accepted'[q] > 0
  BY <1>1, <1>2
<1>4. row.key = runner[row.runner].key /\ Earned(row)'
  <2>1. row.runner = req.runner /\ row.nonce = req.nonce /\ row.key = runner[req.runner].key
    OBVIOUS
  <2> QED
    BY <1>3, <2>1 DEF Earned
<1>5. \A n \in nonces : Earned(n)'
  BY <1>3 DEF KeysInv, Earned
<1> QED
  BY <1>1, <1>4, <1>5 DEF KeysInv, Stored

LEMMA StepKeysInv == IInv /\ KeysInv /\ [Next]_vars => KeysInv'
<1> SUFFICES ASSUME IInv, KeysInv, [Next]_vars PROVE KeysInv'
  OBVIOUS
<1>1. ASSUME UNCHANGED <<runner, nonces, accepted>> PROVE KeysInv'
  BY <1>1 DEF KeysInv, Stored, Earned
<1>2. ASSUME NEW r \in Runners, Pair(r) PROVE KeysInv'
  <2>1. /\ \A s \in Runners : runner'[s].key = runner[s].key
        /\ \A s \in Runners : s # r => runner'[s].state = runner[s].state
        /\ \A s \in Runners : Stored(s) => runner[s].key # runner[r].key
        /\ nonces' = nonces /\ accepted' = accepted
    BY <1>2 DEF IInv, TypeOK, Pair
  <2>2. \A n \in nonces : n.runner \in Runners
    BY DEF IInv, TypeOK, NonceRows
  <2> QED
    BY <2>1, <2>2 DEF KeysInv, Stored, Earned
<1>3. ASSUME NEW r \in Runners, RevokeRunner(r) \/ DeleteRunner(r) PROVE KeysInv'
  <2>1. /\ \A s \in Runners : runner'[s].key = runner[s].key
        /\ \A s \in Runners : Stored(s)' => Stored(s)
        /\ nonces' \subseteq nonces /\ accepted' = accepted
    BY <1>3 DEF IInv, TypeOK, RevokeRunner, DeleteRunner, Stored
  <2>2. \A n \in nonces : n.runner \in Runners
    BY DEF IInv, TypeOK, NonceRows
  <2> QED
    BY <2>1, <2>2 DEF KeysInv, Earned
<1>4. ASSUME NEW c \in Calls, Accept(c) PROVE KeysInv'
  BY <1>4, AcceptKeepsKeys
<1> QED
  BY <1>1, <1>2, <1>3, <1>4 DEF Next, Tick, Verify, Observe, Refuse, vars

\* A request is refused as a replay only if the runner that signed it has used
\* its nonce in a request that was accepted (the lookup of consume_nonce).
THEOREM RefusalsAreTrue == Spec => []NoFalseReplays
<1>1. Init => KeysInv
  BY DEF Init, KeysInv, Stored
<1>2. IInv /\ KeysInv => NoFalseReplays
  <2> SUFFICES ASSUME IInv, KeysInv, NEW n \in nonces, NEW r \in Runners,
                      runner[r].state = "active", runner[r].key = n.key
               PROVE  n.runner = r /\ Earned(n)
    BY DEF NoFalseReplays, Earned
  <2>1. n.runner \in Runners /\ Stored(n.runner) /\ Stored(r)
    BY DEF IInv, TypeOK, NonceRows, Stored
  <2> QED
    BY <2>1 DEF KeysInv
<1> QED
  BY <1>1, <1>2, InitIInv, StepIInv, StepKeysInv, PTL DEF Spec
=============================================================================
