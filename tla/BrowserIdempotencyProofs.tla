----------------------- MODULE BrowserIdempotencyProofs -----------------------
(***************************************************************************)
(* BrowserIdempotency for every set of slots, bodies, threads and keys:    *)
(* what is on disk is whole, a slot is executed once per time to live, and *)
(* together the transactions, failures and crashes implement               *)
(* AtomicMutations.                                                        *)
(***************************************************************************)
EXTENDS BrowserIdempotency, FiniteSetTheorems, TLAPS

\* Executions are numbered in the order in which they start.
RunsKnown ==
    /\ now \in Nat
    /\ IsFiniteSet(runs)
    /\ Cardinality(runs) <= MaxRuns
    /\ \A run \in runs :
           /\ run = [id |-> run.id, slot |-> run.slot, body |-> run.body, t |-> run.t]
           /\ run.id \in 1..Cardinality(runs)
           /\ run.slot \in Slots /\ run.body \in Bodies
           /\ run.t \in Nat /\ run.t <= now
    /\ \A a, b \in runs : a.id = b.id => a = b

\* Nothing is written for an execution that has not started.
WritesKnown ==
    \A w \in writes : \E i \in 1..Cardinality(runs), part \in Parts : w = Write(i, part)

\* What threads remember; a thread outside of a transaction is not late, and
\* the answer it holds is that of its request.
CallsKnown ==
    /\ ring \in Rings
    /\ \A c \in Calls : call[c].stage \in {"idle", "waiting", "running", "sealed"}
    /\ call = [c \in Calls |-> call[c]]
    /\ \A c \in Calls : call[c].stage = "waiting" =>
           /\ call[c].req \in Requests
           /\ call[c].t \in Nat /\ call[c].t <= now /\ now <= call[c].t + MaxStall
    /\ \A c \in Calls : call[c].stage = "sealed" =>
           \E run \in Happened :
               /\ run.slot = call[c].req.slot
               /\ run.body = call[c].req.body
               /\ run.id = call[c].id
    /\ \A c, d \in Calls : InTxn(c) /\ InTxn(d) => c = d

\* The execution of a thread in its transaction.
RunOf(c) == [id |-> call[c].id, slot |-> call[c].req.slot,
             body |-> call[c].req.body, t |-> call[c].t]

\* The view of the open transaction, of the execution run: the disk without
\* what is overdue, and what run has written.
ViewOf(run) ==
    /\ writes \cap Whole(run.id) = {}
    /\ writes \subseteq txn.writes
    /\ txn.writes \subseteq writes \cup Whole(run.id)
    /\ \A s \in Slots \ {run.slot} : txn.rows[s] = Unexpired(run.t)[s]
    /\ DOMAIN txn.rows = Slots
    /\ txn.rows[run.slot] \in RowType
    /\ txn.rows[run.slot].body = run.body
    /\ txn.rows[run.slot].expires = run.t + Ttl
    /\ txn.rows[run.slot].state = "completed" =>
           txn.rows[run.slot].id = run.id /\ Whole(run.id) \subseteq txn.writes

\* The slot of an execution was free when it started.
SlotWasFree(run) ==
    /\ Unexpired(run.t)[run.slot] = None
    /\ \A a \in Happened : a.slot = run.slot =>
           a.t + Ttl <= now /\ a.t + Ttl <= run.t + MaxStall

TxnKnown ==
    /\ txn = [rows |-> txn.rows, writes |-> txn.writes]
    /\ \A c \in Calls : InTxn(c) =>
           /\ RunOf(c) \in runs
           /\ call[c].req \in Requests
           /\ call[c].id = Cardinality(runs)
           /\ ViewOf(RunOf(c))
           /\ SlotWasFree(RunOf(c))

GatewayInv ==
    /\ RunsKnown
    /\ WritesKnown
    /\ CallsKnown
    /\ TxnKnown
    /\ AtomicExecutions
    /\ OncePerWindow

-----------------------------------------------------------------------------
(* Steps that leave the disk alone.                                        *)

LEMMA InitInv == Init => GatewayInv
<1> SUFFICES ASSUME Init PROVE GatewayInv
  OBVIOUS
<1>1. IsFiniteSet(runs) /\ Cardinality(runs) = 0
  BY FS_EmptySet DEF Init
<1>2. RunsKnown
  BY <1>1, LimitsAssumption DEF Init, RunsKnown
<1>3. Happened = {}
  BY DEF Init, Happened
<1>4. WritesKnown /\ OncePerWindow
  BY <1>3 DEF Init, WritesKnown, OncePerWindow
<1>5. CallsKnown /\ TxnKnown
  BY DEF Init, CallsKnown, TxnKnown, Idle, InTxn, NoTxn
<1>6. AtomicExecutions
  BY <1>3 DEF Init, AtomicExecutions
<1> QED
  BY <1>2, <1>4, <1>5, <1>6 DEF GatewayInv

\* The disk stays as good as it was while time passes.
LEMMA DiskRests ==
  ASSUME GatewayInv, UNCHANGED <<rows, writes, runs>>, now' \in Nat, now <= now'
  PROVE  /\ RunsKnown' /\ WritesKnown' /\ AtomicExecutions' /\ OncePerWindow'
         /\ Happened' = Happened
         /\ \A t : Unexpired(t)' = Unexpired(t)
<1>1. Happened' = Happened
  BY DEF Happened
<1>2. RunsKnown'
  BY DEF GatewayInv, RunsKnown
<1>3. WritesKnown' /\ OncePerWindow'
  BY <1>1 DEF GatewayInv, WritesKnown, OncePerWindow
<1>4. \A run \in runs : run.t \in Nat
  BY DEF GatewayInv, RunsKnown
<1>5. Ttl \in Nat /\ now \in Nat
  BY LimitsAssumption DEF GatewayInv, RunsKnown
<1>6. \A run \in Happened : run.t + Ttl <= now => run.t + Ttl <= now'
  BY <1>4, <1>5 DEF Happened
<1>7. AtomicExecutions'
  BY <1>1, <1>6 DEF GatewayInv, AtomicExecutions
<1> QED
  BY <1>1, <1>2, <1>3, <1>7 DEF Unexpired

\* A thread that is in no transaction changes its own stage only.
LEMMA ThreadMoves ==
  ASSUME GatewayInv, NEW c \in Calls, NEW next,
         ~InTxn(c),
         call' = [call EXCEPT ![c] = next],
         \/ next = Idle
         \/ \E req \in Requests : next = Waiting(req, now),
         UNCHANGED <<now, rows, writes, ring, txn, runs>>
  PROVE  GatewayInv'
<1>1. /\ RunsKnown' /\ WritesKnown' /\ AtomicExecutions' /\ OncePerWindow'
      /\ Happened' = Happened /\ \A t : Unexpired(t)' = Unexpired(t)
  BY DiskRests DEF GatewayInv, RunsKnown
<1>2. /\ next.stage \in {"idle", "waiting"}
      /\ next.stage = "waiting" => next.req \in Requests /\ next.t = now
  BY DEF Idle, Waiting
<1>3. call'[c] = next /\ \A d \in Calls : d # c => call'[d] = call[d]
  BY DEF GatewayInv, CallsKnown
<1>4. \A d \in Calls : InTxn(d)' <=> InTxn(d) /\ d # c
  BY <1>2, <1>3 DEF InTxn
<1>5. now \in Nat /\ now <= now + MaxStall
  BY LimitsAssumption DEF GatewayInv, RunsKnown
<1>6. CallsKnown'
  BY <1>1, <1>2, <1>3, <1>4, <1>5 DEF GatewayInv, CallsKnown
<1>7. TxnKnown'
  <2>1. txn = [rows |-> txn.rows, writes |-> txn.writes]
    BY DEF GatewayInv, TxnKnown
  <2> SUFFICES ASSUME NEW d \in Calls, InTxn(d)'
               PROVE  (/\ RunOf(d) \in runs
                       /\ call[d].req \in Requests
                       /\ call[d].id = Cardinality(runs)
                       /\ ViewOf(RunOf(d))
                       /\ SlotWasFree(RunOf(d)))'
    BY <2>1 DEF TxnKnown
  <2>2. InTxn(d) /\ call'[d] = call[d]
    BY <1>3, <1>4
  <2>3. RunOf(d)' = RunOf(d)
    BY <2>2 DEF RunOf
  <2>4. ViewOf(RunOf(d))' /\ SlotWasFree(RunOf(d))'
    BY <1>1, <2>2, <2>3 DEF GatewayInv, TxnKnown, ViewOf, SlotWasFree
  <2> QED
    BY <2>2, <2>3, <2>4 DEF GatewayInv, TxnKnown
<1> QED
  BY <1>1, <1>6, <1>7 DEF GatewayInv

\* All threads are idle and no transaction is open: after a crash.
LEMMA CrashKeeps ==
  ASSUME GatewayInv, NEW r \in Rings, Crash(r)
  PROVE  GatewayInv'
<1>1. RunsKnown' /\ WritesKnown' /\ AtomicExecutions' /\ OncePerWindow'
  BY DiskRests DEF GatewayInv, RunsKnown, Crash
<1>2. CallsKnown' /\ TxnKnown'
  BY DEF Crash, CallsKnown, TxnKnown, Idle, InTxn, NoTxn
<1> QED
  BY <1>1, <1>2 DEF GatewayInv

LEMMA FailKeeps ==
  ASSUME GatewayInv, NEW c \in Calls, Fail(c)
  PROVE  GatewayInv'
<1>1. /\ RunsKnown' /\ WritesKnown' /\ AtomicExecutions' /\ OncePerWindow'
      /\ Happened' = Happened
  BY DiskRests DEF GatewayInv, RunsKnown, Fail
<1>2. call'[c] = Idle /\ \A d \in Calls : d # c => call'[d] = call[d]
  BY DEF GatewayInv, CallsKnown, Fail
<1>3. \A d \in Calls : ~InTxn(d)'
  BY <1>2 DEF GatewayInv, CallsKnown, Fail, InTxn, Idle
<1>4. CallsKnown'
  BY <1>1, <1>2, <1>3 DEF GatewayInv, CallsKnown, Idle, Fail
<1>5. TxnKnown'
  BY <1>3 DEF TxnKnown, Fail, NoTxn
<1> QED
  BY <1>1, <1>4, <1>5 DEF GatewayInv

LEMMA TickKeeps ==
  ASSUME GatewayInv, Tick
  PROVE  GatewayInv'
<1>0. now \in Nat /\ now' = now + 1 /\ now' \in Nat /\ now <= now'
  BY DEF GatewayInv, RunsKnown, Tick
<1>1. /\ RunsKnown' /\ WritesKnown' /\ AtomicExecutions' /\ OncePerWindow'
      /\ Happened' = Happened /\ \A t : Unexpired(t)' = Unexpired(t)
  BY <1>0, DiskRests DEF Tick
<1>2. \A d \in Calls : InTxn(d)' <=> InTxn(d)
  BY DEF InTxn, Tick
<1>3. CallsKnown'
  BY <1>0, <1>1, <1>2 DEF GatewayInv, CallsKnown, Tick
<1>4. TxnKnown'
  <2>1. txn = [rows |-> txn.rows, writes |-> txn.writes]
    BY DEF GatewayInv, TxnKnown
  <2>2. ASSUME NEW d \in Calls, InTxn(d)
        PROVE  ViewOf(RunOf(d))' /\ SlotWasFree(RunOf(d))'
    <3>1. ViewOf(RunOf(d)) /\ SlotWasFree(RunOf(d)) /\ RunOf(d)' = RunOf(d)
      BY <2>2 DEF GatewayInv, TxnKnown, RunOf, Tick
    <3>2. ViewOf(RunOf(d))'
      BY <1>1, <3>1 DEF ViewOf, Tick
    <3>3. \A a \in Happened : a.t + Ttl <= now => a.t + Ttl <= now'
      BY <1>0, LimitsAssumption DEF GatewayInv, RunsKnown, Happened
    <3> QED
      BY <1>1, <3>1, <3>2, <3>3 DEF SlotWasFree
  <2> QED
    BY <1>2, <2>1, <2>2 DEF GatewayInv, TxnKnown, RunOf, Tick
<1> QED
  BY <1>1, <1>3, <1>4 DEF GatewayInv

-----------------------------------------------------------------------------
(* Steps that open, fill and end a transaction.                            *)

\* What two executions write is apart.
LEMMA WholesAreApart ==
  /\ \A i, j : i # j => Whole(i) \cap Whole(j) = {}
  /\ \A i : Whole(i) = {Write(i, "first"), Write(i, "last")}
BY DEF Whole, Parts, Write

\* A purge at the time a waiting call read drops overdue rows only.
LEMMA PurgedRows ==
  ASSUME GatewayInv, NEW t \in Nat, t <= now, NEW s \in Slots
  PROVE  /\ Unexpired(t)[s] # None => rows[s] # None /\ Unexpired(t)[s] = rows[s]
         /\ \A run \in Happened : run.slot = s =>
                \/ Unexpired(t)[s] # None /\ Unexpired(t)[s].id = run.id
                \/ run.t + Ttl <= now
<1>1. Unexpired(t)[s] = IF rows[s] # None /\ rows[s].expires <= t
                        THEN None ELSE rows[s]
  BY DEF Unexpired
<1>2. ASSUME NEW run \in Happened, run.slot = s, rows[s] # None, rows[s].id = run.id
      PROVE  rows[s].expires = run.t + Ttl
  <2>1. PICK other \in Happened : /\ other.id = rows[s].id
                                  /\ rows[s].expires = other.t + Ttl
    BY <1>2 DEF GatewayInv, AtomicExecutions
  <2>2. other = run
    BY <1>2, <2>1 DEF GatewayInv, RunsKnown, Happened
  <2> QED
    BY <2>1, <2>2
<1>3. \A run \in Happened : run.t \in Nat /\ run.slot \in Slots
  BY DEF GatewayInv, RunsKnown, Happened
<1>4. now \in Nat /\ Ttl \in Nat
  BY LimitsAssumption DEF GatewayInv, RunsKnown
<1>5. \A run \in Happened : run.slot = s =>
          (rows[s] # None /\ rows[s].id = run.id) \/ run.t + Ttl <= now
  BY DEF GatewayInv, AtomicExecutions
<1>6. ASSUME NEW run \in Happened, run.slot = s
      PROVE  \/ Unexpired(t)[s] # None /\ Unexpired(t)[s].id = run.id
             \/ run.t + Ttl <= now
  BY <1>1, <1>2, <1>3, <1>4, <1>5, <1>6
<1> QED
  BY <1>1, <1>6

\* The slots of a purge.
LEMMA PurgeDomain ==
  ASSUME NEW t PROVE DOMAIN Unexpired(t) = Slots
BY DEF Unexpired

LEMMA ReplayKeeps ==
  ASSUME GatewayInv, NEW c \in Calls, Replay(c)
  PROVE  GatewayInv'
<1> DEFINE t == call[c].t
           row == Unexpired(t)[call[c].req.slot]
<1>1. /\ call[c].req \in Requests /\ call[c].req.slot \in Slots
      /\ t \in Nat /\ t <= now /\ now \in Nat
      /\ \A d \in Calls : ~InTxn(d)
  BY DEF GatewayInv, CallsKnown, RunsKnown, Replay, CanBegin, Requests, Locked
<1>2. /\ rows' = Unexpired(t) /\ row # None /\ row.body = call[c].req.body
      /\ txn' = [rows |-> Unexpired(t), writes |-> writes]
      /\ call' = [call EXCEPT ![c] = Sealed(call[c].req, row.id, row.key)]
      /\ UNCHANGED <<now, writes, ring, runs>>
  BY DEF Replay
<1> HIDE DEF row
<1>3. Happened' = Happened
  BY <1>2 DEF Happened
<1>4. RunsKnown' /\ WritesKnown' /\ OncePerWindow'
  BY <1>2, <1>3 DEF GatewayInv, RunsKnown, WritesKnown, OncePerWindow
<1>5. AtomicExecutions'
  <2>1. \A run \in runs : writes' \cap Whole(run.id) \in {{}, Whole(run.id)}
    BY <1>2 DEF GatewayInv, AtomicExecutions
  <2>2. ASSUME NEW run \in Happened
        PROVE  \/ rows'[run.slot] # None /\ rows'[run.slot].id = run.id
               \/ run.t + Ttl <= now
    <3>1. run.slot \in Slots
      BY DEF GatewayInv, RunsKnown, Happened
    <3> QED
      BY <1>1, <1>2, <3>1, PurgedRows
  <2>3. ASSUME NEW s \in Slots, rows'[s] # None
        PROVE  rows[s] # None /\ rows'[s] = rows[s]
    BY <1>1, <1>2, <2>3, PurgedRows
  <2>4. \A s \in Slots : rows'[s] # None =>
           /\ rows'[s].state = "completed"
           /\ \E run \in Happened :
                  /\ run.slot = s
                  /\ run.body = rows'[s].body
                  /\ run.id = rows'[s].id
                  /\ rows'[s].expires = run.t + Ttl
    BY <2>3 DEF GatewayInv, AtomicExecutions
  <2> QED
    BY <1>2, <1>3, <2>1, <2>2, <2>4 DEF AtomicExecutions
<1>6. /\ call'[c] = Sealed(call[c].req, row.id, row.key)
      /\ \A d \in Calls : d # c => call'[d] = call[d]
      /\ call' = [d \in Calls |-> call'[d]]
  BY <1>2 DEF GatewayInv, CallsKnown
<1>7. \A d \in Calls : ~InTxn(d)'
  BY <1>1, <1>6 DEF InTxn, Sealed
<1>8. \E run \in Happened : /\ run.slot = call[c].req.slot
                            /\ run.body = call[c].req.body
                            /\ run.id = row.id
  <2>1. rows[call[c].req.slot] # None /\ row = rows[call[c].req.slot]
    BY <1>1, <1>2, PurgedRows DEF row
  <2> QED
    BY <1>1, <1>2, <2>1 DEF GatewayInv, AtomicExecutions
<1>9. CallsKnown'
  <2>1. call'[c].stage = "sealed" /\ call'[c].req = call[c].req /\ call'[c].id = row.id
    BY <1>6 DEF Sealed
  <2>2. \A d \in Calls : call'[d].stage = "sealed" =>
           \E run \in Happened :
               /\ run.slot = call'[d].req.slot
               /\ run.body = call'[d].req.body
               /\ run.id = call'[d].id
    BY <1>6, <1>8, <2>1 DEF GatewayInv, CallsKnown
  <2>3. \A d \in Calls : call'[d].stage = "waiting" =>
           /\ call'[d].req \in Requests
           /\ call'[d].t \in Nat /\ call'[d].t <= now /\ now <= call'[d].t + MaxStall
    BY <1>6, <2>1 DEF GatewayInv, CallsKnown
  <2>4. \A d \in Calls : call'[d].stage \in {"idle", "waiting", "running", "sealed"}
    BY <1>6, <2>1 DEF GatewayInv, CallsKnown
  <2>5. (ring \in Rings)'
    BY <1>2 DEF GatewayInv, CallsKnown
  <2> QED
    BY <1>2, <1>3, <1>6, <1>7, <2>2, <2>3, <2>4, <2>5 DEF CallsKnown
<1>10. TxnKnown'
  BY <1>2, <1>7 DEF TxnKnown
<1> QED
  BY <1>4, <1>5, <1>9, <1>10 DEF GatewayInv

LEMMA StartKeeps ==
  ASSUME GatewayInv, NEW c \in Calls, Start(c)
  PROVE  GatewayInv' /\ Happened' = Happened
<1> DEFINE req == call[c].req
           t == call[c].t
           id == Cardinality(runs) + 1
<1>0. PICK new : new = [id |-> id, slot |-> req.slot, body |-> req.body, t |-> t]
  OBVIOUS
<1>1. /\ req \in Requests /\ req.slot \in Slots /\ req.body \in Bodies
      /\ t \in Nat /\ t <= now /\ now \in Nat /\ now <= t + MaxStall
      /\ \A d \in Calls : ~InTxn(d)
  BY DEF GatewayInv, CallsKnown, RunsKnown, Start, CanBegin, Requests, Locked
<1>2. /\ Unexpired(t)[req.slot] = None
      /\ id <= MaxRuns
      /\ txn' = [rows |-> [Unexpired(t) EXCEPT ![req.slot] = Pending(req.body, t + Ttl)],
                 writes |-> writes]
      /\ call' = [call EXCEPT ![c] = Running(req, t, id)]
      /\ runs' = runs \cup {new}
      /\ UNCHANGED <<now, rows, writes, ring>>
  BY <1>0 DEF Start
<1>3. IsFiniteSet(runs) /\ Cardinality(runs) \in Nat
  BY FS_CardinalityType DEF GatewayInv, RunsKnown
<1>4. /\ \A run \in runs : run.id \in 1..Cardinality(runs)
      /\ \A w \in writes : \E i \in 1..Cardinality(runs), part \in Parts : w = Write(i, part)
  BY DEF GatewayInv, RunsKnown, WritesKnown
<1>5. new \notin runs
  BY <1>0, <1>3, <1>4
<1>6. IsFiniteSet(runs') /\ Cardinality(runs') = id
  <2>1. runs' = runs \cup {new}
    BY <1>2
  <2> QED
    BY <1>3, <1>5, <2>1, FS_AddElement
<1>7. writes \cap Whole(id) = {}
  BY <1>3, <1>4 DEF Whole, Write
<1>8. Happened' = Happened
  <2>1. ~(Whole(id) \subseteq writes)
    BY <1>7, WholesAreApart
  <2> QED
    BY <1>0, <1>2, <2>1 DEF Happened
<1>9. RunsKnown'
  <2>1. \A run \in runs' :
           /\ run = [id |-> run.id, slot |-> run.slot, body |-> run.body, t |-> run.t]
           /\ run.id \in 1..id
           /\ run.slot \in Slots /\ run.body \in Bodies
           /\ run.t \in Nat /\ run.t <= now
    BY <1>0, <1>1, <1>2, <1>3 DEF GatewayInv, RunsKnown
  <2>2. \A a, b \in runs' : a.id = b.id => a = b
    BY <1>0, <1>2, <1>3, <1>4 DEF GatewayInv, RunsKnown
  <2> QED
    BY <1>1, <1>2, <1>6, <2>1, <2>2 DEF RunsKnown
<1>10. WritesKnown'
  BY <1>2, <1>3, <1>4, <1>6 DEF WritesKnown
<1>11. OncePerWindow'
  BY <1>8 DEF GatewayInv, OncePerWindow
<1>12. AtomicExecutions'
  <2>1. \A run \in runs' : writes \cap Whole(run.id) \in {{}, Whole(run.id)}
    BY <1>0, <1>2, <1>7 DEF GatewayInv, AtomicExecutions
  <2> QED
    BY <1>2, <1>8, <2>1 DEF GatewayInv, AtomicExecutions
<1>13. /\ call'[c] = Running(req, t, id)
       /\ \A d \in Calls : d # c => call'[d] = call[d]
       /\ call' = [d \in Calls |-> call'[d]]
  BY <1>2 DEF GatewayInv, CallsKnown
<1>14. \A d \in Calls : InTxn(d)' <=> d = c
  BY <1>1, <1>13 DEF InTxn, Running
<1>15. CallsKnown'
  <2>1. call'[c].stage = "running"
    BY <1>13 DEF Running
  <2>2. \A d \in Calls : call'[d].stage = "sealed" =>
           \E run \in Happened :
               /\ run.slot = call'[d].req.slot
               /\ run.body = call'[d].req.body
               /\ run.id = call'[d].id
    BY <1>13, <2>1 DEF GatewayInv, CallsKnown
  <2>3. \A d \in Calls : call'[d].stage = "waiting" =>
           /\ call'[d].req \in Requests
           /\ call'[d].t \in Nat /\ call'[d].t <= now /\ now <= call'[d].t + MaxStall
    BY <1>13, <2>1 DEF GatewayInv, CallsKnown
  <2>4. \A d \in Calls : call'[d].stage \in {"idle", "waiting", "running", "sealed"}
    BY <1>13, <2>1 DEF GatewayInv, CallsKnown
  <2>5. (ring \in Rings)'
    BY <1>2 DEF GatewayInv, CallsKnown
  <2> QED
    BY <1>2, <1>8, <1>13, <1>14, <2>2, <2>3, <2>4, <2>5 DEF CallsKnown
<1>16. TxnKnown'
  <2>1. RunOf(c)' = new
    BY <1>0, <1>13 DEF RunOf, Running
  <2>2. new.id = id /\ new.slot = req.slot /\ new.body = req.body /\ new.t = t
    BY <1>0
  <2>3. /\ RunOf(c)' \in runs'
        /\ call'[c].req \in Requests
        /\ call'[c].id = Cardinality(runs')
    BY <1>1, <1>2, <1>6, <1>13, <2>1 DEF Running
  <2>4. \A u : Unexpired(u)' = Unexpired(u)
    BY <1>2 DEF Unexpired
  <2>5. SlotWasFree(new)'
    <3>1. \A a \in Happened : a.slot = req.slot =>
              a.t + Ttl <= now /\ a.t + Ttl <= t + MaxStall
      <4>1. \A a \in Happened : a.slot = req.slot => a.t + Ttl <= now
        BY <1>1, <1>2, PurgedRows
      <4>2. \A a \in Happened : a.t \in Nat
        BY DEF GatewayInv, RunsKnown, Happened
      <4> QED
        BY <1>1, <4>1, <4>2, LimitsAssumption
    <3> QED
      BY <1>2, <1>8, <2>2, <2>4, <3>1 DEF SlotWasFree
  <2>6. ViewOf(new)'
    <3>1. /\ DOMAIN txn'.rows = Slots
          /\ txn'.rows[req.slot] = Pending(req.body, t + Ttl)
          /\ \A s \in Slots \ {req.slot} : txn'.rows[s] = Unexpired(t)[s]
          /\ txn'.writes = writes
      BY <1>1, <1>2, PurgeDomain
    <3>2. Pending(req.body, t + Ttl) \in RowType
      BY <1>1, LimitsAssumption DEF Pending, RowType
    <3>3. /\ Pending(req.body, t + Ttl).body = req.body
          /\ Pending(req.body, t + Ttl).expires = t + Ttl
          /\ Pending(req.body, t + Ttl).state # "completed"
      BY DEF Pending
    <3> QED
      BY <1>2, <1>7, <2>2, <2>4, <3>1, <3>2, <3>3 DEF ViewOf
  <2>7. txn' = [rows |-> txn'.rows, writes |-> txn'.writes]
    BY <1>2
  <2> QED
    BY <1>14, <2>1, <2>3, <2>5, <2>6, <2>7 DEF TxnKnown
<1> QED
  BY <1>8, <1>9, <1>10, <1>11, <1>12, <1>15, <1>16 DEF GatewayInv

\* A transaction changes its own view only: its execution's row and writes.
LEMMA ViewChanges ==
  ASSUME GatewayInv, NEW c \in Calls, NEW R, NEW W, NEW run,
         InTxn(c),
         run = RunOf(c),
         txn' = [rows |-> R, writes |-> W],
         UNCHANGED <<now, rows, writes, ring, call, runs>>,
         writes \subseteq W,
         W \subseteq writes \cup Whole(run.id),
         DOMAIN R = Slots,
         \A s \in Slots \ {run.slot} : R[s] = txn.rows[s],
         R[run.slot] \in RowType,
         R[run.slot].body = run.body,
         R[run.slot].expires = run.t + Ttl,
         R[run.slot].state = "completed" =>
             R[run.slot].id = run.id /\ Whole(run.id) \subseteq W
  PROVE  GatewayInv'
<1>1. /\ RunsKnown' /\ WritesKnown' /\ AtomicExecutions' /\ OncePerWindow'
      /\ Happened' = Happened /\ \A t : Unexpired(t)' = Unexpired(t)
  BY DiskRests DEF GatewayInv, RunsKnown
<1>2. \A d \in Calls : InTxn(d)' <=> d = c
  BY DEF GatewayInv, CallsKnown, InTxn
<1>3. CallsKnown'
  BY <1>1, <1>2 DEF GatewayInv, CallsKnown
<1>4. RunOf(c)' = run
  BY DEF RunOf
<1>5. ViewOf(run)'
  <2>1. ViewOf(run)
    BY DEF GatewayInv, TxnKnown
  <2> QED
    BY <1>1, <2>1 DEF ViewOf
<1>6. SlotWasFree(run)'
  BY <1>1 DEF GatewayInv, TxnKnown, SlotWasFree
<1>7. TxnKnown'
  BY <1>2, <1>4, <1>5, <1>6 DEF GatewayInv, TxnKnown
<1> QED
  BY <1>1, <1>3, <1>7 DEF GatewayInv

\* What is known of the execution of a thread in its transaction.
LEMMA RunningKnown ==
  ASSUME GatewayInv, NEW c \in Calls, InTxn(c)
  PROVE  /\ RunOf(c).id = call[c].id /\ RunOf(c).slot = call[c].req.slot
         /\ RunOf(c).body = call[c].req.body /\ RunOf(c).t = call[c].t
         /\ RunOf(c).slot \in Slots /\ RunOf(c).id \in Ids
         /\ RunOf(c).t \in Nat /\ RunOf(c).t <= now
         /\ RunOf(c) \in runs
         /\ ViewOf(RunOf(c)) /\ SlotWasFree(RunOf(c))
<1>1. RunOf(c) \in runs /\ ViewOf(RunOf(c)) /\ SlotWasFree(RunOf(c))
  BY DEF GatewayInv, TxnKnown
<1>2. /\ RunOf(c).id = call[c].id /\ RunOf(c).slot = call[c].req.slot
      /\ RunOf(c).body = call[c].req.body /\ RunOf(c).t = call[c].t
  BY DEF RunOf
<1>3. /\ RunOf(c).slot \in Slots /\ RunOf(c).t \in Nat /\ RunOf(c).t <= now
      /\ RunOf(c).id \in 1..Cardinality(runs)
  BY <1>1 DEF GatewayInv, RunsKnown
<1>4. RunOf(c).id \in Ids
  <2>1. Cardinality(runs) \in Nat /\ Cardinality(runs) <= MaxRuns
    BY FS_CardinalityType DEF GatewayInv, RunsKnown
  <2> QED
    BY <1>3, <2>1, LimitsAssumption DEF Ids
<1> QED
  BY <1>1, <1>2, <1>3, <1>4

LEMMA WritePartKeeps ==
  ASSUME GatewayInv, NEW c \in Calls, NEW part \in Parts, WritePart(c, part)
  PROVE  GatewayInv'
<1>1. InTxn(c) /\ txn.rows[call[c].req.slot].state = "pending"
  BY DEF WritePart
<1>2. PICK run : run = RunOf(c)
  OBVIOUS
<1>3. /\ run.id = call[c].id /\ run.slot = call[c].req.slot /\ ViewOf(run)
  BY <1>1, <1>2, RunningKnown
<1>4. PICK R, W : R = txn.rows /\ W = txn.writes \cup {Write(call[c].id, part)}
  OBVIOUS
<1>5. txn' = [rows |-> R, writes |-> W]
  BY <1>4 DEF WritePart, GatewayInv, TxnKnown
<1>6. Write(call[c].id, part) \in Whole(run.id)
  BY <1>3 DEF Whole
<1>7. /\ writes \subseteq W /\ W \subseteq writes \cup Whole(run.id)
      /\ DOMAIN R = Slots /\ R[run.slot] \in RowType
      /\ R[run.slot].body = run.body /\ R[run.slot].expires = run.t + Ttl
      /\ R[run.slot].state # "completed"
  BY <1>1, <1>3, <1>4, <1>6 DEF ViewOf
<1>8. UNCHANGED <<now, rows, writes, ring, call, runs>>
  BY DEF WritePart
<1> QED
  BY <1>1, <1>2, <1>4, <1>5, <1>7, <1>8, ViewChanges

LEMMA RollbackNestedKeeps ==
  ASSUME GatewayInv, NEW c \in Calls, RollbackNested(c)
  PROVE  GatewayInv'
<1>1. InTxn(c) /\ txn.writes \cap Whole(call[c].id) = {Write(call[c].id, "first")}
  BY DEF RollbackNested
<1>2. PICK run : run = RunOf(c)
  OBVIOUS
<1>3. /\ run.id = call[c].id /\ run.slot = call[c].req.slot /\ ViewOf(run)
  BY <1>1, <1>2, RunningKnown
<1>4. PICK R, W : R = txn.rows /\ W = txn.writes \ Whole(call[c].id)
  OBVIOUS
<1>5. txn' = [rows |-> R, writes |-> W]
  BY <1>4 DEF RollbackNested, GatewayInv, TxnKnown
<1>6. ~(Whole(run.id) \subseteq txn.writes)
  <2>1. Write(run.id, "last") \in Whole(run.id)
    BY WholesAreApart
  <2>2. Write(run.id, "last") # Write(run.id, "first")
    BY DEF Write
  <2> QED
    BY <1>1, <1>3, <2>1, <2>2
<1>7. /\ writes \subseteq W /\ W \subseteq writes \cup Whole(run.id)
      /\ DOMAIN R = Slots /\ R[run.slot] \in RowType
      /\ R[run.slot].body = run.body /\ R[run.slot].expires = run.t + Ttl
      /\ R[run.slot].state # "completed"
  BY <1>1, <1>3, <1>4, <1>6 DEF ViewOf
<1>8. UNCHANGED <<now, rows, writes, ring, call, runs>>
  BY DEF RollbackNested
<1> QED
  BY <1>1, <1>2, <1>4, <1>5, <1>7, <1>8, ViewChanges

LEMMA SealKeeps ==
  ASSUME GatewayInv, NEW c \in Calls, Seal(c)
  PROVE  GatewayInv'
<1>1. /\ InTxn(c) /\ Whole(call[c].id) \subseteq txn.writes
      /\ UNCHANGED <<now, rows, writes, ring, call, runs>>
  BY DEF Seal
<1>2. PICK run : run = RunOf(c)
  OBVIOUS
<1>3. /\ run.id = call[c].id /\ run.slot = call[c].req.slot /\ ViewOf(run)
      /\ run.slot \in Slots /\ run.id \in Ids
  BY <1>1, <1>2, RunningKnown
<1>4. PICK row : row = Completed(txn.rows[run.slot], run.id, ring.active)
  OBVIOUS
<1>5. PICK R, W : R = [txn.rows EXCEPT ![run.slot] = row] /\ W = txn.writes
  OBVIOUS
<1>6. txn' = [rows |-> R, writes |-> W]
  <2>1. txn' = [txn EXCEPT !.rows[run.slot] = row]
    BY <1>3, <1>4 DEF Seal
  <2>2. txn = [rows |-> txn.rows, writes |-> txn.writes]
    BY DEF GatewayInv, TxnKnown
  <2> QED
    BY <1>5, <2>1, <2>2
<1>7. ring.active \in SealKeys
  BY DEF GatewayInv, CallsKnown, Rings
<1>8. txn.rows[run.slot] \in RowType
  BY <1>3 DEF ViewOf
<1>9. /\ row \in RowType /\ row.id = run.id
      /\ row.body = txn.rows[run.slot].body
      /\ row.expires = txn.rows[run.slot].expires
  BY <1>3, <1>4, <1>7, <1>8 DEF Completed, RowType
<1>10. /\ DOMAIN R = Slots /\ R[run.slot] = row
       /\ \A s \in Slots \ {run.slot} : R[s] = txn.rows[s]
  BY <1>3, <1>5 DEF ViewOf
<1>11. /\ writes \subseteq W /\ W \subseteq writes \cup Whole(run.id)
       /\ row.body = run.body /\ row.expires = run.t + Ttl
       /\ Whole(run.id) \subseteq W
  BY <1>1, <1>3, <1>5, <1>9 DEF ViewOf
<1> QED
  BY <1>1, <1>2, <1>6, <1>9, <1>10, <1>11, ViewChanges

LEMMA CommitKeeps ==
  ASSUME GatewayInv, NEW c \in Calls, Commit(c)
  PROVE  /\ GatewayInv'
         /\ Happened' = Happened \cup {RunOf(c)}
         /\ rows'[RunOf(c).slot] # None /\ rows'[RunOf(c).slot].id = RunOf(c).id
         /\ \A s \in Slots \ {RunOf(c).slot} : rows'[s] = Unexpired(RunOf(c).t)[s]
         /\ RunOf(c) \notin Happened
<1>1. /\ InTxn(c) /\ rows' = txn.rows /\ writes' = txn.writes
      /\ txn.rows[call[c].req.slot].state = "completed"
      /\ UNCHANGED <<now, ring, txn, runs>>
  BY DEF Commit
<1>2. PICK run : run = RunOf(c)
  OBVIOUS
<1>3. /\ run.id = call[c].id /\ run.slot = call[c].req.slot /\ run.body = call[c].req.body
      /\ run.slot \in Slots /\ run.t \in Nat /\ run.t <= now
      /\ run \in runs /\ ViewOf(run) /\ SlotWasFree(run)
  BY <1>1, <1>2, RunningKnown
<1>4. PICK row : row = txn.rows[run.slot]
  OBVIOUS
<1>5. /\ row \in RowType /\ row.state = "completed" /\ row.id = run.id
      /\ row.body = run.body /\ row.expires = run.t + Ttl
      /\ Whole(run.id) \subseteq txn.writes
      /\ rows'[run.slot] = row
      /\ row # None
  BY <1>1, <1>3, <1>4, NoneAssumption DEF ViewOf
<1>6. /\ writes' = writes \cup Whole(run.id)
      /\ writes \cap Whole(run.id) = {}
      /\ \A s \in Slots \ {run.slot} : rows'[s] = Unexpired(run.t)[s]
  BY <1>1, <1>3, <1>5 DEF ViewOf
<1>7. /\ \A a \in runs : a.id \in 1..Cardinality(runs)
      /\ \A a, b \in runs : a.id = b.id => a = b
      /\ Cardinality(runs) \in Nat
      /\ run.id = Cardinality(runs)
      /\ now \in Nat
      /\ \A a \in runs : a.t \in Nat /\ a.slot \in Slots
  BY <1>1, <1>3, FS_CardinalityType DEF GatewayInv, RunsKnown, TxnKnown
<1>8. ASSUME NEW a \in runs, a # run
      PROVE  /\ writes' \cap Whole(a.id) = writes \cap Whole(a.id)
             /\ Whole(a.id) \subseteq writes' <=> Whole(a.id) \subseteq writes
  <2>1. a.id # run.id
    BY <1>3, <1>7, <1>8
  <2>2. Whole(a.id) \cap Whole(run.id) = {}
    BY <2>1, WholesAreApart
  <2> QED
    BY <1>6, <2>2
<1>9. run \notin Happened /\ Happened' = Happened \cup {run}
  <2>1. run \notin Happened
    BY <1>6, WholesAreApart DEF Happened
  <2>2. run \in Happened'
    BY <1>1, <1>3, <1>6 DEF Happened
  <2>3. \A a \in runs : a # run => (a \in Happened' <=> a \in Happened)
    BY <1>1, <1>8 DEF Happened
  <2>4. Happened' \subseteq runs /\ Happened \subseteq runs
    BY <1>1 DEF Happened
  <2> QED
    BY <2>1, <2>2, <2>3, <2>4
<1>10. RunsKnown'
  BY <1>1 DEF GatewayInv, RunsKnown
<1>11. WritesKnown'
  <2>1. \A w \in Whole(run.id) :
            \E i \in 1..Cardinality(runs), part \in Parts : w = Write(i, part)
    BY <1>3, <1>7 DEF Whole
  <2> QED
    BY <1>1, <1>6, <2>1 DEF GatewayInv, WritesKnown
<1>12. OncePerWindow'
  <2> SUFFICES ASSUME NEW a \in Happened', NEW b \in Happened', a.slot = b.slot, a.id < b.id
               PROVE  a.t + Ttl <= b.t + MaxStall
    BY DEF OncePerWindow
  <2>1. a \in runs /\ b \in runs
    BY <1>1 DEF Happened
  <2>2. a # run
    BY <1>7, <2>1
  <2>3. a \in Happened
    BY <1>9, <2>2
  <2>4. CASE b = run
    BY <1>3, <2>3, <2>4 DEF SlotWasFree
  <2>5. CASE b # run
    BY <1>9, <2>3, <2>5 DEF GatewayInv, OncePerWindow
  <2> QED
    BY <2>4, <2>5
<1>13. AtomicExecutions'
  <2>1. \A a \in runs : writes' \cap Whole(a.id) \in {{}, Whole(a.id)}
    <3> SUFFICES ASSUME NEW a \in runs
                 PROVE  writes' \cap Whole(a.id) \in {{}, Whole(a.id)}
      OBVIOUS
    <3>1. CASE a = run
      <4>1. writes' \cap Whole(a.id) = Whole(a.id)
        BY <1>6, <3>1
      <4> QED
        BY <4>1
    <3>2. CASE a # run
      BY <1>8, <3>2 DEF GatewayInv, AtomicExecutions
    <3> QED
      BY <3>1, <3>2
  <2>2. ASSUME NEW a \in Happened'
        PROVE  \/ rows'[a.slot] # None /\ rows'[a.slot].id = a.id
               \/ a.t + Ttl <= now
    <3>1. CASE a = run
      BY <1>5, <3>1
    <3>2. CASE a # run
      <4>1. a \in Happened /\ a.slot \in Slots
        BY <1>7, <1>9, <3>2 DEF Happened
      <4>2. CASE a.slot = run.slot
        BY <1>3, <4>1, <4>2 DEF SlotWasFree
      <4>3. CASE a.slot # run.slot
        BY <1>3, <1>6, <4>1, <4>3, PurgedRows
      <4> QED
        BY <4>2, <4>3
    <3> QED
      BY <3>1, <3>2
  <2>3. ASSUME NEW s \in Slots, rows'[s] # None
        PROVE  /\ rows'[s].state = "completed"
               /\ \E a \in Happened' :
                      /\ a.slot = s
                      /\ a.body = rows'[s].body
                      /\ a.id = rows'[s].id
                      /\ rows'[s].expires = a.t + Ttl
    <3>1. CASE s = run.slot
      BY <1>5, <1>9, <3>1
    <3>2. CASE s # run.slot
      <4>1. rows[s] # None /\ rows'[s] = rows[s]
        BY <1>3, <1>6, <2>3, <3>2, PurgedRows
      <4>2. /\ rows[s].state = "completed"
            /\ \E a \in Happened :
                   /\ a.slot = s
                   /\ a.body = rows[s].body
                   /\ a.id = rows[s].id
                   /\ rows[s].expires = a.t + Ttl
        BY <4>1 DEF GatewayInv, AtomicExecutions
      <4> QED
        BY <1>9, <4>1, <4>2
    <3> QED
      BY <3>1, <3>2
  <2> QED
    BY <1>1, <2>1, <2>2, <2>3 DEF AtomicExecutions
<1>14. /\ call'[c] = Sealed(call[c].req, row.id, row.key)
       /\ \A d \in Calls : d # c => call'[d] = call[d]
       /\ call' = [d \in Calls |-> call'[d]]
  BY <1>3, <1>4 DEF GatewayInv, CallsKnown, Commit
<1>15. \A d \in Calls : ~InTxn(d)'
  BY <1>1, <1>14 DEF GatewayInv, CallsKnown, InTxn, Sealed
<1>16. CallsKnown'
  <2>1. call'[c].stage = "sealed" /\ call'[c].req = call[c].req /\ call'[c].id = row.id
    BY <1>14 DEF Sealed
  <2>2. \A d \in Calls : call'[d].stage = "sealed" =>
           \E a \in Happened' :
               /\ a.slot = call'[d].req.slot
               /\ a.body = call'[d].req.body
               /\ a.id = call'[d].id
    BY <1>3, <1>5, <1>9, <1>14, <2>1 DEF GatewayInv, CallsKnown
  <2>3. \A d \in Calls : call'[d].stage = "waiting" =>
           /\ call'[d].req \in Requests
           /\ call'[d].t \in Nat /\ call'[d].t <= now /\ now <= call'[d].t + MaxStall
    BY <1>14, <2>1 DEF GatewayInv, CallsKnown
  <2>4. \A d \in Calls : call'[d].stage \in {"idle", "waiting", "running", "sealed"}
    BY <1>14, <2>1 DEF GatewayInv, CallsKnown
  <2>5. (ring \in Rings)'
    BY <1>1 DEF GatewayInv, CallsKnown
  <2> QED
    BY <1>1, <1>14, <1>15, <2>2, <2>3, <2>4, <2>5 DEF CallsKnown
<1>17. TxnKnown'
  BY <1>1, <1>15 DEF GatewayInv, TxnKnown
<1>18. GatewayInv'
  BY <1>10, <1>11, <1>12, <1>13, <1>16, <1>17 DEF GatewayInv
<1> QED
  BY <1>2, <1>5, <1>6, <1>9, <1>18

-----------------------------------------------------------------------------
(* The invariant, and the promise.                                         *)

LEMMA CallKeeps ==
  ASSUME GatewayInv, NEW c \in Calls, CallStep(c)
  PROVE  GatewayInv'
<1>1. ASSUME NEW req \in Requests, Arrive(c, req) PROVE GatewayInv'
  <2>1. ~InTxn(c)
    BY <1>1 DEF Arrive, Idle, InTxn
  <2>2. /\ call' = [call EXCEPT ![c] = Waiting(req, now)]
        /\ UNCHANGED <<now, rows, writes, ring, txn, runs>>
    BY <1>1 DEF Arrive
  <2>3. \E r \in Requests : Waiting(req, now) = Waiting(r, now)
    BY <1>1
  <2> QED
    BY <2>1, <2>2, <2>3, ThreadMoves
<1>2. CASE Refuse(c)
  BY <1>2, ThreadMoves DEF Refuse, CanBegin, InTxn
<1>3. CASE Replay(c)
  BY <1>3, ReplayKeeps
<1>4. CASE Start(c)
  BY <1>4, StartKeeps
<1>5. ASSUME NEW part \in Parts, WritePart(c, part) PROVE GatewayInv'
  BY <1>5, WritePartKeeps
<1>6. CASE RollbackNested(c)
  BY <1>6, RollbackNestedKeeps
<1>7. CASE Seal(c)
  BY <1>7, SealKeeps
<1>8. CASE Commit(c)
  BY <1>8, CommitKeeps
<1>9. CASE Fail(c)
  BY <1>9, FailKeeps
<1>10. CASE Answer(c)
  BY <1>10, ThreadMoves DEF Answer, InTxn
<1>11. CASE CannotOpen(c)
  BY <1>11, ThreadMoves DEF CannotOpen, InTxn
<1> QED
  BY <1>1, <1>2, <1>3, <1>4, <1>5, <1>6, <1>7, <1>8, <1>9, <1>10, <1>11 DEF CallStep

LEMMA StepInv == GatewayInv /\ [Next]_vars => GatewayInv'
<1> SUFFICES ASSUME GatewayInv, [Next]_vars PROVE GatewayInv'
  OBVIOUS
<1>1. CASE Tick
  BY <1>1, TickKeeps
<1>2. ASSUME NEW r \in Rings, Crash(r) PROVE GatewayInv'
  BY <1>2, CrashKeeps
<1>3. ASSUME NEW c \in Calls, CallStep(c) PROVE GatewayInv'
  BY <1>3, CallKeeps
<1>4. CASE UNCHANGED vars
  BY <1>4 DEF vars, GatewayInv, RunsKnown, WritesKnown, CallsKnown, TxnKnown,
     AtomicExecutions, OncePerWindow, Happened, InTxn, RunOf, ViewOf, SlotWasFree, Unexpired
<1> QED
  BY <1>1, <1>2, <1>3, <1>4 DEF Next

LEMMA GatewaySafety == Spec => []GatewayInv
<1> QED
  BY InitInv, StepInv, PTL DEF Spec

\* Whatever fails and wherever the process dies, the disk holds whole
\* executions, each with its answer until that answer expires
\* (_transaction, run_browser_mutation_idempotent and _invoke_and_seal).
THEOREM ExecutionsAreAtomic == Spec => []AtomicExecutions
<1>1. GatewayInv => AtomicExecutions
  BY DEF GatewayInv
<1> QED
  BY <1>1, GatewaySafety, PTL

\* No slot is executed twice within a time to live, but for the stall of the
\* later call (the purge and the slot lookup of run_browser_mutation_idempotent).
THEOREM ExecutedOncePerWindow == Spec => []OncePerWindow
<1>1. GatewayInv => OncePerWindow
  BY DEF GatewayInv
<1> QED
  BY <1>1, GatewaySafety, PTL

\* The executions that happened, as an account sees them.
Done == {Report(run) : run \in Happened}

LEMMA InitMaps == Init => Promise!Init
<1> SUFFICES ASSUME Init PROVE Promise!Init
  OBVIOUS
<1>1. Done = {} /\ given = {}
  BY DEF Init, Done, Happened
<1>2. Memory = [s \in Slots |-> None]
  BY DEF Init, Memory
<1> QED
  BY <1>1, <1>2 DEF Promise!Init, Done

\* Steps that change neither the executions on disk nor the rows.
LEMMA Stutters ==
  ASSUME Happened' = Happened, rows' = rows, given' = given
  PROVE  UNCHANGED Promise!vars
BY DEF Promise!vars, Done, Report, Memory

LEMMA ReplayMaps ==
  ASSUME GatewayInv, NEW c \in Calls, Replay(c)
  PROVE  Promise!Next
<1>1. /\ call[c].t \in Nat /\ call[c].t <= now
      /\ rows' = Unexpired(call[c].t)
      /\ UNCHANGED <<now, writes, ring, runs, given>>
  BY DEF GatewayInv, CallsKnown, Replay, CanBegin
<1>2. PICK old \in SUBSET Slots : old = {s \in Slots : rows'[s] = None}
  OBVIOUS
<1>3. \A s \in Slots : rows'[s] # None => rows[s] # None /\ rows'[s] = rows[s]
  BY <1>1, PurgedRows
<1>4. Memory' = [s \in Slots |-> IF s \in old THEN None ELSE Memory[s]]
  BY <1>2, <1>3 DEF Memory
<1>5. Happened' = Happened
  BY <1>1 DEF Happened
<1>6. Promise!Lose(old)
  BY <1>1, <1>4, <1>5 DEF Promise!Lose, Promise!Forget, Report
<1> QED
  BY <1>6 DEF Promise!Next

LEMMA CommitMaps ==
  ASSUME GatewayInv, NEW c \in Calls, Commit(c)
  PROVE  Promise!Next
<1>1. InTxn(c) /\ given' = given
  BY DEF Commit
<1>2. PICK run : run = RunOf(c)
  OBVIOUS
<1>3. /\ run.slot \in Slots /\ run.id \in Ids /\ run.t \in Nat /\ run.t <= now
      /\ run \in runs /\ SlotWasFree(run)
  BY <1>1, <1>2, RunningKnown
<1>4. run.body \in Bodies
  BY <1>3 DEF GatewayInv, RunsKnown
<1>5. /\ Happened' = Happened \cup {run} /\ run \notin Happened
      /\ rows'[run.slot] # None /\ rows'[run.slot].id = run.id
      /\ \A s \in Slots \ {run.slot} : rows'[s] = Unexpired(run.t)[s]
  BY <1>2, CommitKeeps
<1>6. PICK old \in SUBSET Slots : old = {s \in Slots : Unexpired(run.t)[s] = None}
  OBVIOUS
<1>7. run.slot \in old
  BY <1>3, <1>6 DEF SlotWasFree
<1>8. PICK forgot : forgot = [s \in Slots |-> IF s \in old THEN None ELSE Memory[s]]
  OBVIOUS
<1>9. Memory' = [forgot EXCEPT ![run.slot] = run.id]
  <2>1. \A s \in Slots : Unexpired(run.t)[s] # None =>
            rows[s] # None /\ Unexpired(run.t)[s] = rows[s]
    BY <1>3, PurgedRows
  <2>2. \A s \in Slots \ {run.slot} : Memory'[s] = forgot[s]
    BY <1>5, <1>6, <1>8, <2>1 DEF Memory
  <2>3. Memory'[run.slot] = run.id
    BY <1>3, <1>5 DEF Memory
  <2>4. Memory' = [s \in Slots |-> Memory'[s]]
    BY DEF Memory
  <2> QED
    BY <1>8, <2>2, <2>3, <2>4
<1>10. PICK report : report = Report(run)
  OBVIOUS
<1>11. /\ report \in Promise!Executions
       /\ report.id = run.id /\ report.slot = run.slot
  BY <1>3, <1>4, <1>10 DEF Report, Promise!Executions
<1>12. Done' = Done \cup {report}
  BY <1>5, <1>10 DEF Done, Report
<1>13. \A other \in Done : other.id # run.id
  <2>1. \A a \in Happened : a.id # run.id
    BY <1>3, <1>5 DEF GatewayInv, RunsKnown, Happened
  <2> QED
    BY <2>1 DEF Done, Report
<1>14. Promise!Execute(report, old)
  BY <1>1, <1>7, <1>8, <1>9, <1>11, <1>12, <1>13
     DEF Promise!Execute, Promise!Forget, Done
<1> QED
  BY <1>11, <1>14 DEF Promise!Next

LEMMA AnswerMaps ==
  ASSUME GatewayInv, NEW c \in Calls, Answer(c)
  PROVE  Promise!Next
<1>1. PICK run \in Happened : /\ run.slot = call[c].req.slot
                              /\ run.body = call[c].req.body
                              /\ run.id = call[c].id
  BY DEF GatewayInv, CallsKnown, Answer
<1>2. PICK report : report = Report(run)
  OBVIOUS
<1>3. report \in Done /\ given' = given \cup {report}
  BY <1>1, <1>2 DEF Answer, Done, Report
<1>4. Done' = Done /\ Memory' = Memory
  BY DEF Answer, Done, Happened, Memory, Report
<1>5. Promise!Answer(report)
  BY <1>3, <1>4 DEF Promise!Answer, Done
<1> QED
  BY <1>3, <1>5 DEF Promise!Next, Done

LEMMA StepMaps == GatewayInv /\ [Next]_vars => [Promise!Next]_(Promise!vars)
<1> SUFFICES ASSUME GatewayInv, [Next]_vars
             PROVE  Promise!Next \/ UNCHANGED Promise!vars
  OBVIOUS
<1>1. ASSUME UNCHANGED <<rows, writes, runs, given>>
      PROVE  UNCHANGED Promise!vars
  BY <1>1, Stutters DEF Happened
<1>2. CASE Tick
  BY <1>1, <1>2 DEF Tick
<1>3. ASSUME NEW r \in Rings, Crash(r) PROVE UNCHANGED Promise!vars
  BY <1>1, <1>3 DEF Crash
<1>4. ASSUME NEW c \in Calls, CallStep(c)
      PROVE  Promise!Next \/ UNCHANGED Promise!vars
  <2>1. ASSUME NEW req \in Requests, Arrive(c, req) PROVE UNCHANGED Promise!vars
    BY <1>1, <2>1 DEF Arrive
  <2>2. CASE Refuse(c)
    BY <1>1, <2>2 DEF Refuse
  <2>3. CASE Start(c)
    <3>1. rows' = rows /\ given' = given
      BY <2>3 DEF Start
    <3> QED
      BY <2>3, <3>1, StartKeeps, Stutters
  <2>4. ASSUME NEW part \in Parts, WritePart(c, part) PROVE UNCHANGED Promise!vars
    BY <1>1, <2>4 DEF WritePart
  <2>5. CASE RollbackNested(c)
    BY <1>1, <2>5 DEF RollbackNested
  <2>6. CASE Seal(c)
    BY <1>1, <2>6 DEF Seal
  <2>7. CASE Fail(c)
    BY <1>1, <2>7 DEF Fail
  <2>8. CASE CannotOpen(c)
    BY <1>1, <2>8 DEF CannotOpen
  <2> QED
    BY <1>4, <2>1, <2>2, <2>3, <2>4, <2>5, <2>6, <2>7, <2>8,
       ReplayMaps, CommitMaps, AnswerMaps DEF CallStep
<1>5. CASE UNCHANGED vars
  BY <1>1, <1>5 DEF vars
<1> QED
  BY <1>2, <1>3, <1>4, <1>5 DEF Next

\* The transactions, failures, crashes and key rotations implement mutations
\* that happen at once and are answered truthfully or not at all (dispatch and
\* run_browser_mutation_idempotent).
THEOREM MutationsKeepThePromise == Spec => KeepsPromise
<1>1. Spec => []GatewayInv
  BY GatewaySafety
<1> QED
  BY <1>1, InitMaps, StepMaps, PTL DEF Spec, KeepsPromise, Promise!Spec
=============================================================================
