-------------------------- MODULE BrowserIdempotency --------------------------
(***************************************************************************)
(* Retried browser mutations: BrowserAuthorizationGateway.dispatch         *)
(* (provider_hub_hosted/browser_gateway.py) around                         *)
(* run_browser_mutation_idempotent and _transaction (store.py).            *)
(*                                                                         *)
(* A request names a slot, the pair of account and idempotency key, and a  *)
(* body, its operation and digest.  Threads deliver any request any number *)
(* of times, lose replies and die with the process.  Each thread reads the *)
(* clock when it starts, then verifies the session over the network, then  *)
(* opens the one transaction the store's lock admits; the domain operation *)
(* runs nested in it, in savepoints, and the answer is sealed with the     *)
(* active key before the commit.  Nothing on disk changes but at a commit. *)
(***************************************************************************)
EXTENDS Integers, FiniteSets

CONSTANTS
    Slots,     \* an account with one idempotency key
    Bodies,    \* operations with their parameters
    Calls,     \* threads of the gateway
    SealKeys,  \* ids of response keys
    None,      \* the NULL of a column, the absence of a row
    Ttl,       \* BROWSER_IDEMPOTENCY_TTL_SECONDS
    MaxRing,   \* IDEMPOTENCY_KEYRING_MAX_KEYS
    MaxStall,  \* longest time from the clock reading to the transaction
    MaxRuns,   \* bound: executions of domain operations
    MaxTime    \* bound: the last instant of the clock

ASSUME LimitsAssumption ==
    /\ Ttl \in Nat \ {0}
    /\ MaxStall \in Nat
    /\ MaxRing \in Nat \ {0}
    /\ MaxRuns \in Nat
    /\ MaxTime \in Nat

VARIABLES
    now,    \* the clock
    rows,   \* table browser_idempotency, on disk
    writes, \* what domain operations wrote, on disk
    ring,   \* the response keyring of the process
    txn,    \* the open transaction: its view of both tables
    call,   \* what each thread is doing
    runs,   \* history: the executions that started, and for what
    given   \* history: the answers with status 2xx that were delivered

vars == <<now, rows, writes, ring, txn, call, runs, given>>

Ids == 1..MaxRuns
Requests == [slot : Slots, body : Bodies]
Executions == [slot : Slots, body : Bodies, id : Ids]

\* A row of browser_idempotency.  id and key stand for the sealed response:
\* the execution it reports and the key that opens it.
Pending(body, expires) ==
    [body |-> body, state |-> "pending", expires |-> expires,
     id |-> None, key |-> None]
Completed(row, id, key) ==
    [row EXCEPT !.state = "completed", !.id = id, !.key = key]

\* A domain operation writes two things that only make sense together.
Parts == {"first", "last"}
Write(id, part) == [id |-> id, part |-> part]
Whole(id) == {Write(id, part) : part \in Parts}

\* Stages of a thread: waiting (for the session and the lock), running (inside
\* its transaction), sealed (committed, with a response to open).
Idle == [stage |-> "idle"]
Waiting(req, t) == [stage |-> "waiting", req |-> req, t |-> t]
Running(req, t, id) == [stage |-> "running", req |-> req, t |-> t, id |-> id]
Sealed(req, id, key) == [stage |-> "sealed", req |-> req, id |-> id, key |-> key]

NoTxn == [rows |-> rows, writes |-> writes]
InTxn(c) == call[c].stage = "running"
Locked == \E c \in Calls : InTxn(c)

Rings == {r \in [active : SealKeys, keys : SUBSET SealKeys] :
             r.active \in r.keys /\ Cardinality(r.keys) <= MaxRing}

Init ==
    /\ now = 0
    /\ rows = [s \in Slots |-> None]
    /\ writes = {}
    /\ ring \in Rings
    /\ txn = NoTxn
    /\ call = [c \in Calls |-> Idle]
    /\ runs = {}
    /\ given = {}

-----------------------------------------------------------------------------
(* dispatch, up to the transaction.                                        *)

\* The clock is read first; then come the checks of the request, the session
\* provider and the rate limiter, and the wait for the store's lock.
Arrive(c, req) ==
    /\ call[c] = Idle
    /\ call' = [call EXCEPT ![c] = Waiting(req, now)]
    /\ UNCHANGED <<now, rows, writes, ring, txn, runs, given>>

\* Mutant: rows are purged one tick before they expire.
UnexpiredEarly(t) ==
    [s \in Slots |-> IF rows[s] # None /\ rows[s].expires <= t + 1
                     THEN None ELSE rows[s]]

\* The DELETE that opens the transaction, with the clock reading of the call.
Unexpired(t) ==
    [s \in Slots |-> IF rows[s] # None /\ rows[s].expires <= t
                     THEN None ELSE rows[s]]

\* The transaction of a waiting call can begin: nobody else has one.
CanBegin(c) == call[c].stage = "waiting" /\ ~Locked

\* The slot answered another body: a conflict.  A row that is still pending is
\* refused as well.  The transaction is rolled back, its purge with it.
Refuse(c) ==
    /\ CanBegin(c)
    /\ LET req == call[c].req
           row == Unexpired(call[c].t)[req.slot]
       IN row # None /\ (row.body # req.body \/ row.state # "completed")
    /\ call' = [call EXCEPT ![c] = Idle]
    /\ UNCHANGED <<now, rows, writes, ring, txn, runs, given>>

\* Mutant: the stored operation and digest are not compared.
ReplayAnyBody(c) ==
    LET req == call[c].req
        left == Unexpired(call[c].t)
        row == left[req.slot]
    IN /\ CanBegin(c)
       /\ row # None /\ row.state = "completed"
       /\ rows' = left
       /\ txn' = [rows |-> left, writes |-> writes]
       /\ call' = [call EXCEPT ![c] = Sealed(req, row.id, row.key)]
       /\ UNCHANGED <<now, writes, ring, runs, given>>

\* The slot answered this very request: the row's response, the purge commits.
Replay(c) ==
    LET req == call[c].req
        left == Unexpired(call[c].t)
        row == left[req.slot]
    IN /\ CanBegin(c)
       /\ row # None /\ row.body = req.body /\ row.state = "completed"
       /\ rows' = left
       /\ txn' = [rows |-> left, writes |-> writes]
       /\ call' = [call EXCEPT ![c] = Sealed(req, row.id, row.key)]
       /\ UNCHANGED <<now, writes, ring, runs, given>>

\* The slot is free: a pending row is inserted and the operation begins.
Start(c) ==
    LET req == call[c].req
        t == call[c].t
        id == Cardinality(runs) + 1
    IN /\ CanBegin(c)
       /\ Unexpired(t)[req.slot] = None
       /\ id <= MaxRuns
       /\ txn' = [rows |-> [Unexpired(t) EXCEPT
                                ![req.slot] = Pending(req.body, t + Ttl)],
                  writes |-> writes]
       /\ call' = [call EXCEPT ![c] = Running(req, t, id)]
       /\ runs' = runs \cup
              {[id |-> id, slot |-> req.slot, body |-> req.body, t |-> t]}
       /\ UNCHANGED <<now, rows, writes, ring, given>>

-----------------------------------------------------------------------------
(* Inside the transaction: _invoke_and_seal.                               *)

\* Mutant: the operation commits its own writes.
WritePartDirect(c, part) ==
    /\ InTxn(c)
    /\ txn.rows[call[c].req.slot].state = "pending"
    /\ Write(call[c].id, part) \notin txn.writes
    /\ part = "last" => Write(call[c].id, "first") \in txn.writes
    /\ txn' = [txn EXCEPT !.writes = @ \cup {Write(call[c].id, part)}]
    /\ writes' = writes \cup {Write(call[c].id, part)}
    /\ UNCHANGED <<now, rows, ring, call, runs, given>>

\* The operation writes its parts in order, into the view of the transaction.
WritePart(c, part) ==
    /\ InTxn(c)
    /\ txn.rows[call[c].req.slot].state = "pending"
    /\ Write(call[c].id, part) \notin txn.writes
    /\ part = "last" => Write(call[c].id, "first") \in txn.writes
    /\ txn' = [txn EXCEPT !.writes = @ \cup {Write(call[c].id, part)}]
    /\ UNCHANGED <<now, rows, writes, ring, call, runs, given>>

\* A nested transaction fails half way and is rolled back to its savepoint;
\* the operation tries again (the id loop of create_pairing_challenge).
RollbackNested(c) ==
    /\ InTxn(c)
    /\ txn.writes \cap Whole(call[c].id) = {Write(call[c].id, "first")}
    /\ txn' = [txn EXCEPT !.writes = @ \ Whole(call[c].id)]
    /\ UNCHANGED <<now, rows, writes, ring, call, runs, given>>

\* The operation succeeded: the response is sealed and the row completed.
Seal(c) ==
    /\ InTxn(c)
    /\ Whole(call[c].id) \subseteq txn.writes
    /\ txn.rows[call[c].req.slot].state = "pending"
    /\ txn' = [txn EXCEPT !.rows[call[c].req.slot] =
                              Completed(@, call[c].id, ring.active)]
    /\ UNCHANGED <<now, rows, writes, ring, call, runs, given>>

Commit(c) ==
    LET row == txn.rows[call[c].req.slot]
    IN /\ InTxn(c)
       /\ row.state = "completed"
       /\ rows' = txn.rows
       /\ writes' = txn.writes
       /\ call' = [call EXCEPT ![c] = Sealed(call[c].req, row.id, row.key)]
       /\ UNCHANGED <<now, ring, txn, runs, given>>

\* The operation refuses, perhaps after it wrote (the "expired" mark of
\* confirm_pairing), or sealing or the commit fails: everything is rolled back.
Fail(c) ==
    /\ InTxn(c)
    /\ txn' = NoTxn
    /\ call' = [call EXCEPT ![c] = Idle]
    /\ UNCHANGED <<now, rows, writes, ring, runs, given>>

-----------------------------------------------------------------------------
(* After the transaction, and around it.                                   *)

\* The response is opened and sent.
Answer(c) ==
    /\ call[c].stage = "sealed"
    /\ call[c].key \in ring.keys
    /\ given' = given \cup {[slot |-> call[c].req.slot,
                             body |-> call[c].req.body, id |-> call[c].id]}
    /\ call' = [call EXCEPT ![c] = Idle]
    /\ UNCHANGED <<now, rows, writes, ring, txn, runs>>

\* The key of an old response has left the ring: 503.
CannotOpen(c) ==
    /\ call[c].stage = "sealed"
    /\ call[c].key \notin ring.keys
    /\ call' = [call EXCEPT ![c] = Idle]
    /\ UNCHANGED <<now, rows, writes, ring, txn, runs, given>>

\* The process dies at any point and comes back, perhaps with another ring.
Crash(r) ==
    /\ txn' = NoTxn
    /\ call' = [c \in Calls |-> Idle]
    /\ ring' = r
    /\ UNCHANGED <<now, rows, writes, runs, given>>

\* No call waits longer than MaxStall for its transaction.
Tick ==
    /\ now < MaxTime
    /\ \A c \in Calls :
           call[c].stage = "waiting" => now + 1 <= call[c].t + MaxStall
    /\ now' = now + 1
    /\ UNCHANGED <<rows, writes, ring, txn, call, runs, given>>

CallStep(c) ==
    \/ \E req \in Requests : Arrive(c, req)
    \/ Refuse(c)
    \/ Replay(c)
    \/ Start(c)
    \/ \E part \in Parts : WritePart(c, part)
    \/ RollbackNested(c)
    \/ Seal(c)
    \/ Commit(c)
    \/ Fail(c)
    \/ Answer(c)
    \/ CannotOpen(c)

Next ==
    \/ Tick
    \/ \E r \in Rings : Crash(r)
    \/ \E c \in Calls : CallStep(c)

Spec == Init /\ [][Next]_vars

-----------------------------------------------------------------------------
(* What the gateway guarantees.                                            *)

RowType == [body : Bodies, state : {"pending", "completed"}, expires : Nat,
            id : Ids \cup {None}, key : SealKeys \cup {None}]

\* The NULL of a column is no row.
ASSUME NoneAssumption == None \notin RowType

\* Types; one transaction at a time, and none leaves its view behind.
TypeOK ==
    /\ now \in 0..MaxTime
    /\ rows \in [Slots -> RowType \cup {None}]
    /\ writes \subseteq [id : Ids, part : Parts]
    /\ ring \in Rings
    /\ txn.rows \in [Slots -> RowType \cup {None}]
    /\ txn.writes \subseteq [id : Ids, part : Parts]
    /\ \A c \in Calls :
           call[c].stage \in {"idle", "waiting", "running", "sealed"}
    /\ \A c, d \in Calls : InTxn(c) /\ InTxn(d) => c = d
    /\ ~Locked => txn = NoTxn

Happened == {run \in runs : Whole(run.id) \subseteq writes}

\* An operation and the memory of its answer are one: on disk there are whole
\* operations only, each with its completed row until the row expires, and no
\* row without its operation, wherever the process failed or died.
AtomicExecutions ==
    /\ \A run \in runs : writes \cap Whole(run.id) \in {{}, Whole(run.id)}
    /\ \A run \in Happened :
           \/ rows[run.slot] # None /\ rows[run.slot].id = run.id
           \/ run.t + Ttl <= now
    /\ \A s \in Slots : rows[s] # None =>
           /\ rows[s].state = "completed"
           /\ \E run \in Happened :
                  /\ run.slot = s
                  /\ run.body = rows[s].body
                  /\ run.id = rows[s].id
                  /\ rows[s].expires = run.t + Ttl

\* A slot is executed at most once per time to live, counted from the clock
\* readings: only the stall of the later call is to be taken off, for its
\* reading may be older than the purge that freed the slot.
OncePerWindow ==
    \A a, b \in Happened :
        a.slot = b.slot /\ a.id < b.id => a.t + Ttl <= b.t + MaxStall

Report(run) == [slot |-> run.slot, body |-> run.body, id |-> run.id]
Memory == [s \in Slots |-> IF rows[s] = None THEN None ELSE rows[s].id]
Promise == INSTANCE AtomicMutations
           WITH done <- {Report(run) : run \in Happened}, memory <- Memory

\* The transactions, failures, crashes and key rotations together look like
\* mutations that happen at once, are remembered with their answers, and are
\* answered truthfully or not at all.
KeepsPromise == Promise!Spec
=============================================================================
