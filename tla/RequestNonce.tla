----------------------------- MODULE RequestNonce -----------------------------
(***************************************************************************)
(* Signed runner requests: verify_signed_request                           *)
(* (provider_hub_hosted/verify.py) and consume_nonce (store.py).           *)
(*                                                                         *)
(* A runner signs its id, a time stamp and a random nonce; the bytes may   *)
(* arrive any number of times, on any number of threads.  Verification     *)
(* looks at the clock and the runner, consume_nonce reads the clock again, *)
(* and only then opens the transaction that purges old nonces and inserts  *)
(* the new one.  Nonces are kept for a limited time, so what keeps a       *)
(* request from being accepted twice is an inequality between the          *)
(* retention, the acceptance window and the time a thread may spend        *)
(* between its last look at the clock and its commit.                      *)
(***************************************************************************)
EXTENDS Integers

CONSTANTS
    Runners,     \* runner ids; random, and never given to a second runner
    Keys,        \* Ed25519 public keys (and their fingerprints)
    Nonces,      \* nonces the clients draw
    Calls,       \* threads that handle requests
    MaxAge,      \* MAX_REQUEST_AGE_SECONDS
    MaxFuture,   \* MAX_REQUEST_FUTURE_SECONDS
    Retention,   \* NONCE_RETENTION_SECONDS
    MaxStall,    \* longest time from a clock reading to its commit
    MaxTime      \* bound: the last instant of the clock

ASSUME WindowAssumption ==
    /\ MaxAge \in Nat
    /\ MaxFuture \in Nat
    /\ Retention \in Nat
    /\ MaxStall \in Nat
    /\ MaxTime \in Nat

\* The constants of the code are 300, 60 and 900 seconds: a thread that waits
\* less than 540 seconds for the store's lock is safe.
ASSUME RetentionAssumption == MaxAge + MaxFuture + MaxStall <= Retention

VARIABLES
    now,       \* the clock of the store
    runner,    \* table runners: state and key of each row
    nonces,    \* table nonces
    call,      \* what each thread is doing
    accepted   \* history: how often each signed request was accepted

vars == <<now, runner, nonces, call, accepted>>

Instants == 0..MaxTime
\* The signed bytes: the canonical request binds all of these to the key.
Requests == [runner : Runners, nonce : Nonces, stamp : Instants]
NonceRows == [key : Keys, nonce : Nonces, runner : Runners, at : Instants]

\* A thread is idle, has verified the signature, or has read the clock of
\* consume_nonce; req and at mean something only in those stages.
Idle == [stage |-> "idle"]
Verified(req) == [stage |-> "verified", req |-> req]
Observed(req, at) == [stage |-> "observed", req |-> req, at |-> at]
CallStates ==
    {Idle} \cup {Verified(req) : req \in Requests}
           \cup {Observed(req, at) : req \in Requests, at \in Instants}

Init ==
    /\ now = 0
    /\ runner \in [Runners -> {[state |-> "absent", key |-> k] : k \in Keys}]
    /\ nonces = {}
    /\ call = [c \in Calls |-> Idle]
    /\ accepted = [req \in Requests |-> 0]

-----------------------------------------------------------------------------
(* Pairing, seen from here: a key has at most one runner row, active or    *)
(* revoked, and may be paired again once that row was deleted.             *)

Stored(r) == runner[r].state \in {"active", "revoked"}

Pair(r) ==
    /\ runner[r].state = "absent"
    /\ \A s \in Runners : Stored(s) => runner[s].key # runner[r].key
    /\ runner' = [runner EXCEPT ![r].state = "active"]
    /\ UNCHANGED <<now, nonces, call, accepted>>

RevokeRunner(r) ==
    /\ runner[r].state = "active"
    /\ runner' = [runner EXCEPT ![r].state = "revoked"]
    /\ UNCHANGED <<now, nonces, call, accepted>>

\* The foreign key of nonces cascades: the runner's nonces are forgotten.
DeleteRunner(r) ==
    /\ Stored(r)
    /\ runner' = [runner EXCEPT ![r].state = "deleted"]
    /\ nonces' = {n \in nonces : n.runner # r}
    /\ UNCHANGED <<now, call, accepted>>

-----------------------------------------------------------------------------
(* The request path.                                                       *)

InWindow(req, t) == t - MaxAge <= req.stamp /\ req.stamp <= t + MaxFuture

\* verify_signed_request up to the call of consume_nonce.
Verify(c, req) ==
    /\ call[c] = Idle
    /\ InWindow(req, now)
    /\ runner[req.runner].state = "active"
    /\ call' = [call EXCEPT ![c] = Verified(req)]
    /\ UNCHANGED <<now, runner, nonces, accepted>>

ObserveBurning(c) ==  \* mutant: the nonce is spent before the window check
    /\ call[c].stage = "verified"
    /\ call' = [call EXCEPT
           ![c] = IF InWindow(call[c].req, now)
                  THEN Observed(call[c].req, now) ELSE Idle]
    /\ nonces' = IF InWindow(call[c].req, now) THEN nonces
                 ELSE nonces \cup {[key |-> runner[call[c].req.runner].key,
                                    nonce |-> call[c].req.nonce,
                                    runner |-> call[c].req.runner, at |-> now]}
    /\ UNCHANGED <<now, runner, accepted>>

\* consume_nonce reads the store's clock and checks the window again.
Observe(c) ==
    /\ call[c].stage = "verified"
    /\ call' = [call EXCEPT
           ![c] = IF InWindow(call[c].req, now)
                  THEN Observed(call[c].req, now) ELSE Idle]
    /\ UNCHANGED <<now, runner, nonces, accepted>>

KeptTooShortly(at) ==  \* mutant: the retention forgets requests from the future
    {n \in nonces : n.at >= at - (Retention - MaxFuture)}

Kept(at) == {n \in nonces : n.at >= at - Retention}

\* The transaction, when the runner is gone or revoked, or the nonce is there
\* after the purge: it is rolled back, purge and all.
Refuse(c) ==
    /\ call[c].stage = "observed"
    /\ LET req == call[c].req
       IN \/ runner[req.runner].state # "active"
          \/ \E n \in Kept(call[c].at) :
                 n.key = runner[req.runner].key /\ n.nonce = req.nonce
    /\ call' = [call EXCEPT ![c] = Idle]
    /\ UNCHANGED <<now, runner, nonces, accepted>>

\* The transaction, when the nonce is new: the request is accepted.
Accept(c) ==
    LET req == call[c].req
        at == call[c].at
        row == [key |-> runner[req.runner].key, nonce |-> req.nonce,
                runner |-> req.runner, at |-> at]
    IN /\ call[c].stage = "observed"
       /\ runner[req.runner].state = "active"
       /\ \A n \in Kept(at) : n.key # row.key \/ n.nonce # row.nonce
       /\ nonces' = Kept(at) \cup {row}
       /\ accepted' = [accepted EXCEPT ![req] = @ + 1]
       /\ call' = [call EXCEPT ![c] = Idle]
       /\ UNCHANGED <<now, runner>>

\* A thread between its clock reading and its commit is not held up for longer
\* than MaxStall.
Tick ==
    /\ now < MaxTime
    /\ \A c \in Calls :
           call[c].stage = "observed" => now + 1 <= call[c].at + MaxStall
    /\ now' = now + 1
    /\ UNCHANGED <<runner, nonces, call, accepted>>

Next ==
    \/ Tick
    \/ \E r \in Runners : Pair(r) \/ RevokeRunner(r) \/ DeleteRunner(r)
    \/ \E c \in Calls :
          \/ \E req \in Requests : Verify(c, req)
          \/ Observe(c)
          \/ Refuse(c)
          \/ Accept(c)

Spec == Init /\ [][Next]_vars

-----------------------------------------------------------------------------
(* What the nonce table guarantees.                                        *)

\* The types, and the foreign key of the table.
TypeOK ==
    /\ now \in Instants
    /\ runner \in [Runners -> [state : {"absent", "active", "revoked", "deleted"},
                               key : Keys]]
    /\ nonces \in SUBSET NonceRows
    /\ \A n \in nonces : Stored(n.runner)
    /\ call \in [Calls -> CallStates]
    /\ accepted \in [Requests -> Nat]

\* A signed request is accepted at most once, however often it is delivered
\* and however the threads that handle it, the purge of old nonces, and the
\* deletion and new pairing of its key interleave.
AcceptedOnce == \A req \in Requests : accepted[req] <= 1

\* A replay refusal is never false: a row that an active runner's request can
\* collide with was written by that very runner row, with a request that was
\* accepted.  A key that is paired again does not inherit the nonces of the
\* runner it belonged to, and a request that fails later burns no nonce.
NoFalseReplays ==
    \A n \in nonces, r \in Runners :
        runner[r].state = "active" /\ runner[r].key = n.key =>
            /\ n.runner = r
            /\ \E req \in Requests :
                   req.runner = r /\ req.nonce = n.nonce /\ accepted[req] > 0

\* The inductive invariant behind AcceptedOnce.  A request that was accepted
\* is spent: its runner is gone, or no call can still see it inside the window
\* when it commits, or its nonce is in the table, observed no earlier than
\* MaxFuture before its stamp.
Spent(req) ==
    \/ runner[req.runner].state = "deleted"
    \/ now > req.stamp + MaxAge + MaxStall
    \/ \E n \in nonces :
          /\ n.runner = req.runner
          /\ n.key = runner[req.runner].key
          /\ n.nonce = req.nonce
          /\ n.at + MaxFuture >= req.stamp

FreshCall(c) ==
    call[c].stage = "observed" =>
        /\ call[c].at <= now
        /\ now <= call[c].at + MaxStall
        /\ InWindow(call[c].req, call[c].at)

IInv ==
    /\ TypeOK
    /\ \A c \in Calls : FreshCall(c)
    /\ \A req \in Requests : accepted[req] > 0 => Spent(req)
    /\ AcceptedOnce
=============================================================================
