------------------------------ MODULE MatchLease ------------------------------
(***************************************************************************)
(* The fixture-job half of HostedControlPlaneStore                         *)
(* (provider_hub_hosted/store.py): an owner queues a job for a paired      *)
(* runner, the runner polls for a lease on it, renews, abandons or         *)
(* completes it, and the owner may revoke or delete the runner meanwhile.  *)
(*                                                                         *)
(* Every method is one SQLite transaction (BEGIN IMMEDIATE under an RLock) *)
(* and so one action here, except create_fixture_job, which reads the      *)
(* runner before its transaction and checks it again inside.  The methods  *)
(* read the clock BEFORE they take the lock, so a transaction may commit   *)
(* with a time that other transactions have overtaken: each action takes   *)
(* the time t it read, any instant up to the present one.                  *)
(***************************************************************************)
EXTENDS Integers, FiniteSets

CONSTANTS
    Runners,      \* runner ids (awr1_...) confirmed before the model starts
    Owners,       \* owner ids
    OwnerOf,      \* column owner_id of the runner rows
    NoRunner,     \* stands in for the runner of a job row that is not there
    Jobs,         \* job ids (awj1_...), random and therefore never reused
    MaxAttempts,  \* MATCH_JOB_MAX_ATTEMPTS
    MaxRenews,    \* MATCH_JOB_MAX_RENEWS
    LeaseLength,  \* LEASE_SECONDS, in ticks of the clock
    MaxTime       \* bound: the last instant of the clock

ASSUME CountsAssumption ==
    /\ MaxAttempts \in Nat \ {0}
    /\ MaxRenews \in Nat
    /\ LeaseLength \in Nat \ {0}
    /\ MaxTime \in Nat

ASSUME OwnersAssumption ==
    /\ OwnerOf \in [Runners -> Owners]
    /\ NoRunner \notin Runners

VARIABLES
    now,       \* the store's clock
    runner,    \* table runners: the state of each row, or "deleted"
    creating,  \* runners read as active by a create_fixture_job in flight
    job,       \* table jobs
    attempt,   \* table attempts, by UNIQUE(job_id, lease_epoch)
    result,    \* table results
    replay     \* table replay_projections

vars == <<now, runner, creating, job, attempt, result, replay>>

Epochs == 1..MaxAttempts
Outputs == {"expected", "other"}
JobStatus == {"absent", "queued", "leased", "completed", "exhausted", "deleted"}
AttemptState == {"none", "active", "expired", "abandoned", "completed"}

NoResult == [epoch |-> 0, output |-> "none", conformance |-> "none"]
ResultRows == [epoch : Epochs, output : Outputs,
               conformance : {"match", "mismatch"}]

JobRow(r, status, used, created) ==
    [runner |-> r, status |-> status, used |-> used, created |-> created]
NoJob(status) == JobRow(NoRunner, status, 0, 0)

\* An attempt row.  The times and the renewals of an attempt that ended are
\* never read again, and the model forgets them.
Lease(renews, created, expires) ==
    [state |-> "active", renews |-> renews, created |-> created, expires |-> expires]
Ended(state) == [state |-> state, renews |-> 0, created |-> 0, expires |-> 0]
NoAttempt == Ended("none")

Init ==
    /\ now = 0
    /\ runner = [r \in Runners |-> "active"]
    /\ creating = {}
    /\ job = [j \in Jobs |-> NoJob("absent")]
    /\ attempt = [j \in Jobs |-> [e \in Epochs |-> NoAttempt]]
    /\ result = [j \in Jobs |-> NoResult]
    /\ replay = [j \in Jobs |-> NoResult]

-----------------------------------------------------------------------------
(* Rows the methods select.                                                *)

Stored == {"queued", "leased", "completed", "exhausted"}
JobsOf(r) == {j \in Jobs : job[j].runner = r /\ job[j].status \in Stored}
Active(j, e) == attempt[j][e].state = "active"
HasActive(j) == \E e \in Epochs : Active(j, e)

\* The SELECT of _expire_attempts: active leases past their deadline at t.
Lapsed(r, j, e, t) ==
    j \in JobsOf(r) /\ Active(j, e) /\ attempt[j][e].expires <= t

\* A job that loses its lease goes back to the queue while it has attempts.
AfterLease(j) ==
    IF job[j].used >= MaxAttempts THEN "exhausted" ELSE "queued"

\* _expire_attempts: both tables after the lapsed leases of r are closed.
SweptAttempts(r, t) ==
    [j \in Jobs |-> [e \in Epochs |->
        IF Lapsed(r, j, e, t)
        THEN Ended("expired")
        ELSE attempt[j][e]]]
\* Mutant: the sweep closes the attempts and forgets their jobs.
SweptJobsForgotten(r, t) == job

SweptJobs(r, t) ==
    [j \in Jobs |->
        IF job[j].status = "leased" /\ \E e \in Epochs : Lapsed(r, j, e, t)
        THEN [job[j] EXCEPT !.status = AfterLease(j)]
        ELSE job[j]]

\* ORDER BY created_at_ms, job_id LIMIT 1 over the queued jobs of r in js;
\* job ids are random, so any of the oldest may come first.
OldestQueued(r, js) ==
    LET queued == {j \in Jobs : js[j].runner = r /\ js[j].status = "queued"}
    IN {j \in queued : \A k \in queued : js[j].created <= js[k].created}

\* The row that renew, abandon and record select: an active lease of r.
HoldsLease(r, j, e) ==
    /\ runner[r] = "active"
    /\ j \in JobsOf(r)
    /\ Active(j, e)
    /\ job[j].status = "leased"

-----------------------------------------------------------------------------
(* Owner operations.                                                       *)

\* create_fixture_job reads the runner outside of any transaction...
BeginCreateJob(r) ==
    /\ runner[r] = "active"
    /\ creating' = creating \cup {r}
    /\ UNCHANGED <<now, runner, job, attempt, result, replay>>

\* Mutant: the transaction trusts the earlier read of the runner.
CreateJobUnchecked(r, j, t) ==
    /\ r \in creating
    /\ creating' = creating \ {r}
    /\ job[j].status = "absent"
    /\ job' = [job EXCEPT ![j] = JobRow(r, "queued", 0, t)]
    /\ UNCHANGED <<now, runner, attempt, result, replay>>

\* ...and inserts the job only if the runner is active in the transaction.
CreateJob(r, j, t) ==
    /\ r \in creating
    /\ creating' = creating \ {r}
    /\ \/ /\ runner[r] = "active"
          /\ job[j].status = "absent"
          /\ job' = [job EXCEPT ![j] = JobRow(r, "queued", 0, t)]
       \/ /\ runner[r] # "active"
          /\ UNCHANGED job
    /\ UNCHANGED <<now, runner, attempt, result, replay>>

\* revoke_runner: the runner, its active leases and its unfinished jobs end
\* together; completed work is kept.
Revoke(r) ==
    /\ runner[r] \in {"active", "revoked"}
    /\ runner' = [runner EXCEPT ![r] = "revoked"]
    /\ attempt' = [j \in Jobs |-> [e \in Epochs |->
           IF j \in JobsOf(r) /\ Active(j, e)
           THEN Ended("abandoned")
           ELSE attempt[j][e]]]
    /\ job' = [j \in Jobs |->
           IF j \in JobsOf(r) /\ job[j].status \in {"queued", "leased"}
           THEN [job[j] EXCEPT !.status = "exhausted"]
           ELSE job[j]]
    /\ UNCHANGED <<now, creating, result, replay>>

\* The foreign keys of a deleted runner row cascade to its jobs, and from
\* them to attempts, results and replay projections.
Cascade(rs) ==
    LET gone == UNION {JobsOf(r) : r \in rs}
    IN /\ runner' = [r \in Runners |->
              IF r \in rs THEN "deleted" ELSE runner[r]]
       /\ job' = [j \in Jobs |->
              IF j \in gone THEN NoJob("deleted") ELSE job[j]]
       /\ attempt' = [j \in Jobs |->
              IF j \in gone THEN [e \in Epochs |-> NoAttempt]
                            ELSE attempt[j]]
       /\ result' = [j \in Jobs |->
              IF j \in gone THEN NoResult ELSE result[j]]
       /\ replay' = [j \in Jobs |->
              IF j \in gone THEN NoResult ELSE replay[j]]
       /\ UNCHANGED <<now, creating>>

\* delete_runner
DeleteRunner(r) ==
    /\ runner[r] # "deleted"
    /\ Cascade({r})

\* delete_owner: every runner of the owner goes at once.
DeleteOwner(o) == Cascade({r \in Runners : OwnerOf[r] = o})

-----------------------------------------------------------------------------
(* Runner operations, after the signed request was verified.               *)

\* poll_job when, after the sweep, the runner still has a live lease: the
\* same lease is answered again (recovery), so a lost answer costs nothing.
PollRecover(r, t) ==
    /\ runner[r] = "active"
    /\ \E j \in JobsOf(r), e \in Epochs :
           Active(j, e) /\ ~Lapsed(r, j, e, t)
    /\ job' = SweptJobs(r, t)
    /\ attempt' = SweptAttempts(r, t)
    /\ UNCHANGED <<now, runner, creating, result, replay>>

\* Mutant: a poll does not look for a live lease before it grants the next.
PollGrantBlind(r, j, t) ==
    LET js == SweptJobs(r, t)
        as == SweptAttempts(r, t)
        epoch == js[j].used + 1
    IN /\ runner[r] = "active"
       /\ j \in OldestQueued(r, js)
       /\ epoch <= MaxAttempts
       /\ job' = [js EXCEPT ![j].status = "leased", ![j].used = epoch]
       /\ attempt' = [as EXCEPT ![j][epoch] = Lease(0, t, t + LeaseLength)]
       /\ UNCHANGED <<now, runner, creating, result, replay>>

\* poll_job when no lease is live: the oldest queued job gets its next epoch.
\* The exhausted branch is the one the code takes at its attempt limit.
PollGrant(r, j, t) ==
    LET js == SweptJobs(r, t)
        as == SweptAttempts(r, t)
        epoch == js[j].used + 1
    IN /\ runner[r] = "active"
       /\ \A k \in JobsOf(r), e \in Epochs : as[k][e].state # "active"
       /\ j \in OldestQueued(r, js)
       /\ IF epoch > MaxAttempts
          THEN /\ job' = [js EXCEPT ![j].status = "exhausted"]
               /\ attempt' = as
          ELSE /\ job' = [js EXCEPT ![j].status = "leased",
                                    ![j].used = epoch]
               /\ attempt' = [as EXCEPT ![j][epoch] = Lease(0, t, t + LeaseLength)]
       /\ UNCHANGED <<now, runner, creating, result, replay>>

\* poll_job when nothing is live or queued: a finished job is reported and
\* the sweep commits; with no job at all the transaction is rolled back.
PollTerminal(r, t) ==
    LET js == SweptJobs(r, t)
        as == SweptAttempts(r, t)
    IN /\ runner[r] = "active"
       /\ \A k \in JobsOf(r), e \in Epochs : as[k][e].state # "active"
       /\ OldestQueued(r, js) = {}
       /\ \E k \in JobsOf(r) : js[k].status \in {"completed", "exhausted"}
       /\ job' = js
       /\ attempt' = as
       /\ UNCHANGED <<now, runner, creating, result, replay>>

\* A renew, abandon or result that finds its lease past the deadline commits
\* the sweep of the runner and answers lease_expired.
SweepLate(r, j, e, t) ==
    /\ HoldsLease(r, j, e)
    /\ attempt[j][e].expires <= t
    /\ job' = SweptJobs(r, t)
    /\ attempt' = SweptAttempts(r, t)
    /\ UNCHANGED <<now, runner, creating, result, replay>>

\* Mutant: the renewals are not counted.
RenewForever(r, j, e, t) ==
    LET row == attempt[j][e]
    IN /\ HoldsLease(r, j, e)
       /\ row.expires > t
       /\ row.expires <= MaxTime + LeaseLength
       /\ attempt' = [attempt EXCEPT
              ![j][e] = Lease(row.renews, row.created, row.expires + LeaseLength)]
       /\ UNCHANGED <<now, runner, creating, job, result, replay>>

\* renew_attempt: the deadline moves by one lease from the later of the
\* present deadline and the time read.
Renew(r, j, e, t) ==
    LET row == attempt[j][e]
        from == IF t > row.expires THEN t ELSE row.expires
    IN /\ HoldsLease(r, j, e)
       /\ row.expires > t
       /\ row.renews < MaxRenews
       /\ attempt' = [attempt EXCEPT
              ![j][e] = Lease(row.renews + 1, row.created, from + LeaseLength)]
       /\ UNCHANGED <<now, runner, creating, job, result, replay>>

\* Mutant: an abandoned attempt does not count against the limit.
AbandonRefunded(r, j, e, t) ==
    /\ HoldsLease(r, j, e)
    /\ attempt[j][e].expires > t
    /\ attempt' = [attempt EXCEPT ![j][e] = NoAttempt]
    /\ job' = [job EXCEPT ![j].status = "queued", ![j].used = @ - 1]
    /\ UNCHANGED <<now, runner, creating, result, replay>>

\* Mutant: an abandoned job goes back to the queue whatever it has used.
AbandonRequeued(r, j, e, t) ==
    /\ HoldsLease(r, j, e)
    /\ attempt[j][e].expires > t
    /\ attempt' = [attempt EXCEPT ![j][e] = Ended("abandoned")]
    /\ job' = [job EXCEPT ![j].status = "queued"]
    /\ UNCHANGED <<now, runner, creating, result, replay>>

\* abandon_attempt: the lease is given back before its deadline.
Abandon(r, j, e, t) ==
    /\ HoldsLease(r, j, e)
    /\ attempt[j][e].expires > t
    /\ attempt' = [attempt EXCEPT ![j][e] = Ended("abandoned")]
    /\ job' = [job EXCEPT ![j].status = AfterLease(j)]
    /\ UNCHANGED <<now, runner, creating, result, replay>>

\* Mutant: a result is taken from an attempt whose lease was lost.
RecordResultLate(r, j, e, out, t) ==
    LET row == [epoch |-> e, output |-> out,
                conformance |-> IF out = "expected" THEN "match"
                                                    ELSE "mismatch"]
    IN /\ result[j] = NoResult
       /\ runner[r] = "active"
       /\ j \in JobsOf(r)
       /\ attempt[j][e].state \in {"active", "expired"}
       /\ result' = [result EXCEPT ![j] = row]
       /\ attempt' = [attempt EXCEPT ![j][e] = Ended("completed")]
       /\ job' = [job EXCEPT ![j].status = "completed"]
       /\ replay' = [replay EXCEPT ![j] = row]
       /\ UNCHANGED <<now, runner, creating>>

\* record_result, first report under a live lease: result, attempt, job and
\* public replay change together.  The conformance is the server's own
\* comparison.  A repeated report, a different one, a wrong engine or a
\* wrong transcript commitment change nothing.
RecordResult(r, j, e, out, t) ==
    LET row == [epoch |-> e, output |-> out,
                conformance |-> IF out = "expected" THEN "match"
                                                    ELSE "mismatch"]
    IN /\ result[j] = NoResult
       /\ HoldsLease(r, j, e)
       /\ attempt[j][e].expires > t
       /\ result' = [result EXCEPT ![j] = row]
       /\ attempt' = [attempt EXCEPT ![j][e] = Ended("completed")]
       /\ job' = [job EXCEPT ![j].status = "completed"]
       /\ replay' = [replay EXCEPT ![j] = row]
       /\ UNCHANGED <<now, runner, creating>>

Tick ==
    /\ now < MaxTime
    /\ now' = now + 1
    /\ UNCHANGED <<runner, creating, job, attempt, result, replay>>

-----------------------------------------------------------------------------
\* poll_job
Poll(r, t) ==
    \/ PollRecover(r, t)
    \/ PollTerminal(r, t)
    \/ \E j \in Jobs : PollGrant(r, j, t)

RunnerStep(r, t) ==
    \/ Poll(r, t)
    \/ \E j \in Jobs, e \in Epochs :
          \/ SweepLate(r, j, e, t)
          \/ Renew(r, j, e, t)
          \/ Abandon(r, j, e, t)
          \/ \E out \in Outputs : RecordResult(r, j, e, out, t)

OwnerStep(r, t) ==
    \/ BeginCreateJob(r)
    \/ \E j \in Jobs : CreateJob(r, j, t)
    \/ Revoke(r)
    \/ DeleteRunner(r)

Next ==
    \/ Tick
    \/ \E o \in Owners : DeleteOwner(o)
    \/ \E r \in Runners, t \in 0..now : RunnerStep(r, t) \/ OwnerStep(r, t)

Spec == Init /\ [][Next]_vars

-----------------------------------------------------------------------------
(* What the lease protocol guarantees.                                     *)

\* Every table row has the columns and the values its CHECKs allow.
TypeOK ==
    /\ now \in Nat
    /\ runner \in [Runners -> {"active", "revoked", "deleted"}]
    /\ creating \in SUBSET Runners
    /\ job \in [Jobs -> [runner : Runners \cup {NoRunner}, status : JobStatus,
                         used : 0..MaxAttempts, created : Nat]]
    /\ \A j \in Jobs : job[j].status \in Stored <=> job[j].runner \in Runners
    /\ attempt \in [Jobs -> [Epochs -> [state : AttemptState, renews : Nat,
                                        created : Nat, expires : Nat]]]
    /\ result \in [Jobs -> ResultRows \cup {NoResult}]
    /\ replay \in [Jobs -> ResultRows \cup {NoResult}]

\* A job is leased exactly while one attempt of it is active, and that is
\* the attempt of the last epoch handed out: no path of poll, renew, abandon,
\* result, sweep, revocation or deletion strands one table behind the other.
LeasedJobsHaveTheLastLease ==
    \A j \in Jobs :
        /\ job[j].status = "leased" => HasActive(j)
        /\ \A e \in Epochs :
               Active(j, e) => job[j].status = "leased" /\ e = job[j].used

\* The attempt rows of a job are exactly the epochs 1..attempts_used: an epoch
\* is never skipped and never handed out twice, whichever way leases end.
EpochsAreContiguous ==
    \A j \in Jobs :
        /\ \A e \in Epochs : attempt[j][e].state # "none" <=> e <= job[j].used
        /\ job[j].status \notin Stored => job[j].used = 0

\* poll_job never gives a runner a second job while it holds a lease,
\* although no column of the schema says so.
OneLeasePerRunner ==
    \A j, k \in Jobs :
        /\ job[j].status = "leased"
        /\ job[k].status = "leased"
        /\ job[j].runner = job[k].runner
        => j = k

\* A job in the queue can still be granted: the attempt limit of poll_job
\* finds no queued job that has used all of its attempts.
QueuedJobsHaveBudget ==
    \A j \in Jobs : job[j].status = "queued" => job[j].used < MaxAttempts

\* A result, the public replay made of it, the completed job and the
\* completed attempt exist together or not at all; the result is that of the
\* last epoch, and every earlier lease of the job ended without one.
ResultsAgree ==
    \A j \in Jobs :
        /\ result[j] # NoResult <=> job[j].status = "completed"
        /\ replay[j] = result[j]
        /\ result[j] # NoResult => result[j].epoch = job[j].used
        /\ \A e \in Epochs :
               attempt[j][e].state = "completed" <=> result[j].epoch = e

\* A revoked or deleted runner has no unfinished job, even when the job was
\* being created while the revocation committed, and a deleted runner no job.
EndedRunnersHoldNoWork ==
    \A j \in Jobs :
        /\ job[j].status \in {"queued", "leased"} =>
               runner[job[j].runner] = "active"
        /\ job[j].status \in Stored => runner[job[j].runner] # "deleted"

\* The conjunction of the above, which is inductive.
IInv ==
    /\ TypeOK
    /\ LeasedJobsHaveTheLastLease
    /\ EpochsAreContiguous
    /\ OneLeasePerRunner
    /\ QueuedJobsHaveBudget
    /\ ResultsAgree
    /\ EndedRunnersHoldNoWork

\* A lease lasts at most MaxRenews + 1 lease lengths from its grant to its last
\* deadline, however often and however late it is renewed: nobody moves the
\* start of a lease while it runs, the start is a time that has been, and no
\* deadline is further away from it.
LeaseTimeIsBounded ==
    /\ [][\A j \in Jobs, e \in Epochs :
              /\ Active(j, e)
              /\ attempt'[j][e].state = "active"
              => attempt'[j][e].created = attempt[j][e].created]_vars
    /\ [](\A j \in Jobs, e \in Epochs :
              Active(j, e) =>
                  /\ attempt[j][e].created <= now
                  /\ attempt[j][e].expires <=
                         attempt[j][e].created + (MaxRenews + 1) * LeaseLength)

-----------------------------------------------------------------------------
(* The promise the leases keep.                                            *)

PhaseOf(status) ==
    CASE status = "absent" -> "none"
      [] status = "queued" -> "waiting"
      [] status = "leased" -> "granted"
      [] status = "completed" -> "done"
      [] status = "exhausted" -> "failed"
      [] status = "deleted" -> "gone"

Promise == INSTANCE JobPromise WITH
    Workers <- Runners, NoWorker <- NoRunner, MaxGrants <- MaxAttempts,
    Outcomes <- Outputs, NoOutcome <- "none",
    worker <- [j \in Jobs |-> job[j].runner],
    phase <- [j \in Jobs |-> PhaseOf(job[j].status)],
    grants <- [j \in Jobs |-> job[j].used],
    outcome <- [j \in Jobs |-> result[j].output]

\* The tables and their sweeps implement the promise: each transaction is one
\* of its steps or none.
KeepsPromise == Promise!Spec

=============================================================================
