------------------------------ MODULE RunnerWork ------------------------------
(***************************************************************************)
(* The runner's command line and the hosted store together: `agentwars     *)
(* runner work --once' (bin/agentwars.py) polls for a lease, computes the  *)
(* fixture and reports the result, as two signed requests over HTTP.  The  *)
(* server takes each request in two transactions: verify_signed_request    *)
(* consumes its nonce, then the handler (provider_hub_hosted/handlers.py)  *)
(* runs the operation of the store, which is the step of MatchLease.       *)
(*                                                                         *)
(* Several commands may run for one runner.  A request may be delivered    *)
(* late, after its command gave up, or be dropped before, between or after *)
(* the two transactions.  The command never sends a request again: run     *)
(* once more, it signs another.  A second delivery of one request stops at *)
(* its nonce, as RequestNonce shows, and is not a step here.               *)
(***************************************************************************)
EXTENDS MatchLease

CONSTANTS
    Commands,    \* `runner work' processes, started again and again
    ServedBy,    \* the runner whose profile and key a command uses
    MaxLate      \* bound: requests in flight whose command gave up

ASSUME CommandsAssumption ==
    /\ ServedBy \in [Commands -> Runners]
    /\ MaxLate \in Nat

VARIABLES
    pc,        \* what each command does: idle, or awaiting an answer
    sent,      \* requests on their way to the server
    verified,  \* requests whose nonce is consumed, before their operation
    receipts   \* history: what commands printed about finished jobs

work == <<pc, sent, verified, receipts>>
allVars == <<vars, work>>

NoLease == [job |-> "none", epoch |-> 0]
Held(j, e) == [job |-> j, epoch |-> e]

\* A request; it is live while its command waits for the answer.
Request(p, kind, lease, live) ==
    [by |-> p, kind |-> kind, lease |-> lease, live |-> live]

\* The digests of a receipt, which the client compares with its own.
Receipt(j, e, out) == [job |-> j, epoch |-> e, output |-> out]

WorkInit ==
    /\ Init
    /\ pc = [p \in Commands |-> "idle"]
    /\ sent = {}
    /\ verified = {}
    /\ receipts = {}

-----------------------------------------------------------------------------
(* The command.                                                            *)

Start(p) ==
    /\ pc[p] = "idle"
    /\ pc' = [pc EXCEPT ![p] = "polling"]
    /\ sent' = sent \cup {Request(p, "poll", NoLease, TRUE)}
    /\ UNCHANGED <<vars, verified, receipts>>

\* The command of a request that is answered by an error, or never: it ends
\* now or at its timeout, and has nothing to say about a job.
Fails(q) ==
    /\ pc' = IF q.live THEN [pc EXCEPT ![q.by] = "idle"] ELSE pc
    /\ UNCHANGED <<sent, receipts>>

\* A grant that reaches its command is computed and reported.
Granted(q, j, e) ==
    \/ Fails(q)
    \/ /\ q.live
       /\ pc' = [pc EXCEPT ![q.by] = "reporting"]
       /\ sent' = sent \cup {Request(q.by, "result", Held(j, e), TRUE)}
       /\ UNCHANGED receipts

\* A job that is finished, or a result that is recorded, is printed.
Told(q, told) ==
    \/ Fails(q)
    \/ /\ q.live
       /\ pc' = [pc EXCEPT ![q.by] = "idle"]
       /\ receipts' = receipts \cup told
       /\ UNCHANGED sent

\* The command times out or is stopped while its request is on its way, or
\* waits in the server, and is still served.
GiveUp(q) ==
    LET late(qs) == IF q \in qs THEN (qs \ {q}) \cup {[q EXCEPT !.live = FALSE]}
                                 ELSE qs
    IN /\ q.live
       /\ Cardinality({o \in sent \cup verified : ~o.live}) < MaxLate
       /\ sent' = late(sent)
       /\ verified' = late(verified)
       /\ pc' = [pc EXCEPT ![q.by] = "idle"]
       /\ UNCHANGED <<vars, receipts>>

-----------------------------------------------------------------------------
(* The server.                                                             *)

\* verify_signed_request consumes the nonce; the runner must be active.
Verify(q) ==
    /\ q \in sent
    /\ runner[ServedBy[q.by]] = "active"
    /\ sent' = sent \ {q}
    /\ verified' = verified \cup {q}
    /\ UNCHANGED <<vars, pc, receipts>>

\* The request is lost on its way or refused, or the server stops between
\* the transaction of the nonce and that of the operation.
Drop(q) ==
    /\ sent' = sent \ {q}
    /\ verified' = verified \ {q}
    /\ pc' = IF q.live THEN [pc EXCEPT ![q.by] = "idle"] ELSE pc
    /\ UNCHANGED <<vars, receipts>>

\* The handler poll, with the time the store reads then.
ServePoll(q) ==
    LET r == ServedBy[q.by]
    IN /\ q \in verified
       /\ q.kind = "poll"
       /\ verified' = verified \ {q}
       /\ \/ /\ PollRecover(r, now)
             /\ \E j \in JobsOf(r), e \in Epochs :
                    /\ Active(j, e) /\ ~Lapsed(r, j, e, now)
                    /\ Granted(q, j, e)
          \/ \E j \in Jobs :
                /\ PollGrant(r, j, now)
                /\ IF job'[j].status = "leased"
                   THEN Granted(q, j, job'[j].used)
                   ELSE Fails(q)
          \/ /\ PollTerminal(r, now)
             /\ Told(q, {Receipt(j, result[j].epoch, result[j].output) :
                             j \in {k \in JobsOf(r) : job[k].status = "completed"}})
          \/ /\ runner[r] # "active" \/ JobsOf(r) = {}
             /\ Fails(q)
             /\ UNCHANGED vars

\* Mutant: a report ends whatever lease its job has.
ServeResultAnyEpoch(q) ==
    LET r == ServedBy[q.by]
    IN /\ q \in verified
       /\ q.kind = "result"
       /\ verified' = verified \ {q}
       /\ \/ /\ RecordResult(r, q.lease.job, job[q.lease.job].used, "expected", now)
             /\ Told(q, {Receipt(q.lease.job, q.lease.epoch, "expected")})
          \/ /\ ~HoldsLease(r, q.lease.job, job[q.lease.job].used)
             /\ Fails(q)
             /\ UNCHANGED vars

\* The handler result: a first report under the lease is recorded, the same
\* report again is answered as a duplicate, any other is an error.
ServeResult(q) ==
    LET r == ServedBy[q.by]
        j == q.lease.job
        e == q.lease.epoch
        told == Receipt(j, e, "expected")
        stored == Receipt(j, result[j].epoch, result[j].output)
    IN /\ q \in verified
       /\ q.kind = "result"
       /\ verified' = verified \ {q}
       /\ \/ /\ RecordResult(r, j, e, "expected", now)
             /\ Told(q, {told})
          \/ /\ SweepLate(r, j, e, now)
             /\ Fails(q)
          \/ /\ ~HoldsLease(r, j, e)
             /\ Told(q, IF runner[r] = "active" /\ stored = told
                          THEN {told} ELSE {})
             /\ UNCHANGED vars

-----------------------------------------------------------------------------
\* Only differences of instants matter, so the clock may stand still while
\* no lease is running; counting only then makes the bound MaxTime enough.
LeaseTick ==
    /\ \E j \in Jobs, e \in Epochs :
           Active(j, e) /\ attempt[j][e].expires > now
    /\ Tick

\* Ids of jobs still to be created; which one comes next makes no difference.
Unused == {j \in Jobs : job[j].status = "absent"}

\* Owners act as in MatchLease, at the present time, and ask for no more than
\* the Jobs of the instance; time passes while a lease runs; a program other
\* than the command line may use the runner's key to renew or give back.
Environment ==
    /\ \/ LeaseTick
       \/ \E r \in Runners :
             /\ Unused # {}
             /\ \/ BeginCreateJob(r)
                \/ CreateJob(r, CHOOSE j \in Unused : TRUE, now)
       \/ \E r \in Runners : Revoke(r) \/ DeleteRunner(r)
       \/ \E r \in Runners, j \in Jobs, e \in Epochs :
             Renew(r, j, e, now) \/ Abandon(r, j, e, now)
    /\ UNCHANGED work

Serve(q) == ServePoll(q) \/ ServeResult(q)

WorkNext ==
    \/ Environment
    \/ \E p \in Commands : Start(p)
    \/ \E q \in sent \cup verified :
          Verify(q) \/ Drop(q) \/ GiveUp(q) \/ Serve(q)

\* The timeout of a command, 1 to 60 seconds: its request may still be served.
TimesOut(p) ==
    \E q \in sent \cup verified :
        q.by = p /\ q.live /\ (Drop(q) \/ GiveUp(q))

\* Time passes, commands time out and are started again and again, and, however
\* many are lost, polls of each command keep being delivered and then served.
\* No fairness is assumed of results, of answers or of the owner.
WorkSpec ==
    /\ WorkInit
    /\ [][WorkNext]_allVars
    /\ WF_allVars(LeaseTick /\ UNCHANGED work)
    /\ \A p \in Commands :
          /\ WF_allVars(Start(p))
          /\ WF_allVars(TimesOut(p))
          /\ SF_allVars(Verify(Request(p, "poll", NoLease, TRUE)))
          /\ SF_allVars(ServePoll(Request(p, "poll", NoLease, TRUE)))

-----------------------------------------------------------------------------
(* What the command and the server promise together.                       *)

\* What a command printed about a finished job stays true: the job has the
\* result the command computed or was shown, whoever reported it, until the
\* owner deletes it.
ReceiptsStand ==
    \A told \in receipts :
        \/ told = Receipt(told.job, result[told.job].epoch, result[told.job].output)
        \/ job[told.job].status = "deleted"

\* A lease that has not run out is completed, or found expired, only by a
\* report of that very lease: never by a report that was delayed from an
\* earlier lease of the job or that another command sent.
LeasesAreFenced ==
    [][\A j \in Jobs, e \in Epochs :
           /\ Active(j, e)
           /\ attempt[j][e].expires > now
           /\ attempt'[j][e].state \in {"completed", "expired"}
           => \E q \in verified \ verified' : q.lease = Held(j, e)]_allVars

\* A queued job ends although commands die, requests and answers are lost and
\* the server stops between the two transactions of a request.
QueuedWorkEnds ==
    \A j \in Jobs : job[j].status = "queued" ~> job[j].status \in
                        {"completed", "exhausted", "deleted"}
=============================================================================
