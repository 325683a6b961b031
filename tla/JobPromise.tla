------------------------------ MODULE JobPromise ------------------------------
(***************************************************************************)
(* What the fixture-job service promises to the owner of a job and to the  *)
(* runner that works on it, with no leases, deadlines, attempt rows or     *)
(* clock: a job of a worker is granted a bounded number of times, one job  *)
(* of a worker at a time, and ends once, with an outcome or without one.   *)
(* MatchLease implements it.                                               *)
(***************************************************************************)
EXTENDS Integers

CONSTANTS Workers, NoWorker, Jobs, Outcomes, NoOutcome, MaxGrants

VARIABLES
    worker,    \* the one worker a job is for
    phase,     \* none, waiting, granted, done, failed or gone
    grants,    \* how often the job was granted
    outcome    \* the accepted outcome

vars == <<worker, phase, grants, outcome>>

Init ==
    /\ worker = [j \in Jobs |-> NoWorker]
    /\ phase = [j \in Jobs |-> "none"]
    /\ grants = [j \in Jobs |-> 0]
    /\ outcome = [j \in Jobs |-> NoOutcome]

\* The phase of a job that is taken back from its worker.
TakenBack(j) == IF grants[j] = MaxGrants THEN "failed" ELSE "waiting"

Submit(j, w) ==
    /\ phase[j] = "none"
    /\ worker' = [worker EXCEPT ![j] = w]
    /\ phase' = [phase EXCEPT ![j] = "waiting"]
    /\ UNCHANGED <<grants, outcome>>

Grant(j) ==
    /\ phase[j] = "waiting"
    /\ \A k \in Jobs : phase[k] = "granted" => worker[k] # worker[j]
    /\ grants[j] < MaxGrants
    /\ phase' = [phase EXCEPT ![j] = "granted"]
    /\ grants' = [grants EXCEPT ![j] = @ + 1]
    /\ UNCHANGED <<worker, outcome>>

Release(j) ==
    /\ phase[j] = "granted"
    /\ phase' = [phase EXCEPT ![j] = TakenBack(j)]
    /\ UNCHANGED <<worker, grants, outcome>>

\* A job is taken back and a job of the same worker, perhaps the same job, is
\* granted at once.
Regrant(j, k) ==
    /\ phase[j] = "granted"
    /\ worker[k] = worker[j]
    /\ j = k \/ phase[k] = "waiting"
    /\ grants[k] < MaxGrants
    /\ phase' = [phase EXCEPT ![j] = TakenBack(j), ![k] = "granted"]
    /\ grants' = [grants EXCEPT ![k] = @ + 1]
    /\ UNCHANGED <<worker, outcome>>

Finish(j, out) ==
    /\ phase[j] = "granted"
    /\ phase' = [phase EXCEPT ![j] = "done"]
    /\ outcome' = [outcome EXCEPT ![j] = out]
    /\ UNCHANGED <<worker, grants>>

\* The owner withdraws a worker: what it has not finished fails.
Withdraw(w) ==
    /\ phase' = [j \in Jobs |->
           IF worker[j] = w /\ phase[j] \in {"waiting", "granted"}
           THEN "failed" ELSE phase[j]]
    /\ UNCHANGED <<worker, grants, outcome>>

\* The owner has workers forgotten: every trace of their jobs goes.
Forget(ws) ==
    LET gone == {j \in Jobs : worker[j] \in ws}
    IN /\ worker' = [j \in Jobs |-> IF j \in gone THEN NoWorker ELSE worker[j]]
       /\ phase' = [j \in Jobs |-> IF j \in gone THEN "gone" ELSE phase[j]]
       /\ grants' = [j \in Jobs |-> IF j \in gone THEN 0 ELSE grants[j]]
       /\ outcome' = [j \in Jobs |->
              IF j \in gone THEN NoOutcome ELSE outcome[j]]

Next ==
    \/ \E j \in Jobs :
          \/ \E w \in Workers : Submit(j, w)
          \/ Grant(j)
          \/ Release(j)
          \/ \E k \in Jobs : Regrant(j, k)
          \/ \E out \in Outcomes : Finish(j, out)
    \/ \E w \in Workers : Withdraw(w)
    \/ \E ws \in SUBSET Workers : Forget(ws)

Spec == Init /\ [][Next]_vars
=============================================================================
