--------------------------- MODULE MatchLeaseProofs ---------------------------
(***************************************************************************)
(* The safety of MatchLease for every set of runners, owners and jobs and  *)
(* every limit: IInv is an invariant, and with it each of its parts; no     *)
(* lease lasts longer than its renewals; and the store keeps JobPromise.    *)
(* The last part is about RunnerWork, the store behind a network.           *)
(***************************************************************************)
EXTENDS RunnerWork, TLAPS

JobRows == [runner : Runners \cup {NoRunner}, status : JobStatus,
            used : 0..MaxAttempts, created : Nat]
AttemptRows == [state : AttemptState, renews : Nat, created : Nat, expires : Nat]

\* What IInv says of one state of the tables, as a predicate of their values,
\* so that it can be stated of a state inside a transaction.
JobsOK(rn, js) ==
    /\ js \in [Jobs -> JobRows]
    /\ \A j \in Jobs : js[j].status \in Stored <=> js[j].runner \in Runners
    /\ \A j, k \in Jobs :
           /\ js[j].status = "leased"
           /\ js[k].status = "leased"
           /\ js[j].runner = js[k].runner
           => j = k
    /\ \A j \in Jobs : js[j].status = "queued" => js[j].used < MaxAttempts
    /\ \A j \in Jobs :
           /\ js[j].status \in {"queued", "leased"} =>
                  rn[js[j].runner] = "active"
           /\ js[j].status \in Stored => rn[js[j].runner] # "deleted"
AttemptsOK(js, as) ==
    /\ as \in [Jobs -> [Epochs -> AttemptRows]]
    /\ \A j \in Jobs, e \in Epochs :
           as[j][e].state = "active" <=>
               js[j].status = "leased" /\ e = js[j].used
    /\ \A j \in Jobs :
           /\ js[j].status = "leased" => js[j].used \in Epochs
           /\ js[j].status \notin Stored => js[j].used = 0
    /\ \A j \in Jobs, e \in Epochs :
           as[j][e].state # "none" <=> e <= js[j].used
ResultsOK(js, as, res, rep) ==
    /\ res \in [Jobs -> ResultRows \cup {NoResult}]
    /\ rep \in [Jobs -> ResultRows \cup {NoResult}]
    /\ \A j \in Jobs :
           /\ res[j] # NoResult <=> js[j].status = "completed"
           /\ rep[j] = res[j]
           /\ res[j] # NoResult => res[j].epoch = js[j].used
           /\ \A e \in Epochs :
                  as[j][e].state = "completed" <=> res[j].epoch = e
ControlOK ==
    /\ now \in Nat
    /\ runner \in [Runners -> {"active", "revoked", "deleted"}]
    /\ creating \in SUBSET Runners

LEMMA IInvParts ==
    IInv <=> /\ ControlOK
             /\ JobsOK(runner, job)
             /\ AttemptsOK(job, attempt)
             /\ ResultsOK(job, attempt, result, replay)
<1>1. TypeOK => (LeasedJobsHaveTheLastLease <=> \A j \in Jobs :
          /\ \A e \in Epochs : attempt[j][e].state = "active" <=>
                 job[j].status = "leased" /\ e = job[j].used
          /\ job[j].status = "leased" => job[j].used \in Epochs)
  BY DEF LeasedJobsHaveTheLastLease, HasActive, Active
<1>2. TypeOK <=> /\ ControlOK
                 /\ job \in [Jobs -> JobRows]
                 /\ \A j \in Jobs : job[j].status \in Stored <=>
                                    job[j].runner \in Runners
                 /\ attempt \in [Jobs -> [Epochs -> AttemptRows]]
                 /\ result \in [Jobs -> ResultRows \cup {NoResult}]
                 /\ replay \in [Jobs -> ResultRows \cup {NoResult}]
  BY DEF TypeOK, ControlOK, JobRows, AttemptRows
<1> QED
  BY <1>1, <1>2
  DEF IInv, EpochsAreContiguous, OneLeasePerRunner, QueuedJobsHaveBudget,
      ResultsAgree, EndedRunnersHoldNoWork, JobsOK, AttemptsOK, ResultsOK

LEMMA InitIInv == Init => IInv
<1> SUFFICES ASSUME Init PROVE IInv
  OBVIOUS
<1>1. ControlOK
  BY DEF Init, ControlOK
<1>2. JobsOK(runner, job)
  BY CountsAssumption, OwnersAssumption
  DEF Init, JobsOK, JobRows, NoJob, JobRow, JobStatus, Stored
<1>3. AttemptsOK(job, attempt)
  BY CountsAssumption
  DEF Init, AttemptsOK, AttemptRows, NoAttempt, Ended, AttemptState, NoJob,
      JobRow, Epochs, Stored
<1>4. ResultsOK(job, attempt, result, replay)
  BY CountsAssumption
  DEF Init, ResultsOK, NoResult, NoAttempt, Ended, NoJob, JobRow, Epochs
<1> QED
  BY <1>1, <1>2, <1>3, <1>4, IInvParts

-----------------------------------------------------------------------------
(* The sweep inside poll, renew, abandon and result.                       *)

\* Job j has lost its lease by time t, as a call of runner r finds out.
Lost(r, t, j) ==
    /\ job[j].status = "leased"
    /\ job[j].runner = r
    /\ attempt[j][job[j].used].expires <= t

LEMMA SweepRows ==
  ASSUME IInv, NEW r \in Runners, NEW t \in Nat, NEW j \in Jobs
  PROVE  /\ SweptJobs(r, t)[j] =
                IF Lost(r, t, j)
                THEN [job[j] EXCEPT !.status = AfterLease(j)]
                ELSE job[j]
         /\ \A e \in Epochs : SweptAttempts(r, t)[j][e] =
                IF Lost(r, t, j) /\ e = job[j].used
                THEN Ended("expired")
                ELSE attempt[j][e]
<1>1. \A e \in Epochs : Lapsed(r, j, e, t) <=>
          Lost(r, t, j) /\ e = job[j].used
  BY IInvParts DEF Lapsed, Lost, JobsOf, Stored, Active, AttemptsOK
<1>2. Lost(r, t, j) => job[j].status = "leased" /\ job[j].used \in Epochs
  BY IInvParts DEF AttemptsOK, Lost
<1> QED
  BY <1>1, <1>2 DEF SweptJobs, SweptAttempts

LEMMA SweepKeeps ==
  ASSUME IInv, NEW r \in Runners, NEW t \in Nat
  PROVE  /\ JobsOK(runner, SweptJobs(r, t))
         /\ AttemptsOK(SweptJobs(r, t), SweptAttempts(r, t))
         /\ ResultsOK(SweptJobs(r, t), SweptAttempts(r, t), result, replay)
<1> DEFINE js == SweptJobs(r, t)
           as == SweptAttempts(r, t)
           lost(j) == Lost(r, t, j)
<1>1. js = [j \in Jobs |-> js[j]]
  BY DEF SweptJobs
<1>2. as = [j \in Jobs |-> [e \in Epochs |-> as[j][e]]]
  BY DEF SweptAttempts
<1>3. \A j \in Jobs : lost(j) => job[j].status = "leased"
  BY DEF Lost
<1>4. \A j \in Jobs : /\ js[j] \in JobRows
                      /\ js[j].runner = job[j].runner
                      /\ js[j].used = job[j].used
                      /\ js[j].status =
                             IF lost(j) THEN AfterLease(j) ELSE job[j].status
  <2> SUFFICES ASSUME NEW j \in Jobs
               PROVE  /\ js[j] \in JobRows
                      /\ js[j].runner = job[j].runner
                      /\ js[j].used = job[j].used
                      /\ js[j].status =
                             IF lost(j) THEN AfterLease(j) ELSE job[j].status
    OBVIOUS
  <2>1. job[j] \in JobRows
    BY IInvParts DEF JobsOK
  <2>2. AfterLease(j) \in JobStatus
    BY DEF AfterLease, JobStatus
  <2>3. js[j] = IF lost(j) THEN [job[j] EXCEPT !.status = AfterLease(j)]
                           ELSE job[j]
    BY SweepRows
  <2> HIDE DEF js, lost
  <2> QED
    BY <2>1, <2>2, <2>3 DEF JobRows
<1>5. \A j \in Jobs, e \in Epochs :
          /\ as[j][e] \in AttemptRows
          /\ as[j][e].state = IF lost(j) /\ e = job[j].used
                              THEN "expired" ELSE attempt[j][e].state
  <2>1. \A j \in Jobs, e \in Epochs : attempt[j][e] \in AttemptRows
    BY IInvParts DEF AttemptsOK
  <2>2. /\ Ended("expired") \in AttemptRows
        /\ Ended("expired").state = "expired"
    BY DEF Ended, AttemptRows, AttemptState
  <2> SUFFICES ASSUME NEW j \in Jobs, NEW e \in Epochs
               PROVE  /\ as[j][e] \in AttemptRows
                      /\ as[j][e].state = IF lost(j) /\ e = job[j].used
                                          THEN "expired"
                                          ELSE attempt[j][e].state
    OBVIOUS
  <2>3. as[j][e] = IF lost(j) /\ e = job[j].used THEN Ended("expired")
                                                 ELSE attempt[j][e]
    BY SweepRows
  <2> HIDE DEF as, lost
  <2> QED
    BY <2>1, <2>2, <2>3
<1> HIDE DEF js, as, lost
<1>6. JobsOK(runner, js)
  <2>1. js \in [Jobs -> JobRows]
    BY <1>1, <1>4
  <2>2. \A j \in Jobs : js[j].status = "queued" => js[j].used < MaxAttempts
    BY <1>4, CountsAssumption, IInvParts DEF AfterLease, JobsOK, JobRows
  <2> QED
    BY <1>3, <1>4, <2>1, <2>2, IInvParts DEF JobsOK, AfterLease, Stored
<1>7. AttemptsOK(js, as)
  <2>1. as \in [Jobs -> [Epochs -> AttemptRows]]
    BY <1>2, <1>5
  <2>2. \A j \in Jobs, e \in Epochs :
            as[j][e].state = "active" <=>
                js[j].status = "leased" /\ e = js[j].used
    <3> SUFFICES ASSUME NEW j \in Jobs, NEW e \in Epochs
                 PROVE  as[j][e].state = "active" <=>
                            js[j].status = "leased" /\ e = js[j].used
      OBVIOUS
    <3>1. attempt[j][e].state = "active" <=>
              job[j].status = "leased" /\ e = job[j].used
      BY IInvParts DEF AttemptsOK
    <3>2. CASE lost(j)
      BY <3>1, <3>2, <1>3, <1>4, <1>5 DEF AfterLease
    <3>3. CASE ~lost(j)
      BY <3>1, <3>3, <1>4, <1>5
    <3> QED
      BY <3>2, <3>3
  <2>3. \A j \in Jobs, e \in Epochs :
            as[j][e].state # "none" <=> e <= js[j].used
    <3>1. \A j \in Jobs, e \in Epochs :
              as[j][e].state # "none" <=> attempt[j][e].state # "none"
      BY <1>3, <1>5, IInvParts DEF AttemptsOK
    <3> QED
      BY <3>1, <1>4, IInvParts DEF AttemptsOK
  <2>4. ASSUME NEW j \in Jobs
        PROVE  /\ js[j].status = "leased" => js[j].used \in Epochs
               /\ js[j].status \notin Stored => js[j].used = 0
    <3>1. /\ job[j].status = "leased" => job[j].used \in Epochs
          /\ job[j].status \notin Stored => job[j].used = 0
      BY IInvParts DEF AttemptsOK
    <3> QED
      BY <1>3, <1>4, <3>1 DEF AfterLease, Stored
  <2> QED
    BY <2>1, <2>2, <2>3, <2>4 DEF AttemptsOK
<1>8. ResultsOK(js, as, result, replay)
  <2>1. \A j \in Jobs, e \in Epochs :
            as[j][e].state = "completed" <=> attempt[j][e].state = "completed"
    BY <1>3, <1>5, IInvParts DEF AttemptsOK
  <2>2. \A j \in Jobs :
            js[j].status = "completed" <=> job[j].status = "completed"
    BY <1>3, <1>4 DEF AfterLease
  <2> QED
    BY <1>4, <2>1, <2>2, IInvParts DEF ResultsOK
<1> QED
  BY <1>6, <1>7, <1>8 DEF js, as

-----------------------------------------------------------------------------
(* The steps.                                                              *)

\* IInv of the next state, from its parts.
LEMMA IInvNext ==
  ASSUME ControlOK',
         JobsOK(runner', job'),
         AttemptsOK(job', attempt'),
         ResultsOK(job', attempt', result', replay')
  PROVE  IInv'
<1>1. TypeOK'
  BY DEF TypeOK, ControlOK, JobsOK, AttemptsOK, ResultsOK, JobRows,
         AttemptRows
<1>2. LeasedJobsHaveTheLastLease'
  BY DEF LeasedJobsHaveTheLastLease, HasActive, Active, AttemptsOK
<1>3. EpochsAreContiguous'
  BY DEF EpochsAreContiguous, AttemptsOK
<1>4. OneLeasePerRunner' /\ QueuedJobsHaveBudget' /\ EndedRunnersHoldNoWork'
  BY DEF OneLeasePerRunner, QueuedJobsHaveBudget, EndedRunnersHoldNoWork,
         JobsOK
<1>5. ResultsAgree'
  BY DEF ResultsAgree, ResultsOK
<1> QED
  BY <1>1, <1>2, <1>3, <1>4, <1>5 DEF IInv

\* The tables js2, as2 follow from js, as by granting the queued job j its next
\* epoch; its runner has no lease.
GrantedTo(js, as, js2, as2, j) ==
    /\ js[j].status = "queued"
    /\ \A k \in Jobs : js[k].runner = js[j].runner => js[k].status # "leased"
    /\ js[j].used \in Nat
    /\ js[j].used + 1 \in Epochs
    /\ js2 \in [Jobs -> JobRows]
    /\ as2 \in [Jobs -> [Epochs -> AttemptRows]]
    /\ js2[j].runner = js[j].runner
    /\ js2[j].used = js[j].used + 1
    /\ js2[j].status = "leased"
    /\ as2[j][js[j].used + 1].state = "active"
    /\ \A k \in Jobs \ {j} : js2[k] = js[k] /\ as2[k] = as[k]
    /\ \A e \in Epochs \ {js[j].used + 1} : as2[j][e] = as[j][e]

\* A grant keeps the tables consistent, in any state of the transaction.
LEMMA GrantKeeps ==
  ASSUME NEW js, NEW as, NEW js2, NEW as2, NEW j \in Jobs,
         JobsOK(runner, js), AttemptsOK(js, as),
         ResultsOK(js, as, result, replay),
         GrantedTo(js, as, js2, as2, j)
  PROVE  /\ JobsOK(runner, js2)
         /\ AttemptsOK(js2, as2)
         /\ ResultsOK(js2, as2, result, replay)
<1> DEFINE epoch == js[j].used + 1
<1>a. /\ js[j].status = "queued"
      /\ \A k \in Jobs : js[k].runner = js[j].runner => js[k].status # "leased"
      /\ js[j].used \in Nat
      /\ epoch \in Epochs
      /\ js2 \in [Jobs -> JobRows]
      /\ as2 \in [Jobs -> [Epochs -> AttemptRows]]
      /\ js2[j].runner = js[j].runner
      /\ js2[j].used = epoch
      /\ js2[j].status = "leased"
      /\ as2[j][epoch].state = "active"
      /\ \A k \in Jobs \ {j} : js2[k] = js[k] /\ as2[k] = as[k]
      /\ \A e \in Epochs \ {epoch} : as2[j][e] = as[j][e]
  BY DEF GrantedTo
<1> USE <1>a
<1>b. ASSUME NEW k \in Jobs, k # j
      PROVE  js2[k] = js[k] /\ as2[k] = as[k]
  BY <1>b
<1>1. JobsOK(runner, js2)
  <2>1. \A k \in Jobs : js2[k].runner = js[k].runner
    BY <1>b
  <2>2. \A k \in Jobs : js2[k].status = "leased" =>
                            k = j \/ js[k].status = "leased"
    BY <1>b
  <2>3. \A k, l \in Jobs :
            /\ js[k].status = "leased"
            /\ js[l].status = "leased"
            /\ js[k].runner = js[l].runner
            => k = l
    BY DEF JobsOK
  <2>4. \A k, l \in Jobs :
            /\ js2[k].status = "leased"
            /\ js2[l].status = "leased"
            /\ js2[k].runner = js2[l].runner
            => k = l
    BY <2>1, <2>2, <2>3
  <2>5. ASSUME NEW k \in Jobs
        PROVE  /\ js2[k].status \in Stored <=> js2[k].runner \in Runners
               /\ js2[k].status = "queued" => js2[k].used < MaxAttempts
               /\ js2[k].status \in {"queued", "leased"} =>
                      runner[js2[k].runner] = "active"
               /\ js2[k].status \in Stored => runner[js2[k].runner] # "deleted"
    <3>1. /\ js[k].status \in Stored <=> js[k].runner \in Runners
          /\ js[k].status = "queued" => js[k].used < MaxAttempts
          /\ js[k].status \in {"queued", "leased"} =>
                 runner[js[k].runner] = "active"
          /\ js[k].status \in Stored => runner[js[k].runner] # "deleted"
      BY DEF JobsOK
    <3> QED
      BY <1>b, <3>1 DEF Stored
  <2> QED
    BY <2>4, <2>5 DEF JobsOK
<1>2. AttemptsOK(js2, as2)
  <2>1. \A e \in Epochs : as[j][e].state # "active"
    BY DEF AttemptsOK
  <2>2. ASSUME NEW k \in Jobs, NEW e \in Epochs
        PROVE  /\ as2[k][e].state = "active" <=>
                      js2[k].status = "leased" /\ e = js2[k].used
               /\ as2[k][e].state # "none" <=> e <= js2[k].used
    <3>1. CASE k # j
      <4>1. js2[k] = js[k] /\ as2[k] = as[k]
        BY <3>1
      <4>2. /\ as[k][e].state = "active" <=>
                   js[k].status = "leased" /\ e = js[k].used
            /\ as[k][e].state # "none" <=> e <= js[k].used
        BY DEF AttemptsOK
      <4> QED
        BY <4>1, <4>2
    <3>2. CASE k = j /\ e = epoch
      BY <3>2 DEF Epochs
    <3>3. CASE k = j /\ e # epoch
      <4>1. as2[k][e] = as[j][e]
        BY <3>3
      <4>2. e <= epoch <=> e <= js[j].used
        BY <3>3 DEF Epochs
      <4>3. as[j][e].state # "none" <=> e <= js[j].used
        BY DEF AttemptsOK
      <4> QED
        BY <3>3, <2>1, <4>1, <4>2, <4>3
    <3> QED
      BY <3>1, <3>2, <3>3
  <2>3. ASSUME NEW k \in Jobs
        PROVE  /\ js2[k].status = "leased" => js2[k].used \in Epochs
               /\ js2[k].status \notin Stored => js2[k].used = 0
    <3>1. CASE k # j
      <4>1. js2[k] = js[k]
        BY <3>1
      <4>2. /\ js[k].status = "leased" => js[k].used \in Epochs
            /\ js[k].status \notin Stored => js[k].used = 0
        BY DEF AttemptsOK
      <4> QED
        BY <4>1, <4>2
    <3>2. CASE k = j
      BY <3>2 DEF Stored
    <3> QED
      BY <3>1, <3>2
  <2> QED
    BY <2>2, <2>3 DEF AttemptsOK
<1>3. ResultsOK(js2, as2, result, replay)
  <2>1. result[j] = NoResult /\ replay[j] = NoResult
    BY DEF ResultsOK
  <2>2. \A e \in Epochs : result[j].epoch # e
    BY <2>1 DEF NoResult, Epochs
  <2>3. ASSUME NEW k \in Jobs, NEW e \in Epochs
        PROVE  as2[k][e].state = "completed" <=> result[k].epoch = e
    <3>1. CASE k # j
      <4>1. js2[k] = js[k] /\ as2[k] = as[k]
        BY <3>1
      <4>2. as[k][e].state = "completed" <=> result[k].epoch = e
        BY DEF ResultsOK
      <4> QED
        BY <4>1, <4>2
    <3>2. CASE k = j
      <4>1. as[j][e].state # "completed"
        BY <2>2 DEF ResultsOK
      <4> QED
        BY <3>2, <4>1, <2>2
    <3> QED
      BY <3>1, <3>2
  <2>4. ASSUME NEW k \in Jobs
        PROVE  /\ result[k] # NoResult <=> js2[k].status = "completed"
               /\ replay[k] = result[k]
               /\ result[k] # NoResult => result[k].epoch = js2[k].used
    <3>1. CASE k # j
      <4>1. js2[k] = js[k] /\ as2[k] = as[k]
        BY <3>1
      <4>2. /\ result[k] # NoResult <=> js[k].status = "completed"
            /\ replay[k] = result[k]
            /\ result[k] # NoResult => result[k].epoch = js[k].used
        BY DEF ResultsOK
      <4> QED
        BY <4>1, <4>2
    <3>2. CASE k = j
      BY <3>2, <2>1
    <3> QED
      BY <3>1, <3>2
  <2> QED
    BY <2>3, <2>4 DEF ResultsOK
<1> QED
  BY <1>1, <1>2, <1>3

\* Ending the live lease of job j, its job going to a status other than leased
\* and a completed one to its result, keeps the tables consistent.
LEMMA CloseKeeps ==
  ASSUME IInv, NEW j \in Jobs, job[j].status = "leased",
         NEW js2 \in [Jobs -> JobRows],
         NEW as2 \in [Jobs -> [Epochs -> AttemptRows]],
         NEW res2 \in [Jobs -> ResultRows \cup {NoResult}],
         NEW rep2 \in [Jobs -> ResultRows \cup {NoResult}],
         js2[j].runner = job[j].runner,
         js2[j].used = job[j].used,
         js2[j].status \in {"queued", "exhausted", "completed"},
         js2[j].status = "queued" => job[j].used < MaxAttempts,
         as2[j][job[j].used].state \in {"abandoned", "completed"},
         js2[j].status = "completed" <=>
             as2[j][job[j].used].state = "completed",
         js2[j].status = "completed" <=> res2[j] # NoResult,
         res2[j] # NoResult => res2[j].epoch = job[j].used,
         rep2[j] = res2[j],
         \A k \in Jobs \ {j} : /\ js2[k] = job[k]
                               /\ as2[k] = attempt[k]
                               /\ res2[k] = result[k]
                               /\ rep2[k] = replay[k],
         \A e \in Epochs \ {job[j].used} : as2[j][e] = attempt[j][e]
  PROVE  /\ JobsOK(runner, js2)
         /\ AttemptsOK(js2, as2)
         /\ ResultsOK(js2, as2, res2, rep2)
<1>1. /\ job[j].used \in Epochs
      /\ attempt[j][job[j].used].state = "active"
      /\ \A e \in Epochs :
             /\ attempt[j][e].state = "active" <=> e = job[j].used
             /\ attempt[j][e].state # "none" <=> e <= job[j].used
  BY IInvParts DEF AttemptsOK
<1>2. /\ result[j] = NoResult
      /\ \A e \in Epochs : attempt[j][e].state # "completed"
  <2>1. result[j] = NoResult
    BY IInvParts DEF ResultsOK
  <2>2. \A e \in Epochs : result[j].epoch # e
    BY <2>1 DEF NoResult, Epochs
  <2> QED
    BY <2>1, <2>2, IInvParts DEF ResultsOK
<1>3. ASSUME NEW k \in Jobs, k # j
      PROVE  /\ js2[k] = job[k]
             /\ as2[k] = attempt[k]
             /\ res2[k] = result[k]
             /\ rep2[k] = replay[k]
  BY <1>3
<1>4. JobsOK(runner, js2)
  <2>1. \A k \in Jobs : js2[k].runner = job[k].runner
    BY <1>3
  <2>2. \A k \in Jobs : js2[k].status = "leased" => job[k].status = "leased"
    BY <1>3
  <2>3. \A k \in Jobs : js2[k].status \in Stored <=> job[k].status \in Stored
    BY <1>3 DEF Stored
  <2>4. \A k \in Jobs : js2[k].status = "queued" => js2[k].used < MaxAttempts
    BY <1>3, IInvParts DEF JobsOK
  <2>5. \A k \in Jobs : js2[k].status \in {"queued", "leased"} =>
                            job[k].status \in {"queued", "leased"}
    BY <1>3
  <2>6. \A k, l \in Jobs :
            /\ js2[k].status = "leased"
            /\ js2[l].status = "leased"
            /\ js2[k].runner = js2[l].runner
            => k = l
    BY <2>1, <2>2, IInvParts DEF JobsOK
  <2>7. \A k \in Jobs : js2[k].status \in Stored <=> js2[k].runner \in Runners
    BY <2>1, <2>3, IInvParts DEF JobsOK
  <2>8. ASSUME NEW k \in Jobs
        PROVE  /\ js2[k].status \in {"queued", "leased"} =>
                      runner[js2[k].runner] = "active"
               /\ js2[k].status \in Stored => runner[js2[k].runner] # "deleted"
    <3>1. /\ job[k].status \in {"queued", "leased"} =>
                 runner[job[k].runner] = "active"
          /\ job[k].status \in Stored => runner[job[k].runner] # "deleted"
      BY IInvParts DEF JobsOK
    <3> QED
      BY <2>1, <2>3, <2>5, <3>1
  <2> QED
    BY <2>4, <2>6, <2>7, <2>8 DEF JobsOK
<1>5. AttemptsOK(js2, as2)
  <2>1. ASSUME NEW k \in Jobs, NEW e \in Epochs
        PROVE  /\ as2[k][e].state = "active" <=>
                      js2[k].status = "leased" /\ e = js2[k].used
               /\ as2[k][e].state # "none" <=> e <= js2[k].used
    <3>1. CASE k # j
      <4>1. /\ attempt[k][e].state = "active" <=>
                   job[k].status = "leased" /\ e = job[k].used
            /\ attempt[k][e].state # "none" <=> e <= job[k].used
        BY IInvParts DEF AttemptsOK
      <4> QED
        BY <1>3, <3>1, <4>1
    <3>2. CASE k = j /\ e = job[j].used
      BY <3>2, <1>1
    <3>3. CASE k = j /\ e # job[j].used
      <4>1. as2[j][e] = attempt[j][e]
        BY <3>3
      <4> QED
        BY <3>3, <4>1, <1>1
    <3> QED
      BY <3>1, <3>2, <3>3
  <2>2. ASSUME NEW k \in Jobs
        PROVE  /\ js2[k].status = "leased" => js2[k].used \in Epochs
               /\ js2[k].status \notin Stored => js2[k].used = 0
    <3>1. /\ job[k].status = "leased" => job[k].used \in Epochs
          /\ job[k].status \notin Stored => job[k].used = 0
      BY IInvParts DEF AttemptsOK
    <3> QED
      BY <1>3, <3>1 DEF Stored
  <2> QED
    BY <2>1, <2>2 DEF AttemptsOK
<1>6. ResultsOK(js2, as2, res2, rep2)
  <2>1. ASSUME NEW k \in Jobs, NEW e \in Epochs
        PROVE  as2[k][e].state = "completed" <=> res2[k].epoch = e
    <3>1. CASE k # j
      <4>1. attempt[k][e].state = "completed" <=> result[k].epoch = e
        BY IInvParts DEF ResultsOK
      <4> QED
        BY <1>3, <3>1, <4>1
    <3>2. NoResult.epoch # e
      BY DEF NoResult, Epochs
    <3>3. CASE k = j /\ e = job[j].used
      BY <3>2, <3>3
    <3>4. CASE k = j /\ e # job[j].used
      <4>1. as2[j][e] = attempt[j][e]
        BY <3>4
      <4> QED
        BY <3>2, <3>4, <4>1, <1>2
    <3> QED
      BY <3>1, <3>3, <3>4
  <2>2. ASSUME NEW k \in Jobs
        PROVE  /\ res2[k] # NoResult <=> js2[k].status = "completed"
               /\ rep2[k] = res2[k]
               /\ res2[k] # NoResult => res2[k].epoch = js2[k].used
    <3>1. CASE k # j
      <4>1. /\ result[k] # NoResult <=> job[k].status = "completed"
            /\ replay[k] = result[k]
            /\ result[k] # NoResult => result[k].epoch = job[k].used
        BY IInvParts DEF ResultsOK
      <4> QED
        BY <1>3, <3>1, <4>1
    <3>2. CASE k = j
      BY <3>2
    <3> QED
      BY <3>1, <3>2
  <2> QED
    BY <2>1, <2>2 DEF ResultsOK
<1> QED
  BY <1>4, <1>5, <1>6

\* The tables are consistent after each step, whatever it leaves alone.
LEMMA RevokeKeeps ==
  ASSUME IInv, NEW r \in Runners, Revoke(r)
  PROVE  IInv'
<1> DEFINE hit(j) == job[j].runner = r /\ job[j].status \in {"queued", "leased"}
<1>1. runner' \in [Runners -> {"active", "revoked", "deleted"}]
  BY IInvParts DEF Revoke, ControlOK
<1>2. ControlOK'
  BY <1>1, IInvParts DEF Revoke, ControlOK
<1>3. ASSUME NEW j \in Jobs
      PROVE  /\ job'[j] \in JobRows
             /\ job'[j].runner = job[j].runner
             /\ job'[j].used = job[j].used
             /\ job'[j].status = IF hit(j) THEN "exhausted" ELSE job[j].status
  <2>1. job[j] \in JobRows
    BY IInvParts DEF JobsOK
  <2>2. job'[j] = IF hit(j) THEN [job[j] EXCEPT !.status = "exhausted"]
                            ELSE job[j]
    BY DEF Revoke, JobsOf, Stored
  <2> QED
    BY <2>1, <2>2 DEF JobRows, JobStatus
<1>4. ASSUME NEW j \in Jobs, NEW e \in Epochs
      PROVE  /\ attempt'[j][e] \in AttemptRows
             /\ attempt'[j][e].state =
                    IF job[j].runner = r /\ attempt[j][e].state = "active"
                    THEN "abandoned" ELSE attempt[j][e].state
  <2>1. attempt[j][e] \in AttemptRows
    BY IInvParts DEF AttemptsOK
  <2>2. /\ Ended("abandoned") \in AttemptRows
        /\ Ended("abandoned").state = "abandoned"
    BY DEF Ended, AttemptRows, AttemptState
  <2>3. attempt[j][e].state = "active" => job[j].status = "leased"
    BY IInvParts DEF AttemptsOK
  <2>4. attempt'[j][e] =
            IF job[j].runner = r /\ attempt[j][e].state = "active"
            THEN Ended("abandoned") ELSE attempt[j][e]
    BY <2>3 DEF Revoke, JobsOf, Stored, Active
  <2> QED
    BY <2>1, <2>2, <2>4
<1>5. /\ job' \in [Jobs -> JobRows]
      /\ attempt' \in [Jobs -> [Epochs -> AttemptRows]]
  <2>1. /\ job' = [j \in Jobs |-> job'[j]]
        /\ attempt' = [j \in Jobs |-> [e \in Epochs |-> attempt'[j][e]]]
    BY DEF Revoke
  <2> QED
    BY <1>3, <1>4, <2>1
<1>6. JobsOK(runner', job')
  <2>1. \A j \in Jobs : job'[j].status = "leased" => job[j].status = "leased"
    BY <1>3
  <2>2. \A j, k \in Jobs :
            /\ job'[j].status = "leased"
            /\ job'[k].status = "leased"
            /\ job'[j].runner = job'[k].runner
            => j = k
    BY <1>3, <2>1, IInvParts DEF JobsOK
  <2>3. ASSUME NEW j \in Jobs
        PROVE  /\ job'[j].status \in Stored <=> job'[j].runner \in Runners
               /\ job'[j].status = "queued" => job'[j].used < MaxAttempts
    <3>1. /\ job[j].status \in Stored <=> job[j].runner \in Runners
          /\ job[j].status = "queued" => job[j].used < MaxAttempts
      BY IInvParts DEF JobsOK
    <3> QED
      BY <1>3, <3>1 DEF Stored
  <2>4. ASSUME NEW j \in Jobs
        PROVE  /\ job'[j].status \in {"queued", "leased"} =>
                      runner'[job'[j].runner] = "active"
               /\ job'[j].status \in Stored => runner'[job'[j].runner] # "deleted"
    <3>1. /\ job[j].status \in {"queued", "leased"} =>
                 runner[job[j].runner] = "active"
          /\ job[j].status \in Stored => runner[job[j].runner] # "deleted"
          /\ job[j].status \in Stored => job[j].runner \in Runners
      BY IInvParts DEF JobsOK
    <3>2. \A s \in Runners : runner'[s] = IF s = r THEN "revoked" ELSE runner[s]
      BY IInvParts DEF Revoke, ControlOK
    <3>3. job'[j].status \in {"queued", "leased"} =>
              job[j].status \in {"queued", "leased"} /\ job[j].runner # r
      BY <1>3
    <3>4. job'[j].status \in Stored <=> job[j].status \in Stored
      BY <1>3 DEF Stored
    <3>5. job[j].status \in {"queued", "leased"} => job[j].status \in Stored
      BY DEF Stored
    <3> QED
      BY <1>3, <3>1, <3>2, <3>3, <3>4, <3>5
  <2> QED
    BY <1>5, <2>2, <2>3, <2>4 DEF JobsOK
<1>7. AttemptsOK(job', attempt')
  <2>1. ASSUME NEW j \in Jobs, NEW e \in Epochs
        PROVE  /\ attempt'[j][e].state = "active" <=>
                      job'[j].status = "leased" /\ e = job'[j].used
               /\ attempt'[j][e].state # "none" <=> e <= job'[j].used
    <3>1. /\ attempt[j][e].state = "active" <=>
                 job[j].status = "leased" /\ e = job[j].used
          /\ attempt[j][e].state # "none" <=> e <= job[j].used
      BY IInvParts DEF AttemptsOK
    <3> QED
      BY <1>3, <1>4, <3>1
  <2>2. ASSUME NEW j \in Jobs
        PROVE  /\ job'[j].status = "leased" => job'[j].used \in Epochs
               /\ job'[j].status \notin Stored => job'[j].used = 0
    <3>1. /\ job[j].status = "leased" => job[j].used \in Epochs
          /\ job[j].status \notin Stored => job[j].used = 0
      BY IInvParts DEF AttemptsOK
    <3> QED
      BY <1>3, <3>1 DEF Stored
  <2> QED
    BY <1>5, <2>1, <2>2 DEF AttemptsOK
<1>8. ResultsOK(job', attempt', result', replay')
  <2>1. result' = result /\ replay' = replay
    BY DEF Revoke
  <2>2. ASSUME NEW j \in Jobs
        PROVE  job'[j].status = "completed" <=> job[j].status = "completed"
    BY <1>3
  <2>3. ASSUME NEW j \in Jobs, NEW e \in Epochs
        PROVE  attempt'[j][e].state = "completed" <=>
                   attempt[j][e].state = "completed"
    BY <1>4
  <2> QED
    BY <1>3, <2>1, <2>2, <2>3, IInvParts DEF ResultsOK
<1> QED
  BY <1>2, <1>6, <1>7, <1>8, IInvNext

LEMMA CascadeKeeps ==
  ASSUME IInv, NEW rs \in SUBSET Runners, Cascade(rs)
  PROVE  IInv'
<1> DEFINE gone(j) == job[j].runner \in rs
<1>1. ControlOK'
  BY IInvParts DEF Cascade, ControlOK
<1>2. \A s \in Runners : runner'[s] = IF s \in rs THEN "deleted" ELSE runner[s]
  BY DEF Cascade
<1>3. \A j \in Jobs : j \in UNION {JobsOf(r) : r \in rs} <=> gone(j)
  BY IInvParts DEF JobsOf, JobsOK
<1>4. /\ NoJob("deleted") \in JobRows
      /\ NoJob("deleted").runner = NoRunner
      /\ NoJob("deleted").status = "deleted"
      /\ NoJob("deleted").used = 0
  BY CountsAssumption DEF NoJob, JobRow, JobRows, JobStatus
<1>5. NoAttempt \in AttemptRows /\ NoAttempt.state = "none"
  BY DEF NoAttempt, Ended, AttemptRows, AttemptState
<1>6. \A e \in Epochs : NoResult.epoch # e /\ ~(e <= 0)
  BY DEF NoResult, Epochs
<1>7. ASSUME NEW j \in Jobs
      PROVE  /\ job'[j] = IF gone(j) THEN NoJob("deleted") ELSE job[j]
             /\ result'[j] = IF gone(j) THEN NoResult ELSE result[j]
             /\ replay'[j] = IF gone(j) THEN NoResult ELSE replay[j]
             /\ \A e \in Epochs :
                    attempt'[j][e] = IF gone(j) THEN NoAttempt ELSE attempt[j][e]
  BY <1>3 DEF Cascade
<1>8. /\ job' \in [Jobs -> JobRows]
      /\ attempt' \in [Jobs -> [Epochs -> AttemptRows]]
      /\ result' \in [Jobs -> ResultRows \cup {NoResult}]
      /\ replay' \in [Jobs -> ResultRows \cup {NoResult}]
  <2>1. /\ job' = [j \in Jobs |-> job'[j]]
        /\ result' = [j \in Jobs |-> result'[j]]
        /\ replay' = [j \in Jobs |-> replay'[j]]
    BY DEF Cascade
  <2>2. ASSUME NEW j \in Jobs
        PROVE  /\ job'[j] \in JobRows
               /\ result'[j] \in ResultRows \cup {NoResult}
               /\ replay'[j] \in ResultRows \cup {NoResult}
    <3>1. /\ job[j] \in JobRows
          /\ result[j] \in ResultRows \cup {NoResult}
          /\ replay[j] \in ResultRows \cup {NoResult}
      BY IInvParts DEF JobsOK, ResultsOK
    <3> QED
      BY <1>4, <1>7, <3>1
  <2>3. attempt' \in [Jobs -> [Epochs -> AttemptRows]]
    <3>1. attempt \in [Jobs -> [Epochs -> AttemptRows]]
      BY IInvParts DEF AttemptsOK
    <3> QED
      BY <1>5, <3>1 DEF Cascade
  <2> QED
    BY <2>1, <2>2, <2>3
<1>9. JobsOK(runner', job')
  <2>1. \A j \in Jobs : job'[j].status \in Stored => ~gone(j)
    BY <1>4, <1>7 DEF Stored
  <2>2. \A j \in Jobs : job'[j].status \in {"queued", "leased"} => ~gone(j)
    BY <2>1 DEF Stored
  <2>3. \A j, k \in Jobs :
            /\ job'[j].status = "leased"
            /\ job'[k].status = "leased"
            /\ job'[j].runner = job'[k].runner
            => j = k
    BY <1>7, <2>2, IInvParts DEF JobsOK
  <2>4. ASSUME NEW j \in Jobs
        PROVE  /\ job'[j].status \in Stored <=> job'[j].runner \in Runners
               /\ job'[j].status = "queued" => job'[j].used < MaxAttempts
               /\ job'[j].status \in {"queued", "leased"} =>
                      runner'[job'[j].runner] = "active"
               /\ job'[j].status \in Stored =>
                      runner'[job'[j].runner] # "deleted"
    <3>1. CASE gone(j)
      BY <3>1, <1>4, <1>7, OwnersAssumption DEF Stored
    <3>2. CASE ~gone(j)
      <4>1. job'[j] = job[j]
        BY <3>2, <1>7
      <4>2. /\ job[j].status \in Stored <=> job[j].runner \in Runners
            /\ job[j].status = "queued" => job[j].used < MaxAttempts
            /\ job[j].status \in {"queued", "leased"} =>
                   runner[job[j].runner] = "active"
            /\ job[j].status \in Stored => runner[job[j].runner] # "deleted"
        BY IInvParts DEF JobsOK
      <4>3. job[j].status \in Stored =>
                runner'[job[j].runner] = runner[job[j].runner]
        BY <1>2, <3>2, <4>2
      <4>4. job[j].status \in {"queued", "leased"} => job[j].status \in Stored
        BY DEF Stored
      <4> QED
        BY <4>1, <4>2, <4>3, <4>4
    <3> QED
      BY <3>1, <3>2
  <2> QED
    BY <1>8, <2>3, <2>4 DEF JobsOK
<1>10. AttemptsOK(job', attempt')
  <2>1. ASSUME NEW j \in Jobs, NEW e \in Epochs
        PROVE  /\ attempt'[j][e].state = "active" <=>
                      job'[j].status = "leased" /\ e = job'[j].used
               /\ attempt'[j][e].state # "none" <=> e <= job'[j].used
    <3>1. /\ attempt[j][e].state = "active" <=>
                 job[j].status = "leased" /\ e = job[j].used
          /\ attempt[j][e].state # "none" <=> e <= job[j].used
      BY IInvParts DEF AttemptsOK
    <3> QED
      BY <1>4, <1>5, <1>6, <1>7, <3>1
  <2>2. ASSUME NEW j \in Jobs
        PROVE  /\ job'[j].status = "leased" => job'[j].used \in Epochs
               /\ job'[j].status \notin Stored => job'[j].used = 0
    <3>1. /\ job[j].status = "leased" => job[j].used \in Epochs
          /\ job[j].status \notin Stored => job[j].used = 0
      BY IInvParts DEF AttemptsOK
    <3> QED
      BY <1>4, <1>7, <3>1 DEF Stored
  <2> QED
    BY <1>8, <2>1, <2>2 DEF AttemptsOK
<1>11. ResultsOK(job', attempt', result', replay')
  <2>1. ASSUME NEW j \in Jobs, NEW e \in Epochs
        PROVE  attempt'[j][e].state = "completed" <=> result'[j].epoch = e
    <3>1. attempt[j][e].state = "completed" <=> result[j].epoch = e
      BY IInvParts DEF ResultsOK
    <3> QED
      BY <1>5, <1>6, <1>7, <3>1
  <2>2. ASSUME NEW j \in Jobs
        PROVE  /\ result'[j] # NoResult <=> job'[j].status = "completed"
               /\ replay'[j] = result'[j]
               /\ result'[j] # NoResult => result'[j].epoch = job'[j].used
    <3>1. /\ result[j] # NoResult <=> job[j].status = "completed"
          /\ replay[j] = result[j]
          /\ result[j] # NoResult => result[j].epoch = job[j].used
      BY IInvParts DEF ResultsOK
    <3> QED
      BY <1>4, <1>7, <3>1
  <2> QED
    BY <1>8, <2>1, <2>2 DEF ResultsOK
<1> QED
  BY <1>1, <1>9, <1>10, <1>11, IInvNext

LEMMA CreateKeeps ==
  ASSUME IInv, NEW r \in Runners, NEW j \in Jobs, NEW t \in 0..now,
         CreateJob(r, j, t)
  PROVE  IInv'
<1>1. ControlOK'
  BY IInvParts DEF CreateJob, ControlOK
<1>2. CASE UNCHANGED job
  BY <1>1, <1>2, IInvParts, IInvNext DEF CreateJob
<1>3. CASE /\ runner[r] = "active"
           /\ job[j].status = "absent"
           /\ job' = [job EXCEPT ![j] = JobRow(r, "queued", 0, t)]
  <2>1. /\ JobRow(r, "queued", 0, t) \in JobRows
        /\ JobRow(r, "queued", 0, t).runner = r
        /\ JobRow(r, "queued", 0, t).status = "queued"
        /\ JobRow(r, "queued", 0, t).used = 0
    BY CountsAssumption, IInvParts
    DEF JobRow, JobRows, JobStatus, ControlOK
  <2>2. \A k \in Jobs : job'[k] = IF k = j THEN JobRow(r, "queued", 0, t)
                                           ELSE job[k]
    BY <1>3, IInvParts DEF JobsOK
  <2>3. job' \in [Jobs -> JobRows]
    BY <1>3, <2>1, IInvParts DEF JobsOK
  <2>4. runner' = runner /\ attempt' = attempt
        /\ result' = result /\ replay' = replay
    BY DEF CreateJob
  <2>5. job[j].runner \notin Runners /\ ~(job[j].status \in Stored)
    BY <1>3, IInvParts DEF JobsOK, Stored
  <2>6. \A e \in Epochs : ~(e <= 0)
    BY DEF Epochs
  <2>7. JobsOK(runner', job')
    <3>1. \A k, l \in Jobs :
              /\ job'[k].status = "leased"
              /\ job'[l].status = "leased"
              /\ job'[k].runner = job'[l].runner
              => k = l
      BY <2>1, <2>2, IInvParts DEF JobsOK
    <3>2. ASSUME NEW k \in Jobs
          PROVE  /\ job'[k].status \in Stored <=> job'[k].runner \in Runners
                 /\ job'[k].status = "queued" => job'[k].used < MaxAttempts
                 /\ job'[k].status \in {"queued", "leased"} =>
                        runner[job'[k].runner] = "active"
                 /\ job'[k].status \in Stored =>
                        runner[job'[k].runner] # "deleted"
      <4>1. CASE k = j
        BY <1>3, <2>1, <2>2, <4>1, CountsAssumption DEF Stored
      <4>2. CASE k # j
        <5>1. /\ job[k].status \in Stored <=> job[k].runner \in Runners
              /\ job[k].status = "queued" => job[k].used < MaxAttempts
              /\ job[k].status \in {"queued", "leased"} =>
                     runner[job[k].runner] = "active"
              /\ job[k].status \in Stored => runner[job[k].runner] # "deleted"
          BY IInvParts DEF JobsOK
        <5> QED
          BY <2>2, <4>2, <5>1
      <4> QED
        BY <4>1, <4>2
    <3> QED
      BY <2>3, <2>4, <3>1, <3>2 DEF JobsOK
  <2>8. AttemptsOK(job', attempt)
    <3>1. job[j].used = 0
      BY <2>5, IInvParts DEF AttemptsOK
    <3>2. ASSUME NEW k \in Jobs
          PROVE  /\ job'[k].used = job[k].used
                 /\ job'[k].status = "leased" <=> job[k].status = "leased"
                 /\ job'[k].status \notin Stored => job[k].status \notin Stored
      BY <1>3, <2>1, <2>2, <3>1 DEF Stored
    <3>3. ASSUME NEW k \in Jobs, NEW e \in Epochs
          PROVE  /\ attempt[k][e].state = "active" <=>
                        job'[k].status = "leased" /\ e = job'[k].used
                 /\ attempt[k][e].state # "none" <=> e <= job'[k].used
      <4>1. /\ attempt[k][e].state = "active" <=>
                   job[k].status = "leased" /\ e = job[k].used
            /\ attempt[k][e].state # "none" <=> e <= job[k].used
        BY IInvParts DEF AttemptsOK
      <4> QED
        BY <3>2, <4>1
    <3>4. ASSUME NEW k \in Jobs
          PROVE  /\ job'[k].status = "leased" => job'[k].used \in Epochs
                 /\ job'[k].status \notin Stored => job'[k].used = 0
      <4>1. /\ job[k].status = "leased" => job[k].used \in Epochs
            /\ job[k].status \notin Stored => job[k].used = 0
        BY IInvParts DEF AttemptsOK
      <4> QED
        BY <3>2, <4>1
    <3>5. attempt \in [Jobs -> [Epochs -> AttemptRows]]
      BY IInvParts DEF AttemptsOK
    <3> QED
      BY <3>3, <3>4, <3>5 DEF AttemptsOK
  <2>9. ResultsOK(job', attempt, result, replay)
    BY <1>3, <2>1, <2>2, IInvParts DEF ResultsOK
  <2> QED
    BY <1>1, <2>4, <2>7, <2>8, <2>9, IInvNext
<1> QED
  BY <1>2, <1>3 DEF CreateJob

LEMMA RenewKeeps ==
  ASSUME IInv, NEW r \in Runners, NEW j \in Jobs, NEW e \in Epochs,
         NEW t \in 0..now, Renew(r, j, e, t)
  PROVE  IInv'
<1>1. ControlOK'
  BY IInvParts DEF Renew, ControlOK
<1>2. PICK x, c, n : attempt' = [attempt EXCEPT ![j][e] = Lease(n, c, x)]
                     /\ x \in Nat /\ c \in Nat /\ n \in Nat
  <2>1. attempt[j][e] \in AttemptRows /\ t \in Nat
    BY IInvParts DEF AttemptsOK, ControlOK
  <2>2. /\ attempt[j][e].renews + 1 \in Nat
        /\ attempt[j][e].created \in Nat
        /\ attempt[j][e].expires + LeaseLength \in Nat
        /\ t + LeaseLength \in Nat
    BY <2>1, CountsAssumption DEF AttemptRows
  <2> QED
    BY <2>2 DEF Renew
<1>3. /\ Lease(n, c, x) \in AttemptRows
      /\ Lease(n, c, x).state = "active"
  BY <1>2 DEF Lease, AttemptRows, AttemptState
<1>4. attempt[j][e].state = "active"
  BY DEF Renew, HoldsLease, Active
<1>5. attempt \in [Jobs -> [Epochs -> AttemptRows]]
  BY IInvParts DEF AttemptsOK
<1>6. attempt' \in [Jobs -> [Epochs -> AttemptRows]]
  BY <1>2, <1>3, <1>5
<1>7. \A k \in Jobs, f \in Epochs : attempt'[k][f].state = attempt[k][f].state
  BY <1>2, <1>3, <1>4, <1>5
<1>8. /\ job' = job /\ runner' = runner
      /\ result' = result /\ replay' = replay
  BY DEF Renew
<1>9. AttemptsOK(job, attempt')
  <2>1. ASSUME NEW k \in Jobs, NEW f \in Epochs
        PROVE  /\ attempt'[k][f].state = "active" <=>
                      job[k].status = "leased" /\ f = job[k].used
               /\ attempt'[k][f].state # "none" <=> f <= job[k].used
    <3>1. /\ attempt[k][f].state = "active" <=>
                 job[k].status = "leased" /\ f = job[k].used
          /\ attempt[k][f].state # "none" <=> f <= job[k].used
      BY IInvParts DEF AttemptsOK
    <3> QED
      BY <1>7, <3>1
  <2> QED
    BY <1>6, <2>1, IInvParts DEF AttemptsOK
<1>10. ResultsOK(job, attempt', result, replay)
  BY <1>7, IInvParts DEF ResultsOK
<1> QED
  BY <1>1, <1>8, <1>9, <1>10, IInvParts, IInvNext

LEMMA AbandonKeeps ==
  ASSUME IInv, NEW r \in Runners, NEW j \in Jobs, NEW e \in Epochs,
         NEW t \in 0..now, Abandon(r, j, e, t)
  PROVE  IInv'
<1>1. ControlOK'
  BY IInvParts DEF Abandon, ControlOK
<1>2. job[j].status = "leased" /\ e = job[j].used
  BY IInvParts DEF Abandon, HoldsLease, Active, AttemptsOK
<1>3. /\ AfterLease(j) \in {"queued", "exhausted"}
      /\ AfterLease(j) = "queued" => job[j].used < MaxAttempts
  BY CountsAssumption, IInvParts DEF AfterLease, JobsOK, JobRows
<1>4. /\ job' \in [Jobs -> JobRows]
      /\ job'[j].runner = job[j].runner
      /\ job'[j].used = job[j].used
      /\ job'[j].status = AfterLease(j)
      /\ \A k \in Jobs \ {j} : job'[k] = job[k]
  BY <1>3, IInvParts DEF Abandon, JobsOK, JobRows, JobStatus
<1>5. /\ attempt' \in [Jobs -> [Epochs -> AttemptRows]]
      /\ attempt'[j][e].state = "abandoned"
      /\ \A k \in Jobs \ {j} : attempt'[k] = attempt[k]
      /\ \A f \in Epochs \ {e} : attempt'[j][f] = attempt[j][f]
  <2>1. attempt \in [Jobs -> [Epochs -> AttemptRows]]
    BY IInvParts DEF AttemptsOK
  <2>2. /\ Ended("abandoned") \in AttemptRows
        /\ Ended("abandoned").state = "abandoned"
    BY DEF Ended, AttemptRows, AttemptState
  <2> QED
    BY <2>1, <2>2 DEF Abandon
<1>6. /\ runner' = runner /\ result' = result /\ replay' = replay
      /\ result \in [Jobs -> ResultRows \cup {NoResult}]
      /\ replay \in [Jobs -> ResultRows \cup {NoResult}]
      /\ result[j] = NoResult /\ replay[j] = NoResult
  BY <1>2, IInvParts DEF Abandon, ResultsOK
<1>7. /\ JobsOK(runner, job')
      /\ AttemptsOK(job', attempt')
      /\ ResultsOK(job', attempt', result, replay)
  BY <1>2, <1>3, <1>4, <1>5, <1>6, CloseKeeps
<1> QED
  BY <1>1, <1>6, <1>7, IInvNext

LEMMA RecordKeeps ==
  ASSUME IInv, NEW r \in Runners, NEW j \in Jobs, NEW e \in Epochs,
         NEW out \in Outputs, NEW t \in 0..now, RecordResult(r, j, e, out, t)
  PROVE  IInv'
<1> DEFINE row == [epoch |-> e, output |-> out,
                   conformance |-> IF out = "expected" THEN "match"
                                                       ELSE "mismatch"]
<1>1. ControlOK'
  BY IInvParts DEF RecordResult, ControlOK
<1>2. job[j].status = "leased" /\ e = job[j].used
  BY IInvParts DEF RecordResult, HoldsLease, Active, AttemptsOK
<1>3. row \in ResultRows /\ row # NoResult /\ row.epoch = e
  BY DEF ResultRows, NoResult, Epochs
<1>4. /\ job' \in [Jobs -> JobRows]
      /\ job'[j].runner = job[j].runner
      /\ job'[j].used = job[j].used
      /\ job'[j].status = "completed"
      /\ \A k \in Jobs \ {j} : job'[k] = job[k]
  BY IInvParts DEF RecordResult, JobsOK, JobRows, JobStatus
<1>5. /\ attempt' \in [Jobs -> [Epochs -> AttemptRows]]
      /\ attempt'[j][e].state = "completed"
      /\ \A k \in Jobs \ {j} : attempt'[k] = attempt[k]
      /\ \A f \in Epochs \ {e} : attempt'[j][f] = attempt[j][f]
  <2>1. attempt \in [Jobs -> [Epochs -> AttemptRows]]
    BY IInvParts DEF AttemptsOK
  <2>2. /\ Ended("completed") \in AttemptRows
        /\ Ended("completed").state = "completed"
    BY DEF Ended, AttemptRows, AttemptState
  <2> QED
    BY <2>1, <2>2 DEF RecordResult
<1>6. /\ result' = [result EXCEPT ![j] = row]
      /\ replay' = [replay EXCEPT ![j] = row]
      /\ runner' = runner
  BY DEF RecordResult
<1> HIDE DEF row
<1>7. /\ result' \in [Jobs -> ResultRows \cup {NoResult}]
      /\ replay' \in [Jobs -> ResultRows \cup {NoResult}]
      /\ result'[j] = row /\ replay'[j] = row
      /\ \A k \in Jobs \ {j} : result'[k] = result[k] /\ replay'[k] = replay[k]
  BY <1>3, <1>6, IInvParts DEF ResultsOK
<1>8. /\ JobsOK(runner, job')
      /\ AttemptsOK(job', attempt')
      /\ ResultsOK(job', attempt', result', replay')
  BY <1>2, <1>3, <1>4, <1>5, <1>7, CloseKeeps
<1> QED
  BY <1>1, <1>6, <1>8, IInvNext

\* A call that commits nothing but the sweep.
LEMMA SweepOnlyKeeps ==
  ASSUME IInv, NEW r \in Runners, NEW t \in 0..now,
         job' = SweptJobs(r, t), attempt' = SweptAttempts(r, t),
         UNCHANGED <<now, runner, creating, result, replay>>
  PROVE  IInv'
<1>1. ControlOK' /\ t \in Nat
  BY IInvParts DEF ControlOK
<1>2. /\ JobsOK(runner, job')
      /\ AttemptsOK(job', attempt')
      /\ ResultsOK(job', attempt', result, replay)
  BY <1>1, SweepKeeps
<1> QED
  BY <1>1, <1>2, IInvNext

LEMMA PollGrantKeeps ==
  ASSUME IInv, NEW r \in Runners, NEW j \in Jobs, NEW t \in 0..now,
         PollGrant(r, j, t)
  PROVE  IInv'
<1> DEFINE js == SweptJobs(r, t)
           as == SweptAttempts(r, t)
           epoch == js[j].used + 1
<1>1. /\ ControlOK'
      /\ t \in Nat
      /\ t + LeaseLength \in Nat
  BY CountsAssumption, IInvParts DEF PollGrant, ControlOK
<1>2. /\ JobsOK(runner, js)
      /\ AttemptsOK(js, as)
      /\ ResultsOK(js, as, result, replay)
  BY <1>1, SweepKeeps
<1>3. js[j].status = "queued" /\ js[j].runner = r
  BY DEF PollGrant, OldestQueued
<1>4. ASSUME NEW k \in Jobs, js[k].runner = js[j].runner
      PROVE  js[k].status # "leased"
  <2>1. SUFFICES ASSUME js[k].status = "leased" PROVE FALSE
    OBVIOUS
  <2>2. js[k].used \in Epochs /\ as[k][js[k].used].state = "active"
    BY <1>2, <2>1 DEF AttemptsOK
  <2>3. job[k].runner = r /\ job[k].status \in Stored
    <3>1. js[k].runner = job[k].runner
      BY <1>1, SweepRows DEF SweptJobs
    <3>2. job[k].status \in Stored <=> job[k].runner \in Runners
      BY IInvParts DEF JobsOK
    <3> QED
      BY <1>3, <1>4, <3>1, <3>2
  <2>4. k \in JobsOf(r)
    BY <2>3 DEF JobsOf
  <2> QED
    BY <2>2, <2>4 DEF PollGrant
<1>5. js[j].used < MaxAttempts /\ js[j].used \in Nat
  BY <1>2, <1>3, CountsAssumption DEF JobsOK, JobRows
<1>6. ~(epoch > MaxAttempts)
  BY <1>5, CountsAssumption
<1>7. /\ job' = [js EXCEPT ![j].status = "leased",
                           ![j].used = js[j].used + 1]
      /\ attempt' = [as EXCEPT ![j][js[j].used + 1] = Lease(0, t, t + LeaseLength)]
  BY <1>6 DEF PollGrant
<1>8. runner' = runner /\ result' = result /\ replay' = replay
  BY DEF PollGrant
<1> HIDE DEF js, as
<1>9. /\ epoch \in Epochs
      /\ job' \in [Jobs -> JobRows]
      /\ \A k \in Jobs :
             /\ job'[k].runner = js[k].runner
             /\ job'[k].used = IF k = j THEN epoch ELSE js[k].used
             /\ job'[k].status = IF k = j THEN "leased" ELSE js[k].status
      /\ attempt' \in [Jobs -> [Epochs -> AttemptRows]]
      /\ \A k \in Jobs, e \in Epochs :
             attempt'[k][e].state = IF k = j /\ e = epoch
                                    THEN "active" ELSE as[k][e].state
  <2>1. epoch \in Epochs /\ js[j] \in JobRows
    BY <1>2, <1>5, CountsAssumption DEF JobsOK, JobRows, Epochs
  <2>2. \A k \in Jobs :
            /\ job'[k] \in JobRows
            /\ job'[k].runner = js[k].runner
            /\ job'[k].used = IF k = j THEN epoch ELSE js[k].used
            /\ job'[k].status = IF k = j THEN "leased" ELSE js[k].status
    BY <1>2, <1>7, <2>1 DEF JobsOK, JobRows, JobStatus, Epochs
  <2>3. /\ Lease(0, t, t + LeaseLength) \in AttemptRows
        /\ Lease(0, t, t + LeaseLength).state = "active"
    BY <1>1 DEF Lease, AttemptRows, AttemptState
  <2>4. \A k \in Jobs, e \in Epochs :
            /\ attempt'[k][e] \in AttemptRows
            /\ attempt'[k][e].state = IF k = j /\ e = epoch
                                      THEN "active" ELSE as[k][e].state
    BY <1>2, <1>7, <2>1, <2>3 DEF AttemptsOK
  <2>5. /\ job' = [k \in Jobs |-> job'[k]]
        /\ attempt' = [k \in Jobs |-> [e \in Epochs |-> attempt'[k][e]]]
    BY <1>2, <1>7, <2>1 DEF JobsOK, AttemptsOK
  <2> QED
    BY <2>1, <2>2, <2>4, <2>5
<1>10. /\ \A k \in Jobs \ {j} : job'[k] = js[k] /\ attempt'[k] = as[k]
       /\ \A e \in Epochs \ {epoch} : attempt'[j][e] = as[j][e]
  BY <1>2, <1>7, <1>9 DEF JobsOK, AttemptsOK
<1>11. GrantedTo(js, as, job', attempt', j)
  BY <1>3, <1>4, <1>5, <1>9, <1>10 DEF GrantedTo
<1>12. /\ JobsOK(runner, job')
       /\ AttemptsOK(job', attempt')
       /\ ResultsOK(job', attempt', result, replay)
  BY <1>2, <1>11, GrantKeeps
<1> QED
  BY <1>1, <1>8, <1>12, IInvNext

-----------------------------------------------------------------------------
(* The theorems.                                                           *)

LEMMA StepIInv == IInv /\ [Next]_vars => IInv'
<1> SUFFICES ASSUME IInv, [Next]_vars PROVE IInv'
  OBVIOUS
<1>1. CASE UNCHANGED vars
  BY <1>1, IInvParts, IInvNext DEF vars, ControlOK
<1>2. CASE Tick
  BY <1>2, IInvParts, IInvNext DEF Tick, ControlOK
<1>3. ASSUME NEW o \in Owners, DeleteOwner(o) PROVE IInv'
  BY <1>3, CascadeKeeps DEF DeleteOwner
<1>4. ASSUME NEW r \in Runners, NEW t \in 0..now, RunnerStep(r, t) PROVE IInv'
  <2>1. CASE PollRecover(r, t)
    BY <2>1, SweepOnlyKeeps DEF PollRecover
  <2>2. CASE PollTerminal(r, t)
    BY <2>2, SweepOnlyKeeps DEF PollTerminal
  <2>3. ASSUME NEW j \in Jobs, PollGrant(r, j, t) PROVE IInv'
    BY <2>3, PollGrantKeeps
  <2>4. ASSUME NEW j \in Jobs, NEW e \in Epochs, SweepLate(r, j, e, t)
        PROVE  IInv'
    BY <2>4, SweepOnlyKeeps DEF SweepLate
  <2>5. ASSUME NEW j \in Jobs, NEW e \in Epochs, Renew(r, j, e, t)
        PROVE  IInv'
    BY <2>5, RenewKeeps
  <2>6. ASSUME NEW j \in Jobs, NEW e \in Epochs, Abandon(r, j, e, t)
        PROVE  IInv'
    BY <2>6, AbandonKeeps
  <2>7. ASSUME NEW j \in Jobs, NEW e \in Epochs, NEW out \in Outputs,
               RecordResult(r, j, e, out, t)
        PROVE  IInv'
    BY <2>7, RecordKeeps
  <2> QED
    BY <1>4, <2>1, <2>2, <2>3, <2>4, <2>5, <2>6, <2>7 DEF RunnerStep, Poll
<1>5. ASSUME NEW r \in Runners, NEW t \in 0..now, OwnerStep(r, t) PROVE IInv'
  <2>1. CASE BeginCreateJob(r)
    BY <2>1, IInvParts, IInvNext DEF BeginCreateJob, ControlOK
  <2>2. ASSUME NEW j \in Jobs, CreateJob(r, j, t) PROVE IInv'
    BY <2>2, CreateKeeps
  <2>3. CASE Revoke(r)
    BY <2>3, RevokeKeeps
  <2>4. CASE DeleteRunner(r)
    BY <2>4, CascadeKeeps DEF DeleteRunner
  <2> QED
    BY <1>5, <2>1, <2>2, <2>3, <2>4 DEF OwnerStep
<1> QED
  BY <1>1, <1>2, <1>3, <1>4, <1>5 DEF Next

\* The inductive invariant, for every instance of the store.
THEOREM Safety == Spec => []IInv
  BY InitIInv, StepIInv, PTL DEF Spec

\* The columns of every table hold the values their CHECKs allow.
THEOREM TypeCorrect == Spec => []TypeOK
<1>1. IInv => TypeOK
  BY DEF IInv
<1> QED
  BY <1>1, Safety, PTL

\* A job is leased exactly while its last attempt is active.
THEOREM LeasesAgree == Spec => []LeasedJobsHaveTheLastLease
<1>1. IInv => LeasedJobsHaveTheLastLease
  BY DEF IInv
<1> QED
  BY <1>1, Safety, PTL

\* poll_job never lets a runner hold two leases.
THEOREM OneLease == Spec => []OneLeasePerRunner
<1>1. IInv => OneLeasePerRunner
  BY DEF IInv
<1> QED
  BY <1>1, Safety, PTL

\* Result, replay, job and attempt agree, and the result is the last epoch's.
THEOREM ResultsCommitTogether == Spec => []ResultsAgree
<1>1. IInv => ResultsAgree
  BY DEF IInv
<1> QED
  BY <1>1, Safety, PTL

\* Revocation and deletion leave no unfinished work, whatever they race with.
THEOREM NoStrandedWork == Spec => []EndedRunnersHoldNoWork
<1>1. IInv => EndedRunnersHoldNoWork
  BY DEF IInv
<1> QED
  BY <1>1, Safety, PTL

-----------------------------------------------------------------------------
(* MatchLease implements JobPromise: each transaction of the store is one   *)
(* step of the promise, or none that the promise speaks of.                 *)

\* The phases of the promise are the statuses under other names.
LEMMA Phases ==
  ASSUME NEW s \in JobStatus
  PROVE  /\ PhaseOf(s) = "none" <=> s = "absent"
         /\ PhaseOf(s) = "waiting" <=> s = "queued"
         /\ PhaseOf(s) = "granted" <=> s = "leased"
         /\ PhaseOf(s) = "done" <=> s = "completed"
         /\ PhaseOf(s) = "failed" <=> s = "exhausted"
         /\ PhaseOf(s) = "gone" <=> s = "deleted"
BY DEF PhaseOf, JobStatus

\* What IInv says of one job, as the promise needs it.
LEMMA JobFacts ==
  ASSUME IInv
  PROVE  /\ job = [j \in Jobs |-> job[j]]
         /\ \A j \in Jobs :
                /\ job[j] \in JobRows
                /\ job[j].status \in JobStatus
                /\ job[j].used \in 0..MaxAttempts
                /\ job[j] = [runner |-> job[j].runner, status |-> job[j].status,
                             used |-> job[j].used, created |-> job[j].created]
                /\ result[j] # NoResult <=> job[j].status = "completed"
BY IInvParts DEF JobsOK, ResultsOK, JobRows

-----------------------------------------------------------------------------
(* Steps of the promise, from what they change in the job table.           *)

LEMMA SubmitsJob ==
  ASSUME IInv, NEW r \in Runners, NEW j \in Jobs,
         job[j].status = "absent",
         \E t \in Nat : job' = [job EXCEPT ![j] = JobRow(r, "queued", 0, t)],
         result' = result
  PROVE  Promise!Submit(j, r)
<1>1. job[j].used = 0
  BY IInvParts DEF AttemptsOK, Stored
<1>2. PhaseOf("absent") = "none" /\ PhaseOf("queued") = "waiting"
  BY DEF PhaseOf
<1>3. \A k \in Jobs :
          /\ job'[k].runner = IF k = j THEN r ELSE job[k].runner
          /\ job'[k].status = IF k = j THEN "queued" ELSE job[k].status
          /\ job'[k].used = job[k].used
  BY <1>1, JobFacts DEF JobRow
<1> QED
  BY <1>2, <1>3 DEF Promise!Submit

LEMMA GrantsJob ==
  ASSUME IInv, NEW j \in Jobs,
         job[j].status = "queued",
         \A k \in Jobs : job[k].runner = job[j].runner => job[k].status # "leased",
         \A i \in Jobs :
             /\ job'[i].runner = job[i].runner
             /\ job'[i].status = IF i = j THEN "leased" ELSE job[i].status
             /\ job'[i].used = IF i = j THEN job[i].used + 1 ELSE job[i].used,
         result' = result
  PROVE  Promise!Grant(j)
<1>1. PhaseOf("queued") = "waiting" /\ PhaseOf("leased") = "granted"
  BY DEF PhaseOf
<1>2. \A k \in Jobs : PhaseOf(job[k].status) = "granted" <=> job[k].status = "leased"
  BY JobFacts, Phases
<1>3. job[j].used < MaxAttempts
  BY IInvParts DEF JobsOK
<1> QED
  BY <1>1, <1>2, <1>3 DEF Promise!Grant

\* The status of a job that loses its lease is the phase the promise gives it.
LEMMA TakingBack ==
  ASSUME IInv, NEW j \in Jobs
  PROVE  /\ AfterLease(j) \in {"queued", "exhausted"}
         /\ PhaseOf(AfterLease(j)) = Promise!TakenBack(j)
<1>1. job[j].used \in 0..MaxAttempts /\ MaxAttempts \in Nat
  BY JobFacts, CountsAssumption
<1>2. (job[j].used >= MaxAttempts) <=> (job[j].used = MaxAttempts)
  BY <1>1
<1>3. PhaseOf("queued") = "waiting" /\ PhaseOf("exhausted") = "failed"
  BY DEF PhaseOf
<1> QED
  BY <1>2, <1>3 DEF AfterLease, Promise!TakenBack

LEMMA ReleasesJob ==
  ASSUME IInv, NEW j \in Jobs,
         job[j].status = "leased",
         \A i \in Jobs :
             /\ job'[i].runner = job[i].runner
             /\ job'[i].status = IF i = j THEN AfterLease(j) ELSE job[i].status
             /\ job'[i].used = job[i].used,
         result' = result
  PROVE  Promise!Release(j)
<1>1. PhaseOf("leased") = "granted"
  BY DEF PhaseOf
<1> QED
  BY <1>1, TakingBack DEF Promise!Release

LEMMA RegrantsJob ==
  ASSUME IInv, NEW j \in Jobs, NEW k \in Jobs,
         job[j].status = "leased",
         job[k].runner = job[j].runner,
         j = k \/ job[k].status = "queued",
         job[k].used < MaxAttempts,
         \A i \in Jobs :
             /\ job'[i].runner = job[i].runner
             /\ job'[i].status = IF i = k THEN "leased"
                                 ELSE IF i = j THEN AfterLease(j) ELSE job[i].status
             /\ job'[i].used = IF i = k THEN job[i].used + 1 ELSE job[i].used,
         result' = result
  PROVE  Promise!Regrant(j, k)
<1>1. PhaseOf("leased") = "granted" /\ PhaseOf("queued") = "waiting"
  BY DEF PhaseOf
<1> QED
  BY <1>1, TakingBack DEF Promise!Regrant

LEMMA FinishesJob ==
  ASSUME IInv, NEW j \in Jobs, NEW out \in Outputs,
         job[j].status = "leased",
         \A i \in Jobs :
             /\ job'[i].runner = job[i].runner
             /\ job'[i].status = IF i = j THEN "completed" ELSE job[i].status
             /\ job'[i].used = job[i].used
             /\ result'[i].output = IF i = j THEN out ELSE result[i].output
  PROVE  Promise!Finish(j, out)
<1>1. PhaseOf("leased") = "granted" /\ PhaseOf("completed") = "done"
  BY DEF PhaseOf
<1> QED
  BY <1>1 DEF Promise!Finish

\* A runner's jobs are withdrawn with it, and forgotten with its row.
LEMMA WithdrawsJobs ==
  ASSUME IInv, NEW r \in Runners,
         \A i \in Jobs :
             /\ job'[i].runner = job[i].runner
             /\ job'[i].status = IF /\ job[i].runner = r
                                    /\ job[i].status \in {"queued", "leased"}
                                 THEN "exhausted" ELSE job[i].status
             /\ job'[i].used = job[i].used,
         result' = result
  PROVE  Promise!Withdraw(r)
<1>1. PhaseOf("exhausted") = "failed"
  BY DEF PhaseOf
<1>2. \A i \in Jobs : PhaseOf(job[i].status) \in {"waiting", "granted"} <=>
                         job[i].status \in {"queued", "leased"}
  BY JobFacts, Phases
<1> QED
  BY <1>1, <1>2 DEF Promise!Withdraw

LEMMA ForgetsJobs ==
  ASSUME IInv, NEW rs \in SUBSET Runners,
         \A i \in Jobs :
             IF job[i].runner \in rs
             THEN job'[i] = NoJob("deleted") /\ result'[i] = NoResult
             ELSE job'[i] = job[i] /\ result'[i] = result[i]
  PROVE  Promise!Forget(rs)
<1>1. PhaseOf("deleted") = "gone"
  BY DEF PhaseOf
<1>2. /\ NoJob("deleted").runner = NoRunner
      /\ NoJob("deleted").status = "deleted"
      /\ NoJob("deleted").used = 0
      /\ NoResult.output = "none"
  BY DEF NoJob, JobRow, NoResult
<1> QED
  BY <1>1, <1>2 DEF Promise!Forget

\* The promise does not see a step that leaves jobs and results alone.
LEMMA Stutters ==
  ASSUME UNCHANGED <<job, result>>
  PROVE  UNCHANGED Promise!vars
BY DEF Promise!vars

-----------------------------------------------------------------------------
(* The steps of the store.                                                 *)

\* A sweep finds at most one lost lease, for a runner has one lease.
LEMMA SweepsOne ==
  ASSUME IInv, NEW r \in Runners, NEW t \in Nat
  PROVE  \/ /\ \A k \in Jobs : ~Lost(r, t, k)
            /\ SweptJobs(r, t) = job
         \/ \E j \in Jobs :
               /\ Lost(r, t, j)
               /\ \A i \in Jobs :
                      /\ SweptJobs(r, t)[i].runner = job[i].runner
                      /\ SweptJobs(r, t)[i].status =
                             IF i = j THEN AfterLease(j) ELSE job[i].status
                      /\ SweptJobs(r, t)[i].used = job[i].used
<1> DEFINE js == SweptJobs(r, t)
<1>1. js = [i \in Jobs |-> js[i]]
  BY DEF SweptJobs
<1>2. \A i \in Jobs : js[i] = IF Lost(r, t, i)
                              THEN [job[i] EXCEPT !.status = AfterLease(i)]
                              ELSE job[i]
  BY SweepRows
<1>3. \A i, j \in Jobs : Lost(r, t, i) /\ Lost(r, t, j) => i = j
  BY DEF Lost, IInv, OneLeasePerRunner
<1>4. job = [i \in Jobs |-> job[i]] /\ \A i \in Jobs : job[i] \in JobRows
  BY JobFacts
<1> HIDE DEF js
<1>5. CASE \A k \in Jobs : ~Lost(r, t, k)
  BY <1>1, <1>2, <1>4, <1>5 DEF js
<1>6. CASE \E j \in Jobs : Lost(r, t, j)
  <2>1. PICK j \in Jobs : Lost(r, t, j)
    BY <1>6
  <2>2. \A i \in Jobs :
            /\ js[i].runner = job[i].runner
            /\ js[i].status = IF i = j THEN AfterLease(j) ELSE job[i].status
            /\ js[i].used = job[i].used
    BY <1>2, <1>3, <1>4, <2>1 DEF JobRows
  <2> QED
    BY <2>1, <2>2 DEF js
<1> QED
  BY <1>5, <1>6

\* A call that only commits its sweep releases a job or does nothing.
LEMMA SweepStep ==
  ASSUME IInv, NEW r \in Runners, NEW t \in Nat,
         job' = SweptJobs(r, t), result' = result
  PROVE  [Promise!Next]_Promise!vars
<1>1. CASE job' = job
  BY <1>1, Stutters
<1>2. CASE \E j \in Jobs :
               /\ Lost(r, t, j)
               /\ \A i \in Jobs :
                      /\ job'[i].runner = job[i].runner
                      /\ job'[i].status = IF i = j THEN AfterLease(j) ELSE job[i].status
                      /\ job'[i].used = job[i].used
  <2>1. PICK j \in Jobs :
               /\ Lost(r, t, j)
               /\ \A i \in Jobs :
                      /\ job'[i].runner = job[i].runner
                      /\ job'[i].status = IF i = j THEN AfterLease(j) ELSE job[i].status
                      /\ job'[i].used = job[i].used
    BY <1>2
  <2>2. Promise!Release(j)
    BY <2>1, ReleasesJob DEF Lost
  <2> QED
    BY <2>2 DEF Promise!Next
<1> QED
  BY <1>1, <1>2, SweepsOne

\* A grant finds its job in the queue, or puts it there by its sweep.
LEMMA GrantStep ==
  ASSUME IInv, NEW r \in Runners, NEW t \in Nat, NEW j \in Jobs,
         PollGrant(r, j, t)
  PROVE  [Promise!Next]_Promise!vars
<1> DEFINE js == SweptJobs(r, t)
<1>1. JobsOK(runner, js) /\ AttemptsOK(js, SweptAttempts(r, t))
  BY SweepKeeps
<1>2. /\ js[j].runner = r
      /\ js[j].status = "queued"
      /\ result' = result
  BY DEF PollGrant, OldestQueued
<1>3. js[j].used \in Nat /\ js[j].used + 1 <= MaxAttempts
  BY <1>1, <1>2, CountsAssumption DEF JobsOK, JobRows
<1>4. job' = [js EXCEPT ![j].status = "leased", ![j].used = js[j].used + 1]
  BY <1>3, CountsAssumption DEF PollGrant
<1>5. js \in [Jobs -> JobRows]
  BY <1>1 DEF JobsOK
<1>6. \A k \in Jobs : js[k].runner = r => js[k].status # "leased"
  <2> SUFFICES ASSUME NEW k \in Jobs, js[k].runner = r, js[k].status = "leased"
               PROVE  FALSE
    OBVIOUS
  <2>1. /\ js[k].used \in Epochs
        /\ SweptAttempts(r, t)[k][js[k].used].state = "active"
    BY <1>1 DEF AttemptsOK
  <2>2. k \in JobsOf(r)
    <3>1. job[k] \in JobRows
      BY JobFacts
    <3>2. js[k] = job[k] \/ js[k] = [job[k] EXCEPT !.status = AfterLease(k)]
      BY SweepRows
    <3>3. job[k].runner = r
      BY <3>1, <3>2 DEF JobRows
    <3> QED
      BY <3>3, IInvParts DEF JobsOf, JobsOK
  <2> QED
    BY <2>1, <2>2 DEF PollGrant
<1> HIDE DEF js
<1>7. \A i \in Jobs :
          /\ job'[i].runner = js[i].runner
          /\ job'[i].status = IF i = j THEN "leased" ELSE js[i].status
          /\ job'[i].used = IF i = j THEN js[i].used + 1 ELSE js[i].used
  BY <1>4, <1>5 DEF JobRows
<1>8. CASE js = job
  <2>1. Promise!Grant(j)
    BY <1>2, <1>6, <1>7, <1>8, GrantsJob
  <2> QED
    BY <2>1 DEF Promise!Next
<1>9. ASSUME NEW k \in Jobs, Lost(r, t, k),
             \A i \in Jobs :
                 /\ js[i].runner = job[i].runner
                 /\ js[i].status = IF i = k THEN AfterLease(k) ELSE job[i].status
                 /\ js[i].used = job[i].used
      PROVE  [Promise!Next]_Promise!vars
  <2>1. job[k].status = "leased" /\ job[k].runner = r
    BY <1>9 DEF Lost
  <2>2. /\ job[j].runner = job[k].runner
        /\ k = j \/ job[j].status = "queued"
        /\ job[j].used < MaxAttempts
    BY <1>2, <1>3, <1>9, <2>1, CountsAssumption
  <2>3. \A i \in Jobs :
            /\ job'[i].runner = job[i].runner
            /\ job'[i].status = IF i = j THEN "leased"
                                ELSE IF i = k THEN AfterLease(k) ELSE job[i].status
            /\ job'[i].used = IF i = j THEN job[i].used + 1 ELSE job[i].used
    BY <1>7, <1>9
  <2>4. Promise!Regrant(k, j)
    BY <1>2, <2>1, <2>2, <2>3, RegrantsJob
  <2> QED
    BY <2>4 DEF Promise!Next
<1> QED
  BY <1>8, <1>9, SweepsOne DEF js

LEMMA CreateStep ==
  ASSUME IInv, NEW r \in Runners, NEW t \in Nat, NEW j \in Jobs,
         CreateJob(r, j, t)
  PROVE  [Promise!Next]_Promise!vars
<1>1. CASE job' = job
  BY <1>1, Stutters DEF CreateJob
<1>2. CASE /\ job[j].status = "absent"
           /\ job' = [job EXCEPT ![j] = JobRow(r, "queued", 0, t)]
  <2>1. Promise!Submit(j, r)
    BY <1>2, SubmitsJob DEF CreateJob
  <2> QED
    BY <2>1 DEF Promise!Next
<1> QED
  BY <1>1, <1>2 DEF CreateJob

LEMMA AbandonStep ==
  ASSUME IInv, NEW r \in Runners, NEW t \in Nat, NEW j \in Jobs, NEW e \in Epochs,
         Abandon(r, j, e, t)
  PROVE  [Promise!Next]_Promise!vars
<1>1. /\ job[j].status = "leased"
      /\ job' = [job EXCEPT ![j].status = AfterLease(j)]
      /\ result' = result
  BY DEF Abandon, HoldsLease
<1>2. \A i \in Jobs :
          /\ job'[i].runner = job[i].runner
          /\ job'[i].status = IF i = j THEN AfterLease(j) ELSE job[i].status
          /\ job'[i].used = job[i].used
  BY <1>1, JobFacts DEF JobRows
<1>3. Promise!Release(j)
  BY <1>1, <1>2, ReleasesJob
<1> QED
  BY <1>3 DEF Promise!Next

LEMMA RecordStep ==
  ASSUME IInv, NEW r \in Runners, NEW t \in Nat, NEW j \in Jobs, NEW e \in Epochs,
         NEW out \in Outputs, RecordResult(r, j, e, out, t)
  PROVE  [Promise!Next]_Promise!vars
<1> DEFINE row == [epoch |-> e, output |-> out,
                   conformance |-> IF out = "expected" THEN "match" ELSE "mismatch"]
<1>1. /\ job[j].status = "leased"
      /\ job' = [job EXCEPT ![j].status = "completed"]
      /\ result' = [result EXCEPT ![j] = row]
  BY DEF RecordResult, HoldsLease
<1>2. row.output = out
  OBVIOUS
<1> HIDE DEF row
<1>3. \A i \in Jobs :
          /\ job'[i].runner = job[i].runner
          /\ job'[i].status = IF i = j THEN "completed" ELSE job[i].status
          /\ job'[i].used = job[i].used
  BY <1>1, JobFacts DEF JobRows
<1>4. \A i \in Jobs : result'[i].output = IF i = j THEN out ELSE result[i].output
  BY <1>1, <1>2, IInvParts DEF ResultsOK
<1>5. Promise!Finish(j, out)
  BY <1>1, <1>3, <1>4, FinishesJob
<1> QED
  BY <1>5 DEF Promise!Next

LEMMA RevokeStep ==
  ASSUME IInv, NEW r \in Runners, Revoke(r)
  PROVE  [Promise!Next]_Promise!vars
<1>1. \A i \in Jobs :
          /\ job[i] \in JobRows
          /\ i \in JobsOf(r) /\ job[i].status \in {"queued", "leased"} <=>
                 job[i].runner = r /\ job[i].status \in {"queued", "leased"}
  BY JobFacts DEF JobsOf, Stored
<1>2. \A i \in Jobs :
          /\ job'[i].runner = job[i].runner
          /\ job'[i].status = IF /\ job[i].runner = r
                                 /\ job[i].status \in {"queued", "leased"}
                              THEN "exhausted" ELSE job[i].status
          /\ job'[i].used = job[i].used
  BY <1>1 DEF Revoke, JobRows
<1>3. Promise!Withdraw(r)
  BY <1>2, WithdrawsJobs DEF Revoke
<1> QED
  BY <1>3 DEF Promise!Next

LEMMA CascadeStep ==
  ASSUME IInv, NEW rs \in SUBSET Runners, Cascade(rs)
  PROVE  [Promise!Next]_Promise!vars
<1> DEFINE gone == UNION {JobsOf(r) : r \in rs}
<1>1. \A i \in Jobs : i \in gone <=> job[i].runner \in rs
  BY IInvParts DEF JobsOf, JobsOK
<1>2. \A i \in Jobs :
          /\ job'[i] = IF i \in gone THEN NoJob("deleted") ELSE job[i]
          /\ result'[i] = IF i \in gone THEN NoResult ELSE result[i]
  BY DEF Cascade
<1> HIDE DEF gone
<1>3. Promise!Forget(rs)
  BY <1>1, <1>2, ForgetsJobs
<1> QED
  BY <1>3 DEF Promise!Next

\* Each step of the store is a step of the promise or none.
LEMMA StepsKeepPromise ==
  ASSUME IInv, [Next]_vars
  PROVE  [Promise!Next]_Promise!vars
<1>1. CASE UNCHANGED vars
  BY <1>1, Stutters DEF vars
<1>2. CASE Tick
  BY <1>2, Stutters DEF Tick
<1>3. ASSUME NEW o \in Owners, DeleteOwner(o)
      PROVE  [Promise!Next]_Promise!vars
  BY <1>3, CascadeStep DEF DeleteOwner
<1>4. ASSUME NEW r \in Runners, NEW t \in 0..now, OwnerStep(r, t)
      PROVE  [Promise!Next]_Promise!vars
  <2>1. t \in Nat
    BY IInvParts DEF ControlOK
  <2>2. CASE BeginCreateJob(r)
    BY <2>2, Stutters DEF BeginCreateJob
  <2>3. CASE \E j \in Jobs : CreateJob(r, j, t)
    BY <2>1, <2>3, CreateStep
  <2>4. CASE Revoke(r)
    BY <2>4, RevokeStep
  <2>5. CASE DeleteRunner(r)
    BY <2>5, CascadeStep DEF DeleteRunner
  <2> QED
    BY <1>4, <2>2, <2>3, <2>4, <2>5 DEF OwnerStep
<1>5. ASSUME NEW r \in Runners, NEW t \in 0..now, RunnerStep(r, t)
      PROVE  [Promise!Next]_Promise!vars
  <2>1. t \in Nat
    BY IInvParts DEF ControlOK
  <2>2. CASE PollRecover(r, t)
    BY <2>1, <2>2, SweepStep DEF PollRecover
  <2>3. CASE PollTerminal(r, t)
    BY <2>1, <2>3, SweepStep DEF PollTerminal
  <2>4. CASE \E j \in Jobs : PollGrant(r, j, t)
    BY <2>1, <2>4, GrantStep
  <2>5. ASSUME NEW j \in Jobs, NEW e \in Epochs,
               \/ SweepLate(r, j, e, t)
               \/ Renew(r, j, e, t)
               \/ Abandon(r, j, e, t)
               \/ \E out \in Outputs : RecordResult(r, j, e, out, t)
        PROVE  [Promise!Next]_Promise!vars
    <3>1. CASE SweepLate(r, j, e, t)
      BY <2>1, <3>1, SweepStep DEF SweepLate
    <3>2. CASE Renew(r, j, e, t)
      BY <3>2, Stutters DEF Renew
    <3>3. CASE Abandon(r, j, e, t)
      BY <2>1, <3>3, AbandonStep
    <3>4. CASE \E out \in Outputs : RecordResult(r, j, e, out, t)
      BY <2>1, <3>4, RecordStep
    <3> QED
      BY <2>5, <3>1, <3>2, <3>3, <3>4
  <2> QED
    BY <1>5, <2>2, <2>3, <2>4, <2>5 DEF RunnerStep, Poll
<1> QED
  BY <1>1, <1>2, <1>3, <1>4, <1>5 DEF Next

\* The store starts where the promise does.
LEMMA StartsPromise == Init => Promise!Init
<1>1. PhaseOf("absent") = "none"
  BY DEF PhaseOf
<1> QED
  BY <1>1 DEF Init, Promise!Init, NoJob, JobRow, NoResult

\* The fixture-job half of the store, with its leases, deadlines, sweeps and
\* cascades, is an implementation of the promise made to owners and runners.
THEOREM LeasesKeepThePromise == Spec => KeepsPromise
<1>1. IInv /\ [Next]_vars => [Promise!Next]_Promise!vars
  BY StepsKeepPromise
<1> QED
  BY <1>1, StartsPromise, Safety, PTL DEF Spec, KeepsPromise, Promise!Spec

-----------------------------------------------------------------------------
(* The time a lease can last.                                              *)

\* From its grant on, a lease is no longer than its renewals make it, whatever
\* time the calls that granted and renewed it had read.
Short(row, at) ==
    /\ row.created <= at
    /\ row.renews <= MaxRenews
    /\ row.expires <= row.created + (row.renews + 1) * LeaseLength
LeasesAreShort == \A j \in Jobs, e \in Epochs : Active(j, e) => Short(attempt[j][e], now)

LEMMA OneMore ==
  ASSUME NEW n \in Nat, NEW d \in Nat
  PROVE  (n + 1 + 1) * d = (n + 1) * d + d
OBVIOUS

LEMMA MoreIsLonger ==
  ASSUME NEW n \in Nat, NEW m \in Nat, NEW d \in Nat, n <= m
  PROVE  (n + 1) * d <= (m + 1) * d
<1>1. PICK k \in Nat : m = n + k
  <2>1. m - n \in Nat /\ m = n + (m - n)
    OBVIOUS
  <2> QED
    BY <2>1
<1>2. (m + 1) * d = (n + 1) * d + k * d
  BY <1>1
<1>3. k * d \in Nat
  OBVIOUS
<1>4. (n + 1) * d \in Nat
  OBVIOUS
<1> QED
  BY <1>2, <1>3, <1>4

\* A grant, at whatever time the poll had read.
LEMMA GrantIsShort ==
  ASSUME NEW t \in Nat, NEW at \in Nat, t <= at
  PROVE  Short(Lease(0, t, t + LeaseLength), at)
<1>1. LeaseLength \in Nat /\ MaxRenews \in Nat
  BY CountsAssumption
<1>2. (0 + 1) * LeaseLength = LeaseLength
  BY <1>1
<1> QED
  BY <1>1, <1>2 DEF Short, Lease

\* A renewal, of a lease that has not run out.
LEMMA RenewalIsShort ==
  ASSUME NEW row \in AttemptRows, NEW at \in Nat, Short(row, at), row.renews < MaxRenews
  PROVE  Short(Lease(row.renews + 1, row.created, row.expires + LeaseLength), at)
<1>1. /\ LeaseLength \in Nat /\ MaxRenews \in Nat
      /\ row.renews \in Nat /\ row.created \in Nat /\ row.expires \in Nat
  BY CountsAssumption DEF AttemptRows
<1>2. (row.renews + 1 + 1) * LeaseLength = (row.renews + 1) * LeaseLength + LeaseLength
  BY <1>1, OneMore
<1>3. (row.renews + 1) * LeaseLength \in Nat
  BY <1>1
<1>4. row.expires <= row.created + (row.renews + 1) * LeaseLength
  BY DEF Short
<1>5. row.expires + LeaseLength <= row.created + (row.renews + 1 + 1) * LeaseLength
  BY <1>1, <1>2, <1>3, <1>4
<1> QED
  BY <1>1, <1>5 DEF Short, Lease

\* Time does not make it longer.
LEMMA StaysShort ==
  ASSUME NEW row \in AttemptRows, NEW at \in Nat, NEW later \in Nat, at <= later,
         Short(row, at)
  PROVE  Short(row, later)
<1>1. row.created \in Nat
  BY DEF AttemptRows
<1> QED
  BY <1>1 DEF Short

\* What a step may do to an attempt that is active after it.
LEMMA LeaseSteps ==
  ASSUME IInv, [Next]_vars, NEW j \in Jobs, NEW e \in Epochs,
         attempt'[j][e].state = "active"
  PROVE  \/ attempt'[j][e] = attempt[j][e]
         \/ /\ ~Active(j, e)
            /\ \E t \in 0..now : attempt'[j][e] = Lease(0, t, t + LeaseLength)
         \/ /\ Active(j, e)
            /\ attempt[j][e].renews < MaxRenews
            /\ attempt'[j][e] = Lease(attempt[j][e].renews + 1, attempt[j][e].created,
                                      attempt[j][e].expires + LeaseLength)
<1> DEFINE goal == \/ attempt'[j][e] = attempt[j][e]
                   \/ /\ ~Active(j, e)
                      /\ \E t \in 0..now : attempt'[j][e] = Lease(0, t, t + LeaseLength)
                   \/ /\ Active(j, e)
                      /\ attempt[j][e].renews < MaxRenews
                      /\ attempt'[j][e] = Lease(attempt[j][e].renews + 1,
                                                attempt[j][e].created,
                                                attempt[j][e].expires + LeaseLength)
<1>0. attempt \in [Jobs -> [Epochs -> AttemptRows]]
  BY IInvParts DEF AttemptsOK
<1>a. \A s : Ended(s).state = s
  BY DEF Ended
<1>b. \A r \in Runners, t \in Nat :
          \/ SweptAttempts(r, t)[j][e] = attempt[j][e]
          \/ SweptAttempts(r, t)[j][e] = Ended("expired")
  BY DEF SweptAttempts
<1>1. CASE UNCHANGED vars \/ Tick
  BY <1>1 DEF vars, Tick
<1>2. ASSUME NEW o \in Owners, DeleteOwner(o) PROVE goal
  BY <1>2, <1>a DEF DeleteOwner, Cascade, NoAttempt
<1>3. ASSUME NEW r \in Runners, NEW t \in 0..now, OwnerStep(r, t) PROVE goal
  <2>1. CASE BeginCreateJob(r) \/ \E k \in Jobs : CreateJob(r, k, t)
    BY <2>1 DEF BeginCreateJob, CreateJob
  <2>2. CASE Revoke(r)
    BY <2>2, <1>a DEF Revoke
  <2>3. CASE DeleteRunner(r)
    BY <2>3, <1>a DEF DeleteRunner, Cascade, NoAttempt
  <2> QED
    BY <1>3, <2>1, <2>2, <2>3 DEF OwnerStep
<1>4. ASSUME NEW r \in Runners, NEW t \in 0..now, RunnerStep(r, t) PROVE goal
  <2>0. t \in Nat
    BY IInvParts DEF ControlOK
  <2>1. CASE attempt' = SweptAttempts(r, t)
    BY <2>0, <2>1, <1>a, <1>b
  <2>2. ASSUME NEW k \in Jobs, PollGrant(r, k, t) PROVE goal
    <3> DEFINE as == SweptAttempts(r, t)
               f == SweptJobs(r, t)[k].used + 1
    <3>1. CASE attempt' = as
      BY <3>1, <2>1
    <3>2. CASE attempt' = [as EXCEPT ![k][f] = Lease(0, t, t + LeaseLength)]
      <4>1. as \in [Jobs -> [Epochs -> AttemptRows]]
        BY <2>0, SweepKeeps DEF AttemptsOK
      <4>2. f \in Epochs => as[k][f].state = "none"
        <5>1. SweptJobs(r, t)[k].used \in Nat
          BY <2>0, SweepKeeps DEF JobsOK, JobRows
        <5> QED
          BY <2>0, <5>1, SweepKeeps DEF AttemptsOK
      <4>3. f \in Epochs => ~Active(k, f)
        BY <4>2, <2>0, <1>a DEF SweptAttempts, Active
      <4> HIDE DEF as, f
      <4>4. \/ attempt'[j][e] = as[j][e]
            \/ j = k /\ e = f /\ attempt'[j][e] = Lease(0, t, t + LeaseLength)
        BY <3>2, <4>1
      <4> QED
        BY <4>3, <4>4, <2>0, <1>a, <1>b DEF as
    <3> QED
      BY <2>2, <3>1, <3>2 DEF PollGrant
  <2>3. ASSUME NEW k \in Jobs, NEW f \in Epochs, Renew(r, k, f, t) PROVE goal
    <3>1. /\ attempt[k][f].renews < MaxRenews
          /\ Active(k, f)
          /\ attempt' = [attempt EXCEPT ![k][f] =
                 Lease(attempt[k][f].renews + 1, attempt[k][f].created,
                       attempt[k][f].expires + LeaseLength)]
      <4>1. attempt[k][f].expires > t /\ attempt[k][f].expires \in Nat
        BY <2>3, <1>0 DEF Renew, AttemptRows
      <4>2. ~(t > attempt[k][f].expires)
        BY <2>0, <4>1
      <4> QED
        BY <2>3, <4>2 DEF Renew, HoldsLease
    <3> QED
      BY <3>1, <1>0
  <2>4. ASSUME NEW k \in Jobs, NEW f \in Epochs,
               \/ Abandon(r, k, f, t)
               \/ \E out \in Outputs : RecordResult(r, k, f, out, t)
        PROVE  goal
    <3>1. PICK s \in {"abandoned", "completed"} : attempt' = [attempt EXCEPT ![k][f] = Ended(s)]
      BY <2>4 DEF Abandon, RecordResult
    <3> QED
      BY <3>1, <1>0, <1>a
  <2> HIDE DEF goal
  <2> QED
    BY <1>4, <2>1, <2>2, <2>3, <2>4
    DEF RunnerStep, Poll, PollRecover, PollTerminal, SweepLate
<1> HIDE DEF goal
<1>5. goal
  BY <1>1, <1>2, <1>3, <1>4 DEF Next, goal
<1> QED
  BY <1>5 DEF goal

LEMMA ShortStep ==
  ASSUME IInv, LeasesAreShort, [Next]_vars
  PROVE  LeasesAreShort'
<1>1. now \in Nat /\ now' \in Nat /\ now <= now'
  <2>1. now \in Nat
    BY IInvParts DEF ControlOK
  <2>2. CASE Tick \/ UNCHANGED vars
    BY <2>1, <2>2 DEF Tick, vars
  <2>3. ASSUME NEW o \in Owners, DeleteOwner(o) PROVE now' = now
    BY <2>3 DEF DeleteOwner, Cascade
  <2>4. ASSUME NEW r \in Runners, NEW t \in 0..now, OwnerStep(r, t) PROVE now' = now
    BY <2>4 DEF OwnerStep, BeginCreateJob, CreateJob, Revoke, DeleteRunner, Cascade
  <2>5. ASSUME NEW r \in Runners, NEW t \in 0..now, RunnerStep(r, t) PROVE now' = now
    BY <2>5 DEF RunnerStep, Poll, PollRecover, PollTerminal, PollGrant, SweepLate, Renew,
                Abandon, RecordResult
  <2> QED
    BY <2>1, <2>2, <2>3, <2>4, <2>5 DEF Next
<1> SUFFICES ASSUME NEW j \in Jobs, NEW e \in Epochs, attempt'[j][e].state = "active"
             PROVE  Short(attempt'[j][e], now')
  BY DEF LeasesAreShort, Active
<1>2. attempt[j][e] \in AttemptRows /\ attempt'[j][e] \in AttemptRows
  BY StepIInv, IInvParts DEF AttemptsOK, IInv, TypeOK, AttemptRows
<1>3. Short(attempt'[j][e], now)
  <2>1. CASE attempt'[j][e] = attempt[j][e]
    BY <2>1 DEF LeasesAreShort, Active
  <2>2. ASSUME NEW t \in 0..now, attempt'[j][e] = Lease(0, t, t + LeaseLength)
        PROVE  Short(attempt'[j][e], now)
    BY <1>1, <2>2, GrantIsShort
  <2>3. CASE /\ Active(j, e)
             /\ attempt[j][e].renews < MaxRenews
             /\ attempt'[j][e] = Lease(attempt[j][e].renews + 1, attempt[j][e].created,
                                       attempt[j][e].expires + LeaseLength)
    BY <1>1, <1>2, <2>3, RenewalIsShort DEF LeasesAreShort
  <2> QED
    BY <2>1, <2>2, <2>3, LeaseSteps
<1> QED
  BY <1>1, <1>2, <1>3, StaysShort

\* While a lease runs, nobody moves its start.
LEMMA StartsStay ==
  ASSUME IInv, [Next]_vars, NEW j \in Jobs, NEW e \in Epochs,
         Active(j, e), attempt'[j][e].state = "active"
  PROVE  attempt'[j][e].created = attempt[j][e].created
<1>1. \/ attempt'[j][e] = attempt[j][e]
      \/ attempt'[j][e] = Lease(attempt[j][e].renews + 1, attempt[j][e].created,
                               attempt[j][e].expires + LeaseLength)
  BY LeaseSteps
<1> QED
  BY <1>1 DEF Lease

\* However often it is renewed, a lease is over (MaxRenews + 1) lease lengths after
\* its grant at the latest, and its renewals do not move the time of the grant.
THEOREM LeaseTimes == Spec => LeaseTimeIsBounded
<1> DEFINE StartsStand == \A j \in Jobs, e \in Epochs :
               /\ Active(j, e)
               /\ attempt'[j][e].state = "active"
               => attempt'[j][e].created = attempt[j][e].created
           LeasesEnd == \A j \in Jobs, e \in Epochs :
               Active(j, e) =>
                   /\ attempt[j][e].created <= now
                   /\ attempt[j][e].expires <=
                          attempt[j][e].created + (MaxRenews + 1) * LeaseLength
<1>1. Init => LeasesAreShort
  BY DEF Init, LeasesAreShort, Active, NoAttempt, Ended
<1>2. IInv /\ LeasesAreShort /\ [Next]_vars => LeasesAreShort'
  BY ShortStep
<1>3. IInv /\ LeasesAreShort => LeasesEnd
  <2> SUFFICES ASSUME IInv, LeasesAreShort, NEW j \in Jobs, NEW e \in Epochs, Active(j, e)
               PROVE  /\ attempt[j][e].created <= now
                      /\ attempt[j][e].expires <=
                             attempt[j][e].created + (MaxRenews + 1) * LeaseLength
    OBVIOUS
  <2>1. attempt[j][e] \in AttemptRows
    BY IInvParts DEF AttemptsOK
  <2>2. Short(attempt[j][e], now)
    BY DEF LeasesAreShort
  <2>3. /\ attempt[j][e].renews \in Nat /\ attempt[j][e].created \in Nat
        /\ attempt[j][e].expires \in Nat
        /\ LeaseLength \in Nat /\ MaxRenews \in Nat
    BY <2>1, CountsAssumption DEF AttemptRows
  <2>4. (attempt[j][e].renews + 1) * LeaseLength <= (MaxRenews + 1) * LeaseLength
    BY <2>2, <2>3, MoreIsLonger DEF Short
  <2>5. (attempt[j][e].renews + 1) * LeaseLength \in Nat /\ (MaxRenews + 1) * LeaseLength \in Nat
    BY <2>3
  <2> QED
    BY <2>2, <2>3, <2>4, <2>5 DEF Short
<1>4. IInv /\ [Next]_vars => [StartsStand]_vars
  BY StartsStay
<1> QED
  BY <1>1, <1>2, <1>3, <1>4, Safety, PTL DEF Spec, LeaseTimeIsBounded

-----------------------------------------------------------------------------
(* RunnerWork: commands and server over a network.                         *)

\* The requests that the commands make.
WorkRequests ==
    [by : Commands, kind : {"poll"}, lease : {NoLease}, live : BOOLEAN]
    \cup [by : Commands, kind : {"result"},
          lease : [job : Jobs, epoch : Epochs], live : BOOLEAN]

\* What was said of a job, as long as there is a job to say it of.
StillTrue(told) ==
    /\ told.job \in Jobs
    /\ \/ /\ job[told.job].status = "completed"
          /\ told = Receipt(told.job, result[told.job].epoch,
                            result[told.job].output)
       \/ job[told.job].status = "deleted"

WorkInv ==
    /\ IInv
    /\ sent \cup verified \subseteq WorkRequests
    /\ \A told \in receipts : StillTrue(told)

LEMMA RequestParts ==
  ASSUME NEW q \in WorkRequests
  PROVE  /\ q.by \in Commands
         /\ ServedBy[q.by] \in Runners
         /\ [q EXCEPT !.live = FALSE] \in WorkRequests
         /\ q.kind = "result" => /\ q.lease.job \in Jobs
                                 /\ q.lease.epoch \in Epochs
                                 /\ q.lease = Held(q.lease.job, q.lease.epoch)
BY CommandsAssumption DEF WorkRequests, Held

LEMMA NowIsAnInstant == IInv => now \in 0..now
BY IInvParts DEF ControlOK

\* Seen from the store, the composition makes the steps of MatchLease.
LEMMA EnvironmentSteps ==
  ASSUME IInv, Environment
  PROVE  Next
<1>1. now \in 0..now
  BY NowIsAnInstant
<1>2. CASE LeaseTick
  BY <1>2 DEF LeaseTick, Next
<1>3. ASSUME NEW r \in Runners,
             /\ Unused # {}
             /\ \/ BeginCreateJob(r)
                \/ CreateJob(r, CHOOSE j \in Unused : TRUE, now)
      PROVE  Next
  <2>1. (CHOOSE j \in Unused : TRUE) \in Jobs
    BY <1>3 DEF Unused
  <2> QED
    BY <1>1, <1>3, <2>1 DEF OwnerStep, Next
<1>4. ASSUME NEW r \in Runners, Revoke(r) \/ DeleteRunner(r) PROVE Next
  BY <1>1, <1>4 DEF OwnerStep, Next
<1>5. ASSUME NEW r \in Runners, NEW j \in Jobs, NEW e \in Epochs,
             Renew(r, j, e, now) \/ Abandon(r, j, e, now)
      PROVE  Next
  BY <1>1, <1>5 DEF RunnerStep, Next
<1> QED
  BY <1>2, <1>3, <1>4, <1>5 DEF Environment

LEMMA ServeSteps ==
  ASSUME WorkInv, NEW q \in sent \cup verified, Serve(q)
  PROVE  [Next]_vars
<1>1. /\ now \in 0..now
      /\ q \in WorkRequests
      /\ ServedBy[q.by] \in Runners
  BY NowIsAnInstant, RequestParts DEF WorkInv
<1> DEFINE r == ServedBy[q.by]
<1>2. \/ UNCHANGED vars
      \/ RunnerStep(r, now)
  <2>1. CASE ServePoll(q)
    BY <2>1 DEF ServePoll, RunnerStep, Poll
  <2>2. CASE ServeResult(q)
    <3>1. q.lease.job \in Jobs /\ q.lease.epoch \in Epochs
      BY <1>1, <2>2, RequestParts DEF ServeResult
    <3>2. "expected" \in Outputs
      BY DEF Outputs
    <3> QED
      BY <2>2, <3>1, <3>2 DEF ServeResult, RunnerStep
  <2> QED
    BY <2>1, <2>2 DEF Serve
<1> QED
  BY <1>1, <1>2 DEF Next

LEMMA WorkStepsAreLeaseSteps ==
  ASSUME WorkInv, [WorkNext]_allVars
  PROVE  [Next]_vars
<1>1. CASE UNCHANGED allVars
  BY <1>1 DEF allVars
<1>2. CASE Environment
  BY <1>2, EnvironmentSteps DEF WorkInv
<1>3. ASSUME NEW p \in Commands, Start(p) PROVE [Next]_vars
  BY <1>3 DEF Start
<1>4. ASSUME NEW q \in sent \cup verified,
             Verify(q) \/ Drop(q) \/ GiveUp(q) \/ Serve(q)
      PROVE  [Next]_vars
  <2>1. CASE Verify(q) \/ Drop(q)
    BY <2>1 DEF Verify, Drop
  <2>2. CASE GiveUp(q)
    BY <2>2 DEF GiveUp
  <2>3. CASE Serve(q)
    BY <2>3, ServeSteps
  <2> QED
    BY <1>4, <2>1, <2>2, <2>3
<1> QED
  BY <1>1, <1>2, <1>3, <1>4 DEF WorkNext

-----------------------------------------------------------------------------
(* Finished jobs.                                                          *)

\* A finished job keeps its result until it is deleted, and then it stays so.
JobStands(j) ==
    /\ job[j].status = "completed" =>
           \/ job'[j].status = "completed" /\ result'[j] = result[j]
           \/ job'[j].status = "deleted"
    /\ job[j].status = "deleted" => job'[j].status = "deleted"

LEMMA SweepStands ==
  ASSUME IInv, NEW r \in Runners, NEW t \in Nat, NEW j \in Jobs
  PROVE  job[j].status # "leased" => SweptJobs(r, t)[j] = job[j]
BY DEF SweptJobs

LEMMA FinishedJobsStand ==
  ASSUME IInv, [Next]_vars, NEW j \in Jobs
  PROVE  JobStands(j)
<1>1. job \in [Jobs -> JobRows] /\ result \in [Jobs -> ResultRows \cup {NoResult}]
  BY IInvParts DEF JobsOK, ResultsOK
<1>2. CASE UNCHANGED vars \/ Tick
  BY <1>2 DEF vars, Tick, JobStands
<1>3. ASSUME NEW rs, Cascade(rs) PROVE JobStands(j)
  <2>1. \/ job'[j] = NoJob("deleted")
        \/ job'[j] = job[j] /\ result'[j] = result[j]
    BY <1>3 DEF Cascade
  <2> QED
    BY <2>1 DEF JobStands, NoJob, JobRow
<1>4. ASSUME NEW r \in Runners, NEW t \in 0..now, RunnerStep(r, t)
      PROVE  JobStands(j)
  <2>1. t \in Nat
    BY IInvParts DEF ControlOK
  <2>2. CASE job' = SweptJobs(r, t) /\ result' = result
    BY <2>1, <2>2, SweepStands DEF JobStands
  <2>3. ASSUME NEW k \in Jobs, PollGrant(r, k, t) PROVE JobStands(j)
    <3>1. SweptJobs(r, t)[k].status = "queued"
      BY <2>3 DEF PollGrant, OldestQueued
    <3>2. job[j].status \in {"completed", "deleted"} =>
              job'[j] = SweptJobs(r, t)[j]
      <4>1. CASE k = j
        BY <2>1, <3>1, <4>1, SweepStands
      <4>2. CASE k # j
        BY <2>3, <4>2 DEF PollGrant, SweptJobs
      <4> QED
        BY <4>1, <4>2
    <3> QED
      BY <2>1, <2>3, <3>2, SweepStands DEF JobStands, PollGrant
  <2>4. ASSUME NEW k \in Jobs, NEW e \in Epochs, Renew(r, k, e, t)
        PROVE  JobStands(j)
    BY <2>4 DEF Renew, JobStands
  <2>5. ASSUME NEW k \in Jobs, NEW e \in Epochs, Abandon(r, k, e, t)
        PROVE  JobStands(j)
    BY <1>1, <2>5 DEF Abandon, HoldsLease, JobStands
  <2>6. ASSUME NEW k \in Jobs, NEW e \in Epochs, NEW out \in Outputs,
               RecordResult(r, k, e, out, t)
        PROVE  JobStands(j)
    BY <1>1, <2>6 DEF RecordResult, HoldsLease, JobStands
  <2> QED
    BY <1>4, <2>2, <2>3, <2>4, <2>5, <2>6
    DEF RunnerStep, Poll, PollRecover, PollTerminal, SweepLate
<1>5. ASSUME NEW r \in Runners, NEW t \in 0..now, OwnerStep(r, t)
      PROVE  JobStands(j)
  <2>1. CASE BeginCreateJob(r)
    BY <2>1 DEF BeginCreateJob, JobStands
  <2>2. ASSUME NEW k \in Jobs, CreateJob(r, k, t) PROVE JobStands(j)
    BY <1>1, <2>2 DEF CreateJob, JobStands
  <2>3. CASE Revoke(r)
    BY <1>1, <2>3 DEF Revoke, JobStands
  <2>4. CASE DeleteRunner(r)
    BY <1>3, <2>4 DEF DeleteRunner
  <2> QED
    BY <1>5, <2>1, <2>2, <2>3, <2>4 DEF OwnerStep
<1>6. ASSUME NEW o \in Owners, DeleteOwner(o) PROVE JobStands(j)
  BY <1>3, <1>6 DEF DeleteOwner
<1> QED
  BY <1>2, <1>4, <1>5, <1>6 DEF Next

\* So what a command printed before stays true.
LEMMA TrueStaysTrue ==
  ASSUME IInv, [Next]_vars, NEW told, StillTrue(told)
  PROVE  StillTrue(told)'
BY FinishedJobsStand DEF StillTrue, JobStands

-----------------------------------------------------------------------------
(* Requests and receipts.                                                  *)

LEMMA TellsTheTruth ==
  ASSUME NEW j \in Jobs, job'[j].status = "completed",
         NEW told, told = Receipt(j, result'[j].epoch, result'[j].output)
  PROVE  StillTrue(told)'
BY DEF StillTrue, Receipt

LEMMA AnswersKeep ==
  ASSUME WorkInv, IInv', NEW q \in sent \cup verified, Serve(q)
  PROVE  /\ (sent \cup verified)' \subseteq WorkRequests
         /\ \A told \in receipts' \ receipts : StillTrue(told)'
<1>1. q \in WorkRequests /\ sent \subseteq WorkRequests /\ verified \subseteq WorkRequests
  BY DEF WorkInv
<1>2. ASSUME verified' = verified \ {q},
             NEW j \in Jobs, NEW e \in Epochs, Granted(q, j, e)
      PROVE  /\ (sent \cup verified)' \subseteq WorkRequests
             /\ receipts' = receipts
  <2>1. Request(q.by, "result", Held(j, e), TRUE) \in WorkRequests
    BY <1>1, RequestParts DEF Request, Held, WorkRequests
  <2> QED
    BY <1>1, <1>2, <2>1 DEF Granted, Fails
<1>3. ASSUME verified' = verified \ {q}, NEW told, Told(q, told) \/ Fails(q)
      PROVE  /\ (sent \cup verified)' \subseteq WorkRequests
             /\ receipts' \ receipts \subseteq told
  BY <1>1, <1>3 DEF Told, Fails
<1>4. CASE ServePoll(q)
  <2> DEFINE r == ServedBy[q.by]
  <2>1. verified' = verified \ {q}
    BY <1>4 DEF ServePoll
  <2>2. ASSUME NEW j \in Jobs, PollGrant(r, j, now), job'[j].status = "leased"
        PROVE  job'[j].used \in Epochs
    BY <2>2 DEF IInv, LeasedJobsHaveTheLastLease, HasActive, Active
  <2>3. ASSUME NEW j \in JobsOf(r), NEW e \in Epochs, Granted(q, j, e)
        PROVE  /\ (sent \cup verified)' \subseteq WorkRequests
               /\ receipts' = receipts
    BY <1>2, <2>1, <2>3 DEF JobsOf
  <2>4. ASSUME NEW j \in Jobs, PollGrant(r, j, now), job'[j].status = "leased",
               Granted(q, j, job'[j].used)
        PROVE  /\ (sent \cup verified)' \subseteq WorkRequests
               /\ receipts' = receipts
    BY <1>2, <2>1, <2>2, <2>4
  <2>5. CASE Fails(q)
    BY <1>3, <2>1, <2>5 DEF Fails
  <2>6. CASE /\ PollTerminal(r, now)
             /\ Told(q, {Receipt(j, result[j].epoch, result[j].output) :
                             j \in {k \in JobsOf(r) : job[k].status = "completed"}})
    <3>1. ASSUME NEW j \in JobsOf(r), job[j].status = "completed",
                 NEW told, told = Receipt(j, result[j].epoch, result[j].output)
          PROVE  StillTrue(told)'
      <4>1. job'[j] = job[j] /\ result' = result /\ j \in Jobs
        BY <2>6, <3>1 DEF PollTerminal, SweptJobs, JobsOf
      <4> QED
        BY <3>1, <4>1 DEF StillTrue, Receipt
    <3> QED
      BY <1>3, <2>1, <2>6, <3>1
  <2> QED
    BY <1>4, <2>3, <2>4, <2>5, <2>6 DEF ServePoll
<1>5. CASE ServeResult(q)
  <2> DEFINE r == ServedBy[q.by]
             j == q.lease.job
             e == q.lease.epoch
  <2>1. /\ verified' = verified \ {q}
        /\ j \in Jobs /\ e \in Epochs
    BY <1>1, <1>5, RequestParts DEF ServeResult
  <2>2. CASE Fails(q)
    BY <1>3, <2>1, <2>2 DEF Fails
  <2>3. CASE /\ RecordResult(r, j, e, "expected", now)
             /\ Told(q, {Receipt(j, e, "expected")})
    <3>1. ASSUME NEW told, told = Receipt(j, e, "expected")
          PROVE  StillTrue(told)'
      <4>1. /\ job'[j].status = "completed"
            /\ result'[j].epoch = e /\ result'[j].output = "expected"
        BY <2>1, <2>3, IInvParts DEF WorkInv, RecordResult, JobsOK, JobRows, ResultsOK
      <4> QED
        BY <2>1, <3>1, <4>1, TellsTheTruth
    <3> QED
      BY <1>3, <2>1, <2>3, <3>1
  <2>4. CASE /\ UNCHANGED vars
             /\ Told(q, IF /\ runner[r] = "active"
                           /\ Receipt(j, result[j].epoch, result[j].output)
                                 = Receipt(j, e, "expected")
                        THEN {Receipt(j, e, "expected")} ELSE {})
    <3>1. ASSUME Receipt(j, result[j].epoch, result[j].output)
                     = Receipt(j, e, "expected"),
                 NEW told, told = Receipt(j, e, "expected")
          PROVE  StillTrue(told)'
      <4>1. result[j].epoch = e /\ result[j].output = "expected"
        BY <3>1 DEF Receipt
      <4>2. job[j].status = "completed"
        BY <2>1, <4>1, IInvParts DEF WorkInv, ResultsOK, NoResult
      <4> QED
        BY <2>1, <2>4, <3>1, <4>2, TellsTheTruth DEF vars
    <3> QED
      BY <1>3, <2>1, <2>4, <3>1
  <2> QED
    BY <1>5, <2>2, <2>3, <2>4 DEF ServeResult
<1> QED
  BY <1>4, <1>5 DEF Serve

LEMMA WorkStep == WorkInv /\ [WorkNext]_allVars => WorkInv'
<1> SUFFICES ASSUME WorkInv, [WorkNext]_allVars PROVE WorkInv'
  OBVIOUS
<1>1. [Next]_vars /\ IInv
  BY WorkStepsAreLeaseSteps DEF WorkInv
<1>2. IInv'
  BY <1>1, StepIInv
<1>3. \A told \in receipts : StillTrue(told)'
  BY <1>1, TrueStaysTrue DEF WorkInv
<1>4. /\ (sent \cup verified)' \subseteq WorkRequests
      /\ \A told \in receipts' \ receipts : StillTrue(told)'
  <2>1. CASE UNCHANGED allVars \/ Environment
    BY <2>1 DEF allVars, work, Environment, WorkInv
  <2>2. ASSUME NEW p \in Commands, Start(p)
        PROVE  /\ (sent \cup verified)' \subseteq WorkRequests
               /\ receipts' = receipts
    <3>1. Request(p, "poll", NoLease, TRUE) \in WorkRequests
      BY DEF Request, WorkRequests
    <3> QED
      BY <2>2, <3>1 DEF Start, WorkInv
  <2>3. ASSUME NEW q \in sent \cup verified,
               Verify(q) \/ Drop(q) \/ GiveUp(q)
        PROVE  /\ (sent \cup verified)' \subseteq WorkRequests
               /\ receipts' = receipts
    <3>1. [q EXCEPT !.live = FALSE] \in WorkRequests
      BY RequestParts DEF WorkInv
    <3> QED
      BY <2>3, <3>1 DEF Verify, Drop, GiveUp, WorkInv
  <2>4. ASSUME NEW q \in sent \cup verified, Serve(q)
        PROVE  /\ (sent \cup verified)' \subseteq WorkRequests
               /\ \A told \in receipts' \ receipts : StillTrue(told)'
    BY <1>2, <2>4, AnswersKeep
  <2> QED
    BY <2>1, <2>2, <2>3, <2>4 DEF WorkNext
<1> QED
  BY <1>2, <1>3, <1>4 DEF WorkInv

LEMMA WorkStarts == WorkInit => WorkInv
BY InitIInv DEF WorkInit, WorkInv

LEMMA WorkSafety == WorkSpec => []WorkInv
BY WorkStarts, WorkStep, PTL DEF WorkSpec

\* Whatever commands die, and however late requests are served, what a command
\* printed about a finished job stays true until the owner deletes the job.
THEOREM ReceiptsAreKept == WorkSpec => []ReceiptsStand
<1>1. WorkInv => ReceiptsStand
  BY DEF WorkInv, StillTrue, ReceiptsStand
<1> QED
  BY <1>1, WorkSafety, PTL

-----------------------------------------------------------------------------
(* Fencing.                                                                *)

\* A running lease is not ended as completed or expired.
RunsOn(j, e) ==
    /\ Active(j, e)
    /\ attempt[j][e].expires > now
    => attempt'[j][e].state \notin {"completed", "expired"}

LEMMA SweepRunsOn ==
  ASSUME NEW r \in Runners, NEW j \in Jobs, NEW e \in Epochs, IInv,
         Active(j, e), attempt[j][e].expires > now
  PROVE  SweptAttempts(r, now)[j][e] = attempt[j][e]
<1>1. attempt[j][e].expires \in Nat /\ now \in Nat
  BY IInvParts DEF AttemptsOK, AttemptRows, ControlOK
<1>2. ~Lapsed(r, j, e, now)
  BY <1>1 DEF Lapsed
<1> QED
  BY <1>2 DEF SweptAttempts

LEMMA EnvironmentRunsOn ==
  ASSUME IInv, Environment, NEW j \in Jobs, NEW e \in Epochs
  PROVE  RunsOn(j, e)
<1>1. attempt \in [Jobs -> [Epochs -> AttemptRows]]
  BY IInvParts DEF AttemptsOK
<1>2. CASE attempt' = attempt
  BY <1>2 DEF RunsOn, Active
<1>3. ASSUME NEW r \in Runners, Revoke(r) PROVE RunsOn(j, e)
  BY <1>3 DEF Revoke, RunsOn, Active, Ended
<1>4. ASSUME NEW r \in Runners, DeleteRunner(r) PROVE RunsOn(j, e)
  <2>1. attempt'[j] = attempt[j] \/ attempt'[j][e] = NoAttempt
    BY <1>4 DEF DeleteRunner, Cascade
  <2> QED
    BY <2>1 DEF RunsOn, Active, NoAttempt, Ended
<1>5. ASSUME NEW r \in Runners, NEW k \in Jobs, NEW f \in Epochs,
             Renew(r, k, f, now)
      PROVE  RunsOn(j, e)
  BY <1>1, <1>5 DEF Renew, RunsOn, Active, Lease
<1>6. ASSUME NEW r \in Runners, NEW k \in Jobs, NEW f \in Epochs,
             Abandon(r, k, f, now)
      PROVE  RunsOn(j, e)
  BY <1>1, <1>6 DEF Abandon, RunsOn, Active, Ended
<1> QED
  BY <1>2, <1>3, <1>4, <1>5, <1>6
  DEF Environment, LeaseTick, Tick, BeginCreateJob, CreateJob

LEMMA PollRunsOn ==
  ASSUME IInv, NEW q, ServedBy[q.by] \in Runners, ServePoll(q),
         NEW j \in Jobs, NEW e \in Epochs
  PROVE  RunsOn(j, e)
<1> DEFINE r == ServedBy[q.by]
<1> SUFFICES ASSUME Active(j, e), attempt[j][e].expires > now
             PROVE  attempt'[j][e].state \notin {"completed", "expired"}
  BY DEF RunsOn
<1>1. SweptAttempts(r, now)[j][e].state = "active"
  BY SweepRunsOn DEF Active
<1>2. CASE attempt' = attempt \/ attempt' = SweptAttempts(r, now)
  BY <1>1, <1>2 DEF Active
<1>3. ASSUME NEW k \in Jobs, PollGrant(r, k, now)
      PROVE  attempt'[j][e].state \notin {"completed", "expired"}
  <2> DEFINE as == SweptAttempts(r, now)
             epoch == SweptJobs(r, now)[k].used + 1
  <2>1. CASE attempt' = as
    BY <1>1, <2>1
  <2>2. CASE attempt' = [as EXCEPT ![k][epoch] = Lease(0, now, now + LeaseLength)]
    <3>1. /\ as = [i \in Jobs |-> as[i]]
          /\ \A i \in Jobs : as[i] = [f \in Epochs |-> as[i][f]]
      BY DEF SweptAttempts
    <3> HIDE DEF as, epoch
    <3>2. attempt'[j][e] = as[j][e] \/ attempt'[j][e] = Lease(0, now, now + LeaseLength)
      BY <2>2, <3>1
    <3> QED
      BY <1>1, <3>2 DEF Lease, as
  <2> QED
    BY <1>3, <2>1, <2>2 DEF PollGrant
<1> QED
  BY <1>2, <1>3 DEF ServePoll, PollRecover, PollTerminal, vars

LEMMA ResultsAreFenced ==
  ASSUME WorkInv, NEW q \in verified, ServeResult(q),
         NEW j \in Jobs, NEW e \in Epochs, ~RunsOn(j, e)
  PROVE  q.lease = Held(j, e)
<1> DEFINE r == ServedBy[q.by]
           k == q.lease.job
           f == q.lease.epoch
<1>1. /\ r \in Runners /\ k \in Jobs /\ f \in Epochs
      /\ q.lease = Held(k, f)
  BY RequestParts DEF WorkInv, ServeResult
<1>2. /\ Active(j, e) /\ attempt[j][e].expires > now
      /\ attempt'[j][e].state \in {"completed", "expired"}
  BY DEF RunsOn
<1>3. attempt'[j][e].state # attempt[j][e].state
  BY <1>2 DEF Active
<1>4. ~SweepLate(r, k, f, now)
  BY <1>1, <1>2, <1>3, SweepRunsOn DEF SweepLate, WorkInv
<1>5. ~UNCHANGED vars
  BY <1>3 DEF vars
<1>6. attempt' = [attempt EXCEPT ![k][f] = Ended("completed")]
  BY <1>4, <1>5 DEF ServeResult, RecordResult
<1>7. attempt \in [Jobs -> [Epochs -> AttemptRows]]
  BY IInvParts DEF AttemptsOK, WorkInv
<1>8. k = j /\ f = e
  <2> HIDE DEF k, f
  <2> QED
    BY <1>1, <1>3, <1>6, <1>7
<1> QED
  BY <1>1, <1>8

\* A lease that still runs is completed, or found expired, only by a report
\* made under it: a delayed report of an earlier lease changes nothing.
THEOREM DelayedReportsAreHarmless == WorkSpec => LeasesAreFenced
<1> DEFINE Fenced ==
        \A j \in Jobs, e \in Epochs :
           /\ Active(j, e)
           /\ attempt[j][e].expires > now
           /\ attempt'[j][e].state \in {"completed", "expired"}
           => \E q \in verified \ verified' : q.lease = Held(j, e)
<1>1. ASSUME WorkInv, [WorkNext]_allVars PROVE [Fenced]_allVars
  <2> SUFFICES ASSUME NEW j \in Jobs, NEW e \in Epochs, ~RunsOn(j, e)
               PROVE  \/ UNCHANGED allVars
                      \/ \E q \in verified \ verified' : q.lease = Held(j, e)
    BY DEF RunsOn
  <2>1. CASE UNCHANGED vars
    BY <2>1 DEF vars, RunsOn, Active
  <2>2. CASE Environment
    BY <1>1, <2>2, EnvironmentRunsOn DEF WorkInv
  <2>3. ASSUME NEW q \in sent \cup verified, ServePoll(q) PROVE FALSE
    BY <1>1, <2>3, PollRunsOn, RequestParts DEF WorkInv
  <2>4. ASSUME NEW q \in sent \cup verified, ServeResult(q)
        PROVE  \E o \in verified \ verified' : o.lease = Held(j, e)
    <3>1. q \in verified \ verified'
      BY <2>4 DEF ServeResult
    <3>2. q.lease = Held(j, e)
      BY <1>1, <2>4, <3>1, ResultsAreFenced
    <3> QED
      BY <3>1, <3>2
  <2> QED
    BY <1>1, <2>1, <2>2, <2>3, <2>4
    DEF WorkNext, Start, Verify, Drop, GiveUp, Serve
<1>2. WorkInv /\ [WorkNext]_allVars => [Fenced]_allVars
  BY <1>1
<1>3. WorkSpec => [][WorkNext]_allVars
  BY PTL DEF WorkSpec
<1> QED
  BY <1>2, <1>3, WorkSafety, PTL DEF LeasesAreFenced
=============================================================================
