# BuilderWars / AgentWars: TLA+ models of the control plane, its runners, the referee and the live arena

BuilderWars lets people pit programs ("entrants", driven by models of their
choice) against each other under a referee, and publishes matches that anyone
can replay. This directory models the parts of it whose correctness depends on
the order in which things happen, checks the models with TLC, and proves the
most important results with TLAPS for every value of the constants.

Five subsystems are modelled. The hosted control plane, `provider_hub_hosted/`,
is where accounts, browsers, customer-run programs ("runners"), a database and
the clock meet. The runner's command line, `bin/agentwars.py` over
`provider_hub/`, is the customer's end of it. The arena, `arena/`, is the
referee: it runs two entrant processes against each other, writes a
hash-chained transcript and can replay it. The live arena, `live-arena/`, plays
duels between two browsers and keeps games on a device. The lifecycle log of
`buildwars/` records what happens to a candidate. Paths below are relative to
the repository root; the rest of the repository is in the inventory.

## 1. Inventory

### 1.1 The hosted control plane (`provider_hub_hosted/`)

| Part | State | Operations | Talks to |
|---|---|---|---|
| `store.py`, jobs | tables `jobs`, `attempts`, `results`, `replay_projections` | `create_fixture_job`, `poll_job`, `renew_attempt`, `abandon_attempt`, `record_result` | runners, through signed requests; owners, through the gateway |
| `store.py`, pairing | tables `owners`, `pairing_challenges`, `runners` | `create_pairing_challenge`, `claim_pairing`, `confirm_pairing`, `revoke_runner`, `delete_runner`, `delete_owner` | owners; whoever holds a pairing secret |
| `verify.py` and `store.consume_nonce` | table `nonces` | `verify_signed_request`, `consume_nonce` | every runner request passes it before its store operation |
| `store.py`, idempotency | table `browser_idempotency`, nested transactions | `run_browser_mutation_idempotent`, `_transaction` | wraps every owner operation |
| `browser_gateway.py` | response keyring; rate-limit windows in memory | `dispatch`, `seal`, `open`, `check` | session provider, rate limiter, store |
| `handlers.py` | none | one method per route: schema check, signature, one store call | all of the above |
| `bin/agentwars.py`, `provider_hub/local_runner.py`, `runner_state.py`, `match_worker.py` (the customer's side) | encrypted key file, profile and lock file of a challenge; one request at a time | `runner pair`, `activate`, `forget`, `work` | the handlers, over HTTP with a timeout |

All threads share one SQLite connection behind an `RLock`; the outermost
`_transaction` is `BEGIN IMMEDIATE ... COMMIT`, nested ones are savepoints.
What is hard about it:

- **The clock is read before the lock.** Every operation reads its time first
  and may wait; its transaction then commits with a time that others have
  overtaken. The models of the store, the nonces, pairing, the gateway and the
  limiter let a call work with an older reading. `RunnerWork` is the exception:
  its question is what late requests and lost answers do, and its transactions
  read the present time. What stale readings do to leases is the matter of
  `MatchLease`. The two are kept apart because a poll may read a time at which
  a lapsed lease still runs, and would be answered with that lease again: for
  polls that are stale every time nothing would follow about progress.
- **Answers get lost.** A runner or a browser repeats a request whose answer it
  never saw; `poll_job`, `record_result`, `claim_pairing`, `confirm_pairing` and
  the gateway each have a way to recognise the repetition.
- **Work ends from two sides.** An owner revokes or deletes a runner while it
  polls, while a job is being created for it, or while a lease runs out.
- **Memory is limited on purpose.** Nonces, remembered answers and rate windows
  are purged by age, and what was forgotten must not matter any more.
- **One step of several fails, or the process dies** between them: on the server
  between the transaction of the nonce and that of the operation, on the
  customer's disk between the key file, the profile and the claim.

What makes the parts correct:

- jobs: jobs, attempts, results and replays agree; a runner has one lease; an
  attempt limit that is neither exceeded nor leaves a job in the queue; a
  lease is not lost early and not held for ever; a result is final.
- signed requests: accepted at most once, refused as a replay only if they are.
- pairing: one runner per confirmed challenge, one claim per challenge, no
  challenge that can be claimed in theory and not in practice, final decisions.
- idempotency: an operation and its remembered answer are one, run once per
  time to live, and are answered truthfully.
- runner command line: what it printed stays true, its reports touch no lease but
  their own, and a key the server has bound is not lost.
- rate limit: no more calls per window than the policy, and none charged to a
  window that is over.

### 1.2 The referee (`arena/`)

| Part | State | Operations | Talks to |
|---|---|---|---|
| `match.py` | position, turn, outcome; files and scratch directory of a match id | `run_match` | two entrants, a game, the transcript |
| `sandbox.py` | a process, a queue of lines behind a reader thread | `start`, `send`, `recv`, `ask`, `close` | the entrant's pipes |
| `transcript.py` | the file; `seq` and `prev` of the writer | `append`, `load`, `verify_chain` | the disk |
| `scoring.py` | none | `score` | the records |
| `replay.py` | recomputed position | `verify`, `replayable_forfeit_evidence` | the records and the game |
| `games/nim.py` | a position | `setup`, `legal`, `apply`, `terminal`, `move_bound`, `winning_moves` | |

What is hard about it: entrants are free processes, which answer late, twice,
never, or to something else, while the queue behind the reader thread keeps
every line; any operation of the referee may raise at any of its steps, and four
nested handlers decide what is then written; an append that raises may have
written; the files of a content-addressed match id outlive crashes and are
shared by every call with that id. What makes it correct: a match ends; what is
committed replays to the same verdict; nobody loses by a fault of the referee
or by what the other seat wrote; a failed match can be played again and a
committed one is not lost.

### 1.3 The live arena (`live-arena/`)

| Part | State | Operations | Talks to |
|---|---|---|---|
| `duel.ts` | the room of a browser: phase, record, readiness, generation, timers | `host`, `join`, `ready`, `receive`, `advance`, `close` | the opponent's room over a PeerJS channel; the owner's agent, `choose` |
| `device-storage.ts` | a map of saved games, its version, the drain under way, erasure flags | `open`, `setItem`, `removeItem`, `forgetLegacyMatches`, `flush`, `status` | the page; the checkpoint |
| `native-checkpoint.ts` | revision files and parts in the app's directory | `open`, `save`, prune | the file system |

What is hard about it: clicks, messages, timers and answers of an agent
interleave; what is under way when a room closes returns into the next room;
the two rooms learn of each other's steps late or never. Saving is
asynchronous, may fail at every file operation, and the app may be suspended or
killed at any time. What makes it correct: both sides keep one history, agents
(which cost money) are asked only in agreed duels, every duel ends; "saved" is
said of what is on the disk and of what was erased from it.

### 1.4 The lifecycle log (`buildwars/lifecycle.py`)

One append-only log of at most 64 events per build-off: draft, review, decision,
score, appeals, supersession, revocation, retirement, suppression. The state is
the fold of the log (`replay_lifecycle`); `append_lifecycle_event` accepts an event if the
log with it still folds. It is sequential; what is hard is that a long sequence
of events, each of them legal, must not reach a state nobody wants: a reviewer
who takes part in an appeal, a candidate in use against an upheld appeal, a log
too full to be closed.

### 1.5 The rest of the repository

| Component | State and behaviour | Why it is hard, what would be correct | Status |
|---|---|---|---|
| `provider_hub/` schemas, catalog, `pkce.py` | validation; one pending OAuth flow | mostly data; the PKCE flow can be finished once | not modelled |
| `arena/process_tree.py`, `isolation.py`, `admission.py` | process groups and job objects; checks before a match | custody of grandchildren is up to the operating system | not modelled |
| `arena/games/ten_fronts.py`, `fantasy_core.py` | game states: Ten Fronts, fantasy drafts | rules against a reference definition | not modelled: sequential rules, next in the plan |
| `arena/passport.py`, `agent_identity/` | signed documents and version lineage | data checks | not modelled (the key file is, in `RunnerProfile`) |
| `buildwars/contracts.py` | schemas, digests, a receipt computed from judgments | data checks | not modelled |
| `competitions/` | evidence job of a customer-local competition, prepared matches, balanced matrices | steps of one job across processes; each pair meets equally often on both sides | not modelled |
| `publishing/` | export, promotion, source decision, corrections, published product | single-threaded checks over documents; the chain of decisions and the corrections log | not modelled |
| `creator_sdk/` | interpreter of declarative games | bounded execution of candidate rules | not modelled |
| `entrants/`, `template/` | programs that play | outside of the referee | not modelled |
| `live-arena/` pages, games, learning, recordings | one page; rules; a check of a recording against the next | user interface and search; pure checks | not modelled |
| `mobile-arena/` | static reader of published data | | not modelled |
| `verify.py`, `bin/` | the verifier bundled from `arena/`, build and check scripts | generated, or single-purpose checks | not modelled |
| `experiments/`, `evaluations/`, `matches/`, `docs/`, `brand/`, `tests/` | data and documents | | not modelled |

## 2. Modules

| Module | Models | Composition |
|---|---|---|
| `MatchLease` | the job half of the store | `INSTANCE JobPromise` |
| `JobPromise` | what owners and runners are promised about a job | abstract |
| `MatchLeaseProofs` | theorems about `MatchLease` and `RunnerWork` | extends `RunnerWork`, `TLAPS` |
| `RequestNonce` | `verify_signed_request` and `consume_nonce` | |
| `RequestNonceProofs` | its theorems | extends `RequestNonce`, `TLAPS` |
| `Pairing` | challenges, claims, confirmations, the end of runners | |
| `RunnerWork` | `runner work` with verification, handlers and store, over a network | extends `MatchLease` |
| `RunnerProfile` | `runner pair`, `activate`, `forget` on the customer's disk, with the server | extends `Pairing` |
| `PairingProofs` | theorems about `Pairing` and `RunnerProfile` | extends `RunnerProfile`, `TLAPS` |
| `BrowserIdempotency` | `dispatch`, the idempotency transaction, the keyring | `INSTANCE AtomicMutations` |
| `AtomicMutations` | mutations that happen at once and are remembered | abstract |
| `BrowserIdempotencyProofs` | theorems about `BrowserIdempotency` | extends it, `TLAPS` |
| `RateWindow` | `InMemoryAccountRateLimiter.check` | |
| `Transcript` | records, `score`, `verify_chain`, `verify` | for any game |
| `MatchTurns` | one `run_match` with its entrants | extends `Transcript`; `INSTANCE Adjudication` |
| `Adjudication` | what a match promises | abstract |
| `ReplayPromise` | what a PASS of `verify` proves of any file | abstract; extends `Transcript` |
| `Nim` | the game `arena/games/nim.py` | the game of the instances of `MatchTurns` |
| `MatchFiles` | several calls of `run_match` over the files of one match id | |
| `MatchProofs` | theorems about `MatchTurns`, `MatchFiles` and `ReplayPromise` | extends all three, `TLAPS` |
| `RateWindowProofs` | its theorems | extends `RateWindow`, `TLAPS` |
| `DeviceStorage` | `DeviceStorage` over `NativeCheckpoint` over files | |
| `DuelRoom` | `DuelRoom` on both devices and the channels between them | |
| `DuelRoomProofs` | theorems about `DuelRoom` | extends it, `TLAPS` |
| `BuildLifecycle` | the lifecycle log | |
| `KeptRecordsProofs` | theorems about `BuildLifecycle` and `DeviceStorage` | extends both, `TLAPS` |
| `MC...` | small instances and symmetries for TLC | extend the module named |

An operator with the comment "Mutant" next to a definition is that definition
with a plausible bug; no specification uses it. Each property listed in
`PROJECT.json` is violated when the mutant named there takes the place of the
definition, which shows that the property can see the bug.

### 2.1 `MatchLease`

`runner`, `job`, `attempt`, `result`, `replay` are the tables, by id;
`creating` holds the runners that a `create_fixture_job` in flight has read as
active before its transaction. One action per transaction; `t` is the time the
call read, any instant up to `now`.

| Action | Code |
|---|---|
| `BeginCreateJob`, `CreateJob` | `create_fixture_job`: the read before, the check and insert inside the transaction |
| `PollRecover`, `PollGrant`, `PollTerminal` | `poll_job`, each with the sweep of `_expire_attempts` (`SweptJobs`, `SweptAttempts`) |
| `Renew`, `Abandon`, `RecordResult` | the method while the lease lives |
| `SweepLate` | the same three methods when the deadline has passed: the sweep commits, then `lease_expired` is raised |
| `Revoke`, `DeleteRunner`, `DeleteOwner` | the method and, through `Cascade`, the `ON DELETE CASCADE` chain of the schema |

A call that raises inside its transaction is rolled back and is a stuttering
step, so it has no action. Ids are drawn at random and are never reused.
Outputs are `expected` or `other`: the store compares the reported digest with
the one it computes itself, and nothing else of the payload matters here.
Of a running lease the model keeps what its row has: renewals, start and
deadline. Those of attempts that ended are never read again and are forgotten,
which is what makes the state space small. `LeaseTimeIsBounded` bounds the
deadline from the start, which no step may move while the lease runs; a bound
on the time that is left would allow a lease to be renewed without end.

`JobPromise` has seven steps on a job: submit, grant, release, regrant, finish,
withdraw, forget. `KeepsPromise` says that every transaction of the store is
one of these or none, under the mapping written in the `INSTANCE`. `Regrant`
is needed because one poll may sweep the lapsed lease of a job and grant a job
again in the same transaction.

### 2.2 `RequestNonce`

A thread goes through `Verify` (window, runner, signature), `Observe`
(`consume_nonce` reads the clock and checks the window again) and one
transaction, `Accept` or `Refuse`. Between them the clock moves, other threads
run, runners are revoked or deleted, and a deleted runner's key is paired
again as a new runner. Only requests that a runner signed are considered, with
any stamp up to `MaxTime`, delivered any number of times.

That no request is accepted twice depends on an inequality, which the module
assumes by name: `MaxAge + MaxFuture + MaxStall <= Retention`. In the code
these are 300 s, 60 s, an unbounded wait, and 900 s: the table keeps nonces
long enough for a thread that waits up to 540 s between its clock reading and
its transaction. SQLite's busy timeout of 10 s bounds the wait for the database
but the wait for the process's own lock is not bounded by the code; the bound is
an assumption of the model. The run uses the inequality with equality.

### 2.3 `Pairing`

A key stands for the whole claim made with it (the code compares a digest of
all its fields, and the fingerprint is a function of the key). `told` records
which keys the holder of a secret was told are pending. Claims with a wrong
secret (`ClaimWrong`), the right one (`ClaimFirst`), a retry (`ClaimAgain`) and
an overdue one (`ClaimTooLate`) are the branches of `claim_pairing`;
`ConfirmTooLate`, `Reject`, `Approve` are those of `confirm_pairing`. A retry
of a confirmation answers from the row and changes nothing. Through the browser
gateway the mark that an overdue confirmation leaves is rolled back together
with the idempotency row, since the operation raised an error; that is a
stuttering step of this model, so both callers are covered. `DecisionsStand`
says that confirmed, rejected and expired challenges keep their row until their
account is deleted, and that a locked one leaves its state only by expiring,
which is what an overdue confirmation does to it.

### 2.4 `BrowserIdempotency`

A *slot* is an account with an idempotency key, a *body* an operation with its
digest. `rows` and `writes` are what is on disk, `txn` the view of the one open
transaction. `Arrive` reads the clock; after any delay up to `MaxStall` the
call `Refuse`s, `Replay`s or `Start`s; a started call writes the two parts of
its domain operation, may roll a savepoint back (`RollbackNested`), seals its
answer and commits, or `Fail`s at any point. `Crash` loses the transaction and
all threads and brings the process back with any keyring. `Answer` opens the
response, `CannotOpen` is the 503 for a key that has left the ring.

`AtomicMutations` is the abstract promise: a mutation happens at once together
with the memory of its answer, memories may be lost, and an answer is only
ever given for a mutation that happened, to the request that made it.

### 2.5 `RateWindow`

`windows` is the dictionary of the limiter. A call reads the clock at `Arrive`
and reaches `Check` up to `MaxStall` later. Every check deletes windows that
began more than the longest policy window before its own. `StallAssumption`
names how late a call may be: no later than the common step of the window
starts. In the policy that step is 60 s (windows of 60 s and one of 300 s, of
`delete_owner`). The bound is tight: with windows of 2 and 4 instants, a stall of
3 lets the purge of a check in another window delete the window of
`delete_owner` that a late call still counts in. The class documents itself as
a local reference ("not a production perimeter"), and the counts are lost on
a restart, which is modelled and excluded from the property.

### 2.6 `Transcript`, `MatchTurns` and `ReplayPromise`

`Transcript` holds the records by kind, with the fields that the scorer and the
verifier read, and the two functions over them. A hash is what it commits to: a
line of the file holds its record and the number of lines its writer had
chained, so a chain is whole exactly when each line follows the one before it.
`Pass` is the loop of `verify` as a recursive function from the number of records
read to what the verifier then holds, `Replayed` its last value; `verify` is the
conjunction of its checks that depend on the records. The game is a parameter;
`GameAssumption` is the interface that `arena/games/__init__.py` asks of it.

`MatchTurns` is `run_match` by stages (`pc`). Each stage ends with one append or
one call that may raise, and the handler that catches it is the last argument of
`Record` and `Fault`: the handshake's own (`handshake_fault`), the one around
the play (`fault`), the one around the score (`score_fault`), or none
(`unwind`), in which case the `finally` block removes the files. A failed
append (`Lost`) may or may not leave its line.

| Action | Code |
|---|---|
| `Open`, `Greet`, `HearReady`, `HandshakeForfeit`, `HandshakeDiagnosis`, `HandshakeFault`, `OpeningState` | header, start, hello, ready or its failures, the opening position |
| `GameOver`, `BoundExceeded`, `Ask`, `Hear`, `MoveForfeit`, `Charge`, `Accept`, `Reject`, `RejectForfeit`, `Advance` | the branches of the play loop, in the order of their appends |
| `RefereeFault`, `PlayFault` | an exception inside the play and its handler |
| `Score`, `ScoreFault`, `Commit`, `Report`, `CloseEntrants`, `Sweep` | score, result record, goodbyes, `Entrant.close`, the rest of the `finally` block |
| `Answer`, `Blurt`, `Exit` | an entrant answers its oldest request, writes a line nobody asked for, or exits |
| `Crash` | the process of the referee dies |

The reader thread is part of the step that writes a line. `recv` takes the
oldest line of the queue whatever request it was written for; the history
variables `astray` (seats that broke the protocol or missed a deadline) and
`misread` (seats whose answer to another request was judged) are what
`GoodSeatIsNeverCharged` is about. A timeout is possible whenever no line is
queued, and when the entrant does not read what it is sent.

`HonestMatchesReplay` names its exceptions. Rulings on the clock or the process
and aborted matches are refused by `verify` on purpose, and the code says so.
The third, a score that fails after an illegal-move forfeit, is a void that
`verify` refuses because the forfeit is no longer next to the result; no
document says which of the two should hold.

`Adjudication` has four steps: play a legal move, win, default, annul.

`ReplayPromise` is the other side of replay. The docstring of `replay.py` says
what a PASS proves whoever wrote the file. `Lawful` says the same without the
pass, for each record by the records it stands on: a move by the position on the
table (`RightlyRuled`), a position by the accepted move it follows from
(`RightlyPlaced`), the winner by the last position and, if the match was
forfeited, by the rejected move before the forfeit (`Won`). Records are assumed to
be `WellFormed`. The module has no run: that `verify` keeps the promise is a
theorem about every sequence of lines (section 5).

### 2.7 `MatchFiles`

The entries `ID.jsonl`, `ID.diagnostics.jsonl` and `.scratch-ID` are modelled by
the call that created what is behind them. A call checks that all three are
free (`Preflight`), creates the first two exclusively, makes the scratch
directory, plays, and either commits or fails into the `finally` block, which
unlinks both names; every call removes the scratch directory. Each removal may
fail without stopping the others, and `keep_scratch` skips the last one. A call
may `Die`, which leaves the entries, and later calls are refused. Two histories:
`met` has the calls that overlapped with another one, `left` those whose cleanup
left an entry where it was.

`FailedMatchesCanBeRetried` is about all three entries: a free id needs each of
them gone. Whoever owns one of them is under way, has committed, has died, or is
in `left`. A call that failed and removed what it had does not occupy the id,
even if others removed and created the same names in between.

### 2.8 `Nim`

The functions of `nim.py` on positions as records, heaps counted from 1. The
heaps that the random generator may choose are a set, so `setup` is one, too.
`MCMatchTurns` plays matches of it and compares `winning_moves` and the layouts
with backward induction over every layout of its instance.

### 2.9 `RunnerWork`

The store's side is `MatchLease` as it stands. A command polls, computes the
fixture of the lease it is granted and reports; each request is a record in
`sent` until the server has consumed its nonce (`Verify`), then in `verified`
until the handler has called the store (`ServePoll`, `ServeResult`, which are
steps of `MatchLease`). `Drop` loses a request before, between or after the two
transactions; `GiveUp` is the command's timeout, after which the request may
still be served; a lost answer is a step that serves the request and ends its
command with nothing to say. `receipts` is what commands printed about finished jobs. Owners
and other programs that hold the runner's key act as in `MatchLease`.

A second delivery of one request ends at its nonce, which is what `RequestNonce`
is about, and is no step here.

### 2.10 `RunnerProfile`

The files of a challenge on the device (`keyFile`, `profile`, `lock`), the
commands that work on them, and `Pairing` as the server's side. The steps are
those between which a command can be killed: the exclusive creation of the key
file (`CreateKeyFile`), its content (`WriteKeyFile`; before it, the file is
`Torn`), the rename of the profile (`WriteProfile`), the claim (`SendClaim`,
`ServeClaim`), the mark of its answer (`Mark`). The lock is held up to the
claim and taken again for the mark; a process that dies lets it go (`Kill`).
Writing the profile may fail also after its rename: then the command removes the
key file it made and leaves a profile without a key, which `pair` refuses until
the owner forgets the challenge (`FailProfile`).
`Forget` removes the key, then the profile, and may stop in between. Other holders of
a secret claim with keys of their own. The composition is a specification
`DeviceSpec` whose steps on the server's tables are steps of `Pairing`.

### 2.11 `DeviceStorage`

`values` is the map in memory, `disk` the set of files with their revision,
content and the oldest revision that may stay (`purge`), `legacy` the old
localStorage. `drain` is the loop of `flush`: it captures the map, its version
and the erasure flag (`Capture`), writes and renames a part (`WritePart`,
`Promote`), removes the files that prune lists one by one (`RemoveFile`), and goes on
with the next round or settles its callers (`FinishSave`, `Settle`). Any file
operation may fail and the process may end at any step; `Open` is the next
process, which reads the newest file and prunes the others, or counts a failure
if it cannot list them. `acked`, `removed` and `erased` are histories of what the app was told.
A value is the number of the change that set it, so a change lost and a change
overwritten can be told apart.

### 2.12 `DuelRoom`

`room` is the state of each device's `DuelRoom`, `end` and `wire` are the two
ends of each channel and what is on its way, `calls` the moves under way with
the generation they captured. Every branch of `receive` is an action; a message
that no branch takes closes the room. `Close` loses any tail of what its side
had sent. A channel may stall and resume, a browser may vanish. Heartbeats are
not messages: `Silent` is enabled when the other end is gone or the channel is
stalled. The rules of the game are a table of whose turn it is and whether a
move ends the game.

### 2.13 `BuildLifecycle`

One action per type of event, enabled when `append_lifecycle_event` accepts it.
Every action goes through `AppendEvent`, the checks all events share: room in the
log with the slots reserved for closing it, the one creator, stewards apart
from creator and reviewer. `played` and `outcomes` are histories of who acted
and how appeals ended. Idempotency keys, sequence numbers and hashes identify
events; a repeated event leaves the log as it is. `MAX_EVENTS` is the code's 64.
The module is proved rather than run (section 5): its theorems hold for any
actors, entries and verdicts.

## 3. Runs

All bounds are constants of the modules (marked "bound" there) and are set in
the `.cfg` of the run.

| Run | Instance | Shows |
|---|---|---|
| `lease` | 2 runners of 2 accounts, 2 jobs, 2 attempts, 1 renewal, clock 0..2 | whatever order leases are granted, recovered, renewed, given back, swept, revoked and deleted in, with stale readings: `LeasedJobsHaveTheLastLease`, `OneLeasePerRunner`, `ResultsAgree`, `EndedRunnersHoldNoWork`, `LeaseTimeIsBounded`; refinement of `JobPromise` |
| `work` | `WorkSpec`: 1 command, 1 runner, 2 jobs, 2 attempts, 1 renewal, 1 late request, clock 0..8 | `ReceiptsStand`, `LeasesAreFenced`, and `QueuedWorkEnds`: no queued job is starved |
| `nonces` | 2 runners that share a key, one after another, 2 nonces, 2 threads, age 0, future and stall 1, `Retention` at its bound, clock past the retention | `AcceptedOnce`, `NoFalseReplays` |
| `pairing` | `DeviceSpec`: 1 account, 2 challenges of which a device with 2 commands claims one, 2 keys of the device and 1 other, 2 runners, 2 attempts, clock past one expiry, 1 late claim | the device keeps what the server bound: `ClaimedKeysAreKept`; `RunnersHaveOneChallenge`, `AcknowledgedKeysBind`, `PreparedChallengesCanBeClaimed`, `DecisionsStand` |
| `browser` | 2 slots, 2 bodies, 2 threads, 2 response keys of which the ring holds one, 3 executions, clock past one time to live | `AtomicExecutions`, `OncePerWindow`, refinement of `AtomicMutations` |
| `rate_window` | 1 account, limits 2 and 1, windows of 2 and 4, clock 0..7 | `LimitHolds`, `CountsAreExact` |
| `match` | `FairSpec`: Nim on heaps 1 and 2, 4 nameable moves, a bound of 2 moves, 1 fault, 1 unasked line per seat; the functions of Nim with up to 3 heaps of up to 4 | `HonestMatchesReplay`, `PassTellsTheMatch`, `ScorerAgrees`, `FaultNeverDecides`, `GoodSeatIsNeverCharged`, `NothingIsLeftBehind`, `LayoutsAreFair`, refinement of `Adjudication`, `MatchEnds` |
| `match_files` | 3 calls | `LoneResultsStay`, `FailedMatchesCanBeRetried` |
| `device` | 2 keys, 4 changes, 3 revisions, 2 failures or crashes | `AcknowledgedEditsSurvive`, `SavedMeansDurable`, `SavedMeansErased` |
| `duel` | `LiveSpec`: 2 devices, 2 rooms each, 3 plies | `ReplaysAgree`, `CallsAreAgreed`, `MessagesAreExpected`, `ClosedRoomsRest`, `StartedDuelsEnd` |
| `match_chain` (violated) | 1 fault | `ResultsAreRecomputable` fails, see section 4 |
| `match_files_race` (violated) | 2 calls | `WinnerKeepsItsFile` fails, see section 4 |

Why the bounds are enough to be interesting. Two jobs of two attempts let a
job return to the queue behind or before another, be granted again and be
exhausted, and a second grant race the first lease's late calls; a clock of
three instants holds a lease and its renewal, and a call that is late by both. In
the nonce run the clock runs past the retention, so nonces are purged. Two
commands and two keys of the device are what it takes for one command to
replace the key the other has claimed, and the second challenge lets another
holder of a secret claim with the same key. The clock of the browser run lets a
slot be freed and used again, and the third execution lets another slot's purge
free it; the clock of the rate run goes into the window whose checks delete the
first window of `delete_owner`.
A match on heaps 1 and 2 lasts two or three moves, either seat can win it, and
one of the four nameable moves is illegal at the start while the others become
illegal on the way; one fault at any step reaches each handler; one unasked line
is enough to shift every later answer of its seat by one. The real bound of Nim
is its number of objects, which a legal match cannot pass; the bound of 2 is
there for games whose bound is too small. Three calls let one run alone before
or after two that race. In the device run four changes are a value, its removal,
its return and a change of another key, and two faults fail a save and the
clean-up after the next one. Two rooms for each device let a guest come back with a
stale invitation, or while the host still holds its last channel; with three
plies each side moves and one moves twice in a row.

Deadlock is checked where the model cannot stop. In `MatchLease`, `RequestNonce`
and `Pairing`, and the modules that extend them, the accounts and runners may
all be deleted and the clock reach its bound: nothing is left to do, and the
check is off where the `.cfg` says so. `MatchTurns`, `MatchFiles` and `DuelRoom`
end: a match is over, all calls are, all rooms are closed; the changes of
`DeviceStorage` are used up. Symmetry is used for ids that are only compared for
equality, and never in a run of a temporal property other than an action
property or a refinement without fairness that treats all ids alike.

Fairness. Three specifications have any.

`WorkSpec`. The store does nothing by itself, so a job makes progress only when
its runner polls. Assumed is weak fairness of the clock, of each command being
started again, and of its timeout; and strong fairness of a poll being verified and of
its being served, so that of the polls sent again and again not all are lost.
Nothing is assumed of reports, of answers, of renewals or of the owner: a
command whose every report is lost exhausts its jobs one attempt after another,
and `QueuedWorkEnds` holds all the same. The clock stands still while no lease
runs; only differences of instants matter, and at most jobs x attempts x
(renewals + 1) lease lengths can pass, which is `MaxTime`, so the bound never
cuts a behaviour off.

`FairSpec` is weak fairness of the referee's own steps, and of nothing else: each
of its waits (`Queue.get`, `Thread.join`, `Process.wait`) has a deadline, so it
always has a step to take, if only to rule a timeout. Entrants may do nothing
for ever.

`LiveSpec` of `DuelRoom` is weak fairness of what is on its way over a channel
that is not stalled, of each room's timers, and of moves returning (`choose` has
a time limit for every request). The owners may do nothing, and channels may stall for ever.

## 4. Disagreements found

- **A failed append can break the chain of a committed match** (`match_chain`).
  `TranscriptWriter.append` (`arena/transcript.py:50-64`) writes and flushes the
  line before `os.fsync` and before it advances `seq` and `prev`. When the sync
  raises inside the play, `run_match` catches it, appends an `engine_error` with
  the same `seq`, and commits a result: the file holds two records of one
  number, and replay stops with `seq is 5, expected 6`. The head of the module
  says that a result "is the head of a chain that anyone can recompute from the
  file". `HonestMatchesReplay` and `PassTellsTheMatch` hold in spite of it:
  such a file never passes.
- **The loser of a creation race removes the winner's files**
  (`match_files_race`). The `finally` block unlinks both names when the call
  failed without a result (`arena/match.py:620-626`), also when it failed
  because another call had just created the file. The comment at
  `match.py:298-300` calls the exclusive opens "the race-safe authority", and
  `bin/check_arena_replay_safety.py:259-262` tests the writer alone for
  "creation race loser never touches the winner's bytes". `LoneResultsStay` is
  what remains: a match that never overlapped with another is safe.

Three more were met and have no run of their own.

- `device-storage.ts:77-78` says that the store never claims erasure when the
  clean-up of the old localStorage failed. The list of keys still to be removed is
  a set in memory: when the process ends between the save and the removal, the
  next one shows "saved" and the keys stay. `SavedMeansErased` is therefore
  stated of the checkpoint files.
- A `runner pair` that is killed between creating and writing the key file leaves
  a file that `pair` refuses to load or overwrite and that `forget` refuses to
  remove, as there is no profile (`agent_identity/keys.py:77`). Nothing but the
  challenge is lost.
- `mark_claim_accepted` does not compare the key of the profile: an answer that
  comes after `forget` and a new `pair` of the challenge marks a key the server
  never accepted. The mark is advisory; `AcceptedMarksAreEarned` is proved of
  challenges that were not forgotten.

## 5. Proofs

Theorems are proved for all values of the constants that satisfy the named
assumptions. In each proof module one lemma per action (or one step of the
proof) shows that the action preserves the inductive invariant `IInv` of the
component's module; the last step is `PTL`.

- `MatchLeaseProofs`. `Safety`: `Spec => []IInv`. The single invariants of the
  lease tables are not inductive: that a sweep leaves no leased job without a
  lease needs to know that the active attempt is the one of the last epoch; that
  a grant finds its epoch unused needs the contiguity of epochs; that a result
  can be recorded needs that earlier epochs have none; and that a queued job
  has budget needs all three. `IInv` is their conjunction with the types.
  `TypeCorrect`, `LeasesAgree`, `OneLease`, `ResultsCommitTogether` and
  `NoStrandedWork` are its conjuncts as theorems. `LeasesKeepThePromise` is the
  refinement of `JobPromise`: one lemma per transaction names the step of the
  promise it is for each job, under `IInv`. `LeaseTimes` adds to `IInv` that a lease
  ends at most (renewals used + 1) lease lengths after its start, wherever the
  reading of a renewal lies, and that no step moves the start (`StartsStay`). Assumed: `CountsAssumption`, `OwnersAssumption`.
  The same module has the theorems of the composition `RunnerWork`, whose steps
  are steps of the store or leave it alone (`WorkStepsAreLeaseSteps`), so `IInv`
  holds there too. `ReceiptsAreKept`: `WorkSpec => []ReceiptsStand` adds that a
  receipt is of a completed job with that result, or of a deleted one, and that a
  finished job changes only by deletion (`FinishedJobsStand`).
  `DelayedReportsAreHarmless`: `WorkSpec => LeasesAreFenced` goes through the
  transactions: a sweep at the present time leaves a running lease alone, and a
  result ends the lease it names. Neither uses the fairness of `WorkSpec`. Assumed
  in addition: `CommandsAssumption`.
- `RequestNonceProofs`. `NoReplay`: `Spec => []AcceptedOnce`. The invariant
  says of an accepted request that it is *spent*: its runner is gone, or the
  clock is past the last commit that could still see it in the window, or its
  nonce is in the table, observed no more than `MaxFuture` before its stamp. The
  purge keeps this true by `RetentionAssumption`. `RefusalsAreTrue`: `Spec =>
  []NoFalseReplays`, adds that one stored runner has a key and that each nonce row
  was written by an accepted request of the key its runner has (`KeysInv`).
- `PairingProofs`. `OneChallengePerRunner`, `OneClaimWins`, `ClaimsNeverJam`.
  The invariant adds that every challenge that names a runner names one that
  exists or existed with its owner and key, and that nobody was told of a claim
  before it was made. `DecisionsAreFinal` is the step property, from the same
  invariant, for locked challenges too: they can only expire. Assumed: `NoneAssumption`, `LimitsAssumption`.
  Of the composition with the device the module proves `DeviceImplementsPairing`:
  `DeviceSpec => Spec`, so all theorems of `Pairing` hold of it.
  `BoundKeysAreKept` and
  `AcceptedMarksAreEarned` follow from `DeviceInv`: whoever writes holds the lock
  (`CommandOK`), and a key that is being claimed, or that the server has bound, is
  in profile and key file until the challenge is forgotten (`SecretOK`). Only all
  of this together is inductive: a claim that is late must not bring a key the
  profile no longer has, and a command whose last step of writing the profile
  fails may leave a profile without its key, but only before any claim. Assumed in addition: `DeviceAssumption`.
- `BrowserIdempotencyProofs`. `ExecutionsAreAtomic`, `ExecutedOncePerWindow` and
  the refinement `MutationsKeepThePromise`, from `GatewayInv`. It adds that ids
  are given in order (`RunsKnown`), that nothing is written for an execution that
  has not started (`WritesKnown`), and what the open transaction sees: the disk
  without what is overdue at its reading, and the writes of its own execution
  (`ViewOf`), for a slot that was free (`SlotWasFree`). The commit is then a union
  with disjoint writes. Assumed: `LimitsAssumption`, `NoneAssumption`.
- `KeptRecordsProofs`, the lifecycle log. `ReviewersStandApart`, `NewUseIsEarned`,
  `RevocationsAreTrue`, `ClosingFits` and the step property
  `SubmittedEvidenceStands`, from `LifecycleSafety`: `Spec => []LifeInv`. The
  invariant says by stage who can have acted (`ActorsAreKnown`), what is bound
  (`EvidenceIsKnown`) and that the last outcome tells whether any appeal was
  upheld (`AppealsAreKnown`), since no appeal is opened after an upheld one.
- `RateWindowProofs`. `LimitIsKept` and `Counts`, from `RateSafety`: `Spec =>
  []RateInv`. A waiting call is at most `MaxStall` late (`CallsAreRecent`), so the
  window it asks for is still counted exactly; windows start at multiples of
  `Step` (`WindowsStartOnSteps`), so a window that a purge reaches ended at least
  a step before, which is no less than `MaxStall`. Assumed: `PolicyAssumption`,
  `StallAssumption`.
- `MatchProofs`, the match. `MatchInvariant`: `Spec => []TurnsInv`, for every game
  that meets `GameAssumption` (the constant `Positions` names a set of positions
  that legal moves do not leave, so that the game needs no other induction), any
  bound on its moves and any number of faults and unasked lines. The properties
  are not inductive because the referee decides in one step and records in
  another, and either may fail. `TurnsInv` relates the two by stage:
  `RulingsRecorded` says at which stages the position, a forfeit or a void is
  already on record and at which it is still to be written; `FaultsRecorded` that a
  fault that happened is on record as a void or its handler is still to run;
  `SeatsInStep` that a seat that keeps to the protocol has at most the answer to
  the last request in its queue. `FaultsNeverDecide`, `ScorerAgreement`,
  `GoodSeats` and `NothingLeft` follow. `MatchKeepsPromise` is the refinement of
  `Adjudication`: the published position is the last one on record
  (`BoardKnown`), so an accepted move is a step of the promise when its successor
  is recorded, not when it is made. Assumed: `MatchAssumption`, `GameAssumption`.
- `MatchProofs`, the replay. The verifier computes by recursion over the records.
  The library's induction rules take an operator and cannot be used, but its
  theorem on well-founded orders speaks of sets: of all the records at which a
  claim about the pass fails, there would be a first one (`LeastOf`). So
  `PassEquation` shows that the recursive function exists, `PassPrefix` that it
  depends on nothing but the records read, and `ReplayedNext` what one more record
  does. `ReplayInvariant`: `Spec => []ReplayInv`, on top of `TurnsInv`. Whether a
  file passes is decided at its end, so `Recomputed` says for every stage what
  the verifier would hold there: the position of the referee; or, between
  accepting a move and recording its successor, the position that is to come; or
  such a position in a match that is about to be voided (`Unplaced`).
  `EvidenceRecorded` keeps a forfeit behind the rejected move that it is for;
  `Concluded` the result at what the score makes of the records before it;
  `FileKnown` relates the file to the records: the same, one line more that was not
  acknowledged, or broken, and the last two only after a fault. `HonestReplay`
  and `PassIsTrue` follow, and `FaultlessResults`: the disagreement that
  `match_chain` shows needs a fault. Assumed: `MatchAssumption`, `GameAssumption`.
- `MatchProofs`, the verifier and any file. `Told` says of the verifier and the
  records it has read without a refusal that all of them are as the rules have it
  and that what it holds is the position on the table, or the one that the last
  accepted move leads to, or nothing yet. `StateTold`, `MoveTold` and `OtherTold`
  keep it, and no record takes a refusal back (`RecordRead`); `PassTold` is the
  induction. `PassProves` is the docstring of `replay.py` for any file: the result
  follows from the last position, or from the rejected move before the forfeit.
  Conversely a record that is rightly ruled or placed is not refused
  (`RightMove`, `RightState`), so `PassIsExact`: the three values that the pass
  carries from record to record are all that the rules depend on. With
  `ReplayInvariant` it says of the referee that its records are a lawful game at
  every step, also where a match is cut short, aborted or voided
  (`TranscriptsAreLawful`). Assumed:
  `GameAssumption`, and `MatchAssumption` for `Nobody` being no seat.
- `MatchProofs`, the files. `FilesSafety`: `FilesSpec => []FilesInv`; `LoneResults`
  and `Retries` follow. That a lone result keeps its files needs the history of
  overlaps to be exact (`OverlapsAreKnown`), and that a call that met no other
  is alone under way while its transcript is there (`LoneRunsOwnTheirFiles`):
  whoever comes later finds the entry and is refused before its `try` block.
  `FailedRunsOwnNothing` follows a failed call through its cleanup, entry by
  entry, with the removals that failed. Assumed:
  `FilesAssumption`.
- `KeptRecordsProofs`, the device storage. `StorageInvariant`: `StorageSpec =>
  [](StorageTypeOK /\ StorageInv)`; `EditsSurvive`, `SavedIsDurable` and
  `SavedIsErased` follow. A flush may join a drain that took its copy before the
  change, so `Survives` says of every caller that waits, and of what was
  confirmed, that memory, copy and disk *follow* it: each key has that value, a
  later one, or was removed later; the copy only if it was taken late enough, the
  disk once the save that covers it is done. `Capturing` bounds what the copy may
  lack, `StoreKnowsLatest` ties the checkpoint to the newest file whatever failed
  before. `Erasures` says where a removed value can still be: in files that the
  purge of the latest one covers, or in the latest one itself while a save that
  erases is due; `Pruned` that what the purge covers is gone, listed for removal,
  or counted as a failure, which keeps the page from saying "saved". Assumed:
  `BoundsAssumption`.
- `DuelRoomProofs`. `DuelInvariant`: `Spec => [](DuelTypeOK /\ Duels /\ CallsInv /\
  AskedInv)`, for any guests, any number of rooms that they open, any length of a
  duel and any assignment of plies to seats. What the properties say of two
  rooms is not inductive, because either side acts on what it last heard.
  The invariant therefore follows every message from the step that sends it:
  `Ends` says who holds which end of a channel, so that an end that closes
  concerns one room; `Flags` what the fields of one room say of each other
  (a room plays only if both owners pressed Ready); `Wires` which message may come
  first on a wire in the present state of the receiver, and which may follow which,
  so that each message is expected when it arrives although it was sent earlier;
  `Readiness` that no side is ahead of what it was told. `Histories` relates the
  records: one goes on from the other by moves of one seat, every record on its way
  is a beginning of its sender's, and the last one on the wire is the sender's own,
  which is how a move closes the gap when it is taken. `CallsInv` ties a run of
  `move()` that is still current to the position it was called for; `AskedInv` says
  of every ply asked for that its answer is in the record, is awaited by such a
  run, or can no longer come since the channel has ended, so no ply is asked for
  twice. `ReplayAgreement`, `CallsAgreed` and `MessagesExpected` follow.
  `RoomsRest` is the step property, from the same invariant: only an open room
  receives, and only an open room's agent is asked. None of this needs the fairness of
  `LiveSpec`. Assumed: `DuelAssumption`.

Model-checked only. `LayoutsAreFair`: `Nim` uses the bitwise operators, which the prover does not
know, and recursion over positions. Liveness (`QueuedWorkEnds`,
`MatchEnds`, `StartedDuelsEnd`) is beyond the prover's temporal reasoning here.

## 6. What is left out of the modelled parts

- Signatures, digests, AES-GCM and token formats: they are perfect; ids and
  tokens drawn at random are never drawn twice, so the loops that draw again
  after a collision run once.
- Schema validation of payloads, and everything it rejects: such calls change
  nothing.
- Several processes on one database file: the code has one connection behind
  one lock; the models have one process.
- The handlers other than poll, result and claim_pairing: each makes one store
  call, which the models of the store have.
- On the customer's side: commands that change nothing (`list`, `probe`,
  `request`) and those for prepared matches, which hand over to the arena.
- A runner's key in the hands of several machines: the lock file is one device's.
- A clock that runs backwards.
- In the match: what a request shows of the position and what a goodbye says;
  the caps on an entrant's output, whose breach ends like a malformed line;
  a process that the operating system cannot kill. A partly written line counts
  as a line that breaks the chain.
- In the cleanup of a match: `MatchTurns` lets every close and unlink succeed, so
  `NothingIsLeftBehind` is about a working file system; removals that fail, and
  `keep_scratch`, are steps of `MatchFiles`. An interrupt between the append of the
  result and the assignment of `result_committed` has no action of its own: it
  ends like an append that fails after writing its line, which is a step.
- In duels: the moves and their clocks; the signalling server, which is an action
  that succeeds; a guest's second connection within one room.
- On the device: several windows of one app; the content of a saved game.
- In the lifecycle log: documents, which are what their digests say, and
  timestamps, which only have to be non-decreasing.
- In replay: the header's engine digest, isolation profile, attestation and
  passports, which are checks of one document; records that are no JSON objects or
  lack fields, on which the pass fails or raises and the verdict is FAIL either way.

## 7. What could come next

In the order of what it would add:

1. Ten Fronts and the fantasy drafts as functions checked against reference
   definitions over bounded boards.
2. `competitions/evidence_job.py` and the promotion chain of `publishing/`: long,
   sequential checks over documents, most of which change no state; the
   corrections log is the part that does.
