-------------------------------- MODULE Pairing --------------------------------
(***************************************************************************)
(* Pairing of runners with accounts: the tables owners, pairing_challenges *)
(* and runners of HostedControlPlaneStore (provider_hub_hosted/store.py).  *)
(*                                                                         *)
(* An owner creates a challenge; whoever holds its one-time secret claims  *)
(* it with a public key, perhaps on many threads and with many keys; the   *)
(* owner then approves or rejects the fingerprint that was claimed.  Every *)
(* operation is one transaction, but it reads the clock before it takes    *)
(* the store's lock: the time t it works with may be any earlier instant.  *)
(***************************************************************************)
EXTENDS Integers

CONSTANTS
    Owners,      \* accounts
    Challenges,  \* challenge ids: random, never drawn twice
    Runners,     \* runner ids: random, never drawn twice
    Keys,        \* public keys (a key stands for the whole claim made with it)
    None,        \* the NULL of a column
    MaxClaims,   \* PAIRING_MAX_CLAIM_ATTEMPTS
    Ttl,         \* PAIRING_TTL_SECONDS
    MaxTime      \* bound: the last instant of the clock

ASSUME NoneAssumption == None \notin Owners \cup Runners \cup Keys

ASSUME LimitsAssumption ==
    /\ MaxClaims \in Nat \ {0}
    /\ Ttl \in Nat
    /\ MaxTime \in Nat

VARIABLES
    now,        \* the clock of the store
    owners,     \* table owners
    challenge,  \* table pairing_challenges
    runner,     \* table runners
    told        \* history: the keys the holders of a secret were told they bound

vars == <<now, owners, challenge, runner, told>>

Open == {"prepared", "claimed"}
Decided == {"confirmed", "rejected"}
InTable == Open \cup Decided \cup {"expired", "locked"}
Stored == {"active", "revoked"}

\* A row of pairing_challenges; secret says whether secret_sha256 is set.
ChallengeRow(state, owner, expires) ==
    [state |-> state, owner |-> owner, expires |-> expires, tries |-> 0,
     secret |-> state = "prepared", key |-> None, runner |-> None]
NoChallenge(state) == ChallengeRow(state, None, 0)

RunnerRow(state, owner, key) == [state |-> state, owner |-> owner, key |-> key]
NoRunner(state) == RunnerRow(state, None, None)

Init ==
    /\ now = 0
    /\ owners = {}
    /\ challenge = [c \in Challenges |-> NoChallenge("absent")]
    /\ runner = [r \in Runners |-> NoRunner("absent")]
    /\ told = [c \in Challenges |-> {}]

-----------------------------------------------------------------------------
(* Challenges.                                                             *)

CreateChallenge(o, c, t) ==
    /\ challenge[c].state = "absent"
    /\ owners' = owners \cup {o}
    /\ challenge' = [challenge EXCEPT ![c] = ChallengeRow("prepared", o, t + Ttl)]
    /\ UNCHANGED <<now, runner, told>>

Overdue(c, t) == challenge[c].expires <= t

\* A challenge leaves the open states: the digest of its secret is erased.
Close(c, state, r) ==
    challenge' = [challenge EXCEPT ![c].state = state, ![c].secret = FALSE,
                                   ![c].runner = r]

-----------------------------------------------------------------------------
(* claim_pairing.                                                          *)

\* Mutant: the expiry does not spare decided challenges.
ClaimTooLateAny(c, t) ==
    /\ challenge[c].state \in InTable
    /\ Overdue(c, t)
    /\ Close(c, "expired", None)
    /\ UNCHANGED <<now, owners, runner, told>>

\* An expired challenge is marked, and the refusal is raised after the commit.
ClaimTooLate(c, t) ==
    /\ challenge[c].state \in Open
    /\ Overdue(c, t)
    /\ Close(c, "expired", None)
    /\ UNCHANGED <<now, owners, runner, told>>

\* Mutant: the attempt count is compared with > instead of >=.
ClaimWrongOffByOne(c, t) ==
    LET tries == challenge[c].tries + 1
    IN /\ challenge[c].state = "prepared"
       /\ ~Overdue(c, t)
       /\ challenge' = [challenge EXCEPT
              ![c].tries = tries,
              ![c].state = IF tries > MaxClaims THEN "locked" ELSE @,
              ![c].secret = tries <= MaxClaims]
       /\ UNCHANGED <<now, owners, runner, told>>

\* A wrong secret is counted, and the last one that is allowed locks.
ClaimWrong(c, t) ==
    LET tries == challenge[c].tries + 1
    IN /\ challenge[c].state = "prepared"
       /\ ~Overdue(c, t)
       /\ challenge' = [challenge EXCEPT
              ![c].tries = tries,
              ![c].state = IF tries >= MaxClaims THEN "locked" ELSE @,
              ![c].secret = tries < MaxClaims]
       /\ UNCHANGED <<now, owners, runner, told>>

\* Mutant: a claimed challenge can be claimed anew with another key.
ClaimLast(c, k, t) ==
    /\ challenge[c].state \in Open
    /\ ~Overdue(c, t)
    /\ challenge' = [challenge EXCEPT
           ![c].state = "claimed", ![c].tries = MaxClaims, ![c].key = k]
    /\ told' = [told EXCEPT ![c] = @ \cup {k}]
    /\ UNCHANGED <<now, owners, runner>>

\* The first claim with the right secret binds its key.
ClaimFirst(c, k, t) ==
    /\ challenge[c].state = "prepared"
    /\ ~Overdue(c, t)
    /\ challenge' = [challenge EXCEPT
           ![c].state = "claimed", ![c].tries = @ + 1, ![c].key = k]
    /\ told' = [told EXCEPT ![c] = @ \cup {k}]
    /\ UNCHANGED <<now, owners, runner>>

\* A retry of the same claim is acknowledged again; any other is a conflict.
ClaimAgain(c, k, t) ==
    /\ challenge[c].state = "claimed"
    /\ ~Overdue(c, t)
    /\ challenge[c].secret
    /\ challenge[c].key = k
    /\ told' = [told EXCEPT ![c] = @ \cup {k}]
    /\ UNCHANGED <<now, owners, challenge, runner>>

-----------------------------------------------------------------------------
(* confirm_pairing, by the owner of the challenge.  A confirmation of a     *)
(* decided challenge repeats the decision and changes nothing.  Through the *)
(* browser gateway the refusal of an overdue challenge rolls its mark back, *)
(* which is a step that changes nothing, too.                               *)

ConfirmTooLate(c, t) ==
    /\ challenge[c].state \in InTable \ Decided
    /\ Overdue(c, t)
    /\ Close(c, "expired", None)
    /\ UNCHANGED <<now, owners, runner, told>>

Reject(c, t) ==
    /\ challenge[c].state = "claimed"
    /\ ~Overdue(c, t)
    /\ Close(c, "rejected", None)
    /\ UNCHANGED <<now, owners, runner, told>>

\* Mutant: the challenge does not remember its runner.
ApproveUnlinked(c, r, t) ==
    /\ challenge[c].state = "claimed"
    /\ ~Overdue(c, t)
    /\ \A s \in Runners :
           runner[s].state \in Stored => runner[s].key # challenge[c].key
    /\ runner[r].state = "absent"
    /\ runner' = [runner EXCEPT
           ![r] = RunnerRow("active", challenge[c].owner, challenge[c].key)]
    /\ Close(c, "confirmed", None)
    /\ UNCHANGED <<now, owners, told>>

\* The public key and the fingerprint of runners are UNIQUE, revoked rows
\* included; an approval of a key that is taken is rolled back.
Approve(c, r, t) ==
    /\ challenge[c].state = "claimed"
    /\ ~Overdue(c, t)
    /\ \A s \in Runners :
           runner[s].state \in Stored => runner[s].key # challenge[c].key
    /\ runner[r].state = "absent"
    /\ runner' = [runner EXCEPT
           ![r] = RunnerRow("active", challenge[c].owner, challenge[c].key)]
    /\ Close(c, "confirmed", r)
    /\ UNCHANGED <<now, owners, told>>

-----------------------------------------------------------------------------
(* The end of runners and accounts.                                        *)

RevokeRunner(r) ==
    /\ runner[r].state = "active"
    /\ runner' = [runner EXCEPT ![r].state = "revoked"]
    /\ UNCHANGED <<now, owners, challenge, told>>

\* runner_id of a challenge is no foreign key: the challenge stays confirmed.
DeleteRunner(r) ==
    /\ runner[r].state \in Stored
    /\ runner' = [runner EXCEPT ![r] = NoRunner("deleted")]
    /\ UNCHANGED <<now, owners, challenge, told>>

\* The foreign keys of the account cascade to its challenges and runners.
DeleteOwner(o) ==
    /\ o \in owners
    /\ owners' = owners \ {o}
    /\ challenge' = [c \in Challenges |->
           IF challenge[c].owner = o THEN NoChallenge("deleted") ELSE challenge[c]]
    /\ runner' = [r \in Runners |->
           IF runner[r].owner = o THEN NoRunner("deleted") ELSE runner[r]]
    /\ UNCHANGED <<now, told>>

Tick ==
    /\ now < MaxTime
    /\ now' = now + 1
    /\ UNCHANGED <<owners, challenge, runner, told>>

ChallengeStep(c, t) ==
    \/ \E o \in Owners : CreateChallenge(o, c, t)
    \/ ClaimTooLate(c, t)
    \/ ClaimWrong(c, t)
    \/ \E k \in Keys : ClaimFirst(c, k, t) \/ ClaimAgain(c, k, t)
    \/ ConfirmTooLate(c, t)
    \/ Reject(c, t)
    \/ \E r \in Runners : Approve(c, r, t)

Next ==
    \/ Tick
    \/ \E c \in Challenges, t \in 0..now : ChallengeStep(c, t)
    \/ \E r \in Runners : RevokeRunner(r) \/ DeleteRunner(r)
    \/ \E o \in Owners : DeleteOwner(o)

Spec == Init /\ [][Next]_vars

-----------------------------------------------------------------------------
(* What pairing guarantees.                                                *)

\* The types of the columns, and the foreign keys to owners.
TypeOK ==
    /\ now \in 0..MaxTime
    /\ owners \in SUBSET Owners
    /\ challenge \in [Challenges ->
           [state : InTable \cup {"absent", "deleted"},
            owner : Owners \cup {None},
            expires : Nat, tries : 0..MaxClaims, secret : BOOLEAN,
            key : Keys \cup {None}, runner : Runners \cup {None}]]
    /\ runner \in [Runners ->
           [state : Stored \cup {"absent", "deleted"},
            owner : Owners \cup {None}, key : Keys \cup {None}]]
    /\ told \in [Challenges -> SUBSET Keys]
    /\ \A c \in Challenges :
           IF challenge[c].state \in InTable THEN challenge[c].owner \in owners
                                             ELSE challenge[c].owner = None
    /\ \A r \in Runners :
           IF runner[r].state \in Stored THEN runner[r].owner \in owners
                                         ELSE runner[r].owner = None

\* A runner exists by exactly one challenge: one that its owner confirmed, for
\* the key that was claimed.  No challenge pairs two runners, whatever claims,
\* confirmations, expiry and deletions race, and no account holds a runner
\* that another account approved.
RunnersHaveOneChallenge ==
    \A r \in Runners : runner[r].state \in Stored =>
        \E c \in Challenges :
            /\ challenge[c].state = "confirmed"
            /\ challenge[c].owner = runner[r].owner
            /\ challenge[c].key = runner[r].key
            /\ \A d \in Challenges : challenge[d].runner = r <=> d = c

\* A claim has one winner: all holders of a secret that were told their key is
\* bound hold the same key, and while the challenge is there it is the key the
\* owner decides on.
AcknowledgedKeysBind ==
    \A c \in Challenges : \A k \in told[c] :
        /\ told[c] = {k}
        /\ challenge[c].state # "deleted" => challenge[c].key = k

\* Wrong guesses never leave a challenge that is neither locked nor claimable
\* (the CHECK on claim_attempt_count would refuse the right claim), and the
\* secret is stored exactly while it can still be used.
PreparedChallengesCanBeClaimed ==
    \A c \in Challenges :
        /\ challenge[c].state = "prepared" => challenge[c].tries < MaxClaims
        /\ challenge[c].secret <=> challenge[c].state \in Open

\* A confirmation, a rejection and an expiry are final: no late claim, stale
\* clock or repeated confirmation changes such a row again; it can only go with
\* its account.  A challenge that wrong guesses have locked is not claimed or
\* decided any more: a confirmation that comes too late may find it expired.
DecisionsStand ==
    [][\A c \in Challenges :
           challenge[c].state \in Decided \cup {"expired", "locked"} =>
               \/ challenge'[c] = challenge[c]
               \/ challenge[c].state = "locked" /\ challenge'[c].state = "expired"
               \/ challenge'[c].state = "deleted"
                  /\ challenge[c].owner \notin owners']_vars

\* The inductive invariant behind these: only a confirmed challenge
\* names a runner, one that was paired, and nobody was told anything about a
\* challenge that is not claimed yet.
ChallengesNameRealRunners ==
    \A c \in Challenges : challenge[c].runner \in Runners =>
        /\ challenge[c].state = "confirmed"
        /\ runner[challenge[c].runner].state # "absent"
NobodyToldBeforeTheClaim ==
    \A c \in Challenges :
        challenge[c].state \in {"absent", "prepared"} => told[c] = {}

IInv ==
    /\ TypeOK
    /\ RunnersHaveOneChallenge
    /\ AcknowledgedKeysBind
    /\ PreparedChallengesCanBeClaimed
    /\ ChallengesNameRealRunners
    /\ NobodyToldBeforeTheClaim
=============================================================================
