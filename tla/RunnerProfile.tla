---------------------------- MODULE RunnerProfile ----------------------------
(***************************************************************************)
(* Both ends of pairing: the commands `agentwars runner pair', `activate'  *)
(* and `forget' (bin/agentwars.py) over the customer's state directory     *)
(* (provider_hub/runner_state.py), and the hosted store of Pairing.        *)
(*                                                                         *)
(* For each challenge the directory has a file with the encrypted private  *)
(* key and a profile.  `pair' makes or finds them under the lock of the    *)
(* directory, claims the challenge over HTTP without the lock, and notes   *)
(* the answer under the lock again.  Commands may overlap and be killed at *)
(* any step; writing and removing files may fail; a claim may be lost, and *)
(* served after its command has given up.                                  *)
(***************************************************************************)
EXTENDS Pairing, FiniteSets

CONSTANTS
    Commands,  \* processes of the command line, run again and again
    Secrets,   \* the challenges whose secret the customer has
    OwnKeys,   \* the key pairs generate_private_key will draw, each once
    Torn,      \* what a key file holds until it is written
    MaxLate    \* bound: claims on their way whose command has given up

ASSUME DeviceAssumption ==
    /\ Secrets \subseteq Challenges
    /\ OwnKeys \subseteq Keys
    /\ Torn \notin Keys \cup {None}
    /\ None \notin Commands
    /\ MaxLate \in Nat

VARIABLES
    keyFile,  \* key-<challenge>.pem: the key in it
    profile,  \* profile-<challenge>.json
    lock,     \* the command that holds .state.lock
    cmd,      \* what each command does
    sent,     \* claims on their way to the server
    drawn,    \* keys generated so far
    forgot    \* history: challenges that `forget' was run for

device == <<keyFile, profile, lock, cmd, sent, drawn, forgot>>
allVars == <<vars, device>>

\* The fields localState, serverClaimStatus and runnerId of a profile.
Profile(key, state, status, r) ==
    [key |-> key, state |-> state, status |-> status, runner |-> r]
NoProfile == Profile(None, "missing", "none", None)

Command(pc, c, k, status) == [pc |-> pc, c |-> c, key |-> k, status |-> status]
Idle == Command("idle", None, None, "none")

\* A claim; it is live while its command waits for the answer.
Claim(p, live) == [by |-> p, c |-> cmd[p].c, key |-> cmd[p].key, live |-> live]

DeviceInit ==
    /\ Init
    /\ keyFile = [c \in Secrets |-> None]
    /\ profile = [c \in Secrets |-> NoProfile]
    /\ lock = None
    /\ cmd = [p \in Commands |-> Idle]
    /\ sent = {}
    /\ drawn = {}
    /\ forgot = {}

Unlocked(p) == IF lock = p THEN None ELSE lock
Exists(c) == profile[c] # NoProfile

\* The command ends, with a message or an error, and lets the lock go.
Ends(p) ==
    /\ cmd' = [cmd EXCEPT ![p] = Idle]
    /\ lock' = Unlocked(p)

GoesOn(p, pc, k) == cmd' = [cmd EXCEPT ![p].pc = pc, ![p].key = k]

-----------------------------------------------------------------------------
(* `pair': prepare.                                                        *)

\* Mutant: prepare does not take the lock.
PrepareUnlocked(p, c) ==
    /\ cmd[p] = Idle
    /\ cmd' = [cmd EXCEPT ![p] = Command("prepare", c, None, "none")]
    /\ UNCHANGED <<vars, keyFile, profile, lock, sent, drawn, forgot>>

\* Whoever finds the lock taken gives up, which changes nothing.
Prepare(p, c) ==
    /\ cmd[p] = Idle
    /\ lock = None
    /\ lock' = p
    /\ cmd' = [cmd EXCEPT ![p] = Command("prepare", c, None, "none")]
    /\ UNCHANGED <<vars, keyFile, profile, sent, drawn, forgot>>

\* A profile is there: it must belong to the key file, and is used as it is.
ReuseProfile(p) ==
    LET c == cmd[p].c
    IN /\ cmd[p].pc = "prepare"
       /\ Exists(c) /\ keyFile[c] = profile[c].key
       /\ GoesOn(p, "claim", keyFile[c])
       /\ lock' = Unlocked(p)
       /\ UNCHANGED <<vars, keyFile, profile, sent, drawn, forgot>>

\* Another candidate, a wrong passphrase, a key file that is torn or missing.
RefusePrepare(p) ==
    /\ cmd[p].pc = "prepare"
    /\ Exists(cmd[p].c) \/ keyFile[cmd[p].c] # None
    /\ Ends(p)
    /\ UNCHANGED <<vars, keyFile, profile, sent, drawn, forgot>>

\* A key file without a profile, from a command that was killed in between.
ReuseKey(p) ==
    LET c == cmd[p].c
    IN /\ cmd[p].pc = "prepare"
       /\ ~Exists(c) /\ keyFile[c] \in Keys
       /\ GoesOn(p, "reused", keyFile[c])
       /\ UNCHANGED <<vars, keyFile, profile, lock, sent, drawn, forgot>>

\* save_private_key_encrypted: the file is created exclusively...
CreateKeyFile(p) ==
    LET c == cmd[p].c
    IN /\ cmd[p].pc = "prepare"
       /\ ~Exists(c) /\ keyFile[c] = None
       /\ \E k \in OwnKeys \ drawn :
              /\ drawn' = drawn \cup {k}
              /\ GoesOn(p, "write key", k)
       /\ keyFile' = [keyFile EXCEPT ![c] = Torn]
       /\ UNCHANGED <<vars, profile, lock, sent, forgot>>

\* ...and then written, or removed again.
WriteKeyFile(p) ==
    /\ cmd[p].pc = "write key"
    /\ \/ /\ keyFile' = [keyFile EXCEPT ![cmd[p].c] = cmd[p].key]
          /\ GoesOn(p, "created", cmd[p].key)
          /\ UNCHANGED lock
       \/ /\ keyFile' \in {keyFile, [keyFile EXCEPT ![cmd[p].c] = None]}
          /\ Ends(p)
    /\ UNCHANGED <<vars, profile, sent, drawn, forgot>>

\* The profile is written beside its place and renamed, never over another.
WriteProfile(p) ==
    LET c == cmd[p].c
    IN /\ cmd[p].pc \in {"created", "reused"}
       /\ ~Exists(c)
       /\ profile' = [profile EXCEPT
              ![c] = Profile(cmd[p].key, "prepared", "not_confirmed", None)]
       /\ GoesOn(p, "claim", cmd[p].key)
       /\ lock' = Unlocked(p)
       /\ UNCHANGED <<vars, keyFile, sent, drawn, forgot>>

\* It could not be, or what follows the rename raised: a key this command created
\* goes too, if it can, and may leave a profile behind that has no key.
FailProfile(p) ==
    LET c == cmd[p].c
    IN /\ cmd[p].pc \in {"created", "reused"}
       /\ profile' \in {profile, [profile EXCEPT
              ![c] = Profile(cmd[p].key, "prepared", "not_confirmed", None)]}
       /\ \/ UNCHANGED keyFile
          \/ /\ cmd[p].pc = "created"
             /\ keyFile' = [keyFile EXCEPT ![c] = None]
       /\ Ends(p)
       /\ UNCHANGED <<vars, sent, drawn, forgot>>

-----------------------------------------------------------------------------
(* `pair': the claim, and mark_claim_accepted.                             *)

SendClaim(p) ==
    /\ cmd[p].pc = "claim"
    /\ sent' = sent \cup {Claim(p, TRUE)}
    /\ GoesOn(p, "await", cmd[p].key)
    /\ UNCHANGED <<vars, keyFile, profile, lock, drawn, forgot>>

\* An answer may reach the command that waits for it.
Answered(q, status) ==
    /\ sent' = sent \ {q}
    /\ IF q.live
       THEN \/ cmd' = [cmd EXCEPT ![q.by].pc = "mark", ![q.by].status = status]
            \/ cmd' = [cmd EXCEPT ![q.by] = Idle]
       ELSE UNCHANGED cmd
    /\ UNCHANGED <<keyFile, profile, lock, drawn, forgot>>
Failed(q) ==
    /\ sent' = sent \ {q}
    /\ cmd' = IF q.live THEN [cmd EXCEPT ![q.by] = Idle] ELSE cmd
    /\ UNCHANGED <<keyFile, profile, lock, drawn, forgot>>

\* The handler of claim_pairing, with the right secret.
ServeClaim(q, t) ==
    \/ ClaimFirst(q.c, q.key, t) /\ Answered(q, "claimed")
    \/ ClaimAgain(q.c, q.key, t) /\ Answered(q, "duplicate")
    \/ ClaimTooLate(q.c, t) /\ Failed(q)

\* A claim that is refused, or lost.
Drop(q) == Failed(q) /\ UNCHANGED vars

\* The command times out while its claim is on its way.
GiveUp(q) ==
    /\ q.live
    /\ Cardinality({o \in sent : ~o.live}) < MaxLate
    /\ sent' = (sent \ {q}) \cup {[q EXCEPT !.live = FALSE]}
    /\ cmd' = [cmd EXCEPT ![q.by] = Idle]
    /\ UNCHANGED <<vars, keyFile, profile, lock, drawn, forgot>>

\* mark_claim_accepted: a profile with a runner id keeps what it has.  The
\* command also ends when the lock is taken or the profile is gone.
Mark(p) ==
    LET c == cmd[p].c
    IN /\ cmd[p].pc = "mark"
       /\ \/ /\ lock = None /\ Exists(c) /\ profile[c].state # "recorded"
             /\ profile' = [profile EXCEPT
                    ![c] = Profile(@.key, "pending", cmd[p].status, None)]
          \/ UNCHANGED profile
       /\ Ends(p)
       /\ UNCHANGED <<vars, keyFile, sent, drawn, forgot>>

-----------------------------------------------------------------------------
(* The other commands.                                                     *)

\* `activate': the owner enters a runner id, which the next probe will verify.
Activate(c, r) ==
    /\ runner[r].state # "absent"
    /\ lock = None
    /\ Exists(c)
    /\ profile[c].runner \in {None, r}
    /\ profile' = [profile EXCEPT ![c].state = "recorded", ![c].runner = r]
    /\ UNCHANGED <<vars, keyFile, lock, cmd, sent, drawn, forgot>>

\* `forget' removes the key, then the profile.  It may stop before either.
Forget(p, c) ==
    /\ cmd[p] = Idle
    /\ lock = None
    /\ Exists(c)
    /\ lock' = p
    /\ keyFile' = [keyFile EXCEPT ![c] = None]
    /\ forgot' = forgot \cup {c}
    /\ cmd' = [cmd EXCEPT ![p] = Command("forget", c, None, "none")]
    /\ UNCHANGED <<vars, profile, sent, drawn>>

ForgetProfile(p) ==
    /\ cmd[p].pc = "forget"
    /\ \/ profile' = [profile EXCEPT ![cmd[p].c] = NoProfile]
       \/ UNCHANGED profile
    /\ Ends(p)
    /\ UNCHANGED <<vars, keyFile, sent, drawn, forgot>>

\* The command is killed; the operating system lets its lock go.  A claim on
\* its way is served all the same, or lost with the connection.
Kill(p) ==
    /\ cmd[p].pc \notin {"idle", "await"}
    /\ Ends(p)
    /\ UNCHANGED <<vars, keyFile, profile, sent, drawn, forgot>>

-----------------------------------------------------------------------------
\* Everyone else: owners, and other holders of a secret with their own keys.
Others ==
    /\ \/ Tick
       \/ \E c \in Challenges, t \in 0..now :
             \/ \E o \in Owners : CreateChallenge(o, c, t)
             \/ ClaimTooLate(c, t) \/ ClaimWrong(c, t)
             \/ \E k \in Keys \ OwnKeys : ClaimFirst(c, k, t) \/ ClaimAgain(c, k, t)
             \/ ConfirmTooLate(c, t) \/ Reject(c, t)
             \/ \E r \in Runners : Approve(c, r, t)
       \/ \E r \in Runners : RevokeRunner(r) \/ DeleteRunner(r)
       \/ \E o \in Owners : DeleteOwner(o)
    /\ UNCHANGED device

\* A secret can be typed in only after its challenge was created.
PairStep(p) ==
    \/ \E c \in Secrets : challenge[c].state # "absent" /\ Prepare(p, c)
    \/ ReuseProfile(p) \/ RefusePrepare(p) \/ ReuseKey(p)
    \/ CreateKeyFile(p) \/ WriteKeyFile(p)
    \/ WriteProfile(p) \/ FailProfile(p)
    \/ SendClaim(p) \/ Mark(p)

DeviceNext ==
    \/ Others
    \/ \E p \in Commands : PairStep(p) \/ ForgetProfile(p) \/ Kill(p)
    \/ \E p \in Commands, c \in Secrets : Forget(p, c)
    \/ \E q \in sent : Drop(q) \/ GiveUp(q) \/ \E t \in 0..now : ServeClaim(q, t)
    \/ \E c \in Secrets, r \in Runners : Activate(c, r)

DeviceSpec == DeviceInit /\ [][DeviceNext]_allVars

-----------------------------------------------------------------------------
(* What the two ends promise together.                                     *)

\* "Retry reuses that exact key.  It never rotates the candidate behind an
\* already-used pairing secret": from the moment the server has bound a key of
\* the device until the owner forgets it, the key is in its file and its profile,
\* whatever commands overlap, fail or are killed, so that running `pair' again
\* repeats the claim and the runner that is approved can sign.
ClaimedKeysAreKept ==
    \A c \in Secrets \ forgot :
        challenge[c].key \in OwnKeys =>
            keyFile[c] = challenge[c].key /\ profile[c].key = challenge[c].key

\* A profile says that its claim was accepted only if the server acknowledged its key.
MarksAreEarned ==
    \A c \in Secrets \ forgot :
        profile[c].status \in {"claimed", "duplicate"} => profile[c].key \in told[c]

DeviceTypeOK ==
    /\ keyFile \in [Secrets -> OwnKeys \cup {None, Torn}]
    /\ profile \in [Secrets ->
           [key : OwnKeys \cup {None}, runner : Runners \cup {None},
            state : {"missing", "prepared", "pending", "recorded"},
            status : {"none", "not_confirmed", "claimed", "duplicate"}]]
    /\ lock \in Commands \cup {None}
    /\ cmd \in [Commands ->
           [pc : {"idle", "prepare", "write key", "created", "reused", "claim",
                  "await", "mark", "forget"},
            c : Secrets \cup {None}, key : OwnKeys \cup {None},
            status : {"none", "claimed", "duplicate"}]]
    /\ sent \in SUBSET [by : Commands, c : Secrets, key : OwnKeys,
                        live : BOOLEAN]
    /\ drawn \in SUBSET OwnKeys
    /\ forgot \in SUBSET Secrets
=============================================================================
