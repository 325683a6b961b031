----------------------------- MODULE PairingProofs -----------------------------
(***************************************************************************)
(* Pairing for every set of accounts, challenges, runners and keys: IInv   *)
(* is an invariant, hence runners come from exactly one challenge and a    *)
(* claim has one winner.  Then RunnerProfile, the other end of the pairing, *)
(* for any number of commands, challenges and keys: a key that the server  *)
(* has bound stays in its file, and a profile says that its claim was      *)
(* accepted only if it was.                                                *)
(***************************************************************************)
EXTENDS RunnerProfile, TLAPS

ChallengeRows ==
    [state : InTable \cup {"absent", "deleted"},
     owner : Owners \cup {None},
     expires : Nat, tries : 0..MaxClaims, secret : BOOLEAN,
     key : Keys \cup {None}, runner : Runners \cup {None}]
RunnerRows ==
    [state : Stored \cup {"absent", "deleted"},
     owner : Owners \cup {None}, key : Keys \cup {None}]

LEMMA States ==
    /\ "prepared" \in InTable /\ "claimed" \in InTable /\ "confirmed" \in InTable
    /\ "rejected" \in InTable /\ "expired" \in InTable /\ "locked" \in InTable
    /\ "absent" \notin InTable /\ "deleted" \notin InTable
    /\ "active" \in Stored /\ "revoked" \in Stored
    /\ "absent" \notin Stored /\ "deleted" \notin Stored
    /\ Open \subseteq InTable /\ "confirmed" \notin Open
  BY DEF InTable, Open, Decided, Stored

LEMMA InitIInv == Init => IInv
<1> SUFFICES ASSUME Init PROVE IInv
  OBVIOUS
<1>1. /\ \A c \in Challenges : challenge[c] = NoChallenge("absent")
      /\ \A r \in Runners : runner[r] = NoRunner("absent")
      /\ \A c \in Challenges : told[c] = {}
  BY DEF Init
<1>2. NoChallenge("absent") \in ChallengeRows /\ NoRunner("absent") \in RunnerRows
  BY LimitsAssumption DEF NoChallenge, ChallengeRow, NoRunner, RunnerRow,
                          ChallengeRows, RunnerRows
<1>3. TypeOK
  BY <1>1, <1>2, LimitsAssumption, States
     DEF Init, TypeOK, ChallengeRows, RunnerRows, NoChallenge, ChallengeRow,
         NoRunner, RunnerRow
<1>4. /\ \A c \in Challenges :
            /\ challenge[c].state = "absent" /\ ~challenge[c].secret
            /\ challenge[c].runner = None /\ told[c] = {}
      /\ \A r \in Runners : runner[r].state = "absent"
  <2>1. /\ NoChallenge("absent").state = "absent"
        /\ ~NoChallenge("absent").secret
        /\ NoChallenge("absent").runner = None
        /\ NoRunner("absent").state = "absent"
    BY DEF NoChallenge, ChallengeRow, NoRunner, RunnerRow
  <2> QED
    BY <1>1, <2>1
<1>5. RunnersHaveOneChallenge /\ ChallengesNameRealRunners
  BY <1>4, NoneAssumption, States
     DEF RunnersHaveOneChallenge, ChallengesNameRealRunners
<1>6. AcknowledgedKeysBind /\ PreparedChallengesCanBeClaimed
      /\ NobodyToldBeforeTheClaim
  BY <1>4 DEF AcknowledgedKeysBind, PreparedChallengesCanBeClaimed,
              NobodyToldBeforeTheClaim, Open
<1> QED
  BY <1>3, <1>5, <1>6 DEF IInv


\* A step that changes one challenge c of the table, and neither pairs nor
\* deletes a runner.
ChallengeChanges(c) ==
    /\ challenge[c].state \in {"absent"} \cup (InTable \ Decided)
    /\ \A d \in Challenges : d # c => challenge'[d] = challenge[d]
    /\ challenge' \in [Challenges -> ChallengeRows]
    /\ challenge'[c].state \in InTable \ {"confirmed"}
    /\ challenge'[c].owner \in owners'
    /\ challenge'[c].runner = None
    /\ owners \subseteq owners' /\ owners' \subseteq Owners
    /\ told' \in [Challenges -> SUBSET Keys]
    /\ now' = now /\ runner' = runner

\* Whatever such a step does, the runners keep their challenges.
LEMMA ChallengeChangesKeepRunners ==
    ASSUME IInv, NEW c \in Challenges, ChallengeChanges(c)
    PROVE  TypeOK' /\ RunnersHaveOneChallenge' /\ ChallengesNameRealRunners'
<1>1. \A d \in Challenges : d # c => challenge'[d] = challenge[d]
  BY DEF ChallengeChanges
<1>2. TypeOK'
  <2>1. \A d \in Challenges :
            IF challenge'[d].state \in InTable THEN challenge'[d].owner \in owners'
                                               ELSE challenge'[d].owner = None
    BY <1>1 DEF IInv, TypeOK, ChallengeChanges
  <2>2. \A r \in Runners :
            IF runner'[r].state \in Stored THEN runner'[r].owner \in owners'
                                           ELSE runner'[r].owner = None
    BY DEF IInv, TypeOK, ChallengeChanges
  <2> QED
    BY <2>1, <2>2 DEF IInv, TypeOK, ChallengeChanges, ChallengeRows
<1>3. challenge[c].runner \notin Runners /\ challenge'[c].runner \notin Runners
  BY NoneAssumption, States
     DEF IInv, ChallengesNameRealRunners, ChallengeChanges, Decided
<1>4. ASSUME NEW r \in Runners, runner'[r].state \in Stored
      PROVE  \E d \in Challenges :
                 /\ challenge'[d].state = "confirmed"
                 /\ challenge'[d].owner = runner'[r].owner
                 /\ challenge'[d].key = runner'[r].key
                 /\ \A e \in Challenges : challenge'[e].runner = r <=> e = d
  <2>1. PICK d \in Challenges :
            /\ challenge[d].state = "confirmed"
            /\ challenge[d].owner = runner[r].owner
            /\ challenge[d].key = runner[r].key
            /\ \A e \in Challenges : challenge[e].runner = r <=> e = d
    BY <1>4 DEF IInv, RunnersHaveOneChallenge, ChallengeChanges
  <2>2. d # c
    BY <1>3, <2>1
  <2>3. \A e \in Challenges : challenge'[e].runner = r <=> challenge[e].runner = r
    BY <1>1, <1>3
  <2>4. runner' = runner
    BY DEF ChallengeChanges
  <2> QED
    BY <1>1, <2>1, <2>2, <2>3, <2>4
<1>5. ChallengesNameRealRunners'
  BY <1>1, <1>3 DEF IInv, ChallengesNameRealRunners, ChallengeChanges
<1> QED
  BY <1>2, <1>4, <1>5 DEF RunnersHaveOneChallenge


\* What IInv says of each row of the table by itself.
RowOK(row, keys) ==
    /\ row.state = "prepared" => row.tries < MaxClaims
    /\ row.secret <=> row.state \in Open
    /\ row.state \in {"absent", "prepared"} => keys = {}
    /\ \A k \in keys : keys = {k} /\ (row.state # "deleted" => row.key = k)

LEMMA RowsOK ==
    IInv <=> /\ TypeOK /\ RunnersHaveOneChallenge /\ ChallengesNameRealRunners
             /\ \A c \in Challenges : RowOK(challenge[c], told[c])
<1>1. AcknowledgedKeysBind /\ PreparedChallengesCanBeClaimed
      /\ NobodyToldBeforeTheClaim
      <=> \A c \in Challenges : RowOK(challenge[c], told[c])
  BY DEF RowOK, AcknowledgedKeysBind, PreparedChallengesCanBeClaimed,
         NobodyToldBeforeTheClaim
<1> QED
  BY <1>1 DEF IInv

LEMMA RowsOKNext ==
    ASSUME TypeOK', RunnersHaveOneChallenge', ChallengesNameRealRunners',
           \A c \in Challenges : RowOK(challenge'[c], told'[c])
    PROVE  IInv'
  BY DEF RowOK, IInv, AcknowledgedKeysBind, PreparedChallengesCanBeClaimed,
         NobodyToldBeforeTheClaim

\* A step that changes one row keeps IInv when the new row is as it should be.
LEMMA RowChangeKeeps ==
    ASSUME IInv, NEW c \in Challenges, ChallengeChanges(c),
           \A d \in Challenges : d # c => told'[d] = told[d],
           RowOK(challenge'[c], told'[c])
    PROVE  IInv'
<1>1. \A d \in Challenges : RowOK(challenge'[d], told'[d])
  BY RowsOK DEF ChallengeChanges
<1> QED
  BY <1>1, ChallengeChangesKeepRunners, RowsOKNext

LEMMA CreateKeeps ==
    ASSUME IInv, NEW o \in Owners, NEW c \in Challenges, NEW t \in 0..now,
           CreateChallenge(o, c, t)
    PROVE  IInv'
<1> DEFINE row == ChallengeRow("prepared", o, t + Ttl)
<1>1. /\ challenge' = [challenge EXCEPT ![c] = row]
      /\ challenge[c].state = "absent" /\ owners' = owners \cup {o}
      /\ now' = now /\ runner' = runner /\ told' = told
  BY DEF CreateChallenge
<1>2. row \in ChallengeRows
  <2>1. t + Ttl \in Nat /\ 0 \in 0..MaxClaims
    BY LimitsAssumption DEF IInv, TypeOK
  <2> QED
    BY <2>1, States DEF ChallengeRow, ChallengeRows
<1>3. /\ row.state = "prepared" /\ row.owner = o /\ row.runner = None
      /\ row.tries = 0 /\ row.secret = TRUE
  BY DEF ChallengeRow
<1> HIDE DEF row
<1>4. challenge'[c] = row /\ \A d \in Challenges : d # c => challenge'[d] = challenge[d]
  BY <1>1 DEF IInv, TypeOK
<1>5. ChallengeChanges(c)
  BY <1>1, <1>2, <1>3, <1>4, States
     DEF ChallengeChanges, IInv, TypeOK, ChallengeRows
<1>6. told'[c] = {}
  BY <1>1 DEF IInv, NobodyToldBeforeTheClaim
<1>7. RowOK(challenge'[c], told'[c])
  BY <1>3, <1>4, <1>6, LimitsAssumption DEF RowOK, Open
<1> QED
  BY <1>1, <1>5, <1>7, RowChangeKeeps

\* The fields of a row that a step closes.
LEMMA CloseFields ==
    ASSUME TypeOK, NEW c \in Challenges, NEW s \in InTable,
           NEW r \in Runners \cup {None}, Close(c, s, r)
    PROVE  /\ challenge' \in [Challenges -> ChallengeRows]
           /\ challenge'[c].state = s /\ challenge'[c].runner = r
           /\ challenge'[c].owner = challenge[c].owner
           /\ challenge'[c].key = challenge[c].key
           /\ challenge'[c].secret = FALSE
           /\ \A d \in Challenges : d # c => challenge'[d] = challenge[d]
<1> DEFINE row == [challenge[c] EXCEPT !.state = s, !.secret = FALSE, !.runner = r]
<1>1. challenge \in [Challenges -> ChallengeRows]
  BY DEF TypeOK, ChallengeRows
<1>2. challenge' = [challenge EXCEPT ![c] = row]
  BY DEF Close
<1>3. /\ row \in ChallengeRows
      /\ row.state = s /\ row.runner = r
      /\ row.owner = challenge[c].owner /\ row.key = challenge[c].key
      /\ row.secret = FALSE
  BY <1>1 DEF ChallengeRows
<1> HIDE DEF row
<1> QED
  BY <1>1, <1>2, <1>3

LEMMA CloseKeeps ==
    ASSUME IInv, NEW c \in Challenges, NEW s \in InTable \ {"confirmed"},
           s \notin Open,
           challenge[c].state \in InTable \ Decided, Close(c, s, None),
           UNCHANGED <<now, owners, runner, told>>
    PROVE  IInv'
<1>1. /\ challenge' \in [Challenges -> ChallengeRows]
      /\ challenge'[c].state = s /\ challenge'[c].runner = None
      /\ challenge'[c].owner = challenge[c].owner
      /\ challenge'[c].key = challenge[c].key
      /\ challenge'[c].secret = FALSE
      /\ \A d \in Challenges : d # c => challenge'[d] = challenge[d]
  BY CloseFields DEF IInv
<1>2. ChallengeChanges(c)
  BY <1>1, States DEF ChallengeChanges, IInv, TypeOK
<1>3. RowOK(challenge[c], told[c])
  BY RowsOK
<1>4. s \notin {"prepared", "absent", "deleted"} /\ challenge[c].state # "deleted"
  BY States DEF Open
<1>5. RowOK(challenge'[c], told'[c])
  BY <1>1, <1>3, <1>4 DEF RowOK
<1> QED
  BY <1>2, <1>5, RowChangeKeeps

LEMMA TooLateKeeps ==
    ASSUME IInv, NEW c \in Challenges, NEW t \in 0..now,
           ClaimTooLate(c, t) \/ ConfirmTooLate(c, t)
    PROVE  IInv'
  BY CloseKeeps, States DEF ClaimTooLate, ConfirmTooLate, Open, Decided

LEMMA RejectKeeps ==
    ASSUME IInv, NEW c \in Challenges, NEW t \in 0..now, Reject(c, t)
    PROVE  IInv'
  BY CloseKeeps, States DEF Reject, Decided, Open

LEMMA ClaimWrongKeeps ==
    ASSUME IInv, NEW c \in Challenges, NEW t \in 0..now, ClaimWrong(c, t)
    PROVE  IInv'
<1> DEFINE tries == challenge[c].tries + 1
           state == IF tries >= MaxClaims THEN "locked" ELSE "prepared"
           row == [challenge[c] EXCEPT !.tries = tries, !.state = state,
                                       !.secret = tries < MaxClaims]
<1>1. /\ challenge[c].state = "prepared" /\ told[c] = {} /\ told' = told
      /\ challenge[c].owner \in owners /\ challenge[c].runner = None
      /\ challenge[c].tries < MaxClaims
  <2>1. challenge[c].state = "prepared" /\ told' = told
    BY DEF ClaimWrong
  <2>2. told[c] = {}
    BY <2>1 DEF IInv, NobodyToldBeforeTheClaim
  <2>3. challenge[c].owner \in owners
    BY <2>1, States DEF IInv, TypeOK
  <2>4. challenge[c].runner = None
    BY <2>1 DEF IInv, TypeOK, ChallengesNameRealRunners
  <2>5. challenge[c].tries < MaxClaims
    BY <2>1 DEF IInv, PreparedChallengesCanBeClaimed
  <2> QED
    BY <2>1, <2>2, <2>3, <2>4, <2>5
<1>2. challenge \in [Challenges -> ChallengeRows]
  BY DEF IInv, TypeOK, ChallengeRows
<1>3. challenge' = [challenge EXCEPT ![c] = row]
  BY <1>1 DEF ClaimWrong
<1>4. tries \in 0..MaxClaims
  BY <1>1, <1>2, LimitsAssumption DEF ChallengeRows
<1>5. /\ row \in ChallengeRows
      /\ row.state \in {"prepared", "locked"}
      /\ row.owner = challenge[c].owner /\ row.runner = None
  <2>1. state \in {"prepared", "locked"} /\ (tries < MaxClaims) \in BOOLEAN
    OBVIOUS
  <2> HIDE DEF tries, state
  <2> QED
    BY <1>1, <1>2, <1>4, <2>1, States DEF ChallengeRows
<1> HIDE DEF row
<1>6. /\ challenge' \in [Challenges -> ChallengeRows]
      /\ challenge'[c] = row
      /\ \A d \in Challenges : d # c => challenge'[d] = challenge[d]
  BY <1>2, <1>3, <1>5
<1>7. ChallengeChanges(c)
  BY <1>1, <1>5, <1>6, States DEF ChallengeChanges, ClaimWrong, IInv, TypeOK, Decided
<1>8. RowOK(challenge'[c], told'[c])
  <2>1. /\ state = "prepared" => tries < MaxClaims
        /\ tries < MaxClaims <=> state = "prepared"
    BY <1>4, LimitsAssumption
  <2>2. challenge'[c].tries = tries /\ challenge'[c].state = state
        /\ challenge'[c].secret = (tries < MaxClaims)
    BY <1>2, <1>3, <1>6 DEF row, ChallengeRows
  <2> HIDE DEF tries, state
  <2>3. state \in {"prepared", "locked"}
    BY DEF state
  <2> QED
    BY <1>1, <2>1, <2>2, <2>3 DEF RowOK, Open
<1> QED
  BY <1>1, <1>7, <1>8, RowChangeKeeps

LEMMA ClaimFirstKeeps ==
    ASSUME IInv, NEW c \in Challenges, NEW k \in Keys, NEW t \in 0..now,
           ClaimFirst(c, k, t)
    PROVE  IInv'
<1> DEFINE tries == challenge[c].tries + 1
           row == [challenge[c] EXCEPT !.state = "claimed", !.tries = tries,
                                       !.key = k]
<1>1. challenge \in [Challenges -> ChallengeRows]
  BY DEF IInv, TypeOK, ChallengeRows
<1>2. /\ challenge[c].state = "prepared"
      /\ challenge' = [challenge EXCEPT ![c] = row]
      /\ told' = [told EXCEPT ![c] = @ \cup {k}]
      /\ UNCHANGED <<now, owners, runner>>
  BY DEF ClaimFirst
<1>3. RowOK(challenge[c], told[c])
  BY RowsOK
<1>4. /\ challenge[c].tries < MaxClaims /\ challenge[c].secret /\ told[c] = {}
      /\ challenge[c].owner \in owners /\ challenge[c].runner = None
  <2>1. challenge[c].runner = None
    BY <1>2 DEF IInv, TypeOK, ChallengesNameRealRunners
  <2> QED
    BY <1>2, <1>3, <2>1, States DEF IInv, TypeOK, RowOK, Open
<1>5. tries \in 0..MaxClaims
  BY <1>1, <1>4, LimitsAssumption DEF ChallengeRows
<1>6. /\ row \in ChallengeRows
      /\ row.state = "claimed" /\ row.key = k /\ row.secret = challenge[c].secret
      /\ row.owner = challenge[c].owner /\ row.runner = None
  BY <1>1, <1>4, <1>5, States DEF ChallengeRows
<1> HIDE DEF row
<1>7. /\ challenge' \in [Challenges -> ChallengeRows]
      /\ challenge'[c] = row
      /\ \A d \in Challenges : d # c => challenge'[d] = challenge[d]
  BY <1>1, <1>2, <1>6
<1>8. /\ told' \in [Challenges -> SUBSET Keys] /\ told'[c] = {k}
      /\ \A d \in Challenges : d # c => told'[d] = told[d]
  BY <1>2, <1>4 DEF IInv, TypeOK
<1>9. ChallengeChanges(c)
  BY <1>2, <1>4, <1>6, <1>7, <1>8, States DEF ChallengeChanges, IInv, TypeOK, Decided
<1>10. RowOK(challenge'[c], told'[c])
  BY <1>4, <1>6, <1>7, <1>8 DEF RowOK, Open
<1> QED
  BY <1>8, <1>9, <1>10, RowChangeKeeps

\* A claim that is acknowledged again tells what was told before.
LEMMA ClaimAgainKeeps ==
    ASSUME IInv, NEW c \in Challenges, NEW k \in Keys, NEW t \in 0..now,
           ClaimAgain(c, k, t)
    PROVE  IInv'
<1>1. /\ challenge[c].state = "claimed" /\ challenge[c].key = k
      /\ told' = [told EXCEPT ![c] = @ \cup {k}]
      /\ UNCHANGED <<now, owners, challenge, runner>>
  BY DEF ClaimAgain
<1>2. /\ told' \in [Challenges -> SUBSET Keys] /\ told'[c] = told[c] \cup {k}
      /\ \A d \in Challenges : d # c => told'[d] = told[d]
  BY <1>1 DEF IInv, TypeOK
<1>3. \A d \in Challenges : RowOK(challenge[d], told[d])
  BY RowsOK
<1>4. RowOK(challenge[c], told'[c])
  BY <1>1, <1>2, <1>3 DEF RowOK
<1>5. \A d \in Challenges : RowOK(challenge'[d], told'[d])
  BY <1>1, <1>2, <1>3, <1>4
<1>6. TypeOK'
  BY <1>1, <1>2 DEF IInv, TypeOK
<1>7. RunnersHaveOneChallenge' /\ ChallengesNameRealRunners'
  BY <1>1 DEF IInv, RunnersHaveOneChallenge, ChallengesNameRealRunners
<1> QED
  BY <1>5, <1>6, <1>7, RowsOKNext

\* An approval pairs a runner nobody names yet with a claimed challenge.
LEMMA ApproveKeeps ==
    ASSUME IInv, NEW c \in Challenges, NEW r \in Runners, NEW t \in 0..now,
           Approve(c, r, t)
    PROVE  IInv'
<1> DEFINE new == RunnerRow("active", challenge[c].owner, challenge[c].key)
<1>1. /\ challenge[c].state = "claimed" /\ runner[r].state = "absent"
      /\ runner' = [runner EXCEPT ![r] = new]
      /\ Close(c, "confirmed", r)
      /\ UNCHANGED <<now, owners, told>>
  BY DEF Approve
<1>2. /\ challenge' \in [Challenges -> ChallengeRows]
      /\ challenge'[c].state = "confirmed" /\ challenge'[c].runner = r
      /\ challenge'[c].owner = challenge[c].owner
      /\ challenge'[c].key = challenge[c].key
      /\ challenge'[c].secret = FALSE
      /\ \A d \in Challenges : d # c => challenge'[d] = challenge[d]
  BY <1>1, CloseFields, States DEF IInv
<1>3. /\ new.state = "active" /\ new.owner = challenge[c].owner
      /\ new.key = challenge[c].key
  BY DEF RunnerRow
<1>4. /\ runner' \in [Runners -> RunnerRows]
      /\ runner'[r] = new
      /\ \A s \in Runners : s # r => runner'[s] = runner[s]
  <2>1. challenge[c].owner \in Owners \cup {None} /\ challenge[c].key \in Keys \cup {None}
    BY DEF IInv, TypeOK
  <2>2. new \in RunnerRows
    BY <2>1, States DEF RunnerRow, RunnerRows
  <2> QED
    BY <1>1, <2>2 DEF IInv, TypeOK, RunnerRows
<1> HIDE DEF new
<1>5. /\ \A d \in Challenges : challenge[d].runner # r
      /\ challenge[c].runner = None
  BY <1>1 DEF IInv, TypeOK, ChallengesNameRealRunners
<1>6. TypeOK'
  <2>1. challenge[c].owner \in owners
    BY <1>1, States DEF IInv, TypeOK
  <2>2. \A d \in Challenges :
            IF challenge'[d].state \in InTable THEN challenge'[d].owner \in owners'
                                               ELSE challenge'[d].owner = None
    BY <1>1, <1>2, <2>1, States DEF IInv, TypeOK
  <2>3. \A s \in Runners :
            IF runner'[s].state \in Stored THEN runner'[s].owner \in owners'
                                           ELSE runner'[s].owner = None
    BY <1>1, <1>3, <1>4, <2>1, States DEF IInv, TypeOK
  <2> QED
    BY <1>1, <1>2, <1>4, <2>2, <2>3
       DEF IInv, TypeOK, ChallengeRows, RunnerRows
<1>7. ASSUME NEW s \in Runners, runner'[s].state \in Stored
      PROVE  \E d \in Challenges :
                 /\ challenge'[d].state = "confirmed"
                 /\ challenge'[d].owner = runner'[s].owner
                 /\ challenge'[d].key = runner'[s].key
                 /\ \A e \in Challenges : challenge'[e].runner = s <=> e = d
  <2>1. CASE s = r
    <3>1. \A e \in Challenges : challenge'[e].runner = r <=> e = c
      BY <1>2, <1>5
    <3> QED
      BY <1>2, <1>3, <1>4, <2>1, <3>1
  <2>2. CASE s # r
    <3>1. PICK d \in Challenges :
              /\ challenge[d].state = "confirmed"
              /\ challenge[d].owner = runner[s].owner
              /\ challenge[d].key = runner[s].key
              /\ \A e \in Challenges : challenge[e].runner = s <=> e = d
      BY <1>4, <1>7, <2>2 DEF IInv, RunnersHaveOneChallenge
    <3>2. d # c
      BY <1>1, <3>1
    <3>3. \A e \in Challenges : challenge'[e].runner = s <=> challenge[e].runner = s
      BY <1>2, <1>5, <2>2, NoneAssumption
    <3> QED
      BY <1>2, <1>4, <2>2, <3>1, <3>2, <3>3
  <2> QED
    BY <2>1, <2>2
<1>8. ChallengesNameRealRunners'
  <2>1. ASSUME NEW d \in Challenges, challenge'[d].runner \in Runners
        PROVE  /\ challenge'[d].state = "confirmed"
               /\ runner'[challenge'[d].runner].state # "absent"
    <3>1. CASE d = c
      BY <1>2, <1>3, <1>4, <3>1
    <3>2. CASE d # c
      BY <1>2, <1>4, <1>5, <2>1, <3>2 DEF IInv, ChallengesNameRealRunners
    <3> QED
      BY <3>1, <3>2
  <2> QED
    BY <2>1 DEF ChallengesNameRealRunners
<1>9. \A d \in Challenges : RowOK(challenge'[d], told'[d])
  <2>1. \A d \in Challenges : RowOK(challenge[d], told[d])
    BY RowsOK
  <2>2. RowOK(challenge'[c], told'[c])
    BY <1>1, <1>2, <2>1 DEF RowOK, Open
  <2> QED
    BY <1>1, <1>2, <2>1, <2>2
<1> QED
  BY <1>6, <1>7, <1>8, <1>9, RowsOKNext DEF RunnersHaveOneChallenge

\* Revocation keeps the row of a runner, deletion leaves its challenge behind.
LEMMA RunnerEndKeeps ==
    ASSUME IInv, NEW r \in Runners, RevokeRunner(r) \/ DeleteRunner(r)
    PROVE  IInv'
<1>1. /\ UNCHANGED <<now, owners, challenge, told>>
      /\ runner' \in [Runners -> RunnerRows]
      /\ runner[r].state \in Stored
      /\ \A s \in Runners : s # r => runner'[s] = runner[s]
      /\ \/ /\ runner'[r].state = "deleted" /\ runner'[r].owner = None
         \/ /\ runner'[r].state = "revoked"
            /\ runner'[r].owner = runner[r].owner
            /\ runner'[r].key = runner[r].key
  <2>1. runner \in [Runners -> RunnerRows]
    BY DEF IInv, TypeOK, RunnerRows
  <2>2. CASE RevokeRunner(r)
    <3> DEFINE row == [runner[r] EXCEPT !.state = "revoked"]
    <3>1. row \in RunnerRows /\ row.state = "revoked"
          /\ row.owner = runner[r].owner /\ row.key = runner[r].key
      BY <2>1, States DEF RunnerRows
    <3>2. runner' = [runner EXCEPT ![r] = row]
      BY <2>2 DEF RevokeRunner
    <3> HIDE DEF row
    <3> QED
      BY <2>1, <2>2, <3>1, <3>2, States DEF RevokeRunner
  <2>3. CASE DeleteRunner(r)
    <3>1. NoRunner("deleted") \in RunnerRows
          /\ NoRunner("deleted").state = "deleted" /\ NoRunner("deleted").owner = None
      BY DEF NoRunner, RunnerRow, RunnerRows
    <3> QED
      BY <2>1, <2>3, <3>1 DEF DeleteRunner
  <2> QED
    BY <2>2, <2>3
<1>2. TypeOK'
  <2>1. \A s \in Runners :
            IF runner'[s].state \in Stored THEN runner'[s].owner \in owners'
                                           ELSE runner'[s].owner = None
    BY <1>1, States DEF IInv, TypeOK
  <2> QED
    BY <1>1, <2>1 DEF IInv, TypeOK, RunnerRows
<1>3. \A s \in Runners : runner'[s].state \in Stored =>
          /\ runner[s].state \in Stored
          /\ runner'[s].owner = runner[s].owner /\ runner'[s].key = runner[s].key
  BY <1>1, States
<1>4. RunnersHaveOneChallenge'
  BY <1>1, <1>3 DEF IInv, RunnersHaveOneChallenge
<1>5. ChallengesNameRealRunners'
  BY <1>1, States DEF IInv, ChallengesNameRealRunners
<1>6. \A d \in Challenges : RowOK(challenge'[d], told'[d])
  BY <1>1, RowsOK
<1> QED
  BY <1>2, <1>4, <1>5, <1>6, RowsOKNext

\* An account goes with all its challenges and all its runners.
LEMMA DeleteOwnerKeeps ==
    ASSUME IInv, NEW o \in Owners, DeleteOwner(o)
    PROVE  IInv'
<1>1. /\ NoChallenge("deleted") \in ChallengeRows
      /\ NoChallenge("deleted").state = "deleted"
      /\ NoChallenge("deleted").owner = None
      /\ NoChallenge("deleted").runner = None
      /\ ~NoChallenge("deleted").secret
      /\ NoRunner("deleted") \in RunnerRows
      /\ NoRunner("deleted").state = "deleted" /\ NoRunner("deleted").owner = None
  <2>1. ("deleted" = "prepared") \in BOOLEAN /\ 0 \in 0..MaxClaims
    BY LimitsAssumption
  <2>2. NoChallenge("deleted") \in ChallengeRows
    BY <2>1 DEF NoChallenge, ChallengeRow, ChallengeRows
  <2>3. NoRunner("deleted") \in RunnerRows
    BY DEF NoRunner, RunnerRow, RunnerRows
  <2> QED
    BY <2>2, <2>3 DEF NoChallenge, ChallengeRow, NoRunner, RunnerRow
<1>2. /\ o \in owners /\ owners' = owners \ {o}
      /\ \A c \in Challenges : challenge'[c] =
             IF challenge[c].owner = o THEN NoChallenge("deleted") ELSE challenge[c]
      /\ \A r \in Runners : runner'[r] =
             IF runner[r].owner = o THEN NoRunner("deleted") ELSE runner[r]
      /\ UNCHANGED <<now, told>>
      /\ challenge' = [c \in Challenges |-> challenge'[c]]
      /\ runner' = [r \in Runners |-> runner'[r]]
  BY DEF DeleteOwner
<1>3. TypeOK'
  <2>1. /\ challenge \in [Challenges -> ChallengeRows]
        /\ runner \in [Runners -> RunnerRows]
    BY DEF IInv, TypeOK, ChallengeRows, RunnerRows
  <2>2. /\ challenge' \in [Challenges -> ChallengeRows]
        /\ runner' \in [Runners -> RunnerRows]
    BY <1>1, <1>2, <2>1
  <2>3. \A c \in Challenges :
            IF challenge'[c].state \in InTable THEN challenge'[c].owner \in owners'
                                               ELSE challenge'[c].owner = None
    BY <1>1, <1>2, States DEF IInv, TypeOK
  <2>4. \A r \in Runners :
            IF runner'[r].state \in Stored THEN runner'[r].owner \in owners'
                                           ELSE runner'[r].owner = None
    BY <1>1, <1>2, States DEF IInv, TypeOK
  <2> QED
    BY <1>2, <2>2, <2>3, <2>4 DEF IInv, TypeOK, ChallengeRows, RunnerRows
<1>4. ASSUME NEW r \in Runners, runner'[r].state \in Stored
      PROVE  \E d \in Challenges :
                 /\ challenge'[d].state = "confirmed"
                 /\ challenge'[d].owner = runner'[r].owner
                 /\ challenge'[d].key = runner'[r].key
                 /\ \A e \in Challenges : challenge'[e].runner = r <=> e = d
  <2>1. runner'[r] = runner[r] /\ runner[r].owner # o
    BY <1>1, <1>2, <1>4, States
  <2>2. PICK d \in Challenges :
            /\ challenge[d].state = "confirmed"
            /\ challenge[d].owner = runner[r].owner
            /\ challenge[d].key = runner[r].key
            /\ \A e \in Challenges : challenge[e].runner = r <=> e = d
    BY <1>4, <2>1 DEF IInv, RunnersHaveOneChallenge
  <2>3. challenge'[d] = challenge[d]
    BY <1>2, <2>1, <2>2
  <2>4. \A e \in Challenges : challenge'[e].runner = r <=> e = d
    BY <1>1, <1>2, <2>2, <2>3, NoneAssumption
  <2> QED
    BY <2>1, <2>2, <2>3, <2>4
<1>5. ChallengesNameRealRunners'
  <2>1. \A r \in Runners : runner[r].state # "absent" => runner'[r].state # "absent"
    BY <1>1, <1>2
  <2>2. ASSUME NEW c \in Challenges, challenge'[c].runner \in Runners
        PROVE  challenge'[c] = challenge[c]
    BY <1>1, <1>2, <2>2, NoneAssumption
  <2> QED
    BY <2>1, <2>2 DEF IInv, ChallengesNameRealRunners
<1>6. \A c \in Challenges : RowOK(challenge'[c], told'[c])
  <2>1. \A c \in Challenges : RowOK(challenge[c], told[c])
    BY RowsOK
  <2>2. ASSUME NEW c \in Challenges, challenge[c].owner = o
        PROVE  RowOK(challenge'[c], told'[c])
    <3>1. challenge'[c] = NoChallenge("deleted") /\ told'[c] = told[c]
      BY <1>2, <2>2
    <3>2. \A k \in told[c] : told[c] = {k}
      BY <2>1 DEF RowOK
    <3> QED
      BY <1>1, <3>1, <3>2 DEF RowOK, Open
  <2> QED
    BY <1>2, <2>1, <2>2
<1> QED
  BY <1>3, <1>4, <1>5, <1>6, RowsOKNext DEF RunnersHaveOneChallenge

LEMMA StepIInv == IInv /\ [Next]_vars => IInv'
<1> SUFFICES ASSUME IInv, [Next]_vars PROVE IInv'
  OBVIOUS
<1>1. ASSUME UNCHANGED <<owners, challenge, runner, told>>, now' \in 0..MaxTime
      PROVE  IInv'
  <2>1. TypeOK'
    BY <1>1 DEF IInv, TypeOK
  <2>2. RunnersHaveOneChallenge' /\ ChallengesNameRealRunners'
    BY <1>1 DEF IInv, RunnersHaveOneChallenge, ChallengesNameRealRunners
  <2>3. \A c \in Challenges : RowOK(challenge'[c], told'[c])
    BY <1>1, RowsOK
  <2> QED
    BY <2>1, <2>2, <2>3, RowsOKNext
<1>2. CASE UNCHANGED vars
  BY <1>1, <1>2 DEF vars, IInv, TypeOK
<1>3. CASE Tick
  BY <1>1, <1>3, LimitsAssumption DEF Tick, IInv, TypeOK
<1>4. ASSUME NEW c \in Challenges, NEW t \in 0..now, ChallengeStep(c, t)
      PROVE  IInv'
  BY <1>4, CreateKeeps, TooLateKeeps, ClaimWrongKeeps, ClaimFirstKeeps,
     ClaimAgainKeeps, RejectKeeps, ApproveKeeps DEF ChallengeStep
<1>5. ASSUME NEW r \in Runners, RevokeRunner(r) \/ DeleteRunner(r) PROVE IInv'
  BY <1>5, RunnerEndKeeps
<1>6. ASSUME NEW o \in Owners, DeleteOwner(o) PROVE IInv'
  BY <1>6, DeleteOwnerKeeps
<1> QED
  BY <1>2, <1>3, <1>4, <1>5, <1>6 DEF Next

LEMMA PairingInvariant == Spec => []IInv
  BY InitIInv, StepIInv, PTL DEF Spec

\* No challenge pairs two runners, and no runner lacks its owner's decision.
THEOREM OneChallengePerRunner == Spec => []RunnersHaveOneChallenge
<1>1. IInv => RunnersHaveOneChallenge
  BY DEF IInv
<1> QED
  BY <1>1, PairingInvariant, PTL

\* A claim has one winner, and the owner decides on the winner's key.
THEOREM OneClaimWins == Spec => []AcknowledgedKeysBind
<1>1. IInv => AcknowledgedKeysBind
  BY DEF IInv
<1> QED
  BY <1>1, PairingInvariant, PTL

\* The attempt limit never leaves a challenge that cannot be claimed or locked.
THEOREM ClaimsNeverJam == Spec => []PreparedChallengesCanBeClaimed
<1>1. IInv => PreparedChallengesCanBeClaimed
  BY DEF IInv
<1> QED
  BY <1>1, PairingInvariant, PTL

-----------------------------------------------------------------------------
(* Decisions.                                                              *)

\* A step on challenge d leaves the other rows alone, and d was open, or locked
\* and expires, or expired and then expires again.
LEMMA OneRowChanges ==
  ASSUME IInv, NEW d \in Challenges, NEW t \in 0..now, ChallengeStep(d, t)
  PROVE  \A c \in Challenges :
             challenge[c].state \in Decided \cup {"expired", "locked"} =>
                 \/ challenge'[c] = challenge[c]
                 \/ challenge[c].state = "locked" /\ challenge'[c].state = "expired"
<1> DEFINE others == \A c \in Challenges : c # d => challenge'[c] = challenge[c]
           undecided == challenge[d].state \notin Decided \cup {"expired", "locked"}
<1>0. challenge \in [Challenges -> ChallengeRows]
  BY DEF IInv, TypeOK, ChallengeRows
<1>1. CASE \E k \in Keys : ClaimAgain(d, k, t)
  BY <1>1 DEF ClaimAgain
<1>2. CASE \E o \in Owners : CreateChallenge(o, d, t)
  <2>1. others /\ undecided
    BY <1>0, <1>2 DEF CreateChallenge, Decided
  <2> QED
    BY <2>1
<1>3. CASE ClaimWrong(d, t) \/ \E k \in Keys : ClaimFirst(d, k, t)
  <2>1. challenge[d].state = "prepared"
    BY <1>3 DEF ClaimWrong, ClaimFirst
  <2>2. others
    BY <1>0, <1>3 DEF ClaimWrong, ClaimFirst
  <2> QED
    BY <2>1, <2>2 DEF Decided
<1>4. CASE \/ ClaimTooLate(d, t)
           \/ Reject(d, t)
           \/ \E r \in Runners : Approve(d, r, t)
  <2>1. challenge[d].state \in {"prepared", "claimed"}
    BY <1>4 DEF ClaimTooLate, Reject, Approve, Open
  <2>2. others
    BY <1>0, <1>4 DEF ClaimTooLate, Reject, Approve, Close
  <2> QED
    BY <2>1, <2>2 DEF Decided
<1>5. CASE ConfirmTooLate(d, t)
  <2>1. challenge[d].state \notin Decided
    BY <1>5 DEF ConfirmTooLate
  <2>2. others
    BY <1>0, <1>5 DEF ConfirmTooLate, Close
  <2>3. ASSUME challenge[d].state = "expired"
        PROVE  challenge'[d] = challenge[d]
    <3>0. challenge[d].runner \in Runners \cup {None} /\ challenge[d].secret \in BOOLEAN
      BY <1>0 DEF ChallengeRows
    <3>a. ~challenge[d].secret
      BY <2>3 DEF IInv, PreparedChallengesCanBeClaimed, Open
    <3>b. challenge[d].runner \notin Runners
      BY <2>3 DEF IInv, ChallengesNameRealRunners
    <3>1. challenge[d].secret = FALSE /\ challenge[d].runner = None
      BY <3>0, <3>a, <3>b
    <3>2. challenge'[d] = [challenge[d] EXCEPT !.state = "expired", !.secret = FALSE,
                                               !.runner = None]
      BY <1>0, <1>5 DEF ConfirmTooLate, Close
    <3>3. challenge[d] = [challenge[d] EXCEPT !.state = challenge[d].state,
                              !.secret = challenge[d].secret, !.runner = challenge[d].runner]
      BY <1>0 DEF ChallengeRows
    <3> QED
      BY <2>3, <3>1, <3>2, <3>3
  <2>4. challenge'[d].state = "expired"
    BY <1>0, <1>5 DEF ConfirmTooLate, Close, ChallengeRows
  <2> QED
    BY <2>1, <2>2, <2>3, <2>4
<1> QED
  BY <1>1, <1>2, <1>3, <1>4, <1>5 DEF ChallengeStep

LEMMA StepsKeepDecisions ==
  ASSUME IInv, [Next]_vars
  PROVE  \A c \in Challenges :
             challenge[c].state \in Decided \cup {"expired", "locked"} =>
                 \/ challenge'[c] = challenge[c]
                 \/ challenge[c].state = "locked" /\ challenge'[c].state = "expired"
                 \/ challenge'[c].state = "deleted" /\ challenge[c].owner \notin owners'
<1>1. CASE challenge' = challenge
  BY <1>1
<1>2. ASSUME NEW d \in Challenges, NEW t \in 0..now, ChallengeStep(d, t)
      PROVE  \A c \in Challenges :
                 challenge[c].state \in Decided \cup {"expired", "locked"} =>
                     \/ challenge'[c] = challenge[c]
                     \/ challenge[c].state = "locked" /\ challenge'[c].state = "expired"
  BY <1>2, OneRowChanges
<1>3. ASSUME NEW o \in Owners, DeleteOwner(o), NEW c \in Challenges
      PROVE  \/ challenge'[c] = challenge[c]
             \/ challenge'[c].state = "deleted" /\ challenge[c].owner \notin owners'
  BY <1>3 DEF DeleteOwner, NoChallenge, ChallengeRow
<1> QED
  BY <1>1, <1>2, <1>3 DEF Next, vars, Tick, RevokeRunner, DeleteRunner

\* A confirmation, a rejection and an expiry are final: no late claim, stale
\* clock or repeated confirmation changes the row; it goes with its account.  A
\* locked challenge can only expire.
THEOREM DecisionsAreFinal == Spec => DecisionsStand
<1>1. IInv /\ [Next]_vars =>
         [\A c \in Challenges :
             challenge[c].state \in Decided \cup {"expired", "locked"} =>
                 \/ challenge'[c] = challenge[c]
                 \/ challenge[c].state = "locked" /\ challenge'[c].state = "expired"
                 \/ challenge'[c].state = "deleted"
                    /\ challenge[c].owner \notin owners']_vars
  BY StepsKeepDecisions
<1> QED
  BY <1>1, PairingInvariant, PTL DEF Spec, DecisionsStand

-----------------------------------------------------------------------------
(* Runner profiles.                                                        *)

Critical == {"prepare", "write key", "created", "reused", "forget"}
Claiming == {"claim", "await", "mark"}

\* What holds of a command: it works on a challenge under the lock where it
\* must, and a profile it is about to write is not there and will fit its key.
CommandOK(p) ==
    /\ cmd[p].pc # "idle" => cmd[p].c \in Secrets
    /\ cmd[p].pc \in Critical => lock = p
    /\ cmd[p].pc \in Claiming \cup {"write key", "created", "reused"} =>
           cmd[p].key \in OwnKeys
    /\ cmd[p].pc \in {"write key", "created", "reused"} => ~Exists(cmd[p].c)
    /\ cmd[p].pc \in {"created", "reused"} => keyFile[cmd[p].c] = cmd[p].key
    /\ cmd[p].pc = "forget" => cmd[p].c \in forgot

\* A key is in both files.
Held(c, k) == profile[c].key = k /\ keyFile[c] = k

\* What holds of a challenge that was not forgotten: a key that is being claimed
\* or that the server has bound is in both files.  A profile may have lost its key
\* file, but not after a claim.
SecretOK(c) ==
    /\ \A p \in Commands :
           cmd[p].pc \in Claiming /\ cmd[p].c = c => Held(c, cmd[p].key)
    /\ \A q \in sent : q.c = c => Held(c, q.key)
    /\ challenge[c].key \in OwnKeys => Held(c, challenge[c].key)
    /\ \A p \in Commands :
           cmd[p].pc = "mark" /\ cmd[p].c = c => cmd[p].key \in told[c]
    /\ profile[c].status \in {"claimed", "duplicate"} =>
           profile[c].key \in told[c]

ProfilesNameKeys == \A c \in Secrets : Exists(c) => profile[c].key \in OwnKeys

\* A claim that is live is the one its command waits for.
LiveOK(q) ==
    q.live => cmd[q.by].pc = "await" /\ cmd[q.by].c = q.c /\ cmd[q.by].key = q.key

DeviceInv ==
    /\ DeviceTypeOK
    /\ ProfilesNameKeys
    /\ \A q \in sent : LiveOK(q)
    /\ \A p \in Commands : CommandOK(p)
    /\ \A c \in Secrets \ forgot : SecretOK(c)

LEMMA OwnKeysAreKeys ==
    /\ None \notin OwnKeys /\ Torn \notin OwnKeys
    /\ OwnKeys \subseteq Keys
    /\ NoProfile.key = None /\ NoProfile.status = "none"
    /\ Idle.pc = "idle" /\ Idle.c = None /\ Idle.key = None
  BY NoneAssumption, DeviceAssumption
     DEF NoProfile, Profile, Idle, Command

LEMMA InitDevice == DeviceInit => DeviceInv
<1> SUFFICES ASSUME DeviceInit PROVE DeviceInv
  OBVIOUS
<1>1. /\ \A c \in Secrets : keyFile[c] = None /\ profile[c] = NoProfile
      /\ \A p \in Commands : cmd[p] = Idle
      /\ sent = {} /\ drawn = {} /\ forgot = {} /\ lock = None
  BY DEF DeviceInit
<1>2. \A c \in Secrets : challenge[c].key = None
  BY DeviceAssumption DEF DeviceInit, Init, NoChallenge, ChallengeRow
<1>3. DeviceTypeOK
  BY <1>1, OwnKeysAreKeys
     DEF DeviceInit, DeviceTypeOK, NoProfile, Profile, Idle, Command
<1>4. ProfilesNameKeys
  BY <1>1 DEF ProfilesNameKeys, Exists
<1>5. \A p \in Commands : CommandOK(p)
  BY <1>1, OwnKeysAreKeys DEF CommandOK, Critical, Claiming
<1>6. \A c \in Secrets : SecretOK(c)
  BY <1>1, <1>2, OwnKeysAreKeys DEF SecretOK, Claiming, Exists
<1> QED
  BY <1>1, <1>3, <1>4, <1>5, <1>6 DEF DeviceInv

-----------------------------------------------------------------------------
(* The server.                                                             *)

\* What a step of the server does to the keys the device cares about.
ServerKeeps ==
    \A c \in Challenges :
        /\ challenge'[c].key \in OwnKeys => challenge'[c].key = challenge[c].key
        /\ told[c] \subseteq told'[c]

LEMMA OtherStepsKeep ==
  ASSUME IInv, Others PROVE ServerKeeps
<1>1. /\ challenge \in [Challenges -> ChallengeRows]
      /\ told \in [Challenges -> SUBSET Keys]
  BY DEF IInv, TypeOK, ChallengeRows
<1>2. None \notin OwnKeys
  BY OwnKeysAreKeys
<1>3. ASSUME UNCHANGED <<challenge, told>> PROVE ServerKeeps
  BY <1>3 DEF ServerKeeps
<1>4. ASSUME NEW c \in Challenges, NEW row, row.key \in OwnKeys => row.key = challenge[c].key,
             challenge' = [challenge EXCEPT ![c] = row], told' = told
      PROVE  ServerKeeps
  BY <1>1, <1>4 DEF ServerKeeps
<1>5. ASSUME NEW c \in Challenges, NEW t, NEW o,
             CreateChallenge(o, c, t)
      PROVE  ServerKeeps
  BY <1>2, <1>4, <1>5 DEF CreateChallenge, ChallengeRow
<1>6. ASSUME NEW c \in Challenges, NEW s, NEW r, Close(c, s, r), told' = told
      PROVE  ServerKeeps
  BY <1>1, <1>6 DEF Close, ServerKeeps, ChallengeRows
<1>7. ASSUME NEW c \in Challenges, NEW t, ClaimWrong(c, t) PROVE ServerKeeps
  BY <1>1, <1>7 DEF ClaimWrong, ServerKeeps, ChallengeRows
<1>8. ASSUME NEW c \in Challenges, NEW t, NEW k \in Keys \ OwnKeys,
             ClaimFirst(c, k, t) \/ ClaimAgain(c, k, t)
      PROVE  ServerKeeps
  <2>1. CASE ClaimFirst(c, k, t)
    <3>1. \A d \in Challenges :
              challenge'[d].key = IF d = c THEN k ELSE challenge[d].key
      BY <1>1, <2>1 DEF ClaimFirst, ChallengeRows
    <3>2. \A d \in Challenges : told[d] \subseteq told'[d]
      BY <1>1, <2>1 DEF ClaimFirst
    <3> QED
      BY <1>8, <3>1, <3>2 DEF ServerKeeps
  <2>2. CASE ClaimAgain(c, k, t)
    BY <1>1, <2>2 DEF ClaimAgain, ServerKeeps
  <2> QED
    BY <1>8, <2>1, <2>2
<1>9. ASSUME NEW o \in Owners, DeleteOwner(o) PROVE ServerKeeps
  <2>1. \A c \in Challenges : challenge'[c].key \in {challenge[c].key, None}
    BY <1>9 DEF DeleteOwner, NoChallenge, ChallengeRow
  <2> QED
    BY <1>2, <1>9, <2>1 DEF DeleteOwner, ServerKeeps
<1>10. CASE Tick \/ \E r \in Runners : RevokeRunner(r) \/ DeleteRunner(r)
  BY <1>3, <1>10 DEF Tick, RevokeRunner, DeleteRunner
<1>11. ASSUME NEW c \in Challenges, NEW t \in 0..now,
              \/ \E o \in Owners : CreateChallenge(o, c, t)
              \/ ClaimTooLate(c, t) \/ ClaimWrong(c, t)
              \/ \E k \in Keys \ OwnKeys : ClaimFirst(c, k, t) \/ ClaimAgain(c, k, t)
              \/ ConfirmTooLate(c, t) \/ Reject(c, t)
              \/ \E r \in Runners : Approve(c, r, t)
       PROVE  ServerKeeps
  <2>1. CASE ClaimTooLate(c, t) \/ ConfirmTooLate(c, t)
    BY <1>6, <2>1 DEF ClaimTooLate, ConfirmTooLate
  <2>2. CASE Reject(c, t)
    BY <1>6, <2>2 DEF Reject
  <2>3. ASSUME NEW r \in Runners, Approve(c, r, t) PROVE ServerKeeps
    BY <1>6, <2>3 DEF Approve
  <2> QED
    BY <1>5, <1>7, <1>8, <1>11, <2>1, <2>2, <2>3
<1> QED
  BY <1>9, <1>10, <1>11 DEF Others

\* A step of the server that the device does not see.
LEMMA ServerStepKeeps ==
  ASSUME DeviceInv, ServerKeeps, UNCHANGED device PROVE DeviceInv'
<1>1. DeviceTypeOK' /\ ProfilesNameKeys'
  BY DEF DeviceInv, DeviceTypeOK, ProfilesNameKeys, Exists, device
<1>2. ASSUME NEW p \in Commands PROVE CommandOK(p)'
  <2>1. CommandOK(p)
    BY DEF DeviceInv
  <2> QED
    BY <2>1 DEF CommandOK, Exists, device
<1>3. ASSUME NEW c \in Secrets \ forgot PROVE SecretOK(c)'
  <2>1. SecretOK(c) /\ c \in Challenges
    BY DeviceAssumption DEF DeviceInv
  <2>2. /\ challenge'[c].key \in OwnKeys => challenge'[c].key = challenge[c].key
        /\ told[c] \subseteq told'[c]
    BY <2>1 DEF ServerKeeps
  <2> QED
    BY <2>1, <2>2 DEF SecretOK, Held, Exists, device
<1>4. forgot' = forgot /\ \A q \in sent' : LiveOK(q)'
  BY DEF device, DeviceInv, LiveOK
<1> QED
  BY <1>1, <1>2, <1>3, <1>4 DEF DeviceInv

-----------------------------------------------------------------------------
(* The device.  A step is of one command p, or of none (p = None).          *)

OnlyCommand(p) == \A q \in Commands \ {p} : cmd'[q] = cmd[q]
LockMoves(p) == lock' \in {lock, Unlocked(p)} \/ (lock = None /\ lock' = p)
FilesAreOurs(p) == lock \in {p, None} \/ UNCHANGED <<keyFile, profile>>

\* What keeps SecretOK(c): its profile stays, its key file stays or has no
\* profile, and the claims of p and those on their way are for its key.
SecretStep(p, c) ==
    /\ profile'[c] = profile[c]
    /\ keyFile'[c] = keyFile[c] \/ ~Exists(c)
    /\ p \in Commands /\ cmd'[p].pc \in Claiming /\ cmd'[p].c = c =>
           /\ Held(c, cmd'[p].key)
           /\ cmd'[p].pc = "mark" => cmd'[p].key \in told'[c]
    /\ \A q \in sent' : q.c = c => Held(c, q.key)

\* The server binds no key of the device but the one in the profile.
ServerAgrees ==
    \A c \in Secrets \ forgot :
        /\ told[c] \subseteq told'[c]
        /\ challenge'[c].key \in OwnKeys => Held(c, challenge'[c].key)

LEMMA KeepsAgrees ==
  ASSUME DeviceInv, ServerKeeps PROVE ServerAgrees
  BY DeviceAssumption DEF DeviceInv, SecretOK, ServerKeeps, ServerAgrees

LEMMA CommandStepKeeps ==
  ASSUME DeviceInv, ServerAgrees, NEW p \in Commands \cup {None},
         OnlyCommand(p), LockMoves(p), FilesAreOurs(p),
         DeviceTypeOK', ProfilesNameKeys', p \in Commands => CommandOK(p)',
         \A q \in sent' : LiveOK(q)' \/ (q \in sent /\ q.by # p),
         forgot \subseteq forgot',
         \A c \in Secrets \ forgot' : SecretStep(p, c) \/ SecretOK(c)'
  PROVE  DeviceInv'
<1>1. ASSUME NEW q \in Commands \ {p} PROVE CommandOK(q)'
  <2>1. CommandOK(q) /\ cmd'[q] = cmd[q]
    BY DEF DeviceInv, OnlyCommand
  <2>2. q # None
    BY DeviceAssumption
  <2>3. lock = q => lock' = q
    BY <2>2 DEF LockMoves, Unlocked
  <2>4. lock = q => UNCHANGED <<keyFile, profile>>
    BY <2>2 DEF FilesAreOurs
  <2> QED
    BY <2>1, <2>3, <2>4 DEF CommandOK, Exists, Critical
<1>2. ASSUME NEW c \in Secrets \ forgot', SecretStep(p, c) PROVE SecretOK(c)'
  <2>1. SecretOK(c)
    BY DEF DeviceInv
  <2>2. /\ told[c] \subseteq told'[c]
        /\ challenge'[c].key \in OwnKeys => Held(c, challenge'[c].key)
    BY DEF ServerAgrees
  <2>3. /\ profile'[c] = profile[c]
        /\ \A k \in OwnKeys : Held(c, k) => profile'[c].key = k /\ keyFile'[c] = k
    BY <1>2, OwnKeysAreKeys DEF SecretStep, Held, Exists
  <2>4. ASSUME NEW q \in Commands, cmd'[q].pc \in Claiming, cmd'[q].c = c
        PROVE  /\ profile'[c].key = cmd'[q].key /\ keyFile'[c] = cmd'[q].key
               /\ cmd'[q].pc = "mark" => cmd'[q].key \in told'[c]
    <3>1. cmd'[q].key \in OwnKeys
      BY <1>1, <2>4 DEF CommandOK
    <3>2. CASE q = p
      BY <1>2, <2>3, <2>4, <3>1, <3>2 DEF SecretStep
    <3>3. CASE q # p
      BY <2>1, <2>2, <2>3, <2>4, <3>1, <3>3 DEF OnlyCommand, SecretOK
    <3> QED
      BY <3>2, <3>3
  <2>5. \A q \in sent' : q.c = c => profile'[c].key = q.key /\ keyFile'[c] = q.key
    BY <1>2, <2>3 DEF SecretStep, DeviceTypeOK
  <2>6. challenge'[c].key \in OwnKeys =>
            profile'[c].key = challenge'[c].key /\ keyFile'[c] = challenge'[c].key
    BY <2>2, <2>3
  <2>7. profile'[c].status \in {"claimed", "duplicate"} => profile'[c].key \in told'[c]
    BY <2>1, <2>2, <2>3 DEF SecretOK
  <2> QED
    BY <2>4, <2>5, <2>6, <2>7 DEF SecretOK, Held, Claiming
<1>3. ASSUME NEW q \in sent', q \in sent, q.by # p PROVE LiveOK(q)'
  <2>1. LiveOK(q) /\ q.by \in Commands
    BY <1>3 DEF DeviceInv, DeviceTypeOK
  <2> QED
    BY <1>3, <2>1 DEF OnlyCommand, LiveOK
<1> QED
  BY <1>1, <1>2, <1>3 DEF DeviceInv

\* Steps that leave the server and the claims on their way alone.
LEMMA QuietStepKeeps ==
  ASSUME DeviceInv, UNCHANGED <<challenge, told, sent, forgot>>,
         NEW p \in Commands \cup {None}, p \in Commands => cmd[p].pc # "await",
         OnlyCommand(p), LockMoves(p), FilesAreOurs(p),
         DeviceTypeOK', ProfilesNameKeys', p \in Commands => CommandOK(p)',
         \A c \in Secrets \ forgot :
             \/ /\ profile'[c] = profile[c]
                /\ keyFile'[c] = keyFile[c] \/ ~Exists(c)
                /\ p \in Commands /\ cmd'[p].pc \in Claiming /\ cmd'[p].c = c =>
                       Held(c, cmd'[p].key) /\ cmd'[p].pc # "mark"
             \/ SecretOK(c)'
  PROVE  DeviceInv'
<1>1. ServerAgrees
  BY KeepsAgrees DEF ServerKeeps
<1>2. ASSUME NEW q \in sent', q.by = p PROVE LiveOK(q)'
  <2>1. LiveOK(q) /\ q.by \in Commands
    BY DEF DeviceInv, DeviceTypeOK
  <2> QED
    BY <1>2, <2>1 DEF LiveOK
<1>3. \A c \in Secrets \ forgot' : SecretStep(p, c) \/ SecretOK(c)'
  BY DEF SecretStep, DeviceInv, SecretOK
<1> QED
  BY <1>1, <1>2, <1>3, CommandStepKeeps

-----------------------------------------------------------------------------
(* How the actions move the command and the lock.                           *)

Cmds == [pc : {"idle", "prepare", "write key", "created", "reused", "claim",
               "await", "mark", "forget"},
         c : Secrets \cup {None}, key : OwnKeys \cup {None},
         status : {"none", "claimed", "duplicate"}]

LEMMA CommandFacts ==
  ASSUME DeviceInv, NEW p \in Commands
  PROVE  /\ cmd \in [Commands -> Cmds] /\ cmd[p] \in Cmds
         /\ CommandOK(p)
         /\ p # None
         /\ lock \in Commands \cup {None} /\ Unlocked(p) \in Commands \cup {None}
  BY DeviceAssumption DEF DeviceInv, DeviceTypeOK, Cmds, Unlocked

LEMMA EndsMoves ==
  ASSUME DeviceInv, NEW p \in Commands, Ends(p)
  PROVE  /\ OnlyCommand(p) /\ LockMoves(p)
         /\ cmd' \in [Commands -> Cmds] /\ lock' \in Commands \cup {None}
         /\ cmd'[p].pc = "idle"
         /\ CommandOK(p)'
<1>1. /\ cmd \in [Commands -> Cmds] /\ Unlocked(p) \in Commands \cup {None}
      /\ Idle \in Cmds /\ Idle.pc = "idle"
  BY CommandFacts, OwnKeysAreKeys DEF Cmds, Idle, Command
<1>2. cmd' = [cmd EXCEPT ![p] = Idle] /\ lock' = Unlocked(p)
  BY DEF Ends
<1>3. cmd'[p] = Idle
  BY <1>1, <1>2
<1>4. CommandOK(p)'
  BY <1>1, <1>3 DEF CommandOK, Critical, Claiming
<1> QED
  BY <1>1, <1>2, <1>3, <1>4 DEF OnlyCommand, LockMoves

LEMMA GoesOnMoves ==
  ASSUME DeviceInv, NEW p \in Commands, NEW k \in OwnKeys,
         NEW pc \in {"write key", "created", "reused", "claim", "await", "mark"},
         GoesOn(p, pc, k)
  PROVE  /\ OnlyCommand(p)
         /\ cmd' \in [Commands -> Cmds]
         /\ cmd'[p].pc = pc /\ cmd'[p].key = k /\ cmd'[p].c = cmd[p].c
<1>1. cmd \in [Commands -> Cmds] /\ cmd[p] \in Cmds
  BY CommandFacts
<1> DEFINE row == [cmd[p] EXCEPT !.pc = pc, !.key = k]
<1>2. row \in Cmds /\ row.pc = pc /\ row.key = k /\ row.c = cmd[p].c
  BY <1>1 DEF Cmds
<1>3. cmd' = [cmd EXCEPT ![p] = row]
  BY <1>1 DEF GoesOn, Cmds
<1> HIDE DEF row
<1> QED
  BY <1>1, <1>2, <1>3 DEF OnlyCommand

\* Types of a step, when the files keep theirs.
LEMMA TypesKept ==
  ASSUME DeviceInv, cmd' \in [Commands -> Cmds], lock' \in Commands \cup {None},
         UNCHANGED <<sent, drawn, forgot, keyFile, profile>>
  PROVE  DeviceTypeOK' /\ ProfilesNameKeys'
  BY DEF DeviceInv, DeviceTypeOK, ProfilesNameKeys, Exists, Cmds

\* A command that stops, or goes on to something that is not a claim.
LEMMA EndsKeeps ==
  ASSUME DeviceInv, NEW p \in Commands, cmd[p].pc # "await", Ends(p),
         UNCHANGED <<challenge, told, sent, drawn, forgot, keyFile, profile>>
  PROVE  DeviceInv'
<1>1. /\ OnlyCommand(p) /\ LockMoves(p)
      /\ cmd' \in [Commands -> Cmds] /\ lock' \in Commands \cup {None}
      /\ cmd'[p].pc = "idle" /\ CommandOK(p)'
  BY EndsMoves
<1>2. DeviceTypeOK' /\ ProfilesNameKeys'
  BY <1>1, TypesKept
<1>3. FilesAreOurs(p)
  BY DEF FilesAreOurs
<1>4. \A c \in Secrets \ forgot : cmd'[p].pc \notin Claiming
  BY <1>1 DEF Claiming
<1> QED
  BY <1>1, <1>2, <1>3, <1>4, QuietStepKeeps

-----------------------------------------------------------------------------
(* `pair': prepare.                                                         *)

LEMMA PrepareKeeps ==
  ASSUME DeviceInv, NEW p \in Commands, NEW c \in Secrets, Prepare(p, c)
  PROVE  DeviceInv'
<1>1. /\ cmd \in [Commands -> Cmds] /\ p # None
      /\ cmd[p] = Idle /\ lock = None
  BY CommandFacts DEF Prepare
<1> DEFINE row == Command("prepare", c, None, "none")
<1>2. /\ row \in Cmds /\ row.pc = "prepare" /\ row.c = c
      /\ cmd' = [cmd EXCEPT ![p] = row] /\ lock' = p
  BY DEF Prepare, Command, Cmds
<1> HIDE DEF row
<1>3. cmd' \in [Commands -> Cmds] /\ cmd'[p] = row /\ OnlyCommand(p)
  BY <1>1, <1>2 DEF OnlyCommand
<1>4. LockMoves(p) /\ FilesAreOurs(p) /\ UNCHANGED <<challenge, told, sent, forgot, keyFile, profile>>
  BY <1>1, <1>2 DEF LockMoves, FilesAreOurs, Prepare, vars
<1>5. DeviceTypeOK' /\ ProfilesNameKeys'
  BY <1>2, <1>3, TypesKept DEF Prepare, vars
<1>6. CommandOK(p)'
  BY <1>2, <1>3 DEF CommandOK, Claiming
<1>7. cmd[p].pc # "await"
  BY <1>1, OwnKeysAreKeys
<1>8. cmd'[p].pc \notin Claiming
  BY <1>2, <1>3 DEF Claiming
<1> QED
  BY <1>3, <1>4, <1>5, <1>6, <1>7, <1>8, QuietStepKeeps

LEMMA ReuseProfileKeeps ==
  ASSUME DeviceInv, NEW p \in Commands, ReuseProfile(p)
  PROVE  DeviceInv'
<1> DEFINE k == keyFile[cmd[p].c]
<1>1. /\ cmd[p].pc = "prepare" /\ cmd[p].c \in Secrets /\ Exists(cmd[p].c)
      /\ k = profile[cmd[p].c].key /\ GoesOn(p, "claim", k) /\ lock' = Unlocked(p)
      /\ UNCHANGED <<challenge, told, sent, drawn, forgot, keyFile, profile>>
  BY CommandFacts DEF ReuseProfile, CommandOK, vars
<1>2. k \in OwnKeys
  BY <1>1 DEF DeviceInv, ProfilesNameKeys
<1>3. Held(cmd[p].c, k)
  BY <1>1 DEF Held
<1> HIDE DEF k
<1>4. /\ OnlyCommand(p) /\ cmd' \in [Commands -> Cmds]
      /\ cmd'[p].pc = "claim" /\ cmd'[p].key = k /\ cmd'[p].c = cmd[p].c
  BY <1>1, <1>2, GoesOnMoves
<1>5. LockMoves(p) /\ FilesAreOurs(p) /\ lock' \in Commands \cup {None}
  BY <1>1, CommandFacts DEF LockMoves, FilesAreOurs
<1>6. DeviceTypeOK' /\ ProfilesNameKeys'
  BY <1>1, <1>4, <1>5, TypesKept
<1>7. CommandOK(p)'
  BY <1>1, <1>2, <1>4 DEF CommandOK, Critical
<1>8. /\ \A c \in Secrets : cmd'[p].c = c => Held(c, cmd'[p].key)
      /\ cmd'[p].pc # "mark" /\ cmd[p].pc # "await"
  BY <1>1, <1>4, <1>3
<1> QED
  BY <1>1, <1>4, <1>5, <1>6, <1>7, <1>8, QuietStepKeeps

LEMMA RefuseOrKillKeeps ==
  ASSUME DeviceInv, NEW p \in Commands, RefusePrepare(p) \/ Kill(p)
  PROVE  DeviceInv'
  BY EndsKeeps DEF RefusePrepare, Kill, vars

LEMMA ReuseKeyKeeps ==
  ASSUME DeviceInv, NEW p \in Commands, ReuseKey(p)
  PROVE  DeviceInv'
<1> DEFINE k == keyFile[cmd[p].c]
<1>1. /\ cmd[p].pc = "prepare" /\ cmd[p].c \in Secrets /\ ~Exists(cmd[p].c)
      /\ k \in Keys /\ GoesOn(p, "reused", k) /\ lock = p
      /\ UNCHANGED <<challenge, told, sent, drawn, forgot, keyFile, profile, lock>>
  BY CommandFacts DEF ReuseKey, CommandOK, vars, Critical
<1>2. k \in OwnKeys
  BY <1>1, NoneAssumption, DeviceAssumption DEF DeviceInv, DeviceTypeOK
<1>3. /\ OnlyCommand(p) /\ cmd' \in [Commands -> Cmds]
      /\ cmd'[p].pc = "reused" /\ cmd'[p].key = k /\ cmd'[p].c = cmd[p].c
  BY <1>1, <1>2, GoesOnMoves
<1>4. LockMoves(p) /\ FilesAreOurs(p) /\ lock' \in Commands \cup {None}
  BY <1>1, CommandFacts DEF LockMoves, FilesAreOurs
<1>5. DeviceTypeOK' /\ ProfilesNameKeys'
  BY <1>1, <1>3, <1>4, TypesKept
<1>6. CommandOK(p)'
  BY <1>1, <1>2, <1>3 DEF CommandOK, Claiming, Exists
<1>7. cmd'[p].pc \notin Claiming
  BY <1>3 DEF Claiming
<1> QED
  BY <1>1, <1>3, <1>4, <1>5, <1>6, <1>7, QuietStepKeeps

LEMMA CreateKeyFileKeeps ==
  ASSUME DeviceInv, NEW p \in Commands, CreateKeyFile(p)
  PROVE  DeviceInv'
<1>1. PICK k \in OwnKeys \ drawn : drawn' = drawn \cup {k} /\ GoesOn(p, "write key", k)
  BY DEF CreateKeyFile
<1>2. /\ cmd[p].pc = "prepare" /\ cmd[p].c \in Secrets /\ ~Exists(cmd[p].c) /\ lock = p
      /\ keyFile' = [keyFile EXCEPT ![cmd[p].c] = Torn]
      /\ UNCHANGED <<challenge, told, sent, forgot, profile, lock>>
  BY CommandFacts DEF CreateKeyFile, CommandOK, vars, Critical
<1>3. /\ OnlyCommand(p) /\ cmd' \in [Commands -> Cmds]
      /\ cmd'[p].pc = "write key" /\ cmd'[p].key = k /\ cmd'[p].c = cmd[p].c
  BY <1>1, GoesOnMoves
<1>4. LockMoves(p) /\ FilesAreOurs(p)
  BY <1>2 DEF LockMoves, FilesAreOurs
<1>5. DeviceTypeOK' /\ ProfilesNameKeys'
  BY <1>1, <1>2, <1>3 DEF DeviceInv, DeviceTypeOK, ProfilesNameKeys, Exists, Cmds
<1>6. CommandOK(p)'
  BY <1>2, <1>3 DEF CommandOK, Exists
<1>7. cmd'[p].pc \notin Claiming
  BY <1>3 DEF Claiming
<1>8. \A c \in Secrets : keyFile'[c] = keyFile[c] \/ ~Exists(c)
  BY <1>2 DEF DeviceInv, DeviceTypeOK
<1> QED
  BY <1>2, <1>3, <1>4, <1>5, <1>6, <1>7, <1>8, QuietStepKeeps

\* The key file of a command that is on its way out may go, or not: it has no
\* profile.
LEMMA EndsWithoutProfile ==
  ASSUME DeviceInv, NEW p \in Commands, cmd[p].pc \in {"write key", "created", "reused"},
         Ends(p), keyFile' \in {keyFile, [keyFile EXCEPT ![cmd[p].c] = None]},
         UNCHANGED <<challenge, told, sent, drawn, forgot, profile>>
  PROVE  DeviceInv'
<1>1. /\ OnlyCommand(p) /\ LockMoves(p)
      /\ cmd' \in [Commands -> Cmds] /\ lock' \in Commands \cup {None}
      /\ cmd'[p].pc = "idle" /\ CommandOK(p)'
  BY EndsMoves
<1>2. cmd[p].c \in Secrets /\ ~Exists(cmd[p].c) /\ lock = p
  BY CommandFacts DEF CommandOK, Critical
<1>3. DeviceTypeOK' /\ ProfilesNameKeys'
  BY <1>1, <1>2 DEF DeviceInv, DeviceTypeOK, ProfilesNameKeys, Exists, Cmds
<1>4. FilesAreOurs(p)
  BY <1>2 DEF FilesAreOurs
<1>5. cmd'[p].pc \notin Claiming
  BY <1>1 DEF Claiming
<1>6. \A c \in Secrets : keyFile'[c] = keyFile[c] \/ ~Exists(c)
  BY <1>2 DEF DeviceInv, DeviceTypeOK
<1> QED
  BY <1>1, <1>3, <1>4, <1>5, <1>6, QuietStepKeeps

LEMMA WriteKeyFileKeeps ==
  ASSUME DeviceInv, NEW p \in Commands, WriteKeyFile(p)
  PROVE  DeviceInv'
<1>1. CASE keyFile' \in {keyFile, [keyFile EXCEPT ![cmd[p].c] = None]} /\ Ends(p)
  BY <1>1, EndsWithoutProfile DEF WriteKeyFile, vars
<1>2. CASE /\ keyFile' = [keyFile EXCEPT ![cmd[p].c] = cmd[p].key]
           /\ GoesOn(p, "created", cmd[p].key)
           /\ UNCHANGED lock
  <2> DEFINE k == cmd[p].key
  <2>1. /\ k \in OwnKeys /\ cmd[p].c \in Secrets /\ ~Exists(cmd[p].c) /\ lock = p
        /\ cmd[p].pc = "write key"
        /\ UNCHANGED <<challenge, told, sent, drawn, forgot, profile>>
    BY CommandFacts DEF WriteKeyFile, CommandOK, vars, Critical
  <2>2. /\ OnlyCommand(p) /\ cmd' \in [Commands -> Cmds]
        /\ cmd'[p].pc = "created" /\ cmd'[p].key = k /\ cmd'[p].c = cmd[p].c
    BY <1>2, <2>1, GoesOnMoves
  <2>3. LockMoves(p) /\ FilesAreOurs(p)
    BY <1>2, <2>1 DEF LockMoves, FilesAreOurs
  <2>4. DeviceTypeOK' /\ ProfilesNameKeys'
    BY <1>2, <2>1, <2>2 DEF DeviceInv, DeviceTypeOK, ProfilesNameKeys, Exists, Cmds
  <2>5. keyFile'[cmd[p].c] = k
    BY <1>2, <2>1 DEF DeviceInv, DeviceTypeOK
  <2>6. CommandOK(p)'
    BY <1>2, <2>1, <2>2, <2>5 DEF CommandOK, Exists, Claiming
  <2>7. cmd'[p].pc \notin Claiming
    BY <2>2 DEF Claiming
  <2>8. \A c \in Secrets : keyFile'[c] = keyFile[c] \/ ~Exists(c)
    BY <1>2, <2>1 DEF DeviceInv, DeviceTypeOK
  <2> QED
    BY <2>1, <2>2, <2>3, <2>4, <2>6, <2>7, <2>8, QuietStepKeeps
<1> QED
  BY <1>1, <1>2 DEF WriteKeyFile

\* Without a profile nothing was claimed: a claim needs both files.
LEMMA NothingClaimed ==
  ASSUME DeviceInv, NEW c \in Secrets \ forgot, ~Exists(c)
  PROVE  /\ \A q \in Commands : ~(cmd[q].pc \in Claiming /\ cmd[q].c = c)
         /\ \A q \in sent : q.c # c
         /\ challenge[c].key \notin OwnKeys
<1>1. SecretOK(c) /\ \A k \in OwnKeys : ~Held(c, k)
  BY OwnKeysAreKeys DEF DeviceInv, Exists, Held
<1>2. \A q \in Commands : cmd[q].pc \in Claiming => cmd[q].key \in OwnKeys
  BY DEF DeviceInv, CommandOK
<1>3. \A q \in sent : q.key \in OwnKeys
  BY DEF DeviceInv, DeviceTypeOK
<1> QED
  BY <1>1, <1>2, <1>3 DEF SecretOK

\* A profile that is left behind by a command that fails is of a key nobody claims.
LEMMA FailProfileKeeps ==
  ASSUME DeviceInv, NEW p \in Commands, FailProfile(p)
  PROVE  DeviceInv'
<1>1. CASE profile' = profile
  BY <1>1, EndsWithoutProfile DEF FailProfile, vars
<1>2. CASE profile' # profile
  <2>1. PICK k \in OwnKeys, c \in Secrets : k = cmd[p].key /\ c = cmd[p].c
    BY CommandFacts DEF FailProfile, CommandOK
  <2> DEFINE new == Profile(k, "prepared", "not_confirmed", None)
  <2>2. /\ ~Exists(c) /\ lock = p /\ Ends(p)
        /\ cmd[p].pc \in {"created", "reused"}
        /\ profile' = [profile EXCEPT ![c] = new]
        /\ keyFile' \in {keyFile, [keyFile EXCEPT ![c] = None]}
        /\ UNCHANGED <<challenge, told, sent, drawn, forgot>>
    BY <1>2, <2>1, CommandFacts DEF FailProfile, CommandOK, vars, Critical
  <2>3. /\ OnlyCommand(p) /\ LockMoves(p) /\ FilesAreOurs(p)
        /\ cmd' \in [Commands -> Cmds] /\ lock' \in Commands \cup {None}
        /\ cmd'[p].pc = "idle" /\ CommandOK(p)'
    BY <2>2, EndsMoves DEF FilesAreOurs
  <2>4. /\ new \in [key : OwnKeys \cup {None}, runner : Runners \cup {None},
                   state : {"missing", "prepared", "pending", "recorded"},
                   status : {"none", "not_confirmed", "claimed", "duplicate"}]
        /\ new.key = k /\ new.status = "not_confirmed"
    BY DEF Profile
  <2>5. \A d \in Secrets : profile'[d] = IF d = c THEN new ELSE profile[d]
    BY <2>2 DEF DeviceInv, DeviceTypeOK
  <2> HIDE DEF new
  <2>6. DeviceTypeOK' /\ ProfilesNameKeys'
    BY <2>2, <2>3, <2>4, <2>5 DEF DeviceInv, DeviceTypeOK, ProfilesNameKeys, Exists, Cmds
  <2>7. cmd'[p].pc \notin Claiming /\ cmd[p].pc # "await"
    BY <2>2, <2>3 DEF Claiming
  <2>8. ASSUME c \notin forgot PROVE SecretOK(c)'
    <3>1. /\ \A q \in Commands : ~(cmd[q].pc \in Claiming /\ cmd[q].c = c)
          /\ \A q \in sent : q.c # c
          /\ challenge[c].key \notin OwnKeys
      BY <2>2, <2>8, NothingClaimed
    <3>2. \A q \in Commands : ~(cmd'[q].pc \in Claiming /\ cmd'[q].c = c)
      BY <2>3, <2>7, <3>1 DEF OnlyCommand
    <3> QED
      BY <2>2, <2>4, <2>5, <3>1, <3>2 DEF SecretOK, Claiming
  <2>9. \A d \in Secrets \ {c} : profile'[d] = profile[d] /\ keyFile'[d] = keyFile[d]
    BY <2>2, <2>5 DEF DeviceInv, DeviceTypeOK
  <2> QED
    BY <2>2, <2>3, <2>6, <2>7, <2>8, <2>9, QuietStepKeeps
<1> QED
  BY <1>1, <1>2

\* The profile that is written names the key in the file, which no claim,
\* command or challenge can contradict: they would have needed a profile.
LEMMA WriteProfileKeeps ==
  ASSUME DeviceInv, NEW p \in Commands, WriteProfile(p)
  PROVE  DeviceInv'
<1>a. cmd[p].key \in OwnKeys /\ cmd[p].c \in Secrets
  BY CommandFacts DEF WriteProfile, CommandOK
<1>b. PICK k \in OwnKeys, c \in Secrets : k = cmd[p].key /\ c = cmd[p].c
  BY <1>a
<1> DEFINE new == Profile(k, "prepared", "not_confirmed", None)
<1>1. /\ k \in OwnKeys /\ c \in Secrets /\ ~Exists(c) /\ lock = p /\ keyFile[c] = k
      /\ cmd[p].pc \in {"created", "reused"}
      /\ profile' = [profile EXCEPT ![c] = new] /\ lock' = Unlocked(p)
      /\ GoesOn(p, "claim", k)
      /\ UNCHANGED <<challenge, told, sent, drawn, forgot, keyFile>>
  BY <1>b, CommandFacts DEF WriteProfile, CommandOK, vars, Critical
<1>2. /\ OnlyCommand(p) /\ cmd' \in [Commands -> Cmds]
      /\ cmd'[p].pc = "claim" /\ cmd'[p].key = k /\ cmd'[p].c = c
  BY <1>b, <1>1, GoesOnMoves
<1>3. LockMoves(p) /\ FilesAreOurs(p) /\ lock' \in Commands \cup {None}
  BY <1>1, CommandFacts DEF LockMoves, FilesAreOurs
<1>4. /\ new \in [key : OwnKeys \cup {None}, runner : Runners \cup {None},
                 state : {"missing", "prepared", "pending", "recorded"},
                 status : {"none", "not_confirmed", "claimed", "duplicate"}]
      /\ new.key = k /\ new.status = "not_confirmed"
  BY <1>1 DEF Profile
<1>5. \A d \in Secrets : profile'[d] = IF d = c THEN new ELSE profile[d]
  BY <1>1 DEF DeviceInv, DeviceTypeOK
<1>7. SecretOK(c)' \/ c \in forgot
  <2> SUFFICES ASSUME c \notin forgot PROVE SecretOK(c)'
    OBVIOUS
  <2>1. /\ \A q \in Commands : ~(cmd[q].pc \in Claiming /\ cmd[q].c = c)
        /\ \A q \in sent : q.c # c
        /\ challenge[c].key \notin OwnKeys
    BY <1>1, NothingClaimed
  <2>2. ASSUME NEW q \in Commands, cmd'[q].pc \in Claiming, cmd'[q].c = c
        PROVE  q = p
    BY <1>2, <2>1, <2>2 DEF OnlyCommand
  <2>5. profile'[c] = new
    BY <1>1, <1>5
  <2> HIDE DEF new
  <2>6. \A q \in Commands : cmd'[q].pc = "mark" => cmd'[q].pc \in Claiming
    BY DEF Claiming
  <2>8. \A q \in Commands :
            cmd'[q].pc \in Claiming /\ cmd'[q].c = c =>
                /\ profile'[c].key = cmd'[q].key /\ keyFile'[c] = cmd'[q].key
                /\ cmd'[q].pc # "mark"
    BY <1>1, <1>2, <1>4, <2>2, <2>5
  <2>9. profile'[c].status \notin {"claimed", "duplicate"}
    BY <1>4, <2>5
  <2>10. sent' = sent /\ challenge' = challenge
    BY <1>1
  <2> QED
    BY <2>1, <2>6, <2>8, <2>9, <2>10 DEF SecretOK, Held
<1> HIDE DEF new
<1>8. DeviceTypeOK'
  BY <1>1, <1>2, <1>3, <1>4 DEF DeviceInv, DeviceTypeOK, Cmds
<1>9. ProfilesNameKeys'
  BY <1>1, <1>4, <1>5 DEF DeviceInv, ProfilesNameKeys, Exists
<1>10. CommandOK(p)'
  BY <1>1, <1>2 DEF CommandOK, Critical
<1>11. ASSUME NEW d \in Secrets, d # c
       PROVE  profile'[d] = profile[d] /\ cmd'[p].c # d /\ keyFile'[d] = keyFile[d]
  BY <1>1, <1>2, <1>5, <1>11
<1>12. cmd[p].pc # "await"
  BY <1>1
<1>13. /\ UNCHANGED <<challenge, told, sent, forgot>> /\ p \in Commands \cup {None}
       /\ \A d \in Secrets \ forgot :
             \/ /\ profile'[d] = profile[d] /\ keyFile'[d] = keyFile[d]
                /\ cmd'[p].c # d
             \/ SecretOK(d)'
  BY <1>1, <1>7, <1>11
<1> QED
  BY <1>2, <1>3, <1>8, <1>9, <1>10, <1>12, <1>13, QuietStepKeeps

-----------------------------------------------------------------------------
(* The claim.                                                               *)

Claims == [by : Commands, c : Secrets, key : OwnKeys, live : BOOLEAN]

LEMMA SendClaimKeeps ==
  ASSUME DeviceInv, NEW p \in Commands, SendClaim(p)
  PROVE  DeviceInv'
<1>1. /\ cmd[p].pc = "claim" /\ cmd[p].c \in Secrets /\ cmd[p].key \in OwnKeys
      /\ GoesOn(p, "await", cmd[p].key)
      /\ UNCHANGED <<challenge, told, drawn, forgot, keyFile, profile, lock>>
  BY CommandFacts DEF SendClaim, CommandOK, vars, Claiming
<1>2. PICK q \in Claims : q = Claim(p, TRUE)
  BY <1>1 DEF Claim, Claims
<1>3. /\ sent' = sent \cup {q}
      /\ q.by = p /\ q.c = cmd[p].c /\ q.key = cmd[p].key
  BY <1>2 DEF SendClaim, Claim
<1>4. /\ OnlyCommand(p) /\ cmd' \in [Commands -> Cmds]
      /\ cmd'[p].pc = "await" /\ cmd'[p].key = cmd[p].key /\ cmd'[p].c = cmd[p].c
  BY <1>1, GoesOnMoves
<1>5. LockMoves(p) /\ FilesAreOurs(p) /\ ServerAgrees
  BY <1>1, KeepsAgrees DEF LockMoves, FilesAreOurs, ServerKeeps
<1>6. DeviceTypeOK' /\ ProfilesNameKeys'
  BY <1>1, <1>2, <1>3, <1>4 DEF DeviceInv, DeviceTypeOK, ProfilesNameKeys, Exists, Cmds, Claims
<1>7. CommandOK(p)'
  BY <1>1, <1>4 DEF CommandOK, Critical
<1>8. ASSUME NEW o \in sent' PROVE LiveOK(o)' \/ (o \in sent /\ o.by # p)
  <2>1. CASE o = q
    BY <1>3, <1>4, <2>1 DEF LiveOK
  <2>2. CASE o \in sent /\ o.by = p
    BY <1>1, <2>2 DEF LiveOK, DeviceInv
  <2> QED
    BY <1>3, <2>1, <2>2
<1>9. ASSUME NEW c \in Secrets \ forgot' PROVE SecretStep(p, c)
  <2>1. SecretOK(c)
    BY <1>1 DEF DeviceInv
  <2>2. cmd[p].c = c => Held(c, cmd[p].key)
    BY <1>1, <2>1 DEF SecretOK, Claiming
  <2> QED
    BY <1>1, <1>3, <1>4, <2>1, <2>2 DEF SecretStep, SecretOK
<1> QED
  BY <1>1, <1>4, <1>5, <1>6, <1>7, <1>8, <1>9, CommandStepKeeps

\* One live claim per command.
LEMMA LiveClaimIsAlone ==
  ASSUME DeviceInv, NEW q \in sent, NEW o \in sent, q.live, o.live, o.by = q.by
  PROVE  o = q
<1>1. q \in Claims /\ o \in Claims /\ LiveOK(q) /\ LiveOK(o)
  BY DEF DeviceInv, DeviceTypeOK, Claims
<1>2. o.c = q.c /\ o.key = q.key
  BY <1>1 DEF LiveOK
<1>3. o.live = TRUE /\ q.live = TRUE
  BY <1>1 DEF Claims
<1> QED
  BY <1>1, <1>2, <1>3 DEF Claims

\* A claim that ends without telling its command anything.
LEMMA EndClaimKeeps ==
  ASSUME DeviceInv, ServerAgrees, NEW q \in sent,
         UNCHANGED <<keyFile, profile, lock, drawn, forgot>>,
         sent' \subseteq (sent \ {q}) \cup {[q EXCEPT !.live = FALSE]},
         cmd' = IF q.live THEN [cmd EXCEPT ![q.by] = Idle] ELSE cmd
  PROVE  DeviceInv'
<1>1. PICK p \in Commands : p = q.by
  BY DEF DeviceInv, DeviceTypeOK
<1>2. cmd \in [Commands -> Cmds] /\ Idle \in Cmds /\ Idle.pc = "idle" /\ CommandOK(p)
  BY CommandFacts, OwnKeysAreKeys DEF Cmds, Idle, Command
<1>3. /\ OnlyCommand(p) /\ cmd' \in [Commands -> Cmds]
      /\ cmd'[p] = IF q.live THEN Idle ELSE cmd[p]
  BY <1>1, <1>2 DEF OnlyCommand
<1>4. LockMoves(p) /\ FilesAreOurs(p)
  BY DEF LockMoves, FilesAreOurs
<1>5. PICK late \in Claims : late = [q EXCEPT !.live = FALSE]
  BY DEF DeviceInv, DeviceTypeOK, Claims
<1>6. late.by = p /\ late.c = q.c /\ late.key = q.key /\ ~late.live
  BY <1>1, <1>5 DEF DeviceInv, DeviceTypeOK
<1>7. DeviceTypeOK' /\ ProfilesNameKeys'
  BY <1>3, <1>5 DEF DeviceInv, DeviceTypeOK, ProfilesNameKeys, Exists, Cmds, Claims
<1>8. CommandOK(p)'
  BY <1>2, <1>3 DEF CommandOK, Critical, Claiming, Exists
<1>9. ASSUME NEW o \in sent' PROVE LiveOK(o)' \/ (o \in sent /\ o.by # p)
  <2>1. CASE o = late
    BY <1>6, <2>1 DEF LiveOK
  <2>2. CASE o \in sent /\ o.by = p /\ o # q
    <3>1. LiveOK(o) /\ (q.live => ~o.live)
      BY <1>1, <2>2, LiveClaimIsAlone DEF DeviceInv
    <3> QED
      BY <1>3, <2>2, <3>1 DEF LiveOK
  <2> QED
    BY <1>5, <2>1, <2>2
<1>10. ASSUME NEW c \in Secrets \ forgot' PROVE SecretStep(p, c)
  <2>1. SecretOK(c)
    BY DEF DeviceInv
  <2>2. \A o \in sent' : o.c = c => Held(c, o.key)
    BY <1>5, <1>6, <2>1 DEF SecretOK
  <2>3. told[c] \subseteq told'[c]
    BY DEF ServerAgrees
  <2> QED
    BY <1>2, <1>3, <2>1, <2>2, <2>3 DEF SecretStep, SecretOK, Claiming
<1> QED
  BY <1>3, <1>4, <1>7, <1>8, <1>9, <1>10, CommandStepKeeps

LEMMA DropKeeps ==
  ASSUME DeviceInv, NEW q \in sent, Drop(q) \/ GiveUp(q)
  PROVE  DeviceInv'
<1>1. ServerAgrees
  BY KeepsAgrees DEF Drop, GiveUp, ServerKeeps, vars
<1>2. CASE Drop(q)
  BY <1>1, <1>2, EndClaimKeeps DEF Drop, Failed
<1>3. CASE GiveUp(q)
  BY <1>1, <1>3, EndClaimKeeps DEF GiveUp
<1> QED
  BY <1>2, <1>3

\* A served claim binds its key, which is the key of the profile.
LEMMA BoundKeys ==
  ASSUME IInv, NEW q \in sent, NEW t, q \in Claims,
         ClaimFirst(q.c, q.key, t) \/ ClaimAgain(q.c, q.key, t)
  PROVE  /\ \A c \in Challenges :
                /\ told[c] \subseteq told'[c]
                /\ challenge'[c].key \in {challenge[c].key} \cup
                       (IF c = q.c THEN {q.key} ELSE {})
         /\ q.key \in told'[q.c]
<1>1. /\ challenge \in [Challenges -> ChallengeRows]
      /\ told \in [Challenges -> SUBSET Keys]
      /\ q.c \in Challenges
  BY DeviceAssumption DEF IInv, TypeOK, ChallengeRows, Claims
<1>2. CASE ClaimFirst(q.c, q.key, t)
  <2>1. told' = [told EXCEPT ![q.c] = @ \cup {q.key}]
    BY <1>2 DEF ClaimFirst
  <2>2. \A d \in Challenges :
            challenge'[d].key = IF d = q.c THEN q.key ELSE challenge[d].key
    BY <1>1, <1>2 DEF ClaimFirst, ChallengeRows
  <2> QED
    BY <1>1, <2>1, <2>2
<1>3. CASE ClaimAgain(q.c, q.key, t)
  BY <1>1, <1>3 DEF ClaimAgain
<1> QED
  BY <1>2, <1>3

LEMMA ServeClaimKeeps ==
  ASSUME IInv, DeviceInv, NEW q \in sent, NEW t, ServeClaim(q, t)
  PROVE  DeviceInv'
<1>1. q \in Claims /\ LiveOK(q)
  BY DEF DeviceInv, DeviceTypeOK, Claims
<1>2. CASE ClaimTooLate(q.c, t) /\ Failed(q)
  <2>1. \A c \in Challenges : challenge'[c].key = challenge[c].key /\ told'[c] = told[c]
    BY <1>2 DEF ClaimTooLate, Close, IInv, TypeOK
  <2>2. ServerAgrees
    BY <2>1, KeepsAgrees DEF ServerKeeps
  <2> QED
    BY <1>2, <2>2, EndClaimKeeps DEF Failed
<1>3. ASSUME NEW status \in {"claimed", "duplicate"}, Answered(q, status),
             ClaimFirst(q.c, q.key, t) \/ ClaimAgain(q.c, q.key, t)
      PROVE  DeviceInv'
  <2>1. /\ \A c \in Challenges :
               /\ told[c] \subseteq told'[c]
               /\ challenge'[c].key \in {challenge[c].key} \cup
                       (IF c = q.c THEN {q.key} ELSE {})
        /\ q.key \in told'[q.c]
    BY <1>1, <1>3, BoundKeys
  <2>2. ServerAgrees
    <3> SUFFICES ASSUME NEW c \in Secrets \ forgot, challenge'[c].key \in OwnKeys
                 PROVE  Held(c, challenge'[c].key)
      BY <2>1, DeviceAssumption DEF ServerAgrees
    <3>1. SecretOK(c) /\ c \in Challenges
      BY DeviceAssumption DEF DeviceInv
    <3> QED
      BY <2>1, <3>1 DEF SecretOK
  <2>3. CASE cmd' = IF q.live THEN [cmd EXCEPT ![q.by] = Idle] ELSE cmd
    BY <1>3, <2>2, <2>3, EndClaimKeeps DEF Answered
  <2>4. CASE q.live /\ cmd' = [cmd EXCEPT ![q.by].pc = "mark", ![q.by].status = status]
    <3> DEFINE row == [cmd[q.by] EXCEPT !.pc = "mark", !.status = status]
    <3>1. PICK p \in Commands : p = q.by
      BY <1>1 DEF Claims
    <3>2. /\ cmd \in [Commands -> Cmds] /\ cmd[p] \in Cmds
          /\ cmd[p].c = q.c /\ cmd[p].key = q.key
          /\ q.c \in Secrets /\ q.key \in OwnKeys
      BY <1>1, <2>4, <3>1, CommandFacts DEF LiveOK, Claims
    <3>3. row \in Cmds /\ row.pc = "mark" /\ row.c = q.c /\ row.key = q.key
      BY <3>1, <3>2 DEF Cmds
    <3>4. cmd' = [cmd EXCEPT ![p] = row]
      BY <2>4, <3>1, <3>2 DEF Cmds
    <3> HIDE DEF row
    <3>5. OnlyCommand(p) /\ cmd' \in [Commands -> Cmds] /\ cmd'[p] = row
      BY <3>2, <3>3, <3>4 DEF OnlyCommand
    <3>6. /\ sent' = sent \ {q}
          /\ UNCHANGED <<keyFile, profile, lock, drawn, forgot>>
      BY <1>3 DEF Answered
    <3>7. LockMoves(p) /\ FilesAreOurs(p)
      BY <3>6 DEF LockMoves, FilesAreOurs
    <3>8. DeviceTypeOK' /\ ProfilesNameKeys'
      BY <3>5, <3>6 DEF DeviceInv, DeviceTypeOK, ProfilesNameKeys, Exists, Cmds
    <3>9. CommandOK(p)'
      BY <3>2, <3>3, <3>5 DEF CommandOK, Critical
    <3>10. ASSUME NEW o \in sent' PROVE LiveOK(o)' \/ (o \in sent /\ o.by # p)
      <4> SUFFICES ASSUME o.by = p PROVE LiveOK(o)'
        BY <3>6
      <4>1. ~o.live
        BY <2>4, <3>1, <3>6, LiveClaimIsAlone
      <4> QED
        BY <4>1 DEF LiveOK
    <3>11. ASSUME NEW c \in Secrets \ forgot' PROVE SecretStep(p, c)
      <4>1. SecretOK(c)
        BY <3>6 DEF DeviceInv
      <4> QED
        BY <2>1, <3>3, <3>5, <3>6, <4>1 DEF SecretStep, SecretOK
    <3> QED
      BY <2>2, <3>5, <3>6, <3>7, <3>8, <3>9, <3>10, <3>11, CommandStepKeeps
  <2> QED
    BY <1>3, <2>3, <2>4 DEF Answered
<1> QED
  BY <1>2, <1>3 DEF ServeClaim

\* A profile whose server status alone changes stays with its key.
LEMMA MarkKeeps ==
  ASSUME DeviceInv, NEW p \in Commands, Mark(p)
  PROVE  DeviceInv'
<1>1. PICK c \in Secrets : c = cmd[p].c
  BY CommandFacts DEF Mark, CommandOK
<1>2. /\ cmd[p].pc = "mark" /\ Ends(p)
      /\ UNCHANGED <<challenge, told, sent, drawn, forgot, keyFile>>
  BY DEF Mark, vars
<1>3. CASE UNCHANGED profile
  BY <1>2, <1>3, EndsKeeps
<1>4. CASE /\ lock = None /\ Exists(c)
           /\ profile' = [profile EXCEPT
                  ![c] = Profile(@.key, "pending", cmd[p].status, None)]
  <2> DEFINE new == Profile(profile[c].key, "pending", cmd[p].status, None)
  <2>1. /\ OnlyCommand(p) /\ LockMoves(p)
        /\ cmd' \in [Commands -> Cmds] /\ lock' \in Commands \cup {None}
        /\ cmd'[p].pc = "idle" /\ CommandOK(p)'
    BY <1>2, EndsMoves
  <2>2. FilesAreOurs(p)
    BY <1>4 DEF FilesAreOurs
  <2>3. /\ \A d \in Secrets : profile'[d] = IF d = c THEN new ELSE profile[d]
        /\ new.key = profile[c].key /\ new.status = cmd[p].status
        /\ new \in [key : OwnKeys \cup {None}, runner : Runners \cup {None},
                   state : {"missing", "prepared", "pending", "recorded"},
                   status : {"none", "not_confirmed", "claimed", "duplicate"}]
    BY <1>4, CommandFacts DEF DeviceInv, DeviceTypeOK, Profile, Cmds
  <2>4. profile' = [profile EXCEPT ![c] = new]
    BY <1>4 DEF DeviceInv, DeviceTypeOK
  <2> HIDE DEF new
  <2>5. DeviceTypeOK'
    BY <1>2, <2>1, <2>3, <2>4 DEF DeviceInv, DeviceTypeOK, Cmds
  <2>6. ProfilesNameKeys'
    BY <1>4, <2>3 DEF DeviceInv, ProfilesNameKeys, Exists
  <2>7. ASSUME c \notin forgot PROVE SecretOK(c)'
    <3>1. SecretOK(c)
      BY <2>7 DEF DeviceInv
    <3>2. profile'[c].key = profile[c].key /\ profile'[c].status = cmd[p].status
      BY <2>3
    <3>3. profile[c].key \in told[c]
      BY <1>1, <1>2, <3>1 DEF SecretOK, Held, Claiming
    <3>5. \A q \in Commands : cmd'[q].pc \in Claiming \/ cmd'[q].pc = "mark" => cmd'[q] = cmd[q]
      BY <2>1 DEF OnlyCommand, Claiming
    <3> QED
      BY <1>2, <3>1, <3>2, <3>3, <3>5 DEF SecretOK, Held
  <2>8. cmd'[p].pc \notin Claiming /\ cmd[p].pc # "await"
    BY <1>2, <2>1 DEF Claiming
  <2>9. \A d \in Secrets \ {c} : profile'[d] = profile[d] /\ keyFile'[d] = keyFile[d]
    BY <1>2, <2>3
  <2> QED
    BY <1>2, <2>1, <2>2, <2>5, <2>6, <2>7, <2>8, <2>9, QuietStepKeeps
<1> QED
  BY <1>1, <1>3, <1>4 DEF Mark

-----------------------------------------------------------------------------
(* `activate' and `forget'.                                                 *)

LEMMA ActivateKeeps ==
  ASSUME DeviceInv, NEW c \in Secrets, NEW r \in Runners, Activate(c, r)
  PROVE  DeviceInv'
<1> DEFINE new == [profile[c] EXCEPT !.state = "recorded", !.runner = r]
<1>1. /\ lock = None /\ Exists(c) /\ None \notin Commands
      /\ UNCHANGED <<challenge, told, sent, drawn, forgot, keyFile, lock, cmd>>
  BY DeviceAssumption DEF Activate, vars
<1>2. /\ new.key = profile[c].key /\ new.status = profile[c].status
      /\ new \in [key : OwnKeys \cup {None}, runner : Runners \cup {None},
                 state : {"missing", "prepared", "pending", "recorded"},
                 status : {"none", "not_confirmed", "claimed", "duplicate"}]
  BY DEF DeviceInv, DeviceTypeOK
<1>3. profile' = [profile EXCEPT ![c] = new]
  BY DEF Activate, DeviceInv, DeviceTypeOK
<1> HIDE DEF new
<1>4. \A d \in Secrets : profile'[d] = IF d = c THEN new ELSE profile[d]
  BY <1>3 DEF DeviceInv, DeviceTypeOK
<1>5. DeviceTypeOK'
  BY <1>1, <1>2, <1>3 DEF DeviceInv, DeviceTypeOK
<1>6. ProfilesNameKeys'
  BY <1>1, <1>2, <1>4 DEF DeviceInv, ProfilesNameKeys, Exists
<1>7. ASSUME c \notin forgot PROVE SecretOK(c)'
  <2>1. SecretOK(c)
    BY <1>7 DEF DeviceInv
  <2>2. profile'[c].key = profile[c].key /\ profile'[c].status = profile[c].status
    BY <1>2, <1>4
  <2> QED
    BY <1>1, <2>1, <2>2 DEF SecretOK, Held
<1>8. OnlyCommand(None) /\ LockMoves(None) /\ FilesAreOurs(None)
  BY <1>1 DEF OnlyCommand, LockMoves, FilesAreOurs
<1>9. \A d \in Secrets \ {c} : profile'[d] = profile[d] /\ keyFile'[d] = keyFile[d]
  BY <1>1, <1>4
<1> QED
  BY <1>1, <1>5, <1>6, <1>7, <1>8, <1>9, QuietStepKeeps

LEMMA ForgetKeeps ==
  ASSUME DeviceInv, NEW p \in Commands, NEW c \in Secrets, Forget(p, c)
  PROVE  DeviceInv'
<1>1. /\ cmd \in [Commands -> Cmds] /\ cmd[p] = Idle /\ lock = None
      /\ UNCHANGED <<challenge, told, sent, drawn, profile>>
      /\ keyFile' = [keyFile EXCEPT ![c] = None] /\ lock' = p
      /\ forgot' = forgot \cup {c}
  BY CommandFacts DEF Forget, vars
<1> DEFINE row == Command("forget", c, None, "none")
<1>2. /\ row \in Cmds /\ row.pc = "forget" /\ row.c = c
      /\ cmd' = [cmd EXCEPT ![p] = row]
  BY DEF Forget, Command, Cmds
<1> HIDE DEF row
<1>3. cmd' \in [Commands -> Cmds] /\ cmd'[p] = row /\ OnlyCommand(p)
  BY <1>1, <1>2 DEF OnlyCommand
<1>4. LockMoves(p) /\ FilesAreOurs(p) /\ ServerAgrees
  BY <1>1, KeepsAgrees DEF LockMoves, FilesAreOurs, ServerKeeps
<1>5. DeviceTypeOK' /\ ProfilesNameKeys'
  BY <1>1, <1>2, <1>3 DEF DeviceInv, DeviceTypeOK, ProfilesNameKeys, Exists, Cmds
<1>6. CommandOK(p)'
  BY <1>1, <1>2, <1>3 DEF CommandOK, Claiming
<1>7. ASSUME NEW q \in sent' PROVE LiveOK(q)' \/ (q \in sent /\ q.by # p)
  BY <1>1, OwnKeysAreKeys DEF DeviceInv, LiveOK
<1>8. ASSUME NEW d \in Secrets \ forgot' PROVE SecretStep(p, d)
  <2>1. SecretOK(d) /\ d # c
    BY <1>1 DEF DeviceInv
  <2>2. keyFile'[d] = keyFile[d]
    BY <1>1, <2>1 DEF DeviceInv, DeviceTypeOK
  <2> QED
    BY <1>1, <1>2, <1>3, <2>1, <2>2 DEF SecretStep, SecretOK, Claiming
<1>9. forgot \subseteq forgot'
  BY <1>1
<1> QED
  BY <1>3, <1>4, <1>5, <1>6, <1>7, <1>8, <1>9, CommandStepKeeps

LEMMA ForgetProfileKeeps ==
  ASSUME DeviceInv, NEW p \in Commands, ForgetProfile(p)
  PROVE  DeviceInv'
<1>1. PICK c \in forgot : c = cmd[p].c
  BY CommandFacts DEF ForgetProfile, CommandOK
<1>2. /\ cmd[p].pc = "forget" /\ Ends(p) /\ lock = p /\ c \in Secrets
      /\ UNCHANGED <<challenge, told, sent, drawn, forgot, keyFile>>
  BY CommandFacts DEF ForgetProfile, vars, CommandOK, Critical, DeviceInv, DeviceTypeOK
<1>3. CASE UNCHANGED profile
  BY <1>2, <1>3, EndsKeeps
<1>4. CASE profile' = [profile EXCEPT ![c] = NoProfile]
  <2>1. /\ OnlyCommand(p) /\ LockMoves(p)
        /\ cmd' \in [Commands -> Cmds] /\ lock' \in Commands \cup {None}
        /\ cmd'[p].pc = "idle" /\ CommandOK(p)'
    BY <1>2, EndsMoves
  <2>2. FilesAreOurs(p)
    BY <1>2 DEF FilesAreOurs
  <2>3. \A d \in Secrets : profile'[d] = IF d = c THEN NoProfile ELSE profile[d]
    BY <1>4 DEF DeviceInv, DeviceTypeOK
  <2>4. DeviceTypeOK'
    BY <1>2, <1>4, <2>1 DEF DeviceInv, DeviceTypeOK, Cmds, NoProfile, Profile
  <2>5. ProfilesNameKeys'
    BY <2>3 DEF DeviceInv, ProfilesNameKeys, Exists
  <2>6. cmd'[p].pc \notin Claiming /\ cmd[p].pc # "await"
    BY <1>2, <2>1 DEF Claiming
  <2>7. \A d \in Secrets \ forgot : profile'[d] = profile[d] /\ keyFile'[d] = keyFile[d]
    BY <1>2, <2>3
  <2> QED
    BY <1>2, <2>1, <2>2, <2>4, <2>5, <2>6, <2>7, QuietStepKeeps
<1> QED
  BY <1>1, <1>3, <1>4 DEF ForgetProfile

-----------------------------------------------------------------------------
(* The composition.                                                         *)

\* What the device and the others do to the server is what Pairing allows.
LEMMA DeviceStepsAreServerSteps ==
  ASSUME DeviceInv, DeviceNext PROVE [Next]_vars
<1>1. CASE Others
  BY <1>1 DEF Others, Next, ChallengeStep
<1>2. ASSUME NEW q \in sent, NEW t \in 0..now, ServeClaim(q, t) PROVE Next
  <2>1. q.c \in Challenges /\ q.key \in Keys
    BY DeviceAssumption DEF DeviceInv, DeviceTypeOK
  <2> QED
    BY <1>2, <2>1 DEF ServeClaim, Next, ChallengeStep
<1>3. ASSUME NEW q \in sent, Drop(q) \/ GiveUp(q) PROVE UNCHANGED vars
  BY <1>3 DEF Drop, GiveUp, vars
<1>4. ASSUME NEW p \in Commands, PairStep(p) \/ ForgetProfile(p) \/ Kill(p)
      PROVE  UNCHANGED vars
  BY <1>4 DEF PairStep, ForgetProfile, Kill, Prepare, ReuseProfile, RefusePrepare,
              ReuseKey, CreateKeyFile, WriteKeyFile, WriteProfile, FailProfile,
              SendClaim, Mark, vars
<1>5. ASSUME NEW p \in Commands, NEW c \in Secrets, Forget(p, c) PROVE UNCHANGED vars
  BY <1>5 DEF Forget, vars
<1>6. ASSUME NEW c \in Secrets, NEW r \in Runners, Activate(c, r) PROVE UNCHANGED vars
  BY <1>6 DEF Activate, vars
<1> QED
  BY <1>1, <1>2, <1>3, <1>4, <1>5, <1>6 DEF DeviceNext

LEMMA DeviceStepKeeps ==
  IInv /\ DeviceInv /\ [DeviceNext]_allVars => DeviceInv'
<1> SUFFICES ASSUME IInv, DeviceInv, [DeviceNext]_allVars PROVE DeviceInv'
  OBVIOUS
<1>1. CASE UNCHANGED allVars
  BY <1>1, ServerStepKeeps DEF allVars, vars, ServerKeeps
<1>2. CASE Others
  BY <1>2, OtherStepsKeep, ServerStepKeeps DEF Others
<1>3. ASSUME NEW p \in Commands, PairStep(p) PROVE DeviceInv'
  BY <1>3, PrepareKeeps, ReuseProfileKeeps, RefuseOrKillKeeps, ReuseKeyKeeps,
     CreateKeyFileKeeps, WriteKeyFileKeeps, WriteProfileKeeps, FailProfileKeeps,
     SendClaimKeeps, MarkKeeps DEF PairStep
<1>4. ASSUME NEW p \in Commands, ForgetProfile(p) \/ Kill(p) PROVE DeviceInv'
  BY <1>4, ForgetProfileKeeps, RefuseOrKillKeeps
<1>5. ASSUME NEW p \in Commands, NEW c \in Secrets, Forget(p, c) PROVE DeviceInv'
  BY <1>5, ForgetKeeps
<1>6. ASSUME NEW q \in sent, Drop(q) \/ GiveUp(q) PROVE DeviceInv'
  BY <1>6, DropKeeps
<1>7. ASSUME NEW q \in sent, NEW t, ServeClaim(q, t) PROVE DeviceInv'
  BY <1>7, ServeClaimKeeps
<1>8. ASSUME NEW c \in Secrets, NEW r \in Runners, Activate(c, r) PROVE DeviceInv'
  BY <1>8, ActivateKeeps
<1> QED
  BY <1>1, <1>2, <1>3, <1>4, <1>5, <1>6, <1>7, <1>8 DEF DeviceNext

LEMMA DeviceInvariant == DeviceSpec => [](IInv /\ DeviceInv)
<1>1. DeviceInit => IInv /\ DeviceInv
  BY InitIInv, InitDevice DEF DeviceInit
<1>2. IInv /\ DeviceInv /\ [DeviceNext]_allVars => (IInv /\ DeviceInv)'
  <2> SUFFICES ASSUME IInv, DeviceInv, [DeviceNext]_allVars PROVE IInv' /\ DeviceInv'
    OBVIOUS
  <2>1. [Next]_vars
    BY DeviceStepsAreServerSteps DEF allVars, vars
  <2> QED
    BY <2>1, StepIInv, DeviceStepKeeps
<1> QED
  BY <1>1, <1>2, PTL DEF DeviceSpec

\* The composition implements the pairing store: whatever the commands do, the
\* server only takes steps of Pairing's specification.
THEOREM DeviceImplementsPairing == DeviceSpec => Spec
<1>1. DeviceInit => Init
  BY DEF DeviceInit
<1>2. DeviceInv /\ [DeviceNext]_allVars => [Next]_vars
  BY DeviceStepsAreServerSteps DEF allVars, vars
<1> QED
  BY <1>1, <1>2, DeviceInvariant, PTL DEF DeviceSpec, Spec

\* `pair' never rotates a key that the server has bound, for any number of
\* commands, challenges and keys, whichever of them fail or are killed: the key is
\* in its file and in its profile until the owner forgets it.
THEOREM BoundKeysAreKept == DeviceSpec => []ClaimedKeysAreKept
<1>1. IInv /\ DeviceInv => ClaimedKeysAreKept
  <2> SUFFICES ASSUME DeviceInv, NEW c \in Secrets \ forgot,
                      challenge[c].key \in OwnKeys
               PROVE  keyFile[c] = challenge[c].key /\ profile[c].key = challenge[c].key
    BY DEF ClaimedKeysAreKept
  <2>1. SecretOK(c)
    BY DEF DeviceInv
  <2> QED
    BY <2>1 DEF SecretOK, Held
<1> QED
  BY <1>1, DeviceInvariant, PTL

\* A profile says that its claim was accepted only if the server acknowledged the
\* very key it names, whatever answers come late.
THEOREM AcceptedMarksAreEarned == DeviceSpec => []MarksAreEarned
<1>1. IInv /\ DeviceInv => MarksAreEarned
  BY DEF DeviceInv, SecretOK, MarksAreEarned
<1> QED
  BY <1>1, DeviceInvariant, PTL

\* The types of the device's files, commands and claims.
THEOREM DeviceTypes == DeviceSpec => []DeviceTypeOK
<1>1. IInv /\ DeviceInv => DeviceTypeOK
  BY DEF DeviceInv
<1> QED
  BY <1>1, DeviceInvariant, PTL
=============================================================================
