------------------------- MODULE KeptRecordsProofs -------------------------
(***************************************************************************)
(* Proofs about two records that are kept.                                 *)
(*                                                                         *)
(* The log of a build-off, for any number of actors, entries and verdicts: *)
(* who may judge it, what a release rests on, and that submitted evidence  *)
(* stands.                                                                 *)
(*                                                                         *)
(* The device storage, for any set of keys and any number of changes,      *)
(* revisions and faults: StorageInv is inductive, so what a flush          *)
(* confirmed survives, and "saved" is said of what is on the disk and of   *)
(* what was erased from it.                                                *)
(***************************************************************************)
EXTENDS BuildLifecycle, DeviceStorage, WellFoundedInduction, TLAPS

-----------------------------------------------------------------------------
(* The log of a build-off.                                                 *)

\* Where the log stands before a decision, before a score, and while the
\* candidate is disputed.
Unreviewed == {"absent", "draft", "submitted"}
Unscored == Unreviewed \cup {"decided"}
Judged == {"scored", "appeal_open", "appeal_resolved"}

CountIsKept ==
    /\ count \in Nat
    /\ stage = "absent" => count = 0

\* There is one creator and one reviewer; others act only after the score or
\* to end the lifecycle.
ActorsAreKnown ==
    /\ \A a \in Actors : <<"creator", a>> \in played => a = creator
    /\ \A a \in Actors : <<"reviewer", a>> \in played => a = reviewer
    /\ stage = "absent" => played = {}
    /\ stage = "decided" => reviewer # creator
    /\ stage \in Unreviewed =>
           \A r \in Roles, a \in Actors : <<r, a>> \in played => r = "creator"
    /\ stage \in Unscored =>
           \A r \in Roles, a \in Actors :
               <<r, a>> \in played => r \in {"creator", "reviewer"}

\* Bindings follow the stage.
EvidenceIsKnown ==
    /\ stage \in {"absent", "draft"} => frozen = {}
    /\ stage \notin {"absent", "draft", "tombstoned"} => entries = frozen
    /\ stage \in Unscored => scores = NoScores
    /\ stage \in Judged => /\ decision = "accepted_for_scoring"
                           /\ scores \in [frozen -> Verdicts]

\* The last outcome tells whether any appeal was upheld, and such a candidate
\* is on its way out.
AppealsAreKnown ==
    /\ "upheld" \in outcomes <=> lastAppealOutcome = "upheld"
    /\ stage \in Unscored \cup {"scored", "appeal_open"} => lastAppealOutcome # "upheld"
    /\ stage \notin {"appeal_open", "tombstoned"} => ~appealOpen

LifeInv ==
    /\ CountIsKept
    /\ ActorsAreKnown
    /\ ReviewerStandsApart
    /\ EvidenceIsKnown
    /\ AppealsAreKnown
    /\ RevocationsTellTheOutcome
    /\ ClosingAlwaysFits

-----------------------------------------------------------------------------
\* Whoever takes a role has no part that excludes it.
MayPlay(role, actor) ==
    \A r \in Roles : <<r, actor>> \in played =>
        /\ (role = "reviewer") <=> (r = "reviewer")
        /\ {role, r} # {"steward", "creator"}

LEMMA PartsStayApart ==
  ASSUME NEW role \in Roles, NEW actor \in Actors,
         ReviewerStandsApart, MayPlay(role, actor),
         played' = played \cup {<<role, actor>>}
  PROVE  ReviewerStandsApart'
<1> SUFFICES ASSUME NEW r \in Roles, NEW a \in Actors
             PROVE  /\ <<"reviewer", a>> \in played' /\ <<r, a>> \in played' => r = "reviewer"
                    /\ <<"steward", a>> \in played' /\ <<r, a>> \in played'
                           => r \notin {"creator", "reviewer"}
  BY DEF ReviewerStandsApart
<1>1. \A q \in Roles : <<q, a>> \in played' => <<q, a>> \in played \/ (q = role /\ a = actor)
  OBVIOUS
<1>2. /\ <<"reviewer", a>> \in played /\ <<r, a>> \in played => r = "reviewer"
      /\ <<"steward", a>> \in played /\ <<r, a>> \in played => r \notin {"creator", "reviewer"}
  BY DEF ReviewerStandsApart
<1>3. a = actor => \A q \in Roles : <<q, a>> \in played =>
                       /\ (role = "reviewer") <=> (q = "reviewer")
                       /\ role = "steward" => q # "creator"
                       /\ role = "creator" => q # "steward"
  BY DEF MayPlay
<1>4. {"reviewer", "steward"} \subseteq Roles
  BY DEF Roles
<1> QED
  BY <1>1, <1>2, <1>3, <1>4

\* The first log is as it should be.
LEMMA StartsWell == Init => LifeInv
BY DEF Init, LifeInv, CountIsKept, ActorsAreKnown, ReviewerStandsApart,
       EvidenceIsKnown, AppealsAreKnown, RevocationsTellTheOutcome,
       ClosingAlwaysFits, MAX_EVENTS, Unreviewed, Unscored, Judged, Outcomes, None

LEMMA DraftOpenedKeeps ==
  ASSUME NEW actor \in Actors, NEW incoming \in SUBSET Entries,
         LifeInv, DraftOpened(actor, incoming)
  PROVE  LifeInv' /\ (frozen # {} => entries' = entries /\ frozen' = frozen)
                  /\ (scores # NoScores => scores' = scores)
<1> USE DEF DraftOpened, AppendEvent, bindings, review, appeal, Unreviewed, Unscored, Judged
<1>1. CountIsKept' /\ ClosingAlwaysFits'
  BY DEF LifeInv, CountIsKept, ClosingAlwaysFits, Reserved, MAX_EVENTS
<1>2. ActorsAreKnown'
  BY DEF LifeInv, ActorsAreKnown, Roles
<1>3. ReviewerStandsApart'
  <2>1. MayPlay("creator", actor)
    BY DEF LifeInv, ActorsAreKnown, MayPlay, Roles
  <2>2. ReviewerStandsApart /\ played' = played \cup {<<"creator", actor>>}
    BY DEF LifeInv
  <2> QED
    BY <2>1, <2>2, PartsStayApart DEF Roles
<1>4. EvidenceIsKnown'
  BY DEF LifeInv, EvidenceIsKnown
<1>5. AppealsAreKnown' /\ RevocationsTellTheOutcome'
  BY DEF LifeInv, AppealsAreKnown, RevocationsTellTheOutcome, Outcomes, None
<1>6. /\ frozen # {} => entries' = entries /\ frozen' = frozen
      /\ scores # NoScores => scores' = scores
  BY DEF LifeInv, EvidenceIsKnown
<1> QED
  BY <1>1, <1>2, <1>3, <1>4, <1>5, <1>6 DEF LifeInv

LEMMA DraftAmendedKeeps ==
  ASSUME NEW actor \in Actors, NEW incoming \in SUBSET Entries,
         LifeInv, DraftAmended(actor, incoming)
  PROVE  LifeInv' /\ (frozen # {} => entries' = entries /\ frozen' = frozen)
                  /\ (scores # NoScores => scores' = scores)
<1> USE DEF DraftAmended, AppendEvent, bindings, review, appeal, Unreviewed, Unscored, Judged
<1>1. CountIsKept' /\ ClosingAlwaysFits'
  BY DEF LifeInv, CountIsKept, ClosingAlwaysFits, Reserved, MAX_EVENTS
<1>2. ActorsAreKnown'
  BY DEF LifeInv, ActorsAreKnown, Roles
<1>3. ReviewerStandsApart'
  <2>1. MayPlay("creator", actor)
    BY DEF LifeInv, ActorsAreKnown, MayPlay, Roles
  <2>2. ReviewerStandsApart /\ played' = played \cup {<<"creator", actor>>}
    BY DEF LifeInv
  <2> QED
    BY <2>1, <2>2, PartsStayApart DEF Roles
<1>4. EvidenceIsKnown'
  BY DEF LifeInv, EvidenceIsKnown
<1>5. AppealsAreKnown' /\ RevocationsTellTheOutcome'
  BY DEF LifeInv, AppealsAreKnown, RevocationsTellTheOutcome, Outcomes, None
<1>6. /\ frozen # {} => entries' = entries /\ frozen' = frozen
      /\ scores # NoScores => scores' = scores
  BY DEF LifeInv, EvidenceIsKnown
<1> QED
  BY <1>1, <1>2, <1>3, <1>4, <1>5, <1>6 DEF LifeInv

LEMMA ReviewSubmittedKeeps ==
  ASSUME NEW actor \in Actors,
         LifeInv, ReviewSubmitted(actor)
  PROVE  LifeInv' /\ (frozen # {} => entries' = entries /\ frozen' = frozen)
                  /\ (scores # NoScores => scores' = scores)
<1> USE DEF ReviewSubmitted, AppendEvent, bindings, review, appeal, Unreviewed, Unscored, Judged
<1>1. CountIsKept' /\ ClosingAlwaysFits'
  BY DEF LifeInv, CountIsKept, ClosingAlwaysFits, Reserved, MAX_EVENTS
<1>2. ActorsAreKnown'
  BY DEF LifeInv, ActorsAreKnown, Roles
<1>3. ReviewerStandsApart'
  <2>1. MayPlay("creator", actor)
    BY DEF LifeInv, ActorsAreKnown, MayPlay, Roles
  <2>2. ReviewerStandsApart /\ played' = played \cup {<<"creator", actor>>}
    BY DEF LifeInv
  <2> QED
    BY <2>1, <2>2, PartsStayApart DEF Roles
<1>4. EvidenceIsKnown'
  BY DEF LifeInv, EvidenceIsKnown
<1>5. AppealsAreKnown' /\ RevocationsTellTheOutcome'
  BY DEF LifeInv, AppealsAreKnown, RevocationsTellTheOutcome, Outcomes, None
<1>6. /\ frozen # {} => entries' = entries /\ frozen' = frozen
      /\ scores # NoScores => scores' = scores
  BY DEF LifeInv, EvidenceIsKnown
<1> QED
  BY <1>1, <1>2, <1>3, <1>4, <1>5, <1>6 DEF LifeInv

LEMMA DecisionRecordedKeeps ==
  ASSUME NEW actor \in Actors, NEW verdict \in Decisions,
         LifeInv, DecisionRecorded(actor, verdict)
  PROVE  LifeInv' /\ (frozen # {} => entries' = entries /\ frozen' = frozen)
                  /\ (scores # NoScores => scores' = scores)
<1> USE DEF DecisionRecorded, AppendEvent, bindings, review, appeal, Unreviewed, Unscored, Judged
<1>1. CountIsKept' /\ ClosingAlwaysFits'
  BY DEF LifeInv, CountIsKept, ClosingAlwaysFits, Reserved, MAX_EVENTS
<1>2. ActorsAreKnown'
  BY DEF LifeInv, ActorsAreKnown, Roles
<1>3. ReviewerStandsApart'
  <2>1. MayPlay("reviewer", actor)
    BY DEF LifeInv, ActorsAreKnown, MayPlay, Roles
  <2>2. ReviewerStandsApart /\ played' = played \cup {<<"reviewer", actor>>}
    BY DEF LifeInv
  <2> QED
    BY <2>1, <2>2, PartsStayApart DEF Roles
<1>4. EvidenceIsKnown'
  BY DEF LifeInv, EvidenceIsKnown
<1>5. AppealsAreKnown' /\ RevocationsTellTheOutcome'
  BY DEF LifeInv, AppealsAreKnown, RevocationsTellTheOutcome, Outcomes, None
<1>6. /\ frozen # {} => entries' = entries /\ frozen' = frozen
      /\ scores # NoScores => scores' = scores
  BY DEF LifeInv, EvidenceIsKnown
<1> QED
  BY <1>1, <1>2, <1>3, <1>4, <1>5, <1>6 DEF LifeInv

LEMMA CandidateScoredKeeps ==
  ASSUME NEW actor \in Actors, NEW incoming \in SUBSET Entries,
         NEW judgments \in [incoming -> Verdicts],
         LifeInv, CandidateScored(actor, incoming, judgments)
  PROVE  LifeInv' /\ (frozen # {} => entries' = entries /\ frozen' = frozen)
                  /\ (scores # NoScores => scores' = scores)
<1> USE DEF CandidateScored, AppendEvent, bindings, review, appeal, Unreviewed, Unscored, Judged
<1>1. CountIsKept' /\ ClosingAlwaysFits'
  BY DEF LifeInv, CountIsKept, ClosingAlwaysFits, Reserved, MAX_EVENTS
<1>2. ActorsAreKnown'
  BY DEF LifeInv, ActorsAreKnown, Roles
<1>3. ReviewerStandsApart'
  <2>1. MayPlay("reviewer", actor)
    BY DEF LifeInv, ActorsAreKnown, MayPlay, Roles
  <2>2. ReviewerStandsApart /\ played' = played \cup {<<"reviewer", actor>>}
    BY DEF LifeInv
  <2> QED
    BY <2>1, <2>2, PartsStayApart DEF Roles
<1>4. EvidenceIsKnown'
  BY DEF LifeInv, EvidenceIsKnown
<1>5. AppealsAreKnown' /\ RevocationsTellTheOutcome'
  BY DEF LifeInv, AppealsAreKnown, RevocationsTellTheOutcome, Outcomes, None
<1>6. /\ frozen # {} => entries' = entries /\ frozen' = frozen
      /\ scores # NoScores => scores' = scores
  BY DEF LifeInv, EvidenceIsKnown
<1> QED
  BY <1>1, <1>2, <1>3, <1>4, <1>5, <1>6 DEF LifeInv

LEMMA AppealOpenedKeeps ==
  ASSUME NEW actor \in Actors, NEW appealed \in SUBSET Entries,
         LifeInv, AppealOpened(actor, appealed)
  PROVE  LifeInv' /\ (frozen # {} => entries' = entries /\ frozen' = frozen)
                  /\ (scores # NoScores => scores' = scores)
<1> USE DEF AppealOpened, AppendEvent, bindings, review, appeal, Unreviewed, Unscored, Judged
<1>1. CountIsKept' /\ ClosingAlwaysFits'
  BY DEF LifeInv, CountIsKept, ClosingAlwaysFits, Reserved, MAX_EVENTS
<1>2. ActorsAreKnown'
  BY DEF LifeInv, ActorsAreKnown, Roles
<1>3. ReviewerStandsApart'
  <2>1. MayPlay("appeal_author", actor)
    BY DEF LifeInv, ActorsAreKnown, MayPlay, Roles
  <2>2. ReviewerStandsApart /\ played' = played \cup {<<"appeal_author", actor>>}
    BY DEF LifeInv
  <2> QED
    BY <2>1, <2>2, PartsStayApart DEF Roles
<1>4. EvidenceIsKnown'
  BY DEF LifeInv, EvidenceIsKnown
<1>5. AppealsAreKnown' /\ RevocationsTellTheOutcome'
  BY DEF LifeInv, AppealsAreKnown, RevocationsTellTheOutcome, Outcomes, None
<1>6. /\ frozen # {} => entries' = entries /\ frozen' = frozen
      /\ scores # NoScores => scores' = scores
  BY DEF LifeInv, EvidenceIsKnown
<1> QED
  BY <1>1, <1>2, <1>3, <1>4, <1>5, <1>6 DEF LifeInv

LEMMA AppealResolvedKeeps ==
  ASSUME NEW actor \in Actors, NEW outcome \in Outcomes,
         LifeInv, AppealResolved(actor, outcome)
  PROVE  LifeInv' /\ (frozen # {} => entries' = entries /\ frozen' = frozen)
                  /\ (scores # NoScores => scores' = scores)
<1> USE DEF AppealResolved, AppendEvent, bindings, review, appeal, Unreviewed, Unscored, Judged
<1>1. CountIsKept' /\ ClosingAlwaysFits'
  BY DEF LifeInv, CountIsKept, ClosingAlwaysFits, Reserved, MAX_EVENTS
<1>2. ActorsAreKnown'
  BY DEF LifeInv, ActorsAreKnown, Roles
<1>3. ReviewerStandsApart'
  <2>1. MayPlay("appeal_resolver", actor)
    BY DEF LifeInv, ActorsAreKnown, MayPlay, Roles
  <2>2. ReviewerStandsApart /\ played' = played \cup {<<"appeal_resolver", actor>>}
    BY DEF LifeInv
  <2> QED
    BY <2>1, <2>2, PartsStayApart DEF Roles
<1>4. EvidenceIsKnown'
  BY DEF LifeInv, EvidenceIsKnown
<1>5. AppealsAreKnown' /\ RevocationsTellTheOutcome'
  BY DEF LifeInv, AppealsAreKnown, RevocationsTellTheOutcome, Outcomes, None
<1>6. /\ frozen # {} => entries' = entries /\ frozen' = frozen
      /\ scores # NoScores => scores' = scores
  BY DEF LifeInv, EvidenceIsKnown
<1> QED
  BY <1>1, <1>2, <1>3, <1>4, <1>5, <1>6 DEF LifeInv

LEMMA ReceiptSupersededKeeps ==
  ASSUME NEW actor \in Actors,
         LifeInv, ReceiptSuperseded(actor)
  PROVE  LifeInv' /\ (frozen # {} => entries' = entries /\ frozen' = frozen)
                  /\ (scores # NoScores => scores' = scores)
<1> USE DEF ReceiptSuperseded, AppendEvent, bindings, review, appeal, Unreviewed, Unscored, Judged
<1>1. CountIsKept' /\ ClosingAlwaysFits'
  BY DEF LifeInv, CountIsKept, ClosingAlwaysFits, Reserved, MAX_EVENTS
<1>2. ActorsAreKnown'
  BY DEF LifeInv, ActorsAreKnown, Roles
<1>3. ReviewerStandsApart'
  <2>1. MayPlay("steward", actor)
    BY DEF LifeInv, ActorsAreKnown, MayPlay, Roles
  <2>2. ReviewerStandsApart /\ played' = played \cup {<<"steward", actor>>}
    BY DEF LifeInv
  <2> QED
    BY <2>1, <2>2, PartsStayApart DEF Roles
<1>4. EvidenceIsKnown'
  BY DEF LifeInv, EvidenceIsKnown
<1>5. AppealsAreKnown' /\ RevocationsTellTheOutcome'
  BY DEF LifeInv, AppealsAreKnown, RevocationsTellTheOutcome, Outcomes, None
<1>6. /\ frozen # {} => entries' = entries /\ frozen' = frozen
      /\ scores # NoScores => scores' = scores
  BY DEF LifeInv, EvidenceIsKnown
<1> QED
  BY <1>1, <1>2, <1>3, <1>4, <1>5, <1>6 DEF LifeInv

LEMMA CandidateRevokedKeeps ==
  ASSUME NEW actor \in Actors, NEW reason \in Reasons,
         LifeInv, CandidateRevoked(actor, reason)
  PROVE  LifeInv' /\ (frozen # {} => entries' = entries /\ frozen' = frozen)
                  /\ (scores # NoScores => scores' = scores)
<1> USE DEF CandidateRevoked, AppendEvent, bindings, review, appeal, Unreviewed, Unscored, Judged
<1>1. CountIsKept' /\ ClosingAlwaysFits'
  BY DEF LifeInv, CountIsKept, ClosingAlwaysFits, Reserved, MAX_EVENTS
<1>2. ActorsAreKnown'
  BY DEF LifeInv, ActorsAreKnown, Roles
<1>3. ReviewerStandsApart'
  <2>1. MayPlay("steward", actor)
    BY DEF LifeInv, ActorsAreKnown, MayPlay, Roles
  <2>2. ReviewerStandsApart /\ played' = played \cup {<<"steward", actor>>}
    BY DEF LifeInv
  <2> QED
    BY <2>1, <2>2, PartsStayApart DEF Roles
<1>4. EvidenceIsKnown'
  BY DEF LifeInv, EvidenceIsKnown
<1>5. AppealsAreKnown' /\ RevocationsTellTheOutcome'
  BY DEF LifeInv, AppealsAreKnown, RevocationsTellTheOutcome, Outcomes, None
<1>6. /\ frozen # {} => entries' = entries /\ frozen' = frozen
      /\ scores # NoScores => scores' = scores
  BY DEF LifeInv, EvidenceIsKnown
<1> QED
  BY <1>1, <1>2, <1>3, <1>4, <1>5, <1>6 DEF LifeInv

LEMMA LifecycleRetiredKeeps ==
  ASSUME NEW actor \in Actors,
         LifeInv, LifecycleRetired(actor)
  PROVE  LifeInv' /\ (frozen # {} => entries' = entries /\ frozen' = frozen)
                  /\ (scores # NoScores => scores' = scores)
<1> USE DEF LifecycleRetired, AppendEvent, bindings, review, appeal, Unreviewed, Unscored, Judged
<1>1. CountIsKept' /\ ClosingAlwaysFits'
  BY DEF LifeInv, CountIsKept, ClosingAlwaysFits, Reserved, MAX_EVENTS
<1>2. ActorsAreKnown'
  BY DEF LifeInv, ActorsAreKnown, Roles
<1>3. ReviewerStandsApart'
  <2>1. MayPlay("steward", actor)
    BY DEF LifeInv, ActorsAreKnown, MayPlay, Roles
  <2>2. ReviewerStandsApart /\ played' = played \cup {<<"steward", actor>>}
    BY DEF LifeInv
  <2> QED
    BY <2>1, <2>2, PartsStayApart DEF Roles
<1>4. EvidenceIsKnown'
  BY DEF LifeInv, EvidenceIsKnown
<1>5. AppealsAreKnown' /\ RevocationsTellTheOutcome'
  BY DEF LifeInv, AppealsAreKnown, RevocationsTellTheOutcome, Outcomes, None
<1>6. /\ frozen # {} => entries' = entries /\ frozen' = frozen
      /\ scores # NoScores => scores' = scores
  BY DEF LifeInv, EvidenceIsKnown
<1> QED
  BY <1>1, <1>2, <1>3, <1>4, <1>5, <1>6 DEF LifeInv

LEMMA PrivacyTombstonedKeeps ==
  ASSUME NEW actor \in Actors,
         LifeInv, PrivacyTombstoned(actor)
  PROVE  LifeInv' /\ (frozen # {} => entries' = entries /\ frozen' = frozen)
                  /\ (scores # NoScores => scores' = scores)
<1> USE DEF PrivacyTombstoned, AppendEvent, bindings, review, appeal, Unreviewed, Unscored, Judged
<1>1. CountIsKept' /\ ClosingAlwaysFits'
  BY DEF LifeInv, CountIsKept, ClosingAlwaysFits, Reserved, MAX_EVENTS
<1>2. ActorsAreKnown'
  BY DEF LifeInv, ActorsAreKnown, Roles
<1>3. ReviewerStandsApart'
  <2>1. MayPlay("steward", actor)
    BY DEF LifeInv, ActorsAreKnown, MayPlay, Roles
  <2>2. ReviewerStandsApart /\ played' = played \cup {<<"steward", actor>>}
    BY DEF LifeInv
  <2> QED
    BY <2>1, <2>2, PartsStayApart DEF Roles
<1>4. EvidenceIsKnown'
  BY DEF LifeInv, EvidenceIsKnown
<1>5. AppealsAreKnown' /\ RevocationsTellTheOutcome'
  BY DEF LifeInv, AppealsAreKnown, RevocationsTellTheOutcome, Outcomes, None
<1>6. /\ frozen # {} => entries' = entries /\ frozen' = frozen
      /\ scores # NoScores => scores' = scores
  BY DEF LifeInv, EvidenceIsKnown
<1> QED
  BY <1>1, <1>2, <1>3, <1>4, <1>5, <1>6 DEF LifeInv

-----------------------------------------------------------------------------
\* Each event the log accepts keeps the invariant and the evidence.
LEMMA EveryEvent ==
  ASSUME LifeInv, [Next]_log
  PROVE  LifeInv' /\ [frozen # {} => entries' = entries /\ frozen' = frozen]_log
                  /\ [scores # NoScores => scores' = scores]_log
<1>1. CASE UNCHANGED log
  BY <1>1 DEF log, LifeInv, CountIsKept, ActorsAreKnown, ReviewerStandsApart,
     EvidenceIsKnown, AppealsAreKnown, RevocationsTellTheOutcome, ClosingAlwaysFits
<1>2. CASE Next
  <2>1. PICK actor \in Actors :
           \/ \E incoming \in SUBSET Entries :
                  \/ DraftOpened(actor, incoming)
                  \/ DraftAmended(actor, incoming)
                  \/ \E judgments \in [incoming -> Verdicts] :
                         CandidateScored(actor, incoming, judgments)
                  \/ AppealOpened(actor, incoming)
           \/ ReviewSubmitted(actor)
           \/ \E verdict \in Decisions : DecisionRecorded(actor, verdict)
           \/ \E outcome \in Outcomes : AppealResolved(actor, outcome)
           \/ ReceiptSuperseded(actor)
           \/ \E reason \in Reasons : CandidateRevoked(actor, reason)
           \/ LifecycleRetired(actor)
           \/ PrivacyTombstoned(actor)
    BY <1>2 DEF Next
  <2> QED
    BY <2>1, DraftOpenedKeeps, DraftAmendedKeeps, ReviewSubmittedKeeps,
       DecisionRecordedKeeps, CandidateScoredKeeps, AppealOpenedKeeps,
       AppealResolvedKeeps, ReceiptSupersededKeeps, CandidateRevokedKeeps,
       LifecycleRetiredKeeps, PrivacyTombstonedKeeps
<1> QED
  BY <1>1, <1>2

\* The invariant of every log that append_lifecycle_event has built.
THEOREM LifecycleSafety == Spec => []LifeInv
<1>1. LifeInv /\ [Next]_log => LifeInv'
  BY EveryEvent
<1> QED
  BY StartsWell, <1>1, PTL DEF Spec

\* The reviewer has no other part in a build-off and its stewards were never
\* its creators (the role checks of replay_lifecycle, over whole logs).
THEOREM ReviewersStandApart == Spec => []ReviewerStandsApart
<1>1. LifeInv => ReviewerStandsApart
  BY DEF LifeInv
<1> QED
  BY LifecycleSafety, <1>1, PTL

\* What assert_new_use_allowed lets pass was accepted, judged on what was
\* submitted, and never lost an appeal.
THEOREM NewUseIsEarned == Spec => []UseIsEarned
<1>1. LifeInv => UseIsEarned
  BY DEF LifeInv, UseIsEarned, NewUseEligible, EvidenceIsKnown, AppealsAreKnown,
         Unreviewed, Unscored, Judged
<1> QED
  BY LifecycleSafety, <1>1, PTL

\* candidate_revoked names an upheld appeal exactly if there was one.
THEOREM RevocationsAreTrue == Spec => []RevocationsTellTheOutcome
<1>1. LifeInv => RevocationsTellTheOutcome
  BY DEF LifeInv
<1> QED
  BY LifecycleSafety, <1>1, PTL

\* The slots that _capacity reserves are there when they are needed.
THEOREM ClosingFits == Spec => []ClosingAlwaysFits
<1>1. LifeInv => ClosingAlwaysFits
  BY DEF LifeInv
<1> QED
  BY LifecycleSafety, <1>1, PTL

\* No event rewrites what was submitted or judged.
THEOREM SubmittedEvidenceStands == Spec => EvidenceStands
<1>1. LifeInv /\ [Next]_log =>
         [/\ frozen # {} => entries' = entries /\ frozen' = frozen
          /\ scores # NoScores => scores' = scores]_log
  BY EveryEvent
<1> QED
  BY LifecycleSafety, <1>1, PTL DEF Spec, EvidenceStands

-----------------------------------------------------------------------------
(* The device storage: the invariant.                                      *)

Busy == drain.pc \in {"write", "promote", "prune"}
Saving == drain.pc \in {"write", "promote"}

\* The content vals has what was confirmed by a, or what came later.
Follows(vals, a, gone) ==
    \A k \in Keys :
        \/ vals[k] = a.values[k]
        \/ vals[k] > a.at
        \/ vals[k] = Absent /\ gone[k] > a.at

\* Revisions order the committed files; a file purges up to itself at most.
OneLatest ==
    /\ Committed # {} =>
           \E f \in Committed : \A g \in Committed : g.rev <= f.rev
    /\ \A f, g \in Committed : f.rev = g.rev => f = g
    /\ \A f \in Committed : f.purge <= f.rev

\* The open checkpoint has read or written the latest file.
StoreKnowsLatest ==
    phase # "down" =>
        /\ \A f \in Committed :
               f.rev <= store.revision /\ (drain.pc = "promote" => f.rev < store.revision)
        /\ store.purge <= store.revision
        /\ Committed = {} => store.values = Empty /\ store.purge = 0
        /\ Committed # {} => store.values = Latest.values /\ store.purge = Latest.purge

\* What a process does at each phase, and what its clean-up may remove.
Phases ==
    /\ phase = "down" => drain = Idle
    /\ phase = "opening" => Busy
    /\ phase # "open" => waiting = {} /\ ~erasure /\ forgotten = {} /\ ~failed
    /\ phase = "opening" /\ Saving =>
           Committed = {} /\ drain.copy = legacy /\ ~drain.erase
    /\ phase = "open" => Committed # {}
    /\ drain.pc = "prune" => Committed # {}
    /\ phase = "open" /\ drain.pc = "prune" => Latest.values = drain.copy
    /\ drain.remove # {} => drain.pc = "prune"
    /\ \A f \in drain.remove : ~f.part => f.rev < Latest.rev

\* Nothing anywhere is of a change that is still to be made.
Versions ==
    /\ acked.at <= edit
    /\ \A k \in Keys : removed[k] <= edit
    /\ \A e \in erased : e[2] <= edit
    /\ \A f \in Committed, k \in Keys : f.values[k] <= edit
    /\ phase = "open" =>
           /\ saved <= edit
           /\ \A k \in Keys : values[k] <= edit
           /\ \A w \in waiting : w.at <= edit

\* What is on the disk and in the copy is older than what the copy lacks.
Capturing ==
    phase = "open" /\ Busy =>
        /\ saved <= drain.at /\ drain.at <= edit
        /\ \A f \in Committed, k \in Keys : f.values[k] <= drain.at
        /\ \A k \in Keys : drain.copy[k] <= drain.at
        /\ \A k \in Keys : \/ values[k] = drain.copy[k] \/ values[k] = Absent
                           \/ values[k] > drain.at
        /\ drain.at = edit => drain.copy = values

\* What was confirmed is in the memory, in the copy and on the disk; what a
\* flush waits for is in them as far as the drain and the saves have come.
Survives ==
    /\ Follows(Durable, acked, removed)
    /\ phase = "open" => Follows(values, acked, removed)
    /\ phase = "open" /\ Busy => Follows(drain.copy, acked, removed)
    /\ \A w \in waiting :
           /\ Follows(values, w, removed)
           /\ Busy /\ w.at <= drain.at => Follows(drain.copy, w, removed)
           /\ w.at <= saved => Follows(Durable, w, removed)
    /\ phase = "open" /\ saved = edit => Durable = values

\* A removed value is in no file that the purge spares but perhaps the latest,
\* and then a save that erases is due or under way.
Erasures ==
    /\ \A f \in Committed, k \in Keys : <<k, f.values[k]>> \in erased =>
           f.rev < Latest.purge \/ f.values[k] = Latest.values[k]
    /\ phase = "opening" => \A k \in Keys : <<k, Durable[k]>> \notin erased
    /\ phase = "open" => \A k \in Keys : <<k, values[k]>> \notin erased
    /\ phase = "open" => \A k \in Keys : <<k, Latest.values[k]>> \in erased =>
           erasure = TRUE \/ (Saving /\ drain.erase = TRUE)
    /\ phase = "open" /\ Busy => \A k \in Keys :
           <<k, drain.copy[k]>> \in erased => erasure = TRUE
    /\ phase = "open" /\ Saving => \A k \in Keys :
           <<k, Latest.values[k]>> \in erased /\ drain.copy[k] # Latest.values[k]
               => drain.erase = TRUE
    /\ phase = "open" => \A f \in Committed, k \in Keys :
           f.values[k] = values[k] /\ values[k] # Absent =>
               f.rev < Latest.purge \/ f.values[k] = Latest.values[k]

\* What an erasure purges is gone, about to go, or counted as a failure.
Pruned ==
    phase # "down" => \A f \in Committed : f.rev < Latest.purge =>
           f \in drain.remove \/ store.failures > 0

StorageInv ==
    OneLatest /\ StoreKnowsLatest /\ Phases /\ Versions /\ Capturing /\ Survives
        /\ Erasures /\ Pruned

-----------------------------------------------------------------------------
(* Greatest elements: what CHOOSE picks among the revisions.               *)

Less == {p \in Nat \X Nat : p[1] < p[2]}

\* The naturals are well founded.
LEMMA LessWF == IsWellFoundedOn(Less, Nat)
  BY NatLessThanWellFounded DEF OpToRel, Less

\* A bounded set of integers has a greatest one.
LEMMA GreatestOf ==
    ASSUME NEW b \in Int, NEW S \in SUBSET Int, S # {}, \A n \in S : n <= b
    PROVE  \E m \in S : \A n \in S : n <= m
<1> DEFINE T == {b - n : n \in S}
<1>1. T \subseteq Nat /\ T # {}
  <2>1. \A n \in S : b - n \in Nat
    OBVIOUS
  <2> QED
    BY <2>1
<1> HIDE DEF T
<1>2. PICK t \in T : \A u \in T : ~(<<u, t>> \in Less)
  BY <1>1, LessWF, WFMin
<1>3. \A u \in T : t <= u
  <2> TAKE u \in T
  <2>1. u \in Nat /\ t \in Nat /\ ~(u < t)
    BY <1>1, <1>2 DEF Less
  <2> QED
    BY <2>1
<1>4. PICK m \in S : t = b - m
  BY DEF T
<1>5. \A n \in S : b - m <= b - n
  BY <1>3, <1>4 DEF T
<1>6. \A n \in S : n <= m
  BY <1>5
<1> QED BY <1>6

Newest(S) == CHOOSE f \in S : \A g \in S : g.rev <= f.rev
DurableStays ==
    /\ Committed' = Committed
    /\ Latest' = Latest
    /\ Durable' = Durable

\* The file of the greatest revision, if no two share one.
LEMMA NewestIs ==
    ASSUME NEW S \in SUBSET Files, NEW f \in S,
           \A g \in S : g.rev <= f.rev,
           \A g, h \in S : g.rev = h.rev => g = h
    PROVE  /\ Newest(S) = f
           /\ \A g \in S : g # f => g.rev < f.rev
<1>1. Newest(S) \in S /\ \A g \in S : g.rev <= Newest(S).rev
  BY DEF Newest
<1>2. Newest(S).rev \in Nat /\ f.rev \in Nat /\ \A g \in S : g.rev \in Nat
  BY <1>1 DEF Files
<1>3. Newest(S).rev = f.rev
  BY <1>1, <1>2
<1> QED
  BY <1>1, <1>2, <1>3

\* The latest committed file is newer than all others, and the durable content
\* is its.
LEMMA LatestIs ==
    ASSUME StorageTypeOK, OneLatest, Committed # {}
    PROVE  /\ Latest \in Committed
           /\ Latest \in Files
           /\ \A g \in Committed : g # Latest => g.rev < Latest.rev
           /\ \A g \in Committed : g.rev <= Latest.rev
           /\ Durable = Latest.values
<1>1. Committed \in SUBSET Files
  BY DEF Committed, StorageTypeOK, Files
<1>2. PICK f \in Committed : \A g \in Committed : g.rev <= f.rev
  BY DEF OneLatest
<1>3. Latest = Newest(Committed)
  BY DEF Latest, Newest
<1>4. Newest(Committed) = f /\ \A g \in Committed : g # f => g.rev < f.rev
  BY <1>1, <1>2, NewestIs DEF OneLatest
<1> QED
  BY <1>1, <1>2, <1>3, <1>4 DEF Durable

\* The committed files are files of the disk.
LEMMA Typed ==
    ASSUME StorageTypeOK
    PROVE  /\ disk \in SUBSET Files
           /\ Committed \in SUBSET Files
  BY DEF StorageTypeOK, Files, Committed

-----------------------------------------------------------------------------
(* Types.                                                                  *)

USE BoundsAssumption DEF Migrated, Absent

\* Numbers of changes.
LEMMA EditsAre == Migrated \in Edits /\ 0 \notin Edits /\ Edits \subseteq Nat
  BY DEF Edits

\* The file of a save is a file.
LEMMA PartTyped ==
    ASSUME StorageTypeOK, NEW part \in BOOLEAN
    PROVE  Writing(Taken, part) \in Files
  BY DEF StorageTypeOK, Writing, Taken, File, Files, Purge, Stores, Drains

\* An idle drain, a new store and the empty content.
LEMMA IdleTyped ==
    /\ Empty \in Contents
    /\ NewStore \in Stores
    /\ NewStore.values = Empty /\ NewStore.purge = 0 /\ NewStore.revision = 0
    /\ \A S : Idle \in Drains(S)
    /\ \A S : \A pc \in {"settle"} : [Idle EXCEPT !.pc = pc] \in Drains(S)
    /\ Idle.pc = "idle" /\ Idle.remove = {} /\ Idle.copy = Empty
    /\ [Idle EXCEPT !.pc = "settle"].pc = "settle"
    /\ [Idle EXCEPT !.pc = "settle"].remove = {}
<1>1. Empty \in Contents
  BY DEF Empty, Contents
<1> QED
  BY <1>1 DEF Idle, NewStore, Drains, Stores

\* What a drain takes with it.
LEMMA CaptureIs ==
    ASSUME NEW vals, NEW at, NEW erase
    PROVE  /\ Capture(vals, at, erase).pc = "write"
           /\ Capture(vals, at, erase).copy = vals
           /\ Capture(vals, at, erase).at = at
           /\ Capture(vals, at, erase).erase = erase
           /\ Capture(vals, at, erase).remove = {}
  BY DEF Capture, Idle

\* It is a drain.
LEMMA CaptureTyped ==
    ASSUME NEW vals \in Contents, NEW at \in Edits, NEW erase \in BOOLEAN, NEW S
    PROVE  Capture(vals, at, erase) \in Drains(S)
  BY EditsAre DEF Capture, Idle, Drains

\* Faults are counted up to their bound.
LEMMA FaultTyped ==
    ASSUME StorageTypeOK, FileFault \/ UNCHANGED faults
    PROVE  faults' \in 0..MaxFaults
  BY DEF StorageTypeOK, FileFault

\* Types hold at first, and each step keeps them.
LEMMA TypeInit == StorageInit => StorageTypeOK
<1> SUFFICES ASSUME StorageInit PROVE StorageTypeOK
  OBVIOUS
<1>1. legacy \in Contents
  BY EditsAre DEF StorageInit, Contents
<1>2. acked \in Snapshots
  BY <1>1, EditsAre DEF StorageInit, Snapshots
<1>3. drain \in Drains(disk) /\ store \in Stores /\ values \in Contents
  BY IdleTyped DEF StorageInit
<1>4. removed \in [Keys -> Nat] /\ erased \in SUBSET (Keys \X Edits) /\ faults \in 0..MaxFaults
  BY DEF StorageInit
<1> QED
  BY <1>1, <1>2, <1>3, <1>4, EditsAre DEF StorageInit, StorageTypeOK

\* A save writes its part,
LEMMA TypeWritePart == StorageTypeOK /\ WritePart => StorageTypeOK'
<1> SUFFICES ASSUME StorageTypeOK, WritePart PROVE StorageTypeOK'
  OBVIOUS
<1>1. disk' \in SUBSET Files /\ disk \subseteq disk'
  BY PartTyped DEF WritePart, StorageTypeOK, Files
<1>2. store' \in Stores
  BY DEF WritePart, StorageTypeOK, Stores, Taken
<1>3. drain' \in Drains(disk')
  BY <1>1 DEF WritePart, StorageTypeOK, Drains
<1> QED
  BY <1>1, <1>2, <1>3 DEF StorageTypeOK, WritePart, history

\* promotes it,
LEMMA TypePromote == StorageTypeOK /\ Promote /\ drain.remove = {} => StorageTypeOK'
<1> SUFFICES ASSUME StorageTypeOK, Promote, drain.remove = {} PROVE StorageTypeOK'
  OBVIOUS
<1> DEFINE file == Writing(Taken, FALSE)
           files == (disk \ {Writing(Taken, TRUE)}) \cup {file}
<1>1. file \in Files
  BY PartTyped
<1>2. disk' = files /\ disk' \in SUBSET Files
  BY <1>1 DEF Promote, StorageTypeOK, Files
<1>3. ToRemove(files, file.rev, file.purge) \in SUBSET disk'
  BY <1>2 DEF ToRemove
<1>4. store' \in Stores /\ faults' \in 0..MaxFaults
  <2>1. \A n \in Nat : [revision |-> file.rev, values |-> file.values,
                        purge |-> file.purge, failures |-> n] \in Stores
    BY <1>1 DEF Files, Stores
  <2>2. store' \in Stores
    BY <2>1 DEF Promote
  <2> QED
    BY <2>2, FaultTyped DEF Promote
<1>5. drain' \in Drains(disk')
  BY <1>3 DEF Promote, StorageTypeOK, Drains
<1> QED
  BY <1>2, <1>4, <1>5 DEF StorageTypeOK, Promote, history

\* The change a settled drain confirms is the latest of those it covers.
Covered == {w \in waiting : w.at <= saved}

\* A settled drain confirms the latest of the changes that it covers, or
\* nothing.
LEMMA SettleAcks ==
    ASSUME StorageTypeOK, Settle
    PROVE  acked' = acked \/ acked' \in Covered
<1>1. Covered \subseteq Snapshots
  BY DEF Covered, StorageTypeOK
<1>2. CASE failed \/ Covered = {}
  BY <1>2 DEF Settle, Covered
<1>3. CASE ~failed /\ Covered # {}
  <2>1. \E w \in Covered : \A v \in Covered : v.at <= w.at
    <3> DEFINE ats == {w.at : w \in Covered}
    <3>1. \A w \in Covered : w.at \in Int /\ w.at <= saved
      <4> SUFFICES ASSUME NEW w \in Covered PROVE w.at \in Int /\ w.at <= saved
        OBVIOUS
      <4>1. w.at \in Edits
        BY <1>1 DEF Snapshots
      <4>2. w.at <= saved
        BY DEF Covered
      <4>3. w.at \in Int
        BY <4>1 DEF Edits
      <4> QED
        BY <4>2, <4>3
    <3>2. ats \in SUBSET Int /\ ats # {} /\ \A n \in ats : n <= saved
      BY <3>1, <1>3
    <3>3. saved \in Int
      BY EditsAre DEF StorageTypeOK
    <3> HIDE DEF ats
    <3>4. PICK m \in ats : \A n \in ats : n <= m
      BY <3>2, <3>3, GreatestOf
    <3> QED
      BY <3>4 DEF ats
  <2> QED
    BY <1>3, <2>1 DEF Settle, Covered
<1> QED
  BY <1>2, <1>3

\* removes older files,
LEMMA TypeRemoveFile == StorageTypeOK /\ RemoveFile => StorageTypeOK'
<1> SUFFICES ASSUME StorageTypeOK, RemoveFile PROVE StorageTypeOK'
  OBVIOUS
<1>1. disk' \in SUBSET Files /\ drain' \in Drains(disk')
  BY DEF StorageTypeOK, RemoveFile, Drains
<1>2. store' \in Stores
  BY DEF StorageTypeOK, RemoveFile, Stores
<1>3. faults' \in 0..MaxFaults
  BY FaultTyped DEF RemoveFile
<1> QED
  BY <1>1, <1>2, <1>3 DEF StorageTypeOK, RemoveFile, history

\* ends,
LEMMA TypeFinishSave == StorageTypeOK /\ Capturing /\ FinishSave => StorageTypeOK'
<1> SUFFICES ASSUME StorageTypeOK, Capturing, FinishSave PROVE StorageTypeOK'
  OBVIOUS
<1>1. drain' \in Drains(disk')
  <2>1. CASE edit = drain.at
    BY <2>1, IdleTyped DEF FinishSave, NextRound
  <2>2. CASE edit # drain.at
    BY <2>2, CaptureTyped DEF FinishSave, NextRound, StorageTypeOK
  <2> QED
    BY <2>1, <2>2
<1>2. erasure' \in BOOLEAN
  BY DEF FinishSave, NextRound, StorageTypeOK
<1>3. legacy' \in [Keys -> {Absent, Migrated}] /\ forgotten' \in SUBSET Keys
  BY DEF FinishSave, StorageTypeOK
<1>4. faults' \in 0..MaxFaults
  BY FaultTyped DEF FinishSave
<1>5. saved' \in Edits
  BY DEF FinishSave, Capturing, Busy, Edits, StorageTypeOK, Drains
<1> QED
  BY <1>1, <1>2, <1>3, <1>4, <1>5 DEF StorageTypeOK, FinishSave, history

\* or fails;
LEMMA TypeFailSave == StorageTypeOK /\ FailSave => StorageTypeOK'
<1> SUFFICES ASSUME StorageTypeOK, FailSave PROVE StorageTypeOK'
  OBVIOUS
<1>1. disk' \in SUBSET Files
  <2>1. Writing(Taken, TRUE) \in Files
    BY PartTyped
  <2> QED
    BY <2>1 DEF FailSave, StorageTypeOK
<1>2. store' \in Stores
  BY IdleTyped DEF FailSave, StorageTypeOK, Stores, Taken, Down
<1>3. drain' \in Drains(disk')
  BY IdleTyped DEF FailSave, Down
<1>4. faults' \in 0..MaxFaults
  BY FaultTyped DEF FailSave
<1>5. erasure' \in BOOLEAN
  BY DEF FailSave, Down, StorageTypeOK, Drains
<1>6. values' \in Contents
  BY IdleTyped DEF FailSave, Down, StorageTypeOK
<1> QED
  BY <1>1, <1>2, <1>3, <1>4, <1>5, <1>6 DEF StorageTypeOK, FailSave, Down, history

\* the drain settles;
LEMMA TypeSettle == StorageTypeOK /\ Settle => StorageTypeOK'
<1> SUFFICES ASSUME StorageTypeOK, Settle PROVE StorageTypeOK'
  OBVIOUS
<1>0. Idle \in Drains(disk') /\ Capture(values, edit, erasure) \in Drains(disk')
  BY IdleTyped, CaptureTyped DEF StorageTypeOK
<1>1. drain' \in Drains(disk') /\ erasure' \in BOOLEAN
  BY <1>0 DEF Settle, StorageTypeOK
<1>2. waiting' \in SUBSET Snapshots
  BY DEF Settle, Snapshots, StorageTypeOK
<1>3. acked' \in Snapshots
  <2>1. acked' = acked \/ acked' \in waiting
    BY SettleAcks DEF Covered
  <2> QED
    BY <2>1 DEF StorageTypeOK
<1> QED
  BY <1>1, <1>2, <1>3 DEF StorageTypeOK, Settle, history

\* a process opens the store
LEMMA TypeOpen == StorageTypeOK /\ OneLatest /\ Open => StorageTypeOK'
<1> SUFFICES ASSUME StorageTypeOK, OneLatest, Open PROVE StorageTypeOK'
  OBVIOUS
<1>1. legacy \in Contents
  BY EditsAre DEF Contents, StorageTypeOK
<1>2. ToRemove(disk, Latest.rev, Latest.purge) \in SUBSET disk
  BY DEF ToRemove
<1>3. Capture(legacy, edit, FALSE) \in Drains(disk)
  BY <1>1, CaptureTyped DEF StorageTypeOK
<1>4. store' \in Stores
  <2>1. CASE Committed = {}
    BY <2>1, IdleTyped DEF Open
  <2>2. CASE Committed # {}
    <3>1. PICK n \in {0, 1} : store' = Found(n)
      BY <2>2 DEF Open
    <3>2. Latest \in Files
      BY <2>2, LatestIs
    <3> QED
      BY <3>1, <3>2 DEF Found, Stores, Files
  <2> QED
    BY <2>1, <2>2
<1>5. drain' \in Drains(disk')
  <2>1. CASE Committed = {}
    BY <2>1, <1>3 DEF Open
  <2>2. CASE Committed # {}
    <3> DEFINE list == ToRemove(disk, Latest.rev, Latest.purge)
    <3>1. /\ [Idle EXCEPT !.pc = "prune", !.remove = list] \in Drains(disk)
          /\ [Idle EXCEPT !.pc = "prune"] \in Drains(disk)
      BY <1>2 DEF Idle, Drains, Empty, Contents
    <3> QED
      BY <2>2, <3>1 DEF Open
  <2> QED
    BY <2>1, <2>2
<1>6. faults' \in 0..MaxFaults
  BY FaultTyped DEF Open
<1> QED
  BY <1>4, <1>5, <1>6 DEF StorageTypeOK, Open, history

\* and reads it;
LEMMA TypeFinishOpen == StorageTypeOK /\ FinishOpen => StorageTypeOK'
  BY IdleTyped DEF StorageTypeOK, FinishOpen, Stores, history

\* the app sets a value,
LEMMA TypeSetItem == StorageTypeOK /\ (\E k \in Keys : SetItem(k)) => StorageTypeOK'
  BY DEF StorageTypeOK, SetItem, history, Contents, Edits

\* removes one,
LEMMA TypeRemoveItem == StorageTypeOK /\ (\E k \in Keys : RemoveItem(k)) => StorageTypeOK'
  BY DEF StorageTypeOK, RemoveItem, history, Contents, Edits

\* forgets the old matches,
LEMMA TypeForget == StorageTypeOK /\ ForgetLegacyMatches => StorageTypeOK'
  BY DEF StorageTypeOK, ForgetLegacyMatches, history

\* or flushes;
LEMMA TypeFlush == StorageTypeOK /\ Flush => StorageTypeOK'
<1> SUFFICES ASSUME StorageTypeOK, Flush PROVE StorageTypeOK'
  OBVIOUS
<1>0. Capture(values, edit, erasure) \in Drains(disk')
  BY CaptureTyped DEF StorageTypeOK
<1>1. drain' \in Drains(disk') /\ erasure' \in BOOLEAN /\ failed' \in BOOLEAN
  BY <1>0 DEF Flush, StorageTypeOK
<1>2. waiting' \in SUBSET Snapshots
  BY DEF Flush, Snapshots, StorageTypeOK
<1> QED
  BY <1>1, <1>2 DEF StorageTypeOK, Flush, history

\* and the process may die.
LEMMA TypeCrash == StorageTypeOK /\ Crash => StorageTypeOK'
<1> SUFFICES ASSUME StorageTypeOK, Crash PROVE StorageTypeOK'
  OBVIOUS
<1>1. drain' \in Drains(disk') /\ store' \in Stores /\ values' \in Contents
  BY IdleTyped DEF Crash, Down
<1>2. faults' \in 0..MaxFaults
  BY FaultTyped DEF Crash
<1> QED
  BY <1>1, <1>2 DEF StorageTypeOK, Crash, Down, history

\* Nothing happens.
LEMMA TypeStill == StorageTypeOK /\ UNCHANGED storageVars => StorageTypeOK'
  BY DEF StorageTypeOK, history, memory, storageVars

-----------------------------------------------------------------------------
(* What each step does to the files.                                       *)

\* The durable content is that of the committed files.
LEMMA StaysSame ==
    ASSUME Committed' = Committed, legacy' = legacy \/ Committed # {}
    PROVE  DurableStays
<1>1. Latest' = Latest
  BY DEF Latest
<1> QED
  BY <1>1 DEF Durable, DurableStays

\* Only the promotion of a part and the removal of a file change what is
\* committed.
LEMMA OthersKeepFiles ==
    ASSUME StorageTypeOK, Phases,
           \/ WritePart \/ FailSave \/ FinishSave \/ Settle \/ Open \/ FinishOpen
           \/ (\E k \in Keys : SetItem(k) \/ RemoveItem(k))
           \/ ForgetLegacyMatches \/ Flush \/ Crash \/ UNCHANGED storageVars
    PROVE  DurableStays
<1>1. CASE WritePart
  <2>1. Writing(Taken, TRUE).part = TRUE
    BY DEF Writing, File
  <2>2. Committed' = Committed
    BY <1>1, <2>1 DEF WritePart, Committed
  <2> QED
    BY <1>1, <2>2, StaysSame DEF WritePart
<1>2. CASE FailSave
  <2>1. Writing(Taken, TRUE).part = TRUE
    BY DEF Writing, File
  <2>2. Committed' = Committed
    BY <1>2, <2>1 DEF FailSave, Committed
  <2> QED
    BY <1>2, <2>2, StaysSame DEF FailSave
<1>3. CASE FinishSave
  <2>1. Committed' = Committed
    BY <1>3 DEF FinishSave, Committed
  <2> QED
    BY <1>3, <2>1, StaysSame DEF FinishSave, Phases
<1>4. CASE \/ Settle \/ Open \/ FinishOpen \/ (\E k \in Keys : SetItem(k) \/ RemoveItem(k))
           \/ ForgetLegacyMatches \/ Flush \/ Crash \/ UNCHANGED storageVars
  <2>1. disk' = disk /\ legacy' = legacy
    BY <1>4 DEF Settle, Open, FinishOpen, SetItem, RemoveItem, ForgetLegacyMatches,
                Flush, Crash, storageVars
  <2>2. Committed' = Committed
    BY <2>1 DEF Committed
  <2> QED
    BY <2>1, <2>2, StaysSame
<1> QED
  BY <1>1, <1>2, <1>3, <1>4

\* A promotion commits what the drain took along, as the latest file.
LEMMA PromoteCommits ==
    ASSUME StorageTypeOK, StorageInv, Promote
    PROVE  LET file == Writing(Taken, FALSE)
           IN /\ Committed' = Committed \cup {file}
              /\ Latest' = file
              /\ Durable' = drain.copy
              /\ file.values = drain.copy
              /\ file.rev = store.revision
              /\ file.purge = Purge(store.revision)
              /\ file.purge <= file.rev
              /\ \A g \in Committed : g.rev < file.rev /\ g # file
              /\ OneLatest'
<1> DEFINE file == Writing(Taken, FALSE)
<1>1. /\ file.part = FALSE /\ file.values = drain.copy /\ file.rev = store.revision
      /\ file.purge = Purge(store.revision) /\ Writing(Taken, TRUE).part = TRUE
  BY DEF Writing, File, Taken, Promote
<1>2. file \in Files
  BY PartTyped
<1> HIDE DEF file
<1>3. disk' = (disk \ {Writing(Taken, TRUE)}) \cup {file}
  BY DEF Promote, file
<1>4. Committed' = Committed \cup {file}
  BY <1>1, <1>3 DEF Committed
<1>5. Committed \subseteq Files
  BY DEF Committed, StorageTypeOK
<1>6. \A g \in Committed : g.rev < file.rev /\ g # file
  <2> SUFFICES ASSUME NEW g \in Committed PROVE g.rev < file.rev
    BY <1>2 DEF Files
  <2>1. phase # "down"
    BY IdleTyped DEF StorageInv, Phases, Promote
  <2> QED
    BY <1>1, <2>1 DEF StorageInv, StoreKnowsLatest, Promote
<1>7. file.purge <= file.rev
  <2>1. phase # "down"
    BY IdleTyped DEF StorageInv, Phases, Promote
  <2>2. store.revision \in Nat /\ store.purge \in Nat /\ store.purge <= store.revision
    BY <2>1 DEF StorageTypeOK, Stores, StorageInv, StoreKnowsLatest
  <2> QED
    BY <1>1, <2>2 DEF Purge
<1>8. OneLatest'
  <2>1. \A g \in Committed' : g.rev \in Nat /\ g.rev <= file.rev
    BY <1>2, <1>4, <1>5, <1>6 DEF Files
  <2>2. \A g, h \in Committed' : g.rev = h.rev => g = h
    BY <1>2, <1>4, <1>5, <1>6 DEF Files, StorageInv, OneLatest
  <2>3. \A g \in Committed' : g.purge <= g.rev
    BY <1>4, <1>7 DEF StorageInv, OneLatest
  <2> QED
    BY <1>4, <2>1, <2>2, <2>3 DEF OneLatest
<1>9. Latest' = file /\ Durable' = file.values
  <2>1. Committed' \in SUBSET Files
    BY <1>2, <1>4, <1>5
  <2>2. \A g \in Committed' : g.rev <= file.rev
    BY <1>2, <1>4, <1>5, <1>6 DEF Files
  <2>3. Newest(Committed') = file
    BY <1>4, <1>8, <2>1, <2>2, NewestIs DEF OneLatest
  <2>4. Latest' = Newest(Committed')
    BY DEF Latest, Newest
  <2> QED
    BY <1>4, <2>3, <2>4 DEF Durable
<1> QED
  BY <1>1, <1>4, <1>6, <1>7, <1>8, <1>9 DEF file

\* A removal spares the latest file.
LEMMA RemovalKeepsLatest ==
    ASSUME StorageTypeOK, StorageInv, RemoveFile
    PROVE  /\ Committed' \subseteq Committed
           /\ Committed # {}
           /\ Latest \in Committed'
           /\ Latest' = Latest
           /\ Durable' = Durable
           /\ OneLatest'
<1>1. Committed # {} /\ phase # "down"
  BY IdleTyped DEF StorageInv, Phases, RemoveFile
<1>2. PICK f \in drain.remove : disk' = disk \ {f} \/ disk' = disk
  BY DEF RemoveFile
<1>3. Committed' \subseteq Committed
  BY <1>2 DEF Committed
<1>4. Committed \subseteq Files
  BY DEF Committed, StorageTypeOK
<1>5. /\ Latest \in Committed /\ Durable = Latest.values
      /\ \A g \in Committed : g.rev <= Latest.rev
  BY <1>1, LatestIs DEF StorageInv
<1>6. Latest # f
  BY <1>4, <1>5 DEF StorageInv, Phases, Committed, Files
<1>7. Latest \in Committed'
  BY <1>2, <1>5, <1>6 DEF Committed
<1>8. OneLatest'
  <2>1. \A g \in Committed' : g.rev <= Latest.rev
    BY <1>3, <1>5
  <2> QED
    BY <1>3, <1>7, <2>1 DEF OneLatest, StorageInv
<1>9. Latest' = Latest /\ Durable' = Latest.values
  <2>1. Committed' \in SUBSET Files
    BY <1>3, <1>4
  <2>2. \A g \in Committed' : g.rev <= Latest.rev
    BY <1>3, <1>5
  <2>3. Newest(Committed') = Latest
    BY <1>7, <1>8, <2>1, <2>2, NewestIs DEF OneLatest
  <2>4. Latest' = Newest(Committed')
    BY DEF Latest, Newest
  <2> QED
    BY <1>7, <2>3, <2>4 DEF Durable
<1> QED
  BY <1>1, <1>3, <1>5, <1>7, <1>8, <1>9

\* Every step is a promotion, a removal or leaves the durable content alone.
LEMMA Steps ==
    ASSUME StorageTypeOK, StorageInv, [StorageNext]_storageVars
    PROVE  Promote \/ RemoveFile \/ DurableStays
  BY OthersKeepFiles DEF StorageNext, StorageInv

\* What a promotion does to the store and the drain.
LEMMA PromoteSets ==
    ASSUME StorageTypeOK, StorageInv, Promote
    PROVE  LET file == Writing(Taken, FALSE)
           IN /\ store'.revision = file.rev
              /\ store'.values = file.values
              /\ store'.purge = file.purge
              /\ store'.failures \in Nat
              /\ drain'.pc = "prune" /\ drain'.copy = drain.copy
              /\ drain'.at = drain.at /\ drain'.erase = drain.erase
              /\ \/ store'.failures > 0 /\ drain'.remove = {}
                 \/ drain'.remove = ToRemove(disk', file.rev, file.purge)
              /\ UNCHANGED <<legacy, phase, edit, saved, values, erasure,
                             forgotten, failed, waiting, acked, removed, erased>>
<1> DEFINE file == Writing(Taken, FALSE)
           stored(n) == [revision |-> file.rev, values |-> file.values,
                         purge |-> file.purge, failures |-> n]
<1>1. drain \in Drains(disk) /\ drain.remove = {}
  BY DEF StorageTypeOK, StorageInv, Phases, Promote
<1>2. disk' = (disk \ {Writing(Taken, TRUE)}) \cup {file}
  BY DEF Promote
<1>3. UNCHANGED <<legacy, phase, edit, saved, values, erasure,
                  forgotten, failed, waiting, acked, removed, erased>>
  BY DEF Promote, history
<1>4. \/ /\ store' = stored(0)
         /\ drain' = [drain EXCEPT !.pc = "prune",
                !.remove = ToRemove(disk', file.rev, file.purge)]
      \/ /\ store' = stored(1)
         /\ drain' = [drain EXCEPT !.pc = "prune"]
  BY <1>2 DEF Promote
<1> HIDE DEF file
<1>5. /\ store'.revision = file.rev /\ store'.values = file.values
      /\ store'.purge = file.purge
  BY <1>4
<1>7. \/ store'.failures = 0 /\ drain'.remove = ToRemove(disk', file.rev, file.purge)
      \/ store'.failures = 1 /\ drain'.remove = {}
  <2>1. CASE store' = stored(0) /\ drain' = [drain EXCEPT !.pc = "prune",
                !.remove = ToRemove(disk', file.rev, file.purge)]
    BY <1>1, <2>1 DEF Drains
  <2>2. CASE store' = stored(1) /\ drain' = [drain EXCEPT !.pc = "prune"]
    BY <1>1, <2>2 DEF Drains
  <2> QED
    BY <1>4, <2>1, <2>2
<1>6. /\ drain'.pc = "prune" /\ drain'.copy = drain.copy
      /\ drain'.at = drain.at /\ drain'.erase = drain.erase
  BY <1>1, <1>4 DEF Drains
<1>8. store'.failures \in Nat
  BY <1>7
<1>9. \/ store'.failures > 0 /\ drain'.remove = {}
      \/ drain'.remove = ToRemove(disk', file.rev, file.purge)
  BY <1>7
<1> QED
  BY <1>3, <1>5, <1>6, <1>8, <1>9, Zenon DEF file

\* What opening the store does.
LEMMA OpenSets ==
    ASSUME Open
    PROVE  /\ phase = "down" /\ phase' = "opening"
           /\ Committed = {} =>
                  /\ store' = NewStore
                  /\ drain'.pc = "write" /\ drain'.copy = legacy
                  /\ drain'.at = edit /\ drain'.erase = FALSE /\ drain'.remove = {}
           /\ Committed # {} =>
                  /\ store'.revision = Latest.rev /\ store'.values = Latest.values
                  /\ store'.purge = Latest.purge
                  /\ drain'.pc = "prune"
                  /\ \/ store'.failures > 0 /\ drain'.remove = {}
                     \/ drain'.remove = ToRemove(disk, Latest.rev, Latest.purge)
<1>1. CASE Committed = {}
  <2>1. drain' = Capture(legacy, edit, FALSE) /\ store' = NewStore
    BY <1>1 DEF Open
  <2>2. /\ drain'.pc = "write" /\ drain'.copy = legacy
        /\ drain'.at = edit /\ drain'.erase = FALSE /\ drain'.remove = {}
    BY <2>1 DEF Capture, Idle
  <2> QED
    BY <1>1, <2>1, <2>2 DEF Open
<1>2. CASE Committed # {}
  <2>0. /\ phase = "down" /\ phase' = "opening"
        /\ store'.revision = Latest.rev /\ store'.values = Latest.values
        /\ store'.purge = Latest.purge
    <3>1. PICK n \in {0, 1} : store' = Found(n)
      BY <1>2 DEF Open
    <3> QED
      BY <3>1 DEF Open, Found
  <2>1. CASE drain' = [Idle EXCEPT !.pc = "prune",
                          !.remove = ToRemove(disk, Latest.rev, Latest.purge)]
    <3>1. drain'.pc = "prune" /\ drain'.remove = ToRemove(disk, Latest.rev, Latest.purge)
      BY <2>1 DEF Idle
    <3> QED
      BY <1>2, <2>0, <3>1
  <2>2. CASE store' = Found(1) /\ drain' = [Idle EXCEPT !.pc = "prune"]
    <3>1. drain'.pc = "prune" /\ drain'.remove = {} /\ store'.failures > 0
      BY <2>2 DEF Idle, Found
    <3> QED
      BY <1>2, <2>0, <3>1
  <2>3. \/ drain' = [Idle EXCEPT !.pc = "prune",
                      !.remove = ToRemove(disk, Latest.rev, Latest.purge)]
        \/ store' = Found(1) /\ drain' = [Idle EXCEPT !.pc = "prune"]
    BY <1>2 DEF Open
  <2> QED
    BY <2>1, <2>2, <2>3
<1> QED
  BY <1>1, <1>2 DEF Open

\* The two ways a drain goes on after a save or after it settled.
LEMMA FinishSaveSets ==
    ASSUME FinishSave
    PROVE  /\ edit = drain.at =>
                  drain'.pc = "settle" /\ drain'.remove = {} /\ erasure' = erasure
           /\ edit # drain.at =>
                  /\ drain'.pc = "write" /\ drain'.copy = values /\ drain'.at = edit
                  /\ drain'.erase = erasure /\ erasure' = FALSE /\ drain'.remove = {}
<1>1. CASE edit = drain.at
  BY <1>1, IdleTyped DEF FinishSave, NextRound
<1>2. CASE edit # drain.at
  BY <1>2, CaptureIs DEF FinishSave, NextRound
<1> QED
  BY <1>1, <1>2

\* What settling does to the drain and to those who wait.
LEMMA SettleSets ==
    ASSUME Settle
    PROVE  \/ /\ drain' = Idle /\ erasure' = erasure /\ waiting' = {}
           \/ /\ drain'.pc = "write" /\ drain'.copy = values /\ drain'.at = edit
              /\ drain'.erase = erasure /\ erasure' = FALSE /\ drain'.remove = {}
              /\ waiting' = {[at |-> edit, values |-> values]}
<1>1. CASE drain' = Idle
  BY <1>1, CaptureIs DEF Settle
<1>2. CASE drain' # Idle
  <2>1. /\ drain' = Capture(values, edit, erasure) /\ erasure' = FALSE
        /\ waiting' = {[at |-> edit, values |-> values]}
    BY <1>2 DEF Settle
  <2> QED
    BY <2>1, CaptureIs
<1> QED
  BY <1>1, <1>2

\* What flush does to both.
LEMMA FlushSets ==
    ASSUME Flush
    PROVE  /\ drain.pc # "idle" => drain' = drain /\ erasure' = erasure
           /\ drain.pc = "idle" =>
                  /\ drain'.pc = "write" /\ drain'.copy = values /\ drain'.at = edit
                  /\ drain'.erase = erasure /\ erasure' = FALSE /\ drain'.remove = {}
           /\ waiting' = waiting \cup {[at |-> edit, values |-> values]}
<1>1. CASE drain.pc # "idle"
  BY <1>1 DEF Flush
<1>2. CASE drain.pc = "idle"
  BY <1>2, CaptureIs DEF Flush
<1> QED
  BY <1>1, <1>2 DEF Flush

-----------------------------------------------------------------------------
(* The parts of the invariant, one by one.                                 *)

\* Each part of the invariant is kept by every step.
LEMMA KeepOneLatest ==
    ASSUME StorageTypeOK, StorageInv, [StorageNext]_storageVars
    PROVE  OneLatest'
<1>1. CASE Promote
  BY <1>1, PromoteCommits
<1>2. CASE RemoveFile
  BY <1>2, RemovalKeepsLatest
<1>3. CASE DurableStays
  BY <1>3 DEF DurableStays, OneLatest, StorageInv
<1> QED
  BY <1>1, <1>2, <1>3, Steps

\* What the checkpoint knows of the latest file.
LEMMA KeepStoreKnowsLatest ==
    ASSUME StorageTypeOK, StorageInv, [StorageNext]_storageVars
    PROVE  StoreKnowsLatest'
<1> USE DEF StoreKnowsLatest
<1>0. /\ StoreKnowsLatest /\ OneLatest /\ Phases
      /\ Committed \subseteq Files /\ store \in Stores
  BY DEF StorageInv, StorageTypeOK, Committed
<1>00. \A f \in Committed : f.rev \in Nat /\ f.purge \in Nat
  BY <1>0 DEF Files
<1>01. store.revision \in Nat /\ store.purge \in Nat
  BY <1>0 DEF Stores
<1>1. CASE WritePart
  <2>1. DurableStays
    BY <1>1, OthersKeepFiles, <1>0
  <2>2. /\ store'.revision = store.revision + 1 /\ store'.values = store.values
        /\ store'.purge = store.purge /\ drain'.pc = "promote" /\ phase' = phase
    BY <1>1, <1>0 DEF WritePart, Taken, Stores, StorageTypeOK, Drains
  <2> QED
    BY <2>1, <2>2, <1>0, <1>00, <1>01 DEF DurableStays
<1>2. CASE Promote
  <2> DEFINE file == Writing(Taken, FALSE)
  <2>1. /\ Committed' = Committed \cup {file} /\ Latest' = file
        /\ file.rev = store.revision /\ \A g \in Committed : g.rev < file.rev
        /\ file.purge <= file.rev
    BY <1>2, PromoteCommits
  <2>2. /\ store'.revision = file.rev /\ store'.values = file.values
        /\ store'.purge = file.purge /\ drain'.pc = "prune"
    BY <1>2, PromoteSets
  <2> HIDE DEF file
  <2> QED
    BY <2>1, <2>2, <1>00, <1>01
<1>3. CASE RemoveFile
  <2>1. /\ store'.revision = store.revision /\ store'.values = store.values
        /\ store'.purge = store.purge /\ drain'.pc = drain.pc /\ phase' = phase
    BY <1>3, <1>0 DEF RemoveFile, Stores, StorageTypeOK, Drains
  <2> QED
    BY <2>1, <1>0, <1>3, RemovalKeepsLatest
<1>4. CASE FailSave
  <2>1. DurableStays
    BY <1>4, OthersKeepFiles, <1>0
  <2>2. CASE phase = "opening"
    BY <1>4, <2>2 DEF FailSave, Down
  <2>3. CASE phase # "opening"
    <3>1. /\ store'.revision \in {store.revision, store.revision + 1}
          /\ store'.values = store.values
          /\ store'.purge = store.purge /\ drain'.pc = "settle" /\ phase' = phase
      BY <1>4, <2>3, <1>0, IdleTyped DEF FailSave, Taken, Stores
    <3> QED
      BY <3>1, <2>1, <1>0, <1>00, <1>01 DEF DurableStays
  <2> QED
    BY <2>2, <2>3
<1>5. CASE Open
  <2>1. DurableStays
    BY <1>5, OthersKeepFiles, <1>0
  <2>2. CASE Committed = {}
    BY <1>5, <2>1, <2>2, OpenSets, IdleTyped DEF DurableStays
  <2>3. CASE Committed # {}
    <3>1. /\ store'.revision = Latest.rev /\ store'.values = Latest.values
          /\ store'.purge = Latest.purge /\ drain'.pc = "prune"
      BY <1>5, <2>3, OpenSets
    <3>2. /\ Latest \in Committed /\ \A g \in Committed : g.rev <= Latest.rev
      BY <2>3, <1>0, LatestIs
    <3> QED
      BY <2>1, <2>3, <3>1, <3>2, <1>0 DEF DurableStays, OneLatest
  <2> QED
    BY <2>2, <2>3
<1>6. CASE Crash
  BY <1>6 DEF Crash, Down
<1>7. CASE \/ FinishSave \/ Settle \/ FinishOpen
           \/ (\E k \in Keys : SetItem(k) \/ RemoveItem(k))
           \/ ForgetLegacyMatches \/ Flush \/ UNCHANGED storageVars
  <2>1. DurableStays
    BY <1>7, OthersKeepFiles, <1>0
  <2>2. store' = store /\ (phase' # "down" => phase # "down")
    BY <1>7 DEF FinishSave, Settle, FinishOpen, SetItem, RemoveItem,
                ForgetLegacyMatches, Flush, storageVars, memory
  <2>3. drain'.pc = "promote" => drain.pc = "promote"
    <3>1. CASE FinishSave
      BY <3>1, FinishSaveSets
    <3>2. CASE Settle
      BY <3>2, SettleSets, IdleTyped
    <3>3. CASE FinishOpen
      BY <3>3, IdleTyped DEF FinishOpen
    <3>4. CASE Flush
      BY <3>4, FlushSets
    <3>5. CASE (\E k \in Keys : SetItem(k) \/ RemoveItem(k)) \/ ForgetLegacyMatches \/ UNCHANGED storageVars
      BY <3>5 DEF SetItem, RemoveItem, ForgetLegacyMatches, storageVars, memory
    <3> QED
      BY <1>7, <3>1, <3>2, <3>3, <3>4, <3>5
  <2> QED
    BY <2>1, <2>2, <2>3, <1>0 DEF DurableStays
<1> QED
  BY <1>1, <1>2, <1>3, <1>4, <1>5, <1>6, <1>7 DEF StorageNext

\* What writing a part changes besides the disk.
LEMMA WritePartSets ==
    ASSUME StorageTypeOK, WritePart
    PROVE  /\ drain.pc = "write" /\ drain'.pc = "promote" /\ drain'.copy = drain.copy
           /\ drain'.at = drain.at /\ drain'.erase = drain.erase
           /\ drain'.remove = drain.remove
           /\ store'.values = store.values /\ store'.purge = store.purge
           /\ store'.failures = store.failures
           /\ legacy' = legacy /\ phase' = phase /\ edit' = edit /\ saved' = saved
           /\ values' = values /\ erasure' = erasure /\ forgotten' = forgotten
           /\ failed' = failed /\ waiting' = waiting /\ acked' = acked
           /\ removed' = removed /\ erased' = erased
<1>1. drain' = [drain EXCEPT !.pc = "promote"] /\ drain.pc = "write"
  BY DEF WritePart
<1>2. store' = [store EXCEPT !.revision = Taken]
  BY DEF WritePart
<1>3. drain \in Drains(disk) /\ store \in Stores
  BY DEF StorageTypeOK
<1>4. /\ legacy' = legacy /\ phase' = phase /\ edit' = edit /\ saved' = saved
      /\ values' = values /\ erasure' = erasure /\ forgotten' = forgotten
      /\ failed' = failed /\ waiting' = waiting /\ acked' = acked
      /\ removed' = removed /\ erased' = erased
  BY DEF WritePart, history
<1>5. /\ drain'.pc = "promote" /\ drain'.copy = drain.copy
      /\ drain'.at = drain.at /\ drain'.erase = drain.erase
      /\ drain'.remove = drain.remove
  BY <1>1, <1>3 DEF Drains
<1>6. /\ store'.values = store.values /\ store'.purge = store.purge
      /\ store'.failures = store.failures
  BY <1>2, <1>3 DEF Stores
<1> QED
  BY <1>1, <1>4, <1>5, <1>6

\* What a removal, or its failure, does.
LEMMA RemoveFileSets ==
    ASSUME StorageTypeOK, RemoveFile
    PROVE  /\ drain.pc = "prune" /\ drain'.pc = "prune" /\ drain'.copy = drain.copy
           /\ drain'.at = drain.at /\ drain'.erase = drain.erase
           /\ store'.values = store.values /\ store'.purge = store.purge
           /\ \E f \in drain.remove :
                  /\ drain'.remove = drain.remove \ {f}
                  /\ \/ disk' = disk \ {f} /\ store'.failures = store.failures
                     \/ disk' = disk /\ store'.failures = store.failures + 1
           /\ legacy' = legacy /\ phase' = phase /\ edit' = edit /\ saved' = saved
           /\ values' = values /\ erasure' = erasure /\ forgotten' = forgotten
           /\ failed' = failed /\ waiting' = waiting /\ acked' = acked
           /\ removed' = removed /\ erased' = erased
<1>1. PICK f \in drain.remove :
          /\ drain' = [drain EXCEPT !.remove = @ \ {f}]
          /\ \/ disk' = disk \ {f} /\ store' = store
             \/ disk' = disk /\ store' = [store EXCEPT !.failures = @ + 1]
  BY DEF RemoveFile
<1>2. drain \in Drains(disk) /\ store \in Stores /\ drain.pc = "prune"
  BY DEF StorageTypeOK, RemoveFile
<1>3. /\ legacy' = legacy /\ phase' = phase /\ edit' = edit /\ saved' = saved
      /\ values' = values /\ erasure' = erasure /\ forgotten' = forgotten
      /\ failed' = failed /\ waiting' = waiting /\ acked' = acked
      /\ removed' = removed /\ erased' = erased
  BY DEF RemoveFile, history
<1>4. /\ drain'.pc = "prune" /\ drain'.copy = drain.copy
      /\ drain'.at = drain.at /\ drain'.erase = drain.erase
      /\ drain'.remove = drain.remove \ {f}
  BY <1>1, <1>2 DEF Drains
<1>5. /\ store'.values = store.values /\ store'.purge = store.purge
      /\ \/ disk' = disk \ {f} /\ store'.failures = store.failures
         \/ disk' = disk /\ store'.failures = store.failures + 1
  BY <1>1, <1>2 DEF Stores
<1> QED
  BY <1>2, <1>3, <1>4, <1>5

\* What a failed save does.
LEMMA FailSaveSets ==
    ASSUME StorageTypeOK, FailSave
    PROVE  /\ Saving
           /\ phase = "opening" => Down
           /\ phase # "opening" =>
                  /\ drain'.pc = "settle" /\ drain'.remove = {}
                  /\ store'.values = store.values /\ store'.purge = store.purge
                  /\ store'.failures = store.failures
                  /\ erasure' = (erasure \/ drain.erase)
                  /\ phase' = phase /\ saved' = saved /\ values' = values
                  /\ forgotten' = forgotten /\ waiting' = waiting
           /\ legacy' = legacy /\ edit' = edit /\ acked' = acked
           /\ removed' = removed /\ erased' = erased
<1>1. CASE phase = "opening"
  BY <1>1 DEF FailSave, Saving, history
<1>2. CASE phase # "opening"
  <2>1. store' = [store EXCEPT !.revision = Taken] /\ store \in Stores
    BY <1>2 DEF FailSave, StorageTypeOK
  <2>2. /\ store'.values = store.values /\ store'.purge = store.purge
        /\ store'.failures = store.failures
    BY <2>1 DEF Stores
  <2>3. drain' = [Idle EXCEPT !.pc = "settle"]
    BY <1>2 DEF FailSave
  <2>4. drain'.pc = "settle" /\ drain'.remove = {}
    BY <2>3, IdleTyped
  <2>5. /\ erasure' = (erasure \/ drain.erase)
        /\ phase' = phase /\ saved' = saved /\ values' = values
        /\ forgotten' = forgotten /\ waiting' = waiting
    BY <1>2 DEF FailSave
  <2>6. /\ legacy' = legacy /\ edit' = edit /\ acked' = acked
        /\ removed' = removed /\ erased' = erased /\ Saving
    BY DEF FailSave, history, Saving
  <2> QED
    BY <1>2, <2>2, <2>4, <2>5, <2>6
<1> QED
  BY <1>1, <1>2

\* What the end of a process leaves.
LEMMA DownSets ==
    ASSUME Down
    PROVE  /\ phase' = "down" /\ drain' = Idle /\ waiting' = {} /\ erasure' = FALSE
           /\ forgotten' = {} /\ failed' = FALSE /\ saved' = edit
           /\ drain'.pc = "idle" /\ drain'.remove = {}
  BY IdleTyped DEF Down

\* The phases.
LEMMA KeepPhases ==
    ASSUME StorageTypeOK, StorageInv, [StorageNext]_storageVars
    PROVE  Phases'
<1> USE DEF Phases, Busy, Saving
<1>0. /\ Phases /\ OneLatest
      /\ Committed \subseteq Files
  BY DEF StorageInv, StorageTypeOK, Committed
<1>1. CASE WritePart
  <2>1. DurableStays
    BY <1>1, OthersKeepFiles, <1>0
  <2>2. phase' = "opening" /\ Saving' =>
            Committed' = {} /\ drain'.copy = legacy' /\ ~drain'.erase
    <3>1. drain.pc = "write" /\ phase' = phase /\ drain'.copy = drain.copy
          /\ drain'.erase = drain.erase /\ legacy' = legacy
      BY <1>1, WritePartSets
    <3>2. drain.erase \in BOOLEAN
      BY DEF StorageTypeOK, Drains
    <3> QED
      BY <1>0, <2>1, <3>1, <3>2 DEF DurableStays
  <2>3. drain'.pc = "promote" /\ drain'.pc # "prune" /\ drain'.pc \in {"promote"}
    BY <1>1, WritePartSets
  <2> QED
    BY <1>1, <2>1, <2>2, <2>3, <1>0, WritePartSets, IdleTyped DEF DurableStays
<1>2. CASE Promote
  <2> DEFINE file == Writing(Taken, FALSE)
  <2>1. /\ Committed' = Committed \cup {file} /\ Latest' = file
        /\ file.values = drain.copy
        /\ \A g \in Committed : g.rev < file.rev
    BY <1>2, PromoteCommits
  <2>2. /\ drain'.pc = "prune" /\ drain'.copy = drain.copy
        /\ \/ drain'.remove = {}
           \/ drain'.remove = ToRemove(disk', file.rev, file.purge)
        /\ phase' = phase /\ erasure' = erasure /\ waiting' = waiting
        /\ forgotten' = forgotten /\ failed' = failed
    BY <1>2, PromoteSets
  <2>3. \A f \in drain'.remove : ~f.part => f.rev < Latest'.rev
    BY <2>1, <2>2 DEF ToRemove
  <2>4. phase # "down"
    BY <1>0, <1>2, IdleTyped DEF Promote
  <2> HIDE DEF file
  <2> QED
    BY <2>1, <2>2, <2>3, <2>4, <1>0
<1>3. CASE RemoveFile
  <2>1. Committed' # {} /\ Latest' = Latest
    BY <1>3, RemovalKeepsLatest
  <2>2. phase # "down"
    BY <1>0, <1>3, IdleTyped DEF RemoveFile
  <2> QED
    BY <1>0, <1>3, <2>1, <2>2, RemoveFileSets
<1>4. CASE FailSave
  <2>1. DurableStays
    BY <1>4, OthersKeepFiles, <1>0
  <2>2. CASE phase = "opening"
    BY <1>4, <2>2, FailSaveSets, DownSets, IdleTyped
  <2>3. CASE phase # "opening"
    <3>1. phase = "open"
      BY <1>0, <1>4, <2>3, FailSaveSets, IdleTyped DEF StorageTypeOK
    <3> QED
      BY <1>0, <1>4, <2>1, <3>1, FailSaveSets DEF DurableStays
  <2> QED
    BY <2>2, <2>3
<1>5. CASE Open
  <2>1. DurableStays
    BY <1>5, OthersKeepFiles, <1>0
  <2>2. /\ phase = "down" /\ phase' = "opening" /\ waiting' = waiting
        /\ erasure' = erasure /\ forgotten' = forgotten /\ failed' = failed
        /\ legacy' = legacy
    BY <1>5 DEF Open
  <2>3. CASE Committed = {}
    BY <1>0, <1>5, <2>1, <2>2, <2>3, OpenSets DEF DurableStays
  <2>4. CASE Committed # {}
    <3>1. /\ drain'.pc = "prune"
          /\ \/ drain'.remove = {}
             \/ drain'.remove = ToRemove(disk, Latest.rev, Latest.purge)
      BY <1>5, <2>4, OpenSets
    <3>2. \A f \in drain'.remove : ~f.part => f.rev < Latest.rev
      BY <3>1 DEF ToRemove
    <3> QED
      BY <1>0, <2>1, <2>2, <2>4, <3>1, <3>2 DEF DurableStays
  <2> QED
    BY <2>3, <2>4
<1>6. CASE Crash
  BY <1>6, DownSets, IdleTyped DEF Crash
<1>7. CASE FinishSave
  <2>1. DurableStays
    BY <1>7, OthersKeepFiles, <1>0
  <2>2. phase = "open" /\ phase' = "open" /\ drain.pc = "prune"
    BY <1>7 DEF FinishSave
  <2> QED
    BY <1>0, <1>7, <2>1, <2>2, FinishSaveSets DEF DurableStays
<1>8. CASE Settle
  <2>1. DurableStays
    BY <1>8, OthersKeepFiles, <1>0
  <2>2. phase = "open" /\ phase' = "open"
    BY <1>0, <1>8, IdleTyped DEF Settle, StorageTypeOK
  <2> QED
    BY <1>0, <1>8, <2>1, <2>2, SettleSets, IdleTyped DEF DurableStays
<1>9. CASE FinishOpen
  <2>1. DurableStays
    BY <1>9, OthersKeepFiles, <1>0
  <2> QED
    BY <1>0, <1>9, <2>1, IdleTyped DEF FinishOpen, DurableStays
<1>10. CASE Flush
  <2>1. DurableStays
    BY <1>10, OthersKeepFiles, <1>0
  <2>2. phase = "open" /\ phase' = "open"
    BY <1>10 DEF Flush
  <2> QED
    BY <1>0, <1>10, <2>1, <2>2, FlushSets DEF DurableStays
<1>11. CASE (\E k \in Keys : SetItem(k) \/ RemoveItem(k)) \/ ForgetLegacyMatches
  <2>1. DurableStays
    BY <1>11, OthersKeepFiles, <1>0
  <2>2. phase = "open" /\ phase' = "open" /\ drain' = drain
    BY <1>11 DEF SetItem, RemoveItem, ForgetLegacyMatches
  <2> QED
    BY <1>0, <2>1, <2>2 DEF DurableStays
<1>12. CASE UNCHANGED storageVars
  <2>1. DurableStays
    BY <1>12, OthersKeepFiles, <1>0
  <2> QED
    BY <1>0, <1>12, <2>1 DEF DurableStays, storageVars, memory
<1> QED
  BY <1>1, <1>2, <1>3, <1>4, <1>5, <1>6, <1>7, <1>8, <1>9, <1>10, <1>11, <1>12 DEF StorageNext

\* Versions and revisions are numbers.
LEMMA Numbers ==
    ASSUME StorageTypeOK
    PROVE  /\ edit \in Nat /\ saved \in Nat /\ drain.at \in Nat /\ edit >= 1
           /\ acked.at \in Nat
           /\ \A k \in Keys : /\ values[k] \in Nat /\ drain.copy[k] \in Nat
                              /\ legacy[k] \in Nat /\ legacy[k] <= edit
                              /\ removed[k] \in Nat /\ acked.values[k] \in Nat
           /\ \A f \in Committed : /\ f.rev \in Nat /\ f.purge \in Nat
                                   /\ \A k \in Keys : f.values[k] \in Nat
           /\ \A w \in waiting : /\ w.at \in Nat
                                 /\ \A k \in Keys : w.values[k] \in Nat
           /\ \A e \in erased : e[1] \in Keys /\ e[2] \in Nat /\ e[2] >= 1
           /\ store.failures \in Nat
<1>1. edit \in Nat /\ saved \in Nat /\ edit >= 1
  BY DEF StorageTypeOK, Edits
<1>2. drain.at \in Nat /\ drain.copy \in Contents
  BY DEF StorageTypeOK, Drains
<1>3. acked.at \in Edits /\ acked.values \in Contents
  BY DEF StorageTypeOK, Snapshots
<1>4. \A w \in waiting : w.at \in Edits /\ w.values \in Contents
  BY DEF StorageTypeOK, Snapshots
<1>5. \A f \in Committed : f.rev \in Nat /\ f.purge \in Nat /\ f.values \in Contents
  BY DEF StorageTypeOK, Files, Committed
<1>6. \A c \in Contents, k \in Keys : c[k] \in Nat
  BY DEF Contents, Edits
<1>7. \A n \in Edits : n \in Nat /\ n >= 1
  BY DEF Edits
<1>8. values \in Contents /\ legacy \in [Keys -> {0, 1}] /\ removed \in [Keys -> Nat]
      /\ erased \in SUBSET (Keys \X Edits)
  BY DEF StorageTypeOK
<1>9. \A k \in Keys : legacy[k] \in Nat /\ legacy[k] <= edit /\ removed[k] \in Nat
  BY <1>1, <1>8
<1>10. \A e \in erased : e[1] \in Keys /\ e[2] \in Edits
  BY <1>8
<1>11. store.failures \in Nat
  BY DEF StorageTypeOK, Stores
<1>12. \A w \in waiting : w.at \in Nat /\ \A k \in Keys : w.values[k] \in Nat
  BY <1>4, <1>6, <1>7
<1>13. \A f \in Committed : f.rev \in Nat /\ f.purge \in Nat /\ \A k \in Keys : f.values[k] \in Nat
  BY <1>5, <1>6
<1>14. \A k \in Keys : values[k] \in Nat /\ drain.copy[k] \in Nat /\ acked.values[k] \in Nat
  BY <1>2, <1>3, <1>6, <1>8
<1>15. acked.at \in Nat /\ \A e \in erased : e[1] \in Keys /\ e[2] \in Nat /\ e[2] >= 1
  BY <1>3, <1>7, <1>10
<1> QED
  BY <1>1, <1>2, <1>9, <1>11, <1>12, <1>13, <1>14, <1>15

\* No file holds a change that has not been made.
LEMMA FileVersions ==
    ASSUME StorageTypeOK, StorageInv, [StorageNext]_storageVars
    PROVE  \A f \in Committed', k \in Keys : f.values[k] <= edit
<1>0. Versions
  BY DEF StorageInv
<1>1. CASE Promote
  <2> DEFINE file == Writing(Taken, FALSE)
  <2>1. Committed' = Committed \cup {file} /\ file.values = drain.copy
    BY <1>1, PromoteCommits
  <2>2. \A k \in Keys : drain.copy[k] <= edit
    <3>1. phase \in {"opening", "open"} /\ drain.pc = "promote"
      BY <1>1, IdleTyped DEF StorageInv, Phases, StorageTypeOK, Promote
    <3>2. CASE phase = "opening"
      <4>1. drain.copy = legacy
        BY <3>1, <3>2 DEF StorageInv, Phases, Saving
      <4> QED
        BY <4>1, Numbers
    <3>3. CASE phase = "open"
      <4>1. drain.at <= edit /\ \A k \in Keys : drain.copy[k] <= drain.at
        BY <3>1, <3>3 DEF StorageInv, Capturing, Busy
      <4> QED
        BY <4>1, Numbers
    <3> QED
      BY <3>1, <3>2, <3>3
  <2> HIDE DEF file
  <2> QED
    BY <1>0, <2>1, <2>2 DEF Versions
<1>2. CASE RemoveFile
  BY <1>0, <1>2, RemovalKeepsLatest DEF Versions
<1>3. CASE DurableStays
  BY <1>0, <1>3 DEF Versions, DurableStays
<1> QED
  BY <1>1, <1>2, <1>3, Steps

\* The order of the changes.
LEMMA KeepVersions ==
    ASSUME StorageTypeOK, StorageInv, [StorageNext]_storageVars
    PROVE  Versions'
<1> USE DEF Versions
<1>0. Versions
  BY DEF StorageInv
<1>1. \A f \in Committed', k \in Keys : f.values[k] <= edit
  BY FileVersions
<1>2. CASE edit' = edit /\ UNCHANGED <<acked, removed, erased, phase, saved, values, waiting>>
  BY <1>0, <1>1, <1>2
<1>3. CASE FailSave \/ Crash
  <2>1. CASE FailSave /\ phase # "opening"
    BY <1>0, <1>1, <2>1, FailSaveSets
  <2>2. CASE Crash \/ (FailSave /\ phase = "opening")
    <3>1. Down /\ UNCHANGED <<edit, acked, removed, erased>>
      BY <2>2, FailSaveSets DEF Crash, history
    <3> QED
      BY <1>0, <1>1, <3>1, DownSets
  <2> QED
    BY <1>3, <2>1, <2>2
<1>4. CASE Open
  <2>1. phase' # "open" /\ erased' \subseteq erased /\ UNCHANGED <<edit, acked, removed>>
    BY <1>4 DEF Open
  <2> QED
    BY <1>0, <1>1, <2>1
<1>5. CASE FinishSave
  <2>1. saved' = drain.at /\ phase = "open" /\ drain.pc = "prune"
        /\ UNCHANGED <<edit, acked, removed, erased, phase, values, waiting>>
    BY <1>5 DEF FinishSave, history
  <2>2. drain.at <= edit
    BY <2>1 DEF StorageInv, Capturing, Busy
  <2> QED
    BY <1>0, <1>1, <2>1, <2>2
<1>6. CASE Settle
  <2>1. UNCHANGED <<edit, removed, erased, phase, values, saved>>
    BY <1>6 DEF Settle
  <2>2. phase = "open"
    BY <1>6, IdleTyped DEF Settle, StorageInv, Phases, Busy, StorageTypeOK
  <2>3. acked'.at <= edit
    <3>1. CASE acked' = acked
      BY <1>0, <3>1
    <3>2. CASE acked' \in Covered
      BY <1>0, <2>2, <3>2 DEF Covered
    <3> QED
      BY <1>6, <3>1, <3>2, SettleAcks
  <2>4. \A w \in waiting' : w.at <= edit
    <3>1. \A w \in waiting' : w.at = edit
      <4>1. waiting' = {} \/ waiting' = {[at |-> edit, values |-> values]}
        BY <1>6, SettleSets
      <4> QED
        BY <4>1
    <3> QED
      BY <3>1, Numbers
  <2> QED
    BY <1>0, <1>1, <2>1, <2>2, <2>3, <2>4
<1>7. CASE FinishOpen
  <2>1. saved' = edit /\ waiting' = waiting /\ values' = store.values
        /\ phase = "opening" /\ drain.pc = "prune"
        /\ UNCHANGED <<edit, acked, removed, erased>>
    BY <1>7 DEF FinishOpen, history
  <2>2. Committed # {} /\ waiting = {}
    BY <2>1 DEF StorageInv, Phases
  <2>3. store.values = Latest.values /\ Latest \in Committed
    BY <2>1, <2>2, LatestIs DEF StorageInv, StoreKnowsLatest
  <2>4. \A k \in Keys : values'[k] <= edit
    BY <1>0, <2>1, <2>3
  <2>5. edit' = edit /\ saved' <= edit' /\ waiting' = {}
    BY <2>1, <2>2, Numbers
  <2> QED
    BY <1>0, <1>1, <2>1, <2>4, <2>5
<1>8. ASSUME NEW k \in Keys, SetItem(k) PROVE Versions'
  <2>1. /\ phase = "open" /\ edit' = edit + 1 /\ saved' = saved /\ waiting' = waiting
        /\ values' = [values EXCEPT ![k] = edit + 1]
        /\ UNCHANGED <<acked, removed, erased>>
    BY <1>8 DEF SetItem, history
  <2>2. values \in [Keys -> Nat]
    BY Numbers DEF StorageTypeOK, Contents
  <2>3. \A j \in Keys : values'[j] <= edit + 1
    BY <1>0, <2>1, <2>2, Numbers
  <2>4. acked'.at <= edit + 1 /\ saved' <= edit + 1 /\ \A w \in waiting' : w.at <= edit + 1
    BY <1>0, <2>1, Numbers
  <2>5. (\A j \in Keys : removed'[j] <= edit + 1) /\ \A e \in erased' : e[2] <= edit + 1
    BY <1>0, <2>1, Numbers
  <2>6. \A f \in Committed', j \in Keys : f.values[j] <= edit + 1
    <3>1. DurableStays
      BY <1>8, OthersKeepFiles DEF StorageInv
    <3> QED
      BY <1>0, <3>1, Numbers DEF DurableStays
  <2> QED
    BY <2>1, <2>3, <2>4, <2>5, <2>6
<1>9. ASSUME NEW k \in Keys, RemoveItem(k) PROVE Versions'
  <2>1. /\ phase = "open" /\ edit' = edit + 1 /\ saved' = saved /\ waiting' = waiting
        /\ values' = [values EXCEPT ![k] = 0]
        /\ removed' = [removed EXCEPT ![k] = edit + 1]
        /\ acked' = acked
        /\ \A e \in erased' : e \in erased \/ e = <<k, values[k]>>
    BY <1>9 DEF RemoveItem
  <2>2. values \in [Keys -> Nat] /\ removed \in [Keys -> Nat]
    BY Numbers DEF StorageTypeOK, Contents
  <2>3. \A e \in erased' : e[2] <= edit + 1
    BY <1>0, <2>1, Numbers
  <2>4. (\A j \in Keys : removed'[j] <= edit + 1) /\ (\A j \in Keys : values'[j] <= edit + 1)
    BY <1>0, <2>1, <2>2, Numbers
  <2>5. acked'.at <= edit + 1 /\ saved' <= edit + 1 /\ \A w \in waiting' : w.at <= edit + 1
    BY <1>0, <2>1, Numbers
  <2>6. \A f \in Committed', j \in Keys : f.values[j] <= edit + 1
    <3>1. DurableStays
      BY <1>9, OthersKeepFiles DEF StorageInv
    <3> QED
      BY <1>0, <3>1, Numbers DEF DurableStays
  <2> QED
    BY <2>1, <2>3, <2>4, <2>5, <2>6
<1>10. CASE Flush
  <2>1. UNCHANGED <<edit, acked, removed, erased, phase, values, saved>>
        /\ waiting' = waiting \cup {[at |-> edit, values |-> values]}
    BY <1>10 DEF Flush, history
  <2> QED
    BY <1>0, <1>1, <2>1, Numbers
<1>11. CASE WritePart \/ Promote \/ RemoveFile
  BY <1>2, <1>11, WritePartSets, PromoteSets, RemoveFileSets
<1>12. CASE ForgetLegacyMatches \/ UNCHANGED storageVars
  BY <1>2, <1>12 DEF ForgetLegacyMatches, storageVars, memory, history
<1> QED
  BY <1>3, <1>4, <1>5, <1>6, <1>7, <1>8, <1>9, <1>10, <1>11, <1>12 DEF StorageNext

\* The copy of the drain.
LEMMA KeepCapturing ==
    ASSUME StorageTypeOK, StorageInv, [StorageNext]_storageVars
    PROVE  Capturing'
<1> USE DEF Capturing, Busy
<1>0. Capturing /\ Phases /\ Versions
  BY DEF StorageInv
<1>1. CASE WritePart
  <2>1. DurableStays
    BY <1>0, <1>1, OthersKeepFiles
  <2> QED
    BY <1>0, <1>1, <2>1, WritePartSets DEF DurableStays
<1>2. CASE Promote
  <2> DEFINE file == Writing(Taken, FALSE)
  <2>1. Committed' = Committed \cup {file} /\ file.values = drain.copy
    BY <1>2, PromoteCommits
  <2>2. drain.pc = "promote"
    BY <1>2 DEF Promote
  <2> HIDE DEF file
  <2> QED
    BY <1>0, <1>2, <2>1, <2>2, PromoteSets
<1>3. CASE RemoveFile
  <2>1. Committed' \subseteq Committed
    BY <1>3, RemovalKeepsLatest
  <2> QED
    BY <1>0, <1>3, <2>1, RemoveFileSets
<1>4. CASE FailSave \/ Crash \/ Open
  <2>1. phase' # "open" \/ drain'.pc = "settle"
    BY <1>4, FailSaveSets, DownSets, OpenSets DEF Crash
  <2> QED
    BY <2>1
<1>5. CASE FinishOpen
  BY <1>5, IdleTyped DEF FinishOpen

\* A capture takes the values of the moment.
<1>6. ASSUME drain'.pc = "write", drain'.copy = values, drain'.at = edit,
             saved' <= edit, values' = values, edit' = edit, phase = "open", DurableStays
      PROVE  Capturing'
  <2>1. \A f \in Committed', k \in Keys : f.values[k] <= edit
    BY <1>0, <1>6 DEF DurableStays, Versions
  <2>2. \A k \in Keys : values[k] <= edit
    BY <1>0, <1>6 DEF Versions
  <2> QED
    BY <1>6, <2>1, <2>2, Numbers
<1>7. CASE FinishSave
  <2>1. DurableStays
    BY <1>0, <1>7, OthersKeepFiles
  <2>2. /\ saved' = drain.at /\ values' = values /\ edit' = edit /\ phase = "open"
        /\ drain.pc = "prune"
    BY <1>7 DEF FinishSave
  <2>3. saved' <= edit
    BY <1>0, <2>2
  <2>4. CASE edit = drain.at
    BY <1>7, <2>4, FinishSaveSets
  <2>5. CASE edit # drain.at
    BY <1>6, <1>7, <2>1, <2>2, <2>3, <2>5, FinishSaveSets
  <2> QED
    BY <2>4, <2>5
<1>8. CASE Settle
  <2>1. DurableStays
    BY <1>0, <1>8, OthersKeepFiles
  <2>2. /\ saved' = saved /\ values' = values /\ edit' = edit
    BY <1>8 DEF Settle
  <2>3. phase = "open"
    BY <1>0, <1>8, IdleTyped DEF Settle, Phases, StorageTypeOK
  <2>4. saved' <= edit
    BY <1>0, <2>2, <2>3 DEF Versions
  <2> QED
    BY <1>6, <1>8, <2>1, <2>2, <2>3, <2>4, SettleSets, IdleTyped
<1>9. CASE Flush
  <2>1. DurableStays
    BY <1>0, <1>9, OthersKeepFiles
  <2>2. /\ saved' = saved /\ values' = values /\ edit' = edit /\ phase = "open"
        /\ phase' = phase
    BY <1>9 DEF Flush
  <2>4. saved' <= edit
    BY <1>0, <2>2 DEF Versions
  <2>5. CASE drain.pc # "idle"
    BY <1>0, <1>9, <2>1, <2>2, <2>5, FlushSets DEF DurableStays
  <2> QED
    BY <1>6, <1>9, <2>1, <2>2, <2>4, <2>5, FlushSets
<1>10. ASSUME NEW k \in Keys, SetItem(k) \/ RemoveItem(k) PROVE Capturing'
  <2>1. DurableStays
    BY <1>0, <1>10, OthersKeepFiles
  <2>2. /\ phase' = phase /\ edit' = edit + 1 /\ saved' = saved /\ drain' = drain
        /\ \/ values' = [values EXCEPT ![k] = edit + 1]
           \/ values' = [values EXCEPT ![k] = 0]
    BY <1>10 DEF SetItem, RemoveItem
  <2>3. values \in [Keys -> Nat]
    BY Numbers DEF StorageTypeOK, Contents
  <2>4. ASSUME phase = "open", drain.pc \in {"write", "promote", "prune"}
        PROVE  /\ drain.at < edit' /\ saved' <= drain.at
               /\ \A j \in Keys : \/ values'[j] = drain.copy[j] \/ values'[j] = 0
                                  \/ values'[j] > drain.at
    BY <1>0, <2>2, <2>3, <2>4, Numbers
  <2> QED
    BY <1>0, <2>1, <2>2, <2>4, Numbers DEF DurableStays
<1>11. CASE ForgetLegacyMatches \/ UNCHANGED storageVars
  <2>1. DurableStays
    BY <1>0, <1>11, OthersKeepFiles
  <2>2. UNCHANGED <<phase, edit, saved, drain, values>>
    BY <1>11 DEF ForgetLegacyMatches, storageVars, memory
  <2> QED
    BY <1>0, <2>1, <2>2 DEF DurableStays
<1> QED
  BY <1>1, <1>2, <1>3, <1>4, <1>5, <1>7, <1>8, <1>9, <1>10, <1>11 DEF StorageNext

\* The removal of files from before an erasure.
LEMMA KeepPruned ==
    ASSUME StorageTypeOK, StorageInv, [StorageNext]_storageVars
    PROVE  Pruned'
<1> USE DEF Pruned
<1>0. Pruned /\ Phases /\ OneLatest /\ StoreKnowsLatest
  BY DEF StorageInv
<1>1. CASE WritePart
  <2>1. DurableStays
    BY <1>0, <1>1, OthersKeepFiles
  <2> QED
    BY <1>0, <1>1, <2>1, WritePartSets DEF DurableStays
<1>2. CASE Promote
  <2> DEFINE file == Writing(Taken, FALSE)
  <2>1. /\ Committed' = Committed \cup {file} /\ Latest' = file
        /\ file.purge <= file.rev /\ \A g \in Committed : g.rev < file.rev
    BY <1>2, PromoteCommits
  <2>2. \/ store'.failures > 0
        \/ drain'.remove = ToRemove(disk', file.rev, file.purge)
    BY <1>2, PromoteSets
  <2>3. file.rev \in Nat /\ file.purge \in Nat
    BY PartTyped DEF Files
  <2> HIDE DEF file
  <2>4. \A f \in Committed' : f.rev < Latest'.purge =>
            f \in ToRemove(disk', file.rev, file.purge)
    <3> SUFFICES ASSUME NEW f \in Committed', f.rev < file.purge
                 PROVE  f \in ToRemove(disk', file.rev, file.purge)
      BY <2>1
    <3>1. f # file
      BY <2>1, <2>3
    <3>2. f \in disk' /\ ~f.part /\ f.rev < file.rev
      BY <2>1, <3>1 DEF Committed
    <3> QED
      BY <3>2 DEF ToRemove
  <2> QED
    BY <2>2, <2>4
<1>3. CASE RemoveFile
  <2>1. Committed' \subseteq Committed /\ Latest' = Latest
    BY <1>3, RemovalKeepsLatest
  <2>2. PICK f \in drain.remove :
            /\ drain'.remove = drain.remove \ {f}
            /\ \/ disk' = disk \ {f} /\ store'.failures = store.failures
               \/ disk' = disk /\ store'.failures = store.failures + 1
    BY <1>3, RemoveFileSets
  <2>3. phase # "down"
    BY <1>0, <1>3, IdleTyped DEF Phases, RemoveFile
  <2>4. CASE disk' = disk \ {f} /\ store'.failures = store.failures
    <3>1. \A g \in Committed' : g # f
      BY <2>4 DEF Committed
    <3> QED
      BY <1>0, <2>1, <2>2, <2>3, <2>4, <3>1
  <2>5. CASE store'.failures = store.failures + 1
    BY <2>5, Numbers
  <2> QED
    BY <2>2, <2>4, <2>5
<1>4. CASE FailSave
  <2>1. DurableStays
    BY <1>0, <1>4, OthersKeepFiles
  <2>2. CASE phase = "opening"
    BY <1>4, <2>2, FailSaveSets, DownSets
  <2>3. CASE phase # "opening"
    <3>1. drain.remove = {}
      BY <1>0, <1>4, FailSaveSets DEF Phases, Saving
    <3> QED
      BY <1>0, <1>4, <2>1, <2>3, <3>1, FailSaveSets DEF DurableStays
  <2> QED
    BY <2>2, <2>3
<1>5. CASE Open
  <2>1. DurableStays
    BY <1>0, <1>5, OthersKeepFiles
  <2>2. CASE Committed # {}
    <3>1. \/ store'.failures > 0
          \/ drain'.remove = ToRemove(disk, Latest.rev, Latest.purge)
      BY <1>5, <2>2, OpenSets
    <3>2. /\ Latest \in Committed /\ Latest.purge <= Latest.rev
          /\ \A g \in Committed : g # Latest => g.rev < Latest.rev
      BY <1>0, <2>2, LatestIs DEF OneLatest
    <3>3. Latest.rev \in Nat /\ Latest.purge \in Nat
      BY <3>2, Numbers
    <3>4. \A f \in Committed : f.rev < Latest.purge =>
              f \in disk /\ ~f.part /\ f.rev < Latest.rev
      BY <3>2, <3>3 DEF Committed
    <3>5. \/ store'.failures > 0
          \/ \A f \in Committed : f.rev < Latest.purge => f \in drain'.remove
      BY <3>1, <3>4 DEF ToRemove
    <3> QED
      BY <2>1, <3>5 DEF DurableStays
  <2> QED
    BY <2>1, <2>2 DEF DurableStays
<1>6. CASE Crash
  BY <1>6, DownSets DEF Crash
<1>7. CASE \/ FinishSave \/ Settle \/ FinishOpen
           \/ (\E k \in Keys : SetItem(k) \/ RemoveItem(k))
           \/ ForgetLegacyMatches \/ Flush \/ UNCHANGED storageVars
  <2>1. DurableStays
    BY <1>0, <1>7, OthersKeepFiles
  <2>2. store' = store /\ (phase' # "down" => phase # "down")
    BY <1>7 DEF FinishSave, Settle, FinishOpen, SetItem, RemoveItem,
                ForgetLegacyMatches, Flush, storageVars, memory
  <2>3. drain' = drain \/ drain.remove = {}
    BY <1>0, <1>7, FlushSets DEF Phases, FinishSave, Settle, FinishOpen, SetItem,
                RemoveItem, ForgetLegacyMatches, storageVars, memory
  <2> QED
    BY <1>0, <2>1, <2>2, <2>3 DEF DurableStays
<1> QED
  BY <1>1, <1>2, <1>3, <1>4, <1>5, <1>6, <1>7 DEF StorageNext

-----------------------------------------------------------------------------
(* What was confirmed survives.                                            *)

\* A removal is only ever followed by later ones.
LEMMA RemovedGrows ==
    ASSUME StorageTypeOK, StorageInv, [StorageNext]_storageVars
    PROVE  \A k \in Keys : removed'[k] \in Nat /\ removed[k] <= removed'[k]
<1>1. ASSUME NEW j \in Keys, RemoveItem(j)
      PROVE  \A k \in Keys : removed'[k] \in Nat /\ removed[k] <= removed'[k]
  <2>1. removed' = [removed EXCEPT ![j] = edit + 1] /\ removed \in [Keys -> Nat]
    BY <1>1 DEF RemoveItem, StorageTypeOK
  <2>2. removed[j] <= edit
    BY DEF StorageInv, Versions
  <2> QED
    BY <2>1, <2>2, Numbers
<1>2. CASE removed' = removed
  BY <1>2, Numbers
<1> QED
  BY <1>1, <1>2 DEF StorageNext, Open, FinishOpen, Crash, WritePart, Promote, RemoveFile,
     FailSave, FinishSave, Settle, Flush, ForgetLegacyMatches, SetItem, storageVars, history

\* Following is kept when removals are added.
LEMMA FollowsLater ==
    ASSUME StorageTypeOK, StorageInv, [StorageNext]_storageVars,
           NEW vals, NEW a, a.at \in Nat, Follows(vals, a, removed)
    PROVE  Follows(vals, a, removed')
<1>1. \A k \in Keys : removed[k] \in Nat /\ removed'[k] \in Nat /\ removed[k] <= removed'[k]
  BY RemovedGrows, Numbers
<1> QED
  BY <1>1 DEF Follows

\* What is captured follows itself.
LEMMA FollowsItself ==
    ASSUME NEW vals, NEW at, NEW gone
    PROVE  Follows(vals, [at |-> at, values |-> vals], gone)
  BY DEF Follows

\* The parts of survival, after a step.
LEMMA SurvivesNext ==
    ASSUME Follows(Durable', acked', removed'),
           phase' = "open" => Follows(values', acked', removed'),
           phase' = "open" /\ Busy' => Follows((drain.copy)', acked', removed'),
           \A w \in waiting' :
               /\ Follows(values', w, removed')
               /\ Busy' /\ w.at <= drain'.at => Follows((drain.copy)', w, removed')
               /\ w.at <= saved' => Follows(Durable', w, removed'),
           phase' = "open" /\ saved' = edit' => Durable' = values'
    PROVE  Survives'
  BY DEF Survives, Follows

\* The cases below differ in what they do to the maps that must follow.
LEMMA KeepSurvives ==
    ASSUME StorageTypeOK, StorageInv, [StorageNext]_storageVars
    PROVE  Survives'
<1>0. Survives /\ Phases /\ Versions /\ Capturing /\ OneLatest
  BY DEF StorageInv
<1>00. \A w \in waiting : w.at \in Nat
  BY Numbers
<1>01. acked.at \in Nat
  BY Numbers
<1> DEFINE F(vals, a) == Follows(vals, a, removed)
           G(vals, a) == Follows(vals, a, removed')
<1>02. \A vals, a : a.at \in Nat /\ F(vals, a) => G(vals, a)
  BY FollowsLater
<1>03. /\ F(Durable, acked)
       /\ phase = "open" => F(values, acked)
       /\ phase = "open" /\ Busy => F(drain.copy, acked)
       /\ \A w \in waiting :
              /\ F(values, w)
              /\ Busy /\ w.at <= drain.at => F(drain.copy, w)
              /\ w.at <= saved => F(Durable, w)
       /\ phase = "open" /\ saved = edit => Durable = values
  BY <1>0 DEF Survives
<1>04. /\ G(Durable, acked)
       /\ phase = "open" => G(values, acked)
       /\ phase = "open" /\ Busy => G(drain.copy, acked)
       /\ \A w \in waiting :
              /\ G(values, w)
              /\ Busy /\ w.at <= drain.at => G(drain.copy, w)
              /\ w.at <= saved => G(Durable, w)
  BY <1>00, <1>01, <1>02, <1>03
<1>05. phase # "open" => waiting = {}
  BY <1>0 DEF Phases
<1> HIDE DEF F
<1> SUFFICES
      /\ G(Durable', acked')
      /\ phase' = "open" => G(values', acked')
      /\ phase' = "open" /\ Busy' => G((drain.copy)', acked')
      /\ \A w \in waiting' :
             /\ G(values', w)
             /\ Busy' /\ w.at <= drain'.at => G((drain.copy)', w)
             /\ w.at <= saved' => G(Durable', w)
      /\ phase' = "open" /\ saved' = edit' => Durable' = values'
  BY SurvivesNext
<1> HIDE DEF G
<1>1. CASE WritePart \/ ForgetLegacyMatches \/ UNCHANGED storageVars \/ RemoveFile
  <2>1. Durable' = Durable
    <3>1. CASE RemoveFile
      BY <3>1, RemovalKeepsLatest
    <3>2. CASE WritePart \/ ForgetLegacyMatches \/ UNCHANGED storageVars
      BY <1>0, <3>2, OthersKeepFiles DEF DurableStays
    <3> QED
      BY <1>1, <3>1, <3>2
  <2>2. /\ acked' = acked /\ phase' = phase /\ values' = values /\ saved' = saved
        /\ edit' = edit /\ waiting' = waiting /\ drain'.copy = drain.copy
        /\ drain'.at = drain.at
    BY <1>1, WritePartSets, RemoveFileSets
       DEF ForgetLegacyMatches, storageVars, memory, history
  <2>3. Busy' => Busy
    BY <1>1, WritePartSets, RemoveFileSets
       DEF Busy, ForgetLegacyMatches, storageVars, memory
  <2> QED
    BY <1>03, <1>04, <2>1, <2>2, <2>3
<1>2. CASE Promote
  <2>1. Durable' = drain.copy
    BY <1>2, PromoteCommits
  <2>2. /\ acked' = acked /\ phase' = phase /\ values' = values /\ saved' = saved
        /\ edit' = edit /\ waiting' = waiting /\ drain'.copy = drain.copy
        /\ drain'.at = drain.at
    BY <1>2, PromoteSets
  <2>3. Busy /\ phase # "down"
    BY <1>0, <1>2, IdleTyped DEF Busy, Promote, Phases
  <2>4. CASE phase = "open"
    <3>1. saved <= drain.at /\ drain.at <= edit /\ (drain.at = edit => drain.copy = values)
      BY <1>0, <2>3, <2>4 DEF Capturing
    <3>2. \A w \in waiting : w.at <= saved => w.at <= drain.at
      BY <1>00, <3>1, Numbers
    <3>3. saved = edit => drain.copy = values
      BY <3>1, Numbers
    <3> QED
      BY <1>04, <2>1, <2>2, <2>3, <2>4, <3>2, <3>3
  <2>5. CASE phase # "open"
    <3>1. Committed = {} /\ drain.copy = legacy
      BY <1>0, <1>2, <2>3, <2>5 DEF Phases, Saving, Promote, StorageTypeOK
    <3>2. Durable = drain.copy
      BY <3>1 DEF Durable
    <3> QED
      BY <1>04, <1>05, <2>1, <2>2, <2>5, <3>2
  <2> QED
    BY <2>4, <2>5
<1>3. CASE FinishSave
  <2>1. Durable' = Durable
    BY <1>0, <1>3, OthersKeepFiles DEF DurableStays
  <2>2. /\ acked' = acked /\ phase = "open" /\ phase' = "open" /\ values' = values
        /\ saved' = drain.at /\ edit' = edit /\ waiting' = waiting /\ drain.pc = "prune"
    BY <1>3 DEF FinishSave, history
  <2>3. Durable = drain.copy /\ Busy
    BY <1>0, <2>2, LatestIs DEF Phases, Busy
  <2>4. drain.at = edit => drain.copy = values
    BY <1>0, <2>2, <2>3 DEF Capturing
  <2>5. ~Busy' \/ drain'.copy = values
    BY <1>3, FinishSaveSets DEF Busy
  <2> QED
    BY <1>04, <2>1, <2>2, <2>3, <2>4, <2>5
<1>4. CASE FailSave /\ phase # "opening"
  <2>1. Durable' = Durable
    BY <1>0, <1>4, OthersKeepFiles DEF DurableStays
  <2>2. /\ acked' = acked /\ phase' = phase /\ values' = values /\ saved' = saved
        /\ edit' = edit /\ waiting' = waiting
    BY <1>4, FailSaveSets
  <2>3. ~Busy'
    BY <1>4, FailSaveSets DEF Busy
  <2> QED
    BY <1>03, <1>04, <2>1, <2>2, <2>3
<1>5. CASE Crash \/ (FailSave /\ phase = "opening")
  <2>1. Durable' = Durable
    BY <1>0, <1>5, OthersKeepFiles DEF DurableStays
  <2>2. Down /\ acked' = acked
    BY <1>5, FailSaveSets DEF Crash, history
  <2> QED
    BY <1>04, <2>1, <2>2, DownSets
<1>6. CASE Open
  <2>1. Durable' = Durable
    BY <1>0, <1>6, OthersKeepFiles DEF DurableStays
  <2>2. phase' = "opening" /\ acked' = acked /\ waiting' = {}
    BY <1>05, <1>6 DEF Open
  <2> QED
    BY <1>04, <2>1, <2>2
<1>7. CASE FinishOpen
  <2>1. Durable' = Durable
    BY <1>0, <1>7, OthersKeepFiles DEF DurableStays
  <2>2. /\ values' = store.values /\ acked' = acked /\ waiting' = {} /\ drain' = Idle
        /\ phase = "opening" /\ drain.pc = "prune"
    BY <1>05, <1>7 DEF FinishOpen, history
  <2>3. store.values = Durable
    BY <1>0, <2>2, LatestIs DEF Phases, StorageInv, StoreKnowsLatest
  <2>4. ~Busy'
    BY <2>2, IdleTyped DEF Busy
  <2> QED
    BY <1>04, <2>1, <2>2, <2>3, <2>4
<1>8. CASE Settle
  <2>1. Durable' = Durable
    BY <1>0, <1>8, OthersKeepFiles DEF DurableStays
  <2>2. /\ phase' = phase /\ values' = values /\ saved' = saved /\ edit' = edit
    BY <1>8 DEF Settle
  <2>3. phase = "open"
    BY <1>0, <1>8, IdleTyped DEF Settle, Phases, Busy, StorageTypeOK
  <2>4. G(Durable, acked') /\ G(values, acked')
    <3>1. CASE acked' = acked
      BY <1>04, <2>3, <3>1
    <3>2. CASE acked' \in Covered
      BY <1>04, <3>2 DEF Covered
    <3> QED
      BY <1>8, <3>1, <3>2, SettleAcks
  <2>5. CASE drain' = Idle /\ waiting' = {}
    <3>1. ~Busy'
      BY <2>5, IdleTyped DEF Busy
    <3> QED
      BY <1>03, <2>1, <2>2, <2>3, <2>4, <2>5, <3>1
  <2>6. CASE drain'.copy = values /\ waiting' = {[at |-> edit, values |-> values]}
    <3> DEFINE v == [at |-> edit, values |-> values]
    <3>1. G(values, v)
      BY FollowsItself DEF G
    <3>2. v.at <= saved => Durable = values
      <4>1. saved <= edit
        BY <1>0, <2>3 DEF Versions
      <4> QED
        BY <1>03, <2>3, <4>1, Numbers
    <3> HIDE DEF v
    <3>3. waiting' = {v}
      BY <2>6 DEF v
    <3> QED
      BY <1>03, <2>1, <2>2, <2>3, <2>4, <2>6, <3>1, <3>2, <3>3
  <2> QED
    BY <1>8, <2>5, <2>6, SettleSets
<1>9. CASE Flush
  <2>1. Durable' = Durable
    BY <1>0, <1>9, OthersKeepFiles DEF DurableStays
  <2>2. /\ phase = "open" /\ phase' = phase /\ values' = values /\ saved' = saved
        /\ edit' = edit /\ acked' = acked
    BY <1>9 DEF Flush, history
  <2> DEFINE v == [at |-> edit, values |-> values]
  <2>3. G(values, v)
    BY FollowsItself DEF G
  <2>4. v.at <= saved => Durable = values
    <3>1. saved <= edit
      BY <1>0, <2>2 DEF Versions
    <3> QED
      BY <1>03, <2>2, <3>1, Numbers
  <2>5. Busy /\ v.at <= drain.at => drain.copy = values
    <3>1. Busy => drain.at <= edit /\ (drain.at = edit => drain.copy = values)
      BY <1>0, <2>2 DEF Capturing
    <3> QED
      BY <3>1, Numbers
  <2>6. waiting' = waiting \cup {v}
    BY <1>9, FlushSets
  <2> HIDE DEF v
  <2>7. CASE drain' = drain
    BY <1>03, <1>04, <2>1, <2>2, <2>3, <2>4, <2>5, <2>6, <2>7 DEF Busy
  <2>8. CASE drain'.copy = values
    BY <1>03, <1>04, <2>1, <2>2, <2>3, <2>4, <2>6, <2>8
  <2> QED
    BY <1>9, <2>7, <2>8, FlushSets
<1>10. ASSUME NEW k \in Keys, SetItem(k) \/ RemoveItem(k)
       PROVE  /\ G(Durable', acked')
              /\ phase' = "open" => G(values', acked')
              /\ phase' = "open" /\ Busy' => G((drain.copy)', acked')
              /\ \A w \in waiting' :
                     /\ G(values', w)
                     /\ Busy' /\ w.at <= drain'.at => G((drain.copy)', w)
                     /\ w.at <= saved' => G(Durable', w)
              /\ phase' = "open" /\ saved' = edit' => Durable' = values'
  <2>1. Durable' = Durable
    BY <1>0, <1>10, OthersKeepFiles DEF DurableStays
  <2>2. /\ phase = "open" /\ phase' = phase /\ saved' = saved /\ edit' = edit + 1
        /\ acked' = acked /\ waiting' = waiting /\ drain' = drain
    BY <1>10 DEF SetItem, RemoveItem, history
  <2>3. \/ values' = [values EXCEPT ![k] = edit + 1]
        \/ values' = [values EXCEPT ![k] = 0] /\ removed' = [removed EXCEPT ![k] = edit + 1]
    BY <1>10 DEF SetItem, RemoveItem
  <2>4. values \in [Keys -> Nat] /\ removed \in [Keys -> Nat]
    BY Numbers DEF StorageTypeOK, Contents
  <2>5. \A a : a.at \in Nat /\ a.at <= edit /\ G(values, a) => G(values', a)
    BY <2>3, <2>4, Numbers DEF G, Follows
  <2>6. acked.at <= edit /\ \A w \in waiting : w.at <= edit
    BY <1>0, <2>2 DEF Versions
  <2>7. saved # edit + 1
    BY <1>0, <2>2, Numbers DEF Versions
  <2>8. (Busy' <=> Busy) /\ (drain.copy)' = drain.copy /\ drain'.at = drain.at
    BY <2>2 DEF Busy
  <2> QED
    BY <1>00, <1>01, <1>04, <2>1, <2>2, <2>5, <2>6, <2>7, <2>8
<1> QED
  BY <1>1, <1>2, <1>3, <1>4, <1>5, <1>6, <1>7, <1>8, <1>9, <1>10 DEF StorageNext

-----------------------------------------------------------------------------
(* What was removed goes.                                                  *)

\* Removed values go, whatever fails.
LEMMA KeepErasures ==
    ASSUME StorageTypeOK, StorageInv, [StorageNext]_storageVars
    PROVE  Erasures'
<1> USE DEF Erasures
<1>0. Erasures /\ Phases /\ Versions /\ Capturing /\ OneLatest /\ StoreKnowsLatest
  BY DEF StorageInv
<1>00. erasure \in BOOLEAN /\ drain.erase \in BOOLEAN
  BY DEF StorageTypeOK, Drains
<1>01. \A e \in erased : e[1] \in Keys /\ e[2] \in Nat /\ e[2] >= 1 /\ e[2] <= edit
  BY <1>0, Numbers DEF Versions
<1>02. phase = "open" => Latest \in Committed /\ Durable = Latest.values
  BY <1>0, LatestIs DEF Phases
<1>1. CASE WritePart
  <2>1. DurableStays
    BY <1>0, <1>1, OthersKeepFiles
  <2>2. Saving /\ Saving' /\ Busy /\ Busy'
    BY <1>1, WritePartSets DEF Saving, Busy
  <2> QED
    BY <1>0, <1>1, <2>1, <2>2, WritePartSets DEF DurableStays
<1>2. CASE Promote
  <2> DEFINE file == Writing(Taken, FALSE)
  <2>1. /\ Committed' = Committed \cup {file} /\ Latest' = file /\ Durable' = drain.copy
        /\ file.values = drain.copy /\ file.rev = store.revision
        /\ file.purge = Purge(store.revision)
        /\ \A g \in Committed : g.rev < file.rev
    BY <1>2, PromoteCommits
  <2>2. /\ drain'.pc = "prune" /\ drain'.copy = drain.copy /\ drain.pc = "promote"
        /\ phase' = phase /\ erasure' = erasure /\ values' = values /\ erased' = erased
    BY <1>2, PromoteSets DEF Promote
  <2>3. Saving /\ Busy /\ ~Saving'
    BY <2>2 DEF Saving, Busy
  <2>4. file.purge = file.rev \/ (file.purge = store.purge /\ drain.erase # TRUE)
    BY <2>1, <1>00 DEF Purge
  <2> HIDE DEF file
  <2>5. CASE phase = "open"
    <3>1. store.purge = Latest.purge /\ Latest \in Committed
      BY <1>0, <1>02, <2>5 DEF StoreKnowsLatest, Phases
    <3>2. ASSUME NEW f \in Committed, NEW k \in Keys, <<k, f.values[k]>> \in erased
          PROVE  f.rev < file.purge \/ f.values[k] = drain.copy[k]
      BY <1>0, <2>1, <2>3, <2>4, <2>5, <3>1, <3>2
    <3>3. ASSUME NEW f \in Committed, NEW k \in Keys, f.values[k] = values[k],
                 values[k] # 0
          PROVE  f.rev < file.purge \/ f.values[k] = drain.copy[k]
      <4>1. f.values[k] <= drain.at /\ (values[k] = drain.copy[k] \/ values[k] > drain.at)
        BY <1>0, <2>3, <2>5, <3>3 DEF Capturing
      <4> QED
        BY <3>3, <4>1, Numbers
    <3>4. \A k \in Keys : <<k, drain.copy[k]>> \in erased => erasure = TRUE
      BY <1>0, <2>3, <2>5
    <3> QED
      BY <1>0, <2>1, <2>2, <2>3, <2>5, <3>2, <3>3, <3>4
  <2>6. CASE phase # "open"
    <3>1. Committed = {} /\ drain.copy = legacy /\ phase = "opening"
      BY <1>0, <2>2, <2>3, <2>6, IdleTyped DEF Phases, StorageTypeOK
    <3>2. Durable = drain.copy
      BY <3>1 DEF Durable
    <3> QED
      BY <1>0, <2>1, <2>2, <3>1, <3>2
  <2> QED
    BY <2>5, <2>6
<1>3. CASE RemoveFile
  <2>1. Committed' \subseteq Committed /\ Latest' = Latest /\ Durable' = Durable
    BY <1>3, RemovalKeepsLatest
  <2>2. ~Saving /\ ~Saving' /\ Busy
    BY <1>3, RemoveFileSets DEF Saving, Busy
  <2> QED
    BY <1>0, <1>3, <2>1, <2>2, RemoveFileSets
<1>4. CASE FailSave /\ phase # "opening"
  <2>1. DurableStays
    BY <1>0, <1>4, OthersKeepFiles
  <2>2. /\ erasure' = (erasure \/ drain.erase) /\ phase' = phase /\ values' = values
        /\ erased' = erased
    BY <1>4, FailSaveSets
  <2>3. ~Saving' /\ ~Busy'
    BY <1>4, FailSaveSets DEF Saving, Busy
  <2>4. erasure = TRUE \/ drain.erase = TRUE => erasure' = TRUE
    BY <1>00, <2>2
  <2> HIDE DEF Saving, Busy
  <2> QED
    BY <1>0, <2>1, <2>2, <2>3, <2>4 DEF DurableStays
<1>5. CASE Crash \/ (FailSave /\ phase = "opening")
  <2>1. DurableStays
    BY <1>0, <1>5, OthersKeepFiles
  <2>2. Down /\ erased' = erased
    BY <1>5, FailSaveSets DEF Crash, history
  <2> QED
    BY <1>0, <2>1, <2>2, DownSets DEF DurableStays
<1>6. CASE Open
  <2>1. DurableStays
    BY <1>0, <1>6, OthersKeepFiles
  <2>2. phase' = "opening" /\ erased' = erased \ {<<k, Durable[k]>> : k \in Keys}
    BY <1>6 DEF Open
  <2> QED
    BY <1>0, <2>1, <2>2 DEF DurableStays
<1>7. CASE FinishOpen
  <2>1. DurableStays
    BY <1>0, <1>7, OthersKeepFiles
  <2>2. /\ values' = store.values /\ phase' = "open" /\ drain' = Idle /\ erased' = erased
        /\ phase = "opening" /\ drain.pc = "prune"
    BY <1>7 DEF FinishOpen, history
  <2>3. Committed # {}
    BY <1>0, <2>2 DEF Phases
  <2>4. store.values = Latest.values /\ Durable = Latest.values
    BY <1>0, <2>2, <2>3, LatestIs DEF StoreKnowsLatest
  <2>5. ~Busy' /\ ~Saving'
    BY <2>2, IdleTyped DEF Busy, Saving
  <2> QED
    BY <1>0, <2>1, <2>2, <2>4, <2>5 DEF DurableStays

\* A capture leaves nothing of what was removed in the copy.
<1>8. ASSUME DurableStays, ~Saving, phase = "open", phase' = "open", values' = values,
             erased' = erased,
             \/ drain'.copy = values /\ drain'.erase = erasure /\ Saving'
             \/ erasure' = erasure /\ ~Busy' /\ ~Saving'
      PROVE  Erasures'
  <2>1. \A k \in Keys : <<k, Latest.values[k]>> \in erased => erasure = TRUE
    BY <1>0, <1>8
  <2>2. CASE erasure' = erasure /\ ~Busy' /\ ~Saving'
    BY <1>0, <1>8, <2>1, <2>2 DEF DurableStays
  <2>3. CASE drain'.copy = values /\ drain'.erase = erasure /\ Saving'
    BY <1>0, <1>8, <2>1, <2>3 DEF DurableStays
  <2> QED
    BY <1>8, <2>2, <2>3
<1>9. CASE FinishSave
  <2>1. DurableStays
    BY <1>0, <1>9, OthersKeepFiles
  <2>2. /\ phase = "open" /\ phase' = phase /\ values' = values /\ erased' = erased
        /\ drain.pc = "prune"
    BY <1>9 DEF FinishSave, history
  <2>3. ~Saving
    BY <2>2 DEF Saving
  <2>4. \/ drain'.pc = "write" /\ drain'.copy = values /\ drain'.erase = erasure
        \/ drain'.pc = "settle" /\ erasure' = erasure
    BY <1>9, FinishSaveSets
  <2> QED
    BY <1>8, <2>1, <2>2, <2>3, <2>4 DEF Saving, Busy
<1>10. CASE Settle
  <2>1. DurableStays
    BY <1>0, <1>10, OthersKeepFiles
  <2>2. /\ phase' = phase /\ values' = values /\ erased' = erased /\ drain.pc = "settle"
    BY <1>10 DEF Settle
  <2>3. ~Saving /\ phase = "open"
    BY <1>0, <2>2, IdleTyped DEF Saving, Phases, Busy, StorageTypeOK
  <2>4. \/ drain'.pc = "write" /\ drain'.copy = values /\ drain'.erase = erasure
        \/ drain'.pc = "idle" /\ erasure' = erasure
    BY <1>10, SettleSets, IdleTyped
  <2> QED
    BY <1>8, <2>1, <2>2, <2>3, <2>4 DEF Saving, Busy
<1>11. CASE Flush
  <2>1. DurableStays
    BY <1>0, <1>11, OthersKeepFiles
  <2>2. /\ phase = "open" /\ phase' = phase /\ values' = values /\ erased' = erased
    BY <1>11 DEF Flush, history
  <2>3. CASE drain.pc = "idle"
    <3>1. ~Saving
      BY <2>3 DEF Saving
    <3>2. drain'.pc = "write" /\ drain'.copy = values /\ drain'.erase = erasure
      BY <1>11, <2>3, FlushSets
    <3> QED
      BY <1>8, <2>1, <2>2, <3>1, <3>2 DEF Saving
  <2>4. CASE drain.pc # "idle"
    <3>1. drain' = drain /\ erasure' = erasure
      BY <1>11, <2>4, FlushSets
    <3> QED
      BY <1>0, <2>1, <2>2, <3>1 DEF DurableStays, Saving, Busy
  <2> QED
    BY <2>3, <2>4
<1>12. ASSUME NEW k \in Keys, SetItem(k) PROVE Erasures'
  <2>1. DurableStays
    BY <1>0, <1>12, OthersKeepFiles
  <2>2. /\ phase = "open" /\ phase' = phase /\ erased' = erased /\ drain' = drain
        /\ erasure' = erasure /\ values' = [values EXCEPT ![k] = edit + 1]
    BY <1>12 DEF SetItem, history
  <2>3. values \in [Keys -> Nat]
    BY Numbers DEF StorageTypeOK, Contents
  <2>4. \A j \in Keys : <<j, values'[j]>> \notin erased
    <3> SUFFICES ASSUME NEW j \in Keys, <<j, values'[j]>> \in erased PROVE FALSE
      OBVIOUS
    <3>1. values'[j] <= edit
      BY <1>01
    <3>2. j # k
      BY <2>2, <2>3, <3>1, Numbers
    <3> QED
      BY <1>0, <2>2, <2>3, <3>2
  <2>5. \A f \in Committed, j \in Keys : f.values[j] = values'[j] /\ values'[j] # 0 =>
            f.rev < Latest.purge \/ f.values[j] = Latest.values[j]
    <3>1. \A f \in Committed, j \in Keys : f.values[j] # edit + 1
      BY <1>0, Numbers DEF Versions
    <3> QED
      BY <1>0, <2>2, <2>3, <3>1
  <2>6. (Saving' <=> Saving) /\ (Busy' <=> Busy)
    BY <2>2 DEF Saving, Busy
  <2> QED
    BY <1>0, <2>1, <2>2, <2>4, <2>5, <2>6 DEF DurableStays
<1>13. ASSUME NEW k \in Keys, RemoveItem(k) PROVE Erasures'
  <2>1. DurableStays
    BY <1>0, <1>13, OthersKeepFiles
  <2>2. /\ phase = "open" /\ phase' = phase /\ drain' = drain
        /\ erasure' = TRUE /\ values' = [values EXCEPT ![k] = 0]
        /\ \A e : e \in erased' <=> e \in erased \/ (values[k] # 0 /\ e = <<k, values[k]>>)
    BY <1>13 DEF RemoveItem
  <2>3. values \in [Keys -> Nat]
    BY Numbers DEF StorageTypeOK, Contents
  <2>4. \A j \in Keys : <<j, values'[j]>> \notin erased'
    <3> SUFFICES ASSUME NEW j \in Keys, <<j, values'[j]>> \in erased' PROVE FALSE
      OBVIOUS
    <3>1. CASE j = k
      <4>1. values'[j] = 0 /\ <<j, 0>> \in erased'
        BY <2>2, <2>3, <3>1
      <4>2. <<j, 0>> \in erased
        BY <2>2, <4>1
      <4> QED
        BY <1>01, <4>2
    <3>2. CASE j # k
      BY <1>0, <2>2, <2>3, <3>2
    <3> QED
      BY <3>1, <3>2
  <2>5. \A f \in Committed, j \in Keys : f.values[j] = values'[j] /\ values'[j] # 0 =>
            f.rev < Latest.purge \/ f.values[j] = Latest.values[j]
    BY <1>0, <2>2, <2>3
  <2>6. \A f \in Committed, j \in Keys : <<j, f.values[j]>> \in erased' =>
            f.rev < Latest.purge \/ f.values[j] = Latest.values[j]
    BY <1>0, <2>2
  <2>7. ASSUME Saving, NEW j \in Keys, <<j, Latest.values[j]>> \in erased',
               drain.copy[j] # Latest.values[j]
        PROVE  drain.erase = TRUE
    <3>1. CASE <<j, Latest.values[j]>> \in erased
      BY <1>0, <2>2, <2>7, <3>1
    <3>2. CASE j = k /\ Latest.values[k] = values[k] /\ values[k] # 0
      <4>1. /\ values[k] = drain.copy[k] \/ values[k] > drain.at
            /\ Latest.values[k] <= drain.at
        BY <1>0, <1>02, <2>2, <2>7, <3>2 DEF Capturing, Busy, Saving
      <4>2. drain.at \in Nat /\ values[k] \in Nat
        BY Numbers
      <4> QED
        BY <2>7, <3>2, <4>1, <4>2
    <3>3. \/ <<j, Latest.values[j]>> \in erased
          \/ values[k] # 0 /\ <<j, Latest.values[j]>> = <<k, values[k]>>
      BY <2>2, <2>7
    <3> QED
      BY <3>1, <3>2, <3>3
  <2>8. (Saving' <=> Saving) /\ (Busy' <=> Busy)
    BY <2>2 DEF Saving, Busy
  <2> QED
    BY <1>0, <2>1, <2>2, <2>4, <2>5, <2>6, <2>7, <2>8 DEF DurableStays
<1>14. CASE ForgetLegacyMatches \/ UNCHANGED storageVars
  <2>1. DurableStays
    BY <1>0, <1>14, OthersKeepFiles
  <2>2. UNCHANGED <<phase, drain, erasure, values, erased>>
    BY <1>14 DEF ForgetLegacyMatches, storageVars, memory, history
  <2> QED
    BY <1>0, <2>1, <2>2 DEF DurableStays, Saving, Busy
<1> QED
  BY <1>1, <1>2, <1>3, <1>4, <1>5, <1>6, <1>7, <1>9, <1>10, <1>11, <1>12, <1>13, <1>14
  DEF StorageNext

-----------------------------------------------------------------------------
(* The theorems.                                                           *)

\* The invariant holds at first.
LEMMA StorageStarts == StorageInit => StorageTypeOK /\ StorageInv
<1> SUFFICES ASSUME StorageInit PROVE StorageInv
  BY TypeInit
<1>1. /\ Committed = {} /\ phase = "down" /\ drain = Idle /\ waiting = {} /\ erased = {}
      /\ drain.pc = "idle" /\ drain.remove = {} /\ erasure = FALSE /\ failed = FALSE
      /\ forgotten = {}
  BY IdleTyped DEF StorageInit, Committed
<1>2. Durable = legacy /\ acked.values = legacy /\ acked.at = edit /\ edit = 1
  BY <1>1 DEF StorageInit, Durable
<1>3. \A k \in Keys : removed[k] = 0
  BY DEF StorageInit
<1>4. Survives
  BY <1>1, <1>2 DEF Survives, Follows
<1>5. Versions
  BY <1>1, <1>2, <1>3 DEF Versions
<1> QED
  BY <1>1, <1>4, <1>5 DEF StorageInv, OneLatest, StoreKnowsLatest, Phases, Capturing,
     Erasures, Pruned, Busy, Saving

\* Every step keeps it.
LEMMA StorageSteps ==
    StorageTypeOK /\ StorageInv /\ [StorageNext]_storageVars => StorageTypeOK' /\ StorageInv'
<1> SUFFICES ASSUME StorageTypeOK, StorageInv, [StorageNext]_storageVars
             PROVE  StorageTypeOK' /\ StorageInv'
  OBVIOUS
<1>1. StorageTypeOK'
  <2>1. CASE Promote
    <3>1. drain.remove = {}
      BY <2>1 DEF StorageInv, Phases, Promote
    <3> QED
      BY <2>1, <3>1, TypePromote
  <2>2. CASE WritePart \/ RemoveFile \/ FinishSave \/ FailSave \/ Settle \/ Open
    BY <2>2, TypeWritePart, TypeRemoveFile, TypeFinishSave, TypeFailSave, TypeSettle,
       TypeOpen DEF StorageInv
  <2>3. CASE \/ FinishOpen \/ (\E k \in Keys : SetItem(k) \/ RemoveItem(k))
             \/ ForgetLegacyMatches \/ Flush \/ Crash \/ UNCHANGED storageVars
    BY <2>3, TypeFinishOpen, TypeSetItem, TypeRemoveItem, TypeForget, TypeFlush,
       TypeCrash, TypeStill
  <2> QED
    BY <2>1, <2>2, <2>3 DEF StorageNext
<1> QED
  BY <1>1, KeepOneLatest, KeepStoreKnowsLatest, KeepPhases, KeepVersions, KeepCapturing,
     KeepSurvives, KeepErasures, KeepPruned DEF StorageInv

\* In every reachable state the store, the drain and the files agree as
\*
\* StorageInv says, for any keys and any number of changes, revisions and
\* faults.
THEOREM StorageInvariant == StorageSpec => [](StorageTypeOK /\ StorageInv)
<1>1. StorageInit => StorageTypeOK /\ StorageInv
  BY StorageStarts
<1>2. StorageTypeOK /\ StorageInv /\ [StorageNext]_storageVars
          => (StorageTypeOK /\ StorageInv)'
  BY StorageSteps
<1> QED
  BY <1>1, <1>2, PTL DEF StorageSpec

\* flush() resolves only for what the next process will find.
THEOREM EditsSurvive == StorageSpec => []AcknowledgedEditsSurvive
<1>1. StorageTypeOK /\ StorageInv => AcknowledgedEditsSurvive
  BY DEF StorageInv, Survives, Follows, AcknowledgedEditsSurvive
<1> QED
  BY <1>1, StorageInvariant, PTL

\* The page says "saved" only of what is on the disk.
THEOREM SavedIsDurable == StorageSpec => []SavedMeansDurable
<1>1. StorageTypeOK /\ StorageInv => SavedMeansDurable
  BY DEF StorageInv, Survives, SavedMeansDurable, Status
<1> QED
  BY <1>1, StorageInvariant, PTL

\* The page says "saved" only when removed values are in no file.
THEOREM SavedIsErased == StorageSpec => []SavedMeansErased
<1>1. StorageTypeOK /\ StorageInv => SavedMeansErased
  <2> SUFFICES ASSUME StorageTypeOK, StorageInv, phase = "open", Status = "saved",
                      NEW f \in Committed, NEW k \in Keys, <<k, f.values[k]>> \in erased
               PROVE  FALSE
    BY DEF SavedMeansErased
  <2>1. drain.pc = "idle" /\ edit = saved /\ ~(store.failures > 0)
    BY DEF Status
  <2>2. Durable = values /\ Durable = Latest.values
    BY <2>1, LatestIs DEF StorageInv, Survives, Phases
  <2>3. drain.remove = {}
    BY <2>1 DEF StorageInv, Phases
  <2>4. ~(f.rev < Latest.purge)
    BY <2>1, <2>3 DEF StorageInv, Pruned
  <2>5. f.values[k] = values[k]
    BY <2>2, <2>4 DEF StorageInv, Erasures
  <2> QED
    BY <2>5 DEF StorageInv, Erasures
<1> QED
  BY <1>1, StorageInvariant, PTL
=============================================================================
