--------------------------- MODULE BuildLifecycle ---------------------------
(* The log of one build-off, buildwars/lifecycle.py: which event may follow  *)
(* which, by whom, and what the log projects to. An action is one event that *)
(* append_lifecycle_event accepts; an event it refuses, and the repetition   *)
(* of one that is in the log, leave the log as it is. Documents are their    *)
(* identities: a digest is what it digests, the chain of hashes is the order *)
(* of the events, and a receipt is the verdicts it was computed from.        *)
EXTENDS Naturals

CONSTANTS Actors,    \* references of whoever appends events
          Entries,   \* what can be built for the challenge
          Verdicts   \* what a judgment can say of an entry

VARIABLES stage,      \* "absent" before the first event
          count,      \* events in the log
          entries,    \* the entries that the last event binds
          frozen,     \* those that were submitted for review
          scores,     \* judgments by entry, none before the score
          decision, creator, reviewer,
          appealOpen, appealCount, lastAppealOutcome, lastAppealAuthor,
          revocation,
          played,     \* history: who acted in which role
          outcomes    \* history: how appeals were resolved

log == <<stage, count, entries, frozen, scores, decision, creator, reviewer,
         appealOpen, appealCount, lastAppealOutcome, lastAppealAuthor,
         revocation, played, outcomes>>
bindings == <<entries, frozen, scores>>
review == <<decision, creator, reviewer>>
appeal == <<appealOpen, appealCount, lastAppealOutcome, lastAppealAuthor>>

MAX_EVENTS == 64
MAX_APPEALS == 2

Decisions == {"accepted_for_scoring", "rejected_at_review"}
Outcomes == {"dismissed", "upheld"}
Reasons == {"creator_withdrawal", "appeal_upheld", "reviewer_referral",
            "integrity_concern", "steward_action"}
Roles == {"creator", "reviewer", "appeal_author", "appeal_resolver", "steward"}

\* Nobody, or nothing yet.
None == "none"

\* The slots of the log that an event must leave free.
Reserved(type) ==
    CASE type = "privacy_tombstoned" -> 0
      [] type = "lifecycle_retired"  -> 1
      [] OTHER                       -> 2

\* Nobody was scored yet: the judgments of no entry.
NoScores == [e \in {} |-> None]

Init ==
    /\ stage = "absent"
    /\ count = 0
    /\ entries = {} /\ frozen = {} /\ scores = NoScores
    /\ decision = None /\ creator = None /\ reviewer = None
    /\ appealOpen = FALSE /\ appealCount = 0
    /\ lastAppealOutcome = None /\ lastAppealAuthor = None
    /\ revocation = None
    /\ played = {} /\ outcomes = {}

\* What every event goes through: there is room for it, its role is that of
\* its type, and a steward is neither the creator nor the reviewer.
AppendEvent(type, role, actor, next) ==
    /\ count + 1 + Reserved(type) <= MAX_EVENTS
    /\ role = "creator" => actor = creator \/ stage = "absent"
    /\ role = "steward" => actor \notin {creator, reviewer}
    /\ count' = count + 1
    /\ played' = played \cup {<<role, actor>>}
    /\ stage' = next

-----------------------------------------------------------------------------
DraftOpened(actor, incoming) ==
    /\ stage = "absent"
    /\ AppendEvent("creator_draft_opened", "creator", actor, "draft")
    /\ entries' = incoming
    /\ creator' = actor
    /\ UNCHANGED <<frozen, scores, decision, reviewer, appeal, revocation, outcomes>>

DraftAmended(actor, incoming) ==
    /\ stage = "draft"
    /\ AppendEvent("creator_draft_amended", "creator", actor, "draft")
    /\ entries' = incoming
    /\ UNCHANGED <<frozen, scores, review, appeal, revocation, outcomes>>

ReviewSubmitted(actor) ==
    /\ stage = "draft"
    /\ entries # {}
    /\ AppendEvent("review_submitted", "creator", actor, "submitted")
    /\ frozen' = entries
    /\ UNCHANGED <<entries, scores, review, appeal, revocation, outcomes>>

DecisionRecorded(actor, verdict) ==
    /\ stage = "submitted"
    /\ entries = frozen
    /\ actor # creator
    /\ AppendEvent("review_decision_recorded", "reviewer", actor, "decided")
    /\ decision' = verdict
    /\ reviewer' = actor
    /\ UNCHANGED <<bindings, creator, appeal, revocation, outcomes>>

\* The sidecar documents are recomputed: one judgment by the reviewer for each
\* of two or more entries, which are those that were submitted.
CandidateScored(actor, incoming, judgments) ==
    /\ stage = "decided"
    /\ decision = "accepted_for_scoring"
    /\ incoming = frozen
    /\ actor = reviewer
    /\ judgments \in [incoming -> Verdicts]
    /\ \E e, f \in incoming : e # f
    /\ AppendEvent("candidate_scored", "reviewer", actor, "scored")
    /\ entries' = incoming
    /\ scores' = judgments
    /\ UNCHANGED <<frozen, review, appeal, revocation, outcomes>>

AppealOpened(actor, appealed) ==
    /\ \/ stage = "scored"
       \/ stage = "appeal_resolved" /\ lastAppealOutcome = "dismissed"
    /\ appealCount < MAX_APPEALS
    /\ appealed # {} /\ appealed \subseteq DOMAIN scores
    /\ actor # reviewer
    /\ AppendEvent("appeal_opened", "appeal_author", actor, "appeal_open")
    /\ appealCount' = appealCount + 1
    /\ appealOpen' = TRUE
    /\ lastAppealAuthor' = actor
    /\ lastAppealOutcome' = None
    /\ UNCHANGED <<bindings, review, revocation, outcomes>>

AppealResolved(actor, outcome) ==
    /\ stage = "appeal_open"
    /\ actor \notin {reviewer, lastAppealAuthor}
    /\ AppendEvent("appeal_resolved", "appeal_resolver", actor, "appeal_resolved")
    /\ appealOpen' = FALSE
    /\ lastAppealOutcome' = outcome
    /\ outcomes' = outcomes \cup {outcome}
    /\ UNCHANGED <<bindings, review, appealCount, lastAppealAuthor, revocation>>

\* By a receipt of another lifecycle.
ReceiptSuperseded(actor) ==
    /\ \/ stage = "scored"
       \/ stage = "appeal_resolved" /\ lastAppealOutcome = "dismissed"
    /\ AppendEvent("receipt_superseded", "steward", actor, "superseded")
    /\ UNCHANGED <<bindings, review, appeal, revocation, outcomes>>

CandidateRevoked(actor, reason) ==
    /\ \/ stage \in {"scored", "appeal_resolved"}
       \/ stage = "decided" /\ decision = "accepted_for_scoring"
    /\ (lastAppealOutcome = "upheld") <=> (reason = "appeal_upheld")
    /\ AppendEvent("candidate_revoked", "steward", actor, "revoked")
    /\ revocation' = reason
    /\ UNCHANGED <<bindings, review, appeal, outcomes>>

LifecycleRetired(actor) ==
    /\ stage \in {"decided", "scored", "appeal_resolved", "superseded", "revoked"}
    /\ AppendEvent("lifecycle_retired", "steward", actor, "retired")
    /\ UNCHANGED <<bindings, review, appeal, revocation, outcomes>>

PrivacyTombstoned(actor) ==
    /\ stage \notin {"absent", "tombstoned"}
    /\ AppendEvent("privacy_tombstoned", "steward", actor, "tombstoned")
    /\ UNCHANGED <<bindings, review, appeal, revocation, outcomes>>

Next ==
    \E actor \in Actors :
        \/ \E incoming \in SUBSET Entries :
               \/ DraftOpened(actor, incoming)
               \/ DraftAmended(actor, incoming)
               \/ \E judgments \in [incoming -> Verdicts] :
                      CandidateScored(actor, incoming, judgments)
               \/ AppealOpened(actor, incoming)
        \/ ReviewSubmitted(actor)
        \/ \E verdict \in Decisions : DecisionRecorded(actor, verdict)
        \/ \E outcome \in Outcomes : AppealResolved(actor, outcome)
        \/ ReceiptSuperseded(actor)
        \/ \E reason \in Reasons : CandidateRevoked(actor, reason)
        \/ LifecycleRetired(actor)
        \/ PrivacyTombstoned(actor)

Spec == Init /\ [][Next]_log

\* What assert_new_use_allowed lets pass.
NewUseEligible ==
    /\ stage \in {"scored", "appeal_resolved"}
    /\ lastAppealOutcome # "upheld"

-----------------------------------------------------------------------------
\* The reviewer of a build-off has no other part in it, not even in a later
\* appeal, and its stewards never were its creators: whatever the order in
\* which they act.
ReviewerStandsApart ==
    \A r \in Roles, a \in Actors :
        /\ {<<"reviewer", a>>, <<r, a>>} \subseteq played => r = "reviewer"
        /\ {<<"steward", a>>, <<r, a>>} \subseteq played => r \notin {"creator", "reviewer"}

\* A candidate that may be used was accepted, was judged on each of the
\* entries that were submitted, and no appeal against it was ever upheld.
UseIsEarned ==
    NewUseEligible =>
        /\ decision = "accepted_for_scoring"
        /\ entries = frozen
        /\ scores \in [frozen -> Verdicts]
        /\ ~appealOpen
        /\ "upheld" \notin outcomes

\* An upheld appeal is the reason of a revocation exactly if there was one.
RevocationsTellTheOutcome ==
    stage = "revoked" => (revocation = "appeal_upheld" <=> "upheld" \in outcomes)

\* However long the log, there is room to retire the build-off and to
\* suppress it, or, once it is retired, to suppress it.
ClosingAlwaysFits ==
    /\ stage \notin {"absent", "retired", "tombstoned"} => count <= MAX_EVENTS - 2
    /\ stage # "tombstoned" => count <= MAX_EVENTS - 1

\* What was submitted, and then what was judged, is never rewritten.
EvidenceStands ==
    [][/\ frozen # {} => entries' = entries /\ frozen' = frozen
       /\ scores # NoScores => scores' = scores]_log
=============================================================================
