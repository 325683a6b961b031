----------------------------- MODULE MatchFiles -----------------------------
(* The files of one match id in one output directory (run_match of           *)
(* src/arena/match.py): several calls, of one process or of several, check   *)
(* that the id is free, create the transcript and the diagnostics file       *)
(* exclusively, play in a scratch directory, and clean up.  A directory      *)
(* entry is modelled by the call that created the file behind it; a call     *)
(* goes on writing to a file whose entry is gone.                            *)

CONSTANTS
    Runs,       \* calls of run_match with the same match id and directory
    NoRun       \* no entry

ASSUME FilesAssumption == NoRun \notin Runs

VARIABLES
    stage,          \* where each call is
    transcript,     \* the entry MATCH_ID.jsonl
    sidecar,        \* the entry MATCH_ID.diagnostics.jsonl
    scratch,        \* calls with seats in the directory .scratch-MATCH_ID; {} if it is absent
    committed,      \* calls that appended a result
    met,            \* history: calls that were under way together with another
    left            \* history: calls whose cleanup left an entry where it was

filesVars == <<stage, transcript, sidecar, scratch, committed, met, left>>

UnderWay == {"open_transcript", "open_sidecar", "start", "play", "settle",
             "unlink_transcript", "unlink_sidecar", "remove_scratch"}
RunStages == UnderWay \union {"called", "refused", "ended", "dead"}

Active == {r \in Runs : stage[r] \in UnderWay}
Stage(r, from, to) == stage[r] = from /\ stage' = [stage EXCEPT ![r] = to]

FilesTypeOK ==
    /\ stage \in [Runs -> RunStages]
    /\ transcript \in Runs \union {NoRun}
    /\ sidecar \in Runs \union {NoRun}
    /\ scratch \subseteq Runs
    /\ committed \subseteq Runs /\ met \subseteq Runs /\ left \subseteq Runs
    /\ \A r \in committed : stage[r] \in {"settle", "ended", "dead"}
    /\ \A r \in Runs : stage[r] = "settle" => r \in committed

FilesInit ==
    /\ stage = [r \in Runs |-> "called"]
    /\ transcript = NoRun /\ sidecar = NoRun /\ scratch = {}
    /\ committed = {} /\ met = {} /\ left = {}

------------------------------------------------------------------------------
Free == transcript = NoRun /\ sidecar = NoRun /\ scratch = {}

\* Mutant: the exclusive opens are trusted to refuse.
PreflightNothing(r) ==
    /\ Stage(r, "called", "open_transcript")
    /\ met' = IF Active = {} THEN met ELSE met \union Active \union {r}
    /\ UNCHANGED <<transcript, sidecar, scratch, committed, left>>

\* A call that finds an entry is refused before the try block: it cleans nothing.
Preflight(r) ==
    /\ \/ /\ Free /\ Stage(r, "called", "open_transcript")
          /\ met' = IF Active = {} THEN met ELSE met \union Active \union {r}
       \/ /\ ~Free /\ Stage(r, "called", "refused")
          /\ met' = met
    /\ UNCHANGED <<transcript, sidecar, scratch, committed, left>>

\* O_CREAT | O_EXCL: an entry that exists fails the call, into its cleanup.
OpenTranscript(r) ==
    /\ \/ /\ transcript = NoRun /\ Stage(r, "open_transcript", "open_sidecar")
          /\ transcript' = r
       \/ /\ transcript # NoRun /\ Stage(r, "open_transcript", "unlink_transcript")
          /\ transcript' = transcript
    /\ UNCHANGED <<sidecar, scratch, committed, met, left>>

OpenSidecar(r) ==
    /\ \/ /\ sidecar = NoRun /\ Stage(r, "open_sidecar", "start")
          /\ sidecar' = r
       \/ /\ sidecar # NoRun /\ Stage(r, "open_sidecar", "unlink_transcript")
          /\ sidecar' = sidecar
    /\ UNCHANGED <<transcript, scratch, committed, met, left>>

\* The seats get their working directories, in a root that may exist.
Start(r) ==
    /\ Stage(r, "start", "play")
    /\ scratch' = scratch \union {r}
    /\ UNCHANGED <<transcript, sidecar, committed, met, left>>

CommitRun(r) ==
    /\ Stage(r, "play", "settle")
    /\ committed' = committed \union {r}
    /\ UNCHANGED <<transcript, sidecar, scratch, met, left>>

\* Anything may raise until the result is on record.
Fail(r) ==
    /\ \E from \in {"open_transcript", "open_sidecar", "start", "play"} :
           Stage(r, from, "unlink_transcript")
    /\ UNCHANGED <<transcript, sidecar, scratch, committed, met, left>>

------------------------------------------------------------------------------
(* The finally block: a call without a result removes both entries, whoever  *)
(* created them; every call removes the scratch directory.  Each removal may *)
(* fail; the others are attempted all the same.                              *)

\* Mutant: the transcript of a failed call stays.
UnlinkNoTranscript(r) ==
    /\ Stage(r, "unlink_transcript", "unlink_sidecar")
    /\ UNCHANGED <<transcript, sidecar, scratch, committed, met, left>>

UnlinkTranscript(r) ==
    /\ Stage(r, "unlink_transcript", "unlink_sidecar")
    /\ \/ transcript' = NoRun /\ left' = left
       \/ transcript' = transcript /\ left' = left \union {r}
    /\ UNCHANGED <<sidecar, scratch, committed, met>>

UnlinkSidecar(r) ==
    /\ Stage(r, "unlink_sidecar", "remove_scratch")
    /\ \/ sidecar' = NoRun /\ left' = left
       \/ sidecar' = sidecar /\ left' = left \union {r}
    /\ UNCHANGED <<transcript, scratch, committed, met>>

\* keep_scratch skips this step, and rmtree ignores its errors.
RemoveScratch(r) ==
    /\ Stage(r, "settle", "ended") \/ Stage(r, "remove_scratch", "ended")
    /\ \/ scratch' = {} /\ left' = left
       \/ scratch' = scratch /\ left' = left \union {r}
    /\ UNCHANGED <<transcript, sidecar, committed, met>>

Die(r) ==
    /\ stage[r] \in UnderWay
    /\ stage' = [stage EXCEPT ![r] = "dead"]
    /\ UNCHANGED <<transcript, sidecar, scratch, committed, met, left>>

FilesNext == \E r \in Runs :
    \/ Preflight(r) \/ OpenTranscript(r) \/ OpenSidecar(r) \/ Start(r)
    \/ CommitRun(r) \/ Fail(r)
    \/ UnlinkTranscript(r) \/ UnlinkSidecar(r) \/ RemoveScratch(r) \/ Die(r)

FilesSpec == FilesInit /\ [][FilesNext]_filesVars

------------------------------------------------------------------------------
\* The result of a call that never overlapped with another keeps its transcript
\* and its diagnostics, whatever calls with the same id come later.
LoneResultsStay ==
    \A r \in committed \ met : transcript = r /\ sidecar = r

\* "The match id can be retried instead of being permanently wedged": whatever
\* occupies one of the three entries is there for a call that is still under way,
\* committed a result, died, or asked to keep its scratch directory or could not
\* remove what it had.  Any other call that failed has left the id to the next,
\* even if calls removed and created the same entries in between.
FailedMatchesCanBeRetried ==
    LET owners == committed \union left
                     \union {r \in Runs : stage[r] \in UnderWay \union {"dead"}}
    IN transcript \in owners \union {NoRun} /\ sidecar \in owners \union {NoRun}
       /\ scratch \subseteq owners

(* The inductive invariant.  Calls that overlap are both in met; a call that *)
(* met none is the only one under way as long as its transcript is there,    *)
(* because whoever comes later is refused.                                   *)
OverlapsAreKnown ==
    \A r, q \in Runs :
        r # q /\ stage[r] \in UnderWay /\ stage[q] \in UnderWay => r \in met

LoneRunsOwnTheirFiles ==
    \A r \in Runs \ met :
        /\ stage[r] \in {"open_sidecar", "start", "play", "settle"} => transcript = r
        /\ stage[r] \in {"start", "play", "settle"} => sidecar = r
        /\ r \in committed => transcript = r /\ sidecar = r
        /\ transcript = r => \A q \in Runs \ {r} : stage[q] \notin UnderWay

FailedRunsOwnNothing ==
    \A r \in Runs :
        /\ stage[r] \in {"called", "refused"} =>
               transcript # r /\ sidecar # r /\ r \notin scratch
        /\ stage[r] = "open_transcript" => transcript # r /\ sidecar # r
        /\ stage[r] = "open_sidecar" => sidecar # r
        /\ stage[r] \in {"unlink_sidecar", "remove_scratch"} => transcript # r \/ r \in left
        /\ stage[r] = "remove_scratch" => sidecar # r \/ r \in left
        /\ stage[r] = "ended" /\ r \notin committed \union left =>
               transcript # r /\ sidecar # r /\ r \notin scratch

FilesInv == FilesTypeOK /\ OverlapsAreKnown /\ LoneRunsOwnTheirFiles /\ FailedRunsOwnNothing

\* "The exclusive opens below remain the race-safe authority": the call that
\* won the creation of the transcript keeps its entry until it ends.
WinnerKeepsItsFile ==
    \A r \in Runs :
        stage[r] \in {"open_sidecar", "start", "play", "settle"} => transcript = r
=============================================================================
