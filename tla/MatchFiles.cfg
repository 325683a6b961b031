\* Three calls with one match id, in any overlap.
SPECIFICATION FilesSpec
CONSTANTS
    Runs = {r1, r2, r3}
    NoRun = NoRun
SYMMETRY RunSymmetry
INVARIANTS
    LoneResultsStay
    FailedMatchesCanBeRetried
CHECK_DEADLOCK FALSE
