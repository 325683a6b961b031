\* Two calls with one match id.
SPECIFICATION FilesSpec
CONSTANTS
    Runs = {r1, r2}
    NoRun = NoRun
SYMMETRY RunSymmetry
INVARIANTS
    WinnerKeepsItsFile
CHECK_DEADLOCK FALSE
