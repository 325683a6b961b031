\* One append fails and leaves its line in the file.
SPECIFICATION Spec
CONSTANTS
    Nobody = Nobody
    NoSeat = Nobody
    HeapCounts = {2}
    MaxHeap = 2
    Opening <- NimOpening
    Positions <- NimPositions
    Legal <- legal
    Apply <- apply
    Over <- NimOver
    Winner <- NimWinner
    Moves <- NamedMoves
    Bound = 3
    MaxFaults = 1
    MaxBlurts = 0
INVARIANTS
    ResultsAreRecomputable
CHECK_DEADLOCK FALSE
