\* Nim on the heaps 1 and 2, whose longest matches are one move too long for the
\* bound, so that matches are won, forfeited and aborted; one fault; each seat may
\* write one line unasked.  The functions of Nim on one to three heaps.
SPECIFICATION FairSpec
CONSTANTS
    Nobody = Nobody
    NoSeat = Nobody
    HeapCounts = {1, 2, 3}
    MaxHeap = 4
    Opening <- NimOpening
    Positions <- NimPositions
    Legal <- legal
    Apply <- apply
    Over <- NimOver
    Winner <- NimWinner
    Moves <- NamedMoves
    Bound = 2
    MaxFaults = 1
    MaxBlurts = 1
INVARIANTS
    HonestMatchesReplay
    PassTellsTheMatch
    ScorerAgrees
    FaultNeverDecides
    GoodSeatIsNeverCharged
    NothingIsLeftBehind
    LayoutsAreFair
PROPERTIES
    KeepsPromise
    MatchEnds
CHECK_DEADLOCK FALSE
