\* One command started again and again, one request of a former run still on
\* its way, two jobs of two attempts with one renewal each.  At most
\* 2 * 2 * 2 lease lengths can pass, so the clock never stops at MaxTime.
SPECIFICATION WorkSpec
CONSTANTS
    r1 = r1
    o1 = o1
    NoRunner = NoRunner
    Runners = {r1}
    Jobs = {j1, j2}
    Owners = {o1}
    OwnerOf <- OneOwner
    Commands = {p1}
    ServedBy <- OneRunner
    MaxAttempts = 2
    MaxRenews = 1
    LeaseLength = 1
    MaxTime = 8
    MaxLate = 1
INVARIANTS
    ReceiptsStand
PROPERTIES
    LeasesAreFenced
    QueuedWorkEnds
CHECK_DEADLOCK FALSE
