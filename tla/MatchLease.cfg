SPECIFICATION Spec
CONSTANTS
    r1 = r1
    r2 = r2
    o1 = o1
    o2 = o2
    NoRunner = NoRunner
    Runners = {r1, r2}
    Jobs = {j1, j2}
    Owners = {o1, o2}
    OwnerOf <- SeparateOwners
    MaxAttempts = 2
    MaxRenews = 1
    LeaseLength = 1
    MaxTime = 2
SYMMETRY ExchangeJobs
INVARIANTS
    LeasedJobsHaveTheLastLease
    OneLeasePerRunner
    ResultsAgree
    EndedRunnersHoldNoWork
PROPERTIES
    LeaseTimeIsBounded
    KeepsPromise
CHECK_DEADLOCK FALSE
