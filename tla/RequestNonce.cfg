\* Two runner ids that are paired, one after the other, with the same key; their
\* signed requests arrive over and over on two threads.
SPECIFICATION Spec
CONSTANTS
    Runners = {r1, r2}
    Keys = {k1}
    Nonces = {n1, n2}
    Calls = {c1, c2}
    MaxAge = 0
    MaxFuture = 1
    Retention = 2
    MaxStall = 1
    MaxTime = 3
SYMMETRY CallSymmetry
INVARIANTS
    AcceptedOnce
    NoFalseReplays
CHECK_DEADLOCK FALSE
