\* Two slots asked for with two bodies on two threads; crashes, failures and
\* retries around one expiry, and exchange of the one response key.
SPECIFICATION Spec
CONSTANTS
    Slots = {s1, s2}
    Bodies = {b1, b2}
    Calls = {c1, c2}
    SealKeys = {e1, e2}
    None = None
    Ttl = 1
    MaxRing = 1
    MaxStall = 1
    MaxRuns = 3
    MaxTime = 2
SYMMETRY GatewaySymmetry
INVARIANTS
    AtomicExecutions
    OncePerWindow
PROPERTIES
    KeepsPromise
