\* Two challenges of an account, one of which a device with two commands at a time
\* claims, and both of which another holder of the secrets may claim; one expiry.
SPECIFICATION DeviceSpec
CONSTANTS
    k1 = k1
    k2 = k2
    other = other
    Owners = {o1}
    Challenges = {c1, c2}
    Runners = {r1, r2}
    Keys = {k1, k2, other}
    OwnKeys = {k1, k2}
    Secrets = {c1}
    c1 = c1
    Commands = {p1, p2}
    None = None
    Torn = Torn
    MaxClaims = 2
    Ttl = 1
    MaxTime = 1
    MaxLate = 1
SYMMETRY PairingSymmetry
INVARIANTS
    ClaimedKeysAreKept
    RunnersHaveOneChallenge
    AcknowledgedKeysBind
    PreparedChallengesCanBeClaimed
PROPERTIES
    DecisionsStand
CHECK_DEADLOCK FALSE
