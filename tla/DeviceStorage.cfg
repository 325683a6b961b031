CONSTANTS
    Keys = {k1, k2}
    MaxEdits = 4
    MaxRevision = 3
    MaxFaults = 2
SPECIFICATION StorageSpec
SYMMETRY ExchangeKeys
INVARIANTS
    AcknowledgedEditsSurvive
    SavedMeansDurable
    SavedMeansErased
CHECK_DEADLOCK FALSE
