SPECIFICATION Spec
CONSTANTS
    s1 = s1
    s2 = s2
    expiring = expiring
    undated = undated
    listed = listed
    unlisted = unlisted
    Slots = {s1, s2}
    MaxRequests = 3
    MaxFaults = 1
    Readings <- MCReadings
    Batches <- MCBatches
    Detected <- MCDetected
    Certs = {expiring, undated}
    Expiry <- MCExpiry
    Days = {0, 10, 20}
    Names = {listed, unlisted}
    FileRules <- MCFileRules
    FileVersion = 1
    Audiences = {1, 2}
CHECK_DEADLOCK FALSE
INVARIANTS TypeOK CommitsAnnounced DerivedTablesFollow BreachIsEarliest AlertsOnce
SYMMETRY Symmetry
