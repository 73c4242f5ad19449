SPECIFICATION Spec
CONSTANTS
    lane1 = lane1
    Packs = {pk1, pk2}
    Keys = {lane1}
    KeyOf <- SameKey
    Workers = {w1, w2}
    Renderings = {a, b}
    LeaseMs = 1
    RetryBackoff <- MCBackoff
    MaxAttempts = 1
    NoPack = NoPack
    NoDoc = NoDoc
    MaxFaults = 2
    MaxRenewals = 0
SYMMETRY Symmetry
INVARIANTS PackFollowsJob OnlyRivalsBreakVerification
PROPERTIES ImplementsPromise
