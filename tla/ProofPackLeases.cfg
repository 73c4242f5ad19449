SPECIFICATION FairSpec
CONSTANTS
    lane1 = lane1
    Packs = {pk1}
    Keys = {lane1}
    KeyOf <- SameKey
    Workers = {w1, w2}
    Renderings = {a}
    LeaseMs = 1
    RetryBackoff <- MCBackoff
    MaxAttempts = 2
    NoPack = NoPack
    NoDoc = NoDoc
    MaxFaults = 1
    MaxRenewals = 1
INVARIANTS TypeOK OnlyLatestAttemptOwns AttemptsAreCounted EffectsFollowOutcome OnlyOwnHeartbeatRefuses
PROPERTIES StaleWorkerHarmless EveryPackSettles
