SPECIFICATION Spec
CONSTANTS
    upload = upload
    transition = transition
    verify = verify
    recheck = recheck
    lane1 = lane1
    host1 = host1
    host2 = host2
    Writes = {upload, transition, verify, recheck}
    Lanes = {lane1}
    LaneOf <- SameLane
    KindOf <- MCKindOf
    FormOf <- PublicForms
    Hosts = {host1}
    HostOf <- OneHost
    Ids = {1, 2, 3, 4}
    MaxTime = 2
    Genesis = Genesis
CHECK_DEADLOCK FALSE
INVARIANTS UntamperedChainVerifies
