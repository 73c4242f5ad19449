SPECIFICATION Spec
CONSTANTS
    invoice = invoice
    phyto = phyto
    scan1 = scan1
    scan2 = scan2
    up1 = up1
    up2 = up2
    again = again
    remove = remove
    pack1 = pack1
    move1 = move1
    move2 = move2
    dispute1 = dispute1
    Documents = {invoice, phyto}
    Sufficient <- MCSufficient
    Artifacts = {scan1}
    Recognized <- MCRecognized
    KindOf <- MCKindOf
    ArtifactOf <- MCArtifactOf
    NoRequest = NoRequest
    NoTarget = NoTarget
    Declared <- WholeFile
    Requests = {up1, pack1, move1, move2, dispute1}
    MaxFaults = 1
CHECK_DEADLOCK FALSE
INVARIANTS TypeOK PackBeforePacked
PROPERTIES OnlyRacesLeaveTheGraph
SYMMETRY Symmetry
