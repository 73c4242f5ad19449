SPECIFICATION FairSpec
CONSTANTS
    invoice = invoice
    phyto = phyto
    scan1 = scan1
    scan2 = scan2
    up1 = up1
    up2 = up2
    again = again
    remove = remove
    pack1 = pack1
    move1 = move1
    move2 = move2
    dispute1 = dispute1
    Documents = {invoice, phyto}
    Sufficient <- MCSufficient
    Artifacts = {scan1, scan2}
    Recognized <- MCRecognized
    KindOf <- MCKindOf
    ArtifactOf <- MCArtifactOf
    NoRequest = NoRequest
    NoTarget = NoTarget
    Declared <- NamedScans
    Requests = {up1, up2, again, remove, move1}
    MaxFaults = 0
CHECK_DEADLOCK FALSE
INVARIANTS UploadsKeepScore EvidenceBeforeValidation QuietLaneIsValidated
PROPERTIES EveryRequestEnds
