SPECIFICATION Spec
CONSTANTS
    photo1 = photo1
    photo2 = photo2
    photoKey = photoKey
    harvest = harvest
    laneCheck = laneCheck
    withdrawal = withdrawal
    Artifacts = {photo1, photo2}
    Keys = {photoKey}
    KeyOf <- MCKeyOf
    Wanted <- MCWanted
    CheckpointOf <- MCCheckpointOf
    NoCheckpoint = NoCheckpoint
    Checks = {laneCheck}
    CheckOf <- MCCheckOf
    WholeLane = WholeLane
    Deletions = {withdrawal}
    DeletionOf <- MCDeletionOf
    MaxFaults = 2
CHECK_DEADLOCK FALSE
INVARIANTS TypeOK NoCycles LostObjectsHaveFailedUploads UploadsEndVerified
PROPERTIES DeletedRowsAreFrozen
