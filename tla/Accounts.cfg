SPECIFICATION Spec
CONSTANTS
    exporter = exporter
    auditor = auditor
    s1 = s1
    s2 = s2
    oldMail = oldMail
    newMail = newMail
    auditMail = auditMail
    gone1 = gone1
    gone2 = gone2
    export = export
    correct = correct
    delete = delete
    deleteAuditor = deleteAuditor
    Users = {exporter, auditor}
    NoUser = NoUser
    Privileged = {auditor}
    Emails = {oldMail, newMail, auditMail, gone1, gone2}
    Address <- MCAddress
    Anonymous <- MCAnonymous
    Resets = {1, 2, 3}
    Limit = 1
    Rights = {export, correct, delete, deleteAuditor}
    UserOf <- MCUserOf
    TypeOf <- MCTypeOf
    Correction <- MCCorrection
    Slots = {s1, s2}
    MaxRequests = 4
    MaxFaults = 1
CHECK_DEADLOCK FALSE
INVARIANTS TypeOK SessionsEnd ResetTokensWorkOnce ResetsAreLimited ErasureLeavesRequests FulfilledOnce
SYMMETRY Symmetry
