SPECIFICATION Spec
CONSTANTS
    Mailboxes = {"A"}
    UIDs = {1, 2}
    Validities = {1}
    Options <- OptionsDownload
    MaxFaults = 1
    QueuedReads = FALSE
    Unsolicited = TRUE
    StrayCodes = FALSE
INVARIANT NoLoss
