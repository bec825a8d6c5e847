SPECIFICATION Spec
CONSTANTS
    Mailboxes = {"A"}
    UIDs = {1}
    Validities = {1}
    Options <- OptionsDownload
    MaxFaults = 1
    QueuedReads = TRUE
    Unsolicited = FALSE
    StrayCodes = FALSE
INVARIANT JournalNamesDelivered
