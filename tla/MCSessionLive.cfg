SPECIFICATION FairSpec
CONSTANTS
    Mailboxes = {"A"}
    UIDs = {1, 2}
    Validities = {1, 2}
    Options <- OptionsDownload
    MaxFaults = 2
    QueuedReads = FALSE
    Unsolicited = FALSE
    StrayCodes = FALSE
INVARIANT FetchedAreTracked
PROPERTIES RunEnds EventuallyRemoved
