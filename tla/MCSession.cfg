SPECIFICATION Spec
CONSTANTS
    Mailboxes = {"A"}
    UIDs = {1, 2}
    Validities = {1, 2}
    Options <- OptionsCautious
    MaxFaults = 2
    QueuedReads = FALSE
    Unsolicited = FALSE
    StrayCodes = FALSE
INVARIANTS SafetyInv NoLoss JournalNamesDelivered UidplusSparesOthers
PROPERTY Implements
