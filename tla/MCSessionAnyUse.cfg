SPECIFICATION Spec
CONSTANTS
    Mailboxes = {"A", "B"}
    UIDs = {1}
    Validities = {1, 2}
    Options <- OptionsAnyUse
    MaxFaults = 2
    QueuedReads = TRUE
    Unsolicited = TRUE
    StrayCodes = TRUE
INVARIANTS TypeOK UidsMatchSelected
