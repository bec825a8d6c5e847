CONSTANTS
    m1 = m1
    m2 = m2
    n1 = n1
    n2 = n2
    n3 = n3
    Messages = {m1, m2}
    Names = {n1, n2, n3}
    NoName = NoName
    NoMessage = NoMessage
    FlagsOf <- FlagsOfMessages
    SyncOnClose = TRUE
    FlagsFirst = TRUE
    QueuedReads = TRUE
    Unsolicited = TRUE
    MaxEnds = 2
SPECIFICATION Spec
SYMMETRY NameSymmetry
CHECK_DEADLOCK FALSE
INVARIANTS
    MaildirInv
    NotedIsDurable
    NoTornMail
    OwnFlags
PROPERTIES
    Implements
