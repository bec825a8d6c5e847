SPECIFICATION ConnFairSpec
CONSTANTS
    PreCaps <- SomeCaps
    PostCaps <- AfterLogin
    SplitGreeting = FALSE
    StrayCodes = TRUE
    Transports = {TRUE, FALSE}
    MaxSignals = 2
INVARIANTS LoginOnlyIfAllowed CapabilitiesAreCurrent NoStrandedWrite OneOfEach
           UndisturbedReturns
PROPERTIES RunConcludes SignalsEnd
CHECK_DEADLOCK FALSE
