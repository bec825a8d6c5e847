SPECIFICATION Spec
CONSTANTS
    Numbers = {"0", "1", "4", "Huge"}
    StrayCodes = FALSE
INVARIANTS Prompt OwnArguments LiteralConverted
CHECK_DEADLOCK FALSE
PROPERTY KeepsPromise
