SPECIFICATION Spec
CONSTANTS
    MaxUid = 3
    MaxCommands = 4
INVARIANTS BookkeepingAgrees SetIsExact OnlyPermitted CalledInOrder NamesExactly
CHECK_DEADLOCK FALSE
