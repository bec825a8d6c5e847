SPECIFICATION Spec
CONSTANTS
    FieldNames = {"SUBJECT"}
    Endings = {"BOTH"}
    Sextets = {1, 63}
    HexDigits = {7, 15}
    MaxTokens = 5
    MaxSymbols = 5
    MaxMessages = 2
INVARIANTS BodyIsText NoControls
CHECK_DEADLOCK FALSE
