SPECIFICATION FairSpec
CONSTANTS
    Configs <- MCConfigs
    Lines <- MCLines
    Bound = 2
    BufferSize = 4
INVARIANTS ReplayAgrees ReplayIsSequential TraceIsTranscript
PROPERTIES LimitEnds ReplayConcludes
CHECK_DEADLOCK FALSE
