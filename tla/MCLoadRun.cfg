CONSTANTS
    Stages <- MCStages
    MaxRunTime <- MCMaxRunTime
    None = None
SPECIFICATION Spec
INVARIANT TypeOK
PROPERTIES
    TargetReachedBeforeStageEnds
    RunEnds
    ImplementsStageProgress
CHECK_DEADLOCK FALSE
