SPECIFICATION Spec
CONSTANTS
    InQueueCnt = 3
    TotalTime = 3
    MaxEnq = 1
    MaxInt = 31
    Executions <- MCExecutions
    TargetQueues <- MCQueues
    ConstVals = {0, 1}
    DstVals = {0, 1}
    TimeCoeffs = {1, 2}
    MaxSize = 3
    Written <- MCWritten
    Drawn <- MCDrawn
    Near <- MCNear
    Others <- MCOthers
    MaxConst = 2
INVARIANTS
    NormalizeKeepsMeaning
    EvaluatesAsEncoded
    TimelineIsTheSpecs
PROPERTIES
    AddIsConjunction
