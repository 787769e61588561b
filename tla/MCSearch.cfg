SPECIFICATION Spec
CONSTANTS
    Execs <- MCExecs
    Base <- MCBase
    Query <- MCQuery
    Specs <- MCSpecs
    Holds <- MCHolds
    Matches <- MCMatches
    Hard <- MCHard
    Good <- MCGood
    Bad <- MCBad
    MaxCopies = 2
    MaxSpec = 3
    WlCost <- MCWlCost
    ZeroCounts = {0, 1, 4}
    Entries <- MCEntries
    MaxHops = 2
    LocalThresh = 0
    SlowThresh = 1
    BacktrackThresh = 1
    Negligible = 1
    Queues <- MCQueues
    QueuesOf <- MCQueuesOf
    AsCEnq <- MCAsCEnq
    Weaker <- MCWeaker
    Wider <- MCWider
INVARIANTS
    RefinedIsAnswer
    LastStepFeasible
    NoSpecToRemove
PROPERTIES
    NoExampleTwice
    InfeasibleRunsReset
\* The search may end or be aborted.
CHECK_DEADLOCK FALSE
