SPECIFICATION FairSpec
CONSTANTS
    e1 = e1
    e2 = e2
    NoEngine = NoEngine
    Calls <- FourCalls
    Engines <- TwoEngines
    Requests <- SomeRequests
    MaxRevision = 2
INVARIANTS
    RevisionCounts
PROPERTIES
    ImplementsLog
    EveryCallReturns
