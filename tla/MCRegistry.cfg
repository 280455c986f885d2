SPECIFICATION Spec
CONSTANTS
    Calls <- ThreeCalls
    Requests <- SomeRequests
    Names <- ThreeNames
    MaxActions = 2
    MaxDefinitions = 2
INVARIANTS
    RegistrationsHold
    ParamsAreIsolated
    FirstFailureWins
PROPERTIES
    NoWriteWhileRead
