SPECIFICATION EngineSpec
CONSTANTS
    Definitions <- AllDefinitions
    ValidIDs <- AllIDs
    NoID = ""
    Uses <- AllUses
    Valid <- LastModes
    LastPanic = 1
INVARIANTS
    IssuesAreComplete
    OrderIsDeclared
    LookupsAgree
    OptionsApplyInOrder
