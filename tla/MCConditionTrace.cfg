SPECIFICATION Spec
CONSTANTS
    Goroutines <- OneGoroutine
    MaxNodes = 4
    MaxChildren = 2
    MaxCalls = 3
INVARIANTS
    OneOperator
    TreeFollows
    NestedConditionsStayOut
