SPECIFICATION Spec
CONSTANTS
    Goroutines <- NoGoroutines
    MaxNodes = 3
    MaxChildren = 1
    MaxCalls = 2
INVARIANTS
    NestedFireIsSeparate
