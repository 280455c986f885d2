SPECIFICATION Spec
CONSTANTS
    Goroutines <- NoGoroutines
    MaxNodes = 2
    MaxChildren = 2
    MaxCalls = 1
INVARIANTS
    OpaqueWhenChanged
