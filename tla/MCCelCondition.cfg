SPECIFICATION Spec
CONSTANTS
    Hosts <- SmallHosts
    Illegal <- IllegalNames
    Prefixed <- PrefixedNames
    Reserved <- ReservedNames
    Dynamic <- DynamicMessages
    MaxBindings = 3
    MaxNatives = 2
    MaxFields = 2
    MaxFiles = 2
    MaxNesting = 3
    Traversals <- SmallTraversals
    MaxDepth = 2
    MaxVisits = 6
    MaxBytes = 3
    MaxItems = 3
    Poll = 2
INVARIANTS
    SchemaIsSound
    RefusalHasReason
    AnswerIsWhole
    FailureIsTrue
