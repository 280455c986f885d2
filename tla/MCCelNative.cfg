SPECIFICATION Spec
CONSTANTS
    Comparisons <- SmallComparisons
    TypeOf <- PartOf
    ComparisonDepth = 8
    ComparisonLimits <- SmallSizes
    Operations <- SmallOperations
    Lookups <- SmallLookups
    Width = 4
    Platform = 3
    ConversionDepth = 4
    ConversionLimits <- SmallLimits
INVARIANTS
    AnswerIsDerived
    LimitIsExceeded
    ConversionIsTrue
    LookupIsExact
