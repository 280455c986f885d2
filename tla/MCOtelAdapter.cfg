SPECIFICATION FireSpec
CONSTANTS
    Calls <- SmallCalls
    Endings <- OneEnding
    Adapters <- SmallAdapters
INVARIANTS
    SpanEndsOnce
    SpanTellsTheResult
    MetricsTellTheResult
