SPECIFICATION Spec
CONSTANTS
    Calls <- AllCalls
    Endings <- TwoEndings
INVARIANTS
    TypeOK
    CountsAreTrue
    ViewsAreTrue
    ErrorIsComplete
    LedgerInv
    HolesAreExplained
    GroupsAreTrue
    EventsTellTheStory
    OneSelection
PROPERTIES
    FactsAreFinal
    EndIsFinal
    ImplementsContract
