SPECIFICATION Spec
CONSTANTS
    Types <- FourTypes
    Shapes <- SomeShapes
    Root = 1
    MaxDepth = 2
    MaxTypes = 3
INVARIANTS
    AcceptedIsSound
    RefusalIsTrue
