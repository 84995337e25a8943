SPECIFICATION BSpec
CONSTANTS
    Requests <- Shapes
    SizeMax = 255
    NumClasses = 4
    SlabWords = 5
    MaxDepth = 2
    MaxBlocks = 3
    MaxRc = 2
CONSTRAINT Bounded
INVARIANTS
    ArenaSlabsPeak
    StorageAccounted
    PhysicalFigure
PROPERTY
    ImplementsHeap
CHECK_DEADLOCK FALSE
