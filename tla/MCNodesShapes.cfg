SPECIFICATION Spec
CONSTANTS
    ShapeList <- MCShapeList
    Tables <- MCTables
    Ranks <- MCRanks
    FirstShape = 15
    MaxShapes = 2
INVARIANTS
    ShapeMeans
CHECK_DEADLOCK FALSE
