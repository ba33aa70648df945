SPECIFICATION Spec
CONSTANTS
    ShapeList <- MCShapeList
    Tables <- MCTables
    Ranks <- MCRanks
    FirstShape = 0
    MaxShapes = 2
INVARIANTS
    ScoreByTheLaws
    LosersByHolding
    ShapeMeans
CHECK_DEADLOCK FALSE
