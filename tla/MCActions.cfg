SPECIFICATION Spec
CONSTANTS
    Deal <- MCDeal
    Expr <- MCExpr
    Val <- MCVal
    Trix <- MCTrix
    ActionList <- MCActionList
    Garbage <- MCGarbage
    maxproduce = 5
    boardoffset = 14
    maxdealer <- MCUnset
    maxvuln <- MCUnset
    par_vuln = 3
    quiet = FALSE
INVARIANTS
    StatsOfTheDeals
    ContractAccounted
    BoardsAgree
CHECK_DEADLOCK FALSE
