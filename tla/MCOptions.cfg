SPECIFICATION Spec
CONSTANTS
    Switch <- MCSwitch
    Stmt <- MCStmt
    Records <- MCRecords
    MaxSwitches = 3
    MaxStmts = 2
    MaxInput = 4
    LongEnds = {1000}
    KernelSeed = 99
    DefMaxGen = 58
INVARIANTS
    StartsTheLoop
    Precedence
    OneDealMode
CHECK_DEADLOCK FALSE
