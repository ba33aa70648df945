SPECIFICATION Spec
CONSTANTS
    Hand <- MCHand
    Strain <- MCStrain
    LibModes = {FALSE, TRUE}
    FaultSets <- MCFaultSets
    MaxGen = 2
INVARIANTS
    AnswerCurrent
    TableWhole
    SolvedOnce
