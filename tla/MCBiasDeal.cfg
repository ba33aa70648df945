SPECIFICATION Spec
CONSTANTS
    NoCard = none
    Hands = 3
    HandSize = 2
    ExgGap = 2
    Biases <- MCBiases
INVARIANTS
    EveryCardOnce
    BiasMet
    GivesUpOnlyShort
CHECK_DEADLOCK FALSE
