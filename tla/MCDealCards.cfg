SPECIFICATION LibSpec
CONSTANTS
    none = none
    NoCard = none
    HandSize = 2
    Stacked <- MCStacked
    Modes <- MCModes
    Draws <- MCDraws
    MaxShuffles = 2
    TrickTables <- MCTrickTables
INVARIANTS
    EveryCardOnce
    EveryArrangementOnce
    ReadsBack
CHECK_DEADLOCK FALSE
