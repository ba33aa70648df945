SPECIFICATION Spec
CONSTANTS
    Slot <- MCSlot
    Tag <- MCTag
    Fills <- MCFills
    AskTag <- MCAskAll
    MaxGen = 2
    MaxAsk = 2
    LibDeals = TRUE
    Faults = {"exec", "write"}
INVARIANTS
    TricksCurrent
    OrphanSleeps
PROPERTIES
    EndsOrSleeps
CHECK_DEADLOCK FALSE
