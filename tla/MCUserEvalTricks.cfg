SPECIFICATION SafeSpec
CONSTANTS
    Slot <- MCSlot
    Tag <- MCTag
    Fills <- MCFills
    AskTag <- MCTag
    MaxGen = 2
    MaxAsk = 2
    LibDeals = FALSE
    Faults = {}
INVARIANT TricksCurrent
