SPECIFICATION Spec
CONSTANTS
    Slot <- MCSlot
    Tag <- MCTag
    Fills <- MCFills
    AskTag <- MCTag
    MaxGen = 2
    MaxAsk = 2
    LibDeals = FALSE
    Faults = {}
INVARIANTS
    TypeOK
    NoRace
    OneToken
    ReplyCurrent
    CacheHonest
    ServesTheQuery
PROPERTIES
    WritesOnlyWhenAsked
    Termination
    ServiceSpec
