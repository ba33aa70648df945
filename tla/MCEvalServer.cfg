SPECIFICATION Spec
CONSTANT
    Deals <- MCDeals
INVARIANTS
    BestFitChosen
    SeatsExchangeable
    SetsAgree
    KnRAsCCCC
    FitSlotsCurrent
