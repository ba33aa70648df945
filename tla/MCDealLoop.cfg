SPECIFICATION Spec
CONSTANTS
    Libraries <- MCLibraries
    Seeds <- MCSeeds
    Wanted <- MCWanted
    Modes <- MCModes
    DefMaxGen = 6
    Faults = {"write"}
INVARIANTS
    TypeOK
    DealtWhatWasPassed
    EndsForAReason
    ReportedNearly
PROPERTY Terminates
