SPECIFICATION FairSpec
CONSTANTS
    Value <- MCValue
    Initial = 0
INVARIANTS
    TypeOK
    OneAnswerer
    PerformedOnce
    LoadIsRegular
    StoreTookEffect
PROPERTIES
    AccessEnds
    MemorySpec
