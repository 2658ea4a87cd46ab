SPECIFICATION Spec
CONSTANTS
    SrcMax = 18
    FmtMax = 6
    ModeMax = 16
    TempMax = 6
    SourceMax = 17
    ModeSlots = 14
    GammaModes = 4
INVARIANTS OwnItem SpillReachesDefault SlotUnshared
