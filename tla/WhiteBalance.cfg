SPECIFICATION Spec
CONSTANTS
    user = user  absent = absent
    SrcMax = 3  FmtMax = 2  ModeMax = 3  TempMax = 2  ModeSlots = 2  GammaModes = 2
    Dolby = 1  DolbyBright = 1
    DbRows <- MCDbRows
    Partial <- MCPartial
    RowTemp <- MCRowTemp
    DbTemps <- MCDbTemps
    DolbySources = {1}
    User = user  Absent = absent
    UserTemp = 1  DefGamma = 1
    MaxOps = 3
INVARIANTS TypeOK PanelStored EyeProtects
PROPERTIES CalibrationKept CopyShown StoreImplemented
CHECK_DEADLOCK FALSE
