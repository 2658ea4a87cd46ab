SPECIFICATION Spec
CONSTANTS
    Binders = {b1, b2}
    Event = ev
    Main = main
    Nobody = nobody
    Signals <- TwoSignals
    BootSignal <- Mpeg
    Ntsc = {}
    Hdmi <- MCHdmi
    Modes <- MCModes
    Saves = {TRUE}
    SettingGroups <- OverlapGroups
    Configs <- MCConfigs
    MaxCalls = 3
    MaxKills = 0
INVARIANTS TypeOK Kept PanelFollows
PROPERTY CallsEnd
CHECK_DEADLOCK FALSE
