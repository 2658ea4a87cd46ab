SPECIFICATION Spec
CONSTANTS
    Binders = {t1}
    Event = t1
    Main = main
    Nobody = nobody
    Signals <- MCSignals
    BootSignal <- Mpeg
    Ntsc <- MCNtsc
    Hdmi <- MCHdmi
    Modes <- MCModes
    Saves = {TRUE, FALSE}
    SettingGroups <- MCGroups
    Configs <- BothConfigs
    MaxCalls = 3
    MaxKills = 1
INVARIANTS Kept PanelFollows
CHECK_DEADLOCK FALSE
