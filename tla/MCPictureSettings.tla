------------------------- MODULE MCPictureSettings -------------------------
EXTENDS PictureSettings

Tv == <<"TV", "SDR">>
Hdmi1 == <<"HDMI1", "SDR">>
Hdmi1Hdr == <<"HDMI1", "HDR">>
Mpeg == <<"MPEG", "SDR">>

MCSignals == {Mpeg, Tv, Hdmi1}
MCNtsc == {Tv}
MCHdmi == {"HDMI1"}
MCModes == {0, 1}

AllFlags == {"amvecm", "sharpness", "nr", "dnlp", "local_contrast", "blackextension",
             "bluestretch", "chroma_coring", "deblock", "demosquito", "cm2", "hdrtmo",
             "ldim", "memc", "overscan", "smoothplus", "mcdi", "local_dimming",
             "aisr", "ai"}
MCConfigs == {AllFlags}
BothConfigs == {AllFlags, {}}

Linked == {{"Saturation", "Hue"}, {"MpegNr", "Deblock", "DemoSquito"},
           {"MemcMode", "MemcDeBlur", "MemcDeJudder"},
           {"LvdsLevel", "LvdsFrep", "LvdsMode"},
           {"ColorTune", "CmsRed", "CmsSkin"}, {"LutRed", "LutCyan"}}
Pairs == {{"Brightness", "Contrast"}, {"Sharpness", "SuperResolution"},
          {"NoiseReduction", "Dnlp"}, {"LocalContrast", "ColorGamut"},
          {"BlackStretch", "BlueStretch"}, {"ChromaCoring", "ColorBaseMode"},
          {"HDRTMO", "DarkDetail"}, {"Backlight", "DynamicBacklight"},
          {"DisplayMode", "SmoothPlus"}, {"McDi", "LocalDimming"},
          {"AiSr", "Aipq"}, {"DdrSsc", "McDi"}}
MCGroups == Linked \cup Pairs
OverlapGroups == {{"Brightness", "LvdsLevel"}}
TwoSignals == {Mpeg, Hdmi1}
============================================================================
