----------------------------- MODULE PqCommands -----------------------------
(***************************************************************************)
(* The command interface of PqClient and PqService: what each function of  *)
(* the client sends and how much of the answer it reads, and the cases     *)
(* through which the service finds the function of CPQControl.  A text     *)
(* command is "pq.<verb>.<id>.<params>"; an id is the enumerator           *)
(* PQ_SET_<name> or PQ_GET_<name>, here <<"set", name>> or <<"get", name>>.*)
(***************************************************************************)
EXTENDS Integers, Sequences, FiniteSets

(* A call: the function, what it is meant for (verb and name), the verb and *)
(* the id it sends, how many parameters, and how many values it takes from  *)
(* the answer by SplitRetBuf (1: the whole answer through atoi).            *)
Call(f, verb, name, sent, id, n, k) ==
    [function |-> f, verb |-> verb, name |-> name, sent |-> sent, id |-> id,
     params |-> n, values |-> k]
S(f, name, n) == Call(f, "set", name, "set", <<"set", name>>, n, 1)
G(f, name, n) == Call(f, "get", name, "get", <<"get", name>>, n, 1)
M(f, name, n, k) == Call(f, "get", name, "get", <<"get", name>>, n, k)

-----------------------------------------------------------------------------
(* The client.                                                             *)

ModeCalls == {
    S("SetPQMode", "PICTURE_MODE", 2), G("GetPQMode", "PICTURE_MODE", 0),
    G("GetLastPQMode", "LAST_PICTURE_MODE", 0),
    S("SetColorTemperature", "COLOR_TEMPERATURE_MODE", 2),
    G("GetColorTemperature", "COLOR_TEMPERATURE_MODE", 0)}
PictureCalls == {
    S("SetBrightness", "BRIGHTNESS", 2), G("GetBrightness", "BRIGHTNESS", 0),
    S("SetContrast", "CONTRAST", 2), G("GetContrast", "CONTRAST", 0),
    S("SetSaturation", "SATUATION", 2), G("GetSaturation", "SATUATION", 0),
    S("SetHue", "HUE", 2), G("GetHue", "HUE", 0), S("SetSharpness", "SHARPNESS", 3)}
\* GetEyeProtectionMode sends no source; the service takes source 0.
DisplayCalls == {
    G("GetSharpness", "SHARPNESS", 0),
    S("SetNoiseReductionMode", "NOISE_REDUCTION_MODE", 2),
    G("GetNoiseReductionMode", "NOISE_REDUCTION_MODE", 0),
    S("SetEyeProtectionMode", "EYE_PROTECTION_MODE", 3),
    G("GetEyeProtectionMode", "EYE_PROTECTION_MODE", 0),
    S("SetGammaValue", "GAMMA", 2), G("GetGammaValue", "GAMMA", 0),
    S("SetDisplayMode", "DISPLAY_MODE", 3), G("GetDisplayMode", "DISPLAY_MODE", 0)}
BacklightCalls == {
    S("SetBacklight", "BACKLIGHT", 2), G("GetBacklight", "BACKLIGHT", 0),
    S("SetDynamicBacklight", "DYNAMICBACKLIGHT", 2),
    G("GetDynamicBacklight", "DYNAMICBACKLIGHT", 0),
    S("SetLocalContrastMode", "LOCALCONTRAST", 2),
    G("GetLocalContrastMode", "LOCALCONTRAST", 0),
    S("SetColorBaseMode", "CM", 2), G("GetColorBaseMode", "CM", 0),
    S("setCurrentSourceInfo", "SOURCE_CHANNEL", 3)}
SourceCalls == {
    M("getCurrentSourceInfo", "SOURCE_CHANNEL", 0, 3),
    S("SetColorGamutMode", "COLORGAMUT", 2), G("GetColorGamutMode", "COLORGAMUT", 0),
    G("GetSourceHDRType", "SOURCE_HDR_TYPE", 0),
    S("SetDynamicContrastMode", "DYNAMICCONTRAST", 2),
    G("GetDynamicContrastMode", "DYNAMICCONTRAST", 0),
    S("SSMRecovery", "RECOVERYPQ", 0), G("HasMemcFunc", "HAS_MEMC", 0),
    S("SetMemcMode", "MEMCMODE", 2)}
MotionCalls == {
    G("GetMemcMode", "MEMCMODE", 0),
    S("SetMemcDeBlurLevel", "MEMC_DEBLUR", 2), G("GetMemcDeBlurLevel", "MEMC_DEBLUR", 0),
    S("SetMemcDeJudderLevel", "MEMC_DEJUDDER", 2),
    G("GetMemcDeJudderLevel", "MEMC_DEJUDDER", 0),
    S("SetDecontourMode", "DECONTOUR", 2), G("GetDecontourMode", "DECONTOUR", 0),
    S("SetDeBlockMode", "DEBLOCK", 2), G("GetDeBlockMode", "DEBLOCK", 0)}
StretchCalls == {
    S("SetDeMosquitoMode", "DEMOSQUITO", 2), G("GetDeMosquitoMode", "DEMOSQUITO", 0),
    S("SetBlackStretch", "BLACKSTRETCH", 2), G("GetBlackStretch", "BLACKSTRETCH", 0),
    S("SetBlueStretch", "BLUESTRETCH", 2), G("GetBlueStretch", "BLUESTRETCH", 0),
    G("HasAipqFunc", "HAS_AIPQ", 0),
    S("SetAipqEnable", "AIPQ", 1), G("GetAipqEnable", "AIPQ", 0)}
\* GetMpegNr asks with the id of the setter, FactoryGetNolineParams tells the
\* service to set with the id of the getter.
NolineCalls == {
    G("HasAisrFunc", "HAS_AISR", 0),
    S("SetAiSrEnable", "AISR", 1), G("GetAiSrEnable", "AISR", 0),
    S("SetLdim", "LDIM", 2), G("GetLdim", "LDIM", 0), S("SetMpegNr", "MPEGNR", 2),
    Call("GetMpegNr", "get", "MPEGNR", "get", <<"set", "MPEGNR">>, 0, 1),
    Call("FactoryGetNolineParams", "get", "FACTORY_NOLINE", "set",
         <<"get", "FACTORY_NOLINE">>, 4, 5)}
\* The six functions by name of a curve call FactorySetNolineParams.
ParamsCalls == {
    S("FactorySetNolineParams", "FACTORY_NOLINE", 9),
    S("FactorySetColorParams", "FACTORY_COLOR", 11),
    M("FactoryGetColorParams", "FACTORY_COLOR", 11, 10),
    S("FactorySetDecodeLumaParams", "FACTORY_DEC_LUMA", 5)}
CustomizeCalls == {
    G("FactoryGetDecodeLumaParams", "FACTORY_DEC_LUMA", 4),
    S("ResetPictureUiSetting", "PICTURE_UI_CLEAR", 0),
    S("SetColorCustomize", "COLOR_CUSTOMIZE", 4),
    M("GetColorCustomize", "COLOR_CUSTOMIZE", 1, 3),
    S("SetColorCustomizeEnable", "COLOR_CUSTOMIZE_ENABLE", 1),
    G("GetColorCustomizeEnable", "COLOR_CUSTOMIZE_ENABLE", 0),
    S("SetColorCustomizeBy3DLut", "COLOR_CUSTOMIZE_3DLUT", 4),
    M("GetColorCustomizeBy3DLut", "COLOR_CUSTOMIZE_3DLUT", 1, 3),
    S("ResetColorCustomize", "RESET_COLOR_CUSTOMIZE", 1)}
WbGammaCalls == {
    S("SetWhitebalanceGammaEnable", "WB_GAMMA_ENABLE", 1),
    G("GetWhitebalanceGammaEnable", "WB_GAMMA_ENABLE", 0),
    S("SetWhitebalanceGammaMode", "WB_GAMMA_MODE", 1),
    G("GetWhitebalanceGammaMode", "WB_GAMMA_MODE", 0),
    S("SetWhitebalanceGamma", "WB_GAMMA_DATA", 3),
    G("GetWhitebalanceGamma", "WB_GAMMA_DATA", 2),
    S("SetSuperResolution", "SUPERRESOLUTION", 2),
    G("GetSuperResolution", "SUPERRESOLUTION", 0),
    S("SetHdrToneMappingMode", "HDR_TONE_MAPPING_MODE", 2)}
FilmCalls == {
    G("GetHdrToneMappingMode", "HDR_TONE_MAPPING_MODE", 0),
    G("GetDbVersionInfo", "DB_VERSION_INFO", 2),
    S("SetFilmMakerMode", "FILM_MAKER_MODE", 2), G("GetFilmMakerMode", "FILM_MAKER_MODE", 0),
    S("FactoryResetPQMode", "FACTORY_RESET_PICTURE_MODE", 0),
    S("FactoryResetColorTemp", "FACTORY_RESET_COLOR_TEMPERATURE_MODE", 0),
    S("FactoryWhiteBalanceSetColorTemperature", "FACTORY_COLOR_TEMPERATURE_MODE", 2),
    G("FactoryWhiteBalanceGetColorTemperature", "FACTORY_COLOR_TEMPERATURE_MODE", 0)}
FactoryPictureCalls == {
    S("FactorySetPQMode_Brightness", "FACTORY_BRIGHTNESS", 5),
    G("FactoryGetPQMode_Brightness", "FACTORY_BRIGHTNESS", 4),
    S("FactorySetPQMode_Contrast", "FACTORY_CONTRAST", 5),
    G("FactoryGetPQMode_Contrast", "FACTORY_CONTRAST", 4),
    S("FactorySetPQMode_Saturation", "FACTORY_SATUATION", 5),
    G("FactoryGetPQMode_Saturation", "FACTORY_SATUATION", 4),
    S("FactorySetPQMode_Hue", "FACTORY_HUE", 5), G("FactoryGetPQMode_Hue", "FACTORY_HUE", 4),
    S("FactorySetPQMode_Sharpness", "FACTORY_SHARPNESS", 5)}
FactoryGainCalls == {
    G("FactoryGetPQMode_Sharpness", "FACTORY_SHARPNESS", 4),
    S("FactorySetOverscanParams", "FACTORY_OVERSCAN", 8),
    M("FactoryGetOverscanParams", "FACTORY_OVERSCAN", 4, 4),
    S("FactorySetWhiteBalanceRedGain", "FACTORY_WB_RED_GAIN", 3),
    G("FactoryGetWhiteBalanceRedGain", "FACTORY_WB_RED_GAIN", 2),
    S("FactorySetWhiteBalanceGreenGain", "FACTORY_WB_GREEN_GAIN", 3),
    G("FactoryGetWhiteBalanceGreenGain", "FACTORY_WB_GREEN_GAIN", 2),
    S("FactorySetWhiteBalanceBlueGain", "FACTORY_WB_BLUE_GAIN", 3),
    G("FactoryGetWhiteBalanceBlueGain", "FACTORY_WB_BLUE_GAIN", 2)}
FactoryOffsetCalls == {
    S("FactorySetWhiteBalanceRedPostOffset", "FACTORY_WB_RED_OFFSET", 3),
    G("FactoryGetWhiteBalanceRedPostOffset", "FACTORY_WB_RED_OFFSET", 2),
    S("FactorySetWhiteBalanceGreenPostOffset", "FACTORY_WB_GREEN_OFFSET", 3),
    G("FactoryGetWhiteBalanceGreenPostOffset", "FACTORY_WB_GREEN_OFFSET", 2),
    S("FactorySetWhiteBalanceBluePostOffset", "FACTORY_WB_BLUE_OFFSET", 3),
    G("FactoryGetWhiteBalanceBluePostOffset", "FACTORY_WB_BLUE_OFFSET", 2),
    S("FactorySetRGBPattern", "FACTORY_RGB_PATTERN", 3),
    G("FactoryGetRGBPattern", "FACTORY_RGB_PATTERN", 0),
    S("FactorySetGrayPattern", "FACTORY_GRAY_PATTERN", 1)}
\* FactorySetSharpnessParams gets; the colour range calls send the caller's
\* pq_type where the id belongs.
FactoryRangeCalls == {
    G("FactoryGetGrayPattern", "FACTORY_GRAY_PATTERN", 0),
    G("FactoryGetSharpnessParams", "FACTORY_Sharpness", 5),
    Call("FactorySetSharpnessParams", "set", "FACTORY_Sharpness", "get",
         <<"get", "FACTORY_Sharpness">>, 6, 1),
    Call("FactorySetHdmiColorRangeMode", "set", "FACTORY_PQ_ENABLE", "set",
         <<"pq", "type">>, 1, 1),
    Call("FactoryGetHdmiColorRangeMode", "get", "FACTORY_PQ_ENABLE", "get",
         <<"pq", "type">>, 0, 1)}
FactoryWbGammaCalls == {
    S("FactorySetWhitebalanceGamma", "FACTORY_WB_GAMMA_DATA", 4),
    G("FactoryGetWhitebalanceGamma", "FACTORY_WB_GAMMA_DATA", 3)}

TextCalls ==
    UNION {ModeCalls, PictureCalls, DisplayCalls, BacklightCalls, SourceCalls, MotionCalls,
           StretchCalls, NolineCalls, ParamsCalls, CustomizeCalls, WbGammaCalls, FilmCalls,
           FactoryPictureCalls, FactoryGainCalls, FactoryOffsetCalls, FactoryRangeCalls,
           FactoryWbGammaCalls}

(* Calls with a code and a parcel of their own: integers sent and the      *)
(* fields read from the answer, in order.                                  *)
Parcel(f, code, n, reads) == [function |-> f, code |-> code, sent |-> n, reads |-> reads]
MAX_WB_GAMMA_POINT == 21
Points(n) == [i \in 1..n |-> "point"]
\* GetWBGammaPointNum of the gamma mode asked for first.
WBGammaPointNum == {4, 11, 12, 21}

UserParamCalls == {
    Parcel("SetColorTemperatureUserParam", "SET_COLORTEMPERATURE_USER_PARAM", 10, <<"ret">>),
    Parcel("GetColorTemperatureUserParam", "GET_COLORTEMPERATURE_USER_PARAM", 0,
           <<"en", "gains", "post", "r_pre", "g_pre", "b_pre">>)}
SscCalls == {
    Parcel("FactorySetDDRSSC", "SET_DDR_SSC", 1, <<"ret">>),
    Parcel("FactoryGetDDRSSC", "GET_DDR_SSC", 0, <<"ret">>),
    Parcel("FactorySetLVDSSSCLevel", "SET_LVDS_SSC_LEVEL", 1, <<"ret">>),
    Parcel("FactoryGetLVDSSSCLevel", "GET_LVDS_SSC_LEVEL", 0, <<"ret">>),
    Parcel("FactorySetLVDSSSCFrep", "SET_LVDS_SSC_FREP", 1, <<"ret">>),
    Parcel("FactoryGetLVDSSSCFrep", "GET_LVDS_SSC_FREP", 0, <<"ret">>),
    Parcel("FactorySetLVDSSSCMode", "SET_LVDS_SSC_MODE", 1, <<"ret">>),
    Parcel("FactoryGetLVDSSSCMode", "GET_LVDS_SSC_MODE", 0, <<"ret">>)}
\* The mode sent with the two getters is not read by the service.
DataCalls == {
    Parcel("ResetCurrentPictureMode", "RESET_PICTURE_MODE", 0, <<"ret">>),
    Parcel("ResetAllPictureSettings", "RESET_ALL_PICTURE_MODE", 0, <<"ret">>),
    Parcel("GetCurrentParameterValues", "GET_PICTURE_MODE_PARAM", 1, <<"mode">>),
    Parcel("GetDefaultParameterValues", "GET_DEFAULT_PICTURE_MODE_PARAM", 1, <<"mode">>)}
CopyCalls == {
    Parcel("CopyValuesFromPqMode", "COPY_VALUES_FROM_PICTURE_MODE", 1, <<"ret">>),
    Parcel("ApplyUserSettingsToAllSources", "COPY_PICTURE_MODE_PARAM_TO_ALL_SOURCE", 0, <<"ret">>)}
    \cup {Parcel("GetALLDefaultPQParameterValues", "GET_DEFAULT_ALL_PQ_PARAM", 0,
                 <<"mode">> \o Points(n) \o <<"colors">>) : n \in WBGammaPointNum}
ParcelCalls == UserParamCalls \cup SscCalls \cup DataCalls \cup CopyCalls

-----------------------------------------------------------------------------
(* The service: the cases of SetCmd and GetCmd by name, with the number of *)
(* parameters each one uses.                                               *)

SetPictureCases == {
    <<"PICTURE_MODE", 2>>, <<"COLOR_TEMPERATURE_MODE", 2>>, <<"BRIGHTNESS", 2>>,
    <<"CONTRAST", 2>>, <<"SATUATION", 2>>, <<"HUE", 2>>, <<"SHARPNESS", 3>>,
    <<"NOISE_REDUCTION_MODE", 2>>, <<"EYE_PROTECTION_MODE", 3>>, <<"GAMMA", 2>>,
    <<"DISPLAY_MODE", 3>>, <<"BACKLIGHT", 2>>, <<"DYNAMICBACKLIGHT", 2>>,
    <<"LOCALCONTRAST", 2>>, <<"CM", 2>>, <<"SOURCE_CHANNEL", 1>>, <<"COLORGAMUT", 2>>,
    <<"DYNAMICCONTRAST", 2>>, <<"RECOVERYPQ", 0>>, <<"MEMCMODE", 2>>, <<"MEMC_DEBLUR", 2>>,
    <<"MEMC_DEJUDDER", 2>>, <<"DECONTOUR", 2>>, <<"DEBLOCK", 2>>, <<"DEMOSQUITO", 2>>,
    <<"BLACKSTRETCH", 2>>, <<"BLUESTRETCH", 2>>, <<"AIPQ", 1>>, <<"AISR", 1>>, <<"LDIM", 2>>,
    <<"MPEGNR", 2>>, <<"PICTURE_UI_CLEAR", 0>>, <<"COLOR_CUSTOMIZE", 4>>,
    <<"COLOR_CUSTOMIZE_3DLUT", 4>>, <<"RESET_COLOR_CUSTOMIZE", 1>>}
SetFactoryCases == {
    <<"WB_GAMMA_DATA", 3>>, <<"SUPERRESOLUTION", 2>>, <<"COLOR_CUSTOMIZE_ENABLE", 1>>,
    <<"WB_GAMMA_ENABLE", 1>>, <<"WB_GAMMA_MODE", 1>>, <<"HDR_TONE_MAPPING_MODE", 2>>,
    <<"FILM_MAKER_MODE", 2>>, <<"FACTORY_RESET_PICTURE_MODE", 0>>,
    <<"FACTORY_RESET_COLOR_TEMPERATURE_MODE", 0>>, <<"FACTORY_COLOR_TEMPERATURE_MODE", 2>>,
    <<"FACTORY_BRIGHTNESS", 5>>, <<"FACTORY_CONTRAST", 5>>, <<"FACTORY_SATUATION", 5>>,
    <<"FACTORY_HUE", 5>>, <<"FACTORY_SHARPNESS", 5>>, <<"FACTORY_OVERSCAN", 8>>,
    <<"FACTORY_WB_RED_GAIN", 3>>, <<"FACTORY_WB_GREEN_GAIN", 3>>, <<"FACTORY_WB_BLUE_GAIN", 3>>}
SetParamsCases == {
    <<"FACTORY_WB_RED_OFFSET", 3>>, <<"FACTORY_WB_GREEN_OFFSET", 3>>,
    <<"FACTORY_WB_BLUE_OFFSET", 3>>, <<"FACTORY_RGB_PATTERN", 3>>,
    <<"FACTORY_GRAY_PATTERN", 1>>, <<"FACTORY_NOLINE", 9>>, <<"FACTORY_COLOR", 11>>,
    <<"FACTORY_DEC_LUMA", 5>>, <<"FACTORY_Sharpness", 6>>, <<"FACTORY_PQ_ENABLE", 2>>,
    <<"FACTORY_WB_GAMMA_DATA", 4>>}
SetCases == SetPictureCases \cup SetFactoryCases \cup SetParamsCases

\* A case of GetCmd also has the values of its answer.
GetPictureCases == {
    <<"PICTURE_MODE", 0, 1>>, <<"LAST_PICTURE_MODE", 0, 1>>, <<"COLOR_TEMPERATURE_MODE", 0, 1>>,
    <<"BRIGHTNESS", 0, 1>>, <<"CONTRAST", 0, 1>>, <<"SATUATION", 0, 1>>, <<"HUE", 0, 1>>,
    <<"SHARPNESS", 0, 1>>, <<"NOISE_REDUCTION_MODE", 0, 1>>, <<"EYE_PROTECTION_MODE", 1, 1>>,
    <<"GAMMA", 0, 1>>, <<"DISPLAY_MODE", 0, 1>>, <<"BACKLIGHT", 0, 1>>,
    <<"DYNAMICBACKLIGHT", 0, 1>>, <<"LOCALCONTRAST", 0, 1>>, <<"CM", 0, 1>>,
    <<"SOURCE_CHANNEL", 0, 3>>, <<"COLORGAMUT", 0, 1>>, <<"SOURCE_HDR_TYPE", 0, 1>>,
    <<"DYNAMICCONTRAST", 0, 1>>, <<"HAS_MEMC", 0, 1>>, <<"MEMCMODE", 0, 1>>,
    <<"MEMC_DEBLUR", 0, 1>>, <<"MEMC_DEJUDDER", 0, 1>>, <<"DECONTOUR", 0, 1>>,
    <<"DEBLOCK", 0, 1>>, <<"DEMOSQUITO", 0, 1>>, <<"BLACKSTRETCH", 0, 1>>,
    <<"BLUESTRETCH", 0, 1>>, <<"HAS_AIPQ", 0, 1>>, <<"AIPQ", 0, 1>>, <<"HAS_AISR", 0, 1>>,
    <<"AISR", 0, 1>>, <<"LDIM", 0, 1>>, <<"MPEGNR", 0, 1>>, <<"COLORTEMP_USER_PARAM", 0, 10>>,
    <<"COLOR_CUSTOMIZE", 1, 3>>, <<"COLOR_CUSTOMIZE_3DLUT", 1, 3>>}
GetFactoryCases == {
    <<"WB_GAMMA_DATA", 2, 1>>, <<"SUPERRESOLUTION", 0, 1>>, <<"COLOR_CUSTOMIZE_ENABLE", 0, 1>>,
    <<"DB_VERSION_INFO", 2, 1>>, <<"WB_GAMMA_ENABLE", 0, 1>>, <<"WB_GAMMA_MODE", 0, 1>>,
    <<"HDR_TONE_MAPPING_MODE", 0, 1>>, <<"FILM_MAKER_MODE", 0, 1>>,
    <<"FACTORY_COLOR_TEMPERATURE_MODE", 0, 1>>, <<"FACTORY_BRIGHTNESS", 4, 1>>,
    <<"FACTORY_CONTRAST", 4, 1>>, <<"FACTORY_SATUATION", 4, 1>>, <<"FACTORY_HUE", 4, 1>>,
    <<"FACTORY_SHARPNESS", 4, 1>>, <<"FACTORY_OVERSCAN", 4, 4>>,
    <<"FACTORY_WB_RED_GAIN", 2, 1>>, <<"FACTORY_WB_GREEN_GAIN", 2, 1>>,
    <<"FACTORY_WB_BLUE_GAIN", 2, 1>>, <<"FACTORY_WB_RED_OFFSET", 2, 1>>,
    <<"FACTORY_WB_GREEN_OFFSET", 2, 1>>, <<"FACTORY_WB_BLUE_OFFSET", 2, 1>>}
GetParamsCases == {
    <<"FACTORY_RGB_PATTERN", 0, 1>>, <<"FACTORY_GRAY_PATTERN", 0, 1>>,
    <<"FACTORY_NOLINE", 4, 5>>, <<"FACTORY_COLOR", 11, 10>>, <<"FACTORY_DEC_LUMA", 4, 1>>,
    <<"FACTORY_Sharpness", 5, 1>>, <<"FACTORY_PQ_ENABLE", 1, 1>>,
    <<"FACTORY_WB_GAMMA_DATA", 3, 1>>}
GetCases == GetPictureCases \cup GetFactoryCases \cup GetParamsCases

\* The last statement of GetCmd prints the single result into the buffer, for
\* every id but six and for the two whose case returns before it.
PrintedByCase == {"SOURCE_CHANNEL", "FACTORY_OVERSCAN", "COLORTEMP_USER_PARAM",
                  "COLOR_CUSTOMIZE", "COLOR_CUSTOMIZE_3DLUT", "DB_VERSION_INFO",
                  "FACTORY_NOLINE", "FACTORY_COLOR"}

\* onTransact: integers read and fields written, in order.
SscCodes == {"SET_DDR_SSC", "GET_DDR_SSC", "SET_LVDS_SSC_LEVEL", "GET_LVDS_SSC_LEVEL",
             "SET_LVDS_SSC_FREP", "GET_LVDS_SSC_FREP", "SET_LVDS_SSC_MODE", "GET_LVDS_SSC_MODE"}
WritesSsc(code) == <<"ret">>
WritesUserParam(code) ==
    IF code = "SET_COLORTEMPERATURE_USER_PARAM" THEN <<"ret">>
    ELSE <<"en", "gains", "post", "r_pre", "g_post", "b_post">>
WritesDataOf(code) ==
    IF code = "GET_DEFAULT_ALL_PQ_PARAM"
    THEN <<"mode">> \o Points(MAX_WB_GAMMA_POINT) \o <<"colors", "ret">>
    ELSE IF code \in {"GET_PICTURE_MODE_PARAM", "GET_DEFAULT_PICTURE_MODE_PARAM"}
    THEN <<"mode", "ret">> ELSE <<"ret">>
Writes(code) ==
    IF code \in SscCodes THEN WritesSsc(code)
    ELSE IF code \in {"SET_COLORTEMPERATURE_USER_PARAM", "GET_COLORTEMPERATURE_USER_PARAM"}
    THEN WritesUserParam(code) ELSE WritesDataOf(code)
=============================================================================
