---------------------------- MODULE WhiteBalance ----------------------------
(***************************************************************************)
(* The white balance of CPQControl on top of the picture data: gains and   *)
(* offsets and the white balance gamma, each with slots in the settings    *)
(* store and a calibration file (cri_data) that goes first, eye protection *)
(* that halves the blue gain, and the two values the hardware was last     *)
(* given.  Every load of a picture mode ends in Cpq_SetWhitebalance.       *)
(***************************************************************************)
EXTENDS PictureData

CONSTANTS
    DbTemps,         \* rows <<src, timming, level>> of PQ_GetColorTemperatureData
    UserTemp,        \* VPP_COLOR_TEMPERATURE_MODE_USER
    DefGamma         \* WB_GAMMA_MODE_11POINT

ASSUME WhiteBalanceAssumption ==
    DbTemps \subseteq Temps /\ UserTemp \in Per(TempMax) /\ DefGamma \in Per(GammaModes)

VARIABLES
    temp,            \* temp[x]: the slot of SetColorTemperatureData
    cri,             \* cri[l]: gains of the calibration file, by level
    eye,             \* SSMReadEyeProtectionMode
    rgb,             \* what Cpq_SetRGBOGO last wrote
    wb,              \* wb[x]: the slot of SetWhitebalanceGammaData
    criWb,           \* criWb[<<l, g>>]: points of the calibration file
    gmode,           \* SSMReadWhitebalanceGammaMode
    curve,           \* the points in the last Cpq_LoadGamma
    by,              \* what wrote rgb last
    dirty            \* stored values changed after the last load

gains == <<temp, cri, eye, rgb, by>>
points == <<wb, criWb, gmode, curve>>
wvars == <<vars, gains, points, dirty>>

Levels == Per(TempMax)
\* Gains: from the database or set by a client, and how often blue is halved.
Gains == [from : {"db", "set"}, half : 0..2]
Points == {"zero", "set"}
Wb == [on : BOOLEAN, pts : Points]
ASSUME AbsentAssumption ==
    Absent \notin Data \cup Gains \cup Wb \cup Points \cup Per(ModeMax)

Halved(v) == [v EXCEPT !.half = IF @ = 2 THEN 2 ELSE @ + 1]
OnT(x, l) == <<x[1], x[2], l>>
OnG(x, l, g) == <<x[1], x[2], l, g>>

\* Own slot, else the slot of the default source.
TempData(x) == IF temp[x] # Absent THEN temp[x] ELSE temp[<<0, 0, x[3]>>]
WbData(x) == IF wb[x] # Absent THEN wb[x] ELSE wb[<<0, 0, x[3], x[4]>>]

\* GetColorTemperature: STANDARD when the mode has no data.
LevelOf(d) == IF d = Absent THEN 0 ELSE d.temp
GetColorTemperature == LevelOf(GetPictureModeData(GetPQMode))

-----------------------------------------------------------------------------
(* The hardware.                                                           *)

\* Cpq_SetColorTemperature for source and timing x, with eye protection e:
\* the calibration first, then the slot; without data nothing is written.
GainsOf(x, l) == IF cri[l] # Absent THEN cri[l] ELSE TempData(OnT(x, l))
Cpq_SetColorTemperatureUnhalved(x, l, e) ==
    IF GainsOf(x, l) = Absent THEN rgb' = rgb /\ by' = "failed"
    ELSE rgb' = GainsOf(x, l) /\ by' = "load"
Cpq_SetColorTemperature(x, l, e) ==
    IF GainsOf(x, l) = Absent THEN rgb' = rgb /\ by' = "failed"
    ELSE /\ rgb' = IF e THEN Halved(GainsOf(x, l)) ELSE GainsOf(x, l)
         /\ by' = "load"

\* Cpq_LoadGamma: no slot, no load; a slot that is off or a missing
\* calibration load the curve without points.
CurveOf(slot, point) ==
    IF slot = Absent THEN Absent
    ELSE IF ~slot.on \/ point = Absent THEN "zero" ELSE point
Cpq_LoadGamma(new) == curve' = IF new = Absent THEN curve ELSE new

Cpq_SetWhitebalance(x, l) ==
    /\ Cpq_SetColorTemperature(x, l, eye)
    /\ Cpq_LoadGamma(CurveOf(WbData(OnG(x, l, gmode)), criWb[<<l, gmode>>]))

\* SetPQPictureMode returns before the hardware without data.
Load(x, d) ==
    /\ IF d = Absent THEN UNCHANGED <<rgb, by, curve>> ELSE Cpq_SetWhitebalance(x, d.temp)
    /\ UNCHANGED <<temp, cri, eye, wb, criWb, gmode>>
Reload(x, d) == Load(x, d) /\ dirty' = (dirty /\ d = Absent)
Unloaded == dirty' = TRUE /\ UNCHANGED <<gains, points>>
Unmoved == UNCHANGED <<gains, points, dirty>>

-----------------------------------------------------------------------------
(* The calls of PictureData with their white balance.                      *)

Move ==
    \E x \in Pairs :
        \/ MoveSlot(x, TRUE) /\ Reload(x, SlotData(At(x, GetPQMode')))
        \/ MoveSlot(x, FALSE) /\ Unloaded

Choose ==
    \E m \in Per(ModeMax), is_save \in BOOLEAN :
        /\ SetPQMode(m, is_save)
        /\ IF GetPQMode = m /\ ~mbResetPicture THEN Unmoved
           ELSE IF is_save THEN Reload(cur, GetPictureModeData(m))
           ELSE Load(cur, GetPictureModeData(m)) /\ dirty' = TRUE

Picture == SavePicture /\ Unmoved

FactoryPicture ==
    \/ \E s \in Srcs, m \in Per(ModeMax) : FactorySetPQMode(s, m) /\ Unloaded
    \/ FactoryResetPictureModeData /\ Unloaded
    \/ FactoryResetPQMode /\ Unloaded
    \/ FactoryCopyToAllSource /\ Unmoved
    \/ \E m \in Per(ModeMax) :
           /\ FactoryCopyFromPQMode(m)
           /\ Reload(cur, IF GetPictureModeData(m) = Absent THEN Absent
                          ELSE DataIn(mem', At(cur, m)))

-----------------------------------------------------------------------------
(* Resets of the white balance slots.                                      *)

TempRow(x) == IF x \in DbTemps THEN x ELSE <<0, 0, x[3]>>
FromDb == [from |-> "db", half |-> 0]
Flat == [on |-> TRUE, pts |-> "zero"]

\* ResetColorTemperatureData...: slots in use whose level has a row.
ResetTemps(S) ==
    temp' = [x \in Temps |-> IF x[1] \in S /\ temp[x] # Absent /\ TempRow(x) \in DbTemps
                             THEN FromDb ELSE temp[x]]
\* ResetWhitebalanceGammaData...: only the slots of the current gamma mode.
ResetWb(S) ==
    wb' = [x \in Gammas |-> IF x[1] \in S /\ x[4] = gmode /\ wb[x] # Absent
                            THEN Flat ELSE wb[x]]
ResetWhiteBalance(S) ==
    /\ ResetTemps(S) /\ ResetWb(S) /\ dirty' = TRUE
    /\ UNCHANGED <<cri, eye, rgb, by, criWb, gmode, curve>>

FactoryResetColorTemp == Count /\ ResetWhiteBalance(Srcs)
                         /\ UNCHANGED <<saved, mem, panel, mbResetPicture>>
PictureUiClear == resetCurSrcPqUiSetting /\ ResetWhiteBalance({cur[1]})

-----------------------------------------------------------------------------
(* Gains.                                                                  *)

Call == Count /\ UNCHANGED <<saved, mbResetPicture>>
PictureKept == UNCHANGED <<mem, panel>>

\* SetColorTemperature: the hardware, then the field of the mode's data if
\* both tables could be written.
SetColorTemperature(l, is_save) ==
    LET new == CurveOf(WbData(OnG(cur, l, gmode)), criWb[<<l, gmode>>])
        ok == GainsOf(cur, l) # Absent /\ new # Absent IN
    /\ Call /\ Cpq_SetWhitebalance(cur, l)
    /\ panel' = IF panel = Absent THEN panel ELSE [panel EXCEPT !.temp = l]
    /\ IF ok /\ is_save THEN SaveField("temp", l) ELSE UNCHANGED mem
    /\ dirty' = (dirty \/ ~ok \/ ~is_save)
    /\ UNCHANGED <<temp, cri, eye, wb, criWb, gmode>>

NewGains == [from |-> "set", half |-> 0]
Edited(v) == [v EXCEPT !.from = "set"]

\* SetColorTempParams stores what it wrote, blue halved by eye protection.
SetColorTempParams(l) ==
    /\ Call /\ PictureKept
    /\ rgb' = (IF eye THEN Halved(NewGains) ELSE NewGains) /\ by' = "params"
    /\ temp' = [temp EXCEPT ![OnT(cur, l)] = rgb']
    /\ UNCHANGED <<cri, eye, points, dirty>>

\* FactorySetColorTemp_Rgain and its five likes: one channel changed where it
\* was found and written to the hardware as stored.
FactorySetColorTemp(s, l) ==
    LET x == <<s, cur[2], l>>
        v == IF cri[l] # Absent THEN Edited(cri[l]) ELSE Edited(TempData(x)) IN
    /\ Call /\ PictureKept
    /\ IF cri[l] = Absent /\ TempData(x) = Absent THEN UNCHANGED gains
       ELSE /\ cri' = IF cri[l] # Absent THEN [cri EXCEPT ![l] = v] ELSE cri
            /\ temp' = IF cri[l] = Absent THEN [temp EXCEPT ![x] = v] ELSE temp
            /\ rgb' = v /\ by' = "factory" /\ UNCHANGED eye
    /\ UNCHANGED <<points, dirty>>

\* CheckCriDataWhitebalanceRGBGainOffsetData: without a calibration for the
\* current level every level but USER is taken from the slots.
CriFromSlots ==
    [l \in Levels |-> IF l # UserTemp /\ TempData(OnT(cur, l)) # Absent
                      THEN TempData(OnT(cur, l)) ELSE cri[l]]
CheckCri == IF cri[GetColorTemperature] # Absent THEN cri ELSE CriFromSlots

FactorySetRGBGainOffset(l) ==
    /\ Call /\ PictureKept
    /\ cri' = [CheckCri EXCEPT ![l] = NewGains] /\ rgb' = NewGains /\ by' = "factory"
    /\ UNCHANGED <<temp, eye, points, dirty>>
FactoryGetRGBGainOffset ==
    /\ Call /\ PictureKept /\ cri' = CheckCri
    /\ UNCHANGED <<temp, eye, rgb, by, points, dirty>>

\* Saved first, then the gains of the current colour temperature again.
SetEyeProtectionMode(e) ==
    /\ Call /\ PictureKept /\ eye' = e
    /\ Cpq_SetColorTemperature(cur, GetColorTemperature, e)
    /\ UNCHANGED <<temp, cri, points, dirty>>

-----------------------------------------------------------------------------
(* White balance gamma.                                                    *)

WbHere(l) == OnG(cur, l, gmode)

\* SetWbGammaEnable and SetWhitebalanceGamma: the slot, then the curve.
ChangeWb(field, v) ==
    LET l == GetColorTemperature
        d == WbData(WbHere(l))
        new == [d EXCEPT ![field] = v] IN
    /\ Call /\ PictureKept
    /\ IF d = Absent THEN UNCHANGED points
       ELSE /\ wb' = [wb EXCEPT ![WbHere(l)] = new]
            /\ Cpq_LoadGamma(CurveOf(new, criWb[<<l, gmode>>]))
            /\ UNCHANGED <<criWb, gmode>>
    /\ UNCHANGED <<gains, dirty>>
SetWbGammaEnable(on) == ChangeWb("on", on)
SetWhitebalanceGamma == ChangeWb("pts", "set")

SetWbGammaMode(g) ==
    LET l == GetColorTemperature IN
    /\ Call /\ PictureKept /\ gmode' = g
    /\ IF g = gmode THEN UNCHANGED curve
       ELSE Cpq_LoadGamma(CurveOf(WbData(OnG(cur, l, g)), criWb[<<l, g>>]))
    /\ UNCHANGED <<gains, wb, criWb, dirty>>

\* CheckCriDataWhitebalanceGammaData: every level, USER too.
CheckCriWb ==
    IF criWb[<<GetColorTemperature, gmode>>] # Absent THEN criWb
    ELSE [k \in DOMAIN criWb |-> IF k[2] = gmode /\ WbData(WbHere(k[1])) # Absent
                                 THEN WbData(WbHere(k[1])).pts ELSE criWb[k]]

\* The curve loaded is that of level l, whatever the current level is.
FactorySetWhitebalanceGamma(l) ==
    LET c == CheckCriWb IN
    /\ Call /\ PictureKept
    /\ IF c[<<l, gmode>>] = Absent THEN criWb' = c /\ UNCHANGED curve
       ELSE /\ criWb' = [c EXCEPT ![<<l, gmode>>] = "set"]
            /\ Cpq_LoadGamma(CurveOf(WbData(WbHere(l)), "set"))
    /\ dirty' = (dirty \/ l # GetColorTemperature)
    /\ UNCHANGED <<gains, wb, gmode>>
FactoryGetWhitebalanceGamma ==
    /\ Call /\ PictureKept /\ criWb' = CheckCriWb
    /\ dirty' = (dirty \/ criWb' # criWb)
    /\ UNCHANGED <<gains, wb, gmode, curve>>
-----------------------------------------------------------------------------
(* The start and the calls.                                                *)

\* After resetPQUiSetting and resetPQTableSetting; the calibration file was
\* written in the factory or never.  The gamma is not loaded before
\* mInitialized.
Init ==
    /\ DataInit
    /\ temp = [x \in Temps |-> IF x \in DbTemps THEN FromDb ELSE Absent]
    /\ cri \in {[l \in Levels |-> Absent],
                [l \in Levels |-> IF l = UserTemp THEN Absent ELSE FromDb]}
    /\ eye = FALSE /\ gmode = DefGamma
    /\ rgb = FromDb /\ by = "load" /\ curve = Absent /\ dirty = FALSE
    /\ wb = [x \in Gammas |-> IF x[1] = 0 /\ x[2] = 0 THEN Flat ELSE Absent]
    /\ criWb = [k \in Levels \X Per(GammaModes) |-> Absent]

ColourCall ==
    \/ FactoryResetColorTemp
    \/ PictureUiClear
    \/ \E l \in Levels, is_save \in BOOLEAN : SetColorTemperature(l, is_save)
    \/ \E l \in Levels : SetColorTempParams(l)
    \/ \E s \in Srcs, l \in Levels : FactorySetColorTemp(s, l)
    \/ \E l \in Levels : FactorySetRGBGainOffset(l)
    \/ FactoryGetRGBGainOffset
    \/ \E e \in BOOLEAN : SetEyeProtectionMode(e)
GammaCall ==
    \/ \E on \in BOOLEAN : SetWbGammaEnable(on)
    \/ SetWhitebalanceGamma
    \/ \E g \in Per(GammaModes) : SetWbGammaMode(g)
    \/ \E l \in Levels : FactorySetWhitebalanceGamma(l)
    \/ FactoryGetWhitebalanceGamma

Next == Move \/ Choose \/ Picture \/ FactoryPicture \/ ColourCall \/ GammaCall
Spec == Init /\ [][Next]_wvars

-----------------------------------------------------------------------------
(* Properties.                                                             *)

\* Types.  The hardware always has some mode's data: a mode without data is
\* refused before anything is written (SetPQPictureMode).
TypeOK ==
    /\ cur \in Pairs /\ pqmode \in [Pairs -> Per(ModeMax) \cup {Absent}]
    /\ last \in [Pairs -> Per(ModeMax) \cup {Absent}]
    /\ mem \in [Addrs -> Data \cup {Absent}] /\ panel \in Data
    /\ mbResetPicture \in BOOLEAN /\ ops \in 0..MaxOps
    /\ temp \in [Temps -> Gains \cup {Absent}] /\ cri \in [Levels -> Gains \cup {Absent}]
    /\ eye \in BOOLEAN /\ rgb \in Gains
    /\ wb \in [Gammas -> Wb \cup {Absent}]
    /\ criWb \in [Levels \X Per(GammaModes) -> Points \cup {Absent}]
    /\ gmode \in Per(GammaModes) /\ curve \in Points \cup {Absent}
    /\ by \in {"load", "params", "factory", "failed"} /\ dirty \in BOOLEAN

\* While nothing changed behind the hardware's back, it has the stored data
\* of the current mode and the stored points of its colour temperature: after
\* a reset the next SetPQMode loads although the mode is the same
\* (mbResetPicture), every setter writes both, every copy is loaded.
PanelStored ==
    ~dirty /\ GetPictureModeData(GetPQMode) # Absent =>
        /\ panel = GetPictureModeData(GetPQMode)
        /\ curve = Absent \/ curve = CurveOf(WbData(WbHere(panel.temp)), criWb[<<panel.temp, gmode>>])

\* With eye protection on the blue gain on the screen is halved, whatever the
\* order of modes, levels, parameters and the switch itself; only the factory
\* setters write stored gains as they are, and a level without data leaves
\* the hardware alone (SetEyeProtectionMode, Cpq_SetColorTemperature).
EyeProtects == eye /\ by \in {"load", "params"} => rgb.half > 0

\* A calibrated level keeps its calibration through every call that does not
\* set this level, as long as the current level is calibrated too; where it is
\* not, even FactoryGetRGBGainOffset rewrites the others from the slots.
CalibrationKept ==
    [][\A l \in Levels :
           cri[l] # Absent /\ cri'[l] # cri[l] =>
               \/ \E s \in Srcs : FactorySetColorTemp(s, l)
               \/ FactorySetRGBGainOffset(l)
               \/ cri[GetColorTemperature] = Absent /\ l # UserTemp]_wvars

\* Copying a mode shows the data the current mode has from now on, although
\* the mode that is loaded is the other one (FactoryCopyFromPQMode).
CopyShown ==
    [][\A m \in Per(ModeMax) :
           FactoryCopyFromPQMode(m) /\ GetPictureModeData(m) # Absent =>
               panel' = DataIn(mem', At(cur, GetPQMode))]_wvars

\* The picture data implements PictureStore on the slots no other mode
\* shares: fall back, indexes and loops never touch a cell nobody named.
Unshared == {x \in Modes : \A y \in Modes : ModeIndex(y) = ModeIndex(x) => y = x}
Store == INSTANCE PictureStore WITH
    Place <- Modes, Cell <- Unshared, Value <- Data, None <- Absent,
    Reach <- Srcs \cap Per(FmtMax),
    Restored <- LAMBDA x, d : IF HasRow(x) THEN FromRow(x, d) ELSE d,
    store <- [x \in Unshared |-> mem[ModeIndex(x)]]
StoreImplemented == Store!Spec
=============================================================================
