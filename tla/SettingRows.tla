---------------------------- MODULE SettingRows ----------------------------
(***************************************************************************)
(* The settings of CPQControl one client call reads or writes, one row     *)
(* each: where the value is kept, which configuration flag gates the       *)
(* hardware, which values the hardware step takes, and what of it          *)
(* LoadPQSettings shows again.  Values are the levels of the interface;    *)
(* the registers a level stands for in the database are left out.          *)
(*                                                                         *)
(* keep: mode    a field of the picture mode row of the slot               *)
(*       source  a byte per source          level   a byte per source and  *)
(*       global  one byte                           MEMC mode              *)
(*       lcd, cms, lut   a field of one record read and written whole      *)
(*       none    not kept by the setter                                    *)
(***************************************************************************)
EXTENDS Integers

Row(keep, gate, low, high, default) ==
    [keep |-> keep, gate |-> gate, low |-> low, high |-> high, default |-> default,
     load |-> CASE keep = "mode" -> "row" [] keep = "source" -> "table" [] OTHER -> "no",
     saveFirst |-> FALSE,   \* the file is written before the hardware
     always |-> FALSE,      \* saved whatever is_save says
     checked |-> TRUE,      \* a value outside low..high is refused or bent
     skips |-> FALSE,       \* with the gate off the setter does not save
     bend |-> {}]           \* the value taken for one that is too high

\* Rows that keep a field of the picture mode, in the order of SetPQPictureMode.
Brightness == [Row("mode", "amvecm", 0, 100, 50) EXCEPT !.checked = FALSE]
Contrast == Row("mode", "amvecm", 0, 100, 50)
Saturation == Row("mode", "amvecm", 0, 100, 50)
Hue == Row("mode", "amvecm", 0, 100, 50)
Sharpness == Row("mode", "sharpness", 0, 100, 50)
SuperResolution == [Row("mode", "sharpness", 0, 2, 1) EXCEPT !.saveFirst = TRUE]
NoiseReduction == Row("mode", "nr", 0, 4, 2)
Dnlp == [Row("mode", "dnlp", 0, 4, 2) EXCEPT !.always = TRUE]
LocalContrast == [Row("mode", "local_contrast", 0, 4, 2) EXCEPT !.skips = TRUE]
ColorGamut == [Row("mode", "none", 0, 4, 1) EXCEPT !.checked = FALSE]
BlackStretch == Row("mode", "blackextension", 0, 3, 1)
BlueStretch == Row("mode", "bluestretch", 0, 3, 1)
ChromaCoring == Row("mode", "chroma_coring", 0, 3, 1)
MpegNr == Row("mode", "none", 0, 4, 2)
ColorBaseMode == Row("mode", "cm2", 0, 3, 1)
HDRTMO == [Row("mode", "hdrtmo", 0, 2, 1) EXCEPT !.checked = FALSE]
DarkDetail == [Row("mode", "none", 0, 1, 0) EXCEPT !.checked = FALSE]
Backlight == [Row("mode", "ldim", 0, 100, 50) EXCEPT !.bend = {10}, !.load = "no"]

\* Rows with a byte per source.
MemcMode == [Row("source", "memc", 0, 3, 2) EXCEPT !.checked = FALSE]
MemcDeBlur == [Row("level", "memc", 0, 10, 0) EXCEPT !.checked = FALSE]
MemcDeJudder == [Row("level", "memc", 0, 10, 0) EXCEPT !.checked = FALSE]
DisplayMode == [Row("source", "overscan", 0, 10, 4)
                    EXCEPT !.checked = FALSE, !.skips = TRUE]
SmoothPlus == [Row("source", "smoothplus", 0, 4, 2) EXCEPT !.load = "off"]
Deblock == [Row("source", "deblock", 0, 4, 1) EXCEPT !.load = "no"]
DemoSquito == [Row("source", "demosquito", 0, 4, 1) EXCEPT !.load = "no"]
McDi == Row("source", "mcdi", 0, 2, 1)
LocalDimming == Row("source", "local_dimming", 0, 3, 1)

\* Rows with one value for all sources.
DynamicBacklight == [Row("global", "ldim", 0, 2, 1) EXCEPT !.checked = FALSE,
                                                          !.load = "start"]
AiSr == [Row("global", "aisr", 0, 1, 1) EXCEPT !.checked = FALSE, !.always = TRUE,
                                              !.load = "table"]
Aipq == [Row("global", "ai", 0, 1, 0) EXCEPT !.checked = FALSE, !.always = TRUE,
                                            !.load = "start"]
DdrSsc == [Row("global", "absent", 0, 5, 2) EXCEPT !.always = TRUE]
LvdsLevel == [Row("lcd", "none", 0, 4, 1) EXCEPT !.always = TRUE, !.bend = {4}]
LvdsFrep == [Row("lcd", "none", 0, 6, 1) EXCEPT !.always = TRUE, !.bend = {6}]
LvdsMode == [Row("lcd", "none", 0, 3, 1) EXCEPT !.always = TRUE, !.bend = {0}]

\* Colour customisation: the switch, two of the nine colours of the colour
\* management record, two of the six of the 3D table.
ColorTune == [Row("global", "none", 0, 1, 1) EXCEPT !.checked = FALSE, !.always = TRUE,
                                                   !.saveFirst = TRUE]
ColorCustomize == [Row("cms", "none", -50, 50, 5) EXCEPT !.checked = FALSE,
                                                        !.load = "colours"]
ColorCustomizeBy3DLut == [Row("lut", "none", -100, 100, 10) EXCEPT !.checked = FALSE]

Rows == [Brightness |-> Brightness, Contrast |-> Contrast, Saturation |-> Saturation,
         Hue |-> Hue, Sharpness |-> Sharpness, SuperResolution |-> SuperResolution,
         NoiseReduction |-> NoiseReduction, Dnlp |-> Dnlp,
         LocalContrast |-> LocalContrast, ColorGamut |-> ColorGamut,
         BlackStretch |-> BlackStretch, BlueStretch |-> BlueStretch,
         ChromaCoring |-> ChromaCoring, MpegNr |-> MpegNr,
         ColorBaseMode |-> ColorBaseMode, HDRTMO |-> HDRTMO, DarkDetail |-> DarkDetail,
         Backlight |-> Backlight, MemcMode |-> MemcMode, MemcDeBlur |-> MemcDeBlur,
         MemcDeJudder |-> MemcDeJudder, DisplayMode |-> DisplayMode,
         SmoothPlus |-> SmoothPlus, Deblock |-> Deblock, DemoSquito |-> DemoSquito,
         McDi |-> McDi, LocalDimming |-> LocalDimming,
         DynamicBacklight |-> DynamicBacklight, AiSr |-> AiSr, Aipq |-> Aipq,
         DdrSsc |-> DdrSsc, LvdsLevel |-> LvdsLevel, LvdsFrep |-> LvdsFrep,
         LvdsMode |-> LvdsMode, ColorTune |-> ColorTune,
         CmsRed |-> ColorCustomize, CmsSkin |-> ColorCustomize,
         LutRed |-> ColorCustomizeBy3DLut, LutCyan |-> ColorCustomizeBy3DLut]

AllSettings == DOMAIN Rows

\* Default DeBlur and DeJudder level of each MEMC mode.
MemcLevels == <<0, 3, 6, 10>>

\* What a caller passes: both ends, and past them where the code looks at it.
Inputs(s) ==
    LET r == Rows[s] IN
    {r.low, r.high}
      \cup (IF r.checked THEN {r.high + 1} ELSE {})
      \cup (IF r.checked /\ r.bend = {} THEN {r.low - 1} ELSE {})

Legal(s, v) == v \in Rows[s].low .. Rows[s].high

\* With these configuration flags the setter reaches the hardware.  MpegNr has
\* no flag of its own: it calls the steps of Deblock and DemoSquito.
Gated(s, flags) ==
    IF s = "MpegNr" THEN {"deblock", "demosquito"} \cap flags # {}
    ELSE Rows[s].gate \in flags \cup {"none"}

\* The hardware step answers -1: the database has no row for the level, or the
\* step tests the range itself.
Refused(s, v, flags) ==
    /\ Rows[s].checked /\ Rows[s].bend = {} /\ ~Legal(s, v)
    /\ Gated(s, flags) \/ Rows[s].gate = "absent"

\* The value the setter goes on with.
Bent(s, v) == IF Legal(s, v) \/ Rows[s].bend = {} THEN v
              ELSE CHOOSE w \in Rows[s].bend : TRUE

\* Settings whose value is part of one record that a setter reads and writes whole.
Shared(s) == IF Rows[s].keep \in {"mode", "lcd", "cms", "lut"}
             THEN {r \in AllSettings : Rows[r].keep = Rows[s].keep}
             ELSE {s}
============================================================================
