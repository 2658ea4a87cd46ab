---------------------- MODULE PictureSettingsPanelProofs ----------------------
(***************************************************************************)
(* Proofs about PictureSettings: between calls the panel shows, for every  *)
(* setting that is to be shown, the value kept for the current mode of the *)
(* current source (PanelAgrees).                                           *)
(*                                                                         *)
(* PanelFollows speaks of the states in which no call is in progress.  The *)
(* invariant that says as much of every state is PanelInv: a setting that  *)
(* is to be shown is shown, or a call at work will still show it (Off, by  *)
(* what is left of the call's program) or say that it is not shown.  It    *)
(* rests on what the accesses made so far have established,                *)
(*   Kinds       a setter's program is one for its setting                 *)
(*   Alone       the constructor runs alone, changes of source one by one  *)
(*   Facts       a call that overlaps no other finds what it has read,     *)
(*               written and shown as it left it                           *)
(*   Marks       what is to be shown has a register, and a setter that was *)
(*               overlapped touches none of it but the colours             *)
(* and on the invariants of PictureSettingsProofs, together in Ground.     *)
(*                                                                         *)
(* Two kinds of lemmas carry the steps: an access leaves alone whatever    *)
(* its call does not touch (Elsewhere, Undisturbed), and an access keeps   *)
(* PanelInv for the settings its own call covers (the lemmas ...Covers).   *)
(***************************************************************************)
EXTENDS PictureSettingsProofs

-----------------------------------------------------------------------------
(* What the panel shows for a setting.                                      *)

\* The hardware has no level of its own for these.
NeverShown == {"ColorTune", "MemcDeBlur", "DdrSsc"}

\* Registers that show a setting, and the level they are to show.
Regs(s) == IF s = "MpegNr" THEN {q \in inUse \cap {"Deblock", "DemoSquito"} : Gated(q, flags)} ELSE {s}
Lev(s, v) == IF Rows[s].keep = "lut" THEN LutGain(v) ELSE v
Aim(s) == IF s \in Colours /\ Stored("ColorTune") # 1 THEN 0 ELSE Lev(s, Stored(s))
Follows(s) == \A r \in Regs(s) : panel[r] = Aim(s)

\* An access leaves alone where the setting is kept, its value and its registers.
Still(s) ==
  /\ GetPlace(s)' = GetPlace(s) /\ \A m : Place(s, m)' = Place(s, m)
  /\ \A p : ValueAt(s, p)' = ValueAt(s, p)
  /\ \A r \in Regs(s) : panel'[r] = panel[r]
  /\ s \in Colours => Stored("ColorTune")' = Stored("ColorTune")

\* Of a setter, by its setting.
HasTuned == { <<"tune", "return">>, <<"return">> }
Kinds == \A t \in Threads : call[t].op = "set" => todo[t] \in KindLeft(call[t].s)

-----------------------------------------------------------------------------
(* What the tables say of single settings.                                  *)

\* Settings that share registers, and the switch of the colours.
LEMMA Singled ==
  /\ Rows["Saturation"].keep = "mode" /\ Rows["Saturation"].gate = "amvecm" /\ Rows["Saturation"].load = "row"
  /\ Rows["Hue"].keep = "mode" /\ Rows["Hue"].gate = "amvecm" /\ Rows["Hue"].load = "row"
  /\ Rows["MpegNr"].keep = "mode" /\ Rows["MpegNr"].load = "row"
  /\ Rows["Deblock"].keep = "source" /\ Rows["Deblock"].gate = "deblock" /\ Rows["Deblock"].load = "no"
  /\ Rows["DemoSquito"].keep = "source" /\ Rows["DemoSquito"].gate = "demosquito"
  /\ Rows["DemoSquito"].load = "no"
  /\ Rows["MemcMode"].keep = "source" /\ Rows["MemcMode"].gate = "memc" /\ Rows["MemcMode"].load = "table"
  /\ Rows["MemcDeJudder"].keep = "level" /\ Rows["MemcDeJudder"].gate = "memc"
  /\ Rows["MemcDeJudder"].load = "no"
  /\ Rows["MemcDeBlur"].keep = "level" /\ Rows["MemcDeBlur"].load = "no"
  /\ Rows["ColorTune"].keep = "global" /\ Rows["ColorTune"].load = "no"
  /\ Rows["DdrSsc"].keep = "global" /\ Rows["DdrSsc"].load = "no"
  /\ Rows["DisplayMode"].keep = "source" /\ Rows["DisplayMode"].load = "table"
PROOF
<1>1. /\ Rows["Saturation"] = Saturation /\ Rows["Hue"] = Hue /\ Rows["MpegNr"] = MpegNr
      /\ Rows["Deblock"] = Deblock /\ Rows["DemoSquito"] = DemoSquito /\ Rows["MemcMode"] = MemcMode
      /\ Rows["MemcDeJudder"] = MemcDeJudder /\ Rows["MemcDeBlur"] = MemcDeBlur
      /\ Rows["ColorTune"] = ColorTune /\ Rows["DdrSsc"] = DdrSsc /\ Rows["DisplayMode"] = DisplayMode
  BY DEF Rows
<1>2. /\ Saturation.keep = "mode" /\ Saturation.gate = "amvecm" /\ Saturation.load = "row"
      /\ Hue.keep = "mode" /\ Hue.gate = "amvecm" /\ Hue.load = "row"
      /\ MpegNr.keep = "mode" /\ MpegNr.load = "row"
      /\ Deblock.keep = "source" /\ Deblock.gate = "deblock" /\ Deblock.load = "no"
      /\ DemoSquito.keep = "source" /\ DemoSquito.gate = "demosquito" /\ DemoSquito.load = "no"
  BY SMTT(30) DEF Saturation, Hue, MpegNr, Deblock, DemoSquito, Row
<1>3. /\ MemcMode.keep = "source" /\ MemcMode.gate = "memc" /\ MemcMode.load = "table"
      /\ MemcDeJudder.keep = "level" /\ MemcDeJudder.gate = "memc" /\ MemcDeJudder.load = "no"
      /\ MemcDeBlur.keep = "level" /\ MemcDeBlur.load = "no"
      /\ ColorTune.keep = "global" /\ ColorTune.load = "no"
      /\ DdrSsc.keep = "global" /\ DdrSsc.load = "no"
      /\ DisplayMode.keep = "source" /\ DisplayMode.load = "table"
  BY SMTT(30) DEF MemcMode, MemcDeJudder, MemcDeBlur, ColorTune, DdrSsc, DisplayMode, Row
<1> QED BY <1>1, <1>2, <1>3

\* The fields of the colour management record, and of the panel's record.
LEMMA RecordsAre ==
  /\ \A s \in AllSettings : Rows[s].keep = "cms" <=> s \in Colours
  /\ \A s \in AllSettings : Rows[s].keep = "lcd" <=> s \in {"LvdsLevel", "LvdsFrep", "LvdsMode"}
  /\ {"LvdsLevel", "LvdsFrep", "LvdsMode"} \subseteq AllSettings /\ Colours \subseteq AllSettings
PROOF
<1> DEFINE Other(r) == r.keep \notin {"cms", "lcd"}
<1>1. /\ Other(Brightness) /\ Other(Contrast) /\ Other(Saturation) /\ Other(Hue) /\ Other(Sharpness)
      /\ Other(SuperResolution) /\ Other(NoiseReduction) /\ Other(Dnlp) /\ Other(LocalContrast)
      /\ Other(ColorGamut) /\ Other(BlackStretch) /\ Other(BlueStretch) /\ Other(ChromaCoring)
  BY SMTT(60) DEF Row, Brightness, Contrast, Saturation, Hue, Sharpness, SuperResolution, NoiseReduction,
     Dnlp, LocalContrast, ColorGamut, BlackStretch, BlueStretch, ChromaCoring
<1>2. /\ Other(MpegNr) /\ Other(ColorBaseMode) /\ Other(HDRTMO) /\ Other(DarkDetail)
      /\ Other(Backlight) /\ Other(MemcMode) /\ Other(DisplayMode) /\ Other(SmoothPlus)
      /\ Other(Deblock) /\ Other(DemoSquito) /\ Other(McDi) /\ Other(LocalDimming)
      /\ Other(MemcDeBlur) /\ Other(MemcDeJudder)
  BY SMTT(60) DEF Row, MpegNr, ColorBaseMode, HDRTMO, DarkDetail, Backlight, MemcMode, DisplayMode,
     SmoothPlus, Deblock, DemoSquito, McDi, LocalDimming, MemcDeBlur, MemcDeJudder
<1>3. /\ Other(DynamicBacklight) /\ Other(AiSr) /\ Other(Aipq) /\ Other(DdrSsc) /\ Other(ColorTune)
      /\ Other(ColorCustomizeBy3DLut)
  BY SMTT(60) DEF Row, DynamicBacklight, AiSr, Aipq, DdrSsc, ColorTune, ColorCustomizeBy3DLut
<1>4. /\ ColorCustomize.keep = "cms"
      /\ LvdsLevel.keep = "lcd" /\ LvdsFrep.keep = "lcd" /\ LvdsMode.keep = "lcd"
  BY SMTT(60) DEF Row, ColorCustomize, LvdsLevel, LvdsFrep, LvdsMode
<1> HIDE DEF Other
<1>5. \A s \in AllSettings : s \in Colours \/ s \in {"LvdsLevel", "LvdsFrep", "LvdsMode"} \/ Other(Rows[s])
  BY <1>1, <1>2, <1>3, SMTT(60) DEF AllSettings, Rows, Colours
<1>6. /\ \A s \in Colours : Rows[s] = ColorCustomize
      /\ Rows["LvdsLevel"] = LvdsLevel /\ Rows["LvdsFrep"] = LvdsFrep /\ Rows["LvdsMode"] = LvdsMode
  BY DEF Rows, Colours
<1>7. {"LvdsLevel", "LvdsFrep", "LvdsMode"} \subseteq AllSettings /\ Colours \subseteq AllSettings
  BY DEF AllSettings, Rows, Colours
<1> QED BY <1>4, <1>5, <1>6, <1>7 DEF Other

\* A setting of the panel's record is written with the record.
LEMMA LcdWhole ==
  ASSUME NEW s \in AllSettings, Rows[s].keep = "lcd"
  PROVE  Whole(s)
PROOF
<1> DEFINE L == {"LvdsLevel", "LvdsFrep", "LvdsMode"}
<1>1. Shared(s) = L
  BY RecordsAre DEF Shared
<1>2. IsFiniteSet({"LvdsLevel"}) /\ Cardinality({"LvdsLevel"}) = 1
  BY FS_Singleton
<1> DEFINE two == {"LvdsLevel"} \cup {"LvdsFrep"}
<1>3. IsFiniteSet(two) /\ Cardinality(two) = 2
  <2>1. "LvdsFrep" \notin {"LvdsLevel"}
    OBVIOUS
  <2>2. Cardinality({"LvdsLevel"}) + 1 = 2
    BY <1>2
  <2> HIDE DEF two
  <2>3. /\ IsFiniteSet({"LvdsLevel"} \cup {"LvdsFrep"})
        /\ Cardinality({"LvdsLevel"} \cup {"LvdsFrep"}) = Cardinality({"LvdsLevel"}) + 1
    BY <1>2, <2>1, FS_AddElement
  <2> QED BY <2>2, <2>3 DEF two
<1>4. Cardinality(two \cup {"LvdsMode"}) = 3
  <2>1. "LvdsMode" \notin two
    OBVIOUS
  <2> HIDE DEF two
  <2>2. Cardinality(two \cup {"LvdsMode"}) = Cardinality(two) + 1
    BY <1>3, <2>1, FS_AddElement
  <2> QED BY <1>3, <2>2
<1>5. L = two \cup {"LvdsMode"}
  OBVIOUS
<1> QED BY <1>1, <1>4, <1>5 DEF Whole

\* Settings that share registers share the configuration flag, and the fields of
\* the records outside the picture mode have none.
LEMMA GatesAre ==
  /\ Gated("Hue", flags) <=> Gated("Saturation", flags)
  /\ Gated("MemcDeJudder", flags) <=> Gated("MemcMode", flags)
  /\ Gated("MemcMode", flags) <=> "memc" \in flags
  /\ Gated("MpegNr", flags) <=> Gated("Deblock", flags) \/ Gated("DemoSquito", flags)
  /\ \A s \in AllSettings : Rows[s].keep \in {"lcd", "cms", "lut"} => Gated(s, flags)
PROOF
<1>1. /\ Gated("Hue", flags) <=> Gated("Saturation", flags)
      /\ Gated("MemcDeJudder", flags) <=> Gated("MemcMode", flags)
      /\ Gated("MemcMode", flags) <=> "memc" \in flags
  BY Singled DEF Gated
<1>2. Gated("MpegNr", flags) <=> "deblock" \in flags \/ "demosquito" \in flags
  BY DEF Gated
<1>3. /\ Gated("Deblock", flags) <=> "deblock" \in flags
      /\ Gated("DemoSquito", flags) <=> "demosquito" \in flags
  BY Singled DEF Gated
<1>4. \A s \in AllSettings : Rows[s].keep \in {"lcd", "cms", "lut"} => Gated(s, flags)
  BY Singled, RowsSound DEF Gated, Sound
<1> QED BY <1>1, <1>2, <1>3, <1>4

-----------------------------------------------------------------------------
(* The programs of the setters, by their settings.                          *)

\* An access and what it leaves, written out.
Goes(q, a, p) == Head(q) = a /\ Tail(q) = p

\* Of a setter that has one access left, or two.
LEMMA GoesShort ==
  /\ Goes(<<"return">>, "return", <<>>)
  /\ Goes(<<"show", "return">>, "show", <<"return">>)
  /\ Goes(<<"tune", "return">>, "tune", <<"return">>)
  /\ Goes(<<"write", "return">>, "write", <<"return">>)
PROOF BY DEF Goes

\* Of a setter that has three accesses left.
LEMMA GoesOn ==
  /\ Goes(<<"tune", "show", "return">>, "tune", <<"show", "return">>)
  /\ Goes(<<"write", "show", "return">>, "write", <<"show", "return">>)
  /\ Goes(<<"write", "tune", "return">>, "write", <<"tune", "return">>)
  /\ Goes(<<"show", "write", "return">>, "show", <<"write", "return">>)
  /\ Goes(<<"read", "write", "return">>, "read", <<"write", "return">>)
PROOF BY DEF Goes

\* Of a setter that has more.
LEMMA GoesLong ==
  /\ Goes(<<"tune", "show", "write", "return">>, "tune", <<"show", "write", "return">>)
  /\ Goes(<<"read", "write", "show", "return">>, "read", <<"write", "show", "return">>)
  /\ Goes(<<"show", "read", "write", "return">>, "show", <<"read", "write", "return">>)
  /\ Goes(<<"read", "show", "write", "return">>, "read", <<"show", "write", "return">>)
  /\ Goes(<<"tune", "show", "read", "write", "return">>, "tune", <<"show", "read", "write", "return">>)
PROOF BY DEF Goes

\* What is left of a setter, by its setting, once it has made an access.
KindGoes(s, q) ==
  /\ Tail(q) \in KindLeft(s)
  /\ Head(q) = "show" => /\ s # "ColorTune" /\ q \notin HasShown
                         /\ ~Rows[s].saveFirst => Tail(q) \in HasShown
                         /\ Rows[s].saveFirst => Tail(q) = <<"return">>
                         /\ Rows[s].keep = "lcd" => q \in HasRead
  /\ Head(q) = "tune" => /\ s = "ColorTune" \/ Rows[s].keep = "cms"
                         /\ s = "ColorTune" => q = <<"tune", "return">> /\ Tail(q) = <<"return">>
                         /\ s # "ColorTune" => /\ q \notin HasShown /\ Tail(q) \notin HasShown
                                               /\ Tail(q) \in HasRead => q \in NoRead
  /\ Head(q) = "write" => /\ s = "ColorTune" => Tail(q) = <<"tune", "return">> /\ q \notin HasShown
                          /\ s # "ColorTune" /\ ~Rows[s].saveFirst
                               => q = <<"write", "return">> /\ Tail(q) = <<"return">>
                          /\ s # "ColorTune" /\ Rows[s].saveFirst => Tail(q) = <<"show", "return">>
  /\ Head(q) = "read" => /\ s # "ColorTune" /\ (Tail(q) \in HasShown <=> q \in HasShown)
                         /\ Tail(q) # <<"return">> /\ Tail(q) # <<>>
  /\ Head(q) = "return" <=> q = <<"return">>

\* Of the switch of the colours.
LEMMA TuneGoes ==
  ASSUME NEW q \in TuneLeft \ {<<>>}
  PROVE  KindGoes("ColorTune", q)
PROOF
<1>1. KindLeft("ColorTune") = TuneLeft
  BY DEF KindLeft
<1>2. CASE q = <<"return">>
  BY <1>1, <1>2, GoesShort DEF KindGoes, Goes, TuneLeft
<1>3. CASE q = <<"tune", "return">>
  BY <1>1, <1>3, GoesShort DEF KindGoes, Goes, TuneLeft
<1>4. CASE q = <<"write", "tune", "return">>
  BY <1>1, <1>4, GoesOn DEF KindGoes, Goes, TuneLeft, HasShown
<1> QED BY <1>2, <1>3, <1>4 DEF TuneLeft

\* Of a field of the panel's record.
LEMMA LcdGoes ==
  ASSUME NEW s \in AllSettings, s # "ColorTune", Rows[s].keep = "lcd", NEW q \in LcdLeft \ {<<>>}
  PROVE  KindGoes(s, q)
PROOF
<1>1. KindLeft(s) = LcdLeft /\ ~Rows[s].saveFirst
  BY RowsSound DEF KindLeft, Sound
<1>2. CASE q = <<"return">>
  BY <1>1, <1>2, GoesShort DEF KindGoes, Goes, LcdLeft
<1>3. CASE q = <<"write", "return">>
  BY <1>1, <1>3, GoesShort DEF KindGoes, Goes, LcdLeft
<1>4. CASE q = <<"show", "write", "return">>
  BY <1>1, <1>4, GoesOn DEF KindGoes, Goes, LcdLeft, HasShown, HasRead
<1>5. CASE q = <<"read", "show", "write", "return">>
  BY <1>1, <1>5, GoesLong DEF KindGoes, Goes, LcdLeft, HasShown
<1> QED BY <1>2, <1>3, <1>4, <1>5 DEF LcdLeft

\* Of a setting kept before it is shown.
LEMMA FirstGoes ==
  ASSUME NEW s \in AllSettings, s # "ColorTune", Rows[s].saveFirst, NEW q \in FirstLeft \ {<<>>}
  PROVE  KindGoes(s, q)
PROOF
<1>1. KindLeft(s) = FirstLeft /\ Rows[s].keep \notin {"cms", "lcd"}
  BY RowsSound DEF KindLeft, Sound
<1>2. CASE q = <<"return">>
  BY <1>1, <1>2, GoesShort DEF KindGoes, Goes, FirstLeft
<1>3. CASE q = <<"show", "return">>
  BY <1>1, <1>3, GoesShort DEF KindGoes, Goes, FirstLeft, HasShown
<1>4. CASE q = <<"write", "show", "return">>
  BY <1>1, <1>4, GoesOn DEF KindGoes, Goes, FirstLeft
<1>5. CASE q = <<"read", "write", "show", "return">>
  BY <1>1, <1>5, GoesLong DEF KindGoes, Goes, FirstLeft, HasShown
<1> QED BY <1>2, <1>3, <1>4, <1>5 DEF FirstLeft

\* Of the other settings, the colours apart until they have tuned.
LEMMA PlainGoes ==
  ASSUME NEW s \in AllSettings, s # "ColorTune", Rows[s].keep # "lcd", ~Rows[s].saveFirst,
         PlainLeft \subseteq KindLeft(s), NEW q \in PlainLeft \ {<<>>}
  PROVE  KindGoes(s, q)
PROOF
<1>1. \A p \in PlainLeft : p \in KindLeft(s)
  OBVIOUS
<1>2. CASE q = <<"return">>
  BY <1>1, <1>2, GoesShort DEF KindGoes, Goes, PlainLeft
<1>3. CASE q = <<"write", "return">>
  BY <1>1, <1>3, GoesShort DEF KindGoes, Goes, PlainLeft
<1>4. CASE q = <<"read", "write", "return">>
  BY <1>1, <1>4, GoesOn DEF KindGoes, Goes, PlainLeft, HasShown
<1>5. CASE q = <<"show", "return">>
  BY <1>1, <1>5, GoesShort DEF KindGoes, Goes, PlainLeft, HasShown
<1>6. CASE q = <<"show", "write", "return">>
  BY <1>1, <1>6, GoesOn DEF KindGoes, Goes, PlainLeft, HasShown
<1>7. CASE q = <<"show", "read", "write", "return">>
  BY <1>1, <1>7, GoesLong DEF KindGoes, Goes, PlainLeft, HasShown
<1> QED BY <1>2, <1>3, <1>4, <1>5, <1>6, <1>7 DEF PlainLeft

\* Of every setter.
LEMMA KindTails ==
  ASSUME NEW s \in AllSettings, NEW q \in KindLeft(s) \ {<<>>}
  PROVE  KindGoes(s, q)
PROOF
<1>1. CASE s = "ColorTune"
  BY <1>1, TuneGoes DEF KindLeft
<1>2. CASE s # "ColorTune" /\ Rows[s].keep = "lcd"
  BY <1>2, LcdGoes DEF KindLeft
<1>3. CASE s # "ColorTune" /\ Rows[s].saveFirst
  <2>1. Rows[s].keep \notin {"cms", "lcd"}
    BY <1>3, RowsSound DEF Sound
  <2> QED BY <1>3, <2>1, FirstGoes DEF KindLeft
<1>4. CASE s # "ColorTune" /\ Rows[s].keep = "cms"
  <2>1. ~Rows[s].saveFirst /\ KindLeft(s) = ColourLeft /\ Rows[s].keep # "lcd"
    BY <1>4, RowsSound DEF Sound, KindLeft
  <2>2. CASE q \in PlainLeft
    BY <1>4, <2>1, <2>2, PlainGoes DEF ColourLeft
  <2>3. CASE q = <<"tune", "show", "return">>
    BY <1>4, <2>1, <2>3, GoesOn DEF KindGoes, Goes, ColourLeft, PlainLeft, HasShown, HasRead, NoRead
  <2>4. CASE q = <<"tune", "show", "write", "return">>
    BY <1>4, <2>1, <2>4, GoesLong DEF KindGoes, Goes, ColourLeft, PlainLeft, HasShown, HasRead, NoRead
  <2>5. CASE q = <<"tune", "show", "read", "write", "return">>
    BY <1>4, <2>1, <2>5, GoesLong DEF KindGoes, Goes, ColourLeft, PlainLeft, HasShown, HasRead, NoRead
  <2> QED BY <2>1, <2>2, <2>3, <2>4, <2>5 DEF ColourLeft
<1>5. CASE s # "ColorTune" /\ Rows[s].keep \notin {"cms", "lcd"} /\ ~Rows[s].saveFirst
  BY <1>5, PlainGoes DEF KindLeft
<1> QED BY <1>1, <1>2, <1>3, <1>4, <1>5

\* The program of a setter is always one of its setting.
LEMMA KindEnds == \A s : <<>> \in KindLeft(s)
PROOF BY DEF KindLeft, TuneLeft, ColourLeft, LcdLeft, FirstLeft, PlainLeft

\* Each setter goes through the program of its setting.
THEOREM KindsHold == Spec => []Kinds
PROOF
<1>1. Init => Kinds
  BY NoCallTyped DEF Init, Kinds
<1>2. Kinds /\ Shape /\ [Next]_vars => Kinds'
  <2> SUFFICES ASSUME Kinds, Shape, [Next]_vars PROVE Kinds'
    OBVIOUS
  <2>1. CASE UNCHANGED vars
    <3>1. todo' = todo /\ call' = call
      BY <2>1 DEF vars
    <3> QED BY <3>1 DEF Kinds
  <2>2. ASSUME NEW t \in Threads, NEW c \in Calls, NEW p \in Programs, Starts(t, c, p), Begin(t, c, p)
        PROVE  Kinds'
    <3>1. \A u \in Threads : \/ u = t /\ call'[u] = c /\ todo'[u] = p
                             \/ call'[u] = call[u] /\ todo'[u] = todo[u]
      BY <2>2 DEF Begin, Shape
    <3>2. c.op = "set" => p \in KindLeft(c.s)
      BY <2>2 DEF Starts
    <3> QED BY <3>1, <3>2 DEF Kinds
  <2>3. ASSUME NEW u \in Threads, Step(u)
        PROVE  Kinds'
    <3>1. \A t \in Threads : call'[t].op = call[t].op /\ call'[t].s = call[t].s
      BY <2>3, StepCalls
    <3>2. \A t \in Threads : t # u => todo'[t] = todo[t]
      BY <2>3, StepWork DEF Then, Shape
    <3>3. ASSUME call[u].op = "set" PROVE todo'[u] \in KindLeft(call[u].s)
      <4>1. ~Members(u)
        BY <2>3, <3>3, StepOp
      <4>2. todo[u] # <<>> /\ (todo'[u] = Tail(todo[u]) \/ todo'[u] = <<>> \/ todo'[u] = <<"return">>)
        BY <2>3, <4>1, StepThen
      <4>3. call[u].s \in AllSettings /\ todo[u] \in KindLeft(call[u].s)
        BY <3>3, GroupsKnown DEF Shape, Kinds
      <4>4. Tail(todo[u]) \in KindLeft(call[u].s)
        BY <4>2, <4>3, KindTails DEF KindGoes
      <4>5. <<"return">> \in KindLeft(call[u].s)
        BY DEF KindLeft, TuneLeft, ColourLeft, LcdLeft, FirstLeft, PlainLeft
      <4> QED BY <4>2, <4>4, <4>5, KindEnds
    <3> QED BY <3>1, <3>2, <3>3 DEF Kinds
  <2>4. CASE Restart
    BY <2>4, NoCallTyped DEF Restart, Kinds
  <2>5. CASE Next
    BY <2>2, <2>3, <2>4, <2>5, NextIs
  <2> QED BY <2>1, <2>5
<1> QED BY <1>1, <1>2, ShapeHolds, PTL DEF Spec

-----------------------------------------------------------------------------
(* What an access does not touch it leaves alone.                           *)

\* A register of a setting in use belongs to a setting in use, and what touches it
\* touches the setting.
LEMMA RegsTouched ==
  ASSUME NEW s \in inUse, inUse \subseteq AllSettings, NEW r \in Regs(s)
  PROVE  /\ r \in inUse
         /\ \A c : /\ c.op \in {"set", "mode", "switch"} /\ r \in Touched(c)
                   /\ c.op = "set" => c.s \in AllSettings
                   => s \in Touched(c)
PROOF
<1>1. CASE s # "MpegNr"
  BY <1>1 DEF Regs
<1>2. CASE s = "MpegNr"
  <2>1. r \in inUse /\ r \in {"Deblock", "DemoSquito"}
    BY <1>2 DEF Regs
  <2>2. ASSUME NEW c, c.op \in {"mode", "switch"}
        PROVE  s \in Touched(c)
    BY <2>2, <1>2, Singled, TouchedByMove DEF Moved
  <2>3. ASSUME NEW c, c.op = "set", c.s \in AllSettings, r \in Touched(c)
        PROVE  s \in Touched(c)
    <3>1. CASE c.s \in {"MpegNr", "Deblock", "DemoSquito"}
      BY <2>3, <3>1, <1>2 DEF Touched
    <3>2. CASE c.s \notin {"MpegNr", "Deblock", "DemoSquito"}
      <4>1. r \notin Shared(c.s)
        <5>1. Rows[r].keep = "source"
          BY <2>1, Singled
        <5>2. r # c.s
          BY <2>1, <3>2
        <5>3. "source" \notin Recorded
          BY DEF Recorded
        <5> QED BY <2>3, <5>1, <5>2, <5>3, SharedIs
      <4>2. r \notin Colours /\ r \notin {"MemcMode", "MemcDeBlur", "MemcDeJudder"}
        BY <2>1 DEF Colours
      <4> HIDE DEF Shared
      <4>3. r \notin Touched(c)
        BY <4>1, <4>2, <2>3, <3>2 DEF Touched
      <4> QED BY <4>3, <2>3
    <3> QED BY <3>1, <3>2
  <2> QED BY <2>1, <2>2, <2>3
<1> QED BY <1>1, <1>2

\* The setters of the colours, and of their switch, touch the colours.
LEMMA TunesTouched ==
  ASSUME NEW c, c.op = "set", c.s \in AllSettings, c.s = "ColorTune" \/ Rows[c.s].keep = "cms"
  PROVE  Colours \subseteq Touched(c)
PROOF
<1>1. CASE c.s = "ColorTune"
  BY <1>1 DEF Touched
<1>2. CASE Rows[c.s].keep = "cms"
  BY <1>2, RecordsAre, TouchedBySet DEF Shared
<1> QED BY <1>1, <1>2

\* The registers a hardware step writes belong to settings the setter touches.
LEMMA ShowsIn ==
  ASSUME NEW c, c.op = "set", c.s \in AllSettings, NEW v, NEW r \in DOMAIN Shows(c.s, v)
  PROVE  r \in Touched(c)
PROOF
<1> DEFINE s == c.s
<1>0. s \in Shared(s) /\ Shared(s) \subseteq Touched(c)
  BY SharedIs, TouchedBySet
<1>1. CASE s \in {"Saturation", "Hue"}
  <2>1. r \in {"Saturation", "Hue"}
    <3>1. CASE s = "Saturation"
      BY <3>1, NotLut DEF Shows
    <3>2. CASE s = "Hue"
      BY <3>2, NotLut DEF Shows
    <3> QED BY <1>1, <3>1, <3>2
  <2>2. {"Saturation", "Hue"} \subseteq Shared(s)
    BY <1>1, Singled, Known DEF Shared
  <2> QED BY <1>0, <2>1, <2>2
<1>2. CASE s = "MpegNr"
  <2>1. r \in {"Deblock", "DemoSquito"}
    BY <1>2, NotLut DEF Shows
  <2> QED BY <1>2, <2>1 DEF Touched
<1>3. CASE s = "MemcMode"
  <2>1. r \in {"MemcMode", "MemcDeJudder"}
    BY <1>3, NotLut DEF Shows
  <2> QED BY <1>3, <2>1 DEF Touched
<1>4. CASE s = "MemcDeBlur"
  BY <1>4, NotLut DEF Shows
<1>5. CASE Rows[s].keep = "lut"
  <2>1. s \notin {"Saturation", "Hue", "MpegNr", "MemcMode", "MemcDeBlur"}
    BY <1>5, NotLut
  <2>2. r \in Shared(s)
    BY <1>5, <2>1 DEF Shows
  <2> QED BY <1>0, <2>2
<1>6. CASE s \notin {"Saturation", "Hue", "MpegNr", "MemcMode", "MemcDeBlur"} /\ Rows[s].keep # "lut"
  <2>1. r = s
    BY <1>6 DEF Shows
  <2> QED BY <1>0, <2>1
<1> QED BY <1>1, <1>2, <1>3, <1>4, <1>5, <1>6

\* An access of a setter is one of its setting's program.
LEMMA SetAccess ==
  ASSUME Shape, Kinds, NEW u \in Threads, NEW a \in {"read", "write", "show", "tune"}, At(u, a)
  PROVE  /\ call[u].op = "set" /\ call[u].s \in AllSettings /\ call[u].s \in inUse
         /\ call[u].v \in Value(call[u].s)
         /\ todo[u] \in SetLeft \ {<<>>} /\ todo[u] \in KindLeft(call[u].s) \ {<<>>}
         /\ KindGoes(call[u].s, todo[u]) /\ Head(todo[u]) = a
PROOF
<1>1. todo[u] # <<>> /\ Head(todo[u]) = a
  BY DEF At
<1>2. call[u].op = "set"
  BY <1>1, HeadOp
<1>3. call[u].s \in AllSettings /\ call[u].s \in inUse /\ call[u].v \in Value(call[u].s)
  BY <1>2, GroupsKnown DEF Shape
<1>4. todo[u] \in SetLeft \ {<<>>}
  BY <1>1, <1>2 DEF Shape, Left
<1>5. todo[u] \in KindLeft(call[u].s) \ {<<>>}
  BY <1>1, <1>2 DEF Kinds
<1> QED BY <1>1, <1>2, <1>3, <1>4, <1>5, KindTails

\* What is written to the panel belongs to settings the call touches.
LEMMA PanelElsewhere ==
  ASSUME Shape, RowKept, Kinds, NEW u \in Threads, Step(u), NEW r \in inUse, r \notin Touched(call[u])
  PROVE  panel'[r] = panel[r]
PROOF
<1>0. inUse \subseteq AllSettings
  BY GroupsKnown
<1>1. CASE Show(u)
  <2> DEFINE s == call[u].s  v == call[u].v
             w == IF Rows[s].keep = "lcd" THEN [row[u].fields EXCEPT ![s] = v] ELSE Reached(s, v)
  <2>1. /\ call[u].op = "set" /\ s \in AllSettings
        /\ KindGoes(s, todo[u]) /\ Head(todo[u]) = "show"
    BY <1>1, SetAccess DEF Show
  <2>2. r \notin DOMAIN w
    <3>1. CASE Rows[s].keep = "lcd"
      <4>1. todo[u] \in HasRead /\ Whole(s)
        BY <2>1, <3>1, LcdWhole DEF KindGoes
      <4>2. DOMAIN row[u].fields = Shared(s) \cap inUse
        BY <2>1, <4>1 DEF RowKept
      <4>3. DOMAIN w = Shared(s) \cap inUse
        BY <3>1, <4>2
      <4>4. Shared(s) \subseteq Touched(call[u])
        BY <2>1, TouchedBySet
      <4> QED BY <4>3, <4>4
    <3>2. CASE Rows[s].keep # "lcd"
      <4>1. DOMAIN w = {q \in DOMAIN Shows(s, v) : Gated(q, flags)}
        BY <3>2 DEF Reached
      <4> QED BY <4>1, <2>1, ShowsIn
    <3> QED BY <3>1, <3>2
  <2>3. panel' = panel \/ panel' = [q \in inUse |-> IF q \in DOMAIN w THEN w[q] ELSE panel[q]]
    BY <1>1 DEF Show
  <2> HIDE DEF w
  <2> QED BY <2>2, <2>3
<1>2. CASE Tune(u)
  <2>1. /\ call[u].op = "set" /\ call[u].s \in AllSettings
        /\ KindGoes(call[u].s, todo[u]) /\ Head(todo[u]) = "tune"
    BY <1>2, SetAccess DEF Tune
  <2>2. Colours \subseteq Touched(call[u])
    BY <2>1, TunesTouched DEF KindGoes
  <2>3. r \notin Colours
    BY <2>2
  <2> QED BY <1>2, <2>3 DEF Tune
<1>3. CASE ShowRow(u)
  <2> DEFINE w == RowLevels(row[u].fields)
  <2>1. call[u].op \in {"mode", "switch"}
    BY <1>3, HeadOp DEF ShowRow, At
  <2>2. r \notin DOMAIN w
    <3> SUFFICES ASSUME r \in DOMAIN w PROVE FALSE
      OBVIOUS
    <3>1. r \in {"Deblock", "DemoSquito"} \/ Rows[r].load = "row"
      BY DEF RowLevels
    <3>2. Rows[r].keep \in Moved
      BY <1>0, <3>1, Singled, RowsSound DEF Sound, Moved
    <3> QED BY <2>1, <3>2, TouchedByMove
  <2>3. panel' = [q \in inUse |-> IF q \in DOMAIN w THEN w[q] ELSE panel[q]]
    BY <1>3 DEF ShowRow
  <2> HIDE DEF w
  <2> QED BY <2>2, <2>3
<1>4. CASE ShowTable(u)
  <2>1. call[u].op = "switch"
    BY <1>4, HeadOp DEF ShowTable, At
  <2>2. r \notin DOMAIN TableLevels
    <3> SUFFICES ASSUME r \in DOMAIN TableLevels PROVE FALSE
      OBVIOUS
    <3>1. Rows[r].load \in {"table", "off"} \/ r \in Colours \/ r \in {"MemcDeJudder", "DisplayMode"}
      BY DEF TableLevels, DisplayShown
    <3>2. Rows[r].load # "no" \/ Rows[r].keep \in {"mode", "source", "level"}
      BY <1>0, <3>1, Singled, RecordsAre, RowsSound DEF Sound
    <3> QED BY <2>1, <3>2 DEF Touched
  <2>3. panel' = [q \in inUse |-> IF q \in DOMAIN TableLevels THEN TableLevels[q] ELSE panel[q]]
    BY <1>4 DEF ShowTable
  <2> QED BY <2>2, <2>3
<1>5. CASE ShowStart(u)
  <2>1. call[u].op = "switch"
    BY <1>5, HeadOp DEF ShowStart, At
  <2>2. Rows[r].load = "no"
    BY <2>1 DEF Touched
  <2> QED BY <1>5, <2>2 DEF ShowStart
<1>6. CASE Display(u)
  <2>1. call[u].op \in {"mode", "switch"}
    BY <1>6, HeadOp DEF Display, At
  <2>2. r # "DisplayMode"
    BY <2>1, Singled, TouchedByMove DEF Moved
  <2> QED BY <1>6, <2>2 DEF Display
<1>7. CASE Read(u) \/ Write(u) \/ SaveMode(u) \/ LoadMode(u) \/ ReadRow(u)
  BY <1>7 DEF Read, Write, SaveMode, LoadMode, ReadRow
<1>8. CASE Lock(u) \/ Members(u) \/ Unlock(u) \/ Return(u)
  BY <1>8 DEF Lock, Members, Unlock, Return
<1> QED BY <1>1, <1>2, <1>3, <1>4, <1>5, <1>6, <1>7, <1>8 DEF Step

\* What is written to the file belongs to settings the call touches.
LEMMA FileElsewhere ==
  ASSUME Shape, RowKept, Keyed, NEW u \in Threads, Step(u), NEW s,
         call[u].op = "set" => s \notin Shared(call[u].s)
  PROVE  /\ \A p : ValueAt(s, p)' = ValueAt(s, p)
         /\ s = "MemcMode" => \A source : MemcStored(source)' = MemcStored(source)
PROOF
<1>1. CASE Write(u)
  <2>1. PICK new : WritesNew(u, new)
    BY <1>1, WriteIs
  <2>2. call[u].op = "set"
    BY <1>1, StepOp
  <2>3. file' = Rewritten(new) /\ \A k \in DOMAIN new : k[1] # s
    BY <2>1, <2>2 DEF WritesNew
  <2> QED BY <2>3, WriteLeaves
<1>2. CASE Display(u)
  BY <1>2, DisplayKeeps
<1>3. CASE file' = file
  BY <1>3 DEF ValueAt, MemcStored
<1> QED BY <1>1, <1>2, <1>3, StepStill

\* An access leaves every setting in use alone that its call does not touch.
LEMMA Elsewhere ==
  ASSUME Shape, RowKept, Keyed, Kinds, NEW u \in Threads, Step(u), NEW s \in inUse, s \notin Touched(call[u])
  PROVE  Still(s)
PROOF
<1>0. inUse \subseteq AllSettings /\ (call[u].op = "set" => call[u].s \in AllSettings)
  BY GroupsKnown DEF Shape
<1>1. call[u].op = "set" => s \notin Shared(call[u].s)
  BY TouchedBySet
<1>2. \A p : ValueAt(s, p)' = ValueAt(s, p)
  BY <1>1, FileElsewhere
<1>3. GetPlace(s)' = GetPlace(s) /\ \A m : Place(s, m)' = Place(s, m)
  <2>1. Rows[s].keep \in Moved => ~Members(u) /\ ~SaveMode(u)
    BY StepOp, TouchedByMove
  <2>2. Rows[s].keep \in Moved => sig' = sig /\ input' = input /\ modeOf'[sig] = modeOf[sig]
    BY <2>1, StepStill
  <2>3. ASSUME Rows[s].keep = "level" PROVE \A source : MemcStored(source)' = MemcStored(source)
    <3>1. s \in {"MemcDeBlur", "MemcDeJudder"}
      BY <1>0, <2>3, KeepsOf
    <3>2. ASSUME call[u].op = "set" PROVE "MemcMode" \notin Shared(call[u].s)
      <4>1. call[u].s # "MemcMode"
        BY <3>1, <3>2 DEF Touched
      <4> QED BY <1>0, <3>2, <4>1, SharedIs, Singled DEF Recorded
    <3> QED BY <3>2, FileElsewhere
  <2> QED BY <2>2, <2>3, PlaceSame
<1>4. ASSUME NEW r \in Regs(s) PROVE panel'[r] = panel[r]
  <2>1. r \in inUse
    BY <1>0, RegsTouched
  <2>2. call[u].op \in {"set", "mode", "switch"} => r \notin Touched(call[u])
    BY <1>0, RegsTouched
  <2>3. call[u].op \notin {"set", "mode", "switch"} => r \notin Touched(call[u])
    BY DEF Touched
  <2> QED BY <2>1, <2>2, <2>3, PanelElsewhere
<1>5. ASSUME s \in Colours PROVE Stored("ColorTune")' = Stored("ColorTune")
  <2>1. call[u].op = "set" => call[u].s # "ColorTune"
    BY <1>0, <1>5, TunesTouched
  <2>2. call[u].op = "set" => "ColorTune" \notin Shared(call[u].s)
    BY <1>0, <2>1, SharedIs, Singled DEF Recorded
  <2>3. \A p : ValueAt("ColorTune", p)' = ValueAt("ColorTune", p)
    BY <2>2, FileElsewhere
  <2>4. GetPlace("ColorTune")' = GetPlace("ColorTune")
    BY Singled, PlaceSame DEF Moved
  <2> QED BY <2>3, <2>4 DEF Stored
<1> QED BY <1>2, <1>3, <1>4, <1>5 DEF Still

\* What is still left alone shows what it showed.
LEMMA StillFollows ==
  ASSUME NEW s, Still(s), inUse' = inUse, flags' = flags
  PROVE  /\ Stored(s)' = Stored(s) /\ Aim(s)' = Aim(s) /\ Regs(s)' = Regs(s)
         /\ Follows(s)' <=> Follows(s)
PROOF
<1>1. Stored(s)' = Stored(s)
  BY DEF Still, Stored
<1>2. Aim(s)' = Aim(s)
  BY <1>1 DEF Still, Aim, Lev
<1>3. Regs(s)' = Regs(s)
  BY DEF Regs
<1>4. Follows(s)' <=> Follows(s)
  BY <1>2, <1>3, SMTT(30) DEF Still, Follows
<1> QED BY <1>1, <1>2, <1>3, <1>4

-----------------------------------------------------------------------------
(* The constructor runs alone, and changes of source one at a time.         *)

\* Only the constructor's load is no call of a client; no thread runs beside it.
\* Leaving a source shows the picture position and nothing else.
Alone ==
  /\ todo[Main] # <<>> => \A t \in Threads \ {Main} : todo[t] = <<>>
  /\ call[Main].op = "switch" /\ ~call[Main].exit
  /\ todo[Main] \in BootLeft \cup {<<>>}
  /\ \A t \in Threads : call[t].op = "switch" /\ todo[t] \in BootLeft => t = Main
  /\ \A t \in Threads : todo[t] = <<"display", "return", "unlock">> => call[t].exit

\* No access changes what the call asks for, the mode of a load apart.
LEMMA StepAsks ==
  ASSUME Shape, NEW u \in Threads, Step(u)
  PROVE  \A t \in Threads : call'[t].exit = call[t].exit /\ call'[t].save = call[t].save
PROOF
<1>1. CASE LoadMode(u)
  BY <1>1 DEF LoadMode, Shape, Calls
<1>2. CASE call' = call
  BY <1>2
<1> QED BY <1>1, <1>2 DEF Step, Show, Read, Write, Tune, SaveMode, ReadRow, ShowRow, ShowTable, ShowStart,
     Display, Lock, Members, Unlock, Return

\* A program of PqControlMutex is none of the constructor's.
LEMMA BootApart ==
  /\ \A q \in Inside : q \notin BootLeft /\ q # <<>>
  /\ <<"members">> \in Inside /\ <<>> \notin BootLeft /\ <<"lock", "members">> \notin BootLeft
  /\ Goes(<<"lock", "members">>, "lock", <<"members">>)
PROOF
<1>1. <<"members">> \in Inside /\ <<>> \notin BootLeft /\ <<"lock", "members">> \notin BootLeft
  BY DEF Inside, BootLeft
<1> QED BY <1>1, OwnsApart, WorkingLeft DEF Owns, Goes

\* A change of source that leaves its source shows nothing else.
LEMMA MembersExit ==
  ASSUME NEW same \in BOOLEAN, NEW leaves \in BOOLEAN,
         (IF same THEN <<>> ELSE DisplayProgram \o (IF leaves THEN <<>> ELSE LoadProgram) \o <<"return">>)
             \o <<"unlock">> = <<"display", "return", "unlock">>
  PROVE  leaves
PROOF
<1> SUFFICES ASSUME ~leaves PROVE FALSE
  OBVIOUS
<1>1. CASE same
  BY <1>1, MembersConcats
<1>2. CASE ~same /\ DisplayProgram = <<>>
  BY <1>2, MembersConcats
<1>3. CASE ~same /\ DisplayProgram = <<"display">>
  BY <1>3, MembersConcats
<1> QED BY <1>1, <1>2, <1>3 DEF DisplayProgram

\* An access keeps the constructor alone.
LEMMA StepAlone ==
  ASSUME Shape, Alone, NEW u \in Threads, Step(u)
  PROVE  Alone'
PROOF
<1>1. \A t \in Threads : /\ call'[t].op = call[t].op /\ call'[t].exit = call[t].exit
                         /\ t # u => todo'[t] = todo[t]
  BY StepCalls, StepAsks, StepWork DEF Then, Shape
<1>2. todo[u] # <<>>
  BY StepThen DEF Members, At
<1>3. todo[Main] # <<>> => u = Main
  BY <1>2 DEF Alone
<1>4. u = Main => todo'[u] \in BootLeft \cup {<<>>}
  <2> SUFFICES ASSUME u = Main PROVE todo'[u] \in BootLeft \cup {<<>>}
    OBVIOUS
  <2>1. todo[u] \in BootLeft
    BY <1>2 DEF Alone
  <2>2. ~Members(u)
    BY <2>1, BootTails DEF Members, At
  <2>3. <<"return">> \in BootLeft
    BY DEF BootLeft
  <2> QED BY <2>1, <2>2, <2>3, StepThen, BootTails
<1>5. u # Main /\ call[u].op = "switch" => todo'[u] \notin BootLeft
  <2> SUFFICES ASSUME u # Main, call[u].op = "switch" PROVE todo'[u] \notin BootLeft
    OBVIOUS
  <2>1. todo[u] \in {<<"lock", "members">>} \cup Inside
    BY <1>2 DEF Shape, Left, SwitchLeft, Alone
  <2>2. CASE Members(u)
    <3>1. todo'[u] \in Inside
      <4> DEFINE same == ~call[u].exit /\ ~left /\ call[u].g = sig /\ input = call[u].g[1]
      <4>1. same \in BOOLEAN /\ call[u].exit \in BOOLEAN
        BY SMTT(30) DEF Shape, Calls
      <4>2. todo'[u] = (IF same THEN <<>> ELSE DisplayProgram \o
                          (IF call[u].exit THEN <<>> ELSE LoadProgram) \o <<"return">>) \o <<"unlock">>
        BY <2>2 DEF Members, Then, Shape
      <4> HIDE DEF same
      <4> QED BY <4>1, <4>2, MembersLeft
    <3> QED BY <3>1, BootApart
  <2>3. CASE ~Members(u)
    <3>1. todo'[u] = Tail(todo[u]) \/ todo'[u] = <<>> \/ todo'[u] = <<"return">>
      BY <2>3, StepThen
    <3>2. todo'[u] # <<"return">>
      <4>1. CASE Show(u)
        BY <4>1, HeadOp DEF Show, At
      <4>2. CASE Tune(u)
        BY <4>2, HeadOp DEF Tune, At
      <4>3. CASE ShowRow(u)
        <5>1. todo'[u] = Tail(todo[u])
          BY <4>3, SMTT(30) DEF ShowRow, On, Then, Shape
        <5>2. todo[u] # <<"lock", "members">> /\ Head(todo[u]) = "showRow"
          BY <4>3, BootApart DEF ShowRow, At, Goes
        <5>3. Tail(todo[u]) \in Inside
          BY <2>1, <5>2, InsideTails
        <5>4. <<"return">> \in BootLeft
          BY DEF BootLeft
        <5> QED BY <5>1, <5>3, <5>4, BootApart
      <4>4. CASE On(u)
        <5>1. todo'[u] = Tail(todo[u])
          BY <4>4 DEF On, Then, Shape
        <5>2. Tail(todo[u]) \in Inside \cup {<<>>}
          <6>1. CASE todo[u] = <<"lock", "members">>
            BY <6>1, BootApart DEF Goes
          <6>2. CASE todo[u] \in Inside
            <7>1. Head(todo[u]) # "members"
              BY <2>3, StepThen
            <7> QED BY <6>2, <7>1, InsideTails
          <6> QED BY <2>1, <6>1, <6>2
        <5>3. <<"return">> \in BootLeft
          BY DEF BootLeft
        <5> QED BY <5>1, <5>2, <5>3, BootApart
      <4> QED BY <2>3, <4>1, <4>2, <4>3, <4>4 DEF Step, Read, Write, SaveMode, LoadMode, ReadRow,
           ShowTable, ShowStart, Display, Lock, Unlock, Return
    <3>3. Tail(todo[u]) \in Inside \cup {<<>>}
      <4>1. CASE todo[u] = <<"lock", "members">>
        BY <4>1, BootApart DEF Goes
      <4>2. CASE todo[u] \in Inside
        <5>1. Head(todo[u]) # "members"
          BY <2>3, StepThen
        <5> QED BY <4>2, <5>1, InsideTails
      <4> QED BY <2>1, <4>1, <4>2
    <3> QED BY <3>1, <3>2, <3>3, BootApart
  <2> QED BY <2>2, <2>3
<1>6. todo'[u] = <<"display", "return", "unlock">> => call[u].exit
  <2> DEFINE q == <<"display", "return", "unlock">>
  <2>1. q \in DisplayLeft
    BY DEF DisplayLeft
  <2>2. CASE Members(u)
    <3> DEFINE same == ~call[u].exit /\ ~left /\ call[u].g = sig /\ input = call[u].g[1]
    <3>1. same \in BOOLEAN /\ call[u].exit \in BOOLEAN
      BY DEF Shape, Calls
    <3>2. todo'[u] = (IF same THEN <<>> ELSE DisplayProgram \o
                        (IF call[u].exit THEN <<>> ELSE LoadProgram) \o <<"return">>) \o <<"unlock">>
      BY <2>2 DEF Members, Then, Shape
    <3> HIDE DEF same
    <3> QED BY <3>1, <3>2, MembersExit
  <2>3. CASE ~Members(u)
    <3> HIDE DEF q
    <3>1. todo[u] # <<>> /\ (todo'[u] = Tail(todo[u]) \/ todo'[u] = <<>> \/ todo'[u] = <<"return">>)
      BY <2>3, StepThen
    <3>2. Head(todo[u]) # "members"
      BY <2>3, StepThen
    <3>3. Tail(todo[u]) \notin DisplayLeft
      <4>1. CASE call[u].op = "set"
        BY <3>1, <4>1, SetTails, DisplayFirst DEF Shape, Left
      <4>2. CASE call[u].op = "mode"
        BY <3>1, <4>2, ModeTails, DisplayFirst DEF Shape, Left
      <4>3. CASE call[u].op = "info"
        BY <3>1, <4>3, InfoTails, DisplayFirst DEF Shape, Left
      <4>4. CASE call[u].op = "switch"
        <5>1. todo[u] \in {<<"lock", "members">>} \cup Inside \cup BootLeft
          BY <3>1, <4>4 DEF Shape, Left, SwitchLeft
        <5> QED BY <5>1, BootApart, DisplayFirst DEF Goes
      <4> QED BY <3>1, <4>1, <4>2, <4>3, <4>4, HeadOp
    <3>4. <<>> \notin DisplayLeft /\ <<"return">> \notin DisplayLeft
      BY DEF DisplayLeft
    <3> QED BY <2>1, <3>1, <3>3, <3>4 DEF q
  <2> QED BY <2>2, <2>3
<1> QED
  <2>1. todo'[Main] # <<>> => \A t \in Threads \ {Main} : todo'[t] = <<>>
    BY <1>1, <1>2, <1>3, Thread DEF Alone
  <2>2. call'[Main].op = "switch" /\ ~call'[Main].exit
    BY <1>1, Thread DEF Alone
  <2>3. todo'[Main] \in BootLeft \cup {<<>>}
    BY <1>1, <1>4, Thread DEF Alone
  <2>4. \A t \in Threads : call'[t].op = "switch" /\ todo'[t] \in BootLeft => t = Main
    BY <1>1, <1>5 DEF Alone
  <2>5. \A t \in Threads : todo'[t] = <<"display", "return", "unlock">> => call'[t].exit
    BY <1>1, <1>6 DEF Alone
  <2> QED BY <2>1, <2>2, <2>3, <2>4, <2>5 DEF Alone

\* The constructor's load, of the first process and of the next.
LEMMA BootsAlone ==
  /\ Init => Alone
  /\ Restart => Alone'
PROOF
<1>1. BootCall.op = "switch" /\ ~BootCall.exit
  BY DEF BootCall, NoCall
<1>2. BootProgram \in BootLeft /\ BootProgram # <<"display", "return", "unlock">>
  BY BootStarts, BootApart DEF Inside
<1>3. NoCall.op = "none" /\ <<>> # <<"display", "return", "unlock">>
  BY NoCallTyped
<1> HIDE DEF BootCall, NoCall, BootProgram
<1>4. ASSUME Init PROVE Alone
  BY <1>1, <1>2, <1>3, <1>4, Thread DEF Init, Alone
<1>5. ASSUME Restart PROVE Alone'
  BY <1>1, <1>2, <1>3, <1>5, Thread DEF Restart, Alone
<1> QED BY <1>4, <1>5

\* No call begins beside the constructor; it is never begun itself.
THEOREM AloneHolds == Spec => []Alone
PROOF
<1>1. Alone /\ Shape /\ [Next]_vars => Alone'
  <2> SUFFICES ASSUME Alone, Shape, [Next]_vars PROVE Alone'
    OBVIOUS
  <2>1. CASE UNCHANGED vars
    <3>1. todo' = todo /\ call' = call
      BY <2>1 DEF vars
    <3> QED BY <3>1 DEF Alone
  <2>2. ASSUME NEW t \in Threads, NEW c \in Calls, NEW p \in Programs, Starts(t, c, p), Begin(t, c, p)
        PROVE  Alone'
    <3>1. \A u \in Threads : \/ u = t /\ call'[u] = c /\ todo'[u] = p
                             \/ u # t /\ call'[u] = call[u] /\ todo'[u] = todo[u]
      BY <2>2 DEF Begin, Shape
    <3>2. t # Main /\ todo[Main] = <<>>
      BY <2>2 DEF Starts, Begin, Running
    <3>3. c.op = "switch" => p \notin BootLeft
      BY <2>2, BootApart DEF Starts
    <3>4. p # <<"display", "return", "unlock">>
      BY <2>2 DEF Starts, Owns, Inside
    <3> QED BY <3>1, <3>2, <3>3, <3>4, Thread DEF Alone
  <2>3. CASE Next
    BY <2>2, <2>3, NextIs, StepAlone, BootsAlone
  <2> QED BY <2>1, <2>3
<1> QED BY <1>1, BootsAlone, ShapeHolds, PTL DEF Spec

-----------------------------------------------------------------------------
(* Nobody disturbs a call that overlaps no other.                           *)

\* What a change of source may still have to do once it has its members.
Moving == (Inside \ {<<"members">>, <<"unlock">>}) \cup BootLeft

\* What the other theorems say of a state.
Ground == Shape /\ Places /\ Owner /\ Overlap /\ Record /\ Values /\ Kinds /\ Alone

\* The call is at work, and overlaps no other one.
Clear(t) ==
  /\ Working(t) /\ t \notin clash
  /\ call[t].op \in {"set", "mode"} \/ (call[t].op = "switch" /\ todo[t] \in Moving)

\* The mutex is taken and given back by the accesses of these names.
LEMMA StepMutex ==
  ASSUME NEW u \in Threads, Step(u)
  PROVE  Lock(u) \/ Unlock(u) \/ (todo[u] # <<>> /\ Head(todo[u]) \notin {"lock", "unlock"})
PROOF
<1>1. CASE Show(u) \/ Read(u) \/ Write(u) \/ Tune(u)
  BY <1>1 DEF Show, Read, Write, Tune, At
<1>2. CASE SaveMode(u) \/ LoadMode(u) \/ ReadRow(u) \/ ShowRow(u)
  BY <1>2 DEF SaveMode, LoadMode, ReadRow, ShowRow, At
<1>3. CASE ShowTable(u) \/ ShowStart(u) \/ Members(u) \/ Return(u)
  BY <1>3 DEF ShowTable, ShowStart, Members, Return, At
<1>4. CASE Display(u)
  BY <1>4 DEF Display, At
<1> QED BY <1>1, <1>2, <1>3, <1>4, SMTT(30) DEF Step

\* A step of a call that has only the mutex to give back.
LEMMA LastStep ==
  ASSUME NEW u \in Threads, Step(u), ~Working(u)
  PROVE  Unlock(u)
PROOF
<1>1. todo[u] # <<>> => Head(todo[u]) = "unlock"
  BY DEF Working
<1>2. CASE Lock(u)
  BY <1>1, <1>2 DEF Lock, At
<1> QED BY <1>1, <1>2, StepMutex

\* Two changes of source are not at work together.
LEMMA OneMoves ==
  ASSUME Shape, Owner, Alone, NEW t \in Threads, call[t].op = "switch", todo[t] \in Moving,
         NEW u \in Threads \ {t}, Step(u), Working(u)
  PROVE  call[u].op # "switch"
PROOF
<1> SUFFICES ASSUME call[u].op = "switch" PROVE FALSE
  OBVIOUS
<1>1. todo[u] # <<>>
  BY DEF Working
<1>2. todo[t] \notin BootLeft /\ todo[u] \notin BootLeft
  BY <1>1, BootApart DEF Alone, Moving
<1>3. todo[t] \in Inside /\ lock = t
  BY <1>2 DEF Moving, Owner, Owns
<1>4. todo[u] \notin Inside
  BY <1>3 DEF Owner, Owns
<1>5. todo[u] = <<"lock", "members">>
  BY <1>1, <1>2, <1>4 DEF Shape, Left, SwitchLeft
<1>6. Head(todo[u]) = "lock"
  BY <1>5
<1>7. Lock(u)
  <2>1. CASE Unlock(u)
    BY <1>6, <2>1 DEF Unlock, At
  <2> QED BY <1>6, <2>1, StepMutex
<1> QED BY <1>3, <1>7, Thread DEF Lock

\* An access of another call touches nothing a clear call touches.
LEMMA ClearApart ==
  ASSUME Ground, NEW t \in Threads, Clear(t), NEW u \in Threads \ {t}, Step(u), NEW s \in Touched(call[t])
  PROVE  s \notin Touched(call[u]) \/ Unlock(u)
PROOF
<1>1. CASE ~Working(u)
  BY <1>1, LastStep
<1>2. CASE Working(u)
  <2>1. ~Conflict(call[t], call[u])
    BY <1>2 DEF Ground, Overlap, Clear
  <2>2. call[t].op # "switch" \/ call[u].op # "switch"
    BY <1>2, OneMoves DEF Clear, Ground
  <2> QED BY <2>1, <2>2, ConflictIs
<1> QED BY <1>1, <1>2

\* So it leaves all of it alone.
LEMMA Undisturbed ==
  ASSUME Ground, NEW t \in Threads, Clear(t), NEW u \in Threads \ {t}, Step(u),
         NEW s \in Touched(call[t]) \cap inUse
  PROVE  /\ Still(s)
         /\ Rows[s].keep \in Moved => sig' = sig /\ input' = input /\ modeOf' = modeOf
PROOF
<1>1. CASE Unlock(u)
  <2>1. /\ sig' = sig /\ input' = input /\ modeOf' = modeOf /\ file' = file /\ panel' = panel
    BY <1>1 DEF Unlock, disk, members
  <2>2. \A q, p : ValueAt(q, p)' = ValueAt(q, p)
    BY <2>1 DEF ValueAt
  <2>3. \A source : MemcStored(source)' = MemcStored(source)
    BY <2>1 DEF MemcStored
  <2>4. \A q : GetPlace(q)' = GetPlace(q) /\ \A m : Place(q, m)' = Place(q, m)
    BY <2>1, <2>3, PlaceSame
  <2> QED BY <2>1, <2>2, <2>4 DEF Still, Stored
<1>2. CASE s \notin Touched(call[u])
  <2>1. Still(s)
    BY <1>2, Elsewhere DEF Ground, Record
  <2>2. ASSUME Rows[s].keep \in Moved PROVE ~Members(u) /\ ~SaveMode(u)
    BY <1>2, <2>2, StepOp, TouchedByMove DEF Ground
  <2> QED BY <2>1, <2>2, StepStill DEF Ground, Record
<1> QED BY <1>1, <1>2, ClearApart

-----------------------------------------------------------------------------
(* What a call that overlaps no other has done by now.                      *)

\* Of a change of picture mode that is kept.
SavedLeft ==
    { <<>>, <<"return">>, <<"hdmiDisplay", "return">>, <<"showRow", "hdmiDisplay", "return">>,
      <<"readRow", "showRow", "hdmiDisplay", "return">>,
      <<"saveMode", "readRow", "showRow", "hdmiDisplay", "return">> }

OfRow == {s \in inUse : Rows[s].keep = "mode"}

\* The mode the call loads is the one kept; it has read its row; the panel shows it.
OnRow(t) == \A s \in OfRow : GetPlace(s) = Place(s, call[t].v)
RowRead(t) == /\ DOMAIN row[t].fields = OfRow
              /\ \A s \in OfRow : row[t].fields[s] = Stored(s)
RowOn == \A s \in RowShown : Follows(s)
TableOn == \A s \in TableShown : Follows(s)
DisplayOn == \A s \in DisplayShown : Follows(s)
StartShown == {s \in inUse : Rows[s].load = "start" /\ Gated(s, flags)}
StartOn == \A s \in StartShown : (s = "Aipq" => Stored(s) = 1) => Follows(s)

\* A setter has read the record as it is kept; its registers show its value; a colour
\* is set with the switch on.
RecordRead(t) == \A r \in Shared(call[t].s) \cap inUse : row[t].fields[r] = Stored(r)
ValueOn(t) ==
  LET s == call[t].s  v == call[t].v IN
  /\ \A r \in Regs(s) : panel[r] = Lev(s, v)
  /\ s = "MemcMode" /\ "MemcDeJudder" \in inUse =>
         panel["MemcDeJudder"] = ValueAt("MemcDeJudder", <<input, "any", v>>)

SetFacts(t) ==
  LET s == call[t].s IN
  /\ todo[t] \in HasRead /\ Whole(s) => RecordRead(t)
  /\ todo[t] \in HasShown /\ Gated(s, flags) /\ s \notin NeverShown => ValueOn(t)
  /\ s \in Colours /\ Head(todo[t]) # "tune" => Stored("ColorTune") = 1
ModeFacts(t) ==
  LET a == Head(todo[t]) IN
  /\ todo[t] \in SavedLeft
  /\ a = "readRow" => OnRow(t)
  /\ a = "showRow" => RowRead(t)
  /\ a \in {"hdmiDisplay", "return"} => RowOn
  /\ a = "return" /\ input \in Hdmi /\ ~RowRefused(row[t].fields) => DisplayOn
SwitchFacts(t) ==
  LET a == Head(todo[t]) IN
  /\ a \in {"mode", "readRow", "showRow", "showTable", "showStart", "return"} => DisplayOn
  /\ a = "readRow" => OnRow(t)
  /\ a = "showRow" => RowRead(t)
  /\ a \in {"showTable", "showStart"} \/ (a = "return" /\ ~call[t].exit) => RowOn
  /\ a = "showStart" \/ (a = "return" /\ ~call[t].exit) => TableOn
  /\ a = "return" /\ t = Main => StartOn
FactsOf(t) ==
  /\ call[t].op = "set" => SetFacts(t)
  /\ call[t].op = "mode" /\ call[t].save => ModeFacts(t)
  /\ call[t].op = "switch" => SwitchFacts(t)
Facts == \A t \in Threads : Working(t) /\ t \notin clash => FactsOf(t)

-----------------------------------------------------------------------------
(* What is left alone stays as it was.                                      *)

\* The settings the row shows are fields of the row.
LEMMA RowShownIs ==
  ASSUME inUse \subseteq AllSettings
  PROVE  RowShown \subseteq OfRow
PROOF BY RowsSound DEF RowShown, OfRow, Sound

\* So does the row of the picture mode.
LEMMA RowStays ==
  ASSUME inUse \subseteq AllSettings, inUse' = inUse, flags' = flags, \A s \in OfRow : Still(s)
  PROVE  /\ RowOn => RowOn'
         /\ \A t : OnRow(t) /\ call'[t].v = call[t].v => OnRow(t)'
         /\ \A t : RowRead(t) /\ row'[t] = row[t] => RowRead(t)'
PROOF
<1>1. OfRow' = OfRow
  BY DEF OfRow
<1>2. RowShown' = RowShown
  <2>1. \A s \in OfRow : Shown(s)' <=> Shown(s)
    BY StillFollows DEF Shown
  <2> QED BY <2>1, RowsSound DEF RowShown, OfRow, Sound
<1>3. RowOn => RowOn'
  BY <1>2, RowShownIs, StillFollows DEF RowOn
<1>4. ASSUME NEW t, OnRow(t), call'[t].v = call[t].v PROVE OnRow(t)'
  BY <1>1, <1>4 DEF OnRow, Still
<1>5. ASSUME NEW t, RowRead(t), row'[t] = row[t] PROVE RowRead(t)'
  BY <1>1, <1>5, StillFollows DEF RowRead
<1> QED BY <1>3, <1>4, <1>5

\* The table.
LEMMA TableStays ==
  ASSUME inUse' = inUse, flags' = flags,
         \A s \in inUse : Rows[s].load = "table" \/ s \in Colours \/ s = "MemcDeJudder" => Still(s), TableOn
  PROVE  TableOn'
PROOF
<1>1. \A s \in inUse : Rows[s].load = "table" => (Shown(s)' <=> Shown(s))
  BY StillFollows DEF Shown
<1>2. TableShown' = TableShown
  BY <1>1, SMTT(30) DEF TableShown
<1>3. \A s \in TableShown : Still(s)
  BY SMTT(30) DEF TableShown
<1> QED BY <1>2, <1>3, StillFollows DEF TableOn

\* The picture position.
LEMMA DisplayStays ==
  ASSUME inUse' = inUse, flags' = flags, "DisplayMode" \in inUse => Still("DisplayMode"), DisplayOn
  PROVE  DisplayOn'
PROOF
<1>1. DisplayShown' = DisplayShown
  BY DEF DisplayShown
<1>2. \A s \in DisplayShown : Still(s)
  BY DEF DisplayShown
<1> QED BY <1>1, <1>2, StillFollows DEF DisplayOn

\* The detectors the constructor starts.
LEMMA StartStays ==
  ASSUME inUse' = inUse, flags' = flags, \A s \in inUse : Rows[s].load = "start" => Still(s), StartOn
  PROVE  StartOn'
PROOF
<1>1. StartShown' = StartShown /\ \A s \in StartShown : Still(s)
  BY DEF StartShown
<1>2. \A s \in StartShown : Stored(s)' = Stored(s) /\ (Follows(s)' <=> Follows(s))
  BY <1>1, StillFollows
<1> QED BY <1>1, <1>2 DEF StartOn

\* A setter's record and registers.
LEMMA SetStays ==
  ASSUME inUse \subseteq AllSettings, inUse' = inUse, flags' = flags, NEW t \in Threads, call[t].op = "set",
         call[t].s \in inUse, call'[t] = call[t], todo'[t] = todo[t], row'[t] = row[t],
         input' = input \/ call[t].s # "MemcMode",
         \A s \in Touched(call[t]) \cap inUse : Still(s), SetFacts(t)
  PROVE  SetFacts(t)'
PROOF
<1> DEFINE s == call[t].s
<1>1. s \in Shared(s) /\ Shared(s) \subseteq Touched(call[t]) /\ Shared(s)' = Shared(s)
  BY SharedIs, TouchedBySet
<1>2. Still(s)
  BY <1>1
<1>3. RecordRead(t) => RecordRead(t)'
  BY <1>1, StillFollows DEF RecordRead
<1>4. ValueOn(t) => ValueOn(t)'
  <2> SUFFICES ASSUME ValueOn(t) PROVE ValueOn(t)'
    OBVIOUS
  <2>1. \A r \in Regs(s) : panel'[r] = Lev(s, call[t].v)
    BY <1>2 DEF ValueOn, Still
  <2>2. Regs(s)' = Regs(s)
    BY <1>2, StillFollows
  <2>3. ASSUME s = "MemcMode", "MemcDeJudder" \in inUse
        PROVE  panel'["MemcDeJudder"] = ValueAt("MemcDeJudder", <<input, "any", call[t].v>>)'
    <3>1. "MemcDeJudder" \in Touched(call[t])
      BY <2>3 DEF Touched
    <3>2. Still("MemcDeJudder") /\ Regs("MemcDeJudder") = {"MemcDeJudder"} /\ input' = input
      BY <2>3, <3>1 DEF Regs
    <3>3. panel'["MemcDeJudder"] = panel["MemcDeJudder"]
      BY <3>2 DEF Still
    <3>4. ValueAt("MemcDeJudder", <<input, "any", call[t].v>>)'
            = ValueAt("MemcDeJudder", <<input, "any", call[t].v>>)
      BY <3>2 DEF Still
    <3> QED BY <2>3, <3>3, <3>4 DEF ValueOn
  <2> QED BY <2>1, <2>2, <2>3 DEF ValueOn, Lev
<1>5. s \in Colours => Stored("ColorTune")' = Stored("ColorTune")
  BY <1>2 DEF Still
<1> QED BY <1>3, <1>4, <1>5 DEF SetFacts

\* The call waits for the mutex or its members, has no panel to show, or finds what
\* it touches as it was.
Found(t) ==
  call[t].op \in {"set", "mode"} \/ (call[t].op = "switch" /\ todo[t] \in Moving) =>
      \A s \in Touched(call[t]) \cap inUse : Still(s) /\ (Rows[s].keep \in Moved => input' = input)

\* Then what it has done stays done.
LEMMA FactsStay ==
  ASSUME Shape, NEW t \in Threads, Working(t), inUse' = inUse, flags' = flags, call'[t] = call[t],
         todo'[t] = todo[t], row'[t] = row[t], Found(t), FactsOf(t)
  PROVE  FactsOf(t)'
PROOF
<1>1. inUse' = inUse /\ flags' = flags /\ inUse \subseteq AllSettings
  BY GroupsKnown
<1>2. call'[t] = call[t] /\ todo'[t] = todo[t] /\ row'[t] = row[t]
  OBVIOUS
<1> DEFINE Ours == call[t].op \in {"set", "mode"} \/ (call[t].op = "switch" /\ todo[t] \in Moving)
<1>3. ASSUME Ours
      PROVE  \A s \in Touched(call[t]) \cap inUse :
                Still(s) /\ (Rows[s].keep \in Moved => input' = input)
  BY <1>3 DEF Found
<1>4. CASE call[t].op = "set"
  <2>1. Ours /\ call[t].s \in inUse
    BY <1>4 DEF Shape
  <2>2. call[t].s = "MemcMode" => input' = input
    BY <1>1, <1>3, <2>1, <1>4, SharedIs, TouchedBySet, Singled DEF Moved
  <2>3. SetFacts(t)
    BY <1>4 DEF FactsOf
  <2>4. SetFacts(t)'
    BY <1>1, <1>2, <1>3, <1>4, <2>1, <2>2, <2>3, SetStays
  <2> QED BY <1>2, <1>4, <2>4 DEF FactsOf
<1>5. ASSUME Ours, call[t].op \in {"mode", "switch"}
      PROVE  /\ \A s \in OfRow : Still(s)
             /\ \A s \in inUse : Rows[s].load # "no" \/ s \in Colours \/ s = "MemcDeJudder" => Still(s)
             /\ "DisplayMode" \in inUse => Still("DisplayMode") /\ input' = input
  <2>1. \A s \in OfRow : Still(s)
    BY <1>3, <1>5, TouchedByMove DEF OfRow, Moved
  <2>2. \A s \in inUse : Rows[s].load # "no" => Still(s)
    BY <1>3, <1>5 DEF Touched
  <2>3. \A s \in Colours : Rows[s].load # "no"
    BY RecordsAre, RowsSound DEF Sound
  <2>4. "MemcDeJudder" \in inUse => Still("MemcDeJudder")
    BY <1>3, <1>5, TouchedByMove, Singled DEF Moved
  <2>5. "DisplayMode" \in inUse => Still("DisplayMode") /\ input' = input
    BY <1>3, <1>5, TouchedByMove, Singled DEF Moved
  <2> QED BY <2>1, <2>2, <2>3, <2>4, <2>5
<1>6. CASE call[t].op = "mode"
  <2>1. Ours
    BY <1>6
  <2>2. ASSUME ModeFacts(t) PROVE ModeFacts(t)'
    <3>1. /\ RowOn => RowOn'
          /\ OnRow(t) => OnRow(t)'
          /\ RowRead(t) => RowRead(t)'
      BY <1>1, <1>2, <1>5, <1>6, <2>1, RowStays
    <3>2. DisplayOn => DisplayOn'
      BY <1>1, <1>5, <1>6, <2>1, DisplayStays
    <3>3. "DisplayMode" \notin inUse => DisplayOn'
      BY <1>1 DEF DisplayOn, DisplayShown
    <3>4. RowRefused(row[t].fields)' <=> RowRefused(row[t].fields)
      BY <1>1, <1>2 DEF RowRefused
    <3>5. "DisplayMode" \in inUse => input' = input
      BY <1>5, <1>6, <2>1
    <3> DEFINE a == Head(todo[t])
    <3>6. a = Head(todo'[t]) /\ todo'[t] \in SavedLeft
      BY <1>2, <2>2 DEF ModeFacts
    <3>7. /\ a = "readRow" => OnRow(t)'
          /\ a = "showRow" => RowRead(t)'
          /\ a \in {"hdmiDisplay", "return"} => RowOn'
      BY <2>2, <3>1 DEF ModeFacts
    <3>8. a = "return" /\ input' \in Hdmi /\ ~RowRefused(row[t].fields)' => DisplayOn'
      BY <2>2, <3>2, <3>3, <3>4, <3>5 DEF ModeFacts
    <3> QED BY <3>6, <3>7, <3>8 DEF ModeFacts
  <2> QED BY <1>2, <1>6, <2>2 DEF FactsOf
<1>7. CASE call[t].op = "switch" /\ todo[t] \in Moving
  <2>1. Ours
    BY <1>7
  <2>2. SwitchFacts(t)
    BY <1>7 DEF FactsOf
  <2>3. /\ RowOn => RowOn'
        /\ OnRow(t) => OnRow(t)'
        /\ RowRead(t) => RowRead(t)'
    BY <1>1, <1>2, <1>5, <1>7, <2>1, RowStays
  <2>4. DisplayOn => DisplayOn'
    BY <1>1, <1>5, <1>7, <2>1, DisplayStays
  <2>5. TableOn => TableOn'
    BY <1>1, <1>5, <1>7, <2>1, TableStays
  <2>6. StartOn => StartOn'
    BY <1>1, <1>5, <1>7, <2>1, StartStays
  <2>7. SwitchFacts(t)'
    <3> DEFINE a == Head(todo[t])  stays == call[t].exit
    <3>1. a = Head(todo'[t]) /\ call'[t].exit = stays
      BY <1>2
    <3>2. /\ a \in {"mode", "readRow", "showRow", "showTable", "showStart", "return"} => DisplayOn'
          /\ a = "readRow" => OnRow(t)'
          /\ a = "showRow" => RowRead(t)'
      BY <2>2, <2>3, <2>4 DEF SwitchFacts
    <3>3. /\ a \in {"showTable", "showStart"} \/ (a = "return" /\ ~stays) => RowOn'
          /\ a = "showStart" \/ (a = "return" /\ ~stays) => TableOn'
          /\ a = "return" /\ t = Main => StartOn'
      BY <2>2, <2>3, <2>5, <2>6 DEF SwitchFacts
    <3> HIDE DEF a, stays
    <3> QED BY <3>1, <3>2, <3>3 DEF SwitchFacts
  <2> QED BY <1>2, <1>7, <2>7 DEF FactsOf
<1>8. CASE call[t].op = "switch" /\ todo[t] \notin Moving
  <2>1. todo[t] \in {<<"lock", "members">>, <<"members">>}
    BY <1>8 DEF Shape, Left, SwitchLeft, Working, Moving
  <2>2. Head(todo'[t]) \in {"lock", "members"}
    BY <1>2, <2>1
  <2>3. SwitchFacts(t)'
    BY <2>2 DEF SwitchFacts
  <2> QED BY <1>2, <1>8, <2>3 DEF FactsOf
<1>9. CASE call[t].op \notin {"set", "mode", "switch"}
  BY <1>2, <1>9 DEF FactsOf
<1> QED BY <1>4, <1>6, <1>7, <1>8, <1>9

\* What a clear call has done stays done when another call makes an access.
LEMMA FactsOther ==
  ASSUME Ground, NEW t \in Threads, Working(t), t \notin clash, NEW u \in Threads \ {t}, Step(u), FactsOf(t)
  PROVE  FactsOf(t)'
PROOF
<1>1. inUse' = inUse /\ flags' = flags
  BY StepCalls DEF Ground
<1>2. call'[t] = call[t] /\ todo'[t] = todo[t] /\ row'[t] = row[t]
  BY StepCalls, StepStill DEF Ground, Record
<1>3. Found(t)
  BY Undisturbed DEF Found, Clear
<1> QED BY <1>1, <1>2, <1>3, FactsStay DEF Ground

-----------------------------------------------------------------------------
(* The order of the accesses of a change of mode, and of source.            *)

\* Of a change of mode that is kept.
ModeGoes(q) ==
  LET a == Head(q)  p == Tail(q) IN
  /\ p \in SavedLeft
  /\ a = "saveMode" => Head(p) = "readRow"
  /\ a = "readRow" => Head(p) = "showRow"
  /\ a = "showRow" => Head(p) = "hdmiDisplay"
  /\ a = "hdmiDisplay" => Head(p) = "return"
  /\ a \in {"saveMode", "readRow", "showRow", "hdmiDisplay", "return"}

\* Each access of it.
LEMMA ModeGoing == \A q \in SavedLeft \ {<<>>} : ModeGoes(q)
PROOF
<1>1. ModeGoes(<<"return">>)
  BY DEF ModeGoes, SavedLeft
<1>2. ModeGoes(<<"hdmiDisplay", "return">>)
  BY DEF ModeGoes, SavedLeft
<1>3. ModeGoes(<<"showRow", "hdmiDisplay", "return">>)
  BY DEF ModeGoes, SavedLeft
<1>4. ModeGoes(<<"readRow", "showRow", "hdmiDisplay", "return">>)
  BY DEF ModeGoes, SavedLeft
<1>5. ModeGoes(<<"saveMode", "readRow", "showRow", "hdmiDisplay", "return">>)
  BY DEF ModeGoes, SavedLeft
<1> QED BY <1>1, <1>2, <1>3, <1>4, <1>5 DEF SavedLeft

\* Of a change of source that has its members, or the constructor's load.
MoveGoes(q) ==
  LET a == Head(q)  p == Tail(q) IN
  /\ a = "display" => \/ Head(p) = "mode"
                      \/ Head(p) = "return" /\ q = <<"display", "return", "unlock">>
  /\ a = "mode" => Head(p) = "readRow"
  /\ a = "readRow" => Head(p) = "showRow"
  /\ a = "showRow" => Head(p) = "showTable"
  /\ a = "showTable" => Head(p) = IF q \in BootLeft THEN "showStart" ELSE "return"
  /\ a = "showStart" => Head(p) = "return"
  /\ a \in {"display", "mode", "readRow", "showRow", "showTable", "showStart", "return"}

\* Each access of a change of source.
LEMMA MoveInside == \A q \in Inside \ {<<"members">>, <<"unlock">>} : MoveGoes(q)
PROOF
<1>1. MoveGoes(<<"return", "unlock">>)
  BY DEF MoveGoes
<1>2. MoveGoes(<<"showTable", "return", "unlock">>)
  BY BootApart DEF MoveGoes, Inside
<1>3. MoveGoes(<<"showRow", "showTable", "return", "unlock">>)
  BY DEF MoveGoes
<1>4. MoveGoes(<<"readRow", "showRow", "showTable", "return", "unlock">>)
  BY DEF MoveGoes
<1>5. MoveGoes(<<"mode", "readRow", "showRow", "showTable", "return", "unlock">>)
  BY DEF MoveGoes
<1>6. MoveGoes(<<"display", "return", "unlock">>)
  BY DEF MoveGoes
<1>7. MoveGoes(<<"display", "mode", "readRow", "showRow", "showTable", "return", "unlock">>)
  BY DEF MoveGoes
<1> QED BY <1>1, <1>2, <1>3, <1>4, <1>5, <1>6, <1>7 DEF Inside

\* Each access of the constructor's load.
LEMMA MoveBoot == \A q \in BootLeft : MoveGoes(q)
PROOF
<1>1. MoveGoes(<<"return">>)
  BY DEF MoveGoes
<1>2. MoveGoes(<<"showStart", "return">>)
  BY DEF MoveGoes
<1>3. MoveGoes(<<"showTable", "showStart", "return">>)
  BY DEF MoveGoes, BootLeft
<1>4. MoveGoes(<<"showRow", "showTable", "showStart", "return">>)
  BY DEF MoveGoes
<1>5. MoveGoes(<<"readRow", "showRow", "showTable", "showStart", "return">>)
  BY DEF MoveGoes
<1>6. MoveGoes(<<"mode", "readRow", "showRow", "showTable", "showStart", "return">>)
  BY DEF MoveGoes
<1>7. MoveGoes(<<"display", "mode", "readRow", "showRow", "showTable", "showStart", "return">>)
  BY DEF MoveGoes
<1> QED BY <1>1, <1>2, <1>3, <1>4, <1>5, <1>6, <1>7 DEF BootLeft

\* A change of source starts with the picture position, if there is one to show.
MembersGoes(q, leaves) ==
  \/ q = <<"unlock">>
  \/ q \in Moving /\ Head(q) = "display"
  \/ q \in Moving /\ DisplayProgram = <<>> /\ (Head(q) = "mode" \/ (Head(q) = "return" /\ leaves))

\* What the members are followed by.
LEMMA MembersGoing ==
  ASSUME NEW same \in BOOLEAN, NEW leaves \in BOOLEAN
  PROVE  MembersGoes((IF same THEN <<>>
                      ELSE DisplayProgram \o (IF leaves THEN <<>> ELSE LoadProgram) \o <<"return">>)
                         \o <<"unlock">>, leaves)
PROOF
<1> DEFINE short == <<"return", "unlock">>  shows == <<"display", "return", "unlock">>
           loads == <<"mode", "readRow", "showRow", "showTable", "return", "unlock">>
           all == <<"display", "mode", "readRow", "showRow", "showTable", "return", "unlock">>
           q == (IF same THEN <<>>
                 ELSE DisplayProgram \o (IF leaves THEN <<>> ELSE LoadProgram) \o <<"return">>) \o <<"unlock">>
<1> SUFFICES MembersGoes(q, leaves)
  OBVIOUS
<1>1. short \in Moving /\ shows \in Moving /\ loads \in Moving /\ all \in Moving
  BY DEF Moving, Inside
<1>2. Head(short) = "return" /\ Head(shows) = "display" /\ Head(loads) = "mode" /\ Head(all) = "display"
  OBVIOUS
<1>3. CASE same
  BY <1>3, MembersConcats DEF MembersGoes
<1>4. CASE ~same /\ DisplayProgram = <<>>
  <2>1. q = IF leaves THEN short ELSE loads
    BY <1>4, MembersConcats
  <2> HIDE DEF q, short, loads
  <2> QED BY <1>1, <1>2, <1>4, <2>1 DEF MembersGoes
<1>5. CASE ~same /\ DisplayProgram = <<"display">>
  <2>1. q = IF leaves THEN shows ELSE all
    BY <1>5, MembersConcats
  <2> HIDE DEF q, shows, all
  <2> QED BY <1>1, <1>2, <2>1 DEF MembersGoes
<1> QED BY <1>3, <1>4, <1>5 DEF DisplayProgram

\* So does the constructor's load.
LEMMA BootGoing ==
  \/ Head(BootProgram) = "display"
  \/ Head(BootProgram) = "mode" /\ DisplayProgram = <<>>
PROOF
<1>1. CASE DisplayProgram = <<>>
  <2>1. BootProgram = (<<>> \o LoadProgram) \o <<"showStart", "return">>
    BY <1>1 DEF BootProgram
  <2>2. BootProgram = <<"mode", "readRow", "showRow", "showTable", "showStart", "return">>
    BY <2>1, BootConcats, LoadConcats
  <2> QED BY <1>1, <2>2
<1>2. CASE DisplayProgram = <<"display">>
  <2>1. BootProgram = (<<"display">> \o LoadProgram) \o <<"showStart", "return">>
    BY <1>2 DEF BootProgram
  <2>2. BootProgram = <<"display", "mode", "readRow", "showRow", "showTable", "showStart", "return">>
    BY <2>1, BootConcats
  <2> QED BY <2>2
<1> QED BY <1>1, <1>2 DEF DisplayProgram

\* Without it no picture position is shown.
LEMMA NoDisplay ==
  ASSUME DisplayProgram = <<>>
  PROVE  DisplayShown = {}
PROOF BY DEF DisplayProgram, DisplayShown

-----------------------------------------------------------------------------
(* What the accesses that load the panel show, and what they leave alone.   *)

Disk == file' = file /\ modeOf' = modeOf /\ sig' = sig /\ input' = input

\* Most accesses neither write the file nor set the members.
LEMMA DiskLeft ==
  ASSUME NEW u \in Threads,
         \/ Show(u) \/ Read(u) \/ Tune(u) \/ LoadMode(u) \/ ReadRow(u) \/ ShowRow(u)
         \/ ShowTable(u) \/ ShowStart(u) \/ Lock(u) \/ Unlock(u) \/ Return(u)
  PROVE  Disk
PROOF
<1>1. CASE Show(u) \/ Read(u) \/ Tune(u)
  BY <1>1 DEF Show, Read, Tune, disk, members, Disk
<1>2. CASE LoadMode(u) \/ ReadRow(u) \/ ShowRow(u)
  BY <1>2 DEF LoadMode, ReadRow, ShowRow, disk, members, Disk
<1>3. CASE ShowTable(u) \/ ShowStart(u) \/ Lock(u)
  BY <1>3 DEF ShowTable, ShowStart, Lock, disk, members, Disk
<1>4. CASE Unlock(u) \/ Return(u)
  BY <1>4 DEF Unlock, Return, disk, members, Disk
<1> QED BY <1>1, <1>2, <1>3, <1>4, SMTT(30)

\* Then what the getters answer stays.
LEMMA DiskStored ==
  ASSUME Disk
  PROVE  /\ \A s : Stored(s)' = Stored(s) /\ GetPlace(s)' = GetPlace(s)
         /\ \A s, m : Place(s, m)' = Place(s, m)
         /\ \A s, p : ValueAt(s, p)' = ValueAt(s, p)
PROOF
<1>1. \A source : MemcStored(source)' = MemcStored(source)
  BY DEF Disk, MemcStored
<1>2. \A s : GetPlace(s)' = GetPlace(s) /\ \A m : Place(s, m)' = Place(s, m)
  BY <1>1, PlaceSame DEF Disk
<1>3. \A s, p : ValueAt(s, p)' = ValueAt(s, p)
  BY DEF Disk, ValueAt
<1> QED BY <1>2, <1>3 DEF Stored

\* A setting whose registers are not written is left alone.
LEMMA DiskStill ==
  ASSUME Disk, NEW s, \A r \in Regs(s) : panel'[r] = panel[r]
  PROVE  Still(s)
PROOF BY DiskStored DEF Still

\* What the panel is to show for a setting that is no colour.
LEMMA AimIs ==
  ASSUME NEW s \in AllSettings
  PROVE  /\ Rows[s].keep \notin {"cms", "lut"} => Aim(s) = Stored(s)
         /\ s \in Colours => Aim(s) = IF Stored("ColorTune") = 1 THEN Stored(s) ELSE 0
         /\ s # "MpegNr" => Regs(s) = {s}
         /\ s \in inUse => Regs(s) \subseteq inUse
PROOF
<1>1. Rows[s].keep = "cms" <=> s \in Colours
  BY RecordsAre
<1>2. Rows[s].keep # "lut" => Lev(s, Stored(s)) = Stored(s)
  BY DEF Lev
<1>3. s \in Colours => Rows[s].keep # "lut"
  BY <1>1
<1> QED BY <1>1, <1>2, <1>3 DEF Aim, Regs

\* The load of the row shows the settings it is to show.
LEMMA RowLoaded ==
  ASSUME Shape, NEW t \in Threads, ShowRow(t), RowRead(t)
  PROVE  RowOn'
PROOF
<1> DEFINE w == RowLevels(row[t].fields)
<1>0. inUse \subseteq AllSettings /\ inUse' = inUse /\ flags' = flags /\ Disk
  BY GroupsKnown, DiskLeft DEF ShowRow, fixed
<1>1. RowShown' = RowShown /\ RowShown \subseteq OfRow
  BY <1>0, DiskStored, RowShownIs DEF RowShown, Shown
<1>2. panel' = [r \in inUse |-> IF r \in DOMAIN w THEN w[r] ELSE panel[r]]
  BY DEF ShowRow
<1>3. ASSUME NEW s \in RowShown
      PROVE  \A r \in Regs(s) : r \in inUse /\ r \in DOMAIN w /\ w[r] = Stored(s)
  <2>1. /\ s \in inUse /\ s \in DOMAIN row[t].fields /\ row[t].fields[s] = Stored(s)
        /\ Rows[s].load = "row" /\ Gated(s, flags) /\ ~Refused(s, row[t].fields[s], flags)
    BY <1>1, <1>3 DEF RowShown, RowRead, Shown
  <2>2. CASE s = "MpegNr"
    <3>1. \A r \in Regs(s) : r \in inUse /\ r \in {"Deblock", "DemoSquito"} /\ Gated(r, flags)
      BY <2>2 DEF Regs
    <3> QED BY <2>1, <2>2, <3>1 DEF RowLevels
  <2>3. CASE s # "MpegNr"
    <3>1. s \notin {"Deblock", "DemoSquito"}
      BY <2>1, Singled
    <3>2. Regs(s) = {s}
      BY <2>3 DEF Regs
    <3> QED BY <2>1, <3>1, <3>2 DEF RowLevels
  <2> QED BY <2>2, <2>3
<1>4. ASSUME NEW s \in RowShown PROVE Follows(s)'
  <2>1. s \in OfRow /\ s \in AllSettings /\ Rows[s].keep = "mode"
    BY <1>0, <1>1, <1>4 DEF OfRow
  <2>2. Aim(s) = Stored(s)
    BY <2>1, AimIs
  <2>3. \A r \in Regs(s) : panel'[r] = Aim(s)
    <3> HIDE DEF w
    <3> QED BY <1>2, <1>3, <1>4, <2>2
  <2>4. Regs(s)' = Regs(s) /\ Aim(s)' = Aim(s)
    BY <1>0, DiskStored DEF Regs, Aim, Lev
  <2> QED BY <2>3, <2>4 DEF Follows
<1> QED BY <1>1, <1>4 DEF RowOn

\* It writes registers of fields of the row only.
LEMMA RowLeaves ==
  ASSUME Shape, NEW t \in Threads, ShowRow(t), NEW s \in inUse, s \notin OfMode
  PROVE  Still(s)
PROOF
<1> DEFINE w == RowLevels(row[t].fields)
<1>1. s \in AllSettings /\ Rows[s].keep # "mode" /\ s \notin {"Deblock", "DemoSquito"}
  BY GroupsKnown DEF OfMode
<1>2. Rows[s].load # "row" /\ s # "MpegNr"
  BY <1>1, RowsSound, Singled DEF Sound
<1>3. s \notin DOMAIN w
  BY <1>1, <1>2 DEF RowLevels
<1>4. panel' = [r \in inUse |-> IF r \in DOMAIN w THEN w[r] ELSE panel[r]]
  BY DEF ShowRow
<1>5. \A r \in Regs(s) : panel'[r] = panel[r]
  <2> HIDE DEF w
  <2> QED BY <1>2, <1>3, <1>4 DEF Regs
<1> QED BY <1>5, DiskLeft, DiskStill

\* The load of the table shows the settings it is to show, and the picture position.
LEMMA TableLoaded ==
  ASSUME Shape, NEW t \in Threads, ShowTable(t)
  PROVE  TableOn' /\ DisplayOn'
PROOF
<1> DEFINE w == TableLevels
<1>0. inUse \subseteq AllSettings /\ inUse' = inUse /\ flags' = flags /\ Disk
  BY GroupsKnown, DiskLeft DEF ShowTable, fixed
<1>1. TableShown' = TableShown /\ DisplayShown' = DisplayShown
  <2>1. DisplayShown' = DisplayShown
    BY <1>0 DEF DisplayShown
  <2>2. \A s \in inUse : Shown(s)' <=> Shown(s)
    BY <1>0, DiskStored DEF Shown
  <2> QED BY <1>0, <2>1, <2>2, SMTT(30) DEF TableShown
<1>2. panel' = [r \in inUse |-> IF r \in DOMAIN w THEN w[r] ELSE panel[r]]
  BY DEF ShowTable
<1>3. ASSUME NEW s \in TableShown \cup DisplayShown
      PROVE  s \in inUse /\ s # "MpegNr" /\ s \in DOMAIN w /\ w[s] = Aim(s)
  <2>1. s \in inUse /\ s \in AllSettings
    BY <1>0, <1>3 DEF TableShown, DisplayShown
  <2>2. CASE s \in Colours
    <3>1. /\ Rows[s].load = "colours" /\ s \notin {"MemcDeJudder", "DisplayMode", "MpegNr"}
      BY <2>1, <2>2, RecordsAre, RowsSound DEF Sound, Colours
    <3>2. s \in DOMAIN w /\ w[s] = ColoursShown(Stored("ColorTune"))[s]
      BY <2>1, <2>2, <3>1 DEF TableLevels, DisplayShown
    <3>3. w[s] = IF Stored("ColorTune") = 1 THEN Stored(s) ELSE 0
      <4> HIDE DEF w
      <4> QED BY <2>2, <3>2 DEF ColoursShown
    <3>4. w[s] = Aim(s)
      <4> HIDE DEF w
      <4> QED BY <2>1, <2>2, <3>3, AimIs
    <3> QED BY <2>1, <3>1, <3>2, <3>4
  <2>3. CASE s \notin Colours
    <3>1. \/ Rows[s].load = "table" /\ Shown(s)
          \/ s = "MemcDeJudder" /\ "memc" \in flags
          \/ s = "DisplayMode" /\ s \in DisplayShown
      BY <1>3, <2>3, SMTT(30) DEF TableShown, DisplayShown
    <3>2. s \in DOMAIN w /\ w[s] = Stored(s)
      <4>1. CASE s = "DisplayMode"
        <5>1. Shown(s) => s \in DisplayShown
          BY <2>1, <4>1 DEF Shown, DisplayShown
        <5>2. s \in DisplayShown
          BY <3>1, <4>1, <5>1
        <5> QED BY <5>2 DEF TableLevels
      <4>2. CASE s = "MemcDeJudder" /\ "memc" \in flags
        BY <2>1, <4>2 DEF TableLevels
      <4>3. CASE s # "DisplayMode" /\ Rows[s].load = "table" /\ Shown(s)
        BY <2>1, <4>3 DEF TableLevels, Shown
      <4> QED BY <3>1, <4>1, <4>2, <4>3
    <3>3. Rows[s].keep \notin {"cms", "lut"} /\ s # "MpegNr"
      BY <2>1, <3>1, Singled, RowsSound DEF Sound
    <3>4. Aim(s) = Stored(s)
      BY <2>1, <3>3, AimIs
    <3> QED BY <2>1, <3>2, <3>3, <3>4
  <2> QED BY <2>2, <2>3
<1>4. ASSUME NEW s \in TableShown \cup DisplayShown PROVE Follows(s)'
  <2>1. panel'[s] = Aim(s) /\ Regs(s) = {s}
    <3> HIDE DEF w
    <3> QED BY <1>2, <1>3, <1>4 DEF Regs
  <2>2. Regs(s)' = Regs(s) /\ Aim(s)' = Aim(s)
    BY <1>0, DiskStored DEF Regs, Aim, Lev
  <2> QED BY <2>1, <2>2 DEF Follows
<1> QED BY <1>1, <1>4 DEF TableOn, DisplayOn

\* It leaves the fields of the row alone.
LEMMA TableLeaves ==
  ASSUME Shape, NEW t \in Threads, ShowTable(t), NEW s \in inUse,
         Rows[s].load \notin {"table", "off"}, s \notin Colours, s # "MemcDeJudder"
  PROVE  Still(s)
PROOF
<1> DEFINE w == TableLevels
<1>1. \A r \in Regs(s) : /\ Rows[r].load \notin {"table", "off"}
                         /\ r \notin Colours /\ r \notin {"MemcDeJudder", "DisplayMode"}
  <2>1. CASE s = "MpegNr"
    BY <2>1, Singled DEF Regs, Colours
  <2>2. CASE s # "MpegNr"
    BY <2>2, Singled DEF Regs
  <2> QED BY <2>1, <2>2
<1>2. \A r \in Regs(s) : r \notin DOMAIN w
  BY <1>1 DEF TableLevels, DisplayShown
<1>3. panel' = [r \in inUse |-> IF r \in DOMAIN w THEN w[r] ELSE panel[r]]
  BY DEF ShowTable
<1>4. Regs(s) \subseteq inUse
  BY DEF Regs
<1>5. \A r \in Regs(s) : panel'[r] = panel[r]
  <2> HIDE DEF w
  <2> QED BY <1>2, <1>3, <1>4
<1> QED BY <1>5, DiskLeft, DiskStill

\* The constructor starts the detectors it is to start, and no more.
LEMMA StartLoaded ==
  ASSUME Shape, NEW t \in Threads, ShowStart(t)
  PROVE  /\ StartOn'
         /\ \A s \in inUse : Rows[s].load # "start" => Still(s)
PROOF
<1> DEFINE start == {s \in inUse : Rows[s].load = "start" /\ Gated(s, flags) /\ (s = "Aipq" => Stored(s) = 1)}
<1>0. inUse \subseteq AllSettings /\ inUse' = inUse /\ flags' = flags /\ Disk
  BY GroupsKnown, DiskLeft DEF ShowStart, fixed
<1>1. panel' = [r \in inUse |-> IF r \in start THEN Stored(r) ELSE panel[r]]
  BY DEF ShowStart
<1>2. ASSUME NEW s \in StartShown, s = "Aipq" => Stored(s) = 1 PROVE Follows(s)'
  <2>1. s \in start /\ s \in inUse /\ s \in AllSettings /\ Rows[s].keep = "global"
    BY <1>0, <1>2, RowsSound DEF StartShown, Sound
  <2>2. panel'[s] = Stored(s)
    BY <1>1, <2>1
  <2>3. Regs(s) = {s} /\ Aim(s) = Stored(s)
    BY <2>1, AimIs, Singled
  <2>4. Regs(s)' = Regs(s) /\ Aim(s)' = Aim(s)
    BY <1>0, DiskStored DEF Regs, Aim, Lev
  <2> QED BY <2>2, <2>3, <2>4 DEF Follows
<1>3. ASSUME NEW s \in inUse, Rows[s].load # "start" PROVE Still(s)
  <2>1. \A r \in Regs(s) : r \in inUse /\ Rows[r].load # "start"
    BY <1>3, Singled DEF Regs
  <2>2. \A r \in Regs(s) : panel'[r] = panel[r]
    BY <1>1, <2>1
  <2> QED BY <1>0, <2>2, DiskStill
<1>4. StartShown' = StartShown
  BY <1>0 DEF StartShown
<1>5. StartOn'
  BY <1>0, <1>2, <1>4, DiskStored DEF StartOn
<1> QED BY <1>3, <1>5

\* The picture position is shown as it is kept, and nothing else is.
LEMMA DisplayLoaded ==
  ASSUME NEW t \in Threads, Display(t)
  PROVE  /\ inUse' = inUse /\ flags' = flags
         /\ \A s \in inUse : s # "DisplayMode" => Still(s)
         /\ DisplayOn => DisplayOn'
         /\ At(t, "display") \/ input \in Hdmi => DisplayOn'
PROOF
<1>0. /\ inUse' = inUse /\ flags' = flags /\ sig' = sig /\ input' = input /\ modeOf' = modeOf
  BY DEF Display, fixed, members
<1>1. /\ \A s, p : ValueAt(s, p)' = ValueAt(s, p)
      /\ \A s : GetPlace(s)' = GetPlace(s) /\ \A m : Place(s, m)' = Place(s, m)
      /\ \A s : Stored(s)' = Stored(s)
  <2>1. \A s, p : ValueAt(s, p)' = ValueAt(s, p)
    BY DisplayKeeps
  <2>2. \A s : GetPlace(s)' = GetPlace(s) /\ \A m : Place(s, m)' = Place(s, m)
    BY <1>0, DisplayKeeps, PlaceSame
  <2> QED BY <2>1, <2>2 DEF Stored
<1>2. \/ panel' = panel /\ ~At(t, "display") /\ (input \notin Hdmi \/ DisplayProgram = <<>>)
      \/ panel' = [r \in inUse |-> IF r = "DisplayMode" THEN Stored(r) ELSE panel[r]]
  <2>1. At(t, "display") => ~At(t, "hdmiDisplay")
    BY DEF At
  <2>2. At(t, "display") \/ At(t, "hdmiDisplay")
    BY DEF Display
  <2> QED BY <2>1, <2>2 DEF Display
<1>3. \A s : \A r \in Regs(s) : s # "DisplayMode" => r # "DisplayMode"
  BY DEF Regs
<1>4. ASSUME NEW s \in inUse, s # "DisplayMode" PROVE Still(s)
  <2>1. \A r \in Regs(s) : panel'[r] = panel[r]
    <3>1. Regs(s) \subseteq inUse
      BY DEF Regs
    <3> QED BY <1>2, <1>3, <1>4, <3>1
  <2> QED BY <1>1, <2>1 DEF Still
<1>5. DisplayShown' = DisplayShown /\ DisplayShown \subseteq inUse \cap {"DisplayMode"}
  BY <1>0 DEF DisplayShown
<1>6. ASSUME NEW s \in DisplayShown
      PROVE  Regs(s) = {s} /\ Aim(s) = Stored(s) /\ Aim(s)' = Aim(s) /\ Regs(s)' = {s}
  <2>1. s = "DisplayMode" /\ s \in AllSettings /\ Rows[s].keep = "source"
    BY <1>5, <1>6, Singled, Known
  <2>2. Regs(s) = {s} /\ Aim(s) = Stored(s)
    BY <2>1, AimIs
  <2> QED BY <1>0, <1>1, <2>1, <2>2 DEF Aim, Lev, Regs
<1>7. CASE panel' = [r \in inUse |-> IF r = "DisplayMode" THEN Stored(r) ELSE panel[r]]
  <2>1. \A s \in DisplayShown : panel'[s] = Stored(s)
    BY <1>5, <1>7
  <2>2. DisplayOn'
    BY <1>5, <1>6, <2>1 DEF DisplayOn, Follows
  <2> QED BY <1>0, <1>4, <2>2
<1>8. CASE panel' = panel /\ ~At(t, "display") /\ (input \notin Hdmi \/ DisplayProgram = <<>>)
  <2>1. DisplayOn => DisplayOn'
    BY <1>5, <1>6, <1>8 DEF DisplayOn, Follows
  <2>2. DisplayProgram = <<>> => DisplayOn
    BY NoDisplay DEF DisplayOn
  <2> QED BY <1>0, <1>4, <1>8, <2>1, <2>2
<1> QED BY <1>2, <1>7, <1>8

-----------------------------------------------------------------------------
(* What a setter has done, by its own accesses.                             *)

\* The registers the hardware step of a setting writes, as far as its flag is on.
LEMMA ReachedIs ==
  ASSUME NEW s \in AllSettings, Gated(s, flags), s \notin NeverShown, NEW v
  PROVE  LET w == Reached(s, v) IN
         /\ \A r \in Regs(s) : r \in DOMAIN w /\ w[r] = Lev(s, v)
         /\ s = "MemcMode" => /\ "MemcDeJudder" \in DOMAIN w
                              /\ w["MemcDeJudder"] = ValueAt("MemcDeJudder", <<input, "any", v>>)
PROOF
<1> DEFINE w == Reached(s, v)
<1> SUFFICES /\ \A r \in Regs(s) : r \in DOMAIN w /\ w[r] = Lev(s, v)
             /\ s = "MemcMode" => /\ "MemcDeJudder" \in DOMAIN w
                                  /\ w["MemcDeJudder"] = ValueAt("MemcDeJudder", <<input, "any", v>>)
  OBVIOUS
<1>1. \A r : r \in DOMAIN w <=> r \in DOMAIN Shows(s, v) /\ Gated(r, flags)
  BY DEF Reached
<1>2. \A r \in DOMAIN w : w[r] = Shows(s, v)[r]
  BY DEF Reached
<1> HIDE DEF w
<1>3. CASE s = "Saturation"
  <2>1. s \in DOMAIN Shows(s, v) /\ Shows(s, v)[s] = v /\ Lev(s, v) = v /\ Regs(s) = {s}
    BY <1>3, NotLut DEF Shows, Lev, Regs
  <2> QED BY <1>1, <1>2, <1>3, <2>1
<1>4. CASE s = "Hue"
  <2>1. s \in DOMAIN Shows(s, v) /\ Shows(s, v)[s] = v /\ Lev(s, v) = v /\ Regs(s) = {s}
    BY <1>4, NotLut DEF Shows, Lev, Regs
  <2> QED BY <1>1, <1>2, <1>4, <2>1
<1>5. CASE s = "MpegNr"
  <2>1. \A r \in Regs(s) : r \in {"Deblock", "DemoSquito"} /\ Gated(r, flags)
    BY <1>5 DEF Regs
  <2>2. \A r \in {"Deblock", "DemoSquito"} : r \in DOMAIN Shows(s, v) /\ Shows(s, v)[r] = v
    BY <1>5, NotLut DEF Shows
  <2>3. Lev(s, v) = v
    BY <1>5, NotLut DEF Lev
  <2> QED BY <1>1, <1>2, <1>5, <2>1, <2>2, <2>3
<1>6. CASE s = "MemcMode"
  <2>1. /\ s \in DOMAIN Shows(s, v) /\ Shows(s, v)[s] = v /\ Lev(s, v) = v /\ Regs(s) = {s}
        /\ "MemcDeJudder" \in DOMAIN Shows(s, v)
        /\ Shows(s, v)["MemcDeJudder"] = ValueAt("MemcDeJudder", <<input, "any", v>>)
    BY <1>6, NotLut DEF Shows, Lev, Regs
  <2>2. Gated("MemcDeJudder", flags)
    BY <1>6, GatesAre
  <2> QED BY <1>1, <1>2, <1>6, <2>1, <2>2
<1>7. CASE Rows[s].keep = "lut"
  <2>1. s \notin {"Saturation", "Hue", "MpegNr", "MemcMode", "MemcDeBlur"}
    BY <1>7, NotLut
  <2>2. s \in DOMAIN Shows(s, v) /\ Shows(s, v)[s] = LutGain(v)
    BY <1>7, <2>1, SharedIs DEF Shows
  <2>3. Lev(s, v) = LutGain(v) /\ Regs(s) = {s}
    BY <1>7, <2>1 DEF Lev, Regs
  <2> QED BY <1>1, <1>2, <2>1, <2>2, <2>3
<1>8. CASE Rows[s].keep # "lut" /\ s \notin {"Saturation", "Hue", "MpegNr", "MemcMode", "MemcDeBlur"}
  <2>1. s \in DOMAIN Shows(s, v) /\ Shows(s, v)[s] = v
    BY <1>8 DEF Shows
  <2>2. Lev(s, v) = v /\ Regs(s) = {s}
    BY <1>8 DEF Lev, Regs
  <2> QED BY <1>1, <1>2, <1>8, <2>1, <2>2
<1> QED BY <1>3, <1>4, <1>5, <1>6, <1>7, <1>8 DEF NeverShown

\* The levels the hardware step of a call writes.
ShowLevels(t) ==
  LET s == call[t].s  v == call[t].v IN
  IF Rows[s].keep = "lcd" THEN [row[t].fields EXCEPT ![s] = v] ELSE Reached(s, v)

\* A hardware step that goes on writes them.
LEMMA ShowWrites ==
  ASSUME Ground, NEW t \in Threads, Show(t), todo'[t] # <<>>
  PROVE  /\ panel' = [r \in inUse |-> IF r \in DOMAIN ShowLevels(t) THEN ShowLevels(t)[r] ELSE panel[r]]
         /\ todo'[t] = Tail(todo[t]) /\ settled' = settled /\ clash' = clash
         /\ ~Refused(call[t].s, call[t].v, flags)
         /\ Rows[call[t].s].keep = "lcd" =>
               /\ todo[t] \in HasRead /\ Whole(call[t].s)
               /\ DOMAIN row[t].fields = Shared(call[t].s) \cap inUse
PROOF
<1>1. ~Refused(call[t].s, call[t].v, flags)
  BY DEF Show, Then, Ground, Shape
<1>2. /\ panel' = [r \in inUse |-> IF r \in DOMAIN ShowLevels(t) THEN ShowLevels(t)[r] ELSE panel[r]]
      /\ On(t) /\ UNCHANGED history
  BY <1>1 DEF Show, ShowLevels
<1>3. todo'[t] = Tail(todo[t]) /\ settled' = settled /\ clash' = clash
  BY <1>2 DEF On, Then, Ground, Shape, history
<1>4. /\ call[t].op = "set" /\ call[t].s \in AllSettings
      /\ KindGoes(call[t].s, todo[t]) /\ Head(todo[t]) = "show"
  BY SetAccess DEF Show, Ground
<1>5. Rows[call[t].s].keep = "lcd" => todo[t] \in HasRead /\ Whole(call[t].s)
  BY <1>4, LcdWhole DEF KindGoes
<1>6. Rows[call[t].s].keep = "lcd" => DOMAIN row[t].fields = Shared(call[t].s) \cap inUse
  BY <1>4, <1>5 DEF Ground, Record, RowKept
<1> QED BY <1>1, <1>2, <1>3, <1>5, <1>6

\* So the registers of its setting show its value.
LEMMA ShownValue ==
  ASSUME Ground, NEW t \in Threads, Show(t), todo'[t] # <<>>,
         Gated(call[t].s, flags), call[t].s \notin NeverShown
  PROVE  ValueOn(t)'
PROOF
<1> DEFINE s == call[t].s  v == call[t].v  w == ShowLevels(t)
<1>1. call[t].op = "set" /\ s \in AllSettings /\ s \in inUse
  BY SetAccess DEF Show, Ground
<1>2. panel' = [r \in inUse |-> IF r \in DOMAIN w THEN w[r] ELSE panel[r]]
  BY ShowWrites
<1>3. Regs(s) \subseteq inUse
  BY <1>1, AimIs
<1>4. \A r \in Regs(s) : r \in DOMAIN w /\ w[r] = Lev(s, v)
  <2>1. CASE Rows[s].keep = "lcd"
    <3>1. s \in DOMAIN row[t].fields
      BY <1>1, <2>1, ShowWrites, SharedIs
    <3>2. Regs(s) = {s} /\ Lev(s, v) = v
      BY <1>1, <2>1, Singled DEF Regs, Lev
    <3>3. s \in DOMAIN w /\ w[s] = v
      BY <2>1, <3>1 DEF ShowLevels
    <3> QED BY <3>2, <3>3
  <2>2. CASE Rows[s].keep # "lcd"
    <3>1. w = Reached(s, v)
      BY <2>2 DEF ShowLevels
    <3> HIDE DEF w
    <3> QED BY <1>1, <3>1, ReachedIs
  <2> QED BY <2>1, <2>2
<1>5. s = "MemcMode" => /\ "MemcDeJudder" \in DOMAIN w
                        /\ w["MemcDeJudder"] = ValueAt("MemcDeJudder", <<input, "any", v>>)
  <2> SUFFICES ASSUME s = "MemcMode"
               PROVE  /\ "MemcDeJudder" \in DOMAIN w
                      /\ w["MemcDeJudder"] = ValueAt("MemcDeJudder", <<input, "any", v>>)
    OBVIOUS
  <2>1. w = Reached(s, v)
    BY Singled DEF ShowLevels
  <2> HIDE DEF w
  <2> QED BY <1>1, <2>1, ReachedIs
<1>6. Disk /\ inUse' = inUse /\ flags' = flags /\ call'[t] = call[t]
  BY DiskLeft DEF Show, fixed
<1>7. \A r \in Regs(s) : panel'[r] = Lev(s, v)
  <2> HIDE DEF w
  <2> QED BY <1>2, <1>3, <1>4
<1>8. s = "MemcMode" /\ "MemcDeJudder" \in inUse =>
         panel'["MemcDeJudder"] = ValueAt("MemcDeJudder", <<input, "any", v>>)
  <2> HIDE DEF w
  <2> QED BY <1>2, <1>5
<1>9. /\ Regs(s)' = Regs(s) /\ Lev(s, v)' = Lev(s, v) /\ input' = input
      /\ \A p : ValueAt("MemcDeJudder", p)' = ValueAt("MemcDeJudder", p)
  BY <1>6, DiskStored DEF Regs, Lev, Disk
<1> QED BY <1>6, <1>7, <1>8, <1>9 DEF ValueOn, Lev

\* An access that writes neither what was read nor what is shown.
LEMMA RecordStays ==
  ASSUME Disk, inUse' = inUse, NEW t, call'[t] = call[t]
  PROVE  /\ row'[t] = row[t] /\ RecordRead(t) => RecordRead(t)'
         /\ panel' = panel /\ flags' = flags /\ ValueOn(t) => ValueOn(t)'
PROOF
<1>1. /\ \A s : Stored(s)' = Stored(s)
      /\ \A s, p : ValueAt(s, p)' = ValueAt(s, p)
  BY DiskStored
<1>2. row'[t] = row[t] /\ RecordRead(t) => RecordRead(t)'
  BY <1>1 DEF RecordRead
<1>3. ASSUME panel' = panel, flags' = flags, ValueOn(t) PROVE ValueOn(t)'
  <2>1. Regs(call[t].s)' = Regs(call[t].s) /\ input' = input
    BY <1>3 DEF Regs, Disk
  <2> QED BY <1>1, <1>3, <2>1 DEF ValueOn, Lev
<1> QED BY <1>2, <1>3

\* By each of its accesses.
LEMMA SetOwn ==
  ASSUME Ground, NEW t \in Threads, call[t].op = "set", t \notin clash, Working(t), Step(t),
         Working(t)', SetFacts(t)
  PROVE  SetFacts(t)'
PROOF
<1> DEFINE s == call[t].s  q == todo[t]  p == todo'[t]
<1>0. /\ inUse' = inUse /\ flags' = flags /\ call'[t] = call[t]
      /\ s \in AllSettings /\ s \in inUse
  BY StepCalls, GroupsKnown DEF Ground, Shape
<1>1. p # <<>>
  BY DEF Working
<1>2. q \in SetLeft \ {<<>>} /\ (q \in NoRead => ~Whole(s))
  BY DEF Ground, Shape, Left, Working
<1>3. s \in Colours <=> Rows[s].keep = "cms"
  BY <1>0, RecordsAre
<1>4. s = "ColorTune" => s \in NeverShown /\ s \notin Colours
  BY DEF NeverShown, Colours
<1>5. CASE Show(t)
  <2>1. p = Tail(q) /\ KindGoes(s, q) /\ Head(q) = "show"
    BY <1>1, <1>5, ShowWrites, SetAccess DEF Show, Ground
  <2>2. Disk /\ row'[t] = row[t]
    BY <1>5, DiskLeft DEF Show
  <2>3. p \in HasRead /\ Whole(s) => RecordRead(t)'
    BY <1>0, <1>2, <2>1, <2>2, SetTails, RecordStays DEF SetFacts
  <2>4. Gated(s, flags) /\ s \notin NeverShown => ValueOn(t)'
    BY <1>1, <1>5, ShownValue
  <2>5. s \in Colours => Stored("ColorTune")' = 1
    BY <2>1, <2>2, DiskStored DEF SetFacts
  <2> QED BY <1>0, <2>3, <2>4, <2>5, SMTT(30) DEF SetFacts, Gated, Whole, Shared
<1>6. CASE Read(t)
  <2>1. p = Tail(q) /\ KindGoes(s, q) /\ Head(q) = "read"
    BY <1>6, SetAccess DEF Read, On, Then, Ground, Shape
  <2>2. Disk /\ panel' = panel
    BY <1>6, DiskLeft DEF Read
  <2>3. RecordRead(t)'
    <3>1. row'[t].fields = [r \in Shared(s) \cap inUse |-> Stored(r)]
      BY <1>6 DEF Read, Ground, Record, Keyed
    <3>2. \A r \in Shared(s) \cap inUse : row'[t].fields[r] = Stored(r)'
      BY <2>2, <3>1, DiskStored
    <3> QED BY <1>0, <3>2 DEF RecordRead, Shared
  <2>4. p \in HasShown /\ Gated(s, flags) /\ s \notin NeverShown => ValueOn(t)'
    BY <1>0, <2>1, <2>2, RecordStays DEF SetFacts, KindGoes
  <2>5. s \in Colours => Stored("ColorTune")' = 1
    BY <2>1, <2>2, DiskStored DEF SetFacts
  <2> QED BY <1>0, <2>3, <2>4, <2>5 DEF SetFacts, Gated, Whole, Shared
<1>7. CASE Write(t)
  <2>1. p = Tail(q) /\ KindGoes(s, q) /\ Head(q) = "write"
    BY <1>7, SetAccess DEF Write, On, Then, Ground, Shape
  <2>2. panel' = panel /\ input' = input
    BY <1>7 DEF Write, members
  <2>3. p \notin HasRead
    <3>1. p \in {<<"tune", "return">>, <<"return">>, <<"show", "return">>}
      BY <2>1 DEF KindGoes
    <3> QED BY <3>1 DEF HasRead
  <2>4. p \in HasShown /\ Gated(s, flags) /\ s \notin NeverShown => ValueOn(t)'
    <3> SUFFICES ASSUME p \in HasShown, Gated(s, flags), s \notin NeverShown PROVE ValueOn(t)'
      OBVIOUS
    <3>1. p # <<"show", "return">>
      BY DEF HasShown
    <3>2. q \in HasShown
      BY <1>4, <2>1, <3>1 DEF KindGoes, HasShown
    <3>3. ValueOn(t)
      BY <3>2 DEF SetFacts
    <3>4. ASSUME s = "MemcMode" PROVE \A x : ValueAt("MemcDeJudder", x)' = ValueAt("MemcDeJudder", x)
      <4>1. "MemcDeJudder" \notin Shared(s)
        BY <1>0, <3>4, Singled, SharedIs
      <4> QED BY <4>1, FileElsewhere DEF Ground, Record
    <3>5. Regs(s)' = Regs(s)
      BY <1>0 DEF Regs
    <3> QED BY <1>0, <2>2, <3>3, <3>4, <3>5 DEF ValueOn, Lev
  <2>5. s \in Colours => Stored("ColorTune")' = 1
    <3> SUFFICES ASSUME s \in Colours PROVE Stored("ColorTune")' = 1
      OBVIOUS
    <3>1. Stored("ColorTune") = 1
      BY <2>1 DEF SetFacts
    <3>2. "ColorTune" \notin Shared(s)
      BY <1>0, <1>3, Singled, SharedIs
    <3>3. \A x : ValueAt("ColorTune", x)' = ValueAt("ColorTune", x)
      BY <3>2, FileElsewhere DEF Ground, Record
    <3>4. GetPlace("ColorTune")' = GetPlace("ColorTune")
      BY Singled, PlaceSame DEF Moved
    <3> QED BY <3>1, <3>3, <3>4 DEF Stored
  <2> QED BY <1>0, <2>3, <2>4, <2>5 DEF SetFacts, Gated, Whole, Shared
<1>8. CASE Tune(t)
  <2>1. KindGoes(s, q) /\ Head(q) = "tune" /\ call[t].v \in Value(s)
    BY <1>8, SetAccess DEF Tune, Ground
  <2>2. Disk /\ row'[t] = row[t]
    BY <1>8, DiskLeft DEF Tune
  <2>3. p = Tail(q) /\ (s # "ColorTune" => Stored("ColorTune") # 0)
    BY <1>1, <1>8 DEF Tune, On, Then, Ground, Shape
  <2>4. p \in HasRead => q \in NoRead
    BY <1>2, <2>1, <2>3, SetTails DEF KindGoes, HasRead
  <2>5. p \in HasShown => s = "ColorTune"
    BY <2>1, <2>3 DEF KindGoes
  <2>6. s \in Colours => Stored("ColorTune")' = 1
    <3>1. Stored("ColorTune") \in {0, 1}
      BY StoredTyped, Known DEF Ground, Values, Value
    <3> QED BY <1>4, <2>2, <2>3, <3>1, DiskStored
  <2> QED BY <1>0, <1>2, <1>4, <2>4, <2>5, <2>6 DEF SetFacts, Gated, Whole, Shared
<1>9. CASE Return(t)
  <2>1. p \in Ended
    BY <1>9, ReturnEnds DEF Return, At, On, Then, Ground, Shape
  <2> QED BY <2>1 DEF Working, Ended
<1> QED BY <1>5, <1>6, <1>7, <1>8, <1>9, StepOp DEF Ground

-----------------------------------------------------------------------------
(* What a change of mode or of source has done, by its own accesses.        *)

\* The row read is the one kept.
LEMMA RowReads ==
  ASSUME Ground, NEW t \in Threads, ReadRow(t), OnRow(t)
  PROVE  RowRead(t)'
PROOF
<1>1. row'[t].fields = [s \in OfRow |-> ValueAt(s, Place(s, call[t].v))]
  BY DEF ReadRow, OfRow, Ground, Record, Keyed
<1>2. Disk /\ OfRow' = OfRow
  BY DiskLeft DEF ReadRow, fixed, OfRow
<1>3. \A s \in OfRow : row'[t].fields[s] = Stored(s)'
  BY <1>1, <1>2, DiskStored DEF OnRow, Stored
<1> QED BY <1>1, <1>2, <1>3 DEF RowRead

\* The mode kept for the source is the one the call loads.
LEMMA LoadsRow ==
  ASSUME Ground, NEW t \in Threads
  PROVE  /\ LoadMode(t) => OnRow(t)'
         /\ SaveMode(t) => OnRow(t)'
PROOF
<1>1. ASSUME LoadMode(t) PROVE OnRow(t)'
  <2>1. Disk /\ call'[t].v = modeOf[sig] /\ inUse' = inUse
    BY <1>1, DiskLeft DEF LoadMode, fixed, Ground, Shape, Calls
  <2>2. \A s : GetPlace(s)' = Place(s, call[t].v)'
    BY <2>1 DEF GetPlace, Disk
  <2> QED BY <2>2 DEF OnRow
<1>2. ASSUME SaveMode(t) PROVE OnRow(t)'
  <2>1. /\ modeOf' = [modeOf EXCEPT ![sig] = call[t].v] /\ sig' = sig /\ call'[t] = call[t]
    BY <1>2 DEF SaveMode, members
  <2>2. modeOf'[sig'] = call'[t].v
    BY <2>1 DEF Ground, Places
  <2>3. \A s : GetPlace(s)' = Place(s, call[t].v)'
    BY <2>2 DEF GetPlace
  <2> QED BY <2>3 DEF OnRow
<1> QED BY <1>1, <1>2

\* A step that writes neither the file nor the panel leaves everything alone.
LEMMA NothingShown ==
  ASSUME Disk, panel' = panel
  PROVE  \A s : Still(s)
PROOF BY DiskStill

\* Of a change of mode.
LEMMA ModeOwn ==
  ASSUME Ground, NEW t \in Threads, call[t].op = "mode", t \notin clash, Working(t), Step(t),
         Working(t)', ModeFacts(t)
  PROVE  ModeFacts(t)'
PROOF
<1> DEFINE q == todo[t]  p == todo'[t]
<1>0. /\ inUse' = inUse /\ flags' = flags /\ call'[t] = call[t] /\ inUse \subseteq AllSettings
  BY StepCalls, GroupsKnown DEF Ground
<1>1. q \in SavedLeft \ {<<>>} /\ ModeGoes(q) /\ p # <<>>
  BY ModeGoing DEF ModeFacts, Working
<1>2. CASE SaveMode(t)
  <2>1. p = Tail(q) /\ Head(q) = "saveMode"
    BY <1>2 DEF SaveMode, On, Then, At, Ground, Shape
  <2>2. Head(p) = "readRow" /\ p \in SavedLeft
    BY <1>1, <2>1 DEF ModeGoes
  <2>3. OnRow(t)'
    BY <1>2, LoadsRow
  <2> QED BY <2>2, <2>3 DEF ModeFacts
<1>3. CASE ReadRow(t)
  <2>1. p = Tail(q) /\ Head(q) = "readRow"
    BY <1>3 DEF ReadRow, On, Then, At, Ground, Shape
  <2>2. Head(p) = "showRow" /\ p \in SavedLeft
    BY <1>1, <2>1 DEF ModeGoes
  <2>3. RowRead(t)'
    BY <1>3, <2>1, RowReads DEF ModeFacts
  <2> QED BY <2>2, <2>3 DEF ModeFacts
<1>4. CASE ShowRow(t)
  <2>1. /\ Head(q) = "showRow" /\ row' = row
        /\ p = IF RowRefused(row[t].fields) THEN <<"return">> ELSE Tail(q)
    BY <1>4 DEF ShowRow, On, Then, At, Ground, Shape
  <2>2. RowOn'
    BY <1>4, <2>1, RowLoaded DEF ModeFacts, Ground
  <2>3. RowRefused(row[t].fields)' <=> RowRefused(row[t].fields)
    BY <1>0, <2>1 DEF RowRefused
  <2>4. CASE RowRefused(row[t].fields)
    <3>1. Head(p) = "return" /\ p \in SavedLeft
      BY <2>1, <2>4 DEF SavedLeft
    <3> QED BY <2>2, <2>3, <2>4, <3>1 DEF ModeFacts
  <2>5. CASE ~RowRefused(row[t].fields)
    <3>1. Head(p) = "hdmiDisplay" /\ p \in SavedLeft
      BY <1>1, <2>1, <2>5 DEF ModeGoes
    <3> QED BY <2>2, <3>1 DEF ModeFacts
  <2> QED BY <2>4, <2>5
<1>5. CASE Display(t)
  <2>1. p = Tail(q) /\ row' = row /\ input' = input
    BY <1>5 DEF Display, On, Then, Ground, Shape, members
  <2>2. Head(q) = "hdmiDisplay"
    BY <1>1, <1>5 DEF Display, At, ModeGoes
  <2>3. Head(p) = "return" /\ p \in SavedLeft
    BY <1>1, <2>1, <2>2 DEF ModeGoes
  <2>4. \A s \in OfRow : Still(s)
    BY <1>5, DisplayLoaded, Singled DEF OfRow
  <2>5. RowOn'
    BY <1>0, <2>2, <2>4, RowStays DEF ModeFacts
  <2>6. input \in Hdmi => DisplayOn'
    BY <1>5, DisplayLoaded
  <2> QED BY <2>1, <2>3, <2>5, <2>6 DEF ModeFacts
<1>6. CASE Return(t)
  <2>1. p \in Ended
    BY <1>6, ReturnEnds DEF Return, At, On, Then, Ground, Shape
  <2> QED BY <2>1 DEF Working, Ended
<1>7. Head(q) \in {"saveMode", "readRow", "showRow", "hdmiDisplay", "return"}
  BY <1>1 DEF ModeGoes
<1>8. CASE Show(t) \/ Read(t) \/ Write(t) \/ Tune(t) \/ LoadMode(t)
  BY <1>7, <1>8 DEF Show, Read, Write, Tune, LoadMode, At
<1>9. CASE ShowTable(t) \/ ShowStart(t) \/ Lock(t) \/ Members(t) \/ Unlock(t)
  BY <1>7, <1>9 DEF ShowTable, ShowStart, Lock, Members, Unlock, At
<1> QED BY <1>2, <1>3, <1>4, <1>5, <1>6, <1>8, <1>9 DEF Step

\* Of a change of source that has its members.
LEMMA SwitchMoves ==
  ASSUME Ground, NEW t \in Threads, call[t].op = "switch", todo[t] \in Moving, Step(t),
         Working(t)', SwitchFacts(t)
  PROVE  SwitchFacts(t)'
PROOF
<1> DEFINE q == todo[t]  p == todo'[t]
<1>0. /\ inUse' = inUse /\ flags' = flags /\ call'[t].exit = call[t].exit /\ inUse \subseteq AllSettings
  BY StepCalls, StepAsks, GroupsKnown DEF Ground
<1>1. MoveGoes(q) /\ p # <<>>
  BY MoveInside, MoveBoot DEF Moving, Working
<1>2. CASE Display(t)
  <2>1. p = Tail(q) /\ Head(q) = "display"
    <3>1. Head(q) = "display"
      BY <1>1, <1>2 DEF Display, At, MoveGoes
    <3> QED BY <1>2, <3>1 DEF Display, On, Then, Ground, Shape
  <2>2. DisplayOn'
    <3>1. At(t, "display")
      BY <2>1 DEF At, Moving, Inside, BootLeft
    <3> QED BY <1>2, <3>1, DisplayLoaded
  <2>3. CASE Head(p) = "mode"
    BY <2>2, <2>3 DEF SwitchFacts
  <2>4. CASE Head(p) = "return" /\ q = <<"display", "return", "unlock">>
    <3>1. call[t].exit
      BY <2>4 DEF Ground, Alone
    <3>2. t # Main
      BY <3>1 DEF Ground, Alone
    <3> QED BY <1>0, <2>2, <2>4, <3>1, <3>2 DEF SwitchFacts
  <2> QED BY <1>1, <2>1, <2>3, <2>4 DEF MoveGoes
<1>3. CASE LoadMode(t)
  <2>1. p = Tail(q) /\ Head(q) = "mode" /\ panel' = panel
    BY <1>3 DEF LoadMode, On, Then, At, Ground, Shape
  <2>2. \A s : Still(s)
    BY <1>3, <2>1, DiskLeft, NothingShown
  <2>3. DisplayOn'
    BY <1>0, <2>1, <2>2, DisplayStays DEF SwitchFacts
  <2>4. OnRow(t)'
    BY <1>3, LoadsRow
  <2>5. Head(p) = "readRow"
    BY <1>1, <2>1 DEF MoveGoes
  <2> QED BY <2>3, <2>4, <2>5 DEF SwitchFacts
<1>4. CASE ReadRow(t)
  <2>1. p = Tail(q) /\ Head(q) = "readRow" /\ panel' = panel
    BY <1>4 DEF ReadRow, On, Then, At, Ground, Shape
  <2>2. \A s : Still(s)
    BY <1>4, <2>1, DiskLeft, NothingShown
  <2>3. DisplayOn'
    BY <1>0, <2>1, <2>2, DisplayStays DEF SwitchFacts
  <2>4. RowRead(t)'
    BY <1>4, <2>1, RowReads DEF SwitchFacts
  <2>5. Head(p) = "showRow"
    BY <1>1, <2>1 DEF MoveGoes
  <2> QED BY <2>3, <2>4, <2>5 DEF SwitchFacts
<1>5. CASE ShowRow(t)
  <2>1. p = Tail(q) /\ Head(q) = "showRow"
    BY <1>5 DEF ShowRow, On, Then, At, Ground, Shape
  <2>2. "DisplayMode" \in inUse => Still("DisplayMode")
    BY <1>5, RowLeaves, Singled DEF OfMode, Ground
  <2>3. DisplayOn'
    BY <1>0, <2>1, <2>2, DisplayStays DEF SwitchFacts
  <2>4. RowOn'
    BY <1>5, <2>1, RowLoaded DEF SwitchFacts, Ground
  <2>5. Head(p) = "showTable"
    BY <1>1, <2>1 DEF MoveGoes
  <2> QED BY <2>3, <2>4, <2>5 DEF SwitchFacts
<1>6. CASE ShowTable(t)
  <2>1. p = Tail(q) /\ Head(q) = "showTable"
    BY <1>6 DEF ShowTable, On, Then, At, Ground, Shape
  <2>2. TableOn' /\ DisplayOn'
    BY <1>6, TableLoaded DEF Ground
  <2>3. ASSUME NEW s \in OfRow PROVE Still(s)
    <3>1. s \in inUse /\ s \in AllSettings /\ Rows[s].keep = "mode"
      BY <1>0 DEF OfRow
    <3>2. Rows[s].load \notin {"table", "off"} /\ s \notin Colours /\ s # "MemcDeJudder"
      BY <3>1, RowsSound, RecordsAre, Singled DEF Sound
    <3> QED BY <1>6, <3>1, <3>2, TableLeaves DEF Ground
  <2>4. RowOn'
    BY <1>0, <2>1, <2>3, RowStays DEF SwitchFacts
  <2>5. Head(p) = IF q \in BootLeft THEN "showStart" ELSE "return"
    BY <1>1, <2>1 DEF MoveGoes
  <2>6. q \notin BootLeft => t # Main
    BY BootApart DEF Ground, Alone, Moving
  <2> QED BY <2>2, <2>4, <2>5, <2>6 DEF SwitchFacts
<1>7. CASE ShowStart(t)
  <2>1. p = Tail(q) /\ Head(q) = "showStart"
    BY <1>7 DEF ShowStart, On, Then, At, Ground, Shape
  <2>2. StartOn' /\ \A s \in inUse : Rows[s].load # "start" => Still(s)
    BY <1>7, StartLoaded DEF Ground
  <2>3. \A s \in inUse :
          s \in OfRow \/ s \in Colours \/ s \in {"MemcDeJudder", "DisplayMode"} => Rows[s].load # "start"
    BY <1>0, RowsSound, RecordsAre, Singled DEF Sound, OfRow
  <2>4. \A s \in OfRow : Still(s)
    BY <2>2, <2>3 DEF OfRow
  <2>5. RowOn'
    BY <1>0, <2>1, <2>4, RowStays DEF SwitchFacts
  <2>6. TableOn'
    BY <1>0, <2>1, <2>2, <2>3, TableStays DEF SwitchFacts
  <2>7. DisplayOn'
    BY <1>0, <2>1, <2>2, <2>3, DisplayStays DEF SwitchFacts
  <2>8. Head(p) = "return"
    BY <1>1, <2>1 DEF MoveGoes
  <2> QED BY <2>2, <2>5, <2>6, <2>7, <2>8 DEF SwitchFacts
<1>8. CASE Return(t)
  <2>1. p \in Ended
    BY <1>8, ReturnEnds DEF Return, At, On, Then, Ground, Shape
  <2> QED BY <2>1 DEF Working, Ended
<1>9. Head(q) \in {"display", "mode", "readRow", "showRow", "showTable", "showStart", "return"}
  BY <1>1, SMTT(30) DEF MoveGoes
<1>10. CASE Show(t) \/ Read(t) \/ Write(t) \/ Tune(t) \/ SaveMode(t)
  BY <1>9, <1>10 DEF Show, Read, Write, Tune, SaveMode, At
<1>11. CASE Lock(t) \/ Members(t) \/ Unlock(t)
  BY <1>9, <1>11 DEF Lock, Members, Unlock, At
<1> QED BY <1>2, <1>3, <1>4, <1>5, <1>6, <1>7, <1>8, <1>10, <1>11 DEF Step

\* Of a change of source that waits for the mutex or takes its members.
LEMMA SwitchEnters ==
  ASSUME Ground, NEW t \in Threads, call[t].op = "switch", todo[t] \notin Moving, Working(t), Step(t),
         Working(t)'
  PROVE  SwitchFacts(t)'
PROOF
<1> DEFINE q == todo[t]  p == todo'[t]
<1>0. /\ inUse' = inUse /\ flags' = flags /\ call'[t].exit = call[t].exit
  BY StepCalls, StepAsks DEF Ground
<1>1. q \in {<<"lock", "members">>, <<"members">>}
  BY DEF Ground, Shape, Left, SwitchLeft, Working, Moving
<1>2. CASE Members(t)
  <2> DEFINE same == ~call[t].exit /\ ~left /\ call[t].g = sig /\ input = call[t].g[1]
  <2>1. same \in BOOLEAN /\ call[t].exit \in BOOLEAN
    BY SMTT(30) DEF Ground, Shape, Calls
  <2>2. p = (IF same THEN <<>> ELSE DisplayProgram \o
                (IF call[t].exit THEN <<>> ELSE LoadProgram) \o <<"return">>) \o <<"unlock">>
    BY <1>2 DEF Members, Then, Ground, Shape
  <2> HIDE DEF same
  <2>3. MembersGoes(p, call[t].exit)
    BY <2>1, <2>2, MembersGoing
  <2>4. DisplayProgram = <<>> => DisplayOn'
    BY <1>0, NoDisplay DEF DisplayOn, DisplayShown
  <2>5. t # Main
    BY <1>1, BootApart DEF Ground, Alone
  <2>6. p # <<"unlock">>
    BY DEF Working
  <2> QED BY <1>0, <2>3, <2>4, <2>5, <2>6 DEF MembersGoes, SwitchFacts
<1>3. CASE ~Members(t)
  <2>1. Head(q) # "members"
    BY <1>3, StepThen DEF Ground
  <2>2. q = <<"lock", "members">> /\ Head(q) = "lock"
    BY <1>1, <2>1
  <2>3. Lock(t)
    <3>1. CASE Unlock(t)
      BY <2>2, <3>1 DEF Unlock, At
    <3> QED BY <2>2, <3>1, StepMutex
  <2>4. p = Tail(q)
    BY <2>3 DEF Lock, On, Then, Ground, Shape
  <2>5. Head(p) = "members"
    BY <2>2, <2>4
  <2> QED BY <2>5 DEF SwitchFacts
<1> QED BY <1>2, <1>3

\* What a clear call has done is done after its own accesses.
LEMMA FactsOwn ==
  ASSUME Ground, NEW t \in Threads, Working(t), t \notin clash, Step(t), Working(t)', FactsOf(t)
  PROVE  FactsOf(t)'
PROOF
<1>1. call'[t].op = call[t].op /\ call'[t].save = call[t].save
  BY StepCalls, StepAsks DEF Ground
<1>2. CASE call[t].op = "set"
  <2>1. SetFacts(t)'
    BY <1>2, SetOwn DEF FactsOf
  <2> QED BY <1>1, <1>2, <2>1 DEF FactsOf
<1>3. CASE call[t].op = "mode"
  <2>1. call[t].save => ModeFacts(t)'
    BY <1>3, ModeOwn DEF FactsOf
  <2> QED BY <1>1, <1>3, <2>1 DEF FactsOf
<1>4. CASE call[t].op = "switch"
  <2>1. SwitchFacts(t)'
    BY <1>4, SwitchMoves, SwitchEnters DEF FactsOf
  <2> QED BY <1>1, <1>4, <2>1 DEF FactsOf
<1>5. CASE call[t].op \notin {"set", "mode", "switch"}
  BY <1>1, <1>5 DEF FactsOf
<1> QED BY <1>2, <1>3, <1>4, <1>5

-----------------------------------------------------------------------------
(* What the calls have done holds always.                                   *)

\* Of a call that begins, and of the others.
LEMMA BeginFacts ==
  ASSUME Ground, Facts, NEW u \in Threads, NEW c \in Calls, NEW p \in Programs,
         Starts(u, c, p), Begin(u, c, p)
  PROVE  Facts'
PROOF
<1>1. /\ Disk /\ panel' = panel /\ inUse' = inUse /\ flags' = flags /\ row' = row
      /\ clash \subseteq clash'
  BY DEF Begin, disk, members, fixed, Disk
<1>2. \A t \in Threads : \/ t = u /\ call'[t] = c /\ todo'[t] = p
                         \/ t # u /\ call'[t] = call[t] /\ todo'[t] = todo[t]
  BY DEF Begin, Ground, Shape
<1>3. ASSUME NEW t \in Threads, t # u, Working(t)', t \notin clash' PROVE FactsOf(t)'
  <2>1. Working(t) /\ t \notin clash
    BY <1>1, <1>2, <1>3 DEF Working
  <2>2. FactsOf(t)
    BY <2>1 DEF Facts
  <2>3. Found(t)
    BY <1>1, NothingShown DEF Found, Disk
  <2> QED BY <1>1, <1>2, <1>3, <2>1, <2>2, <2>3, FactsStay DEF Ground
<1>4. FactsOf(u)'
  <2>1. call'[u] = c /\ todo'[u] = p
    BY <1>2
  <2>2. CASE c.op = "set"
    <3>1. c.s \in AllSettings
      BY <2>2, GroupsKnown DEF Starts, Ground
    <3>2. (p \in HasRead => ~Whole(c.s)) /\ (p \in HasShown => ~Gated(c.s, flags'))
      BY <1>1, <2>2 DEF Starts
    <3>3. c.s \in Colours => Head(p) = "tune"
      BY <2>2, <3>1, RecordsAre DEF Starts
    <3> QED BY <2>1, <2>2, <3>2, <3>3 DEF FactsOf, SetFacts
  <2>3. CASE c.op = "mode"
    <3>1. ASSUME c.save PROVE p \in SavedLeft /\ Head(p) = "saveMode"
      <4>1. p \in ModeLeft /\ Head(p) = "saveMode" /\ p # <<>>
        BY <2>3, <3>1 DEF Starts, Left
      <4> QED BY <4>1 DEF ModeLeft, SavedLeft
    <3>2. c.save => ModeFacts(u)'
      BY <2>1, <3>1 DEF ModeFacts
    <3> QED BY <2>1, <2>3, <3>2 DEF FactsOf
  <2>4. CASE c.op = "switch"
    <3>1. Head(p) = "lock"
      BY <2>4 DEF Starts
    <3>2. SwitchFacts(u)'
      BY <2>1, <3>1 DEF SwitchFacts
    <3> QED BY <2>1, <2>4, <3>2 DEF FactsOf
  <2>5. CASE c.op \notin {"set", "mode", "switch"}
    BY <2>1, <2>5 DEF FactsOf
  <2> QED BY <2>2, <2>3, <2>4, <2>5
<1> QED BY <1>3, <1>4 DEF Facts

\* Of an access.
LEMMA StepFacts ==
  ASSUME Ground, Facts, NEW u \in Threads, Step(u)
  PROVE  Facts'
PROOF
<1> SUFFICES ASSUME NEW t \in Threads, Working(t)', t \notin clash' PROVE FactsOf(t)'
  BY DEF Facts
<1>1. t \notin clash /\ Working(t)
  BY NotToldBefore DEF Ground, Working, Ended
<1>2. FactsOf(t)
  BY <1>1 DEF Facts
<1>3. CASE t = u
  BY <1>1, <1>2, <1>3, FactsOwn
<1>4. CASE t # u
  BY <1>1, <1>2, <1>4, FactsOther
<1> QED BY <1>3, <1>4

\* Of the constructor.
LEMMA BootFacts ==
  /\ Init => Facts
  /\ Restart => Facts'
PROOF
<1>1. BootCall.op = "switch" /\ NoCall.op = "none"
  BY NoCallTyped
<1>2. DisplayProgram = <<>> => DisplayOn
  BY NoDisplay DEF DisplayOn
<1>3. \/ Head(BootProgram) = "display"
      \/ Head(BootProgram) = "mode" /\ DisplayOn
  BY <1>2, BootGoing
<1> HIDE DEF BootProgram, BootCall, NoCall
<1>4. ASSUME Init PROVE Facts
  <2>1. \A t \in Threads : t # Main => todo[t] = <<>>
    BY <1>4 DEF Init
  <2>2. call[Main] = BootCall /\ todo[Main] = BootProgram
    BY <1>4, Thread DEF Init
  <2>3. SwitchFacts(Main)
    BY <1>3, <2>2 DEF SwitchFacts
  <2> QED BY <1>1, <2>1, <2>2, <2>3 DEF Facts, FactsOf, Working
<1>5. ASSUME Restart PROVE Facts'
  <2>1. \A t \in Threads : t # Main => todo'[t] = <<>>
    BY <1>5 DEF Restart
  <2>2. call'[Main] = BootCall /\ todo'[Main] = BootProgram
    BY <1>5, Thread DEF Restart
  <2>3. Head(BootProgram) = "mode" => DisplayOn'
    <3>1. inUse' = inUse /\ flags' = flags
      BY <1>5 DEF Restart, fixed
    <3>2. DisplayProgram = <<>> => DisplayOn'
      BY <3>1, NoDisplay DEF DisplayOn, DisplayShown
    <3> QED BY <3>2, BootGoing
  <2>4. SwitchFacts(Main)'
    BY <1>3, <2>2, <2>3 DEF SwitchFacts
  <2> QED BY <1>1, <2>1, <2>2, <2>4 DEF Facts, FactsOf, Working
<1> QED BY <1>4, <1>5

\* The other theorems, together.
THEOREM GroundHolds == Spec => []Ground
PROOF BY ShapeHolds, OwnerHolds, OverlapHolds, RecordHolds, ValuesHold, KindsHold, AloneHolds, PTL DEF Ground

\* What a call that overlaps no other has done so far is done.
THEOREM FactsHold == Spec => []Facts
PROOF
<1>1. Facts /\ Ground /\ [Next]_vars => Facts'
  <2> SUFFICES ASSUME Facts, Ground, [Next]_vars PROVE Facts'
    OBVIOUS
  <2>1. CASE UNCHANGED vars
    <3>1. /\ Disk /\ panel' = panel /\ inUse' = inUse /\ flags' = flags /\ row' = row
          /\ clash' = clash /\ call' = call /\ todo' = todo
      BY <2>1 DEF vars, disk, members, fixed, history, Disk
    <3> SUFFICES ASSUME NEW t \in Threads, Working(t)', t \notin clash' PROVE FactsOf(t)'
      BY DEF Facts
    <3>2. Working(t) /\ t \notin clash
      BY <3>1 DEF Working
    <3>3. Found(t)
      BY <3>1, NothingShown DEF Found, Disk
    <3> QED BY <3>1, <3>2, <3>3, FactsStay DEF Facts, Ground
  <2>2. CASE Next
    BY <2>2, NextIs, BeginFacts, StepFacts, BootFacts DEF Ground
  <2> QED BY <2>1, <2>2
<1> QED BY <1>1, BootFacts, GroundHolds, PTL DEF Spec

-----------------------------------------------------------------------------
(* Which settings the panel is said to show.                                *)

\* They have a level of their own; none is touched by a setter that was overlapped,
\* the colours apart, which the step that loads them says are shown.
SettledSound == settled \subseteq {s \in inUse : Gated(s, flags) /\ s \notin NeverShown}
ClashUnsettled == \A t \in clash : call[t].op = "set" => settled \cap Touched(call[t]) \subseteq Colours
Marks == SettledSound /\ ClashUnsettled

\* What a load says is shown it can show, and touches.
LEMMA LoadMarks ==
  ASSUME inUse \subseteq AllSettings
  PROVE  /\ \A s \in RowShown \cup TableShown \cup DisplayShown \cup StartShown :
              s \in inUse /\ Gated(s, flags) /\ s \notin NeverShown
         /\ \A s \in inUse \cap Colours : Gated(s, flags) /\ s \notin NeverShown
         /\ \A c : c.op = "switch" =>
              RowShown \cup TableShown \cup DisplayShown \cup StartShown \subseteq Touched(c)
         /\ \A c : c.op = "mode" => RowShown \cup DisplayShown \subseteq Touched(c)
PROOF
<1>1. ASSUME NEW s \in inUse \cap Colours PROVE Gated(s, flags) /\ s \notin NeverShown /\ Rows[s].load # "no"
  <2>1. Rows[s].keep = "cms" /\ s \in AllSettings
    BY <1>1, RecordsAre
  <2> QED BY <1>1, <2>1, GatesAre, RowsSound DEF NeverShown, Colours, Sound
<1>2. ASSUME NEW s \in RowShown
      PROVE  s \in inUse /\ Gated(s, flags) /\ s \notin NeverShown /\ Rows[s].load # "no"
  BY <1>2, Singled DEF RowShown, Shown, NeverShown
<1>3. ASSUME NEW s \in DisplayShown
      PROVE  s \in inUse /\ Gated(s, flags) /\ s \notin NeverShown /\ Rows[s].load # "no"
  <2>1. s = "DisplayMode" /\ s \in inUse /\ Gated("DisplayMode", flags)
    BY <1>3 DEF DisplayShown
  <2> QED BY <2>1, Singled DEF NeverShown
<1>4. ASSUME NEW s \in StartShown
      PROVE  s \in inUse /\ Gated(s, flags) /\ s \notin NeverShown /\ Rows[s].load # "no"
  BY <1>4, Singled DEF StartShown, NeverShown
<1>5. ASSUME NEW s \in TableShown
      PROVE  /\ s \in inUse /\ Gated(s, flags) /\ s \notin NeverShown
             /\ Rows[s].load # "no" \/ Rows[s].keep = "level"
  <2>1. CASE Rows[s].load = "table" /\ Shown(s) /\ s \in inUse
    BY <2>1, Singled DEF Shown, NeverShown
  <2>2. CASE s \in inUse \cap Colours
    BY <1>1, <2>2
  <2>3. CASE s \in inUse /\ s = "MemcDeJudder" /\ "memc" \in flags
    BY <2>3, GatesAre, Singled DEF NeverShown
  <2> QED BY <1>5, <2>1, <2>2, <2>3, SMTT(30) DEF TableShown
<1>6. ASSUME NEW c, c.op = "switch"
      PROVE  RowShown \cup TableShown \cup DisplayShown \cup StartShown \subseteq Touched(c)
  BY <1>2, <1>3, <1>4, <1>5, <1>6 DEF Touched
<1>7. ASSUME NEW c, c.op = "mode" PROVE RowShown \cup DisplayShown \subseteq Touched(c)
  BY <1>2, <1>3, <1>7 DEF Touched
<1> QED BY <1>1, <1>2, <1>3, <1>4, <1>5, <1>6, <1>7

\* What a setter says is shown.
LEMMA SetMarks ==
  ASSUME NEW c, c.op = "set", c.s \in inUse, inUse \subseteq AllSettings,
         NEW s \in SettledBySet(c), s \notin settled
  PROVE  s \in inUse /\ Gated(s, flags) /\ s \notin NeverShown /\ s \in Touched(c)
PROOF
<1>1. Gated(c.s, flags) /\ c.s \notin NeverShown
  BY DEF SettledBySet, NeverShown
<1>2. s \in inUse /\ (s = c.s \/ (c.s = "MemcMode" /\ s = "MemcDeJudder"))
  BY SMTT(30) DEF SettledBySet
<1>3. CASE s = c.s
  BY <1>1, <1>2, <1>3, SharedIs, TouchedBySet
<1>4. CASE c.s = "MemcMode" /\ s = "MemcDeJudder"
  <2>1. s \in Touched(c)
    BY <1>4 DEF Touched
  <2> QED BY <1>1, <1>2, <1>4, <2>1, GatesAre DEF NeverShown
<1> QED BY <1>2, <1>3, <1>4

\* What an access says is shown besides.
LEMMA StepSettles ==
  ASSUME Ground, NEW u \in Threads, Step(u), NEW s \in settled', s \notin settled
  PROVE  /\ s \in inUse /\ Gated(s, flags) /\ s \notin NeverShown
         /\ \/ Return(u) /\ u \notin clash /\ s \in Touched(call[u])
            \/ Tune(u) /\ s \in Colours
PROOF
<1>0. inUse \subseteq AllSettings
  BY GroupsKnown DEF Ground
<1>1. CASE Tune(u)
  <2>1. s \in inUse \cap Colours
    BY <1>1 DEF Tune
  <2> QED BY <1>0, <1>1, <2>1, LoadMarks
<1>2. CASE Return(u)
  <2>1. u \notin clash
    BY <1>2 DEF Return
  <2>2. CASE call[u].op = "set"
    <3>1. s \in SettledBySet(call[u]) /\ call[u].s \in inUse
      BY <1>2, <2>1, <2>2 DEF Return, Ground, Shape
    <3> QED BY <1>0, <1>2, <2>1, <2>2, <3>1, SetMarks
  <2>3. CASE call[u].op = "mode"
    <3>1. s \in SettledByMode(call[u], row[u].fields)
      BY <1>2, <2>1, <2>3 DEF Return
    <3>2. s \in RowShown \cup DisplayShown
      BY <3>1, SMTT(30) DEF SettledByMode
    <3> QED BY <1>0, <1>2, <2>1, <2>3, <3>2, LoadMarks
  <2>4. CASE call[u].op = "switch"
    <3>1. s \in SettledBySwitch(call[u]) \/ s \in StartShown
      BY <1>2, <2>1, <2>4, SMTT(30) DEF Return, StartShown
    <3>2. s \in RowShown \cup TableShown \cup DisplayShown \cup StartShown
      BY <3>1, SMTT(30) DEF SettledBySwitch
    <3> QED BY <1>0, <1>2, <2>1, <2>4, <3>2, LoadMarks
  <2>5. CASE call[u].op \notin {"set", "mode", "switch"}
    BY <1>2, <2>1, <2>5 DEF Return
  <2> QED BY <2>2, <2>3, <2>4, <2>5
<1>3. CASE Show(u)
  BY <1>3, SMTT(30) DEF Show, history
<1>4. CASE Write(u)
  BY <1>4 DEF Write
<1>5. CASE settled' = settled
  BY <1>5
<1> QED BY <1>1, <1>2, <1>3, <1>4, <1>5 DEF Step, Read, SaveMode, LoadMode, ReadRow, ShowRow, ShowTable,
     ShowStart, Display, Lock, Members, Unlock, history

\* An access.
LEMMA StepMarks ==
  ASSUME Ground, Marks, NEW u \in Threads, Step(u)
  PROVE  Marks'
PROOF
<1>1. /\ inUse' = inUse /\ flags' = flags
      /\ \A t \in Threads : call'[t].op = call[t].op /\ call'[t].s = call[t].s
  BY StepCalls DEF Ground
<1>2. SettledSound'
  <2>1. \A s \in settled' : s \in inUse /\ Gated(s, flags) /\ s \notin NeverShown
    BY StepSettles DEF Marks, SettledSound
  <2> QED BY <1>1, <2>1 DEF SettledSound
<1>3. clash' \subseteq clash /\ clash \subseteq Threads
  BY StepWork DEF Ground, Overlap
<1>4. ASSUME NEW t \in clash', call'[t].op = "set", NEW s \in settled', s \in Touched(call[t])'
      PROVE  s \in Colours
  <2>1. t \in Threads /\ t \in clash /\ call[t].op = "set" /\ s \in Touched(call[t])
    BY <1>1, <1>3, <1>4, TouchedSame
  <2>2. CASE s \in settled
    BY <2>1, <2>2 DEF Marks, ClashUnsettled
  <2>3. CASE s \notin settled
    <3> SUFFICES ASSUME Return(u), u \notin clash, s \in Touched(call[u]) PROVE FALSE
      BY <2>3, StepSettles
    <3>1. Working(u) /\ Working(t)
      BY <2>1, StepOp DEF Ground, Overlap
    <3>2. Conflict(call[u], call[t])
      BY <2>1, ConflictIs
    <3> QED BY <2>1, <3>1, <3>2 DEF Ground, Overlap
  <2> QED BY <2>2, <2>3
<1> QED BY <1>2, <1>4 DEF Marks, ClashUnsettled

\* A call that begins: what it and those it overlaps touch is shown no more.
LEMMA BeginMarks ==
  ASSUME Ground, Marks, NEW u \in Threads, NEW c \in Calls, NEW p \in Programs,
         Starts(u, c, p), Begin(u, c, p)
  PROVE  Marks'
PROOF
<1> DEFINE others == {t \in Threads \ {u} : Working(t) /\ Conflict(c, call[t])}
           disturbed == UNION {Touched(c) \cup Touched(call[t]) : t \in others}
<1>1. /\ inUse' = inUse /\ flags' = flags /\ settled' = settled \ disturbed
      /\ clash' = IF others = {} THEN clash ELSE clash \cup others \cup {u}
      /\ call' = [call EXCEPT ![u] = c] /\ todo[u] = <<>>
  BY DEF Begin, fixed
<1>2. SettledSound'
  BY <1>1 DEF Marks, SettledSound
<1>3. ASSUME NEW t \in clash', call'[t].op = "set" PROVE settled' \cap Touched(call[t])' \subseteq Colours
  <2>1. u \notin clash
    BY <1>1 DEF Ground, Overlap, Working
  <2>2. CASE t \in clash
    <3>1. t \in Threads /\ call'[t] = call[t] /\ Touched(call[t])' = Touched(call[t])
      BY <1>1, <2>1, <2>2, TouchedSame DEF Ground, Overlap, Shape
    <3> QED BY <1>1, <1>3, <2>2, <3>1 DEF Marks, ClashUnsettled
  <2>3. CASE t \in others
    <3>1. t \in Threads /\ call'[t] = call[t] /\ Touched(call[t])' = Touched(call[t])
      BY <1>1, <2>3, TouchedSame DEF Ground, Shape
    <3>2. Touched(call[t]) \subseteq disturbed
      BY <2>3
    <3> QED BY <1>1, <3>1, <3>2
  <2>4. CASE t = u /\ others # {}
    <3>1. Touched(c) \subseteq disturbed
      BY <2>4
    <3>2. call'[t] = c
      BY <1>1, <2>4 DEF Ground, Shape
    <3>3. Touched(call[t])' = Touched(c)
      BY <1>1, <3>2 DEF Touched
    <3> QED BY <1>1, <3>1, <3>3
  <2> QED BY <1>1, <2>2, <2>3, <2>4
<1> QED BY <1>2, <1>3 DEF Marks, ClashUnsettled

\* The panel is said to show nothing it has no level for.
THEOREM MarksHold == Spec => []Marks
PROOF
<1>1. Init => Marks
  BY DEF Init, Marks, SettledSound, ClashUnsettled
<1>2. Marks /\ Ground /\ [Next]_vars => Marks'
  <2> SUFFICES ASSUME Marks, Ground, [Next]_vars PROVE Marks'
    OBVIOUS
  <2>1. CASE UNCHANGED vars
    <3>1. inUse' = inUse /\ flags' = flags /\ settled' = settled /\ clash' = clash /\ call' = call
      BY <2>1 DEF vars, fixed, history
    <3>2. \A t \in clash : Touched(call[t])' = Touched(call[t])
      BY <3>1, TouchedSame DEF Ground, Overlap
    <3> QED BY <3>1, <3>2 DEF Marks, SettledSound, ClashUnsettled
  <2>2. CASE Restart
    BY <2>2 DEF Restart, Marks, SettledSound, ClashUnsettled
  <2>3. CASE Next
    BY <2>2, <2>3, NextIs, BeginMarks, StepMarks DEF Ground
  <2> QED BY <2>1, <2>3
<1> QED BY <1>1, <1>2, GroundHolds, PTL DEF Spec

-----------------------------------------------------------------------------
(* What a call is at work on.                                               *)

\* What the setter of s shows, and what it overwrites with something else.
Due(s) == {s} \cup Spoils(s) \cup (IF s = "MemcMode" THEN {"MemcDeJudder"} ELSE {})

\* The settings the panel need not follow while t is at work.  A setter that
\* overlaps another may leave the colours wrong, and nothing else that is to be
\* shown.
OffSet(t) ==
  LET s == call[t].s IN
  IF t \in clash
    THEN IF (s \in Colours /\ todo[t] \in HasShown) \/ (s = "ColorTune" /\ todo[t] \in HasTuned)
         THEN Colours ELSE {}
  ELSE IF s = "ColorTune" \/ ~Gated(s, flags) THEN {}
  ELSE IF Rows[s].saveFirst THEN {s}
  ELSE IF todo[t] \in HasShown THEN Due(s) ELSE {}
Off(t) ==
  IF call[t].op = "set" THEN OffSet(t)
  ELSE IF call[t].op = "mode" THEN OfMode
  ELSE IF call[t].op = "switch" /\ todo[t] \in Moving THEN OfMode \cup OfSource
  ELSE {}

\* A setting that is to be shown is, or a call is at work on it.
PanelInv == \A s \in settled : Follows(s) \/ \E t \in Threads : Working(t) /\ s \in Off(t)
Covered(s, t) == Follows(s) \/ (Working(t) /\ s \in Off(t))

\* What is overwritten by the setter of a setting that shares its registers.
LEMMA SpoilsTouched ==
  ASSUME NEW c, c.op = "set", c.s \in AllSettings
  PROVE  Due(c.s) \subseteq Touched(c)
PROOF
<1>1. c.s \in Shared(c.s) /\ Shared(c.s) \subseteq Touched(c)
  BY SharedIs, TouchedBySet
<1>2. Spoils(c.s) \subseteq Touched(c)
  <2>1. CASE c.s = "Saturation"
    <3>1. "Hue" \in Shared(c.s)
      BY <2>1, Singled, Known DEF Shared
    <3>2. Spoils(c.s) \subseteq {"Hue"}
      BY <2>1, NotLut DEF Spoils
    <3> QED BY <1>1, <3>1, <3>2
  <2>2. CASE c.s \in {"MpegNr", "Deblock", "DemoSquito"}
    <3>1. Rows[c.s].keep # "lut"
      BY <2>2, Singled
    <3>2. Spoils(c.s) \subseteq {"MpegNr", "Deblock", "DemoSquito"}
      BY <2>2, <3>1 DEF Spoils
    <3> QED BY <2>2, <3>2 DEF Touched
  <2>3. CASE c.s \notin {"Saturation", "MpegNr", "Deblock", "DemoSquito"}
    <3>1. Spoils(c.s) \subseteq Shared(c.s)
      <4> HIDE DEF Shared
      <4> QED BY <2>3 DEF Spoils
    <3> QED BY <1>1, <3>1
  <2> QED BY <2>1, <2>2, <2>3
<1>3. c.s = "MemcMode" => "MemcDeJudder" \in Touched(c)
  BY DEF Touched
<1> QED BY <1>1, <1>2, <1>3 DEF Due

\* What a call is at work on it touches.
LEMMA OffTouched ==
  ASSUME Ground, NEW t \in Threads
  PROVE  Off(t) \cap inUse \subseteq Touched(call[t])
PROOF
<1>1. CASE call[t].op = "set"
  <2>1. call[t].s \in AllSettings
    BY <1>1, GroupsKnown DEF Ground, Shape
  <2>2. CASE t \in clash
    <3>1. call[t].s \in Colours \/ call[t].s = "ColorTune" => Colours \subseteq Touched(call[t])
      BY <1>1, <2>1, RecordsAre, TunesTouched
    <3> QED BY <1>1, <2>2, <3>1 DEF Off, OffSet
  <2>3. CASE t \notin clash
    <3>1. Off(t) \subseteq Due(call[t].s)
      BY <1>1, <2>3 DEF Off, OffSet, Due
    <3> QED BY <1>1, <2>1, <3>1, SpoilsTouched
  <2> QED BY <2>2, <2>3
<1>2. CASE call[t].op \in {"mode", "switch"}
  <2>1. \A s \in OfMode \cap inUse : s \in Touched(call[t])
    BY <1>2, TouchedByMove, Singled DEF OfMode, Moved
  <2>2. \A s \in OfSource \cap inUse : s \in Touched(call[t])
    <3>1. \A s \in Colours : Rows[s].load # "no"
      BY RecordsAre, RowsSound DEF Sound
    <3> QED BY <1>2, <3>1 DEF OfSource, Touched
  <2> QED BY <1>2, <2>1, <2>2 DEF Off
<1>3. CASE call[t].op \notin {"set", "mode", "switch"}
  BY <1>3 DEF Off
<1> QED BY <1>1, <1>2, <1>3

\* What it is at work on depends on the call, and for the saturation on the signal.
LEMMA OffSame ==
  ASSUME NEW t, inUse' = inUse, flags' = flags, call'[t].op = call[t].op, call'[t].s = call[t].s,
         todo'[t] = todo[t], t \in clash' <=> t \in clash,
         call[t].s = "Saturation" /\ call[t].op = "set" /\ t \notin clash => input' = input /\ sig' = sig
  PROVE  Off(t)' = Off(t)
PROOF
<1>1. OfMode' = OfMode /\ OfSource' = OfSource
  BY DEF OfMode, OfSource
<1>2. CASE call[t].op = "set" /\ t \in clash
  BY <1>2 DEF Off, OffSet
<1>3. CASE call[t].op = "set" /\ t \notin clash
  <2>1. Spoils(call[t].s)' = Spoils(call[t].s)
    BY <1>3 DEF Spoils
  <2>2. Due(call[t].s)' = Due(call[t].s)
    BY <2>1 DEF Due
  <2> QED BY <1>3, <2>2 DEF Off, OffSet
<1>4. CASE call[t].op # "set"
  BY <1>1, <1>4 DEF Off
<1> QED BY <1>2, <1>3, <1>4

\* An access leaves to the other calls what they are at work on.
LEMMA OffOther ==
  ASSUME Ground, NEW u \in Threads, Step(u), NEW t \in Threads \ {u}, Working(t)
  PROVE  Working(t)' /\ Off(t)' = Off(t)
PROOF
<1>1. /\ inUse' = inUse /\ flags' = flags /\ call'[t] = call[t] /\ todo'[t] = todo[t]
  BY StepCalls, StepStill DEF Ground, Record
<1>2. t \in clash' <=> t \in clash
  BY StepWork DEF Ground
<1>3. ASSUME call[t].s = "Saturation", call[t].op = "set", t \notin clash
      PROVE  input' = input /\ sig' = sig
  <2>1. Clear(t)
    BY <1>3 DEF Clear
  <2>2. call[t].s \in Touched(call[t]) \cap inUse
    BY <1>3, TouchedBySet, SharedIs, GroupsKnown DEF Ground, Shape
  <2> QED BY <1>3, <2>1, <2>2, Undisturbed, Singled DEF Moved
<1> QED BY <1>1, <1>2, <1>3, OffSame DEF Working

\* What is left of a change of source.
LEMMA MoveOn ==
  ASSUME NEW q \in Moving, Head(q) # "return"
  PROVE  Tail(q) \in Moving
PROOF
<1>1. CASE q \in BootLeft
  BY <1>1, BootTails DEF Moving
<1>2. CASE q \in Inside \ {<<"members">>, <<"unlock">>}
  <2>1. MoveGoes(q)
    BY <1>2, MoveInside
  <2>2. Head(q) \notin {"members", "unlock"} /\ Head(Tail(q)) # "members"
    BY <2>1 DEF MoveGoes
  <2>3. Tail(q) \in Inside /\ Tail(q) # <<"unlock">>
    <3>1. q \in Inside
      BY <1>2
    <3>2. /\ Head(q) \notin {"members", "unlock"} => Tail(q) \in Inside
          /\ Head(q) = "return" <=> Tail(q) = <<"unlock">>
      BY <3>1, InsideTails
    <3> HIDE DEF Inside
    <3> QED BY <2>2, <3>2
  <2>4. Tail(q) # <<"members">>
    <3>1. Head(<<"members">>) = "members"
      OBVIOUS
    <3> QED BY <2>2, <3>1, Zenon
  <2> QED BY <2>3, <2>4 DEF Moving
<1> QED BY <1>1, <1>2 DEF Moving

\* A change of source that has its members, by its next access.
LEMMA MovingHead ==
  ASSUME Shape, NEW t \in Threads, todo[t] # <<>>, call[t].op = "switch"
  PROVE  /\ todo[t] \in Moving <=> Head(todo[t]) \notin {"lock", "members", "unlock"}
         /\ todo[t] \in Moving => Working(t)
PROOF
<1>1. todo[t] \in SwitchLeft
  BY DEF Shape, Left
<1>2. CASE todo[t] \in Moving
  <2>1. MoveGoes(todo[t])
    BY <1>2, MoveInside, MoveBoot DEF Moving
  <2>2. Head(todo[t]) \notin {"lock", "members", "unlock"}
    BY <2>1 DEF MoveGoes
  <2> QED BY <1>2, <2>2 DEF Working
<1>3. CASE todo[t] \notin Moving
  <2>1. todo[t] \in {<<"lock", "members">>, <<"members">>, <<"unlock">>}
    BY <1>1, <1>3 DEF SwitchLeft, Moving
  <2> QED BY <1>3, <2>1
<1> QED BY <1>2, <1>3

\* A call that makes another access than its last is still at work.
LEMMA StillWorks ==
  ASSUME Shape, NEW u \in Threads, todo[u] # <<>>, Head(todo[u]) \notin {"members", "return"},
         Working(u), On(u)
  PROVE  Working(u)' /\ todo'[u] = Tail(todo[u])
PROOF
<1>1. todo'[u] = Tail(todo[u])
  BY DEF On, Then, Shape
<1> QED BY <1>1, WorkKept DEF Working, Ended

-----------------------------------------------------------------------------
(* The accesses that write neither the panel nor the file.                  *)

\* A setting left alone, and still being worked on if it was, is covered still.
LEMMA CoverStays ==
  ASSUME NEW s, NEW u, inUse' = inUse, flags' = flags, Still(s), Covered(s, u),
         Working(u) /\ s \in Off(u) => Working(u)' /\ s \in Off(u)'
  PROVE  Covered(s, u)'
PROOF
<1>1. Follows(s)' <=> Follows(s)
  BY StillFollows
<1> QED BY <1>1 DEF Covered

\* Accesses that read, or take the mutex or give it back.
LEMMA ReadCovers ==
  ASSUME Ground, NEW u \in Threads, Step(u),
         Read(u) \/ LoadMode(u) \/ ReadRow(u) \/ Lock(u) \/ Unlock(u),
         NEW s \in settled', s \notin settled \/ Covered(s, u)
  PROVE  Covered(s, u)'
PROOF
<1>1. /\ inUse' = inUse /\ flags' = flags /\ call'[u].op = call[u].op /\ call'[u].s = call[u].s
  BY StepCalls DEF Ground
<1>2. /\ panel' = panel /\ settled' = settled /\ clash' = clash /\ On(u)
  BY DEF Read, LoadMode, ReadRow, Lock, Unlock, history
<1>3. Disk
  BY DiskLeft
<1>4. Still(s)
  BY <1>2, <1>3, NothingShown
<1>5. ASSUME Working(u), s \in Off(u) PROVE Working(u)' /\ s \in Off(u)'
  <2>1. CASE Read(u)
    <3>1. KindGoes(call[u].s, todo[u]) /\ Head(todo[u]) = "read" /\ call[u].op = "set" /\ todo[u] # <<>>
      BY <2>1, SetAccess DEF Read, Ground, At
    <3>2. Working(u)' /\ todo'[u] = Tail(todo[u])
      BY <1>2, <1>5, <3>1, StillWorks DEF Ground
    <3>3. /\ todo'[u] \in HasShown <=> todo[u] \in HasShown
          /\ call[u].s # "ColorTune"
      BY <3>1, <3>2 DEF KindGoes
    <3>4. Due(call[u].s)' = Due(call[u].s)
      BY <1>1, <1>3 DEF Due, Spoils, Disk
    <3>5. OffSet(u)' = OffSet(u)
      BY <1>1, <1>2, <3>3, <3>4 DEF OffSet
    <3> QED BY <1>1, <1>5, <3>1, <3>2, <3>5 DEF Off
  <2>2. CASE ReadRow(u) /\ call[u].op = "mode"
    <3>1. Working(u)'
      BY <1>2, <1>5, <2>2, StillWorks DEF ReadRow, Ground, At
    <3> QED BY <1>1, <1>5, <2>2, <3>1 DEF Off, OfMode
  <2>3. CASE (LoadMode(u) \/ ReadRow(u)) /\ call[u].op = "switch"
    <3>1. todo[u] # <<>> /\ Head(todo[u]) \in {"mode", "readRow"}
      BY <2>3 DEF LoadMode, ReadRow, At
    <3>2. Working(u)' /\ todo'[u] = Tail(todo[u])
      BY <1>2, <1>5, <3>1, StillWorks DEF Ground
    <3>3. todo[u] \in Moving
      BY <2>3, <3>1, MovingHead DEF Ground
    <3>4. todo'[u] \in Moving
      BY <3>1, <3>2, <3>3, MoveOn
    <3> QED BY <1>1, <1>5, <2>3, <3>2, <3>3, <3>4 DEF Off, OfMode, OfSource
  <2>4. CASE Lock(u) \/ Unlock(u)
    <3>1. todo[u] # <<>> /\ Head(todo[u]) \in {"lock", "unlock"}
      BY <2>4 DEF Lock, Unlock, At
    <3>2. call[u].op \in {"switch", "info"}
      BY <3>1, HeadOp DEF Ground
    <3>3. call[u].op = "switch" => todo[u] \notin Moving
      BY <3>1, MovingHead DEF Ground
    <3> QED BY <1>5, <3>2, <3>3 DEF Off
  <2>5. LoadMode(u) => call[u].op = "switch"
    BY HeadOp DEF LoadMode, At, Ground
  <2>6. ReadRow(u) => call[u].op \in {"mode", "switch"}
    BY HeadOp DEF ReadRow, At, Ground
  <2> QED BY <2>1, <2>2, <2>3, <2>4, <2>5, <2>6
<1> QED BY <1>1, <1>2, <1>4, <1>5, CoverStays

\* The mode kept for the source is changed.
LEMMA SaveCovers ==
  ASSUME Ground, NEW u \in Threads, Step(u), SaveMode(u), inUse \subseteq AllSettings,
         NEW s \in settled', s \in inUse, s \notin settled \/ Covered(s, u)
  PROVE  Covered(s, u)'
PROOF
<1>1. /\ inUse' = inUse /\ flags' = flags /\ call'[u].op = call[u].op /\ call[u].op = "mode" /\ Working(u)
  BY StepCalls, StepOp DEF Ground
<1>2. /\ panel' = panel /\ settled' = settled /\ file' = file /\ sig' = sig /\ input' = input /\ On(u)
  BY DEF SaveMode, history, members
<1>3. Working(u)'
  BY <1>1, <1>2, StillWorks DEF SaveMode, At, Ground
<1>4. Off(u) = OfMode /\ Off(u)' = OfMode
  BY <1>1 DEF Off, OfMode
<1>5. CASE s \in OfMode
  BY <1>3, <1>4, <1>5 DEF Covered
<1>6. CASE s \notin OfMode
  <2>1. Rows[s].keep # "mode"
    BY <1>6 DEF OfMode
  <2>2. \A source : MemcStored(source)' = MemcStored(source)
    BY <1>2 DEF MemcStored
  <2>3. \A m : Place(s, m)' = Place(s, m)
    BY <1>2, <2>2 DEF Place
  <2>4. GetPlace(s)' = GetPlace(s)
    <3>1. GetPlace(s) = Place(s, 0)
      BY <2>1 DEF GetPlace, Place
    <3>2. GetPlace(s)' = Place(s, 0)'
      BY <2>1 DEF GetPlace, Place
    <3> QED BY <2>3, <3>1, <3>2
  <2>5. \A q, p : ValueAt(q, p)' = ValueAt(q, p)
    BY <1>2 DEF ValueAt
  <2>6. GetPlace("ColorTune")' = GetPlace("ColorTune")
    BY Singled, PlaceSame DEF Moved
  <2>7. Still(s)
    BY <1>2, <2>3, <2>4, <2>5, <2>6 DEF Still, Stored
  <2> QED BY <1>1, <1>2, <1>4, <1>6, <2>7, CoverStays
<1> QED BY <1>5, <1>6

\* The members of a change of source are set.
LEMMA MembersCovers ==
  ASSUME Ground, NEW u \in Threads, Step(u), Members(u),
         NEW s \in settled', s \in inUse, s \notin settled \/ Covered(s, u)
  PROVE  Covered(s, u)'
PROOF
<1> DEFINE same == ~call[u].exit /\ ~left /\ call[u].g = sig /\ input = call[u].g[1]
           q == (IF same THEN <<>> ELSE DisplayProgram \o (IF call[u].exit THEN <<>> ELSE LoadProgram)
                   \o <<"return">>) \o <<"unlock">>
<1>1. /\ inUse' = inUse /\ flags' = flags /\ call'[u].op = call[u].op /\ call[u].op = "switch" /\ Working(u)
  BY StepCalls, StepOp DEF Ground
<1>2. /\ panel' = panel /\ settled' = settled /\ file' = file /\ modeOf' = modeOf
      /\ same => sig' = sig /\ input' = input
      /\ Then(u, q)
  BY DEF Members, disk
<1>3. todo'[u] = q /\ same \in BOOLEAN /\ call[u].exit \in BOOLEAN
  BY <1>2 DEF Then, Ground, Shape, Calls
<1> HIDE DEF same, q
<1>4. s \notin Off(u)
  <2>1. todo[u] \notin Moving
    BY <1>1, MovingHead DEF Members, At, Ground
  <2> QED BY <1>1, <2>1 DEF Off
<1>5. CASE same
  <2>1. Still(s)
    BY <1>2, <1>5, NothingShown DEF Disk
  <2> QED BY <1>1, <1>2, <1>4, <2>1, CoverStays
<1>6. CASE ~same
  <2>1. MembersGoes(q, call[u].exit) /\ q # <<"unlock">>
    BY <1>3, <1>6, MembersGoing, MembersWork DEF q
  <2>2. q \in Moving
    BY <2>1 DEF MembersGoes
  <2>3. Working(u)'
    BY <1>3, <2>1, <2>2, BootApart DEF Working, Moving
  <2>4. Off(u)' = OfMode \cup OfSource
    BY <1>1, <1>3, <2>2 DEF Off, OfMode, OfSource
  <2>5. CASE s \in OfMode \cup OfSource
    BY <2>3, <2>4, <2>5 DEF Covered
  <2>6. CASE s \notin OfMode \cup OfSource
    <3>1. Rows[s].keep \notin Moved /\ s \notin Colours
      BY <2>6 DEF OfMode, OfSource, Moved
    <3>2. GetPlace(s)' = GetPlace(s) /\ \A m : Place(s, m)' = Place(s, m)
      BY <3>1, PlaceSame DEF Moved
    <3>3. \A p : ValueAt(s, p)' = ValueAt(s, p)
      BY <1>2 DEF ValueAt
    <3>4. Still(s)
      BY <1>2, <3>1, <3>2, <3>3 DEF Still
    <3> QED BY <1>1, <1>2, <1>4, <3>4, CoverStays
  <2> QED BY <2>5, <2>6
<1> QED BY <1>5, <1>6

-----------------------------------------------------------------------------
(* The accesses that load the panel, and the last one.                      *)

\* A load that goes on is still at work on what it loads.
LEMMA LoadOff ==
  ASSUME Ground, NEW u \in Threads, Step(u), ShowRow(u) \/ ShowTable(u) \/ ShowStart(u) \/ Display(u)
  PROVE  /\ inUse' = inUse /\ flags' = flags /\ settled' = settled
         /\ Working(u)' /\ Off(u)' = Off(u)
         /\ call[u].op = "mode" => Off(u) = OfMode
         /\ call[u].op = "switch" => Off(u) = OfMode \cup OfSource
         /\ call[u].op \in {"mode", "switch"}
         /\ ShowTable(u) \/ ShowStart(u) => call[u].op = "switch"
PROOF
<1>1. /\ inUse' = inUse /\ flags' = flags /\ call'[u].op = call[u].op
  BY StepCalls DEF Ground
<1>2. settled' = settled
  BY DEF ShowRow, ShowTable, ShowStart, Display, history
<1>3. /\ todo[u] # <<>> /\ Head(todo[u]) \in {"showRow", "showTable", "showStart", "display", "hdmiDisplay"}
      /\ ShowTable(u) \/ ShowStart(u) => Head(todo[u]) \in {"showTable", "showStart"}
  BY DEF ShowRow, ShowTable, ShowStart, Display, At
<1>4. ShowStart(u) => call[u].op = "switch"
  BY HeadOp DEF Ground, ShowStart, At
<1>5. /\ call[u].op \in {"mode", "switch"}
      /\ ShowTable(u) \/ ShowStart(u) => call[u].op = "switch"
  <2>1. CASE ShowStart(u)
    BY <2>1, <1>4, HeadOp, <1>3 DEF Ground, ShowTable, At
  <2>2. CASE ~ShowStart(u)
    BY <2>2, HeadOp, <1>3 DEF Ground, ShowTable, ShowRow, Display, At
  <2> QED BY <2>1, <2>2
<1>6. \/ On(u)
      \/ ShowRow(u) /\ call[u].op = "mode" /\ Then(u, <<"return">>)
  BY DEF ShowRow, ShowTable, ShowStart, Display
<1>7. Working(u)
  <2>1. todo[u] # <<"unlock">>
    BY <1>3
  <2> QED BY <1>3, <2>1 DEF Working
<1>8. Working(u)' /\ (On(u) => todo'[u] = Tail(todo[u]))
  <2>1. CASE On(u)
    BY <1>3, <1>7, <2>1, StillWorks DEF Ground
  <2>2. CASE Then(u, <<"return">>) /\ ~On(u)
    BY <2>2 DEF Then, Working, Ground, Shape
  <2> QED BY <1>6, <2>1, <2>2
<1>9. ASSUME call[u].op = "switch" PROVE todo[u] \in Moving /\ todo'[u] \in Moving
  <2>1. todo[u] \in Moving
    BY <1>3, <1>9, MovingHead DEF Ground
  <2>2. todo'[u] = Tail(todo[u])
    BY <1>6, <1>8, <1>9
  <2> QED BY <1>3, <2>1, <2>2, MoveOn
<1>10. OfMode' = OfMode /\ OfSource' = OfSource
  BY <1>1 DEF OfMode, OfSource
<1> QED BY <1>1, <1>2, <1>5, <1>8, <1>9, <1>10 DEF Off

\* The row of the picture mode.
LEMMA RowCovers ==
  ASSUME Ground, NEW u \in Threads, Step(u), ShowRow(u),
         NEW s \in settled', s \in inUse, s \notin settled \/ Covered(s, u)
  PROVE  Covered(s, u)'
PROOF
<1>1. CASE s \in OfMode
  BY <1>1, LoadOff DEF Covered
<1>2. CASE s \notin OfMode
  <2>1. Still(s)
    BY <1>2, RowLeaves DEF Ground
  <2> QED BY <2>1, LoadOff, CoverStays
<1> QED BY <1>1, <1>2

\* The table.
LEMMA TableCovers ==
  ASSUME Ground, NEW u \in Threads, Step(u), ShowTable(u),
         NEW s \in settled', s \in inUse, s \notin settled \/ Covered(s, u)
  PROVE  Covered(s, u)'
PROOF
<1>1. CASE s \in OfMode \cup OfSource
  BY <1>1, LoadOff DEF Covered
<1>2. CASE s \notin OfMode \cup OfSource /\ s \in TableShown
  <2>1. TableShown' = TableShown
    <3>1. Disk /\ inUse' = inUse /\ flags' = flags
      BY DiskLeft DEF ShowTable, fixed
    <3>2. \A q : Shown(q)' <=> Shown(q)
      BY <3>1, DiskStored DEF Shown
    <3> QED BY <3>1, <3>2, SMTT(30) DEF TableShown
  <2>2. TableOn'
    BY TableLoaded DEF Ground
  <2> QED BY <1>2, <2>1, <2>2 DEF TableOn, Covered
<1>3. CASE s \notin OfMode \cup OfSource /\ s \notin TableShown
  <2>1. s \in AllSettings /\ s \notin Colours /\ Rows[s].keep \notin {"mode", "source", "level"}
    BY <1>3, GroupsKnown DEF Ground, OfMode, OfSource
  <2>2. s \notin {"MpegNr", "MemcDeJudder", "DisplayMode"} /\ Rows[s].load # "off"
    BY <2>1, Singled, RowsSound DEF Sound
  <2>3. Rows[s].load = "table" => ~Shown(s)
    BY <1>3 DEF TableShown
  <2>4. s \notin DOMAIN TableLevels
    BY <2>1, <2>2, <2>3 DEF TableLevels, DisplayShown, Shown
  <2>5. panel' = [r \in inUse |-> IF r \in DOMAIN TableLevels THEN TableLevels[r] ELSE panel[r]]
    BY DEF ShowTable
  <2>6. \A r \in Regs(s) : panel'[r] = panel[r]
    <3> HIDE DEF TableLevels
    <3> QED BY <2>2, <2>4, <2>5 DEF Regs
  <2>7. Still(s)
    BY <2>6, DiskLeft, DiskStill
  <2> QED BY <2>7, LoadOff, CoverStays
<1> QED BY <1>1, <1>2, <1>3

\* The detectors.
LEMMA StartCovers ==
  ASSUME Ground, NEW u \in Threads, Step(u), ShowStart(u), SettledSound,
         NEW s \in settled', s \in inUse, s \notin settled \/ Covered(s, u)
  PROVE  Covered(s, u)'
PROOF
<1>1. /\ Disk /\ inUse' = inUse /\ flags' = flags /\ settled' = settled
  BY DiskLeft DEF ShowStart, fixed, history
<1>2. Gated(s, flags)
  BY <1>1 DEF SettledSound
<1>3. CASE Rows[s].load # "start"
  BY <1>3, StartLoaded, LoadOff, CoverStays DEF Ground
<1>4. CASE Rows[s].load = "start" /\ (s = "Aipq" => Stored(s) = 1)
  <2>1. s \in StartShown' /\ (s = "Aipq" => Stored(s)' = 1)
    BY <1>1, <1>2, <1>4, DiskStored DEF StartShown
  <2>2. StartOn'
    BY StartLoaded DEF Ground
  <2> QED BY <2>1, <2>2 DEF StartOn, Covered
<1>5. CASE s = "Aipq" /\ Stored(s) # 1
  <2>1. panel' = [r \in inUse |-> IF r \in {q \in inUse : Rows[q].load = "start" /\ Gated(q, flags)
                                              /\ (q = "Aipq" => Stored(q) = 1)} THEN Stored(r) ELSE panel[r]]
    BY DEF ShowStart
  <2>2. \A r \in Regs(s) : panel'[r] = panel[r]
    BY <1>5, <2>1 DEF Regs
  <2>3. Still(s)
    BY <1>1, <2>2, DiskStill
  <2> QED BY <2>3, LoadOff, CoverStays
<1> QED BY <1>3, <1>4, <1>5

\* The picture position.
LEMMA DisplayCovers ==
  ASSUME Ground, NEW u \in Threads, Step(u), Display(u), SettledSound,
         NEW s \in settled', s \in inUse, s \notin settled \/ Covered(s, u)
  PROVE  Covered(s, u)'
PROOF
<1>1. CASE s # "DisplayMode"
  BY <1>1, DisplayLoaded, LoadOff, CoverStays
<1>2. CASE s = "DisplayMode" /\ call[u].op = "switch"
  <2>1. s \in OfSource
    BY <1>2, Singled DEF OfSource
  <2> QED BY <1>2, <2>1, LoadOff DEF Covered
<1>3. CASE s = "DisplayMode" /\ call[u].op = "mode"
  <2>1. s \notin OfMode
    BY <1>3, Singled DEF OfMode
  <2>2. s \in settled /\ Follows(s)
    BY <1>3, <2>1, LoadOff DEF Covered
  <2>3. DisplayShown = {s}
    BY <1>3, <2>2 DEF SettledSound, DisplayShown
  <2>4. DisplayOn
    BY <2>2, <2>3 DEF DisplayOn
  <2>5. DisplayOn' /\ DisplayShown' = DisplayShown
    BY <2>4, DisplayLoaded DEF DisplayShown
  <2> QED BY <2>3, <2>5 DEF DisplayOn, Covered
<1> QED BY <1>1, <1>2, <1>3, LoadOff

\* What a setter that overlapped no other says is shown.
LEMMA SetReturns ==
  ASSUME Ground, Facts, Marks, NEW u \in Threads, Return(u), call[u].op = "set", u \notin clash,
         NEW s \in settled', s \in inUse, s \notin settled \/ Covered(s, u)
  PROVE  Follows(s)
PROOF
<1> DEFINE c == call[u]  s0 == call[u].s
<1>1. /\ s0 \in AllSettings /\ s0 \in inUse /\ s \in SettledBySet(c) /\ s \in AllSettings
  BY GroupsKnown DEF Ground, Shape, Return
<1>2. todo[u] = <<"return">> /\ Working(u)
  <2>1. todo[u] \in KindLeft(s0) \ {<<>>} /\ Head(todo[u]) = "return"
    BY DEF Ground, Kinds, Return, At
  <2>2. todo[u] = <<"return">>
    BY <1>1, <2>1, KindTails DEF KindGoes
  <2>3. <<"return">> # <<>> /\ <<"return">> # <<"unlock">>
    OBVIOUS
  <2> QED BY <2>2, <2>3 DEF Working
<1>3. SetFacts(u)
  BY <1>2 DEF Facts, FactsOf
<1>4. todo[u] \in HasShown /\ todo[u] \in Wrote /\ Head(todo[u]) # "tune"
  BY <1>2 DEF HasShown, Wrote
<1>5. Off(u) \subseteq Due(s0)
  BY DEF Off, OffSet, Due
<1>6. ASSUME s \in settled, s \notin Due(s0) PROVE Follows(s)
  BY <1>5, <1>6 DEF Covered
<1>7. CASE ~Gated(s0, flags) \/ s0 \in NeverShown
  <2>1. s \in settled
    BY <1>1, <1>7 DEF SettledBySet, NeverShown
  <2>2. CASE ~Gated(s0, flags) \/ s0 = "ColorTune"
    <3>1. Off(u) = {}
      BY <2>2 DEF Off, OffSet
    <3> QED BY <2>1, <3>1 DEF Covered
  <2>3. CASE s0 \in {"MemcDeBlur", "DdrSsc"}
    <3>1. Due(s0) = {s0}
      BY <2>3, Singled DEF Due, Spoils
    <3>2. s # s0
      BY <2>1, <2>3 DEF Marks, SettledSound, NeverShown
    <3> QED BY <1>6, <2>1, <3>1, <3>2
  <2> QED BY <1>7, <2>2, <2>3 DEF NeverShown
<1>8. CASE Gated(s0, flags) /\ s0 \notin NeverShown /\ ~(c.save \/ Rows[s0].always)
  <2>1. s \in settled /\ s \notin Due(s0)
    BY <1>1, <1>8, SMTT(30) DEF SettledBySet, NeverShown, Due
  <2> QED BY <1>6, <2>1
<1>9. CASE Gated(s0, flags) /\ s0 \notin NeverShown /\ (c.save \/ Rows[s0].always)
  <2>1. \/ s \in settled /\ s \notin Due(s0)
        \/ s = s0
        \/ s0 = "MemcMode" /\ s = "MemcDeJudder"
    BY <1>1, <1>9, SMTT(30) DEF SettledBySet, NeverShown, Due
  <2>2. ValueOn(u)
    BY <1>3, <1>4, <1>9 DEF SetFacts
  <2>3. <<s0, GetPlace(s0)>> \in DOMAIN file /\ file[<<s0, GetPlace(s0)>>] = c.v
    BY <1>4, <1>9 DEF Keeps, Ground, Record, WriteKept
  <2>4. Stored(s0) = c.v
    BY <2>3 DEF Stored, ValueAt
  <2>5. CASE s = s0
    <3>1. s \in Colours => Stored("ColorTune") = 1
      BY <1>3, <1>4, <2>5 DEF SetFacts
    <3>2. Aim(s) = Lev(s, c.v)
      BY <2>4, <2>5, <3>1 DEF Aim
    <3> QED BY <2>2, <2>5, <3>2 DEF ValueOn, Follows
  <2>6. CASE s0 = "MemcMode" /\ s = "MemcDeJudder"
    <3>1. panel[s] = ValueAt(s, <<input, "any", c.v>>)
      BY <2>2, <2>6 DEF ValueOn
    <3>2. GetPlace(s0) = <<input, "any", 0>>
      BY <2>6, Singled DEF GetPlace, Place
    <3>3. MemcStored(input) = c.v
      BY <2>3, <2>6, <3>2 DEF MemcStored
    <3>4. GetPlace(s) = <<input, "any", c.v>>
      BY <2>6, <3>3, Singled DEF GetPlace, Place
    <3>5. Aim(s) = Stored(s) /\ Regs(s) = {s}
      BY <1>1, <2>6, AimIs, Singled
    <3> QED BY <3>1, <3>4, <3>5 DEF Follows, Stored
  <2> QED BY <1>6, <2>1, <2>5, <2>6
<1> QED BY <1>7, <1>8, <1>9

\* The last access of a call.
LEMMA ReturnCovers ==
  ASSUME Ground, Facts, Marks, NEW u \in Threads, Step(u), Return(u),
         NEW s \in settled', s \in inUse, s \notin settled \/ Covered(s, u)
  PROVE  Covered(s, u)'
PROOF
<1>1. Disk /\ panel' = panel /\ inUse' = inUse /\ flags' = flags
  BY DiskLeft DEF Return, fixed
<1>2. Still(s)
  BY <1>1, NothingShown
<1> SUFFICES Follows(s)
  BY <1>1, <1>2, StillFollows DEF Covered
<1>3. Working(u) /\ todo[u] # <<>> /\ Head(todo[u]) = "return"
  BY StepOp DEF Ground, Return, At
<1>4. CASE u \in clash
  <2>1. s \in settled /\ s \notin Touched(call[u])
    BY <1>4 DEF Return
  <2>2. s \notin Off(u)
    BY <2>1, OffTouched
  <2> QED BY <2>1, <2>2 DEF Covered
<1>5. CASE u \notin clash /\ call[u].op = "set"
  BY <1>5, SetReturns
<1>6. CASE u \notin clash /\ call[u].op = "mode"
  <2>1. s \in SettledByMode(call[u], row[u].fields) /\ Off(u) = OfMode
    BY <1>6 DEF Return, Off
  <2>2. call[u].save => ModeFacts(u)
    BY <1>3, <1>6 DEF Facts, FactsOf
  <2>3. \/ s \in settled /\ s \notin OfMode
        \/ call[u].save /\ s \in RowShown
        \/ call[u].save /\ s \in DisplayShown /\ input \in Hdmi /\ ~RowRefused(row[u].fields)
    BY <2>1, SMTT(30) DEF SettledByMode
  <2> QED BY <1>3, <2>1, <2>2, <2>3 DEF ModeFacts, RowOn, DisplayOn, Covered
<1>7. CASE u \notin clash /\ call[u].op = "switch"
  <2>1. Off(u) = OfMode \cup OfSource
    BY <1>3, <1>7, MovingHead DEF Off, Ground
  <2>2. SwitchFacts(u)
    BY <1>3, <1>7 DEF Facts, FactsOf
  <2>3. \/ s \in SettledBySwitch(call[u])
        \/ u = Main /\ s \in StartShown /\ (s = "Aipq" => Stored(s) = 1)
    BY <1>7, SMTT(30) DEF Return, StartShown
  <2>4. CASE s \in SettledBySwitch(call[u])
    <3>1. \/ s \in settled /\ s \notin OfMode \cup OfSource
          \/ s \in DisplayShown
          \/ ~call[u].exit /\ s \in RowShown \cup TableShown
      BY <2>4, SMTT(30) DEF SettledBySwitch
    <3>2. DisplayOn /\ (~call[u].exit => RowOn /\ TableOn)
      BY <1>3, <2>2 DEF SwitchFacts
    <3> QED BY <2>1, <3>1, <3>2 DEF RowOn, DisplayOn, TableOn, Covered
  <2>5. CASE u = Main /\ s \in StartShown /\ (s = "Aipq" => Stored(s) = 1)
    BY <1>3, <2>2, <2>5 DEF SwitchFacts, StartOn
  <2> QED BY <2>3, <2>4, <2>5
<1>8. CASE u \notin clash /\ call[u].op \notin {"set", "mode", "switch"}
  <2>1. s \in settled /\ Off(u) = {}
    BY <1>8 DEF Return, Off
  <2> QED BY <2>1 DEF Covered
<1> QED BY <1>4, <1>5, <1>6, <1>7, <1>8

-----------------------------------------------------------------------------
(* The accesses of a setter.                                                *)

\* What a setter is at work on does not change with its accesses, but for the
\* registers it has shown.
LEMMA OffKept ==
  ASSUME NEW u, inUse' = inUse, flags' = flags, call'[u].op = call[u].op, call'[u].s = call[u].s,
         call[u].op = "set", u \in clash' <=> u \in clash, input' = input, sig' = sig,
         todo[u] \in HasShown => todo'[u] \in HasShown,
         call[u].s = "ColorTune" /\ todo[u] \in HasTuned => todo'[u] \in HasTuned
  PROVE  Off(u) \subseteq Off(u)'
PROOF
<1>1. Due(call[u].s)' = Due(call[u].s)
  BY DEF Due, Spoils
<1>2. CASE u \in clash
  <2>1. OffSet(u) \subseteq OffSet(u)'
    BY <1>2 DEF OffSet
  <2> QED BY <2>1 DEF Off
<1>3. CASE u \notin clash
  <2>1. OffSet(u) \subseteq OffSet(u)'
    BY <1>1, <1>3 DEF OffSet
  <2> QED BY <2>1 DEF Off
<1> QED BY <1>2, <1>3

\* With its flag off the step of a setting writes no register.
LEMMA UngatedReaches ==
  ASSUME NEW s \in AllSettings, ~Gated(s, flags), NEW v
  PROVE  DOMAIN Reached(s, v) = {}
PROOF
<1> SUFFICES ASSUME NEW r \in DOMAIN Shows(s, v), Gated(r, flags) PROVE FALSE
  BY DEF Reached
<1>1. CASE s = "Saturation"
  <2>1. r \in {"Saturation", "Hue"}
    BY <1>1, NotLut DEF Shows
  <2> QED BY <1>1, <2>1, GatesAre
<1>2. CASE s = "Hue"
  <2>1. r \in {"Saturation", "Hue"}
    BY <1>2, NotLut DEF Shows
  <2> QED BY <1>2, <2>1, GatesAre
<1>3. CASE s = "MpegNr"
  <2>1. r \in {"Deblock", "DemoSquito"}
    BY <1>3, NotLut DEF Shows
  <2> QED BY <1>3, <2>1, GatesAre
<1>4. CASE s = "MemcMode"
  <2>1. r \in {"MemcMode", "MemcDeJudder"}
    BY <1>4, NotLut DEF Shows
  <2> QED BY <1>4, <2>1, GatesAre
<1>5. CASE s = "MemcDeBlur"
  BY <1>5, NotLut DEF Shows
<1>6. Rows[s].keep # "lut"
  BY GatesAre
<1>7. CASE s \notin {"Saturation", "Hue", "MpegNr", "MemcMode", "MemcDeBlur"}
  <2>1. r = s
    BY <1>6, <1>7 DEF Shows
  <2> QED BY <2>1
<1> QED BY <1>1, <1>2, <1>3, <1>4, <1>5, <1>7

\* A register another setting shows keeps the level of that setting, or the
\* setting is one the step overwrites.
LEMMA ShowsDue ==
  ASSUME NEW s0 \in AllSettings, NEW s \in AllSettings, NEW r \in Regs(s), NEW v,
         r \in DOMAIN Shows(s0, v), s \notin Due(s0)
  PROVE  Shows(s0, v)[r] = Stored(s) /\ Rows[s].keep = "mode"
PROOF
<1>0. s # s0 /\ s \notin Spoils(s0) /\ (s0 = "MemcMode" => s # "MemcDeJudder")
  BY DEF Due
<1>1. /\ s # "MpegNr" => r = s
      /\ s = "MpegNr" => r \in {"Deblock", "DemoSquito"}
  BY DEF Regs
<1>2. CASE s0 = "Saturation"
  <2>1. r \in {"Saturation", "Hue"}
    BY <1>2, NotLut DEF Shows
  <2>2. s = "Hue" /\ r = "Hue"
    BY <1>0, <1>1, <1>2, <2>1
  <2>3. <<input, sig[2]>> \in Ntsc
    BY <1>0, <1>2, <2>2, NotLut DEF Spoils
  <2>4. Shows(s0, v)[r] = HueOfSaturation
    BY <1>2, <2>2, NotLut DEF Shows
  <2> QED BY <2>2, <2>3, <2>4, Singled DEF HueOfSaturation
<1>3. CASE s0 = "Hue"
  <2>1. r \in {"Saturation", "Hue"}
    BY <1>3, NotLut DEF Shows
  <2>2. s = "Saturation" /\ r = "Saturation"
    BY <1>0, <1>1, <1>3, <2>1
  <2>3. Shows(s0, v)[r] = Stored(r)
    BY <1>3, <2>2, NotLut DEF Shows
  <2> QED BY <2>2, <2>3, Singled
<1>4. CASE s0 = "MpegNr"
  <2>1. r \in {"Deblock", "DemoSquito"}
    BY <1>4, NotLut DEF Shows
  <2>2. Spoils(s0) = {"Deblock", "DemoSquito"}
    BY <1>4, NotLut DEF Spoils
  <2> QED BY <1>0, <1>1, <1>4, <2>1, <2>2
<1>5. CASE s0 = "MemcMode"
  <2>1. r \in {"MemcMode", "MemcDeJudder"}
    BY <1>5, NotLut DEF Shows
  <2> QED BY <1>0, <1>1, <1>5, <2>1
<1>6. CASE s0 = "MemcDeBlur"
  BY <1>6, NotLut DEF Shows
<1>7. CASE Rows[s0].keep = "lut"
  <2>1. s0 \notin {"Saturation", "Hue", "MpegNr", "MemcMode", "MemcDeBlur", "Deblock", "DemoSquito"}
    BY <1>7, NotLut, Singled
  <2>2. DOMAIN Shows(s0, v) = Shared(s0)
    BY <1>7, <2>1 DEF Shows
  <2>3. Spoils(s0) = Shared(s0) \ {s0}
    BY <1>7, <2>1 DEF Spoils
  <2>4. Rows[r].keep = "lut"
    BY <1>7, <2>2, SharedIs
  <2>5. r = s
    BY <1>1, <2>4, Singled
  <2> QED BY <1>0, <2>2, <2>3, <2>5
<1>8. CASE s0 \notin {"Saturation", "Hue", "MpegNr", "MemcMode", "MemcDeBlur"} /\ Rows[s0].keep # "lut"
  <2>1. r = s0
    BY <1>8 DEF Shows
  <2>2. s = "MpegNr" /\ s0 \in {"Deblock", "DemoSquito"}
    BY <1>0, <1>1, <2>1
  <2>3. Spoils(s0) = {"MpegNr"}
    BY <2>2, Singled DEF Spoils
  <2> QED BY <1>0, <2>2, <2>3
<1> QED BY <1>2, <1>3, <1>4, <1>5, <1>6, <1>7, <1>8

\* A step that shows a setting kept first, or a colour, writes no other register.
LEMMA ShowsOne ==
  ASSUME NEW s0 \in AllSettings, s0 # "ColorTune", NEW v, NEW r \in DOMAIN Shows(s0, v),
         Rows[s0].saveFirst \/ r \in Colours
  PROVE  r = s0
PROOF
<1>1. CASE Rows[s0].saveFirst
  <2>1. s0 = "SuperResolution"
    BY <1>1, FirstOf
  <2>2. Rows[s0].keep # "lut"
    BY <1>1, RowsSound DEF Sound
  <2> QED BY <2>1, <2>2 DEF Shows
<1>2. CASE r \in Colours
  <2>1. /\ Rows[r].keep = "cms"
        /\ r \notin {"Saturation", "Hue", "Deblock", "DemoSquito", "MemcMode", "MemcDeJudder"}
    BY <1>2, RecordsAre DEF Colours
  <2>2. s0 # "Saturation" /\ s0 # "Hue"
    BY <2>1, NotLut DEF Shows
  <2>3. s0 # "MpegNr" /\ s0 # "MemcMode" /\ s0 # "MemcDeBlur"
    BY <2>1, NotLut DEF Shows
  <2>4. Rows[s0].keep # "lut"
    <3> SUFFICES ASSUME Rows[s0].keep = "lut" PROVE FALSE
      OBVIOUS
    <3>1. r \in Shared(s0)
      BY <2>2, <2>3 DEF Shows
    <3> QED BY <2>1, <3>1, SharedIs
  <2> QED BY <2>2, <2>3, <2>4 DEF Shows
<1> QED BY <1>1, <1>2

\* A hardware step that is refused.
LEMMA RefusedCovers ==
  ASSUME Ground, NEW u \in Threads, Step(u), Show(u), Refused(call[u].s, call[u].v, flags),
         NEW s \in settled', s \in inUse, s \notin settled \/ Covered(s, u)
  PROVE  Covered(s, u)'
PROOF
<1> DEFINE s0 == call[u].s
<1>1. /\ call[u].op = "set" /\ KindGoes(s0, todo[u]) /\ Head(todo[u]) = "show" /\ s0 \in AllSettings
  BY SetAccess DEF Show, Ground
<1>2. /\ panel' = panel /\ Disk /\ inUse' = inUse /\ flags' = flags
      /\ settled' = IF Rows[s0].saveFirst \/ u \in clash THEN settled \ {s0} ELSE settled
  BY DiskLeft DEF Show, fixed
<1>3. s0 # "ColorTune" /\ todo[u] \notin HasShown
  BY <1>1 DEF KindGoes
<1>4. Off(u) \subseteq IF Rows[s0].saveFirst THEN {s0} ELSE {}
  BY <1>1, <1>3 DEF Off, OffSet
<1>5. s \in settled /\ s \notin Off(u)
  BY <1>2, <1>4
<1>6. Still(s)
  BY <1>2, NothingShown
<1> QED BY <1>2, <1>5, <1>6, CoverStays

\* The registers another setting shows, written by a step that goes on.
LEMMA ShownElse ==
  ASSUME Ground, Facts, NEW u \in Threads, Show(u), todo'[u] # <<>>, u \notin clash, Working(u),
         NEW s \in inUse, s \notin Due(call[u].s), NEW r \in Regs(s), r \in DOMAIN ShowLevels(u)
  PROVE  ShowLevels(u)[r] = Aim(s)
PROOF
<1> DEFINE s0 == call[u].s  v == call[u].v  w == ShowLevels(u)
<1>1. /\ call[u].op = "set" /\ KindGoes(s0, todo[u]) /\ Head(todo[u]) = "show" /\ s0 \in AllSettings
      /\ s \in AllSettings
  BY SetAccess, GroupsKnown DEF Show, Ground
<1>2. CASE Rows[s0].keep = "lcd"
  <2>1. /\ todo[u] \in HasRead /\ Whole(s0) /\ DOMAIN row[u].fields = Shared(s0) \cap inUse
    BY <1>2, ShowWrites
  <2>2. w = [row[u].fields EXCEPT ![s0] = v]
    BY <1>2 DEF ShowLevels
  <2>3. r \in Shared(s0) \cap inUse
    BY <2>1, <2>2
  <2>4. Rows[r].keep = "lcd"
    BY <1>1, <1>2, <2>3, SharedIs
  <2>5. r = s
    BY <2>4, Singled DEF Regs
  <2>6. r # s0
    BY <2>5 DEF Due
  <2>7. w[r] = row[u].fields[r]
    BY <2>1, <2>2, <2>3, <2>6
  <2>8. RecordRead(u)
    BY <1>1, <2>1 DEF Facts, FactsOf, SetFacts
  <2>9. row[u].fields[r] = Stored(s)
    BY <2>3, <2>5, <2>8 DEF RecordRead
  <2>10. Aim(s) = Stored(s)
    BY <1>1, <2>4, <2>5, AimIs
  <2> QED BY <2>7, <2>9, <2>10
<1>3. CASE Rows[s0].keep # "lcd"
  <2>1. w = Reached(s0, v)
    BY <1>3 DEF ShowLevels
  <2>2. r \in DOMAIN Shows(s0, v) /\ w[r] = Shows(s0, v)[r]
    <3>1. r \in DOMAIN Reached(s0, v)
      BY <2>1
    <3>2. Reached(s0, v)[r] = Shows(s0, v)[r] /\ r \in DOMAIN Shows(s0, v)
      BY <3>1 DEF Reached
    <3> QED BY <2>1, <3>2
  <2> HIDE DEF w
  <2>3. Shows(s0, v)[r] = Stored(s) /\ Rows[s].keep = "mode"
    BY <1>1, <2>2, ShowsDue
  <2>4. Rows[s].keep \notin {"cms", "lut"}
    BY <2>3
  <2>5. Aim(s) = Stored(s)
    BY <1>1, <2>4, AimIs
  <2> QED BY <2>2, <2>3, <2>5 DEF w
<1> QED BY <1>2, <1>3

\* A hardware step that goes on.
LEMMA ShowCovers ==
  ASSUME Ground, Facts, Marks, NEW u \in Threads, Step(u), Show(u),
         ~Refused(call[u].s, call[u].v, flags),
         NEW s \in settled', s \in inUse, s \notin settled \/ Covered(s, u)
  PROVE  Covered(s, u)'
PROOF
<1> DEFINE s0 == call[u].s  v == call[u].v
<1>1. /\ call[u].op = "set" /\ KindGoes(s0, todo[u]) /\ Head(todo[u]) = "show" /\ s0 \in AllSettings
      /\ todo[u] # <<>> /\ s \in AllSettings
  BY SetAccess, GroupsKnown DEF Show, Ground
<1>2. Working(u)' /\ todo'[u] = Tail(todo[u])
  <2>1. On(u)
    BY DEF Show
  <2>2. todo[u] # <<"unlock">>
    BY <1>1
  <2> QED BY <1>1, <2>1, <2>2, StillWorks DEF Working, Ground
<1>3. todo'[u] # <<>>
  BY <1>2 DEF Working
<1>4. /\ settled' = settled /\ clash' = clash
      /\ panel' = [r \in inUse |-> IF r \in DOMAIN ShowLevels(u) THEN ShowLevels(u)[r] ELSE panel[r]]
  BY <1>3, ShowWrites
<1>5. /\ Disk /\ inUse' = inUse /\ flags' = flags /\ call' = call
  BY DiskLeft DEF Show, fixed
<1>6. s0 # "ColorTune" /\ todo[u] \notin HasShown /\ (~Rows[s0].saveFirst => todo'[u] \in HasShown)
  BY <1>1, <1>2 DEF KindGoes
<1>7. Working(u) /\ Due(s0)' = Due(s0)
  <2>1. todo[u] # <<"unlock">>
    BY <1>1
  <2> QED BY <1>1, <1>5, <2>1 DEF Working, Due, Spoils, Disk
<1>8. CASE s \in Off(u)
  <2>1. Off(u) \subseteq Off(u)'
    BY <1>1, <1>4, <1>5, <1>6, OffKept DEF Disk
  <2> QED BY <1>2, <1>8, <2>1 DEF Covered
<1>9. CASE s \notin Off(u) /\ DOMAIN ShowLevels(u) \cap Regs(s) = {}
  <2>1. Regs(s) \subseteq inUse
    BY <1>1, AimIs
  <2>2. \A r \in Regs(s) : panel'[r] = panel[r]
    BY <1>4, <1>9, <2>1
  <2>3. Still(s)
    BY <1>5, <2>2, DiskStill
  <2> QED BY <1>4, <1>5, <1>9, <2>3, CoverStays
<1>10. ASSUME s \notin Off(u), NEW r \in Regs(s), r \in DOMAIN ShowLevels(u)
       PROVE  Covered(s, u)'
  <2>1. /\ s \in settled /\ Follows(s)
    BY <1>4, <1>7, <1>10 DEF Covered
  <2>2. /\ Rows[s0].keep = "lcd" => r \in Shared(s0)
        /\ Rows[s0].keep # "lcd" => r \in DOMAIN Shows(s0, v) /\ Gated(s0, flags)
    <3>1. CASE Rows[s0].keep = "lcd"
      <4>1. DOMAIN row[u].fields = Shared(s0) \cap inUse
        BY <1>3, <3>1, ShowWrites
      <4> QED BY <1>10, <3>1, <4>1 DEF ShowLevels
    <3>2. CASE Rows[s0].keep # "lcd"
      <4>1. r \in DOMAIN Reached(s0, v)
        BY <1>10, <3>2 DEF ShowLevels
      <4>2. r \in DOMAIN Shows(s0, v)
        BY <4>1 DEF Reached
      <4> QED BY <1>1, <3>2, <4>1, <4>2, UngatedReaches
    <3> QED BY <3>1, <3>2
  <2>3. Gated(s0, flags)
    BY <1>1, <2>2, GatesAre
  <2>4. r \in Touched(call[u])
    BY <1>1, <2>2, ShowsIn, TouchedBySet
  <2>5. s \in Touched(call[u])
    BY <1>1, <2>4, RegsTouched, GroupsKnown DEF Ground
  <2>6. CASE u \in clash
    <3>1. s \in Colours
      BY <1>1, <2>1, <2>5, <2>6 DEF Marks, ClashUnsettled
    <3>2. r = s
      BY <3>1 DEF Regs, Colours
    <3>3. Rows[s0].keep # "lcd"
      BY <1>1, <2>2, <3>1, <3>2, SharedIs, RecordsAre
    <3>4. s0 = s
      BY <1>1, <1>6, <2>2, <3>1, <3>2, <3>3, ShowsOne
    <3>5. ~Rows[s0].saveFirst
      BY <3>1, <3>4, FirstOf, <1>1 DEF Colours
    <3>6. Off(u)' = Colours
      BY <1>1, <1>4, <1>5, <1>6, <2>6, <3>1, <3>4, <3>5 DEF Off, OffSet
    <3> QED BY <1>2, <3>1, <3>6 DEF Covered
  <2>7. CASE u \notin clash /\ Rows[s0].saveFirst
    <3>1. Rows[s0].keep # "lcd"
      BY <1>1, <2>7, RowsSound DEF Sound
    <3>2. r = s0
      BY <1>1, <1>6, <2>2, <2>7, <3>1, ShowsOne
    <3>3. s0 = "SuperResolution"
      BY <1>1, <1>6, <2>7, FirstOf
    <3>4. s = s0
      BY <3>2, <3>3 DEF Regs
    <3>5. Off(u) = {s0}
      BY <1>1, <1>6, <2>3, <2>7 DEF Off, OffSet
    <3> QED BY <1>10, <3>4, <3>5
  <2>8. CASE u \notin clash /\ ~Rows[s0].saveFirst /\ s \in Due(s0)
    <3>1. Off(u)' = Due(s0)
      <4>1. Gated(s0, flags)' /\ call'[u].s = s0 /\ call'[u].op = "set" /\ u \notin clash'
        BY <1>1, <1>4, <1>5, <2>3, <2>8 DEF Gated
      <4> QED BY <1>6, <1>7, <2>8, <4>1, <1>5 DEF Off, OffSet
    <3> QED BY <1>2, <2>8, <3>1 DEF Covered
  <2>9. CASE u \notin clash /\ s \notin Due(s0)
    <3>1. \A q \in Regs(s) : q \in DOMAIN ShowLevels(u) => ShowLevels(u)[q] = Aim(s)
      BY <1>3, <1>7, <2>9, ShownElse
    <3>2. Regs(s) \subseteq inUse
      BY <1>1, AimIs
    <3>3. \A q \in Regs(s) : panel'[q] = Aim(s)
      BY <1>4, <2>1, <3>1, <3>2 DEF Follows
    <3>4. Regs(s)' = Regs(s) /\ Aim(s)' = Aim(s)
      BY <1>5, DiskStored DEF Regs, Aim, Lev
    <3> QED BY <3>3, <3>4 DEF Covered, Follows
  <2> QED BY <2>6, <2>7, <2>8, <2>9
<1> QED BY <1>8, <1>9, <1>10

\* A value that is written is found; one that is not is found as it was.
LEMMA WrittenValue ==
  ASSUME NEW new, file' = Rewritten(new), NEW s, NEW p
  PROVE  /\ <<s, p>> \in DOMAIN new => ValueAt(s, p)' = new[<<s, p>>]
         /\ <<s, p>> \notin DOMAIN new => ValueAt(s, p)' = ValueAt(s, p)
PROOF
<1>1. \A k : k \in DOMAIN file' <=> k \in DOMAIN new \/ k \in DOMAIN file
  BY DEF Rewritten
<1>2. \A k \in DOMAIN file' : file'[k] = IF k \in DOMAIN new THEN new[k] ELSE file[k]
  BY DEF Rewritten
<1> QED BY <1>1, <1>2 DEF ValueAt

\* The switch of the colours is kept whatever is asked.
LEMMA TuneKept == Rows["ColorTune"].always /\ ~Rows["ColorTune"].skips
PROOF
<1>1. ColorTune.always /\ ~ColorTune.skips
  BY SMTT(30) DEF ColorTune, Row
<1>2. Rows["ColorTune"] = ColorTune
  BY DEF Rows
<1> QED BY <1>1, <1>2

\* A setter writes its record with what the others of it hold.
LEMMA WriteSame ==
  ASSUME Ground, Facts, NEW u \in Threads, Write(u), u \notin clash, Working(u),
         NEW s \in Shared(call[u].s), s \in inUse, s # call[u].s
  PROVE  GetPlace(s)' = GetPlace(s) /\ Stored(s)' = Stored(s)
PROOF
<1> DEFINE s0 == call[u].s
<1>1. /\ call[u].op = "set" /\ s0 \in AllSettings /\ todo[u] \in SetLeft \ {<<>>} /\ Head(todo[u]) = "write"
  BY SetAccess DEF Write, Ground
<1>2. PICK new : WritesNew(u, new)
  BY WriteIs DEF Ground, Record
<1>3. file' = Rewritten(new) /\ \A k \in DOMAIN new : k[1] = s => Whole(s0) /\ new[k] = row[u].fields[s]
  BY <1>2 DEF WritesNew
<1>4. Rows[s].keep \in Recorded
  BY <1>1, SharedIs
<1>5. GetPlace(s)' = GetPlace(s)
  <2>1. sig' = sig /\ input' = input /\ modeOf' = modeOf
    BY DEF Write, members
  <2>2. Rows[s].keep # "level"
    BY <1>4 DEF Recorded
  <2> QED BY <2>1, <2>2, PlaceSame
<1>6. PICK place : place = GetPlace(s)
  OBVIOUS
<1>7. Stored(s) = ValueAt(s, place) /\ Stored(s)' = ValueAt(s, place)'
  BY <1>5, <1>6 DEF Stored
<1>8. CASE <<s, place>> \in DOMAIN new
  <2>1. Whole(s0) /\ new[<<s, place>>] = row[u].fields[s]
    BY <1>3, <1>8
  <2>2. todo[u] \in HasRead
    <3>1. todo[u] \in HasRead \cup NoRead
      BY <1>1, SetTails
    <3>2. todo[u] \in NoRead => ~Whole(s0)
      BY <1>1 DEF Ground, Shape
    <3> QED BY <2>1, <3>1, <3>2
  <2>3. RecordRead(u)
    BY <1>1, <2>1, <2>2 DEF Facts, FactsOf, SetFacts
  <2>4. row[u].fields[s] = Stored(s)
    BY <2>3 DEF RecordRead
  <2>5. ValueAt(s, place)' = new[<<s, place>>]
    BY <1>3, <1>8, WrittenValue
  <2> QED BY <1>5, <1>7, <2>1, <2>4, <2>5
<1>9. CASE <<s, place>> \notin DOMAIN new
  <2>1. ValueAt(s, place)' = ValueAt(s, place)
    BY <1>3, <1>9, WrittenValue
  <2> QED BY <1>5, <1>7, <2>1
<1> QED BY <1>8, <1>9

\* The switch of the colours is written as it was, unless the colours are dropped.
LEMMA TuneSame ==
  ASSUME Ground, NEW u \in Threads, Write(u), call[u].s = "ColorTune", Stored("ColorTune") = call[u].v
  PROVE  Stored("ColorTune")' = Stored("ColorTune")
PROOF
<1>1. PICK new : WritesNew(u, new)
  BY WriteIs DEF Ground, Record
<1>2. file' = Rewritten(new) /\ \A k \in DOMAIN new : k[1] = "ColorTune" => new[k] = call[u].v
  BY <1>1 DEF WritesNew
<1>3. GetPlace("ColorTune")' = GetPlace("ColorTune")
  BY Singled, PlaceSame DEF Moved
<1>4. PICK place : place = GetPlace("ColorTune")
  OBVIOUS
<1>5. Stored("ColorTune") = ValueAt("ColorTune", place) /\ Stored("ColorTune")' = ValueAt("ColorTune", place)'
  BY <1>3, <1>4 DEF Stored
<1>6. CASE <<"ColorTune", place>> \in DOMAIN new
  BY <1>2, <1>5, <1>6, WrittenValue
<1>7. CASE <<"ColorTune", place>> \notin DOMAIN new
  <2>1. ValueAt("ColorTune", place)' = ValueAt("ColorTune", place)
    BY <1>2, <1>7, WrittenValue
  <2> QED BY <1>5, <2>1
<1> QED BY <1>6, <1>7

\* What is kept is written.
LEMMA WriteCovers ==
  ASSUME Ground, Facts, Marks, NEW u \in Threads, Step(u), Write(u),
         NEW s \in settled', s \in inUse, s \notin settled \/ Covered(s, u)
  PROVE  Covered(s, u)'
PROOF
<1> DEFINE s0 == call[u].s  q == todo[u]
<1>1. /\ call[u].op = "set" /\ KindGoes(s0, q) /\ Head(q) = "write" /\ s0 \in AllSettings
      /\ q # <<>> /\ s \in AllSettings
  BY SetAccess, GroupsKnown DEF Write, Ground
<1>2. /\ panel' = panel /\ inUse' = inUse /\ flags' = flags /\ call' = call /\ clash' = clash
      /\ sig' = sig /\ input' = input /\ modeOf' = modeOf
      /\ settled' = IF s0 = "ColorTune" /\ Stored(s0) # call[u].v THEN settled \ Colours ELSE settled
      /\ On(u)
  BY DEF Write, fixed, members
<1>3. Working(u) /\ Working(u)' /\ todo'[u] = Tail(q)
  <2>1. q # <<"unlock">>
    BY <1>1
  <2>2. Working(u)
    BY <1>1, <2>1 DEF Working
  <2> QED BY <1>1, <1>2, <2>2, StillWorks DEF Ground
<1>4. /\ s0 = "ColorTune" => q \notin HasTuned
      /\ s0 # "ColorTune" /\ ~Rows[s0].saveFirst => todo'[u] = <<"return">>
      /\ q \in HasShown => todo'[u] \in HasShown
  <2>1. Head(<<"tune", "return">>) = "tune" /\ Head(<<"return">>) = "return"
    OBVIOUS
  <2>2. q \notin HasTuned
    BY <1>1, <2>1 DEF HasTuned
  <2>3. q \in HasShown => q = <<"write", "return">>
    <3>1. Head(<<"read", "write", "return">>) = "read"
      OBVIOUS
    <3> QED BY <1>1, <2>1, <3>1 DEF HasShown
  <2>4. Tail(<<"write", "return">>) = <<"return">>
    OBVIOUS
  <2> QED BY <1>1, <1>3, <2>2, <2>3, <2>4 DEF KindGoes, HasShown
<1>5. CASE s \in Off(u)
  <2>1. Off(u) \subseteq Off(u)'
    BY <1>1, <1>2, <1>4, OffKept
  <2> QED BY <1>3, <1>5, <2>1 DEF Covered
<1>6. ASSUME s \notin Off(u) PROVE s \in settled /\ Follows(s)
  BY <1>2, <1>6 DEF Covered
<1>7. ASSUME s \in Touched(call[u]), s \in settled, u \in clash PROVE s \in Colours
  BY <1>1, <1>7 DEF Marks, ClashUnsettled
<1>8. ASSUME s \in Due(s0), u \notin clash, s0 # "ColorTune", Gated(s0, flags), Rows[s0].saveFirst => s = s0
      PROVE  Covered(s, u)'
  <2>1. Gated(s0, flags)' /\ call'[u].s = s0 /\ call'[u].op = "set" /\ u \notin clash' /\ Due(s0)' = Due(s0)
    BY <1>1, <1>2, <1>8 DEF Gated, Due, Spoils
  <2>2. ~Rows[s0].saveFirst => todo'[u] \in HasShown
    BY <1>4, <1>8 DEF HasShown
  <2>3. s \in Off(u)'
    BY <1>2, <1>8, <2>1, <2>2 DEF Off, OffSet
  <2> QED BY <1>3, <2>3 DEF Covered
<1>9. CASE s \notin Off(u) /\ s \in Shared(s0) /\ u \in clash
  <2>1. s \in Colours
    BY <1>1, <1>6, <1>7, <1>9, TouchedBySet
  <2>2. s0 \in Colours
    <3>1. Rows[s0].keep = "cms"
      BY <1>1, <1>9, <2>1, SharedIs, RecordsAre
    <3> QED BY <1>1, <3>1, RecordsAre
  <2>3. s0 # "ColorTune" /\ ~Rows[s0].saveFirst
    BY <1>1, <2>2, FirstOf DEF Colours
  <2>4. Off(u)' = Colours
    BY <1>1, <1>2, <1>4, <1>9, <2>2, <2>3 DEF Off, OffSet, HasShown
  <2> QED BY <1>3, <2>1, <2>4 DEF Covered
<1>10. CASE s \notin Off(u) /\ s = s0 /\ u \notin clash
  <2>1. Gated(s0, flags) /\ s0 # "ColorTune" /\ s \in Due(s0)
    BY <1>6, <1>10 DEF Marks, SettledSound, NeverShown, Due
  <2> QED BY <1>8, <1>10, <2>1
<1>11. CASE s \notin Off(u) /\ s \in Shared(s0) /\ s # s0 /\ u \notin clash
  <2>1. Stored(s)' = Stored(s)
    BY <1>3, <1>11, WriteSame
  <2>2. ASSUME s \in Colours PROVE Stored("ColorTune")' = Stored("ColorTune")
    <3>1. "ColorTune" \notin Shared(s0)
      BY <1>1, <1>11, <2>2, SharedIs, RecordsAre, Singled
    <3>2. \A p : ValueAt("ColorTune", p)' = ValueAt("ColorTune", p)
      BY <3>1, FileElsewhere DEF Ground, Record
    <3>3. GetPlace("ColorTune")' = GetPlace("ColorTune")
      BY Singled, PlaceSame DEF Moved
    <3> QED BY <3>2, <3>3 DEF Stored
  <2>3. Aim(s)' = Aim(s) /\ Regs(s)' = Regs(s)
    BY <1>2, <2>1, <2>2 DEF Aim, Lev, Regs
  <2> QED BY <1>2, <1>6, <1>11, <2>3 DEF Covered, Follows
<1>12. CASE s \notin Off(u) /\ s0 = "MemcMode" /\ s = "MemcDeJudder"
  <2>1. u \notin clash
    BY <1>1, <1>6, <1>7, <1>12 DEF Touched, Colours
  <2>2. Gated(s0, flags) /\ s \in Due(s0) /\ ~Rows[s0].saveFirst
    BY <1>1, <1>6, <1>12, GatesAre, FirstOf DEF Marks, SettledSound, Due
  <2> QED BY <1>8, <1>12, <2>1, <2>2
<1>13. CASE s \notin Off(u) /\ s \notin Shared(s0) /\ ~(s0 = "MemcMode" /\ s = "MemcDeJudder")
  <2>1. \A p : ValueAt(s, p)' = ValueAt(s, p)
    BY <1>13, FileElsewhere DEF Ground, Record
  <2>2. ASSUME Rows[s].keep = "level" PROVE \A source : MemcStored(source)' = MemcStored(source)
    <3>1. s = "MemcDeJudder"
      BY <1>1, <1>6, <1>13, <2>2, KeepsOf DEF Marks, SettledSound, NeverShown
    <3>2. "MemcMode" \notin Shared(s0)
      BY <1>1, <1>13, <3>1, SharedIs, Singled DEF Recorded
    <3> QED BY <3>2, FileElsewhere DEF Ground, Record
  <2>3. GetPlace(s)' = GetPlace(s) /\ \A m : Place(s, m)' = Place(s, m)
    BY <1>2, <2>2, PlaceSame
  <2>4. ASSUME s \in Colours PROVE Stored("ColorTune")' = Stored("ColorTune")
    <3>1. CASE s0 = "ColorTune"
      <4>1. Stored(s0) = call[u].v
        BY <1>2, <2>4, <3>1
      <4> QED BY <3>1, <4>1, TuneSame
    <3>2. CASE s0 # "ColorTune"
      <4>1. "ColorTune" \notin Shared(s0)
        BY <1>1, <3>2, SharedIs, Singled DEF Recorded
      <4>2. \A p : ValueAt("ColorTune", p)' = ValueAt("ColorTune", p)
        BY <4>1, FileElsewhere DEF Ground, Record
      <4>3. GetPlace("ColorTune")' = GetPlace("ColorTune")
        BY Singled, PlaceSame DEF Moved
      <4> QED BY <4>2, <4>3 DEF Stored
    <3> QED BY <3>1, <3>2
  <2>5. Still(s)
    BY <1>2, <2>1, <2>3, <2>4 DEF Still
  <2>6. Covered(s, u)
    BY <1>6, <1>13 DEF Covered
  <2> QED BY <1>2, <1>13, <2>5, <2>6, CoverStays
<1> QED BY <1>1, <1>5, <1>9, <1>10, <1>11, <1>12, <1>13, SharedIs

\* The colours are loaded.
LEMMA TuneCovers ==
  ASSUME Ground, Facts, NEW u \in Threads, Step(u), Tune(u),
         NEW s \in settled', s \in inUse, s \notin settled \/ Covered(s, u)
  PROVE  Covered(s, u)'
PROOF
<1> DEFINE c == call[u]  q == todo[u]
           on == IF c.s = "ColorTune" THEN c.v ELSE Stored("ColorTune")
<1>1. /\ c.op = "set" /\ KindGoes(c.s, q) /\ Head(q) = "tune" /\ c.s \in AllSettings
      /\ q # <<>> /\ s \in AllSettings
  BY SetAccess, GroupsKnown DEF Tune, Ground
<1>2. /\ Disk /\ inUse' = inUse /\ flags' = flags /\ call' = call
      /\ panel' = [r \in inUse |-> IF tuneCached # on /\ r \in Colours THEN ColoursShown(on)[r] ELSE panel[r]]
      /\ settled' = IF tuneCached # on THEN settled \cup (inUse \cap Colours) ELSE settled
      /\ c.s = "ColorTune" => On(u) /\ clash' = clash
  BY DiskLeft DEF Tune, fixed
<1>3. Working(u)
  <2>1. q # <<"unlock">>
    BY <1>1
  <2> QED BY <1>1, <2>1 DEF Working
<1>4. /\ c.s = "ColorTune" => q = <<"tune", "return">>
      /\ c.s # "ColorTune" => c.s \in Colours /\ q \notin HasShown /\ ~Rows[c.s].saveFirst
  <2>1. c.s # "ColorTune" => Rows[c.s].keep = "cms" /\ q \notin HasShown
    BY <1>1 DEF KindGoes
  <2>2. c.s # "ColorTune" => c.s \in Colours
    BY <1>1, <2>1, RecordsAre
  <2>3. c.s \in Colours => ~Rows[c.s].saveFirst
    BY <1>1, FirstOf DEF Colours
  <2> QED BY <1>1, <2>1, <2>2, <2>3 DEF KindGoes
<1>5. Off(u) \subseteq IF u \in clash /\ c.s = "ColorTune" THEN Colours ELSE {}
  BY <1>1, <1>4 DEF Off, OffSet
<1> HIDE DEF on
<1>6. CASE s \notin Colours
  <2>1. s \in settled /\ Covered(s, u) /\ s \notin Off(u)
    BY <1>2, <1>5, <1>6
  <2>2. \A r \in Regs(s) : r \in inUse /\ r \notin Colours
    BY <1>6 DEF Regs, Colours
  <2>3. \A r \in Regs(s) : panel'[r] = panel[r]
    BY <1>2, <2>2
  <2>4. Still(s)
    BY <1>2, <2>3, DiskStill
  <2> QED BY <1>2, <2>1, <2>4, CoverStays
<1>7. CASE s \in Colours /\ u \in clash /\ c.s = "ColorTune"
  <2>1. todo'[u] = <<"return">> /\ Working(u)'
    <3>1. Working(u)' /\ todo'[u] = Tail(q)
      BY <1>1, <1>2, <1>3, <1>7, StillWorks DEF Ground
    <3>2. Tail(<<"tune", "return">>) = <<"return">>
      OBVIOUS
    <3> QED BY <1>4, <1>7, <3>1, <3>2
  <2>2. Off(u)' = Colours
    BY <1>1, <1>2, <1>7, <2>1 DEF Off, OffSet, HasTuned
  <2> QED BY <1>7, <2>1, <2>2 DEF Covered
<1>8. CASE s \in Colours /\ ~(u \in clash /\ c.s = "ColorTune")
  <2>1. on = Stored("ColorTune")
    <3>1. CASE c.s = "ColorTune"
      <4>1. Keeps(c)
        BY <1>1, <3>1, TuneKept DEF Keeps
      <4>2. q \in Wrote
        BY <1>4, <3>1 DEF Wrote
      <4>3. <<c.s, GetPlace(c.s)>> \in DOMAIN file /\ file[<<c.s, GetPlace(c.s)>>] = c.v
        BY <1>1, <1>8, <3>1, <4>1, <4>2 DEF Ground, Record, WriteKept
      <4> QED BY <3>1, <4>3 DEF on, Stored, ValueAt
    <3>2. CASE c.s # "ColorTune"
      BY <3>2 DEF on
    <3> QED BY <3>1, <3>2
  <2>2. Regs(s) = {s} /\ Aim(s) = IF Stored("ColorTune") = 1 THEN Stored(s) ELSE 0
    BY <1>1, <1>8, AimIs DEF Colours
  <2>3. CASE tuneCached # on
    <3>1. panel'[s] = ColoursShown(on)[s]
      BY <1>2, <1>8, <2>3
    <3>2. panel'[s] = Aim(s)
      BY <1>8, <2>1, <2>2, <3>1 DEF ColoursShown
    <3>3. Regs(s)' = Regs(s) /\ Aim(s)' = Aim(s)
      BY <1>2, DiskStored DEF Regs, Aim, Lev
    <3> QED BY <2>2, <3>2, <3>3 DEF Covered, Follows
  <2>4. CASE tuneCached = on
    <3>1. s \notin Off(u) /\ Covered(s, u)
      BY <1>2, <1>5, <1>8, <2>4
    <3>2. \A r \in Regs(s) : panel'[r] = panel[r]
      BY <1>2, <2>2, <2>4
    <3>3. Still(s)
      BY <1>2, <3>2, DiskStill
    <3> QED BY <1>2, <3>1, <3>3, CoverStays
  <2> QED BY <2>3, <2>4
<1> QED BY <1>6, <1>7, <1>8

-----------------------------------------------------------------------------
(* The panel follows what is kept.                                          *)

\* An access covers the settings that were covered by its own call, and those it
\* says are shown.
LEMMA StepCovers ==
  ASSUME Ground, Facts, Marks, NEW u \in Threads, Step(u),
         NEW s \in settled', s \in inUse, s \notin settled \/ Covered(s, u)
  PROVE  Covered(s, u)'
PROOF
<1>0. inUse \subseteq AllSettings /\ SettledSound
  BY GroupsKnown DEF Ground, Marks
<1>1. CASE Show(u)
  BY <1>1, RefusedCovers, ShowCovers
<1>2. CASE Write(u) \/ Tune(u) \/ Return(u)
  BY <1>2, WriteCovers, TuneCovers, ReturnCovers
<1>3. CASE Read(u) \/ LoadMode(u) \/ ReadRow(u) \/ Lock(u) \/ Unlock(u)
  BY <1>3, ReadCovers
<1>4. CASE SaveMode(u) \/ Members(u)
  BY <1>0, <1>4, SaveCovers, MembersCovers
<1>5. CASE ShowRow(u) \/ ShowTable(u) \/ ShowStart(u) \/ Display(u)
  BY <1>0, <1>5, RowCovers, TableCovers, StartCovers, DisplayCovers
<1> QED BY <1>1, <1>2, <1>3, <1>4, <1>5 DEF Step

\* An access: what another call is at work on stays so.
LEMMA StepPanelInv ==
  ASSUME Ground, Facts, Marks, PanelInv, NEW u \in Threads, Step(u)
  PROVE  PanelInv'
PROOF
<1> SUFFICES ASSUME NEW s \in settled'
             PROVE  Follows(s)' \/ \E t \in Threads : Working(t)' /\ s \in Off(t)'
  BY DEF PanelInv
<1>1. s \in inUse
  BY StepSettles DEF Marks, SettledSound
<1>2. CASE s \in settled /\ ~Covered(s, u)
  <2>1. PICK t \in Threads : Working(t) /\ s \in Off(t)
    BY <1>2 DEF PanelInv, Covered
  <2>2. t # u
    BY <1>2, <2>1 DEF Covered
  <2>3. Working(t)' /\ s \in Off(t)'
    BY <2>1, <2>2, OffOther
  <2> QED BY <2>3
<1>3. CASE s \notin settled \/ Covered(s, u)
  BY <1>1, <1>3, StepCovers DEF Covered
<1> QED BY <1>2, <1>3

\* A call that begins takes from what is to be shown whatever a call it runs into
\* is at work on.
LEMMA BeginPanelInv ==
  ASSUME Ground, Marks, PanelInv, NEW u \in Threads, NEW c \in Calls, NEW p \in Programs,
         Starts(u, c, p), Begin(u, c, p)
  PROVE  PanelInv'
PROOF
<1> DEFINE others == {t \in Threads \ {u} : Working(t) /\ Conflict(c, call[t])}
           disturbed == UNION {Touched(c) \cup Touched(call[t]) : t \in others}
<1>1. /\ inUse' = inUse /\ flags' = flags /\ settled' = settled \ disturbed /\ panel' = panel /\ Disk
      /\ clash' = IF others = {} THEN clash ELSE clash \cup others \cup {u}
      /\ call' = [call EXCEPT ![u] = c] /\ todo' = [todo EXCEPT ![u] = p] /\ todo[u] = <<>>
  BY DEF Begin, fixed, disk, members, Disk
<1> SUFFICES ASSUME NEW s \in settled'
             PROVE  Follows(s)' \/ \E t \in Threads : Working(t)' /\ s \in Off(t)'
  BY DEF PanelInv
<1>2. s \in settled /\ s \notin disturbed /\ s \in inUse
  BY <1>1 DEF Marks, SettledSound
<1>3. CASE Follows(s)
  BY <1>1, <1>3, NothingShown, StillFollows
<1>4. CASE ~Follows(s)
  <2>1. PICK t \in Threads : Working(t) /\ s \in Off(t)
    BY <1>2, <1>4 DEF PanelInv
  <2>2. t # u
    BY <1>1, <2>1 DEF Working
  <2>3. call'[t] = call[t] /\ todo'[t] = todo[t]
    BY <1>1, <2>2 DEF Ground, Shape
  <2>4. t \notin others
    <3> SUFFICES ASSUME t \in others PROVE FALSE
      OBVIOUS
    <3>1. s \in Touched(call[t])
      BY <1>2, <2>1, OffTouched
    <3> QED BY <1>2, <3>1
  <2>5. t \in clash' <=> t \in clash
    BY <1>1, <2>2, <2>4
  <2>6. Off(t)' = Off(t)
    BY <1>1, <2>3, <2>5, OffSame DEF Disk
  <2> QED BY <2>1, <2>3, <2>6 DEF Working
<1> QED BY <1>3, <1>4

\* In every state, a setting that is to be shown is shown or is being set or loaded.
THEOREM PanelInvHolds == Spec => []PanelInv
PROOF
<1>1. Init => PanelInv
  BY DEF Init, PanelInv
<1>2. PanelInv /\ Ground /\ Facts /\ Marks /\ [Next]_vars => PanelInv'
  <2> SUFFICES ASSUME PanelInv, Ground, Facts, Marks, [Next]_vars PROVE PanelInv'
    OBVIOUS
  <2>1. CASE UNCHANGED vars
    <3>1. /\ Disk /\ panel' = panel /\ inUse' = inUse /\ flags' = flags /\ settled' = settled
          /\ clash' = clash /\ call' = call /\ todo' = todo
      BY <2>1 DEF vars, disk, members, fixed, history, Disk
    <3>2. \A s : Follows(s)' <=> Follows(s)
      BY <3>1, NothingShown, StillFollows
    <3>3. ASSUME NEW t PROVE Off(t)' = Off(t) /\ Working(t)' = Working(t)
      BY <3>1, OffSame DEF Disk, Working
    <3> QED BY <3>1, <3>2, <3>3 DEF PanelInv
  <2>2. CASE Restart
    BY <2>2 DEF Restart, PanelInv
  <2>3. CASE Next
    BY <2>2, <2>3, NextIs, BeginPanelInv, StepPanelInv DEF Ground
  <2> QED BY <2>1, <2>3
<1> QED BY <1>1, <1>2, GroundHolds, FactsHold, MarksHold, PTL DEF Spec

\* What PanelFollows expects in a register is the level the register is to show.
LEMMA ExpectedIs ==
  ASSUME NEW s \in AllSettings, s \in inUse, Follows(s), NEW r \in DOMAIN Expected(s)
  PROVE  panel[r] = Expected(s)[r]
PROOF
<1>1. "MpegNr" \notin Colours
  BY DEF Colours
<1>2. s \in Colours => Rows[s].keep = "cms"
  BY RecordsAre
<1>3. CASE s \in Colours
  <2>1. Expected(s) = [q \in {s} |-> IF Stored("ColorTune") = 1 THEN Stored(q) ELSE 0]
    BY <1>1, <1>2, <1>3 DEF Expected
  <2> HIDE DEF Stored
  <2>2. r = s /\ Expected(s)[r] = IF Stored("ColorTune") = 1 THEN Stored(s) ELSE 0
    BY <2>1
  <2>3. Regs(s) = {s} /\ Aim(s) = IF Stored("ColorTune") = 1 THEN Stored(s) ELSE 0
    BY <1>1, <1>3, AimIs
  <2> QED BY <2>2, <2>3 DEF Follows
<1>4. CASE s = "MpegNr"
  <2> DEFINE P == {q \in inUse \cap {"Deblock", "DemoSquito"} : Gated(q, flags)}
  <2>1. Expected(s) = [q \in P |-> Stored(s)]
    BY <1>1, <1>4, NotLut DEF Expected
  <2>2. Regs(s) = P
    BY <1>4 DEF Regs
  <2>3. Rows[s].keep # "lut" /\ Rows[s].keep # "cms"
    BY <1>4, Singled
  <2>4. Aim(s) = Stored(s)
    BY <2>3, AimIs
  <2> HIDE DEF P
  <2>5. r \in P /\ Expected(s)[r] = Stored(s)
    BY <2>1
  <2> QED BY <2>2, <2>4, <2>5 DEF Follows
<1>5. CASE s # "MpegNr" /\ s \notin Colours /\ Rows[s].keep = "lut"
  <2>1. Expected(s) = [q \in {s} |-> LutGain(Stored(q))]
    BY <1>5 DEF Expected
  <2>2. r = s /\ Expected(s)[r] = LutGain(Stored(s))
    BY <2>1
  <2>3. Regs(s) = {s} /\ Aim(s) = LutGain(Stored(s))
    BY <1>5 DEF Regs, Aim, Lev
  <2> QED BY <2>2, <2>3 DEF Follows
<1>6. CASE s # "MpegNr" /\ s \notin Colours /\ Rows[s].keep # "lut"
  <2>1. Expected(s) = [q \in {s} |-> Stored(q)]
    BY <1>6 DEF Expected
  <2>2. r = s /\ Expected(s)[r] = Stored(s)
    BY <2>1
  <2>3. Regs(s) = {s} /\ Aim(s) = Stored(s)
    BY <1>6 DEF Regs, Aim, Lev
  <2> QED BY <2>2, <2>3 DEF Follows
<1> QED BY <1>3, <1>4, <1>5, <1>6

\* Between calls the panel shows, for the settings that are to be shown, the values
\* kept for the current mode of the current source.
THEOREM PanelAgrees == Spec => []PanelFollows
PROOF
<1>1. Ground /\ Marks /\ PanelInv => PanelFollows
  <2> SUFFICES ASSUME Ground, Marks, PanelInv, Quiet, NEW s \in settled
               PROVE  LET e == Expected(s) IN \A r \in DOMAIN e : panel[r] = e[r]
    BY DEF PanelFollows
  <2>1. s \in inUse /\ s \in AllSettings
    BY GroupsKnown DEF Ground, Marks, SettledSound
  <2>2. \A t \in Threads : ~Working(t)
    BY DEF Quiet, Working
  <2>3. Follows(s)
    BY <2>2 DEF PanelInv
  <2> QED BY <2>1, <2>3, ExpectedIs
<1> QED BY <1>1, GroundHolds, MarksHold, PanelInvHolds, PTL

=============================================================================
