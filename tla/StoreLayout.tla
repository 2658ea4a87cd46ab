---------------------------- MODULE StoreLayout -----------------------------
(***************************************************************************)
(* Where the settings lie in ssm_data: the items of the header table in    *)
(* the order of their ids, the slots of the items that hold one per source *)
(* and timing, and the bytes each accessor of SSMAction reaches.  An access*)
(* names an item and an index, never an address: this module says which    *)
(* bytes it touches and whose they are.                                    *)
(***************************************************************************)
EXTENDS StoreAddress, Sequences, FiniteSets

CONSTANT SourceMax   \* SOURCE_MAX, the sources of the driver

\* The old mode items give a byte to each source and timing of the store and are
\* indexed by the sources of the driver.
ASSUME LayoutAssumption ==
    /\ SourceMax \in Nat \ {0} /\ SourceMax <= SrcMax * FmtMax
    /\ ModeMax <= 2 * ModeSlots

VARIABLES
    item, args,      \* what the last access named
    index, width     \* the offset in the item and the bytes moved

vars == <<item, args, index, width>>

-----------------------------------------------------------------------------
(* Sizes of a slot: the structure and its flag.                            *)

ModeInfoSize == 8
ModeParamSize == 30 * 4 + 4
TempParamSizeNoFlag == 10 * 4
TempParamSize == 10 * 4 + 4
GammaParamSize == (21 * 3 + 1) * 4 + 4
SscSize == 20

\* gSSMHeader_section2, the items some accessor names, in id order.  An item
\* no accessor names only shifts the ones behind it.
FirstItems ==
    << <<"character", 10>>, <<"mark1", 1>>, <<"mark2", 1>>, <<"mark3", 1>>,
       <<"blackout", 1>>, <<"color_demo", 1>>, <<"color_base", 1>>, <<"ddr_ssc", 1>>,
       <<"lvds_ssc", 8 * SscSize>> >>

SourceItems ==
    << <<"brightness", SourceMax>>, <<"contrast", SourceMax>>, <<"saturation", SourceMax>>,
       <<"hue", SourceMax>>, <<"sharpness", SourceMax>>, <<"color_temp", SourceMax>>,
       <<"nr", SourceMax>>, <<"picture_mode", SrcMax * FmtMax>>,
       <<"display_mode", SourceMax>>, <<"backlight", SourceMax>>,
       <<"gain_r", 4>>, <<"gain_g", 4>>, <<"gain_b", 4>>,
       <<"offset_r", 4>>, <<"offset_g", 4>>, <<"offset_b", 4>>,
       <<"rgb", 18>>, <<"color_space", 1>>, <<"gamma_value", SourceMax>>,
       <<"eye_protection", 1>>, <<"dnlp", SourceMax>>, <<"dnlp_gain", SourceMax>>,
       <<"local_contrast", SourceMax>>, <<"last_picture_mode", SrcMax * FmtMax>>,
       <<"aipq", 1>>, <<"smooth_plus", SourceMax>>, <<"hdr_tmo", SourceMax>>,
       <<"deblock", SourceMax>>, <<"demosquito", SourceMax>>,
       <<"color_gamut", SourceMax>>, <<"mcdi", SourceMax>> >>

LastItems ==
    << <<"edid1", 1>>, <<"edid2", 1>>, <<"edid3", 1>>, <<"edid4", 1>>, <<"hdcp", 1>>,
       <<"color_range", 1>>, <<"dynamic_backlight", SourceMax>>,
       <<"edge_enhance", SourceMax>>, <<"mpeg_nr", SourceMax>>,
       <<"dynamic_contrast", SourceMax>>, <<"auto_aspect", SourceMax>>,
       <<"stretch_43", SourceMax>>, <<"screen_color", 1>>, <<"memc", SourceMax>>,
       <<"memc_deblur", SourceMax * 4>>, <<"memc_dejudder", SourceMax * 4>>,
       <<"aisr", 1>>, <<"black_stretch", SourceMax>>, <<"blue_stretch", SourceMax>>,
       <<"chroma_coring", SourceMax>>, <<"local_dimming", SourceMax>>,
       <<"mode_param", SrcMax * FmtMax * ModeSlots * ModeParamSize>>,
       <<"temp_param", SrcMax * FmtMax * TempMax * TempParamSize>>,
       <<"cm", 120>>, <<"lut3d", 80>>, <<"pq_mode", SrcMax * FmtMax * ModeInfoSize>>,
       <<"gamma_param", SrcMax * FmtMax * TempMax * GammaModes * GammaParamSize>>,
       <<"color_tune", 1>>, <<"last_pq_mode", SrcMax * FmtMax * ModeInfoSize>>,
       <<"gamma_mode", 1>>, <<"film_maker", 1>> >>

Items == FirstItems \o SourceItems \o LastItems
Name(k) == Items[k][1]
Size(k) == Items[k][2]

\* The constructor of SSMHandler sums the sizes of the items before.
Addr[k \in 1..Len(Items)] == IF k = 1 THEN 0 ELSE Addr[k - 1] + Size(k - 1)

IdOf(n) == CHOOSE k \in 1..Len(Items) : Name(k) = n

-----------------------------------------------------------------------------
(* Accessors: <<item, bytes moved, offsets the callers pass>>.             *)

\* The accessors in the order of SSMAction.cpp.
ColourAccess ==
    { <<"color_temp", 1, Per(SourceMax)>>, <<"color_demo", 1, {0}>>,
      <<"color_base", 1, {0}>>, <<"color_gamut", 1, Per(SourceMax)>>,
      <<"gain_r", 4, {0}>>, <<"gain_g", 4, {0}>>, <<"gain_b", 4, {0}>> }
OffsetAccess ==
    { <<"offset_r", 4, {0}>>, <<"offset_g", 4, {0}>>, <<"offset_b", 4, {0}>>,
      <<"rgb", 1, Per(18)>>, <<"color_space", 1, {0}>> }
PictureAccessByPqSource ==
    {"brightness", "contrast", "saturation", "hue", "sharpness", "nr",
     "smooth_plus", "gamma_value"} \X {1} \X {Per(SrcMax)}
PictureAccess ==
    {"brightness", "contrast", "saturation", "hue", "sharpness", "nr",
     "smooth_plus", "gamma_value"} \X {1} \X {Per(SourceMax)}
CustomerAccess ==
    ({"edge_enhance", "mpeg_nr", "dynamic_contrast", "dnlp"} \X {1} \X {Per(SourceMax)})
    \cup ({"dynamic_backlight", "dnlp_gain", "eye_protection", "ddr_ssc", "backlight"}
              \X {1} \X {{0}})
PanelAccess ==
    { <<"lvds_ssc", 12, {SscSize * p : p \in Per(8)}>>, <<"aipq", 1, {0}>>,
      <<"aisr", 1, {0}>> }
    \cup ({"display_mode", "auto_aspect", "stretch_43", "local_contrast", "deblock",
           "demosquito", "mcdi"} \X {1} \X {Per(SourceMax)})
    \cup ({"edid1", "edid2", "edid3", "edid4", "hdcp", "color_range"} \X {1} \X {{0}})
MotionAccess ==
    ({"hdr_tmo", "memc", "black_stretch", "blue_stretch", "chroma_coring",
      "local_dimming"} \X {1} \X {Per(SourceMax)})
    \cup ({"memc_deblur", "memc_dejudder"} \X {1} \X {Per(SourceMax * 4)})
LateAccess ==
    { <<"cm", 9 * 3 * 4, {0}>>, <<"lut3d", 6 * 3 * 4, {0}>> }
    \cup ({"color_tune", "gamma_mode", "film_maker"} \X {1} \X {{0}})
MarkAccess ==
    {"character", "mark1", "mark2", "mark3", "blackout", "screen_color"} \X {1} \X {{0}}

Accessors == ColourAccess \cup OffsetAccess \cup PictureAccess \cup CustomerAccess
                 \cup PanelAccess \cup MotionAccess \cup LateAccess \cup MarkAccess

-----------------------------------------------------------------------------
(* Accesses.                                                               *)

Access(n, x, off, w) == item' = n /\ args' = x /\ index' = off /\ width' = w

SettingAccess ==
    \E a \in Accessors : \E off \in a[3] : Access(a[1], <<>>, off, a[2])

\* SSMSavePictureMode, SSMSaveLastPictureMode: one byte per source.
OldModeAccess ==
    \E n \in {"picture_mode", "last_picture_mode"}, off \in Per(SourceMax) :
        Access(n, <<>>, off, 1)

\* SetPictureMode, SetLastPictureMode.
ModeAccess ==
    \E n \in {"pq_mode", "last_pq_mode"}, x \in Pairs :
        Access(n, x, PairIndex(x) * ModeInfoSize, ModeInfoSize)

\* SetPictureModeData, GetPictureModeData: the data and the flag.
ModeDataAccess ==
    \E x \in Modes : Access("mode_param", x, ModeIndex(x) * ModeParamSize, ModeParamSize)

\* SetColorTemperatureData, GetColorTemperatureData.
TempDataAccess ==
    \E x \in Temps : Access("temp_param", x, TempIndex(x) * TempParamSize, TempParamSize)

\* SetWhitebalanceGammaData, GetWhitebalanceGammaData.
GammaDataAccess ==
    \E x \in Gammas :
        Access("gamma_param", x, GammaIndex(x) * GammaParamSize, GammaParamSize)

Init == item = "mark1" /\ args = <<>> /\ index = 0 /\ width = 1
Next == \/ SettingAccess \/ OldModeAccess \/ ModeAccess
        \/ ModeDataAccess \/ TempDataAccess \/ GammaDataAccess
Spec == Init /\ [][Next]_vars

-----------------------------------------------------------------------------
(* Properties.                                                             *)

From == Addr[IdOf(item)] + index
Inside(k) == Addr[k] <= From /\ From + width <= Addr[k] + Size(k)

\* A mode MAX_PICTUREMODE_INDEX leaves no slot for, in the last timing of the
\* last source.
Spills == item = "mode_param" /\ args[1] = SrcMax - 1 /\ args[2] = FmtMax - 1
              /\ args[3] >= ModeSlots

\* Every accessor stays inside its item, for every index its callers pass: no
\* setting can overwrite the bytes of another one, nor the marks.  The one
\* exception is named: the modes without a slot of the last timing of the last
\* source (SSMWriteNTypes checks neither offset nor length).
OwnItem == Inside(IdOf(item)) <=> ~Spills

\* What those modes overwrite is a colour temperature of the default source
\* and timing, the slots every source without its own falls back to.
SpillReachesDefault ==
    Spills => \A b \in From..(From + width - 1) :
        \E l \in Per(TempMax) :
            LET a == Addr[IdOf("temp_param")] + TempIndex(<<0, 0, l>>) * TempParamSize IN
            b \in a..(a + TempParamSize - 1)

\* Two different slots never lie on the same bytes, except the slot of a mode
\* beyond MAX_PICTUREMODE_INDEX, which is the slot of the next timing's mode.
SlotUnshared ==
    /\ item = "pq_mode" => \A x \in Pairs : PairIndex(x) * ModeInfoSize = index => x = args
    /\ item = "temp_param" =>
           \A x \in Temps : TempIndex(x) * TempParamSize = index => x = args
    /\ item = "gamma_param" =>
           \A x \in Gammas : GammaIndex(x) * GammaParamSize = index => x = args
    /\ item = "mode_param" =>
           \A x \in Modes : ModeIndex(x) * ModeParamSize = index =>
               x = args \/ (x[3] >= ModeSlots) # (args[3] >= ModeSlots)
=============================================================================
