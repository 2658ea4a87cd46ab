---------------------------- MODULE StoreAddress ----------------------------
(***************************************************************************)
(* Which slot of the settings store an accessor of SSMAction reaches: the  *)
(* index it computes from source, timing, mode or colour temperature.      *)
(***************************************************************************)
EXTENDS Integers

CONSTANTS
    SrcMax,          \* PQ_SRC_MAX
    FmtMax,          \* PQ_FMT_MAX
    ModeMax,         \* VPP_PICTURE_MODE_MAX
    TempMax,         \* VPP_COLOR_TEMPERATURE_MODE_MAX
    ModeSlots,       \* MAX_PICTUREMODE_INDEX
    GammaModes       \* WB_GAMMA_MODE_MAX

ASSUME AddressAssumption ==
    /\ SrcMax \in Nat \ {0} /\ FmtMax \in Nat \ {0} /\ ModeMax \in Nat \ {0}
    /\ TempMax \in Nat \ {0} /\ ModeSlots \in Nat \ {0} /\ GammaModes \in Nat \ {0}

Per(n) == 0..(n - 1)

Srcs == Per(SrcMax)
Fmts == Per(FmtMax)
Pairs == Srcs \X Fmts
Modes == Srcs \X Fmts \X Per(ModeMax)
Temps == Srcs \X Fmts \X Per(TempMax)
Gammas == Srcs \X Fmts \X Per(TempMax) \X Per(GammaModes)

PairIndexBySource(x) == x[1] * SrcMax + x[2]
PairIndex(x) == x[1] * FmtMax + x[2]
ModeIndex(x) == x[1] * FmtMax * ModeSlots + x[2] * ModeSlots + x[3]
TempIndex(x) == x[1] * FmtMax * TempMax + x[2] * TempMax + x[3]
GammaIndexNarrow(x) == x[1] * FmtMax * TempMax * GammaModes + x[2] * TempMax * GammaModes
                           + x[3] * (GammaModes - 1) + x[4]
GammaIndex(x) == x[1] * FmtMax * TempMax * GammaModes + x[2] * TempMax * GammaModes
                     + x[3] * GammaModes + x[4]
=============================================================================
