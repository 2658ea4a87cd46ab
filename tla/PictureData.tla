---------------------------- MODULE PictureData -----------------------------
(***************************************************************************)
(* The picture parameters of CPQControl in the new configuration: which    *)
(* mode is saved for a source and timing, the data kept for each source,   *)
(* timing and mode, the fall back to the slots of the default source, the  *)
(* three resets to the database, the two factory copies and the data the   *)
(* hardware was last loaded with.  One action per call; slots are reached  *)
(* through the index SSMAction computes, so modes beyond                   *)
(* MAX_PICTUREMODE_INDEX share the slots of the next timing.               *)
(***************************************************************************)
EXTENDS StoreAddress, FiniteSets

CONSTANTS
    Dolby,           \* PQ_FMT_DOLVI
    DolbyBright,     \* VPP_PICTURE_MODE_DOLVI_BRIGHT
    DbRows,          \* the rows <<src, timming, mode>> PQ_GetPictureModeParams finds
    Partial,         \* the rows without the Type "ColorTemperature"
    RowTemp,         \* the colour temperature of the other rows
    User,            \* parameters a client set
    Absent,          \* no valid flag, no data
    DolbySources,    \* sources reset to Dolby bright on that timing
    MaxOps           \* bound: calls

ASSUME DataAssumption ==
    /\ Dolby \in Fmts /\ DolbyBright \in Per(ModeMax)
    /\ DbRows \subseteq Modes /\ Partial \subseteq DbRows
    /\ RowTemp \in [DbRows -> Per(TempMax)]
    /\ User \notin DbRows /\ MaxOps \in Nat

VARIABLES
    cur,             \* <<CurSource, CurTimming>>
    pqmode, last,    \* the slots of SetPictureMode and SetLastPictureMode
    mem,             \* mem[a]: the slot SetPictureModeData writes at index a
    panel,           \* the picture parameters the hardware has
    mbResetPicture,
    ops

saved == <<cur, pqmode, last>>
vars == <<cur, pqmode, last, mem, panel, mbResetPicture, ops>>

Standard == 0        \* VPP_PICTURE_MODE_STANDARD
Pics == DbRows \cup {User}
Data == [pic : Pics, temp : Per(TempMax)]
Addrs == 0..ModeIndex(<<SrcMax - 1, FmtMax - 1, ModeMax - 1>>)
At(x, m) == <<x[1], x[2], m>>

-----------------------------------------------------------------------------
(* Reading.                                                                *)

\* GetPictureMode and GetLastPictureMode: the own slot or the default one.
Effective(slots) == IF slots[cur] # Absent THEN slots[cur] ELSE slots[<<0, 0>>]
GetPQMode == IF Effective(pqmode) = Absent THEN Standard ELSE Effective(pqmode)
GetLastPQMode == IF Effective(last) = Absent THEN Standard ELSE Effective(last)

\* GetPictureModeDataBySrcTimming; GetPictureModeData is this for cur.
Own(memory, x) == memory[ModeIndex(x)]
DataIn(memory, x) == IF Own(memory, x) # Absent THEN Own(memory, x)
                     ELSE Own(memory, <<0, 0, x[3]>>)
SlotData(x) == DataIn(mem, x)
GetPictureModeData(m) == SlotData(At(cur, m))

\* PQ_GetPictureModeParams fills the fields the row has a Type for and leaves
\* the others of the caller's structure; the row of the default source serves
\* a source without a row.
RowOf(x) == IF x \in DbRows THEN x ELSE <<0, 0, x[3]>>
HasRow(x) == RowOf(x) \in DbRows
FromRow(x, old) == [pic |-> RowOf(x),
                    temp |-> IF RowOf(x) \in Partial THEN old.temp ELSE RowTemp[RowOf(x)]]

-----------------------------------------------------------------------------
(* Writing.                                                                *)

SetPictureModeData(x, d) == mem' = [mem EXCEPT ![ModeIndex(x)] = d]

\* SetPQPictureMode loads the hardware only if there is data.
SetPQPictureModeUnchecked(d) == panel' = d
SetPQPictureMode(d) == panel' = IF d = Absent THEN panel ELSE d

\* One reset: a slot in use whose mode has a row takes it.
ResetData(x) ==
    IF mem[ModeIndex(x)] # Absent /\ HasRow(x)
    THEN SetPictureModeData(x, FromRow(x, mem[ModeIndex(x)])) ELSE UNCHANGED mem

\* The reset loops over the slots S in the order of source, timing and mode.
\* Two of S may share an index: the later one wins, and a field its row lacks
\* keeps what the earlier one left.
LoopNo(x) == (x[1] * FmtMax + x[2]) * ModeMax + x[3]
LastOf(S) == CHOOSE x \in S : \A y \in S : LoopNo(y) <= LoopNo(x)
ResetDataUnused(S) ==
    mem' = [a \in Addrs |->
        LET W == {x \in S : ModeIndex(x) = a /\ RowOf(x) \in DbRows \ Partial} IN
        IF W = {} THEN mem[a]
        ELSE [pic |-> RowOf(LastOf(W)), temp |-> RowTemp[RowOf(LastOf(W))]]]
ResetDataOf(S) ==
    mem' = [a \in Addrs |->
        LET W == {x \in S : ModeIndex(x) = a /\ HasRow(x)}
            C == {x \in W : RowOf(x) \notin Partial} IN
        IF mem[a] = Absent \/ W = {} THEN mem[a]
        ELSE [pic |-> RowOf(LastOf(W)),
              temp |-> IF C = {} THEN mem[a].temp ELSE RowTemp[RowOf(LastOf(C))]]]

ResetModeOf(f) == IF f = Dolby THEN DolbyBright ELSE Standard

\* ResetPictureModeBySrc: mode and last mode each by their own flag.
ResetModes(slots) ==
    [x \in Pairs |-> IF x[1] = cur[1] /\ slots[x] # Absent THEN ResetModeOf(x[2])
                     ELSE slots[x]]

-----------------------------------------------------------------------------
(* Calls.                                                                  *)

Count == ops < MaxOps /\ ops' = ops + 1

\* Another source or timing, from SetCurrentSourceInputInfo with its load or
\* from an HDR event of the video layer without.
MoveSlot(x, load) ==
    /\ Count /\ cur' = x
    /\ LET s == pqmode[x]
           m == IF s # Absent THEN s
                ELSE IF pqmode[<<0, 0>>] = Absent THEN Standard ELSE pqmode[<<0, 0>>] IN
       IF load THEN SetPQPictureMode(SlotData(At(x, m))) ELSE UNCHANGED panel
    /\ UNCHANGED <<pqmode, last, mem, mbResetPicture>>

SetPQModeSameReturns(m, is_save) ==
    /\ Count
    /\ IF GetPQMode = m
       THEN UNCHANGED <<pqmode, panel, mbResetPicture>>
       ELSE /\ pqmode' = IF is_save THEN [pqmode EXCEPT ![cur] = m] ELSE pqmode
            /\ SetPQPictureMode(GetPictureModeData(m)) /\ mbResetPicture' = FALSE
    /\ UNCHANGED <<cur, last, mem>>
SetPQMode(m, is_save) ==
    /\ Count
    /\ IF GetPQMode = m /\ ~mbResetPicture
       THEN UNCHANGED <<pqmode, panel, mbResetPicture>>
       ELSE /\ pqmode' = IF is_save THEN [pqmode EXCEPT ![cur] = m] ELSE pqmode
            /\ SetPQPictureMode(GetPictureModeData(m)) /\ mbResetPicture' = FALSE
    /\ UNCHANGED <<cur, last, mem>>

\* A picture setting of the current mode: hardware first, then the whole slot
\* is read with its fall back, one field replaced, and written to cur.
SaveField(field, v) ==
    LET d == GetPictureModeData(GetPQMode) IN
    IF d = Absent THEN UNCHANGED mem
    ELSE SetPictureModeData(At(cur, GetPQMode), [d EXCEPT ![field] = v])
SavePicture ==
    /\ Count /\ SaveField("pic", User)
    /\ panel' = IF panel = Absent THEN panel ELSE [panel EXCEPT !.pic = User]
    /\ UNCHANGED <<saved, mbResetPicture>>

\* FactorySetPQMode_Brightness and its six likes: any source and mode, the
\* current timing, no hardware.
FactorySetPQMode(s, m) ==
    LET x == <<s, cur[2], m>> IN
    /\ Count
    /\ IF SlotData(x) = Absent THEN UNCHANGED mem
       ELSE SetPictureModeData(x, [SlotData(x) EXCEPT !.pic = User])
    /\ UNCHANGED <<saved, panel, mbResetPicture>>

\* FactoryResetPictureModeData: the current mode, if its own slot is in use.
FactoryResetPictureModeData ==
    /\ Count /\ ResetData(At(cur, GetPQMode))
    /\ UNCHANGED <<saved, panel, mbResetPicture>>

\* FactoryResetPQMode and FactoryResetAllPictureModeData.
FactoryResetPQMode ==
    /\ Count /\ ResetDataOf(Modes)
    /\ UNCHANGED <<saved, panel, mbResetPicture>>

\* PQ_SET_PICTURE_UI_CLEAR: what is loaded stays until the next SetPQMode.
resetCurSrcPqUiSetting ==
    /\ Count
    /\ pqmode' = ResetModes(pqmode) /\ last' = ResetModes(last)
    /\ ResetDataOf({x \in Modes : x[1] = cur[1]})
    /\ mbResetPicture' = TRUE
    /\ UNCHANGED <<cur, panel>>

\* FactoryCopyPictureModeDataFromPQMode: the data of mode m becomes the data
\* of the current mode and is loaded.
FactoryCopyFromPQModeSwapped(m) ==
    /\ Count
    /\ LET d == GetPictureModeData(m) IN
       /\ IF d = Absent THEN UNCHANGED mem
          ELSE SetPictureModeData(At(cur, m), GetPictureModeData(GetPQMode))
       /\ SetPQPictureMode(IF d = Absent THEN Absent ELSE d)
    /\ UNCHANGED <<saved, mbResetPicture>>
FactoryCopyFromPQMode(m) ==
    /\ Count
    /\ LET d == GetPictureModeData(m) IN
       /\ IF d = Absent THEN UNCHANGED mem ELSE SetPictureModeData(At(cur, GetPQMode), d)
       /\ SetPQPictureMode(IF d = Absent THEN Absent ELSE DataIn(mem', At(cur, m)))
    /\ UNCHANGED <<saved, mbResetPicture>>

\* FactoryCopyPictureModeDataToAllSource: the loop ends at PQ_FMT_MAX, and
\* only slots in use are overwritten.
CopyTargets == {<<i, cur[2], GetPQMode>> : i \in (Srcs \cap Per(FmtMax)) \ {cur[1]}}
FactoryCopyToAllSource ==
    /\ Count
    /\ LET d == GetPictureModeData(GetPQMode)
           T == {ModeIndex(x) : x \in {x \in CopyTargets : Own(mem, x) # Absent}} IN
       mem' = IF d = Absent THEN mem ELSE [a \in Addrs |-> IF a \in T THEN d ELSE mem[a]]
    /\ UNCHANGED <<saved, panel, mbResetPicture>>
\* resetPQUiSetting fills the slots of the rows; `picture` keeps a field from
\* the row before where the row has none.  Standard everywhere, Dolby bright
\* on the Dolby timing of the sources that can carry it.
FilledBy(a) == {x \in DbRows : ModeIndex(x) = a}
DataInit ==
    /\ cur \in Pairs
    /\ pqmode = [x \in Pairs |-> IF x = <<0, 0>> THEN Standard
                                 ELSE IF x[1] \in DolbySources /\ x[2] = Dolby THEN DolbyBright
                                 ELSE Absent]
    /\ last = pqmode
    /\ \E before \in Per(TempMax) :
        mem = [a \in Addrs |->
            IF FilledBy(a) = {} THEN Absent
            ELSE [pic |-> LastOf(FilledBy(a)),
                  temp |-> IF LastOf(FilledBy(a)) \in Partial THEN before
                           ELSE RowTemp[LastOf(FilledBy(a))]]]
    /\ GetPictureModeData(GetPQMode) # Absent /\ panel = GetPictureModeData(GetPQMode)
    /\ mbResetPicture = FALSE /\ ops = 0
=============================================================================
