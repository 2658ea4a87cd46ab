------------------------- MODULE WhiteBalanceProofs -------------------------
(***************************************************************************)
(* Proofs about the picture data and the white balance, for any number of  *)
(* sources, timings, modes, levels and calls and for any rows of the       *)
(* database: types, what the panel shows, eye protection, the calibration, *)
(* the copy of a mode, and that the picture data implements PictureStore.  *)
(***************************************************************************)
EXTENDS WhiteBalance, WellFoundedInduction, TLAPS

-----------------------------------------------------------------------------
(* Indexes.                                                                *)

LEMMA Product ==
  ASSUME NEW a \in Nat, NEW b \in Nat, NEW n \in Nat, a <= b
  PROVE  a * n \in Nat /\ a * n <= b * n
PROOF
<1>1. (b - a) * n >= 0
  OBVIOUS
<1> QED BY <1>1

LEMMA Corner ==
  /\ SrcMax - 1 \in Srcs /\ FmtMax - 1 \in Fmts /\ ModeMax - 1 \in Per(ModeMax)
  /\ 0 \in Srcs /\ 0 \in Fmts /\ Standard \in Per(ModeMax) /\ <<0, 0>> \in Pairs
  /\ 0 \in Levels
  /\ \A m \in Per(ModeMax) : <<0, 0, m>> \in Modes
PROOF
  BY AddressAssumption DEF Srcs, Fmts, Per, Pairs, Modes, Standard, Levels

\* The index of a slot lies within the slots.
LEMMA IndexInAddrs ==
  ASSUME NEW x \in Modes
  PROVE  ModeIndex(x) \in Addrs
PROOF
<1> DEFINE s == x[1]
           f == x[2]
           m == x[3]
           S == SrcMax - 1
           F == FmtMax - 1
           M == ModeMax - 1
<1>1. /\ s \in Nat /\ f \in Nat /\ m \in Nat /\ S \in Nat /\ F \in Nat /\ M \in Nat
      /\ s <= S /\ f <= F /\ m <= M /\ FmtMax \in Nat /\ ModeSlots \in Nat
  BY AddressAssumption DEF Modes, Srcs, Fmts, Per
<1>2. ModeIndex(x) = s * FmtMax * ModeSlots + f * ModeSlots + m
  BY DEF ModeIndex
<1>3. ModeIndex(<<SrcMax - 1, FmtMax - 1, ModeMax - 1>>) = S * FmtMax * ModeSlots + F * ModeSlots + M
  BY DEF ModeIndex
<1> HIDE DEF s, f, m, S, F, M
<1>4. s * FmtMax \in Nat /\ S * FmtMax \in Nat /\ s * FmtMax <= S * FmtMax
  BY <1>1, Product
<1>5. /\ (s * FmtMax) * ModeSlots \in Nat /\ (s * FmtMax) * ModeSlots <= (S * FmtMax) * ModeSlots
      /\ (S * FmtMax) * ModeSlots \in Nat
  <2> DEFINE a == s * FmtMax
             b == S * FmtMax
  <2>1. a \in Nat /\ b \in Nat /\ a <= b
    BY <1>4
  <2> HIDE DEF a, b
  <2>2. a * ModeSlots \in Nat /\ a * ModeSlots <= b * ModeSlots /\ b * ModeSlots \in Nat
    BY <1>1, <2>1, Product
  <2> QED BY <2>2 DEF a, b
<1>6. f * ModeSlots \in Nat /\ f * ModeSlots <= F * ModeSlots /\ F * ModeSlots \in Nat
  BY <1>1, Product
<1>7. ASSUME NEW a \in Nat, NEW b \in Nat, NEW c \in Nat, NEW d \in Nat, a <= b, c <= d
      PROVE  a + c + m \in 0..(b + d + M)
  BY <1>1, <1>7
<1>8. s * FmtMax * ModeSlots + f * ModeSlots + m \in 0..(S * FmtMax * ModeSlots + F * ModeSlots + M)
  BY <1>5, <1>6, <1>7
<1> QED BY <1>2, <1>3, <1>8 DEF Addrs

\* The loops over the slots come to a last one.
LEMMA LastIn ==
  ASSUME NEW W \in SUBSET Modes, W # {}
  PROVE  LastOf(W) \in W
PROOF
<1> DEFINE top == ((SrcMax - 1) * FmtMax + (FmtMax - 1)) * ModeMax + (ModeMax - 1)
           after(x) == top - LoopNo(x)
           T == {after(x) : x \in W}
<1>1. ASSUME NEW x \in Modes
      PROVE  LoopNo(x) \in Nat /\ top \in Nat /\ LoopNo(x) <= top
  <2> DEFINE s == x[1]
             f == x[2]
             m == x[3]
             S == SrcMax - 1
             F == FmtMax - 1
             M == ModeMax - 1
  <2>1. /\ s \in Nat /\ f \in Nat /\ m \in Nat /\ S \in Nat /\ F \in Nat /\ M \in Nat
        /\ s <= S /\ f <= F /\ m <= M /\ FmtMax \in Nat /\ ModeMax \in Nat
    BY AddressAssumption DEF Modes, Srcs, Fmts, Per
  <2>2. LoopNo(x) = (s * FmtMax + f) * ModeMax + m /\ top = (S * FmtMax + F) * ModeMax + M
    BY DEF LoopNo
  <2> HIDE DEF s, f, m, S, F, M, top
  <2>3. s * FmtMax \in Nat /\ S * FmtMax \in Nat /\ s * FmtMax <= S * FmtMax
    BY <2>1, Product
  <2> DEFINE a == s * FmtMax + f
             b == S * FmtMax + F
  <2>4. a \in Nat /\ b \in Nat /\ a <= b
    BY <2>1, <2>3
  <2> HIDE DEF a, b
  <2>5. a * ModeMax \in Nat /\ b * ModeMax \in Nat /\ a * ModeMax <= b * ModeMax
    BY <2>1, <2>4, Product
  <2>6. LoopNo(x) = a * ModeMax + m /\ top = b * ModeMax + M
    BY <2>2 DEF a, b
  <2> QED BY <2>1, <2>5, <2>6
<1>2. T \subseteq Nat /\ T # {}
  <2> HIDE DEF top
  <2> QED BY <1>1
<1>3. PICK n \in T : \A k \in T : ~(<<k, n>> \in OpToRel(<, Nat))
  <2> HIDE DEF T
  <2> QED BY <1>2, NatLessThanWellFounded, WFMin
<1>4. PICK x \in W : n = after(x)
  BY <1>3
<1>5. ASSUME NEW y \in W
      PROVE  LoopNo(y) <= LoopNo(x)
  <2>1. after(y) \in T /\ after(y) \in Nat /\ after(x) \in Nat
    BY <1>2, <1>4
  <2>2. ~(after(y) < after(x))
    BY <1>2, <1>3, <1>4, <2>1 DEF OpToRel
  <2>3. LoopNo(x) \in Nat /\ LoopNo(y) \in Nat /\ top \in Nat
    BY <1>1
  <2> HIDE DEF top
  <2> QED BY <2>2, <2>3
<1> QED BY <1>4, <1>5 DEF LastOf

-----------------------------------------------------------------------------
(* Types.                                                                  *)

DataTyped ==
    /\ cur \in Pairs /\ pqmode \in [Pairs -> Per(ModeMax) \cup {Absent}]
    /\ last \in [Pairs -> Per(ModeMax) \cup {Absent}]
    /\ mem \in [Addrs -> Data \cup {Absent}] /\ panel \in Data
    /\ mbResetPicture \in BOOLEAN /\ ops \in 0..MaxOps
GainsTyped ==
    /\ temp \in [Temps -> Gains \cup {Absent}] /\ cri \in [Levels -> Gains \cup {Absent}]
    /\ eye \in BOOLEAN /\ rgb \in Gains /\ by \in {"load", "params", "factory", "failed"}
PointsTyped ==
    /\ wb \in [Gammas -> Wb \cup {Absent}]
    /\ criWb \in [Levels \X Per(GammaModes) -> Points \cup {Absent}]
    /\ gmode \in Per(GammaModes) /\ curve \in Points \cup {Absent}

LEMMA TypeParts == TypeOK <=> DataTyped /\ GainsTyped /\ PointsTyped /\ dirty \in BOOLEAN
PROOF
  BY DEF TypeOK, DataTyped, GainsTyped, PointsTyped

\* Places, from their parts.
LEMMA Places ==
  /\ \A x \in Pairs : x[1] \in Srcs /\ x[2] \in Fmts
  /\ \A x \in Pairs, m \in Per(ModeMax) : At(x, m) \in Modes
  /\ \A x \in Pairs, l \in Levels : OnT(x, l) \in Temps
  /\ \A x \in Pairs, l \in Levels, g \in Per(GammaModes) : OnG(x, l, g) \in Gammas
  /\ \A x \in Modes : <<0, 0, x[3]>> \in Modes /\ x[3] \in Per(ModeMax) /\ x[1] \in Srcs /\ x[2] \in Fmts
  /\ \A x \in Temps : <<0, 0, x[3]>> \in Temps
  /\ \A x \in Gammas : <<0, 0, x[3], x[4]>> \in Gammas
PROOF
  BY Corner DEF Pairs, Modes, Temps, Gammas, At, OnT, OnG, Levels

LEMMA RowData ==
  ASSUME NEW x \in Modes, NEW old \in Data, HasRow(x)
  PROVE  FromRow(x, old) \in Data
PROOF
<1>1. RowOf(x) \in DbRows
  BY DEF HasRow
<1>2. RowTemp[RowOf(x)] \in Per(TempMax)
  BY <1>1, DataAssumption
<1> QED BY <1>1, <1>2 DEF FromRow, Data, Pics

LEMMA LookUp ==
  ASSUME DataTyped
  PROVE  /\ GetPQMode \in Per(ModeMax) /\ At(cur, GetPQMode) \in Modes
         /\ \A x \in Modes : SlotData(x) \in Data \cup {Absent}
         /\ \A m \in Per(ModeMax) : GetPictureModeData(m) \in Data \cup {Absent}
         /\ \A d \in Data \cup {Absent} : LevelOf(d) \in Levels
         /\ GetColorTemperature \in Levels
PROOF
<1>1. GetPQMode \in Per(ModeMax)
  BY Corner DEF DataTyped, GetPQMode, Effective
<1>2. ASSUME NEW x \in Modes
      PROVE  SlotData(x) \in Data \cup {Absent}
  <2>1. ModeIndex(x) \in Addrs /\ ModeIndex(<<0, 0, x[3]>>) \in Addrs
    BY IndexInAddrs, Places
  <2> QED BY <2>1 DEF SlotData, DataIn, Own, DataTyped
<1>3. \A m \in Per(ModeMax) : GetPictureModeData(m) \in Data \cup {Absent}
  BY <1>2, Places DEF GetPictureModeData, DataTyped
<1>4. \A d \in Data \cup {Absent} : LevelOf(d) \in Levels
  BY Corner DEF LevelOf, Data, Levels
<1> QED BY <1>1, <1>2, <1>3, <1>4, Places DEF GetColorTemperature, DataTyped

LEMMA Counted ==
  ASSUME DataTyped, Count
  PROVE  ops' \in 0..MaxOps
PROOF
  BY DataAssumption DEF DataTyped, Count

\* One slot written.
LEMMA WriteTyped ==
  ASSUME DataTyped, NEW x \in Modes, NEW d \in Data, SetPictureModeData(x, d)
  PROVE  mem' \in [Addrs -> Data \cup {Absent}]
PROOF
  BY DEF DataTyped, SetPictureModeData

LEMMA SaveTyped ==
  ASSUME DataTyped
  PROVE  /\ SaveField("pic", User) => mem' \in [Addrs -> Data \cup {Absent}]
         /\ \A l \in Levels : SaveField("temp", l) => mem' \in [Addrs -> Data \cup {Absent}]
PROOF
<1> DEFINE d == GetPictureModeData(GetPQMode)
           x == At(cur, GetPQMode)
<1>1. d \in Data \cup {Absent} /\ x \in Modes
  BY LookUp
<1>2. User \in Pics
  BY DEF Pics
<1> HIDE DEF d, x
<1>3. d # Absent => [d EXCEPT !["pic"] = User] \in Data
  BY <1>1, <1>2 DEF Data
<1>4. \A l \in Levels : d # Absent => [d EXCEPT !["temp"] = l] \in Data
  BY <1>1 DEF Data, Levels
<1>5. ASSUME SaveField("pic", User)
      PROVE  mem' \in [Addrs -> Data \cup {Absent}]
  <2>1. \/ d = Absent /\ mem' = mem
        \/ d # Absent /\ SetPictureModeData(x, [d EXCEPT !["pic"] = User])
    BY <1>5 DEF SaveField, d, x
  <2> QED BY <1>1, <1>3, <2>1, WriteTyped DEF DataTyped
<1>6. ASSUME NEW l \in Levels, SaveField("temp", l)
      PROVE  mem' \in [Addrs -> Data \cup {Absent}]
  <2>1. \/ d = Absent /\ mem' = mem
        \/ d # Absent /\ SetPictureModeData(x, [d EXCEPT !["temp"] = l])
    BY <1>6 DEF SaveField, d, x
  <2> QED BY <1>1, <1>4, <2>1, WriteTyped DEF DataTyped
<1> QED BY <1>5, <1>6

\* A reset writes rows only.
LEMMA ResetTyped ==
  ASSUME DataTyped, NEW S \in SUBSET Modes, ResetDataOf(S)
  PROVE  mem' \in [Addrs -> Data \cup {Absent}]
PROOF
<1> SUFFICES ASSUME NEW a \in Addrs
             PROVE  mem'[a] \in Data \cup {Absent}
  BY DEF ResetDataOf
<1> DEFINE W == {x \in S : ModeIndex(x) = a /\ HasRow(x)}
           C == {x \in W : RowOf(x) \notin Partial}
           v == [pic |-> RowOf(LastOf(W)),
                 temp |-> IF C = {} THEN mem[a].temp ELSE RowTemp[RowOf(LastOf(C))]]
<1>1. mem'[a] = IF mem[a] = Absent \/ W = {} THEN mem[a] ELSE v
  BY DEF ResetDataOf
<1>2. mem[a] \in Data \cup {Absent}
  BY DEF DataTyped
<1>3. W # {} => LastOf(W) \in W
  BY LastIn
<1>4. C # {} => LastOf(C) \in C
  BY LastIn
<1>5. W # {} => RowOf(LastOf(W)) \in DbRows
  BY <1>3 DEF HasRow
<1>6. C # {} => RowOf(LastOf(C)) \in DbRows
  BY <1>4 DEF HasRow
<1>7. C # {} => RowTemp[RowOf(LastOf(C))] \in Per(TempMax)
  BY <1>6, DataAssumption
<1> HIDE DEF W, C
<1> QED BY <1>1, <1>2, <1>5, <1>7 DEF Data, Pics

LEMMA ModesReset ==
  ASSUME DataTyped
  PROVE  \A slots \in [Pairs -> Per(ModeMax) \cup {Absent}] :
             ResetModes(slots) \in [Pairs -> Per(ModeMax) \cup {Absent}]
PROOF
<1>1. \A f : ResetModeOf(f) \in Per(ModeMax)
  BY Corner, DataAssumption DEF ResetModeOf
<1> QED BY <1>1 DEF ResetModes

\* What the calls of the picture data keep.
LEMMA DataTypedNext ==
  ASSUME DataTyped,
         \/ \E x \in Pairs, load \in BOOLEAN : MoveSlot(x, load)
         \/ \E m \in Per(ModeMax), is_save \in BOOLEAN : SetPQMode(m, is_save)
         \/ SavePicture
         \/ \E s \in Srcs, m \in Per(ModeMax) : FactorySetPQMode(s, m)
         \/ FactoryResetPictureModeData \/ FactoryResetPQMode \/ FactoryCopyToAllSource
         \/ \E m \in Per(ModeMax) : FactoryCopyFromPQMode(m)
         \/ resetCurSrcPqUiSetting
  PROVE  DataTyped'
PROOF
<1>0. /\ cur \in Pairs /\ pqmode \in [Pairs -> Per(ModeMax) \cup {Absent}]
      /\ last \in [Pairs -> Per(ModeMax) \cup {Absent}]
      /\ mem \in [Addrs -> Data \cup {Absent}] /\ panel \in Data /\ mbResetPicture \in BOOLEAN
  BY DEF DataTyped
<1>1. ASSUME NEW x \in Pairs, NEW load \in BOOLEAN, MoveSlot(x, load)
      PROVE  DataTyped'
  <2> DEFINE m == IF pqmode[x] # Absent THEN pqmode[x]
                  ELSE IF pqmode[<<0, 0>>] = Absent THEN Standard ELSE pqmode[<<0, 0>>]
             d == SlotData(At(x, m))
  <2>1. m \in Per(ModeMax)
    BY <1>0, Corner
  <2>2. d \in Data \cup {Absent}
    BY <2>1, LookUp, Places
  <2>3. /\ cur' = x /\ panel' \in {panel, IF d = Absent THEN panel ELSE d} /\ Count
        /\ UNCHANGED <<pqmode, last, mem, mbResetPicture>>
    BY <1>1 DEF MoveSlot, SetPQPictureMode
  <2> HIDE DEF d, m
  <2>4. panel' \in Data
    BY <1>0, <2>2, <2>3
  <2> QED BY <1>0, <2>3, <2>4, Counted DEF DataTyped
<1>2. ASSUME NEW m \in Per(ModeMax), NEW is_save \in BOOLEAN, SetPQMode(m, is_save)
      PROVE  DataTyped'
  <2>1. GetPictureModeData(m) \in Data \cup {Absent}
    BY LookUp
  <2>2. /\ Count /\ UNCHANGED <<cur, last, mem>>
        /\ pqmode' \in {pqmode, [pqmode EXCEPT ![cur] = m]}
        /\ panel' \in {panel, GetPictureModeData(m)}
        /\ panel' = panel \/ GetPictureModeData(m) # Absent
        /\ mbResetPicture' \in BOOLEAN
    BY <1>0, <1>2 DEF SetPQMode, SetPQPictureMode
  <2>3. pqmode' \in [Pairs -> Per(ModeMax) \cup {Absent}] /\ panel' \in Data
    BY <1>0, <2>1, <2>2
  <2> QED BY <1>0, <2>2, <2>3, Counted DEF DataTyped
<1>3. ASSUME SavePicture
      PROVE  DataTyped'
  <2>1. /\ Count /\ UNCHANGED <<cur, pqmode, last, mbResetPicture>> /\ SaveField("pic", User)
        /\ panel' \in {panel, [panel EXCEPT !.pic = User]}
    BY <1>3 DEF SavePicture, saved
  <2>2. panel' \in Data
    BY <1>0, <2>1 DEF Data, Pics
  <2> QED BY <1>0, <2>1, <2>2, SaveTyped, Counted DEF DataTyped
<1>4. ASSUME NEW s \in Srcs, NEW m \in Per(ModeMax), FactorySetPQMode(s, m)
      PROVE  DataTyped'
  <2> DEFINE x == <<s, cur[2], m>>
  <2>1. x \in Modes
    BY <1>0, Places DEF Modes
  <2>2. SlotData(x) \in Data \cup {Absent}
    BY <2>1, LookUp
  <2>3. /\ Count /\ UNCHANGED <<cur, pqmode, last, panel, mbResetPicture>>
        /\ \/ UNCHANGED mem
           \/ SlotData(x) # Absent /\ SetPictureModeData(x, [SlotData(x) EXCEPT !.pic = User])
    BY <1>4 DEF FactorySetPQMode, saved
  <2>4. SlotData(x) # Absent => [SlotData(x) EXCEPT !.pic = User] \in Data
    BY <2>2 DEF Data, Pics
  <2> HIDE DEF x
  <2>5. mem' \in [Addrs -> Data \cup {Absent}]
    BY <1>0, <2>1, <2>3, <2>4, WriteTyped
  <2> QED BY <1>0, <2>3, <2>5, Counted DEF DataTyped
<1>5. ASSUME FactoryResetPictureModeData
      PROVE  DataTyped'
  <2> DEFINE x == At(cur, GetPQMode)
  <2>1. x \in Modes /\ ModeIndex(x) \in Addrs
    BY LookUp, IndexInAddrs
  <2>2. /\ Count /\ UNCHANGED <<cur, pqmode, last, panel, mbResetPicture>>
        /\ \/ UNCHANGED mem
           \/ /\ mem[ModeIndex(x)] # Absent /\ HasRow(x)
              /\ SetPictureModeData(x, FromRow(x, mem[ModeIndex(x)]))
    BY <1>5 DEF FactoryResetPictureModeData, ResetData, saved
  <2> HIDE DEF x
  <2>3. mem' \in [Addrs -> Data \cup {Absent}]
    BY <1>0, <2>1, <2>2, WriteTyped, RowData
  <2> QED BY <1>0, <2>2, <2>3, Counted DEF DataTyped
<1>6. ASSUME FactoryResetPQMode
      PROVE  DataTyped'
  BY <1>0, <1>6, ResetTyped, Counted DEF FactoryResetPQMode, saved, DataTyped
<1>7. ASSUME FactoryCopyToAllSource
      PROVE  DataTyped'
  <2>1. GetPictureModeData(GetPQMode) \in Data \cup {Absent}
    BY LookUp
  <2>2. mem' \in [Addrs -> Data \cup {Absent}]
    BY <1>0, <1>7, <2>1 DEF FactoryCopyToAllSource
  <2> QED BY <1>0, <1>7, <2>2, Counted DEF FactoryCopyToAllSource, saved, DataTyped
<1>8. ASSUME NEW m \in Per(ModeMax), FactoryCopyFromPQMode(m)
      PROVE  DataTyped'
  <2> DEFINE d == GetPictureModeData(m)
             y == DataIn(mem', At(cur, m))
             x == At(cur, GetPQMode)
  <2>1. d \in Data \cup {Absent} /\ x \in Modes /\ At(cur, m) \in Modes
    BY <1>0, LookUp, Places
  <2>2. /\ Count /\ UNCHANGED <<cur, pqmode, last, mbResetPicture>>
        /\ \/ UNCHANGED mem
           \/ d # Absent /\ SetPictureModeData(x, d)
        /\ panel' = panel \/ (panel' = y /\ y # Absent)
    BY <1>8 DEF FactoryCopyFromPQMode, SetPQPictureMode, saved
  <2> HIDE DEF d, x
  <2>3. mem' \in [Addrs -> Data \cup {Absent}]
    BY <1>0, <2>1, <2>2, WriteTyped
  <2>4. ModeIndex(At(cur, m)) \in Addrs /\ ModeIndex(<<0, 0, At(cur, m)[3]>>) \in Addrs
    BY <2>1, IndexInAddrs, Places
  <2>5. y \in Data \cup {Absent}
    BY <2>3, <2>4 DEF DataIn, Own
  <2> HIDE DEF y
  <2> QED BY <1>0, <2>2, <2>3, <2>5, Counted DEF DataTyped
<1>9. ASSUME resetCurSrcPqUiSetting
      PROVE  DataTyped'
  <2>1. /\ Count /\ UNCHANGED <<cur, panel>> /\ mbResetPicture' = TRUE
        /\ pqmode' = ResetModes(pqmode) /\ last' = ResetModes(last)
        /\ ResetDataOf({x \in Modes : x[1] = cur[1]})
    BY <1>9 DEF resetCurSrcPqUiSetting
  <2>2. mem' \in [Addrs -> Data \cup {Absent}]
    BY <2>1, ResetTyped
  <2> QED BY <1>0, <2>1, <2>2, ModesReset, Counted DEF DataTyped
<1> QED BY <1>1, <1>2, <1>3, <1>4, <1>5, <1>6, <1>7, <1>8, <1>9

\* Slots and calibration of a level.
LEMMA GainsLookUp ==
  ASSUME GainsTyped, NEW x \in Pairs, NEW l \in Levels
  PROVE  /\ TempData(OnT(x, l)) \in Gains \cup {Absent} /\ GainsOf(x, l) \in Gains \cup {Absent}
         /\ \A v \in Gains : Halved(v) \in Gains /\ Halved(v).half > 0 /\ Edited(v) \in Gains
         /\ NewGains \in Gains
PROOF
<1>1. OnT(x, l) \in Temps /\ <<0, 0, OnT(x, l)[3]>> \in Temps
  BY Places
<1>2. TempData(OnT(x, l)) \in Gains \cup {Absent}
  BY <1>1 DEF GainsTyped, TempData
<1>3. GainsOf(x, l) \in Gains \cup {Absent}
  BY <1>2 DEF GainsTyped, GainsOf
<1>4. \A v \in Gains : Halved(v) \in Gains /\ Halved(v).half > 0 /\ Edited(v) \in Gains
  BY DEF Gains, Halved, Edited
<1> QED BY <1>2, <1>3, <1>4 DEF NewGains, Gains

LEMMA PointsLookUp ==
  ASSUME PointsTyped, NEW x \in Pairs, NEW l \in Levels, NEW g \in Per(GammaModes)
  PROVE  /\ WbData(OnG(x, l, g)) \in Wb \cup {Absent} /\ OnG(x, l, g) \in Gammas
         /\ \A slot, point \in Points \cup {Absent} :
                CurveOf(slot, point) \in Points \cup {Absent}
         /\ \A slot \in Wb \cup {Absent}, point \in Points \cup {Absent} :
                CurveOf(slot, point) \in Points \cup {Absent}
         /\ criWb[<<l, g>>] \in Points \cup {Absent}
PROOF
<1>1. OnG(x, l, g) \in Gammas /\ <<0, 0, OnG(x, l, g)[3], OnG(x, l, g)[4]>> \in Gammas
  BY Places
<1>2. WbData(OnG(x, l, g)) \in Wb \cup {Absent}
  BY <1>1 DEF PointsTyped, WbData
<1>3. \A slot, point : point \in Points \cup {Absent} => CurveOf(slot, point) \in Points \cup {Absent}
  BY DEF CurveOf, Points
<1>4. criWb[<<l, g>>] \in Points \cup {Absent}
  BY DEF PointsTyped
<1> QED BY <1>1, <1>2, <1>3, <1>4

LEMMA SetWhitebalanceTyped ==
  ASSUME GainsTyped, PointsTyped, NEW x \in Pairs, NEW l \in Levels, Cpq_SetWhitebalance(x, l)
  PROVE  /\ rgb' \in Gains /\ by' \in {"load", "failed"} /\ curve' \in Points \cup {Absent}
         /\ by' = "load" /\ eye => rgb'.half > 0
PROOF
<1> DEFINE v == GainsOf(x, l)
           c == CurveOf(WbData(OnG(x, l, gmode)), criWb[<<l, gmode>>])
<1>1. /\ v \in Gains \cup {Absent} /\ \A w \in Gains : Halved(w) \in Gains /\ Halved(w).half > 0
      /\ rgb \in Gains /\ eye \in BOOLEAN
  BY GainsLookUp DEF GainsTyped
<1>2. c \in Points \cup {Absent} /\ curve \in Points \cup {Absent}
  <2>1. gmode \in Per(GammaModes)
    BY DEF PointsTyped
  <2> QED BY <2>1, PointsLookUp DEF PointsTyped
<1>3. /\ IF v = Absent THEN rgb' = rgb /\ by' = "failed"
         ELSE rgb' = (IF eye THEN Halved(v) ELSE v) /\ by' = "load"
      /\ curve' = IF c = Absent THEN curve ELSE c
  BY DEF Cpq_SetWhitebalance, Cpq_SetColorTemperature, Cpq_LoadGamma
<1> HIDE DEF v, c
<1> QED BY <1>1, <1>2, <1>3

\* A load writes the hardware only.
LEMMA LoadTyped ==
  ASSUME GainsTyped, PointsTyped, NEW x \in Pairs, NEW d \in Data \cup {Absent}, Load(x, d)
  PROVE  GainsTyped' /\ PointsTyped'
PROOF
<1>1. CASE d = Absent
  BY <1>1 DEF Load, GainsTyped, PointsTyped
<1>2. CASE d # Absent
  <2>1. d.temp \in Levels
    BY <1>2 DEF Data, Levels
  <2>2. Cpq_SetWhitebalance(x, d.temp) /\ UNCHANGED <<temp, cri, eye, wb, criWb, gmode>>
    BY <1>2 DEF Load
  <2>3. rgb' \in Gains /\ by' \in {"load", "failed"} /\ curve' \in Points \cup {Absent}
    BY <2>1, <2>2, SetWhitebalanceTyped
  <2> QED BY <2>2, <2>3 DEF GainsTyped, PointsTyped
<1> QED BY <1>1, <1>2

LEMMA UnmovedTyped ==
  ASSUME GainsTyped, PointsTyped, UNCHANGED <<gains, points>>
  PROVE  GainsTyped' /\ PointsTyped'
PROOF
  BY DEF gains, points, GainsTyped, PointsTyped

LEMMA ResetWhiteBalanceTyped ==
  ASSUME GainsTyped, PointsTyped, NEW S, ResetWhiteBalance(S)
  PROVE  GainsTyped' /\ PointsTyped' /\ dirty' \in BOOLEAN
PROOF
<1>1. FromDb \in Gains /\ Flat \in Wb
  BY DEF FromDb, Flat, Gains, Wb, Points
<1> QED BY <1>1 DEF ResetWhiteBalance, ResetTemps, ResetWb, GainsTyped, PointsTyped

LEMMA ColourTyped ==
  ASSUME TypeOK, ColourCall
  PROVE  TypeOK'
PROOF
<1>0. /\ DataTyped /\ GainsTyped /\ PointsTyped /\ dirty \in BOOLEAN /\ cur \in Pairs
      /\ panel \in Data
  BY TypeParts DEF DataTyped
<1>1. ASSUME FactoryResetColorTemp
      PROVE  TypeOK'
  <2>1. GainsTyped' /\ PointsTyped' /\ dirty' \in BOOLEAN
    BY <1>0, <1>1, ResetWhiteBalanceTyped DEF FactoryResetColorTemp
  <2>2. DataTyped'
    BY <1>0, <1>1, Counted DEF FactoryResetColorTemp, saved, DataTyped
  <2> QED BY <2>1, <2>2, TypeParts DEF TypeOK, DataTyped, GainsTyped, PointsTyped
<1>2. ASSUME PictureUiClear
      PROVE  TypeOK'
  <2>1. GainsTyped' /\ PointsTyped' /\ dirty' \in BOOLEAN
    BY <1>0, <1>2, ResetWhiteBalanceTyped DEF PictureUiClear
  <2>2. DataTyped'
    BY <1>0, <1>2, DataTypedNext DEF PictureUiClear
  <2> QED BY <2>1, <2>2 DEF TypeOK, DataTyped, GainsTyped, PointsTyped
<1>3. ASSUME NEW l \in Levels, NEW is_save \in BOOLEAN, SetColorTemperature(l, is_save)
      PROVE  TypeOK'
  <2>1. /\ Count /\ UNCHANGED <<cur, pqmode, last, mbResetPicture>>
        /\ Cpq_SetWhitebalance(cur, l)
        /\ panel' \in {panel, [panel EXCEPT !.temp = l]}
        /\ SaveField("temp", l) \/ UNCHANGED mem
        /\ dirty' \in BOOLEAN
        /\ UNCHANGED <<temp, cri, eye, wb, criWb, gmode>>
    BY <1>0, <1>3 DEF SetColorTemperature, Call, saved
  <2>2. panel' \in Data
    BY <1>0, <2>1 DEF Data, Levels
  <2>3. mem' \in [Addrs -> Data \cup {Absent}]
    BY <1>0, <2>1, SaveTyped DEF DataTyped
  <2>4. DataTyped'
    BY <1>0, <2>1, <2>2, <2>3, Counted DEF DataTyped
  <2>5. rgb' \in Gains /\ by' \in {"load", "failed"} /\ curve' \in Points \cup {Absent}
    BY <1>0, <2>1, SetWhitebalanceTyped
  <2>6. GainsTyped' /\ PointsTyped'
    BY <1>0, <2>1, <2>5 DEF GainsTyped, PointsTyped
  <2> QED BY <2>1, <2>4, <2>6 DEF TypeOK, DataTyped, GainsTyped, PointsTyped
<1>4. ASSUME Call, PictureKept
      PROVE  DataTyped'
  BY <1>0, <1>4, Counted DEF Call, PictureKept, saved, DataTyped
<1>5. ASSUME NEW l \in Levels, SetColorTempParams(l)
      PROVE  TypeOK'
  <2>1. rgb' \in Gains
    BY <1>0, <1>5, GainsLookUp DEF SetColorTempParams
  <2>2. GainsTyped' /\ PointsTyped' /\ dirty' \in BOOLEAN
    BY <1>0, <1>5, <2>1 DEF SetColorTempParams, points, GainsTyped, PointsTyped
  <2>3. DataTyped'
    BY <1>4, <1>5 DEF SetColorTempParams
  <2> QED BY <2>2, <2>3 DEF TypeOK, DataTyped, GainsTyped, PointsTyped
<1>6. ASSUME NEW s \in Srcs, NEW l \in Levels, FactorySetColorTemp(s, l)
      PROVE  TypeOK'
  <2> DEFINE x == <<s, cur[2], l>>
             v == IF cri[l] # Absent THEN Edited(cri[l]) ELSE Edited(TempData(x))
  <2>1. <<s, cur[2]>> \in Pairs /\ x = OnT(<<s, cur[2]>>, l)
    BY <1>0, Places DEF Pairs, OnT
  <2>2. /\ TempData(x) \in Gains \cup {Absent} /\ \A w \in Gains : Edited(w) \in Gains
        /\ cri[l] \in Gains \cup {Absent}
    BY <1>0, <2>1, GainsLookUp DEF GainsTyped
  <2>3. /\ \/ UNCHANGED <<temp, cri, eye, rgb, by>>
           \/ /\ cri[l] # Absent \/ TempData(x) # Absent
              /\ cri' \in {cri, [cri EXCEPT ![l] = v]} /\ temp' \in {temp, [temp EXCEPT ![x] = v]}
              /\ rgb' = v /\ by' = "factory" /\ UNCHANGED eye
        /\ UNCHANGED <<wb, criWb, gmode, curve, dirty>> /\ Call /\ PictureKept
    BY <1>6 DEF FactorySetColorTemp, gains, points
  <2>4. cri[l] # Absent \/ TempData(x) # Absent => v \in Gains
    BY <2>2
  <2> HIDE DEF v, x
  <2>5. GainsTyped'
    BY <1>0, <2>3, <2>4 DEF GainsTyped
  <2>6. PointsTyped' /\ dirty' \in BOOLEAN
    BY <1>0, <2>3 DEF PointsTyped
  <2> QED BY <1>4, <2>3, <2>5, <2>6 DEF TypeOK, DataTyped, GainsTyped, PointsTyped
<1>7. CheckCri \in [Levels -> Gains \cup {Absent}]
  <2>1. \A l \in Levels : TempData(OnT(cur, l)) \in Gains \cup {Absent}
    BY <1>0, GainsLookUp
  <2> QED BY <1>0, <2>1 DEF CheckCri, CriFromSlots, GainsTyped
<1>8. ASSUME NEW l \in Levels, FactorySetRGBGainOffset(l)
      PROVE  TypeOK'
  <2>1. NewGains \in Gains
    BY DEF NewGains, Gains
  <2>2. GainsTyped' /\ PointsTyped' /\ dirty' \in BOOLEAN
    BY <1>0, <1>7, <1>8, <2>1 DEF FactorySetRGBGainOffset, points, GainsTyped, PointsTyped
  <2>3. DataTyped'
    BY <1>4, <1>8 DEF FactorySetRGBGainOffset
  <2> QED BY <2>2, <2>3 DEF TypeOK, DataTyped, GainsTyped, PointsTyped
<1>9. ASSUME FactoryGetRGBGainOffset
      PROVE  TypeOK'
  <2>1. GainsTyped' /\ PointsTyped' /\ dirty' \in BOOLEAN
    BY <1>0, <1>7, <1>9 DEF FactoryGetRGBGainOffset, points, GainsTyped, PointsTyped
  <2>2. DataTyped'
    BY <1>4, <1>9 DEF FactoryGetRGBGainOffset
  <2> QED BY <2>1, <2>2 DEF TypeOK, DataTyped, GainsTyped, PointsTyped
<1>10. ASSUME NEW e \in BOOLEAN, SetEyeProtectionMode(e)
       PROVE  TypeOK'
  <2> DEFINE v == GainsOf(cur, GetColorTemperature)
  <2>1. v \in Gains \cup {Absent} /\ \A w \in Gains : Halved(w) \in Gains
    BY <1>0, LookUp, GainsLookUp
  <2>2. /\ UNCHANGED <<temp, cri, wb, criWb, gmode, curve, dirty>> /\ Call /\ PictureKept
        /\ eye' = e /\ by' \in {"load", "failed"}
        /\ \/ rgb' = rgb
           \/ v # Absent /\ rgb' \in {v, Halved(v)}
    BY <1>10 DEF SetEyeProtectionMode, Cpq_SetColorTemperature, points
  <2> HIDE DEF v
  <2>3. GainsTyped'
    BY <1>0, <2>1, <2>2 DEF GainsTyped
  <2>4. PointsTyped' /\ dirty' \in BOOLEAN
    BY <1>0, <2>2 DEF PointsTyped
  <2> QED BY <1>4, <2>2, <2>3, <2>4 DEF TypeOK, DataTyped, GainsTyped, PointsTyped
<1> QED BY <1>1, <1>2, <1>3, <1>5, <1>6, <1>8, <1>9, <1>10 DEF ColourCall

LEMMA GammaTyped ==
  ASSUME TypeOK, GammaCall
  PROVE  TypeOK'
PROOF
<1>0. /\ DataTyped /\ GainsTyped /\ PointsTyped /\ dirty \in BOOLEAN /\ cur \in Pairs
      /\ GetColorTemperature \in Levels /\ gmode \in Per(GammaModes)
      /\ curve \in Points \cup {Absent}
  BY TypeParts, LookUp DEF DataTyped, PointsTyped
<1>1. ASSUME Call, PictureKept, UNCHANGED gains
      PROVE  DataTyped' /\ GainsTyped'
  BY <1>0, <1>1, Counted DEF Call, PictureKept, saved, gains, DataTyped, GainsTyped
<1>2. ASSUME NEW field, NEW v, ChangeWb(field, v),
             \A d \in Wb : [d EXCEPT ![field] = v] \in Wb
      PROVE  TypeOK'
  <2> DEFINE l == GetColorTemperature
             d == WbData(WbHere(l))
             new == [d EXCEPT ![field] = v]
             c == CurveOf(new, criWb[<<l, gmode>>])
             x == WbHere(l)
  <2>1. d \in Wb \cup {Absent} /\ x \in Gammas /\ (new \in Wb => c \in Points \cup {Absent})
    BY <1>0, PointsLookUp DEF WbHere
  <2>2. /\ Call /\ PictureKept /\ UNCHANGED <<gains, dirty>>
        /\ \/ UNCHANGED <<wb, criWb, gmode, curve>>
           \/ /\ d # Absent /\ wb' = [wb EXCEPT ![x] = new]
              /\ curve' \in {curve, c} /\ UNCHANGED <<criWb, gmode>>
    BY <1>2 DEF ChangeWb, points, Cpq_LoadGamma
  <2>3. d # Absent => new \in Wb
    BY <1>2, <2>1
  <2> HIDE DEF d, new, c, x, l
  <2>4. PointsTyped'
    BY <1>0, <2>1, <2>2, <2>3 DEF PointsTyped
  <2> QED BY <1>0, <1>1, <2>2, <2>4 DEF TypeOK, DataTyped, GainsTyped, PointsTyped
<1>3. ASSUME NEW on \in BOOLEAN, SetWbGammaEnable(on)
      PROVE  TypeOK'
  <2>1. \A d \in Wb : [d EXCEPT !["on"] = on] \in Wb
    BY DEF Wb
  <2> QED BY <1>2, <1>3, <2>1 DEF SetWbGammaEnable
<1>4. ASSUME SetWhitebalanceGamma
      PROVE  TypeOK'
  <2>1. \A d \in Wb : [d EXCEPT !["pts"] = "set"] \in Wb
    BY DEF Wb, Points
  <2> QED BY <1>2, <1>4, <2>1 DEF SetWhitebalanceGamma
<1>5. ASSUME NEW g \in Per(GammaModes), SetWbGammaMode(g)
      PROVE  TypeOK'
  <2> DEFINE l == GetColorTemperature
             c == CurveOf(WbData(OnG(cur, l, g)), criWb[<<l, g>>])
  <2>1. c \in Points \cup {Absent}
    BY <1>0, PointsLookUp
  <2>2. /\ Call /\ PictureKept /\ UNCHANGED <<gains, dirty, wb, criWb>> /\ gmode' = g
        /\ curve' \in {curve, c}
    BY <1>5 DEF SetWbGammaMode, Cpq_LoadGamma
  <2> HIDE DEF c
  <2>3. PointsTyped'
    BY <1>0, <2>1, <2>2 DEF PointsTyped
  <2> QED BY <1>0, <1>1, <2>2, <2>3 DEF TypeOK, DataTyped, GainsTyped, PointsTyped
<1>6. CheckCriWb \in [Levels \X Per(GammaModes) -> Points \cup {Absent}]
  <2>1. ASSUME NEW k \in Levels \X Per(GammaModes), WbData(WbHere(k[1])) # Absent
        PROVE  WbData(WbHere(k[1])).pts \in Points
    <3>1. WbData(WbHere(k[1])) \in Wb \cup {Absent}
      BY <1>0, PointsLookUp DEF WbHere
    <3> QED BY <2>1, <3>1 DEF Wb
  <2> QED BY <1>0, <2>1 DEF CheckCriWb, PointsTyped
<1>7. ASSUME NEW l \in Levels, FactorySetWhitebalanceGamma(l)
      PROVE  TypeOK'
  <2> DEFINE c == CurveOf(WbData(WbHere(l)), "set")
             k == CheckCriWb
  <2>1. c \in Points \cup {Absent}
    BY <1>0, PointsLookUp DEF WbHere, Points
  <2>2. /\ Call /\ PictureKept /\ UNCHANGED <<gains, wb, gmode>>
        /\ criWb' \in {k, [k EXCEPT ![<<l, gmode>>] = "set"]}
        /\ curve' \in {curve, c} /\ dirty' \in BOOLEAN
    BY <1>0, <1>7 DEF FactorySetWhitebalanceGamma, Cpq_LoadGamma
  <2>3. k \in [Levels \X Per(GammaModes) -> Points \cup {Absent}]
    BY <1>6
  <2> HIDE DEF c, k
  <2>4. criWb' \in [Levels \X Per(GammaModes) -> Points \cup {Absent}]
    BY <2>2, <2>3 DEF Points
  <2>5. PointsTyped'
    BY <1>0, <2>1, <2>2, <2>4 DEF PointsTyped
  <2> QED BY <1>0, <1>1, <2>2, <2>5 DEF TypeOK, DataTyped, GainsTyped, PointsTyped
<1>8. ASSUME FactoryGetWhitebalanceGamma
      PROVE  TypeOK'
  <2>1. /\ Call /\ PictureKept /\ UNCHANGED <<gains, wb, gmode, curve>> /\ criWb' = CheckCriWb
        /\ dirty' \in BOOLEAN
    BY <1>0, <1>8 DEF FactoryGetWhitebalanceGamma
  <2>2. PointsTyped'
    BY <1>0, <1>6, <2>1 DEF PointsTyped
  <2> QED BY <1>0, <1>1, <2>1, <2>2 DEF TypeOK, DataTyped, GainsTyped, PointsTyped
<1> QED BY <1>3, <1>4, <1>5, <1>7, <1>8 DEF GammaCall

LEMMA MoveTyped ==
  ASSUME TypeOK, Move \/ Choose
  PROVE  TypeOK'
PROOF
<1>0. /\ DataTyped /\ GainsTyped /\ PointsTyped /\ dirty \in BOOLEAN /\ cur \in Pairs
  BY TypeParts DEF DataTyped
<1>1. ASSUME NEW x \in Pairs, MoveSlot(x, TRUE), Reload(x, SlotData(At(x, GetPQMode')))
      PROVE  TypeOK'
  <2>1. DataTyped'
    BY <1>0, <1>1, DataTypedNext
  <2>2. GetPQMode' \in Per(ModeMax)
    BY <2>1, Corner DEF DataTyped, GetPQMode, Effective
  <2>3. SlotData(At(x, GetPQMode')) \in Data \cup {Absent}
    BY <1>0, <2>2, Places, LookUp
  <2>4. GainsTyped' /\ PointsTyped' /\ dirty' \in BOOLEAN
    BY <1>0, <1>1, <2>3, LoadTyped DEF Reload
  <2> QED BY <2>1, <2>4 DEF TypeOK, DataTyped, GainsTyped, PointsTyped
<1>2. ASSUME NEW x \in Pairs, MoveSlot(x, FALSE), Unloaded
      PROVE  TypeOK'
  <2>1. DataTyped'
    BY <1>0, <1>2, DataTypedNext
  <2>2. GainsTyped' /\ PointsTyped' /\ dirty' \in BOOLEAN
    BY <1>0, <1>2, UnmovedTyped DEF Unloaded
  <2> QED BY <2>1, <2>2 DEF TypeOK, DataTyped, GainsTyped, PointsTyped
<1>3. ASSUME NEW m \in Per(ModeMax), NEW is_save \in BOOLEAN, SetPQMode(m, is_save),
             Unmoved \/ Reload(cur, GetPictureModeData(m))
                 \/ (Load(cur, GetPictureModeData(m)) /\ dirty' = TRUE)
      PROVE  TypeOK'
  <2>1. DataTyped'
    BY <1>0, <1>3, DataTypedNext
  <2>2. GetPictureModeData(m) \in Data \cup {Absent}
    BY <1>0, LookUp
  <2>3. GainsTyped' /\ PointsTyped' /\ dirty' \in BOOLEAN
    BY <1>0, <1>3, <2>2, LoadTyped, UnmovedTyped DEF Reload, Unmoved
  <2> QED BY <2>1, <2>3 DEF TypeOK, DataTyped, GainsTyped, PointsTyped
<1>4. CASE Move
  BY <1>1, <1>2, <1>4 DEF Move
<1>5. CASE Choose
  <2>1. PICK m \in Per(ModeMax), is_save \in BOOLEAN :
            /\ SetPQMode(m, is_save)
            /\ IF GetPQMode = m /\ ~mbResetPicture THEN Unmoved
               ELSE IF is_save THEN Reload(cur, GetPictureModeData(m))
               ELSE Load(cur, GetPictureModeData(m)) /\ dirty' = TRUE
    BY <1>5 DEF Choose
  <2> QED BY <1>3, <2>1
<1> QED BY <1>4, <1>5

LEMMA PictureTyped ==
  ASSUME TypeOK, Picture \/ FactoryPicture
  PROVE  TypeOK'
PROOF
<1>0. DataTyped /\ GainsTyped /\ PointsTyped /\ dirty \in BOOLEAN /\ cur \in Pairs
  BY TypeParts DEF DataTyped
<1>1. ASSUME DataTyped', Unmoved \/ Unloaded
      PROVE  TypeOK'
  <2>1. GainsTyped' /\ PointsTyped' /\ dirty' \in BOOLEAN
    BY <1>0, <1>1, UnmovedTyped DEF Unmoved, Unloaded
  <2> QED BY <1>1, <2>1 DEF TypeOK, DataTyped, GainsTyped, PointsTyped
<1>2. CASE Picture
  BY <1>0, <1>1, <1>2, DataTypedNext DEF Picture
<1>3. ASSUME NEW m \in Per(ModeMax), FactoryCopyFromPQMode(m),
             Reload(cur, IF GetPictureModeData(m) = Absent THEN Absent ELSE DataIn(mem', At(cur, m)))
      PROVE  TypeOK'
  <2> DEFINE d == IF GetPictureModeData(m) = Absent THEN Absent ELSE DataIn(mem', At(cur, m))
  <2>1. DataTyped'
    BY <1>0, <1>3, DataTypedNext
  <2>2. /\ At(cur, m) \in Modes
        /\ ModeIndex(At(cur, m)) \in Addrs /\ ModeIndex(<<0, 0, At(cur, m)[3]>>) \in Addrs
    BY <1>0, IndexInAddrs, Places
  <2>3. mem' \in [Addrs -> Data \cup {Absent}]
    BY <2>1 DEF DataTyped, Addrs, ModeIndex, Data, Pics
  <2>4. d \in Data \cup {Absent}
    BY <2>2, <2>3 DEF DataIn, Own
  <2>5. Load(cur, d) /\ dirty' = (dirty /\ d = Absent)
    BY <1>3 DEF Reload
  <2> HIDE DEF d
  <2>6. GainsTyped' /\ PointsTyped' /\ dirty' \in BOOLEAN
    BY <1>0, <2>4, <2>5, LoadTyped
  <2> QED BY <2>1, <2>6 DEF TypeOK, DataTyped, GainsTyped, PointsTyped
<1>4. CASE FactoryPicture
  <2>1. CASE (\E s \in Srcs, m \in Per(ModeMax) : FactorySetPQMode(s, m)) /\ Unloaded
    BY <1>0, <1>1, <2>1, DataTypedNext
  <2>2. CASE FactoryResetPictureModeData /\ Unloaded
    BY <1>0, <1>1, <2>2, DataTypedNext
  <2>3. CASE FactoryResetPQMode /\ Unloaded
    BY <1>0, <1>1, <2>3, DataTypedNext
  <2>4. CASE FactoryCopyToAllSource /\ Unmoved
    BY <1>0, <1>1, <2>4, DataTypedNext
  <2> QED BY <1>3, <1>4, <2>1, <2>2, <2>3, <2>4 DEF FactoryPicture
<1> QED BY <1>2, <1>4

LEMMA TypeInitially == Init => TypeOK
PROOF
<1> SUFFICES ASSUME Init
             PROVE  TypeOK
  OBVIOUS
<1>1. /\ cur \in Pairs /\ mbResetPicture = FALSE /\ ops = 0 /\ last = pqmode
      /\ pqmode = [x \in Pairs |-> IF x = <<0, 0>> THEN Standard
                                   ELSE IF x[1] \in DolbySources /\ x[2] = Dolby THEN DolbyBright
                                   ELSE Absent]
      /\ panel = GetPictureModeData(GetPQMode) /\ GetPictureModeData(GetPQMode) # Absent
      /\ \E before \in Per(TempMax) :
          mem = [a \in Addrs |->
              IF FilledBy(a) = {} THEN Absent
              ELSE [pic |-> LastOf(FilledBy(a)),
                    temp |-> IF LastOf(FilledBy(a)) \in Partial THEN before
                             ELSE RowTemp[LastOf(FilledBy(a))]]]
  BY DEF Init, DataInit
<1>2. pqmode \in [Pairs -> Per(ModeMax) \cup {Absent}] /\ last \in [Pairs -> Per(ModeMax) \cup {Absent}]
  BY <1>1, Corner, DataAssumption
<1>3. mem \in [Addrs -> Data \cup {Absent}]
  <2>1. ASSUME NEW a \in Addrs, FilledBy(a) # {}
        PROVE  LastOf(FilledBy(a)) \in DbRows
    <3>1. FilledBy(a) \subseteq Modes
      BY DataAssumption DEF FilledBy
    <3>2. LastOf(FilledBy(a)) \in FilledBy(a)
      BY <2>1, <3>1, LastIn
    <3> QED BY <3>2 DEF FilledBy
  <2>2. \A a \in Addrs : FilledBy(a) # {} => RowTemp[LastOf(FilledBy(a))] \in Per(TempMax)
    BY <2>1, DataAssumption
  <2>3. PICK before \in Per(TempMax) :
            mem = [a \in Addrs |->
              IF FilledBy(a) = {} THEN Absent
              ELSE [pic |-> LastOf(FilledBy(a)),
                    temp |-> IF LastOf(FilledBy(a)) \in Partial THEN before
                             ELSE RowTemp[LastOf(FilledBy(a))]]]
    BY <1>1
  <2> QED BY <2>1, <2>2, <2>3 DEF Data, Pics
<1>4. panel \in Data
  <2>1. GetPQMode \in Per(ModeMax)
    BY <1>1, <1>2, Corner DEF GetPQMode, Effective
  <2> DEFINE x == At(cur, GetPQMode)
  <2>2. x \in Modes
    BY <1>1, <2>1, Places
  <2> HIDE DEF x
  <2>3. ModeIndex(x) \in Addrs /\ ModeIndex(<<0, 0, x[3]>>) \in Addrs
    BY <2>2, IndexInAddrs, Places
  <2>4. DataIn(mem, x) \in Data \cup {Absent}
    BY <1>3, <2>3 DEF DataIn, Own
  <2> QED BY <1>1, <2>4 DEF GetPictureModeData, SlotData, x
<1>5. DataTyped
  <2>1. ops \in 0..MaxOps /\ mbResetPicture \in BOOLEAN /\ cur \in Pairs
    <3>1. ops = 0 /\ mbResetPicture = FALSE /\ cur \in Pairs
      BY DEF Init, DataInit
    <3>2. MaxOps \in Nat
      BY DataAssumption
    <3>3. ops \in 0..MaxOps
      BY <3>1, <3>2
    <3>4. mbResetPicture \in BOOLEAN
      BY <3>1
    <3> QED BY <3>1, <3>3, <3>4
  <2> QED BY <2>1, <1>2, <1>3, <1>4 DEF DataTyped
<1>6. FromDb \in Gains /\ Flat \in Wb
  BY DEF FromDb, Flat, Gains, Wb, Points
<1>7. GainsTyped
  BY <1>6 DEF Init, GainsTyped
<1>8. PointsTyped /\ dirty \in BOOLEAN
  BY <1>6, WhiteBalanceAssumption DEF Init, PointsTyped
<1> QED BY <1>5, <1>7, <1>8, TypeParts

LEMMA TypeStep ==
  ASSUME TypeOK, [Next]_wvars
  PROVE  TypeOK'
PROOF
<1>1. CASE UNCHANGED wvars
  <2>1. UNCHANGED <<cur, pqmode, last, mem, panel, mbResetPicture, ops, temp, cri, eye, rgb, by,
                    wb, criWb, gmode, curve, dirty>>
    BY <1>1 DEF wvars, vars, gains, points
  <2> QED BY <2>1 DEF TypeOK
<1> QED BY <1>1, MoveTyped, PictureTyped, ColourTyped, GammaTyped DEF Next

\* Types: every slot holds a row of the database or what a client made of
\* one, and the panel always has some mode's data (SetPQPictureMode).
THEOREM TypesHold == Spec => []TypeOK
PROOF
<1>1. TypeOK /\ [Next]_wvars => TypeOK'
  BY TypeStep
<1> QED BY TypeInitially, <1>1, PTL DEF Spec

-----------------------------------------------------------------------------
(* Eye protection.                                                         *)

LEMMA LoadProtects ==
  ASSUME TypeOK, NEW x \in Pairs, NEW d \in Data \cup {Absent}, Load(x, d), EyeProtects
  PROVE  EyeProtects'
PROOF
<1>0. GainsTyped /\ PointsTyped
  BY TypeParts
<1>1. CASE d = Absent
  BY <1>1 DEF Load, EyeProtects
<1>2. CASE d # Absent
  <2>1. d.temp \in Levels
    BY <1>2 DEF Data, Levels
  <2>2. Cpq_SetWhitebalance(x, d.temp) /\ eye' = eye
    BY <1>2 DEF Load
  <2>3. by' \in {"load", "failed"} /\ (by' = "load" /\ eye => rgb'.half > 0)
    BY <1>0, <2>1, <2>2, SetWhitebalanceTyped
  <2> QED BY <2>2, <2>3 DEF EyeProtects
<1> QED BY <1>1, <1>2

LEMMA EyeStep ==
  ASSUME TypeOK, EyeProtects, [Next]_wvars
  PROVE  EyeProtects'
PROOF
<1>0. /\ DataTyped /\ GainsTyped /\ PointsTyped /\ cur \in Pairs /\ eye \in BOOLEAN
  BY TypeParts DEF DataTyped, GainsTyped
<1>1. ASSUME UNCHANGED <<eye, rgb, by>>
      PROVE  EyeProtects'
  BY <1>1 DEF EyeProtects
<1>2. ASSUME by' \in {"factory", "failed"}
      PROVE  EyeProtects'
  BY <1>2 DEF EyeProtects
<1>3. CASE UNCHANGED wvars
  BY <1>1, <1>3 DEF wvars, gains
<1>4. CASE Move
  <2>1. PICK x \in Pairs : \/ MoveSlot(x, TRUE) /\ Reload(x, SlotData(At(x, GetPQMode')))
                           \/ MoveSlot(x, FALSE) /\ Unloaded
    BY <1>4 DEF Move
  <2>2. ASSUME MoveSlot(x, TRUE), Reload(x, SlotData(At(x, GetPQMode')))
        PROVE  EyeProtects'
    <3>1. DataTyped'
      BY <1>0, <2>2, DataTypedNext
    <3>2. GetPQMode' \in Per(ModeMax)
      BY <3>1, Corner DEF DataTyped, GetPQMode, Effective
    <3>3. SlotData(At(x, GetPQMode')) \in Data \cup {Absent}
      BY <1>0, <3>2, Places, LookUp
    <3> QED BY <2>2, <3>3, LoadProtects DEF Reload
  <2> QED BY <1>1, <2>1, <2>2 DEF Unloaded, gains
<1>5. CASE Choose
  <2>1. PICK m \in Per(ModeMax), is_save \in BOOLEAN :
            /\ SetPQMode(m, is_save)
            /\ IF GetPQMode = m /\ ~mbResetPicture THEN Unmoved
               ELSE IF is_save THEN Reload(cur, GetPictureModeData(m))
               ELSE Load(cur, GetPictureModeData(m)) /\ dirty' = TRUE
    BY <1>5 DEF Choose
  <2>2. GetPictureModeData(m) \in Data \cup {Absent}
    BY <1>0, LookUp
  <2>3. Unmoved \/ Load(cur, GetPictureModeData(m))
    BY <2>1 DEF Reload
  <2> QED BY <1>0, <1>1, <2>2, <2>3, LoadProtects DEF Unmoved, gains
<1>6. CASE Picture
  BY <1>1, <1>6 DEF Picture, Unmoved, gains
<1>7. CASE FactoryPicture
  <2>1. ASSUME NEW m \in Per(ModeMax), FactoryCopyFromPQMode(m),
               Reload(cur, IF GetPictureModeData(m) = Absent THEN Absent
                           ELSE DataIn(mem', At(cur, m)))
        PROVE  EyeProtects'
    <3> DEFINE d == IF GetPictureModeData(m) = Absent THEN Absent ELSE DataIn(mem', At(cur, m))
    <3>1. DataTyped'
      BY <1>0, <2>1, DataTypedNext
    <3>2. ModeIndex(At(cur, m)) \in Addrs /\ ModeIndex(<<0, 0, At(cur, m)[3]>>) \in Addrs
      BY <1>0, IndexInAddrs, Places
    <3>3. mem' \in [Addrs -> Data \cup {Absent}]
      BY <3>1 DEF DataTyped, Addrs, ModeIndex, Data, Pics
    <3>4. d \in Data \cup {Absent}
      BY <3>2, <3>3 DEF DataIn, Own
    <3>5. Load(cur, d)
      BY <2>1 DEF Reload
    <3> HIDE DEF d
    <3> QED BY <1>0, <3>4, <3>5, LoadProtects
  <2>2. ASSUME Unloaded \/ Unmoved
        PROVE  EyeProtects'
    BY <1>1, <2>2 DEF Unloaded, Unmoved, gains
  <2> QED BY <1>7, <2>1, <2>2 DEF FactoryPicture
<1>8. CASE ColourCall
  <2>1. ASSUME FactoryResetColorTemp \/ PictureUiClear \/ FactoryGetRGBGainOffset
        PROVE  EyeProtects'
    BY <1>1, <2>1 DEF FactoryResetColorTemp, PictureUiClear, FactoryGetRGBGainOffset,
                      ResetWhiteBalance
  <2>2. ASSUME NEW l \in Levels, NEW is_save \in BOOLEAN, SetColorTemperature(l, is_save)
        PROVE  EyeProtects'
    <3>1. Cpq_SetWhitebalance(cur, l) /\ eye' = eye
      BY <2>2 DEF SetColorTemperature
    <3>2. by' \in {"load", "failed"} /\ (by' = "load" /\ eye => rgb'.half > 0)
      BY <1>0, <3>1, SetWhitebalanceTyped
    <3> QED BY <3>1, <3>2 DEF EyeProtects
  <2>3. ASSUME NEW l \in Levels, SetColorTempParams(l)
        PROVE  EyeProtects'
    <3>1. eye => rgb'.half > 0
      BY <1>0, <2>3, GainsLookUp DEF SetColorTempParams
    <3> QED BY <2>3, <3>1 DEF SetColorTempParams, EyeProtects
  <2>4. ASSUME NEW s \in Srcs, NEW l \in Levels, FactorySetColorTemp(s, l)
        PROVE  EyeProtects'
    <3>1. UNCHANGED <<eye, rgb, by>> \/ by' = "factory"
      BY <2>4 DEF FactorySetColorTemp, gains
    <3> QED BY <1>1, <1>2, <3>1
  <2>5. ASSUME NEW l \in Levels, FactorySetRGBGainOffset(l)
        PROVE  EyeProtects'
    BY <1>2, <2>5 DEF FactorySetRGBGainOffset
  <2>6. ASSUME NEW e \in BOOLEAN, SetEyeProtectionMode(e)
        PROVE  EyeProtects'
    <3> DEFINE v == GainsOf(cur, GetColorTemperature)
    <3>1. v \in Gains \cup {Absent} /\ \A w \in Gains : Halved(w).half > 0
      BY <1>0, LookUp, GainsLookUp
    <3>2. /\ eye' = e
          /\ by' = "failed" \/ (v # Absent /\ rgb' = IF e THEN Halved(v) ELSE v)
      BY <2>6 DEF SetEyeProtectionMode, Cpq_SetColorTemperature
    <3> HIDE DEF v
    <3> QED BY <3>1, <3>2 DEF EyeProtects
  <2> QED BY <1>8, <2>1, <2>2, <2>3, <2>4, <2>5, <2>6 DEF ColourCall
<1>9. CASE GammaCall
  <2>1. UNCHANGED gains
    BY <1>9 DEF GammaCall, SetWbGammaEnable, SetWhitebalanceGamma, ChangeWb, SetWbGammaMode,
                FactorySetWhitebalanceGamma, FactoryGetWhitebalanceGamma
  <2> QED BY <1>1, <2>1 DEF gains
<1> QED BY <1>3, <1>4, <1>5, <1>6, <1>7, <1>8, <1>9 DEF Next

\* With eye protection on the blue gain on the screen is halved, whatever the
\* order of modes, levels, parameters and the switch (SetEyeProtectionMode,
\* Cpq_SetColorTemperature); the factory setters write what they are given.
THEOREM EyesProtected == Spec => []EyeProtects
PROOF
<1>1. Init => EyeProtects
  BY DEF Init, EyeProtects
<1>2. TypeOK /\ EyeProtects /\ [Next]_wvars => EyeProtects'
  BY EyeStep
<1> QED BY TypesHold, <1>1, <1>2, PTL DEF Spec

-----------------------------------------------------------------------------
(* The calibration file.                                                   *)

\* A calibrated level keeps its calibration unless a call sets this level or
\* the current level is not calibrated (CheckCriDataWhitebalanceRGBGainOffset-
\* Data).
THEOREM CalibrationStays == Spec => CalibrationKept
PROOF
<1>1. ASSUME TypeOK, [Next]_wvars
      PROVE  [\A l \in Levels :
                 cri[l] # Absent /\ cri'[l] # cri[l] =>
                     \/ \E s \in Srcs : FactorySetColorTemp(s, l)
                     \/ FactorySetRGBGainOffset(l)
                     \/ cri[GetColorTemperature] = Absent /\ l # UserTemp]_wvars
  <2> SUFFICES ASSUME NEW l \in Levels, cri[l] # Absent, cri'[l] # cri[l], Next
               PROVE  \/ \E s \in Srcs : FactorySetColorTemp(s, l)
                      \/ FactorySetRGBGainOffset(l)
                      \/ cri[GetColorTemperature] = Absent /\ l # UserTemp
    BY <1>1 DEF wvars, gains
  <2>1. cri \in [Levels -> Gains \cup {Absent}]
    BY <1>1 DEF TypeOK
  <2>2. CheckCri[l] # cri[l] => cri[GetColorTemperature] = Absent /\ l # UserTemp
    BY <2>1 DEF CheckCri, CriFromSlots
  <2>3. CASE ColourCall
    <3>1. ASSUME NEW k \in Levels, FactorySetRGBGainOffset(k), k # l
          PROVE  cri'[l] = CheckCri[l]
      BY <2>1, <3>1 DEF FactorySetRGBGainOffset, CheckCri, CriFromSlots
    <3>2. ASSUME NEW s \in Srcs, NEW k \in Levels, FactorySetColorTemp(s, k)
          PROVE  k = l
      BY <2>1, <3>2 DEF FactorySetColorTemp, gains
    <3>3. ASSUME FactoryGetRGBGainOffset
          PROVE  cri'[l] = CheckCri[l]
      BY <3>3 DEF FactoryGetRGBGainOffset
    <3>4. ~(FactoryResetColorTemp \/ PictureUiClear)
      BY DEF FactoryResetColorTemp, PictureUiClear, ResetWhiteBalance
    <3>5. \A k, is_save : ~SetColorTemperature(k, is_save)
      BY DEF SetColorTemperature
    <3>6. \A k : ~SetColorTempParams(k)
      BY DEF SetColorTempParams
    <3>7. \A e : ~SetEyeProtectionMode(e)
      BY DEF SetEyeProtectionMode
    <3> QED BY <2>2, <2>3, <3>1, <3>2, <3>3, <3>4, <3>5, <3>6, <3>7 DEF ColourCall
  <2>4. CASE GammaCall
    BY <2>4 DEF GammaCall, SetWbGammaEnable, SetWhitebalanceGamma, ChangeWb, SetWbGammaMode,
                FactorySetWhitebalanceGamma, FactoryGetWhitebalanceGamma, gains
  <2>5. ASSUME NEW x, NEW d, Load(x, d)
        PROVE  FALSE
    BY <2>5 DEF Load
  <2>6. ~(Unloaded \/ Unmoved)
    BY DEF Unloaded, Unmoved, gains
  <2>7. ~(Move \/ Choose \/ Picture \/ FactoryPicture)
    BY <2>5, <2>6 DEF Move, Choose, Picture, FactoryPicture, Reload
  <2> QED BY <2>3, <2>4, <2>7 DEF Next
<1> QED BY TypesHold, <1>1, PTL DEF Spec, CalibrationKept

-----------------------------------------------------------------------------
(* The copy of a mode.                                                     *)

\* Copying a mode over the current one: whichever of the two slots is read
\* afterwards, it has the copied data.
LEMMA CopiedData ==
  ASSUME DataTyped, NEW m \in Per(ModeMax), GetPictureModeData(m) # Absent,
         SetPictureModeData(At(cur, GetPQMode), GetPictureModeData(m))
  PROVE  /\ DataIn(mem', At(cur, m)) = GetPictureModeData(m)
         /\ DataIn(mem', At(cur, GetPQMode)) = GetPictureModeData(m)
PROOF
<1> DEFINE x == At(cur, GetPQMode)
           y == At(cur, m)
           d == GetPictureModeData(m)
           a == ModeIndex(x)
           b == ModeIndex(y)
           z == ModeIndex(<<0, 0, y[3]>>)
<1>1. x \in Modes /\ y \in Modes
  BY LookUp, Places DEF DataTyped
<1>2. a \in Addrs /\ b \in Addrs /\ z \in Addrs
  BY <1>1, IndexInAddrs, Places
<1>3. mem' = [mem EXCEPT ![a] = d] /\ mem \in [Addrs -> Data \cup {Absent}] /\ d # Absent
  BY DEF SetPictureModeData, DataTyped
<1>4. d = IF mem[b] # Absent THEN mem[b] ELSE mem[z]
  BY DEF GetPictureModeData, SlotData, DataIn, Own
<1>5. DataIn(mem', y) = IF mem'[b] # Absent THEN mem'[b] ELSE mem'[z]
  BY DEF DataIn, Own
<1>6. DataIn(mem', x) = IF mem'[a] # Absent THEN mem'[a] ELSE mem'[ModeIndex(<<0, 0, x[3]>>)]
  BY DEF DataIn, Own
<1> HIDE DEF a, b, z, d, x, y
<1>7. mem'[a] = d /\ mem'[b] \in {d, mem[b]} /\ mem'[z] \in {d, mem[z]}
  BY <1>2, <1>3
<1> QED BY <1>3, <1>4, <1>5, <1>6, <1>7 DEF x, y, d

\* Copying a mode shows the data the current mode has from now on
\* (FactoryCopyPictureModeDataFromPQMode loads the other mode).
THEOREM CopiesShown == Spec => CopyShown
PROOF
<1>1. ASSUME TypeOK, [Next]_wvars
      PROVE  [\A m \in Per(ModeMax) :
                 FactoryCopyFromPQMode(m) /\ GetPictureModeData(m) # Absent =>
                     panel' = DataIn(mem', At(cur, GetPQMode))]_wvars
  <2> SUFFICES ASSUME NEW m \in Per(ModeMax), FactoryCopyFromPQMode(m), GetPictureModeData(m) # Absent
               PROVE  panel' = DataIn(mem', At(cur, GetPQMode))
    OBVIOUS
  <2>1. /\ SetPictureModeData(At(cur, GetPQMode), GetPictureModeData(m))
        /\ DataIn(mem', At(cur, m)) # Absent => panel' = DataIn(mem', At(cur, m))
    BY DEF FactoryCopyFromPQMode, SetPQPictureMode
  <2>2. DataTyped
    BY <1>1, TypeParts
  <2> QED BY <2>1, <2>2, CopiedData
<1> QED BY TypesHold, <1>1, PTL DEF Spec, CopyShown

-----------------------------------------------------------------------------
(* What is stored and what is shown.                                       *)

\* The default slots of the white balance gamma are never given up.
WbDefaults == \A l \in Levels, g \in Per(GammaModes) : wb[<<0, 0, l, g>>] # Absent

\* The curve of the hardware is that of level l, or was never loaded.
CurveFits(l) ==
    curve = Absent \/ curve = CurveOf(WbData(WbHere(l)), criWb[<<l, gmode>>])

LEMMA WbPresent ==
  ASSUME PointsTyped, WbDefaults, NEW x \in Pairs, NEW l \in Levels, NEW g \in Per(GammaModes)
  PROVE  /\ WbData(OnG(x, l, g)) \in Wb /\ WbData(OnG(x, l, g)) # Absent
         /\ CurveOf(WbData(OnG(x, l, g)), criWb[<<l, g>>]) \in Points
         /\ CurveOf(WbData(OnG(x, l, g)), criWb[<<l, g>>]) # Absent
PROOF
<1>1. WbData(OnG(x, l, g)) \in Wb \cup {Absent}
  BY PointsLookUp
<1>2. WbData(OnG(x, l, g)) # Absent
  <2>1. /\ OnG(x, l, g)[3] = l /\ OnG(x, l, g)[4] = g
    BY DEF OnG
  <2>2. wb[<<0, 0, l, g>>] # Absent
    BY DEF WbDefaults
  <2> QED BY <2>1, <2>2 DEF WbData
<1>3. criWb[<<l, g>>] \in Points \cup {Absent}
  BY PointsLookUp
<1>4. \A slot, point : slot # Absent /\ point \in Points \cup {Absent} => CurveOf(slot, point) \in Points
  BY DEF CurveOf, Points
<1> QED BY <1>1, <1>2, <1>3, <1>4, AbsentAssumption

\* A load brings the curve of the level it loads.
LEMMA LoadFits ==
  ASSUME TypeOK, WbDefaults, NEW x \in Pairs, NEW d \in Data, Load(x, d)
  PROVE  curve' = CurveOf(WbData(OnG(x, d.temp, gmode)), criWb[<<d.temp, gmode>>])
PROOF
<1>1. d.temp \in Levels /\ d # Absent
  BY AbsentAssumption DEF Data, Levels
<1>2. PointsTyped /\ gmode \in Per(GammaModes)
  BY TypeParts DEF PointsTyped
<1>3. CurveOf(WbData(OnG(x, d.temp, gmode)), criWb[<<d.temp, gmode>>]) # Absent
  BY <1>1, <1>2, WbPresent
<1> QED BY <1>1, <1>3 DEF Load, Cpq_SetWhitebalance, Cpq_LoadGamma

\* The default slots of the gamma stay in use.
LEMMA WbDefaultsStep ==
  ASSUME TypeOK, WbDefaults, [Next]_wvars
  PROVE  WbDefaults'
PROOF
<1>0. PointsTyped /\ DataTyped /\ cur \in Pairs /\ gmode \in Per(GammaModes)
      /\ GetColorTemperature \in Levels
  BY TypeParts, LookUp DEF DataTyped, PointsTyped
<1>1. ASSUME UNCHANGED wb
      PROVE  WbDefaults'
  BY <1>1 DEF WbDefaults
<1>2. ASSUME NEW S, ResetWb(S)
      PROVE  WbDefaults'
  <2>1. Flat # Absent
    <3>1. Flat \in Wb
      BY DEF Flat, Wb, Points
    <3> QED BY <3>1, AbsentAssumption
  <2>2. ASSUME NEW l \in Levels, NEW g \in Per(GammaModes)
        PROVE  wb'[<<0, 0, l, g>>] # Absent
    <3>1. <<0, 0, l, g>> \in Gammas
      BY Corner DEF Gammas, Levels
    <3>2. wb[<<0, 0, l, g>>] # Absent
      BY DEF WbDefaults
    <3> QED BY <1>2, <2>1, <3>1, <3>2 DEF ResetWb
  <2> QED BY <2>2 DEF WbDefaults, Levels, Per
<1>3. ASSUME NEW field \in {"on", "pts"}, NEW v, ChangeWb(field, v), \A d \in Wb : [d EXCEPT ![field] = v] \in Wb
      PROVE  WbDefaults'
  <2> DEFINE x == WbHere(GetColorTemperature)
             d == WbData(x)
             new == [d EXCEPT ![field] = v]
  <2>1. wb' = wb \/ (d # Absent /\ wb' = [wb EXCEPT ![x] = new])
    BY <1>3 DEF ChangeWb, points
  <2>2. d \in Wb \cup {Absent}
    BY <1>0, PointsLookUp DEF WbHere
  <2>3. d # Absent => new # Absent
    BY <1>3, <2>2, AbsentAssumption
  <2>4. wb \in [Gammas -> Wb \cup {Absent}]
    BY <1>0 DEF PointsTyped
  <2> HIDE DEF x, d, new
  <2>5. \A l \in Levels, g \in Per(GammaModes) : wb'[<<0, 0, l, g>>] # Absent
    <3>1. \A l \in Levels, g \in Per(GammaModes) : <<0, 0, l, g>> \in Gammas
      BY Corner DEF Gammas, Levels
    <3>2. \A y \in Gammas : wb'[y] = wb[y] \/ (d # Absent /\ wb'[y] = new)
      BY <2>1, <2>4
    <3> QED BY <2>3, <3>1, <3>2 DEF WbDefaults
  <2> QED BY <2>5 DEF WbDefaults, Levels, Per
<1>4. CASE UNCHANGED wvars
  BY <1>1, <1>4 DEF wvars, points
<1>5. ASSUME NEW x, NEW d, Load(x, d)
      PROVE  UNCHANGED wb
  BY <1>5 DEF Load
<1>6. Unloaded \/ Unmoved => UNCHANGED wb
  BY DEF Unloaded, Unmoved, points
<1>7. CASE Move \/ Choose \/ Picture \/ FactoryPicture
  <2>1. UNCHANGED wb
    BY <1>5, <1>6, <1>7 DEF Move, Choose, Picture, FactoryPicture, Reload
  <2> QED BY <1>1, <2>1
<1>8. CASE ColourCall
  <2>1. ASSUME FactoryResetColorTemp \/ PictureUiClear
        PROVE  WbDefaults'
    BY <1>2, <2>1 DEF FactoryResetColorTemp, PictureUiClear, ResetWhiteBalance
  <2>2. ASSUME FactoryGetRGBGainOffset
               \/ (\E l \in Levels, is_save \in BOOLEAN : SetColorTemperature(l, is_save))
               \/ (\E l \in Levels : SetColorTempParams(l) \/ FactorySetRGBGainOffset(l))
               \/ (\E s \in Srcs, l \in Levels : FactorySetColorTemp(s, l))
               \/ (\E e \in BOOLEAN : SetEyeProtectionMode(e))
        PROVE  UNCHANGED wb
    BY <2>2 DEF FactoryGetRGBGainOffset, SetColorTemperature, SetColorTempParams,
                FactorySetRGBGainOffset, FactorySetColorTemp, SetEyeProtectionMode, points
  <2> QED BY <1>1, <1>8, <2>1, <2>2 DEF ColourCall
<1>9. CASE GammaCall
  <2>1. ASSUME NEW on \in BOOLEAN, SetWbGammaEnable(on)
        PROVE  WbDefaults'
    <3>1. \A d \in Wb : [d EXCEPT !["on"] = on] \in Wb
      BY DEF Wb
    <3> QED BY <1>3, <2>1, <3>1 DEF SetWbGammaEnable
  <2>2. ASSUME SetWhitebalanceGamma
        PROVE  WbDefaults'
    <3>1. \A d \in Wb : [d EXCEPT !["pts"] = "set"] \in Wb
      BY DEF Wb, Points
    <3> QED BY <1>3, <2>2, <3>1 DEF SetWhitebalanceGamma
  <2>3. ASSUME (\E g \in Per(GammaModes) : SetWbGammaMode(g))
               \/ (\E l \in Levels : FactorySetWhitebalanceGamma(l)) \/ FactoryGetWhitebalanceGamma
        PROVE  UNCHANGED wb
    BY <2>3 DEF SetWbGammaMode, FactorySetWhitebalanceGamma, FactoryGetWhitebalanceGamma
  <2> QED BY <1>1, <1>9, <2>1, <2>2, <2>3 DEF GammaCall
<1> QED BY <1>4, <1>7, <1>8, <1>9 DEF Next

Shown == WbDefaults /\ PanelStored

\* Nothing of what is compared changed.
LEMMA ShownSame ==
  ASSUME Shown, UNCHANGED <<cur, pqmode, mem, panel, wb, criWb, gmode, curve, dirty>>
  PROVE  PanelStored'
PROOF
  BY DEF Shown, PanelStored, GetPictureModeData, SlotData, DataIn, Own, GetPQMode, Effective, At,
         ModeIndex, CurveOf, WbData, WbHere, OnG

LEMMA ShownDirty ==
  ASSUME dirty' = TRUE
  PROVE  PanelStored'
PROOF
  BY DEF PanelStored

\* What the property reads, in the next state, when the source, the timing
\* and the saved modes stay.
LEMMA ReadsSame ==
  ASSUME UNCHANGED <<cur, pqmode>>
  PROVE  /\ GetPQMode' = GetPQMode
         /\ GetPictureModeData(GetPQMode)' = DataIn(mem', At(cur, GetPQMode))
PROOF
<1>1. GetPQMode' = GetPQMode
  BY DEF GetPQMode, Effective
<1>2. At(cur, GetPQMode)' = At(cur, GetPQMode)
  BY <1>1 DEF At
<1> QED BY <1>1, <1>2 DEF GetPictureModeData, SlotData, DataIn, Own, At, ModeIndex

\* A load that is followed by nothing else.
LEMMA ShownLoaded ==
  ASSUME TypeOK, WbDefaults, NEW x \in Pairs, NEW d \in Data \cup {Absent}, Reload(x, d), cur' = x,
         d # Absent => panel' = d, GetPictureModeData(GetPQMode)' = d
  PROVE  PanelStored'
PROOF
<1>1. CASE d = Absent
  BY <1>1 DEF PanelStored
<1>2. CASE d # Absent
  <2>1. /\ curve' = CurveOf(WbData(OnG(x, d.temp, gmode)), criWb[<<d.temp, gmode>>])
        /\ UNCHANGED <<wb, criWb, gmode>>
    BY <1>2, LoadFits DEF Reload, Load
  <2>2. CurveOf(WbData(WbHere(panel.temp)), criWb[<<panel.temp, gmode>>])'
          = CurveOf(WbData(OnG(x, d.temp, gmode)), criWb[<<d.temp, gmode>>])
    BY <1>2, <2>1 DEF CurveOf, WbData, WbHere, OnG
  <2> QED BY <1>2, <2>1, <2>2 DEF PanelStored
<1> QED BY <1>1, <1>2

LEMMA ShownMove ==
  ASSUME TypeOK, Shown, Move \/ Choose
  PROVE  PanelStored'
PROOF
<1>0. DataTyped /\ GainsTyped /\ PointsTyped /\ cur \in Pairs
  BY TypeParts DEF DataTyped
<1>1. ASSUME NEW x \in Pairs, MoveSlot(x, TRUE), Reload(x, SlotData(At(x, GetPQMode')))
      PROVE  PanelStored'
  <2>1. DataTyped'
    BY <1>0, <1>1, DataTypedNext
  <2>2. GetPQMode' \in Per(ModeMax)
    BY <2>1, Corner DEF DataTyped, GetPQMode, Effective
  <2> DEFINE d == SlotData(At(x, GetPQMode'))
  <2>3. d \in Data \cup {Absent}
    BY <1>0, <2>2, Places, LookUp
  <2>4. /\ cur' = x /\ UNCHANGED <<pqmode, mem>>
        /\ LET m == IF pqmode[x] # Absent THEN pqmode[x]
                    ELSE IF pqmode[<<0, 0>>] = Absent THEN Standard ELSE pqmode[<<0, 0>>] IN
           SetPQPictureMode(SlotData(At(x, m)))
    BY <1>1 DEF MoveSlot
  <2>5. GetPQMode' = IF pqmode[x] # Absent THEN pqmode[x]
                     ELSE IF pqmode[<<0, 0>>] = Absent THEN Standard ELSE pqmode[<<0, 0>>]
    BY <2>4 DEF GetPQMode, Effective
  <2>6. SetPQPictureMode(d)
    BY <2>4, <2>5
  <2>7. GetPictureModeData(GetPQMode)' = d
    BY <2>4 DEF GetPictureModeData, SlotData, DataIn, Own, At, ModeIndex
  <2>8. Reload(x, d)
    BY <1>1
  <2> HIDE DEF d
  <2> QED BY <2>3, <2>4, <2>6, <2>7, <2>8, ShownLoaded DEF Shown, SetPQPictureMode
<1>2. ASSUME NEW x \in Pairs, MoveSlot(x, FALSE), Unloaded
      PROVE  PanelStored'
  BY <1>2, ShownDirty DEF Unloaded
<1>3. CASE Move
  BY <1>1, <1>2, <1>3 DEF Move
<1>4. CASE Choose
  <2>1. PICK m \in Per(ModeMax), is_save \in BOOLEAN :
            /\ SetPQMode(m, is_save)
            /\ IF GetPQMode = m /\ ~mbResetPicture THEN Unmoved
               ELSE IF is_save THEN Reload(cur, GetPictureModeData(m))
               ELSE Load(cur, GetPictureModeData(m)) /\ dirty' = TRUE
    BY <1>4 DEF Choose
  <2>2. CASE GetPQMode = m /\ ~mbResetPicture
    <3>1. UNCHANGED <<cur, pqmode, mem, panel>> /\ Unmoved
      BY <2>1, <2>2 DEF SetPQMode
    <3> QED BY <3>1, ShownSame DEF Unmoved, points
  <2>3. CASE ~(GetPQMode = m /\ ~mbResetPicture) /\ is_save
    <3> DEFINE d == GetPictureModeData(m)
    <3>1. /\ Reload(cur, d) /\ UNCHANGED <<cur, mem>> /\ pqmode' = [pqmode EXCEPT ![cur] = m]
          /\ SetPQPictureMode(d)
      BY <2>1, <2>3 DEF SetPQMode
    <3>2. d \in Data \cup {Absent}
      BY <1>0, LookUp
    <3>3. pqmode'[cur] = m /\ cur' = cur
      BY <1>0, <3>1 DEF DataTyped
    <3>4. GetPQMode' = m
      BY <3>3, AbsentAssumption DEF GetPQMode, Effective
    <3>5. GetPictureModeData(GetPQMode)' = d
      BY <3>1, <3>4 DEF GetPictureModeData, SlotData, DataIn, Own, At, ModeIndex
    <3> HIDE DEF d
    <3> QED BY <1>0, <3>1, <3>2, <3>5, ShownLoaded DEF Shown, SetPQPictureMode
  <2>4. CASE ~(GetPQMode = m /\ ~mbResetPicture) /\ ~is_save
    BY <2>1, <2>4, ShownDirty
  <2> QED BY <2>2, <2>3, <2>4
<1> QED BY <1>3, <1>4

LEMMA ShownSave ==
  ASSUME TypeOK, Shown, Picture
  PROVE  PanelStored'
PROOF
<1> DEFINE d == GetPictureModeData(GetPQMode)
           x == At(cur, GetPQMode)
           new == [d EXCEPT !["pic"] = User]
<1>1. /\ UNCHANGED <<cur, pqmode, wb, criWb, gmode, curve, dirty>>
      /\ panel' = IF panel = Absent THEN panel ELSE [panel EXCEPT !.pic = User]
      /\ IF d = Absent THEN UNCHANGED mem ELSE SetPictureModeData(x, new)
  BY DEF Picture, SavePicture, SaveField, Unmoved, saved, points
<1>2. DataTyped /\ x \in Modes /\ ModeIndex(x) \in Addrs
  BY TypeParts, LookUp, IndexInAddrs
<1>3. d \in Data \cup {Absent}
  BY <1>2, LookUp
<1>4. GetPictureModeData(GetPQMode)' = DataIn(mem', x)
  BY <1>1, ReadsSame
<1>5. d = DataIn(mem, x)
  BY DEF GetPictureModeData, SlotData
<1> HIDE DEF d, x, new
<1>6. CASE d = Absent
  <2>1. DataIn(mem', x) = Absent
    BY <1>1, <1>5, <1>6
  <2> QED BY <1>4, <2>1 DEF PanelStored
<1>7. CASE d # Absent
  <2>1. new \in Data /\ new # Absent /\ new.temp = d.temp
    <3>1. new \in Data /\ new.temp = d.temp
      BY <1>3, <1>7 DEF new, Data, Pics
    <3> QED BY <3>1, AbsentAssumption
  <2>2. mem'[ModeIndex(x)] = new
    BY <1>1, <1>2, <1>7 DEF SetPictureModeData, DataTyped
  <2>3. DataIn(mem', x) = new
    BY <2>1, <2>2 DEF DataIn, Own
  <2>4. ASSUME ~dirty
        PROVE  panel' = new
    <3>1. panel = d
      BY <1>7, <2>4 DEF Shown, PanelStored, d
    <3> QED BY <1>1, <1>7, <3>1 DEF new
  <2>5. ASSUME ~dirty
        PROVE  CurveFits(panel'.temp)
    <3>1. panel = d /\ CurveFits(panel.temp)
      BY <1>7, <2>5 DEF Shown, PanelStored, CurveFits, d
    <3>2. panel'.temp = panel.temp
      BY <2>1, <2>4, <2>5, <3>1
    <3> QED BY <3>1, <3>2
  <2>6. CurveFits(panel'.temp) => (curve = Absent \/ curve = CurveOf(WbData(WbHere(panel.temp)), criWb[<<panel.temp, gmode>>]))'
    BY <1>1 DEF CurveFits, CurveOf, WbData, WbHere, OnG
  <2> QED BY <1>1, <1>4, <2>3, <2>4, <2>5, <2>6 DEF PanelStored
<1> QED BY <1>6, <1>7

\* A copy to the other sources leaves the current data what it was: if it
\* came from the default source, it is written there unchanged.
LEMMA CopyLeaves ==
  ASSUME DataTyped, FactoryCopyToAllSource
  PROVE  GetPictureModeData(GetPQMode)' = GetPictureModeData(GetPQMode)
PROOF
<1> DEFINE x == At(cur, GetPQMode)
           d == GetPictureModeData(GetPQMode)
           a == ModeIndex(x)
           z == ModeIndex(<<0, 0, x[3]>>)
           T == {ModeIndex(y) : y \in {y \in CopyTargets : Own(mem, y) # Absent}}
<1>1. x \in Modes /\ a \in Addrs /\ z \in Addrs
  BY LookUp, IndexInAddrs, Places
<1>2. /\ mem' = IF d = Absent THEN mem ELSE [b \in Addrs |-> IF b \in T THEN d ELSE mem[b]]
      /\ UNCHANGED <<cur, pqmode>>
  BY DEF FactoryCopyToAllSource, saved
<1>3. d = IF mem[a] # Absent THEN mem[a] ELSE mem[z]
  BY DEF GetPictureModeData, SlotData, DataIn, Own
<1>4. GetPictureModeData(GetPQMode)' = IF mem'[a] # Absent THEN mem'[a] ELSE mem'[z]
  BY <1>2, ReadsSame DEF DataIn, Own
<1>5. \A b \in T : mem[b] # Absent
  BY DEF Own
<1>8. d = GetPictureModeData(GetPQMode)
  OBVIOUS
<1> HIDE DEF x, d, a, z, T
<1>6. CASE d = Absent
  BY <1>2, <1>3, <1>4, <1>6, <1>8
<1>7. CASE d # Absent
  <2>1. mem'[a] = (IF a \in T THEN d ELSE mem[a]) /\ mem'[z] = (IF z \in T THEN d ELSE mem[z])
    BY <1>1, <1>2, <1>7
  <2> QED BY <1>3, <1>4, <1>5, <1>7, <1>8, <2>1
<1> QED BY <1>6, <1>7, <1>8

LEMMA ShownFactory ==
  ASSUME TypeOK, Shown, FactoryPicture
  PROVE  PanelStored'
PROOF
<1>0. DataTyped /\ cur \in Pairs
  BY TypeParts DEF DataTyped
<1>1. ASSUME FactoryCopyToAllSource, Unmoved
      PROVE  PanelStored'
  <2>1. GetPictureModeData(GetPQMode)' = GetPictureModeData(GetPQMode)
    BY <1>0, <1>1, CopyLeaves
  <2>2. UNCHANGED <<cur, panel, wb, criWb, gmode, curve, dirty>>
    BY <1>1 DEF FactoryCopyToAllSource, Unmoved, saved, points
  <2> QED BY <2>1, <2>2 DEF Shown, PanelStored, CurveOf, WbData, WbHere, OnG
<1>2. ASSUME NEW m \in Per(ModeMax), FactoryCopyFromPQMode(m),
             Reload(cur, IF GetPictureModeData(m) = Absent THEN Absent ELSE DataIn(mem', At(cur, m)))
      PROVE  PanelStored'
  <2> DEFINE d == GetPictureModeData(m)
  <2>1. /\ UNCHANGED <<cur, pqmode>>
        /\ IF d = Absent THEN UNCHANGED mem ELSE SetPictureModeData(At(cur, GetPQMode), d)
        /\ SetPQPictureMode(IF d = Absent THEN Absent ELSE DataIn(mem', At(cur, m)))
    BY <1>2 DEF FactoryCopyFromPQMode, saved
  <2>2. d \in Data \cup {Absent}
    BY <1>0, LookUp
  <2>3. CASE d = Absent
    <3>1. UNCHANGED <<cur, pqmode, mem, panel>>
      BY <2>1, <2>3 DEF SetPQPictureMode
    <3>2. UNCHANGED <<wb, criWb, gmode, curve>> /\ dirty' = dirty
      BY <1>2, <2>3 DEF Reload, Load, TypeOK
    <3> QED BY <3>1, <3>2, ShownSame
  <2>4. CASE d # Absent
    <3>1. DataIn(mem', At(cur, m)) = d /\ DataIn(mem', At(cur, GetPQMode)) = d
      BY <1>0, <2>1, <2>4, CopiedData
    <3>2. Reload(cur, d) /\ panel' = d
      BY <1>2, <2>1, <2>4, <3>1 DEF SetPQPictureMode
    <3>3. GetPictureModeData(GetPQMode)' = d
      BY <2>1, <3>1, ReadsSame
    <3> HIDE DEF d
    <3> QED BY <1>0, <2>1, <2>2, <3>2, <3>3, ShownLoaded DEF Shown
  <2> QED BY <2>3, <2>4
<1>3. ASSUME Unloaded
      PROVE  PanelStored'
  BY <1>3, ShownDirty DEF Unloaded
<1> QED BY <1>1, <1>2, <1>3 DEF FactoryPicture

LEMMA ShownColour ==
  ASSUME TypeOK, Shown, ColourCall
  PROVE  PanelStored'
PROOF
<1>0. DataTyped /\ GainsTyped /\ PointsTyped /\ cur \in Pairs /\ gmode \in Per(GammaModes)
  BY TypeParts DEF DataTyped, PointsTyped
<1>1. ASSUME FactoryResetColorTemp \/ PictureUiClear
      PROVE  PanelStored'
  BY <1>1, ShownDirty DEF FactoryResetColorTemp, PictureUiClear, ResetWhiteBalance
<1>2. ASSUME Call, PictureKept, UNCHANGED <<points, dirty>>
      PROVE  PanelStored'
  BY <1>2, ShownSame DEF Call, PictureKept, points, saved
<1>3. ASSUME FactoryGetRGBGainOffset
             \/ (\E l \in Levels : SetColorTempParams(l) \/ FactorySetRGBGainOffset(l))
             \/ (\E s \in Srcs, l \in Levels : FactorySetColorTemp(s, l))
             \/ (\E e \in BOOLEAN : SetEyeProtectionMode(e))
      PROVE  PanelStored'
  <2>1. Call /\ PictureKept /\ UNCHANGED <<points, dirty>>
    BY <1>3 DEF FactoryGetRGBGainOffset, SetColorTempParams, FactorySetRGBGainOffset,
                FactorySetColorTemp, SetEyeProtectionMode, points
  <2> QED BY <1>2, <2>1
<1>4. ASSUME NEW l \in Levels, NEW is_save \in BOOLEAN, SetColorTemperature(l, is_save)
      PROVE  PanelStored'
  <2> DEFINE c == CurveOf(WbData(OnG(cur, l, gmode)), criWb[<<l, gmode>>])
             ok == GainsOf(cur, l) # Absent /\ c # Absent
             d == GetPictureModeData(GetPQMode)
             x == At(cur, GetPQMode)
             new == [d EXCEPT !["temp"] = l]
  <2>1. /\ UNCHANGED <<cur, pqmode, wb, criWb, gmode>>
        /\ curve' = IF c = Absent THEN curve ELSE c
        /\ panel' = IF panel = Absent THEN panel ELSE [panel EXCEPT !.temp = l]
        /\ IF ok /\ is_save THEN SaveField("temp", l) ELSE UNCHANGED mem
        /\ dirty' = (dirty \/ ~ok \/ ~is_save)
    BY <1>4 DEF SetColorTemperature, Call, saved, Cpq_SetWhitebalance, Cpq_LoadGamma
  <2>2. x \in Modes /\ ModeIndex(x) \in Addrs /\ d \in Data \cup {Absent} /\ panel \in Data
    BY <1>0, LookUp, IndexInAddrs DEF DataTyped
  <2>3. GetPictureModeData(GetPQMode)' = DataIn(mem', x)
    BY <2>1, ReadsSame
  <2>4. d = DataIn(mem, x)
    BY DEF GetPictureModeData, SlotData
  <2> SUFFICES ASSUME ~dirty, ok, is_save
               PROVE  PanelStored'
    BY <2>1, ShownDirty
  <2>5. SaveField("temp", l)
    BY <2>1
  <2>6. curve' = c
    BY <2>1
  <2>7. IF d = Absent THEN UNCHANGED mem ELSE SetPictureModeData(x, new)
    BY <2>5 DEF SaveField
  <2> HIDE DEF ok, d, x, new
  <2>8. CASE d = Absent
    <3>1. DataIn(mem', x) = Absent
      BY <2>4, <2>7, <2>8
    <3> QED BY <2>3, <3>1 DEF PanelStored
  <2>9. CASE d # Absent
    <3>1. new \in Data /\ new # Absent
      <4>1. new \in Data
        BY <2>2, <2>9 DEF new, Data, Levels
      <4> QED BY <4>1, AbsentAssumption
    <3>2. mem'[ModeIndex(x)] = new
      BY <1>0, <2>2, <2>7, <2>9 DEF SetPictureModeData, DataTyped
    <3>3. DataIn(mem', x) = new
      BY <3>1, <3>2 DEF DataIn, Own
    <3>4. panel = d
      BY <2>9 DEF Shown, PanelStored, d
    <3>5. panel' = new /\ panel'.temp = l
      BY <2>1, <2>2, <2>9, <3>4 DEF new, Data
    <3>6. CurveOf(WbData(WbHere(panel.temp)), criWb[<<panel.temp, gmode>>])' = c
      BY <2>1, <3>5 DEF CurveOf, WbData, WbHere, OnG
    <3> HIDE DEF c
    <3> QED BY <2>3, <2>6, <3>3, <3>5, <3>6 DEF PanelStored
  <2> QED BY <2>8, <2>9
<1> QED BY <1>1, <1>3, <1>4 DEF ColourCall

\* What the property says when only the gamma changed: the curve must fit the
\* level of the current data.
LEMMA ShownCurve ==
  ASSUME TypeOK, Shown, UNCHANGED <<cur, pqmode, mem, panel>>, dirty' \/ ~dirty,
         ~dirty' => CurveFits(GetColorTemperature)'
  PROVE  PanelStored'
PROOF
<1> SUFFICES ASSUME ~dirty', GetPictureModeData(GetPQMode)' # Absent
             PROVE  /\ panel' = GetPictureModeData(GetPQMode)'
                    /\ CurveFits(panel.temp)'
  BY DEF PanelStored, CurveFits
<1>1. GetPictureModeData(GetPQMode)' = GetPictureModeData(GetPQMode)
  BY DEF GetPictureModeData, SlotData, DataIn, Own, GetPQMode, Effective, At, ModeIndex
<1>2. panel = GetPictureModeData(GetPQMode) /\ panel # Absent
  BY <1>1 DEF Shown, PanelStored
<1>3. GetColorTemperature' = panel'.temp
  BY <1>1, <1>2 DEF GetColorTemperature, LevelOf
<1>4. CurveFits(panel.temp)' = CurveFits(GetColorTemperature)'
  BY <1>3 DEF CurveFits
<1> QED BY <1>1, <1>2, <1>4

LEMMA ShownGamma ==
  ASSUME TypeOK, Shown, GammaCall
  PROVE  PanelStored'
PROOF
<1>0. /\ DataTyped /\ PointsTyped /\ cur \in Pairs /\ GetColorTemperature \in Levels
      /\ gmode \in Per(GammaModes) /\ dirty \in BOOLEAN /\ WbDefaults
  BY TypeParts, LookUp DEF DataTyped, PointsTyped, Shown
<1>1. ASSUME Call, PictureKept
      PROVE  /\ UNCHANGED <<cur, pqmode, mem, panel>>
             /\ GetColorTemperature' = GetColorTemperature
  <2>1. UNCHANGED <<cur, pqmode, mem, panel>>
    BY <1>1 DEF Call, PictureKept, saved
  <2>2. GetColorTemperature' = GetColorTemperature
    BY <2>1 DEF GetColorTemperature, LevelOf, GetPictureModeData, SlotData, DataIn, Own, GetPQMode,
                Effective, At, ModeIndex
  <2> QED BY <2>1, <2>2
<1>2. ASSUME UNCHANGED <<cur, pqmode, mem, panel, wb, criWb, gmode, curve, dirty>>
      PROVE  PanelStored'
  BY <1>2, ShownSame
<1>3. ASSUME NEW field, NEW v, ChangeWb(field, v), \A d \in Wb : [d EXCEPT ![field] = v] \in Wb
      PROVE  PanelStored'
  <2> DEFINE l == GetColorTemperature
             x == WbHere(l)
             d == WbData(x)
             new == [d EXCEPT ![field] = v]
             c == CurveOf(new, criWb[<<l, gmode>>])
  <2>1. d \in Wb /\ d # Absent /\ x \in Gammas
    BY <1>0, WbPresent, PointsLookUp DEF WbHere
  <2>2. /\ Call /\ PictureKept /\ dirty' = dirty /\ wb' = [wb EXCEPT ![x] = new]
        /\ curve' = (IF c = Absent THEN curve ELSE c) /\ UNCHANGED <<criWb, gmode>>
    BY <1>3, <2>1 DEF ChangeWb, Cpq_LoadGamma
  <2>3. new \in Wb /\ new # Absent
    <3>1. new \in Wb
      BY <1>3, <2>1
    <3> QED BY <3>1, AbsentAssumption
  <2>4. c # Absent
    <3>1. criWb[<<l, gmode>>] \in Points \cup {Absent}
      BY <1>0, PointsLookUp
    <3>2. c \in Points
      BY <2>3, <3>1 DEF CurveOf, Points
    <3> QED BY <3>2, AbsentAssumption
  <2>5. wb'[x] = new
    BY <1>0, <2>1, <2>2 DEF PointsTyped
  <2>6. /\ UNCHANGED <<cur, pqmode, mem, panel>> /\ GetColorTemperature' = l
    BY <1>1, <2>2
  <2>7. WbHere(GetColorTemperature)' = x
    BY <2>2, <2>6 DEF WbHere, OnG
  <2>8. WbData(WbHere(GetColorTemperature))' = new
    BY <2>3, <2>5, <2>7 DEF WbData
  <2>9. CurveOf(WbData(WbHere(GetColorTemperature)), criWb[<<GetColorTemperature, gmode>>])' = c
    BY <2>2, <2>6, <2>8 DEF CurveOf
  <2>10. curve' = c
    BY <2>2, <2>4
  <2> HIDE DEF c, new, d, x, l
  <2>11. CurveFits(GetColorTemperature)'
    BY <2>9, <2>10 DEF CurveFits
  <2> QED BY <1>0, <2>2, <2>6, <2>11, ShownCurve
<1>4. ASSUME NEW on \in BOOLEAN, SetWbGammaEnable(on)
      PROVE  PanelStored'
  <2>1. \A d \in Wb : [d EXCEPT !["on"] = on] \in Wb
    BY DEF Wb
  <2> QED BY <1>3, <1>4, <2>1 DEF SetWbGammaEnable
<1>5. ASSUME SetWhitebalanceGamma
      PROVE  PanelStored'
  <2>1. \A d \in Wb : [d EXCEPT !["pts"] = "set"] \in Wb
    BY DEF Wb, Points
  <2> QED BY <1>3, <1>5, <2>1 DEF SetWhitebalanceGamma
<1>6. ASSUME NEW g \in Per(GammaModes), SetWbGammaMode(g)
      PROVE  PanelStored'
  <2> DEFINE l == GetColorTemperature
             c == CurveOf(WbData(OnG(cur, l, g)), criWb[<<l, g>>])
  <2>1. /\ Call /\ PictureKept /\ UNCHANGED <<wb, criWb, dirty>> /\ gmode' = g
        /\ IF g = gmode THEN UNCHANGED curve ELSE curve' = IF c = Absent THEN curve ELSE c
    BY <1>6 DEF SetWbGammaMode, Cpq_LoadGamma
  <2>2. c # Absent
    BY <1>0, WbPresent
  <2>3. UNCHANGED <<cur, pqmode, mem, panel>> /\ GetColorTemperature' = l
    BY <1>1, <2>1
  <2>4. CASE g = gmode
    BY <1>2, <2>1, <2>3, <2>4
  <2>5. CASE g # gmode
    <3>1. curve' = c
      BY <2>1, <2>2, <2>5
    <3>2. CurveOf(WbData(WbHere(GetColorTemperature)), criWb[<<GetColorTemperature, gmode>>])' = c
      BY <2>1, <2>3 DEF CurveOf, WbData, WbHere, OnG
    <3> HIDE DEF c, l
    <3>3. CurveFits(GetColorTemperature)'
      BY <3>1, <3>2 DEF CurveFits
    <3> QED BY <1>0, <2>1, <2>3, <3>3, ShownCurve
  <2> QED BY <2>4, <2>5
<1>7. ASSUME NEW l \in Levels, FactorySetWhitebalanceGamma(l)
      PROVE  PanelStored'
  <2> DEFINE k == CheckCriWb
             c == CurveOf(WbData(WbHere(l)), "set")
  <2>1. /\ Call /\ PictureKept /\ UNCHANGED <<wb, gmode>>
        /\ dirty' = (dirty \/ l # GetColorTemperature)
        /\ IF k[<<l, gmode>>] = Absent THEN criWb' = k /\ UNCHANGED curve
           ELSE /\ criWb' = [k EXCEPT ![<<l, gmode>>] = "set"]
                /\ curve' = IF c = Absent THEN curve ELSE c
    BY <1>7 DEF FactorySetWhitebalanceGamma, Cpq_LoadGamma
  <2>2. CASE l # GetColorTemperature
    BY <2>1, <2>2, ShownDirty
  <2>3. CASE l = GetColorTemperature
    <3>1. UNCHANGED <<cur, pqmode, mem, panel>> /\ GetColorTemperature' = l /\ dirty' = dirty
      BY <1>0, <1>1, <2>1, <2>3
    <3>2. WbData(WbHere(l)) \in Wb /\ WbData(WbHere(l)) # Absent
      BY <1>0, WbPresent DEF WbHere
    <3>3. criWb \in [Levels \X Per(GammaModes) -> Points \cup {Absent}]
      BY <1>0 DEF PointsTyped
    <3>4. k[<<l, gmode>>] # Absent /\ DOMAIN k = Levels \X Per(GammaModes)
      <4>1. CASE criWb[<<l, gmode>>] # Absent
        BY <2>3, <3>3, <4>1 DEF CheckCriWb
      <4>2. CASE criWb[<<l, gmode>>] = Absent
        <5>1. k = [p \in DOMAIN criWb |-> IF p[2] = gmode /\ WbData(WbHere(p[1])) # Absent
                                          THEN WbData(WbHere(p[1])).pts ELSE criWb[p]]
          BY <2>3, <4>2 DEF CheckCriWb
        <5>2. <<l, gmode>> \in DOMAIN criWb
          BY <1>0, <3>3
        <5>3. k[<<l, gmode>>] = WbData(WbHere(l)).pts
          BY <3>2, <5>1, <5>2
        <5>4. WbData(WbHere(l)).pts \in Points
          BY <3>2 DEF Wb
        <5> QED BY <3>3, <5>1, <5>3, <5>4, AbsentAssumption
      <4> QED BY <4>1, <4>2
    <3>5. c # Absent
      <4>1. c \in Points
        BY <3>2 DEF CurveOf, Points
      <4> QED BY <4>1, AbsentAssumption
    <3> HIDE DEF k
    <3>6. criWb'[<<l, gmode>>] = "set" /\ curve' = c /\ gmode' = gmode
      BY <1>0, <2>1, <3>4, <3>5
    <3>7. CurveOf(WbData(WbHere(GetColorTemperature)), criWb[<<GetColorTemperature, gmode>>])' = c
      BY <2>1, <3>1, <3>6 DEF CurveOf, WbData, WbHere, OnG
    <3> HIDE DEF c
    <3>8. CurveFits(GetColorTemperature)'
      BY <3>6, <3>7 DEF CurveFits
    <3> QED BY <1>0, <3>1, <3>8, ShownCurve
  <2> QED BY <2>2, <2>3
<1>8. ASSUME FactoryGetWhitebalanceGamma
      PROVE  PanelStored'
  <2>1. /\ Call /\ PictureKept /\ UNCHANGED <<wb, gmode, curve>>
        /\ dirty' = (dirty \/ criWb' # criWb)
    BY <1>8 DEF FactoryGetWhitebalanceGamma
  <2>2. CASE criWb' # criWb
    BY <2>1, <2>2, ShownDirty
  <2>3. CASE criWb' = criWb
    BY <1>0, <1>1, <1>2, <2>1, <2>3
  <2> QED BY <2>2, <2>3
<1> QED BY <1>4, <1>5, <1>6, <1>7, <1>8 DEF GammaCall

LEMMA ShownInitially == Init => Shown
PROOF
<1> SUFFICES ASSUME Init
             PROVE  Shown
  OBVIOUS
<1>1. WbDefaults
  <2>1. \A l \in Levels, g \in Per(GammaModes) : <<0, 0, l, g>> \in Gammas
    BY Corner DEF Gammas, Levels
  <2>2. Flat # Absent
    <3>1. Flat \in Wb
      BY DEF Flat, Wb, Points
    <3> QED BY <3>1, AbsentAssumption
  <2>3. wb = [x \in Gammas |-> IF x[1] = 0 /\ x[2] = 0 THEN Flat ELSE Absent]
    BY DEF Init
  <2> QED BY <2>1, <2>2, <2>3 DEF WbDefaults
<1>2. PanelStored
  <2>1. curve = Absent /\ panel = GetPictureModeData(GetPQMode)
    BY DEF Init, DataInit
  <2> QED BY <2>1 DEF PanelStored
<1> QED BY <1>1, <1>2 DEF Shown

LEMMA ShownStep ==
  ASSUME TypeOK, Shown, [Next]_wvars
  PROVE  Shown'
PROOF
<1>1. WbDefaults'
  BY WbDefaultsStep DEF Shown
<1>2. PanelStored'
  <2>1. CASE UNCHANGED wvars
    BY <2>1, ShownSame DEF wvars, vars, points
  <2> QED BY <2>1, ShownMove, ShownSave, ShownFactory, ShownColour, ShownGamma DEF Next
<1> QED BY <1>1, <1>2 DEF Shown

\* While nothing changed behind the hardware's back, it has the stored data of
\* the current mode and the stored points of its colour temperature
\* (SetPQMode and mbResetPicture, the setters, the copies).
THEOREM StoredIsShown == Spec => []PanelStored
PROOF
<1>1. TypeOK /\ Shown /\ [Next]_wvars => Shown'
  BY ShownStep
<1>2. Shown => PanelStored
  BY DEF Shown
<1> QED BY TypesHold, ShownInitially, <1>1, <1>2, PTL DEF Spec

-----------------------------------------------------------------------------
(* The picture data implements PictureStore.                               *)

Cells == [x \in Unshared |-> mem[ModeIndex(x)]]
StoreStep == Store!Next \/ Cells' = Cells

LEMMA CellsNext == Cells' = [x \in Unshared |-> mem'[ModeIndex(x)]]
PROOF
  BY DEF Cells, Unshared, ModeIndex, Modes

\* An index nobody else has.
LEMMA Alone ==
  ASSUME DataTyped, NEW x \in Unshared
  PROVE  /\ x \in Modes /\ ModeIndex(x) \in Addrs
         /\ Cells[x] = mem[ModeIndex(x)] /\ Cells[x] \in Data \cup {Absent}
         /\ \A y \in Modes : ModeIndex(y) = ModeIndex(x) => y = x
PROOF
<1>1. x \in Modes /\ \A y \in Modes : ModeIndex(y) = ModeIndex(x) => y = x
  BY DEF Unshared
<1>2. ModeIndex(x) \in Addrs
  BY <1>1, IndexInAddrs
<1> QED BY <1>1, <1>2 DEF Cells, DataTyped

\* One slot written is a save of its cell, or of no cell at all.
LEMMA WriteStep ==
  ASSUME DataTyped, NEW x \in Modes, NEW d \in Data, SetPictureModeData(x, d)
  PROVE  StoreStep
PROOF
<1>1. mem' = [mem EXCEPT ![ModeIndex(x)] = d] /\ mem \in [Addrs -> Data \cup {Absent}]
  BY DEF SetPictureModeData, DataTyped
<1>2. ASSUME NEW y \in Unshared
      PROVE  mem'[ModeIndex(y)] = IF y = x THEN d ELSE mem[ModeIndex(y)]
  BY <1>1, Alone
<1>3. Cells' = [y \in Unshared |-> IF y = x THEN d ELSE mem[ModeIndex(y)]]
  BY <1>2, CellsNext
<1>4. CASE x \in Unshared
  <2>1. Cells' = [Cells EXCEPT ![x] = d]
    BY <1>3, <1>4 DEF Cells
  <2>2. Store!Save(x, d)
    BY <2>1 DEF Store!Save, Cells
  <2> QED BY <1>4, <2>2 DEF StoreStep, Store!Next
<1>5. CASE x \notin Unshared
  BY <1>3, <1>5 DEF StoreStep, Cells
<1> QED BY <1>4, <1>5

LEMMA SaveStep ==
  ASSUME DataTyped
  PROVE  /\ SaveField("pic", User) => StoreStep
         /\ \A l \in Levels : SaveField("temp", l) => StoreStep
PROOF
<1> DEFINE d == GetPictureModeData(GetPQMode)
           x == At(cur, GetPQMode)
<1>1. d \in Data \cup {Absent} /\ x \in Modes
  BY LookUp
<1>2. SaveField("pic", User) =>
          \/ mem' = mem
          \/ d # Absent /\ SetPictureModeData(x, [d EXCEPT !["pic"] = User])
  BY DEF SaveField
<1>3. \A l \in Levels : SaveField("temp", l) =>
          \/ mem' = mem
          \/ d # Absent /\ SetPictureModeData(x, [d EXCEPT !["temp"] = l])
  BY DEF SaveField
<1> HIDE DEF d, x
<1>4. d # Absent => [d EXCEPT !["pic"] = User] \in Data
  BY <1>1 DEF Data, Pics
<1>5. \A l \in Levels : d # Absent => [d EXCEPT !["temp"] = l] \in Data
  BY <1>1 DEF Data, Levels
<1>6. mem' = mem => StoreStep
  BY CellsNext DEF StoreStep, Cells
<1> QED BY <1>1, <1>2, <1>3, <1>4, <1>5, <1>6, WriteStep

\* A loop over the slots S restores the cells of S that are in use.
LEMMA LoopRestores ==
  ASSUME DataTyped, NEW S \in SUBSET Modes, ResetDataOf(S),
         NEW T \in SUBSET Unshared, T = S \cap Unshared
  PROVE  Store!Restore(T)
PROOF
<1>1. ASSUME NEW y \in Unshared
      PROVE  mem'[ModeIndex(y)] = IF y \in T /\ Cells[y] # Absent
                                  THEN IF HasRow(y) THEN FromRow(y, Cells[y]) ELSE Cells[y]
                                  ELSE Cells[y]
  <2> DEFINE a == ModeIndex(y)
             W == {x \in S : ModeIndex(x) = a /\ HasRow(x)}
             C == {x \in W : RowOf(x) \notin Partial}
  <2>1. /\ a \in Addrs /\ y \in Modes /\ Cells[y] = mem[a]
        /\ \A x \in Modes : ModeIndex(x) = a => x = y
    BY Alone
  <2>2. mem'[a] = IF mem[a] = Absent \/ W = {} THEN mem[a]
                  ELSE [pic |-> RowOf(LastOf(W)),
                        temp |-> IF C = {} THEN mem[a].temp ELSE RowTemp[RowOf(LastOf(C))]]
    BY <2>1 DEF ResetDataOf
  <2>3. W = IF y \in S /\ HasRow(y) THEN {y} ELSE {}
    BY <2>1
  <2>4. W # {} => C = IF RowOf(y) \in Partial THEN {} ELSE {y}
    BY <2>3
  <2>5. W # {} => LastOf(W) = y
    <3>1. W # {} => W \in SUBSET Modes /\ W = {y}
      BY <2>3
    <3> HIDE DEF W
    <3> QED BY <3>1, LastIn
  <2>6. W # {} /\ C # {} => LastOf(C) = y
    <3>1. W # {} /\ C # {} => C \in SUBSET Modes /\ C = {y}
      BY <2>3, <2>4
    <3> HIDE DEF W, C
    <3> QED BY <3>1, LastIn
  <2>7. y \in T <=> y \in S
    OBVIOUS
  <2> HIDE DEF W, C, a
  <2>8. CASE W = {} \/ mem[a] = Absent
    <3>1. mem'[a] = Cells[y]
      BY <2>1, <2>2, <2>8
    <3>2. W = {} => ~(y \in T /\ HasRow(y))
      BY <2>3, <2>7
    <3> QED BY <2>1, <2>8, <3>1, <3>2 DEF a
  <2>9. CASE W # {} /\ mem[a] # Absent
    <3>1. y \in T /\ HasRow(y)
      BY <2>3, <2>7, <2>9
    <3>2. mem'[a] = FromRow(y, mem[a])
      BY <2>2, <2>4, <2>5, <2>6, <2>9 DEF FromRow
    <3> QED BY <2>1, <2>9, <3>1, <3>2 DEF a
  <2> QED BY <2>8, <2>9
<1>2. [x \in Unshared |-> mem[ModeIndex(x)]]'
        = [y \in Unshared |-> IF y \in T /\ Cells[y] # Absent
                              THEN IF HasRow(y) THEN FromRow(y, Cells[y]) ELSE Cells[y]
                              ELSE Cells[y]]
  BY <1>1, CellsNext DEF Cells
<1>3. \A y \in Unshared : Cells[y] = mem[ModeIndex(y)]
  BY DEF Cells
<1> QED BY <1>2, <1>3 DEF Store!Restore, Store!Used, Cells

LEMMA ResetStep ==
  ASSUME DataTyped
  PROVE  /\ ResetDataOf(Modes) => StoreStep
         /\ ResetDataOf({x \in Modes : x[1] = cur[1]}) => StoreStep
PROOF
<1>1. ASSUME ResetDataOf(Modes)
      PROVE  StoreStep
  <2>1. Unshared = Modes \cap Unshared
    BY DEF Unshared
  <2>2. Store!Restore(Unshared)
    BY <1>1, <2>1, LoopRestores
  <2>3. Unshared \in Store!Scopes
    BY DEF Store!Scopes
  <2> QED BY <2>2, <2>3 DEF StoreStep, Store!Next
<1>2. ASSUME ResetDataOf({x \in Modes : x[1] = cur[1]})
      PROVE  StoreStep
  <2> DEFINE S == {x \in Modes : x[1] = cur[1]}
             T == {x \in Unshared : x[1] = cur[1]}
  <2>1. S \in SUBSET Modes /\ T \in SUBSET Unshared /\ T = S \cap Unshared
    BY DEF Unshared
  <2>2. Store!Restore(T)
    <3>1. ResetDataOf(S)
      BY <1>2
    <3> HIDE DEF S, T
    <3> QED BY <2>1, <3>1, LoopRestores
  <2>3. CASE T # {}
    <3>1. cur[1] \in {y[1] : y \in Unshared}
      BY <2>3
    <3>2. T \in Store!Scopes
      BY <3>1 DEF Store!Scopes
    <3> HIDE DEF T
    <3> QED BY <2>2, <3>2 DEF StoreStep, Store!Next
  <2>4. CASE T = {}
    <3>1. Cells' = Cells
      <4> HIDE DEF T
      <4> QED BY <2>2, <2>4 DEF Store!Restore, Cells
    <3> QED BY <3>1 DEF StoreStep
  <2> QED BY <2>3, <2>4
<1> QED BY <1>1, <1>2

LEMMA CopyStep ==
  ASSUME DataTyped, FactoryCopyToAllSource
  PROVE  StoreStep
PROOF
<1> DEFINE d == GetPictureModeData(GetPQMode)
           p == At(cur, GetPQMode)
           Hit == {x \in CopyTargets : Own(mem, x) # Absent}
           T == {ModeIndex(x) : x \in Hit}
<1>1. d \in Data \cup {Absent} /\ p \in Modes /\ cur \in Pairs /\ GetPQMode \in Per(ModeMax)
  BY LookUp DEF DataTyped
<1>2. mem' = IF d = Absent THEN mem ELSE [a \in Addrs |-> IF a \in T THEN d ELSE mem[a]]
  BY DEF FactoryCopyToAllSource
<1>3. CopyTargets \subseteq Modes
  BY <1>1, Places DEF CopyTargets, Modes
<1>4. ASSUME NEW y \in Unshared
      PROVE  ModeIndex(y) \in T <=>
                 /\ Cells[y] # Absent /\ y[1] \in (Srcs \cap Per(FmtMax)) \ {p[1]}
                 /\ y[2] = p[2] /\ y[3] = p[3]
  <2>1. /\ y \in Modes /\ Cells[y] = mem[ModeIndex(y)]
        /\ \A x \in Modes : ModeIndex(x) = ModeIndex(y) => x = y
    BY Alone
  <2>2. ModeIndex(y) \in T <=> y \in CopyTargets /\ Cells[y] # Absent
    BY <1>3, <2>1 DEF Own
  <2>3. p[1] = cur[1] /\ p[2] = cur[2] /\ p[3] = GetPQMode
    BY DEF At
  <2>4. y = <<y[1], y[2], y[3]>>
    BY <2>1 DEF Modes
  <2>5. y \in CopyTargets <=>
            /\ y[1] \in (Srcs \cap Per(FmtMax)) \ {cur[1]}
            /\ y[2] = cur[2] /\ y[3] = GetPQMode
    BY <2>4 DEF CopyTargets
  <2> HIDE DEF p, T
  <2> QED BY <2>2, <2>3, <2>5
<1>5. \A y \in Unshared : Cells[y] = mem[ModeIndex(y)] /\ ModeIndex(y) \in Addrs
  BY Alone
<1> HIDE DEF d, p, T, Hit
<1>6. CASE d = Absent
  BY <1>2, <1>6, CellsNext DEF StoreStep, Cells
<1>7. CASE d # Absent
  <2>1. \A y \in Unshared : mem'[ModeIndex(y)] = IF ModeIndex(y) \in T THEN d ELSE mem[ModeIndex(y)]
    BY <1>2, <1>5, <1>7
  <2>2. [x \in Unshared |-> mem[ModeIndex(x)]]'
          = [y \in Unshared |-> IF /\ Cells[y] # Absent
                                   /\ y[1] \in (Srcs \cap Per(FmtMax)) \ {p[1]}
                                   /\ y[2] = p[2] /\ y[3] = p[3]
                                THEN d ELSE Cells[y]]
    BY <1>4, <1>5, <2>1, CellsNext DEF Cells
  <2>3. Store!CopyFrom(p, d)
    BY <1>5, <2>2 DEF Store!CopyFrom, Store!Used, Cells
  <2> QED BY <1>1, <1>7, <2>3 DEF StoreStep, Store!Next
<1> QED BY <1>6, <1>7

LEMMA StoreStepTaken ==
  ASSUME TypeOK, [Next]_wvars
  PROVE  StoreStep
PROOF
<1>0. DataTyped
  BY TypeParts
<1>1. ASSUME mem' = mem
      PROVE  StoreStep
  BY <1>1, CellsNext DEF StoreStep, Cells
<1>2. CASE UNCHANGED wvars
  BY <1>1, <1>2 DEF wvars, vars
<1>3. CASE Move
  BY <1>1, <1>3 DEF Move, MoveSlot
<1>4. CASE Choose
  BY <1>1, <1>4 DEF Choose, SetPQMode
<1>5. CASE Picture
  BY <1>0, <1>5, SaveStep DEF Picture, SavePicture
<1>6. CASE FactoryPicture
  <2>1. ASSUME NEW s \in Srcs, NEW m \in Per(ModeMax), FactorySetPQMode(s, m)
        PROVE  StoreStep
    <3> DEFINE x == <<s, cur[2], m>>
               d == SlotData(x)
    <3>1. x \in Modes
      BY <1>0 DEF DataTyped, Modes, Pairs
    <3>2. d \in Data \cup {Absent}
      BY <1>0, <3>1, LookUp
    <3>3. mem' = mem \/ (d # Absent /\ SetPictureModeData(x, [d EXCEPT !.pic = User]))
      BY <2>1 DEF FactorySetPQMode
    <3> HIDE DEF x, d
    <3>4. d # Absent => [d EXCEPT !.pic = User] \in Data
      BY <3>2 DEF Data, Pics
    <3> QED BY <1>0, <1>1, <3>1, <3>3, <3>4, WriteStep
  <2>2. ASSUME FactoryResetPictureModeData
        PROVE  StoreStep
    <3> DEFINE x == At(cur, GetPQMode)
               d == mem[ModeIndex(x)]
    <3>1. x \in Modes /\ ModeIndex(x) \in Addrs
      BY <1>0, LookUp, IndexInAddrs
    <3>2. d \in Data \cup {Absent}
      BY <1>0, <3>1 DEF DataTyped
    <3>3. mem' = mem \/ (d # Absent /\ HasRow(x) /\ SetPictureModeData(x, FromRow(x, d)))
      BY <2>2 DEF FactoryResetPictureModeData, ResetData
    <3> HIDE DEF x, d
    <3> QED BY <1>0, <1>1, <3>1, <3>2, <3>3, RowData, WriteStep
  <2>3. ASSUME NEW m \in Per(ModeMax), FactoryCopyFromPQMode(m)
        PROVE  StoreStep
    <3> DEFINE x == At(cur, GetPQMode)
               d == GetPictureModeData(m)
    <3>1. x \in Modes /\ d \in Data \cup {Absent}
      BY <1>0, LookUp
    <3>2. mem' = mem \/ (d # Absent /\ SetPictureModeData(x, d))
      BY <2>3 DEF FactoryCopyFromPQMode
    <3> HIDE DEF x, d
    <3> QED BY <1>0, <1>1, <3>1, <3>2, WriteStep
  <2>4. FactoryResetPQMode => StoreStep
    BY <1>0, ResetStep DEF FactoryResetPQMode
  <2>5. FactoryCopyToAllSource => StoreStep
    BY <1>0, CopyStep
  <2> QED BY <1>6, <2>1, <2>2, <2>3, <2>4, <2>5 DEF FactoryPicture
<1>7. CASE ColourCall
  <2>1. FactoryResetColorTemp => mem' = mem
    BY DEF FactoryResetColorTemp
  <2>2. PictureUiClear => StoreStep
    BY <1>0, ResetStep DEF PictureUiClear, resetCurSrcPqUiSetting
  <2>3. ASSUME NEW l \in Levels, NEW is_save \in BOOLEAN, SetColorTemperature(l, is_save)
        PROVE  StoreStep
    <3>1. mem' = mem \/ SaveField("temp", l)
      BY <2>3 DEF SetColorTemperature
    <3> QED BY <1>0, <1>1, <3>1, SaveStep
  <2>4. \A l \in Levels : SetColorTempParams(l) \/ FactorySetRGBGainOffset(l) => mem' = mem
    BY DEF SetColorTempParams, FactorySetRGBGainOffset, PictureKept
  <2>5. \A s \in Srcs, l \in Levels : FactorySetColorTemp(s, l) => mem' = mem
    BY DEF FactorySetColorTemp, PictureKept
  <2>6. FactoryGetRGBGainOffset \/ (\E e \in BOOLEAN : SetEyeProtectionMode(e)) => mem' = mem
    BY DEF FactoryGetRGBGainOffset, SetEyeProtectionMode, PictureKept
  <2> QED BY <1>1, <1>7, <2>1, <2>2, <2>3, <2>4, <2>5, <2>6 DEF ColourCall
<1>8. CASE GammaCall
  <2>1. mem' = mem
    BY <1>8 DEF GammaCall, SetWbGammaEnable, SetWhitebalanceGamma, ChangeWb, SetWbGammaMode,
                FactorySetWhitebalanceGamma, FactoryGetWhitebalanceGamma, PictureKept
  <2> QED BY <1>1, <2>1
<1> QED BY <1>2, <1>3, <1>4, <1>5, <1>6, <1>7, <1>8 DEF Next

\* The picture data implements PictureStore on the slots no other mode
\* shares: what the fall back, the indexes and the loops of the resets and
\* copies do is a save, a copy or a restore of the cells the call names.
THEOREM ImplementsStore == Spec => StoreImplemented
PROOF
<1>1. Init => Store!Init
  <2> SUFFICES ASSUME Init
               PROVE  Store!Init
    OBVIOUS
  <2>1. DataTyped
    BY TypeInitially, TypeParts
  <2>2. \A x \in Unshared : mem[ModeIndex(x)] \in Data \cup {Absent}
    BY <2>1, Alone
  <2> QED BY <2>2 DEF Store!Init
<1>2. TypeOK /\ [Next]_wvars => [Store!Next]_Cells
  BY StoreStepTaken DEF StoreStep
<1>3. TypeOK /\ [Next]_wvars => [Store!Next]_([x \in Unshared |-> mem[ModeIndex(x)]])
  BY <1>2 DEF Cells
<1> QED BY TypesHold, <1>1, <1>3, PTL DEF Spec, StoreImplemented, Store!Spec
=============================================================================
