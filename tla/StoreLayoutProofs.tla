-------------------------- MODULE StoreLayoutProofs --------------------------
(***************************************************************************)
(* Proofs for every number of sources, timings, modes and temperatures:    *)
(*   two slots of the settings store never share their bytes: the index an *)
(*     accessor computes is a number written in mixed digits, and a digit  *)
(*     smaller than its base can be read back;                             *)
(*   an access stays in the item it names, but for the one mode slot that  *)
(*     carries over, and what that one reaches.                            *)
(***************************************************************************)
EXTENDS StoreLayout, SequenceTheorems, WellFoundedInduction, TLAPS

\* What an access leaves: the index it computed from what it named.
Computed ==
    /\ item = "pq_mode" => args \in Pairs /\ index = PairIndex(args) * ModeInfoSize
    /\ item = "temp_param" => args \in Temps /\ index = TempIndex(args) * TempParamSize
    /\ item = "gamma_param" => args \in Gammas /\ index = GammaIndex(args) * GammaParamSize
    /\ item = "mode_param" => args \in Modes /\ index = ModeIndex(args) * ModeParamSize

-----------------------------------------------------------------------------
(* Digits.                                                                 *)

\* A last digit smaller than its base can be read back, and so can the rest.
LEMMA Digit ==
  ASSUME NEW n \in Nat \ {0}, NEW a \in Int, NEW c \in Int, NEW b \in 0..(n - 1),
         NEW d \in 0..(n - 1), a * n + b = c * n + d
  PROVE  a = c /\ b = d
PROOF
<1>1. (a - c) * n = d - b
  OBVIOUS
<1>2. CASE a > c
  <2>1. (a - c) * n >= n
    BY <1>2
  <2> QED BY <1>1, <2>1
<1>3. CASE a < c
  <2>1. (c - a) * n >= n
    BY <1>3
  <2>2. (c - a) * n = b - d
    OBVIOUS
  <2> QED BY <2>1, <2>2
<1>4. CASE a = c
  BY <1>4
<1> QED BY <1>2, <1>3, <1>4

\* The index of the slots of a timing, n to a timing.
Flat(n, x) == x[1] * FmtMax * n + x[2] * n + x[3]
Slots(n) == Srcs \X Fmts \X (0..(n - 1))

LEMMA FlatUnique ==
  ASSUME NEW n \in Nat \ {0}, NEW x \in Slots(n), NEW y \in Slots(n), Flat(n, x) = Flat(n, y)
  PROVE  x = y
PROOF
<1>0. /\ x[1] \in Int /\ x[2] \in 0..(FmtMax - 1) /\ x[3] \in 0..(n - 1)
      /\ y[1] \in Int /\ y[2] \in 0..(FmtMax - 1) /\ y[3] \in 0..(n - 1)
      /\ FmtMax \in Nat \ {0}
  BY AddressAssumption DEF Slots, Srcs, Fmts, Per
<1> DEFINE p(z) == z[1] * FmtMax + z[2]
<1>1. p(x) \in Int /\ p(y) \in Int
  BY <1>0
<1>2. p(x) * n + x[3] = p(y) * n + y[3]
  BY <1>0 DEF Flat
<1> HIDE DEF p
<1>3. p(x) = p(y) /\ x[3] = y[3]
  <2> DEFINE a == p(x)
             b == x[3]
             c == p(y)
             d == y[3]
  <2>1. a \in Int /\ c \in Int /\ b \in 0..(n - 1) /\ d \in 0..(n - 1) /\ a * n + b = c * n + d
    BY <1>0, <1>1, <1>2
  <2> HIDE DEF a, b, c, d
  <2>2. a = c /\ b = d
    BY <2>1, Digit
  <2> QED BY <2>2 DEF a, b, c, d
<1>4. x[1] * FmtMax + x[2] = y[1] * FmtMax + y[2]
  BY <1>3 DEF p
<1>5. x[1] = y[1] /\ x[2] = y[2]
  <2> DEFINE a == x[1]
             b == x[2]
             c == y[1]
             d == y[2]
             m == FmtMax
  <2>1. /\ a \in Int /\ c \in Int /\ b \in 0..(m - 1) /\ d \in 0..(m - 1)
        /\ a * m + b = c * m + d /\ m \in Nat \ {0}
    BY <1>0, <1>4
  <2> HIDE DEF a, b, c, d, m
  <2>2. a = c /\ b = d
    BY <2>1, Digit
  <2> QED BY <2>2 DEF a, b, c, d
<1> QED BY <1>3, <1>5 DEF Slots

LEMMA PairUnique ==
  ASSUME NEW x \in Pairs, NEW y \in Pairs, PairIndex(x) = PairIndex(y)
  PROVE  x = y
PROOF
<1>1. x[1] = y[1] /\ x[2] = y[2]
  BY Digit, AddressAssumption DEF Pairs, PairIndex, Srcs, Fmts, Per
<1> QED BY <1>1 DEF Pairs

LEMMA TempUnique ==
  ASSUME NEW x \in Temps, NEW y \in Temps, TempIndex(x) = TempIndex(y)
  PROVE  x = y
PROOF
<1>1. x \in Slots(TempMax) /\ y \in Slots(TempMax) /\ TempMax \in Nat \ {0}
  BY AddressAssumption DEF Temps, Slots, Per
<1>2. Flat(TempMax, x) = Flat(TempMax, y)
  BY DEF TempIndex, Flat
<1> QED BY <1>1, <1>2, FlatUnique

\* A white balance slot is a colour temperature's with one more digit.
LEMMA GammaUnique ==
  ASSUME NEW x \in Gammas, NEW y \in Gammas, GammaIndex(x) = GammaIndex(y)
  PROVE  x = y
PROOF
<1> DEFINE t(z) == <<z[1], z[2], z[3]>>
<1>0. /\ t(x) \in Slots(TempMax) /\ t(y) \in Slots(TempMax)
      /\ x[4] \in 0..(GammaModes - 1) /\ y[4] \in 0..(GammaModes - 1)
      /\ TempMax \in Nat \ {0} /\ GammaModes \in Nat \ {0}
  BY AddressAssumption DEF Gammas, Slots, Per
<1>1. Flat(TempMax, t(x)) \in Int /\ Flat(TempMax, t(y)) \in Int
  BY <1>0, AddressAssumption DEF Flat, Slots, Srcs, Fmts, Per
<1>2. \A z \in Gammas : GammaIndex(z) = Flat(TempMax, t(z)) * GammaModes + z[4]
  <2> SUFFICES ASSUME NEW z \in Gammas
               PROVE  GammaIndex(z) = Flat(TempMax, t(z)) * GammaModes + z[4]
    OBVIOUS
  <2>1. z[1] \in Int /\ z[2] \in Int /\ z[3] \in Int /\ z[4] \in Int
        /\ FmtMax \in Int /\ TempMax \in Int /\ GammaModes \in Int
    BY AddressAssumption DEF Gammas, Srcs, Fmts, Per
  <2> QED BY <2>1 DEF GammaIndex, Flat
<1> HIDE DEF t
<1>3. Flat(TempMax, t(x)) = Flat(TempMax, t(y)) /\ x[4] = y[4]
  <2> DEFINE p == Flat(TempMax, t(x))
             q == Flat(TempMax, t(y))
  <2>1. p * GammaModes + x[4] = q * GammaModes + y[4] /\ p \in Int /\ q \in Int
    BY <1>1, <1>2
  <2> HIDE DEF p, q
  <2>2. p = q /\ x[4] = y[4]
    BY <2>1, <1>0, Digit
  <2> QED BY <2>2 DEF p, q
<1>4. t(x) = t(y)
  BY <1>0, <1>3, FlatUnique
<1> QED BY <1>3, <1>4 DEF Gammas, t

\* Among the modes a timing has slots for, and among those beyond, of which
\* there are no more.
LEMMA ModeUnique ==
  ASSUME NEW x \in Modes, NEW y \in Modes, ModeIndex(x) = ModeIndex(y),
         (x[3] >= ModeSlots) <=> (y[3] >= ModeSlots)
  PROVE  x = y
PROOF
<1>0. /\ x[3] \in 0..(ModeMax - 1) /\ y[3] \in 0..(ModeMax - 1)
      /\ ModeSlots \in Nat \ {0} /\ ModeMax <= 2 * ModeSlots /\ ModeMax \in Nat
  BY AddressAssumption, LayoutAssumption DEF Modes, Per
<1>1. CASE x[3] < ModeSlots
  <2>1. x \in Slots(ModeSlots) /\ y \in Slots(ModeSlots)
    BY <1>0, <1>1 DEF Modes, Slots
  <2>2. Flat(ModeSlots, x) = Flat(ModeSlots, y)
    BY DEF ModeIndex, Flat
  <2> QED BY <1>0, <2>1, <2>2, FlatUnique
<1>2. CASE ~(x[3] < ModeSlots)
  <2> DEFINE b(z) == <<z[1], z[2], z[3] - ModeSlots>>
  <2>1. b(x) \in Slots(ModeSlots) /\ b(y) \in Slots(ModeSlots)
    BY <1>0, <1>2 DEF Modes, Slots
  <2>2. \A z \in Modes : Flat(ModeSlots, b(z)) = ModeIndex(z) - ModeSlots
    BY AddressAssumption DEF ModeIndex, Flat, Modes, Srcs, Fmts, Per
  <2>3. Flat(ModeSlots, b(x)) = Flat(ModeSlots, b(y))
    BY <2>2
  <2> HIDE DEF b
  <2>4. b(x) = b(y)
    BY <1>0, <2>1, <2>3, FlatUnique
  <2>5. x[1] = y[1] /\ x[2] = y[2] /\ x[3] - ModeSlots = y[3] - ModeSlots
    BY <2>4 DEF b
  <2> QED BY <1>0, <2>5 DEF Modes
<1> QED BY <1>1, <1>2

-----------------------------------------------------------------------------
(* The accesses.                                                           *)

\* No accessor by name reaches the slots.
LEMMA NamesApart ==
  \A a \in Accessors : a[1] \notin {"pq_mode", "temp_param", "gamma_param", "mode_param"}
PROOF
<1>1. \A a \in ColourAccess \cup OffsetAccess :
          a[1] \notin {"pq_mode", "temp_param", "gamma_param", "mode_param"}
  BY DEF ColourAccess, OffsetAccess
<1>2. \A a \in PictureAccess \cup CustomerAccess :
          a[1] \notin {"pq_mode", "temp_param", "gamma_param", "mode_param"}
  BY DEF PictureAccess, CustomerAccess
<1>3. \A a \in PanelAccess :
          a[1] \notin {"pq_mode", "temp_param", "gamma_param", "mode_param"}
  BY DEF PanelAccess
<1>4. \A a \in MotionAccess \cup LateAccess \cup MarkAccess :
          a[1] \notin {"pq_mode", "temp_param", "gamma_param", "mode_param"}
  BY DEF MotionAccess, LateAccess, MarkAccess
<1> QED BY <1>1, <1>2, <1>3, <1>4 DEF Accessors

LEMMA Computing == Spec => []Computed
PROOF
<1>1. Init => Computed
  BY DEF Init, Computed
<1>2. Computed /\ [Next]_vars => Computed'
  <2> SUFFICES ASSUME Computed, [Next]_vars
               PROVE  Computed'
    OBVIOUS
  <2>1. CASE SettingAccess
    <3>1. PICK a \in Accessors : item' = a[1]
      BY <2>1 DEF SettingAccess, Access
    <3> QED BY <3>1, NamesApart DEF Computed
  <2>2. CASE OldModeAccess
    BY <2>2 DEF OldModeAccess, Access, Computed
  <2>3. CASE ModeAccess
    BY <2>3 DEF ModeAccess, Access, Computed
  <2>4. CASE ModeDataAccess
    BY <2>4 DEF ModeDataAccess, Access, Computed
  <2>5. CASE TempDataAccess
    BY <2>5 DEF TempDataAccess, Access, Computed
  <2>6. CASE GammaDataAccess
    BY <2>6 DEF GammaDataAccess, Access, Computed
  <2>7. CASE UNCHANGED vars
    BY <2>7 DEF vars, Computed
  <2> QED BY <2>1, <2>2, <2>3, <2>4, <2>5, <2>6, <2>7 DEF Next
<1> QED BY <1>1, <1>2, PTL DEF Spec

\* Two slots are two places, whatever the numbers of sources, timings, modes
\* and temperatures; modes beyond MAX_PICTUREMODE_INDEX share one with a mode
\* within, never with each other.
THEOREM SlotsApart == Spec => []SlotUnshared
PROOF
<1>1. Computed => SlotUnshared
  <2> SUFFICES ASSUME Computed
               PROVE  SlotUnshared
    OBVIOUS
  <2>0. /\ \A x \in Pairs : PairIndex(x) \in Int
        /\ \A x \in Temps : TempIndex(x) \in Int
        /\ \A x \in Gammas : GammaIndex(x) \in Int
        /\ \A x \in Modes : ModeIndex(x) \in Int
    BY AddressAssumption DEF Pairs, Temps, Gammas, Modes, PairIndex, TempIndex, GammaIndex,
                             ModeIndex, Srcs, Fmts, Per
  <2>1. ASSUME item = "pq_mode", NEW x \in Pairs, PairIndex(x) * ModeInfoSize = index
        PROVE  x = args
    <3>1. args \in Pairs /\ PairIndex(x) = PairIndex(args)
      BY <2>0, <2>1 DEF Computed, ModeInfoSize
    <3> QED BY <3>1, PairUnique
  <2>2. ASSUME item = "temp_param", NEW x \in Temps, TempIndex(x) * TempParamSize = index
        PROVE  x = args
    <3>1. args \in Temps /\ TempIndex(x) = TempIndex(args)
      BY <2>0, <2>2 DEF Computed, TempParamSize
    <3> QED BY <3>1, TempUnique
  <2>3. ASSUME item = "gamma_param", NEW x \in Gammas, GammaIndex(x) * GammaParamSize = index
        PROVE  x = args
    <3>1. args \in Gammas /\ GammaIndex(x) = GammaIndex(args)
      BY <2>0, <2>3 DEF Computed, GammaParamSize
    <3> QED BY <3>1, GammaUnique
  <2>4. ASSUME item = "mode_param", NEW x \in Modes, ModeIndex(x) * ModeParamSize = index,
               (x[3] >= ModeSlots) = (args[3] >= ModeSlots)
        PROVE  x = args
    <3>1. args \in Modes /\ ModeIndex(x) = ModeIndex(args)
      BY <2>0, <2>4 DEF Computed, ModeParamSize
    <3> QED BY <2>4, <3>1, ModeUnique
  <2> QED BY <2>1, <2>2, <2>3, <2>4 DEF SlotUnshared
<1> QED BY <1>1, Computing, PTL

-----------------------------------------------------------------------------
(* The header table.                                                       *)

\* A table of n rows is a sequence.
LEMMA TableIsSeq ==
  ASSUME NEW S, NEW n \in Nat, NEW f \in [1..n -> S]
  PROVE  f \in Seq(S) /\ Len(f) = n
PROOF OBVIOUS

\* Where the elements of a concatenation come from.
LEMMA ConcatAt ==
  ASSUME NEW S, NEW f \in Seq(S), NEW g \in Seq(S)
  PROVE  /\ f \o g \in Seq(S) /\ Len(f \o g) = Len(f) + Len(g)
         /\ \A k \in 1..Len(f) : (f \o g)[k] = f[k]
         /\ \A k \in 1..Len(g) : (f \o g)[Len(f) + k] = g[k]
PROOF OBVIOUS

\* The header table is its three parts, 9, 31 and 31 items.
LEMMA Lengths ==
  /\ Len(FirstItems) = 9 /\ Len(SourceItems) = 31 /\ Len(LastItems) = 31
  /\ Len(Items) = 71
  /\ \A k \in 1..9 : Items[k] = FirstItems[k]
  /\ \A k \in 1..31 : Items[9 + k] = SourceItems[k] /\ Items[40 + k] = LastItems[k]
PROOF
<1> DEFINE S == {FirstItems[k] : k \in 1..9} \cup {SourceItems[k] : k \in 1..31}
                    \cup {LastItems[k] : k \in 1..31}
<1>1. FirstItems = [k \in 1..9 |-> FirstItems[k]]
  BY DEF FirstItems
<1>2. SourceItems = [k \in 1..31 |-> SourceItems[k]]
  BY DEF SourceItems
<1>3. LastItems = [k \in 1..31 |-> LastItems[k]]
  BY DEF LastItems
<1>4. FirstItems \in Seq(S) /\ SourceItems \in Seq(S) /\ LastItems \in Seq(S)
  <2>1. FirstItems \in [1..9 -> S] /\ SourceItems \in [1..31 -> S] /\ LastItems \in [1..31 -> S]
    BY <1>1, <1>2, <1>3
  <2> HIDE DEF S
  <2> QED BY <2>1, TableIsSeq
<1>5. Len(FirstItems) = 9 /\ Len(SourceItems) = 31 /\ Len(LastItems) = 31
  BY DEF FirstItems, SourceItems, LastItems
<1> HIDE DEF S
<1> DEFINE F == FirstItems \o SourceItems
<1>6. /\ F \in Seq(S) /\ Len(F) = 9 + 31
      /\ \A k \in 1..9 : F[k] = FirstItems[k]
      /\ \A k \in 1..31 : F[9 + k] = SourceItems[k]
  <2>1. /\ F \in Seq(S) /\ Len(F) = Len(FirstItems) + Len(SourceItems)
        /\ \A k \in 1..Len(FirstItems) : F[k] = FirstItems[k]
        /\ \A k \in 1..Len(SourceItems) : F[Len(FirstItems) + k] = SourceItems[k]
    BY <1>4, ConcatAt
  <2> QED BY <1>5, <2>1
<1>7. Items = F \o LastItems
  BY DEF Items
<1> HIDE DEF F
<1>8. /\ Len(Items) = 40 + 31
      /\ \A k \in 1..40 : Items[k] = F[k]
      /\ \A k \in 1..31 : Items[40 + k] = LastItems[k]
  <2>1. F \in Seq(S) /\ Len(F) = 40
    BY <1>6
  <2>2. /\ Len(F \o LastItems) = Len(F) + Len(LastItems)
        /\ \A k \in 1..Len(F) : (F \o LastItems)[k] = F[k]
        /\ \A k \in 1..Len(LastItems) : (F \o LastItems)[Len(F) + k] = LastItems[k]
    <3>1. \A f, g \in Seq(S) :
             /\ Len(f \o g) = Len(f) + Len(g)
             /\ \A k \in 1..Len(f) : (f \o g)[k] = f[k]
             /\ \A k \in 1..Len(g) : (f \o g)[Len(f) + k] = g[k]
      BY ConcatAt
    <3>2. LastItems \in Seq(S)
      BY <1>4
    <3> QED BY <3>1, <3>2, <2>1, ZenonT(40)
  <2> QED BY <1>5, <1>7, <2>1, <2>2
<1>9. \A k \in 1..31 : Items[9 + k] = SourceItems[k]
  <2> SUFFICES ASSUME NEW k \in 1..31
               PROVE  Items[9 + k] = SourceItems[k]
    OBVIOUS
  <2>1. 9 + k \in 1..40
    OBVIOUS
  <2> QED BY <1>6, <1>8, <2>1
<1>10. \A k \in 1..9 : Items[k] = FirstItems[k]
  <2>1. \A k \in 1..9 : k \in 1..40
    OBVIOUS
  <2> QED BY <1>6, <1>8, <2>1
<1> QED BY <1>5, <1>8, <1>9, <1>10

\* No name occurs twice in a part, nor in two of them.
LEMMA FirstNames ==
  \A j \in 1..9 : \A k \in 1..9 : FirstItems[j][1] = FirstItems[k][1] => j = k
PROOF BY SMTT(60) DEF FirstItems

LEMMA SourceNames ==
  \A j \in 1..31 : \A k \in 1..31 : SourceItems[j][1] = SourceItems[k][1] => j = k
PROOF BY SMTT(60) DEF SourceItems

LEMMA LastNames ==
  \A j \in 1..31 : \A k \in 1..31 : LastItems[j][1] = LastItems[k][1] => j = k
PROOF BY SMTT(60) DEF LastItems

LEMMA TablesApart ==
  /\ \A j \in 1..9 : \A k \in 1..31 : FirstItems[j][1] # SourceItems[k][1]
  /\ \A j \in 1..9 : \A k \in 1..31 : FirstItems[j][1] # LastItems[k][1]
  /\ \A j \in 1..31 : \A k \in 1..31 : SourceItems[j][1] # LastItems[k][1]
PROOF
<1>1. \A j \in 1..9 : \A k \in 1..31 : FirstItems[j][1] # SourceItems[k][1]
  BY SMTT(60) DEF FirstItems, SourceItems
<1>2. \A j \in 1..9 : \A k \in 1..31 : FirstItems[j][1] # LastItems[k][1]
  BY SMTT(60) DEF FirstItems, LastItems
<1>3. \A j \in 1..31 : \A k \in 1..31 : SourceItems[j][1] # LastItems[k][1]
  BY SMTT(60) DEF SourceItems, LastItems
<1> QED BY <1>1, <1>2, <1>3

\* An id has one name and a name one id.
LEMMA NamesDistinct ==
  ASSUME NEW j \in 1..71, NEW k \in 1..71, Name(j) = Name(k)
  PROVE  j = k
PROOF
<1>1. ASSUME NEW i \in 1..71
      PROVE  \/ i \in 1..9 /\ Name(i) = FirstItems[i][1]
             \/ \E l \in 1..31 : i = 9 + l /\ Name(i) = SourceItems[l][1]
             \/ \E l \in 1..31 : i = 40 + l /\ Name(i) = LastItems[l][1]
  <2>1. CASE i <= 9
    BY <2>1, Lengths DEF Name
  <2>2. CASE i > 9 /\ i <= 40
    <3>1. PICK l \in 1..31 : l = i - 9
      BY <2>2
    <3>2. Items[9 + l] = SourceItems[l] /\ i = 9 + l
      BY <3>1, Lengths
    <3> QED BY <3>2 DEF Name
  <2>3. CASE i > 40
    <3>1. PICK l \in 1..31 : l = i - 40
      BY <2>3
    <3>2. Items[40 + l] = LastItems[l] /\ i = 40 + l
      BY <3>1, Lengths
    <3> QED BY <3>2 DEF Name
  <2> QED BY <2>1, <2>2, <2>3
<1>2. CASE j \in 1..9 /\ Name(j) = FirstItems[j][1]
  <2>1. CASE k \in 1..9 /\ Name(k) = FirstItems[k][1]
    BY <1>2, <2>1, FirstNames
  <2>2. ASSUME NEW l \in 1..31, k = 9 + l, Name(k) = SourceItems[l][1]
        PROVE  j = k
    BY <1>2, <2>2, TablesApart, ZenonT(40)
  <2>3. ASSUME NEW l \in 1..31, k = 40 + l, Name(k) = LastItems[l][1]
        PROVE  j = k
    BY <1>2, <2>3, TablesApart, ZenonT(40)
  <2> QED BY <1>1, <2>1, <2>2, <2>3
<1>3. ASSUME NEW i \in 1..31, j = 9 + i, Name(j) = SourceItems[i][1]
      PROVE  j = k
  <2>1. CASE k \in 1..9 /\ Name(k) = FirstItems[k][1]
    BY <1>3, <2>1, TablesApart, ZenonT(40)
  <2>2. ASSUME NEW l \in 1..31, k = 9 + l, Name(k) = SourceItems[l][1]
        PROVE  j = k
    BY <1>3, <2>2, SourceNames
  <2>3. ASSUME NEW l \in 1..31, k = 40 + l, Name(k) = LastItems[l][1]
        PROVE  j = k
    BY <1>3, <2>3, TablesApart, ZenonT(40)
  <2> QED BY <1>1, <2>1, <2>2, <2>3, SMTT(30)
<1>4. ASSUME NEW i \in 1..31, j = 40 + i, Name(j) = LastItems[i][1]
      PROVE  j = k
  <2>1. CASE k \in 1..9 /\ Name(k) = FirstItems[k][1]
    BY <1>4, <2>1, TablesApart, ZenonT(40)
  <2>2. ASSUME NEW l \in 1..31, k = 9 + l, Name(k) = SourceItems[l][1]
        PROVE  j = k
    BY <1>4, <2>2, TablesApart, ZenonT(40)
  <2>3. ASSUME NEW l \in 1..31, k = 40 + l, Name(k) = LastItems[l][1]
        PROVE  j = k
    BY <1>4, <2>3, LastNames
  <2> QED BY <1>1, <2>1, <2>2, <2>3, SMTT(30)
<1> QED BY <1>1, <1>2, <1>3, <1>4

\* The id looked up by a name is the item's.
LEMMA IdFound ==
  ASSUME NEW k \in 1..71
  PROVE  IdOf(Name(k)) = k
PROOF BY NamesDistinct, Lengths DEF IdOf

\* The item n has z bytes.
Holds(n, z) == \E k \in 1..71 : Name(k) = n /\ IdOf(n) = k /\ Size(k) = z

\* Every item has the size the table gives it.
LEMMA TablesHold ==
  /\ \A k \in 1..9 : Holds(FirstItems[k][1], FirstItems[k][2])
  /\ \A k \in 1..31 : /\ Holds(SourceItems[k][1], SourceItems[k][2])
                      /\ Holds(LastItems[k][1], LastItems[k][2])
PROOF
<1>1. ASSUME NEW k \in 1..9
      PROVE  Holds(FirstItems[k][1], FirstItems[k][2])
  <2>1. k \in 1..71
    OBVIOUS
  <2> QED BY <2>1, IdFound, Lengths DEF Holds, Name, Size
<1>2. ASSUME NEW k \in 1..31
      PROVE  Holds(SourceItems[k][1], SourceItems[k][2])
  <2>1. 9 + k \in 1..71 /\ Items[9 + k] = SourceItems[k]
    BY Lengths
  <2>2. IdOf(Name(9 + k)) = 9 + k
    BY <2>1, IdFound
  <2> QED BY <2>1, <2>2 DEF Holds, Name, Size
<1>3. ASSUME NEW k \in 1..31
      PROVE  Holds(LastItems[k][1], LastItems[k][2])
  <2>1. 40 + k \in 1..71 /\ Items[40 + k] = LastItems[k]
    BY Lengths
  <2>2. IdOf(Name(40 + k)) = 40 + k
    BY <2>1, IdFound
  <2> QED BY <2>1, <2>2 DEF Holds, Name, Size
<1> QED BY <1>1, <1>2, <1>3

-----------------------------------------------------------------------------
(* The addresses the constructor sums.                                     *)

\* A size is a number of bytes.
LEMMA SizesNat == \A k \in 1..71 : Size(k) \in Nat
PROOF
<1>1. /\ SrcMax * FmtMax \in Nat /\ SrcMax * FmtMax * ModeSlots \in Nat
      /\ SrcMax * FmtMax * TempMax \in Nat /\ SrcMax * FmtMax * TempMax * GammaModes \in Nat
      /\ SourceMax \in Nat /\ SourceMax * 4 \in Nat
  BY AddressAssumption, LayoutAssumption
<1>2. \A k \in 1..9 : FirstItems[k][2] \in Nat
  BY SMTT(60) DEF FirstItems, SscSize
<1>3. \A k \in 1..31 : SourceItems[k][2] \in Nat
  BY <1>1, SMTT(60) DEF SourceItems
<1>4. \A k \in 1..31 : LastItems[k][2] \in Nat
  <2> DEFINE a == SrcMax * FmtMax * ModeSlots * ModeParamSize
             b == SrcMax * FmtMax * TempMax * TempParamSize
             c == SrcMax * FmtMax * ModeInfoSize
             d == SrcMax * FmtMax * TempMax * GammaModes * GammaParamSize
             e == SourceMax * 4
  <2>1. a \in Nat /\ b \in Nat /\ c \in Nat /\ d \in Nat /\ e \in Nat
    BY <1>1 DEF ModeParamSize, TempParamSize, ModeInfoSize, GammaParamSize
  <2> HIDE DEF a, b, c, d, e
  <2> QED BY <1>1, <2>1, SMTT(60) DEF LastItems, a, b, c, d, e
<1>5. ASSUME NEW k \in 1..71
      PROVE  Size(k) \in Nat
  <2>1. CASE k <= 9
    BY <1>2, <2>1, Lengths DEF Size
  <2>2. CASE k > 9 /\ k <= 40
    <3>1. PICK l \in 1..31 : l = k - 9
      BY <2>2
    <3>2. Items[9 + l] = SourceItems[l] /\ k = 9 + l
      BY <3>1, Lengths
    <3> QED BY <1>3, <3>2 DEF Size
  <2>3. CASE k > 40
    <3>1. PICK l \in 1..31 : l = k - 40
      BY <2>3
    <3>2. Items[40 + l] = LastItems[l] /\ k = 40 + l
      BY <3>1, Lengths
    <3> QED BY <1>4, <3>2 DEF Size
  <2> QED BY <2>1, <2>2, <2>3
<1> QED BY <1>5

\* The sums of the first n sizes.
Sums(n) == {f \in [1..n -> Nat] :
               \A k \in 1..n : f[k] = IF k = 1 THEN 0 ELSE f[k - 1] + Size(k - 1)}

\* There are sums of the first n sizes: a least n without would be the successor
\* of one with, to whose sums one more is added.
LEMMA SumsExist == \A n \in Nat : n <= 71 => Sums(n) # {}
PROOF
<1> DEFINE Bad == {n \in Nat : n <= 71 /\ Sums(n) = {}}
<1> SUFFICES ASSUME Bad # {}
             PROVE  FALSE
  OBVIOUS
<1>1. PICK n \in Bad : \A m \in Bad : ~(<<m, n>> \in OpToRel(<, Nat))
  <2>1. Bad \subseteq Nat
    OBVIOUS
  <2> HIDE DEF Bad
  <2> QED BY <2>1, NatLessThanWellFounded, WFMin
<1>2. \A m \in Bad : ~(m < n)
  BY <1>1 DEF OpToRel
<1>3. n # 0
  <2> SUFFICES ASSUME n = 0
               PROVE  FALSE
    OBVIOUS
  <2>1. [k \in 1..0 |-> 0] \in Sums(0)
    BY DEF Sums
  <2> QED BY <2>1
<1>4. PICK m \in Nat : n = m + 1
  BY <1>3
<1>5. PICK f : f \in Sums(m)
  BY <1>2, <1>4
<1> DEFINE g == [k \in 1..n |-> IF k = n THEN IF k = 1 THEN 0 ELSE f[k - 1] + Size(k - 1)
                                ELSE f[k]]
<1>6. g \in Sums(n)
  <2>1. f \in [1..m -> Nat] /\ \A k \in 1..m : f[k] = IF k = 1 THEN 0 ELSE f[k - 1] + Size(k - 1)
    BY <1>5 DEF Sums
  <2>2. \A k \in 1..n : k # n => k \in 1..m /\ g[k] = f[k]
    BY <1>4
  <2>3. n <= 71 /\ n \in 1..n
    BY <1>3
  <2>4. g[n] = IF n = 1 THEN 0 ELSE g[n - 1] + Size(n - 1)
    BY <1>4, <2>2, <2>3
  <2>5. n # 1 => n - 1 \in 1..m /\ n - 1 \in 1..71 /\ f[n - 1] \in Nat /\ Size(n - 1) \in Nat
    <3> SUFFICES ASSUME n # 1
                 PROVE  n - 1 \in 1..m /\ n - 1 \in 1..71 /\ f[n - 1] \in Nat /\ Size(n - 1) \in Nat
      OBVIOUS
    <3>1. n - 1 \in 1..m /\ n - 1 \in 1..71
      BY <1>3, <1>4, <2>3
    <3> QED BY <2>1, <3>1, SizesNat
  <2>6. g \in [1..n -> Nat]
    BY <2>1, <2>2, <2>5
  <2>7. ASSUME NEW k \in 1..n, k # n
        PROVE  g[k] = IF k = 1 THEN 0 ELSE g[k - 1] + Size(k - 1)
    <3>1. k \in 1..m /\ g[k] = f[k]
      BY <2>2, <2>7
    <3>2. k # 1 => k - 1 \in 1..n /\ k - 1 # n
      BY <2>7
    <3> HIDE DEF g
    <3> QED BY <2>1, <2>2, <3>1, <3>2
  <2> QED BY <2>4, <2>6, <2>7 DEF Sums
<1> QED BY <1>6

\* The addresses are numbers, each item behind the one before.
LEMMA Addresses ==
  /\ Addr \in [1..71 -> Nat]
  /\ \A k \in 1..71 : Addr[k] = IF k = 1 THEN 0 ELSE Addr[k - 1] + Size(k - 1)
PROOF
<1> DEFINE D(f) == [k \in 1..71 |-> IF k = 1 THEN 0 ELSE f[k - 1] + Size(k - 1)]
<1>1. Addr = CHOOSE f : f = D(f)
  BY Lengths DEF Addr
<1>2. PICK f : f \in Sums(71)
  BY SumsExist
<1>3. f = D(f)
  BY <1>2 DEF Sums
<1>4. Addr = D(Addr)
  <2> HIDE DEF D
  <2> QED BY <1>1, <1>3
<1>5. \A k \in 1..71 : Addr[k] = IF k = 1 THEN 0 ELSE Addr[k - 1] + Size(k - 1)
  BY <1>4
<1>6. \A k \in 1..71 : Addr[k] \in Nat
  <2> DEFINE Bad == {k \in 1..71 : Addr[k] \notin Nat}
  <2>0. SUFFICES ASSUME Bad # {}
                 PROVE  FALSE
    OBVIOUS
  <2>1. PICK k \in Bad : \A m \in Bad : ~(<<m, k>> \in OpToRel(<, Nat))
    <3>1. Bad \subseteq Nat
      OBVIOUS
    <3> HIDE DEF Bad
    <3>2. \E k \in Bad : \A m \in Bad : ~(<<m, k>> \in OpToRel(<, Nat))
      BY <2>0, <3>1, NatLessThanWellFounded, WFMin
    <3> QED BY <3>2
  <2>2. ASSUME NEW m \in Bad, m < k
        PROVE  FALSE
    <3>1. m \in Nat /\ k \in Nat
      OBVIOUS
    <3>2. <<m, k>> \in OpToRel(<, Nat)
      BY <2>2, <3>1 DEF OpToRel
    <3> QED BY <2>1, <3>2
  <2>3. k # 1
    BY <1>5
  <2>4. k - 1 \in 1..71 /\ Addr[k - 1] \in Nat
    <3>1. k - 1 \in 1..71 /\ k - 1 < k
      BY <2>3
    <3> QED BY <2>2, <3>1
  <2> QED BY <1>5, <2>3, <2>4, SizesNat
<1>7. Addr \in [1..71 -> Nat]
  BY <1>4, <1>6
<1> QED BY <1>5, <1>7

-----------------------------------------------------------------------------
(* Whose bytes an access moves.                                            *)

\* What an access moves lies in the item it names.
Fits(n, off, w) == \E z \in Nat : Holds(n, z) /\ off \in Nat /\ w \in Nat /\ off + w <= z

\* The accessors of the single settings, with every index their callers pass.
LEMMA AccessorsFit == \A a \in Accessors : \A off \in a[3] : Fits(a[1], off, a[2])
PROOF
<1>0. SourceMax \in Nat \ {0} /\ SourceMax * 4 \in Nat
  BY LayoutAssumption
<1>1. \A a \in ColourAccess : \A off \in a[3] : Fits(a[1], off, a[2])
  <2>1. /\ Holds("color_temp", SourceMax) /\ Holds("color_gamut", SourceMax)
        /\ Holds("color_demo", 1) /\ Holds("color_base", 1)
        /\ Holds("gain_r", 4) /\ Holds("gain_g", 4) /\ Holds("gain_b", 4)
    BY TablesHold, SMTT(60) DEF FirstItems, SourceItems
  <2> QED BY <1>0, <2>1, SMTT(30) DEF ColourAccess, Per, Fits
<1>2. \A a \in OffsetAccess : \A off \in a[3] : Fits(a[1], off, a[2])
  BY <1>0, TablesHold, SMTT(60) DEF OffsetAccess, Per, Fits, SourceItems
<1>3. \A a \in PictureAccess : \A off \in a[3] : Fits(a[1], off, a[2])
  <2>1. /\ Holds("brightness", SourceMax) /\ Holds("contrast", SourceMax)
        /\ Holds("saturation", SourceMax) /\ Holds("hue", SourceMax)
        /\ Holds("sharpness", SourceMax) /\ Holds("nr", SourceMax)
        /\ Holds("smooth_plus", SourceMax) /\ Holds("gamma_value", SourceMax)
    BY TablesHold, SMTT(60) DEF SourceItems
  <2> QED BY <1>0, <2>1, SMTT(30) DEF PictureAccess, Per, Fits
<1>4. \A a \in CustomerAccess : \A off \in a[3] : Fits(a[1], off, a[2])
  BY <1>0, TablesHold, SMTT(60) DEF CustomerAccess, Per, Fits, FirstItems, SourceItems, LastItems
<1>5. \A a \in PanelAccess : \A off \in a[3] : Fits(a[1], off, a[2])
  BY <1>0, TablesHold, SMTT(60) DEF PanelAccess, Per, Fits, SscSize, FirstItems, SourceItems, LastItems
<1>6. \A a \in MotionAccess : \A off \in a[3] : Fits(a[1], off, a[2])
  BY <1>0, TablesHold, SMTT(60) DEF MotionAccess, Per, Fits, SourceItems, LastItems
<1>7. \A a \in LateAccess : \A off \in a[3] : Fits(a[1], off, a[2])
  BY <1>0, TablesHold, SMTT(60) DEF LateAccess, Per, Fits, LastItems
<1>8. \A a \in MarkAccess : \A off \in a[3] : Fits(a[1], off, a[2])
  BY <1>0, TablesHold, SMTT(60) DEF MarkAccess, Per, Fits, FirstItems, LastItems
<1> QED BY <1>1, <1>2, <1>3, <1>4, <1>5, <1>6, <1>7, <1>8 DEF Accessors

\* The sizes of the items that hold a slot per source and timing.
LEMMA SlotSizes ==
  /\ Holds("picture_mode", SrcMax * FmtMax) /\ Holds("last_picture_mode", SrcMax * FmtMax)
  /\ Holds("pq_mode", SrcMax * FmtMax * ModeInfoSize)
  /\ Holds("last_pq_mode", SrcMax * FmtMax * ModeInfoSize)
  /\ Holds("temp_param", SrcMax * FmtMax * TempMax * TempParamSize)
  /\ Holds("gamma_param", SrcMax * FmtMax * TempMax * GammaModes * GammaParamSize)
  /\ Holds("mode_param", SrcMax * FmtMax * ModeSlots * ModeParamSize)
PROOF
<1>1. Holds("picture_mode", SrcMax * FmtMax) /\ Holds("last_picture_mode", SrcMax * FmtMax)
  BY TablesHold, SMTT(60) DEF SourceItems
<1>2. /\ Holds("pq_mode", SrcMax * FmtMax * ModeInfoSize)
      /\ Holds("last_pq_mode", SrcMax * FmtMax * ModeInfoSize)
  BY TablesHold, SMTT(60) DEF LastItems
<1>3. /\ Holds("temp_param", SrcMax * FmtMax * TempMax * TempParamSize)
      /\ Holds("gamma_param", SrcMax * FmtMax * TempMax * GammaModes * GammaParamSize)
      /\ Holds("mode_param", SrcMax * FmtMax * ModeSlots * ModeParamSize)
  BY TablesHold, SMTT(60) DEF LastItems
<1> QED BY <1>1, <1>2, <1>3

\* A slot number times the size of a slot.
LEMMA SlotEnd ==
  ASSUME NEW z \in Nat \ {0}, NEW i \in Int, NEW n \in Int
  PROVE  i * z \in Int /\ (i * z + z <= n * z <=> i < n) /\ (0 <= i => 0 <= i * z)
PROOF
<1>1. i * z \in Int /\ n * z \in Int /\ (0 <= i => 0 <= i * z)
  OBVIOUS
<1>2. i < n => i * z + z <= n * z
  <2> SUFFICES ASSUME i < n
               PROVE  i * z + z <= n * z
    OBVIOUS
  <2>1. (n - i - 1) * z >= 0
    OBVIOUS
  <2> QED BY <2>1
<1>3. i >= n => ~(i * z + z <= n * z)
  <2> SUFFICES ASSUME i >= n
               PROVE  ~(i * z + z <= n * z)
    OBVIOUS
  <2>1. (i - n) * z >= 0
    OBVIOUS
  <2> QED BY <2>1
<1> QED BY <1>1, <1>2, <1>3

\* The number of a source and timing, and the greatest one.
LEMMA PairBound ==
  ASSUME NEW x \in Pairs
  PROVE  /\ PairIndex(x) \in 0..(SrcMax * FmtMax - 1)
         /\ PairIndex(x) = SrcMax * FmtMax - 1 <=> x[1] = SrcMax - 1 /\ x[2] = FmtMax - 1
PROOF
<1> DEFINE a == x[1]
           b == x[2]
           s == SrcMax
           m == FmtMax
<1>1. a \in 0..(s - 1) /\ b \in 0..(m - 1) /\ s \in Nat \ {0} /\ m \in Nat \ {0}
  BY AddressAssumption DEF Pairs, Srcs, Fmts, Per
<1>2. /\ a * m + b \in 0..(s * m - 1)
      /\ a * m + b = s * m - 1 <=> a = s - 1 /\ b = m - 1
  <2> HIDE DEF a, b, s, m
  <2>1. a * m \in Nat /\ s * m \in Nat
    BY <1>1
  <2>2. CASE a = s - 1
    <3>1. a * m = s * m - m
      BY <1>1, <2>2
    <3> QED BY <1>1, <2>1, <2>2, <3>1
  <2>3. CASE a < s - 1
    <3>1. (s - 2 - a) * m >= 0
      BY <1>1, <2>3
    <3>2. a * m <= s * m - 2 * m
      BY <1>1, <3>1
    <3> QED BY <1>1, <2>1, <2>3, <3>2
  <2> QED BY <1>1, <2>2, <2>3
<1> QED BY <1>2 DEF PairIndex

\* The last digit of a number smaller than the base, or smaller than twice the
\* base, and the numbers it can carry over.
LEMMA DigitBound ==
  ASSUME NEW n \in Nat \ {0}, NEW c \in Nat, NEW p \in 0..(c - 1), NEW d \in Nat, d < 2 * n
  PROVE  /\ p * n + d \in Nat
         /\ p * n + d < c * n <=> ~(p = c - 1 /\ d >= n)
PROOF
<1>1. p * n \in Nat /\ c * n \in Nat
  OBVIOUS
<1>2. CASE p = c - 1
  <2>1. p * n = c * n - n
    BY <1>2
  <2> QED BY <1>1, <1>2, <2>1
<1>3. CASE p < c - 1
  <2>1. (c - 2 - p) * n >= 0
    BY <1>3
  <2>2. p * n <= c * n - 2 * n
    BY <2>1
  <2> QED BY <1>1, <1>3, <2>2
<1> QED BY <1>2, <1>3

\* The number of a colour temperature's slot.
LEMMA TempBound ==
  ASSUME NEW x \in Temps
  PROVE  TempIndex(x) \in 0..(SrcMax * FmtMax * TempMax - 1)
PROOF
<1> DEFINE y == <<x[1], x[2]>>
           p == PairIndex(y)
           c == SrcMax * FmtMax
           d == x[3]
<1>0. y \in Pairs
  BY DEF Temps, Pairs
<1>1. p \in 0..(c - 1) /\ c \in Nat /\ d \in Nat /\ d < TempMax /\ TempMax \in Nat \ {0}
  BY <1>0, PairBound, AddressAssumption DEF Temps, Per
<1>2. TempIndex(x) = p * TempMax + d
  <2>1. x[1] \in Int /\ x[2] \in Int /\ x[3] \in Int /\ FmtMax \in Int /\ TempMax \in Int
    BY AddressAssumption DEF Temps, Srcs, Fmts, Per
  <2> QED BY <2>1 DEF TempIndex, PairIndex
<1> HIDE DEF p, c, d
<1>3. p * TempMax + d \in Nat /\ p * TempMax + d < c * TempMax /\ c * TempMax \in Nat
  BY <1>1, DigitBound
<1>4. p * TempMax + d \in 0..(c * TempMax - 1)
  BY <1>3
<1> QED BY <1>2, <1>4 DEF c

\* The number of a white balance slot.
LEMMA GammaBound ==
  ASSUME NEW x \in Gammas
  PROVE  GammaIndex(x) \in 0..(SrcMax * FmtMax * TempMax * GammaModes - 1)
PROOF
<1> DEFINE y == <<x[1], x[2], x[3]>>
           p == TempIndex(y)
           c == SrcMax * FmtMax * TempMax
           d == x[4]
<1>0. y \in Temps
  BY DEF Gammas, Temps
<1>1. p \in 0..(c - 1) /\ c \in Nat /\ d \in Nat /\ d < GammaModes /\ GammaModes \in Nat \ {0}
  BY <1>0, TempBound, AddressAssumption DEF Gammas, Per
<1>2. GammaIndex(x) = p * GammaModes + d
  <2>1. /\ x[1] \in Int /\ x[2] \in Int /\ x[3] \in Int /\ x[4] \in Int
        /\ FmtMax \in Int /\ TempMax \in Int /\ GammaModes \in Int
    BY AddressAssumption DEF Gammas, Srcs, Fmts, Per
  <2> QED BY <2>1 DEF GammaIndex, TempIndex
<1> HIDE DEF p, c, d
<1>3. p * GammaModes + d \in Nat /\ p * GammaModes + d < c * GammaModes /\ c * GammaModes \in Nat
  BY <1>1, DigitBound
<1>4. p * GammaModes + d \in 0..(c * GammaModes - 1)
  BY <1>3
<1> QED BY <1>2, <1>4 DEF c

\* The last timing of the last source.
LastPair(x) == x[1] = SrcMax - 1 /\ x[2] = FmtMax - 1

\* The number of a mode's slot: only a mode without a slot of the last timing of
\* the last source is beyond the slots.
LEMMA ModeBound ==
  ASSUME NEW x \in Modes
  PROVE  /\ ModeIndex(x) \in Nat
         /\ ModeIndex(x) < SrcMax * FmtMax * ModeSlots <=> ~(LastPair(x) /\ x[3] >= ModeSlots)
PROOF
<1> DEFINE y == <<x[1], x[2]>>
           p == PairIndex(y)
           c == SrcMax * FmtMax
           d == x[3]
<1>0. y \in Pairs
  BY DEF Modes, Pairs
<1>1. /\ p \in 0..(c - 1) /\ c \in Nat /\ d \in Nat /\ d < 2 * ModeSlots
      /\ ModeSlots \in Nat \ {0}
      /\ p = c - 1 <=> LastPair(x)
  <2>1. d \in 0..(ModeMax - 1) /\ ModeMax \in Nat /\ ModeSlots \in Nat \ {0} /\ c \in Nat
    BY AddressAssumption DEF Modes, Per
  <2>2. p \in 0..(c - 1) /\ (p = c - 1 <=> LastPair(x))
    BY <1>0, PairBound DEF LastPair
  <2> QED BY <2>1, <2>2, LayoutAssumption
<1>2. ModeIndex(x) = p * ModeSlots + d
  <2>1. x[1] \in Int /\ x[2] \in Int /\ x[3] \in Int /\ FmtMax \in Int /\ ModeSlots \in Int
    BY AddressAssumption DEF Modes, Srcs, Fmts, Per
  <2> QED BY <2>1 DEF ModeIndex, PairIndex
<1> HIDE DEF p, c, d
<1>3. p * ModeSlots + d \in Nat /\ (p * ModeSlots + d < c * ModeSlots <=> ~(p = c - 1 /\ d >= ModeSlots))
  BY <1>1, DigitBound
<1> QED BY <1>1, <1>2, <1>3 DEF c, d

\* What every access names: its item, and bytes of it.
Named ==
  \/ Fits(item, index, width) /\ item # "mode_param"
  \/ /\ item = "mode_param" /\ args \in Modes
     /\ index = ModeIndex(args) * ModeParamSize /\ width = ModeParamSize

\* A slot lies in the item of its array.
LEMMA SlotFits ==
  ASSUME NEW z \in Nat \ {0}, NEW c \in Nat, NEW i \in 0..(c - 1), NEW n, Holds(n, c * z)
  PROVE  Fits(n, i * z, z)
PROOF
<1>1. i * z \in Nat /\ c * z \in Nat
  OBVIOUS
<1>2. i * z + z <= c * z
  BY SlotEnd
<1> QED BY <1>1, <1>2 DEF Fits

\* Every access names bytes of its item or a mode's slot.
LEMMA Naming == Spec => []Named
PROOF
<1>1. Init => Named
  <2> SUFFICES ASSUME Init
               PROVE  Named
    OBVIOUS
  <2>1. <<"mark1", 1, {0}>> \in Accessors
    BY DEF Accessors, MarkAccess
  <2>2. Fits("mark1", 0, 1)
    BY <2>1, AccessorsFit
  <2> QED BY <2>2 DEF Init, Named
<1>2. Named /\ [Next]_vars => Named'
  <2> SUFFICES ASSUME Named, [Next]_vars
               PROVE  Named'
    OBVIOUS
  <2>0. /\ SrcMax * FmtMax \in Nat /\ SrcMax * FmtMax * TempMax \in Nat
        /\ SrcMax * FmtMax * TempMax * GammaModes \in Nat
        /\ ModeInfoSize \in Nat \ {0} /\ TempParamSize \in Nat \ {0} /\ GammaParamSize \in Nat \ {0}
    BY AddressAssumption DEF ModeInfoSize, TempParamSize, GammaParamSize
  <2>1. CASE SettingAccess
    <3>1. PICK a \in Accessors : \E off \in a[3] : Access(a[1], <<>>, off, a[2])
      BY <2>1 DEF SettingAccess
    <3>2. PICK off \in a[3] : Access(a[1], <<>>, off, a[2])
      BY <3>1
    <3>3. Fits(a[1], off, a[2]) /\ a[1] # "mode_param"
      BY AccessorsFit, NamesApart
    <3> QED BY <3>2, <3>3 DEF Access, Named, Fits
  <2>2. CASE OldModeAccess
    <3>1. PICK n \in {"picture_mode", "last_picture_mode"}, off \in Per(SourceMax) :
              Access(n, <<>>, off, 1)
      BY <2>2 DEF OldModeAccess
    <3>2. Fits(n, off, 1)
      BY <2>0, SlotSizes, LayoutAssumption DEF Fits, Per
    <3> QED BY <3>1, <3>2 DEF Access, Named, Fits
  <2>3. CASE ModeAccess
    <3>1. PICK n \in {"pq_mode", "last_pq_mode"}, x \in Pairs :
              Access(n, x, PairIndex(x) * ModeInfoSize, ModeInfoSize)
      BY <2>3 DEF ModeAccess
    <3>2. PairIndex(x) \in 0..(SrcMax * FmtMax - 1) /\ Holds(n, SrcMax * FmtMax * ModeInfoSize)
      BY PairBound, SlotSizes
    <3>3. Fits(n, PairIndex(x) * ModeInfoSize, ModeInfoSize)
      BY <2>0, <3>2, SlotFits
    <3> QED BY <3>1, <3>3 DEF Access, Named, Fits
  <2>4. CASE ModeDataAccess
    BY <2>4 DEF ModeDataAccess, Access, Named
  <2>5. CASE TempDataAccess
    <3>1. PICK x \in Temps :
              Access("temp_param", x, TempIndex(x) * TempParamSize, TempParamSize)
      BY <2>5 DEF TempDataAccess
    <3>2. Fits("temp_param", TempIndex(x) * TempParamSize, TempParamSize)
      BY <2>0, TempBound, SlotSizes, SlotFits
    <3> QED BY <3>1, <3>2 DEF Access, Named, Fits
  <2>6. CASE GammaDataAccess
    <3>1. PICK x \in Gammas :
              Access("gamma_param", x, GammaIndex(x) * GammaParamSize, GammaParamSize)
      BY <2>6 DEF GammaDataAccess
    <3>2. Fits("gamma_param", GammaIndex(x) * GammaParamSize, GammaParamSize)
      BY <2>0, GammaBound, SlotSizes, SlotFits
    <3> QED BY <3>1, <3>2 DEF Access, Named, Fits
  <2>7. CASE UNCHANGED vars
    BY <2>7 DEF vars, Named, Fits
  <2> QED BY <2>1, <2>2, <2>3, <2>4, <2>5, <2>6, <2>7 DEF Next
<1> QED BY <1>1, <1>2, PTL DEF Spec

\* The address of the item cancels.
LEMMA InsideIs ==
  ASSUME NEW z \in Nat, Holds(item, z), index \in Nat, width \in Nat
  PROVE  Inside(IdOf(item)) <=> index + width <= z
PROOF
<1>1. IdOf(item) \in 1..71 /\ Size(IdOf(item)) = z
  BY DEF Holds
<1>2. Addr[IdOf(item)] \in Nat
  BY <1>1, Addresses
<1> QED BY <1>1, <1>2 DEF Inside, From

\* No access reaches the bytes of another setting, whatever the numbers of
\* sources, timings, modes and temperatures, except a mode without a slot of its
\* own in the last timing of the last source.
THEOREM ItemsKept == Spec => []OwnItem
PROOF
<1>1. Named => OwnItem
  <2> SUFFICES ASSUME Named
               PROVE  OwnItem
    OBVIOUS
  <2>1. CASE Fits(item, index, width) /\ item # "mode_param"
    <3>1. PICK z \in Nat : /\ Holds(item, z) /\ index \in Nat /\ width \in Nat
                           /\ index + width <= z
      BY <2>1 DEF Fits
    <3>2. Inside(IdOf(item))
      BY <3>1, InsideIs
    <3> QED BY <2>1, <3>2 DEF OwnItem, Spills
  <2>2. CASE /\ item = "mode_param" /\ args \in Modes
             /\ index = ModeIndex(args) * ModeParamSize /\ width = ModeParamSize
    <3> DEFINE c == SrcMax * FmtMax * ModeSlots
    <3>1. /\ Holds(item, c * ModeParamSize) /\ c \in Nat /\ ModeParamSize \in Nat \ {0}
          /\ c * ModeParamSize \in Nat
      BY <2>2, SlotSizes, AddressAssumption DEF ModeParamSize
    <3>2. ModeIndex(args) \in Nat /\ (ModeIndex(args) < c <=> ~Spills)
      BY <2>2, ModeBound DEF Spills, LastPair
    <3> HIDE DEF c
    <3>3. /\ ModeIndex(args) * ModeParamSize \in Nat
          /\ ModeIndex(args) * ModeParamSize + ModeParamSize <= c * ModeParamSize
                 <=> ModeIndex(args) < c
      BY <3>1, <3>2, SlotEnd
    <3>4. Inside(IdOf(item)) <=> index + width <= c * ModeParamSize
      BY <2>2, <3>1, <3>3, InsideIs
    <3> QED BY <2>2, <3>2, <3>3, <3>4 DEF OwnItem
  <2> QED BY <2>1, <2>2 DEF Named
<1> QED BY <1>1, Naming, PTL

\* The colour temperatures lie behind the picture modes.
LEMMA Neighbours ==
  /\ IdOf("mode_param") = 62 /\ IdOf("temp_param") = 63
  /\ Addr[62] \in Nat /\ Addr[63] = Addr[62] + SrcMax * FmtMax * ModeSlots * ModeParamSize
PROOF
<1>1. Name(62) = "mode_param" /\ Name(63) = "temp_param"
  <2>1. LastItems[22][1] = "mode_param" /\ LastItems[23][1] = "temp_param"
    BY DEF LastItems
  <2>2. Items[40 + 22] = LastItems[22] /\ Items[40 + 23] = LastItems[23]
    BY Lengths
  <2> QED BY <2>1, <2>2 DEF Name
<1>2. IdOf("mode_param") = 62 /\ IdOf("temp_param") = 63
  <2>1. 62 \in 1..71 /\ 63 \in 1..71
    OBVIOUS
  <2> QED BY <1>1, <2>1, IdFound
<1>3. Size(62) = SrcMax * FmtMax * ModeSlots * ModeParamSize
  BY <1>2, SlotSizes DEF Holds
<1>4. Addr[62] \in Nat /\ Addr[63] = Addr[62] + Size(62)
  BY Addresses
<1> QED BY <1>2, <1>3, <1>4

\* What that mode overwrites are colour temperatures of the default source and
\* timing and nothing else, as long as the modes without a slot take no more
\* bytes than those: 2 * 124 of 6 * 44 in the source.
THEOREM SpillTakesDefault ==
  ASSUME (ModeMax - ModeSlots) * ModeParamSize <= TempMax * TempParamSize
  PROVE  Spec => []SpillReachesDefault
PROOF
<1>1. Named => SpillReachesDefault
  <2> SUFFICES ASSUME Named, Spills, NEW b \in From..(From + width - 1)
               PROVE  \E l \in Per(TempMax) :
                        LET a == Addr[IdOf("temp_param")] + TempIndex(<<0, 0, l>>) * TempParamSize IN
                        b \in a..(a + TempParamSize - 1)
    BY DEF SpillReachesDefault
  <2>1. /\ item = "mode_param" /\ args \in Modes
        /\ index = ModeIndex(args) * 124 /\ width = 124
    BY DEF Named, Spills, ModeParamSize
  <2> DEFINE d == args[3]
             c == SrcMax * FmtMax * ModeSlots
             t == Addr[63]
  <2>2. /\ d \in ModeSlots..(ModeMax - 1) /\ ModeIndex(args) = c - ModeSlots + d
        /\ c \in Nat /\ ModeSlots \in Nat /\ ModeMax \in Nat /\ TempMax \in Nat
    <3>1. /\ args[1] = SrcMax - 1 /\ args[2] = FmtMax - 1 /\ d \in 0..(ModeMax - 1) /\ d >= ModeSlots
          /\ SrcMax \in Nat /\ FmtMax \in Nat /\ ModeSlots \in Nat /\ ModeMax \in Nat /\ TempMax \in Nat
      BY <2>1, AddressAssumption DEF Spills, Modes, Per
    <3>2. (SrcMax - 1) * FmtMax * ModeSlots + (FmtMax - 1) * ModeSlots = c - ModeSlots
      BY <3>1
    <3>3. c \in Nat
      BY <3>1
    <3> HIDE DEF c
    <3>4. ModeIndex(args) = c - ModeSlots + d
      BY <3>1, <3>2, <3>3 DEF ModeIndex
    <3> QED BY <3>1, <3>3, <3>4
  <2>3. From = Addr[62] + index /\ Addr[62] \in Nat /\ t = Addr[62] + c * 124
    BY <2>1, Neighbours DEF From, ModeParamSize
  <2> HIDE DEF d, c, t
  <2>4. From = t + (d - ModeSlots) * 124 /\ t \in Nat
    BY <2>1, <2>2, <2>3
  <2>5. (ModeMax - ModeSlots) * 124 <= TempMax * 44
    BY DEF ModeParamSize, TempParamSize
  <2>6. b - t \in Nat /\ b - t < TempMax * 44 /\ b \in Int
    BY <2>1, <2>2, <2>4, <2>5
  <2>7. PICK l \in Nat : l * 44 <= b - t /\ b - t < l * 44 + 44
    <3> DEFINE q == (b - t) \div 44
    <3>1. q \in Nat /\ q * 44 <= b - t /\ b - t < q * 44 + 44
      BY <2>6
    <3> QED BY <3>1
  <2>8. l \in Per(TempMax)
    BY <2>2, <2>6, <2>7 DEF Per
  <2>9. TempIndex(<<0, 0, l>>) = l
    <3>1. FmtMax \in Nat /\ TempMax \in Nat
      BY AddressAssumption
    <3> QED BY <3>1 DEF TempIndex
  <2>10. Addr[IdOf("temp_param")] = t
    BY Neighbours DEF t
  <2>11. b \in (t + l * 44)..(t + l * 44 + 44 - 1)
    BY <2>4, <2>6, <2>7
  <2> QED BY <2>8, <2>9, <2>10, <2>11 DEF TempParamSize
<1> QED BY <1>1, Naming, PTL
=============================================================================
