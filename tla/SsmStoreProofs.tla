--------------------------- MODULE SsmStoreProofs ---------------------------
(***************************************************************************)
(* Proofs about the settings store, for any number of threads, cells,      *)
(* calls and deaths: types, what a flag and a read are worth, and that the *)
(* marks vouch for the data.  The programs of the threads are sequences of *)
(* accesses; the first part says what the programs contain and in which    *)
(* order, the second what is left of them in every state.                  *)
(***************************************************************************)
EXTENDS SsmStore, FiniteSetTheorems, SequenceTheorems, TLAPS

-----------------------------------------------------------------------------
(* Accesses by kind.                                                       *)

Set == {"rubbish", "default", "user"}
DataPuts == {Put("data", c, v) : c \in Cells, v \in Set}
FlagPuts == {Put("flag", c, v) : c \in FlagCells, v \in Set}
MarkPuts == {Put("mark", m, "any") : m \in Marks}
DataTakes == {Take("data", c) : c \in Cells}
FlagTakes == {Take("flag", c) : c \in FlagCells}
Dos == {Do(w) : w \in {"truncate", "rewind"} \cup HeaderParts}

\* What a thread may have left to do, by the call it serves.
Ops(k) ==
    IF k = "save" THEN DataPuts \cup FlagPuts
    ELSE IF k = "read" THEN DataTakes \cup FlagTakes
    ELSE IF k \in {"recovery", "boot"} THEN DataPuts \cup FlagPuts \cup MarkPuts \cup Dos
    ELSE {}

LEMMA Fields ==
  /\ \A o \in DataPuts : o.op = "put" /\ o.what = "data" /\ o.at \in Cells /\ o.v \in Set
  /\ \A o \in FlagPuts : o.op = "put" /\ o.what = "flag" /\ o.at \in FlagCells /\ o.v \in Set
  /\ \A o \in MarkPuts : o.op = "put" /\ o.what = "mark" /\ o.at \in Marks /\ o.v = "any"
  /\ \A o \in DataTakes : o.op = "take" /\ o.what = "data" /\ o.at \in Cells /\ o.v = "any"
  /\ \A o \in FlagTakes : o.op = "take" /\ o.what = "flag" /\ o.at \in FlagCells /\ o.v = "any"
  /\ \A o \in Dos : o.op = "do" /\ o.what \in {"truncate", "rewind"} \cup HeaderParts
                    /\ o.at = 0 /\ o.v = "any"
PROOF
  BY DEF DataPuts, FlagPuts, MarkPuts, DataTakes, FlagTakes, Dos, Put, Take, Do

LEMMA OpsAreAccesses == \A k : Ops(k) \subseteq Accesses
PROOF
<1>1. DataPuts \subseteq Accesses
  BY DEF DataPuts, Accesses, Put, Values, Set
<1>2. FlagPuts \subseteq Accesses
  BY DEF FlagPuts, Accesses, Put, Values, Set, Cells
<1>3. MarkPuts \subseteq Accesses
  BY DEF MarkPuts, Accesses, Put, Values, Marks
<1>4. DataTakes \subseteq Accesses /\ FlagTakes \subseteq Accesses
  BY DEF DataTakes, FlagTakes, Accesses, Take, Values, Cells
<1>5. Dos \subseteq Accesses
  BY DEF Dos, Accesses, Do, Values
<1> QED BY <1>1, <1>2, <1>3, <1>4, <1>5 DEF Ops

-----------------------------------------------------------------------------
(* Order in a program.                                                     *)

\* A flag is written right after the data of its cell.
Chain(p) ==
    \A i \in 2..Len(p) : p[i] \in FlagPuts => p[i - 1] \in DataPuts /\ p[i - 1].at = p[i].at
Starts(p) == p # <<>> => p[1] \notin FlagPuts

\* A slot's data is read right after its flag.
TakeChain(p) ==
    \A i \in 2..Len(p) :
        p[i] \in DataTakes /\ p[i].at \in FlagCells => p[i - 1] = Take("flag", p[i].at)

\* Nothing but marks comes after a mark.
MarksLast(p) == \A i, j \in 1..Len(p) : i < j /\ p[i] \in MarkPuts => p[j] \in MarkPuts

In(p, x) == \E i \in 1..Len(p) : p[i] = x

LEMMA InTail ==
  ASSUME NEW S, NEW p \in Seq(S), p # <<>>, NEW x
  PROVE  In(p, x) <=> Head(p) = x \/ In(Tail(p), x)
PROOF
<1>1. /\ Head(p) = p[1] /\ Len(p) \in Nat \ {0} /\ Len(Tail(p)) = Len(p) - 1
      /\ \A i \in 1..(Len(p) - 1) : Tail(p)[i] = p[i + 1]
  BY HeadTailProperties
<1>2. ASSUME NEW i \in 1..Len(p), p[i] = x, i # 1
      PROVE  In(Tail(p), x)
  <2>1. i - 1 \in 1..Len(Tail(p)) /\ Tail(p)[i - 1] = x
    BY <1>1, <1>2
  <2> QED BY <2>1 DEF In
<1>3. ASSUME NEW i \in 1..Len(Tail(p)), Tail(p)[i] = x
      PROVE  In(p, x)
  <2>1. i + 1 \in 1..Len(p) /\ p[i + 1] = x
    BY <1>1, <1>3
  <2> QED BY <2>1 DEF In
<1>4. Head(p) = x => In(p, x)
  BY <1>1 DEF In
<1> QED BY <1>1, <1>2, <1>3, <1>4 DEF In

LEMMA OrderTail ==
  ASSUME NEW S, NEW p \in Seq(S), p # <<>>
  PROVE  /\ Chain(p) => Chain(Tail(p))
         /\ TakeChain(p) => TakeChain(Tail(p))
         /\ MarksLast(p) => MarksLast(Tail(p))
PROOF
<1>1. /\ Len(p) \in Nat /\ Len(Tail(p)) = Len(p) - 1
      /\ \A i \in 1..(Len(p) - 1) : Tail(p)[i] = p[i + 1]
  BY HeadTailProperties
<1>2. Chain(p) => Chain(Tail(p))
  <2> SUFFICES ASSUME Chain(p), NEW i \in 2..(Len(p) - 1), Tail(p)[i] \in FlagPuts
               PROVE  Tail(p)[i - 1] \in DataPuts /\ Tail(p)[i - 1].at = Tail(p)[i].at
    BY <1>1 DEF Chain
  <2>1. Tail(p)[i] = p[i + 1] /\ Tail(p)[i - 1] = p[i] /\ i + 1 \in 2..Len(p) /\ (i + 1) - 1 = i
    BY <1>1
  <2> QED BY <2>1 DEF Chain
<1>3. TakeChain(p) => TakeChain(Tail(p))
  <2> SUFFICES ASSUME TakeChain(p), NEW i \in 2..(Len(p) - 1),
                      Tail(p)[i] \in DataTakes, Tail(p)[i].at \in FlagCells
               PROVE  Tail(p)[i - 1] = Take("flag", Tail(p)[i].at)
    BY <1>1 DEF TakeChain
  <2>1. Tail(p)[i] = p[i + 1] /\ Tail(p)[i - 1] = p[i] /\ i + 1 \in 2..Len(p) /\ (i + 1) - 1 = i
    BY <1>1
  <2> QED BY <2>1 DEF TakeChain
<1>4. MarksLast(p) => MarksLast(Tail(p))
  <2> SUFFICES ASSUME MarksLast(p), NEW i \in 1..(Len(p) - 1), NEW j \in 1..(Len(p) - 1), i < j,
                      Tail(p)[i] \in MarkPuts
               PROVE  Tail(p)[j] \in MarkPuts
    BY <1>1 DEF MarksLast
  <2>1. /\ Tail(p)[i] = p[i + 1] /\ Tail(p)[j] = p[j + 1]
        /\ i + 1 \in 1..Len(p) /\ j + 1 \in 1..Len(p) /\ i + 1 < j + 1
    BY <1>1
  <2> QED BY <2>1 DEF MarksLast
<1> QED BY <1>2, <1>3, <1>4

LEMMA ChainConcat ==
  ASSUME NEW S, NEW p \in Seq(S), NEW q \in Seq(S), Chain(p), Chain(q), Starts(p), Starts(q)
  PROVE  p \o q \in Seq(S) /\ Chain(p \o q) /\ Starts(p \o q)
PROOF
<1>1. /\ p \o q \in Seq(S) /\ Len(p) \in Nat /\ Len(q) \in Nat
      /\ Len(p \o q) = Len(p) + Len(q)
      /\ \A i \in 1..(Len(p) + Len(q)) :
             (p \o q)[i] = IF i <= Len(p) THEN p[i] ELSE q[i - Len(p)]
  BY ConcatProperties
<1>2. Chain(p \o q)
  <2> SUFFICES ASSUME NEW i \in 2..(Len(p) + Len(q)), (p \o q)[i] \in FlagPuts
               PROVE  (p \o q)[i - 1] \in DataPuts /\ (p \o q)[i - 1].at = (p \o q)[i].at
    BY <1>1 DEF Chain
  <2>1. CASE i <= Len(p)
    <3>1. (p \o q)[i] = p[i] /\ (p \o q)[i - 1] = p[i - 1] /\ i \in 2..Len(p)
      BY <1>1, <2>1
    <3> QED BY <3>1 DEF Chain
  <2>2. CASE i = Len(p) + 1
    <3>1. (p \o q)[i] = q[1] /\ Len(q) # 0
      BY <1>1, <2>2
    <3>2. q # <<>>
      BY <3>1
    <3> QED BY <3>1, <3>2 DEF Starts
  <2>3. CASE i > Len(p) + 1
    <3> DEFINE j == i - Len(p)
    <3>1. (p \o q)[i] = q[j] /\ (p \o q)[i - 1] = q[j - 1] /\ j \in 2..Len(q)
      BY <1>1, <2>3
    <3> HIDE DEF j
    <3> QED BY <3>1 DEF Chain
  <2> QED BY <1>1, <2>1, <2>2, <2>3
<1>3. Starts(p \o q)
  <2>1. CASE p = <<>>
    <3>1. p \o q = q
      BY <2>1, ConcatEmptySeq
    <3> QED BY <3>1
  <2>2. CASE p # <<>>
    <3>1. Len(p) >= 1
      BY <1>1, <2>2, EmptySeq
    <3>2. (p \o q)[1] = p[1]
      BY <1>1, <3>1
    <3> QED BY <2>2, <3>2 DEF Starts
  <2> QED BY <2>1, <2>2
<1> QED BY <1>1, <1>2, <1>3

LEMMA InConcat ==
  ASSUME NEW S, NEW p \in Seq(S), NEW q \in Seq(S), NEW x, In(p, x) \/ In(q, x)
  PROVE  In(p \o q, x)
PROOF
<1>1. /\ Len(p) \in Nat /\ Len(q) \in Nat /\ Len(p \o q) = Len(p) + Len(q)
      /\ \A i \in 1..(Len(p) + Len(q)) :
             (p \o q)[i] = IF i <= Len(p) THEN p[i] ELSE q[i - Len(p)]
  BY ConcatProperties
<1>2. ASSUME NEW i \in 1..Len(p), p[i] = x
      PROVE  In(p \o q, x)
  <2>1. i \in 1..Len(p \o q) /\ (p \o q)[i] = x
    BY <1>1, <1>2
  <2> QED BY <2>1 DEF In
<1>3. ASSUME NEW i \in 1..Len(q), q[i] = x
      PROVE  In(p \o q, x)
  <2> DEFINE j == Len(p) + i
  <2>1. j \in 1..Len(p \o q) /\ (p \o q)[j] = x
    BY <1>1, <1>3
  <2> QED BY <2>1 DEF In
<1> QED BY <1>2, <1>3 DEF In

-----------------------------------------------------------------------------
(* The programs.                                                           *)

\* Rubbish is only written when the database is closed, by a recovery.
OpsNow(k) == {o \in Ops(k) : o.v = "rubbish" => ~dbOpen /\ k \in {"recovery", "boot"}}
Fills == {o \in DataPuts \cup FlagPuts : o.v = "rubbish" => ~dbOpen}

LEMMA Enumerated ==
  ASSUME NEW S, IsFiniteSet(S)
  PROVE  /\ SetToSeq(S) \in Seq(S) /\ Len(SetToSeq(S)) \in Nat
         /\ \A c \in S : \E k \in 1..Len(SetToSeq(S)) : SetToSeq(S)[k] = c
PROOF
<1> DEFINE n == Cardinality(S)
           q == SetToSeq(S)
<1>1. n \in Nat /\ ExistsBijection(1..n, S)
  BY FS_CardinalityType
<1>2. PICK f \in [1..n -> S] : IsInjective(f)
  BY <1>1 DEF ExistsBijection, Bijection, Injection
<1>3. q \in [1..n -> S] /\ IsInjective(q)
  BY <1>2 DEF SetToSeq
<1>4. q \in Seq(S) /\ Len(q) = n
  BY <1>1, <1>3
<1>5. IsFiniteSet(1..n) /\ Cardinality(1..n) = n
  BY <1>1, FS_Interval
<1>6. q \in Surjection(1..n, S)
  BY <1>3, <1>5, FS_Injection DEF Injection
<1> QED BY <1>1, <1>4, <1>6 DEF Surjection

LEMMA SlotsProgram ==
  ASSUME NEW S \in SUBSET FlagCells, IsFiniteSet(S)
  PROVE  LET p == SetDataOf(S, "default") IN
         /\ p \in Seq(Fills) /\ Chain(p) /\ Starts(p)
         /\ \A c \in S : In(p, Put("data", c, "default")) /\ In(p, Put("flag", c, "default"))
PROOF
<1> DEFINE q == SetToSeq(S)
           n == Len(q)
           p == SetDataOf(S, "default")
<1>1. q \in Seq(S) /\ n \in Nat /\ \A c \in S : \E k \in 1..n : q[k] = c
  BY Enumerated
<1>2. p = [i \in 1..(2 * n) |-> IF i % 2 = 1 THEN Put("data", q[(i + 1) \div 2], "default")
                                ELSE Put("flag", q[(i + 1) \div 2], "default")]
  BY DEF SetDataOf, SetData
<1>3. \A k \in 1..n : q[k] \in S /\ q[k] \in FlagCells /\ q[k] \in Cells
  BY <1>1 DEF Cells
<1> HIDE DEF p, q, n
<1>4. ASSUME NEW i \in 1..(2 * n)
      PROVE  /\ (i + 1) \div 2 \in 1..n
             /\ i % 2 = 1 => p[i] = Put("data", q[(i + 1) \div 2], "default") /\ p[i] \in DataPuts
             /\ i % 2 # 1 => p[i] = Put("flag", q[(i + 1) \div 2], "default") /\ p[i] \in FlagPuts
  <2>1. (i + 1) \div 2 \in 1..n
    BY <1>1
  <2>2. q[(i + 1) \div 2] \in FlagCells /\ q[(i + 1) \div 2] \in Cells
    BY <1>3, <2>1
  <2> QED BY <1>2, <2>1, <2>2 DEF DataPuts, FlagPuts, Set
<1>5. ASSUME NEW i \in 1..(2 * n)
      PROVE  p[i] \in Fills
  <2>1. p[i] \in DataPuts \cup FlagPuts
    BY <1>4
  <2>2. \E x : p[i] = Put("data", x, "default") \/ p[i] = Put("flag", x, "default")
    BY <1>4
  <2>3. p[i].v = "default"
    BY <2>2 DEF Put
  <2> QED BY <2>1, <2>3 DEF Fills
<1>6. p \in Seq(Fills) /\ Len(p) = 2 * n
  BY <1>1, <1>2, <1>5
<1>7. Chain(p)
  <2> SUFFICES ASSUME NEW i \in 2..(2 * n), p[i] \in FlagPuts
               PROVE  p[i - 1] \in DataPuts /\ p[i - 1].at = p[i].at
    BY <1>6 DEF Chain
  <2>1. i % 2 # 1
    BY <1>4, Fields
  <2>2. i - 1 \in 1..(2 * n) /\ (i - 1) % 2 = 1 /\ ((i - 1) + 1) \div 2 = (i + 1) \div 2
    BY <2>1, <1>1
  <2>3. /\ p[i] = Put("flag", q[(i + 1) \div 2], "default")
        /\ p[i - 1] = Put("data", q[((i - 1) + 1) \div 2], "default") /\ p[i - 1] \in DataPuts
    BY <1>4, <2>1, <2>2
  <2>4. q[((i - 1) + 1) \div 2] = q[(i + 1) \div 2]
    BY <2>2
  <2> QED BY <2>3, <2>4 DEF Put
<1>8. Starts(p)
  <2> SUFFICES ASSUME p # <<>>
               PROVE  p[1] \notin FlagPuts
    BY DEF Starts
  <2>1. 1 \in 1..(2 * n)
    BY <1>1, <1>6, EmptySeq
  <2> QED BY <1>4, <2>1, Fields
<1>9. ASSUME NEW c \in S
      PROVE  In(p, Put("data", c, "default")) /\ In(p, Put("flag", c, "default"))
  <2>1. PICK k \in 1..n : q[k] = c
    BY <1>1
  <2>2. /\ 2 * k - 1 \in 1..(2 * n) /\ (2 * k - 1) % 2 = 1 /\ ((2 * k - 1) + 1) \div 2 = k
        /\ 2 * k \in 1..(2 * n) /\ (2 * k) % 2 # 1 /\ (2 * k + 1) \div 2 = k
    BY <1>1
  <2>3. p[2 * k - 1] = Put("data", c, "default") /\ p[2 * k] = Put("flag", c, "default")
    BY <1>4, <2>1, <2>2
  <2> QED BY <1>6, <2>2, <2>3 DEF In
<1> QED BY <1>6, <1>7, <1>8, <1>9 DEF p

LEMMA BytesProgram ==
  ASSUME NEW v \in {"default", "rubbish"}, v = "rubbish" => ~dbOpen
  PROVE  LET p == SaveByteOf(ByteCells, v) IN
         /\ p \in Seq(Fills) /\ Chain(p) /\ Starts(p)
         /\ \A c \in ByteCells : In(p, Put("data", c, v))
PROOF
<1> DEFINE q == SetToSeq(ByteCells)
           n == Len(q)
           p == SaveByteOf(ByteCells, v)
<1>0. IsFiniteSet(ByteCells)
  BY StoreAssumption, FS_Subset
<1>1. q \in Seq(ByteCells) /\ n \in Nat /\ \A c \in ByteCells : \E k \in 1..n : q[k] = c
  BY <1>0, Enumerated
<1>2. p = [i \in 1..n |-> Put("data", q[i], v)]
  BY DEF SaveByteOf
<1>3. \A k \in 1..n : q[k] \in Cells
  BY <1>1 DEF Cells
<1> HIDE DEF p, q, n
<1>4. \A i \in 1..n : p[i] = Put("data", q[i], v) /\ p[i] \in DataPuts
  BY <1>2, <1>3 DEF DataPuts, Set
<1>5. ASSUME NEW i \in 1..n
      PROVE  p[i] \in Fills
  <2>1. p[i] \in DataPuts
    BY <1>4
  <2>2. \E x : p[i] = Put("data", x, v)
    BY <1>4
  <2>3. p[i].v = v
    BY <2>2 DEF Put
  <2> QED BY <2>1, <2>3 DEF Fills
<1>6. p \in Seq(Fills) /\ Len(p) = n
  BY <1>1, <1>2, <1>5
<1>7. \A i \in 1..n : p[i] \notin FlagPuts
  BY <1>4, Fields
<1>8. Chain(p) /\ Starts(p)
  <2>1. Chain(p)
    BY <1>6, <1>7 DEF Chain
  <2>2. p # <<>> => 1 \in 1..n
    BY <1>1, <1>6, EmptySeq
  <2> QED BY <1>7, <2>1, <2>2 DEF Starts
<1>9. \A c \in ByteCells : In(p, Put("data", c, v))
  BY <1>1, <1>4, <1>6 DEF In
<1> QED BY <1>6, <1>8, <1>9 DEF p

\* The cells every recovery fills are in the program when the database is
\* open.
LEMMA ResetProgram ==
  ASSUME dbOpen \in BOOLEAN
  PROVE  LET p == resetAllUserSettingParam IN
         /\ p \in Seq(Fills) /\ Chain(p) /\ Starts(p)
         /\ dbOpen => \A c \in Defaulted :
                /\ In(p, Put("data", c, "default"))
                /\ c \in FlagCells => In(p, Put("flag", c, "default"))
PROOF
<1> DEFINE bytes == SaveByteOf(ByteCells, IF dbOpen THEN "default" ELSE "rubbish")
           wb == SetDataOf(WbCells, "default")
           ui == SetDataOf(InDb, "default")
           def == SaveByteOf(ByteCells, "default")
<1>0. /\ WbCells \in SUBSET FlagCells /\ InDb \in SUBSET FlagCells
      /\ IsFiniteSet(WbCells) /\ IsFiniteSet(InDb) /\ ByteCells \cap FlagCells = {}
  <2>1. WbCells \in SUBSET FlagCells /\ InDb \in SUBSET FlagCells /\ ByteCells \cap FlagCells = {}
    BY StoreAssumption DEF FlagCells
  <2> QED BY <2>1, StoreAssumption, FS_Subset DEF FlagCells
<1>1. /\ wb \in Seq(Fills) /\ Chain(wb) /\ Starts(wb)
      /\ \A c \in WbCells : In(wb, Put("data", c, "default")) /\ In(wb, Put("flag", c, "default"))
  BY <1>0, SlotsProgram
<1>2. /\ ui \in Seq(Fills) /\ Chain(ui) /\ Starts(ui)
      /\ \A c \in InDb : In(ui, Put("data", c, "default")) /\ In(ui, Put("flag", c, "default"))
  BY <1>0, SlotsProgram
<1>3. /\ bytes \in Seq(Fills) /\ Chain(bytes) /\ Starts(bytes)
      /\ dbOpen => \A c \in ByteCells : In(bytes, Put("data", c, "default"))
  BY BytesProgram
<1>4. /\ def \in Seq(Fills) /\ Chain(def) /\ Starts(def)
      /\ \A c \in ByteCells : In(def, Put("data", c, "default"))
  BY BytesProgram
<1>5. <<>> \in Seq(Fills) /\ Chain(<<>>) /\ Starts(<<>>)
  BY EmptySeq DEF Chain, Starts
<1>6. resetWb = wb /\ resetPQUiSetting = IF dbOpen THEN ui ELSE <<>>
  BY DEF resetWb, resetPQUiSetting
<1>7. resetPQTableSetting = def \o wb /\ resetOldSetting = bytes \o wb
  BY <1>6 DEF resetPQTableSetting, resetOldSetting
<1> HIDE DEF bytes, wb, ui, def
<1>8. CASE NewConfig
  <2> DEFINE table == def \o wb
             slots == IF dbOpen THEN ui ELSE <<>>
  <2>1. table \in Seq(Fills) /\ Chain(table) /\ Starts(table)
    BY <1>1, <1>4, ChainConcat
  <2>2. slots \in Seq(Fills) /\ Chain(slots) /\ Starts(slots)
    BY <1>2, <1>5
  <2>3. \A c \in WbCells : In(table, Put("data", c, "default")) /\ In(table, Put("flag", c, "default"))
    BY <1>1, <1>4, InConcat
  <2>4. \A c \in ByteCells : In(table, Put("data", c, "default"))
    BY <1>1, <1>4, InConcat
  <2>5. resetAllUserSettingParam = slots \o table
    BY <1>6, <1>7, <1>8 DEF resetAllUserSettingParam
  <2>6. slots \o table \in Seq(Fills) /\ Chain(slots \o table) /\ Starts(slots \o table)
    <3> HIDE DEF slots, table
    <3> QED BY <2>1, <2>2, ChainConcat
  <2>7. ASSUME dbOpen, NEW c \in Defaulted
        PROVE  /\ In(slots \o table, Put("data", c, "default"))
               /\ c \in FlagCells => In(slots \o table, Put("flag", c, "default"))
    <3>1. c \in WbCells \/ c \in ByteCells \/ c \in InDb
      BY <2>7 DEF Defaulted
    <3>2. c \in ByteCells => c \notin FlagCells
      BY <1>0
    <3>3. In(table, Put("data", c, "default")) \/ In(slots, Put("data", c, "default"))
      BY <1>2, <2>3, <2>4, <2>7, <3>1
    <3>4. c \in FlagCells =>
              In(table, Put("flag", c, "default")) \/ In(slots, Put("flag", c, "default"))
      BY <1>2, <2>3, <2>7, <3>1, <3>2
    <3> HIDE DEF slots, table
    <3> QED BY <2>1, <2>2, <3>3, <3>4, InConcat
  <2> QED BY <2>5, <2>6, <2>7
<1>9. CASE ~NewConfig
  <2> DEFINE table == bytes \o wb
  <2>1. table \in Seq(Fills) /\ Chain(table) /\ Starts(table)
    BY <1>1, <1>3, ChainConcat
  <2>2. \A c \in WbCells : In(table, Put("data", c, "default")) /\ In(table, Put("flag", c, "default"))
    BY <1>1, <1>3, InConcat
  <2>3. dbOpen => \A c \in ByteCells : In(table, Put("data", c, "default"))
    BY <1>1, <1>3, InConcat
  <2>4. resetAllUserSettingParam = table
    BY <1>7, <1>9 DEF resetAllUserSettingParam
  <2>5. \A c \in Defaulted : c \in WbCells \/ (c \in ByteCells /\ c \notin FlagCells)
    BY <1>0, <1>9 DEF Defaulted
  <2> HIDE DEF table
  <2> QED BY <2>1, <2>2, <2>3, <2>4, <2>5
<1> QED BY <1>8, <1>9

\* A recovery truncates, fills what it can, and writes the marks last.
LEMMA RecoveryProgram ==
  ASSUME dbOpen \in BOOLEAN
  PROVE  LET p == SSMRecovery IN
         /\ p \in Seq(OpsNow("recovery")) /\ p # <<>> /\ Chain(p) /\ MarksLast(p)
         /\ p[1] = Do("truncate") /\ \A i \in 2..Len(p) : p[i] # Do("truncate")
         /\ dbOpen => \A c \in Defaulted :
                /\ In(p, Put("data", c, "default"))
                /\ c \in FlagCells => In(p, Put("flag", c, "default"))
PROOF
<1> DEFINE e == EraseAllData
           r == resetAllUserSettingParam
           h == SSMRecreateHeader
           m == RestoreDeviceMarkValues
           w == Dos \cup Fills
           a == w \cup MarkPuts
<1>1. /\ r \in Seq(Fills) /\ Chain(r) /\ Starts(r)
      /\ dbOpen => \A c \in Defaulted :
                /\ In(r, Put("data", c, "default"))
                /\ c \in FlagCells => In(r, Put("flag", c, "default"))
  BY ResetProgram
<1>2. \A o \in Dos \cup MarkPuts : o \notin FlagPuts
  BY Fields
<1>3. e \in Seq(Dos) /\ Len(e) = 2 /\ e[1] = Do("truncate") /\ e[2] = Do("rewind")
  BY DEF EraseAllData, Dos
<1>4. /\ h \in Seq(Dos) /\ Len(h) = 4
      /\ \A i \in 1..4 : h[i] # Do("truncate")
  BY DEF SSMRecreateHeader, Dos, HeaderParts, Do
<1>5. m \in Seq(MarkPuts) /\ Len(m) = 3 /\ \A i \in 1..3 : m[i] \in MarkPuts
  <2>1. /\ Put("mark", 1, "any") \in MarkPuts /\ Put("mark", 2, "any") \in MarkPuts
        /\ Put("mark", 3, "any") \in MarkPuts
    BY DEF MarkPuts, Marks
  <2> QED BY <2>1 DEF RestoreDeviceMarkValues
<1>6. SSMRecovery = ((e \o r) \o h) \o m
  BY DEF SSMRecovery
<1> HIDE DEF e, r, h, m
<1>7. e \in Seq(w) /\ r \in Seq(w) /\ h \in Seq(w)
  BY <1>1, <1>3, <1>4
<1>8. Chain(e) /\ Starts(e) /\ Chain(h) /\ Starts(h) /\ Chain(m) /\ Starts(m)
  <2>1. \A i \in 1..Len(e) : e[i] \notin FlagPuts
    BY <1>2, <1>3
  <2>2. \A i \in 1..Len(h) : h[i] \notin FlagPuts
    BY <1>2, <1>4
  <2>3. \A i \in 1..Len(m) : m[i] \notin FlagPuts
    BY <1>2, <1>5
  <2> QED BY <2>1, <2>2, <2>3, <1>3, <1>4, <1>5 DEF Chain, Starts
<1> DEFINE er == e \o r
           erh == er \o h
           p == erh \o m
<1>9. er \in Seq(w) /\ Chain(er) /\ Starts(er)
  BY <1>1, <1>7, <1>8, ChainConcat
<1>10. erh \in Seq(w) /\ Chain(erh) /\ Starts(erh)
  <2> HIDE DEF er
  <2> QED BY <1>7, <1>8, <1>9, ChainConcat
<1>11. /\ Len(er) = 2 + Len(r) /\ Len(r) \in Nat
       /\ \A i \in 1..Len(er) : er[i] = IF i <= 2 THEN e[i] ELSE r[i - 2]
  <2>1. /\ Len(er) = Len(e) + Len(r)
        /\ \A i \in 1..(Len(e) + Len(r)) : er[i] = IF i <= Len(e) THEN e[i] ELSE r[i - Len(e)]
    <3> HIDE DEF w
    <3> QED BY <1>7, ConcatProperties
  <2>2. Len(r) \in Nat
    BY <1>1
  <2> HIDE DEF er
  <2> QED BY <1>3, <2>1, <2>2
<1>12. /\ Len(erh) = 6 + Len(r)
       /\ \A i \in 1..Len(erh) : erh[i] = IF i <= 2 + Len(r) THEN er[i] ELSE h[i - (2 + Len(r))]
  <2>1. /\ Len(erh) = Len(er) + Len(h)
        /\ \A i \in 1..(Len(er) + Len(h)) : erh[i] = IF i <= Len(er) THEN er[i] ELSE h[i - Len(er)]
    <3> HIDE DEF w, er
    <3> QED BY <1>7, <1>9, ConcatProperties
  <2> HIDE DEF er, erh
  <2> QED BY <1>4, <1>11, <2>1
<1>13. erh \in Seq(a) /\ m \in Seq(a)
  <2> HIDE DEF erh, w
  <2> QED BY <1>5, <1>10
<1>14. p \in Seq(a) /\ Chain(p)
  <2> HIDE DEF erh, a, w
  <2>1. Chain(m) /\ Starts(m) /\ Chain(erh) /\ Starts(erh)
    BY <1>8, <1>10
  <2> QED BY <1>13, <2>1, ChainConcat
<1>15. /\ Len(p) = 9 + Len(r)
       /\ \A i \in 1..Len(p) : p[i] = IF i <= 6 + Len(r) THEN erh[i] ELSE m[i - (6 + Len(r))]
  <2>1. /\ Len(p) = Len(erh) + Len(m)
        /\ \A i \in 1..(Len(erh) + Len(m)) :
               p[i] = IF i <= Len(erh) THEN erh[i] ELSE m[i - Len(erh)]
    <3> HIDE DEF erh, a, w
    <3> QED BY <1>13, ConcatProperties
  <2> HIDE DEF erh, p
  <2> QED BY <1>5, <1>11, <1>12, <2>1
<1>16. \A i \in 1..(6 + Len(r)) : erh[i] \in w
  <2> HIDE DEF erh, w
  <2> QED BY <1>10, <1>12
<1>17. /\ p[1] = Do("truncate") /\ p # <<>>
       /\ \A i \in 2..Len(p) : p[i] # Do("truncate")
  <2>1. p[1] = e[1]
    <3> HIDE DEF p, erh, er
    <3> QED BY <1>11, <1>12, <1>15
  <2>2. ASSUME NEW i \in 2..Len(p)
        PROVE  p[i] # Do("truncate")
    <3> HIDE DEF p, erh, er, a, w
    <3>1. CASE i > 6 + Len(r)
      <4>1. p[i] = m[i - (6 + Len(r))] /\ i - (6 + Len(r)) \in 1..3
        BY <1>11, <1>15, <3>1
      <4>2. p[i] \in MarkPuts
        BY <1>5, <4>1
      <4> QED BY <4>2, Fields DEF Do
    <3>2. CASE i = 2
      <4>1. p[i] = e[2]
        BY <1>11, <1>12, <1>15, <3>2
      <4> QED BY <4>1, <1>3 DEF Do
    <3>3. CASE i > 2 /\ i <= 2 + Len(r)
      <4>1. p[i] = r[i - 2] /\ i - 2 \in 1..Len(r)
        BY <1>11, <1>12, <1>15, <3>3
      <4>2. p[i] \in DataPuts \cup FlagPuts
        BY <1>1, <4>1 DEF Fills
      <4> QED BY <4>2, Fields DEF Do
    <3>4. CASE i > 2 + Len(r) /\ i <= 6 + Len(r)
      <4>1. p[i] = h[i - (2 + Len(r))] /\ i - (2 + Len(r)) \in 1..4
        BY <1>11, <1>12, <1>15, <3>4
      <4> QED BY <4>1, <1>4
    <3> QED BY <1>11, <1>15, <3>1, <3>2, <3>3, <3>4
  <2> HIDE DEF p
  <2> QED BY <1>3, <1>11, <1>15, <2>1, <2>2
<1>18. MarksLast(p)
  <2> SUFFICES ASSUME NEW i \in 1..Len(p), NEW j \in 1..Len(p), i < j, p[i] \in MarkPuts
               PROVE  p[j] \in MarkPuts
    BY DEF MarksLast
  <2> HIDE DEF p, erh, er, a
  <2>1. i > 6 + Len(r)
    <3> SUFFICES ASSUME i <= 6 + Len(r) PROVE FALSE
      BY <1>11, <1>15
    <3>1. p[i] \in w
      BY <1>11, <1>15, <1>16
    <3> QED BY <3>1, Fields DEF Fills
  <2>2. p[j] = m[j - (6 + Len(r))] /\ j - (6 + Len(r)) \in 1..3
    BY <1>11, <1>15, <2>1
  <2> QED BY <1>5, <2>2
<1>19. a \subseteq OpsNow("recovery")
  BY Fields DEF OpsNow, Ops, Fills
<1>20. ASSUME NEW x, In(r, x)
       PROVE  In(p, x)
  <2> HIDE DEF a, w
  <2>1. In(er, x)
    BY <1>7, <1>20, InConcat
  <2>2. In(erh, x)
    <3> HIDE DEF er
    <3> QED BY <1>7, <1>9, <2>1, InConcat
  <2> HIDE DEF erh
  <2> QED BY <1>13, <2>2, InConcat
<1>21. p \in Seq(OpsNow("recovery"))
  <2> HIDE DEF p, a
  <2> QED BY <1>14, <1>19
<1>22. p = SSMRecovery
  BY <1>6
<1> HIDE DEF p
<1> QED BY <1>1, <1>14, <1>17, <1>18, <1>20, <1>21, <1>22

LEMMA Short ==
  ASSUME NEW S, NEW x \in S, NEW y \in S
  PROVE  /\ <<x>> \in Seq(S) /\ Len(<<x>>) = 1 /\ <<x>>[1] = x
         /\ <<x, y>> \in Seq(S) /\ Len(<<x, y>>) = 2 /\ <<x, y>>[1] = x /\ <<x, y>>[2] = y
PROOF
  OBVIOUS

LEMMA SaveProgram ==
  ASSUME NEW c \in Cells
  PROVE  /\ Save(c, "user") \in Seq(OpsNow("save")) /\ Chain(Save(c, "user"))
         /\ Starts(Save(c, "user"))
PROOF
<1>1. Put("data", c, "user") \in DataPuts
  BY DEF DataPuts, Set
<1>2. Put("data", c, "user").v = "user" /\ Put("flag", c, "user").v = "user"
  BY DEF Put
<1>3. CASE c \in FlagCells
  <2>1. Put("flag", c, "user") \in FlagPuts
    BY <1>3 DEF FlagPuts, Set
  <2>2. Put("data", c, "user") \in OpsNow("save") /\ Put("flag", c, "user") \in OpsNow("save")
    BY <1>1, <1>2, <2>1 DEF OpsNow, Ops
  <2>3. Put("data", c, "user").at = Put("flag", c, "user").at
    BY DEF Put
  <2>4. Put("data", c, "user") \notin FlagPuts
    BY <1>1, Fields
  <2>5. Save(c, "user") = <<Put("data", c, "user"), Put("flag", c, "user")>>
    BY <1>3 DEF Save, SetData
  <2> DEFINE p == Save(c, "user")
  <2>6. Len(p) = 2 /\ p[1] = Put("data", c, "user") /\ p[2] = Put("flag", c, "user")
    BY <2>5
  <2>7. p \in Seq(OpsNow("save"))
    BY <2>2, <2>5, Short
  <2> HIDE DEF p
  <2>8. Chain(p) /\ Starts(p)
    BY <1>1, <2>3, <2>4, <2>6 DEF Chain, Starts
  <2> QED BY <2>7, <2>8 DEF p
<1>4. CASE c \notin FlagCells
  <2>1. Put("data", c, "user") \in OpsNow("save") /\ Put("data", c, "user") \notin FlagPuts
    BY <1>1, <1>2, Fields DEF OpsNow, Ops
  <2>2. Save(c, "user") = <<Put("data", c, "user")>>
    BY <1>4 DEF Save, SaveByte
  <2> DEFINE p == Save(c, "user")
  <2>3. p \in Seq(OpsNow("save")) /\ Len(p) = 1 /\ p[1] = Put("data", c, "user")
    BY <2>1, <2>2, Short, ZenonT(40)
  <2> HIDE DEF p
  <2>4. Chain(p) /\ Starts(p)
    BY <2>1, <2>3 DEF Chain, Starts
  <2> QED BY <2>3, <2>4 DEF p
<1> QED BY <1>3, <1>4

LEMMA ReadProgram ==
  ASSUME NEW c \in Cells
  PROVE  /\ Read(c) \in Seq(OpsNow("read")) /\ TakeChain(Read(c)) /\ Read(c) # <<>>
         /\ Read(c)[1] \in DataTakes => Read(c)[1].at \notin FlagCells
PROOF
<1>1. Take("data", c) \in DataTakes /\ Take("data", c).at = c /\ Take("data", c).v = "any"
  BY DEF DataTakes, Take
<1>2. CASE c \in FlagCells
  <2>1. Take("flag", c) \in FlagTakes /\ Take("flag", c).v = "any"
    BY <1>2 DEF FlagTakes, Take
  <2>2. Take("data", c) \in OpsNow("read") /\ Take("flag", c) \in OpsNow("read")
    BY <1>1, <2>1 DEF OpsNow, Ops
  <2>3. Take("flag", c) \notin DataTakes
    BY <2>1, Fields
  <2>4. Read(c) = <<Take("flag", c), Take("data", c)>>
    BY <1>2 DEF Read, GetData
  <2> QED BY <1>1, <2>2, <2>3, <2>4, Short DEF TakeChain
<1>3. CASE c \notin FlagCells
  <2>1. Take("data", c) \in OpsNow("read")
    BY <1>1 DEF OpsNow, Ops
  <2>2. Read(c) = <<Take("data", c)>>
    BY <1>3 DEF Read, ReadByte
  <2> QED BY <1>1, <1>3, <2>1, <2>2 DEF TakeChain
<1> QED BY <1>2, <1>3

-----------------------------------------------------------------------------
(* What is left of a program.                                              *)

Program(p, k) ==
    /\ p \in Seq(OpsNow(k)) /\ Chain(p) /\ TakeChain(p) /\ MarksLast(p)
    /\ k \in {"recovery", "boot"} /\ p # <<>> => p = SSMRecovery \/ ~In(p, Do("truncate"))

LEMMA ProgramEmpty == \A k : Program(<<>>, k)
PROOF
  BY EmptySeq DEF Program, Chain, TakeChain, MarksLast

LEMMA ProgramTail ==
  ASSUME dbOpen \in BOOLEAN, NEW k, NEW p, Program(p, k), p # <<>>
  PROVE  /\ Program(Tail(p), k)
         /\ k \in {"recovery", "boot"} => ~In(Tail(p), Do("truncate"))
PROOF
<1>1. p \in Seq(OpsNow(k))
  BY DEF Program
<1>2. Tail(p) \in Seq(OpsNow(k))
  BY <1>1, HeadTailProperties
<1>3. Chain(Tail(p)) /\ TakeChain(Tail(p)) /\ MarksLast(Tail(p))
  BY <1>1, OrderTail DEF Program
<1>4. ASSUME k \in {"recovery", "boot"}
      PROVE  ~In(Tail(p), Do("truncate"))
  <2>1. CASE p = SSMRecovery
    <3>1. \A i \in 2..Len(p) : p[i] # Do("truncate")
      BY <2>1, RecoveryProgram
    <3>2. /\ Len(p) \in Nat /\ Len(Tail(p)) = Len(p) - 1
          /\ \A i \in 1..(Len(p) - 1) : Tail(p)[i] = p[i + 1]
      BY <1>1, HeadTailProperties
    <3> SUFFICES ASSUME NEW i \in 1..Len(Tail(p)), Tail(p)[i] = Do("truncate")
                 PROVE  FALSE
      BY DEF In
    <3>3. i + 1 \in 2..Len(p) /\ Tail(p)[i] = p[i + 1]
      BY <3>2
    <3> QED BY <3>1, <3>3
  <2>2. CASE ~In(p, Do("truncate"))
    BY <1>1, <2>2, InTail
  <2> QED BY <1>4, <2>1, <2>2 DEF Program
<1> QED BY <1>2, <1>3, <1>4 DEF Program

\* A program only depends on whether the database is open.
LEMMA ProgramStable ==
  ASSUME dbOpen' = dbOpen
  PROVE  SSMRecovery' = SSMRecovery /\ \A p, k : Program(p, k)' <=> Program(p, k)
PROOF
<1>1. SSMRecovery' = SSMRecovery
  BY DEF SSMRecovery, resetAllUserSettingParam, resetPQUiSetting, resetOldSetting
<1>2. \A k : OpsNow(k)' = OpsNow(k)
  BY DEF OpsNow
<1> QED BY <1>1, <1>2 DEF Program

LEMMA HeadOp ==
  ASSUME NEW k, NEW p, Program(p, k), p # <<>>
  PROVE  Head(p) \in OpsNow(k) /\ Head(p) \in Ops(k) /\ In(p, Head(p)) /\ Head(p) = p[1]
PROOF
<1>1. p \in Seq(OpsNow(k))
  BY DEF Program
<1>2. Head(p) \in OpsNow(k)
  BY <1>1, HeadTailProperties
<1>3. In(p, Head(p))
  BY <1>1, InTail
<1> QED BY <1>2, <1>3 DEF OpsNow

-----------------------------------------------------------------------------
(* The first invariant: types, programs, the owner of the mutex.           *)

\* The constructor's thread serves no calls.
Kinds ==
    /\ \A t \in Threads : kind[t] \in {"none", "save", "read", "recovery"}
    /\ kind[Main] \in {"none", "boot"}
    /\ phase = "boot" => kind[Main] = "boot"
Phases == \A t \in All : Busy(t) => phase = IF t = Main THEN "refill" ELSE "run"
Left == \A t \in All : Program(prog[t], kind[t])

\* Who holds the mutex is where it wants to write or read, or was overtaken
\* by an erase.
Held ==
    lock # Nobody =>
        /\ Busy(lock) /\ Next1(lock).op \in {"put", "take"}
        /\ pos = Place(Next1(lock)) \/ kind[lock] \in raced

Typed ==
    /\ header \in {"none", "other", "ours"} /\ headPos \in {"start", "past"}
    /\ marks \subseteq Marks
    /\ data \in [Cells -> Values] /\ flag \subseteq FlagCells
    /\ lock \in All \cup {Nobody} /\ phase \in {"down", "boot", "refill", "run"}
    /\ DOMAIN prog = All
    /\ kind \in [All -> {"none", "save", "read", "recovery", "boot"}]
    /\ result \in [All -> (Cells \X Values) \cup {NoResult}]
    /\ dbOpen \in BOOLEAN /\ filled \in BOOLEAN
    /\ raced \subseteq {"save", "read", "recovery"}
    /\ jobs \in 0..MaxJobs /\ crashes \in 0..MaxCrash
    /\ prog = [t \in All |-> prog[t]]

Base == Typed /\ Kinds /\ Phases /\ Left /\ Held

LEMMA BaseTypes == Base => TypeOK
PROOF
<1> SUFFICES ASSUME Base
             PROVE  TypeOK
  OBVIOUS
<1>1. \A t \in All : prog[t] \in Seq(Accesses)
  <2> SUFFICES ASSUME NEW t \in All
               PROVE  prog[t] \in Seq(Accesses)
    OBVIOUS
  <2>1. prog[t] \in Seq(OpsNow(kind[t]))
    BY DEF Base, Left, Program
  <2>2. OpsNow(kind[t]) \subseteq Accesses
    BY OpsAreAccesses DEF OpsNow
  <2> QED BY <2>1, <2>2
<1> QED BY <1>1 DEF Base, Typed, TypeOK

\* The calls whose steps an erase of t overtakes.
LEMMA OthersTyped ==
  ASSUME Base, NEW t \in All, Busy(t)
  PROVE  /\ Others(t) \subseteq {"save", "read", "recovery"}
         /\ \A u \in All \ {t} : Busy(u) => kind[u] \in Others(t) /\ t # Main /\ u # Main
PROOF
<1>1. ASSUME NEW u \in All \ {t}, Busy(u)
      PROVE  t # Main /\ u # Main /\ kind[u] \in {"save", "read", "recovery"}
  <2>1. t # Main /\ u # Main
    BY <1>1 DEF Base, Phases
  <2>2. kind[u] # "none"
    <3>1. prog[u] \in Seq(OpsNow(kind[u]))
      BY DEF Base, Left, Program
    <3>2. OpsNow("none") = {}
      BY DEF OpsNow, Ops
    <3>3. Head(prog[u]) \in OpsNow(kind[u])
      BY <1>1, <3>1, HeadTailProperties DEF Busy
    <3> QED BY <3>2, <3>3
  <2> QED BY <1>1, <2>1, <2>2 DEF Base, Kinds, All
<1> QED BY <1>1 DEF Others

LEMMA OpKinds ==
  ASSUME NEW k, NEW o \in Ops(k)
  PROVE  /\ o.op \in {"put", "take", "do"}
         /\ o.op = "put" => o \in DataPuts \cup FlagPuts \cup MarkPuts
         /\ o.op = "put" => k \in {"save", "recovery", "boot"}
         /\ o.op = "take" => o \in DataTakes \cup FlagTakes /\ k = "read"
         /\ o.op = "do" => o \in Dos /\ k \in {"recovery", "boot"}
         /\ o \in MarkPuts => k \in {"recovery", "boot"}
PROOF
<1>1. CASE k = "save"
  BY <1>1, Fields DEF Ops
<1>2. CASE k = "read"
  BY <1>2, Fields DEF Ops
<1>3. CASE k \in {"recovery", "boot"}
  BY <1>3, Fields DEF Ops
<1> QED BY <1>1, <1>2, <1>3 DEF Ops

LEMMA RecoveryLeft ==
  ASSUME dbOpen \in BOOLEAN, NEW k \in {"recovery", "boot"}
  PROVE  Program(SSMRecovery, k)
PROOF
<1>1. /\ SSMRecovery \in Seq(OpsNow("recovery")) /\ Chain(SSMRecovery) /\ MarksLast(SSMRecovery)
  BY RecoveryProgram
<1>2. OpsNow("recovery") = OpsNow(k)
  BY DEF OpsNow, Ops
<1>3. TakeChain(SSMRecovery)
  <2>1. \A i \in 1..Len(SSMRecovery) : SSMRecovery[i] \in Ops("recovery")
    BY <1>1 DEF OpsNow
  <2>2. \A o \in Ops("recovery") : o \notin DataTakes
    BY OpKinds, Fields
  <2> HIDE DEF SSMRecovery
  <2> QED BY <1>1, <2>1, <2>2 DEF TakeChain
<1> QED BY <1>1, <1>2, <1>3 DEF Program

\* One access done: the rest of the program is one.
LEMMA RestKeeps ==
  ASSUME Base, NEW t \in All, Busy(t), Rest(t), UNCHANGED <<kind, phase, dbOpen>>
  PROVE  /\ Kinds' /\ Phases' /\ Left' /\ DOMAIN prog' = All /\ prog' = [u \in All |-> prog'[u]]
         /\ prog'[t] = Tail(prog[t]) /\ \A u \in All \ {t} : prog'[u] = prog[u]
PROOF
<1>1. /\ prog' = [prog EXCEPT ![t] = Tail(prog[t])] /\ DOMAIN prog = All
      /\ prog = [u \in All |-> prog[u]] /\ dbOpen \in BOOLEAN
  BY DEF Rest, Base, Typed
<1>2. /\ prog'[t] = Tail(prog[t]) /\ \A u \in All \ {t} : prog'[u] = prog[u]
      /\ DOMAIN prog' = All /\ prog' = [u \in All |-> prog'[u]]
  BY <1>1
<1>3. Program(Tail(prog[t]), kind[t])
  BY <1>1, ProgramTail DEF Base, Left, Busy
<1>4. \A u \in All : Program(prog'[u], kind[u])
  BY <1>2, <1>3, ZenonT(40) DEF Base, Left
<1>5. Left'
  BY <1>4, ProgramStable DEF Left
<1>6. Kinds'
  BY DEF Base, Kinds
<1>7. Phases'
  <2>1. \A u \in All : Busy(u)' => Busy(u)
    BY <1>2 DEF Busy
  <2> QED BY <2>1 DEF Base, Phases
<1> QED BY <1>2, <1>5, <1>6, <1>7

\* A thread about to make an access that is none of ssm_data's does not hold
\* the mutex.
LEMMA ErasesUnlocked ==
  ASSUME Base, NEW t \in All, Next1(t).op = "do", lock # Nobody
  PROVE  lock \in All \ {t} /\ Busy(lock)
PROOF
  BY DEF Base, Held, Typed

LEMMA BaseSeek ==
  ASSUME Base, NEW t \in All, Seek(t)
  PROVE  Base'
PROOF
<1>1. /\ Busy(t) /\ Next1(t).op \in {"put", "take"} /\ lock' = t /\ pos' = Place(Next1(t))
      /\ UNCHANGED <<header, headPos, marks, data, flag, filled, prog, kind, result,
                     phase, dbOpen, raced,
                     jobs, crashes>>
  BY DEF Seek, store
<1>2. Typed'
  BY <1>1 DEF Base, Typed
<1>3. Kinds' /\ Phases'
  BY <1>1 DEF Base, Kinds, Phases, Busy
<1>4. Left'
  BY <1>1, ProgramStable DEF Base, Left
<1>5. Held'
  BY <1>1 DEF Held, Busy, Next1
<1> QED BY <1>2, <1>3, <1>4, <1>5 DEF Base

LEMMA BaseWrite ==
  ASSUME Base, NEW t \in All, Write(t)
  PROVE  Base'
PROOF
<1> DEFINE o == Next1(t)
           hit == pos = Place(o)
<1>1. /\ Busy(t) /\ o.op = "put" /\ lock' = Nobody /\ Rest(t)
      /\ data' = IF hit /\ o.what = "data" THEN [data EXCEPT ![o.at] = o.v] ELSE data
      /\ flag' = IF hit /\ o.what = "flag" THEN flag \cup {o.at} ELSE flag
      /\ marks' = IF hit /\ o.what = "mark" THEN marks \cup {o.at} ELSE marks
      /\ UNCHANGED <<header, headPos, pos, kind, result, phase, dbOpen, filled, raced,
                     jobs, crashes>>
  BY DEF Write, Unlock
<1>2. o \in Ops(kind[t])
  BY <1>1, HeadOp DEF Base, Left, Busy, Next1
<1>3. o \in DataPuts \cup FlagPuts \cup MarkPuts
  BY <1>1, <1>2, OpKinds
<1> HIDE DEF o, hit
<1>4. data' \in [Cells -> Values] /\ flag' \subseteq FlagCells /\ marks' \subseteq Marks
  <2>1. CASE o \in DataPuts
    <3>1. o.what = "data" /\ o.at \in Cells /\ o.v \in Values
      BY <2>1, Fields DEF Set, Values
    <3> QED BY <1>1, <3>1 DEF Base, Typed
  <2>2. CASE o \in FlagPuts
    <3>1. o.what = "flag" /\ o.at \in FlagCells
      BY <2>2, Fields
    <3> QED BY <1>1, <3>1 DEF Base, Typed
  <2>3. CASE o \in MarkPuts
    <3>1. o.what = "mark" /\ o.at \in Marks
      BY <2>3, Fields
    <3> QED BY <1>1, <3>1 DEF Base, Typed
  <2> QED BY <1>3, <2>1, <2>2, <2>3
<1>5. Kinds' /\ Phases' /\ Left' /\ DOMAIN prog' = All /\ prog' = [u \in All |-> prog'[u]]
  BY <1>1, RestKeeps
<1>6. Typed'
  BY <1>1, <1>4, <1>5 DEF Base, Typed
<1>7. Held'
  BY <1>1 DEF Held
<1> QED BY <1>5, <1>6, <1>7 DEF Base

LEMMA BaseRead ==
  ASSUME Base, NEW t \in All, ReadAccess(t)
  PROVE  Base'
PROOF
<1> DEFINE o == Next1(t)
           hit == pos = Place(o)
<1>1. /\ Busy(t) /\ o.op = "take" /\ lock' = Nobody
      /\ UNCHANGED <<header, headPos, marks, data, flag, filled, pos, kind, phase,
                     dbOpen, raced, jobs,
                     crashes>>
      /\ \/ Rest(t) /\ UNCHANGED result
         \/ prog' = [prog EXCEPT ![t] = <<>>] /\ result' = [result EXCEPT ![t] = NoResult]
         \/ /\ Rest(t) /\ o.what # "flag"
            /\ result' = [result EXCEPT ![t] = <<o.at, IF hit THEN data[o.at] ELSE "hole">>]
  BY DEF ReadAccess, Unlock, store
<1>2. o \in DataTakes \cup FlagTakes
  <2>1. o \in Ops(kind[t])
    BY <1>1, HeadOp DEF Base, Left, Busy, Next1
  <2> QED BY <1>1, <2>1, OpKinds
<1> HIDE DEF o, hit
<1>3. Kinds' /\ Phases' /\ Left' /\ DOMAIN prog' = All /\ prog' = [u \in All |-> prog'[u]]
  <2>1. CASE Rest(t)
    BY <1>1, <2>1, RestKeeps
  <2>2. CASE prog' = [prog EXCEPT ![t] = <<>>]
    <3>1. /\ prog'[t] = <<>> /\ \A u \in All \ {t} : prog'[u] = prog[u]
          /\ DOMAIN prog' = All /\ prog' = [u \in All |-> prog'[u]]
      BY <2>2 DEF Base, Typed
    <3>2. \A u \in All : Program(prog'[u], kind[u])
      BY <3>1, ProgramEmpty DEF Base, Left
    <3>3. Left'
      BY <1>1, <3>2, ProgramStable DEF Left
    <3>4. Kinds'
      BY <1>1 DEF Base, Kinds
    <3>5. Phases'
      BY <1>1, <3>1 DEF Base, Phases, Busy
    <3> QED BY <3>1, <3>3, <3>4, <3>5
  <2> QED BY <1>1, <2>1, <2>2
<1>4. result' \in [All -> (Cells \X Values) \cup {NoResult}]
  <2>1. result \in [All -> (Cells \X Values) \cup {NoResult}]
    BY DEF Base, Typed
  <2>2. CASE UNCHANGED result \/ result' = [result EXCEPT ![t] = NoResult]
    BY <2>1, <2>2
  <2>3. CASE /\ o.what # "flag"
             /\ result' = [result EXCEPT ![t] = <<o.at, IF hit THEN data[o.at] ELSE "hole">>]
    <3>1. o.at \in Cells
      BY <1>2, <2>3, Fields
    <3>2. (IF hit THEN data[o.at] ELSE "hole") \in Values
      BY <3>1 DEF Base, Typed, Values
    <3> QED BY <2>1, <2>3, <3>1, <3>2
  <2> QED BY <1>1, <2>2, <2>3
<1>5. Typed'
  BY <1>1, <1>3, <1>4 DEF Base, Typed
<1>6. Held'
  BY <1>1 DEF Held
<1> QED BY <1>3, <1>5, <1>6 DEF Base

LEMMA BaseTruncate ==
  ASSUME Base, NEW t \in All, Truncate(t)
  PROVE  Base'
PROOF
<1>1. /\ Busy(t) /\ Next1(t).op = "do" /\ Rest(t)
      /\ data' = [c \in Cells |-> "hole"] /\ flag' = {} /\ marks' = {}
      /\ filled' = dbOpen /\ raced' = Others(t)
      /\ UNCHANGED <<header, headPos, pos, lock, kind, result, phase, dbOpen, jobs, crashes>>
  BY DEF Truncate, Do
<1>2. /\ Kinds' /\ Phases' /\ Left' /\ DOMAIN prog' = All /\ prog' = [u \in All |-> prog'[u]]
      /\ \A u \in All \ {t} : prog'[u] = prog[u]
  BY <1>1, RestKeeps
<1>3. /\ Others(t) \subseteq {"save", "read", "recovery"}
      /\ \A u \in All \ {t} : Busy(u) => kind[u] \in Others(t)
  BY <1>1, OthersTyped
<1>4. Typed'
  BY <1>1, <1>2, <1>3 DEF Base, Typed, Values
<1>5. Held'
  <2> SUFFICES ASSUME lock # Nobody
               PROVE  Busy(lock)' /\ Next1(lock)'.op \in {"put", "take"} /\ kind[lock] \in raced'
    BY <1>1 DEF Held
  <2>1. lock \in All \ {t} /\ Busy(lock) /\ Next1(lock).op \in {"put", "take"}
    BY <1>1, ErasesUnlocked DEF Base, Held
  <2> QED BY <1>1, <1>2, <1>3, <2>1 DEF Busy, Next1
<1> QED BY <1>2, <1>4, <1>5 DEF Base

LEMMA BaseRewind ==
  ASSUME Base, NEW t \in All, Rewind(t)
  PROVE  Base'
PROOF
<1>1. /\ Busy(t) /\ Next1(t).op = "do" /\ Rest(t) /\ raced' = raced \cup Others(t)
      /\ UNCHANGED <<header, headPos, marks, data, flag, filled, lock, kind, result,
                     phase, dbOpen, jobs,
                     crashes>>
  BY DEF Rewind, Do, store
<1>2. /\ Kinds' /\ Phases' /\ Left' /\ DOMAIN prog' = All /\ prog' = [u \in All |-> prog'[u]]
      /\ \A u \in All \ {t} : prog'[u] = prog[u]
  BY <1>1, RestKeeps
<1>3. /\ Others(t) \subseteq {"save", "read", "recovery"}
      /\ \A u \in All \ {t} : Busy(u) => kind[u] \in Others(t)
  BY <1>1, OthersTyped
<1>4. Typed'
  BY <1>1, <1>2, <1>3 DEF Base, Typed
<1>5. Held'
  <2> SUFFICES ASSUME lock # Nobody
               PROVE  Busy(lock)' /\ Next1(lock)'.op \in {"put", "take"} /\ kind[lock] \in raced'
    BY <1>1 DEF Held
  <2>1. lock \in All \ {t} /\ Busy(lock) /\ Next1(lock).op \in {"put", "take"}
    BY <1>1, ErasesUnlocked DEF Base, Held
  <2> QED BY <1>1, <1>2, <1>3, <2>1 DEF Busy, Next1
<1> QED BY <1>2, <1>4, <1>5 DEF Base

LEMMA BaseHeader ==
  ASSUME Base, NEW t \in All, WriteHeader(t)
  PROVE  Base'
PROOF
<1>1. /\ Busy(t) /\ Next1(t).op = "do" /\ Rest(t)
      /\ header' \in {header, "none", "ours"} /\ headPos' \in {headPos, "start", "past"}
      /\ UNCHANGED <<marks, data, flag, pos, lock, kind, result, phase, dbOpen, filled, raced,
                     jobs, crashes>>
  BY DEF WriteHeader, Do
<1>2. /\ Kinds' /\ Phases' /\ Left' /\ DOMAIN prog' = All /\ prog' = [u \in All |-> prog'[u]]
      /\ \A u \in All \ {t} : prog'[u] = prog[u]
  BY <1>1, RestKeeps
<1>3. Typed'
  BY <1>1, <1>2 DEF Base, Typed
<1>4. Held'
  <2> SUFFICES ASSUME lock # Nobody
               PROVE  /\ Busy(lock)' /\ Next1(lock)'.op \in {"put", "take"}
                      /\ pos = Place(Next1(lock)') \/ kind[lock] \in raced
    BY <1>1 DEF Held, Place
  <2>1. /\ lock \in All \ {t} /\ Busy(lock) /\ Next1(lock).op \in {"put", "take"}
        /\ pos = Place(Next1(lock)) \/ kind[lock] \in raced
    BY <1>1, ErasesUnlocked DEF Base, Held
  <2>2. prog'[lock] = prog[lock] /\ lock' = lock
    BY <1>1, <1>2, <2>1
  <2>3. Busy(lock)' /\ Next1(lock)' = Next1(lock)
    BY <2>1, <2>2 DEF Busy, Next1
  <2> QED BY <2>1, <2>3
<1> QED BY <1>2, <1>3, <1>4 DEF Base

\* A call begins: its program is whole and its thread does not hold the mutex.
LEMMA BaseServe ==
  ASSUME Base, NEW t \in Threads, NEW k \in {"save", "read", "recovery"}, NEW p,
         Serve(t, k, p), Program(p, k)
  PROVE  Base'
PROOF
<1>1. /\ phase = "run" /\ ~Busy(t) /\ jobs < MaxJobs
      /\ prog' = [prog EXCEPT ![t] = p] /\ kind' = [kind EXCEPT ![t] = k]
      /\ result' = [result EXCEPT ![t] = NoResult] /\ jobs' = jobs + 1
      /\ UNCHANGED <<header, headPos, marks, data, flag, filled, pos, lock, phase,
                     dbOpen, raced, crashes>>
  BY DEF Serve, store
<1>2. t \in All /\ t # Main
  BY StoreAssumption DEF All
<1>3. /\ prog'[t] = p /\ \A u \in All \ {t} : prog'[u] = prog[u]
      /\ DOMAIN prog' = All /\ prog' = [u \in All |-> prog'[u]]
      /\ kind'[t] = k /\ \A u \in All \ {t} : kind'[u] = kind[u]
  BY <1>1, <1>2 DEF Base, Typed
<1>4. Typed'
  <2>1. jobs' \in 0..MaxJobs
    BY <1>1, StoreAssumption DEF Base, Typed
  <2> QED BY <1>1, <1>2, <1>3, <2>1 DEF Base, Typed
<1>5. Kinds'
  BY <1>1, <1>2, <1>3, StoreAssumption DEF Base, Kinds, All
<1>6. Phases'
  BY <1>1, <1>2, <1>3 DEF Base, Phases, Busy
<1>7. Left'
  <2>1. \A u \in All : Program(prog'[u], kind'[u])
    BY <1>3 DEF Base, Left
  <2> QED BY <1>1, <2>1, ProgramStable DEF Left
<1>8. Held'
  <2> SUFFICES ASSUME lock # Nobody
               PROVE  /\ Busy(lock)' /\ Next1(lock)'.op \in {"put", "take"}
                      /\ pos = Place(Next1(lock)') \/ kind'[lock] \in raced
    BY <1>1 DEF Held, Place
  <2>1. /\ lock \in All \ {t} /\ Busy(lock) /\ Next1(lock).op \in {"put", "take"}
        /\ pos = Place(Next1(lock)) \/ kind[lock] \in raced
    BY <1>1 DEF Base, Held, Typed
  <2>2. prog'[lock] = prog[lock] /\ kind'[lock] = kind[lock] /\ lock' = lock
    BY <1>1, <1>3, <2>1
  <2>3. Busy(lock)' /\ Next1(lock)' = Next1(lock)
    BY <2>1, <2>2 DEF Busy, Next1
  <2> QED BY <2>1, <2>2, <2>3
<1> QED BY <1>4, <1>5, <1>6, <1>7, <1>8 DEF Base

LEMMA BaseCall ==
  ASSUME Base, NEW t \in Threads, SaveCall(t) \/ ReadCall(t) \/ RecoveryCall(t)
  PROVE  Base'
PROOF
<1>1. CASE SaveCall(t)
  <2>1. PICK c \in Cells : Serve(t, "save", Save(c, "user"))
    BY <1>1 DEF SaveCall
  <2> DEFINE p == Save(c, "user")
  <2>2. p \in Seq(OpsNow("save")) /\ Chain(p)
    BY SaveProgram
  <2>3. Serve(t, "save", p)
    BY <2>1
  <2> HIDE DEF p
  <2>4. \A i \in 1..Len(p) : p[i] \in Ops("save")
    BY <2>2 DEF OpsNow
  <2>5. \A o \in Ops("save") : o \notin DataTakes /\ o \notin MarkPuts
    BY OpKinds, Fields
  <2>6. TakeChain(p) /\ MarksLast(p)
    BY <2>2, <2>4, <2>5 DEF TakeChain, MarksLast
  <2>7. Program(p, "save")
    BY <2>2, <2>6 DEF Program
  <2> QED BY <2>3, <2>7, BaseServe
<1>2. CASE ReadCall(t)
  <2>1. PICK c \in Cells : Serve(t, "read", Read(c))
    BY <1>2 DEF ReadCall
  <2> DEFINE p == Read(c)
  <2>2. p \in Seq(OpsNow("read")) /\ TakeChain(p)
    BY ReadProgram
  <2>3. Serve(t, "read", p)
    BY <2>1
  <2> HIDE DEF p
  <2>4. \A i \in 1..Len(p) : p[i] \in Ops("read")
    BY <2>2 DEF OpsNow
  <2>5. \A o \in Ops("read") : o \notin FlagPuts /\ o \notin MarkPuts
    BY OpKinds, Fields
  <2>6. Chain(p) /\ MarksLast(p)
    BY <2>2, <2>4, <2>5 DEF Chain, MarksLast
  <2>7. Program(p, "read")
    BY <2>2, <2>6 DEF Program
  <2> QED BY <2>3, <2>7, BaseServe
<1>3. CASE RecoveryCall(t)
  <2>1. Program(SSMRecovery, "recovery")
    BY RecoveryLeft DEF Base, Typed
  <2>2. Serve(t, "recovery", SSMRecovery)
    BY <1>3 DEF RecoveryCall
  <2> QED BY <2>1, <2>2, BaseServe
<1> QED BY <1>1, <1>2, <1>3

\* While the service is down nobody has anything left to do.
LEMMA BaseBoot ==
  ASSUME Base, Boot
  PROVE  Base'
PROOF
<1>1. /\ phase = "down" /\ phase' = "boot" /\ dbOpen' \in BOOLEAN
      /\ kind' = [kind EXCEPT ![Main] = "boot"]
      /\ UNCHANGED <<header, headPos, marks, data, flag, filled, pos, lock, prog,
                     result, raced, jobs,
                     crashes>>
  BY DEF Boot, store
<1>2. /\ \A t \in All : ~Busy(t)
      /\ lock = Nobody
  <2>1. \A t \in All : ~Busy(t)
    BY <1>1 DEF Base, Phases
  <2> QED BY <2>1 DEF Base, Held, Typed
<1>3. Typed'
  BY <1>1 DEF Base, Typed
<1>4. Main \in All /\ \A t \in Threads : t # Main /\ t \in All
  BY StoreAssumption DEF All
<1>5. Kinds'
  BY <1>1, <1>4 DEF Base, Kinds, Typed
<1>6. Phases'
  BY <1>1, <1>2 DEF Phases, Busy
<1>7. Left'
  <2>1. \A t \in All : prog'[t] = <<>>
    BY <1>1, <1>2 DEF Busy
  <2>2. \A k : Program(<<>>, k)'
    BY EmptySeq DEF Program, Chain, TakeChain, MarksLast
  <2> QED BY <2>1, <2>2 DEF Left
<1>8. Held'
  BY <1>1, <1>2 DEF Held
<1> QED BY <1>3, <1>5, <1>6, <1>7, <1>8 DEF Base

LEMMA BaseInit ==
  ASSUME Base, init
  PROVE  Base'
PROOF
<1>1. /\ phase = "boot" /\ phase' \in {"run", "refill"}
      /\ \/ phase' = "run" /\ UNCHANGED prog
         \/ phase' = "refill" /\ prog' = [prog EXCEPT ![Main] = SSMRecovery]
      /\ UNCHANGED <<header, headPos, marks, data, flag, filled, pos, lock, kind,
                     result, dbOpen, raced,
                     jobs, crashes>>
  BY DEF init, store
<1>2. (\A t \in All : ~Busy(t)) /\ lock = Nobody /\ Main \in All
  <2>1. \A t \in All : ~Busy(t)
    BY <1>1 DEF Base, Phases
  <2> QED BY <2>1 DEF Base, Held, Typed, All
<1>3. /\ DOMAIN prog' = All /\ prog' = [t \in All |-> prog'[t]]
      /\ \A t \in All \ {Main} : prog'[t] = prog[t]
      /\ \/ prog'[Main] = prog[Main]
         \/ prog'[Main] = SSMRecovery /\ phase' = "refill"
  <2>1. DOMAIN prog = All /\ prog = [t \in All |-> prog[t]]
    BY DEF Base, Typed
  <2> DEFINE p == SSMRecovery
  <2>2. \/ prog' = prog
        \/ phase' = "refill" /\ prog' = [prog EXCEPT ![Main] = p]
    BY <1>1
  <2> HIDE DEF p
  <2>3. CASE prog' = prog
    BY <2>1, <2>3
  <2>4. CASE phase' = "refill" /\ prog' = [prog EXCEPT ![Main] = p]
    BY <1>2, <2>1, <2>4 DEF p
  <2> QED BY <2>2, <2>3, <2>4
<1>4. Typed'
  BY <1>1, <1>3 DEF Base, Typed
<1>5. Kinds'
  BY <1>1 DEF Base, Kinds
<1>6. Phases'
  BY <1>1, <1>2, <1>3 DEF Phases, Busy
<1>7. Left'
  <2>1. kind[Main] = "boot"
    BY <1>1 DEF Base, Kinds
  <2>2. Program(SSMRecovery, "boot")
    BY RecoveryLeft DEF Base, Typed
  <2>3. \A t \in All : Program(prog'[t], kind[t])
    BY <1>3, <2>1, <2>2 DEF Base, Left
  <2> QED BY <1>1, <2>3, ProgramStable DEF Left
<1>8. Held'
  BY <1>1, <1>2 DEF Held
<1> QED BY <1>4, <1>5, <1>6, <1>7, <1>8 DEF Base

LEMMA BaseRefilled ==
  ASSUME Base, Refilled
  PROVE  Base'
PROOF
<1>1. /\ phase = "refill" /\ ~Busy(Main) /\ phase' = "run"
      /\ UNCHANGED <<header, headPos, marks, data, flag, filled, pos, lock, prog, kind,
                     result, dbOpen,
                     raced, jobs, crashes>>
  BY DEF Refilled, store
<1>2. \A t \in All : ~Busy(t)
  BY <1>1 DEF Base, Phases
<1>3. Typed' /\ Kinds'
  BY <1>1 DEF Base, Typed, Kinds
<1>4. Phases'
  BY <1>1, <1>2 DEF Phases, Busy
<1>5. Left'
  BY <1>1, ProgramStable DEF Base, Left
<1>6. Held'
  BY <1>1, <1>2 DEF Base, Held, Typed, Busy
<1> QED BY <1>3, <1>4, <1>5, <1>6 DEF Base

LEMMA BaseCrash ==
  ASSUME Base, Crash
  PROVE  Base'
PROOF
<1>1. /\ crashes < MaxCrash /\ crashes' = crashes + 1 /\ phase' = "down" /\ lock' = Nobody
      /\ prog' = [t \in All |-> <<>>] /\ kind' = [t \in All |-> "none"]
      /\ result' = [t \in All |-> NoResult] /\ raced' = raced \ {"read"} /\ headPos' = "start"
      /\ UNCHANGED <<header, marks, data, flag, filled, dbOpen, jobs>>
  BY DEF Crash
<1>2. Typed'
  <2>1. crashes' \in 0..MaxCrash
    BY <1>1, StoreAssumption DEF Base, Typed
  <2> QED BY <1>1, <2>1 DEF Base, Typed
<1>3. Kinds' /\ Phases'
  BY <1>1, StoreAssumption DEF Kinds, Phases, Busy, All
<1>4. Left'
  <2>1. \A t \in All : Program(prog'[t], kind'[t])
    BY <1>1, ProgramEmpty
  <2> QED BY <1>1, <2>1, ProgramStable DEF Left
<1>5. Held'
  BY <1>1 DEF Held
<1> QED BY <1>2, <1>3, <1>4, <1>5 DEF Base

LEMMA BaseInitially == Init => Base
PROOF
<1> SUFFICES ASSUME Init
             PROVE  Base
  OBVIOUS
<1>1. /\ header \in {"none", "other", "ours"} /\ headPos \in {"start", "past"}
      /\ marks \subseteq Marks
      /\ data \in [Cells -> Values] /\ flag \subseteq FlagCells
  BY StoreAssumption DEF Init, Values, FlagCells
<1>2. /\ lock = Nobody /\ phase = "down" /\ dbOpen = TRUE /\ filled = TRUE /\ raced = {}
      /\ prog = [t \in All |-> <<>>] /\ kind = [t \in All |-> "none"]
      /\ result = [t \in All |-> NoResult] /\ jobs = 0 /\ crashes = 0
  BY DEF Init
<1>3. Typed
  BY <1>1, <1>2, StoreAssumption DEF Typed
<1>4. Kinds /\ Phases
  BY <1>2, StoreAssumption DEF Kinds, Phases, Busy, All
<1>5. Left
  BY <1>2, ProgramEmpty DEF Left
<1>6. Held
  BY <1>2 DEF Held
<1> QED BY <1>3, <1>4, <1>5, <1>6 DEF Base

LEMMA BaseStep ==
  ASSUME Base, Next
  PROVE  Base'
PROOF
<1>1. CASE Boot
  BY <1>1, BaseBoot
<1>2. CASE init
  BY <1>2, BaseInit
<1>3. CASE Refilled
  BY <1>3, BaseRefilled
<1>4. CASE Crash
  BY <1>4, BaseCrash
<1>5. CASE \E t \in Threads : SaveCall(t) \/ ReadCall(t) \/ RecoveryCall(t)
  BY <1>5, BaseCall
<1>6. CASE \E t \in All : Step(t)
  BY <1>6, BaseSeek, BaseWrite, BaseRead, BaseTruncate, BaseRewind, BaseHeader DEF Step
<1> QED BY <1>1, <1>2, <1>3, <1>4, <1>5, <1>6 DEF Next

LEMMA BaseStutter ==
  ASSUME Base, UNCHANGED vars
  PROVE  Base'
PROOF
<1>1. UNCHANGED <<header, headPos, marks, data, flag, pos, lock, prog, kind, result, phase, dbOpen, filled,
                  raced, jobs, crashes>>
  BY DEF vars
<1>2. Left'
  BY <1>1, ProgramStable DEF Base, Left
<1> QED BY <1>1, <1>2 DEF Base, Typed, Kinds, Phases, Busy, Held, Next1

LEMMA BaseAlways == Spec => []Base
PROOF
<1>1. Base /\ [Next]_vars => Base'
  BY BaseStep, BaseStutter
<1> QED BY BaseInitially, <1>1, PTL DEF Spec

\* Types, of the files, of the offset and of what every thread has left.
THEOREM TypesHold == Spec => []TypeOK
PROOF
  BY BaseAlways, BaseTypes, PTL

-----------------------------------------------------------------------------
(* The second invariant: what a flag is worth.                             *)

\* No save and no other recovery overlapped the last erase.
Whole == raced \cap {"save", "recovery"} = {}
Next1In(t, S) == Busy(t) /\ Next1(t) \in S

FlagsBacked == \A c \in flag : data[c] # "hole"
FlagsToCome == \A t \in All : Next1In(t, FlagPuts) => data[Next1(t).at] # "hole"

\* A reader that has seen the flag finds the data.
ReadsBacked ==
    \A t \in All : Next1In(t, DataTakes) /\ Next1(t).at \in FlagCells => data[Next1(t).at] # "hole"

Flags == (Whole => FlagsBacked /\ FlagsToCome) /\ (raced = {} => ReadsBacked)

\* The access a thread comes to after one of its accesses.
LEMMA Second ==
  ASSUME Base, NEW t \in All, Busy(t), Rest(t), Busy(t)'
  PROVE  /\ Next1(t)' = prog[t][2] /\ 2 \in 2..Len(prog[t]) /\ Next1(t) = prog[t][1]
         /\ Next1(t)' \in FlagPuts =>
                Next1(t) \in DataPuts /\ Next1(t).at = Next1(t)'.at
         /\ Next1(t)' \in DataTakes /\ Next1(t)'.at \in FlagCells =>
                Next1(t) = Take("flag", Next1(t)'.at)
PROOF
<1> DEFINE p == prog[t]
<1>1. p \in Seq(OpsNow(kind[t])) /\ p # <<>> /\ Chain(p) /\ TakeChain(p)
  BY DEF Base, Left, Program, Busy
<1>2. prog'[t] = Tail(p)
  BY DEF Rest, Base, Typed
<1>3. Tail(p) # <<>> /\ Next1(t)' = Head(Tail(p)) /\ Next1(t) = Head(p)
  BY <1>2 DEF Busy, Next1
<1> HIDE DEF p
<1>4. /\ Head(p) = p[1] /\ Len(p) \in Nat /\ Len(Tail(p)) = Len(p) - 1 /\ Tail(p) \in Seq(OpsNow(kind[t]))
      /\ \A i \in 1..(Len(p) - 1) : Tail(p)[i] = p[i + 1]
  BY <1>1, HeadTailProperties
<1>5. Head(Tail(p)) = Tail(p)[1] /\ Len(Tail(p)) # 0
  BY <1>3, <1>4, EmptySeq, HeadTailProperties
<1>6. Head(Tail(p)) = p[2] /\ 2 \in 2..Len(p) /\ 2 - 1 = 1
  BY <1>4, <1>5
<1>7. /\ p[2] \in FlagPuts => p[1] \in DataPuts /\ p[1].at = p[2].at
      /\ p[2] \in DataTakes /\ p[2].at \in FlagCells => p[1] = Take("flag", p[2].at)
  BY <1>1, <1>6 DEF Chain, TakeChain
<1>8. Next1(t)' = p[2] /\ Next1(t) = p[1]
  BY <1>3, <1>4, <1>6
<1> QED BY <1>6, <1>7, <1>8 DEF p

\* Nothing happens to the programs of the other threads.
LEMMA OthersStay ==
  ASSUME NEW t, NEW u, prog'[u] = prog[u]
  PROVE  Busy(u)' = Busy(u) /\ Next1(u)' = Next1(u) /\ \A S : Next1In(u, S)' => Next1In(u, S')
PROOF
  BY DEF Busy, Next1, Next1In

\* What a busy thread's next access is, by the call it serves.
LEMMA NextKind ==
  ASSUME Base, NEW t \in All, Busy(t)
  PROVE  Next1(t) \in OpsNow(kind[t]) /\ Next1(t) \in Ops(kind[t])
PROOF
  BY HeadOp DEF Base, Left, Busy, Next1

\* A write of a call no erase overtook reaches its place.
LEMMA Hits ==
  ASSUME Base, NEW t \in All, lock = t, kind[t] \notin raced
  PROVE  pos = Place(Next1(t))
PROOF
<1>1. lock # Nobody
  BY StoreAssumption DEF All
<1> QED BY <1>1 DEF Base, Held

LEMMA FlagsSame ==
  ASSUME Base, Flags, UNCHANGED <<data, flag, raced>>,
         \A t \in All : prog'[t] = prog[t] \/ prog'[t] = <<>>
  PROVE  Flags'
PROOF
<1>1. \A t \in All : Busy(t)' => Busy(t) /\ Next1(t)' = Next1(t)
  BY DEF Busy, Next1
<1> QED BY <1>1 DEF Flags, Whole, FlagsBacked, FlagsToCome, ReadsBacked, Next1In, FlagPuts, DataTakes

LEMMA FlagsWrite ==
  ASSUME Base, Flags, NEW t \in All, Write(t)
  PROVE  Flags'
PROOF
<1> DEFINE o == Next1(t)
           hit == pos = Place(o)
<1>1. /\ Busy(t) /\ o.op = "put" /\ lock = t /\ Rest(t)
      /\ data' = IF hit /\ o.what = "data" THEN [data EXCEPT ![o.at] = o.v] ELSE data
      /\ flag' = IF hit /\ o.what = "flag" THEN flag \cup {o.at} ELSE flag
      /\ UNCHANGED <<kind, phase, dbOpen, raced>>
  BY DEF Write
<1>2. o \in DataPuts \cup FlagPuts \cup MarkPuts /\ kind[t] \in {"save", "recovery", "boot"}
  BY <1>1, NextKind, OpKinds
<1>3. Whole => hit
  BY <1>1, <1>2, Hits DEF Whole, Base, Typed
<1>4. \A u \in All \ {t} : prog'[u] = prog[u]
  BY <1>1, RestKeeps
<1> HIDE DEF o, hit
<1>5. \A c \in Cells : data[c] # "hole" => data'[c] # "hole"
  <2>1. o.what = "data" => o.at \in Cells /\ o.v \in Set
    BY <1>2, Fields
  <2> QED BY <1>1, <2>1 DEF Base, Typed, Set
<1>6. \A c \in FlagCells : c \in Cells
  BY DEF Cells
<1>7. ASSUME NEW u \in All \ {t}
      PROVE  Busy(u)' = Busy(u) /\ Next1(u)' = Next1(u)
  BY <1>4, <1>7 DEF Busy, Next1
<1>8. ASSUME Whole
      PROVE  FlagsBacked'
  <2>1. o.what = "flag" => o.at \in FlagCells /\ data[o.at] # "hole" /\ data' = data
    <3>1. ASSUME o.what = "flag"
          PROVE  o \in FlagPuts
      BY <1>2, <3>1, Fields
    <3>2. o.what = "flag" => Next1In(t, FlagPuts)
      BY <1>1, <3>1 DEF Next1In, o
    <3> QED BY <1>1, <1>8, <3>1, <3>2, Fields DEF Flags, FlagsToCome, o
  <2> QED BY <1>1, <1>5, <1>6, <1>8, <2>1 DEF Flags, FlagsBacked, Base, Typed
<1>9. ASSUME Whole
      PROVE  FlagsToCome'
  <2> SUFFICES ASSUME NEW u \in All, Busy(u)', Next1(u)' \in FlagPuts
               PROVE  data'[Next1(u)'.at] # "hole"
    BY DEF FlagsToCome, Next1In, FlagPuts, FlagCells
  <2>1. CASE u = t
    <3>1. o \in DataPuts /\ o.at = Next1(u)'.at
      BY <1>1, <2>1, Second DEF o
    <3> QED BY <1>1, <1>3, <1>9, <3>1, Fields DEF Base, Typed, Set
  <2>2. CASE u # t
    <3>1. Next1In(u, FlagPuts) /\ Next1(u)' = Next1(u) /\ Next1(u).at \in Cells
      BY <1>6, <1>7, <2>2, Fields DEF Next1In
    <3> QED BY <1>5, <1>9, <3>1 DEF Flags, FlagsToCome
  <2> QED BY <2>1, <2>2
<1>10. ASSUME raced = {}
       PROVE  ReadsBacked'
  <2> SUFFICES ASSUME NEW u \in All, Busy(u)', Next1(u)' \in DataTakes, Next1(u)'.at \in FlagCells
               PROVE  data'[Next1(u)'.at] # "hole"
    BY DEF ReadsBacked, Next1In, DataTakes, FlagCells, Cells
  <2>1. CASE u = t
    <3>1. o = Take("flag", Next1(u)'.at)
      BY <1>1, <2>1, Second DEF o
    <3> QED BY <1>1, <3>1 DEF Take
  <2>2. CASE u # t
    <3>1. Next1In(u, DataTakes) /\ Next1(u)' = Next1(u) /\ Next1(u).at \in Cells
      BY <1>6, <1>7, <2>2, Fields DEF Next1In
    <3> QED BY <1>5, <1>10, <3>1 DEF Flags, ReadsBacked
  <2> QED BY <2>1, <2>2
<1> QED BY <1>1, <1>8, <1>9, <1>10 DEF Flags, Whole

LEMMA FlagsRead ==
  ASSUME Base, Flags, NEW t \in All, ReadAccess(t)
  PROVE  Flags'
PROOF
<1>1. /\ Busy(t) /\ Next1(t).op = "take" /\ lock = t
      /\ UNCHANGED <<data, flag, kind, phase, dbOpen, raced>>
      /\ \/ prog' = [prog EXCEPT ![t] = <<>>]
         \/ Rest(t) /\ (Next1(t).what = "flag" => Next1(t).at \in flag)
  BY DEF ReadAccess, store
<1>2. CASE prog' = [prog EXCEPT ![t] = <<>>]
  <2>1. \A u \in All : prog'[u] = prog[u] \/ prog'[u] = <<>>
    BY <1>2 DEF Base, Typed
  <2> QED BY <1>1, <2>1, FlagsSame
<1>3. CASE Rest(t) /\ (Next1(t).what = "flag" => Next1(t).at \in flag)
  <2>1. \A u \in All \ {t} : Busy(u)' = Busy(u) /\ Next1(u)' = Next1(u)
    BY <1>1, <1>3, RestKeeps DEF Busy, Next1
  <2>2. Next1(t) \in DataTakes \cup FlagTakes
    BY <1>1, NextKind, OpKinds
  <2>3. ASSUME Whole
        PROVE  FlagsBacked'
    BY <1>1, <2>3 DEF Flags, FlagsBacked
  <2>4. ASSUME Whole
        PROVE  FlagsToCome'
    <3> SUFFICES ASSUME NEW u \in All, Busy(u)', Next1(u)' \in FlagPuts
                 PROVE  data[Next1(u)'.at] # "hole"
      BY <1>1 DEF FlagsToCome, Next1In, FlagPuts, FlagCells
    <3>1. u # t
      BY <1>1, <1>3, <2>2, Second, Fields
    <3> QED BY <2>1, <2>4, <3>1 DEF Flags, FlagsToCome, Next1In
  <2>5. ASSUME raced = {}
        PROVE  ReadsBacked'
    <3> SUFFICES ASSUME NEW u \in All, Busy(u)', Next1(u)' \in DataTakes,
                        Next1(u)'.at \in FlagCells
                 PROVE  data[Next1(u)'.at] # "hole"
      BY <1>1 DEF ReadsBacked, Next1In, DataTakes, FlagCells, Cells
    <3>1. CASE u = t
      <4>1. Next1(t) = Take("flag", Next1(u)'.at)
        BY <1>1, <1>3, <3>1, Second
      <4>2. Next1(u)'.at \in flag
        BY <1>3, <4>1 DEF Take
      <4> QED BY <2>5, <4>2 DEF Flags, Whole, FlagsBacked
    <3>2. CASE u # t
      BY <2>1, <2>5, <3>2 DEF Flags, ReadsBacked, Next1In
    <3> QED BY <3>1, <3>2
  <2> QED BY <1>1, <2>3, <2>4, <2>5 DEF Flags, Whole
<1> QED BY <1>1, <1>2, <1>3

\* The steps of a recovery that are no accesses of a slot.
LEMMA DoStep ==
  ASSUME Base, NEW t \in All, Busy(t), Rest(t), Next1(t).op = "do",
         UNCHANGED <<kind, phase, dbOpen>>
  PROVE  /\ \A u \in All \ {t} : Busy(u)' = Busy(u) /\ Next1(u)' = Next1(u)
         /\ Busy(t)' => Next1(t)' \notin FlagPuts /\ ~(Next1(t)' \in DataTakes /\ Next1(t)'.at \in FlagCells)
         /\ kind[t] \in {"recovery", "boot"}
PROOF
<1>1. \A u \in All \ {t} : Busy(u)' = Busy(u) /\ Next1(u)' = Next1(u)
  BY RestKeeps DEF Busy, Next1
<1>2. kind[t] \in {"recovery", "boot"}
  BY NextKind, OpKinds
<1>3. ASSUME Busy(t)'
      PROVE  Next1(t)' \notin FlagPuts /\ ~(Next1(t)' \in DataTakes /\ Next1(t)'.at \in FlagCells)
  <2>1. Next1(t)' \notin FlagPuts
    <3>1. Next1(t) \notin DataPuts
      BY Fields
    <3> QED BY <1>3, <3>1, Second
  <2>2. ASSUME Next1(t)' \in DataTakes, Next1(t)'.at \in FlagCells
        PROVE  FALSE
    <3>1. Next1(t) = Take("flag", Next1(t)'.at)
      BY <1>3, <2>2, Second
    <3> QED BY <3>1 DEF Take
  <2> QED BY <2>1, <2>2
<1> QED BY <1>1, <1>2, <1>3

LEMMA FlagsTruncate ==
  ASSUME Base, Flags, NEW t \in All, Truncate(t)
  PROVE  Flags'
PROOF
<1>1. /\ Busy(t) /\ Next1(t).op = "do" /\ Rest(t) /\ flag' = {} /\ raced' = Others(t)
      /\ UNCHANGED <<kind, phase, dbOpen>>
  BY DEF Truncate, Do
<1>2. \A u \in All \ {t} : Busy(u) => kind[u] \in Others(t) /\ kind[u] \in {"save", "read", "recovery"}
  BY <1>1, OthersTyped
<1>3. FlagsBacked'
  BY <1>1 DEF FlagsBacked
<1>4. ASSUME Whole'
      PROVE  FlagsToCome'
  <2> SUFFICES ASSUME NEW u \in All, Busy(u)', Next1(u)' \in FlagPuts
               PROVE  FALSE
    BY DEF FlagsToCome, Next1In, FlagPuts, FlagCells
  <2>1. u # t /\ Busy(u) /\ Next1(u) \in FlagPuts
    BY <1>1, DoStep
  <2>2. kind[u] = "read"
    BY <1>1, <1>2, <1>4, <2>1 DEF Whole
  <2>3. Next1(u) \in Ops("read")
    BY <2>1, <2>2, NextKind
  <2> QED BY <2>1, <2>3, Fields, OpKinds
<1>5. ASSUME raced' = {}
      PROVE  ReadsBacked'
  <2> SUFFICES ASSUME NEW u \in All, Busy(u)', Next1(u)' \in DataTakes, Next1(u)'.at \in FlagCells
               PROVE  FALSE
    BY DEF ReadsBacked, Next1In, DataTakes, FlagCells, Cells
  <2>1. u # t /\ Busy(u)
    BY <1>1, DoStep
  <2> QED BY <1>1, <1>2, <1>5, <2>1
<1> QED BY <1>3, <1>4, <1>5 DEF Flags

LEMMA FlagsDo ==
  ASSUME Base, Flags, NEW t \in All, Rewind(t) \/ WriteHeader(t)
  PROVE  Flags'
PROOF
<1>1. /\ Busy(t) /\ Next1(t).op = "do" /\ Rest(t) /\ raced \subseteq raced'
      /\ UNCHANGED <<data, flag, kind, phase, dbOpen>>
  BY DEF Rewind, WriteHeader, Do, store, HeaderParts
<1>2. ASSUME NEW u \in All, Busy(u)'
      PROVE  \/ Busy(u) /\ Next1(u)' = Next1(u)
             \/ /\ Next1(u)' \notin FlagPuts
                /\ ~(Next1(u)' \in DataTakes /\ Next1(u)'.at \in FlagCells)
  BY <1>1, <1>2, DoStep
<1>3. FlagPuts' = FlagPuts /\ DataTakes' = DataTakes /\ FlagCells' = FlagCells
  BY DEF FlagPuts, DataTakes, Cells, FlagCells
<1>4. ASSUME Whole'
      PROVE  FlagsBacked' /\ FlagsToCome'
  <2>1. FlagsBacked /\ FlagsToCome
    BY <1>1, <1>4 DEF Flags, Whole
  <2>2. FlagsBacked'
    BY <1>1, <2>1 DEF FlagsBacked
  <2>3. FlagsToCome'
    BY <1>1, <1>2, <1>3, <2>1 DEF FlagsToCome, Next1In
  <2> QED BY <2>2, <2>3
<1>5. ASSUME raced' = {}
      PROVE  ReadsBacked'
  <2>1. ReadsBacked
    BY <1>1, <1>5 DEF Flags
  <2> QED BY <1>1, <1>2, <1>3, <2>1 DEF ReadsBacked, Next1In
<1> QED BY <1>4, <1>5 DEF Flags

\* A call begins with neither a flag to write nor a slot's data to read.
LEMMA FlagsServe ==
  ASSUME Base, Flags, NEW t \in Threads, SaveCall(t) \/ ReadCall(t) \/ RecoveryCall(t)
  PROVE  Flags'
PROOF
<1>1. /\ t \in All /\ UNCHANGED <<data, flag, raced>>
      /\ \A u \in All \ {t} : prog'[u] = prog[u]
  BY DEF SaveCall, ReadCall, RecoveryCall, Serve, store, All, Base, Typed
<1>2. /\ prog'[t] # <<>> => Head(prog'[t]) \notin FlagPuts
      /\ prog'[t] # <<>> => ~(Head(prog'[t]) \in DataTakes /\ Head(prog'[t]).at \in FlagCells)
  <2>1. CASE SaveCall(t)
    <3>1. PICK c \in Cells : Serve(t, "save", Save(c, "user"))
      BY <2>1 DEF SaveCall
    <3> DEFINE p == Save(c, "user")
    <3>2. prog'[t] = p
      BY <1>1, <3>1 DEF Serve, Base, Typed
    <3>3. p \in Seq(OpsNow("save")) /\ Starts(p)
      BY SaveProgram
    <3> HIDE DEF p
    <3>4. p # <<>> => Head(p) = p[1] /\ Head(p) \in Ops("save")
      BY <3>3, HeadTailProperties DEF OpsNow
    <3> QED BY <3>2, <3>3, <3>4, OpKinds, Fields DEF Starts
  <2>2. CASE ReadCall(t)
    <3>1. PICK c \in Cells : Serve(t, "read", Read(c))
      BY <2>2 DEF ReadCall
    <3> DEFINE p == Read(c)
    <3>2. prog'[t] = p
      BY <1>1, <3>1 DEF Serve, Base, Typed
    <3>3. p \in Seq(OpsNow("read")) /\ (p[1] \in DataTakes => p[1].at \notin FlagCells)
      BY ReadProgram
    <3> HIDE DEF p
    <3>4. p # <<>> => Head(p) = p[1] /\ Head(p) \in Ops("read")
      BY <3>3, HeadTailProperties DEF OpsNow
    <3> QED BY <3>2, <3>3, <3>4, OpKinds, Fields
  <2>3. CASE RecoveryCall(t)
    <3> DEFINE p == SSMRecovery
    <3>1. prog'[t] = p
      BY <1>1, <2>3 DEF RecoveryCall, Serve, Base, Typed
    <3>2. p \in Seq(OpsNow("recovery")) /\ p # <<>> /\ p[1] = Do("truncate")
      BY RecoveryProgram DEF Base, Typed
    <3> HIDE DEF p
    <3>3. Head(p) = Do("truncate")
      BY <3>2, HeadTailProperties
    <3> QED BY <3>1, <3>3, Fields DEF Do
  <2> QED BY <2>1, <2>2, <2>3
<1>3. ASSUME NEW u \in All, Busy(u)'
      PROVE  \/ Busy(u) /\ Next1(u)' = Next1(u)
             \/ /\ Next1(u)' \notin FlagPuts
                /\ ~(Next1(u)' \in DataTakes /\ Next1(u)'.at \in FlagCells)
  <2>1. CASE u = t
    BY <1>2, <1>3, <2>1 DEF Busy, Next1
  <2>2. CASE u # t
    BY <1>1, <1>3, <2>2 DEF Busy, Next1
  <2> QED BY <2>1, <2>2
<1>4. FlagPuts' = FlagPuts /\ DataTakes' = DataTakes /\ FlagCells' = FlagCells
  BY DEF FlagPuts, DataTakes, Cells, FlagCells
<1>5. Whole => FlagsBacked'
  BY <1>1 DEF Flags, FlagsBacked
<1>6. Whole => FlagsToCome'
  BY <1>1, <1>3, <1>4 DEF Flags, FlagsToCome, Next1In
<1>7. raced = {} => ReadsBacked'
  BY <1>1, <1>3, <1>4 DEF Flags, ReadsBacked, Next1In
<1> QED BY <1>1, <1>5, <1>6, <1>7 DEF Flags, Whole

LEMMA FlagsInit ==
  ASSUME Base, Flags, init
  PROVE  Flags'
PROOF
<1> DEFINE p == SSMRecovery
<1>1. /\ phase = "boot" /\ UNCHANGED <<data, flag, raced>>
      /\ prog' = prog \/ prog' = [prog EXCEPT ![Main] = p]
  BY DEF init, store
<1>2. p \in Seq(OpsNow("recovery")) /\ p # <<>> /\ p[1] = Do("truncate")
  BY RecoveryProgram DEF Base, Typed
<1> HIDE DEF p
<1>3. Head(p) = Do("truncate")
  BY <1>2, HeadTailProperties
<1>4. \A u \in All : ~Busy(u)
  BY <1>1 DEF Base, Phases
<1>5. ASSUME NEW u \in All, Busy(u)'
      PROVE  Next1(u)' = Do("truncate")
  <2>1. prog[u] = <<>> /\ prog'[u] # <<>>
    BY <1>4, <1>5 DEF Busy
  <2>2. prog'[u] = p
    BY <1>1, <2>1 DEF Base, Typed
  <2> QED BY <1>3, <2>2 DEF Next1
<1>6. ASSUME NEW u \in All, Busy(u)'
      PROVE  Next1(u)' \notin FlagPuts /\ Next1(u)' \notin DataTakes
  BY <1>5, <1>6, Fields DEF Do
<1>7. FlagPuts' = FlagPuts /\ DataTakes' = DataTakes
  BY DEF FlagPuts, DataTakes, Cells, FlagCells
<1>8. FlagsToCome' /\ ReadsBacked'
  BY <1>6, <1>7 DEF FlagsToCome, ReadsBacked, Next1In
<1>9. Whole => FlagsBacked'
  BY <1>1 DEF Flags, FlagsBacked
<1> QED BY <1>1, <1>8, <1>9 DEF Flags, Whole

LEMMA FlagsCrash ==
  ASSUME Base, Flags, Crash
  PROVE  Flags'
PROOF
<1>1. /\ prog' = [t \in All |-> <<>>] /\ raced' = raced \ {"read"}
      /\ UNCHANGED <<data, flag>>
  BY DEF Crash, store
<1>2. \A t \in All : ~Busy(t)'
  BY <1>1 DEF Busy
<1>3. FlagsToCome' /\ ReadsBacked'
  BY <1>2 DEF FlagsToCome, ReadsBacked, Next1In
<1>4. Whole' => Whole
  BY <1>1 DEF Whole
<1>5. Whole => FlagsBacked'
  BY <1>1 DEF Flags, FlagsBacked
<1> QED BY <1>3, <1>4, <1>5 DEF Flags

LEMMA FlagsInitially == Init => Flags
PROOF
<1> SUFFICES ASSUME Init
             PROVE  Flags
  OBVIOUS
<1>1. \A t \in All : ~Busy(t)
  BY DEF Init, Busy
<1>2. FlagsBacked
  <2>1. InDb \cup WbCells \subseteq Cells
    BY StoreAssumption DEF Cells, FlagCells
  <2> QED BY <2>1 DEF Init, FlagsBacked
<1> QED BY <1>1, <1>2 DEF Flags, FlagsToCome, ReadsBacked, Next1In

LEMMA FlagsStep ==
  ASSUME Base, Flags, [Next]_vars
  PROVE  Flags'
PROOF
<1>1. CASE Boot \/ Refilled \/ UNCHANGED vars
  <2>1. UNCHANGED <<data, flag, raced, prog>>
    BY <1>1 DEF Boot, Refilled, vars, store
  <2> QED BY <2>1, FlagsSame
<1>2. CASE init
  BY <1>2, FlagsInit
<1>3. CASE Crash
  BY <1>3, FlagsCrash
<1>4. CASE \E t \in Threads : SaveCall(t) \/ ReadCall(t) \/ RecoveryCall(t)
  BY <1>4, FlagsServe
<1>5. CASE \E t \in All : Step(t)
  <2> SUFFICES ASSUME NEW t \in All, Step(t)
               PROVE  Flags'
    BY <1>5
  <2>1. CASE Seek(t)
    <3>1. UNCHANGED <<data, flag, raced, prog>>
      BY <2>1 DEF Seek, store
    <3> QED BY <3>1, FlagsSame
  <2> QED BY <2>1, FlagsWrite, FlagsRead, FlagsTruncate, FlagsDo DEF Step
<1> QED BY <1>1, <1>2, <1>3, <1>4, <1>5 DEF Next

\* A slot flagged valid holds data, whatever the threads and the deaths of the
\* process, unless an erase overtook a save or another recovery
\* (SetPictureModeData writes the data before the flag).
THEOREM FlagsVouch == Spec => []FlagMeansData
PROOF
<1>1. Base /\ Flags /\ [Next]_vars => Flags'
  BY FlagsStep
<1>2. Flags => FlagMeansData
  BY DEF Flags, Whole, FlagsBacked, FlagMeansData
<1> QED BY BaseAlways, FlagsInitially, <1>1, <1>2, PTL DEF Spec

\* A read of a flagged slot that no erase overlapped returns data
\* (GetPictureModeData reads the flag, then the data, in two accesses).
THEOREM ReadsReturnData == Spec => ReadMeansData
PROOF
<1>1. ASSUME Base, Flags, [Next]_vars
      PROVE  [\A t \in Threads :
                  raced = {} /\ result'[t] \notin {result[t], NoResult}
                      /\ result'[t][1] \in FlagCells => result'[t][2] # "hole"]_vars
  <2> SUFFICES ASSUME NEW t \in Threads, raced = {}, result'[t] \notin {result[t], NoResult},
                      result'[t][1] \in FlagCells
               PROVE  result'[t][2] # "hole"
    OBVIOUS
  <2>0. t \in All /\ Main \in All /\ result = [u \in All |-> result[u]]
    BY <1>1 DEF All, Base, Typed
  <2>1. \E u \in All : ReadAccess(u)
    <3>1. CASE UNCHANGED result
      BY <3>1
    <3>2. CASE \E u \in All : result' = [result EXCEPT ![u] = NoResult]
      BY <2>0, <3>2
    <3>3. CASE result' = [u \in All |-> NoResult]
      BY <2>0, <3>3
    <3> QED
      BY <1>1, <3>1, <3>2, <3>3 DEF Next, vars, Boot, init, Refilled, Crash, SaveCall, ReadCall, RecoveryCall,
              Serve, Step, Seek, Write, Truncate, Rewind, WriteHeader, All
  <2>2. PICK u \in All : ReadAccess(u)
    BY <2>1
  <2> DEFINE o == Next1(u)
             hit == pos = Place(o)
  <2>3. /\ lock = u /\ Busy(u) /\ o.op = "take"
        /\ result' \in {result, [result EXCEPT ![u] = NoResult],
                        [result EXCEPT ![u] = <<o.at, IF hit THEN data[o.at] ELSE "hole">>]}
        /\ result' = [result EXCEPT ![u] = <<o.at, IF hit THEN data[o.at] ELSE "hole">>] =>
               o.what # "flag" \/ result'[u] \in {result[u], NoResult}
    BY <2>0, <2>2 DEF ReadAccess
  <2>4. o \in DataTakes \cup FlagTakes
    BY <1>1, <2>3, NextKind, OpKinds
  <2>5. hit
    BY <1>1, <2>3, Hits
  <2> HIDE DEF o, hit
  <2>6. t = u /\ result'[t] = <<o.at, data[o.at]>> /\ o.what # "flag"
    BY <2>0, <2>3, <2>5
  <2>7. o \in DataTakes /\ o.at \in FlagCells
    BY <2>4, <2>6, Fields
  <2>8. data[o.at] # "hole"
    BY <1>1, <2>3, <2>7 DEF Flags, ReadsBacked, Next1In, o
  <2> QED BY <2>6, <2>8
<1>2. Base /\ Flags /\ [Next]_vars => Flags'
  BY FlagsStep
<1> QED BY BaseAlways, FlagsInitially, <1>1, <1>2, PTL DEF Spec, ReadMeansData

-----------------------------------------------------------------------------
(* The third invariant: what the marks are worth.                          *)

\* The database was open at the last erase, and no other recovery ran.
Sound == filled /\ "recovery" \notin raced
Good == {"default", "user"}

\* A recovery that has erased the file.
Past(t) == Busy(t) /\ kind[t] \in {"recovery", "boot"} /\ ~In(prog[t], Do("truncate"))

SameDatabase == \A t \in All : Past(t) => filled = dbOpen
Complete(c) == data[c] \in Good /\ (c \in FlagCells => c \in flag)

\* What is not written yet is still in the program.
Coming(p, c) ==
    /\ data[c] \in Good \/ In(p, Put("data", c, "default"))
    /\ c \in FlagCells => c \in flag \/ In(p, Put("flag", c, "default"))
MarksVouch == marks # {} => \A c \in Defaulted : Complete(c)
AllComing == \A t \in All : Past(t) => \A c \in Defaulted : Coming(prog[t], c)

Vouched == SameDatabase /\ (Sound => MarksVouch /\ AllComing)

LEMMA DefaultedCells == Defaulted \subseteq Cells
PROOF
  BY StoreAssumption DEF Defaulted, Cells, FlagCells

\* What a thread has left after an access is what it had, without it.
LEMMA LeftOver ==
  ASSUME Base, NEW t \in All, Busy(t), Rest(t), NEW x
  PROVE  In(prog[t], x) <=> Next1(t) = x \/ In(prog'[t], x)
PROOF
<1>1. prog[t] \in Seq(OpsNow(kind[t])) /\ prog[t] # <<>>
  BY DEF Base, Left, Program, Busy
<1>2. prog'[t] = Tail(prog[t])
  BY DEF Rest, Base, Typed
<1> QED BY <1>1, <1>2, InTail DEF Next1

\* An access that is no erase leaves a thread on its side of the erase.
LEMMA PastBefore ==
  ASSUME Base, NEW t \in All, Busy(t), Rest(t), UNCHANGED kind, Next1(t) # Do("truncate"), Past(t)'
  PROVE  Past(t)
PROOF
<1>1. ~In(prog'[t], Do("truncate")) /\ kind[t] \in {"recovery", "boot"}
  BY DEF Past
<1>2. ~In(prog[t], Do("truncate"))
  BY <1>1, LeftOver
<1> QED BY <1>1, <1>2 DEF Past

\* Steps that change neither the file nor a program.
LEMMA VouchedSame ==
  ASSUME Base, Vouched, UNCHANGED <<marks, data, flag, filled>>,
         Sound' => Sound,
         \A t \in All : Past(t)' => Past(t) /\ prog'[t] = prog[t] /\ dbOpen' = dbOpen
  PROVE  Vouched'
PROOF
<1>1. Defaulted' = Defaulted
  BY DEF Defaulted
<1>2. SameDatabase'
  BY DEF Vouched, SameDatabase
<1>3. ASSUME Sound'
      PROVE  MarksVouch' /\ AllComing'
  <2>1. MarksVouch /\ AllComing
    BY <1>3 DEF Vouched
  <2>2. MarksVouch'
    BY <1>1, <2>1 DEF MarksVouch, Complete, Good
  <2>3. AllComing'
    BY <1>1, <2>1 DEF AllComing, Coming, Good, In
  <2> QED BY <2>2, <2>3
<1> QED BY <1>2, <1>3 DEF Vouched

\* Past, for a thread whose program and call stay.
LEMMA PastStays ==
  ASSUME NEW u, prog'[u] = prog[u], kind'[u] = kind[u]
  PROVE  Past(u)' = Past(u)
PROOF
  BY DEF Past, Busy, In

LEMMA VouchedWrite ==
  ASSUME Base, Vouched, NEW t \in All, Write(t)
  PROVE  Vouched'
PROOF
<1> DEFINE o == Next1(t)
           hit == pos = Place(o)
<1>1. /\ Busy(t) /\ o.op = "put" /\ lock = t /\ Rest(t)
      /\ data' = IF hit /\ o.what = "data" THEN [data EXCEPT ![o.at] = o.v] ELSE data
      /\ flag' = IF hit /\ o.what = "flag" THEN flag \cup {o.at} ELSE flag
      /\ marks' = IF hit /\ o.what = "mark" THEN marks \cup {o.at} ELSE marks
      /\ UNCHANGED <<kind, phase, dbOpen, filled, raced>>
  BY DEF Write
<1>2. /\ o \in OpsNow(kind[t]) /\ o \in DataPuts \cup FlagPuts \cup MarkPuts
      /\ kind[t] \in {"save", "recovery", "boot"} /\ o # Do("truncate")
      /\ o \in MarkPuts => kind[t] \in {"recovery", "boot"}
  <2>1. o \in OpsNow(kind[t]) /\ o \in Ops(kind[t])
    BY <1>1, NextKind
  <2>2. o # Do("truncate")
    BY <1>1 DEF Do
  <2> QED BY <1>1, <2>1, <2>2, OpKinds
<1>3. \A u \in All \ {t} : prog'[u] = prog[u] /\ kind'[u] = kind[u]
  BY <1>1, RestKeeps
<1>4. Past(t)' => Past(t)
  BY <1>1, <1>2, PastBefore
<1>5. kind[t] \in {"recovery", "boot"} => Past(t)
  <2> SUFFICES ASSUME kind[t] \in {"recovery", "boot"}, In(prog[t], Do("truncate"))
               PROVE  FALSE
    BY <1>1 DEF Past
  <2>1. prog[t] = SSMRecovery
    BY <1>1 DEF Base, Left, Program, Busy
  <2>2. SSMRecovery \in Seq(OpsNow("recovery")) /\ SSMRecovery # <<>> /\ SSMRecovery[1] = Do("truncate")
    BY RecoveryProgram DEF Base, Typed
  <2>3. Head(prog[t]) = Do("truncate")
    BY <2>1, <2>2, HeadTailProperties
  <2> QED BY <1>2, <2>3 DEF Next1
<1>6. \A x : In(prog[t], x) => x = o \/ In(prog'[t], x)
  BY <1>1, LeftOver
<1>7. SameDatabase'
  <2>1. \A u \in All : Past(u)' => Past(u)
    BY <1>3, <1>4, PastStays
  <2> QED BY <1>1, <2>1 DEF Vouched, SameDatabase
<1> HIDE DEF o, hit
<1>8. ASSUME Sound'
      PROVE  MarksVouch' /\ AllComing'
  <2>1. Sound /\ MarksVouch /\ AllComing
    BY <1>1, <1>8 DEF Sound, Vouched
  <2>2. kind[t] \in {"recovery", "boot"} => hit
    <3>1. kind[t] \in {"recovery", "boot"} => kind[t] \notin raced
      BY <2>1 DEF Sound, Base, Typed
    <3> QED BY <1>1, <3>1, Hits DEF hit, o
  <2>3. o.v # "rubbish"
    <3>1. o.v = "rubbish" => ~dbOpen /\ kind[t] \in {"recovery", "boot"}
      BY <1>2 DEF OpsNow
    <3>2. o.v = "rubbish" => filled = dbOpen
      BY <1>5, <3>1 DEF Vouched, SameDatabase
    <3> QED BY <2>1, <3>1, <3>2 DEF Sound
  <2>4. \A c \in Cells : data[c] \in Good => data'[c] \in Good
    <3>1. o.what = "data" => o.at \in Cells /\ o.v \in Good
      BY <1>2, <2>3, Fields DEF Set, Good
    <3> QED BY <1>1, <3>1 DEF Base, Typed, Good
  <2>5. flag \subseteq flag'
    BY <1>1
  <2>6. Good' = Good /\ Defaulted' = Defaulted /\ FlagCells' = FlagCells
    BY DEF Good, Defaulted, FlagCells
  <2>7. MarksVouch'
    <3> SUFFICES ASSUME marks' # {}, NEW c \in Defaulted
                 PROVE  data'[c] \in Good /\ (c \in FlagCells => c \in flag')
      BY <2>6 DEF MarksVouch, Complete
    <3>1. c \in Cells
      BY DefaultedCells
    <3>2. Complete(c)
      <4>1. CASE marks # {}
        BY <2>1, <4>1 DEF MarksVouch
      <4>2. CASE marks = {}
        <5>1. o \in MarkPuts
          BY <1>1, <1>2, <4>2, Fields
        <5>2. Coming(prog[t], c)
          BY <1>2, <1>5, <2>1, <5>1 DEF AllComing
        <5>3. ASSUME NEW x, In(prog[t], x)
              PROVE  x \in MarkPuts
          <6>1. MarksLast(prog[t]) /\ prog[t][1] = o /\ prog[t] \in Seq(OpsNow(kind[t]))
            BY <1>1, HeadOp DEF Base, Left, Program, Busy, Next1, o
          <6>2. PICK i \in 1..Len(prog[t]) : prog[t][i] = x
            BY <5>3 DEF In
          <6>3. i = 1 \/ (1 < i /\ 1 \in 1..Len(prog[t]))
            BY <6>1, <6>2
          <6> QED BY <5>1, <6>1, <6>2, <6>3 DEF MarksLast
        <5>4. Put("data", c, "default") \notin MarkPuts /\ Put("flag", c, "default") \notin MarkPuts
          BY Fields DEF Put
        <5> QED BY <5>2, <5>3, <5>4 DEF Coming, Complete
      <4> QED BY <4>1, <4>2
    <3> QED BY <2>4, <2>5, <3>1, <3>2 DEF Complete
  <2>8. AllComing'
    <3> SUFFICES ASSUME NEW u \in All, Past(u)', NEW c \in Defaulted
                 PROVE  /\ data'[c] \in Good \/ In(prog'[u], Put("data", c, "default"))
                        /\ c \in FlagCells => c \in flag' \/ In(prog'[u], Put("flag", c, "default"))
      BY <2>6 DEF AllComing, Coming, In, Put
    <3>1. c \in Cells
      BY DefaultedCells
    <3>2. Past(u)
      BY <1>3, <1>4, PastStays
    <3>3. Coming(prog[u], c)
      BY <2>1, <3>2 DEF AllComing
    <3>4. CASE u # t
      <4>1. prog'[u] = prog[u]
        BY <1>3, <3>4
      <4> QED BY <2>4, <2>5, <3>1, <3>3, <4>1 DEF Coming
    <3>5. CASE u = t
      <4>1. hit
        BY <2>2, <3>2, <3>5 DEF Past
      <4>2. ASSUME o = Put("data", c, "default")
            PROVE  data'[c] \in Good
        <5>1. o.what = "data" /\ o.at = c /\ o.v = "default"
          BY <4>2 DEF Put
        <5> QED BY <1>1, <3>1, <4>1, <5>1 DEF Base, Typed, Good
      <4>3. ASSUME o = Put("flag", c, "default")
            PROVE  c \in flag'
        <5>1. o.what = "flag" /\ o.at = c
          BY <4>3 DEF Put
        <5> QED BY <1>1, <4>1, <5>1
      <4>4. data'[c] \in Good \/ In(prog'[u], Put("data", c, "default"))
        BY <1>6, <2>4, <3>1, <3>3, <3>5, <4>2 DEF Coming
      <4>5. c \in FlagCells => c \in flag' \/ In(prog'[u], Put("flag", c, "default"))
        BY <1>6, <2>5, <3>3, <3>5, <4>3 DEF Coming
      <4> QED BY <4>4, <4>5
    <3> QED BY <3>4, <3>5
  <2> QED BY <2>7, <2>8
<1> QED BY <1>7, <1>8 DEF Vouched

LEMMA VouchedTruncate ==
  ASSUME Base, Vouched, NEW t \in All, Truncate(t)
  PROVE  Vouched'
PROOF
<1>1. /\ Busy(t) /\ Next1(t) = Do("truncate") /\ Rest(t) /\ marks' = {} /\ filled' = dbOpen
      /\ raced' = Others(t) /\ UNCHANGED <<kind, phase, dbOpen>>
  BY DEF Truncate
<1>2. /\ \A u \in All \ {t} : prog'[u] = prog[u] /\ kind'[u] = kind[u]
      /\ \A u \in All \ {t} : Busy(u) => kind[u] \in Others(t) /\ u # Main
  BY <1>1, RestKeeps, OthersTyped
<1>3. SameDatabase' /\ MarksVouch'
  BY <1>1 DEF SameDatabase, MarksVouch
<1>4. Next1(t).op = "do"
  BY <1>1 DEF Do
<1>5. kind[t] \in {"recovery", "boot"} /\ In(prog[t], Do("truncate"))
  <2>1. Next1(t) \in Ops(kind[t])
    BY <1>1, NextKind
  <2> QED BY <1>1, <1>4, <2>1, OpKinds, LeftOver
<1>6. prog[t] = SSMRecovery
  BY <1>1, <1>5 DEF Base, Left, Program, Busy
<1>7. ASSUME Sound'
      PROVE  AllComing'
  <2> SUFFICES ASSUME NEW u \in All, Past(u)', NEW c \in Defaulted
               PROVE  /\ In(prog'[u], Put("data", c, "default"))
                      /\ c \in FlagCells => In(prog'[u], Put("flag", c, "default"))
    BY DEF AllComing, Coming, In, Put, Defaulted, FlagCells
  <2>1. u = t
    <3> SUFFICES ASSUME u # t
                 PROVE  FALSE
      OBVIOUS
    <3>1. Past(u)
      BY <1>2, PastStays
    <3>2. kind[u] \in Others(t) /\ u \in Threads
      BY <1>2, <3>1 DEF Past, All
    <3>3. kind[u] = "recovery"
      BY <3>1, <3>2 DEF Past, Base, Kinds
    <3> QED BY <1>1, <1>7, <3>2, <3>3 DEF Sound
  <2>2. dbOpen
    BY <1>1, <1>7 DEF Sound
  <2>3. In(prog[t], Put("data", c, "default")) /\ (c \in FlagCells => In(prog[t], Put("flag", c, "default")))
    BY <1>6, <2>2, RecoveryProgram DEF Base, Typed
  <2>4. Put("data", c, "default") # Next1(t) /\ Put("flag", c, "default") # Next1(t)
    BY <1>4 DEF Put
  <2> QED BY <1>1, <2>1, <2>3, <2>4, LeftOver
<1> QED BY <1>3, <1>7 DEF Vouched

LEMMA VouchedDo ==
  ASSUME Base, Vouched, NEW t \in All, Rewind(t) \/ WriteHeader(t)
  PROVE  Vouched'
PROOF
<1>1. /\ Busy(t) /\ Next1(t).op = "do" /\ Next1(t) # Do("truncate") /\ Rest(t)
      /\ raced \subseteq raced'
      /\ UNCHANGED <<marks, data, flag, filled, kind, phase, dbOpen>>
  BY DEF Rewind, WriteHeader, Do, store, HeaderParts
<1>2. \A u \in All \ {t} : prog'[u] = prog[u] /\ kind'[u] = kind[u]
  BY <1>1, RestKeeps
<1>3. \A u \in All : Past(u)' => Past(u)
  BY <1>1, <1>2, PastBefore, PastStays
<1>4. SameDatabase'
  BY <1>1, <1>3 DEF Vouched, SameDatabase
<1>5. ASSUME Sound'
      PROVE  MarksVouch' /\ AllComing'
  <2>1. MarksVouch /\ AllComing
    BY <1>1, <1>5 DEF Vouched, Sound
  <2>2. Defaulted' = Defaulted /\ FlagCells' = FlagCells
    BY DEF Defaulted, FlagCells
  <2>3. MarksVouch'
    BY <1>1, <2>1, <2>2 DEF MarksVouch, Complete, Good
  <2>4. AllComing'
    <3> SUFFICES ASSUME NEW u \in All, Past(u)', NEW c \in Defaulted
                 PROVE  /\ data[c] \in Good \/ In(prog'[u], Put("data", c, "default"))
                        /\ c \in FlagCells => c \in flag \/ In(prog'[u], Put("flag", c, "default"))
      BY <1>1, <2>2 DEF AllComing, Coming, In, Put, Good
    <3>1. Coming(prog[u], c)
      BY <1>3, <2>1 DEF AllComing
    <3>2. CASE u # t
      <4>1. prog'[u] = prog[u]
        BY <1>2, <3>2
      <4> QED BY <3>1, <4>1 DEF Coming
    <3>3. CASE u = t
      <4>1. Put("data", c, "default") # Next1(t) /\ Put("flag", c, "default") # Next1(t)
        BY <1>1 DEF Put
      <4> QED BY <1>1, <3>1, <3>3, <4>1, LeftOver DEF Coming
    <3> QED BY <3>2, <3>3
  <2> QED BY <2>3, <2>4
<1> QED BY <1>4, <1>5 DEF Vouched

LEMMA VouchedRead ==
  ASSUME Base, Vouched, NEW t \in All, ReadAccess(t)
  PROVE  Vouched'
PROOF
<1>1. /\ Busy(t) /\ Next1(t).op = "take"
      /\ UNCHANGED <<marks, data, flag, filled, kind, dbOpen, raced>>
      /\ \A u \in All \ {t} : prog'[u] = prog[u]
  BY DEF ReadAccess, store, Rest, Base, Typed
<1>2. kind'[t] = "read"
  BY <1>1, NextKind, OpKinds
<1>3. \A u \in All : Past(u)' => u # t
  BY <1>2 DEF Past
<1>4. \A u \in All : Past(u)' => Past(u) /\ prog'[u] = prog[u]
  BY <1>1, <1>3, PastStays
<1> QED BY <1>1, <1>4, VouchedSame DEF Sound

LEMMA VouchedServe ==
  ASSUME Base, Vouched, NEW t \in Threads, SaveCall(t) \/ ReadCall(t) \/ RecoveryCall(t)
  PROVE  Vouched'
PROOF
<1>1. /\ t \in All /\ UNCHANGED <<marks, data, flag, filled, dbOpen, raced>>
      /\ \A u \in All \ {t} : prog'[u] = prog[u] /\ kind'[u] = kind[u]
  BY DEF SaveCall, ReadCall, RecoveryCall, Serve, store, All, Base, Typed
<1>2. ~Past(t)'
  <2>1. CASE SaveCall(t) \/ ReadCall(t)
    <3>1. kind'[t] \in {"save", "read"}
      BY <1>1, <2>1 DEF SaveCall, ReadCall, Serve, Base, Typed
    <3> QED BY <3>1 DEF Past
  <2>2. CASE RecoveryCall(t)
    <3> DEFINE p == SSMRecovery
    <3>1. prog'[t] = p
      BY <1>1, <2>2 DEF RecoveryCall, Serve, Base, Typed
    <3>2. p \in Seq(OpsNow("recovery")) /\ p # <<>> /\ p[1] = Do("truncate")
      BY RecoveryProgram DEF Base, Typed
    <3> HIDE DEF p
    <3>3. In(p, Do("truncate"))
      BY <3>2, InTail, HeadTailProperties
    <3> QED BY <3>1, <3>3 DEF Past, In, Do
  <2> QED BY <2>1, <2>2
<1>3. \A u \in All : Past(u)' => Past(u) /\ prog'[u] = prog[u]
  BY <1>1, <1>2, PastStays
<1> QED BY <1>1, <1>3, VouchedSame DEF Sound

LEMMA VouchedStart ==
  ASSUME Base, Vouched, Boot \/ init \/ Refilled
  PROVE  Vouched'
PROOF
<1>1. UNCHANGED <<marks, data, flag, filled, raced>>
  BY DEF Boot, init, Refilled, store
<1>2. ASSUME NEW u \in All
      PROVE  ~Past(u)'
  <2>1. ~Busy(u)
    <3>1. phase \in {"down", "boot"} \/ (phase = "refill" /\ ~Busy(Main))
      BY DEF Boot, init, Refilled
    <3> QED BY <3>1 DEF Base, Phases
  <2>2. CASE prog'[u] = prog[u]
    BY <2>1, <2>2 DEF Past, Busy
  <2>3. CASE prog'[u] # prog[u]
    <3> DEFINE p == SSMRecovery
    <3>1. prog' = [prog EXCEPT ![Main] = p]
      BY <2>3 DEF Boot, init, Refilled
    <3>2. prog'[u] = p
      BY <2>3, <3>1 DEF Base, Typed
    <3>3. p \in Seq(OpsNow("recovery")) /\ p # <<>> /\ p[1] = Do("truncate")
      BY RecoveryProgram DEF Base, Typed
    <3> HIDE DEF p
    <3>4. In(p, Do("truncate"))
      BY <3>3, InTail, HeadTailProperties
    <3> QED BY <3>2, <3>4 DEF Past, In, Do
  <2> QED BY <2>2, <2>3
<1> QED BY <1>1, <1>2, VouchedSame DEF Sound

LEMMA VouchedCrash ==
  ASSUME Base, Vouched, Crash
  PROVE  Vouched'
PROOF
<1>1. /\ prog' = [t \in All |-> <<>>] /\ raced' = raced \ {"read"}
      /\ UNCHANGED <<marks, data, flag, filled>>
  BY DEF Crash, store
<1>2. \A u \in All : ~Past(u)'
  BY <1>1 DEF Past, Busy
<1>3. Sound' => Sound
  BY <1>1 DEF Sound
<1> QED BY <1>1, <1>2, <1>3, VouchedSame

LEMMA VouchedInitially == Init => Vouched
PROOF
<1> SUFFICES ASSUME Init
             PROVE  Vouched
  OBVIOUS
<1>1. \A t \in All : ~Past(t)
  BY DEF Init, Past, Busy
<1>2. MarksVouch
  <2> SUFFICES ASSUME marks # {}, NEW c \in Defaulted
               PROVE  Complete(c)
    BY DEF MarksVouch
  <2>1. /\ data = [d \in Cells |-> IF d \in InDb \cup WbCells \cup ByteCells
                                   THEN "default" ELSE "hole"]
        /\ flag = InDb \cup WbCells
    BY DEF Init
  <2>2. c \in Cells /\ c \in InDb \cup WbCells \cup ByteCells
    BY DefaultedCells DEF Defaulted
  <2>3. c \in ByteCells => c \notin FlagCells
    BY StoreAssumption DEF FlagCells
  <2> QED BY <2>1, <2>2, <2>3 DEF Complete, Good
<1> QED BY <1>1, <1>2 DEF Vouched, SameDatabase, AllComing

LEMMA VouchedStep ==
  ASSUME Base, Vouched, [Next]_vars
  PROVE  Vouched'
PROOF
<1>1. CASE UNCHANGED vars
  <2>1. UNCHANGED <<marks, data, flag, filled, raced, prog, kind, dbOpen>>
    BY <1>1 DEF vars
  <2>2. \A u \in All : Past(u)' => Past(u)
    BY <2>1, PastStays
  <2> QED BY <2>1, <2>2, VouchedSame DEF Sound
<1>2. CASE Boot \/ init \/ Refilled
  BY <1>2, VouchedStart
<1>3. CASE Crash
  BY <1>3, VouchedCrash
<1>4. CASE \E t \in Threads : SaveCall(t) \/ ReadCall(t) \/ RecoveryCall(t)
  BY <1>4, VouchedServe
<1>5. CASE \E t \in All : Step(t)
  <2> SUFFICES ASSUME NEW t \in All, Step(t)
               PROVE  Vouched'
    BY <1>5
  <2>1. CASE Seek(t)
    <3>1. UNCHANGED <<marks, data, flag, filled, raced, prog, kind, dbOpen>>
      BY <2>1 DEF Seek, store
    <3>2. \A u \in All : Past(u)' => Past(u)
      BY <3>1, PastStays
    <3> QED BY <3>1, <3>2, VouchedSame DEF Sound
  <2> QED BY <2>1, VouchedWrite, VouchedRead, VouchedTruncate, VouchedDo DEF Step
<1> QED BY <1>1, <1>2, <1>3, <1>4, <1>5 DEF Next

\* Whatever the next start would accept holds a value for every setting the
\* defaults name, after a death anywhere in a recovery and whatever the other
\* threads saved meanwhile (SSMRecovery writes the marks last).
THEOREM MarksVouchForData == Spec => []AcceptedIsComplete
PROOF
<1>1. Base /\ Vouched /\ [Next]_vars => Vouched'
  BY VouchedStep
<1>2. Vouched => AcceptedIsComplete
  BY DEF Vouched, Sound, MarksVouch, Complete, Good, AcceptedIsComplete, Accepted
<1> QED BY BaseAlways, VouchedInitially, <1>1, <1>2, PTL DEF Spec
=============================================================================
