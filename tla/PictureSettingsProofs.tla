------------------------ MODULE PictureSettingsProofs ------------------------
(***************************************************************************)
(* Proofs about PictureSettings: what a setter was asked to keep is what   *)
(* the getter answers, whatever the other threads do in between and        *)
(* however often the process is killed (ValuesKept), and every variable    *)
(* holds a value of its type (TypeHolds).                                  *)
(*                                                                         *)
(* A call is what is left of its program, so the invariants are stated of  *)
(* what may be left:                                                       *)
(*   Shape, Places       each thread is where a call of its kind can be    *)
(*   Owner               whoever is inside PqControlMutex owns it          *)
(*   Overlap             conflicting calls know of each other, and         *)
(*                       nothing is promised of what they touch            *)
(*   RowKept             a record read to be written whole holds what is   *)
(*                       promised of its fields                            *)
(*   WriteKept           a setter that wrote, told of nothing, finds its   *)
(*                       value                                             *)
(*   FileTyped, RowTyped, DisplayInUse, Panel                              *)
(*                       what is kept, read and shown are values           *)
(* Each is kept by every step given the ones above it.                     *)
(***************************************************************************)
EXTENDS PictureSettings, FiniteSetTheorems, SequenceTheorems, TLAPS

-----------------------------------------------------------------------------
(* Programs are short sequences put together; provers read them one element *)
(* at a time.                                                               *)

\* One more element at the end.
LEMMA SnocIs ==
  ASSUME NEW S, NEW f \in Seq(S), NEW h \in Seq(S), NEW z \in S,
         Len(h) = Len(f) + 1, \A i \in 1..Len(f) : h[i] = f[i], h[Len(h)] = z
  PROVE  f \o <<z>> = h
PROOF
<1>1. f \o <<z>> = Append(f, z)
  OBVIOUS
<1>2. /\ Append(f, z) \in Seq(S) /\ Len(Append(f, z)) = Len(h)
      /\ \A i \in 1..Len(Append(f, z)) : Append(f, z)[i] = h[i]
  OBVIOUS
<1>3. Append(f, z) = h
  BY <1>2, SeqEqual
<1> QED BY <1>1, <1>3

\* One element and one more.
LEMMA Snoc1 ==
  ASSUME NEW a, NEW z
  PROVE  <<a>> \o <<z>> = <<a, z>>
PROOF
<1> DEFINE S == {a, z}
           p == <<a>>
           h == <<a, z>>
<1>1. p \in Seq(S) /\ h \in Seq(S) /\ z \in S
  OBVIOUS
<1>2. Len(p) = 1 /\ Len(h) = 2 /\ h[2] = z /\ \A i \in 1..1 : h[i] = p[i]
  OBVIOUS
<1> HIDE DEF S, p, h
<1>3. Len(h) = Len(p) + 1 /\ h[Len(h)] = z /\ \A i \in 1..Len(p) : h[i] = p[i]
  BY <1>2
<1>4. p \o <<z>> = h
  BY <1>1, <1>3, SnocIs
<1> QED BY <1>4 DEF p, h

\* Two elements and one more.
LEMMA Snoc2 ==
  ASSUME NEW a, NEW b, NEW z
  PROVE  <<a, b>> \o <<z>> = <<a, b, z>>
PROOF
<1> DEFINE S == {a, b, z}
           p == <<a, b>>
           h == <<a, b, z>>
<1>1. p \in Seq(S) /\ h \in Seq(S) /\ z \in S
  OBVIOUS
<1>2. Len(p) = 2 /\ Len(h) = 3 /\ h[3] = z /\ \A i \in 1..2 : h[i] = p[i]
  OBVIOUS
<1> HIDE DEF S, p, h
<1>3. Len(h) = Len(p) + 1 /\ h[Len(h)] = z /\ \A i \in 1..Len(p) : h[i] = p[i]
  BY <1>2
<1>4. p \o <<z>> = h
  BY <1>1, <1>3, SnocIs
<1> QED BY <1>4 DEF p, h

\* Three elements and one more.
LEMMA Snoc3 ==
  ASSUME NEW a, NEW b, NEW c, NEW z
  PROVE  <<a, b, c>> \o <<z>> = <<a, b, c, z>>
PROOF
<1> DEFINE S == {a, b, c, z}
           p == <<a, b, c>>
           h == <<a, b, c, z>>
<1>1. p \in Seq(S) /\ h \in Seq(S) /\ z \in S
  OBVIOUS
<1>2. Len(p) = 3 /\ Len(h) = 4 /\ h[4] = z /\ \A i \in 1..3 : h[i] = p[i]
  OBVIOUS
<1> HIDE DEF S, p, h
<1>3. Len(h) = Len(p) + 1 /\ h[Len(h)] = z /\ \A i \in 1..Len(p) : h[i] = p[i]
  BY <1>2
<1>4. p \o <<z>> = h
  BY <1>1, <1>3, SnocIs
<1> QED BY <1>4 DEF p, h

\* Four elements and one more.
LEMMA Snoc4 ==
  ASSUME NEW a, NEW b, NEW c, NEW d, NEW z
  PROVE  <<a, b, c, d>> \o <<z>> = <<a, b, c, d, z>>
PROOF
<1> DEFINE S == {a, b, c, d, z}
           p == <<a, b, c, d>>
           h == <<a, b, c, d, z>>
<1>1. p \in Seq(S) /\ h \in Seq(S) /\ z \in S
  OBVIOUS
<1>2. Len(p) = 4 /\ Len(h) = 5 /\ h[5] = z /\ \A i \in 1..4 : h[i] = p[i]
  OBVIOUS
<1> HIDE DEF S, p, h
<1>3. Len(h) = Len(p) + 1 /\ h[Len(h)] = z /\ \A i \in 1..Len(p) : h[i] = p[i]
  BY <1>2
<1>4. p \o <<z>> = h
  BY <1>1, <1>3, SnocIs
<1> QED BY <1>4 DEF p, h

\* Five elements and one more.
LEMMA Snoc5 ==
  ASSUME NEW a, NEW b, NEW c, NEW d, NEW e, NEW z
  PROVE  <<a, b, c, d, e>> \o <<z>> = <<a, b, c, d, e, z>>
PROOF
<1> DEFINE S == {a, b, c, d, e, z}
           p == <<a, b, c, d, e>>
           h == <<a, b, c, d, e, z>>
<1>1. p \in Seq(S) /\ h \in Seq(S) /\ z \in S
  OBVIOUS
<1>2. Len(p) = 5 /\ Len(h) = 6 /\ h[6] = z /\ \A i \in 1..5 : h[i] = p[i]
  OBVIOUS
<1> HIDE DEF S, p, h
<1>3. Len(h) = Len(p) + 1 /\ h[Len(h)] = z /\ \A i \in 1..Len(p) : h[i] = p[i]
  BY <1>2
<1>4. p \o <<z>> = h
  BY <1>1, <1>3, SnocIs
<1> QED BY <1>4 DEF p, h

\* Six elements and one more.
LEMMA Snoc6 ==
  ASSUME NEW a, NEW b, NEW c, NEW d, NEW e, NEW f, NEW z
  PROVE  <<a, b, c, d, e, f>> \o <<z>> = <<a, b, c, d, e, f, z>>
PROOF
<1> DEFINE S == {a, b, c, d, e, f, z}
           p == <<a, b, c, d, e, f>>
           h == <<a, b, c, d, e, f, z>>
<1>1. p \in Seq(S) /\ h \in Seq(S) /\ z \in S
  OBVIOUS
<1>2. Len(p) = 6 /\ Len(h) = 7 /\ h[7] = z /\ \A i \in 1..6 : h[i] = p[i]
  OBVIOUS
<1> HIDE DEF S, p, h
<1>3. Len(h) = Len(p) + 1 /\ h[Len(h)] = z /\ \A i \in 1..Len(p) : h[i] = p[i]
  BY <1>2
<1>4. p \o <<z>> = h
  BY <1>1, <1>3, SnocIs
<1> QED BY <1>4 DEF p, h

Accesses == {"read", "write", "show", "tune", "return", "saveMode", "mode", "readRow", "showRow",
             "showTable", "showStart", "display", "hdmiDisplay", "lock", "members", "unlock"}

\* Two and four more elements.
LEMMA TwoMore ==
  ASSUME NEW f \in Seq(Accesses), NEW a \in Accesses, NEW b \in Accesses
  PROVE  f \o <<a, b>> = (f \o <<a>>) \o <<b>>
PROOF
<1>1. <<a, b>> = <<a>> \o <<b>>
  BY Snoc1
<1>2. <<a>> \in Seq(Accesses) /\ <<b>> \in Seq(Accesses)
  OBVIOUS
<1> HIDE DEF Accesses
<1> QED BY <1>1, <1>2, ConcatAssociative

\* Four elements at the end, one at a time.
LEMMA FourMore ==
  ASSUME NEW f \in Seq(Accesses), NEW a \in Accesses, NEW b \in Accesses, NEW c \in Accesses,
         NEW d \in Accesses
  PROVE  f \o <<a, b, c, d>> = (((f \o <<a>>) \o <<b>>) \o <<c>>) \o <<d>>
PROOF
<1> DEFINE g == <<a>> \o <<b>>
<1>1. <<a, b>> = g /\ <<a, b, c>> = g \o <<c>> /\ <<a, b, c, d>> = (g \o <<c>>) \o <<d>>
  <2>1. <<a, b>> = g
    BY Snoc1
  <2>2. <<a, b, c>> = g \o <<c>>
    BY <2>1, Snoc2
  <2>3. <<a, b, c, d>> = <<a, b, c>> \o <<d>>
    BY Snoc3
  <2> QED BY <2>1, <2>2, <2>3
<1>2. <<a>> \in Seq(Accesses) /\ <<b>> \in Seq(Accesses) /\ <<c>> \in Seq(Accesses) /\ <<d>> \in Seq(Accesses)
  OBVIOUS
<1>3. g \in Seq(Accesses) /\ g \o <<c>> \in Seq(Accesses)
  BY <1>2
<1>4. f \o g = (f \o <<a>>) \o <<b>>
  BY <1>2, ConcatAssociative
<1> HIDE DEF Accesses, g
<1>5. f \o (g \o <<c>>) = (f \o g) \o <<c>>
  BY <1>2, <1>3, ConcatAssociative
<1>6. f \o ((g \o <<c>>) \o <<d>>) = (f \o (g \o <<c>>)) \o <<d>>
  BY <1>2, <1>3, ConcatAssociative
<1> QED BY <1>1, <1>4, <1>5, <1>6

\* The programs of the setters, as SetProgram puts them together.
LEMMA SetConcats ==
  /\ <<>> \o <<"return">> = <<"return">>
  /\ <<"write", "tune">> \o <<"return">> = <<"write", "tune", "return">>
  /\ <<"read", "show", "write">> \o <<"return">> = <<"read", "show", "write", "return">>
  /\ (<<"tune", "show">> \o <<>>) \o <<"return">> = <<"tune", "show", "return">>
  /\ (<<"tune", "show">> \o <<"write">>) \o <<"return">> = <<"tune", "show", "write", "return">>
  /\ (<<"tune", "show">> \o <<"read", "write">>) \o <<"return">>
         = <<"tune", "show", "read", "write", "return">>
  /\ (<<"show">> \o <<>>) \o <<"return">> = <<"show", "return">>
  /\ (<<"show">> \o <<"write">>) \o <<"return">> = <<"show", "write", "return">>
  /\ (<<"show">> \o <<"read", "write">>) \o <<"return">> = <<"show", "read", "write", "return">>
  /\ (<<>> \o <<"show">>) \o <<"return">> = <<"show", "return">>
  /\ (<<"write">> \o <<"show">>) \o <<"return">> = <<"write", "show", "return">>
  /\ (<<"read", "write">> \o <<"show">>) \o <<"return">> = <<"read", "write", "show", "return">>
PROOF
<1>1. /\ <<>> \o <<"return">> = <<"return">>
      /\ <<"tune", "show">> \o <<>> = <<"tune", "show">> /\ <<"show">> \o <<>> = <<"show">>
      /\ <<>> \o <<"show">> = <<"show">>
  OBVIOUS
<1>2. /\ <<"tune", "show">> \o <<"read", "write">> = (<<"tune", "show">> \o <<"read">>) \o <<"write">>
      /\ <<"show">> \o <<"read", "write">> = (<<"show">> \o <<"read">>) \o <<"write">>
  <2>1. /\ <<"tune", "show">> \in Seq(Accesses) /\ <<"show">> \in Seq(Accesses)
        /\ "read" \in Accesses /\ "write" \in Accesses
    BY DEF Accesses
  <2> QED BY <2>1, TwoMore
<1>3. /\ <<"tune", "show">> \o <<"write">> = <<"tune", "show", "write">>
      /\ <<"tune", "show">> \o <<"read">> = <<"tune", "show", "read">>
      /\ <<"tune", "show", "read">> \o <<"write">> = <<"tune", "show", "read", "write">>
      /\ <<"show">> \o <<"write">> = <<"show", "write">>
      /\ <<"show">> \o <<"read">> = <<"show", "read">>
      /\ <<"show", "read">> \o <<"write">> = <<"show", "read", "write">>
      /\ <<"write">> \o <<"show">> = <<"write", "show">>
      /\ <<"read", "write">> \o <<"show">> = <<"read", "write", "show">>
  BY Snoc1, Snoc2, Snoc3
<1>4. /\ <<"write", "tune">> \o <<"return">> = <<"write", "tune", "return">>
      /\ <<"tune", "show">> \o <<"return">> = <<"tune", "show", "return">>
      /\ <<"show">> \o <<"return">> = <<"show", "return">>
      /\ <<"show", "write">> \o <<"return">> = <<"show", "write", "return">>
      /\ <<"write", "show">> \o <<"return">> = <<"write", "show", "return">>
  BY Snoc1, Snoc2
<1>5. /\ <<"read", "show", "write">> \o <<"return">> = <<"read", "show", "write", "return">>
      /\ <<"tune", "show", "write">> \o <<"return">> = <<"tune", "show", "write", "return">>
      /\ <<"show", "read", "write">> \o <<"return">> = <<"show", "read", "write", "return">>
      /\ <<"read", "write", "show">> \o <<"return">> = <<"read", "write", "show", "return">>
      /\ <<"tune", "show", "read", "write">> \o <<"return">>
             = <<"tune", "show", "read", "write", "return">>
  BY Snoc3, Snoc4
<1> QED BY <1>1, <1>2, <1>3, <1>4, <1>5

\* The programs of SetPQMode, saved and not.
LEMMA ModeConcats ==
  /\ ((<<"saveMode">> \o <<"readRow", "showRow">>) \o <<"hdmiDisplay">>) \o <<"return">>
         = <<"saveMode", "readRow", "showRow", "hdmiDisplay", "return">>
  /\ ((<<>> \o <<"readRow", "showRow">>) \o <<>>) \o <<"return">>
         = <<"readRow", "showRow", "return">>
PROOF
<1>1. <<"saveMode">> \o <<"readRow", "showRow">> = (<<"saveMode">> \o <<"readRow">>) \o <<"showRow">>
  <2>1. <<"saveMode">> \in Seq(Accesses) /\ "readRow" \in Accesses /\ "showRow" \in Accesses
    BY DEF Accesses
  <2> QED BY <2>1, TwoMore
<1>2. (<<>> \o <<"readRow", "showRow">>) \o <<>> = <<"readRow", "showRow">>
  OBVIOUS
<1>3. /\ <<"saveMode">> \o <<"readRow">> = <<"saveMode", "readRow">>
      /\ <<"saveMode", "readRow">> \o <<"showRow">> = <<"saveMode", "readRow", "showRow">>
      /\ <<"saveMode", "readRow", "showRow">> \o <<"hdmiDisplay">>
             = <<"saveMode", "readRow", "showRow", "hdmiDisplay">>
      /\ <<"saveMode", "readRow", "showRow", "hdmiDisplay">> \o <<"return">>
             = <<"saveMode", "readRow", "showRow", "hdmiDisplay", "return">>
      /\ <<"readRow", "showRow">> \o <<"return">> = <<"readRow", "showRow", "return">>
  BY Snoc1, Snoc2, Snoc3, Snoc4
<1> QED BY <1>1, <1>2, <1>3

\* The load of a source, with the display mode shown first or not.
LEMMA LoadConcats ==
  /\ <<"display">> \o LoadProgram = <<"display", "mode", "readRow", "showRow", "showTable">>
  /\ <<>> \o LoadProgram = LoadProgram
PROOF
<1>1. <<"display">> \o LoadProgram
         = (((<<"display">> \o <<"mode">>) \o <<"readRow">>) \o <<"showRow">>) \o <<"showTable">>
  <2>1. /\ <<"display">> \in Seq(Accesses) /\ "mode" \in Accesses /\ "readRow" \in Accesses
        /\ "showRow" \in Accesses /\ "showTable" \in Accesses
    BY DEF Accesses
  <2> QED BY <2>1, FourMore DEF LoadProgram
<1>2. <<>> \o LoadProgram = LoadProgram
  BY DEF LoadProgram
<1>3. /\ <<"display">> \o <<"mode">> = <<"display", "mode">>
      /\ <<"display", "mode">> \o <<"readRow">> = <<"display", "mode", "readRow">>
      /\ <<"display", "mode", "readRow">> \o <<"showRow">> = <<"display", "mode", "readRow", "showRow">>
      /\ <<"display", "mode", "readRow", "showRow">> \o <<"showTable">>
             = <<"display", "mode", "readRow", "showRow", "showTable">>
  BY Snoc1, Snoc2, Snoc3, Snoc4
<1> QED BY <1>1, <1>2, <1>3

\* The constructor's programs.
LEMMA BootConcats ==
  /\ LoadProgram \o <<"showStart", "return">>
         = <<"mode", "readRow", "showRow", "showTable", "showStart", "return">>
  /\ (<<"display">> \o LoadProgram) \o <<"showStart", "return">>
         = <<"display", "mode", "readRow", "showRow", "showTable", "showStart", "return">>
PROOF
<1>1. /\ LoadProgram \o <<"showStart", "return">> = (LoadProgram \o <<"showStart">>) \o <<"return">>
      /\ <<"display", "mode", "readRow", "showRow", "showTable">> \o <<"showStart", "return">>
           = (<<"display", "mode", "readRow", "showRow", "showTable">> \o <<"showStart">>) \o <<"return">>
  <2>1. /\ LoadProgram \in Seq(Accesses)
        /\ <<"display", "mode", "readRow", "showRow", "showTable">> \in Seq(Accesses)
        /\ "showStart" \in Accesses /\ "return" \in Accesses
    BY DEF Accesses, LoadProgram
  <2> QED BY <2>1, TwoMore
<1>2. /\ LoadProgram \o <<"showStart">> = <<"mode", "readRow", "showRow", "showTable", "showStart">>
      /\ <<"mode", "readRow", "showRow", "showTable", "showStart">> \o <<"return">>
             = <<"mode", "readRow", "showRow", "showTable", "showStart", "return">>
  BY Snoc4, Snoc5 DEF LoadProgram
<1>3. /\ <<"display", "mode", "readRow", "showRow", "showTable">> \o <<"showStart">>
             = <<"display", "mode", "readRow", "showRow", "showTable", "showStart">>
      /\ <<"display", "mode", "readRow", "showRow", "showTable", "showStart">> \o <<"return">>
             = <<"display", "mode", "readRow", "showRow", "showTable", "showStart", "return">>
  BY Snoc5, Snoc6
<1> QED BY <1>1, <1>2, <1>3, LoadConcats

\* What a change of source goes on with once the members are set.
LEMMA MembersConcats ==
  /\ <<>> \o <<"unlock">> = <<"unlock">>
  /\ (<<>> \o <<"return">>) \o <<"unlock">> = <<"return", "unlock">>
  /\ ((<<>> \o <<>>) \o <<"return">>) \o <<"unlock">> = <<"return", "unlock">>
  /\ ((<<"display">> \o <<>>) \o <<"return">>) \o <<"unlock">> = <<"display", "return", "unlock">>
  /\ ((<<>> \o LoadProgram) \o <<"return">>) \o <<"unlock">>
         = <<"mode", "readRow", "showRow", "showTable", "return", "unlock">>
  /\ ((<<"display">> \o LoadProgram) \o <<"return">>) \o <<"unlock">>
         = <<"display", "mode", "readRow", "showRow", "showTable", "return", "unlock">>
PROOF
<1>1. /\ <<>> \o <<"unlock">> = <<"unlock">> /\ <<>> \o <<"return">> = <<"return">>
      /\ <<>> \o <<>> = <<>> /\ <<"display">> \o <<>> = <<"display">>
  OBVIOUS
<1>2. /\ <<"return">> \o <<"unlock">> = <<"return", "unlock">>
      /\ <<"display">> \o <<"return">> = <<"display", "return">>
      /\ <<"display", "return">> \o <<"unlock">> = <<"display", "return", "unlock">>
  BY Snoc1, Snoc2
<1>3. /\ LoadProgram \o <<"return">> = <<"mode", "readRow", "showRow", "showTable", "return">>
      /\ <<"mode", "readRow", "showRow", "showTable", "return">> \o <<"unlock">>
             = <<"mode", "readRow", "showRow", "showTable", "return", "unlock">>
  BY Snoc4, Snoc5 DEF LoadProgram
<1>4. /\ <<"display", "mode", "readRow", "showRow", "showTable">> \o <<"return">>
             = <<"display", "mode", "readRow", "showRow", "showTable", "return">>
      /\ <<"display", "mode", "readRow", "showRow", "showTable", "return">> \o <<"unlock">>
             = <<"display", "mode", "readRow", "showRow", "showTable", "return", "unlock">>
  BY Snoc5, Snoc6
<1> QED BY <1>1, <1>2, <1>3, <1>4, LoadConcats

-----------------------------------------------------------------------------
(* What a call may still have to do, and the invariants.                    *)

\* Of a setter.
SetLeft ==
    { <<>>, <<"return">>, <<"show", "return">>, <<"tune", "return">>,
      <<"tune", "show", "return">>,
      <<"write", "return">>, <<"write", "show", "return">>, <<"write", "tune", "return">>,
      <<"show", "write", "return">>, <<"tune", "show", "write", "return">>,
      <<"read", "write", "return">>, <<"read", "write", "show", "return">>,
      <<"show", "read", "write", "return">>, <<"tune", "show", "read", "write", "return">>,
      <<"read", "show", "write", "return">> }

\* Of a setter: nothing is left to write; what it writes has been read.
Wrote == { <<"return">>, <<"show", "return">>, <<"tune", "return">>,
           <<"tune", "show", "return">> }
HasRead == { <<"write", "return">>, <<"write", "show", "return">>,
             <<"show", "write", "return">> }
NoRead == { <<"write", "tune", "return">>, <<"tune", "show", "write", "return">> }

\* Of a setter, by its setting: the switch of the colours, a colour, a field of the
\* panel's record, a setting kept before it is shown, and the rest.
TuneLeft == { <<>>, <<"return">>, <<"tune", "return">>, <<"write", "tune", "return">> }
PlainLeft ==
    { <<>>, <<"return">>, <<"write", "return">>, <<"read", "write", "return">>,
      <<"show", "return">>, <<"show", "write", "return">>, <<"show", "read", "write", "return">> }
ColourLeft ==
    PlainLeft \cup { <<"tune", "show", "return">>, <<"tune", "show", "write", "return">>,
                     <<"tune", "show", "read", "write", "return">> }
LcdLeft ==
    { <<>>, <<"return">>, <<"write", "return">>, <<"show", "write", "return">>,
      <<"read", "show", "write", "return">> }
FirstLeft ==
    { <<>>, <<"return">>, <<"show", "return">>, <<"write", "show", "return">>,
      <<"read", "write", "show", "return">> }
KindLeft(s) == IF s = "ColorTune" THEN TuneLeft
               ELSE IF Rows[s].keep = "cms" THEN ColourLeft
               ELSE IF Rows[s].keep = "lcd" THEN LcdLeft
               ELSE IF Rows[s].saveFirst THEN FirstLeft ELSE PlainLeft

\* What a setter has left once it has shown its value.
HasShown == { <<"return">>, <<"write", "return">>, <<"read", "write", "return">> }

\* Of SetPQMode.
ModeLeft ==
    { <<>>, <<"return">>, <<"hdmiDisplay", "return">>, <<"showRow", "return">>,
      <<"showRow", "hdmiDisplay", "return">>, <<"readRow", "showRow", "return">>,
      <<"readRow", "showRow", "hdmiDisplay", "return">>,
      <<"saveMode", "readRow", "showRow", "hdmiDisplay", "return">> }

\* Of a change of source, once it is inside PqControlMutex.
Inside ==
    { <<"members">>, <<"unlock">>, <<"return", "unlock">>, <<"showTable", "return", "unlock">>,
      <<"showRow", "showTable", "return", "unlock">>,
      <<"readRow", "showRow", "showTable", "return", "unlock">>,
      <<"mode", "readRow", "showRow", "showTable", "return", "unlock">>,
      <<"display", "return", "unlock">>,
      <<"display", "mode", "readRow", "showRow", "showTable", "return", "unlock">> }
\* Of the constructor.
BootLeft ==
    { <<"return">>, <<"showStart", "return">>, <<"showTable", "showStart", "return">>,
      <<"showRow", "showTable", "showStart", "return">>,
      <<"readRow", "showRow", "showTable", "showStart", "return">>,
      <<"mode", "readRow", "showRow", "showTable", "showStart", "return">>,
      <<"display", "mode", "readRow", "showRow", "showTable", "showStart", "return">> }
SwitchLeft == { <<>>, <<"lock", "members">> } \cup Inside \cup BootLeft
InfoLeft == { <<>>, <<"return">>, <<"unlock", "return">>, <<"lock", "unlock", "return">> }

\* Where a thread owns PqControlMutex.
Owns == Inside \cup { <<"unlock", "return">> }

\* Of each kind of call.
Left(op) == CASE op = "set" -> SetLeft [] op = "mode" -> ModeLeft
              [] op = "switch" -> SwitchLeft [] op = "info" -> InfoLeft
              [] OTHER -> {<<>>}

\* The setting is written with the record it shares.
Whole(s) == Cardinality(Shared(s)) > 1

Ops == {"none", "set", "mode", "switch", "info"}
Programs == SetLeft \cup ModeLeft \cup SwitchLeft \cup InfoLeft

\* Values of a setting: two of them are used as an index and as a switch.
Value(s) == CASE s = "MemcMode" -> 0..3 [] s = "ColorTune" -> {0, 1} [] OTHER -> Int

Calls == [op : Ops, s : AllSettings \cup {"none"}, v : Int, save : BOOLEAN, g : Signals,
          exit : BOOLEAN]

\* A call does what its kind does, in the order of its program.
Shape ==
    /\ inUse \in SettingGroups /\ flags \in Configs
    /\ call \in [Threads -> Calls]
    /\ todo \in [Threads -> Programs]
    /\ \A t \in Threads :
         /\ todo[t] \in Left(call[t].op)
         /\ call[t].op = "set" =>
              /\ call[t].s \in inUse /\ call[t].v \in Value(call[t].s)
              /\ todo[t] \in NoRead => ~Whole(call[t].s)
         /\ call[t].op = "mode" => call[t].v \in Modes

\* The store and the members the calls read.
Places ==
    /\ modeOf \in [Signals -> Modes]
    /\ sig \in Signals /\ input \in {g[1] : g \in Signals}
    /\ left \in BOOLEAN

\* A thread is inside PqControlMutex exactly when it owns it.
Owner == \A t \in Threads : todo[t] \in Owns <=> lock = t

\* Two calls that conflict have both been told so, and nothing is promised of
\* what they touch.
Overlap ==
    /\ \A t, u \in Threads :
         t # u /\ Working(t) /\ Working(u) /\ Conflict(call[t], call[u]) => t \in clash
    /\ clash \subseteq Threads
    /\ \A t \in clash : Working(t) /\ \A k \in DOMAIN promised : k[1] \notin Touched(call[t])

\* A record read to be written whole holds what is promised of its fields.
RowKept ==
    \A t \in Threads :
        LET c == call[t] IN
        c.op = "set" /\ todo[t] \in HasRead /\ Whole(c.s) =>
            /\ DOMAIN row[t].fields = Shared(c.s) \cap inUse
            /\ \A r \in DOMAIN row[t].fields :
                  LET k == <<r, Place(r, row[t].mode)>> IN
                  k \in DOMAIN promised => row[t].fields[r] = promised[k]
            /\ t \notin clash => Place(c.s, row[t].mode) = GetPlace(c.s)

\* A setter that has written, and that no call ran into, finds its value there.
WriteKept ==
    \A t \in Threads :
        LET c == call[t]  k == <<c.s, GetPlace(c.s)>> IN
        c.op = "set" /\ Keeps(c) /\ todo[t] \in Wrote /\ t \notin clash =>
            k \in DOMAIN file /\ file[k] = c.v

\* What an access of a setter leaves of its program.
LEMMA SetTails ==
  ASSUME NEW q \in SetLeft \ {<<>>}
  PROVE  /\ Head(q) \in {"read", "write", "show", "tune", "return"}
         /\ Tail(q) \in SetLeft /\ Tail(q) \notin NoRead
         /\ Head(q) = "read" => Tail(q) \in HasRead
         /\ Head(q) = "write" => q \in HasRead \cup NoRead
         /\ Head(q) # "read" /\ Tail(q) \in HasRead => q \in HasRead \cup NoRead
         /\ Head(q) # "write" /\ Tail(q) \in Wrote => q \in Wrote
         /\ Head(q) = "return" => q \in Wrote
         /\ Head(q) = "return" <=> Tail(q) = <<>>
PROOF
<1>1. CASE q = <<"return">>
  <2>1. Head(q) = "return" /\ Tail(q) = <<>>
    BY <1>1
  <2> QED BY <1>1, <2>1 DEF SetLeft, NoRead, HasRead, Wrote
<1>2. CASE q = <<"show", "return">>
  <2>1. Head(q) = "show" /\ Tail(q) = <<"return">>
    BY <1>2
  <2> QED BY <1>2, <2>1 DEF SetLeft, NoRead, HasRead, Wrote
<1>3. CASE q = <<"tune", "return">>
  <2>1. Head(q) = "tune" /\ Tail(q) = <<"return">>
    BY <1>3
  <2> QED BY <1>3, <2>1 DEF SetLeft, NoRead, HasRead, Wrote
<1>4. CASE q = <<"tune", "show", "return">>
  <2>1. Head(q) = "tune" /\ Tail(q) = <<"show", "return">>
    BY <1>4
  <2> QED BY <1>4, <2>1 DEF SetLeft, NoRead, HasRead, Wrote
<1>5. CASE q = <<"write", "return">>
  <2>1. Head(q) = "write" /\ Tail(q) = <<"return">>
    BY <1>5
  <2> QED BY <1>5, <2>1 DEF SetLeft, NoRead, HasRead, Wrote
<1>6. CASE q = <<"write", "show", "return">>
  <2>1. Head(q) = "write" /\ Tail(q) = <<"show", "return">>
    BY <1>6
  <2> QED BY <1>6, <2>1 DEF SetLeft, NoRead, HasRead, Wrote
<1>7. CASE q = <<"write", "tune", "return">>
  <2>1. Head(q) = "write" /\ Tail(q) = <<"tune", "return">>
    BY <1>7
  <2> QED BY <1>7, <2>1 DEF SetLeft, NoRead, HasRead, Wrote
<1>8. CASE q = <<"show", "write", "return">>
  <2>1. Head(q) = "show" /\ Tail(q) = <<"write", "return">>
    BY <1>8
  <2> QED BY <1>8, <2>1 DEF SetLeft, NoRead, HasRead, Wrote
<1>9. CASE q = <<"tune", "show", "write", "return">>
  <2>1. Head(q) = "tune" /\ Tail(q) = <<"show", "write", "return">>
    BY <1>9
  <2> QED BY <1>9, <2>1 DEF SetLeft, NoRead, HasRead, Wrote
<1>10. CASE q = <<"read", "write", "return">>
  <2>1. Head(q) = "read" /\ Tail(q) = <<"write", "return">>
    BY <1>10
  <2> QED BY <1>10, <2>1 DEF SetLeft, NoRead, HasRead, Wrote
<1>11. CASE q = <<"read", "write", "show", "return">>
  <2>1. Head(q) = "read" /\ Tail(q) = <<"write", "show", "return">>
    BY <1>11
  <2> QED BY <1>11, <2>1 DEF SetLeft, NoRead, HasRead, Wrote
<1>12. CASE q = <<"show", "read", "write", "return">>
  <2>1. Head(q) = "show" /\ Tail(q) = <<"read", "write", "return">>
    BY <1>12
  <2> QED BY <1>12, <2>1 DEF SetLeft, NoRead, HasRead, Wrote
<1>13. CASE q = <<"tune", "show", "read", "write", "return">>
  <2>1. Head(q) = "tune" /\ Tail(q) = <<"show", "read", "write", "return">>
    BY <1>13
  <2> QED BY <1>13, <2>1 DEF SetLeft, NoRead, HasRead, Wrote
<1>14. CASE q = <<"read", "show", "write", "return">>
  <2>1. Head(q) = "read" /\ Tail(q) = <<"show", "write", "return">>
    BY <1>14
  <2> QED BY <1>14, <2>1 DEF SetLeft, NoRead, HasRead, Wrote
<1> QED BY <1>1, <1>2, <1>3, <1>4, <1>5, <1>6, <1>7, <1>8, <1>9, <1>10, <1>11, <1>12, <1>13, <1>14 DEF SetLeft

\* What an access of SetPQMode leaves of its program.
LEMMA ModeTails ==
  ASSUME NEW q \in ModeLeft \ {<<>>}
  PROVE  /\ Head(q) \in {"saveMode", "readRow", "showRow", "hdmiDisplay", "return"}
         /\ Tail(q) \in ModeLeft
         /\ Head(q) = "return" <=> Tail(q) = <<>>
PROOF
<1>1. CASE q = <<"return">>
  <2>1. Head(q) = "return" /\ Tail(q) = <<>>
    BY <1>1
  <2> QED BY <1>1, <2>1 DEF ModeLeft
<1>2. CASE q = <<"hdmiDisplay", "return">>
  <2>1. Head(q) = "hdmiDisplay" /\ Tail(q) = <<"return">>
    BY <1>2
  <2> QED BY <1>2, <2>1 DEF ModeLeft
<1>3. CASE q = <<"showRow", "return">>
  <2>1. Head(q) = "showRow" /\ Tail(q) = <<"return">>
    BY <1>3
  <2> QED BY <1>3, <2>1 DEF ModeLeft
<1>4. CASE q = <<"showRow", "hdmiDisplay", "return">>
  <2>1. Head(q) = "showRow" /\ Tail(q) = <<"hdmiDisplay", "return">>
    BY <1>4
  <2> QED BY <1>4, <2>1 DEF ModeLeft
<1>5. CASE q = <<"readRow", "showRow", "return">>
  <2>1. Head(q) = "readRow" /\ Tail(q) = <<"showRow", "return">>
    BY <1>5
  <2> QED BY <1>5, <2>1 DEF ModeLeft
<1>6. CASE q = <<"readRow", "showRow", "hdmiDisplay", "return">>
  <2>1. Head(q) = "readRow" /\ Tail(q) = <<"showRow", "hdmiDisplay", "return">>
    BY <1>6
  <2> QED BY <1>6, <2>1 DEF ModeLeft
<1>7. CASE q = <<"saveMode", "readRow", "showRow", "hdmiDisplay", "return">>
  <2>1. Head(q) = "saveMode" /\ Tail(q) = <<"readRow", "showRow", "hdmiDisplay", "return">>
    BY <1>7
  <2> QED BY <1>7, <2>1 DEF ModeLeft
<1> QED BY <1>1, <1>2, <1>3, <1>4, <1>5, <1>6, <1>7 DEF ModeLeft

\* What an access made inside PqControlMutex leaves.
LEMMA InsideTails ==
  ASSUME NEW q \in Inside
  PROVE  /\ Head(q) \in {"members", "mode", "readRow", "showRow", "showTable", "display", "unlock", "return"}
         /\ Head(q) \notin {"members", "unlock"} => Tail(q) \in Inside
         /\ Head(q) = "unlock" <=> q = <<"unlock">>
         /\ q = <<"unlock">> => Tail(q) = <<>>
         /\ Head(q) = "return" <=> Tail(q) = <<"unlock">>
PROOF
<1>1. CASE q = <<"members">>
  <2>1. Head(q) = "members" /\ Tail(q) = <<>>
    BY <1>1
  <2> QED BY <1>1, <2>1 DEF Inside
<1>2. CASE q = <<"unlock">>
  <2>1. Head(q) = "unlock" /\ Tail(q) = <<>>
    BY <1>2
  <2> QED BY <1>2, <2>1 DEF Inside
<1>3. CASE q = <<"return", "unlock">>
  <2>1. Head(q) = "return" /\ Tail(q) = <<"unlock">>
    BY <1>3
  <2> QED BY <1>3, <2>1 DEF Inside
<1>4. CASE q = <<"showTable", "return", "unlock">>
  <2>1. Head(q) = "showTable" /\ Tail(q) = <<"return", "unlock">>
    BY <1>4
  <2> QED BY <1>4, <2>1 DEF Inside
<1>5. CASE q = <<"showRow", "showTable", "return", "unlock">>
  <2>1. Head(q) = "showRow" /\ Tail(q) = <<"showTable", "return", "unlock">>
    BY <1>5
  <2> QED BY <1>5, <2>1 DEF Inside
<1>6. CASE q = <<"readRow", "showRow", "showTable", "return", "unlock">>
  <2>1. Head(q) = "readRow" /\ Tail(q) = <<"showRow", "showTable", "return", "unlock">>
    BY <1>6
  <2> QED BY <1>6, <2>1 DEF Inside
<1>7. CASE q = <<"mode", "readRow", "showRow", "showTable", "return", "unlock">>
  <2>1. Head(q) = "mode" /\ Tail(q) = <<"readRow", "showRow", "showTable", "return", "unlock">>
    BY <1>7
  <2> QED BY <1>7, <2>1 DEF Inside
<1>8. CASE q = <<"display", "return", "unlock">>
  <2>1. Head(q) = "display" /\ Tail(q) = <<"return", "unlock">>
    BY <1>8
  <2> QED BY <1>8, <2>1 DEF Inside
<1>9. CASE q = <<"display", "mode", "readRow", "showRow", "showTable", "return", "unlock">>
  <2>1. Head(q) = "display" /\ Tail(q) = <<"mode", "readRow", "showRow", "showTable", "return", "unlock">>
    BY <1>9
  <2> QED BY <1>9, <2>1 DEF Inside
<1> QED BY <1>1, <1>2, <1>3, <1>4, <1>5, <1>6, <1>7, <1>8, <1>9 DEF Inside

\* What an access of the constructor leaves.
LEMMA BootTails ==
  ASSUME NEW q \in BootLeft
  PROVE  /\ Head(q) \in {"mode", "readRow", "showRow", "showTable", "showStart", "display", "return"}
         /\ Tail(q) \in BootLeft \cup {<<>>}
         /\ Head(q) = "return" <=> Tail(q) = <<>>
PROOF
<1>1. CASE q = <<"return">>
  <2>1. Head(q) = "return" /\ Tail(q) = <<>>
    BY <1>1
  <2> QED BY <1>1, <2>1 DEF BootLeft
<1>2. CASE q = <<"showStart", "return">>
  <2>1. Head(q) = "showStart" /\ Tail(q) = <<"return">>
    BY <1>2
  <2> QED BY <1>2, <2>1 DEF BootLeft
<1>3. CASE q = <<"showTable", "showStart", "return">>
  <2>1. Head(q) = "showTable" /\ Tail(q) = <<"showStart", "return">>
    BY <1>3
  <2> QED BY <1>3, <2>1 DEF BootLeft
<1>4. CASE q = <<"showRow", "showTable", "showStart", "return">>
  <2>1. Head(q) = "showRow" /\ Tail(q) = <<"showTable", "showStart", "return">>
    BY <1>4
  <2> QED BY <1>4, <2>1 DEF BootLeft
<1>5. CASE q = <<"readRow", "showRow", "showTable", "showStart", "return">>
  <2>1. Head(q) = "readRow" /\ Tail(q) = <<"showRow", "showTable", "showStart", "return">>
    BY <1>5
  <2> QED BY <1>5, <2>1 DEF BootLeft
<1>6. CASE q = <<"mode", "readRow", "showRow", "showTable", "showStart", "return">>
  <2>1. Head(q) = "mode" /\ Tail(q) = <<"readRow", "showRow", "showTable", "showStart", "return">>
    BY <1>6
  <2> QED BY <1>6, <2>1 DEF BootLeft
<1>7. CASE q = <<"display", "mode", "readRow", "showRow", "showTable", "showStart", "return">>
  <2>1. Head(q) = "display" /\ Tail(q) = <<"mode", "readRow", "showRow", "showTable", "showStart", "return">>
    BY <1>7
  <2> QED BY <1>7, <2>1 DEF BootLeft
<1> QED BY <1>1, <1>2, <1>3, <1>4, <1>5, <1>6, <1>7 DEF BootLeft

\* What an access of GetHistogramAve, which only takes the mutex, leaves.
LEMMA InfoTails ==
  ASSUME NEW q \in InfoLeft \ {<<>>}
  PROVE  /\ Head(q) \in {"lock", "unlock", "return"}
         /\ Tail(q) \in InfoLeft
         /\ Head(q) = "lock" => Tail(q) = <<"unlock", "return">>
         /\ Head(q) = "unlock" => q = <<"unlock", "return">> /\ Tail(q) = <<"return">>
         /\ Head(q) = "return" <=> Tail(q) = <<>>
PROOF
<1>1. CASE q = <<"return">>
  <2>1. Head(q) = "return" /\ Tail(q) = <<>>
    BY <1>1
  <2> QED BY <1>1, <2>1 DEF InfoLeft
<1>2. CASE q = <<"unlock", "return">>
  <2>1. Head(q) = "unlock" /\ Tail(q) = <<"return">>
    BY <1>2
  <2> QED BY <1>2, <2>1 DEF InfoLeft
<1>3. CASE q = <<"lock", "unlock", "return">>
  <2>1. Head(q) = "lock" /\ Tail(q) = <<"unlock", "return">>
    BY <1>3
  <2> QED BY <1>3, <2>1 DEF InfoLeft
<1> QED BY <1>1, <1>2, <1>3 DEF InfoLeft

\* Programs of setters, of SetPQMode and of the constructor never own the mutex.
LEMMA OwnsApart ==
  /\ \A q \in SetLeft \cup ModeLeft \cup BootLeft : q \notin Owns
  /\ <<"lock", "members">> \notin Owns
  /\ \A q \in InfoLeft : q \in Owns <=> q = <<"unlock", "return">>
PROOF
<1>1. \A q \in SetLeft : q \notin Owns
  BY SMTT(60) DEF SetLeft, Owns, Inside
<1>2. \A q \in ModeLeft \cup BootLeft : q \notin Owns
  <2>1. \A q \in ModeLeft : q \notin Owns
    BY SMTT(60) DEF ModeLeft, Owns, Inside
  <2>2. \A q \in BootLeft : q \notin Owns
    BY SMTT(60) DEF BootLeft, Owns, Inside
  <2> QED BY <2>1, <2>2
<1>3. /\ <<"lock", "members">> \notin Owns
      /\ \A q \in InfoLeft : q \in Owns <=> q = <<"unlock", "return">>
  BY SMTT(60) DEF InfoLeft, Owns, Inside
<1> QED BY <1>1, <1>2, <1>3

\* Only a change of source ends with the mutex to give back.
LEMMA WorkingLeft ==
  /\ \A q \in SetLeft \cup ModeLeft \cup BootLeft \cup InfoLeft : q # <<"unlock">>
  /\ \A q \in Inside \cup BootLeft : q # <<>>
PROOF BY SMTT(60) DEF SetLeft, ModeLeft, BootLeft, InfoLeft, Inside

-----------------------------------------------------------------------------
(* What the tables of settings and the programs say.                        *)

\* The numbers of a row.
Typed(r) == r.low \in Int /\ r.high \in Int /\ r.default \in Int /\ r.bend \subseteq Int

\* The rows of the basic picture, noise reduction and contrast settings.
LEMMA BasicTyped ==
  /\ Typed(Brightness) /\ Typed(Contrast) /\ Typed(Saturation)
  /\ Typed(Hue) /\ Typed(Sharpness) /\ Typed(SuperResolution)
  /\ Typed(NoiseReduction) /\ Typed(Dnlp) /\ Typed(LocalContrast)
PROOF BY SMTT(60) DEF
  Typed, Row, Brightness, Contrast, Saturation, Hue, Sharpness, SuperResolution,
    NoiseReduction, Dnlp, LocalContrast

\* The rows of the colour, HDR and backlight settings.
LEMMA ColourTyped ==
  /\ Typed(ColorGamut) /\ Typed(BlackStretch) /\ Typed(BlueStretch)
  /\ Typed(ChromaCoring) /\ Typed(MpegNr) /\ Typed(ColorBaseMode)
  /\ Typed(HDRTMO) /\ Typed(DarkDetail) /\ Typed(Backlight)
PROOF BY SMTT(60) DEF
  Typed, Row, ColorGamut, BlackStretch, BlueStretch, ChromaCoring, MpegNr,
    ColorBaseMode, HDRTMO, DarkDetail, Backlight

\* The rows of MEMC, the display mode and local dimming.
LEMMA MotionTyped ==
  /\ Typed(MemcMode) /\ Typed(MemcDeBlur) /\ Typed(MemcDeJudder)
  /\ Typed(DisplayMode) /\ Typed(SmoothPlus) /\ Typed(Deblock)
  /\ Typed(DemoSquito) /\ Typed(McDi) /\ Typed(LocalDimming)
PROOF BY SMTT(60) DEF
  Typed, Row, MemcMode, MemcDeBlur, MemcDeJudder, DisplayMode, SmoothPlus, Deblock,
    DemoSquito, McDi, LocalDimming

\* The rows of the AI, panel and colour tuning settings.
LEMMA DeviceTyped ==
  /\ Typed(DynamicBacklight) /\ Typed(AiSr) /\ Typed(Aipq)
  /\ Typed(DdrSsc) /\ Typed(LvdsLevel) /\ Typed(LvdsFrep)
  /\ Typed(LvdsMode) /\ Typed(ColorTune) /\ Typed(ColorCustomize)
  /\ Typed(ColorCustomizeBy3DLut)
PROOF BY SMTT(60) DEF
  Typed, Row, DynamicBacklight, AiSr, Aipq, DdrSsc, LvdsLevel, LvdsFrep, LvdsMode,
    ColorTune, ColorCustomize, ColorCustomizeBy3DLut

\* The bounds and the default of every row are numbers.
LEMMA RowsTyped == \A s \in AllSettings : Typed(Rows[s])
PROOF BY BasicTyped, ColourTyped, MotionTyped, DeviceTyped, SMTT(60) DEF AllSettings, Rows

\* The kinds of place.
Recorded == {"mode", "lcd", "cms", "lut"}
Moved == {"mode", "source", "level"}

\* Only two settings of MEMC are kept by level; where MEMC, colour tuning and the display mode are kept.
LEMMA KeepsOf ==
  /\ \A s \in AllSettings : Rows[s].keep = "level" => s \in {"MemcDeBlur", "MemcDeJudder"}
  /\ Rows["MemcMode"].keep = "source" /\ Rows["ColorTune"].keep = "global"
  /\ Rows["DisplayMode"].keep = "source"
  /\ {"MemcMode", "ColorTune", "DisplayMode"} \subseteq AllSettings
PROOF
<1> DEFINE NotLevel(r) == r.keep # "level"
<1>1. /\ NotLevel(Brightness) /\ NotLevel(Contrast) /\ NotLevel(Saturation) /\ NotLevel(Hue)
      /\ NotLevel(Sharpness) /\ NotLevel(SuperResolution) /\ NotLevel(NoiseReduction) /\ NotLevel(Dnlp)
      /\ NotLevel(LocalContrast) /\ NotLevel(ColorGamut) /\ NotLevel(BlackStretch)
      /\ NotLevel(BlueStretch) /\ NotLevel(ChromaCoring)
  BY SMTT(60) DEF Row, Brightness, Contrast, Saturation, Hue, Sharpness, SuperResolution, NoiseReduction,
     Dnlp, LocalContrast, ColorGamut, BlackStretch, BlueStretch, ChromaCoring
<1>2. /\ NotLevel(MpegNr) /\ NotLevel(ColorBaseMode) /\ NotLevel(HDRTMO) /\ NotLevel(DarkDetail)
      /\ NotLevel(Backlight) /\ NotLevel(MemcMode) /\ NotLevel(DisplayMode) /\ NotLevel(SmoothPlus)
      /\ NotLevel(Deblock) /\ NotLevel(DemoSquito) /\ NotLevel(McDi) /\ NotLevel(LocalDimming)
  BY SMTT(60) DEF Row, MpegNr, ColorBaseMode, HDRTMO, DarkDetail, Backlight, MemcMode, DisplayMode,
     SmoothPlus, Deblock, DemoSquito, McDi, LocalDimming
<1>3. /\ NotLevel(DynamicBacklight) /\ NotLevel(AiSr) /\ NotLevel(Aipq) /\ NotLevel(DdrSsc)
      /\ NotLevel(LvdsLevel) /\ NotLevel(LvdsFrep) /\ NotLevel(LvdsMode) /\ NotLevel(ColorTune)
      /\ NotLevel(ColorCustomize) /\ NotLevel(ColorCustomizeBy3DLut)
  BY SMTT(60) DEF Row, DynamicBacklight, AiSr, Aipq, DdrSsc, LvdsLevel, LvdsFrep, LvdsMode, ColorTune,
     ColorCustomize, ColorCustomizeBy3DLut
<1> HIDE DEF NotLevel
<1>4. \A s \in AllSettings : s \in {"MemcDeBlur", "MemcDeJudder"} \/ NotLevel(Rows[s])
  BY <1>1, <1>2, <1>3, SMTT(60) DEF AllSettings, Rows
<1>5. /\ Rows["MemcMode"] = MemcMode /\ Rows["ColorTune"] = ColorTune /\ Rows["DisplayMode"] = DisplayMode
      /\ {"MemcMode", "ColorTune", "DisplayMode"} \subseteq AllSettings
  BY DEF Rows, AllSettings
<1>6. MemcMode.keep = "source" /\ ColorTune.keep = "global" /\ DisplayMode.keep = "source"
  BY DEF MemcMode, ColorTune, DisplayMode, Row
<1> QED BY <1>4, <1>5, <1>6 DEF NotLevel

\* A row's fields that the programs and the history go by.
Sound(r) ==
  /\ r.keep \in {"mode", "source", "level", "global", "lcd", "cms", "lut", "none"}
  /\ r.load = "row" => r.keep = "mode"
  /\ r.load = "table" => r.keep \in {"source", "global"}
  /\ r.load = "off" => r.keep = "source"
  /\ r.load = "start" => r.keep = "global"
  /\ r.load = "colours" <=> r.keep = "cms"
  /\ r.keep \in {"lcd", "cms", "lut"} => r.gate = "none"
  /\ r.saveFirst => r.keep \in {"mode", "global"}

\* The rows of the picture settings are so,
LEMMA SoundPicture ==
  /\ Sound(Brightness) /\ Sound(Contrast) /\ Sound(Saturation) /\ Sound(Hue) /\ Sound(Sharpness)
  /\ Sound(SuperResolution) /\ Sound(NoiseReduction) /\ Sound(Dnlp) /\ Sound(LocalContrast)
PROOF BY SMTT(60) DEF Sound, Row, Brightness, Contrast, Saturation, Hue, Sharpness, SuperResolution,
  NoiseReduction, Dnlp, LocalContrast

\* those of the colours and the backlight,
LEMMA SoundColour ==
  /\ Sound(ColorGamut) /\ Sound(BlackStretch) /\ Sound(BlueStretch) /\ Sound(ChromaCoring)
  /\ Sound(MpegNr) /\ Sound(ColorBaseMode) /\ Sound(HDRTMO) /\ Sound(DarkDetail) /\ Sound(Backlight)
PROOF BY SMTT(60) DEF Sound, Row, ColorGamut, BlackStretch, BlueStretch, ChromaCoring, MpegNr,
  ColorBaseMode, HDRTMO, DarkDetail, Backlight

\* those of motion and sharpness,
LEMMA SoundMotion ==
  /\ Sound(MemcMode) /\ Sound(MemcDeBlur) /\ Sound(MemcDeJudder) /\ Sound(DisplayMode)
  /\ Sound(SmoothPlus) /\ Sound(Deblock) /\ Sound(DemoSquito) /\ Sound(McDi) /\ Sound(LocalDimming)
PROOF BY SMTT(60) DEF Sound, Row, MemcMode, MemcDeBlur, MemcDeJudder, DisplayMode, SmoothPlus, Deblock,
  DemoSquito, McDi, LocalDimming

\* and those of the detectors, the panel and the records.
LEMMA SoundDevice ==
  /\ Sound(DynamicBacklight) /\ Sound(AiSr) /\ Sound(Aipq) /\ Sound(DdrSsc) /\ Sound(LvdsLevel)
  /\ Sound(LvdsFrep) /\ Sound(LvdsMode) /\ Sound(ColorTune) /\ Sound(ColorCustomize)
  /\ Sound(ColorCustomizeBy3DLut)
PROOF BY SMTT(60) DEF Sound, Row, DynamicBacklight, AiSr, Aipq, DdrSsc, LvdsLevel, LvdsFrep, LvdsMode,
  ColorTune, ColorCustomize, ColorCustomizeBy3DLut

\* Every row.
LEMMA RowsSound == \A s \in AllSettings : Sound(Rows[s])
PROOF BY SoundPicture, SoundColour, SoundMotion, SoundDevice, SMTT(60) DEF AllSettings, Rows

\* One setting besides the switch of the colours is kept before it is shown.
LEMMA FirstOf == \A s \in AllSettings : Rows[s].saveFirst => s \in {"SuperResolution", "ColorTune"}
PROOF
<1> DEFINE Later(r) == ~r.saveFirst
<1>1. /\ Later(Brightness) /\ Later(Contrast) /\ Later(Saturation) /\ Later(Hue) /\ Later(Sharpness)
      /\ Later(NoiseReduction) /\ Later(Dnlp) /\ Later(LocalContrast) /\ Later(ColorGamut)
      /\ Later(BlackStretch) /\ Later(BlueStretch) /\ Later(ChromaCoring)
  BY SMTT(60) DEF Row, Brightness, Contrast, Saturation, Hue, Sharpness, NoiseReduction,
     Dnlp, LocalContrast, ColorGamut, BlackStretch, BlueStretch, ChromaCoring
<1>2. /\ Later(MpegNr) /\ Later(ColorBaseMode) /\ Later(HDRTMO) /\ Later(DarkDetail)
      /\ Later(Backlight) /\ Later(MemcMode) /\ Later(DisplayMode) /\ Later(SmoothPlus)
      /\ Later(Deblock) /\ Later(DemoSquito) /\ Later(McDi) /\ Later(LocalDimming)
      /\ Later(MemcDeBlur) /\ Later(MemcDeJudder)
  BY SMTT(60) DEF Row, MpegNr, ColorBaseMode, HDRTMO, DarkDetail, Backlight, MemcMode, DisplayMode,
     SmoothPlus, Deblock, DemoSquito, McDi, LocalDimming, MemcDeBlur, MemcDeJudder
<1>3. /\ Later(DynamicBacklight) /\ Later(AiSr) /\ Later(Aipq) /\ Later(DdrSsc)
      /\ Later(LvdsLevel) /\ Later(LvdsFrep) /\ Later(LvdsMode)
      /\ Later(ColorCustomize) /\ Later(ColorCustomizeBy3DLut)
  BY SMTT(60) DEF Row, DynamicBacklight, AiSr, Aipq, DdrSsc, LvdsLevel, LvdsFrep, LvdsMode,
     ColorCustomize, ColorCustomizeBy3DLut
<1> HIDE DEF Later
<1>4. \A s \in AllSettings : s \in {"SuperResolution", "ColorTune"} \/ Later(Rows[s])
  BY <1>1, <1>2, <1>3, SMTT(60) DEF AllSettings, Rows
<1> QED BY <1>4 DEF Later

\* Settings that share a record are kept at one kind of place.
LEMMA SharedIs ==
  ASSUME NEW s \in AllSettings
  PROVE  /\ s \in Shared(s) /\ Shared(s) \subseteq AllSettings
         /\ \A r \in Shared(s) : r = s \/ (Rows[r].keep = Rows[s].keep /\ Rows[s].keep \in Recorded)
         /\ Whole(s) => Rows[s].keep \in Recorded
         /\ \A r \in Shared(s) : Rows[r].keep = Rows[s].keep
PROOF
<1>1. CASE Rows[s].keep \in Recorded
  BY <1>1 DEF Shared, Recorded
<1>2. CASE Rows[s].keep \notin Recorded
  <2>1. Shared(s) = {s}
    BY <1>2 DEF Shared, Recorded
  <2>2. Cardinality({s}) = 1
    BY FS_Singleton
  <2>3. ~Whole(s)
    BY <2>1, <2>2 DEF Whole
  <2> QED BY <2>1, <2>3
<1> QED BY <1>1, <1>2

\* A setter touches its whole record, and one of MEMC touches the mode of MEMC.
LEMMA TouchedBySet ==
  ASSUME NEW c, c.op = "set"
  PROVE  /\ Shared(c.s) \subseteq Touched(c)
         /\ c.s \in {"MemcMode", "MemcDeBlur", "MemcDeJudder"} => "MemcMode" \in Touched(c)
PROOF BY DEF Touched

\* A change of mode or source touches every setting it moves.
LEMMA TouchedByMove ==
  ASSUME NEW c, c.op \in {"mode", "switch"}, NEW s \in inUse, Rows[s].keep \in Moved
  PROVE  s \in Touched(c)
PROOF BY DEF Touched, Moved

\* Two calls that touch a setting conflict, unless both change the source.
LEMMA ConflictIs ==
  ASSUME NEW c, NEW d, NEW s, s \in Touched(c), s \in Touched(d), c.op # "switch" \/ d.op # "switch"
  PROVE  Conflict(c, d) /\ Conflict(d, c)
PROOF BY DEF Conflict

\* Conflict is symmetric.
LEMMA ConflictSame ==
  ASSUME NEW c, NEW d, Conflict(c, d)
  PROVE  Conflict(d, c)
PROOF BY DEF Conflict

\* What the program of a setter starts with.
LEMMA SetStarts ==
  ASSUME NEW s \in AllSettings, NEW save \in BOOLEAN
  PROVE  /\ SetProgram(s, save) \in SetLeft /\ SetProgram(s, save) # <<>>
         /\ SetProgram(s, save) \in HasRead \cup NoRead => ~Whole(s)
         /\ SetProgram(s, save) \in Wrote =>
               ~((save \/ Rows[s].always) /\ (Rows[s].skips => Gated(s, flags)))
         /\ SetProgram(s, save) \in KindLeft(s)
         /\ SetProgram(s, save) \in HasShown => ~Gated(s, flags)
         /\ Rows[s].keep = "cms" /\ Gated(s, flags) => Head(SetProgram(s, save)) = "tune"
PROOF
<1> DEFINE keeps == save \/ Rows[s].always
           write == IF ~keeps THEN <<>> ELSE IF Whole(s) THEN <<"read", "write">> ELSE <<"write">>
           body == CASE Rows[s].skips /\ ~Gated(s, flags) -> <<>>
                     [] s = "ColorTune"      -> <<"write", "tune">>
                     [] Rows[s].keep = "cms" -> <<"tune", "show">> \o write
                     [] Rows[s].keep = "lcd" -> <<"read", "show", "write">>
                     [] Rows[s].saveFirst /\ s # "ColorTune" -> write \o <<"show">>
                     [] OTHER                -> <<"show">> \o write
<1>1. SetProgram(s, save) = body \o <<"return">>
  BY DEF SetProgram, Whole
<1>2. /\ s = "ColorTune" => ~Whole(s) /\ Rows[s].keep = "global"
      /\ Rows[s].keep \in {"cms", "lcd"} => ~Rows[s].saveFirst
  BY SharedIs, KeepsOf, RowsSound DEF Recorded, Sound
<1>3. \/ write = <<>> /\ ~keeps
      \/ write = <<"read", "write">> /\ keeps /\ Whole(s)
      \/ write = <<"write">> /\ keeps /\ ~Whole(s)
  OBVIOUS
<1>4. \/ body = <<>> /\ Rows[s].skips /\ ~Gated(s, flags)
      \/ body = <<"write", "tune">> /\ s = "ColorTune"
      \/ body = <<"read", "show", "write">> /\ s # "ColorTune" /\ Rows[s].keep = "lcd"
      \/ body = <<"tune", "show">> \o write /\ s # "ColorTune" /\ Rows[s].keep = "cms"
      \/ /\ body = write \o <<"show">> /\ s # "ColorTune"
         /\ Rows[s].keep \notin {"cms", "lcd"} /\ Rows[s].saveFirst
      \/ /\ body = <<"show">> \o write /\ s # "ColorTune"
         /\ Rows[s].keep \notin {"cms", "lcd"} /\ ~Rows[s].saveFirst
  BY <1>2
<1> HIDE DEF write, body, keeps
<1> DEFINE p == SetProgram(s, save)
<1>5. \/ p = <<"return">> /\ ~(Rows[s].skips => Gated(s, flags))
      \/ p = <<"write", "tune", "return">> /\ ~Whole(s)
      \/ p = <<"read", "show", "write", "return">>
      \/ p \in {<<"tune", "show", "return">>, <<"show", "return">>} /\ ~keeps
      \/ p \in {<<"tune", "show", "write", "return">>, <<"write", "show", "return">>,
                <<"show", "write", "return">>} /\ ~Whole(s)
      \/ p \in {<<"tune", "show", "read", "write", "return">>, <<"read", "write", "show", "return">>,
                <<"show", "read", "write", "return">>}
  <2>1. CASE body = <<>> /\ ~(Rows[s].skips => Gated(s, flags))
    BY <2>1, <1>1, SetConcats
  <2>2. CASE body = <<"write", "tune">> /\ s = "ColorTune"
    BY <2>2, <1>1, <1>2, SetConcats
  <2>3. CASE body = <<"read", "show", "write">>
    BY <2>3, <1>1, SetConcats
  <2>4. CASE body = <<"tune", "show">> \o write
    <3>1. CASE write = <<>> /\ ~keeps
      BY <2>4, <3>1, <1>1, SetConcats
    <3>2. CASE write = <<"read", "write">>
      BY <2>4, <3>2, <1>1, SetConcats
    <3>3. CASE write = <<"write">> /\ ~Whole(s)
      BY <2>4, <3>3, <1>1, SetConcats
    <3> QED BY <1>3, <3>1, <3>2, <3>3
  <2>5. CASE body = write \o <<"show">>
    <3>1. CASE write = <<>> /\ ~keeps
      BY <2>5, <3>1, <1>1, SetConcats
    <3>2. CASE write = <<"read", "write">>
      BY <2>5, <3>2, <1>1, SetConcats
    <3>3. CASE write = <<"write">> /\ ~Whole(s)
      BY <2>5, <3>3, <1>1, SetConcats
    <3> QED BY <1>3, <3>1, <3>2, <3>3
  <2>6. CASE body = <<"show">> \o write
    <3>1. CASE write = <<>> /\ ~keeps
      BY <2>6, <3>1, <1>1, SetConcats
    <3>2. CASE write = <<"read", "write">>
      BY <2>6, <3>2, <1>1, SetConcats
    <3>3. CASE write = <<"write">> /\ ~Whole(s)
      BY <2>6, <3>3, <1>1, SetConcats
    <3> QED BY <1>3, <3>1, <3>2, <3>3
  <2> QED BY <1>4, <2>1, <2>2, <2>3, <2>4, <2>5, <2>6
<1>7. \/ p = <<"return">> /\ ~Gated(s, flags)
      \/ p = <<"write", "tune", "return">> /\ s = "ColorTune"
      \/ p = <<"read", "show", "write", "return">> /\ s # "ColorTune" /\ Rows[s].keep = "lcd"
      \/ /\ p \in {<<"tune", "show", "return">>, <<"tune", "show", "write", "return">>,
                 <<"tune", "show", "read", "write", "return">>}
         /\ s # "ColorTune" /\ Rows[s].keep = "cms"
      \/ /\ p \in {<<"show", "return">>, <<"write", "show", "return">>, <<"read", "write", "show", "return">>}
         /\ s # "ColorTune" /\ Rows[s].keep \notin {"cms", "lcd"} /\ Rows[s].saveFirst
      \/ /\ p \in {<<"show", "return">>, <<"show", "write", "return">>, <<"show", "read", "write", "return">>}
         /\ s # "ColorTune" /\ Rows[s].keep \notin {"cms", "lcd"} /\ ~Rows[s].saveFirst
  <2>1. CASE body = <<>> /\ ~Gated(s, flags)
    BY <2>1, <1>1, SetConcats
  <2>2. CASE body = <<"write", "tune">> /\ s = "ColorTune"
    BY <2>2, <1>1, SetConcats
  <2>3. CASE body = <<"read", "show", "write">> /\ s # "ColorTune" /\ Rows[s].keep = "lcd"
    BY <2>3, <1>1, SetConcats
  <2>4. CASE body = <<"tune", "show">> \o write /\ s # "ColorTune" /\ Rows[s].keep = "cms"
    <3>1. p \in {<<"tune", "show", "return">>, <<"tune", "show", "write", "return">>,
                 <<"tune", "show", "read", "write", "return">>}
      BY <2>4, <1>1, <1>3, SetConcats
    <3> QED BY <3>1, <2>4
  <2>5. CASE /\ body = write \o <<"show">> /\ s # "ColorTune"
             /\ Rows[s].keep \notin {"cms", "lcd"} /\ Rows[s].saveFirst
    <3>1. p \in {<<"show", "return">>, <<"write", "show", "return">>, <<"read", "write", "show", "return">>}
      BY <2>5, <1>1, <1>3, SetConcats
    <3> QED BY <3>1, <2>5
  <2>6. CASE /\ body = <<"show">> \o write /\ s # "ColorTune"
             /\ Rows[s].keep \notin {"cms", "lcd"} /\ ~Rows[s].saveFirst
    <3>1. p \in {<<"show", "return">>, <<"show", "write", "return">>, <<"show", "read", "write", "return">>}
      BY <2>6, <1>1, <1>3, SetConcats
    <3> QED BY <3>1, <2>6
  <2> QED BY <1>4, <2>1, <2>2, <2>3, <2>4, <2>5, <2>6
<1> HIDE DEF p
<1>6. /\ p \in SetLeft /\ p # <<>>
      /\ p \in HasRead \cup NoRead => ~Whole(s)
      /\ p \in Wrote => ~keeps \/ ~(Rows[s].skips => Gated(s, flags))
  <2>1. p \in SetLeft
    BY <1>5 DEF SetLeft
  <2>2. p \in HasRead \cup NoRead => ~Whole(s)
    BY <1>5, SMTT(60) DEF HasRead, NoRead
  <2>3. p \in Wrote => ~keeps \/ ~(Rows[s].skips => Gated(s, flags))
    BY <1>5, SMTT(60) DEF Wrote
  <2>4. p # <<>>
    BY <1>5
  <2> QED BY <2>1, <2>2, <2>3, <2>4
<1>8. p \in KindLeft(s)
  BY <1>7 DEF KindLeft, TuneLeft, PlainLeft, ColourLeft, LcdLeft, FirstLeft
<1>9. p \in HasShown => ~Gated(s, flags)
  BY <1>7, SMTT(60) DEF HasShown
<1>10. Rows[s].keep = "cms" /\ Gated(s, flags) => Head(p) = "tune"
  BY <1>2, <1>7
<1> QED BY <1>6, <1>8, <1>9, <1>10 DEF p, keeps

\* SetPQMode's program is one of a call for a mode.
LEMMA ModeStarts ==
  ASSUME NEW save \in BOOLEAN
  PROVE  /\ ModeProgram(save) \in ModeLeft /\ ModeProgram(save) # <<>>
         /\ save => Head(ModeProgram(save)) = "saveMode"
PROOF
<1>1. CASE save
  <2>1. ModeProgram(save) = ((<<"saveMode">> \o <<"readRow", "showRow">>) \o <<"hdmiDisplay">>) \o <<"return">>
    BY <1>1 DEF ModeProgram
  <2>2. ModeProgram(save) = <<"saveMode", "readRow", "showRow", "hdmiDisplay", "return">>
    BY <2>1, ModeConcats
  <2>3. Head(ModeProgram(save)) = "saveMode" /\ ModeProgram(save) # <<>>
    BY <2>2
  <2> QED BY <2>2, <2>3 DEF ModeLeft
<1>2. CASE ~save
  <2>1. ModeProgram(save) = ((<<>> \o <<"readRow", "showRow">>) \o <<>>) \o <<"return">>
    BY <1>2 DEF ModeProgram
  <2> QED BY <1>2, <2>1, ModeConcats DEF ModeLeft
<1> QED BY <1>1, <1>2

\* The constructor's program, whatever the panel file says.
LEMMA BootStarts == BootProgram \in BootLeft
PROOF
<1>1. CASE DisplayProgram = <<>>
  <2>1. BootProgram = (<<>> \o LoadProgram) \o <<"showStart", "return">>
    BY <1>1 DEF BootProgram
  <2> QED BY <2>1, LoadConcats, BootConcats DEF BootLeft
<1>2. CASE DisplayProgram = <<"display">>
  <2>1. BootProgram = (<<"display">> \o LoadProgram) \o <<"showStart", "return">>
    BY <1>2 DEF BootProgram
  <2> QED BY <2>1, BootConcats DEF BootLeft
<1> QED BY <1>1, <1>2 DEF DisplayProgram

\* What Members goes on with.
LEMMA MembersLeft ==
  ASSUME NEW same \in BOOLEAN, NEW leaves \in BOOLEAN
  PROVE  (IF same THEN <<>> ELSE DisplayProgram \o (IF leaves THEN <<>> ELSE LoadProgram) \o <<"return">>)
             \o <<"unlock">> \in Inside
PROOF
<1> DEFINE q == (IF same THEN <<>> ELSE DisplayProgram \o (IF leaves THEN <<>> ELSE LoadProgram)
                                        \o <<"return">>) \o <<"unlock">>
<1>1. CASE same
  <2>1. q = <<>> \o <<"unlock">>
    BY <1>1
  <2> QED BY <2>1, MembersConcats DEF Inside
<1>2. CASE ~same /\ leaves
  <2>1. q = ((DisplayProgram \o <<>>) \o <<"return">>) \o <<"unlock">>
    BY <1>2
  <2>2. DisplayProgram = <<>> \/ DisplayProgram = <<"display">>
    BY DEF DisplayProgram
  <2>3. q = <<"return", "unlock">> \/ q = <<"display", "return", "unlock">>
    BY <2>1, <2>2, MembersConcats
  <2> QED BY <2>3 DEF Inside
<1>3. CASE ~same /\ ~leaves
  <2>1. q = ((DisplayProgram \o LoadProgram) \o <<"return">>) \o <<"unlock">>
    BY <1>3
  <2>2. DisplayProgram = <<>> \/ DisplayProgram = <<"display">>
    BY DEF DisplayProgram
  <2>3. \/ q = <<"mode", "readRow", "showRow", "showTable", "return", "unlock">>
        \/ q = <<"display", "mode", "readRow", "showRow", "showTable", "return", "unlock">>
    BY <2>1, <2>2, MembersConcats
  <2> QED BY <2>3 DEF Inside
<1> QED BY <1>1, <1>2, <1>3

-----------------------------------------------------------------------------
(* Accesses, by the calls that make them.                                   *)

\* The settings in use are settings.
LEMMA GroupsKnown ==
  ASSUME Shape
  PROVE  inUse \subseteq AllSettings
PROOF BY SettingAssumption DEF Shape

\* Which calls make which accesses.
LEMMA HeadOp ==
  ASSUME Shape, NEW t \in Threads, todo[t] # <<>>
  PROVE  LET a == Head(todo[t])  op == call[t].op IN
         /\ a \in {"read", "write", "show", "tune"} => op = "set"
         /\ a \in {"saveMode", "hdmiDisplay"} => op = "mode"
         /\ a \in {"members", "mode", "showTable", "showStart", "display"} => op = "switch"
         /\ a \in {"readRow", "showRow"} => op \in {"mode", "switch"}
         /\ a \in {"lock", "unlock"} => op \in {"switch", "info"}
         /\ op \in {"set", "mode", "switch", "info"}
PROOF
<1>1. todo[t] \in Left(call[t].op) /\ call[t].op \in Ops
  BY DEF Shape, Calls
<1>2. CASE call[t].op = "set"
  <2>1. todo[t] \in SetLeft \ {<<>>}
    BY <1>1, <1>2 DEF Left
  <2> QED BY <2>1, <1>2, SetTails
<1>3. CASE call[t].op = "mode"
  <2>1. todo[t] \in ModeLeft \ {<<>>}
    BY <1>1, <1>3 DEF Left
  <2> QED BY <2>1, <1>3, ModeTails
<1>4. CASE call[t].op = "switch"
  <2>1. \/ todo[t] = <<"lock", "members">> \/ todo[t] \in Inside \/ todo[t] \in BootLeft
    BY <1>1, <1>4 DEF Left, SwitchLeft
  <2>2. todo[t] = <<"lock", "members">> => Head(todo[t]) = "lock"
    OBVIOUS
  <2> QED BY <2>1, <2>2, <1>4, InsideTails, BootTails
<1>5. CASE call[t].op = "info"
  <2>1. todo[t] \in InfoLeft \ {<<>>}
    BY <1>1, <1>5 DEF Left
  <2> QED BY <2>1, <1>5, InfoTails
<1>6. CASE call[t].op = "none"
  BY <1>1, <1>6 DEF Left
<1> QED BY <1>1, <1>2, <1>3, <1>4, <1>5, <1>6 DEF Ops

\* What an access leaves of the call.
LEMMA TailLeft ==
  ASSUME Shape, NEW t \in Threads, todo[t] # <<>>, Head(todo[t]) # "members"
  PROVE  Tail(todo[t]) \in Left(call[t].op)
PROOF
<1>0. todo[t] \in Left(call[t].op) /\ call[t].op \in {"set", "mode", "switch", "info"}
  BY HeadOp DEF Shape
<1>2. CASE call[t].op = "set"
  BY <1>0, <1>2, SetTails DEF Left
<1>3. CASE call[t].op = "mode"
  BY <1>0, <1>3, ModeTails DEF Left
<1>4. CASE call[t].op = "switch"
  <2>1. \/ todo[t] = <<"lock", "members">> \/ todo[t] \in Inside \/ todo[t] \in BootLeft
    BY <1>0, <1>4 DEF Left, SwitchLeft
  <2>2. CASE todo[t] = <<"lock", "members">>
    <3>1. Tail(todo[t]) = <<"members">>
      BY <2>2
    <3> QED BY <3>1, <1>4 DEF Left, SwitchLeft, Inside
  <2>3. CASE todo[t] \in Inside
    <3>1. Tail(todo[t]) \in Inside \cup {<<>>}
      BY <2>3, InsideTails
    <3> QED BY <3>1, <1>4 DEF Left, SwitchLeft
  <2>4. CASE todo[t] \in BootLeft
    BY <2>4, <1>4, BootTails DEF Left, SwitchLeft
  <2> QED BY <2>1, <2>2, <2>3, <2>4
<1>5. CASE call[t].op = "info"
  BY <1>0, <1>5, InfoTails DEF Left
<1> QED BY <1>0, <1>2, <1>3, <1>4, <1>5

\* The programs of each kind of call are programs, and each may have ended.
LEMMA LeftPrograms == \A op \in Ops : Left(op) \subseteq Programs /\ <<>> \in Left(op)
PROOF BY DEF Ops, Left, Programs, SetLeft, ModeLeft, SwitchLeft, InfoLeft

\* Which kinds of call may have ended or have only to return.
LEMMA EndsLeft ==
  /\ <<>> \in SetLeft /\ <<"return">> \in SetLeft \cap ModeLeft \cap SwitchLeft \cap InfoLeft
  /\ <<>> \notin NoRead \cup HasRead \cup Wrote /\ <<"return">> \notin NoRead \cup HasRead
PROOF BY DEF SetLeft, ModeLeft, SwitchLeft, BootLeft, InfoLeft, NoRead, HasRead, Wrote

\* The access of t ends with q left, and no other call is touched.
LEMMA ShapeThen ==
  ASSUME Shape, NEW t \in Threads, NEW q, Then(t, q), q \in Left(call[t].op), call[t].op = "set" => q \notin NoRead,
         NEW w \in Int, call' = call \/ (call[t].op = "switch" /\ call' = [call EXCEPT ![t].v = w]),
         UNCHANGED fixed
  PROVE  Shape'
PROOF
<1> USE DEF Shape
<1>1. call' \in [Threads -> Calls]
  BY DEF Calls
<1>2. \A u \in Threads : call'[u].op = call[u].op /\ (call[u].op # "switch" => call'[u] = call[u])
  BY DEF Calls
<1>3. todo' = [todo EXCEPT ![t] = q] /\ q \in Programs
  BY LeftPrograms DEF Then, Calls
<1>4. todo' \in [Threads -> Programs]
  BY <1>3
<1>5. \A u \in Threads : todo'[u] \in Left(call'[u].op)
  BY <1>2, <1>3
<1>6. \A u \in Threads : call[u].op = "set" /\ todo'[u] \in NoRead => todo'[u] = todo[u]
  BY <1>3
<1> QED BY <1>1, <1>2, <1>4, <1>5, <1>6 DEF fixed

-----------------------------------------------------------------------------
(* What Next is: a call that begins, an access, or a restart.               *)

\* A value a setter takes is one the getters can work with.
LEMMA BentValue ==
  ASSUME NEW s \in AllSettings, NEW v \in Inputs(s)
  PROVE  Bent(s, v) \in Value(s)
PROOF
<1>1. Typed(Rows[s])
  BY RowsTyped
<1>2. v \in Int
  BY <1>1 DEF Inputs, Typed
<1>3. Bent(s, v) \in Int
  <2>1. CASE Legal(s, v) \/ Rows[s].bend = {}
    BY <2>1, <1>2 DEF Bent
  <2>2. CASE ~(Legal(s, v) \/ Rows[s].bend = {})
    <3>1. PICK w \in Rows[s].bend : TRUE
      BY <2>2
    <3>2. (CHOOSE x \in Rows[s].bend : TRUE) \in Rows[s].bend
      BY <3>1
    <3> QED BY <2>2, <3>2, <1>1 DEF Bent, Typed
  <2> QED BY <2>1, <2>2
<1>4. CASE s = "MemcMode"
  <2>1. Rows[s] = MemcMode
    BY <1>4 DEF Rows
  <2>2. MemcMode.low = 0 /\ MemcMode.high = 3 /\ MemcMode.checked = FALSE /\ MemcMode.bend = {}
    BY DEF MemcMode, Row
  <2> QED BY <2>1, <2>2, <1>4 DEF Inputs, Bent, Value
<1>5. CASE s = "ColorTune"
  <2>1. Rows[s] = ColorTune
    BY <1>5 DEF Rows
  <2>2. ColorTune.low = 0 /\ ColorTune.high = 1 /\ ColorTune.checked = FALSE /\ ColorTune.bend = {}
    BY DEF ColorTune, Row
  <2> QED BY <2>1, <2>2, <1>5 DEF Inputs, Bent, Value
<1> QED BY <1>3, <1>4, <1>5 DEF Value

\* Main is a thread, and neither a binder thread nor the event thread.
LEMMA Thread == Main \in Threads /\ Nobody \notin Threads /\ Main \notin Binders \cup {Event}
PROOF BY SettingAssumption DEF Threads

\* What the assumption on the constants says of their types.
LEMMA ConstantsTyped == BootSignal \in Signals /\ Modes \subseteq Int /\ Saves \subseteq BOOLEAN
PROOF BY SettingAssumption

\* The call of an idle thread and the constructor's call are calls.
LEMMA NoCallTyped ==
  /\ NoCall \in Calls /\ NoCall.op = "none" /\ BootCall \in Calls /\ BootCall.op = "switch"
PROOF
<1> DEFINE S == AllSettings \cup {"none"}
<1>1. "none" \in S
  OBVIOUS
<1> HIDE DEF S
<1>2. NoCall \in [op : Ops, s : S, v : Int, save : BOOLEAN, g : Signals, exit : BOOLEAN]
  BY ConstantsTyped, <1>1 DEF NoCall, Ops
<1>3. NoCall \in Calls /\ NoCall.op = "none"
  BY <1>2 DEF NoCall, Calls, S
<1>4. BootCall \in Calls /\ BootCall.op = "switch"
  BY <1>3 DEF BootCall, Calls, Ops
<1> QED BY <1>3, <1>4

\* A new process has the shape: only the constructor is under way.
LEMMA BootShape ==
  ASSUME inUse' \in SettingGroups, flags' \in Configs, BootProgram \in BootLeft,
         call' = [t \in Threads |-> IF t = Main THEN BootCall ELSE NoCall],
         todo' = [t \in Threads |-> IF t = Main THEN BootProgram ELSE <<>>]
  PROVE  Shape'
PROOF
<1>1. call' \in [Threads -> Calls]
  BY NoCallTyped
<1>2. BootProgram \in Left("switch") /\ <<>> \in Left("none") /\ BootProgram \in Programs /\ <<>> \in Programs
  BY DEF Left, SwitchLeft, Programs, SetLeft
<1>3. todo' \in [Threads -> Programs]
  BY <1>2
<1>4. \A t \in Threads : /\ call'[t].op \in {"none", "switch"}
                         /\ todo'[t] \in Left(call'[t].op)
  BY <1>2, NoCallTyped
<1> QED BY <1>1, <1>3, <1>4 DEF Shape

\* A call that begins with a program of its kind keeps the shape.
LEMMA BeginShape ==
  ASSUME Shape, NEW t \in Threads, NEW c \in Calls, NEW p \in Left(c.op), Begin(t, c, p),
         c.op = "set" => c.s \in inUse /\ c.v \in Value(c.s) /\ (p \in NoRead => ~Whole(c.s)),
         c.op = "mode" => c.v \in Modes
  PROVE  Shape'
PROOF
<1>1. call' = [call EXCEPT ![t] = c] /\ todo' = [todo EXCEPT ![t] = p] /\ inUse' = inUse /\ flags' = flags
  BY DEF Begin, fixed
<1>2. p \in Programs
  BY LeftPrograms DEF Calls
<1>3. call' \in [Threads -> Calls] /\ todo' \in [Threads -> Programs]
  BY <1>1, <1>2 DEF Shape
<1>4. \A u \in Threads : \/ u = t /\ call'[u] = c /\ todo'[u] = p
                         \/ call'[u] = call[u] /\ todo'[u] = todo[u]
  BY <1>1 DEF Shape
<1> QED BY <1>1, <1>3, <1>4 DEF Shape

\* What a call starts with.
Starts(t, c, p) ==
  /\ t # Main /\ c \in Calls /\ p \in Left(c.op) /\ c.op # "none" /\ p \notin Owns
  /\ p # <<>> /\ p # <<"unlock">>
  /\ c.op = "set" => /\ c.s \in inUse /\ c.v \in Value(c.s) /\ (p \in NoRead => ~Whole(c.s))
                     /\ p \in HasRead => ~Whole(c.s)
                     /\ p \in Wrote => ~Keeps(c)
                     /\ p \in KindLeft(c.s)
                     /\ p \in HasShown => ~Gated(c.s, flags)
                     /\ Rows[c.s].keep = "cms" => Head(p) = "tune"
  /\ c.op = "mode" => c.v \in Modes /\ (c.save => Head(p) = "saveMode")
  /\ c.op = "switch" => p = <<"lock", "members">>

\* A setter begins with one of its programs, and its value is one of the setting.
LEMMA StartsSet ==
  ASSUME Shape, NEW t \in Binders, NEW s \in inUse, NEW save \in Saves, NEW v \in Inputs(s)
  PROVE  Starts(t, [NoCall EXCEPT !.op = "set", !.s = s, !.v = Bent(s, v), !.save = save], SetProgram(s, save))
PROOF
<1> DEFINE c == [NoCall EXCEPT !.op = "set", !.s = s, !.v = Bent(s, v), !.save = save]
<1>0. s \in AllSettings /\ save \in BOOLEAN
  BY GroupsKnown, SettingAssumption
<1>1. Bent(s, v) \in Value(s) /\ Bent(s, v) \in Int
  <2>1. Bent(s, v) \in Value(s)
    BY <1>0, BentValue
  <2> QED BY <2>1 DEF Value
<1>2. c.op = "set" /\ c.s = s /\ c.v = Bent(s, v) /\ c.save = save /\ c.g = BootSignal /\ c.exit = FALSE
  BY DEF NoCall
<1>3. c \in Calls
  BY <1>0, <1>1, SettingAssumption DEF NoCall, Calls, Ops
<1>4. SetProgram(s, save) \in SetLeft
  BY <1>0, SetStarts
<1>5. SetProgram(s, save) \notin Owns
  BY <1>4, OwnsApart
<1>6. Keeps(c) <=> (save \/ Rows[s].always) /\ (Rows[s].skips => Gated(s, flags))
  BY <1>2 DEF Keeps
<1> HIDE DEF c
<1>8. SetProgram(s, save) # <<>> /\ SetProgram(s, save) # <<"unlock">>
  BY <1>0, <1>4, SetStarts, WorkingLeft
<1>9. t # Main
  BY Thread
<1>10. SetProgram(s, save) \in KindLeft(s) /\ (SetProgram(s, save) \in HasShown => ~Gated(s, flags))
  BY <1>0, SetStarts
<1>11. Rows[s].keep = "cms" => Head(SetProgram(s, save)) = "tune"
  <2>1. Rows[s].keep = "cms" => s # "MpegNr" /\ Rows[s].gate = "none"
    <3>1. Rows["MpegNr"].keep = "mode"
      BY DEF Rows, MpegNr, Row
    <3> QED BY <3>1, <1>0, RowsSound DEF Sound
  <2>2. Rows[s].keep = "cms" => Gated(s, flags)
    BY <2>1 DEF Gated
  <2> QED BY <1>0, <2>2, SetStarts
<1>7. Starts(t, c, SetProgram(s, save))
  BY <1>0, <1>1, <1>2, <1>3, <1>4, <1>5, <1>6, <1>8, <1>9, <1>10, <1>11, SetStarts DEF Starts, Left
<1> QED BY <1>7 DEF c

\* A change of mode begins with one of its programs.
LEMMA StartsMode ==
  ASSUME Shape, NEW t \in Binders, NEW mode \in Modes, NEW save \in Saves
  PROVE  Starts(t, [NoCall EXCEPT !.op = "mode", !.v = mode, !.save = save], ModeProgram(save))
PROOF
<1> DEFINE c == [NoCall EXCEPT !.op = "mode", !.v = mode, !.save = save]
<1>1. c \in Calls /\ c.op = "mode" /\ c.v = mode /\ c.save = save
  BY ConstantsTyped, NoCallTyped DEF Calls, Ops
<1>2. ModeProgram(save) \in ModeLeft /\ ModeProgram(save) # <<>>
  BY ModeStarts, ConstantsTyped
<1>5. ModeProgram(save) # <<"unlock">>
  BY <1>2, WorkingLeft
<1>3. ModeProgram(save) \notin Owns
  BY <1>2, OwnsApart
<1> HIDE DEF c
<1>6. t # Main /\ (c.save => Head(ModeProgram(save)) = "saveMode")
  BY <1>1, Thread, ModeStarts, ConstantsTyped
<1>4. Starts(t, c, ModeProgram(save))
  BY <1>1, <1>2, <1>3, <1>5, <1>6 DEF Starts, Left
<1> QED BY <1>4 DEF c

\* A change of source begins with its program.
LEMMA StartsSwitch ==
  ASSUME Shape, NEW t \in Binders \cup {Event}, NEW g \in Signals, NEW exit \in BOOLEAN
  PROVE  Starts(t, [NoCall EXCEPT !.op = "switch", !.g = g, !.exit = exit], SourceProgram)
PROOF
<1> DEFINE c == [NoCall EXCEPT !.op = "switch", !.g = g, !.exit = exit]
<1>1. c \in Calls /\ c.op = "switch"
  BY ConstantsTyped, NoCallTyped DEF Calls, Ops
<1>2. SourceProgram \in SwitchLeft /\ SourceProgram \notin Owns
  BY OwnsApart DEF SourceProgram, SwitchLeft
<1>3. SourceProgram # <<>> /\ SourceProgram # <<"unlock">>
  BY DEF SourceProgram
<1> HIDE DEF c
<1>5. SourceProgram = <<"lock", "members">>
  BY DEF SourceProgram
<1>4. Starts(t, c, SourceProgram)
  BY <1>1, <1>2, <1>3, <1>5, Thread DEF Starts, Left
<1> QED BY <1>4 DEF c

\* A call that only takes the mutex begins with its program.
LEMMA StartsInfo ==
  ASSUME Shape, NEW t \in Binders
  PROVE  Starts(t, [NoCall EXCEPT !.op = "info"], InfoProgram)
PROOF
<1> DEFINE c == [NoCall EXCEPT !.op = "info"]
<1>1. c \in Calls /\ c.op = "info"
  BY ConstantsTyped, NoCallTyped DEF Calls, Ops
<1>2. InfoProgram \in InfoLeft
  BY DEF InfoProgram, InfoLeft
<1>3. InfoProgram # <<"unlock", "return">>
  BY DEF InfoProgram
<1>6. InfoProgram # <<>> /\ InfoProgram # <<"unlock">>
  BY DEF InfoProgram
<1>4. InfoProgram \notin Owns
  BY <1>2, <1>3, OwnsApart
<1> HIDE DEF c
<1>5. Starts(t, c, InfoProgram)
  BY <1>1, <1>2, <1>4, <1>6, Thread DEF Starts, Left
<1> QED BY <1>5 DEF c

\* A step is a call that begins, an access, or a restart.
LEMMA NextIs ==
  ASSUME Shape, Next
  PROVE  \/ \E t \in Threads : \E c \in Calls : \E p \in Programs : Starts(t, c, p) /\ Begin(t, c, p)
         \/ \E t \in Threads : Step(t)
         \/ Restart
PROOF
<1>0. \A t, c, p : Starts(t, c, p) => c \in Calls /\ p \in Programs
  BY LeftPrograms DEF Starts, Calls
<1>1. CASE \E t \in Binders :
         \/ \E s \in inUse, save \in Saves : \E v \in Inputs(s) : Set(t, s, v, save)
         \/ \E mode \in Modes, save \in Saves : SetPQMode(t, mode, save)
         \/ GetCurrentSourceInputInfo(t)
  <2> PICK t \in Binders :
         \/ \E s \in inUse, save \in Saves : \E v \in Inputs(s) : Set(t, s, v, save)
         \/ \E mode \in Modes, save \in Saves : SetPQMode(t, mode, save)
         \/ GetCurrentSourceInputInfo(t)
    BY <1>1
  <2>0. t \in Threads
    BY DEF Threads
  <2>1. ASSUME NEW s \in inUse, NEW save \in Saves, NEW v \in Inputs(s), Set(t, s, v, save)
        PROVE  \E c \in Calls : \E p \in Programs : Starts(t, c, p) /\ Begin(t, c, p)
    BY <2>1, <1>0, StartsSet DEF Set
  <2>2. ASSUME NEW mode \in Modes, NEW save \in Saves, SetPQMode(t, mode, save)
        PROVE  \E c \in Calls : \E p \in Programs : Starts(t, c, p) /\ Begin(t, c, p)
    BY <2>2, <1>0, StartsMode DEF SetPQMode
  <2>3. ASSUME GetCurrentSourceInputInfo(t)
        PROVE  \E c \in Calls : \E p \in Programs : Starts(t, c, p) /\ Begin(t, c, p)
    BY <2>3, <1>0, StartsInfo DEF GetCurrentSourceInputInfo
  <2> QED BY <2>0, <2>1, <2>2, <2>3
<1>2. CASE \E t \in Binders \cup {Event}, g \in Signals, exit \in BOOLEAN : Switch(t, g, exit)
  <2> PICK t \in Binders \cup {Event}, g \in Signals, exit \in BOOLEAN : Switch(t, g, exit)
    BY <1>2
  <2>0. t \in Threads
    BY DEF Threads
  <2>1. \E c \in Calls : \E p \in Programs : Starts(t, c, p) /\ Begin(t, c, p)
    BY <1>0, StartsSwitch DEF Switch
  <2> QED BY <2>0, <2>1
<1>3. CASE (\E t \in Threads : Step(t)) \/ Restart
  BY <1>3
<1> QED BY <1>1, <1>2, <1>3 DEF Next

-----------------------------------------------------------------------------
(* Every step keeps the shape.                                              *)

\* An access that goes on to the next keeps the shape.
LEMMA OnShape ==
  ASSUME Shape, NEW t \in Threads, NEW a, At(t, a), a # "members", On(t), UNCHANGED fixed,
         NEW w \in Int, call' = call \/ (call[t].op = "switch" /\ call' = [call EXCEPT ![t].v = w])
  PROVE  Shape'
PROOF
<1>1. todo[t] # <<>> /\ Head(todo[t]) # "members" /\ Then(t, Tail(todo[t]))
  BY DEF At, On
<1>2. Tail(todo[t]) \in Left(call[t].op)
  BY <1>1, TailLeft
<1>3. call[t].op = "set" => todo[t] \in SetLeft \ {<<>>}
  BY <1>1 DEF Shape, Left
<1>4. call[t].op = "set" => Tail(todo[t]) \notin NoRead
  BY <1>3, SetTails
<1> QED BY <1>1, <1>2, <1>4, ShapeThen

\* The first access of a change of source keeps the shape.
LEMMA MembersShape ==
  ASSUME Shape, NEW t \in Threads, Members(t)
  PROVE  Shape'
PROOF
<1> DEFINE same == ~call[t].exit /\ ~left /\ call[t].g = sig /\ input = call[t].g[1]
           q == (IF same THEN <<>> ELSE DisplayProgram \o (IF call[t].exit THEN <<>> ELSE LoadProgram)
                         \o <<"return">>) \o <<"unlock">>
<1>1. todo[t] # <<>> /\ Head(todo[t]) = "members" /\ Then(t, q) /\ call' = call /\ UNCHANGED fixed
  BY DEF Members, At
<1>2. call[t].op = "switch"
  BY <1>1, HeadOp
<1>3. same \in BOOLEAN /\ call[t].exit \in BOOLEAN
  BY DEF Shape, Calls
<1>4. q \in Inside
  BY <1>3, MembersLeft
<1> HIDE DEF q
<1>5. q \in Left(call[t].op)
  BY <1>2, <1>4 DEF Left, SwitchLeft
<1> QED BY <1>1, <1>2, <1>5, ShapeThen

\* Every access keeps the shape.
LEMMA StepShape ==
  ASSUME Shape, Places, NEW t \in Threads, Step(t)
  PROVE  Shape'
PROOF
<1>0. 0 \in Int
  OBVIOUS
<1>1. CASE Show(t)
  <2>1. todo[t] # <<>> /\ Head(todo[t]) = "show" /\ call' = call /\ UNCHANGED fixed
    BY <1>1 DEF Show, At
  <2>2. call[t].op = "set"
    BY <2>1, HeadOp
  <2>3. CASE On(t)
    BY <1>0, <2>1, <2>3, OnShape DEF At
  <2>4. CASE Then(t, <<>>)
    BY <1>0, <2>1, <2>2, <2>4, EndsLeft, ShapeThen DEF Left
  <2> QED BY <1>1, <2>3, <2>4 DEF Show
<1>2. CASE Tune(t)
  <2>1. todo[t] # <<>> /\ Head(todo[t]) = "tune" /\ call' = call /\ UNCHANGED fixed
    BY <1>2 DEF Tune, At
  <2>2. call[t].op = "set"
    BY <2>1, HeadOp
  <2>3. CASE On(t)
    BY <1>0, <2>1, <2>3, OnShape DEF At
  <2>4. CASE Then(t, <<>>)
    BY <1>0, <2>1, <2>2, <2>4, EndsLeft, ShapeThen DEF Left
  <2> QED BY <1>2, <2>3, <2>4 DEF Tune
<1>3. CASE ShowRow(t)
  <2>1. todo[t] # <<>> /\ Head(todo[t]) = "showRow" /\ call' = call /\ UNCHANGED fixed
    BY <1>3 DEF ShowRow, At
  <2>3. CASE On(t)
    BY <1>0, <2>1, <2>3, OnShape DEF At
  <2>4. CASE call[t].op = "mode" /\ Then(t, <<"return">>)
    BY <1>0, <2>1, <2>4, EndsLeft, ShapeThen DEF Left
  <2> QED BY <1>3, <2>3, <2>4 DEF ShowRow
<1>4. CASE LoadMode(t)
  <2>1. todo[t] # <<>> /\ At(t, "mode") /\ On(t) /\ UNCHANGED fixed
        /\ call' = [call EXCEPT ![t].v = modeOf[sig]]
    BY <1>4 DEF LoadMode, At
  <2>2. call[t].op = "switch"
    BY <2>1, HeadOp DEF At
  <2>3. modeOf[sig] \in Int
    BY ConstantsTyped DEF Places
  <2> QED BY <2>1, <2>2, <2>3, OnShape
<1>5. CASE Members(t)
  BY <1>5, MembersShape
<1>6. CASE Read(t) \/ Write(t) \/ SaveMode(t) \/ ReadRow(t)
  <2>1. \E a \in {"read", "write", "saveMode", "readRow"} : At(t, a) /\ On(t)
    BY <1>6 DEF Read, Write, SaveMode, ReadRow
  <2>2. call' = call /\ UNCHANGED fixed
    BY <1>6 DEF Read, Write, SaveMode, ReadRow
  <2> QED BY <1>0, <2>1, <2>2, OnShape
<1>7. CASE ShowTable(t) \/ ShowStart(t) \/ Display(t)
  <2>1. \E a \in {"showTable", "showStart", "display", "hdmiDisplay"} : At(t, a) /\ On(t)
    BY <1>7 DEF ShowTable, ShowStart, Display
  <2>2. call' = call /\ UNCHANGED fixed
    BY <1>7 DEF ShowTable, ShowStart, Display
  <2> QED BY <1>0, <2>1, <2>2, OnShape
<1>8. CASE Lock(t) \/ Unlock(t) \/ Return(t)
  <2>1. \E a \in {"lock", "unlock", "return"} : At(t, a) /\ On(t)
    BY <1>8 DEF Lock, Unlock, Return
  <2>2. call' = call /\ UNCHANGED fixed
    BY <1>8 DEF Lock, Unlock, Return
  <2> QED BY <1>0, <2>1, <2>2, OnShape
<1> QED BY <1>1, <1>2, <1>3, <1>4, <1>5, <1>6, <1>7, <1>8 DEF Step

\* Every access keeps the members and the store what they should be.
LEMMA StepPlaces ==
  ASSUME Shape, Places, NEW t \in Threads, Step(t)
  PROVE  Places'
PROOF
<1>1. CASE Members(t)
  <2>1. call[t].g \in Signals /\ call[t].exit \in BOOLEAN
    BY DEF Shape, Calls
  <2>2. \A g \in Signals : <<g[1], "SDR">> \in Signals
    BY SettingAssumption
  <2>3. modeOf' = modeOf /\ sig' \in {sig, call[t].g, <<call[t].g[1], "SDR">>}
        /\ input' \in {input, call[t].g[1]} /\ left' \in {left, call[t].exit}
    BY <1>1 DEF Members, disk
  <2> QED BY <2>1, <2>2, <2>3 DEF Places
<1>2. CASE SaveMode(t)
  <2>1. todo[t] # <<>> /\ Head(todo[t]) = "saveMode" /\ UNCHANGED members
        /\ modeOf' = [modeOf EXCEPT ![sig] = call[t].v]
    BY <1>2 DEF SaveMode, At
  <2>2. call[t].v \in Modes
    BY <2>1, HeadOp DEF Shape
  <2> QED BY <2>1, <2>2 DEF Places, members
<1>3. CASE Show(t) \/ Read(t) \/ Write(t) \/ Tune(t) \/ LoadMode(t)
  <2>1. modeOf' = modeOf /\ sig' = sig /\ input' = input /\ left' = left
    BY <1>3 DEF Show, Read, Write, Tune, LoadMode, disk, members
  <2> QED BY <2>1 DEF Places
<1>4. CASE ReadRow(t) \/ ShowRow(t) \/ ShowTable(t) \/ ShowStart(t) \/ Display(t)
  <2>1. modeOf' = modeOf /\ sig' = sig /\ input' = input /\ left' = left
    BY <1>4 DEF ReadRow, ShowRow, ShowTable, ShowStart, Display, disk, members
  <2> QED BY <2>1 DEF Places
<1>5. CASE Lock(t) \/ Unlock(t) \/ Return(t)
  <2>1. modeOf' = modeOf /\ sig' = sig /\ input' = input /\ left' = left
    BY <1>5 DEF Lock, Unlock, Return, disk, members
  <2> QED BY <2>1 DEF Places
<1> QED BY <1>1, <1>2, <1>3, <1>4, <1>5 DEF Step

\* Every thread is at a place its call can be at, and the members the calls read
\* are sources, signals and modes.
THEOREM ShapeHolds == Spec => [](Shape /\ Places)
PROOF
<1>1. Init => Shape /\ Places
  <2> SUFFICES ASSUME Init PROVE Shape /\ Places
    OBVIOUS
  <2>1. call = [t \in Threads |-> IF t = Main THEN BootCall ELSE NoCall]
        /\ todo = [t \in Threads |-> IF t = Main THEN BootProgram ELSE <<>>]
        /\ inUse \in SettingGroups /\ flags \in Configs
    BY DEF Init
  <2>2. call \in [Threads -> Calls]
    BY <2>1, NoCallTyped
  <2>3. BootProgram \in Left("switch") /\ <<>> \in Left("none")
        /\ BootProgram \in Programs /\ <<>> \in Programs
    BY BootStarts DEF Left, SwitchLeft, Programs, SetLeft
  <2>4. todo \in [Threads -> Programs]
    BY <2>1, <2>3
  <2>5. \A t \in Threads : call[t].op \in {"none", "switch"} /\ todo[t] \in Left(call[t].op)
    BY <2>1, <2>3, NoCallTyped
  <2>6. Shape
    BY <2>1, <2>2, <2>4, <2>5 DEF Shape
  <2>7. Places
    BY SettingAssumption DEF Init, Places
  <2> QED BY <2>6, <2>7
<1>2. Shape /\ Places /\ [Next]_vars => Shape' /\ Places'
  <2> SUFFICES ASSUME Shape, Places, [Next]_vars PROVE Shape' /\ Places'
    OBVIOUS
  <2>1. CASE UNCHANGED vars
    <3>1. UNCHANGED <<inUse, flags, call, todo, modeOf, sig, input, left>>
      BY <2>1 DEF vars, fixed, disk, members
    <3> QED BY <3>1 DEF Shape, Places, Whole
  <2>2. ASSUME NEW t \in Threads, NEW c \in Calls, NEW p \in Programs, Starts(t, c, p), Begin(t, c, p)
        PROVE  Shape' /\ Places'
    <3>1. Shape'
      BY <2>2, BeginShape DEF Starts
    <3>2. UNCHANGED <<modeOf, sig, input, left>>
      BY <2>2 DEF Begin, disk, members
    <3> QED BY <3>1, <3>2 DEF Places
  <2>3. ASSUME NEW t \in Threads, Step(t)
        PROVE  Shape' /\ Places'
    BY <2>3, StepShape, StepPlaces
  <2>4. CASE Restart
    <3>1. Shape'
      <4>1. inUse' \in SettingGroups /\ flags' \in Configs
            /\ call' = [t \in Threads |-> IF t = Main THEN BootCall ELSE NoCall]
            /\ todo' = [t \in Threads |-> IF t = Main THEN BootProgram ELSE <<>>]
        BY <2>4 DEF Restart, fixed, Shape
      <4> QED BY <4>1, BootStarts, BootShape
    <3>2. Places'
      BY <2>4, ConstantsTyped DEF Restart, Places, disk
    <3> QED BY <3>1, <3>2
  <2>5. CASE Next
    BY <2>5, <2>2, <2>3, <2>4, NextIs
  <2> QED BY <2>1, <2>5
<1> QED BY <1>1, <1>2, PTL DEF Spec

-----------------------------------------------------------------------------
(* PqControlMutex.                                                          *)

\* Only taking the mutex, giving it back and the first access change who owns it.
LEMMA OwnsKept ==
  ASSUME Shape, NEW t \in Threads, todo[t] # <<>>, Head(todo[t]) \notin {"lock", "unlock", "members"}
  PROVE  Tail(todo[t]) \in Owns <=> todo[t] \in Owns
PROOF
<1>0. todo[t] \in Left(call[t].op) /\ call[t].op \in {"set", "mode", "switch", "info"}
  BY HeadOp DEF Shape
<1>1. <<>> \notin Owns
  BY OwnsApart DEF SetLeft
<1>2. CASE call[t].op = "set"
  BY <1>0, <1>2, SetTails, OwnsApart DEF Left
<1>3. CASE call[t].op = "mode"
  BY <1>0, <1>3, ModeTails, OwnsApart DEF Left
<1>4. CASE call[t].op = "switch"
  <2>1. \/ todo[t] = <<"lock", "members">> \/ todo[t] \in Inside \/ todo[t] \in BootLeft
    BY <1>0, <1>4 DEF Left, SwitchLeft
  <2>2. todo[t] # <<"lock", "members">>
    OBVIOUS
  <2>3. CASE todo[t] \in Inside
    BY <2>3, InsideTails DEF Owns
  <2>4. CASE todo[t] \in BootLeft
    BY <2>4, <1>1, BootTails, OwnsApart
  <2> QED BY <2>1, <2>2, <2>3, <2>4
<1>5. CASE call[t].op = "info"
  <2>1. todo[t] \in InfoLeft \ {<<>>}
    BY <1>0, <1>5 DEF Left
  <2>2. Head(todo[t]) = "return" /\ Tail(todo[t]) = <<>>
    BY <2>1, InfoTails
  <2>3. todo[t] # <<"unlock", "return">>
    BY <2>2
  <2> QED BY <2>1, <2>2, <2>3, <1>1, OwnsApart
<1> QED BY <1>0, <1>2, <1>3, <1>4, <1>5

\* An access of t, by what becomes of the mutex.
LEMMA OwnerThen ==
  ASSUME Shape, Owner, NEW t \in Threads, NEW q, Then(t, q), q \in Owns <=> lock' = t,
         \A u \in Threads \ {t} : lock' = u <=> lock = u
  PROVE  Owner'
PROOF
<1>1. \A u \in Threads : todo'[u] = IF u = t THEN q ELSE todo[u]
  BY DEF Then, Shape
<1> QED BY <1>1 DEF Owner

\* Every access keeps the owner the thread that is inside.
LEMMA StepOwner ==
  ASSUME Shape, Owner, NEW t \in Threads, Step(t)
  PROVE  Owner'
PROOF
<1>0. <<>> \notin Owns /\ <<"return">> \notin Owns
  BY OwnsApart DEF SetLeft
<1>1. CASE Lock(t)
  <2>1. todo[t] # <<>> /\ Head(todo[t]) = "lock" /\ lock = Nobody /\ lock' = t /\ Then(t, Tail(todo[t]))
    BY <1>1 DEF Lock, At, On
  <2>2. todo[t] \in Left(call[t].op) /\ call[t].op \in {"switch", "info"}
    BY <2>1, HeadOp DEF Shape
  <2>3. CASE call[t].op = "info"
    <3>1. Tail(todo[t]) = <<"unlock", "return">>
      BY <2>1, <2>2, <2>3, InfoTails DEF Left
    <3> QED BY <3>1 , <2>1, Thread, OwnerThen DEF Owns
  <2>4. CASE call[t].op = "switch"
    <3>1. todo[t] = <<"lock", "members">>
      BY <2>1, <2>2, <2>4, InsideTails, BootTails DEF Left, SwitchLeft
    <3>2. Tail(todo[t]) = <<"members">>
      BY <3>1
    <3>3. Tail(todo[t]) \in Owns
      BY <3>2 DEF Owns, Inside
    <3> QED BY <3>3, <2>1, Thread, OwnerThen
  <2> QED BY <2>2, <2>3, <2>4
<1>2. CASE Unlock(t)
  <2>1. todo[t] # <<>> /\ Head(todo[t]) = "unlock" /\ lock' = Nobody /\ Then(t, Tail(todo[t]))
    BY <1>2 DEF Unlock, At, On
  <2>2. todo[t] \in Left(call[t].op) /\ call[t].op \in {"switch", "info"}
    BY <2>1, HeadOp DEF Shape
  <2>3. todo[t] \in Owns /\ Tail(todo[t]) \notin Owns
    <3>1. CASE call[t].op = "info"
      <4>1. todo[t] = <<"unlock", "return">> /\ Tail(todo[t]) = <<"return">>
        BY <2>1, <2>2, <3>1, InfoTails DEF Left
      <4> QED BY <4>1, <1>0 DEF Owns
    <3>2. CASE call[t].op = "switch"
      <4>1. todo[t] # <<"lock", "members">>
        BY <2>1
      <4>2. todo[t] \in Inside
        BY <4>1, <2>1, <2>2, <3>2, BootTails DEF Left, SwitchLeft
      <4>3. Tail(todo[t]) = <<>>
        BY <4>2, <2>1, InsideTails
      <4> QED BY <4>2, <4>3, <1>0 DEF Owns
    <3> QED BY <2>2, <3>1, <3>2
  <2>4. lock = t
    BY <2>3 DEF Owner
  <2> QED BY <2>1, <2>3, <2>4, Thread, OwnerThen
<1>3. CASE Members(t)
  <2> DEFINE same == ~call[t].exit /\ ~left /\ call[t].g = sig /\ input = call[t].g[1]
             q == (IF same THEN <<>> ELSE DisplayProgram \o (IF call[t].exit THEN <<>> ELSE LoadProgram)
                           \o <<"return">>) \o <<"unlock">>
  <2>1. todo[t] # <<>> /\ Head(todo[t]) = "members" /\ Then(t, q) /\ lock' = lock
    BY <1>3 DEF Members, At
  <2>2. same \in BOOLEAN /\ call[t].exit \in BOOLEAN
    BY DEF Shape, Calls
  <2>3. q \in Inside
    BY <2>2, MembersLeft
  <2> HIDE DEF q, same
  <2>4. call[t].op = "switch" /\ todo[t] \in Left(call[t].op)
    BY <2>1, HeadOp DEF Shape
  <2>5. todo[t] # <<"lock", "members">>
    BY <2>1
  <2>6. todo[t] \in Inside
    BY <2>1, <2>4, <2>5, BootTails DEF Left, SwitchLeft
  <2>7. lock = t /\ q \in Owns
    BY <2>3, <2>6 DEF Owner, Owns
  <2> QED BY <2>1, <2>7, OwnerThen
<1>4. ASSUME lock' = lock, NEW a \in {"read", "write", "show", "tune", "saveMode", "mode", "readRow", "showRow",
                      "showTable", "showStart", "display", "hdmiDisplay", "return"}, At(t, a), On(t)
      PROVE  Owner'
  <2>1. todo[t] # <<>> /\ Head(todo[t]) \notin {"lock", "unlock", "members"} /\ Then(t, Tail(todo[t]))
    BY <1>4 DEF At, On
  <2>2. Tail(todo[t]) \in Owns <=> todo[t] \in Owns
    BY <2>1, OwnsKept
  <2>3. todo[t] \in Owns <=> lock = t
    BY DEF Owner
  <2> QED BY <1>4, <2>1, <2>2, <2>3, OwnerThen
<1>5. ASSUME lock' = lock,
             \/ Then(t, <<>>) /\ (\E a \in {"show", "tune"} : At(t, a))
             \/ call[t].op = "mode" /\ Then(t, <<"return">>)
      PROVE  Owner'
  <2>1. todo[t] \in SetLeft \cup ModeLeft
    BY <1>5, HeadOp DEF Shape, Left, At
  <2>2. lock # t
    BY <2>1, OwnsApart DEF Owner
  <2> QED BY <1>0, <1>5, <2>2, OwnerThen
<1>6. CASE Show(t)
  <2>1. lock' = lock /\ At(t, "show")
    BY <1>6 DEF Show
  <2>2. CASE On(t)
    BY <2>1, <2>2, <1>4
  <2>3. CASE Then(t, <<>>)
    <3>1. \E a \in {"show", "tune"} : At(t, a)
      BY <2>1
    <3> QED BY <2>1, <2>3, <3>1, <1>5
  <2> QED BY <1>6, <2>2, <2>3 DEF Show
<1>7. CASE Tune(t)
  <2>1. lock' = lock /\ At(t, "tune")
    BY <1>7 DEF Tune
  <2>2. CASE On(t)
    BY <2>1, <2>2, <1>4
  <2>3. CASE Then(t, <<>>)
    <3>1. \E a \in {"show", "tune"} : At(t, a)
      BY <2>1
    <3> QED BY <2>1, <2>3, <3>1, <1>5
  <2> QED BY <1>7, <2>2, <2>3 DEF Tune
<1>8. CASE ShowRow(t)
  <2>1. lock' = lock /\ At(t, "showRow")
    BY <1>8 DEF ShowRow
  <2>2. CASE On(t)
    BY <2>1, <2>2, <1>4
  <2>3. CASE call[t].op = "mode" /\ Then(t, <<"return">>)
    BY <2>1, <2>3, <1>5
  <2> QED BY <1>8, <2>2, <2>3 DEF ShowRow
<1>9. CASE Read(t) \/ Write(t) \/ SaveMode(t) \/ LoadMode(t) \/ ReadRow(t)
  <2>1. lock' = lock /\ On(t) /\ \E a \in {"read", "write", "saveMode", "mode", "readRow"} : At(t, a)
    BY <1>9 DEF Read, Write, SaveMode, LoadMode, ReadRow
  <2> QED BY <2>1, <1>4
<1>10. CASE ShowTable(t) \/ ShowStart(t) \/ Display(t) \/ Return(t)
  <2>1. lock' = lock /\ On(t) /\ \E a \in {"showTable", "showStart", "display", "hdmiDisplay", "return"} : At(t, a)
    BY <1>10 DEF ShowTable, ShowStart, Display, Return
  <2> QED BY <2>1, <1>4
<1> QED BY <1>1, <1>2, <1>3, <1>6, <1>7, <1>8, <1>9, <1>10 DEF Step

\* A thread is inside PqControlMutex exactly when it owns it, in every state.
THEOREM OwnerHolds == Spec => []Owner
PROOF
<1>0. <<>> \notin Owns /\ BootProgram \notin Owns
  BY OwnsApart, BootStarts DEF SetLeft
<1>1. Init => Owner
  BY <1>0, Thread DEF Init, Owner
<1>2. Owner /\ Shape /\ [Next]_vars => Owner'
  <2> SUFFICES ASSUME Owner, Shape, [Next]_vars PROVE Owner'
    OBVIOUS
  <2>1. CASE UNCHANGED vars
    <3>1. todo' = todo /\ lock' = lock
      BY <2>1 DEF vars
    <3> QED BY <3>1 DEF Owner
  <2>2. ASSUME NEW t \in Threads, NEW c \in Calls, NEW p \in Programs, Starts(t, c, p), Begin(t, c, p)
        PROVE  Owner'
    <3>1. Then(t, p) /\ lock' = lock /\ todo[t] = <<>> /\ p \notin Owns
      BY <2>2 DEF Begin, Then, Starts
    <3>2. lock # t
      BY <3>1, <1>0 DEF Owner
    <3> QED BY <3>1, <3>2, OwnerThen
  <2>3. CASE Restart
    BY <1>0, <2>3, Thread DEF Restart, Owner
  <2>4. CASE Next
    BY <2>4, <2>2, <2>3, NextIs, StepOwner
  <2> QED BY <2>1, <2>4
<1> QED BY <1>1, <1>2, ShapeHolds, PTL DEF Spec

-----------------------------------------------------------------------------
(* Calls that overlap: who is told.                                         *)

\* A change of source that has something to load goes on after the members.
LEMMA MembersWork ==
  ASSUME NEW same \in BOOLEAN, NEW leaves \in BOOLEAN
  PROVE  (IF same THEN <<>> ELSE DisplayProgram \o (IF leaves THEN <<>> ELSE LoadProgram) \o <<"return">>)
             \o <<"unlock">> = <<"unlock">> <=> same
PROOF
<1> DEFINE q == (IF same THEN <<>> ELSE DisplayProgram \o (IF leaves THEN <<>> ELSE LoadProgram)
                                        \o <<"return">>) \o <<"unlock">>
<1>1. CASE same
  <2>1. q = <<>> \o <<"unlock">>
    BY <1>1
  <2> QED BY <1>1, <2>1, MembersConcats
<1>2. CASE ~same
  <2>1. \/ q = ((DisplayProgram \o <<>>) \o <<"return">>) \o <<"unlock">>
        \/ q = ((DisplayProgram \o LoadProgram) \o <<"return">>) \o <<"unlock">>
    BY <1>2
  <2>2. DisplayProgram = <<>> \/ DisplayProgram = <<"display">>
    BY DEF DisplayProgram
  <2>3. \/ q \in {<<"return", "unlock">>, <<"display", "return", "unlock">>}
        \/ q = <<"mode", "readRow", "showRow", "showTable", "return", "unlock">>
        \/ q = <<"display", "mode", "readRow", "showRow", "showTable", "return", "unlock">>
    BY <2>1, <2>2, MembersConcats
  <2>4. q # <<"unlock">>
    BY <2>3
  <2> QED BY <1>2, <2>4
<1> QED BY <1>1, <1>2

Ended == {<<>>, <<"unlock">>}

\* An access other than the first of a change of source and the last of a call
\* leaves a call that works working, and one that has ended ended.
LEMMA WorkKept ==
  ASSUME Shape, NEW t \in Threads, todo[t] # <<>>, Head(todo[t]) \notin {"members", "return"}
  PROVE  Tail(todo[t]) \in Ended <=> ~Working(t)
PROOF
<1>0. todo[t] \in Left(call[t].op) /\ call[t].op \in {"set", "mode", "switch", "info"}
  BY HeadOp DEF Shape
<1>1. ~Working(t) <=> todo[t] = <<"unlock">>
  BY DEF Working
<1>2. CASE call[t].op = "set"
  BY <1>0, <1>1, <1>2, SetTails, WorkingLeft DEF Left, Ended
<1>3. CASE call[t].op = "mode"
  BY <1>0, <1>1, <1>3, ModeTails, WorkingLeft DEF Left, Ended
<1>4. CASE call[t].op = "switch"
  <2>1. \/ todo[t] = <<"lock", "members">> \/ todo[t] \in Inside \/ todo[t] \in BootLeft
    BY <1>0, <1>4 DEF Left, SwitchLeft
  <2>2. CASE todo[t] = <<"lock", "members">>
    <3>1. Tail(todo[t]) = <<"members">>
      BY <2>2
    <3>2. Tail(todo[t]) \notin Ended /\ todo[t] # <<"unlock">>
      BY <3>1, <2>2 DEF Ended
    <3> QED BY <3>2, <1>1
  <2>3. CASE todo[t] \in Inside
    <3>1. CASE todo[t] = <<"unlock">>
      <4>1. Tail(todo[t]) = <<>>
        BY <2>3, <3>1, InsideTails
      <4> QED BY <4>1, <3>1, <1>1 DEF Ended
    <3>2. CASE todo[t] # <<"unlock">>
      <4>1. Tail(todo[t]) \in Inside /\ Tail(todo[t]) # <<"unlock">>
        BY <2>3, <3>2, InsideTails
      <4>2. Tail(todo[t]) \notin Ended
        BY <4>1, WorkingLeft DEF Ended
      <4> QED BY <4>2, <3>2, <1>1
    <3> QED BY <3>1, <3>2
  <2>4. CASE todo[t] \in BootLeft
    <3>1. Tail(todo[t]) \in BootLeft
      BY <2>4, BootTails
    <3> QED BY <3>1, <2>4, <1>1, WorkingLeft DEF Ended
  <2> QED BY <2>1, <2>2, <2>3, <2>4
<1>5. CASE call[t].op = "info"
  BY <1>0, <1>1, <1>5, InfoTails, WorkingLeft DEF Left, Ended
<1> QED BY <1>0, <1>2, <1>3, <1>4, <1>5

\* The last access leaves at most the mutex to give back.
LEMMA ReturnEnds ==
  ASSUME Shape, NEW t \in Threads, todo[t] # <<>>, Head(todo[t]) = "return"
  PROVE  Tail(todo[t]) \in Ended
PROOF
<1>0. todo[t] \in Left(call[t].op) /\ call[t].op \in {"set", "mode", "switch", "info"}
  BY HeadOp DEF Shape
<1>2. CASE call[t].op = "set"
  BY <1>0, <1>2, SetTails DEF Left, Ended
<1>3. CASE call[t].op = "mode"
  BY <1>0, <1>3, ModeTails DEF Left, Ended
<1>4. CASE call[t].op = "switch"
  <2>1. \/ todo[t] = <<"lock", "members">> \/ todo[t] \in Inside \/ todo[t] \in BootLeft
    BY <1>0, <1>4 DEF Left, SwitchLeft
  <2>2. todo[t] # <<"lock", "members">>
    OBVIOUS
  <2> QED BY <2>1, <2>2, InsideTails, BootTails DEF Ended
<1>5. CASE call[t].op = "info"
  BY <1>0, <1>5, InfoTails DEF Left, Ended
<1> QED BY <1>0, <1>2, <1>3, <1>4, <1>5

\* What an access does to the set of the calls that clash.
LEMMA StepWork ==
  ASSUME Shape, NEW t \in Threads, Step(t)
  PROVE  \E q : /\ Then(t, q)
                /\ \/ clash' = clash /\ (q \in Ended <=> ~Working(t))
                   \/ clash' = clash \ {t} /\ q \in Ended
PROOF
<1>1. ASSUME NEW a, At(t, a), On(t), a \notin {"members", "return"}, clash' = clash
      PROVE  \E q : Then(t, q) /\ clash' = clash /\ (q \in Ended <=> ~Working(t))
  BY <1>1, WorkKept DEF At, On
<1>2. CASE Members(t)
  <2> DEFINE same == ~call[t].exit /\ ~left /\ call[t].g = sig /\ input = call[t].g[1]
             q == (IF same THEN <<>> ELSE DisplayProgram \o (IF call[t].exit THEN <<>> ELSE LoadProgram)
                           \o <<"return">>) \o <<"unlock">>
  <2>1. todo[t] # <<>> /\ Head(todo[t]) = "members" /\ Then(t, q)
        /\ clash' = IF same THEN clash \ {t} ELSE clash
    BY <1>2 DEF Members, At
  <2>2. same \in BOOLEAN /\ call[t].exit \in BOOLEAN
    BY DEF Shape, Calls
  <2>3. q \in Inside /\ (q = <<"unlock">> <=> same)
    BY <2>2, MembersLeft, MembersWork
  <2>4. q \in Ended <=> same
    BY <2>3, WorkingLeft DEF Ended
  <2>5. todo[t] # <<"unlock">>
    BY <2>1
  <2> HIDE DEF q, same
  <2> QED BY <2>1, <2>4, <2>5 DEF Working
<1>3. CASE Return(t)
  <2>1. At(t, "return") /\ On(t) /\ clash' = clash \ {t}
    BY <1>3 DEF Return
  <2> QED BY <2>1, ReturnEnds DEF At, On
<1>4. CASE Show(t)
  <2>1. At(t, "show")
    BY <1>4 DEF Show
  <2>2. CASE On(t) /\ clash' = clash
    BY <2>1, <2>2, <1>1
  <2>3. CASE Then(t, <<>>) /\ clash' = clash \ {t}
    BY <2>3 DEF Ended
  <2> QED BY <1>4, <2>2, <2>3 DEF Show, history
<1>5. CASE Tune(t)
  <2>1. At(t, "tune")
    BY <1>5 DEF Tune
  <2>2. CASE On(t) /\ clash' = clash
    BY <2>1, <2>2, <1>1
  <2>3. CASE Then(t, <<>>) /\ clash' = clash \ {t}
    BY <2>3 DEF Ended
  <2> QED BY <1>5, <2>2, <2>3 DEF Tune
<1>6. CASE ShowRow(t)
  <2>1. At(t, "showRow") /\ clash' = clash
    BY <1>6 DEF ShowRow, history
  <2>2. CASE On(t)
    BY <2>1, <2>2, <1>1
  <2>3. CASE Then(t, <<"return">>)
    <3>1. <<"return">> \notin Ended
      BY DEF Ended
    <3>2. todo[t] # <<"unlock">>
      BY <2>1 DEF At
    <3>3. Working(t)
      BY <3>2, <2>1 DEF At, Working
    <3> QED BY <3>1, <3>3, <2>1, <2>3
  <2> QED BY <1>6, <2>2, <2>3 DEF ShowRow
<1>7. CASE Read(t) \/ Write(t) \/ SaveMode(t) \/ LoadMode(t) \/ ReadRow(t)
  <2>1. clash' = clash /\ On(t) /\ \E a \in {"read", "write", "saveMode", "mode", "readRow"} : At(t, a)
    BY <1>7 DEF Read, Write, SaveMode, LoadMode, ReadRow, history
  <2> QED BY <2>1, <1>1
<1>8. CASE ShowTable(t) \/ ShowStart(t) \/ Display(t) \/ Lock(t) \/ Unlock(t)
  <2>1. clash' = clash /\ On(t) /\ \E a \in {"showTable", "showStart", "display", "hdmiDisplay", "lock", "unlock"} : At(t, a)
    BY <1>8 DEF ShowTable, ShowStart, Display, Lock, Unlock, history
  <2> QED BY <2>1, <1>1
<1> QED BY <1>2, <1>3, <1>4, <1>5, <1>6, <1>7, <1>8 DEF Step

-----------------------------------------------------------------------------
(* Calls that overlap: what is promised.                                    *)

\* A call keeps its kind and its setting, and the others are left alone.
LEMMA StepCalls ==
  ASSUME Shape, NEW t \in Threads, Step(t)
  PROVE  /\ inUse' = inUse /\ flags' = flags
         /\ \A u \in Threads : call'[u].op = call[u].op /\ call'[u].s = call[u].s
         /\ \A u \in Threads : u # t \/ call[u].op # "switch" => call'[u] = call[u]
PROOF
<1>1. CASE LoadMode(t)
  <2>1. call[t].op = "switch"
    BY <1>1, HeadOp DEF LoadMode, At
  <2>2. call' = [call EXCEPT ![t].v = modeOf[sig]] /\ UNCHANGED fixed
    BY <1>1 DEF LoadMode
  <2> QED BY <2>1, <2>2 DEF Shape, Calls, fixed
<1>2. CASE Show(t) \/ Read(t) \/ Write(t) \/ Tune(t) \/ SaveMode(t) \/ ReadRow(t) \/ ShowRow(t)
  <2>1. call' = call /\ UNCHANGED fixed
    BY <1>2 DEF Show, Read, Write, Tune, SaveMode, ReadRow, ShowRow
  <2> QED BY <2>1 DEF fixed
<1>3. CASE ShowTable(t) \/ ShowStart(t) \/ Display(t) \/ Lock(t) \/ Members(t) \/ Unlock(t) \/ Return(t)
  <2>1. call' = call /\ UNCHANGED fixed
    BY <1>3 DEF ShowTable, ShowStart, Display, Lock, Members, Unlock, Return
  <2> QED BY <2>1 DEF fixed
<1> QED BY <1>1, <1>2, <1>3 DEF Step

\* A call that keeps its kind and setting touches what it touched.
LEMMA TouchedSame ==
  ASSUME inUse' = inUse, NEW t \in Threads, call'[t].op = call[t].op, call'[t].s = call[t].s
  PROVE  Touched(call[t])' = Touched(call[t])
PROOF BY DEF Touched

\* An access that tells no new clash and promises nothing a told call touches.
LEMMA OverlapThen ==
  ASSUME Shape, Overlap, NEW t \in Threads, NEW q, Then(t, q), todo[t] # <<>>, inUse' = inUse,
         \/ clash' = clash /\ (q \in Ended <=> ~Working(t))
         \/ clash' = clash \ {t} /\ q \in Ended,
         \A u \in Threads : call'[u].op = call[u].op /\ call'[u].s = call[u].s,
         \A k \in DOMAIN promised' : k \in DOMAIN promised \/ \A u \in clash \ {t} : k[1] \notin Touched(call[u]),
         \A k \in DOMAIN promised' : k \in DOMAIN promised \/ clash' = clash \ {t}
  PROVE  Overlap'
PROOF
<1>1. \A u \in Threads : todo'[u] = IF u = t THEN q ELSE todo[u]
  BY DEF Then, Shape
<1>2. \A u \in Threads : Touched(call[u])' = Touched(call[u])
  BY TouchedSame
<1>3. \A u \in Threads : Working(u)' => Working(u)
  BY <1>1 DEF Working, Ended
<1>4. \A u, x \in Threads : Conflict(call[u], call[x])' <=> Conflict(call[u], call[x])
  BY <1>2 DEF Conflict
<1>5. clash' \subseteq clash /\ \A u \in clash : u \in clash' \/ ~Working(u)'
  BY <1>1 DEF Working, Ended
<1>6. \A u \in clash' : Working(u)'
  <2> SUFFICES ASSUME NEW u \in clash' PROVE Working(u)'
    OBVIOUS
  <2>1. u \in clash /\ Working(u) /\ u \in Threads
    BY <1>5 DEF Overlap
  <2> QED BY <1>1, <2>1 DEF Working, Ended
<1>7. \A u \in clash' : \A k \in DOMAIN promised' : k[1] \notin Touched(call[u])'
  BY <1>2, <1>5 DEF Overlap
<1>8. \A u, x \in Threads : u # x /\ Working(u)' /\ Working(x)' /\ Conflict(call[u], call[x])' => u \in clash'
  BY <1>3, <1>4, <1>5 DEF Overlap
<1>9. clash' \subseteq Threads
  BY <1>5 DEF Overlap
<1> HIDE DEF Working, Conflict, Touched
<1> QED BY <1>6, <1>7, <1>8, <1>9 DEF Overlap

\* A setter that returns its promise ran into no call that touches the setting.
LEMMA ReturnAlone ==
  ASSUME Shape, Overlap, NEW t \in Threads, t \notin clash, Working(t), Keeps(call[t]),
         NEW u \in Threads \ {t}, Working(u)
  PROVE  call[t].s \notin Touched(call[u]) /\ Shared(call[t].s) \cap Touched(call[u]) = {}
PROOF
<1>1. call[t].op = "set" /\ call[t].s \in AllSettings
  BY GroupsKnown DEF Keeps, Shape
<1>2. ~Conflict(call[t], call[u])
  BY DEF Overlap
<1>3. Touched(call[t]) \cap Touched(call[u]) = {}
  BY <1>1, <1>2 DEF Conflict
<1> QED BY <1>1, <1>3, TouchedBySet, SharedIs

NewPromise(s, v) ==
  promised' = [k \in DOMAIN promised \cup {<<s, GetPlace(s)>>} |->
                  IF k = <<s, GetPlace(s)>> THEN v ELSE promised[k]]

\* Only the last access of a setter promises something.
LEMMA StepPromised ==
  ASSUME NEW t \in Threads, Step(t)
  PROVE  \/ DOMAIN promised' \subseteq DOMAIN promised /\ \A k \in DOMAIN promised' : promised'[k] = promised[k]
         \/ Return(t) /\ t \notin clash /\ Keeps(call[t]) /\
               NewPromise(call[t].s, call[t].v)
PROOF
<1>1. CASE Write(t)
  <2>1. PICK K : promised' = [k \in DOMAIN promised \ K |-> promised[k]]
    BY <1>1 DEF Write
  <2> QED BY <2>1
<1>2. CASE Return(t)
  BY <1>2 DEF Return, NewPromise
<1>3. CASE Show(t) \/ Read(t) \/ Tune(t) \/ SaveMode(t) \/ LoadMode(t) \/ ReadRow(t) \/ ShowRow(t)
  BY <1>3 DEF Show, Read, Tune, SaveMode, LoadMode, ReadRow, ShowRow, history
<1>4. CASE ShowTable(t) \/ ShowStart(t) \/ Display(t) \/ Lock(t) \/ Members(t) \/ Unlock(t)
  BY <1>4 DEF ShowTable, ShowStart, Display, Lock, Members, Unlock, history
<1> QED BY <1>1, <1>2, <1>3, <1>4 DEF Step

\* Every access keeps conflicting calls told.
LEMMA StepOverlap ==
  ASSUME Shape, Overlap, NEW t \in Threads, Step(t)
  PROVE  Overlap'
PROOF
<1>1. PICK q : /\ Then(t, q)
               /\ \/ clash' = clash /\ (q \in Ended <=> ~Working(t))
                  \/ clash' = clash \ {t} /\ q \in Ended
  BY StepWork, ZenonT(30)
<1>2. todo[t] # <<>>
  BY DEF Step, Show, Read, Write, Tune, SaveMode, LoadMode, ReadRow, ShowRow, ShowTable, ShowStart,
         Display, Lock, Members, Unlock, Return, At
<1>3. inUse' = inUse /\ \A u \in Threads : call'[u].op = call[u].op /\ call'[u].s = call[u].s
  BY StepCalls
<1>4. CASE DOMAIN promised' \subseteq DOMAIN promised
  BY <1>1, <1>2, <1>3, <1>4, OverlapThen
<1>5. ASSUME Return(t), t \notin clash, Keeps(call[t]),
             NewPromise(call[t].s, call[t].v)
      PROVE  Overlap'
  <2>1. DOMAIN promised' = DOMAIN promised \cup {<<call[t].s, GetPlace(call[t].s)>>}
    BY <1>5 DEF NewPromise
  <2>2. Working(t)
    BY <1>5 DEF Return, At, Working
  <2>3. \A u \in clash : u \in Threads \ {t} /\ Working(u)
    BY <1>5 DEF Overlap
  <2>4. \A u \in clash : call[t].s \notin Touched(call[u])
    BY <1>5, <2>2, <2>3, ReturnAlone
  <2>5. clash' = clash \ {t}
    BY <1>5 DEF Return
  <2>6. \A k \in DOMAIN promised' : k \in DOMAIN promised \/ \A u \in clash \ {t} : k[1] \notin Touched(call[u])
    BY <2>1, <2>4
  <2>7. \A k \in DOMAIN promised' : k \in DOMAIN promised \/ clash' = clash \ {t}
    BY <2>5
  <2> QED BY <1>1, <1>2, <1>3, <2>6, <2>7, OverlapThen
<1> QED BY <1>4, <1>5, StepPromised

\* A call that begins is told of the calls it conflicts with, and tells them.
LEMMA BeginOverlap ==
  ASSUME Shape, Overlap, NEW t \in Threads, NEW c \in Calls, NEW p, Starts(t, c, p), Begin(t, c, p)
  PROVE  Overlap'
PROOF
<1> DEFINE others == {u \in Threads \ {t} : Working(u) /\ Conflict(c, call[u])}
           disturbed == UNION {Touched(c) \cup Touched(call[u]) : u \in others}
<1>1. /\ inUse' = inUse /\ call' = [call EXCEPT ![t] = c] /\ Then(t, p) /\ todo[t] = <<>>
      /\ clash' = IF others = {} THEN clash ELSE clash \cup others \cup {t}
      /\ promised' = Without(promised, disturbed)
  BY DEF Begin, Then, fixed
<1>2. p \notin Ended
  BY DEF Starts, Ended
<1>3. \A u \in Threads : /\ todo'[u] = IF u = t THEN p ELSE todo[u]
                         /\ call'[u] = IF u = t THEN c ELSE call[u]
  BY <1>1 DEF Then, Shape
<1>4. /\ \A u \in Threads \ {t} : (Working(u)' <=> Working(u)) /\ Touched(call[u])' = Touched(call[u])
      /\ Working(t)' /\ ~Working(t)
  <2>1. \A u \in Threads \ {t} : Touched(call[u])' = Touched(call[u])
    BY <1>1, <1>3, TouchedSame
  <2>2. \A u \in Threads \ {t} : Working(u)' <=> Working(u)
    BY <1>3 DEF Working
  <2>3. Working(t)' /\ ~Working(t)
    BY <1>1, <1>2, <1>3 DEF Working, Ended
  <2> QED BY <2>1, <2>2, <2>3
<1>5. Touched(call[t])' = Touched(c)
  BY <1>1, <1>3 DEF Touched
<1>6. \A k \in DOMAIN promised' : k \in DOMAIN promised /\ k[1] \notin disturbed
  BY <1>1 DEF Without
<1>7. clash \subseteq Threads \ {t} /\ others \subseteq Threads \ {t}
  BY <1>4 DEF Overlap
<1>8. clash' \subseteq Threads /\ clash \cup others \subseteq clash' /\ clash' \subseteq clash \cup others \cup {t}
      /\ (t \in clash' <=> others # {})
  BY <1>1, <1>7
<1>9. \A u, x \in Threads \ {t} : Conflict(call[u], call[x])' <=> Conflict(call[u], call[x])
  BY <1>3, <1>4 DEF Conflict
<1>10. \A u \in Threads \ {t} : /\ Conflict(call[t], call[u])' <=> Conflict(c, call[u])
                                /\ Conflict(call[u], call[t])' <=> Conflict(call[u], c)
  BY <1>3, <1>4, <1>5 DEF Conflict
<1>11. ASSUME NEW u \in Threads, NEW x \in Threads, u # x, Working(u)', Working(x)', Conflict(call[u], call[x])'
       PROVE  u \in clash'
  <2>1. CASE u # t /\ x # t
    BY <1>4, <1>8, <1>9, <1>11, <2>1 DEF Overlap
  <2>2. CASE u = t
    <3>1. x \in others
      BY <1>4, <1>10, <1>11, <2>2
    <3> QED BY <3>1, <1>8, <2>2
  <2>3. CASE x = t
    <3>1. Conflict(call[u], c)
      BY <1>10, <1>11, <2>3
    <3>2. Conflict(c, call[u])
      BY <3>1, ConflictSame
    <3>3. u \in others
      BY <1>4, <1>11, <2>3, <3>2
    <3> QED BY <3>3, <1>8
  <2> QED BY <2>1, <2>2, <2>3
<1>12. \A u \in clash' : Working(u)'
  BY <1>4, <1>7, <1>8 DEF Overlap
<1>13. ASSUME NEW u \in clash', NEW k \in DOMAIN promised'
       PROVE  k[1] \notin Touched(call[u])'
  <2>1. CASE u \in clash
    BY <1>4, <1>6, <1>7, <2>1 DEF Overlap
  <2>2. CASE u \in others
    BY <1>4, <1>6, <1>7, <2>2
  <2>3. CASE u = t
    <3>1. PICK x \in others : TRUE
      BY <2>3, <1>8
    <3>2. Touched(c) \subseteq disturbed
      BY <3>1
    <3> QED BY <3>2, <2>3, <1>5, <1>6
  <2> QED BY <1>8, <2>1, <2>2, <2>3
<1> HIDE DEF others, disturbed
<1> QED BY <1>8, <1>11, <1>12, <1>13 DEF Overlap

\* A call that clashes with another knows it, and no promise is about either.
THEOREM OverlapHolds == Spec => []Overlap
PROOF
<1>1. Init => Overlap
  <2> SUFFICES ASSUME Init PROVE Overlap
    OBVIOUS
  <2>1. \A t \in Threads : Working(t) => t = Main
    BY DEF Init, Working
  <2>2. clash = {}
    BY DEF Init
  <2> QED BY <2>1, <2>2 DEF Overlap
<1>2. Overlap /\ Shape /\ [Next]_vars => Overlap'
  <2> SUFFICES ASSUME Overlap, Shape, [Next]_vars PROVE Overlap'
    OBVIOUS
  <2>1. CASE UNCHANGED vars
    <3>1. UNCHANGED <<todo, call, clash, promised, inUse>>
      BY <2>1 DEF vars, history, fixed
    <3>2. \A t \in Threads : (Working(t)' <=> Working(t)) /\ Touched(call[t])' = Touched(call[t])
      BY <3>1, TouchedSame DEF Working
    <3>3. \A t, u \in Threads : Conflict(call[t], call[u])' <=> Conflict(call[t], call[u])
      BY <3>1, <3>2 DEF Conflict
    <3> QED BY <3>1, <3>2, <3>3 DEF Overlap
  <2>2. CASE Restart
    <3>1. \A t \in Threads : Working(t)' => t = Main
      BY <2>2 DEF Restart, Working
    <3>2. clash' = {}
      BY <2>2 DEF Restart
    <3> QED BY <3>1, <3>2 DEF Overlap
  <2>3. CASE Next
    BY <2>2, <2>3, NextIs, StepOverlap, BeginOverlap
  <2> QED BY <2>1, <2>3
<1> QED BY <1>1, <1>2, ShapeHolds, PTL DEF Spec

-----------------------------------------------------------------------------
(* What a setter reads and writes.                                          *)

\* Promises are of a setting at a place; each thread has a row.
Keyed ==
  /\ \A k \in DOMAIN promised : k = <<k[1], k[2]>>
  /\ row = [t \in Threads |-> row[t]]

\* A setter that has been told of no clash shares nothing with the calls under way.
LEMMA Apart ==
  ASSUME Overlap, NEW t \in Threads, call[t].op = "set", Working(t), t \notin clash,
         NEW u \in Threads \ {t}, Working(u)
  PROVE  Touched(call[t]) \cap Touched(call[u]) = {}
PROOF
<1>1. ~Conflict(call[t], call[u])
  BY DEF Overlap
<1> QED BY <1>1 DEF Conflict

\* The fields of a record are kept at one place.
LEMMA PlaceShared ==
  ASSUME NEW s \in AllSettings, Whole(s), NEW r \in Shared(s), NEW m
  PROVE  Place(r, m) = Place(s, m)
PROOF
<1>1. Rows[s].keep \in Recorded /\ Rows[r].keep = Rows[s].keep
  BY SharedIs
<1> QED BY <1>1 DEF Place, Recorded

\* What the write of a call puts into the file: its value, and as it was read
\* what is promised of the other fields.
WritesNew(u, new) ==
  LET c == call[u] IN
  /\ file' = Rewritten(new)
  /\ \A k \in DOMAIN new : k[1] \in Shared(c.s) /\ k[1] \in inUse
  /\ \A k \in DOMAIN new : k[1] = c.s => new[k] = c.v
  /\ u \notin clash => /\ <<c.s, GetPlace(c.s)>> \in DOMAIN new
                       /\ \A k \in DOMAIN new : k[1] = c.s => k = <<c.s, GetPlace(c.s)>>
  /\ \A k \in DOMAIN new : k[1] # c.s /\ k \in DOMAIN promised => new[k] = promised[k]
  /\ \A k \in DOMAIN new : k[1] # c.s =>
        Whole(c.s) /\ k[1] \in DOMAIN row[u].fields /\ new[k] = row[u].fields[k[1]]

\* The write of a setter puts back its value and what is promised of the rest.
LEMMA WriteIs ==
  ASSUME Shape, RowKept, NEW u \in Threads, Write(u)
  PROVE  \E new : WritesNew(u, new)
PROOF
<1> DEFINE c == call[u]  s == c.s
<1>1. todo[u] # <<>> /\ Head(todo[u]) = "write"
  BY DEF Write, At
<1>2. c.op = "set" /\ s \in inUse /\ s \in AllSettings
  BY <1>1, HeadOp, GroupsKnown DEF Shape
<1>3. s \in Shared(s)
  BY <1>2, SharedIs
<1>4. CASE ~Whole(s)
  <2> DEFINE new == [k \in {<<s, Place(s, modeOf[sig])>>} |-> c.v]
  <2>1. file' = Rewritten(new)
    BY <1>4 DEF Write, Whole
  <2>2. DOMAIN new = {<<s, GetPlace(s)>>} /\ new[<<s, GetPlace(s)>>] = c.v
    BY DEF GetPlace
  <2> HIDE DEF new
  <2>3. \A k \in DOMAIN new : k = <<s, GetPlace(s)>> /\ k[1] = s /\ new[k] = c.v
    BY <2>2
  <2>4. WritesNew(u, new)
    BY <2>1, <2>2, <2>3, <1>2, <1>3 DEF WritesNew
  <2> QED BY <2>4
<1>5. CASE Whole(s)
  <2>1. todo[u] \in HasRead
    <3>1. todo[u] \in SetLeft \ {<<>>}
      BY <1>1, <1>2 DEF Shape, Left
    <3>2. todo[u] \in HasRead \cup NoRead
      BY <3>1, <1>1, SetTails
    <3> QED BY <3>2, <1>2, <1>5 DEF Shape
  <2> DEFINE old == row[u].fields
             m == row[u].mode
             fields == [old EXCEPT ![s] = c.v]
             new == [k \in {<<r, Place(r, m)>> : r \in DOMAIN fields} |-> fields[k[1]]]
  <2>2. /\ DOMAIN old = Shared(s) \cap inUse
        /\ \A r \in DOMAIN old : <<r, Place(r, m)>> \in DOMAIN promised => old[r] = promised[<<r, Place(r, m)>>]
        /\ u \notin clash => Place(s, m) = GetPlace(s)
    BY <2>1, <1>2, <1>5 DEF RowKept
  <2>3. file' = Rewritten(new)
    BY <1>5 DEF Write, Whole
  <2>4. DOMAIN fields = DOMAIN old /\ fields[s] = c.v /\ \A r \in DOMAIN old : r # s => fields[r] = old[r]
    BY <2>2, <1>2, <1>3
  <2> HIDE DEF fields
  <2>5. DOMAIN new = {<<r, Place(r, m)>> : r \in DOMAIN old}
    BY <2>4
  <2>6. \A r \in DOMAIN old : new[<<r, Place(r, m)>>] = fields[r]
    BY <2>4
  <2> HIDE DEF new, old
  <2>7. \A k \in DOMAIN new : \E r \in DOMAIN old : k = <<r, Place(r, m)>> /\ k[1] = r
    BY <2>5
  <2>8. <<s, Place(s, m)>> \in DOMAIN new
    BY <2>2, <2>5, <1>2, <1>3
  <2>9. \A k \in DOMAIN new : k[1] \in Shared(s) /\ k[1] \in inUse
    BY <2>2, <2>7
  <2>10. \A k \in DOMAIN new : k[1] = s => new[k] = c.v /\ k = <<s, Place(s, m)>>
    BY <2>4, <2>6, <2>7
  <2>11. \A k \in DOMAIN new : k[1] # s => new[k] = old[k[1]] /\ k[1] \in DOMAIN old /\ k = <<k[1], Place(k[1], m)>>
    BY <2>4, <2>6, <2>7
  <2>12. u \notin clash => /\ <<s, GetPlace(s)>> \in DOMAIN new
                           /\ \A k \in DOMAIN new : k[1] = s => k = <<s, GetPlace(s)>>
    BY <2>2, <2>8, <2>10
  <2>13. \A k \in DOMAIN new : k[1] # s /\ k \in DOMAIN promised => new[k] = promised[k]
    BY <2>2, <2>11
  <2>14. \A k \in DOMAIN new : k[1] # s => k[1] \in DOMAIN row[u].fields /\ new[k] = row[u].fields[k[1]]
    BY <2>11 DEF old
  <2>15. WritesNew(u, new)
    BY <1>5, <2>3, <2>9, <2>10, <2>12, <2>13, <2>14 DEF WritesNew
  <2> QED BY <2>15
<1> QED BY <1>4, <1>5

\* SetDisplayMode with the value kept changes no value.
LEMMA DisplayKeeps ==
  ASSUME NEW u \in Threads, Display(u)
  PROVE  /\ \A k \in DOMAIN file : k \in DOMAIN file' /\ file'[k] = file[k]
         /\ \A s, place : ValueAt(s, place)' = ValueAt(s, place)
         /\ \A source : MemcStored(source)' = MemcStored(source)
PROOF
<1>0. Rows["DisplayMode"].keep = "source" /\ "DisplayMode" # "MemcMode"
  BY KeepsOf
<1>1. CASE file' = file
  BY <1>1 DEF ValueAt, MemcStored
<1>2. CASE file' = Rewritten([k \in {<<"DisplayMode", Place("DisplayMode", 0)>>} |-> Stored("DisplayMode")])
  <2> DEFINE p == Place("DisplayMode", 0)
             key == <<"DisplayMode", p>>
             w == Stored("DisplayMode")
  <2>1. p = GetPlace("DisplayMode")
    BY <1>0 DEF GetPlace, Place
  <2>2. w = IF key \in DOMAIN file THEN file[key] ELSE Rows["DisplayMode"].default
    BY <2>1, <1>0 DEF Stored, ValueAt
  <2>3. /\ DOMAIN file' = DOMAIN file \cup {key}
        /\ file'[key] = w /\ \A k \in DOMAIN file : k # key => file'[k] = file[k]
    BY <1>2 DEF Rewritten
  <2> HIDE DEF w, p
  <2>4. \A k \in DOMAIN file : k \in DOMAIN file' /\ file'[k] = file[k]
    BY <2>2, <2>3
  <2>5. \A s, place : <<s, place>> # key => ValueAt(s, place)' = ValueAt(s, place)
    BY <2>3, <2>4 DEF ValueAt
  <2>6. \A s, place : <<s, place>> = key => ValueAt(s, place)' = w /\ ValueAt(s, place) = w
    <3> SUFFICES ASSUME NEW s, NEW place, <<s, place>> = key
                 PROVE  ValueAt(s, place)' = w /\ ValueAt(s, place) = w
      OBVIOUS
    <3>1. s = "DisplayMode"
      OBVIOUS
    <3>2. ValueAt(s, place) = w
      BY <2>2, <3>1, <1>0 DEF ValueAt
    <3>3. ValueAt(s, place)' = file'[key]
      BY <2>3 DEF ValueAt
    <3> QED BY <3>2, <3>3, <2>3
  <2>7. \A source : <<"MemcMode", <<source, "any", 0>>>> # key
    BY <1>0
  <2>8. \A source : MemcStored(source)' = MemcStored(source)
    BY <2>3, <2>4, <2>7 DEF MemcStored
  <2> QED BY <2>4, <2>5, <2>6, <2>8
<1> QED BY <1>1, <1>2 DEF Display

\* What is written of other settings leaves a value alone.
LEMMA WriteLeaves ==
  ASSUME NEW new, file' = Rewritten(new), NEW s, \A k \in DOMAIN new : k[1] # s
  PROVE  /\ \A place : ValueAt(s, place)' = ValueAt(s, place)
         /\ \A place : <<s, place>> \in DOMAIN file =>
                <<s, place>> \in DOMAIN file' /\ file'[<<s, place>>] = file[<<s, place>>]
         /\ s = "MemcMode" => \A source : MemcStored(source)' = MemcStored(source)
PROOF
<1>1. \A place : <<s, place>> \notin DOMAIN new
  <2> SUFFICES ASSUME NEW place PROVE <<s, place>> \notin DOMAIN new
    OBVIOUS
  <2>1. <<s, place>>[1] = s
    OBVIOUS
  <2> QED BY <2>1
<1>2. \A place : /\ <<s, place>> \in DOMAIN file' <=> <<s, place>> \in DOMAIN file
                 /\ <<s, place>> \in DOMAIN file => file'[<<s, place>>] = file[<<s, place>>]
  BY <1>1 DEF Rewritten
<1> QED BY <1>2 DEF ValueAt, MemcStored

-----------------------------------------------------------------------------
(* What the accesses of other calls leave alone.                            *)

\* What an access leaves alone.
LEMMA StepStill ==
  ASSUME Shape, Keyed, NEW u \in Threads, Step(u)
  PROVE  /\ Members(u) \/ (sig' = sig /\ input' = input)
         /\ SaveMode(u) \/ modeOf' = modeOf
         /\ Write(u) \/ Display(u) \/ file' = file
         /\ \A t \in Threads : t # u => row'[t] = row[t] /\ todo'[t] = todo[t]
         /\ Read(u) \/ ReadRow(u) \/ row' = row
         /\ row' = [t \in Threads |-> row'[t]]
PROOF
<1> USE DEF Keyed
<1>0. \A t \in Threads : t # u => todo'[t] = todo[t]
  BY StepWork DEF Shape, Then
<1>1. CASE Show(u) \/ Tune(u)
  <2>1. row' = row /\ file' = file /\ modeOf' = modeOf /\ sig' = sig /\ input' = input
    BY <1>1 DEF Show, Tune, disk, members
  <2> QED BY <1>0, <2>1
<1>2. CASE Read(u) \/ ReadRow(u)
  <2>1. file' = file /\ modeOf' = modeOf /\ sig' = sig /\ input' = input
    BY <1>2 DEF Read, ReadRow, disk, members
  <2>3. PICK x : row' = [row EXCEPT ![u] = x]
    BY <1>2 DEF Read, ReadRow
  <2>4. DOMAIN row = Threads
    OBVIOUS
  <2>5. row' = [t \in Threads |-> row'[t]] /\ \A t \in Threads : t # u => row'[t] = row[t]
    BY <2>3, <2>4
  <2> QED BY <1>0, <1>2, <2>1, <2>5
<1>3. CASE Write(u) \/ SaveMode(u) \/ Members(u)
  <2>1. /\ row' = row
        /\ \/ Members(u) /\ file' = file /\ modeOf' = modeOf
           \/ SaveMode(u) /\ file' = file /\ sig' = sig /\ input' = input
           \/ Write(u) /\ modeOf' = modeOf /\ sig' = sig /\ input' = input
    BY <1>3 DEF Write, SaveMode, Members, disk, members
  <2> QED BY <1>0, <2>1
<1>4. CASE LoadMode(u) \/ ShowRow(u) \/ ShowTable(u) \/ ShowStart(u)
  <2>1. row' = row /\ file' = file /\ modeOf' = modeOf /\ sig' = sig /\ input' = input
    BY <1>4 DEF LoadMode, ShowRow, ShowTable, ShowStart, disk, members
  <2> QED BY <1>0, <2>1
<1>5. CASE Display(u) \/ Lock(u) \/ Unlock(u) \/ Return(u)
  <2>1. row' = row /\ (Display(u) \/ file' = file) /\ modeOf' = modeOf /\ sig' = sig /\ input' = input
    BY <1>5 DEF Display, Lock, Unlock, Return, disk, members
  <2> QED BY <1>0, <2>1
<1> QED BY <1>1, <1>2, <1>3, <1>4, <1>5 DEF Step

\* Which call makes an access.
LEMMA StepOp ==
  ASSUME Shape, NEW u \in Threads, Step(u)
  PROVE  /\ Members(u) => call[u].op = "switch" /\ Working(u)
         /\ SaveMode(u) => call[u].op = "mode" /\ Working(u)
         /\ Write(u) => call[u].op = "set" /\ Working(u)
         /\ Return(u) => Working(u) /\ Head(todo[u]) = "return"
         /\ call[u].op = "set" => \/ Show(u) \/ Read(u) \/ Write(u) \/ Tune(u) \/ Return(u)
PROOF
<1>0. todo[u] # <<>> /\ (Head(todo[u]) # "unlock" => Working(u))
  <2>1. todo[u] # <<>>
    BY DEF Step, Show, Read, Write, Tune, SaveMode, LoadMode, ReadRow, ShowRow, ShowTable, ShowStart,
           Display, Lock, Members, Unlock, Return, At
  <2>2. todo[u] = <<"unlock">> => Head(todo[u]) = "unlock"
    OBVIOUS
  <2> QED BY <2>1, <2>2, ZenonT(30) DEF Working
<1>1. Members(u) => call[u].op = "switch" /\ Working(u)
  BY <1>0, HeadOp DEF Members, At
<1>2. SaveMode(u) => call[u].op = "mode" /\ Working(u)
  BY <1>0, HeadOp DEF SaveMode, At
<1>3. Write(u) => call[u].op = "set" /\ Working(u)
  BY <1>0, HeadOp DEF Write, At
<1>4. Return(u) => Working(u) /\ Head(todo[u]) = "return"
  BY <1>0 DEF Return, At
<1>5. ASSUME call[u].op = "set" PROVE \/ Show(u) \/ Read(u) \/ Write(u) \/ Tune(u) \/ Return(u)
  <2>1. todo[u] \in SetLeft \ {<<>>}
    BY <1>0, <1>5 DEF Shape, Left
  <2>2. Head(todo[u]) \in {"read", "write", "show", "tune", "return"}
    BY <2>1, SetTails
  <2> QED BY <2>2 DEF Step, SaveMode, LoadMode, ReadRow, ShowRow, ShowTable, ShowStart,
           Display, Lock, Members, Unlock, At
<1> QED BY <1>1, <1>2, <1>3, <1>4, <1>5

\* Where the value of a setting is kept changes with the members, the mode kept
\* and, for the levels of MEMC, the mode of MEMC.
LEMMA PlaceSame ==
  ASSUME NEW s, Rows[s].keep \in Moved => sig' = sig /\ input' = input /\ modeOf'[sig] = modeOf[sig],
         Rows[s].keep = "level" => \A source : MemcStored(source)' = MemcStored(source)
  PROVE  GetPlace(s)' = GetPlace(s) /\ \A m : Place(s, m)' = Place(s, m)
PROOF
<1>1. CASE Rows[s].keep \notin Moved
  BY <1>1 DEF GetPlace, Place, Moved
<1>2. CASE Rows[s].keep \in Moved
  <2>1. sig' = sig /\ input' = input /\ modeOf'[sig] = modeOf[sig]
    BY <1>2
  <2>2. Rows[s].keep = "level" => MemcStored(input)' = MemcStored(input)
    BY <2>1
  <2>3. \A m : Place(s, m)' = Place(s, m)
    BY <2>1, <2>2 DEF Place
  <2> QED BY <2>1, <2>3 DEF GetPlace
<1> QED BY <1>1, <1>2

\* The accesses of the other calls move no setter's value that is not told.
LEMMA PlaceStep ==
  ASSUME Shape, Overlap, RowKept, Keyed, NEW t \in Threads, call[t].op = "set", Working(t), t \notin clash,
         NEW u \in Threads, Step(u)
  PROVE  GetPlace(call[t].s)' = GetPlace(call[t].s) /\ \A m : Place(call[t].s, m)' = Place(call[t].s, m)
PROOF
<1> DEFINE s == call[t].s
<1>1. s \in inUse /\ s \in AllSettings /\ s \in Touched(call[t])
  <2>1. s \in inUse /\ s \in AllSettings
    BY GroupsKnown DEF Shape
  <2> QED BY <2>1, SharedIs, TouchedBySet
<1>2. Rows[s].keep \in Moved => ~Members(u) /\ ~SaveMode(u)
  <2> SUFFICES ASSUME Rows[s].keep \in Moved, Members(u) \/ SaveMode(u) PROVE FALSE
    OBVIOUS
  <2>1. call[u].op \in {"mode", "switch"} /\ Working(u) /\ u # t
    BY StepOp
  <2>2. s \in Touched(call[u])
    BY <1>1, <2>1, TouchedByMove
  <2> QED BY <1>1, <2>1, <2>2, Apart
<1>3. Rows[s].keep \in Moved => sig' = sig /\ input' = input /\ modeOf'[sig] = modeOf[sig]
  BY <1>2, StepStill
<1>4. ASSUME Rows[s].keep = "level" PROVE \A source : MemcStored(source)' = MemcStored(source)
  <2>1. CASE Write(u)
    <3>1. PICK new : WritesNew(u, new)
      BY <2>1, WriteIs
    <3>2. call[u].op = "set" /\ Working(u) /\ call[u].s \in AllSettings
      BY <2>1, StepOp, GroupsKnown DEF Shape
    <3>3. "MemcMode" \notin Shared(call[u].s)
      <4>1. CASE u = t
        <5>1. \A r \in Shared(s) : Rows[r].keep = Rows[s].keep
          BY <1>1, SharedIs
        <5> QED BY <4>1, <5>1, <1>4, KeepsOf
      <4>2. CASE u # t
        <5>1. s \in {"MemcMode", "MemcDeBlur", "MemcDeJudder"}
          BY <1>1, <1>4, KeepsOf
        <5>2. "MemcMode" \in Touched(call[t])
          BY <5>1, TouchedBySet
        <5>3. "MemcMode" \notin Touched(call[u])
          BY <3>2, <4>2, <5>2, Apart
        <5> QED BY <3>2, <5>3, TouchedBySet
      <4> QED BY <4>1, <4>2
    <3>4. file' = Rewritten(new) /\ \A k \in DOMAIN new : k[1] # "MemcMode"
      BY <3>1, <3>3 DEF WritesNew
    <3> QED BY <3>4, WriteLeaves
  <2>2. CASE Display(u)
    BY <2>2, DisplayKeeps
  <2>3. CASE file' = file
    BY <2>3 DEF MemcStored
  <2> QED BY <2>1, <2>2, <2>3, StepStill
<1> HIDE DEF s
<1>5. GetPlace(s)' = GetPlace(s) /\ \A m : Place(s, m)' = Place(s, m)
  <2>1. s' = s
    BY StepCalls DEF s
  <2> QED BY <2>1, <1>3, <1>4, PlaceSame
<1> QED BY <1>5 DEF s

-----------------------------------------------------------------------------
(* What has been read and what has been written stay good.                  *)

\* Parts of the setters' programs: what has been written is still to return.
LEMMA PartsWork ==
  /\ \A q \in HasRead \cup Wrote : q \in SetLeft /\ q \notin Ended
  /\ \A q \in HasRead : q \notin Wrote
PROOF
<1>1. \A q \in HasRead \cup Wrote : q \in SetLeft /\ q # <<>>
  BY SMTT(60) DEF HasRead, Wrote, SetLeft
<1>2. \A q \in HasRead \cup Wrote : q # <<"unlock">>
  BY <1>1, WorkingLeft
<1>3. \A q \in HasRead : q \notin Wrote
  BY SMTT(60) DEF HasRead, Wrote
<1> QED BY <1>1, <1>2, <1>3 DEF Ended

\* A call that has work left to do, and that is not told of a clash, was not told
\* before its access.
LEMMA NotToldBefore ==
  ASSUME Shape, Overlap, NEW u \in Threads, Step(u), NEW t \in Threads, todo'[t] \notin Ended, t \notin clash'
  PROVE  t \notin clash /\ Working(t)
PROOF
<1>1. PICK q : /\ Then(u, q)
               /\ \/ clash' = clash /\ (q \in Ended <=> ~Working(u))
                  \/ clash' = clash \ {u} /\ q \in Ended
  BY StepWork
<1>2. todo'[t] = IF t = u THEN q ELSE todo[t]
  BY <1>1 DEF Then, Shape
<1> QED BY <1>1, <1>2 DEF Working, Ended

\* Every access keeps the values written by setters that were told of nothing.
LEMMA StepWriteKept ==
  ASSUME Shape, Overlap, RowKept, WriteKept, Keyed, NEW u \in Threads, Step(u)
  PROVE  WriteKept'
PROOF
<1> SUFFICES ASSUME NEW t \in Threads, call'[t].op = "set", Keeps(call[t])', todo'[t] \in Wrote, t \notin clash'
             PROVE  /\ (<<call[t].s, GetPlace(call[t].s)>> \in DOMAIN file)'
                    /\ (file[<<call[t].s, GetPlace(call[t].s)>>] = call[t].v)'
  BY DEF WriteKept
<1> DEFINE s == call[t].s  k == <<s, GetPlace(s)>>
<1>1. call'[t] = call[t] /\ call[t].op = "set" /\ flags' = flags
  BY StepCalls
<1>2. Keeps(call[t])
  BY <1>1 DEF Keeps
<1>3. t \notin clash /\ Working(t)
  BY PartsWork, NotToldBefore
<1>4. GetPlace(s)' = GetPlace(s)
  BY <1>1, <1>3, PlaceStep
<1>5. s \in AllSettings /\ s \in inUse /\ s \in Touched(call[t])
  <2>1. s \in inUse /\ s \in AllSettings
    BY <1>1, GroupsKnown DEF Shape
  <2> QED BY <1>1, <2>1, SharedIs, TouchedBySet
<1>6. CASE t = u /\ Write(u)
  <2>1. PICK new : WritesNew(u, new)
    BY <1>6, WriteIs
  <2>2. k \in DOMAIN new /\ new[k] = call[t].v /\ file' = Rewritten(new)
    BY <2>1, <1>3, <1>6 DEF WritesNew
  <2>3. k \in DOMAIN file' /\ file'[k] = call[t].v
    BY <2>2 DEF Rewritten
  <2> HIDE DEF k
  <2>4. k' = k
    BY <1>1, <1>4 DEF k
  <2> QED BY <2>3, <2>4, <1>1 DEF k
<1>7. CASE ~(t = u /\ Write(u))
  <2>1. todo[t] \in Wrote
    <3>1. CASE t = u
      <4>1. todo[u] \in SetLeft \ {<<>>}
        BY <1>1, <1>3, <3>1 DEF Shape, Left, Working
      <4>2. Show(u) \/ Read(u) \/ Tune(u) \/ Return(u)
        BY <1>1, <1>7, <3>1, StepOp
      <4>3. Head(todo[u]) # "write" /\ (On(u) \/ Then(u, <<>>))
        BY <4>2 DEF Show, Read, Tune, Return, At
      <4>4. todo'[u] = Tail(todo[u]) \/ todo'[u] = <<>>
        BY <4>3 DEF On, Then, Shape
      <4>5. todo'[u] = Tail(todo[u])
        BY <4>4, <3>1, PartsWork DEF Ended
      <4>6. Tail(todo[u]) \in Wrote
        BY <4>5, <3>1
      <4> QED BY <4>1, <4>3, <4>6, <3>1, SetTails
    <3>2. CASE t # u
      BY <3>2, StepStill
    <3> QED BY <3>1, <3>2
  <2>2. k \in DOMAIN file /\ file[k] = call[t].v
    BY <2>1, <1>1, <1>2, <1>3 DEF WriteKept
  <2>3. k \in DOMAIN file' /\ file'[k] = file[k]
    <3>1. CASE Write(u)
      <4>1. PICK new : WritesNew(u, new)
        BY <3>1, WriteIs
      <4>2. call[u].op = "set" /\ Working(u) /\ u # t
        BY <3>1, <1>7, StepOp
      <4>3. s \notin Shared(call[u].s)
        BY <4>2, <1>1, <1>3, <1>5, Apart, TouchedBySet
      <4>4. file' = Rewritten(new) /\ \A j \in DOMAIN new : j[1] # s
        BY <4>1, <4>3 DEF WritesNew
      <4> QED BY <4>4, <2>2, WriteLeaves
    <3>2. CASE Display(u)
      BY <2>2, <3>2, DisplayKeeps
    <3>3. CASE file' = file
      BY <2>2, <3>3
    <3> QED BY <3>1, <3>2, <3>3, StepStill
  <2> HIDE DEF k
  <2>4. k' = k
    BY <1>1, <1>4 DEF k
  <2> QED BY <2>2, <2>3, <2>4, <1>1 DEF k
<1> QED BY <1>6, <1>7

\* Every access keeps the records read to be written whole up to date.
LEMMA StepRowKept ==
  ASSUME Shape, Places, Overlap, Overlap', RowKept, Kept, Keyed, NEW u \in Threads, Step(u)
  PROVE  RowKept'
PROOF
<1> DEFINE Good(t) ==
      LET c == call[t] IN
            /\ DOMAIN row[t].fields = Shared(c.s) \cap inUse
            /\ \A r \in DOMAIN row[t].fields :
                  LET k == <<r, Place(r, row[t].mode)>> IN
                  k \in DOMAIN promised => row[t].fields[r] = promised[k]
            /\ t \notin clash => Place(c.s, row[t].mode) = GetPlace(c.s)
<1>0. /\ RowKept' <=> \A t \in Threads : (call[t].op = "set" /\ todo[t] \in HasRead /\ Whole(call[t].s) => Good(t))'
      /\ RowKept <=> \A t \in Threads : (call[t].op = "set" /\ todo[t] \in HasRead /\ Whole(call[t].s) => Good(t))
  BY DEF RowKept
<1> HIDE DEF Good
<1> SUFFICES ASSUME NEW t \in Threads, call'[t].op = "set", todo'[t] \in HasRead, Whole(call'[t].s)
             PROVE  Good(t)'
  <2>1. \A t \in Threads : (Whole(call[t].s))' <=> Whole(call'[t].s)
    BY DEF Whole
  <2> QED BY <1>0, <2>1
<1> DEFINE s == call[t].s
<1>1. call'[t] = call[t] /\ call[t].op = "set" /\ flags' = flags /\ inUse' = inUse /\ Whole(s)
  BY StepCalls
<1>2. s \in AllSettings /\ s \in inUse /\ s \in Touched(call[t]) /\ Shared(s) \subseteq Touched(call[t])
  <2>1. s \in inUse /\ s \in AllSettings
    BY <1>1, GroupsKnown DEF Shape
  <2> QED BY <1>1, <2>1, SharedIs, TouchedBySet
<1>3. t \notin clash' => /\ t \notin clash /\ Working(t)
                         /\ GetPlace(s)' = GetPlace(s) /\ \A m : Place(s, m)' = Place(s, m)
  <2> SUFFICES ASSUME t \notin clash'
               PROVE  /\ t \notin clash /\ Working(t)
                      /\ GetPlace(s)' = GetPlace(s) /\ \A m : Place(s, m)' = Place(s, m)
    OBVIOUS
  <2>1. t \notin clash /\ Working(t)
    BY PartsWork, NotToldBefore
  <2> QED BY <1>1, <2>1, PlaceStep
<1>4. t \in clash' => \A k \in DOMAIN promised' : k[1] \notin Shared(s)
  <2>1. Touched(call[t])' = Touched(call[t])
    BY <1>1, TouchedSame
  <2> QED BY <1>2, <2>1 DEF Overlap
<1>5. CASE t = u /\ Read(u)
  <2>1. /\ row'[t].mode = modeOf[sig]
        /\ row'[t].fields = [r \in Shared(s) \cap inUse |-> Stored(r)]
        /\ promised' = promised /\ sig' = sig /\ input' = input /\ modeOf' = modeOf
    BY <1>5 DEF Read, Keyed, history, disk, members
  <2>2. file' = file
    BY <1>5 DEF Read, disk
  <2>3. \A r, m : Place(r, m)' = Place(r, m)
    BY <2>1, <2>2 DEF Place, MemcStored
  <2>4. \A r : <<r, Place(r, modeOf[sig])>> \in DOMAIN promised => Stored(r) = promised[<<r, Place(r, modeOf[sig])>>]
    <3> SUFFICES ASSUME NEW r, <<r, Place(r, modeOf[sig])>> \in DOMAIN promised
                 PROVE  Stored(r) = promised[<<r, Place(r, modeOf[sig])>>]
      OBVIOUS
    <3> DEFINE p == Place(r, modeOf[sig])
    <3>1. Stored(r) = ValueAt(r, p)
      BY DEF Stored, GetPlace
    <3> HIDE DEF p
    <3>2. <<r, p>> \in DOMAIN promised
      BY DEF p
    <3>3. ValueAt(r, p) = promised[<<r, p>>]
      BY <3>2 DEF Kept
    <3> QED BY <3>1, <3>3 DEF p
  <2>5. GetPlace(s)' = GetPlace(s) /\ GetPlace(s) = Place(s, modeOf[sig])
    BY <2>1, <2>3, <1>1 DEF GetPlace
  <2>6. \A r \in Shared(s) \cap inUse : <<r, Place(r, modeOf[sig])>> \in DOMAIN promised' =>
             row'[t].fields[r] = promised'[<<r, Place(r, modeOf[sig])>>]
    BY <2>1, <2>4
  <2>7. DOMAIN row'[t].fields = Shared(s) \cap inUse
    BY <2>1
  <2>8. Place(s, row[t].mode)' = Place(s, modeOf[sig])
    BY <2>1, <2>3, <1>1
  <2> QED BY <1>1, <2>1, <2>3, <2>5, <2>6, <2>7, <2>8 DEF Good
<1>6. CASE ~(t = u /\ Read(u))
  <2>1. row'[t] = row[t] /\ todo[t] \in HasRead
    <3>1. CASE t = u
      <4>0. Show(u) \/ Write(u) \/ Tune(u) \/ Return(u)
        BY <1>1, <1>6, <3>1, StepOp, SMTT(30)
      <4>1. row' = row /\ (On(u) \/ Then(u, <<>>)) /\ todo[u] # <<>> /\ Head(todo[u]) # "read"
        BY <4>0 DEF Show, Write, Tune, Return, At
      <4>2. todo[u] \in SetLeft \ {<<>>}
        BY <1>1, <3>1, <4>1 DEF Shape, Left
      <4>3. todo'[u] = Tail(todo[u]) \/ todo'[u] = <<>>
        BY <4>1 DEF On, Then, Shape
      <4>4. todo'[u] = Tail(todo[u])
        BY <4>3, <3>1, PartsWork DEF Ended
      <4>5. Tail(todo[u]) \in HasRead
        BY <4>4, <3>1
      <4>6. todo[u] \in HasRead \cup NoRead
        BY <4>1, <4>2, <4>5, SetTails
      <4>7. todo[u] \notin NoRead
        BY <1>1, <3>1 DEF Shape
      <4> QED BY <4>1, <4>6, <4>7, <3>1
    <3>2. CASE t # u
      BY <3>2, StepStill
    <3> QED BY <3>1, <3>2
  <2>2. Good(t)
    BY <2>1, <1>0, <1>1
  <2> DEFINE m == row[t].mode
  <2>3. DOMAIN row[t].fields = Shared(s) \cap inUse
    BY <2>2 DEF Good
  <2>4. CASE t \in clash'
    <3>1. \A r, p : r \in Shared(s) => <<r, p>> \notin DOMAIN promised'
      <4> SUFFICES ASSUME NEW r \in Shared(s), NEW p, <<r, p>> \in DOMAIN promised' PROVE FALSE
        OBVIOUS
      <4>1. <<r, p>>[1] = r
        OBVIOUS
      <4> QED BY <4>1, <1>4, <2>4
    <3>2. row'[t] = row[t] /\ call'[t].s = s
      BY <2>1, <1>1
    <3>3. DOMAIN row'[t].fields = Shared(s) \cap inUse'
      BY <3>2, <2>3, <1>1
    <3>4. \A r \in DOMAIN row'[t].fields : \A p : <<r, p>> \notin DOMAIN promised'
      BY <3>1, <3>3
    <3> QED BY <3>2, <3>3, <3>4, <2>4 DEF Good
  <2>5. CASE t \notin clash'
    <3>1. t \notin clash /\ Working(t) /\ GetPlace(s)' = GetPlace(s) /\ \A x : Place(s, x)' = Place(s, x)
      BY <1>3, <2>5
    <3>2. \A r \in Shared(s) : Place(r, m) = Place(s, m) /\ Place(r, m)' = Place(s, m)'
      <4>1. Rows[s].keep \in Recorded /\ \A r \in Shared(s) : Rows[r].keep = Rows[s].keep
        BY <1>1, <1>2, SharedIs
      <4>2. \A r \in Shared(s) : Place(r, m) = Place(s, m)
        BY <4>1 DEF Place, Recorded
      <4>3. s' = s /\ m' = m
        BY <1>1, <2>1
      <4>4. CASE Rows[s].keep = "mode"
        <5>1. \A r \in Shared(s) : Rows[r].keep = "mode"
          BY <4>1, <4>4
        <5>2. \A r \in Shared(s) : Place(r, m)' = <<sig'[1], sig'[2], m>>
          BY <4>3, <5>1 DEF Place
        <5>3. Place(s, m)' = <<sig'[1], sig'[2], m>>
          BY <4>3, <4>4 DEF Place
        <5> QED BY <4>2, <5>2, <5>3
      <4>5. CASE Rows[s].keep # "mode"
        <5>1. \A r \in Shared(s) : Rows[r].keep \in Recorded \ {"mode"}
          BY <4>1, <4>5
        <5>2. \A r \in Shared(s) : Place(r, m)' = NoPlace
          BY <4>3, <5>1 DEF Place, Recorded
        <5>3. Place(s, m)' = NoPlace
          BY <4>1, <4>3, <4>5 DEF Place, Recorded
        <5> QED BY <4>2, <5>2, <5>3
      <4> QED BY <4>4, <4>5
    <3>3. \A r \in Shared(s) : Place(r, m)' = Place(r, m)
      BY <3>1, <3>2, <2>1
    <3>4. \A r \in Shared(s) : \A p : <<r, p>> \in DOMAIN promised' =>
              <<r, p>> \in DOMAIN promised /\ promised'[<<r, p>>] = promised[<<r, p>>]
      <4>1. CASE DOMAIN promised' \subseteq DOMAIN promised /\ \A k \in DOMAIN promised' : promised'[k] = promised[k]
        BY <4>1
      <4>2. CASE Return(u) /\ u \notin clash /\ Keeps(call[u]) /\ NewPromise(call[u].s, call[u].v)
        <5>1. Working(u) /\ u # t
          <6>1. Working(u) /\ Head(todo[u]) = "return"
            BY <4>2, StepOp
          <6>2. u = t => Tail(todo[t]) = todo'[t]
            BY <4>2 DEF Return, On, Then, Shape
          <6>3. u = t => Tail(todo[t]) \in Ended
            BY <6>1, ReturnEnds DEF Working
          <6> QED BY <6>1, <6>2, <6>3, PartsWork
        <5>2. call[u].s \notin Shared(s)
          <6>1. call[u].s \notin Touched(call[t])
            BY <4>2, <5>1, <3>1, ReturnAlone
          <6> QED BY <6>1, <1>2
        <5>3. ASSUME NEW r \in Shared(s), NEW p, <<r, p>> \in DOMAIN promised'
              PROVE  <<r, p>> \in DOMAIN promised /\ promised'[<<r, p>>] = promised[<<r, p>>]
          <6>1. <<r, p>> # <<call[u].s, GetPlace(call[u].s)>>
            BY <5>2
          <6> QED BY <6>1, <4>2, <5>3 DEF NewPromise
        <5> QED BY <5>3
      <4> QED BY <4>1, <4>2, StepPromised
    <3>5. \A r \in Shared(s) \cap inUse : <<r, Place(r, m)>> \in DOMAIN promised' =>
               row[t].fields[r] = promised'[<<r, Place(r, m)>>]
      <4>1. \A r \in Shared(s) \cap inUse : <<r, Place(r, m)>> \in DOMAIN promised =>
               row[t].fields[r] = promised[<<r, Place(r, m)>>]
        BY <2>2, <2>3 DEF Good
      <4> QED BY <4>1, <3>4
    <3>6. Place(s, m) = GetPlace(s)
      BY <2>2, <3>1 DEF Good
    <3>7. row'[t] = row[t] /\ call'[t].s = s /\ m' = m /\ s' = s
      BY <2>1, <1>1
    <3>8. DOMAIN row'[t].fields = Shared(s) \cap inUse /\ Shared(s)' = Shared(s)
      BY <3>7, <2>3, <1>1
    <3>9. (Place(s, m) = GetPlace(s))'
      BY <3>1, <3>6, <3>7
    <3>10. \A r \in Shared(s) \cap inUse : (<<r, Place(r, m)>> \in DOMAIN promised =>
               row[t].fields[r] = promised[<<r, Place(r, m)>>])'
      BY <3>3, <3>5, <3>7
    <3> QED BY <3>7, <3>8, <3>9, <3>10, <1>1 DEF Good
  <2> QED BY <2>4, <2>5
<1> QED BY <1>5, <1>6

-----------------------------------------------------------------------------
(* A value a setter was asked to keep is what the getter answers.           *)

\* The keys of what is promised after an access.
LEMMA StepKeyed ==
  ASSUME Shape, Keyed, NEW u \in Threads, Step(u)
  PROVE  Keyed'
PROOF
<1>1. row' = [t \in Threads |-> row'[t]]
  BY StepStill
<1>2. \A k \in DOMAIN promised' : k = <<k[1], k[2]>>
  <2>1. CASE DOMAIN promised' \subseteq DOMAIN promised
    BY <2>1 DEF Keyed
  <2>2. CASE NewPromise(call[u].s, call[u].v)
    BY <2>2 DEF NewPromise, Keyed
  <2> QED BY <2>1, <2>2, StepPromised
<1> QED BY <1>1, <1>2 DEF Keyed

\* The value promised is the one found at its place in the file.
LEMMA StepKept ==
  ASSUME Shape, Overlap, RowKept, WriteKept, Keyed, Kept, NEW u \in Threads, Step(u)
  PROVE  Kept'
PROOF
<1> SUFFICES ASSUME NEW k \in DOMAIN promised' PROVE ValueAt(k[1], k[2])' = promised'[k]
  BY DEF Kept
<1>1. k = <<k[1], k[2]>>
  BY StepKeyed DEF Keyed
<1>2. CASE k \in DOMAIN promised /\ promised'[k] = promised[k]
  <2>1. ValueAt(k[1], k[2]) = promised'[k]
    BY <1>2 DEF Kept
  <2>2. CASE Write(u)
    <3>1. PICK new : WritesNew(u, new)
      BY <2>2, WriteIs
    <3>2. call[u].op = "set" /\ call[u].s \in AllSettings
      <4>1. call[u].op = "set"
        BY <2>2, StepOp
      <4> QED BY <4>1, GroupsKnown DEF Shape
    <3>3. k # <<call[u].s, GetPlace(call[u].s)>>
      BY <2>2 DEF Write
    <3>4. CASE k \in DOMAIN new
      <4>1. CASE k[1] = call[u].s
        <5>1. u \in clash
          BY <3>1, <3>3, <3>4, <4>1 DEF WritesNew
        <5>2. k[1] \notin Touched(call[u])
          BY <5>1, <1>2 DEF Overlap
        <5>3. k[1] \in Touched(call[u])
          BY <3>2, <4>1, SharedIs, TouchedBySet
        <5> QED BY <5>2, <5>3
      <4>2. CASE k[1] # call[u].s
        <5>1. new[k] = promised[k] /\ file' = Rewritten(new)
          BY <3>1, <3>4, <4>2, <1>2 DEF WritesNew
        <5>2. k \in DOMAIN file' /\ file'[k] = promised[k]
          BY <3>4, <5>1 DEF Rewritten
        <5> QED BY <5>2, <1>1, <1>2 DEF ValueAt
      <4> QED BY <4>1, <4>2
    <3>5. CASE k \notin DOMAIN new
      <4>1. file' = Rewritten(new)
        BY <3>1 DEF WritesNew
      <4>2. (k \in DOMAIN file' <=> k \in DOMAIN file) /\ (k \in DOMAIN file => file'[k] = file[k])
        BY <3>5, <4>1 DEF Rewritten
      <4>3. ValueAt(k[1], k[2])' = ValueAt(k[1], k[2])
        BY <4>2, <1>1 DEF ValueAt
      <4> QED BY <4>3, <2>1
    <3> QED BY <3>4, <3>5
  <2>3. CASE Display(u)
    BY <2>1, <2>3, DisplayKeeps
  <2>4. CASE file' = file
    BY <2>1, <2>4 DEF ValueAt
  <2> QED BY <2>2, <2>3, <2>4, StepStill
<1>3. CASE Return(u) /\ u \notin clash /\ Keeps(call[u]) /\ NewPromise(call[u].s, call[u].v)
  <2> DEFINE c == call[u]  j == <<c.s, GetPlace(c.s)>>
  <2>1. CASE k # j
    <3>1. k \in DOMAIN promised /\ promised'[k] = promised[k]
      BY <1>3, <2>1 DEF NewPromise
    <3> QED BY <3>1, <1>2
  <2>2. CASE k = j
    <3>1. promised'[k] = c.v
      BY <1>3, <2>2 DEF NewPromise
    <3>2. c.op = "set" /\ Working(u) /\ Head(todo[u]) = "return"
      BY <1>3, StepOp DEF Keeps
    <3>3. todo[u] \in SetLeft \ {<<>>}
      BY <3>2 DEF Shape, Left, Working
    <3>4. todo[u] \in Wrote
      BY <3>2, <3>3, SetTails
    <3>5. k \in DOMAIN file /\ file[k] = c.v
      BY <3>2, <3>4, <1>3, <2>2 DEF WriteKept
    <3>6. file' = file
      BY <1>3 DEF Return, disk
    <3> QED BY <3>1, <3>5, <3>6, <1>1 DEF ValueAt
  <2> QED BY <2>1, <2>2
<1> QED BY <1>2, <1>3, StepPromised

\* A call that begins has read and written nothing.
LEMMA BeginKept ==
  ASSUME Shape, RowKept, WriteKept, Keyed, Kept, NEW t \in Threads, NEW c \in Calls, NEW p,
         Starts(t, c, p), Begin(t, c, p)
  PROVE  RowKept' /\ WriteKept' /\ Keyed' /\ Kept'
PROOF
<1>1. /\ UNCHANGED <<inUse, flags, file, modeOf, sig, input, row>>
      /\ clash \subseteq clash'
      /\ DOMAIN promised' \subseteq DOMAIN promised /\ \A k \in DOMAIN promised' : promised'[k] = promised[k]
  <2>1. UNCHANGED <<inUse, flags, file, modeOf, sig, input, row>> /\ clash \subseteq clash'
    BY DEF Begin, fixed, disk, members
  <2>2. PICK D : promised' = Without(promised, D)
    BY DEF Begin
  <2> QED BY <2>1, <2>2 DEF Without
<1>2. \A u \in Threads : /\ todo'[u] = IF u = t THEN p ELSE todo[u]
                         /\ call'[u] = IF u = t THEN c ELSE call[u]
  BY DEF Begin, Shape
<1>3. \A s, m : Place(s, m)' = Place(s, m) /\ GetPlace(s)' = GetPlace(s) /\ ValueAt(s, m)' = ValueAt(s, m)
  BY <1>1 DEF Place, GetPlace, ValueAt, MemcStored
<1>4. Kept' /\ Keyed'
  BY <1>1, <1>3 DEF Kept, Keyed
<1>5. RowKept'
  <2> SUFFICES ASSUME NEW u \in Threads, call'[u].op = "set", todo'[u] \in HasRead, Whole(call'[u].s)
               PROVE  /\ (DOMAIN row[u].fields = Shared(call[u].s) \cap inUse)'
                      /\ (\A r \in DOMAIN row[u].fields :
                            LET k == <<r, Place(r, row[u].mode)>> IN
                            k \in DOMAIN promised => row[u].fields[r] = promised[k])'
                      /\ (u \notin clash => Place(call[u].s, row[u].mode) = GetPlace(call[u].s))'
    BY DEF RowKept, Whole
  <2>1. u # t
    BY <1>2 DEF Starts
  <2>2. call'[u] = call[u] /\ todo'[u] = todo[u]
    BY <1>2, <2>1
  <2>3. /\ DOMAIN row[u].fields = Shared(call[u].s) \cap inUse
        /\ \A r \in DOMAIN row[u].fields :
              <<r, Place(r, row[u].mode)>> \in DOMAIN promised => row[u].fields[r] = promised[<<r, Place(r, row[u].mode)>>]
        /\ u \notin clash => Place(call[u].s, row[u].mode) = GetPlace(call[u].s)
    BY <2>2 DEF RowKept
  <2>4. row'[u] = row[u] /\ Place(call[u].s, row[u].mode)' = Place(call[u].s, row[u].mode)
        /\ GetPlace(call[u].s)' = GetPlace(call[u].s)
    BY <1>1, <1>3, <2>2
  <2>5. \A r : Place(r, row[u].mode)' = Place(r, row[u].mode)
    BY <1>1, <1>3
  <2>6. \A r \in DOMAIN row[u].fields : <<r, Place(r, row[u].mode)>> \in DOMAIN promised' =>
             row[u].fields[r] = promised'[<<r, Place(r, row[u].mode)>>]
    BY <1>1, <2>3
  <2> QED BY <1>1, <2>2, <2>3, <2>4, <2>5, <2>6
<1>6. WriteKept'
  <2> SUFFICES ASSUME NEW u \in Threads, call'[u].op = "set", Keeps(call[u])', todo'[u] \in Wrote, u \notin clash'
               PROVE  /\ (<<call[u].s, GetPlace(call[u].s)>> \in DOMAIN file)'
                      /\ (file[<<call[u].s, GetPlace(call[u].s)>>] = call[u].v)'
    BY DEF WriteKept
  <2>1. u # t
    <3>1. u = t => call'[u] = c /\ todo'[u] = p /\ flags' = flags
      BY <1>1, <1>2
    <3>2. u = t => Keeps(c)
      BY <3>1 DEF Keeps
    <3> QED BY <3>1, <3>2 DEF Starts
  <2>2. call'[u] = call[u] /\ todo'[u] = todo[u] /\ flags' = flags
    BY <1>1, <1>2, <2>1
  <2>3. Keeps(call[u])
    BY <2>2 DEF Keeps
  <2>4. <<call[u].s, GetPlace(call[u].s)>> \in DOMAIN file /\ file[<<call[u].s, GetPlace(call[u].s)>>] = call[u].v
    BY <1>1, <2>2, <2>3 DEF WriteKept
  <2>5. GetPlace(call[u].s)' = GetPlace(call[u].s)
    BY <1>3, <2>2
  <2> QED BY <1>1, <2>2, <2>4, <2>5
<1> QED BY <1>4, <1>5, <1>6

\* The new process has no setter under way; the file and the promises stay.
LEMMA RestartKept ==
  ASSUME Keyed, Kept, Restart
  PROVE  RowKept' /\ WriteKept' /\ Keyed' /\ Kept'
PROOF
<1>1. \A t \in Threads : call'[t].op # "set"
  BY NoCallTyped DEF Restart
<1>2. file' = file /\ promised' = promised /\ row' = [t \in Threads |-> NoRow]
  BY DEF Restart, disk
<1>3. RowKept' /\ WriteKept'
  BY <1>1 DEF RowKept, WriteKept
<1>4. Kept' /\ Keyed'
  BY <1>2 DEF Kept, Keyed, ValueAt
<1> QED BY <1>3, <1>4

Record == RowKept /\ WriteKept /\ Keyed /\ Kept

\* What is read, written and promised stays together in every state.
THEOREM RecordHolds == Spec => []Record
PROOF
<1>1. Init => Record
  <2> SUFFICES ASSUME Init PROVE Record
    OBVIOUS
  <2>1. \A t \in Threads : call[t].op # "set"
    BY NoCallTyped DEF Init
  <2>2. DOMAIN promised = {} /\ row = [t \in Threads |-> NoRow]
    BY DEF Init
  <2>3. RowKept /\ WriteKept
    BY <2>1 DEF RowKept, WriteKept
  <2>4. Keyed /\ Kept
    BY <2>2 DEF Keyed, Kept
  <2> QED BY <2>3, <2>4 DEF Record
<1>2. Record /\ Shape /\ Places /\ Overlap /\ Overlap' /\ [Next]_vars => Record'
  <2> SUFFICES ASSUME Record, Shape, Places, Overlap, Overlap', [Next]_vars PROVE Record'
    OBVIOUS
  <2>1. CASE UNCHANGED vars
    <3>1. UNCHANGED <<inUse, flags, file, modeOf, sig, input, row, clash, promised, todo, call>>
      BY <2>1 DEF vars, fixed, disk, members, history
    <3>2. \A s, m : Place(s, m)' = Place(s, m) /\ GetPlace(s)' = GetPlace(s) /\ ValueAt(s, m)' = ValueAt(s, m)
      BY <3>1 DEF Place, GetPlace, ValueAt, MemcStored
    <3>3. Keyed' /\ Kept'
      BY <3>1, <3>2 DEF Record, Keyed, Kept
    <3>4. RowKept'
      <4>1. RowKept
        BY DEF Record
      <4> QED BY <3>1, <4>1 DEF RowKept, Whole, GetPlace, Place, MemcStored
    <3>5. WriteKept'
      <4>1. WriteKept
        BY DEF Record
      <4> QED BY <3>1, <4>1 DEF WriteKept, Keeps, GetPlace, Place, MemcStored
    <3> QED BY <3>3, <3>4, <3>5 DEF Record
  <2>2. CASE Restart
    BY <2>2, RestartKept DEF Record
  <2>3. ASSUME NEW t \in Threads, NEW c \in Calls, NEW p \in Programs, Starts(t, c, p), Begin(t, c, p)
        PROVE  Record'
    BY <2>3, BeginKept DEF Record
  <2>4. ASSUME NEW t \in Threads, Step(t)
        PROVE  Record'
    BY <2>4, StepRowKept, StepWriteKept, StepKeyed, StepKept DEF Record
  <2>5. CASE Next
    BY <2>2, <2>3, <2>4, <2>5, NextIs
  <2> QED BY <2>1, <2>5
<1> QED BY <1>1, <1>2, ShapeHolds, OverlapHolds, PTL DEF Spec

\* A value a setter was asked to keep is what the getter answers.
THEOREM ValuesKept == Spec => []Kept
PROOF
<1>1. Record => Kept
  BY DEF Record
<1> QED BY <1>1, RecordHolds, PTL

-----------------------------------------------------------------------------
(* The values in the file, in the rows that were read and in the registers. *)

\* A default is one of the values of its setting.
LEMMA DefaultsTyped == \A s \in AllSettings : Rows[s].default \in Value(s) /\ Rows[s].default \in Int
PROOF
<1>1. \A s \in AllSettings : Rows[s].default \in Int
  BY RowsTyped DEF Typed
<1>2. Rows["MemcMode"] = MemcMode /\ Rows["ColorTune"] = ColorTune
  BY DEF Rows
<1>3. MemcMode.default = 2 /\ ColorTune.default = 1
  BY DEF MemcMode, ColorTune, Row
<1> QED BY <1>1, <1>2, <1>3 DEF Value

\* Values are numbers.
LEMMA ValueInt == \A s : Value(s) \subseteq Int
PROOF BY DEF Value

\* The values in the file and in the rows that have been read.
FileTyped == \A k \in DOMAIN file : k[1] \in inUse /\ file[k] \in Value(k[1])
RowTyped ==
  \A t \in Threads : \A r \in DOMAIN row[t].fields : r \in inUse /\ row[t].fields[r] \in Value(r)

\* A program shows the display mode only where there is one to show.
DisplayLeft ==
    { <<"display", "return", "unlock">>,
      <<"display", "mode", "readRow", "showRow", "showTable", "return", "unlock">>,
      <<"display", "mode", "readRow", "showRow", "showTable", "showStart", "return">> }
DisplayInUse == \A t \in Threads : todo[t] \in DisplayLeft => DisplayProgram # <<>>

Panel ==
  /\ panel \in [inUse -> Int] /\ tuneCached \in {0, 1} /\ settled \subseteq inUse
  /\ lock \in Threads \cup {Nobody}

\* The mode of MEMC the file keeps is an index of its levels.
LEMMA MemcTyped == ASSUME FileTyped PROVE \A source : MemcStored(source) \in 0..3
PROOF
<1>1. MemcMode.default \in 0..3
  BY DEF MemcMode, Row
<1>2. \A source : <<"MemcMode", <<source, "any", 0>>>>[1] = "MemcMode"
  OBVIOUS
<1> QED BY <1>1, <1>2 DEF FileTyped, MemcStored, Value

\* What a getter returns of a place is a value of the setting.
LEMMA ValueTyped ==
  ASSUME FileTyped, NEW s \in AllSettings, NEW place, Rows[s].keep = "level" => place[3] \in 0..3
  PROVE  ValueAt(s, place) \in Value(s) /\ ValueAt(s, place) \in Int
PROOF
<1>1. CASE <<s, place>> \in DOMAIN file
  <2>1. <<s, place>>[1] = s
    OBVIOUS
  <2>2. ValueAt(s, place) = file[<<s, place>>]
    BY <1>1 DEF ValueAt
  <2> QED BY <2>1, <2>2, <1>1, ValueInt DEF FileTyped
<1>2. CASE <<s, place>> \notin DOMAIN file /\ Rows[s].keep = "level"
  <2>1. ValueAt(s, place) = MemcLevels[place[3] + 1] /\ place[3] \in 0..3
    BY <1>2 DEF ValueAt
  <2>2. \A i \in 0..3 : MemcLevels[i + 1] \in Int
    BY DEF MemcLevels
  <2>3. Value(s) = Int
    BY <1>2, KeepsOf DEF Value
  <2> QED BY <2>1, <2>2, <2>3
<1>3. CASE <<s, place>> \notin DOMAIN file /\ Rows[s].keep # "level"
  BY <1>3, DefaultsTyped DEF ValueAt
<1> QED BY <1>1, <1>2, <1>3

\* What a getter returns now, and of each mode, is a value of the setting.
LEMMA StoredTyped ==
  ASSUME FileTyped, NEW s \in AllSettings
  PROVE  /\ Stored(s) \in Value(s) /\ Stored(s) \in Int
         /\ \A m : ValueAt(s, Place(s, m)) \in Value(s)
PROOF
<1>1. \A m : Rows[s].keep = "level" => Place(s, m)[3] \in 0..3
  <2>1. \A m : Rows[s].keep = "level" => Place(s, m) = <<input, "any", MemcStored(input)>>
    BY DEF Place
  <2> QED BY <2>1, MemcTyped
<1>2. \A m : ValueAt(s, Place(s, m)) \in Value(s)
  BY <1>1, ValueTyped
<1> QED BY <1>2, ValueInt DEF Stored, GetPlace

\* The settings that have an access of their own are settings.
LEMMA Known ==
  {"Hue", "Saturation", "MemcDeJudder", "ColorTune", "DisplayMode", "MemcMode", "MpegNr", "CmsRed",
   "CmsSkin"} \subseteq AllSettings
PROOF BY DEF AllSettings, Rows

\* The settings the hardware steps single out are not kept in the 3D table.
LEMMA NotLut ==
  \A s \in {"Saturation", "Hue", "MpegNr", "MemcMode", "MemcDeBlur"} : Rows[s].keep # "lut"
PROOF
<1>1. /\ Rows["Saturation"] = Saturation /\ Rows["Hue"] = Hue /\ Rows["MpegNr"] = MpegNr
      /\ Rows["MemcMode"] = MemcMode /\ Rows["MemcDeBlur"] = MemcDeBlur
  BY DEF Rows
<1>2. /\ Saturation.keep = "mode" /\ Hue.keep = "mode" /\ MpegNr.keep = "mode"
      /\ MemcMode.keep = "source" /\ MemcDeBlur.keep = "level"
  BY DEF Saturation, Hue, MpegNr, MemcMode, MemcDeBlur, Row
<1> QED BY <1>1, <1>2

\* The levels the hardware steps write.
LEMMA ShowsTyped ==
  ASSUME FileTyped, NEW s \in AllSettings, NEW v \in Value(s)
  PROVE  LET w == Reached(s, v) IN \A r \in DOMAIN w : w[r] \in Int
PROOF
<1> DEFINE x == Shows(s, v)
<1>0. v \in Int
  BY ValueInt
<1>1. \A r \in DOMAIN x : x[r] \in Int
  <2>1. CASE s = "Saturation"
    <3>1. HueOfSaturation \in Int
      <4>1. Hue.default \in Int
        BY DEF Hue, Row
      <4> QED BY <4>1, StoredTyped, Known DEF HueOfSaturation
    <3> QED BY <2>1, <3>1, <1>0, NotLut DEF Shows
  <2>2. CASE s = "Hue"
    <3>1. x = [r \in {s, "Saturation"} |-> IF r = s THEN v ELSE Stored(r)]
      BY <2>2, NotLut DEF Shows
    <3>2. Stored("Saturation") \in Int
      BY StoredTyped, Known
    <3> QED BY <3>1, <3>2, <1>0
  <2>3. CASE s = "MpegNr"
    BY <2>3, <1>0, NotLut DEF Shows
  <2>4. CASE s = "MemcMode"
    <3>1. x = [r \in {s, "MemcDeJudder"} |-> IF r = s THEN v ELSE ValueAt(r, <<input, "any", v>>)]
      BY <2>4, NotLut DEF Shows
    <3>2. v \in 0..3
      BY <2>4 DEF Value
    <3>3. <<input, "any", v>>[3] = v
      OBVIOUS
    <3>4. ValueAt("MemcDeJudder", <<input, "any", v>>) \in Int
      BY <3>2, <3>3, ValueTyped, Known
    <3> QED BY <3>1, <3>4, <1>0
  <2>5. CASE s = "MemcDeBlur"
    BY <2>5, NotLut DEF Shows
  <2>6. CASE s \notin {"Saturation", "Hue", "MpegNr", "MemcMode", "MemcDeBlur"} /\ Rows[s].keep = "lut"
    <3>1. x = [r \in Shared(s) |-> IF r = s THEN LutGain(v) ELSE Stored(r)]
      BY <2>6 DEF Shows
    <3>2. LutGain(v) \in Int
      BY <1>0 DEF LutGain
    <3>3. \A r \in Shared(s) : Stored(r) \in Int
      BY SharedIs, StoredTyped
    <3> QED BY <3>1, <3>2, <3>3
  <2>7. CASE s \notin {"Saturation", "Hue", "MpegNr", "MemcMode", "MemcDeBlur"} /\ Rows[s].keep # "lut"
    BY <2>7, <1>0 DEF Shows
  <2> QED BY <2>1, <2>2, <2>3, <2>4, <2>5, <2>6, <2>7
<1> HIDE DEF x
<1>2. Reached(s, v) = [r \in {q \in DOMAIN x : Gated(q, flags)} |-> x[r]]
  BY DEF Reached, x
<1> QED BY <1>1, <1>2

\* The levels of the colours are numbers.
LEMMA ColoursTyped ==
  ASSUME FileTyped, NEW on
  PROVE  \A r \in Colours : ColoursShown(on)[r] \in Int
PROOF BY StoredTyped, Known DEF ColoursShown, Colours

\* The levels a table writes are numbers.
LEMMA TableTyped ==
  ASSUME FileTyped, inUse \subseteq AllSettings
  PROVE  \A r \in DOMAIN TableLevels : TableLevels[r] \in Int
PROOF
<1> DEFINE loaded == {s \in inUse : Rows[s].load = "table" /\ Gated(s, flags)
                                 /\ ~Refused(s, Stored(s), flags) /\ s # "DisplayMode"}
           judder == IF "memc" \in flags THEN inUse \cap {"MemcDeJudder"} ELSE {}
           stored == loaded \cup judder \cup DisplayShown
           off == {q \in inUse : Rows[q].load = "off" /\ Gated(q, flags)}
           colours == inUse \cap Colours
<1>1. TableLevels = [r \in stored \cup off \cup colours |->
            IF r \in stored THEN Stored(r) ELSE IF r \in off THEN 0
            ELSE ColoursShown(Stored("ColorTune"))[r]]
  BY DEF TableLevels
<1>2. stored \subseteq AllSettings
  BY DEF DisplayShown
<1>3. \A r \in stored : Stored(r) \in Int
  BY <1>2, StoredTyped
<1>4. \A r \in colours : ColoursShown(Stored("ColorTune"))[r] \in Int
  BY ColoursTyped
<1> HIDE DEF stored, off, colours
<1> QED BY <1>1, <1>3, <1>4

\* The levels written from a row that was read are numbers.
LEMMA RowLevelsTyped ==
  ASSUME FileTyped, NEW fields, \A r \in DOMAIN fields : fields[r] \in Int
  PROVE  LET w == RowLevels(fields) IN \A r \in DOMAIN w : w[r] \in Int
PROOF
<1> DEFINE s(r) == IF r \in {"Deblock", "DemoSquito"} THEN "MpegNr" ELSE r
           D == {q \in inUse : /\ s(q) \in DOMAIN fields
                               /\ Rows[s(q)].load = "row" /\ Gated(q, flags)
                               /\ ~Refused(s(q), fields[s(q)], flags)}
<1>1. RowLevels(fields) = [r \in D |-> IF r = "Saturation" THEN Stored(r) ELSE fields[s(r)]]
  BY DEF RowLevels
<1>2. \A r \in D : s(r) \in DOMAIN fields
  OBVIOUS
<1>3. Stored("Saturation") \in Int
  BY StoredTyped, Known
<1> HIDE DEF s, D
<1> QED BY <1>1, <1>2, <1>3

-----------------------------------------------------------------------------
(* The accesses that write values.                                          *)

\* Every access keeps the values of the file typed.
LEMMA StepFile ==
  ASSUME Shape, Keyed, RowKept, FileTyped, RowTyped, DisplayInUse, NEW u \in Threads, Step(u)
  PROVE  FileTyped'
PROOF
<1>0. inUse' = inUse
  BY StepCalls
<1>1. CASE Write(u)
  <2>1. PICK new : WritesNew(u, new)
    BY <1>1, WriteIs
  <2>2. call[u].op = "set"
    BY <1>1, StepOp
  <2>3. call[u].s \in inUse /\ call[u].v \in Value(call[u].s)
    BY <2>2 DEF Shape
  <2>4. \A k \in DOMAIN new : k[1] \in inUse /\ new[k] \in Value(k[1])
    BY <2>1, <2>3 DEF WritesNew, RowTyped
  <2>5. file' = Rewritten(new)
    BY <2>1 DEF WritesNew
  <2>6. \A k \in DOMAIN file' : \/ k \in DOMAIN new /\ file'[k] = new[k]
                                \/ k \in DOMAIN file /\ file'[k] = file[k]
    BY <2>5 DEF Rewritten
  <2> QED BY <1>0, <2>4, <2>6 DEF FileTyped
<1>2. CASE Display(u) /\ file' # file
  <2> DEFINE key == <<"DisplayMode", Place("DisplayMode", 0)>>
  <2>1. file' = Rewritten([k \in {key} |-> Stored("DisplayMode")])
    BY <1>2 DEF Display
  <2>2. "DisplayMode" \in inUse
    <3>1. CASE At(u, "hdmiDisplay")
      BY <1>2, <3>1 DEF Display, DisplayProgram
    <3>2. CASE At(u, "display")
      <4>1. todo[u] # <<>> /\ Head(todo[u]) = "display"
        BY <3>2 DEF At
      <4>2. todo[u] \in SwitchLeft \ {<<>>}
        BY <4>1, HeadOp DEF Shape, Left
      <4>3. todo[u] \in DisplayLeft
        <5>1. todo[u] # <<"lock", "members">>
          BY <4>1
        <5>2. CASE todo[u] \in Inside
          BY <4>1, <5>2 DEF Inside, DisplayLeft
        <5>3. CASE todo[u] \in BootLeft
          BY <4>1, <5>3 DEF BootLeft, DisplayLeft
        <5> QED BY <4>2, <5>1, <5>2, <5>3 DEF SwitchLeft
      <4> QED BY <4>3 DEF DisplayInUse, DisplayProgram
    <3> QED BY <1>2, <3>1, <3>2 DEF Display
  <2>3. Stored("DisplayMode") \in Value("DisplayMode") /\ key[1] = "DisplayMode"
    BY StoredTyped, Known
  <2>4. \A k \in DOMAIN file' : \/ k = key /\ file'[k] = Stored("DisplayMode")
                                \/ k \in DOMAIN file /\ file'[k] = file[k]
    BY <2>1 DEF Rewritten
  <2> HIDE DEF key
  <2> QED BY <1>0, <2>2, <2>3, <2>4 DEF FileTyped
<1>3. CASE file' = file
  BY <1>0, <1>3 DEF FileTyped
<1> QED BY <1>1, <1>2, <1>3, StepStill

\* Every access keeps the rows typed.
LEMMA StepRow ==
  ASSUME Shape, Keyed, FileTyped, RowTyped, NEW u \in Threads, Step(u)
  PROVE  RowTyped'
PROOF
<1>0. inUse' = inUse /\ inUse \subseteq AllSettings /\ \A t \in Threads : t # u => row'[t] = row[t]
  BY StepCalls, StepStill, GroupsKnown
<1>1. CASE Read(u)
  <2>1. row'[u].fields = [r \in Shared(call[u].s) \cap inUse |-> Stored(r)]
    BY <1>1 DEF Read, Keyed
  <2>2. \A r \in DOMAIN row'[u].fields : r \in inUse /\ row'[u].fields[r] \in Value(r)
    BY <1>0, <2>1, StoredTyped
  <2> QED BY <1>0, <2>2 DEF RowTyped
<1>2. CASE ReadRow(u)
  <2>1. row'[u].fields = [s \in {r \in inUse : Rows[r].keep = "mode"} |-> ValueAt(s, Place(s, call[u].v))]
    BY <1>2 DEF ReadRow, Keyed
  <2>2. \A r \in DOMAIN row'[u].fields : r \in inUse /\ row'[u].fields[r] \in Value(r)
    BY <1>0, <2>1, StoredTyped
  <2> QED BY <1>0, <2>2 DEF RowTyped
<1>3. CASE row' = row
  BY <1>0, <1>3 DEF RowTyped
<1> QED BY <1>1, <1>2, <1>3, StepStill

\* Only the first access of a load shows the display mode.
LEMMA DisplayFirst ==
  /\ \A q \in Inside \cup BootLeft : Tail(q) \notin DisplayLeft
  /\ \A q \in SetLeft \cup ModeLeft \cup InfoLeft \cup Ended : q \notin DisplayLeft
  /\ <<"lock", "members">> \notin DisplayLeft /\ <<"members">> \notin DisplayLeft
PROOF
<1>1. \A q \in SetLeft \cup ModeLeft : q \notin DisplayLeft
  BY SMTT(60) DEF SetLeft, ModeLeft, DisplayLeft
<1>2. \A q \in InfoLeft \cup Ended : q \notin DisplayLeft
  BY SMTT(60) DEF InfoLeft, Ended, DisplayLeft
<1>3. <<"lock", "members">> \notin DisplayLeft /\ <<"members">> \notin DisplayLeft
  BY SMTT(60) DEF DisplayLeft
<1>4. \A q \in DisplayLeft : Head(q) = "display"
  BY SMTT(60) DEF DisplayLeft
<1>5. \A q \in Inside : Head(Tail(q)) = "display" => Tail(q) \notin DisplayLeft
  BY SMTT(60) DEF DisplayLeft, Inside
<1>6. \A q \in BootLeft : Head(Tail(q)) = "display" => Tail(q) \notin DisplayLeft
  BY SMTT(60) DEF DisplayLeft, BootLeft
<1> QED BY <1>1, <1>2, <1>3, <1>4, <1>5, <1>6

\* Without a display mode a change of source shows none.
LEMMA MembersDisplay ==
  ASSUME NEW same \in BOOLEAN, NEW leaves \in BOOLEAN, DisplayProgram = <<>>
  PROVE  (IF same THEN <<>> ELSE DisplayProgram \o (IF leaves THEN <<>> ELSE LoadProgram) \o <<"return">>)
             \o <<"unlock">> \notin DisplayLeft
PROOF
<1> DEFINE q == (IF same THEN <<>> ELSE DisplayProgram \o (IF leaves THEN <<>> ELSE LoadProgram)
                                        \o <<"return">>) \o <<"unlock">>
<1>1. \/ q = <<>> \o <<"unlock">>
      \/ q = ((<<>> \o <<>>) \o <<"return">>) \o <<"unlock">>
      \/ q = ((<<>> \o LoadProgram) \o <<"return">>) \o <<"unlock">>
  OBVIOUS
<1>2. \/ q = <<"unlock">> \/ q = <<"return", "unlock">>
      \/ q = <<"mode", "readRow", "showRow", "showTable", "return", "unlock">>
  BY <1>1, MembersConcats
<1> HIDE DEF q
<1>3. q \notin DisplayLeft
  BY <1>2 DEF DisplayLeft
<1> QED BY <1>3 DEF q

\* Without a display mode the constructor shows none.
LEMMA BootDisplay ==
  ASSUME DisplayProgram = <<>>
  PROVE  BootProgram \notin DisplayLeft
PROOF
<1>1. BootProgram = (<<>> \o LoadProgram) \o <<"showStart", "return">>
  BY DEF BootProgram
<1>2. BootProgram = <<"mode", "readRow", "showRow", "showTable", "showStart", "return">>
  BY <1>1, LoadConcats, BootConcats
<1> QED BY <1>2 DEF DisplayLeft

-----------------------------------------------------------------------------
(* The values hold, and with them the types.                                *)

\* An access after the members goes on, ends the call or only has to return.
LEMMA StepThen ==
  ASSUME Shape, NEW u \in Threads, Step(u), ~Members(u)
  PROVE  /\ todo[u] # <<>> /\ Head(todo[u]) # "members"
         /\ \/ todo'[u] = Tail(todo[u]) \/ todo'[u] = <<>> \/ todo'[u] = <<"return">>
PROOF
<1>1. CASE Show(u) \/ Tune(u) \/ ShowRow(u)
  <2>1. todo[u] # <<>> /\ Head(todo[u]) # "members"
    BY <1>1 DEF Show, Tune, ShowRow, At
  <2>2. On(u) \/ Then(u, <<>>) \/ Then(u, <<"return">>)
    BY <1>1 DEF Show, Tune, ShowRow
  <2> QED BY <2>1, <2>2 DEF On, Then, Shape
<1>2. CASE Read(u) \/ Write(u) \/ SaveMode(u) \/ LoadMode(u) \/ ReadRow(u)
  <2>1. todo[u] # <<>> /\ Head(todo[u]) # "members" /\ On(u)
    BY <1>2 DEF Read, Write, SaveMode, LoadMode, ReadRow, At
  <2> QED BY <2>1 DEF On, Then, Shape
<1>3. CASE ShowTable(u) \/ ShowStart(u) \/ Display(u) \/ Lock(u) \/ Unlock(u) \/ Return(u)
  <2>1. todo[u] # <<>> /\ Head(todo[u]) # "members" /\ On(u)
    BY <1>3 DEF ShowTable, ShowStart, Display, Lock, Unlock, Return, At
  <2> QED BY <2>1 DEF On, Then, Shape
<1> QED BY <1>1, <1>2, <1>3 DEF Step

\* The display mode is shown only where there is one.
LEMMA StepDisplay ==
  ASSUME Shape, Keyed, DisplayInUse, NEW u \in Threads, Step(u)
  PROVE  DisplayInUse'
PROOF
<1>1. DisplayProgram' = DisplayProgram /\ \A t \in Threads : t # u => todo'[t] = todo[t]
  BY StepCalls, StepStill DEF DisplayProgram
<1>2. todo'[u] \in DisplayLeft => DisplayProgram # <<>>
  <2>1. CASE Members(u)
    <3> DEFINE same == ~call[u].exit /\ ~left /\ call[u].g = sig /\ input = call[u].g[1]
               q == (IF same THEN <<>> ELSE DisplayProgram \o (IF call[u].exit THEN <<>> ELSE LoadProgram)
                             \o <<"return">>) \o <<"unlock">>
    <3>1. Then(u, q)
      BY <2>1 DEF Members
    <3>2. same \in BOOLEAN /\ call[u].exit \in BOOLEAN
      BY DEF Shape, Calls
    <3>3. q \in DisplayLeft => DisplayProgram # <<>>
      BY <3>2, MembersDisplay
    <3> HIDE DEF q
    <3> QED BY <3>1, <3>3 DEF Then, Shape
  <2>2. CASE ~Members(u)
    <3>1. todo[u] # <<>> /\ Head(todo[u]) # "members"
      BY <2>2, StepThen
    <3>2. Tail(todo[u]) \notin DisplayLeft
      <4>1. Tail(todo[u]) \in Left(call[u].op) /\ call[u].op \in {"set", "mode", "switch", "info"}
        BY <3>1, TailLeft, HeadOp
      <4>2. CASE call[u].op # "switch"
        BY <4>1, <4>2, DisplayFirst DEF Left
      <4>3. CASE call[u].op = "switch"
        <5>1. \/ todo[u] = <<"lock", "members">> \/ todo[u] \in Inside \/ todo[u] \in BootLeft
          BY <3>1, <4>3 DEF Shape, Left, SwitchLeft
        <5>2. todo[u] = <<"lock", "members">> => Tail(todo[u]) = <<"members">>
          OBVIOUS
        <5> QED BY <5>1, <5>2, DisplayFirst
      <4> QED BY <4>2, <4>3
    <3>3. <<>> \notin DisplayLeft /\ <<"return">> \notin DisplayLeft
      BY DisplayFirst, EndsLeft
    <3> QED BY <2>2, <3>2, <3>3, StepThen
  <2> QED BY <2>1, <2>2
<1> QED BY <1>1, <1>2 DEF DisplayInUse

\* What is settled stays among the settings in use.
LEMMA SettledKnown ==
  ASSUME settled \subseteq inUse, NEW c
  PROVE  /\ SettledBySet(c) \subseteq inUse /\ \A fields : SettledByMode(c, fields) \subseteq inUse
         /\ SettledBySwitch(c) \subseteq inUse
PROOF
<1>1. RowShown \subseteq inUse /\ TableShown \subseteq inUse /\ DisplayShown \subseteq inUse
  BY DEF RowShown, TableShown, DisplayShown
<1>2. SettledBySet(c) \subseteq inUse
  BY DEF SettledBySet
<1>3. \A fields : SettledByMode(c, fields) \subseteq inUse
  BY <1>1 DEF SettledByMode
<1>4. SettledBySwitch(c) \subseteq inUse
  BY <1>1 DEF SettledBySwitch
<1> QED BY <1>2, <1>3, <1>4

\* An access that writes levels to registers, and one that leaves the panel alone.
LEMMA PanelWritten ==
  ASSUME Panel, inUse' = inUse, NEW w, \A r \in DOMAIN w : w[r] \in Int,
         panel' = [r \in inUse |-> IF r \in DOMAIN w THEN w[r] ELSE panel[r]],
         tuneCached' \in {0, 1}, settled' \subseteq inUse, lock' \in Threads \cup {Nobody}
  PROVE  Panel'
PROOF BY DEF Panel

\* An access that leaves the panel alone.
LEMMA PanelLeft ==
  ASSUME Panel, inUse' = inUse, panel' = panel,
         tuneCached' \in {0, 1}, settled' \subseteq inUse, lock' \in Threads \cup {Nobody}
  PROVE  Panel'
PROOF BY DEF Panel

\* Every access writes numbers to the panel.
LEMMA StepPanel ==
  ASSUME Shape, Keyed, RowKept, FileTyped, RowTyped, Panel, NEW u \in Threads, Step(u)
  PROVE  Panel'
PROOF
<1>0. inUse' = inUse /\ inUse \subseteq AllSettings
  BY StepCalls, GroupsKnown
<1>00. tuneCached \in {0, 1} /\ settled \subseteq inUse /\ lock \in Threads \cup {Nobody}
  BY DEF Panel
<1>1. CASE Show(u)
  <2> DEFINE s == call[u].s  v == call[u].v
             w == IF Rows[s].keep = "lcd" THEN [row[u].fields EXCEPT ![s] = v] ELSE Reached(s, v)
  <2>1. call[u].op = "set" /\ s \in AllSettings /\ v \in Value(s) /\ v \in Int
    <3>1. call[u].op = "set"
      BY <1>1, HeadOp DEF Show, At
    <3>2. s \in AllSettings /\ v \in Value(s)
      BY <3>1, <1>0 DEF Shape
    <3> QED BY <3>1, <3>2, ValueInt
  <2>2. \A r \in DOMAIN w : w[r] \in Int
    <3>1. CASE Rows[s].keep = "lcd"
      BY <3>1, <2>1, ValueInt DEF RowTyped
    <3>2. CASE Rows[s].keep # "lcd"
      BY <3>2, <2>1, ShowsTyped
    <3> QED BY <3>1, <3>2
  <2>3. tuneCached' = tuneCached /\ lock' = lock
    BY <1>1 DEF Show, members
  <2>4. CASE panel' = panel
    <3>1. settled' \subseteq settled
      BY <1>1 DEF Show, history
    <3> QED BY <1>0, <1>00, <2>3, <2>4, <3>1, PanelLeft
  <2>5. CASE panel' = [r \in inUse |-> IF r \in DOMAIN w THEN w[r] ELSE panel[r]]
    <3>1. settled' \subseteq settled
      BY <1>1 DEF Show, history
    <3> HIDE DEF w
    <3> QED BY <1>0, <1>00, <2>2, <2>3, <2>5, <3>1, PanelWritten
  <2> QED BY <1>1, <2>4, <2>5 DEF Show
<1>2. CASE Tune(u)
  <2> DEFINE c == call[u]
             on == IF c.s = "ColorTune" THEN c.v ELSE Stored("ColorTune")
  <2>1. on \in {0, 1}
    <3>1. c.op = "set"
      BY <1>2, HeadOp DEF Tune, At
    <3>2. Stored("ColorTune") \in Value("ColorTune")
      BY StoredTyped, Known
    <3> QED BY <3>1, <3>2 DEF Shape, Value
  <2>2. tuneCached' = on /\ lock' = lock /\ settled' \subseteq inUse
    BY <1>2, <1>00 DEF Tune
  <2>3. panel' = [r \in inUse |-> IF tuneCached # on /\ r \in Colours THEN ColoursShown(on)[r] ELSE panel[r]]
    BY <1>2 DEF Tune
  <2> HIDE DEF on
  <2>4. \A r \in inUse : panel'[r] \in Int
    BY <2>3, ColoursTyped DEF Panel
  <2>5. panel' \in [inUse -> Int]
    BY <2>3, <2>4
  <2> QED BY <1>0, <2>1, <2>2, <2>5, <1>00 DEF Panel
<1>3. CASE ShowRow(u)
  <2> DEFINE w == RowLevels(row[u].fields)
  <2>1. \A r \in DOMAIN w : w[r] \in Int
    BY RowLevelsTyped, ValueInt DEF RowTyped
  <2>2. panel' = [r \in inUse |-> IF r \in DOMAIN w THEN w[r] ELSE panel[r]]
        /\ tuneCached' = tuneCached /\ lock' = lock /\ settled' = settled
    BY <1>3 DEF ShowRow, members, history
  <2> HIDE DEF w
  <2> QED BY <1>0, <1>00, <2>1, <2>2, PanelWritten
<1>4. CASE ShowTable(u)
  <2> DEFINE w == TableLevels
  <2>1. \A r \in DOMAIN w : w[r] \in Int
    BY <1>0, TableTyped
  <2>2. panel' = [r \in inUse |-> IF r \in DOMAIN w THEN w[r] ELSE panel[r]]
        /\ tuneCached' = tuneCached /\ lock' = lock /\ settled' = settled
    BY <1>4 DEF ShowTable, members, history
  <2> HIDE DEF w
  <2> QED BY <1>0, <1>00, <2>1, <2>2, PanelWritten
<1>5. CASE ShowStart(u) \/ (Display(u) /\ panel' # panel)
  <2>1. PICK S \in SUBSET inUse : panel' = [r \in inUse |-> IF r \in S THEN Stored(r) ELSE panel[r]]
    <3>1. CASE ShowStart(u)
      <4> DEFINE start == {s \in inUse : Rows[s].load = "start" /\ Gated(s, flags)
                                /\ (s = "Aipq" => Stored(s) = 1)}
      <4>1. panel' = [r \in inUse |-> IF r \in start THEN Stored(r) ELSE panel[r]]
        BY <3>1 DEF ShowStart
      <4>2. start \in SUBSET inUse
        OBVIOUS
      <4> QED BY <4>1, <4>2
    <3>2. CASE Display(u) /\ panel' # panel
      <4>1. panel' = [r \in inUse |-> IF r = "DisplayMode" THEN Stored(r) ELSE panel[r]]
        BY <3>2 DEF Display
      <4>2. panel' = [r \in inUse |-> IF r \in inUse \cap {"DisplayMode"} THEN Stored(r) ELSE panel[r]]
        BY <4>1
      <4> QED BY <4>2
    <3> QED BY <1>5, <3>1, <3>2
  <2>2. \A r \in inUse : Stored(r) \in Int
    BY <1>0, StoredTyped
  <2>3. panel' \in [inUse -> Int]
    BY <2>1, <2>2 DEF Panel
  <2>4. tuneCached' = tuneCached /\ lock' = lock /\ settled' = settled
    BY <1>5 DEF ShowStart, Display, members, history
  <2> QED BY <1>0, <1>00, <2>3, <2>4 DEF Panel
<1>6. CASE Return(u)
  <2>1. panel' = panel /\ tuneCached' = tuneCached /\ lock' = lock
    BY <1>6 DEF Return, members
  <2>2. settled' \subseteq inUse
    <3>1. settled \ Touched(call[u]) \subseteq inUse
      BY <1>00
    <3>2. \A S : S \subseteq inUse => S \cup {s \in {x \in inUse : Rows[x].load = "start" /\ Gated(x, flags)} :
                       u = Main /\ (s = "Aipq" => Stored(s) = 1)} \subseteq inUse
      OBVIOUS
    <3> QED BY <1>00, <1>6, <3>1, <3>2, SettledKnown DEF Return
  <2> QED BY <1>0, <1>00, <2>1, <2>2, PanelLeft
<1>7. CASE Display(u) /\ panel' = panel
  <2>1. tuneCached' = tuneCached /\ lock' = lock /\ settled' = settled
    BY <1>7 DEF Display, members, history
  <2> QED BY <1>0, <1>00, <1>7, <2>1, PanelLeft
<1>8. CASE Read(u) \/ Write(u) \/ SaveMode(u) \/ LoadMode(u) \/ ReadRow(u) \/ Members(u)
  <2>1. panel' = panel /\ tuneCached' = tuneCached /\ lock' = lock /\ settled' \subseteq settled
    BY <1>8 DEF Read, Write, SaveMode, LoadMode, ReadRow, Members, members, history
  <2> QED BY <1>0, <1>00, <2>1, PanelLeft
<1>9. CASE Lock(u) \/ Unlock(u)
  <2>1. panel' = panel /\ tuneCached' = tuneCached /\ lock' \in Threads \cup {Nobody} /\ settled' = settled
    BY <1>9 DEF Lock, Unlock, members, history
  <2> QED BY <1>0, <1>00, <2>1, PanelLeft
<1> QED BY <1>1, <1>2, <1>3, <1>4, <1>5, <1>6, <1>7, <1>8, <1>9 DEF Step

Values == FileTyped /\ RowTyped /\ DisplayInUse /\ Panel

\* The file, the rows and the panel hold values of their settings in every state.
THEOREM ValuesHold == Spec => []Values
PROOF
<1>1. Init => Values
  <2> SUFFICES ASSUME Init PROVE Values
    OBVIOUS
  <2>1. FileTyped /\ RowTyped
    BY DEF Init, FileTyped, RowTyped, NoRow
  <2>2. Panel
    BY DEF Init, Panel
  <2>3. DisplayInUse
    BY BootDisplay, DisplayFirst, EndsLeft DEF Init, DisplayInUse
  <2> QED BY <2>1, <2>2, <2>3 DEF Values
<1>2. Values /\ Shape /\ Record /\ [Next]_vars => Values'
  <2> SUFFICES ASSUME Values, Shape, Record, [Next]_vars PROVE Values'
    OBVIOUS
  <2> USE DEF Values, Record
  <2>1. CASE UNCHANGED vars
    <3>1. UNCHANGED <<inUse, flags, file, row, todo, panel, tuneCached, settled, lock>>
      BY <2>1 DEF vars, fixed, disk, members, history
    <3> QED BY <3>1 DEF FileTyped, RowTyped, DisplayInUse, DisplayProgram, Panel
  <2>2. CASE Restart
    <3>1. UNCHANGED <<inUse, flags, file, panel>> /\ row' = [t \in Threads |-> NoRow]
          /\ tuneCached' = 1 /\ lock' = Nobody /\ settled' = {}
          /\ todo' = [t \in Threads |-> IF t = Main THEN BootProgram ELSE <<>>]
      BY <2>2 DEF Restart, fixed, disk
    <3>2. FileTyped' /\ RowTyped' /\ Panel'
      BY <3>1 DEF FileTyped, RowTyped, NoRow, Panel
    <3>3. DisplayProgram' = DisplayProgram /\ BootProgram' = BootProgram
      BY <3>1 DEF DisplayProgram, BootProgram
    <3>4. DisplayInUse'
      BY <3>1, <3>3, BootDisplay, DisplayFirst, EndsLeft DEF DisplayInUse
    <3> QED BY <3>2, <3>4
  <2>3. ASSUME NEW t \in Threads, NEW c \in Calls, NEW p \in Programs, Starts(t, c, p), Begin(t, c, p)
        PROVE  Values'
    <3>1. UNCHANGED <<inUse, flags, file, row, panel, tuneCached, lock>> /\ settled' \subseteq settled
          /\ todo' = [todo EXCEPT ![t] = p]
      BY <2>3 DEF Begin, fixed, disk, members
    <3>2. FileTyped' /\ RowTyped' /\ Panel'
      BY <3>1 DEF FileTyped, RowTyped, Panel
    <3>3. p \notin DisplayLeft
      <4>1. p \in Left(c.op) /\ c.op \in Ops /\ (c.op = "switch" => p = <<"lock", "members">>)
        BY <2>3 DEF Starts, Calls
      <4> QED BY <4>1, DisplayFirst DEF Left, Ops, Ended
    <3>4. DisplayProgram' = DisplayProgram
      BY <3>1 DEF DisplayProgram
    <3>5. DisplayInUse'
      BY <3>1, <3>3, <3>4 DEF DisplayInUse, Shape
    <3> QED BY <3>2, <3>5
  <2>4. ASSUME NEW t \in Threads, Step(t)
        PROVE  Values'
    BY <2>4, StepFile, StepRow, StepDisplay, StepPanel
  <2>5. CASE Next
    BY <2>2, <2>3, <2>4, <2>5, NextIs
  <2> QED BY <2>1, <2>5
<1> QED BY <1>1, <1>2, ShapeHolds, RecordHolds, PTL DEF Spec

\* Every variable holds a value of its type in every state; the last part is that
\* a call that has ended is in no clash and owns nothing, so that the next call of
\* its thread begins as the code begins it.
THEOREM TypeHolds == Spec => []TypeOK
PROOF
<1>1. Shape /\ Places /\ Owner /\ Overlap /\ Values => TypeOK
  <2> SUFFICES ASSUME Shape, Places, Owner, Overlap, Values PROVE TypeOK
    OBVIOUS
  <2>1. \A k \in DOMAIN file : k[1] \in inUse /\ file[k] \in Int
    BY ValueInt DEF Values, FileTyped
  <2>2. ASSUME lock # Nobody PROVE todo[lock] # <<>> /\ call[lock].op \in {"switch", "info"}
    <3>1. lock \in Threads
      BY <2>2 DEF Values, Panel
    <3>2. todo[lock] \in Owns /\ todo[lock] \in Left(call[lock].op) /\ call[lock].op \in Ops
      BY <3>1 DEF Owner, Shape, Calls
    <3>3. todo[lock] # <<>>
      BY <3>2, OwnsApart DEF SetLeft
    <3> QED BY <3>2, <3>3, OwnsApart DEF Left, Ops
  <2> QED BY <2>1, <2>2 DEF TypeOK, Shape, Places, Overlap, Values, Panel
<1> QED BY <1>1, ShapeHolds, OwnerHolds, OverlapHolds, ValuesHold, PTL
=============================================================================
