-------------------------- MODULE PictureModeProofs --------------------------
(***************************************************************************)
(* Proofs about PictureMode: types, that a saved mode the user did not     *)
(* choose is one that will be recovered, and that what the hardware, the   *)
(* drivers and the observer have been given agrees with what the service   *)
(* works with.                                                             *)
(*                                                                         *)
(* A handler is a composition of operators from a state record to the      *)
(* next, so the proofs go operator by operator.  Most of them leave the    *)
(* books alone, the four fields the recovery works with (Frame); the       *)
(* others keep them in order (Good).  Likewise, whatever saves or loads a  *)
(* mode leaves the place and what the observer knows alone (Apart); a load *)
(* makes the hardware agree whatever was before, an early return keeps     *)
(* what held (Keeps).                                                      *)
(***************************************************************************)
EXTENDS PictureMode, TLAPS

\* t is a state with the books of s.
Frame(s, t) ==
  /\ t \in State
  /\ t.stored = s.stored
  /\ t.last = s.last
  /\ t.allm = s.allm
  /\ t.fmm = s.fmm

\* The mode saved for slot k is the user's, or its recovery is recorded.
Recoverable(s, modes, k) ==
  \/ s.stored[k] = modes[k]
  \/ s.stored[k] = "GAME" /\ k \in s.allm
  \/ s.stored[k] = "FILM_MAKER" /\ k \in s.fmm

\* The last modes are the user's, and every slot but the lost ones can be
\* recovered to them.
InOrder(s, modes, lost) ==
  /\ s.last = modes
  /\ \A k \in Slots : Recoverable(s, modes, k) \/ k \in lost

Good(s, modes, lost) ==
  /\ s \in State
  /\ NewPictureMode => InOrder(s, modes, lost)

(***************************************************************************)
(* Names, slots and single fields.                                         *)
(***************************************************************************)
LEMMA Names ==
  /\ "MPEG" \in Sources
  /\ "SDR" \in Timings
  /\ "SDR" \in HdrTypes
  /\ \A hdr \in HdrTypes : Timing(hdr) \in Timings
  /\ {"STANDARD", "GAME", "MONITOR", "FILM_MAKER", "DOLVI_BRIGHT"} \subseteq Modes
PROOF
<1>1. "SDR" \in HdrTypes
  BY DEF HdrTypes
<1>2. \A hdr \in HdrTypes : Timing(hdr) \in Timings
  BY DEF Timings
<1>3. Timing("SDR") = "SDR"
  BY DEF Timing
<1> QED BY <1>1, <1>2, <1>3 DEF Sources, Modes

\* The current slot of a state is a slot, and the modes saved for it are modes.
LEMMA CurrentSlot ==
  ASSUME NEW s \in State
  PROVE  /\ Here(s) \in Slots
         /\ Key(s) \in Slots
         /\ GetPQMode(s) \in Modes
         /\ GetLastPQMode(s) \in Modes
         /\ NewPictureMode => Key(s) = Here(s)
PROOF
<1>1. s.source \in Sources /\ s.timing \in Timings
  BY DEF State
<1>2. Here(s) \in Slots /\ Key(s) \in Slots
  BY <1>1, Names DEF Here, Key, Slots
<1>3. s.stored \in [Slots -> Modes] /\ s.last \in [Slots -> Modes]
  BY DEF State
<1>4. NewPictureMode => Key(s) = Here(s)
  BY DEF Key
<1> QED BY <1>2, <1>3, <1>4 DEF GetPQMode, GetLastPQMode

\* Setting one field outside the books.
LEMMA Fields ==
  ASSUME NEW s \in State
  PROVE  /\ \A v \in Sources : Frame(s, [s EXCEPT !.source = v])
         /\ \A v \in Timings : Frame(s, [s EXCEPT !.timing = v])
         /\ \A v \in HdrTypes \cup {"NONE"} : Frame(s, [s EXCEPT !.hdr = v])
         /\ \A v \in HdmiHdr \cup {"SDR"} : Frame(s, [s EXCEPT !.hdrInfo = v])
         /\ \A v \in {"no", "gated", "forced"} : Frame(s, [s EXCEPT !.hint = v])
         /\ \A v \in BOOLEAN : Frame(s, [s EXCEPT !.cinema = v])
         /\ \A v \in BOOLEAN : Frame(s, [s EXCEPT !.stable = v])
         /\ \A v \in HdmiHdr \cup {"SDR"} : Frame(s, [s EXCEPT !.type = v])
         /\ \A v \in BOOLEAN : Frame(s, [s EXCEPT !.playing = v])
         /\ \A v \in BOOLEAN : Frame(s, [s EXCEPT !.filmFlag = v])
         /\ \A v \in BOOLEAN : Frame(s, [s EXCEPT !.reset = v])
         /\ \A v \in [Slots -> {"off", "on", "wild"}] : Frame(s, [s EXCEPT !.pre = v])
         /\ \A v \in BOOLEAN : Frame(s, [s EXCEPT !.game = v])
         /\ \A v \in BOOLEAN : Frame(s, [s EXCEPT !.observer = v])
         /\ \A v \in BOOLEAN : Frame(s, [s EXCEPT !.autoFilm = v])
         /\ \A v \in [game : BOOLEAN, pc : BOOLEAN] : Frame(s, [s EXCEPT !.driver = v])
         /\ \A v \in Slots \X Modes : Frame(s, [s EXCEPT !.shown = v])
         /\ \A v \in HdrTypes : Frame(s, [s EXCEPT !.told = v])
         /\ \A v \in BOOLEAN : Frame(s, [s EXCEPT !.missed = v])
         /\ \A v \in BOOLEAN : Frame(s, [s EXCEPT !.settled = v])
         /\ \A v \in SUBSET Slots : Frame(s, [s EXCEPT !.unpaired = v])
PROOF
<1>1. \A v \in Sources : Frame(s, [s EXCEPT !.source = v])
  BY DEF State, Frame
<1>2. \A v \in Timings : Frame(s, [s EXCEPT !.timing = v])
  BY DEF State, Frame
<1>3. \A v \in HdrTypes \cup {"NONE"} : Frame(s, [s EXCEPT !.hdr = v])
  BY DEF State, Frame
<1>4. \A v \in HdmiHdr \cup {"SDR"} : Frame(s, [s EXCEPT !.hdrInfo = v])
  BY DEF State, Frame
<1>5. \A v \in {"no", "gated", "forced"} : Frame(s, [s EXCEPT !.hint = v])
  BY DEF State, Frame
<1>6. \A v \in BOOLEAN : Frame(s, [s EXCEPT !.cinema = v])
  BY DEF State, Frame
<1>7. \A v \in BOOLEAN : Frame(s, [s EXCEPT !.stable = v])
  BY DEF State, Frame
<1>8. \A v \in HdmiHdr \cup {"SDR"} : Frame(s, [s EXCEPT !.type = v])
  BY DEF State, Frame
<1>9. \A v \in BOOLEAN : Frame(s, [s EXCEPT !.playing = v])
  BY DEF State, Frame
<1>10. \A v \in BOOLEAN : Frame(s, [s EXCEPT !.filmFlag = v])
  BY DEF State, Frame
<1>11. \A v \in BOOLEAN : Frame(s, [s EXCEPT !.reset = v])
  BY DEF State, Frame
<1>12. \A v \in [Slots -> {"off", "on", "wild"}] : Frame(s, [s EXCEPT !.pre = v])
  BY DEF State, Frame
<1>13. \A v \in BOOLEAN : Frame(s, [s EXCEPT !.game = v])
  BY DEF State, Frame
<1>14. \A v \in BOOLEAN : Frame(s, [s EXCEPT !.observer = v])
  BY DEF State, Frame
<1>15. \A v \in BOOLEAN : Frame(s, [s EXCEPT !.autoFilm = v])
  BY DEF State, Frame
<1>16. \A v \in [game : BOOLEAN, pc : BOOLEAN] : Frame(s, [s EXCEPT !.driver = v])
  BY DEF State, Frame
<1>17. \A v \in Slots \X Modes : Frame(s, [s EXCEPT !.shown = v])
  BY DEF State, Frame
<1>18. \A v \in HdrTypes : Frame(s, [s EXCEPT !.told = v])
  BY DEF State, Frame
<1>19. \A v \in BOOLEAN : Frame(s, [s EXCEPT !.missed = v])
  BY DEF State, Frame
<1>20. \A v \in BOOLEAN : Frame(s, [s EXCEPT !.settled = v])
  BY DEF State, Frame
<1>21. \A v \in SUBSET Slots : Frame(s, [s EXCEPT !.unpaired = v])
  BY DEF State, Frame
<1> QED
  BY <1>1, <1>2, <1>3, <1>4, <1>5, <1>6, <1>7, <1>8, <1>9, <1>10, <1>11,
     <1>12, <1>13, <1>14, <1>15, <1>16, <1>17, <1>18, <1>19, <1>20, <1>21

\* Setting one field of the books.
LEMMA BookFields ==
  ASSUME NEW s \in State
  PROVE  /\ \A v \in [Slots -> Modes] : [s EXCEPT !.stored = v] \in State
         /\ \A v \in [Slots -> Modes] : [s EXCEPT !.last = v] \in State
         /\ \A v \in SUBSET Slots : [s EXCEPT !.allm = v] \in State
         /\ \A v \in SUBSET Slots : [s EXCEPT !.fmm = v] \in State
PROOF
<1>1. \A v \in [Slots -> Modes] : [s EXCEPT !.stored = v] \in State
  BY DEF State
<1>2. \A v \in [Slots -> Modes] : [s EXCEPT !.last = v] \in State
  BY DEF State
<1>3. \A v \in SUBSET Slots : [s EXCEPT !.allm = v] \in State
  BY DEF State
<1>4. \A v \in SUBSET Slots : [s EXCEPT !.fmm = v] \in State
  BY DEF State
<1> QED BY <1>1, <1>2, <1>3, <1>4

LEMMA FrameTransitive ==
  ASSUME NEW s, NEW t, NEW u, Frame(s, t), Frame(t, u)
  PROVE  Frame(s, u)
BY DEF Frame

LEMMA FrameGood ==
  ASSUME NEW s, NEW t, NEW modes, NEW lost, Good(s, modes, lost), Frame(s, t)
  PROVE  Good(t, modes, lost)
BY DEF Frame, Good, InOrder, Recoverable

(***************************************************************************)
(* Saving and loading a mode.                                              *)
(***************************************************************************)
LEMMA SavePQModeBooks ==
  ASSUME NEW s \in State, NEW mode \in Modes
  PROVE  /\ SavePQMode(s, mode) \in State
         /\ SavePQMode(s, mode).stored = [s.stored EXCEPT ![Key(s)] = mode]
         /\ SavePQMode(s, mode).last = s.last
         /\ SavePQMode(s, mode).allm = s.allm
         /\ SavePQMode(s, mode).fmm = s.fmm
PROOF
<1>1. Key(s) \in Slots /\ s.stored \in [Slots -> Modes]
  BY CurrentSlot DEF State
<1>2. [s.stored EXCEPT ![Key(s)] = mode] \in [Slots -> Modes]
  BY <1>1
<1>3. SavePQMode(s, mode) = [s EXCEPT !.stored = [s.stored EXCEPT ![Key(s)] = mode]]
  BY DEF SavePQMode
<1>4. SavePQMode(s, mode) \in State
  BY <1>2, <1>3, BookFields
<1> QED BY <1>3, <1>4 DEF State

LEMMA SaveLastPQModeBooks ==
  ASSUME NEW s \in State, NEW mode \in Modes
  PROVE  /\ SaveLastPQMode(s, mode) \in State
         /\ SaveLastPQMode(s, mode).last = [s.last EXCEPT ![Key(s)] = mode]
         /\ SaveLastPQMode(s, mode).stored = s.stored
         /\ SaveLastPQMode(s, mode).allm = s.allm
         /\ SaveLastPQMode(s, mode).fmm = s.fmm
PROOF
<1>1. Key(s) \in Slots /\ s.last \in [Slots -> Modes]
  BY CurrentSlot DEF State
<1>2. [s.last EXCEPT ![Key(s)] = mode] \in [Slots -> Modes]
  BY <1>1
<1>3. SaveLastPQMode(s, mode) = [s EXCEPT !.last = [s.last EXCEPT ![Key(s)] = mode]]
  BY DEF SaveLastPQMode
<1>4. SaveLastPQMode(s, mode) \in State
  BY <1>2, <1>3, BookFields
<1> QED BY <1>3, <1>4 DEF State

LEMMA DriverFrame ==
  ASSUME NEW s \in State, NEW on \in BOOLEAN
  PROVE  /\ Frame(s, [s EXCEPT !.driver.game = on])
         /\ Frame(s, [s EXCEPT !.driver.pc = on])
PROOF
<1>1. s.driver \in [game : BOOLEAN, pc : BOOLEAN]
  BY DEF State
<1>2. /\ [s.driver EXCEPT !.game = on] \in [game : BOOLEAN, pc : BOOLEAN]
      /\ [s.driver EXCEPT !.pc = on] \in [game : BOOLEAN, pc : BOOLEAN]
  BY <1>1
<1>3. /\ Frame(s, [s EXCEPT !.driver = [s.driver EXCEPT !.game = on]])
      /\ Frame(s, [s EXCEPT !.driver = [s.driver EXCEPT !.pc = on]])
  BY <1>2, Fields
<1> QED BY <1>3

LEMMA SetPcGameModeFrame ==
  ASSUME NEW s \in State, NEW mode \in Modes
  PROVE  Frame(s, SetPcGameMode(s, mode))
PROOF
<1>1. ASSUME NEW on \in BOOLEAN PROVE Frame(s, Cpq_SetGameMode(s, on))
  <2>1. Frame(s, s)
    BY DEF Frame
  <2> DEFINE t == [s EXCEPT !.game = on]
  <2>2. Frame(s, t)
    BY Fields
  <2>3. Frame(t, [t EXCEPT !.driver.game = on])
    BY <2>2, DriverFrame DEF Frame
  <2>4. Frame(s, [t EXCEPT !.driver.game = on])
    BY <2>2, <2>3, FrameTransitive
  <2> QED BY <2>1, <2>4 DEF Cpq_SetGameMode
<1> DEFINE game == s.source \in Hdmi /\ mode = "GAME"
           pc   == s.source \in Hdmi /\ mode = "MONITOR"
           t    == Cpq_SetGameMode(s, game)
<1>2. game \in BOOLEAN /\ pc \in BOOLEAN
  OBVIOUS
<1>3. SetPcGameMode(s, mode) = [t EXCEPT !.driver.pc = pc]
  BY DEF SetPcGameMode
<1> HIDE DEF game, pc, t
<1>4. Frame(s, t)
  BY <1>1, <1>2 DEF t
<1>5. Frame(t, [t EXCEPT !.driver.pc = pc])
  BY <1>2, <1>4, DriverFrame DEF Frame
<1> QED BY <1>3, <1>4, <1>5, FrameTransitive

LEMMA Set_PictureModeFrame ==
  ASSUME NEW s \in State, NEW mode \in Modes
  PROVE  Frame(s, Set_PictureMode(s, mode))
PROOF
<1> DEFINE p == <<Here(s), mode>>
           b == (mode = GetPQMode(s))
           t == SetPcGameMode(s, mode)
           u == [t EXCEPT !.shown = p]
<1>1. p \in Slots \X Modes /\ b \in BOOLEAN
  BY CurrentSlot
<1>2. Set_PictureMode(s, mode) = [u EXCEPT !.settled = b]
  BY DEF Set_PictureMode
<1>3. Frame(s, t)
  BY SetPcGameModeFrame
<1> HIDE DEF p, b, t
<1>4. Frame(t, u)
  BY <1>1, <1>3, Fields DEF Frame
<1> HIDE DEF u
<1>5. Frame(u, [u EXCEPT !.settled = b])
  BY <1>1, <1>4, Fields DEF Frame
<1> QED BY <1>2, <1>3, <1>4, <1>5, FrameTransitive

\* With save, the mode is the saved one afterwards, early return or not;
\* without, the books stay as they are.
LEMMA SetPQModeBooks ==
  ASSUME NEW s \in State, NEW mode \in Modes
  PROVE  /\ SetPQMode(s, mode, TRUE) \in State
         /\ SetPQMode(s, mode, TRUE).stored = [s.stored EXCEPT ![Key(s)] = mode]
         /\ SetPQMode(s, mode, TRUE).last = s.last
         /\ SetPQMode(s, mode, TRUE).allm = s.allm
         /\ SetPQMode(s, mode, TRUE).fmm = s.fmm
         /\ Frame(s, SetPQMode(s, mode, FALSE))
PROOF
<1>1. ASSUME NEW t \in State
      PROVE  Frame(t, [Set_PictureMode(t, mode) EXCEPT !.reset = FALSE])
  <2> DEFINE u == Set_PictureMode(t, mode)
  <2>1. Frame(t, u)
    BY Set_PictureModeFrame
  <2> HIDE DEF u
  <2>2. Frame(u, [u EXCEPT !.reset = FALSE])
    BY <2>1, Fields DEF Frame
  <2> QED BY <2>1, <2>2, FrameTransitive DEF u
<1>2. CASE GetPQMode(s) = mode /\ ~s.reset
  <2>1. SetPQMode(s, mode, TRUE) = s /\ SetPQMode(s, mode, FALSE) = s
    BY <1>2 DEF SetPQMode
  <2>2. s.stored \in [Slots -> Modes] /\ s.stored[Key(s)] = mode
    BY <1>2 DEF State, GetPQMode
  <2>3. [s.stored EXCEPT ![Key(s)] = mode] = s.stored
    BY <2>2
  <2> QED BY <2>1, <2>3 DEF Frame
<1>3. CASE ~(GetPQMode(s) = mode /\ ~s.reset)
  <2> DEFINE t == SavePQMode(s, mode)
  <2>1. /\ SetPQMode(s, mode, TRUE) =
             [Set_PictureMode(t, mode) EXCEPT !.reset = FALSE]
        /\ SetPQMode(s, mode, FALSE) =
             [Set_PictureMode(s, mode) EXCEPT !.reset = FALSE]
    BY <1>3 DEF SetPQMode
  <2>2. t \in State
    BY SavePQModeBooks
  <2>3. Frame(t, SetPQMode(s, mode, TRUE)) /\ Frame(s, SetPQMode(s, mode, FALSE))
    BY <1>1, <2>1, <2>2
  <2> QED BY <2>3, SavePQModeBooks DEF Frame
<1> QED BY <1>2, <1>3

LEMMA LoadPQSettingsGood ==
  ASSUME NEW s, NEW modes, NEW lost, Good(s, modes, lost)
  PROVE  Good(LoadPQSettings(s), modes, lost)
PROOF
<1>1. s \in State /\ GetPQMode(s) \in Modes
  BY CurrentSlot DEF Good
<1>2. CASE NewPictureMode
  <2>1. Frame(s, LoadPQSettings(s))
    BY <1>1, <1>2, Set_PictureModeFrame DEF LoadPQSettings
  <2> QED BY <2>1, FrameGood
<1>3. CASE ~NewPictureMode
  <2> DEFINE t == SaveLastPQMode(s, GetPQMode(s))
  <2>1. t \in State
    BY <1>1, SaveLastPQModeBooks
  <2>2. LoadPQSettings(s) = Set_PictureMode(t, GetPQMode(s))
    BY <1>3 DEF LoadPQSettings
  <2> HIDE DEF t
  <2>3. Frame(t, LoadPQSettings(s))
    BY <1>1, <2>1, <2>2, Set_PictureModeFrame
  <2> QED BY <1>3, <2>3 DEF Good, Frame
<1> QED BY <1>2, <1>3

(***************************************************************************)
(* Game and film maker mode.                                               *)
(***************************************************************************)
\* An automatic mode saved for the current slot, together with its flag, and
\* the recovery to the last mode, which drops the flag.
LEMMA SwitchGood ==
  ASSUME NEW s, NEW modes, NEW lost, Good(s, modes, lost),
         NEW t \in State, NEW mode \in Modes,
         t.stored = [s.stored EXCEPT ![Key(s)] = mode],
         t.last = s.last, t.allm = s.allm, t.fmm = s.fmm
  PROVE  /\ mode = "GAME" =>
              Good([t EXCEPT !.allm = @ \cup {Here(s)}], modes, lost)
         /\ mode = "FILM_MAKER" =>
              Good([t EXCEPT !.fmm = @ \cup {Here(s)}], modes, lost)
         /\ mode = GetLastPQMode(s) =>
              /\ Good([t EXCEPT !.allm = @ \ {Here(s)}], modes, lost)
              /\ Good([t EXCEPT !.fmm = @ \ {Here(s)}], modes, lost)
PROOF
<1> DEFINE here == Here(s)
           game(a) == [t EXCEPT !.allm = a]
           film(f) == [t EXCEPT !.fmm = f]
<1>1. /\ s \in State /\ here \in Slots /\ (NewPictureMode => Key(s) = here)
      /\ s.stored \in [Slots -> Modes]
      /\ s.allm \subseteq Slots /\ s.fmm \subseteq Slots
  BY CurrentSlot DEF Good, State
<1>2. ASSUME NEW a \in SUBSET Slots
      PROVE  /\ game(a) \in State
             /\ game(a).stored = t.stored /\ game(a).last = t.last
             /\ game(a).allm = a /\ game(a).fmm = t.fmm
  <2>1. game(a) \in State
    BY BookFields
  <2> QED BY <2>1 DEF State
<1>3. ASSUME NEW f \in SUBSET Slots
      PROVE  /\ film(f) \in State
             /\ film(f).stored = t.stored /\ film(f).last = t.last
             /\ film(f).allm = t.allm /\ film(f).fmm = f
  <2>1. film(f) \in State
    BY BookFields
  <2> QED BY <2>1 DEF State
<1>4. CASE ~NewPictureMode
  BY <1>1, <1>2, <1>3, <1>4 DEF Good
<1>5. CASE NewPictureMode
  <2>1. \A k \in Slots : t.stored[k] = IF k = here THEN mode ELSE s.stored[k]
    BY <1>1, <1>5
  <2>2. /\ s.last = modes
        /\ \A k \in Slots : Recoverable(s, modes, k) \/ k \in lost
    BY <1>5 DEF Good, InOrder
  <2> HIDE DEF here, game, film
  <2>3. ASSUME mode = "GAME" PROVE Good(game(t.allm \cup {here}), modes, lost)
    BY <1>1, <1>2, <2>1, <2>2, <2>3 DEF Good, InOrder, Recoverable
  <2>4. ASSUME mode = "FILM_MAKER" PROVE Good(film(t.fmm \cup {here}), modes, lost)
    BY <1>1, <1>3, <2>1, <2>2, <2>4 DEF Good, InOrder, Recoverable
  <2>5. ASSUME mode = GetLastPQMode(s)
        PROVE  /\ Good(game(t.allm \ {here}), modes, lost)
               /\ Good(film(t.fmm \ {here}), modes, lost)
    <3>1. mode = modes[here]
      BY <1>1, <1>5, <2>2, <2>5 DEF GetLastPQMode
    <3>2. \A k \in Slots : k = here => t.stored[k] = modes[k]
      BY <2>1, <3>1
    <3>3. Good(game(t.allm \ {here}), modes, lost)
      BY <1>1, <1>2, <2>1, <2>2, <3>2 DEF Good, InOrder, Recoverable
    <3>4. Good(film(t.fmm \ {here}), modes, lost)
      BY <1>1, <1>3, <2>1, <2>2, <3>2 DEF Good, InOrder, Recoverable
    <3> QED BY <3>3, <3>4
  <2> QED BY <2>3, <2>4, <2>5 DEF here, game, film
<1> QED BY <1>4, <1>5

LEMMA ToGameGood ==
  ASSUME NEW s, NEW modes, NEW lost, Good(s, modes, lost),
         NEW differs \in BOOLEAN, NEW enabled \in BOOLEAN
  PROVE  Good(Cpq_SetPqModeToGame(s, differs, enabled), modes, lost)
PROOF
<1> DEFINE Switch(mode) == IF differs THEN SavePQMode(s, mode)
                                      ELSE SetPQMode(s, mode, TRUE)
<1>1. s \in State
  BY DEF Good
<1>2. \A mode \in Modes :
        /\ Switch(mode) \in State
        /\ Switch(mode).stored = [s.stored EXCEPT ![Key(s)] = mode]
        /\ Switch(mode).last = s.last
        /\ Switch(mode).allm = s.allm
        /\ Switch(mode).fmm = s.fmm
  BY <1>1, SavePQModeBooks, SetPQModeBooks
<1>3. "GAME" \in Modes /\ GetLastPQMode(s) \in Modes
  BY <1>1, Names, CurrentSlot
<1>4. Cpq_SetPqModeToGame(s, differs, enabled) \in
        {s, [Switch("GAME") EXCEPT !.allm = @ \cup {Here(s)}],
            [Switch(GetLastPQMode(s)) EXCEPT !.allm = @ \ {Here(s)}]}
  BY DEF Cpq_SetPqModeToGame
<1> HIDE DEF Switch
<1>5. Good([Switch("GAME") EXCEPT !.allm = @ \cup {Here(s)}], modes, lost)
  BY <1>2, <1>3, SwitchGood
<1>6. Good([Switch(GetLastPQMode(s)) EXCEPT !.allm = @ \ {Here(s)}], modes, lost)
  BY <1>2, <1>3, SwitchGood
<1> QED BY <1>4, <1>5, <1>6

LEMMA ToFilmMakerGood ==
  ASSUME NEW s, NEW modes, NEW lost, Good(s, modes, lost)
  PROVE  Good(Cpq_SetPqModeToFilmMaker(s), modes, lost)
PROOF
<1> DEFINE Switch(mode) == SetPQMode(s, mode, TRUE)
<1>1. s \in State
  BY DEF Good
<1>2. \A mode \in Modes :
        /\ Switch(mode) \in State
        /\ Switch(mode).stored = [s.stored EXCEPT ![Key(s)] = mode]
        /\ Switch(mode).last = s.last
        /\ Switch(mode).allm = s.allm
        /\ Switch(mode).fmm = s.fmm
  BY <1>1, SetPQModeBooks
<1>3. "FILM_MAKER" \in Modes /\ GetLastPQMode(s) \in Modes
  BY <1>1, Names, CurrentSlot
<1>4. Cpq_SetPqModeToFilmMaker(s) \in
        {s, [Switch("FILM_MAKER") EXCEPT !.fmm = @ \cup {Here(s)}],
            [Switch(GetLastPQMode(s)) EXCEPT !.fmm = @ \ {Here(s)}]}
  BY DEF Cpq_SetPqModeToFilmMaker
<1> HIDE DEF Switch
<1>5. Good([Switch("FILM_MAKER") EXCEPT !.fmm = @ \cup {Here(s)}], modes, lost)
  BY <1>2, <1>3, SwitchGood
<1>6. Good([Switch(GetLastPQMode(s)) EXCEPT !.fmm = @ \ {Here(s)}], modes, lost)
  BY <1>2, <1>3, SwitchGood
<1> QED BY <1>4, <1>5, <1>6

LEMMA FilmMakerGood ==
  ASSUME NEW s, NEW modes, NEW lost, Good(s, modes, lost)
  PROVE  Good(Cpq_SetFilmMakerMode(s), modes, lost)
PROOF
<1> DEFINE mode == IF FilmMakerMode(s) THEN "on" ELSE "off"
           done == Cpq_SetPqModeToFilmMaker(s)
           here == Here(s)
           more == (done.unpaired \cup {here}) \cap done.fmm
           pre  == [done.pre EXCEPT ![here] = mode]
           told == [done EXCEPT !.pre = pre]
<1>1. Good(done, modes, lost) /\ done \in State /\ here \in Slots
  BY ToFilmMakerGood, CurrentSlot DEF Good
<1>2. /\ done.pre \in [Slots -> {"off", "on", "wild"}]
      /\ done.unpaired \subseteq Slots
  BY <1>1 DEF State
<1>3. mode \in {"off", "on", "wild"}
  OBVIOUS
<1>4. Cpq_SetFilmMakerMode(s) \in
        {s, [told EXCEPT !.unpaired = done.unpaired \ {here}],
            [done EXCEPT !.unpaired = more]}
  BY DEF Cpq_SetFilmMakerMode
<1> HIDE DEF mode, done, here
<1>5. Frame(done, [done EXCEPT !.unpaired = more])
  BY <1>1, <1>2, Fields
<1>6. pre \in [Slots -> {"off", "on", "wild"}]
  BY <1>2, <1>3
<1>7. Frame(done, told)
  BY <1>1, <1>6, Fields
<1> HIDE DEF told, pre
<1>8. Frame(told, [told EXCEPT !.unpaired = done.unpaired \ {here}])
  <2>1. told \in State /\ done.unpaired \ {here} \in SUBSET Slots
    BY <1>2, <1>7 DEF Frame
  <2> QED BY <2>1, Fields
<1>9. /\ Good([done EXCEPT !.unpaired = more], modes, lost)
      /\ Good([told EXCEPT !.unpaired = done.unpaired \ {here}], modes, lost)
  BY <1>1, <1>5, <1>7, <1>8, FrameGood
<1> QED BY <1>4, <1>9

(***************************************************************************)
(* The current source and its HDR type.                                    *)
(***************************************************************************)
LEMMA SourceHDRType ==
  ASSUME NEW s \in State, NEW source, NEW video \in VideoHdr \cup {"SDR"}
  PROVE  Cpq_GetSourceHDRType(s, source, video) \in HdrTypes
PROOF
<1>1. s.hdrInfo \in HdmiHdr \cup {"SDR"}
  BY DEF State
<1> QED BY <1>1 DEF Cpq_GetSourceHDRType, HdrTypes

LEMMA HdrTypeFrame ==
  ASSUME NEW s \in State, NEW hdr \in HdrTypes
  PROVE  Frame(s, Cpq_SetHdrType(s, hdr))
PROOF
<1> DEFINE t == [s EXCEPT !.told = hdr]
<1>1. Frame(s, t) /\ t \in State
  BY Fields DEF Frame
<1>2. Cpq_SetHdrType(s, hdr) \in
        {[t EXCEPT !.missed = FALSE], [s EXCEPT !.missed = TRUE]}
  BY DEF Cpq_SetHdrType
<1> HIDE DEF t
<1>3. Frame(t, [t EXCEPT !.missed = FALSE]) /\ Frame(s, [s EXCEPT !.missed = TRUE])
  BY <1>1, Fields
<1>4. Frame(s, [t EXCEPT !.missed = FALSE])
  BY <1>1, <1>3, FrameTransitive
<1> QED BY <1>2, <1>3, <1>4

LEMMA SlotFrame ==
  ASSUME NEW s \in State, NEW timing \in Timings,
         NEW hdr \in HdrTypes \cup {"NONE"}, NEW b \in BOOLEAN
  PROVE  /\ \A source \in Sources :
              Frame(s, [s EXCEPT !.source = source, !.timing = timing,
                                 !.hdr = hdr, !.settled = b])
         /\ Frame(s, [s EXCEPT !.hdr = hdr, !.timing = timing, !.settled = b])
         /\ Frame(s, [s EXCEPT !.hdr = hdr, !.hdrInfo = "SDR", !.timing = timing])
PROOF
<1>1. ASSUME NEW t \in State
      PROVE  Frame(t, [t EXCEPT !.hdr = hdr, !.timing = timing, !.settled = b])
  <2> DEFINE u == [t EXCEPT !.hdr = hdr]
             w == [u EXCEPT !.timing = timing]
  <2>1. Frame(t, u)
    BY Fields
  <2> HIDE DEF u
  <2>2. Frame(u, w)
    BY <2>1, Fields DEF Frame
  <2> HIDE DEF w
  <2>3. Frame(w, [w EXCEPT !.settled = b])
    BY <2>2, Fields DEF Frame
  <2>4. Frame(t, [w EXCEPT !.settled = b])
    BY <2>1, <2>2, <2>3, FrameTransitive
  <2> QED BY <2>4 DEF u, w
<1>2. ASSUME NEW source \in Sources
      PROVE  Frame(s, [s EXCEPT !.source = source, !.timing = timing,
                                !.hdr = hdr, !.settled = b])
  <2> DEFINE t == [s EXCEPT !.source = source]
  <2>1. Frame(s, t)
    BY Fields
  <2>2. t \in State
    BY <2>1 DEF Frame
  <2>3. [s EXCEPT !.source = source, !.timing = timing, !.hdr = hdr, !.settled = b]
          = [t EXCEPT !.hdr = hdr, !.timing = timing, !.settled = b]
    BY DEF State
  <2> HIDE DEF t
  <2> QED BY <2>1, <2>2, <2>3, <1>1, FrameTransitive
<1>3. Frame(s, [s EXCEPT !.hdr = hdr, !.hdrInfo = "SDR", !.timing = timing])
  <2> DEFINE u == [s EXCEPT !.hdr = hdr]
             w == [u EXCEPT !.hdrInfo = "SDR"]
  <2>1. Frame(s, u)
    BY Fields
  <2> HIDE DEF u
  <2>2. Frame(u, w)
    <3>1. u \in State /\ "SDR" \in HdmiHdr \cup {"SDR"}
      BY <2>1 DEF Frame
    <3> QED BY <3>1, Fields
  <2> HIDE DEF w
  <2>3. Frame(w, [w EXCEPT !.timing = timing])
    BY <2>2, Fields DEF Frame
  <2>4. Frame(s, [w EXCEPT !.timing = timing])
    BY <2>1, <2>2, <2>3, FrameTransitive
  <2> QED BY <2>4 DEF u, w
<1> QED BY <1>1, <1>2, <1>3

LEMMA InputInfoGood ==
  ASSUME NEW s, NEW modes, NEW lost, Good(s, modes, lost),
         NEW source \in Sources, NEW signal, NEW changed \in BOOLEAN,
         NEW video \in VideoHdr \cup {"SDR"}, NEW enabled \in BOOLEAN
  PROVE  Good(SetCurrentSourceInputInfo(s, source, signal, changed, video, enabled),
              modes, lost)
PROOF
<1> DEFINE hdr    == Cpq_GetSourceHDRType(s, source, video)
           heard  == IF s.hdr # hdr THEN Cpq_SetHdrType(s, hdr) ELSE s
           moved  == [heard EXCEPT !.source = source, !.timing = Timing(hdr),
                                   !.hdr = hdr, !.settled = FALSE]
           gamed  == Cpq_SetPqModeToGame(moved, TRUE, enabled)
           silent == [gamed EXCEPT !.hdr = "NONE", !.hdrInfo = "SDR",
                                   !.timing = "SDR"]
<1>1. s \in State
  BY DEF Good
<1>2. hdr \in HdrTypes /\ Timing(hdr) \in Timings
  BY <1>1, SourceHDRType, Names
<1>3. Good(heard, modes, lost)
  BY <1>1, <1>2, HdrTypeFrame, FrameGood
<1>4. SetCurrentSourceInputInfo(s, source, signal, changed, video, enabled) \in
        {Cpq_SetPqModeToGame(heard, FALSE, enabled), LoadPQSettings(gamed),
         LoadPQSettings(silent), silent}
  BY DEF SetCurrentSourceInputInfo
<1> HIDE DEF hdr, heard
<1>5. Frame(heard, moved)
  BY <1>2, <1>3, SlotFrame DEF Good
<1> HIDE DEF moved
<1>6. Good(moved, modes, lost)
  BY <1>3, <1>5, FrameGood
<1>7. Good(gamed, modes, lost)
  BY <1>6, ToGameGood
<1> HIDE DEF gamed
<1>8. Frame(gamed, silent)
  BY <1>7, SlotFrame, Names DEF Good
<1> HIDE DEF silent
<1>9. Good(silent, modes, lost)
  BY <1>7, <1>8, FrameGood
<1>10. Good(Cpq_SetPqModeToGame(heard, FALSE, enabled), modes, lost)
  BY <1>3, ToGameGood
<1> QED BY <1>4, <1>7, <1>9, <1>10, LoadPQSettingsGood

LEMMA SourceInfoGood ==
  ASSUME NEW s, NEW modes, NEW lost, Good(s, modes, lost),
         NEW source \in Sources, NEW stable \in BOOLEAN,
         NEW type \in HdmiHdr \cup {"SDR"},
         NEW hint \in {"no", "gated", "forced"}, NEW cinema \in BOOLEAN, NEW signal, NEW changed \in BOOLEAN,
         NEW enabled \in BOOLEAN
  PROVE  Good(SetCurrenSourceInfo(s, source, stable, type, hint, cinema, signal,
                                  changed, enabled), modes, lost)
PROOF
<1> DEFINE t      == [s EXCEPT !.stable = stable]
           known  == [t EXCEPT !.type = type]
           u      == [known EXCEPT !.hint = hint]
           w      == [u EXCEPT !.cinema = cinema]
           probed == [w EXCEPT !.hdrInfo = type]
           placed == SetCurrentSourceInputInfo(probed, source, signal, changed,
                                               "SDR", enabled)
<1>1. SetCurrenSourceInfo(s, source, stable, type, hint, cinema, signal, changed,
                          enabled) \in {known, Cpq_SetFilmMakerMode(placed)}
  BY DEF SetCurrenSourceInfo
<1>2. Frame(s, t)
  BY Fields DEF Good
<1> HIDE DEF t
<1>3. Frame(t, known)
  BY <1>2, Fields DEF Frame
<1> HIDE DEF known
<1>4. Frame(known, u)
  BY <1>3, Fields DEF Frame
<1> HIDE DEF u
<1>5. Frame(u, w)
  BY <1>4, Fields DEF Frame
<1> HIDE DEF w
<1>6. Frame(w, probed)
  BY <1>5, Fields DEF Frame
<1> HIDE DEF probed
<1>7. Good(known, modes, lost)
  BY <1>2, <1>3, FrameGood
<1>8. Good(probed, modes, lost)
  BY <1>4, <1>5, <1>6, <1>7, FrameGood
<1>9. Good(placed, modes, lost)
  BY <1>8, InputInfoGood
<1> HIDE DEF placed
<1> QED BY <1>1, <1>7, <1>9, FilmMakerGood

(***************************************************************************)
(* The actions.                                                            *)
(***************************************************************************)
\* The inductive invariant: types, and the books in order.
IInv ==
  /\ Good(pq, chosen, stranded)
  /\ chosen \in [Slots -> Modes]
  /\ stranded \subseteq Slots
  /\ inherited \subseteq {"game", "pc"}

\* A slot that stops being lost is one with the user's mode.
LEMMA StepKeeps ==
  ASSUME IInv, NEW s, NEW modes \in [Slots -> Modes],
         Good(s, modes, stranded), Step(s, modes)
  PROVE  IInv'
PROOF
<1>1. /\ pq' = s /\ chosen' = modes
      /\ stranded' = {k \in stranded : s.stored[k] # modes[k]}
      /\ inherited' \subseteq {"game", "pc"}
  BY DEF Step, IInv
<1>2. stranded' \subseteq Slots
  BY <1>1 DEF IInv
<1>3. \A k \in stranded : k \in stranded' \/ Recoverable(s, modes, k)
  BY <1>1 DEF Recoverable
<1>4. Good(s, modes, stranded')
  BY <1>3 DEF Good, InOrder
<1> QED BY <1>1, <1>2, <1>4 DEF IInv

LEMMA HandleKeeps ==
  ASSUME IInv, NEW s, Good(s, chosen, stranded), Handle(s)
  PROVE  IInv'
BY StepKeeps DEF Handle, IInv

\* A new process, from the settings file and the drivers it finds.
LEMMA BootState ==
  ASSUME NEW saved,
         saved.stored \in [Slots -> Modes], saved.last \in [Slots -> Modes],
         saved.autoFilm \in BOOLEAN,
         NEW driver \in [game : BOOLEAN, pc : BOOLEAN], NEW memory \in Memories
  PROVE  /\ Boot(saved, driver, memory) \in State
         /\ Boot(saved, driver, memory).stored = saved.stored
         /\ NewPictureMode => Boot(saved, driver, memory).last = saved.last
PROOF
<1> DEFINE here   == <<"MPEG", "SDR">>
           mode   == saved.stored[here]
           filled == IF memory.flag THEN Slots ELSE {}
           last   == IF NewPictureMode THEN saved.last
                     ELSE [saved.last EXCEPT ![here] = mode]
           pre    == [k \in Slots |-> memory.pre]
<1>1. memory.flag \in BOOLEAN /\ memory.pre \in {"off", "on", "wild"}
  BY InputAssumption
<1>2. here \in Slots /\ mode \in Modes
  BY Names DEF Slots
<1>3. last \in [Slots -> Modes]
  BY <1>2
<1>4. filled \in SUBSET Slots /\ pre \in [Slots -> {"off", "on", "wild"}]
  BY <1>1
<1>5. <<here, mode>> \in Slots \X Modes
  BY <1>2
<1>6. Boot(saved, driver, memory) =
        [source |-> "MPEG", timing |-> "SDR", hdr |-> "SDR", hdrInfo |-> "SDR",
         hint |-> "no", cinema |-> FALSE,
         stable |-> FALSE, type |-> "SDR",
         playing |-> FALSE, filmFlag |-> FALSE, reset |-> FALSE,
         allm |-> filled, fmm |-> filled, pre |-> pre,
         game |-> FALSE, observer |-> FALSE, stored |-> saved.stored,
         last |-> last,
         autoFilm |-> saved.autoFilm, driver |-> driver, shown |-> <<here, mode>>,
         told |-> "SDR", missed |-> FALSE, settled |-> TRUE, unpaired |-> filled]
  BY DEF Boot
<1> HIDE DEF here, mode, filled, pre
<1>7. Boot(saved, driver, memory) \in State
  <2> HIDE DEF last
  <2> QED BY <1>3, <1>4, <1>5, <1>6, Names DEF State
<1> QED BY <1>6, <1>7

LEMMA FactoryType == Factory \in [Slots -> Modes]
PROOF
<1>1. \A k \in Slots : DefaultMode(k) \in Modes
  BY Names DEF DefaultMode
<1> QED BY <1>1 DEF Factory

LEMMA InitKeeps ==
  ASSUME Init
  PROVE  IInv
PROOF
<1> DEFINE saved  == [stored |-> Factory, last |-> Factory, autoFilm |-> FALSE]
           driver == [game |-> FALSE, pc |-> FALSE]
<1>1. PICK memory \in Memories : pq = Boot(saved, driver, memory)
  BY DEF Init
<1>2. driver \in [game : BOOLEAN, pc : BOOLEAN]
  OBVIOUS
<1>3. /\ pq \in State /\ pq.stored = Factory
      /\ NewPictureMode => pq.last = Factory
  BY <1>1, <1>2, BootState, FactoryType
<1>4. chosen = Factory /\ stranded = {} /\ inherited = {}
  BY DEF Init
<1>5. NewPictureMode => InOrder(pq, chosen, stranded)
  BY <1>3, <1>4 DEF InOrder, Recoverable
<1> QED BY <1>3, <1>4, <1>5, FactoryType DEF IInv, Good

LEMMA RestartKeeps ==
  ASSUME IInv, NEW kind \in Restarts, Restart(kind)
  PROVE  IInv'
PROOF
<1>1. /\ pq \in State /\ chosen \in [Slots -> Modes]
      /\ stranded \subseteq Slots
      /\ NewPictureMode => pq.last = chosen
  BY DEF IInv, Good, InOrder
<1> DEFINE driver == IF kind = "power" THEN [game |-> FALSE, pc |-> FALSE]
                                       ELSE pq.driver
<1>2. /\ driver \in [game : BOOLEAN, pc : BOOLEAN]
      /\ pq.stored \in [Slots -> Modes] /\ pq.last \in [Slots -> Modes]
      /\ pq.autoFilm \in BOOLEAN
  BY <1>1 DEF State
<1>3. PICK memory \in Memories : pq' = Boot(pq, driver, memory)
  BY DEF Restart
<1> HIDE DEF driver
<1>4. /\ pq' \in State /\ pq'.stored = pq.stored
      /\ NewPictureMode => pq'.last = pq.last
  BY <1>2, <1>3, BootState
<1>5. /\ stranded' = stranded \cup {k \in Slots : pq.stored[k] # chosen[k]}
      /\ inherited' \subseteq {"game", "pc"} /\ chosen' = chosen
  BY DEF Restart
<1>6. NewPictureMode => InOrder(pq', chosen', stranded')
  BY <1>1, <1>4, <1>5 DEF InOrder, Recoverable
<1> QED BY <1>1, <1>4, <1>5, <1>6 DEF IInv, Good

LEMMA SetObserverKeeps ==
  ASSUME IInv, SetObserver
  PROVE  IInv'
PROOF
<1>1. Frame(pq, pq')
  BY Fields DEF SetObserver, IInv, Good
<1>2. Good(pq', chosen, stranded)
  BY <1>1, FrameGood DEF IInv
<1> QED BY <1>2 DEF IInv, SetObserver

\* Saving a mode does not move the slot.
LEMMA SetPQModePlace ==
  ASSUME NEW s \in State, NEW mode \in Modes
  PROVE  Key(SetPQMode(s, mode, TRUE)) = Key(s)
PROOF
<1> DEFINE Same(t, u) == u.source = t.source /\ u.timing = t.timing
<1>1. ASSUME NEW t \in State, NEW on
      PROVE  Same(t, Cpq_SetGameMode(t, on))
  BY DEF Cpq_SetGameMode, State
<1>2. ASSUME NEW t \in State
      PROVE  Same(t, SetPcGameMode(t, mode))
  <2> DEFINE u == Cpq_SetGameMode(t, t.source \in Hdmi /\ mode = "GAME")
  <2>1. Same(u, [u EXCEPT !.driver.pc = (t.source \in Hdmi /\ mode = "MONITOR")])
    BY DEF Cpq_SetGameMode, State
  <2> QED BY <1>1, <2>1 DEF SetPcGameMode
<1>3. ASSUME NEW t \in State
      PROVE  Same(t, Set_PictureMode(t, mode))
  BY <1>2 DEF Set_PictureMode
<1>4. Same(s, SavePQMode(s, mode)) /\ SavePQMode(s, mode) \in State
  BY SavePQModeBooks DEF SavePQMode
<1>5. Same(s, SetPQMode(s, mode, TRUE))
  BY <1>3, <1>4 DEF SetPQMode
<1> QED BY <1>5 DEF Key, Here

LEMMA SetPictureModeKeeps ==
  ASSUME IInv, NEW mode \in UserModes, NEW save \in BOOLEAN,
         SetPictureMode(mode, save)
  PROVE  IInv'
PROOF
<1>1. /\ Good(pq, chosen, stranded) /\ pq \in State
      /\ chosen \in [Slots -> Modes] /\ mode \in Modes
  BY DEF IInv, Good, Modes
<1>2. CASE ~save
  <2>1. Step(SetPQMode(pq, mode, FALSE), chosen)
    BY <1>2 DEF SetPictureMode
  <2>2. Good(SetPQMode(pq, mode, FALSE), chosen, stranded)
    BY <1>1, SetPQModeBooks, FrameGood
  <2> QED BY <1>1, <2>1, <2>2, StepKeeps
<1>3. CASE save
  <2> DEFINE set   == SetPQMode(pq, mode, TRUE)
             t     == SaveLastPQMode(set, mode)
             modes == [chosen EXCEPT ![Key(pq)] = mode]
  <2>1. Step(t, modes)
    BY <1>3 DEF SetPictureMode
  <2>2. Key(pq) \in Slots
    BY <1>1, CurrentSlot
  <2>3. modes \in [Slots -> Modes]
    BY <1>1, <2>2
  <2>4. /\ set \in State /\ Key(set) = Key(pq)
        /\ set.stored = [pq.stored EXCEPT ![Key(pq)] = mode]
        /\ set.last = pq.last /\ set.allm = pq.allm /\ set.fmm = pq.fmm
    BY <1>1, SetPQModeBooks, SetPQModePlace
  <2> HIDE DEF set
  <2>5. /\ t \in State
        /\ t.last = [set.last EXCEPT ![Key(set)] = mode]
        /\ t.stored = set.stored /\ t.allm = set.allm /\ t.fmm = set.fmm
    BY <1>1, <2>4, SaveLastPQModeBooks
  <2> HIDE DEF t
  <2>6. pq.stored \in [Slots -> Modes]
    BY <1>1 DEF State
  <2>7. \A k \in Slots :
          \/ t.stored[k] = mode /\ modes[k] = mode
          \/ t.stored[k] = pq.stored[k] /\ modes[k] = chosen[k]
    BY <1>1, <2>2, <2>4, <2>5, <2>6
  <2>8. \A k \in Slots : Recoverable(pq, chosen, k) => Recoverable(t, modes, k)
    BY <2>4, <2>5, <2>7 DEF Recoverable
  <2>9. NewPictureMode => InOrder(t, modes, stranded)
    BY <1>1, <2>4, <2>5, <2>8 DEF Good, InOrder
  <2>10. Good(t, modes, stranded)
    BY <2>5, <2>9 DEF Good
  <2> HIDE DEF modes
  <2> QED BY <2>1, <2>3, <2>10, StepKeeps
<1> QED BY <1>2, <1>3

LEMMA ResetKeeps ==
  ASSUME IInv, ResetCurSrcPqUiSetting
  PROVE  IInv'
PROOF
<1> DEFINE Reset(modes) ==
             [k \in Slots |-> IF NewPictureMode /\ k[1] = pq.source
                               THEN DefaultMode(k) ELSE modes[k]]
           t == [pq EXCEPT !.stored = Reset(pq.stored)]
           u == [t EXCEPT !.last = Reset(pq.last)]
           w == [u EXCEPT !.reset = TRUE]
           s == [w EXCEPT !.settled = FALSE]
<1>1. /\ Good(pq, chosen, stranded) /\ pq \in State
      /\ pq.stored \in [Slots -> Modes] /\ pq.last \in [Slots -> Modes]
      /\ chosen \in [Slots -> Modes]
  BY DEF IInv, Good, State
<1>2. \A k \in Slots : DefaultMode(k) \in Modes
  BY Names DEF DefaultMode
<1>3. ASSUME NEW modes \in [Slots -> Modes] PROVE Reset(modes) \in [Slots -> Modes]
  BY <1>2
<1>4. Step(s, Reset(chosen))
  BY DEF ResetCurSrcPqUiSetting
<1>5. \A k \in Slots :
        \/ Reset(pq.stored)[k] = Reset(chosen)[k]
        \/ Reset(pq.stored)[k] = pq.stored[k] /\ Reset(chosen)[k] = chosen[k]
  OBVIOUS
<1>6. pq.last = chosen => Reset(pq.last) = Reset(chosen)
  OBVIOUS
<1>7. Reset(pq.stored) \in [Slots -> Modes] /\ Reset(pq.last) \in [Slots -> Modes]
      /\ Reset(chosen) \in [Slots -> Modes]
  BY <1>1, <1>3
<1> HIDE DEF Reset
<1>8. /\ t \in State /\ t.stored = Reset(pq.stored) /\ t.last = pq.last
      /\ t.allm = pq.allm /\ t.fmm = pq.fmm
  <2>1. t \in State
    BY <1>1, <1>7, BookFields
  <2> QED BY <1>1, <2>1 DEF State
<1> HIDE DEF t
<1>9. /\ u \in State /\ u.stored = Reset(pq.stored) /\ u.last = Reset(pq.last)
      /\ u.allm = pq.allm /\ u.fmm = pq.fmm
  <2>1. u \in State
    BY <1>7, <1>8, BookFields
  <2> QED BY <1>8, <2>1 DEF State
<1> HIDE DEF u
<1>10. Good(u, Reset(chosen), stranded)
  <2>1. \A k \in Slots : Recoverable(pq, chosen, k) => Recoverable(u, Reset(chosen), k)
    BY <1>5, <1>9 DEF Recoverable
  <2> QED BY <1>1, <1>6, <1>9, <2>1 DEF Good, InOrder
<1>11. Frame(u, w)
  BY <1>9, Fields
<1> HIDE DEF w
<1>12. Frame(w, s)
  BY <1>11, Fields DEF Frame
<1> HIDE DEF s
<1>13. Good(s, Reset(chosen), stranded)
  BY <1>10, <1>11, <1>12, FrameGood
<1> QED BY <1>4, <1>7, <1>13, StepKeeps

LEMMA RecoveryKeeps ==
  ASSUME IInv, SSMRecovery
  PROVE  IInv'
PROOF
<1> DEFINE t == [pq EXCEPT !.stored = Factory]
           u == [t EXCEPT !.last = Factory]
           w == [u EXCEPT !.autoFilm = FALSE]
           s == [w EXCEPT !.settled = FALSE]
<1>1. pq \in State
  BY DEF IInv, Good
<1>2. Step(s, Factory)
  BY DEF SSMRecovery
<1>3. t \in State /\ t.stored = Factory
  <2>1. t \in State
    BY <1>1, FactoryType, BookFields
  <2> QED BY <1>1, <2>1 DEF State
<1> HIDE DEF t
<1>4. u \in State /\ u.stored = Factory /\ u.last = Factory
  <2>1. u \in State
    BY <1>3, FactoryType, BookFields
  <2> QED BY <1>3, <2>1 DEF State
<1> HIDE DEF u
<1>5. Good(u, Factory, stranded)
  BY <1>4 DEF Good, InOrder, Recoverable
<1>6. Frame(u, w)
  BY <1>4, Fields
<1> HIDE DEF w
<1>7. Frame(w, s)
  BY <1>6, Fields DEF Frame
<1> HIDE DEF s
<1>8. Good(s, Factory, stranded)
  BY <1>5, <1>6, <1>7, FrameGood
<1> QED BY <1>2, <1>8, FactoryType, StepKeeps

LEMMA SetFilmMakerModeKeeps ==
  ASSUME IInv, NEW auto \in BOOLEAN, NEW save \in BOOLEAN,
         SetFilmMakerMode(auto, save)
  PROVE  IInv'
PROOF
<1> DEFINE s == IF save THEN [pq EXCEPT !.autoFilm = auto] ELSE pq
<1>1. Good(pq, chosen, stranded) /\ pq \in State /\ chosen \in [Slots -> Modes]
  BY DEF IInv, Good
<1>2. Good(s, chosen, stranded)
  BY <1>1, Fields, FrameGood
<1>3. Step(Cpq_SetFilmMakerMode(s), chosen)
  BY DEF SetFilmMakerMode
<1> HIDE DEF s
<1> QED BY <1>1, <1>2, <1>3, FilmMakerGood, StepKeeps

\* Events that lead to the source handler alone.
LEMMA SourceEventsKeep ==
  ASSUME IInv,
         \/ \E source \in Sources : SetCurrentSource(source)
         \/ \E source \in Hdmi \cup Tuner, stable \in BOOLEAN :
              OnSigStatusChange(source, stable)
         \/ StopVdin
         \/ OnTXStatusChange
  PROVE  IInv'
PROOF
<1>1. /\ Good(pq, chosen, stranded)
      /\ pq.source \in Sources /\ "MPEG" \in Sources
      /\ \A source \in Hdmi \cup Tuner : source \in Sources
  BY Names DEF IInv, Good, State, Sources
<1>2. ASSUME NEW source \in Sources, SetCurrentSource(source)
      PROVE  IInv'
  <2>1. PICK changed \in BOOLEAN, enabled \in BOOLEAN,
             video \in VideoHdr \cup {"SDR"} :
          Handle(SetCurrentSourceInputInfo(pq, source, "video", changed, video,
                                           enabled))
    BY <1>2 DEF SetCurrentSource
  <2> QED BY <1>1, <2>1, InputInfoGood, HandleKeeps
<1>3. ASSUME NEW source \in Hdmi \cup Tuner, NEW stable \in BOOLEAN,
             OnSigStatusChange(source, stable)
      PROVE  IInv'
  <2>1. PICK type \in IF source \in Hdmi THEN HdmiHdr \cup {"SDR"} ELSE {"SDR"},
             hint \in IF stable THEN Hints ELSE {pq.hint},
             cinema \in IF stable THEN Cinema ELSE {pq.cinema},
             signal \in {"video", "nosignal"}, enabled \in BOOLEAN :
          \E changed \in {TRUE, signal # "video"} :
            Handle(SetCurrenSourceInfo(pq, source, stable, type, hint, cinema,
                                       signal, changed, enabled))
    BY <1>3 DEF OnSigStatusChange
  <2>2. PICK changed \in {TRUE, signal # "video"} :
          Handle(SetCurrenSourceInfo(pq, source, stable, type, hint, cinema,
                                     signal, changed, enabled))
    BY <2>1
  <2>3. /\ type \in HdmiHdr \cup {"SDR"} /\ changed \in BOOLEAN
        /\ hint \in {"no", "gated", "forced"} /\ cinema \in BOOLEAN
    BY <2>1, <2>2, InputAssumption DEF IInv, Good, State
  <2>4. source \in Sources
    BY <1>1
  <2>5. Good(SetCurrenSourceInfo(pq, source, stable, type, hint, cinema, signal,
                                 changed, enabled), chosen, stranded)
    BY <1>1, <2>3, <2>4, SourceInfoGood
  <2> QED BY <2>2, <2>5, HandleKeeps
<1>4. ASSUME StopVdin
      PROVE  IInv'
  <2>1. PICK hint \in Hints, cinema \in Cinema, changed \in BOOLEAN,
             video \in VideoHdr \cup {"SDR"} :
          Handle(SetCurrenSourceInfo(
            SetCurrentSourceInputInfo(pq, "MPEG", "video", changed, video, FALSE),
            "MPEG", FALSE, "SDR", hint, cinema, "exit", TRUE, FALSE))
    BY <1>4 DEF StopVdin
  <2> DEFINE left == SetCurrentSourceInputInfo(pq, "MPEG", "video", changed, video,
                                               FALSE)
  <2>2. Good(left, chosen, stranded)
    BY <1>1, InputInfoGood
  <2> HIDE DEF left
  <2>3. /\ "SDR" \in HdmiHdr \cup {"SDR"}
        /\ hint \in {"no", "gated", "forced"} /\ cinema \in BOOLEAN
    BY InputAssumption
  <2>4. Good(SetCurrenSourceInfo(left, "MPEG", FALSE, "SDR", hint, cinema, "exit",
                                 TRUE, FALSE), chosen, stranded)
    BY <1>1, <2>2, <2>3, SourceInfoGood
  <2> QED BY <2>1, <2>4, HandleKeeps DEF left
<1>5. ASSUME OnTXStatusChange
      PROVE  IInv'
  <2>1. PICK changed \in BOOLEAN, enabled \in BOOLEAN,
             video \in VideoHdr \cup {"SDR"} :
          Handle(SetCurrentSourceInputInfo(pq, pq.source, "video", changed, video,
                                           enabled))
    BY <1>5 DEF OnTXStatusChange
  <2> QED BY <1>1, <2>1, InputInfoGood, HandleKeeps
<1> QED BY <1>2, <1>3, <1>4, <1>5

LEMMA OnHdrChangeKeeps ==
  ASSUME IInv, NEW type \in HdmiHdr \cup {"SDR"}, OnHdrChange(type)
  PROVE  IInv'
PROOF
<1>1. Good(pq, chosen, stranded) /\ pq \in State /\ pq.source \in Sources
  BY DEF IInv, Good, State
<1> DEFINE s == [pq EXCEPT !.hdrInfo = type]
           Moved(changed, enabled) ==
             SetCurrentSourceInputInfo(s, pq.source, "video", changed, "SDR", enabled)
           t(changed, enabled) ==
             IF pq.source \in Hdmi /\ pq.hdrInfo # type
             THEN Moved(changed, enabled) ELSE pq
<1>2. PICK changed \in BOOLEAN, enabled \in BOOLEAN :
        Handle([t(changed, enabled) EXCEPT !.type = type])
  BY DEF OnHdrChange
<1>3. Good(s, chosen, stranded)
  BY <1>1, Fields, FrameGood
<1> HIDE DEF s
<1>4. Good(Moved(changed, enabled), chosen, stranded)
  BY <1>1, <1>3, InputInfoGood
<1> HIDE DEF Moved
<1>5. Good(t(changed, enabled), chosen, stranded)
  BY <1>1, <1>4
<1> HIDE DEF t
<1>6. Frame(t(changed, enabled), [t(changed, enabled) EXCEPT !.type = type])
  BY <1>5, Fields DEF Good
<1>7. Good([t(changed, enabled) EXCEPT !.type = type], chosen, stranded)
  BY <1>5, <1>6, FrameGood
<1> QED BY <1>2, <1>7, HandleKeeps

LEMMA OnAllmOrVrrKeeps ==
  ASSUME IInv, NEW hint \in Hints, NEW cinema \in Cinema,
         OnAllmOrVrrStatusChange(hint, cinema)
  PROVE  IInv'
PROOF
<1> DEFINE t == [pq EXCEPT !.hint = hint]
           s == [t EXCEPT !.cinema = cinema]
<1>1. Good(pq, chosen, stranded) /\ pq \in State
  BY DEF IInv, Good
<1>2. hint \in {"no", "gated", "forced"} /\ cinema \in BOOLEAN
  BY InputAssumption
<1>3. PICK ok \in BOOLEAN, enabled \in BOOLEAN :
        Handle(IF ok THEN Cpq_SetFilmMakerMode(Cpq_SetPqModeToGame(s, FALSE, enabled))
                     ELSE s)
  BY DEF OnAllmOrVrrStatusChange
<1>4. Frame(pq, t)
  BY <1>1, <1>2, Fields
<1> HIDE DEF t
<1>5. Frame(t, s)
  BY <1>2, <1>4, Fields DEF Frame
<1> HIDE DEF s
<1>6. Good(s, chosen, stranded)
  BY <1>1, <1>4, <1>5, FrameGood
<1>7. Good(Cpq_SetPqModeToGame(s, FALSE, enabled), chosen, stranded)
  BY <1>6, ToGameGood
<1>8. Good(Cpq_SetFilmMakerMode(Cpq_SetPqModeToGame(s, FALSE, enabled)), chosen,
           stranded)
  BY <1>7, FilmMakerGood
<1> QED BY <1>3, <1>6, <1>8, HandleKeeps

LEMMA OnVideoEventKeeps ==
  ASSUME IInv, NEW play \in {"none", "start", "stop"}, NEW film,
         NEW frame \in BOOLEAN, NEW hdr \in BOOLEAN,
         OnVideoEvent(play, frame, film, hdr)
  PROVE  IInv'
PROOF
<1> DEFINE s1 == IF play = "none" THEN pq
                 ELSE [pq EXCEPT !.playing = (play = "start")]
           s2(changed, video) ==
             IF frame /\ pq.source = "MPEG"
             THEN SetCurrentSourceInputInfo(s1, "MPEG", "video", changed, video,
                                            FALSE)
             ELSE s1
           flagged(s) == [s EXCEPT !.filmFlag = (film = "on")]
           s3(s) == IF film = "none" THEN s ELSE Cpq_SetFilmMakerMode(flagged(s))
           slot(s, type) == [s EXCEPT !.hdr = type, !.timing = Timing(type),
                                      !.settled = FALSE]
           s4(s, type) == IF hdr /\ s.hdr # type
                          THEN Cpq_SetHdrType(slot(s, type), type) ELSE s
<1>1. PICK changed \in {FALSE, frame}, video \in VideoHdr \cup {"SDR"} :
        Handle(s4(s3(s2(changed, video)),
                  Cpq_GetSourceHDRType(s3(s2(changed, video)),
                                       s3(s2(changed, video)).source, video)))
  BY DEF OnVideoEvent
<1>2. Good(s1, chosen, stranded)
  <2>1. Good(pq, chosen, stranded) /\ (play = "start") \in BOOLEAN
    BY DEF IInv
  <2>2. Good([pq EXCEPT !.playing = (play = "start")], chosen, stranded)
    BY <2>1, Fields, FrameGood DEF Good
  <2> QED BY <2>1, <2>2
<1> HIDE DEF s1
<1>3. Good(s2(changed, video), chosen, stranded)
  <2>1. changed \in BOOLEAN /\ "MPEG" \in Sources
    BY Names
  <2> QED BY <1>2, <2>1, InputInfoGood
<1>4. ASSUME NEW s, Good(s, chosen, stranded)
      PROVE  Good(s3(s), chosen, stranded)
  <2>1. (film = "on") \in BOOLEAN /\ s \in State
    BY <1>4 DEF Good
  <2>2. Good(flagged(s), chosen, stranded)
    BY <1>4, <2>1, Fields, FrameGood
  <2> QED BY <1>4, <2>2, FilmMakerGood
<1>5. ASSUME NEW s, NEW type \in HdrTypes, Good(s, chosen, stranded)
      PROVE  Good(s4(s, type), chosen, stranded)
  <2>1. s \in State /\ Timing(type) \in Timings
    BY <1>5, Names DEF Good
  <2>2. Frame(s, slot(s, type))
    BY <2>1, SlotFrame
  <2> HIDE DEF slot
  <2>3. Frame(slot(s, type), Cpq_SetHdrType(slot(s, type), type))
    BY <2>2, HdrTypeFrame DEF Frame
  <2>4. Good(Cpq_SetHdrType(slot(s, type), type), chosen, stranded)
    BY <1>5, <2>2, <2>3, FrameGood
  <2> QED BY <1>5, <2>4
<1> HIDE DEF s2, s3, s4
<1>6. Good(s3(s2(changed, video)), chosen, stranded)
  BY <1>3, <1>4
<1> DEFINE s == s3(s2(changed, video))
<1>7. Good(s4(s, Cpq_GetSourceHDRType(s, s.source, video)), chosen, stranded)
  <2> HIDE DEF s
  <2>1. Cpq_GetSourceHDRType(s, s.source, video) \in HdrTypes
    BY <1>6, SourceHDRType DEF Good, s
  <2> QED BY <1>5, <1>6, <2>1 DEF s
<1> QED BY <1>1, <1>7, HandleKeeps

LEMMA NextKeeps ==
  ASSUME IInv, [Next]_vars
  PROVE  IInv'
PROOF
<1>1. ASSUME NEW kind \in Restarts, Restart(kind) PROVE IInv'
  BY <1>1, RestartKeeps
<1>2. ASSUME NEW mode \in UserModes, NEW save \in BOOLEAN,
             SetPictureMode(mode, save)
      PROVE  IInv'
  BY <1>2, SetPictureModeKeeps
<1>3. ASSUME NEW auto \in BOOLEAN, NEW save \in BOOLEAN,
             SetFilmMakerMode(auto, save)
      PROVE  IInv'
  BY <1>3, SetFilmMakerModeKeeps
<1>4. ASSUME NEW type \in HdmiHdr \cup {"SDR"}, OnHdrChange(type) PROVE IInv'
  BY <1>4, OnHdrChangeKeeps
<1>5. ASSUME NEW hint \in Hints, NEW cinema \in Cinema,
             OnAllmOrVrrStatusChange(hint, cinema)
      PROVE  IInv'
  BY <1>5, OnAllmOrVrrKeeps
<1>6. ASSUME NEW play \in {"none", "start", "stop"},
             NEW film \in Films \cup {"none"},
             NEW frame \in BOOLEAN, NEW hdr \in BOOLEAN,
             OnVideoEvent(play, frame, film, hdr)
      PROVE  IInv'
  BY <1>6, OnVideoEventKeeps
<1>7. CASE UNCHANGED vars
  BY <1>7 DEF IInv, vars
<1> QED
  BY <1>1, <1>2, <1>3, <1>4, <1>5, <1>6, <1>7, SetObserverKeeps, ResetKeeps,
     RecoveryKeeps, SourceEventsKeep DEF Next

THEOREM Invariance == Spec => []IInv
PROOF
<1>1. Init => IInv
  BY InitKeeps
<1>2. IInv /\ [Next]_vars => IInv'
  BY NextKeeps
<1> QED BY <1>1, <1>2, PTL DEF Spec

(***************************************************************************)
(* The results.                                                            *)
(***************************************************************************)
\* CPQControl: whatever events and commands come, in either configuration,
\* every member keeps its range and every saved mode is a mode of a slot.
THEOREM TypeCorrect == Spec => []TypeOK
PROOF
<1>1. IInv => TypeOK
  BY DEF IInv, Good, TypeOK
<1> QED BY <1>1, Invariance, PTL

\* Cpq_SetPqModeToGame, Cpq_SetPqModeToFilmMaker and the commands that save
\* modes: in the new configuration a saved mode the user did not choose is
\* GAME or FILM_MAKER with its flag set, unless a restart dropped the flag.
THEOREM BooksInOrder ==
  ASSUME NewPictureMode
  PROVE  Spec => []StoredExplained
PROOF
<1>1. IInv => StoredExplained
  BY DEF IInv, Good, InOrder, Recoverable, StoredExplained, Explained, Pending
<1> QED BY <1>1, Invariance, PTL

\* SaveLastPQMode: in the new configuration the last mode of every slot, the
\* one a recovery returns to, is the mode the user chose for it.
THEOREM RecoveryTarget ==
  ASSUME NewPictureMode
  PROVE  Spec => []LastIsChosen
PROOF
<1>1. IInv => LastIsChosen
  BY DEF IInv, Good, InOrder, LastIsChosen
<1> QED BY <1>1, Invariance, PTL

(***************************************************************************)
(* The hardware, the drivers and the observer.                             *)
(***************************************************************************)
\* The hardware shows the saved mode, unless a history says it was left open.
Shown(s) == s.settled => s.shown = <<Here(s), GetPQMode(s)>>

\* Outside HDMI game mode is off, PC mode too unless it was left on before.
Off(s, left) == s.source \notin Hdmi => ~s.game /\ (s.driver.pc => "pc" \in left)

\* The observer knows the HDR type.
Told(s) == s.hdr = "NONE" \/ s.told = s.hdr \/ s.missed

\* The end of each recorded film maker mode will be noticed.
Paired(s) == \A k \in s.fmm : s.pre[k] = "on" \/ k \in s.unpaired

\* From s to t the driver's game mode was written with mGamemode, or neither.
Linked(s, t) ==
  \/ t.driver.game = t.game
  \/ t.driver.game = s.driver.game /\ t.game = s.game

\* The place, what the observer knows and the film maker modes are the same.
Apart(s, t) ==
  /\ t \in State
  /\ t.source = s.source
  /\ t.timing = s.timing
  /\ t.hdr = s.hdr
  /\ t.told = s.told
  /\ t.missed = s.missed
  /\ t.observer = s.observer
  /\ t.pre = s.pre
  /\ t.unpaired = s.unpaired
  /\ Linked(s, t)

Keeps(s, t) ==
  /\ Shown(s) => Shown(t)
  /\ \A left : Off(s, left) => Off(t, left)

Fine(s, left) ==
  /\ s \in State
  /\ Shown(s)
  /\ Off(s, left)
  /\ Told(s)
  /\ Paired(s)

LEMMA LinkedTransitive ==
  ASSUME NEW s, NEW t, NEW u, Linked(s, t), Linked(t, u)
  PROVE  Linked(s, u)
BY DEF Linked

LEMMA ApartTransitive ==
  ASSUME NEW s, NEW t, NEW u, Apart(s, t), Apart(t, u)
  PROVE  Apart(s, u)
BY LinkedTransitive DEF Apart

(***************************************************************************)
(* Saving and loading a mode.                                              *)
(***************************************************************************)
LEMMA SavedApart ==
  ASSUME NEW s \in State, NEW mode \in Modes
  PROVE  /\ Apart(s, SavePQMode(s, mode))
         /\ SavePQMode(s, mode).settled = s.settled
         /\ SavePQMode(s, mode).game = s.game
         /\ SavePQMode(s, mode).driver = s.driver
         /\ SavePQMode(s, mode).fmm = s.fmm
         /\ Apart(s, SaveLastPQMode(s, mode))
         /\ SaveLastPQMode(s, mode).settled = s.settled
         /\ SaveLastPQMode(s, mode).shown = s.shown
         /\ SaveLastPQMode(s, mode).game = s.game
         /\ SaveLastPQMode(s, mode).driver = s.driver
         /\ SaveLastPQMode(s, mode).fmm = s.fmm
PROOF
<1>1. ASSUME NEW v, [s EXCEPT !.stored = v] \in State
      PROVE  /\ Apart(s, [s EXCEPT !.stored = v])
             /\ [s EXCEPT !.stored = v].settled = s.settled
             /\ [s EXCEPT !.stored = v].game = s.game
             /\ [s EXCEPT !.stored = v].driver = s.driver
             /\ [s EXCEPT !.stored = v].fmm = s.fmm
  BY <1>1 DEF State, Apart, Linked
<1>2. ASSUME NEW v, [s EXCEPT !.last = v] \in State
      PROVE  /\ Apart(s, [s EXCEPT !.last = v])
             /\ [s EXCEPT !.last = v].settled = s.settled
             /\ [s EXCEPT !.last = v].shown = s.shown
             /\ [s EXCEPT !.last = v].game = s.game
             /\ [s EXCEPT !.last = v].driver = s.driver
             /\ [s EXCEPT !.last = v].fmm = s.fmm
  BY <1>2 DEF State, Apart, Linked
<1> DEFINE stored == [s.stored EXCEPT ![Key(s)] = mode]
           last   == [s.last EXCEPT ![Key(s)] = mode]
<1>3. SavePQMode(s, mode) = [s EXCEPT !.stored = stored]
  BY DEF SavePQMode
<1>4. SaveLastPQMode(s, mode) = [s EXCEPT !.last = last]
  BY DEF SaveLastPQMode
<1>5. SavePQMode(s, mode) \in State /\ SaveLastPQMode(s, mode) \in State
  BY SavePQModeBooks, SaveLastPQModeBooks
<1> HIDE DEF stored, last
<1>6. [s EXCEPT !.stored = stored] \in State /\ [s EXCEPT !.last = last] \in State
  BY <1>3, <1>4, <1>5
<1> QED BY <1>1, <1>2, <1>3, <1>4, <1>6

\* Game mode is written to the driver when mGamemode changes.
LEMMA SetGameModeApart ==
  ASSUME NEW s \in State, NEW on \in BOOLEAN
  PROVE  /\ Apart(s, Cpq_SetGameMode(s, on))
         /\ Cpq_SetGameMode(s, on).game = on
         /\ Cpq_SetGameMode(s, on).fmm = s.fmm
         /\ Cpq_SetGameMode(s, on).stored = s.stored
PROOF
<1>1. CASE s.game = on
  BY <1>1 DEF Cpq_SetGameMode, Apart, Linked
<1>2. CASE s.game # on
  <2> DEFINE d == [s.driver EXCEPT !.game = on]
             t == [s EXCEPT !.game = on]
             u == [t EXCEPT !.driver = d]
  <2>1. s.driver \in [game : BOOLEAN, pc : BOOLEAN]
    BY DEF State
  <2>2. d \in [game : BOOLEAN, pc : BOOLEAN] /\ d.game = on
    BY <2>1
  <2>3. Cpq_SetGameMode(s, on) = u
    BY <1>2 DEF Cpq_SetGameMode, State
  <2> HIDE DEF d
  <2>4. u \in State
    BY <2>2, Fields DEF Frame
  <2>5. u.driver = d /\ u.game = on /\ u.fmm = s.fmm /\ u.stored = s.stored
    BY DEF State
  <2>6. Linked(s, u)
    BY <2>2, <2>5 DEF Linked
  <2>7. /\ u.source = s.source /\ u.timing = s.timing /\ u.hdr = s.hdr
        /\ u.told = s.told /\ u.missed = s.missed /\ u.observer = s.observer
        /\ u.pre = s.pre /\ u.unpaired = s.unpaired
    BY DEF State
  <2> QED BY <2>3, <2>4, <2>5, <2>6, <2>7 DEF Apart
<1> QED BY <1>1, <1>2

\* A load makes the hardware and the drivers agree, whatever was before.
LEMMA LoadAgrees ==
  ASSUME NEW s \in State, NEW mode \in Modes
  PROVE  /\ Apart(s, Set_PictureMode(s, mode))
         /\ Set_PictureMode(s, mode).fmm = s.fmm
         /\ Set_PictureMode(s, mode).stored = s.stored
         /\ Shown(Set_PictureMode(s, mode))
         /\ \A left : Off(Set_PictureMode(s, mode), left)
PROOF
<1> DEFINE game == s.source \in Hdmi /\ mode = "GAME"
           pc   == s.source \in Hdmi /\ mode = "MONITOR"
           t    == Cpq_SetGameMode(s, game)
           d    == [t.driver EXCEPT !.pc = pc]
           u    == [t EXCEPT !.driver = d]
           p    == <<Here(s), mode>>
           b    == (mode = GetPQMode(s))
           w    == [[u EXCEPT !.shown = p] EXCEPT !.settled = b]
<1>1. game \in BOOLEAN /\ pc \in BOOLEAN /\ b \in BOOLEAN
      /\ (s.source \notin Hdmi => ~game /\ ~pc)
  OBVIOUS
<1>2. Set_PictureMode(s, mode) \in State
  BY Set_PictureModeFrame DEF Frame
<1>3. Set_PictureMode(s, mode) = w
  BY DEF Set_PictureMode, SetPcGameMode
<1> HIDE DEF game, pc, p, b
<1>4. Apart(s, t) /\ t.game = game /\ t.fmm = s.fmm /\ t.stored = s.stored
  BY <1>1, SetGameModeApart
<1> HIDE DEF t
<1>5. t \in State /\ t.driver \in [game : BOOLEAN, pc : BOOLEAN]
  BY <1>4 DEF Apart, State
<1>6. d.game = t.driver.game /\ d.pc = pc
  BY <1>5
<1> HIDE DEF d
<1>7. /\ w.source = t.source /\ w.timing = t.timing /\ w.hdr = t.hdr
      /\ w.told = t.told /\ w.missed = t.missed /\ w.observer = t.observer
      /\ w.pre = t.pre /\ w.unpaired = t.unpaired /\ w.fmm = t.fmm
      /\ w.stored = t.stored /\ w.game = t.game /\ w.driver = d
      /\ w.shown = p /\ w.settled = b
  BY <1>5 DEF State
<1> HIDE DEF w
<1>8. Linked(t, w)
  BY <1>6, <1>7 DEF Linked
<1>9. Apart(s, w)
  BY <1>2, <1>3, <1>4, <1>7, <1>8, LinkedTransitive DEF Apart
<1>10. w.stored = s.stored /\ w.source = s.source /\ w.timing = s.timing
  BY <1>4, <1>7, <1>9 DEF Apart
<1>11. Here(w) = Here(s) /\ GetPQMode(w) = GetPQMode(s)
  BY <1>10 DEF Here, Key, GetPQMode
<1>12. Shown(w)
  BY <1>7, <1>11 DEF Shown, p, b
<1>13. \A left : Off(w, left)
  BY <1>1, <1>4, <1>6, <1>7, <1>10 DEF Off
<1> QED BY <1>3, <1>4, <1>7, <1>9, <1>12, <1>13

LEMMA SetPQModeKeepsPanel ==
  ASSUME NEW s \in State, NEW mode \in Modes, NEW save \in BOOLEAN
  PROVE  /\ Apart(s, SetPQMode(s, mode, save))
         /\ Keeps(s, SetPQMode(s, mode, save))
         /\ SetPQMode(s, mode, save).fmm = s.fmm
PROOF
<1>1. CASE GetPQMode(s) = mode /\ ~s.reset
  BY <1>1 DEF SetPQMode, Apart, Keeps, Linked
<1>2. CASE ~(GetPQMode(s) = mode /\ ~s.reset)
  <2> DEFINE t == IF save THEN SavePQMode(s, mode) ELSE s
             u == Set_PictureMode(t, mode)
             w == [u EXCEPT !.reset = FALSE]
  <2>1. SetPQMode(s, mode, save) = w
    BY <1>2 DEF SetPQMode
  <2>2. Apart(s, t) /\ t.fmm = s.fmm
    BY SavedApart DEF Apart, Linked
  <2> HIDE DEF t
  <2>3. t \in State
    BY <2>2 DEF Apart
  <2>4. /\ Apart(t, u) /\ u.fmm = t.fmm /\ Shown(u)
        /\ \A left : Off(u, left)
    BY <2>3, LoadAgrees
  <2> HIDE DEF u
  <2>5. u \in State
    BY <2>4 DEF Apart
  <2>6. w \in State
    BY <2>5, Fields DEF Frame
  <2>7. /\ w.source = u.source /\ w.timing = u.timing /\ w.hdr = u.hdr
        /\ w.told = u.told /\ w.missed = u.missed /\ w.observer = u.observer
        /\ w.pre = u.pre /\ w.unpaired = u.unpaired /\ w.fmm = u.fmm
        /\ w.stored = u.stored /\ w.game = u.game /\ w.driver = u.driver
        /\ w.shown = u.shown /\ w.settled = u.settled
    BY <2>5 DEF State
  <2> HIDE DEF w
  <2>8. Apart(u, w)
    BY <2>6, <2>7 DEF Apart, Linked
  <2>9. Shown(w) /\ \A left : Off(w, left)
    BY <2>4, <2>7 DEF Shown, Off, GetPQMode, Key, Here
  <2>10. Apart(s, w)
    BY <2>2, <2>4, <2>8, ApartTransitive
  <2> QED BY <2>1, <2>2, <2>4, <2>7, <2>9, <2>10 DEF Keeps
<1> QED BY <1>1, <1>2

LEMMA LoadPQSettingsAgrees ==
  ASSUME NEW s \in State
  PROVE  /\ Apart(s, LoadPQSettings(s))
         /\ LoadPQSettings(s).fmm = s.fmm
         /\ Shown(LoadPQSettings(s))
         /\ \A left : Off(LoadPQSettings(s), left)
PROOF
<1> DEFINE mode == GetPQMode(s)
           t == IF NewPictureMode THEN s ELSE SaveLastPQMode(s, mode)
<1>1. mode \in Modes
  BY CurrentSlot
<1>2. LoadPQSettings(s) = Set_PictureMode(t, mode)
  BY DEF LoadPQSettings
<1> HIDE DEF mode
<1>3. Apart(s, t) /\ t.fmm = s.fmm
  BY <1>1, SavedApart DEF Apart, Linked
<1> HIDE DEF t
<1>4. t \in State
  BY <1>3 DEF Apart
<1> QED BY <1>1, <1>2, <1>3, <1>4, LoadAgrees, ApartTransitive

(***************************************************************************)
(* Game and film maker mode.                                               *)
(***************************************************************************)
\* One field of the books or of the film maker modes is set.
LEMMA BooksApart ==
  ASSUME NEW s \in State
  PROVE  /\ \A v \in SUBSET Slots :
              LET t == [s EXCEPT !.allm = v]
              IN Apart(s, t) /\ Keeps(s, t) /\ t.settled = s.settled /\ t.fmm = s.fmm
         /\ \A v \in SUBSET Slots :
              LET t == [s EXCEPT !.fmm = v]
              IN Apart(s, t) /\ Keeps(s, t) /\ t.fmm = v
PROOF
<1>1. ASSUME NEW v \in SUBSET Slots
      PROVE  LET t == [s EXCEPT !.allm = v]
             IN Apart(s, t) /\ Keeps(s, t) /\ t.settled = s.settled /\ t.fmm = s.fmm
  <2> DEFINE t == [s EXCEPT !.allm = v]
  <2>1. t \in State
    BY BookFields
  <2>2. /\ t.source = s.source /\ t.timing = s.timing /\ t.hdr = s.hdr
        /\ t.told = s.told /\ t.missed = s.missed /\ t.observer = s.observer
        /\ t.pre = s.pre /\ t.unpaired = s.unpaired /\ t.fmm = s.fmm
        /\ t.stored = s.stored /\ t.game = s.game /\ t.driver = s.driver
        /\ t.shown = s.shown /\ t.settled = s.settled
    BY DEF State
  <2> HIDE DEF t
  <2>3. Apart(s, t)
    BY <2>1, <2>2 DEF Apart, Linked
  <2>4. Keeps(s, t)
    BY <2>2 DEF Keeps, Shown, Off, GetPQMode, Key, Here
  <2> QED BY <2>2, <2>3, <2>4 DEF t
<1>2. ASSUME NEW v \in SUBSET Slots
      PROVE  LET t == [s EXCEPT !.fmm = v]
             IN Apart(s, t) /\ Keeps(s, t) /\ t.fmm = v
  <2> DEFINE t == [s EXCEPT !.fmm = v]
  <2>1. t \in State
    BY BookFields
  <2>2. /\ t.source = s.source /\ t.timing = s.timing /\ t.hdr = s.hdr
        /\ t.told = s.told /\ t.missed = s.missed /\ t.observer = s.observer
        /\ t.pre = s.pre /\ t.unpaired = s.unpaired /\ t.fmm = v
        /\ t.stored = s.stored /\ t.game = s.game /\ t.driver = s.driver
        /\ t.shown = s.shown /\ t.settled = s.settled
    BY DEF State
  <2> HIDE DEF t
  <2>3. Apart(s, t)
    BY <2>1, <2>2 DEF Apart, Linked
  <2>4. Keeps(s, t)
    BY <2>2 DEF Keeps, Shown, Off, GetPQMode, Key, Here
  <2> QED BY <2>2, <2>3, <2>4 DEF t
<1> QED BY <1>1, <1>2

\* On a signal that differs the mode is saved only: nothing has been loaded
\* for the new place yet (settled), and the caller loads it next.
LEMMA ToGameKeepsPanel ==
  ASSUME NEW s \in State, NEW differs \in BOOLEAN, NEW enabled,
         differs => ~s.settled
  PROVE  LET t == Cpq_SetPqModeToGame(s, differs, enabled)
         IN /\ Apart(s, t)
            /\ Keeps(s, t)
            /\ t.fmm = s.fmm
            /\ differs => ~t.settled
PROOF
<1> DEFINE Switch(mode) == IF differs THEN SavePQMode(s, mode)
                                      ELSE SetPQMode(s, mode, TRUE)
           here == Here(s)
<1>1. ASSUME NEW mode \in Modes
      PROVE  /\ Apart(s, Switch(mode)) /\ Keeps(s, Switch(mode))
             /\ Switch(mode).fmm = s.fmm
             /\ differs => ~Switch(mode).settled
  <2>1. CASE differs
    BY <2>1, SavedApart DEF Keeps, Shown, Off, Apart
  <2>2. CASE ~differs
    BY <2>2, SetPQModeKeepsPanel
  <2> QED BY <2>1, <2>2
<1>2. ASSUME NEW mode \in Modes, NEW v \in SUBSET Slots
      PROVE  LET t == [Switch(mode) EXCEPT !.allm = v]
             IN /\ Apart(s, t) /\ Keeps(s, t) /\ t.fmm = s.fmm
                /\ differs => ~t.settled
  <2> DEFINE u == Switch(mode)
  <2>1. Apart(s, u) /\ Keeps(s, u) /\ u.fmm = s.fmm /\ (differs => ~u.settled)
    BY <1>1
  <2> HIDE DEF u
  <2>2. u \in State
    BY <2>1 DEF Apart
  <2>3. LET t == [u EXCEPT !.allm = v]
        IN /\ Apart(u, t) /\ Keeps(u, t) /\ t.settled = u.settled /\ t.fmm = u.fmm
    BY <2>2, BooksApart
  <2>4. LET t == [u EXCEPT !.allm = v]
        IN Apart(s, t) /\ Keeps(s, t)
    BY <2>1, <2>3, ApartTransitive DEF Keeps
  <2> QED BY <2>1, <2>3, <2>4 DEF u
<1>3. Apart(s, s) /\ Keeps(s, s)
  BY DEF Apart, Keeps, Linked
<1>4. "GAME" \in Modes /\ GetLastPQMode(s) \in Modes /\ here \in Slots
  BY Names, CurrentSlot
<1>5. Cpq_SetPqModeToGame(s, differs, enabled) \in
        {s, [Switch("GAME") EXCEPT !.allm = Switch("GAME").allm \cup {here}],
            [Switch(GetLastPQMode(s)) EXCEPT
               !.allm = Switch(GetLastPQMode(s)).allm \ {here}]}
  BY DEF Cpq_SetPqModeToGame
<1> DEFINE last == GetLastPQMode(s)
           on   == Switch("GAME").allm \cup {here}
           off  == Switch(last).allm \ {here}
           t    == Cpq_SetPqModeToGame(s, differs, enabled)
<1> HIDE DEF Switch, here, last
<1>6. Switch("GAME") \in State /\ Switch(last) \in State
  BY <1>1, <1>4 DEF Apart, last
<1>7. Switch("GAME").allm \subseteq Slots /\ Switch(last).allm \subseteq Slots
  BY <1>6 DEF State
<1>8. on \in SUBSET Slots /\ off \in SUBSET Slots
  BY <1>4, <1>7
<1>9. t \in {s, [Switch("GAME") EXCEPT !.allm = on], [Switch(last) EXCEPT !.allm = off]}
  BY <1>5 DEF last
<1> HIDE DEF on, off, t
<1>10. CASE t = s
  BY <1>3, <1>10 DEF t
<1>11. CASE t = [Switch("GAME") EXCEPT !.allm = on]
  BY <1>2, <1>4, <1>8, <1>11 DEF t
<1>12. CASE t = [Switch(last) EXCEPT !.allm = off]
  BY <1>2, <1>4, <1>8, <1>12 DEF t, last
<1> QED BY <1>9, <1>10, <1>11, <1>12

\* The flag follows the film maker mode.
LEMMA ToFilmMakerKeepsPanel ==
  ASSUME NEW s \in State
  PROVE  LET t == Cpq_SetPqModeToFilmMaker(s)
         IN /\ Apart(s, t)
            /\ Keeps(s, t)
            /\ t.fmm = IF FilmMakerMode(s) THEN s.fmm \cup {Here(s)}
                                           ELSE s.fmm \ {Here(s)}
PROOF
<1> DEFINE here == Here(s)
           Switch(mode) == SetPQMode(s, mode, TRUE)
<1>1. here \in Slots /\ "FILM_MAKER" \in Modes /\ GetLastPQMode(s) \in Modes
      /\ s.fmm \subseteq Slots
  BY Names, CurrentSlot DEF State
<1>2. ASSUME NEW mode \in Modes, NEW v \in SUBSET Slots
      PROVE  LET t == [Switch(mode) EXCEPT !.fmm = v]
             IN Apart(s, t) /\ Keeps(s, t) /\ t.fmm = v
  <2> DEFINE u == Switch(mode)
  <2>1. Apart(s, u) /\ Keeps(s, u)
    BY SetPQModeKeepsPanel
  <2> HIDE DEF u
  <2>2. u \in State
    BY <2>1 DEF Apart
  <2>3. LET t == [u EXCEPT !.fmm = v]
        IN Apart(u, t) /\ Keeps(u, t) /\ t.fmm = v
    BY <2>2, BooksApart
  <2>4. LET t == [u EXCEPT !.fmm = v]
        IN Apart(s, t) /\ Keeps(s, t)
    BY <2>1, <2>3, ApartTransitive DEF Keeps
  <2> QED BY <2>3, <2>4 DEF u
<1>3. \A mode \in Modes : Switch(mode).fmm = s.fmm
  BY SetPQModeKeepsPanel
<1>4. s.fmm \cup {here} \in SUBSET Slots /\ s.fmm \ {here} \in SUBSET Slots
  BY <1>1
<1>5. CASE FilmMakerMode(s)
  <2>1. Cpq_SetPqModeToFilmMaker(s)
          = [Switch("FILM_MAKER") EXCEPT !.fmm = Switch("FILM_MAKER").fmm \cup {here}]
    BY <1>5 DEF Cpq_SetPqModeToFilmMaker
  <2> HIDE DEF Switch, here
  <2>2. Cpq_SetPqModeToFilmMaker(s)
          = [Switch("FILM_MAKER") EXCEPT !.fmm = s.fmm \cup {here}]
    BY <1>1, <1>3, <2>1
  <2> QED BY <1>1, <1>2, <1>4, <1>5, <2>2 DEF here
<1>6. CASE ~FilmMakerMode(s) /\ here \in s.fmm
  <2> DEFINE last == GetLastPQMode(s)
  <2>1. Cpq_SetPqModeToFilmMaker(s)
          = [Switch(last) EXCEPT !.fmm = Switch(last).fmm \ {here}]
    BY <1>6 DEF Cpq_SetPqModeToFilmMaker
  <2>2. last \in Modes
    BY <1>1
  <2> HIDE DEF Switch, here, last
  <2>3. Cpq_SetPqModeToFilmMaker(s) = [Switch(last) EXCEPT !.fmm = s.fmm \ {here}]
    BY <1>3, <2>1, <2>2
  <2> QED BY <1>2, <1>4, <1>6, <2>2, <2>3 DEF here
<1>7. CASE ~FilmMakerMode(s) /\ here \notin s.fmm
  <2>1. Cpq_SetPqModeToFilmMaker(s) = s /\ s.fmm = s.fmm \ {here}
    BY <1>7 DEF Cpq_SetPqModeToFilmMaker
  <2>2. Apart(s, s) /\ Keeps(s, s)
    BY DEF Apart, Keeps, Linked
  <2> QED BY <1>7, <2>1, <2>2
<1> QED BY <1>5, <1>6, <1>7

\* Besides switching, mPreFilmMakerMode follows if there is an observer.
LEMMA FilmMakerModeFine ==
  ASSUME NEW s, NEW left, Fine(s, left)
  PROVE  /\ Fine(Cpq_SetFilmMakerMode(s), left)
         /\ Linked(s, Cpq_SetFilmMakerMode(s))
PROOF
<1> DEFINE mode == IF FilmMakerMode(s) THEN "on" ELSE "off"
           done == Cpq_SetPqModeToFilmMaker(s)
           here == Here(s)
           pre  == [done.pre EXCEPT ![here] = mode]
           less == done.unpaired \ {here}
           more == (done.unpaired \cup {here}) \cap done.fmm
           t    == [[done EXCEPT !.pre = pre] EXCEPT !.unpaired = less]
           u    == [done EXCEPT !.unpaired = more]
<1>1. s \in State /\ Paired(s)
  BY DEF Fine
<1>2. /\ Apart(s, done) /\ Keeps(s, done)
      /\ done.fmm = IF FilmMakerMode(s) THEN s.fmm \cup {here} ELSE s.fmm \ {here}
  BY <1>1, ToFilmMakerKeepsPanel
<1>3. Cpq_SetFilmMakerMode(s) \in {s, t, u}
  BY DEF Cpq_SetFilmMakerMode
<1>4. here \in Slots /\ mode \in {"off", "on", "wild"} /\ (FilmMakerMode(s) => mode = "on")
  BY <1>1, CurrentSlot
<1> HIDE DEF mode, done, here
<1>5. done \in State
  BY <1>2 DEF Apart
<1>6. /\ done.pre \in [Slots -> {"off", "on", "wild"}] /\ done.pre = s.pre
      /\ done.unpaired \subseteq Slots /\ done.unpaired = s.unpaired
      /\ done.fmm \subseteq Slots
  BY <1>2, <1>5 DEF State, Apart
<1>7. ASSUME NEW w \in State,
             w.source = done.source, w.timing = done.timing, w.hdr = done.hdr,
             w.told = done.told, w.missed = done.missed, w.stored = done.stored,
             w.game = done.game, w.driver = done.driver, w.shown = done.shown,
             w.settled = done.settled, Paired(w)
      PROVE  Fine(w, left) /\ Linked(s, w)
  <2>1. Shown(w) /\ Off(w, left)
    BY <1>2, <1>7 DEF Fine, Keeps, Shown, Off, GetPQMode, Key, Here
  <2>2. Told(w)
    BY <1>2, <1>7 DEF Fine, Told, Apart
  <2>3. Linked(s, w)
    BY <1>2, <1>7 DEF Linked, Apart
  <2> QED BY <1>7, <2>1, <2>2, <2>3 DEF Fine
<1>8. Fine(t, left) /\ Linked(s, t)
  <2>1. pre \in [Slots -> {"off", "on", "wild"}] /\ less \in SUBSET Slots
    BY <1>4, <1>6
  <2>2. \A k \in Slots : pre[k] = IF k = here THEN mode ELSE s.pre[k]
    BY <1>6
  <2> HIDE DEF pre, less
  <2>3. [done EXCEPT !.pre = pre] \in State
    BY <1>5, <2>1, Fields DEF Frame
  <2>4. t \in State
    BY <2>1, <2>3, Fields DEF Frame
  <2>5. /\ t.source = done.source /\ t.timing = done.timing /\ t.hdr = done.hdr
        /\ t.told = done.told /\ t.missed = done.missed /\ t.stored = done.stored
        /\ t.game = done.game /\ t.driver = done.driver /\ t.shown = done.shown
        /\ t.settled = done.settled /\ t.fmm = done.fmm
        /\ t.pre = pre /\ t.unpaired = less
    BY <1>5 DEF State
  <2>6. \A k \in done.fmm : k # here => k \in s.fmm
    BY <1>2
  <2>7. here \in done.fmm => mode = "on"
    BY <1>2, <1>4
  <2>8. Paired(t)
    BY <1>1, <1>6, <2>2, <2>5, <2>6, <2>7 DEF Paired, less
  <2> HIDE DEF t
  <2> QED BY <1>7, <2>4, <2>5, <2>8
<1>9. Fine(u, left) /\ Linked(s, u)
  <2>1. more \in SUBSET Slots
    BY <1>6
  <2>2. \A k \in done.fmm : k = here \/ k \in done.unpaired => k \in more
    OBVIOUS
  <2> HIDE DEF more
  <2>3. u \in State
    BY <1>5, <2>1, Fields DEF Frame
  <2>4. /\ u.source = done.source /\ u.timing = done.timing /\ u.hdr = done.hdr
        /\ u.told = done.told /\ u.missed = done.missed /\ u.stored = done.stored
        /\ u.game = done.game /\ u.driver = done.driver /\ u.shown = done.shown
        /\ u.settled = done.settled /\ u.fmm = done.fmm
        /\ u.pre = done.pre /\ u.unpaired = more
    BY <1>5 DEF State
  <2>5. \A k \in done.fmm : k # here => k \in s.fmm
    BY <1>2
  <2>6. Paired(u)
    BY <1>1, <1>6, <2>2, <2>4, <2>5 DEF Paired
  <2> HIDE DEF u
  <2> QED BY <1>7, <2>3, <2>4, <2>6
<1>10. Linked(s, s)
  BY DEF Linked
<1> QED BY <1>3, <1>8, <1>9, <1>10

(***************************************************************************)
(* The current source and its HDR type.                                    *)
(***************************************************************************)
\* The observer is told, or it is missing.
LEMMA HdrTypeIsTold ==
  ASSUME NEW s \in State, NEW hdr \in HdrTypes
  PROVE  LET t == Cpq_SetHdrType(s, hdr)
         IN /\ t \in State
            /\ t.source = s.source /\ t.timing = s.timing /\ t.hdr = s.hdr
            /\ t.pre = s.pre /\ t.unpaired = s.unpaired /\ t.fmm = s.fmm
            /\ t.stored = s.stored /\ t.game = s.game /\ t.driver = s.driver
            /\ t.shown = s.shown /\ t.settled = s.settled
            /\ t.told = hdr \/ t.missed
PROOF
<1> DEFINE t == Cpq_SetHdrType(s, hdr)
<1>1. t \in State
  BY HdrTypeFrame DEF Frame
<1>2. CASE s.observer
  <2>1. t = [s EXCEPT !.told = hdr, !.missed = FALSE]
    BY <1>2 DEF Cpq_SetHdrType
  <2> QED BY <1>1, <2>1 DEF State
<1>3. CASE ~s.observer
  <2>1. t = [s EXCEPT !.missed = TRUE]
    BY <1>3 DEF Cpq_SetHdrType
  <2> QED BY <1>1, <2>1 DEF State
<1> QED BY <1>2, <1>3

LEMMA ApartKeepsTold ==
  ASSUME NEW s, NEW t, Apart(s, t), t.fmm = s.fmm
  PROVE  /\ Told(s) => Told(t)
         /\ Paired(s) => Paired(t)
BY DEF Apart, Told, Paired

LEMMA FineAfterLoad ==
  ASSUME NEW s \in State, Told(s), Paired(s), NEW left
  PROVE  /\ Fine(LoadPQSettings(s), left)
         /\ Linked(s, LoadPQSettings(s))
         /\ LoadPQSettings(s).source = s.source
BY LoadPQSettingsAgrees, ApartKeepsTold DEF Fine, Apart

\* The source is the new one; all agrees afterwards, and an exit that loads
\* nothing is only for the source that is current already.
LEMMA InputInfoFine ==
  ASSUME NEW s, NEW left, Fine(s, left),
         NEW source \in Sources, NEW signal, NEW changed \in BOOLEAN,
         NEW video \in VideoHdr \cup {"SDR"}, NEW enabled \in BOOLEAN,
         signal \in {"video", "nosignal"} \/ s.source = source
  PROVE  LET t == SetCurrentSourceInputInfo(s, source, signal, changed, video, enabled)
         IN Fine(t, left) /\ Linked(s, t) /\ t.source = source
PROOF
<1> DEFINE hdr    == Cpq_GetSourceHDRType(s, source, video)
           heard  == IF s.hdr # hdr THEN Cpq_SetHdrType(s, hdr) ELSE s
           moved  == [heard EXCEPT !.source = source, !.timing = Timing(hdr),
                                   !.hdr = hdr, !.settled = FALSE]
           gamed  == Cpq_SetPqModeToGame(moved, TRUE, enabled)
           silent == [gamed EXCEPT !.hdr = "NONE", !.hdrInfo = "SDR",
                                   !.timing = "SDR"]
           same   == Cpq_SetPqModeToGame(heard, FALSE, enabled)
           t == SetCurrentSourceInputInfo(s, source, signal, changed, video, enabled)
           differs == \/ s.source # source
                      \/ signal # "video"
                      \/ changed
                      \/ s.hdr # hdr
                      \/ s.timing # Timing(hdr)
<1>1. s \in State /\ Told(s) /\ Paired(s)
  BY DEF Fine
<1>2. hdr \in HdrTypes /\ Timing(hdr) \in Timings
  BY <1>1, SourceHDRType, Names
<1>3. /\ ~differs => t = same
      /\ differs /\ signal = "video" => t = LoadPQSettings(gamed)
      /\ differs /\ signal = "nosignal" => t = LoadPQSettings(silent)
      /\ differs /\ signal \notin {"video", "nosignal"} => t = silent
  BY DEF SetCurrentSourceInputInfo
<1>4. ~differs => s.source = source /\ heard = s
  OBVIOUS
<1> HIDE DEF hdr, t, differs
<1>5. /\ heard \in State
      /\ heard.pre = s.pre /\ heard.unpaired = s.unpaired /\ heard.fmm = s.fmm
      /\ heard.game = s.game /\ heard.driver = s.driver
      /\ hdr = "NONE" \/ heard.told = hdr \/ heard.missed
  BY <1>1, <1>2, HdrTypeIsTold DEF Told
<1>6. CASE ~differs
  <2>1. same = Cpq_SetPqModeToGame(s, FALSE, enabled)
    BY <1>4, <1>6
  <2>2. Apart(s, same) /\ Keeps(s, same) /\ same.fmm = s.fmm
    BY <1>1, <2>1, ToGameKeepsPanel
  <2> HIDE DEF same, heard, moved
  <2>3. Told(same) /\ Paired(same)
    BY <1>1, <2>2, ApartKeepsTold
  <2> QED BY <1>3, <1>4, <1>6, <2>2, <2>3 DEF Fine, Keeps, Apart, t
<1> HIDE DEF heard
<1>7. /\ moved \in State
      /\ moved.source = source /\ moved.hdr = hdr /\ moved.settled = FALSE
      /\ moved.told = heard.told /\ moved.missed = heard.missed
      /\ moved.pre = heard.pre /\ moved.unpaired = heard.unpaired
      /\ moved.fmm = heard.fmm /\ moved.game = heard.game
      /\ moved.driver = heard.driver
  <2>1. moved \in State
    BY <1>2, <1>5, SlotFrame DEF Frame
  <2> QED BY <1>5, <2>1, SMTT(30) DEF State
<1> HIDE DEF moved
<1>8. /\ Told(moved) /\ Paired(moved) /\ Linked(s, moved)
      /\ s.source = source => Off(moved, left)
  BY <1>1, <1>5, <1>7 DEF Told, Paired, Linked, Fine, Off
<1>9. /\ Apart(moved, gamed) /\ Keeps(moved, gamed) /\ gamed.fmm = moved.fmm
      /\ ~gamed.settled
  BY <1>7, ToGameKeepsPanel
<1> HIDE DEF gamed
<1>10. /\ gamed \in State /\ Told(gamed) /\ Paired(gamed) /\ Linked(s, gamed)
       /\ gamed.source = source
       /\ s.source = source => Off(gamed, left)
  BY <1>7, <1>8, <1>9, ApartKeepsTold, LinkedTransitive DEF Apart, Keeps
<1>11. /\ silent \in State
       /\ silent.source = gamed.source /\ silent.hdr = "NONE"
       /\ silent.settled = gamed.settled
       /\ silent.pre = gamed.pre /\ silent.unpaired = gamed.unpaired
       /\ silent.fmm = gamed.fmm /\ silent.game = gamed.game
       /\ silent.driver = gamed.driver
  <2>1. silent \in State
    BY <1>10, SlotFrame, Names DEF Frame
  <2> QED BY <1>10, <2>1 DEF State
<1> HIDE DEF silent
<1>12. /\ Told(silent) /\ Paired(silent) /\ Linked(gamed, silent)
       /\ Shown(silent) /\ (s.source = source => Off(silent, left))
  BY <1>9, <1>10, <1>11 DEF Told, Paired, Linked, Shown, Off
<1>13. CASE differs /\ signal = "video"
  BY <1>3, <1>10, <1>13, FineAfterLoad, LinkedTransitive DEF t
<1>14. CASE differs /\ signal = "nosignal"
  BY <1>3, <1>10, <1>11, <1>12, <1>14, FineAfterLoad, LinkedTransitive DEF t
<1>15. CASE differs /\ signal \notin {"video", "nosignal"}
  BY <1>3, <1>10, <1>11, <1>12, <1>15, LinkedTransitive DEF t, Fine
<1> QED BY <1>6, <1>13, <1>14, <1>15

\* Fields that no property is about.
LEMMA FineFields ==
  ASSUME NEW s, NEW t \in State, NEW left, Fine(s, left),
         t.source = s.source, t.timing = s.timing, t.hdr = s.hdr,
         t.told = s.told, t.missed = s.missed, t.pre = s.pre,
         t.unpaired = s.unpaired, t.fmm = s.fmm, t.stored = s.stored,
         t.game = s.game, t.driver = s.driver, t.shown = s.shown,
         t.settled = s.settled
  PROVE  Fine(t, left) /\ Linked(s, t)
PROOF
<1>1. Shown(t)
  BY DEF Fine, Shown, GetPQMode, Key, Here
<1> QED BY <1>1 DEF Fine, Off, Told, Paired, Linked

LEMMA SourceInfoFine ==
  ASSUME NEW s, NEW left, Fine(s, left),
         NEW source \in Sources, NEW stable \in BOOLEAN,
         NEW type \in HdmiHdr \cup {"SDR"},
         NEW hint \in {"no", "gated", "forced"}, NEW cinema \in BOOLEAN,
         NEW signal, NEW changed \in BOOLEAN, NEW enabled \in BOOLEAN,
         signal \in {"video", "nosignal"} \/ s.source = source
  PROVE  LET t == SetCurrenSourceInfo(s, source, stable, type, hint, cinema,
                                      signal, changed, enabled)
         IN Fine(t, left) /\ Linked(s, t)
PROOF
<1> DEFINE known  == [s EXCEPT !.stable = stable, !.type = type]
           probed == [known EXCEPT !.hint = hint, !.cinema = cinema, !.hdrInfo = type]
           placed == SetCurrentSourceInputInfo(probed, source, signal, changed,
                                               "SDR", enabled)
           t == SetCurrenSourceInfo(s, source, stable, type, hint, cinema, signal,
                                    changed, enabled)
<1>1. s \in State
  BY DEF Fine
<1>2. known \in State /\ Fine(known, left) /\ Linked(s, known) /\ known.source = s.source
  <2>1. known \in State
    BY <1>1, ZenonT(60) DEF State
  <2>2. /\ known.source = s.source /\ known.timing = s.timing /\ known.hdr = s.hdr
        /\ known.told = s.told /\ known.missed = s.missed /\ known.pre = s.pre
        /\ known.unpaired = s.unpaired /\ known.fmm = s.fmm /\ known.stored = s.stored
        /\ known.game = s.game /\ known.driver = s.driver /\ known.shown = s.shown
        /\ known.settled = s.settled
    BY <1>1 DEF State
  <2> HIDE DEF known
  <2> QED BY <2>1, <2>2, FineFields
<1>3. t \in {known, Cpq_SetFilmMakerMode(placed)}
  BY DEF SetCurrenSourceInfo
<1> HIDE DEF known, t
<1>4. Fine(probed, left) /\ Linked(known, probed) /\ probed.source = s.source
  <2> DEFINE u == [known EXCEPT !.hint = hint]
             v == [u EXCEPT !.cinema = cinema]
  <2>3. u \in State
    BY <1>2, Fields DEF Frame
  <2>4. v \in State
    BY <2>3, Fields DEF Frame
  <2>1. probed \in State
    BY <2>4, Fields DEF Frame
  <2>2. /\ probed.source = known.source /\ probed.timing = known.timing
        /\ probed.hdr = known.hdr /\ probed.told = known.told
        /\ probed.missed = known.missed /\ probed.pre = known.pre
        /\ probed.unpaired = known.unpaired /\ probed.fmm = known.fmm
        /\ probed.stored = known.stored /\ probed.game = known.game
        /\ probed.driver = known.driver /\ probed.shown = known.shown
        /\ probed.settled = known.settled
    BY <1>2 DEF State
  <2> HIDE DEF probed
  <2> QED BY <1>2, <2>1, <2>2, FineFields
<1> HIDE DEF probed
<1>5. Fine(placed, left) /\ Linked(probed, placed)
  BY <1>4, InputInfoFine
<1> HIDE DEF placed
<1>6. /\ Fine(Cpq_SetFilmMakerMode(placed), left)
      /\ Linked(placed, Cpq_SetFilmMakerMode(placed))
  BY <1>5, FilmMakerModeFine
<1>7. Linked(s, Cpq_SetFilmMakerMode(placed))
  BY <1>2, <1>4, <1>5, <1>6, LinkedTransitive
<1> QED BY <1>2, <1>3, <1>6, <1>7 DEF t

(***************************************************************************)
(* Steps.                                                                  *)
(***************************************************************************)
PanelInv ==
  /\ Fine(pq, inherited)
  /\ \/ pq.driver.game = pq.game
     \/ "game" \in inherited /\ pq.driver.game

\* What a step forgets of inherited are modes the drivers have off.
LEMMA StepPanel ==
  ASSUME PanelInv, NEW s, NEW modes, Step(s, modes),
         Fine(s, inherited), Linked(pq, s)
  PROVE  PanelInv'
PROOF
<1>1. /\ pq' = s
      /\ "pc" \in inherited' <=> "pc" \in inherited /\ s.driver.pc
      /\ "game" \in inherited' <=> "game" \in inherited /\ s.driver.game
  BY DEF Step
<1>2. Fine(s, inherited')
  BY <1>1 DEF Fine, Off
<1>3. Fine(pq, inherited)'
  BY <1>1, <1>2 DEF Fine, Shown, Off, Told, Paired, GetPQMode, Key, Here
<1>4. \/ s.driver.game = s.game
      \/ "game" \in inherited /\ s.driver.game
  BY DEF PanelInv, Linked
<1> QED BY <1>1, <1>3, <1>4 DEF PanelInv

LEMMA HandlePanel ==
  ASSUME PanelInv, NEW s, Handle(s), Fine(s, inherited), Linked(pq, s)
  PROVE  PanelInv'
BY StepPanel DEF Handle

LEMMA BootFine ==
  ASSUME NEW saved, NEW driver \in [game : BOOLEAN, pc : BOOLEAN],
         NEW memory \in Memories,
         saved.stored \in [Slots -> Modes], saved.last \in [Slots -> Modes],
         saved.autoFilm \in BOOLEAN
  PROVE  /\ \A left : (driver.pc => "pc" \in left)
                     => Fine(Boot(saved, driver, memory), left)
         /\ Boot(saved, driver, memory).driver = driver
         /\ Boot(saved, driver, memory).game = FALSE
PROOF
<1> DEFINE t == Boot(saved, driver, memory)
           here == <<"MPEG", "SDR">>
           filled == IF memory.flag THEN Slots ELSE {}
<1>1. t \in State
  BY BootState
<1>2. /\ t.source = "MPEG" /\ t.timing = "SDR" /\ t.hdr = "SDR" /\ t.told = "SDR"
      /\ t.fmm = filled /\ t.unpaired = filled /\ t.game = FALSE
      /\ t.driver = driver /\ t.stored = saved.stored
      /\ t.shown = <<here, saved.stored[here]>>
  BY DEF Boot
<1> HIDE DEF t
<1>3. Here(t) = here /\ Key(t) = here
  BY <1>2 DEF Here, Key
<1>4. Shown(t)
  BY <1>2, <1>3 DEF Shown, GetPQMode
<1>5. /\ Told(t) /\ Paired(t)
      /\ \A left : (driver.pc => "pc" \in left) => Off(t, left)
  BY <1>2 DEF Off, Told, Paired
<1> QED BY <1>1, <1>2, <1>4, <1>5 DEF Fine, t

LEMMA InitPanel == Init => PanelInv
PROOF
<1> SUFFICES ASSUME Init PROVE PanelInv
  OBVIOUS
<1> DEFINE saved == [stored |-> Factory, last |-> Factory, autoFilm |-> FALSE]
           driver == [game |-> FALSE, pc |-> FALSE]
<1>1. PICK memory \in Memories : pq = Boot(saved, driver, memory)
  BY DEF Init
<1>2. /\ saved.stored \in [Slots -> Modes] /\ saved.last \in [Slots -> Modes]
      /\ saved.autoFilm \in BOOLEAN
      /\ driver \in [game : BOOLEAN, pc : BOOLEAN]
      /\ driver.pc = FALSE /\ driver.game = FALSE
  BY FactoryType
<1> HIDE DEF saved, driver
<1>3. /\ Fine(pq, inherited) /\ pq.driver = driver /\ pq.game = FALSE
  BY <1>1, <1>2, BootFine
<1> QED BY <1>2, <1>3 DEF PanelInv

LEMMA RestartPanel ==
  ASSUME PanelInv, NEW kind \in Restarts, Restart(kind)
  PROVE  PanelInv'
PROOF
<1> DEFINE driver == IF kind = "power" THEN [game |-> FALSE, pc |-> FALSE]
                                       ELSE pq.driver
<1>1. PICK memory \in Memories : pq' = Boot(pq, driver, memory)
  BY DEF Restart
<1>2. /\ pq.stored \in [Slots -> Modes] /\ pq.last \in [Slots -> Modes]
      /\ pq.autoFilm \in BOOLEAN
      /\ driver \in [game : BOOLEAN, pc : BOOLEAN]
  BY DEF PanelInv, Fine, State
<1> DEFINE t == Boot(pq, driver, memory)
<1> HIDE DEF driver
<1>3. /\ \A left : (driver.pc => "pc" \in left) => Fine(t, left)
      /\ t.driver = driver /\ t.game = FALSE
  BY <1>2, BootFine
<1> HIDE DEF t
<1>4. inherited' = {mode \in {"game", "pc"} : t.driver[mode]} /\ pq' = t
  BY <1>1 DEF Restart, t
<1>5. /\ "pc" \in inherited' <=> driver.pc
      /\ "game" \in inherited' <=> driver.game
  BY <1>3, <1>4
<1>6. Fine(t, inherited')
  BY <1>3, <1>5
<1>7. Fine(pq, inherited)'
  BY <1>4, <1>6 DEF Fine, Shown, Off, Told, Paired, GetPQMode, Key, Here
<1>8. \/ t.driver.game = t.game
      \/ "game" \in inherited' /\ t.driver.game
  <2>1. PICK g \in BOOLEAN : driver.game = g
    BY <1>2
  <2>2. CASE g
    BY <1>3, <1>5, <2>1, <2>2
  <2>3. CASE ~g
    BY <1>3, <2>1, <2>3
  <2> QED BY <2>2, <2>3
<1> QED BY <1>4, <1>7, <1>8 DEF PanelInv

LEMMA SetObserverPanel ==
  ASSUME PanelInv, SetObserver
  PROVE  PanelInv'
PROOF
<1> DEFINE t == [pq EXCEPT !.observer = TRUE]
<1>1. pq' = t /\ inherited' = inherited /\ pq \in State
  BY DEF SetObserver, PanelInv, Fine
<1>2. t \in State
  BY <1>1, Fields DEF Frame
<1>3. /\ t.source = pq.source /\ t.timing = pq.timing /\ t.hdr = pq.hdr
      /\ t.told = pq.told /\ t.missed = pq.missed /\ t.pre = pq.pre
      /\ t.unpaired = pq.unpaired /\ t.fmm = pq.fmm /\ t.stored = pq.stored
      /\ t.game = pq.game /\ t.driver = pq.driver /\ t.shown = pq.shown
      /\ t.settled = pq.settled
  BY <1>1 DEF State
<1> HIDE DEF t
<1>4. Fine(t, inherited)
  BY <1>2, <1>3, FineFields DEF PanelInv
<1>5. Fine(pq, inherited)'
  BY <1>1, <1>4 DEF Fine, Shown, Off, Told, Paired, GetPQMode, Key, Here
<1> QED BY <1>1, <1>3, <1>5 DEF PanelInv

LEMMA SetPictureModePanel ==
  ASSUME PanelInv, NEW mode \in UserModes, NEW save \in BOOLEAN,
         SetPictureMode(mode, save)
  PROVE  PanelInv'
PROOF
<1> DEFINE set == SetPQMode(pq, mode, save)
           both == SaveLastPQMode(set, mode)
<1>1. mode \in Modes /\ Fine(pq, inherited) /\ pq \in State
  BY DEF Modes, PanelInv, Fine
<1>2. Apart(pq, set) /\ Keeps(pq, set) /\ set.fmm = pq.fmm
  BY <1>1, SetPQModeKeepsPanel
<1>3. (save /\ \E modes : Step(both, modes)) \/ (~save /\ \E modes : Step(set, modes))
  BY DEF SetPictureMode
<1> HIDE DEF set
<1>4. set \in State /\ Fine(set, inherited) /\ Linked(pq, set)
  BY <1>1, <1>2, ApartKeepsTold DEF Fine, Keeps, Apart
<1>5. Fine(both, inherited) /\ Linked(pq, both)
  <2>1. /\ Apart(set, both) /\ both.settled = set.settled /\ both.shown = set.shown
        /\ both.game = set.game /\ both.driver = set.driver /\ both.fmm = set.fmm
    BY <1>1, <1>4, SavedApart
  <2>2. both.stored = set.stored
    BY <1>1, <1>4, SaveLastPQModeBooks
  <2> HIDE DEF both
  <2>3. Shown(both) /\ Off(both, inherited)
    BY <1>4, <2>1, <2>2 DEF Fine, Shown, Off, Apart, GetPQMode, Key, Here
  <2>4. Told(both) /\ Paired(both)
    BY <1>4, <2>1, ApartKeepsTold DEF Fine
  <2> QED BY <1>4, <2>1, <2>3, <2>4, LinkedTransitive DEF Fine, Apart
<1> HIDE DEF both
<1> QED BY <1>3, <1>4, <1>5, StepPanel

\* What was saved is erased or reset, and nothing is loaded.
LEMMA ErasedFine ==
  ASSUME NEW s, NEW t \in State, NEW left, Fine(s, left),
         t.source = s.source, t.hdr = s.hdr, t.told = s.told,
         t.missed = s.missed, t.pre = s.pre, t.unpaired = s.unpaired,
         t.fmm = s.fmm, t.game = s.game, t.driver = s.driver,
         t.settled = FALSE
  PROVE  Fine(t, left) /\ Linked(s, t)
BY DEF Fine, Shown, Off, Told, Paired, Linked

LEMMA ResetPanel ==
  ASSUME PanelInv, ResetCurSrcPqUiSetting
  PROVE  PanelInv'
PROOF
<1> DEFINE Reset(modes) ==
             [k \in Slots |-> IF NewPictureMode /\ k[1] = pq.source
                               THEN DefaultMode(k) ELSE modes[k]]
           t == [pq EXCEPT !.stored = Reset(pq.stored)]
           u == [t EXCEPT !.last = Reset(pq.last)]
           w == [u EXCEPT !.reset = TRUE]
           s == [w EXCEPT !.settled = FALSE]
<1>1. pq \in State /\ pq.stored \in [Slots -> Modes] /\ pq.last \in [Slots -> Modes]
  BY DEF PanelInv, Fine, State
<1>2. \A k \in Slots : DefaultMode(k) \in Modes
  BY Names DEF DefaultMode
<1>3. Step(s, Reset(chosen))
  BY DEF ResetCurSrcPqUiSetting
<1>4. Reset(pq.stored) \in [Slots -> Modes] /\ Reset(pq.last) \in [Slots -> Modes]
  BY <1>1, <1>2
<1> HIDE DEF Reset
<1>5. t \in State
  BY <1>1, <1>4, BookFields
<1>6. u \in State
  BY <1>4, <1>5, BookFields
<1>7. w \in State
  BY <1>6, Fields DEF Frame
<1>8. s \in State
  BY <1>7, Fields DEF Frame
<1>9. /\ s.source = pq.source /\ s.hdr = pq.hdr /\ s.told = pq.told
      /\ s.missed = pq.missed /\ s.pre = pq.pre /\ s.unpaired = pq.unpaired
      /\ s.fmm = pq.fmm /\ s.game = pq.game /\ s.driver = pq.driver
      /\ s.settled = FALSE
  BY <1>1 DEF State
<1> HIDE DEF s
<1>10. Fine(s, inherited) /\ Linked(pq, s)
  BY <1>8, <1>9, ErasedFine DEF PanelInv
<1> QED BY <1>3, <1>10, StepPanel

LEMMA RecoveryPanel ==
  ASSUME PanelInv, SSMRecovery
  PROVE  PanelInv'
PROOF
<1> DEFINE t == [pq EXCEPT !.stored = Factory]
           u == [t EXCEPT !.last = Factory]
           w == [u EXCEPT !.autoFilm = FALSE]
           s == [w EXCEPT !.settled = FALSE]
<1>1. pq \in State
  BY DEF PanelInv, Fine
<1>2. Step(s, Factory)
  BY DEF SSMRecovery
<1>3. t \in State
  BY <1>1, FactoryType, BookFields
<1>4. u \in State
  BY <1>3, FactoryType, BookFields
<1>5. w \in State
  BY <1>4, Fields DEF Frame
<1>6. s \in State
  BY <1>5, Fields DEF Frame
<1>7. /\ s.source = pq.source /\ s.hdr = pq.hdr /\ s.told = pq.told
      /\ s.missed = pq.missed /\ s.pre = pq.pre /\ s.unpaired = pq.unpaired
      /\ s.fmm = pq.fmm /\ s.game = pq.game /\ s.driver = pq.driver
      /\ s.settled = FALSE
  BY <1>1 DEF State
<1> HIDE DEF s
<1>8. Fine(s, inherited) /\ Linked(pq, s)
  BY <1>6, <1>7, ErasedFine DEF PanelInv
<1> QED BY <1>2, <1>8, StepPanel

LEMMA SetFilmMakerModePanel ==
  ASSUME PanelInv, NEW auto \in BOOLEAN, NEW save \in BOOLEAN,
         SetFilmMakerMode(auto, save)
  PROVE  PanelInv'
PROOF
<1> DEFINE t == [pq EXCEPT !.autoFilm = auto]
           s == IF save THEN t ELSE pq
<1>1. pq \in State /\ Fine(pq, inherited)
  BY DEF PanelInv, Fine
<1>2. Fine(t, inherited) /\ Linked(pq, t)
  <2>1. t \in State
    BY <1>1, Fields DEF Frame
  <2>2. /\ t.source = pq.source /\ t.timing = pq.timing /\ t.hdr = pq.hdr
        /\ t.told = pq.told /\ t.missed = pq.missed /\ t.pre = pq.pre
        /\ t.unpaired = pq.unpaired /\ t.fmm = pq.fmm /\ t.stored = pq.stored
        /\ t.game = pq.game /\ t.driver = pq.driver /\ t.shown = pq.shown
        /\ t.settled = pq.settled
    BY <1>1 DEF State
  <2> HIDE DEF t
  <2> QED BY <1>1, <2>1, <2>2, FineFields
<1>3. Step(Cpq_SetFilmMakerMode(s), chosen)
  BY DEF SetFilmMakerMode
<1> HIDE DEF t
<1>4. Fine(s, inherited) /\ Linked(pq, s)
  BY <1>1, <1>2 DEF Linked
<1> HIDE DEF s
<1>5. /\ Fine(Cpq_SetFilmMakerMode(s), inherited)
      /\ Linked(pq, Cpq_SetFilmMakerMode(s))
  BY <1>4, FilmMakerModeFine, LinkedTransitive
<1> QED BY <1>3, <1>5, StepPanel

\* Events that lead to the source handler alone.
LEMMA SourceEventsPanel ==
  ASSUME PanelInv,
         \/ \E source \in Sources : SetCurrentSource(source)
         \/ \E source \in Hdmi \cup Tuner, stable \in BOOLEAN :
              OnSigStatusChange(source, stable)
         \/ StopVdin
         \/ OnTXStatusChange
  PROVE  PanelInv'
PROOF
<1> DEFINE left == inherited
<1>1. /\ Fine(pq, left) /\ pq \in State
      /\ pq.source \in Sources /\ "MPEG" \in Sources
      /\ \A source \in Hdmi \cup Tuner : source \in Sources
  BY Names DEF PanelInv, Fine, State, Sources
<1>2. ASSUME NEW source \in Sources, SetCurrentSource(source)
      PROVE  PanelInv'
  <2>1. PICK changed \in BOOLEAN, enabled \in BOOLEAN,
             video \in VideoHdr \cup {"SDR"} :
          Handle(SetCurrentSourceInputInfo(pq, source, "video", changed, video,
                                           enabled))
    BY <1>2 DEF SetCurrentSource
  <2> QED BY <1>1, <2>1, InputInfoFine, HandlePanel
<1>3. ASSUME NEW source \in Hdmi \cup Tuner, NEW stable \in BOOLEAN,
             OnSigStatusChange(source, stable)
      PROVE  PanelInv'
  <2>1. PICK type \in IF source \in Hdmi THEN HdmiHdr \cup {"SDR"} ELSE {"SDR"},
             hint \in IF stable THEN Hints ELSE {pq.hint},
             cinema \in IF stable THEN Cinema ELSE {pq.cinema},
             signal \in {"video", "nosignal"}, enabled \in BOOLEAN :
          \E changed \in {TRUE, signal # "video"} :
            Handle(SetCurrenSourceInfo(pq, source, stable, type, hint, cinema,
                                       signal, changed, enabled))
    BY <1>3 DEF OnSigStatusChange
  <2>2. PICK changed \in {TRUE, signal # "video"} :
          Handle(SetCurrenSourceInfo(pq, source, stable, type, hint, cinema,
                                     signal, changed, enabled))
    BY <2>1
  <2>3. /\ type \in HdmiHdr \cup {"SDR"} /\ changed \in BOOLEAN
        /\ hint \in {"no", "gated", "forced"} /\ cinema \in BOOLEAN
    BY <1>1, <2>1, <2>2, InputAssumption DEF State
  <2>4. source \in Sources
    BY <1>1
  <2>5. LET t == SetCurrenSourceInfo(pq, source, stable, type, hint, cinema, signal,
                                     changed, enabled)
        IN Fine(t, left) /\ Linked(pq, t)
    BY <1>1, <2>3, <2>4, SourceInfoFine
  <2> QED BY <2>2, <2>5, HandlePanel
<1>4. ASSUME StopVdin
      PROVE  PanelInv'
  <2>1. PICK hint \in Hints, cinema \in Cinema, changed \in BOOLEAN,
             video \in VideoHdr \cup {"SDR"} :
          Handle(SetCurrenSourceInfo(
            SetCurrentSourceInputInfo(pq, "MPEG", "video", changed, video, FALSE),
            "MPEG", FALSE, "SDR", hint, cinema, "exit", TRUE, FALSE))
    BY <1>4 DEF StopVdin
  <2> DEFINE quit == SetCurrentSourceInputInfo(pq, "MPEG", "video", changed, video,
                                               FALSE)
  <2>2. Fine(quit, left) /\ Linked(pq, quit) /\ quit.source = "MPEG"
    <3>1. ASSUME NEW enabled \in BOOLEAN
          PROVE  LET t == SetCurrentSourceInputInfo(pq, "MPEG", "video", changed,
                                                    video, enabled)
                 IN Fine(t, left) /\ Linked(pq, t) /\ t.source = "MPEG"
      BY <1>1, InputInfoFine
    <3> QED BY <3>1
  <2> HIDE DEF quit
  <2>3. /\ "SDR" \in HdmiHdr \cup {"SDR"}
        /\ hint \in {"no", "gated", "forced"} /\ cinema \in BOOLEAN
    BY InputAssumption
  <2>4. LET t == SetCurrenSourceInfo(quit, "MPEG", FALSE, "SDR", hint, cinema,
                                     "exit", TRUE, FALSE)
        IN Fine(t, left) /\ Linked(quit, t)
    BY <1>1, <2>2, <2>3, SourceInfoFine
  <2>5. Linked(pq, SetCurrenSourceInfo(quit, "MPEG", FALSE, "SDR", hint, cinema,
                                       "exit", TRUE, FALSE))
    BY <2>2, <2>4, LinkedTransitive
  <2> QED BY <2>1, <2>4, <2>5, HandlePanel DEF quit
<1>5. ASSUME OnTXStatusChange
      PROVE  PanelInv'
  <2>1. PICK changed \in BOOLEAN, enabled \in BOOLEAN,
             video \in VideoHdr \cup {"SDR"} :
          Handle(SetCurrentSourceInputInfo(pq, pq.source, "video", changed, video,
                                           enabled))
    BY <1>5 DEF OnTXStatusChange
  <2> QED BY <1>1, <2>1, InputInfoFine, HandlePanel
<1> QED BY <1>2, <1>3, <1>4, <1>5

LEMMA OnHdrChangePanel ==
  ASSUME PanelInv, NEW type \in HdmiHdr \cup {"SDR"}, OnHdrChange(type)
  PROVE  PanelInv'
PROOF
<1> DEFINE left == inherited
           s == [pq EXCEPT !.hdrInfo = type]
           Moved(changed, enabled) ==
             SetCurrentSourceInputInfo(s, pq.source, "video", changed, "SDR", enabled)
           t(changed, enabled) ==
             IF pq.source \in Hdmi /\ pq.hdrInfo # type
             THEN Moved(changed, enabled) ELSE pq
<1>1. Fine(pq, left) /\ pq \in State /\ pq.source \in Sources
  BY DEF PanelInv, Fine, State
<1>2. PICK changed \in BOOLEAN, enabled \in BOOLEAN :
        Handle([t(changed, enabled) EXCEPT !.type = type])
  BY DEF OnHdrChange
<1>3. Fine(s, left) /\ Linked(pq, s)
  <2>1. s \in State
    BY <1>1, Fields DEF Frame
  <2>2. /\ s.source = pq.source /\ s.timing = pq.timing /\ s.hdr = pq.hdr
        /\ s.told = pq.told /\ s.missed = pq.missed /\ s.pre = pq.pre
        /\ s.unpaired = pq.unpaired /\ s.fmm = pq.fmm /\ s.stored = pq.stored
        /\ s.game = pq.game /\ s.driver = pq.driver /\ s.shown = pq.shown
        /\ s.settled = pq.settled
    BY <1>1 DEF State
  <2> HIDE DEF s
  <2> QED BY <1>1, <2>1, <2>2, FineFields
<1> HIDE DEF s
<1>4. Fine(Moved(changed, enabled), left) /\ Linked(pq, Moved(changed, enabled))
  BY <1>1, <1>3, InputInfoFine, LinkedTransitive
<1> HIDE DEF Moved
<1>5. Fine(t(changed, enabled), left) /\ Linked(pq, t(changed, enabled))
  BY <1>1, <1>4 DEF Linked
<1> DEFINE u == t(changed, enabled)
           w == [u EXCEPT !.type = type]
<1> HIDE DEF t, u
<1>6. Fine(w, left) /\ Linked(u, w)
  <2>1. u \in State /\ Fine(u, left)
    BY <1>5 DEF Fine, u
  <2>2. w \in State
    BY <2>1, Fields DEF Frame
  <2>3. /\ w.source = u.source /\ w.timing = u.timing /\ w.hdr = u.hdr
        /\ w.told = u.told /\ w.missed = u.missed /\ w.pre = u.pre
        /\ w.unpaired = u.unpaired /\ w.fmm = u.fmm /\ w.stored = u.stored
        /\ w.game = u.game /\ w.driver = u.driver /\ w.shown = u.shown
        /\ w.settled = u.settled
    BY <2>1 DEF State
  <2> HIDE DEF w
  <2> QED BY <1>1, <2>1, <2>2, <2>3, FineFields
<1>7. Linked(pq, w)
  BY <1>5, <1>6, LinkedTransitive DEF u
<1> QED BY <1>2, <1>6, <1>7, HandlePanel DEF u

LEMMA OnAllmOrVrrPanel ==
  ASSUME PanelInv, NEW hint \in Hints, NEW cinema \in Cinema,
         OnAllmOrVrrStatusChange(hint, cinema)
  PROVE  PanelInv'
PROOF
<1> DEFINE left == inherited
           t == [pq EXCEPT !.hint = hint]
           s == [t EXCEPT !.cinema = cinema]
<1>1. Fine(pq, left) /\ pq \in State
  BY DEF PanelInv, Fine
<1>2. hint \in {"no", "gated", "forced"} /\ cinema \in BOOLEAN
  BY InputAssumption
<1>3. PICK ok \in BOOLEAN, enabled \in BOOLEAN :
        Handle(IF ok THEN Cpq_SetFilmMakerMode(Cpq_SetPqModeToGame(s, FALSE, enabled))
                     ELSE s)
  BY DEF OnAllmOrVrrStatusChange
<1>4. Fine(s, left) /\ Linked(pq, s)
  <2>1. t \in State
    BY <1>1, <1>2, Fields DEF Frame
  <2>2. s \in State
    BY <1>2, <2>1, Fields DEF Frame
  <2>3. /\ s.source = pq.source /\ s.timing = pq.timing /\ s.hdr = pq.hdr
        /\ s.told = pq.told /\ s.missed = pq.missed /\ s.pre = pq.pre
        /\ s.unpaired = pq.unpaired /\ s.fmm = pq.fmm /\ s.stored = pq.stored
        /\ s.game = pq.game /\ s.driver = pq.driver /\ s.shown = pq.shown
        /\ s.settled = pq.settled
    BY <1>1 DEF State
  <2> HIDE DEF s
  <2> QED BY <1>1, <2>2, <2>3, FineFields
<1> HIDE DEF s
<1> DEFINE gamed == Cpq_SetPqModeToGame(s, FALSE, enabled)
<1>5. Fine(gamed, left) /\ Linked(s, gamed)
  <2>1. s \in State
    BY <1>4 DEF Fine
  <2>2. Apart(s, gamed) /\ Keeps(s, gamed) /\ gamed.fmm = s.fmm
    BY <2>1, ToGameKeepsPanel
  <2> HIDE DEF gamed
  <2> QED BY <1>1, <1>4, <2>2, ApartKeepsTold DEF Fine, Keeps, Apart
<1> HIDE DEF gamed
<1>6. /\ Fine(Cpq_SetFilmMakerMode(gamed), left)
      /\ Linked(gamed, Cpq_SetFilmMakerMode(gamed))
  BY <1>1, <1>5, FilmMakerModeFine
<1>7. Linked(pq, Cpq_SetFilmMakerMode(gamed))
  BY <1>4, <1>5, <1>6, LinkedTransitive
<1> QED BY <1>3, <1>4, <1>6, <1>7, HandlePanel DEF gamed

LEMMA OnVideoEventPanel ==
  ASSUME PanelInv, NEW play \in {"none", "start", "stop"}, NEW film,
         NEW frame \in BOOLEAN, NEW hdr \in BOOLEAN,
         OnVideoEvent(play, frame, film, hdr)
  PROVE  PanelInv'
PROOF
<1> DEFINE left == inherited
           started == [pq EXCEPT !.playing = (play = "start")]
           s1 == IF play = "none" THEN pq ELSE started
           s2(changed, video) ==
             IF frame /\ pq.source = "MPEG"
             THEN SetCurrentSourceInputInfo(s1, "MPEG", "video", changed, video,
                                            FALSE)
             ELSE s1
           flagged(s) == [s EXCEPT !.filmFlag = (film = "on")]
           s3(s) == IF film = "none" THEN s ELSE Cpq_SetFilmMakerMode(flagged(s))
           slot(s, type) == [s EXCEPT !.hdr = type, !.timing = Timing(type),
                                      !.settled = FALSE]
           s4(s, type) == IF hdr /\ s.hdr # type
                          THEN Cpq_SetHdrType(slot(s, type), type) ELSE s
<1>1. PICK changed \in {FALSE, frame}, video \in VideoHdr \cup {"SDR"} :
        Handle(s4(s3(s2(changed, video)),
                  Cpq_GetSourceHDRType(s3(s2(changed, video)),
                                       s3(s2(changed, video)).source, video)))
  BY DEF OnVideoEvent
<1>2. Fine(pq, left) /\ pq \in State
  BY DEF PanelInv, Fine
<1>3. Fine(s1, left) /\ Linked(pq, s1)
  <2>1. (play = "start") \in BOOLEAN
    OBVIOUS
  <2>2. started \in State
    BY <1>2, <2>1, Fields DEF Frame
  <2>3. /\ started.source = pq.source /\ started.timing = pq.timing
        /\ started.hdr = pq.hdr /\ started.told = pq.told
        /\ started.missed = pq.missed /\ started.pre = pq.pre
        /\ started.unpaired = pq.unpaired /\ started.fmm = pq.fmm
        /\ started.stored = pq.stored /\ started.game = pq.game
        /\ started.driver = pq.driver /\ started.shown = pq.shown
        /\ started.settled = pq.settled
    BY <1>2 DEF State
  <2> HIDE DEF started
  <2>4. Fine(started, left) /\ Linked(pq, started)
    BY <1>2, <2>2, <2>3, FineFields
  <2> QED BY <1>2, <2>4 DEF Linked
<1> HIDE DEF s1
<1>4. Fine(s2(changed, video), left) /\ Linked(pq, s2(changed, video))
  <2>1. changed \in BOOLEAN /\ "MPEG" \in Sources
    BY Names
  <2> QED BY <1>2, <1>3, <2>1, InputInfoFine, LinkedTransitive
<1>5. ASSUME NEW s, Fine(s, left)
      PROVE  Fine(s3(s), left) /\ Linked(s, s3(s))
  <2> DEFINE t == flagged(s)
  <2>1. (film = "on") \in BOOLEAN /\ s \in State
    BY <1>5 DEF Fine
  <2>2. t \in State
    BY <2>1, Fields DEF Frame
  <2>3. /\ t.source = s.source /\ t.timing = s.timing /\ t.hdr = s.hdr
        /\ t.told = s.told /\ t.missed = s.missed /\ t.pre = s.pre
        /\ t.unpaired = s.unpaired /\ t.fmm = s.fmm /\ t.stored = s.stored
        /\ t.game = s.game /\ t.driver = s.driver /\ t.shown = s.shown
        /\ t.settled = s.settled
    BY <2>1 DEF State
  <2>4. s3(s) = IF film = "none" THEN s ELSE Cpq_SetFilmMakerMode(t)
    OBVIOUS
  <2> HIDE DEF t, s3
  <2>5. Fine(t, left) /\ Linked(s, t)
    BY <1>2, <1>5, <2>2, <2>3, FineFields
  <2>6. Fine(Cpq_SetFilmMakerMode(t), left) /\ Linked(t, Cpq_SetFilmMakerMode(t))
    BY <1>2, <2>5, FilmMakerModeFine
  <2>7. Linked(s, s)
    BY DEF Linked
  <2> QED BY <1>5, <2>4, <2>5, <2>6, <2>7, LinkedTransitive
<1>6. ASSUME NEW s, NEW type \in HdrTypes, Fine(s, left)
      PROVE  Fine(s4(s, type), left) /\ Linked(s, s4(s, type))
  <2> DEFINE t == slot(s, type)
             u == Cpq_SetHdrType(t, type)
  <2>1. s \in State /\ Timing(type) \in Timings
    BY <1>6, Names, SMTT(30) DEF Fine
  <2>2. t \in State
    BY <2>1, SlotFrame DEF Frame
  <2>3. /\ t.source = s.source /\ t.hdr = type /\ t.settled = FALSE
        /\ t.pre = s.pre /\ t.unpaired = s.unpaired /\ t.fmm = s.fmm
        /\ t.game = s.game /\ t.driver = s.driver
    BY <2>1, <2>2 DEF State
  <2>4. s4(s, type) = IF hdr /\ s.hdr # type THEN u ELSE s
    OBVIOUS
  <2> HIDE DEF t
  <2>5. /\ u \in State
        /\ u.source = t.source /\ u.hdr = t.hdr
        /\ u.pre = t.pre /\ u.unpaired = t.unpaired /\ u.fmm = t.fmm
        /\ u.game = t.game /\ u.driver = t.driver /\ u.settled = t.settled
        /\ u.told = type \/ u.missed
    BY <2>2, HdrTypeIsTold
  <2> HIDE DEF u, s4
  <2>6. Told(u) /\ Paired(u) /\ Shown(u) /\ Off(u, left) /\ Linked(s, u)
    BY <1>6, <2>3, <2>5 DEF Fine, Told, Paired, Shown, Off, Linked
  <2>7. Linked(s, s)
    BY DEF Linked
  <2> QED BY <1>6, <2>4, <2>5, <2>6, <2>7 DEF Fine
<1> HIDE DEF s2, s3, s4
<1> DEFINE s == s3(s2(changed, video))
<1>7. Fine(s, left) /\ Linked(pq, s)
  BY <1>4, <1>5, LinkedTransitive
<1>8. LET t == s4(s, Cpq_GetSourceHDRType(s, s.source, video))
      IN Fine(t, left) /\ Linked(pq, t)
  <2> HIDE DEF s
  <2>1. Cpq_GetSourceHDRType(s, s.source, video) \in HdrTypes
    BY <1>7, SourceHDRType DEF Fine
  <2> QED BY <1>6, <1>7, <2>1, LinkedTransitive
<1> QED BY <1>1, <1>8, HandlePanel

LEMMA NextPanel ==
  ASSUME PanelInv, [Next]_vars
  PROVE  PanelInv'
PROOF
<1>1. ASSUME NEW kind \in Restarts, Restart(kind) PROVE PanelInv'
  BY <1>1, RestartPanel
<1>2. ASSUME NEW mode \in UserModes, NEW save \in BOOLEAN,
             SetPictureMode(mode, save)
      PROVE  PanelInv'
  BY <1>2, SetPictureModePanel
<1>3. ASSUME NEW auto \in BOOLEAN, NEW save \in BOOLEAN,
             SetFilmMakerMode(auto, save)
      PROVE  PanelInv'
  BY <1>3, SetFilmMakerModePanel
<1>4. ASSUME NEW type \in HdmiHdr \cup {"SDR"}, OnHdrChange(type) PROVE PanelInv'
  BY <1>4, OnHdrChangePanel
<1>5. ASSUME NEW hint \in Hints, NEW cinema \in Cinema,
             OnAllmOrVrrStatusChange(hint, cinema)
      PROVE  PanelInv'
  BY <1>5, OnAllmOrVrrPanel
<1>6. ASSUME NEW play \in {"none", "start", "stop"},
             NEW film \in Films \cup {"none"},
             NEW frame \in BOOLEAN, NEW hdr \in BOOLEAN,
             OnVideoEvent(play, frame, film, hdr)
      PROVE  PanelInv'
  BY <1>6, OnVideoEventPanel
<1>7. ASSUME UNCHANGED vars
      PROVE  PanelInv'
  BY <1>7 DEF PanelInv, vars, Fine, Shown, Off, Told, Paired, GetPQMode, Key, Here
<1> QED
  BY <1>1, <1>2, <1>3, <1>4, <1>5, <1>6, <1>7, SetObserverPanel, ResetPanel,
     RecoveryPanel, SourceEventsPanel DEF Next

THEOREM PanelInvariance == Spec => []PanelInv
PROOF
<1>1. Init => PanelInv
  BY InitPanel
<1>2. PanelInv /\ [Next]_vars => PanelInv'
  BY NextPanel
<1> QED BY <1>1, <1>2, PTL DEF Spec

(***************************************************************************)
(* The results.                                                            *)
(***************************************************************************)
\* Set_PictureMode, LoadPQSettings and whatever saves a mode: once a load has
\* put the saved mode of the current slot on the hardware, every path that
\* changes that mode loads it too, until an event moves the slot without a
\* load, the settings are erased or a mode is shown without being saved.
THEOREM HardwareAgrees == Spec => []ShownIsStored
PROOF
<1>1. PanelInv => ShownIsStored
  BY DEF PanelInv, Fine, Shown, ShownIsStored
<1> QED BY <1>1, PanelInvariance, PTL

\* SetPcGameMode, Cpq_SetGameMode and the load at the start: a source that is
\* not HDMI never runs with game or PC mode, and mGamemode is the driver's game
\* mode, but for a mode that an earlier run of the service left on.
THEOREM DriversAgree == Spec => []GameOffElsewhere
PROOF
<1>1. PanelInv => GameOffElsewhere
  BY DEF PanelInv, Fine, Off, GameOffElsewhere
<1> QED BY <1>1, PanelInvariance, PTL

\* Cpq_SetHdrType and its callers: the HDR type the service works with is the
\* last one it told the observer, unless there was none to tell.
THEOREM ObserverInformed == Spec => []HdrTold
PROOF
<1>1. PanelInv => HdrTold
  BY DEF PanelInv, Fine, Told, HdrTold
<1> QED BY <1>1, PanelInvariance, PTL

\* Cpq_SetFilmMakerMode: a recorded film maker mode never meets a remembered
\* "off", at which its end would be taken for nothing new.
THEOREM FilmMakerEnds == Spec => []FilmMakerRecoverable
PROOF
<1>1. PanelInv => FilmMakerRecoverable
  BY DEF PanelInv, Fine, Paired, FilmMakerRecoverable
<1> QED BY <1>1, PanelInvariance, PTL
=============================================================================
