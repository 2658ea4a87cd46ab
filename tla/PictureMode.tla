----------------------------- MODULE PictureMode -----------------------------
(***************************************************************************)
(* Which picture mode the panel shows: the core of CPQControl.             *)
(*                                                                         *)
(* The service keeps a saved mode and a "last" mode per slot, a source and *)
(* a timing (dynamic range).  The user saves modes; the vdin uevents, the  *)
(* HDMI TX event and the video poll event move the current slot, switch    *)
(* game and film maker mode on by themselves and later go back to the last *)
(* mode.  A handler runs here as one step; it is the composition of the    *)
(* functions it calls, each an operator from a state record to the next.   *)
(*                                                                         *)
(* Data left out: formats (only "differs from the recorded one"), picture  *)
(* parameters (only which mode of which slot was loaded).  A slot without  *)
(* saved mode reads the slot PQ_SRC_DEFAULT, PQ_FMT_DEFAULT, which holds   *)
(* STANDARD and which no handler writes; here it holds STANDARD itself.    *)
(***************************************************************************)
EXTENDS Naturals, FiniteSets

CONSTANTS
  Hdmi,            \* the HDMI sources, "HDMI1" .. "HDMI4"
  Tuner,           \* sources without HDR and without game mode, as "TV"
  VideoHdr,        \* HDR types the video layer reports for MPEG
  HdmiHdr,         \* HDR types an HDMI signal carries
  Hints,           \* game hints of a source, of "no", "gated", "forced"
  Cinema,          \* whether a source announces cinema content
  Films,           \* film maker flags of the video layer, of "on", "off"
  UserModes,       \* modes the user asks for
  NewPictureMode,  \* mbCpqCfg_new_picture_mode_enable
  Memories,        \* what uninitialised members hold, see Boot
  Restarts         \* restarts that happen, of "power", "process"

Sources == {"MPEG"} \cup Hdmi \cup Tuner

Modes == UserModes \cup {"STANDARD", "GAME", "MONITOR", "FILM_MAKER", "DOLVI_BRIGHT"}

HdrTypes == {"SDR"} \cup VideoHdr \cup HdmiHdr

\* CheckPQTimming: types without a timing of their own get PQ_FMT_DEFAULT.
Timing(hdr) ==
  IF hdr \in {"SDR", "HDR10", "HDR10PLUS", "DOVI", "HLG"} THEN hdr ELSE "DEFAULT"

Timings == {Timing(hdr) : hdr \in HdrTypes}

Slots == Sources \X Timings

ASSUME SourceAssumption ==
  /\ "MPEG" \notin Hdmi \cup Tuner
  /\ Hdmi \cap Tuner = {}
ASSUME InputAssumption ==
  /\ NewPictureMode \in BOOLEAN
  /\ Cinema \subseteq BOOLEAN
  /\ Hints \subseteq {"no", "gated", "forced"}
  /\ Films \subseteq {"on", "off"}
  /\ Memories \subseteq [flag : BOOLEAN, pre : {"off", "on", "wild"}]
  /\ Restarts \subseteq {"power", "process"}

VARIABLES
  pq,         \* the members of CPQControl, the settings file and the drivers
  chosen,     \* per slot: the mode the user last saved or reset it to (history)
  stranded,   \* slots whose pending recovery was forgotten (history)
  inherited   \* driver modes an earlier run of the service left on (history)

vars == <<pq, chosen, stranded, inherited>>

(***************************************************************************)
(* The state record.                                                       *)
(***************************************************************************)
State ==
  [source   : Sources,                  \* mCurrentSourceInputInfo, CurSource
   timing   : Timings,                  \* CurTimming
   hdr      : HdrTypes \cup {"NONE"},   \* mCurrentHdrType
   hdrInfo  : HdmiHdr \cup {"SDR"},     \* mCurrentTvinInfo.hdr_info
   hint     : {"no", "gated", "forced"},\* mCurrentTvinInfo: is it a game
   cinema   : BOOLEAN,                  \* mCurrentTvinInfo: cn_type == CINEMA
   stable   : BOOLEAN,                  \* mCurrentSignalInfo: its status
   type     : HdmiHdr \cup {"SDR"},     \* mCurrentSignalInfo: signal_type
   playing  : BOOLEAN,                  \* mbVideoIsPlaying
   filmFlag : BOOLEAN,                  \* mbFilmmakerModeFlag
   reset    : BOOLEAN,                  \* mbResetPicture
   allm     : SUBSET Slots,             \* aAllmSrcFmtFlag
   fmm      : SUBSET Slots,             \* aFmmSrcFmtFlag
   pre      : [Slots -> {"off", "on", "wild"}],  \* mPreFilmMakerMode
   game     : BOOLEAN,                  \* mGamemode
   observer : BOOLEAN,                  \* mpObserver != NULL
   stored   : [Slots -> Modes],         \* settings file: picture mode
   last     : [Slots -> Modes],         \* settings file: last picture mode
   autoFilm : BOOLEAN,                  \* settings file: film maker mode AUTO
   driver   : [game : BOOLEAN, pc : BOOLEAN],    \* vdin game mode, pc mode
   shown    : Slots \X Modes,           \* slot and mode loaded to the hardware
   told     : HdrTypes,                 \* last HDR type the observer got
   missed   : BOOLEAN,                  \* told is old: there was no observer
   settled  : BOOLEAN,                  \* history: shown is the saved mode
   unpaired : SUBSET Slots]             \* history: fmm set, pre left behind

Here(s) == <<s.source, s.timing>>

\* The settings of the old configuration are per source only.
Key(s) == IF NewPictureMode THEN Here(s) ELSE <<s.source, "SDR">>

\* resetPQUiSetting, ResetPictureModeBySrc: the mode of a slot after a reset.
DefaultMode(k) ==
  IF NewPictureMode /\ k[2] = "DOVI" THEN "DOLVI_BRIGHT" ELSE "STANDARD"

GetPQMode(s)     == s.stored[Key(s)]
GetLastPQMode(s) == s.last[Key(s)]

SavePQMode(s, mode)     == [s EXCEPT !.stored[Key(s)] = mode]
SaveLastPQMode(s, mode) == [s EXCEPT !.last[Key(s)] = mode]

(***************************************************************************)
(* Loading a mode.                                                         *)
(***************************************************************************)
\* The driver is written only when the copy in mGamemode changes.
Cpq_SetGameMode(s, on) ==
  IF s.game = on THEN s ELSE [s EXCEPT !.game = on, !.driver.game = on]

\* A bug the checks must notice: other sources leave the drivers alone.
SetPcGameModeHdmiOnly(s, mode) ==
  IF s.source \in Hdmi
  THEN [Cpq_SetGameMode(s, mode = "GAME") EXCEPT !.driver.pc = (mode = "MONITOR")]
  ELSE s

SetPcGameMode(s, mode) ==
  [Cpq_SetGameMode(s, s.source \in Hdmi /\ mode = "GAME")
     EXCEPT !.driver.pc = (s.source \in Hdmi /\ mode = "MONITOR")]

Set_PictureMode(s, mode) ==
  [SetPcGameMode(s, mode) EXCEPT !.shown = <<Here(s), mode>>,
                                 !.settled = (mode = GetPQMode(s))]

SetPQMode(s, mode, save) ==
  IF GetPQMode(s) = mode /\ ~s.reset
  THEN s
  ELSE [Set_PictureMode(IF save THEN SavePQMode(s, mode) ELSE s, mode)
          EXCEPT !.reset = FALSE]

\* A bug the checks must notice: the last mode is saved in the new
\* configuration too.
LoadPQSettingsAlways(s) ==
  Set_PictureMode(SaveLastPQMode(s, GetPQMode(s)), GetPQMode(s))

LoadPQSettings(s) ==
  Set_PictureMode(IF NewPictureMode THEN s ELSE SaveLastPQMode(s, GetPQMode(s)),
                  GetPQMode(s))

(***************************************************************************)
(* Game and film maker mode.                                               *)
(***************************************************************************)
\* IsAllmVrrGameMode: "gated" content counts while the switches of the UI,
\* read at the call, are on; Dolby ALLM is "forced".
GameMode(s, enabled) ==
  \/ s.hint = "forced"
  \/ s.hint = "gated" /\ enabled

\* Three bugs the checks must notice: a new signal's game mode is not
\* recorded; recovery forgets the source's other timings; the mode is saved
\* only, on a known signal too.
Cpq_SetPqModeToGameUnrecorded(s, differs, enabled) ==
  LET Switch(mode) == IF differs THEN SavePQMode(s, mode)
                                 ELSE SetPQMode(s, mode, TRUE)
  IN IF s.source \notin Hdmi THEN s
     ELSE IF GameMode(s, enabled)
          THEN [Switch("GAME") EXCEPT
                  !.allm = IF differs THEN @ ELSE @ \cup {Here(s)}]
     ELSE IF Here(s) \in s.allm
          THEN [Switch(GetLastPQMode(s)) EXCEPT !.allm = @ \ {Here(s)}]
     ELSE s

Cpq_SetPqModeToGamePerSource(s, differs, enabled) ==
  LET Switch(mode) == IF differs THEN SavePQMode(s, mode)
                                 ELSE SetPQMode(s, mode, TRUE)
  IN IF s.source \notin Hdmi THEN s
     ELSE IF GameMode(s, enabled)
          THEN [Switch("GAME") EXCEPT !.allm = @ \cup {Here(s)}]
     ELSE IF Here(s) \in s.allm
          THEN [Switch(GetLastPQMode(s)) EXCEPT
                  !.allm = {k \in @ : k[1] # s.source}]
     ELSE s

Cpq_SetPqModeToGameSavedOnly(s, differs, enabled) ==
  IF s.source \notin Hdmi THEN s
  ELSE IF GameMode(s, enabled)
       THEN [SavePQMode(s, "GAME") EXCEPT !.allm = @ \cup {Here(s)}]
  ELSE IF Here(s) \in s.allm
       THEN [SavePQMode(s, GetLastPQMode(s)) EXCEPT !.allm = @ \ {Here(s)}]
  ELSE s

Cpq_SetPqModeToGame(s, differs, enabled) ==
  LET Switch(mode) == IF differs THEN SavePQMode(s, mode)
                                 ELSE SetPQMode(s, mode, TRUE)
  IN IF s.source \notin Hdmi THEN s
     ELSE IF GameMode(s, enabled)
          THEN [Switch("GAME") EXCEPT !.allm = @ \cup {Here(s)}]
     ELSE IF Here(s) \in s.allm
          THEN [Switch(GetLastPQMode(s)) EXCEPT !.allm = @ \ {Here(s)}]
     ELSE s

FilmMakerMode(s) ==
  /\ s.autoFilm
  /\ \/ s.source \in Hdmi /\ s.cinema
     \/ s.source = "MPEG" /\ s.filmFlag

\* A bug the checks must notice: the flag is dropped without recovery.
Cpq_SetPqModeToFilmMakerUnrecovered(s) ==
  IF FilmMakerMode(s)
  THEN [SetPQMode(s, "FILM_MAKER", TRUE) EXCEPT !.fmm = @ \cup {Here(s)}]
  ELSE [s EXCEPT !.fmm = @ \ {Here(s)}]

Cpq_SetPqModeToFilmMaker(s) ==
  IF FilmMakerMode(s)
  THEN [SetPQMode(s, "FILM_MAKER", TRUE) EXCEPT !.fmm = @ \cup {Here(s)}]
  ELSE IF Here(s) \in s.fmm
       THEN [SetPQMode(s, GetLastPQMode(s), TRUE) EXCEPT !.fmm = @ \ {Here(s)}]
       ELSE s

\* A bug the checks must notice: the mode is never remembered.
Cpq_SetFilmMakerModeForgotten(s) ==
  IF s.pre[Here(s)] = (IF FilmMakerMode(s) THEN "on" ELSE "off") THEN s
  ELSE Cpq_SetPqModeToFilmMaker(s)

\* Without an observer the new mode is not remembered in mPreFilmMakerMode.
Cpq_SetFilmMakerMode(s) ==
  LET mode == IF FilmMakerMode(s) THEN "on" ELSE "off"
      done == Cpq_SetPqModeToFilmMaker(s)
  IN IF s.pre[Here(s)] = mode THEN s
     ELSE IF s.observer
          THEN [done EXCEPT !.pre[Here(s)] = mode, !.unpaired = @ \ {Here(s)}]
     ELSE [done EXCEPT !.unpaired = (@ \cup {Here(s)}) \cap done.fmm]

(***************************************************************************)
(* The current source and its HDR type.                                    *)
(***************************************************************************)
\* video is what the video layer reports when it is asked.
Cpq_GetSourceHDRType(s, source, video) ==
  IF source = "MPEG" THEN IF s.playing THEN video ELSE "SDR"
  ELSE IF source \in Hdmi THEN s.hdrInfo
  ELSE "SDR"

\* Two bugs the checks must notice: the type before the change is told; the
\* observer is not called.
Cpq_SetHdrTypeBefore(s, hdr) ==
  IF s.observer THEN [s EXCEPT !.told = s.hdr, !.missed = FALSE]
                ELSE [s EXCEPT !.missed = TRUE]

Cpq_SetHdrTypeUntold(s, hdr) == s

Cpq_SetHdrType(s, hdr) ==
  IF s.observer THEN [s EXCEPT !.told = hdr, !.missed = FALSE]
                ELSE [s EXCEPT !.missed = TRUE]

\* A bug the checks must notice: the settings are loaded before game mode is
\* decided.
SetCurrentSourceInputInfoLoadFirst(s, source, signal, changed, video, enabled) ==
  LET hdr     == Cpq_GetSourceHDRType(s, source, video)
      heard   == IF s.hdr # hdr THEN Cpq_SetHdrType(s, hdr) ELSE s
      differs == \/ s.source # source
                 \/ signal # "video"
                 \/ changed
                 \/ s.hdr # hdr
                 \/ s.timing # Timing(hdr)
      moved   == [heard EXCEPT !.source = source, !.timing = Timing(hdr),
                               !.hdr = hdr, !.settled = FALSE]
      Silent(r) == [r EXCEPT !.hdr = "NONE", !.hdrInfo = "SDR", !.timing = "SDR"]
  IN IF ~differs THEN Cpq_SetPqModeToGame(heard, FALSE, enabled)
     ELSE IF signal = "video"
          THEN Cpq_SetPqModeToGame(LoadPQSettings(moved), TRUE, enabled)
     ELSE IF signal = "nosignal"
          THEN Cpq_SetPqModeToGame(LoadPQSettings(Silent(moved)), TRUE, enabled)
     ELSE Silent(Cpq_SetPqModeToGame(moved, TRUE, enabled))

\* signal: "video", "exit" (TVIN_SIG_FMT_NULL) or "nosignal" (_MAX);
\* changed: the format or the output type differs from the recorded one.
SetCurrentSourceInputInfo(s, source, signal, changed, video, enabled) ==
  LET hdr     == Cpq_GetSourceHDRType(s, source, video)
      heard   == IF s.hdr # hdr THEN Cpq_SetHdrType(s, hdr) ELSE s
      differs == \/ s.source # source
                 \/ signal # "video"
                 \/ changed
                 \/ s.hdr # hdr
                 \/ s.timing # Timing(hdr)
      moved   == [heard EXCEPT !.source = source, !.timing = Timing(hdr),
                               !.hdr = hdr, !.settled = FALSE]
      gamed   == Cpq_SetPqModeToGame(moved, TRUE, enabled)
      silent  == [gamed EXCEPT !.hdr = "NONE", !.hdrInfo = "SDR", !.timing = "SDR"]
  IN IF ~differs THEN Cpq_SetPqModeToGame(heard, FALSE, enabled)
     ELSE IF signal = "video" THEN LoadPQSettings(gamed)
     ELSE IF signal = "nosignal" THEN LoadPQSettings(silent)
     ELSE silent

\* A signal that differs from the recorded one; for an equal one nothing is
\* done.  source is the one of its port.
SetCurrenSourceInfo(s, source, stable, type, hint, cinema, signal, changed, enabled) ==
  LET known  == [s EXCEPT !.stable = stable, !.type = type]
      probed == [known EXCEPT !.hint = hint, !.cinema = cinema, !.hdrInfo = type]
  IN IF source = "MPEG" \/ stable
     THEN Cpq_SetFilmMakerMode(
            SetCurrentSourceInputInfo(probed, source, signal, changed, "SDR",
                                      enabled))
     ELSE known

(***************************************************************************)
(* Starting the service.                                                   *)
(***************************************************************************)
\* The constructor leaves the two flag arrays and mPreFilmMakerMode
\* uninitialised: memory is what they then hold, alike in every slot.
Boot(saved, driver, memory) ==
  LET here   == <<"MPEG", "SDR">>
      mode   == saved.stored[here]
      filled == IF memory.flag THEN Slots ELSE {}
  IN [source |-> "MPEG", timing |-> "SDR", hdr |-> "SDR", hdrInfo |-> "SDR",
      hint |-> "no", cinema |-> FALSE,
      stable |-> FALSE, type |-> "SDR",
      playing |-> FALSE, filmFlag |-> FALSE, reset |-> FALSE,
      allm |-> filled, fmm |-> filled, pre |-> [k \in Slots |-> memory.pre],
      game |-> FALSE, observer |-> FALSE, stored |-> saved.stored,
      last |-> IF NewPictureMode THEN saved.last
               ELSE [saved.last EXCEPT ![here] = mode],
      autoFilm |-> saved.autoFilm, driver |-> driver, shown |-> <<here, mode>>,
      told |-> "SDR", missed |-> FALSE, settled |-> TRUE, unpaired |-> filled]

Factory == [k \in Slots |-> DefaultMode(k)]

Init ==
  /\ \E memory \in Memories :
       pq = Boot([stored |-> Factory, last |-> Factory, autoFilm |-> FALSE],
                 [game |-> FALSE, pc |-> FALSE], memory)
  /\ chosen = Factory
  /\ stranded = {}
  /\ inherited = {}

\* PqService calls setObserver after CPQControlInit started the threads.
SetObserver ==
  /\ ~pq.observer
  /\ pq' = [pq EXCEPT !.observer = TRUE]
  /\ UNCHANGED <<chosen, stranded, inherited>>

\* The settings file survives; the drivers survive unless the power goes.
Restart(kind) ==
  /\ \E memory \in Memories :
       pq' = Boot(pq, IF kind = "power" THEN [game |-> FALSE, pc |-> FALSE]
                                        ELSE pq.driver,
                  memory)
  /\ stranded' = stranded \cup {k \in Slots : pq.stored[k] # chosen[k]}
  /\ inherited' = {mode \in {"game", "pc"} : pq'.driver[mode]}
  /\ UNCHANGED chosen

(***************************************************************************)
(* Commands of the user.                                                   *)
(***************************************************************************)
\* The step to s, after which the user's choices are modes.
Step(s, modes) ==
  /\ pq' = s
  /\ chosen' = modes
  /\ stranded' = {k \in stranded : s.stored[k] # modes[k]}
  /\ inherited' = {mode \in inherited : s.driver[mode]}

\* PQ_SET_PICTURE_MODE.
SetPictureMode(mode, save) ==
  LET set == SetPQMode(pq, mode, save)
  IN IF save THEN Step(SaveLastPQMode(set, mode), [chosen EXCEPT ![Key(pq)] = mode])
             ELSE Step(set, chosen)

\* PQ_SET_PICTURE_UI_CLEAR; it resets the slots of the new configuration.
ResetCurSrcPqUiSetting ==
  LET Reset(modes) ==
        [k \in Slots |-> IF NewPictureMode /\ k[1] = pq.source
                          THEN DefaultMode(k) ELSE modes[k]]
  IN Step([pq EXCEPT !.stored = Reset(@), !.last = Reset(@), !.reset = TRUE,
                    !.settled = FALSE],
         Reset(chosen))

\* PQ_SET_RECOVERYPQ: everything saved is erased, nothing is loaded.
SSMRecovery ==
  Step([pq EXCEPT !.stored = Factory, !.last = Factory, !.autoFilm = FALSE,
                 !.settled = FALSE],
      Factory)

\* PQ_SET_FILM_MAKER_MODE.
SetFilmMakerMode(auto, save) ==
  Step(Cpq_SetFilmMakerMode(IF save THEN [pq EXCEPT !.autoFilm = auto] ELSE pq),
      chosen)

(***************************************************************************)
(* Events.                                                                 *)
(***************************************************************************)
Handle(s) == Step(s, chosen)

\* PQ_SET_SOURCE_CHANNEL.
SetCurrentSource(source) ==
  \E changed, enabled \in BOOLEAN, video \in VideoHdr \cup {"SDR"} :
    Handle(SetCurrentSourceInputInfo(pq, source, "video", changed, video, enabled))

\* TVIN_SIG_CHG_STS.  The frontend reports its own ports, and a stable
\* signal has a format or is TVIN_SIG_FMT_MAX, which is never the recorded
\* format.  The driver is asked for game and cinema content if it is stable.
OnSigStatusChange(source, stable) ==
  \E type \in IF source \in Hdmi THEN HdmiHdr \cup {"SDR"} ELSE {"SDR"},
     hint \in IF stable THEN Hints ELSE {pq.hint},
     cinema \in IF stable THEN Cinema ELSE {pq.cinema},
     signal \in {"video", "nosignal"}, enabled \in BOOLEAN :
    \E changed \in {TRUE, signal # "video"} :
      Handle(SetCurrenSourceInfo(pq, source, stable, type, hint, cinema, signal,
                                 changed, enabled))

\* TVIN_SIG_CHG_SDR2HDR and the like.
OnHdrChange(type) ==
  /\ pq.stable
  /\ pq.type # type
  /\ \E changed, enabled \in BOOLEAN :
       LET s == [pq EXCEPT !.hdrInfo = type]
           t == IF pq.source \in Hdmi /\ pq.hdrInfo # type
                THEN SetCurrentSourceInputInfo(s, pq.source, "video", changed,
                                               "SDR", enabled)
                ELSE pq
       IN Handle([t EXCEPT !.type = type])

\* TVIN_SIG_CHG_DV_ALLM, TVIN_SIG_CHG_VRR; one of the two ioctls may fail.
OnAllmOrVrrStatusChange(hint, cinema) ==
  \E ok, enabled \in BOOLEAN :
    LET s == [pq EXCEPT !.hint = hint, !.cinema = cinema]
    IN Handle(IF ok THEN Cpq_SetFilmMakerMode(Cpq_SetPqModeToGame(s, FALSE, enabled))
                    ELSE s)

\* TVIN_SIG_CHG_CLOSE_FE, and any uevent whose ioctl fails.
StopVdin ==
  \E hint \in Hints, cinema \in Cinema, changed \in BOOLEAN,
     video \in VideoHdr \cup {"SDR"} :
    LET left == SetCurrentSourceInputInfo(pq, "MPEG", "video", changed, video, FALSE)
    IN Handle(SetCurrenSourceInfo(left, "MPEG", FALSE, "SDR", hint, cinema, "exit",
                                  TRUE, FALSE))

OnTXStatusChange ==
  \E changed, enabled \in BOOLEAN, video \in VideoHdr \cup {"SDR"} :
    Handle(SetCurrentSourceInputInfo(pq, pq.source, "video", changed, video, enabled))

\* onVframeSizeChange: play, frame, film and hdr are the flags of the event.
OnVideoEvent(play, frame, film, hdr) ==
  \E changed \in {FALSE, frame}, video \in VideoHdr \cup {"SDR"} :
    LET s1 == IF play = "none" THEN pq
              ELSE [pq EXCEPT !.playing = (play = "start")]
        s2 == IF frame /\ pq.source = "MPEG"
              THEN SetCurrentSourceInputInfo(s1, "MPEG", "video", changed, video,
                                             FALSE)
              ELSE s1
        s3 == IF film = "none" THEN s2
              ELSE Cpq_SetFilmMakerMode([s2 EXCEPT !.filmFlag = (film = "on")])
        type == Cpq_GetSourceHDRType(s3, s3.source, video)
    IN Handle(IF hdr /\ s3.hdr # type
              THEN Cpq_SetHdrType([s3 EXCEPT !.hdr = type, !.timing = Timing(type),
                                             !.settled = FALSE], type)
              ELSE s3)

Next ==
  \/ SetObserver
  \/ \E kind \in Restarts : Restart(kind)
  \/ \E mode \in UserModes, save \in BOOLEAN : SetPictureMode(mode, save)
  \/ ResetCurSrcPqUiSetting
  \/ SSMRecovery
  \/ \E auto, save \in BOOLEAN : SetFilmMakerMode(auto, save)
  \/ \E source \in Sources : SetCurrentSource(source)
  \/ \E source \in Hdmi \cup Tuner, stable \in BOOLEAN :
        OnSigStatusChange(source, stable)
  \/ \E type \in HdmiHdr \cup {"SDR"} : OnHdrChange(type)
  \/ \E hint \in Hints, cinema \in Cinema : OnAllmOrVrrStatusChange(hint, cinema)
  \/ StopVdin
  \/ OnTXStatusChange
  \/ \E play \in {"none", "start", "stop"}, film \in Films \cup {"none"},
        frame, hdr \in BOOLEAN : OnVideoEvent(play, frame, film, hdr)

Spec == Init /\ [][Next]_vars

(***************************************************************************)
(* Properties.                                                             *)
(***************************************************************************)
\* The state has its type.
TypeOK ==
  /\ pq \in State
  /\ chosen \in [Slots -> Modes]
  /\ stranded \subseteq Slots
  /\ inherited \subseteq {"game", "pc"}

\* A slot's saved mode is the one the user chose for it, unless game or film
\* maker mode put another there and is recorded as having to be undone.
Pending(slots, k) ==
  IF NewPictureMode THEN k \in slots ELSE \E j \in slots : j[1] = k[1]

Explained(k) ==
  \/ pq.stored[k] = chosen[k]
  \/ pq.stored[k] = "GAME" /\ Pending(pq.allm, k)
  \/ pq.stored[k] = "FILM_MAKER" /\ Pending(pq.fmm, k)

StoredExplained == \A k \in Slots : Explained(k) \/ k \in stranded

\* The last mode of a slot, the one game and film maker mode return to, is the
\* mode the user chose for it: no automatic mode replaces it.
LastIsChosen == pq.last = chosen

\* While nothing moved the slot or the settings without loading them, the
\* hardware shows the saved mode of the current slot.
ShownIsStored == pq.settled => pq.shown = <<Here(pq), GetPQMode(pq)>>

\* A film maker mode that has to be undone is one whose end will be noticed:
\* mPreFilmMakerMode still says "on", unless the observer was missing.
FilmMakerRecoverable ==
  \A k \in pq.fmm : pq.pre[k] = "on" \/ k \in pq.unpaired

\* Outside HDMI mGamemode is off, and so are the driver's game and PC mode
\* unless an earlier run of the service left them on: the load at the start
\* writes neither (mInitialized).
GameOffElsewhere ==
  /\ pq.source \notin Hdmi => ~pq.game /\ (pq.driver.pc => "pc" \in inherited)
  /\ pq.driver.game = pq.game \/ "game" \in inherited

\* The observer knows the HDR type the service works with.
HdrTold == pq.hdr = "NONE" \/ pq.told = pq.hdr \/ pq.missed

(***************************************************************************)
(* What a comment of the code says, and a run refutes.                     *)
(***************************************************************************)
\* CPQControl.cpp:8581: the slot a game mode was set for is remembered for the
\* recovery.  Here over every restart, and in every configuration.
RecoveryRemembered == \A k \in Slots : Explained(k)
=============================================================================
