-------------------------- MODULE PictureSettings --------------------------
(***************************************************************************)
(* The setters of the single settings (SettingRows), the change of picture *)
(* mode and the change of source, run by the threads that run them: binder *)
(* threads call setters, SetPQMode and SetCurrentSource, the event thread  *)
(* calls SetCurrentSourceInputInfo.  Only the last two take                *)
(* PqControlMutex.  A call is what is left of its program, a sequence of   *)
(* accesses to the settings file, to the panel and to the members.         *)
(*                                                                         *)
(* The process may be killed; the constructor of the next one loads the    *)
(* settings of the default source before a thread is started.              *)
(***************************************************************************)
EXTENDS SettingRows, Sequences, FiniteSets

CONSTANTS
    Binders,      \* binder threads of the service
    Event,        \* the thread that reports signal changes
    Main,         \* the thread that constructs CPQControl
    Nobody,       \* no thread
    Signals,      \* source and timing pairs of the inputs
    BootSignal,   \* what the constructor assumes
    Ntsc,         \* the signals in the NTSC format on a tuner or AV source
    Hdmi,         \* the HDMI sources
    Modes,        \* picture modes
    Saves,        \* values of is_save in use
    SettingGroups,\* bound: the settings used together
    Configs,      \* sets of configuration flags
    MaxCalls,     \* bound: calls
    MaxKills      \* bound: restarts of the process

ASSUME SettingAssumption ==
    /\ BootSignal \in Signals /\ Ntsc \subseteq Signals /\ BootSignal \notin Ntsc
    /\ \A g \in Signals : <<g[1], "SDR">> \in Signals  \* left, a source falls back to SDR
    /\ Modes \subseteq Nat /\ 0 \in Modes
    /\ Main \notin Binders \cup {Event}
    /\ Nobody \notin Binders \cup {Event, Main}
    /\ Saves \subseteq BOOLEAN /\ \A g \in SettingGroups : g \subseteq AllSettings
    /\ MaxCalls \in Nat /\ MaxKills \in Nat

VARIABLES
    inUse,        \* settings of this behaviour
    flags,        \* configuration flags of this behaviour
    file,         \* values written to the settings file, by setting and place
    modeOf,       \* picture mode kept for each source and timing
    panel,        \* level each register shows
    sig,          \* CurSource and CurTimming
    input,        \* mCurrentSourceInputInfo.source_input, mSourceInputForSaveParam
    left,         \* the source was left: mCurrentHdrType is HDRTYPE_NONE
    tuneCached,   \* mColorTuneEnable
    lock,         \* owner of PqControlMutex
    call,         \* call[t]: the call t serves
    todo,         \* todo[t]: the accesses it has still to make
    row,          \* row[t]: picture mode row or record t has read, and its mode
    promised,     \* history: what the getters must answer, by setting and place
    settled,      \* history: settings whose stored value the panel must show
    clash,        \* history: threads whose call overlapped a conflicting one
    calls, kills

disk == <<file, modeOf>>
members == <<sig, input, left, tuneCached>>
history == <<promised, settled, clash>>
fixed == <<inUse, flags>>
vars == <<fixed, disk, panel, members, lock, call, todo, row, history, calls, kills>>

Threads == Binders \cup {Event, Main}
NoCall == [op |-> "none", s |-> "none", v |-> 0, save |-> FALSE,
           g |-> BootSignal, exit |-> FALSE]
BootCall == [NoCall EXCEPT !.op = "switch"]
NoRow == [mode |-> 0, fields |-> <<>>]
Running == todo[Main] = <<>>

-----------------------------------------------------------------------------
(* Where a value is kept, and what the panel shows for it.                  *)

NoPlace == <<"any", "any", 0>>

\* GetMemcMode for a source.
MemcStored(source) ==
    LET key == <<"MemcMode", <<source, "any", 0>>>>
    IN  IF key \in DOMAIN file THEN file[key] ELSE MemcMode.default

Place(s, mode) ==
    CASE Rows[s].keep = "mode"   -> <<sig[1], sig[2], mode>>
      [] Rows[s].keep = "source" -> <<input, "any", 0>>
      [] Rows[s].keep = "level"  -> <<input, "any", MemcStored(input)>>
      [] OTHER                   -> NoPlace

ValueAt(s, place) ==
    IF <<s, place>> \in DOMAIN file THEN file[<<s, place>>]
    ELSE IF Rows[s].keep = "level" THEN MemcLevels[place[3] + 1]
    ELSE Rows[s].default

\* The file with these values written.
Rewritten(new) == [k \in DOMAIN new \cup DOMAIN file |->
                      IF k \in DOMAIN new THEN new[k] ELSE file[k]]

\* Where the getter of s looks, and what it finds.
GetPlace(s) == Place(s, modeOf[sig])
Stored(s) == ValueAt(s, GetPlace(s))

\* Hue part of the register pair when only the saturation is set.
HueOfSaturation == IF <<input, sig[2]>> \in Ntsc THEN Stored("Hue") ELSE Hue.default

LutGain(v) == (v * 2048) \div 200

\* Registers the hardware step of s writes for v, and the level they show then.
Shows(s, v) ==
    CASE s = "Saturation" -> [r \in {s, "Hue"} |-> IF r = s THEN v ELSE HueOfSaturation]
      [] s = "Hue"        -> [r \in {s, "Saturation"} |-> IF r = s THEN v ELSE Stored(r)]
      [] s = "MpegNr"     -> [r \in {"Deblock", "DemoSquito"} |-> v]
      [] s = "MemcMode"   -> [r \in {s, "MemcDeJudder"} |->
                                IF r = s THEN v ELSE ValueAt(r, <<input, "any", v>>)]
      [] s = "MemcDeBlur" -> <<>>
      [] Rows[s].keep = "lut" ->
            [r \in Shared(s) |-> IF r = s THEN LutGain(v) ELSE Stored(r)]
      [] OTHER            -> [r \in {s} |-> v]

\* The registers among them whose configuration flag is on.
Reached(s, v) == LET w == Shows(s, v)
                 IN  [r \in {q \in DOMAIN w : Gated(q, flags)} |-> w[r]]

Colours == {"CmsRed", "CmsSkin"}
ColoursShown(on) == [c \in Colours |-> IF on = 1 THEN Stored(c) ELSE 0]

-----------------------------------------------------------------------------
(* The programs.                                                            *)

SetProgram(s, save) ==
    LET keeps == save \/ Rows[s].always
        write == IF ~keeps THEN <<>>
                 ELSE IF Cardinality(Shared(s)) > 1 THEN <<"read", "write">>
                 ELSE <<"write">>
        body  == CASE Rows[s].skips /\ ~Gated(s, flags) -> <<>>
                   [] s = "ColorTune"      -> <<"write", "tune">>
                   [] Rows[s].keep = "cms" -> <<"tune", "show">> \o write
                   [] Rows[s].keep = "lcd" -> <<"read", "show", "write">>
                   [] Rows[s].saveFirst /\ s # "ColorTune" -> write \o <<"show">>
                   [] OTHER                -> <<"show">> \o write
    IN  body \o <<"return">>

SourceProgram == <<"lock", "members">>
InfoProgram == <<"lock", "unlock", "return">>

DisplayProgram == IF "DisplayMode" \in inUse /\ Gated("DisplayMode", flags) THEN <<"display">> ELSE <<>>

LoadProgram == <<"mode", "readRow", "showRow", "showTable">>

ModeProgram(save) ==
    (IF save THEN <<"saveMode">> ELSE <<>>) \o <<"readRow", "showRow">>
        \o (IF save THEN <<"hdmiDisplay">> ELSE <<>>) \o <<"return">>

BootProgram == DisplayProgram \o LoadProgram \o <<"showStart", "return">>

-----------------------------------------------------------------------------
(* History: what a call has been told is kept, and what the panel must show. *)

\* Settings whose value or place in the file a call reads or moves.
Touched(c) ==
    CASE c.op = "set"  -> Shared(c.s) \cup
            (IF c.s \in {"MemcMode", "MemcDeBlur", "MemcDeJudder"}
               THEN {"MemcMode", "MemcDeBlur", "MemcDeJudder"} ELSE {}) \cup
            (IF c.s \in {"MpegNr", "Deblock", "DemoSquito"}
               THEN {"MpegNr", "Deblock", "DemoSquito"} ELSE {}) \cup
            (IF c.s = "ColorTune" THEN Colours ELSE {})
      [] c.op \in {"mode", "switch"} ->
            {s \in inUse : Rows[s].load # "no" \/ Rows[s].keep \in {"mode", "source", "level"}}
      [] OTHER -> {}

\* Two changes of source are kept apart by PqControlMutex.
Conflict(c, d) == /\ {c.op, d.op} # {"switch"}
                  /\ Touched(c) \cap Touched(d) # {}

\* Settings whose registers the setter of s overwrites with something else.
Spoils(s) ==
    CASE s = "Saturation" -> IF <<input, sig[2]>> \in Ntsc THEN {} ELSE {"Hue"}
      [] s = "MpegNr"     -> {"Deblock", "DemoSquito"}
      [] s \in {"Deblock", "DemoSquito"} -> {"MpegNr"}
      [] Rows[s].keep = "lut" -> Shared(s) \ {s}
      [] OTHER            -> {}

\* Shown again by the load of the picture mode, and by LoadPQTableSettings.
Shown(s) == Gated(s, flags) /\ ~Refused(s, Stored(s), flags)
RowShown == {s \in inUse : Rows[s].load = "row" /\ Shown(s)}
TableShown == {s \in inUse : Rows[s].load = "table" /\ Shown(s)}
              \cup (inUse \cap (Colours \cup
                     (IF "memc" \in flags THEN {"MemcDeJudder"} ELSE {})))
OfMode == {s \in inUse : Rows[s].keep = "mode"} \cup {"Deblock", "DemoSquito"}
OfSource == {s \in inUse : Rows[s].keep \in {"source", "level"}} \cup Colours
DisplayShown == inUse \cap (IF Gated("DisplayMode", flags) THEN {"DisplayMode"} ELSE {})

\* The call is a setter that keeps its value when the hardware takes it.
Keeps(c) == /\ c.op = "set"
            /\ c.save \/ Rows[c.s].always
            /\ Rows[c.s].skips => Gated(c.s, flags)

Without(f, settings) == [k \in {q \in DOMAIN f : q[1] \notin settings} |-> f[k]]

SettledBySet(c) ==
    IF ~Gated(c.s, flags) \/ c.s \in {"ColorTune", "MemcDeBlur", "DdrSsc"} THEN settled
    ELSE IF c.save \/ Rows[c.s].always
         THEN (settled \ Spoils(c.s)) \cup
                  (inUse \cap IF c.s = "MemcMode" THEN {c.s, "MemcDeJudder"} ELSE {c.s})
         ELSE settled \ (Spoils(c.s) \cup {c.s} \cup
                  IF c.s = "MemcMode" THEN {"MemcDeJudder"} ELSE {})

\* A row with a value the hardware refuses ends the change of mode.
RowRefused(fields) == \E s \in DOMAIN fields : Refused(s, fields[s], flags)

SettledByMode(c, fields) ==
    IF c.save THEN (settled \ OfMode) \cup RowShown
                   \cup (IF input \in Hdmi /\ ~RowRefused(fields) THEN DisplayShown ELSE {})
    ELSE settled \ OfMode

SettledBySwitch(c) ==
    (settled \ (OfMode \cup OfSource)) \cup DisplayShown
        \cup IF c.exit THEN {} ELSE RowShown \cup TableShown

-----------------------------------------------------------------------------
Init ==
    /\ inUse \in SettingGroups /\ flags \in Configs
    /\ file = <<>> /\ modeOf = [g \in Signals |-> 0]
    /\ panel = [s \in inUse |-> -1]
    /\ sig = BootSignal /\ input = BootSignal[1] /\ left = FALSE
    /\ tuneCached = 1
    /\ lock = Nobody
    /\ call = [t \in Threads |-> IF t = Main THEN BootCall ELSE NoCall]
    /\ todo = [t \in Threads |-> IF t = Main THEN BootProgram ELSE <<>>]
    /\ row = [t \in Threads |-> NoRow]
    /\ promised = <<>> /\ settled = {} /\ clash = {}
    /\ calls = 0 /\ kills = 0

-----------------------------------------------------------------------------
(* Calls.                                                                   *)

\* The call still has accesses to make; a change of source that has returned has
\* only to give PqControlMutex back.
Working(t) == todo[t] \notin {<<>>, <<"unlock">>}

Begin(t, c, program) ==
    LET others == {u \in Threads \ {t} : Working(u) /\ Conflict(c, call[u])}
        disturbed == UNION {Touched(c) \cup Touched(call[u]) : u \in others}
    IN  /\ calls < MaxCalls /\ Running /\ todo[t] = <<>>
        /\ call' = [call EXCEPT ![t] = c]
        /\ todo' = [todo EXCEPT ![t] = program]
        /\ clash' = IF others = {} THEN clash ELSE clash \cup others \cup {t}
        /\ promised' = Without(promised, disturbed)
        /\ settled' = settled \ disturbed
        /\ calls' = calls + 1
        /\ UNCHANGED <<fixed, disk, panel, members, lock, row, kills>>

Set(t, s, v, save) ==
    Begin(t, [NoCall EXCEPT !.op = "set", !.s = s, !.v = Bent(s, v), !.save = save],
          SetProgram(s, save))

\* SetPQMode; the mode it reads first is the mode kept for the source.
SetPQMode(t, mode, save) ==
    /\ mode # modeOf[sig]
    /\ Begin(t, [NoCall EXCEPT !.op = "mode", !.v = mode, !.save = save],
             ModeProgram(save))

\* SetCurrentSource on a binder thread, a signal change on the event thread.
Switch(t, g, exit) ==
    /\ exit => t = Event
    /\ Begin(t, [NoCall EXCEPT !.op = "switch", !.g = g, !.exit = exit], SourceProgram)

GetCurrentSourceInputInfo(t) ==
    Begin(t, [NoCall EXCEPT !.op = "info"], InfoProgram)

-----------------------------------------------------------------------------
(* The accesses.                                                            *)

At(t, name) == todo[t] # <<>> /\ Head(todo[t]) = name
Then(t, rest) == todo' = [todo EXCEPT ![t] = rest]
On(t) == Then(t, Tail(todo[t]))

\* The hardware step.  A refused value ends the call; mColorTuneEnable is for
\* the whole colour record.
Show(t) ==
    LET s == call[t].s  v == call[t].v
        w == IF Rows[s].keep = "lcd" THEN [row[t].fields EXCEPT ![s] = v]
             ELSE Reached(s, v)
    IN  /\ At(t, "show")
        /\ \/ /\ Refused(s, v, flags)
              /\ Then(t, <<>>)
              /\ clash' = clash \ {t}
              /\ settled' = IF Rows[s].saveFirst \/ t \in clash THEN settled \ {s} ELSE settled
              /\ UNCHANGED <<panel, promised>>
           \/ /\ ~Refused(s, v, flags)
              /\ panel' = [r \in inUse |-> IF r \in DOMAIN w THEN w[r] ELSE panel[r]]
              /\ On(t)
              /\ UNCHANGED history
        /\ UNCHANGED <<fixed, disk, members, lock, call, row, calls, kills>>

\* Fault: the row to write is filled from the defaults.
ReadDefaults(t) ==
    LET s == call[t].s IN
    /\ At(t, "read")
    /\ row' = [row EXCEPT ![t] = [mode |-> modeOf[sig],
                  fields |-> [r \in Shared(s) \cap inUse |-> Rows[r].default]]]
    /\ On(t)
    /\ UNCHANGED <<fixed, disk, panel, members, lock, call, history, calls, kills>>

\* Fault: all threads read into one buffer.
ReadOneBuffer(t) ==
    LET s == call[t].s
        read == [mode |-> modeOf[sig], fields |-> [r \in Shared(s) \cap inUse |-> Stored(r)]]
    IN  /\ At(t, "read")
        /\ row' = [u \in Threads |-> read]
        /\ On(t)
        /\ UNCHANGED <<fixed, disk, panel, members, lock, call, history, calls, kills>>

\* Reads the whole row or record the setting is a field of.
Read(t) ==
    LET s == call[t].s IN
    /\ At(t, "read")
    /\ row' = [row EXCEPT ![t] = [mode |-> modeOf[sig],
                                  fields |-> [r \in Shared(s) \cap inUse |-> Stored(r)]]]
    /\ On(t)
    /\ UNCHANGED <<fixed, disk, panel, members, lock, call, history, calls, kills>>

\* Writes the byte, or the whole row or record that was read.
Write(t) ==
    LET s == call[t].s
        whole == Cardinality(Shared(s)) > 1
        mode == IF whole THEN row[t].mode ELSE modeOf[sig]
        new == IF whole
               THEN LET fields == [row[t].fields EXCEPT ![s] = call[t].v]
                    IN  [k \in {<<r, Place(r, mode)>> : r \in DOMAIN fields} |-> fields[k[1]]]
               ELSE [k \in {<<s, Place(s, mode)>>} |-> call[t].v]
    IN  /\ At(t, "write")
        /\ file' = Rewritten(new)
        /\ promised' = [k \in DOMAIN promised \ {<<s, GetPlace(s)>>} |-> promised[k]]
        /\ settled' = IF s = "ColorTune" /\ Stored(s) # call[t].v
                      THEN settled \ Colours ELSE settled
        /\ On(t)
        /\ UNCHANGED <<fixed, modeOf, panel, members, lock, call, row, clash, calls, kills>>

\* Cpq_SetColorCustomizeEnable: loads the colours, or zeros, when the cached
\* switch changes.  A colour is set only with the switch on.
Tune(t) ==
    LET c == call[t]
        on == IF c.s = "ColorTune" THEN c.v ELSE Stored("ColorTune")
    IN  /\ At(t, "tune")
        /\ panel' = [r \in inUse |-> IF tuneCached # on /\ r \in Colours
                                     THEN ColoursShown(on)[r] ELSE panel[r]]
        /\ tuneCached' = on
        /\ settled' = IF tuneCached # on THEN settled \cup (inUse \cap Colours) ELSE settled
        /\ IF c.s # "ColorTune" /\ on = 0 THEN Then(t, <<>>) ELSE On(t)
        /\ clash' = IF c.s # "ColorTune" /\ on = 0 THEN clash \ {t} ELSE clash
        /\ UNCHANGED <<fixed, disk, sig, input, left, lock, call, row, promised, calls, kills>>

SaveMode(t) ==
    /\ At(t, "saveMode")
    /\ modeOf' = [modeOf EXCEPT ![sig] = call[t].v]
    /\ On(t)
    /\ UNCHANGED <<fixed, file, panel, members, lock, call, row, history, calls, kills>>

\* LoadPQUISettings asks for the mode kept.
LoadMode(t) ==
    /\ At(t, "mode")
    /\ call' = [call EXCEPT ![t].v = modeOf[sig]]
    /\ On(t)
    /\ UNCHANGED <<fixed, disk, panel, members, lock, row, history, calls, kills>>

\* SetPQPictureMode reads the row, then sets each of its fields.
ReadRow(t) ==
    /\ At(t, "readRow")
    /\ row' = [row EXCEPT ![t] =
          [mode |-> call[t].v,
           fields |-> [s \in {r \in inUse : Rows[r].keep = "mode"} |->
                          ValueAt(s, Place(s, call[t].v))]]]
    /\ On(t)
    /\ UNCHANGED <<fixed, disk, panel, members, lock, call, history, calls, kills>>

\* The step of the hue comes after that of the saturation and takes the
\* saturation from the mode kept.
RowLevels(fields) ==
    LET s(r) == IF r \in {"Deblock", "DemoSquito"} THEN "MpegNr" ELSE r
    IN  [r \in {q \in inUse : /\ s(q) \in DOMAIN fields
                              /\ Rows[s(q)].load = "row" /\ Gated(q, flags)
                              /\ ~Refused(s(q), fields[s(q)], flags)} |->
            IF r = "Saturation" THEN Stored(r) ELSE fields[s(r)]]

ShowRow(t) ==
    LET w == RowLevels(row[t].fields)
    IN  /\ At(t, "showRow")
        /\ panel' = [r \in inUse |-> IF r \in DOMAIN w THEN w[r] ELSE panel[r]]
        /\ IF call[t].op = "mode" /\ RowRefused(row[t].fields) THEN Then(t, <<"return">>) ELSE On(t)
        /\ UNCHANGED <<fixed, disk, members, lock, call, row, history, calls, kills>>

\* Fault: the table load forgets the settings of the source.
TableLevelsForgotten ==
    LET loaded == {s \in inUse : Rows[s].load = "table" /\ Gated(s, flags)
                                 /\ s \notin {"McDi", "LocalDimming"}}
    IN  [r \in loaded |-> Stored(r)]

\* LoadPQTableSettings.
TableLevels ==
    LET loaded == {s \in inUse : Rows[s].load = "table" /\ Gated(s, flags)
                                 /\ ~Refused(s, Stored(s), flags) /\ s # "DisplayMode"}
        judder == IF "memc" \in flags THEN inUse \cap {"MemcDeJudder"} ELSE {}
        stored == loaded \cup judder \cup DisplayShown
        off == {q \in inUse : Rows[q].load = "off" /\ Gated(q, flags)}
        colours == inUse \cap Colours
    IN  [r \in stored \cup off \cup colours |->
            IF r \in stored THEN Stored(r) ELSE IF r \in off THEN 0
            ELSE ColoursShown(Stored("ColorTune"))[r]]

ShowTable(t) ==
    LET w == TableLevels
    IN  /\ At(t, "showTable")
        /\ panel' = [r \in inUse |-> IF r \in DOMAIN w THEN w[r] ELSE panel[r]]
        /\ On(t)
        /\ UNCHANGED <<fixed, disk, members, lock, call, row, history, calls, kills>>

\* DynamicBackLightInit and AipqInit, which leaves a disabled detector alone.
ShowStart(t) ==
    LET start == {s \in inUse : Rows[s].load = "start" /\ Gated(s, flags)
                                /\ (s = "Aipq" => Stored(s) = 1)}
    IN  /\ At(t, "showStart")
        /\ panel' = [r \in inUse |-> IF r \in start THEN Stored(r) ELSE panel[r]]
        /\ On(t)
        /\ UNCHANGED <<fixed, disk, members, lock, call, row, history, calls, kills>>

\* Fault: the mutex is not taken.
LockNotTaken(t) ==
    /\ At(t, "lock")
    /\ On(t)
    /\ UNCHANGED <<fixed, disk, panel, members, lock, call, row, history, calls, kills>>

\* SetDisplayMode with the mode kept for the source, written back.
Display(t) ==
    /\ \/ At(t, "display") \/ At(t, "hdmiDisplay")
    /\ IF At(t, "hdmiDisplay") /\ (input \notin Hdmi \/ DisplayProgram = <<>>)
       THEN UNCHANGED <<file, panel>>
       ELSE /\ panel' = [r \in inUse |-> IF r = "DisplayMode" THEN Stored(r) ELSE panel[r]]
            /\ file' = Rewritten([k \in {<<"DisplayMode", Place("DisplayMode", 0)>>} |->
                                     Stored("DisplayMode")])
    /\ On(t)
    /\ UNCHANGED <<fixed, modeOf, members, lock, call, row, history, calls, kills>>

Lock(t) ==
    /\ At(t, "lock") /\ lock = Nobody
    /\ lock' = t
    /\ On(t)
    /\ UNCHANGED <<fixed, disk, panel, members, call, row, history, calls, kills>>

\* Fault: the same signal returns with the mutex held.
MembersKeepsLock(t) ==
    LET g == call[t].g
        same == ~call[t].exit /\ ~left /\ g = sig /\ input = g[1]
    IN  /\ At(t, "members")
        /\ sig' = IF same THEN sig ELSE IF call[t].exit THEN <<g[1], "SDR">> ELSE g
        /\ input' = IF same THEN input ELSE g[1]
        /\ left' = IF same THEN left ELSE call[t].exit
        /\ Then(t, IF same THEN <<>>
                   ELSE DisplayProgram \o (IF call[t].exit THEN <<>> ELSE LoadProgram)
                        \o <<"return", "unlock">>)
        /\ clash' = IF same THEN clash \ {t} ELSE clash
        /\ UNCHANGED <<fixed, disk, panel, tuneCached, lock, call, row, promised, settled,
                       calls, kills>>

\* SetCurrentSourceInputInfo: the same signal changes nothing; leaving the source
\* loads nothing and falls back to SDR.
Members(t) ==
    LET g == call[t].g
        same == ~call[t].exit /\ ~left /\ g = sig /\ input = g[1]
    IN  /\ At(t, "members")
        /\ sig' = IF same THEN sig ELSE IF call[t].exit THEN <<g[1], "SDR">> ELSE g
        /\ input' = IF same THEN input ELSE g[1]
        /\ left' = IF same THEN left ELSE call[t].exit
        /\ Then(t, (IF same THEN <<>>
                    ELSE DisplayProgram \o (IF call[t].exit THEN <<>> ELSE LoadProgram)
                         \o <<"return">>) \o <<"unlock">>)
        /\ clash' = IF same THEN clash \ {t} ELSE clash
        /\ UNCHANGED <<fixed, disk, panel, tuneCached, lock, call, row, promised, settled,
                       calls, kills>>

Unlock(t) ==
    /\ At(t, "unlock")
    /\ lock' = Nobody
    /\ On(t)
    /\ UNCHANGED <<fixed, disk, panel, members, call, row, history, calls, kills>>

\* The call has done its work: what it has been asked to keep and to show holds
\* from here on, unless another call ran over it.
Return(t) ==
    LET c == call[t]
        start == {s \in inUse : Rows[s].load = "start" /\ Gated(s, flags)}
    IN  /\ At(t, "return")
        /\ settled' = IF t \in clash THEN settled \ Touched(c)
                      ELSE CASE c.op = "set"    -> SettledBySet(c)
                             [] c.op = "mode"   -> SettledByMode(c, row[t].fields)
                             [] c.op = "switch" -> SettledBySwitch(c) \cup
                                   {s \in start : t = Main /\ (s = "Aipq" => Stored(s) = 1)}
                             [] OTHER           -> settled
        /\ promised' = IF t \notin clash /\ Keeps(c)
                       THEN [k \in DOMAIN promised \cup {<<c.s, GetPlace(c.s)>>} |->
                                IF k = <<c.s, GetPlace(c.s)>> THEN c.v ELSE promised[k]]
                       ELSE promised
        /\ clash' = clash \ {t}
        /\ On(t)
        /\ UNCHANGED <<fixed, disk, panel, members, lock, call, row, calls, kills>>

Step(t) ==
    \/ Show(t) \/ Read(t) \/ Write(t) \/ Tune(t)
    \/ SaveMode(t) \/ LoadMode(t) \/ ReadRow(t) \/ ShowRow(t)
    \/ ShowTable(t) \/ ShowStart(t) \/ Display(t)
    \/ Lock(t) \/ Members(t) \/ Unlock(t) \/ Return(t)

\* The process is killed and started again: the file and the panel stay.
Restart ==
    /\ kills < MaxKills /\ Running
    /\ kills' = kills + 1
    /\ sig' = BootSignal /\ input' = BootSignal[1] /\ left' = FALSE
    /\ tuneCached' = 1
    /\ lock' = Nobody
    /\ call' = [t \in Threads |-> IF t = Main THEN BootCall ELSE NoCall]
    /\ todo' = [t \in Threads |-> IF t = Main THEN BootProgram ELSE <<>>]
    /\ row' = [t \in Threads |-> NoRow]
    /\ settled' = {} /\ clash' = {}
    /\ UNCHANGED <<fixed, disk, panel, promised, calls>>

Next ==
    \/ \E t \in Binders :
         \/ \E s \in inUse, save \in Saves : \E v \in Inputs(s) :
              (Rows[s].always /\ s # "Dnlp" => save) /\ Set(t, s, v, save)
         \/ \E mode \in Modes, save \in Saves : SetPQMode(t, mode, save)
         \/ GetCurrentSourceInputInfo(t)
    \/ \E t \in Binders \cup {Event}, g \in Signals, exit \in BOOLEAN : Switch(t, g, exit)
    \/ \E t \in Threads : Step(t)
    \/ Restart

\* The kernel runs some thread that can go on.  As calls are bounded this is all
\* a call needs to end: a thread put off for ever is alone in the end.
Fairness == WF_vars(\E t \in Threads : Step(t))

Spec == Init /\ [][Next]_vars /\ Fairness

-----------------------------------------------------------------------------
Quiet == \A t \in Threads : todo[t] = <<>>

\* Types of the state; the owner of the mutex is inside a change of source or
\* reads the source; a call that clashes is in progress.
TypeOK ==
    /\ inUse \in SettingGroups /\ flags \in Configs
    /\ \A k \in DOMAIN file : k[1] \in inUse /\ file[k] \in Int
    /\ modeOf \in [Signals -> Modes]
    /\ panel \in [inUse -> Int]
    /\ sig \in Signals /\ input \in {g[1] : g \in Signals}
    /\ left \in BOOLEAN /\ tuneCached \in {0, 1}
    /\ lock \in Threads \cup {Nobody}
    /\ lock # Nobody => todo[lock] # <<>> /\ call[lock].op \in {"switch", "info"}
    /\ settled \subseteq inUse
    /\ clash \subseteq Threads /\ \A t \in clash : Working(t)

\* A value a setter was asked to keep, and that the panel took, is what the
\* getter answers in the same mode of the same source until it is set again:
\* the other settings of the picture mode, whose row is read and written whole,
\* the settings of the other modes and sources, a change of mode or source, a
\* restart, and calls of other settings that overlap leave it alone.
Kept == \A k \in DOMAIN promised : ValueAt(k[1], k[2]) = promised[k]

Expected(s) ==
    CASE s \in Colours       -> [r \in {s} |-> IF Stored("ColorTune") = 1 THEN Stored(r) ELSE 0]
      [] s = "MpegNr"        -> [r \in {q \in inUse \cap {"Deblock", "DemoSquito"} :
                                          Gated(q, flags)} |-> Stored(s)]
      [] Rows[s].keep = "lut" -> [r \in {s} |-> LutGain(Stored(r))]
      [] OTHER               -> [r \in {s} |-> Stored(r)]

\* Between calls the panel shows, for the settings that are to be shown, the
\* values kept for the current mode of the current source: the load after a
\* change of source, mode or process finds every one of them, and no setter
\* leaves the level of another setting in a register they share.
PanelFollows ==
    Quiet => \A s \in settled :
                LET e == Expected(s) IN \A r \in DOMAIN e : panel[r] = e[r]

\* Every call ends, whoever waits for PqControlMutex.
CallsEnd == ~Quiet ~> Quiet
============================================================================
