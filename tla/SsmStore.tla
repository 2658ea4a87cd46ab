------------------------------ MODULE SsmStore ------------------------------
(***************************************************************************)
(* The settings store of the service: the files ssm_data and SSMHandler,   *)
(* the three device marks and the header the next start checks, the slots  *)
(* made of data and a valid flag, and the ways the store is built again:   *)
(* at start (SSMAction::init) and on request (SSMRecovery).                *)
(*                                                                         *)
(* A thread is what is left of its program: a sequence of accesses.  Each  *)
(* access is a seek and a transfer under ssm_r_w_op_mutex; the erase is    *)
(* neither: it truncates and rewinds the same descriptor without the       *)
(* mutex.  The header is rewritten in four accesses to a file and offset   *)
(* of its own, which no mutex protects.  The process may die between any   *)
(* two steps.                                                              *)
(***************************************************************************)
EXTENDS Naturals, Sequences, SequencesExt, FiniteSets

CONSTANTS
    Threads,      \* binder and event threads of the running service
    Main,         \* the thread that constructs CPQControl
    Nobody,       \* no thread
    UiCells,      \* slots of picture modes and colour temperatures
    InDb,         \* the slots of UiCells the database has a row for
    WbCells,      \* slots of the white balance gamma
    ByteCells,    \* settings without a flag, written in one access
    NewConfig,    \* mbCpqCfg_new_picture_mode_enable
    MaxJobs,      \* bound: calls served, over all starts
    MaxCrash      \* bound: deaths of the process

ASSUME StoreAssumption ==
    /\ Main \notin Threads /\ Nobody \notin Threads \cup {Main}
    /\ InDb \subseteq UiCells /\ IsFiniteSet(UiCells \cup WbCells \cup ByteCells)
    /\ UiCells \cap WbCells = {} /\ ByteCells \cap (UiCells \cup WbCells) = {}
    /\ NewConfig \in BOOLEAN /\ MaxJobs \in Nat /\ MaxCrash \in Nat

VARIABLES
    header,       \* what SSMSection1Verify finds: none of use, another version, ours
    headPos,      \* file offset of mFd: the start, or past what it verifies
    marks,        \* the marks with their right value in ssm_data
    data,         \* data[c]: nothing yet, rubbish, a default, a user's value
    flag,         \* the cells whose valid flag is 1
    pos,          \* file offset of m_dev_fd: the start or what was sought
    lock,         \* owner of ssm_r_w_op_mutex
    prog,         \* prog[t]: accesses t has still to make
    kind,         \* kind[t]: the call t serves
    result,       \* result[t]: cell and value of t's last read
    phase,        \* down, boot (constructor), refill (its recovery), run
    dbOpen,       \* openPqDB of this start succeeded
    filled,       \* dbOpen when the defaults were last written
    raced,        \* kinds of calls the last erase overlapped
    jobs, crashes

store == <<header, headPos, marks, data, flag, filled>>
vars == <<header, headPos, marks, data, flag, pos, lock, prog, kind, result, phase,
          dbOpen, filled, raced, jobs, crashes>>

All == Threads \cup {Main}
FlagCells == UiCells \cup WbCells
Cells == FlagCells \cup ByteCells
Marks == 1..3
Start == <<"start", 0>>
NoResult == <<>>

-----------------------------------------------------------------------------
(* Programs.                                                               *)

Put(what, at, v) == [op |-> "put", what |-> what, at |-> at, v |-> v]
Take(what, at) == [op |-> "take", what |-> what, at |-> at, v |-> "any"]
Do(what) == [op |-> "do", what |-> what, at |-> 0, v |-> "any"]
Place(o) == <<o.what, o.at>>
HeaderParts == {"noheader", "headerStart", "section1", "section2"}
Values == {"hole", "rubbish", "default", "user"}
Accesses == [op : {"put", "take", "do"}, at : Cells \cup 0..3, v : Values \cup {"any"},
             what : {"data", "flag", "mark", "truncate", "rewind"} \cup HeaderParts]

\* SetPictureModeData, SetColorTemperatureData, SetWhitebalanceGammaData.
SetDataFlagFirst(c, v) == <<Put("flag", c, v), Put("data", c, v)>>
SetData(c, v) == <<Put("data", c, v), Put("flag", c, v)>>

\* GetPictureModeData, GetColorTemperatureData, GetWhitebalanceGammaData.
GetDataUnchecked(c) == <<Take("data", c)>>
GetData(c) == <<Take("flag", c), Take("data", c)>>

\* The one-byte accessors: a single access each.
SaveByte(c, v) == <<Put("data", c, v)>>
ReadByte(c) == <<Take("data", c)>>

\* One slot or byte after the other, as the loops over the sources do.
SetDataOf(S, v) ==
    LET q == SetToSeq(S) IN
    [i \in 1..(2 * Len(q)) |-> SetData(q[(i + 1) \div 2], v)[IF i % 2 = 1 THEN 1 ELSE 2]]
SaveByteOf(S, v) == LET q == SetToSeq(S) IN [i \in 1..Len(q) |-> Put("data", q[i], v)]

SaveAlwaysFlagged(c, v) == SetData(c, v)
Save(c, v) == IF c \in FlagCells THEN SetData(c, v) ELSE SaveByte(c, v)
Read(c) == IF c \in FlagCells THEN GetData(c) ELSE ReadByte(c)

\* Only the rows the database has are written.
resetPQUiSetting ==
    IF dbOpen THEN SetDataOf(InDb, "default") ELSE <<>>

resetWb == SetDataOf(WbCells, "default")

\* The defaults of resetPQTableSetting come from the configuration file.
resetPQTableSetting == SaveByteOf(ByteCells, "default") \o resetWb

\* The old configuration saves pq_para also when it could not be read.
resetOldSetting ==
    SaveByteOf(ByteCells, IF dbOpen THEN "default" ELSE "rubbish") \o resetWb

resetAllUserSettingParam ==
    IF NewConfig THEN resetPQUiSetting \o resetPQTableSetting ELSE resetOldSetting

EraseAllData == <<Do("truncate"), Do("rewind")>>
SSMRecreateHeaderUnsought == <<Do("noheader"), Do("section1"), Do("section2")>>
SSMRecreateHeader ==
    <<Do("noheader"), Do("headerStart"), Do("section1"), Do("section2")>>
RestoreDeviceMarkValuesForgotten == <<>>
RestoreDeviceMarkValues == <<Put("mark", 1, "any"), Put("mark", 2, "any"), Put("mark", 3, "any")>>

SSMRecoveryMarksFirst ==
    EraseAllData \o RestoreDeviceMarkValues \o resetAllUserSettingParam
        \o SSMRecreateHeader
SSMRecovery ==
    EraseAllData \o resetAllUserSettingParam \o SSMRecreateHeader
        \o RestoreDeviceMarkValues

\* What the verification at start accepts: the header of this build and at
\* least one of the three marks.
Accepted == header = "ours" /\ marks # {}

-----------------------------------------------------------------------------
(* Accesses.                                                               *)

Busy(t) == prog[t] # <<>>
Rest(t) == prog' = [prog EXCEPT ![t] = Tail(@)]
Next1(t) == Head(prog[t])

\* ssm_r_w_op_mutex is given back on every way out.
UnlockForgotten == UNCHANGED lock
Unlock == lock' = Nobody

\* The first half of SSMWriteNTypes and SSMReadNTypes: mutex and lseek.
Seek(t) ==
    /\ Busy(t) /\ Next1(t).op \in {"put", "take"} /\ lock = Nobody
    /\ lock' = t /\ pos' = Place(Next1(t))
    /\ UNCHANGED <<store, prog, kind, result, phase, dbOpen, raced, jobs, crashes>>

\* WriteBytes: the bytes go where the offset is by now.
Write(t) ==
    /\ lock = t /\ Busy(t) /\ Next1(t).op = "put"
    /\ Unlock /\ Rest(t)
    /\ LET o == Next1(t)
           hit == pos = Place(o) IN
       /\ data' = IF hit /\ o.what = "data" THEN [data EXCEPT ![o.at] = o.v] ELSE data
       /\ flag' = IF hit /\ o.what = "flag" THEN flag \cup {o.at} ELSE flag
       /\ marks' = IF hit /\ o.what = "mark" THEN marks \cup {o.at} ELSE marks
    /\ UNCHANGED <<header, headPos, pos, kind, result, phase, dbOpen, filled, raced,
                   jobs, crashes>>

\* ReadBytes: past the end of the file the caller's buffer stays as it was,
\* and the call succeeds.  A flag that is not 1 ends GetPictureModeData.
ReadAccess(t) ==
    /\ lock = t /\ Busy(t) /\ Next1(t).op = "take"
    /\ Unlock
    /\ LET o == Next1(t)
           hit == pos = Place(o) IN
       IF o.what = "flag"
       THEN IF hit /\ o.at \in flag
            THEN Rest(t) /\ UNCHANGED result
            ELSE prog' = [prog EXCEPT ![t] = <<>>] /\ result' = [result EXCEPT ![t] = NoResult]
       ELSE Rest(t) /\ result' = [result EXCEPT ![t] = <<o.at, IF hit THEN data[o.at] ELSE "hole">>]
    /\ UNCHANGED <<store, pos, kind, phase, dbOpen, raced, jobs, crashes>>

\* The calls another thread is in the middle of.
Others(t) == {kind[u] : u \in {u \in All \ {t} : Busy(u)}}

\* EraseAllData, first half: ftruncate.
Truncate(t) ==
    /\ Busy(t) /\ Next1(t) = Do("truncate") /\ Rest(t)
    /\ data' = [c \in Cells |-> "hole"] /\ flag' = {} /\ marks' = {}
    /\ filled' = dbOpen
    /\ raced' = Others(t)
    /\ UNCHANGED <<header, headPos, pos, lock, kind, result, phase, dbOpen, jobs, crashes>>

\* EraseAllData, second half: lseek, whoever holds the mutex.
Rewind(t) ==
    /\ Busy(t) /\ Next1(t) = Do("rewind") /\ Rest(t)
    /\ pos' = Start /\ raced' = raced \cup Others(t)
    /\ UNCHANGED <<store, lock, kind, result, phase, dbOpen, jobs, crashes>>

\* SSMRecreateHeader: ftruncate, lseek and one write for each section.  A
\* write goes where the offset is by now and moves it: section 2 at the start
\* is no header, and both sections are too long for what is written behind
\* the first to reach what SSMSection1Verify reads.
WriteHeader(t) ==
    /\ Busy(t) /\ Next1(t).op = "do" /\ Next1(t).what \in HeaderParts /\ Rest(t)
    /\ LET part == Next1(t).what IN
       /\ header' = IF part = "noheader" THEN "none"
                    ELSE IF part = "headerStart" \/ headPos # "start" THEN header
                    ELSE IF part = "section1" THEN "ours" ELSE "none"
       /\ headPos' = IF part = "noheader" THEN headPos
                     ELSE IF part = "headerStart" THEN "start" ELSE "past"
    /\ UNCHANGED <<marks, data, flag, pos, lock, kind, result, phase, dbOpen,
                   filled, raced, jobs, crashes>>

Step(t) == \/ Seek(t) \/ Write(t) \/ ReadAccess(t)
           \/ Truncate(t) \/ Rewind(t) \/ WriteHeader(t)

-----------------------------------------------------------------------------
(* Calls, starts and deaths.                                               *)

Serve(t, k, p) ==
    /\ phase = "run" /\ ~Busy(t) /\ jobs < MaxJobs
    /\ prog' = [prog EXCEPT ![t] = p] /\ kind' = [kind EXCEPT ![t] = k]
    /\ result' = [result EXCEPT ![t] = NoResult] /\ jobs' = jobs + 1
    /\ UNCHANGED <<store, pos, lock, phase, dbOpen, raced, crashes>>

SaveCall(t) == \E c \in Cells : Serve(t, "save", Save(c, "user"))
ReadCall(t) == \E c \in Cells : Serve(t, "read", Read(c))
RecoveryCall(t) == Serve(t, "recovery", SSMRecovery)

\* The constructor: the database is opened, then SSMAction::init verifies.
Boot ==
    /\ phase = "down" /\ phase' = "boot"
    /\ dbOpen' \in BOOLEAN
    /\ kind' = [kind EXCEPT ![Main] = "boot"]
    /\ UNCHANGED <<store, pos, lock, prog, result, raced, jobs, crashes>>

init ==
    /\ phase = "boot"
    /\ IF Accepted
       THEN phase' = "run" /\ UNCHANGED prog
       ELSE phase' = "refill" /\ prog' = [prog EXCEPT ![Main] = SSMRecovery]
    /\ UNCHANGED <<store, pos, lock, kind, result, dbOpen, raced, jobs, crashes>>

\* The constructor goes on when the recovery returns, and main serves calls.
Refilled ==
    /\ phase = "refill" /\ ~Busy(Main) /\ phase' = "run"
    /\ UNCHANGED <<store, pos, lock, prog, kind, result, dbOpen, raced, jobs, crashes>>

Crash ==
    /\ phase # "down" /\ crashes < MaxCrash /\ crashes' = crashes + 1
    /\ phase' = "down" /\ lock' = Nobody /\ pos' = Start
    /\ prog' = [t \in All |-> <<>>] /\ kind' = [t \in All |-> "none"]
    /\ result' = [t \in All |-> NoResult] /\ raced' = raced \ {"read"} /\ headPos' = "start"
    /\ UNCHANGED <<header, marks, data, flag, filled, dbOpen, jobs>>

\* A new device, a device that ran another build, one that ran this build.
Init ==
    /\ \/ header = "none" /\ marks = {} /\ data = [c \in Cells |-> "hole"] /\ flag = {}
       \/ /\ header \in {"other", "ours"} /\ marks = Marks
          /\ data = [c \in Cells |-> IF c \in InDb \cup WbCells \cup ByteCells
                                     THEN "default" ELSE "hole"]
          /\ flag = InDb \cup WbCells
    /\ pos = Start /\ headPos = "start" /\ lock = Nobody
    /\ prog = [t \in All |-> <<>>] /\ kind = [t \in All |-> "none"]
    /\ result = [t \in All |-> NoResult]
    /\ phase = "down" /\ dbOpen = TRUE /\ filled = TRUE /\ raced = {}
    /\ jobs = 0 /\ crashes = 0

Next ==
    \/ Boot \/ init \/ Refilled \/ Crash
    \/ \E t \in Threads : SaveCall(t) \/ ReadCall(t) \/ RecoveryCall(t)
    \/ \E t \in All : Step(t)

\* A thread that holds the processor and the mutex goes on; the service is
\* started again when it died.  No death is fair.
Fairness == WF_vars(Boot) /\ WF_vars(init) /\ WF_vars(Refilled)
            /\ \A t \in All : WF_vars(Step(t))

Spec == Init /\ [][Next]_vars /\ Fairness

-----------------------------------------------------------------------------
(* Properties.                                                             *)

\* Types: of the files, of the offset and of every thread.
TypeOK ==
    /\ header \in {"none", "other", "ours"} /\ headPos \in {"start", "past"} /\ marks \subseteq Marks
    /\ data \in [Cells -> Values] /\ flag \subseteq FlagCells
    /\ lock \in All \cup {Nobody} /\ phase \in {"down", "boot", "refill", "run"}
    /\ prog \in [All -> Seq(Accesses)]
    /\ kind \in [All -> {"none", "save", "read", "recovery", "boot"}]
    /\ result \in [All -> (Cells \X Values) \cup {NoResult}]
    /\ dbOpen \in BOOLEAN /\ filled \in BOOLEAN
    /\ raced \subseteq {"save", "read", "recovery"}
    /\ jobs \in 0..MaxJobs /\ crashes \in 0..MaxCrash

\* The cells every recovery fills when the database could be opened.
Defaulted == ByteCells \cup WbCells \cup (IF NewConfig THEN InDb ELSE {})

\* Whatever the next start would accept, at any instant and after a death
\* anywhere in a recovery, holds a value for every setting the defaults name:
\* the marks vouch for the data (init, DeviceMarkCheck, SSMRecovery).  Not
\* claimed when the database was closed or two recoveries overlapped.
AcceptedIsComplete ==
    Accepted /\ filled /\ "recovery" \notin raced =>
        \A c \in Defaulted : /\ data[c] \in {"default", "user"}
                             /\ c \in FlagCells => c \in flag

\* A slot flagged valid holds data, after a death between the two writes of
\* SetPictureModeData too; only a save that an erase overtook can leave a
\* flag without data.
FlagMeansData ==
    raced \cap {"save", "recovery"} = {} => \A c \in flag : data[c] # "hole"

\* A read of a flagged slot that succeeds returns data: it can come back
\* empty only when an erase fell between its two accesses or tore the slot
\* (GetPictureModeData reads the flag, then the data).
ReadMeansData ==
    [][\A t \in Threads :
           raced = {} /\ result'[t] \notin {result[t], NoResult}
               /\ result'[t][1] \in FlagCells => result'[t][2] # "hole"]_vars

\* Every call ends, whatever the other threads do with the mutex, unless the
\* process dies.
CallsEnd == \A t \in All : Busy(t) ~> ~Busy(t)

\* Once the deaths stop, the service stays up on a store that its next start
\* accepts, and a start that is not cut off by a death ends on one: the
\* constructor's recovery and SSMRecovery end with the header and the marks
\* written.  Except where two recoveries overlapped: one may write its second
\* section where the other has just rewound to, and the next start must
\* recover again.
Settles ==
    /\ <>[](phase = "run" /\ (Accepted \/ "recovery" \in raced))
    /\ phase = "boot" ~> ((phase = "run" /\ Accepted) \/ phase = "down")
=============================================================================
