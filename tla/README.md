# Picture-quality server: verification project

TLA+ models of the picture-quality (PQ) service of this repository, the TLC
configurations that check them on small instances, and TLAPS proofs about them.

The service is one process. `PqService` is a binder service around one
`CPQControl`; clients in other processes use `PqClient`. `CPQControl` owns the
settings file (`SSMAction`), the databases, the drivers and two kinds of event
threads. What it does with a single value is simple; what is hard is that pieces
of state in different places have to agree while commands, events, restarts and
deaths of the process arrive in any order. The models are about that.

## 1. Inventory

| Component (source) | State | Operations | Talks to | Module |
| --- | --- | --- | --- | --- |
| Callback registry (`service/PqService.cpp`) | `mPqServiceCallBack`, a `std::map<int, sp<IBinder>>`, unlocked | register, remove, four notification loops | binder threads; the event threads of libpq through `CPQControlCb` | `CallbackRegistry` |
| Client (`client/PqClient.cpp`) | `mpqServicebinderId` (uninitialised), observers, `mInstance`, `mRetBuf`, `mRet`, the position of `strtok` | register an observer, 131 text commands, 17 calls with a parcel of their own, destructor | the service, synchronously | `CallbackRegistry`, `PqCommands`, `CommandChannel` |
| Command dispatch (`PqService.cpp`) | `mPqCommand`, `mRetBuf` and the position of `strtok`, shared by the binder threads | split the text, parse, `SetCmd`, `GetCmd`, print | clients, `CPQControl` | `PqCommands`, `CommandChannel` |
| Picture mode (`CPQControl.cpp`) | source, timing, HDR type, signal; saved and last mode per slot; recovery flags; `mGamemode`; what is loaded | 6 commands, vdin uevents, HDMI TX and video poll events, start | settings file, drivers, observer | `PictureMode` |
| Picture data (`CPQControl.cpp`) | parameters per source, timing and mode, with a default source to fall back to | save, three resets, factory setters, two factory copies | settings file, database, hardware | `PictureData`, `PictureStore` |
| White balance (`CPQControl.cpp`) | gains and offsets, white balance gamma, calibration file, eye protection | setters, resets, factory setters and getters | settings file, `cri_data`, hardware | `WhiteBalance` |
| Settings (`CPQControl.cpp`) | 37 settings in the mode's row, in bytes per source, in records or global | setter, getter, load | settings file, database, hardware | `SettingRows`, `PictureSettings` |
| Locking (`CPQControl.cpp`) | `PqControlMutex`, taken by `SetCurrentSourceInputInfo` and `GetCurrentSourceInputInfo` only | binder, uevent, poll and backlight threads enter `CPQControl` | everything above | `PictureSettings` |
| Settings store (`SSMAction.cpp`) | one file of slots with valid flags and bytes without, device marks | read, write, erase, start, recover | file system | `SsmStore`, `StoreAddress`, `StoreLayout` |
| Store header (`SSMHandler.cpp`, `SSMHeader.cpp`) | header file with the build's layout | create, verify, address of an item | file system | `SsmStore`, `StoreLayout` |
| Poll and uevent threads (`CDevicePollCheckThread`, `CEpoll`, `UEventObserver`) | descriptors, match strings | wait, call a handler | `CPQControl` | their handlers in `PictureMode` |
| `CVdin.cpp` | driver handle | ioctls | driver | inputs of `PictureMode` |
| `CPQdb`, `COverScandb`, `CSqlite` | read-only tables | queries | SQLite | rows as constants of `PictureData`, `WhiteBalance` |
| `CConfigFile` | the parsed ini file | read at start | - | constants of `SettingRows`, `PictureSettings` |
| `CDynamicBackLight`, `CAmdolbyVision`, `GammaOperation`, `Minizip`, `miniz`, `CPQFile`, logs, tests | see section 7 | | | - |

### Which behaviours are hard

* **Concurrency.** Binder, uevent, poll and backlight threads share everything; one
  mutex covers two functions. The callback map, the service's command and reply
  buffers and each client's reply buffers are unlocked, and so is the position that
  `strtok` keeps for a whole process. The settings file has a mutex around one seek
  and transfer; its erase and the rewriting of its header have none.
* **Order.** Which slot is current, which mode is saved for it, which data it has,
  what is loaded in the hardware and which recovery is pending are separate facts,
  moved by separate statements; several handlers rely on a later statement of the
  same handler to make them agree.
* **Crash and restart.** Saved modes live in a file, drivers keep their mode when
  the process dies, recovery flags and copies of driver state live in memory only.
  A slot is written in two accesses, a recovery in hundreds.
* **Partial initialisation.** The observer is set after the event threads run;
  three arrays of the constructor and the client's id are never initialised.
* **Boundaries.** Loops that count a map's keys instead of walking them; a loop to
  the wrong maximum; 14 data slots per timing for 16 modes.
* **Tables by hand.** Client, enumeration and dispatch name 148 calls three times,
  the header table and the accessors name items and widths.

### What makes each component correct

* *Registry*: the id a client holds is the key of its own proxy; a registration
  never replaces a live callback; removal leaves nothing behind; a client misses
  events only behind a hole.
* *Picture mode*: a saved mode is the user's or will be recovered to it; the panel
  shows the saved mode of the current slot; the driver's game mode matches; the
  observer knows the HDR type; the end of film maker content is noticed.
* *Picture data*: independent cells, one per source, timing and mode; a reset or a
  copy touches the cells it names; the panel has the stored data.
* *White balance*: with eye protection blue is halved; a calibration is kept.
* *Settings*: what a setter kept is what its getter answers, and what a load shows.
* *Store*: what the next start accepts is complete; a valid flag vouches for data;
  no accessor reaches another item's bytes; calls end and the service settles.
* *Command channel*: a call alone gets the answer of its own case to its own
  parameters; overlapping calls mix only with each other, unless their splits
  overlap.

## 2. Modules

| Module | What it is |
| --- | --- |
| `CallbackRegistry`, `MCCallbackRegistry`, `CallbackRegistryProofs` | the registry and its clients, one step per access of the map |
| `PictureMode`, `MCPictureMode`, `PictureModeProofs` | the picture mode core of `CPQControl`, one step per handler |
| `StoreAddress` | the index an accessor computes from source, timing, mode, temperature |
| `StoreLayout`, `StoreLayoutProofs` | the header table, the accessors and the bytes they reach |
| `SsmStore`, `MCSsmStore`, `SsmStoreProofs` | the settings store access by access, with deaths, start and recovery |
| `PictureData` | picture parameters of a slot; extends `StoreAddress` |
| `PictureStore` | the abstract specification: independent cells |
| `WhiteBalance`, `MCWhiteBalance`, `WhiteBalanceProofs` | white balance on top of `PictureData`, and the refinement |
| `PqCommands` | the calls of the client and the cases of the service, as tables |
| `CommandChannel`, `MCCommandChannel`, `CommandChannelProofs` | text commands token by token through four unprotected buffers |
| `SettingRows` | one row per setting: where it is kept, gated, checked and loaded |
| `PictureSettings`, `MCPictureSettings`, `PictureSettingsProofs`, `PictureSettingsPanelProofs` | setters, mode and source changes by the threads that run them |

Composition: `PictureData` and `StoreLayout` share the indexes of `StoreAddress`;
`WhiteBalance` extends `PictureData`, each of its calls being a call of the picture
data with its white balance; `PictureSettings` interprets the rows of `SettingRows`;
`CommandChannel` sends the calls of `PqCommands`. `WhiteBalance` implements
`PictureStore` under the mapping at its end.

A definition whose name carries a defect (`...Unchecked`, `...Forgotten`,
`...Swapped`, `...Narrow` and the like) is a variant of the definition after it with
a plausible mistake. Nothing uses it; substituting it for its original must break a
property, which shows that the property can notice that mistake.

### CallbackRegistry

`registry` is the map: a function whose domain is its keys. `operator[]` inserts a
null pointer under a missing key (`Touch`), in the null tests too. A registration
is `RegisterObserver` (client sends, and waits), `RegisterBegin` (the size is
read), `ScanTaken`/`ScanFree`/`ScanEnd` (one key tried per step), `RegisterStore`
(the proxy is stored, the id returned), `AddObserver` (the client adds the observer
to its own map, or nothing for a null one). `DestroyBegin` and `RemoveCallback` are
the two halves of `~PqClient`; `Kill` is the death of a client process, of which
nobody is told. The four notification loops of the service have the same shape and
are one loop: `NotifyBegin` (size), `NotifyCheck` (null test), `NotifySend` (second
look-up and the synchronous transact), `NotifyEnd`. Binder threads (`Workers`) and
event threads (`Notifiers`) interleave between any two of these steps. A transact
of a null pointer kills the service (`down`). A step of the C++ map is atomic; a
torn `std::map` is not modelled.

### PictureMode

All state is one record, `pq`, and each function of `CPQControl` is an operator from a
record to the next; a handler is a composition of them, exactly as the calls nest in the
code, and one action. The record's fields are commented with the member each stands for.
`chosen` (the mode the user last chose per slot), `stranded` (slots whose recovery a
restart forgot) and `inherited` (which of game and PC mode an earlier process left on in
the driver) are history variables, like `settled` and `unpaired` in the record.
`SetPictureMode`, `ResetCurSrcPqUiSetting`, `SSMRecovery`, `SetFilmMakerMode` and
`SetCurrentSource` are commands of `PqService`; `OnSigStatusChange`, `OnHdrChange`,
`OnAllmOrVrrStatusChange` and `StopVdin` the branches of `onUevent` that change this
state; `OnTXStatusChange` and `OnVideoEvent` the handlers of the poll thread; `Boot` is
`CPQControlInit`.

Assumed or left out: handlers run one at a time (what the missing mutex breaks is
in `PictureSettings`). Formats, output type and 3D format matter only in whether
they differ from the recorded ones. `shown` is the slot and mode that were loaded,
not the parameters (`PictureData`). DTV behaves like MPEG except that film maker
mode is for MPEG; only MPEG is here. A slot never saved reads the default slot.
Uninitialised memory is alike in every slot. The video layer is asked for its HDR
type once per handler. The time before `mInitialized` is left out: `Boot` ends
after it. Drivers keep their modes over a process restart, not over a power cycle.

### SsmStore

The store is its header, its three marks, the cells' data and the cells' valid flags,
with `pos` the offset of the one descriptor. A cell with a flag is one of
`SetPictureModeData`, `SetColorTemperatureData`, `SetWhitebalanceGammaData`; one without
is written in a single access. A thread is what is left of its program, a sequence of
accesses: saving a slot is data then flag, reading it is flag then data, a recovery is
erase, defaults, header, marks. `Seek` and `Write` or `ReadAccess` are the halves of one
transfer under `ssm_r_w_op_mutex`; `Truncate` and `Rewind` are the accesses of the
erase, outside it. A transfer after a rewind goes where the offset is by then. The
header is a file of its own with the offset `headPos`, and no mutex guards it:
`SSMRecreateHeader` is the four accesses truncate, seek, section 1 and section 2
(`WriteHeader`), and a section goes where the offset is by now, so overlapping
recoveries can leave a file that is no header. `Boot`, `init` and `Refilled` are the
three parts of the constructor: open the files, verify header and marks, recover if they
do not hold. `Crash` is the death of the process between any two accesses. `raced`
records which calls the last erase overlapped: the code has no defence there, and the
properties say so instead of claiming one.

Left out: the burn-in character, which only shifts addresses, and a transfer cut
in the middle. The header counts as this build's once section 1 is written at the
start of the file, which is all the verification reads; section 2 written there
makes it none, and what is written behind section 1 changes nothing.

### StoreAddress and StoreLayout

`Items` is the header table in the order of the ids, `Addr` the running sum the
constructor of `SSMHandler` computes, and the accessor sets name, for each accessor,
its item, its width and every index its callers pass. An action is one access. The
sizes are the real ones (18 sources, 6 timings, 16 modes, 6 temperatures).

### PictureData, PictureStore and WhiteBalance

`mem` is indexed by the index the code computes, not by the triple, so that modes
past `MAX_PICTUREMODE_INDEX` really share the slots of the next timing. `DataIn` is
the read with its fall back to the default source, `FromRow` the query with the
fields a row lacks left as they were. `ResetDataOf` is a loop over slots of which
two may share an index: the later wins. `panel` is what the hardware was loaded
with, `mbResetPicture` the flag that makes the same mode load again.
`WhiteBalance` joins each of these calls with what it does to gains and gamma,
since every load ends in `Cpq_SetWhitebalance`. `rgb` and `curve` are the
hardware's values, `by` what wrote `rgb` last, `dirty` that stored values were
changed after the last load (the factory setters and resets do that by design).
`PictureStore` has a cell per (source, timing, mode) and four things that can
happen to cells: save, copy along the sources, restore a scope, nothing.

Abstracted: a set of parameters is the database row it came from or `User`; gains
say where they came from and how often blue was halved; a curve is zero or set.
Gains from the database that the code halves twice are still "halved".

### PqCommands and CommandChannel

`TextCalls` has one entry per text function of the client: verb, id and number of
parameters as sent, values read; `SetCases` and `GetCases` one per case of the
service, with the parameters the case takes and the values it prints;
`ParcelCalls` and `Writes` the calls with a transaction code of their own, field by
field. `CommandChannel` sends any of them token by token. `SplitCommand` is the first
call of `strtok`; `AssignToken` stores what it returned in the shared `mPqCommand`
and counts it, `NextToken` asks for the next one. `position` is what `strtok` has
left to split, one for each process: a split goes on with whatever text the process
split last, so of two that overlap one may take the other's tokens and the other may
find nothing more and leave its positions with an earlier command's. Then come
`ParseId`, `ParseParams` (as many as the thread counted), `Run`, `PrintAnswer` (the
shared `mRetBuf`), `Reply`, and the client's `Copy`, `SplitRetBuf`, `KeepValue` and
`CutValue` (the same `strtok`, in the client's process) and `Take`. Values are
symbols: which case printed them from whose parameters. `met` and `torn` are history:
the calls under way during a call, and the threads that split or parse while two
splits overlap.

A thread makes one call; a client's next call is another thread's. A call of `strtok`
is one step and a token is assigned whole. Calls of `strtok` that overlap inside the
library could also return a token twice, or rubbish, but only to torn calls, of which
nothing is claimed. A split stops at the twentieth string of `mPqCommand`
(`MaxTokens`); the code has no bound, and what it would write behind it is undefined.

### SettingRows and PictureSettings

A row says where a setting is kept (the mode's row, a byte per source or per source
and MEMC mode, one byte, a field of a record), which configuration flag gates the
hardware, which values it refuses, bends or skips, whether it is saved before the
hardware or whatever `is_save` says, and what of it a load shows. A setter's program
is made from its row: read the current mode, read the row or record whole, write the
panel, write it back. `SetPQMode` and `Switch` (both `SetCurrentSource` and
`SetCurrentSourceInputInfo`) are programs too, the latter under `PqControlMutex`;
`Restart` is a new process, whose constructor (`Main`) loads the default source
before any other thread runs. `promised`, `settled` and `clash` are history: what
getters owe, which settings the panel owes, which calls overlapped one that writes
the same record or moves the slot. Lost updates between such calls are what the
code does; `clash` takes them out, and the properties are about the rest.

Inputs are the ends of each range and one step past them where the code looks; where
it does not, only legal values. The callback `SetCurrentSourceInputInfo` makes under
the lock is not here (section 7).

## 3. Runs

| Run | Instance | What it shows |
| --- | --- | --- |
| `registry` | 3 clients, 2 binder threads, 1 event thread | ids, overwriting, stale entries, bounded misses, death of the service only after a removal |
| `mode_game` | HDMI1 and video, game hints, cinema content, process restarts | saved modes explained, panel and saved mode agree, game mode only on HDMI |
| `mode_hdr` | HDMI1 with SDR and Dolby Vision | the same while the slot moves; the observer is told; last modes are the user's |
| `mode_video` | video with film maker flags, a type without timing, uninitialised arrays | film maker recovery and HDR reports |
| `ssm_store` | 2 threads, 2 mode slots (one with a row), a byte; 3 calls, 1 death | completeness, flags, reads, termination, settling |
| `store_layout` | the real sizes, every accessor, every index | nobody reaches another item; what the modes past the slots reach |
| `picture_data` | 3 sources, 2 timings, 3 modes with slots for 2; 3 calls from every start | panel, eye protection, calibration, copies, and the refinement |
| `commands` | every function beside a setter or a getter of several values, on 2 threads of 1 or 2 clients; a setter, a getter and a getter with a setter's id on 3 threads of one | answers match; what overlapping calls run on |
| `settings` | 18 groups of settings that share something, 3 signals, 2 modes, all flags on and all off; 3 calls, 1 restart | what was set is kept and shown |
| `settings_overlap` | 2 binder threads and the event thread, 2 signals; 3 calls | the same under interleaving; calls end |
| `recovery_power`, `commands_getter` | smallest instance each | a comment and a test that the code does not keep (section 5) |

### Properties

* `NoLiveOverwrite`: a registration whose scan no other store overlapped writes to
  a free key. (Two overlapping ones do take the same key; the model has it, and
  `overlapped` is how the property says so.)
* `CookieOwnsSlot`, `NoStaleEntry`: until a never-registered client sent its
  uninitialised id or overlapping registrations collided, ids are keys of their own
  proxy, and what is left in the map belongs to killed clients or to repeated
  registrations.
* `MissesBounded`: behind a hole the loop does not reach the last client, but each
  pass fills a hole, so a client misses no more events in a row than callbacks were
  removed (times the number of event threads).
* `DownNeedsRemoval`: the null transact needs a removal.
* `StoredExplained`: a saved mode is the user's, or GAME or FILM_MAKER with its
  flag set, except in slots a restart stranded.
* `LastIsChosen`: the mode a recovery returns to is the user's.
* `ShownIsStored`: the panel shows the saved mode of the current slot whenever no
  statement moved the slot or the settings without loading.
* `GameOffElsewhere`: outside HDMI `mGamemode` is off and so is the driver's PC mode,
  and the driver's game mode agrees with `mGamemode`, but for the modes an earlier
  process left on: the load at the start writes neither.
* `FilmMakerRecoverable`, `HdrTold`: the end of film maker content is seen as a
  change; the observer knows the HDR type; except for what happened before the
  observer existed.
* `AcceptedIsComplete`: header and marks that the next start accepts stand for a
  value of every setting the defaults name, at every instant, so after a death
  anywhere. Two overlapping recoveries are excluded: the erase has no mutex.
* `FlagMeansData`: a valid flag has data under it, unless an erase overtook a save.
* `ReadMeansData`: a read that finds its flag returns data. It is an action property
  because a flag torn by an erase stays readable until the next erase, so there is
  no state in which it could be said afterwards.
* `CallsEnd` (both models), `Settles`: every call ends, whoever holds the mutex;
  once deaths stop, the service stays up on a store the next start accepts, unless
  its last recoveries overlapped (one may write its second section where the other
  has just rewound to); and a start that no death cuts off ends on an accepted store,
  also after such a pair.
* `OwnItem`, `SpillReachesDefault`, `SlotUnshared`: the only accesses outside their
  item are those of the two modes past the slots in the last timing of the last
  source, and they hit the colour temperature of the default source; two slots share
  bytes only if exactly one of the modes is past the slots.
* `PanelStored`: as long as nothing changed behind the hardware's back it has the
  stored data of the current mode and the stored points of its temperature.
* `EyeProtects`, `CalibrationKept`, `CopyShown`: section 2.
* `StoreImplemented`: the refinement of `PictureStore` on the slots no other mode
  shares; on shared slots it is false, which is why `Unshared` is in the mapping.
* `AnswersMatch`: a call that no other ran into answers for its own case and
  parameters, for all functions but the three sets section 5 lists.
* `NothingInvented`: as long as no two splits overlap while a call is split and
  parsed, the id, the verb and the parameters it runs come from calls that were under
  way during it, never from one already answered, whatever else overlaps. Where two
  splits do overlap this is false, since `strtok` has one position, and the model
  reaches that; those calls are `torn`.
* `Kept`: what a setter kept, its getter answers in that mode of that source until
  it is set again, whatever other settings, modes, sources and restarts do.
* `PanelFollows`: between calls every setting that is due shows its kept value.

### Bounds

`MaxObservers` bounds the registrations of a client, `MaxMisses` the events it may
miss in a row before the loop is not started again. Three clients are the fewest
that show a hole with a client behind it while another registers. `PictureMode`
needs no bound: commands, events and restarts are unlimited, the state is finite;
one HDMI source stands for four, since a slot of another source changes only in the
commands that name it, and one user mode tells the user's choice from GAME and
FILM_MAKER. The game run's user mode is MONITOR, the only one that also switches PC
mode.

`MaxJobs` and `MaxCrash` (store): a save, a read and a recovery in any order with a
death between any two of their accesses; a second death only repeats the start. The run
has no gamma slot: one is read and written like a mode slot, data and flag, and the
proofs cover both. `MaxOps` (picture data): every property is about one call after two
arbitrary ones, from every start; the proofs remove the bound. `MaxCalls` and `MaxKills`
(settings): a setting is set, another or the mode changes, and the first is looked at,
with a restart anywhere. `SettingGroups` puts together the settings that share a row, a
record or a register, and pairs the others off. `Uses` (commands): the first thread
calls every function, the second two that stand for the shapes a command has, and the
third is there so that a call can arrive between the splits of two others, or split when
two others left the words of an answered command. The constraint `InScope` leaves out
what follows once every call is torn, of which no property speaks, takes the third call
only beside short ones of the same client, lets it begin after the first, and not beside
two torn ones; the proof has none of it. `CHECK_DEADLOCK FALSE` is set in the registry,
where the service may be dead and all clients gone, and in the runs whose calls are
bounded, which stop when the calls are used up.

### Fairness

`SsmStore` assumes weak fairness of each thread's `Step`, of `Boot`, `init` and
`Refilled`: threads are scheduled, and init restarts a dead service. No call and no
death is fair. A thread that waits for the mutex needs no strong fairness: the
others' calls are bounded. `PictureSettings` assumes only that some thread that can
go on does: as calls are bounded, a thread put off for ever is alone in the end.
The other models state safety only: their handlers terminate by construction.

## 4. Proofs

Everything is proved for all values of the constants, from the `ASSUME`s of the
modules, named there: disjoint sources, positive sizes, rows among the modes, a
null value that is no value, finitely many event threads (`ThreadAssumption`), as
many per-source bytes as slots (`LayoutAssumption`), signals closed under the fall
back to SDR that leaving a source makes (`SettingAssumption`). The runs evaluate
the assumptions.

**CallbackRegistryProofs.** `TypeCorrect` needs, beside `TypeOK`, that a busy worker
serves a client (`Serving`). `NoOverwrite` is not inductive: that the size is a free
key holds because the scan found every key below it live. `RegistryInv` says it for
the scan in progress: as long as no store overlapped, the keys that were live when
the scan began contain every live key, are no more than the size read, and
include every key below the position; at the end a pigeonhole argument gives that
the key `size` is free. `CookieCorrect` needs `OneCallEach`: a client is served by
one worker and only while it waits. `NothingStale` (`LeftInv`): a client registered
once has its proxy under its own id or nowhere. `MissesAreBounded` needs to know how
many holes passes have filled, and no variable says so: the invariant (`Audited`)
asserts that there *are* accounts of the fills, of the keys each pass began with and
of the fills each miss is charged to, each charge being made once per event thread;
`removals + Size` is the fills plus the highest key ever used. The same accounts give
`DownOnlyByRemoval`.

**PictureModeProofs.** A handler is a composition, so the proof is one lemma per
operator. `Frame(s, t)`: `t` is well typed and has the same books (saved modes, last
modes, both flag sets) as `s`; `Good`: the books are in order. Loading and moving
operators are frames; the game and film maker operators keep `Good`; the two
commands that save both modes move the user's choice along. From the invariant
follow `TypeCorrect` (both configurations), `BooksInOrder` and `RecoveryTarget`
(new configuration: in the old one they are false, section 5). `StoredExplained`
alone does not say where a recovery leads, hence the strengthening.

The other four properties of the picture mode are proved operator by operator too.
Operators that save or load a mode leave the place and what the observer knows alone
(`Apart`) and write the driver's game mode together with `mGamemode` or not at all
(`Linked`); a load makes the hardware agree whatever it showed before, an early return
keeps what held (`Keeps`). `HardwareAgrees`, `DriversAgree`, `ObserverInformed` and
`FilmMakerEnds` hold in both configurations. The attempt on `GameOffElsewhere` corrected
it: with MONITOR among the user's modes a process that dies in PC mode leaves the
driver's PC mode on for the next, which an instance without MONITOR does not show.

**SsmStoreProofs.** Three layers. `Base`: types, what the programs still hold (a
program is always a tail of the one its call started with) and that the owner of
the mutex stands at its own place unless an erase moved it. `Flags` adds that a slot
with a flag is whole or that its erase is recorded, and that whoever read a flag is
backed by data. `Vouched` adds what a recovery in progress still has to write
(`AllComing`): the marks are the last thing written, so a store with all of them is
complete or was raced. Theorems `TypesHold`, `FlagsVouch`, `ReadsReturnData`,
`MarksVouchForData`, for any cells, threads, calls and deaths and in both
configurations (the run has the new one only).

**StoreLayoutProofs.** `SlotsApart`: an index is a number in mixed digits and a digit
smaller than its base can be read back; a mode past its base loses only the timing,
to the next one. It assumes that there are at most twice as many modes as slots.
`ItemsKept` has to know the address of every item, which is a sum over the header
table: that the recursive `Addr` has the values its equation says follows from the
existence of such a function on every initial segment (a least segment without one
is a contradiction). Each accessor with each index its callers pass then fits its
item; the mixed digits bound the array accessors. `SpillTakesDefault` has a
hypothesis: the modes without a slot take no more bytes than the temperatures of one
source and timing, in the source 2 * 124 of 6 * 44.

**CommandChannelProofs.** From `ChannelAssumption` (calls of the tables, names that
are no thread's). `AnswersFromTheLiving` is `NothingInvented`: `Apart` says that
overlapping splits leave nobody they could have disturbed untorn, so an untorn split
has the rest of its own text behind `strtok` and has assigned exactly the tokens it
counted (`SplitSo`); every position it counted holds a token of that position from a
call that met it, its own or one that wrote over it since (`Found`), and the
invariant follows id, parameters and verb from there to the answer (`ModuleMet`,
`ArgsMet`, `RanMet`). `AloneAnswered` (`SoloInv`): a call that met no
other finds its own token at every place, in the service's split and in the client's,
by one lemma that says a step of a call
under way matters to no call that is still alone; and the tables of both sides are
gone through once for all functions (`AnsweredAlone`): what the case prints is what
the function reads, but for the calls section 5 lists.

**PictureSettingsProofs.** A thread is what is left of its program, so the invariants
speak of program tails, whose finite sets are spelt out (`SetLeft`, `ModeLeft`,
`Inside`, `BootLeft`, `InfoLeft`). Five layers. `Shape` and `Places`: each thread is
where a call of its kind can be. `Owner`: a thread stands inside `PqControlMutex`
exactly when it owns it, which is mutual exclusion (`OwnerHolds`). `Overlap`: of two
conflicting calls under way each was told, and nothing is promised of what they
touch. `Record`, for `ValuesKept`: a record that was read to be written back whole
still holds every promised value of its fields (`RowKept`), and a setter that has
written and was told of nothing finds its value at the place its getter reads now
(`WriteKept`), although other calls may change mode, source or MEMC level meanwhile.
`Kept` alone is not inductive: a write of one setting puts back the whole row as it
was read earlier. `Values`, for `TypeHolds`: what is in the file, in rows that were
read and in the registers are values of their settings; the mode of MEMC, which the
code uses as an index, stays in 0..3. The attempt corrected the model: a thread whose
change of source had returned, and that had only the mutex to give back, could be
counted as in conflict for ever (`Working`).

**PictureSettingsPanelProofs.** `PanelFollows` speaks of states in which no call is
under way; its invariant has to say for every state what the panel still lacks.
`PanelInv`: a setting that is to be shown either is (`Follows`), or some call at work
has it in `Off`, the settings that by what is left of its program it will show, or
declare not shown, before it ends. An access either belongs to another call, and
then leaves `Off` and what a clear call relies on alone (`OffOther`, `Undisturbed`),
or belongs to the covering call, and then there is one lemma per access (`...Covers`).
When the last access is made `Off` becomes empty, so the setting must be shown by
then. That takes four more invariants. `Kinds`: a setter's program is one for its
setting. `Alone`: the constructor runs alone, and changes of source, which take the
mutex, one at a time. `Facts`: a call that overlaps no conflicting one finds the row
it read, the value it wrote and the level it showed unchanged at each later access:
the row that `SetPQPictureMode` shows is still that of the mode, the DisplayMode that
was shown first is still shown at the end. `Marks`: only settings with a register of
their own are ever to be shown, and a setter that was overlapped touches none of
them but the colours, whose switch is loaded with a copy compared to the file.
Theorems `AloneHolds`, `FactsHold`, `MarksHold`, `PanelInvHolds`, `PanelAgrees`. The
attempt corrected the model: `SettledByMode` counted the display mode on HDMI as
shown by a change of mode even when a stored value of the row is refused, with which
`SetPQPictureMode` fails and `SetPQMode` returns before `SetDisplayMode`
(`RowRefused`). TLC confirms it on a group with both settings and five calls, two
more than the runs have: a super resolution the panel refuses is saved, the display
mode is previewed, and two changes of mode return to the refused row.

**WhiteBalanceProofs.** `TypesHold` rests on the index of a slot lying within the
slots and on the last slot of a loop existing (well-founded induction on the loop
number). `EyesProtected`, `CalibrationStays` and `CopiesShown` follow with it;
`CopiesShown` is the argument that reading back the copied slot through the other
mode's fall back gives the same data. `StoredIsShown` needs `WbDefaults`: the gamma
slots of the default source are never given up, so every level has points.
`ImplementsStore` maps each call to one step of `PictureStore`: a slot written is a
save of its cell or, if another mode has the same slot, of no cell; a loop over any
slots restores exactly the cells of its scope (`LoopRestores`); the copy along the
sources overwrites exactly the cells it names.

Every invariant, action property and refinement of the runs is proved. Only
model-checked: `CallsEnd` (both models) and `Settles`, since liveness and `ENABLED` are
out of the prover's reach.

## 5. Where code, comments and tests disagree

Shown by a run:

1. `CPQControl.cpp:8581` "remember which src + which timming done game setting, for
   next time to recovery": the flag is in memory, the mode in the file. After a
   restart in game mode the slot keeps GAME (`recovery_power`).
2. `PqClient.cpp:1235`: `GetMpegNr` asks with the setter's id; `GetCmd` has no such
   case and answers 0, which `main_pqtest.cpp:294-295` prints as the current mode
   (`commands_getter`).

Met while modelling; the models have each of them, no run is about them:

* Picture mode. `CPQControl.cpp:8586` "recovery to last pq mode": in the old
  configuration `LoadPQSettings` (911-913) saves the current mode as last mode, so
  the recovery returns to GAME. 10033: without an observer film maker mode is set
  but not remembered, so its end is no change. 1264 and 1862: game mode is written
  only on a change of a copy that a new process starts as off. 1696-1697 "Same PQ
  mode,no need set again!" compares with the saved mode, not with the one shown.
* Store. Fourteen slots per timing for sixteen modes (`PQType.h:30`), so a reset that
  "only affects the currently active source/format" (`PqClient.h:238-240`) may change
  the next timing's mode. The copy to all sources stops at `PQ_FMT_MAX`
  (`CPQControl.cpp:10692`; `PqClient.h:253-257` promises every source). Without its
  database the old configuration saves parameters it could not read. The header is
  rewritten without a mutex (`SSMHandler.cpp:135-151`), so overlapping recoveries can
  leave one the next start refuses; it then recovers again, over the user's settings.
* White balance. The factory getters write the calibration file.
  `SetColorTempParams` stores blue as halved by eye protection, so it is halved
  again when loaded. `SetWhitebalanceGamma` has no effect on the hardware until the
  calibration file has points, and the gamma is not loaded before `mInitialized`.
* Commands. `GetEyeProtectionMode` sends fewer parameters than its case takes
  (`Short`). `GetMpegNr`, `FactoryGetNolineParams`, `FactorySetSharpnessParams` and
  both `HdmiColorRangeMode` functions send another id or verb than their name says
  (`Misaddressed`). `GetColorTemperatureUserParam` and
  `GetALLDefaultPQParameterValues` (with fewer than 21 points) read other fields
  than are written (`Misread`). `HAS_AIPQ` always answers 0. A getter that is
  overlapped by a setter may run the setter with zero parameters. `strtok` keeps one
  position for all binder threads (`PqService.cpp:71`, 80) and one for all threads of
  a client (`PqClient.cpp:111`, 120): of two commands split at the same time one may
  run with the id or the parameters of a command answered long ago.
* Settings. With the colour customisation off in the file, after a restart
  `SetColorTuneEnable(1)` shows nothing: the cached copy starts as 1
  (`CPQControl.h:764`, `CPQControl.cpp:5292`). The 3D table's setter scales the
  edited colour only and shows the others raw (5459-5481); the table is never loaded
  at start. `SetSaturation` outside NTSC resets the hue part. A preview of a mode
  shows the saved mode's saturation. `SuperResolution` is saved before the panel
  refuses it. The range check of the brightness (`< 0 && > 100`) never holds; MEMC
  and gamut have none. Deblock and mosquito reduction are overwritten by the load of
  MPEG noise reduction; the backlight is not loaded with a mode; smooth plus is
  always loaded as off. Gamut and dark detail always answer 0.

## 6. Plan

Done: registry, picture mode, store, layout, picture data with its abstract
specification, white balance, commands and their channel, settings and locking, and the
proofs of every safety property of these. Next, in this order:

1. **DynamicBackLight.** The ramp over bounded inputs against a reference, and the
   thread with its gate: it settles under fairness.
2. **UEventMatch.** The match list against a set of strings.

## 7. Not modelled, and why

* The synchronous callback under `PqControlMutex` (`CPQControl.cpp:8399`): whether
  the waiting client answers is decided in its own process, and a client that calls
  back in its handler waits for itself. No property of this code excludes it.
* Overscan, non-linear curves, luma, test patterns and sharpness registers: they
  write the database or a register and keep no state; their commands and their
  bytes are in `PqCommands` and `StoreLayout`.
* `CDynamicBackLight`: its mode is a row of `SettingRows`; the thread steps by at
  most 5 towards a level computed from histograms of the driver, reads everything
  again every 30 ms and keeps nothing else (in the plan).
* `CPQdb`, `COverScandb`, `CSqlite` beyond the rows used; `CConfigFile` (read once).
* `CAmdolbyVision` (a library outside the repository), `GammaOperation` (floating
  point), `Minizip` and `miniz` (vendored), file and log helpers, test programs
  (front ends of the client, read for how the commands are used).
* The loops of the poll and uevent threads: their handlers are in `PictureMode`; the
  service adds its matches at start and never removes one.
