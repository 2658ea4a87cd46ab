--------------------------- MODULE CallbackRegistry ---------------------------
(***************************************************************************)
(* The callback registry of the picture-quality service.                   *)
(*                                                                         *)
(* PqService keeps std::map<int, sp<IBinder>> mPqServiceCallBack.  Clients *)
(* register their proxy (CMD_SET_PQ_CB) and remove it by the id they were  *)
(* given (CMD_CLR_PQ_CB, sent by ~PqClient); the libpq threads walk the    *)
(* map to deliver HDR type, game mode, film maker and refresh rate events. *)
(* Nothing locks the map: binder threads (Workers) and the uevent and poll *)
(* threads (Notifiers) interleave between any two accesses of it.  A       *)
(* single access (operator[], erase, size) is one step.                    *)
(***************************************************************************)
EXTENDS Naturals, Integers, FiniteSets

CONSTANTS
  Clients,        \* PqClient objects, one per client process incarnation
  Workers,        \* binder threads of the service that serve registrations
  Notifiers,      \* threads of libpq that deliver events to the clients
  None,           \* a null sp<IBinder>
  StrayIds,       \* values an uninitialised mpqServicebinderId may hold
  MaxObservers,   \* bound: registrations one client makes
  MaxMisses       \* bound: consecutive missed events that are counted

ASSUME NoneAssumption  == None \notin Clients
ASSUME StrayAssumption == StrayIds \subseteq Int
ASSUME BoundAssumption == MaxObservers \in Nat /\ MaxMisses \in Nat
ASSUME ThreadAssumption == IsFiniteSet(Notifiers)

VARIABLES
  registry,       \* mPqServiceCallBack: a function whose domain is its keys
  phase,          \* per client: "up", "calling", "adding", "closing", "gone"
  cookie,         \* per client: mpqServicebinderId
  observers,      \* per client: size of mPqClientObserver
  registrations,  \* per client: CMD_SET_PQ_CB answered so far (history)
  killed,         \* clients whose process died without a destructor (history)
  worker,         \* per worker: [pc, client, size, pos] of SetClientProxyToServer
  seen,           \* per worker: the live keys when its call began (history)
  overlapped,     \* per worker: another call stored since it began (history)
  disturbed,      \* a stray removal or an overwriting store happened (history)
  notifier,       \* per notifier: [pc, size, pos, todo] of a notification loop
  misses,         \* per client: consecutive events it did not get (history)
  removals,       \* entries erased from the map (history)
  down            \* the service died on a null callback

clientVars  == <<phase, cookie, observers, registrations, killed>>
workerVars  == <<worker, seen, overlapped, disturbed>>
notifyVars  == <<notifier, misses, down>>
vars == <<registry, clientVars, workerVars, notifyVars, removals>>

(***************************************************************************)
(* The std::map.                                                           *)
(***************************************************************************)
Size == Cardinality(DOMAIN registry)

\* What operator[] yields for key k; a missing key yields a null pointer.
Lookup(k) == IF k \in DOMAIN registry THEN registry[k] ELSE None

Put(k, v) ==
  [j \in DOMAIN registry \cup {k} |-> IF j = k THEN v ELSE registry[j]]

\* Reading through operator[] inserts a null pointer under a missing key.
Touch(k) == Put(k, Lookup(k))

Erase(k) == [j \in DOMAIN registry \ {k} |-> registry[j]]

Live == {k \in DOMAIN registry : registry[k] # None}

Holds(c) == \E k \in DOMAIN registry : registry[k] = c

Idle == [pc |-> "idle", client |-> None, size |-> 0, pos |-> 0]

Quiet == [pc |-> "idle", size |-> 0, pos |-> 0, todo |-> {}]

TypeOK ==
  /\ DOMAIN registry \subseteq Nat
  /\ IsFiniteSet(DOMAIN registry)
  /\ \A k \in DOMAIN registry : registry[k] \in Clients \cup {None}
  /\ phase \in [Clients -> {"up", "calling", "adding", "closing", "gone"}]
  /\ cookie \in [Clients -> Int]
  /\ observers \in [Clients -> Nat]
  /\ registrations \in [Clients -> Nat]
  /\ killed \subseteq Clients
  /\ worker \in [Workers -> [pc : {"idle", "scan", "store"},
                             client : Clients \cup {None},
                             size : Nat, pos : Nat]]
  /\ seen \in [Workers -> SUBSET Nat]
  /\ overlapped \in [Workers -> BOOLEAN]
  /\ disturbed \in BOOLEAN
  /\ notifier \in [Notifiers -> [pc : {"idle", "check", "send"},
                                 size : Nat, pos : Nat,
                                 todo : SUBSET Clients]]
  /\ misses \in [Clients -> Nat]
  /\ removals \in Nat
  /\ down \in BOOLEAN

\* PqClient() leaves mpqServicebinderId uninitialised, so each client starts
\* with any of the stray values.
Init ==
  /\ registry = [k \in {} |-> None]
  /\ phase = [c \in Clients |-> "up"]
  /\ cookie \in [Clients -> StrayIds]
  /\ observers = [c \in Clients |-> 0]
  /\ registrations = [c \in Clients |-> 0]
  /\ killed = {}
  /\ worker = [w \in Workers |-> Idle]
  /\ seen = [w \in Workers |-> {}]
  /\ overlapped = [w \in Workers |-> FALSE]
  /\ disturbed = FALSE
  /\ notifier = [n \in Notifiers |-> Quiet]
  /\ misses = [c \in Clients |-> 0]
  /\ removals = 0
  /\ down = FALSE

(***************************************************************************)
(* RegisterObserverToPqClient: the client sends its proxy, waits for the   *)
(* id, then adds the observer to its own map.                              *)
(***************************************************************************)
RegisterObserver(c) ==
  /\ ~down
  /\ phase[c] = "up"
  /\ registrations[c] < MaxObservers
  /\ phase' = [phase EXCEPT ![c] = "calling"]
  /\ UNCHANGED <<registry, cookie, observers, registrations, killed,
                 workerVars, notifyVars, removals>>

\* A null observer is registered with the service all the same.
AddObserver(c, isNull) ==
  /\ phase[c] = "adding"
  /\ phase' = [phase EXCEPT ![c] = "up"]
  /\ observers' = IF isNull THEN observers
                  ELSE [observers EXCEPT ![c] = @ + 1]
  /\ UNCHANGED <<registry, cookie, registrations, killed, workerVars,
                 notifyVars, removals>>

(***************************************************************************)
(* SetClientProxyToServer on a binder thread: the size is read once, the   *)
(* keys below it are tried in turn, and the proxy is stored in the first   *)
(* null slot or under the size itself.                                     *)
(***************************************************************************)
RegisterBegin(w, c) ==
  /\ ~down
  /\ phase[c] = "calling"
  /\ worker[w].pc = "idle"
  /\ \A v \in Workers : worker[v].client # c
  /\ worker' = [worker EXCEPT ![w] = [pc |-> "scan", client |-> c,
                                      size |-> Size, pos |-> 0]]
  /\ seen' = [seen EXCEPT ![w] = Live]
  /\ overlapped' = [overlapped EXCEPT ![w] = FALSE]
  /\ UNCHANGED <<registry, clientVars, disturbed, notifyVars, removals>>

\* mPqServiceCallBack[i] != NULL: try the next key.
ScanTaken(w) ==
  /\ ~down
  /\ worker[w].pc = "scan"
  /\ worker[w].pos < worker[w].size
  /\ Lookup(worker[w].pos) # None
  /\ worker' = [worker EXCEPT ![w].pos = @ + 1]
  /\ UNCHANGED <<registry, clientVars, seen, overlapped, disturbed,
                 notifyVars, removals>>

\* A bug the checks must notice: the scan takes a key without a null test.
ScanFreeUntested(w) ==
  /\ ~down
  /\ worker[w].pc = "scan"
  /\ worker[w].pos < worker[w].size
  /\ registry' = Touch(worker[w].pos)
  /\ worker' = [worker EXCEPT ![w].pc = "store"]
  /\ UNCHANGED <<clientVars, seen, overlapped, disturbed, notifyVars,
                 removals>>

\* mPqServiceCallBack[i] == NULL: this key is chosen (and now exists).
ScanFree(w) ==
  /\ ~down
  /\ worker[w].pc = "scan"
  /\ worker[w].pos < worker[w].size
  /\ Lookup(worker[w].pos) = None
  /\ registry' = Touch(worker[w].pos)
  /\ worker' = [worker EXCEPT ![w].pc = "store"]
  /\ UNCHANGED <<clientVars, seen, overlapped, disturbed, notifyVars,
                 removals>>

\* A bug the checks must notice: the last key instead of the next one.
ScanEndOffByOne(w) ==
  /\ ~down
  /\ worker[w].pc = "scan"
  /\ worker[w].pos = worker[w].size
  /\ worker' = [worker EXCEPT ![w].pc = "store", ![w].pos = @ - 1]
  /\ UNCHANGED <<registry, clientVars, seen, overlapped, disturbed,
                 notifyVars, removals>>

\* The loop ended with cookie < 0: the key is the size read at the start.
ScanEnd(w) ==
  /\ ~down
  /\ worker[w].pc = "scan"
  /\ worker[w].pos = worker[w].size
  /\ worker' = [worker EXCEPT ![w].pc = "store"]
  /\ UNCHANGED <<registry, clientVars, seen, overlapped, disturbed,
                 notifyVars, removals>>

\* A client that loses an entry is no longer owed the events in progress.
Released(k, v) ==
  IF Lookup(k) \in Clients /\ v # Lookup(k)
  THEN [n \in Notifiers |->
          [notifier[n] EXCEPT !.todo = @ \ {Lookup(k)}]]
  ELSE notifier

\* A bug the checks must notice: the reply carries the size, not the key.
RegisterStoreSizeReplied(w) ==
  LET c == worker[w].client
      k == worker[w].pos
  IN /\ ~down
     /\ worker[w].pc = "store"
     /\ registry' = Put(k, c)
     /\ disturbed' = (disturbed \/ Lookup(k) # None)
     /\ overlapped' = [v \in Workers |-> overlapped[v] \/ v # w]
     /\ worker' = [worker EXCEPT ![w] = Idle]
     /\ registrations' = [registrations EXCEPT ![c] = @ + 1]
     /\ IF phase[c] = "calling"
        THEN /\ phase' = [phase EXCEPT ![c] = "adding"]
             /\ cookie' = [cookie EXCEPT ![c] = worker[w].size]
        ELSE UNCHANGED <<phase, cookie>>
     /\ notifier' = Released(k, c)
     /\ UNCHANGED <<observers, killed, seen, misses, down, removals>>

\* The proxy is stored and the id goes back to the client in the reply.
\* A client killed meanwhile leaves its proxy behind.
RegisterStore(w) ==
  LET c == worker[w].client
      k == worker[w].pos
  IN /\ ~down
     /\ worker[w].pc = "store"
     /\ registry' = Put(k, c)
     /\ disturbed' = (disturbed \/ Lookup(k) # None)
     /\ overlapped' = [v \in Workers |-> overlapped[v] \/ v # w]
     /\ worker' = [worker EXCEPT ![w] = Idle]
     /\ registrations' = [registrations EXCEPT ![c] = @ + 1]
     /\ IF phase[c] = "calling"
        THEN /\ phase' = [phase EXCEPT ![c] = "adding"]
             /\ cookie' = [cookie EXCEPT ![c] = k]
        ELSE UNCHANGED <<phase, cookie>>
     /\ notifier' = Released(k, c)
     /\ UNCHANGED <<observers, killed, seen, misses, down, removals>>

(***************************************************************************)
(* ~PqClient: mInstance is cleared, then CMD_CLR_PQ_CB carries the id.     *)
(***************************************************************************)
DestroyBegin(c) ==
  /\ phase[c] = "up"
  /\ phase' = [phase EXCEPT ![c] = "closing"]
  /\ UNCHANGED <<registry, cookie, observers, registrations, killed,
                 workerVars, notifyVars, removals>>

\* A bug the checks must notice: id 0 is refused too.
RemoveCallbackZeroRefused(c) ==
  LET k == cookie[c]
  IN /\ ~down
     /\ phase[c] = "closing"
     /\ phase' = [phase EXCEPT ![c] = "gone"]
     /\ registry' = IF k <= 0 THEN registry ELSE Erase(k)
     /\ disturbed' = (disturbed \/ registrations[c] = 0)
     /\ notifier' = IF k <= 0 THEN notifier ELSE Released(k, None)
     /\ removals' = IF k > 0 /\ k \in DOMAIN registry THEN removals + 1
                    ELSE removals
     /\ UNCHANGED <<cookie, observers, registrations, killed, worker, seen,
                    overlapped, misses, down>>

\* RemovePqServiceCallBack: a negative id is refused, any other is erased,
\* whosever entry it is.
RemoveCallback(c) ==
  LET k == cookie[c]
  IN /\ ~down
     /\ phase[c] = "closing"
     /\ phase' = [phase EXCEPT ![c] = "gone"]
     /\ registry' = IF k < 0 THEN registry ELSE Erase(k)
     /\ disturbed' = (disturbed \/ registrations[c] = 0)
     /\ notifier' = IF k < 0 THEN notifier ELSE Released(k, None)
     /\ removals' = IF k \in DOMAIN registry THEN removals + 1 ELSE removals
     /\ UNCHANGED <<cookie, observers, registrations, killed, worker, seen,
                    overlapped, misses, down>>

\* The client's process dies: nobody asked to be told, so the entry stays.
Kill(c) ==
  /\ phase[c] # "gone"
  /\ phase' = [phase EXCEPT ![c] = "gone"]
  /\ killed' = killed \cup {c}
  /\ UNCHANGED <<registry, cookie, observers, registrations, workerVars,
                 notifyVars, removals>>

(***************************************************************************)
(* SetHdrType, SetAllmGameMode, SetFilmMakerMode and SetRefreshRate share  *)
(* one loop: size once, then for each key below it a null test and, in a   *)
(* second access, the synchronous transact.                                *)
(***************************************************************************)
Reachable(c) == phase[c] \in {"up", "calling", "adding"} /\ observers[c] > 0

NotifyBegin(n) ==
  /\ ~down
  /\ notifier[n].pc = "idle"
  /\ notifier' = [notifier EXCEPT ![n] =
       [pc |-> "check", size |-> Size, pos |-> 0,
        todo |-> {c \in Clients : Holds(c) /\ Reachable(c)}]]
  /\ UNCHANGED <<registry, clientVars, workerVars, misses, down, removals>>

\* Two bugs the checks must notice: the test does not fill the hole it
\* finds; the loop sends before it tests anything.
NotifyCheckByFind(n) ==
  LET i == notifier[n].pos
  IN /\ ~down
     /\ notifier[n].pc = "check"
     /\ i < notifier[n].size
     /\ notifier' = IF Lookup(i) = None
                    THEN [notifier EXCEPT ![n].pos = @ + 1]
                    ELSE [notifier EXCEPT ![n].pc = "send"]
     /\ UNCHANGED <<registry, clientVars, workerVars, misses, down, removals>>

NotifyCheckDoWhile(n) ==
  /\ ~down
  /\ notifier[n].pc = "check"
  /\ notifier' = [notifier EXCEPT ![n].pc = "send"]
  /\ UNCHANGED <<registry, clientVars, workerVars, misses, down, removals>>

NotifyCheck(n) ==
  LET i == notifier[n].pos
  IN /\ ~down
     /\ notifier[n].pc = "check"
     /\ i < notifier[n].size
     /\ registry' = Touch(i)
     /\ notifier' = IF Lookup(i) = None
                    THEN [notifier EXCEPT ![n].pos = @ + 1]
                    ELSE [notifier EXCEPT ![n].pc = "send"]
     /\ UNCHANGED <<clientVars, workerVars, misses, down, removals>>

\* The client's onTransact hands the event to each of its observers
\* (TransactCbData).  A proxy erased since the test is a null pointer here; a
\* client in its destructor has cleared mInstance and dies on the event.
NotifySend(n) ==
  LET i == notifier[n].pos
      c == Lookup(i)
  IN /\ ~down
     /\ notifier[n].pc = "send"
     /\ IF c = None
        THEN /\ down' = TRUE
             /\ UNCHANGED <<notifier, misses>>
        ELSE /\ notifier' = [notifier EXCEPT
                  ![n].pc = "check", ![n].pos = @ + 1, ![n].todo = @ \ {c}]
             /\ misses' = IF Reachable(c) THEN [misses EXCEPT ![c] = 0]
                          ELSE misses
             /\ UNCHANGED down
     /\ IF c # None /\ phase[c] = "closing"
        THEN /\ phase' = [phase EXCEPT ![c] = "gone"]
             /\ killed' = killed \cup {c}
        ELSE UNCHANGED <<phase, killed>>
     /\ registry' = Touch(i)
     /\ UNCHANGED <<cookie, observers, registrations, workerVars, removals>>

\* The loop is over: a client still owed the event has missed it.
NotifyEnd(n) ==
  /\ ~down
  /\ notifier[n].pc = "check"
  /\ notifier[n].pos = notifier[n].size
  /\ \A c \in Clients : misses[c] < MaxMisses
  /\ misses' = [c \in Clients |->
                  IF c \in notifier[n].todo /\ Reachable(c)
                  THEN misses[c] + 1 ELSE misses[c]]
  /\ notifier' = [notifier EXCEPT ![n] = Quiet]
  /\ UNCHANGED <<registry, clientVars, workerVars, down, removals>>

WorkerStep(w) == ScanTaken(w) \/ ScanFree(w) \/ ScanEnd(w) \/ RegisterStore(w)

NotifierStep(n) == NotifyCheck(n) \/ NotifySend(n) \/ NotifyEnd(n)

Next ==
  \/ \E c \in Clients :
       \/ RegisterObserver(c)
       \/ \E isNull \in BOOLEAN : AddObserver(c, isNull)
       \/ DestroyBegin(c)
       \/ RemoveCallback(c)
       \/ Kill(c)
       \/ \E w \in Workers : RegisterBegin(w, c)
  \/ \E w \in Workers : WorkerStep(w)
  \/ \E n \in Notifiers : NotifyBegin(n) \/ NotifierStep(n)

Spec == Init /\ [][Next]_vars

(***************************************************************************)
(* Properties.                                                             *)
(***************************************************************************)

\* SetClientProxyToServer never replaces a live callback by another, as long
\* as no second registration stored its proxy while this one was scanning:
\* the key it is about to write is free, be it a hole of the scan or the size.
NoLiveOverwrite ==
  \A w \in Workers :
    worker[w].pc = "store" /\ ~overlapped[w] => Lookup(worker[w].pos) = None

\* Until a client that never registered has run its destructor, or two
\* overlapping registrations took the same key, the id a client holds is the
\* key of its own proxy: CMD_CLR_PQ_CB removes nobody else.
CookieOwnsSlot ==
  ~disturbed =>
    \A c \in Clients :
      registrations[c] > 0 /\ phase[c] \in {"up", "adding", "closing"}
        => Lookup(cookie[c]) = c

\* In the same histories, a proxy of a destroyed client is left in the map
\* only if its process was killed or it had registered more than once (each
\* registration takes a key, the destructor gives back the last one only).
NoStaleEntry ==
  ~disturbed =>
    \A c \in Clients :
      Holds(c) /\ phase[c] = "gone" => c \in killed \/ registrations[c] > 1

\* The loop bounds itself by the number of keys, not by the largest key, so a
\* client behind a hole misses events; each pass fills a hole, so it misses no
\* more events in a row than callbacks were removed (per delivering thread).
MissesBounded ==
  \A c \in Clients : misses[c] <= removals * Cardinality(Notifiers)

\* The service reaches the transact of a null callback only after some live
\* callback was removed: keys below the size are never empty before that.
DownNeedsRemoval == down => removals > 0
==============================================================================
