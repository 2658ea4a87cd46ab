------------------------ MODULE CallbackRegistryProofs ------------------------
(***************************************************************************)
(* Proofs about CallbackRegistry for any number of clients, binder threads *)
(* and notifiers: the types, that no live callback is overwritten by a     *)
(* registration that ran alone, that an id names its owner's key, what a   *)
(* destroyed client leaves behind, and how many events a client misses.    *)
(***************************************************************************)
EXTENDS CallbackRegistry, FiniteSetTheorems, TLAPS

\* What the map operations do to the keys and to the value of every key.
LEMMA PutFacts ==
  ASSUME NEW k \in Nat, NEW v \in Clients \cup {None}, TypeOK,
         registry' = Put(k, v)
  PROVE  /\ DOMAIN registry' = DOMAIN registry \cup {k}
         /\ DOMAIN registry' \subseteq Nat
         /\ IsFiniteSet(DOMAIN registry')
         /\ \A j \in DOMAIN registry' : registry'[j] \in Clients \cup {None}
         /\ \A j : Lookup(j)' = IF j = k THEN v ELSE Lookup(j)
<1>1. DOMAIN registry' = DOMAIN registry \cup {k}
  BY DEF Put
<1>2. IsFiniteSet(DOMAIN registry')
  BY <1>1, FS_AddElement DEF TypeOK
<1>3. \A j \in DOMAIN registry' :
        registry'[j] = IF j = k THEN v ELSE registry[j]
  BY DEF Put
<1>4. QED
  BY <1>1, <1>2, <1>3 DEF TypeOK, Lookup

LEMMA TouchFacts ==
  ASSUME NEW k \in Nat, TypeOK, registry' = Touch(k)
  PROVE  /\ DOMAIN registry' = DOMAIN registry \cup {k}
         /\ DOMAIN registry' \subseteq Nat
         /\ IsFiniteSet(DOMAIN registry')
         /\ \A j \in DOMAIN registry' : registry'[j] \in Clients \cup {None}
         /\ \A j : Lookup(j)' = Lookup(j)
<1>1. Lookup(k) \in Clients \cup {None}
  BY DEF TypeOK, Lookup
<1>2. QED
  BY <1>1, PutFacts, SMTT(30) DEF Touch

LEMMA EraseFacts ==
  ASSUME NEW k \in Int, TypeOK, registry' = Erase(k)
  PROVE  /\ DOMAIN registry' = DOMAIN registry \ {k}
         /\ DOMAIN registry' \subseteq Nat
         /\ IsFiniteSet(DOMAIN registry')
         /\ \A j \in DOMAIN registry' : registry'[j] \in Clients \cup {None}
         /\ \A j : Lookup(j)' = IF j = k THEN None ELSE Lookup(j)
<1>1. DOMAIN registry' = DOMAIN registry \ {k}
  BY DEF Erase
<1>2. IsFiniteSet(DOMAIN registry')
  BY <1>1, FS_Subset DEF TypeOK
<1>3. \A j \in DOMAIN registry' : registry'[j] = registry[j]
  BY DEF Erase
<1>4. QED
  BY <1>1, <1>2, <1>3 DEF TypeOK, Lookup

\* The number of keys is a natural number.
LEMMA SizeType == TypeOK => Size \in Nat
  BY FS_CardinalityType DEF TypeOK, Size

(***************************************************************************)
(* Types.                                                                  *)
(***************************************************************************)

\* A non-idle worker serves a client.
Serving == \A w \in Workers : worker[w].pc # "idle" => worker[w].client \in Clients

LEMMA ReleasedType ==
  ASSUME TypeOK, NEW k \in Int, NEW v
  PROVE  Released(k, v) \in [Notifiers -> [pc : {"idle", "check", "send"},
                                           size : Nat, pos : Nat,
                                           todo : SUBSET Clients]]
  BY DEF Released, TypeOK

LEMMA TypeStep ==
  ASSUME TypeOK, Serving, [Next]_vars
  PROVE  TypeOK' /\ Serving'
<1> USE DEF TypeOK, Serving
<1>1. ASSUME NEW c \in Clients, RegisterObserver(c)
      PROVE  TypeOK' /\ Serving'
  BY <1>1 DEF RegisterObserver, workerVars, notifyVars
<1>2. ASSUME NEW c \in Clients, NEW isNull \in BOOLEAN, AddObserver(c, isNull)
      PROVE  TypeOK' /\ Serving'
  BY <1>2 DEF AddObserver, workerVars, notifyVars
<1>3. ASSUME NEW c \in Clients, DestroyBegin(c)
      PROVE  TypeOK' /\ Serving'
  BY <1>3 DEF DestroyBegin, workerVars, notifyVars
<1>4. ASSUME NEW c \in Clients, RemoveCallback(c)
      PROVE  TypeOK' /\ Serving'
  <2>1. cookie[c] \in Int
    OBVIOUS
  <2>2. /\ DOMAIN registry' \subseteq Nat
        /\ IsFiniteSet(DOMAIN registry')
        /\ \A k \in DOMAIN registry' : registry'[k] \in Clients \cup {None}
    BY <1>4, <2>1, EraseFacts DEF RemoveCallback
  <2>3. notifier' \in [Notifiers -> [pc : {"idle", "check", "send"},
                                     size : Nat, pos : Nat,
                                     todo : SUBSET Clients]]
    BY <1>4, <2>1, ReleasedType DEF RemoveCallback
  <2>4. QED
    BY <1>4, <2>2, <2>3 DEF RemoveCallback
<1>5. ASSUME NEW c \in Clients, Kill(c)
      PROVE  TypeOK' /\ Serving'
  BY <1>5 DEF Kill, workerVars, notifyVars
<1>6. ASSUME NEW c \in Clients, NEW w \in Workers, RegisterBegin(w, c)
      PROVE  TypeOK' /\ Serving'
  <2>1. Size \in Nat /\ Live \in SUBSET Nat
    BY SizeType DEF Live
  <2>2. QED
    BY <1>6, <2>1 DEF RegisterBegin, clientVars, notifyVars
<1>7. ASSUME NEW w \in Workers, ScanTaken(w)
      PROVE  TypeOK' /\ Serving'
  BY <1>7 DEF ScanTaken, clientVars, notifyVars
<1>8. ASSUME NEW w \in Workers, ScanFree(w)
      PROVE  TypeOK' /\ Serving'
  <2>1. worker[w].pos \in Nat
    OBVIOUS
  <2>2. /\ DOMAIN registry' \subseteq Nat
        /\ IsFiniteSet(DOMAIN registry')
        /\ \A k \in DOMAIN registry' : registry'[k] \in Clients \cup {None}
    BY <1>8, <2>1, TouchFacts DEF ScanFree
  <2>3. QED
    BY <1>8, <2>2 DEF ScanFree, clientVars, notifyVars
<1>9. ASSUME NEW w \in Workers, ScanEnd(w)
      PROVE  TypeOK' /\ Serving'
  BY <1>9 DEF ScanEnd, clientVars, notifyVars
<1>10. ASSUME NEW w \in Workers, RegisterStore(w)
       PROVE  TypeOK' /\ Serving'
  <2>1. worker[w].pos \in Nat /\ worker[w].client \in Clients
    BY <1>10 DEF RegisterStore
  <2>2. /\ DOMAIN registry' \subseteq Nat
        /\ IsFiniteSet(DOMAIN registry')
        /\ \A k \in DOMAIN registry' : registry'[k] \in Clients \cup {None}
    BY <1>10, <2>1, PutFacts DEF RegisterStore
  <2>3. notifier' \in [Notifiers -> [pc : {"idle", "check", "send"},
                                     size : Nat, pos : Nat,
                                     todo : SUBSET Clients]]
    BY <1>10, <2>1, ReleasedType DEF RegisterStore
  <2>4. /\ phase' \in [Clients -> {"up", "calling", "adding", "closing", "gone"}]
        /\ cookie' \in [Clients -> Int]
    BY <1>10, <2>1 DEF RegisterStore
  <2>5. worker' = [worker EXCEPT ![w] = Idle]
    BY <1>10 DEF RegisterStore
  <2>6. /\ worker' \in [Workers -> [pc : {"idle", "scan", "store"},
                                    client : Clients \cup {None},
                                    size : Nat, pos : Nat]]
        /\ Serving'
    BY <2>5 DEF Idle
  <2>7. /\ overlapped' \in [Workers -> BOOLEAN]
        /\ disturbed' \in BOOLEAN
    BY <1>10, Zenon DEF RegisterStore
  <2>8. registrations' \in [Clients -> Nat]
    BY <1>10, <2>1 DEF RegisterStore
  <2>9. UNCHANGED <<observers, killed, seen, misses, down, removals>>
    BY <1>10 DEF RegisterStore
  <2>10. QED
    BY <2>2, <2>3, <2>4, <2>6, <2>7, <2>8, <2>9
<1>11. ASSUME NEW n \in Notifiers, NotifyBegin(n)
       PROVE  TypeOK' /\ Serving'
  BY <1>11, SizeType DEF NotifyBegin, clientVars, workerVars
<1>12. ASSUME NEW n \in Notifiers, NotifyCheck(n)
       PROVE  TypeOK' /\ Serving'
  <2>1. notifier[n].pos \in Nat
    OBVIOUS
  <2>2. /\ DOMAIN registry' \subseteq Nat
        /\ IsFiniteSet(DOMAIN registry')
        /\ \A k \in DOMAIN registry' : registry'[k] \in Clients \cup {None}
    BY <1>12, <2>1, TouchFacts DEF NotifyCheck
  <2>3. QED
    BY <1>12, <2>2, SMTT(30) DEF NotifyCheck, clientVars, workerVars
<1>13. ASSUME NEW n \in Notifiers, NotifySend(n)
       PROVE  TypeOK' /\ Serving'
  <2>1. notifier[n].pos \in Nat /\ Lookup(notifier[n].pos) \in Clients \cup {None}
    BY DEF Lookup
  <2>2. /\ DOMAIN registry' \subseteq Nat
        /\ IsFiniteSet(DOMAIN registry')
        /\ \A k \in DOMAIN registry' : registry'[k] \in Clients \cup {None}
    BY <1>13, <2>1, TouchFacts DEF NotifySend
  <2>3. /\ notifier' \in [Notifiers -> [pc : {"idle", "check", "send"},
                                        size : Nat, pos : Nat,
                                        todo : SUBSET Clients]]
        /\ misses' \in [Clients -> Nat]
        /\ down' \in BOOLEAN
    <3>1. CASE Lookup(notifier[n].pos) = None
      BY <1>13, <3>1 DEF NotifySend
    <3>2. CASE Lookup(notifier[n].pos) # None
      <4>1. UNCHANGED down /\ misses' \in [Clients -> Nat]
        BY <1>13, <2>1, <3>2 DEF NotifySend
      <4>2. notifier' = [notifier EXCEPT
              ![n].pc = "check", ![n].pos = @ + 1,
              ![n].todo = @ \ {Lookup(notifier[n].pos)}]
        BY <1>13, <3>2 DEF NotifySend
      <4>3. QED
        BY <4>1, <4>2
    <3>3. QED
      BY <3>1, <3>2
  <2>4. /\ phase' \in [Clients -> {"up", "calling", "adding", "closing", "gone"}]
        /\ killed' \subseteq Clients
    BY <1>13, <2>1 DEF NotifySend
  <2>5. UNCHANGED <<cookie, observers, registrations, workerVars, removals>>
    BY <1>13 DEF NotifySend
  <2>6. UNCHANGED <<worker, seen, overlapped, disturbed, cookie, observers,
                    registrations, removals>>
    BY <2>5 DEF workerVars
  <2>7. QED
    BY <2>2, <2>3, <2>4, <2>6
<1>14. ASSUME NEW n \in Notifiers, NotifyEnd(n)
       PROVE  TypeOK' /\ Serving'
  <2>1. misses' \in [Clients -> Nat]
    BY <1>14 DEF NotifyEnd
  <2>2. QED
    BY <1>14, <2>1 DEF NotifyEnd, Quiet, clientVars, workerVars
<1>15. CASE UNCHANGED vars
  BY <1>15 DEF vars, clientVars, workerVars, notifyVars
<1>16. QED
  BY <1>1, <1>2, <1>3, <1>4, <1>5, <1>6, <1>7, <1>8, <1>9, <1>10, <1>11, <1>12,
     <1>13, <1>14, <1>15 DEF Next, WorkerStep, NotifierStep

LEMMA TypeInit == Init => TypeOK /\ Serving
<1> SUFFICES ASSUME Init PROVE TypeOK /\ Serving
  OBVIOUS
<1>1. DOMAIN registry = {} /\ IsFiniteSet(DOMAIN registry)
  BY FS_EmptySet DEF Init
<1>2. QED
  BY <1>1, StrayAssumption DEF Init, TypeOK, Serving, Idle, Quiet

\* Every variable of the registry keeps its type, for every value of the
\* constants.
THEOREM TypeCorrect == Spec => []TypeOK
<1>1. TypeOK /\ Serving /\ [Next]_vars => (TypeOK /\ Serving)'
  BY TypeStep
<1>2. QED
  BY TypeInit, <1>1, PTL DEF Spec

(***************************************************************************)
(* No live callback is overwritten.  The guard of the store compares keys  *)
(* with a size read earlier; the invariant remembers which keys were live  *)
(* at that time (seen).  While no other registration stores, entries only  *)
(* disappear, so the live keys stay within seen, and a scan that found all *)
(* of 0..size-1 taken has counted every key there was: the key size itself *)
(* is free (a pigeonhole argument).                                        *)
(***************************************************************************)
ScanInv(w) ==
  worker[w].pc # "idle" /\ ~overlapped[w] =>
    /\ IsFiniteSet(seen[w])
    /\ Cardinality(seen[w]) <= worker[w].size
    /\ Live \subseteq seen[w]
    /\ 0 .. (worker[w].pos - 1) \subseteq seen[w]
    /\ worker[w].pos <= worker[w].size
    /\ worker[w].pc = "store" => Lookup(worker[w].pos) = None

RegistryInv == \A w \in Workers : ScanInv(w)

LEMMA LiveLookup ==
  ASSUME TypeOK
  PROVE  \A k : k \in Live <=> Lookup(k) # None
  BY DEF Live, Lookup

\* A set of at most n elements that contains 0..n-1 does not contain n.
LEMMA PigeonHole ==
  ASSUME NEW n \in Nat, NEW S, IsFiniteSet(S), Cardinality(S) <= n,
         0 .. (n - 1) \subseteq S
  PROVE  n \notin S
<1> SUFFICES ASSUME n \in S PROVE FALSE
  OBVIOUS
<1>1. 0 .. n \subseteq S
  OBVIOUS
<1>2. Cardinality(0 .. n) = n + 1
  BY FS_Interval
<1>3. Cardinality(0 .. n) <= Cardinality(S)
  BY <1>1, FS_Subset
<1>4. Cardinality(S) \in Nat
  BY FS_CardinalityType
<1>5. QED
  BY <1>2, <1>3, <1>4

\* A step that adds no live key and leaves the calls alone keeps the invariant.
LEMMA ShrinkKeepsInv ==
  ASSUME TypeOK, TypeOK', RegistryInv, NEW w \in Workers,
         worker'[w] = worker[w], seen'[w] = seen[w],
         overlapped'[w] = overlapped[w],
         \A k : Lookup(k)' = Lookup(k) \/ Lookup(k)' = None
  PROVE  ScanInv(w)'
<1>1. Live' \subseteq Live
  BY LiveLookup DEF Live, Lookup
<1>2. QED
  BY <1>1 DEF RegistryInv, ScanInv

LEMMA RegistryStep ==
  ASSUME TypeOK, TypeOK', RegistryInv, [Next]_vars
  PROVE  RegistryInv'
<1>1. ASSUME NEW c \in Clients, NEW w \in Workers, RegisterBegin(w, c)
      PROVE  RegistryInv'
  <2> SUFFICES ASSUME NEW v \in Workers PROVE ScanInv(v)'
    BY DEF RegistryInv
  <2>1. \A k : Lookup(k)' = Lookup(k)
    BY <1>1 DEF RegisterBegin, Lookup
  <2>2. CASE v # w
    BY <1>1, <2>1, <2>2, ShrinkKeepsInv, ZenonT(40) DEF RegisterBegin, TypeOK
  <2>3. CASE v = w
    <3>1. /\ worker'[w].pc = "scan" /\ worker'[w].size = Size
          /\ worker'[w].pos = 0 /\ seen'[w] = Live
      BY <1>1 DEF RegisterBegin, TypeOK
    <3>2. IsFiniteSet(Live) /\ Cardinality(Live) <= Size
      BY FS_Subset DEF Live, TypeOK, Size
    <3>3. Live' = Live
      BY <1>1 DEF RegisterBegin, Live
    <3>4. QED
      BY <2>3, <3>1, <3>2, <3>3, SizeType DEF ScanInv
  <2>4. QED
    BY <2>2, <2>3
<1>2. ASSUME NEW w \in Workers, ScanTaken(w)
      PROVE  RegistryInv'
  <2> SUFFICES ASSUME NEW v \in Workers PROVE ScanInv(v)'
    BY DEF RegistryInv
  <2>1. UNCHANGED <<registry, seen, overlapped>>
    BY <1>2 DEF ScanTaken
  <2>2. CASE v # w
    BY <1>2, <2>1, <2>2, ShrinkKeepsInv DEF ScanTaken, TypeOK, Lookup
  <2>3. CASE v = w
    <3>1. /\ worker[w].pos \in Nat /\ worker[w].size \in Nat
          /\ worker'[w].pos = worker[w].pos + 1
          /\ worker'[w].size = worker[w].size /\ worker'[w].pc = "scan"
          /\ worker[w].pos < worker[w].size /\ worker[w].pc = "scan"
      BY <1>2 DEF ScanTaken, TypeOK
    <3>2. worker[w].pos \in Live
      BY <1>2, LiveLookup DEF ScanTaken
    <3>3. Live' = Live
      BY <2>1 DEF Live
    <3>4. ScanInv(w)
      BY DEF RegistryInv
    <3>5. QED
      BY <2>1, <2>3, <3>1, <3>2, <3>3, <3>4 DEF ScanInv
  <2>4. QED
    BY <2>2, <2>3
<1>3. ASSUME NEW w \in Workers, ScanFree(w)
      PROVE  RegistryInv'
  <2> SUFFICES ASSUME NEW v \in Workers PROVE ScanInv(v)'
    BY DEF RegistryInv
  <2>1. worker[w].pos \in Nat
    BY DEF TypeOK
  <2>2. \A k : Lookup(k)' = Lookup(k)
    BY <1>3, <2>1, TouchFacts DEF ScanFree
  <2>3. CASE v # w
    BY <1>3, <2>2, <2>3, ShrinkKeepsInv DEF ScanFree, TypeOK
  <2>4. CASE v = w
    <3>1. /\ worker'[w].pos = worker[w].pos
          /\ worker'[w].size = worker[w].size
          /\ worker[w].pc = "scan"
          /\ Lookup(worker[w].pos) = None
          /\ UNCHANGED <<seen, overlapped>>
      BY <1>3 DEF ScanFree, TypeOK
    <3>2. Live' = Live
      BY <2>2, LiveLookup DEF Live, Lookup
    <3>3. ScanInv(w)
      BY DEF RegistryInv
    <3>4. QED
      BY <2>2, <2>4, <3>1, <3>2, <3>3 DEF ScanInv
  <2>5. QED
    BY <2>3, <2>4
<1>4. ASSUME NEW w \in Workers, ScanEnd(w)
      PROVE  RegistryInv'
  <2> SUFFICES ASSUME NEW v \in Workers PROVE ScanInv(v)'
    BY DEF RegistryInv
  <2>1. UNCHANGED <<registry, seen, overlapped>>
    BY <1>4 DEF ScanEnd
  <2>2. CASE v # w
    BY <1>4, <2>1, <2>2, ShrinkKeepsInv DEF ScanEnd, TypeOK, Lookup
  <2>3. CASE v = w
    <3>1. /\ worker[w].pos \in Nat
          /\ worker'[w].pos = worker[w].pos
          /\ worker'[w].size = worker[w].size
          /\ worker[w].pos = worker[w].size
          /\ worker[w].pc = "scan"
      BY <1>4 DEF ScanEnd, TypeOK
    <3>2. Live' = Live /\ \A k : Lookup(k)' = Lookup(k)
      BY <2>1 DEF Live, Lookup
    <3>3. ScanInv(w)
      BY DEF RegistryInv
    <3>4. ~overlapped[w] => Lookup(worker[w].pos) = None
      BY <3>1, <3>3, PigeonHole, LiveLookup DEF ScanInv
    <3>5. QED
      BY <2>1, <2>3, <3>1, <3>2, <3>3, <3>4 DEF ScanInv
  <2>4. QED
    BY <2>2, <2>3
<1>5. ASSUME NEW w \in Workers, RegisterStore(w)
      PROVE  RegistryInv'
  <2> SUFFICES ASSUME NEW v \in Workers PROVE ScanInv(v)'
    BY DEF RegistryInv
  <2>1. CASE v = w
    <3>1. worker'[w].pc = "idle"
      BY <1>5 DEF RegisterStore, Idle, TypeOK
    <3>2. QED
      BY <2>1, <3>1 DEF ScanInv
  <2>2. CASE v # w
    <3>1. overlapped'[v]
      BY <1>5, <2>2, Zenon DEF RegisterStore
    <3>2. QED
      BY <3>1 DEF ScanInv
  <2>3. QED
    BY <2>1, <2>2
<1>6. ASSUME NEW c \in Clients, RemoveCallback(c)
      PROVE  RegistryInv'
  <2>1. UNCHANGED <<worker, seen, overlapped>>
    BY <1>6 DEF RemoveCallback
  <2>2. \A k : Lookup(k)' = Lookup(k) \/ Lookup(k)' = None
    <3>1. CASE cookie[c] < 0
      BY <1>6, <3>1 DEF RemoveCallback, Lookup
    <3>2. CASE ~(cookie[c] < 0)
      BY <1>6, <3>2, EraseFacts DEF RemoveCallback, TypeOK
    <3>3. QED
      BY <3>1, <3>2
  <2>3. QED
    BY <2>1, <2>2, ShrinkKeepsInv DEF RegistryInv
<1>7. ASSUME NEW n \in Notifiers, NotifyCheck(n) \/ NotifySend(n)
      PROVE  RegistryInv'
  <2>1. UNCHANGED <<worker, seen, overlapped>>
    BY <1>7 DEF NotifyCheck, NotifySend, workerVars
  <2>2. notifier[n].pos \in Nat /\ registry' = Touch(notifier[n].pos)
    BY <1>7 DEF NotifyCheck, NotifySend, TypeOK
  <2>3. \A k : Lookup(k)' = Lookup(k)
    BY <2>2, TouchFacts
  <2>4. QED
    BY <2>1, <2>3, ShrinkKeepsInv DEF RegistryInv
<1>8. ASSUME UNCHANGED <<registry, workerVars>>
      PROVE  RegistryInv'
  <2>1. UNCHANGED <<worker, seen, overlapped>>
    BY <1>8 DEF workerVars
  <2>2. \A k : Lookup(k)' = Lookup(k)
    BY <1>8 DEF Lookup
  <2>3. QED
    BY <2>1, <2>2, ShrinkKeepsInv DEF RegistryInv
<1>9. CASE \E c \in Clients :
             \/ RegisterObserver(c) \/ DestroyBegin(c) \/ Kill(c)
             \/ \E isNull \in BOOLEAN : AddObserver(c, isNull)
  BY <1>8, <1>9 DEF RegisterObserver, DestroyBegin, Kill, AddObserver
<1>10. CASE \E n \in Notifiers : NotifyBegin(n) \/ NotifyEnd(n)
  BY <1>8, <1>10 DEF NotifyBegin, NotifyEnd
<1>11. CASE UNCHANGED vars
  BY <1>8, <1>11 DEF vars
<1>12. QED
  BY <1>1, <1>2, <1>3, <1>4, <1>5, <1>6, <1>7, <1>9, <1>10, <1>11
  DEF Next, WorkerStep, NotifierStep

LEMMA RegistryInit == Init => RegistryInv
  BY DEF Init, RegistryInv, ScanInv, Idle

\* However many clients, binder threads and notifiers there are, a
\* registration that no other registration overlapped writes to a free key.
THEOREM NoOverwrite == Spec => []NoLiveOverwrite
<1>1. TypeOK /\ TypeOK' /\ RegistryInv /\ [Next]_vars => RegistryInv'
  BY RegistryStep
<1>2. RegistryInv => NoLiveOverwrite
  BY DEF RegistryInv, ScanInv, NoLiveOverwrite
<1>3. QED
  BY TypeCorrect, RegistryInit, <1>1, <1>2, PTL DEF Spec

(***************************************************************************)
(* The id a client holds.  A call in progress belongs to one client, which *)
(* waits for it (or was killed); so the store that changes a client's key  *)
(* is the one whose reply sets its id.                                     *)
(***************************************************************************)
OneCallEach ==
  /\ \A w \in Workers :
       worker[w].pc # "idle" =>
         worker[w].client \in Clients
         /\ phase[worker[w].client] \in {"calling", "gone"}
  /\ \A v, w \in Workers :
       worker[v].pc # "idle" /\ worker[w].pc # "idle" /\ v # w =>
         worker[v].client # worker[w].client

CookieInv == OneCallEach /\ CookieOwnsSlot

LEMMA OneCallStep ==
  ASSUME TypeOK, OneCallEach, [Next]_vars
  PROVE  OneCallEach'
<1> USE DEF OneCallEach, TypeOK
<1>1. ASSUME NEW c \in Clients,
             \/ RegisterObserver(c) \/ DestroyBegin(c) \/ Kill(c)
             \/ RemoveCallback(c)
             \/ \E isNull \in BOOLEAN : AddObserver(c, isNull)
      PROVE  OneCallEach'
  <2>1. UNCHANGED worker
    BY <1>1 DEF RegisterObserver, DestroyBegin, Kill, RemoveCallback,
                AddObserver, workerVars
  <2>2. \A d \in Clients : phase[d] = "calling" => phase'[d] \in {"calling", "gone"}
    BY <1>1 DEF RegisterObserver, DestroyBegin, Kill, RemoveCallback, AddObserver
  <2>3. \A d \in Clients : phase[d] = "gone" => phase'[d] = "gone"
    BY <1>1 DEF RegisterObserver, DestroyBegin, Kill, RemoveCallback, AddObserver
  <2>4. QED
    BY <2>1, <2>2, <2>3
<1>2. ASSUME NEW c \in Clients, NEW w \in Workers, RegisterBegin(w, c)
      PROVE  OneCallEach'
  BY <1>2 DEF RegisterBegin, clientVars
<1>3. ASSUME NEW w \in Workers, ScanTaken(w) \/ ScanFree(w) \/ ScanEnd(w)
      PROVE  OneCallEach'
  <2>1. /\ UNCHANGED phase
        /\ worker[w].pc # "idle"
        /\ \A v \in Workers : worker'[v].client = worker[v].client
        /\ \A v \in Workers : v # w => worker'[v] = worker[v]
    <3>1. CASE ScanTaken(w)
      BY <3>1 DEF ScanTaken, clientVars
    <3>2. CASE ScanFree(w)
      BY <3>2 DEF ScanFree, clientVars
    <3>3. CASE ScanEnd(w)
      BY <3>3 DEF ScanEnd, clientVars
    <3>4. QED
      BY <1>3, <3>1, <3>2, <3>3
  <2>2. ASSUME NEW v \in Workers, worker'[v].pc # "idle"
        PROVE  worker[v].pc # "idle" /\ worker'[v].client = worker[v].client
    BY <2>1, <2>2
  <2>3. QED
    BY <2>1, <2>2
<1>4. ASSUME NEW w \in Workers, RegisterStore(w)
      PROVE  OneCallEach'
  <2>1. /\ worker'[w].pc = "idle"
        /\ \A v \in Workers : v # w => worker'[v] = worker[v]
    BY <1>4 DEF RegisterStore, Idle
  <2>2. \A d \in Clients : d # worker[w].client => phase'[d] = phase[d]
    BY <1>4 DEF RegisterStore
  <2>3. worker[w].pc # "idle"
    BY <1>4 DEF RegisterStore
  <2>4. QED
    BY <2>1, <2>2, <2>3
<1>5. ASSUME NEW n \in Notifiers, NotifySend(n)
      PROVE  OneCallEach'
  <2>1. UNCHANGED worker
    BY <1>5 DEF NotifySend, workerVars
  <2>2. \A d \in Clients : \/ phase'[d] = phase[d]
                           \/ phase[d] = "closing" /\ phase'[d] = "gone"
    <3>1. CASE UNCHANGED phase
      BY <3>1
    <3>2. CASE ~UNCHANGED phase
      <4>1. /\ phase[Lookup(notifier[n].pos)] = "closing"
            /\ phase' = [phase EXCEPT ![Lookup(notifier[n].pos)] = "gone"]
        BY <1>5, <3>2 DEF NotifySend
      <4>2. QED
        BY <4>1
    <3>3. QED
      BY <3>1, <3>2
  <2>3. QED
    BY <2>1, <2>2
<1>6. ASSUME NEW n \in Notifiers,
             NotifyBegin(n) \/ NotifyCheck(n) \/ NotifyEnd(n)
      PROVE  OneCallEach'
  BY <1>6 DEF NotifyBegin, NotifyCheck, NotifyEnd, clientVars, workerVars
<1>7. CASE UNCHANGED vars
  BY <1>7 DEF vars, clientVars, workerVars
<1>8. QED
  BY <1>1, <1>2, <1>3, <1>4, <1>5, <1>6, <1>7
  DEF Next, WorkerStep, NotifierStep

\* A step that keeps every value of the map and every id, and moves no client
\* into a phase in which its id counts, keeps CookieOwnsSlot.
LEMMA SameMapKeepsCookies ==
  ASSUME CookieOwnsSlot,
         UNCHANGED <<cookie, registrations, disturbed>>,
         \A k : Lookup(k)' = Lookup(k),
         \A d \in Clients :
           phase'[d] \in {"up", "adding", "closing"} =>
             phase[d] \in {"up", "adding", "closing"}
  PROVE  CookieOwnsSlot'
  BY DEF CookieOwnsSlot

LEMMA CookieStep ==
  ASSUME TypeOK, CookieInv, [Next]_vars
  PROVE  CookieOwnsSlot'
<1> USE DEF CookieInv
<1>1. ASSUME NEW c \in Clients,
             \/ RegisterObserver(c) \/ DestroyBegin(c) \/ Kill(c)
             \/ \E isNull \in BOOLEAN : AddObserver(c, isNull)
      PROVE  CookieOwnsSlot'
  <2>1. UNCHANGED <<cookie, registrations, disturbed, registry>>
    BY <1>1 DEF RegisterObserver, DestroyBegin, Kill, AddObserver, workerVars
  <2>2. \A k : Lookup(k)' = Lookup(k)
    BY <2>1 DEF Lookup
  <2>3. \A d \in Clients :
          phase'[d] \in {"up", "adding", "closing"} =>
            phase[d] \in {"up", "adding", "closing"}
    BY <1>1 DEF RegisterObserver, DestroyBegin, Kill, AddObserver, TypeOK
  <2>4. QED
    BY <2>1, <2>2, <2>3, SameMapKeepsCookies
<1>2. ASSUME NEW c \in Clients, RemoveCallback(c)
      PROVE  CookieOwnsSlot'
  <2> SUFFICES ASSUME ~disturbed', NEW d \in Clients, registrations'[d] > 0,
                      phase'[d] \in {"up", "adding", "closing"}
               PROVE  Lookup(cookie[d])' = d
    BY <1>2 DEF CookieOwnsSlot, RemoveCallback
  <2>1. ~disturbed /\ registrations[c] # 0 /\ registrations' = registrations
        /\ UNCHANGED cookie
    BY <1>2 DEF RemoveCallback
  <2>2. Lookup(cookie[c]) = c
    BY <1>2, <2>1 DEF CookieOwnsSlot, RemoveCallback, TypeOK
  <2>3. d # c /\ phase'[d] = phase[d]
    BY <1>2 DEF RemoveCallback, TypeOK
  <2>4. Lookup(cookie[d]) = d
    BY <2>1, <2>3 DEF CookieOwnsSlot
  <2>5. cookie[d] # cookie[c]
    BY <2>2, <2>3, <2>4
  <2>6. \A k : k # cookie[c] => Lookup(k)' = Lookup(k)
    <3>1. CASE cookie[c] < 0
      BY <1>2, <3>1 DEF RemoveCallback, Lookup
    <3>2. CASE ~(cookie[c] < 0)
      BY <1>2, <3>2, EraseFacts DEF RemoveCallback, TypeOK
    <3>3. QED
      BY <3>1, <3>2
  <2>7. QED
    BY <2>1, <2>4, <2>5, <2>6 DEF Lookup
<1>3. ASSUME NEW w \in Workers, RegisterStore(w)
      PROVE  CookieOwnsSlot'
  <2> DEFINE c == worker[w].client
  <2> DEFINE k == worker[w].pos
  <2> SUFFICES ASSUME ~disturbed', NEW d \in Clients, registrations'[d] > 0,
                      phase'[d] \in {"up", "adding", "closing"}
               PROVE  Lookup(cookie[d])' = d
    BY DEF CookieOwnsSlot
  <2>1. c \in Clients /\ phase[c] \in {"calling", "gone"} /\ k \in Nat
    BY <1>3 DEF OneCallEach, RegisterStore, TypeOK
  <2>2. ~disturbed /\ Lookup(k) = None
    BY <1>3 DEF RegisterStore
  <2>3. \A j : Lookup(j)' = IF j = k THEN c ELSE Lookup(j)
    BY <1>3, <2>1, PutFacts DEF RegisterStore
  <2>4. CASE d = c
    <3>1. phase[c] = "calling"
      BY <1>3, <2>1, <2>4 DEF RegisterStore, TypeOK
    <3>2. cookie'[c] = k
      BY <1>3, <2>1, <3>1 DEF RegisterStore, TypeOK
    <3>3. QED
      BY <2>3, <2>4, <3>2 DEF Lookup
  <2>5. CASE d # c
    <3>1. /\ phase'[d] = phase[d] /\ cookie'[d] = cookie[d]
          /\ registrations'[d] = registrations[d]
      BY <1>3, <2>1, <2>5 DEF RegisterStore, TypeOK
    <3>2. Lookup(cookie[d]) = d
      BY <2>2, <3>1 DEF CookieOwnsSlot
    <3>3. cookie[d] # k
      BY <2>2, <3>2, NoneAssumption
    <3>4. QED
      BY <2>3, <3>1, <3>2, <3>3 DEF Lookup
  <2>6. QED
    BY <2>4, <2>5
<1>4. ASSUME NEW w \in Workers, ScanFree(w)
      PROVE  CookieOwnsSlot'
  <2>1. worker[w].pos \in Nat
    BY DEF TypeOK
  <2>2. \A k : Lookup(k)' = Lookup(k)
    BY <1>4, <2>1, TouchFacts DEF ScanFree
  <2>3. QED
    BY <1>4, <2>2, SameMapKeepsCookies DEF ScanFree, clientVars
<1>5. ASSUME NEW n \in Notifiers, NotifyCheck(n) \/ NotifySend(n)
      PROVE  CookieOwnsSlot'
  <2>1. notifier[n].pos \in Nat /\ registry' = Touch(notifier[n].pos)
    BY <1>5 DEF NotifyCheck, NotifySend, TypeOK
  <2>2. \A k : Lookup(k)' = Lookup(k)
    BY <2>1, TouchFacts
  <2>3. UNCHANGED <<cookie, registrations, disturbed>>
    BY <1>5 DEF NotifyCheck, NotifySend, clientVars, workerVars
  <2>4. \A d \in Clients : phase'[d] = phase[d] \/ phase'[d] = "gone"
    BY <1>5 DEF NotifyCheck, NotifySend, clientVars, TypeOK
  <2>5. QED
    BY <2>2, <2>3, <2>4, SameMapKeepsCookies
<1>6. ASSUME UNCHANGED <<registry, clientVars, disturbed>>
      PROVE  CookieOwnsSlot'
  BY <1>6 DEF CookieOwnsSlot, Lookup, clientVars
<1>7. CASE \E w \in Workers : ScanTaken(w) \/ ScanEnd(w)
                              \/ \E c \in Clients : RegisterBegin(w, c)
  BY <1>6, <1>7 DEF ScanTaken, ScanEnd, RegisterBegin
<1>8. CASE \E n \in Notifiers : NotifyBegin(n) \/ NotifyEnd(n)
  BY <1>6, <1>8 DEF NotifyBegin, NotifyEnd, workerVars
<1>9. CASE UNCHANGED vars
  BY <1>6, <1>9 DEF vars, workerVars
<1>10. QED
  BY <1>1, <1>2, <1>3, <1>4, <1>5, <1>7, <1>8, <1>9
  DEF Next, WorkerStep, NotifierStep

LEMMA CookieInit == Init => CookieInv
  BY DEF Init, CookieInv, OneCallEach, CookieOwnsSlot, Idle

\* As long as no unregistered client was destroyed and no two registrations
\* took the same key, the id each client holds names its own proxy.
THEOREM CookieCorrect == Spec => []CookieOwnsSlot
<1>1. TypeOK /\ CookieInv /\ [Next]_vars => CookieInv'
  BY OneCallStep, CookieStep DEF CookieInv
<1>2. CookieInv => CookieOwnsSlot
  BY DEF CookieInv
<1>3. QED
  BY TypeCorrect, CookieInit, <1>1, <1>2, PTL DEF Spec

(***************************************************************************)
(* What a destroyed client leaves behind.  A client that was not killed    *)
(* has the keys its answered registrations took: none before the first,    *)
(* and after the first only the one its id names, until its destructor     *)
(* gives that back.  A call still in progress for a client that is gone    *)
(* outlived a kill.                                                        *)
(***************************************************************************)
LeftInv ==
  /\ ~disturbed =>
       \A c \in Clients \ killed :
         /\ registrations[c] = 0 => \A k : Lookup(k) # c
         /\ registrations[c] = 1 => \A k : Lookup(k) = c => k = cookie[c] /\ phase[c] # "gone"
  /\ \A w \in Workers :
       worker[w].pc # "idle" /\ phase[worker[w].client] = "gone" =>
         worker[w].client \in killed

\* A step that gives no key to anybody, keeps the ids and sends nobody to
\* "gone" without a kill keeps the invariant.
LEMMA NothingLeft ==
  ASSUME LeftInv, OneCallEach, TypeOK,
         \A k : Lookup(k)' = Lookup(k),
         UNCHANGED <<cookie, registrations, disturbed>>,
         killed \subseteq killed',
         \A c \in Clients : phase'[c] = "gone" => phase[c] = "gone" \/ c \in killed',
         \A w \in Workers : worker'[w].pc # "idle" =>
           \/ worker[w].pc # "idle" /\ worker'[w].client = worker[w].client
           \/ worker'[w].client \in Clients /\ phase'[worker'[w].client] # "gone"
  PROVE  LeftInv'
<1>1. ~disturbed' =>
        \A c \in Clients \ killed' :
          /\ registrations'[c] = 0 => \A k : Lookup(k)' # c
          /\ registrations'[c] = 1 => \A k : Lookup(k)' = c => k = cookie'[c] /\ phase'[c] # "gone"
  BY DEF LeftInv
<1>2. ASSUME NEW w \in Workers, worker'[w].pc # "idle", phase'[worker'[w].client] = "gone"
      PROVE  worker'[w].client \in killed'
  <2>1. worker[w].pc # "idle" /\ worker'[w].client = worker[w].client
    BY <1>2
  <2>2. worker[w].client \in Clients
    BY <2>1 DEF OneCallEach
  <2>3. QED
    BY <1>2, <2>1, <2>2 DEF LeftInv
<1>3. QED
  BY <1>1, <1>2 DEF LeftInv, Lookup

LEMMA LeftStep ==
  ASSUME TypeOK, OneCallEach, LeftInv, [Next]_vars
  PROVE  LeftInv'
<1>1. ASSUME NEW c \in Clients,
             \/ RegisterObserver(c) \/ DestroyBegin(c) \/ Kill(c)
             \/ \E isNull \in BOOLEAN : AddObserver(c, isNull)
      PROVE  LeftInv'
  <2>1. UNCHANGED <<cookie, registrations, disturbed, registry, worker>> /\ killed \subseteq killed'
    BY <1>1 DEF RegisterObserver, DestroyBegin, Kill, AddObserver, workerVars
  <2>2. \A k : Lookup(k)' = Lookup(k)
    BY <2>1 DEF Lookup
  <2>3. \A d \in Clients : phase'[d] = "gone" => phase[d] = "gone" \/ d \in killed'
    BY <1>1 DEF RegisterObserver, DestroyBegin, Kill, AddObserver, TypeOK
  <2>4. QED
    BY <2>1, <2>2, <2>3, NothingLeft
<1>2. ASSUME NEW c \in Clients, RemoveCallback(c)
      PROVE  LeftInv'
  <2>1. /\ UNCHANGED <<cookie, registrations, killed, worker>>
        /\ phase[c] = "closing" /\ phase' = [phase EXCEPT ![c] = "gone"]
        /\ ~disturbed' => ~disturbed /\ registrations[c] # 0
    BY <1>2 DEF RemoveCallback
  <2>2. \A k : Lookup(k)' = IF k = cookie[c] THEN None ELSE Lookup(k)
    <3>1. CASE cookie[c] < 0
      <4>1. registry' = registry /\ cookie[c] \notin DOMAIN registry
        BY <1>2, <3>1 DEF RemoveCallback, TypeOK
      <4>2. QED
        BY <4>1 DEF Lookup
    <3>2. CASE ~(cookie[c] < 0)
      BY <1>2, <3>2, EraseFacts DEF RemoveCallback, TypeOK
    <3>3. QED
      BY <3>1, <3>2
  <2>3. ASSUME ~disturbed', NEW d \in Clients \ killed
        PROVE  /\ registrations[d] = 0 => \A k : Lookup(k)' # d
               /\ registrations[d] = 1 => \A k : Lookup(k)' = d => k = cookie[d] /\ phase'[d] # "gone"
    <3>1. /\ registrations[d] = 0 => \A k : Lookup(k) # d
          /\ registrations[d] = 1 => \A k : Lookup(k) = d => k = cookie[d] /\ phase[d] # "gone"
      BY <2>1, <2>3 DEF LeftInv
    <3>2. d # None
      BY NoneAssumption
    <3>3. d # c => phase'[d] = phase[d]
      BY <2>1 DEF TypeOK
    <3>4. QED
      BY <2>1, <2>2, <2>3, <3>1, <3>2, <3>3
  <2>4. ASSUME NEW w \in Workers, worker[w].pc # "idle", phase'[worker[w].client] = "gone"
        PROVE  worker[w].client \in killed
    <3>1. worker[w].client \in Clients /\ phase[worker[w].client] \in {"calling", "gone"}
      BY <2>4 DEF OneCallEach
    <3>2. phase'[worker[w].client] = phase[worker[w].client]
      BY <2>1, <3>1 DEF TypeOK
    <3>3. QED
      BY <2>4, <3>2 DEF LeftInv
  <2>5. QED
    BY <2>1, <2>3, <2>4 DEF LeftInv, Lookup
<1>3. ASSUME NEW w \in Workers, RegisterStore(w)
      PROVE  LeftInv'
  <2> DEFINE c == worker[w].client
  <2> DEFINE k == worker[w].pos
  <2>1. c \in Clients /\ phase[c] \in {"calling", "gone"} /\ k \in Nat
    BY <1>3 DEF OneCallEach, RegisterStore, TypeOK
  <2>2. \A j : Lookup(j)' = IF j = k THEN c ELSE Lookup(j)
    BY <1>3, <2>1, PutFacts DEF RegisterStore
  <2>3. /\ killed' = killed /\ worker' = [worker EXCEPT ![w] = Idle]
        /\ registrations' = [registrations EXCEPT ![c] = @ + 1]
        /\ disturbed => disturbed'
    BY <1>3, Zenon DEF RegisterStore
  <2>4. phase[c] = "gone" => c \in killed
    BY <1>3 DEF LeftInv, RegisterStore
  <2>5. phase[c] = "calling" => phase'[c] = "adding" /\ cookie'[c] = k
    BY <1>3, <2>1 DEF RegisterStore, TypeOK
  <2>6. \A d \in Clients : d # c => phase'[d] = phase[d] /\ cookie'[d] = cookie[d]
                                    /\ registrations'[d] = registrations[d]
    BY <1>3, <2>1 DEF RegisterStore, TypeOK
  <2>7. ASSUME ~disturbed', NEW d \in Clients \ killed
        PROVE  /\ registrations'[d] = 0 => \A j : Lookup(j)' # d
               /\ registrations'[d] = 1 =>
                    \A j : Lookup(j)' = d => j = cookie'[d] /\ phase'[d] # "gone"
    <3>1. /\ registrations[d] = 0 => \A j : Lookup(j) # d
          /\ registrations[d] = 1 => \A j : Lookup(j) = d => j = cookie[d] /\ phase[d] # "gone"
      BY <2>3, <2>7 DEF LeftInv
    <3>2. CASE d = c
      <4>1. phase'[d] = "adding" /\ cookie'[d] = k
        BY <2>1, <2>4, <2>5, <3>2
      <4>2. registrations'[d] = registrations[d] + 1 /\ registrations[d] \in Nat
        BY <2>1, <2>3, <3>2 DEF TypeOK
      <4>3. QED
        BY <2>2, <3>1, <3>2, <4>1, <4>2
    <3>3. CASE d # c
      BY <2>2, <2>6, <3>1, <3>3
    <3>4. QED
      BY <3>2, <3>3
  <2>8. ASSUME NEW v \in Workers, worker'[v].pc # "idle", phase'[worker'[v].client] = "gone"
        PROVE  worker'[v].client \in killed
    <3>1. v # w /\ worker'[v] = worker[v]
      BY <2>3, <2>8 DEF Idle, TypeOK
    <3>2. worker[v].client \in Clients /\ worker[v].client # c
      BY <1>3, <2>8, <3>1 DEF OneCallEach, RegisterStore
    <3>3. phase[worker[v].client] = "gone"
      BY <2>6, <2>8, <3>1, <3>2
    <3>4. QED
      BY <2>8, <3>1, <3>3 DEF LeftInv
  <2>9. QED
    BY <2>3, <2>7, <2>8 DEF LeftInv, Lookup
<1>4. ASSUME NEW w \in Workers, ScanTaken(w) \/ ScanFree(w) \/ ScanEnd(w)
      PROVE  LeftInv'
  <2>1. \A k : Lookup(k)' = Lookup(k)
    <3>1. CASE UNCHANGED registry
      BY <3>1 DEF Lookup
    <3>2. CASE registry' = Touch(worker[w].pos)
      BY <3>2, TouchFacts DEF TypeOK
    <3>3. QED
      BY <1>4, <3>1, <3>2 DEF ScanTaken, ScanFree, ScanEnd
  <2>2. UNCHANGED <<phase, cookie, registrations, killed, disturbed>>
    BY <1>4 DEF ScanTaken, ScanFree, ScanEnd, clientVars
  <2>3. \A v \in Workers : worker'[v].pc # "idle" =>
           worker[v].pc # "idle" /\ worker'[v].client = worker[v].client
    <3>1. CASE ScanTaken(w)
      BY <3>1 DEF ScanTaken, TypeOK
    <3>2. CASE ScanFree(w)
      BY <3>2 DEF ScanFree, TypeOK
    <3>3. CASE ScanEnd(w)
      BY <3>3 DEF ScanEnd, TypeOK
    <3>4. QED
      BY <1>4, <3>1, <3>2, <3>3
  <2>4. QED
    BY <2>1, <2>2, <2>3, NothingLeft
<1>5. ASSUME NEW c \in Clients, NEW w \in Workers, RegisterBegin(w, c)
      PROVE  LeftInv'
  <2>1. /\ UNCHANGED <<registry, phase, cookie, registrations, killed, disturbed>>
        /\ phase[c] = "calling"
    BY <1>5 DEF RegisterBegin, clientVars
  <2>2. worker'[w].client = c /\ \A v \in Workers : v # w => worker'[v] = worker[v]
    BY <1>5 DEF RegisterBegin, TypeOK
  <2>3. \A k : Lookup(k)' = Lookup(k)
    BY <2>1 DEF Lookup
  <2>4. \A v \in Workers : worker'[v].pc # "idle" =>
           \/ worker[v].pc # "idle" /\ worker'[v].client = worker[v].client
           \/ worker'[v].client \in Clients /\ phase'[worker'[v].client] # "gone"
    BY <2>1, <2>2
  <2>5. QED
    BY <2>1, <2>3, <2>4, NothingLeft
<1>6. ASSUME NEW n \in Notifiers, NotifyCheck(n) \/ NotifySend(n)
      PROVE  LeftInv'
  <2>1. notifier[n].pos \in Nat /\ registry' = Touch(notifier[n].pos)
    BY <1>6 DEF NotifyCheck, NotifySend, TypeOK
  <2>2. \A k : Lookup(k)' = Lookup(k)
    BY <2>1, TouchFacts
  <2>3. UNCHANGED <<cookie, registrations, disturbed, worker>>
    BY <1>6 DEF NotifyCheck, NotifySend, clientVars, workerVars
  <2>4. killed \subseteq killed'
    BY <1>6 DEF NotifyCheck, NotifySend, clientVars
  <2>5. \A c \in Clients : phase'[c] = "gone" => phase[c] = "gone" \/ c \in killed'
    <3>1. CASE UNCHANGED phase
      BY <3>1
    <3>2. CASE ~UNCHANGED phase
      <4>1. /\ phase' = [phase EXCEPT ![Lookup(notifier[n].pos)] = "gone"]
            /\ killed' = killed \cup {Lookup(notifier[n].pos)}
        BY <1>6, <3>2 DEF NotifyCheck, NotifySend, clientVars
      <4>2. QED
        BY <4>1 DEF TypeOK
    <3>3. QED
      BY <3>1, <3>2
  <2>6. QED
    BY <2>2, <2>3, <2>4, <2>5, NothingLeft
<1>7. ASSUME NEW n \in Notifiers, NotifyBegin(n) \/ NotifyEnd(n)
      PROVE  LeftInv'
  <2>1. UNCHANGED <<registry, phase, cookie, registrations, killed, disturbed, worker>>
    BY <1>7 DEF NotifyBegin, NotifyEnd, clientVars, workerVars
  <2>2. \A k : Lookup(k)' = Lookup(k)
    BY <2>1 DEF Lookup
  <2>3. QED
    BY <2>1, <2>2, NothingLeft
<1>8. CASE UNCHANGED vars
  <2>1. UNCHANGED <<registry, phase, cookie, registrations, killed, disturbed, worker>>
    BY <1>8 DEF vars, clientVars, workerVars
  <2>2. \A k : Lookup(k)' = Lookup(k)
    BY <2>1 DEF Lookup
  <2>3. QED
    BY <2>1, <2>2, NothingLeft
<1>9. QED
  BY <1>1, <1>2, <1>3, <1>4, <1>5, <1>6, <1>7, <1>8 DEF Next, WorkerStep, NotifierStep

LEMMA LeftInit == Init => LeftInv
  BY NoneAssumption DEF Init, LeftInv, Lookup, Idle

\* A proxy outlives its destroyed client only by a kill, by a second
\* registration, or in the histories in which keys were mixed up before.
THEOREM NothingStale == Spec => []NoStaleEntry
<1>1. TypeOK /\ CookieInv /\ [Next]_vars => CookieInv'
  BY OneCallStep, CookieStep DEF CookieInv
<1>2. TypeOK /\ CookieInv /\ LeftInv /\ [Next]_vars => LeftInv'
  BY LeftStep DEF CookieInv
<1>3. TypeOK /\ LeftInv => NoStaleEntry
  <2> SUFFICES ASSUME TypeOK, LeftInv, ~disturbed, NEW c \in Clients,
                      Holds(c), phase[c] = "gone", c \notin killed
               PROVE  registrations[c] > 1
    BY DEF NoStaleEntry
  <2>1. \E k : Lookup(k) = c
    BY DEF Holds, Lookup
  <2>2. registrations[c] # 0 /\ registrations[c] # 1
    BY <2>1 DEF LeftInv
  <2>3. registrations[c] \in Nat
    BY DEF TypeOK
  <2>4. QED
    BY <2>2, <2>3
<1>4. QED
  BY TypeCorrect, CookieInit, LeftInit, <1>1, <1>2, <1>3, PTL DEF Spec

(***************************************************************************)
(* How many events a client misses.  The argument keeps accounts that the  *)
(* model does not: how far the keys ever reached (top), how many holes     *)
(* were filled (fills), and for each notifier the fills when its pass      *)
(* began (since) and the keys there were then (keys).  Keys are only made  *)
(* at or below top, so holes come from removals: fills and holes together  *)
(* are the removals.  A pass that misses a client has a hole below its     *)
(* size; if nobody filled one meanwhile the pass did.  Each pass that      *)
(* counted a miss is credited with one fill, a different one for each pass *)
(* of the same notifier (credits); hence the bound.                        *)
(***************************************************************************)

\* The keys lie below top; fills and holes are the removals; without a fill
\* every key is a live callback.
Keys(fills, top) ==
  /\ DOMAIN registry \subseteq 0 .. (top - 1)
  /\ fills + top = removals + Size
  /\ fills = 0 => \A k \in DOMAIN registry : registry[k] # None

\* No registration in progress reaches beyond top.
Scans(top) ==
  \A w \in Workers : worker[w].pc # "idle" =>
    worker[w].pos <= worker[w].size /\ worker[w].size <= top

\* A pass in progress: whoever is still owed the event has a key ahead of it
\* that was there when it began; as long as no hole was filled since, the keys
\* it passes by were there too.
Pass(n, fills, top, since, keys) ==
  notifier[n].pc # "idle" =>
    /\ notifier[n].size <= top
    /\ notifier[n].pos <= notifier[n].size
    /\ notifier[n].pc = "send" => notifier[n].pos < notifier[n].size
    /\ IsFiniteSet(keys[n])
    /\ Cardinality(keys[n]) = notifier[n].size
    /\ \A c \in notifier[n].todo :
         \E k \in keys[n] : k >= notifier[n].pos /\ Lookup(k) = c
    /\ since[n] = fills =>
         /\ DOMAIN registry \cap (0 .. (notifier[n].size - 1)) \subseteq keys[n]
         /\ 0 .. (notifier[n].pos - 1) \subseteq keys[n]

\* What the passes that counted a miss are credited with.
Credits(fills, credits, since) ==
  /\ \A n \in Notifiers : since[n] <= fills
  /\ credits \subseteq Notifiers \X (1 .. fills)
  /\ \A e \in credits : e[2] <= since[e[1]]
  /\ \A c \in Clients : misses[c] <= Cardinality(credits)

Accounts(fills, top, credits, since, keys) ==
  /\ Keys(fills, top)
  /\ Scans(top)
  /\ \A n \in Notifiers : Pass(n, fills, top, since, keys)
  /\ Credits(fills, credits, since)

Audited ==
  \E fills, top \in Nat, credits \in SUBSET (Notifiers \X Nat),
     since \in [Notifiers -> Nat], keys \in [Notifiers -> SUBSET Nat] :
    Accounts(fills, top, credits, since, keys)

MissInv == Audited /\ DownNeedsRemoval

\* Keys below top: at most top of them.
LEMMA SizeBound ==
  ASSUME TypeOK, NEW fills \in Nat, NEW top \in Nat, Keys(fills, top)
  PROVE  Size <= top
<1>1. /\ IsFiniteSet(0 .. (top - 1))
      /\ Cardinality(0 .. (top - 1)) = IF 0 > top - 1 THEN 0 ELSE (top - 1) - 0 + 1
  <2>1. 0 \in Int /\ top - 1 \in Int
    OBVIOUS
  <2>2. QED
    BY <2>1, FS_Interval, Zenon
<1>2. /\ IsFiniteSet(0 .. (top - 1)) /\ Cardinality(0 .. (top - 1)) = top
  BY <1>1
<1>3. QED
  BY <1>2, FS_Subset DEF Keys, Size

\* Storing at a key up to top: a known key, a hole, or the next key.
LEMMA PutKeys ==
  ASSUME TypeOK, NEW fills \in Nat, NEW top \in Nat, Keys(fills, top),
         NEW k \in 0 .. top, NEW v \in Clients \cup {None},
         registry' = Put(k, v), UNCHANGED removals,
         v = None => k < top /\ Lookup(k) = None
  PROVE  \E f \in {fills, fills + 1}, t \in {top, top + 1} :
           /\ Keys(f, t)'
           /\ f = fills => DOMAIN registry' \cap (0 .. (top - 1)) \subseteq DOMAIN registry
<1>1. /\ DOMAIN registry' = DOMAIN registry \cup {k}
      /\ \A j : Lookup(j)' = IF j = k THEN v ELSE Lookup(j)
      /\ \A j \in DOMAIN registry' : registry'[j] = IF j = k THEN v ELSE registry[j]
  <2>1. k \in Nat
    OBVIOUS
  <2>2. QED
    BY <2>1, PutFacts DEF Put
<1>2. Size \in Nat /\ Size' = IF k \in DOMAIN registry THEN Size ELSE Size + 1
  BY <1>1, FS_AddElement, SizeType DEF Size, TypeOK
<1>3. CASE k \in DOMAIN registry
  <2>1. DOMAIN registry' = DOMAIN registry /\ Size' = Size
    BY <1>1, <1>2, <1>3
  <2>2. fills = 0 => v # None
    BY <1>3 DEF Keys, Lookup
  <2>3. fills = 0 => \A j \in DOMAIN registry' : registry'[j] # None
    BY <1>1, <2>1, <2>2 DEF Keys
  <2>4. Keys(fills, top)'
    BY <2>1, <2>3 DEF Keys
  <2>5. QED
    BY <2>1, <2>4
<1>4. CASE k \notin DOMAIN registry /\ k < top
  <2>1. DOMAIN registry' \subseteq 0 .. (top - 1)
    BY <1>1, <1>4 DEF Keys
  <2>2. (fills + 1) + top = removals + (Size + 1)
    BY <1>2 DEF Keys, TypeOK
  <2>3. Keys(fills + 1, top)'
    BY <1>2, <1>4, <2>1, <2>2 DEF Keys
  <2>4. QED
    BY <2>3
<1>5. CASE k = top
  <2>1. v # None /\ k \notin DOMAIN registry
    BY <1>5 DEF Keys
  <2>2. fills = 0 => \A j \in DOMAIN registry' : registry'[j] # None
    BY <1>1, <2>1 DEF Keys
  <2>3. DOMAIN registry' \subseteq 0 .. (top + 1 - 1)
    BY <1>1, <1>5 DEF Keys
  <2>4. fills + (top + 1) = removals + (Size + 1)
    BY <1>2, SizeType DEF Keys, TypeOK
  <2>5. Keys(fills, top + 1)'
    BY <1>2, <2>1, <2>2, <2>3, <2>4 DEF Keys
  <2>6. DOMAIN registry' \cap (0 .. (top - 1)) \subseteq DOMAIN registry
    BY <1>1, <1>5
  <2>7. QED
    BY <2>5, <2>6
<1>6. QED
  BY <1>3, <1>4, <1>5

\* Before the first removal the keys are 0 .. top - 1, all of them live.
LEMMA Dense ==
  ASSUME TypeOK, NEW fills \in Nat, NEW top \in Nat, Keys(fills, top), removals = 0,
         NEW k \in 0 .. (top - 1)
  PROVE  Lookup(k) # None
<1>1. /\ IsFiniteSet(0 .. (top - 1)) /\ Cardinality(0 .. (top - 1)) = top
  BY FS_Interval
<1>2. Size <= top
  BY <1>1, FS_Subset DEF Keys, Size
<1>3. fills = 0 /\ Size = top
  BY <1>2, SizeType DEF Keys
<1>4. DOMAIN registry = 0 .. (top - 1)
  BY <1>1, <1>3, FS_Subset DEF Keys, Size
<1>5. QED
  BY <1>3, <1>4 DEF Keys, Lookup

\* What Released changes: only the debts to a client that loses an entry.
LEMMA ReleasedFacts ==
  ASSUME TypeOK, NEW k, NEW v, notifier' = Released(k, v), NEW n \in Notifiers
  PROVE  /\ notifier'[n].pc = notifier[n].pc
         /\ notifier'[n].size = notifier[n].size
         /\ notifier'[n].pos = notifier[n].pos
         /\ \A c \in notifier'[n].todo : c \in notifier[n].todo /\ (Lookup(k) = c => v = c)
<1>1. CASE Lookup(k) \in Clients /\ v # Lookup(k)
  <2>1. notifier'[n] = [notifier[n] EXCEPT !.todo = @ \ {Lookup(k)}]
    BY <1>1 DEF Released
  <2>2. QED
    BY <2>1 DEF TypeOK
<1>2. CASE ~(Lookup(k) \in Clients /\ v # Lookup(k))
  <2>1. notifier' = notifier
    BY <1>2 DEF Released
  <2>2. notifier[n].todo \subseteq Clients
    BY DEF TypeOK
  <2>3. QED
    BY <1>2, <2>1, <2>2
<1>3. QED
  BY <1>1, <1>2

\* A pass goes on while others move, if who is still owed keeps its keys.
LEMMA PassGoesOn ==
  ASSUME NEW n \in Notifiers, NEW fills \in Nat, NEW top \in Nat,
         NEW since \in [Notifiers -> Nat], NEW keys, Pass(n, fills, top, since, keys),
         TypeOK, since[n] <= fills,
         NEW f \in Nat, NEW t \in Nat, fills <= f, top <= t,
         f = fills => DOMAIN registry' \cap (0 .. (top - 1)) \subseteq DOMAIN registry,
         notifier'[n].pc = notifier[n].pc,
         notifier'[n].size = notifier[n].size,
         notifier'[n].pos = notifier[n].pos,
         \A c \in notifier'[n].todo :
           c \in notifier[n].todo /\ \A k : Lookup(k) = c => Lookup(k)' = c
  PROVE  Pass(n, f, t, since, keys)'
<1> SUFFICES ASSUME notifier[n].pc # "idle"
             PROVE  Pass(n, f, t, since, keys)'
  BY DEF Pass
<1>1. notifier[n].size \in Nat /\ notifier[n].pos \in Nat
  BY DEF TypeOK
<1>2. \A c \in notifier'[n].todo :
        \E k \in keys[n] : k >= notifier[n].pos /\ Lookup(k)' = c
  BY DEF Pass
<1>3. ASSUME since[n] = f
      PROVE  /\ DOMAIN registry' \cap (0 .. (notifier[n].size - 1)) \subseteq keys[n]
             /\ 0 .. (notifier[n].pos - 1) \subseteq keys[n]
  <2>1. f = fills
    BY <1>3
  <2>2. notifier[n].size <= top
    BY DEF Pass
  <2>3. DOMAIN registry' \cap (0 .. (notifier[n].size - 1)) \subseteq DOMAIN registry
    BY <1>1, <2>1, <2>2
  <2>4. QED
    BY <1>3, <2>1, <2>3 DEF Pass
<1>4. notifier[n].size <= t
  BY <1>1 DEF Pass
<1>5. QED
  BY <1>2, <1>3, <1>4 DEF Pass
\* Credits: at most one for each notifier and each filled hole.
LEMMA CreditsBound ==
  ASSUME NEW fills \in Nat, NEW credits, NEW since, Credits(fills, credits, since)
  PROVE  /\ IsFiniteSet(credits)
         /\ Cardinality(credits) <= Cardinality(Notifiers) * fills
<1>1. IsFiniteSet(1 .. fills) /\ Cardinality(1 .. fills) = fills
  <2>1. /\ IsFiniteSet(1 .. fills)
        /\ Cardinality(1 .. fills) = IF 1 > fills THEN 0 ELSE fills - 1 + 1
    <3>1. 1 \in Int /\ fills \in Int
      OBVIOUS
    <3>2. QED
      BY <3>1, FS_Interval, Zenon
  <2>2. QED
    BY <2>1
<1>2. /\ IsFiniteSet(Notifiers \X (1 .. fills))
      /\ Cardinality(Notifiers \X (1 .. fills)) = Cardinality(Notifiers) * fills
  BY <1>1, FS_Product, ThreadAssumption
<1>3. QED
  BY <1>2, FS_Subset DEF Credits

\* A step of a client or a binder thread: the books are carried over.
LEMMA AuditGoesOn ==
  ASSUME TypeOK, TypeOK',
         NEW fills \in Nat, NEW top \in Nat, NEW credits \in SUBSET (Notifiers \X Nat),
         NEW since \in [Notifiers -> Nat], NEW keys \in [Notifiers -> SUBSET Nat],
         Accounts(fills, top, credits, since, keys),
         NEW f \in {fills, fills + 1}, NEW t \in {top, top + 1},
         Keys(f, t)', Scans(t)', UNCHANGED misses,
         f = fills => DOMAIN registry' \cap (0 .. (top - 1)) \subseteq DOMAIN registry,
         \A n \in Notifiers :
           /\ notifier'[n].pc = notifier[n].pc
           /\ notifier'[n].size = notifier[n].size
           /\ notifier'[n].pos = notifier[n].pos
           /\ \A c \in notifier'[n].todo :
                c \in notifier[n].todo /\ \A k : Lookup(k) = c => Lookup(k)' = c
  PROVE  Audited'
<1>1. ASSUME NEW n \in Notifiers
      PROVE  Pass(n, f, t, since, keys)'
  <2>1. Pass(n, fills, top, since, keys) /\ since[n] <= fills
    BY DEF Accounts, Credits
  <2>2. f \in Nat /\ t \in Nat /\ fills <= f /\ top <= t
    OBVIOUS
  <2>3. QED
    BY <2>1, <2>2, PassGoesOn
<1>2. Credits(f, credits, since)'
  BY DEF Accounts, Credits
<1>3. Accounts(f, t, credits, since, keys)'
  BY <1>1, <1>2 DEF Accounts
<1>4. f \in Nat /\ t \in Nat
  OBVIOUS
<1>5. QED
  BY <1>3, <1>4 DEF Audited

\* The same when the registry, the passes and the misses stay as they are.
LEMMA AuditSame ==
  ASSUME TypeOK, TypeOK', Audited,
         UNCHANGED <<registry, notifier, misses, removals>>,
         \A w \in Workers : worker'[w].pc # "idle" =>
           /\ worker'[w].pos <= worker'[w].size
           /\ \/ worker'[w].size = Size
              \/ worker[w].pc # "idle" /\ worker'[w].size = worker[w].size
  PROVE  Audited'
<1>1. PICK fills \in Nat, top \in Nat, credits \in SUBSET (Notifiers \X Nat),
           since \in [Notifiers -> Nat], keys \in [Notifiers -> SUBSET Nat] :
             Accounts(fills, top, credits, since, keys)
  BY DEF Audited
<1>2. Keys(fills, top)'
  BY <1>1 DEF Accounts, Keys, Size
<1>3. Size <= top
  BY <1>1, SizeBound DEF Accounts
<1>4. Scans(top)'
  BY <1>1, <1>3 DEF Accounts, Scans
<1>5. \A k : Lookup(k)' = Lookup(k)
  BY DEF Lookup
<1>6. QED
  BY <1>1, <1>2, <1>4, <1>5, AuditGoesOn

LEMMA AuditScanFree ==
  ASSUME TypeOK, TypeOK', Audited, NEW w \in Workers, ScanFree(w)
  PROVE  Audited'
<1>1. PICK fills \in Nat, top \in Nat, credits \in SUBSET (Notifiers \X Nat),
           since \in [Notifiers -> Nat], keys \in [Notifiers -> SUBSET Nat] :
             Accounts(fills, top, credits, since, keys)
  BY DEF Audited
<1> DEFINE k == worker[w].pos
<1>2. k \in 0 .. (top - 1) /\ Lookup(k) = None
  <2>1. /\ worker[w].pc = "scan" /\ worker[w].pos < worker[w].size
        /\ Lookup(k) = None
    BY DEF ScanFree
  <2>2. worker[w].size <= top
    BY <1>1, <2>1 DEF Accounts, Scans
  <2>3. worker[w].pos \in Nat /\ worker[w].size \in Nat
    BY DEF TypeOK
  <2>4. QED
    BY <2>1, <2>2, <2>3
<1>3. registry' = Put(k, None) /\ UNCHANGED <<notifier, misses, removals>>
  BY <1>2 DEF ScanFree, Touch, notifyVars
<1>4. PICK f \in {fills, fills + 1}, t \in {top, top + 1} :
           /\ Keys(f, t)'
           /\ f = fills => DOMAIN registry' \cap (0 .. (top - 1)) \subseteq DOMAIN registry
  <2>1. Keys(fills, top) /\ k \in 0 .. top /\ k < top
    BY <1>1, <1>2 DEF Accounts
  <2>2. QED
    BY <1>2, <1>3, <2>1, PutKeys
<1>5. \A j : Lookup(j)' = Lookup(j)
  <2>1. k \in Nat
    BY <1>2
  <2>2. QED
    BY <2>1, TouchFacts DEF ScanFree
<1>6. Scans(t)'
  <2>1. \A v \in Workers : /\ worker'[v].pos = worker[v].pos
                           /\ worker'[v].size = worker[v].size
                           /\ worker'[v].pc # "idle" => worker[v].pc # "idle"
    BY DEF ScanFree, TypeOK
  <2>2. QED
    BY <1>1, <2>1 DEF Accounts, Scans, TypeOK
<1>7. QED
  BY <1>1, <1>3, <1>4, <1>5, <1>6, AuditGoesOn

LEMMA AuditStore ==
  ASSUME TypeOK, TypeOK', Serving, Audited, NEW w \in Workers, RegisterStore(w)
  PROVE  Audited'
<1>1. PICK fills \in Nat, top \in Nat, credits \in SUBSET (Notifiers \X Nat),
           since \in [Notifiers -> Nat], keys \in [Notifiers -> SUBSET Nat] :
             Accounts(fills, top, credits, since, keys)
  BY DEF Audited
<1> DEFINE k == worker[w].pos
<1> DEFINE c == worker[w].client
<1>2. k \in 0 .. top /\ c \in Clients
  BY <1>1 DEF RegisterStore, Accounts, Scans, TypeOK, Serving
<1>3. registry' = Put(k, c) /\ notifier' = Released(k, c) /\ UNCHANGED <<misses, removals>>
  BY DEF RegisterStore
<1>4. PICK f \in {fills, fills + 1}, t \in {top, top + 1} :
           /\ Keys(f, t)'
           /\ f = fills => DOMAIN registry' \cap (0 .. (top - 1)) \subseteq DOMAIN registry
  <2>1. c # None /\ Keys(fills, top)
    BY <1>1, <1>2, NoneAssumption DEF Accounts
  <2>2. QED
    BY <1>2, <1>3, <2>1, PutKeys
<1>5. \A j : Lookup(j)' = IF j = k THEN c ELSE Lookup(j)
  <2>1. k \in Nat
    BY <1>2
  <2>2. QED
    BY <1>2, <1>3, <2>1, PutFacts
<1>6. Scans(t)'
  <2>1. worker' = [worker EXCEPT ![w] = Idle]
    BY DEF RegisterStore
  <2>2. \A v \in Workers : worker'[v].pc # "idle" => worker'[v] = worker[v]
    BY <2>1 DEF Idle, TypeOK
  <2>3. QED
    BY <1>1, <2>2 DEF Accounts, Scans, TypeOK
<1>7. \A n \in Notifiers :
           /\ notifier'[n].pc = notifier[n].pc
           /\ notifier'[n].size = notifier[n].size
           /\ notifier'[n].pos = notifier[n].pos
           /\ \A d \in notifier'[n].todo :
                d \in notifier[n].todo /\ \A j : Lookup(j) = d => Lookup(j)' = d
  BY <1>3, <1>5, ReleasedFacts
<1>8. QED
  BY <1>1, <1>3, <1>4, <1>6, <1>7, AuditGoesOn

LEMMA AuditRemove ==
  ASSUME TypeOK, TypeOK', Audited, NEW c \in Clients, RemoveCallback(c)
  PROVE  Audited'
<1>1. PICK fills \in Nat, top \in Nat, credits \in SUBSET (Notifiers \X Nat),
           since \in [Notifiers -> Nat], keys \in [Notifiers -> SUBSET Nat] :
             Accounts(fills, top, credits, since, keys)
  BY DEF Audited
<1> DEFINE k == cookie[c]
<1>2. k \in Int /\ UNCHANGED <<worker, misses>>
  BY DEF TypeOK, RemoveCallback
<1>3. Scans(top)'
  BY <1>1, <1>2 DEF Accounts, Scans
<1>4. CASE k \in DOMAIN registry
  <2>1. k \in Nat
    BY <1>4 DEF TypeOK
  <2>2. /\ registry' = Erase(k) /\ notifier' = Released(k, None)
        /\ removals' = removals + 1
    BY <1>4, <2>1 DEF RemoveCallback
  <2>3. /\ DOMAIN registry' = DOMAIN registry \ {k}
        /\ \A j : Lookup(j)' = IF j = k THEN None ELSE Lookup(j)
    BY <1>2, <2>2, EraseFacts
  <2>4. Size' = Size - 1 /\ Size \in Nat
    BY <1>4, <2>3, FS_RemoveElement, SizeType DEF Size, TypeOK
  <2>5. fills + top = removals' + Size'
    BY <1>1, <2>2, <2>4 DEF Accounts, Keys, TypeOK
  <2>6. fills = 0 => \A j \in DOMAIN registry' : registry'[j] # None
    BY <1>1, <2>2 DEF Accounts, Keys, Erase
  <2>7. Keys(fills, top)'
    BY <1>1, <2>3, <2>5, <2>6 DEF Accounts, Keys
  <2>8. \A n \in Notifiers :
           /\ notifier'[n].pc = notifier[n].pc
           /\ notifier'[n].size = notifier[n].size
           /\ notifier'[n].pos = notifier[n].pos
           /\ \A d \in notifier'[n].todo :
                d \in notifier[n].todo /\ \A j : Lookup(j) = d => Lookup(j)' = d
    BY <2>2, <2>3, ReleasedFacts
  <2>9. DOMAIN registry' \subseteq DOMAIN registry
    BY <2>3
  <2>10. QED
    BY <1>1, <1>2, <1>3, <2>7, <2>8, <2>9, AuditGoesOn
<1>5. CASE k \notin DOMAIN registry
  <2>1. /\ DOMAIN registry' = DOMAIN registry
        /\ \A j \in DOMAIN registry : registry'[j] = registry[j]
    BY <1>5 DEF RemoveCallback, Erase
  <2>2. notifier' = notifier
    BY <1>5, NoneAssumption DEF RemoveCallback, Released, Lookup
  <2>3. UNCHANGED removals
    BY <1>5 DEF RemoveCallback
  <2>4. Keys(fills, top)'
    BY <1>1, <2>1, <2>3 DEF Accounts, Keys, Size
  <2>5. \A j : Lookup(j)' = Lookup(j)
    BY <2>1 DEF Lookup
  <2>6. QED
    BY <1>1, <1>2, <1>3, <2>1, <2>2, <2>4, <2>5, AuditGoesOn
<1>6. QED
  BY <1>4, <1>5

LEMMA AuditNotifyBegin ==
  ASSUME TypeOK, TypeOK', Audited, NEW n \in Notifiers, NotifyBegin(n)
  PROVE  Audited'
<1>1. PICK fills \in Nat, top \in Nat, credits \in SUBSET (Notifiers \X Nat),
           since \in [Notifiers -> Nat], keys \in [Notifiers -> SUBSET Nat] :
             Accounts(fills, top, credits, since, keys)
  BY DEF Audited
<1>0. PICK here \in SUBSET Nat : here = DOMAIN registry
  BY DEF TypeOK
<1> DEFINE since1 == [since EXCEPT ![n] = fills]
<1> DEFINE keys1 == [keys EXCEPT ![n] = here]
<1>2. UNCHANGED <<registry, misses, removals, worker>>
  BY DEF NotifyBegin, workerVars
<1>3. Keys(fills, top)' /\ Scans(top)'
  BY <1>1, <1>2 DEF Accounts, Keys, Scans, Size
<1>4. Credits(fills, credits, since1)'
  BY <1>1, <1>2 DEF Accounts, Credits
<1>5. ASSUME NEW m \in Notifiers
      PROVE  Pass(m, fills, top, since1, keys1)'
  <2>1. CASE m = n
    <3>1. /\ notifier'[n].pc = "check" /\ notifier'[n].size = Size
          /\ notifier'[n].pos = 0
          /\ notifier'[n].todo \subseteq {c \in Clients : Holds(c)}
      BY DEF NotifyBegin, TypeOK
    <3>2. Size \in Nat /\ Size <= top /\ Size = Cardinality(here) /\ IsFiniteSet(here)
      BY <1>0, <1>1, SizeBound, SizeType DEF Accounts, TypeOK, Size
    <3>3. \A c \in notifier'[n].todo : \E k \in here : k >= 0 /\ Lookup(k)' = c
      BY <1>0, <1>2, <3>1 DEF Holds, Lookup, TypeOK
    <3>4. keys1[n] = here /\ since1[n] = fills /\ DOMAIN registry' = here
      BY <1>0, <1>2
    <3>5. 0 .. (notifier'[n].pos - 1) = {}
      BY <3>1
    <3>6. QED
      BY <2>1, <3>1, <3>2, <3>3, <3>4, <3>5 DEF Pass
  <2>2. CASE m # n
    <3>1. notifier'[m] = notifier[m] /\ since1[m] = since[m] /\ keys1[m] = keys[m]
      BY <2>2 DEF NotifyBegin, TypeOK
    <3>2. Pass(m, fills, top, since, keys)
      BY <1>1 DEF Accounts
    <3>3. QED
      BY <1>2, <3>1, <3>2 DEF Pass, Lookup
  <2>3. QED
    BY <2>1, <2>2
<1>6. Accounts(fills, top, credits, since1, keys1)'
  BY <1>3, <1>4, <1>5 DEF Accounts
<1>7. since1 \in [Notifiers -> Nat] /\ keys1 \in [Notifiers -> SUBSET Nat]
  OBVIOUS
<1>8. QED
  BY <1>6, <1>7 DEF Audited
\* A pass looks at its next key: it stays there, or goes on to the next one
\* and owes its client nothing more.
LEMMA AuditLook ==
  ASSUME TypeOK, TypeOK', Audited, NEW n \in Notifiers,
         notifier[n].pc # "idle", notifier[n].pos < notifier[n].size,
         registry' = Touch(notifier[n].pos), UNCHANGED <<worker, removals>>,
         \A m \in Notifiers : m # n => notifier'[m] = notifier[m],
         notifier'[n].size = notifier[n].size,
         \/ notifier'[n].pos = notifier[n].pos /\ notifier'[n].todo = notifier[n].todo
         \/ /\ notifier'[n].pc = "check"
            /\ notifier'[n].pos = notifier[n].pos + 1
            /\ notifier'[n].todo = notifier[n].todo \ {Lookup(notifier[n].pos)},
         \A c \in Clients : misses'[c] <= misses[c]
  PROVE  Audited'
<1>1. PICK fills \in Nat, top \in Nat, credits \in SUBSET (Notifiers \X Nat),
           since \in [Notifiers -> Nat], keys \in [Notifiers -> SUBSET Nat] :
             Accounts(fills, top, credits, since, keys)
  BY DEF Audited
<1>0. PICK i \in Nat : i = notifier[n].pos
  BY DEF TypeOK
<1>2. /\ i < notifier[n].size /\ notifier[n].size <= top
      /\ notifier[n].size \in Nat
  BY <1>0, <1>1 DEF Accounts, Pass, TypeOK
<1>3. i < top /\ i \in 0 .. top
  BY <1>2
<1>4. PICK f \in {fills, fills + 1}, t \in {top, top + 1} :
           /\ Keys(f, t)'
           /\ f = fills => DOMAIN registry' \cap (0 .. (top - 1)) \subseteq DOMAIN registry
  <2>1. Keys(fills, top) /\ Lookup(i) \in Clients \cup {None}
    BY <1>1 DEF Accounts, Lookup, TypeOK
  <2>2. registry' = Put(i, Lookup(i))
    BY <1>0 DEF Touch
  <2>3. CASE Lookup(i) = None
    BY <1>3, <2>1, <2>2, <2>3, PutKeys
  <2>4. CASE Lookup(i) # None
    BY <1>3, <2>1, <2>2, <2>4, PutKeys
  <2>5. QED
    BY <2>3, <2>4
<1>5. /\ \A j : Lookup(j)' = Lookup(j)
      /\ i \in DOMAIN registry'
  BY <1>0, TouchFacts
<1>6. Scans(t)'
  BY <1>1 DEF Accounts, Scans, TypeOK
<1>7. /\ f \in Nat /\ t \in Nat /\ fills <= f /\ top <= t
  OBVIOUS
<1>8. since[n] <= fills /\ since[n] \in Nat /\ Pass(n, fills, top, since, keys)
  BY <1>1 DEF Accounts, Credits
<1>9. Pass(n, f, t, since, keys)'
  <2>1. CASE notifier'[n].pos = notifier[n].pos /\ notifier'[n].todo = notifier[n].todo
    <3>1. notifier'[n].size <= t /\ notifier'[n].pos < notifier'[n].size
      BY <1>0, <1>2, <1>7, <2>1
    <3>2. \A c \in notifier'[n].todo :
            \E k \in keys[n] : k >= notifier'[n].pos /\ Lookup(k)' = c
      BY <1>5, <1>8, <2>1 DEF Pass
    <3>3. ASSUME since[n] = f
          PROVE  /\ DOMAIN registry' \cap (0 .. (notifier'[n].size - 1)) \subseteq keys[n]
                 /\ 0 .. (notifier'[n].pos - 1) \subseteq keys[n]
      <4>1. f = fills
        BY <1>8, <3>3
      <4>2. DOMAIN registry' \cap (0 .. (notifier[n].size - 1)) \subseteq DOMAIN registry
        BY <1>2, <1>4, <4>1
      <4>3. QED
        BY <1>8, <2>1, <3>3, <4>1, <4>2 DEF Pass
    <3>4. QED
      BY <1>0, <1>2, <1>8, <2>1, <3>1, <3>2, <3>3 DEF Pass
  <2>2. CASE /\ notifier'[n].pc = "check"
             /\ notifier'[n].pos = notifier[n].pos + 1
             /\ notifier'[n].todo = notifier[n].todo \ {Lookup(notifier[n].pos)}
    <3>1. notifier'[n].size <= t /\ notifier'[n].pos <= notifier'[n].size
      BY <1>0, <1>2, <1>7, <2>2
    <3>2. ASSUME NEW c \in notifier'[n].todo
          PROVE  \E k \in keys[n] : k >= notifier'[n].pos /\ Lookup(k)' = c
      <4>1. c \in notifier[n].todo /\ c # Lookup(i)
        BY <1>0, <2>2
      <4>2. PICK k \in keys[n] : k >= i /\ Lookup(k) = c
        BY <1>0, <1>8, <4>1 DEF Pass
      <4>3. k \in Nat /\ k # i
        BY <4>1, <4>2
      <4>4. k >= i + 1
        BY <4>2, <4>3
      <4>5. QED
        BY <1>0, <1>5, <2>2, <4>2, <4>4
    <3>3. ASSUME since[n] = f
          PROVE  /\ DOMAIN registry' \cap (0 .. (notifier'[n].size - 1)) \subseteq keys[n]
                 /\ 0 .. (notifier'[n].pos - 1) \subseteq keys[n]
      <4>1. f = fills
        BY <1>8, <3>3
      <4>2. DOMAIN registry' \cap (0 .. (notifier[n].size - 1)) \subseteq DOMAIN registry
        BY <1>2, <1>4, <4>1
      <4>3. DOMAIN registry' \cap (0 .. (notifier[n].size - 1)) \subseteq keys[n]
        BY <1>8, <3>3, <4>1, <4>2 DEF Pass
      <4>4. i \in keys[n]
        BY <1>2, <1>5, <4>3
      <4>5. 0 .. (i - 1) \subseteq keys[n]
        BY <1>0, <1>8, <3>3, <4>1 DEF Pass
      <4>6. notifier'[n].pos = i + 1 /\ notifier'[n].size = notifier[n].size
        BY <1>0, <2>2
      <4>7. \A j \in 0 .. ((i + 1) - 1) : j = i \/ j \in 0 .. (i - 1)
        OBVIOUS
      <4>8. QED
        BY <4>3, <4>4, <4>5, <4>6, <4>7
    <3>4. IsFiniteSet(keys[n]) /\ Cardinality(keys[n]) = notifier'[n].size
      BY <1>8 DEF Pass
    <3>5. notifier'[n].pc # "send"
      BY <2>2
    <3>6. QED
      BY <3>1, <3>2, <3>3, <3>4, <3>5 DEF Pass
  <2>3. QED
    BY <2>1, <2>2
<1>10. ASSUME NEW m \in Notifiers, m # n
       PROVE  Pass(m, f, t, since, keys)'
  <2>1. Pass(m, fills, top, since, keys) /\ since[m] <= fills
    BY <1>1 DEF Accounts, Credits
  <2>2. notifier'[m] = notifier[m]
    BY <1>10
  <2>3. QED
    BY <1>4, <1>5, <1>7, <2>1, <2>2, PassGoesOn
<1>11. Credits(f, credits, since)'
  <2>1. \A m \in Notifiers : since[m] <= f
    BY <1>1, <1>7 DEF Accounts, Credits
  <2>2. credits \subseteq Notifiers \X (1 .. f)
    BY <1>1, <1>7 DEF Accounts, Credits
  <2>3. IsFiniteSet(credits)
    BY <1>1, CreditsBound DEF Accounts
  <2>4. Cardinality(credits) \in Nat
    BY <2>3, FS_CardinalityType
  <2>5. \A c \in Clients : misses'[c] <= Cardinality(credits)
    BY <1>1, <2>4 DEF Accounts, Credits, TypeOK
  <2>6. QED
    BY <1>1, <2>1, <2>2, <2>5 DEF Accounts, Credits
<1>12. Accounts(f, t, credits, since, keys)'
  BY <1>4, <1>6, <1>9, <1>10, <1>11 DEF Accounts
<1>13. QED
  BY <1>7, <1>12 DEF Audited

LEMMA AuditNotifyCheck ==
  ASSUME TypeOK, TypeOK', Audited, NEW n \in Notifiers, NotifyCheck(n)
  PROVE  Audited'
<1>1. /\ notifier[n].pc = "check" /\ notifier[n].pos < notifier[n].size
      /\ registry' = Touch(notifier[n].pos) /\ UNCHANGED <<worker, misses, removals>>
  BY DEF NotifyCheck, workerVars
<1>2. \A m \in Notifiers : m # n => notifier'[m] = notifier[m]
  BY DEF NotifyCheck, TypeOK
<1>3. CASE Lookup(notifier[n].pos) = None
  <2>1. /\ notifier'[n].pc = "check" /\ notifier'[n].size = notifier[n].size
        /\ notifier'[n].pos = notifier[n].pos + 1
        /\ notifier'[n].todo = notifier[n].todo
    BY <1>3 DEF NotifyCheck, TypeOK
  <2>2. notifier[n].todo = notifier[n].todo \ {Lookup(notifier[n].pos)}
    BY <1>3, NoneAssumption DEF TypeOK
  <2>3. \A c \in Clients : misses'[c] <= misses[c]
    BY <1>1 DEF TypeOK
  <2>4. notifier'[n].todo = notifier[n].todo \ {Lookup(notifier[n].pos)}
    BY <2>1, <2>2
  <2>5. notifier[n].pc # "idle"
    BY <1>1
  <2>6. QED
    BY <1>1, <1>2, <2>1, <2>3, <2>4, <2>5, AuditLook
<1>4. CASE Lookup(notifier[n].pos) # None
  <2>1. /\ notifier'[n].size = notifier[n].size
        /\ notifier'[n].pos = notifier[n].pos
        /\ notifier'[n].todo = notifier[n].todo
    BY <1>4 DEF NotifyCheck, TypeOK
  <2>2. \A c \in Clients : misses'[c] <= misses[c]
    BY <1>1 DEF TypeOK
  <2>3. notifier[n].pc # "idle"
    BY <1>1
  <2>4. QED
    BY <1>1, <1>2, <2>1, <2>2, <2>3, AuditLook
<1>5. QED
  BY <1>3, <1>4

LEMMA AuditNotifySend ==
  ASSUME TypeOK, TypeOK', Audited, NEW n \in Notifiers, NotifySend(n)
  PROVE  Audited'
<1>1. /\ notifier[n].pc = "send"
      /\ registry' = Touch(notifier[n].pos) /\ UNCHANGED <<worker, removals>>
  BY DEF NotifySend, workerVars
<1>2. notifier[n].pos < notifier[n].size
  BY <1>1 DEF Audited, Accounts, Pass
<1>3. CASE Lookup(notifier[n].pos) = None
  <2>1. UNCHANGED <<notifier, misses>>
    BY <1>3 DEF NotifySend
  <2>2. \A c \in Clients : misses'[c] <= misses[c]
    BY <2>1 DEF TypeOK
  <2>3. notifier[n].pc # "idle"
    BY <1>1
  <2>4. QED
    BY <1>1, <1>2, <2>1, <2>2, <2>3, AuditLook
<1>4. CASE Lookup(notifier[n].pos) # None
  <2>1. notifier' = [notifier EXCEPT ![n].pc = "check", ![n].pos = @ + 1,
                       ![n].todo = @ \ {Lookup(notifier[n].pos)}]
    BY <1>4 DEF NotifySend
  <2>2. \A m \in Notifiers : m # n => notifier'[m] = notifier[m]
    BY <2>1 DEF TypeOK
  <2>3. /\ notifier'[n].pc = "check" /\ notifier'[n].size = notifier[n].size
        /\ notifier'[n].pos = notifier[n].pos + 1
        /\ notifier'[n].todo = notifier[n].todo \ {Lookup(notifier[n].pos)}
    BY <2>1 DEF TypeOK
  <2>4. misses \in [Clients -> Nat]
    BY DEF TypeOK
  <2>5. \/ misses' = misses
        \/ misses' = [misses EXCEPT ![Lookup(notifier[n].pos)] = 0]
    BY <1>4 DEF NotifySend
  <2>6. \A c \in Clients : misses'[c] <= misses[c]
    BY <2>4, <2>5
  <2>7. QED
    BY <1>1, <1>2, <2>2, <2>3, <2>6, AuditLook
<1>5. QED
  BY <1>3, <1>4

\* A pass that nobody's filling overlapped passed by all the keys there were.
LEMMA PassComplete ==
  ASSUME TypeOK, NEW n \in Notifiers, NEW fills, NEW top, NEW since,
         NEW keys \in [Notifiers -> SUBSET Nat], Pass(n, fills, top, since, keys),
         notifier[n].pc # "idle", notifier[n].pos = notifier[n].size,
         since[n] = fills
  PROVE  notifier[n].todo = {}
<1>1. PICK size \in Nat : size = notifier[n].size
  BY DEF TypeOK
<1>2. /\ IsFiniteSet(0 .. (size - 1)) /\ Cardinality(0 .. (size - 1)) = size
  <2>1. /\ IsFiniteSet(0 .. (size - 1))
        /\ Cardinality(0 .. (size - 1)) = IF 0 > size - 1 THEN 0 ELSE (size - 1) - 0 + 1
    <3>1. 0 \in Int /\ size - 1 \in Int
      OBVIOUS
    <3>2. QED
      BY <3>1, FS_Interval, Zenon
  <2>2. QED
    BY <2>1
<1>3. 0 .. (size - 1) \subseteq keys[n] /\ IsFiniteSet(keys[n]) /\ Cardinality(keys[n]) = size
  BY <1>1 DEF Pass
<1>4. keys[n] = 0 .. (size - 1)
  BY <1>2, <1>3, FS_Subset
<1>5. \A k \in keys[n] : ~(k >= size)
  BY <1>4
<1>6. QED
  BY <1>1, <1>5 DEF Pass
\* A pass ends: if it owes an event, a hole was filled since it began, and the
\* miss is credited to that.
LEMMA AuditNotifyEnd ==
  ASSUME TypeOK, TypeOK', Audited, NEW n \in Notifiers, NotifyEnd(n)
  PROVE  Audited'
<1>1. PICK fills \in Nat, top \in Nat, credits \in SUBSET (Notifiers \X Nat),
           since \in [Notifiers -> Nat], keys \in [Notifiers -> SUBSET Nat] :
             Accounts(fills, top, credits, since, keys)
  BY DEF Audited
<1> DEFINE since1 == [since EXCEPT ![n] = fills]
<1>2. /\ UNCHANGED <<registry, removals, worker>>
      /\ notifier' = [notifier EXCEPT ![n] = Quiet]
      /\ notifier[n].pc = "check" /\ notifier[n].pos = notifier[n].size
      /\ misses' = [c \in Clients |-> IF c \in notifier[n].todo /\ Reachable(c)
                                      THEN misses[c] + 1 ELSE misses[c]]
  BY DEF NotifyEnd, workerVars
<1>3. Keys(fills, top)' /\ Scans(top)'
  BY <1>1, <1>2 DEF Accounts, Keys, Scans, Size
<1>4. \A m \in Notifiers : m # n => since1[m] = since[m] /\ notifier'[m] = notifier[m]
  BY <1>2 DEF TypeOK
<1>5. notifier'[n].pc = "idle" /\ since1[n] = fills /\ since1 \in [Notifiers -> Nat]
  BY <1>2 DEF Quiet, TypeOK
<1>6. ASSUME NEW m \in Notifiers
      PROVE  Pass(m, fills, top, since1, keys)'
  <2>1. CASE m = n
    BY <1>5, <2>1 DEF Pass
  <2>2. CASE m # n
    <3>1. notifier'[m] = notifier[m] /\ since1[m] = since[m]
      BY <1>4, <2>2
    <3>2. Pass(m, fills, top, since, keys)
      BY <1>1 DEF Accounts
    <3>3. QED
      BY <1>2, <3>1, <3>2 DEF Pass, Lookup
  <2>3. QED
    BY <2>1, <2>2
<1>7. \A m \in Notifiers : since1[m] <= fills /\ since[m] <= since1[m]
  BY <1>1, <1>4, <1>5 DEF Accounts, Credits
<1>8. IsFiniteSet(credits) /\ Cardinality(credits) \in Nat
  BY <1>1, CreditsBound, FS_CardinalityType DEF Accounts
<1>9. /\ credits \subseteq Notifiers \X (1 .. fills)
      /\ \A e \in credits : e[2] <= since[e[1]]
      /\ \A c \in Clients : misses[c] <= Cardinality(credits)
  BY <1>1 DEF Accounts, Credits
<1>10. \A e \in credits : e[1] \in Notifiers /\ e[2] \in Nat
  BY <1>9
<1>11. \A e \in credits : e[2] <= since1[e[1]]
  BY <1>5, <1>7, <1>9, <1>10
<1>12. CASE since[n] = fills
  <2>1. notifier[n].todo = {}
    BY <1>1, <1>2, <1>12, PassComplete DEF Accounts
  <2>2. \A c \in Clients : misses'[c] = misses[c]
    BY <1>2, <2>1
  <2>3. Credits(fills, credits, since1)'
    BY <1>7, <1>9, <1>11, <2>2 DEF Credits
  <2>4. Accounts(fills, top, credits, since1, keys)'
    BY <1>3, <1>6, <2>3 DEF Accounts
  <2>5. QED
    BY <1>5, <2>4 DEF Audited
<1>13. CASE since[n] # fills
  <2> DEFINE credits1 == credits \cup {<<n, fills>>}
  <2>1. since[n] < fills
    BY <1>1, <1>13 DEF Accounts, Credits
  <2>2. <<n, fills>> \notin credits
    BY <1>9, <2>1
  <2>3. Cardinality(credits1) = Cardinality(credits) + 1
    BY <1>8, <2>2, FS_AddElement
  <2>4. credits1 \subseteq Notifiers \X (1 .. fills)
    BY <1>9, <2>1
  <2>5. \A e \in credits1 : e[2] <= since1[e[1]]
    BY <1>5, <1>11
  <2>6. \A c \in Clients : misses'[c] <= Cardinality(credits1)
    BY <1>2, <1>8, <1>9, <2>3 DEF TypeOK
  <2>7. Credits(fills, credits1, since1)'
    BY <1>7, <2>4, <2>5, <2>6 DEF Credits
  <2>8. Accounts(fills, top, credits1, since1, keys)'
    BY <1>3, <1>6, <2>7 DEF Accounts
  <2>9. credits1 \in SUBSET (Notifiers \X Nat)
    OBVIOUS
  <2>10. QED
    BY <1>5, <2>8, <2>9 DEF Audited
<1>14. QED
  BY <1>12, <1>13

LEMMA AuditStep ==
  ASSUME TypeOK, TypeOK', Serving, Audited, [Next]_vars
  PROVE  Audited'
<1>1. ASSUME UNCHANGED <<registry, notifier, misses, removals, worker>>
      PROVE  Audited'
  <2>1. \A w \in Workers : worker'[w].pc # "idle" =>
           /\ worker'[w].pos <= worker'[w].size
           /\ worker[w].pc # "idle" /\ worker'[w].size = worker[w].size
    BY <1>1 DEF Audited, Accounts, Scans
  <2>2. QED
    BY <1>1, <2>1, AuditSame
<1>2. ASSUME NEW c \in Clients,
             \/ RegisterObserver(c) \/ DestroyBegin(c) \/ Kill(c)
             \/ \E isNull \in BOOLEAN : AddObserver(c, isNull)
      PROVE  Audited'
  BY <1>1, <1>2 DEF RegisterObserver, DestroyBegin, Kill, AddObserver, workerVars, notifyVars
<1>3. ASSUME NEW c \in Clients, NEW w \in Workers, RegisterBegin(w, c)
      PROVE  Audited'
  <2>1. UNCHANGED <<registry, notifier, misses, removals>>
    BY <1>3 DEF RegisterBegin, notifyVars
  <2>2. worker' = [worker EXCEPT ![w] = [pc |-> "scan", client |-> c, size |-> Size, pos |-> 0]]
    BY <1>3 DEF RegisterBegin
  <2>3. \A v \in Workers : worker[v].pc # "idle" => worker[v].pos <= worker[v].size
    BY DEF Audited, Accounts, Scans
  <2>4. \A v \in Workers : worker'[v].pc # "idle" =>
           /\ worker'[v].pos <= worker'[v].size
           /\ \/ worker'[v].size = Size
              \/ worker[v].pc # "idle" /\ worker'[v].size = worker[v].size
    <3>1. worker'[w].pos = 0 /\ worker'[w].size = Size /\ Size \in Nat
      BY <2>2, SizeType DEF TypeOK
    <3>2. \A v \in Workers : v # w => worker'[v] = worker[v]
      BY <2>2 DEF TypeOK
    <3>3. QED
      BY <2>3, <3>1, <3>2
  <2>5. QED
    BY <2>1, <2>4, AuditSame
<1>4. ASSUME NEW w \in Workers, ScanTaken(w) \/ ScanEnd(w)
      PROVE  Audited'
  <2>1. UNCHANGED <<registry, notifier, misses, removals>>
    BY <1>4 DEF ScanTaken, ScanEnd, notifyVars
  <2>2. \A v \in Workers : worker[v].pc # "idle" => worker[v].pos <= worker[v].size
    BY DEF Audited, Accounts, Scans
  <2>3. \A v \in Workers : worker'[v].pc # "idle" =>
           /\ worker'[v].pos <= worker'[v].size
           /\ worker[v].pc # "idle" /\ worker'[v].size = worker[v].size
    <3>1. CASE ScanTaken(w)
      BY <2>2, <3>1 DEF ScanTaken, TypeOK
    <3>2. CASE ScanEnd(w)
      BY <2>2, <3>2 DEF ScanEnd, TypeOK
    <3>3. QED
      BY <1>4, <3>1, <3>2
  <2>4. QED
    BY <2>1, <2>3, AuditSame
<1>5. CASE UNCHANGED vars
  BY <1>1, <1>5 DEF vars, workerVars, notifyVars
<1>6. QED
  BY <1>2, <1>3, <1>4, <1>5, AuditScanFree, AuditStore, AuditRemove,
     AuditNotifyBegin, AuditNotifyCheck, AuditNotifySend, AuditNotifyEnd
  DEF Next, WorkerStep, NotifierStep

\* The keys below a size once read are never empty before the first removal,
\* so only a removal makes the transact of a null callback possible.
LEMMA DownStep ==
  ASSUME TypeOK, Audited, DownNeedsRemoval, [Next]_vars
  PROVE  DownNeedsRemoval'
<1>1. CASE UNCHANGED down
  <2>1. removals' = removals \/ removals' = removals + 1
    BY DEF Next, WorkerStep, NotifierStep, RegisterObserver, AddObserver, DestroyBegin,
       RemoveCallback, Kill, RegisterBegin, ScanTaken, ScanFree, ScanEnd, RegisterStore,
       NotifyBegin, NotifyCheck, NotifySend, NotifyEnd, vars
  <2>2. QED
    BY <1>1, <2>1, SMTT(30) DEF DownNeedsRemoval, TypeOK
<1>2. CASE ~UNCHANGED down
  <2>1. PICK n \in Notifiers : NotifySend(n)
    BY <1>2 DEF Next, WorkerStep, NotifierStep, RegisterObserver, AddObserver, DestroyBegin,
       RemoveCallback, Kill, RegisterBegin, ScanTaken, ScanFree, ScanEnd, RegisterStore,
       NotifyBegin, NotifyCheck, NotifyEnd, vars, notifyVars
  <2>2. notifier[n].pc = "send" /\ Lookup(notifier[n].pos) = None /\ UNCHANGED removals
    BY <1>2, <2>1 DEF NotifySend
  <2>3. PICK fills \in Nat, top \in Nat :
          /\ Keys(fills, top)
          /\ notifier[n].pos < notifier[n].size /\ notifier[n].size <= top
    BY <2>2 DEF Audited, Accounts, Pass
  <2>4. notifier[n].pos \in 0 .. (top - 1)
    BY <2>3 DEF TypeOK
  <2>5. removals # 0
    BY <2>2, <2>3, <2>4, Dense
  <2>6. QED
    BY <2>2, <2>5 DEF DownNeedsRemoval, TypeOK
<1>3. QED
  BY <1>1, <1>2

LEMMA AuditInit == Init => Audited /\ DownNeedsRemoval
<1> SUFFICES ASSUME Init PROVE Audited /\ DownNeedsRemoval
  OBVIOUS
<1> DEFINE since == [n \in Notifiers |-> 0]
<1> DEFINE keys == [n \in Notifiers |-> {}]
<1>1. DOMAIN registry = {} /\ removals = 0 /\ ~down
  BY DEF Init
<1>2. Size = 0
  BY <1>1, FS_EmptySet DEF Size
<1>3. Keys(0, 0)
  BY <1>1, <1>2 DEF Keys
<1>4. Scans(0)
  BY DEF Init, Scans, Idle
<1>5. \A n \in Notifiers : Pass(n, 0, 0, since, keys)
  BY DEF Init, Pass, Quiet
<1>6. Cardinality({}) = 0
  BY FS_EmptySet
<1>7. Credits(0, {}, since)
  BY <1>6 DEF Init, Credits
<1>8. Accounts(0, 0, {}, since, keys)
  BY <1>3, <1>4, <1>5, <1>7 DEF Accounts
<1>9. /\ 0 \in Nat /\ {} \in SUBSET (Notifiers \X Nat)
      /\ since \in [Notifiers -> Nat] /\ keys \in [Notifiers -> SUBSET Nat]
  OBVIOUS
<1>10. Audited
  BY <1>8, <1>9, Zenon DEF Audited
<1>11. QED
  BY <1>1, <1>10 DEF DownNeedsRemoval

\* The fills are at most the removals, the credits at most one per notifier
\* and fill.
LEMMA AuditBounds ==
  ASSUME TypeOK, Audited
  PROVE  MissesBounded
<1>1. PICK fills \in Nat, top \in Nat, credits \in SUBSET (Notifiers \X Nat),
           since \in [Notifiers -> Nat], keys \in [Notifiers -> SUBSET Nat] :
             Accounts(fills, top, credits, since, keys)
  BY DEF Audited
<1>2. Size <= top /\ Size \in Nat /\ fills + top = removals + Size
  BY <1>1, SizeBound, SizeType DEF Accounts, Keys
<1>3. fills <= removals /\ removals \in Nat
  BY <1>2 DEF TypeOK
<1>4. Cardinality(Notifiers) \in Nat
  BY ThreadAssumption, FS_CardinalityType
<1>5. Cardinality(Notifiers) * fills <= removals * Cardinality(Notifiers)
  BY <1>3, <1>4
<1>6. /\ IsFiniteSet(credits) /\ Cardinality(credits) \in Nat
      /\ Cardinality(credits) <= Cardinality(Notifiers) * fills
  BY <1>1, CreditsBound, FS_CardinalityType DEF Accounts
<1>7. Cardinality(Notifiers) * fills \in Nat /\ removals * Cardinality(Notifiers) \in Nat
  BY <1>3, <1>4
<1>8. \A c \in Clients : misses[c] \in Nat /\ misses[c] <= Cardinality(credits)
  BY <1>1 DEF Accounts, Credits, TypeOK
<1>9. QED
  BY <1>5, <1>6, <1>7, <1>8 DEF MissesBounded

\* A client behind a hole of the map misses at most as many events in a row as
\* callbacks were removed, for each thread that delivers them.
THEOREM MissesAreBounded == Spec => []MissesBounded
<1>1. TypeOK /\ Serving /\ [Next]_vars => (TypeOK /\ Serving)'
  BY TypeStep
<1>2. TypeOK /\ TypeOK' /\ Serving /\ Audited /\ [Next]_vars => Audited'
  BY AuditStep
<1>3. TypeOK /\ Audited => MissesBounded
  BY AuditBounds
<1>4. QED
  BY TypeInit, AuditInit, <1>1, <1>2, <1>3, PTL DEF Spec

\* The service transacts a null callback only after some callback was removed.
THEOREM DownOnlyByRemoval == Spec => []DownNeedsRemoval
<1>1. TypeOK /\ Serving /\ [Next]_vars => (TypeOK /\ Serving)'
  BY TypeStep
<1>2. TypeOK /\ TypeOK' /\ Serving /\ Audited /\ [Next]_vars => Audited'
  BY AuditStep
<1>3. TypeOK /\ Audited /\ DownNeedsRemoval /\ [Next]_vars => DownNeedsRemoval'
  BY DownStep
<1>4. QED
  BY TypeInit, AuditInit, <1>1, <1>2, <1>3, PTL DEF Spec
===============================================================================
