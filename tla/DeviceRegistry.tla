--------------------------- MODULE DeviceRegistry ---------------------------
(***************************************************************************)
(* Which receiver a client gets, and what it is told when the receiver     *)
(* goes away: the daemon's inventory and its cache, identities resolved    *)
(* against it (src/identity.c), the open handle that outlives its client,  *)
(* recovery and the removal tracker (daemon/removal_tracker.c), and the    *)
(* device API lock of the library, held in the daemon across processes.    *)
(*                                                                         *)
(* Receivers come and go on the bus in any order; an index is a position   *)
(* in the current enumeration.  A receiver is cold, and shows no serial,   *)
(* until the daemon has loaded its firmware.  Shared (master and slave)    *)
(* clients are the subject of DuoClients.                                  *)
(***************************************************************************)
EXTENDS Naturals, Sequences, FiniteSets, SequencesExt

CONSTANTS
  Receivers,    \* receivers that may be on the bus
  Serial,       \* the serial of each receiver once it is warm
  Callers,      \* application threads
  Process,      \* the process of each caller
  Grace,        \* ticks of absence before a removal is reported
  MaxEvents,    \* bound: changes of the bus and calls of LockDeviceApi together
  NoOne,        \* no receiver, no caller
  Stray         \* a connection its client has closed, or a handle whose receiver has
                \* left, unnoticed by the daemon

ASSUME RegistryAssumption ==
  /\ Grace \in Nat /\ MaxEvents \in Nat
  /\ {NoOne, Stray} \intersect (Receivers \union Callers) = {} /\ NoOne # Stray

VARIABLES
  bus,          \* the receivers on the bus, in the order of their indices
  cold,         \* those that show no serial yet
  events,       \* events so far, for the bound
  snap,         \* device_snapshot: its records, whether valid, whether under a second old
  owner,        \* the client that acquired a receiver
  acquired,     \* acquired_identity: serial and index
  radio,        \* the receiver that is open, kept open between clients
  stream,       \* "off", "on", or "failed" (stream_error)
  tracker,      \* the removal tracker; age is the time since absent_since
  told,         \* history: REMOVED events of this absence
  raced,        \* history: the open handle was resolved from an outdated inventory
  apiLock,      \* api_lock_owner
  mutex,        \* device_api_lock of each process
  at,           \* where each caller is in LockDeviceApi
  depth         \* device_api_lock_depth

device == <<bus, cold, events, snap, owner, acquired, radio, stream, tracker, told, raced>>
lockVars == <<apiLock, mutex, at, depth>>
vars == <<device, lockVars>>

Processes == {Process[c] : c \in Callers}
Present == [active |-> FALSE, age |-> 0, notified |-> FALSE]

Init ==
  /\ bus = SetToSeq(Receivers) /\ cold = {} /\ events = 0
  /\ snap = [records |-> {}, valid |-> FALSE, fresh |-> FALSE]
  /\ owner = NoOne /\ acquired = [serial |-> "", index |-> 0] /\ radio = NoOne /\ stream = "off"
  /\ tracker = Present /\ told = 0 /\ raced = FALSE
  /\ apiLock = NoOne /\ mutex = [p \in Processes |-> NoOne]
  /\ at = [c \in Callers |-> "out"] /\ depth = [c \in Callers |-> 0]
-----------------------------------------------------------------------------
(* The bus *)

Plug(r) ==
  /\ events < MaxEvents /\ events' = events + 1
  /\ ~Contains(bus, r) /\ bus' = Append(bus, r) /\ cold' = cold \union {r}
  /\ UNCHANGED <<snap, owner, acquired, radio, stream, tracker, told, raced, lockVars>>

\* The stream of an owner ends with its receiver.
Unplug(r) ==
  /\ events < MaxEvents /\ events' = events + 1
  /\ Contains(bus, r) /\ bus' = SelectSeq(bus, LAMBDA x : x # r) /\ cold' = cold \ {r}
  /\ stream' = IF stream = "on" /\ radio = r THEN "failed" ELSE stream
  /\ radio' = IF radio = r THEN Stray ELSE radio
  /\ UNCHANGED <<snap, owner, acquired, tracker, told, raced, lockVars>>

Tick ==
  /\ snap.fresh \/ (tracker.active /\ tracker.age < Grace)
  /\ snap' = [snap EXCEPT !.fresh = FALSE]
  /\ tracker' = [tracker EXCEPT !.age = IF tracker.active /\ @ < Grace THEN @ + 1 ELSE @]
  /\ UNCHANGED <<bus, cold, events, owner, acquired, radio, stream, told, raced, lockVars>>
-----------------------------------------------------------------------------
(* snapshot_sdrplay_devices: firmware is loaded into cold receivers, some of which
   may refuse it, and the bus is enumerated; unless the cache will do. *)

Cached(held) == snap.valid /\ (held \/ snap.fresh)

Enumerated(booted) ==
  {[serial |-> IF bus[i] \in cold \ booted THEN "" ELSE Serial[bus[i]], index |-> i] :
     i \in DOMAIN bus}

\* The records a request works with.  A held receiver keeps the cache in use.
Records(held, booted) == IF Cached(held) THEN snap.records ELSE Enumerated(booted)
Fresh(booted) == [records |-> Enumerated(booted), valid |-> TRUE, fresh |-> TRUE]

Inventory(held, booted) ==
  IF Cached(held) THEN UNCHANGED <<snap, cold>>
  ELSE snap' = Fresh(booted) /\ cold' = cold \ booted

\* openrsp_identity_matches: by serial, or by index where there is none.
Matches(id, rec) == IF id.serial # "" THEN rec.serial = id.serial ELSE rec.index = id.index

\* openrsp_identity_resolve: the index of the one match, if there is exactly one.
Resolved(id, records) ==
  LET found == {rec \in records : Matches(id, rec)}
  IN IF Cardinality(found) = 1 THEN {rec.index : rec \in found} ELSE {}

Missing(id, records) == \A rec \in records : ~Matches(id, rec)

\* mirisdr_open_tuner: the receiver at an index, if there is one.
Opened(i) == IF i \in DOMAIN bus THEN bus[i] ELSE NoOne
-----------------------------------------------------------------------------
(* Requests of clients *)

\* What discovery_handles may hold: the identity of any receiver seen earlier, by
\* serial, or by index while it was cold.
Handles ==
  {[serial |-> Serial[r], index |-> 0] : r \in Receivers}
    \union {[serial |-> "", index |-> i] : i \in 1..Cardinality(Receivers)}

\* GetDevices, with or without the lock
GetDevices(c, booted) ==
  /\ at[c] \in {"out", "in"} /\ Inventory(radio # NoOne, booted)
  /\ UNCHANGED <<bus, events, owner, acquired, radio, stream, tracker, told, raced, lockVars>>

\* Mutant: whatever is open is kept.
KeptAlways(records, i) == TRUE

\* ACQUIRE.  A receiver still open from the last client is closed unless it is the
\* one asked for.
Kept(records, i) == \E rec \in records : rec.index = i /\ Matches(acquired, rec)

Acquire(c, id, booted) ==
  LET records == Records(radio # NoOne, booted)
  IN /\ at[c] \in {"out", "in"} /\ owner = NoOne /\ Inventory(radio # NoOne, booted)
     /\ \E i \in Resolved(id, records) :
          /\ acquired' = [serial |-> id.serial, index |-> i] /\ owner' = c
          /\ radio' = IF Kept(records, i) THEN radio ELSE NoOne
     /\ UNCHANGED <<bus, events, stream, tracker, told, raced, lockVars>>

\* CONFIGURE and START.  A receiver that is open and answers is used; otherwise it is
\* closed, the identity resolved again and the receiver at that index opened.
Configure(c, booted) ==
  /\ owner = c /\ stream = "off"
  /\ IF radio \in Receivers
     THEN stream' = "on" /\ UNCHANGED <<snap, cold, acquired, radio, raced>>
     ELSE /\ Inventory(FALSE, booted)
          /\ raced' = (Cached(FALSE) /\ snap.records # Enumerated({}))
          /\ \/ /\ Resolved(acquired, Records(FALSE, booted)) = {}
                /\ radio' = NoOne /\ UNCHANGED <<acquired, stream>>
             \/ \E i \in Resolved(acquired, Records(FALSE, booted)) :
                  /\ radio' = Opened(i) /\ acquired' = [acquired EXCEPT !.index = i]
                  /\ stream' = IF radio' = NoOne THEN "off" ELSE "on"
  /\ UNCHANGED <<bus, events, owner, tracker, told, lockVars>>

\* release_client: the receiver stays open unless its stream has failed.
Released ==
  /\ owner' = NoOne /\ stream' = "off" /\ tracker' = Present /\ told' = 0
  /\ radio' = IF stream = "failed" THEN NoOne ELSE radio

Release(c) ==
  /\ owner = c /\ Released
  /\ UNCHANGED <<bus, cold, events, snap, acquired, raced, lockVars>>
-----------------------------------------------------------------------------
(* recover_failed_stream and the removal tracker *)

\* Mutants: the report is not remembered; an absence is never begun.
DueAgain(t) == IF t.active THEN t.age = Grace ELSE Grace = 0
AbsentIdle(t) == [t EXCEPT !.notified = @ \/ (~@ /\ t.active /\ t.age = Grace)]

\* openrspd_removal_tracker_absent
Due(t) == ~t.notified /\ (IF t.active THEN t.age = Grace ELSE Grace = 0)
Absent(t) == [active |-> TRUE, age |-> IF t.active THEN t.age ELSE 0,
              notified |-> t.notified \/ Due(t)]

\* The bus is enumerated afresh; the receiver is opened where it is now, or is
\* missing, or cannot be told from another.
Recover(booted) ==
  LET records == Enumerated(booted)
  IN /\ stream = "failed"
     /\ snap' = Fresh(booted) /\ cold' = cold \ booted
     /\ \/ /\ Missing(acquired, records) /\ tracker' = Absent(tracker)
           /\ told' = IF Due(tracker) THEN told + 1 ELSE told
           /\ radio' = NoOne /\ UNCHANGED <<acquired, stream, raced>>
        \/ /\ ~Missing(acquired, records) /\ tracker' = Present /\ told' = 0
           /\ \/ /\ Resolved(acquired, records) = {}
                 /\ radio' = NoOne /\ UNCHANGED <<acquired, stream, raced>>
              \/ \E i \in Resolved(acquired, records) :
                   /\ acquired' = [acquired EXCEPT !.index = i] /\ raced' = FALSE
                   /\ radio' \in {NoOne, Opened(i)} /\ stream' = IF radio' = NoOne THEN "failed" ELSE "on"
     /\ UNCHANGED <<bus, events, owner, lockVars>>
-----------------------------------------------------------------------------
(* LockDeviceApi and UnlockDeviceApi: a mutex in the process, then a lease in the
   daemon, which tells a second process that it is busy *)

LockApi(c) ==
  /\ events < MaxEvents /\ events' = events + 1
  /\ \/ at[c] = "out" /\ at' = [at EXCEPT ![c] = "mutex"] /\ UNCHANGED depth
     \/ at[c] = "in" /\ depth' = [depth EXCEPT ![c] = @ + 1] /\ UNCHANGED at
  /\ UNCHANGED <<bus, cold, snap, owner, acquired, radio, stream, tracker, told, raced>>
  /\ UNCHANGED <<apiLock, mutex>>

TakeMutex(c) ==
  /\ at[c] = "mutex" /\ mutex[Process[c]] = NoOne
  /\ mutex' = [mutex EXCEPT ![Process[c]] = c] /\ at' = [at EXCEPT ![c] = "asking"]
  /\ UNCHANGED <<device, apiLock, depth>>

\* Mutant: the daemon does not ask who holds the lease.
LeaseGrantedAlways(c) ==
  /\ at[c] = "asking" /\ apiLock' = c
  /\ at' = [at EXCEPT ![c] = "in"] /\ depth' = [depth EXCEPT ![c] = 1]
  /\ UNCHANGED <<device, mutex>>

LeaseGranted(c) ==
  /\ at[c] = "asking" /\ apiLock = NoOne /\ apiLock' = c
  /\ at' = [at EXCEPT ![c] = "in"] /\ depth' = [depth EXCEPT ![c] = 1]
  /\ UNCHANGED <<device, mutex>>

\* Mutant: the mutex stays locked when the daemon is busy.
LeaseDeniedLocked(c) ==
  /\ at[c] = "asking" /\ apiLock' \in {apiLock, IF apiLock = NoOne THEN Stray ELSE apiLock}
  /\ at' = [at EXCEPT ![c] = "out"]
  /\ UNCHANGED <<device, mutex, depth>>

\* BUSY, no daemon, or an answer that was lost: the connection is closed.
LeaseDenied(c) ==
  /\ at[c] = "asking" /\ apiLock' \in {apiLock, IF apiLock = NoOne THEN Stray ELSE apiLock}
  /\ at' = [at EXCEPT ![c] = "out"] /\ mutex' = [mutex EXCEPT ![Process[c]] = NoOne]
  /\ UNCHANGED <<device, depth>>

\* The outermost unlock gives up the lease, then the mutex; the connection is closed
\* whether or not the daemon answered.
UnlockApi(c) ==
  /\ depth[c] > 0 /\ depth' = [depth EXCEPT ![c] = @ - 1]
  /\ IF depth[c] > 1 THEN UNCHANGED <<apiLock, mutex, at>>
     ELSE /\ apiLock' \in {NoOne, Stray} /\ mutex' = [mutex EXCEPT ![Process[c]] = NoOne]
          /\ at' = [at EXCEPT ![c] = "out"]
  /\ UNCHANGED device

\* A process dies, and may be started again.
Crash(p) ==
  LET dead == {c \in Callers : Process[c] = p}
  IN /\ \E c \in dead : at[c] # "out" \/ owner = c
     /\ at' = [c \in Callers |-> IF c \in dead THEN "out" ELSE at[c]]
     /\ depth' = [c \in Callers |-> IF c \in dead THEN 0 ELSE depth[c]]
     /\ mutex' = [mutex EXCEPT ![p] = NoOne]
     /\ apiLock' = IF apiLock \in dead THEN Stray ELSE apiLock
     /\ owner' = IF owner \in dead THEN Stray ELSE owner
     /\ UNCHANGED <<bus, cold, events, snap, acquired, radio, stream, tracker, told, raced>>

\* remove_client, when the daemon's loop notices a closed connection
RemoveOwner ==
  /\ owner = Stray /\ Released
  /\ UNCHANGED <<bus, cold, events, snap, acquired, raced, lockVars>>

RemoveLease ==
  /\ apiLock = Stray /\ apiLock' = NoOne
  /\ UNCHANGED <<device, mutex, at, depth>>
-----------------------------------------------------------------------------
Boots == {cold, {}}
LockStep(c) == TakeMutex(c) \/ LeaseGranted(c) \/ LeaseDenied(c) \/ UnlockApi(c)

Next ==
  \/ \E r \in Receivers : Plug(r) \/ Unplug(r)
  \/ Tick \/ RemoveOwner \/ RemoveLease
  \/ \E b \in Boots : Recover(b)
  \/ \E c \in Callers :
       \/ \E b \in Boots : GetDevices(c, b)
       \/ \E b \in Boots : Configure(c, b)
       \/ \E b \in Boots, id \in Handles : Acquire(c, id, b)
       \/ Release(c) \/ LockApi(c) \/ LockStep(c)
  \/ \E p \in Processes : Crash(p)

\* The daemon's loop keeps running, time passes, threads are scheduled, and an
\* application that holds the lock lets go of it.
Spec ==
  /\ Init /\ [][Next]_vars
  /\ WF_vars(Tick) /\ WF_vars(\E b \in Boots : Recover(b))
  /\ \A c \in Callers : SF_vars(LockStep(c))
-----------------------------------------------------------------------------
\* Every variable has its type: in particular the unsigned lock depth never goes
\* below zero.
TypeOK ==
  /\ Range(bus) \subseteq Receivers /\ IsInjective(bus) /\ cold \subseteq Range(bus)
  /\ owner \in Callers \union {NoOne, Stray} /\ radio \in Receivers \union {NoOne, Stray}
  /\ tracker \in [active : BOOLEAN, age : 0..Grace, notified : BOOLEAN]
  /\ stream \in {"off", "on", "failed"} /\ raced \in BOOLEAN /\ events \in 0..MaxEvents /\ told \in Nat
  /\ apiLock \in Callers \union {NoOne, Stray}
  /\ mutex \in [Processes -> Callers \union {NoOne}]
  /\ at \in [Callers -> {"out", "mutex", "asking", "in"}] /\ depth \in [Callers -> 0..MaxEvents]

\* An owner works with the receiver it asked for, by serial, whatever was plugged,
\* unplugged or kept open since: ACQUIRE closes another client's receiver and every
\* open resolves the identity again.  The exception is an inventory from the cache
\* that the bus has overtaken, and a receiver without a serial.
RightReceiver ==
  owner # NoOne /\ radio \in Receivers /\ ~raced /\ acquired.serial # "" =>
    Serial[radio] = acquired.serial

\* The removal of a receiver is reported at most once for each time it goes missing,
\* however often recovery looks for it.
RemovalToldOnce == told <= 1

\* An owner whose receiver stays away is told, unless it comes back or the owner goes.
RemovalTold ==
  stream = "failed" /\ owner \in Callers ~>
    told = 1 \/ stream # "failed" \/ owner \notin Callers \/ ~Missing(acquired, Enumerated(cold))

\* One thread of one process at a time is between LockDeviceApi and its unlock, and
\* holds the daemon's lease.
LockExclusive ==
  \A c \in Callers : depth[c] > 0 =>
    apiLock = c /\ mutex[Process[c]] = c /\ \A e \in Callers \ {c} : depth[e] = 0

\* LockDeviceApi returns, with the lock or without, though threads of the process
\* compete, other processes hold the lease, and holders crash.
LockReturns == \A c \in Callers : at[c] = "mutex" ~> at[c] \in {"in", "out"}
=============================================================================
