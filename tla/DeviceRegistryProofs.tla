------------------------ MODULE DeviceRegistryProofs ------------------------
(***************************************************************************)
(* What DeviceRegistry guarantees for any receivers, processes and threads *)
(* and any grace period: the device API lock is exclusive, an owner works  *)
(* with the receiver it named, and a removal is reported once.             *)
(***************************************************************************)
EXTENDS DeviceRegistry, TLAPS

\* A thread between LockDeviceApi and its unlock holds the lease and, from the
\* moment it asks for the lease, the mutex of its process.
LockInv ==
  /\ mutex \in [Processes -> Callers \union {NoOne}]
  /\ at \in [Callers -> {"out", "mutex", "asking", "in"}] /\ depth \in [Callers -> Nat]
  /\ \A c \in Callers : depth[c] > 0 <=> at[c] = "in"
  /\ \A c \in Callers : at[c] = "in" => apiLock = c
  /\ \A c \in Callers : at[c] \in {"asking", "in"} => mutex[Process[c]] = c

\* A report is remembered by the tracker for as long as the absence lasts.
TrackerInv ==
  /\ tracker \in [active : BOOLEAN, age : Nat, notified : BOOLEAN]
  /\ told \in {0, 1} /\ (told = 1 => tracker.notified)

\* While a receiver is open the inventory it was resolved from stays in use, and
\* has a record of it under the index and the serial of the acquired identity.
IdentityInv ==
  /\ snap = [records |-> snap.records, valid |-> snap.valid, fresh |-> snap.fresh]
  /\ acquired = [serial |-> acquired.serial, index |-> acquired.index]
  /\ \A r, s \in snap.records : r.index = s.index => r = s
  /\ radio \in Receivers /\ ~raced =>
       /\ snap.valid
       /\ \E rec \in snap.records :
            /\ rec.index = acquired.index /\ rec.serial \in {"", Serial[radio]}
            /\ acquired.serial # "" => rec.serial = acquired.serial
-----------------------------------------------------------------------------
(* The device API lock *)

\* Every step that touches the lock keeps its invariant.
LEMMA LockStepKeeps ==
  ASSUME LockInv, NEW c \in Callers, LockApi(c) \/ LockStep(c)
  PROVE  LockInv'
<1> Process[c] \in Processes /\ c # NoOne /\ c # Stray /\ NoOne # Stray
  BY RegistryAssumption DEF Processes
<1> \A e \in Callers : Process[e] \in Processes /\ e # NoOne /\ e # Stray
  BY RegistryAssumption DEF Processes
<1>1. CASE LockApi(c)
  BY <1>1 DEF LockApi, LockInv
<1>2. CASE TakeMutex(c)
  BY <1>2 DEF TakeMutex, LockInv
<1>3. CASE LeaseGranted(c)
  BY <1>3 DEF LeaseGranted, LockInv
<1>4. CASE LeaseDenied(c)
  BY <1>4 DEF LeaseDenied, LockInv
<1>5. CASE UnlockApi(c)
  <2>1. at[c] = "in" /\ apiLock = c /\ mutex[Process[c]] = c
    BY <1>5 DEF UnlockApi, LockInv
  <2>2. CASE depth[c] > 1
    BY <1>5, <2>1, <2>2 DEF UnlockApi, LockInv
  <2>3. CASE ~(depth[c] > 1)
    BY <1>5, <2>1, <2>3 DEF UnlockApi, LockInv
  <2> QED
    BY <2>2, <2>3
<1> QED
  BY <1>1, <1>2, <1>3, <1>4, <1>5 DEF LockStep

\* The death of a process and the daemon's notice of it keep the invariant.
LEMMA LossKeepsLock ==
  ASSUME LockInv, (\E p \in Processes : Crash(p)) \/ RemoveLease
  PROVE  LockInv'
<1> \A e \in Callers : Process[e] \in Processes /\ e # NoOne /\ e # Stray
  BY RegistryAssumption DEF Processes
<1>1. ASSUME NEW p \in Processes, Crash(p)
      PROVE  LockInv'
  BY <1>1 DEF Crash, LockInv
<1>2. CASE RemoveLease
  BY <1>2 DEF RemoveLease, LockInv
<1> QED
  BY <1>1, <1>2

\* The other steps do not touch the lock.
LEMMA OthersKeepLock ==
  ASSUME LockInv, NEW b, NEW c, NEW id, NEW r,
         \/ Plug(r) \/ Unplug(r) \/ Tick \/ RemoveOwner \/ Recover(b) \/ GetDevices(c, b)
         \/ Configure(c, b) \/ Acquire(c, id, b) \/ Release(c) \/ UNCHANGED vars
  PROVE  LockInv'
<1>1. UNCHANGED lockVars
  BY DEF Plug, Unplug, Tick, RemoveOwner, Recover, GetDevices, Configure, Acquire, Release,
     vars
<1> QED
  BY <1>1 DEF LockInv, lockVars

\* The invariant of the lock holds in every reachable state.
THEOREM LockInductive == Spec => []LockInv
<1>1. Init => LockInv
  <2>1. Init => /\ mutex = [p \in Processes |-> NoOne]
                /\ at = [c \in Callers |-> "out"] /\ depth = [c \in Callers |-> 0]
    BY Zenon DEF Init
  <2> QED
    BY <2>1 DEF LockInv
<1>2. LockInv /\ [Next]_vars => LockInv'
  BY LockStepKeeps, LossKeepsLock, OthersKeepLock DEF Next
<1> QED
  BY <1>1, <1>2, PTL DEF Spec

\* At most one thread of one process is between LockDeviceApi and its unlock, and it
\* holds the daemon's lease and the mutex of its process, for any number of threads
\* and processes and whatever crashes.
THEOREM LockIsExclusive == Spec => []LockExclusive
<1>1. LockInv => LockExclusive
  BY DEF LockInv, LockExclusive
<1> QED
  BY <1>1, LockInductive, PTL
-----------------------------------------------------------------------------
(* The removal tracker *)

\* Recovery reports a removal only when the tracker has not been told of it.
LEMMA RecoverKeepsTracker ==
  ASSUME TrackerInv, NEW b, Recover(b)
  PROVE  TrackerInv'
<1>1. CASE tracker' = Present /\ told' = 0
  BY <1>1 DEF TrackerInv, Present
<1>2. CASE tracker' = Absent(tracker) /\ told' = IF Due(tracker) THEN told + 1 ELSE told
  <2>1. tracker.active \in BOOLEAN /\ tracker.age \in Nat /\ tracker.notified \in BOOLEAN
    BY DEF TrackerInv
  <2>2. Due(tracker) \in BOOLEAN /\ (Due(tracker) => ~tracker.notified)
    BY DEF Due
  <2>3. tracker' \in [active : BOOLEAN, age : Nat, notified : BOOLEAN]
    BY <1>2, <2>1, <2>2 DEF Absent
  <2>4. tracker'.notified = (tracker.notified \/ Due(tracker))
    BY <1>2 DEF Absent
  <2> QED
    BY <1>2, <2>2, <2>3, <2>4 DEF TrackerInv
<1> QED
  BY <1>1, <1>2 DEF Recover

\* The other steps reset the tracker with the count, or leave both alone.
LEMMA OthersKeepTracker ==
  ASSUME TrackerInv, NEW b, NEW c, NEW id, NEW r, NEW p,
         \/ Plug(r) \/ Unplug(r) \/ Tick \/ RemoveOwner \/ RemoveLease \/ GetDevices(c, b)
         \/ Configure(c, b) \/ Acquire(c, id, b) \/ Release(c) \/ LockApi(c) \/ LockStep(c)
         \/ Crash(p) \/ UNCHANGED vars
  PROVE  TrackerInv'
<1>1. CASE UNCHANGED <<tracker, told>>
  BY <1>1 DEF TrackerInv
<1>2. CASE tracker' = Present /\ told' = 0
  BY <1>2 DEF TrackerInv, Present
<1>3. CASE Tick
  BY <1>3 DEF Tick, TrackerInv
<1> QED
  BY <1>1, <1>2, <1>3 DEF Plug, Unplug, RemoveOwner, RemoveLease, GetDevices, Configure,
     Acquire, Release, Released, LockApi, LockStep, TakeMutex, LeaseGranted, LeaseDenied,
     UnlockApi, Crash, device, vars

\* A removal is reported at most once for each absence, for any grace period.
THEOREM ReportedOnce == Spec => []RemovalToldOnce
<1>1. Init => TrackerInv
  <2> SUFFICES ASSUME Init PROVE TrackerInv
    OBVIOUS
  <2>1. tracker = [active |-> FALSE, age |-> 0, notified |-> FALSE] /\ told = 0
    BY Zenon DEF Init, Present
  <2> QED
    BY <2>1 DEF TrackerInv
<1>2. TrackerInv /\ [Next]_vars => TrackerInv'
  BY RecoverKeepsTracker, OthersKeepTracker DEF Next
<1>3. TrackerInv => RemovalToldOnce
  BY DEF TrackerInv, RemovalToldOnce
<1> QED
  BY <1>1, <1>2, <1>3, PTL DEF Spec
-----------------------------------------------------------------------------
(* The receiver of the owner *)

\* An enumeration lists each index once, with the serial of the receiver there or,
\* while it is cold, with none.
LEMMA EnumeratedFacts ==
  ASSUME NEW booted
  PROVE  /\ \A r, s \in Enumerated(booted) : r.index = s.index => r = s
         /\ \A r \in Enumerated(booted) : r.serial \in {"", Serial[bus[r.index]]}
<1> DEFINE Rec(i) == [serial |-> IF bus[i] \in cold \ booted THEN "" ELSE Serial[bus[i]],
                      index |-> i]
<1>1. \A r \in Enumerated(booted) : \E i \in DOMAIN bus : r = Rec(i)
  BY Zenon DEF Enumerated
<1>2. \A i : Rec(i).index = i /\ Rec(i).serial \in {"", Serial[bus[i]]}
  OBVIOUS
<1> HIDE DEF Rec
<1>3. \A r \in Enumerated(booted) : r = Rec(r.index)
  <2> TAKE r \in Enumerated(booted)
  <2>1. PICK i \in DOMAIN bus : r = Rec(i)
    BY <1>1
  <2>2. r.index = i
    BY <1>2, <2>1
  <2> QED
    BY <2>1, <2>2
<1>4. \A r \in Enumerated(booted) : r.serial \in {"", Serial[bus[r.index]]}
  <2> TAKE r \in Enumerated(booted)
  <2>1. Rec(r.index).serial \in {"", Serial[bus[r.index]]}
    BY <1>2
  <2> QED
    BY <1>3, <2>1, Zenon
<1>5. \A r, s \in Enumerated(booted) : r.index = s.index => r = s
  BY <1>3, Zenon
<1> QED
  BY <1>4, <1>5

\* A resolved index is that of a record with the serial asked for.
LEMMA ResolvedFacts ==
  ASSUME NEW id, NEW records, NEW i \in Resolved(id, records)
  PROVE  \E rec \in records : rec.index = i /\ (id.serial # "" => rec.serial = id.serial)
BY DEF Resolved, Matches

\* A step that changes neither the inventory in use nor the handle, or only lets go
\* of the handle, keeps the invariant.
LEMMA HandleKept ==
  ASSUME IdentityInv, acquired' = acquired, raced' = raced,
         snap'.records = snap.records, snap'.valid = snap.valid,
         snap' = [records |-> snap'.records, valid |-> snap'.valid, fresh |-> snap'.fresh],
         radio' = radio \/ radio' \notin Receivers
  PROVE  IdentityInv'
BY DEF IdentityInv

\* ACQUIRE keeps an open receiver only if it is the one asked for.
LEMMA AcquireKeeps ==
  ASSUME IdentityInv, NEW c, NEW id, NEW booted, Acquire(c, id, booted)
  PROVE  IdentityInv'
<1> DEFINE records == Records(radio # NoOne, booted)
<1> NoOne \notin Receivers
  BY RegistryAssumption
<1>1. PICK i \in Resolved(id, records) :
        /\ acquired' = [serial |-> id.serial, index |-> i]
        /\ radio' = IF Kept(records, i) THEN radio ELSE NoOne
  BY DEF Acquire
<1>2. raced' = raced /\ Inventory(radio # NoOne, booted)
  BY DEF Acquire
<1>3. /\ snap' = [records |-> snap'.records, valid |-> snap'.valid, fresh |-> snap'.fresh]
      /\ \A r, s \in snap'.records : r.index = s.index => r = s
      /\ snap'.records = records
  <2>1. CASE Cached(radio # NoOne)
    <3>1. snap' = snap /\ records = snap.records
      BY <1>2, <2>1 DEF Inventory, Records
    <3> QED
      BY <3>1 DEF IdentityInv
  <2>2. CASE ~Cached(radio # NoOne)
    <3>1. snap' = [records |-> Enumerated(booted), valid |-> TRUE, fresh |-> TRUE]
          /\ records = Enumerated(booted)
      BY <1>2, <2>2 DEF Inventory, Records, Fresh
    <3> HIDE DEF records
    <3> QED
      BY <3>1, EnumeratedFacts
  <2> QED
    BY <2>1, <2>2
<1>4. ASSUME radio' \in Receivers, ~raced'
      PROVE  /\ snap'.valid
             /\ \E rec \in snap'.records :
                  /\ rec.index = acquired'.index /\ rec.serial \in {"", Serial[radio']}
                  /\ acquired'.serial # "" => rec.serial = acquired'.serial
  <2>1. Kept(records, i) /\ radio' = radio /\ radio # NoOne
    BY <1>1, <1>4
  <2>2. snap.valid
    BY <1>2, <1>4, <2>1 DEF IdentityInv
  <2>3. snap' = snap /\ records = snap.records
    BY <1>2, <2>1, <2>2 DEF Inventory, Records, Cached
  <2>4. PICK rec \in snap.records :
          rec.index = acquired.index /\ rec.serial \in {"", Serial[radio]}
            /\ (acquired.serial # "" => rec.serial = acquired.serial)
    BY <1>2, <1>4, <2>1 DEF IdentityInv
  <2>5. PICK old \in snap.records : old.index = i /\ Matches(acquired, old)
    BY <2>1, <2>3 DEF Kept
  <2>6. PICK new \in snap.records : new.index = i /\ (id.serial # "" => new.serial = id.serial)
    <3>1. i \in Resolved(id, snap.records)
      BY <2>3
    <3> QED
      BY <3>1, ResolvedFacts
  <2>7. new = old
    BY <2>5, <2>6 DEF IdentityInv
  <2>8. old.serial \in {"", Serial[radio]}
    BY <2>4, <2>5 DEF Matches, IdentityInv
  <2> QED
    BY <1>1, <2>1, <2>2, <2>3, <2>6, <2>7, <2>8
<1> QED
  BY <1>1, <1>3, <1>4 DEF IdentityInv

\* CONFIGURE opens the receiver its inventory has under the identity, unless the
\* inventory is overtaken.
LEMMA ConfigureKeeps ==
  ASSUME IdentityInv, NEW c, NEW booted, Configure(c, booted)
  PROVE  IdentityInv'
<1> DEFINE records == Records(FALSE, booted)
<1> NoOne \notin Receivers
  BY RegistryAssumption
<1>1. CASE radio \in Receivers
  BY <1>1 DEF Configure, IdentityInv
<1>2. CASE radio \notin Receivers
  <2>1. Inventory(FALSE, booted) /\ raced' = (Cached(FALSE) /\ snap.records # Enumerated({}))
    BY <1>2 DEF Configure
  <2>2. /\ snap' = [records |-> snap'.records, valid |-> snap'.valid, fresh |-> snap'.fresh]
        /\ \A r, s \in snap'.records : r.index = s.index => r = s
        /\ snap'.records = records /\ snap'.valid
    <3>1. CASE Cached(FALSE)
      <4>1. snap' = snap /\ records = snap.records /\ snap.valid
        BY <2>1, <3>1 DEF Inventory, Records, Cached
      <4> QED
        BY <4>1 DEF IdentityInv
    <3>2. CASE ~Cached(FALSE)
      <4>1. snap' = [records |-> Enumerated(booted), valid |-> TRUE, fresh |-> TRUE]
            /\ records = Enumerated(booted)
        BY <2>1, <3>2 DEF Inventory, Records, Fresh
      <4> HIDE DEF records
      <4> QED
        BY <4>1, EnumeratedFacts
    <3> QED
      BY <3>1, <3>2
  <2>3. CASE radio' = NoOne /\ acquired' = acquired
    BY <2>2, <2>3 DEF IdentityInv
  <2>4. ASSUME NEW i \in Resolved(acquired, records),
               radio' = Opened(i), acquired' = [acquired EXCEPT !.index = i]
        PROVE  IdentityInv'
    <3>1. acquired' = [serial |-> acquired.serial, index |-> i]
      BY <2>4 DEF IdentityInv
    <3>2. PICK rec \in records :
            rec.index = i /\ (acquired.serial # "" => rec.serial = acquired.serial)
      BY <2>4, ResolvedFacts
    <3>3. ASSUME radio' \in Receivers, ~raced'
          PROVE  rec.serial \in {"", Serial[radio']}
      <4>1. records = Enumerated(booted) \/ records = Enumerated({})
        BY <2>1, <3>3 DEF Records
      <4>2. rec.serial \in {"", Serial[bus[i]]}
        <5> HIDE DEF records
        <5>1. \A r \in Enumerated(booted) : r.serial \in {"", Serial[bus[r.index]]}
          BY ONLY EnumeratedFacts
        <5>2. \A r \in Enumerated({}) : r.serial \in {"", Serial[bus[r.index]]}
          BY ONLY EnumeratedFacts
        <5>3. rec \in Enumerated(booted) \/ rec \in Enumerated({})
          BY <4>1
        <5>4. rec.serial \in {"", Serial[bus[rec.index]]}
          BY ONLY <5>1, <5>2, <5>3
        <5> QED
          BY ONLY <3>2, <5>4
      <4>3. radio' = bus[i]
        BY <2>4, <3>3 DEF Opened
      <4> QED
        BY <4>2, <4>3
    <3> QED
      BY <2>2, <3>1, <3>2, <3>3 DEF IdentityInv
  <2> QED
    BY <1>2, <2>3, <2>4 DEF Configure
<1> QED
  BY <1>1, <1>2

\* Recovery opens the receiver a fresh enumeration has under the identity.
LEMMA RecoverKeeps ==
  ASSUME IdentityInv, NEW booted, Recover(booted)
  PROVE  IdentityInv'
<1> NoOne \notin Receivers
  BY RegistryAssumption
<1>1. snap' = [records |-> Enumerated(booted), valid |-> TRUE, fresh |-> TRUE]
  BY DEF Recover, Fresh
<1>2. CASE radio' = NoOne /\ acquired' = acquired
  BY <1>1, <1>2, EnumeratedFacts DEF IdentityInv
<1>3. ASSUME NEW i \in Resolved(acquired, Enumerated(booted)),
             radio' \in {NoOne, Opened(i)}, acquired' = [acquired EXCEPT !.index = i]
      PROVE  IdentityInv'
  <2>1. acquired' = [serial |-> acquired.serial, index |-> i]
    BY <1>3 DEF IdentityInv
  <2>2. PICK rec \in Enumerated(booted) :
          rec.index = i /\ (acquired.serial # "" => rec.serial = acquired.serial)
    BY <1>3, ResolvedFacts
  <2>3. radio' \in Receivers => rec.serial \in {"", Serial[radio']}
    BY <1>3, <2>2, EnumeratedFacts DEF Opened
  <2> QED
    BY <1>1, <2>1, <2>2, <2>3, EnumeratedFacts DEF IdentityInv
<1> QED
  BY <1>2, <1>3 DEF Recover

\* GetDevices refreshes the inventory only while no receiver is open.
LEMMA GetDevicesKeeps ==
  ASSUME IdentityInv, NEW c, NEW booted, GetDevices(c, booted)
  PROVE  IdentityInv'
<1> NoOne \notin Receivers
  BY RegistryAssumption
<1>1. acquired' = acquired /\ radio' = radio /\ raced' = raced
      /\ Inventory(radio # NoOne, booted)
  BY DEF GetDevices
<1>2. CASE Cached(radio # NoOne)
  BY <1>1, <1>2 DEF Inventory, IdentityInv
<1>3. CASE ~Cached(radio # NoOne)
  <2>1. ~(radio \in Receivers /\ ~raced)
    BY <1>3 DEF Cached, IdentityInv
  <2>2. snap' = [records |-> Enumerated(booted), valid |-> TRUE, fresh |-> TRUE]
    BY <1>1, <1>3 DEF Inventory, Fresh
  <2> QED
    BY <1>1, <2>1, <2>2, EnumeratedFacts DEF IdentityInv
<1> QED
  BY <1>2, <1>3

\* No other step changes the inventory's records or opens a receiver.
LEMMA OthersKeepIdentity ==
  ASSUME IdentityInv, NEW c, NEW r, NEW p,
         \/ Plug(r) \/ Unplug(r) \/ Tick \/ RemoveOwner \/ RemoveLease \/ Release(c)
         \/ LockApi(c) \/ LockStep(c) \/ Crash(p) \/ UNCHANGED vars
  PROVE  IdentityInv'
<1> NoOne \notin Receivers /\ Stray \notin Receivers
  BY RegistryAssumption
<1>1. acquired' = acquired /\ raced' = raced /\ (radio' = radio \/ radio' \notin Receivers)
  BY Zenon DEF Plug, Unplug, Tick, RemoveOwner, RemoveLease, Release, Released, LockApi,
     LockStep, TakeMutex, LeaseGranted, LeaseDenied, UnlockApi, Crash, device, vars
<1>2. snap' = snap \/ snap' = [snap EXCEPT !.fresh = FALSE]
  BY Zenon DEF Plug, Unplug, Tick, RemoveOwner, RemoveLease, Release, Released, LockApi,
     LockStep, TakeMutex, LeaseGranted, LeaseDenied, UnlockApi, Crash, device, vars
<1>3. snap'.records = snap.records /\ snap'.valid = snap.valid
      /\ snap' = [records |-> snap'.records, valid |-> snap'.valid, fresh |-> snap'.fresh]
  BY <1>2 DEF IdentityInv
<1> QED
  BY <1>1, <1>3, HandleKept

\* An owner works with the receiver of the serial it asked for, for any receivers,
\* plugged and unplugged in any order, and any clients, except after an open from an
\* inventory the bus had overtaken.
THEOREM OwnerHasItsReceiver == Spec => []RightReceiver
<1>1. Init => IdentityInv
  <2> SUFFICES ASSUME Init PROVE IdentityInv
    OBVIOUS
  <2>1. /\ snap = [records |-> {}, valid |-> FALSE, fresh |-> FALSE]
        /\ acquired = [serial |-> "", index |-> 0] /\ radio = NoOne
    BY Zenon DEF Init
  <2> QED
    BY <2>1, RegistryAssumption DEF IdentityInv
<1>2. IdentityInv /\ [Next]_vars => IdentityInv'
  BY AcquireKeeps, ConfigureKeeps, RecoverKeeps, GetDevicesKeeps, OthersKeepIdentity DEF Next
<1>3. IdentityInv => RightReceiver
  BY DEF IdentityInv, RightReceiver
<1> QED
  BY <1>1, <1>2, <1>3, PTL DEF Spec
=============================================================================
