# A TLA+ development of OpenRSP

OpenRSP is a userspace driver for the SDRplay RSPduo, a receiver with two tuners.
The daemon `openrspd` owns the USB device and serves clients over a local socket;
`libsdrplay_api` is a replacement for the vendor's library that talks to it; a
vendored `libmirisdr` moves the samples.  This directory models the parts whose
correctness depends on the order of events: who owns the receiver, what the stream
thread and the USB transfers do while the daemon works, how requests, samples and
events share a socket, what the threads of the library do while the application
calls it, and what is left after a failure.

All line numbers are those of the files named in `PROJECT.json`, which maps every
definition to the lines it models.

## 1. Inventory

| Part | State | Operations | What makes it hard |
|---|---|---|---|
| Role registry (`daemon/duo_session.c`) | master and slave: descriptor, tuner, initialised; sample rate | acquire, initialise, uninitialise, release, disconnect, route | two clients in any order, either may vanish; peers learn of it only through events |
| Radio control (`daemon/openrspd.c` 328–939) | handle, configurations, stream flags, recovery flags | configure (single, dual), update, stop, close, recover, finish recovery | every USB step can fail; the thread stores into the same flags |
| Main loop (`daemon/openrspd.c` 1213–2010) | client table, owner, duo session | 17 requests, accept, hangup, eviction, recovery, shutdown | one thread, but the stream thread and the clients run beside it |
| Stream thread (`daemon/openrspd.c` 233–326) | `streaming`, `stream_result`, `stream_error`, `client_write_error` | first samples, failed write, end | its last stores race the main thread |
| USB transfers (`libmirisdr/src/async.c`) | `async_status`, transfers, pending flags, buffers | read_async, callback, cancel, drain, free, close | libusb runs callbacks on whichever thread handles events |
| Removal tracker (`daemon/removal_tracker.c`) | absence, notified | present, absent | recovery looks again and again; one report per absence |
| Device inventory, identity (`snapshot_sdrplay_devices`, `src/identity.c`) | cached records | snapshot, resolve | re-enumeration with another serial |
| API lock (`openrspd.c` 476–484, 1241–1254) | lock owner | lock, unlock, disconnect | a dead owner |
| Library: connection (`compat/daemon_backend.c`) | socket, sample queue, pending response | open, request, read loop, close | one socket carries responses, events and samples; timeouts |
| Library: streams and events (`compat/sdrplay_api_compat.c`) | callback queue, event queue, per-tuner counters and flags | queue, dispatch, pause, resume, swap, acknowledge | three threads and one condition variable; bounded queues |
| Library: device calls (`compat/sdrplay_api_compat.c`) | selection, mode, tuner, rate, buffers, AGC | select, Init, Update, three swaps, Uninit, release | every exit must undo what came before; an answer may be lost; the AGC thread shares the hardware lock |
| Library: synchronous updates (`compat/sync_update.c`) | due sample, period, pending | schedule, next, due, consume, reset | a 32-bit sample clock that wraps |
| Client library, native session (`src/*.c`) | one request; session state | request with timeout; open, start, stop | late responses |
| Signal processing, registers, gain tables, tools | – | – | arithmetic or plain I/O, no protocol |

What each must guarantee:

* the registry never disagrees with itself, and each client knows its role and
  its peer's state from the events alone;
* transfer storage is freed only when libusb has given every transfer back, and a
  cancelled stream ends;
* the receiver is used by one session of connected clients; no samples flow
  without a client; after a swap samples flow only when resumed;
* a stream that ends by itself is noticed and started again, and the receiver then
  has the newest settings the clients asked for;
* the loss of a slave does not disturb the master;
* whatever fails, the daemon ends with the receiver closed (or quarantined);
* a client works with the receiver whose serial it asked for, is told once when that
  receiver is removed, and the device API lock is held by one thread of one process;
* a request is performed at most once and in order, success means that it was
  performed, and no sample taken before it follows its response;
* the application is told of every gap in its samples, gets a frame under the tuner
  and mode it was taken under, is left alone while a swap is in progress, and hears
  of a failure even when the event queue is full;
* every call of the library returns, gives back what it took when it fails, and
  leaves library and daemon in agreement;
* a synchronous update is applied at the sample it was scheduled for.

## 2. Modules

| Module | Models |
|---|---|
| `TunerLease` | abstract specification: a primary lease and a second one that depends on it |
| `DuoSession` | `duo_session.c` as pure operators: a session and an event out of a session and a request |
| `DuoClients` | the registry, the clients that use it and the events they are told of |
| `AsyncTransfers` | `async.c` with the daemon's start, update, stop and close |
| `RadioControl` | the functions of `openrspd.c` that work on the receiver |
| `Daemon` | main loop, requests, stream thread |
| `DeviceRegistry` | inventory, identities, recovery, removal tracker, device API lock |
| `RemoteCall` | abstract specification: requests performed at most once, in order |
| `Backend` | `daemon_backend.c` on `client_posix.c`: one socket, reader thread, IQ thread |
| `StreamCallbacks` | sample callbacks: IQ thread, callback thread, application thread |
| `EventQueue` | event callbacks and the overload handshake |
| `SyncUpdate` | `sync_update.c` and the wait of `sdrplay_api_Update` |
| `CompatApi` | the device calls with their failure paths, and the AGC thread |
| `DuoClientsProofs`, `DaemonProofs`, `RecoveryProofs`, `DeviceRegistryProofs`, `EventQueueProofs`, `StreamProofs` (`AsyncTransfers` and `StreamCallbacks`), `BackendProofs`, `CompatApiProofs` | theorems |
| `MC...` | instances for TLC |

### DuoSession, DuoClients, TunerLease

`DuoSession` keeps the names of the C functions without their prefix.  Each
returns the new session, the result and the event to send, as the functions do
through their pointers.  `DuoClients` adds for each client the role it believes it
has, the state it believes its peer to be in and whether it waits for the master.
A client changes these only when it gets a response or an event (`PeerAfter` is
the application's side and external).  `TunerLease` says only who holds which
tuner and which lanes run; `ImplementsLease` is the refinement.

### AsyncTransfers

Three threads of control: the stream thread inside `mirisdr_read_async`, the main
thread (start, control transfer, stop, close), and the completion callback, which
runs on whichever of the two handles libusb's events.  The callback's failure path
is two steps, since it cancels and then stores FAILED.  Plain loads and stores of
`async_status` are single steps.  `N` transfers and `DrainPasses` bound the
instance; `Faults` selects what may go wrong.  On Linux and macOS
`mirisdr_rspduo_stop_before_cancel` is false; the Windows branch is not modelled.

### RadioControl and Daemon

`dev` is the part of `daemon_state` about the receiver, with what the hardware was
last programmed to (`hw`).  A function of the C code that can fail is a set of
outcomes, one for each way it can end under `Faults`; a handler composes them.  A
request is one step of the main thread, with its response, the event to the peer
and the start of the stream after the response.  The stream thread has a program
counter: `enter`, `run`, `report` (between the flag and the descriptor of a write
error), `leave`, `store`, `done`.  `AsyncTransfers` covers what happens inside
`run` and `leave`.  When `pthread_create` overwrites the handle of a thread that was
not joined, the old thread is kept as `stray`.

A configuration is the tuner, the rate and one value `rf` that stands for all other
settings of the channel.  `asked` is a history variable.  Clients are served in any
order in a round; the code goes by slot, which is one of these orders.  Requests
that are refused change nothing and are no steps.

### DeviceRegistry

The daemon's side: `bus` is the list of receivers as USB enumerates them, `snap` the
cached inventory (`snapshot_sdrplay_devices`, good for one second), `acquired` the
identity of the owner, `radio` the receiver that is open, which outlives its client.
A receiver shows no serial until its firmware is loaded (`cold`).  Every open resolves
the identity against an inventory (`openrsp_identity_resolve`); recovery does so with a
fresh one, and reports the removal through the tracker after `Grace` ticks.  `raced` records that a
handle was opened from a cached inventory that the bus had overtaken.  The
library's side: `LockDeviceApi` takes the mutex of its process, then asks the daemon;
a caller has a place (`at`) and a depth, and may crash with the lock.

### Backend and RemoteCall

The caller's requests are `direct` while there is no reader (`direct_request` reads the
socket itself) and `async` afterwards.  The reader takes one message at a time, waits
once when the queue of slots is full, and before it passes a response on drains the
samples in front of it (`drain_iq_before_response`).  `waiting` is the set of threads
that sleep on `iq_ready`.  A frame is the number of requests the daemon had served
when it was sent, so an old frame after a response is visible as a smaller number.
`RemoteCall` knows only which requests were issued and performed and what the last
call returned; `ImplementsCalls` is the refinement.

### StreamCallbacks and EventQueue

`daemon_stream_callback` is two steps, before and under the lock of the queue.  The
condition variable is the set of its sleepers, and a signal wakes any one of them.
`wire` is the daemon's numbering, with frames lost on the way (`Skips`); `heard` is
what the application has been given, and notices samples that do not continue the
ones before without a reset flag in between.  A swap pauses the callbacks, asks the
daemon, installs the new mapping and resumes.

`EventQueue` keeps the kinds of event, and the priority that failures have in a full
queue.  `emit` is the position of the IQ thread and of the event thread in
`emit_overload_event`; the application acknowledges from its event callback.

### SyncUpdate and CompatApi

`sample` counts without wrapping and the code sees it modulo `Modulus`, so the boundary
the code waits for can be compared with the one that was meant (`aim`).

A call of `CompatApi` is a sequence of steps where another thread can come in between:
the request to the daemon, the join of a thread, the resume.  A request is done,
refused or, with the fault `lost`, done without the caller knowing.  `param` are the
AGC modes in the application's parameters and `shadow` those the AGC thread works
from.  `doubt` records which exception of `DaemonAgrees` applies.  An application is
taken to put back parameters that were refused.

## 3. Runs

| Run | Question | Result |
|---|---|---|
| `duo_clients` | the registry agrees with itself and with what clients believe; no slave is left waiting; the lease is implemented | holds |
| `async` | freed only when returned; nothing left behind; a cancelled stream ends | holds |
| `daemon_swap` | mode and handle agree; paused is quiet; one thread, never without a client; the receiver is closed at the end | holds |
| `daemon_recovery` | failures are noticed; the stream is started again; the newest settings are restored | holds |
| `daemon_shared` | owners are connected, and the two kinds of session exclude each other; an initialised master has a receiver; the slave's loss is harmless | holds |
| `streams` | gaps are marked; frames keep their mapping; a pause is silent; pause and stop return | holds |
| `events` | silence after Uninit; failures are heard; Uninit and Close return | holds |
| `backend` | no old sample after a response; `RemoteCall` is implemented; a broken connection is reported; close returns | holds |
| `sync_update` | the wait ends at the boundary that was meant; an update of both tuners waits for both | holds |
| `compat_api` | threads, buffers and connection match the state; buffers outlive the stream; library and daemon agree; a failed call changes nothing; calls return | holds |
| `registry` | the owner has its receiver; a removal is told, and once; the lock is exclusive and its callers return | holds |
| `compat_agc` | a swap of the active tuner keeps the AGC mode | violated |

`compat_agc` is the finding in `PROJECT.json`, which quotes the sentence of the
documentation it contradicts.

### Bounds

| Runs | Instance | Distinct states |
|---|---|---|
| `duo_clients` | three clients: a master, a slave and a contender | 121 |
| `async` | two transfers and two drain passes: one completes and one does not, before and after the last pass | 17,889 |
| `daemon_*` | two clients (owner and contender, or master and slave), two tuners, and two settings or rates where they matter; each run enables the requests and faults of its question, and together they take every action | swap 540,543; recovery 6,841; shared 944,346 |
| `streams` | queue of two frames; two samples in a frame, one in a callback, so a frame can be interrupted; at most one frame lost before another; three frames and three calls; sample numbers modulo 16 | 457,512 |
| `events` | queue of two, four events: it overflows with failures and with others | 53,227 |
| `backend` | two slots (one handed out, one queued, the third finds it full), four requests besides STOP and RELEASE, three frames or events | 587,756 |
| `sync_update` | sample numbers modulo 8, ten samples, so that they wrap; boundaries 2 and 7, periods 0 and 3 (which does not divide 8); two tuners up to two samples apart; two categories; three calls | 554,667 |
| `compat_api` | roles single, dual and master; answers lost, daemon in recovery; four calls: select, Init and two more reach every swap and update | 533,962 |
| `registry` | two receivers, three threads in two processes, a grace period of one tick, three changes of the bus or calls | 84,493 |

Values are compared and copied, never computed with (except sample and sequence
numbers, which wrap within the bounds of `sync_update`), so two of each tell them apart.  The type
invariants `TypeOK` (`AsyncTypeOK`) hold on the same instances and are not listed in the
configurations; those of `DuoClients`, `AsyncTransfers` and `EventQueue` are proved.

Deadlock is checked in `duo_clients`, `daemon_recovery` and `registry`.  Elsewhere the
system may stop: after the daemon has ended, after a quarantined handle (`async`),
after the connection is closed (`backend`), and after the bounded calls of the
application are used up (`streams`, `events`, `sync_update`, `compat_api`).

### Fairness

* `DuoClients`, `SyncUpdate`: none.
* `AsyncTransfers`: the threads run and libusb completes what was cancelled or reports
  a fault.
* `Daemon`: the main loop goes on (poll returns at least once a second) and a thread
  that can run runs.  Nothing is assumed about clients, samples, sockets or failures.
* `StreamCallbacks`, `EventQueue`: the library's threads run, and the application's
  callbacks return.
* `Backend`: the library's threads run and a request returns after five seconds at the
  latest (the socket timeout, the timed wait).  The daemon owes nothing.
* `CompatApi`: strong fairness of the calling thread and of the AGC thread, weak
  fairness of a stream callback's end.  Both threads compete for `hardware_lock`; the AGC thread sleeps ten
  milliseconds between two rounds, so neither is shut out for ever.
* `DeviceRegistry`: time passes and recovery is tried again (the main loop does both
  every second); strong fairness of a thread in `LockDeviceApi`, which retries while
  others hold the lock for a time.

### Properties the code does not have

The following are stated in the modules, next to the ones that hold, and violated.
Each says something the repository says of itself.  The constants are those of the
run named, changed as given.

Transfers (`MCAsync.cfg`):

* `FailureIsFinal`, `Faults = {"transfer"}`: `mirisdr_read_async` stores RUNNING after
  submitting (`async.c` 705), over a FAILED that a callback stored meanwhile, and
  completed transfers are submitted again (against `async.h` 35).
* `StopReturns`, `Faults = {}`: a cancellation before RUNNING is stored returns -2 and is
  forgotten; `stop_stream` ignores the result and joins a thread that streams for ever
  (`openrspd.c` 409 against `docs/architecture.md` 46).
* `BusyMeansStorage`, `Faults = {"transfer"}`: FAILED lands on a stream that has drained,
  and `mirisdr_close` returns -EBUSY with nothing outstanding (`async.c` 357 against
  `openrspd.c` 428).
* `StoppedBeforeCancel`, `Faults = {"write"}`: a failed socket write cancels the transfers
  of a receiver that was not stopped (`openrspd.c` 275 against `async.c` 752).

Daemon (`MCDaemonRecovery.cfg` or `MCDaemonSwap.cfg`):

* `SingleRestored`, `RateConfigs`: an UPDATE with a new rate that restarts the stream
  clears `recovery_config_pending`, and the settings queued during the recovery never
  reach the receiver (`openrspd.c` 1748 against 787).
* `EndIsNoticed`, with the fault `update`: a failed update sets `stream_error` and cancels;
  the thread then stores `stream_error = (result != 0)`, false for a cancelled stream
  (`openrspd.c` 319 against `docs/rspduo-evidence.md` 331).
* `EndIsNoticed`, with the fault `write`: `client_write_error` is raised before
  `client_write_error_fd` is stored; a main loop in between finds descriptor -1 and evicts
  nobody (`openrspd.c` 262 against `docs/rspduo-evidence.md` 265).
* `DualRestored`, `SwapCommands`, fault `stream`: an UPDATE queued while the receiver is
  away goes to `state->config`, which a dual session does not use (`openrspd.c` 1675
  against `docs/architecture.md` 15).  The same with `DuoCommands` and `LaneConfigs`:
  DUO_UPDATE is not recorded in `duo_config`, and DUO_SWAP_RATE undoes it (1470).
* `PausedIsQuiet`, `SwapCommands`, fault `update`: a failed UPDATE between a swap and its
  resume sets `stream_error`, and recovery, which does not look at `mode_swap_paused`,
  starts the stream (`openrspd.c` 1690 against `docs/architecture.md` 26).
* `FailureEndsWithSession`, `DuoCommands`, fault `stream`: the end of a shared session
  leaves `stream_error` set (`openrspd.c` 443–452), and the next owner meets a recovery.
* `SelectedTuner`, `SingleCommands`, `TunerConfigs`: CONFIGURE for the other tuner is
  applied to the open handle (`openrspd.c` 1539).

Library:

* `RateGapsMarked` (`MCStreams.cfg`): the rate swap of a master leaves the daemon sending;
  a frame of the new rate that `daemon_stream_callback` has compared with the counters of
  the old one, before the swap resets them, reaches the application without a reset
  flag (against `README.md` 42 and the
  comment at `sdrplay_api_compat.c` 2694).
* `OverloadSettles` (`MCEvents.cfg`): an overload event that finds the queue full of
  failures is dropped and never repeated, so the application is not told of the state the
  receiver stays in (against `docs/rspduo-evidence.md` 668).
* `NotMistaken` (`MCBackend.cfg`): DUO_CONFIGURE is sent before the reader exists, and an
  event already queued on the socket is taken for its answer (against the comment at
  `daemon_backend.c` 545, which guards DUO_START only).
* `WaitsForBoundary` (`MCSync.cfg`), `LongIdle = TRUE`: a schedule left alone for half
  the range of the sample numbers changes sides (against `README.md` 35).
* `RightReceiver` without its exception `raced`: an open within a second of the last
  inventory resolves against the cache (`openrspd.c` 950 against `docs/architecture.md`
  76, "a fresh enumeration").

`MasterHasReceiver` holds only while opening, configuring and closing succeed: a rate
change that fails twice leaves the master without a receiver, and the code tells the
client so.

### Other behaviour the models show

No line of the repository says what should happen in these cases.

* STOP after a failed stream leaves `stream_error` set, and recovery starts samples the
  client has stopped (`openrspd.c` 1528).  A stream thread that cannot be created leaves
  `streaming` set until the client is removed (1728).
* A CONFIGURE that fails on a streaming receiver closes the handle and leaves the thread
  to be joined; a RELEASE that finds no handle does not join it (`openrspd.c` 456), and
  DUO_START, which does not look at `stream_thread_started`, then overwrites it.
* The change flags of a frame dropped from a full queue are carried to the next frame,
  in dual mode possibly of the other tuner; those of a frame dropped while paused are
  used up.
* The backend of a shared role keeps posting events after Uninit: `SilentAfterUninit` is
  about the other roles.
* A shared role whose Init fails and whose STOP is not answered frees its buffers while
  samples may arrive (the exception of `BuffersOutliveStream`); once the daemon is gone a
  shared role can neither uninitialise nor release.
* An Update of both tuners whose second request fails keeps the first.
* A daemon in recovery adopts the gain that the AGC thread worked out for the tuner of
  before a swap (the exception `adopted` of `DaemonAgrees`).

## 4. Proofs

All hold for every value of the constants, from the named assumptions of the modules
(`ASSUME`) and, where a theorem says so (`Orderly`, `Sharing`, `Alone`, `OneRate`,
`Undisturbed`), a hypothesis on the requests, settings and faults.

* `DuoClientsProofs`: `IndInv` is the conjunction of the types, the consistency of
  the session and the three invariants on beliefs.  None of the latter is inductive
  alone: that a client is told what it must know depends on the session being
  consistent, and which event is sent on what the peer believed.  One lemma per
  operator of `DuoSession` says what it preserves; one step per action lifts it.  From
  the same invariant the refinement `ImplementsLease`: the initial state maps to an
  initial state, and every move of a session to a step or a stutter of `TunerLease`.
* `DeviceRegistryProofs`: three independent invariants.  `LockInv`: a thread inside the
  lock has the lease of the daemon and the mutex of its process.  `TrackerInv`: an
  absence that has been told is marked as notified until the receiver is back.
  `IdentityInv`: while a receiver is open, and its handle did not race the bus, the
  inventory has a record of it under the index and serial of the owner; that a
  serial is matched only at the opening is why the record has to be kept.
* `EventQueueProofs`: the queue stays within its capacity, and `SilentAfterUninit` from
  `SilenceInv`: once Uninit has found the queue idle, nobody who posts is left, and
  the event thread posts only from within a dispatch.
* `StreamProofs`, first part: the types, `FreedOnlyWhenReturned` and `CleanWhenIdle` of
  `AsyncTransfers`, for any number of transfers, any drain bound and any faults.  The
  strengthening relates the stream thread's position to what may be allocated, submitted
  or marked.  Second part, about `StreamCallbacks`: `PausedIsSilent` and `MappingKept`
  from one invariant.  From the end of a pause to the resume nothing is queued and
  nothing delivered, and between a swap's answer and its installation no frame is on its
  way; so every frame queued, delivered or on its way carries the present mapping.
* `BackendProofs`: `EpochOrder` and the refinement `ImplementsCalls`.  `OrderInv` follows
  a frame from the socket through the reader and the queue to the callback: epochs only
  fall along that way and none is below the last visible response.  `ThreadInv` says
  that a caller reads the socket only while there is no reader, `DaemonInv` that requests
  reach the daemon without a gap, `CallInv` that the answer waited for is that of the
  call.
* `CompatApiProofs`: `ResourcesMatch`, `BuffersOutliveStream`, `DaemonAgrees` and
  `FailedCallKeeps`, for any roles, any faults and any number of calls.  They speak of
  the time between calls or of failed ones; the invariant `IInv` says what holds at each
  step of a call.  `CallInv`: which call stands at which step, and what it has
  saved.  `ResInv`: which of connection, buffers, callbacks and AGC thread exist
  there.  `QuietInv`: before the stream is started and after it is stopped no samples
  arrive, unless a STOP went unanswered.  `KeepInv`: the saved copies are the
  settings of the beginning.  `AgreeInv`: while a request is under way the daemon is in
  step with the saved copies, and what is already installed is in step with the
  request, so that either outcome brings the two together.  One lemma per action.
* `DaemonProofs`: `SessionsExclusive`, `ModeMatchesHandle`, `EndsClosed` and the action
  property `SlaveLossKeepsStream`, for any clients, settings, requests and faults, and
  `StreamHasClient` and `PausedIsQuiet` for an `Orderly` daemon.  The handlers share the
  functions of `RadioControl`, which return sets of outcomes; so each function is first
  shown to keep `DevOK`, the invariant of the receiver's record, in all its outcomes, and
  each action then uses these lemmas.  `DevOK` says that an open handle fits
  `dual_mode`, that a closed one has no reader, and that `stream_thread_started` is true
  exactly while there is a thread; `SessInv` that the registry and the owner are
  consistent and connected; `LoopInv` what a main loop that has ended leaves; `IdleInv`
  that without a session either the handle is closed or there is no thread.
  `Orderly` means that clients send no DUO_START and that a change in place does not
  fail.  Both halves are needed, and TLC violates both properties without either: with
  all commands and the faults `open`, `configure`, `close` and `stream` a thread is
  overwritten (section 3, other behaviour), and with `daemon_swap` and the fault `update`
  recovery starts a stream that a swap has paused, and RESUME_MODE a second one.
  `daemon_swap`, which checks the two, is an `Orderly` instance.
* `DaemonProofs`, last part: `MasterHasReceiver` for a `Sharing` daemon, in which no
  request leaves a single-tuner configuration and a handle can be closed, opened and
  configured; streams, drains, socket writes, changes in place, thread creation and
  signals may still fail.  `ShareInv` adds to the invariant above that the receiver is
  open for both tuners or not at all, that a closed one has no thread, not even an
  overwritten one, and that an initialised master has the handle or a recorded
  failure.  The restriction on commands is needed: with CONFIGURE, an earlier owner leaves
  a bootstrap configuration, a DUO_STOP whose stream failed leaves `stream_error`, and
  recovery starts a single-tuner stream for the stopped master.  The next DUO_START
  overwrites that thread, which later, after a rate swap has closed the handle, stores
  `stream_error = FALSE` (TLC finds this in 31 steps).  `daemon_shared` is a `Sharing`
  instance.
* `RecoveryProofs`: `SingleRestored` and `EndIsNoticed` for a daemon that is `Alone`: no
  request opens both tuners, and a change in place does not fail.  `SingleRestored` also
  assumes `OneRate`, that the clients agree on the sample rate; `EndIsNoticed` assumes
  `Undisturbed`, that there are no tuner swaps and no failed socket writes or
  configurations.  Each of these is needed (section 3; a second SWAP_TUNER that fails
  leaves a paused session without a handle, for which RESUME_MODE starts a thread that
  RELEASE does not join, and the next owner finds it ended with the error cleared).
  `SoloInv` is the strengthening.  `Steady`: one thread, a recorded failure is that of a
  thread that has ended, and recovery has a configuration to go back to.  `OpenOK`: an
  open handle is configured, and a stream needs one.  `Tuned`: the frontend has the rate
  of the clients.  `Fits`: it has the newest settings, or those the recovery restarted
  with while a restore is pending.  Settings that an UPDATE only remembered break `Fits`;
  they may, while a failure is recorded, until the top of the main loop recovers it: the
  owner has been served in this round and can ask for nothing else.
  `daemon_recovery` is an instance of
  `Alone`, `OneRate` and `Undisturbed`.

Some leaves name a prover or a longer limit (`SMTT(20)`, `ZenonT(30)`): they are the ones
that need more than a second, and would depend on the load of the machine otherwise.

Only model-checked:

* all liveness, which is beyond the proof system;
* `SyncUpdate`: its properties are about products and remainders of variables, which the
  SMT solver does not decide, and the next boundary is a minimum over a set of them;
* `GapsMarked`, whose history takes arithmetic on positions that the provers do not get
  through.

## 5. Not modelled

* Windows: its branches of `async.c`, the restart of a device, its socket code.
* Samples: filters, IQ correction, decimation, conversion.  Floating point and arrays
  are out of TLC's reach; what the models keep is which samples they are.
* Register values, gain tables and the gains the AGC works out; `device_db.c` and other
  tables; request validation (clients send valid configurations).
* The native session of `src/session.c` and its discovery: a second, direct way to the
  receiver that neither daemon nor library uses.
* The last-error records, debug logging, command line programs and probes.
* `mirisdr_start_async`, `mirisdr_stop_async` and `mirisdr_cancel_async_now`, which the
  daemon does not call.
* The removal tracker's branch for a clock that steps back: the daemon's clock is
  monotonic.  A receiver unplugged between the resolution of its identity and the
  opening within one handler.  A restart of the daemon under applications that hold its
  API lock.

Simplifications inside the models: in `StreamCallbacks` the first frame of a slave after
its master's restart is not lost, frames lost in a recovery of the daemon are not marked
because the daemon does not number them, and the waiter of `wait_for_sync_boundary`, which
shares the condition variable, is left out; in `SyncUpdate` there are no swaps, which
restart the sample numbers and keep the schedule; `CompatApi` has the role slave but
`compat_api` does not run it: it is a master without the rate swap.
`Backend` has the end of a connection as a shutdown of the socket; that
`openrsp_client_close` also frees the client before the reader is joined
(`daemon_backend.c` 642) is not in the model, which has no memory of the client's.

## 6. Plan

1. `MasterHasReceiver` for clients that also use single tuners, once a stopped master's
   failure no longer starts a stream.
2. A proof of `GapsMarked`, with the positions of frames replaced by an order.
3. Swaps in `SyncUpdate`, and the waiter for a boundary in `StreamCallbacks`.
4. `StreamCallbacks` on top of `Backend`, so that drained and dropped frames of the two
   queues are followed in one model.
5. Gains: the AGC's steps against the gain tables as a pure function with a reference.
