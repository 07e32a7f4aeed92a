--------------------------- MODULE AsyncTransfers ---------------------------
(***************************************************************************)
(* The USB stream of one receiver handle: libmirisdr's asynchronous        *)
(* transfers (async.c) and the daemon calls that stop them (stop_stream,   *)
(* close_radio).  Two threads share the handle: the stream thread inside   *)
(* mirisdr_read_async, and the daemon's main thread, which does control    *)
(* transfers, cancels, joins and closes.  async_status is atomic, so every *)
(* load and every store of it is a step.  libusb runs a completion         *)
(* callback on whichever thread is inside a libusb call, the synchronous   *)
(* control transfers included.                                             *)
(*                                                                         *)
(* The Linux and macOS build for the RSPduo (bulk transfers) is modelled.  *)
(***************************************************************************)
EXTENDS Naturals, FiniteSets

CONSTANTS N,            \* xfer_buf_num: 32 in the daemon
          DrainPasses,  \* cancellation passes before a drain gives up: 8
          Faults        \* which operations may fail, see FaultKinds

FaultKinds == {"control",   \* a control transfer (start, stop, clear halt) fails
               "alloc",     \* a buffer cannot be allocated
               "submit",    \* libusb_submit_transfer fails
               "events",    \* libusb_handle_events_timeout fails
               "transfer",  \* a transfer completes with an error status
               "write"}     \* the client's socket refuses the samples

ASSUME NAssumption == N \in Nat \ {0}
ASSUME DrainAssumption == DrainPasses \in Nat \ {0}
ASSUME FaultsAssumption == Faults \subseteq FaultKinds

VARIABLES
  status,     \* p->async_status
  engine,     \* the device's bulk engine runs (p->streaming_active)
  alloc,      \* transfers and buffers are allocated
  owned,      \* transfers libusb owns: submitted and not yet called back
  pending,    \* transfers whose xfer_pending flag is set
  cancelled,  \* transfers libusb_cancel_transfer was called on
  cb,         \* the callback in progress: its transfer, thread and outcome
  failing,    \* the thread whose callback is about to store FAILED
  pc,         \* where the stream thread is
  n,          \* the transfer it submits next
  pass,       \* the pass of its drain
  tfailed,    \* its local transfer_failed
  result,     \* what mirisdr_read_async returned
  mpc,        \* where the main thread is
  joins,      \* whether it joins the stream thread after the cancellation
  handle      \* the device handle: open, closed, or quarantined with -EBUSY

asyncVars == <<status, engine, alloc, owned, pending, cancelled, cb, failing, pc, n, pass,
          tfailed, result, mpc, joins, handle>>

streamVars == <<pc, n, pass, tfailed, result>>
mainVars == <<mpc, joins, handle>>
usbVars == <<engine, alloc, owned, pending, cancelled, cb, failing>>

Transfers == 1..N
Statuses == {"INACTIVE", "CANCELING", "RUNNING", "FAILED"}
Outcomes == {"COMPLETED", "CANCELLED", "ERROR"}
NoCallback == [xfer |-> 0, by |-> "none", outcome |-> "none"]

\* A thread that runs a callback does nothing else until it has returned.
StreamFree == cb.by # "stream" /\ failing # "stream"
MainFree == cb.by # "main" /\ failing # "main"

\* The threads that may run a callback: they are inside a libusb call.
InLibusb(by) ==
  \/ by = "stream" /\ pc \in {"arm", "loop", "drain", "abandon"}
  \/ by = "main" /\ mpc \in {"control", "halt"}

AsyncInit ==
  /\ status = "INACTIVE" /\ engine = FALSE /\ alloc = FALSE
  /\ owned = {} /\ pending = {} /\ cancelled = {}
  /\ cb = NoCallback /\ failing = "none"
  /\ pc = "none" /\ n = 1 /\ pass = 0 /\ tfailed = FALSE /\ result = 0
  /\ mpc = "idle" /\ joins = FALSE /\ handle = "open"
-----------------------------------------------------------------------------
(* The stream thread: mirisdr_read_async. *)

\* Entry: refuse a busy handle; allocate; stop the engine and clear the halt.
\* With nothing submitted, failed_free only frees what was allocated.
Enter ==
  /\ pc = "enter"
  /\ n' = 1 /\ pass' = 0 /\ tfailed' = FALSE
  /\ \/ /\ status = "INACTIVE"
        /\ alloc' = TRUE /\ engine' = FALSE /\ pc' = "submit"
        /\ UNCHANGED result
     \/ /\ status # "INACTIVE" \/ Faults \intersect {"alloc", "control"} # {}
        /\ engine' \in {engine} \union (IF status = "INACTIVE" THEN {FALSE} ELSE {})
        /\ pc' = "exit" /\ result' = 1
        /\ UNCHANGED alloc
  /\ UNCHANGED <<status, owned, pending, cancelled, cb, failing, mainVars>>

Submit ==
  /\ pc = "submit"
  /\ \/ /\ owned' = owned \union {n} /\ pc' = "mark"
     \/ /\ "submit" \in Faults /\ pc' = "abandon"
        /\ UNCHANGED owned
  /\ UNCHANGED <<status, engine, alloc, pending, cancelled, cb, failing, n, pass, tfailed,
                 result, mainVars>>

\* The pending flag is set after the submission, not with it.
Mark ==
  /\ pc = "mark"
  /\ pending' = pending \union {n}
  /\ IF n < N THEN n' = n + 1 /\ pc' = "submit" ELSE n' = n /\ pc' = "arm"
  /\ UNCHANGED <<status, engine, alloc, owned, cancelled, cb, failing, pass, tfailed,
                 result, mainVars>>

\* mirisdr_streaming_start.
Arm ==
  /\ pc = "arm" /\ StreamFree
  /\ \/ engine' = TRUE /\ pc' = "publish"
     \/ "control" \in Faults /\ pc' = "abandon" /\ UNCHANGED engine
  /\ UNCHANGED <<status, alloc, owned, pending, cancelled, cb, failing, n, pass, tfailed,
                 result, mainVars>>

Publish ==
  /\ pc = "publish"
  /\ status' = "RUNNING" /\ pc' = "loop"
  /\ UNCHANGED <<usbVars, n, pass, tfailed, result, mainVars>>

\* The event loop looks at the status between two calls of libusb.
Notice ==
  /\ pc = "loop" /\ StreamFree
  /\ status \in {"FAILED", "CANCELING"}
  /\ tfailed' = (status = "FAILED")
  /\ status' = "CANCELING" /\ pc' = "drain" /\ pass' = 0
  /\ UNCHANGED <<usbVars, n, result, mainVars>>

EventsFail ==
  /\ pc = "loop" /\ StreamFree /\ "events" \in Faults
  /\ pc' = "abandon" /\ pass' = 0
  /\ UNCHANGED <<status, usbVars, n, tfailed, result, mainVars>>

\* Mutant: passes are not counted.
DrainPassUncounted ==
  /\ pc \in {"drain", "abandon"} /\ StreamFree
  /\ pending # {} /\ pass < DrainPasses
  /\ cancelled' = cancelled \union (pending \intersect owned)
  /\ UNCHANGED <<status, engine, alloc, owned, pending, cb, failing, pc, n, pass,
                 tfailed, result, mainVars>>

\* One pass of mirisdr_async_cancel_pending, in the loop or in failed_free.
DrainPass ==
  /\ pc \in {"drain", "abandon"} /\ StreamFree
  /\ pending # {} /\ pass < DrainPasses
  /\ cancelled' = cancelled \union (pending \intersect owned)
  /\ pass' = pass + 1
  /\ UNCHANGED <<status, engine, alloc, owned, pending, cb, failing, pc, n, tfailed, result,
                 mainVars>>

\* Mutant: the storage goes after one pass, whatever is pending.
DrainedEarly ==
  /\ pc = "drain" /\ StreamFree /\ pass > 0
  /\ status' = "INACTIVE" /\ pc' = "free"
  /\ UNCHANGED <<usbVars, n, pass, tfailed, result, mainVars>>

\* Nothing is pending: the stream is inactive, and its storage can go.
Drained ==
  /\ pc = "drain" /\ StreamFree /\ pending = {}
  /\ status' = "INACTIVE" /\ pc' = "free"
  /\ UNCHANGED <<usbVars, n, pass, tfailed, result, mainVars>>

Free ==
  /\ pc = "free"
  /\ alloc' = FALSE /\ cancelled' = {}
  /\ pc' = "exit" /\ result' = IF tfailed THEN 1 ELSE 0
  /\ UNCHANGED <<status, engine, owned, pending, cb, failing, n, pass, tfailed, mainVars>>

\* Mutant: failed_free does not free.
AbandonedLeak ==
  /\ pc = "abandon" /\ StreamFree /\ pending = {}
  /\ engine' \in {FALSE} \union (IF "control" \in Faults THEN {engine} ELSE {})
  /\ status' = "INACTIVE" /\ pc' = "exit" /\ result' = 1
  /\ UNCHANGED <<alloc, cancelled, owned, pending, cb, failing, n, pass, tfailed, mainVars>>

\* failed_free: stop an engine this call had started, free, and fail.
Abandoned ==
  /\ pc = "abandon" /\ StreamFree /\ pending = {}
  /\ engine' \in {FALSE} \union (IF "control" \in Faults THEN {engine} ELSE {})
  /\ alloc' = FALSE /\ cancelled' = {}
  /\ status' = "INACTIVE" /\ pc' = "exit" /\ result' = 1
  /\ UNCHANGED <<owned, pending, cb, failing, n, pass, tfailed, mainVars>>

\* The drain gives up: libusb may own a transfer, so nothing is freed.
DrainFails ==
  /\ pc \in {"drain", "abandon"} /\ StreamFree
  /\ pending # {}
  /\ pass = DrainPasses \/ (pass > 0 /\ "events" \in Faults)
  /\ status' = "FAILED" /\ pc' = "exit" /\ result' = 1
  /\ UNCHANGED <<usbVars, n, pass, tfailed, mainVars>>
-----------------------------------------------------------------------------
(* The completion callback, on the thread that is inside libusb. *)

\* libusb reports transfer i.  After a cancellation or a failure the callback
\* only clears the pending flag; otherwise it goes on, on an old status.
Dispatch(i, by, outcome) ==
  /\ cb = NoCallback /\ failing = "none" /\ InLibusb(by)
  /\ i \in owned
  /\ outcome = "CANCELLED" => i \in cancelled
  /\ outcome = "ERROR" => "transfer" \in Faults
  /\ owned' = owned \ {i}
  /\ cancelled' = cancelled \ {i}
  /\ IF status \in {"CANCELING", "FAILED"}
       THEN pending' = pending \ {i} /\ UNCHANGED cb
       ELSE cb' = [xfer |-> i, by |-> by, outcome |-> outcome] /\ UNCHANGED pending
  /\ UNCHANGED <<status, engine, alloc, failing, streamVars, mainVars>>

\* A completed transfer goes back to libusb before its samples are delivered.
\* When the client's socket fails, send_stream cancels the stream.
Deliver ==
  /\ cb.outcome = "COMPLETED"
  /\ owned' = owned \union {cb.xfer}
  /\ cb' = NoCallback
  /\ \/ UNCHANGED status
     \/ /\ "write" \in Faults /\ status = "RUNNING"
        /\ status' = "CANCELING"
  /\ UNCHANGED <<engine, alloc, pending, cancelled, failing, streamVars, mainVars>>

\* A transfer that failed_free cancelled, or an empty one that completed when a
\* cancellation or a failure came in between, does not go back to libusb.
Return ==
  /\ \/ cb.outcome = "CANCELLED"
     \/ cb.outcome = "COMPLETED" /\ status \in {"CANCELING", "FAILED"}
  /\ pending' = pending \ {cb.xfer} /\ cb' = NoCallback
  /\ UNCHANGED <<status, engine, alloc, owned, cancelled, failing, streamVars, mainVars>>

\* An error status, or a transfer that cannot go back to libusb: the transfer
\* is given up and the stream cancelled, and FAILED is stored in another step.
Fail ==
  /\ \/ cb.outcome = "ERROR"
     \/ cb.outcome = "COMPLETED" /\ "submit" \in Faults
  /\ pending' = pending \ {cb.xfer} /\ cb' = NoCallback
  /\ status' = IF status = "RUNNING" THEN "CANCELING" ELSE status
  /\ failing' = cb.by
  /\ UNCHANGED <<engine, alloc, owned, cancelled, streamVars, mainVars>>

FailStore ==
  /\ failing # "none"
  /\ status' = "FAILED" /\ failing' = "none"
  /\ UNCHANGED <<engine, alloc, owned, pending, cancelled, cb, streamVars, mainVars>>
-----------------------------------------------------------------------------
(* The main thread of the daemon. *)

\* pthread_create(stream_main): only on an open handle with no stream thread.
StartStream ==
  /\ mpc = "idle" /\ handle = "open" /\ pc = "none"
  /\ pc' = "enter"
  /\ UNCHANGED <<status, usbVars, n, pass, tfailed, result, mainVars>>

\* A request that changes the hardware does a control transfer.
Control ==
  /\ mpc = "idle" /\ handle = "open" /\ pc # "none"
  /\ mpc' = "control"
  /\ UNCHANGED <<status, usbVars, streamVars, joins, handle>>

\* A failed update cancels the stream and does not wait for it.
ControlDone ==
  /\ mpc = "control" /\ MainFree
  /\ \/ mpc' = "idle" /\ UNCHANGED joins
     \/ "control" \in Faults /\ mpc' = "cancel" /\ joins' = FALSE
  /\ UNCHANGED <<status, usbVars, streamVars, handle>>

\* stop_stream: stop the engine, cancel, join.
StopStream ==
  /\ mpc = "idle" /\ handle = "open" /\ pc # "none"
  /\ mpc' = "halt" /\ joins' = TRUE
  /\ UNCHANGED <<status, usbVars, streamVars, handle>>

Halt ==
  /\ mpc = "halt" /\ MainFree
  /\ engine' \in {FALSE} \union (IF "control" \in Faults THEN {engine} ELSE {})
  /\ mpc' = "cancel"
  /\ UNCHANGED <<status, alloc, owned, pending, cancelled, cb, failing, streamVars, joins,
                 handle>>

AfterCancel == IF joins THEN "join" ELSE "idle"

\* mirisdr_cancel_async loads the status, and stores CANCELING in another step.
Cancel ==
  /\ mpc = "cancel"
  /\ mpc' = IF status = "RUNNING" THEN "store" ELSE AfterCancel
  /\ UNCHANGED <<status, usbVars, streamVars, joins, handle>>

CancelStore ==
  /\ mpc = "store"
  /\ status' = "CANCELING" /\ mpc' = AfterCancel
  /\ UNCHANGED <<usbVars, streamVars, joins, handle>>

\* pthread_join, at the end of stop_stream or at the start of a recovery.
Join ==
  /\ mpc \in {"join", "idle"} /\ pc = "exit"
  /\ pc' = "none" /\ mpc' = "idle"
  /\ UNCHANGED <<status, usbVars, n, pass, tfailed, result, joins, handle>>

\* mirisdr_close: with the stream thread gone, cancel_async_now waits for
\* nothing, and a status other than INACTIVE quarantines the handle.
Close ==
  /\ mpc = "idle" /\ handle = "open" /\ pc = "none"
  /\ IF status = "INACTIVE"
       THEN /\ handle' = "closed"
            /\ engine' \in {FALSE} \union (IF "control" \in Faults THEN {engine} ELSE {})
            /\ UNCHANGED status
       ELSE /\ handle' = "busy"
            /\ status' = IF status = "RUNNING" THEN "CANCELING" ELSE status
            /\ UNCHANGED engine
  /\ UNCHANGED <<alloc, owned, pending, cancelled, cb, failing, streamVars, mpc, joins>>

Reopen ==
  /\ mpc = "idle" /\ handle = "closed"
  /\ handle' = "open"
  /\ UNCHANGED <<status, usbVars, streamVars, mpc, joins>>

StreamStep ==
  \/ Enter \/ Submit \/ Mark \/ Arm \/ Publish \/ Notice \/ EventsFail
  \/ DrainPass \/ Drained \/ Free \/ Abandoned \/ DrainFails

CallbackStep == Deliver \/ Return \/ Fail \/ FailStore

MainStep ==
  \/ StartStream \/ Control \/ ControlDone \/ StopStream \/ Halt \/ Cancel \/ CancelStore
  \/ Join \/ Close \/ Reopen

AsyncNext ==
  \/ StreamStep \/ CallbackStep \/ MainStep
  \/ \E i \in Transfers, by \in {"stream", "main"}, outcome \in Outcomes :
       Dispatch(i, by, outcome)

AsyncSpec == AsyncInit /\ [][AsyncNext]_asyncVars

\* The stream thread and running callbacks are scheduled; so are the calls the
\* main thread has begun.  Nothing is assumed of the device or of libusb.
AsyncFairSpec ==
  /\ AsyncSpec
  /\ WF_asyncVars(StreamStep) /\ WF_asyncVars(CallbackStep)
  /\ WF_asyncVars(ControlDone) /\ WF_asyncVars(Halt)
  /\ WF_asyncVars(Cancel) /\ WF_asyncVars(CancelStore)
  /\ WF_asyncVars(Join)
-----------------------------------------------------------------------------
FlagsOK ==
  /\ engine \in BOOLEAN /\ alloc \in BOOLEAN
  /\ tfailed \in BOOLEAN /\ joins \in BOOLEAN

TransfersOK ==
  /\ owned \subseteq Transfers /\ pending \subseteq Transfers
  /\ cancelled \subseteq Transfers

CallbackOK ==
  /\ failing \in {"none", "stream", "main"}
  /\ \/ cb = NoCallback
     \/ cb \in [xfer : Transfers, by : {"stream", "main"}, outcome : Outcomes]

ControlOK ==
  /\ status \in Statuses
  /\ pc \in {"none", "enter", "submit", "mark", "arm", "publish", "loop", "drain",
             "free", "abandon", "exit"}
  /\ mpc \in {"idle", "control", "halt", "cancel", "store", "join"}
  /\ handle \in {"open", "closed", "busy"}
  /\ n \in Transfers /\ pass \in 0..DrainPasses /\ result \in {0, 1}

\* The variables have the types of the C fields and locals they stand for; in
\* particular no transfer index and no drain pass is out of bounds.
AsyncTypeOK == FlagsOK /\ TransfersOK /\ CallbackOK /\ ControlOK

\* Transfer storage is freed only when libusb has given every transfer back and
\* no callback is using one, whichever thread runs it and whatever fails.
FreedOnlyWhenReturned == ~alloc => owned = {} /\ cb = NoCallback

\* A handle that closed, and one that can be started again, left nothing behind.
CleanWhenIdle ==
  pc = "none" /\ status = "INACTIVE" => ~alloc /\ owned = {} /\ pending = {}

\* Once the event loop sees CANCELING the stream thread returns, and with it
\* the daemon's join, although nothing is assumed of the device.
CancelEndsStream == (pc = "loop" /\ status = "CANCELING") ~> pc \in {"exit", "none"}

\* What the code's comments say, and the code does not do:

\* openrspd.c, close_radio: "-EBUSY means libusb still owns asynchronous transfer
\* storage", and the daemon ends itself for it: some storage must be left.
BusyMeansStorage == handle = "busy" => alloc

\* async.h: transfers are resubmitted "never after cancellation or failure has
\* started": a failed stream must not be declared running.
FailureIsFinal == [][status = "FAILED" => status' # "RUNNING"]_asyncVars

\* async.c, read_async: "RSPduo is stopped by the API owner before transfer
\* cancellation": a drain never starts under a running engine.
StoppedBeforeCancel == pc = "drain" => ~engine

\* openrspd.c, stop_stream: stop the endpoint, "then cancel and drain every
\* completion before freeing them": once called, it returns.
StopReturns == mpc = "join" ~> mpc = "idle"
=============================================================================
