---------------------------- MODULE StreamProofs ----------------------------
(***************************************************************************)
(* Proofs about the two ends of the way of the samples: the transfers that *)
(* the driver reads them with (AsyncTransfers), and the thread that hands  *)
(* them to the application (StreamCallbacks).                              *)
(*                                                                         *)
(* AsyncTransfers, for every number of transfers, every drain bound and    *)
(* every combination of faults: the xfer_pending flags are what the code   *)
(* looks at before it frees; the argument is that they never miss a        *)
(* transfer: what libusb owns, and what a callback holds, is pending or    *)
(* about to be marked (Tracked).                                           *)
(*                                                                         *)
(* StreamCallbacks, for a queue of any capacity, frames of any length, any *)
(* losses and any calls: between the pause and the resume of the callbacks *)
(* the application is not called, and a frame is delivered under the tuner *)
(* and the mode it was received under.                                     *)
(***************************************************************************)
EXTENDS AsyncTransfers, StreamCallbacks, TLAPS

\* The transfer that is submitted and not yet marked as pending.
Unmarked == IF pc = "mark" THEN {n} ELSE {}

Tracked ==
  /\ owned \subseteq pending \union Unmarked
  /\ cb # NoCallback => cb.xfer \in pending \union Unmarked /\ cb.xfer \notin owned
  /\ pc \in {"submit", "mark"} => \A i \in pending : i < n

Quiet == owned = {} /\ pending = {} /\ cb = NoCallback

\* Storage exists from the entry of read_async until it is freed, and longer
\* when a drain gave up; then the status is not INACTIVE.
Storage ==
  /\ pc \in {"submit", "mark", "arm", "publish", "loop", "drain", "free", "abandon"} => alloc
  /\ ~alloc => Quiet
  /\ pc = "free" => Quiet
  /\ pc \in {"none", "enter", "exit"} /\ status = "INACTIVE" => ~alloc

IInv == AsyncTypeOK /\ Tracked /\ Storage

USE NAssumption, DrainAssumption, FaultsAssumption

\* The initial handle is idle, with nothing allocated or submitted.
LEMMA InitInv == AsyncInit => IInv
<1> SUFFICES ASSUME AsyncInit PROVE IInv
  OBVIOUS
<1>1. FlagsOK /\ CallbackOK
  BY DEF AsyncInit, FlagsOK, CallbackOK
<1>2. TransfersOK /\ ControlOK
  BY DEF AsyncInit, TransfersOK, ControlOK, Statuses, Transfers
<1>3. Tracked /\ Storage
  BY DEF AsyncInit, Tracked, Storage, Quiet
<1> QED
  BY <1>1, <1>2, <1>3 DEF IInv, AsyncTypeOK

\* Every step keeps the Boolean fields Boolean.
LEMMA NextFlags == FlagsOK /\ [AsyncNext]_asyncVars => FlagsOK'
<1> SUFFICES ASSUME FlagsOK, [AsyncNext]_asyncVars PROVE FlagsOK'
  OBVIOUS
<1> USE DEF FlagsOK
<1>1. CASE StreamStep
  BY <1>1 DEF StreamStep, Enter, Submit, Mark, Arm, Publish, Notice, EventsFail, DrainPass,
     Drained, Free, Abandoned, DrainFails, mainVars, usbVars
<1>2. CASE CallbackStep
  BY <1>2 DEF CallbackStep, Deliver, Return, Fail, FailStore, streamVars, mainVars
<1>3. ASSUME NEW i \in Transfers, NEW by \in {"stream", "main"}, NEW outcome \in Outcomes,
             Dispatch(i, by, outcome)
      PROVE  FlagsOK'
  BY <1>3 DEF Dispatch, streamVars, mainVars
<1>4. CASE MainStep
  BY <1>4 DEF MainStep, StartStream, Control, ControlDone, StopStream, Halt, Cancel, CancelStore,
     Join, Close, Reopen, streamVars, mainVars, usbVars
<1>5. CASE UNCHANGED asyncVars
  BY <1>5 DEF asyncVars
<1> QED
  BY <1>1, <1>2, <1>3, <1>4, <1>5 DEF AsyncNext

\* Every step keeps the transfer sets within the allocated transfers.
LEMMA NextTransfers == TransfersOK /\ CallbackOK /\ ControlOK /\ [AsyncNext]_asyncVars => TransfersOK'
<1> SUFFICES ASSUME TransfersOK /\ CallbackOK /\ ControlOK, [AsyncNext]_asyncVars PROVE TransfersOK'
  OBVIOUS
<1> USE DEF TransfersOK, CallbackOK, ControlOK, NoCallback
<1>1. CASE Enter \/ Submit \/ Mark \/ Arm \/ Publish
  BY <1>1 DEF Enter, Submit, Mark, Arm, Publish, mainVars, usbVars
<1>2. CASE Notice \/ EventsFail \/ DrainPass
  BY <1>2 DEF Notice, EventsFail, DrainPass, mainVars, usbVars
<1>3. CASE Drained \/ Free \/ Abandoned \/ DrainFails
  BY <1>3 DEF Drained, Free, Abandoned, DrainFails, mainVars, usbVars
<1>4. CASE CallbackStep
  BY <1>4 DEF CallbackStep, Deliver, Return, Fail, FailStore, streamVars, mainVars
<1>5. ASSUME NEW i \in Transfers, NEW by \in {"stream", "main"}, NEW outcome \in Outcomes,
             Dispatch(i, by, outcome)
      PROVE  TransfersOK'
  BY <1>5 DEF Dispatch, streamVars, mainVars
<1>6. CASE MainStep
  BY <1>6 DEF MainStep, StartStream, Control, ControlDone, StopStream, Halt, Cancel, CancelStore,
     Join, Close, Reopen, AfterCancel, streamVars, mainVars, usbVars
<1>7. CASE UNCHANGED asyncVars
  BY <1>7 DEF asyncVars
<1> QED
  BY <1>1, <1>2, <1>3, <1>4, <1>5, <1>6, <1>7 DEF AsyncNext, StreamStep

\* Every step keeps the callback in progress well formed.
LEMMA NextCallback == CallbackOK /\ [AsyncNext]_asyncVars => CallbackOK'
<1> SUFFICES ASSUME CallbackOK, [AsyncNext]_asyncVars PROVE CallbackOK'
  OBVIOUS
<1> USE DEF CallbackOK
<1>1. CASE Enter \/ Submit \/ Mark \/ Arm \/ Publish
  BY <1>1 DEF Enter, Submit, Mark, Arm, Publish, mainVars, usbVars
<1>2. CASE Notice \/ EventsFail \/ DrainPass
  BY <1>2 DEF Notice, EventsFail, DrainPass, mainVars, usbVars
<1>3. CASE Drained \/ Free \/ Abandoned \/ DrainFails
  BY <1>3 DEF Drained, Free, Abandoned, DrainFails, mainVars, usbVars
<1>4. CASE CallbackStep
  <2>1. CASE Deliver \/ Return
    BY <2>1 DEF Deliver, Return
  <2>2. CASE Fail
    <3>1. cb' = NoCallback /\ failing' = cb.by
      BY <2>2 DEF Fail
    <3>2. cb.by \in {"none", "stream", "main"}
      BY DEF NoCallback
    <3> QED
      BY <3>1, <3>2
  <2>3. CASE FailStore
    BY <2>3 DEF FailStore
  <2> QED
    BY <1>4, <2>1, <2>2, <2>3 DEF CallbackStep
<1>5. ASSUME NEW i \in Transfers, NEW by \in {"stream", "main"}, NEW outcome \in Outcomes,
             Dispatch(i, by, outcome)
      PROVE  CallbackOK'
  BY <1>5 DEF Dispatch, streamVars, mainVars
<1>6. CASE MainStep
  BY <1>6 DEF MainStep, StartStream, Control, ControlDone, StopStream, Halt, Cancel, CancelStore,
     Join, Close, Reopen, AfterCancel, streamVars, mainVars, usbVars
<1>7. CASE UNCHANGED asyncVars
  BY <1>7 DEF asyncVars
<1> QED
  BY <1>1, <1>2, <1>3, <1>4, <1>5, <1>6, <1>7 DEF AsyncNext, StreamStep

\* Every step keeps the status and the places of the threads in range.
LEMMA NextControl == ControlOK /\ [AsyncNext]_asyncVars => ControlOK'
<1> SUFFICES ASSUME ControlOK, [AsyncNext]_asyncVars PROVE ControlOK'
  OBVIOUS
<1> USE DEF ControlOK, Statuses, Transfers
<1>1. CASE Enter
  <2>1. /\ n' = 1 /\ pass' = 0 /\ pc' \in {"submit", "exit"}
        /\ result' = result \/ result' = 1
        /\ UNCHANGED <<status, mpc, handle>>
    BY <1>1 DEF Enter, mainVars
  <2> QED
    BY <2>1
<1>2. CASE Submit
  BY <1>2 DEF Submit, mainVars, usbVars
<1>3. CASE Mark
  BY <1>3 DEF Mark, mainVars, usbVars
<1>4. CASE Arm
  BY <1>4 DEF Arm, mainVars, usbVars
<1>5. CASE Publish
  BY <1>5 DEF Publish, mainVars, usbVars
<1>6. CASE Notice
  BY <1>6 DEF Notice, mainVars, usbVars
<1>7. CASE EventsFail
  BY <1>7 DEF EventsFail, mainVars, usbVars
<1>8. CASE DrainPass
  BY <1>8 DEF DrainPass, mainVars, usbVars
<1>9. CASE Drained
  BY <1>9 DEF Drained, mainVars, usbVars
<1>10. CASE Free
  BY <1>10 DEF Free, mainVars, usbVars
<1>11. CASE Abandoned
  BY <1>11 DEF Abandoned, mainVars, usbVars
<1>12. CASE DrainFails
  BY <1>12 DEF DrainFails, mainVars, usbVars
<1>13. CASE CallbackStep
  BY <1>13 DEF CallbackStep, Deliver, Return, Fail, FailStore, streamVars, mainVars
<1>14. ASSUME NEW i \in Transfers, NEW by \in {"stream", "main"}, NEW outcome \in Outcomes,
             Dispatch(i, by, outcome)
      PROVE  ControlOK'
  BY <1>14 DEF Dispatch, streamVars, mainVars
<1>15. CASE MainStep
  <2>1. CASE StartStream \/ Control \/ ControlDone \/ StopStream \/ Join \/ Reopen
    BY <2>1 DEF StartStream, Control, ControlDone, StopStream, Join, Reopen, streamVars, mainVars, usbVars
  <2>2. CASE Halt
    BY <2>2 DEF Halt, streamVars
  <2>3. CASE Cancel \/ CancelStore
    BY <2>3 DEF Cancel, CancelStore, AfterCancel, streamVars, usbVars
  <2>4. CASE Close
    BY <2>4 DEF Close, streamVars
  <2> QED
    BY <1>15, <2>1, <2>2, <2>3, <2>4 DEF MainStep
<1>16. CASE UNCHANGED asyncVars
  BY <1>16 DEF asyncVars
<1> QED
  BY <1>1, <1>2, <1>3, <1>4, <1>5, <1>6, <1>7, <1>8, <1>9, <1>10, <1>11, <1>12, <1>13, <1>14, <1>15, <1>16 DEF AsyncNext, StreamStep

\* Every step keeps the pending flags a superset of what libusb or a callback
\* has, except for the transfer about to be marked.
LEMMA NextTracked == IInv /\ [AsyncNext]_asyncVars => Tracked'
<1> SUFFICES ASSUME AsyncTypeOK, Tracked, Storage, [AsyncNext]_asyncVars PROVE Tracked'
  BY DEF IInv
<1>0. n \in Nat /\ \A i \in pending : i \in Nat
  BY DEF AsyncTypeOK, ControlOK, TransfersOK, Transfers
<1> USE DEF Tracked, Unmarked
<1>1. CASE Enter
  <2>1. pc' \in {"submit", "exit"} /\ pc = "enter"
    BY <1>1 DEF Enter
  <2>2. pc' = "submit" => pending = {}
    BY <1>1 DEF Enter, Storage, Quiet
  <2> QED
    BY <1>1, <2>1, <2>2 DEF Enter
<1>2. CASE Submit
  BY <1>0, <1>2 DEF Submit
<1>3. CASE Mark
  BY <1>0, <1>3 DEF Mark
<1>4. CASE Arm \/ Publish \/ Notice \/ EventsFail
  BY <1>4 DEF Arm, Publish, Notice, EventsFail, usbVars
<1>5. CASE DrainPass \/ Drained \/ Free \/ Abandoned \/ DrainFails
  BY <1>5 DEF DrainPass, Drained, Free, Abandoned, DrainFails, usbVars
<1>6. CASE Deliver \/ Return \/ Fail \/ FailStore
  BY <1>6 DEF Deliver, Return, Fail, FailStore, streamVars, NoCallback
<1>7. ASSUME NEW i \in Transfers, NEW by \in {"stream", "main"}, NEW outcome \in Outcomes,
             Dispatch(i, by, outcome)
      PROVE  Tracked'
  BY <1>7 DEF Dispatch, streamVars, NoCallback
<1>8. CASE MainStep
  BY <1>8 DEF MainStep, StartStream, Control, ControlDone, StopStream, Halt, Cancel, CancelStore,
     Join, Close, Reopen, streamVars, usbVars
<1>9. CASE UNCHANGED asyncVars
  BY <1>9 DEF asyncVars
<1> QED
  BY <1>1, <1>2, <1>3, <1>4, <1>5, <1>6, <1>7, <1>8, <1>9
  DEF AsyncNext, StreamStep, CallbackStep

\* Every step keeps storage alive while anything uses it.
LEMMA NextStorage == IInv /\ [AsyncNext]_asyncVars => Storage'
<1> SUFFICES ASSUME AsyncTypeOK, Tracked, Storage, [AsyncNext]_asyncVars PROVE Storage'
  BY DEF IInv
<1> USE DEF Storage, Quiet
<1>1. CASE Enter
  <2>1. pc = "enter" /\ UNCHANGED <<status, owned, pending, cb>>
    BY <1>1 DEF Enter
  <2>2. \/ alloc' = TRUE /\ pc' = "submit"
        \/ alloc' = alloc /\ pc' = "exit"
    BY <1>1 DEF Enter
  <2> QED
    BY <2>1, <2>2
<1>2. CASE Submit \/ Mark \/ Arm \/ Publish
  BY <1>2 DEF Submit, Mark, Arm, Publish, usbVars
<1>3. CASE Notice \/ EventsFail \/ DrainPass
  BY <1>3 DEF Notice, EventsFail, DrainPass, usbVars
<1>4. CASE Drained \/ Abandoned
  BY <1>4 DEF Drained, Abandoned, usbVars, Tracked, Unmarked
<1>5. CASE Free \/ DrainFails
  BY <1>5 DEF Free, DrainFails, usbVars
<1>6. CASE Deliver \/ Return \/ Fail \/ FailStore
  BY <1>6 DEF Deliver, Return, Fail, FailStore, streamVars, NoCallback
<1>7. ASSUME NEW i \in Transfers, NEW by \in {"stream", "main"}, NEW outcome \in Outcomes,
             Dispatch(i, by, outcome)
      PROVE  Storage'
  BY <1>7 DEF Dispatch, streamVars
<1>8. CASE MainStep
  <2>1. UNCHANGED <<alloc, owned, pending, cb>>
    BY <1>8 DEF MainStep, StartStream, Control, ControlDone, StopStream, Halt, Cancel, CancelStore,
       Join, Close, Reopen, usbVars
  <2>2. \/ pc' = pc
        \/ pc \in {"none", "exit"} /\ pc' \in {"none", "enter"}
    BY <1>8 DEF MainStep, StartStream, Control, ControlDone, StopStream, Halt, Cancel, CancelStore,
       Join, Close, Reopen, streamVars
  <2>3. status' = "INACTIVE" => status = "INACTIVE"
    BY <1>8 DEF MainStep, StartStream, Control, ControlDone, StopStream, Halt, Cancel, CancelStore,
       Join, Close, Reopen
  <2> QED
    BY <2>1, <2>2, <2>3
<1>9. CASE UNCHANGED asyncVars
  BY <1>9 DEF asyncVars
<1> QED
  BY <1>1, <1>2, <1>3, <1>4, <1>5, <1>6, <1>7, <1>8, <1>9
  DEF AsyncNext, StreamStep, CallbackStep

\* The inductive invariant holds in every reachable state.
THEOREM AsyncInductive == AsyncSpec => []IInv
<1>1. IInv /\ [AsyncNext]_asyncVars => IInv'
  BY NextFlags, NextTransfers, NextCallback, NextControl, NextTracked, NextStorage
  DEF IInv, AsyncTypeOK
<1> QED
  BY <1>1, InitInv, PTL DEF AsyncSpec

\* No index, pass or state of the transfer machinery ever leaves its range.
THEOREM AsyncTypes == AsyncSpec => []AsyncTypeOK
<1>1. IInv => AsyncTypeOK
  BY DEF IInv
<1> QED
  BY <1>1, AsyncInductive, PTL

\* async.c never frees transfer storage that libusb or a callback still uses,
\* for any number of transfers, any drain bound and any combination of faults.
THEOREM NoUseAfterFree == AsyncSpec => []FreedOnlyWhenReturned
<1>1. IInv => FreedOnlyWhenReturned
  BY DEF IInv, Storage, Quiet, FreedOnlyWhenReturned
<1> QED
  BY <1>1, AsyncInductive, PTL

\* A handle whose stream has ended cleanly has no storage, transfer or flag left.
THEOREM NothingLeftBehind == AsyncSpec => []CleanWhenIdle
<1>1. IInv => CleanWhenIdle
  BY DEF IInv, Storage, Quiet, CleanWhenIdle
<1> QED
  BY <1>1, AsyncInductive, PTL
-----------------------------------------------------------------------------
(* The callbacks of the application. *)

\* A frame received under mode and tuner u, and the frame the callback thread has.
Mapped(f, u) ==
  f = [tuner |-> f.tuner, samples |-> f.samples, first |-> f.first, reset |-> f.reset,
       changed |-> f.changed, under |-> u, from |-> f.from]
Delivered(a, u) ==
  /\ a = [tuner |-> a.tuner, frame |-> a.frame, reset |-> a.reset, offset |-> a.offset]
  /\ Mapped(a.frame, u)
AllMapped(q, u) == \E S : q \in Seq(S) /\ \A f \in S : Mapped(f, u)

\* While the application's thread has the callbacks paused nothing is queued and
\* nothing delivered; once a swap has been answered no frame is on its way either.
PauseInv ==
  /\ "pc" \in DOMAIN api /\ "call" \in DOMAIN api
  /\ api.pc \in {"pausing", "requesting", "install", "resume"} => paused
  /\ api.pc \in {"requesting", "install", "resume"} => active = None /\ queue = <<>>
  /\ api.pc = "install" /\ api.call # "swap_rate" => producer = None /\ ~wire.flowing

MapInv ==
  /\ AllMapped(queue, <<mode, tuner>>)
  /\ producer = None \/ Mapped(producer, <<mode, tuner>>)
  /\ active = None \/ Delivered(active, <<mode, tuner>>)

Inv == PauseInv /\ MapInv
-----------------------------------------------------------------------------
(* Queues and calls *)

\* An emptied queue holds nothing of an earlier mapping.
LEMMA NothingMapped ==
  ASSUME NEW u
  PROVE  AllMapped(<<>>, u)
<1> DEFINE S == {}
<1>1. <<>> \in Seq(S)
  OBVIOUS
<1>2. \A f \in S : Mapped(f, u)
  OBVIOUS
<1> HIDE DEF S
<1> QED
  BY <1>1, <1>2, Zenon DEF AllMapped

\* A frame queued under u leaves a queue of frames of u, the oldest dropped or not.
LEMMA QueuedMapped ==
  ASSUME NEW q, NEW f, NEW u, AllMapped(q, u), Mapped(f, u)
  PROVE  AllMapped(Queued(q, f), u)
<1> Capacity \in Nat \ {0}
  BY StreamAssumption
<1>1. PICK S : q \in Seq(S) /\ \A g \in S : Mapped(g, u)
  BY DEF AllMapped
<1>2. ASSUME NEW g, NEW p, Mapped(g, u), p \in Seq(S)
      PROVE  AllMapped(Append(p, g), u)
  <2> DEFINE R == S \union {g}
  <2>1. Append(p, g) \in Seq(R)
    BY <1>2
  <2>2. \A h \in R : Mapped(h, u)
    BY <1>1, <1>2
  <2> HIDE DEF R
  <2> QED
    BY <2>1, <2>2, Zenon DEF AllMapped
<1>3. CASE Len(q) = Capacity
  <2> DEFINE g == [f EXCEPT !.reset = @ \/ Head(q).reset, !.changed = @ \/ Head(q).changed]
  <2>1. q # <<>> /\ Tail(q) \in Seq(S)
    BY <1>1, <1>3
  <2>2. Mapped(g, u)
    <3>1. PICK t, k, i, x, y, o : f = [tuner |-> t, samples |-> k, first |-> i, reset |-> x,
                                       changed |-> y, under |-> u, from |-> o]
      BY Zenon DEF Mapped
    <3>2. ASSUME NEW r, NEW c
          PROVE  [[f EXCEPT !.reset = r] EXCEPT !.changed = c] =
                   [tuner |-> t, samples |-> k, first |-> i, reset |-> r,
                    changed |-> c, under |-> u, from |-> o]
      <4>1. [f EXCEPT !.reset = r] = [tuner |-> t, samples |-> k, first |-> i, reset |-> r,
                                      changed |-> y, under |-> u, from |-> o]
        BY ONLY <3>1
      <4> DEFINE h == [f EXCEPT !.reset = r]
      <4> HIDE DEF h
      <4>2. h = [tuner |-> t, samples |-> k, first |-> i, reset |-> r,
                 changed |-> y, under |-> u, from |-> o]
        BY <4>1 DEF h
      <4>3. [h EXCEPT !.changed = c] = [tuner |-> t, samples |-> k, first |-> i, reset |-> r,
                                        changed |-> c, under |-> u, from |-> o]
        BY ONLY <4>2
      <4> QED
        BY <4>3 DEF h
    <3>3. PICK r, c : g = [[f EXCEPT !.reset = r] EXCEPT !.changed = c]
      OBVIOUS
    <3> HIDE DEF g
    <3> QED
      BY <3>2, <3>3 DEF Mapped
  <2>3. Queued(q, f) = Append(Tail(q), g)
    BY <1>3, Zenon DEF Queued
  <2> HIDE DEF g
  <2> QED
    BY <1>2, <2>1, <2>2, <2>3
<1>4. CASE Len(q) # Capacity
  <2>1. Queued(q, f) = Append(q, f)
    BY <1>4 DEF Queued
  <2> QED
    BY <1>1, <1>2, <2>1
<1> QED
  BY <1>3, <1>4

\* A step within a call changes the place in the code only.
LEMMA GotoFacts ==
  ASSUME "pc" \in DOMAIN api, "call" \in DOMAIN api, NEW x, Goto(x)
  PROVE  /\ api'.pc = x /\ api'.call = api.call
         /\ "pc" \in DOMAIN api' /\ "call" \in DOMAIN api'
BY DEF Goto

\* A call begins only when none is in progress.
LEMMA BeginFacts ==
  ASSUME NEW c, NEW x, Begin(c, x)
  PROVE  /\ api'.pc = x /\ api'.call = c /\ api.pc = "idle"
         /\ "pc" \in DOMAIN api' /\ "call" \in DOMAIN api'
BY DEF Begin
-----------------------------------------------------------------------------
(* The IQ thread and the callback thread *)

\* A frame arrives and is queued under the mode and the tuner of the device.
LEMMA ProducerKeeps ==
  ASSUME Inv, Enqueue \/ \E w \in Tuners, k \in Skips : Arrive(w, k)
  PROVE  Inv'
<1>1. CASE Enqueue
  <2>1. producer # None /\ producer' = None /\ UNCHANGED <<mode, tuner, paused, active, api, wire>>
        /\ queue_stream_callback(producer)
    BY <1>1 DEF Enqueue, thread
  <2>2. CASE paused \/ stopped
    <3>1. queue' = queue
      BY <2>1, <2>2 DEF queue_stream_callback
    <3> QED
      BY <2>1, <3>1 DEF Inv, PauseInv, MapInv
  <2>3. CASE ~(paused \/ stopped)
    <3>1. queue' = Queued(queue, producer)
      BY <2>1, <2>3 DEF queue_stream_callback
    <3>2. AllMapped(queue', <<mode, tuner>>)
      BY <2>1, <3>1, QueuedMapped DEF Inv, MapInv
    <3>3. PauseInv'
      BY <2>1, <2>3 DEF Inv, PauseInv
    <3>4. MapInv'
      BY <2>1, <3>2 DEF Inv, MapInv
    <3> QED
      BY <3>3, <3>4 DEF Inv
  <2> QED
    BY <2>2, <2>3
<1>2. ASSUME NEW w \in Tuners, NEW k \in Skips, Arrive(w, k)
      PROVE  Inv'
  <2>1. wire.flowing /\ producer = None /\ UNCHANGED <<mode, tuner, queue, paused, active, api>>
    BY <1>2 DEF Arrive, thread
  <2>2. Mapped(producer', <<mode, tuner>>)
    BY <1>2, Zenon DEF Arrive, Mapped
  <2>3. PauseInv'
    BY <2>1 DEF Inv, PauseInv
  <2>4. MapInv'
    BY <2>1, <2>2 DEF Inv, MapInv
  <2> QED
    BY <2>3, <2>4 DEF Inv
<1> QED
  BY <1>1, <1>2

\* The callback thread takes nothing while it is paused.
LEMMA CallbackKeeps ==
  ASSUME Inv, CallbackThread
  PROVE  Inv'
<1>1. CASE Sleep \/ Exit
  <2>1. UNCHANGED <<mode, tuner, queue, paused, active, producer, api, wire>>
    BY <1>1 DEF Sleep, Exit, device, thread
  <2> QED
    BY <2>1 DEF Inv, PauseInv, MapInv
<1>2. CASE Take
  <2>1. /\ queue # <<>> /\ ~paused /\ queue' = Tail(queue)
        /\ active' = [tuner |-> Head(queue).tuner, frame |-> Head(queue),
                      reset |-> Reset(Head(queue)), offset |-> 0]
        /\ UNCHANGED <<mode, tuner, paused, producer, api, wire>>
    BY <1>2 DEF Take
  <2>2. PICK S : queue \in Seq(S) /\ \A f \in S : Mapped(f, <<mode, tuner>>)
    BY DEF Inv, MapInv, AllMapped
  <2>3. Head(queue) \in S /\ Tail(queue) \in Seq(S)
    BY <2>1, <2>2
  <2>4. AllMapped(queue', <<mode, tuner>>)
    BY <2>1, <2>2, <2>3, Zenon DEF AllMapped
  <2>5. active'.frame = Head(queue)
        /\ active' = [tuner |-> active'.tuner, frame |-> active'.frame,
                      reset |-> active'.reset, offset |-> active'.offset]
    BY <2>1
  <2>6. Delivered(active', <<mode, tuner>>)
    BY <2>2, <2>3, <2>5 DEF Delivered
  <2>7. PauseInv'
    BY <2>1 DEF Inv, PauseInv
  <2>8. MapInv'
    BY <2>1, <2>4, <2>6 DEF Inv, MapInv
  <2> QED
    BY <2>7, <2>8 DEF Inv
<1>3. CASE CallApplication
  <2>1. active # None /\ Returned /\ UNCHANGED <<mode, tuner, queue, paused, producer, api, wire>>
    BY <1>3 DEF CallApplication, device
  <2>2. Delivered(active, <<mode, tuner>>)
    BY <2>1 DEF Inv, MapInv
  <2>3. active' = None \/ Delivered(active', <<mode, tuner>>)
    <3>1. CASE active' = [active EXCEPT !.offset = @ + Chunk]
      BY <2>2, <3>1 DEF Delivered
    <3> QED
      BY <2>1, <3>1 DEF Returned
  <2>4. PauseInv'
    BY <2>1 DEF Inv, PauseInv
  <2>5. MapInv'
    BY <2>1, <2>3 DEF Inv, MapInv
  <2> QED
    BY <2>4, <2>5 DEF Inv
<1> QED
  BY <1>1, <1>2, <1>3 DEF CallbackThread
-----------------------------------------------------------------------------
(* The application's thread *)

\* Start, pause, swap, resume and stop keep the pause and the mapping.
LEMMA CallsKeep ==
  ASSUME Inv, ApiCalls
  PROVE  Inv'
<1>1. CASE Start
  <2>1. /\ Begin("start", "idle") /\ queue' = <<>>
        /\ UNCHANGED <<mode, tuner, active, producer>>
    BY <1>1 DEF Start
  <2>2. PauseInv'
    BY <2>1, BeginFacts DEF PauseInv
  <2>3. MapInv'
    BY <2>1, NothingMapped DEF Inv, MapInv
  <2> QED
    BY <2>2, <2>3 DEF Inv
<1>2. CASE Stop
  <2>1. /\ Begin("stop", "stopping") /\ queue' = <<>>
        /\ UNCHANGED <<mode, tuner, active, producer>>
    BY <1>2 DEF Stop, device
  <2>2. PauseInv'
    BY <2>1, BeginFacts DEF PauseInv
  <2>3. MapInv'
    BY <2>1, NothingMapped DEF Inv, MapInv
  <2> QED
    BY <2>2, <2>3 DEF Inv
<1>3. ASSUME NEW call \in Swaps, Pause(call)
      PROVE  Inv'
  <2>1. /\ Begin(call, "pausing") /\ paused'
        /\ UNCHANGED <<mode, tuner, queue, active, producer>>
    BY <1>3 DEF Pause, device, thread
  <2>2. PauseInv'
    BY <2>1, BeginFacts DEF PauseInv
  <2>3. MapInv'
    BY <2>1 DEF Inv, MapInv
  <2> QED
    BY <2>2, <2>3 DEF Inv
<1>4. ASSUME NEW t \in Tuners, Update(t)
      PROVE  Inv'
  <2>1. Begin("update", "idle") /\ UNCHANGED <<mode, tuner, queue, active, producer>>
    BY <1>4 DEF Update, thread
  <2>2. PauseInv'
    BY <2>1, BeginFacts DEF PauseInv
  <2>3. MapInv'
    BY <2>1 DEF Inv, MapInv
  <2> QED
    BY <2>2, <2>3 DEF Inv
<1>5. ASSUME NEW t \in Tuners, UpdateQueued(t)
      PROVE  Inv'
  <2>1. /\ api' = [pc |-> "ack", call |-> "update", tuner |-> t, sample |-> lane[t].sample]
        /\ UNCHANGED <<mode, tuner, queue, active, producer>>
    BY <1>5 DEF UpdateQueued, device, thread
  <2>2. PauseInv'
    BY <2>1 DEF PauseInv
  <2>3. MapInv'
    BY <2>1 DEF Inv, MapInv
  <2> QED
    BY <2>2, <2>3 DEF Inv
<1> QED
  BY <1>1, <1>2, <1>3, <1>4, <1>5 DEF ApiCalls

\* The steps of a call that leave mode and tuner alone.
LEMMA ReturnsKeep ==
  ASSUME Inv, \/ Joined \/ emit_update_ack \/ PauseSleep \/ Paused \/ Refused \/ Served
              \/ InstallRate \/ Resume \/ \E ok \in BOOLEAN : ResumeMode(ok)
  PROVE  Inv'
<1> "pc" \in DOMAIN api /\ "call" \in DOMAIN api
  BY DEF Inv, PauseInv
<1>1. CASE Joined \/ Resume \/ \E ok \in BOOLEAN : ResumeMode(ok)
  <2>1. Goto("idle") /\ UNCHANGED <<mode, tuner, queue, active, producer>>
    BY <1>1 DEF Joined, Resume, ResumeMode, device, thread
  <2>2. PauseInv'
    BY <2>1, GotoFacts DEF PauseInv
  <2>3. MapInv'
    BY <2>1 DEF Inv, MapInv
  <2> QED
    BY <2>2, <2>3 DEF Inv
<1>2. CASE emit_update_ack
  <2> DEFINE f == [tuner |-> api.tuner, samples |-> 0, first |-> api.sample, reset |-> FALSE,
                   changed |-> TRUE, under |-> <<mode, tuner>>, from |-> Nowhere]
  <2>1. /\ api.pc = "ack" /\ queue_stream_callback(f) /\ api' = [pc |-> "idle", call |-> "update"]
        /\ UNCHANGED <<mode, tuner, active, producer>>
    BY <1>2 DEF emit_update_ack, device, thread
  <2>2. Mapped(f, <<mode, tuner>>)
    BY DEF Mapped
  <2> HIDE DEF f
  <2>3. AllMapped(queue', <<mode, tuner>>)
    <3>1. queue' = queue \/ queue' = Queued(queue, f)
      BY <2>1 DEF queue_stream_callback
    <3> QED
      BY <2>2, <3>1, QueuedMapped DEF Inv, MapInv
  <2>4. PauseInv'
    BY <2>1 DEF PauseInv
  <2>5. MapInv'
    BY <2>1, <2>3 DEF Inv, MapInv
  <2> QED
    BY <2>4, <2>5 DEF Inv
<1>3. CASE PauseSleep
  <2>1. UNCHANGED <<mode, tuner, queue, paused, active, producer, api, wire>>
    BY <1>3 DEF PauseSleep, device, thread
  <2> QED
    BY <2>1 DEF Inv, PauseInv, MapInv
<1>4. CASE Paused
  <2>1. /\ api.pc = "pausing" /\ active = None /\ queue' = <<>> /\ Goto("requesting")
        /\ UNCHANGED <<mode, tuner, paused, active, producer, wire>>
    BY <1>4 DEF Paused, device, thread
  <2>2. PauseInv'
    BY <2>1, GotoFacts DEF Inv, PauseInv
  <2>3. MapInv'
    BY <2>1, NothingMapped DEF Inv, MapInv
  <2> QED
    BY <2>2, <2>3 DEF Inv
<1>5. CASE Refused
  <2>1. /\ api.pc = "requesting" /\ Goto("resume")
        /\ UNCHANGED <<mode, tuner, queue, paused, active, producer>>
    BY <1>5 DEF Refused, device, thread
  <2>2. PauseInv'
    BY <2>1, GotoFacts DEF Inv, PauseInv
  <2>3. MapInv'
    BY <2>1 DEF Inv, MapInv
  <2> QED
    BY <2>2, <2>3 DEF Inv
<1>6. CASE Served
  <2>1. /\ api.pc = "requesting" /\ producer = None /\ Goto("install")
        /\ UNCHANGED <<mode, tuner, queue, paused, active, producer>>
    BY <1>6 DEF Served, device, thread
  <2>2. wire'.flowing = (wire.flowing /\ api.call = "swap_rate")
    BY <1>6 DEF Served
  <2>3. PauseInv'
    BY <2>1, <2>2, GotoFacts DEF Inv, PauseInv
  <2>4. MapInv'
    BY <2>1 DEF Inv, MapInv
  <2> QED
    BY <2>3, <2>4 DEF Inv
<1>7. CASE InstallRate
  <2>1. /\ api.pc = "install" /\ Goto("resume")
        /\ UNCHANGED <<mode, tuner, queue, paused, active, producer>>
    BY <1>7 DEF InstallRate, thread
  <2>2. PauseInv'
    BY <2>1, GotoFacts DEF Inv, PauseInv
  <2>3. MapInv'
    BY <2>1 DEF Inv, MapInv
  <2> QED
    BY <2>2, <2>3 DEF Inv
<1> QED
  BY <1>1, <1>2, <1>3, <1>4, <1>5, <1>6, <1>7

\* A swap changes mode and tuner when no frame is queued, delivered or on its way.
LEMMA InstallKeeps ==
  ASSUME Inv, InstallTuner \/ InstallMode
  PROVE  Inv'
<1>1. /\ api.pc = "install" /\ api.call # "swap_rate" /\ Goto("resume_mode")
      /\ queue' = <<>> /\ UNCHANGED <<active, producer>>
  BY DEF InstallTuner, InstallMode, thread
<1>2. active = None /\ producer = None
  BY <1>1 DEF Inv, PauseInv
<1>3. PauseInv'
  BY <1>1, GotoFacts DEF Inv, PauseInv
<1>4. MapInv'
  BY <1>1, <1>2, NothingMapped DEF MapInv
<1> QED
  BY <1>3, <1>4 DEF Inv
-----------------------------------------------------------------------------
\* The invariant holds in every reachable state.
THEOREM Inductive == Spec => []Inv
<1>1. Init => Inv
  <2> SUFFICES ASSUME Init PROVE Inv
    OBVIOUS
  <2>1. /\ queue = <<>> /\ producer = None /\ active = None
        /\ api = [pc |-> "idle", call |-> "none"]
    BY DEF Init
  <2>2. PauseInv
    BY <2>1 DEF PauseInv
  <2>3. MapInv
    BY <2>1, NothingMapped DEF MapInv
  <2> QED
    BY <2>2, <2>3 DEF Inv
<1>2. Inv /\ [Next]_vars => Inv'
  <2>1. Inv /\ UNCHANGED vars => Inv'
    BY DEF vars, Inv, PauseInv, MapInv
  <2>2. Inv /\ Restart => Inv'
    <3> SUFFICES ASSUME Inv, Restart PROVE Inv'
      OBVIOUS
    <3>1. wire.flowing /\ UNCHANGED <<mode, tuner, queue, paused, active, producer, api>>
      BY DEF Restart, device, thread
    <3> QED
      BY <3>1 DEF Inv, PauseInv, MapInv
  <2> QED
    BY <2>1, <2>2, ProducerKeeps, CallbackKeeps, CallsKeep, ReturnsKeep, InstallKeeps
       DEF Next, IQThread, ApiReturns
<1> QED
  BY <1>1, <1>2, PTL DEF Spec

\* A frame is handed to the application under the tuner and mode it was received
\* under, for any queue, any losses and any order of the calls: a swap changes them
\* only when its answer has come after the last frame and the queue is empty.
THEOREM MappingIsKept == Spec => []MappingKept
<1>1. Inv => MappingKept
  BY DEF Inv, MapInv, Delivered, Mapped, MappingKept
<1> QED
  BY <1>1, Inductive, PTL

\* The application is not called while its own thread is between the pause and the
\* resume of the callbacks, whatever the other threads do.
THEOREM PauseIsSilent == Spec => []PausedIsSilent
<1>1. Inv => PausedIsSilent
  BY DEF Inv, PauseInv, PausedIsSilent
<1> QED
  BY <1>1, Inductive, PTL
=============================================================================
