--------------------------- MODULE StreamCallbacks ---------------------------
(***************************************************************************)
(* The sample callbacks of the compatibility library                       *)
(* (compat/sdrplay_api_compat.c).                                          *)
(*                                                                         *)
(* Three threads share one bounded queue.  The backend's IQ thread runs    *)
(* daemon_stream_callback: it looks for gaps in the daemon's sequence      *)
(* numbers, numbers the samples and queues the frame.  The callback thread *)
(* takes frames and calls the application.  The application's own thread   *)
(* starts and stops the stream, updates settings and swaps tuner, mode or  *)
(* rate, which pauses the callbacks around a request to the daemon.        *)
(*                                                                         *)
(* daemon_stream_callback is two steps: what it reads and counts without   *)
(* the lock, and queue_stream_callback with the store that follows it.     *)
(* The condition variable is the set of the threads that sleep on it.      *)
(* Samples, filters and the three kinds of change flag are abstracted to   *)
(* the position of a frame in what the daemon sent and one flag.           *)
(***************************************************************************)
EXTENDS Integers, Sequences

CONSTANTS
  Capacity,        \* OPENRSP_STREAM_QUEUE_CAPACITY
  FrameSamples,    \* samples of a frame
  CallbackSamples, \* device->callback_samples
  Modulus,         \* 2^32 in the code
  Skips,           \* how many frames may be lost before one that arrives
  Modes,           \* the modes a stream may be started in
  Calls,           \* the calls the application makes
  MaxFrames,       \* bound: frames of one epoch, over both tuners
  MaxCalls         \* bound: calls the applications make

ASSUME StreamAssumption ==
  /\ Capacity \in Nat \ {0} /\ FrameSamples \in Nat \ {0}
  /\ CallbackSamples \in Nat \ {0} /\ Modulus \in Nat \ {0} /\ Skips \subseteq Nat
  /\ Modes \subseteq {"single", "dual", "master", "slave"}

Tuners == {"A", "B"}
None == [tuner |-> "none"]
Nowhere == [epoch |-> 0, wire |-> "none", at |-> 0]

VARIABLES
  mode, tuner, \* device->mode, device->tuner
  lane,        \* the counters of each tuner, see FreshLane
  queue,       \* stream_queue from stream_callback_head on
  paused,      \* stream_callback_paused
  stopped,     \* stream_callback_stop
  running,     \* the callback thread exists
  active,      \* the frame the callback thread works on (stream_callback_active)
  waiting,     \* the threads that sleep on stream_callback_ready
  producer,    \* the frame daemon_stream_callback is about to queue
  api,         \* where the application's thread is, and in which call
  calls,       \* how many calls it and the master of a slave have made
  wire,        \* external: what the daemon sends
  heard        \* history: the last samples given to each application callback

vars == <<mode, tuner, lane, queue, paused, stopped, running, active, waiting,
          producer, api, calls, wire, heard>>
device == <<mode, tuner, lane>>
thread == <<stopped, running, active>>

FreshLane == [last |-> 0, seqSeen |-> FALSE, sample |-> 0, first |-> TRUE,
              seen |-> FALSE, next |-> 0, pending |-> 0]
Fresh(l) == [FreshLane EXCEPT !.pending = l.pending]

Other(t) == IF t = "A" THEN "B" ELSE "A"
Wires(m) == IF m = "dual" THEN Tuners ELSE {"A"}
Selectable(m) == CASE m = "dual" -> {"both"} [] m = "master" -> {"A"} [] OTHER -> Tuners
Addressed == IF mode = "dual" THEN Tuners ELSE {tuner}
\* The application callback a frame of tuner t goes to.
Stream(t) == IF t = "B" /\ mode = "dual" THEN "B" ELSE "A"

Init ==
  /\ mode \in Modes /\ tuner \in Selectable(mode)
  /\ lane = [t \in Tuners |-> FreshLane]
  /\ queue = <<>> /\ paused = FALSE /\ stopped = FALSE /\ running = FALSE
  /\ active = None /\ waiting = {} /\ producer = None
  /\ api = [pc |-> "idle", call |-> "none"] /\ calls = 0
  /\ wire = [flowing |-> FALSE, epoch |-> 0, sent |-> [t \in Tuners |-> 0]]
  /\ heard = [s \in Tuners |-> [next |-> Nowhere, reset |-> FALSE, gap |-> FALSE]]
-----------------------------------------------------------------------------
(* The condition variable and the queue. *)

Signal ==
  IF waiting = {} THEN waiting' = {}
  ELSE \E w \in waiting : waiting' = waiting \ {w}
Broadcast == waiting' = {}

Queued(q, f) ==
  IF Len(q) = Capacity
  THEN Append(Tail(q), [f EXCEPT !.reset = @ \/ Head(q).reset,
                                 !.changed = @ \/ Head(q).changed])
  ELSE Append(q, f)

queue_stream_callback(f) ==
  IF paused \/ stopped THEN UNCHANGED <<queue, waiting>>
  ELSE queue' = Queued(queue, f) /\ Signal
-----------------------------------------------------------------------------
(* The IQ thread. *)

TunerOf(w) == IF mode = "dual" THEN w ELSE tuner

Gap(l, seq) == l.seqSeen /\ seq # (l.last + 1) % Modulus

Missing(l, seq) ==
  LET distance == (seq - (l.last + 1)) % Modulus
  IN IF Gap(l, seq) /\ 2 * distance < Modulus THEN distance ELSE 0

\* daemon_stream_callback up to queue_stream_callback.  Bound: the first frame a
\* slave is sent after a restart is not lost (a loss of exactly as many frames as
\* came before the restart continues the old numbers).
Arrive(w, skip) ==
  LET t == TunerOf(w)
      l == lane[t]
      seq == wire.sent[w] + 1 + skip
      start == (l.sample + Missing(l, seq % Modulus) * FrameSamples) % Modulus
  IN /\ wire.flowing /\ producer = None /\ w \in Wires(mode)
     /\ seq + wire.sent[Other(w)] <= MaxFrames
     /\ mode = "slave" /\ wire.sent[w] = 0 => skip = 0
     /\ wire' = [wire EXCEPT !.sent[w] = seq]
     /\ lane' = [lane EXCEPT ![t].last = seq % Modulus, ![t].seqSeen = TRUE,
                             ![t].sample = (start + FrameSamples) % Modulus,
                             ![t].pending = IF @ = 0 THEN 0 ELSE @ - 1]
     /\ producer' = [tuner |-> t, samples |-> FrameSamples, first |-> start,
                     reset |-> l.first \/ Gap(l, seq % Modulus),
                     changed |-> l.pending > 0, under |-> <<mode, tuner>>,
                     from |-> [epoch |-> wire.epoch, wire |-> w,
                               at |-> (seq - 1) * FrameSamples]]
     /\ UNCHANGED <<mode, tuner, queue, paused, thread, waiting, api, calls, heard>>

Enqueue ==
  /\ producer # None
  /\ queue_stream_callback(producer)
  /\ lane' = [lane EXCEPT ![producer.tuner].first = FALSE]
  /\ producer' = None
  /\ UNCHANGED <<mode, tuner, paused, thread, api, calls, wire, heard>>

\* External: the master of a shared receiver changes its rate, and the daemon
\* numbers the frames of the slave from one again.
Restart ==
  /\ mode = "slave" /\ wire.flowing /\ calls < MaxCalls /\ calls' = calls + 1
  /\ wire' = [wire EXCEPT !.epoch = @ + 1, !.sent = [t \in Tuners |-> 0]]
  /\ UNCHANGED <<device, queue, paused, thread, waiting, producer, api, heard>>
-----------------------------------------------------------------------------
(* The callback thread. *)

Sleep ==
  /\ running /\ active = None /\ "callback" \notin waiting
  /\ (queue = <<>> \/ paused) /\ ~stopped
  /\ waiting' = waiting \union {"callback"}
  /\ UNCHANGED <<device, queue, paused, thread, producer, api, calls, wire, heard>>

\* Mutant: only the flag of the frame is passed on.
ResetFlagOnly(f) == f.reset
Reset(f) == f.reset \/ ~lane[f.tuner].seen \/ f.first # lane[f.tuner].next

Take ==
  LET f == Head(queue) IN
  /\ running /\ active = None /\ "callback" \notin waiting
  /\ queue # <<>> /\ ~paused /\ ~stopped
  /\ active' = [tuner |-> f.tuner, frame |-> f, reset |-> Reset(f), offset |-> 0]
  /\ queue' = Tail(queue)
  /\ lane' = [lane EXCEPT ![f.tuner].seen = TRUE,
                          ![f.tuner].next = (f.first + f.samples) % Modulus]
  /\ UNCHANGED <<mode, tuner, paused, stopped, running, waiting, producer, api,
                 calls, wire, heard>>

\* A frame without samples is one call, any other a call for each chunk.
Left == IF active.frame.samples = 0 THEN 1 ELSE active.frame.samples - active.offset
Chunk == IF Left > CallbackSamples THEN CallbackSamples ELSE Left

\* Mutant: the thread that waits for the end of a callback is not told.
ReturnedSilently ==
  IF Chunk < Left
  THEN active' = [active EXCEPT !.offset = @ + Chunk] /\ UNCHANGED waiting
  ELSE active' = None /\ UNCHANGED waiting

Returned ==
  IF Chunk < Left
  THEN active' = [active EXCEPT !.offset = @ + Chunk] /\ UNCHANGED waiting
  ELSE active' = None /\ Broadcast

\* The application is called, and returns.
CallApplication ==
  LET f == active.frame
      s == Stream(f.tuner)
      marked == (active.offset = 0 /\ active.reset) \/ heard[s].reset
      at == [f.from EXCEPT !.at = @ + active.offset]
  IN /\ active # None
     /\ Returned
     /\ heard' = [heard EXCEPT ![s] =
          IF f.samples = 0 THEN [@ EXCEPT !.reset = marked]
          ELSE [next |-> [at EXCEPT !.at = @ + Chunk], reset |-> FALSE,
                gap |-> ~marked /\ at # @.next]]
     /\ UNCHANGED <<device, queue, paused, stopped, running, producer, api, calls, wire>>

Exit ==
  /\ running /\ stopped /\ active = None /\ "callback" \notin waiting
  /\ running' = FALSE
  /\ UNCHANGED <<device, queue, paused, stopped, active, waiting, producer, api, calls,
                 wire, heard>>
-----------------------------------------------------------------------------
(* The application's thread: starting and stopping. *)

Begin(call, pc) ==
  /\ api.pc = "idle" /\ call \in Calls /\ calls < MaxCalls
  /\ api' = [pc |-> pc, call |-> call] /\ calls' = calls + 1
Goto(pc) == api' = [api EXCEPT !.pc = pc] /\ calls' = calls

\* Init: the thread with an empty queue, the counters of both tuners, then the
\* daemon's stream.  Change flags that no frame has carried are kept.
Start ==
  /\ ~running /\ Begin("start", "idle")
  /\ queue' = <<>> /\ paused' = FALSE /\ stopped' = FALSE /\ running' = TRUE
  /\ lane' = [t \in Tuners |-> Fresh(lane[t])]
  /\ wire' = [flowing |-> TRUE, epoch |-> wire.epoch + 1, sent |-> [t \in Tuners |-> 0]]
  /\ UNCHANGED <<mode, tuner, active, waiting, producer, heard>>

\* Uninit: the backend has been stopped and its IQ thread joined or drained.
Stop ==
  /\ running /\ producer = None /\ Begin("stop", "stopping")
  /\ wire' = [wire EXCEPT !.flowing = FALSE]
  /\ stopped' = TRUE /\ queue' = <<>> /\ Signal
  /\ UNCHANGED <<device, paused, running, active, producer, heard>>

Joined ==
  /\ api.pc = "stopping" /\ ~running /\ Goto("idle")
  /\ UNCHANGED <<device, queue, paused, thread, waiting, producer, wire, heard>>
-----------------------------------------------------------------------------
(* The application's thread: updates. *)

\* The daemon has applied an update: the next frame of the tuner carries the flag.
Update(t) ==
  /\ running /\ Begin("update", "idle") /\ t \in Addressed
  /\ lane' = [lane EXCEPT ![t].pending = @ + 1]
  /\ UNCHANGED <<mode, tuner, queue, paused, thread, waiting, producer, wire, heard>>

\* The daemon has queued the update for a recovery: emit_update_ack reads the
\* sample number and queues a frame without samples.
UpdateQueued(t) ==
  /\ running /\ api.pc = "idle" /\ "update" \in Calls /\ calls < MaxCalls
  /\ t \in Addressed
  /\ api' = [pc |-> "ack", call |-> "update", tuner |-> t, sample |-> lane[t].sample]
  /\ calls' = calls + 1
  /\ UNCHANGED <<device, queue, paused, thread, waiting, producer, wire, heard>>

emit_update_ack ==
  /\ api.pc = "ack"
  /\ queue_stream_callback([tuner |-> api.tuner, samples |-> 0, first |-> api.sample,
                            reset |-> FALSE, changed |-> TRUE,
                            under |-> <<mode, tuner>>, from |-> Nowhere])
  /\ api' = [pc |-> "idle", call |-> "update"]
  /\ UNCHANGED <<device, paused, thread, producer, calls, wire, heard>>
-----------------------------------------------------------------------------
(* The application's thread: swaps.  *)

Swaps == {"swap_tuner", "swap_mode", "swap_rate"}
Allowed(call) == CASE call = "swap_tuner" -> mode = "single"
                   [] call = "swap_mode" -> mode \in {"single", "dual"}
                   [] call = "swap_rate" -> mode = "master"

Pause(call) ==
  /\ running /\ call \in Swaps /\ Allowed(call) /\ Begin(call, "pausing")
  /\ paused' = TRUE
  /\ UNCHANGED <<device, queue, thread, waiting, producer, wire, heard>>

PauseSleep ==
  /\ api.pc = "pausing" /\ "api" \notin waiting /\ active # None
  /\ waiting' = waiting \union {"api"}
  /\ UNCHANGED <<device, queue, paused, thread, producer, api, calls, wire, heard>>

\* Mutant: the end of a callback that runs is not awaited.
PausedAtOnce ==
  /\ api.pc = "pausing" /\ "api" \notin waiting
  /\ queue' = <<>> /\ Goto("requesting")
  /\ UNCHANGED <<device, paused, thread, waiting, producer, wire, heard>>

Paused ==
  /\ api.pc = "pausing" /\ "api" \notin waiting /\ active = None
  /\ queue' = <<>> /\ Goto("requesting")
  /\ UNCHANGED <<device, paused, thread, waiting, producer, wire, heard>>

\* The daemon refuses, or the request is lost: the stream goes on as before.
Refused ==
  /\ api.pc = "requesting" /\ Goto("resume")
  /\ UNCHANGED <<device, queue, paused, thread, waiting, producer, wire, heard>>

\* Mutant: the response overtakes a frame that was received before it.
ServedUndrained ==
  /\ api.pc = "requesting" /\ Goto("install")
  /\ wire' = [flowing |-> wire.flowing /\ api.call = "swap_rate", epoch |-> wire.epoch + 1,
              sent |-> [t \in Tuners |-> 0]]
  /\ UNCHANGED <<device, queue, paused, thread, waiting, producer, heard>>

\* The response comes after the frames that were sent before it.  After a tuner
\* or mode swap the daemon is quiet until it is asked to resume; after a rate
\* swap it sends at once.
Served ==
  /\ api.pc = "requesting" /\ producer = None /\ Goto("install")
  /\ wire' = [flowing |-> wire.flowing /\ api.call = "swap_rate", epoch |-> wire.epoch + 1,
              sent |-> [t \in Tuners |-> 0]]
  /\ UNCHANGED <<device, queue, paused, thread, waiting, producer, heard>>

Renumbered(l) == [l EXCEPT !.first = TRUE, !.seqSeen = FALSE, !.sample = 0]
Restarted(l) == [Renumbered(l) EXCEPT !.seen = FALSE]

InstallTuner ==
  /\ api.pc = "install" /\ api.call = "swap_tuner" /\ Goto("resume_mode")
  /\ tuner' = Other(tuner) /\ lane' = [lane EXCEPT ![tuner'] = Restarted(@)]
  /\ queue' = <<>> /\ paused' = FALSE /\ Signal
  /\ UNCHANGED <<mode, thread, producer, wire, heard>>

InstallMode ==
  /\ api.pc = "install" /\ api.call = "swap_mode" /\ Goto("resume_mode")
  /\ mode' = (IF mode = "dual" THEN "single" ELSE "dual")
  /\ tuner' \in Selectable(mode')
  /\ lane' = [t \in Tuners |-> [Restarted(lane[t]) EXCEPT !.last = 0]]
  /\ queue' = <<>> /\ paused' = FALSE /\ Signal
  /\ UNCHANGED <<thread, producer, wire, heard>>

InstallRate ==
  /\ api.pc = "install" /\ api.call = "swap_rate" /\ Goto("resume")
  /\ lane' = [lane EXCEPT !["A"] = Renumbered(@)]
  /\ UNCHANGED <<mode, tuner, queue, paused, thread, waiting, producer, wire, heard>>

Resume ==
  /\ api.pc = "resume" /\ Goto("idle")
  /\ paused' = FALSE /\ Signal
  /\ UNCHANGED <<device, queue, thread, producer, wire, heard>>

\* RESUME_MODE: frames may arrive before its response does.  If it fails the
\* stream stays quiet.
ResumeMode(ok) ==
  /\ api.pc = "resume_mode" /\ Goto("idle")
  /\ wire' = [wire EXCEPT !.flowing = ok]
  /\ UNCHANGED <<device, queue, paused, thread, waiting, producer, heard>>
-----------------------------------------------------------------------------
CallbackThread == Sleep \/ Take \/ CallApplication \/ Exit
IQThread == Enqueue \/ \E w \in Tuners, k \in Skips : Arrive(w, k)
ApiReturns == \/ Joined \/ emit_update_ack \/ PauseSleep \/ Paused \/ Refused \/ Served
              \/ InstallTuner \/ InstallMode \/ InstallRate \/ Resume
              \/ \E ok \in BOOLEAN : ResumeMode(ok)
ApiCalls == \/ Start \/ Stop \/ \E call \in Swaps : Pause(call)
            \/ \E t \in Tuners : Update(t) \/ UpdateQueued(t)

Next == CallbackThread \/ IQThread \/ Restart \/ ApiReturns \/ ApiCalls

\* Threads run, application callbacks return and the daemon answers or times
\* out; nothing else has to happen.
Fairness == /\ WF_vars(CallbackThread) /\ WF_vars(Enqueue) /\ WF_vars(ApiReturns)

Spec == Init /\ [][Next]_vars /\ Fairness
-----------------------------------------------------------------------------
(* Properties. *)

Frame == [tuner : Tuners, samples : {0, FrameSamples}, first : 0..(Modulus - 1),
          reset : BOOLEAN, changed : BOOLEAN,
          under : {"single", "dual", "master", "slave"} \X (Tuners \union {"both"}),
          from : [epoch : Nat, wire : Tuners \union {"none"}, at : Nat]]

\* The variables hold what the code's fields can hold, the queue never more than
\* its capacity.
TypeOK ==
  /\ mode \in {"single", "dual", "master", "slave"} /\ tuner \in Selectable(mode)
  /\ queue \in Seq(Frame) /\ Len(queue) <= Capacity
  /\ producer \in Frame \union {None}
  /\ waiting \subseteq {"callback", "api"}
  /\ \A t \in Tuners : lane[t].sample \in 0..(Modulus - 1)
  /\ running \/ active = None

\* Whenever samples handed to a callback do not continue the ones before, in the
\* order the daemon sent them, a callback since then had its reset flag set:
\* after lost frames, a full queue, a pause, a tuner or mode swap and a restart
\* (daemon_stream_callback, queue_stream_callback, stream_callback_thread_main).
GapsMarked == mode # "master" => \A s \in Tuners : ~heard[s].gap

\* The same for the master of a shared receiver, whose rate swap restarts the
\* numbers (sdrplay_api_SwapRspDuoDualTunerModeSampleRate).
RateGapsMarked == mode = "master" => \A s \in Tuners : ~heard[s].gap

\* A frame is handed to the application under the tuner and mode it was received
\* under (queue_stream_callback: "must not be interpreted using the new
\* callback/tuner mapping").
MappingKept == active # None => active.frame.under = <<mode, tuner>>

\* The application is not called while its own thread is between the pause and
\* the resume of the callbacks (pause_stream_callbacks).
PausedIsSilent == api.pc \in {"requesting", "install", "resume"} => active = None

\* A swap gets past pause_stream_callbacks, whatever the callback thread does, and
\* stop_stream_callback_thread joins it: no signal is lost on the condition variable
\* that the three threads share.
WaitsReturn ==
  /\ (api.pc = "pausing") ~> (api.pc # "pausing")
  /\ (api.pc = "stopping") ~> (api.pc = "idle")
=============================================================================
