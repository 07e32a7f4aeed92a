------------------------------- MODULE Backend -------------------------------
(***************************************************************************)
(* The library's connection to the daemon (compat/daemon_backend.c on top  *)
(* of src/client_posix.c).                                                 *)
(*                                                                         *)
(* Responses, samples and events share one socket.  Before the stream      *)
(* starts the caller reads the socket itself (direct_request); then a      *)
(* reader thread does, hands samples to an IQ thread through a bounded     *)
(* queue of slots, and passes a response to the caller that waits for it   *)
(* (async_request).  request_lock admits one caller at a time: there is    *)
(* one here.  A shared role (duo) starts its reader before DUO_START.      *)
(*                                                                         *)
(* The daemon is external: it serves requests in order, sends samples and  *)
(* events on its own, may be slow and may die.  A frame is the number of   *)
(* requests the daemon had served when it was sent.                        *)
(***************************************************************************)
EXTENDS Integers, Sequences

CONSTANTS
  Slots,        \* OPENRSP_DAEMON_IQ_QUEUE_CAPACITY
  MaxRequests,  \* bound: requests of this connection
  MaxSends      \* bound: frames and events the daemon sends

ASSUME BackendAssumption ==
  /\ Slots \in Nat /\ Slots > 1 /\ MaxRequests \in Nat /\ MaxSends \in Nat

VARIABLES
  duo,          \* backend->duo_role is set
  life,         \* new, open, running (reader_started), shut, stopping, gone
  call,         \* the request in progress
  next,         \* next_sequence
  answer,       \* waiting_sequence, and waiting_status once response_received
  result,       \* what the last request returned
  reader,       \* where the reader thread is
  held,         \* the message the reader thread works on
  failed,       \* reader_failed
  reported,     \* how often failure_callback was called
  queue,        \* iq_queue
  active,       \* the frame the IQ thread hands out, or -1 (iq_active)
  worker,       \* the IQ thread: none, running
  iqStop,       \* iq_stop
  waiting,      \* the threads that sleep on iq_ready
  alive, toDaemon, toClient, served, sent, streaming, \* external: daemon and socket
  visible       \* history: requests served before the last response given to a caller

vars == <<duo, life, call, next, answer, result, reader, held, failed, reported, queue,
          active, worker, iqStop, waiting, alive, toDaemon, toClient, served, sent,
          streaming, visible>>
daemon == <<alive, served, sent, streaming>>
threads == <<reader, held, failed, reported, queue, active, worker, iqStop, waiting>>
caller == <<duo, life, call, next, answer, result, visible>>

NoCall == [kind |-> "idle", seq |-> 0, cmd |-> "none"]
NoMessage == [type |-> "none", seq |-> 0, status |-> "none", epoch |-> 0]
NoFrame == -1

Init ==
  /\ duo \in BOOLEAN /\ life = "new" /\ call = NoCall /\ next = 1
  /\ answer = [seq |-> 0, status |-> "none"] /\ result = "none" /\ reader = "none" /\ held = NoMessage
  /\ failed = FALSE /\ reported = 0 /\ queue = <<>> /\ active = NoFrame
  /\ worker = "none" /\ iqStop = FALSE /\ waiting = {}
  /\ alive = TRUE /\ toDaemon = <<>> /\ toClient = <<>> /\ served = 0
  /\ sent = 0 /\ streaming = FALSE /\ visible = 0
-----------------------------------------------------------------------------
(* The daemon and the socket (external). *)

Message(t, q, s) == [type |-> t, seq |-> q, status |-> s, epoch |-> served]

\* A request is served and answered; the answer to START precedes the samples.
Serve(status) ==
  LET r == Head(toDaemon) IN
  /\ alive /\ toDaemon # <<>>
  /\ toDaemon' = Tail(toDaemon) /\ served' = r.seq
  /\ toClient' = Append(toClient, [Message("response", r.seq, status) EXCEPT !.epoch = r.seq])
  /\ streaming' = IF status = "ok" THEN r.cmd = "start" \/ (streaming /\ r.cmd # "release")
                  ELSE streaming
  /\ UNCHANGED <<alive, sent, threads, caller>>

SendFrame ==
  /\ alive /\ streaming /\ sent < MaxSends
  /\ toClient' = Append(toClient, Message("iq", 0, "none"))
  /\ sent' = sent + 1
  /\ UNCHANGED <<alive, served, streaming, toDaemon, threads, caller>>

\* A removal, or a change of the other client of a shared receiver.
SendEvent ==
  /\ alive /\ served > 0 /\ sent < MaxSends
  /\ toClient' = Append(toClient, Message("event", 0, "none"))
  /\ sent' = sent + 1
  /\ UNCHANGED <<alive, served, streaming, toDaemon, threads, caller>>

Die ==
  /\ life # "new" /\ alive /\ alive' = FALSE /\ toDaemon' = <<>> /\ streaming' = FALSE
  /\ UNCHANGED <<served, sent, toClient, threads, caller>>
-----------------------------------------------------------------------------
(* Requests of the caller. *)

CanCall == call = NoCall /\ next <= MaxRequests

\* openrsp_client_send: on a dead connection it fails, or the bytes are lost.
Send(kind, cmd) ==
  /\ next' = next + 1
  /\ \/ /\ call' = [kind |-> kind, seq |-> next, cmd |-> cmd] /\ result' = "none"
        /\ toDaemon' = IF alive THEN Append(toDaemon, [seq |-> next, cmd |-> cmd])
                       ELSE toDaemon
     \/ /\ ~alive
        /\ call' = [kind |-> "failed", seq |-> next, cmd |-> cmd] /\ result' = "none"
        /\ UNCHANGED toDaemon

\* The request is over; what its caller does next depends on the command.
Return(ok) ==
  /\ result' = IF ok THEN "ok" ELSE "failed"
  /\ call' = IF call.cmd \in {"configure", "request"} THEN NoCall
             ELSE [kind |-> "over", seq |-> 0, cmd |-> call.cmd]

SendFailed ==
  /\ call.kind = "failed" /\ Return(FALSE)
  /\ UNCHANGED <<duo, life, next, answer, visible, threads, toDaemon, toClient, daemon>>

\* openrsp_daemon_backend_open and _open_duo: connect, then ACQUIRE.
Open ==
  /\ life = "new" /\ CanCall /\ alive /\ life' = "open"
  /\ Send("direct", "acquire")
  /\ UNCHANGED <<duo, answer, visible, threads, toClient, daemon>>

\* openrsp_daemon_backend_configure, _configure_dual, and _configure_duo before
\* the reader exists.
Configure ==
  /\ life = "open" /\ CanCall
  /\ Send("direct", "configure")
  /\ UNCHANGED <<duo, life, answer, visible, threads, toClient, daemon>>

\* openrsp_daemon_backend_start asks before it starts its threads.
Start ==
  /\ life = "open" /\ CanCall /\ ~duo /\ result = "ok"
  /\ Send("direct", "start")
  /\ UNCHANGED <<duo, life, answer, visible, threads, toClient, daemon>>

\* receive_response: the next message has to be the response.
Matches(m) == m.type = "response" /\ m.seq = call.seq

DirectReturn ==
  LET m == Head(toClient)
      ok == Matches(m) /\ m.status = "ok"
  IN /\ call.kind = "direct" /\ toClient # <<>>
     /\ toClient' = Tail(toClient) /\ Return(ok)
     /\ visible' = IF ok THEN m.epoch ELSE visible
     /\ UNCHANGED <<duo, life, next, answer, threads, toDaemon, daemon>>

\* The socket times out after five seconds, or the daemon is gone.
DirectTimeout ==
  /\ call.kind = "direct" /\ toClient = <<>> /\ Return(FALSE)
  /\ UNCHANGED <<duo, life, next, answer, visible, threads, toDaemon, toClient, daemon>>

\* async_request: the update, swap, resume, stop and shared configure requests.
\* waiting_sequence is set before the request is sent.
Async(cmd) ==
  /\ Send("async", cmd)
  /\ answer' = [seq |-> next, status |-> "none"]

Request ==
  /\ life = "running" /\ CanCall /\ Async("request")
  /\ UNCHANGED <<duo, life, visible, threads, toClient, daemon>>

AsyncReturn ==
  /\ call.kind = "async" /\ (answer.status # "none" \/ failed)
  /\ Return(answer.status = "ok")
  /\ UNCHANGED <<duo, life, next, answer, visible, threads, toDaemon, toClient, daemon>>

AsyncTimeout ==
  /\ call.kind = "async" /\ Return(FALSE)
  /\ UNCHANGED <<duo, life, next, answer, visible, threads, toDaemon, toClient, daemon>>

\* start_iq_worker and the reader's pthread_create.
StartThreads ==
  /\ life' = "running" /\ reader' = "reading" /\ worker' = "running"
  /\ UNCHANGED <<held, failed, reported, queue, active, iqStop, waiting>>

\* START succeeded: the threads start, or one cannot be created and STOP follows.
Started ==
  /\ ~duo /\ call.kind = "over" /\ call.cmd = "start" /\ result = "ok"
  /\ \/ /\ StartThreads /\ call' = NoCall
        /\ UNCHANGED <<next, toDaemon, result>>
     \/ /\ Send("direct", "stop") /\ UNCHANGED <<life, threads>>
  /\ UNCHANGED <<duo, answer, visible, toClient, daemon>>

\* openrsp_daemon_backend_start_duo: the reader first, then DUO_START.
StartDuo ==
  /\ life \in {"open", "running"} /\ CanCall /\ duo /\ result = "ok" /\ Async("start")
  /\ IF life = "open" THEN StartThreads ELSE UNCHANGED <<life, threads>>
  /\ UNCHANGED <<duo, visible, toClient, daemon>>

\* ACQUIRE succeeded, or START of a shared role ended.
Carry ==
  /\ call.kind = "over" /\ ((call.cmd = "acquire" /\ result = "ok") \/ (call.cmd = "start" /\ duo))
  /\ call' = NoCall
  /\ UNCHANGED <<duo, life, next, answer, result, visible, threads, toDaemon, toClient, daemon>>
-----------------------------------------------------------------------------
(* openrsp_daemon_backend_close.  A failed ACQUIRE closes by itself; a client
   of its own is closed when its START failed. *)

MustClose ==
  /\ call.kind = "over"
  /\ \/ call.cmd = "stop"
     \/ call.cmd = "acquire" /\ result = "failed"
     \/ call.cmd = "start" /\ result = "failed" /\ ~duo

Close ==
  /\ life \in {"open", "running"} /\ (call = NoCall \/ MustClose)
  /\ IF life = "running" THEN Async("release")
     ELSE Send("direct", "release") /\ UNCHANGED answer
  /\ UNCHANGED <<duo, life, visible, threads, toClient, daemon>>

\* closing is set, then the socket is shut down.
Shutdown ==
  /\ call.kind = "over" /\ call.cmd = "release"
  /\ life' = IF life = "running" THEN "shut" ELSE "gone"
  /\ call' = NoCall /\ alive' = FALSE /\ toDaemon' = <<>> /\ toClient' = <<>>
  /\ streaming' = FALSE
  /\ UNCHANGED <<duo, next, answer, result, visible, threads, served, sent>>

JoinedSilently ==
  /\ life = "shut" /\ reader = "exited" /\ life' = "stopping"
  /\ iqStop' = TRUE /\ queue' = <<>> /\ UNCHANGED waiting
  /\ UNCHANGED <<duo, call, next, answer, result, visible, reader, held, failed, reported,
                 active, worker, toDaemon, toClient, daemon>>

\* The reader is joined, then stop_iq_worker.
Joined ==
  /\ life = "shut" /\ reader = "exited" /\ life' = "stopping"
  /\ iqStop' = TRUE /\ queue' = <<>> /\ waiting' = waiting \ {"iq"}
  /\ UNCHANGED <<duo, call, next, answer, result, visible, reader, held, failed, reported,
                 active, worker, toDaemon, toClient, daemon>>

Closed ==
  /\ life = "stopping" /\ worker = "none" /\ life' = "gone"
  /\ UNCHANGED <<duo, call, next, answer, result, visible, threads, toDaemon, toClient, daemon>>
-----------------------------------------------------------------------------
(* The reader thread. *)

Full == Len(queue) + (IF active = NoFrame THEN 0 ELSE 1) = Slots

\* The end of queue_iq: reuse the oldest queued slot when none is free, append,
\* signal.  The reader is the only other thread that sleeps on iq_ready.
Queued(f) == Append(IF Full THEN Tail(queue) ELSE queue, f)

Enqueue(f) ==
  /\ queue' = Queued(f) /\ waiting' = waiting \ {"iq", "reader"}
  /\ reader' = "reading" /\ held' = NoMessage

\* queue_iq: a full queue makes the reader wait once, for twenty milliseconds.
ReadFrame ==
  LET m == Head(toClient) IN
  /\ reader = "reading" /\ toClient # <<>> /\ m.type = "iq" /\ toClient' = Tail(toClient)
  /\ \/ ~Full /\ Enqueue(m.epoch)
     \/ /\ Full /\ reader' = "full" /\ held' = m /\ waiting' = waiting \union {"reader"}
        /\ UNCHANGED queue
  /\ UNCHANGED <<failed, reported, active, worker, iqStop, caller, toDaemon, daemon>>

\* Woken or timed out.
FullOver ==
  /\ reader = "full" /\ Enqueue(held.epoch)
  /\ UNCHANGED <<failed, reported, active, worker, iqStop, caller, toDaemon, toClient, daemon>>

\* A status or shared-receiver event goes to its callback.
ReadEvent ==
  /\ reader = "reading" /\ toClient # <<>> /\ Head(toClient).type = "event"
  /\ toClient' = Tail(toClient)
  /\ UNCHANGED <<threads, caller, toDaemon, daemon>>

ReadResponse ==
  /\ reader = "reading" /\ toClient # <<>> /\ Head(toClient).type = "response"
  /\ toClient' = Tail(toClient) /\ held' = Head(toClient) /\ reader' = "drain"
  /\ UNCHANGED <<failed, reported, queue, active, worker, iqStop, waiting, caller, toDaemon,
                 daemon>>

DrainedOfQueue == queue = <<>>

\* drain_iq_before_response
Drained == queue = <<>> /\ active = NoFrame

DrainSleep ==
  /\ reader = "drain" /\ "reader" \notin waiting /\ ~Drained /\ ~iqStop
  /\ waiting' = waiting \union {"reader"}
  /\ UNCHANGED <<reader, held, failed, reported, queue, active, worker, iqStop, caller,
                 toDaemon, toClient, daemon>>

AcceptedAlways(m) == m.type = "response"

\* The response is for the request that waits, or it is late and ignored.
Accepted(m) == m.seq = answer.seq

Respond ==
  /\ reader = "drain" /\ "reader" \notin waiting /\ (Drained \/ iqStop)
  /\ answer' = IF Accepted(held) THEN [answer EXCEPT !.status = held.status] ELSE answer
  /\ visible' = IF Accepted(held) /\ held.status = "ok" THEN held.epoch ELSE visible
  /\ reader' = "reading" /\ held' = NoMessage
  /\ UNCHANGED <<failed, reported, queue, active, worker, iqStop, waiting, duo, life, call,
                 next, result, toDaemon, toClient, daemon>>

ReadFailedAsTimeout ==
  /\ reader = "reading" /\ life = "shut" /\ toClient = <<>>
  /\ reader' = "failing" /\ failed' = TRUE
  /\ UNCHANGED <<held, reported, queue, active, worker, iqStop, waiting, caller, toDaemon,
                 toClient, daemon>>

\* openrsp_client_receive fails: reader_failed is set and the caller woken.
ReadFailed ==
  /\ reader = "reading" /\ ~alive /\ toClient = <<>>
  /\ reader' = "failing" /\ failed' = TRUE
  /\ UNCHANGED <<held, reported, queue, active, worker, iqStop, waiting, caller, toDaemon,
                 toClient, daemon>>

\* failure_callback, unless the connection is being closed.
ReaderExit ==
  /\ reader = "failing" /\ reader' = "exited"
  /\ reported' = IF life = "running" THEN reported + 1 ELSE reported
  /\ UNCHANGED <<held, failed, queue, active, worker, iqStop, waiting, caller, toDaemon,
                 toClient, daemon>>
-----------------------------------------------------------------------------
(* The IQ thread (iq_main). *)

IqSleep ==
  /\ worker = "running" /\ "iq" \notin waiting /\ active = NoFrame /\ queue = <<>> /\ ~iqStop
  /\ waiting' = waiting \union {"iq"}
  /\ UNCHANGED <<reader, held, failed, reported, queue, active, worker, iqStop, caller,
                 toDaemon, toClient, daemon>>

\* A frame is taken and handed to the stream callback without the lock.
IqTake ==
  /\ worker = "running" /\ "iq" \notin waiting /\ active = NoFrame /\ queue # <<>> /\ ~iqStop
  /\ active' = Head(queue) /\ queue' = Tail(queue)
  /\ UNCHANGED <<reader, held, failed, reported, worker, iqStop, waiting, caller, toDaemon,
                 toClient, daemon>>

IqDone ==
  /\ worker = "running" /\ active # NoFrame
  /\ active' = NoFrame /\ waiting' = {}
  /\ UNCHANGED <<reader, held, failed, reported, queue, worker, iqStop, caller, toDaemon,
                 toClient, daemon>>

IqExit ==
  /\ worker = "running" /\ "iq" \notin waiting /\ active = NoFrame /\ iqStop /\ worker' = "none"
  /\ UNCHANGED <<reader, held, failed, reported, queue, active, iqStop, waiting, caller,
                 toDaemon, toClient, daemon>>
-----------------------------------------------------------------------------
Daemon == (\E s \in {"ok", "refused"} : Serve(s)) \/ SendFrame \/ SendEvent \/ Die
Calling == Open \/ Configure \/ Start \/ StartDuo \/ Request \/ Close
Returning == SendFailed \/ DirectReturn \/ DirectTimeout \/ AsyncReturn \/ AsyncTimeout
Following == Started \/ Carry \/ Shutdown \/ Joined \/ Closed
Reading == ReadFrame \/ FullOver \/ ReadEvent \/ ReadResponse \/ DrainSleep \/ Respond
           \/ ReadFailed \/ ReaderExit
Delivering == IqSleep \/ IqTake \/ IqDone \/ IqExit

Next == Daemon \/ Calling \/ Returning \/ Following \/ Reading \/ Delivering

\* Every thread of the library runs; a request returns after five seconds at
\* the latest.  The daemon owes nothing.
Fairness == WF_vars(Returning) /\ WF_vars(Following) /\ WF_vars(Reading) /\ WF_vars(Delivering)
            /\ WF_vars(Close /\ MustClose)

Spec == Init /\ [][Next]_vars /\ Fairness
-----------------------------------------------------------------------------
TypeOK ==
  /\ duo \in BOOLEAN /\ life \in {"new", "open", "running", "shut", "stopping", "gone"}
  /\ call.kind \in {"idle", "direct", "async", "failed", "over"}
  /\ next \in 1..(MaxRequests + 3) /\ answer.status \in {"none", "ok", "refused"}
  /\ result \in {"none", "ok", "failed"}
  /\ reader \in {"none", "reading", "full", "drain", "failing", "exited"}
  /\ Len(queue) + (IF active = NoFrame THEN 0 ELSE 1) <= Slots
  /\ waiting \subseteq {"iq", "reader"} /\ visible \in Nat

\* Requests seen from outside: the daemon performs each at most once and in
\* order, and async_request and direct_request report success only for the
\* request they sent, never for an earlier one whose response came late.
Calls == INSTANCE RemoteCall WITH
  Ids <- 1..(MaxRequests + 2), issued <- 1..(next - 1), performed <- 1..served,
  current <- IF call.kind \in {"direct", "async", "failed"} THEN call.seq ELSE 0
ImplementsCalls == Calls!Spec

\* Once a response is visible to its caller, the stream callback gets no sample
\* sent before it ("an update response cannot become visible while IQ frames
\* that preceded it on the wire still belong to the old configuration epoch").
EpochOrder == \A f \in {active} \union {queue[i] : i \in DOMAIN queue} :
                f # NoFrame => f >= visible

\* A connection that breaks while a stream runs is reported once through
\* failure_callback, unless the library closes it first.
FailureReported == (life = "running" /\ ~alive) ~> (reported = 1 \/ life # "running")

\* openrsp_daemon_backend_close returns: the reader and the IQ thread always
\* come to be joined, whatever they were doing.
CloseReturns == (call.cmd = "release") ~> (life = "gone")

\* The message the first DUO_CONFIGURE of a shared role takes from the socket is
\* its response ("an unsolicited mode event cannot be mistaken for the command
\* response"): openrsp_daemon_backend_configure_duo has no reader yet.
NotMistaken ==
  [][DirectReturn /\ duo /\ call.cmd = "configure" => Head(toClient).type = "response"]_vars
=============================================================================
