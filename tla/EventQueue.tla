------------------------------ MODULE EventQueue ------------------------------
(***************************************************************************)
(* The event queue of the compatibility library and the overload handshake *)
(* on top of it (compat/sdrplay_api_compat.c).                             *)
(*                                                                         *)
(* Any thread may post an event; one event thread dispatches them to the   *)
(* application.  The IQ thread reports a change of the overload state and  *)
(* then waits for its acknowledgement, an Update that the application      *)
(* makes from its event callback; the acknowledgement reports the next     *)
(* change.  Uninit waits until the queue is idle before it forgets the     *)
(* application's callbacks, Close ends the event thread.                   *)
(*                                                                         *)
(* An event is its kind; a step of the overload handshake is one atomic    *)
(* operation of the code.  One tuner: the two have separate state.         *)
(***************************************************************************)
EXTENDS Integers, Sequences

CONSTANTS
  Capacity,   \* OPENRSP_EVENT_QUEUE_CAPACITY
  Posts,      \* the kinds of event the library's threads post by themselves
  MaxPosts    \* bound: events posted, and changes of the overload state

Failures == {"DeviceRemoved", "DeviceFailure"}
Overloads == {"Detected", "Corrected"}
Kinds == Failures \union Overloads \union {"GainChange", "RspDuoModeChange"}

ASSUME EventAssumption ==
  Capacity \in Nat \ {0} /\ MaxPosts \in Nat /\ Posts \subseteq Kinds \ Overloads

VARIABLES
  started,     \* event_thread_started
  stop,        \* event_stop
  queue,       \* event_queue from event_head on
  dispatching, \* the event the event thread has taken, or "none"
  called,      \* whether it found a callback for it
  waiting,     \* threads that sleep: "thread" on event_ready, "api" on event_idle
  api,         \* where the application's thread is
  shared,      \* device->duo_role is set: Uninit leaves the backend's reader running
  stream,      \* the backend's threads run, and post events
  callbacks,   \* device->callbacks are set
  state, pending, reported,  \* overload_state, _event_pending, _reported_state
  emit,        \* where each thread is in emit_overload_event, and with which state
  posts,       \* how many events were posted
  told         \* history: whether the application is owed the news of a failure

vars == <<started, stop, queue, dispatching, called, waiting, api, shared, stream,
          callbacks, state, pending, reported, emit, posts, told>>
overload == <<state, pending, reported, emit>>
lifecycle == <<started, stop, api, shared, stream, callbacks>>

Idle == [pc |-> "idle", value |-> FALSE]
Event(over) == IF over THEN "Detected" ELSE "Corrected"

Init ==
  /\ started = FALSE /\ stop = FALSE /\ queue = <<>> /\ dispatching = "none"
  /\ called = FALSE /\ waiting = {} /\ api = "closed" /\ stream = FALSE
  /\ shared = FALSE
  /\ callbacks = FALSE /\ state = FALSE /\ pending = FALSE /\ reported = FALSE
  /\ emit = [p \in {"iq", "event"} |-> Idle] /\ posts = 0 /\ told = "none"
-----------------------------------------------------------------------------
(* Posting. *)

\* Mutant: a full queue refuses every event.
AcceptsWhenEmpty(e) == started /\ ~stop /\ Len(queue) < Capacity
Accepts(e) == started /\ ~stop /\ (Len(queue) < Capacity \/ e \in Failures)

Queued(e) == Append(IF Len(queue) = Capacity THEN Tail(queue) ELSE queue, e)

queue_api_event(e) ==
  IF Accepts(e) THEN queue' = Queued(e) /\ waiting' = waiting \ {"thread"}
  ELSE UNCHANGED <<queue, waiting>>

\* daemon_failure_callback, daemon_status_callback, daemon_duo_callback and the
\* gain changes of the AGC thread.
Post(e) ==
  /\ stream /\ posts < MaxPosts /\ e \in Posts
  /\ queue_api_event(e) /\ posts' = posts + 1
  /\ told' = IF e \in Failures /\ callbacks /\ ~shared THEN "owed" ELSE told
  /\ UNCHANGED <<lifecycle, dispatching, called, overload>>
-----------------------------------------------------------------------------
(* The overload handshake. *)

\* A frame of daemon_stream_callback finds the other overload state.
Overload ==
  /\ api = "streaming" /\ emit["iq"].pc = "idle" /\ posts < MaxPosts /\ posts' = posts + 1
  /\ state' = ~state
  /\ IF pending THEN UNCHANGED <<pending, emit>>
     ELSE pending' = TRUE /\ emit' = [emit EXCEPT !["iq"] = [pc |-> "queue", value |-> ~state]]
  /\ UNCHANGED <<lifecycle, queue, dispatching, called, waiting, reported, told>>

\* emit_overload_event: the event, then two stores.
EmitQueue(p) ==
  LET e == Event(emit[p].value) IN
  /\ emit[p].pc = "queue"
  /\ queue_api_event(e)
  /\ IF Accepts(e) THEN emit' = [emit EXCEPT ![p].pc = "reported"] /\ UNCHANGED pending
     ELSE emit' = [emit EXCEPT ![p] = Idle] /\ pending' = FALSE
  /\ UNCHANGED <<lifecycle, dispatching, called, state, reported, posts, told>>

EmitReported(p) ==
  /\ emit[p].pc = "reported"
  /\ reported' = emit[p].value /\ emit' = [emit EXCEPT ![p].pc = "pending"]
  /\ UNCHANGED <<lifecycle, queue, dispatching, called, waiting, state, pending, posts, told>>

EmitPending(p) ==
  /\ emit[p].pc = "pending"
  /\ pending' = TRUE /\ emit' = [emit EXCEPT ![p] = Idle]
  /\ UNCHANGED <<lifecycle, queue, dispatching, called, waiting, state, reported, posts, told>>

\* Update with OverloadMsgAck, from the event callback.
Acknowledge ==
  /\ emit["event"].pc = "ack"
  /\ pending' = FALSE /\ emit' = [emit EXCEPT !["event"].pc = "check"]
  /\ UNCHANGED <<lifecycle, queue, dispatching, called, waiting, state, reported, posts, told>>

AcknowledgeNext ==
  /\ emit["event"].pc = "check"
  /\ emit' = [emit EXCEPT !["event"] =
                IF state # reported THEN [pc |-> "queue", value |-> state] ELSE Idle]
  /\ UNCHANGED <<lifecycle, queue, dispatching, called, waiting, state, pending, reported,
                 posts, told>>
-----------------------------------------------------------------------------
(* The event thread. *)

Sleep ==
  /\ started /\ dispatching = "none" /\ queue = <<>> /\ ~stop /\ "thread" \notin waiting
  /\ waiting' = waiting \union {"thread"}
  /\ UNCHANGED <<lifecycle, queue, dispatching, called, overload, posts, told>>

\* The application acknowledges an overload event from its callback.
Dispatch ==
  /\ started /\ dispatching = "none" /\ queue # <<>> /\ "thread" \notin waiting
  /\ dispatching' = Head(queue) /\ queue' = Tail(queue) /\ called' = callbacks
  /\ emit' = IF callbacks /\ Head(queue) \in Overloads
             THEN [emit EXCEPT !["event"] = [pc |-> "ack", value |-> FALSE]] ELSE emit
  /\ told' = IF callbacks /\ Head(queue) \in Failures THEN "told" ELSE told
  /\ UNCHANGED <<lifecycle, waiting, state, pending, reported, posts>>

\* Mutant: a thread that waits for an idle queue is not told.
DispatchedSilently ==
  /\ dispatching # "none" /\ emit["event"] = Idle
  /\ dispatching' = "none" /\ called' = FALSE /\ UNCHANGED waiting
  /\ UNCHANGED <<lifecycle, queue, overload, posts, told>>

Dispatched ==
  /\ dispatching # "none" /\ emit["event"] = Idle
  /\ dispatching' = "none" /\ called' = FALSE
  /\ waiting' = IF queue = <<>> THEN waiting \ {"api"} ELSE waiting
  /\ UNCHANGED <<lifecycle, queue, overload, posts, told>>

Exit ==
  /\ started /\ stop /\ dispatching = "none" /\ queue = <<>> /\ "thread" \notin waiting
  /\ started' = FALSE /\ waiting' = {}
  /\ UNCHANGED <<stop, queue, dispatching, called, api, shared, stream, callbacks, overload, posts, told>>
-----------------------------------------------------------------------------
(* The application's thread. *)

Open ==
  /\ api = "closed" /\ posts < MaxPosts
  /\ api' = "open" /\ started' = TRUE /\ stop' = FALSE /\ queue' = <<>>
  /\ state' = FALSE /\ pending' = FALSE /\ reported' = FALSE
  /\ UNCHANGED <<dispatching, called, waiting, shared, stream, callbacks, emit, posts, told>>

InitStream(duo) ==
  /\ api = "open" /\ (stream => duo = shared)
  /\ api' = "streaming" /\ shared' = duo /\ stream' = TRUE /\ callbacks' = TRUE
  /\ UNCHANGED <<started, stop, queue, dispatching, called, waiting, overload, posts, told>>

\* The backend is stopped; the threads of a backend that is closed are joined.
Uninit ==
  /\ api = "streaming" /\ (emit["iq"] = Idle)
  /\ api' = "idling" /\ stream' = shared
  /\ UNCHANGED <<started, stop, shared, callbacks, queue, dispatching, called, waiting,
                 overload, posts, told>>

IdleSleep ==
  /\ api = "idling" /\ "api" \notin waiting /\ (queue # <<>> \/ dispatching # "none")
  /\ waiting' = waiting \union {"api"}
  /\ UNCHANGED <<lifecycle, queue, dispatching, called, overload, posts, told>>

\* Mutant: an event that is being dispatched is not awaited.
EmptyIsIdle ==
  /\ api = "idling" /\ "api" \notin waiting /\ queue = <<>>
  /\ api' = "idle"
  /\ UNCHANGED <<started, stop, shared, stream, callbacks, queue, dispatching, called,
                 waiting, overload, posts, told>>

wait_for_event_idle ==
  /\ api = "idling" /\ "api" \notin waiting /\ queue = <<>> /\ dispatching = "none"
  /\ api' = "idle"
  /\ UNCHANGED <<started, stop, shared, stream, callbacks, queue, dispatching, called,
                 waiting, overload, posts, told>>

ForgetCallbacks ==
  /\ api = "idle" /\ api' = "open" /\ callbacks' = FALSE
  /\ UNCHANGED <<started, stop, shared, stream, queue, dispatching, called, waiting,
                 overload, posts, told>>

\* ReleaseDevice closes the backend of a shared role.
ReleaseDevice ==
  /\ api = "open" /\ stream /\ emit["iq"] = Idle /\ stream' = FALSE
  /\ UNCHANGED <<started, stop, api, shared, callbacks, queue, dispatching, called, waiting,
                 overload, posts, told>>

Close ==
  /\ api = "open" /\ ~stream /\ api' = "closing" /\ stop' = TRUE
  /\ waiting' = waiting \ {"thread"}
  /\ UNCHANGED <<started, shared, stream, callbacks, queue, dispatching, called, overload,
                 posts, told>>

Closed ==
  /\ api = "closing" /\ ~started /\ api' = "closed"
  /\ UNCHANGED <<started, stop, shared, stream, callbacks, queue, dispatching, called,
                 waiting, overload, posts, told>>
-----------------------------------------------------------------------------
EventThread == \/ Sleep \/ Dispatch \/ Dispatched \/ Exit \/ Acknowledge \/ AcknowledgeNext
               \/ EmitQueue("event") \/ EmitReported("event") \/ EmitPending("event")
IQThread == EmitQueue("iq") \/ EmitReported("iq") \/ EmitPending("iq")
ApiReturns == IdleSleep \/ wait_for_event_idle \/ ForgetCallbacks \/ Closed
ApiCalls == Open \/ Uninit \/ ReleaseDevice \/ Close \/ \E duo \in BOOLEAN : InitStream(duo)

Next == EventThread \/ IQThread \/ ApiReturns \/ ApiCalls \/ Overload
        \/ \E e \in Posts : Post(e)

\* The library's threads run and the application's callbacks return.
Spec == Init /\ [][Next]_vars
        /\ WF_vars(EventThread) /\ WF_vars(IQThread) /\ WF_vars(ApiReturns)
-----------------------------------------------------------------------------
(* Properties. *)

\* The queue never holds more than its capacity, also when a failure is posted
\* to a full queue, and holds events only.
TypeOK ==
  /\ queue \in Seq(Kinds) /\ Len(queue) <= Capacity
  /\ dispatching \in Kinds \union {"none"}
  /\ \A p \in DOMAIN emit :
       emit[p].pc \in {"idle", "queue", "reported", "pending", "ack", "check"}

\* The application is not in its event callback after Uninit has returned
\* (wait_for_event_idle), if the backend was closed by it.
SilentAfterUninit == api \in {"open", "closing", "closed"} /\ ~shared => ~called

\* A failure or a removal reaches the application, also when the queue is full
\* of other events and when Uninit follows at once (queue_api_event: "must not
\* disappear behind a burst of lower-priority gain/overload notifications").  The
\* reader of a shared role may post one between the last wait and the end of Uninit.
FailureHeard == (told = "owed") ~> (told = "told")

\* Uninit gets past wait_for_event_idle, and Close joins the event thread.
WaitsReturn ==
  /\ (api = "idling") ~> (api = "open")
  /\ (api = "closing") ~> (api = "closed")

\* The application learns of the overload state the receiver stays in, if it
\* acknowledges every event (emit_overload_event, Update with OverloadMsgAck).
OverloadSettles == <>[](api = "streaming") => <>[](reported = state)
=============================================================================
