-------------------------- MODULE EventQueueProofs --------------------------
(***************************************************************************)
(* What EventQueue guarantees for a queue of any capacity, any number of   *)
(* posts and any of the events: the queue keeps its bound, and Uninit      *)
(* leaves no callback running.                                             *)
(***************************************************************************)
EXTENDS EventQueue, TLAPS

Apis == {"closed", "open", "streaming", "idling", "idle", "closing"}
Emits == {"idle", "queue", "reported", "pending", "ack", "check"}

EmitStates == [{"iq", "event"} -> [pc : Emits, value : BOOLEAN]]

TypeInv ==
  /\ queue \in Seq(Kinds) /\ Len(queue) <= Capacity
  /\ dispatching \in Kinds \union {"none"}
  /\ emit \in EmitStates
  /\ state \in BOOLEAN /\ api \in Apis

\* Why no event is dispatched to the application once Uninit has found the queue
\* idle: the IQ thread and the backend that might post are gone, and the event thread
\* posts only from within a dispatch.
SilenceInv ==
  /\ called => dispatching # "none"
  /\ emit["event"] # Idle => dispatching # "none"
  /\ api # "streaming" => emit["iq"] = Idle
  /\ api \in {"open", "closing", "closed"} => ~callbacks
  /\ api \in {"idling", "idle"} /\ ~shared => ~stream
  /\ api = "idle" /\ ~shared => queue = <<>> /\ dispatching = "none"
  /\ api \in {"open", "closing", "closed"} /\ ~shared => ~called

Inv == TypeInv /\ SilenceInv
-----------------------------------------------------------------------------
\* The handshake of p begins or ends, and the thread p goes on in it.
Placed(f, p, r) == [f EXCEPT ![p] = r]
Moved(f, p, x) == [f EXCEPT ![p].pc = x]

\* What an assignment to one of the two handshakes changes.
LEMMA EmitSet ==
  ASSUME NEW f \in EmitStates, NEW p \in {"iq", "event"}, NEW r \in [pc : Emits, value : BOOLEAN]
  PROVE  /\ Placed(f, p, r) \in EmitStates /\ Placed(f, p, r)[p] = r
         /\ \A q \in {"iq", "event"} \ {p} : Placed(f, p, r)[q] = f[q]
BY DEF EmitStates, Placed

\* A thread that emits an overload event changes only its own place in the code.
LEMMA EmitMove ==
  ASSUME NEW f \in EmitStates, NEW p \in {"iq", "event"}, NEW x \in Emits
  PROVE  /\ Moved(f, p, x) \in EmitStates
         /\ Moved(f, p, x)[p] = [pc |-> x, value |-> f[p].value]
         /\ \A q \in {"iq", "event"} \ {p} : Moved(f, p, x)[q] = f[q]
<1>1. f[p] \in [pc : Emits, value : BOOLEAN]
  BY DEF EmitStates
<1> DEFINE r == [pc |-> x, value |-> f[p].value]
<1>2. [f[p] EXCEPT !.pc = x] = r
  BY <1>1
<1>3. Moved(f, p, x) = Placed(f, p, [f[p] EXCEPT !.pc = x])
  BY Zenon DEF Moved, Placed
<1>4. r \in [pc : Emits, value : BOOLEAN]
  BY <1>1
<1>5. Moved(f, p, x) = Placed(f, p, r)
  BY <1>2, <1>3
<1> HIDE DEF r
<1>6. /\ Moved(f, p, x) \in EmitStates /\ Moved(f, p, x)[p] = r
      /\ \A q \in {"iq", "event"} \ {p} : Moved(f, p, x)[q] = f[q]
  BY <1>4, <1>5, EmitSet
<1> QED
  BY <1>6 DEF r

\* A posted event leaves a queue of events within its bound, and an empty queue
\* grows only by a post.
LEMMA PostKeeps ==
  ASSUME TypeInv, NEW e \in Kinds, queue_api_event(e)
  PROVE  queue' \in Seq(Kinds) /\ Len(queue') <= Capacity
<1> Capacity \in Nat \ {0}
  BY EventAssumption
<1>1. CASE ~Accepts(e)
  BY <1>1 DEF queue_api_event, TypeInv
<1>2. CASE Accepts(e)
  <2>1. queue' = Append(IF Len(queue) = Capacity THEN Tail(queue) ELSE queue, e)
    BY <1>2 DEF queue_api_event, Queued
  <2>2. CASE Len(queue) = Capacity
    <3>1. queue # <<>> /\ queue \in Seq(Kinds)
      BY <2>2 DEF TypeInv
    <3>2. Tail(queue) \in Seq(Kinds) /\ Len(Tail(queue)) = Len(queue) - 1
      BY <3>1
    <3> QED
      BY <2>1, <2>2, <3>2
  <2>3. CASE Len(queue) # Capacity
    BY <2>1, <2>3 DEF TypeInv
  <2> QED
    BY <2>2, <2>3
<1> QED
  BY <1>1, <1>2

\* The steps of the threads that post keep the invariant.
LEMMA EmitKeeps ==
  ASSUME Inv, NEW p \in {"iq", "event"}, EmitQueue(p) \/ EmitReported(p) \/ EmitPending(p)
  PROVE  Inv'
<1> USE DEF Idle
<1>1. CASE EmitQueue(p)
  <2>1. Event(emit[p].value) \in Kinds
    BY DEF Event, Kinds, Overloads
  <2>2. queue' \in Seq(Kinds) /\ Len(queue') <= Capacity
    BY <1>1, <2>1, PostKeeps DEF EmitQueue, Inv
  <2>3. /\ emit' \in EmitStates
        /\ \A q \in {"iq", "event"} : emit'[q] # Idle => emit[q] # Idle
    <3>1. emit \in EmitStates /\ "reported" \in Emits /\ emit[p].pc = "queue"
      BY <1>1 DEF EmitQueue, Inv, TypeInv, Emits
    <3>2. Idle \in [pc : Emits, value : BOOLEAN]
      BY DEF Emits
    <3>3. emit[p] # Idle
      BY <3>1
    <3>4. emit' = Moved(emit, p, "reported") \/ emit' = Placed(emit, p, Idle)
      BY <1>1, Zenon DEF EmitQueue, Moved, Placed
    <3> HIDE DEF Idle
    <3> QED
      <4>1. /\ Placed(emit, p, Idle) \in EmitStates
            /\ \A q \in {"iq", "event"} \ {p} : Placed(emit, p, Idle)[q] = emit[q]
        BY ONLY p \in {"iq", "event"}, <3>1, <3>2, EmitSet
      <4>2. /\ Moved(emit, p, "reported") \in EmitStates
            /\ \A q \in {"iq", "event"} \ {p} : Moved(emit, p, "reported")[q] = emit[q]
        BY ONLY p \in {"iq", "event"}, <3>1, EmitMove
      <4> QED
        BY <3>3, <3>4, <4>1, <4>2, Zenon
  <2>4. UNCHANGED <<lifecycle, dispatching, called, state>>
    BY <1>1 DEF EmitQueue
  <2>5. TypeInv'
    BY <2>2, <2>3, <2>4 DEF TypeInv, Inv, lifecycle
  <2>6. emit[p] # Idle
    BY <1>1 DEF EmitQueue
  <2>7. ~(api = "idle" /\ ~shared)
    BY <2>6 DEF Inv, SilenceInv
  <2> QED
    BY <2>3, <2>4, <2>5, <2>7 DEF Inv, SilenceInv, lifecycle
<1>2. CASE EmitReported(p)
  <2>1. /\ emit' \in EmitStates
        /\ \A q \in {"iq", "event"} : emit'[q] # Idle => emit[q] # Idle
    <3>1. emit \in EmitStates /\ "pending" \in Emits /\ emit[p].pc = "reported"
      BY <1>2 DEF EmitReported, Inv, TypeInv, Emits
    <3>2. emit[p] # Idle
      BY <3>1
    <3>3. emit' = Moved(emit, p, "pending")
      BY <1>2 DEF EmitReported, Moved
    <3> HIDE DEF Idle
    <3> QED
      <4>1. /\ Moved(emit, p, "pending") \in EmitStates
            /\ \A q \in {"iq", "event"} \ {p} : Moved(emit, p, "pending")[q] = emit[q]
        BY ONLY p \in {"iq", "event"}, <3>1, EmitMove
      <4> QED
        BY <3>2, <3>3, <4>1, Zenon
  <2>2. UNCHANGED <<lifecycle, queue, dispatching, called, state>>
    BY <1>2 DEF EmitReported
  <2> QED
    BY <2>1, <2>2 DEF Inv, TypeInv, SilenceInv, lifecycle
<1>3. CASE EmitPending(p)
  <2>1. /\ emit' \in EmitStates
        /\ \A q \in {"iq", "event"} : emit'[q] # Idle => emit[q] # Idle
    <3>1. emit \in EmitStates
      BY DEF Inv, TypeInv
    <3>2. Idle \in [pc : Emits, value : BOOLEAN]
      BY DEF Emits
    <3> HIDE DEF Idle
    <3> QED
      <4>1. /\ Placed(emit, p, Idle) \in EmitStates /\ Placed(emit, p, Idle)[p] = Idle
            /\ \A q \in {"iq", "event"} \ {p} : Placed(emit, p, Idle)[q] = emit[q]
        BY ONLY p \in {"iq", "event"}, <3>1, <3>2, EmitSet
      <4>2. emit' = Placed(emit, p, Idle)
        BY <1>3 DEF EmitPending, Placed
      <4> QED
        BY <4>1, <4>2, Zenon
  <2>2. UNCHANGED <<lifecycle, queue, dispatching, called, state>>
    BY <1>3 DEF EmitPending
  <2> QED
    BY <2>1, <2>2 DEF Inv, TypeInv, SilenceInv, lifecycle
<1> QED
  BY <1>1, <1>2, <1>3

\* A posted event stays within the queue, and only a running stream posts.
LEMMA PostsKeep ==
  ASSUME Inv, (\E e \in Posts : Post(e)) \/ Overload
  PROVE  Inv'
<1> USE DEF Idle
<1>1. ASSUME NEW e \in Posts, Post(e)
      PROVE  Inv'
  <2>1. e \in Kinds
    BY EventAssumption
  <2>2. queue' \in Seq(Kinds) /\ Len(queue') <= Capacity
    BY <1>1, <2>1, PostKeeps DEF Post, Inv
  <2>3. UNCHANGED <<lifecycle, dispatching, called, overload>> /\ stream
    BY <1>1 DEF Post
  <2> QED
    BY <2>2, <2>3 DEF Inv, TypeInv, SilenceInv, lifecycle, overload
<1>2. CASE Overload
  <2>1. api = "streaming" /\ UNCHANGED <<lifecycle, queue, dispatching, called>>
    BY <1>2 DEF Overload
  <2>2. /\ emit' \in EmitStates
        /\ emit'["event"] = emit["event"] /\ state' \in BOOLEAN
    <3>1. emit \in EmitStates /\ state' \in BOOLEAN
      BY <1>2 DEF Overload, Inv, TypeInv
    <3>2. [pc |-> "queue", value |-> ~state] \in [pc : Emits, value : BOOLEAN]
      BY DEF Emits
    <3>3. emit' = emit \/ emit' = Placed(emit, "iq", [pc |-> "queue", value |-> ~state])
      BY <1>2, Zenon DEF Overload, Placed
    <3>4. "iq" \in {"iq", "event"} /\ "event" \in {"iq", "event"} \ {"iq"}
      OBVIOUS
    <3>5. \A r \in [pc : Emits, value : BOOLEAN] :
            /\ Placed(emit, "iq", r) \in EmitStates
            /\ Placed(emit, "iq", r)["event"] = emit["event"]
      BY ONLY <3>1, <3>4, EmitSet
    <3> QED
      BY <3>1, <3>2, <3>3, <3>5, Zenon
  <2> QED
    BY <2>1, <2>2 DEF Inv, TypeInv, SilenceInv, lifecycle
<1> QED
  BY <1>1, <1>2
-----------------------------------------------------------------------------
\* The event thread.
LEMMA EventThreadKeeps ==
  ASSUME Inv, Sleep \/ Dispatch \/ Dispatched \/ Exit \/ Acknowledge \/ AcknowledgeNext
  PROVE  Inv'
<1> USE DEF Idle
<1>1. CASE Sleep
  BY <1>1 DEF Sleep, Inv, TypeInv, SilenceInv, lifecycle, overload
<1>2. CASE Dispatch
  <2>1. queue \in Seq(Kinds) /\ queue # <<>>
    BY <1>2 DEF Dispatch, Inv, TypeInv
  <2>2. /\ Head(queue) \in Kinds /\ Tail(queue) \in Seq(Kinds)
        /\ Len(Tail(queue)) = Len(queue) - 1
    BY <2>1
  <2>3. Capacity \in Nat /\ Len(queue) \in Nat
    BY <2>1, EventAssumption
  <2>4. dispatching' \in Kinds /\ dispatching' # "none"
    BY <1>2, <2>2 DEF Dispatch, Kinds, Failures, Overloads
  <2>5. queue' \in Seq(Kinds) /\ Len(queue') <= Capacity
    BY <1>2, <2>2, <2>3 DEF Dispatch, Inv, TypeInv
  <2>6. /\ emit' \in EmitStates
        /\ emit'["iq"] = emit["iq"]
    BY <1>2 DEF Dispatch, Inv, TypeInv, Emits, EmitStates
  <2>7. UNCHANGED <<lifecycle, state>> /\ called' = callbacks
    BY <1>2 DEF Dispatch
  <2>8. ~(api = "idle" /\ ~shared)
    BY <2>1 DEF Inv, SilenceInv
  <2> QED
    BY <2>4, <2>5, <2>6, <2>7, <2>8 DEF Inv, TypeInv, SilenceInv, lifecycle
<1>3. CASE Dispatched
  BY <1>3 DEF Dispatched, Inv, TypeInv, SilenceInv, lifecycle, overload
<1>4. CASE Exit
  BY <1>4 DEF Exit, Inv, TypeInv, SilenceInv, overload
<1>5. CASE Acknowledge
  <2>1. /\ emit' \in EmitStates
        /\ emit'["iq"] = emit["iq"] /\ emit["event"] # Idle
    <3>1. emit \in EmitStates /\ "check" \in Emits /\ emit["event"].pc = "ack"
      BY <1>5 DEF Acknowledge, Inv, TypeInv, Emits
    <3>2. emit["event"] # Idle
      BY <3>1
    <3>3. emit' = Moved(emit, "event", "check")
      BY <1>5 DEF Acknowledge, Moved
    <3> QED
      <4>1. "event" \in {"iq", "event"} /\ "iq" \in {"iq", "event"} \ {"event"}
        OBVIOUS
      <4>2. /\ Moved(emit, "event", "check") \in EmitStates
            /\ Moved(emit, "event", "check")["iq"] = emit["iq"]
        BY ONLY <3>1, <4>1, EmitMove
      <4> QED
        BY <3>2, <3>3, <4>2, Zenon
  <2>2. UNCHANGED <<lifecycle, queue, dispatching, called, state>>
    BY <1>5 DEF Acknowledge
  <2> QED
    BY <2>1, <2>2 DEF Inv, TypeInv, SilenceInv, lifecycle
<1>6. CASE AcknowledgeNext
  <2>1. /\ emit' \in EmitStates
        /\ emit'["iq"] = emit["iq"] /\ emit["event"] # Idle
    BY <1>6 DEF AcknowledgeNext, Inv, TypeInv, Emits, EmitStates
  <2>2. UNCHANGED <<lifecycle, queue, dispatching, called, state>>
    BY <1>6 DEF AcknowledgeNext
  <2> QED
    BY <2>1, <2>2 DEF Inv, TypeInv, SilenceInv, lifecycle
<1> QED
  BY <1>1, <1>2, <1>3, <1>4, <1>5, <1>6

\* The application's thread.
LEMMA ApiKeeps ==
  ASSUME Inv, ApiReturns \/ ApiCalls
  PROVE  Inv'
<1> USE DEF Idle, Inv, TypeInv, SilenceInv, Apis
<1>1. CASE IdleSleep
  BY <1>1 DEF IdleSleep, lifecycle, overload
<1>2. CASE wait_for_event_idle
  BY <1>2 DEF wait_for_event_idle, overload
<1>3. CASE ForgetCallbacks
  BY <1>3 DEF ForgetCallbacks, overload
<1>4. CASE Closed
  BY <1>4 DEF Closed, overload
<1>5. CASE Open
  <2>1. Capacity \in Nat /\ queue' = <<>>
    BY <1>5, EventAssumption DEF Open
  <2>2. queue' \in Seq(Kinds) /\ Len(queue') <= Capacity
    BY <2>1
  <2> QED
    BY <1>5, <2>2 DEF Open
<1>6. CASE Uninit
  BY <1>6 DEF Uninit, overload
<1>7. CASE ReleaseDevice
  BY <1>7 DEF ReleaseDevice, overload
<1>8. CASE Close
  BY <1>8 DEF Close, overload
<1>9. ASSUME NEW duo \in BOOLEAN, InitStream(duo)
      PROVE  Inv'
  BY <1>9 DEF InitStream, overload
<1> QED
  BY <1>1, <1>2, <1>3, <1>4, <1>5, <1>6, <1>7, <1>8, <1>9 DEF ApiReturns, ApiCalls
-----------------------------------------------------------------------------
\* The invariant holds in every reachable state.
THEOREM Inductive == Spec => []Inv
<1>1. Init => Inv
  <2> SUFFICES ASSUME Init PROVE Inv
    OBVIOUS
  <2>1. queue \in Seq(Kinds) /\ Len(queue) <= Capacity
    BY EventAssumption DEF Init
  <2> QED
    BY <2>1 DEF Init, Inv, TypeInv, SilenceInv, Idle, Apis, Emits, EmitStates
<1>2. Inv /\ [Next]_vars => Inv'
  <2>1. Inv /\ UNCHANGED vars => Inv'
    BY DEF vars, Inv, TypeInv, SilenceInv, lifecycle, overload, Idle
  <2> QED
    BY <2>1, EmitKeeps, PostsKeep, EventThreadKeeps, ApiKeeps DEF Next, EventThread, IQThread
<1> QED
  BY <1>1, <1>2, PTL DEF Spec

\* The queue holds events only and never more than its capacity, for any capacity,
\* although queue_api_event takes a failure when it is full.
THEOREM QueueBounded == Spec => []TypeOK
<1>1. Inv => TypeOK
  BY DEF Inv, TypeInv, TypeOK, Emits, EmitStates
<1> QED
  BY <1>1, Inductive, PTL

\* After Uninit of a role that is not shared no event callback of the application
\* runs, whatever was queued when Uninit began: wait_for_event_idle sees both the
\* queue and the event being dispatched, and nothing posts any more.
THEOREM UninitIsSilent == Spec => []SilentAfterUninit
<1>1. Inv => SilentAfterUninit
  BY DEF Inv, SilenceInv, SilentAfterUninit
<1> QED
  BY <1>1, Inductive, PTL
=============================================================================
