------------------------------ MODULE CompatApi ------------------------------
(***************************************************************************)
(* The device calls of the library (compat/sdrplay_api_compat.c): select,  *)
(* Init, Update, the three swaps, Uninit and release, with their failure   *)
(* paths, and the AGC thread that runs beside them.                        *)
(*                                                                         *)
(* One application thread makes the calls.  A call keeps local state (the  *)
(* mode, the tuner, the rate the signal processing is set up for, the AGC  *)
(* modes in use) in step with the daemon through requests that may be      *)
(* refused, or lost: the daemon did as asked and the caller saw a timeout. *)
(* Update and the swaps hold hardware_lock across the request; so does the *)
(* AGC thread, which chooses its tuner before it takes the lock.           *)
(*                                                                         *)
(* Streams and events have modules of their own (StreamCallbacks,          *)
(* EventQueue); requests are those of Backend.                             *)
(***************************************************************************)
EXTENDS Naturals, FiniteSets

CONSTANTS
  Roles,        \* what a device is selected as: single, dual, master, slave
  Faults,       \* a subset of {"lost", "recovery"}: what the daemon may do
  MaxCalls      \* bound: calls the application makes

ASSUME CompatAssumption ==
  /\ Roles \subseteq {"single", "dual", "master", "slave"}
  /\ Faults \subseteq {"lost", "recovery"} /\ MaxCalls \in Nat

VARIABLES
  api,          \* the call in progress: its step and its arguments
  calls,        \* calls made so far
  dev,          \* selected, role, mode, tuner, rate (fsFreq), initialized, backend
  res,          \* buffers and callback thread
  agc,          \* the AGC thread, the tuner it chose, and agc_stop
  lock,         \* the holder of hardware_lock
  param,        \* agc.enable in each channel's parameters
  shadow,       \* agc_mode and agc_mode_b: the modes in use
  dsp,          \* the rate each channel's signal processing is set up for
  state,        \* stream_state: "none", "running" or "failed"
  iq,           \* TRUE: the backend's IQ thread is inside daemon_stream_callback
  d,            \* the daemon (external): up, owned, mode, tuner, rate, streaming, paused
  doubt,        \* history: faults that leave the caller ignorant
  before        \* history: the settings when the call began

vars == <<api, calls, dev, res, agc, lock, param, shadow, dsp, state, iq, d, doubt, before>>

Tuners == {"A", "B"}
Rates == {6, 8}
Other(t) == IF t = "A" THEN "B" ELSE "A"
Shared == dev.role \in {"master", "slave"}

\* The tuners that stream: both in dual mode.
Active(mode, t) == IF mode = "dual" THEN Tuners ELSE {t}

Rest == [pc |-> "rest", call |-> "none", todo |-> {}, fs |-> FALSE, agc |-> FALSE, tuner |-> "A",
         mode |-> "single", saved |-> [param |-> 0, rate |-> 0, shadow |-> 0, dsp |-> 0]]
Saved == [param |-> param, rate |-> dev.rate, shadow |-> shadow, dsp |-> dsp]
Settings == [mode |-> dev.mode, tuner |-> dev.tuner, rate |-> dev.rate, shadow |-> shadow,
             dsp |-> dsp]

\* reset_parameters, from sdrplay_api_Open
Init ==
  /\ api = Rest /\ calls = 0
  /\ dev = [selected |-> FALSE, role |-> "single", mode |-> "single", tuner |-> "A", rate |-> 6,
            initialized |-> FALSE, backend |-> FALSE]
  /\ res = [buffers |-> FALSE, callbacks |-> FALSE]
  /\ agc = [at |-> "none", tuner |-> "A", stop |-> FALSE] /\ lock = "free"
  /\ param = [t \in Tuners |-> TRUE] /\ shadow = [t \in Tuners |-> TRUE]
  /\ dsp = [t \in Tuners |-> 6] /\ state = "none" /\ iq = FALSE
  /\ d = [up |-> TRUE, owned |-> FALSE, mode |-> "single", tuner |-> "A", rate |-> 6,
          streaming |-> FALSE, paused |-> FALSE]
  /\ doubt = {} /\ before = Settings
-----------------------------------------------------------------------------
(* Requests.  The daemon performs one, or refuses, or performs it and the
   answer is lost; an update may be queued for a receiver in recovery. *)

Outcomes == {"ok", "refused"} \union (Faults \intersect {"lost"})
Updates == Outcomes \union (IF "recovery" \in Faults THEN {"queued"} ELSE {})
Accepted(o) == o \in {"ok", "queued"}

\* Mutant: answers overtake the samples that came before them.
PossibleAtOnce(o) == d.up \/ o = "refused"

\* A response is handed over only once the IQ thread has drained its queue.
Possible(o) == IF d.up THEN o = "lost" \/ ~iq ELSE o = "refused"
Doubted(o) == IF o = "lost" THEN doubt \union {"lost"} ELSE doubt

\* A call begins, with the local copies its failure path goes back to.
Call(a) ==
  /\ api.pc = "rest" /\ calls < MaxCalls /\ calls' = calls + 1
  /\ api' = [a EXCEPT !.saved = Saved] /\ before' = Settings

Begin(pc, call) == Call([Rest EXCEPT !.pc = pc, !.call = call])

Goto(pc) == api' = [api EXCEPT !.pc = pc]
Done == api' = [Rest EXCEPT !.call = api.call]
Failed == api' = [Rest EXCEPT !.pc = "failed", !.call = api.call]

\* The caller sees the error.
ReturnError ==
  /\ api.pc = "failed" /\ Done
  /\ UNCHANGED <<calls, dev, res, agc, lock, param, shadow, dsp, state, iq, d, doubt, before>>

\* openrsp_daemon_backend_close, with RELEASE
Closed == [d EXCEPT !.owned = FALSE, !.streaming = FALSE, !.paused = FALSE]
-----------------------------------------------------------------------------
(* sdrplay_api_SelectDevice and sdrplay_api_ReleaseDevice *)

\* A shared role connects at once.
SelectDevice(role, t, rate, o) ==
  /\ Begin("rest", "select") /\ ~dev.selected /\ Possible(o) /\ o # "lost"
  /\ (role = "master" => t = "A") /\ (role = "slave" => t = "B") /\ (role = "dual" => t = "A")
  /\ (role \in {"master", "slave"} \/ o = "ok")
  /\ dev' = IF o = "ok"
            THEN [dev EXCEPT !.selected = TRUE, !.role = role, !.tuner = t, !.rate = rate,
                             !.mode = role,
                             !.backend = role \in {"master", "slave"}]
            ELSE [dev EXCEPT !.role = "single", !.mode = role, !.tuner = t, !.rate = rate]
  /\ d' = [d EXCEPT !.owned = o = "ok" /\ role \in {"master", "slave"}, !.rate = rate]
  /\ UNCHANGED <<res, agc, lock, param, shadow, dsp, state, iq, doubt>>

ReleaseDevice ==
  /\ Begin("rest", "release") /\ dev.selected /\ ~dev.initialized /\ ~iq
  /\ dev' = [dev EXCEPT !.selected = FALSE, !.role = "single", !.backend = FALSE]
  /\ d' = IF dev.backend THEN Closed ELSE d
  /\ UNCHANGED <<res, agc, lock, param, shadow, dsp, state, iq, doubt>>
-----------------------------------------------------------------------------
(* sdrplay_api_Init *)

\* Mutant: a failed Init leaves the connection open.
DisconnectedLater == dev

\* A client of its own closes its connection when Init fails.
Disconnected == IF Shared THEN dev ELSE [dev EXCEPT !.backend = FALSE]
Released == IF Shared THEN d ELSE Closed
NoResources == [buffers |-> FALSE, callbacks |-> FALSE]

\* The parameters are checked, buffers allocated, signal processing configured.
\* The application may have set AGC modes before.
InitCall(p) ==
  /\ Begin("init_open", "init") /\ dev.selected /\ ~dev.initialized
  /\ param' = p /\ res' = [res EXCEPT !.buffers = TRUE]
  /\ dsp' = [t \in Tuners |-> IF t \in Active(dev.mode, dev.tuner) THEN dev.rate ELSE dsp[t]]
  /\ UNCHANGED <<dev, agc, lock, shadow, state, iq, d, doubt>>

\* Any call may be refused for its arguments, before it changes anything.
Invalid ==
  /\ Begin("failed", "invalid") /\ dev.selected
  /\ UNCHANGED <<dev, res, agc, lock, param, shadow, dsp, state, iq, d, doubt>>

InitOpen(o) ==
  /\ api.pc = "init_open" /\ o # "lost" /\ IF dev.backend THEN o = "ok" ELSE Possible(o)
  /\ IF o = "ok"
     THEN /\ dev' = [dev EXCEPT !.backend = TRUE] /\ d' = [d EXCEPT !.owned = d.up]
          /\ Goto("init_configure") /\ UNCHANGED res
     ELSE res' = NoResources /\ Failed /\ UNCHANGED <<dev, d>>
  /\ UNCHANGED <<calls, agc, lock, param, shadow, dsp, state, iq, doubt, before>>

InitConfigure(o) ==
  LET done == [d EXCEPT !.mode = dev.mode, !.tuner = dev.tuner, !.rate = dev.rate]
  IN /\ api.pc = "init_configure" /\ Possible(o)
     /\ IF o = "ok" THEN d' = done /\ Goto("init_threads") /\ UNCHANGED <<dev, res>>
        ELSE /\ dev' = Disconnected /\ res' = NoResources /\ Failed
             /\ d' = IF ~Shared THEN Closed ELSE IF o = "lost" THEN done ELSE d
     /\ UNCHANGED <<calls, agc, lock, param, shadow, dsp, state, iq, doubt, before>>

\* The stream state starts afresh: agc_mode takes the active channel's mode.
InitThreads ==
  /\ api.pc = "init_threads"
  /\ \/ /\ res' = [res EXCEPT !.callbacks = TRUE] /\ dev' = [dev EXCEPT !.initialized = TRUE]
        /\ shadow' = [shadow EXCEPT !["A"] = param[dev.tuner], !["B"] = param["B"]]
        /\ state' = "none" /\ agc' = [agc EXCEPT !.stop = FALSE]
        /\ doubt' = doubt \intersect {"stop"}
        /\ Goto("init_start") /\ UNCHANGED d
     \/ /\ res' = NoResources /\ dev' = Disconnected /\ d' = Released /\ Failed
        /\ UNCHANGED <<shadow, state, agc, doubt>>
  /\ UNCHANGED <<calls, lock, param, dsp, iq, before>>

\* START, then the AGC thread, which may not be created.  A refusal of a shared
\* role may be START_PENDING.
InitStart(o) ==
  /\ api.pc = "init_start" /\ Possible(o)
  /\ IF o = "ok"
     THEN /\ d' = [d EXCEPT !.streaming = TRUE] /\ UNCHANGED <<dev, res>>
          /\ \/ agc' = [agc EXCEPT !.at = "idle"] /\ Goto("init_wait")
             \/ Goto("init_stop") /\ UNCHANGED agc
     ELSE /\ dev' = [Disconnected EXCEPT !.initialized = FALSE] /\ res' = NoResources
          /\ d' = IF ~Shared THEN Closed ELSE [d EXCEPT !.streaming = o = "lost"]
          /\ Failed /\ UNCHANGED agc
  /\ doubt' = IF o = "lost" THEN doubt \union {"stop"} ELSE doubt
  /\ UNCHANGED <<calls, lock, param, shadow, dsp, state, iq, before>>

\* STOP is sent on the way out of a failed Init and its answer is ignored.
StopSent(o) ==
  /\ Possible(o) /\ d' = IF o = "refused" THEN d ELSE [d EXCEPT !.streaming = FALSE]
  /\ doubt' = IF o = "ok" THEN doubt ELSE doubt \union {"stop"}
  /\ agc' = [agc EXCEPT !.stop = TRUE] /\ Goto("join")

\* The stream fails to reach its first samples within half a minute, or breaks.
InitWait(o) ==
  /\ \/ /\ api.pc = "init_wait" /\ state = "running" /\ o = "ok"
        /\ Goto("init_gain") /\ UNCHANGED <<d, agc, doubt>>
     \/ /\ api.pc = "init_stop" \/ (api.pc = "init_wait" /\ state # "running")
        /\ StopSent(o)
  /\ UNCHANGED <<calls, dev, res, lock, param, shadow, dsp, state, iq, before>>

\* The gain and controls the application asked for, sent once samples flow.
InitGain(g, o) ==
  /\ api.pc = "init_gain" /\ Possible(g)
  /\ IF Accepted(g) THEN o = "ok" /\ Done /\ UNCHANGED <<d, agc, doubt>> ELSE StopSent(o)
  /\ UNCHANGED <<calls, dev, res, lock, param, shadow, dsp, state, iq, before>>

\* The AGC thread is joined; a connection of its own is shut down and closed, which
\* waits for the IQ thread.  A shared connection stays open.  Then the callback
\* thread and the buffers go.
Join ==
  /\ api.pc = "join" /\ agc.at = "none" /\ Goto("close")
  /\ d' = IF Shared THEN d ELSE [d EXCEPT !.streaming = FALSE]
  /\ UNCHANGED <<calls, dev, res, agc, lock, param, shadow, dsp, state, iq, doubt, before>>

Close ==
  /\ api.pc = "close" /\ (Shared \/ ~iq)
  /\ IF api.call = "init" THEN Failed ELSE Done
  /\ dev' = [Disconnected EXCEPT !.initialized = FALSE] /\ res' = NoResources /\ d' = Released
  /\ UNCHANGED <<calls, agc, lock, param, shadow, dsp, state, iq, doubt, before>>
-----------------------------------------------------------------------------
(* The connection *)

\* daemon_stream_callback, from its check of the buffers to its return
StreamBegin ==
  /\ d.up /\ d.streaming /\ ~d.paused /\ ~iq /\ res.buffers
  /\ iq' = TRUE /\ state' = "running"
  /\ UNCHANGED <<api, calls, dev, res, agc, lock, param, shadow, dsp, d, doubt, before>>

StreamEnd ==
  /\ iq /\ iq' = FALSE
  /\ UNCHANGED <<api, calls, dev, res, agc, lock, param, shadow, dsp, state, d, doubt, before>>

\* daemon_failure_callback
ConnectionLost ==
  /\ d.up /\ dev.backend /\ d' = [d EXCEPT !.up = FALSE, !.owned = FALSE, !.streaming = FALSE]
  /\ state' = IF dev.initialized THEN "failed" ELSE state
  /\ UNCHANGED <<api, calls, dev, res, agc, lock, param, shadow, dsp, iq, doubt, before>>

\* A new connection reaches a daemon that was started again.
DaemonBack ==
  /\ ~d.up /\ ~dev.backend /\ d' = [d EXCEPT !.up = TRUE, !.paused = FALSE]
  /\ UNCHANGED <<api, calls, dev, res, agc, lock, param, shadow, dsp, state, iq, doubt, before>>
-----------------------------------------------------------------------------
(* sdrplay_api_Uninit *)

\* Mutant: the AGC thread is joined but not told to stop.
UninitCallSilently ==
  /\ Begin(IF Shared THEN "uninit_stop" ELSE "join", "uninit") /\ dev.initialized
  /\ UNCHANGED <<dev, res, agc, lock, param, shadow, dsp, state, iq, d, doubt>>

UninitCall ==
  /\ Begin(IF Shared THEN "uninit_stop" ELSE "join", "uninit") /\ dev.initialized
  /\ agc' = [agc EXCEPT !.stop = ~Shared]
  /\ UNCHANGED <<dev, res, lock, param, shadow, dsp, state, iq, d, doubt>>

\* A shared role asks first, and stays initialised unless the daemon agrees.
UninitStop(o) ==
  /\ api.pc = "uninit_stop" /\ Possible(o)
  /\ d' = IF o = "refused" THEN d ELSE [d EXCEPT !.streaming = FALSE]
  /\ IF o = "ok" THEN Goto("join") /\ agc' = [agc EXCEPT !.stop = TRUE]
     ELSE Failed /\ UNCHANGED agc
  /\ doubt' = Doubted(o)
  /\ UNCHANGED <<calls, dev, res, lock, param, shadow, dsp, state, iq, before>>
-----------------------------------------------------------------------------
(* sdrplay_api_Update.  The application writes its parameters and names them:
   the AGC mode, the sample rate, or neither (gain, frequency, controls). *)

UpdateCall(ts, fs, withAgc, p, rate) ==
  /\ dev.initialized /\ ts # {} /\ ts \subseteq Active(dev.mode, dev.tuner)
  /\ Call([Rest EXCEPT !.pc = "update", !.todo = ts, !.fs = fs, !.agc = withAgc,
                       !.call = IF ts = Tuners THEN "update_both" ELSE "update"])
  /\ IF fs THEN dev.mode # "dual" /\ ~Shared /\ rate # dev.rate ELSE rate = dev.rate
  /\ \A t \in Tuners : p[t] # param[t] => withAgc /\ t \in ts
  /\ param' = p /\ dev' = [dev EXCEPT !.rate = rate]
  /\ UNCHANGED <<res, agc, lock, shadow, dsp, state, iq, d, doubt>>

\* Tuner_Both is the two tuners one after the other.
Turn == IF "A" \in api.todo THEN "A" ELSE "B"

\* Under hardware_lock the new AGC mode and signal processing are installed
\* before the request, so that no sample meets the old ones after its answer.
UpdateLock ==
  /\ api.pc = "update" /\ lock = "free" /\ lock' = "api"
  /\ api' = [api EXCEPT !.pc = "update_send", !.saved.shadow = shadow, !.saved.dsp = dsp]
  /\ shadow' = IF api.agc THEN [shadow EXCEPT ![Turn] = param[Turn]] ELSE shadow
  /\ dsp' = IF api.fs THEN [dsp EXCEPT ![Turn] = dev.rate] ELSE dsp
  /\ UNCHANGED <<calls, dev, res, agc, param, state, iq, d, doubt, before>>

\* Mutant: a failure leaves the new signal processing in place.
UndoneInPart ==
  /\ shadow' = api.saved.shadow /\ dsp' = dsp /\ param' = api.saved.param
  /\ dev' = [dev EXCEPT !.rate = api.saved.rate]

\* A failure puts back the AGC mode and the signal processing of this tuner.  The
\* application is taken to put back the parameters that were refused.
Undone ==
  /\ shadow' = api.saved.shadow /\ dsp' = api.saved.dsp /\ param' = api.saved.param
  /\ dev' = [dev EXCEPT !.rate = api.saved.rate]

UpdateSend(o) ==
  LET left == api.todo \ {Turn}
  IN /\ api.pc = "update_send" /\ Possible(o) /\ lock' = "free"
     /\ d' = IF o # "refused" /\ api.fs THEN [d EXCEPT !.rate = dev.rate] ELSE d
     /\ IF ~Accepted(o) THEN Undone /\ Failed
        ELSE /\ IF left = {} THEN Done ELSE api' = [api EXCEPT !.pc = "update", !.todo = left]
             /\ UNCHANGED <<shadow, dsp, param, dev>>
     /\ doubt' = Doubted(o)
     /\ UNCHANGED <<calls, res, agc, state, iq, before>>
-----------------------------------------------------------------------------
(* The swaps: of the active tuner, of the mode, and of a master's rate *)

\* The other tuner gets the parameters of the active one.
SwapTuner ==
  /\ dev.initialized /\ dev.mode = "single"
  /\ Call([Rest EXCEPT !.pc = "swap", !.call = "swap_tuner", !.tuner = Other(dev.tuner)])
  /\ param' = [param EXCEPT ![Other(dev.tuner)] = param[dev.tuner]]
  /\ UNCHANGED <<dev, res, agc, lock, shadow, dsp, state, iq, d, doubt>>

SwapMode(mode, t, rate) ==
  /\ dev.initialized /\ mode # dev.mode /\ (mode = "dual" => t = "A")
  /\ Call([Rest EXCEPT !.pc = "swap", !.call = "swap_mode", !.tuner = t, !.mode = mode])
  /\ dev' = [dev EXCEPT !.rate = rate]
  /\ UNCHANGED <<res, agc, lock, param, shadow, dsp, state, iq, d, doubt>>

SwapRate(rate) ==
  /\ dev.initialized /\ dev.role = "master" /\ rate # dev.rate
  /\ Call([Rest EXCEPT !.pc = "swap", !.call = "swap_rate", !.tuner = "A", !.mode = "master"])
  /\ dev' = [dev EXCEPT !.rate = rate]
  /\ UNCHANGED <<res, agc, lock, param, shadow, dsp, state, iq, d, doubt>>

\* A rate swap installs the signal processing before it asks.
SwapLock ==
  /\ api.pc = "swap" /\ lock = "free" /\ lock' = "api" /\ Goto("swap_send")
  /\ dsp' = IF api.call = "swap_rate" THEN [dsp EXCEPT !["A"] = dev.rate] ELSE dsp
  /\ UNCHANGED <<calls, dev, res, agc, param, shadow, state, iq, d, doubt, before>>

\* Mutant: the signal processing of the new tuner keeps its old rate.
SwapInstalledInPart ==
  /\ dev' = [dev EXCEPT !.mode = api.mode, !.tuner = api.tuner] /\ dsp' = dsp
  /\ shadow' = IF api.call = "swap_tuner" THEN shadow
               ELSE IF api.tuner = "B" THEN [shadow EXCEPT !["B"] = param["B"]] ELSE param

\* After a mode swap the AGC modes are those of the channels; a tuner swap leaves
\* them alone.
SwapInstalled ==
  /\ dev' = [dev EXCEPT !.mode = api.mode, !.tuner = api.tuner]
  /\ dsp' = [t \in Tuners |-> IF t \in Active(api.mode, api.tuner) THEN dev.rate ELSE dsp[t]]
  /\ shadow' = IF api.call = "swap_tuner" THEN shadow
               ELSE IF api.tuner = "B" THEN [shadow EXCEPT !["B"] = param["B"]] ELSE param

\* Only the owner of the receiver may change its tuner or mode; the stream then
\* waits for RESUME_MODE.
SwapSend(o) ==
  LET rateSwap == api.call = "swap_rate"
      asked == [d EXCEPT !.mode = api.mode, !.tuner = api.tuner, !.rate = dev.rate,
                         !.paused = ~rateSwap /\ d.streaming]
  IN /\ api.pc = "swap_send" /\ Possible(o) /\ (Shared /\ ~rateSwap => o = "refused")
     /\ d' = IF o = "refused" THEN d ELSE asked
     /\ IF o # "ok" THEN Undone /\ Failed /\ lock' = "free"
        ELSE IF rateSwap THEN Done /\ lock' = "free" /\ UNCHANGED <<shadow, dsp, param, dev>>
        ELSE SwapInstalled /\ Goto("resume") /\ UNCHANGED <<param, lock>>
     /\ doubt' = Doubted(o)
     /\ UNCHANGED <<calls, res, agc, state, iq, before>>

\* The swap is not undone when the daemon fails to resume: the stream has failed.
Resume(o) ==
  /\ api.pc = "resume" /\ Possible(o) /\ (d.up /\ ~d.paused => o = "refused") /\ lock' = "free"
  /\ d' = IF o = "refused" THEN d ELSE [d EXCEPT !.paused = FALSE]
  /\ IF o = "ok" THEN Done /\ UNCHANGED state
     ELSE /\ state' = "failed" /\ api' = [Rest EXCEPT !.pc = "failed", !.call = "unresumed"]
  /\ doubt' = IF o = "ok" THEN doubt ELSE doubt \union {"unresumed"}
  /\ UNCHANGED <<calls, dev, res, agc, param, shadow, dsp, iq, before>>
-----------------------------------------------------------------------------
(* The AGC thread *)

\* It chooses a tuner and reads its mode without the lock ...
AgcRead(t) ==
  /\ agc.at = "idle" /\ ~agc.stop /\ t \in Active(dev.mode, dev.tuner)
  /\ shadow[t] /\ dev.initialized /\ state # "none"
  /\ agc' = [agc EXCEPT !.at = "chosen", !.tuner = t]
  /\ UNCHANGED <<api, calls, dev, res, lock, param, shadow, dsp, state, iq, d, doubt, before>>

\* ... then works out a step under it; often there is none to take.
AgcLock ==
  /\ agc.at = "chosen" /\ lock = "free" /\ lock' = "agc" /\ agc' = [agc EXCEPT !.at = "locked"]
  /\ UNCHANGED <<api, calls, dev, res, param, shadow, dsp, state, iq, d, doubt, before>>

\* The daemon refuses a gain for another tuner than its own, except that one in
\* recovery adopts whatever it is sent.
AgcSend(o) ==
  LET stale == d.mode = "single" /\ agc.tuner # d.tuner
  IN /\ agc.at = "locked" /\ lock' = "free" /\ agc' = [agc EXCEPT !.at = "idle"]
     /\ Possible(o) /\ (stale => o \in {"refused", "queued"})
     /\ d' = IF stale /\ o = "queued" THEN [d EXCEPT !.tuner = agc.tuner] ELSE d
     /\ doubt' = IF stale /\ o = "queued" THEN doubt \union {"adopted"} ELSE doubt
     /\ UNCHANGED <<api, calls, dev, res, param, shadow, dsp, state, iq, before>>

AgcExit ==
  /\ agc.at = "idle" /\ agc.stop /\ agc' = [agc EXCEPT !.at = "none"]
  /\ UNCHANGED <<api, calls, dev, res, lock, param, shadow, dsp, state, iq, d, doubt, before>>
-----------------------------------------------------------------------------
Modes == [Tuners -> BOOLEAN]

Application ==
  \/ \E role \in Roles, t \in Tuners, rate \in Rates, o \in Outcomes : SelectDevice(role, t, rate, o)
  \/ ReleaseDevice \/ Invalid \/ UninitCall \/ SwapTuner
  \/ \E p \in Modes : InitCall(p)
  \/ \E ts \in SUBSET Tuners, fs \in BOOLEAN, withAgc \in BOOLEAN, p \in Modes, rate \in Rates :
       UpdateCall(ts, fs, withAgc, p, rate)
  \/ \E mode \in {"single", "dual"}, t \in Tuners, rate \in Rates : SwapMode(mode, t, rate)
  \/ \E rate \in Rates : SwapRate(rate)

ApiStep ==
  \/ UpdateLock \/ SwapLock \/ InitThreads \/ Join \/ Close \/ ReturnError
  \/ \E o \in Outcomes :
       \/ InitOpen(o) \/ InitConfigure(o) \/ InitStart(o) \/ InitWait(o)
       \/ UninitStop(o) \/ SwapSend(o) \/ Resume(o)
  \/ \E g \in Updates, o \in Outcomes : InitGain(g, o)
  \/ \E o \in Updates : UpdateSend(o)

AgcStep == AgcLock \/ AgcExit \/ \E o \in Updates : AgcSend(o)

Next ==
  \/ Application \/ ApiStep \/ AgcStep
  \/ \E t \in Tuners : AgcRead(t)
  \/ StreamBegin \/ StreamEnd \/ ConnectionLost \/ DaemonBack

\* Threads are scheduled, callbacks return, the reader queues no samples while it
\* waits for the queue to drain, and the AGC thread sleeps ten milliseconds between
\* two rounds, so a thread that waits for hardware_lock gets it.
Spec ==
  /\ Init /\ [][Next]_vars
  /\ SF_vars(ApiStep) /\ SF_vars(AgcStep) /\ WF_vars(StreamEnd)
-----------------------------------------------------------------------------
ModeNames == {"single", "dual", "master", "slave"}
Devices == [selected : BOOLEAN, role : ModeNames, tuner : Tuners, mode : ModeNames, rate : Rates,
            initialized : BOOLEAN, backend : BOOLEAN]
AgcThreads == [at : {"none", "idle", "chosen", "locked"}, tuner : Tuners, stop : BOOLEAN]
Receivers == [up : BOOLEAN, owned : BOOLEAN, mode : ModeNames, tuner : Tuners, rate : Rates,
              streaming : BOOLEAN, paused : BOOLEAN]

\* Every variable has its type, and hardware_lock is held exactly by the steps that
\* stand between its lock and unlock calls.
TypeOK ==
  /\ dev \in Devices /\ agc \in AgcThreads /\ d \in Receivers
  /\ res \in [buffers : BOOLEAN, callbacks : BOOLEAN] /\ iq \in BOOLEAN
  /\ param \in Modes /\ shadow \in Modes /\ dsp \in [Tuners -> Rates]
  /\ state \in {"none", "running", "failed"} /\ calls \in 0..MaxCalls
  /\ doubt \subseteq {"lost", "stop", "unresumed", "adopted"}
  /\ lock = "agc" <=> agc.at = "locked"
  /\ lock = "api" <=> api.pc \in {"update_send", "swap_send", "resume"}

\* Between calls the threads, the buffers and the connection are those the device's
\* state calls for, whatever failed before: Init's and Uninit's exits give back all
\* they took, and the AGC thread never outlives the connection it sends on.
ResourcesMatch ==
  /\ agc.at # "none" => dev.backend /\ dev.initialized
  /\ api.pc = "rest" =>
       /\ res = [buffers |-> dev.initialized, callbacks |-> dev.initialized]
       /\ agc.at # "none" <=> dev.initialized
       /\ dev.backend <=> dev.selected /\ (Shared \/ dev.initialized)
       /\ d.owned => dev.backend

\* The buffers daemon_stream_callback works in are not freed under it.  The exception
\* is a shared role whose Init fails and whose STOP is not answered: Init ignores
\* that and frees the buffers while samples may still be arriving.
BuffersOutliveStream == iq /\ "stop" \notin doubt => res.buffers

\* Between calls, while the stream is sound, library and daemon agree on the mode,
\* the tuner and the rate, the samples are processed for the rate they were taken
\* at, and no stream is left paused.  The exceptions are an answer that was lost,
\* and a daemon in recovery that adopts the gain the AGC thread worked out for the
\* tuner of before a swap.
DaemonAgrees ==
  api.pc = "rest" /\ dev.initialized /\ state # "failed" /\ d.up /\ doubt \subseteq {"stop"} =>
    /\ d.mode = dev.mode /\ d.rate = dev.rate /\ d.streaming /\ ~d.paused
    /\ dev.mode # "dual" => d.tuner = dev.tuner
    /\ \A t \in Active(dev.mode, dev.tuner) : dsp[t] = d.rate

\* A call that fails leaves the mode, the tuner, the rate, the AGC modes in use and
\* the signal processing as they were: Update and the swaps restore what they
\* installed early.  An update of both tuners whose second request fails keeps the
\* first, and a swap that cannot resume stays swapped.
FailedCallKeeps ==
  api.pc = "failed" /\ api.call \in {"update", "swap_tuner", "swap_mode", "swap_rate", "uninit"} =>
    Settings = before

\* Every call returns: no exit of Update, a swap or Init leaves hardware_lock held or
\* waits for a thread that waits for it.
CallsReturn == api.pc # "rest" ~> api.pc = "rest"

\* A swap of the active tuner keeps the AGC in the mode it was in, as it keeps the
\* other settings of the active channel.
SwapKeepsAgc ==
  [][api.call = "swap_tuner" /\ api.pc = "resume" /\ api'.pc = "rest"
       => shadow[dev.tuner] = before.shadow[before.tuner]]_vars
=============================================================================
