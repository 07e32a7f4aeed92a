-------------------------- MODULE CompatApiProofs --------------------------
(***************************************************************************)
(* What the device calls of CompatApi guarantee for any set of roles and   *)
(* faults and any number of calls: threads, buffers and connection match   *)
(* the device's state, the buffers outlive the stream callback, library    *)
(* and daemon agree, and a call that fails changes no setting.             *)
(*                                                                         *)
(* One lemma per action shows that it keeps IInv.                          *)
(***************************************************************************)
EXTENDS CompatApi, TLAPS

Pcs == {"rest", "failed", "init_open", "init_configure", "init_threads", "init_start", "init_wait",
        "init_stop", "init_gain", "join", "close", "uninit_stop", "update", "update_send",
        "swap", "swap_send", "resume"}
Opening == {"init_open", "init_configure", "init_threads"}
Sending == {"update", "update_send", "swap", "swap_send"}

\* Which call stands at which step, and with what arguments and saved copies.
CallInv ==
  /\ api.pc \in Pcs /\ api.todo \in SUBSET Tuners /\ api.fs \in BOOLEAN /\ api.agc \in BOOLEAN
  /\ api.tuner \in Tuners /\ api.mode \in ModeNames
  /\ api.pc \in Sending =>
       api.saved \in [param : Modes, rate : Rates, shadow : Modes, dsp : [Tuners -> Rates]]
  /\ api.pc \in {"update", "update_send"} =>
       /\ api.call \in {"update", "update_both"} /\ api.todo # {}
       /\ api.call = "update" => api.todo # Tuners
       /\ api.todo \subseteq Active(dev.mode, dev.tuner)
       /\ api.fs => dev.mode # "dual"
       /\ ~api.fs => dev.rate = api.saved.rate
  /\ api.pc \in {"swap", "swap_send"} =>
       /\ api.call \in {"swap_tuner", "swap_mode", "swap_rate"}
       /\ api.call = "swap_rate" => dev.role = "master" /\ api.mode = "master" /\ api.tuner = "A"
  /\ api.pc \in {"init_open", "init_configure", "init_threads", "init_start", "init_wait",
                 "init_stop", "init_gain"} => api.call = "init"
  /\ api.pc \in {"join", "close"} => api.call \in {"init", "uninit"}
  /\ api.pc = "uninit_stop" => api.call = "uninit"

\* A shared role keeps its mode, its tuner and its connection.
DevInv ==
  /\ dev.initialized => dev.backend
  /\ dev.backend => dev.selected
  /\ Shared => dev.selected
  /\ Shared => dev.mode = dev.role /\ dev.backend
  /\ dev.role = "master" => dev.tuner = "A"

\* What each step of Init, Uninit and release finds of the connection, the
\* buffers and the threads.
ResInv ==
  /\ api.pc \in Opening \union {"rest", "failed", "init_start"} => (d.owned => dev.backend)
  /\ api.pc \in Opening => dev.selected /\ ~dev.initialized
  /\ api.pc \in {"init_configure", "init_threads"} => dev.backend
  /\ api.pc \notin Opening \union {"rest", "failed"} => dev.initialized
  /\ dev.backend => dev.initialized \/ Shared \/ api.pc \in {"init_configure", "init_threads"}
  /\ res.buffers <=> dev.initialized \/ api.pc \in Opening
  /\ res.callbacks <=> dev.initialized
  /\ agc.at # "none" => dev.initialized
  /\ dev.initialized => agc.at # "none" \/ api.pc \in {"init_start", "init_stop", "join", "close"}
  /\ agc.at # "none" => api.pc \notin {"init_start", "init_stop", "close"}
  /\ agc.stop /\ agc.at # "none" => api.pc = "join"
  /\ api.pc = "init_start" => ~agc.stop

Quiet == ~d.streaming /\ ~iq

\* Unless a STOP went unanswered, no samples arrive before Init starts the stream
\* and after the step that stops it.
QuietInv ==
  "stop" \notin doubt =>
     /\ ~dev.initialized \/ api.pc = "init_start" => Quiet
     /\ Shared /\ api.pc \in {"join", "close"} => Quiet
     /\ api.pc = "close" => ~d.streaming

\* The copies an update or a swap goes back to are the settings of its begin.
KeepInv ==
  /\ api.pc \in Sending /\ api.call # "update_both" =>
       before = [mode |-> dev.mode, tuner |-> dev.tuner, rate |-> api.saved.rate,
                 shadow |-> api.saved.shadow, dsp |-> api.saved.dsp]
  /\ api.pc \in {"update", "swap"} /\ api.call # "update_both" =>
       api.saved.shadow = shadow /\ api.saved.dsp = dsp
  /\ api.pc = "uninit_stop" => Settings = before
  /\ FailedCallKeeps

\* A paused stream waits for RESUME_MODE, or its caller missed an answer; a failed
\* one stays failed until the next Init.
PauseInv ==
  /\ d.paused => /\ dev.initialized /\ ~Shared
                 /\ api.pc = "resume" \/ doubt \intersect {"lost", "unresumed"} # {}
  /\ state = "failed" /\ dev.initialized => ~d.up \/ "unresumed" \in doubt

Sound == dev.initialized /\ state # "failed" /\ d.up /\ doubt \subseteq {"stop"}

\* The daemon is at this rate, and the signal processing at these rates, with the
\* library's mode and tuner.
InStep(rate, rates) ==
  /\ d.mode = dev.mode /\ d.rate = rate /\ (dev.mode # "dual" => d.tuner = dev.tuner)
  /\ \A t \in Active(dev.mode, dev.tuner) : rates[t] = rate

\* While a request is under way the daemon is in step with the saved copies, and
\* what was installed early is in step with the request.
AgreeInv ==
  /\ api.pc \in Opening => \A t \in Active(dev.mode, dev.tuner) : dsp[t] = dev.rate
  /\ api.pc = "init_threads" /\ d.up => InStep(dev.rate, dsp)
  /\ Sound =>
       /\ api.pc \notin {"init_start", "join", "close"} => d.streaming
       /\ api.pc \in {"rest", "failed", "init_start", "init_wait", "init_stop", "init_gain",
                      "uninit_stop", "resume"} => InStep(dev.rate, dsp)
       /\ api.pc \in {"update", "swap"} =>
            InStep(api.saved.rate, dsp) /\ InStep(api.saved.rate, api.saved.dsp)
       /\ api.pc \in {"update_send", "swap_send"} => InStep(api.saved.rate, api.saved.dsp)
       /\ api.pc = "update_send" => \A t \in Active(dev.mode, dev.tuner) : dsp[t] = dev.rate
       /\ api.pc = "swap_send" /\ api.call = "swap_rate" => dsp["A"] = dev.rate
       /\ api.pc = "resume" => d.paused

IInv == TypeOK /\ CallInv /\ DevInv /\ ResInv /\ QuietInv /\ KeepInv /\ PauseInv /\ AgreeInv
-----------------------------------------------------------------------------
(* The application's calls *)

\* SelectDevice keeps the invariant: a device not in use gets its role and, if it is
\* shared, its connection.
LEMMA SelectKeeps ==
  ASSUME IInv, NEW role \in Roles, NEW t \in Tuners, NEW rate \in Rates, NEW o \in Outcomes,
         SelectDevice(role, t, rate, o)
  PROVE  IInv'
<1> USE DEF IInv
<1>1. /\ api.pc = "rest"
      /\ calls < MaxCalls
      /\ ~dev.selected
      /\ (role = "master" => t = "A")
      /\ api' = [Rest EXCEPT !.pc = "rest", !.call = "select", !.saved = Saved]
      /\ calls' = calls + 1
      /\ dev' = IF o = "ok"
          THEN [dev EXCEPT !.selected = TRUE, !.role = role, !.tuner = t, !.rate = rate,
                           !.mode = role, !.backend = role \in {"master", "slave"}]
          ELSE [dev EXCEPT !.role = "single", !.mode = role, !.tuner = t, !.rate = rate]
      /\ d' = [d EXCEPT !.owned = o = "ok" /\ role \in {"master", "slave"}, !.rate = rate]
      /\ before' = Settings
      /\ UNCHANGED <<res, agc, lock, param, shadow, dsp, state, iq, doubt>>
  BY DEF SelectDevice, Begin, Call
<1>2. dev' \in Devices
  <2> DEFINE shared == role \in {"master", "slave"}
  <2>1. CASE o = "ok"
    <3>1. shared \in BOOLEAN /\ role \in ModeNames
      BY CompatAssumption DEF ModeNames
    <3>2. dev' = [dev EXCEPT !.selected = TRUE, !.role = role, !.tuner = t, !.rate = rate,
                             !.mode = role, !.backend = shared]
      BY <1>1, <2>1
    <3> HIDE DEF shared
    <3>3. QED
      BY <3>1, <3>2 DEF TypeOK, Devices
  <2>2. CASE o # "ok"
    BY <1>1, <2>2, CompatAssumption DEF TypeOK, Devices, ModeNames
  <2>3. QED
    BY <2>1, <2>2
<1>3. d' \in Receivers
  BY <1>1 DEF TypeOK, Receivers
<1>4. TypeOK'
  BY <1>1, <1>2, <1>3, CompatAssumption DEF TypeOK, Rest
<1>5. CallInv'
  BY <1>1, <1>4 DEF CallInv, Pcs, Sending, TypeOK, Devices, Modes, ModeNames, Tuners, Rest
<1>6. DevInv' /\ ResInv'
  <2>1. api'.pc = "rest" /\ ~dev.initialized /\ ~dev.backend /\ ~Shared
    BY <1>1 DEF Rest, DevInv
  <2>2. ~dev'.initialized
    BY <1>1, <2>1 DEF TypeOK, Devices
  <2>3. CASE o = "ok"
    <3>1. /\ dev'.selected /\ dev'.role = role /\ dev'.mode = role /\ dev'.tuner = t
          /\ dev'.backend <=> role \in {"master", "slave"}
          /\ d'.owned <=> role \in {"master", "slave"}
      BY <1>1, <2>3 DEF TypeOK, Devices, Receivers
    <3>2. DevInv'
      BY <1>1, <2>2, <3>1 DEF DevInv, Shared
    <3>3. ResInv'
      BY <1>1, <2>1, <2>2, <3>1 DEF ResInv, Opening, Shared
    <3>4. QED
      BY <3>2, <3>3
  <2>4. CASE o # "ok"
    <3>1. dev'.role = "single" /\ ~dev'.backend /\ ~d'.owned
      BY <1>1, <2>1, <2>4 DEF TypeOK, Devices, Receivers
    <3>2. DevInv'
      BY <2>2, <3>1 DEF DevInv, Shared
    <3>3. ResInv'
      BY <1>1, <2>1, <2>2, <3>1 DEF ResInv, Opening, Shared
    <3>4. QED
      BY <3>2, <3>3
  <2>5. QED
    BY <2>3, <2>4
<1>7. QuietInv' /\ PauseInv'
  BY <1>1, <1>4 DEF QuietInv, Quiet, Shared, TypeOK, Devices, Receivers, Rest, PauseInv, DevInv
<1>8. KeepInv'
  BY <1>1, <1>4 DEF KeepInv, Sending, FailedCallKeeps, Settings, TypeOK, Devices, Rest
<1>9. AgreeInv'
  BY <1>1, <1>4 DEF AgreeInv, Opening, Sound, InStep, TypeOK, Devices, Receivers, DevInv, Rest
<1>10. QED
  BY <1>4, <1>5, <1>6, <1>7, <1>8, <1>9 DEF IInv

\* ReleaseDevice keeps the invariant: only a device that is not initialised is
\* released, and its connection goes with it.
LEMMA ReleaseKeeps ==
  ASSUME IInv, ReleaseDevice
  PROVE  IInv'
<1> USE DEF IInv
<1>1. /\ api.pc = "rest"
      /\ calls < MaxCalls
      /\ dev.selected
      /\ ~dev.initialized
      /\ ~iq
      /\ api' = [Rest EXCEPT !.pc = "rest", !.call = "release", !.saved = Saved]
      /\ calls' = calls + 1
      /\ dev' = [dev EXCEPT !.selected = FALSE, !.role = "single", !.backend = FALSE]
      /\ d' = IF dev.backend THEN Closed ELSE d
      /\ before' = Settings
      /\ UNCHANGED <<res, agc, lock, param, shadow, dsp, state, iq, doubt>>
  BY DEF ReleaseDevice, Begin, Call
<1>2. dev' \in Devices
  BY <1>1 DEF TypeOK, Devices, ModeNames
<1>3. d' \in Receivers
  BY <1>1 DEF TypeOK, Receivers, Closed
<1>4. TypeOK'
  BY <1>1, <1>2, <1>3, CompatAssumption DEF TypeOK, Rest
<1>5. CallInv'
  BY <1>1, <1>4 DEF CallInv, Pcs, Sending, TypeOK, Devices, Modes, ModeNames, Tuners, Rest
<1>6. DevInv' /\ ResInv'
  BY <1>1, <1>4 DEF DevInv, Shared, TypeOK, Devices, ResInv, Opening, CallInv, Pcs, AgcThreads,
     Receivers, Closed, Rest
<1>7. QuietInv' /\ PauseInv'
  BY <1>1, <1>4 DEF QuietInv, Quiet, Shared, TypeOK, Devices, Receivers, Closed, Rest, PauseInv
<1>8. KeepInv'
  BY <1>1, <1>4 DEF KeepInv, Sending, FailedCallKeeps, Settings, TypeOK, Devices, Rest
<1>9. AgreeInv'
  BY <1>1, <1>4 DEF AgreeInv, Opening, Sound, InStep, TypeOK, Devices, Receivers, Closed, Rest
<1>10. QED
  BY <1>4, <1>5, <1>6, <1>7, <1>8, <1>9 DEF IInv

\* A call refused for its arguments keeps the invariant: it changes no setting.
LEMMA InvalidKeeps ==
  ASSUME IInv, Invalid
  PROVE  IInv'
<1> USE DEF IInv
<1>1. /\ api.pc = "rest"
      /\ calls < MaxCalls
      /\ api' = [Rest EXCEPT !.pc = "failed", !.call = "invalid", !.saved = Saved]
      /\ calls' = calls + 1
      /\ before' = Settings
      /\ UNCHANGED <<dev, res, agc, lock, param, shadow, dsp, state, iq, d, doubt>>
  BY DEF Invalid, Begin, Call
<1>2. TypeOK'
  BY <1>1, CompatAssumption DEF TypeOK, Rest
<1>3. DevInv'
  BY <1>1 DEF DevInv, Shared
<1>4. CallInv'
  BY <1>1, <1>2 DEF CallInv, Pcs, Sending, TypeOK, Devices, Modes, ModeNames, Tuners, Rest
<1>5. ResInv'
  BY <1>1, <1>2 DEF ResInv, DevInv, Opening, Shared, CallInv, Pcs, TypeOK, Devices, AgcThreads,
     Receivers, Rest
<1>6. QuietInv' /\ PauseInv'
  BY <1>1, <1>2 DEF QuietInv, Quiet, Shared, TypeOK, Devices, Receivers, Rest, PauseInv
<1>7. KeepInv'
  BY <1>1, <1>2 DEF KeepInv, Sending, FailedCallKeeps, Settings, TypeOK, Devices, Rest
<1>8. AgreeInv'
  BY <1>1, <1>2 DEF AgreeInv, Opening, Sound, InStep, TypeOK, Devices, Receivers, Rest
<1>9. QED
  BY <1>2, <1>3, <1>4, <1>5, <1>6, <1>7, <1>8 DEF IInv

\* The begin of Uninit keeps the invariant: a role of its own tells the AGC thread to
\* stop, a shared one asks the daemon first.
LEMMA UninitCallKeeps ==
  ASSUME IInv, UninitCall
  PROVE  IInv'
<1> USE DEF IInv
<1>1. /\ api.pc = "rest"
      /\ calls < MaxCalls
      /\ dev.initialized
      /\ api' = [Rest EXCEPT !.pc = IF Shared THEN "uninit_stop" ELSE "join", !.call = "uninit",
                             !.saved = Saved]
      /\ calls' = calls + 1
      /\ agc' = [agc EXCEPT !.stop = ~Shared]
      /\ before' = Settings
      /\ UNCHANGED <<dev, res, lock, param, shadow, dsp, state, iq, d, doubt>>
  BY DEF UninitCall, Begin, Call
<1>2. agc' \in AgcThreads
  BY <1>1 DEF TypeOK, AgcThreads, Shared
<1>3. TypeOK'
  BY <1>1, <1>2, CompatAssumption DEF TypeOK, AgcThreads, Rest
<1>4. DevInv'
  BY <1>1 DEF DevInv, Shared
<1>5. CallInv'
  BY <1>1, <1>3 DEF CallInv, Pcs, Sending, TypeOK, Devices, Modes, ModeNames, Tuners, Rest
<1>6. ResInv'
  BY <1>1, <1>3 DEF ResInv, DevInv, Opening, Shared, CallInv, Pcs, TypeOK, Devices, AgcThreads,
     Receivers, Rest
<1>7. QuietInv' /\ PauseInv'
  BY <1>1, <1>3 DEF QuietInv, Quiet, Shared, TypeOK, Devices, Receivers, Rest, PauseInv
<1>8. KeepInv'
  BY <1>1, <1>3 DEF KeepInv, Sending, FailedCallKeeps, Settings, TypeOK, Devices, Rest
<1>9. AgreeInv'
  BY <1>1, <1>3 DEF AgreeInv, Opening, Sound, InStep, TypeOK, Devices, Receivers, Rest
<1>10. QED
  BY <1>3, <1>4, <1>5, <1>6, <1>7, <1>8, <1>9 DEF IInv

\* The begin of Init keeps the invariant: buffers are allocated, and both tuners'
\* signal processing configured, before the connection is opened.
LEMMA InitCallKeeps ==
  ASSUME IInv, NEW p \in Modes, InitCall(p)
  PROVE  IInv'
<1> USE DEF IInv
<1>1. /\ api.pc = "rest"
      /\ calls < MaxCalls
      /\ dev.selected
      /\ ~dev.initialized
      /\ api' = [Rest EXCEPT !.pc = "init_open", !.call = "init", !.saved = Saved]
      /\ calls' = calls + 1
      /\ res' = [res EXCEPT !.buffers = TRUE]
      /\ param' = p
      /\ dsp' = [t \in Tuners |-> IF t \in Active(dev.mode, dev.tuner) THEN dev.rate ELSE dsp[t]]
      /\ before' = Settings
      /\ UNCHANGED <<dev, agc, lock, shadow, state, iq, d, doubt>>
  BY DEF InitCall, Begin, Call
<1>2. dsp' \in [Tuners -> Rates] /\ res' \in [buffers : BOOLEAN, callbacks : BOOLEAN]
  BY <1>1 DEF TypeOK, Devices
<1>3. TypeOK'
  BY <1>1, <1>2, CompatAssumption DEF TypeOK, Rest
<1>4. DevInv'
  BY <1>1 DEF DevInv, Shared
<1>5. CallInv'
  BY <1>1, <1>3 DEF CallInv, Pcs, Sending, TypeOK, Devices, Modes, ModeNames, Tuners, Rest
<1>6. ResInv'
  BY <1>1, <1>3 DEF ResInv, DevInv, Opening, Shared, CallInv, Pcs, TypeOK, Devices, AgcThreads,
     Receivers, Rest
<1>7. QuietInv' /\ PauseInv'
  BY <1>1, <1>3 DEF QuietInv, Quiet, Shared, TypeOK, Devices, Receivers, Rest, PauseInv
<1>8. KeepInv'
  BY <1>1, <1>3 DEF KeepInv, Sending, FailedCallKeeps, Settings, TypeOK, Devices, Rest
<1>9. AgreeInv'
  BY <1>1, <1>3 DEF AgreeInv, Opening, Sound, InStep, TypeOK, Devices, Receivers, Active, Tuners,
     Rest
<1>10. QED
  BY <1>3, <1>4, <1>5, <1>6, <1>7, <1>8, <1>9 DEF IInv

\* The begin of Update keeps the invariant: it copies what it is about to change.
LEMMA UpdateCallKeeps ==
  ASSUME IInv, NEW ts \in SUBSET Tuners, NEW fs \in BOOLEAN, NEW withAgc \in BOOLEAN, NEW p \in
         Modes,
         NEW rate \in Rates, UpdateCall(ts, fs, withAgc, p, rate)
  PROVE  IInv'
<1> USE DEF IInv
<1>1. /\ api.pc = "rest"
      /\ calls < MaxCalls
      /\ dev.initialized
      /\ ts # {}
      /\ ts \subseteq Active(dev.mode, dev.tuner)
      /\ (fs => dev.mode # "dual")
      /\ (~fs => rate = dev.rate)
      /\ api' = [Rest EXCEPT !.pc = "update", !.todo = ts, !.fs = fs, !.agc = withAgc,
                             !.call = IF ts = Tuners THEN "update_both" ELSE "update",
                             !.saved = Saved]
      /\ calls' = calls + 1
      /\ dev' = [dev EXCEPT !.rate = rate]
      /\ param' = p
      /\ before' = Settings
      /\ UNCHANGED <<res, agc, lock, shadow, dsp, state, iq, d, doubt>>
  BY DEF UpdateCall, Call
<1>2. dev' \in Devices
  BY <1>1 DEF TypeOK, Devices, ModeNames
<1>3. TypeOK'
  BY <1>1, <1>2, CompatAssumption DEF TypeOK, Rest
<1>4. CallInv'
  BY <1>1, <1>3 DEF CallInv, Pcs, Sending, TypeOK, Devices, Modes, ModeNames, Tuners, Saved, Rest
<1>5. DevInv' /\ ResInv'
  BY <1>1, <1>3 DEF DevInv, Shared, TypeOK, Devices, ResInv, Opening, CallInv, Pcs, AgcThreads,
     Receivers, Rest
<1>6. QuietInv' /\ PauseInv'
  BY <1>1, <1>3 DEF QuietInv, Quiet, Shared, TypeOK, Devices, Receivers, Rest, PauseInv
<1>7. KeepInv'
  BY <1>1, <1>3 DEF KeepInv, Sending, FailedCallKeeps, Settings, TypeOK, Devices, Saved, Rest
<1>8. AgreeInv'
  BY <1>1, <1>3 DEF AgreeInv, Opening, Sound, InStep, TypeOK, Devices, Receivers, Saved, Rest
<1>9. QED
  BY <1>3, <1>4, <1>5, <1>6, <1>7, <1>8 DEF IInv

\* So does the begin of SwapRspDuoActiveTuner, with the same copies ...
LEMMA SwapTunerKeeps ==
  ASSUME IInv, SwapTuner
  PROVE  IInv'
<1> USE DEF IInv
<1>1. /\ api.pc = "rest"
      /\ calls < MaxCalls
      /\ dev.initialized
      /\ dev.mode = "single"
      /\ api' = [Rest EXCEPT !.pc = "swap", !.call = "swap_tuner", !.tuner = Other(dev.tuner),
                             !.saved = Saved]
      /\ calls' = calls + 1
      /\ param' = [param EXCEPT ![Other(dev.tuner)] = param[dev.tuner]]
      /\ before' = Settings
      /\ UNCHANGED <<dev, res, agc, lock, shadow, dsp, state, iq, d, doubt>>
  BY DEF SwapTuner, Call
<1>2. TypeOK'
  BY <1>1, CompatAssumption DEF TypeOK, Rest, Modes, Other, Tuners, Devices
<1>3. DevInv'
  BY <1>1 DEF DevInv, Shared
<1>4. CallInv'
  BY <1>1, <1>2 DEF CallInv, Pcs, Sending, TypeOK, Devices, Modes, ModeNames, Tuners, Saved,
     Other, Rest
<1>5. ResInv'
  BY <1>1, <1>2 DEF ResInv, DevInv, Opening, Shared, CallInv, Pcs, TypeOK, Devices, AgcThreads,
     Receivers, Rest
<1>6. QuietInv' /\ PauseInv'
  BY <1>1, <1>2 DEF QuietInv, Quiet, Shared, TypeOK, Devices, Receivers, Rest, PauseInv
<1>7. KeepInv'
  BY <1>1, <1>2 DEF KeepInv, Sending, FailedCallKeeps, Settings, TypeOK, Devices, Saved, Rest
<1>8. AgreeInv'
  BY <1>1, <1>2 DEF AgreeInv, Opening, Sound, InStep, TypeOK, Devices, Receivers, Saved, Rest
<1>9. QED
  BY <1>2, <1>3, <1>4, <1>5, <1>6, <1>7, <1>8 DEF IInv

\* ... of SwapRspDuoMode ...
LEMMA SwapModeKeeps ==
  ASSUME IInv, NEW mode \in {"single", "dual"}, NEW t \in Tuners, NEW rate \in Rates,
         SwapMode(mode, t, rate)
  PROVE  IInv'
<1> USE DEF IInv
<1>1. /\ api.pc = "rest"
      /\ calls < MaxCalls
      /\ dev.initialized
      /\ api' = [Rest EXCEPT !.pc = "swap", !.call = "swap_mode", !.tuner = t, !.mode = mode,
                             !.saved = Saved]
      /\ calls' = calls + 1
      /\ dev' = [dev EXCEPT !.rate = rate]
      /\ before' = Settings
      /\ UNCHANGED <<res, agc, lock, param, shadow, dsp, state, iq, d, doubt>>
  BY DEF SwapMode, Call
<1>2. dev' \in Devices
  BY <1>1 DEF TypeOK, Devices, ModeNames
<1>3. TypeOK'
  BY <1>1, <1>2, CompatAssumption DEF TypeOK, Rest
<1>4. CallInv'
  BY <1>1, <1>3 DEF CallInv, Pcs, Sending, TypeOK, Devices, Modes, ModeNames, Tuners, Saved, Rest
<1>5. DevInv' /\ ResInv'
  BY <1>1, <1>3 DEF DevInv, Shared, TypeOK, Devices, ResInv, Opening, CallInv, Pcs, AgcThreads,
     Receivers, Rest
<1>6. QuietInv' /\ PauseInv'
  BY <1>1, <1>3 DEF QuietInv, Quiet, Shared, TypeOK, Devices, Receivers, Rest, PauseInv
<1>7. KeepInv'
  BY <1>1, <1>3 DEF KeepInv, Sending, FailedCallKeeps, Settings, TypeOK, Devices, Saved, Rest
<1>8. AgreeInv'
  BY <1>1, <1>3 DEF AgreeInv, Opening, Sound, InStep, TypeOK, Devices, Receivers, Saved, Rest
<1>9. QED
  BY <1>3, <1>4, <1>5, <1>6, <1>7, <1>8 DEF IInv

\* ... and of SwapRspDuoDualTunerModeSampleRate, which only a master may call.
LEMMA SwapRateKeeps ==
  ASSUME IInv, NEW rate \in Rates, SwapRate(rate)
  PROVE  IInv'
<1> USE DEF IInv
<1>1. /\ api.pc = "rest"
      /\ calls < MaxCalls
      /\ dev.initialized
      /\ dev.role = "master"
      /\ api' = [Rest EXCEPT !.pc = "swap", !.call = "swap_rate", !.tuner = "A", !.mode =
                             "master", !.saved = Saved]
      /\ calls' = calls + 1
      /\ dev' = [dev EXCEPT !.rate = rate]
      /\ before' = Settings
      /\ UNCHANGED <<res, agc, lock, param, shadow, dsp, state, iq, d, doubt>>
  BY DEF SwapRate, Call
<1>2. dev' \in Devices
  BY <1>1 DEF TypeOK, Devices, ModeNames
<1>3. TypeOK'
  BY <1>1, <1>2, CompatAssumption DEF TypeOK, Rest
<1>4. CallInv'
  BY <1>1, <1>3 DEF CallInv, Pcs, Sending, TypeOK, Devices, Modes, ModeNames, Tuners, Saved, Rest
<1>5. DevInv' /\ ResInv'
  BY <1>1, <1>3 DEF DevInv, Shared, TypeOK, Devices, ResInv, Opening, CallInv, Pcs, AgcThreads,
     Receivers, Rest
<1>6. QuietInv' /\ PauseInv'
  BY <1>1, <1>3 DEF QuietInv, Quiet, Shared, TypeOK, Devices, Receivers, Rest, PauseInv
<1>7. KeepInv'
  BY <1>1, <1>3 DEF KeepInv, Sending, FailedCallKeeps, Settings, TypeOK, Devices, Saved, Rest
<1>8. AgreeInv'
  BY <1>1, <1>3 DEF AgreeInv, Opening, Sound, InStep, TypeOK, Devices, Receivers, Saved, Rest
<1>9. QED
  BY <1>3, <1>4, <1>5, <1>6, <1>7, <1>8 DEF IInv
-----------------------------------------------------------------------------
(* The AGC thread and the connection *)

\* agc_thread keeps the invariant when it chooses a tuner, which it does only while it
\* is not told to stop ...
LEMMA AgcReadKeeps ==
  ASSUME IInv, NEW t \in Tuners, AgcRead(t)
  PROVE  IInv'
<1> USE DEF IInv
<1>1. /\ agc.at = "idle"
      /\ ~agc.stop
      /\ agc' = [agc EXCEPT !.at = "chosen", !.tuner = t]
      /\ UNCHANGED <<api, calls, dev, res, lock, param, shadow, dsp, state, iq, d, doubt, before>>
  BY DEF AgcRead
<1>2. agc' \in AgcThreads
  BY <1>1 DEF TypeOK, AgcThreads
<1>3. TypeOK'
  BY <1>1, <1>2 DEF TypeOK, AgcThreads
<1>4. CallInv' /\ DevInv' /\ QuietInv' /\ KeepInv' /\ PauseInv' /\ AgreeInv'
  BY <1>1 DEF CallInv, Active, DevInv, Shared, QuietInv, Quiet, KeepInv, FailedCallKeeps,
     Settings, PauseInv, AgreeInv, Sound, InStep
<1>5. ResInv'
  BY <1>1, <1>3 DEF ResInv, DevInv, Opening, Shared, CallInv, Pcs, TypeOK, Devices, AgcThreads,
     Receivers
<1>6. QED
  BY <1>3, <1>4, <1>5 DEF IInv

\* ... when it takes hardware_lock, which nobody has ...
LEMMA AgcLockKeeps ==
  ASSUME IInv, AgcLock
  PROVE  IInv'
<1> USE DEF IInv
<1>1. /\ agc.at = "chosen"
      /\ lock = "free"
      /\ agc' = [agc EXCEPT !.at = "locked"]
      /\ lock' = "agc"
      /\ UNCHANGED <<api, calls, dev, res, param, shadow, dsp, state, iq, d, doubt, before>>
  BY DEF AgcLock
<1>2. agc' \in AgcThreads
  BY <1>1 DEF TypeOK, AgcThreads
<1>3. TypeOK'
  BY <1>1, <1>2 DEF TypeOK, AgcThreads
<1>4. CallInv' /\ DevInv' /\ QuietInv' /\ KeepInv' /\ PauseInv' /\ AgreeInv'
  BY <1>1 DEF CallInv, Active, DevInv, Shared, QuietInv, Quiet, KeepInv, FailedCallKeeps,
     Settings, PauseInv, AgreeInv, Sound, InStep
<1>5. ResInv'
  BY <1>1, <1>3 DEF ResInv, DevInv, Opening, Shared, CallInv, Pcs, TypeOK, Devices, AgcThreads,
     Receivers
<1>6. QED
  BY <1>3, <1>4, <1>5 DEF IInv

\* ... when it sends a gain: a receiver in recovery that adopts its tuner leaves a
\* doubt ...
LEMMA AgcSendKeeps ==
  ASSUME IInv, NEW o \in Updates, AgcSend(o)
  PROVE  IInv'
<1> USE DEF IInv
<1>1. /\ agc.at = "locked"
      /\ agc' = [agc EXCEPT !.at = "idle"]
      /\ lock' = "free"
      /\ d' = IF d.mode = "single" /\ agc.tuner # d.tuner /\ o = "queued" THEN [d EXCEPT !.tuner =
                 agc.tuner] ELSE d
      /\ doubt' = IF d.mode = "single" /\ agc.tuner # d.tuner /\ o = "queued" THEN doubt \union
                     {"adopted"} ELSE doubt
      /\ UNCHANGED <<api, calls, dev, res, param, shadow, dsp, state, iq, before>>
  BY DEF AgcSend
<1>2. agc' \in AgcThreads
  BY <1>1 DEF TypeOK, AgcThreads
<1>3. d' \in Receivers
  BY <1>1 DEF TypeOK, Receivers, AgcThreads
<1>4. TypeOK'
  BY <1>1, <1>2, <1>3 DEF TypeOK, AgcThreads
<1>5. CallInv' /\ DevInv' /\ KeepInv'
  BY <1>1 DEF CallInv, Active, DevInv, Shared, KeepInv, FailedCallKeeps, Settings
<1>6. ResInv'
  BY <1>1, <1>4 DEF ResInv, DevInv, Opening, Shared, CallInv, Pcs, TypeOK, Devices, AgcThreads,
     Receivers
<1>7. QuietInv' /\ PauseInv'
  BY <1>1, <1>4 DEF QuietInv, Quiet, Shared, TypeOK, Devices, Receivers, PauseInv
<1>8. AgreeInv'
  BY <1>1, <1>4, SMTT(20) DEF AgreeInv, Opening, Sound, InStep, TypeOK, Devices, Receivers, ResInv
<1>9. QED
  BY <1>4, <1>5, <1>6, <1>7, <1>8 DEF IInv

\* ... and when it ends, which is only while Init or Uninit waits for it.
LEMMA AgcExitKeeps ==
  ASSUME IInv, AgcExit
  PROVE  IInv'
<1> USE DEF IInv
<1>1. /\ agc.at = "idle"
      /\ agc.stop
      /\ agc' = [agc EXCEPT !.at = "none"]
      /\ UNCHANGED <<api, calls, dev, res, lock, param, shadow, dsp, state, iq, d, doubt, before>>
  BY DEF AgcExit
<1>2. agc' \in AgcThreads
  BY <1>1 DEF TypeOK, AgcThreads
<1>3. TypeOK'
  BY <1>1, <1>2 DEF TypeOK, AgcThreads
<1>4. CallInv' /\ DevInv' /\ QuietInv' /\ KeepInv' /\ PauseInv' /\ AgreeInv'
  BY <1>1 DEF CallInv, Active, DevInv, Shared, QuietInv, Quiet, KeepInv, FailedCallKeeps,
     Settings, PauseInv, AgreeInv, Sound, InStep
<1>5. ResInv'
  BY <1>1, <1>3 DEF ResInv, DevInv, Opening, Shared, CallInv, Pcs, TypeOK, Devices, AgcThreads,
     Receivers
<1>6. QED
  BY <1>3, <1>4, <1>5 DEF IInv

\* A stream callback that begins keeps the invariant: the stream is not paused, and
\* the buffers are there unless a STOP is in doubt ...
LEMMA StreamBeginKeeps ==
  ASSUME IInv, StreamBegin
  PROVE  IInv'
<1> USE DEF IInv
<1>1. /\ d.streaming
      /\ res.buffers
      /\ ~d.paused
      /\ state' = "running"
      /\ iq' = TRUE
      /\ UNCHANGED <<api, calls, dev, res, agc, lock, param, shadow, dsp, d, doubt, before>>
  BY DEF StreamBegin
<1>2. TypeOK'
  BY <1>1, SMTT(20) DEF TypeOK
<1>3. CallInv' /\ DevInv' /\ ResInv' /\ KeepInv'
  BY <1>1 DEF CallInv, Active, DevInv, Shared, ResInv, KeepInv, FailedCallKeeps, Settings
<1>4. QuietInv' /\ PauseInv'
  BY <1>1, <1>2, SMTT(20) DEF QuietInv, Quiet, Shared, TypeOK, Devices, Receivers, ResInv, PauseInv
<1>5. AgreeInv'
  BY <1>1, <1>2 DEF AgreeInv, Opening, Sound, InStep, TypeOK, Devices, Receivers, PauseInv
<1>6. QED
  BY <1>2, <1>3, <1>4, <1>5 DEF IInv

\* ... and so does its return.
LEMMA StreamEndKeeps ==
  ASSUME IInv, StreamEnd
  PROVE  IInv'
<1> USE DEF IInv
<1>1. /\ iq' = FALSE
      /\ UNCHANGED <<api, calls, dev, res, agc, lock, param, shadow, dsp, state, d, doubt, before>>
  BY DEF StreamEnd
<1>2. TypeOK'
  BY <1>1 DEF TypeOK
<1>3. CallInv' /\ DevInv' /\ PauseInv'
  BY <1>1 DEF CallInv, Active, DevInv, PauseInv, Shared
<1>4. ResInv'
  BY <1>1 DEF ResInv, Shared
<1>5. KeepInv'
  BY <1>1 DEF KeepInv, FailedCallKeeps, Settings
<1>6. AgreeInv'
  BY <1>1 DEF AgreeInv, Sound, InStep, Active
<1>7. QuietInv'
  BY <1>1, <1>2 DEF QuietInv, Quiet, Shared, TypeOK, Devices, Receivers
<1>8. QED
  BY <1>2, <1>3, <1>4, <1>5, <1>6, <1>7 DEF IInv

\* A lost connection keeps the invariant: the reader marks the stream as failed.
LEMMA ConnectionLostKeeps ==
  ASSUME IInv, ConnectionLost
  PROVE  IInv'
<1> USE DEF IInv
<1>1. /\ d.up
      /\ dev.backend
      /\ state' = IF dev.initialized THEN "failed" ELSE state
      /\ d' = [d EXCEPT !.up = FALSE, !.owned = FALSE, !.streaming = FALSE]
      /\ UNCHANGED <<api, calls, dev, res, agc, lock, param, shadow, dsp, iq, doubt, before>>
  BY DEF ConnectionLost
<1>2. d' \in Receivers
  BY <1>1 DEF TypeOK, Receivers
<1>3. TypeOK'
  BY <1>1, <1>2 DEF TypeOK
<1>4. CallInv' /\ DevInv' /\ KeepInv'
  BY <1>1 DEF CallInv, Active, DevInv, Shared, KeepInv, FailedCallKeeps, Settings
<1>5. ResInv'
  BY <1>1, <1>3 DEF ResInv, DevInv, Opening, Shared, CallInv, Pcs, TypeOK, Devices, AgcThreads,
     Receivers
<1>6. QuietInv' /\ PauseInv'
  BY <1>1, <1>3 DEF QuietInv, Quiet, Shared, TypeOK, Devices, Receivers, PauseInv
<1>7. AgreeInv'
  BY <1>1, <1>3 DEF AgreeInv, Opening, Sound, InStep, TypeOK, Devices, Receivers
<1>8. QED
  BY <1>3, <1>4, <1>5, <1>6, <1>7 DEF IInv

\* A daemon that is started again keeps the invariant: it has no stream of ours.
LEMMA DaemonBackKeeps ==
  ASSUME IInv, DaemonBack
  PROVE  IInv'
<1> USE DEF IInv
<1>1. /\ ~d.up
      /\ ~dev.backend
      /\ d' = [d EXCEPT !.up = TRUE, !.paused = FALSE]
      /\ UNCHANGED <<api, calls, dev, res, agc, lock, param, shadow, dsp, state, iq, doubt,
                     before>>
  BY DEF DaemonBack
<1>2. d' \in Receivers
  BY <1>1 DEF TypeOK, Receivers
<1>3. TypeOK'
  BY <1>1, <1>2 DEF TypeOK
<1>4. CallInv' /\ DevInv' /\ KeepInv'
  BY <1>1 DEF CallInv, Active, DevInv, Shared, KeepInv, FailedCallKeeps, Settings
<1>5. ResInv'
  BY <1>1, <1>3 DEF ResInv, DevInv, Opening, Shared, CallInv, Pcs, TypeOK, Devices, AgcThreads,
     Receivers
<1>6. QuietInv' /\ PauseInv'
  BY <1>1, <1>3 DEF QuietInv, Quiet, Shared, TypeOK, Devices, Receivers, PauseInv, DevInv
<1>7. AgreeInv'
  BY <1>1, <1>3 DEF AgreeInv, Opening, Sound, InStep, TypeOK, Devices, Receivers, ResInv, DevInv
<1>8. QED
  BY <1>3, <1>4, <1>5, <1>6, <1>7 DEF IInv

\* The return of a call that failed keeps the invariant.
LEMMA ReturnErrorKeeps ==
  ASSUME IInv, ReturnError
  PROVE  IInv'
<1> USE DEF IInv
<1>1. /\ api.pc = "failed"
      /\ api' = [Rest EXCEPT !.call = api.call]
      /\ UNCHANGED <<calls, dev, res, agc, lock, param, shadow, dsp, state, iq, d, doubt, before>>
  BY DEF ReturnError, Done
<1>2. TypeOK'
  BY <1>1 DEF TypeOK, Rest
<1>3. DevInv'
  BY <1>1 DEF DevInv, Shared
<1>4. CallInv'
  BY <1>1, <1>2 DEF CallInv, Pcs, Sending, TypeOK, Devices, Modes, ModeNames, Tuners, Rest
<1>5. ResInv'
  BY <1>1, <1>2 DEF ResInv, DevInv, Opening, Shared, CallInv, Pcs, TypeOK, Devices, AgcThreads,
     Receivers, Rest
<1>6. QuietInv' /\ PauseInv'
  BY <1>1, <1>2 DEF QuietInv, Quiet, Shared, TypeOK, Devices, Receivers, Rest, PauseInv
<1>7. KeepInv'
  BY <1>1, <1>2 DEF KeepInv, Sending, FailedCallKeeps, Settings, TypeOK, Devices, Rest
<1>8. AgreeInv'
  BY <1>1, <1>2 DEF AgreeInv, Opening, Sound, InStep, TypeOK, Devices, Receivers, Rest
<1>9. QED
  BY <1>2, <1>3, <1>4, <1>5, <1>6, <1>7, <1>8 DEF IInv
-----------------------------------------------------------------------------
(* The steps of Init and Uninit *)

\* The common end of an Init that fails and of an Uninit: a connection of its own is
\* closed, the buffers and the callback thread are gone, and so is the AGC thread.
LEMMA GivingUpKeeps ==
  ASSUME IInv,
         api.pc \in {"init_configure", "init_threads", "init_start", "close"}, agc.at = "none",
         \/ api' = [Rest EXCEPT !.pc = "failed", !.call = api.call] /\ api.call = "init"
         \/ api' = [Rest EXCEPT !.call = api.call],
         dev' \in Devices, ~dev'.initialized, dev'.backend <=> Shared,
         dev'.selected = dev.selected, dev'.role = dev.role, dev'.mode = dev.mode,
         dev'.tuner = dev.tuner,
         res' = NoResources,
         d' \in Receivers, d'.paused => Shared, d'.owned => Shared,
         Shared /\ d'.paused => d.paused,
         doubt' \subseteq {"lost", "stop", "unresumed", "adopted"},
         "stop" \notin doubt' => ~d'.streaming /\ ~iq,
         UNCHANGED <<calls, agc, lock, param, shadow, dsp, state, iq, before>>
  PROVE  IInv'
<1> USE DEF IInv
<1>1. /\ api'.pc \in {"rest", "failed"} /\ api'.call = api.call /\ api'.todo = {}
      /\ api'.fs = FALSE /\ api'.agc = FALSE /\ api'.tuner = "A" /\ api'.mode = "single"
      /\ api'.pc = "failed" => api.call = "init"
  BY ZenonT(30) DEF Rest
<1>2. TypeOK'
  BY <1>1 DEF TypeOK, NoResources
<1>3. CallInv'
  BY <1>1 DEF CallInv, Pcs, Sending, Tuners, ModeNames
<1>4. DevInv'
  BY DEF DevInv, Shared, ResInv, Opening
<1>5. ResInv'
  BY <1>1, <1>4 DEF ResInv, DevInv, Opening, Shared, NoResources
<1>6. QuietInv'
  BY <1>1 DEF QuietInv, Quiet
<1>7. KeepInv'
  BY <1>1 DEF KeepInv, Sending, FailedCallKeeps
<1>8. PauseInv'
  BY DEF PauseInv, Shared
<1>9. AgreeInv'
  BY <1>1 DEF AgreeInv, Opening, Sound
<1>10. QED
  BY <1>2, <1>3, <1>4, <1>5, <1>6, <1>7, <1>8, <1>9

\* Init's open keeps the invariant: a connection that cannot be opened leaves no
\* buffers behind.
LEMMA InitOpenKeeps ==
  ASSUME IInv, NEW o \in Outcomes, InitOpen(o)
  PROVE  IInv'
<1> USE DEF IInv
<1>1. CASE o = "ok"
  <2>1. /\ api.pc = "init_open"
        /\ (dev.backend \/ d.up)
        /\ api' = [api EXCEPT !.pc = "init_configure"]
        /\ dev' = [dev EXCEPT !.backend = TRUE]
        /\ d' = [d EXCEPT !.owned = d.up]
        /\ UNCHANGED <<calls, res, agc, lock, param, shadow, dsp, state, iq, doubt, before>>
    BY <1>1 DEF InitOpen, Goto, Possible
  <2>2. dev' \in Devices
    BY <2>1 DEF TypeOK, Devices, ModeNames
  <2>3. d' \in Receivers
    BY <2>1 DEF TypeOK, Receivers
  <2>4. TypeOK'
    BY <2>1, <2>2, <2>3 DEF TypeOK
  <2>5. CallInv'
    BY <2>1, <2>4 DEF CallInv, Pcs, Sending, TypeOK, Devices, Modes, ModeNames, Tuners
  <2>6. DevInv' /\ ResInv'
    BY <2>1, <2>4 DEF DevInv, Shared, TypeOK, Devices, ResInv, Opening, CallInv, Pcs, AgcThreads,
       Receivers
  <2>7. QuietInv' /\ PauseInv'
    BY <2>1, <2>4 DEF QuietInv, Quiet, Shared, TypeOK, Devices, Receivers, PauseInv, ResInv,
       Opening
  <2>8. KeepInv'
    BY <2>1, <2>4 DEF KeepInv, Sending, FailedCallKeeps, Settings, TypeOK, Devices
  <2>9. AgreeInv'
    BY <2>1, <2>4 DEF AgreeInv, Opening, Sound, InStep, TypeOK, Devices, Receivers, Active, ResInv
  <2>10. QED
    BY <2>4, <2>5, <2>6, <2>7, <2>8, <2>9 DEF IInv
<1>2. CASE o # "ok"
  <2>1. /\ api.pc = "init_open"
        /\ ~dev.backend
        /\ api' = [Rest EXCEPT !.pc = "failed", !.call = api.call]
        /\ res' = NoResources
        /\ UNCHANGED <<calls, dev, agc, lock, param, shadow, dsp, state, iq, d, doubt, before>>
    BY <1>2 DEF InitOpen, Failed
  <2>2. TypeOK'
    BY <2>1 DEF TypeOK, Rest, NoResources
  <2>3. DevInv'
    BY <2>1 DEF DevInv, Shared
  <2>4. CallInv'
    BY <2>1, <2>2 DEF CallInv, Pcs, Sending, TypeOK, Devices, Modes, ModeNames, Tuners, Rest
  <2>5. ResInv'
    BY <2>1, <2>2 DEF ResInv, DevInv, Opening, Shared, CallInv, Pcs, TypeOK, Devices, AgcThreads,
       Receivers, NoResources, Rest
  <2>6. QuietInv' /\ PauseInv'
    BY <2>1, <2>2 DEF QuietInv, Quiet, Shared, TypeOK, Devices, Receivers, Rest, PauseInv
  <2>7. KeepInv'
    BY <2>1, <2>2 DEF KeepInv, Sending, FailedCallKeeps, Settings, TypeOK, Devices, CallInv, Rest
  <2>8. AgreeInv'
    BY <2>1, <2>2 DEF AgreeInv, Opening, Sound, InStep, TypeOK, Devices, Receivers, ResInv, Rest
  <2>9. QED
    BY <2>2, <2>3, <2>4, <2>5, <2>6, <2>7, <2>8 DEF IInv
<1>3. QED
  BY <1>1, <1>2

\* Init's CONFIGURE keeps the invariant: the daemon is in step with the library, or
\* Init gives up.
LEMMA InitConfigureKeeps ==
  ASSUME IInv, NEW o \in Outcomes, InitConfigure(o)
  PROVE  IInv'
<1> USE DEF IInv
<1>1. CASE o = "ok"
  <2>1. /\ api.pc = "init_configure"
        /\ api' = [api EXCEPT !.pc = "init_threads"]
        /\ d' = [d EXCEPT !.mode = dev.mode, !.tuner = dev.tuner, !.rate = dev.rate]
        /\ UNCHANGED <<calls, dev, res, agc, lock, param, shadow, dsp, state, iq, doubt, before>>
    BY <1>1 DEF InitConfigure, Goto
  <2>2. d' \in Receivers
    BY <2>1 DEF TypeOK, Receivers, Devices
  <2>3. TypeOK'
    BY <2>1, <2>2 DEF TypeOK
  <2>4. DevInv'
    BY <2>1 DEF DevInv, Shared
  <2>5. CallInv'
    BY <2>1, <2>3 DEF CallInv, Pcs, Sending, TypeOK, Devices, Modes, ModeNames, Tuners
  <2>6. ResInv'
    BY <2>1, <2>3 DEF ResInv, DevInv, Opening, Shared, CallInv, Pcs, TypeOK, Devices, AgcThreads,
       Receivers
  <2>7. QuietInv' /\ PauseInv'
    BY <2>1, <2>3 DEF QuietInv, Quiet, Shared, TypeOK, Devices, Receivers, PauseInv
  <2>8. KeepInv'
    BY <2>1, <2>3 DEF KeepInv, Sending, FailedCallKeeps, Settings, TypeOK, Devices
  <2>9. AgreeInv'
    BY <2>1, <2>3 DEF AgreeInv, Opening, Sound, InStep, TypeOK, Devices, Receivers, ResInv
  <2>10. QED
    BY <2>3, <2>4, <2>5, <2>6, <2>7, <2>8, <2>9 DEF IInv
<1>2. CASE o # "ok"
  <2>1. /\ api.pc = "init_configure" /\ dev' = Disconnected /\ res' = NoResources
        /\ api' = [Rest EXCEPT !.pc = "failed", !.call = api.call]
        /\ d' = IF ~Shared THEN Closed
                ELSE IF o = "lost" THEN [d EXCEPT !.mode = dev.mode, !.tuner = dev.tuner,
                                                  !.rate = dev.rate]
                ELSE d
        /\ UNCHANGED <<calls, agc, lock, param, shadow, dsp, state, iq, doubt, before>>
    BY <1>2 DEF InitConfigure, Failed
  <2>2. /\ dev' \in Devices /\ ~dev'.initialized /\ (dev'.backend <=> Shared)
        /\ dev'.selected = dev.selected /\ dev'.role = dev.role /\ dev'.mode = dev.mode
        /\ dev'.tuner = dev.tuner
    BY <2>1 DEF Disconnected, ResInv, Opening, TypeOK, Devices
  <2>3. /\ d' \in Receivers /\ (d'.paused => Shared) /\ (d'.owned => Shared)
        /\ (Shared /\ d'.paused => d.paused)
        /\ ("stop" \notin doubt => ~d'.streaming /\ ~iq)
    BY <2>1 DEF Closed, ResInv, Opening, QuietInv, Quiet, PauseInv, TypeOK, Receivers, Devices
  <2>4. QED
    BY <2>1, <2>2, <2>3, GivingUpKeeps DEF CallInv, ResInv, TypeOK, Opening
<1>3. QED
  BY <1>1, <1>2

\* Init's thread creation keeps the invariant: the stream state starts afresh, so what
\* was in doubt before is settled.
LEMMA InitThreadsKeeps ==
  ASSUME IInv, InitThreads
  PROVE  IInv'
<1> USE DEF IInv
<1>1. CASE api'.pc = "init_start"
  <2>1. /\ api.pc = "init_threads" /\ api' = [api EXCEPT !.pc = "init_start"]
        /\ dev' = [dev EXCEPT !.initialized = TRUE] /\ res' = [res EXCEPT !.callbacks = TRUE]
        /\ shadow' = [shadow EXCEPT !["A"] = param[dev.tuner], !["B"] = param["B"]]
        /\ state' = "none" /\ agc' = [agc EXCEPT !.stop = FALSE]
        /\ doubt' = doubt \intersect {"stop"}
        /\ UNCHANGED <<calls, lock, param, dsp, iq, d, before>>
    BY <1>1 DEF InitThreads, Goto, Failed, Rest
  <2>2. /\ dev' \in Devices /\ agc' \in AgcThreads
        /\ res' \in [buffers : BOOLEAN, callbacks : BOOLEAN]
    BY <2>1 DEF TypeOK, Devices, AgcThreads
  <2>3. shadow' \in Modes
    BY <2>1 DEF TypeOK, Devices, Modes, Tuners
  <2>4. TypeOK'
    BY <2>1, <2>2, <2>3 DEF TypeOK, AgcThreads
  <2>5. CallInv'
    BY <2>1, <2>4 DEF CallInv, Pcs, Sending, Tuners, ModeNames, TypeOK, Devices
  <2>6. DevInv'
    BY <2>1 DEF DevInv, ResInv, Opening, Shared, TypeOK, Devices
  <2>7. ResInv'
    BY <2>1 DEF ResInv, Opening, Shared, TypeOK, Devices, AgcThreads
  <2>8. QuietInv'
    BY <2>1 DEF QuietInv, Quiet, ResInv, Opening
  <2>9. KeepInv'
    BY <2>1 DEF KeepInv, Sending, FailedCallKeeps
  <2>10. PauseInv'
    BY <2>1 DEF PauseInv, ResInv, Opening
  <2>11. AgreeInv'
    BY <2>1 DEF AgreeInv, Opening, Sound, InStep, TypeOK, Devices, Active
  <2>12. QED
    BY <2>4, <2>5, <2>6, <2>7, <2>8, <2>9, <2>10, <2>11
<1>2. CASE api'.pc # "init_start"
  <2>1. /\ api.pc = "init_threads" /\ dev' = Disconnected /\ res' = NoResources /\ d' = Released
        /\ api' = [Rest EXCEPT !.pc = "failed", !.call = api.call]
        /\ UNCHANGED <<calls, agc, lock, param, shadow, dsp, state, iq, doubt, before>>
    <3>1. ASSUME api' = [api EXCEPT !.pc = "init_start"]
          PROVE  FALSE
      BY <1>2, <3>1
    <3>2. QED
      BY <3>1 DEF InitThreads, Goto, Failed
  <2>2. /\ dev' \in Devices /\ ~dev'.initialized /\ (dev'.backend <=> Shared)
        /\ dev'.selected = dev.selected /\ dev'.role = dev.role /\ dev'.mode = dev.mode
        /\ dev'.tuner = dev.tuner
    BY <2>1 DEF Disconnected, ResInv, Opening, TypeOK, Devices
  <2>3. /\ d' \in Receivers /\ (d'.paused => Shared) /\ (d'.owned => Shared)
        /\ (Shared /\ d'.paused => d.paused)
        /\ ("stop" \notin doubt => ~d'.streaming /\ ~iq)
    BY <2>1 DEF Released, Closed, ResInv, Opening, QuietInv, Quiet, PauseInv, TypeOK, Receivers
  <2>4. QED
    BY <2>1, <2>2, <2>3, GivingUpKeeps DEF CallInv, ResInv, TypeOK, Opening
<1>3. QED
  BY <1>1, <1>2

\* Init's START keeps the invariant: from here on samples may arrive, unless it is
\* refused and Init gives up.
LEMMA InitStartKeeps ==
  ASSUME IInv, NEW o \in Outcomes, InitStart(o)
  PROVE  IInv'
<1> USE DEF IInv
<1>1. CASE o = "ok"
  <2>1. /\ api.pc = "init_start" /\ d' = [d EXCEPT !.streaming = TRUE] /\ d.up /\ ~iq
        /\ \/ agc' = [agc EXCEPT !.at = "idle"] /\ api' = [api EXCEPT !.pc = "init_wait"]
           \/ agc' = agc /\ api' = [api EXCEPT !.pc = "init_stop"]
        /\ UNCHANGED <<calls, dev, res, lock, param, shadow, dsp, state, iq, doubt, before>>
    BY <1>1 DEF InitStart, Goto, Possible
  <2>2. /\ agc' \in AgcThreads /\ agc'.stop = agc.stop
        /\ \/ agc'.at = "idle" /\ api'.pc = "init_wait"
           \/ agc'.at = agc.at /\ api'.pc = "init_stop"
    <3>1. CASE agc' = [agc EXCEPT !.at = "idle"] /\ api' = [api EXCEPT !.pc = "init_wait"]
      BY <3>1 DEF TypeOK, AgcThreads
    <3>2. CASE agc' = agc /\ api' = [api EXCEPT !.pc = "init_stop"]
      BY <3>2 DEF TypeOK
    <3>3. QED
      BY <2>1, <3>1, <3>2
  <2>3. /\ api'.call = api.call /\ api'.todo = api.todo /\ api'.fs = api.fs /\ api'.agc = api.agc
        /\ api'.tuner = api.tuner /\ api'.mode = api.mode
    <3>1. CASE api' = [api EXCEPT !.pc = "init_wait"]
      BY <3>1
    <3>2. CASE api' = [api EXCEPT !.pc = "init_stop"]
      BY <3>2
    <3>3. QED
      BY <2>1, <3>1, <3>2
  <2>4. d' \in Receivers
    BY <2>1 DEF TypeOK, Receivers
  <2>5. TypeOK'
    BY <2>1, <2>2, <2>4 DEF TypeOK, ResInv
  <2>6. CallInv'
    BY <2>1, <2>2, <2>3 DEF CallInv, Pcs, Sending
  <2>7. DevInv' /\ PauseInv'
    BY <2>1, <2>2 DEF DevInv, PauseInv, Shared, TypeOK, Receivers
  <2>8. ResInv'
    BY <2>1, <2>2 DEF ResInv, Opening, Shared, TypeOK, Receivers
  <2>9. QuietInv'
    BY <2>1, <2>2 DEF QuietInv, Quiet, ResInv, Opening, Shared
  <2>10. KeepInv'
    BY <2>1, <2>2 DEF KeepInv, Sending, FailedCallKeeps
  <2>11. AgreeInv'
    BY <2>1, <2>2 DEF AgreeInv, Opening, Sound, InStep, TypeOK, Receivers, Active
  <2>12. QED
    BY <2>5, <2>6, <2>7, <2>8, <2>9, <2>10, <2>11
<1>2. CASE o # "ok"
  <2>1. /\ api.pc = "init_start" /\ dev' = [Disconnected EXCEPT !.initialized = FALSE]
        /\ res' = NoResources /\ api' = [Rest EXCEPT !.pc = "failed", !.call = api.call]
        /\ d' = IF ~Shared THEN Closed ELSE [d EXCEPT !.streaming = o = "lost"]
        /\ doubt' = IF o = "lost" THEN doubt \union {"stop"} ELSE doubt
        /\ UNCHANGED <<calls, agc, lock, param, shadow, dsp, state, iq, before>>
    BY <1>2 DEF InitStart, Failed
  <2>2. /\ dev' \in Devices /\ ~dev'.initialized /\ (dev'.backend <=> Shared)
        /\ dev'.selected = dev.selected /\ dev'.role = dev.role /\ dev'.mode = dev.mode
        /\ dev'.tuner = dev.tuner
    BY <2>1 DEF Disconnected, ResInv, DevInv, Opening, TypeOK, Devices
  <2>3. /\ d' \in Receivers /\ (d'.paused => Shared) /\ (d'.owned => Shared)
        /\ (Shared /\ d'.paused => d.paused)
        /\ ("stop" \notin doubt' => ~d'.streaming /\ ~iq)
    BY <2>1 DEF Closed, QuietInv, Quiet, TypeOK, Receivers
  <2>4. QED
    BY <2>1, <2>2, <2>3, GivingUpKeeps DEF CallInv, ResInv, DevInv, TypeOK, Opening
<1>3. QED
  BY <1>1, <1>2

\* The STOP of a failed Init keeps the invariant: one that is not answered is in doubt.
LEMMA StopSentKeeps ==
  ASSUME IInv, NEW o \in Outcomes, api.pc \in {"init_wait", "init_stop", "init_gain"}, StopSent(o),
         UNCHANGED <<calls, dev, res, lock, param, shadow, dsp, state, iq, before>>
  PROVE  IInv'
<1> USE DEF IInv
<1>1. /\ api' = [api EXCEPT !.pc = "join"] /\ agc' = [agc EXCEPT !.stop = TRUE]
      /\ d' = IF o = "refused" THEN d ELSE [d EXCEPT !.streaming = FALSE]
      /\ doubt' = IF o = "ok" THEN doubt ELSE doubt \union {"stop"}
      /\ (o = "ok" => ~iq)
  BY DEF StopSent, Goto, Possible
<1>2. d' \in Receivers /\ agc' \in AgcThreads
  BY <1>1 DEF TypeOK, Receivers, AgcThreads
<1>3. TypeOK'
  BY <1>1, <1>2 DEF TypeOK, AgcThreads
<1>4. CallInv'
  BY <1>1 DEF CallInv, Pcs, Sending
<1>5. DevInv' /\ PauseInv'
  BY <1>1 DEF DevInv, PauseInv, Shared, TypeOK, Receivers
<1>6. ResInv'
  BY <1>1 DEF ResInv, Opening, Shared, TypeOK, AgcThreads, Receivers
<1>7. QuietInv'
  BY <1>1 DEF QuietInv, Quiet, Shared, ResInv, Opening, TypeOK, Receivers
<1>8. KeepInv'
  BY <1>1 DEF KeepInv, Sending, FailedCallKeeps
<1>9. AgreeInv'
  BY <1>1 DEF AgreeInv, Opening, Sound
<1>10. QED
  BY <1>3, <1>4, <1>5, <1>6, <1>7, <1>8, <1>9

\* Init keeps the invariant when it goes on, or returns, with the stream running.
LEMMA InitRunsKeeps ==
  ASSUME IInv, api.pc \in {"init_wait", "init_gain"}, dev.initialized, agc.at # "none",
         NEW pc \in {"init_gain", "rest"}, api'.pc = pc, api'.call = api.call,
         api'.todo \in SUBSET Tuners, api'.fs \in BOOLEAN, api'.agc \in BOOLEAN,
         api'.tuner \in Tuners, api'.mode \in ModeNames,
         UNCHANGED <<calls, dev, res, agc, lock, param, shadow, dsp, state, iq, d, doubt, before>>
  PROVE  IInv'
<1> USE DEF IInv
<1>1. TypeOK'
  BY DEF TypeOK
<1>2. CallInv'
  BY DEF CallInv, Pcs, Sending
<1>3. DevInv' /\ PauseInv' /\ QuietInv'
  BY DEF DevInv, PauseInv, QuietInv, Quiet, Shared
<1>4. ResInv'
  BY DEF ResInv, DevInv, Opening, Shared
<1>5. KeepInv'
  BY SMTT(20) DEF KeepInv, Sending, FailedCallKeeps
<1>6. AgreeInv'
  BY DEF AgreeInv, Opening, Sound, InStep, Active
<1>7. QED
  BY <1>1, <1>2, <1>3, <1>4, <1>5, <1>6

\* Init's wait for the first samples keeps the invariant, whether they come or not.
LEMMA InitWaitKeeps ==
  ASSUME IInv, NEW o \in Outcomes, InitWait(o)
  PROVE  IInv'
<1>1. CASE api' = [api EXCEPT !.pc = "init_gain"]
  <2>1. /\ api'.pc = "init_gain" /\ api'.call = api.call /\ api'.todo = api.todo
        /\ api'.fs = api.fs /\ api'.agc = api.agc /\ api'.tuner = api.tuner
        /\ api'.mode = api.mode
    BY <1>1
  <2>2. /\ api.pc = "init_wait"
        /\ UNCHANGED <<calls, dev, res, agc, lock, param, shadow, dsp, state, iq, d, doubt,
                       before>>
    <3>1. ASSUME api' = [api EXCEPT !.pc = "join"]
          PROVE  FALSE
      BY <2>1, <3>1
    <3>2. QED
      BY <3>1 DEF InitWait, StopSent, Goto
  <2>3. QED
    BY <2>1, <2>2, InitRunsKeeps DEF IInv, CallInv, ResInv, Opening
<1>2. CASE api' # [api EXCEPT !.pc = "init_gain"]
  BY <1>2, StopSentKeeps DEF InitWait, Goto
<1>3. QED
  BY <1>1, <1>2, SMTT(20)

\* Init's first gain update keeps the invariant, accepted or not.
LEMMA InitGainKeeps ==
  ASSUME IInv, NEW g \in Updates, NEW o \in Outcomes, InitGain(g, o)
  PROVE  IInv'
<1>1. CASE Accepted(g)
  <2>1. /\ api.pc = "init_gain" /\ api' = [Rest EXCEPT !.call = api.call]
        /\ UNCHANGED <<calls, dev, res, agc, lock, param, shadow, dsp, state, iq, d, doubt,
                       before>>
    BY <1>1 DEF InitGain, Done
  <2>2. /\ api'.pc = "rest" /\ api'.call = api.call /\ api'.todo \in SUBSET Tuners
        /\ api'.fs \in BOOLEAN /\ api'.agc \in BOOLEAN /\ api'.tuner \in Tuners
        /\ api'.mode \in ModeNames
    BY <2>1 DEF Rest, Tuners, ModeNames
  <2>3. QED
    BY <2>1, <2>2, InitRunsKeeps DEF IInv, ResInv, Opening
<1>2. CASE ~Accepted(g)
  BY <1>2, StopSentKeeps DEF InitGain
<1>3. QED
  BY <1>1, <1>2

\* The join of the AGC thread keeps the invariant: then a connection of its own is
\* shut down.
LEMMA JoinKeeps ==
  ASSUME IInv, Join
  PROVE  IInv'
<1> USE DEF IInv
<1>1. /\ api.pc = "join" /\ agc.at = "none" /\ api' = [api EXCEPT !.pc = "close"]
      /\ d' = IF Shared THEN d ELSE [d EXCEPT !.streaming = FALSE]
      /\ UNCHANGED <<calls, dev, res, agc, lock, param, shadow, dsp, state, iq, doubt, before>>
  BY DEF Join, Goto
<1>2. d' \in Receivers
  BY <1>1 DEF TypeOK, Receivers
<1>3. TypeOK'
  BY <1>1, <1>2 DEF TypeOK
<1>4. CallInv'
  BY <1>1 DEF CallInv, Pcs, Sending
<1>5. DevInv' /\ PauseInv'
  BY <1>1 DEF DevInv, PauseInv, Shared, TypeOK, Receivers
<1>6. ResInv'
  BY <1>1 DEF ResInv, Opening, Shared
<1>7. QuietInv'
  BY <1>1 DEF QuietInv, Quiet, Shared, ResInv, Opening, TypeOK, Receivers
<1>8. KeepInv'
  BY <1>1 DEF KeepInv, Sending, FailedCallKeeps
<1>9. AgreeInv'
  BY <1>1 DEF AgreeInv, Opening, Sound
<1>10. QED
  BY <1>3, <1>4, <1>5, <1>6, <1>7, <1>8, <1>9

\* The end of Init's error path and of Uninit keeps the invariant: the reader is joined
\* before the buffers are freed.
LEMMA CloseKeeps ==
  ASSUME IInv, Close
  PROVE  IInv'
<1> USE DEF IInv
<1>1. /\ api.pc = "close" /\ (Shared \/ ~iq) /\ res' = NoResources /\ d' = Released
      /\ dev' = [Disconnected EXCEPT !.initialized = FALSE]
      /\ UNCHANGED <<calls, agc, lock, param, shadow, dsp, state, iq, doubt, before>>
  BY DEF Close
<1>2. \/ api' = [Rest EXCEPT !.pc = "failed", !.call = api.call] /\ api.call = "init"
      \/ api' = [Rest EXCEPT !.call = api.call]
  BY Zenon DEF Close, Failed, Done
<1>3. /\ dev' \in Devices /\ ~dev'.initialized /\ (dev'.backend <=> Shared)
      /\ dev'.selected = dev.selected /\ dev'.role = dev.role /\ dev'.mode = dev.mode
      /\ dev'.tuner = dev.tuner
  BY <1>1 DEF Disconnected, ResInv, DevInv, Opening, TypeOK, Devices
<1>4. /\ d' \in Receivers /\ (d'.paused => Shared) /\ (d'.owned => Shared)
      /\ (Shared /\ d'.paused => d.paused)
      /\ ("stop" \notin doubt => ~d'.streaming /\ ~iq)
  BY <1>1 DEF Released, Closed, QuietInv, Quiet, TypeOK, Receivers
<1>5. agc.at = "none" /\ doubt \subseteq {"lost", "stop", "unresumed", "adopted"}
  BY <1>1 DEF ResInv, TypeOK
<1>6. QED
  BY <1>1, <1>2, <1>3, <1>4, <1>5, GivingUpKeeps

\* The STOP of a shared role's Uninit keeps the invariant: the role stays initialised
\* unless the daemon agrees.
LEMMA UninitStopKeeps ==
  ASSUME IInv, NEW o \in Outcomes, UninitStop(o)
  PROVE  IInv'
<1> USE DEF IInv
<1>1. /\ api.pc = "uninit_stop" /\ d' \in Receivers
      /\ d' = IF o = "refused" THEN d ELSE [d EXCEPT !.streaming = FALSE]
      /\ (o = "ok" => ~iq)
      /\ doubt' = IF o = "lost" THEN doubt \union {"lost"} ELSE doubt
      /\ UNCHANGED <<calls, dev, res, lock, param, shadow, dsp, state, iq, before>>
  BY DEF UninitStop, Doubted, Possible, TypeOK, Receivers
<1>2. DevInv' /\ PauseInv'
  BY <1>1 DEF DevInv, PauseInv, Shared, TypeOK, Receivers
<1>3. CASE o = "ok"
  <2>1. api' = [api EXCEPT !.pc = "join"] /\ agc' = [agc EXCEPT !.stop = TRUE]
    BY <1>3 DEF UninitStop, Goto
  <2>2. TypeOK'
    <3>1. agc' \in AgcThreads /\ agc'.at = agc.at
      BY <2>1 DEF TypeOK, AgcThreads
    <3>2. QED
      BY <1>1, <2>1, <3>1 DEF TypeOK
  <2>3. CallInv'
    BY <1>1, <2>1 DEF CallInv, Pcs, Sending
  <2>4. ResInv'
    BY <1>1, <2>1 DEF ResInv, Opening, Shared, TypeOK, AgcThreads
  <2>5. QuietInv'
    BY <1>1, <1>3, <2>1 DEF QuietInv, Quiet, ResInv, Opening, TypeOK, Receivers
  <2>6. KeepInv'
    BY <1>1, <2>1 DEF KeepInv, Sending, FailedCallKeeps
  <2>7. AgreeInv'
    BY <1>1, <2>1 DEF AgreeInv, Opening, Sound
  <2>8. QED
    BY <1>2, <2>2, <2>3, <2>4, <2>5, <2>6, <2>7
<1>4. CASE o # "ok"
  <2>1. api' = [Rest EXCEPT !.pc = "failed", !.call = api.call] /\ agc' = agc
    BY <1>4 DEF UninitStop, Failed
  <2>2. TypeOK'
    BY <1>1, <2>1 DEF TypeOK, Rest
  <2>3. CallInv'
    BY <1>1, <2>1 DEF CallInv, Pcs, Sending, Rest, Tuners, ModeNames
  <2>4. ResInv'
    BY <1>1, <2>1 DEF ResInv, DevInv, Opening, Shared, Rest
  <2>5. QuietInv'
    BY <1>1, <2>1 DEF QuietInv, Quiet, ResInv, Opening, Rest
  <2>6. KeepInv'
    BY <1>1, <2>1 DEF KeepInv, Sending, FailedCallKeeps, Settings, Rest
  <2>7. AgreeInv'
    BY <1>1, <1>4, <2>1 DEF AgreeInv, Opening, Sound, InStep, Active, Rest, Outcomes
  <2>8. QED
    BY <1>2, <2>2, <2>3, <2>4, <2>5, <2>6, <2>7
<1>5. QED
  BY <1>3, <1>4

\* The failure path of an update or a swap: the copies are put back, and a daemon
\* that did change has left a doubt.
LEMMA UndoneKeeps ==
  ASSUME IInv, api.pc \in {"update_send", "swap_send"}, Undone, Failed, lock' = "free",
         d' \in Receivers, d'.up = d.up, d'.owned = d.owned, d'.streaming = d.streaming,
         d'.paused => d.paused \/ (~Shared /\ "lost" \in doubt'),
         d' = d \/ "lost" \in doubt',
         doubt \subseteq doubt', doubt' \subseteq {"lost", "stop", "unresumed", "adopted"},
         UNCHANGED <<calls, res, agc, state, iq, before>>
  PROVE  IInv'
<1> USE DEF IInv
<1>1. /\ api'.pc = "failed" /\ api'.call = api.call /\ api'.todo = {} /\ api'.fs = FALSE
      /\ api'.agc = FALSE /\ api'.tuner = "A" /\ api'.mode = "single"
  BY DEF Failed, Rest
<1>2. /\ dev' = [dev EXCEPT !.rate = api.saved.rate] /\ shadow' = api.saved.shadow
      /\ dsp' = api.saved.dsp /\ param' = api.saved.param
      /\ api.saved \in [param : Modes, rate : Rates, shadow : Modes, dsp : [Tuners -> Rates]]
      /\ dev.initialized
  BY DEF Undone, CallInv, Sending, ResInv, Opening
<1>3. dev' \in Devices
  BY <1>2 DEF TypeOK, Devices
<1>4. TypeOK'
  BY <1>1, <1>2, <1>3, SMTT(20) DEF TypeOK
<1>5. CallInv'
  BY <1>1 DEF CallInv, Pcs, Sending, Tuners, ModeNames
<1>6. DevInv'
  BY <1>2 DEF DevInv, Shared, TypeOK, Devices
<1>7. ResInv'
  BY <1>1, <1>2, <1>6 DEF ResInv, DevInv, Opening, Shared, TypeOK, Devices
<1>8. QuietInv'
  BY <1>1, <1>2 DEF QuietInv, TypeOK, Devices
<1>9. KeepInv'
  BY <1>1, <1>2 DEF KeepInv, Sending, FailedCallKeeps, Settings, TypeOK, Devices
<1>10. PauseInv'
  BY <1>1, <1>2 DEF PauseInv, Shared, TypeOK, Devices
<1>11. AgreeInv'
  BY <1>1, <1>2 DEF AgreeInv, Opening, Sound, InStep, Active, TypeOK, Devices
<1>12. QED
  BY <1>4, <1>5, <1>6, <1>7, <1>8, <1>9, <1>10, <1>11
-----------------------------------------------------------------------------
(* The steps of Update and the swaps *)

\* Update keeps the invariant when it installs AGC mode and rate under hardware_lock.
LEMMA UpdateLockKeeps ==
  ASSUME IInv, UpdateLock
  PROVE  IInv'
<1> USE DEF IInv
<1>1. /\ api.pc = "update" /\ lock = "free" /\ lock' = "api"
      /\ api' = [api EXCEPT !.pc = "update_send", !.saved.shadow = shadow, !.saved.dsp = dsp]
      /\ shadow' = IF api.agc THEN [shadow EXCEPT ![Turn] = param[Turn]] ELSE shadow
      /\ dsp' = IF api.fs THEN [dsp EXCEPT ![Turn] = dev.rate] ELSE dsp
      /\ UNCHANGED <<calls, dev, res, agc, param, state, iq, d, doubt, before>>
  BY DEF UpdateLock
<1>2. Turn \in api.todo /\ Turn \in Tuners
  BY <1>1 DEF Turn, CallInv, Tuners
<1>3. api.saved \in [param : Modes, rate : Rates, shadow : Modes, dsp : [Tuners -> Rates]]
  BY <1>1 DEF CallInv, Sending
<1>4. /\ api'.pc = "update_send" /\ api'.call = api.call /\ api'.todo = api.todo
      /\ api'.fs = api.fs /\ api'.agc = api.agc /\ api'.tuner = api.tuner /\ api'.mode = api.mode
      /\ api'.saved = [api.saved EXCEPT !.shadow = shadow, !.dsp = dsp]
  BY <1>1
<1>5. shadow' \in Modes /\ dsp' \in [Tuners -> Rates]
  BY <1>1, <1>2 DEF TypeOK, Modes, Devices
<1>6. TypeOK'
  BY <1>1, <1>4, <1>5 DEF TypeOK
<1>7. /\ api'.saved \in [param : Modes, rate : Rates, shadow : Modes, dsp : [Tuners -> Rates]]
      /\ api'.saved.rate = api.saved.rate /\ api'.saved.shadow = shadow /\ api'.saved.dsp = dsp
  BY <1>3, <1>4, ZenonT(30) DEF TypeOK
<1>8. CallInv'
  BY <1>1, <1>4, <1>7 DEF CallInv, Pcs, Sending, Active
<1>9. DevInv' /\ PauseInv' /\ QuietInv'
  BY <1>1, <1>4 DEF DevInv, PauseInv, QuietInv, Quiet, Shared
<1>10. ResInv'
  BY <1>1, <1>4 DEF ResInv, Opening, Shared
<1>11. KeepInv'
  BY <1>1, <1>4, <1>7 DEF KeepInv, Sending, FailedCallKeeps
<1>12. AgreeInv'
  <2>1. api.fs => api.todo = {dev.tuner} /\ Turn = dev.tuner
    BY <1>1, <1>2 DEF CallInv, Active
  <2>2. Sound => \A t \in Active(dev.mode, dev.tuner) : dsp'[t] = dev.rate
    BY <1>1, <1>2, <2>1 DEF AgreeInv, InStep, CallInv, Active, TypeOK, Tuners
  <2>3. QED
    BY <1>1, <1>4, <1>7, <2>2 DEF AgreeInv, Opening, Sound, InStep, Active
<1>13. QED
  BY <1>6, <1>8, <1>9, <1>10, <1>11, <1>12

\* Update's request keeps the invariant: accepted, both sides are at the new rate;
\* refused, the copies are put back.
LEMMA UpdateSendKeeps ==
  ASSUME IInv, NEW o \in Updates, UpdateSend(o)
  PROVE  IInv'
<1> USE DEF IInv
<1>1. /\ api.pc = "update_send" /\ lock' = "free"
      /\ d' = IF o # "refused" /\ api.fs THEN [d EXCEPT !.rate = dev.rate] ELSE d
      /\ doubt' = IF o = "lost" THEN doubt \union {"lost"} ELSE doubt
      /\ UNCHANGED <<calls, res, agc, state, iq, before>>
  BY DEF UpdateSend, Doubted
<1>2. /\ d' \in Receivers /\ d'.up = d.up /\ d'.owned = d.owned /\ d'.streaming = d.streaming
      /\ d'.paused = d.paused /\ d'.mode = d.mode /\ d'.tuner = d.tuner
  BY <1>1 DEF TypeOK, Receivers, Devices
<1>3. dev.initialized
  BY <1>1 DEF ResInv, Opening
<1>4. CASE ~Accepted(o)
  BY <1>1, <1>2, <1>4, UndoneKeeps DEF UpdateSend, Accepted, Updates, Outcomes, TypeOK
<1>5. CASE Accepted(o)
  <2>1. doubt' = doubt /\ UNCHANGED <<shadow, dsp, param, dev>>
    BY <1>1, <1>5 DEF UpdateSend, Accepted
  <2>2. d'.rate = IF api.fs THEN dev.rate ELSE d.rate
    BY <1>1, <1>5 DEF Accepted, TypeOK, Receivers
  <2>3. /\ api'.pc \in {"rest", "update"} /\ api'.call = api.call
        /\ api'.todo \in SUBSET Tuners /\ api'.fs \in BOOLEAN /\ api'.agc \in BOOLEAN
        /\ api'.tuner \in Tuners /\ api'.mode \in ModeNames
        /\ api'.pc = "update" =>
             /\ api'.todo = api.todo \ {Turn} /\ api'.todo # {}
             /\ api'.fs = api.fs /\ api'.saved = api.saved
    <3>1. CASE api.todo \ {Turn} = {}
      <4>1. api' = [Rest EXCEPT !.call = api.call]
        BY <1>5, <3>1 DEF UpdateSend, Done
      <4>2. QED
        BY <4>1 DEF Rest, Tuners, ModeNames
    <3>2. CASE api.todo \ {Turn} # {}
      <4>1. api' = [api EXCEPT !.pc = "update", !.todo = api.todo \ {Turn}]
        BY <1>5, <3>2 DEF UpdateSend
      <4>2. QED
        BY <3>2, <4>1 DEF CallInv
    <3>3. QED
      BY <3>1, <3>2
  <2>4. api'.pc = "update" => api.call = "update_both" /\ ~api.fs
    <3>1. Turn \in api.todo
      BY <1>1 DEF CallInv, Turn, Tuners
    <3>2. api'.pc = "update" => api.todo = Tuners
      BY <2>3, <3>1 DEF CallInv, Tuners
    <3>3. QED
      BY <1>1, <3>2 DEF CallInv, Active, Tuners
  <2>5. TypeOK'
    BY <1>1, <1>2, <2>1, <2>3 DEF TypeOK
  <2>6. CallInv'
    BY <1>1, <2>1, <2>3, <2>4 DEF CallInv, Pcs, Sending, Active
  <2>7. DevInv' /\ PauseInv' /\ QuietInv'
    BY <1>1, <1>2, <1>3, <2>1, <2>3 DEF DevInv, PauseInv, QuietInv, Quiet, Shared
  <2>8. ResInv'
    BY <1>1, <1>2, <1>3, <2>1, <2>3 DEF ResInv, DevInv, Opening, Shared
  <2>9. KeepInv'
    BY <1>1, <2>3, <2>4, SMTT(20) DEF KeepInv, Sending, FailedCallKeeps
  <2>10. AgreeInv'
    <3>1. Sound' => Sound
      BY <1>1, <1>2, <2>1 DEF Sound
    <3>2. Sound => /\ d.streaming /\ InStep(api.saved.rate, api.saved.dsp)
                   /\ \A t \in Active(dev.mode, dev.tuner) : dsp[t] = dev.rate
      BY <1>1 DEF AgreeInv
    <3>3. Sound => d'.rate = dev.rate
      BY <1>1, <2>2, <3>2, SMTT(20) DEF InStep, CallInv
    <3>4. ~api.fs => dev.rate = api.saved.rate
      BY <1>1 DEF CallInv
    <3>5. QED
      BY <1>2, <1>3, <2>1, <2>3, <2>4, <3>1, <3>2, <3>3, <3>4, SMTT(20)
         DEF AgreeInv, Opening, InStep, Active
  <2>11. QED
    BY <2>5, <2>6, <2>7, <2>8, <2>9, <2>10
<1>6. QED
  BY <1>4, <1>5

\* A swap keeps the invariant when it takes hardware_lock; a rate swap installs the
\* new rate there.
LEMMA SwapLockKeeps ==
  ASSUME IInv, SwapLock
  PROVE  IInv'
<1> USE DEF IInv
<1>1. /\ api.pc = "swap" /\ lock = "free" /\ lock' = "api" /\ api' = [api EXCEPT !.pc =
                                                                                 "swap_send"]
      /\ dsp' = IF api.call = "swap_rate" THEN [dsp EXCEPT !["A"] = dev.rate] ELSE dsp
      /\ UNCHANGED <<calls, dev, res, agc, param, shadow, state, iq, d, doubt, before>>
  BY DEF SwapLock, Goto
<1>2. TypeOK'
  BY <1>1 DEF TypeOK, Devices, Tuners
<1>3. CallInv'
  BY <1>1 DEF CallInv, Pcs, Sending
<1>4. DevInv' /\ PauseInv' /\ QuietInv'
  BY <1>1 DEF DevInv, PauseInv, QuietInv, Quiet, Shared
<1>5. ResInv'
  BY <1>1 DEF ResInv, Opening, Shared
<1>6. KeepInv'
  BY <1>1 DEF KeepInv, Sending, FailedCallKeeps
<1>7. AgreeInv'
  BY <1>1 DEF AgreeInv, Opening, Sound, InStep, Active, TypeOK, Tuners
<1>8. QED
  BY <1>2, <1>3, <1>4, <1>5, <1>6, <1>7

\* A swap's request keeps the invariant: it is undone, or complete (the rate), or the
\* stream waits to be resumed.
LEMMA SwapSendKeeps ==
  ASSUME IInv, NEW o \in Outcomes, SwapSend(o)
  PROVE  IInv'
<1> USE DEF IInv
<1> DEFINE rateSwap == api.call = "swap_rate"
<1>1. /\ api.pc = "swap_send" /\ (Shared /\ ~rateSwap => o = "refused")
      /\ d' = IF o = "refused" THEN d
              ELSE [d EXCEPT !.mode = api.mode, !.tuner = api.tuner, !.rate = dev.rate,
                             !.paused = ~rateSwap /\ d.streaming]
      /\ doubt' = IF o = "lost" THEN doubt \union {"lost"} ELSE doubt
      /\ UNCHANGED <<calls, res, agc, state, iq, before>>
  BY DEF SwapSend, Doubted
<1>2. /\ d' \in Receivers /\ d'.up = d.up /\ d'.owned = d.owned /\ d'.streaming = d.streaming
      /\ (o # "refused" => /\ d'.mode = api.mode /\ d'.tuner = api.tuner /\ d'.rate = dev.rate
                           /\ (d'.paused <=> ~rateSwap /\ d.streaming))
  BY <1>1 DEF TypeOK, Receivers, Devices, CallInv
<1>3. dev.initialized
  BY <1>1 DEF ResInv, Opening
<1>4. CASE o # "ok"
  <2>1. Undone /\ Failed /\ lock' = "free"
    BY <1>4 DEF SwapSend
  <2>2. doubt \subseteq doubt' /\ doubt' \subseteq {"lost", "stop", "unresumed", "adopted"}
    BY <1>1 DEF TypeOK
  <2>3. d' = d \/ "lost" \in doubt'
    BY <1>1, <1>4 DEF Outcomes
  <2>4. d'.paused => d.paused \/ (~Shared /\ "lost" \in doubt')
    BY <1>1, <1>2, <1>4, <2>3
  <2>5. QED
    BY <1>1, <1>2, <2>1, <2>2, <2>3, <2>4, UndoneKeeps
<1>5. CASE o = "ok" /\ rateSwap
  <2>1. /\ api' = [Rest EXCEPT !.call = api.call] /\ lock' = "free" /\ doubt' = doubt
        /\ UNCHANGED <<shadow, dsp, param, dev>>
    BY <1>1, <1>5 DEF SwapSend, Done
  <2>2. TypeOK'
    BY <1>1, <1>2, <2>1 DEF TypeOK, Rest
  <2>3. CallInv'
    BY <2>1 DEF CallInv, Pcs, Sending, Rest, Tuners, ModeNames
  <2>4. DevInv' /\ PauseInv' /\ QuietInv'
    BY <1>1, <1>2, <1>3, <1>5, <2>1 DEF DevInv, PauseInv, QuietInv, Quiet, Shared, Rest
  <2>5. ResInv'
    BY <1>1, <1>2, <1>3, <2>1 DEF ResInv, DevInv, Opening, Shared, Rest
  <2>6. KeepInv'
    BY <2>1 DEF KeepInv, Sending, FailedCallKeeps, Rest
  <2>7. dev.mode = "master" /\ dev.tuner = "A" /\ api.mode = "master" /\ api.tuner = "A"
    BY <1>1, <1>5 DEF CallInv, DevInv, Shared
  <2>8. AgreeInv'
    BY <1>1, <1>2, <1>3, <1>5, <2>1, <2>7, SMTT(20)
       DEF AgreeInv, Opening, Sound, InStep, Active, Rest
  <2>9. QED
    BY <2>2, <2>3, <2>4, <2>5, <2>6, <2>8
<1>6. CASE o = "ok" /\ ~rateSwap
  <2>1. /\ api' = [api EXCEPT !.pc = "resume"] /\ doubt' = doubt /\ ~Shared
        /\ dev' = [dev EXCEPT !.mode = api.mode, !.tuner = api.tuner]
        /\ dsp' = [t \in Tuners |-> IF t \in Active(api.mode, api.tuner) THEN dev.rate ELSE dsp[t]]
        /\ UNCHANGED <<param, lock>>
    BY <1>1, <1>6 DEF SwapSend, SwapInstalled, Goto
  <2>2. shadow' \in Modes
    <3>1. shadow' = IF api.call = "swap_tuner" THEN shadow
                    ELSE IF api.tuner = "B" THEN [shadow EXCEPT !["B"] = param["B"]] ELSE param
      BY <1>6 DEF SwapSend, SwapInstalled
    <3>2. QED
      BY <3>1 DEF TypeOK, Modes, Tuners
  <2>3. dev' \in Devices
    BY <2>1, ZenonT(30) DEF TypeOK, Devices, CallInv
  <2>4. dsp' \in [Tuners -> Rates]
    BY <2>1 DEF TypeOK, Devices
  <2>5. TypeOK'
    BY <1>1, <1>2, <2>1, <2>2, <2>3, <2>4 DEF TypeOK
  <2>6. CallInv'
    BY <2>1 DEF CallInv, Pcs, Sending
  <2>7. DevInv'
    BY <2>1 DEF DevInv, Shared, TypeOK, Devices
  <2>8. ResInv'
    BY <1>1, <1>2, <1>3, <2>1, <2>7 DEF ResInv, DevInv, Opening, Shared, TypeOK, Devices
  <2>9. QuietInv'
    BY <1>3, <2>1 DEF QuietInv, TypeOK, Devices
  <2>10. KeepInv'
    BY <2>1 DEF KeepInv, Sending, FailedCallKeeps
  <2>11. PauseInv'
    BY <1>1, <1>2, <1>3, <2>1 DEF PauseInv, Shared, TypeOK, Devices
  <2>12. AgreeInv'
    <3>1. Sound' => Sound
      BY <1>1, <1>2, <1>3, <2>1 DEF Sound
    <3>2. Sound => d.streaming
      BY <1>1 DEF AgreeInv
    <3>3. /\ dev'.mode = api.mode /\ dev'.tuner = api.tuner /\ dev'.rate = dev.rate
          /\ \A t \in Active(api.mode, api.tuner) : dsp'[t] = dev.rate
      BY <2>1 DEF TypeOK, Devices, CallInv, Active
    <3>4. api'.pc = "resume"
      BY <2>1
    <3>5. QED
      BY <1>2, <1>6, <3>1, <3>2, <3>3, <3>4, SMTT(20) DEF AgreeInv, Opening, InStep
  <2>13. QED
    BY <2>5, <2>6, <2>7, <2>8, <2>9, <2>10, <2>11, <2>12
<1>7. QED
  BY <1>4, <1>5, <1>6

\* RESUME_MODE keeps the invariant: the stream runs again or has failed.
LEMMA ResumeKeeps ==
  ASSUME IInv, NEW o \in Outcomes, Resume(o)
  PROVE  IInv'
<1> USE DEF IInv
<1>1. /\ api.pc = "resume" /\ lock' = "free"
      /\ d' = IF o = "refused" THEN d ELSE [d EXCEPT !.paused = FALSE]
      /\ doubt' = IF o = "ok" THEN doubt ELSE doubt \union {"unresumed"}
      /\ UNCHANGED <<calls, dev, res, agc, param, shadow, dsp, iq, before>>
  BY DEF Resume
<1>2. /\ d' \in Receivers /\ d'.up = d.up /\ d'.owned = d.owned /\ d'.streaming = d.streaming
      /\ d'.mode = d.mode /\ d'.tuner = d.tuner /\ d'.rate = d.rate
      /\ (d'.paused => d.paused /\ o = "refused")
  BY <1>1 DEF TypeOK, Receivers
<1>3. /\ state' \in {"none", "running", "failed"} /\ (state' = state \/ "unresumed" \in doubt')
      /\ (o = "ok" => state' = state)
  BY <1>1 DEF Resume, TypeOK
<1>4. /\ api'.pc = IF o = "ok" THEN "rest" ELSE "failed"
      /\ api'.call = IF o = "ok" THEN api.call ELSE "unresumed"
      /\ api'.todo = {} /\ api'.fs = FALSE /\ api'.agc = FALSE /\ api'.tuner = "A"
      /\ api'.mode = "single"
  BY ZenonT(30) DEF Resume, Done, Rest
<1>5. dev.initialized
  BY <1>1 DEF ResInv, Opening
<1>6. TypeOK'
  BY <1>1, <1>2, <1>3, <1>4 DEF TypeOK
<1>7. CallInv'
  BY <1>4 DEF CallInv, Pcs, Sending, Tuners, ModeNames
<1>8. DevInv' /\ QuietInv'
  BY <1>1, <1>4, <1>5 DEF DevInv, QuietInv, Shared
<1>9. ResInv'
  BY <1>1, <1>2, <1>4, <1>5 DEF ResInv, DevInv, Opening, Shared
<1>10. KeepInv'
  BY <1>4 DEF KeepInv, Sending, FailedCallKeeps
<1>11. PauseInv'
  BY <1>1, <1>2, <1>3, <1>4 DEF PauseInv, Shared
<1>12. AgreeInv'
  BY <1>1, <1>2, <1>3, <1>4 DEF AgreeInv, Opening, Sound, InStep, Active
<1>13. QED
  BY <1>6, <1>7, <1>8, <1>9, <1>10, <1>11, <1>12
-----------------------------------------------------------------------------
(* The theorems *)

\* The invariant holds after sdrplay_api_Open, when no device is selected.
LEMMA InitHolds == Init => IInv
<1> SUFFICES ASSUME Init PROVE IInv
  BY SMTT(20)
<1> USE DEF Init
<1>1. TypeOK
  <2>1. dev \in Devices /\ agc \in AgcThreads /\ d \in Receivers
    BY DEF Devices, AgcThreads, Receivers, ModeNames, Tuners, Rates
  <2>2. res \in [buffers : BOOLEAN, callbacks : BOOLEAN] /\ iq \in BOOLEAN
    BY ZenonT(30)
  <2>3. param \in Modes /\ shadow \in Modes /\ dsp \in [Tuners -> Rates]
    BY DEF Modes, Rates
  <2>4. QED
    BY <2>1, <2>2, <2>3, CompatAssumption DEF TypeOK, Rest
<1>2. CallInv
  BY DEF CallInv, Pcs, Opening, Sending, Rest, Tuners, ModeNames
<1>3. DevInv /\ ResInv /\ QuietInv /\ PauseInv
  BY DEF DevInv, ResInv, QuietInv, Quiet, PauseInv, Opening, Shared, Rest
<1>4. KeepInv /\ AgreeInv
  BY DEF KeepInv, FailedCallKeeps, Sending, AgreeInv, Opening, Sound, Rest
<1>5. QED
  BY <1>1, <1>2, <1>3, <1>4 DEF IInv

\* A step of somebody else, which changes none of these variables, keeps the invariant.
LEMMA StutterKeeps ==
  ASSUME IInv, UNCHANGED vars
  PROVE  IInv'
<1>1. /\ UNCHANGED <<api, calls, dev, res, agc, lock>> /\ UNCHANGED <<param, shadow, dsp>>
      /\ UNCHANGED <<state, d, iq, doubt, before>>
  BY Zenon DEF vars
<1>2. TypeOK'
  BY <1>1 DEF IInv, TypeOK
<1>3. CallInv'
  BY <1>1 DEF IInv, CallInv, Active
<1>4. DevInv' /\ PauseInv'
  BY <1>1 DEF IInv, DevInv, PauseInv, Shared
<1>5. ResInv'
  BY <1>1 DEF IInv, ResInv, Shared
<1>6. QuietInv'
  BY <1>1 DEF IInv, QuietInv, Quiet, Shared
<1>7. KeepInv'
  BY <1>1 DEF IInv, KeepInv, FailedCallKeeps, Settings
<1>8. AgreeInv'
  BY <1>1 DEF IInv, AgreeInv, Sound, InStep, Active
<1>9. QED
  BY <1>2, <1>3, <1>4, <1>5, <1>6, <1>7, <1>8, Zenon DEF IInv

\* The invariant of the device calls, for any roles, faults and number of calls.
THEOREM Inductive == Spec => []IInv
<1>1. ASSUME IInv, Application PROVE IInv'
  BY <1>1, SelectKeeps, ReleaseKeeps, InvalidKeeps, UninitCallKeeps, InitCallKeeps,
     UpdateCallKeeps, SwapTunerKeeps, SwapModeKeeps, SwapRateKeeps DEF Application
<1>2. ASSUME IInv, ApiStep PROVE IInv'
  BY <1>2, UpdateLockKeeps, SwapLockKeeps, InitThreadsKeeps, JoinKeeps, CloseKeeps,
     ReturnErrorKeeps, InitOpenKeeps, InitConfigureKeeps, InitStartKeeps, InitWaitKeeps,
     UninitStopKeeps, SwapSendKeeps, ResumeKeeps, InitGainKeeps, UpdateSendKeeps DEF ApiStep
<1>3. ASSUME IInv, AgcStep PROVE IInv'
  BY <1>3, AgcLockKeeps, AgcExitKeeps, AgcSendKeeps DEF AgcStep
<1>4. IInv /\ [Next]_vars => IInv'
  BY <1>1, <1>2, <1>3, AgcReadKeeps, StreamBeginKeeps, StreamEndKeeps, ConnectionLostKeeps,
     DaemonBackKeeps, StutterKeeps DEF Next
<1>5. QED
  BY <1>4, InitHolds, PTL DEF Spec

\* Between calls the threads, the buffers and the connection are those the device's
\* state calls for, whatever failed before (sdrplay_api_Init, sdrplay_api_Uninit).
THEOREM ResourcesMatched == Spec => []ResourcesMatch
<1>1. IInv => ResourcesMatch
  <2> SUFFICES ASSUME IInv PROVE ResourcesMatch
    OBVIOUS
  <2> USE DEF IInv
  <2>1. agc.at # "none" => dev.backend /\ dev.initialized
    BY DEF ResInv, DevInv
  <2>2. ASSUME api.pc = "rest"
        PROVE  /\ agc.at # "none" <=> dev.initialized
               /\ dev.backend <=> dev.selected /\ (Shared \/ dev.initialized)
               /\ d.owned => dev.backend
    BY <2>2 DEF ResInv, DevInv, Opening
  <2>3. ASSUME api.pc = "rest"
        PROVE  res = [buffers |-> dev.initialized, callbacks |-> dev.initialized]
    <3>1. res.buffers <=> dev.initialized
      BY <2>3 DEF ResInv, Opening
    <3>2. res.callbacks <=> dev.initialized
      BY DEF ResInv
    <3>3. /\ res \in [buffers : BOOLEAN, callbacks : BOOLEAN]
          /\ res.buffers \in BOOLEAN /\ res.callbacks \in BOOLEAN /\ dev.initialized \in BOOLEAN
      BY DEF TypeOK, Devices
    <3>4. res.buffers = dev.initialized /\ res.callbacks = dev.initialized
      BY <3>1, <3>2, <3>3, ZenonT(30)
    <3>5. QED
      BY <3>3, <3>4
  <2>4. QED
    BY <2>1, <2>2, <2>3 DEF ResourcesMatch
<1>2. QED
  BY <1>1, Inductive, PTL

\* Init and Uninit do not free the buffers that daemon_stream_callback works in,
\* unless a STOP on the way out of a failed Init went unanswered.
THEOREM BuffersOutlive == Spec => []BuffersOutliveStream
<1>1. IInv => BuffersOutliveStream
  BY DEF IInv, BuffersOutliveStream, ResInv, QuietInv, Quiet
<1>2. QED
  BY <1>1, Inductive, PTL

\* Between calls library and daemon agree on mode, tuner and rate while the stream
\* is sound (sdrplay_api_Update and the swaps, which install before they ask).
THEOREM Agreement == Spec => []DaemonAgrees
<1>1. IInv => DaemonAgrees
  <2> SUFFICES ASSUME IInv, api.pc = "rest", Sound
               PROVE  /\ d.mode = dev.mode /\ d.rate = dev.rate /\ d.streaming /\ ~d.paused
                      /\ dev.mode # "dual" => d.tuner = dev.tuner
                      /\ \A t \in Active(dev.mode, dev.tuner) : dsp[t] = d.rate
    BY DEF DaemonAgrees, Sound
  <2>1. d.streaming /\ InStep(dev.rate, dsp)
    BY DEF IInv, AgreeInv
  <2>2. ~d.paused
    BY DEF IInv, PauseInv, Sound
  <2>3. QED
    BY <2>1, <2>2 DEF InStep
<1>2. QED
  BY <1>1, Inductive, PTL

\* An update of one tuner, a swap or an Uninit that fails leaves every setting as it
\* was (the failure paths of sdrplay_api_Update, sdrplay_api_Swap... and Uninit).
THEOREM FailureKeeps == Spec => []FailedCallKeeps
<1>1. IInv => FailedCallKeeps
  BY DEF IInv, KeepInv
<1>2. QED
  BY <1>1, Inductive, PTL
=============================================================================
