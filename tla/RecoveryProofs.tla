--------------------------- MODULE RecoveryProofs ---------------------------
(***************************************************************************)
(* What single-tuner clients are promised when their stream fails: its end *)
(* is recorded, so that the main loop recovers it, and the recovered       *)
(* stream gets the newest settings back.                                   *)
(*                                                                         *)
(* The invariant is SoloInv, on top of IInv of DaemonProofs.  As there,    *)
(* each function of RadioControl is shown to keep its parts (Steady,       *)
(* OpenOK and FitsOK), and then each action is shown to keep the whole.    *)
(*                                                                         *)
(* Both theorems assume Alone; the settings need OneRate as well, and the  *)
(* end of a stream Undisturbed.  Without these they are false: a rate      *)
(* change during a pending restore forgets the restore, and a failed tuner *)
(* swap or configuration leaves a session without a handle, whose stream   *)
(* ends and is not recovered.                                              *)
(***************************************************************************)
EXTENDS DaemonProofs

\* The daemon of single-tuner clients: no request opens both tuners, and a change in
\* place does not fail.
Alone ==
  /\ Commands \intersect {"CONFIGURE_DUAL", "SWAP_MODE", "DUO_START"} = {}
  /\ "update" \notin Faults

\* A stream ends only because read_async fails or main stops it.
Undisturbed == "SWAP_TUNER" \notin Commands /\ Faults \intersect {"write", "configure"} = {}

\* The clients agree on the sample rate.
OneRate == \A g, h \in SingleConfigs : g.rate = h.rate

\* The stream of such a daemon: there is one thread, a recorded failure is that of a
\* thread that has ended, and what recovery goes back to is a configuration.  A thread
\* that nothing else disturbs ends with an error, and records it.
Steady(s) ==
  /\ ~s.dual_mode /\ s.stray.pc = "none"
  /\ s.stream_thread_started <=> s.thread.pc # "none"
  /\ s.stream_error => ~s.streaming /\ s.thread.pc \in {"none", "done"}
  /\ s.thread.pc = "store" => ~s.streaming
  /\ s.bootstrap_configured => s.config \in SingleConfigs /\ s.bootstrap_config \in SingleConfigs
  /\ ~s.bootstrap_configured => ~s.configured /\ ~s.stream_error /\ s.thread.pc = "none"
  /\ Undisturbed => /\ s.thread.pc \in {"none", "enter", "run", "leave", "store", "done"}
                    /\ s.thread.pc \in {"leave", "store"} => s.thread.ret = 1
                    /\ s.thread.pc = "done" => s.stream_error
                    /\ ~s.mode_swap_paused

\* Its handle: an open one is configured, and a stream needs one.
OpenOK(s) ==
  /\ s.radio # NoTuner => s.radio \in Tuners /\ s.configured
  /\ Undisturbed /\ s.radio = NoTuner => s.thread.pc = "none"

\* Its frontend: it has the rate of the clients, and in a paused swap all the settings.
Tuned(s) ==
  s.radio # NoTuner =>
    /\ s.hw.rate = s.config.rate /\ s.hw.rf \in [Tuners -> Nat]
    /\ s.mode_swap_paused => s.hw.rf[s.radio] = s.config.rf

\* The frontend has the newest settings, or those the recovery restarted with while they
\* are still to be restored.
Fits(s) ==
  s.radio # NoTuner =>
    \/ s.hw.rf[s.radio] = s.config.rf
    \/ s.recovery_config_pending /\ s.hw.rf[s.radio] = s.bootstrap_config.rf

FitsOK(s) == OneRate => Tuned(s) /\ Fits(s)

\* Settings that were only remembered wait for the recovery at the top of the loop; until
\* then the owner, who was served in this round, can ask for nothing else.
SoloInv ==
  /\ Steady(dev) /\ OpenOK(dev) /\ ~duo.master_initialised /\ served \subseteq Clients
  /\ OneRate => /\ Tuned(dev)
                /\ Fits(dev) \/ (dev.stream_error /\ (loop = "top" \/ owner \in served))

\* s and r have the same bookkeeping, but for the mode.
SameBook(s, r) ==
  /\ r.config = s.config /\ r.configured = s.configured
  /\ r.bootstrap_config = s.bootstrap_config
  /\ r.bootstrap_configured = s.bootstrap_configured
  /\ r.recovery_config_pending = s.recovery_config_pending
  /\ r.mode_swap_paused = s.mode_swap_paused

\* s and r have the same handle and settings too; their streams may differ.
SameTuning(s, r) ==
  /\ r.radio = s.radio /\ r.hw = s.hw /\ r.dual_mode = s.dual_mode
  /\ SameBook(s, r)

\* s and r have the same stream.
SameThreads(s, r) ==
  /\ r.thread = s.thread /\ r.stray = s.stray /\ r.streaming = s.streaming
  /\ r.stream_thread_started = s.stream_thread_started /\ r.stream_error = s.stream_error

\* The settings fit or not, whatever the stream does.
LEMMA SameTuningFits ==
  ASSUME NEW s, NEW r, SameTuning(s, r)
  PROVE  /\ Tuned(s) => Tuned(r)
         /\ Fits(s) => Fits(r)
         /\ FitsOK(s) => FitsOK(r)
  BY DEF SameTuning, SameBook, Tuned, Fits, FitsOK

\* The stream does not depend on the handle, its settings or a pending restore.
LEMMA AlikeSteady ==
  ASSUME NEW s, NEW r, Steady(s), SameThreads(s, r),
         /\ r.dual_mode = s.dual_mode /\ r.config = s.config /\ r.configured = s.configured
         /\ r.bootstrap_config = s.bootstrap_config
         /\ r.bootstrap_configured = s.bootstrap_configured
         /\ r.mode_swap_paused = s.mode_swap_paused
  PROVE  Steady(r)
  BY Zenon DEF Steady, SameThreads

\* What is left alone keeps every predicate.
LEMMA AlikeSolo ==
  ASSUME NEW s, NEW r, SameTuning(s, r), SameThreads(s, r), Steady(s)
  PROVE  /\ Steady(r)
         /\ OpenOK(s) => OpenOK(r)
         /\ FitsOK(s) => FitsOK(r)
<1>1. Steady(r)
  BY Zenon DEF SameTuning, SameBook, SameThreads, Steady
<1>2. OpenOK(s) => OpenOK(r)
  BY DEF SameTuning, SameBook, SameThreads, OpenOK
<1>3. QED
  BY <1>1, <1>2, SameTuningFits

\* A closed handle has no settings.
LEMMA ClosedFits ==
  ASSUME NEW s, s.radio = NoTuner
  PROVE  FitsOK(s)
  BY DEF FitsOK, Tuned, Fits

\* pthread_join ends the thread, and records how it ended.
LEMMA SoloJoin ==
  ASSUME NEW s, NEW cancelled, NEW j \in pthread_join(s, cancelled), Steady(s)
  PROVE  /\ SameTuning(s, j) /\ j.thread.pc = "none" /\ j.stray = s.stray
         /\ j.stream_error => ~j.streaming
         /\ s.thread.pc \in {"none", "done"} => j.stream_error = s.stream_error
<1> DEFINE gone == [s EXCEPT !.thread = NoThread,
                             !.client_write_error_fd = IF s.thread.pc \in Reporting
                                                       THEN s.thread.to ELSE @]
<1>1. /\ SameTuning(s, gone) /\ gone.thread.pc = "none" /\ gone.stray = s.stray
      /\ gone.stream_error = s.stream_error /\ gone.streaming = s.streaming
  BY DEF NoThread, At, SameTuning, SameBook
<1>2. CASE s.thread.pc \in {"none", "done"}
  <2>1. j = gone
    BY <1>2 DEF pthread_join
  <2> HIDE DEF gone
  <2>2. QED
    BY <1>1, <2>1 DEF Steady
<1>3. CASE s.thread.pc \notin {"none", "done"}
  <2>1. PICK e \in Endings(s.thread, cancelled) :
               j = [Stored(gone, e[1]) EXCEPT !.stuck = @ \/ e[2]]
    BY <1>3, Zenon DEF pthread_join
  <2> HIDE DEF gone
  <2>2. j.streaming = FALSE
    BY <2>1 DEF Stored
  <2>3. SameTuning(gone, j) /\ j.thread = gone.thread /\ j.stray = gone.stray
    BY <2>1 DEF Stored, SameTuning, SameBook
  <2>4. SameTuning(s, j)
    BY <1>1, <2>3, Zenon DEF SameTuning, SameBook
  <2>5. QED
    BY <1>1, <1>3, <2>2, <2>3, <2>4
<1>4. QED
  BY <1>2, <1>3

\* After a join and the reset of stream_thread_started there is no thread.
LEMMA SoloJoined ==
  ASSUME NEW s, NEW cancelled, NEW j \in pthread_join(s, cancelled), Steady(s), NEW r,
         SameTuning(j, r), r.thread = j.thread, r.stray = j.stray,
         r.stream_error = j.stream_error, ~r.stream_thread_started,
         r.streaming = j.streaming \/ ~r.streaming
  PROVE  /\ Steady(r) /\ SameTuning(s, r) /\ r.thread.pc = "none"
         /\ OpenOK(s) => OpenOK(r)
         /\ s.stream_error => r.stream_error
<1>1. /\ SameTuning(s, j) /\ j.thread.pc = "none" /\ j.stray = s.stray
      /\ j.stream_error => ~j.streaming
      /\ s.thread.pc \in {"none", "done"} => j.stream_error = s.stream_error
  BY SoloJoin
<1>2. SameTuning(s, r)
  BY <1>1, Zenon DEF SameTuning, SameBook
<1>3. /\ r.thread.pc = "none" /\ r.stray = s.stray /\ (r.stream_error => ~r.streaming)
      /\ s.thread.pc \in {"none", "done"} => r.stream_error = s.stream_error
  BY <1>1
<1>4. Steady(r)
  BY <1>2, <1>3, Zenon DEF Steady, SameTuning, SameBook
<1>5. QED
  BY <1>2, <1>3, <1>4, Zenon DEF OpenOK, SameTuning, SameBook, Steady

\* stop_stream joins the thread and leaves the settings alone.
LEMMA SoloStop ==
  ASSUME NEW s, Steady(s), OpenOK(s), NEW o \in stop_stream(s)
  PROVE  /\ Steady(o.dev) /\ OpenOK(o.dev) /\ SameTuning(s, o.dev)
         /\ o.dev.thread.pc = "none"
         /\ s.stream_error => o.dev.stream_error
         /\ s.stream_thread_started => ~o.dev.streaming
<1>1. CASE ~s.stream_thread_started
  <2>1. o = Out(s, "OK")
    BY <1>1 DEF stop_stream
  <2>2. QED
    BY <1>1, <2>1, OutFields DEF Steady, SameTuning, SameBook
<1>2. CASE s.stream_thread_started
  <2> DEFINE ended(j) == [j EXCEPT !.stream_thread_started = FALSE, !.streaming = FALSE]
  <2>1. PICK j \in pthread_join(s, s.radio # NoTuner) : \E v : o = Out(ended(j), v)
    BY <1>2, Zenon DEF stop_stream, MayFail
  <2>2. o.dev = ended(j)
    BY <2>1, OutFields
  <2>3. /\ SameTuning(j, ended(j)) /\ ended(j).thread = j.thread /\ ended(j).stray = j.stray
        /\ ended(j).stream_error = j.stream_error /\ ~ended(j).stream_thread_started
        /\ ~ended(j).streaming
    BY DEF SameTuning, SameBook
  <2> HIDE DEF ended
  <2>4. QED
    BY <2>1, <2>2, <2>3, SoloJoined
<1>3. QED
  BY <1>1, <1>2

\* close_radio closes the handle; a thread that uses it finds its stream cancelled.
LEMMA SoloClose ==
  ASSUME NEW s, Steady(s), Undisturbed => s.radio = NoTuner \/ s.thread.pc = "none",
         NEW q \in close_radio(s)
  PROVE  /\ Steady(q.dev) /\ SameBook(s, q.dev) /\ q.dev.radio = NoTuner
         /\ q.dev.stream_error = s.stream_error
         /\ q.dev.thread.pc = "none" <=> s.thread.pc = "none"
<1> DEFINE closed == [s EXCEPT !.radio = NoTuner, !.hw = NoDual, !.stuck = FALSE,
                               !.thread = Cut(s.thread), !.stray = Cut(s.stray)]
           quit == [closed EXCEPT !.running = FALSE]
           Fields(p) == /\ SameBook(s, p) /\ p.radio = NoTuner /\ p.dual_mode = s.dual_mode
                        /\ p.stream_error = s.stream_error /\ p.streaming = s.streaming
                        /\ p.stream_thread_started = s.stream_thread_started
                        /\ p.thread = Cut(s.thread) /\ p.stray = Cut(s.stray)
<1>1. \/ q = Out(s, "OK") /\ s.radio = NoTuner
      \/ s.radio # NoTuner /\ \E v : q = Out(closed, v) \/ q = Out(quit, v)
  BY Zenon DEF close_radio, MayFail
<1>2. Fields(closed)
  BY DEF SameBook
<1>3. Fields(quit)
  BY DEF SameBook
<1> HIDE DEF closed, quit
<1>4. /\ Cut(s.stray).pc = "none"
      /\ Cut(s.thread).pc = "none" <=> s.thread.pc = "none"
      /\ s.thread.pc \in {"none", "done"} => Cut(s.thread) = s.thread
      /\ Cut(s.thread).pc = "store" => s.thread.pc = "store"
  BY CutQuiet DEF Cut, Steady, InReadAsync, Reporting
<1>5. CASE q = Out(s, "OK") /\ s.radio = NoTuner
  BY <1>5, OutFields DEF SameBook
<1>6. CASE s.radio # NoTuner /\ \E v : q = Out(closed, v) \/ q = Out(quit, v)
  <2>1. Fields(q.dev)
    BY <1>2, <1>3, <1>6, OutFields
  <2>2. Undisturbed => s.thread.pc = "none"
    BY <1>6
  <2>3. Steady(q.dev)
    BY <1>4, <2>1, <2>2, Zenon DEF Steady, SameBook
  <2>4. QED
    BY <1>4, <2>1, <2>3
<1>7. QED
  BY <1>1, <1>5, <1>6

\* configure_radio sets the one tuner of the handle, opening it if needed; when it fails
\* there is no handle.
LEMMA SoloConfigure ==
  ASSUME NEW s, NEW c, c.tuner \in Tuners, Steady(s), OpenOK(s), NEW r \in configure_radio(s, c)
  PROVE  /\ Steady(r.dev) /\ SameBook(s, r.dev) /\ r.dev.stream_error = s.stream_error
         /\ r.dev.thread.pc = "none" <=> s.thread.pc = "none"
         /\ r.status = "OK" => /\ r.dev.radio \in Tuners
                               /\ r.dev.hw = SingleHw(r.dev.radio, c)
         /\ r.status # "OK" => r.dev.radio = NoTuner /\ OpenOK(r.dev)
<1> DEFINE used(p, t) == [p EXCEPT !.radio = t, !.hw = SingleHw(t, c), !.dual_mode = FALSE]
           Opened(p) == {Out(used(p, c.tuner), "OK")}
                          \union MayFail({"open", "configure"}, {Out(p, "IO_ERROR")})
                          \union MayFail({"absent"}, {Out(p, "BAD_REQUEST")})
           Same(p) == /\ Steady(p) /\ SameBook(s, p) /\ p.stream_error = s.stream_error
                      /\ p.thread.pc = "none" <=> s.thread.pc = "none"
<1>1. ~s.dual_mode
  BY SMTT(20) DEF Steady
<1>2. \/ s.radio = NoTuner /\ r \in Opened(s)
      \/ s.radio # NoTuner /\ r = Out(used(s, s.radio), "OK")
      \/ /\ s.radio # NoTuner /\ "configure" \in Faults
         /\ \E q \in close_radio(s) : r = Out(q.dev, "IO_ERROR") \/ r \in Opened(q.dev)
  BY <1>1, ZenonT(30) DEF configure_radio, Reopening, MayFail
<1>3. ASSUME NEW p, NEW t, t \in Tuners, Same(p)
      PROVE  Same(used(p, t)) /\ used(p, t).radio = t /\ used(p, t).hw = SingleHw(t, c)
  <2>1. /\ used(p, t).radio = t /\ used(p, t).hw = SingleHw(t, c) /\ ~used(p, t).dual_mode
        /\ used(p, t).config = p.config /\ used(p, t).configured = p.configured
        /\ used(p, t).bootstrap_config = p.bootstrap_config
        /\ used(p, t).bootstrap_configured = p.bootstrap_configured
        /\ used(p, t).recovery_config_pending = p.recovery_config_pending
        /\ used(p, t).mode_swap_paused = p.mode_swap_paused
        /\ SameThreads(p, used(p, t))
    BY DEF SameThreads
  <2> HIDE DEF used
  <2>2. QED
    BY <1>3, <2>1, Zenon DEF Steady, SameBook, SameThreads
<1> HIDE DEF used
<1>4. Same(s)
  BY DEF SameBook
<1>5. ASSUME NEW p, Same(p), p.radio = NoTuner, OpenOK(p), NEW o \in Opened(p)
      PROVE  /\ Same(o.dev)
             /\ o.status = "OK" => o.dev.radio \in Tuners /\ o.dev.hw = SingleHw(o.dev.radio, c)
             /\ o.status # "OK" => o.dev.radio = NoTuner /\ OpenOK(o.dev)
  <2>1. \/ o = Out(used(p, c.tuner), "OK")
        \/ o = Out(p, "IO_ERROR") \/ o = Out(p, "BAD_REQUEST")
    BY <1>5 DEF MayFail
  <2>2. Same(used(p, c.tuner)) /\ used(p, c.tuner).radio = c.tuner
        /\ used(p, c.tuner).hw = SingleHw(c.tuner, c)
    BY <1>3, <1>5
  <2> HIDE DEF Same
  <2>3. QED
    BY <1>5, <2>1, <2>2, OutFields
<1> HIDE DEF Opened
<1>6. CASE s.radio = NoTuner /\ r \in Opened(s)
  BY <1>4, <1>5, <1>6
<1>7. CASE s.radio # NoTuner /\ r = Out(used(s, s.radio), "OK")
  <2>1. s.radio \in Tuners
    BY <1>7 DEF OpenOK
  <2>2. Same(used(s, s.radio)) /\ used(s, s.radio).radio = s.radio
        /\ used(s, s.radio).hw = SingleHw(s.radio, c)
    BY <1>3, <1>4, <2>1
  <2>3. QED
    BY <1>7, <2>1, <2>2, OutFields
<1>8. CASE /\ s.radio # NoTuner /\ "configure" \in Faults
           /\ \E q \in close_radio(s) : r = Out(q.dev, "IO_ERROR") \/ r \in Opened(q.dev)
  <2>1. PICK q \in close_radio(s) : r = Out(q.dev, "IO_ERROR") \/ r \in Opened(q.dev)
    BY <1>8
  <2>2. ~Undisturbed
    BY <1>8 DEF Undisturbed
  <2>3. Same(q.dev) /\ q.dev.radio = NoTuner
    BY <2>2, SoloClose
  <2>4. OpenOK(q.dev)
    BY <2>2, <2>3 DEF OpenOK
  <2>5. CASE r = Out(q.dev, "IO_ERROR")
    BY <2>3, <2>4, <2>5, OutFields
  <2>6. CASE r \in Opened(q.dev)
    BY <1>5, <2>3, <2>4, <2>6
  <2>7. QED
    BY <2>1, <2>5, <2>6
<1>9. QED
  BY <1>2, <1>6, <1>7, <1>8
\* The settings SingleHw gives the two channels.
LEMMA SingleHwFields ==
  ASSUME NEW t \in Tuners, NEW c \in SingleConfigs
  PROVE  /\ SingleHw(t, c).rate = c.rate /\ SingleHw(t, c).rf \in [Tuners -> Nat]
         /\ SingleHw(t, c).rf[t] = c.rf
  BY ConfigAssumption DEF SingleHw

\* A configured handle fits the configuration the handler then records.
LEMMA SoloAdopted ==
  ASSUME NEW p, NEW g \in SingleConfigs, Steady(p), p.radio \in Tuners,
         p.hw = SingleHw(p.radio, g)
  PROVE  Steady(Adopted(p, g)) /\ OpenOK(Adopted(p, g)) /\ FitsOK(Adopted(p, g))
<1> DEFINE a == Adopted(p, g)
<1>1. /\ a.radio = p.radio /\ a.hw = p.hw /\ a.dual_mode = p.dual_mode /\ SameThreads(p, a)
      /\ a.config = g /\ a.bootstrap_config = g /\ a.bootstrap_configured /\ a.configured
      /\ a.mode_swap_paused = p.mode_swap_paused
  BY DEF Adopted, SameThreads
<1> HIDE DEF a
<1>2. Steady(a)
  BY <1>1, Zenon DEF Steady, SameThreads
<1>3. OpenOK(a)
  BY <1>1 DEF OpenOK, Tuners, TunerA, TunerB, NoTuner
<1>4. FitsOK(a)
  BY <1>1, SingleHwFields DEF FitsOK, Tuned, Fits
<1>5. QED
  BY <1>2, <1>3, <1>4 DEF a

\* What the start of a stream leaves alone.
LEMMA StartTuning ==
  ASSUME NEW s, NEW t, NEW b
  PROVE  /\ SameTuning(s, [s EXCEPT !.thread = t, !.stream_thread_started = b])
         /\ SameTuning(s, [s EXCEPT !.streaming = b])
         /\ SameThreads(s, [s EXCEPT !.mode_swap_paused = b])
  BY DEF SameTuning, SameBook, SameThreads

\* What a launch that prepares the stream itself leaves alone.
LEMMA ResumeFields ==
  ASSUME NEW s, NEW r,
         r = [s EXCEPT !.first_iq_seen = FALSE, !.streaming = TRUE,
                       !.stream_error = FALSE, !.recovery_config_pending = FALSE]
  PROVE  /\ r.radio = s.radio /\ r.hw = s.hw
         /\ r.dual_mode = s.dual_mode
         /\ r.config = s.config /\ r.configured = s.configured
         /\ r.bootstrap_config = s.bootstrap_config
         /\ r.bootstrap_configured = s.bootstrap_configured
         /\ r.mode_swap_paused = s.mode_swap_paused
         /\ r.thread = s.thread /\ r.stray = s.stray
         /\ r.stream_thread_started = s.stream_thread_started
         /\ r.stream_error = FALSE
  OBVIOUS

\* pthread_create makes the one thread.
LEMMA SoloCreate ==
  ASSUME NEW s, Steady(s), s.thread.pc = "none", ~s.stream_error, s.bootstrap_configured,
         NEW t \in pthread_create(s)
  PROVE  Steady(t) /\ SameTuning(s, t) /\ ~t.stream_error
<1> DEFINE fresh == [s EXCEPT !.thread = At("enter", 0), !.stream_thread_started = TRUE]
<1>1. t = fresh
  BY DEF pthread_create
<1>2. /\ SameTuning(s, fresh) /\ fresh.thread.pc = "enter" /\ fresh.stream_thread_started
      /\ fresh.stray = s.stray /\ fresh.stream_error = s.stream_error
  <2>1. /\ fresh.thread.pc = "enter" /\ fresh.stream_thread_started = TRUE
        /\ fresh.stray = s.stray /\ fresh.stream_error = s.stream_error
    BY SMTT(20) DEF At
  <2>2. SameTuning(s, fresh)
    BY StartTuning, Zenon
  <2>3. QED
    BY <2>1, <2>2
<1> HIDE DEF fresh
<1>3. Steady(fresh)
  BY <1>2, Zenon DEF Steady, SameTuning, SameBook
<1>4. QED
  BY <1>1, <1>2, <1>3

\* The launch of START, or of a request that resumes the stream.
LEMMA SoloLaunch ==
  ASSUME NEW s, Steady(s), OpenOK(s), FitsOK(s), s.thread.pc = "none", s.bootstrap_configured,
         Undisturbed => s.radio # NoTuner,
         NEW launch \in {"start", "resume"},
         launch = "start" => ~s.stream_error,
         launch = "resume" /\ OneRate /\ s.radio # NoTuner => s.hw.rf[s.radio] = s.config.rf,
         NEW o \in Launched(s, launch)
  PROVE  Steady(o.dev) /\ OpenOK(o.dev) /\ FitsOK(o.dev)
<1> DEFINE resumed == [s EXCEPT !.first_iq_seen = FALSE, !.streaming = TRUE,
                                !.stream_error = FALSE, !.recovery_config_pending = FALSE]
           ready == IF launch = "start" THEN s ELSE resumed
           quiet == [ready EXCEPT !.streaming = FALSE]
           Kept(p) == /\ p.radio = s.radio /\ p.hw = s.hw /\ p.dual_mode = s.dual_mode
                      /\ p.config = s.config /\ p.configured = s.configured
                      /\ p.bootstrap_config = s.bootstrap_config
                      /\ p.bootstrap_configured = s.bootstrap_configured
                      /\ p.mode_swap_paused = s.mode_swap_paused
                      /\ launch = "start" => /\ p.recovery_config_pending
                                                = s.recovery_config_pending
           Idle(p) == /\ Kept(p) /\ p.thread = s.thread /\ p.stray = s.stray
                      /\ p.stream_thread_started = s.stream_thread_started
                      /\ ~p.stream_error
<1>1. \/ \E t \in pthread_create(ready) : o = Out(t, "OK")
      \/ o = Out(quiet, "FAILED") \/ o = Out(ready, "FAILED")
  BY Zenon DEF Launched, MayFail
<1>2. Idle(ready)
  <2>1. CASE launch = "start"
    BY <2>1, Zenon
  <2>2. CASE launch = "resume"
    <3>1. /\ resumed.radio = s.radio /\ resumed.hw = s.hw
          /\ resumed.dual_mode = s.dual_mode
          /\ resumed.config = s.config /\ resumed.configured = s.configured
          /\ resumed.bootstrap_config = s.bootstrap_config
          /\ resumed.bootstrap_configured = s.bootstrap_configured
          /\ resumed.mode_swap_paused = s.mode_swap_paused
          /\ resumed.thread = s.thread /\ resumed.stray = s.stray
          /\ resumed.stream_thread_started = s.stream_thread_started
          /\ resumed.stream_error = FALSE
      BY ResumeFields, Zenon
    <3>2. ready = resumed
      BY <2>2
    <3> HIDE DEF ready, resumed
    <3>3. QED
      BY <2>2, <3>1, <3>2, Zenon
  <2>3. QED
    BY <2>1, <2>2, Zenon
<1> HIDE DEF ready
<1>3. Idle(quiet)
  <2>1. /\ quiet.radio = ready.radio /\ quiet.hw = ready.hw
        /\ quiet.dual_mode = ready.dual_mode
        /\ quiet.config = ready.config /\ quiet.configured = ready.configured
        /\ quiet.bootstrap_config = ready.bootstrap_config
        /\ quiet.bootstrap_configured = ready.bootstrap_configured
        /\ quiet.mode_swap_paused = ready.mode_swap_paused
        /\ quiet.recovery_config_pending = ready.recovery_config_pending
        /\ quiet.thread = ready.thread /\ quiet.stray = ready.stray
        /\ quiet.stream_thread_started = ready.stream_thread_started
        /\ quiet.stream_error = ready.stream_error
    OBVIOUS
  <2> HIDE DEF quiet
  <2>2. QED
    BY <1>2, <2>1, Zenon
<1> HIDE DEF quiet
<1>4. ASSUME NEW p, Idle(p)
      PROVE  Steady(p)
  BY <1>4, Zenon DEF Steady
<1>5. ASSUME NEW p, Kept(p), Steady(p)
      PROVE  OpenOK(p) /\ FitsOK(p)
  <2>1. OpenOK(p)
    BY <1>5 DEF OpenOK
  <2>2. FitsOK(p)
    <3>1. CASE launch = "start"
      BY <1>5, <3>1 DEF FitsOK, Tuned, Fits
    <3>2. CASE launch = "resume"
      BY <1>5, <3>2 DEF FitsOK, Tuned, Fits
    <3>3. QED
      BY <3>1, <3>2
  <2>3. QED
    BY <2>1, <2>2
<1>6. CASE \E t \in pthread_create(ready) : o = Out(t, "OK")
  <2>1. PICK t \in pthread_create(ready) : o = Out(t, "OK")
    BY <1>6
  <2>2. Steady(ready) /\ ready.thread.pc = "none" /\ ~ready.stream_error
        /\ ready.bootstrap_configured
    BY <1>2, <1>4, Zenon
  <2>3. Steady(t) /\ SameTuning(ready, t)
    BY <2>2, SoloCreate
  <2>4. Kept(t)
    BY <1>2, <2>3, Zenon DEF SameTuning, SameBook
  <2> HIDE DEF Kept
  <2>5. QED
    BY <1>5, <2>1, <2>3, <2>4, OutFields
<1>7. CASE o = Out(quiet, "FAILED") \/ o = Out(ready, "FAILED")
  <2>1. Idle(o.dev)
    <3> HIDE DEF Idle
    <3>1. QED
      BY <1>2, <1>3, <1>7, OutFields
  <2>2. QED
    BY <1>4, <1>5, <2>1, Zenon
<1>8. QED
  BY <1>1, <1>6, <1>7
\* Answering leaves the receiver as it is, or launches a stream.
LEMMA SoloAnswer ==
  ASSUME NEW c, NEW s, Steady(s), OpenOK(s), FitsOK(s),
         NEW launch \in {"none", "start", "resume"},
         launch # "none" => /\ s.thread.pc = "none" /\ s.bootstrap_configured
                            /\ Undisturbed => s.radio # NoTuner,
         launch = "start" => ~s.stream_error,
         launch = "resume" /\ OneRate /\ s.radio # NoTuner => s.hw.rf[s.radio] = s.config.rf,
         Answer(c, s, launch)
  PROVE  Steady(dev') /\ OpenOK(dev') /\ FitsOK(dev')
<1>1. CASE dev' = s
  BY <1>1
<1>2. CASE launch # "none" /\ \E o \in Launched(s, launch) : dev' = o.dev
  <2>1. PICK o \in Launched(s, launch) : dev' = o.dev
    BY <1>2
  <2>2. Steady(o.dev) /\ OpenOK(o.dev) /\ FitsOK(o.dev)
    BY <1>2, SoloLaunch
  <2>3. QED
    BY <2>1, <2>2
<1>3. QED
  BY <1>1, <1>2 DEF Answer

\* What a restart leaves alone.
LEMMA RestartFields ==
  ASSUME NEW s, NEW r,
         r = [s EXCEPT !.first_iq_seen = FALSE, !.stream_error = FALSE,
                       !.stream_result = 0, !.streaming = TRUE]
             \/ r = [[s EXCEPT !.first_iq_seen = FALSE, !.stream_error = FALSE,
                               !.stream_result = 0, !.streaming = TRUE]
                      EXCEPT !.streaming = FALSE, !.stream_error = TRUE]
  PROVE  /\ SameTuning(s, r) /\ r.thread = s.thread /\ r.stray = s.stray
         /\ r.stream_thread_started = s.stream_thread_started
<1>1. CASE r = [s EXCEPT !.first_iq_seen = FALSE, !.stream_error = FALSE,
                         !.stream_result = 0, !.streaming = TRUE]
  BY <1>1 DEF SameTuning, SameBook
<1>2. CASE r = [[s EXCEPT !.first_iq_seen = FALSE, !.stream_error = FALSE,
                          !.stream_result = 0, !.streaming = TRUE]
                 EXCEPT !.streaming = FALSE, !.stream_error = TRUE]
  BY <1>2 DEF SameTuning, SameBook
<1>3. QED
  BY <1>1, <1>2

\* A pending restore is only bookkeeping.
LEMMA PendingFields ==
  ASSUME NEW s, NEW b, NEW r, r = [s EXCEPT !.recovery_config_pending = b]
  PROVE  /\ SameThreads(s, r) /\ r.radio = s.radio /\ r.hw = s.hw
         /\ r.dual_mode = s.dual_mode /\ r.config = s.config
         /\ r.configured = s.configured /\ r.bootstrap_config = s.bootstrap_config
         /\ r.bootstrap_configured = s.bootstrap_configured
         /\ r.mode_swap_paused = s.mode_swap_paused
         /\ r.recovery_config_pending = b
  BY DEF SameThreads

\* The stream starts again with the settings of the last configuration, and the newest
\* ones are pending; or the handle is closed.
LEMMA SoloRestarted ==
  ASSUME NEW s, Steady(s), s.thread.pc = "none", s.bootstrap_configured, s.configured,
         s.radio \in Tuners, s.hw = SingleHw(s.radio, s.bootstrap_config),
         ~s.mode_swap_paused, NEW r \in Restarted(s)
  PROVE  Steady(r) /\ OpenOK(r) /\ FitsOK(r)
<1> DEFINE ready == [s EXCEPT !.first_iq_seen = FALSE, !.stream_error = FALSE,
                              !.stream_result = 0, !.streaming = TRUE]
           failed == [ready EXCEPT !.streaming = FALSE, !.stream_error = TRUE]
           pending(t) == [t EXCEPT !.recovery_config_pending = ~s.dual_mode]
<1>1. \/ \E t \in pthread_create(ready) : r = pending(t)
      \/ \E q \in close_radio(failed) : r = q.dev
  BY ZenonT(30) DEF Restarted, MayFail, Steady
<1>2. /\ SameTuning(s, ready) /\ ready.thread = s.thread /\ ready.stray = s.stray
      /\ ready.stream_thread_started = s.stream_thread_started
  BY RestartFields, ZenonT(30)
<1>3. /\ SameTuning(s, failed) /\ failed.thread = s.thread /\ failed.stray = s.stray
      /\ failed.stream_thread_started = s.stream_thread_started
  BY RestartFields, Zenon
<1>4. ready.stream_error = FALSE /\ failed.streaming = FALSE
  OBVIOUS
<1>5. ASSUME NEW t
      PROVE  /\ SameThreads(t, pending(t)) /\ pending(t).radio = t.radio
             /\ pending(t).hw = t.hw
             /\ pending(t).dual_mode = t.dual_mode /\ pending(t).config = t.config
             /\ pending(t).configured = t.configured
             /\ pending(t).bootstrap_config = t.bootstrap_config
             /\ pending(t).bootstrap_configured = t.bootstrap_configured
             /\ pending(t).mode_swap_paused = t.mode_swap_paused
             /\ pending(t).recovery_config_pending = ~s.dual_mode
  BY PendingFields
<1> HIDE DEF ready, failed, pending
<1>6. Steady(ready) /\ Steady(failed)
  BY <1>2, <1>3, <1>4, Zenon DEF Steady, SameTuning, SameBook
<1>7. CASE \E t \in pthread_create(ready) : r = pending(t)
  <2>1. PICK t \in pthread_create(ready) : r = pending(t)
    BY <1>7
  <2>2. Steady(t) /\ SameTuning(ready, t)
    BY <1>2, <1>4, <1>6, SoloCreate, ZenonT(30) DEF SameTuning, SameBook
  <2>3. /\ t.radio = s.radio /\ t.hw = s.hw /\ t.config = s.config /\ t.configured
        /\ t.bootstrap_config = s.bootstrap_config /\ t.bootstrap_configured
        /\ ~t.mode_swap_paused
    BY <1>2, <2>2, Zenon DEF SameTuning, SameBook
  <2>4. /\ SameThreads(t, r) /\ r.dual_mode = t.dual_mode /\ r.config = t.config
         /\ r.configured = t.configured /\ r.bootstrap_config = t.bootstrap_config
         /\ r.bootstrap_configured = t.bootstrap_configured
         /\ r.mode_swap_paused = t.mode_swap_paused
    BY <1>5, <2>1, Zenon
  <2>5. Steady(r)
    BY <2>2, <2>4, AlikeSteady
  <2>6. OpenOK(r)
    BY <1>5, <2>1, <2>3 DEF OpenOK, Tuners, TunerA, TunerB, NoTuner
  <2>7. s.bootstrap_config \in SingleConfigs /\ s.config \in SingleConfigs /\ ~s.dual_mode
    BY DEF Steady
  <2>8. /\ s.hw.rate = s.bootstrap_config.rate /\ s.hw.rf \in [Tuners -> Nat]
        /\ s.hw.rf[s.radio] = s.bootstrap_config.rf
    BY <2>7, SingleHwFields
  <2>9. /\ r.radio = s.radio /\ r.hw = s.hw /\ r.config = s.config
        /\ r.bootstrap_config = s.bootstrap_config
        /\ r.recovery_config_pending /\ ~r.mode_swap_paused
    BY <1>5, <2>1, <2>3, <2>7, Zenon
  <2>10. OneRate => s.hw.rate = s.config.rate
    BY <2>7, <2>8 DEF OneRate
  <2>11. FitsOK(r)
    BY <2>8, <2>9, <2>10 DEF FitsOK, Tuned, Fits
  <2>12. QED
    BY <2>5, <2>6, <2>11
<1>8. CASE \E q \in close_radio(failed) : r = q.dev
  <2>1. failed.thread.pc = "none"
    BY <1>3
  <2>2. Steady(r) /\ r.radio = NoTuner /\ r.thread.pc = "none"
    BY <1>6, <1>8, <2>1, SoloClose
  <2>3. QED
    BY <2>2, ClosedFits DEF OpenOK
<1>9. QED
  BY <1>1, <1>7, <1>8
\* A closed handle that recovery gives up: not configured, and no restore pending.
GivenUp(s) == [s EXCEPT !.configured = FALSE, !.recovery_config_pending = FALSE]

\* Giving up the handle keeps the failure to recover from.
LEMMA SoloGivenUp ==
  ASSUME NEW s, Steady(s), s.radio = NoTuner, s.thread.pc = "none"
  PROVE  s.stream_error /\ ~s.mode_swap_paused
           => /\ Steady(GivenUp(s)) /\ GivenUp(s).radio = NoTuner
              /\ GivenUp(s).thread.pc = "none"
              /\ ~GivenUp(s).mode_swap_paused /\ GivenUp(s).bootstrap_configured
<1> DEFINE d == GivenUp(s)
<1>1. /\ d.thread = s.thread /\ d.stray = s.stray /\ d.radio = s.radio
      /\ d.config = s.config /\ d.bootstrap_config = s.bootstrap_config
  BY DEF GivenUp
<1>2. /\ d.streaming = s.streaming /\ d.stream_error = s.stream_error
      /\ d.stream_thread_started = s.stream_thread_started
      /\ d.dual_mode = s.dual_mode /\ d.mode_swap_paused = s.mode_swap_paused
      /\ d.bootstrap_configured = s.bootstrap_configured
  BY DEF GivenUp
<1>3. QED
  BY <1>1, <1>2, Zenon DEF Steady

\* A handle that is configured.
LEMMA ConfiguredFields ==
  ASSUME NEW s, NEW b, NEW r, r = [s EXCEPT !.configured = b]
  PROVE  /\ SameThreads(s, r) /\ r.radio = s.radio /\ r.hw = s.hw
         /\ r.dual_mode = s.dual_mode /\ r.config = s.config
         /\ r.configured = b /\ r.bootstrap_config = s.bootstrap_config
         /\ r.bootstrap_configured = s.bootstrap_configured
         /\ r.mode_swap_paused = s.mode_swap_paused
         /\ r.recovery_config_pending = s.recovery_config_pending
  BY DEF SameThreads

\* A recorded failure is always recovered from: the thread is joined, the handle closed,
\* and a new one configured with the last configuration; or the handle stays closed.
LEMMA SoloRecover ==
  ASSUME NEW s, NEW active, Steady(s), OpenOK(s), FitsOK(s) \/ s.stream_error,
         s.stream_error => ~s.mode_swap_paused,
         NEW r \in recover_failed_stream(s, active)
  PROVE  Steady(r) /\ OpenOK(r) /\ FitsOK(r)
<1> DEFINE unstarted(j) == [j EXCEPT !.stream_thread_started = FALSE]
           ready(d) == [d EXCEPT !.configured = TRUE]
           Joined == IF ~s.stream_thread_started THEN {s}
                     ELSE {unstarted(j) : j \in pthread_join(s, FALSE)}
           Reopen(p) ==
             IF p.dual_mode
             THEN UNION {IF o.status = "OK" THEN Restarted(o.dev) ELSE {o.dev}
                         : o \in configure_dual_radio(p, p.dual_config)}
             ELSE IF bootstrap(p) = NoConfig THEN {p}
             ELSE UNION {IF o.status # "OK" THEN {o.dev} ELSE Restarted(ready(o.dev))
                         : o \in configure_radio(p, bootstrap(p))}
           Ended(p) ==
             UNION {IF q.status = "EBUSY" THEN {q.dev}
                    ELSE IF ~active THEN {GivenUp(q.dev)}
                    ELSE MayFail({"absent"}, {GivenUp(q.dev)}) \union Reopen(GivenUp(q.dev))
                    : q \in close_radio(p)}
<1>1. CASE ~s.stream_error \/ s.streaming
  <2>1. r = s
    BY <1>1, Zenon DEF recover_failed_stream
  <2>2. ~s.stream_error
    BY <1>1 DEF Steady
  <2>3. QED
    BY <2>1, <2>2, SMTT(20)
<1>2. CASE s.stream_error /\ ~s.streaming
  <2>1. r \in UNION {Ended(p) : p \in Joined}
    BY <1>2, Zenon DEF recover_failed_stream, GivenUp
  <2>2. PICK p \in Joined : r \in Ended(p)
    BY <2>1, Zenon
  <2>3. Steady(p) /\ p.thread.pc = "none" /\ p.stream_error /\ ~p.mode_swap_paused
    <3>1. CASE ~s.stream_thread_started
      BY <1>2, <3>1 DEF Steady
    <3>2. CASE s.stream_thread_started
      <4>1. PICK j \in pthread_join(s, FALSE) : p = unstarted(j)
        BY <3>2, Zenon
      <4>2. /\ SameTuning(j, unstarted(j)) /\ unstarted(j).thread = j.thread
            /\ unstarted(j).stray = j.stray /\ unstarted(j).stream_error = j.stream_error
            /\ unstarted(j).streaming = j.streaming
            /\ unstarted(j).stream_thread_started = FALSE
        BY DEF SameTuning, SameBook
      <4> HIDE DEF unstarted
      <4>3. /\ Steady(p) /\ SameTuning(s, p) /\ p.thread.pc = "none"
            /\ s.stream_error => p.stream_error
        BY <4>1, <4>2, SoloJoined, Zenon
      <4>4. QED
        BY <1>2, <4>3, Zenon DEF SameTuning, SameBook
    <3>3. QED
      BY <3>1, <3>2
  <2> HIDE DEF Joined, Reopen
  <2>4. PICK q \in close_radio(p) :
          r = q.dev \/ r = GivenUp(q.dev) \/ r \in Reopen(GivenUp(q.dev))
    BY <2>2 DEF MayFail
  <2> DEFINE d == GivenUp(q.dev)
  <2>5. /\ Steady(q.dev) /\ q.dev.radio = NoTuner /\ q.dev.thread.pc = "none"
        /\ q.dev.stream_error /\ ~q.dev.mode_swap_paused
    BY <2>3, SoloClose, Zenon DEF SameBook
  <2>6. Steady(d) /\ d.radio = NoTuner /\ d.thread.pc = "none" /\ ~d.mode_swap_paused
        /\ d.bootstrap_configured
    BY <2>5, SoloGivenUp
  <2> HIDE DEF d
  <2>7. CASE r = q.dev
    BY <2>5, <2>7, ClosedFits DEF OpenOK
  <2>8. OpenOK(d)
    BY <2>6 DEF OpenOK
  <2>9. CASE r = d
    BY <2>6, <2>8, <2>9, ClosedFits
  <2>10. bootstrap(d) = d.bootstrap_config /\ d.bootstrap_config \in SingleConfigs
    BY <2>6 DEF bootstrap, Steady
  <2>11. d.bootstrap_config.tuner \in Tuners
    BY <2>10, ConfigAssumption
  <2>12. ~d.dual_mode
    BY <2>6 DEF Steady
  <2>13. CASE r \in Reopen(d) /\ r # d
    <3>1. PICK o \in configure_radio(d, d.bootstrap_config) :
                 r \in (IF o.status # "OK" THEN {o.dev} ELSE Restarted(ready(o.dev)))
      BY <2>10, <2>13, <2>12 DEF Reopen
    <3>2. /\ Steady(o.dev) /\ SameBook(d, o.dev)
          /\ o.dev.thread.pc = "none" <=> d.thread.pc = "none"
          /\ o.status = "OK" => /\ o.dev.radio \in Tuners
                                /\ o.dev.hw = SingleHw(o.dev.radio, d.bootstrap_config)
          /\ o.status # "OK" => o.dev.radio = NoTuner /\ OpenOK(o.dev)
      BY <2>6, <2>8, <2>11, SoloConfigure
    <3>3. CASE o.status # "OK"
      BY <3>1, <3>2, <3>3, ClosedFits
    <3>4. CASE o.status = "OK"
      <4> DEFINE e == ready(o.dev)
      <4>1. /\ SameThreads(o.dev, e) /\ e.radio = o.dev.radio /\ e.hw = o.dev.hw
            /\ e.dual_mode = o.dev.dual_mode /\ e.config = o.dev.config
            /\ e.configured = TRUE /\ e.bootstrap_config = o.dev.bootstrap_config
            /\ e.bootstrap_configured = o.dev.bootstrap_configured
            /\ e.mode_swap_paused = o.dev.mode_swap_paused
        BY ConfiguredFields
      <4>2. r \in Restarted(e)
        BY <3>1, <3>4
      <4> HIDE DEF e
      <4>3. /\ o.dev.bootstrap_configured /\ o.dev.bootstrap_config = d.bootstrap_config
            /\ ~o.dev.mode_swap_paused
        BY <2>6, <3>2, Zenon DEF SameBook
      <4>4. Steady(e) /\ e.thread.pc = "none" /\ e.bootstrap_configured /\ e.configured
            /\ ~e.mode_swap_paused
        BY <2>6, <3>2, <4>1, <4>3, Zenon DEF Steady, SameThreads
      <4>5. e.radio \in Tuners /\ e.hw = SingleHw(e.radio, e.bootstrap_config)
        BY <3>2, <3>4, <4>1, <4>3
      <4>6. QED
        BY <4>2, <4>4, <4>5, SoloRestarted
    <3>5. QED
      BY <3>3, <3>4
  <2>14. QED
    BY <2>4, <2>7, <2>9, <2>13 DEF d
<1>3. QED
  BY <1>1, <1>2
\* Settings of the handle are no bookkeeping.
LEMMA HwFields ==
  ASSUME NEW s, NEW h
  PROVE  LET r == [s EXCEPT !.hw = h]
         IN /\ SameThreads(s, r) /\ SameBook(s, r) /\ r.hw = h
            /\ r.radio = s.radio /\ r.dual_mode = s.dual_mode
  BY DEF SameThreads, SameBook

\* SetSingle gives the open tuner the settings of c, where they differ from those that
\* the daemon believes it has.
LEMMA SoloSet ==
  ASSUME Alone, NEW s, NEW believed, NEW c, NEW o \in SetSingle(s, believed, c)
  PROVE  /\ o.status = "OK"
         /\ SameThreads(s, o.dev) /\ SameBook(s, o.dev)
         /\ o.dev.radio = s.radio /\ o.dev.dual_mode = s.dual_mode
         /\ o.dev.hw.rate = IF c.rate # believed.rate THEN c.rate ELSE s.hw.rate
         /\ s.radio \in Tuners /\ s.hw.rf \in [Tuners -> Nat] /\ c.rf \in Nat
              => /\ o.dev.hw.rf \in [Tuners -> Nat]
                 /\ o.dev.hw.rf[s.radio] = IF c.rf # believed.rf THEN c.rf
                                           ELSE s.hw.rf[s.radio]
<1> DEFINE f == IF c.rf # believed.rf THEN c.rf ELSE s.hw.rf[s.radio]
           g == IF c.rate # believed.rate THEN c.rate ELSE s.hw.rate
           h == [rate |-> g, rf |-> [s.hw.rf EXCEPT ![s.radio] = f]]
<1>1. o = Out([s EXCEPT !.hw = h], "OK")
  BY DEF Alone, SetSingle, MayFail
<1>2. o.status = "OK" /\ o.dev = [s EXCEPT !.hw = h]
  BY <1>1, OutFields
<1>3. h.rate = g
  OBVIOUS
<1>4. s.radio \in Tuners /\ s.hw.rf \in [Tuners -> Nat] /\ c.rf \in Nat
        => h.rf \in [Tuners -> Nat] /\ h.rf[s.radio] = f
  OBVIOUS
<1> HIDE DEF h
<1>5. /\ SameThreads(s, o.dev) /\ SameBook(s, o.dev) /\ o.dev.hw = h
      /\ o.dev.radio = s.radio /\ o.dev.dual_mode = s.dual_mode
  BY <1>2, HwFields
<1>6. QED
  BY <1>2, <1>3, <1>4, <1>5

\* An open handle is that of a tuner, and has a configuration to recover to.
LEMMA OpenHasConfig ==
  ASSUME NEW s, Steady(s), OpenOK(s), s.radio # NoTuner
  PROVE  /\ s.radio \in Tuners /\ s.bootstrap_configured
         /\ s.config \in SingleConfigs /\ s.config.rf \in Nat
         /\ s.bootstrap_config \in SingleConfigs
<1>1. s.radio \in Tuners /\ s.configured
  BY DEF OpenOK
<1>2. s.bootstrap_configured
  BY <1>1 DEF Steady
<1>3. QED
  BY <1>1, <1>2, ConfigAssumption DEF Steady

\* The restore at the end of a recovery sets what has changed since the last
\* configuration, and nothing is pending any more.
LEMMA SoloFinish ==
  ASSUME Alone, NEW s, Steady(s), OpenOK(s), FitsOK(s), NEW x \in finish_recovery_config(s)
  PROVE  Steady(x) /\ OpenOK(x) /\ FitsOK(x)
<1> DEFINE done(o) == [o.dev EXCEPT !.recovery_config_pending = FALSE]
<1>1. CASE x = s
  BY <1>1
<1>2. CASE s.radio # NoTuner /\ \E o \in SetSingle(s, bootstrap(s), s.config) : x = done(o)
  <2>1. PICK o \in SetSingle(s, bootstrap(s), s.config) : x = done(o)
    BY <1>2, Zenon
  <2>2. /\ SameThreads(o.dev, x) /\ x.radio = o.dev.radio /\ x.hw = o.dev.hw
        /\ x.dual_mode = o.dev.dual_mode /\ x.config = o.dev.config
        /\ x.configured = o.dev.configured /\ x.bootstrap_config = o.dev.bootstrap_config
        /\ x.bootstrap_configured = o.dev.bootstrap_configured
        /\ x.mode_swap_paused = o.dev.mode_swap_paused
    BY <2>1, PendingFields
  <2> HIDE DEF done
  <2>3. /\ s.radio \in Tuners /\ s.config \in SingleConfigs /\ s.config.rf \in Nat
        /\ s.bootstrap_config \in SingleConfigs
    BY <1>2, OpenHasConfig
  <2>4. bootstrap(s) = s.bootstrap_config
    BY <1>2, OpenHasConfig DEF bootstrap
  <2>5. /\ SameThreads(s, o.dev) /\ SameBook(s, o.dev)
        /\ o.dev.radio = s.radio /\ o.dev.dual_mode = s.dual_mode
        /\ o.dev.hw.rate = IF s.config.rate # s.bootstrap_config.rate THEN s.config.rate
                           ELSE s.hw.rate
        /\ s.hw.rf \in [Tuners -> Nat]
             => /\ o.dev.hw.rf \in [Tuners -> Nat]
                /\ o.dev.hw.rf[s.radio] = IF s.config.rf # s.bootstrap_config.rf
                                          THEN s.config.rf ELSE s.hw.rf[s.radio]
    BY <2>3, <2>4, SoloSet
  <2>6. SameThreads(s, x) /\ x.radio = s.radio /\ x.config = s.config
        /\ x.configured = s.configured /\ x.dual_mode = s.dual_mode
        /\ x.bootstrap_config = s.bootstrap_config
        /\ x.bootstrap_configured = s.bootstrap_configured
        /\ x.mode_swap_paused = s.mode_swap_paused
    BY <2>2, <2>5, Zenon DEF SameThreads, SameBook
  <2>7. Steady(x)
    BY <2>6, Zenon DEF Steady, SameThreads
  <2>8. OpenOK(x)
    BY <2>6 DEF OpenOK, SameThreads
  <2>9. ASSUME OneRate
        PROVE  /\ x.hw.rate = x.config.rate /\ x.hw.rf \in [Tuners -> Nat]
               /\ x.hw.rf[x.radio] = x.config.rf
    <3>1. /\ s.hw.rate = s.config.rate /\ s.hw.rf \in [Tuners -> Nat]
          /\ s.hw.rf[s.radio] \in {s.config.rf, s.bootstrap_config.rf}
      BY <1>2, <2>9 DEF FitsOK, Tuned, Fits
    <3>2. QED
      BY <2>2, <2>5, <2>6, <3>1
  <2>10. FitsOK(x)
    BY <2>9 DEF FitsOK, Tuned, Fits
  <2>11. QED
    BY <2>7, <2>8, <2>10
<1>3. \/ x = s
      \/ s.radio # NoTuner /\ \E o \in SetSingle(s, bootstrap(s), s.config) :
           x = IF o.status = "OK" THEN done(o)
               ELSE cancel_async([done(o) EXCEPT !.stream_error = TRUE])
  BY Zenon DEF finish_recovery_config
<1> HIDE DEF done
<1>4. CASE s.radio # NoTuner /\ \E o \in SetSingle(s, bootstrap(s), s.config) :
             x = IF o.status = "OK" THEN done(o)
                 ELSE cancel_async([done(o) EXCEPT !.stream_error = TRUE])
  <2>1. PICK o \in SetSingle(s, bootstrap(s), s.config) :
               x = IF o.status = "OK" THEN done(o)
                   ELSE cancel_async([done(o) EXCEPT !.stream_error = TRUE])
    BY <1>4, Zenon
  <2>2. o.status = "OK"
    BY SoloSet
  <2>3. x = done(o)
    BY <2>1, <2>2
  <2>4. QED
    BY <1>2, <1>4, <2>3, Zenon
<1>5. QED
  BY <1>1, <1>3, <1>4, Zenon
\* The stores of a release.
LEMMA ReleaseFields ==
  ASSUME NEW d
  PROVE  LET r == [d EXCEPT !.streaming = FALSE, !.stream_error = FALSE, !.stream_result = 0,
                            !.dual_mode = FALSE, !.mode_swap_paused = FALSE]
         IN /\ r.thread = d.thread /\ r.stray = d.stray /\ r.radio = d.radio /\ r.hw = d.hw
            /\ r.stream_thread_started = d.stream_thread_started
            /\ r.stream_error = FALSE /\ r.dual_mode = FALSE /\ r.mode_swap_paused = FALSE
            /\ r.streaming = FALSE
            /\ r.config = d.config /\ r.configured = d.configured
            /\ r.bootstrap_config = d.bootstrap_config
            /\ r.bootstrap_configured = d.bootstrap_configured
            /\ r.recovery_config_pending = d.recovery_config_pending
  OBVIOUS

\* A close that also forgets that the handle was configured.
LEMMA SoloClosed ==
  ASSUME NEW s, Steady(s), Undisturbed => s.radio = NoTuner \/ s.thread.pc = "none",
         NEW d \in Closed(s)
  PROVE  /\ Steady(d) /\ d.radio = NoTuner
         /\ d.stream_error = s.stream_error
         /\ d.thread.pc = "none" <=> s.thread.pc = "none"
<1>1. PICK q \in close_radio(s) : d = [q.dev EXCEPT !.configured = FALSE]
  BY DEF Closed
<1>2. /\ SameThreads(q.dev, d) /\ d.radio = q.dev.radio /\ d.dual_mode = q.dev.dual_mode
      /\ d.config = q.dev.config /\ d.bootstrap_config = q.dev.bootstrap_config
      /\ d.bootstrap_configured = q.dev.bootstrap_configured
      /\ d.mode_swap_paused = q.dev.mode_swap_paused
  BY <1>1 DEF SameThreads
<1>3. /\ Steady(q.dev) /\ q.dev.radio = NoTuner /\ q.dev.stream_error = s.stream_error
      /\ q.dev.thread.pc = "none" <=> s.thread.pc = "none"
  BY SoloClose
<1>4. d.configured = FALSE
  BY <1>1
<1>5. Steady(d)
  BY <1>2, <1>3, <1>4, Zenon DEF Steady, SameThreads
<1>6. QED
  BY <1>2, <1>3, <1>5 DEF SameThreads

\* The release of the owner stops the stream; a handle with a recorded failure is closed,
\* one that is kept has the settings it had.
LEMMA SoloRelease ==
  ASSUME NEW s, Steady(s), OpenOK(s), FitsOK(s) \/ s.stream_error, NEW r \in release_owner(s)
  PROVE  Steady(r) /\ OpenOK(r) /\ FitsOK(r) /\ ~r.stream_error
<1> DEFINE given(d) == [d EXCEPT !.streaming = FALSE, !.stream_error = FALSE,
                                 !.stream_result = 0, !.dual_mode = FALSE,
                                 !.mode_swap_paused = FALSE]
<1>1. PICK t \in Stopped(s) : r \in Relinquished(t)
  BY SMTT(20) DEF release_owner
<1>2. PICK d \in (IF (t.dual_mode \/ t.stream_error) /\ t.radio # NoTuner THEN Closed(t)
                  ELSE {t}) : r = given(d)
  BY <1>1, Zenon DEF Relinquished
<1>3. /\ r.thread = d.thread /\ r.stray = d.stray /\ r.radio = d.radio /\ r.hw = d.hw
      /\ r.stream_thread_started = d.stream_thread_started
      /\ r.stream_error = FALSE /\ r.dual_mode = FALSE /\ r.mode_swap_paused = FALSE
      /\ r.streaming = FALSE
      /\ r.config = d.config /\ r.configured = d.configured
      /\ r.bootstrap_config = d.bootstrap_config
      /\ r.bootstrap_configured = d.bootstrap_configured
      /\ r.recovery_config_pending = d.recovery_config_pending
  BY <1>2, ReleaseFields
<1> HIDE DEF given
<1>4. /\ Steady(t) /\ OpenOK(t) /\ SameTuning(s, t) /\ (Undisturbed => t.thread.pc = "none")
      /\ s.stream_error => t.stream_error
  <2>1. CASE s.radio = NoTuner
    BY <2>1 DEF Stopped, OpenOK, SameTuning, SameBook
  <2>2. CASE s.radio # NoTuner
    <3>1. PICK o \in stop_stream(s) : t = o.dev
      BY <2>2 DEF Stopped
    <3>2. QED
      BY <3>1, SoloStop
  <2>3. QED
    BY <2>1, <2>2
<1>5. CASE t.stream_error /\ t.radio # NoTuner
  <2>1. d \in Closed(t)
    BY <1>2, <1>5
  <2>2. Steady(d) /\ d.radio = NoTuner /\ (Undisturbed => d.thread.pc = "none")
    BY <1>4, <2>1, SoloClosed
  <2>3. Steady(r)
    BY <1>3, <2>2, Zenon DEF Steady
  <2>4. OpenOK(r)
    BY <1>3, <2>2 DEF OpenOK
  <2>5. QED
    BY <1>3, <2>2, <2>3, <2>4, ClosedFits
<1>6. CASE ~(t.stream_error /\ t.radio # NoTuner)
  <2>1. d = t
    BY <1>2, <1>4, <1>6 DEF Steady
  <2>2. Steady(r)
    BY <1>3, <1>4, <2>1, Zenon DEF Steady
  <2>3. OpenOK(r)
    BY <1>3, <1>4, <2>1 DEF OpenOK
  <2>4. CASE r.radio = NoTuner
    BY <1>3, <2>2, <2>3, <2>4, ClosedFits
  <2>5. CASE r.radio # NoTuner
    <3>1. FitsOK(t)
      BY <1>3, <1>4, <1>6, <2>1, <2>5, SameTuningFits, SMTT(20)
    <3>2. FitsOK(r)
      BY <1>3, <2>1, <3>1 DEF FitsOK, Tuned, Fits
    <3>3. QED
      BY <1>3, <2>2, <2>3, <3>2
  <2>6. QED
    BY <2>4, <2>5
<1>7. QED
  BY <1>5, <1>6
\* duo_reset_hardware stops the stream and closes the handle.
LEMMA SoloReset ==
  ASSUME NEW s, Steady(s), OpenOK(s), NEW r \in duo_reset_hardware(s)
  PROVE  Steady(r.dev) /\ OpenOK(r.dev) /\ FitsOK(r.dev)
<1> DEFINE off(q) == [q.dev EXCEPT !.configured = FALSE, !.dual_mode = FALSE]
<1>1. PICK o \in IF s.radio = NoTuner THEN {Out(s, "OK")} ELSE stop_stream(s) :
             r \in {Out(off(q), IF o.status = "OK" /\ q.status = "OK" THEN "OK"
                               ELSE "IO_ERROR") : q \in close_radio(o.dev)}
  BY Zenon DEF duo_reset_hardware
<1>2. PICK q \in close_radio(o.dev) :
             r = Out(off(q), IF o.status = "OK" /\ q.status = "OK" THEN "OK" ELSE "IO_ERROR")
  BY <1>1, Zenon
<1>3. r.dev = off(q)
  BY <1>2, OutFields
<1>4. /\ r.dev.thread = q.dev.thread /\ r.dev.stray = q.dev.stray
      /\ r.dev.radio = q.dev.radio /\ r.dev.config = q.dev.config
      /\ r.dev.streaming = q.dev.streaming /\ r.dev.stream_error = q.dev.stream_error
      /\ r.dev.stream_thread_started = q.dev.stream_thread_started
      /\ r.dev.bootstrap_config = q.dev.bootstrap_config
      /\ r.dev.bootstrap_configured = q.dev.bootstrap_configured
      /\ r.dev.mode_swap_paused = q.dev.mode_swap_paused
  BY <1>3
<1>5. r.dev.configured = FALSE /\ r.dev.dual_mode = FALSE
  BY <1>3
<1> HIDE DEF off
<1>6. Steady(o.dev) /\ (Undisturbed => o.dev.thread.pc = "none")
  <2>1. CASE s.radio = NoTuner
    BY <1>1, <2>1, OutFields DEF OpenOK
  <2>2. CASE s.radio # NoTuner
    BY <1>1, <2>2, SoloStop
  <2>3. QED
    BY <2>1, <2>2
<1>7. Steady(q.dev) /\ q.dev.radio = NoTuner /\ (Undisturbed => q.dev.thread.pc = "none")
  BY <1>6, SoloClose
<1>8. Steady(r.dev)
  BY <1>4, <1>5, <1>7, Zenon DEF Steady
<1>9. QED
  BY <1>4, <1>7, <1>8, ClosedFits DEF OpenOK

\* A change in place adopts the settings it sets.
LEMMA SoloUpdate ==
  ASSUME Alone, NEW s, Steady(s), OpenOK(s), FitsOK(s), s.radio # NoTuner,
         NEW g \in SingleConfigs, NEW o \in apply_update(s, g)
  PROVE  /\ Steady(o.dev) /\ OpenOK(o.dev) /\ FitsOK(o.dev)
         /\ SameThreads(s, o.dev) /\ o.dev.radio = s.radio
         /\ o.dev.bootstrap_configured = s.bootstrap_configured
         /\ o.status \in {"OK", "BAD_REQUEST"}
<1> DEFINE adopted(p) == [p.dev EXCEPT !.config = g]
<1>1. \/ o = Out(s, "BAD_REQUEST")
      \/ \E p \in SetSingle(s, s.config, g) :
           o = IF p.status = "OK" THEN Out(adopted(p), "OK") ELSE p
  BY Zenon DEF apply_update, Steady
<1>2. CASE o = Out(s, "BAD_REQUEST")
  BY <1>2, OutFields DEF SameThreads
<1>3. CASE \E p \in SetSingle(s, s.config, g) :
             o = IF p.status = "OK" THEN Out(adopted(p), "OK") ELSE p
  <2>1. PICK p \in SetSingle(s, s.config, g) :
               o = IF p.status = "OK" THEN Out(adopted(p), "OK") ELSE p
    BY <1>3, Zenon
  <2>2. s.radio \in Tuners /\ g.rf \in Nat /\ s.config \in SingleConfigs
    BY OpenHasConfig, ConfigAssumption
  <2>3. /\ p.status = "OK" /\ SameThreads(s, p.dev) /\ SameBook(s, p.dev)
        /\ p.dev.radio = s.radio /\ p.dev.dual_mode = s.dual_mode
        /\ p.dev.hw.rate = IF g.rate # s.config.rate THEN g.rate ELSE s.hw.rate
        /\ s.hw.rf \in [Tuners -> Nat]
             => /\ p.dev.hw.rf \in [Tuners -> Nat]
                /\ p.dev.hw.rf[s.radio] = IF g.rf # s.config.rf THEN g.rf
                                          ELSE s.hw.rf[s.radio]
    BY <2>2, SoloSet
  <2> DEFINE x == adopted(p)
  <2>4. o.dev = x /\ o.status = "OK"
    BY <2>1, <2>3, OutFields
  <2>5. /\ SameThreads(p.dev, x) /\ x.radio = p.dev.radio /\ x.hw = p.dev.hw
        /\ x.dual_mode = p.dev.dual_mode /\ x.configured = p.dev.configured
        /\ x.bootstrap_config = p.dev.bootstrap_config
        /\ x.bootstrap_configured = p.dev.bootstrap_configured
        /\ x.recovery_config_pending = p.dev.recovery_config_pending
        /\ x.mode_swap_paused = p.dev.mode_swap_paused
    BY DEF SameThreads
  <2>6. x.config = g
    OBVIOUS
  <2> HIDE DEF x
  <2>7. /\ SameThreads(s, x) /\ x.radio = s.radio /\ x.dual_mode = s.dual_mode
        /\ x.configured = s.configured /\ x.bootstrap_config = s.bootstrap_config
        /\ x.bootstrap_configured = s.bootstrap_configured
        /\ x.recovery_config_pending = s.recovery_config_pending
        /\ x.mode_swap_paused = s.mode_swap_paused
    BY <2>3, <2>5, Zenon DEF SameThreads, SameBook
  <2>8. Steady(x)
    BY <2>6, <2>7, Zenon DEF Steady, SameThreads
  <2>9. OpenOK(x)
    BY <2>7 DEF OpenOK, SameThreads
  <2>10. FitsOK(x)
    <3>1. SUFFICES ASSUME OneRate PROVE Tuned(x) /\ Fits(x)
      BY DEF FitsOK
    <3>2. /\ s.hw.rate = s.config.rate /\ s.hw.rf \in [Tuners -> Nat]
          /\ s.mode_swap_paused => s.hw.rf[s.radio] = s.config.rf
          /\ \/ s.hw.rf[s.radio] = s.config.rf
             \/ s.recovery_config_pending /\ s.hw.rf[s.radio] = s.bootstrap_config.rf
      BY <3>1 DEF FitsOK, Tuned, Fits
    <3>3. x.hw.rate = g.rate /\ x.hw.rf \in [Tuners -> Nat]
          /\ x.hw.rf[s.radio] = IF g.rf # s.config.rf THEN g.rf ELSE s.hw.rf[s.radio]
      BY <2>3, <2>5, <3>2
    <3>4. QED
      BY <2>6, <2>7, <3>2, <3>3 DEF Tuned, Fits
  <2>11. QED
    BY <2>4, <2>7, <2>8, <2>9, <2>10
<1>4. QED
  BY <1>1, <1>2, <1>3
\* Whoever asks finds a receiver that fits: when the owner's settings wait for the
\* recovery, the owner was served in this round, and nobody else may ask.
LEMMA SoloServed ==
  ASSUME SessInv, SoloInv, NEW c, NEW command, Serves(c, command), owner \in {c, NoClient}
  PROVE  Steady(dev) /\ OpenOK(dev) /\ FitsOK(dev) /\ ~duo.master_initialised
<1>1. loop # "top" /\ c \notin served
  BY DEF Serves
<1>2. NoClient \notin served
  BY NoClientAssumption DEF SoloInv
<1>3. QED
  BY <1>1, <1>2 DEF SoloInv, FitsOK

\* A request that leaves a receiver that fits.
LEMMA SoloServes ==
  ASSUME SessInv, SoloInv, NEW c, NEW command, Serves(c, command),
         NEW s, NEW launch, Answer(c, s, launch),
         Steady(dev') /\ OpenOK(dev') /\ FitsOK(dev'), ~duo'.master_initialised
  PROVE  SoloInv'
<1>1. served' \subseteq Clients
  BY ServedIsClient DEF Answer, SoloInv
<1>2. QED
  BY <1>1 DEF SoloInv, FitsOK

\* An answer without a launch.
LEMMA PlainAnswer ==
  ASSUME NEW c, NEW s, Answer(c, s, "none")
  PROVE  dev' = s
  BY DEF Answer

\* The stores of START.
LEMMA StartFields ==
  ASSUME NEW s, NEW r,
         r = [s EXCEPT !.streaming = TRUE, !.stream_error = FALSE, !.stream_result = 0]
  PROVE  /\ SameTuning(s, r) /\ r.thread = s.thread /\ r.stray = s.stray
         /\ r.stream_thread_started = s.stream_thread_started /\ r.stream_error = FALSE
  BY DEF SameTuning, SameBook

\* The requests of an owner that change no configuration.
LEMMA OwnerSolo ==
  ASSUME Alone, SessInv, DevOK(FALSE, dev), SoloInv, NEW c,
         \/ ACQUIRE(c) \/ START(c) \/ STOP(c) \/ RELEASE(c) \/ RESUME_MODE(c)
  PROVE  SoloInv'
<1>1. CASE ACQUIRE(c)
  <2>1. Serves(c, "ACQUIRE") /\ owner = NoClient /\ Answer(c, dev, "none") /\ duo' = duo
    BY <1>1 DEF ACQUIRE
  <2>2. QED
    BY <2>1, SoloServed, PlainAnswer, SoloServes
<1>2. CASE START(c)
  <2> DEFINE ready == [dev EXCEPT !.streaming = TRUE, !.stream_error = FALSE,
                                  !.stream_result = 0]
  <2>1. /\ Serves(c, "START") /\ owner = c /\ Answer(c, ready, "start") /\ duo' = duo
        /\ dev.radio # NoTuner /\ ~dev.stream_thread_started
    BY <1>2 DEF START, ownership
  <2>2. Steady(dev) /\ OpenOK(dev) /\ FitsOK(dev) /\ ~duo.master_initialised
    BY <2>1, SoloServed
  <2>3. dev.bootstrap_configured /\ dev.thread.pc = "none"
    BY <2>1, <2>2, OpenHasConfig, SMTT(20) DEF Steady
  <2>4. /\ SameTuning(dev, ready) /\ ready.thread = dev.thread /\ ready.stray = dev.stray
        /\ ready.stream_thread_started = dev.stream_thread_started
        /\ ready.stream_error = FALSE
    BY StartFields, Zenon
  <2> HIDE DEF ready
  <2>5. Steady(ready)
    BY <2>2, <2>3, <2>4, Zenon DEF Steady, SameTuning, SameBook
  <2>6. OpenOK(ready)
    BY <2>2, <2>4 DEF OpenOK, SameTuning, SameBook
  <2>7. FitsOK(ready)
    BY <2>2, <2>4, SameTuningFits
  <2>8. /\ ready.thread.pc = "none" /\ ready.bootstrap_configured /\ ~ready.stream_error
        /\ ready.radio # NoTuner
    BY <2>1, <2>3, <2>4, ZenonT(30) DEF SameTuning, SameBook
  <2>9. Steady(dev') /\ OpenOK(dev') /\ FitsOK(dev')
    BY <2>1, <2>5, <2>6, <2>7, <2>8, SoloAnswer
  <2>10. QED
    BY <2>1, <2>2, <2>9, SoloServes
<1>3. CASE STOP(c)
  <2>1. Serves(c, "STOP") /\ owner = c /\ duo' = duo
    BY <1>3 DEF STOP, ownership
  <2>2. PICK o \in stop_stream(dev) : Answer(c, o.dev, "none")
    BY <1>3 DEF STOP
  <2>3. Steady(dev) /\ OpenOK(dev) /\ FitsOK(dev) /\ ~duo.master_initialised
    BY <2>1, SoloServed
  <2>4. Steady(o.dev) /\ OpenOK(o.dev) /\ FitsOK(o.dev)
    BY <2>3, SoloStop, SameTuningFits
  <2>5. QED
    BY <2>1, <2>2, <2>3, <2>4, PlainAnswer, SoloServes
<1>4. CASE RELEASE(c)
  <2>1. Serves(c, "RELEASE") /\ owner = c /\ duo' = duo
    BY <1>4 DEF RELEASE
  <2>2. PICK s \in release_owner(dev) : Answer(c, s, "none")
    BY <1>4 DEF RELEASE
  <2>3. Steady(dev) /\ OpenOK(dev) /\ FitsOK(dev) /\ ~duo.master_initialised
    BY <2>1, SoloServed
  <2>4. Steady(s) /\ OpenOK(s) /\ FitsOK(s)
    BY <2>3, SoloRelease
  <2>5. QED
    BY <2>1, <2>2, <2>3, <2>4, PlainAnswer, SoloServes
<1>5. CASE RESUME_MODE(c)
  <2> DEFINE ready == [dev EXCEPT !.mode_swap_paused = FALSE]
  <2>1. /\ Serves(c, "RESUME_MODE") /\ owner = c /\ Answer(c, ready, "resume") /\ duo' = duo
        /\ dev.configured /\ dev.mode_swap_paused
    BY <1>5 DEF RESUME_MODE, ownership
  <2>2. Steady(dev) /\ OpenOK(dev) /\ FitsOK(dev) /\ ~duo.master_initialised
    BY <2>1, SoloServed
  <2>3. /\ SameThreads(dev, ready) /\ ready.radio = dev.radio /\ ready.hw = dev.hw
        /\ ready.dual_mode = dev.dual_mode /\ ready.config = dev.config
        /\ ready.configured = dev.configured
        /\ ready.bootstrap_config = dev.bootstrap_config
        /\ ready.bootstrap_configured = dev.bootstrap_configured
        /\ ready.recovery_config_pending = dev.recovery_config_pending
    BY DEF SameThreads
  <2>4. ready.mode_swap_paused = FALSE
    OBVIOUS
  <2> HIDE DEF ready
  <2>5. dev.bootstrap_configured /\ ~Undisturbed
    BY <2>1, <2>2 DEF Steady
  <2>6. dev.thread.pc = "none"
    <3>1. Orderly
      BY DEF Alone, Orderly
    <3>2. ~dev.stream_thread_started
      BY <2>1, <3>1 DEF DevOK, StreamOK
    <3>3. QED
      BY <2>2, <3>2 DEF Steady
  <2>7. Steady(ready) /\ ready.thread.pc = "none" /\ ready.bootstrap_configured
    BY <2>2, <2>3, <2>4, <2>5, <2>6, Zenon DEF Steady, SameThreads
  <2>8. OpenOK(ready)
    BY <2>2, <2>3, <2>5 DEF OpenOK, SameThreads
  <2>9. OneRate /\ ready.radio # NoTuner => ready.hw.rf[ready.radio] = ready.config.rf
    BY <2>1, <2>2, <2>3 DEF FitsOK, Tuned
  <2>10. FitsOK(ready)
    BY <2>2, <2>3, <2>4, <2>9, SMTT(20) DEF FitsOK, Tuned, Fits
  <2>11. Steady(dev') /\ OpenOK(dev') /\ FitsOK(dev')
    BY <2>1, <2>5, <2>7, <2>8, <2>9, <2>10, SoloAnswer, SMTT(20)
  <2>12. QED
    BY <2>1, <2>2, <2>11, SoloServes
<1>6. QED
  BY <1>1, <1>2, <1>3, <1>4, <1>5
\* CONFIGURE and SWAP_TUNER: a configured handle fits, any other is closed, or is the
\* one that could not be stopped.
LEMMA ConfigureSolo ==
  ASSUME Alone, SessInv, SoloInv, NEW c, NEW g \in SingleConfigs,
         CONFIGURE(c, g) \/ SWAP_TUNER(c, g)
  PROVE  SoloInv'
<1>1. g.tuner \in Tuners
  BY ConfigAssumption
<1>2. ASSUME NEW s, Steady(s), OpenOK(s), NEW o \in configure_radio(s, g)
      PROVE  /\ o.status # "OK" => Steady(o.dev) /\ OpenOK(o.dev) /\ FitsOK(o.dev)
             /\ o.status = "OK" => /\ Steady(Adopted(o.dev, g)) /\ OpenOK(Adopted(o.dev, g))
                                   /\ FitsOK(Adopted(o.dev, g))
                                   /\ o.dev.radio \in Tuners
                                   /\ o.dev.hw = SingleHw(o.dev.radio, g)
  BY <1>1, <1>2, SoloConfigure, SoloAdopted, ClosedFits
<1>3. CASE CONFIGURE(c, g)
  <2>1. Serves(c, "CONFIGURE") /\ owner = c /\ duo' = duo
    BY <1>3 DEF CONFIGURE, ownership
  <2>2. PICK o \in configure_radio(dev, g) :
               Answer(c, IF o.status = "OK" THEN Adopted(o.dev, g) ELSE o.dev, "none")
    BY <1>3 DEF CONFIGURE
  <2>3. Steady(dev) /\ OpenOK(dev) /\ FitsOK(dev) /\ ~duo.master_initialised
    BY <2>1, SoloServed
  <2>4. Steady(dev') /\ OpenOK(dev') /\ FitsOK(dev')
    BY <1>2, <2>2, <2>3, PlainAnswer
  <2>5. QED
    BY <2>1, <2>2, <2>3, <2>4, SoloServes
<1>4. CASE SWAP_TUNER(c, g)
  <2> DEFINE swapped(s) == [Adopted(s, g) EXCEPT !.mode_swap_paused = dev.stream_thread_started]
             Single(s) == configure_radio(s, g)
  <2>1. Serves(c, "SWAP_TUNER") /\ owner = c /\ duo' = duo
    BY <1>4 DEF SWAP_TUNER, ownership
  <2>2. PICK o \in Then(stop_and_close(dev), Single) :
               Answer(c, IF o.status # "OK" THEN o.dev ELSE swapped(o.dev), "none")
    BY <1>4, Zenon DEF SWAP_TUNER
  <2>3. Steady(dev) /\ OpenOK(dev) /\ FitsOK(dev) /\ ~duo.master_initialised
    BY <2>1, SoloServed
  <2>4. ~Undisturbed
    BY <2>1 DEF Undisturbed, Serves
  <2>5. PICK r \in stop_and_close(dev) :
               o \in IF r.status = "OK" THEN configure_radio(r.dev, g) ELSE {r}
    BY <2>2 DEF Then
  <2>6. PICK p \in stop_stream(dev) :
               \/ r = p /\ p.status # "OK"
               \/ \E q \in close_radio(p.dev) : \E v : r = Out(q.dev, v)
    BY <2>5 DEF stop_and_close
  <2>7. Steady(p.dev) /\ OpenOK(p.dev) /\ FitsOK(p.dev)
    BY <2>3, SoloStop, SameTuningFits
  <2>8. Steady(r.dev) /\ OpenOK(r.dev) /\ FitsOK(r.dev)
    <3>1. CASE r = p
      BY <2>7, <3>1
    <3>2. CASE \E q \in close_radio(p.dev) : \E v : r = Out(q.dev, v)
      <4>1. PICK q \in close_radio(p.dev) : \E v : r = Out(q.dev, v)
        BY <3>2
      <4>2. r.dev = q.dev
        BY <4>1, OutFields
      <4>3. Steady(q.dev) /\ q.dev.radio = NoTuner
        BY <2>4, <2>7, SoloClose
      <4>4. QED
        BY <2>4, <4>2, <4>3, ClosedFits DEF OpenOK
    <3>3. QED
      BY <2>6, <3>1, <3>2
  <2>9. CASE o.status # "OK"
    <3>1. Steady(o.dev) /\ OpenOK(o.dev) /\ FitsOK(o.dev)
      <4>1. CASE r.status = "OK"
        BY <1>2, <2>5, <2>8, <2>9, <4>1
      <4>2. CASE r.status # "OK"
        BY <2>5, <2>8, <4>2
      <4>3. QED
        BY <4>1, <4>2
    <3>2. QED
      BY <2>1, <2>2, <2>3, <2>9, <3>1, PlainAnswer, SoloServes
  <2>10. CASE o.status = "OK"
    <3> DEFINE a == Adopted(o.dev, g)
               d == [a EXCEPT !.mode_swap_paused = dev.stream_thread_started]
    <3>1. o \in configure_radio(r.dev, g)
      BY <2>5, <2>10
    <3>2. /\ Steady(a) /\ OpenOK(a) /\ FitsOK(a)
          /\ o.dev.radio \in Tuners /\ o.dev.hw = SingleHw(o.dev.radio, g)
      BY <1>2, <2>8, <2>10, <3>1
    <3>3. a.radio = o.dev.radio /\ a.hw = o.dev.hw /\ a.config = g
      BY DEF Adopted
    <3> HIDE DEF a
    <3>4. /\ SameThreads(a, d) /\ d.radio = a.radio /\ d.hw = a.hw
          /\ d.dual_mode = a.dual_mode /\ d.config = a.config
          /\ d.configured = a.configured /\ d.bootstrap_config = a.bootstrap_config
          /\ d.bootstrap_configured = a.bootstrap_configured
          /\ d.recovery_config_pending = a.recovery_config_pending
      BY DEF SameThreads
    <3>5. Answer(c, d, "none")
      BY <2>2, <2>10 DEF a
    <3> HIDE DEF d
    <3>6. Steady(d)
      BY <2>4, <3>2, <3>4, Zenon DEF Steady, SameThreads
    <3>7. OpenOK(d)
      BY <2>4, <3>2, <3>4 DEF OpenOK
    <3>8. d.hw.rate = g.rate /\ d.hw.rf \in [Tuners -> Nat] /\ d.hw.rf[d.radio] = g.rf
      BY <3>2, <3>3, <3>4, SingleHwFields
    <3>9. FitsOK(d)
      BY <3>3, <3>4, <3>8 DEF FitsOK, Tuned, Fits
    <3>10. QED
      BY <2>1, <2>3, <3>5, <3>6, <3>7, <3>9, PlainAnswer, SoloServes
  <2>11. QED
    BY <2>9, <2>10
<1>5. QED
  BY <1>3, <1>4

\* An update while the receiver is away is remembered, and waits for the recovery.
LEMMA QueuedSolo ==
  ASSUME Alone, SessInv, DevOK(FALSE, dev), SoloInv, NEW c, NEW g \in SingleConfigs,
         UPDATE_QUEUED(c, g)
  PROVE  SoloInv'
<1> DEFINE d == [dev EXCEPT !.config = g]
<1>1. /\ Serves(c, "UPDATE") /\ owner = c /\ owner' = owner /\ duo' = duo
      /\ Answer(c, d, "none")
      /\ dev.radio = NoTuner \/ ~dev.configured \/ dev.stream_error
  BY DEF UPDATE_QUEUED, ownership
<1>2. Steady(dev) /\ OpenOK(dev) /\ FitsOK(dev) /\ ~duo.master_initialised
  BY <1>1, SoloServed
<1>3. /\ SameThreads(dev, d) /\ d.radio = dev.radio /\ d.hw = dev.hw
      /\ d.dual_mode = dev.dual_mode /\ d.configured = dev.configured
      /\ d.bootstrap_config = dev.bootstrap_config
      /\ d.bootstrap_configured = dev.bootstrap_configured
      /\ d.mode_swap_paused = dev.mode_swap_paused
  BY DEF SameThreads
<1>4. d.config = g
  OBVIOUS
<1> HIDE DEF d
<1>5. Steady(d)
  BY <1>2, <1>3, <1>4, Zenon DEF Steady, SameThreads
<1>6. OpenOK(d)
  BY <1>2, <1>3 DEF OpenOK, SameThreads
<1>7. dev' = d
  BY <1>1, PlainAnswer
<1>8. CASE dev.radio = NoTuner
  <2>1. FitsOK(dev')
    BY <1>3, <1>7, <1>8, ClosedFits
  <2>2. QED
    BY <1>1, <1>2, <1>5, <1>6, <1>7, <2>1, SoloServes, SMTT(20)
<1>9. CASE dev.radio # NoTuner
  <2>1. dev.stream_error
    BY <1>1, <1>2, <1>9 DEF OpenOK
  <2>2. ~dev.mode_swap_paused
    <3>1. Orderly
      BY DEF Alone, Orderly
    <3>2. QED
      BY <2>1, <3>1 DEF DevOK, StreamOK
  <2>3. dev.config \in SingleConfigs
    BY <1>2, <1>9, OpenHasConfig, SMTT(20)
  <2>4. OneRate => Tuned(d)
    <3>1. OneRate => dev.config.rate = g.rate
      BY <2>3 DEF OneRate
    <3>2. QED
      BY <1>2, <1>3, <1>4, <1>9, <2>2, <3>1 DEF FitsOK, Tuned
  <2>5. owner' \in served' /\ served' \subseteq Clients
    BY <1>1, ServedIsClient DEF Answer, SoloInv
  <2>6. d.stream_error
    BY <1>3, <2>1 DEF SameThreads
  <2>7. QED
    BY <1>1, <1>2, <1>5, <1>6, <1>7, <2>4, <2>5, <2>6, SMTT(20) DEF SoloInv
<1>10. QED
  BY <1>8, <1>9
\* A failed restart of the stream, which an update asked for: there is no thread to cancel.
LEMMA FailedUpdate ==
  ASSUME NEW s, NEW g \in SingleConfigs, Steady(s), OpenOK(s), s.thread.pc = "none",
         ~s.streaming, s.bootstrap_configured, NEW d,
         d = cancel_async([s EXCEPT !.config = g, !.stream_error = TRUE])
  PROVE  Steady(d) /\ OpenOK(d)
<1> DEFINE failed == [s EXCEPT !.config = g, !.stream_error = TRUE]
<1>1. /\ failed.thread = s.thread /\ failed.stray = s.stray /\ failed.radio = s.radio
      /\ failed.config = g /\ failed.bootstrap_config = s.bootstrap_config
  OBVIOUS
<1>2. /\ failed.dual_mode <=> s.dual_mode
      /\ failed.stream_thread_started <=> s.stream_thread_started
      /\ failed.configured <=> s.configured
      /\ failed.bootstrap_configured <=> s.bootstrap_configured
      /\ failed.mode_swap_paused <=> s.mode_swap_paused
      /\ failed.streaming <=> s.streaming
  OBVIOUS
<1> HIDE DEF failed
<1>3. d = failed
  BY <1>1 DEF cancel_async, failed
<1>4. Steady(failed)
  BY <1>1, <1>2, Zenon DEF Steady
<1>5. OpenOK(failed)
  BY <1>1, <1>2 DEF OpenOK
<1>6. QED
  BY <1>3, <1>4, <1>5

\* UPDATE in place, or with a restart of the stream at another rate.
LEMMA UpdateSolo ==
  ASSUME Alone, SessInv, DevOK(FALSE, dev), SoloInv, NEW c, NEW g \in SingleConfigs,
         NEW fs \in BOOLEAN, UPDATE(c, g, fs)
  PROVE  SoloInv'
<1> DEFINE restart == dev.stream_thread_started /\ fs /\ g.rate # dev.config.rate
           Apply(s) == apply_update(s, g)
           launch == IF restart THEN "resume" ELSE "none"
           failed(s) == cancel_async([s EXCEPT !.config = g, !.stream_error = TRUE])
<1>1. PICK o \in IF restart THEN Then(stop_stream(dev), Apply) ELSE Apply(dev) :
             CASE o.status = "OK" -> Answer(c, o.dev, launch) /\ asked' = Asks(g.tuner, g.rf)
               [] o.status = "BAD_REQUEST" -> Answer(c, o.dev, "none") /\ UNCHANGED asked
               [] o.status = "IO_ERROR" -> /\ Answer(c, failed(o.dev), "none")
                                           /\ asked' = Asks(g.tuner, g.rf)
  BY Zenon DEF UPDATE
<1>2. /\ Serves(c, "UPDATE") /\ owner = c /\ duo' = duo /\ dev.radio # NoTuner
  BY DEF UPDATE, ownership
<1>3. Steady(dev) /\ OpenOK(dev) /\ FitsOK(dev) /\ ~duo.master_initialised
  BY <1>2, SoloServed
<1>4. dev.config \in SingleConfigs /\ dev.bootstrap_configured
  BY <1>2, <1>3, OpenHasConfig
<1>5. restart => ~OneRate
  BY <1>4 DEF OneRate
<1>6. CASE ~restart
  <2>1. /\ Steady(o.dev) /\ OpenOK(o.dev) /\ FitsOK(o.dev)
        /\ o.status \in {"OK", "BAD_REQUEST"}
    BY <1>1, <1>2, <1>3, <1>6, SoloUpdate
  <2>2. launch = "none"
    BY <1>6
  <2>3. Answer(c, o.dev, "none")
    BY <1>1, <2>1, <2>2, Zenon
  <2>4. QED
    BY <1>2, <1>3, <2>1, <2>3, PlainAnswer, SoloServes
<1>7. CASE restart
  <2>1. PICK r \in stop_stream(dev) : o \in IF r.status = "OK" THEN Apply(r.dev) ELSE {r}
    BY <1>1, <1>7 DEF Then
  <2>2. /\ Steady(r.dev) /\ OpenOK(r.dev) /\ SameTuning(dev, r.dev)
        /\ r.dev.thread.pc = "none" /\ ~r.dev.streaming
    BY <1>3, <1>7, SoloStop
  <2>3. r.dev.radio # NoTuner /\ r.dev.bootstrap_configured
    BY <1>2, <1>4, <2>2, Zenon DEF SameTuning, SameBook
  <2>4. \A s : FitsOK(s)
    BY <1>5, <1>7 DEF FitsOK
  <2>5. CASE r.status = "OK"
    <3>1. o \in apply_update(r.dev, g)
      BY <2>1, <2>5
    <3>2. /\ Steady(o.dev) /\ OpenOK(o.dev) /\ SameThreads(r.dev, o.dev)
          /\ o.dev.radio = r.dev.radio
          /\ o.dev.bootstrap_configured = r.dev.bootstrap_configured
          /\ o.status \in {"OK", "BAD_REQUEST"}
      BY <2>2, <2>3, <2>4, <3>1, SoloUpdate, Zenon
    <3>3. Answer(c, o.dev, "resume") \/ Answer(c, o.dev, "none")
      BY <1>1, <1>7, <3>2, Zenon
    <3>4. o.dev.thread.pc = "none" /\ o.dev.bootstrap_configured /\ o.dev.radio # NoTuner
      BY <2>2, <2>3, <3>2, Zenon DEF SameThreads
    <3>5. CASE Answer(c, o.dev, "none")
      BY <1>2, <1>3, <2>4, <3>2, <3>5, PlainAnswer, SoloServes
    <3>6. CASE Answer(c, o.dev, "resume")
      <4>1. Steady(dev') /\ OpenOK(dev') /\ FitsOK(dev')
        BY <1>5, <1>7, <2>4, <3>2, <3>4, <3>6, SoloAnswer
      <4>2. QED
        BY <1>2, <1>3, <3>6, <4>1, SoloServes
    <3>7. QED
      BY <3>3, <3>5, <3>6
  <2>6. CASE r.status # "OK"
    <3>1. o = r
      BY <2>1, <2>6
    <3>2. r.status = "IO_ERROR"
      BY <2>6, StopKeeps, Zenon
    <3>3. Answer(c, failed(o.dev), "none")
      BY <1>1, <3>1, <3>2
    <3>4. Steady(failed(o.dev)) /\ OpenOK(failed(o.dev))
      BY <2>2, <2>3, <3>1, FailedUpdate, Zenon
    <3> HIDE DEF failed
    <3>5. QED
      BY <1>2, <1>3, <2>4, <3>3, <3>4, PlainAnswer, SoloServes
  <2>7. QED
    BY <2>5, <2>6
<1>8. QED
  BY <1>6, <1>7
\* The configurations of the roles are no part of the running receiver.
LEMMA RoleConfigSolo ==
  ASSUME NEW s, NEW g
  PROVE  /\ SameTuning(s, duo_configured(s, g)) /\ SameThreads(s, duo_configured(s, g))
         /\ SameTuning(s, duo_forgotten(s)) /\ SameThreads(s, duo_forgotten(s))
<1>1. SameTuning(s, duo_configured(s, g)) /\ SameThreads(s, duo_configured(s, g))
  BY DEF SameTuning, SameBook, SameThreads, duo_configured
<1>2. SameTuning(s, duo_forgotten(s)) /\ SameThreads(s, duo_forgotten(s))
  BY DEF SameTuning, SameBook, SameThreads, duo_forgotten
<1>3. QED
  BY <1>1, <1>2

\* The end of a role: with the master's session the receiver is closed, a slave's leaves it.
LEMMA RoleEndSolo ==
  ASSUME SessInv, SoloInv, NEW c, NEW s, Steady(s), OpenOK(s),
         \/ duo' = disconnect(duo, c).session
         \/ duo' = release(duo, c).session /\ release(duo, c).result = "OK",
         NEW over,
         dev' \in IF over THEN {duo_forgotten(o.dev) : o \in duo_reset_hardware(s)} ELSE {s}
  PROVE  /\ Steady(dev') /\ OpenOK(dev') /\ ~duo'.master_initialised
         /\ dev' = s \/ FitsOK(dev')
<1>1. ~duo'.master_initialised
  <2>1. SessionOK(duo) /\ ~duo.master_initialised
    BY DEF SoloInv, SessInv
  <2>2. duo' \in {session_init, slave_cleared(duo), duo}
    BY DEF disconnect, release, Done, Refused
  <2>3. session_init.master_initialised = FALSE
    BY DEF session_init
  <2>4. slave_cleared(duo).master_initialised = duo.master_initialised
    BY <2>1 DEF slave_cleared, SessionOK, Sessions
  <2>5. QED
    BY <2>1, <2>2, <2>3, <2>4, Zenon
<1>2. CASE over
  <2>1. PICK o \in duo_reset_hardware(s) : dev' = duo_forgotten(o.dev)
    BY <1>2
  <2>2. Steady(o.dev) /\ OpenOK(o.dev) /\ FitsOK(o.dev)
    BY SoloReset
  <2>3. QED
    BY <1>1, <2>1, <2>2, RoleConfigSolo, AlikeSolo
<1>3. CASE ~over
  BY <1>1, <1>3
<1>4. QED
  BY <1>2, <1>3

\* The requests of a master or a slave, none of which can start.
LEMMA RoleSolo ==
  ASSUME Alone, SessInv, SoloInv, NEW c,
         \/ \E g : DUO_CONFIGURE(c, g)
         \/ \E role, t, rate : DUO_ACQUIRE(c, role, t, rate)
         \/ DUO_STOP(c) \/ DUO_RELEASE(c)
  PROVE  SoloInv'
<1>1. SessionOK(duo) /\ ~duo.master_initialised /\ (duo_active => owner = NoClient)
  BY DEF SoloInv, SessInv, SessionsExclusive
<1>2. ASSUME NEW g, DUO_CONFIGURE(c, g) PROVE SoloInv'
  <2>1. Serves(c, "DUO_CONFIGURE") /\ duo_active /\ duo' = duo
    BY <1>2 DEF DUO_CONFIGURE, HasRole, ownership
  <2>2. Steady(dev) /\ OpenOK(dev) /\ FitsOK(dev)
    BY <1>1, <2>1, SoloServed
  <2>3. PICK o \in duo_apply_running_config(dev, g) :
               Answer(c, IF o.status = "OK" THEN duo_configured(o.dev, g) ELSE o.dev, "none")
    BY <1>2 DEF DUO_CONFIGURE
  <2>4. o.dev = dev
    BY <2>2, OutFields DEF duo_apply_running_config, Steady
  <2>5. /\ Steady(duo_configured(dev, g)) /\ OpenOK(duo_configured(dev, g))
        /\ FitsOK(duo_configured(dev, g))
    BY <2>2, RoleConfigSolo, AlikeSolo
  <2>6. Steady(dev') /\ OpenOK(dev') /\ FitsOK(dev')
    BY <2>2, <2>3, <2>4, <2>5, PlainAnswer
  <2>7. QED
    BY <1>1, <2>1, <2>3, <2>6, SoloServes, SMTT(20)
<1>3. ASSUME NEW role, NEW t, NEW rate, DUO_ACQUIRE(c, role, t, rate) PROVE SoloInv'
  <2>1. /\ Serves(c, "DUO_ACQUIRE") /\ owner = NoClient /\ Answer(c, dev, "none")
        /\ duo' = acquire(duo, c, role, t, rate).session
    BY <1>3, SMTT(20) DEF DUO_ACQUIRE
  <2>2. ~duo'.master_initialised
    <3>1. SessionOK(duo) /\ (duo.master_initialised => duo.master_selected)
      BY <1>1
    <3>2. duo'.master_initialised = duo.master_initialised
      BY <2>1, <3>1, AcquireStarts, SMTT(20)
    <3>3. QED
      BY <1>1, <3>2
  <2>3. QED
    BY <2>1, <2>2, SoloServed, PlainAnswer, SoloServes
<1>4. ASSUME DUO_STOP(c) PROVE SoloInv'
  <2>1. /\ Serves(c, "DUO_STOP") /\ duo_active /\ uninitialise(duo, c).result = "OK"
        /\ duo' = uninitialise(duo, c).session
    BY <1>4 DEF DUO_STOP, HasRole
  <2>2. ~descriptor_is_master(duo, c)
    BY <1>1, <2>1 DEF uninitialise, Refused
  <2>3. Answer(c, dev, "none")
    BY <1>4, <2>2, OutFields, SMTT(20) DEF DUO_STOP
  <2>4. ~duo'.master_initialised
    BY <1>1, <2>1, <2>2, MasterStarts
  <2>5. QED
    BY <1>1, <2>1, <2>3, <2>4, SoloServed, PlainAnswer, SoloServes, SMTT(20)
<1>5. ASSUME DUO_RELEASE(c) PROVE SoloInv'
  <2> DEFINE over == ~release(duo, c).session.master_selected
  <2>1. /\ Serves(c, "DUO_RELEASE") /\ duo_active
        /\ release(duo, c).result = "OK" /\ duo' = release(duo, c).session
    BY <1>5 DEF DUO_RELEASE, HasRole
  <2>2. PICK s \in IF over THEN {duo_forgotten(o.dev) : o \in duo_reset_hardware(dev)}
                   ELSE {dev} : Answer(c, s, "none")
    BY <1>5, SMTT(20) DEF DUO_RELEASE
  <2>3. dev' = s
    BY <2>2, PlainAnswer
  <2>4. Steady(dev) /\ OpenOK(dev) /\ FitsOK(dev)
    BY <1>1, <2>1, SoloServed, SMTT(20)
  <2> HIDE DEF over
  <2>5. /\ Steady(dev') /\ OpenOK(dev') /\ ~duo'.master_initialised
        /\ dev' = dev \/ FitsOK(dev')
    BY <2>1, <2>2, <2>3, <2>4, RoleEndSolo, SMTT(20)
  <2>6. QED
    BY <2>1, <2>2, <2>4, <2>5, SoloServes, SMTT(20)
<1>6. QED
  BY <1>2, <1>3, <1>4, <1>5

\* Every request.
LEMMA RequestSolo ==
  ASSUME Alone, SessInv, DevOK(FALSE, dev), SoloInv, NEW c, Request(c)
  PROVE  SoloInv'
<1>1. \A g : ~SWAP_MODE_SINGLE(c, g) /\ ~SWAP_MODE_DUAL(c, g) /\ ~CONFIGURE_DUAL(c, g)
  BY Zenon DEF SWAP_MODE_SINGLE, SWAP_MODE_DUAL, SwapMode, CONFIGURE_DUAL, Serves, Alone
<1>2. ~DUO_START(c)
  BY DEF DUO_START, HasRole, Serves, Alone
<1>3. \A g, rate : ~DUO_UPDATE(c, g) /\ ~DUO_SWAP_RATE(c, rate)
  BY DEF DUO_UPDATE, DUO_SWAP_RATE, SoloInv
<1>4. CASE ACQUIRE(c) \/ START(c) \/ STOP(c) \/ RELEASE(c) \/ RESUME_MODE(c)
  BY <1>4, OwnerSolo
<1>5. CASE \E g \in SingleConfigs :
             \/ CONFIGURE(c, g) \/ SWAP_TUNER(c, g) \/ UPDATE_QUEUED(c, g)
             \/ \E fs \in BOOLEAN : UPDATE(c, g, fs)
  BY <1>5, ConfigureSolo, QueuedSolo, UpdateSolo
<1>6. CASE \/ \E g : DUO_CONFIGURE(c, g)
           \/ \E role, t, rate : DUO_ACQUIRE(c, role, t, rate)
           \/ DUO_STOP(c) \/ DUO_RELEASE(c)
  BY <1>6, RoleSolo
<1>7. QED
  BY <1>1, <1>2, <1>3, <1>4, <1>5, <1>6 DEF Request
\* A step that leaves the receiver alone, and gives the owner no new turn before the
\* recovery at the top of the loop.
LEMMA QuietSolo ==
  ASSUME SoloInv, SameTuning(dev, dev'), SameThreads(dev, dev'), owner' = owner,
         ~duo'.master_initialised, served' \subseteq Clients,
         loop' = "top" \/ (loop # "top" /\ served \subseteq served')
  PROVE  SoloInv'
<1>1. Steady(dev') /\ OpenOK(dev')
  BY AlikeSolo DEF SoloInv
<1>2. /\ Tuned(dev) => Tuned(dev')
      /\ Fits(dev) => Fits(dev')
  BY SameTuningFits
<1>3. dev'.stream_error = dev.stream_error
  BY DEF SameThreads
<1>4. dev.stream_error /\ (loop = "top" \/ owner \in served)
        => dev'.stream_error /\ (loop' = "top" \/ owner' \in served')
  BY <1>3, Zenon
<1>5. QED
  BY <1>1, <1>2, <1>4 DEF SoloInv

\* remove_client, on the receiver or on one with the write error taken: what its owner
\* leaves fits, whatever had waited for the recovery.
LEMMA RemoveSolo ==
  ASSUME SessInv, SoloInv, NEW c \in Clients, NEW s, SameTuning(dev, s), SameThreads(dev, s),
         RemoveClient(c, s), served' = served, loop = "top" <=> loop' = "top"
  PROVE  SoloInv'
<1> DEFINE over == ~disconnect(duo, c).session.master_selected
<1>1. Steady(s) /\ OpenOK(s)
  BY AlikeSolo DEF SoloInv
<1>2. served' \subseteq Clients /\ ~duo.master_initialised
  BY DEF SoloInv
<1>3. ASSUME dev' = s, owner' = owner, ~duo'.master_initialised
      PROVE  SoloInv'
  BY <1>2, <1>3, QuietSolo
<1>4. ASSUME Steady(dev'), OpenOK(dev'), FitsOK(dev'), ~duo'.master_initialised
      PROVE  SoloInv'
  BY <1>2, <1>4 DEF SoloInv, FitsOK
<1>5. CASE duo_active /\ role_for_descriptor(duo, c) # "none"
  <2>1. /\ duo' = disconnect(duo, c).session /\ owner' = owner
        /\ dev' \in IF over THEN {duo_forgotten(o.dev) : o \in duo_reset_hardware(s)} ELSE {s}
    BY <1>5, SMTT(20) DEF RemoveClient
  <2> HIDE DEF over
  <2>2. /\ Steady(dev') /\ OpenOK(dev') /\ ~duo'.master_initialised
        /\ dev' = s \/ FitsOK(dev')
    BY <1>1, <2>1, RoleEndSolo
  <2>3. QED
    BY <1>3, <1>4, <2>1, <2>2, SMTT(20)
<1>6. CASE ~(duo_active /\ role_for_descriptor(duo, c) # "none")
  <2>1. /\ duo' = duo
        /\ IF owner = c THEN owner' = NoClient /\ dev' \in release_owner(s)
           ELSE dev' = s /\ owner' = owner
    BY <1>6, SMTT(20) DEF RemoveClient
  <2>2. CASE owner = c
    <3>1. FitsOK(dev) \/ dev.stream_error
      BY DEF SoloInv, FitsOK
    <3>2. FitsOK(s) \/ s.stream_error
      BY <3>1, SameTuningFits DEF SameThreads
    <3>3. Steady(dev') /\ OpenOK(dev') /\ FitsOK(dev')
      BY <1>1, <2>1, <2>2, <3>2, SoloRelease
    <3>4. QED
      BY <1>2, <1>4, <2>1, <3>3
  <2>3. CASE owner # c
    BY <1>2, <1>3, <2>1, <2>3, SMTT(20)
  <2>4. QED
    BY <2>2, <2>3
<1>7. QED
  BY <1>5, <1>6

\* A step of the stream thread: it leaves the settings alone, and when nothing else
\* disturbs it, it ends with an error, which it records.
LEMMA ThreadSolo ==
  ASSUME SoloInv, StreamThread
  PROVE  SoloInv'
<1> DEFINE Rest == SameTuning(dev, dev') /\ dev'.stray = dev.stray
                   /\ dev'.stream_thread_started = dev.stream_thread_started
           Kept == dev'.streaming = dev.streaming /\ dev'.stream_error = dev.stream_error
           Good == /\ Rest /\ dev'.thread.pc # "none"
                   /\ dev'.stream_error => ~dev'.streaming /\ dev'.thread.pc = "done"
                   /\ dev'.thread.pc = "store" => ~dev'.streaming
                   /\ Undisturbed =>
                        /\ dev'.thread.pc \in {"run", "leave", "store", "done"}
                        /\ dev'.thread.pc \in {"leave", "store"} => dev'.thread.ret = 1
                        /\ dev'.thread.pc = "done" => dev'.stream_error
<1>1. owner' = owner /\ duo' = duo /\ served' = served /\ loop' = loop
  BY ZenonT(30) DEF StreamThread, EnterStream, FirstIQ, WriteFails, ReportWriter, StreamFails,
         StoreStreaming, StoreResult, ownership
<1>2. Steady(dev) /\ OpenOK(dev)
  BY DEF SoloInv
<1>3. \/ EnterStream("thread") \/ FirstIQ("thread") \/ WriteFails("thread")
      \/ ReportWriter("thread") \/ StreamFails("thread") \/ StoreStreaming("thread")
      \/ StoreResult("thread")
  <2>1. dev.stray.pc = "none"
    BY <1>2 DEF Steady
  <2>2. /\ ~EnterStream("stray") /\ ~FirstIQ("stray") /\ ~WriteFails("stray")
        /\ ~ReportWriter("stray") /\ ~StreamFails("stray") /\ ~StoreStreaming("stray")
        /\ ~StoreResult("stray")
    BY <2>1, Zenon DEF EnterStream, FirstIQ, WriteFails, ReportWriter, StreamFails, StoreStreaming,
       StoreResult, Reporting
  <2>3. QED
    BY <2>2 DEF StreamThread, Slots
<1>4. dev.thread.pc \notin {"none", "done"}
  BY <1>3, Zenon DEF EnterStream, FirstIQ, WriteFails, ReportWriter, StreamFails, StoreStreaming,
     StoreResult, Reporting
<1>5. ~dev.stream_error /\ dev.stream_thread_started /\ dev.bootstrap_configured
  BY <1>2, <1>4 DEF Steady
<1>6. Undisturbed => /\ dev.thread.pc \in {"enter", "run", "leave", "store"}
                     /\ dev.thread.pc \in {"leave", "store"} => dev.thread.ret = 1
  BY <1>2, <1>4 DEF Steady
<1>7. ASSUME Good PROVE SoloInv'
  <2>1. Steady(dev')
    BY <1>2, <1>5, <1>7, Zenon DEF Steady, SameTuning, SameBook
  <2>2. OpenOK(dev')
    BY <1>2, <1>4, <1>7 DEF OpenOK, SameTuning, SameBook
  <2>3. FitsOK(dev)
    BY <1>5 DEF SoloInv, FitsOK
  <2>4. FitsOK(dev')
    BY <1>7, <2>3, SameTuningFits
  <2>5. QED
    BY <1>1, <2>1, <2>2, <2>4 DEF SoloInv, FitsOK
<1> SUFFICES Good
  BY <1>7
<1>8. CASE EnterStream("thread")
  <2> DEFINE runs == [dev.thread EXCEPT !.pc = "run"]
  <2>1. CASE dev' = [dev EXCEPT !.thread = runs]
    <3>1. Rest /\ Kept
      BY <2>1 DEF SameTuning, SameBook
    <3>2. dev'.thread.pc = "run"
      <4>1. runs.pc = "run"
        OBVIOUS
      <4>2. dev'.thread = runs
        BY <2>1
      <4>3. QED
        BY <4>1, <4>2, Zenon
    <3>3. QED
      BY <1>5, <3>1, <3>2
  <2>2. CASE dev' = [dev EXCEPT !.thread = At("leave", 1)]
    <3>1. Rest /\ Kept
      BY <2>2 DEF SameTuning, SameBook
    <3>2. dev'.thread.pc = "leave" /\ dev'.thread.ret = 1
      BY <2>2 DEF At
    <3>3. QED
      BY <1>5, <3>1, <3>2
  <2>3. QED
    BY <1>8, <2>1, <2>2 DEF EnterStream
<1>9. CASE FirstIQ("thread")
  <2>1. dev' = [dev EXCEPT !.first_iq_seen = TRUE] /\ dev.thread.pc = "run"
    BY <1>9 DEF FirstIQ
  <2>2. Rest /\ Kept /\ dev'.thread = dev.thread
    BY <2>1 DEF SameTuning, SameBook
  <2>3. QED
    BY <1>5, <2>1, <2>2, ZenonT(30)
<1>10. CASE WriteFails("thread") \/ ReportWriter("thread")
  <2>1. ~Undisturbed
    BY <1>6, <1>10, ZenonT(30) DEF WriteFails, ReportWriter, Reporting, Undisturbed
  <2>2. \/ \E x : dev' = [dev EXCEPT !.client_write_error = TRUE, !.thread = x]
                  /\ x.pc = "report"
        \/ dev' = [dev EXCEPT !.thread = At("leave", 0)]
        \/ \E f : dev' = [dev EXCEPT !.client_write_error_fd = f, !.thread = At("leave", 0)]
        \/ \E f : dev' = [dev EXCEPT !.client_write_error_fd = f, !.thread = At("run", 0)]
    <3>1. CASE WriteFails("thread")
      <4>1. PICK target : \/ dev' = [dev EXCEPT !.client_write_error = TRUE,
                               !.thread = [pc |-> "report", ret |-> 0, to |-> target]]
                          \/ dev' = [dev EXCEPT !.thread = At("leave", 0)]
        BY <3>1, Zenon DEF WriteFails
      <4>2. [pc |-> "report", ret |-> 0, to |-> target].pc = "report"
        BY SMTT(20)
      <4>3. QED
        BY <4>1, <4>2, Zenon
    <3>2. CASE ReportWriter("thread")
      BY <3>2, Zenon DEF ReportWriter
    <3>3. QED
      BY <1>10, <3>1, <3>2, Zenon
  <2>3. Rest /\ Kept /\ dev'.thread.pc \in {"report", "leave", "run"}
    <3>1. CASE \E x : dev' = [dev EXCEPT !.client_write_error = TRUE, !.thread = x]
                      /\ x.pc = "report"
      BY <3>1 DEF SameTuning, SameBook
    <3>2. CASE dev' = [dev EXCEPT !.thread = At("leave", 0)]
      BY <3>2 DEF SameTuning, SameBook, At
    <3>3. CASE \E f : dev' = [dev EXCEPT !.client_write_error_fd = f, !.thread = At("leave", 0)]
      BY <3>3 DEF SameTuning, SameBook, At
    <3>4. CASE \E f : dev' = [dev EXCEPT !.client_write_error_fd = f, !.thread = At("run", 0)]
      BY <3>4 DEF SameTuning, SameBook, At
    <3>5. QED
      BY <2>2, <3>1, <3>2, <3>3, <3>4, Zenon
  <2>4. QED
    BY <1>5, <2>1, <2>3
<1>11. CASE StreamFails("thread")
  <2>1. \/ dev' = [dev EXCEPT !.thread = At("leave", 1)]
        \/ dev' = [dev EXCEPT !.thread = At("leave", 1), !.stuck = TRUE]
    BY <1>11, Zenon DEF StreamFails
  <2>2. Rest /\ Kept /\ dev'.thread = At("leave", 1)
    <3>1. CASE dev' = [dev EXCEPT !.thread = At("leave", 1)]
      BY <3>1 DEF SameTuning, SameBook
    <3>2. CASE dev' = [dev EXCEPT !.thread = At("leave", 1), !.stuck = TRUE]
      BY <3>2 DEF SameTuning, SameBook
    <3>3. QED
      BY <2>1, <3>1, <3>2, Zenon
  <2>3. dev'.thread.pc = "leave" /\ dev'.thread.ret = 1
    BY <2>2 DEF At
  <2>4. QED
    BY <1>5, <2>2, <2>3
<1>12. CASE StoreStreaming("thread")
  <2> DEFINE stores == [dev.thread EXCEPT !.pc = "store"]
  <2>1. dev' = [dev EXCEPT !.thread = stores, !.streaming = FALSE]
    BY <1>12, Zenon DEF StoreStreaming
  <2>2. Rest /\ dev'.streaming = FALSE /\ dev'.stream_error = dev.stream_error
        /\ dev'.thread = stores
    BY <2>1 DEF SameTuning, SameBook
  <2>3. stores.pc = "store" /\ stores.ret = dev.thread.ret
    OBVIOUS
  <2>4. Undisturbed => dev.thread.ret = 1
    BY <1>6, <1>12, Zenon DEF StoreStreaming
  <2>5. QED
    BY <1>5, <2>2, <2>3, <2>4
<1>13. CASE StoreResult("thread")
  <2> DEFINE failed == (dev.thread.ret = 1)
  <2>1. dev' = [dev EXCEPT !.stream_result = dev.thread.ret, !.stream_error = failed,
                           !.thread = At("done", 0)]
    BY <1>13, Zenon DEF StoreResult
  <2>2. dev.thread.pc = "store"
    BY <1>13 DEF StoreResult
  <2> HIDE DEF failed
  <2>3. Rest /\ dev'.streaming = dev.streaming /\ dev'.stream_error = failed
        /\ dev'.thread = At("done", 0)
    BY <2>1 DEF SameTuning, SameBook
  <2>4. dev'.thread.pc = "done"
    BY <2>3 DEF At
  <2>5. ~dev.streaming /\ (Undisturbed => failed)
    BY <1>2, <1>6, <2>2 DEF Steady, failed
  <2>6. QED
    BY <2>3, <2>4, <2>5
<1>14. QED
  BY <1>3, <1>8, <1>9, <1>10, <1>11, <1>12, <1>13
\* What shutdown_radio leaves: the handle is closed and no failure is recorded.
LEMMA ShutdownFields ==
  ASSUME NEW d, NEW r, r = [d EXCEPT !.stream_error = FALSE, !.stream_result = 0]
  PROVE  /\ SameTuning(d, r) /\ r.stream_error = FALSE
         /\ r.thread = d.thread /\ r.stray = d.stray /\ r.streaming = d.streaming
         /\ r.stream_thread_started = d.stream_thread_started
  BY DEF SameTuning, SameBook

\* Every step of the main loop of such a daemon.
LEMMA MainSolo ==
  ASSUME Alone, SessInv, LoopInv, DevOK(FALSE, dev), SoloInv, Main
  PROVE  SoloInv'
<1> /\ SameTuning(dev, dev) /\ SameThreads(dev, dev)
    /\ Steady(dev) /\ OpenOK(dev) /\ ~duo.master_initialised /\ served \subseteq Clients
  BY DEF SoloInv, SameTuning, SameBook, SameThreads
<1>1. ASSUME NEW c \in Clients, Request(c) PROVE SoloInv'
  BY <1>1, RequestSolo
<1>2. ASSUME NEW c \in Clients, Accept(c) PROVE SoloInv'
  <2>1. /\ dev' = dev /\ owner' = owner /\ duo' = duo /\ loop = "accept" /\ loop' = loop
        /\ served' = served \union {c}
    BY <1>2 DEF Accept
  <2>2. QED
    BY <1>2, <2>1, QuietSolo
<1>3. ASSUME NEW c \in Clients, Hangup(c) \/ CloseClient(c) PROVE SoloInv'
  <2>1. RemoveClient(c, dev) /\ served' = served /\ (loop = "top" <=> loop' = "top")
    BY <1>3 DEF Hangup, CloseClient
  <2>2. QED
    BY <2>1, RemoveSolo
<1>4. ASSUME RemoveFailed PROVE SoloInv'
  <2>1. evict \in Clients /\ RemoveClient(evict, dev) /\ served' = served /\ loop' = loop
    BY <1>4 DEF RemoveFailed, LoopInv
  <2>2. QED
    BY <2>1, RemoveSolo
<1>5. ASSUME EvictWriter PROVE SoloInv'
  <2> DEFINE cleared == [dev EXCEPT !.client_write_error = FALSE,
                                    !.client_write_error_fd = NoClient]
  <2>1. /\ \/ \E c \in Connected : RemoveClient(c, cleared)
           \/ dev' = cleared /\ UNCHANGED ownership
        /\ served' = served /\ loop' = loop /\ loop = "top"
    BY <1>5 DEF EvictWriter, Connected
  <2>2. SameTuning(dev, cleared) /\ SameThreads(dev, cleared)
    BY DEF SameTuning, SameBook, SameThreads
  <2> HIDE DEF cleared
  <2>3. CASE \E c \in Connected : RemoveClient(c, cleared)
    BY <2>1, <2>2, <2>3, ConnectedAreClients, RemoveSolo, SMTT(20)
  <2>4. CASE dev' = cleared /\ UNCHANGED ownership
    <3>1. owner' = owner /\ duo' = duo
      BY <2>4 DEF ownership
    <3>2. QED
      BY <2>1, <2>2, <2>4, <3>1, QuietSolo, SMTT(20)
  <2>5. QED
    BY <2>1, <2>3, <2>4
<1>6. ASSUME Recover PROVE SoloInv'
  <2> DEFINE active == owner # NoClient \/ (duo_active /\ duo.master_selected)
  <2>1. PICK s \in recover_failed_stream(dev, active) : dev' \in finish_recovery_config(s)
    BY <1>6 DEF Recover
  <2>2. duo' = duo /\ served' = {}
    BY <1>6 DEF Recover, ownership
  <2> HIDE DEF active
  <2>3. FitsOK(dev) \/ dev.stream_error
    BY SMTT(20) DEF SoloInv, FitsOK
  <2>4. dev.stream_error => ~dev.mode_swap_paused
    BY DEF DevOK, StreamOK, Orderly, Alone
  <2>5. Steady(s) /\ OpenOK(s) /\ FitsOK(s)
    BY <2>1, <2>3, <2>4, SoloRecover
  <2>6. Steady(dev') /\ OpenOK(dev') /\ FitsOK(dev')
    BY <2>1, <2>5, SoloFinish
  <2>7. QED
    BY <2>2, <2>6 DEF SoloInv, FitsOK
<1>7. ASSUME NextRound PROVE SoloInv'
  <2>1. dev' = dev /\ owner' = owner /\ duo' = duo /\ loop' = "top" /\ served' = {}
    BY <1>7 DEF NextRound, ownership
  <2>2. QED
    BY <2>1, QuietSolo
<1>8. ASSUME Shutdown PROVE SoloInv'
  <2>1. duo' = duo /\ served' = served
    BY <1>8, Zenon DEF Shutdown
  <2>2. Steady(dev') /\ OpenOK(dev') /\ dev'.radio = NoTuner
    <3>1. CASE dev.radio = NoTuner
      BY <1>8, <3>1 DEF Shutdown
    <3>2. CASE dev.radio # NoTuner
      <4>1. PICK t \in Stopped(dev) :
              \E d \in Closed(t) :
                dev' = [d EXCEPT !.stream_error = FALSE, !.stream_result = 0]
        BY <1>8, <3>2, Zenon DEF Shutdown
      <4>2. PICK d \in Closed(t) :
              dev' = [d EXCEPT !.stream_error = FALSE, !.stream_result = 0]
        BY <4>1
      <4>3. PICK o \in stop_stream(dev) : t = o.dev
        BY <3>2, <4>1 DEF Stopped
      <4>4. Steady(t) /\ t.thread.pc = "none"
        BY <4>3, SoloStop
      <4>5. Steady(d) /\ d.radio = NoTuner /\ d.thread.pc = "none"
        BY <4>2, <4>4, SoloClosed, SMTT(20)
      <4>6. /\ SameTuning(d, dev') /\ dev'.stream_error = FALSE
            /\ dev'.thread = d.thread /\ dev'.stray = d.stray /\ dev'.streaming = d.streaming
            /\ dev'.stream_thread_started = d.stream_thread_started
        BY <4>2, ShutdownFields, Zenon
      <4>7. dev'.radio = NoTuner /\ dev'.thread.pc = "none"
        BY <4>5, <4>6 DEF SameTuning
      <4>8. Steady(dev')
        BY <4>5, <4>6, <4>7, Zenon DEF Steady, SameTuning, SameBook
      <4>9. QED
        BY <4>7, <4>8, SMTT(20) DEF OpenOK
    <3>3. QED
      BY <3>1, <3>2
  <2>3. FitsOK(dev')
    BY <2>2, ClosedFits
  <2>4. QED
    BY <2>1, <2>2, <2>3, SMTT(20) DEF SoloInv, FitsOK
<1>9. QED
  BY <1>1, <1>2, <1>3, <1>4, <1>5, <1>6, <1>7, <1>8, SMTT(20) DEF Main
\* Every step of such a daemon keeps the invariant of its receiver.
LEMMA StepSolo ==
  ASSUME Alone
  PROVE  IInv /\ SoloInv /\ [Next]_vars => SoloInv'
<1> SUFFICES ASSUME IInv, SoloInv, [Next]_vars PROVE SoloInv'
  OBVIOUS
<1>1. CASE Main
  BY <1>1, MainSolo DEF IInv
<1>2. CASE StreamThread
  BY <1>2, ThreadSolo
<1>3. CASE StopSignal
  <2>1. /\ owner' = owner /\ duo' = duo /\ served' = served /\ loop' = loop
        /\ dev' = [dev EXCEPT !.running = FALSE]
    BY <1>3 DEF StopSignal, ownership
  <2>2. SameTuning(dev, dev') /\ SameThreads(dev, dev')
    BY <2>1 DEF SameTuning, SameBook, SameThreads
  <2>3. QED
    BY <2>1, <2>2, QuietSolo DEF SoloInv
<1>4. CASE UNCHANGED vars
  BY <1>4 DEF vars, ownership, SoloInv
<1>5. QED
  BY <1>1, <1>2, <1>3, <1>4 DEF Next

\* The daemon starts without a handle, a configuration or a stream.
LEMMA InitSolo == Init => SoloInv
<1> SUFFICES ASSUME Init PROVE SoloInv
  OBVIOUS
<1>1. dev = NewDevice /\ duo = session_init /\ served = {}
  BY DEF Init
<1>2. /\ NewDevice.radio = NoTuner /\ NewDevice.thread = NoThread
      /\ NewDevice.stray = NoThread /\ NewDevice.stream_thread_started = FALSE
      /\ NewDevice.mode_swap_paused = FALSE /\ NewDevice.configured = FALSE
      /\ NewDevice.bootstrap_configured = FALSE /\ NewDevice.stream_error = FALSE
      /\ NewDevice.dual_mode = FALSE
  BY DEF NewDevice
<1>3. NoThread.pc = "none" /\ session_init.master_initialised = FALSE
  BY DEF NoThread, At, session_init
<1>4. Steady(dev) /\ OpenOK(dev)
  BY <1>1, <1>2, <1>3, ZenonT(30) DEF Steady, OpenOK
<1>5. FitsOK(dev)
  BY <1>1, <1>2, ClosedFits
<1>6. QED
  BY <1>1, <1>3, <1>4, <1>5 DEF SoloInv, FitsOK

\* After the recovery and the restoration that follows it, the frontend has the settings
\* the owner sent last: no failed stream, swap or restart lets go of an accepted setting.
THEOREM SettingsRestored == ASSUME Alone, OneRate PROVE Spec => []SingleRestored
<1>1. NoTuner \notin Tuners
  BY DEF NoTuner, Tuners, TunerA, TunerB
<1>2. SoloInv => SingleRestored
  BY <1>1, SMTT(20) DEF SoloInv, Tuned, Fits, SingleRestored, Settled
<1>3. QED
  BY <1>2, Inductive, InitSolo, StepSolo, PTL DEF Spec

\* A stream of a session that ended by itself is recorded as failed, so that the main loop
\* recovers it.
THEOREM EndsAreNoticed == ASSUME Alone, Undisturbed PROVE Spec => []EndIsNoticed
<1>1. SoloInv => EndIsNoticed
  BY DEF SoloInv, Steady, EndIsNoticed
<1>2. QED
  BY <1>1, Inductive, InitSolo, StepSolo, PTL DEF Spec
=============================================================================
