---------------------------- MODULE DaemonProofs ----------------------------
(***************************************************************************)
(* Proofs about the daemon (Daemon), for every set of clients, settings,   *)
(* requests and faults.                                                    *)
(*                                                                         *)
(* The state of the receiver is changed by functions that main calls from  *)
(* many handlers, so the argument has two layers.  First each function of  *)
(* RadioControl is shown to keep the invariant DevOK of a device record,   *)
(* and what it leaves of the stream.  Then each action is shown to keep    *)
(* DevOK, the sessions and the phase of the main loop.                     *)
(*                                                                         *)
(* The theorems about the stream thread assume Orderly.  Without it they   *)
(* are false: a release finds a closed handle and does not join the        *)
(* thread, and DUO_START does not look at stream_thread_started, so that   *)
(* the thread of one session can be overwritten by the next.               *)
(*                                                                         *)
(* A running master keeps its receiver (MasterKeepsReceiver) under another *)
(* hypothesis, Sharing, by the invariant ShareInv on top of IInv.  Without *)
(* it a single-tuner configuration that an earlier owner left lets a       *)
(* recovery start a stream of one tuner for a master that has stopped.     *)
(***************************************************************************)
EXTENDS Daemon, TLAPS

\* The hypothesis of the theorems about the stream: clients use no master/slave
\* stream, and a change in place does not fail.
Orderly == "DUO_START" \notin Commands /\ "update" \notin Faults

\* The stream thread: a closed handle has no reader.  When b says that the thread is
\* not in its callback loop, it stays out of it.
StreamOK(b, s) ==
  /\ s.radio = NoTuner => /\ s.thread.pc \notin {"run", "report"}
                          /\ s.stray.pc \notin {"run", "report"}
  /\ b => s.thread.pc \notin {"run", "leave"}
  /\ Orderly => /\ s.stray.pc = "none"
                /\ s.stream_thread_started <=> s.thread.pc # "none"
                /\ s.stream_thread_started /\ s.stream_error => s.stream_result = 1
                /\ s.mode_swap_paused => ~s.stream_thread_started /\ ~s.stream_error

\* What every function of the main thread keeps of the receiver: an open handle fits
\* dual_mode, and configurations name one tuner.
DevOK(b, s) ==
  /\ StreamOK(b, s)
  /\ s.radio # NoTuner => (s.dual_mode <=> s.radio = BothTuners)
  /\ s.config.tuner # BothTuners /\ s.bootstrap_config.tuner # BothTuners

\* s and r are in the same state of the stream.
SameStream(s, r) ==
  /\ r.thread.pc = "none" <=> s.thread.pc = "none"
  /\ r.stream_thread_started = s.stream_thread_started
  /\ r.stream_error = s.stream_error /\ r.mode_swap_paused = s.mode_swap_paused

SessionOK(s) ==
  /\ s \in Sessions
  /\ s.master_selected <=> s.master_fd # NoClient
  /\ s.slave_selected <=> s.slave_fd # NoClient
  /\ s.slave_selected => s.master_selected /\ s.slave_fd # s.master_fd

SessInv ==
  /\ clients \in [1..MaxClients -> Clients \union {NoClient}]
  /\ owner \in Clients \union {NoClient} /\ duo_active \in BOOLEAN
  /\ SessionOK(duo) /\ SessionsExclusive

LoopInv ==
  /\ evict \in Clients \union {NoClient}
  /\ evict # NoClient => loop = "serve"
  /\ loop = "ended" => dev.radio = NoTuner /\ ~Active

IdleInv == Orderly /\ ~Active => dev.radio = NoTuner \/ dev.thread.pc = "none"

IInv == SessInv /\ DevOK(FALSE, dev) /\ LoopInv /\ IdleInv

\* s and r agree on every field these predicates are about.
Alike(s, r) ==
  /\ r.thread = s.thread /\ r.stray = s.stray /\ r.radio = s.radio
  /\ r.dual_mode = s.dual_mode /\ r.config = s.config
  /\ r.bootstrap_config = s.bootstrap_config
  /\ r.stream_thread_started = s.stream_thread_started
  /\ r.mode_swap_paused = s.mode_swap_paused
  /\ r.stream_error = s.stream_error /\ r.stream_result = s.stream_result

\* What an answered request leaves, besides the removal that may be due.
Answered(b) ==
  /\ DevOK(b, dev') /\ SessInv'
  /\ evict' \in Clients \union {NoClient} /\ loop' = "serve"
  /\ Orderly /\ ~Active' => dev'.radio = NoTuner \/ dev'.thread.pc = "none"

\* How a mode swap ends whose steps gave o: with the new configuration, recorded in a,
\* or, for a session that was streaming, with a return to the old one.
SwapAnswer(c, o, a) ==
  IF o.status = "OK"
  THEN Answer(c, [a EXCEPT !.configured = TRUE, !.recovery_config_pending = FALSE,
                           !.mode_swap_paused = dev.stream_thread_started], "none")
  ELSE IF ~dev.stream_thread_started THEN Answer(c, o.dev, "none")
  ELSE \E r \in IF dev.dual_mode THEN configure_dual_radio(o.dev, dev.dual_config)
                ELSE configure_radio(o.dev, dev.config) :
         IF r.status # "OK" THEN Answer(c, r.dev, "none")
         ELSE Answer(c, [r.dev EXCEPT !.configured = TRUE, !.mode_swap_paused = FALSE],
                     "resume")

\* What the stream of the master keeps when the slave is lost.
StreamKept ==
  duo.slave_selected /\ clients' = Without(duo.slave_fd)
    => dev'.thread = dev.thread /\ dev'.hw = dev.hw

\* The receiver after a step of a stream thread: another thread and the handle are left
\* alone, a thread enters its loop only with a handle, and only the end of a thread
\* stores a result.
Moved(t, p, slot) ==
  /\ t.pc # "none"
  /\ p.pc = "none" => slot = "stray"
  /\ p.pc \in {"run", "report"} => t.pc \in {"run", "report"} \/ dev.radio # NoTuner
  /\ dev'.radio = dev.radio /\ dev'.dual_mode = dev.dual_mode /\ dev'.config = dev.config
  /\ dev'.bootstrap_config = dev.bootstrap_config
  /\ dev'.stream_thread_started = dev.stream_thread_started
  /\ dev'.mode_swap_paused = dev.mode_swap_paused
  /\ \/ dev'.stream_error = dev.stream_error /\ dev'.stream_result = dev.stream_result
     \/ dev'.stream_error = (dev'.stream_result = 1)
-----------------------------------------------------------------------------
(* What the functions on the receiver keep. *)

\* The outcome of a function and its status.
LEMMA OutFields ==
  ASSUME NEW s, NEW status
  PROVE  Out(s, status).dev = s /\ Out(s, status).status = status
  BY DEF Out

\* A thread whose handle is closed leaves the callback loop, and none enters it.
LEMMA CutQuiet ==
  ASSUME NEW t
  PROVE  /\ Cut(t).pc \notin {"run", "report"}
         /\ t.pc \notin {"run", "leave"} => Cut(t).pc \notin {"run", "leave"}
         /\ Cut(t).pc = "none" <=> t.pc = "none"
<1>1. CASE t.pc \in InReadAsync
  BY <1>1 DEF Cut, InReadAsync
<1>2. CASE t.pc \notin InReadAsync /\ t.pc \in Reporting
  <2>1. Cut(t) = [t EXCEPT !.pc = "report_end"]
    BY <1>2 DEF Cut
  <2>2. QED
    BY <1>2, <2>1 DEF InReadAsync, Reporting
<1>3. CASE t.pc \notin InReadAsync /\ t.pc \notin Reporting
  BY <1>3 DEF Cut, InReadAsync, Reporting
<1>4. QED
  BY <1>1, <1>2, <1>3

\* close_radio leaves no handle and no thread that reads from it.
LEMMA CloseKeeps ==
  ASSUME NEW b, NEW s, StreamOK(b, s), NEW q \in close_radio(s),
         s.config.tuner # BothTuners, s.bootstrap_config.tuner # BothTuners
  PROVE  DevOK(b, q.dev) /\ SameStream(s, q.dev) /\ q.dev.radio = NoTuner
<1> DEFINE closed == [s EXCEPT !.radio = NoTuner, !.hw = NoDual, !.stuck = FALSE,
                               !.thread = Cut(s.thread), !.stray = Cut(s.stray)]
           quit == [closed EXCEPT !.running = FALSE]
           Fits(p) == DevOK(b, p) /\ SameStream(s, p) /\ p.radio = NoTuner
<1>1. \/ q = Out(s, "OK") /\ s.radio = NoTuner
      \/ \E status : q = Out(closed, status)
      \/ q = Out(quit, "EBUSY")
  BY DEF close_radio, MayFail
<1>2. Fits(closed)
  BY CutQuiet DEF DevOK, StreamOK, SameStream
<1>3. Fits(quit)
  BY CutQuiet DEF DevOK, StreamOK, SameStream
<1>4. s.radio = NoTuner => Fits(s)
  BY DEF DevOK, SameStream
<1> HIDE DEF closed, quit, Fits
<1>5. Fits(q.dev)
  BY <1>1, <1>2, <1>3, <1>4, OutFields
<1>6. QED
  BY <1>5 DEF Fits

\* configure_radio fits the handle to one tuner, whatever it finds open, and leaves
\* the stream alone.
LEMMA ConfigureKeeps ==
  ASSUME NEW b, NEW s, NEW c, c.tuner # BothTuners, DevOK(b, s), NEW r \in configure_radio(s, c)
  PROVE  DevOK(b, r.dev) /\ SameStream(s, r.dev)
<1> DEFINE Kept(p) == DevOK(b, p) /\ SameStream(s, p)
           used(p, t) == [p EXCEPT !.radio = t, !.hw = SingleHw(t, c), !.dual_mode = FALSE]
           Applied(p, t) == Out(used(p, t), "OK")
           Opened(p) == {Applied(p, c.tuner)}
                          \union MayFail({"open", "configure"}, {Out(p, "IO_ERROR")})
                          \union MayFail({"absent"}, {Out(p, "BAD_REQUEST")})
           Attempts(p) == IF p.radio = NoTuner THEN Opened(p)
                          ELSE {Applied(p, p.radio)}
                                 \union MayFail({"configure"}, Reopening(p, Opened))
           Single(p) == Attempts([p EXCEPT !.configured = FALSE])
<1> SUFFICES Kept(r.dev)
  OBVIOUS
<1>1. r \in IF s.dual_mode /\ s.radio # NoTuner THEN Reopening(s, Single) ELSE Attempts(s)
  BY Zenon DEF configure_radio
<1>2. Kept(s)
  BY DEF SameStream
<1>3. ASSUME NEW p, Kept(p), NEW q \in close_radio(p)
      PROVE  Kept(q.dev) /\ q.dev.radio = NoTuner
  BY <1>3, CloseKeeps DEF DevOK, SameStream
<1>4. ASSUME NEW p, Kept(p), NEW t, t # BothTuners, p.radio = NoTuner \/ p.radio = t
      PROVE  Kept(used(p, t))
  BY <1>4 DEF DevOK, StreamOK, SameStream
<1> HIDE DEF Kept, used
<1>5. ASSUME NEW p, Kept(p), p.radio = NoTuner, NEW x \in Opened(p)
      PROVE  Kept(x.dev)
  <2>1. x = Applied(p, c.tuner) \/ \E status : x = Out(p, status)
    BY <1>5 DEF MayFail
  <2>2. QED
    BY <1>4, <1>5, <2>1, OutFields
<1> HIDE DEF Opened
<1>6. ASSUME NEW p, Kept(p), p.radio = NoTuner \/ ~p.dual_mode, NEW x \in Attempts(p)
      PROVE  Kept(x.dev)
  <2>1. \/ p.radio = NoTuner /\ x \in Opened(p)
        \/ p.radio # NoTuner /\ x = Applied(p, p.radio)
        \/ x \in Reopening(p, Opened)
    BY <1>6, Zenon DEF MayFail
  <2>2. CASE p.radio # NoTuner /\ x = Applied(p, p.radio)
    <3>1. p.radio # BothTuners
      BY <1>6, <2>2 DEF Kept, DevOK
    <3>2. QED
      BY <1>4, <1>6, <2>2, <3>1, OutFields
  <2>3. CASE x \in Reopening(p, Opened)
    <3>1. PICK q \in close_radio(p) : x = Out(q.dev, "IO_ERROR") \/ x \in Opened(q.dev)
      BY <2>3 DEF Reopening
    <3>2. QED
      BY <1>3, <1>5, <1>6, <3>1, OutFields
  <2>4. QED
    BY <1>5, <1>6, <2>1, <2>2, <2>3, Zenon
<1>7. ASSUME NEW p, Kept(p), p.radio = NoTuner, NEW x \in Single(p)
      PROVE  Kept(x.dev)
  <2> DEFINE forgotten == [p EXCEPT !.configured = FALSE]
  <2>1. Kept(forgotten) /\ forgotten.radio = NoTuner
    BY <1>7 DEF Kept, DevOK, StreamOK, SameStream
  <2> HIDE DEF Attempts
  <2>2. QED
    BY <1>6, <1>7, <2>1, Zenon
<1> HIDE DEF Attempts, Single
<1>8. CASE r \in Reopening(s, Single)
  <2>1. PICK q \in close_radio(s) : r = Out(q.dev, "IO_ERROR") \/ r \in Single(q.dev)
    BY <1>8 DEF Reopening
  <2>2. QED
    BY <1>2, <1>3, <1>7, <2>1, OutFields
<1>9. CASE r \in Attempts(s) /\ (s.radio = NoTuner \/ ~s.dual_mode)
  BY <1>2, <1>6, <1>9
<1>10. QED
  BY <1>1, <1>8, <1>9

\* configure_dual_radio opens the handle for both tuners, and when it cannot, closes
\* it; the stream is left alone.
LEMMA ConfigureDualKeeps ==
  ASSUME NEW b, NEW s, NEW c, DevOK(b, s), NEW r \in configure_dual_radio(s, c)
  PROVE  DevOK(b, r.dev) /\ SameStream(s, r.dev)
<1> DEFINE Kept(p) == DevOK(b, p) /\ SameStream(s, p)
           open(p) == [p EXCEPT !.radio = BothTuners]
           used(p) == [open(p) EXCEPT !.hw = c, !.dual_mode = TRUE, !.dual_config = c,
                                      !.configured = TRUE]
           Attempt(p) ==
             {Out(used(p), "OK")}
               \union MayFail({"configure"}, {Out(q.dev, "IO_ERROR") : q \in close_radio(open(p))})
               \union (IF p.radio = NoTuner
                       THEN MayFail({"open", "absent"}, {Out(p, "IO_ERROR")}) ELSE {})
           Dual(p) == Attempt([p EXCEPT !.configured = FALSE])
<1> SUFFICES Kept(r.dev)
  OBVIOUS
<1>1. r \in IF ~s.dual_mode /\ s.radio # NoTuner THEN Reopening(s, Dual) ELSE Attempt(s)
  BY Zenon DEF configure_dual_radio
<1>2. Kept(s)
  BY DEF SameStream
<1>3. ASSUME NEW p, Kept(p), NEW q \in close_radio(p)
      PROVE  Kept(q.dev) /\ q.dev.radio = NoTuner
  BY <1>3, CloseKeeps DEF DevOK, SameStream
<1>4. ASSUME NEW p, Kept(p), NEW x \in Attempt(p)
      PROVE  Kept(x.dev)
  <2>1. \/ x = Out(used(p), "OK")
        \/ \E q \in close_radio(open(p)) : x = Out(q.dev, "IO_ERROR")
        \/ x = Out(p, "IO_ERROR")
    BY <1>4 DEF MayFail
  <2>2. Kept(used(p))
    BY <1>4 DEF DevOK, StreamOK, SameStream, NoTuner, BothTuners
  <2>3. ASSUME NEW q \in close_radio(open(p))
        PROVE  Kept(q.dev)
    <3>1. /\ StreamOK(b, open(p)) /\ SameStream(s, open(p))
          /\ open(p).config.tuner # BothTuners /\ open(p).bootstrap_config.tuner # BothTuners
      BY <1>4 DEF DevOK, StreamOK, SameStream, NoTuner, BothTuners
    <3> HIDE DEF open
    <3>2. QED
      BY <3>1, CloseKeeps DEF SameStream
  <2> HIDE DEF Kept, used, open
  <2>4. QED
    BY <1>4, <2>1, <2>2, <2>3, OutFields
<1> HIDE DEF Kept, Attempt
<1>5. ASSUME NEW p, Kept(p), NEW x \in Dual(p)
      PROVE  Kept(x.dev)
  <2> DEFINE forgotten == [p EXCEPT !.configured = FALSE]
  <2>1. Kept(forgotten)
    BY <1>5 DEF Kept, DevOK, StreamOK, SameStream
  <2>2. QED
    BY <1>4, <1>5, <2>1
<1> HIDE DEF Dual
<1>6. CASE r \in Reopening(s, Dual)
  <2>1. PICK q \in close_radio(s) : r = Out(q.dev, "IO_ERROR") \/ r \in Dual(q.dev)
    BY <1>6 DEF Reopening
  <2>2. QED
    BY <1>2, <1>3, <1>5, <2>1, OutFields
<1>7. QED
  BY <1>1, <1>2, <1>4, <1>6

\* pthread_join leaves no thread; what the thread stores, it stores together.
LEMMA JoinFacts ==
  ASSUME NEW s, NEW cancelled, NEW j \in pthread_join(s, cancelled)
  PROVE  /\ j.thread.pc = "none" /\ j.stray = s.stray
         /\ j.radio = s.radio /\ j.dual_mode = s.dual_mode
         /\ j.stream_thread_started = s.stream_thread_started
         /\ j.mode_swap_paused = s.mode_swap_paused
         /\ j.config = s.config /\ j.bootstrap_config = s.bootstrap_config
         /\ \/ j.stream_error <=> j.stream_result = 1
            \/ /\ s.thread.pc \in {"none", "done"}
               /\ j.stream_error = s.stream_error /\ j.stream_result = s.stream_result
<1> DEFINE gone == [s EXCEPT !.thread = NoThread,
                             !.client_write_error_fd = IF s.thread.pc \in Reporting
                                                       THEN s.thread.to ELSE @]
<1>1. CASE s.thread.pc \in {"none", "done"}
  <2>1. j = gone
    BY <1>1 DEF pthread_join
  <2>2. QED
    BY <1>1, <2>1 DEF NoThread, At
<1>2. CASE s.thread.pc \notin {"none", "done"}
  <2>1. PICK e : j = [Stored(gone, e[1]) EXCEPT !.stuck = @ \/ e[2]]
    BY <1>2 DEF pthread_join
  <2>2. /\ gone.thread.pc = "none" /\ gone.stray = s.stray
        /\ gone.radio = s.radio /\ gone.dual_mode = s.dual_mode
        /\ gone.stream_thread_started = s.stream_thread_started
        /\ gone.mode_swap_paused = s.mode_swap_paused
        /\ gone.config = s.config /\ gone.bootstrap_config = s.bootstrap_config
    BY DEF NoThread, At
  <2> HIDE DEF gone
  <2>3. j.stream_error = (j.stream_result = 1)
    BY <2>1 DEF Stored
  <2>4. /\ j.thread = gone.thread /\ j.stray = gone.stray
        /\ j.radio = gone.radio /\ j.dual_mode = gone.dual_mode
        /\ j.stream_thread_started = gone.stream_thread_started
        /\ j.mode_swap_paused = gone.mode_swap_paused
        /\ j.config = gone.config /\ j.bootstrap_config = gone.bootstrap_config
    BY <2>1 DEF Stored
  <2>5. QED
    BY <2>2, <2>3, <2>4, Zenon
<1>3. QED
  BY <1>1, <1>2

\* stop_stream joins the thread that main knows of; when it succeeds, no failure of
\* that thread is left.
LEMMA StopKeeps ==
  ASSUME NEW b, NEW s, DevOK(b, s), NEW o \in stop_stream(s)
  PROVE  /\ DevOK(b, o.dev)
         /\ o.status \in {"OK", "IO_ERROR"}
         /\ o.dev.radio = s.radio /\ o.dev.dual_mode = s.dual_mode
         /\ ~s.stream_thread_started => o.dev = s /\ o.status = "OK"
         /\ s.stream_thread_started => /\ ~o.dev.stream_thread_started
                                       /\ o.dev.thread.pc = "none"
                                       /\ o.dev.mode_swap_paused = s.mode_swap_paused
         /\ Orderly /\ s.stream_thread_started /\ o.status = "OK" => ~o.dev.stream_error
<1>1. CASE ~s.stream_thread_started
  <2>1. o = Out(s, "OK")
    BY <1>1 DEF stop_stream
  <2>2. QED
    BY <1>1, <2>1, OutFields
<1>2. CASE s.stream_thread_started
  <2> DEFINE ended(j) == [j EXCEPT !.stream_thread_started = FALSE, !.streaming = FALSE]
  <2>1. PICK j \in pthread_join(s, s.radio # NoTuner) :
          o = Out(ended(j), IF j.stream_result = 0 THEN "OK" ELSE "IO_ERROR")
            \/ o = Out(ended(j), "IO_ERROR")
    BY <1>2, Zenon DEF stop_stream, MayFail
  <2>2. o.dev = ended(j) /\ o.status \in {"OK", "IO_ERROR"}
        /\ (o.status = "OK" => j.stream_result = 0)
    BY <2>1, OutFields
  <2>3. /\ j.thread.pc = "none" /\ j.stray = s.stray
        /\ j.radio = s.radio /\ j.dual_mode = s.dual_mode
        /\ j.mode_swap_paused = s.mode_swap_paused
        /\ j.config = s.config /\ j.bootstrap_config = s.bootstrap_config
        /\ \/ j.stream_error <=> j.stream_result = 1
           \/ j.stream_error = s.stream_error /\ j.stream_result = s.stream_result
    BY <2>1, JoinFacts
  <2>4. /\ ended(j).thread = j.thread /\ ended(j).stray = j.stray
        /\ ended(j).radio = j.radio /\ ended(j).dual_mode = j.dual_mode
        /\ ended(j).mode_swap_paused = j.mode_swap_paused
        /\ ended(j).config = j.config /\ ended(j).bootstrap_config = j.bootstrap_config
        /\ ended(j).stream_error = j.stream_error /\ ~ended(j).stream_thread_started
    OBVIOUS
  <2> HIDE DEF ended
  <2>5. DevOK(b, ended(j))
    BY <1>2, <2>3, <2>4 DEF DevOK, StreamOK
  <2>6. Orderly /\ j.stream_result = 0 => ~j.stream_error
    <3>1. Orderly /\ s.stream_error => s.stream_result = 1
      BY <1>2 DEF DevOK, StreamOK
    <3>2. QED
      BY <2>3, <3>1
  <2>7. QED
    BY <1>2, <2>2, <2>3, <2>4, <2>5, <2>6
<1>3. QED
  BY <1>1, <1>2

\* mirisdr_cancel_async changes the thread, and never starts or ends it.
LEMMA CancelKeeps ==
  ASSUME NEW b, NEW s, DevOK(b, s)
  PROVE  /\ DevOK(b, cancel_async(s)) /\ SameStream(s, cancel_async(s))
         /\ cancel_async(s).radio = s.radio
<1> DEFINE left == [s EXCEPT !.thread = At("leave", 0)]
           quit == [s.thread EXCEPT !.pc = "report_end"]
           ended == [s EXCEPT !.thread = quit]
<1>1. CASE s.radio # NoTuner /\ s.thread.pc = "run"
  <2>1. cancel_async(s) = left
    BY <1>1 DEF cancel_async
  <2>2. /\ left.thread.pc = "leave" /\ left.stray = s.stray /\ left.radio = s.radio
        /\ left.dual_mode = s.dual_mode /\ left.stream_thread_started = s.stream_thread_started
        /\ left.mode_swap_paused = s.mode_swap_paused /\ left.stream_error = s.stream_error
        /\ left.stream_result = s.stream_result
        /\ left.config = s.config /\ left.bootstrap_config = s.bootstrap_config
    BY DEF At
  <2> HIDE DEF left
  <2>3. QED
    BY <1>1, <2>1, <2>2 DEF DevOK, StreamOK, SameStream
<1>2. CASE s.radio # NoTuner /\ s.thread.pc = "report"
  <2>1. cancel_async(s) = ended
    BY <1>2 DEF cancel_async
  <2>2. quit.pc = "report_end"
    BY <1>2
  <2> HIDE DEF quit
  <2>3. /\ ended.thread = quit /\ ended.stray = s.stray /\ ended.radio = s.radio
        /\ ended.dual_mode = s.dual_mode /\ ended.stream_thread_started = s.stream_thread_started
        /\ ended.mode_swap_paused = s.mode_swap_paused /\ ended.stream_error = s.stream_error
        /\ ended.stream_result = s.stream_result
        /\ ended.config = s.config /\ ended.bootstrap_config = s.bootstrap_config
    OBVIOUS
  <2> HIDE DEF ended
  <2>4. QED
    BY <1>2, <2>1, <2>2, <2>3 DEF DevOK, StreamOK, SameStream
<1>3. CASE ~(s.radio # NoTuner /\ s.thread.pc \in {"run", "report"})
  <2>1. cancel_async(s) = s
    BY <1>3 DEF cancel_async
  <2>2. QED
    BY <2>1 DEF SameStream
<1>4. QED
  BY <1>1, <1>2, <1>3

\* pthread_create starts a thread beside a stream that is stopped and not paused.
LEMMA CreateKeeps ==
  ASSUME NEW b, NEW s, DevOK(b, s), ~s.stream_error,
         Orderly => ~s.stream_thread_started /\ ~s.mode_swap_paused,
         NEW t \in pthread_create(s)
  PROVE  DevOK(b, t)
<1> DEFINE fresh == [s EXCEPT !.thread = At("enter", 0), !.stream_thread_started = TRUE]
           over == [fresh EXCEPT !.stray = s.thread]
           Runs(p) == /\ p.thread.pc = "enter" /\ p.stream_thread_started
                      /\ p.radio = s.radio /\ p.dual_mode = s.dual_mode
                      /\ p.mode_swap_paused = s.mode_swap_paused
                      /\ p.stream_error = s.stream_error
                      /\ p.config = s.config /\ p.bootstrap_config = s.bootstrap_config
<1>1. Runs(fresh) /\ fresh.stray = s.stray
  BY DEF At
<1>2. Runs(over) /\ over.stray = s.thread
  BY <1>1
<1>3. \/ t = fresh
      \/ s.thread.pc # "none" /\ t = over
  BY DEF pthread_create
<1>4. Orderly => s.thread.pc = "none"
  BY DEF DevOK, StreamOK
<1> HIDE DEF fresh, over
<1>5. CASE t = fresh
  BY <1>1, <1>5 DEF DevOK, StreamOK
<1>6. CASE s.thread.pc # "none" /\ t = over
  BY <1>2, <1>4, <1>6 DEF DevOK, StreamOK
<1>7. QED
  BY <1>3, <1>5, <1>6

\* The predicates depend on nothing else.
LEMMA AlikeKeeps ==
  ASSUME NEW b, NEW s, NEW r, Alike(s, r), DevOK(b, s)
  PROVE  DevOK(b, r) /\ SameStream(s, r)
  BY DEF Alike, DevOK, StreamOK, SameStream

\* A change in place sets the hardware and nothing else, whether it fails or not.
LEMMA SetSingleFacts ==
  ASSUME NEW s, NEW believed, NEW c, NEW o \in SetSingle(s, believed, c)
  PROVE  /\ Alike(s, o.dev) /\ o.status \in {"OK", "IO_ERROR"}
         /\ o.status = "IO_ERROR" => "update" \in Faults
<1> DEFINE rates == {IF c.rate # believed.rate THEN c.rate ELSE s.hw.rate}
           rfs == {IF c.rf # believed.rf THEN c.rf ELSE s.hw.rf[s.radio]}
           Set(r, f) == [s EXCEPT !.hw = [rate |-> r, rf |-> [s.hw.rf EXCEPT ![s.radio] = f]]]
<1>1. o \in {Out(Set(r, f), "OK") : r \in rates, f \in rfs}
              \union MayFail({"update"}, {Out(Set(r, f), "IO_ERROR") :
                                            r \in rates \union {s.hw.rate},
                                            f \in rfs \union {s.hw.rf[s.radio]}})
  BY DEF SetSingle
<1>2. \A r, f : Alike(s, Set(r, f))
  BY DEF Alike
<1> HIDE DEF Set, rates, rfs
<1>3. CASE o \in {Out(Set(r, f), "OK") : r \in rates, f \in rfs}
  BY <1>2, <1>3, OutFields
<1>4. CASE /\ "update" \in Faults
           /\ o \in {Out(Set(r, f), "IO_ERROR") : r \in rates \union {s.hw.rate},
                                                  f \in rfs \union {s.hw.rf[s.radio]}}
  BY <1>2, <1>4, OutFields
<1>5. QED
  BY <1>1, <1>3, <1>4 DEF MayFail

\* The same for one channel of a dual session.
LEMMA SetChannelFacts ==
  ASSUME NEW s, NEW t, NEW f, NEW o \in SetChannel(s, t, f)
  PROVE  /\ Alike(s, o.dev) /\ o.status \in {"OK", "IO_ERROR"}
         /\ o.status = "IO_ERROR" => "update" \in Faults
<1> DEFINE set == [s EXCEPT !.hw.rf[t] = f]
<1>1. \/ o = Out(set, "OK")
      \/ (o = Out(set, "IO_ERROR") \/ o = Out(s, "IO_ERROR")) /\ "update" \in Faults
  BY DEF SetChannel, MayFail
<1>2. Alike(s, set) /\ Alike(s, s)
  BY DEF Alike
<1> HIDE DEF set
<1>3. QED
  BY <1>1, <1>2, OutFields

\* apply_update leaves the stream and the mode alone; it fails on the hardware only
\* where a change in place may fail.
LEMMA UpdateKeeps ==
  ASSUME NEW b, NEW s, NEW c, DevOK(b, s), NEW o \in apply_update(s, c)
  PROVE  /\ DevOK(b, o.dev) /\ SameStream(s, o.dev)
         /\ o.status \in {"OK", "BAD_REQUEST", "IO_ERROR"}
         /\ Orderly => o.status # "IO_ERROR"
<1> DEFINE Fits(p) == DevOK(b, p) /\ SameStream(s, p)
           channel(q) == [q EXCEPT !.dual_config.rf[c.tuner] = c.rf]
           single(q) == [q EXCEPT !.config = c]
<1>1. Fits(s)
  BY DEF SameStream
<1>2. ASSUME NEW q, Alike(s, q)
      PROVE  Fits(q) /\ Fits(channel(q))
  <2>1. Alike(s, channel(q))
    BY <1>2 DEF Alike
  <2> HIDE DEF channel
  <2>2. QED
    BY <1>2, <2>1, AlikeKeeps
<1>3. ASSUME NEW q, Alike(s, q), c.tuner = s.config.tuner
      PROVE  Fits(single(q))
  BY <1>3 DEF Alike, DevOK, StreamOK, SameStream
<1> HIDE DEF Fits, channel, single
<1>4. CASE o = Out(s, "BAD_REQUEST")
  BY <1>1, <1>4, OutFields DEF Fits
<1>5. CASE \E q \in SetChannel(s, c.tuner, c.rf) :
             o = IF q.status = "OK" THEN Out(channel(q.dev), "OK") ELSE q
  <2>1. PICK q \in SetChannel(s, c.tuner, c.rf) :
               o = IF q.status = "OK" THEN Out(channel(q.dev), "OK") ELSE q
    BY <1>5
  <2>2. QED
    BY <1>2, <2>1, SetChannelFacts, OutFields DEF Fits, Orderly
<1>6. CASE /\ c.tuner = s.config.tuner
           /\ \E q \in SetSingle(s, s.config, c) :
                o = IF q.status = "OK" THEN Out(single(q.dev), "OK") ELSE q
  <2>1. PICK q \in SetSingle(s, s.config, c) :
               o = IF q.status = "OK" THEN Out(single(q.dev), "OK") ELSE q
    BY <1>6
  <2>2. QED
    BY <1>2, <1>3, <1>6, <2>1, SetSingleFacts, OutFields DEF Fits, Orderly
<1>7. QED
  BY <1>4, <1>5, <1>6, Zenon DEF apply_update, channel, single

\* The stream starts again, or a failure is recorded for the next round.
LEMMA RestartedKeeps ==
  ASSUME NEW b, NEW s, DevOK(b, s),
         Orderly => ~s.stream_thread_started /\ ~s.mode_swap_paused,
         NEW r \in Restarted(s)
  PROVE  DevOK(b, r)
<1> DEFINE ready == [s EXCEPT !.first_iq_seen = FALSE, !.stream_error = FALSE,
                              !.stream_result = 0, !.streaming = TRUE]
           failed == [ready EXCEPT !.streaming = FALSE, !.stream_error = TRUE]
           pending(t) == [t EXCEPT !.recovery_config_pending = ~s.dual_mode]
<1>1. \/ \E t \in pthread_create(ready) : r = pending(t)
      \/ r = failed
      \/ \E q \in close_radio(failed) : r = q.dev
  BY DEF Restarted, MayFail
<1>2. /\ DevOK(b, ready) /\ ~ready.stream_error
      /\ ready.stream_thread_started = s.stream_thread_started
      /\ ready.mode_swap_paused = s.mode_swap_paused
  BY DEF DevOK, StreamOK
<1>3. DevOK(b, failed)
  BY DEF DevOK, StreamOK
<1>4. \A t : Alike(t, pending(t))
  BY DEF Alike
<1> HIDE DEF ready, failed, pending
<1>5. CASE \E t \in pthread_create(ready) : r = pending(t)
  BY <1>2, <1>4, <1>5, CreateKeeps, AlikeKeeps
<1>6. CASE \E q \in close_radio(failed) : r = q.dev
  BY <1>3, <1>6, CloseKeeps DEF DevOK
<1>7. QED
  BY <1>1, <1>3, <1>5, <1>6

\* A tuner that a configuration selects is one tuner.
LEMMA BootstrapSingle ==
  ASSUME NEW b, NEW s, DevOK(b, s)
  PROVE  bootstrap(s).tuner # BothTuners
  BY DEF bootstrap, DevOK

\* recover_failed_stream joins the failed thread, closes its handle and, for a client
\* that has the receiver, opens it again and restarts; without one, either nothing
\* had failed or the handle is closed.
LEMMA RecoverKeeps ==
  ASSUME NEW b, NEW s, NEW active \in BOOLEAN, DevOK(b, s),
         NEW r \in recover_failed_stream(s, active)
  PROVE  DevOK(b, r) /\ (~active => r = s \/ r.radio = NoTuner)
<1> DEFINE Joined == IF ~s.stream_thread_started THEN {s}
                     ELSE {[j EXCEPT !.stream_thread_started = FALSE]
                           : j \in pthread_join(s, FALSE)}
           Reopen(p) ==
             IF p.dual_mode
             THEN UNION {IF o.status = "OK" THEN Restarted(o.dev) ELSE {o.dev}
                         : o \in configure_dual_radio(p, p.dual_config)}
             ELSE IF bootstrap(p) = NoConfig THEN {p}
             ELSE UNION {IF o.status # "OK" THEN {o.dev}
                         ELSE Restarted([o.dev EXCEPT !.configured = TRUE])
                         : o \in configure_radio(p, bootstrap(p))}
           reset(p) == [p EXCEPT !.configured = FALSE, !.recovery_config_pending = FALSE]
           Ended(p) ==
             UNION {IF q.status = "EBUSY" THEN {q.dev}
                    ELSE IF ~active THEN {reset(q.dev)}
                         ELSE MayFail({"absent"}, {reset(q.dev)}) \union Reopen(reset(q.dev))
                    : q \in close_radio(p)}
           Calm(p) == DevOK(b, p) /\ (Orderly => ~p.stream_thread_started /\ ~p.mode_swap_paused)
<1>1. \/ r = s
      \/ s.stream_error /\ r \in UNION {Ended(p) : p \in Joined}
  BY Zenon DEF recover_failed_stream
<1>2. ASSUME s.stream_error, NEW p \in Joined
      PROVE  Calm(p)
  <2>1. Orderly => ~s.mode_swap_paused
    BY <1>2 DEF DevOK, StreamOK
  <2>2. CASE ~s.stream_thread_started
    BY <1>2, <2>1, <2>2
  <2>3. CASE s.stream_thread_started
    <3> DEFINE cancelled == FALSE
    <3>1. PICK j \in pthread_join(s, cancelled) : p = [j EXCEPT !.stream_thread_started = FALSE]
      BY <1>2, <2>3, Zenon
    <3> HIDE DEF cancelled
    <3>2. /\ j.thread.pc = "none" /\ j.stray = s.stray
          /\ j.radio = s.radio /\ j.dual_mode = s.dual_mode
          /\ j.mode_swap_paused = s.mode_swap_paused
          /\ j.config = s.config /\ j.bootstrap_config = s.bootstrap_config
      BY JoinFacts
    <3>3. QED
      BY <2>1, <3>1, <3>2 DEF DevOK, StreamOK
  <2>4. QED
    BY <2>2, <2>3
<1>3. ASSUME NEW p, Calm(p), NEW x \in Reopen(p)
      PROVE  DevOK(b, x)
  <2>1. CASE p.dual_mode
    <3>1. PICK o \in configure_dual_radio(p, p.dual_config) :
                 x \in IF o.status = "OK" THEN Restarted(o.dev) ELSE {o.dev}
      BY <1>3, <2>1
    <3>2. DevOK(b, o.dev) /\ SameStream(p, o.dev)
      BY <1>3, ConfigureDualKeeps
    <3>3. QED
      BY <1>3, <3>1, <3>2, RestartedKeeps DEF SameStream
  <2>2. CASE ~p.dual_mode /\ x = p
    BY <1>3, <2>2
  <2>3. CASE /\ ~p.dual_mode
             /\ \E o \in configure_radio(p, bootstrap(p)) :
                  x \in IF o.status # "OK" THEN {o.dev}
                        ELSE Restarted([o.dev EXCEPT !.configured = TRUE])
    <3> DEFINE set(q) == [q EXCEPT !.configured = TRUE]
    <3>1. PICK o \in configure_radio(p, bootstrap(p)) : x = o.dev \/ x \in Restarted(set(o.dev))
      BY <2>3, Zenon
    <3>2. DevOK(b, o.dev) /\ SameStream(p, o.dev)
      BY <1>3, ConfigureKeeps, BootstrapSingle
    <3>3. Alike(o.dev, set(o.dev))
      BY DEF Alike
    <3> HIDE DEF set
    <3>4. DevOK(b, set(o.dev)) /\ SameStream(o.dev, set(o.dev))
      BY <3>2, <3>3, AlikeKeeps
    <3>5. QED
      BY <1>3, <3>1, <3>2, <3>4, RestartedKeeps DEF SameStream
  <2>4. QED
    BY <1>3, <2>1, <2>2, <2>3
<1>4. \A q : Alike(q, reset(q))
  BY DEF Alike
<1> HIDE DEF Joined, Reopen, reset
<1>5. ASSUME NEW p, Calm(p), NEW x \in Ended(p)
      PROVE  DevOK(b, x) /\ (~active => x.radio = NoTuner)
  <2>1. PICK q \in close_radio(p) :
               \/ x = q.dev
               \/ x = reset(q.dev)
               \/ active /\ x \in Reopen(reset(q.dev))
    BY <1>5 DEF MayFail
  <2>2. Calm(q.dev) /\ q.dev.radio = NoTuner
    BY <1>5, CloseKeeps DEF DevOK, SameStream
  <2>3. Calm(reset(q.dev)) /\ reset(q.dev).radio = NoTuner
    BY <1>4, <2>2, AlikeKeeps DEF SameStream, Alike
  <2> HIDE DEF Calm
  <2>4. CASE x = q.dev \/ x = reset(q.dev)
    BY <2>2, <2>3, <2>4 DEF Calm
  <2>5. CASE active /\ x \in Reopen(reset(q.dev))
    BY <1>3, <2>3, <2>5
  <2>6. QED
    BY <2>1, <2>4, <2>5
<1> HIDE DEF Calm, Ended
<1>6. QED
  BY <1>1, <1>2, <1>5

\* finish_recovery_config changes the receiver in place; a failure is recorded, and the
\* stream cancelled.
LEMMA FinishKeeps ==
  ASSUME NEW b, NEW s, DevOK(b, s), NEW r \in finish_recovery_config(s)
  PROVE  /\ DevOK(b, r) /\ r.radio = s.radio
         /\ r.thread.pc = "none" <=> s.thread.pc = "none"
<1> DEFINE done(q) == [q EXCEPT !.recovery_config_pending = FALSE]
           failed(q) == [done(q) EXCEPT !.stream_error = TRUE]
<1>1. CASE r = s
  BY <1>1
<1>2. CASE \E o \in SetSingle(s, bootstrap(s), s.config) :
             r = IF o.status = "OK" THEN done(o.dev) ELSE cancel_async(failed(o.dev))
  <2>1. PICK o \in SetSingle(s, bootstrap(s), s.config) :
             r = IF o.status = "OK" THEN done(o.dev) ELSE cancel_async(failed(o.dev))
    BY <1>2, Zenon
  <2>2. Alike(s, o.dev) /\ (o.status # "OK" => "update" \in Faults)
    BY SetSingleFacts
  <2>3. Alike(s, done(o.dev))
    BY <2>2 DEF Alike
  <2>4. /\ ~Orderly => DevOK(b, failed(o.dev))
        /\ failed(o.dev).radio = s.radio /\ failed(o.dev).thread = s.thread
    BY <2>2 DEF Alike, DevOK, StreamOK
  <2>5. CASE o.status = "OK"
    <3> HIDE DEF done
    <3>1. QED
      BY <2>1, <2>3, <2>5, AlikeKeeps DEF Alike, SameStream
  <2>6. CASE o.status # "OK"
    <3>1. ~Orderly
      BY <2>2, <2>6 DEF Orderly
    <3> HIDE DEF done, failed
    <3>2. QED
      BY <2>1, <2>4, <2>6, <3>1, CancelKeeps DEF SameStream
  <2>7. QED
    BY <2>5, <2>6
<1>3. QED
  BY <1>1, <1>2, Zenon DEF finish_recovery_config

\* The handle is closed and forgotten.
LEMMA ClosedKeeps ==
  ASSUME NEW b, NEW s, DevOK(b, s), NEW d \in Closed(s)
  PROVE  DevOK(b, d) /\ SameStream(s, d) /\ d.radio = NoTuner
<1> DEFINE reset(q) == [q EXCEPT !.configured = FALSE]
<1>1. PICK q \in close_radio(s) : d = reset(q.dev)
  BY DEF Closed
<1>2. DevOK(b, q.dev) /\ SameStream(s, q.dev) /\ q.dev.radio = NoTuner
  BY CloseKeeps DEF DevOK
<1>3. Alike(q.dev, reset(q.dev))
  BY DEF Alike
<1> HIDE DEF reset
<1>4. QED
  BY <1>1, <1>2, <1>3, AlikeKeeps DEF Alike, SameStream

\* The stream is stopped while there is a handle.
LEMMA StoppedKeeps ==
  ASSUME NEW b, NEW s, DevOK(b, s), NEW d \in Stopped(s)
  PROVE  /\ DevOK(b, d) /\ d.radio = s.radio
         /\ Orderly => d.radio = NoTuner \/ d.thread.pc = "none"
<1>1. CASE s.radio = NoTuner
  BY <1>1 DEF Stopped
<1>2. CASE s.radio # NoTuner
  <2>1. PICK o \in stop_stream(s) : d = o.dev
    BY <1>2 DEF Stopped
  <2>2. Orderly /\ ~s.stream_thread_started => s.thread.pc = "none"
    BY DEF DevOK, StreamOK
  <2>3. QED
    BY <2>1, <2>2, StopKeeps
<1>3. QED
  BY <1>1, <1>2

\* release_client, for the owner: the receiver it leaves is closed or its stream has
\* ended, and the next session starts unpaused and without an old failure.
LEMMA ReleaseKeeps ==
  ASSUME NEW b, NEW s, DevOK(b, s), NEW r \in release_owner(s)
  PROVE  /\ DevOK(b, r)
         /\ Orderly => r.radio = NoTuner \/ r.thread.pc = "none"
<1> DEFINE left(d) == [d EXCEPT !.streaming = FALSE, !.stream_error = FALSE,
                                !.stream_result = 0, !.dual_mode = FALSE,
                                !.mode_swap_paused = FALSE]
           Idle(d) == DevOK(b, d) /\ (Orderly => d.radio = NoTuner \/ d.thread.pc = "none")
<1>1. PICK t \in Stopped(s) : r \in Relinquished(t)
  BY DEF release_owner
<1>2. PICK d \in IF (t.dual_mode \/ t.stream_error) /\ t.radio # NoTuner THEN Closed(t) ELSE {t} :
             r = left(d)
  BY <1>1, Zenon DEF Relinquished
<1>3. Idle(t)
  BY StoppedKeeps
<1>4. Idle(d) /\ (d.dual_mode => d.radio = NoTuner)
  <2>1. CASE d \in Closed(t)
    BY <1>3, <2>1, ClosedKeeps
  <2>2. QED
    BY <1>2, <1>3, <2>1
<1>5. Idle(left(d))
  BY <1>4 DEF DevOK, StreamOK
<1>6. QED
  BY <1>2, <1>5

\* duo_reset_hardware closes the handle, whatever fails.
LEMMA ResetKeeps ==
  ASSUME NEW b, NEW s, DevOK(b, s), NEW r \in duo_reset_hardware(s)
  PROVE  /\ DevOK(b, r.dev) /\ r.dev.radio = NoTuner
         /\ \/ SameStream(s, r.dev)
            \/ ~r.dev.stream_thread_started /\ r.dev.mode_swap_paused = s.mode_swap_paused
<1> DEFINE reset(q) == [q EXCEPT !.configured = FALSE, !.dual_mode = FALSE]
<1>1. PICK o \in IF s.radio = NoTuner THEN {Out(s, "OK")} ELSE stop_stream(s) :
             r \in {Out(reset(q.dev), IF o.status = "OK" /\ q.status = "OK" THEN "OK"
                                     ELSE "IO_ERROR") : q \in close_radio(o.dev)}
  BY Zenon DEF duo_reset_hardware
<1>2. PICK q \in close_radio(o.dev) : \E v : r = Out(reset(q.dev), v)
  BY <1>1, Zenon
<1>3. /\ DevOK(b, o.dev)
      /\ \/ o.dev = s
         \/ ~o.dev.stream_thread_started /\ o.dev.mode_swap_paused = s.mode_swap_paused
  <2>1. CASE s.radio = NoTuner
    <3>1. o = Out(s, "OK")
      BY <1>1, <2>1, Zenon
    <3>2. QED
      BY <3>1, OutFields
  <2>2. CASE o \in stop_stream(s)
    BY <2>2, StopKeeps
  <2>3. QED
    BY <1>1, <2>1, <2>2, Zenon
<1>4. DevOK(b, q.dev) /\ SameStream(o.dev, q.dev) /\ q.dev.radio = NoTuner
  BY <1>3, CloseKeeps DEF DevOK
<1>5. DevOK(b, reset(q.dev)) /\ SameStream(q.dev, reset(q.dev)) /\ reset(q.dev).radio = NoTuner
  BY <1>4 DEF DevOK, StreamOK, SameStream
<1> HIDE DEF reset
<1>6. QED
  BY <1>2, <1>3, <1>4, <1>5, OutFields DEF SameStream

\* The end of a master/slave session forgets its configurations.
LEMMA ForgottenKeeps ==
  ASSUME NEW b, NEW s, DevOK(b, s)
  PROVE  DevOK(b, duo_forgotten(s)) /\ duo_forgotten(s).radio = s.radio
<1>1. Alike(s, duo_forgotten(s))
  BY DEF Alike, duo_forgotten
<1>2. QED
  BY <1>1, AlikeKeeps DEF Alike

\* A swap stops the stream and closes the handle; it goes on only when both worked.
LEMMA StopCloseKeeps ==
  ASSUME NEW b, NEW s, DevOK(b, s), NEW r \in stop_and_close(s)
  PROVE  /\ DevOK(b, r.dev)
         /\ s.stream_thread_started => ~r.dev.stream_thread_started
         /\ s.stream_thread_started => r.dev.mode_swap_paused = s.mode_swap_paused
         /\ Orderly /\ s.stream_thread_started /\ r.status = "OK" => ~r.dev.stream_error
<1>1. PICK o \in stop_stream(s) :
             \/ r = o /\ o.status # "OK"
             \/ o.status = "OK" /\ \E q \in close_radio(o.dev) : \E v : r = Out(q.dev, v)
  BY DEF stop_and_close
<1>2. /\ DevOK(b, o.dev)
      /\ s.stream_thread_started => ~o.dev.stream_thread_started
      /\ s.stream_thread_started => o.dev.mode_swap_paused = s.mode_swap_paused
      /\ Orderly /\ s.stream_thread_started /\ o.status = "OK" => ~o.dev.stream_error
  BY StopKeeps
<1>3. CASE r = o /\ o.status # "OK"
  BY <1>2, <1>3
<1>4. CASE o.status = "OK" /\ \E q \in close_radio(o.dev) : \E v : r = Out(q.dev, v)
  <2>1. PICK q \in close_radio(o.dev) : \E v : r = Out(q.dev, v)
    BY <1>4
  <2>2. DevOK(b, q.dev) /\ SameStream(o.dev, q.dev)
    BY <1>2, CloseKeeps DEF DevOK
  <2>3. QED
    BY <1>2, <1>4, <2>1, <2>2, OutFields DEF SameStream
<1>5. QED
  BY <1>1, <1>3, <1>4

\* The stream that an accepted request launches.
LEMMA LaunchKeeps ==
  ASSUME NEW b, NEW s, DevOK(b, s), NEW launch \in {"start", "duo", "resume"},
         launch = "start" => ~s.stream_error,
         Orderly => ~s.stream_thread_started /\ ~s.mode_swap_paused,
         NEW o \in Launched(s, launch)
  PROVE  DevOK(b, o.dev)
<1> DEFINE duo_ready == [s EXCEPT !.first_iq_seen = FALSE, !.streaming = TRUE,
                                  !.stream_error = FALSE]
           resume_ready == [s EXCEPT !.first_iq_seen = FALSE, !.streaming = TRUE,
                                     !.stream_error = FALSE, !.recovery_config_pending = FALSE]
           Ready(p) == /\ DevOK(b, p) /\ ~p.stream_error
                       /\ Orderly => ~p.stream_thread_started /\ ~p.mode_swap_paused
           quiet(p) == [p EXCEPT !.streaming = FALSE]
<1>1. Ready(duo_ready)
  BY DEF DevOK, StreamOK
<1>2. Ready(resume_ready)
  BY DEF DevOK, StreamOK
<1>3. ASSUME NEW p, Ready(p), NEW status, o = Out(p, status) \/ o = Out(quiet(p), status)
      PROVE  DevOK(b, o.dev)
  <2>1. Alike(p, quiet(p))
    BY DEF Alike
  <2> HIDE DEF quiet
  <2>2. QED
    BY <1>3, <2>1, AlikeKeeps, OutFields
<1>4. ASSUME NEW p, Ready(p), NEW t \in pthread_create(p), o = Out(t, "OK")
      PROVE  DevOK(b, o.dev)
  BY <1>4, CreateKeeps, OutFields
<1>5. CASE launch = "start"
  <2>1. \/ \E t \in pthread_create(s) : o = Out(t, "OK")
        \/ o = Out(quiet(s), "FAILED")
    BY <1>5 DEF Launched, MayFail
  <2>2. Ready(s)
    BY <1>5
  <2> HIDE DEF Ready, quiet
  <2>3. QED
    BY <1>3, <1>4, <2>1, <2>2
<1>6. CASE launch = "duo"
  <2>1. \/ \E t \in pthread_create(duo_ready) : o = Out(t, "OK")
        \/ o = Out(duo_ready, "FAILED")
    BY <1>6 DEF Launched, MayFail
  <2> HIDE DEF Ready, duo_ready
  <2>2. QED
    BY <1>1, <1>3, <1>4, <2>1, Zenon
<1>7. CASE launch = "resume"
  <2>1. \/ \E t \in pthread_create(resume_ready) : o = Out(t, "OK")
        \/ o = Out(resume_ready, "FAILED")
    BY <1>7 DEF Launched, MayFail
  <2> HIDE DEF Ready, resume_ready
  <2>2. QED
    BY <1>2, <1>3, <1>4, <2>1, Zenon
<1>8. QED
  BY <1>5, <1>6, <1>7

\* Answering writes the response, and launches what the request asks for; when one of
\* them fails, the client is to be removed.
LEMMA AnswerKeeps ==
  ASSUME NEW b, NEW c, NEW s, DevOK(b, s), NEW launch \in {"none", "start", "duo", "resume"},
         launch = "start" => ~s.stream_error,
         launch # "none" /\ Orderly => ~s.stream_thread_started /\ ~s.mode_swap_paused,
         Answer(c, s, launch)
  PROVE  DevOK(b, dev') /\ evict' \in {c, NoClient} /\ loop' = "serve"
<1>1. CASE dev' = s /\ (evict' = c \/ evict' = NoClient)
  BY <1>1 DEF Answer
<1>2. CASE launch # "none" /\ \E o \in Launched(s, launch) :
             dev' = o.dev /\ evict' = IF o.status = "OK" THEN NoClient ELSE c
  BY <1>2, LaunchKeeps DEF Answer
<1>3. QED
  BY <1>1, <1>2 DEF Answer

-----------------------------------------------------------------------------
(* The sessions. *)

\* The operations of duo_session.c keep the session well formed.  acquire_master and
\* acquire_slave add the descriptor that asks, and nobody else.
LEMMA AcquireKeeps ==
  ASSUME NEW s, SessionOK(s), NEW c \in Clients, NEW role \in Roles, NEW t \in Tuners,
         NEW rate \in Rates, acquire(s, c, role, t, rate).result = "OK"
  PROVE  LET r == acquire(s, c, role, t, rate).session
         IN /\ SessionOK(r) /\ r.master_selected
            /\ {r.master_fd, r.slave_fd} \subseteq {c, s.master_fd, s.slave_fd}
<1> DEFINE r == acquire(s, c, role, t, rate).session
           Good(x) == /\ SessionOK(x) /\ x.master_selected
                      /\ {x.master_fd, x.slave_fd} \subseteq {c, s.master_fd, s.slave_fd}
<1>1. CASE role = "master"
  <2>1. \/ r = s /\ s.master_selected
        \/ r = master_taken(s, c, t, rate) /\ ~s.slave_selected
    BY <1>1 DEF acquire, acquire_master, Done, Refused
  <2>2. ~s.slave_selected => Good(master_taken(s, c, t, rate))
    BY NoClientAssumption, Zenon DEF master_taken, SessionOK, Sessions
  <2>3. QED
    BY <2>1, <2>2
<1>2. CASE role = "slave"
  <2>1. /\ s.master_selected
        /\ r = s \/ (r = slave_taken(s, c, t) /\ s.master_fd # c)
    BY <1>2 DEF acquire, acquire_slave, Done, Refused
  <2>2. s.master_selected /\ s.master_fd # c => Good(slave_taken(s, c, t))
    BY NoClientAssumption, Zenon DEF slave_taken, SessionOK, Sessions
  <2>3. QED
    BY <2>1, <2>2
<1>3. QED
  BY <1>1, <1>2 DEF Roles

\* Starting and stopping a role changes no owner.
LEMMA InitialiseKeeps ==
  ASSUME NEW s, SessionOK(s), NEW c
  PROVE  /\ LET r == initialise(s, c).session
            IN /\ SessionOK(r) /\ r.master_selected = s.master_selected
               /\ r.master_fd = s.master_fd /\ r.slave_fd = s.slave_fd
         /\ LET r == uninitialise(s, c).session
            IN /\ SessionOK(r) /\ r.master_selected = s.master_selected
               /\ r.master_fd = s.master_fd /\ r.slave_fd = s.slave_fd
<1> DEFINE Same(r) == /\ SessionOK(r) /\ r.master_selected = s.master_selected
                      /\ r.master_fd = s.master_fd /\ r.slave_fd = s.slave_fd
           master(x) == [s EXCEPT !.master_initialised = x]
           slave(x) == [s EXCEPT !.slave_initialised = x]
<1>1. \A x \in BOOLEAN : Same(master(x)) /\ Same(slave(x))
  BY DEF SessionOK, Sessions
<1>2. initialise(s, c).session \in {s, master(TRUE), slave(TRUE)}
  BY DEF initialise, Done, Refused
<1>3. uninitialise(s, c).session \in {s, master(FALSE), slave(FALSE)}
  BY DEF uninitialise, Done, Refused
<1> HIDE DEF master, slave
<1>4. QED
  BY <1>1, <1>2, <1>3, Zenon

\* A role that is given up or lost leaves the session: the master takes all of it
\* along, the slave only its own part.
LEMMA LeaveKeeps ==
  ASSUME NEW s, SessionOK(s), NEW c \in Clients, NEW r,
         \/ r = disconnect(s, c).session
         \/ r = release(s, c).session /\ release(s, c).result = "OK"
  PROVE  /\ SessionOK(r)
         /\ r.master_fd \in {s.master_fd, NoClient} /\ r.slave_fd \in {s.slave_fd, NoClient}
         /\ r.master_selected => s.master_selected
         /\ c \notin {r.master_fd, r.slave_fd}
<1> DEFINE Good(x) == /\ SessionOK(x)
                      /\ x.master_fd \in {s.master_fd, NoClient}
                      /\ x.slave_fd \in {s.slave_fd, NoClient}
                      /\ x.master_selected => s.master_selected
                      /\ c \notin {x.master_fd, x.slave_fd}
<1>1. Good(session_init)
  BY NoClientAssumption DEF session_init, SessionOK, Sessions
<1>2. descriptor_is_slave(s, c) => Good(slave_cleared(s))
  BY NoClientAssumption, Zenon DEF slave_cleared, SessionOK, Sessions, descriptor_is_slave
<1>3. ~descriptor_is_slave(s, c) /\ ~descriptor_is_master(s, c) => Good(s)
  BY NoClientAssumption DEF SessionOK, Sessions, descriptor_is_slave, descriptor_is_master
<1>4. \/ r = session_init
      \/ descriptor_is_slave(s, c) /\ r = slave_cleared(s)
      \/ ~descriptor_is_slave(s, c) /\ ~descriptor_is_master(s, c) /\ r = s
  BY DEF disconnect, release, Done, Refused
<1> HIDE DEF Good
<1>5. Good(r)
  BY <1>1, <1>2, <1>3, <1>4
<1>6. QED
  BY <1>5 DEF Good

\* Nothing about the sessions changes when the connections, the owner and the roles do
\* not.
LEMMA SameOwners ==
  ASSUME SessInv, UNCHANGED ownership
  PROVE  SessInv' /\ Active' = Active
  BY DEF SessInv, SessionOK, SessionsExclusive, Connected, ownership, Active

\* A request that is served comes from a connection.
LEMMA ServedIsClient ==
  ASSUME SessInv, NEW c, NEW command, Serves(c, command)
  PROVE  c \in Clients /\ c # NoClient /\ c \in Connected
  BY NoClientAssumption DEF Serves, SessInv, Connected
-----------------------------------------------------------------------------
(* The requests. *)

\* A request of the owner, or of a role, that changes no session.
LEMMA SessionGoesOn ==
  ASSUME NEW b, NEW c \in Clients, SessInv, UNCHANGED ownership, owner = c \/ duo_active,
         DevOK(b, dev'), evict' \in {c, NoClient}, loop' = "serve"
  PROVE  Answered(b)
<1>1. SessInv' /\ Active'
  BY SameOwners, NoClientAssumption DEF Active
<1>2. QED
  BY <1>1 DEF Answered

\* The configuration of a request selects one tuner.
LEMMA OneTuner ==
  ASSUME NEW g \in SingleConfigs
  PROVE  g.tuner # BothTuners
  BY ConfigAssumption DEF Tuners, TunerA, TunerB, BothTuners

\* ACQUIRE makes a connection the owner while nobody has the receiver.
LEMMA AcquireStep ==
  ASSUME NEW b, NEW c, SessInv, DevOK(b, dev), ACQUIRE(c)
  PROVE  Answered(b)
<1>1. c \in Clients /\ c \in Connected /\ c # NoClient
  BY ServedIsClient DEF ACQUIRE
<1>2. DevOK(b, dev') /\ evict' \in {c, NoClient} /\ loop' = "serve"
  BY AnswerKeeps DEF ACQUIRE
<1>3. SessInv' /\ Active'
  BY <1>1 DEF ACQUIRE, SessInv, SessionsExclusive, Connected, Active
<1>4. QED
  BY <1>1, <1>2, <1>3 DEF Answered

\* START creates the stream thread beside a handle that streams nothing and is not
\* paused.
LEMMA StartStep ==
  ASSUME NEW b, NEW c, SessInv, DevOK(b, dev), START(c)
  PROVE  Answered(b)
<1> DEFINE ready == [dev EXCEPT !.streaming = TRUE, !.stream_error = FALSE, !.stream_result = 0]
<1>1. Answer(c, ready, "start") /\ c \in Clients /\ owner = c /\ UNCHANGED ownership
  BY ServedIsClient DEF START
<1>2. /\ DevOK(b, ready) /\ ~ready.stream_error
      /\ ~ready.stream_thread_started /\ ~ready.mode_swap_paused
  BY DEF START, DevOK, StreamOK
<1> HIDE DEF ready
<1>3. DevOK(b, dev') /\ evict' \in {c, NoClient} /\ loop' = "serve"
  BY <1>1, <1>2, AnswerKeeps, Zenon
<1>4. QED
  BY <1>1, <1>3, SessionGoesOn

\* STOP joins the stream thread.
LEMMA StopStep ==
  ASSUME NEW b, NEW c, SessInv, DevOK(b, dev), STOP(c)
  PROVE  Answered(b)
<1>1. PICK o \in stop_stream(dev) : Answer(c, o.dev, "none")
  BY DEF STOP
<1>2. c \in Clients /\ owner = c /\ UNCHANGED ownership
  BY ServedIsClient DEF STOP
<1>3. DevOK(b, o.dev)
  BY StopKeeps
<1>4. DevOK(b, dev') /\ evict' \in {c, NoClient} /\ loop' = "serve"
  BY <1>1, <1>3, AnswerKeeps
<1>5. QED
  BY <1>2, <1>4, SessionGoesOn

\* RELEASE gives the receiver back closed, or with its stream stopped.
LEMMA ReleaseStep ==
  ASSUME NEW b, NEW c, SessInv, DevOK(b, dev), RELEASE(c)
  PROVE  Answered(b)
<1>1. PICK s \in release_owner(dev) : Answer(c, s, "none")
  BY DEF RELEASE
<1>2. c \in Clients /\ c # NoClient /\ owner = c
  BY ServedIsClient DEF RELEASE
<1>3. DevOK(b, s) /\ (Orderly => s.radio = NoTuner \/ s.thread.pc = "none")
  BY ReleaseKeeps
<1>4. DevOK(b, dev') /\ evict' \in {c, NoClient} /\ loop' = "serve" /\ dev' = s
  BY <1>1, <1>3, AnswerKeeps DEF Answer
<1>5. SessInv'
  BY DEF RELEASE, SessInv, SessionsExclusive, Connected
<1>6. QED
  BY <1>2, <1>3, <1>4, <1>5 DEF Answered

\* CONFIGURE sets the receiver to one tuner.
LEMMA ConfigureStep ==
  ASSUME NEW b, NEW c, NEW g \in SingleConfigs, SessInv, DevOK(b, dev), CONFIGURE(c, g)
  PROVE  Answered(b)
<1>1. PICK o \in configure_radio(dev, g) :
             Answer(c, IF o.status = "OK" THEN Adopted(o.dev, g) ELSE o.dev, "none")
  BY DEF CONFIGURE
<1>2. c \in Clients /\ owner = c /\ UNCHANGED ownership
  BY ServedIsClient DEF CONFIGURE
<1>3. DevOK(b, o.dev)
  BY OneTuner, ConfigureKeeps
<1>4. DevOK(b, Adopted(o.dev, g))
  BY <1>3, OneTuner DEF Adopted, DevOK, StreamOK
<1>5. DevOK(b, dev') /\ evict' \in {c, NoClient} /\ loop' = "serve"
  BY <1>1, <1>3, <1>4, AnswerKeeps, SMTT(20)
<1>6. QED
  BY <1>2, <1>5, SessionGoesOn

\* CONFIGURE_DUAL sets the receiver to both tuners.
LEMMA ConfigureDualStep ==
  ASSUME NEW b, NEW c, NEW g, SessInv, DevOK(b, dev), CONFIGURE_DUAL(c, g)
  PROVE  Answered(b)
<1>1. PICK o \in configure_dual_radio(dev, g) :
             Answer(c, IF o.status = "OK" THEN AdoptedDual(o.dev) ELSE o.dev, "none")
  BY DEF CONFIGURE_DUAL
<1>2. c \in Clients /\ owner = c /\ UNCHANGED ownership
  BY ServedIsClient DEF CONFIGURE_DUAL
<1>3. DevOK(b, o.dev)
  BY ConfigureDualKeeps
<1>4. Alike(o.dev, AdoptedDual(o.dev))
  BY DEF AdoptedDual, Alike
<1>5. DevOK(b, dev') /\ evict' \in {c, NoClient} /\ loop' = "serve"
  BY <1>1, <1>3, <1>4, AlikeKeeps, AnswerKeeps, ZenonT(30)
<1>6. QED
  BY <1>2, <1>5, SessionGoesOn

\* RESUME_MODE starts the stream that a swap left paused.
LEMMA ResumeStep ==
  ASSUME NEW b, NEW c, SessInv, DevOK(b, dev), RESUME_MODE(c)
  PROVE  Answered(b)
<1> DEFINE ready == [dev EXCEPT !.mode_swap_paused = FALSE]
<1>1. Answer(c, ready, "resume") /\ c \in Clients /\ owner = c /\ UNCHANGED ownership
  BY ServedIsClient DEF RESUME_MODE
<1>2. /\ DevOK(b, ready)
      /\ Orderly => ~ready.stream_thread_started /\ ~ready.mode_swap_paused
  BY DEF RESUME_MODE, DevOK, StreamOK
<1> HIDE DEF ready
<1>3. DevOK(b, dev') /\ evict' \in {c, NoClient} /\ loop' = "serve"
  BY <1>1, <1>2, AnswerKeeps
<1>4. QED
  BY <1>1, <1>3, SessionGoesOn

\* An update that finds the receiver away is remembered.
LEMMA QueuedStep ==
  ASSUME NEW b, NEW c, NEW g \in SingleConfigs, SessInv, DevOK(b, dev), UPDATE_QUEUED(c, g)
  PROVE  Answered(b)
<1> DEFINE kept == [dev EXCEPT !.config = g]
<1>1. Answer(c, kept, "none") /\ c \in Clients /\ owner = c /\ UNCHANGED ownership
  BY ServedIsClient DEF UPDATE_QUEUED
<1>2. DevOK(b, kept)
  BY OneTuner DEF DevOK, StreamOK
<1> HIDE DEF kept
<1>3. DevOK(b, dev') /\ evict' \in {c, NoClient} /\ loop' = "serve"
  BY <1>1, <1>2, AnswerKeeps, SMTT(20)
<1>4. QED
  BY <1>1, <1>3, SessionGoesOn

\* After the stop, the close and the configuration of a swap, a stream that ran is
\* joined; when all three worked it left no failure.
LEMMA SwapSingleFacts ==
  ASSUME NEW b, NEW g, g.tuner # BothTuners, DevOK(b, dev), NEW r \in stop_and_close(dev),
         NEW o \in IF r.status = "OK" THEN configure_radio(r.dev, g) ELSE {r}
  PROVE  /\ DevOK(b, o.dev)
         /\ dev.stream_thread_started /\ Orderly => /\ ~o.dev.stream_thread_started
                                                    /\ ~o.dev.mode_swap_paused
         /\ dev.stream_thread_started /\ Orderly /\ o.status = "OK" => ~o.dev.stream_error
<1>1. /\ DevOK(b, r.dev)
      /\ dev.stream_thread_started /\ Orderly => /\ ~r.dev.stream_thread_started
                                                 /\ ~r.dev.mode_swap_paused
      /\ Orderly /\ dev.stream_thread_started /\ r.status = "OK" => ~r.dev.stream_error
  <2>1. Orderly /\ dev.stream_thread_started => ~dev.mode_swap_paused
    BY Zenon DEF DevOK, StreamOK
  <2>2. QED
    BY <2>1, StopCloseKeeps, Zenon
<1>2. CASE o = r /\ r.status # "OK"
  BY <1>1, <1>2
<1>3. CASE r.status = "OK" /\ o \in configure_radio(r.dev, g)
  BY <1>1, <1>3, ConfigureKeeps DEF SameStream
<1>4. QED
  BY <1>2, <1>3

\* The same for a swap to both tuners.
LEMMA SwapDualFacts ==
  ASSUME NEW b, NEW g, DevOK(b, dev), NEW r \in stop_and_close(dev),
         NEW o \in IF r.status = "OK" THEN configure_dual_radio(r.dev, g) ELSE {r}
  PROVE  /\ DevOK(b, o.dev)
         /\ dev.stream_thread_started /\ Orderly => /\ ~o.dev.stream_thread_started
                                                    /\ ~o.dev.mode_swap_paused
         /\ dev.stream_thread_started /\ Orderly /\ o.status = "OK" => ~o.dev.stream_error
<1>1. /\ DevOK(b, r.dev)
      /\ dev.stream_thread_started /\ Orderly => /\ ~r.dev.stream_thread_started
                                                 /\ ~r.dev.mode_swap_paused
      /\ Orderly /\ dev.stream_thread_started /\ r.status = "OK" => ~r.dev.stream_error
  <2>1. Orderly /\ dev.stream_thread_started => ~dev.mode_swap_paused
    BY Zenon DEF DevOK, StreamOK
  <2>2. QED
    BY <2>1, StopCloseKeeps, Zenon
<1>2. CASE o = r /\ r.status # "OK"
  BY <1>1, <1>2
<1>3. CASE r.status = "OK" /\ o \in configure_dual_radio(r.dev, g)
  BY <1>1, <1>3, ConfigureDualKeeps DEF SameStream
<1>4. QED
  BY <1>2, <1>3

\* SWAP_TUNER leaves a stream that ran paused on the other tuner.
LEMMA SwapTunerStep ==
  ASSUME NEW b, NEW c, NEW g \in SingleConfigs, SessInv, DevOK(b, dev), SWAP_TUNER(c, g)
  PROVE  Answered(b)
<1> DEFINE swapped(s) == [Adopted(s, g) EXCEPT !.mode_swap_paused = dev.stream_thread_started]
           Single(s) == configure_radio(s, g)
<1>1. PICK o \in Then(stop_and_close(dev), Single) :
             Answer(c, IF o.status # "OK" THEN o.dev ELSE swapped(o.dev), "none")
  BY Zenon DEF SWAP_TUNER
<1>2. PICK r \in stop_and_close(dev) :
             o \in IF r.status = "OK" THEN configure_radio(r.dev, g) ELSE {r}
  BY <1>1 DEF Then
<1>3. c \in Clients /\ owner = c /\ UNCHANGED ownership
  BY ServedIsClient DEF SWAP_TUNER
<1>4. /\ DevOK(b, o.dev)
      /\ dev.stream_thread_started /\ Orderly => /\ ~o.dev.stream_thread_started
                                                 /\ ~o.dev.mode_swap_paused
      /\ dev.stream_thread_started /\ Orderly /\ o.status = "OK" => ~o.dev.stream_error
  BY <1>2, OneTuner, SwapSingleFacts
<1>5. o.status = "OK" => DevOK(b, swapped(o.dev))
  BY <1>4, OneTuner DEF Adopted, DevOK, StreamOK
<1> HIDE DEF swapped
<1>6. DevOK(b, dev') /\ evict' \in {c, NoClient} /\ loop' = "serve"
  BY <1>1, <1>4, <1>5, AnswerKeeps, Zenon
<1>7. QED
  BY <1>3, <1>6, SessionGoesOn

\* The end of a mode swap: the new configuration waits for RESUME_MODE, or a session
\* that was streaming is configured and started as it was.
LEMMA SwapEnds ==
  ASSUME NEW b, NEW c \in Clients, SessInv, DevOK(b, dev), UNCHANGED ownership, owner = c,
         NEW o, NEW a, DevOK(b, o.dev),
         o.status = "OK" => DevOK(b, a) /\ SameStream(o.dev, a),
         dev.stream_thread_started /\ Orderly => /\ ~o.dev.stream_thread_started
                                                 /\ ~o.dev.mode_swap_paused,
         dev.stream_thread_started /\ Orderly /\ o.status = "OK" => ~o.dev.stream_error,
         SwapAnswer(c, o, a)
  PROVE  Answered(b)
<1> DEFINE swapped == [a EXCEPT !.configured = TRUE, !.recovery_config_pending = FALSE,
                                !.mode_swap_paused = dev.stream_thread_started]
           back(s) == [s EXCEPT !.configured = TRUE, !.mode_swap_paused = FALSE]
<1> SUFFICES DevOK(b, dev') /\ evict' \in {c, NoClient} /\ loop' = "serve"
  BY SessionGoesOn
<1>1. CASE o.status = "OK"
  <2>1. DevOK(b, swapped)
    BY <1>1 DEF DevOK, StreamOK, SameStream
  <2>2. Answer(c, swapped, "none")
    BY <1>1 DEF SwapAnswer
  <2> HIDE DEF swapped
  <2>3. QED
    BY <2>1, <2>2, AnswerKeeps, Zenon
<1>2. CASE o.status # "OK" /\ ~dev.stream_thread_started
  <2>1. Answer(c, o.dev, "none")
    BY <1>2 DEF SwapAnswer
  <2>2. QED
    BY <2>1, AnswerKeeps, Zenon
<1>3. CASE o.status # "OK" /\ dev.stream_thread_started
  <2>1. PICK r \in IF dev.dual_mode THEN configure_dual_radio(o.dev, dev.dual_config)
                   ELSE configure_radio(o.dev, dev.config) :
               IF r.status # "OK" THEN Answer(c, r.dev, "none")
               ELSE Answer(c, back(r.dev), "resume")
    BY <1>3, Zenon DEF SwapAnswer
  <2>2. DevOK(b, r.dev) /\ SameStream(o.dev, r.dev)
    <3>1. dev.config.tuner # BothTuners
      BY DEF DevOK
    <3>2. QED
      BY <2>1, <3>1, ConfigureKeeps, ConfigureDualKeeps, SMTT(20)
  <2>3. DevOK(b, back(r.dev))
    BY <2>2, SMTT(20) DEF DevOK, StreamOK
  <2>4. Orderly => ~r.dev.stream_thread_started
    BY <1>3, <2>2 DEF SameStream
  <2>5. Orderly => ~back(r.dev).stream_thread_started /\ ~back(r.dev).mode_swap_paused
    BY <2>4
  <2> HIDE DEF back
  <2>6. QED
    BY <2>1, <2>2, <2>3, <2>5, AnswerKeeps, Zenon
<1>4. QED
  BY <1>1, <1>2, <1>3, SMTT(20)

\* SWAP_MODE to one tuner.
LEMMA SwapModeSingleStep ==
  ASSUME NEW b, NEW c, NEW g \in SingleConfigs, SessInv, DevOK(b, dev), SWAP_MODE_SINGLE(c, g)
  PROVE  Answered(b)
<1> DEFINE Single(s) == configure_radio(s, g)
<1>1. PICK o \in Then(stop_and_close(dev), Single) : SwapAnswer(c, o, Adopted(o.dev, g))
  BY Zenon DEF SWAP_MODE_SINGLE, SwapMode, SwapAnswer
<1>2. PICK r \in stop_and_close(dev) :
             o \in IF r.status = "OK" THEN configure_radio(r.dev, g) ELSE {r}
  BY <1>1 DEF Then
<1>3. c \in Clients /\ owner = c /\ UNCHANGED ownership
  BY ServedIsClient, Zenon DEF SWAP_MODE_SINGLE, SwapMode
<1>4. /\ DevOK(b, o.dev)
      /\ dev.stream_thread_started /\ Orderly => /\ ~o.dev.stream_thread_started
                                                 /\ ~o.dev.mode_swap_paused
      /\ dev.stream_thread_started /\ Orderly /\ o.status = "OK" => ~o.dev.stream_error
  BY <1>2, OneTuner, SwapSingleFacts
<1>5. DevOK(b, Adopted(o.dev, g)) /\ SameStream(o.dev, Adopted(o.dev, g))
  BY <1>4, OneTuner DEF Adopted, DevOK, StreamOK, SameStream
<1>6. QED
  BY <1>1, <1>3, <1>4, <1>5, SwapEnds

\* SWAP_MODE to both tuners.
LEMMA SwapModeDualStep ==
  ASSUME NEW b, NEW c, NEW g, SessInv, DevOK(b, dev), SWAP_MODE_DUAL(c, g)
  PROVE  Answered(b)
<1> DEFINE Dual(s) == configure_dual_radio(s, g)
<1>1. PICK o \in Then(stop_and_close(dev), Dual) : SwapAnswer(c, o, AdoptedDual(o.dev))
  BY Zenon DEF SWAP_MODE_DUAL, SwapMode, SwapAnswer
<1>2. PICK r \in stop_and_close(dev) :
             o \in IF r.status = "OK" THEN configure_dual_radio(r.dev, g) ELSE {r}
  BY <1>1 DEF Then
<1>3. c \in Clients /\ owner = c /\ UNCHANGED ownership
  BY ServedIsClient, Zenon DEF SWAP_MODE_DUAL, SwapMode
<1>4. /\ DevOK(b, o.dev)
      /\ dev.stream_thread_started /\ Orderly => /\ ~o.dev.stream_thread_started
                                                 /\ ~o.dev.mode_swap_paused
      /\ dev.stream_thread_started /\ Orderly /\ o.status = "OK" => ~o.dev.stream_error
  BY <1>2, SwapDualFacts
<1>5. Alike(o.dev, AdoptedDual(o.dev))
  BY DEF AdoptedDual, Alike
<1>6. DevOK(b, AdoptedDual(o.dev)) /\ SameStream(o.dev, AdoptedDual(o.dev))
  BY <1>4, <1>5, AlikeKeeps
<1>7. QED
  BY <1>1, <1>3, <1>4, <1>6, SwapEnds

\* UPDATE: in place, or with the stream stopped for a new sample rate; a failure is
\* recorded and the stream cancelled.
LEMMA UpdateStep ==
  ASSUME NEW b, NEW c, NEW g \in SingleConfigs, NEW fs \in BOOLEAN, SessInv, DevOK(b, dev),
         UPDATE(c, g, fs)
  PROVE  Answered(b)
<1> DEFINE restart == dev.stream_thread_started /\ fs /\ g.rate # dev.config.rate
           Apply(s) == apply_update(s, g)
           launch == IF restart THEN "resume" ELSE "none"
           failed(s) == [s EXCEPT !.config = g, !.stream_error = TRUE]
<1>1. PICK o \in IF restart THEN Then(stop_stream(dev), Apply) ELSE Apply(dev) :
             CASE o.status = "OK" -> Answer(c, o.dev, launch) /\ asked' = Asks(g.tuner, g.rf)
               [] o.status = "BAD_REQUEST" -> Answer(c, o.dev, "none") /\ UNCHANGED asked
               [] o.status = "IO_ERROR" -> /\ Answer(c, cancel_async(failed(o.dev)), "none")
                                           /\ asked' = Asks(g.tuner, g.rf)
  BY Zenon DEF UPDATE
<1>2. c \in Clients /\ owner = c /\ UNCHANGED ownership
  BY ServedIsClient DEF UPDATE
<1>3. /\ DevOK(b, o.dev) /\ o.status \in {"OK", "BAD_REQUEST", "IO_ERROR"}
      /\ Orderly /\ restart => ~o.dev.stream_thread_started /\ ~o.dev.mode_swap_paused
      /\ Orderly /\ o.status = "IO_ERROR" => restart
  <2>1. CASE ~restart
    BY <1>1, <2>1, UpdateKeeps
  <2>2. CASE restart
    <3>1. PICK r \in stop_stream(dev) : o \in IF r.status = "OK" THEN Apply(r.dev) ELSE {r}
      BY <1>1, <2>2 DEF Then
    <3>2. /\ DevOK(b, r.dev) /\ r.status \in {"OK", "IO_ERROR"}
          /\ ~r.dev.stream_thread_started /\ r.dev.mode_swap_paused = dev.mode_swap_paused
      BY <2>2, StopKeeps
    <3>3. Orderly => ~dev.mode_swap_paused
      BY <2>2 DEF DevOK, StreamOK
    <3>4. CASE o = r
      BY <2>2, <3>2, <3>3, <3>4
    <3>5. CASE o \in apply_update(r.dev, g)
      BY <2>2, <3>2, <3>3, <3>5, UpdateKeeps DEF SameStream
    <3>6. QED
      BY <3>1, <3>4, <3>5
  <2>3. QED
    BY <2>1, <2>2
<1>4. launch \in {"none", "resume"} /\ (launch = "resume" <=> restart)
  OBVIOUS
<1>5. o.status = "IO_ERROR" => DevOK(b, failed(o.dev))
  BY <1>3, OneTuner DEF DevOK, StreamOK
<1> HIDE DEF launch, restart, failed
<1>6. DevOK(b, dev') /\ evict' \in {c, NoClient} /\ loop' = "serve"
  <2>1. CASE o.status = "OK"
    <3>1. Answer(c, o.dev, launch)
      BY <1>1, <2>1
    <3>2. QED
      BY <1>3, <1>4, <3>1, AnswerKeeps, SMTT(20)
  <2>2. CASE o.status = "BAD_REQUEST"
    <3>1. Answer(c, o.dev, "none")
      BY <1>1, <2>2
    <3>2. QED
      BY <1>3, <3>1, AnswerKeeps
  <2>3. CASE o.status = "IO_ERROR"
    <3>1. Answer(c, cancel_async(failed(o.dev)), "none")
      BY <1>1, <2>3
    <3>2. DevOK(b, cancel_async(failed(o.dev)))
      BY <1>5, <2>3, CancelKeeps, SMTT(20)
    <3>3. QED
      BY <3>1, <3>2, AnswerKeeps
  <2>4. QED
    BY <1>3, <2>1, <2>2, <2>3
<1>7. QED
  BY <1>2, <1>6, SessionGoesOn

\* DUO_ACQUIRE gives a role to a connection while nobody owns the receiver.
LEMMA DuoAcquireStep ==
  ASSUME NEW b, NEW c, NEW role \in Roles, NEW t \in Tuners, NEW rate \in Rates,
         SessInv, DevOK(b, dev), DUO_ACQUIRE(c, role, t, rate)
  PROVE  Answered(b)
<1>1. c \in Clients /\ c \in Connected
  BY ServedIsClient DEF DUO_ACQUIRE
<1>2. DevOK(b, dev') /\ evict' \in {c, NoClient} /\ loop' = "serve"
  BY AnswerKeeps, SMTT(20) DEF DUO_ACQUIRE
<1>3. /\ SessionOK(duo') /\ duo'.master_selected
      /\ {duo'.master_fd, duo'.slave_fd} \subseteq {c, duo.master_fd, duo.slave_fd}
  BY <1>1, AcquireKeeps, SMTT(20) DEF DUO_ACQUIRE, SessInv
<1>4. owner = NoClient /\ owner' = owner /\ duo_active' = TRUE /\ clients' = clients
  BY SMTT(20) DEF DUO_ACQUIRE
<1>5. Connected' = Connected
  BY <1>4, SMTT(20) DEF Connected
<1>6. SessInv' /\ Active'
  BY <1>1, <1>3, <1>4, <1>5 DEF SessInv, SessionsExclusive, Active
<1>7. QED
  BY <1>1, <1>2, <1>6 DEF Answered

\* DUO_CONFIGURE applies the settings of a role in place while a dual stream runs.
LEMMA DuoConfigureStep ==
  ASSUME NEW b, NEW c, NEW g, SessInv, DevOK(b, dev), DUO_CONFIGURE(c, g)
  PROVE  Answered(b)
<1>1. PICK o \in duo_apply_running_config(dev, g) :
             Answer(c, IF o.status = "OK" THEN duo_configured(o.dev, g) ELSE o.dev, "none")
  BY DEF DUO_CONFIGURE
<1>2. c \in Clients /\ duo_active /\ UNCHANGED ownership
  BY ServedIsClient, SMTT(20) DEF DUO_CONFIGURE, HasRole
<1>3. Alike(dev, o.dev)
  <2>1. CASE \E status : o = Out(dev, status)
    BY <2>1, OutFields DEF Alike
  <2>2. CASE \E t, f : o \in SetChannel(dev, t, f)
    BY <2>2, SetChannelFacts
  <2>3. QED
    BY <2>1, <2>2 DEF duo_apply_running_config
<1>4. Alike(o.dev, duo_configured(o.dev, g))
  BY DEF Alike, duo_configured
<1>5. DevOK(b, o.dev) /\ DevOK(b, duo_configured(o.dev, g))
  BY <1>3, <1>4, AlikeKeeps
<1>6. DevOK(b, dev') /\ evict' \in {c, NoClient} /\ loop' = "serve"
  BY <1>1, <1>5, AnswerKeeps
<1>7. QED
  BY <1>2, <1>6, SessionGoesOn

\* DUO_UPDATE changes the tuner of a role in place.
LEMMA DuoUpdateStep ==
  ASSUME NEW b, NEW c, NEW g, SessInv, DevOK(b, dev), DUO_UPDATE(c, g)
  PROVE  Answered(b)
<1>1. PICK o \in apply_update(dev, g) : Answer(c, o.dev, "none")
  BY DEF DUO_UPDATE
<1>2. c \in Clients /\ duo_active /\ UNCHANGED ownership
  BY ServedIsClient DEF DUO_UPDATE, HasRole
<1>3. DevOK(b, dev') /\ evict' \in {c, NoClient} /\ loop' = "serve"
  BY <1>1, UpdateKeeps, AnswerKeeps, Zenon
<1>4. QED
  BY <1>2, <1>3, SessionGoesOn

\* A role that starts or stops keeps every owner.
LEMMA RolesKept ==
  ASSUME NEW b, NEW c \in Clients, SessInv, duo_active, UNCHANGED <<clients, owner, duo_active>>,
         SessionOK(duo'), duo'.master_selected = duo.master_selected,
         duo'.master_fd = duo.master_fd, duo'.slave_fd = duo.slave_fd,
         DevOK(b, dev'), evict' \in {c, NoClient}, loop' = "serve"
  PROVE  Answered(b)
<1>1. Connected' = Connected
  BY DEF Connected
<1>2. SessInv' /\ Active'
  BY <1>1, Zenon DEF SessInv, SessionsExclusive, Active
<1>3. QED
  BY <1>2 DEF Answered

\* The configuration a master/slave stream starts with changes no other state.
LEMMA PrepareAlike ==
  ASSUME NEW s, NEW rate
  PROVE  Alike(s, duo_prepare_config(s, rate))
  BY DEF Alike, duo_prepare_config

\* DUO_START: the master opens the receiver for both tuners and starts the stream, the
\* slave joins it.
LEMMA DuoStartStep ==
  ASSUME NEW b, NEW c, SessInv, DevOK(b, dev), DUO_START(c)
  PROVE  Answered(b)
<1> DEFINE ready == duo_prepare_config(dev, duo.sample_rate_hz)
<1>1. /\ c \in Clients /\ duo_active /\ UNCHANGED <<clients, owner, duo_active>>
      /\ ~Orderly
  BY ServedIsClient DEF DUO_START, HasRole, Serves, Orderly
<1>2. DevOK(b, ready)
  BY PrepareAlike, AlikeKeeps
<1>3. /\ SessionOK(duo') /\ duo'.master_selected = duo.master_selected
      /\ duo'.master_fd = duo.master_fd /\ duo'.slave_fd = duo.slave_fd
  <2>1. duo' = duo \/ duo' = initialise(duo, c).session
    BY DEF DUO_START
  <2>2. SessionOK(duo)
    BY DEF SessInv
  <2>3. QED
    BY <2>1, <2>2, InitialiseKeeps
<1>4. DevOK(b, dev') /\ evict' \in {c, NoClient} /\ loop' = "serve"
  <2>1. CASE descriptor_is_master(duo, c)
    <3>1. PICK o \in configure_dual_radio(ready, ready.duo_config) :
                 Answer(c, o.dev, IF o.status = "OK" THEN "duo" ELSE "none")
      BY <2>1 DEF DUO_START
    <3> HIDE DEF ready
    <3>2. DevOK(b, o.dev)
      BY <1>2, ConfigureDualKeeps
    <3>3. QED
      BY <1>1, <3>1, <3>2, AnswerKeeps, Zenon
  <2>2. CASE ~descriptor_is_master(duo, c)
    <3>1. Answer(c, dev, "none")
      BY <2>2, SMTT(20) DEF DUO_START
    <3>2. QED
      BY <3>1, AnswerKeeps
  <2>3. QED
    BY <2>1, <2>2
<1>5. QED
  BY <1>1, <1>3, <1>4, RolesKept

\* DUO_STOP: the master closes the receiver, the slave leaves it alone.
LEMMA DuoStopStep ==
  ASSUME NEW b, NEW c, SessInv, DevOK(b, dev), DUO_STOP(c)
  PROVE  Answered(b)
<1>1. c \in Clients /\ duo_active /\ UNCHANGED <<clients, owner, duo_active>>
  BY ServedIsClient, SMTT(20) DEF DUO_STOP, HasRole
<1>2. /\ SessionOK(duo') /\ duo'.master_selected = duo.master_selected
      /\ duo'.master_fd = duo.master_fd /\ duo'.slave_fd = duo.slave_fd
  BY InitialiseKeeps DEF DUO_STOP, SessInv
<1>3. PICK o \in IF descriptor_is_master(duo, c) THEN duo_reset_hardware(dev)
                 ELSE {Out(dev, "OK")} : Answer(c, o.dev, "none")
  BY DEF DUO_STOP
<1>4. DevOK(b, o.dev)
  BY <1>3, ResetKeeps, OutFields
<1>5. DevOK(b, dev') /\ evict' \in {c, NoClient} /\ loop' = "serve"
  BY <1>3, <1>4, AnswerKeeps
<1>6. QED
  BY <1>1, <1>2, <1>5, RolesKept, SMTT(20)

\* A role leaves: the end of the master's session closes the receiver, the slave's
\* leaves it alone.  r is the session after it.
LEMMA RoleLeaves ==
  ASSUME NEW b, NEW s, DevOK(b, s), NEW over \in BOOLEAN,
         NEW d \in IF over THEN {duo_forgotten(o.dev) : o \in duo_reset_hardware(s)} ELSE {s}
  PROVE  DevOK(b, d) /\ (over => d.radio = NoTuner) /\ (~over => d = s)
<1>1. CASE over
  <2>1. PICK o \in duo_reset_hardware(s) : d = duo_forgotten(o.dev)
    BY <1>1
  <2>2. QED
    BY <1>1, <2>1, ResetKeeps, ForgottenKeeps
<1>2. CASE ~over
  BY <1>2
<1>3. QED
  BY <1>1, <1>2

\* DUO_RELEASE gives a role back.
LEMMA DuoReleaseStep ==
  ASSUME NEW b, NEW c, SessInv, DevOK(b, dev), DUO_RELEASE(c)
  PROVE  Answered(b)
<1> DEFINE over == ~release(duo, c).session.master_selected
<1>1. /\ c \in Clients /\ duo_active /\ owner' = owner /\ clients' = clients
      /\ release(duo, c).result = "OK" /\ duo' = release(duo, c).session
      /\ duo_active' = ~over
  BY ServedIsClient DEF DUO_RELEASE, HasRole
<1>2. PICK s \in IF over THEN {duo_forgotten(o.dev) : o \in duo_reset_hardware(dev)}
                 ELSE {dev} : Answer(c, s, "none")
  BY SMTT(20) DEF DUO_RELEASE
<1>3. /\ SessionOK(duo')
      /\ duo'.master_fd \in {duo.master_fd, NoClient} /\ duo'.slave_fd \in {duo.slave_fd, NoClient}
  BY <1>1, LeaveKeeps, SMTT(20) DEF SessInv
<1>4. duo'.master_selected \in BOOLEAN
  BY <1>3 DEF SessionOK, Sessions
<1>5. over \in BOOLEAN /\ over = ~duo'.master_selected
  BY <1>1
<1> HIDE DEF over
<1>6. DevOK(b, s) /\ (over => s.radio = NoTuner)
  BY <1>2, <1>5, RoleLeaves, Zenon
<1>7. DevOK(b, dev') /\ evict' \in {c, NoClient} /\ loop' = "serve" /\ dev' = s
  BY <1>2, <1>6, AnswerKeeps DEF Answer
<1>8. Connected' = Connected
  BY <1>1 DEF Connected
<1>9. SessInv'
  BY <1>1, <1>3, <1>4, <1>5, <1>8, Zenon DEF SessInv, SessionsExclusive
<1>10. QED
  BY <1>1, <1>5, <1>6, <1>7, <1>9, ZenonT(30) DEF Answered, Active

\* DUO_SWAP_RATE stops, resets and configures the receiver for the new rate, and on a
\* failure for the old one.
LEMMA DuoSwapRateStep ==
  ASSUME NEW b, NEW c, NEW rate \in Rates, SessInv, DevOK(b, dev), DUO_SWAP_RATE(c, rate)
  PROVE  Answered(b)
<1> DEFINE saved == duo_prepare_config(dev, duo.sample_rate_hz)
           Back(s) == [s EXCEPT !.duo_config = saved.duo_config]
           launch == IF dev.stream_thread_started THEN "duo" ELSE "none"
           Ends(o) ==
             IF o.status # "OK" THEN UNCHANGED duo /\ Answer(c, o.dev, "none")
             ELSE \E p \in duo_reset_hardware(duo_prepare_config(o.dev, rate)) :
               IF p.status # "OK" THEN UNCHANGED duo /\ Answer(c, Back(p.dev), "none")
               ELSE \E q \in configure_dual_radio(p.dev, p.dev.duo_config) :
                 IF q.status = "OK"
                 THEN /\ duo' = [duo EXCEPT !.sample_rate_hz = rate]
                      /\ Answer(c, q.dev, launch)
                 ELSE \E r \in configure_dual_radio(Back(q.dev), saved.duo_config) :
                        UNCHANGED duo /\ Answer(c, r.dev, "none")
           Good == DevOK(b, dev') /\ evict' \in {c, NoClient} /\ loop' = "serve"
           Retuned == duo' = duo \/ duo' = [duo EXCEPT !.sample_rate_hz = rate]
<1>1. c \in Clients /\ duo_active /\ UNCHANGED <<clients, owner, duo_active>>
  BY ServedIsClient DEF DUO_SWAP_RATE, HasRole
<1>2. ASSUME Good, Retuned
      PROVE  Answered(b)
  <2>1. /\ SessionOK(duo') /\ duo'.master_selected = duo.master_selected
        /\ duo'.master_fd = duo.master_fd /\ duo'.slave_fd = duo.slave_fd
    BY <1>2 DEF SessInv, SessionOK, Sessions
  <2>2. QED
    BY <1>1, <1>2, <2>1, RolesKept
<1> SUFFICES Good /\ Retuned
  BY <1>2
<1>3. PICK o \in stop_stream(saved) : Ends(o)
  BY Zenon DEF DUO_SWAP_RATE
<1>4. DevOK(b, saved) /\ SameStream(dev, saved)
  BY PrepareAlike, AlikeKeeps
<1>5. ASSUME NEW s, DevOK(b, s)
      PROVE  DevOK(b, Back(s))
  <2>1. Alike(s, Back(s))
    BY DEF Alike
  <2> HIDE DEF Back
  <2>2. QED
    BY <1>5, <2>1, AlikeKeeps
<1>6. launch \in {"none", "duo"} /\ (launch = "duo" <=> dev.stream_thread_started)
  OBVIOUS
<1> HIDE DEF saved, Back, launch
<1>7. /\ DevOK(b, o.dev)
      /\ dev.stream_thread_started => /\ ~o.dev.stream_thread_started
                                      /\ o.dev.mode_swap_paused = dev.mode_swap_paused
  BY <1>4, StopKeeps DEF SameStream
<1>8. CASE o.status # "OK"
  BY <1>3, <1>7, <1>8, AnswerKeeps
<1>9. CASE o.status = "OK"
  <2> DEFINE next == duo_prepare_config(o.dev, rate)
  <2>1. PICK p \in duo_reset_hardware(next) :
          IF p.status # "OK" THEN UNCHANGED duo /\ Answer(c, Back(p.dev), "none")
          ELSE \E q \in configure_dual_radio(p.dev, p.dev.duo_config) :
                 IF q.status = "OK"
                 THEN /\ duo' = [duo EXCEPT !.sample_rate_hz = rate]
                      /\ Answer(c, q.dev, launch)
                 ELSE \E r \in configure_dual_radio(Back(q.dev), saved.duo_config) :
                        UNCHANGED duo /\ Answer(c, r.dev, "none")
    BY <1>3, <1>9
  <2>2. DevOK(b, next) /\ SameStream(o.dev, next)
    BY <1>7, PrepareAlike, AlikeKeeps, SMTT(20)
  <2> HIDE DEF next
  <2>3. /\ DevOK(b, p.dev)
        /\ dev.stream_thread_started => /\ ~p.dev.stream_thread_started
                                        /\ p.dev.mode_swap_paused = dev.mode_swap_paused
    BY <1>7, <2>2, ResetKeeps DEF SameStream
  <2>4. CASE p.status # "OK"
    BY <1>5, <2>1, <2>3, <2>4, AnswerKeeps, Zenon
  <2>5. CASE p.status = "OK"
    <3>1. PICK q \in configure_dual_radio(p.dev, p.dev.duo_config) :
             IF q.status = "OK"
             THEN duo' = [duo EXCEPT !.sample_rate_hz = rate] /\ Answer(c, q.dev, launch)
             ELSE \E r \in configure_dual_radio(Back(q.dev), saved.duo_config) :
                    UNCHANGED duo /\ Answer(c, r.dev, "none")
      BY <2>1, <2>5
    <3>2. DevOK(b, q.dev) /\ SameStream(p.dev, q.dev)
      BY <2>3, ConfigureDualKeeps
    <3>3. CASE q.status = "OK"
      <4>1. Orderly /\ dev.stream_thread_started => ~dev.mode_swap_paused
        BY SMTT(20) DEF DevOK, StreamOK
      <4>2. launch # "none" /\ Orderly => ~q.dev.stream_thread_started /\ ~q.dev.mode_swap_paused
        BY <1>6, <2>3, <3>2, <4>1 DEF SameStream
      <4>3. Answer(c, q.dev, launch) /\ duo' = [duo EXCEPT !.sample_rate_hz = rate]
        BY <3>1, <3>3, Zenon
      <4>4. launch \in {"none", "start", "duo", "resume"} /\ launch # "start"
        BY <1>6
      <4>5. DevOK(b, dev') /\ evict' \in {c, NoClient} /\ loop' = "serve"
        BY <3>2, <4>2, <4>3, <4>4, AnswerKeeps, Zenon
      <4>6. QED
        BY <4>3, <4>5, ZenonT(30)
    <3>4. CASE q.status # "OK"
      <4>1. PICK r \in configure_dual_radio(Back(q.dev), saved.duo_config) :
                   UNCHANGED duo /\ Answer(c, r.dev, "none")
        BY <3>1, <3>4, SMTT(20)
      <4>2. DevOK(b, r.dev)
        BY <1>5, <3>2, ConfigureDualKeeps
      <4>3. QED
        BY <4>1, <4>2, AnswerKeeps, Zenon
    <3>5. QED
      BY <3>3, <3>4
  <2>6. QED
    BY <2>4, <2>5
<1>10. QED
  BY <1>8, <1>9

\* Every request.
LEMMA RequestStep ==
  ASSUME NEW b, NEW c, SessInv, DevOK(b, dev), Request(c)
  PROVE  Answered(b)
<1>1. CASE ACQUIRE(c) \/ START(c) \/ STOP(c) \/ RELEASE(c) \/ RESUME_MODE(c)
  BY <1>1, AcquireStep, StartStep, StopStep, ReleaseStep, ResumeStep
<1>2. CASE \E g \in SingleConfigs :
             \/ CONFIGURE(c, g) \/ SWAP_TUNER(c, g) \/ SWAP_MODE_SINGLE(c, g)
             \/ UPDATE_QUEUED(c, g) \/ \E fs \in BOOLEAN : UPDATE(c, g, fs)
             \/ DUO_CONFIGURE(c, g) \/ DUO_UPDATE(c, g)
  BY <1>2, ConfigureStep, SwapTunerStep, SwapModeSingleStep, QueuedStep, UpdateStep,
     DuoConfigureStep, DuoUpdateStep
<1>3. CASE \E g \in DualConfigs : CONFIGURE_DUAL(c, g) \/ SWAP_MODE_DUAL(c, g)
  BY <1>3, ConfigureDualStep, SwapModeDualStep
<1>4. CASE \E role \in Roles, t \in Tuners, rate \in Rates : DUO_ACQUIRE(c, role, t, rate)
  BY <1>4, DuoAcquireStep
<1>5. CASE DUO_START(c) \/ DUO_STOP(c) \/ DUO_RELEASE(c)
  BY <1>5, DuoStartStep, DuoStopStep, DuoReleaseStep
<1>6. CASE \E rate \in Rates : DUO_SWAP_RATE(c, rate)
  BY <1>6, DuoSwapRateStep
<1>7. QED
  BY <1>1, <1>2, <1>3, <1>4, <1>5, <1>6 DEF Request
-----------------------------------------------------------------------------
(* The main loop and the stream threads. *)

\* remove_client: the connection goes, and with it its role or its ownership.  s is the
\* receiver it finds.  The loss of a slave leaves the receiver alone.
LEMMA RemoveStep ==
  ASSUME NEW b, NEW c \in Clients, NEW s, SessInv, DevOK(b, s),
         Orderly /\ ~Active => s.radio = NoTuner \/ s.thread.pc = "none",
         RemoveClient(c, s)
  PROVE  /\ DevOK(b, dev') /\ SessInv' /\ IdleInv'
         /\ clients' = Without(c)
         /\ duo.slave_selected /\ duo.slave_fd = c => dev' = s
<1> DEFINE r == disconnect(duo, c).session
           over == ~r.master_selected
<1>1. /\ clients' = Without(c)
      /\ \A d : d \in Connected /\ d # c => d \in Connected'
      /\ clients' \in [1..MaxClients -> Clients \union {NoClient}]
  BY DEF RemoveClient, Without, Connected, SessInv
<1>2. /\ SessionOK(duo) /\ SessionsExclusive /\ c # NoClient
      /\ owner \in Clients \union {NoClient} /\ duo_active \in BOOLEAN
  BY NoClientAssumption DEF SessInv
<1>3. CASE duo_active /\ role_for_descriptor(duo, c) # "none"
  <2>1. /\ duo' = r /\ duo_active' = ~over /\ owner' = owner
        /\ dev' \in IF over THEN {duo_forgotten(o.dev) : o \in duo_reset_hardware(s)} ELSE {s}
    BY <1>3, SMTT(20) DEF RemoveClient
  <2>2. /\ SessionOK(r)
        /\ r.master_fd \in {duo.master_fd, NoClient} /\ r.slave_fd \in {duo.slave_fd, NoClient}
        /\ c \notin {r.master_fd, r.slave_fd}
    BY <1>2, LeaveKeeps
  <2>3. duo.slave_selected /\ duo.slave_fd = c => r.master_selected
    <3>1. ASSUME duo.slave_selected, duo.slave_fd = c
          PROVE  r = slave_cleared(duo) /\ duo.master_selected
      BY <1>2, <3>1 DEF SessionOK, disconnect, descriptor_is_slave, Done
    <3>2. slave_cleared(duo).master_selected = duo.master_selected
      BY <1>2, SMTT(20) DEF SessionOK, Sessions, slave_cleared
    <3>3. QED
      BY <3>1, <3>2, SMTT(20)
  <2>4. r.master_selected \in BOOLEAN /\ over \in BOOLEAN
    BY <2>2 DEF SessionOK, Sessions
  <2> HIDE DEF r
  <2>5. /\ DevOK(b, dev') /\ (over => dev'.radio = NoTuner) /\ (~over => dev' = s)
    BY <2>1, <2>4, RoleLeaves, Zenon
  <2>6. owner = NoClient
    BY <1>2, <1>3, SMTT(20) DEF SessionsExclusive
  <2>7. SessInv'
    BY <1>1, <1>2, <2>1, <2>2, <2>4, <2>6, SMTT(20) DEF SessInv, SessionsExclusive
  <2>8. IdleInv'
    BY <2>1, <2>4, <2>5, SMTT(20) DEF IdleInv, Active
  <2>9. QED
    BY <1>1, <2>3, <2>5, <2>7, <2>8, SMTT(20)
<1>4. CASE ~(duo_active /\ role_for_descriptor(duo, c) # "none")
  <2>1. /\ duo' = duo /\ duo_active' = duo_active
        /\ IF owner = c THEN owner' = NoClient /\ dev' \in release_owner(s)
           ELSE dev' = s /\ owner' = owner
    BY <1>4, SMTT(20) DEF RemoveClient
  <2>2. c # duo.master_fd /\ c # duo.slave_fd
    BY <1>2, <1>4 DEF SessionOK, SessionsExclusive, role_for_descriptor, descriptor_is_master,
                      descriptor_is_slave
  <2>3. DevOK(b, dev') /\ IdleInv'
    <3>1. CASE owner = c
      BY <2>1, <3>1, ReleaseKeeps, SMTT(20) DEF IdleInv
    <3>2. CASE owner # c
      BY <2>1, <3>2, SMTT(20) DEF IdleInv, Active
    <3>3. QED
      BY <3>1, <3>2
  <2>4. SessInv'
    BY <1>1, <1>2, <2>1, <2>2 DEF SessInv, SessionsExclusive
  <2>5. QED
    BY <1>1, <2>2, <2>3, <2>4, SMTT(20)
<1>5. QED
  BY <1>3, <1>4

\* A connection belongs to a client.
LEMMA ConnectedAreClients ==
  ASSUME SessInv
  PROVE  Connected \subseteq Clients
  BY DEF SessInv, Connected

\* The slave is connected, so its slot is cleared only by its own removal.
LEMMA SlaveSlot ==
  ASSUME SessInv, duo.slave_selected
  PROVE  /\ clients # Without(duo.slave_fd)
         /\ \A c \in Clients : Without(c) = Without(duo.slave_fd) => c = duo.slave_fd
         /\ \A i \in 1..MaxClients : \A c :
              clients[i] = NoClient => [clients EXCEPT ![i] = c] # Without(duo.slave_fd)
<1>1. PICK k \in 1..MaxClients : clients[k] = duo.slave_fd /\ clients[k] # NoClient
  BY DEF SessInv, SessionOK, SessionsExclusive, Connected
<1>2. Without(duo.slave_fd)[k] = NoClient
  BY <1>1 DEF Without
<1>3. \A c \in Clients : Without(c)[k] = NoClient => c = duo.slave_fd
  BY <1>1 DEF Without
<1>4. \A i \in 1..MaxClients : \A c :
        clients[i] = NoClient => [clients EXCEPT ![i] = c][k] = duo.slave_fd
  BY <1>1 DEF SessInv
<1>5. QED
  BY <1>1, <1>2, <1>3, <1>4, ZenonT(30)

\* The eviction of a client whose samples could not be written.
LEMMA EvictStep ==
  ASSUME NEW b, SessInv, DevOK(b, dev), IdleInv, EvictWriter
  PROVE  /\ DevOK(b, dev') /\ SessInv' /\ IdleInv'
         /\ duo.slave_selected /\ clients' = Without(duo.slave_fd)
              => dev'.thread = dev.thread /\ dev'.hw = dev.hw
<1> DEFINE cleared == [dev EXCEPT !.client_write_error = FALSE, !.client_write_error_fd = NoClient]
<1>1. \/ \E c \in Connected : RemoveClient(c, cleared)
      \/ dev' = cleared /\ UNCHANGED ownership
  BY DEF EvictWriter, Connected
<1>2. Alike(dev, cleared) /\ cleared.hw = dev.hw
  BY DEF Alike
<1> HIDE DEF cleared
<1>3. /\ DevOK(b, cleared)
      /\ Orderly /\ ~Active => cleared.radio = NoTuner \/ cleared.thread.pc = "none"
  BY <1>2, AlikeKeeps, SMTT(20) DEF IdleInv, Alike
<1>4. CASE \E c \in Connected : RemoveClient(c, cleared)
  <2>1. PICK c \in Clients : RemoveClient(c, cleared)
    BY <1>4, ConnectedAreClients, SMTT(20)
  <2>2. /\ DevOK(b, dev') /\ SessInv' /\ IdleInv'
        /\ clients' = Without(c)
        /\ duo.slave_selected /\ duo.slave_fd = c => dev' = cleared
    BY <1>3, <2>1, RemoveStep, SMTT(20)
  <2>3. QED
    BY <1>2, <2>2, SlaveSlot DEF Alike
<1>5. CASE dev' = cleared /\ UNCHANGED ownership
  <2>1. SessInv' /\ Active' = Active
    BY <1>5, SameOwners
  <2>2. IdleInv'
    BY <1>3, <1>5, <2>1, SMTT(20) DEF IdleInv
  <2>3. QED
    BY <1>2, <1>3, <1>5, <2>1, <2>2 DEF Alike
<1>6. QED
  BY <1>1, <1>4, <1>5

\* One step of the main thread, whatever it does.
LEMMA MainStep ==
  ASSUME NEW b, SessInv, DevOK(b, dev), LoopInv, IdleInv, Main
  PROVE  DevOK(b, dev') /\ SessInv' /\ LoopInv' /\ IdleInv' /\ StreamKept
<1>1. ASSUME NEW c \in Clients, Request(c)
      PROVE  DevOK(b, dev') /\ SessInv' /\ LoopInv' /\ IdleInv' /\ StreamKept
  <2>1. Answered(b)
    BY <1>1, RequestStep
  <2>2. clients' = clients
    BY <1>1, ZenonT(30) DEF Request, ACQUIRE, START, STOP, RELEASE, RESUME_MODE, CONFIGURE,
       SWAP_TUNER, SWAP_MODE_SINGLE, SWAP_MODE_DUAL, SwapMode, UPDATE_QUEUED, UPDATE, DUO_CONFIGURE,
       DUO_UPDATE, CONFIGURE_DUAL, DUO_ACQUIRE, DUO_START, DUO_STOP, DUO_RELEASE,
       DUO_SWAP_RATE, ownership
  <2>3. StreamKept
    BY <2>2, SlaveSlot DEF StreamKept
  <2>4. QED
    BY <2>1, <2>3 DEF Answered, LoopInv, IdleInv
<1>2. ASSUME NEW c \in Clients, Accept(c)
      PROVE  DevOK(b, dev') /\ SessInv' /\ LoopInv' /\ IdleInv' /\ StreamKept
  <2>1. PICK i \in 1..MaxClients : clients[i] = NoClient /\ clients' = [clients EXCEPT ![i] = c]
    BY <1>2, Zenon DEF Accept
  <2>2. UNCHANGED <<owner, duo, duo_active, dev, evict, loop>> /\ loop = "accept"
    BY <1>2 DEF Accept
  <2>3. Connected \subseteq Connected'
    BY <2>1, SMTT(20) DEF SessInv, Connected
  <2>4. SessInv'
    BY <2>1, <2>2, <2>3, SMTT(20) DEF SessInv, SessionsExclusive, SessionOK
  <2>5. StreamKept
    BY <2>1, SlaveSlot, SMTT(20) DEF StreamKept
  <2>6. LoopInv' /\ IdleInv'
    BY <2>2 DEF LoopInv, IdleInv, Active
  <2>7. QED
    BY <2>2, <2>4, <2>5, <2>6
<1>3. ASSUME NEW c \in Clients, RemoveClient(c, dev)
      PROVE  DevOK(b, dev') /\ SessInv' /\ IdleInv' /\ StreamKept
  <2>1. /\ DevOK(b, dev') /\ SessInv' /\ IdleInv'
        /\ clients' = Without(c)
        /\ duo.slave_selected /\ duo.slave_fd = c => dev' = dev
    BY <1>3, RemoveStep DEF IdleInv
  <2>2. QED
    BY <2>1, SlaveSlot, SMTT(20) DEF StreamKept
<1>4. ASSUME NEW c \in Clients, Hangup(c) \/ CloseClient(c)
      PROVE  DevOK(b, dev') /\ SessInv' /\ LoopInv' /\ IdleInv' /\ StreamKept
  <2>1. RemoveClient(c, dev) /\ evict' = evict /\ evict = NoClient /\ loop' # "ended"
    BY <1>4 DEF Hangup, CloseClient, LoopInv
  <2>2. LoopInv'
    BY <2>1 DEF LoopInv
  <2>3. QED
    BY <1>3, <2>1, <2>2
<1>5. ASSUME RemoveFailed
      PROVE  DevOK(b, dev') /\ SessInv' /\ LoopInv' /\ IdleInv' /\ StreamKept
  <2>1. /\ RemoveClient(evict, dev) /\ evict \in Clients /\ evict' = NoClient
        /\ loop' = "serve"
    BY <1>5 DEF RemoveFailed, LoopInv
  <2>2. LoopInv'
    BY <2>1 DEF LoopInv
  <2>3. QED
    BY <1>3, <2>1, <2>2
<1>6. ASSUME EvictWriter
      PROVE  DevOK(b, dev') /\ SessInv' /\ LoopInv' /\ IdleInv' /\ StreamKept
  <2>1. UNCHANGED <<evict, loop>> /\ loop = "top"
    BY <1>6 DEF EvictWriter
  <2>2. LoopInv'
    BY <2>1 DEF LoopInv
  <2>3. QED
    BY <1>6, <2>2, EvictStep DEF StreamKept
<1>7. ASSUME Recover
      PROVE  DevOK(b, dev') /\ SessInv' /\ LoopInv' /\ IdleInv' /\ StreamKept
  <2> DEFINE active == owner # NoClient \/ (duo_active /\ duo.master_selected)
  <2>1. PICK s \in recover_failed_stream(dev, active) : dev' \in finish_recovery_config(s)
    BY <1>7 DEF Recover
  <2>2. UNCHANGED ownership /\ UNCHANGED evict /\ loop = "top" /\ loop' = "accept"
    BY <1>7 DEF Recover
  <2>3. active \in BOOLEAN /\ active = Active
    BY DEF SessInv, SessionsExclusive, Active
  <2> HIDE DEF active
  <2>4. DevOK(b, s) /\ (~active => s = dev \/ s.radio = NoTuner)
    BY <2>3, RecoverKeeps
  <2>5. /\ DevOK(b, dev') /\ dev'.radio = s.radio
        /\ dev'.thread.pc = "none" <=> s.thread.pc = "none"
    BY <2>1, <2>4, FinishKeeps
  <2>6. SessInv' /\ Active' = Active
    BY <2>2, SameOwners, SMTT(20)
  <2>7. IdleInv'
    BY <2>3, <2>4, <2>5, <2>6, SMTT(20) DEF IdleInv
  <2>8. LoopInv' /\ StreamKept
    BY <2>2, SlaveSlot, SMTT(20) DEF LoopInv, StreamKept, ownership
  <2>9. QED
    BY <2>5, <2>6, <2>7, <2>8
<1>8. ASSUME NextRound
      PROVE  DevOK(b, dev') /\ SessInv' /\ LoopInv' /\ IdleInv' /\ StreamKept
  <2>1. /\ UNCHANGED ownership /\ UNCHANGED dev /\ UNCHANGED evict /\ evict = NoClient
        /\ loop' = "top"
    BY <1>8 DEF NextRound
  <2>2. SessInv' /\ Active' = Active
    BY <2>1, SameOwners, SMTT(20)
  <2>3. QED
    BY <2>1, <2>2, SlaveSlot DEF LoopInv, IdleInv, StreamKept, ownership
<1>9. ASSUME Shutdown
      PROVE  DevOK(b, dev') /\ SessInv' /\ LoopInv' /\ IdleInv' /\ StreamKept
  <2> DEFINE cleared(d) == [d EXCEPT !.stream_error = FALSE, !.stream_result = 0]
  <2>1. UNCHANGED <<clients, duo, duo_active, evict>> /\ Connected = {}
        /\ loop = "top" /\ loop' = "ended" /\ owner' \in {owner, NoClient}
    BY <1>9, Zenon DEF Shutdown
  <2>2. owner = NoClient /\ ~duo_active
    BY <2>1 DEF SessInv, SessionOK, SessionsExclusive
  <2>3. SessInv' /\ ~Active'
    BY <2>1, <2>2 DEF SessInv, SessionOK, SessionsExclusive, Connected, Active
  <2>4. DevOK(b, dev') /\ dev'.radio = NoTuner
    <3>1. CASE dev.radio = NoTuner
      BY <1>9, <3>1 DEF Shutdown
    <3>2. CASE dev.radio # NoTuner
      <4>1. PICK d \in UNION {Closed(t) : t \in Stopped(dev)} : dev' = cleared(d)
        BY <1>9, <3>2, ZenonT(30) DEF Shutdown
      <4>2. DevOK(b, d) /\ d.radio = NoTuner
        BY StoppedKeeps, ClosedKeeps
      <4>3. DevOK(b, cleared(d)) /\ cleared(d).radio = NoTuner
        BY <4>2 DEF DevOK, StreamOK
      <4>4. QED
        BY <4>1, <4>3
    <3>3. QED
      BY <3>1, <3>2
  <2>5. LoopInv' /\ IdleInv'
    BY <2>1, <2>3, <2>4, SMTT(20) DEF LoopInv, IdleInv
  <2>6. QED
    BY <2>1, <2>3, <2>4, <2>5, SlaveSlot DEF StreamKept
<1>10. QED
  BY <1>1, <1>2, <1>4, <1>5, <1>6, <1>7, <1>8, <1>9, SMTT(20) DEF Main

\* A step of the thread in state->stream_thread.
LEMMA KnownMoves ==
  ASSUME \/ EnterStream("thread") \/ FirstIQ("thread") \/ WriteFails("thread")
         \/ ReportWriter("thread") \/ StreamFails("thread") \/ StoreStreaming("thread")
         \/ StoreResult("thread")
  PROVE  Moved(dev.thread, dev'.thread, "thread") /\ dev'.stray = dev.stray
<1>1. CASE EnterStream("thread")
  <2> DEFINE runs == [dev.thread EXCEPT !.pc = "run"]
  <2>1. runs.pc = "run"
    BY <1>1 DEF EnterStream
  <2>2. CASE dev.radio # NoTuner /\ dev' = [dev EXCEPT !.thread = runs]
    <3> HIDE DEF runs
    <3>1. QED
      BY <1>1, <2>1, <2>2 DEF EnterStream, Moved
  <2>3. CASE dev' = [dev EXCEPT !.thread = At("leave", 1)]
    BY <1>1, <2>3 DEF EnterStream, Moved, At
  <2>4. QED
    BY <1>1, <2>2, <2>3 DEF EnterStream
<1>2. CASE FirstIQ("thread")
  BY <1>2 DEF FirstIQ, Moved
<1>3. CASE WriteFails("thread")
  <2> dev.thread.pc = "run"
    BY <1>3, Zenon DEF WriteFails
  <2>1. CASE \E target : dev' = [dev EXCEPT !.client_write_error = TRUE,
                               !.thread = [pc |-> "report", ret |-> 0, to |-> target]]
    BY <2>1 DEF Moved
  <2>2. CASE dev' = [dev EXCEPT !.thread = At("leave", 0)]
    BY <2>2 DEF Moved, At
  <2>3. QED
    BY <1>3, <2>1, <2>2, Zenon DEF WriteFails
<1>4. CASE ReportWriter("thread")
  <2> dev.thread.pc \in {"report", "report_end"}
    BY <1>4 DEF ReportWriter, Reporting
  <2>1. CASE \E target : dev' = [dev EXCEPT !.client_write_error_fd = target,
                                           !.thread = At("leave", 0)]
    BY <2>1 DEF Moved, At
  <2>2. CASE /\ dev.thread.pc = "report"
             /\ \E target : dev' = [dev EXCEPT !.client_write_error_fd = target,
                                               !.thread = At("run", 0)]
    BY <2>2 DEF Moved, At
  <2>3. QED
    BY <1>4, <2>1, <2>2, Zenon DEF ReportWriter, Reporting
<1>5. CASE StreamFails("thread")
  <2> dev.thread.pc = "run"
    BY <1>5, Zenon DEF StreamFails
  <2>1. CASE dev' = [dev EXCEPT !.thread = At("leave", 1)]
    BY <2>1 DEF Moved, At
  <2>2. CASE dev' = [dev EXCEPT !.thread = At("leave", 1), !.stuck = TRUE]
    BY <2>2 DEF Moved, At
  <2>3. QED
    BY <1>5, <2>1, <2>2, Zenon DEF StreamFails
<1>6. CASE StoreStreaming("thread")
  <2> dev.thread.pc \in {"leave", "cut"}
    BY <1>6, Zenon DEF StoreStreaming
  <2> DEFINE stores == [dev.thread EXCEPT !.pc = "store"]
  <2>1. stores.pc = "store"
    OBVIOUS
  <2>2. dev' = [dev EXCEPT !.thread = stores, !.streaming = FALSE]
    BY <1>6, Zenon DEF StoreStreaming
  <2> HIDE DEF stores
  <2>3. QED
    BY <2>1, <2>2 DEF Moved
<1>7. CASE StoreResult("thread")
  <2> DEFINE after == [dev EXCEPT !.stream_result = dev.thread.ret,
                                  !.stream_error = (dev.thread.ret = 1)]
  <2>1. dev.thread.pc = "store" /\ dev' = [after EXCEPT !.thread = At("done", 0)]
    BY <1>7, ZenonT(30) DEF StoreResult
  <2>2. QED
    BY <2>1 DEF Moved, At
<1>8. QED
  BY <1>1, <1>2, <1>3, <1>4, <1>5, <1>6, <1>7, SMTT(20)

\* A step of a thread that was overwritten there.
LEMMA StrayMoves ==
  ASSUME \/ EnterStream("stray") \/ FirstIQ("stray") \/ WriteFails("stray")
         \/ ReportWriter("stray") \/ StreamFails("stray") \/ StoreStreaming("stray")
         \/ StoreResult("stray")
  PROVE  Moved(dev.stray, dev'.stray, "stray") /\ dev'.thread = dev.thread
<1>1. CASE EnterStream("stray")
  <2> DEFINE runs == [dev.stray EXCEPT !.pc = "run"]
  <2>1. runs.pc = "run"
    BY <1>1 DEF EnterStream
  <2>2. CASE dev.radio # NoTuner /\ dev' = [dev EXCEPT !.stray = runs]
    <3> HIDE DEF runs
    <3>1. QED
      BY <1>1, <2>1, <2>2 DEF EnterStream, Moved
  <2>3. CASE dev' = [dev EXCEPT !.stray = At("leave", 1)]
    BY <1>1, <2>3 DEF EnterStream, Moved, At
  <2>4. QED
    BY <1>1, <2>2, <2>3 DEF EnterStream
<1>2. CASE FirstIQ("stray")
  BY <1>2 DEF FirstIQ, Moved
<1>3. CASE WriteFails("stray")
  <2> dev.stray.pc = "run"
    BY <1>3, Zenon DEF WriteFails
  <2>1. CASE \E target : dev' = [dev EXCEPT !.client_write_error = TRUE,
                               !.stray = [pc |-> "report", ret |-> 0, to |-> target]]
    BY <2>1 DEF Moved
  <2>2. CASE dev' = [dev EXCEPT !.stray = At("leave", 0)]
    BY <2>2 DEF Moved, At
  <2>3. QED
    BY <1>3, <2>1, <2>2, Zenon DEF WriteFails
<1>4. CASE ReportWriter("stray")
  <2> dev.stray.pc \in {"report", "report_end"}
    BY <1>4 DEF ReportWriter, Reporting
  <2>1. CASE \E target : dev' = [dev EXCEPT !.client_write_error_fd = target,
                                           !.stray = At("leave", 0)]
    BY <2>1 DEF Moved, At
  <2>2. CASE /\ dev.stray.pc = "report"
             /\ \E target : dev' = [dev EXCEPT !.client_write_error_fd = target,
                                               !.stray = At("run", 0)]
    BY <2>2 DEF Moved, At
  <2>3. QED
    BY <1>4, <2>1, <2>2, Zenon DEF ReportWriter, Reporting
<1>5. CASE StreamFails("stray")
  <2> dev.stray.pc = "run"
    BY <1>5, Zenon DEF StreamFails
  <2>1. CASE dev' = [dev EXCEPT !.stray = At("leave", 1)]
    BY <2>1 DEF Moved, At
  <2>2. CASE dev' = [dev EXCEPT !.stray = At("leave", 1), !.stuck = TRUE]
    BY <2>2 DEF Moved, At
  <2>3. QED
    BY <1>5, <2>1, <2>2, Zenon DEF StreamFails
<1>6. CASE StoreStreaming("stray")
  <2> dev.stray.pc \in {"leave", "cut"}
    BY <1>6, Zenon DEF StoreStreaming
  <2> DEFINE stores == [dev.stray EXCEPT !.pc = "store"]
  <2>1. stores.pc = "store"
    OBVIOUS
  <2>2. dev' = [dev EXCEPT !.stray = stores, !.streaming = FALSE]
    BY <1>6, Zenon DEF StoreStreaming
  <2> HIDE DEF stores
  <2>3. QED
    BY <2>1, <2>2 DEF Moved
<1>7. CASE StoreResult("stray")
  <2> DEFINE after == [dev EXCEPT !.stream_result = dev.stray.ret,
                                  !.stream_error = (dev.stray.ret = 1)]
  <2>1. dev.stray.pc = "store" /\ dev' = [after EXCEPT !.stray = NoThread]
    BY <1>7, Zenon DEF StoreResult
  <2>2. QED
    BY <2>1 DEF Moved, At, NoThread
<1>8. QED
  BY <1>1, <1>2, <1>3, <1>4, <1>5, <1>6, <1>7

\* A step of a stream thread keeps the invariant of the receiver; in an orderly daemon
\* it is a step of the thread that main knows of.
LEMMA ThreadStep ==
  ASSUME DevOK(FALSE, dev), StreamThread
  PROVE  /\ DevOK(FALSE, dev') /\ dev'.radio = dev.radio
         /\ Orderly => dev.thread.pc # "none"
         /\ UNCHANGED <<clients, owner, duo, duo_active, evict, loop>>
<1>1. UNCHANGED <<clients, owner, duo, duo_active, evict, loop>>
  BY ZenonT(30) DEF StreamThread, EnterStream, FirstIQ, WriteFails, ReportWriter, StreamFails,
         StoreStreaming, StoreResult, ownership
<1>2. \/ Moved(dev.thread, dev'.thread, "thread") /\ dev'.stray = dev.stray
      \/ Moved(dev.stray, dev'.stray, "stray") /\ dev'.thread = dev.thread
  BY KnownMoves, StrayMoves DEF StreamThread, Slots
<1>3. CASE Moved(dev.thread, dev'.thread, "thread") /\ dev'.stray = dev.stray
  BY <1>1, <1>3, ZenonT(30) DEF Moved, DevOK, StreamOK
<1>4. CASE Moved(dev.stray, dev'.stray, "stray") /\ dev'.thread = dev.thread
  BY <1>1, <1>4 DEF Moved, DevOK, StreamOK
<1>5. QED
  BY <1>2, <1>3, <1>4, Zenon

\* The daemon starts with no connection, no session and no handle.
LEMMA InitHolds == Init => IInv
<1> SUFFICES ASSUME Init PROVE IInv
  OBVIOUS
<1>1. SessInv
  BY ZenonT(30) DEF Init, SessInv, SessionOK, Sessions, SessionsExclusive, Connected, session_init
<1>2. DevOK(FALSE, dev)
  <2>1. dev = NewDevice
    BY ZenonT(30) DEF Init
  <2>2. /\ NewDevice.radio = NoTuner /\ NewDevice.thread = NoThread
        /\ NewDevice.stray = NoThread /\ NewDevice.stream_thread_started = FALSE
        /\ NewDevice.mode_swap_paused = FALSE /\ NewDevice.config = NoConfig
        /\ NewDevice.bootstrap_config = NoConfig
    BY DEF NewDevice
  <2>3. NoConfig.tuner # BothTuners
    BY DEF NoConfig, BothTuners, NoTuner
  <2>4. NoThread.pc = "none"
    BY SMTT(20) DEF NoThread, At
  <2>5. QED
    BY <2>1, <2>2, <2>3, <2>4 DEF DevOK, StreamOK
<1>3. LoopInv /\ IdleInv
  BY DEF Init, LoopInv, IdleInv, NewDevice
<1>4. QED
  BY <1>1, <1>2, <1>3, Zenon DEF IInv

\* Every step of the daemon keeps the inductive invariant.
LEMMA StepHolds == IInv /\ [Next]_vars => IInv'
<1> SUFFICES ASSUME IInv, [Next]_vars PROVE IInv'
  OBVIOUS
<1> USE DEF IInv
<1>1. CASE Main
  BY <1>1, MainStep, Zenon
<1>2. CASE StreamThread
  <2>1. /\ DevOK(FALSE, dev') /\ dev'.radio = dev.radio
        /\ Orderly => dev.thread.pc # "none"
        /\ UNCHANGED <<clients, owner, duo, duo_active, evict, loop>>
    BY <1>2, ThreadStep, ZenonT(30)
  <2>2. SessInv' /\ Active' = Active
    BY <2>1, SameOwners, SMTT(20) DEF ownership
  <2>3. LoopInv' /\ IdleInv'
    BY <2>1, <2>2 DEF LoopInv, IdleInv
  <2>4. QED
    BY <2>1, <2>2, <2>3, Zenon
<1>3. CASE StopSignal
  <2>1. /\ UNCHANGED <<clients, owner, duo, duo_active, evict, loop>>
        /\ dev' = [dev EXCEPT !.running = FALSE]
    BY <1>3 DEF StopSignal, ownership
  <2>2. SessInv' /\ Active' = Active
    BY <2>1, SameOwners DEF ownership
  <2>3. Alike(dev, dev')
    BY <2>1 DEF Alike
  <2>4. DevOK(FALSE, dev')
    BY <2>3, AlikeKeeps, Zenon
  <2>5. LoopInv' /\ IdleInv'
    BY <2>1, <2>2, <2>3 DEF LoopInv, IdleInv, Alike
  <2>6. QED
    BY <2>2, <2>4, <2>5, Zenon
<1>4. CASE UNCHANGED vars
  <2>1. UNCHANGED ownership /\ UNCHANGED <<dev, evict, loop>>
    BY <1>4 DEF vars, ownership
  <2>2. SessInv' /\ Active' = Active
    BY <2>1, SameOwners
  <2>3. QED
    BY <2>1, <2>2, Zenon DEF LoopInv, IdleInv
<1>5. QED
  BY <1>1, <1>2, <1>3, <1>4, Zenon DEF Next

\* The inductive invariant holds in every state of the daemon.
THEOREM Inductive == Spec => []IInv
<1>1. QED
  BY InitHolds, StepHolds, PTL DEF Spec

\* Whoever has the receiver is connected, in one kind of session.
THEOREM Exclusive == Spec => []SessionsExclusive
<1>1. IInv => SessionsExclusive
  BY DEF IInv, SessInv
<1>2. QED
  BY <1>1, Inductive, PTL

\* dual_mode is the mode of the open handle.
THEOREM ModeOfHandle == Spec => []ModeMatchesHandle
<1>1. IInv => ModeMatchesHandle
  BY DEF IInv, DevOK, ModeMatchesHandle
<1>2. QED
  BY <1>1, Inductive, PTL

\* The daemon ends with the handle closed, nobody having it and no thread reading.
THEOREM EndIsClosed == Spec => []EndsClosed
<1>1. IInv => EndsClosed
  <2> SUFFICES ASSUME IInv, loop = "ended"
               PROVE  /\ dev.radio = NoTuner /\ ~Active
                      /\ \A x \in Slots : dev[x].pc \notin {"run", "report"}
    BY DEF EndsClosed
  <2>1. dev.radio = NoTuner /\ ~Active
    BY SMTT(20) DEF IInv, LoopInv
  <2>2. dev.thread.pc \notin {"run", "report"} /\ dev.stray.pc \notin {"run", "report"}
    BY <2>1 DEF IInv, DevOK, StreamOK
  <2>3. QED
    BY <2>1, <2>2 DEF Slots
<1>2. QED
  BY <1>1, Inductive, PTL

\* In an orderly daemon no thread is overwritten, and the only one reads for a client.
THEOREM StreamForClient == ASSUME Orderly PROVE Spec => []StreamHasClient
<1>1. IInv => StreamHasClient
  BY SMTT(20) DEF IInv, IdleInv, DevOK, StreamOK, StreamHasClient
<1>2. QED
  BY <1>1, Inductive, PTL

\* In an orderly daemon no samples are read between a swap and its resume request.
THEOREM PauseIsQuiet == ASSUME Orderly PROVE Spec => []PausedIsQuiet
<1>1. IInv => PausedIsQuiet
  BY DEF IInv, DevOK, StreamOK, PausedIsQuiet, Cancellable
<1>2. QED
  BY <1>1, Inductive, PTL

\* A stream thread that reports the slave goes on, and every other of its steps is not
\* taken from there.
LEMMA SlaveReport ==
  ASSUME SessInv, StreamThread, duo.slave_selected,
         dev.thread.pc = "report", dev.thread.to = duo.slave_fd
  PROVE  dev'.thread.pc # "leave"
<1>1. duo_active /\ role_for_descriptor(duo, duo.slave_fd) = "slave"
  BY DEF SessInv, SessionOK, SessionsExclusive, role_for_descriptor, descriptor_is_master,
         descriptor_is_slave
<1>2. CASE \E x \in Slots : x = "thread" /\ ReportWriter(x)
  <2>1. dev' = [dev EXCEPT !.client_write_error_fd = dev.thread.to, !.thread = At("run", 0)]
    BY <1>1, <1>2, ZenonT(30) DEF ReportWriter, write_failure_stops_stream
  <2>2. QED
    BY <2>1 DEF At
<1>3. CASE \/ EnterStream("stray") \/ FirstIQ("stray") \/ WriteFails("stray")
           \/ ReportWriter("stray") \/ StreamFails("stray") \/ StoreStreaming("stray")
           \/ StoreResult("stray")
  BY <1>3, StrayMoves
<1>4. CASE \/ EnterStream("thread") \/ FirstIQ("thread") \/ WriteFails("thread")
           \/ StreamFails("thread") \/ StoreStreaming("thread") \/ StoreResult("thread")
  BY <1>4, Zenon DEF EnterStream, FirstIQ, WriteFails, StreamFails, StoreStreaming, StoreResult
<1>5. QED
  BY <1>2, <1>3, <1>4 DEF StreamThread, Slots

\* The loss of the slave, and a failed write to it, leave the master's stream alone.
THEOREM SlaveLossHarmless == Spec => SlaveLossKeepsStream
<1> DEFINE Kept == duo.slave_selected =>
      /\ clients' = Without(duo.slave_fd) => dev'.thread = dev.thread /\ dev'.hw = dev.hw
      /\ dev.thread.pc = "report" /\ dev.thread.to = duo.slave_fd => dev'.thread.pc # "leave"
<1>1. ASSUME IInv, [Next]_vars, duo.slave_selected
      PROVE  Kept
  <2> DEFINE b == dev.thread.pc \notin {"run", "leave"}
  <2>1. DevOK(b, dev) /\ SessInv /\ LoopInv /\ IdleInv
    BY <1>1 DEF IInv, DevOK, StreamOK
  <2>2. CASE Main
    <3> HIDE DEF b
    <3>1. DevOK(b, dev') /\ StreamKept
      BY <2>1, <2>2, MainStep, SMTT(20)
    <3>2. b => dev'.thread.pc # "leave"
      BY <3>1, SMTT(20) DEF DevOK, StreamOK
    <3>3. QED
      BY <3>1, <3>2 DEF StreamKept, b
  <2>3. CASE StreamThread
    <3>1. clients' = clients
      BY <1>1, <2>3, ThreadStep DEF IInv
    <3>2. QED
      BY <1>1, <2>1, <2>3, <3>1, SlaveSlot, SlaveReport
  <2>4. CASE StopSignal
    BY <1>1, <2>1, <2>4, SlaveSlot, SMTT(20) DEF StopSignal, ownership
  <2>5. CASE UNCHANGED vars
    BY <1>1, <2>1, <2>5, SlaveSlot DEF vars
  <2>6. QED
    BY <1>1, <2>2, <2>3, <2>4, <2>5, SMTT(20) DEF Next
<1>2. IInv /\ [Next]_vars => [Kept]_vars
  BY <1>1
<1>3. QED
  BY <1>2, Inductive, PTL DEF Spec, SlaveLossKeepsStream
-----------------------------------------------------------------------------
(* The receiver of a running master. *)

\* The daemon of master/slave clients: no request leaves a single-tuner configuration
\* that a recovery could go back to, and a handle can be closed, opened and configured.
Sharing ==
  /\ Commands \intersect {"CONFIGURE", "SWAP_TUNER", "SWAP_MODE", "UPDATE"} = {}
  /\ Faults \intersect {"open", "absent", "configure", "close"} = {}

\* The receiver of a shared daemon: it is open for both tuners or not at all, there is
\* no single-tuner configuration to go back to, and a closed handle has no thread.
SharedOK(s) ==
  /\ ~s.bootstrap_configured /\ s.config = NoConfig
  /\ ~s.recovery_config_pending /\ ~s.mode_swap_paused
  /\ s.radio = NoTuner \/ (s.radio = BothTuners /\ s.dual_mode)
  /\ s.stray.pc = "none" /\ (~s.stream_thread_started => s.thread.pc = "none")
  /\ s.radio = NoTuner => ~s.stream_thread_started /\ ~s.stuck

\* The receiver of a running master: a handle that is closed, or can only be closed by
\* quarantining it, comes with a failure that is recorded or about to be.
HasReceiver(s) ==
  /\ s.radio = NoTuner => s.stream_error
  /\ s.stuck => \/ s.stream_error /\ s.thread.pc \in {"none", "done"}
                \/ s.thread.pc \in {"leave", "store"} /\ s.thread.ret = 1

\* Without an owner or a running master the receiver is closed.
ShareInv ==
  /\ SharedOK(dev)
  /\ duo.master_initialised => duo.master_selected /\ HasReceiver(dev)
  /\ owner = NoClient /\ ~duo.master_initialised => dev.radio = NoTuner /\ ~dev.dual_mode

\* s and r agree on every field these predicates are about.
AlikeShared(s, r) ==
  /\ r.thread = s.thread /\ r.stray = s.stray /\ r.radio = s.radio
  /\ r.dual_mode = s.dual_mode /\ r.config = s.config
  /\ r.bootstrap_configured = s.bootstrap_configured
  /\ r.recovery_config_pending = s.recovery_config_pending
  /\ r.stream_thread_started = s.stream_thread_started
  /\ r.mode_swap_paused = s.mode_swap_paused
  /\ r.stream_error = s.stream_error /\ r.stuck = s.stuck

\* The predicates depend on nothing else.
LEMMA AlikeSharedKeeps ==
  ASSUME NEW s, NEW r, AlikeShared(s, r), SharedOK(s)
  PROVE  SharedOK(r) /\ (HasReceiver(s) => HasReceiver(r))
  BY DEF AlikeShared, SharedOK, HasReceiver

\* pthread_join leaves no thread, and a stream that keeps its transfers has failed.
LEMMA SharedJoin ==
  ASSUME NEW s, NEW cancelled, NEW j \in pthread_join(s, cancelled)
  PROVE  /\ j.thread.pc = "none" /\ j.stray = s.stray /\ j.radio = s.radio
         /\ j.dual_mode = s.dual_mode /\ j.config = s.config
         /\ j.bootstrap_configured = s.bootstrap_configured
         /\ j.recovery_config_pending = s.recovery_config_pending
         /\ j.mode_swap_paused = s.mode_swap_paused
         /\ HasReceiver(s) /\ j.stuck => j.stream_error
<1> DEFINE gone == [s EXCEPT !.thread = NoThread,
                             !.client_write_error_fd = IF s.thread.pc \in Reporting
                                                       THEN s.thread.to ELSE @]
           Same(p) == /\ p.thread.pc = "none" /\ p.stray = s.stray /\ p.radio = s.radio
                      /\ p.dual_mode = s.dual_mode /\ p.config = s.config
                      /\ p.bootstrap_configured = s.bootstrap_configured
                      /\ p.recovery_config_pending = s.recovery_config_pending
                      /\ p.mode_swap_paused = s.mode_swap_paused
<1>1. Same(gone) /\ gone.stuck = s.stuck /\ gone.stream_error = s.stream_error
  BY DEF NoThread, At
<1>2. CASE s.thread.pc \in {"none", "done"}
  <2>1. j = gone
    BY <1>2 DEF pthread_join
  <2> HIDE DEF gone
  <2>2. QED
    BY <1>1, <1>2, <2>1 DEF HasReceiver
<1>3. CASE s.thread.pc \notin {"none", "done"}
  <2>1. PICK e \in Endings(s.thread, cancelled) :
               j = [Stored(gone, e[1]) EXCEPT !.stuck = @ \/ e[2]]
    BY <1>3, Zenon DEF pthread_join
  <2> HIDE DEF gone
  <2>2. j.stream_error = (e[1] = 1) /\ j.stuck = (gone.stuck \/ e[2])
    BY <2>1 DEF Stored
  <2>3. Same(j)
    BY <1>1, <2>1 DEF Stored
  <2>4. HasReceiver(s) /\ (s.stuck \/ e[2]) => e[1] = 1
    <3>1. CASE s.thread.pc \notin Cancellable
      <4>1. e = <<s.thread.ret, FALSE>>
        BY <3>1, Zenon DEF Endings
      <4>2. QED
        BY <1>3, <4>1 DEF HasReceiver
    <3>2. CASE s.thread.pc \in Cancellable
      <4>1. e \in {<<0, FALSE>>, <<1, FALSE>>, <<1, TRUE>>}
        BY <3>2, Zenon DEF Endings, MayFail
      <4>2. HasReceiver(s) => ~s.stuck
        BY <3>2 DEF HasReceiver, Cancellable
      <4>3. <<0, FALSE>>[2] = FALSE /\ <<1, FALSE>>[1] = 1 /\ <<1, TRUE>>[1] = 1
        OBVIOUS
      <4>4. e[2] = FALSE \/ e[1] = 1
        BY <4>1, <4>3, Zenon
      <4>5. QED
        BY <4>2, <4>4
    <3>3. QED
      BY <3>1, <3>2
  <2>5. QED
    BY <1>1, <2>2, <2>3, <2>4, Zenon
<1>4. QED
  BY <1>2, <1>3

\* stop_stream joins the thread, whatever it returns.
LEMMA SharedStop ==
  ASSUME NEW s, SharedOK(s), NEW o \in stop_stream(s)
  PROVE  /\ SharedOK(o.dev) /\ ~o.dev.stream_thread_started
         /\ o.dev.radio = s.radio /\ o.dev.dual_mode = s.dual_mode
         /\ HasReceiver(s) => HasReceiver(o.dev)
         /\ ~s.stream_thread_started => o = Out(s, "OK")
<1>1. CASE ~s.stream_thread_started
  <2>1. o = Out(s, "OK")
    BY <1>1 DEF stop_stream
  <2>2. QED
    BY <1>1, <2>1, OutFields
<1>2. CASE s.stream_thread_started
  <2> DEFINE ended(j) == [j EXCEPT !.stream_thread_started = FALSE, !.streaming = FALSE]
  <2>1. PICK j \in pthread_join(s, s.radio # NoTuner) : \E v : o = Out(ended(j), v)
    BY <1>2, Zenon DEF stop_stream, MayFail
  <2>2. o.dev = ended(j)
    BY <2>1, OutFields
  <2>3. /\ j.thread.pc = "none" /\ j.stray = s.stray /\ j.radio = s.radio
        /\ j.dual_mode = s.dual_mode /\ j.config = s.config
        /\ j.bootstrap_configured = s.bootstrap_configured
        /\ j.recovery_config_pending = s.recovery_config_pending
        /\ j.mode_swap_paused = s.mode_swap_paused
        /\ HasReceiver(s) /\ j.stuck => j.stream_error
    BY <2>1, SharedJoin
  <2>4. /\ ended(j).thread = j.thread /\ ended(j).stray = j.stray
        /\ ended(j).radio = j.radio /\ ended(j).dual_mode = j.dual_mode
        /\ ended(j).config = j.config /\ ended(j).mode_swap_paused = j.mode_swap_paused
        /\ ended(j).bootstrap_configured = j.bootstrap_configured
        /\ ended(j).recovery_config_pending = j.recovery_config_pending
        /\ ended(j).stuck = j.stuck /\ ended(j).stream_error = j.stream_error
        /\ ~ended(j).stream_thread_started
    OBVIOUS
  <2> HIDE DEF ended
  <2>5. s.radio # NoTuner
    BY <1>2 DEF SharedOK
  <2>6. SharedOK(ended(j)) /\ (HasReceiver(s) => HasReceiver(ended(j)))
    BY <2>3, <2>4, <2>5, Zenon DEF SharedOK, HasReceiver
  <2>7. QED
    BY <1>2, <2>2, <2>3, <2>4, <2>6
<1>3. QED
  BY <1>1, <1>2

\* close_radio, once the thread has been joined: it fails only on a quarantined handle,
\* and that is the handle of a failed stream.
LEMMA SharedClose ==
  ASSUME Sharing, NEW s, SharedOK(s), ~s.stream_thread_started, NEW q \in close_radio(s)
  PROVE  /\ SharedOK(q.dev) /\ q.dev.radio = NoTuner /\ ~q.dev.stream_thread_started
         /\ q.dev.dual_mode = s.dual_mode /\ q.dev.stream_error = s.stream_error
         /\ q.status # "OK" => q.status = "EBUSY" /\ s.stuck
         /\ s.radio = NoTuner => q = Out(s, "OK")
<1> DEFINE closed == [s EXCEPT !.radio = NoTuner, !.hw = NoDual, !.stuck = FALSE,
                               !.thread = Cut(s.thread), !.stray = Cut(s.stray)]
           quit == [closed EXCEPT !.running = FALSE]
           Fits(p) == /\ SharedOK(p) /\ p.radio = NoTuner /\ ~p.stream_thread_started
                      /\ p.dual_mode = s.dual_mode /\ p.stream_error = s.stream_error
<1>1. s.thread.pc = "none" /\ s.stray.pc = "none"
  BY DEF SharedOK
<1>2. \/ q = Out(s, "OK") /\ s.radio = NoTuner
      \/ q = Out(closed, "OK") /\ s.radio # NoTuner
      \/ q = Out(quit, "EBUSY") /\ s.stuck /\ s.radio # NoTuner
  BY <1>1 DEF close_radio, MayFail, Sharing, Cancellable
<1>3. Fits(closed)
  BY CutQuiet DEF SharedOK
<1>4. Fits(quit)
  BY CutQuiet DEF SharedOK
<1>5. s.radio = NoTuner => Fits(s)
  OBVIOUS
<1> HIDE DEF closed, quit, Fits
<1>6. Fits(q.dev) /\ (q.status # "OK" => q.status = "EBUSY" /\ s.stuck)
  BY <1>2, <1>3, <1>4, <1>5, OutFields
<1>7. QED
  BY <1>2, <1>6 DEF Fits

\* configure_dual_radio opens the handle for both tuners and leaves the stream alone.
LEMMA SharedConfigure ==
  ASSUME Sharing, NEW s, NEW c, SharedOK(s), NEW r \in configure_dual_radio(s, c)
  PROVE  /\ r.status = "OK" /\ SharedOK(r.dev)
         /\ r.dev.radio = BothTuners /\ r.dev.dual_mode
         /\ r.dev.thread = s.thread /\ r.dev.stream_thread_started = s.stream_thread_started
         /\ r.dev.stuck = s.stuck /\ r.dev.stream_error = s.stream_error
<1> DEFINE open == [s EXCEPT !.radio = BothTuners]
           used == [open EXCEPT !.hw = c, !.dual_mode = TRUE, !.dual_config = c,
                                !.configured = TRUE]
<1>1. ~(~s.dual_mode /\ s.radio # NoTuner)
  BY DEF SharedOK
<1>2. r = Out(used, "OK")
  BY <1>1, Zenon DEF configure_dual_radio, MayFail, Sharing
<1>3. /\ used.radio = BothTuners /\ used.dual_mode
      /\ used.thread = s.thread /\ used.stray = s.stray
      /\ used.stream_thread_started = s.stream_thread_started
      /\ used.stuck = s.stuck /\ used.stream_error = s.stream_error
      /\ used.config = s.config /\ used.bootstrap_configured = s.bootstrap_configured
      /\ used.recovery_config_pending = s.recovery_config_pending
      /\ used.mode_swap_paused = s.mode_swap_paused
  OBVIOUS
<1> HIDE DEF used
<1>4. SharedOK(used)
  BY <1>3 DEF SharedOK, BothTuners, NoTuner
<1>5. QED
  BY <1>2, <1>3, <1>4, OutFields

\* duo_reset_hardware stops the stream and closes the handle; on a stream that was
\* stopped before, it fails only where a failure is recorded.
LEMMA SharedReset ==
  ASSUME Sharing, NEW s, SharedOK(s), NEW r \in duo_reset_hardware(s)
  PROVE  /\ SharedOK(r.dev) /\ r.dev.radio = NoTuner /\ ~r.dev.dual_mode
         /\ ~r.dev.stream_thread_started
         /\ HasReceiver(s) /\ ~s.stream_thread_started /\ r.status # "OK" => HasReceiver(r.dev)
<1> DEFINE reset(q) == [q EXCEPT !.configured = FALSE, !.dual_mode = FALSE]
<1>1. PICK o \in IF s.radio = NoTuner THEN {Out(s, "OK")} ELSE stop_stream(s) :
             r \in {Out(reset(q.dev), IF o.status = "OK" /\ q.status = "OK" THEN "OK"
                                     ELSE "IO_ERROR") : q \in close_radio(o.dev)}
  BY Zenon DEF duo_reset_hardware
<1>2. PICK q \in close_radio(o.dev) :
             r = Out(reset(q.dev), IF o.status = "OK" /\ q.status = "OK" THEN "OK" ELSE "IO_ERROR")
  BY <1>1, Zenon
<1>3. /\ SharedOK(o.dev) /\ ~o.dev.stream_thread_started
      /\ HasReceiver(s) => HasReceiver(o.dev)
      /\ ~s.stream_thread_started => o.status = "OK"
  <2>1. CASE s.radio = NoTuner
    <3>1. o = Out(s, "OK") /\ ~s.stream_thread_started
      BY <1>1, <2>1, Zenon DEF SharedOK
    <3>2. QED
      BY <3>1, OutFields
  <2>2. CASE o \in stop_stream(s)
    BY <2>2, SharedStop, OutFields
  <2>3. QED
    BY <1>1, <2>1, <2>2, Zenon
<1>4. /\ SharedOK(q.dev) /\ q.dev.radio = NoTuner /\ ~q.dev.stream_thread_started
      /\ q.dev.stream_error = o.dev.stream_error
      /\ q.status # "OK" => o.dev.stuck
  BY <1>3, SharedClose
<1>5. /\ SharedOK(reset(q.dev)) /\ reset(q.dev).radio = NoTuner /\ ~reset(q.dev).dual_mode
      /\ ~reset(q.dev).stream_thread_started
      /\ reset(q.dev).stream_error = q.dev.stream_error
  BY <1>4 DEF SharedOK
<1> HIDE DEF reset
<1>6. /\ r.dev = reset(q.dev)
      /\ r.status # "OK" => o.status # "OK" \/ q.status # "OK"
  BY <1>2, OutFields
<1>7. HasReceiver(o.dev) /\ o.dev.stuck => o.dev.stream_error
  BY <1>3 DEF SharedOK, HasReceiver
<1>8. ASSUME HasReceiver(s), ~s.stream_thread_started, r.status # "OK"
      PROVE  HasReceiver(r.dev)
  <2>1. r.dev.stream_error
    BY <1>3, <1>4, <1>5, <1>6, <1>7, <1>8
  <2>2. QED
    BY <1>5, <1>6, <2>1 DEF HasReceiver, SharedOK
<1>9. QED
  BY <1>5, <1>6, <1>8

\* A handle that is open and not quarantined serves a running master.
LEMMA OpenIsEnough ==
  ASSUME NEW s, s.radio = BothTuners, ~s.stuck
  PROVE  HasReceiver(s)
  BY DEF HasReceiver, BothTuners, NoTuner

\* pthread_create starts the only thread.
LEMMA SharedCreate ==
  ASSUME NEW s, SharedOK(s), ~s.stream_thread_started, s.radio = BothTuners,
         NEW t \in pthread_create(s)
  PROVE  /\ SharedOK(t) /\ t.radio = BothTuners /\ t.stuck = s.stuck
         /\ t.dual_mode = s.dual_mode
<1> DEFINE fresh == [s EXCEPT !.thread = At("enter", 0), !.stream_thread_started = TRUE]
<1>1. t = fresh
  BY DEF pthread_create, SharedOK
<1>2. SharedOK(fresh) /\ fresh.radio = BothTuners /\ fresh.stuck = s.stuck
      /\ fresh.dual_mode = s.dual_mode
  BY DEF SharedOK, BothTuners, NoTuner
<1>3. QED
  BY <1>1, <1>2

\* The stream that an accepted request launches.
LEMMA SharedLaunch ==
  ASSUME NEW s, SharedOK(s), ~s.stream_thread_started, s.radio = BothTuners,
         NEW launch \in {"start", "duo", "resume"}, NEW o \in Launched(s, launch)
  PROVE  /\ SharedOK(o.dev) /\ o.dev.radio = BothTuners /\ o.dev.stuck = s.stuck
<1> DEFINE duo_ready == [s EXCEPT !.first_iq_seen = FALSE, !.streaming = TRUE,
                                  !.stream_error = FALSE]
           resume_ready == [s EXCEPT !.first_iq_seen = FALSE, !.streaming = TRUE,
                                     !.stream_error = FALSE, !.recovery_config_pending = FALSE]
           Ready(p) == /\ SharedOK(p) /\ ~p.stream_thread_started
                       /\ p.radio = BothTuners /\ p.stuck = s.stuck
           quiet(p) == [p EXCEPT !.streaming = FALSE]
<1>1. Ready(duo_ready) /\ Ready(resume_ready) /\ Ready(s)
  BY DEF SharedOK
<1>2. ASSUME NEW p, Ready(p)
      PROVE  Ready(quiet(p))
  BY <1>2 DEF SharedOK
<1>3. \E p \in {s, duo_ready, resume_ready} :
        \/ \E t \in pthread_create(p) : o = Out(t, "OK")
        \/ \E v : o = Out(p, v) \/ o = Out(quiet(p), v)
  BY Zenon DEF Launched, MayFail
<1> HIDE DEF duo_ready, resume_ready, quiet
<1>4. PICK p : /\ Ready(p)
               /\ \/ \E t \in pthread_create(p) : o = Out(t, "OK")
                  \/ \E v : o = Out(p, v) \/ o = Out(quiet(p), v)
  BY <1>1, <1>3
<1>5. CASE \E t \in pthread_create(p) : o = Out(t, "OK")
  BY <1>4, <1>5, SharedCreate, OutFields
<1>6. CASE \E v : o = Out(p, v) \/ o = Out(quiet(p), v)
  BY <1>2, <1>4, <1>6, OutFields
<1>7. QED
  BY <1>4, <1>5, <1>6

\* Answering leaves the receiver as it is, or launches a stream on an open handle.
LEMMA SharedAnswer ==
  ASSUME NEW c, NEW s, SharedOK(s), NEW launch \in {"none", "start", "duo", "resume"},
         launch # "none" => ~s.stream_thread_started /\ s.radio = BothTuners,
         Answer(c, s, launch)
  PROVE  /\ SharedOK(dev') /\ dev'.radio = s.radio /\ dev'.stuck = s.stuck
         /\ launch = "none" => dev' = s
<1>1. CASE dev' = s
  BY <1>1
<1>2. CASE launch # "none" /\ \E o \in Launched(s, launch) : dev' = o.dev
  BY <1>2, SharedLaunch
<1>3. QED
  BY <1>1, <1>2 DEF Answer

\* The stream starts again on the handle that was opened, or a failure is recorded.
LEMMA SharedRestarted ==
  ASSUME NEW s, SharedOK(s), ~s.stream_thread_started, s.radio = BothTuners, s.dual_mode,
         ~s.stuck, NEW r \in Restarted(s)
  PROVE  SharedOK(r) /\ HasReceiver(r)
<1> DEFINE ready == [s EXCEPT !.first_iq_seen = FALSE, !.stream_error = FALSE,
                              !.stream_result = 0, !.streaming = TRUE]
           failed == [ready EXCEPT !.streaming = FALSE, !.stream_error = TRUE]
           pending(t) == [t EXCEPT !.recovery_config_pending = ~s.dual_mode]
           Good(p) == SharedOK(p) /\ p.radio = BothTuners /\ ~p.stuck
<1>1. \/ \E t \in pthread_create(ready) : r = pending(t)
      \/ r = failed
  BY DEF Restarted, MayFail
<1>2. Good(ready) /\ ~ready.stream_thread_started
  BY DEF SharedOK
<1>3. Good(failed)
  BY DEF SharedOK
<1>4. ASSUME NEW t, Good(t)
      PROVE  Good(pending(t))
  <2>1. /\ pending(t).recovery_config_pending = ~s.dual_mode
        /\ pending(t).thread = t.thread /\ pending(t).stray = t.stray
        /\ pending(t).radio = t.radio /\ pending(t).dual_mode = t.dual_mode
        /\ pending(t).config = t.config /\ pending(t).mode_swap_paused = t.mode_swap_paused
        /\ pending(t).bootstrap_configured = t.bootstrap_configured
        /\ pending(t).stuck = t.stuck
        /\ pending(t).stream_thread_started = t.stream_thread_started
    BY <1>4 DEF SharedOK
  <2> HIDE DEF pending
  <2>2. QED
    BY <1>4, <2>1, Zenon DEF SharedOK
<1> HIDE DEF ready, failed, pending
<1>5. Good(r)
  BY <1>1, <1>2, <1>3, <1>4, SharedCreate
<1>6. QED
  BY <1>5, OpenIsEnough

\* recover_failed_stream reopens the receiver for the session that has it; when the
\* handle is quarantined, the failure stays recorded.
LEMMA SharedRecover ==
  ASSUME Sharing, NEW s, NEW active \in BOOLEAN, SharedOK(s),
         NEW r \in recover_failed_stream(s, active)
  PROVE  /\ SharedOK(r)
         /\ active /\ HasReceiver(s) => HasReceiver(r)
         /\ s.radio = NoTuner /\ ~s.dual_mode => r.radio = NoTuner /\ ~r.dual_mode
<1> DEFINE Joined == IF ~s.stream_thread_started THEN {s}
                     ELSE {[j EXCEPT !.stream_thread_started = FALSE]
                           : j \in pthread_join(s, FALSE)}
           Reopen(p) ==
             IF p.dual_mode
             THEN UNION {IF o.status = "OK" THEN Restarted(o.dev) ELSE {o.dev}
                         : o \in configure_dual_radio(p, p.dual_config)}
             ELSE IF bootstrap(p) = NoConfig THEN {p}
             ELSE UNION {IF o.status # "OK" THEN {o.dev}
                         ELSE Restarted([o.dev EXCEPT !.configured = TRUE])
                         : o \in configure_radio(p, bootstrap(p))}
           reset(p) == [p EXCEPT !.configured = FALSE, !.recovery_config_pending = FALSE]
           Ended(p) ==
             UNION {IF q.status = "EBUSY" THEN {q.dev}
                    ELSE IF ~active THEN {reset(q.dev)}
                         ELSE MayFail({"absent"}, {reset(q.dev)}) \union Reopen(reset(q.dev))
                    : q \in close_radio(p)}
<1>1. \/ r = s
      \/ s.stream_error /\ r \in UNION {Ended(p) : p \in Joined}
  BY Zenon DEF recover_failed_stream
<1>2. ASSUME s.stream_error, NEW p \in Joined
      PROVE  /\ SharedOK(p) /\ ~p.stream_thread_started /\ p.dual_mode = s.dual_mode
             /\ HasReceiver(s) /\ p.stuck => p.stream_error
             /\ s.radio = NoTuner => p = s
             /\ p.radio = s.radio
  <2>1. CASE ~s.stream_thread_started
    BY <1>2, <2>1
  <2>2. CASE s.stream_thread_started
    <3> DEFINE cancelled == FALSE
               joined(j) == [j EXCEPT !.stream_thread_started = FALSE]
    <3>1. PICK j \in pthread_join(s, cancelled) : p = joined(j)
      BY <1>2, <2>2, Zenon
    <3> HIDE DEF cancelled
    <3>2. /\ j.thread.pc = "none" /\ j.stray = s.stray /\ j.radio = s.radio
          /\ j.dual_mode = s.dual_mode /\ j.config = s.config
          /\ j.bootstrap_configured = s.bootstrap_configured
          /\ j.recovery_config_pending = s.recovery_config_pending
          /\ j.mode_swap_paused = s.mode_swap_paused
          /\ HasReceiver(s) /\ j.stuck => j.stream_error
      BY SharedJoin
    <3>3. /\ joined(j).thread = j.thread /\ joined(j).stray = j.stray
          /\ joined(j).radio = j.radio /\ joined(j).dual_mode = j.dual_mode
          /\ joined(j).config = j.config /\ joined(j).mode_swap_paused = j.mode_swap_paused
          /\ joined(j).bootstrap_configured = j.bootstrap_configured
          /\ joined(j).recovery_config_pending = j.recovery_config_pending
          /\ joined(j).stuck = j.stuck /\ joined(j).stream_error = j.stream_error
          /\ ~joined(j).stream_thread_started
      OBVIOUS
    <3> HIDE DEF joined
    <3>4. s.radio # NoTuner
      BY <2>2 DEF SharedOK
    <3>5. QED
      BY <3>1, <3>2, <3>3, <3>4 DEF SharedOK
  <2>3. QED
    BY <2>1, <2>2
<1>3. ASSUME NEW p, SharedOK(p), ~p.stream_thread_started, p.radio = NoTuner, NEW x \in Reopen(p)
      PROVE  /\ SharedOK(x)
             /\ p.dual_mode => HasReceiver(x)
             /\ ~p.dual_mode => x = p
  <2>1. CASE p.dual_mode
    <3>1. PICK o \in configure_dual_radio(p, p.dual_config) :
                 x \in IF o.status = "OK" THEN Restarted(o.dev) ELSE {o.dev}
      BY <1>3, <2>1
    <3>2. /\ o.status = "OK" /\ SharedOK(o.dev) /\ o.dev.radio = BothTuners /\ o.dev.dual_mode
          /\ ~o.dev.stream_thread_started /\ ~o.dev.stuck
      BY <1>3, SharedConfigure DEF SharedOK
    <3>3. QED
      BY <2>1, <3>1, <3>2, SharedRestarted
  <2>2. CASE ~p.dual_mode
    <3>1. bootstrap(p) = NoConfig
      BY <1>3 DEF bootstrap, SharedOK
    <3>2. QED
      BY <1>3, <2>2, <3>1
  <2>3. QED
    BY <2>1, <2>2
<1>4. ASSUME NEW q, SharedOK(q)
      PROVE  /\ SharedOK(reset(q)) /\ reset(q).radio = q.radio
             /\ reset(q).stream_thread_started = q.stream_thread_started
             /\ reset(q).dual_mode = q.dual_mode /\ reset(q).stream_error = q.stream_error
  BY <1>4 DEF SharedOK
<1> HIDE DEF Joined, Reopen, reset
<1>5. ASSUME NEW p, SharedOK(p), ~p.stream_thread_started, NEW x \in Ended(p)
      PROVE  /\ SharedOK(x)
             /\ active => \/ HasReceiver(x)
                          \/ x.radio = NoTuner /\ x.stream_error = p.stream_error
                             /\ (p.stuck \/ ~p.dual_mode)
             /\ ~p.dual_mode => x.radio = NoTuner /\ ~x.dual_mode
  <2>1. PICK q \in close_radio(p) :
               \/ q.status = "EBUSY" /\ x = q.dev
               \/ ~active /\ x = reset(q.dev)
               \/ active /\ x \in Reopen(reset(q.dev))
    BY <1>5 DEF MayFail, Sharing
  <2>2. /\ SharedOK(q.dev) /\ q.dev.radio = NoTuner /\ ~q.dev.stream_thread_started
        /\ q.dev.dual_mode = p.dual_mode /\ q.dev.stream_error = p.stream_error
        /\ q.status = "EBUSY" => p.stuck
    BY <1>5, SharedClose
  <2>3. /\ SharedOK(reset(q.dev)) /\ reset(q.dev).radio = NoTuner
        /\ ~reset(q.dev).stream_thread_started
        /\ reset(q.dev).dual_mode = p.dual_mode /\ reset(q.dev).stream_error = p.stream_error
    BY <1>4, <2>2
  <2>4. CASE q.status = "EBUSY" /\ x = q.dev
    BY <2>2, <2>4
  <2>5. CASE ~active /\ x = reset(q.dev)
    BY <2>3, <2>5
  <2>6. CASE active /\ x \in Reopen(reset(q.dev))
    BY <1>3, <2>3, <2>6
  <2>7. QED
    BY <2>1, <2>4, <2>5, <2>6
<1> HIDE DEF Ended
<1>6. CASE r = s
  BY <1>6
<1>7. CASE s.stream_error /\ r \in UNION {Ended(p) : p \in Joined}
  <2>1. PICK p \in Joined : r \in Ended(p)
    BY <1>7
  <2>2. /\ SharedOK(p) /\ ~p.stream_thread_started /\ p.dual_mode = s.dual_mode
        /\ HasReceiver(s) /\ p.stuck => p.stream_error
        /\ s.radio = NoTuner => p = s
        /\ p.radio = s.radio
    BY <1>2, <1>7
  <2>3. /\ SharedOK(r)
        /\ active => \/ HasReceiver(r)
                     \/ r.radio = NoTuner /\ r.stream_error = p.stream_error
                        /\ (p.stuck \/ ~p.dual_mode)
        /\ ~p.dual_mode => r.radio = NoTuner /\ ~r.dual_mode
    BY <1>5, <2>1, <2>2
  <2>4. ~p.dual_mode => p = s
    BY <2>2 DEF SharedOK
  <2>5. ASSUME active, HasReceiver(s), r.radio = NoTuner, r.stream_error = p.stream_error,
               p.stuck \/ ~p.dual_mode
        PROVE  HasReceiver(r)
    <3>1. r.stream_error
      BY <1>7, <2>2, <2>4, <2>5
    <3>2. QED
      BY <2>3, <2>5, <3>1 DEF HasReceiver, SharedOK
  <2>6. QED
    BY <2>2, <2>3, <2>5
<1>8. QED
  BY <1>1, <1>6, <1>7

\* No recovery is left to finish.
LEMMA SharedFinish ==
  ASSUME NEW s, SharedOK(s)
  PROVE  finish_recovery_config(s) = {s}
  BY DEF finish_recovery_config, SharedOK

\* release_client, for the owner, closes the handle.
LEMMA SharedRelease ==
  ASSUME Sharing, NEW s, SharedOK(s), NEW r \in release_owner(s)
  PROVE  SharedOK(r) /\ r.radio = NoTuner /\ ~r.dual_mode
<1> DEFINE left(d) == [d EXCEPT !.streaming = FALSE, !.stream_error = FALSE,
                                !.stream_result = 0, !.dual_mode = FALSE,
                                !.mode_swap_paused = FALSE]
           reset(q) == [q EXCEPT !.configured = FALSE]
<1>1. PICK t \in Stopped(s) : r \in Relinquished(t)
  BY DEF release_owner
<1>2. PICK d \in IF (t.dual_mode \/ t.stream_error) /\ t.radio # NoTuner THEN Closed(t) ELSE {t} :
             r = left(d)
  BY <1>1, Zenon DEF Relinquished
<1>3. SharedOK(t) /\ ~t.stream_thread_started
  <2>1. CASE s.radio = NoTuner
    BY <2>1 DEF Stopped, SharedOK
  <2>2. CASE s.radio # NoTuner
    BY <2>2, SharedStop DEF Stopped
  <2>3. QED
    BY <2>1, <2>2
<1>4. SharedOK(d) /\ d.radio = NoTuner
  <2>1. CASE d \in Closed(t)
    <3>1. PICK q \in close_radio(t) : d = reset(q.dev)
      BY <2>1 DEF Closed
    <3>2. SharedOK(q.dev) /\ q.dev.radio = NoTuner
      BY <1>3, SharedClose
    <3>3. AlikeShared(q.dev, reset(q.dev))
      BY DEF AlikeShared
    <3> HIDE DEF reset
    <3>4. QED
      BY <3>1, <3>2, <3>3, AlikeSharedKeeps DEF AlikeShared
  <2>2. CASE d = t /\ t.radio = NoTuner
    BY <1>3, <2>2
  <2>3. QED
    BY <1>2, <1>3, <2>1, <2>2 DEF SharedOK
<1>5. SharedOK(left(d)) /\ left(d).radio = NoTuner /\ ~left(d).dual_mode
  BY <1>4 DEF SharedOK
<1> HIDE DEF left
<1>6. QED
  BY <1>2, <1>5

\* duo_session.c: acquire starts no role.
LEMMA AcquireStarts ==
  ASSUME NEW s, SessionOK(s), s.master_initialised => s.master_selected,
         NEW c, NEW role, NEW t, NEW rate, NEW r, r = acquire(s, c, role, t, rate).session
  PROVE  /\ r.master_initialised => r.master_selected
         /\ r.master_initialised = s.master_initialised
<1>1. \/ r = s
      \/ r = master_taken(s, c, t, rate) /\ ~s.master_selected
      \/ r = slave_taken(s, c, t)
  BY DEF acquire, acquire_master, acquire_slave, Done, Refused
<1>2. /\ master_taken(s, c, t, rate).master_initialised = FALSE
      /\ slave_taken(s, c, t).master_initialised = s.master_initialised
      /\ slave_taken(s, c, t).master_selected = s.master_selected
  BY DEF master_taken, slave_taken, SessionOK, Sessions
<1>3. ~s.master_selected => s.master_initialised = FALSE
  BY DEF SessionOK, Sessions
<1>4. CASE r = s
  BY <1>4
<1>5. CASE r = master_taken(s, c, t, rate) /\ ~s.master_selected
  BY <1>2, <1>3, <1>5, Zenon
<1>6. CASE r = slave_taken(s, c, t)
  BY <1>2, <1>6, Zenon
<1>7. QED
  BY <1>1, <1>4, <1>5, <1>6

\* Starting a role is up to its client, and the end of the master's role is the end of
\* its stream.
LEMMA MasterStarts ==
  ASSUME NEW s, SessionOK(s), NEW c
  PROVE  /\ LET r == initialise(s, c).session
            IN ~descriptor_is_master(s, c) => r.master_initialised = s.master_initialised
         /\ LET r == uninitialise(s, c).session
            IN /\ ~descriptor_is_master(s, c) => r.master_initialised = s.master_initialised
               /\ descriptor_is_master(s, c) /\ uninitialise(s, c).result = "OK"
                    => ~r.master_initialised
<1>1. ~descriptor_is_master(s, c)
        => initialise(s, c).session.master_initialised = s.master_initialised
  <2>1. ~descriptor_is_master(s, c)
          => initialise(s, c).session \in {s, [s EXCEPT !.slave_initialised = TRUE]}
    BY DEF initialise, Done, Refused
  <2>2. QED
    BY <2>1 DEF SessionOK, Sessions
<1>2. ~descriptor_is_master(s, c)
        => uninitialise(s, c).session.master_initialised = s.master_initialised
  <2>1. ~descriptor_is_master(s, c)
          => uninitialise(s, c).session \in {s, [s EXCEPT !.slave_initialised = FALSE]}
    BY DEF uninitialise, Done, Refused
  <2>2. QED
    BY <2>1 DEF SessionOK, Sessions
<1>3. descriptor_is_master(s, c) /\ uninitialise(s, c).result = "OK"
        => ~uninitialise(s, c).session.master_initialised
  <2>1. descriptor_is_master(s, c) /\ uninitialise(s, c).result = "OK"
          => uninitialise(s, c).session = [s EXCEPT !.master_initialised = FALSE]
    BY DEF uninitialise, Done, Refused
  <2>2. QED
    BY <2>1 DEF SessionOK, Sessions
<1>4. QED
  BY <1>1, <1>2, <1>3, Zenon

\* Giving up a role, or losing it: only the end of the session stops the master.
LEMMA MasterEnds ==
  ASSUME NEW s, SessionOK(s), NEW c, NEW r,
         \/ r = disconnect(s, c).session
         \/ r = release(s, c).session /\ release(s, c).result = "OK"
  PROVE  /\ r.master_selected => r.master_initialised = s.master_initialised
         /\ ~r.master_selected => r = session_init \/ r = s \/ ~s.master_selected
<1>1. r \in {session_init, slave_cleared(s), s}
  BY DEF disconnect, release, Done, Refused
<1>2. /\ slave_cleared(s).master_initialised = s.master_initialised
      /\ slave_cleared(s).master_selected = s.master_selected
  BY DEF slave_cleared, SessionOK, Sessions
<1>3. ~session_init.master_selected
  BY DEF session_init
<1>4. QED
  BY <1>1, <1>2, <1>3, Zenon

\* While a client owns the receiver there is no master, so only the handle counts.
LEMMA OwnerShares ==
  ASSUME SessInv, ShareInv, NEW c \in Clients, owner = c, UNCHANGED ownership, SharedOK(dev')
  PROVE  ShareInv'
<1>1. owner # NoClient /\ ~duo.master_initialised
  BY NoClientAssumption DEF SessInv, SessionsExclusive, ShareInv
<1>2. owner' = owner /\ duo' = duo
  BY DEF ownership
<1>3. QED
  BY <1>1, <1>2, Zenon DEF ShareInv

\* A step that leaves the receiver alone and keeps the master running or stopped.
LEMMA AlikeShares ==
  ASSUME ShareInv, AlikeShared(dev, dev'), owner' = owner,
         duo'.master_initialised = duo.master_initialised,
         duo'.master_initialised => duo'.master_selected
  PROVE  ShareInv'
<1>1. SharedOK(dev') /\ (HasReceiver(dev) => HasReceiver(dev'))
  BY AlikeSharedKeeps DEF ShareInv
<1>2. dev'.radio = dev.radio /\ dev'.dual_mode = dev.dual_mode
  BY DEF AlikeShared
<1>3. QED
  BY <1>1, <1>2, Zenon DEF ShareInv

\* The requests of the owner.
LEMMA OwnerRequestShares ==
  ASSUME Sharing, SessInv, ShareInv, NEW c,
         \/ ACQUIRE(c) \/ START(c) \/ STOP(c) \/ RELEASE(c) \/ RESUME_MODE(c)
         \/ \E g \in DualConfigs : CONFIGURE_DUAL(c, g)
  PROVE  ShareInv'
<1> SharedOK(dev)
  BY DEF ShareInv
<1>1. CASE ACQUIRE(c)
  <2>1. /\ c \in Clients /\ c # NoClient /\ owner = NoClient /\ ~duo_active
        /\ owner' = c /\ duo' = duo /\ Answer(c, dev, "none")
    BY <1>1, ServedIsClient DEF ACQUIRE
  <2>2. dev' = dev
    BY <2>1, SharedAnswer
  <2>3. QED
    BY <2>1, <2>2, Zenon DEF ShareInv
<1>2. CASE START(c)
  <2> DEFINE ready == [dev EXCEPT !.streaming = TRUE, !.stream_error = FALSE, !.stream_result = 0]
  <2>1. /\ Answer(c, ready, "start") /\ c \in Clients /\ owner = c /\ UNCHANGED ownership
        /\ dev.radio # NoTuner /\ ~dev.stream_thread_started
    BY <1>2, ServedIsClient DEF START
  <2>2. SharedOK(ready) /\ ~ready.stream_thread_started /\ ready.radio = BothTuners
    BY <2>1 DEF SharedOK
  <2> HIDE DEF ready
  <2>3. SharedOK(dev')
    BY <2>1, <2>2, SharedAnswer
  <2>4. QED
    BY <2>1, <2>3, OwnerShares
<1>3. CASE STOP(c)
  <2>1. PICK o \in stop_stream(dev) : Answer(c, o.dev, "none")
    BY <1>3 DEF STOP
  <2>2. c \in Clients /\ owner = c /\ UNCHANGED ownership
    BY <1>3, ServedIsClient DEF STOP
  <2>3. SharedOK(dev')
    BY <2>1, SharedStop, SharedAnswer
  <2>4. QED
    BY <2>2, <2>3, OwnerShares
<1>4. CASE RELEASE(c)
  <2>1. PICK s \in release_owner(dev) : Answer(c, s, "none")
    BY <1>4 DEF RELEASE
  <2>2. c \in Clients /\ c # NoClient /\ owner = c /\ owner' = NoClient /\ duo' = duo
    BY <1>4, ServedIsClient DEF RELEASE
  <2>3. SharedOK(s) /\ s.radio = NoTuner /\ ~s.dual_mode
    BY SharedRelease
  <2>4. dev' = s
    BY <2>1, <2>3, SharedAnswer
  <2>5. ~duo.master_initialised
    BY <2>2 DEF SessInv, SessionsExclusive, ShareInv
  <2>6. QED
    BY <2>2, <2>3, <2>4, <2>5, Zenon DEF ShareInv
<1>5. CASE RESUME_MODE(c)
  BY <1>5 DEF RESUME_MODE, SharedOK
<1>6. ASSUME NEW g \in DualConfigs, CONFIGURE_DUAL(c, g)
      PROVE  ShareInv'
  <2>1. PICK o \in configure_dual_radio(dev, g) :
               Answer(c, IF o.status = "OK" THEN AdoptedDual(o.dev) ELSE o.dev, "none")
    BY <1>6 DEF CONFIGURE_DUAL
  <2>2. c \in Clients /\ owner = c /\ UNCHANGED ownership
    BY <1>6, ServedIsClient DEF CONFIGURE_DUAL
  <2>3. o.status = "OK" /\ SharedOK(o.dev)
    BY SharedConfigure
  <2>4. SharedOK(AdoptedDual(o.dev))
    BY <2>3 DEF SharedOK, AdoptedDual
  <2>5. SharedOK(dev')
    BY <2>1, <2>3, <2>4, SharedAnswer
  <2>6. QED
    BY <2>2, <2>5, OwnerShares
<1>7. QED
  BY <1>1, <1>2, <1>3, <1>4, <1>5, <1>6

\* The receiver stays as it is when a role changes its settings.
LEMMA PrepareShared ==
  ASSUME NEW s, NEW rate, SharedOK(s)
  PROVE  /\ SharedOK(duo_prepare_config(s, rate))
         /\ AlikeShared(s, duo_prepare_config(s, rate))
         /\ HasReceiver(s) => HasReceiver(duo_prepare_config(s, rate))
<1>1. AlikeShared(s, duo_prepare_config(s, rate))
  BY DEF AlikeShared, duo_prepare_config
<1>2. QED
  BY <1>1, AlikeSharedKeeps

\* SetChannel changes what the frontend is set to.
LEMMA ChannelShared ==
  ASSUME NEW s, NEW t, NEW f, NEW o \in SetChannel(s, t, f)
  PROVE  AlikeShared(s, o.dev)
<1> DEFINE set == [s EXCEPT !.hw.rf[t] = f]
<1>1. AlikeShared(s, set) /\ AlikeShared(s, s)
  BY DEF AlikeShared
<1>2. \E v : o = Out(set, v) \/ o = Out(s, v)
  BY Zenon DEF SetChannel, MayFail
<1> HIDE DEF set
<1>3. QED
  BY <1>1, <1>2, OutFields

\* The requests of a master or a slave that leave the stream and the session alone.
LEMMA SettingsShare ==
  ASSUME SessInv, ShareInv, NEW c, NEW g, DUO_CONFIGURE(c, g) \/ DUO_UPDATE(c, g)
  PROVE  ShareInv'
<1> SharedOK(dev)
  BY DEF ShareInv
<1>1. CASE DUO_CONFIGURE(c, g)
  <2>1. PICK o \in duo_apply_running_config(dev, g) :
               Answer(c, IF o.status = "OK" THEN duo_configured(o.dev, g) ELSE o.dev, "none")
    BY <1>1 DEF DUO_CONFIGURE
  <2>2. owner' = owner /\ duo' = duo
    BY <1>1 DEF DUO_CONFIGURE, ownership
  <2>3. AlikeShared(dev, o.dev)
    <3>1. CASE \E status : o = Out(dev, status)
      BY <3>1, OutFields DEF AlikeShared
    <3>2. CASE \E t, f : o \in SetChannel(dev, t, f)
      BY <3>2, ChannelShared
    <3>3. QED
      BY <3>1, <3>2 DEF duo_apply_running_config
  <2>4. AlikeShared(o.dev, duo_configured(o.dev, g))
    BY DEF AlikeShared, duo_configured
  <2>5. AlikeShared(dev, duo_configured(o.dev, g))
    BY <2>3, <2>4, Zenon DEF AlikeShared
  <2>6. AlikeShared(dev, dev')
    BY <2>1, <2>3, <2>5, SharedAnswer, AlikeSharedKeeps
  <2>7. QED
    BY <2>2, <2>6, AlikeShares, Zenon DEF ShareInv
<1>2. CASE DUO_UPDATE(c, g)
  <2>1. PICK o \in apply_update(dev, g) : Answer(c, o.dev, "none")
    BY <1>2 DEF DUO_UPDATE
  <2>2. owner' = owner /\ duo' = duo /\ dev.radio # NoTuner
    BY <1>2 DEF DUO_UPDATE, ownership
  <2>3. dev.dual_mode
    BY <2>2 DEF SharedOK
  <2>4. AlikeShared(dev, o.dev)
    <3> DEFINE known(d) == [d EXCEPT !.dual_config.rf[g.tuner] = g.rf]
    <3>1. \A d : AlikeShared(d, known(d))
      BY DEF AlikeShared
    <3>2. \/ o = Out(dev, "BAD_REQUEST")
          \/ \E p \in SetChannel(dev, g.tuner, g.rf) :
                o = IF p.status = "OK" THEN Out(known(p.dev), "OK") ELSE p
      BY <2>3, Zenon DEF apply_update
    <3> HIDE DEF known
    <3>3. CASE o = Out(dev, "BAD_REQUEST")
      BY <3>3, OutFields DEF AlikeShared
    <3>4. CASE \E p \in SetChannel(dev, g.tuner, g.rf) :
                 o = IF p.status = "OK" THEN Out(known(p.dev), "OK") ELSE p
      <4>1. PICK p \in SetChannel(dev, g.tuner, g.rf) : o.dev = known(p.dev) \/ o = p
        BY <3>4, OutFields
      <4>2. AlikeShared(dev, p.dev) /\ AlikeShared(p.dev, known(p.dev))
        BY <3>1, ChannelShared
      <4>3. AlikeShared(dev, known(p.dev))
        BY <4>2, Zenon DEF AlikeShared
      <4>4. QED
        BY <4>1, <4>2, <4>3
    <3>5. QED
      BY <3>2, <3>3, <3>4
  <2>5. AlikeShared(dev, dev')
    BY <2>1, <2>4, SharedAnswer, AlikeSharedKeeps
  <2>6. QED
    BY <2>2, <2>5, AlikeShares, Zenon DEF ShareInv
<1>3. QED
  BY <1>1, <1>2

\* DUO_ACQUIRE touches neither the receiver nor a running master.
LEMMA DuoAcquireShares ==
  ASSUME SessInv, ShareInv, NEW c, NEW role, NEW t, NEW rate, DUO_ACQUIRE(c, role, t, rate)
  PROVE  ShareInv'
<1>1. /\ duo' = acquire(duo, c, role, t, rate).session /\ owner' = owner
      /\ Answer(c, dev, "none")
  BY DEF DUO_ACQUIRE
<1>2. SharedOK(dev) /\ SessionOK(duo) /\ (duo.master_initialised => duo.master_selected)
  BY DEF ShareInv, SessInv
<1>3. dev' = dev
  BY <1>1, <1>2, SharedAnswer
<1>4. AlikeShared(dev, dev')
  BY <1>3 DEF AlikeShared
<1>5. /\ duo'.master_initialised => duo'.master_selected
      /\ duo'.master_initialised = duo.master_initialised
  BY <1>1, <1>2, AcquireStarts, SMTT(20)
<1>6. QED
  BY <1>1, <1>4, <1>5, AlikeShares

\* DUO_START: the master opens the receiver, which nobody has open, and a slave starts
\* beside it.
LEMMA DuoStartShares ==
  ASSUME Sharing, SessInv, ShareInv, NEW c, DUO_START(c)
  PROVE  ShareInv'
<1> DEFINE ready == duo_prepare_config(dev, duo.sample_rate_hz)
<1>1. /\ duo_active /\ owner' = owner /\ initialise(duo, c).result = "OK"
  BY DEF DUO_START, HasRole
<1>2. /\ SharedOK(dev) /\ SessionOK(duo) /\ (duo.master_initialised => duo.master_selected)
      /\ owner = NoClient /\ duo.master_selected
  BY <1>1 DEF ShareInv, SessInv, SessionsExclusive
<1>3. CASE descriptor_is_master(duo, c)
  <2>1. PICK o \in configure_dual_radio(ready, ready.duo_config) :
               /\ duo' = IF o.status = "OK" THEN initialise(duo, c).session ELSE duo
               /\ Answer(c, o.dev, IF o.status = "OK" THEN "duo" ELSE "none")
    BY <1>3 DEF DUO_START
  <2>2. ~duo.master_initialised
    BY <1>1, <1>3 DEF initialise, Refused
  <2>3. dev.radio = NoTuner /\ ~dev.stream_thread_started /\ ~dev.stuck
    BY <1>2, <2>2 DEF ShareInv, SharedOK
  <2>4. /\ SharedOK(ready) /\ ~ready.stream_thread_started /\ ~ready.stuck
    BY <1>2, <2>3, PrepareShared DEF AlikeShared
  <2> HIDE DEF ready
  <2>5. /\ o.status = "OK" /\ SharedOK(o.dev) /\ o.dev.radio = BothTuners
        /\ ~o.dev.stream_thread_started /\ ~o.dev.stuck
    BY <2>4, SharedConfigure
  <2>6. Answer(c, o.dev, "duo") /\ duo' = initialise(duo, c).session
    BY <2>1, <2>5, Zenon
  <2>7. SharedOK(dev') /\ dev'.radio = BothTuners /\ ~dev'.stuck
    BY <2>5, <2>6, SharedAnswer
  <2>8. duo'.master_selected /\ duo'.master_initialised
    <3>1. duo' = [duo EXCEPT !.master_initialised = TRUE]
      BY <1>3, <2>2, <2>6 DEF initialise, Done
    <3>2. QED
      BY <1>2, <3>1 DEF SessionOK, Sessions
  <2>9. HasReceiver(dev')
    BY <2>7, OpenIsEnough
  <2>10. QED
    BY <2>7, <2>8, <2>9, Zenon DEF ShareInv
<1>4. CASE ~descriptor_is_master(duo, c)
  <2>1. Answer(c, dev, "none") /\ duo' = initialise(duo, c).session
    BY <1>4, SMTT(20) DEF DUO_START
  <2>2. dev' = dev
    BY <1>2, <2>1, SharedAnswer
  <2>3. AlikeShared(dev, dev')
    BY <2>2 DEF AlikeShared
  <2>4. duo'.master_initialised = duo.master_initialised
    BY <1>2, <1>4, <2>1, MasterStarts, Zenon
  <2>5. duo'.master_selected = duo.master_selected
    BY <1>2, <2>1, InitialiseKeeps, Zenon
  <2>6. QED
    BY <1>1, <1>2, <2>3, <2>4, <2>5, AlikeShares
<1>5. QED
  BY <1>3, <1>4

\* DUO_STOP: the master closes the receiver behind it, a slave does not touch it.
LEMMA DuoStopShares ==
  ASSUME Sharing, SessInv, ShareInv, NEW c, DUO_STOP(c)
  PROVE  ShareInv'
<1>1. /\ duo_active /\ owner' = owner /\ uninitialise(duo, c).result = "OK"
      /\ duo' = uninitialise(duo, c).session
  BY DEF DUO_STOP, HasRole
<1>2. /\ SharedOK(dev) /\ SessionOK(duo) /\ (duo.master_initialised => duo.master_selected)
      /\ owner = NoClient /\ duo.master_selected
  BY <1>1 DEF ShareInv, SessInv, SessionsExclusive
<1>3. PICK o \in IF descriptor_is_master(duo, c) THEN duo_reset_hardware(dev)
                 ELSE {Out(dev, "OK")} : Answer(c, o.dev, "none")
  BY DEF DUO_STOP
<1>4. CASE descriptor_is_master(duo, c)
  <2>1. SharedOK(o.dev) /\ o.dev.radio = NoTuner /\ ~o.dev.dual_mode
    BY <1>2, <1>3, <1>4, SharedReset
  <2>2. dev' = o.dev
    BY <1>3, <2>1, SharedAnswer
  <2>3. ~duo'.master_initialised
    BY <1>1, <1>2, <1>4, MasterStarts, Zenon
  <2>4. QED
    BY <2>1, <2>2, <2>3, Zenon DEF ShareInv
<1>5. CASE ~descriptor_is_master(duo, c)
  <2>1. o.dev = dev
    BY <1>3, <1>5, OutFields
  <2>2. dev' = dev
    BY <1>2, <1>3, <2>1, SharedAnswer
  <2>3. AlikeShared(dev, dev')
    BY <2>2 DEF AlikeShared
  <2>4. duo'.master_initialised = duo.master_initialised
    BY <1>1, <1>2, <1>5, MasterStarts, Zenon
  <2>5. duo'.master_selected = duo.master_selected
    BY <1>1, <1>2, InitialiseKeeps, Zenon
  <2>6. QED
    BY <1>1, <1>2, <2>3, <2>4, <2>5, AlikeShares
<1>6. QED
  BY <1>4, <1>5

\* duo_forgotten forgets the settings of the roles, and nothing else.
LEMMA ForgottenShared ==
  ASSUME NEW s
  PROVE  AlikeShared(s, duo_forgotten(s))
  BY DEF AlikeShared, duo_forgotten

\* The end of a role: with the master's the receiver is closed, a slave's leaves it.
LEMMA RoleEndShares ==
  ASSUME Sharing, SessInv, ShareInv, NEW c, NEW s, AlikeShared(dev, s), duo_active,
         \/ duo' = disconnect(duo, c).session
         \/ duo' = release(duo, c).session /\ release(duo, c).result = "OK",
         duo'.master_selected \in BOOLEAN, owner' = owner, NEW over, over = ~duo'.master_selected,
         dev' \in IF over THEN {duo_forgotten(o.dev) : o \in duo_reset_hardware(s)} ELSE {s}
  PROVE  ShareInv'
<1>1. /\ SharedOK(dev) /\ SessionOK(duo) /\ duo.master_selected
  BY DEF ShareInv, SessInv, SessionsExclusive
<1>2. SharedOK(s)
  BY <1>1, AlikeSharedKeeps
<1>3. CASE over
  <2>1. PICK o \in duo_reset_hardware(s) : dev' = duo_forgotten(o.dev)
    BY <1>3
  <2>2. SharedOK(o.dev) /\ o.dev.radio = NoTuner /\ ~o.dev.dual_mode
    BY <1>2, SharedReset
  <2>3. AlikeShared(o.dev, dev')
    BY <2>1, ForgottenShared, SMTT(20)
  <2>4. SharedOK(dev') /\ dev'.radio = NoTuner /\ ~dev'.dual_mode
    BY <2>2, <2>3, AlikeSharedKeeps, Zenon DEF AlikeShared
  <2>5. duo' = session_init
    BY <1>1, <1>3, MasterEnds, Zenon
  <2>6. ~duo'.master_initialised
    BY <2>5 DEF session_init
  <2>7. QED
    BY <2>4, <2>6, Zenon DEF ShareInv
<1>4. CASE ~over
  <2>1. dev' = s /\ duo'.master_selected
    BY <1>4, Zenon
  <2>2. duo'.master_initialised = duo.master_initialised
    BY <1>1, <2>1, MasterEnds, Zenon
  <2>3. QED
    BY <2>1, <2>2, AlikeShares
<1>5. QED
  BY <1>3, <1>4

\* DUO_RELEASE gives a role back.
LEMMA DuoReleaseShares ==
  ASSUME Sharing, SessInv, ShareInv, NEW c, DUO_RELEASE(c)
  PROVE  ShareInv'
<1> DEFINE over == ~release(duo, c).session.master_selected
<1>1. /\ c \in Clients /\ duo_active /\ owner' = owner
      /\ release(duo, c).result = "OK" /\ duo' = release(duo, c).session
  BY ServedIsClient DEF DUO_RELEASE, HasRole
<1>2. PICK s \in IF over THEN {duo_forgotten(o.dev) : o \in duo_reset_hardware(dev)}
                 ELSE {dev} : Answer(c, s, "none")
  BY SMTT(20) DEF DUO_RELEASE
<1>3. duo'.master_selected \in BOOLEAN /\ over = ~duo'.master_selected
  <2>1. SessionOK(duo) /\ SessionOK(duo')
    <3>1. ASSUME NEW r, r = release(duo, c).session PROVE SessionOK(r)
      BY <1>1, <3>1, LeaveKeeps DEF SessInv
    <3>2. QED
      BY <1>1, <3>1 DEF SessInv
  <2>2. QED
    BY <1>1, <2>1 DEF SessionOK, Sessions
<1>4. dev' = s
  BY <1>2 DEF Answer
<1>5. AlikeShared(dev, dev)
  BY DEF AlikeShared
<1> HIDE DEF over
<1>6. QED
  BY <1>1, <1>2, <1>3, <1>4, <1>5, RoleEndShares

\* DUO_SWAP_RATE: whatever fails, the master keeps an open handle or a recorded failure.
LEMMA SwapRateShares ==
  ASSUME Sharing, SessInv, ShareInv, NEW c, NEW rate, DUO_SWAP_RATE(c, rate)
  PROVE  ShareInv'
<1> DEFINE saved == duo_prepare_config(dev, duo.sample_rate_hz)
           Back(s) == [s EXCEPT !.duo_config = saved.duo_config]
           launch == IF dev.stream_thread_started THEN "duo" ELSE "none"
           Ends(o) ==
             IF o.status # "OK" THEN UNCHANGED duo /\ Answer(c, o.dev, "none")
             ELSE \E p \in duo_reset_hardware(duo_prepare_config(o.dev, rate)) :
               IF p.status # "OK" THEN UNCHANGED duo /\ Answer(c, Back(p.dev), "none")
               ELSE \E q \in configure_dual_radio(p.dev, p.dev.duo_config) :
                 IF q.status = "OK"
                 THEN /\ duo' = [duo EXCEPT !.sample_rate_hz = rate]
                      /\ Answer(c, q.dev, launch)
                 ELSE \E r \in configure_dual_radio(Back(q.dev), saved.duo_config) :
                        UNCHANGED duo /\ Answer(c, r.dev, "none")
           Good == SharedOK(dev') /\ HasReceiver(dev')
           Retuned == duo' = duo \/ duo' = [duo EXCEPT !.sample_rate_hz = rate]
<1>1. /\ SharedOK(dev) /\ SessionOK(duo) /\ HasReceiver(dev)
      /\ duo.master_initialised /\ duo.master_selected
  BY DEF DUO_SWAP_RATE, ShareInv, SessInv
<1>2. ASSUME Good, Retuned
      PROVE  ShareInv'
  <2>1. duo'.master_initialised /\ duo'.master_selected
    BY <1>1, <1>2 DEF SessionOK, Sessions
  <2>2. QED
    BY <1>2, <2>1, Zenon DEF ShareInv
<1> SUFFICES Good /\ Retuned
  BY <1>2
<1>3. PICK o \in stop_stream(saved) : Ends(o)
  BY Zenon DEF DUO_SWAP_RATE
<1>4. SharedOK(saved) /\ HasReceiver(saved)
  BY <1>1, PrepareShared
<1>5. \A s : AlikeShared(s, Back(s))
  BY DEF AlikeShared
<1>6. launch \in {"none", "start", "duo", "resume"}
  OBVIOUS
<1> HIDE DEF saved, Back, launch
<1>7. SharedOK(o.dev) /\ HasReceiver(o.dev) /\ ~o.dev.stream_thread_started
  BY <1>4, SharedStop
<1>8. CASE o.status # "OK"
  BY <1>3, <1>7, <1>8, SharedAnswer
<1>9. CASE o.status = "OK"
  <2> DEFINE next == duo_prepare_config(o.dev, rate)
  <2>1. PICK p \in duo_reset_hardware(next) :
          IF p.status # "OK" THEN UNCHANGED duo /\ Answer(c, Back(p.dev), "none")
          ELSE \E q \in configure_dual_radio(p.dev, p.dev.duo_config) :
                 IF q.status = "OK"
                 THEN /\ duo' = [duo EXCEPT !.sample_rate_hz = rate]
                      /\ Answer(c, q.dev, launch)
                 ELSE \E r \in configure_dual_radio(Back(q.dev), saved.duo_config) :
                        UNCHANGED duo /\ Answer(c, r.dev, "none")
    BY <1>3, <1>9
  <2>2. SharedOK(next) /\ HasReceiver(next) /\ ~next.stream_thread_started
    BY <1>7, PrepareShared DEF AlikeShared
  <2> HIDE DEF next
  <2>3. /\ SharedOK(p.dev) /\ p.dev.radio = NoTuner /\ ~p.dev.stream_thread_started
        /\ p.status # "OK" => HasReceiver(p.dev)
    BY <2>2, SharedReset
  <2>4. CASE p.status # "OK"
    <3>1. UNCHANGED duo /\ Answer(c, Back(p.dev), "none")
      BY <2>1, <2>4
    <3>2. SharedOK(Back(p.dev)) /\ HasReceiver(Back(p.dev))
      BY <1>5, <2>3, <2>4, AlikeSharedKeeps
    <3>3. QED
      BY <3>1, <3>2, SharedAnswer
  <2>5. CASE p.status = "OK"
    <3>1. PICK q \in configure_dual_radio(p.dev, p.dev.duo_config) :
             IF q.status = "OK"
             THEN duo' = [duo EXCEPT !.sample_rate_hz = rate] /\ Answer(c, q.dev, launch)
             ELSE \E r \in configure_dual_radio(Back(q.dev), saved.duo_config) :
                    UNCHANGED duo /\ Answer(c, r.dev, "none")
      BY <2>1, <2>5
    <3>2. /\ q.status = "OK" /\ SharedOK(q.dev) /\ q.dev.radio = BothTuners
          /\ ~q.dev.stream_thread_started /\ ~q.dev.stuck
      <4>1. /\ q.status = "OK" /\ SharedOK(q.dev) /\ q.dev.radio = BothTuners
            /\ q.dev.stream_thread_started = p.dev.stream_thread_started
            /\ q.dev.stuck = p.dev.stuck
        BY <2>3, SharedConfigure
      <4>2. ~p.dev.stuck
        BY <2>3 DEF SharedOK
      <4>3. QED
        BY <2>3, <4>1, <4>2, Zenon
    <3>3. Answer(c, q.dev, launch) /\ duo' = [duo EXCEPT !.sample_rate_hz = rate]
      BY <3>1, <3>2, Zenon
    <3>4. SharedOK(dev') /\ dev'.radio = BothTuners /\ ~dev'.stuck
      BY <1>6, <3>2, <3>3, SharedAnswer
    <3>5. QED
      BY <3>3, <3>4, OpenIsEnough
  <2>6. QED
    BY <2>4, <2>5
<1>10. QED
  BY <1>8, <1>9

\* Every request.
LEMMA RequestShares ==
  ASSUME Sharing, SessInv, ShareInv, NEW c, Request(c)
  PROVE  ShareInv'
<1>1. \A g : ~CONFIGURE(c, g) /\ ~SWAP_TUNER(c, g)
  BY ZenonT(30) DEF CONFIGURE, SWAP_TUNER, Serves, Sharing
<1>2. \A g : ~SWAP_MODE_SINGLE(c, g) /\ ~SWAP_MODE_DUAL(c, g)
  BY Zenon DEF SWAP_MODE_SINGLE, SWAP_MODE_DUAL, SwapMode, Serves, Sharing
<1>3. \A g : ~UPDATE_QUEUED(c, g) /\ \A fs : ~UPDATE(c, g, fs)
  BY Zenon DEF UPDATE_QUEUED, UPDATE, Serves, Sharing
<1>4. CASE \/ ACQUIRE(c) \/ START(c) \/ STOP(c) \/ RELEASE(c) \/ RESUME_MODE(c)
           \/ \E g \in DualConfigs : CONFIGURE_DUAL(c, g)
  BY <1>4, OwnerRequestShares
<1>5. CASE \E g : DUO_CONFIGURE(c, g) \/ DUO_UPDATE(c, g)
  BY <1>5, SettingsShare
<1>6. CASE \E role, t, rate : DUO_ACQUIRE(c, role, t, rate)
  BY <1>6, DuoAcquireShares
<1>7. CASE DUO_START(c) \/ DUO_STOP(c) \/ DUO_RELEASE(c)
  BY <1>7, DuoStartShares, DuoStopShares, DuoReleaseShares
<1>8. CASE \E rate : DUO_SWAP_RATE(c, rate)
  BY <1>8, SwapRateShares
<1>9. QED
  BY <1>1, <1>2, <1>3, <1>4, <1>5, <1>6, <1>7, <1>8 DEF Request

\* remove_client, on the receiver or on one with the write error taken.
LEMMA RemoveShares ==
  ASSUME Sharing, SessInv, ShareInv, NEW c \in Clients, NEW s, AlikeShared(dev, s),
         RemoveClient(c, s)
  PROVE  ShareInv'
<1> DEFINE r == disconnect(duo, c).session
           over == ~r.master_selected
<1>1. SharedOK(s)
  BY AlikeSharedKeeps DEF ShareInv
<1>2. CASE duo_active /\ role_for_descriptor(duo, c) # "none"
  <2>1. /\ duo' = r /\ owner' = owner
        /\ dev' \in IF over THEN {duo_forgotten(o.dev) : o \in duo_reset_hardware(s)} ELSE {s}
    BY <1>2, SMTT(20) DEF RemoveClient
  <2>2. r.master_selected \in BOOLEAN
    <3>1. SessionOK(r)
      BY LeaveKeeps DEF SessInv
    <3>2. QED
      BY <3>1 DEF SessionOK, Sessions
  <2>3. over = ~duo'.master_selected /\ duo'.master_selected \in BOOLEAN
        /\ duo' = disconnect(duo, c).session
    BY <2>1, <2>2
  <2> HIDE DEF over, r
  <2>4. QED
    BY <1>2, <2>1, <2>3, RoleEndShares
<1>3. CASE ~(duo_active /\ role_for_descriptor(duo, c) # "none")
  <2>1. /\ duo' = duo
        /\ IF owner = c THEN owner' = NoClient /\ dev' \in release_owner(s)
           ELSE dev' = s /\ owner' = owner
    BY <1>3, SMTT(20) DEF RemoveClient
  <2>2. CASE owner = c
    <3>1. SharedOK(dev') /\ dev'.radio = NoTuner /\ ~dev'.dual_mode
      BY <1>1, <2>1, <2>2, SharedRelease
    <3>2. ~duo.master_initialised
      BY <2>2, NoClientAssumption DEF SessInv, SessionsExclusive, ShareInv
    <3>3. QED
      BY <2>1, <3>1, <3>2, Zenon DEF ShareInv
  <2>3. CASE owner # c
    BY <2>1, <2>3, AlikeShares DEF ShareInv
  <2>4. QED
    BY <2>2, <2>3
<1>4. QED
  BY <1>2, <1>3

\* A step of the stream thread, given by the thread after it: it uses an open handle, and
\* when it leaves transfers behind it returns an error, which it then records.
LEMMA ThreadShares ==
  ASSUME ShareInv, StreamThread
  PROVE  ShareInv'
<1> DEFINE Rest(p) == /\ p.stray = dev.stray /\ p.radio = dev.radio
                      /\ p.dual_mode = dev.dual_mode /\ p.config = dev.config
                      /\ p.bootstrap_configured = dev.bootstrap_configured
                      /\ p.recovery_config_pending = dev.recovery_config_pending
                      /\ p.stream_thread_started = dev.stream_thread_started
                      /\ p.mode_swap_paused = dev.mode_swap_paused
           Good == Rest(dev') /\ (HasReceiver(dev) => HasReceiver(dev'))
<1>1. owner' = owner /\ duo' = duo
  BY ZenonT(30) DEF StreamThread, EnterStream, FirstIQ, WriteFails, ReportWriter, StreamFails,
         StoreStreaming, StoreResult, ownership
<1>2. SharedOK(dev)
  BY DEF ShareInv
<1>3. \/ EnterStream("thread") \/ FirstIQ("thread") \/ WriteFails("thread")
      \/ ReportWriter("thread") \/ StreamFails("thread") \/ StoreStreaming("thread")
      \/ StoreResult("thread")
  <2>1. dev.stray.pc = "none"
    BY <1>2 DEF SharedOK
  <2>2. /\ ~EnterStream("stray") /\ ~FirstIQ("stray") /\ ~WriteFails("stray")
        /\ ~ReportWriter("stray") /\ ~StreamFails("stray") /\ ~StoreStreaming("stray")
        /\ ~StoreResult("stray")
    BY <2>1, Zenon DEF EnterStream, FirstIQ, WriteFails, ReportWriter, StreamFails, StoreStreaming,
       StoreResult, Reporting
  <2>3. QED
    BY <2>2 DEF StreamThread, Slots
<1>4. dev.thread.pc # "none"
  BY <1>3, Zenon DEF EnterStream, FirstIQ, WriteFails, ReportWriter, StreamFails, StoreStreaming,
     StoreResult, Reporting
<1>5. dev.radio # NoTuner /\ dev.stream_thread_started
  BY <1>2, <1>4 DEF SharedOK
<1> SUFFICES Good
  <2>1. ASSUME Good PROVE SharedOK(dev')
    BY <1>2, <1>5, <2>1, Zenon DEF SharedOK
  <2>2. QED
    BY <1>1, <2>1, Zenon DEF ShareInv
<1>6. CASE EnterStream("thread")
  <2> DEFINE runs == [dev.thread EXCEPT !.pc = "run"]
  <2>1. CASE ~dev.stuck /\ dev' = [dev EXCEPT !.thread = runs]
    <3>1. Rest(dev') /\ ~dev'.stuck
      BY <2>1
    <3>2. QED
      BY <1>5, <3>1 DEF HasReceiver
  <2>2. CASE dev' = [dev EXCEPT !.thread = At("leave", 1)]
    <3>1. Rest(dev') /\ dev'.thread.pc = "leave" /\ dev'.thread.ret = 1
      BY <2>2 DEF At
    <3>2. QED
      BY <1>5, <3>1 DEF HasReceiver
  <2>3. QED
    BY <1>6, <2>1, <2>2 DEF EnterStream
<1>7. CASE FirstIQ("thread")
  <2>1. dev' = [dev EXCEPT !.first_iq_seen = TRUE]
    BY <1>7 DEF FirstIQ
  <2>2. Rest(dev') /\ AlikeShared(dev, dev')
    BY <2>1 DEF AlikeShared
  <2>3. QED
    BY <1>2, <2>2, AlikeSharedKeeps
<1>8. CASE WriteFails("thread") \/ ReportWriter("thread")
  <2>1. HasReceiver(dev) => ~dev.stuck
    BY <1>8, Zenon DEF WriteFails, ReportWriter, Reporting, HasReceiver
  <2>2. \/ \E x : dev' = [dev EXCEPT !.client_write_error = TRUE, !.thread = x]
        \/ \E x : dev' = [dev EXCEPT !.thread = x]
        \/ \E x, f : dev' = [dev EXCEPT !.client_write_error_fd = f, !.thread = x]
    BY <1>8, Zenon DEF WriteFails, ReportWriter
  <2>3. Rest(dev') /\ dev'.stuck = dev.stuck
    <3>1. CASE \E x : dev' = [dev EXCEPT !.client_write_error = TRUE, !.thread = x]
      BY <3>1
    <3>2. CASE \E x : dev' = [dev EXCEPT !.thread = x]
      BY <3>2
    <3>3. CASE \E x, f : dev' = [dev EXCEPT !.client_write_error_fd = f, !.thread = x]
      BY <3>3
    <3>4. QED
      BY <2>2, <3>1, <3>2, <3>3, Zenon
  <2>4. QED
    BY <1>5, <2>1, <2>3, SMTT(20) DEF HasReceiver
<1>9. CASE StreamFails("thread")
  <2>1. \/ dev' = [dev EXCEPT !.thread = At("leave", 1)]
        \/ dev' = [dev EXCEPT !.thread = At("leave", 1), !.stuck = TRUE]
    BY <1>9, Zenon DEF StreamFails
  <2>2. At("leave", 1).pc = "leave" /\ At("leave", 1).ret = 1
    BY DEF At
  <2>3. Rest(dev') /\ dev'.thread = At("leave", 1)
    <3>1. CASE dev' = [dev EXCEPT !.thread = At("leave", 1)]
      BY <3>1
    <3>2. CASE dev' = [dev EXCEPT !.thread = At("leave", 1), !.stuck = TRUE]
      BY <3>2
    <3>3. QED
      BY <2>1, <3>1, <3>2, Zenon
  <2>4. QED
    BY <1>5, <2>2, <2>3 DEF HasReceiver
<1>10. CASE StoreStreaming("thread")
  <2> DEFINE stores == [dev.thread EXCEPT !.pc = "store"]
  <2>1. dev' = [dev EXCEPT !.thread = stores, !.streaming = FALSE]
        /\ dev.thread.pc \in {"leave", "cut"}
    BY <1>10, Zenon DEF StoreStreaming
  <2>2. stores.pc = "store" /\ stores.ret = dev.thread.ret
    OBVIOUS
  <2> HIDE DEF stores
  <2>3. Rest(dev') /\ dev'.stuck = dev.stuck /\ dev'.thread = stores
    BY <2>1
  <2>4. QED
    BY <1>5, <2>1, <2>2, <2>3, Zenon DEF HasReceiver
<1>11. CASE StoreResult("thread")
  <2> DEFINE after == [dev EXCEPT !.stream_result = dev.thread.ret,
                                  !.stream_error = (dev.thread.ret = 1)]
  <2>1. dev.thread.pc = "store" /\ dev' = [after EXCEPT !.thread = At("done", 0)]
    BY <1>11, ZenonT(30) DEF StoreResult
  <2>2. /\ Rest(dev') /\ dev'.stuck = dev.stuck /\ dev'.thread.pc = "done"
        /\ dev'.stream_error = (dev.thread.ret = 1)
    BY <2>1 DEF At
  <2>3. QED
    BY <1>5, <2>1, <2>2, Zenon DEF HasReceiver
<1>12. QED
  BY <1>3, <1>6, <1>7, <1>8, <1>9, <1>10, <1>11

\* One step of the main thread.
LEMMA MainShares ==
  ASSUME Sharing, SessInv, LoopInv, ShareInv, Main
  PROVE  ShareInv'
<1> SharedOK(dev) /\ AlikeShared(dev, dev)
  BY DEF ShareInv, AlikeShared
<1>1. ASSUME NEW c \in Clients, Request(c) PROVE ShareInv'
  BY <1>1, RequestShares
<1>2. ASSUME NEW c \in Clients, Accept(c) PROVE ShareInv'
  BY <1>2 DEF Accept, ShareInv
<1>3. ASSUME NEW c \in Clients, Hangup(c) \/ CloseClient(c) PROVE ShareInv'
  <2>1. RemoveClient(c, dev)
    BY <1>3 DEF Hangup, CloseClient
  <2>2. QED
    BY <2>1, RemoveShares
<1>4. ASSUME RemoveFailed PROVE ShareInv'
  <2>1. evict \in Clients /\ RemoveClient(evict, dev)
    BY <1>4 DEF RemoveFailed, LoopInv
  <2>2. QED
    BY <2>1, RemoveShares
<1>5. ASSUME EvictWriter PROVE ShareInv'
  <2> DEFINE cleared == [dev EXCEPT !.client_write_error = FALSE,
                                    !.client_write_error_fd = NoClient]
  <2>1. \/ \E c \in Connected : RemoveClient(c, cleared)
        \/ dev' = cleared /\ UNCHANGED ownership
    BY <1>5 DEF EvictWriter, Connected
  <2>2. AlikeShared(dev, cleared)
    BY DEF AlikeShared
  <2> HIDE DEF cleared
  <2>3. CASE \E c \in Connected : RemoveClient(c, cleared)
    BY <2>2, <2>3, ConnectedAreClients, RemoveShares
  <2>4. CASE dev' = cleared /\ UNCHANGED ownership
    BY <2>2, <2>4, AlikeShares DEF ShareInv, ownership
  <2>5. QED
    BY <2>1, <2>3, <2>4
<1>6. ASSUME Recover PROVE ShareInv'
  <2> DEFINE active == owner # NoClient \/ (duo_active /\ duo.master_selected)
  <2>1. PICK s \in recover_failed_stream(dev, active) : dev' \in finish_recovery_config(s)
    BY <1>6 DEF Recover
  <2>2. owner' = owner /\ duo' = duo
    BY <1>6 DEF Recover, ownership
  <2>3. active \in BOOLEAN /\ (duo.master_initialised => active)
    BY DEF SessInv, SessionsExclusive, ShareInv
  <2> HIDE DEF active
  <2>4. /\ SharedOK(s)
        /\ active /\ HasReceiver(dev) => HasReceiver(s)
        /\ dev.radio = NoTuner /\ ~dev.dual_mode => s.radio = NoTuner /\ ~s.dual_mode
    BY <2>3, SharedRecover
  <2>5. dev' = s
    BY <2>1, <2>4, SharedFinish
  <2>6. QED
    BY <2>2, <2>3, <2>4, <2>5, Zenon DEF ShareInv
<1>7. ASSUME NextRound PROVE ShareInv'
  BY <1>7 DEF NextRound, ownership, ShareInv
<1>8. ASSUME Shutdown PROVE ShareInv'
  <2>1. Connected = {} /\ duo' = duo
    BY <1>8, Zenon DEF Shutdown
  <2>2. owner = NoClient /\ ~duo.master_initialised
    BY <2>1 DEF SessInv, SessionOK, SessionsExclusive, ShareInv
  <2>3. dev.radio = NoTuner
    BY <2>2 DEF ShareInv
  <2>4. dev' = dev /\ owner' = owner
    BY <1>8, <2>3 DEF Shutdown
  <2>5. QED
    BY <2>1, <2>4, SMTT(20) DEF ShareInv
<1>9. QED
  BY <1>1, <1>2, <1>3, <1>4, <1>5, <1>6, <1>7, <1>8, SMTT(20) DEF Main

\* Every step of a shared daemon keeps the invariant of its receiver.
LEMMA StepShares ==
  ASSUME Sharing
  PROVE  IInv /\ ShareInv /\ [Next]_vars => ShareInv'
<1> SUFFICES ASSUME IInv, ShareInv, [Next]_vars PROVE ShareInv'
  OBVIOUS
<1>1. CASE Main
  BY <1>1, MainShares DEF IInv
<1>2. CASE StreamThread
  BY <1>2, ThreadShares
<1>3. CASE StopSignal
  <2>1. owner' = owner /\ duo' = duo /\ dev' = [dev EXCEPT !.running = FALSE]
    BY <1>3 DEF StopSignal, ownership
  <2>2. AlikeShared(dev, dev')
    BY <2>1 DEF AlikeShared
  <2>3. QED
    BY <2>1, <2>2, AlikeShares DEF ShareInv
<1>4. CASE UNCHANGED vars
  BY <1>4 DEF vars, ShareInv
<1>5. QED
  BY <1>1, <1>2, <1>3, <1>4 DEF Next

\* The daemon starts without a handle and without a master.
LEMMA InitShares == Init => ShareInv
<1> SUFFICES ASSUME Init PROVE ShareInv
  OBVIOUS
<1>1. dev = NewDevice /\ duo = session_init
  BY DEF Init
<1>2. /\ NewDevice.radio = NoTuner /\ NewDevice.thread = NoThread
      /\ NewDevice.stray = NoThread /\ NewDevice.stream_thread_started = FALSE
      /\ NewDevice.mode_swap_paused = FALSE /\ NewDevice.config = NoConfig
      /\ NewDevice.bootstrap_configured = FALSE /\ NewDevice.stuck = FALSE
      /\ NewDevice.recovery_config_pending = FALSE /\ NewDevice.dual_mode = FALSE
  BY Zenon DEF NewDevice
<1>3. NoThread.pc = "none" /\ session_init.master_initialised = FALSE
  BY DEF NoThread, At, session_init
<1>4. QED
  BY <1>1, <1>2, <1>3, Zenon DEF ShareInv, SharedOK

\* A running master has the receiver, or a recorded failure from which it recovers.
THEOREM MasterKeepsReceiver == ASSUME Sharing PROVE Spec => []MasterHasReceiver
<1>1. ShareInv => MasterHasReceiver
  BY DEF ShareInv, SharedOK, HasReceiver, MasterHasReceiver
<1>2. QED
  BY <1>1, Inductive, InitShares, StepShares, PTL DEF Spec
=============================================================================
