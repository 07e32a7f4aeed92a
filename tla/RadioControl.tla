---------------------------- MODULE RadioControl ----------------------------
(***************************************************************************)
(* What the daemon does to its one receiver (daemon/openrspd.c, the Linux  *)
(* and macOS build): configuring it, changing it in place, stopping the    *)
(* stream, closing the handle, recovering from a failed stream.            *)
(*                                                                         *)
(* Each of these runs inside one handler of the main thread and may fail   *)
(* (Faults), so each is a function from a device record to the set of its  *)
(* outcomes: device records, or pairs of one and a status.                 *)
(***************************************************************************)
EXTENDS DuoSession, FiniteSets

CONSTANTS
  SingleConfigs,  \* openrsp_radio_config values: tuner, rate, and rf for the rest
  DualConfigs,    \* openrsp_dual_config values: rate, and rf of each tuner
  Faults          \* the operations that may fail, see FaultKinds

\* openrsp_radio_config: rf stands for every field an update changes in place.
NoConfig == [tuner |-> NoTuner, rate |-> Unspecified, rf |-> 0]
\* openrsp_dual_config, and also what the hardware was last set to.
NoDual == [rate |-> Unspecified, rf |-> [t \in Tuners |-> 0]]

FaultKinds == {"open",       \* mirisdr_open_tuner
               "absent",     \* the receiver cannot be found or is ambiguous
               "configure",  \* a full configuration
               "update",     \* a change in place
               "stop",       \* mirisdr_streaming_stop
               "stream",     \* mirisdr_read_async returns an error
               "drain",      \* and leaves transfers behind: close is -EBUSY
               "close",      \* mirisdr_close fails, but not with -EBUSY
               "create",     \* pthread_create
               "write",      \* a socket refuses a frame
               "signal"}     \* SIGTERM or SIGINT

ASSUME ConfigAssumption ==
  /\ \A c \in SingleConfigs : c.tuner \in Tuners /\ c.rate \in Rates /\ c.rf \in Nat \ {0}
  /\ \A c \in DualConfigs : c.rate \in Rates /\ \A t \in Tuners : c.rf[t] \in Nat \ {0}
ASSUME FaultAssumption == Faults \subseteq FaultKinds

BothTuners == 3
\* Where a stream thread is, what read_async returned to it, and the client
\* whose socket it found broken.
At(pc, ret) == [pc |-> pc, ret |-> ret, to |-> NoClient]
NoThread == At("none", 0)

\* The fields of daemon_state about the receiver, as run_server initialises them.
NewDevice ==
  [running |-> TRUE,
   radio |-> NoTuner,           \* the tuner the handle was opened for
   hw |-> NoDual,               \* what the frontends are set to
   stuck |-> FALSE,             \* libusb still owns transfers of the handle
   streaming |-> FALSE, stream_thread_started |-> FALSE,
   stream_error |-> FALSE, stream_result |-> 0,
   thread |-> NoThread,         \* the thread in state->stream_thread
   stray |-> NoThread,          \* a thread that was overwritten there
   first_iq_seen |-> FALSE,
   recovery_config_pending |-> FALSE, mode_swap_paused |-> FALSE,
   configured |-> FALSE, config |-> NoConfig,
   dual_mode |-> FALSE, dual_config |-> NoDual,
   bootstrap_configured |-> FALSE, bootstrap_config |-> NoConfig,
   duo_config_a |-> FALSE, duo_config_b |-> FALSE, duo_config |-> NoDual,
   client_write_error |-> FALSE, client_write_error_fd |-> NoClient]
-----------------------------------------------------------------------------
(* The handle and the stream thread. *)

Out(s, status) == [dev |-> s, status |-> status]

\* The outcomes in S, when one of these faults may happen.
MayFail(kinds, S) == IF Faults \intersect kinds # {} THEN S ELSE {}

\* A thread that reports a broken socket, one that uses the handle, and one
\* that main can still cancel.
Reporting == {"report", "report_end"}
InReadAsync == {"enter", "run", "leave"}
Cancellable == {"enter", "run", "report"}

\* The stores at the end of stream_main, after read_async returned ret.
Stored(s, ret) == [s EXCEPT !.streaming = FALSE, !.stream_result = ret,
                            !.stream_error = (ret = 1)]

\* The ways read_async returns to a thread that main waits for: what it
\* returns, and whether libusb keeps transfers.
Endings(thread, cancelled) ==
  IF thread.pc \notin Cancellable THEN {<<thread.ret, FALSE>>}
  ELSE (IF cancelled THEN {<<0, FALSE>>} ELSE {})
         \union MayFail({"stream"}, {<<1, FALSE>>})
         \union MayFail({"drain"}, {<<1, TRUE>>})

\* pthread_join: the thread ends, with all its stores.  No outcome: main waits.
pthread_join(s, cancelled) ==
  LET gone == [s EXCEPT !.thread = NoThread,
                        !.client_write_error_fd = IF s.thread.pc \in Reporting
                                                  THEN s.thread.to ELSE @]
  IN IF s.thread.pc \in {"none", "done"} THEN {gone}
     ELSE {[Stored(gone, e[1]) EXCEPT !.stuck = @ \/ e[2]]
           : e \in Endings(s.thread, cancelled)}

stop_stream(s) ==
  IF ~s.stream_thread_started THEN {Out(s, "OK")}
  ELSE UNION {LET ended == [j EXCEPT !.stream_thread_started = FALSE, !.streaming = FALSE]
              IN {Out(ended, IF j.stream_result = 0 THEN "OK" ELSE "IO_ERROR")}
                   \union MayFail({"stop"}, {Out(ended, "IO_ERROR")})
              : j \in pthread_join(s, s.radio # NoTuner)}

\* A thread whose handle is closed under it finds its stream cancelled.
Cut(thread) ==
  CASE thread.pc \in InReadAsync -> [thread EXCEPT !.pc = "cut"]
    [] thread.pc \in Reporting -> [thread EXCEPT !.pc = "report_end"]
    [] OTHER -> thread

close_radio(s) ==
  LET closed == [s EXCEPT !.radio = NoTuner, !.hw = NoDual, !.stuck = FALSE,
                          !.thread = Cut(s.thread), !.stray = Cut(s.stray)]
      busy == {Out([closed EXCEPT !.running = FALSE], "EBUSY")}
  IN IF s.radio = NoTuner THEN {Out(s, "OK")}
     ELSE IF s.stuck THEN busy
     ELSE {Out(closed, "OK")}
            \union MayFail({"close"}, {Out(closed, "FAILED")})
            \union (IF s.thread.pc \in Cancellable THEN MayFail({"drain"}, busy) ELSE {})

\* mirisdr_cancel_async is lost on a stream that is not running yet.
cancel_async(s) ==
  CASE s.radio # NoTuner /\ s.thread.pc = "run" -> [s EXCEPT !.thread = At("leave", 0)]
    [] s.radio # NoTuner /\ s.thread.pc = "report" -> [s EXCEPT !.thread.pc = "report_end"]
    [] OTHER -> s

\* pthread_create(stream_main): the new thread takes the place of any other.
\* Bound: one overwritten thread at a time.
pthread_create(s) ==
  LET fresh == [s EXCEPT !.thread = At("enter", 0),
                         !.stream_thread_started = TRUE]
  IN IF s.thread.pc = "none" THEN {fresh}
     ELSE IF s.stray.pc = "none" THEN {[fresh EXCEPT !.stray = s.thread]}
     ELSE {}
-----------------------------------------------------------------------------
(* Configuration. *)

\* Close first; when the handle is quarantined the configuration ends there.
Reopening(s, Attempt(_)) ==
  UNION {IF q.status = "EBUSY" THEN {Out(q.dev, "IO_ERROR")} ELSE Attempt(q.dev)
         : q \in close_radio(s)}

\* What the two channels are programmed to: the other one has no settings.
SingleHw(t, c) == [rate |-> c.rate, rf |-> [u \in Tuners |-> IF u = t THEN c.rf ELSE 0]]

\* Three attempts; a handle that is open is used as it is, whatever its tuner.
configure_radio(s, c) ==
  LET Applied(p, t) ==
        Out([p EXCEPT !.radio = t, !.hw = SingleHw(t, c), !.dual_mode = FALSE], "OK")
      Opened(p) == {Applied(p, c.tuner)}
                     \union MayFail({"open", "configure"}, {Out(p, "IO_ERROR")})
                     \union MayFail({"absent"}, {Out(p, "BAD_REQUEST")})
      Attempts(p) == IF p.radio = NoTuner THEN Opened(p)
                     ELSE {Applied(p, p.radio)}
                            \union MayFail({"configure"}, Reopening(p, Opened))
      Single(p) == Attempts([p EXCEPT !.configured = FALSE])
  IN IF s.dual_mode /\ s.radio # NoTuner THEN Reopening(s, Single) ELSE Attempts(s)

\* Mutant: an open single-tuner handle is kept for both tuners.
configure_dual_in_place(s, c) ==
  {Out([s EXCEPT !.radio = IF @ = NoTuner THEN BothTuners ELSE @, !.hw = c,
                 !.dual_mode = TRUE, !.dual_config = c, !.configured = TRUE], "OK")}

configure_dual_radio(s, c) ==
  LET Attempt(p) ==
        LET open == [p EXCEPT !.radio = BothTuners]
        IN {Out([open EXCEPT !.hw = c, !.dual_mode = TRUE, !.dual_config = c,
                             !.configured = TRUE], "OK")}
             \union MayFail({"configure"}, {Out(q.dev, "IO_ERROR") : q \in close_radio(open)})
             \union (IF p.radio = NoTuner
                     THEN MayFail({"open", "absent"}, {Out(p, "IO_ERROR")}) ELSE {})
      Dual(p) == Attempt([p EXCEPT !.configured = FALSE])
  IN IF ~s.dual_mode /\ s.radio # NoTuner THEN Reopening(s, Dual) ELSE Attempt(s)

\* Rate and rf of the hardware, where the code skips what it believes is set.
SetSingle(s, believed, c) ==
  LET rates == {IF c.rate # believed.rate THEN c.rate ELSE s.hw.rate}
      rfs == {IF c.rf # believed.rf THEN c.rf ELSE s.hw.rf[s.radio]}
      Set(r, f) == [s EXCEPT !.hw = [rate |-> r, rf |-> [s.hw.rf EXCEPT ![s.radio] = f]]]
  IN {Out(Set(r, f), "OK") : r \in rates, f \in rfs}
       \union MayFail({"update"}, {Out(Set(r, f), "IO_ERROR") :
                                     r \in rates \union {s.hw.rate},
                                     f \in rfs \union {s.hw.rf[s.radio]}})

\* One channel of a dual session.
SetChannel(s, t, f) ==
  LET set == [s EXCEPT !.hw.rf[t] = f]
  IN {Out(set, "OK")} \union MayFail({"update"}, {Out(set, "IO_ERROR"), Out(s, "IO_ERROR")})

apply_update(s, c) ==
  IF s.dual_mode
  THEN IF c.rate # s.dual_config.rate THEN {Out(s, "BAD_REQUEST")}
       ELSE {IF o.status = "OK"
             THEN Out([o.dev EXCEPT !.dual_config.rf[c.tuner] = c.rf], "OK") ELSE o
             : o \in SetChannel(s, c.tuner, c.rf)}
  ELSE IF c.tuner # s.config.tuner THEN {Out(s, "BAD_REQUEST")}
  ELSE {IF o.status = "OK" THEN Out([o.dev EXCEPT !.config = c], "OK") ELSE o
        : o \in SetSingle(s, s.config, c)}
-----------------------------------------------------------------------------
(* Recovery, at the top of the main loop. *)

bootstrap(s) == IF s.bootstrap_configured THEN s.bootstrap_config ELSE s.config

\* The stream starts again; a thread that cannot be created is a failure, which
\* in single mode closes the handle.
Restarted(s) ==
  LET ready == [s EXCEPT !.first_iq_seen = FALSE, !.stream_error = FALSE,
                         !.stream_result = 0, !.streaming = TRUE]
      failed == [ready EXCEPT !.streaming = FALSE, !.stream_error = TRUE]
  IN {[t EXCEPT !.recovery_config_pending = ~s.dual_mode] : t \in pthread_create(ready)}
       \union MayFail({"create"}, IF s.dual_mode THEN {failed}
                                  ELSE {q.dev : q \in close_radio(failed)})

\* Mutant: recovery waits for somebody else to join the thread.
recover_unjoined(s, active) ==
  IF ~s.stream_error \/ s.streaming \/ s.stream_thread_started \/ ~active THEN {s}
  ELSE UNION {IF o.status = "OK" THEN Restarted(o.dev) ELSE {o.dev}
              : o \in configure_radio(s, bootstrap(s))}

\* active: some client has the receiver.
recover_failed_stream(s, active) ==
  LET Joined == IF ~s.stream_thread_started THEN {s}
                ELSE {[j EXCEPT !.stream_thread_started = FALSE] : j \in pthread_join(s, FALSE)}
      Reopen(p) ==
        IF p.dual_mode
        THEN UNION {IF o.status = "OK" THEN Restarted(o.dev) ELSE {o.dev}
                    : o \in configure_dual_radio(p, p.dual_config)}
        ELSE IF bootstrap(p) = NoConfig THEN {p}
        ELSE UNION {IF o.status # "OK" THEN {o.dev}
                    ELSE Restarted([o.dev EXCEPT !.configured = TRUE])
                    : o \in configure_radio(p, bootstrap(p))}
      Closed(p) ==
        UNION {IF q.status = "EBUSY" THEN {q.dev}
               ELSE LET r == [q.dev EXCEPT !.configured = FALSE,
                                           !.recovery_config_pending = FALSE]
                    IN IF ~active THEN {r} ELSE MayFail({"absent"}, {r}) \union Reopen(r)
               : q \in close_radio(p)}
  IN IF ~s.stream_error \/ s.streaming THEN {s} ELSE UNION {Closed(p) : p \in Joined}

\* Mutant: the pending configuration is forgotten and not applied.
finish_recovery_skipped(s) == {[s EXCEPT !.recovery_config_pending = @ /\ ~s.first_iq_seen]}

finish_recovery_config(s) ==
  IF s.dual_mode \/ ~s.recovery_config_pending \/ ~s.first_iq_seen \/ s.radio = NoTuner
  THEN {s}
  ELSE {LET done == [o.dev EXCEPT !.recovery_config_pending = FALSE]
        IN IF o.status = "OK" THEN done
           ELSE cancel_async([done EXCEPT !.stream_error = TRUE])
        : o \in SetSingle(s, bootstrap(s), s.config)}
-----------------------------------------------------------------------------
(* Releasing the receiver. *)

Closed(s) == {[q.dev EXCEPT !.configured = FALSE] : q \in close_radio(s)}
Stopped(s) == IF s.radio = NoTuner THEN {s} ELSE {o.dev : o \in stop_stream(s)}

\* A dual or a failed handle is closed, the handle of a single tuner is kept open.
Relinquished(s) ==
  {[d EXCEPT !.streaming = FALSE, !.stream_error = FALSE, !.stream_result = 0,
             !.dual_mode = FALSE, !.mode_swap_paused = FALSE]
   : d \in IF (s.dual_mode \/ s.stream_error) /\ s.radio # NoTuner THEN Closed(s) ELSE {s}}

\* Mutant: the stream of the owner is not stopped.
release_owner_running(s) == Relinquished(s)

\* release_client, when the descriptor is the owner of a single-client session.
release_owner(s) == UNION {Relinquished(t) : t \in Stopped(s)}

\* duo_reset_hardware: both steps are taken, and either may fail.
duo_reset_hardware(s) ==
  UNION {{Out([q.dev EXCEPT !.configured = FALSE, !.dual_mode = FALSE],
              IF o.status = "OK" /\ q.status = "OK" THEN "OK" ELSE "IO_ERROR")
          : q \in close_radio(o.dev)}
         : o \in IF s.radio = NoTuner THEN {Out(s, "OK")} ELSE stop_stream(s)}

\* The end of a master/slave session.
duo_forgotten(s) == [s EXCEPT !.duo_config_a = FALSE, !.duo_config_b = FALSE]
=============================================================================
