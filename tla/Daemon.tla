------------------------------- MODULE Daemon -------------------------------
(***************************************************************************)
(* The daemon openrspd: one receiver, its clients and its stream thread    *)
(* (daemon/openrspd.c, the Linux and macOS build).                         *)
(*                                                                         *)
(* The main thread is a poll loop: at the top it evicts a client whose     *)
(* samples could not be written, recovers a failed stream and finishes a   *)
(* recovery; then it accepts, removes lost clients and serves at most one  *)
(* request of each client.  A stream thread runs beside it and ends with   *)
(* the stores of stream_main.  A handler is one step of the main thread.   *)
(*                                                                         *)
(* A request that is refused changes nothing, and is not an action.  The   *)
(* device inventory is abstracted to the fault "absent"; the removal       *)
(* report, sample sequence numbers and the API lock are left out.          *)
(***************************************************************************)
EXTENDS RadioControl

CONSTANTS Commands  \* the request types the clients use

CommandKinds == {"ACQUIRE", "START", "STOP", "RELEASE", "CONFIGURE", "CONFIGURE_DUAL",
                 "SWAP_TUNER", "SWAP_MODE", "RESUME_MODE", "UPDATE", "DUO_ACQUIRE",
                 "DUO_CONFIGURE", "DUO_START", "DUO_STOP", "DUO_RELEASE",
                 "DUO_SWAP_RATE", "DUO_UPDATE"}

ASSUME CommandAssumption == Commands \subseteq CommandKinds

VARIABLES
  clients,     \* the accepted connection in each slot
  owner,       \* state->owner
  duo,         \* state->duo
  duo_active,  \* state->duo_active
  dev,         \* the receiver, its configurations and its stream, see NewDevice
  asked,       \* history: the newest rf accepted for each tuner of a dual session
  served,      \* the clients served in this round of the poll loop
  evict,       \* the client serve_request failed for, to be removed at once
  loop         \* the phase of the main loop

vars == <<clients, owner, duo, duo_active, dev, asked, served, evict, loop>>
ownership == <<clients, owner, duo, duo_active>>

\* Bound: as many slots as clients, OPENRSPD_MAX_CLIENTS in the code.
MaxClients == Cardinality(Clients)
Connected == {clients[i] : i \in 1..MaxClients} \ {NoClient}
Without(c) == [i \in 1..MaxClients |-> IF clients[i] = c THEN NoClient ELSE clients[i]]

NothingAsked == [t \in Tuners |-> 0]

Init ==
  /\ clients = [i \in 1..MaxClients |-> NoClient]
  /\ owner = NoClient /\ duo = session_init /\ duo_active = FALSE
  /\ dev = NewDevice
  /\ asked = NothingAsked
  /\ served = {} /\ evict = NoClient /\ loop = "top"
-----------------------------------------------------------------------------
(* The loss of a client. *)

\* Mutant: only the owner is released, a master or a slave keeps its role.
RemoveOwner(c, s) ==
  /\ clients' = Without(c)
  /\ IF owner = c
     THEN owner' = NoClient /\ dev' \in release_owner(s) /\ asked' = NothingAsked
     ELSE dev' = s /\ UNCHANGED <<owner, asked>>
  /\ UNCHANGED <<duo, duo_active>>

\* remove_client: release_client, and the end of the connection.  s is dev, or
\* dev with the write error taken.
RemoveClient(c, s) ==
  LET out == disconnect(duo, c)
      over == ~out.session.master_selected
  IN /\ clients' = Without(c)
     /\ IF duo_active /\ role_for_descriptor(duo, c) # "none"
        THEN /\ duo' = out.session
             /\ duo_active' = ~over
             /\ dev' \in IF over THEN {duo_forgotten(o.dev) : o \in duo_reset_hardware(s)}
                         ELSE {s}
             /\ asked' = IF over THEN NothingAsked ELSE [asked EXCEPT ![duo.slave_tuner] = 0]
             /\ UNCHANGED owner
        ELSE /\ UNCHANGED <<duo, duo_active>>
             /\ IF owner = c
                THEN owner' = NoClient /\ dev' \in release_owner(s) /\ asked' = NothingAsked
                ELSE dev' = s /\ UNCHANGED <<owner, asked>>
-----------------------------------------------------------------------------
(* Answering a request. *)

\* The poll loop serves c's request now.
Serves(c, command) ==
  /\ loop \in {"accept", "hangup", "serve"} /\ evict = NoClient
  /\ c \in Connected \ served
  /\ command \in Commands

\* What follows the response: "start" creates the thread that START prepared,
\* "resume" and "duo" prepare the stream themselves.
Launched(s, launch) ==
  LET ready == CASE launch = "start" -> s
                 [] launch = "duo" ->
                      [s EXCEPT !.first_iq_seen = FALSE, !.streaming = TRUE,
                                !.stream_error = FALSE]
                 [] launch = "resume" ->
                      [s EXCEPT !.first_iq_seen = FALSE, !.streaming = TRUE,
                                !.stream_error = FALSE, !.recovery_config_pending = FALSE]
  IN {Out(t, "OK") : t \in pthread_create(ready)}
       \union MayFail({"create"}, {Out(IF launch = "start"
                                       THEN [ready EXCEPT !.streaming = FALSE] ELSE ready,
                                       "FAILED")})

\* The response, the notification of the peer and the launch: the first that
\* fails ends the handler, and the loop removes the client.
Answer(c, s, launch) ==
  /\ \/ /\ "write" \in Faults
        /\ dev' = s /\ evict' = c
     \/ /\ launch = "none"
        /\ dev' = s /\ evict' = NoClient
     \/ /\ launch # "none"
        /\ \E o \in Launched(s, launch) :
             dev' = o.dev /\ evict' = IF o.status = "OK" THEN NoClient ELSE c
  /\ served' = served \union {c} /\ loop' = "serve"
-----------------------------------------------------------------------------
(* The requests of a client that owns the receiver. *)

ACQUIRE(c) ==
  /\ Serves(c, "ACQUIRE")
  /\ ~duo_active /\ owner = NoClient /\ dev.running
  /\ owner' = c
  /\ Answer(c, dev, "none")
  /\ UNCHANGED <<clients, duo, duo_active, asked>>

\* Mutant: a swap that waits for its resume request is not looked at.
START_PAUSED(c) ==
  /\ Serves(c, "START") /\ owner = c
  /\ dev.radio # NoTuner /\ ~dev.stream_thread_started
  /\ Answer(c, [dev EXCEPT !.streaming = TRUE, !.stream_error = FALSE,
                           !.stream_result = 0], "start")
  /\ UNCHANGED <<ownership, asked>>

START(c) ==
  /\ Serves(c, "START") /\ owner = c
  /\ dev.radio # NoTuner /\ ~dev.stream_thread_started /\ ~dev.mode_swap_paused
  /\ Answer(c, [dev EXCEPT !.streaming = TRUE, !.stream_error = FALSE,
                           !.stream_result = 0], "start")
  /\ UNCHANGED <<ownership, asked>>

STOP(c) ==
  /\ Serves(c, "STOP") /\ owner = c /\ dev.radio # NoTuner
  /\ \E o \in stop_stream(dev) : Answer(c, o.dev, "none")
  /\ UNCHANGED <<ownership, asked>>

RELEASE(c) ==
  /\ Serves(c, "RELEASE") /\ owner = c
  /\ owner' = NoClient /\ asked' = NothingAsked
  /\ \E s \in release_owner(dev) : Answer(c, s, "none")
  /\ UNCHANGED <<clients, duo, duo_active>>

\* The bookkeeping after a single or a dual configuration.
Adopted(s, g) == [s EXCEPT !.config = g, !.bootstrap_config = g,
                           !.bootstrap_configured = TRUE, !.configured = TRUE]
AdoptedDual(s) == [s EXCEPT !.bootstrap_configured = FALSE]

CONFIGURE(c, g) ==
  /\ Serves(c, "CONFIGURE") /\ owner = c
  /\ \E o \in configure_radio(dev, g) :
       /\ Answer(c, IF o.status = "OK" THEN Adopted(o.dev, g) ELSE o.dev, "none")
       /\ asked' = IF o.status = "OK" THEN NothingAsked ELSE asked
  /\ UNCHANGED ownership

CONFIGURE_DUAL(c, g) ==
  /\ Serves(c, "CONFIGURE_DUAL") /\ owner = c
  /\ \E o \in configure_dual_radio(dev, g) :
       /\ Answer(c, IF o.status = "OK" THEN AdoptedDual(o.dev) ELSE o.dev, "none")
       /\ asked' = IF o.status = "OK" THEN g.rf ELSE NothingAsked
  /\ UNCHANGED ownership

\* Stop the stream and close the handle, for a swap.
stop_and_close(s) ==
  UNION {IF o.status # "OK" THEN {o}
         ELSE {Out(q.dev, IF q.status = "OK" THEN "OK" ELSE "IO_ERROR")
               : q \in close_radio(o.dev)}
         : o \in stop_stream(s)}

Then(outcomes, Step(_)) == UNION {IF o.status = "OK" THEN Step(o.dev) ELSE {o} : o \in outcomes}

SWAP_TUNER(c, g) ==
  LET Single(s) == configure_radio(s, g)
  IN /\ Serves(c, "SWAP_TUNER") /\ owner = c
     /\ dev.configured /\ ~dev.dual_mode
     /\ \E o \in Then(stop_and_close(dev), Single) :
          Answer(c, IF o.status # "OK" THEN o.dev
                    ELSE [Adopted(o.dev, g) EXCEPT
                            !.mode_swap_paused = dev.stream_thread_started], "none")
     /\ UNCHANGED <<ownership, asked>>

\* A mode swap to the configuration that Configure applies and Adopt records.
\* When it fails, a session that was streaming returns to its old configuration.
SwapMode(c, Configure(_), Adopt(_), rf) ==
  LET Rollback(s) == IF dev.dual_mode THEN configure_dual_radio(s, dev.dual_config)
                     ELSE configure_radio(s, dev.config)
  IN /\ Serves(c, "SWAP_MODE") /\ owner = c /\ dev.configured
     /\ \E o \in Then(stop_and_close(dev), Configure) :
          IF o.status = "OK"
          THEN /\ Answer(c, [Adopt(o.dev) EXCEPT
                               !.configured = TRUE, !.recovery_config_pending = FALSE,
                               !.mode_swap_paused = dev.stream_thread_started], "none")
               /\ asked' = rf
          ELSE /\ asked' = NothingAsked
               /\ IF ~dev.stream_thread_started THEN Answer(c, o.dev, "none")
                  ELSE \E r \in Rollback(o.dev) :
                         IF r.status # "OK" THEN Answer(c, r.dev, "none")
                         ELSE Answer(c, [r.dev EXCEPT !.configured = TRUE,
                                                      !.mode_swap_paused = FALSE], "resume")
     /\ UNCHANGED ownership

SWAP_MODE_SINGLE(c, g) ==
  LET Single(s) == configure_radio(s, g)
      Adopt(s) == Adopted(s, g)
  IN SwapMode(c, Single, Adopt, NothingAsked)

SWAP_MODE_DUAL(c, g) ==
  LET Dual(s) == configure_dual_radio(s, g)
  IN SwapMode(c, Dual, AdoptedDual, g.rf)

RESUME_MODE(c) ==
  /\ Serves(c, "RESUME_MODE") /\ owner = c
  /\ dev.configured /\ dev.mode_swap_paused
  /\ Answer(c, [dev EXCEPT !.mode_swap_paused = FALSE], "resume")
  /\ UNCHANGED <<ownership, asked>>

\* The newest request of a dual session, for tuner t.
Asks(t, rf) == IF dev.dual_mode THEN [asked EXCEPT ![t] = rf] ELSE asked

\* While the receiver is away an update is only remembered.
UPDATE_QUEUED(c, g) ==
  /\ Serves(c, "UPDATE") /\ owner = c
  /\ dev.radio = NoTuner \/ ~dev.configured \/ dev.stream_error
  /\ Answer(c, [dev EXCEPT !.config = g], "none")
  /\ asked' = Asks(g.tuner, g.rf)
  /\ UNCHANGED ownership

\* fs: the request says that it changes the sample rate.  It does whenever the
\* rate differs from that of the session, and may when it does not.
UPDATE(c, g, fs) ==
  LET current == IF dev.dual_mode THEN dev.dual_config.rate ELSE dev.config.rate
      restart == dev.stream_thread_started /\ fs /\ g.rate # dev.config.rate
      Apply(s) == apply_update(s, g)
  IN /\ Serves(c, "UPDATE") /\ owner = c
     /\ dev.radio # NoTuner /\ dev.configured /\ ~dev.stream_error
     /\ g.rate # current => fs
     /\ \E o \in IF restart THEN Then(stop_stream(dev), Apply) ELSE Apply(dev) :
          CASE o.status = "OK" -> /\ Answer(c, o.dev, IF restart THEN "resume" ELSE "none")
                                  /\ asked' = Asks(g.tuner, g.rf)
            [] o.status = "BAD_REQUEST" -> Answer(c, o.dev, "none") /\ UNCHANGED asked
            [] o.status = "IO_ERROR" ->
                 /\ Answer(c, cancel_async([o.dev EXCEPT !.config = g,
                                                         !.stream_error = TRUE]), "none")
                 /\ asked' = Asks(g.tuner, g.rf)
     /\ UNCHANGED ownership
-----------------------------------------------------------------------------
(* The requests of a master or a slave. *)

HasRole(c, command) ==
  Serves(c, command) /\ duo_active /\ role_for_descriptor(duo, c) # "none"

TunerOf(c) == IF descriptor_is_master(duo, c) THEN duo.master_tuner ELSE duo.slave_tuner

DUO_ACQUIRE(c, role, t, rate) ==
  LET out == acquire(duo, c, role, t, rate)
  IN /\ Serves(c, "DUO_ACQUIRE") /\ owner = NoClient
     /\ (role = "master") = ~duo.master_selected
     /\ out.result = "OK"
     /\ duo' = out.session /\ duo_active' = TRUE
     /\ Answer(c, dev, "none")
     /\ UNCHANGED <<clients, owner, asked>>

\* duo_apply_running_config: in place, where it differs from the last DUO_CONFIGURE.
duo_apply_running_config(s, g) ==
  IF s.radio = NoTuner \/ ~s.configured \/ ~s.dual_mode THEN {Out(s, "OK")}
  ELSE IF g.rate # s.duo_config.rate THEN {Out(s, "BAD_REQUEST")}
  ELSE SetChannel(s, g.tuner, IF g.rf # s.duo_config.rf[g.tuner] THEN g.rf
                              ELSE s.hw.rf[g.tuner])

duo_configured(s, g) ==
  [s EXCEPT !.duo_config.rf[g.tuner] = g.rf,
            !.duo_config_a = @ \/ g.tuner = TunerA, !.duo_config_b = @ \/ g.tuner = TunerB]

DUO_CONFIGURE(c, g) ==
  /\ HasRole(c, "DUO_CONFIGURE")
  /\ g.tuner = TunerOf(c) /\ g.rate = duo.sample_rate_hz
  /\ \E o \in duo_apply_running_config(dev, g) :
       /\ Answer(c, IF o.status = "OK" THEN duo_configured(o.dev, g) ELSE o.dev, "none")
       /\ asked' = [asked EXCEPT ![g.tuner] = IF o.status = "OK" THEN g.rf ELSE 0]
  /\ UNCHANGED ownership

\* A channel that nobody configured takes the settings of the other one.
duo_prepare_config(s, rate) ==
  LET given == {t \in Tuners : IF t = TunerA THEN s.duo_config_a ELSE s.duo_config_b}
  IN [s EXCEPT !.duo_config =
        [rate |-> rate,
         rf |-> [t \in Tuners |-> s.duo_config.rf[IF t \in given THEN t ELSE Other(t)]]]]

DUO_START(c) ==
  LET out == initialise(duo, c)
      ready == duo_prepare_config(dev, duo.sample_rate_hz)
  IN /\ HasRole(c, "DUO_START") /\ out.result = "OK"
     /\ IF descriptor_is_master(duo, c)
        THEN /\ dev.duo_config_a \/ dev.duo_config_b
             /\ \E o \in configure_dual_radio(ready, ready.duo_config) :
                  /\ duo' = IF o.status = "OK" THEN out.session ELSE duo
                  /\ Answer(c, o.dev, IF o.status = "OK" THEN "duo" ELSE "none")
        ELSE /\ dev.radio # NoTuner /\ dev.configured
             /\ duo' = out.session
             /\ Answer(c, dev, "none")
     /\ UNCHANGED <<clients, owner, duo_active, asked>>

\* Mutant: the slave that stops takes the receiver with it.
DUO_STOP_ALL(c) ==
  LET out == uninitialise(duo, c)
  IN /\ HasRole(c, "DUO_STOP") /\ out.result = "OK"
     /\ duo' = out.session
     /\ \E o \in duo_reset_hardware(dev) : Answer(c, o.dev, "none")
     /\ UNCHANGED <<clients, owner, duo_active, asked>>

DUO_STOP(c) ==
  LET out == uninitialise(duo, c)
  IN /\ HasRole(c, "DUO_STOP") /\ out.result = "OK"
     /\ duo' = out.session
     /\ \E o \in IF descriptor_is_master(duo, c) THEN duo_reset_hardware(dev)
                 ELSE {Out(dev, "OK")} : Answer(c, o.dev, "none")
     /\ UNCHANGED <<clients, owner, duo_active, asked>>

DUO_RELEASE(c) ==
  LET out == release(duo, c)
      over == ~out.session.master_selected
  IN /\ HasRole(c, "DUO_RELEASE") /\ out.result = "OK"
     /\ duo' = out.session /\ duo_active' = ~over
     /\ \E s \in IF over THEN {duo_forgotten(o.dev) : o \in duo_reset_hardware(dev)}
                 ELSE {dev} : Answer(c, s, "none")
     /\ asked' = IF over THEN NothingAsked ELSE [asked EXCEPT ![duo.slave_tuner] = 0]
     /\ UNCHANGED <<clients, owner>>

\* The stream is stopped, the receiver reset and configured at the new rate;
\* a failure after the reset configures it at the old rate again.
DUO_SWAP_RATE(c, rate) ==
  LET saved == duo_prepare_config(dev, duo.sample_rate_hz)
      Kept(s) == [s EXCEPT !.duo_config = saved.duo_config]
      Fails(s) == UNCHANGED duo /\ Answer(c, s, "none")
  IN /\ HasRole(c, "DUO_SWAP_RATE") /\ descriptor_is_master(duo, c)
     /\ duo.master_initialised /\ ~duo.slave_initialised /\ rate # duo.sample_rate_hz
     /\ dev.duo_config_a \/ dev.duo_config_b
     /\ \E o \in stop_stream(saved) :
          IF o.status # "OK" THEN Fails(o.dev)
          ELSE \E p \in duo_reset_hardware(duo_prepare_config(o.dev, rate)) :
            IF p.status # "OK" THEN Fails(Kept(p.dev))
            ELSE \E q \in configure_dual_radio(p.dev, p.dev.duo_config) :
              IF q.status = "OK"
              THEN /\ duo' = [duo EXCEPT !.sample_rate_hz = rate]
                   /\ Answer(c, q.dev, IF dev.stream_thread_started THEN "duo" ELSE "none")
              ELSE \E r \in configure_dual_radio(Kept(q.dev), saved.duo_config) : Fails(r.dev)
     /\ UNCHANGED <<clients, owner, duo_active, asked>>

DUO_UPDATE(c, g) ==
  /\ HasRole(c, "DUO_UPDATE")
  /\ dev.radio # NoTuner /\ dev.configured /\ duo.master_initialised
  /\ g.tuner = TunerOf(c)
  /\ \E o \in apply_update(dev, g) :
       /\ o.status # "BAD_REQUEST"
       /\ Answer(c, o.dev, "none")
       /\ asked' = [asked EXCEPT ![g.tuner] = IF o.status = "OK" THEN g.rf ELSE 0]
  /\ UNCHANGED ownership
-----------------------------------------------------------------------------
(* The stream threads: the one main knows of, and one it has lost. *)

Slots == {"thread", "stray"}
OtherSlot(x) == IF x = "thread" THEN "stray" ELSE "thread"

\* read_async starts, unless the handle is gone, failed, or streams already.
EnterStream(x) ==
  LET other == dev[OtherSlot(x)].pc
  IN /\ dev[x].pc = "enter"
     /\ \/ /\ dev.radio # NoTuner /\ ~dev.stuck /\ other # "run"
           /\ dev' = [dev EXCEPT ![x].pc = "run"]
        \/ /\ dev.radio = NoTuner \/ dev.stuck \/ other \in {"run", "leave"} \/ "stream" \in Faults
           /\ dev' = [dev EXCEPT ![x] = At("leave", 1)]
     /\ UNCHANGED <<ownership, asked, served, evict, loop>>

FirstIQ(x) ==
  /\ dev[x].pc = "run" /\ ~dev.first_iq_seen
  /\ dev' = [dev EXCEPT !.first_iq_seen = TRUE]
  /\ UNCHANGED <<ownership, asked, served, evict, loop>>

\* send_stream cannot write to the client a tuner's samples go to.  The first
\* failure raises client_write_error, and tells of whom in another step.
WriteFails(x) ==
  /\ dev[x].pc = "run" /\ "write" \in Faults
  /\ \E target \in IF duo_active THEN {route(duo, t) : t \in Tuners} ELSE {owner} :
       /\ target # NoClient
       /\ IF ~dev.client_write_error
          THEN dev' = [dev EXCEPT !.client_write_error = TRUE,
                                  ![x] = [pc |-> "report", ret |-> 0, to |-> target]]
          ELSE /\ ~duo_active \/ write_failure_stops_stream(duo, target)
               /\ dev' = [dev EXCEPT ![x] = At("leave", 0)]
  /\ UNCHANGED <<ownership, asked, served, evict, loop>>

\* The stream goes on only when the client is the slave.
ReportWriter(x) ==
  LET target == dev[x].to
      stops == ~duo_active \/ write_failure_stops_stream(duo, target)
  IN /\ dev[x].pc \in Reporting
     /\ dev' = [dev EXCEPT !.client_write_error_fd = target,
                           ![x] = IF stops \/ dev[x].pc = "report_end" THEN At("leave", 0)
                                  ELSE At("run", 0)]
     /\ UNCHANGED <<ownership, asked, served, evict, loop>>

StreamFails(x) ==
  /\ dev[x].pc = "run"
  /\ \/ "stream" \in Faults /\ dev' = [dev EXCEPT ![x] = At("leave", 1)]
     \/ "drain" \in Faults /\ dev' = [dev EXCEPT ![x] = At("leave", 1), !.stuck = TRUE]
  /\ UNCHANGED <<ownership, asked, served, evict, loop>>

\* The stores at the end of stream_main, which main may see apart.
StoreStreaming(x) ==
  /\ dev[x].pc \in {"leave", "cut"}
  /\ dev' = [dev EXCEPT ![x].pc = "store", !.streaming = FALSE]
  /\ UNCHANGED <<ownership, asked, served, evict, loop>>

\* Mutant: a failed stream is stored as one that was stopped.
StoreEnd(x) ==
  /\ dev[x].pc = "store"
  /\ dev' = [dev EXCEPT ![x] = IF x = "stray" THEN NoThread ELSE At("done", 0)]
  /\ UNCHANGED <<ownership, asked, served, evict, loop>>

StoreResult(x) ==
  /\ dev[x].pc = "store"
  /\ LET after == [dev EXCEPT !.stream_result = dev[x].ret,
                              !.stream_error = (dev[x].ret = 1)]
     IN dev' = [after EXCEPT ![x] = IF x = "stray" THEN NoThread ELSE At("done", 0)]
  /\ UNCHANGED <<ownership, asked, served, evict, loop>>

StreamThread ==
  \E x \in Slots : \/ EnterStream(x) \/ FirstIQ(x) \/ WriteFails(x)
                   \/ ReportWriter(x) \/ StreamFails(x) \/ StoreStreaming(x) \/ StoreResult(x)
-----------------------------------------------------------------------------
(* The main loop. *)

\* The first slot with the client whose samples could not be written is cleared.
\* While its descriptor is not stored, that is the first slot that is empty or the
\* owner's.
EvictWriter ==
  LET fd == dev.client_write_error_fd
      cleared == [dev EXCEPT !.client_write_error = FALSE, !.client_write_error_fd = NoClient]
      Hit(i) == clients[i] = fd \/ (fd = NoClient /\ clients[i] = owner)
      Victims == {clients[i] : i \in {k \in 1..MaxClients :
                                       Hit(k) /\ \A h \in 1..(k - 1) : ~Hit(h)}} \ {NoClient}
  IN /\ loop = "top" /\ dev.running /\ dev.client_write_error
     /\ \/ \E c \in Victims : RemoveClient(c, cleared)
        \/ Victims = {} /\ dev' = cleared /\ UNCHANGED <<ownership, asked>>
     /\ UNCHANGED <<served, evict, loop>>

Recover ==
  LET active == owner # NoClient \/ (duo_active /\ duo.master_selected)
  IN /\ loop = "top" /\ dev.running /\ ~dev.client_write_error
     /\ \E s \in recover_failed_stream(dev, active) : dev' \in finish_recovery_config(s)
     /\ loop' = "accept" /\ served' = {}
     /\ UNCHANGED <<ownership, asked, evict>>

\* A client accepted in this round is polled in the next one.
Accept(c) ==
  /\ loop = "accept" /\ c \notin Connected
  /\ \E i \in 1..MaxClients :
       /\ clients[i] = NoClient /\ \A h \in 1..(i - 1) : clients[h] # NoClient
       /\ clients' = [clients EXCEPT ![i] = c]
  /\ served' = served \union {c}
  /\ UNCHANGED <<owner, duo, duo_active, dev, asked, evict, loop>>

\* Hangups come before requests, but the end of a stream may be read as one.
Hangup(c) ==
  /\ loop \in {"accept", "hangup", "serve"} /\ evict = NoClient
  /\ c \in Connected \ served
  /\ RemoveClient(c, dev)
  /\ loop' = IF loop = "accept" THEN "hangup" ELSE loop
  /\ UNCHANGED <<served, evict>>

\* The handler of this client failed.
RemoveFailed ==
  /\ evict # NoClient
  /\ RemoveClient(evict, dev)
  /\ evict' = NoClient
  /\ UNCHANGED <<served, loop>>

NextRound ==
  /\ loop \in {"accept", "hangup", "serve"} /\ evict = NoClient
  /\ loop' = "top" /\ served' = {}
  /\ UNCHANGED <<ownership, dev, asked, evict>>

StopSignal ==
  /\ "signal" \in Faults /\ dev.running
  /\ dev' = [dev EXCEPT !.running = FALSE]
  /\ UNCHANGED <<ownership, asked, served, evict, loop>>

\* close_clients and shutdown_radio.
CloseClient(c) ==
  /\ loop = "top" /\ ~dev.running
  /\ c \in Connected
  /\ RemoveClient(c, dev)
  /\ UNCHANGED <<served, evict, loop>>

\* Mutant: the handle is left to the end of the process.
ShutdownOpen ==
  /\ loop = "top" /\ ~dev.running /\ Connected = {}
  /\ loop' = "ended"
  /\ UNCHANGED <<ownership, dev, asked, served, evict>>

Shutdown ==
  /\ loop = "top" /\ ~dev.running /\ Connected = {}
  /\ IF dev.radio = NoTuner THEN UNCHANGED <<dev, owner>>
     ELSE /\ owner' = NoClient
          /\ dev' \in {[d EXCEPT !.stream_error = FALSE, !.stream_result = 0]
                       : d \in UNION {Closed(t) : t \in Stopped(dev)}}
  /\ loop' = "ended"
  /\ UNCHANGED <<clients, duo, duo_active, asked, served, evict>>

Request(c) ==
  \/ ACQUIRE(c) \/ START(c) \/ STOP(c) \/ RELEASE(c) \/ RESUME_MODE(c)
  \/ \E g \in SingleConfigs :
       \/ CONFIGURE(c, g) \/ SWAP_TUNER(c, g) \/ SWAP_MODE_SINGLE(c, g)
       \/ UPDATE_QUEUED(c, g) \/ \E fs \in BOOLEAN : UPDATE(c, g, fs)
       \/ DUO_CONFIGURE(c, g) \/ DUO_UPDATE(c, g)
  \/ \E g \in DualConfigs : CONFIGURE_DUAL(c, g) \/ SWAP_MODE_DUAL(c, g)
  \/ \E role \in Roles, t \in Tuners, rate \in Rates : DUO_ACQUIRE(c, role, t, rate)
  \/ DUO_START(c) \/ DUO_STOP(c) \/ DUO_RELEASE(c)
  \/ \E rate \in Rates : DUO_SWAP_RATE(c, rate)

Main ==
  \/ \E c \in Clients : Request(c) \/ Accept(c) \/ Hangup(c) \/ CloseClient(c)
  \/ EvictWriter \/ Recover \/ RemoveFailed \/ NextRound \/ Shutdown

Next == Main \/ StreamThread \/ StopSignal

Spec == Init /\ [][Next]_vars

\* poll returns at least once a second, so the main loop goes on; a thread that
\* can run runs.  Nothing makes a stream fail, a socket fail or samples arrive.
FairSpec ==
  /\ Spec /\ WF_vars(Main)
  /\ \A x \in Slots : WF_vars(EnterStream(x) \/ ReportWriter(x) \/ StoreStreaming(x)
                             \/ StoreResult(x))
-----------------------------------------------------------------------------
Threads == [pc : {"none", "enter", "run", "report", "report_end", "leave", "cut", "store",
                  "done"},
            ret : {0, 1}, to : Clients \union {NoClient}]
RfValues == {0} \union {g.rf : g \in SingleConfigs} \union
            UNION {{g.rf[t] : t \in Tuners} : g \in DualConfigs}
Duals == [rate : Rates \union {Unspecified}, rf : [Tuners -> RfValues]]

\* The variables have the types of daemon_state.
TypeOK ==
  /\ clients \in [1..MaxClients -> Clients \union {NoClient}]
  /\ owner \in Clients \union {NoClient}
  /\ duo \in Sessions /\ duo_active \in BOOLEAN
  /\ dev.radio \in Tuners \union {NoTuner, BothTuners}
  /\ dev.hw \in Duals /\ dev.dual_config \in Duals /\ dev.duo_config \in Duals
  /\ dev.thread \in Threads /\ dev.stray \in Threads
  /\ dev.stream_result \in {0, 1} /\ dev.stream_error \in BOOLEAN
  /\ dev.config \in SingleConfigs \union {NoConfig}
  /\ dev.bootstrap_config \in SingleConfigs \union {NoConfig}
  /\ asked \in [Tuners -> RfValues]
  /\ served \subseteq Clients /\ evict \in Clients \union {NoClient}
  /\ loop \in {"top", "accept", "hangup", "serve", "ended"}

\* Whoever has the receiver is connected, in one kind of session: however a client
\* is lost (a hangup, an answer or samples that cannot be written), remove_client
\* leaves no owner, no master and no slave on its descriptor, duo_active follows the
\* session, and ACQUIRE and DUO_ACQUIRE exclude each other.
SessionsExclusive ==
  /\ {owner, duo.master_fd, duo.slave_fd} \subseteq Connected \union {NoClient}
  /\ duo_active = duo.master_selected
  /\ owner # NoClient => ~duo_active

Active == owner # NoClient \/ duo_active

\* dual_mode, by which stream_main and the updates choose their calls, is the
\* mode the handle was opened for, through every swap, rollback and recovery.
ModeMatchesHandle ==
  dev.configured /\ dev.radio # NoTuner => (dev.dual_mode <=> dev.radio = BothTuners)

\* stream_thread holds the only stream thread, none is overwritten while it runs, and
\* it reads samples for a client: a release, an eviction or the loss of the master
\* ends the stream.
StreamHasClient ==
  dev.stray.pc = "none" /\ (dev.thread.pc = "run" => Active)

\* When the daemon ends, by a signal or on a quarantined handle, nobody has the
\* receiver, the handle is gone and no thread reads from it (a thread that was
\* started without a handle may still be about to fail).
EndsClosed ==
  loop = "ended" => /\ dev.radio = NoTuner /\ ~Active
                    /\ \A x \in Slots : dev[x].pc \notin {"run", "report"}

\* A running stream with no error and no restore pending.
Settled == dev.thread.pc = "run" /\ ~dev.stream_error /\ ~dev.recovery_config_pending

\* A settled single-tuner stream has the newest settings the daemon accepted,
\* whatever failures, recoveries and queued updates came before.
SingleRestored ==
  Settled /\ dev.radio \in Tuners =>
    dev.hw.rate = dev.config.rate /\ dev.hw.rf[dev.radio] = dev.config.rf

\* A settled dual stream has, on each tuner, the newest settings accepted for it.
DualRestored ==
  Settled /\ dev.radio = BothTuners =>
    \A t \in Tuners : asked[t] # 0 => dev.hw.rf[t] = asked[t]

\* A settled single-tuner stream comes from the tuner its configuration selects.
SelectedTuner == Settled /\ dev.radio \in Tuners => dev.radio = dev.config.tuner

\* Between a swap and the resume request of the client no samples are read.
PausedIsQuiet == dev.mode_swap_paused => dev.thread.pc \notin Cancellable

\* A recorded stream failure belongs to a session, where recovery happens.
FailureEndsWithSession == dev.stream_error => Active

\* A stream that ended unasked is noticed: it will be recovered or its client
\* evicted.  A failed restore or update must not pass for a stop.
EndIsNoticed ==
  dev.thread.pc = "done" /\ Active => dev.stream_error \/ dev.client_write_error

\* While the handle can be closed, opened and configured, a running master has
\* it, or a recorded failure from which it recovers: the stops, losses and write
\* failures of the slave, rate swaps and failed streams never take it away.
MasterHasReceiver ==
  duo.master_initialised => dev.radio = BothTuners \/ dev.stream_error

\* A failed stream of the owner is started again, unless the owner leaves first:
\* the failed thread is joined, its handle closed and a new one configured.
RecoveryRestarts ==
  (dev.stream_error /\ ~dev.streaming /\ owner # NoClient)
    ~> (dev.streaming \/ owner = NoClient)

\* The slave owns only its route: neither its removal nor a failed write to it
\* touches the stream of the master.
SlaveLossKeepsStream ==
  [][duo.slave_selected =>
       /\ clients' = Without(duo.slave_fd) => dev'.thread = dev.thread /\ dev'.hw = dev.hw
       /\ dev.thread.pc = "report" /\ dev.thread.to = duo.slave_fd
            => dev'.thread.pc # "leave"]_vars
=============================================================================
