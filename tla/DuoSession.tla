----------------------------- MODULE DuoSession -----------------------------
(***************************************************************************)
(* The ownership part of the RSPduo master/slave contract,                 *)
(* daemon/duo_session.c: a session record and the operations on it.  Each  *)
(* operation is a function from a session to an outcome, which holds the   *)
(* new session, the result code and the notification for the peer.  The    *)
(* operations have no other state, so the daemon's model can use them too. *)
(***************************************************************************)
EXTENDS Naturals

CONSTANTS Clients,   \* accepted connections (descriptors >= 0)
          NoClient   \* OPENRSPD_INVALID_CLIENT

ASSUME NoClientAssumption == NoClient \notin Clients

NoTuner == 0
TunerA == 1
TunerB == 2
Tuners == {TunerA, TunerB}
Other(t) == IF t = TunerA THEN TunerB ELSE TunerA

\* Sample rates in MHz; zero stands for OPENRSPD_DUO_RATE_UNSPECIFIED.
Unspecified == 0
Rates == {6, 8}

Roles == {"master", "slave"}

EventKinds == {"NONE", "MASTER_INITIALISED", "SLAVE_ATTACHED", "SLAVE_DETACHED",
               "SLAVE_INITIALISED", "SLAVE_UNINITIALISED",
               "MASTER_DLL_DISAPPEARED", "SLAVE_DLL_DISAPPEARED"}

Results == {"OK", "START_PENDING", "STOP_PENDING", "BUSY", "INVALID"}

Sessions == [master_fd : Clients \union {NoClient},
             slave_fd : Clients \union {NoClient},
             master_tuner : Tuners \union {NoTuner},
             slave_tuner : Tuners \union {NoTuner},
             sample_rate_hz : Rates \union {Unspecified},
             master_selected : BOOLEAN,
             slave_selected : BOOLEAN,
             master_initialised : BOOLEAN,
             slave_initialised : BOOLEAN]

Events == [kind : EventKinds, target : Clients \union {NoClient},
           tuner : Tuners \union {NoTuner}]

clear_event == [kind |-> "NONE", target |-> NoClient, tuner |-> NoTuner]

emit_event(kind, target, tuner) == [kind |-> kind, target |-> target, tuner |-> tuner]

session_init ==
  [master_fd |-> NoClient, slave_fd |-> NoClient,
   master_tuner |-> NoTuner, slave_tuner |-> NoTuner,
   sample_rate_hz |-> Unspecified,
   master_selected |-> FALSE, slave_selected |-> FALSE,
   master_initialised |-> FALSE, slave_initialised |-> FALSE]

descriptor_is_master(s, d) == s.master_selected /\ s.master_fd = d
descriptor_is_slave(s, d) == s.slave_selected /\ s.slave_fd = d

role_for_descriptor(s, d) ==
  IF descriptor_is_master(s, d) THEN "master"
  ELSE IF descriptor_is_slave(s, d) THEN "slave"
  ELSE "none"

\* The two shapes of an outcome: an early return leaves the session alone.
Refused(s, result) == [session |-> s, result |-> result, event |-> clear_event]
Done(s, event) == [session |-> s, result |-> "OK", event |-> event]

master_taken(s, d, t, rate) ==
  [s EXCEPT !.master_fd = d, !.master_tuner = t, !.sample_rate_hz = rate,
            !.master_selected = TRUE, !.master_initialised = FALSE]

slave_taken(s, d, t) ==
  [s EXCEPT !.slave_fd = d, !.slave_tuner = t,
            !.slave_selected = TRUE, !.slave_initialised = FALSE]

slave_cleared(s) == [s EXCEPT !.slave_fd = NoClient, !.slave_tuner = NoTuner,
                              !.slave_selected = FALSE, !.slave_initialised = FALSE]

acquire_master(s, d, t, rate) ==
  IF t \notin Tuners \/ rate \notin Rates THEN Refused(s, "INVALID")
  ELSE IF s.master_selected
       THEN IF s.master_fd = d /\ s.master_tuner = t /\ s.sample_rate_hz = rate
            THEN Done(s, clear_event)
            ELSE Refused(s, "BUSY")
  ELSE IF s.slave_selected \/ s.slave_tuner = t THEN Refused(s, "BUSY")
  ELSE Done(master_taken(s, d, t, rate), clear_event)

\* Mutant: the slave's tuner is not compared with the master's.
acquire_slave_any_tuner(s, d, t, rate) ==
  IF t \notin Tuners THEN Refused(s, "INVALID")
  ELSE IF \/ ~s.master_selected
          \/ s.master_fd = d
          \/ rate \notin {Unspecified, s.sample_rate_hz}
          \/ s.slave_selected
       THEN Refused(s, "BUSY")
  ELSE Done(slave_taken(s, d, t), emit_event("SLAVE_ATTACHED", s.master_fd, t))

acquire_slave(s, d, t, rate) ==
  IF t \notin Tuners THEN Refused(s, "INVALID")
  ELSE IF \/ ~s.master_selected
          \/ s.master_fd = d
          \/ rate \notin {Unspecified, s.sample_rate_hz}
          \/ t = s.master_tuner
       THEN Refused(s, "BUSY")
  ELSE IF s.slave_selected
       THEN IF s.slave_fd = d /\ s.slave_tuner = t THEN Done(s, clear_event)
            ELSE Refused(s, "BUSY")
  ELSE Done(slave_taken(s, d, t), emit_event("SLAVE_ATTACHED", s.master_fd, t))

acquire(s, d, role, t, rate) ==
  IF role = "master" THEN acquire_master(s, d, t, rate)
  ELSE IF role = "slave" THEN acquire_slave(s, d, t, rate)
  ELSE Refused(s, "INVALID")

\* Mutant: the event for the waiting slave is forgotten.
initialise_silent(s, d) ==
  IF descriptor_is_master(s, d)
  THEN IF s.master_initialised THEN Refused(s, "BUSY")
       ELSE Done([s EXCEPT !.master_initialised = TRUE], clear_event)
  ELSE IF ~descriptor_is_slave(s, d) THEN Refused(s, "INVALID")
  ELSE IF s.slave_initialised THEN Refused(s, "BUSY")
  ELSE IF ~s.master_initialised THEN Refused(s, "START_PENDING")
  ELSE Done([s EXCEPT !.slave_initialised = TRUE],
            emit_event("SLAVE_INITIALISED", s.master_fd, s.slave_tuner))

initialise(s, d) ==
  IF descriptor_is_master(s, d)
  THEN IF s.master_initialised THEN Refused(s, "BUSY")
       ELSE Done([s EXCEPT !.master_initialised = TRUE],
                 IF s.slave_selected
                 THEN emit_event("MASTER_INITIALISED", s.slave_fd, s.slave_tuner)
                 ELSE clear_event)
  ELSE IF ~descriptor_is_slave(s, d) THEN Refused(s, "INVALID")
  ELSE IF s.slave_initialised THEN Refused(s, "BUSY")
  ELSE IF ~s.master_initialised THEN Refused(s, "START_PENDING")
  ELSE Done([s EXCEPT !.slave_initialised = TRUE],
            emit_event("SLAVE_INITIALISED", s.master_fd, s.slave_tuner))

\* Mutant: the master may stop under a running slave.
uninitialise_unordered(s, d) ==
  IF descriptor_is_master(s, d)
  THEN IF ~s.master_initialised THEN Refused(s, "INVALID")
       ELSE Done([s EXCEPT !.master_initialised = FALSE], clear_event)
  ELSE IF ~descriptor_is_slave(s, d) \/ ~s.slave_initialised THEN Refused(s, "INVALID")
  ELSE Done([s EXCEPT !.slave_initialised = FALSE],
            emit_event("SLAVE_UNINITIALISED", s.master_fd, s.slave_tuner))

uninitialise(s, d) ==
  IF descriptor_is_master(s, d)
  THEN IF ~s.master_initialised THEN Refused(s, "INVALID")
       ELSE IF s.slave_initialised THEN Refused(s, "STOP_PENDING")
       ELSE Done([s EXCEPT !.master_initialised = FALSE], clear_event)
  ELSE IF ~descriptor_is_slave(s, d) \/ ~s.slave_initialised THEN Refused(s, "INVALID")
  ELSE Done([s EXCEPT !.slave_initialised = FALSE],
            emit_event("SLAVE_UNINITIALISED", s.master_fd, s.slave_tuner))

release(s, d) ==
  IF descriptor_is_master(s, d)
  THEN IF s.master_initialised THEN Refused(s, "BUSY")
       ELSE IF s.slave_selected THEN Refused(s, "STOP_PENDING")
       ELSE Done(session_init, clear_event)
  ELSE IF ~descriptor_is_slave(s, d) THEN Refused(s, "INVALID")
  ELSE IF s.slave_initialised THEN Refused(s, "BUSY")
  ELSE Done(slave_cleared(s), emit_event("SLAVE_DETACHED", s.master_fd, s.slave_tuner))

\* Mutant: the loss of the master is not reported to the slave.
disconnect_silent(s, d) ==
  IF descriptor_is_slave(s, d)
  THEN Done(slave_cleared(s),
            emit_event("SLAVE_DLL_DISAPPEARED", s.master_fd, s.slave_tuner))
  ELSE IF descriptor_is_master(s, d) THEN Done(session_init, clear_event)
  ELSE Done(s, clear_event)

disconnect(s, d) ==
  IF descriptor_is_slave(s, d)
  THEN Done(slave_cleared(s),
            emit_event("SLAVE_DLL_DISAPPEARED", s.master_fd, s.slave_tuner))
  ELSE IF descriptor_is_master(s, d)
  THEN Done(session_init,
            IF s.slave_selected
            THEN emit_event("MASTER_DLL_DISAPPEARED", s.slave_fd, s.slave_tuner)
            ELSE clear_event)
  ELSE Done(s, clear_event)

\* The connection that receives a tuner's samples, NoClient when there is none.
route(s, t) ==
  IF s.master_selected /\ s.master_initialised /\ s.master_tuner = t THEN s.master_fd
  ELSE IF s.slave_selected /\ s.slave_initialised /\ s.slave_tuner = t THEN s.slave_fd
  ELSE NoClient

\* Mutant: a write failure of the slave stops the stream too.
write_failure_always_stops(s, d) == role_for_descriptor(s, d) # "none"

write_failure_stops_stream(s, d) == role_for_descriptor(s, d) # "slave"
=============================================================================
