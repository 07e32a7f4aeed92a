-------------------------- MODULE DuoClientsProofs --------------------------
(***************************************************************************)
(* Proofs about the master/slave session, for every set of clients and     *)
(* every set of request arguments.                                         *)
(*                                                                         *)
(* The argument: an accepted operation makes one of eight moves on the     *)
(* session (taking, starting, stopping and leaving each of the two roles); *)
(* every move keeps SessionInv, which is inductive by itself; the beliefs  *)
(* of the clients and the lease refinement follow from it move by move.    *)
(***************************************************************************)
EXTENDS DuoClients, TLAPS

USE DEF Tuners, TunerA, TunerB, NoTuner, Rates, Unspecified

\* A session that is well typed and consistent.
Sound(s) == s \in Sessions /\ SessionInv(s)

\* The nine fields of n, spelled out.
Fields(n, mfd, sfd, mt, st, rate, ms, ss, mi, si) ==
  /\ n.master_fd = mfd /\ n.slave_fd = sfd
  /\ n.master_tuner = mt /\ n.slave_tuner = st
  /\ n.sample_rate_hz = rate
  /\ n.master_selected = ms /\ n.slave_selected = ss
  /\ n.master_initialised = mi /\ n.slave_initialised = si

\* The moves: session s becomes session n.
TakeMaster(s, n, d) ==
  /\ ~s.master_selected /\ ~s.slave_selected
  /\ \E t \in Tuners, rate \in Rates :
       Fields(n, d, s.slave_fd, t, s.slave_tuner, rate, TRUE, s.slave_selected,
              FALSE, s.slave_initialised)

TakeSlave(s, n, d) ==
  /\ s.master_selected /\ ~s.slave_selected /\ d # s.master_fd
  /\ \E t \in Tuners \ {s.master_tuner} :
       Fields(n, s.master_fd, d, s.master_tuner, t, s.sample_rate_hz,
              s.master_selected, TRUE, s.master_initialised, FALSE)

SetMaster(s, n, d, on) ==
  /\ descriptor_is_master(s, d) /\ s.master_initialised = ~on
  /\ ~on => ~s.slave_initialised
  /\ Fields(n, s.master_fd, s.slave_fd, s.master_tuner, s.slave_tuner, s.sample_rate_hz,
            s.master_selected, s.slave_selected, on, s.slave_initialised)

SetSlave(s, n, d, on) ==
  /\ descriptor_is_slave(s, d) /\ ~descriptor_is_master(s, d)
  /\ s.slave_initialised = ~on
  /\ on => s.master_initialised
  /\ Fields(n, s.master_fd, s.slave_fd, s.master_tuner, s.slave_tuner, s.sample_rate_hz,
            s.master_selected, s.slave_selected, s.master_initialised, on)

DropSlave(s, n, d) ==
  /\ descriptor_is_slave(s, d)
  /\ Fields(n, s.master_fd, NoClient, s.master_tuner, NoTuner, s.sample_rate_hz,
            s.master_selected, FALSE, s.master_initialised, FALSE)

DropMaster(s, n, d) ==
  /\ descriptor_is_master(s, d)
  /\ Fields(n, NoClient, NoClient, NoTuner, NoTuner, Unspecified,
            FALSE, FALSE, FALSE, FALSE)

Move(s, n, d) ==
  \/ TakeMaster(s, n, d) \/ TakeSlave(s, n, d)
  \/ \E on \in BOOLEAN : SetMaster(s, n, d, on) \/ SetSlave(s, n, d, on)
  \/ DropSlave(s, n, d) \/ DropMaster(s, n, d)

\* Every move of duo_session.c keeps the session sound.
LEMMA MoveSound ==
  ASSUME NEW s, NEW n, NEW d \in Clients, Sound(s), n \in Sessions, Move(s, n, d)
  PROVE  Sound(n)
<1> USE NoClientAssumption
<1>1. s \in Sessions /\ FieldsAgree(s) /\ SlaveNeedsMaster(s) /\ InitialisedNested(s)
  BY DEF Sound, SessionInv
<1> SUFFICES FieldsAgree(n) /\ SlaveNeedsMaster(n) /\ InitialisedNested(n)
  BY DEF Sound, SessionInv
<1>2. CASE TakeMaster(s, n, d)
  BY <1>1, <1>2 DEF TakeMaster, Fields, FieldsAgree, SlaveNeedsMaster, InitialisedNested
<1>3. CASE TakeSlave(s, n, d)
  BY <1>1, <1>3 DEF TakeSlave, Fields, FieldsAgree, SlaveNeedsMaster, InitialisedNested
<1>4. ASSUME NEW on \in BOOLEAN, SetMaster(s, n, d, on)
      PROVE  FieldsAgree(n) /\ SlaveNeedsMaster(n) /\ InitialisedNested(n)
  BY <1>1, <1>4 DEF SetMaster, Fields, FieldsAgree, SlaveNeedsMaster, InitialisedNested,
     descriptor_is_master
<1>5. ASSUME NEW on \in BOOLEAN, SetSlave(s, n, d, on)
      PROVE  FieldsAgree(n) /\ SlaveNeedsMaster(n) /\ InitialisedNested(n)
  BY <1>1, <1>5 DEF SetSlave, Fields, FieldsAgree, SlaveNeedsMaster, InitialisedNested,
     descriptor_is_slave
<1>6. CASE DropSlave(s, n, d)
  BY <1>1, <1>6 DEF DropSlave, Fields, FieldsAgree, SlaveNeedsMaster, InitialisedNested
<1>7. CASE DropMaster(s, n, d)
  BY <1>1, <1>7 DEF DropMaster, Fields, FieldsAgree, SlaveNeedsMaster, InitialisedNested
<1> QED
  BY <1>2, <1>3, <1>4, <1>5, <1>6, <1>7 DEF Move

\* The session as the constructors of duo_session.c leave it, field by field.
LEMMA Constructors ==
  ASSUME NEW s \in Sessions, NEW d \in Clients, NEW t \in Tuners, NEW rate \in Rates,
         NEW on \in BOOLEAN
  PROVE  /\ session_init \in Sessions
         /\ Fields(session_init, NoClient, NoClient, NoTuner, NoTuner, Unspecified,
                   FALSE, FALSE, FALSE, FALSE)
         /\ master_taken(s, d, t, rate) \in Sessions
         /\ Fields(master_taken(s, d, t, rate), d, s.slave_fd, t, s.slave_tuner, rate,
                   TRUE, s.slave_selected, FALSE, s.slave_initialised)
         /\ slave_taken(s, d, t) \in Sessions
         /\ Fields(slave_taken(s, d, t), s.master_fd, d, s.master_tuner, t,
                   s.sample_rate_hz, s.master_selected, TRUE, s.master_initialised, FALSE)
         /\ slave_cleared(s) \in Sessions
         /\ Fields(slave_cleared(s), s.master_fd, NoClient, s.master_tuner, NoTuner,
                   s.sample_rate_hz, s.master_selected, FALSE, s.master_initialised, FALSE)
         /\ [s EXCEPT !.master_initialised = on] \in Sessions
         /\ Fields([s EXCEPT !.master_initialised = on], s.master_fd, s.slave_fd,
                   s.master_tuner, s.slave_tuner, s.sample_rate_hz,
                   s.master_selected, s.slave_selected, on, s.slave_initialised)
         /\ [s EXCEPT !.slave_initialised = on] \in Sessions
         /\ Fields([s EXCEPT !.slave_initialised = on], s.master_fd, s.slave_fd,
                   s.master_tuner, s.slave_tuner, s.sample_rate_hz,
                   s.master_selected, s.slave_selected, s.master_initialised, on)
<1>1. session_init \in Sessions
      /\ Fields(session_init, NoClient, NoClient, NoTuner, NoTuner, Unspecified,
                FALSE, FALSE, FALSE, FALSE)
  BY DEF session_init, Sessions, Fields
<1>2. master_taken(s, d, t, rate) \in Sessions
      /\ Fields(master_taken(s, d, t, rate), d, s.slave_fd, t, s.slave_tuner, rate,
                TRUE, s.slave_selected, FALSE, s.slave_initialised)
  BY DEF master_taken, Sessions, Fields
<1>3. slave_taken(s, d, t) \in Sessions
      /\ Fields(slave_taken(s, d, t), s.master_fd, d, s.master_tuner, t,
                s.sample_rate_hz, s.master_selected, TRUE, s.master_initialised, FALSE)
  BY DEF slave_taken, Sessions, Fields
<1>4. slave_cleared(s) \in Sessions
      /\ Fields(slave_cleared(s), s.master_fd, NoClient, s.master_tuner, NoTuner,
                s.sample_rate_hz, s.master_selected, FALSE, s.master_initialised, FALSE)
  BY DEF slave_cleared, Sessions, Fields
<1>5. [s EXCEPT !.master_initialised = on] \in Sessions
      /\ Fields([s EXCEPT !.master_initialised = on], s.master_fd, s.slave_fd,
                s.master_tuner, s.slave_tuner, s.sample_rate_hz,
                s.master_selected, s.slave_selected, on, s.slave_initialised)
  BY DEF Sessions, Fields
<1>6. [s EXCEPT !.slave_initialised = on] \in Sessions
      /\ Fields([s EXCEPT !.slave_initialised = on], s.master_fd, s.slave_fd,
                s.master_tuner, s.slave_tuner, s.sample_rate_hz,
                s.master_selected, s.slave_selected, s.master_initialised, on)
  BY DEF Sessions, Fields
<1> QED
  BY <1>1, <1>2, <1>3, <1>4, <1>5, <1>6

-----------------------------------------------------------------------------
\* What each operation may answer: the move it made, with its notification.

\* The operation changed nothing and notified nobody.
Nothing(s, out) == out.session = s /\ out.event.kind = "NONE" /\ out.event.target = NoClient

\* The operation notified one client, and made the move it reports.
Notified(out, kind, target) == out.event.kind = kind /\ out.event.target = target

Told(out) == out.result = "OK" /\ out.session \in Sessions

\* openrspd_duo_acquire takes a role that is free, or changes nothing; when it
\* changes nothing and answers OK the client has that role already.
LEMMA AcquireOutcome ==
  ASSUME NEW s, Sound(s), NEW d \in Clients, NEW role \in Roles, NEW t, NEW rate,
         NEW out, out = acquire(s, d, role, t, rate)
  PROVE  \/ /\ Nothing(s, out)
            /\ out.result = "OK" => role_for_descriptor(s, d) = role
         \/ /\ Told(out) /\ role = "master" /\ TakeMaster(s, out.session, d)
            /\ Notified(out, "NONE", NoClient)
         \/ /\ Told(out) /\ role = "slave" /\ TakeSlave(s, out.session, d)
            /\ Notified(out, "SLAVE_ATTACHED", s.master_fd)
<1> s \in Sessions BY DEF Sound
<1>1. CASE role = "master"
  <2>1. out = acquire_master(s, d, t, rate)
    BY <1>1 DEF acquire
  <2>2. CASE out = Done(master_taken(s, d, t, rate), clear_event)
             /\ ~s.master_selected /\ ~s.slave_selected /\ t \in Tuners /\ rate \in Rates
    <3>1. out.session = master_taken(s, d, t, rate) /\ out.result = "OK"
          /\ Notified(out, "NONE", NoClient)
      BY <2>2 DEF Done, Notified, clear_event
    <3>2. /\ master_taken(s, d, t, rate) \in Sessions
          /\ Fields(master_taken(s, d, t, rate), d, s.slave_fd, t, s.slave_tuner, rate,
                    TRUE, s.slave_selected, FALSE, s.slave_initialised)
      BY <2>2, TRUE \in BOOLEAN, Constructors, ZenonT(30)
    <3>3. TakeMaster(s, out.session, d)
      BY <2>2, <3>1, <3>2, Zenon DEF TakeMaster
    <3>4. Told(out)
      BY <3>1, <3>2 DEF Told
    <3> QED
      BY <1>1, <3>1, <3>3, <3>4, Zenon
  <2>3. CASE \E r \in Results \ {"OK"} : out = Refused(s, r)
    BY <2>3 DEF Refused, Nothing, clear_event, Results
  <2>4. CASE out = Done(s, clear_event) /\ descriptor_is_master(s, d)
    BY <1>1, <2>4 DEF Done, Nothing, clear_event, role_for_descriptor
  <2> QED
    BY <2>1, <2>2, <2>3, <2>4 DEF acquire_master, Results, descriptor_is_master
<1>2. CASE role = "slave"
  <2>1. out = acquire_slave(s, d, t, rate)
    BY <1>2 DEF acquire
  <2>2. CASE out = Done(slave_taken(s, d, t), emit_event("SLAVE_ATTACHED", s.master_fd, t))
             /\ s.master_selected /\ ~s.slave_selected /\ d # s.master_fd
             /\ t \in Tuners \ {s.master_tuner}
    <3>1. out.session = slave_taken(s, d, t) /\ out.result = "OK"
          /\ Notified(out, "SLAVE_ATTACHED", s.master_fd)
      BY <2>2 DEF Done, Notified, emit_event
    <3>2. /\ slave_taken(s, d, t) \in Sessions
          /\ Fields(slave_taken(s, d, t), s.master_fd, d, s.master_tuner, t,
                    s.sample_rate_hz, s.master_selected, TRUE, s.master_initialised, FALSE)
      BY <2>2, 6 \in Rates, Constructors
    <3>3. TakeSlave(s, out.session, d)
      BY <2>2, <3>1, <3>2 DEF TakeSlave
    <3> QED
      BY <1>2, <3>1, <3>2, <3>3 DEF Told
  <2>3. CASE \E r \in Results \ {"OK"} : out = Refused(s, r)
    BY <2>3 DEF Refused, Nothing, clear_event, Results
  <2>4. CASE out = Done(s, clear_event) /\ descriptor_is_slave(s, d) /\ d # s.master_fd
    BY <1>2, <2>4
    DEF Done, Nothing, clear_event, role_for_descriptor, descriptor_is_master
  <2> QED
    BY <2>1, <2>2, <2>3, <2>4 DEF acquire_slave, Results, descriptor_is_slave
<1> QED
  BY <1>1, <1>2 DEF Roles

\* openrspd_duo_initialise starts the caller's role, or changes nothing; it
\* answers START_PENDING only to a slave whose master is not running.
LEMMA InitialiseOutcome ==
  ASSUME NEW s, Sound(s), NEW d \in Clients,
         NEW out, out = initialise(s, d)
  PROVE  \/ /\ Nothing(s, out)
            /\ out.result = "START_PENDING" =>
                 /\ descriptor_is_slave(s, d) /\ ~descriptor_is_master(s, d)
                 /\ ~s.master_initialised
         \/ /\ Told(out) /\ SetMaster(s, out.session, d, TRUE) /\ s.slave_selected
            /\ Notified(out, "MASTER_INITIALISED", s.slave_fd)
         \/ /\ Told(out) /\ SetMaster(s, out.session, d, TRUE) /\ ~s.slave_selected
            /\ Notified(out, "NONE", NoClient)
         \/ /\ Told(out) /\ SetSlave(s, out.session, d, TRUE)
            /\ Notified(out, "SLAVE_INITIALISED", s.master_fd)
<1> s \in Sessions BY DEF Sound
<1> DEFINE m == [s EXCEPT !.master_initialised = TRUE]
           v == [s EXCEPT !.slave_initialised = TRUE]
<1>0. /\ m \in Sessions /\ v \in Sessions
      /\ Fields(m, s.master_fd, s.slave_fd, s.master_tuner, s.slave_tuner,
                s.sample_rate_hz, s.master_selected, s.slave_selected, TRUE,
                s.slave_initialised)
      /\ Fields(v, s.master_fd, s.slave_fd, s.master_tuner, s.slave_tuner,
                s.sample_rate_hz, s.master_selected, s.slave_selected,
                s.master_initialised, TRUE)
  BY 6 \in Rates, 1 \in Tuners, Constructors
<1>1. CASE descriptor_is_master(s, d) /\ ~s.master_initialised
  <2>1. out = Done(m, IF s.slave_selected
                      THEN emit_event("MASTER_INITIALISED", s.slave_fd, s.slave_tuner)
                      ELSE clear_event)
    BY <1>1 DEF initialise
  <2>2. out.session = m /\ out.result = "OK"
    BY <2>1 DEF Done
  <2> HIDE DEF m
  <2>3. SetMaster(s, out.session, d, TRUE)
    BY <1>0, <1>1, <2>2 DEF SetMaster, Sessions
  <2>4. CASE s.slave_selected
    <3>1. Notified(out, "MASTER_INITIALISED", s.slave_fd)
      BY <2>1, <2>4 DEF Done, Notified, emit_event
    <3> QED
      BY <1>0, <2>2, <2>3, <2>4, <3>1 DEF Told
  <2>5. CASE ~s.slave_selected
    <3>1. Notified(out, "NONE", NoClient)
      BY <2>1, <2>5 DEF Done, Notified, clear_event
    <3> QED
      BY <1>0, <2>2, <2>3, <2>5, <3>1 DEF Told
  <2> QED
    BY <2>4, <2>5
<1>2. CASE /\ ~descriptor_is_master(s, d) /\ descriptor_is_slave(s, d)
           /\ ~s.slave_initialised /\ s.master_initialised
  <2>1. out = Done(v, emit_event("SLAVE_INITIALISED", s.master_fd, s.slave_tuner))
    BY <1>2 DEF initialise
  <2>2. out.session = v /\ out.result = "OK"
        /\ Notified(out, "SLAVE_INITIALISED", s.master_fd)
    BY <2>1 DEF Done, Notified, emit_event
  <2> HIDE DEF v
  <2>3. SetSlave(s, out.session, d, TRUE)
    BY <1>0, <1>2, <2>2 DEF SetSlave, Sessions
  <2> QED
    BY <1>0, <2>2, <2>3 DEF Told
<1>3. CASE out = Refused(s, "BUSY") \/ out = Refused(s, "INVALID")
  <2>1. Nothing(s, out) /\ out.result # "START_PENDING"
    BY <1>3 DEF Refused, Nothing, clear_event
  <2> QED
    BY <2>1
<1>4. CASE /\ out = Refused(s, "START_PENDING") /\ descriptor_is_slave(s, d)
           /\ ~descriptor_is_master(s, d) /\ ~s.master_initialised
  <2>1. Nothing(s, out)
    BY <1>4 DEF Refused, Nothing, clear_event
  <2> QED
    BY <1>4, <2>1
<1> HIDE DEF m, v
<1> QED
  BY <1>1, <1>2, <1>3, <1>4 DEF initialise

\* openrspd_duo_uninitialise stops the caller's role, the master's last.
LEMMA UninitialiseOutcome ==
  ASSUME NEW s, Sound(s), NEW d \in Clients,
         NEW out, out = uninitialise(s, d)
  PROVE  \/ Nothing(s, out)
         \/ /\ Told(out) /\ SetMaster(s, out.session, d, FALSE)
            /\ Notified(out, "NONE", NoClient)
         \/ /\ Told(out) /\ SetSlave(s, out.session, d, FALSE)
            /\ Notified(out, "SLAVE_UNINITIALISED", s.master_fd)
<1> s \in Sessions BY DEF Sound
<1> DEFINE m == [s EXCEPT !.master_initialised = FALSE]
           v == [s EXCEPT !.slave_initialised = FALSE]
<1>0. /\ m \in Sessions /\ v \in Sessions
      /\ Fields(m, s.master_fd, s.slave_fd, s.master_tuner, s.slave_tuner,
                s.sample_rate_hz, s.master_selected, s.slave_selected, FALSE,
                s.slave_initialised)
      /\ Fields(v, s.master_fd, s.slave_fd, s.master_tuner, s.slave_tuner,
                s.sample_rate_hz, s.master_selected, s.slave_selected,
                s.master_initialised, FALSE)
  BY 6 \in Rates, 1 \in Tuners, Constructors
<1>1. CASE descriptor_is_master(s, d) /\ s.master_initialised /\ ~s.slave_initialised
  <2>1. out = Done(m, clear_event)
    BY <1>1 DEF uninitialise
  <2>2. out.session = m /\ out.result = "OK" /\ Notified(out, "NONE", NoClient)
    BY <2>1 DEF Done, Notified, clear_event
  <2> HIDE DEF m
  <2>3. SetMaster(s, out.session, d, FALSE)
    BY <1>0, <1>1, <2>2 DEF SetMaster, Sessions
  <2> QED
    BY <1>0, <2>2, <2>3 DEF Told
<1>2. CASE ~descriptor_is_master(s, d) /\ descriptor_is_slave(s, d) /\ s.slave_initialised
  <2>1. out = Done(v, emit_event("SLAVE_UNINITIALISED", s.master_fd, s.slave_tuner))
    BY <1>2 DEF uninitialise
  <2>2. out.session = v /\ out.result = "OK"
        /\ Notified(out, "SLAVE_UNINITIALISED", s.master_fd)
    BY <2>1 DEF Done, Notified, emit_event
  <2> HIDE DEF v
  <2>3. SetSlave(s, out.session, d, FALSE)
    BY <1>0, <1>2, <2>2 DEF SetSlave, Sessions
  <2> QED
    BY <1>0, <2>2, <2>3 DEF Told
<1>3. CASE out = Refused(s, "STOP_PENDING") \/ out = Refused(s, "INVALID")
  <2>1. Nothing(s, out)
    BY <1>3 DEF Refused, Nothing, clear_event
  <2> QED
    BY <2>1
<1> HIDE DEF m, v
<1> QED
  BY <1>1, <1>2, <1>3 DEF uninitialise

\* openrspd_duo_release gives up a role that is stopped, the master's last.
LEMMA ReleaseOutcome ==
  ASSUME NEW s, Sound(s), NEW d \in Clients, NEW out, out = release(s, d)
  PROVE  \/ Nothing(s, out) /\ out.result # "OK"
         \/ /\ Told(out) /\ DropMaster(s, out.session, d) /\ ~s.slave_selected
            /\ ~s.master_initialised
            /\ Notified(out, "NONE", NoClient)
         \/ /\ Told(out) /\ DropSlave(s, out.session, d) /\ ~descriptor_is_master(s, d)
            /\ ~s.slave_initialised
            /\ Notified(out, "SLAVE_DETACHED", s.master_fd)
<1> s \in Sessions BY DEF Sound
<1>0. /\ session_init \in Sessions /\ slave_cleared(s) \in Sessions
      /\ Fields(session_init, NoClient, NoClient, NoTuner, NoTuner, Unspecified,
                FALSE, FALSE, FALSE, FALSE)
      /\ Fields(slave_cleared(s), s.master_fd, NoClient, s.master_tuner, NoTuner,
                s.sample_rate_hz, s.master_selected, FALSE, s.master_initialised, FALSE)
  BY 6 \in Rates, 1 \in Tuners, TRUE \in BOOLEAN, Constructors
<1>1. CASE descriptor_is_master(s, d) /\ ~s.master_initialised /\ ~s.slave_selected
  <2>1. out = Done(session_init, clear_event)
    BY <1>1 DEF release
  <2>2. out.session = session_init /\ out.result = "OK" /\ Notified(out, "NONE", NoClient)
    BY <2>1 DEF Done, Notified, clear_event
  <2>3. DropMaster(s, out.session, d)
    BY <1>0, <1>1, <2>2 DEF DropMaster
  <2> QED
    BY <1>0, <1>1, <2>2, <2>3 DEF Told
<1>2. CASE ~descriptor_is_master(s, d) /\ descriptor_is_slave(s, d) /\ ~s.slave_initialised
  <2>1. out = Done(slave_cleared(s),
                   emit_event("SLAVE_DETACHED", s.master_fd, s.slave_tuner))
    BY <1>2 DEF release
  <2>2. out.session = slave_cleared(s) /\ out.result = "OK"
        /\ Notified(out, "SLAVE_DETACHED", s.master_fd)
    BY <2>1 DEF Done, Notified, emit_event
  <2>3. DropSlave(s, out.session, d)
    BY <1>0, <1>2, <2>2 DEF DropSlave
  <2> QED
    BY <1>0, <1>2, <2>2, <2>3 DEF Told
<1>3. CASE \/ out = Refused(s, "BUSY") \/ out = Refused(s, "STOP_PENDING")
           \/ out = Refused(s, "INVALID")
  <2>1. Nothing(s, out) /\ out.result # "OK"
    BY <1>3 DEF Refused, Nothing, clear_event
  <2> QED
    BY <2>1
<1> QED
  BY <1>1, <1>2, <1>3 DEF release

\* openrspd_duo_disconnect removes every trace of the connection; the loss of
\* the master removes the slave too, and the slave is told.
LEMMA DisconnectOutcome ==
  ASSUME NEW s, Sound(s), NEW d \in Clients, NEW out, out = disconnect(s, d)
  PROVE  \/ Nothing(s, out) /\ role_for_descriptor(s, d) = "none"
         \/ /\ Told(out) /\ DropMaster(s, out.session, d) /\ ~s.slave_selected
            /\ Notified(out, "NONE", NoClient)
         \/ /\ Told(out) /\ DropMaster(s, out.session, d) /\ s.slave_selected
            /\ Notified(out, "MASTER_DLL_DISAPPEARED", s.slave_fd)
         \/ /\ Told(out) /\ DropSlave(s, out.session, d) /\ ~descriptor_is_master(s, d)
            /\ Notified(out, "SLAVE_DLL_DISAPPEARED", s.master_fd)
<1> s \in Sessions BY DEF Sound
<1>0. /\ session_init \in Sessions /\ slave_cleared(s) \in Sessions
      /\ Fields(session_init, NoClient, NoClient, NoTuner, NoTuner, Unspecified,
                FALSE, FALSE, FALSE, FALSE)
      /\ Fields(slave_cleared(s), s.master_fd, NoClient, s.master_tuner, NoTuner,
                s.sample_rate_hz, s.master_selected, FALSE, s.master_initialised, FALSE)
  BY 6 \in Rates, 1 \in Tuners, TRUE \in BOOLEAN, Constructors
<1>1. CASE descriptor_is_slave(s, d)
  <2>1. out = Done(slave_cleared(s),
                   emit_event("SLAVE_DLL_DISAPPEARED", s.master_fd, s.slave_tuner))
    BY <1>1 DEF disconnect
  <2>2. out.session = slave_cleared(s) /\ out.result = "OK"
        /\ Notified(out, "SLAVE_DLL_DISAPPEARED", s.master_fd)
    BY <2>1 DEF Done, Notified, emit_event
  <2>3. DropSlave(s, out.session, d) /\ ~descriptor_is_master(s, d)
    BY <1>0, <1>1, <2>2
    DEF DropSlave, descriptor_is_master, descriptor_is_slave, Sound, SessionInv,
        SlaveNeedsMaster
  <2> QED
    BY <1>0, <2>2, <2>3 DEF Told
<1>2. CASE ~descriptor_is_slave(s, d) /\ descriptor_is_master(s, d)
  <2>1. out = Done(session_init,
                   IF s.slave_selected
                   THEN emit_event("MASTER_DLL_DISAPPEARED", s.slave_fd, s.slave_tuner)
                   ELSE clear_event)
    BY <1>2 DEF disconnect
  <2>2. out.session = session_init /\ out.result = "OK"
    BY <2>1 DEF Done
  <2>3. DropMaster(s, out.session, d)
    BY <1>0, <1>2, <2>2 DEF DropMaster
  <2>4. CASE s.slave_selected
    <3>1. Notified(out, "MASTER_DLL_DISAPPEARED", s.slave_fd)
      BY <2>1, <2>4 DEF Done, Notified, emit_event
    <3> QED
      BY <1>0, <2>2, <2>3, <2>4, <3>1 DEF Told
  <2>5. CASE ~s.slave_selected
    <3>1. Notified(out, "NONE", NoClient)
      BY <2>1, <2>5 DEF Done, Notified, clear_event
    <3> QED
      BY <1>0, <2>2, <2>3, <2>5, <3>1 DEF Told
  <2> QED
    BY <2>4, <2>5
<1>3. CASE ~descriptor_is_slave(s, d) /\ ~descriptor_is_master(s, d)
  <2>1. out = Done(s, clear_event)
    BY <1>3 DEF disconnect
  <2>2. Nothing(s, out) /\ role_for_descriptor(s, d) = "none"
    BY <1>3, <2>1 DEF Done, Nothing, clear_event, role_for_descriptor
  <2> QED
    BY <2>2
<1> QED
  BY <1>1, <1>2, <1>3

-----------------------------------------------------------------------------
\* The inductive invariant: the session is sound and the beliefs are right.
IndInv == Sound(session) /\ TypeOK /\ RolesKnown /\ PeerKnown /\ PendingSlaveIsWoken

\* An exchange after which session, role and waiting fit keeps the types.
LEMMA ExchangeTypes ==
  ASSUME IndInv, NEW c \in Clients, NEW out, NEW role \in Roles \union {"none"},
         NEW waits \in BOOLEAN, Exchange(c, out, role, waits), Sound(session')
  PROVE  TypeOK'
<1>1. held' \in [Clients -> Roles \union {"none"}]
  BY DEF IndInv, TypeOK, Exchange
<1>2. peer' \in [Clients -> PeerStates]
  BY DEF IndInv, TypeOK, Exchange, PeerAfter, PeerStates
<1>3. waiting' \subseteq Clients
  BY DEF IndInv, TypeOK, Exchange
<1> QED
  BY <1>1, <1>2, <1>3 DEF TypeOK, Sound

\* An operation that changes nothing leaves the beliefs right.
LEMMA BeliefsNothing ==
  ASSUME IndInv, NEW c \in Clients, NEW out, NEW role \in Roles \union {"none"},
         NEW waits \in BOOLEAN, Exchange(c, out, role, waits),
         Nothing(session, out), role = held[c],
         waits => \/ c \in waiting
                  \/ descriptor_is_slave(session, c) /\ ~session.master_initialised
  PROVE  IndInv'
<1> USE NoClientAssumption
<1>1. session' = out.session
  BY DEF Exchange
<1>2. Sound(session')
  BY <1>1 DEF IndInv, Nothing
<1>3. TypeOK'
  BY <1>2, ExchangeTypes
<1>0. /\ session \in Sessions /\ SessionInv(session) /\ TypeOK
      /\ RolesKnown /\ PeerKnown /\ PendingSlaveIsWoken
  BY DEF IndInv, Sound
<1>4. RolesKnown'
  BY <1>0, <1>1 DEF RolesKnown, Exchange, Nothing,
     role_for_descriptor, descriptor_is_master, descriptor_is_slave, SessionInv,
     FieldsAgree, SlaveNeedsMaster, InitialisedNested
<1>5. PeerKnown'
  BY <1>0, <1>1 DEF PeerKnown, Exchange, PeerAfter, SlaveState, Nothing,
     RolesKnown, role_for_descriptor, descriptor_is_master, descriptor_is_slave,
     SessionInv, FieldsAgree, SlaveNeedsMaster, InitialisedNested
<1>6. PendingSlaveIsWoken'
  BY <1>0, <1>1 DEF PendingSlaveIsWoken, Exchange, Nothing,
     descriptor_is_master, descriptor_is_slave, SessionInv, FieldsAgree,
     SlaveNeedsMaster, InitialisedNested
<1> QED
  BY <1>2, <1>3, <1>4, <1>5, <1>6 DEF IndInv

\* A client that takes the master role knows it, and sees no slave yet.
LEMMA BeliefsTakeMaster ==
  ASSUME IndInv, NEW c \in Clients, NEW out, NEW role \in Roles \union {"none"},
         NEW waits \in BOOLEAN, Exchange(c, out, role, waits),
         Told(out), TakeMaster(session, out.session, c), Notified(out, "NONE", NoClient),
         role = "master", waits => c \in waiting
  PROVE  IndInv'
<1> USE NoClientAssumption
<1>1. session' = out.session
  BY DEF Exchange
<1>2. Sound(session')
  BY <1>1, MoveSound DEF IndInv, Told, Move
<1>3. TypeOK'
  BY <1>2, ExchangeTypes
<1>0. /\ session \in Sessions /\ SessionInv(session) /\ TypeOK
      /\ RolesKnown /\ PeerKnown /\ PendingSlaveIsWoken
  BY DEF IndInv, Sound
<1>4. RolesKnown'
  BY <1>0, <1>1 DEF RolesKnown, Exchange, TakeMaster, Fields, Notified,
     role_for_descriptor, descriptor_is_master, descriptor_is_slave, SessionInv,
     FieldsAgree, SlaveNeedsMaster, InitialisedNested
<1>5. PeerKnown'
  BY <1>0, <1>1 DEF PeerKnown, Exchange, PeerAfter, SlaveState, TakeMaster, Fields, Notified,
     RolesKnown, role_for_descriptor, descriptor_is_master, descriptor_is_slave,
     SessionInv, FieldsAgree, SlaveNeedsMaster, InitialisedNested
<1>6. PendingSlaveIsWoken'
  BY <1>0, <1>1 DEF PendingSlaveIsWoken, Exchange, TakeMaster, Fields, Notified,
     descriptor_is_master, descriptor_is_slave, SessionInv, FieldsAgree,
     SlaveNeedsMaster, InitialisedNested
<1> QED
  BY <1>2, <1>3, <1>4, <1>5, <1>6 DEF IndInv

\* A client that takes the slave role knows it, and its master sees it attached.
LEMMA BeliefsTakeSlave ==
  ASSUME IndInv, NEW c \in Clients, NEW out, NEW role \in Roles \union {"none"},
         NEW waits \in BOOLEAN, Exchange(c, out, role, waits),
         Told(out), TakeSlave(session, out.session, c), role = "slave",
         Notified(out, "SLAVE_ATTACHED", session.master_fd), waits => c \in waiting
  PROVE  IndInv'
<1> USE NoClientAssumption
<1>1. session' = out.session
  BY DEF Exchange
<1>2. Sound(session')
  BY <1>1, MoveSound DEF IndInv, Told, Move
<1>3. TypeOK'
  BY <1>2, ExchangeTypes
<1>0. /\ session \in Sessions /\ SessionInv(session) /\ TypeOK
      /\ RolesKnown /\ PeerKnown /\ PendingSlaveIsWoken
  BY DEF IndInv, Sound
<1>4. RolesKnown'
  BY <1>0, <1>1 DEF RolesKnown, Exchange, TakeSlave, Fields, Notified,
     role_for_descriptor, descriptor_is_master, descriptor_is_slave, SessionInv,
     FieldsAgree, SlaveNeedsMaster, InitialisedNested
<1>5. PeerKnown'
  BY <1>0, <1>1 DEF PeerKnown, Exchange, PeerAfter, SlaveState, TakeSlave, Fields, Notified,
     RolesKnown, role_for_descriptor, descriptor_is_master, descriptor_is_slave,
     SessionInv, FieldsAgree, SlaveNeedsMaster, InitialisedNested
<1>6. PendingSlaveIsWoken'
  BY <1>0, <1>1 DEF PendingSlaveIsWoken, Exchange, TakeSlave, Fields, Notified,
     descriptor_is_master, descriptor_is_slave, SessionInv, FieldsAgree,
     SlaveNeedsMaster, InitialisedNested
<1> QED
  BY <1>2, <1>3, <1>4, <1>5, <1>6 DEF IndInv

\* When the master starts, a waiting slave is told, so nobody is left waiting.
LEMMA BeliefsStartMaster ==
  ASSUME IndInv, NEW c \in Clients, NEW out, NEW role \in Roles \union {"none"},
         NEW waits \in BOOLEAN, Exchange(c, out, role, waits),
         Told(out), SetMaster(session, out.session, c, TRUE), role = held[c], ~waits,
         \/ session.slave_selected /\ Notified(out, "MASTER_INITIALISED", session.slave_fd)
         \/ ~session.slave_selected /\ Notified(out, "NONE", NoClient)
  PROVE  IndInv'
<1> USE NoClientAssumption
<1>1. session' = out.session
  BY DEF Exchange
<1>2. Sound(session')
  BY <1>1, MoveSound DEF IndInv, Told, Move
<1>3. TypeOK'
  BY <1>2, ExchangeTypes
<1>0. /\ session \in Sessions /\ SessionInv(session) /\ TypeOK /\ waiting \subseteq Clients
      /\ RolesKnown /\ PeerKnown /\ PendingSlaveIsWoken
  BY DEF IndInv, Sound, TypeOK
<1>4. RolesKnown'
  BY <1>0, <1>1 DEF RolesKnown, Exchange, SetMaster, Fields, Notified,
     role_for_descriptor, descriptor_is_master, descriptor_is_slave, SessionInv,
     FieldsAgree, SlaveNeedsMaster, InitialisedNested
<1>5. PeerKnown'
  BY <1>0, <1>1 DEF PeerKnown, Exchange, PeerAfter, SlaveState, SetMaster, Fields, Notified,
     RolesKnown, role_for_descriptor, descriptor_is_master, descriptor_is_slave,
     SessionInv, FieldsAgree, SlaveNeedsMaster, InitialisedNested
<1>6. PendingSlaveIsWoken'
  BY <1>0, <1>1 DEF PendingSlaveIsWoken, Exchange, SetMaster, Fields, Notified,
     descriptor_is_master, descriptor_is_slave, SessionInv, FieldsAgree,
     SlaveNeedsMaster, InitialisedNested
<1> QED
  BY <1>2, <1>3, <1>4, <1>5, <1>6 DEF IndInv

\* When the master stops, no slave runs, and no belief changes.
LEMMA BeliefsStopMaster ==
  ASSUME IndInv, NEW c \in Clients, NEW out, NEW role \in Roles \union {"none"},
         NEW waits \in BOOLEAN, Exchange(c, out, role, waits),
         Told(out), SetMaster(session, out.session, c, FALSE), role = held[c], ~waits,
         Notified(out, "NONE", NoClient)
  PROVE  IndInv'
<1> USE NoClientAssumption
<1>1. session' = out.session
  BY DEF Exchange
<1>2. Sound(session')
  BY <1>1, MoveSound DEF IndInv, Told, Move
<1>3. TypeOK'
  BY <1>2, ExchangeTypes
<1>0. /\ session \in Sessions /\ SessionInv(session) /\ TypeOK /\ waiting \subseteq Clients
      /\ RolesKnown /\ PeerKnown /\ PendingSlaveIsWoken
  BY DEF IndInv, Sound, TypeOK
<1>4. RolesKnown'
  BY <1>0, <1>1 DEF RolesKnown, Exchange, SetMaster, Fields, Notified,
     role_for_descriptor, descriptor_is_master, descriptor_is_slave, SessionInv,
     FieldsAgree, SlaveNeedsMaster, InitialisedNested
<1>5. PeerKnown'
  BY <1>0, <1>1 DEF PeerKnown, Exchange, PeerAfter, SlaveState, SetMaster, Fields, Notified,
     RolesKnown, role_for_descriptor, descriptor_is_master, descriptor_is_slave,
     SessionInv, FieldsAgree, SlaveNeedsMaster, InitialisedNested
<1>6. PendingSlaveIsWoken'
  BY <1>0, <1>1 DEF PendingSlaveIsWoken, Exchange, SetMaster, Fields, Notified,
     descriptor_is_master, descriptor_is_slave, SessionInv, FieldsAgree,
     SlaveNeedsMaster, InitialisedNested
<1> QED
  BY <1>2, <1>3, <1>4, <1>5, <1>6 DEF IndInv

\* When the slave starts, its master is told.
LEMMA BeliefsStartSlave ==
  ASSUME IndInv, NEW c \in Clients, NEW out, NEW role \in Roles \union {"none"},
         NEW waits \in BOOLEAN, Exchange(c, out, role, waits),
         Told(out), SetSlave(session, out.session, c, TRUE), role = held[c], ~waits,
         Notified(out, "SLAVE_INITIALISED", session.master_fd)
  PROVE  IndInv'
<1> USE NoClientAssumption
<1>1. session' = out.session
  BY DEF Exchange
<1>2. Sound(session')
  BY <1>1, MoveSound DEF IndInv, Told, Move
<1>3. TypeOK'
  BY <1>2, ExchangeTypes
<1>0. /\ session \in Sessions /\ SessionInv(session) /\ TypeOK /\ waiting \subseteq Clients
      /\ RolesKnown /\ PeerKnown /\ PendingSlaveIsWoken
  BY DEF IndInv, Sound, TypeOK
<1>4. RolesKnown'
  BY <1>0, <1>1 DEF RolesKnown, Exchange, SetSlave, Fields, Notified,
     role_for_descriptor, descriptor_is_master, descriptor_is_slave, SessionInv,
     FieldsAgree, SlaveNeedsMaster, InitialisedNested
<1>5. PeerKnown'
  BY <1>0, <1>1 DEF PeerKnown, Exchange, PeerAfter, SlaveState, SetSlave, Fields, Notified,
     RolesKnown, role_for_descriptor, descriptor_is_master, descriptor_is_slave,
     SessionInv, FieldsAgree, SlaveNeedsMaster, InitialisedNested
<1>6. PendingSlaveIsWoken'
  BY <1>0, <1>1 DEF PendingSlaveIsWoken, Exchange, SetSlave, Fields, Notified,
     descriptor_is_master, descriptor_is_slave, SessionInv, FieldsAgree,
     SlaveNeedsMaster, InitialisedNested
<1> QED
  BY <1>2, <1>3, <1>4, <1>5, <1>6 DEF IndInv

\* When the slave stops, its master is told.
LEMMA BeliefsStopSlave ==
  ASSUME IndInv, NEW c \in Clients, NEW out, NEW role \in Roles \union {"none"},
         NEW waits \in BOOLEAN, Exchange(c, out, role, waits),
         Told(out), SetSlave(session, out.session, c, FALSE), role = held[c], ~waits,
         Notified(out, "SLAVE_UNINITIALISED", session.master_fd)
  PROVE  IndInv'
<1> USE NoClientAssumption
<1>1. session' = out.session
  BY DEF Exchange
<1>2. Sound(session')
  BY <1>1, MoveSound DEF IndInv, Told, Move
<1>3. TypeOK'
  BY <1>2, ExchangeTypes
<1>0. /\ session \in Sessions /\ SessionInv(session) /\ TypeOK /\ waiting \subseteq Clients
      /\ RolesKnown /\ PeerKnown /\ PendingSlaveIsWoken
  BY DEF IndInv, Sound, TypeOK
<1>4. RolesKnown'
  BY <1>0, <1>1 DEF RolesKnown, Exchange, SetSlave, Fields, Notified,
     role_for_descriptor, descriptor_is_master, descriptor_is_slave, SessionInv,
     FieldsAgree, SlaveNeedsMaster, InitialisedNested
<1>5. PeerKnown'
  BY <1>0, <1>1 DEF PeerKnown, Exchange, PeerAfter, SlaveState, SetSlave, Fields, Notified,
     RolesKnown, role_for_descriptor, descriptor_is_master, descriptor_is_slave,
     SessionInv, FieldsAgree, SlaveNeedsMaster, InitialisedNested
<1>6. PendingSlaveIsWoken'
  BY <1>0, <1>1 DEF PendingSlaveIsWoken, Exchange, SetSlave, Fields, Notified,
     descriptor_is_master, descriptor_is_slave, SessionInv, FieldsAgree,
     SlaveNeedsMaster, InitialisedNested
<1> QED
  BY <1>2, <1>3, <1>4, <1>5, <1>6 DEF IndInv

\* When the slave leaves or disappears, its master is told.
LEMMA BeliefsDropSlave ==
  ASSUME IndInv, NEW c \in Clients, NEW out, NEW role \in Roles \union {"none"},
         NEW waits \in BOOLEAN, Exchange(c, out, role, waits),
         Told(out), DropSlave(session, out.session, c), role = "none", ~waits,
         \/ Notified(out, "SLAVE_DETACHED", session.master_fd)
         \/ Notified(out, "SLAVE_DLL_DISAPPEARED", session.master_fd)
  PROVE  IndInv'
<1> USE NoClientAssumption
<1>1. session' = out.session
  BY DEF Exchange
<1>2. Sound(session')
  BY <1>1, MoveSound DEF IndInv, Told, Move
<1>3. TypeOK'
  BY <1>2, ExchangeTypes
<1>0. /\ session \in Sessions /\ SessionInv(session) /\ TypeOK /\ waiting \subseteq Clients
      /\ RolesKnown /\ PeerKnown /\ PendingSlaveIsWoken
  BY DEF IndInv, Sound, TypeOK
<1>4. RolesKnown'
  BY <1>0, <1>1 DEF RolesKnown, Exchange, DropSlave, Fields, Notified,
     role_for_descriptor, descriptor_is_master, descriptor_is_slave, SessionInv,
     FieldsAgree, SlaveNeedsMaster, InitialisedNested
<1>5. PeerKnown'
  BY <1>0, <1>1 DEF PeerKnown, Exchange, PeerAfter, SlaveState, DropSlave, Fields, Notified,
     RolesKnown, role_for_descriptor, descriptor_is_master, descriptor_is_slave,
     SessionInv, FieldsAgree, SlaveNeedsMaster, InitialisedNested
<1>6. PendingSlaveIsWoken'
  BY <1>0, <1>1 DEF PendingSlaveIsWoken, Exchange, DropSlave, Fields, Notified,
     descriptor_is_master, descriptor_is_slave, SessionInv, FieldsAgree,
     SlaveNeedsMaster, InitialisedNested
<1> QED
  BY <1>2, <1>3, <1>4, <1>5, <1>6 DEF IndInv

\* When the master leaves it is alone; when it disappears its slave is told.
LEMMA BeliefsDropMaster ==
  ASSUME IndInv, NEW c \in Clients, NEW out, NEW role \in Roles \union {"none"},
         NEW waits \in BOOLEAN, Exchange(c, out, role, waits),
         Told(out), DropMaster(session, out.session, c), role = "none", ~waits,
         \/ ~session.slave_selected /\ Notified(out, "NONE", NoClient)
         \/ session.slave_selected /\ Notified(out, "MASTER_DLL_DISAPPEARED", session.slave_fd)
  PROVE  IndInv'
<1> USE NoClientAssumption
<1>1. session' = out.session
  BY DEF Exchange
<1>2. Sound(session')
  BY <1>1, MoveSound DEF IndInv, Told, Move
<1>3. TypeOK'
  BY <1>2, ExchangeTypes
<1>0. /\ session \in Sessions /\ SessionInv(session) /\ TypeOK /\ waiting \subseteq Clients
      /\ RolesKnown /\ PeerKnown /\ PendingSlaveIsWoken
  BY DEF IndInv, Sound, TypeOK
<1>4. RolesKnown'
  BY <1>0, <1>1 DEF RolesKnown, Exchange, DropMaster, Fields, Notified,
     role_for_descriptor, descriptor_is_master, descriptor_is_slave, SessionInv,
     FieldsAgree, SlaveNeedsMaster, InitialisedNested
<1>5. PeerKnown'
  BY <1>0, <1>1, SMTT(20) DEF PeerKnown, Exchange, PeerAfter, SlaveState, DropMaster, Fields,
     Notified, RolesKnown, role_for_descriptor, descriptor_is_master, descriptor_is_slave,
     SessionInv, FieldsAgree, SlaveNeedsMaster, InitialisedNested
<1>6. PendingSlaveIsWoken'
  BY <1>0, <1>1 DEF PendingSlaveIsWoken, Exchange, DropMaster, Fields, Notified,
     descriptor_is_master, descriptor_is_slave, SessionInv, FieldsAgree,
     SlaveNeedsMaster, InitialisedNested
<1> QED
  BY <1>2, <1>3, <1>4, <1>5, <1>6 DEF IndInv

-----------------------------------------------------------------------------
\* The initial session is sound and nobody believes in anything.
LEMMA InitInv == Init => IndInv
<1> SUFFICES ASSUME Init PROVE IndInv
  OBVIOUS
<1>1. session_init \in Sessions
      /\ Fields(session_init, NoClient, NoClient, NoTuner, NoTuner, Unspecified,
                FALSE, FALSE, FALSE, FALSE)
  BY DEF session_init, Sessions, Fields
<1>2. session = session_init
  BY DEF Init
<1>3. Sound(session)
  BY <1>1, <1>2
  DEF Sound, SessionInv, FieldsAgree, SlaveNeedsMaster, InitialisedNested, Fields
<1>4. TypeOK
  BY <1>1, <1>2 DEF Init, TypeOK, Roles, PeerStates
<1>5. RolesKnown /\ PeerKnown /\ PendingSlaveIsWoken
  BY <1>1, <1>2
  DEF Init, RolesKnown, PeerKnown, PendingSlaveIsWoken, role_for_descriptor,
      descriptor_is_master, descriptor_is_slave, Fields
<1> QED
  BY <1>3, <1>4, <1>5 DEF IndInv

\* Every operation of every client keeps the inductive invariant.
LEMMA NextInv == IndInv /\ [Next]_vars => IndInv'
<1> SUFFICES ASSUME IndInv, [Next]_vars PROVE IndInv'
  OBVIOUS
<1>0. Sound(session) /\ held \in [Clients -> Roles \union {"none"}]
  BY DEF IndInv, TypeOK
<1>1. ASSUME NEW c \in Clients, NEW role \in Roles, NEW t \in TunerArgs,
             NEW rate \in RateArgs, Acquire(c, role, t, rate)
      PROVE  IndInv'
  <2> DEFINE out == acquire(session, c, role, t, rate)
             now == IF out.result = "OK" THEN role ELSE held[c]
             waits == c \in waiting
  <2>1. Exchange(c, out, now, waits) /\ now \in Roles \union {"none"}
        /\ waits \in BOOLEAN /\ (waits => c \in waiting)
    BY <1>0, <1>1, SMTT(20) DEF Acquire
  <2>2. \/ Nothing(session, out) /\ now = held[c]
        \/ /\ Told(out) /\ now = "master" /\ TakeMaster(session, out.session, c)
           /\ Notified(out, "NONE", NoClient)
        \/ /\ Told(out) /\ now = "slave" /\ TakeSlave(session, out.session, c)
           /\ Notified(out, "SLAVE_ATTACHED", session.master_fd)
    BY <1>0, AcquireOutcome, SMTT(20) DEF IndInv, RolesKnown, Told
  <2> HIDE DEF out, now, waits
  <2> QED
    BY <2>1, <2>2, BeliefsNothing, BeliefsTakeMaster, BeliefsTakeSlave
<1>2. ASSUME NEW c \in Clients, Initialise(c) PROVE IndInv'
  <2> DEFINE out == initialise(session, c)
             waits == out.result = "START_PENDING"
  <2>1. Exchange(c, out, held[c], waits) /\ held[c] \in Roles \union {"none"}
    BY <1>0, <1>2 DEF Initialise
  <2>2. \/ /\ Nothing(session, out)
           /\ waits => descriptor_is_slave(session, c) /\ ~session.master_initialised
        \/ /\ Told(out) /\ ~waits /\ SetMaster(session, out.session, c, TRUE)
           /\ \/ session.slave_selected
                 /\ Notified(out, "MASTER_INITIALISED", session.slave_fd)
              \/ ~session.slave_selected /\ Notified(out, "NONE", NoClient)
        \/ /\ Told(out) /\ ~waits /\ SetSlave(session, out.session, c, TRUE)
           /\ Notified(out, "SLAVE_INITIALISED", session.master_fd)
    BY <1>0, InitialiseOutcome DEF Told
  <2>3. waits \in BOOLEAN
    OBVIOUS
  <2> HIDE DEF out, waits
  <2> QED
    BY <2>1, <2>2, <2>3, BeliefsNothing, BeliefsStartMaster, BeliefsStartSlave
<1>3. ASSUME NEW c \in Clients, Uninitialise(c) PROVE IndInv'
  <2> DEFINE out == uninitialise(session, c)
  <2>1. Exchange(c, out, held[c], FALSE) /\ held[c] \in Roles \union {"none"}
    BY <1>0, <1>3 DEF Uninitialise
  <2>2. \/ Nothing(session, out)
        \/ /\ Told(out) /\ SetMaster(session, out.session, c, FALSE)
           /\ Notified(out, "NONE", NoClient)
        \/ /\ Told(out) /\ SetSlave(session, out.session, c, FALSE)
           /\ Notified(out, "SLAVE_UNINITIALISED", session.master_fd)
    BY <1>0, UninitialiseOutcome
  <2> HIDE DEF out
  <2> QED
    BY <2>1, <2>2, BeliefsNothing, BeliefsStopMaster, BeliefsStopSlave
<1>4. ASSUME NEW c \in Clients, Release(c) PROVE IndInv'
  <2> DEFINE out == release(session, c)
             now == IF out.result = "OK" THEN "none" ELSE held[c]
             waits == out.result # "OK" /\ c \in waiting
  <2>1. Exchange(c, out, now, waits) /\ now \in Roles \union {"none"}
    BY <1>0, <1>4 DEF Release
  <2>2. \/ Nothing(session, out) /\ now = held[c] /\ (waits => c \in waiting)
        \/ /\ Told(out) /\ now = "none" /\ ~waits /\ DropMaster(session, out.session, c)
           /\ ~session.slave_selected /\ Notified(out, "NONE", NoClient)
        \/ /\ Told(out) /\ now = "none" /\ ~waits /\ DropSlave(session, out.session, c)
           /\ Notified(out, "SLAVE_DETACHED", session.master_fd)
    BY <1>0, ReleaseOutcome DEF Told
  <2>3. waits \in BOOLEAN
    BY SMTT(20)
  <2> HIDE DEF out, now, waits
  <2> QED
    BY <2>1, <2>2, <2>3, BeliefsNothing, BeliefsDropMaster, BeliefsDropSlave
<1>5. ASSUME NEW c \in Clients, Disconnect(c) PROVE IndInv'
  <2> DEFINE out == disconnect(session, c)
  <2>1. Exchange(c, out, "none", FALSE)
    BY <1>5 DEF Disconnect
  <2>2. \/ Nothing(session, out) /\ held[c] = "none"
        \/ /\ Told(out) /\ DropMaster(session, out.session, c)
           /\ \/ ~session.slave_selected /\ Notified(out, "NONE", NoClient)
              \/ session.slave_selected
                 /\ Notified(out, "MASTER_DLL_DISAPPEARED", session.slave_fd)
        \/ /\ Told(out) /\ DropSlave(session, out.session, c)
           /\ Notified(out, "SLAVE_DLL_DISAPPEARED", session.master_fd)
    BY <1>0, DisconnectOutcome DEF IndInv, RolesKnown
  <2> HIDE DEF out
  <2> QED
    BY <2>1, <2>2, BeliefsNothing, BeliefsDropMaster, BeliefsDropSlave
<1>6. CASE UNCHANGED vars
  BY <1>6 DEF vars, IndInv, TypeOK, RolesKnown, PeerKnown, PendingSlaveIsWoken
<1> QED
  BY <1>1, <1>2, <1>3, <1>4, <1>5, <1>6 DEF Next

\* The inductive invariant holds in every reachable state.
THEOREM Inductive == Spec => []IndInv
<1>1. Init => IndInv
  BY InitInv
<1>2. IndInv /\ [Next]_vars => IndInv'
  BY NextInv
<1> QED
  BY <1>1, <1>2, PTL DEF Spec

\* duo_session.c keeps the types of its structure, whatever the requests carry.
THEOREM TypeCorrect == Spec => []TypeOK
<1>1. IndInv => TypeOK
  BY DEF IndInv
<1> QED
  BY <1>1, Inductive, PTL

\* The session is never half set, for any number of clients: no slave without
\* its master, no two roles on one tuner or connection, no slave running alone.
THEOREM Consistent == Spec => []SessionConsistent
<1>1. IndInv => SessionConsistent
  BY DEF IndInv, Sound, SessionConsistent
<1> QED
  BY <1>1, Inductive, PTL

\* Every client that holds a role knows it, and none believes in a lost one.
THEOREM ClientsKnowRoles == Spec => []RolesKnown
<1>1. IndInv => RolesKnown
  BY DEF IndInv
<1> QED
  BY <1>1, Inductive, PTL

\* The notifications alone give the master the true state of its slave.
THEOREM MasterKnowsSlave == Spec => []PeerKnown
<1>1. IndInv => PeerKnown
  BY DEF IndInv
<1> QED
  BY <1>1, Inductive, PTL

\* No slave is left waiting for a master that already runs.
THEOREM NoLostWakeup == Spec => []PendingSlaveIsWoken
<1>1. IndInv => PendingSlaveIsWoken
  BY DEF IndInv
<1> QED
  BY <1>1, Inductive, PTL
-----------------------------------------------------------------------------
(* The session implements the tuner lease: every move of the session is one  *)
(* action of TunerLease (or, for a refused request, a stuttering step),      *)
(* because the session is sound in every reachable state.                    *)

\* The refinement mapping as functions of a session.
Holder(s) == [t \in Tuners |->
  IF s.master_selected /\ s.master_tuner = t THEN s.master_fd
  ELSE IF s.slave_selected /\ s.slave_tuner = t THEN s.slave_fd
  ELSE NoClient]

Live(s) == [t \in Tuners |-> route(s, t) # NoClient]

\* The lease actions, as relations between the mapped values.
LeaseStep(s, n) ==
  \/ \E c \in Clients, t \in Tuners :
       \/ /\ s.master_tuner = NoTuner /\ \A u \in Tuners : Holder(s)[u] = NoClient
          /\ Holder(n) = [Holder(s) EXCEPT ![t] = c] /\ n.master_tuner = t
          /\ Live(n) = Live(s)
       \/ /\ s.master_tuner # NoTuner /\ Holder(s)[t] = NoClient
          /\ ~ \E u \in Tuners : Holder(s)[u] = c
          /\ Holder(n) = [Holder(s) EXCEPT ![t] = c] /\ n.master_tuner = s.master_tuner
          /\ Live(n) = Live(s)
  \/ \E t \in Tuners :
       \/ /\ Holder(s)[t] # NoClient /\ ~Live(s)[t]
          /\ t = s.master_tuner \/ Live(s)[s.master_tuner]
          /\ Live(n) = [Live(s) EXCEPT ![t] = TRUE]
          /\ Holder(n) = Holder(s) /\ n.master_tuner = s.master_tuner
       \/ /\ Live(s)[t] /\ (t = s.master_tuner => \A u \in Tuners \ {t} : ~Live(s)[u])
          /\ Live(n) = [Live(s) EXCEPT ![t] = FALSE]
          /\ Holder(n) = Holder(s) /\ n.master_tuner = s.master_tuner
       \/ /\ Holder(s)[t] # NoClient /\ t # s.master_tuner
          /\ Holder(n) = [Holder(s) EXCEPT ![t] = NoClient]
          /\ Live(n) = [Live(s) EXCEPT ![t] = FALSE] /\ n.master_tuner = s.master_tuner
  \/ /\ s.master_tuner # NoTuner /\ n.master_tuner = NoTuner
     /\ Holder(n) = [t \in Tuners |-> NoClient]
     /\ Live(n) = [t \in Tuners |-> FALSE]

\* Every move of duo_session.c is a step of the lease.
LEMMA MoveIsLease ==
  ASSUME NEW s, NEW n, NEW d \in Clients, Sound(s), n \in Sessions, Move(s, n, d)
  PROVE  LeaseStep(s, n)
<1> USE NoClientAssumption
<1>1. s \in Sessions /\ FieldsAgree(s) /\ SlaveNeedsMaster(s) /\ InitialisedNested(s)
  BY DEF Sound, SessionInv
<1>2. CASE TakeMaster(s, n, d)
  <2>1. PICK t \in Tuners, rate \in Rates :
          Fields(n, d, s.slave_fd, t, s.slave_tuner, rate, TRUE, s.slave_selected,
                 FALSE, s.slave_initialised)
    BY <1>2 DEF TakeMaster
  <2>2. s.master_tuner = NoTuner /\ \A u \in Tuners : Holder(s)[u] = NoClient
    BY <1>1, <1>2 DEF TakeMaster, Holder, FieldsAgree
  <2>3. Holder(n) = [Holder(s) EXCEPT ![t] = d] /\ n.master_tuner = t
    BY <1>1, <1>2, <2>1 DEF TakeMaster, Holder, Fields
  <2>4. Live(n) = Live(s)
    BY <1>1, <1>2, <2>1 DEF TakeMaster, Live, route, Fields, InitialisedNested
  <2> QED
    BY <2>2, <2>3, <2>4 DEF LeaseStep
<1>3. CASE TakeSlave(s, n, d)
  <2>1. PICK t \in Tuners \ {s.master_tuner} :
          Fields(n, s.master_fd, d, s.master_tuner, t, s.sample_rate_hz,
                 s.master_selected, TRUE, s.master_initialised, FALSE)
    BY <1>3 DEF TakeSlave
  <2>2. s.master_tuner # NoTuner /\ Holder(s)[t] = NoClient
        /\ ~ \E u \in Tuners : Holder(s)[u] = d
    BY <1>1, <1>3, <2>1 DEF TakeSlave, Holder, FieldsAgree
  <2>3. Holder(n) = [Holder(s) EXCEPT ![t] = d] /\ n.master_tuner = s.master_tuner
    BY <1>1, <1>3, <2>1 DEF TakeSlave, Holder, Fields
  <2>4. Live(n) = Live(s)
    BY <1>1, <1>3, <2>1 DEF TakeSlave, Live, route, Fields, InitialisedNested
  <2> QED
    BY <2>2, <2>3, <2>4 DEF LeaseStep
<1>4. ASSUME NEW on \in BOOLEAN, SetMaster(s, n, d, on) PROVE LeaseStep(s, n)
  <2> DEFINE t == s.master_tuner
  <2>0. s.master_selected /\ t \in Tuners /\ s.master_fd # NoClient
    BY <1>1, <1>4 DEF SetMaster, FieldsAgree, descriptor_is_master, Sessions
  <2>1. Holder(s)[t] # NoClient /\ Live(s)[t] = ~on
    BY <1>1, <1>4, <2>0 DEF SetMaster, Holder, Live, route, SlaveNeedsMaster
  <2>2. Holder(n) = Holder(s) /\ n.master_tuner = s.master_tuner
    BY <1>1, <1>4 DEF SetMaster, Holder, Fields
  <2>3. Live(n) = [Live(s) EXCEPT ![t] = on]
    BY <1>1, <1>4, <2>0 DEF SetMaster, Live, route, Fields, SlaveNeedsMaster
  <2>4. ~on => \A u \in Tuners \ {t} : ~Live(s)[u]
    BY <1>1, <1>4 DEF SetMaster, Live, route
  <2> HIDE DEF t
  <2>5. CASE on
    BY <2>0, <2>1, <2>2, <2>3, <2>5 DEF LeaseStep, t
  <2>6. CASE ~on
    BY <2>0, <2>1, <2>2, <2>3, <2>4, <2>6 DEF LeaseStep, t
  <2> QED
    BY <2>5, <2>6
<1>5. ASSUME NEW on \in BOOLEAN, SetSlave(s, n, d, on) PROVE LeaseStep(s, n)
  <2> DEFINE t == s.slave_tuner
  <2>0. /\ s.slave_selected /\ t \in Tuners /\ s.slave_fd # NoClient
        /\ s.master_selected /\ s.master_tuner \in Tuners /\ s.master_fd # NoClient
        /\ t # s.master_tuner
    BY <1>1, <1>5 DEF SetSlave, FieldsAgree, SlaveNeedsMaster, descriptor_is_slave, Sessions
  <2>1. Holder(s)[t] # NoClient /\ Live(s)[t] = ~on
    BY <1>1, <1>5, <2>0 DEF SetSlave, Holder, Live, route
  <2>2. Holder(n) = Holder(s) /\ n.master_tuner = s.master_tuner
    BY <1>1, <1>5 DEF SetSlave, Holder, Fields
  <2>3. Live(n) = [Live(s) EXCEPT ![t] = on]
    BY <1>1, <1>5, <2>0 DEF SetSlave, Live, route, Fields
  <2>4. on => Live(s)[s.master_tuner]
    BY <1>1, <1>5, <2>0 DEF SetSlave, Live, route
  <2> HIDE DEF t
  <2>5. CASE on
    BY <2>0, <2>1, <2>2, <2>3, <2>4, <2>5 DEF LeaseStep
  <2>6. CASE ~on
    BY <2>0, <2>1, <2>2, <2>3, <2>6 DEF LeaseStep
  <2> QED
    BY <2>5, <2>6
<1>6. CASE DropSlave(s, n, d)
  <2> DEFINE t == s.slave_tuner
  <2>0. /\ s.slave_selected /\ t \in Tuners /\ s.slave_fd # NoClient /\ t # s.master_tuner
    BY <1>1, <1>6 DEF DropSlave, FieldsAgree, SlaveNeedsMaster, descriptor_is_slave, Sessions
  <2>1. Holder(s)[t] # NoClient
    BY <1>1, <2>0 DEF Holder
  <2>2. Holder(n) = [Holder(s) EXCEPT ![t] = NoClient] /\ n.master_tuner = s.master_tuner
    BY <1>1, <1>6, <2>0 DEF DropSlave, Holder, Fields
  <2>3. Live(n) = [Live(s) EXCEPT ![t] = FALSE]
    BY <1>1, <1>6, <2>0 DEF DropSlave, Live, route, Fields
  <2> HIDE DEF t
  <2> QED
    BY <2>0, <2>1, <2>2, <2>3 DEF LeaseStep
<1>7. CASE DropMaster(s, n, d)
  <2>1. s.master_tuner # NoTuner /\ n.master_tuner = NoTuner
    BY <1>1, <1>7 DEF DropMaster, Fields, FieldsAgree, descriptor_is_master
  <2>2. Holder(n) = [t \in Tuners |-> NoClient] /\ Live(n) = [t \in Tuners |-> FALSE]
    BY <1>7 DEF DropMaster, Holder, Live, route, Fields
  <2> QED
    BY <2>1, <2>2 DEF LeaseStep
<1> QED
  BY <1>2, <1>3, <1>4, <1>5, <1>6, <1>7 DEF Move

\* An accepted operation is a move, a refused one leaves the session alone.
LEMMA NextMoves ==
  ASSUME IndInv, Next
  PROVE  session' = session \/ (Sound(session') /\ \E d \in Clients : Move(session, session', d))
<1>0. Sound(session)
  BY DEF IndInv
<1>1. ASSUME NEW c \in Clients, NEW role \in Roles, NEW t \in TunerArgs,
             NEW rate \in RateArgs, Acquire(c, role, t, rate)
      PROVE  session' = session \/ (session' \in Sessions /\ Move(session, session', c))
  <2> DEFINE out == acquire(session, c, role, t, rate)
  <2>1. session' = out.session
    BY <1>1, Zenon DEF Acquire, Exchange
  <2> HIDE DEF out
  <2>2. QED
    BY <1>0, <2>1, AcquireOutcome DEF out, Nothing, Told, Move
<1>2. ASSUME NEW c \in Clients, Initialise(c)
      PROVE  session' = session \/ (session' \in Sessions /\ Move(session, session', c))
  <2> DEFINE out == initialise(session, c)
  <2>1. session' = out.session
    BY <1>2, Zenon DEF Initialise, Exchange
  <2> HIDE DEF out
  <2>2. QED
    BY <1>0, <2>1, InitialiseOutcome DEF out, Nothing, Told, Move
<1>3. ASSUME NEW c \in Clients, Uninitialise(c)
      PROVE  session' = session \/ (session' \in Sessions /\ Move(session, session', c))
  <2> DEFINE out == uninitialise(session, c)
  <2>1. session' = out.session
    BY <1>3, Zenon DEF Uninitialise, Exchange
  <2> HIDE DEF out
  <2>2. QED
    BY <1>0, <2>1, UninitialiseOutcome DEF out, Nothing, Told, Move
<1>4. ASSUME NEW c \in Clients, Release(c)
      PROVE  session' = session \/ (session' \in Sessions /\ Move(session, session', c))
  <2> DEFINE out == release(session, c)
  <2>1. session' = out.session
    BY <1>4, ZenonT(30) DEF Release, Exchange
  <2> HIDE DEF out
  <2>2. QED
    BY <1>0, <2>1, ReleaseOutcome DEF out, Nothing, Told, Move
<1>5. ASSUME NEW c \in Clients, Disconnect(c)
      PROVE  session' = session \/ (session' \in Sessions /\ Move(session, session', c))
  <2> DEFINE out == disconnect(session, c)
  <2>1. session' = out.session
    BY <1>5, Zenon DEF Disconnect, Exchange
  <2> HIDE DEF out
  <2>2. QED
    BY <1>0, <2>1, DisconnectOutcome DEF out, Nothing, Told, Move
<1> QED
  BY <1>0, <1>1, <1>2, <1>3, <1>4, <1>5, MoveSound DEF Next

\* For any number of clients and any request arguments, every behaviour of the
\* session in duo_session.c is a behaviour of the tuner lease.
THEOREM Refinement == Spec => ImplementsLease
<1>1. Init => Lease!LeaseInit
  <2> SUFFICES ASSUME Init PROVE Lease!LeaseInit
    OBVIOUS
  <2>1. /\ ~session.master_selected /\ ~session.slave_selected
        /\ session.master_tuner = NoTuner
    BY DEF Init, session_init
  <2> QED
    BY <2>1 DEF Lease!LeaseInit, route
<1>2. IndInv /\ [Next]_vars => [Lease!LeaseNext]_(Lease!leaseVars)
  <2> SUFFICES ASSUME IndInv, [Next]_vars PROVE [Lease!LeaseNext]_(Lease!leaseVars)
    OBVIOUS
  <2>1. CASE session' = session
    BY <2>1 DEF Lease!leaseVars
  <2>2. CASE Next /\ session' # session
    <3>1. LeaseStep(session, session')
      BY <2>2, NextMoves, MoveIsLease DEF IndInv, Sound
    <3> QED
      BY <3>1 DEF LeaseStep, Holder, Live, Lease!LeaseNext, Lease!GrantPrimary,
         Lease!GrantSecond, Lease!HasLease, Lease!StartLane, Lease!StopLane,
         Lease!EndSecond, Lease!EndPrimary
  <2> QED
    BY <2>1, <2>2 DEF vars
<1> QED
  BY <1>1, <1>2, Inductive, PTL DEF Spec, ImplementsLease, Lease!LeaseSpec
=============================================================================
