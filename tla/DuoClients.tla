----------------------------- MODULE DuoClients -----------------------------
(***************************************************************************)
(* Clients that use a master/slave session.  The session is the state of   *)
(* daemon/duo_session.c; held, peer and waiting are what a client can      *)
(* infer once it has read everything the daemon sent it: the answers to    *)
(* its own requests, and the notifications about the other client.  They   *)
(* are history variables: no operation of the session reads them.          *)
(***************************************************************************)
EXTENDS DuoSession

CONSTANTS TunerArgs,  \* tuner arguments a request may carry, valid or not
          RateArgs    \* sample rate arguments a request may carry, valid or not

ASSUME ArgsAssumption == Tuners \subseteq TunerArgs /\ Rates \subseteq RateArgs

VARIABLES session,   \* openrspd_duo_session
          held,      \* the role each client believes it holds
          peer,      \* what each client, as master, believes of the slave
          waiting    \* the clients told to wait for the master

vars == <<session, held, peer, waiting>>

PeerStates == {"absent", "attached", "initialised"}

\* What a notification about the slave tells the master.
PeerAfter(kind, old) ==
  CASE kind \in {"SLAVE_ATTACHED", "SLAVE_UNINITIALISED"} -> "attached"
    [] kind = "SLAVE_INITIALISED" -> "initialised"
    [] kind \in {"SLAVE_DETACHED", "SLAVE_DLL_DISAPPEARED"} -> "absent"
    [] OTHER -> old

Init ==
  /\ session = session_init
  /\ held = [c \in Clients |-> "none"]
  /\ peer = [c \in Clients |-> "absent"]
  /\ waiting = {}

\* Client c sees its answer (now it believes in role, and it waits or not) and
\* the target of the event sees the event.
Exchange(c, out, role, waits) ==
  LET ev == out.event
      evicted == {d \in Clients : d = ev.target /\ ev.kind = "MASTER_DLL_DISAPPEARED"}
      woken == {d \in Clients : d = ev.target /\ ev.kind = "MASTER_INITIALISED"}
  IN /\ session' = out.session
     /\ held' = [d \in Clients |-> IF d = c THEN role
                                   ELSE IF d \in evicted THEN "none" ELSE held[d]]
     /\ peer' = [d \in Clients |-> IF d = c /\ role # "master" THEN "absent"
                                   ELSE IF d = ev.target THEN PeerAfter(ev.kind, peer[d])
                                   ELSE peer[d]]
     /\ waiting' = ((waiting \ {c}) \union (IF waits THEN {c} ELSE {}))
                     \ (evicted \union woken)

Acquire(c, role, t, rate) ==
  LET out == acquire(session, c, role, t, rate)
  IN Exchange(c, out, IF out.result = "OK" THEN role ELSE held[c], c \in waiting)

Initialise(c) ==
  LET out == initialise(session, c)
  IN Exchange(c, out, held[c], out.result = "START_PENDING")

Uninitialise(c) ==
  Exchange(c, uninitialise(session, c), held[c], FALSE)

Release(c) ==
  LET out == release(session, c)
  IN Exchange(c, out, IF out.result = "OK" THEN "none" ELSE held[c],
              out.result # "OK" /\ c \in waiting)

\* The socket of c is lost; the descriptor may be accepted again afterwards.
Disconnect(c) ==
  Exchange(c, disconnect(session, c), "none", FALSE)

Next ==
  \E c \in Clients :
    \/ \E role \in Roles, t \in TunerArgs, rate \in RateArgs : Acquire(c, role, t, rate)
    \/ Initialise(c)
    \/ Uninitialise(c)
    \/ Release(c)
    \/ Disconnect(c)

Spec == Init /\ [][Next]_vars
-----------------------------------------------------------------------------
\* The variables have the types of the C structure and of the beliefs.
TypeOK ==
  /\ session \in Sessions
  /\ held \in [Clients -> Roles \union {"none"}]
  /\ peer \in [Clients -> PeerStates]
  /\ waiting \subseteq Clients

\* A selected role has a connection, a tuner and (the master) a rate, and a
\* role that is not selected has none of them.
FieldsAgree(s) ==
  /\ s.master_selected <=> s.master_fd # NoClient
  /\ s.master_selected <=> s.master_tuner # NoTuner
  /\ s.master_selected <=> s.sample_rate_hz # Unspecified
  /\ s.slave_selected <=> s.slave_fd # NoClient
  /\ s.slave_selected <=> s.slave_tuner # NoTuner

\* A slave exists only beside a master, on another connection and another tuner.
SlaveNeedsMaster(s) ==
  s.slave_selected => /\ s.master_selected
                      /\ s.slave_fd # s.master_fd
                      /\ s.slave_tuner # s.master_tuner

\* Initialised roles are selected, and the slave runs only under a running master.
InitialisedNested(s) ==
  /\ s.master_initialised => s.master_selected
  /\ s.slave_initialised => s.slave_selected /\ s.master_initialised

SessionInv(s) == FieldsAgree(s) /\ SlaveNeedsMaster(s) /\ InitialisedNested(s)

\* Whatever the clients ask for, in whatever order and wherever they vanish, the
\* session is never half set: no slave without its master, no two roles on one
\* tuner or one connection, no running slave under a stopped master.
SessionConsistent == SessionInv(session)

\* Nobody holds a role without knowing it, and nobody believes in a role it has
\* lost: the answers and the MASTER_DLL_DISAPPEARED event are enough to know.
RolesKnown == \A c \in Clients : held[c] = role_for_descriptor(session, c)

\* The master's picture of the slave, made only from events, is the session's.
SlaveState(s) == IF ~s.slave_selected THEN "absent"
                 ELSE IF s.slave_initialised THEN "initialised" ELSE "attached"

PeerKnown == \A c \in Clients :
  peer[c] = IF descriptor_is_master(session, c) THEN SlaveState(session) ELSE "absent"

\* A slave that was told START_PENDING is woken by MASTER_INITIALISED: it is
\* never left waiting for a master that is already running, nor after its role.
PendingSlaveIsWoken ==
  \A c \in waiting : descriptor_is_slave(session, c) /\ ~session.master_initialised
-----------------------------------------------------------------------------
\* The session implements the tuner lease: the master's lease is the primary one.
Lease == INSTANCE TunerLease WITH
  holder <- [t \in Tuners |->
               IF session.master_selected /\ session.master_tuner = t THEN session.master_fd
               ELSE IF session.slave_selected /\ session.slave_tuner = t THEN session.slave_fd
               ELSE NoClient],
  live <- [t \in Tuners |-> route(session, t) # NoClient],
  primary <- session.master_tuner

\* Every behaviour of the session is one of the lease protocol: leases are never
\* taken over, no lane outlives the primary's, and its end ends every lease.
ImplementsLease == Lease!LeaseSpec
=============================================================================
