----------------------------- MODULE TunerLease -----------------------------
(***************************************************************************)
(* What the RSPduo master/slave session promises its clients: the two      *)
(* tuners are leased.  The first lease is the primary one and carries the  *)
(* hardware lifetime.  A second client may lease the other tuner while     *)
(* there is a primary, and its lane may only run while the primary's does. *)
(* Nobody's lease is taken over: a lease ends when its holder gives it     *)
(* back, when its holder disappears, or when the primary disappears.       *)
(***************************************************************************)
CONSTANTS Clients,   \* the connections that may ask for a tuner
          NoClient,  \* the holder of a tuner nobody leases
          Tuners,    \* the tuners of the receiver
          NoTuner    \* not a tuner: there is no primary lease

VARIABLES holder,    \* who leases each tuner
          live,      \* whose lanes carry samples
          primary    \* the tuner of the primary lease

leaseVars == <<holder, live, primary>>

LeaseTypeOK ==
  /\ holder \in [Tuners -> Clients \union {NoClient}]
  /\ live \in [Tuners -> BOOLEAN]
  /\ primary \in Tuners \union {NoTuner}

LeaseInit ==
  /\ holder = [t \in Tuners |-> NoClient]
  /\ live = [t \in Tuners |-> FALSE]
  /\ primary = NoTuner

HasLease(c) == \E t \in Tuners : holder[t] = c

GrantPrimary(c, t) ==
  /\ primary = NoTuner
  /\ \A u \in Tuners : holder[u] = NoClient
  /\ holder' = [holder EXCEPT ![t] = c]
  /\ primary' = t
  /\ UNCHANGED live

GrantSecond(c, t) ==
  /\ primary # NoTuner
  /\ holder[t] = NoClient
  /\ ~HasLease(c)
  /\ holder' = [holder EXCEPT ![t] = c]
  /\ UNCHANGED <<live, primary>>

\* A lane starts only when its tuner is leased and the primary runs.
StartLane(t) ==
  /\ holder[t] # NoClient
  /\ ~live[t]
  /\ t = primary \/ live[primary]
  /\ live' = [live EXCEPT ![t] = TRUE]
  /\ UNCHANGED <<holder, primary>>

\* The primary lane is the last one to stop.
StopLane(t) ==
  /\ live[t]
  /\ t = primary => \A u \in Tuners \ {t} : ~live[u]
  /\ live' = [live EXCEPT ![t] = FALSE]
  /\ UNCHANGED <<holder, primary>>

\* A second lease ends, given back or with its holder: only its tuner is affected.
EndSecond(t) ==
  /\ holder[t] # NoClient
  /\ t # primary
  /\ holder' = [holder EXCEPT ![t] = NoClient]
  /\ live' = [live EXCEPT ![t] = FALSE]
  /\ UNCHANGED primary

\* The primary lease ends, given back or with its holder: no other survives it.
EndPrimary ==
  /\ primary # NoTuner
  /\ holder' = [t \in Tuners |-> NoClient]
  /\ live' = [t \in Tuners |-> FALSE]
  /\ primary' = NoTuner

LeaseNext ==
  \/ \E c \in Clients, t \in Tuners : GrantPrimary(c, t) \/ GrantSecond(c, t)
  \/ \E t \in Tuners : StartLane(t) \/ StopLane(t) \/ EndSecond(t)
  \/ EndPrimary

LeaseSpec == LeaseInit /\ [][LeaseNext]_leaseVars
=============================================================================
