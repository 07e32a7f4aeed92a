---------------------------- MODULE MCDuoClients ----------------------------
(* Three clients: two for the roles and one that contends for them. *)
EXTENDS DuoClients

\* Tuner arguments of a request: none, A, B and BOTH (not allowed for a role).
MCTunerArgs == {0, 1, 2, 3}

\* Rate arguments of a request: unspecified, 2 MHz (unsupported), 6 and 8 MHz.
MCRateArgs == {0, 2, 6, 8}
=============================================================================
