------------------------------ MODULE MCDaemon ------------------------------
(* Small instances of Daemon: two clients, and in each configuration only the *)
(* settings, requests and faults that the question needs.                     *)
EXTENDS Daemon, TLC

CONSTANTS c1, c2

MCClients == {c1, c2}
Symmetry == Permutations(MCClients)

Single(t, r, f) == [tuner |-> t, rate |-> r, rf |-> f]
Dual(r, a, b) == [rate |-> r, rf |-> (TunerA :> a @@ TunerB :> b)]

\* Two settings of one tuner; the same and another rate; one of each tuner; two
\* of each tuner.
RetuneConfigs == {Single(TunerA, 6, 1), Single(TunerA, 6, 2)}
RateConfigs == RetuneConfigs \union {Single(TunerA, 8, 1)}
TunerConfigs == {Single(t, 6, 1) : t \in Tuners}
LaneConfigs == {Single(t, 6, f) : t \in Tuners, f \in {1, 2}}
BothConfigs == {Dual(6, 1, 1), Dual(6, 2, 1)}

SingleCommands == {"ACQUIRE", "START", "STOP", "RELEASE", "CONFIGURE", "UPDATE"}
SwapCommands == SingleCommands \union
                {"SWAP_TUNER", "SWAP_MODE", "RESUME_MODE", "CONFIGURE_DUAL"}
DuoCommands == {"DUO_ACQUIRE", "DUO_CONFIGURE", "DUO_START", "DUO_STOP",
                "DUO_RELEASE", "DUO_SWAP_RATE", "DUO_UPDATE"}
SharedCommands == DuoCommands \union {"ACQUIRE", "RELEASE"}
=============================================================================
