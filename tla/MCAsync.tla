------------------------------ MODULE MCAsync ------------------------------
(* Two transfers and two drain passes: one transfer can be stuck while the *)
(* other one returns, before and after the last pass.                      *)
EXTENDS AsyncTransfers

AllFaults == FaultKinds
NoFaults == {}
TransferFaults == {"transfer"}
=============================================================================
