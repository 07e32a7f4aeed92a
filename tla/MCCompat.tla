------------------------------ MODULE MCCompat ------------------------------
(***************************************************************************)
(* Instances of CompatApi.  Four calls reach every swap and update from a  *)
(* running device (select, Init and two more); the roles differ in how     *)
(* Init, Uninit and the swaps treat the connection.                        *)
(***************************************************************************)
EXTENDS CompatApi

=============================================================================
