------------------------------- MODULE MCSync -------------------------------
(***************************************************************************)
(* SyncUpdate with sample numbers of three bits, which wrap within a run,  *)
(* and a period that does not divide their range.                          *)
(***************************************************************************)
EXTENDS SyncUpdate
=============================================================================
