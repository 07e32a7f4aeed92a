------------------------------ MODULE MCBackend ------------------------------
(***************************************************************************)
(* Backend with two IQ slots: one frame is handed out, one waits, and the  *)
(* third finds the queue full.                                             *)
(***************************************************************************)
EXTENDS Backend
=============================================================================
