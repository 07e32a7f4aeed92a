------------------------------- MODULE MCEvents -------------------------------
(* Small instances of EventQueue: a queue of two events.                       *)
EXTENDS EventQueue
=============================================================================
