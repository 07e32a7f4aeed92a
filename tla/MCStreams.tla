------------------------------ MODULE MCStreams ------------------------------
(* Small instances of StreamCallbacks: a queue of two frames, of two samples   *)
(* each, which reach the application in two callbacks.                         *)
EXTENDS StreamCallbacks
=============================================================================
