----------------------------- MODULE MCRegistry -----------------------------
(***************************************************************************)
(* An instance of DeviceRegistry: two receivers with serials of their own, *)
(* a process with two threads and one with a single thread.                *)
(***************************************************************************)
EXTENDS DeviceRegistry

CONSTANTS r1, r2, c1, c2, c3

MCSerial == (r1 :> "one") @@ (r2 :> "two")
MCProcess == (c1 :> "p") @@ (c2 :> "p") @@ (c3 :> "q")
=============================================================================
