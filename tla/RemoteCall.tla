------------------------------ MODULE RemoteCall ------------------------------
(***************************************************************************)
(* What a caller of the daemon is promised: requests are performed at most *)
(* once and in the order they were made, and a call that succeeds has been *)
(* performed.  A call that fails may have been performed, or may still be. *)
(***************************************************************************)
EXTENDS Naturals

CONSTANT Ids    \* the numbers requests carry

VARIABLES issued, performed, current, result
vars == <<issued, performed, current, result>>

Init == issued = {} /\ performed = {} /\ current = 0 /\ result = "none"

Issue(id) ==
  /\ current = 0 /\ \A j \in issued : j < id
  /\ issued' = issued \union {id} /\ current' = id /\ result' = "none"
  /\ UNCHANGED performed

Perform(id) ==
  /\ id \in issued /\ \A j \in performed : j < id
  /\ performed' = performed \union {id} /\ UNCHANGED <<issued, current, result>>

Return(r) ==
  /\ current # 0 /\ (r = "ok" => current \in performed)
  /\ current' = 0 /\ result' = r /\ UNCHANGED <<issued, performed>>

Next == \/ \E id \in Ids : Issue(id)
        \/ \E id \in issued : Perform(id)
        \/ \E r \in {"ok", "failed"} : Return(r)

Spec == Init /\ [][Next]_vars
=============================================================================
