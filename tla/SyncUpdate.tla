------------------------------ MODULE SyncUpdate ------------------------------
(***************************************************************************)
(* Updates that wait for a sample boundary (compat/sync_update.c, and the  *)
(* part of sdrplay_api_Update that uses it).                               *)
(*                                                                         *)
(* A schedule has, for each tuner and category (gain, RF, sample rate), a  *)
(* boundary and a period, in sample numbers modulo 2^32.  Update computes  *)
(* the boundary to wait for, waits until the stream has passed it, applies *)
(* the change, and moves the schedule on.  An update of both tuners waits  *)
(* for both before it changes either.                                      *)
(*                                                                         *)
(* sample counts without wrapping; the code sees sample % Modulus.         *)
(***************************************************************************)
EXTENDS Integers, FiniteSets, FiniteSetsExt

CONSTANTS
  Tuners,       \* {1} or {1, 2}: tuner A and tuner B, in the order Update visits them
  Categories,   \* the bits 1 (gain), 2 (RF), 3 (sample rate), in the order of the loops
  Modulus,      \* 2^32
  Samples,      \* sample numbers a caller asks for
  Periods,      \* periods a caller asks for; zero is a single boundary
  LongIdle,     \* a schedule may stay unused for half the range of a sample number
  Horizon,      \* bound: samples of a tuner
  MaxSkew,      \* bound: samples one tuner of a device is ahead of the other
  MaxCalls      \* bound: calls of sdrplay_api_Update

ASSUME SyncAssumption ==
  /\ Modulus \in Nat /\ Modulus > 0 /\ Modulus % 2 = 0
  /\ Samples \subseteq 0..(Modulus - 1) /\ Periods \subseteq 0..(Modulus \div 2 - 1)
  /\ LongIdle \in BOOLEAN

VARIABLES
  sample,       \* samples the stream has delivered, per tuner (sample_number)
  sched,        \* device->sync_update[]
  upd,          \* the call of sdrplay_api_Update in progress
  calls,        \* calls made so far
  anchor,       \* history: the boundary asked for, without wrapping
  aim           \* history: the boundary the update in progress is for, per tuner

vars == <<sample, sched, upd, calls, anchor, aim>>

Half == Modulus \div 2
Number(t) == sample[t] % Modulus

\* The conversion of an unsigned difference to int32_t.
Signed(d) == IF d % Modulus < Half THEN d % Modulus ELSE (d % Modulus) - Modulus

NoSchedule == [pending |-> FALSE, due |-> 0, period |-> 0]
Idle == [pc |-> "idle", tuners |-> {}, at |-> 0, cats |-> [t \in Tuners |-> {}],
         target |-> [t \in Tuners |-> 0]]

Init ==
  /\ sample = [t \in Tuners |-> 0] /\ calls = 0 /\ upd = Idle
  /\ sched = [t \in Tuners |-> [c \in Categories |-> NoSchedule]]
  /\ anchor = [t \in Tuners |-> [c \in Categories |-> 0]]
  /\ aim = [t \in Tuners |-> 0]
-----------------------------------------------------------------------------
(* compat/sync_update.c *)

\* openrsp_sync_update_schedule, of every category
Scheduled(s, p) == [c \in Categories |-> [pending |-> TRUE, due |-> s, period |-> p]]

\* openrsp_sync_update_reset
Cancelled(e) == [e EXCEPT !.pending = FALSE, !.period = 0]

NextDueNoStep(e, now) ==
  IF e.period # 0 /\ Signed(now - e.due) >= 0
  THEN (e.due + (((now - e.due) % Modulus) \div e.period) * e.period) % Modulus
  ELSE e.due

\* openrsp_sync_update_next: a periodic boundary that has passed moves to the
\* next one after the current sample.
NextDue(e, now) ==
  IF e.period # 0 /\ Signed(now - e.due) >= 0
  THEN (e.due + (((now - e.due) % Modulus) \div e.period + 1) * e.period) % Modulus
  ELSE e.due

\* openrsp_sync_update_due
IsDue(e, now) == e.pending /\ Signed(now - e.due) >= 0

\* openrsp_sync_update_consume
Consumed(e, now) ==
  IF ~IsDue(e, now) THEN e
  ELSE IF e.period # 0 THEN [e EXCEPT !.due = (@ + e.period) % Modulus]
  ELSE [e EXCEPT !.pending = FALSE]
-----------------------------------------------------------------------------
(* The stream *)

\* A frame of the stream moves a tuner's sample number on.
Tick(t) ==
  /\ sample[t] < Horizon /\ \A u \in Tuners : sample[t] - sample[u] < MaxSkew
  /\ LongIdle \/ \A c \in Categories :
       sched[t][c].pending => Signed(Number(t) + 1 - sched[t][c].due) # -Half
  /\ sample' = [sample EXCEPT ![t] = @ + 1]
  /\ UNCHANGED <<sched, upd, calls, anchor, aim>>
-----------------------------------------------------------------------------
(* sdrplay_api_Update *)

MayCall == upd.pc = "idle" /\ calls < MaxCalls /\ calls' = calls + 1

\* The boundary a caller means by sample number s: the nearest one.
Meant(t, s) == sample[t] + Signed(s - Number(t))

\* Update_Dev_SyncUpdate, for one tuner or both
Schedule(T, s, p) ==
  /\ MayCall /\ \A t \in T : Signed(s - Number(t)) # -Half
  /\ sched' = [t \in Tuners |-> IF t \in T THEN Scheduled(s, p) ELSE sched[t]]
  /\ anchor' = [t \in Tuners |-> IF t \in T THEN [c \in Categories |-> Meant(t, s)]
                                 ELSE anchor[t]]
  /\ UNCHANGED <<sample, upd, aim>>

\* Update_Dev_ResetFlags, for one tuner or both
Reset(T, C) ==
  /\ MayCall
  /\ sched' = [t \in Tuners |-> [c \in Categories |->
                 IF t \in T /\ c \in C THEN Cancelled(sched[t][c]) ELSE sched[t][c]]]
  /\ UNCHANGED <<sample, upd, anchor, aim>>

\* The tuner to wait for after tuner t, if any.
After(cats, t) == {u \in Tuners : u > t /\ cats[u] # {}}

Unknown == Horizon + 1

\* An update some of whose changes are marked syncUpdate.
Call(T, cats) ==
  /\ MayCall /\ \E t \in T : cats[t] # {}
  /\ upd' = [Idle EXCEPT !.pc = "next", !.tuners = T, !.at = Min(After(cats, 0)), !.cats = cats]
  /\ aim' = [t \in Tuners |-> IF cats[t] = {} THEN 0 ELSE Unknown]
  /\ UNCHANGED <<sample, sched, anchor>>

\* The least boundary of the schedule after the current sample.
NextBoundary(t, c) ==
  LET a == anchor[t][c]
      p == sched[t][c].period
      grid == {a + k * p : k \in 0..(Horizon + Modulus)}
  IN IF p = 0 \/ a > sample[t] THEN a ELSE Min({b \in grid : b > sample[t]})

\* wait_for_sync_boundary: the latest of the categories' boundaries.
Target(t, due) ==
  LET later == {c \in upd.cats[t] : Signed(due[c] - Number(t)) > 0}
      best == {c \in later : \A d \in later : Signed(due[c] - due[d]) >= 0}
  IN IF best = {} THEN Number(t) ELSE due[CHOOSE c \in best : TRUE]

\* The loop over the categories stops at one that is not scheduled.
Enter ==
  LET t == upd.at
      ok == {c \in upd.cats[t] : \A d \in upd.cats[t] : d <= c => sched[t][d].pending}
      due == [c \in Categories |-> IF c \in ok THEN NextDue(sched[t][c], Number(t))
                                   ELSE sched[t][c].due]
  IN /\ upd.pc = "next"
     /\ sched' = [sched EXCEPT ![t] = [c \in Categories |->
                    [sched[t][c] EXCEPT !.due = due[c]]]]
     /\ \/ /\ ok = upd.cats[t]
           /\ upd' = [upd EXCEPT !.pc = "wait", !.target[t] = Target(t, due)]
           /\ aim' = [aim EXCEPT ![t] =
                        Max({sample[t]} \union {NextBoundary(t, c) : c \in ok})]
        \/ ok # upd.cats[t] /\ upd' = Idle /\ UNCHANGED aim
     /\ UNCHANGED <<sample, calls, anchor>>

Reached(t) == Signed(Number(t) - upd.target[t]) >= 0

ProceedRecursively == upd' = [upd EXCEPT !.pc = "apply"]

\* Both boundaries come before either change.
Proceed ==
  LET more == After(upd.cats, upd.at) \intersect upd.tuners IN
  upd' = IF more # {} THEN [upd EXCEPT !.pc = "next", !.at = Min(more)]
         ELSE [upd EXCEPT !.pc = "apply", !.at = Min(upd.tuners)]

Reach ==
  /\ upd.pc = "wait" /\ Reached(upd.at) /\ Proceed
  /\ UNCHANGED <<sample, sched, calls, anchor, aim>>

\* The stream failed, or five seconds passed.
GiveUp ==
  /\ upd.pc = "wait" /\ upd' = Idle
  /\ UNCHANGED <<sample, sched, calls, anchor, aim>>

\* The change of one tuner; the second tuner follows the first.
Apply ==
  LET more == {u \in upd.tuners : u > upd.at} IN
  /\ upd.pc = "apply"
  /\ upd' = IF more # {} THEN [upd EXCEPT !.at = Min(more)] ELSE [upd EXCEPT !.pc = "consume"]
  /\ UNCHANGED <<sample, sched, calls, anchor, aim>>

\* The daemon refused: the schedule stays as it is.
Refused ==
  /\ upd.pc = "apply" /\ upd' = Idle
  /\ UNCHANGED <<sample, sched, calls, anchor, aim>>

Consume ==
  /\ upd.pc = "consume" /\ upd' = Idle
  /\ sched' = [t \in Tuners |-> [c \in Categories |->
                 IF c \in upd.cats[t] THEN Consumed(sched[t][c], Number(t)) ELSE sched[t][c]]]
  /\ UNCHANGED <<sample, calls, anchor, aim>>

\* One tuner, or Both.
Selections == {{t} : t \in Tuners} \union {Tuners}

Next ==
  \/ \E t \in Tuners : Tick(t)
  \/ \E T \in Selections :
       \/ \E s \in Samples, p \in Periods : Schedule(T, s, p)
       \/ \E C \in SUBSET Categories \ {{}} : Reset(T, C)
       \/ \E C \in [T -> SUBSET Categories] :
            Call(T, [t \in Tuners |-> IF t \in T THEN C[t] ELSE {}])
  \/ Enter \/ Reach \/ GiveUp \/ Apply \/ Refused \/ Consume

Spec == Init /\ [][Next]_vars
-----------------------------------------------------------------------------
TypeOK ==
  /\ sample \in [Tuners -> 0..Horizon]
  /\ sched \in [Tuners -> [Categories ->
       [pending : BOOLEAN, due : 0..(Modulus - 1), period : Periods \union {0}]]]
  /\ upd.pc \in {"idle", "next", "wait", "apply", "consume"} /\ calls \in 0..MaxCalls

\* wait_for_sync_boundary ends its wait exactly when the stream has passed the
\* boundary the schedule means: the first one after the call for a periodic
\* schedule, the one asked for otherwise, the last of them for several
\* categories.  Sample numbers wrap; boundaries do not.
WaitsForBoundary ==
  upd.pc = "wait" => (Reached(upd.at) <=> sample[upd.at] >= aim[upd.at])

\* An update of both tuners changes neither before both streams have passed
\* their boundaries ("a recursive A-then-B wait lets A update while B is still
\* short of its requested boundary").
NeitherEarly == [][Apply => \A t \in Tuners : upd.cats[t] # {} => sample[t] >= aim[t]]_vars
=============================================================================
