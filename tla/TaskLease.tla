----------------------------- MODULE TaskLease -----------------------------
(***************************************************************************)
(* What a board of tasks promises its workers: a worker that works on a    *)
(* task has taken it, no other worker works on it, and it stays taken      *)
(* until that worker settles it.  Only a task whose worker died goes back  *)
(* to the board on its own.                                                *)
(***************************************************************************)
EXTENDS Naturals

CONSTANTS Workers, Tasks

VARIABLES phase,  \* Tasks -> "absent", "todo", "taken", "done", "blocked"
          works   \* Workers -> the task worked on, 0 for none

leaseVars == <<phase, works>>

Init ==
    /\ phase = [t \in Tasks |-> "absent"]
    /\ works = [w \in Workers |-> 0]

Idle(t) == \A w \in Workers : works[w] # t

Offer(t) ==
    /\ phase[t] = "absent"
    /\ phase' = [phase EXCEPT ![t] = "todo"]
    /\ UNCHANGED works

Acquire(w, t) ==
    /\ phase[t] = "todo"
    /\ Idle(t)
    /\ works[w] = 0
    /\ phase' = [phase EXCEPT ![t] = "taken"]
    /\ works' = [works EXCEPT ![w] = t]

\* The worker reports success, or failure with or without another try.
Settle(w, verdict) ==
    /\ works[w] # 0
    /\ phase[works[w]] = "taken"
    /\ phase' = [phase EXCEPT ![works[w]] = verdict]
    /\ works' = [works EXCEPT ![w] = 0]

\* Workers die; what they worked on stays taken until it is revoked.
Die(dead) ==
    /\ works' = [w \in Workers |-> IF w \in dead THEN 0 ELSE works[w]]
    /\ UNCHANGED phase

Revoke(lost) ==
    /\ \A t \in lost : phase[t] = "taken" /\ Idle(t)
    /\ phase' = [t \in Tasks |-> IF t \in lost THEN "todo" ELSE phase[t]]
    /\ UNCHANGED works

Next ==
    \/ \E t \in Tasks : Offer(t)
    \/ \E w \in Workers, t \in Tasks : Acquire(w, t)
    \/ \E w \in Workers, v \in {"done", "todo", "blocked"} : Settle(w, v)
    \/ \E dead \in SUBSET Workers : Die(dead)
    \/ \E lost \in SUBSET Tasks : Revoke(lost)

Spec == Init /\ [][Next]_leaseVars
=============================================================================
