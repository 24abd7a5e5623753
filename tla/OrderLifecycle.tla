---------------------------- MODULE OrderLifecycle ----------------------------
(* What the order manager promises about every order it accepts, whatever   *)
(* venue and strategy are behind it: an order is placed once, executes up to*)
(* its quantity while it is working, and never changes after it was filled  *)
(* or closed.                                                               *)
EXTENDS Integers

CONSTANT Orders

VARIABLES phase,     \* phase[o]: "none", "working", "filled" or "closed"
          quantity,  \* what was asked for
          executed   \* what has been filled so far

vars == <<phase, quantity, executed>>

Init == /\ phase = [o \in Orders |-> "none"]
        /\ quantity = [o \in Orders |-> 0]
        /\ executed = [o \in Orders |-> 0]

\* The order is placed; a check may refuse it on the spot.
Place(o) ==
  /\ phase[o] = "none"
  /\ \E p \in {"working", "closed"}: phase' = [phase EXCEPT ![o] = p]
  /\ quantity' = [quantity EXCEPT ![o] = quantity'[o]] /\ quantity'[o] \in Nat
  /\ UNCHANGED executed

\* One fill; the fill that completes the order ends it.
Execute(o) ==
  /\ phase[o] = "working"
  /\ executed' = [executed EXCEPT ![o] = executed'[o]]
  /\ executed[o] < executed'[o] /\ executed'[o] <= quantity[o]
  /\ phase' = [phase EXCEPT ![o] = IF executed'[o] = quantity[o]
                                   THEN "filled" ELSE "working"]
  /\ UNCHANGED quantity

\* Rejected by the venue, or cancelled.
Close(o) ==
  /\ phase[o] = "working"
  /\ phase' = [phase EXCEPT ![o] = "closed"]
  /\ UNCHANGED <<quantity, executed>>

Next == \E o \in Orders: Place(o) \/ Execute(o) \/ Close(o)

Spec == Init /\ [][Next]_vars
===============================================================================
