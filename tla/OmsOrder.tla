------------------------------- MODULE OmsOrder -------------------------------
(* The order object of xmlx_vlm/ai_trader/oms/core/order.py: its states, the *)
(* table of legal transitions, and what a fill does to it.  An order is a    *)
(* record; the engine, the adapters and the algorithms share one object, so  *)
(* the modules that use this one keep one record per client order id.        *)
(* Prices, ids and timestamps are left out: no rule here reads them.         *)
EXTENDS Integers

Sides == {"buy", "sell"}
TimesInForce == {"GTC", "IOC", "FOK"}
Effects == {"any", "reduce"}      \* the reduce_only flag

Terminal == {"FILLED", "REJECTED", "CANCELLED", "EXPIRED"}
OrderStates == {"DRAFT", "PRE_TRADE_OK", "SENT", "SUBMITTED", "ACKNOWLEDGED",
                "PARTIAL_FILLED", "CANCEL_REQUESTED"} \cup Terminal

StateTransitions ==
  [s \in OrderStates |->
     CASE s = "DRAFT" -> {"PRE_TRADE_OK", "SUBMITTED", "SENT", "ACKNOWLEDGED",
                          "REJECTED", "CANCELLED"}
       [] s = "PRE_TRADE_OK" -> {"SENT", "SUBMITTED", "REJECTED", "CANCELLED"}
       [] s = "SENT" -> {"SUBMITTED", "ACKNOWLEDGED", "REJECTED", "CANCELLED"}
       [] s = "SUBMITTED" -> {"ACKNOWLEDGED", "REJECTED", "CANCELLED"}
       [] s = "ACKNOWLEDGED" -> {"PARTIAL_FILLED", "FILLED",
                                 "CANCEL_REQUESTED", "CANCELLED", "EXPIRED"}
       [] s = "PARTIAL_FILLED" -> {"FILLED", "CANCEL_REQUESTED", "CANCELLED",
                                   "EXPIRED"}
       [] s = "CANCEL_REQUESTED" -> {"CANCELLED", "FILLED", "PARTIAL_FILLED"}
       [] OTHER -> {}]

IsReduceOnly(o) == o.effect = "reduce"

\* An id no Order object has been made for yet.
Unused == [state |-> "UNUSED", symbol |-> "none", side |-> "buy", qty |-> 0,
           filled |-> 0, effect |-> "any", tif |-> "GTC"]

Draft(s, side, q, effect, tif) ==
  [state |-> "DRAFT", symbol |-> s, side |-> side, qty |-> q, filled |-> 0,
   effect |-> effect, tif |-> tif]

IsDone(o) == o.state \in Terminal

\* transition_to raises OrderStateError when this does not hold.
CanMove(o, s) == s \in StateTransitions[o.state]
MoveTo(o, s) == [o EXCEPT !.state = s]

Remaining(o) == IF o.filled < o.qty THEN o.qty - o.filled ELSE 0

\* A slip of a plausible kind: the last fill does not close the order.
ApplyFillStaysOpen(o, q) ==
  IF q <= 0 THEN o ELSE MoveTo([o EXCEPT !.filled = @ + q], "PARTIAL_FILLED")

\* apply_fill: it sets the state itself, past the table of transitions.
ApplyFill(o, q) ==
  IF q <= 0 THEN o
  ELSE LET more == [o EXCEPT !.filled = @ + q]
       IN  MoveTo(more, IF Remaining(more) = 0 THEN "FILLED"
                                               ELSE "PARTIAL_FILLED")
===============================================================================
