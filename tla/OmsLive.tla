------------------------------- MODULE OmsLive -------------------------------
(* The order manager over the live exchange: what submit_order and          *)
(* cancel_order make of the replies of execution/hyperliquid/adapter.py, and *)
(* the worker (order_sync/hyperliquid_worker.py) that polls the exchange for *)
(* the orders that are open locally and then reads the account's last        *)
(* trades.  The calls of the client block the event loop, so a submit, a     *)
(* cancel and a whole round of the worker are atomic for each other; only    *)
(* the exchange moves between two of their requests.                         *)
(*                                                                           *)
(* All orders are for one symbol.  The checks before the order is sent and   *)
(* the positions the fills go to are in OmsEngine.  Orders are kept in the   *)
(* order of _orders: a number is taken when the order is registered.         *)
EXTENDS OmsOrder, Sequences, FiniteSets

CONSTANTS
    LiveOrders,   \* client order ids
    LiveQty,      \* bound: the largest quantity
    Histories,    \* what the account may have traded before this process
    LiveFaults,   \* kinds of faults that may happen
    MaxLiveFaults \* bound: how many do

LiveFaultKinds == {"lost", "silent", "query", "cancel", "refused"}

\* "unlisted" is an ending status the adapter has no case for.
ExStates == {"none", "open", "filled", "canceled", "rejected", "unlisted"}

\* Whose trade it is nothing here looks at.
Trade == [side : Sides, qty : Nat \ {0}]

ASSUME LiveAssumption ==
    /\ LiveOrders \subseteq Nat \ {0} /\ IsFiniteSet(LiveOrders)
    /\ LiveQty \in Nat \ {0}
    /\ Histories \subseteq {h \in Seq(Trade) : \A i \in DOMAIN h : h[i].qty <= LiveQty}
    /\ LiveFaults \subseteq LiveFaultKinds /\ MaxLiveFaults \in Nat

VARIABLES
    live,       \* live[o]: the Order object
    known,      \* the orders that have an order_id
    exState,    \* at the exchange: the status of the order, or "none"
    exFilled,   \* at the exchange: the quantity filled
    trades,     \* the account's trades, a tid is an index
    seenFills,  \* _seen_fill_ids
    worker,     \* the worker: "idle", "poll", "fills"
    toPoll,     \* open orders this round has not asked for
    newFills,   \* trades this round has not looked at
    closedHere, \* history: orders that submit_order or cancel_order ended
    liveFaults  \* bound: faults so far

exchange == <<exState, exFilled, trades>>
round == <<seenFills, worker, toPoll, newFills>>
liveVars == <<live, known, exchange, round, closedHere, liveFaults>>

OrderRecord == [state : OrderStates \cup {"UNUSED"}, symbol : {"none", "coin"},
                side : Sides, qty : Nat, filled : Nat, effect : Effects,
                tif : TimesInForce]

LiveTypeOK ==
    /\ live \in [LiveOrders -> OrderRecord]
    /\ known \subseteq LiveOrders /\ closedHere \subseteq LiveOrders
    /\ exState \in [LiveOrders -> ExStates]
    /\ exFilled \in [LiveOrders -> Nat]
    /\ trades \in Seq(Trade) /\ seenFills \subseteq DOMAIN trades
    /\ worker \in {"idle", "poll", "fills"}
    /\ toPoll \subseteq LiveOrders /\ newFills \subseteq DOMAIN trades
    /\ liveFaults \in Nat

LiveInit ==
    /\ live = [o \in LiveOrders |-> Unused]
    /\ known = {}
    /\ exState = [o \in LiveOrders |-> "none"]
    /\ exFilled = [o \in LiveOrders |-> 0]
    /\ trades \in Histories
    /\ seenFills = {} /\ worker = "idle" /\ toPoll = {} /\ newFills = {}
    /\ closedHere = {} /\ liveFaults = 0

LiveFault(kind) ==
    /\ kind \in LiveFaults /\ liveFaults < MaxLiveFaults
    /\ liveFaults' = liveFaults + 1

Placed == {o \in LiveOrders : live[o] # Unused}
OpenHere == {o \in Placed : ~IsDone(live[o])}

-----------------------------------------------------------------------------
(* The exchange, as the adapter sees it.                                   *)

\* A trade of one order, at most for what is left of it.
Trades(o, order, q) ==
    /\ exFilled' = [exFilled EXCEPT ![o] = @ + q]
    /\ trades' = Append(trades, [side |-> order.side, qty |-> q])

\* The status follows the fills: an order may be open with nothing left.
ExchangeTrades(o) ==
    /\ exState[o] = "open"
    /\ \E q \in 1 .. (live[o].qty - exFilled[o]) : Trades(o, live[o], q)
    /\ UNCHANGED <<live, known, exState, round, closedHere, liveFaults>>

\* Filled; or given up by the exchange, for want of margin, say.
ExchangeEnds(o) ==
    /\ exState[o] = "open"
    /\ \E s \in {"filled", "canceled", "rejected", "unlisted"} :
          /\ s = "filled" <=> exFilled[o] = live[o].qty
          /\ exState' = [exState EXCEPT ![o] = s]
    /\ UNCHANGED <<live, known, exFilled, trades, round, closedHere, liveFaults>>

-----------------------------------------------------------------------------
(* submit_order and adapter.submit, once the order is SUBMITTED.           *)

\* hl_response_to_order; a transition that is not in the table raises, and
\* both adapter and engine turn an exception into a rejection.
Answered(o, s) == MoveTo(o, IF CanMove(o, s) THEN s ELSE "REJECTED")

\* The lowest id that is free.
IsNextOrder(o) == o \notin Placed /\ \A d \in LiveOrders \ Placed : o <= d

Rests(o, sent) ==
    /\ live' = [live EXCEPT ![o] = Answered(sent, "ACKNOWLEDGED")]
    /\ known' = known \cup {o}
    /\ exState' = [exState EXCEPT ![o] = "open"]
    /\ UNCHANGED <<exFilled, trades, liveFaults>>

\* All of it, or the part an IOC order found on the other side.
FillsAtOnce(o, sent) ==
    /\ live' = [live EXCEPT ![o] = Answered(sent, "FILLED")]
    /\ known' = known \cup {o}
    /\ \E q \in 1 .. sent.qty :
          /\ Trades(o, sent, q)
          /\ exState' = [exState EXCEPT ![o] = IF q = sent.qty THEN "filled" ELSE "canceled"]
    /\ UNCHANGED liveFaults

IsRejected(o, sent) ==
    /\ live' = [live EXCEPT ![o] = Answered(sent, "REJECTED")]
    /\ UNCHANGED <<known, exchange, liveFaults>>

\* No reply in time: the order may be there or not.
ReplyIsLost(o, sent) ==
    /\ LiveFault("lost")
    /\ live' = [live EXCEPT ![o] = Answered(sent, "REJECTED")]
    /\ exState' \in {exState, [exState EXCEPT ![o] = "open"]}
    /\ UNCHANGED <<known, exFilled, trades>>

\* A reply none of the three cases fits.
ReplySaysNothing(o, sent) ==
    /\ LiveFault("silent")
    /\ live' = [live EXCEPT ![o] = sent]
    /\ exState' \in {exState, [exState EXCEPT ![o] = "open"]}
    /\ UNCHANGED <<known, exFilled, trades>>

SubmitLive(o) ==
    /\ worker = "idle" /\ IsNextOrder(o)
    /\ \E side \in Sides, q \in 1 .. LiveQty :
          LET sent == MoveTo(Draft("coin", side, q, "any", "GTC"), "SUBMITTED") IN
          \/ Rests(o, sent) \/ FillsAtOnce(o, sent) \/ IsRejected(o, sent)
          \/ ReplyIsLost(o, sent) \/ ReplySaysNothing(o, sent)
    /\ closedHere' = IF live'[o].state = "REJECTED" THEN closedHere \cup {o} ELSE closedHere
    /\ UNCHANGED round

-----------------------------------------------------------------------------
(* cancel_order and adapter.cancel.                                        *)

\* transition_to(CANCEL_REQUESTED) raises for an order that was not
\* acknowledged or whose cancellation failed before.
MayCancel(o) == o \in Placed
                /\ (IsDone(live[o]) \/ CanMove(live[o], "CANCEL_REQUESTED"))

\* What the exchange makes of it, if it can.
TakenBack(o) == [exState EXCEPT ![o] = IF @ = "open" THEN "canceled" ELSE @]

\* Any reply is a success; an order that was done stays as it is, since the
\* transition to CANCELLED raises.
CancelLive(o) ==
    /\ worker = "idle" /\ MayCancel(o)
    /\ \/ exState' = TakenBack(o) /\ UNCHANGED liveFaults
       \/ LiveFault("refused") /\ UNCHANGED exState
    /\ IF IsDone(live[o]) THEN UNCHANGED <<live, closedHere>>
       ELSE /\ live' = [live EXCEPT ![o] = MoveTo(@, "CANCELLED")]
            /\ closedHere' = closedHere \cup {o}
    /\ UNCHANGED <<known, exFilled, trades, round>>

\* The request fails, before or after the exchange has seen it.
CancelFails(o) ==
    /\ worker = "idle" /\ MayCancel(o)
    /\ LiveFault("cancel")
    /\ exState' \in {exState, TakenBack(o)}
    /\ live' = IF IsDone(live[o]) THEN live
               ELSE [live EXCEPT ![o] = MoveTo(@, "CANCEL_REQUESTED")]
    /\ UNCHANGED <<known, exFilled, trades, round, closedHere>>

-----------------------------------------------------------------------------
(* The worker: sync_once.                                                  *)

SyncStarts ==
    /\ worker = "idle"
    /\ worker' = "poll" /\ toPoll' = OpenHere
    /\ UNCHANGED <<live, known, exchange, seenFills, newFills, closedHere, liveFaults>>

\* A slip: a rejection is one more status without a case.
RemoteStateNoRejection(o) ==
    CASE exState[o] = "filled" -> "FILLED"
      [] exState[o] = "open" /\ exFilled[o] < live[o].qty -> "PARTIAL_FILLED"
      [] exState[o] = "canceled" -> "CANCELLED"
      [] OTHER -> "ACKNOWLEDGED"

\* _hl_status_to_state.  An order that rests with something left counts as
\* partly filled; what has no case, and an order that is open with nothing
\* left, as acknowledged.
RemoteState(o) ==
    CASE exState[o] = "filled" -> "FILLED"
      [] exState[o] = "open" /\ exFilled[o] < live[o].qty -> "PARTIAL_FILLED"
      [] exState[o] = "canceled" -> "CANCELLED"
      [] exState[o] = "rejected" -> "REJECTED"
      [] OTHER -> "ACKNOWLEDGED"

\* A slip: the state is taken over first, and a done order takes no fill.
MergedStateFirst(o) ==
    IF RemoteState(o) \in Terminal THEN MoveTo(live[o], RemoteState(o))
    ELSE MoveTo(ApplyFill(live[o], exFilled[o] - live[o].filled), RemoteState(o))

\* _apply_order_update: what the exchange has filled more is booked as one
\* fill, and its state is taken over, past the table of transitions.
Merged(o) == MoveTo(ApplyFill(live[o], exFilled[o] - live[o].filled), RemoteState(o))

\* Asked for by its order_id; by its client id, which the exchange may not
\* take in that form, when there is none.
PollOrder(o) ==
    /\ worker = "poll" /\ o \in toPoll /\ \A d \in toPoll : o <= d
    /\ toPoll' = toPoll \ {o}
    /\ \/ /\ exState[o] # "none"
          /\ live' = [live EXCEPT ![o] = Merged(o)]
          /\ known' = known \cup {o}
          /\ UNCHANGED liveFaults
       \/ o \notin known /\ UNCHANGED <<live, known, liveFaults>>
       \/ LiveFault("query") /\ UNCHANGED <<live, known>>
    /\ UNCHANGED <<exchange, seenFills, worker, newFills, closedHere>>

\* userFills, or nothing when the request fails.
ReadFills ==
    /\ worker = "poll" /\ toPoll = {}
    /\ worker' = "fills"
    /\ \/ newFills' = DOMAIN trades \ seenFills /\ UNCHANGED liveFaults
       \/ LiveFault("query") /\ newFills' = {}
    /\ UNCHANGED <<live, known, exchange, seenFills, toPoll, closedHere>>

\* A slip: finished orders are candidates too.
CandidatesEver(f) == {o \in Placed : live[o].side = f.side}

\* No order has the trade's oid or tid as its key: the orders of the same
\* symbol and side that are open.
Candidates(f) == {o \in OpenHere : live[o].side = f.side}

\* The first partly filled one, else the first.
IsCandidate(o, f) ==
    LET partial == {p \in Candidates(f) : live[p].state = "PARTIAL_FILLED"}
        best == IF partial # {} THEN partial ELSE Candidates(f)
    IN  o \in best /\ \A p \in best : o <= p

\* _apply_fill, whoever the trade belongs to.
BookFill(i) ==
    /\ worker = "fills" /\ i \in newFills
    /\ newFills' = newFills \ {i} /\ seenFills' = seenFills \cup {i}
    /\ live' = [o \in LiveOrders |->
                  IF IsCandidate(o, trades[i]) THEN ApplyFill(live[o], trades[i].qty)
                  ELSE live[o]]
    /\ UNCHANGED <<known, exchange, worker, toPoll, closedHere, liveFaults>>

SyncEnds ==
    /\ worker = "fills" /\ newFills = {}
    /\ worker' = "idle"
    /\ UNCHANGED <<live, known, exchange, seenFills, toPoll, newFills, closedHere, liveFaults>>

SyncStep == \/ SyncStarts \/ ReadFills \/ SyncEnds
            \/ \E o \in LiveOrders : PollOrder(o)
            \/ \E i \in DOMAIN trades : BookFill(i)

-----------------------------------------------------------------------------
LiveNext ==
    \/ \E o \in LiveOrders : \/ SubmitLive(o) \/ CancelLive(o) \/ CancelFails(o)
                             \/ ExchangeTrades(o) \/ ExchangeEnds(o)
    \/ SyncStep

LiveSpec == LiveInit /\ [][LiveNext]_liveVars

\* The worker's loop sleeps and goes on, whatever a round raised.
LiveFairness == WF_liveVars(SyncStep)

-----------------------------------------------------------------------------
(* Properties.                                                             *)

\* Poll and trades between them do not fall short: an order the worker ends has
\* at least the quantity booked that the exchange filled of it.  Only the
\* quantity: a trade of another order may stand in for its own, which is then
\* dropped.
NoEndIsShort ==
    \A o \in LiveOrders :
        IsDone(live[o]) /\ o \notin closedHere => exFilled[o] <= live[o].filled

\* Trades are booked a second time under their own ids, and those of other
\* orders too, but an order that is closed takes no more: what is booked beyond
\* its quantity is at most one trade.
OverbookingIsBounded == \A o \in Placed : live[o].filled <= live[o].qty + LiveQty

\* No trade is missed, since the trades of the account back up the polls.  It
\* is not so: what fills at once, is taken although the reply was lost, or fills
\* before its cancellation arrives belongs to an order nothing is booked to.
NoTradeIsMissed ==
    \A o \in LiveOrders : IsDone(live[o]) => exFilled[o] <= live[o].filled

\* What ended at the exchange, with a status the adapter has a case for, ends
\* here: an order that was acknowledged is asked for until that is seen.
DoneIsNoticed ==
    \A o \in LiveOrders :
        o \in known /\ exState[o] \in {"filled", "canceled", "rejected"}
            ~> IsDone(live[o])
=============================================================================
