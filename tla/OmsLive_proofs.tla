---------------------------- MODULE OmsLive_proofs ----------------------------
(* What holds of the orders at the live exchange for any number of orders,  *)
(* trades and faults, and any quantities.                                   *)
EXTENDS OmsLive, TLAPS

Working(r) == r.state # "UNUSED" /\ ~IsDone(r)

GivenUp(r) == r.state \in {"CANCELLED", "REJECTED"}

\* An order, with its state and the quantity filled at the exchange.
Sound(r, x, g) ==
    /\ g \in 0 .. r.qty
    /\ r.state = "UNUSED" => r = Unused /\ x = "none"
    /\ r.state # "EXPIRED"
    /\ r.state # "UNUSED" => r.qty \in 1 .. LiveQty /\ r.filled <= r.qty + LiveQty
    /\ Working(r) => r.filled <= r.qty
    /\ r.state = "FILLED" => r.qty <= r.filled
    /\ x = "filled" => g = r.qty

OrderOk(o) ==
    /\ Sound(live[o], exState[o], exFilled[o])
    /\ GivenUp(live[o]) /\ o \notin closedHere
         => exState[o] \in {"canceled", "rejected"} /\ exFilled[o] <= live[o].filled
    /\ o \in toPoll => Working(live[o])

LiveInv ==
    /\ LiveTypeOK
    /\ \A i \in DOMAIN trades : trades[i].qty \in 1 .. LiveQty
    /\ worker # "poll" => toPoll = {}
    /\ \A o \in LiveOrders : OrderOk(o)

-----------------------------------------------------------------------------
(* Orders.                                                                 *)

LEMMA Moved ==
    ASSUME NEW r \in OrderRecord, NEW s \in OrderStates
    PROVE  /\ MoveTo(r, s) \in OrderRecord /\ MoveTo(r, s).state = s
           /\ MoveTo(r, s).qty = r.qty /\ MoveTo(r, s).filled = r.filled
           /\ MoveTo(r, s).side = r.side
  BY DEF MoveTo, OrderRecord

\* apply_fill adds the quantity and says whether that fills the order.
LEMMA FillApplied ==
    ASSUME NEW r \in OrderRecord, NEW q \in Int
    PROVE  /\ ApplyFill(r, q) \in OrderRecord
           /\ ApplyFill(r, q).qty = r.qty
           /\ q <= 0 => ApplyFill(r, q) = r
           /\ q > 0 => /\ ApplyFill(r, q).filled = r.filled + q
                       /\ r.filled + q < r.qty => ApplyFill(r, q).state = "PARTIAL_FILLED"
                       /\ r.filled + q >= r.qty => ApplyFill(r, q).state = "FILLED"
<1>1. CASE q <= 0
  BY <1>1 DEF ApplyFill
<1>2. CASE q > 0
  <2> DEFINE more == [r EXCEPT !.filled = @ + q]
             s == IF Remaining(more) = 0 THEN "FILLED" ELSE "PARTIAL_FILLED"
  <2>1. more \in OrderRecord /\ more.qty = r.qty /\ more.filled = r.filled + q
    BY <1>2 DEF OrderRecord
  <2>2. ApplyFill(r, q) = MoveTo(more, s)
    BY <1>2 DEF ApplyFill
  <2>3. r.qty \in Nat /\ r.filled \in Nat
    BY DEF OrderRecord
  <2> HIDE DEF more
  <2>4. /\ r.filled + q < r.qty => s = "PARTIAL_FILLED"
        /\ r.filled + q >= r.qty => s = "FILLED"
    BY <1>2, <2>1, <2>3 DEF Remaining
  <2>5. s \in OrderStates
    BY DEF OrderStates, Terminal
  <2> HIDE DEF s
  <2> QED BY <1>2, <2>1, <2>2, <2>4, <2>5, Moved
<1> QED BY <1>1, <1>2

\* The table lets an order that was sent be acknowledged or rejected, but not
\* filled.
LEMMA AnsweredOrder ==
    ASSUME NEW r \in OrderRecord, r.state = "SUBMITTED",
           NEW s \in {"ACKNOWLEDGED", "FILLED", "REJECTED"}
    PROVE  /\ Answered(r, s) \in OrderRecord
           /\ Answered(r, s).state \in {"ACKNOWLEDGED", "REJECTED"}
           /\ Answered(r, s).qty = r.qty /\ Answered(r, s).filled = r.filled
<1>1. "SUBMITTED" \in OrderStates
  BY DEF OrderStates
<1>2. StateTransitions["SUBMITTED"] = {"ACKNOWLEDGED", "REJECTED", "CANCELLED"}
  BY <1>1 DEF StateTransitions
<1>3. CanMove(r, s) <=> s \in {"ACKNOWLEDGED", "REJECTED", "CANCELLED"}
  BY <1>2 DEF CanMove
<1> DEFINE t == IF CanMove(r, s) THEN s ELSE "REJECTED"
<1>4. t \in {"ACKNOWLEDGED", "REJECTED"}
  BY <1>3
<1>5. Answered(r, s) = MoveTo(r, t)
  BY DEF Answered
<1>6. {"ACKNOWLEDGED", "REJECTED"} \subseteq OrderStates
  BY DEF OrderStates, Terminal
<1> HIDE DEF t
<1> QED BY <1>4, <1>5, <1>6, Moved

\* The order as it is sent.
LEMMA SentOrder ==
    ASSUME NEW side \in Sides, NEW q \in 1 .. LiveQty
    PROVE  LET sent == MoveTo(Draft("coin", side, q, "any", "GTC"), "SUBMITTED")
           IN  /\ sent \in OrderRecord /\ sent.state = "SUBMITTED"
               /\ sent.qty = q /\ sent.filled = 0 /\ sent.side = side
<1>1. Draft("coin", side, q, "any", "GTC") \in OrderRecord
  BY LiveAssumption DEF Draft, OrderRecord, OrderStates, Effects, TimesInForce
<1>2. "SUBMITTED" \in OrderStates
  BY DEF OrderStates
<1> QED BY <1>1, <1>2, Moved DEF Draft

-----------------------------------------------------------------------------
(* Each action keeps the invariant.                                        *)

LEMMA LiveInvInit == LiveInit => LiveInv
<1> SUFFICES ASSUME LiveInit PROVE LiveInv
  OBVIOUS
<1>1. Unused \in OrderRecord /\ Unused.state = "UNUSED" /\ Unused.qty = 0
  BY DEF Unused, OrderRecord, Sides, Effects, TimesInForce
<1>2. trades \in Seq(Trade) /\ \A i \in DOMAIN trades : trades[i].qty \in 1 .. LiveQty
  <2>1. \A i \in DOMAIN trades : trades[i].qty <= LiveQty
    BY LiveAssumption DEF LiveInit
  <2>2. trades \in Seq(Trade)
    BY LiveAssumption DEF LiveInit
  <2>3. \A i \in DOMAIN trades : trades[i] \in Trade
    BY <2>2
  <2>4. \A f \in Trade : f.qty \in Nat \ {0}
    BY DEF Trade
  <2>5. \A i \in DOMAIN trades : trades[i].qty \in Nat \ {0}
    BY <2>3, <2>4
  <2> QED BY <2>1, <2>2, <2>5, LiveAssumption
<1>3. LiveTypeOK
  BY <1>1, <1>2 DEF LiveInit, LiveTypeOK, ExStates
<1>4. ASSUME NEW o \in LiveOrders PROVE OrderOk(o)
  <2>1. live[o] = Unused /\ exState[o] = "none" /\ exFilled[o] = 0 /\ o \notin toPoll
    BY DEF LiveInit
  <2>2. Sound(Unused, "none", 0)
    BY <1>1 DEF Sound, Working
  <2> QED BY <1>1, <2>1, <2>2 DEF OrderOk, GivenUp
<1> QED BY <1>2, <1>3, <1>4 DEF LiveInv, LiveInit

\* A step that touches one order.
LEMMA OneOrder ==
    ASSUME LiveInv, NEW o \in LiveOrders,
           \A d \in LiveOrders \ {o} :
              live'[d] = live[d] /\ exState'[d] = exState[d] /\ exFilled'[d] = exFilled[d],
           toPoll' \subseteq toPoll,
           closedHere \subseteq closedHere',
           Sound(live'[o], exState'[o], exFilled'[o]),
           GivenUp(live'[o]) /\ o \notin closedHere'
             => exState'[o] \in {"canceled", "rejected"} /\ exFilled'[o] <= live'[o].filled,
           o \in toPoll' => Working(live'[o])
    PROVE  \A d \in LiveOrders : OrderOk(d)'
<1> SUFFICES ASSUME NEW d \in LiveOrders PROVE OrderOk(d)'
  OBVIOUS
<1>1. CASE d = o
  BY <1>1 DEF OrderOk
<1>2. CASE d # o
  BY <1>2 DEF OrderOk, LiveInv
<1> QED BY <1>1, <1>2

\* What the invariant says of one order.
LEMMA OfOrder ==
    ASSUME LiveInv, NEW o \in LiveOrders
    PROVE  /\ live[o] \in OrderRecord
           /\ live[o].qty \in Nat /\ live[o].filled \in Nat
           /\ exFilled[o] \in Nat /\ exFilled[o] <= live[o].qty
           /\ Sound(live[o], exState[o], exFilled[o])
           /\ o \in Placed <=> live[o].state # "UNUSED"
           /\ o \in OpenHere <=> Working(live[o])
<1>1. live[o] \in OrderRecord /\ exFilled[o] \in Nat
  BY DEF LiveInv, LiveTypeOK
<1>2. live[o].qty \in Nat /\ live[o].filled \in Nat
  BY <1>1 DEF OrderRecord
<1>3. Sound(live[o], exState[o], exFilled[o])
  BY DEF LiveInv, OrderOk
<1>4. Unused.state = "UNUSED"
  BY DEF Unused
<1>5. o \in Placed <=> live[o].state # "UNUSED"
  BY <1>3, <1>4 DEF Sound, Placed
<1>6. o \in OpenHere <=> Working(live[o])
  BY <1>5 DEF OpenHere, Working, Placed
<1> QED BY <1>1, <1>2, <1>3, <1>5, <1>6 DEF Sound

\* A trade is added to those of the account.
LEMMA TradeAdded ==
    ASSUME LiveInv, NEW o \in LiveOrders, NEW side \in Sides, NEW q \in 1 .. LiveQty,
           trades' = Append(trades, [side |-> side, qty |-> q])
    PROVE  /\ trades' \in Seq(Trade) /\ DOMAIN trades \subseteq DOMAIN trades'
           /\ \A i \in DOMAIN trades' : trades'[i].qty \in 1 .. LiveQty
<1> DEFINE f == [side |-> side, qty |-> q]
<1>1. q \in Nat \ {0} /\ q \in 1 .. LiveQty
  BY LiveAssumption
<1>2. f \in Trade /\ f.qty = q
  BY <1>1 DEF Trade
<1>3. trades \in Seq(Trade) /\ \A i \in DOMAIN trades : trades[i].qty \in 1 .. LiveQty
  BY DEF LiveInv, LiveTypeOK
<1> HIDE DEF f
<1>4. /\ Append(trades, f) \in Seq(Trade)
      /\ DOMAIN trades = 1 .. Len(trades) /\ Len(trades) \in Nat
      /\ DOMAIN Append(trades, f) = 1 .. (Len(trades) + 1)
      /\ \A i \in 1 .. Len(trades) : Append(trades, f)[i] = trades[i]
      /\ Append(trades, f)[Len(trades) + 1] = f
  BY <1>2, <1>3
<1>5. trades' = Append(trades, f)
  BY DEF f
<1>6. ASSUME NEW i \in DOMAIN trades' PROVE trades'[i].qty \in 1 .. LiveQty
  <2>1. CASE i \in DOMAIN trades
    BY <2>1, <1>3, <1>4, <1>5
  <2>2. CASE i \notin DOMAIN trades
    <3>1. i = Len(trades) + 1
      BY <2>2, <1>4, <1>5
    <3> QED BY <3>1, <1>1, <1>2, <1>4, <1>5
  <2> QED BY <2>1, <2>2
<1>7. DOMAIN trades \subseteq DOMAIN trades'
  BY <1>4, <1>5
<1> QED BY <1>4, <1>5, <1>6, <1>7

LEMMA ExchangeTradesKeeps ==
    ASSUME LiveInv, NEW o \in LiveOrders, ExchangeTrades(o)
    PROVE  LiveInv'
<1>1. PICK q \in 1 .. (live[o].qty - exFilled[o]) : Trades(o, live[o], q)
  BY DEF ExchangeTrades
<1>2. exState[o] = "open" /\ UNCHANGED <<live, known, exState, round, closedHere, liveFaults>>
  BY DEF ExchangeTrades
<1>3. live[o].state # "UNUSED" /\ live[o].qty \in 1 .. LiveQty
  BY <1>2, OfOrder DEF Sound
<1>4. q \in 1 .. LiveQty /\ exFilled[o] + q \in 0 .. live[o].qty
  BY <1>1, <1>3, OfOrder, LiveAssumption
<1>5. live[o].side \in Sides
  BY OfOrder DEF OrderRecord
<1>6. trades' = Append(trades, [side |-> live[o].side, qty |-> q])
      /\ exFilled' = [exFilled EXCEPT ![o] = @ + q]
  BY <1>1 DEF Trades
<1>7. /\ trades' \in Seq(Trade) /\ DOMAIN trades \subseteq DOMAIN trades'
      /\ \A i \in DOMAIN trades' : trades'[i].qty \in 1 .. LiveQty
  BY <1>4, <1>5, <1>6, TradeAdded
<1>8. /\ exFilled' \in [LiveOrders -> Nat] /\ exFilled'[o] = exFilled[o] + q
      /\ \A d \in LiveOrders \ {o} : exFilled'[d] = exFilled[d]
  BY <1>4, <1>6 DEF LiveInv, LiveTypeOK
<1>9. Sound(live[o], exState'[o], exFilled'[o])
  BY <1>2, <1>3, <1>4, <1>8, OfOrder DEF Sound
<1>10. ~(GivenUp(live[o]) /\ o \notin closedHere)
  BY <1>2 DEF LiveInv, OrderOk
<1>11. o \in toPoll => Working(live[o])
  BY DEF LiveInv, OrderOk
<1>12. \A d \in LiveOrders : OrderOk(d)'
  BY <1>2, <1>8, <1>9, <1>10, <1>11, OneOrder DEF round
<1>13. LiveTypeOK'
  BY <1>2, <1>7, <1>8 DEF LiveInv, LiveTypeOK, round
<1> QED BY <1>2, <1>7, <1>12, <1>13 DEF LiveInv, round

LEMMA ExchangeEndsKeeps ==
    ASSUME LiveInv, NEW o \in LiveOrders, ExchangeEnds(o)
    PROVE  LiveInv'
<1>1. PICK s \in {"filled", "canceled", "rejected", "unlisted"} :
        /\ s = "filled" <=> exFilled[o] = live[o].qty
        /\ exState' = [exState EXCEPT ![o] = s]
  BY DEF ExchangeEnds
<1>2. /\ exState[o] = "open"
      /\ UNCHANGED <<live, known, exFilled, trades, round, closedHere, liveFaults>>
  BY DEF ExchangeEnds
<1>3. /\ exState' \in [LiveOrders -> ExStates] /\ exState'[o] = s
      /\ \A d \in LiveOrders \ {o} : exState'[d] = exState[d]
  BY <1>1 DEF LiveInv, LiveTypeOK, ExStates
<1>4. Sound(live[o], exState'[o], exFilled[o])
  BY <1>1, <1>2, <1>3, OfOrder DEF Sound
<1>5. ~(GivenUp(live[o]) /\ o \notin closedHere)
      /\ (o \in toPoll => Working(live[o]))
  BY <1>2 DEF LiveInv, OrderOk
<1>6. \A d \in LiveOrders : OrderOk(d)'
  BY <1>2, <1>3, <1>4, <1>5, OneOrder DEF round
<1> QED BY <1>2, <1>3, <1>6 DEF LiveInv, LiveTypeOK, round

\* However the exchange answers, the order is new, unfilled and not closed by
\* cancel_order.
LEMMA SubmitLiveKeeps ==
    ASSUME LiveInv, NEW o \in LiveOrders, SubmitLive(o)
    PROVE  LiveInv'
<1>1. PICK side \in Sides, q \in 1 .. LiveQty :
        LET sent == MoveTo(Draft("coin", side, q, "any", "GTC"), "SUBMITTED") IN
        \/ Rests(o, sent) \/ FillsAtOnce(o, sent) \/ IsRejected(o, sent)
        \/ ReplyIsLost(o, sent) \/ ReplySaysNothing(o, sent)
  BY DEF SubmitLive
<1> DEFINE sent == MoveTo(Draft("coin", side, q, "any", "GTC"), "SUBMITTED")
<1>2. /\ sent \in OrderRecord /\ sent.state = "SUBMITTED"
      /\ sent.qty = q /\ sent.filled = 0 /\ sent.side = side
  BY SentOrder
<1> HIDE DEF sent
<1>3. /\ worker = "idle" /\ UNCHANGED round /\ o \notin Placed /\ toPoll = {}
      /\ closedHere' = IF live'[o].state = "REJECTED" THEN closedHere \cup {o} ELSE closedHere
  BY DEF SubmitLive, IsNextOrder, LiveInv
<1>4. live[o].qty = 0 /\ exFilled[o] = 0 /\ exState[o] = "none"
  <2>1. live[o] = Unused /\ exState[o] = "none"
    BY <1>3, OfOrder DEF Sound
  <2>2. live[o].qty = 0
    BY <2>1 DEF Unused
  <2> QED BY <2>1, <2>2, OfOrder
<1>5. q \in 1 .. LiveQty /\ q \in Nat
  BY LiveAssumption
<1> DEFINE new == live'[o]
\* What each reply makes of the order and of the exchange.
<1>6. /\ new \in OrderRecord /\ new.qty = q /\ new.filled = 0
      /\ new.state \in {"SUBMITTED", "ACKNOWLEDGED", "REJECTED"}
      /\ live' \in [LiveOrders -> OrderRecord]
      /\ \A d \in LiveOrders \ {o} : live'[d] = live[d]
  <2>1. PICK r \in OrderRecord :
          /\ live' = [live EXCEPT ![o] = r] /\ r.qty = q /\ r.filled = 0
          /\ r.state \in {"SUBMITTED", "ACKNOWLEDGED", "REJECTED"}
    <3>1. ASSUME NEW s \in {"ACKNOWLEDGED", "FILLED", "REJECTED"}
          PROVE  /\ Answered(sent, s) \in OrderRecord
                 /\ Answered(sent, s).qty = q /\ Answered(sent, s).filled = 0
                 /\ Answered(sent, s).state \in {"ACKNOWLEDGED", "REJECTED"}
      BY <1>2, AnsweredOrder
    <3>2. CASE Rests(o, sent)
      BY <3>1, <3>2 DEF Rests
    <3>3. CASE FillsAtOnce(o, sent)
      BY <3>1, <3>3 DEF FillsAtOnce
    <3>4. CASE IsRejected(o, sent)
      BY <3>1, <3>4 DEF IsRejected
    <3>5. CASE ReplyIsLost(o, sent)
      BY <3>1, <3>5 DEF ReplyIsLost
    <3>6. CASE ReplySaysNothing(o, sent)
      BY <1>2, <3>6 DEF ReplySaysNothing
    <3> QED BY <1>1, <3>2, <3>3, <3>4, <3>5, <3>6 DEF sent
  <2> QED BY <2>1 DEF LiveInv, LiveTypeOK
<1>7. /\ exState' \in [LiveOrders -> ExStates]
      /\ exFilled' \in [LiveOrders -> Nat] /\ exFilled'[o] \in 0 .. q
      /\ exState'[o] = "filled" => exFilled'[o] = q
      /\ \A d \in LiveOrders \ {o} : exState'[d] = exState[d] /\ exFilled'[d] = exFilled[d]
      /\ trades' \in Seq(Trade) /\ DOMAIN trades \subseteq DOMAIN trades'
      /\ \A i \in DOMAIN trades' : trades'[i].qty \in 1 .. LiveQty
  <2>1. CASE FillsAtOnce(o, sent)
    <3>1. PICK k \in 1 .. sent.qty :
            /\ Trades(o, sent, k)
            /\ exState' = [exState EXCEPT ![o] = IF k = sent.qty THEN "filled" ELSE "canceled"]
      BY <2>1 DEF FillsAtOnce
    <3>2. k \in 1 .. LiveQty /\ k \in 0 .. q /\ k \in Nat
      BY <1>2, <1>5, <3>1, LiveAssumption
    <3>3. exFilled' = [exFilled EXCEPT ![o] = @ + k]
          /\ trades' = Append(trades, [side |-> side, qty |-> k])
      BY <1>2, <3>1 DEF Trades
    <3>4. /\ trades' \in Seq(Trade) /\ DOMAIN trades \subseteq DOMAIN trades'
          /\ \A i \in DOMAIN trades' : trades'[i].qty \in 1 .. LiveQty
      BY <3>2, <3>3, TradeAdded
    <3>5. exFilled \in [LiveOrders -> Nat]
          /\ exState \in [LiveOrders -> ExStates]
      BY DEF LiveInv, LiveTypeOK
    <3>6. exFilled'[o] = k /\ exFilled' \in [LiveOrders -> Nat]
          /\ \A d \in LiveOrders \ {o} : exFilled'[d] = exFilled[d]
      BY <1>4, <3>2, <3>3, <3>5
    <3>7. exState'[o] = (IF k = q THEN "filled" ELSE "canceled")
          /\ exState' \in [LiveOrders -> ExStates]
          /\ \A d \in LiveOrders \ {o} : exState'[d] = exState[d]
      BY <1>2, <3>1, <3>5 DEF ExStates
    <3> QED BY <3>2, <3>4, <3>6, <3>7
  <2>2. CASE ~FillsAtOnce(o, sent)
    <3>1. /\ exState' \in {exState, [exState EXCEPT ![o] = "open"]}
          /\ UNCHANGED <<exFilled, trades>>
      BY <1>1, <2>2 DEF sent, Rests, IsRejected, ReplyIsLost, ReplySaysNothing, exchange
    <3>2. /\ exState \in [LiveOrders -> ExStates]
          /\ exFilled \in [LiveOrders -> Nat] /\ trades \in Seq(Trade)
          /\ \A i \in DOMAIN trades : trades[i].qty \in 1 .. LiveQty
      BY DEF LiveInv, LiveTypeOK
    <3>3. /\ exState'[o] \in {"none", "open"}
          /\ \A d \in LiveOrders \ {o} : exState'[d] = exState[d]
          /\ exState' \in [LiveOrders -> ExStates]
      BY <1>4, <3>1, <3>2 DEF ExStates
    <3>4. exFilled'[o] \in 0 .. q /\ exState'[o] # "filled"
      BY <1>4, <1>5, <3>1, <3>3
    <3> QED BY <3>1, <3>2, <3>3, <3>4
  <2> QED BY <2>1, <2>2
<1>8. known' \subseteq LiveOrders /\ liveFaults' \in Nat
  <2>1. known \subseteq LiveOrders /\ liveFaults \in Nat
    BY DEF LiveInv, LiveTypeOK
  <2>2. known' \subseteq known \cup {o}
    BY <1>1 DEF Rests, FillsAtOnce, IsRejected, ReplyIsLost, ReplySaysNothing
  <2>3. liveFaults' \in {liveFaults, liveFaults + 1}
    BY <1>1 DEF Rests, FillsAtOnce, IsRejected, ReplyIsLost, ReplySaysNothing, LiveFault
  <2> QED BY <2>1, <2>2, <2>3
<1> HIDE DEF new
<1>9. Sound(new, exState'[o], exFilled'[o]) /\ ~(GivenUp(new) /\ o \notin closedHere')
  <2>1. 0 <= q + LiveQty /\ 0 <= q
    BY <1>5, LiveAssumption
  <2>2. Sound(new, exState'[o], exFilled'[o])
    BY <1>5, <1>6, <1>7, <2>1 DEF Sound, Working, IsDone, Terminal
  <2>3. ~(GivenUp(new) /\ o \notin closedHere')
    BY <1>3, <1>6 DEF GivenUp, new
  <2> QED BY <2>2, <2>3
<1>10. closedHere \subseteq closedHere' /\ closedHere' \subseteq LiveOrders
  BY <1>3 DEF LiveInv, LiveTypeOK
<1>11. \A d \in LiveOrders : OrderOk(d)'
  BY <1>3, <1>6, <1>7, <1>9, <1>10, OneOrder DEF round, new
<1>12. LiveTypeOK'
  BY <1>3, <1>6, <1>7, <1>8, <1>10 DEF LiveInv, LiveTypeOK, round
<1> QED BY <1>3, <1>7, <1>11, <1>12 DEF LiveInv, round

\* The rest of a step that leaves the exchange's fills and trades alone.
LEMMA OrderMoves ==
    ASSUME LiveInv, NEW o \in LiveOrders, NEW r \in OrderRecord,
           live' = [live EXCEPT ![o] = r],
           UNCHANGED <<exFilled, trades>>,
           exState' \in [LiveOrders -> ExStates],
           \A d \in LiveOrders \ {o} : exState'[d] = exState[d],
           Sound(r, exState'[o], exFilled[o]),
           known' \subseteq LiveOrders, liveFaults' \in Nat,
           closedHere \subseteq closedHere', closedHere' \subseteq LiveOrders,
           UNCHANGED <<seenFills, worker, newFills>>,
           toPoll' \subseteq toPoll,
           o \in toPoll' => Working(r),
           GivenUp(r) /\ o \notin closedHere'
             => exState'[o] \in {"canceled", "rejected"} /\ exFilled[o] <= r.filled
    PROVE  LiveInv'
<1>1. /\ live' \in [LiveOrders -> OrderRecord] /\ live'[o] = r
      /\ \A d \in LiveOrders \ {o} : live'[d] = live[d]
  BY DEF LiveInv, LiveTypeOK
<1>2. \A d \in LiveOrders : OrderOk(d)'
  <2>1. Sound(live'[o], exState'[o], exFilled'[o])
    BY <1>1
  <2>2. GivenUp(live'[o]) /\ o \notin closedHere'
          => exState'[o] \in {"canceled", "rejected"} /\ exFilled'[o] <= live'[o].filled
    BY <1>1
  <2> QED BY <1>1, <2>1, <2>2, OneOrder
<1>3. LiveTypeOK'
  BY <1>1 DEF LiveInv, LiveTypeOK
<1>4. worker' # "poll" => toPoll' = {}
  BY DEF LiveInv
<1> QED BY <1>2, <1>3, <1>4 DEF LiveInv

\* The quantities of an order decide what its state and the exchange's may be.
LEMMA StillSound ==
    ASSUME LiveInv, NEW o \in LiveOrders, live[o].state # "UNUSED",
           NEW r \in OrderRecord, NEW x \in ExStates,
           r.qty = live[o].qty, r.state \notin {"UNUSED", "EXPIRED"},
           r.filled <= r.qty + LiveQty,
           Working(r) => r.filled <= r.qty,
           r.state = "FILLED" => r.qty <= r.filled,
           x \in {exState[o], "canceled"}
    PROVE  Sound(r, x, exFilled[o])
  BY OfOrder DEF Sound

\* What cancel_order may find.
LEMMA Cancellable ==
    ASSUME LiveInv, NEW o \in LiveOrders, MayCancel(o), worker = "idle"
    PROVE  /\ live[o].state # "UNUSED" /\ toPoll = {}
           /\ ~IsDone(live[o]) => Working(live[o])
  BY OfOrder DEF MayCancel, LiveInv, Working

\* What the exchange makes of a request to cancel.
LEMMA TakenBackState ==
    ASSUME LiveInv, NEW o \in LiveOrders
    PROVE  /\ TakenBack(o) \in [LiveOrders -> ExStates]
           /\ TakenBack(o)[o] \in {exState[o], "canceled"}
           /\ \A d \in LiveOrders \ {o} : TakenBack(o)[d] = exState[d]
<1>1. exState \in [LiveOrders -> ExStates]
  BY DEF LiveInv, LiveTypeOK
<1> QED BY <1>1 DEF TakenBack, ExStates

LEMMA CancelLiveKeeps ==
    ASSUME LiveInv, NEW o \in LiveOrders, CancelLive(o)
    PROVE  LiveInv'
<1>1. /\ worker = "idle" /\ MayCancel(o)
      /\ UNCHANGED <<known, exFilled, trades, round>>
      /\ exState' = TakenBack(o) \/ exState' = exState
  BY DEF CancelLive
<1>2. liveFaults' \in Nat
  <2>1. liveFaults \in Nat
    BY DEF LiveInv, LiveTypeOK
  <2> QED BY <2>1 DEF CancelLive, LiveFault
<1>3. /\ exState' \in [LiveOrders -> ExStates]
      /\ exState'[o] \in {exState[o], "canceled"}
      /\ \A d \in LiveOrders \ {o} : exState'[d] = exState[d]
  <2>1. exState \in [LiveOrders -> ExStates]
    BY DEF LiveInv, LiveTypeOK
  <2> QED BY <1>1, <2>1, TakenBackState
<1>4. /\ live[o].state # "UNUSED" /\ toPoll = {}
      /\ ~IsDone(live[o]) => Working(live[o])
  BY <1>1, Cancellable
<1>5. exState'[o] \in ExStates /\ known' \subseteq LiveOrders
      /\ closedHere \subseteq LiveOrders
  BY <1>1, <1>3 DEF LiveInv, LiveTypeOK
<1>6. CASE IsDone(live[o])
  <2>1. UNCHANGED <<live, closedHere>>
    BY <1>6 DEF CancelLive
  <2>2. live' = [live EXCEPT ![o] = live[o]]
    BY <2>1 DEF LiveInv, LiveTypeOK
  <2>3. Sound(live[o], exState'[o], exFilled[o])
    BY <1>3, <1>4, <1>5, OfOrder, StillSound DEF Sound
  <2>4. GivenUp(live[o]) /\ o \notin closedHere'
          => exState'[o] \in {"canceled", "rejected"} /\ exFilled[o] <= live[o].filled
    BY <1>3, <2>1 DEF LiveInv, OrderOk
  <2>5. live[o] \in OrderRecord
    BY OfOrder
  <2> QED BY <1>1, <1>2, <1>3, <1>4, <1>5, <2>1, <2>2, <2>3, <2>4, <2>5, OrderMoves DEF round
<1>7. CASE ~IsDone(live[o])
  <2> DEFINE r == MoveTo(live[o], "CANCELLED")
  <2>1. live' = [live EXCEPT ![o] = r] /\ closedHere' = closedHere \cup {o}
    BY <1>7 DEF CancelLive
  <2>2. /\ r \in OrderRecord /\ r.state = "CANCELLED"
        /\ r.qty = live[o].qty /\ r.filled = live[o].filled
    BY OfOrder, Moved DEF OrderStates, Terminal
  <2> HIDE DEF r
  <2>3. Sound(r, exState'[o], exFilled[o])
    <3>1. r.filled <= r.qty + LiveQty /\ ~Working(r)
      BY <1>4, <2>2, OfOrder DEF Sound, Working, IsDone, Terminal
    <3> QED BY <1>3, <1>4, <1>5, <2>2, <3>1, StillSound
  <2> QED BY <1>1, <1>2, <1>3, <1>4, <1>5, <2>1, <2>2, <2>3, OrderMoves DEF round
<1> QED BY <1>6, <1>7

LEMMA CancelFailsKeeps ==
    ASSUME LiveInv, NEW o \in LiveOrders, CancelFails(o)
    PROVE  LiveInv'
<1>1. /\ worker = "idle" /\ MayCancel(o)
      /\ UNCHANGED <<known, exFilled, trades, round, closedHere>>
      /\ exState' = TakenBack(o) \/ exState' = exState
  BY DEF CancelFails
<1>2. liveFaults' \in Nat
  <2>1. liveFaults \in Nat
    BY DEF LiveInv, LiveTypeOK
  <2> QED BY <2>1 DEF CancelFails, LiveFault
<1>3. /\ exState' \in [LiveOrders -> ExStates]
      /\ exState'[o] \in {exState[o], "canceled"}
      /\ \A d \in LiveOrders \ {o} : exState'[d] = exState[d]
  <2>1. exState \in [LiveOrders -> ExStates]
    BY DEF LiveInv, LiveTypeOK
  <2> QED BY <1>1, <2>1, TakenBackState
<1>4. /\ live[o].state # "UNUSED" /\ toPoll = {}
      /\ ~IsDone(live[o]) => Working(live[o])
  BY <1>1, Cancellable
<1>5. exState'[o] \in ExStates /\ known' \subseteq LiveOrders
      /\ closedHere \subseteq LiveOrders
  BY <1>1, <1>3 DEF LiveInv, LiveTypeOK
<1>6. PICK r \in OrderRecord :
        /\ live' = [live EXCEPT ![o] = r]
        /\ r.qty = live[o].qty /\ r.filled = live[o].filled
        /\ r = live[o] \/ (Working(live[o]) /\ r.state = "CANCEL_REQUESTED")
  <2>1. CASE IsDone(live[o])
    <3>1. live' = live
      BY <2>1 DEF CancelFails
    <3>2. live' = [live EXCEPT ![o] = live[o]]
      BY <3>1 DEF LiveInv, LiveTypeOK
    <3> QED BY <3>2, OfOrder
  <2>2. CASE ~IsDone(live[o])
    <3>1. live' = [live EXCEPT ![o] = MoveTo(live[o], "CANCEL_REQUESTED")]
      BY <2>2 DEF CancelFails
    <3>2. /\ MoveTo(live[o], "CANCEL_REQUESTED") \in OrderRecord
          /\ MoveTo(live[o], "CANCEL_REQUESTED").state = "CANCEL_REQUESTED"
          /\ MoveTo(live[o], "CANCEL_REQUESTED").qty = live[o].qty
          /\ MoveTo(live[o], "CANCEL_REQUESTED").filled = live[o].filled
      BY OfOrder, Moved DEF OrderStates
    <3> QED BY <1>4, <2>2, <3>1, <3>2
  <2> QED BY <2>1, <2>2
<1>7. Sound(r, exState'[o], exFilled[o])
  <2>1. CASE r = live[o]
    BY <1>3, <1>4, <1>5, <2>1, OfOrder, StillSound DEF Sound
  <2>2. CASE Working(live[o]) /\ r.state = "CANCEL_REQUESTED"
    <3>1. r.filled <= r.qty /\ r.filled <= r.qty + LiveQty
      BY <1>4, <1>6, <2>2, OfOrder DEF Sound
    <3> QED BY <1>3, <1>4, <1>5, <1>6, <2>2, <3>1, StillSound
  <2> QED BY <1>6, <2>1, <2>2
<1>8. GivenUp(r) /\ o \notin closedHere'
        => exState'[o] \in {"canceled", "rejected"} /\ exFilled[o] <= r.filled
  <2>1. closedHere' = closedHere
    BY <1>1
  <2>2. GivenUp(r) => r = live[o]
    BY <1>6 DEF GivenUp
  <2>3. GivenUp(live[o]) /\ o \notin closedHere
          => exState'[o] \in {"canceled", "rejected"} /\ exFilled[o] <= live[o].filled
    BY <1>3 DEF LiveInv, OrderOk
  <2> QED BY <2>1, <2>2, <2>3
<1> QED BY <1>1, <1>2, <1>3, <1>4, <1>5, <1>6, <1>7, <1>8, OrderMoves DEF round

LEMMA SyncStartsKeeps == ASSUME LiveInv, SyncStarts PROVE LiveInv'
<1>1. /\ worker' = "poll" /\ toPoll' = OpenHere
      /\ UNCHANGED <<live, known, exchange, seenFills, newFills, closedHere, liveFaults>>
  BY DEF SyncStarts
<1>2. OpenHere \subseteq LiveOrders
  BY DEF OpenHere, Placed
<1>3. ASSUME NEW o \in LiveOrders PROVE OrderOk(o)'
  <2>1. OrderOk(o) /\ (o \in OpenHere <=> Working(live[o]))
    BY OfOrder DEF LiveInv
  <2> QED BY <1>1, <2>1 DEF OrderOk, exchange
<1>4. LiveTypeOK'
  BY <1>1, <1>2 DEF LiveInv, LiveTypeOK, exchange
<1> QED BY <1>1, <1>3, <1>4 DEF LiveInv, exchange

\* What _apply_order_update makes of an open order.
LEMMA MergedOrder ==
    ASSUME LiveInv, NEW o \in LiveOrders, Working(live[o]), exState[o] # "none"
    PROVE  /\ Merged(o) \in OrderRecord
           /\ Sound(Merged(o), exState[o], exFilled[o])
           /\ GivenUp(Merged(o))
                => exState[o] \in {"canceled", "rejected"} /\ exFilled[o] <= Merged(o).filled
<1> DEFINE gap == exFilled[o] - live[o].filled
           a == ApplyFill(live[o], gap)
<1>1. exState[o] \in ExStates
  BY DEF LiveInv, LiveTypeOK
<1>2. /\ RemoteState(o) \in {"ACKNOWLEDGED", "PARTIAL_FILLED", "FILLED", "CANCELLED", "REJECTED"}
      /\ RemoteState(o) = "FILLED" <=> exState[o] = "filled"
      /\ RemoteState(o) = "CANCELLED" <=> exState[o] = "canceled"
      /\ RemoteState(o) = "REJECTED" <=> exState[o] = "rejected"
  BY DEF RemoteState
<1>3. gap \in Int
  BY OfOrder
<1>4. /\ a \in OrderRecord /\ a.qty = live[o].qty
      /\ gap <= 0 => a = live[o]
      /\ gap > 0 => a.filled = live[o].filled + gap
  BY <1>3, OfOrder, FillApplied
<1>5. exFilled[o] <= a.filled /\ a.filled <= a.qty
  <2>1. live[o].filled <= live[o].qty
    BY OfOrder DEF Sound
  <2>2. CASE gap <= 0
    BY <2>1, <2>2, <1>4, OfOrder
  <2>3. CASE gap > 0
    <3>1. a.filled = exFilled[o]
      BY <2>3, <1>4, OfOrder
    <3> QED BY <3>1, <1>4, OfOrder
  <2> QED BY <2>2, <2>3, <1>3
<1> HIDE DEF a, gap
<1> DEFINE r == MoveTo(a, RemoteState(o))
<1>6. /\ Merged(o) = r
      /\ r \in OrderRecord /\ r.state = RemoteState(o) /\ r.qty = a.qty /\ r.filled = a.filled
  <2>1. RemoteState(o) \in OrderStates
    BY <1>2 DEF OrderStates, Terminal
  <2> QED BY <2>1, <1>4, Moved DEF Merged, a, gap
<1> HIDE DEF r
<1>7. a.qty \in 1 .. LiveQty /\ a.filled \in Nat
  <2>1. live[o].qty \in 1 .. LiveQty
    BY OfOrder DEF Sound, Working
  <2>2. a.filled \in Nat
    BY <1>4 DEF OrderRecord
  <2> QED BY <2>1, <2>2, <1>4
<1>8. Sound(r, exState[o], exFilled[o])
  <2>1. r.state \notin {"UNUSED", "EXPIRED"} /\ (r.state = "FILLED" => exState[o] = "filled")
    BY <1>2, <1>6
  <2>2. exFilled[o] \in 0 .. r.qty /\ (exState[o] = "filled" => exFilled[o] = r.qty)
    BY <1>4, <1>6, OfOrder DEF Sound
  <2>3. r.filled <= r.qty /\ r.filled <= r.qty + LiveQty
    BY <1>5, <1>6, <1>7, LiveAssumption
  <2>4. exState[o] = "filled" => r.qty <= r.filled
    BY <1>5, <1>6, <2>2
  <2> QED BY <1>6, <1>7, <2>1, <2>2, <2>3, <2>4 DEF Sound
<1>9. GivenUp(r) => exState[o] \in {"canceled", "rejected"} /\ exFilled[o] <= r.filled
  BY <1>2, <1>5, <1>6 DEF GivenUp
<1> QED BY <1>6, <1>8, <1>9

LEMMA PollOrderKeeps ==
    ASSUME LiveInv, NEW o \in LiveOrders, PollOrder(o)
    PROVE  LiveInv'
<1>1. /\ o \in toPoll /\ toPoll' = toPoll \ {o}
      /\ UNCHANGED <<exchange, seenFills, worker, newFills, closedHere>>
  BY DEF PollOrder
<1>2. Working(live[o])
  BY <1>1 DEF LiveInv, OrderOk
<1>3. known' \subseteq LiveOrders /\ liveFaults' \in Nat
  <2>1. known \subseteq LiveOrders /\ liveFaults \in Nat
    BY DEF LiveInv, LiveTypeOK
  <2>2. known' \subseteq known \cup {o}
    BY DEF PollOrder
  <2>3. liveFaults' \in {liveFaults, liveFaults + 1}
    BY DEF PollOrder, LiveFault
  <2> QED BY <2>1, <2>2, <2>3
<1>4. PICK r \in OrderRecord :
        /\ live' = [live EXCEPT ![o] = r]
        /\ Sound(r, exState[o], exFilled[o])
        /\ GivenUp(r) /\ o \notin closedHere
             => exState[o] \in {"canceled", "rejected"} /\ exFilled[o] <= r.filled
  <2>1. CASE exState[o] # "none" /\ live' = [live EXCEPT ![o] = Merged(o)]
    BY <1>2, <2>1, MergedOrder
  <2>2. CASE live' = live
    <3>1. live' = [live EXCEPT ![o] = live[o]]
      BY <2>2 DEF LiveInv, LiveTypeOK
    <3>2. /\ live[o] \in OrderRecord /\ Sound(live[o], exState[o], exFilled[o])
          /\ GivenUp(live[o]) /\ o \notin closedHere
               => exState[o] \in {"canceled", "rejected"} /\ exFilled[o] <= live[o].filled
      BY OfOrder DEF LiveInv, OrderOk
    <3> QED BY <3>1, <3>2
  <2> QED BY <2>1, <2>2 DEF PollOrder
<1>5. exState \in [LiveOrders -> ExStates]
      /\ closedHere \subseteq LiveOrders
  BY DEF LiveInv, LiveTypeOK
<1> QED BY <1>1, <1>3, <1>4, <1>5, OrderMoves DEF exchange

LEMMA ReadFillsKeeps == ASSUME LiveInv, ReadFills PROVE LiveInv'
<1>1. /\ worker' = "fills" /\ toPoll = {}
      /\ UNCHANGED <<live, known, exchange, seenFills, toPoll, closedHere>>
      /\ newFills' \subseteq DOMAIN trades
      /\ liveFaults' \in {liveFaults, liveFaults + 1}
  BY DEF ReadFills, LiveFault
<1>2. \A o \in LiveOrders : OrderOk(o)'
  BY <1>1 DEF LiveInv, OrderOk, exchange
<1>3. LiveTypeOK'
  BY <1>1 DEF LiveInv, LiveTypeOK, exchange
<1> QED BY <1>1, <1>2, <1>3 DEF LiveInv, exchange

\* An open order takes a trade of at most LiveQty on top of at most its
\* quantity, and is closed by it if that fills it.
LEMMA BookFillKeeps ==
    ASSUME LiveInv, NEW i \in DOMAIN trades, BookFill(i)
    PROVE  LiveInv'
<1>1. /\ worker = "fills" /\ i \in newFills /\ newFills' = newFills \ {i}
      /\ seenFills' = seenFills \cup {i}
      /\ live' = [o \in LiveOrders |->
                    IF IsCandidate(o, trades[i]) THEN ApplyFill(live[o], trades[i].qty)
                    ELSE live[o]]
      /\ UNCHANGED <<known, exchange, worker, toPoll, closedHere, liveFaults>>
  BY DEF BookFill
<1>2. trades[i].qty \in 1 .. LiveQty /\ toPoll = {}
  BY <1>1 DEF LiveInv
<1> DEFINE q == trades[i].qty
<1>3. q \in Nat /\ q > 0 /\ q <= LiveQty /\ q \in Int
  BY <1>2, LiveAssumption
<1> HIDE DEF q
<1>4. ASSUME NEW o \in LiveOrders
      PROVE  live'[o] \in OrderRecord /\ OrderOk(o)'
  <2>1. OrderOk(o) /\ live[o] \in OrderRecord
    BY OfOrder DEF LiveInv
  <2>2. CASE ~IsCandidate(o, trades[i])
    <3>1. live'[o] = live[o]
      BY <1>1, <2>2
    <3> QED BY <1>1, <2>1, <3>1 DEF OrderOk, exchange
  <2>3. CASE IsCandidate(o, trades[i])
    <3>1. o \in OpenHere
      BY <2>3 DEF IsCandidate, Candidates
    <3>2. Working(live[o])
      BY <3>1, OfOrder
    <3> DEFINE r == ApplyFill(live[o], q)
    <3>3. live'[o] = r
      BY <1>1, <2>3 DEF q
    <3>4. /\ r \in OrderRecord /\ r.qty = live[o].qty
          /\ r.filled = live[o].filled + q
          /\ live[o].filled + q < live[o].qty => r.state = "PARTIAL_FILLED"
          /\ live[o].filled + q >= live[o].qty => r.state = "FILLED"
      BY <1>3, <2>1, FillApplied
    <3> HIDE DEF r
    <3>5. /\ live[o].filled <= live[o].qty /\ live[o].qty \in 1 .. LiveQty
          /\ live[o].filled \in Nat /\ live[o].qty \in Nat
      BY <3>2, OfOrder DEF Sound, Working
    <3>6. r.state \in {"PARTIAL_FILLED", "FILLED"} /\ r.filled <= r.qty + LiveQty
          /\ (r.state = "PARTIAL_FILLED" => r.filled <= r.qty)
          /\ ~GivenUp(r)
          /\ (r.state = "FILLED" => r.qty <= r.filled)
      BY <1>3, <3>4, <3>5, LiveAssumption DEF GivenUp
    <3>7. Working(r) => r.state = "PARTIAL_FILLED"
      BY <3>6 DEF Working, IsDone, Terminal
    <3>8. Sound(r, exState[o], exFilled[o])
      <4>1. /\ exFilled[o] \in 0 .. r.qty
            /\ exState[o] = "filled" => exFilled[o] = r.qty
        BY <3>4, OfOrder DEF Sound
      <4> QED BY <4>1, <3>4, <3>5, <3>6, <3>7 DEF Sound
    <3> QED BY <1>1, <1>2, <3>3, <3>4, <3>6, <3>8 DEF OrderOk, exchange
  <2> QED BY <2>2, <2>3
<1>5. live' \in [LiveOrders -> OrderRecord]
  <2>1. live' = [o \in LiveOrders |-> live'[o]]
    BY <1>1
  <2> QED BY <1>4, <2>1
<1>6. LiveTypeOK'
  BY <1>1, <1>5 DEF LiveInv, LiveTypeOK, exchange
<1> QED BY <1>1, <1>2, <1>4, <1>6 DEF LiveInv, exchange

LEMMA SyncEndsKeeps == ASSUME LiveInv, SyncEnds PROVE LiveInv'
<1>1. /\ worker = "fills" /\ worker' = "idle"
      /\ UNCHANGED <<live, known, exchange, seenFills, toPoll, newFills, closedHere, liveFaults>>
  BY DEF SyncEnds
<1>2. toPoll = {}
  BY <1>1 DEF LiveInv
<1>3. \A o \in LiveOrders : OrderOk(o)'
  BY <1>1 DEF LiveInv, OrderOk, exchange
<1>4. LiveTypeOK'
  BY <1>1 DEF LiveInv, LiveTypeOK, exchange
<1> QED BY <1>1, <1>2, <1>3, <1>4 DEF LiveInv, exchange

LEMMA LiveInvStep == LiveInv /\ [LiveNext]_liveVars => LiveInv'
<1> SUFFICES ASSUME LiveInv, [LiveNext]_liveVars PROVE LiveInv'
  OBVIOUS
<1>1. CASE UNCHANGED liveVars
  <2>1. \A o \in LiveOrders : OrderOk(o)'
    BY <1>1 DEF LiveInv, OrderOk, liveVars, exchange, round
  <2>2. LiveTypeOK'
    BY <1>1 DEF LiveInv, LiveTypeOK, liveVars, exchange, round
  <2> QED BY <1>1, <2>1, <2>2 DEF LiveInv, liveVars, exchange, round
<1>2. CASE \E o \in LiveOrders : \/ SubmitLive(o) \/ CancelLive(o) \/ CancelFails(o)
                                 \/ ExchangeTrades(o) \/ ExchangeEnds(o)
  BY <1>2, SubmitLiveKeeps, CancelLiveKeeps, CancelFailsKeeps, ExchangeTradesKeeps,
     ExchangeEndsKeeps
<1>3. CASE SyncStep
  BY <1>3, SyncStartsKeeps, PollOrderKeeps, ReadFillsKeeps, BookFillKeeps, SyncEndsKeeps
  DEF SyncStep
<1> QED BY <1>1, <1>2, <1>3 DEF LiveNext

LEMMA LiveInvAlways == LiveSpec => []LiveInv
  BY LiveInvInit, LiveInvStep, PTL DEF LiveSpec

-----------------------------------------------------------------------------
(* What follows.                                                           *)

\* Orders, the exchange's view of them and the worker's round have their types
\* whatever is submitted, cancelled, traded and lost.
THEOREM LiveTypeCorrect == LiveSpec => []LiveTypeOK
<1>1. LiveInv => LiveTypeOK
  BY DEF LiveInv
<1> QED BY <1>1, LiveInvAlways, PTL

\* An order that sync_once ends, filled, cancelled or rejected, has at least the
\* quantity booked that the exchange filled of it, for any number of orders,
\* trades, rounds and faults.  Which trades those were is not said.
THEOREM LiveNoEndIsShort == LiveSpec => []NoEndIsShort
<1>1. LiveInv => NoEndIsShort
  <2> SUFFICES ASSUME LiveInv, NEW o \in LiveOrders, IsDone(live[o]), o \notin closedHere
               PROVE  exFilled[o] <= live[o].filled
    BY DEF NoEndIsShort
  <2>1. CASE live[o].state = "FILLED"
    <3>1. live[o].qty <= live[o].filled
      BY <2>1, OfOrder DEF Sound
    <3> QED BY <3>1, OfOrder
  <2>2. CASE GivenUp(live[o])
    BY <2>2 DEF LiveInv, OrderOk
  <2>3. live[o].state # "EXPIRED"
    BY OfOrder DEF Sound
  <2> QED BY <2>1, <2>2, <2>3 DEF IsDone, Terminal, GivenUp
<1> QED BY <1>1, LiveInvAlways, PTL

\* What sync_once books beyond an order's quantity is at most one trade,
\* although it may book a trade twice and to the wrong order.
THEOREM LiveOverbookingIsBounded == LiveSpec => []OverbookingIsBounded
<1>1. LiveInv => OverbookingIsBounded
  <2> SUFFICES ASSUME LiveInv, NEW o \in Placed
               PROVE  live[o].filled <= live[o].qty + LiveQty
    BY DEF OverbookingIsBounded
  <2>1. o \in LiveOrders
    BY DEF Placed
  <2> QED BY <2>1, OfOrder DEF Sound
<1> QED BY <1>1, LiveInvAlways, PTL

=============================================================================
