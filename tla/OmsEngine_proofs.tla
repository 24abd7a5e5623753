---------------------------- MODULE OmsEngine_proofs ----------------------------
(* Proofs about OmsEngine for any number of orders, coroutines, symbols and *)
(* position objects, and any selection of the calls.                        *)
EXTENDS OmsEngine, TLAPS

------------------------------------------------------------------------------
(* Positions *)

\* A position that apply_fill has touched holds nothing when it is flat.
WellFormed(p) == p.side = "FLAT" => p.qty = 0

\* A fill of a position is a position again (core/position.py:108-135).
LEMMA FillType ==
    ASSUME NEW p \in Position, NEW side \in Sides, NEW q \in Nat \ {0},
           NEW price \in Int
    PROVE  Fill(p, side, q, price) \in Position
  <1> DEFINE turned(old) == [old EXCEPT !.side = FillSide(side)]
  <1>1. ASSUME NEW r \in Position, NEW n \in Nat
        PROVE  Increase(r, n, price) \in Position
    <2>1. CASE n = 0
      BY <2>1 DEF Increase
    <2>2. CASE n > 0
      <3>1. r.qty + n \in Nat /\ r.qty + n > 0
            /\ r.avg * r.qty + price * n \in Int
        BY <2>2 DEF Position
      <3>2. (r.avg * r.qty + price * n) \div (r.qty + n) \in Int
        BY <3>1
      <3> HIDE <2>2
      <3>3. Increase(r, n, price)
              = [r EXCEPT !.side = IF r.side = "SHORT" THEN "SHORT" ELSE "LONG",
                          !.qty = r.qty + n,
                          !.avg = (r.avg * r.qty + price * n) \div (r.qty + n)]
        BY <2>2 DEF Increase
      <3> QED
        BY <3>1, <3>2, <3>3 DEF Position, PositionSides
    <2> QED
      BY <2>1, <2>2
  <1>2. ASSUME NEW r \in Position, NEW n \in Nat
        PROVE  Decrease(r, n, price) \in Position
    <2>1. r.qty \in Nat /\ r.avg \in Int /\ r.realized \in Int
      BY DEF Position
    <2> DEFINE closed == IF n < r.qty THEN n ELSE r.qty
               gain == IF r.side = "LONG" THEN price - r.avg ELSE r.avg - price
               pnl == closed * gain
    <2>2. closed \in Nat /\ closed <= r.qty /\ gain \in Int
      BY <2>1
    <2>3. pnl \in Int
      BY <2>2
    <2>4. Decrease(r, n, price)
            = IF closed <= 0 THEN r
              ELSE IF closed = r.qty
              THEN [side |-> "FLAT", qty |-> 0, avg |-> 0,
                    realized |-> r.realized + pnl]
              ELSE [r EXCEPT !.qty = r.qty - closed,
                             !.realized = r.realized + pnl]
      BY DEF Decrease
    <2> HIDE DEF closed, gain, pnl
    <2>5. r.qty - closed \in Nat /\ r.realized + pnl \in Int
      BY <2>1, <2>2, <2>3
    <2>6. [side |-> "FLAT", qty |-> 0, avg |-> 0,
           realized |-> r.realized + pnl] \in Position
      BY <2>5 DEF Position, PositionSides
    <2>7. [r EXCEPT !.qty = r.qty - closed, !.realized = r.realized + pnl]
            \in Position
      BY <2>5 DEF Position
    <2> QED
      BY <2>4, <2>6, <2>7
  <1>3. turned(p) \in Position
    BY DEF Position, PositionSides, FillSide
  <1>4. CASE IsFlat(p) \/ FillSide(side) = p.side
    BY <1>1, <1>3, <1>4 DEF Fill
  <1>5. CASE ~(IsFlat(p) \/ FillSide(side) = p.side)
    <2>1. p.qty \in Nat
      BY DEF Position
    <2>2. CASE q <= p.qty
      BY <1>2, <1>5, <2>2 DEF Fill
    <2>3. CASE ~(q <= p.qty)
      <3>1. q - p.qty \in Nat
        BY <2>1, <2>3
      <3>2. Decrease(p, p.qty, price) \in Position
        BY <1>2, <2>1
      <3>3. turned(Decrease(p, p.qty, price)) \in Position
        BY <3>2 DEF Position, PositionSides, FillSide
      <3> QED
        BY <1>1, <1>5, <2>3, <3>1, <3>3 DEF Fill
    <2> QED
      BY <2>2, <2>3
  <1> QED
    BY <1>4, <1>5

\* Position.apply_fill is the addition of signed quantities: adding to a
\* position, closing part or all of it and turning it over are one rule.
THEOREM FillIsSignedAddition ==
    ASSUME NEW p \in Position, WellFormed(p), NEW side \in Sides,
           NEW q \in Nat \ {0}, NEW price \in Int
    PROVE  /\ Net(Fill(p, side, q, price)) = Net(p) + SignedQty(side, q)
           /\ WellFormed(Fill(p, side, q, price))
  <1>1. /\ p.qty \in Nat /\ q \in Nat /\ q > 0
        /\ p.side \in {"FLAT", "LONG", "SHORT"} /\ side \in {"buy", "sell"}
    BY DEF Position, PositionSides, Sides
  <1>2. CASE IsFlat(p) \/ FillSide(side) = p.side
    <2>1. /\ Fill(p, side, q, price).side = FillSide(side)
          /\ Fill(p, side, q, price).qty = p.qty + q
      BY <1>1, <1>2 DEF Fill, Increase, FillSide, IsFlat, Position
    <2> QED
      BY <1>1, <1>2, <2>1 DEF Net, SignedQty, FillSide, IsFlat, WellFormed
  <1>3. CASE ~(IsFlat(p) \/ FillSide(side) = p.side) /\ q <= p.qty
    <2>1. /\ Fill(p, side, q, price).side
               = IF q = p.qty THEN "FLAT" ELSE p.side
          /\ Fill(p, side, q, price).qty = p.qty - q
      BY <1>1, <1>3 DEF Fill, Decrease, IsFlat, Position
    <2> QED
      BY <1>1, <1>3, <2>1 DEF Net, SignedQty, FillSide, IsFlat, WellFormed
  <1>4. CASE ~(IsFlat(p) \/ FillSide(side) = p.side) /\ ~(q <= p.qty)
    <2>1. Decrease(p, p.qty, price).qty = 0
      BY <1>1, <1>4 DEF Decrease, IsFlat, Position
    <2> DEFINE t == [Decrease(p, p.qty, price) EXCEPT !.side = FillSide(side)]
    <2>2. t.qty = 0 /\ t.side = FillSide(side)
      BY <1>1, <1>4, <2>1 DEF Decrease, IsFlat, Position
    <2>3. Fill(p, side, q, price) = Increase(t, q - p.qty, price)
      BY <1>4 DEF Fill
    <2>4. q - p.qty > 0 /\ q - p.qty \in Nat
      BY <1>1, <1>4
    <2>5. /\ Fill(p, side, q, price).side = FillSide(side)
          /\ Fill(p, side, q, price).qty = q - p.qty
      BY <1>1, <1>4, <2>2, <2>3, <2>4 DEF Increase, FillSide, Decrease, IsFlat
    <2> QED
      BY <1>1, <1>4, <2>5 DEF Net, SignedQty, FillSide, IsFlat, WellFormed
  <1> QED
    BY <1>2, <1>3, <1>4

------------------------------------------------------------------------------
(* The inductive invariant *)

Waiting == {"matching", "routing"}

\* What is known of an order by its state: an id not taken is blank, fills
\* stay within the quantity, and an order the venue holds is no longer on
\* its way there.
OrderInv ==
  /\ \A c \in Orders:
       /\ order[c].state = "UNUSED" => order[c] = Unused
       /\ order[c].state # "UNUSED" => /\ order[c].qty > 0
                                       /\ order[c].symbol \in Symbols
       /\ order[c].filled <= order[c].qty
  /\ \A c \in venueOrders: order[c].state \notin {"UNUSED", "SENT", "SUBMITTED"}

\* A coroutine names an order only while it waits for it, and an algorithm
\* keeps its parent order.
TaskInv ==
  \A t \in Tasks:
    /\ task[t].cur # None => task[t].pc \in Waiting
    /\ task[t].pc \in {"slicing", "routing"} => task[t].call = "algo"
    /\ task[t].call = "algo" => task[t].parent # None

IInv == TypeOK /\ OrderInv /\ TaskInv /\ InFlightIsOwned

\* The fields of a blank order.
LEMMA UnusedFields ==
    /\ Unused \in Order
    /\ Unused.state = "UNUSED" /\ Unused.qty = 0 /\ Unused.filled = 0
  <1>1. Unused.state = "UNUSED" /\ Unused.qty = 0 /\ Unused.filled = 0
    BY DEF Unused
  <1>2. Unused \in Order
    BY DEF Unused, Order, Sides, TimesInForce, Effects
  <1> QED
    BY <1>1, <1>2

LEMMA InitIInv == Init => IInv
  <1> SUFFICES ASSUME Init PROVE IInv
    OBVIOUS
  <1>1. Unused \in Order
    BY UnusedFields
  <1>2. Idle \in Task
    BY DEF Idle, Task
  <1>3. NewPosition \in Position
    BY DEF NewPosition, Position, PositionSides
  <1>4. locked \in BOOLEAN /\ tripped \in BOOLEAN
    BY DEF Init
  <1>5. TypeOK
    BY <1>1, <1>2, <1>3, <1>4 DEF Init, TypeOK
  <1>6. OrderInv /\ TaskInv /\ InFlightIsOwned
    BY UnusedFields DEF Init, OrderInv, TaskInv, InFlightIsOwned, Idle, Waiting
  <1> QED
    BY <1>5, <1>6 DEF IInv

\* A step that gives coroutine t a new order c to wait for, or none, keeps
\* every waiting coroutine the owner of its order.
LEMMA Ownership ==
    ASSUME IInv, NEW t \in Tasks, NEW c,
           \A d \in Orders: d # c => order'[d] = order[d],
           \A u \in Tasks: u # t => task'[u] = task[u],
           \A u \in Tasks: u # t /\ task[u].pc \in Waiting => task[u].cur # c,
           \/ task'[t].cur = None /\ task'[t].pc \notin Waiting
           \/ /\ c \in Orders /\ task'[t].cur = c
              /\ task'[t].pc \in Waiting
              /\ order'[c].state = IF task'[t].pc = "matching"
                                   THEN "SUBMITTED" ELSE "SENT"
              /\ order'[c].filled = 0
    PROVE  /\ InFlightIsOwned'
           /\ \A u \in Tasks: task'[u].cur # None => task'[u].pc \in Waiting
  <1>1. None \notin Orders
    BY ConstantsAssumption DEF ConstantsAssumption
  <1>2. \A u \in Tasks: task'[u].cur # None => task'[u].pc \in Waiting
    BY DEF IInv, TaskInv
  <1>3. ASSUME NEW u \in Tasks, task'[u].pc \in Waiting
        PROVE  /\ task'[u].cur \in Orders
               /\ order'[task'[u].cur].state = IF task'[u].pc = "matching"
                                               THEN "SUBMITTED" ELSE "SENT"
               /\ order'[task'[u].cur].filled = 0
               /\ \A v \in Tasks \ {u}: task'[v].cur # task'[u].cur
    <2>1. CASE u = t
      BY <1>1, <1>3, <2>1 DEF IInv, TaskInv
    <2>2. CASE u # t
      <3>1. task'[u] = task[u] /\ task[u].pc \in Waiting /\ task[u].cur # c
        BY <1>3, <2>2
      <3>2. /\ task[u].cur \in Orders
            /\ order[task[u].cur].state = IF task[u].pc = "matching"
                                          THEN "SUBMITTED" ELSE "SENT"
            /\ order[task[u].cur].filled = 0
            /\ \A v \in Tasks \ {u}: task[v].cur # task[u].cur
        BY <3>1 DEF IInv, InFlightIsOwned, Waiting
      <3>3. order'[task[u].cur] = order[task[u].cur]
        BY <3>1, <3>2
      <3> QED
        BY <1>1, <3>1, <3>2, <3>3
    <2> QED
      BY <2>1, <2>2
  <1> QED
    BY <1>2, <1>3 DEF InFlightIsOwned, Waiting

\* Taking the next id for an order that is on its way, or refused at once,
\* keeps what is known of orders.
LEMMA NewOrder ==
    ASSUME IInv, NEW c \in Orders, IsNextId(c), NEW o \in Order,
           o.state \in {"REJECTED", "SENT", "SUBMITTED"}, o.filled = 0,
           o.qty > 0, o.symbol \in Symbols,
           order' = [order EXCEPT ![c] = o], venueOrders' = venueOrders
    PROVE  /\ order' \in [Orders -> Order]
           /\ OrderInv'
           /\ \A d \in Orders: d # c => order'[d] = order[d]
           /\ \A u \in Tasks: task[u].pc \in Waiting => task[u].cur # c
  <1>1. order \in [Orders -> Order] /\ order[c] = Unused
        /\ venueOrders \subseteq Orders /\ order[c].state = "UNUSED"
    BY UnusedFields DEF IInv, TypeOK, IsNextId
  <1>2. c \notin venueOrders
    BY <1>1 DEF IInv, OrderInv
  <1>3. OrderInv'
    <2>1. o.filled <= o.qty /\ o.state # "UNUSED"
      BY DEF Order
    <2> QED
      BY <1>1, <1>2, <2>1 DEF IInv, OrderInv
  <1>4. \A u \in Tasks: task[u].pc \in Waiting => task[u].cur # c
    BY <1>1 DEF IInv, InFlightIsOwned, Waiting
  <1> QED
    BY <1>1, <1>3, <1>4

\* A draft that passes the checks is on its way; one that does not is refused.
LEMMA DraftType ==
    ASSUME NEW s \in Symbols, NEW side \in Sides, NEW q \in Nat \ {0},
           NEW effect \in Effects, NEW tif \in TimesInForce,
           NEW st \in {"REJECTED", "SENT", "SUBMITTED"}
    PROVE  LET o == MoveTo(Draft(s, side, q, effect, tif), st)
           IN  /\ o \in Order /\ o.state = st /\ o.filled = 0
               /\ o.qty > 0 /\ o.symbol \in Symbols
  <1> DEFINE o == MoveTo(Draft(s, side, q, effect, tif), st)
  <1>1. o = [state |-> st, symbol |-> s, side |-> side, qty |-> q,
             filled |-> 0, effect |-> effect, tif |-> tif]
    BY DEF MoveTo, Draft
  <1>2. o.state = st /\ o.filled = 0 /\ o.qty = q /\ o.symbol = s
    BY <1>1
  <1>3. /\ st \in OrderStates \cup {"UNUSED"} /\ s \in Symbols \cup {"none"}
        /\ q \in Nat /\ 0 \in Nat /\ q > 0
    BY DEF OrderStates, Terminal
  <1>4. o \in Order
    BY <1>1, <1>3 DEF Order
  <1> QED
    BY <1>2, <1>3, <1>4

------------------------------------------------------------------------------
(* Every step preserves the invariant *)

\* Both books keep their types when a fill of order c is booked.
LEMMA BooksType ==
    ASSUME TypeOK, NEW s \in Symbols, NEW side \in Sides, NEW q \in Nat \ {0},
           NEW h \in [Objects -> Position], NEW x \in Objects,
           NEW book \in [Symbols -> Objects \cup {None}]
    PROVE  /\ Filled(h, book, s, x, side, q) \in [Objects -> Position]
           /\ Booked(h, book, s, x) \in [Symbols -> Objects \cup {None}]
           /\ net[s] + SignedQty(side, q) \in Int
  <1>1. Target(book, s, x) \in Objects
    BY DEF Target
  <1>2. NewPosition \in Position
    BY DEF NewPosition, Position, PositionSides
  <1> DEFINE old == IF book[s] = None THEN NewPosition
                                      ELSE h[Target(book, s, x)]
  <1>3. old \in Position
    BY <1>1, <1>2
  <1>4. Fill(old, side, q, Price) \in Position
    BY <1>3, FillType DEF Price
  <1>5. Filled(h, book, s, x, side, q) \in [Objects -> Position]
    BY <1>1, <1>4 DEF Filled
  <1>6. Booked(h, book, s, x) \in [Symbols -> Objects \cup {None}]
    BY <1>1 DEF Booked
  <1>7. net[s] + SignedQty(side, q) \in Int
    BY DEF TypeOK, SignedQty
  <1> QED
    BY <1>5, <1>6, <1>7

\* A coroutine that has its answer goes back to a state its type allows.
LEMMA ReturnsType ==
    ASSUME IInv, NEW t \in Tasks, Returns(t)
    PROVE  /\ task' \in [Tasks -> Task]
           /\ task'[t].cur = None /\ task'[t].pc \notin Waiting
           /\ \A u \in Tasks: u # t => task'[u] = task[u]
           /\ task'[t].pc \in {"slicing", "routing"} => task'[t].call = "algo"
           /\ task'[t].call = "algo" => task'[t].parent # None
  <1>1. task \in [Tasks -> Task] /\ task[t] \in Task
    BY DEF IInv, TypeOK
  <1>2. task[t].call = "algo" => task[t].parent # None
    BY DEF IInv, TaskInv
  <1>3. CASE task[t].call = "stop"
    <2>1. task' = [task EXCEPT ![t] = [task[t] EXCEPT !.pc = "flattening",
                                                      !.cur = None]]
      BY <1>1, <1>3 DEF Returns
    <2> QED
      BY <1>1, <1>3, <2>1 DEF Task, Waiting
  <1>4. CASE task[t].call = "algo"
    <2>1. task' = [task EXCEPT ![t] = [task[t] EXCEPT !.pc = "slicing",
                                                      !.cur = None]]
      BY <1>1, <1>4 DEF Returns
    <2> QED
      BY <1>1, <1>2, <1>4, <2>1 DEF Task, Waiting
  <1>5. CASE task[t].call = "none"
    <2>1. task' = [task EXCEPT ![t] = Idle]
      BY <1>1, <1>5 DEF Returns
    <2>2. Idle \in Task
      BY DEF Idle, Task
    <2> QED
      BY <1>1, <2>1, <2>2 DEF Idle, Waiting
  <1> QED
    BY <1>1, <1>3, <1>4, <1>5 DEF Task

\* The parts of the invariant a step leaves to the caller when it changes
\* coroutine t alone and order c alone.
LEMMA TaskInvKept ==
    ASSUME IInv, NEW t \in Tasks,
           \A u \in Tasks: u # t => task'[u] = task[u],
           \A u \in Tasks: task'[u].cur # None => task'[u].pc \in Waiting,
           task'[t].pc \in {"slicing", "routing"} => task'[t].call = "algo",
           task'[t].call = "algo" => task'[t].parent # None
    PROVE  TaskInv'
  <1>1. \A u \in Tasks \ {t}:
          /\ task'[u].pc \in {"slicing", "routing"} => task'[u].call = "algo"
          /\ task'[u].call = "algo" => task'[u].parent # None
    BY DEF IInv, TaskInv
  <1> QED
    BY <1>1 DEF TaskInv

\* A step of coroutine t that makes order o of the next id c, and has t wait
\* for it unless it was refused.
LEMMA PlacingStep ==
    ASSUME IInv, NEW t \in Tasks, NEW c \in Orders, IsNextId(c), NEW o \in Order,
           o.filled = 0, o.qty > 0, o.symbol \in Symbols,
           order' = [order EXCEPT ![c] = o], venueOrders' = venueOrders,
           task' \in [Tasks -> Task],
           \A u \in Tasks: u # t => task'[u] = task[u],
           \/ /\ o.state = "REJECTED"
              /\ task'[t].cur = None /\ task'[t].pc \notin Waiting
           \/ /\ o.state = IF task'[t].pc = "matching" THEN "SUBMITTED"
                                                       ELSE "SENT"
              /\ task'[t].pc \in Waiting /\ task'[t].cur = c,
           task'[t].pc \in {"slicing", "routing"} => task'[t].call = "algo",
           task'[t].call = "algo" => task'[t].parent # None
    PROVE  /\ order' \in [Orders -> Order]
           /\ OrderInv' /\ TaskInv' /\ InFlightIsOwned'
  <1>1. o.state \in {"REJECTED", "SENT", "SUBMITTED"}
    OBVIOUS
  <1>2. /\ order' \in [Orders -> Order] /\ OrderInv'
        /\ \A d \in Orders: d # c => order'[d] = order[d]
        /\ \A u \in Tasks: task[u].pc \in Waiting => task[u].cur # c
    BY <1>1, NewOrder
  <1>3. order'[c] = o
    BY DEF IInv, TypeOK
  <1>4. /\ InFlightIsOwned'
        /\ \A u \in Tasks: task'[u].cur # None => task'[u].pc \in Waiting
    BY <1>2, <1>3, Ownership
  <1>5. TaskInv'
    BY <1>4, TaskInvKept
  <1> QED
    BY <1>2, <1>4, <1>5

\* A step that moves no order.
LEMMA QuietStep ==
    ASSUME IInv, NEW t \in Tasks, UNCHANGED <<order, venueOrders>>,
           \A u \in Tasks: u # t => task'[u] = task[u],
           task'[t].cur = None /\ task'[t].pc \notin Waiting,
           task'[t].pc \in {"slicing", "routing"} => task'[t].call = "algo",
           task'[t].call = "algo" => task'[t].parent # None
    PROVE  OrderInv' /\ TaskInv' /\ InFlightIsOwned'
  <1>1. \A u \in Tasks: task[u].pc \in Waiting => task[u].cur # None
    BY ConstantsAssumption
       DEF IInv, InFlightIsOwned, Waiting, ConstantsAssumption
  <1>2. /\ InFlightIsOwned'
        /\ \A u \in Tasks: task'[u].cur # None => task'[u].pc \in Waiting
    <2>1. \A d \in Orders: d # None => order'[d] = order[d]
      OBVIOUS
    <2> QED
      BY <1>1, <2>1, Ownership
  <1>3. TaskInv'
    BY <1>2, TaskInvKept
  <1>4. OrderInv'
    BY DEF IInv, OrderInv
  <1> QED
    BY <1>2, <1>3, <1>4

\* submit_order up to the await: the draft is refused, or coroutine t waits
\* for the venue to answer for it.
LEMMA SubmitStep ==
    ASSUME IInv, NEW t \in Tasks, NEW c \in Orders, IsNextId(c),
           NEW s \in Symbols, NEW side \in Sides, NEW q \in Nat \ {0},
           NEW effect \in Effects, NEW tif \in TimesInForce,
           venueOrders' = venueOrders, task' \in [Tasks -> Task],
           \A u \in Tasks: u # t => task'[u] = task[u],
           \/ /\ RiskRejects(c, Draft(s, side, q, effect, tif))
              /\ task'[t].cur = None
              /\ task'[t].pc \in {"idle", "flattening"}
           \/ /\ Sends(c, Draft(s, side, q, effect, tif))
              /\ task'[t].cur = c /\ task'[t].pc = "matching",
           task'[t].call = "algo" => task'[t].parent # None
    PROVE  /\ order' \in [Orders -> Order] /\ orders' \subseteq Orders
           /\ OrderInv' /\ TaskInv' /\ InFlightIsOwned'
  <1> DEFINE d == Draft(s, side, q, effect, tif)
  <1>0. orders \subseteq Orders
    BY DEF IInv, TypeOK
  <1>1. CASE RiskRejects(c, d) /\ task'[t].cur = None
             /\ task'[t].pc \in {"idle", "flattening"}
    <2> DEFINE o == MoveTo(d, "REJECTED")
    <2>1. /\ o \in Order /\ o.state = "REJECTED" /\ o.filled = 0
          /\ o.qty > 0 /\ o.symbol \in Symbols
      BY DraftType
    <2>2. order' = [order EXCEPT ![c] = o] /\ orders' = orders \cup {c}
      BY <1>1 DEF RiskRejects
    <2> HIDE DEF o
    <2> QED
      BY <1>0, <1>1, <2>1, <2>2, PlacingStep DEF Waiting
  <1>2. CASE Sends(c, d) /\ task'[t].cur = c /\ task'[t].pc = "matching"
    <2> DEFINE o == MoveTo(MoveTo(d, "PRE_TRADE_OK"), "SUBMITTED")
    <2>1. o = MoveTo(d, "SUBMITTED")
      BY DEF MoveTo, Draft
    <2>2. /\ o \in Order /\ o.state = "SUBMITTED" /\ o.filled = 0
          /\ o.qty > 0 /\ o.symbol \in Symbols
      BY <2>1, DraftType
    <2>3. order' = [order EXCEPT ![c] = o] /\ UNCHANGED orders
      BY <1>2 DEF Sends
    <2> HIDE DEF o
    <2> QED
      BY <1>0, <1>2, <2>2, <2>3, PlacingStep DEF Waiting
  <1> QED
    BY <1>1, <1>2

LEMMA OpenKeeps == ASSUME IInv, NEW t \in Tasks, Open(t) PROVE IInv'
  <1>1. PICK c \in OpenIds, s \in Symbols, side \in Sides, q \in 1 .. MaxQty,
             tif \in Tifs:
          /\ IsNextId(c)
          /\ \/ /\ RiskRejects(c, Draft(s, side, q, "any", tif))
                /\ UNCHANGED task
             \/ /\ Sends(c, Draft(s, side, q, "any", tif))
                /\ Awaits(t, "matching", c)
    BY DEF Open
  <1>2. /\ c \in Orders /\ q \in Nat \ {0} /\ tif \in TimesInForce
        /\ "any" \in Effects
    BY ConstantsAssumption DEF ConstantsAssumption, Effects
  <1>3. /\ UNCHANGED <<heap, portfolio, venue, net, venueOrders, locked,
                       tripped, cancelled>>
        /\ task[t].pc = "idle"
    BY DEF Open, books
  <1>4. /\ TypeOK /\ task[t] \in Task /\ task[t].cur = None
        /\ task[t].call = "algo" => task[t].parent # None
    BY <1>3 DEF IInv, TypeOK, TaskInv, Waiting
  <1>5. /\ task' \in [Tasks -> Task]
        /\ \A u \in Tasks: u # t => task'[u] = task[u]
        /\ task'[t].call = task[t].call /\ task'[t].parent = task[t].parent
        /\ \/ UNCHANGED task
           \/ task'[t].cur = c /\ task'[t].pc = "matching"
    BY <1>1, <1>2, <1>4 DEF Awaits, TypeOK, Task
  <1>6. /\ order' \in [Orders -> Order] /\ orders' \subseteq Orders
        /\ OrderInv' /\ TaskInv' /\ InFlightIsOwned'
    <2>1. CASE /\ RiskRejects(c, Draft(s, side, q, "any", tif))
               /\ UNCHANGED task
      BY <1>1, <1>2, <1>3, <1>4, <1>5, <2>1, SubmitStep
    <2>2. CASE /\ Sends(c, Draft(s, side, q, "any", tif))
               /\ Awaits(t, "matching", c)
      <3>1. task'[t].cur = c /\ task'[t].pc = "matching"
        BY <1>4, <2>2 DEF Awaits, TypeOK
      <3> QED
        BY <1>1, <1>2, <1>3, <1>4, <1>5, <2>2, <3>1, SubmitStep
    <2> QED
      BY <1>1, <2>1, <2>2
  <1>7. TypeOK'
    BY <1>3, <1>4, <1>5, <1>6 DEF TypeOK
  <1> QED
    BY <1>6, <1>7 DEF IInv

\* The order that closes a position that is not flat.
LEMMA ClosingType ==
    ASSUME TypeOK, NEW s \in Symbols, NEW p \in Position, ~IsFlat(p)
    PROVE  \E side \in Sides, q \in Nat \ {0}:
             Closing(s, p) = Draft(s, side, q, "reduce", "GTC")
  <1>1. p.qty \in Nat \ {0}
    BY DEF IsFlat, Position
  <1>2. (IF p.side = "LONG" THEN "sell" ELSE "buy") \in Sides
    BY DEF Sides
  <1> QED
    BY <1>1, <1>2 DEF Closing

LEMMA ClosePositionKeeps ==
    ASSUME IInv, NEW t \in Tasks, ClosePosition(t) PROVE IInv'
  <1>1. /\ portfolio' = venue
        /\ UNCHANGED <<venueOrders, heap, venue, locked, tripped, net,
                       cancelled>>
        /\ task[t].pc = "idle"
    BY DEF ClosePosition, Synced
  <1>2. PICK s \in Symbols, c \in Orders:
          /\ portfolio'[s] # None /\ ~IsFlat(heap[portfolio'[s]])
          /\ IsNextId(c)
          /\ \/ /\ RiskRejects(c, Closing(s, heap[portfolio'[s]]))
                /\ UNCHANGED task
             \/ /\ Sends(c, Closing(s, heap[portfolio'[s]]))
                /\ Awaits(t, "matching", c)
    BY DEF ClosePosition
  <1>3. /\ TypeOK /\ task[t] \in Task /\ task[t].cur = None
        /\ task[t].call = "algo" => task[t].parent # None
    BY <1>1 DEF IInv, TypeOK, TaskInv, Waiting
  <1>4. heap[portfolio'[s]] \in Position
    BY <1>1, <1>2, <1>3 DEF TypeOK
  <1>5. PICK side \in Sides, q \in Nat \ {0}:
          Closing(s, heap[portfolio'[s]]) = Draft(s, side, q, "reduce", "GTC")
    BY <1>2, <1>3, <1>4, ClosingType
  <1>6. "reduce" \in Effects /\ "GTC" \in TimesInForce
    BY DEF Effects, TimesInForce
  <1>7. /\ task' \in [Tasks -> Task]
        /\ \A u \in Tasks: u # t => task'[u] = task[u]
        /\ task'[t].call = task[t].call /\ task'[t].parent = task[t].parent
    BY <1>2, <1>3 DEF Awaits, TypeOK, Task
  <1>8. /\ order' \in [Orders -> Order] /\ orders' \subseteq Orders
        /\ OrderInv' /\ TaskInv' /\ InFlightIsOwned'
    <2>1. CASE /\ RiskRejects(c, Closing(s, heap[portfolio'[s]]))
               /\ UNCHANGED task
      <3>1. RiskRejects(c, Draft(s, side, q, "reduce", "GTC"))
        BY <1>5, <2>1
      <3> QED
        BY <1>1, <1>2, <1>3, <1>6, <1>7, <2>1, <3>1, SubmitStep
    <2>2. CASE /\ Sends(c, Closing(s, heap[portfolio'[s]]))
               /\ Awaits(t, "matching", c)
      <3>1. Sends(c, Draft(s, side, q, "reduce", "GTC"))
        BY <1>5, <2>2
      <3>2. task'[t].cur = c /\ task'[t].pc = "matching"
        BY <1>3, <2>2 DEF Awaits, TypeOK
      <3> QED
        BY <1>1, <1>2, <1>3, <1>6, <1>7, <3>1, <3>2, SubmitStep
    <2> QED
      BY <1>2, <2>1, <2>2
  <1>9. TypeOK'
    BY <1>1, <1>3, <1>7, <1>8 DEF TypeOK
  <1> QED
    BY <1>8, <1>9 DEF IInv

LEMMA FlattenNextKeeps ==
    ASSUME IInv, NEW t \in Tasks, FlattenNext(t) PROVE IInv'
  <1>1. /\ UNCHANGED <<heap, portfolio, venue, net, venueOrders, locked,
                       tripped, cancelled>>
        /\ task[t].pc = "flattening"
    BY DEF FlattenNext, books
  <1>2. PICK e \in task[t].todo, c \in Orders:
          /\ ~IsFlat(heap[e[2]]) /\ IsNextId(c)
          /\ \/ /\ RiskRejects(c, Closing(e[1], heap[e[2]]))
                /\ task' = [task EXCEPT ![t].todo = task[t].todo \ {e}]
             \/ /\ Sends(c, Closing(e[1], heap[e[2]]))
                /\ task' = [task EXCEPT ![t].pc = "matching", ![t].cur = c,
                                        ![t].todo = task[t].todo \ {e}]
    BY DEF FlattenNext
  <1>3. /\ TypeOK /\ task[t] \in Task /\ task[t].cur = None
        /\ task[t].call = "algo" => task[t].parent # None
    BY <1>1 DEF IInv, TypeOK, TaskInv, Waiting
  <1>4. /\ e[1] \in Symbols /\ e[2] \in Objects
        /\ task[t].todo \ {e} \in SUBSET (Symbols \X Objects)
    BY <1>3 DEF Task
  <1>5. PICK side \in Sides, q \in Nat \ {0}:
          Closing(e[1], heap[e[2]]) = Draft(e[1], side, q, "reduce", "GTC")
    <2>1. heap[e[2]] \in Position
      BY <1>3, <1>4 DEF TypeOK
    <2> QED
      BY <1>2, <1>3, <1>4, <2>1, ClosingType
  <1>6. "reduce" \in Effects /\ "GTC" \in TimesInForce
    BY DEF Effects, TimesInForce
  <1>7. /\ task' \in [Tasks -> Task]
        /\ \A u \in Tasks: u # t => task'[u] = task[u]
        /\ task'[t].call = task[t].call /\ task'[t].parent = task[t].parent
    BY <1>2, <1>3, <1>4 DEF TypeOK, Task
  <1>8. /\ order' \in [Orders -> Order] /\ orders' \subseteq Orders
        /\ OrderInv' /\ TaskInv' /\ InFlightIsOwned'
    <2>1. CASE /\ RiskRejects(c, Closing(e[1], heap[e[2]]))
               /\ task' = [task EXCEPT ![t].todo = task[t].todo \ {e}]
      <3>1. RiskRejects(c, Draft(e[1], side, q, "reduce", "GTC"))
        BY <1>5, <2>1
      <3>2. task'[t].cur = None /\ task'[t].pc = "flattening"
        BY <1>1, <1>3, <2>1 DEF TypeOK, Task
      <3> QED
        BY <1>1, <1>2, <1>3, <1>4, <1>6, <1>7, <3>1, <3>2, SubmitStep
    <2>2. CASE /\ Sends(c, Closing(e[1], heap[e[2]]))
               /\ task' = [task EXCEPT ![t].pc = "matching", ![t].cur = c,
                                       ![t].todo = task[t].todo \ {e}]
      <3>1. Sends(c, Draft(e[1], side, q, "reduce", "GTC"))
        BY <1>5, <2>2
      <3>2. task'[t].cur = c /\ task'[t].pc = "matching"
        BY <1>3, <2>2 DEF TypeOK, Task
      <3> QED
        BY <1>1, <1>2, <1>3, <1>4, <1>6, <1>7, <3>1, <3>2, SubmitStep
    <2> QED
      BY <1>2, <2>1, <2>2
  <1>9. TypeOK'
    BY <1>1, <1>3, <1>7, <1>8 DEF TypeOK
  <1> QED
    BY <1>8, <1>9 DEF IInv

\* The steps that move no order: sync, the start and the end of a stop, a
\* position that is flat, the start and the end of an algorithm, and the
\* cancellation of a waiting coroutine.
LEMMA QuietKeeps ==
    ASSUME IInv, NEW t \in Tasks,
           \/ Sync(t) \/ EmergencyStop(t) \/ SkipFlat(t) \/ Trigger(t)
           \/ Abandon(t) \/ SubmitAlgo(t) \/ AlgoEnds(t)
    PROVE  IInv'
  <1>1. TypeOK /\ TaskInv /\ task[t] \in Task
    BY DEF IInv, TypeOK
  <1>2. /\ Idle \in Task /\ Idle.pc = "idle" /\ Idle.cur = None
        /\ Idle.call = "none"
    BY DEF Idle, Task
  <1>3. ASSUME Ends(t)
        PROVE  /\ task' \in [Tasks -> Task] /\ task'[t] = Idle
               /\ \A u \in Tasks: u # t => task'[u] = task[u]
    BY <1>1, <1>2, <1>3 DEF Ends, TypeOK
  <1>4. CASE Sync(t)
    <2>1. /\ portfolio' = venue /\ task[t].pc = "idle"
          /\ UNCHANGED <<order, orders, venueOrders, heap, venue, locked,
                         tripped, task, net, cancelled>>
      BY <1>4 DEF Sync, Synced
    <2>2. OrderInv' /\ TaskInv' /\ InFlightIsOwned'
      BY <1>1, <2>1, QuietStep DEF TaskInv, Waiting
    <2>3. TypeOK'
      BY <1>1, <2>1 DEF TypeOK
    <2> QED
      BY <2>2, <2>3 DEF IInv
  <1>5. CASE EmergencyStop(t)
    <2> DEFINE todo == {<<s, portfolio'[s]>> :
                          s \in {r \in Symbols : portfolio'[r] # None}}
    <2>1. /\ portfolio' = venue
          /\ task' = [task EXCEPT ![t] =
                        [pc |-> "flattening", call |-> "stop", cur |-> None,
                         todo |-> todo, parent |-> None]]
          /\ UNCHANGED <<order, orders, venueOrders, heap, venue, locked,
                         tripped, net, cancelled>>
      BY <1>5 DEF EmergencyStop, Synced
    <2>2. todo \in SUBSET (Symbols \X Objects)
      BY <1>1, <2>1 DEF TypeOK
    <2> HIDE DEF todo
    <2>3. /\ task' \in [Tasks -> Task]
          /\ task'[t].cur = None /\ task'[t].pc = "flattening"
          /\ task'[t].call = "stop"
          /\ \A u \in Tasks: u # t => task'[u] = task[u]
      BY <1>1, <2>1, <2>2 DEF TypeOK, Task
    <2>4. OrderInv' /\ TaskInv' /\ InFlightIsOwned'
      BY <2>1, <2>3, QuietStep DEF Waiting
    <2>5. TypeOK'
      BY <1>1, <2>1, <2>3 DEF TypeOK
    <2> QED
      BY <2>4, <2>5 DEF IInv
  <1>6. CASE SkipFlat(t)
    <2>1. PICK e \in task[t].todo:
            task' = [task EXCEPT ![t].todo = task[t].todo \ {e}]
      BY <1>6 DEF SkipFlat
    <2>2. /\ UNCHANGED <<order, orders, venueOrders, heap, portfolio, venue,
                         net, locked, tripped, cancelled>>
          /\ task[t].pc = "flattening"
      BY <1>6 DEF SkipFlat, books
    <2>3. task[t].todo \ {e} \in SUBSET (Symbols \X Objects)
      BY <1>1 DEF Task
    <2>4. /\ task' \in [Tasks -> Task]
          /\ task'[t].cur = None /\ task'[t].pc = "flattening"
          /\ task'[t].call = task[t].call /\ task'[t].parent = task[t].parent
          /\ \A u \in Tasks: u # t => task'[u] = task[u]
      BY <1>1, <2>1, <2>2, <2>3 DEF TypeOK, Task, TaskInv, Waiting
    <2>5. OrderInv' /\ TaskInv' /\ InFlightIsOwned'
      BY <1>1, <2>2, <2>4, QuietStep DEF TaskInv, Waiting
    <2>6. TypeOK'
      BY <1>1, <2>2, <2>4 DEF TypeOK
    <2> QED
      BY <2>5, <2>6 DEF IInv
  <1>7. CASE Trigger(t)
    <2>1. /\ UNCHANGED <<order, orders, venueOrders, heap, portfolio, venue,
                         net, tripped, cancelled>>
          /\ locked' = TRUE /\ Ends(t)
      BY <1>7 DEF Trigger, books
    <2>2. OrderInv' /\ TaskInv' /\ InFlightIsOwned'
      BY <1>2, <1>3, <2>1, QuietStep DEF Waiting
    <2>3. TypeOK'
      BY <1>1, <1>3, <2>1 DEF TypeOK
    <2> QED
      BY <2>2, <2>3 DEF IInv
  <1>8. CASE Abandon(t) \/ AlgoEnds(t)
    <2>1. /\ UNCHANGED <<order, orders, venueOrders, heap, portfolio, venue,
                         net, locked, tripped, cancelled>>
          /\ Ends(t)
      BY <1>8 DEF Abandon, AlgoEnds, books
    <2>2. OrderInv' /\ TaskInv' /\ InFlightIsOwned'
      BY <1>2, <1>3, <2>1, QuietStep DEF Waiting
    <2>3. TypeOK'
      BY <1>1, <1>3, <2>1 DEF TypeOK
    <2> QED
      BY <2>2, <2>3 DEF IInv
  <1>9. CASE SubmitAlgo(t)
    <2>1. PICK s \in Symbols, side \in Sides:
            task' = [task EXCEPT ![t].pc = "slicing", ![t].call = "algo",
                                 ![t].parent = [symbol |-> s, side |-> side]]
      BY <1>9 DEF SubmitAlgo
    <2>2. /\ UNCHANGED <<order, orders, venueOrders, heap, portfolio, venue,
                         net, locked, tripped, cancelled>>
          /\ task[t].pc = "idle"
      BY <1>9 DEF SubmitAlgo, books
    <2> DEFINE parent == [symbol |-> s, side |-> side]
    <2>3. parent \in [symbol : Symbols, side : Sides]
      OBVIOUS
    <2>4. parent # None
      BY ConstantsAssumption DEF ConstantsAssumption
    <2>5. /\ task' \in [Tasks -> Task]
          /\ task'[t].cur = None /\ task'[t].pc = "slicing"
          /\ task'[t].call = "algo" /\ task'[t].parent = parent
          /\ \A u \in Tasks: u # t => task'[u] = task[u]
      BY <1>1, <2>1, <2>2, <2>3 DEF TypeOK, Task, TaskInv, Waiting
    <2>6. OrderInv' /\ TaskInv' /\ InFlightIsOwned'
      BY <2>2, <2>4, <2>5, QuietStep DEF Waiting
    <2>7. TypeOK'
      BY <1>1, <2>2, <2>5 DEF TypeOK
    <2> QED
      BY <2>6, <2>7 DEF IInv
  <1> QED
    BY <1>4, <1>5, <1>6, <1>7, <1>8, <1>9

\* What is known of the order a coroutine waits for.
LEMMA WaitedFor ==
    ASSUME IInv, NEW t \in Tasks, task[t].pc \in Waiting
    PROVE  LET c == task[t].cur
           IN  /\ c \in Orders /\ order[c] \in Order /\ order[c].filled = 0
               /\ order[c].qty > 0 /\ order[c].symbol \in Symbols
               /\ order[c].state = IF task[t].pc = "matching"
                                   THEN "SUBMITTED" ELSE "SENT"
               /\ \A u \in Tasks: u # t => task[u].cur # c
               /\ c \notin venueOrders
  <1> DEFINE c == task[t].cur
  <1>1. /\ c \in Orders /\ order[c].filled = 0
        /\ order[c].state = IF task[t].pc = "matching"
                            THEN "SUBMITTED" ELSE "SENT"
        /\ \A u \in Tasks: u # t => task[u].cur # c
    BY DEF IInv, InFlightIsOwned, Waiting
  <1>2. order[c] \in Order
    BY <1>1 DEF IInv, TypeOK
  <1>3. order[c].qty > 0 /\ order[c].symbol \in Symbols /\ c \notin venueOrders
    BY <1>1 DEF IInv, OrderInv
  <1> QED
    BY <1>1, <1>2, <1>3

\* The venue answers coroutine t: its order moves on, the coroutine returns.
LEMMA AnswerStep ==
    ASSUME IInv, NEW t \in Tasks, task[t].pc \in Waiting, NEW o \in Order,
           o.state \notin {"UNUSED", "SENT", "SUBMITTED"},
           o.filled <= o.qty, o.qty > 0, o.symbol \in Symbols,
           order' = [order EXCEPT ![task[t].cur] = o],
           venueOrders' \in {venueOrders, venueOrders \cup {task[t].cur}},
           Returns(t)
    PROVE  /\ order' \in [Orders -> Order] /\ venueOrders' \subseteq Orders
           /\ task' \in [Tasks -> Task]
           /\ OrderInv' /\ TaskInv' /\ InFlightIsOwned'
  <1> DEFINE c == task[t].cur
  <1>1. /\ c \in Orders
        /\ \A u \in Tasks: u # t => task[u].cur # c
    BY WaitedFor
  <1>2. /\ order \in [Orders -> Order] /\ venueOrders \subseteq Orders
    BY DEF IInv, TypeOK
  <1>3. /\ task' \in [Tasks -> Task]
        /\ task'[t].cur = None /\ task'[t].pc \notin Waiting
        /\ \A u \in Tasks: u # t => task'[u] = task[u]
        /\ task'[t].pc \in {"slicing", "routing"} => task'[t].call = "algo"
        /\ task'[t].call = "algo" => task'[t].parent # None
    BY ReturnsType
  <1>4. \A d \in Orders: d # c => order'[d] = order[d]
    BY <1>1, <1>2
  <1>5. /\ InFlightIsOwned'
        /\ \A u \in Tasks: task'[u].cur # None => task'[u].pc \in Waiting
    BY <1>1, <1>3, <1>4, Ownership
  <1>6. TaskInv'
    BY <1>3, <1>5, TaskInvKept
  <1>7. OrderInv'
    BY <1>1, <1>2, <1>4 DEF IInv, OrderInv
  <1>8. order' \in [Orders -> Order] /\ venueOrders' \subseteq Orders
    BY <1>1, <1>2
  <1> QED
    BY <1>3, <1>5, <1>6, <1>7, <1>8

LEMMA MatchKeeps ==
    ASSUME IInv, NEW t \in Tasks, MatchNoPrice(t) \/ MatchRests(t)
    PROVE  IInv'
  <1> DEFINE c == task[t].cur
  <1>1. PICK st \in {"REJECTED", "ACKNOWLEDGED"}:
          /\ order' = [order EXCEPT ![c] = MoveTo(order[c], st)]
          /\ venueOrders' = venueOrders \cup {c}
          /\ Registered(t, c) /\ Returns(t) /\ task[t].pc = "matching"
          /\ UNCHANGED <<books, locked, tripped, cancelled>>
    BY DEF MatchNoPrice, MatchRests
  <1> DEFINE o == MoveTo(order[c], st)
  <1>2. task[t].pc \in Waiting
    BY <1>1 DEF Waiting
  <1>3. /\ c \in Orders /\ order[c] \in Order /\ order[c].filled = 0
        /\ order[c].qty > 0 /\ order[c].symbol \in Symbols
    BY <1>2, WaitedFor
  <1>4. /\ o \in Order /\ o.state = st /\ o.filled <= o.qty /\ o.qty > 0
        /\ o.symbol \in Symbols
    BY <1>3 DEF MoveTo, Order, OrderStates, Terminal
  <1> HIDE DEF o
  <1>5. /\ order' \in [Orders -> Order] /\ venueOrders' \subseteq Orders
        /\ task' \in [Tasks -> Task]
        /\ OrderInv' /\ TaskInv' /\ InFlightIsOwned'
    <2>1. order' = [order EXCEPT ![c] = o]
      BY <1>1 DEF o
    <2> QED
      BY <1>1, <1>2, <1>4, <2>1, AnswerStep
  <1>6. TypeOK
    BY DEF IInv
  <1>7. TypeOK'
    BY <1>1, <1>3, <1>5, <1>6 DEF TypeOK, Registered, books
  <1> QED
    BY <1>5, <1>7 DEF IInv

\* An acknowledged order takes a fill of at most its quantity.
LEMMA FilledOrder ==
    ASSUME NEW r \in Order, r.filled = 0, r.qty > 0,
           NEW q \in FillQuantities(r)
    PROVE  LET o == ApplyFill(MoveTo(r, "ACKNOWLEDGED"), q)
           IN  /\ q \in Nat \ {0} /\ q <= r.qty
               /\ o \in Order /\ o.filled = q
               /\ o.qty = r.qty /\ o.symbol = r.symbol
               /\ o.state = IF q = r.qty THEN "FILLED" ELSE "PARTIAL_FILLED"
  <1>1. q \in Nat \ {0} /\ q <= r.qty
    BY DEF FillQuantities, Order
  <1> DEFINE more == [MoveTo(r, "ACKNOWLEDGED") EXCEPT !.filled = @ + q]
             o == ApplyFill(MoveTo(r, "ACKNOWLEDGED"), q)
  <1>2. /\ more.filled = q /\ more.qty = r.qty /\ more.symbol = r.symbol
        /\ more \in Order
    <2> DEFINE base == MoveTo(r, "ACKNOWLEDGED")
    <2>1. /\ base \in Order /\ base.filled = 0 /\ base.qty = r.qty
          /\ base.symbol = r.symbol
      BY DEF MoveTo, Order, OrderStates, Terminal
    <2>2. base.filled + q = q
      BY <1>1, <2>1
    <2> HIDE DEF base
    <2>3. [base EXCEPT !.filled = @ + q] = [base EXCEPT !.filled = q]
      BY <2>2
    <2>4. q \in Nat
      BY <1>1
    <2>5. /\ more = [base EXCEPT !.filled = q]
      BY <2>3 DEF base
    <2> HIDE DEF more
    <2> QED
      BY <2>1, <2>4, <2>5 DEF Order
  <1>3. o = MoveTo(more, IF Remaining(more) = 0 THEN "FILLED"
                                                ELSE "PARTIAL_FILLED")
    BY <1>1 DEF ApplyFill
  <1>4. (Remaining(more) = 0) <=> (q = r.qty)
    BY <1>1, <1>2 DEF Remaining, Order
  <1> HIDE DEF more, o
  <1>5. o.state = IF q = r.qty THEN "FILLED" ELSE "PARTIAL_FILLED"
    BY <1>2, <1>3, <1>4 DEF MoveTo, Order
  <1>6. /\ o \in Order /\ o.filled = q /\ o.qty = r.qty
        /\ o.symbol = r.symbol
    BY <1>2, <1>3 DEF MoveTo, Order, OrderStates, Terminal
  <1> QED
    BY <1>1, <1>5, <1>6 DEF o

LEMMA MatchFillsKeeps ==
    ASSUME IInv, NEW t \in Tasks, MatchFills(t)
    PROVE  IInv'
  <1> DEFINE c == task[t].cur
  <1>1. PICK q \in FillQuantities(order[c]), x \in Objects, y \in Objects:
          LET o == ApplyFill(MoveTo(order[c], "ACKNOWLEDGED"), q)
          IN  /\ order' = [order EXCEPT ![c] = o]
              /\ venueOrders' = venueOrders \cup {c}
              /\ Registered(t, c)
              /\ IF task[t].call # "algo" /\ o.state \in ProcessedStates
                 THEN BookBoth(c, q, x, y) /\ tripped' \in {tripped, TRUE}
                 ELSE BookAtVenue(c, q, x) /\ UNCHANGED tripped
    BY DEF MatchFills
  <1>2. /\ Returns(t) /\ UNCHANGED <<locked, cancelled>>
        /\ task[t].pc \in Waiting
    BY DEF MatchFills, Waiting
  <1>3. /\ c \in Orders /\ order[c] \in Order /\ order[c].filled = 0
        /\ order[c].qty > 0 /\ order[c].symbol \in Symbols
    BY <1>2, WaitedFor
  <1>4. TypeOK
    BY DEF IInv
  <1> DEFINE o == ApplyFill(MoveTo(order[c], "ACKNOWLEDGED"), q)
             s == order[c].symbol
             side == order[c].side
  <1>5. /\ q \in Nat \ {0} /\ o \in Order /\ o.filled <= o.qty /\ o.qty > 0
        /\ o.symbol \in Symbols /\ o.state \in {"FILLED", "PARTIAL_FILLED"}
    BY <1>3, FilledOrder
  <1>6. side \in Sides
    BY <1>3 DEF Order
  <1>7. /\ order' \in [Orders -> Order] /\ venueOrders' \subseteq Orders
        /\ task' \in [Tasks -> Task]
        /\ OrderInv' /\ TaskInv' /\ InFlightIsOwned'
    <2> HIDE DEF o
    <2>1. order' = [order EXCEPT ![c] = o]
      BY <1>1 DEF o
    <2> QED
      BY <1>1, <1>2, <1>5, <2>1, AnswerStep
  <1>8. /\ heap' \in [Objects -> Position]
        /\ portfolio' \in [Symbols -> Objects \cup {None}]
        /\ venue' \in [Symbols -> Objects \cup {None}]
        /\ net' \in [Symbols -> Int]
    <2> DEFINE h == Filled(heap, venue, s, x, side, q)
    <2>1. /\ heap \in [Objects -> Position]
          /\ venue \in [Symbols -> Objects \cup {None}]
          /\ portfolio \in [Symbols -> Objects \cup {None}]
          /\ net \in [Symbols -> Int]
      BY <1>4 DEF TypeOK
    <2>2. /\ h \in [Objects -> Position]
          /\ net[s] + SignedQty(side, q) \in Int
      BY <1>3, <1>4, <1>5, <1>6, <2>1, BooksType
    <2> HIDE DEF h
    <2>3. /\ Booked(h, venue, s, x) \in [Symbols -> Objects \cup {None}]
          /\ Filled(h, portfolio, s, y, side, q) \in [Objects -> Position]
      BY <1>3, <1>4, <1>5, <1>6, <2>1, <2>2, BooksType
    <2>4. CASE BookBoth(c, q, x, y)
      <3>1. /\ heap' = Filled(h, portfolio, s, y, side, q)
            /\ venue' = Booked(h, venue, s, x)
            /\ portfolio' = Booked(heap', portfolio, s, y)
            /\ net' = [net EXCEPT ![s] = @ + SignedQty(side, q)]
        BY <2>4 DEF BookBoth, h
      <3>2. portfolio' \in [Symbols -> Objects \cup {None}]
        BY <1>3, <1>4, <1>5, <1>6, <2>1, <2>3, <3>1, BooksType
      <3> QED
        BY <1>3, <2>1, <2>2, <2>3, <3>1, <3>2
    <2>5. CASE BookAtVenue(c, q, x)
      <3>1. /\ heap' = h /\ venue' = Booked(h, venue, s, x)
            /\ net' = [net EXCEPT ![s] = @ + SignedQty(side, q)]
            /\ portfolio' = portfolio
        BY <2>5 DEF BookAtVenue, h
      <3> QED
        BY <1>3, <2>1, <2>2, <2>3, <3>1
    <2> QED
      BY <1>1, <2>4, <2>5
  <1>9. tripped' \in BOOLEAN /\ locked' \in BOOLEAN
    BY <1>1, <1>2, <1>4 DEF TypeOK
  <1>10. TypeOK'
    BY <1>1, <1>2, <1>3, <1>4, <1>7, <1>8, <1>9 DEF TypeOK, Registered
  <1> QED
    BY <1>7, <1>10 DEF IInv

\* What the venue makes of the order it is asked to cancel.
LEMMA CancelledOrder ==
    ASSUME NEW r \in Order
    PROVE  LET asked == IF IsDone(r) THEN r ELSE MoveTo(r, "CANCEL_REQUESTED")
               o == CancelledAtVenue(asked)
           IN  /\ o = IF IsDone(r) THEN r ELSE MoveTo(r, "CANCELLED")
               /\ o \in Order /\ o.qty = r.qty /\ o.filled = r.filled
               /\ o.symbol = r.symbol
               /\ ~IsDone(r) => o.state = "CANCELLED"
               /\ CancelReply(asked, o) \in {"failed", "cancelled", "raised"}
  <1> DEFINE asked == IF IsDone(r) THEN r ELSE MoveTo(r, "CANCEL_REQUESTED")
             o == CancelledAtVenue(asked)
  <1>1. CancelReply(asked, o) \in {"failed", "cancelled", "raised"}
    BY DEF CancelReply
  <1>2. CASE IsDone(r)
    <2>1. asked = r /\ o = r
      BY <1>2 DEF CancelledAtVenue
    <2> HIDE DEF asked, o
    <2> QED
      BY <1>1, <1>2, <2>1 DEF asked, o
  <1>3. CASE ~IsDone(r)
    <2>1. asked = MoveTo(r, "CANCEL_REQUESTED") /\ asked \in Order
      BY <1>3 DEF MoveTo, Order, OrderStates, Terminal
    <2>2. asked.state = "CANCEL_REQUESTED"
      BY <2>1 DEF MoveTo, Order
    <2>3. ~IsDone(asked)
      BY <2>2 DEF IsDone, Terminal
    <2>4. o = MoveTo(asked, "CANCELLED")
      BY <2>3 DEF CancelledAtVenue
    <2>5. o = MoveTo(r, "CANCELLED")
      BY <2>1, <2>4 DEF MoveTo, Order
    <2>6. /\ MoveTo(r, "CANCELLED") \in Order
          /\ MoveTo(r, "CANCELLED").qty = r.qty
          /\ MoveTo(r, "CANCELLED").filled = r.filled
          /\ MoveTo(r, "CANCELLED").symbol = r.symbol
          /\ MoveTo(r, "CANCELLED").state = "CANCELLED"
      BY DEF MoveTo, Order, OrderStates, Terminal
    <2> HIDE DEF asked, o
    <2> QED
      BY <1>1, <1>3, <2>5, <2>6 DEF asked, o
  <1> QED
    BY <1>2, <1>3

LEMMA CancelOrderKeeps ==
    ASSUME IInv, NEW t \in Tasks, CancelOrder(t)
    PROVE  IInv'
  <1>1. PICK c \in orders \cap venueOrders:
          LET asked == IF IsDone(order[c]) THEN order[c]
                       ELSE MoveTo(order[c], "CANCEL_REQUESTED")
          IN  /\ order' = [order EXCEPT ![c] = CancelledAtVenue(asked)]
              /\ cancelled' = [cancelled EXCEPT ![c] =
                                 CancelReply(asked, order'[c])]
    BY DEF CancelOrder
  <1>2. /\ UNCHANGED <<orders, venueOrders, heap, portfolio, venue, net,
                       locked, tripped, task>>
        /\ task[t].pc = "idle"
    BY DEF CancelOrder, books
  <1>3. TypeOK /\ c \in Orders /\ order[c] \in Order
    BY DEF IInv, TypeOK
  <1> DEFINE asked == IF IsDone(order[c]) THEN order[c]
                      ELSE MoveTo(order[c], "CANCEL_REQUESTED")
             o == CancelledAtVenue(asked)
  <1>4. /\ o = IF IsDone(order[c]) THEN order[c]
                                   ELSE MoveTo(order[c], "CANCELLED")
        /\ o \in Order /\ o.qty = order[c].qty /\ o.filled = order[c].filled
        /\ o.symbol = order[c].symbol
        /\ ~IsDone(order[c]) => o.state = "CANCELLED"
        /\ CancelReply(asked, o) \in {"failed", "cancelled", "raised"}
    BY <1>3, CancelledOrder
  <1>5. /\ order' = [order EXCEPT ![c] = o]
        /\ cancelled' = [cancelled EXCEPT ![c] = CancelReply(asked, order'[c])]
    BY <1>1
  <1> HIDE DEF o, asked
  <1>6. /\ order' \in [Orders -> Order] /\ order'[c] = o
        /\ \A d \in Orders: d # c => order'[d] = order[d]
        /\ cancelled' \in [Orders -> {"none", "failed", "cancelled", "raised"}]
    BY <1>3, <1>4, <1>5 DEF TypeOK
  <1>7. /\ task[t].cur = None /\ task[t].pc \notin Waiting
        /\ \A u \in Tasks: task[u].pc \in Waiting => task[u].cur # c
    BY <1>2, WaitedFor DEF IInv, TaskInv, Waiting
  <1>8. InFlightIsOwned'
    BY <1>2, <1>6, <1>7, Ownership
  <1>9. OrderInv'
    <2>1. o.state = "UNUSED" => o = order[c]
      BY <1>4
    <2>2. o.state \in {"UNUSED", "SENT", "SUBMITTED"} => o = order[c]
      BY <1>4
    <2>3. \A d \in Orders:
            /\ order[d].state = "UNUSED" => order[d] = Unused
            /\ order[d].state # "UNUSED" => /\ order[d].qty > 0
                                            /\ order[d].symbol \in Symbols
            /\ order[d].filled <= order[d].qty
      BY DEF IInv, OrderInv
    <2>4. \A d \in venueOrders:
            order[d].state \notin {"UNUSED", "SENT", "SUBMITTED"}
      BY DEF IInv, OrderInv
    <2>5. order[c].state # "UNUSED"
      BY <2>4
    <2>6. \A d \in Orders:
            /\ order'[d].state = "UNUSED" => order'[d] = Unused
            /\ order'[d].state # "UNUSED" => /\ order'[d].qty > 0
                                             /\ order'[d].symbol \in Symbols
            /\ order'[d].filled <= order'[d].qty
      BY <1>4, <1>6, <2>1, <2>3, <2>5
    <2>7. \A d \in venueOrders:
            order'[d].state \notin {"UNUSED", "SENT", "SUBMITTED"}
      BY <1>3, <1>6, <2>2, <2>4 DEF TypeOK
    <2> QED
      BY <1>2, <2>6, <2>7 DEF OrderInv
  <1>10. TaskInv' /\ TypeOK'
    BY <1>2, <1>3, <1>6 DEF IInv, TaskInv, TypeOK
  <1> QED
    BY <1>8, <1>9, <1>10 DEF IInv

LEMMA NextSliceKeeps ==
    ASSUME IInv, NEW t \in Tasks, NextSlice(t)
    PROVE  IInv'
  <1>1. PICK c \in OpenIds, q \in 1 .. MaxQty, tif \in Tifs:
          /\ IsNextId(c)
          /\ order' = [order EXCEPT ![c] =
                         MoveTo(Draft(task[t].parent.symbol,
                                      task[t].parent.side, q, "any", tif),
                                "SENT")]
          /\ Awaits(t, "routing", c)
    BY DEF NextSlice
  <1>2. /\ UNCHANGED <<orders, venueOrders, heap, portfolio, venue, net,
                       locked, tripped, cancelled>>
        /\ task[t].pc = "slicing"
    BY DEF NextSlice, books
  <1>3. TypeOK /\ TaskInv /\ task[t] \in Task
    BY DEF IInv, TypeOK
  <1>4. c \in Orders /\ q \in Nat \ {0} /\ tif \in TimesInForce
    BY ConstantsAssumption DEF ConstantsAssumption
  <1>5. /\ task[t].call = "algo" /\ task[t].parent # None
    BY <1>2, <1>3 DEF TaskInv
  <1>6. task[t].parent.symbol \in Symbols /\ task[t].parent.side \in Sides
    BY <1>3, <1>5 DEF Task
  <1> DEFINE o == MoveTo(Draft(task[t].parent.symbol, task[t].parent.side,
                               q, "any", tif), "SENT")
  <1>7. /\ o \in Order /\ o.state = "SENT" /\ o.filled = 0
        /\ o.qty > 0 /\ o.symbol \in Symbols
    BY <1>4, <1>6, DraftType DEF Effects
  <1>8. order' = [order EXCEPT ![c] = o]
    BY <1>1
  <1> HIDE DEF o
  <1>9. /\ task' \in [Tasks -> Task]
        /\ task'[t].cur = c /\ task'[t].pc = "routing"
        /\ task'[t].call = task[t].call /\ task'[t].parent = task[t].parent
        /\ \A u \in Tasks: u # t => task'[u] = task[u]
    BY <1>1, <1>3, <1>4 DEF Awaits, TypeOK, Task
  <1>10. /\ order' \in [Orders -> Order]
         /\ OrderInv' /\ TaskInv' /\ InFlightIsOwned'
    <2>1. IsNextId(c) /\ venueOrders' = venueOrders
      BY <1>1, <1>2
    <2>2. /\ o.state = IF task'[t].pc = "matching" THEN "SUBMITTED" ELSE "SENT"
          /\ task'[t].pc \in Waiting /\ task'[t].cur = c
      BY <1>7, <1>9 DEF Waiting
    <2>3. task'[t].call = "algo" /\ task'[t].parent # None
      BY <1>5, <1>9
    <2> QED
      BY <1>4, <1>7, <1>8, <1>9, <2>1, <2>2, <2>3, PlacingStep
  <1>11. TypeOK'
    BY <1>2, <1>3, <1>9, <1>10 DEF TypeOK
  <1> QED
    BY <1>10, <1>11 DEF IInv

LEMMA RouteSliceKeeps ==
    ASSUME IInv, NEW t \in Tasks, RouteSlice(t)
    PROVE  IInv'
  <1> DEFINE c == task[t].cur
  <1>1. /\ UNCHANGED <<orders, venueOrders, heap, portfolio, venue, net,
                       locked, tripped, cancelled>>
        /\ task[t].pc = "routing" /\ task[t].pc \in Waiting
        /\ \/ /\ order' = [order EXCEPT ![c] = MoveTo(order[c], "SUBMITTED")]
              /\ Awaits(t, "matching", c)
           \/ /\ order' = [order EXCEPT ![c] = MoveTo(order[c], "REJECTED")]
              /\ Returns(t)
           \/ UNCHANGED order /\ Returns(t)
    BY DEF RouteSlice, books, Waiting
  <1>2. TypeOK /\ OrderInv /\ TaskInv /\ task[t] \in Task
    BY DEF IInv, TypeOK
  <1>3. /\ c \in Orders /\ order[c] \in Order /\ order[c].filled = 0
        /\ order[c].qty > 0 /\ order[c].symbol \in Symbols
        /\ \A u \in Tasks: u # t => task[u].cur # c
        /\ c \notin venueOrders
    BY <1>1, WaitedFor
  <1>4. ASSUME NEW st \in {"SUBMITTED", "REJECTED"}
        PROVE  LET o == MoveTo(order[c], st)
               IN  /\ o \in Order /\ o.state = st /\ o.filled = 0
                   /\ o.filled <= o.qty /\ o.qty > 0 /\ o.symbol \in Symbols
    BY <1>3 DEF MoveTo, Order, OrderStates, Terminal
  <1>5. /\ order' \in [Orders -> Order] /\ task' \in [Tasks -> Task]
        /\ OrderInv' /\ TaskInv' /\ InFlightIsOwned'
    <2>1. CASE /\ order' = [order EXCEPT ![c] = MoveTo(order[c], "SUBMITTED")]
               /\ Awaits(t, "matching", c)
      <3> DEFINE o == MoveTo(order[c], "SUBMITTED")
      <3>1. /\ o \in Order /\ o.state = "SUBMITTED" /\ o.filled = 0
            /\ o.filled <= o.qty /\ o.qty > 0 /\ o.symbol \in Symbols
        BY <1>4
      <3>2. order' = [order EXCEPT ![c] = o]
        BY <2>1
      <3> HIDE DEF o
      <3>3. /\ order' \in [Orders -> Order] /\ order'[c] = o
            /\ \A d \in Orders: d # c => order'[d] = order[d]
        BY <1>2, <1>3, <3>1, <3>2 DEF TypeOK
      <3>4. /\ task' \in [Tasks -> Task]
            /\ task'[t].pc = "matching" /\ task'[t].cur = c
            /\ task'[t].call = task[t].call
            /\ task'[t].parent = task[t].parent
            /\ \A u \in Tasks: u # t => task'[u] = task[u]
        BY <1>2, <1>3, <2>1 DEF Awaits, TypeOK, Task
      <3>5. /\ InFlightIsOwned'
            /\ \A u \in Tasks: task'[u].cur # None => task'[u].pc \in Waiting
        <4>1. task'[t].pc \in Waiting
          BY <3>4 DEF Waiting
        <4>2. \A d \in Orders: d # c => order'[d] = order[d]
          BY <3>3
        <4> QED
          BY <1>3, <3>1, <3>3, <3>4, <4>1, <4>2, Ownership
      <3>6. TaskInv'
        <4>1. task'[t].call = "algo" /\ task'[t].parent # None
          BY <1>1, <1>2, <3>4 DEF TaskInv
        <4> QED
          BY <3>4, <3>5, <4>1, TaskInvKept
      <3>7. OrderInv'
        BY <1>1, <1>2, <1>3, <3>1, <3>3 DEF OrderInv, TypeOK
      <3> QED
        BY <3>3, <3>4, <3>5, <3>6, <3>7
    <2>2. CASE /\ order' = [order EXCEPT ![c] = MoveTo(order[c], "REJECTED")]
               /\ Returns(t)
      <3> DEFINE o == MoveTo(order[c], "REJECTED")
      <3>1. /\ o \in Order /\ o.state = "REJECTED" /\ o.filled <= o.qty
            /\ o.qty > 0 /\ o.symbol \in Symbols
        BY <1>4
      <3>2. order' = [order EXCEPT ![c] = o]
        BY <2>2
      <3> HIDE DEF o
      <3> QED
        BY <1>1, <2>2, <3>1, <3>2, AnswerStep
    <2>3. CASE UNCHANGED order /\ Returns(t)
      <3>1. /\ task' \in [Tasks -> Task]
            /\ task'[t].cur = None /\ task'[t].pc \notin Waiting
            /\ \A u \in Tasks: u # t => task'[u] = task[u]
            /\ task'[t].pc \in {"slicing", "routing"}
                 => task'[t].call = "algo"
            /\ task'[t].call = "algo" => task'[t].parent # None
        BY <2>3, ReturnsType
      <3>2. OrderInv' /\ TaskInv' /\ InFlightIsOwned'
        BY <1>1, <2>3, <3>1, QuietStep
      <3> QED
        BY <1>2, <2>3, <3>1, <3>2 DEF TypeOK
    <2> QED
      BY <1>1, <2>1, <2>2, <2>3
  <1>6. TypeOK'
    BY <1>1, <1>2, <1>5 DEF TypeOK
  <1> QED
    BY <1>5, <1>6 DEF IInv

LEMMA NextIInv == IInv /\ [Next]_vars => IInv'
  <1> SUFFICES ASSUME IInv, [Next]_vars PROVE IInv'
    OBVIOUS
  <1>1. CASE UNCHANGED vars
    BY <1>1 DEF vars, IInv, TypeOK, OrderInv, TaskInv, InFlightIsOwned
  <1>2. ASSUME NEW t \in Tasks, Step(t) PROVE IInv'
    BY <1>2, OpenKeeps, ClosePositionKeeps, FlattenNextKeeps, QuietKeeps,
       MatchKeeps, MatchFillsKeeps, CancelOrderKeeps, NextSliceKeeps,
       RouteSliceKeeps
       DEF Step
  <1> QED
    BY <1>1, <1>2 DEF Next

THEOREM EngineInvariant == Spec => []IInv
  BY InitIInv, NextIInv, PTL DEF Spec

\* The engine's fields keep their types (oms_engine.py, adapter.py).
THEOREM EngineTypeCorrect == Spec => []TypeOK
  <1>1. IInv => TypeOK
    BY DEF IInv
  <1> QED
    BY <1>1, EngineInvariant, PTL

\* Nobody moves, fills or waits for the order a coroutine awaits: the order
\* that submit_order reads after its await (oms_engine.py:266-284) is the one
\* it sent, whatever the other coroutines did meanwhile.
THEOREM EngineOwnsInFlight == Spec => []InFlightIsOwned
  <1>1. IInv => InFlightIsOwned
    BY DEF IInv
  <1> QED
    BY <1>1, EngineInvariant, PTL

------------------------------------------------------------------------------
(* The engine implements OrderLifecycle                                      *)

\* The states of an order that is neither new nor over.
Live(o) == o.state \in OrderStates \ Terminal

LEMMA PhaseOf ==
    ASSUME NEW o \in Order
    PROVE  /\ Phase(o) = "none" <=> o.state = "UNUSED"
           /\ Phase(o) = "filled" <=> o.state = "FILLED"
           /\ Phase(o) = "closed" <=> IsDone(o) /\ o.state # "FILLED"
           /\ Phase(o) = "working" <=> Live(o)
  <1>1. o.state \in OrderStates \cup {"UNUSED"}
    BY DEF Order
  <1> QED
    BY <1>1 DEF Phase, IsDone, Live, OrderStates, Terminal

\* One order changes and every other one keeps its place in the life cycle.
LEMMA OthersKeep ==
    ASSUME IInv, NEW c \in Orders, NEW o \in Order,
           order' = [order EXCEPT ![c] = o]
    PROVE  /\ order[c] \in Order /\ order'[c] = o
           /\ [d \in Orders |-> Phase(order'[d])]
                = [[d \in Orders |-> Phase(order[d])] EXCEPT ![c] = Phase(o)]
           /\ [d \in Orders |-> order'[d].qty]
                = [[d \in Orders |-> order[d].qty] EXCEPT ![c] = o.qty]
           /\ [d \in Orders |-> order'[d].filled]
                = [[d \in Orders |-> order[d].filled] EXCEPT ![c] = o.filled]
  BY DEF IInv, TypeOK

\* An id is taken: the abstract order is placed.
LEMMA Places ==
    ASSUME IInv, NEW c \in Orders, IsNextId(c), NEW o \in Order,
           o.state \in {"REJECTED", "SENT", "SUBMITTED"}, o.filled = 0,
           order' = [order EXCEPT ![c] = o]
    PROVE  Lifecycle!Place(c)
  <1>1. order[c].state = "UNUSED" /\ order[c].filled = 0
    BY UnusedFields DEF IsNextId
  <1>2. Phase(order[c]) = "none"
    BY <1>1, OthersKeep, PhaseOf
  <1>3. Phase(o) \in {"working", "closed"}
    BY PhaseOf DEF IsDone, Live, OrderStates, Terminal
  <1>4. o.qty \in Nat
    BY DEF Order
  <1>5. [d \in Orders |-> order'[d].filled] = [d \in Orders |-> order[d].filled]
    BY <1>1, OthersKeep
  <1>6. [d \in Orders |-> order'[d].qty][c] = o.qty
    BY OthersKeep
  <1> QED
    BY <1>2, <1>3, <1>4, <1>5, <1>6, OthersKeep DEF Lifecycle!Place

\* A step of a working order that ends it unfilled, or leaves it working.
LEMMA ClosesOrStays ==
    ASSUME IInv, NEW c \in Orders, Live(order[c]), NEW o \in Order,
           o.qty = order[c].qty, o.filled = order[c].filled,
           Live(o) \/ o.state \in {"REJECTED", "CANCELLED"},
           order' = [order EXCEPT ![c] = o]
    PROVE  Lifecycle!Close(c) \/ UNCHANGED Lifecycle!vars
  <1>0. [d \in Orders |-> Phase(order'[d])]
          = [[d \in Orders |-> Phase(order[d])] EXCEPT ![c] = Phase(o)]
    BY OthersKeep
  <1>1. /\ [d \in Orders |-> order'[d].filled]
             = [d \in Orders |-> order[d].filled]
        /\ [d \in Orders |-> order'[d].qty] = [d \in Orders |-> order[d].qty]
    BY OthersKeep
  <1>2. Phase(order[c]) = "working"
    BY OthersKeep, PhaseOf
  <1>3. CASE Live(o)
    <2>1. Phase(o) = "working"
      BY <1>3, PhaseOf
    <2>2. [d \in Orders |-> Phase(order'[d])] = [d \in Orders |-> Phase(order[d])]
      BY <1>2, <2>1, OthersKeep
    <2> QED
      BY <1>1, <2>2 DEF Lifecycle!vars
  <1>4. CASE o.state \in {"REJECTED", "CANCELLED"}
    <2>1. Phase(o) = "closed"
      BY <1>4, PhaseOf DEF IsDone, Terminal
    <2>2. [d \in Orders |-> Phase(order'[d])]
            = [[d \in Orders |-> Phase(order[d])] EXCEPT ![c] = "closed"]
      BY <1>0, <2>1
    <2>3. [d \in Orders |-> Phase(order[d])][c] = "working"
      BY <1>2
    <2> QED
      BY <1>1, <2>2, <2>3 DEF Lifecycle!Close
  <1> QED
    BY <1>3, <1>4

\* A fill of an order the venue has just taken.
LEMMA Executes ==
    ASSUME IInv, NEW c \in Orders, Live(order[c]), order[c].filled = 0,
           NEW q \in Nat \ {0}, q <= order[c].qty, NEW o \in Order,
           o.qty = order[c].qty, o.filled = q,
           o.state = IF q = order[c].qty THEN "FILLED" ELSE "PARTIAL_FILLED",
           order' = [order EXCEPT ![c] = o]
    PROVE  Lifecycle!Execute(c)
  <1>0. [d \in Orders |-> Phase(order'[d])]
          = [[d \in Orders |-> Phase(order[d])] EXCEPT ![c] = Phase(o)]
    BY OthersKeep
  <1>1. [d \in Orders |-> order'[d].qty] = [d \in Orders |-> order[d].qty]
    BY OthersKeep
  <1>2. Phase(order[c]) = "working"
    BY OthersKeep, PhaseOf
  <1>3. Phase(o) = IF q = order[c].qty THEN "filled" ELSE "working"
    BY PhaseOf DEF Live, OrderStates, Terminal
  <1>4. /\ [d \in Orders |-> order[d].filled][c] = 0
        /\ [d \in Orders |-> order[d].qty][c] = order[c].qty
        /\ [d \in Orders |-> order'[d].filled][c] = q
    BY OthersKeep
  <1>5. /\ [d \in Orders |-> Phase(order[d])][c] = "working"
        /\ [d \in Orders |-> Phase(order'[d])]
             = [[d \in Orders |-> Phase(order[d])] EXCEPT
                  ![c] = IF q = order[c].qty THEN "filled" ELSE "working"]
        /\ [d \in Orders |-> order'[d].filled]
             = [[d \in Orders |-> order[d].filled] EXCEPT ![c] = q]
    <2>1. [d \in Orders |-> order'[d].filled]
            = [[d \in Orders |-> order[d].filled] EXCEPT ![c] = o.filled]
      BY OthersKeep
    <2> QED
      BY <1>0, <1>2, <1>3, <2>1
  <1>6. 0 < q /\ q <= order[c].qty
    OBVIOUS
  <1> QED
    BY <1>1, <1>4, <1>5, <1>6 DEF Lifecycle!Execute

\* The orders a step of coroutine t moves, step by step of the code.
LEMMA StepMaps ==
    ASSUME IInv, NEW t \in Tasks, Step(t)
    PROVE  [Lifecycle!Next]_Lifecycle!vars
  <1>1. TypeOK
    BY DEF IInv
  <1>2. ASSUME NEW c \in Orders, Lifecycle!Place(c) \/ Lifecycle!Execute(c)
                                  \/ Lifecycle!Close(c)
        PROVE  Lifecycle!Next
    BY <1>2 DEF Lifecycle!Next
  <1>3. ASSUME UNCHANGED order
        PROVE  UNCHANGED Lifecycle!vars
    BY <1>3 DEF Lifecycle!vars
  <1>4. ASSUME NEW c \in Orders, IsNextId(c), NEW s \in Symbols,
               NEW side \in Sides, NEW q \in Nat \ {0},
               NEW effect \in Effects, NEW tif \in TimesInForce,
               NEW st \in {"REJECTED", "SENT", "SUBMITTED"},
               order' = [order EXCEPT
                           ![c] = MoveTo(Draft(s, side, q, effect, tif), st)]
        PROVE  Lifecycle!Next
    <2> DEFINE o == MoveTo(Draft(s, side, q, effect, tif), st)
    <2>1. o \in Order /\ o.state = st /\ o.filled = 0
      BY DraftType
    <2>2. order' = [order EXCEPT ![c] = o]
      BY <1>4
    <2> HIDE DEF o
    <2>3. Lifecycle!Place(c)
      BY <1>4, <2>1, <2>2, Places
    <2> QED
      BY <1>2, <2>3
  <1>5. ASSUME NEW c \in Orders, IsNextId(c), NEW s \in Symbols,
               NEW side \in Sides, NEW q \in Nat \ {0},
               NEW effect \in Effects, NEW tif \in TimesInForce,
               \/ RiskRejects(c, Draft(s, side, q, effect, tif))
               \/ Sends(c, Draft(s, side, q, effect, tif))
        PROVE  Lifecycle!Next
    <2>1. MoveTo(MoveTo(Draft(s, side, q, effect, tif), "PRE_TRADE_OK"),
                 "SUBMITTED")
            = MoveTo(Draft(s, side, q, effect, tif), "SUBMITTED")
      BY DEF MoveTo, Draft
    <2>2. PICK st \in {"REJECTED", "SENT", "SUBMITTED"}:
            order' = [order EXCEPT
                        ![c] = MoveTo(Draft(s, side, q, effect, tif), st)]
      BY <1>5, <2>1 DEF RiskRejects, Sends
    <2> QED
      BY <1>4, <1>5, <2>2
  <1>6. ASSUME Open(t) PROVE Lifecycle!Next
    <2>1. PICK c \in OpenIds, s \in Symbols, side \in Sides,
               q \in 1 .. MaxQty, tif \in Tifs:
            /\ IsNextId(c)
            /\ \/ RiskRejects(c, Draft(s, side, q, "any", tif))
               \/ Sends(c, Draft(s, side, q, "any", tif))
      BY <1>6 DEF Open
    <2>2. /\ c \in Orders /\ q \in Nat \ {0} /\ tif \in TimesInForce
          /\ "any" \in Effects
      BY ConstantsAssumption DEF ConstantsAssumption, Effects
    <2> QED
      BY <1>5, <2>1, <2>2
  <1>7. ASSUME NEW c \in Orders, IsNextId(c), NEW s \in Symbols,
               NEW p \in Position, ~IsFlat(p),
               RiskRejects(c, Closing(s, p)) \/ Sends(c, Closing(s, p))
        PROVE  Lifecycle!Next
    <2>1. PICK side \in Sides, q \in Nat \ {0}:
            Closing(s, p) = Draft(s, side, q, "reduce", "GTC")
      BY <1>1, <1>7, ClosingType
    <2>2. "reduce" \in Effects /\ "GTC" \in TimesInForce
      BY DEF Effects, TimesInForce
    <2> QED
      BY <1>5, <1>7, <2>1, <2>2
  <1>8. ASSUME ClosePosition(t) PROVE Lifecycle!Next
    <2>1. PICK s \in Symbols, c \in Orders:
            /\ portfolio'[s] # None /\ ~IsFlat(heap[portfolio'[s]])
            /\ IsNextId(c)
            /\ \/ RiskRejects(c, Closing(s, heap[portfolio'[s]]))
               \/ Sends(c, Closing(s, heap[portfolio'[s]]))
      BY <1>8 DEF ClosePosition
    <2>2. portfolio' = venue
      BY <1>8 DEF ClosePosition, Synced
    <2>3. heap[portfolio'[s]] \in Position
      BY <1>1, <2>1, <2>2 DEF TypeOK
    <2> QED
      BY <1>7, <2>1, <2>3
  <1>9. ASSUME FlattenNext(t) PROVE Lifecycle!Next
    <2>1. PICK e \in task[t].todo, c \in Orders:
            /\ ~IsFlat(heap[e[2]]) /\ IsNextId(c)
            /\ \/ RiskRejects(c, Closing(e[1], heap[e[2]]))
               \/ Sends(c, Closing(e[1], heap[e[2]]))
      BY <1>9 DEF FlattenNext
    <2>2. e[1] \in Symbols /\ heap[e[2]] \in Position
      BY <1>1, <2>1 DEF TypeOK, Task
    <2> QED
      BY <1>7, <2>1, <2>2
  <1>10. ASSUME MatchNoPrice(t) \/ MatchRests(t) \/ RouteSlice(t)
         PROVE  [Lifecycle!Next]_Lifecycle!vars
    <2> DEFINE c == task[t].cur
    <2>1. task[t].pc \in Waiting
      BY <1>10 DEF MatchNoPrice, MatchRests, RouteSlice, Waiting
    <2>2. /\ c \in Orders /\ order[c] \in Order
          /\ order[c].state \in {"SENT", "SUBMITTED"}
      BY <2>1, WaitedFor
    <2>3. CASE UNCHANGED order
      BY <1>3, <2>3
    <2>4. CASE ~UNCHANGED order
      <3>1. PICK st \in {"REJECTED", "ACKNOWLEDGED", "SUBMITTED"}:
              order' = [order EXCEPT ![c] = MoveTo(order[c], st)]
        BY <1>10, <2>4 DEF MatchNoPrice, MatchRests, RouteSlice
      <3> DEFINE o == MoveTo(order[c], st)
      <3>2. /\ o \in Order /\ o.state = st /\ o.qty = order[c].qty
            /\ o.filled = order[c].filled
        BY <2>2 DEF MoveTo, Order, OrderStates, Terminal
      <3>3. order' = [order EXCEPT ![c] = o]
        BY <3>1
      <3> HIDE DEF o
      <3>4. Live(order[c]) /\ (Live(o) \/ o.state \in {"REJECTED", "CANCELLED"})
        BY <2>2, <3>2 DEF Live, OrderStates, Terminal
      <3>5. Lifecycle!Close(c) \/ UNCHANGED Lifecycle!vars
        BY <2>2, <3>2, <3>3, <3>4, ClosesOrStays
      <3> QED
        BY <1>2, <2>2, <3>5
    <2> QED
      BY <2>3, <2>4
  <1>11. ASSUME MatchFills(t) PROVE Lifecycle!Next
    <2>1. task[t].pc \in Waiting
      BY <1>11 DEF MatchFills, Waiting
    <2>2. PICK c \in Orders: c = task[t].cur
      BY <2>1, WaitedFor
    <2>3. PICK q \in FillQuantities(order[c]):
            order' = [order EXCEPT
                        ![c] = ApplyFill(MoveTo(order[c], "ACKNOWLEDGED"), q)]
      BY <1>11, <2>2 DEF MatchFills
    <2>4. /\ order[c] \in Order /\ order[c].filled = 0
          /\ order[c].qty > 0 /\ order[c].state \in {"SENT", "SUBMITTED"}
      BY <2>1, <2>2, WaitedFor
    <2> DEFINE o == ApplyFill(MoveTo(order[c], "ACKNOWLEDGED"), q)
    <2>5. /\ q \in Nat \ {0} /\ q <= order[c].qty
          /\ o \in Order /\ o.filled = q /\ o.qty = order[c].qty
          /\ o.state = IF q = order[c].qty THEN "FILLED" ELSE "PARTIAL_FILLED"
      BY <2>4, FilledOrder
    <2>6. order' = [order EXCEPT ![c] = o]
      BY <2>3
    <2>7. Live(order[c])
      BY <2>4 DEF Live, OrderStates, Terminal
    <2>8. PICK r \in Order: r = o
      BY <2>5
    <2> HIDE DEF o
    <2>9. Lifecycle!Execute(c)
      BY <2>4, <2>5, <2>6, <2>7, <2>8, Executes
    <2> QED
      BY <1>2, <2>9
  <1>12. ASSUME CancelOrder(t) PROVE [Lifecycle!Next]_Lifecycle!vars
    <2>1. PICK c \in orders \cap venueOrders:
            order' = [order EXCEPT ![c] =
                        CancelledAtVenue(IF IsDone(order[c]) THEN order[c]
                                         ELSE MoveTo(order[c],
                                                     "CANCEL_REQUESTED"))]
      BY <1>12 DEF CancelOrder
    <2>2. c \in Orders /\ order[c] \in Order /\ order[c].state # "UNUSED"
      BY <1>1 DEF IInv, OrderInv, TypeOK
    <2> DEFINE o == CancelledAtVenue(IF IsDone(order[c]) THEN order[c]
                                     ELSE MoveTo(order[c],
                                                 "CANCEL_REQUESTED"))
    <2>3. /\ o = IF IsDone(order[c]) THEN order[c]
                                     ELSE MoveTo(order[c], "CANCELLED")
          /\ o \in Order /\ o.qty = order[c].qty
          /\ o.filled = order[c].filled
          /\ ~IsDone(order[c]) => o.state = "CANCELLED"
      BY <2>2, CancelledOrder
    <2>4. order' = [order EXCEPT ![c] = o]
      BY <2>1
    <2> HIDE DEF o
    <2>5. CASE IsDone(order[c])
      <3>1. order' = order
        BY <1>1, <2>3, <2>4, <2>5 DEF TypeOK
      <3> QED
        BY <1>3, <3>1
    <2>6. CASE ~IsDone(order[c])
      <3>1. Live(order[c])
        BY <2>2, <2>6 DEF Live, IsDone, Order
      <3>2. Lifecycle!Close(c) \/ UNCHANGED Lifecycle!vars
        BY <2>2, <2>3, <2>4, <2>6, <3>1, ClosesOrStays
      <3> QED
        BY <1>2, <2>2, <3>2
    <2> QED
      BY <2>5, <2>6
  <1>13. ASSUME NextSlice(t) PROVE Lifecycle!Next
    <2>1. PICK c \in OpenIds, q \in 1 .. MaxQty, tif \in Tifs:
            /\ IsNextId(c)
            /\ order' = [order EXCEPT ![c] =
                           MoveTo(Draft(task[t].parent.symbol,
                                        task[t].parent.side, q, "any", tif),
                                  "SENT")]
      BY <1>13 DEF NextSlice
    <2>2. /\ c \in Orders /\ q \in Nat \ {0} /\ tif \in TimesInForce
          /\ "any" \in Effects
      BY ConstantsAssumption DEF ConstantsAssumption, Effects
    <2>3. task[t].pc = "slicing"
      BY <1>13 DEF NextSlice
    <2>4. task[t].parent \in [symbol : Symbols, side : Sides]
      <3>1. task[t].parent # None
        BY <2>3 DEF IInv, TaskInv
      <3> QED
        BY <1>1, <3>1 DEF TypeOK, Task
    <2> QED
      BY <1>4, <2>1, <2>2, <2>4
  <1>14. ASSUME \/ Sync(t) \/ EmergencyStop(t) \/ SkipFlat(t) \/ Trigger(t)
                \/ Abandon(t) \/ SubmitAlgo(t) \/ AlgoEnds(t)
         PROVE  UNCHANGED Lifecycle!vars
    <2>1. UNCHANGED order
      BY <1>14 DEF Sync, EmergencyStop, SkipFlat, Trigger, Abandon, SubmitAlgo,
                   AlgoEnds
    <2> QED
      BY <1>3, <2>1
  <1> QED
    BY <1>6, <1>8, <1>9, <1>10, <1>11, <1>12, <1>13, <1>14 DEF Step

\* The engine, the venue and every interleaving of their callers take an
\* order only through the life OrderLifecycle allows (core/order.py).
THEOREM EngineImplementsLifecycle == Spec => ImplementsLifecycle
  <1>1. Init => Lifecycle!Init
    <2>1. Phase(Unused) = "none"
      BY UnusedFields DEF Phase
    <2> QED
      BY <2>1, UnusedFields DEF Init, Lifecycle!Init
  <1>2. IInv /\ [Next]_vars => [Lifecycle!Next]_Lifecycle!vars
    <2> SUFFICES ASSUME IInv, [Next]_vars
                 PROVE  [Lifecycle!Next]_Lifecycle!vars
      OBVIOUS
    <2>1. CASE UNCHANGED vars
      BY <2>1 DEF vars, Lifecycle!vars
    <2> QED
      BY <2>1, StepMaps DEF Next
  <1> QED
    BY <1>1, <1>2, EngineInvariant, PTL
       DEF Spec, ImplementsLifecycle, Lifecycle!Spec

------------------------------------------------------------------------------
(* Nothing is lost *)

\* Coroutines that neither are cancelled at the venue nor run an algorithm.
LostInv == NothingIsLost /\ \A t \in Tasks: task[t].call # "algo"

\* Coroutine t sends order c, or has it refused: whoever waited for an answer
\* still does, and a new order that is on its way has t waiting for it.
LEMMA PlacedIsAwaited ==
    ASSUME IInv, LostInv, NEW t \in Tasks, task[t].pc # "matching",
           NEW c \in Orders, NEW d \in Order,
           \A u \in Tasks: u # t => task'[u] = task[u],
           \/ RiskRejects(c, d)
           \/ Sends(c, d) /\ task'[t].pc = "matching" /\ task'[t].cur = c,
           task'[t].call = task[t].call, venueOrders' = venueOrders
    PROVE  LostInv'
  <1>1. order \in [Orders -> Order]
    BY DEF IInv, TypeOK
  <1>2. ASSUME NEW b \in Orders, order'[b].state = "SUBMITTED", b # c
        PROVE  \E u \in Tasks: task'[u].pc = "matching" /\ task'[u].cur = b
    <2>1. order'[b] = order[b]
      BY <1>1, <1>2 DEF RiskRejects, Sends
    <2>2. PICK u \in Tasks: task[u].pc = "matching" /\ task[u].cur = b
      BY <1>2, <2>1 DEF LostInv, NothingIsLost
    <2> QED
      BY <2>2
  <1>3. CASE RiskRejects(c, d)
    <2>1. order'[c].state = "REJECTED" /\ orders \subseteq orders'
      BY <1>1, <1>3 DEF RiskRejects, MoveTo, Order
    <2> QED
      BY <1>2, <2>1 DEF LostInv, NothingIsLost
  <1>4. CASE Sends(c, d) /\ task'[t].pc = "matching" /\ task'[t].cur = c
    BY <1>2, <1>4 DEF LostInv, NothingIsLost, Sends
  <1> QED
    BY <1>3, <1>4

\* The venue answers: the order is no longer on its way, and the engine has it.
LEMMA AnsweredIsKnown ==
    ASSUME IInv, LostInv, NEW t \in Tasks,
           MatchNoPrice(t) \/ MatchRests(t) \/ MatchFills(t)
    PROVE  LostInv'
  <1>0. PICK c \in Orders: c = task[t].cur
    <2>1. task[t].pc \in Waiting
      BY DEF MatchNoPrice, MatchRests, MatchFills, Waiting
    <2> QED
      BY <2>1, WaitedFor
  <1>1. /\ order \in [Orders -> Order]
        /\ task[t].pc = "matching" /\ Registered(t, c) /\ Returns(t)
        /\ venueOrders' = venueOrders \cup {c}
    BY <1>0 DEF IInv, TypeOK, MatchNoPrice, MatchRests, MatchFills
  <1>2. /\ \A u \in Tasks: u # t => task'[u] = task[u]
        /\ task'[t].call # "algo"
    <2>1. task \in [Tasks -> Task] /\ task[t].call # "algo"
      BY DEF IInv, TypeOK, LostInv
    <2> QED
      BY <1>1, <2>1 DEF Returns, Idle, Task
  <1>3. /\ order'[c].state # "SUBMITTED"
        /\ \A b \in Orders: b # c => order'[b] = order[b]
    <2>1. CASE MatchNoPrice(t) \/ MatchRests(t)
      BY <1>0, <1>1, <2>1 DEF MatchNoPrice, MatchRests, MoveTo, Order
    <2>2. CASE MatchFills(t)
      <3>1. PICK q \in FillQuantities(order[c]):
              order' = [order EXCEPT
                          ![c] = ApplyFill(MoveTo(order[c], "ACKNOWLEDGED"), q)]
        BY <1>0, <2>2 DEF MatchFills
      <3>2. /\ task[t].pc \in Waiting
            /\ order[c] \in Order /\ order[c].filled = 0 /\ order[c].qty > 0
        BY <1>0, <1>1, WaitedFor DEF Waiting
      <3>3. ApplyFill(MoveTo(order[c], "ACKNOWLEDGED"), q).state
              \in {"FILLED", "PARTIAL_FILLED"}
        BY <3>2, FilledOrder
      <3> QED
        BY <1>1, <3>1, <3>3
    <2> QED
      BY <2>1, <2>2
  <1>4. orders' = orders \cup {c}
    BY <1>1 DEF Registered, LostInv
  <1>5. ASSUME NEW b \in Orders, order'[b].state = "SUBMITTED"
        PROVE  \E u \in Tasks: task'[u].pc = "matching" /\ task'[u].cur = b
    <2>1. b # c /\ order[b].state = "SUBMITTED"
      BY <1>3, <1>5
    <2>2. PICK u \in Tasks: task[u].pc = "matching" /\ task[u].cur = b
      BY <2>1 DEF LostInv, NothingIsLost
    <2>3. u # t
      BY <1>0, <2>1, <2>2
    <2> QED
      BY <1>2, <2>2, <2>3
  <1>6. \A u \in Tasks: task'[u].call # "algo"
    BY <1>2 DEF LostInv
  <1> QED
    BY <1>1, <1>4, <1>5, <1>6 DEF LostInv, NothingIsLost

LEMMA StepLosesNothing ==
    ASSUME Calls \cap {"abandon", "algo"} = {},
           IInv, LostInv, NEW t \in Tasks, Step(t)
    PROVE  LostInv'
  <1>1. /\ order \in [Orders -> Order] /\ task \in [Tasks -> Task]
        /\ task[t].call # "algo"
    BY DEF IInv, TypeOK, LostInv
  <1>2. ~Abandon(t) /\ ~SubmitAlgo(t) /\ ~AlgoEnds(t)
    BY <1>1 DEF Abandon, SubmitAlgo, AlgoEnds
  <1>3. ~NextSlice(t) /\ ~RouteSlice(t)
    BY <1>1 DEF NextSlice, RouteSlice, IInv, TaskInv
  <1>4. CASE Open(t)
    <2>1. PICK c \in OpenIds, s \in Symbols, side \in Sides,
               q \in 1 .. MaxQty, tif \in Tifs:
            \/ RiskRejects(c, Draft(s, side, q, "any", tif)) /\ UNCHANGED task
            \/ Sends(c, Draft(s, side, q, "any", tif)) /\ Awaits(t, "matching", c)
      BY <1>4 DEF Open
    <2>2. /\ c \in Orders /\ Draft(s, side, q, "any", tif) \in Order
          /\ task[t].pc # "matching" /\ venueOrders' = venueOrders
      <3>1. q \in Nat /\ tif \in TimesInForce /\ c \in Orders
        BY ConstantsAssumption DEF ConstantsAssumption
      <3> QED
        BY <1>4, <3>1 DEF Open, Draft, Order, OrderStates, Effects
    <2>3. /\ \A u \in Tasks: u # t => task'[u] = task[u]
          /\ task'[t].call = task[t].call
          /\ Awaits(t, "matching", c) =>
               task'[t].pc = "matching" /\ task'[t].cur = c
      BY <1>1, <2>1 DEF Awaits, Task
    <2> QED
      BY <2>1, <2>2, <2>3, PlacedIsAwaited
  <1>5. CASE ClosePosition(t)
    <2>1. PICK s \in Symbols, c \in Orders:
            /\ portfolio'[s] # None
            /\ \/ RiskRejects(c, Closing(s, heap[portfolio'[s]]))
                  /\ UNCHANGED task
               \/ Sends(c, Closing(s, heap[portfolio'[s]]))
                  /\ Awaits(t, "matching", c)
      BY <1>5 DEF ClosePosition
    <2>2. heap[portfolio'[s]] \in Position
      BY <1>5, <2>1 DEF ClosePosition, Synced, IInv, TypeOK
    <2>3. /\ Closing(s, heap[portfolio'[s]]) \in Order
          /\ task[t].pc # "matching" /\ venueOrders' = venueOrders
      BY <1>5, <2>2 DEF ClosePosition, Closing, Draft, Order, OrderStates,
                        Effects, Sides, TimesInForce, Position
    <2>4. /\ \A u \in Tasks: u # t => task'[u] = task[u]
          /\ task'[t].call = task[t].call
          /\ Awaits(t, "matching", c) =>
               task'[t].pc = "matching" /\ task'[t].cur = c
      BY <1>1, <2>1 DEF Awaits, Task
    <2> QED
      BY <2>1, <2>3, <2>4, PlacedIsAwaited
  <1>6. CASE FlattenNext(t)
    <2>1. PICK e \in task[t].todo, c \in Orders:
            \/ /\ RiskRejects(c, Closing(e[1], heap[e[2]]))
               /\ task' = [task EXCEPT ![t].todo = task[t].todo \ {e}]
            \/ /\ Sends(c, Closing(e[1], heap[e[2]]))
               /\ task' = [task EXCEPT ![t].pc = "matching", ![t].cur = c,
                                       ![t].todo = task[t].todo \ {e}]
      BY <1>6 DEF FlattenNext
    <2>2. e[1] \in Symbols /\ heap[e[2]] \in Position
      BY <1>1 DEF Task, IInv, TypeOK
    <2>3. /\ Closing(e[1], heap[e[2]]) \in Order
          /\ task[t].pc # "matching" /\ venueOrders' = venueOrders
      BY <1>6, <2>2 DEF FlattenNext, Closing, Draft, Order, OrderStates,
                        Effects, Sides, TimesInForce, Position
    <2>4. /\ \A u \in Tasks: u # t => task'[u] = task[u]
          /\ task'[t].call = task[t].call
      BY <1>1, <2>1 DEF Task
    <2>5. \/ RiskRejects(c, Closing(e[1], heap[e[2]]))
          \/ /\ Sends(c, Closing(e[1], heap[e[2]]))
             /\ task'[t].pc = "matching" /\ task'[t].cur = c
      BY <1>1, <2>1 DEF Task
    <2> QED
      BY <2>3, <2>4, <2>5, PlacedIsAwaited
  <1>7. CASE MatchNoPrice(t) \/ MatchRests(t) \/ MatchFills(t)
    BY <1>7, AnsweredIsKnown
  <1>8. CASE CancelOrder(t)
    <2>1. PICK c \in orders \cap venueOrders:
            order' = [order EXCEPT ![c] =
                        CancelledAtVenue(IF IsDone(order[c]) THEN order[c]
                                         ELSE MoveTo(order[c],
                                                     "CANCEL_REQUESTED"))]
      BY <1>8 DEF CancelOrder
    <2>2. c \in Orders /\ order[c].state # "SUBMITTED"
      BY DEF IInv, TypeOK, OrderInv
    <2>3. order'[c].state # "SUBMITTED"
          /\ \A b \in Orders: b # c => order'[b] = order[b]
      <3>1. /\ order[c] \in Order
            /\ order'[c] = IF IsDone(order[c]) THEN order[c]
                                               ELSE MoveTo(order[c], "CANCELLED")
        BY <1>1, <2>1, <2>2, CancelledOrder
      <3> QED
        BY <1>1, <2>1, <2>2, <3>1 DEF MoveTo, Order
    <2>4. UNCHANGED <<orders, venueOrders, task>>
      BY <1>8 DEF CancelOrder
    <2> QED
      BY <2>3, <2>4 DEF LostInv, NothingIsLost
  <1>9. CASE Sync(t) \/ EmergencyStop(t) \/ SkipFlat(t) \/ Trigger(t)
    <2>1. UNCHANGED <<order, orders, venueOrders>>
      BY <1>9 DEF Sync, EmergencyStop, SkipFlat, Trigger
    <2>2. /\ task[t].pc # "matching" \/ task' = task
          /\ task'[t].call # "algo"
          /\ \A u \in Tasks: u # t => task'[u] = task[u]
      <3>1. CASE Sync(t)
        BY <1>1, <3>1 DEF Sync
      <3>2. CASE EmergencyStop(t)
        BY <1>1, <3>2 DEF EmergencyStop, Task
      <3>3. CASE SkipFlat(t)
        BY <1>1, <3>3 DEF SkipFlat, Task
      <3>4. CASE Trigger(t)
        BY <1>1, <3>4 DEF Trigger, Ends, Idle
      <3> QED
        BY <1>9, <3>1, <3>2, <3>3, <3>4
    <2> QED
      BY <2>1, <2>2 DEF LostInv, NothingIsLost
  <1> QED
    BY <1>2, <1>3, <1>4, <1>5, <1>6, <1>7, <1>8, <1>9 DEF Step

\* Every order on its way has a coroutine that will book the answer, and the
\* venue holds no order the engine cannot cancel, whatever the callers do
\* except run an algorithm, whose children submit_order never registers, or
\* be cancelled at the venue (core/oms_engine.py:218-262).
THEOREM EngineLosesNothing ==
    ASSUME Calls \cap {"abandon", "algo"} = {}
    PROVE  Spec => []NothingIsLost
  <1>1. Init => LostInv
    <2>1. Unused.state # "SUBMITTED"
      BY UnusedFields
    <2> QED
      BY <2>1 DEF Init, LostInv, NothingIsLost, Idle
  <1>2. IInv /\ LostInv /\ [Next]_vars => LostInv'
    <2> SUFFICES ASSUME IInv, LostInv, [Next]_vars PROVE LostInv'
      OBVIOUS
    <2>1. CASE UNCHANGED vars
      BY <2>1 DEF vars, LostInv, NothingIsLost
    <2> QED
      BY <2>1, StepLosesNothing DEF Next
  <1>3. LostInv => NothingIsLost
    BY DEF LostInv
  <1> QED
    BY <1>1, <1>2, <1>3, EngineInvariant, PTL DEF Spec

------------------------------------------------------------------------------
(* The position books *)

\* No two symbols of a book share an object.
Apart(book) ==
  \A r, s \in Symbols: book[r] # None /\ book[r] = book[s] => r = s

\* What a book on heap h says of symbol s.
NetIn(h, book, s) == IF book[s] = None THEN 0 ELSE Net(h[book[s]])

\* A well-formed position that is flat is a position of nothing.
LEMMA FlatIsZero ==
    ASSUME NEW p \in Position, WellFormed(p)
    PROVE  IsFlat(p) <=> Net(p) = 0
  BY DEF Position, PositionSides, WellFormed, IsFlat, Net

\* A fill that meets one book: it is added to what the book says of the
\* symbol, and the other symbols, the other objects and the ownership of
\* objects stay (setdefault, apply_fill, pop in oms_engine.py:276-311).
LEMMA Booking ==
    ASSUME NEW h \in [Objects -> Position], \A z \in Objects: WellFormed(h[z]),
           NEW book \in [Symbols -> Objects \cup {None}], Apart(book),
           NEW s \in Symbols, NEW side \in Sides, NEW q \in Nat \ {0},
           NEW x \in Objects, \A r \in Symbols: book[r] # x
    PROVE  LET g == Filled(h, book, s, x, side, q)
               b == Booked(g, book, s, x)
           IN  /\ g \in [Objects -> Position]
               /\ \A z \in Objects: WellFormed(g[z])
               /\ \A z \in Objects: z # Target(book, s, x) => g[z] = h[z]
               /\ b \in [Symbols -> Objects \cup {None}] /\ Apart(b)
               /\ b[s] \in {None, Target(book, s, x)}
               /\ b[s] = None <=> NetIn(g, b, s) = 0
               /\ \A r \in Symbols: r # s => b[r] = book[r]
               /\ \A r \in Symbols \ {s}: NetIn(g, b, r) = NetIn(h, book, r)
               /\ NetIn(g, b, s) = NetIn(h, book, s) + SignedQty(side, q)
  <1> DEFINE g == Filled(h, book, s, x, side, q)
             b == Booked(g, book, s, x)
  <1>0. None \notin Objects
    BY ConstantsAssumption DEF ConstantsAssumption
  <1>1. PICK X \in Objects: X = Target(book, s, x)
    BY DEF Target
  <1>2. \A r \in Symbols: r # s => book[r] # X
    BY <1>0, <1>1 DEF Target, Apart
  <1>3. PICK old \in Position:
          old = IF book[s] = None THEN NewPosition ELSE h[X]
    <2>1. NewPosition \in Position /\ h[X] \in Position
      BY DEF NewPosition, Position, PositionSides
    <2> QED
      BY <2>1
  <1>4. WellFormed(old) /\ Net(old) = NetIn(h, book, s)
    BY <1>1, <1>3 DEF WellFormed, NewPosition, Net, NetIn, Target
  <1>5. PICK new \in Position: new = Fill(old, side, q, Price)
    BY FillType DEF Price
  <1>6. /\ WellFormed(new)
        /\ Net(new) = NetIn(h, book, s) + SignedQty(side, q)
    BY <1>4, <1>5, FillIsSignedAddition DEF Price
  <1>7. g = [h EXCEPT ![X] = new]
    BY <1>1, <1>3, <1>5 DEF Filled
  <1>8. /\ g \in [Objects -> Position] /\ g[X] = new
        /\ \A z \in Objects: WellFormed(g[z])
        /\ \A z \in Objects: z # X => g[z] = h[z]
    BY <1>1, <1>6, <1>7
  <1>9. b = [book EXCEPT ![s] = IF IsFlat(new) THEN None ELSE X]
    BY <1>1, <1>8 DEF Booked
  <1> HIDE DEF g, b
  <1>10. /\ b \in [Symbols -> Objects \cup {None}]
         /\ b[s] = IF IsFlat(new) THEN None ELSE X
         /\ \A r \in Symbols: r # s => b[r] = book[r]
    BY <1>1, <1>9
  <1>11. Apart(b)
    BY <1>2, <1>10 DEF Apart
  <1>12. NetIn(g, b, s) = Net(new)
    BY <1>0, <1>1, <1>6, <1>8, <1>10, FlatIsZero DEF NetIn
  <1>13. \A r \in Symbols \ {s}: NetIn(g, b, r) = NetIn(h, book, r)
    BY <1>2, <1>8, <1>10 DEF NetIn
  <1>14. b[s] = None <=> NetIn(g, b, s) = 0
    BY <1>0, <1>1, <1>6, <1>10, <1>12, FlatIsZero
  <1> QED
    BY <1>1, <1>6, <1>8, <1>10, <1>11, <1>12, <1>13, <1>14 DEF g, b

\* The next free objects are in neither book.
LEMMA NextObjectsAreFree ==
    ASSUME NEW x \in Objects, NEW y \in Objects, AreNextObjects(x, y)
    PROVE  /\ x # y
           /\ \A s \in Symbols: /\ venue[s] \notin {x, y}
                                /\ portfolio[s] \notin {x, y}
  <1>1. x # y
    BY ConstantsAssumption DEF ConstantsAssumption, AreNextObjects
  <1>2. \A s \in Symbols: venue[s] \in Referenced /\ portfolio[s] \in Referenced
    BY DEF Referenced
  <1> QED
    BY <1>1, <1>2 DEF AreNextObjects

\* What MatchFills does, in the terms the proofs use.
LEMMA FillFacts ==
    ASSUME IInv, NEW t \in Tasks, MatchFills(t)
    PROVE  \E c \in Orders, s \in Symbols, side \in Sides, q \in Nat \ {0},
              x, y \in Objects, o \in Order:
             /\ c = task[t].cur /\ order[c].state = "SUBMITTED"
             /\ s = order[c].symbol /\ side = order[c].side
             /\ q <= order[c].qty /\ AreNextObjects(x, y)
             /\ order' = [order EXCEPT ![c] = o]
             /\ o.state = IF q = order[c].qty THEN "FILLED"
                                              ELSE "PARTIAL_FILLED"
             /\ IF task[t].call = "algo" THEN BookAtVenue(c, q, x)
                                         ELSE BookBoth(c, q, x, y)
  <1>1. /\ task[t].pc \in Waiting /\ task[t].pc = "matching"
    BY DEF MatchFills, Waiting
  <1>2. PICK c \in Orders: c = task[t].cur
    BY <1>1, WaitedFor
  <1>3. /\ order[c] \in Order /\ order[c].filled = 0 /\ order[c].qty > 0
        /\ order[c].symbol \in Symbols /\ order[c].state = "SUBMITTED"
    BY <1>1, <1>2, WaitedFor
  <1>4. PICK q \in FillQuantities(order[c]), x \in Objects, y \in Objects:
          LET o == ApplyFill(MoveTo(order[c], "ACKNOWLEDGED"), q)
          IN  /\ AreNextObjects(x, y)
              /\ order' = [order EXCEPT ![c] = o]
              /\ IF task[t].call # "algo" /\ o.state \in ProcessedStates
                 THEN BookBoth(c, q, x, y)
                 ELSE BookAtVenue(c, q, x)
    BY <1>2 DEF MatchFills
  <1>5. PICK o \in Order: o = ApplyFill(MoveTo(order[c], "ACKNOWLEDGED"), q)
    BY <1>3, FilledOrder
  <1>6. /\ q \in Nat \ {0} /\ q <= order[c].qty
        /\ o.state = IF q = order[c].qty THEN "FILLED" ELSE "PARTIAL_FILLED"
    BY <1>3, <1>5, FilledOrder
  <1>7. order[c].side \in Sides /\ o.state \in ProcessedStates
    BY <1>3, <1>6 DEF Order, ProcessedStates
  <1>8. /\ AreNextObjects(x, y) /\ order' = [order EXCEPT ![c] = o]
        /\ IF task[t].call = "algo" THEN BookAtVenue(c, q, x)
                                    ELSE BookBoth(c, q, x, y)
    BY <1>4, <1>5, <1>7
  <1> QED
    BY <1>2, <1>3, <1>6, <1>7, <1>8

------------------------------------------------------------------------------
(* The books agree *)

\* Callers that only submit and cancel: each book has objects of its own.
BooksInv ==
  /\ BooksAgree
  /\ \A x \in Objects: WellFormed(heap[x])
  /\ Apart(venue) /\ Apart(portfolio)
  /\ \A r, s \in Symbols: portfolio[r] # None => portfolio[r] # venue[s]
  /\ \A t \in Tasks: task[t].call = "none"

\* A fill of a submit reaches both books, in objects that stay apart.
LEMMA FillKeepsBooks ==
    ASSUME IInv, BooksInv, NEW t \in Tasks, MatchFills(t)
    PROVE  BooksInv'
  <1>0. None \notin Objects
    BY ConstantsAssumption DEF ConstantsAssumption
  <1>1. /\ heap \in [Objects -> Position] /\ net \in [Symbols -> Int]
        /\ venue \in [Symbols -> Objects \cup {None}]
        /\ portfolio \in [Symbols -> Objects \cup {None}]
        /\ task \in [Tasks -> Task] /\ task[t].call = "none"
    BY DEF IInv, TypeOK, BooksInv
  <1>2. PICK c \in Orders, s \in Symbols, side \in Sides, q \in Nat \ {0},
             x, y \in Objects:
          /\ s = order[c].symbol /\ side = order[c].side
          /\ AreNextObjects(x, y) /\ BookBoth(c, q, x, y)
    BY <1>1, FillFacts
  <1>3. /\ x # y
        /\ \A r \in Symbols: venue[r] \notin {x, y} /\ portfolio[r] \notin {x, y}
    BY <1>2, NextObjectsAreFree
  <1>4. PICK X, Y \in Objects:
          X = Target(venue, s, x) /\ Y = Target(portfolio, s, y)
    BY <1>1 DEF Target
  <1>5. /\ X # Y
        /\ \A r \in Symbols: portfolio[r] # X /\ (r # s => portfolio[r] # Y)
                             /\ venue[r] # Y /\ (r # s => venue[r] # X)
    BY <1>0, <1>3, <1>4 DEF Target, BooksInv, Apart
  <1>6. PICK h: h = Filled(heap, venue, s, x, side, q)
    OBVIOUS
  <1>7. /\ heap' = Filled(h, portfolio, s, y, side, q)
        /\ venue' = Booked(h, venue, s, x)
        /\ portfolio' = Booked(heap', portfolio, s, y)
        /\ net' = [net EXCEPT ![s] = @ + SignedQty(side, q)]
    BY <1>2, <1>6 DEF BookBoth
  <1>8. /\ h \in [Objects -> Position] /\ \A z \in Objects: WellFormed(h[z])
        /\ \A z \in Objects: z # X => h[z] = heap[z]
        /\ venue' \in [Symbols -> Objects \cup {None}] /\ Apart(venue')
        /\ venue'[s] \in {None, X}
        /\ \A r \in Symbols: r # s => venue'[r] = venue[r]
        /\ \A r \in Symbols \ {s}: NetIn(h, venue', r) = NetIn(heap, venue, r)
        /\ NetIn(h, venue', s) = NetIn(heap, venue, s) + SignedQty(side, q)
    BY <1>1, <1>3, <1>4, <1>6, <1>7, Booking DEF BooksInv
  <1>9. /\ heap' \in [Objects -> Position]
        /\ \A z \in Objects: WellFormed(heap'[z])
        /\ \A z \in Objects: z # Y => heap'[z] = h[z]
        /\ portfolio' \in [Symbols -> Objects \cup {None}] /\ Apart(portfolio')
        /\ portfolio'[s] \in {None, Y}
        /\ \A r \in Symbols: r # s => portfolio'[r] = portfolio[r]
        /\ \A r \in Symbols \ {s}:
             NetIn(heap', portfolio', r) = NetIn(h, portfolio, r)
        /\ NetIn(heap', portfolio', s)
             = NetIn(h, portfolio, s) + SignedQty(side, q)
    <2>1. /\ Apart(portfolio) /\ \A r \in Symbols: portfolio[r] # y
          /\ portfolio \in [Symbols -> Objects \cup {None}]
          /\ h \in [Objects -> Position] /\ \A z \in Objects: WellFormed(h[z])
      BY <1>1, <1>3, <1>8 DEF BooksInv
    <2> DEFINE g == Filled(h, portfolio, s, y, side, q)
               b == Booked(g, portfolio, s, y)
    <2>2. /\ g \in [Objects -> Position]
          /\ \A z \in Objects: WellFormed(g[z])
          /\ \A z \in Objects: z # Target(portfolio, s, y) => g[z] = h[z]
          /\ b \in [Symbols -> Objects \cup {None}] /\ Apart(b)
          /\ b[s] \in {None, Target(portfolio, s, y)}
          /\ \A r \in Symbols: r # s => b[r] = portfolio[r]
          /\ \A r \in Symbols \ {s}: NetIn(g, b, r) = NetIn(h, portfolio, r)
          /\ NetIn(g, b, s) = NetIn(h, portfolio, s) + SignedQty(side, q)
      BY <2>1, Booking
    <2>3. heap' = g /\ portfolio' = b
      BY <1>7
    <2> HIDE DEF g, b
    <2> QED
      BY <1>4, <2>2, <2>3
  <1>10. \A r \in Symbols: /\ NetIn(h, portfolio, r) = NetIn(heap, portfolio, r)
                           /\ NetIn(heap', venue', r) = NetIn(h, venue', r)
    BY <1>1, <1>5, <1>8, <1>9 DEF NetIn
  <1>11. \A r \in Symbols: NetIn(heap, venue, r) = net[r]
                           /\ NetIn(heap, portfolio, r) = net[r]
    BY DEF BooksInv, BooksAgree, NetOf, NetIn
  <1>12. \A r \in Symbols: NetIn(heap', venue', r) = net'[r]
                           /\ NetIn(heap', portfolio', r) = net'[r]
    BY <1>1, <1>7, <1>8, <1>9, <1>10, <1>11
  <1>13. BooksAgree'
    BY <1>12 DEF BooksAgree, NetOf, NetIn
  <1>14. \A r, u \in Symbols: portfolio'[r] # None => portfolio'[r] # venue'[u]
    <2> SUFFICES ASSUME NEW r \in Symbols, NEW u \in Symbols,
                        portfolio'[r] # None, portfolio'[r] = venue'[u]
                 PROVE  FALSE
      OBVIOUS
    <2>1. portfolio'[r] = IF r = s THEN Y ELSE portfolio[r]
      BY <1>9
    <2>2. venue'[u] = IF u = s THEN X ELSE venue[u]
      BY <1>8
    <2> QED
      BY <1>5, <2>1, <2>2 DEF BooksInv
  <1>15. \A u \in Tasks: task'[u].call = "none"
    BY <1>1 DEF MatchFills, Returns, Idle, BooksInv
  <1> QED
    BY <1>8, <1>9, <1>13, <1>14, <1>15 DEF BooksInv, Apart

\* The other steps of those callers leave the books alone.
LEMMA StepKeepsBooks ==
    ASSUME Calls \subseteq {"open", "cancel", "abandon"},
           IInv, BooksInv, NEW t \in Tasks, Step(t)
    PROVE  BooksInv'
  <1>1. /\ task \in [Tasks -> Task] /\ task[t].call = "none"
    BY DEF IInv, TypeOK, BooksInv
  <1>2. /\ ~Sync(t) /\ ~ClosePosition(t) /\ ~EmergencyStop(t)
        /\ ~SubmitAlgo(t) /\ ~AlgoEnds(t)
    BY <1>1 DEF Sync, ClosePosition, EmergencyStop, SubmitAlgo, AlgoEnds
  <1>3. ~NextSlice(t) /\ ~RouteSlice(t)
    BY <1>1 DEF NextSlice, RouteSlice, IInv, TaskInv
  <1>4. CASE MatchFills(t)
    BY <1>4, FillKeepsBooks
  <1>5. CASE \/ Open(t) \/ SkipFlat(t) \/ FlattenNext(t) \/ Trigger(t)
             \/ MatchNoPrice(t) \/ MatchRests(t) \/ Abandon(t) \/ CancelOrder(t)
    <2>1. UNCHANGED <<heap, portfolio, venue, net>>
      BY <1>5 DEF Open, SkipFlat, FlattenNext, Trigger, MatchNoPrice,
                  MatchRests, Abandon, CancelOrder, books
    <2>2. \A u \in Tasks: task'[u].call = "none"
      <3>1. CASE Open(t) \/ CancelOrder(t)
        BY <1>1, <3>1 DEF Open, Awaits, CancelOrder, Task, BooksInv
      <3>2. CASE SkipFlat(t) \/ FlattenNext(t)
        <4>1. PICK e, c: \/ task' = [task EXCEPT ![t].todo = @ \ {e}]
                         \/ task' = [task EXCEPT ![t].pc = "matching",
                                                 ![t].cur = c,
                                                 ![t].todo = @ \ {e}]
          <5>1. CASE SkipFlat(t)
            BY <5>1 DEF SkipFlat
          <5>2. CASE FlattenNext(t)
            BY <5>2 DEF FlattenNext
          <5> QED
            BY <3>2, <5>1, <5>2
        <4> QED
          BY <1>1, <4>1 DEF Task, BooksInv
      <3>3. CASE Trigger(t) \/ Abandon(t)
        BY <1>1, <3>3 DEF Trigger, Abandon, Ends, Idle, BooksInv
      <3>4. CASE MatchNoPrice(t) \/ MatchRests(t)
        BY <1>1, <3>4 DEF MatchNoPrice, MatchRests, Returns, Idle, BooksInv
      <3> QED
        BY <1>5, <3>1, <3>2, <3>3, <3>4
    <2> QED
      BY <2>1, <2>2 DEF BooksInv, BooksAgree, NetOf, Apart
  <1> QED
    BY <1>2, <1>3, <1>4, <1>5 DEF Step

\* However the submits and cancels of any number of coroutines interleave,
\* the portfolio and the venue both say what the fills add up to.  A sync
\* makes the books share objects and a slice of an algorithm reaches the
\* venue alone, so neither is among the calls (core/oms_engine.py:264-311).
THEOREM EngineBooksAgree ==
    ASSUME Calls \subseteq {"open", "cancel", "abandon"}
    PROVE  Spec => []BooksAgree
  <1>1. Init => BooksInv
    BY DEF Init, BooksInv, BooksAgree, NetOf, WellFormed, NewPosition, Apart,
           Idle
  <1>2. IInv /\ BooksInv /\ [Next]_vars => BooksInv'
    <2> SUFFICES ASSUME IInv, BooksInv, [Next]_vars PROVE BooksInv'
      OBVIOUS
    <2>1. CASE UNCHANGED vars
      BY <2>1 DEF vars, BooksInv, BooksAgree, NetOf, Apart
    <2> QED
      BY <2>1, StepKeepsBooks DEF Next
  <1>3. BooksInv => BooksAgree
    BY DEF BooksInv
  <1> QED
    BY <1>1, <1>2, <1>3, EngineInvariant, PTL DEF Spec

------------------------------------------------------------------------------
(* A stop flattens the venue *)

\* Sharing of objects, which a sync brings about, is between the two books
\* and for one symbol.
HeapInv ==
  /\ \A x \in Objects: WellFormed(heap[x])
  /\ Apart(venue) /\ Apart(portfolio)
  /\ \A r, s \in Symbols:
       portfolio[r] # None /\ portfolio[r] = venue[s] => r = s

\* The kind of the call and the place it has got to.
CallInv ==
  \A t \in Tasks:
    /\ task[t].pc = "idle" => task[t].call = "none"
    /\ task[t].pc = "flattening" => task[t].call = "stop"
    /\ task[t].call = "stop" => task[t].pc \in {"flattening", "matching"}

\* No flatten order has come back refused, resting or filled in part.
Clean ==
  \A c \in Orders: IsReduceOnly(order[c]) /\ order[c].state # "FILLED" =>
    \E t \in Tasks: task[t].pc \in Waiting /\ task[t].cur = c

\* Filled completely, order o closes what the venue holds of its symbol.
Closes(o) ==
  LET x == venue[o.symbol]
  IN  /\ IsReduceOnly(o) /\ x # None /\ ~IsFlat(heap[x])
      /\ o.qty = heap[x].qty
      /\ o.side = IF heap[x].side = "LONG" THEN "sell" ELSE "buy"

\* While a stop runs clean, what the venue holds is on its list or is being
\* closed by the order it waits for.
StopInv ==
  \A t \in Tasks: task[t].call = "stop" /\ Clean =>
    LET o == order[task[t].cur]
    IN  /\ \A e \in task[t].todo: venue[e[1]] = e[2]
        /\ task[t].pc = "matching" =>
             Closes(o) /\ \A e \in task[t].todo: e[1] # o.symbol
        /\ \A s \in Symbols: \/ NetOf(venue, s) = 0
                             \/ \E e \in task[t].todo: e[1] = s
                             \/ task[t].pc = "matching" /\ o.symbol = s

\* Once locked, nothing but another stop gets a position to the venue.
LockInv ==
  locked /\ Clean /\ (\A t \in Tasks: task[t].call # "stop") =>
    /\ \A s \in Symbols: NetOf(venue, s) = 0
    /\ \A t \in Tasks: task[t].pc = "idle"

FlattenInv == HeapInv /\ CallInv /\ StopInv /\ LockInv

\* A fill keeps the objects apart and touches its own symbol only; a complete
\* fill of an order that closes the position takes it off the venue's book.
LEMMA FillMoves ==
    ASSUME IInv, HeapInv, NEW t \in Tasks, MatchFills(t),
           NEW c \in Orders, c = task[t].cur, NEW s, s = order[c].symbol
    PROVE  /\ HeapInv' /\ s \in Symbols
           /\ \A r \in Symbols: r # s => /\ venue'[r] = venue[r]
                                         /\ NetOf(venue, r)' = NetOf(venue, r)
           /\ Closes(order[c]) /\ order'[c].state = "FILLED"
                => venue'[s] = None
  <1>0. None \notin Objects
    BY ConstantsAssumption DEF ConstantsAssumption
  <1>1. /\ heap \in [Objects -> Position] /\ order \in [Orders -> Order]
        /\ venue \in [Symbols -> Objects \cup {None}]
        /\ portfolio \in [Symbols -> Objects \cup {None}]
    BY DEF IInv, TypeOK
  <1>2. PICK side \in Sides, q \in Nat \ {0}, x, y \in Objects, o \in Order:
          /\ s \in Symbols /\ side = order[c].side /\ q <= order[c].qty
          /\ AreNextObjects(x, y) /\ order' = [order EXCEPT ![c] = o]
          /\ o.state = IF q = order[c].qty THEN "FILLED" ELSE "PARTIAL_FILLED"
          /\ IF task[t].call = "algo" THEN BookAtVenue(c, q, x)
                                      ELSE BookBoth(c, q, x, y)
    BY FillFacts
  <1>3. /\ x # y
        /\ \A r \in Symbols: venue[r] \notin {x, y} /\ portfolio[r] \notin {x, y}
    BY <1>2, NextObjectsAreFree
  <1>4. PICK X, Y \in Objects:
          X = Target(venue, s, x) /\ Y = Target(portfolio, s, y)
    BY <1>1, <1>2 DEF Target
  <1>5. \A r \in Symbols: r # s => venue[r] \notin {X, Y}
                                   /\ portfolio[r] \notin {X, Y}
    BY <1>0, <1>2, <1>3, <1>4 DEF Target, HeapInv, Apart
  <1> DEFINE hh == Filled(heap, venue, s, x, side, q)
             bb == Booked(hh, venue, s, x)
  <1>6. PICK h, b: h = hh /\ b = bb
    OBVIOUS
  <1>7. /\ h \in [Objects -> Position] /\ \A z \in Objects: WellFormed(h[z])
        /\ \A z \in Objects: z # X => h[z] = heap[z]
        /\ b \in [Symbols -> Objects \cup {None}] /\ Apart(b)
        /\ b[s] \in {None, X}
        /\ b[s] = None <=> NetIn(h, b, s) = 0
        /\ \A r \in Symbols: r # s => b[r] = venue[r]
        /\ \A r \in Symbols \ {s}: NetIn(h, b, r) = NetIn(heap, venue, r)
        /\ NetIn(h, b, s) = NetIn(heap, venue, s) + SignedQty(side, q)
    <2>1. /\ Apart(venue) /\ \A r \in Symbols: venue[r] # x
          /\ \A z \in Objects: WellFormed(heap[z])
      BY <1>3 DEF HeapInv
    <2>2. /\ hh \in [Objects -> Position] /\ \A z \in Objects: WellFormed(hh[z])
          /\ \A z \in Objects: z # Target(venue, s, x) => hh[z] = heap[z]
          /\ bb \in [Symbols -> Objects \cup {None}] /\ Apart(bb)
          /\ bb[s] \in {None, Target(venue, s, x)}
          /\ bb[s] = None <=> NetIn(hh, bb, s) = 0
          /\ \A r \in Symbols: r # s => bb[r] = venue[r]
          /\ \A r \in Symbols \ {s}: NetIn(hh, bb, r) = NetIn(heap, venue, r)
          /\ NetIn(hh, bb, s) = NetIn(heap, venue, s) + SignedQty(side, q)
      BY <1>1, <1>2, <2>1, Booking
    <2> HIDE DEF hh, bb
    <2> QED
      BY <1>4, <1>6, <2>2
  <1>8. venue' = b
    BY <1>2, <1>6 DEF BookAtVenue, BookBoth
  <1> HIDE DEF hh, bb
  <1>9. /\ \A z \in Objects: WellFormed(heap'[z])
        /\ \A z \in Objects: z \notin {X, Y} => heap'[z] = heap[z]
        /\ Apart(portfolio')
        /\ \A r \in Symbols: r # s => portfolio'[r] = portfolio[r]
        /\ portfolio'[s] \in {None, portfolio[s], Y}
    <2>1. CASE task[t].call = "algo"
      <3>1. heap' = h /\ portfolio' = portfolio
        BY <1>2, <1>6, <2>1 DEF BookAtVenue, hh
      <3> QED
        BY <1>7, <3>1 DEF HeapInv
    <2>2. CASE task[t].call # "algo"
      <3> DEFINE g == Filled(h, portfolio, s, y, side, q)
                 p == Booked(g, portfolio, s, y)
      <3>1. /\ Apart(portfolio) /\ \A r \in Symbols: portfolio[r] # y
        BY <1>3 DEF HeapInv
      <3>2. /\ \A z \in Objects: WellFormed(g[z])
            /\ \A z \in Objects: z # Target(portfolio, s, y) => g[z] = h[z]
            /\ Apart(p) /\ p[s] \in {None, Target(portfolio, s, y)}
            /\ \A r \in Symbols: r # s => p[r] = portfolio[r]
        BY <1>1, <1>2, <1>7, <3>1, Booking
      <3>3. heap' = g /\ portfolio' = p
        BY <1>2, <1>6, <2>2 DEF BookBoth, hh
      <3> HIDE DEF g, p
      <3> QED
        BY <1>4, <1>7, <3>2, <3>3
    <2> QED
      BY <2>1, <2>2
  <1>10. HeapInv'
    <2>1. ASSUME NEW r \in Symbols, NEW u \in Symbols,
                 portfolio'[r] # None, portfolio'[r] = venue'[u]
          PROVE  r = u
      <3>1. CASE r = s /\ u # s
        <4>1. venue'[u] = venue[u] /\ venue[u] # Y
          BY <1>5, <1>7, <1>8, <3>1
        <4>2. portfolio'[r] = portfolio[r]
          BY <1>9, <2>1, <3>1, <4>1
        <4> QED
          BY <2>1, <4>1, <4>2 DEF HeapInv
      <3>2. CASE r # s /\ u = s
        <4>1. portfolio'[r] = portfolio[r] /\ portfolio[r] # X
          BY <1>5, <1>9, <3>2
        <4> QED
          BY <1>7, <1>8, <2>1, <3>2, <4>1
      <3>3. CASE r # s /\ u # s
        <4>1. portfolio'[r] = portfolio[r] /\ venue'[u] = venue[u]
          BY <1>7, <1>8, <1>9, <3>3
        <4> QED
          BY <2>1, <4>1 DEF HeapInv
      <3> QED
        BY <3>1, <3>2, <3>3
    <2>2. Apart(venue')
      BY <1>7, <1>8
    <2> QED
      BY <1>9, <2>1, <2>2 DEF HeapInv, Apart
  <1>11. ASSUME NEW r \in Symbols, r # s
         PROVE  venue'[r] = venue[r] /\ NetOf(venue, r)' = NetOf(venue, r)
    <2>1. venue'[r] = venue[r] /\ venue[r] \notin {X, Y}
      BY <1>5, <1>7, <1>8, <1>11
    <2>2. venue[r] # None => heap'[venue[r]] = heap[venue[r]]
      BY <1>1, <1>9, <2>1
    <2> QED
      BY <2>1, <2>2 DEF NetOf
  <1>12. ASSUME Closes(order[c]), order'[c].state = "FILLED"
         PROVE  venue'[s] = None
    <2>1. /\ venue[s] # None /\ ~IsFlat(heap[venue[s]])
          /\ order[c].qty = heap[venue[s]].qty
          /\ side = IF heap[venue[s]].side = "LONG" THEN "sell" ELSE "buy"
      BY <1>2, <1>12 DEF Closes
    <2>2. q = order[c].qty
      BY <1>1, <1>2, <1>12
    <2>3. heap[venue[s]] \in Position
      BY <1>1, <1>2, <2>1
    <2>4. NetIn(heap, venue, s) + SignedQty(side, q) = 0
      BY <2>1, <2>2, <2>3
         DEF NetIn, Net, SignedQty, Position, PositionSides, IsFlat
    <2> QED
      BY <1>7, <1>8, <2>4
  <1> QED
    BY <1>2, <1>10, <1>11, <1>12

\* A flatten order that has come back short stays so.
LEMMA CleanBefore ==
    ASSUME IInv, NEW t \in Tasks, Step(t), Clean'
    PROVE  Clean
  <1> SUFFICES ASSUME NEW c \in Orders, IsReduceOnly(order[c]),
                      order[c].state # "FILLED",
                      \A u \in Tasks: task[u].pc \in Waiting => task[u].cur # c
               PROVE  FALSE
    BY DEF Clean
  <1>1. /\ order \in [Orders -> Order] /\ task \in [Tasks -> Task]
        /\ order[c] \in Order /\ ~IsNextId(c)
    <2>1. Unused.effect = "any"
      BY DEF Unused
    <2> QED
      BY <2>1 DEF IInv, TypeOK, IsNextId, IsReduceOnly
  <1>2. ASSUME NEW d \in Orders, NEW o, IsNextId(d),
               RiskRejects(d, o) \/ Sends(d, o)
        PROVE  order'[c] = order[c]
    BY <1>1, <1>2 DEF RiskRejects, Sends
  <1>3. /\ order'[c].state # "FILLED" /\ IsReduceOnly(order'[c])
        /\ \A u \in Tasks: task'[u].cur # c \/ task'[u] = task[u]
    <2>1. CASE Open(t)
      <3>1. PICK d \in Orders: \E o:
              /\ IsNextId(d)
              /\ \/ RiskRejects(d, o) /\ UNCHANGED task
                 \/ Sends(d, o) /\ Awaits(t, "matching", d)
        BY <2>1, ConstantsAssumption DEF Open, ConstantsAssumption
      <3>2. order'[c] = order[c] /\ d # c
        BY <1>1, <1>2, <3>1
      <3> QED
        BY <1>1, <3>1, <3>2 DEF Awaits, Task
    <2>2. CASE ClosePosition(t)
      <3>1. PICK d \in Orders: \E o:
              /\ IsNextId(d)
              /\ \/ RiskRejects(d, o) /\ UNCHANGED task
                 \/ Sends(d, o) /\ Awaits(t, "matching", d)
        BY <2>2 DEF ClosePosition
      <3>2. order'[c] = order[c] /\ d # c
        BY <1>1, <1>2, <3>1
      <3> QED
        BY <1>1, <3>1, <3>2 DEF Awaits, Task
    <2>3. CASE FlattenNext(t)
      <3>1. PICK d \in Orders, e \in task[t].todo: \E o:
              /\ IsNextId(d)
              /\ \/ /\ RiskRejects(d, o)
                    /\ task' = [task EXCEPT ![t].todo = task[t].todo \ {e}]
                 \/ /\ Sends(d, o)
                    /\ task' = [task EXCEPT ![t].pc = "matching", ![t].cur = d,
                                            ![t].todo = task[t].todo \ {e}]
        BY <2>3 DEF FlattenNext
      <3>2. order'[c] = order[c] /\ d # c
        BY <1>1, <1>2, <3>1
      <3>3. task[t].cur = None
        BY <2>3 DEF FlattenNext, IInv, TaskInv, Waiting
      <3>4. c # None
        BY ConstantsAssumption DEF ConstantsAssumption
      <3>5. task'[t].cur # c /\ \A u \in Tasks: u # t => task'[u] = task[u]
        BY <1>1, <3>1, <3>2, <3>3, <3>4 DEF Task
      <3> QED
        BY <3>2, <3>5
    <2>4. CASE MatchNoPrice(t) \/ MatchRests(t) \/ MatchFills(t) \/ RouteSlice(t)
      <3>1. task[t].pc \in Waiting
        BY <2>4 DEF MatchNoPrice, MatchRests, MatchFills, RouteSlice, Waiting
      <3>2. PICK d \in Orders: d = task[t].cur
        BY <3>1, WaitedFor
      <3>3. PICK o: order' = order \/ order' = [order EXCEPT ![d] = o]
        BY <2>4, <3>2 DEF MatchNoPrice, MatchRests, MatchFills, RouteSlice
      <3>4. d # c
        BY <3>1, <3>2
      <3>5. Returns(t) \/ Awaits(t, "matching", d)
        BY <2>4, <3>2 DEF MatchNoPrice, MatchRests, MatchFills, RouteSlice
      <3>6. \A u \in Tasks: u # t => task'[u] = task[u]
        BY <3>5 DEF Returns, Awaits, IInv, TypeOK
      <3>7. task'[t].cur # c
        <4>1. CASE Returns(t)
          BY <4>1, ReturnsType, ConstantsAssumption DEF ConstantsAssumption
        <4>2. CASE Awaits(t, "matching", d)
          BY <1>1, <3>4, <4>2 DEF Awaits, Task
        <4> QED
          BY <3>5, <4>1, <4>2
      <3>8. order'[c] = order[c]
        BY <1>1, <3>3, <3>4
      <3> QED
        BY <3>6, <3>7, <3>8
    <2>5. CASE CancelOrder(t)
      <3>1. PICK d \in orders \cap venueOrders:
              order' = [order EXCEPT ![d] =
                          CancelledAtVenue(IF IsDone(order[d]) THEN order[d]
                                           ELSE MoveTo(order[d],
                                                       "CANCEL_REQUESTED"))]
        BY <2>5 DEF CancelOrder
      <3>2. d \in Orders /\ UNCHANGED task
        BY <2>5 DEF CancelOrder, IInv, TypeOK
      <3>3. order'[c] = order[c] \/ order'[c] = MoveTo(order[c], "CANCELLED")
        <4>1. CASE d # c
          BY <1>1, <3>1, <3>2, <4>1
        <4>2. CASE d = c
          BY <1>1, <3>1, <4>2, CancelledOrder
        <4> QED
          BY <4>1, <4>2
      <3> QED
        BY <1>1, <3>2, <3>3 DEF MoveTo, Order, IsReduceOnly
    <2>6. CASE NextSlice(t)
      <3>1. PICK d \in Orders: \E o:
              /\ IsNextId(d) /\ order' = [order EXCEPT ![d] = o]
              /\ Awaits(t, "routing", d)
        BY <2>6, ConstantsAssumption DEF NextSlice, ConstantsAssumption
      <3>2. d # c
        BY <1>1, <3>1
      <3> QED
        BY <1>1, <3>1, <3>2 DEF Awaits, Task
    <2>7. CASE \/ Sync(t) \/ EmergencyStop(t) \/ SkipFlat(t) \/ Trigger(t)
               \/ Abandon(t) \/ SubmitAlgo(t) \/ AlgoEnds(t)
      <3>1. UNCHANGED order
        BY <2>7 DEF Sync, EmergencyStop, SkipFlat, Trigger, Abandon, SubmitAlgo,
                    AlgoEnds
      <3>2. c # None
        BY ConstantsAssumption DEF ConstantsAssumption
      <3>3. \A u \in Tasks: task'[u].cur # c \/ task'[u] = task[u]
        <4>1. CASE Sync(t)
          BY <4>1 DEF Sync
        <4>2. CASE EmergencyStop(t)
          BY <1>1, <3>2, <4>2 DEF EmergencyStop
        <4>3. CASE Trigger(t) \/ Abandon(t) \/ AlgoEnds(t)
          BY <1>1, <3>2, <4>3 DEF Trigger, Abandon, AlgoEnds, Ends, Idle
        <4>4. CASE SkipFlat(t)
          <5>1. task[t].cur = None
            BY <4>4 DEF SkipFlat, IInv, TaskInv, Waiting
          <5>2. task'[t].cur = task[t].cur
            BY <1>1, <4>4 DEF SkipFlat, Task
          <5>3. \A u \in Tasks: u # t => task'[u] = task[u]
            BY <1>1, <4>4 DEF SkipFlat
          <5> QED
            BY <3>2, <5>1, <5>2, <5>3
        <4>5. CASE SubmitAlgo(t)
          <5>1. task[t].cur = None
            BY <4>5 DEF SubmitAlgo, IInv, TaskInv, Waiting
          <5>2. task'[t].cur = task[t].cur
            BY <1>1, <4>5 DEF SubmitAlgo, Task
          <5>3. \A u \in Tasks: u # t => task'[u] = task[u]
            BY <1>1, <4>5 DEF SubmitAlgo
          <5> QED
            BY <3>2, <5>1, <5>2, <5>3
        <4> QED
          BY <2>7, <4>1, <4>2, <4>3, <4>4, <4>5
      <3> QED
        BY <3>1, <3>3
    <2> QED
      BY <2>1, <2>2, <2>3, <2>4, <2>5, <2>6, <2>7 DEF Step
  <1>4. PICK u \in Tasks: task'[u].pc \in Waiting /\ task'[u].cur = c
    BY <1>3 DEF Clean
  <1> QED
    BY <1>3, <1>4

\* The kind of a call and its place go together.
LEMMA CallStep ==
    ASSUME IInv, CallInv, NEW t \in Tasks, Step(t)
    PROVE  /\ CallInv'
           /\ \A u \in Tasks: u # t => task'[u] = task[u]
           /\ task'[t].call = "stop" =>
                \/ EmergencyStop(t)
                \/ task[t].call = "stop" /\ ~Trigger(t)
  <1>1. task \in [Tasks -> Task] /\ task[t] \in Task
    BY DEF IInv, TypeOK
  <1>2. /\ task[t].pc = "idle" => task[t].call = "none"
        /\ task[t].pc = "flattening" => task[t].call = "stop"
        /\ task[t].call = "stop" => task[t].pc \in {"flattening", "matching"}
        /\ task[t].pc \in {"slicing", "routing"} => task[t].call = "algo"
    BY DEF CallInv, IInv, TaskInv
  <1>3. ASSUME \A u \in Tasks: u # t => task'[u] = task[u],
               /\ task'[t].pc = "idle" => task'[t].call = "none"
               /\ task'[t].pc = "flattening" => task'[t].call = "stop"
               /\ task'[t].call = "stop" =>
                    task'[t].pc \in {"flattening", "matching"}
        PROVE  CallInv'
    BY <1>3 DEF CallInv
  <1>4. ASSUME NEW pc \in {"matching", "routing"}, NEW c, Awaits(t, pc, c)
        PROVE  /\ \A u \in Tasks: u # t => task'[u] = task[u]
               /\ task'[t].pc = pc /\ task'[t].call = task[t].call
    BY <1>1, <1>4 DEF Awaits, Task
  <1>5. ASSUME Returns(t)
        PROVE  /\ \A u \in Tasks: u # t => task'[u] = task[u]
               /\ \/ /\ task[t].call = "stop" /\ task'[t].call = "stop"
                     /\ task'[t].pc = "flattening"
                  \/ /\ task[t].call = "algo" /\ task'[t].call = "algo"
                     /\ task'[t].pc = "slicing"
                  \/ task'[t].pc = "idle" /\ task'[t].call = "none"
    BY <1>1, <1>5 DEF Returns, Task, Idle
  <1>6. ASSUME Ends(t)
        PROVE  /\ \A u \in Tasks: u # t => task'[u] = task[u]
               /\ task'[t].pc = "idle" /\ task'[t].call = "none"
    BY <1>1, <1>6 DEF Ends, Idle
  <1>7. CASE Open(t) \/ ClosePosition(t)
    <2>1. PICK c: UNCHANGED task \/ Awaits(t, "matching", c)
      <3>1. CASE Open(t)
        BY <3>1 DEF Open
      <3>2. CASE ClosePosition(t)
        BY <3>2 DEF ClosePosition
      <3> QED
        BY <1>7, <3>1, <3>2
    <2>2. task[t].pc = "idle"
      BY <1>7 DEF Open, ClosePosition
    <2> QED
      BY <1>2, <1>3, <1>4, <2>1, <2>2
  <1>8. CASE Sync(t) \/ CancelOrder(t)
    <2>1. UNCHANGED task /\ task[t].pc = "idle"
      BY <1>8 DEF Sync, CancelOrder
    <2> QED
      BY <1>2, <1>3, <2>1
  <1>9. CASE EmergencyStop(t)
    <2>1. /\ \A u \in Tasks: u # t => task'[u] = task[u]
          /\ task'[t].pc = "flattening" /\ task'[t].call = "stop"
      BY <1>1, <1>9 DEF EmergencyStop
    <2>2. CallInv'
      BY <1>3, <2>1
    <2> QED
      BY <1>9, <2>1, <2>2
  <1>10. CASE SkipFlat(t)
    <2>1. /\ \A u \in Tasks: u # t => task'[u] = task[u]
          /\ task'[t].pc = task[t].pc /\ task'[t].call = task[t].call
          /\ task[t].pc = "flattening"
      BY <1>1, <1>10 DEF SkipFlat, Task
    <2>2. ~Trigger(t)
      BY <1>10 DEF SkipFlat, Trigger
    <2> QED
      BY <1>2, <1>3, <2>1, <2>2
  <1>11. CASE FlattenNext(t)
    <2>1. PICK e \in task[t].todo: \E c:
            \/ task' = [task EXCEPT ![t].todo = task[t].todo \ {e}]
            \/ task' = [task EXCEPT ![t].pc = "matching", ![t].cur = c,
                                    ![t].todo = task[t].todo \ {e}]
      BY <1>11 DEF FlattenNext
    <2>2. /\ \A u \in Tasks: u # t => task'[u] = task[u]
          /\ task'[t].pc \in {"flattening", "matching"}
          /\ task'[t].call = "stop" /\ task[t].call = "stop"
      BY <1>1, <1>2, <1>11, <2>1 DEF FlattenNext, Task
    <2>3. ~Trigger(t)
      BY <2>1 DEF Trigger
    <2> QED
      BY <1>3, <2>2, <2>3
  <1>12. CASE Trigger(t) \/ Abandon(t) \/ AlgoEnds(t)
    <2>1. Ends(t)
      BY <1>12 DEF Trigger, Abandon, AlgoEnds
    <2> QED
      BY <1>3, <1>6, <2>1
  <1>13. CASE MatchNoPrice(t) \/ MatchRests(t) \/ MatchFills(t)
    <2>1. Returns(t) /\ task[t].pc = "matching"
      BY <1>13 DEF MatchNoPrice, MatchRests, MatchFills
    <2>2. ~Trigger(t)
      BY <2>1 DEF Trigger
    <2> QED
      BY <1>3, <1>5, <2>1, <2>2
  <1>14. CASE SubmitAlgo(t)
    <2>1. /\ \A u \in Tasks: u # t => task'[u] = task[u]
          /\ task'[t].pc = "slicing" /\ task'[t].call = "algo"
      BY <1>1, <1>14 DEF SubmitAlgo, Task
    <2> QED
      BY <1>3, <2>1
  <1>15. CASE NextSlice(t)
    <2>1. PICK c: Awaits(t, "routing", c)
      BY <1>15 DEF NextSlice
    <2>2. task[t].call = "algo"
      BY <1>2, <1>15 DEF NextSlice
    <2> QED
      BY <1>3, <1>4, <2>1, <2>2
  <1>16. CASE RouteSlice(t)
    <2>1. Returns(t) \/ Awaits(t, "matching", task[t].cur)
      BY <1>16 DEF RouteSlice
    <2>2. task[t].call = "algo"
      BY <1>2, <1>16 DEF RouteSlice
    <2> QED
      BY <1>3, <1>4, <1>5, <2>1, <2>2
  <1> QED
    BY <1>7, <1>8, <1>9, <1>10, <1>11, <1>12, <1>13, <1>14, <1>15, <1>16 DEF Step

\* A sync makes the books share objects symbol by symbol, a fill keeps them so.
LEMMA HeapStep ==
    ASSUME IInv, HeapInv, NEW t \in Tasks, Step(t)
    PROVE  HeapInv'
  <1>1. CASE MatchFills(t)
    <2>1. task[t].pc \in Waiting
      BY <1>1 DEF MatchFills, Waiting
    <2>2. PICK c \in Orders: c = task[t].cur
      BY <2>1, WaitedFor
    <2> QED
      BY <1>1, <2>2, FillMoves
  <1>2. CASE Sync(t) \/ ClosePosition(t) \/ EmergencyStop(t)
    <2>1. portfolio' = venue /\ UNCHANGED <<heap, venue>>
      BY <1>2 DEF Sync, ClosePosition, EmergencyStop, Synced
    <2> QED
      BY <2>1 DEF HeapInv, Apart
  <1>3. CASE \/ Open(t) \/ SkipFlat(t) \/ FlattenNext(t) \/ Trigger(t)
             \/ MatchNoPrice(t) \/ MatchRests(t) \/ Abandon(t) \/ CancelOrder(t)
             \/ SubmitAlgo(t) \/ NextSlice(t) \/ RouteSlice(t) \/ AlgoEnds(t)
    <2>1. UNCHANGED <<heap, portfolio, venue>>
      BY <1>3 DEF Open, SkipFlat, FlattenNext, Trigger, MatchNoPrice,
                  MatchRests, Abandon, CancelOrder, SubmitAlgo, NextSlice,
                  RouteSlice, AlgoEnds, books
    <2> QED
      BY <2>1 DEF HeapInv, Apart
  <1> QED
    BY <1>1, <1>2, <1>3 DEF Step

OneCaller == \A t, u \in Tasks: t = u

\* The list of a stop and the order it waits for cover what the venue holds.
LEMMA StopStep ==
    ASSUME OneCaller, IInv, FlattenInv, NEW t \in Tasks, Step(t)
    PROVE  StopInv'
  <1> DEFINE o == order[task[t].cur]
             Covered(s) == \/ NetOf(venue, s) = 0
                           \/ \E e \in task[t].todo: e[1] = s
                           \/ task[t].pc = "matching" /\ o.symbol = s
  <1>0. /\ task \in [Tasks -> Task] /\ task[t] \in Task
        /\ heap \in [Objects -> Position] /\ order \in [Orders -> Order]
        /\ venue \in [Symbols -> Objects \cup {None}]
    BY DEF IInv, TypeOK
  <1> SUFFICES ASSUME task'[t].call = "stop", Clean'
               PROVE  /\ \A e \in task'[t].todo: venue'[e[1]] = e[2]
                      /\ task'[t].pc = "matching" =>
                           /\ Closes(order[task[t].cur])'
                           /\ \A e \in task'[t].todo: e[1] # o'.symbol
                      /\ \A s \in Symbols: Covered(s)'
    BY DEF StopInv, OneCaller
  <1>1. Clean
    BY CleanBefore
  <1>2. \/ EmergencyStop(t)
        \/ task[t].call = "stop" /\ ~Trigger(t)
    BY CallStep DEF FlattenInv
  <1>3. CASE EmergencyStop(t)
    <2>1. /\ task'[t].pc = "flattening"
          /\ task'[t].todo = {<<s, venue[s]>> :
                                s \in {r \in Symbols : venue[r] # None}}
          /\ UNCHANGED <<venue, heap>>
      BY <1>0, <1>3 DEF EmergencyStop, Synced
    <2>2. \A e \in task'[t].todo: venue'[e[1]] = e[2]
      BY <2>1
    <2>3. ASSUME NEW s \in Symbols PROVE Covered(s)'
      <3>1. CASE venue[s] = None
        BY <2>1, <3>1 DEF NetOf
      <3>2. CASE venue[s] # None
        <4>1. <<s, venue[s]>> \in task'[t].todo
          BY <2>1, <3>2
        <4>2. \E e \in task'[t].todo: e[1] = s
          BY <4>1
        <4> QED
          BY <4>2
      <3> QED
        BY <3>1, <3>2
    <2> QED
      BY <2>1, <2>2, <2>3
  <1>4. CASE task[t].call = "stop" /\ ~Trigger(t)
    <2>1. /\ \A e \in task[t].todo: venue[e[1]] = e[2]
          /\ task[t].pc = "matching" =>
               Closes(o) /\ \A e \in task[t].todo: e[1] # o.symbol
          /\ \A s \in Symbols: Covered(s)
      BY <1>1, <1>4 DEF FlattenInv, StopInv
    <2>2. task[t].pc \in {"flattening", "matching"}
      BY <1>4 DEF FlattenInv, CallInv
    <2>3. task[t].todo \subseteq Symbols \X Objects
      BY <1>0 DEF Task
    <2>4. ASSUME MatchNoPrice(t) \/ MatchRests(t) \/ MatchFills(t)
          PROVE  /\ task'[t].pc = "flattening" /\ task'[t].todo = task[t].todo
                 /\ task[t].cur \in Orders /\ IsReduceOnly(o) /\ Closes(o)
                 /\ task'[t].cur = None
                 /\ \A e \in task[t].todo: e[1] # o.symbol
                 /\ IsReduceOnly(order'[task[t].cur])
                      => order'[task[t].cur].state = "FILLED"
      <3>1. Returns(t) /\ task[t].pc = "matching"
        BY <2>4 DEF MatchNoPrice, MatchRests, MatchFills
      <3>2. task'[t].pc = "flattening" /\ task'[t].todo = task[t].todo
            /\ task'[t].cur = None
        BY <1>0, <1>4, <3>1 DEF Returns, Task
      <3>3. task[t].cur \in Orders
        BY <3>1, WaitedFor DEF Waiting
      <3>4. \A u \in Tasks: task'[u].pc \notin Waiting
        BY <3>2 DEF OneCaller, Waiting
      <3>5. IsReduceOnly(order'[task[t].cur])
              => order'[task[t].cur].state = "FILLED"
        BY <3>3, <3>4 DEF Clean
      <3> QED
        BY <2>1, <3>1, <3>2, <3>3, <3>5 DEF Closes
    <2>5. CASE MatchNoPrice(t) \/ MatchRests(t)
      <3>1. PICK st \in {"REJECTED", "ACKNOWLEDGED"}:
              order' = [order EXCEPT ![task[t].cur] = MoveTo(o, st)]
        BY <2>5 DEF MatchNoPrice, MatchRests
      <3>2. /\ order'[task[t].cur].state = st
            /\ order'[task[t].cur].effect = o.effect
        BY <1>0, <2>4, <2>5, <3>1 DEF MoveTo, Order
      <3> QED
        BY <2>4, <2>5, <3>2 DEF IsReduceOnly
    <2>6. CASE MatchFills(t)
      <3>0. PICK c \in Orders: c = task[t].cur
        BY <2>4, <2>6
      <3>1. PICK s: c = task[t].cur /\ s = order[c].symbol
        BY <3>0
      <3>2. order'[c].effect = order[c].effect
        <4>1. PICK q \in FillQuantities(order[c]):
                order' = [order EXCEPT
                            ![c] = ApplyFill(MoveTo(order[c], "ACKNOWLEDGED"),
                                             q)]
          BY <2>6, <3>1 DEF MatchFills
        <4> QED
          BY <1>0, <4>1 DEF ApplyFill, MoveTo, Order
      <3>3. order'[c].state = "FILLED" /\ Closes(order[c])
        BY <2>4, <2>6, <3>1, <3>2 DEF IsReduceOnly
      <3>4. /\ s \in Symbols /\ venue'[s] = None
            /\ \A r \in Symbols: r # s => /\ venue'[r] = venue[r]
                                          /\ NetOf(venue, r)' = NetOf(venue, r)
        BY <2>6, <3>1, <3>3, FillMoves DEF FlattenInv
      <3>5. \A e \in task[t].todo: e[1] \in Symbols /\ e[1] # s
        BY <2>3, <2>4, <2>6, <3>1
      <3>6. \A e \in task'[t].todo: venue'[e[1]] = e[2]
        BY <2>1, <2>4, <2>6, <3>4, <3>5
      <3>7. NetOf(venue, s)' = 0
        BY <3>4 DEF NetOf
      <3>8. \A r \in Symbols: NetOf(venue, r)' = 0
                              \/ \E e \in task'[t].todo: e[1] = r
        BY <2>1, <2>4, <2>6, <3>1, <3>4, <3>7
      <3> QED
        BY <2>4, <2>6, <3>6, <3>8
    <2>7. CASE SkipFlat(t)
      <3>1. PICK e \in task[t].todo:
              /\ IsFlat(heap[e[2]]) /\ task[t].pc = "flattening"
              /\ task' = [task EXCEPT ![t].todo = @ \ {e}]
              /\ UNCHANGED <<heap, venue, order>>
        BY <2>7 DEF SkipFlat, books
      <3>2. /\ task'[t].todo = task[t].todo \ {e} /\ task'[t].pc = task[t].pc
        BY <1>0, <3>1 DEF Task
      <3>3. /\ e[1] \in Symbols /\ e[2] \in Objects /\ venue[e[1]] = e[2]
        BY <2>1, <2>3, <3>1
      <3>4. NetOf(venue, e[1]) = 0
        BY <1>0, <3>1, <3>3, FlatIsZero DEF NetOf, FlattenInv, HeapInv
      <3>5. NetOf(venue, e[1])' = 0
            /\ \A s \in Symbols: NetOf(venue, s)' = NetOf(venue, s)
        BY <3>1, <3>4 DEF NetOf
      <3>6. \A s \in Symbols: Covered(s)'
        BY <2>1, <3>1, <3>2, <3>5
      <3> QED
        BY <2>1, <3>1, <3>2, <3>6
    <2>8. CASE FlattenNext(t)
      <3>1. PICK e \in task[t].todo, c \in Orders:
              /\ ~IsFlat(heap[e[2]]) /\ IsNextId(c)
              /\ task[t].pc = "flattening"
              /\ UNCHANGED <<heap, venue>>
              /\ \/ /\ RiskRejects(c, Closing(e[1], heap[e[2]]))
                    /\ task' = [task EXCEPT ![t].todo = task[t].todo \ {e}]
                 \/ /\ Sends(c, Closing(e[1], heap[e[2]]))
                    /\ task' = [task EXCEPT ![t].pc = "matching", ![t].cur = c,
                                            ![t].todo = task[t].todo \ {e}]
        BY <2>8 DEF FlattenNext, books
      <3>2. /\ task'[t].todo = task[t].todo \ {e}
        BY <1>0, <3>1 DEF Task
      <3>3. /\ e[1] \in Symbols /\ e[2] \in Objects /\ venue[e[1]] = e[2]
        BY <2>1, <2>3, <3>1
      <3>4. CASE /\ RiskRejects(c, Closing(e[1], heap[e[2]]))
                 /\ task' = [task EXCEPT ![t].todo = task[t].todo \ {e}]
        <4>1. order'[c].state = "REJECTED" /\ IsReduceOnly(order'[c])
          BY <1>0, <3>4 DEF RiskRejects, Closing, Draft, MoveTo, IsReduceOnly
        <4>2. task'[t].pc = "flattening"
          BY <1>0, <3>1, <3>4 DEF Task
        <4> QED
          BY <4>1, <4>2 DEF Clean, OneCaller, Waiting
      <3>5. CASE /\ Sends(c, Closing(e[1], heap[e[2]]))
                 /\ task' = [task EXCEPT ![t].pc = "matching", ![t].cur = c,
                                         ![t].todo = task[t].todo \ {e}]
        <4>1. task'[t].pc = "matching" /\ task'[t].cur = c
          BY <1>0, <3>5 DEF Task
        <4>2. order'[c] = MoveTo(MoveTo(Closing(e[1], heap[e[2]]),
                                        "PRE_TRADE_OK"), "SUBMITTED")
          BY <1>0, <3>5 DEF Sends
        <4>3. /\ order'[c].symbol = e[1] /\ order'[c].effect = "reduce"
              /\ order'[c].qty = heap[e[2]].qty
              /\ order'[c].side = IF heap[e[2]].side = "LONG" THEN "sell"
                                                             ELSE "buy"
          BY <4>2 DEF Closing, Draft, MoveTo
        <4>4. None \notin Objects
          BY ConstantsAssumption DEF ConstantsAssumption
        <4>5. Closes(order[task[t].cur])'
          BY <3>1, <3>3, <4>1, <4>3, <4>4 DEF Closes, IsReduceOnly
        <4>6. \A f \in task'[t].todo: f[1] # order'[c].symbol
          <5>1. ASSUME NEW f \in task[t].todo, f[1] = e[1] PROVE f = e
            BY <2>1, <2>3, <3>1, <5>1
          <5> QED
            BY <3>2, <4>3, <5>1
        <4>7. \A s \in Symbols: NetOf(venue, s)' = NetOf(venue, s)
          BY <3>1 DEF NetOf
        <4>8. \A s \in Symbols: Covered(s)'
          BY <2>1, <3>1, <3>2, <4>1, <4>3, <4>7
        <4> QED
          BY <2>1, <3>1, <3>2, <4>1, <4>5, <4>6, <4>8
      <3> QED
        BY <3>1, <3>4, <3>5
    <2>9. \/ SkipFlat(t) \/ FlattenNext(t) \/ MatchNoPrice(t) \/ MatchRests(t)
          \/ MatchFills(t)
      <3>1. /\ ~Open(t) /\ ~Sync(t) /\ ~ClosePosition(t) /\ ~EmergencyStop(t)
            /\ ~CancelOrder(t) /\ ~SubmitAlgo(t)
        BY <2>2 DEF Open, Sync, ClosePosition, EmergencyStop, CancelOrder,
                    SubmitAlgo
      <3>2. ~NextSlice(t) /\ ~RouteSlice(t) /\ ~AlgoEnds(t) /\ ~Abandon(t)
        BY <1>4, <2>2 DEF NextSlice, RouteSlice, AlgoEnds, Abandon
      <3> QED
        BY <1>4, <3>1, <3>2 DEF Step
    <2> QED
      BY <2>5, <2>6, <2>7, <2>8, <2>9
  <1> QED
    BY <1>2, <1>3, <1>4

\* The end of a clean stop leaves nothing, and a locked engine that is clean
\* has nothing to close and lets nothing be opened.
LEMMA LockStep ==
    ASSUME OneCaller, IInv, FlattenInv, NEW t \in Tasks, Step(t)
    PROVE  LockInv'
  <1>0. /\ task \in [Tasks -> Task] /\ heap \in [Objects -> Position]
        /\ venue \in [Symbols -> Objects \cup {None}]
    BY DEF IInv, TypeOK
  <1> SUFFICES ASSUME locked', Clean', task'[t].call # "stop"
               PROVE  /\ \A s \in Symbols: NetOf(venue, s)' = 0
                      /\ task'[t].pc = "idle"
    BY DEF LockInv, OneCaller
  <1>1. Clean
    BY CleanBefore
  <1>2. CASE Trigger(t)
    <2>1. /\ task[t].call = "stop" /\ task[t].pc = "flattening"
          /\ task[t].todo = {}
      BY <1>2 DEF Trigger, FlattenInv, CallInv
    <2>2. \A s \in Symbols: NetOf(venue, s) = 0
      BY <1>1, <2>1 DEF FlattenInv, StopInv
    <2>3. UNCHANGED <<venue, heap>> /\ task'[t].pc = "idle"
      BY <1>0, <1>2 DEF Trigger, books, Ends, Idle
    <2> QED
      BY <2>2, <2>3 DEF NetOf
  <1>3. CASE ~Trigger(t)
    <2>1. locked
      BY <1>3 DEF Step, Open, Sync, ClosePosition, EmergencyStop, SkipFlat,
                  FlattenNext, MatchNoPrice, MatchRests, MatchFills, Abandon,
                  CancelOrder, SubmitAlgo, NextSlice, RouteSlice, AlgoEnds
    <2>2. task[t].call # "stop"
      <3> SUFFICES ASSUME task[t].call = "stop" PROVE FALSE
        OBVIOUS
      <3>1. task[t].pc \in {"flattening", "matching"}
        BY DEF FlattenInv, CallInv
      <3>2. \/ SkipFlat(t) \/ FlattenNext(t) \/ MatchNoPrice(t) \/ MatchRests(t)
            \/ MatchFills(t)
        <4>1. /\ ~Open(t) /\ ~Sync(t) /\ ~ClosePosition(t) /\ ~EmergencyStop(t)
              /\ ~CancelOrder(t) /\ ~SubmitAlgo(t)
          BY <3>1 DEF Open, Sync, ClosePosition, EmergencyStop, CancelOrder,
                      SubmitAlgo
        <4>2. ~NextSlice(t) /\ ~RouteSlice(t) /\ ~AlgoEnds(t) /\ ~Abandon(t)
          BY <3>1 DEF NextSlice, RouteSlice, AlgoEnds, Abandon
        <4> QED
          BY <1>3, <4>1, <4>2 DEF Step
      <3>3. CASE SkipFlat(t)
        BY <1>0, <3>3 DEF SkipFlat, Task
      <3>4. CASE FlattenNext(t)
        BY <1>0, <3>4 DEF FlattenNext, Task
      <3>5. CASE MatchNoPrice(t) \/ MatchRests(t) \/ MatchFills(t)
        BY <1>0, <3>5 DEF MatchNoPrice, MatchRests, MatchFills, Returns, Task
      <3> QED
        BY <3>2, <3>3, <3>4, <3>5
    <2>3. /\ \A s \in Symbols: NetOf(venue, s) = 0
          /\ task[t].pc = "idle" /\ task[t].call = "none"
      BY <1>1, <2>1, <2>2 DEF FlattenInv, LockInv, OneCaller, CallInv
    <2>4. ~Open(t) /\ ~SubmitAlgo(t)
      BY <2>1 DEF Open, SubmitAlgo, Refused
    <2>5. ~ClosePosition(t)
      <3> SUFFICES ASSUME ClosePosition(t) PROVE FALSE
        OBVIOUS
      <3>1. PICK s \in Symbols: venue[s] # None /\ ~IsFlat(heap[venue[s]])
        BY DEF ClosePosition, Synced
      <3>2. heap[venue[s]] \in Position /\ WellFormed(heap[venue[s]])
        BY <1>0, <3>1 DEF FlattenInv, HeapInv
      <3> QED
        BY <2>3, <3>1, <3>2, FlatIsZero DEF NetOf
    <2>6. /\ ~SkipFlat(t) /\ ~FlattenNext(t) /\ ~MatchNoPrice(t)
          /\ ~MatchRests(t) /\ ~MatchFills(t) /\ ~Abandon(t)
          /\ ~NextSlice(t) /\ ~RouteSlice(t) /\ ~AlgoEnds(t)
      BY <2>3 DEF SkipFlat, FlattenNext, MatchNoPrice, MatchRests, MatchFills,
                  Abandon, NextSlice, RouteSlice, AlgoEnds
    <2>7. ~EmergencyStop(t)
      <3>1. ASSUME NEW T, EmergencyStop(t),
                   T = {<<s, portfolio'[s]>> :
                          s \in {r \in Symbols : portfolio'[r] # None}}
            PROVE  FALSE
        <4>1. task' = [task EXCEPT ![t] = [pc |-> "flattening",
                                           call |-> "stop", cur |-> None,
                                           todo |-> T, parent |-> None]]
          BY <3>1 DEF EmergencyStop
        <4> QED
          BY <1>0, <4>1
      <3> QED
        BY <3>1
    <2>8. CASE Sync(t) \/ CancelOrder(t)
      <3>1. UNCHANGED <<venue, heap, task>>
        BY <2>8 DEF Sync, CancelOrder, books
      <3> QED
        BY <2>3, <3>1 DEF NetOf
    <2> QED
      BY <1>3, <2>4, <2>5, <2>6, <2>7, <2>8 DEF Step
  <1> QED
    BY <1>2, <1>3

\* One caller at a time: a stop that ends without a flatten order refused,
\* resting or filled in part has left the venue without a position, and no
\* call the lock lets through brings one back, whatever was synced, sliced or
\* closed before (core/oms_engine.py:413-466).
THEOREM EngineStopFlattens ==
    ASSUME OneCaller
    PROVE  Spec => []StopFlattens
  <1>1. Init => FlattenInv
    <2>1. /\ WellFormed(NewPosition)
          /\ Idle.pc = "idle" /\ Idle.call = "none"
      BY DEF WellFormed, NewPosition, Idle
    <2> QED
      BY <2>1 DEF Init, FlattenInv, HeapInv, Apart, CallInv, StopInv, LockInv
  <1>2. IInv /\ FlattenInv /\ [Next]_vars => FlattenInv'
    <2> SUFFICES ASSUME IInv, FlattenInv, [Next]_vars PROVE FlattenInv'
      OBVIOUS
    <2>1. CASE UNCHANGED vars
      BY <2>1 DEF vars, FlattenInv, HeapInv, Apart, CallInv, StopInv, LockInv,
                  Clean, Closes, NetOf
    <2>2. CASE Next
      <3>1. PICK t \in Tasks: Step(t)
        BY <2>2 DEF Next
      <3>2. HeapInv' /\ CallInv'
        BY <3>1, HeapStep, CallStep DEF FlattenInv
      <3>3. StopInv' /\ LockInv'
        BY <3>1, StopStep, LockStep
      <3> QED
        BY <3>2, <3>3 DEF FlattenInv
    <2> QED
      BY <2>1, <2>2
  <1>3. FlattenInv => StopFlattens
    <2> SUFFICES ASSUME FlattenInv, locked,
                        \A t \in Tasks: task[t].pc = "idle",
                        \A c \in Orders: IsReduceOnly(order[c])
                                           => order[c].state = "FILLED"
                 PROVE  \A s \in Symbols: NetOf(venue, s) = 0
      BY DEF StopFlattens
    <2>1. Clean /\ \A t \in Tasks: task[t].call # "stop"
      BY DEF FlattenInv, CallInv, Clean
    <2> QED
      BY <2>1 DEF FlattenInv, LockInv
  <1> QED
    BY <1>1, <1>2, <1>3, EngineInvariant, PTL DEF Spec

==============================================================================
