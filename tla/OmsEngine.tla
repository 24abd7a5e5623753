------------------------------ MODULE OmsEngine ------------------------------
(* The order manager (oms/core/oms_engine.py) over the paper venue           *)
(* (oms/execution/paper/adapter.py), used by several asyncio tasks.  Every   *)
(* await that can suspend is a boundary between two actions: a submit stops  *)
(* in the venue's latency or in its market-data reads, an algorithm between  *)
(* two slices, and nothing else gives the event loop back.                   *)
(*                                                                           *)
(* The portfolio of the engine and the position book of the venue are two    *)
(* dictionaries of Position objects, and sync() makes them share objects:    *)
(* objects are therefore modelled, with their identity.                      *)
EXTENDS OmsOrder, OmsPosition, FiniteSets

CONSTANTS Orders,    \* client order ids, taken in increasing order
          OpenIds,   \* the ids a strategy or an algorithm may take (a bound)
          Tasks,     \* coroutines calling the engine
          Symbols,
          Objects,   \* Position objects (a bound)
          None,
          MaxQty,    \* the largest quantity a strategy orders (a bound)
          Tifs,      \* the times in force the callers use
          Calls      \* the operations the callers use

ASSUME ConstantsAssumption ==
  /\ Orders \subseteq Nat /\ OpenIds \subseteq Orders
  /\ Objects \subseteq Nat /\ None \notin Objects \cup Orders
  /\ \A s \in Symbols, d \in Sides: [symbol |-> s, side |-> d] # None
  /\ MaxQty \in Nat /\ Tifs \subseteq TimesInForce
  /\ Calls \subseteq {"open", "close", "stop", "cancel", "sync", "algo",
                      "abandon"}

VARIABLES order,       \* order[c]: the Order object with client id c
          orders,      \* the keys of OMSEngine._orders
          venueOrders, \* the keys of PaperExecutionAdapter._orders
          heap,        \* heap[x]: the Position object x
          portfolio,   \* Portfolio._positions: symbol -> object or None
          venue,       \* PaperExecutionAdapter._positions, likewise
          locked,      \* KillSwitch._locked
          tripped,     \* one of the three circuit breakers is tripped
          task,        \* task[t]: what coroutine t is doing
          net,         \* history: what the fills of a symbol add up to
          cancelled    \* history: replies of cancel_order, by order

books == <<heap, portfolio, venue, net>>
vars == <<order, orders, venueOrders, heap, portfolio, venue, locked, tripped,
          task, net, cancelled>>

Price == 1
Idle == [pc |-> "idle", call |-> "none", cur |-> None, todo |-> {},
         parent |-> None]

Init ==
  /\ order = [c \in Orders |-> Unused]
  /\ orders = {} /\ venueOrders = {}
  /\ heap = [x \in Objects |-> NewPosition]
  /\ portfolio = [s \in Symbols |-> None]
  /\ venue = [s \in Symbols |-> None]
  /\ locked = FALSE /\ tripped = FALSE
  /\ task = [t \in Tasks |-> Idle]
  /\ net = [s \in Symbols |-> 0]
  /\ cancelled = [c \in Orders |-> "none"]

------------------------------------------------------------------------------
(* Helpers *)

\* emergency_stop works through its list of positions without suspending,
\* except inside a submit: while one task is there no other one runs.
LoopIsFree == \A t \in Tasks: task[t].pc # "flattening"

Ends(t) == task' = [task EXCEPT ![t] = Idle]
Awaits(t, pc, c) == task' = [task EXCEPT ![t].pc = pc, ![t].cur = c]

\* A slip: an id may be given out twice.
IsNextIdAgain(c) == \A d \in Orders: order[d] = Unused => c <= d

IsNextId(c) == /\ order[c] = Unused
               /\ \A d \in Orders: order[d] = Unused => c <= d

\* The two lowest objects no dictionary and no local list refers to.
Referenced == {portfolio[s] : s \in Symbols} \cup {venue[s] : s \in Symbols}
              \cup UNION {{e[2] : e \in task[t].todo} : t \in Tasks}
AreNextObjects(x, y) ==
  /\ x \notin Referenced /\ y \notin Referenced /\ x < y
  /\ \A z \in Objects \ Referenced: z = x \/ y <= z

\* setdefault(symbol, Position(symbol)): the object a fill goes to.
Target(book, s, fresh) == IF book[s] = None THEN fresh ELSE book[s]
\* apply_fill on it, on a heap h.
Filled(h, book, s, fresh, side, q) ==
  LET x == Target(book, s, fresh)
      old == IF book[s] = None THEN NewPosition ELSE h[x]
  IN  [h EXCEPT ![x] = Fill(old, side, q, Price)]
\* if pos.is_flat(): pop(symbol).
Booked(h, book, s, fresh) ==
  LET x == Target(book, s, fresh)
  IN  [book EXCEPT ![s] = IF IsFlat(h[x]) THEN None ELSE x]

SignedQty(side, q) == IF side = "buy" THEN q ELSE -q

\* The states in which submit_order hands the fills to _process_fill.
ProcessedStates == {"FILLED", "PARTIAL_FILLED"}

\* A fill reaches the venue's book only (a slice of an algorithm).
BookAtVenue(c, q, x) ==
  LET s == order[c].symbol
      side == order[c].side
  IN  /\ heap' = Filled(heap, venue, s, x, side, q)
      /\ venue' = Booked(heap', venue, s, x)
      /\ net' = [net EXCEPT ![s] = @ + SignedQty(side, q)]
      /\ UNCHANGED portfolio

\* A fill reaches the venue's book and then, through _process_fill, the
\* portfolio: one object is filled twice when the books share it.
BookBoth(c, q, x, y) ==
  LET s == order[c].symbol
      side == order[c].side
      h == Filled(heap, venue, s, x, side, q)
  IN  /\ heap' = Filled(h, portfolio, s, y, side, q)
      /\ venue' = Booked(h, venue, s, x)
      /\ portfolio' = Booked(heap', portfolio, s, y)
      /\ net' = [net EXCEPT ![s] = @ + SignedQty(side, q)]

------------------------------------------------------------------------------
(* submit_order, from its entry to the await on the venue *)

\* The kill switch and the circuits let reduce-only orders through.
Refused(effect) == (locked \/ tripped) /\ effect # "reduce"

RiskRejects(c, o) ==
  /\ order' = [order EXCEPT ![c] = MoveTo(o, "REJECTED")]
  /\ orders' = orders \cup {c}

Sends(c, o) ==
  /\ order' = [order EXCEPT ![c] = MoveTo(MoveTo(o, "PRE_TRADE_OK"),
                                          "SUBMITTED")]
  /\ UNCHANGED orders

\* A strategy, the web server or the trading tool submits an order of its own.
Open(t) ==
  /\ "open" \in Calls /\ LoopIsFree
  /\ task[t].pc = "idle" /\ ~Refused("any")
  /\ \E c \in OpenIds, s \in Symbols, side \in Sides, q \in 1 .. MaxQty,
        tif \in Tifs:
       /\ IsNextId(c)
       /\ LET o == Draft(s, side, q, "any", tif)
          IN  \/ RiskRejects(c, o) /\ UNCHANGED task
              \/ Sends(c, o) /\ Awaits(t, "matching", c)
  /\ UNCHANGED <<books, venueOrders, locked, tripped, cancelled>>

\* sync(): the portfolio takes the venue's own Position objects.
Synced == portfolio' = venue

Sync(t) ==
  /\ "sync" \in Calls /\ LoopIsFree /\ task[t].pc = "idle"
  /\ Synced
  /\ UNCHANGED <<order, orders, venueOrders, heap, venue, locked, tripped,
                 task, net, cancelled>>

\* A slip: a short position is closed like a long one.
ClosingLong(s, p) == Draft(s, "sell", p.qty, "reduce", "GTC")

\* The order that closes position p; reduce_only exempts it from the lock.
Closing(s, p) == Draft(s, IF p.side = "LONG" THEN "sell" ELSE "buy", p.qty,
                       "reduce", "GTC")

\* close_position(): sync, look the position up, close what is there.
ClosePosition(t) ==
  /\ "close" \in Calls /\ LoopIsFree /\ task[t].pc = "idle"
  /\ Synced
  /\ \E s \in Symbols, c \in Orders:
       /\ portfolio'[s] # None /\ ~IsFlat(heap[portfolio'[s]])
       /\ IsNextId(c)
       /\ LET o == Closing(s, heap[portfolio'[s]])
          IN  \/ RiskRejects(c, o) /\ UNCHANGED task
              \/ Sends(c, o) /\ Awaits(t, "matching", c)
  /\ UNCHANGED <<venueOrders, heap, venue, locked, tripped, net, cancelled>>

------------------------------------------------------------------------------
(* emergency_stop: sync, close every position in turn, then lock *)

\* A bound: a stop begins only while ids are left for its flatten orders.
IdsAreLeft ==
  Cardinality({c \in Orders \ OpenIds : order[c] = Unused})
    >= Cardinality(Symbols)
       * (1 + Cardinality({t \in Tasks : task[t].call = "stop"}))

EmergencyStop(t) ==
  /\ "stop" \in Calls /\ LoopIsFree /\ task[t].pc = "idle"
  /\ IdsAreLeft
  /\ Synced
  /\ task' = [task EXCEPT
                ![t] = [pc |-> "flattening", call |-> "stop", cur |-> None,
                        todo |-> {<<s, portfolio'[s]>> :
                                    s \in {r \in Symbols :
                                             portfolio'[r] # None}},
                        parent |-> None]]
  /\ UNCHANGED <<order, orders, venueOrders, heap, venue, locked, tripped,
                 net, cancelled>>

\* pos.is_flat(): the loop reads the object when it gets to it.
SkipFlat(t) ==
  /\ task[t].pc = "flattening"
  /\ \E e \in task[t].todo:
       /\ IsFlat(heap[e[2]])
       /\ task' = [task EXCEPT ![t].todo = @ \ {e}]
  /\ UNCHANGED <<order, orders, venueOrders, books, locked, tripped,
                 cancelled>>

\* A refused order is logged and the loop goes on.
FlattenNext(t) ==
  /\ task[t].pc = "flattening"
  /\ \E e \in task[t].todo, c \in Orders:
       /\ ~IsFlat(heap[e[2]]) /\ IsNextId(c)
       /\ LET o == Closing(e[1], heap[e[2]])
              rest == task[t].todo \ {e}
          IN  \/ /\ RiskRejects(c, o)
                 /\ task' = [task EXCEPT ![t].todo = rest]
              \/ /\ Sends(c, o)
                 /\ task' = [task EXCEPT ![t].pc = "matching", ![t].cur = c,
                                         ![t].todo = rest]
  /\ UNCHANGED <<books, venueOrders, locked, tripped, cancelled>>

\* A slip: the lock is set only when every flatten order went through.
TriggerIfClean(t) ==
  /\ task[t].pc = "flattening" /\ task[t].todo = {}
  /\ locked' = (locked \/ \A c \in Orders: IsReduceOnly(order[c])
                                              => order[c].state = "FILLED")
  /\ Ends(t)
  /\ UNCHANGED <<order, orders, venueOrders, books, tripped, cancelled>>

\* kill_switch.trigger(): the last thing the stop does.
Trigger(t) ==
  /\ task[t].pc = "flattening" /\ task[t].todo = {}
  /\ locked' = TRUE
  /\ Ends(t)
  /\ UNCHANGED <<order, orders, venueOrders, books, tripped, cancelled>>

------------------------------------------------------------------------------
(* The venue answers: the rest of adapter.submit, and of its caller *)

\* submit_order returns to its caller; a stop goes on with its loop.
Returns(t) ==
  task' = [task EXCEPT ![t] =
             CASE task[t].call = "stop" -> [@ EXCEPT !.pc = "flattening",
                                                     !.cur = None]
               [] task[t].call = "algo" -> [@ EXCEPT !.pc = "slicing",
                                                     !.cur = None]
               [] OTHER -> Idle]

\* A slip: an order that rests is not entered.
RegisteredFilled(t, c) ==
  orders' = IF task[t].call = "algo" \/ order'[c].state = "ACKNOWLEDGED"
            THEN orders ELSE orders \cup {c}

\* Only submit_order enters the order in OMSEngine._orders: the algorithms
\* are given _on_algo_child_update and never call it.
Registered(t, c) ==
  orders' = IF task[t].call = "algo" THEN orders ELSE orders \cup {c}

\* PaperMatcher: no price for the symbol.
MatchNoPrice(t) ==
  /\ task[t].pc = "matching" /\ LoopIsFree
  /\ LET c == task[t].cur
     IN  /\ order' = [order EXCEPT ![c] = MoveTo(@, "REJECTED")]
         /\ venueOrders' = venueOrders \cup {c}
         /\ Registered(t, c)
  /\ Returns(t)
  /\ UNCHANGED <<books, locked, tripped, cancelled>>

\* The price is not touched, or the book is empty: the order stays, whatever
\* its time in force.
MatchRests(t) ==
  /\ task[t].pc = "matching" /\ LoopIsFree
  /\ LET c == task[t].cur
     IN  /\ order' = [order EXCEPT ![c] = MoveTo(@, "ACKNOWLEDGED")]
         /\ venueOrders' = venueOrders \cup {c}
         /\ Registered(t, c)
  /\ Returns(t)
  /\ UNCHANGED <<books, locked, tripped, cancelled>>

\* What the depth of the book lets through.
FillQuantities(o) == IF o.tif = "FOK" THEN {o.qty} ELSE 1 .. o.qty

\* The fill; _process_fill may find that a circuit has to trip.
MatchFills(t) ==
  /\ task[t].pc = "matching" /\ LoopIsFree
  /\ \E q \in FillQuantities(order[task[t].cur]), x, y \in Objects:
       LET c == task[t].cur
           o == ApplyFill(MoveTo(order[c], "ACKNOWLEDGED"), q)
       IN  /\ AreNextObjects(x, y)
           /\ order' = [order EXCEPT ![c] = o]
           /\ venueOrders' = venueOrders \cup {c}
           /\ Registered(t, c)
           /\ IF task[t].call # "algo" /\ o.state \in ProcessedStates
              THEN BookBoth(c, q, x, y) /\ tripped' \in {tripped, TRUE}
              ELSE BookAtVenue(c, q, x) /\ UNCHANGED tripped
  /\ Returns(t)
  /\ UNCHANGED <<locked, cancelled>>

\* The strategy's own task is cancelled (stop()) while it awaits the venue.
Abandon(t) ==
  /\ "abandon" \in Calls /\ LoopIsFree
  /\ task[t].pc = "matching" /\ task[t].call = "none"
  /\ Ends(t)
  /\ UNCHANGED <<order, orders, venueOrders, books, locked, tripped,
                 cancelled>>

------------------------------------------------------------------------------
(* cancel_order: the venue moves the same Order object to CANCELLED, so the *)
(* engine's own transition_to(CANCELLED) raises OrderStateError             *)

\* A slip: the venue does not look whether the order is done.
CancelledAtVenueAlways(o) ==
  IF o.state = "UNUSED" THEN o ELSE MoveTo(o, "CANCELLED")

\* PaperExecutionAdapter.cancel.
CancelledAtVenue(o) == IF IsDone(o) THEN o ELSE MoveTo(o, "CANCELLED")

CancelReply(asked, after) ==
  IF after = asked THEN "failed"
  ELSE IF CanMove(after, "CANCELLED") THEN "cancelled" ELSE "raised"

CancelOrder(t) ==
  /\ "cancel" \in Calls /\ LoopIsFree /\ task[t].pc = "idle"
  /\ \E c \in orders \cap venueOrders:
       LET asked == IF IsDone(order[c]) THEN order[c]
                    ELSE MoveTo(order[c], "CANCEL_REQUESTED")
       IN  /\ IsDone(order[c]) \/ CanMove(order[c], "CANCEL_REQUESTED")
           /\ order' = [order EXCEPT ![c] = CancelledAtVenue(asked)]
           /\ cancelled' = [cancelled EXCEPT ![c] =
                              CancelReply(asked, order'[c])]
  /\ UNCHANGED <<orders, venueOrders, books, locked, tripped, task>>

------------------------------------------------------------------------------
(* submit_algo: the checks are made once, then the algorithm's own task     *)
(* sends one slice after another through the router                         *)

SubmitAlgo(t) ==
  /\ "algo" \in Calls /\ LoopIsFree
  /\ task[t].pc = "idle" /\ ~Refused("any")
  /\ \E s \in Symbols, side \in Sides:
       task' = [task EXCEPT ![t].pc = "slicing", ![t].call = "algo",
                            ![t].parent = [symbol |-> s, side |-> side]]
  /\ UNCHANGED <<order, orders, venueOrders, books, locked, tripped,
                 cancelled>>

\* SmartOrderRouter.submit up to its market-data reads.
NextSlice(t) ==
  /\ task[t].pc = "slicing" /\ LoopIsFree
  /\ \E c \in OpenIds, q \in 1 .. MaxQty, tif \in Tifs:
       /\ IsNextId(c)
       /\ order' = [order EXCEPT ![c] =
                      MoveTo(Draft(task[t].parent.symbol, task[t].parent.side,
                                   q, "any", tif), "SENT")]
       /\ Awaits(t, "routing", c)
  /\ UNCHANGED <<orders, venueOrders, books, locked, tripped, cancelled>>

\* The expected slippage decides; a quote that cannot be had leaves the
\* child as it is.
RouteSlice(t) ==
  /\ task[t].pc = "routing" /\ LoopIsFree
  /\ LET c == task[t].cur
     IN  \/ /\ order' = [order EXCEPT ![c] = MoveTo(@, "SUBMITTED")]
            /\ Awaits(t, "matching", c)
         \/ /\ order' = [order EXCEPT ![c] = MoveTo(@, "REJECTED")]
            /\ Returns(t)
         \/ UNCHANGED order /\ Returns(t)
  /\ UNCHANGED <<orders, venueOrders, books, locked, tripped, cancelled>>

\* The last slice was sent, or cancel_algo cancels the task at an await.
AlgoEnds(t) ==
  /\ task[t].call = "algo" /\ LoopIsFree
  /\ Ends(t)
  /\ UNCHANGED <<order, orders, venueOrders, books, locked, tripped,
                 cancelled>>

------------------------------------------------------------------------------
(* The specification *)

Step(t) ==
  \/ Open(t) \/ Sync(t) \/ ClosePosition(t)
  \/ EmergencyStop(t) \/ SkipFlat(t) \/ FlattenNext(t) \/ Trigger(t)
  \/ MatchNoPrice(t) \/ MatchRests(t) \/ MatchFills(t) \/ Abandon(t)
  \/ CancelOrder(t)
  \/ SubmitAlgo(t) \/ NextSlice(t) \/ RouteSlice(t) \/ AlgoEnds(t)

Next == \E t \in Tasks: Step(t)

Spec == Init /\ [][Next]_vars

\* An await on the venue ends, and the loop runs the task that is ready.
Resumption(t) == \/ MatchNoPrice(t) \/ MatchRests(t) \/ MatchFills(t)
                 \/ SkipFlat(t) \/ FlattenNext(t) \/ Trigger(t)

FairSpec == Spec /\ \A t \in Tasks: WF_vars(Resumption(t))

------------------------------------------------------------------------------
(* Correctness *)

Order == [state : OrderStates \cup {"UNUSED"}, symbol : Symbols \cup {"none"},
          side : Sides, qty : Nat, filled : Nat, effect : Effects,
          tif : TimesInForce]
Task == [pc : {"idle", "flattening", "matching", "slicing", "routing"},
         call : {"none", "stop", "algo"}, cur : Orders \cup {None},
         todo : SUBSET (Symbols \X Objects),
         parent : [symbol : Symbols, side : Sides] \cup {None}]

\* The variables hold what the code's fields can hold.
TypeOK ==
  /\ order \in [Orders -> Order]
  /\ orders \subseteq Orders /\ venueOrders \subseteq Orders
  /\ heap \in [Objects -> Position]
  /\ portfolio \in [Symbols -> Objects \cup {None}]
  /\ venue \in [Symbols -> Objects \cup {None}]
  /\ locked \in BOOLEAN /\ tripped \in BOOLEAN
  /\ task \in [Tasks -> Task]
  /\ net \in [Symbols -> Int]
  /\ cancelled \in [Orders -> {"none", "failed", "cancelled", "raised"}]

\* The order a coroutine waits for is still the one it sent: nobody else has
\* moved it, filled it or waits for it too.
InFlightIsOwned ==
  \A t \in Tasks:
    task[t].pc \in {"matching", "routing"} =>
      /\ task[t].cur \in Orders
      /\ order[task[t].cur].state = IF task[t].pc = "matching"
                                    THEN "SUBMITTED" ELSE "SENT"
      /\ order[task[t].cur].filled = 0
      /\ \A u \in Tasks \ {t}: task[u].cur # task[t].cur

\* What the engine and the venue know of: an order still SUBMITTED has a
\* coroutine waiting for its answer, and an order of the venue is one of
\* the engine's, so cancel_order can find it.
NothingIsLost ==
  /\ \A c \in Orders: order[c].state = "SUBMITTED" =>
       \E t \in Tasks: task[t].pc = "matching" /\ task[t].cur = c
  /\ venueOrders \subseteq orders

NetOf(book, s) == IF book[s] = None THEN 0 ELSE Net(heap[book[s]])

\* Without a sync both position books say what the fills add up to, in whatever
\* order the coroutines' fills arrive, add to a position, reduce it, close it or
\* turn it around.
BooksAgree ==
  \A s \in Symbols: NetOf(venue, s) = net[s] /\ NetOf(portfolio, s) = net[s]

\* One caller at a time: once a stop has ended, the venue holds no position
\* unless a flatten order was refused or not completely filled.
StopFlattens ==
  /\ locked
  /\ \A t \in Tasks: task[t].pc = "idle"
  /\ \A c \in Orders: IsReduceOnly(order[c]) => order[c].state = "FILLED"
  => \A s \in Symbols: NetOf(venue, s) = 0

\* The same of the engine's portfolio, which the callers of the stop are shown.
StopFlattensPortfolio ==
  /\ locked
  /\ \A t \in Tasks: task[t].pc = "idle"
  /\ \A c \in Orders: IsReduceOnly(order[c]) => order[c].state = "FILLED"
  => \A s \in Symbols: NetOf(portfolio, s) = 0

\* A cancel that took effect is answered as one.
CancelIsAnswered ==
  \A c \in Orders: order[c].state = "CANCELLED" => cancelled[c] # "raised"

\* A stop that has begun ends with the engine locked, whatever becomes of
\* its flatten orders.
StopLocks == \A t \in Tasks: (task[t].call = "stop") ~> locked

\* Each order goes through the life OrderLifecycle promises.
Phase(o) == IF o.state = "UNUSED" THEN "none"
            ELSE IF o.state = "FILLED" THEN "filled"
            ELSE IF IsDone(o) THEN "closed" ELSE "working"
Lifecycle == INSTANCE OrderLifecycle
  WITH phase <- [c \in Orders |-> Phase(order[c])],
       quantity <- [c \in Orders |-> order[c].qty],
       executed <- [c \in Orders |-> order[c].filled]
ImplementsLifecycle == Lifecycle!Spec
==============================================================================
