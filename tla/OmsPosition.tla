------------------------------ MODULE OmsPosition ------------------------------
(* A position object of xmlx_vlm/ai_trader/oms/core/position.py: side,      *)
(* quantity, average entry price and realized profit, and what a fill does  *)
(* to them.  Prices are integers; Decimal division is exact in the code and *)
(* the configurations choose prices for which \div is exact too.            *)
EXTENDS Integers

PositionSides == {"FLAT", "LONG", "SHORT"}
Position == [side : PositionSides, qty : Nat, avg : Int, realized : Int]

NewPosition == [side |-> "FLAT", qty |-> 0, avg |-> 0, realized |-> 0]

IsFlat(p) == p.side = "FLAT" \/ p.qty = 0

Increase(p, q, price) ==
  IF q <= 0 THEN p
  ELSE [p EXCEPT !.side = IF p.side = "SHORT" THEN "SHORT" ELSE "LONG",
                 !.qty = p.qty + q,
                 !.avg = (p.avg * p.qty + price * q) \div (p.qty + q)]

Decrease(p, q, price) ==
  LET closed == IF q < p.qty THEN q ELSE p.qty
      pnl == closed * (IF p.side = "LONG" THEN price - p.avg
                                          ELSE p.avg - price)
  IN  IF closed <= 0 THEN p
      ELSE IF closed = p.qty
      THEN [side |-> "FLAT", qty |-> 0, avg |-> 0,
            realized |-> p.realized + pnl]
      ELSE [p EXCEPT !.qty = p.qty - closed, !.realized = p.realized + pnl]

FillSide(side) == IF side = "buy" THEN "LONG" ELSE "SHORT"

\* A slip of a plausible kind: an opposite fill is only subtracted.
FillSubtracted(p, side, q, price) ==
  IF IsFlat(p) \/ FillSide(side) = p.side
  THEN Increase([p EXCEPT !.side = FillSide(side)], q, price)
  ELSE [p EXCEPT !.qty = @ - q]

\* Another: a position is closed, but never turned around.
FillOnlyCloses(p, side, q, price) ==
  IF IsFlat(p) \/ FillSide(side) = p.side
  THEN Increase([p EXCEPT !.side = FillSide(side)], q, price)
  ELSE Decrease(p, q, price)

\* Position.apply_fill: same side adds, opposite side closes, and what is
\* left of a larger opposite fill opens the other side.
Fill(p, side, q, price) ==
  LET turned(old) == [old EXCEPT !.side = FillSide(side)]
  IN  IF IsFlat(p) \/ FillSide(side) = p.side
      THEN Increase(turned(p), q, price)
      ELSE IF q <= p.qty THEN Decrease(p, q, price)
      ELSE Increase(turned(Decrease(p, p.qty, price)), q - p.qty, price)

\* The position as one signed number.
Net(p) == IF p.side = "LONG" THEN p.qty
          ELSE IF p.side = "SHORT" THEN -p.qty ELSE 0
===============================================================================
