-------------------------- MODULE MCStockMovements --------------------------
(***************************************************************************)
(* Instances of StockMovements for TLC.  Item flour is a raw material, bun    *)
(* is sold and may not go negative, ghost is linked to no inventory item.   *)
(***************************************************************************)
EXTENDS StockMovements, TLC

CONSTANTS flour, bun, ghost, here, there, sold, gone, undone, back

Line(i, q) == [item |-> i, quantity |-> q]

Call(type, event, lines) ==
    [type |-> type, event |-> event, store |-> here, to |-> there, lines |-> lines]

Sale == Call("sale.completed", sold, <<Line(flour, 1), Line(bun, 2)>>)
GhostSale == Call("sale.completed", gone, <<Line(ghost, 1), Line(bun, 3)>>)
Void == Call("sale.voided", undone, <<Line(bun, 1), Line(flour, 1)>>)
SmallVoid == Call("sale.voided", undone, <<Line(bun, 1)>>)
Refund == Call("sale.refunded", back, <<Line(bun, 1)>>)
Waste == Call("waste", NoEvent, <<Line(bun, 1)>>)
Adjust == Call("adjust", NoEvent, <<Line(flour, -1)>>)
Move == Call("transfer", NoEvent, <<Line(bun, 1)>>)

AnyCall == {Sale, GhostSale, Void, Refund, Waste, Adjust, Move}
Stock(b, f) ==
    [i \in Items |-> [s \in Stores |->
        IF s # here THEN 0 ELSE IF i = bun THEN b ELSE IF i = flour THEN f ELSE 0]]
SomeStock == Stock(1, 1)
=============================================================================
