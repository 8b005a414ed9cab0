--------------------------- MODULE MCSaleLifecycle ---------------------------
(***************************************************************************)
(* Instances of SaleLifecycle for TLC: a sale at the table and a delivery.   *)
(***************************************************************************)
EXTENDS SaleLifecycle, TLC

CONSTANTS table, trip, ann, ben, p1, p2, tap1, tap2

Job(op, s) ==
    [op |-> op, sale |-> s, action |-> NoAction, to |-> "none",
     courier |-> NoCourier, phone |-> NoPhone, active |-> TRUE]
Ring(s, status, c) == [Job("ring", s) EXCEPT !.to = status, !.courier = c]
Move(s, status, c) == [Job("deliver", s) EXCEPT !.to = status, !.courier = c]
Correct(op, s, a) == [Job(op, s) EXCEPT !.action = a]
Hire(c, p) == [Job("hire", NoSale) EXCEPT !.courier = c, !.phone = p]
Edit(c, p, b) == [Job("edit", NoSale) EXCEPT !.courier = c, !.phone = p, !.active = b]
Fire(c) == [Job("fire", NoSale) EXCEPT !.courier = c]

Moves ==
    {Move(trip, "assigned", ann), Move(trip, "assigned", NoCourier),
     Move(trip, "out_for_delivery", ann), Move(trip, "delivered", NoCourier),
     Move(trip, "failed", NoCourier), Move(table, "failed", NoCourier)}
Riders ==
    {Hire(ann, p1), Hire(ben, p1), Edit(ann, p2, FALSE), Edit(ann, NoPhone, TRUE),
     Fire(ann)}
Sold ==
    {Ring(trip, "completed", ann), Ring(trip, "completed", NoCourier),
     Ring(table, "voided", NoCourier)}

AllJobs ==
    Sold \cup Moves \cup Riders
    \cup {Correct("void", trip, tap1), Correct("refund", trip, tap2)}

\* No property, initial state or action tells two sessions apart.
Alike == Permutations(Sessions)
=============================================================================
