---------------------------- MODULE MCPurchasing ----------------------------
(***************************************************************************)
(* Instances of Purchasing for TLC: rice and oil from two suppliers, a soup   *)
(* that is only sold, one order of two bags of rice open at the start.        *)
(***************************************************************************)
EXTENDS Purchasing, TLC

CONSTANTS juma, asha, mosi, rice, oil, soup, key

InOrder == (juma :> 1) @@ (asha :> 2) @@ (mosi :> 3) @@ (rice :> 1) @@ (oil :> 2) @@ (soup :> 3)
Bags(i, q) == [None EXCEPT ![i] = q]
NoCart == [s \in Suppliers |-> None]
Open == [NoCart EXCEPT ![juma] = Bags(rice, 2)]

Plain(op) ==
    [op |-> op, order |-> <<0, juma>>, id |-> 0, supplier |-> juma, item |-> rice,
     lines |-> Bags(rice, 1), cart |-> NoCart, number |-> 0, key |-> NoKey,
     flag |-> FALSE, here |-> TRUE]
Flagged(op) == [Plain(op) EXCEPT !.flag = TRUE]

TwoSuppliers == [NoCart EXCEPT ![juma] = Bags(rice, 1), ![asha] = Bags(oil, 1)]
Submits ==
    {[Plain("submit") EXCEPT !.cart = TwoSuppliers, !.key = key]}
Buying ==
    Submits \cup
    {Plain("order"), [Plain("order") EXCEPT !.number = 3],
     Plain("cancel"), Plain("receive"),
     [Plain("receive") EXCEPT !.lines = Bags(rice, 2)],
     [Plain("receive") EXCEPT !.order = <<1, juma>>],
     Plain("take"), Flagged("take"), Plain("drop"),
     [Plain("reorder") EXCEPT !.item = soup, !.lines = Bags(soup, 1)], Plain("reorder")}
Directory ==
    {[Plain("hire") EXCEPT !.supplier = mosi],
     [Flagged("edit") EXCEPT !.supplier = asha], Plain("remove"),
     Plain("price"), [Flagged("assign") EXCEPT !.id = 1],
     [Plain("regenerate") EXCEPT !.id = 1], [Plain("receive") EXCEPT !.here = FALSE]}
Talking == {Plain("connect"), Plain("test"), Plain("disconnect"), Plain("webhook")}
AllJobs == Buying \cup Directory \cup Talking

\* No property, initial state or action tells two sessions apart.
Alike == Permutations(Sessions)
=============================================================================
