----------------------------- MODULE StockBook -----------------------------
(***************************************************************************)
(* What Inventory Service promises about stock: every accepted line moves   *)
(* the quantity of one item in one store by exactly its amount, a line of   *)
(* an event at most once; a transfer moves both its stores or neither; and  *)
(* only a sale, which has already happened, may oversell.                   *)
(***************************************************************************)
EXTENDS Integers

CONSTANTS Items, Stores, Keys, Quantities, AllowNegative, Opening

VARIABLES level, processed

Init ==
    /\ level = Opening
    /\ processed = {}

Changed(i, s, q) == [level EXCEPT ![i][s] = @ + q]

\* A line of a sale event or of its reversal, under its idempotency key.
Line(k, i, s, q) ==
    /\ k \notin processed
    /\ processed' = processed \cup {k}
    /\ level' = Changed(i, s, q)

\* An adjustment or waste.
Correct(i, s, q) ==
    /\ level[i][s] + q >= 0 \/ i \in AllowNegative
    /\ level' = Changed(i, s, q)
    /\ UNCHANGED processed

Transfer(i, from, to, q) ==
    /\ from # to
    /\ level[i][from] - q >= 0 \/ i \in AllowNegative
    /\ level' = [level EXCEPT ![i][from] = @ - q, ![i][to] = @ + q]
    /\ UNCHANGED processed

Next ==
    \E i \in Items, s \in Stores, q \in Quantities :
        \/ \E k \in Keys : Line(k, i, s, q) \/ Line(k, i, s, -q)
        \/ Correct(i, s, q) \/ Correct(i, s, -q)
        \/ \E t \in Stores : Transfer(i, s, t, q)

Spec == Init /\ [][Next]_<<level, processed>>
=============================================================================
