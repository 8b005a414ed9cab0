---------------------------- MODULE SaleDelivery ----------------------------
(***************************************************************************)
(* What the offline sales path promises, without devices, batches or       *)
(* requests.  A sale is rung up once, enters the ledger once, and is        *)
(* acknowledged on the device only after that; nothing moves backwards.     *)
(***************************************************************************)
CONSTANT Sales

VARIABLE stage

Stages == {"unsold", "queued", "ingested", "acknowledged"}

Move(S, from, to) ==
    /\ \A s \in S : stage[s] = from
    /\ stage' = [s \in Sales |-> IF s \in S THEN to ELSE stage[s]]

Init == stage = [s \in Sales |-> "unsold"]

RingUp(s) == Move({s}, "unsold", "queued")
Ingest(S) == Move(S, "queued", "ingested")
Acknowledge(s) == Move({s}, "ingested", "acknowledged")

Next ==
    \/ \E s \in Sales : RingUp(s) \/ Acknowledge(s)
    \/ \E S \in SUBSET Sales : Ingest(S)

Spec == Init /\ [][Next]_stage
=============================================================================
