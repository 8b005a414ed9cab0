----------------------------- MODULE MCRegisters -----------------------------
(***************************************************************************)
(* Instances of Registers for TLC: two businesses whose terminals may choose  *)
(* the same customer id, an expense with a receipt, an income.               *)
(***************************************************************************)
EXTENDS Registers, TLC

CONSTANTS cafe, grill, rent, tips, jane, scan, junk, v1, v2

Bare(k, v) == [key |-> k, value |-> v, receipt |-> NoReceipt]
With(k, r) == [key |-> k, value |-> v1, receipt |-> r]
Job(op, b, batch) == [op |-> op, business |-> b, batch |-> batch]

AllJobs ==
    {Job("sync", cafe, <<Bare(tips, v1), With(rent, scan)>>),
     Job("sync", cafe, <<Bare(rent, v1), Bare(tips, v1)>>),
     Job("sync", cafe, <<Bare(jane, v1), Bare(jane, v2)>>),
     Job("sync", grill, <<Bare(jane, v1)>>),
     Job("sync", grill, <<With(rent, scan)>>),
     Job("update", cafe, <<Bare(jane, v2)>>),
     Job("update", cafe, <<With(rent, scan)>>),
     Job("update", cafe, <<Bare(tips, v2)>>),
     Job("delete", cafe, <<Bare(jane, v1)>>),
     Job("delete", cafe, <<Bare(rent, v1)>>),
     Job("delete", cafe, <<Bare(tips, v1)>>),
     Job("upload", cafe, <<With(rent, scan)>>),
     Job("upload", cafe, <<With(rent, junk)>>)}

\* No property, initial state or action tells two sessions apart.
Alike == Permutations(Sessions)
=============================================================================
