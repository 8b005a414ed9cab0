---------------------------- MODULE MCProduction ----------------------------
(***************************************************************************)
(* Instances of Production for TLC: bread is made of flour; yeast or old bread  *)
(* may come into its recipe; cake is a second dish, made of bread.            *)
(***************************************************************************)
EXTENDS Production, TLC

CONSTANTS flour, yeast, bread, cake, key

IdOrder == (flour :> 1) @@ (yeast :> 2) @@ (bread :> 3) @@ (cake :> 4)
Stock == (flour :> 2) @@ (yeast :> 1) @@ (bread :> 0) @@ (cake :> 0)

Of1(S) == [i \in Items |-> IF i \in S THEN 1 ELSE 0]
Both == Of1({flour, yeast})
OnlyYeast == Of1({yeast})
WithBread == Of1({bread})

Asks(op, id, dish, lines, leading, q, k) ==
    [op |-> op, id |-> id, dish |-> dish, lines |-> lines, leading |-> leading,
     quantity |-> q, key |-> k, here |-> TRUE]
Simple(op, id) == Asks(op, id, NoItem, NoLines, flour, 1, NoKey)

Kitchen ==
    {Simple(op, 0) : op \in {"start", "complete", "publish", "cancel", "delete", "void", "plan", "drop"}}
      \cup {Asks("start", 0, NoItem, OnlyYeast, yeast, 1, NoKey)}
Cooking ==
    {Asks("create", 0, NoItem, NoLines, flour, 1, key),
     Asks("produce", 0, NoItem, NoLines, flour, 1, key),
     Simple("start", 1), Simple("void", 1)}
Formulas ==
    {Asks("recipe", 0, cake, WithBread, flour, 1, NoKey),
     Asks("recipe", 0, NoItem, OnlyYeast, flour, 1, NoKey),
     Asks("link", 1, cake, NoLines, flour, 1, NoKey),
     Asks("update", 0, NoItem, OnlyYeast, flour, 1, NoKey),
     Asks("update", 0, NoItem, Of1({flour, bread}), flour, 1, NoKey),
     Simple("drop", 1)}
Elsewhere == {[Simple(op, 0) EXCEPT !.here = FALSE] : op \in {"start"}}
AllJobs == Elsewhere \cup Kitchen \cup Cooking \cup Formulas

Left(status, measured, leading, actual) ==
    [recipe |-> 0, status |-> status, target |-> 1, planned |-> Both,
     measured |-> measured, leading |-> leading, actual |-> actual,
     published |-> FALSE, key |-> NoKey]
Yesterday ==
    {Left("pending", NoLines, NoItem, 0), Left("in_progress", Both, flour, 0),
     Left("completed", Both, flour, 1)}

\* No property, initial state or action tells two sessions apart.
Alike == Permutations(Sessions)
=============================================================================
