----------------------------- MODULE Production -----------------------------
(***************************************************************************)
(* Inventory Service: the kitchen.  Recipes and their components, planned     *)
(* production runs (create, start, complete, publish, cancel, delete), quick   *)
(* production events, and the undo of an event, in sessions that race.        *)
(*                                                                          *)
(*   idle -> load -> (lock ... -> check) -> commit -> ok | refused | error    *)
(*                                                                          *)
(* A run or an event is read once, without a lock, and written by changed     *)
(* column.  Only items are locked: their row guards their stock level.  The   *)
(* id of a new row is the number of the request that made it; the rows with    *)
(* id 0 are left from an earlier day.                                        *)
(***************************************************************************)
EXTENDS Integers, FiniteSets

CONSTANTS
    Sessions, NoSession,
    Items, NoItem,
    Rank,           \* the order of the items' ids
    Sellable,       \* items that may have a recipe
    Dish,           \* the one recipe 0 is for
    Ingredients,    \* items that may be in one
    AllowNegative,
    Keys, NoKey,    \* idempotency keys
    Jobs, NoJob,
    NoRow, NoLines,
    Opening,        \* stock before anything was cooked
    Carried,        \* runs left from an earlier day
    MaxJobs, MaxAborts

Ids == 0..MaxJobs
RunOps == {"start", "complete", "publish", "cancel", "delete"}
RecipeOps == {"link", "update", "drop", "plan", "create", "produce"}
Operations == RunOps \cup RecipeOps \cup {"void", "recipe"}

\* Quantities per item; zero for the items a list does not name.
Lines == [Items -> Nat]
Named(lines) == {i \in Items : lines[i] # 0}
None == [i \in Items |-> 0]

JobType ==
    [op : Operations, id : Ids, dish : Items \cup {NoItem},
     lines : Lines \cup {NoLines}, leading : Items, quantity : Nat \ {0},
     key : Keys \cup {NoKey}, here : BOOLEAN]

Component == [recipe : Ids, item : Items, need : Nat \ {0}, rev : Ids]
Statuses == {"pending", "in_progress", "completed", "cancelled"}
RunRow ==
    [recipe : Ids, status : Statuses, target : Nat, planned : Lines,
     measured : Lines \cup {NoLines}, leading : Items \cup {NoItem}, actual : Nat,
     published : BOOLEAN, key : Keys \cup {NoKey}]
EventRow ==
    [recipe : Ids, run : Ids \cup {NoRow}, consumed : Lines, output : Nat,
     dish : Items, voided : BOOLEAN, key : Keys \cup {NoKey}]

\* A cooking run was weighed, line by line of its plan, and a completed one has
\* its output: what publish_run asserts.
Started(r) == r.measured # NoLines
Coherent(r) ==
    /\ r.status \in {"in_progress", "completed"} => Started(r)
    /\ Started(r) => Named(r.measured) = Named(r.planned) /\ r.leading # NoItem
    /\ r.status = "completed" => r.actual > 0

ASSUME ProductionAssumption ==
    /\ NoSession \notin Sessions /\ NoItem \notin Items /\ NoJob \notin Jobs
    /\ NoRow \notin Ids \cup Items \cup {NoItem} \cup RunRow \cup EventRow
    /\ NoLines \notin Lines /\ NoKey \notin Keys
    /\ Rank \in [Items -> Nat] /\ \A i, j \in Items : Rank[i] = Rank[j] => i = j
    /\ Sellable \cup Ingredients \subseteq Items /\ Dish \in Sellable
    /\ Jobs \subseteq JobType
    /\ \A j \in Jobs : j.op \in {"recipe", "update"} => j.lines # NoLines
    /\ Opening \in [Items -> Int]
    /\ Carried \subseteq {r \in RunRow : r.recipe = 0 /\ ~r.published /\ Coherent(r)}
    /\ MaxJobs \in Nat /\ MaxAborts \in Nat

VARIABLES
    recipe,     \* recipe rows: the menu item each is linked to
    component,  \* recipecomponent rows
    run, event, \* productionrun and productionevent rows
    level,      \* committed stock
    posted,     \* sum of the stock movements that name a run or an event
    lock,       \* the session that holds an item's row
    pc, job,
    ticket,     \* the number of the session's request
    rows,       \* the component rows it has read
    weighed,    \* the measured lines it has read
    moves,      \* the stock movements it means to make
    base,       \* the levels it read under its locks
    want,       \* the items it has still to lock
    jobs, aborts

book == <<recipe, component, run, event>>
stock == <<level, posted>>
own == <<job, ticket, rows, weighed, moves, base, want>>
vars == <<book, stock, lock, pc, own, jobs, aborts>>

Answers == {"ok", "refused", "error"}
Places == {"idle", "load", "lock", "check", "commit"} \cup Answers
Refs == {"run", "event"} \X Ids

TypeOK ==
    /\ recipe \in [Ids -> Items \cup {NoItem, NoRow}]
    /\ component \subseteq Component
    /\ run \in [Ids -> RunRow \cup {NoRow}]
    /\ event \in [Ids -> EventRow \cup {NoRow}]
    /\ level \in [Items -> Int]
    /\ posted \in [Refs -> [Items -> Int]]
    /\ lock \in [Items -> Sessions \cup {NoSession}]
    /\ pc \in [Sessions -> Places]
    /\ job \in [Sessions -> Jobs \cup {NoJob}]
    /\ ticket \in [Sessions -> Ids]
    /\ rows \in [Sessions -> SUBSET Component] /\ want \in [Sessions -> SUBSET Items]
    /\ weighed \in [Sessions -> Lines]
    /\ moves \in [Sessions -> [Items -> Int]] /\ base \in [Sessions -> [Items -> Int]]
    /\ jobs \in Ids /\ aborts \in 0..MaxAborts

\* The movements that take lines out of stock.
Out(lines) == [i \in Items |-> -lines[i]]

Init ==
    /\ \E r \in Carried :
         /\ run = [n \in Ids |-> IF n = 0 THEN r ELSE NoRow]
         /\ component = {[recipe |-> 0, item |-> i, need |-> r.planned[i], rev |-> 0] :
                            i \in Named(r.planned)}
         /\ event = [n \in Ids |-> IF n # 0 THEN NoRow ELSE
              [recipe |-> 0, run |-> NoRow, consumed |-> r.planned, output |-> 1,
               dish |-> Dish, voided |-> FALSE, key |-> NoKey]]
         /\ posted = [f \in Refs |->
              IF f = <<"run", 0>> /\ Started(r) THEN Out(r.measured)
              ELSE IF f = <<"event", 0>>
              THEN [Out(r.planned) EXCEPT ![Dish] = @ + 1]
              ELSE None]
    /\ recipe = [n \in Ids |-> IF n = 0 THEN Dish ELSE NoRow]
    /\ level = [i \in Items |->
          Opening[i] + posted[<<"run", 0>>][i] + posted[<<"event", 0>>][i]]
    /\ lock = [i \in Items |-> NoSession]
    /\ pc = [x \in Sessions |-> "idle"]
    /\ job = [x \in Sessions |-> NoJob]
    /\ ticket = [x \in Sessions |-> 0]
    /\ rows = [x \in Sessions |-> {}] /\ want = [x \in Sessions |-> {}]
    /\ weighed = [x \in Sessions |-> None]
    /\ moves = [x \in Sessions |-> None] /\ base = [x \in Sessions |-> None]
    /\ jobs = 0 /\ aborts = 0

Goto(x, place) == pc' = [pc EXCEPT ![x] = place]
Released(x) == [i \in Items |-> IF lock[i] = x THEN NoSession ELSE lock[i]]
Kept == {n \in Ids : run[n] # NoRow}
Recorded == {n \in Ids : event[n] # NoRow}

----------------------------------------------------------------------------
(* Requests.                                                                *)

\* A client names a row it was shown.
Known(j) ==
    /\ j.op \in RunOps => j.id \in Kept
    /\ j.op \in RecipeOps => recipe[j.id] # NoRow
    /\ j.op = "void" => j.id \in Recorded

Arrive(x, j) ==
    /\ pc[x] = "idle" /\ jobs < MaxJobs
    /\ Known(j)
    /\ jobs' = jobs + 1
    /\ job' = [job EXCEPT ![x] = j]
    /\ ticket' = [ticket EXCEPT ![x] = jobs + 1]
    /\ Goto(x, "load")
    /\ UNCHANGED <<book, stock, lock, rows, weighed, moves, base, want, aborts>>

Done(x) ==
    /\ pc[x] \in Answers
    /\ Goto(x, "idle")
    /\ UNCHANGED <<book, stock, lock, own, jobs, aborts>>

\* The transaction ends with an answer and gives up its locks.
Finish(x, answer) ==
    /\ Goto(x, answer)
    /\ lock' = Released(x)
    /\ job' = [job EXCEPT ![x] = NoJob]
    /\ ticket' = [ticket EXCEPT ![x] = 0]
    /\ rows' = [rows EXCEPT ![x] = {}]
    /\ weighed' = [weighed EXCEPT ![x] = None]
    /\ moves' = [moves EXCEPT ![x] = None]
    /\ base' = [base EXCEPT ![x] = None]
    /\ want' = [want EXCEPT ![x] = {}]

Leave(x, answer) == Finish(x, answer) /\ UNCHANGED <<jobs, aborts>>
Fails(x, answer) == Leave(x, answer) /\ UNCHANGED <<book, stock>>

\* A request that needs no stock answers, or goes on to its commit.
ToCommit(x, read) ==
    /\ Goto(x, "commit")
    /\ rows' = [rows EXCEPT ![x] = read]
    /\ UNCHANGED <<book, stock, lock, job, ticket, weighed, moves, base, want, jobs, aborts>>
Reply(x, place) == IF place = "commit" THEN ToCommit(x, {}) ELSE Fails(x, place)

\* A request that moves stock locks the items first.
Moving(x, lines, m, items) ==
    /\ Goto(x, "lock")
    /\ weighed' = [weighed EXCEPT ![x] = lines]
    /\ moves' = [moves EXCEPT ![x] = m]
    /\ want' = [want EXCEPT ![x] = items]
    /\ UNCHANGED <<book, stock, lock, job, ticket, rows, base, jobs, aborts>>

----------------------------------------------------------------------------
(* Reading: what each handler finds before it writes.                       *)

Of(n) == {c \in component : c.recipe = n}
Uses(n) == {c.item : c \in Of(n)}
Amounts(S) ==
    [i \in Items |-> IF \E c \in S : c.item = i THEN (CHOOSE c \in S : c.item = i).need ELSE 0]
Need(n) == Amounts(Of(n))

\* _load_recipe: it exists, has ingredients and is linked to a menu item.
Plannable(n) == recipe[n] \notin {NoRow, NoItem} /\ Of(n) # {}

\* The token is for another store than the row's: 403.
RunElsewhere(j) == j.op \in RunOps /\ run[j.id] # NoRow /\ ~j.here
RecipeElsewhere(j) ==
    j.op \in {"plan", "create", "produce"} /\ recipe[j.id] \in Items /\ ~j.here
EventElsewhere(j) == j.op = "void" /\ ~j.here

Deny(x) ==
    /\ pc[x] = "load"
    /\ RunElsewhere(job[x]) \/ RecipeElsewhere(job[x]) \/ EventElsewhere(job[x])
    /\ Fails(x, "refused")

Loading(x, op) ==
    /\ pc[x] = "load" /\ job[x].op = op
    /\ ~RunElsewhere(job[x]) /\ ~RecipeElsewhere(job[x]) /\ ~EventElsewhere(job[x])

\* plan_production: amounts for a target; nothing is written.
LoadPlan(x) ==
    /\ Loading(x, "plan")
    /\ Reply(x, IF Plannable(job[x].id) THEN "ok" ELSE "refused")

\* What an idempotency key finds: one_or_none fails on two rows.
Lookup(found) ==
    IF Cardinality(found) = 1 THEN "ok" ELSE IF found = {} THEN "load" ELSE "error"

RunsWith(key) == {n \in Kept : key # NoKey /\ run[n].key = key}
EventsWith(key) == {n \in Recorded : key # NoKey /\ event[n].key = key}

LoadCreate(x) ==
    /\ Loading(x, "create")
    /\ LET hit == Lookup(RunsWith(job[x].key)) IN
       IF hit # "load" THEN Reply(x, hit)
       ELSE IF ~Plannable(job[x].id) THEN Reply(x, "refused")
       ELSE ToCommit(x, Of(job[x].id))

\* components_override covers the recipe, with the leading line as weighed.
Covers(j, n) == Named(j.lines) = Uses(n) /\ j.lines[j.leading] = j.quantity

\* What start_run weighs: the override, or the plan with the leading line set.
Weighed(j, r) ==
    IF j.lines # NoLines THEN j.lines
    ELSE [r.planned EXCEPT ![j.leading] = j.quantity]

LoadStart(x) ==
    /\ Loading(x, "start")
    /\ LET j == job[x]  r == run[j.id] IN
       IF \/ r = NoRow
          \/ r # NoRow /\ (r.status # "pending" \/ ~Plannable(r.recipe))
          \/ r # NoRow /\ j.leading \notin Uses(r.recipe)
          \/ r # NoRow /\ j.lines # NoLines /\ ~Covers(j, r.recipe)
       THEN Reply(x, "refused")
       ELSE LET m == Weighed(j, r) IN Moving(x, m, Out(m), Named(m))

LoadComplete(x) ==
    /\ Loading(x, "complete")
    /\ LET r == run[job[x].id] IN
       Reply(x, IF r # NoRow /\ r.status = "in_progress" THEN "commit" ELSE "refused")

EventsOf(n) == {e \in Recorded : event[e].run = n}

\* A published run answers with its record.
LoadPublish(x) ==
    /\ Loading(x, "publish")
    /\ LET r == run[job[x].id] IN
       IF r = NoRow THEN Reply(x, "refused")
       ELSE IF r.published
            THEN Reply(x, IF Cardinality(EventsOf(job[x].id)) > 1 THEN "error" ELSE "ok")
       ELSE IF r.status # "completed" \/ ~Started(r) THEN Reply(x, "refused")
       ELSE IF r.leading \notin Named(r.measured) THEN Reply(x, "error")
       ELSE LET d == recipe[r.recipe] IN
            Moving(x, r.measured, [None EXCEPT ![d] = r.actual], {d})

LoadDelete(x) ==
    /\ Loading(x, "delete")
    /\ LET r == run[job[x].id] IN
       Reply(x, IF r # NoRow /\ r.status = "pending" THEN "commit" ELSE "refused")

\* A stopped run is put back on the shelf; a planned one has nothing there.
LoadCancel(x) ==
    /\ Loading(x, "cancel")
    /\ LET r == run[job[x].id] IN
       IF r = NoRow THEN Reply(x, "refused")
       ELSE IF r.status = "cancelled" THEN Reply(x, "ok")
       ELSE IF r.status = "completed" \/ r.published THEN Reply(x, "refused")
       ELSE IF r.status = "pending" THEN Reply(x, "commit")
       ELSE Moving(x, r.measured, r.measured, Named(r.measured))

\* Consumption follows the leading ingredient unless each line is given.
Consumption(j) ==
    IF j.lines # NoLines THEN j.lines
    ELSE [i \in Items |-> (Need(j.id)[i] * j.quantity) \div Need(j.id)[j.leading]]

\* The output is the ratio of the leading ingredient, and more than nothing; the
\* menu item may be an ingredient of its own recipe.
LoadProduce(x) ==
    /\ Loading(x, "produce")
    /\ LET j == job[x]  d == recipe[j.id]  hit == Lookup(EventsWith(j.key)) IN
       IF hit # "load" THEN Reply(x, hit)
       ELSE IF \/ ~Plannable(j.id) \/ j.leading \notin Uses(j.id)
               \/ j.lines # NoLines /\ ~Covers(j, j.id)
               \/ j.quantity < Need(j.id)[j.leading]
            THEN Reply(x, "refused")
       ELSE LET c == Consumption(j)  out == j.quantity \div Need(j.id)[j.leading] IN
            Moving(x, c, [Out(c) EXCEPT ![d] = @ + out], Named(c) \cup {d})

\* The reverse of an event; a second tap finds it voided.
LoadVoid(x) ==
    /\ Loading(x, "void")
    /\ LET e == event[job[x].id]  d == recipe[e.recipe] IN
       IF e.voided THEN Reply(x, "ok")
       ELSE Moving(x, e.consumed, [e.consumed EXCEPT ![d] = @ - e.output],
                   Named(e.consumed) \cup {d})

\* _validate_components, _get_sellable_or_error and the pre-check of the link.
Valid(j) == Named(j.lines) \subseteq Ingredients
Linkable(d) == d \in Sellable /\ \A n \in Ids : recipe[n] # d

LoadRecipe(x) ==
    /\ Loading(x, "recipe")
    /\ LET j == job[x] IN
       Reply(x, IF Valid(j) /\ (j.dish # NoItem => Linkable(j.dish)) THEN "commit" ELSE "refused")

LoadLink(x) ==
    /\ Loading(x, "link")
    /\ LET j == job[x] IN
       Reply(x, IF recipe[j.id] = NoItem /\ Linkable(j.dish) THEN "commit" ELSE "refused")

LoadUpdate(x) ==
    /\ Loading(x, "update")
    /\ IF recipe[job[x].id] = NoRow \/ ~Valid(job[x]) THEN Reply(x, "refused")
       ELSE ToCommit(x, Of(job[x].id))

LoadDrop(x) ==
    /\ Loading(x, "drop")
    /\ Reply(x, IF recipe[job[x].id] = NoRow THEN "refused" ELSE "commit")

----------------------------------------------------------------------------
(* Locks and stock.                                                         *)

\* Start, produce and void lock in the order of the ids; cancel goes by its
\* lines, in whatever order it read them.
Turn(x, i) == job[x].op # "cancel" => \A k \in want[x] : Rank[i] <= Rank[k]

Grant_Shared(i) == TRUE  \* Mutant: the row is read without FOR UPDATE.
Grant(i) == lock[i] = NoSession

\* The level is read once the row is locked.
Lock(x, i) ==
    /\ pc[x] = "lock" /\ i \in want[x]
    /\ Turn(x, i) /\ Grant(i)
    /\ lock' = [lock EXCEPT ![i] = x]
    /\ want' = [want EXCEPT ![x] = @ \ {i}]
    /\ base' = [base EXCEPT ![x][i] = level[i]]
    /\ Goto(x, IF want[x] = {i} THEN "check" ELSE "lock")
    /\ UNCHANGED <<book, stock, job, ticket, rows, weighed, moves, jobs, aborts>>

Waits(x, i) == pc[x] = "lock" /\ i \in want[x] /\ lock[i] \notin {NoSession, x}

\* PostgreSQL breaks a cycle of two sessions that wait for each other.
DeadlockVictim(x) ==
    /\ \E y \in Sessions, i, k \in Items :
         /\ x # y /\ lock[i] = y /\ lock[k] = x
         /\ Waits(x, i) /\ Turn(x, i) /\ Waits(y, k) /\ Turn(y, k)
    /\ Fails(x, "error")

\* Every ingredient is checked before anything is written; undoing skips it.
Short_Never(x) == FALSE  \* Mutant: no check of the levels.
Short(x) ==
    /\ job[x].op \in {"start", "produce"}
    /\ \E i \in Items \ AllowNegative : weighed[x][i] > 0 /\ base[x][i] - weighed[x][i] < 0

\* start_run sets a measured quantity on every line of the snapshot.
Uncovered(x) ==
    /\ job[x].op = "start" /\ run[job[x].id] # NoRow
    /\ ~(Named(run[job[x].id].planned) \subseteq Named(moves[x]))

Check(x) ==
    /\ pc[x] = "check"
    /\ IF Short(x) THEN Fails(x, "refused")
       ELSE IF Uncovered(x) THEN Fails(x, "error")
       ELSE Goto(x, "commit") /\ UNCHANGED <<book, stock, lock, own, jobs, aborts>>

\* record_movement: the new level, and a movement row that names ref.
Write(x, ref) ==
    /\ level' = [i \in Items |-> IF moves[x][i] # 0 THEN base[x][i] + moves[x][i] ELSE level[i]]
    /\ posted' = [posted EXCEPT ![ref] = [i \in Items |-> @[i] + moves[x][i]]]

----------------------------------------------------------------------------
(* Commits.  A row that is gone fails its UPDATE or its foreign key.         *)

Committing(x, op) == pc[x] = "commit" /\ job[x].op = op

CommitCreate(x) ==
    /\ Committing(x, "create")
    /\ LET j == job[x] IN
       IF recipe[j.id] = NoRow THEN Fails(x, "error")
       ELSE /\ run' = [run EXCEPT ![ticket[x]] =
                 [recipe |-> j.id, status |-> "pending", target |-> j.quantity,
                  planned |-> [i \in Items |-> Amounts(rows[x])[i] * j.quantity],
                  measured |-> NoLines, leading |-> NoItem, actual |-> 0,
                  published |-> FALSE, key |-> j.key]]
            /\ UNCHANGED <<recipe, component, event, stock>>
            /\ Leave(x, "ok")

CommitStart(x) ==
    /\ Committing(x, "start")
    /\ LET n == job[x].id IN
       IF run[n] = NoRow THEN Fails(x, "error")
       ELSE /\ run' = [run EXCEPT ![n].status = "in_progress", ![n].leading = job[x].leading,
                 ![n].measured = [i \in Items |-> IF run[n].planned[i] = 0 THEN 0 ELSE weighed[x][i]]]
            /\ Write(x, <<"run", n>>)
            /\ UNCHANGED <<recipe, component, event>>
            /\ Leave(x, "ok")

CommitComplete(x) ==
    /\ Committing(x, "complete")
    /\ LET n == job[x].id IN
       IF run[n] = NoRow THEN Fails(x, "error")
       ELSE /\ run' = [run EXCEPT ![n].status = "completed", ![n].actual = job[x].quantity]
            /\ UNCHANGED <<recipe, component, event, stock>>
            /\ Leave(x, "ok")

\* The movement of a record that brings what was made; the others are its lines,
\* which a published run has taken already.
Made(x) ==
    [i \in Items |-> moves[x][i] + (IF job[x].op = "produce" THEN weighed[x][i] ELSE 0)]
Record(x, formula, n, key) ==
    LET d == CHOOSE i \in Items : Made(x)[i] # 0
    IN  [recipe |-> formula, run |-> n, consumed |-> weighed[x],
         output |-> Made(x)[d], dish |-> d, voided |-> FALSE, key |-> key]

CommitPublish(x) ==
    /\ Committing(x, "publish")
    /\ LET n == job[x].id IN
       IF run[n] = NoRow THEN Fails(x, "error")
       ELSE /\ event' = [event EXCEPT ![ticket[x]] = Record(x, run[n].recipe, n, NoKey)]
            /\ run' = [run EXCEPT ![n].published = TRUE]
            /\ Write(x, <<"event", ticket[x]>>)
            /\ UNCHANGED <<recipe, component>>
            /\ Leave(x, "ok")

\* productionevent.run_id restricts the delete; a row already gone is no error.
CommitDelete(x) ==
    /\ Committing(x, "delete")
    /\ IF EventsOf(job[x].id) # {} THEN Fails(x, "error")
       ELSE /\ run' = [run EXCEPT ![job[x].id] = NoRow]
            /\ UNCHANGED <<recipe, component, event, stock>>
            /\ Leave(x, "ok")

CommitCancel(x) ==
    /\ Committing(x, "cancel")
    /\ LET n == job[x].id IN
       IF run[n] = NoRow THEN Fails(x, "error")
       ELSE /\ run' = [run EXCEPT ![n].status = "cancelled"]
            /\ Write(x, <<"run", n>>)
            /\ UNCHANGED <<recipe, component, event>>
            /\ Leave(x, "ok")

CommitProduce(x) ==
    /\ Committing(x, "produce")
    /\ LET j == job[x] IN
       IF recipe[j.id] = NoRow THEN Fails(x, "error")
       ELSE /\ event' = [event EXCEPT ![ticket[x]] = Record(x, j.id, NoRow, j.key)]
            /\ Write(x, <<"event", ticket[x]>>)
            /\ UNCHANGED <<recipe, component, run>>
            /\ Leave(x, "ok")

CommitVoid_Unmarked(x) ==  \* Mutant: voided_at is not set.
    /\ Committing(x, "void")
    /\ Write(x, <<"event", job[x].id>>)
    /\ UNCHANGED book
    /\ Leave(x, "ok")

CommitVoid(x) ==
    /\ Committing(x, "void")
    /\ event' = [event EXCEPT ![job[x].id].voided = TRUE]
    /\ Write(x, <<"event", job[x].id>>)
    /\ UNCHANGED <<recipe, component, run>>
    /\ Leave(x, "ok")

\* The rows of the ingredient set in the request.
NewRows(x, n) ==
    {[recipe |-> n, item |-> i, need |-> job[x].lines[i], rev |-> ticket[x]] :
        i \in Named(job[x].lines)}

\* UNIQUE (sellable_item_id).
Taken(d) == d # NoItem /\ \E n \in Ids : recipe[n] = d

\* The INSERT runs at the flush, outside the handler of IntegrityError.
CommitRecipe(x) ==
    /\ Committing(x, "recipe")
    /\ IF Taken(job[x].dish) THEN Fails(x, "error")
       ELSE /\ recipe' = [recipe EXCEPT ![ticket[x]] = job[x].dish]
            /\ component' = component \cup NewRows(x, ticket[x])
            /\ UNCHANGED <<run, event, stock>>
            /\ Leave(x, "ok")

CommitLink(x) ==
    /\ Committing(x, "link")
    /\ IF recipe[job[x].id] = NoRow THEN Fails(x, "error")
       ELSE IF Taken(job[x].dish) THEN Fails(x, "refused")
       ELSE /\ recipe' = [recipe EXCEPT ![job[x].id] = job[x].dish]
            /\ UNCHANGED <<component, run, event, stock>>
            /\ Leave(x, "ok")

\* The rows that were read are deleted, the new ones inserted; another
\* update's row of the same ingredient breaks the unique key.
CommitUpdate(x) ==
    /\ Committing(x, "update")
    /\ LET n == job[x].id  left == component \ rows[x] IN
       IF recipe[n] = NoRow \/ \E c \in left : c.recipe = n /\ c.item \in Named(job[x].lines)
       THEN Fails(x, "refused")
       ELSE /\ component' = left \cup NewRows(x, n)
            /\ UNCHANGED <<recipe, run, event, stock>>
            /\ Leave(x, "ok")

\* Runs and events restrict the delete of their recipe.
Restricts_Runs(n) == \E r \in Kept : run[r].recipe = n  \* Mutant: events do not.
Restricts(n) ==
    (\E r \in Kept : run[r].recipe = n) \/ (\E e \in Recorded : event[e].recipe = n)

CommitDrop(x) ==
    /\ Committing(x, "drop")
    /\ LET n == job[x].id IN
       IF Restricts(n) THEN Fails(x, "refused")
       ELSE /\ recipe' = [recipe EXCEPT ![n] = NoRow]
            /\ component' = component \ Of(n)
            /\ UNCHANGED <<run, event, stock>>
            /\ Leave(x, "ok")

----------------------------------------------------------------------------
(* The endpoints.                                                           *)

PlanProduction(x) == LoadPlan(x)
CreateProductionRun(x) == LoadCreate(x) \/ CommitCreate(x)
StartProductionRun(x) == LoadStart(x) \/ CommitStart(x)
CompleteProductionRun(x) == LoadComplete(x) \/ CommitComplete(x)
PublishProductionRun(x) == LoadPublish(x) \/ CommitPublish(x)
DeleteProductionRun(x) == LoadDelete(x) \/ CommitDelete(x)
CancelProductionRun(x) == LoadCancel(x) \/ CommitCancel(x)
Produce(x) == LoadProduce(x) \/ CommitProduce(x)
VoidProduction(x) == LoadVoid(x) \/ CommitVoid(x)
CreateRecipe(x) == LoadRecipe(x) \/ CommitRecipe(x)
LinkRecipe(x) == LoadLink(x) \/ CommitLink(x)
UpdateRecipe(x) == LoadUpdate(x) \/ CommitUpdate(x)
DeleteRecipe(x) == LoadDrop(x) \/ CommitDrop(x)

\* What the answers and the lists show of a row: its recipe and menu item.
ReadRuns(n) == recipe[run[n].recipe] \in Items
ReadEvents(n) == recipe[event[n].recipe] \in Items

\* The connection or the service fails before the commit.
Abort(x) ==
    /\ pc[x] \in {"load", "lock", "check", "commit"}
    /\ aborts < MaxAborts
    /\ aborts' = aborts + 1
    /\ Finish(x, "error")
    /\ UNCHANGED <<book, stock, jobs>>

Step(x) ==
    \/ Deny(x)
    \/ PlanProduction(x) \/ CreateProductionRun(x) \/ StartProductionRun(x)
    \/ CompleteProductionRun(x) \/ PublishProductionRun(x) \/ DeleteProductionRun(x)
    \/ CancelProductionRun(x) \/ Produce(x) \/ VoidProduction(x)
    \/ CreateRecipe(x) \/ LinkRecipe(x) \/ UpdateRecipe(x) \/ DeleteRecipe(x)
    \/ \E i \in Items : Lock(x, i)
    \/ Check(x)
    \/ DeadlockVictim(x)

\* The requests of the bound are answered.
Rest ==
    /\ jobs = MaxJobs /\ \A x \in Sessions : pc[x] = "idle"
    /\ UNCHANGED vars

Next ==
    \/ \E x \in Sessions :
          \/ \E j \in Jobs : Arrive(x, j)
          \/ Step(x)
          \/ Abort(x)
          \/ Done(x)
    \/ Rest

Spec == Init /\ [][Next]_vars

----------------------------------------------------------------------------
(* Properties.                                                              *)

\* Stock is what the movements say it is, however the requests race for the
\* same items.
Total(f) ==
    LET T[n \in Ids] == f[n] + (IF n = 0 THEN 0 ELSE T[n - 1]) IN T[MaxJobs]
Moved(i) == [n \in Ids |-> posted[<<"run", n>>][i] + posted[<<"event", n>>][i]]
LedgerBalances == \A i \in Items : level[i] = Opening[i] + Total(Moved(i))

\* Cooking never takes more of an item than there is; only undoing an event,
\* whose output may be sold by then, may.
NoOverdraw ==
    [][\A i \in Items \ AllowNegative :
         level'[i] < level[i] /\ level'[i] < 0 =>
             \E x \in Sessions : Committing(x, "void") /\ pc'[x] = "ok"]_vars

\* A record and the stock agree: the output of an event is in stock and, of a
\* quick event, each ingredient it names is out, all or nothing, until it is
\* undone.
EventMovesStock ==
    \A n \in Recorded : ~event[n].voided =>
        LET e == event[n] IN
        posted[<<"event", n>>] =
            [i \in Items |-> (IF i = e.dish THEN e.output ELSE 0)
                               - (IF e.run = NoRow THEN e.consumed[i] ELSE 0)]

\* "completed implies actual", "started implies leading", and every line of
\* the snapshot is weighed: what publish_run asserts.
CompletedIsWeighed == \A n \in Kept : Coherent(run[n])

\* A run is marked as published exactly when a record of it exists.
PublishedIffRecorded ==
    \A n \in Kept : run[n].published <=> EventsOf(n) # {}

\* A menu item has one recipe, though creations and links race.
OneRecipePerDish ==
    \A m, n \in Ids : recipe[m] = recipe[n] /\ recipe[m] \in Items => m = n

\* Every run and event can be shown: _read_runs and _read_events look up the
\* recipe and its menu item.
HistoryReadable ==
    /\ \A n \in Kept : ReadRuns(n)
    /\ \A n \in Recorded : ReadEvents(n) /\ event[n].run \in Kept \cup {NoRow}

\* The tables are what the schema and its readers take for granted: the types,
\* the CHECK constraints of a run, the unique link of a recipe, the references.
TablesConsistent ==
    TypeOK /\ CompletedIsWeighed /\ PublishedIffRecorded /\ OneRecipePerDish /\ HistoryReadable
=============================================================================
