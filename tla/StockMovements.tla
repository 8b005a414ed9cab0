--------------------------- MODULE StockMovements ---------------------------
(***************************************************************************)
(* Inventory Service: record_movement, the one function that writes stock,  *)
(* under the calls that race for the same rows - sale events from POS,      *)
(* whose lines are applied one by one, manual adjustments and waste, and    *)
(* transfers of an item between two stores.                                 *)
(*                                                                          *)
(* A call is a session with a PostgreSQL transaction of its own:            *)
(*                                                                          *)
(*   idle -> check -> lock -> commit -> (check | answered) -> idle          *)
(*                                                                          *)
(* The item row is locked first and guards the stock level rows of the      *)
(* item, so one lock per item stands for both.  The lock is held until the  *)
(* transaction ends: a line refused after the lock keeps it while the next  *)
(* line of the event asks for another.                                      *)
(***************************************************************************)
EXTENDS Integers, Sequences, FiniteSets

CONSTANTS
    Sessions,
    NoSession,
    Items,
    Stores,
    Events,         \* event_id values
    NoEvent,        \* the event_id of a manual operation
    Jobs,           \* the calls clients make
    NoJob,
    Quantities,
    Unlinked,       \* item ids with no Item row
    RawMaterials,   \* items of item_type raw_material
    AllowNegative,  \* items with allow_negative_stock
    Opening,        \* the stock before the first call
    MaxJobs,        \* bound: calls that arrive
    MaxCrashes      \* bound: restarts of the service

SaleEvents == {"sale.completed", "sale.voided", "sale.refunded"}
Manual == {"adjust", "waste", "transfer"}

\* A call: an event of a sale, or an operation on the one line it carries.
JobType ==
    [type : SaleEvents \cup Manual, event : Events \cup {NoEvent},
     store : Stores, to : Stores,
     lines : Seq([item : Items, quantity : Int])]

ASSUME StockAssumption ==
    /\ NoSession \notin Sessions
    /\ NoEvent \notin Events
    /\ NoJob \notin Jobs
    /\ Jobs \subseteq JobType
    /\ \A j \in Jobs :
         /\ j.type \in SaleEvents <=> j.event \in Events
         /\ Len(j.lines) > 0
         /\ j.type = "transfer" => j.store # j.to
         /\ j.type \in Manual => Len(j.lines) = 1 /\ j.lines[1].item \notin Unlinked
         /\ \A n \in 1..Len(j.lines) :
              /\ j.lines[n].quantity \in Quantities \/ -j.lines[n].quantity \in Quantities
              /\ j.type # "adjust" => j.lines[n].quantity \in Quantities
    /\ Quantities \subseteq Nat
    /\ Opening \in [Items -> [Stores -> Int]]
    /\ MaxJobs \in Nat
    /\ MaxCrashes \in Nat

Keys == Events \X Items

VARIABLES
    level,      \* committed current_quantity of each item in each store
    moved,      \* the sum of the committed stock_movements rows
    processed,  \* committed ProcessedEvent keys
    posted,     \* how many committed movements each key has
    lock,       \* the session that holds the item row
    pc,         \* where each session is
    job,        \* its call
    results,    \* the status of each of its lines so far
    staged,     \* stock levels it has written and not committed
    jobs,       \* how many calls have arrived
    crashes

vars == <<level, moved, processed, posted, lock, pc, job, results, staged, jobs, crashes>>

Statuses == {"applied", "skipped", "failed", "staged"}
Places == {"idle", "check", "lock", "commit", "answered"}
Write == [item : Items, store : Stores, quantity : Int, delta : Int]

TypeOK ==
    /\ level \in [Items -> [Stores -> Int]]
    /\ moved \in [Items -> [Stores -> Int]]
    /\ processed \subseteq Keys
    /\ posted \in [Keys -> Nat]
    /\ lock \in [Items -> Sessions \cup {NoSession}]
    /\ pc \in [Sessions -> Places]
    /\ job \in [Sessions -> Jobs \cup {NoJob}]
    /\ results \in [Sessions -> Seq(Statuses)]
    /\ staged \in [Sessions -> SUBSET Write]
    /\ jobs \in 0..MaxJobs
    /\ crashes \in 0..MaxCrashes

Init ==
    /\ level = Opening
    /\ moved = [i \in Items |-> [s \in Stores |-> 0]]
    /\ processed = {}
    /\ posted = [k \in Keys |-> 0]
    /\ lock = [i \in Items |-> NoSession]
    /\ pc = [x \in Sessions |-> "idle"]
    /\ job = [x \in Sessions |-> NoJob]
    /\ results = [x \in Sessions |-> << >>]
    /\ staged = [x \in Sessions |-> {}]
    /\ jobs = 0
    /\ crashes = 0

----------------------------------------------------------------------------
(* The legs of a call: what it asks of record_movement, one after another.  *)

IsEvent(j) == j.type \in SaleEvents
LegCount(j) == IF j.type = "transfer" THEN 2 ELSE Len(j.lines)

\* The sign record_movement is given: sales and waste take stock away.
Signed(j, q) == IF j.type \in {"sale.completed", "waste"} THEN -q ELSE q

Leg(j, n) ==
    IF j.type = "transfer"
    THEN [item |-> j.lines[1].item,
          store |-> IF n = 1 THEN j.store ELSE j.to,
          delta |-> IF n = 1 THEN -j.lines[1].quantity ELSE j.lines[1].quantity]
    ELSE [item |-> j.lines[n].item,
          store |-> j.store,
          delta |-> Signed(j, j.lines[n].quantity)]

\* The leg a session is at, and its idempotency key "event_id:item_id".
Current(x) == Leg(job[x], Len(results[x]) + 1)
Key(x) == <<job[x].event, Current(x).item>>

\* Only a sale is refused for its item's type; only a sale skips the check on
\* negative stock.
Compatible(j, i) == j.type = "sale.completed" => i \notin RawMaterials
MayGoNegative_Any(j, i) == TRUE  \* Mutant: the check is skipped for all.
MayGoNegative(j, i) == j.type = "sale.completed" \/ i \in AllowNegative

\* Step 4 and 5: the quantity the leg would write.
NewWrite(x) ==
    [item |-> Current(x).item, store |-> Current(x).store,
     quantity |-> level[Current(x).item][Current(x).store] + Current(x).delta,
     delta |-> Current(x).delta]

Refused(x) ==
    \/ ~Compatible(job[x], Current(x).item)
    \/ /\ NewWrite(x).quantity < 0
       /\ ~MayGoNegative(job[x], Current(x).item)

----------------------------------------------------------------------------
(* The steps of a session.                                                  *)

FirstStep(j) == IF IsEvent(j) THEN "check" ELSE "lock"

Accept(x, j) ==
    /\ pc[x] = "idle"
    /\ jobs < MaxJobs
    /\ jobs' = jobs + 1
    /\ job' = [job EXCEPT ![x] = j]
    /\ pc' = [pc EXCEPT ![x] = FirstStep(j)]
    /\ UNCHANGED <<level, moved, processed, posted, lock, results, staged, crashes>>

\* The leg is over: on to the next one, or to the answer.
NextLeg(x, status) ==
    /\ results' = [results EXCEPT ![x] = Append(@, status)]
    /\ pc' = [pc EXCEPT ![x] =
                IF Len(results[x]) + 1 < LegCount(job[x]) THEN FirstStep(job[x]) ELSE "answered"]

\* Mutant: a processed line has a status of its own.
CheckProcessed_Status(x) ==
    /\ pc[x] = "check"
    /\ IF Key(x) \in processed
       THEN NextLeg(x, "duplicate")
       ELSE pc' = [pc EXCEPT ![x] = "lock"] /\ UNCHANGED results
    /\ UNCHANGED <<level, moved, processed, posted, lock, job, staged, jobs, crashes>>

\* Step 0, before any lock: a line already processed counts as applied.
CheckProcessed(x) ==
    /\ pc[x] = "check"
    /\ IF Key(x) \in processed
       THEN NextLeg(x, "applied")
       ELSE pc' = [pc EXCEPT ![x] = "lock"] /\ UNCHANGED results
    /\ UNCHANGED <<level, moved, processed, posted, lock, job, staged, jobs, crashes>>

\* Mutant: an unknown item is not an error.
Skip_Applied(x) ==
    /\ pc[x] = "lock"
    /\ Current(x).item \in Unlinked
    /\ NextLeg(x, "applied")
    /\ UNCHANGED <<level, moved, processed, posted, lock, job, staged, jobs, crashes>>

\* Step 1 finds no row to lock.
Skip(x) ==
    /\ pc[x] = "lock"
    /\ Current(x).item \in Unlinked
    /\ NextLeg(x, "skipped")
    /\ UNCHANGED <<level, moved, processed, posted, lock, job, staged, jobs, crashes>>

Locks(x) ==
    /\ pc[x] = "lock"
    /\ Current(x).item \notin Unlinked
    /\ lock[Current(x).item] \in {NoSession, x}
    /\ lock' = [lock EXCEPT ![Current(x).item] = x]

Released(x) == [i \in Items |-> IF lock[i] = x THEN NoSession ELSE lock[i]]

\* session.rollback(): the line fails, or with it the whole operation.
Fail(x) ==
    /\ lock' = Released(x)
    /\ staged' = [staged EXCEPT ![x] = {}]
    /\ IF IsEvent(job[x])
       THEN NextLeg(x, "failed")
       ELSE /\ results' = [results EXCEPT ![x] = Append(@, "failed")]
            /\ pc' = [pc EXCEPT ![x] = "answered"]
    /\ UNCHANGED <<level, moved, processed, posted, job, jobs, crashes>>

\* Steps 1 to 4 end in ItemTypeMismatchError or InsufficientStockError.  The
\* endpoint of the events catches it without a rollback.
RefuseLine(x) ==
    /\ Locks(x)
    /\ IsEvent(job[x])
    /\ Refused(x)
    /\ NextLeg(x, "failed")
    /\ UNCHANGED <<level, moved, processed, posted, job, staged, jobs, crashes>>

RefuseOperation(x) ==
    /\ pc[x] = "lock"
    /\ ~IsEvent(job[x])
    /\ lock[Current(x).item] \in {NoSession, x}
    /\ Refused(x)
    /\ Fail(x)

\* Mutant: the quantity is read before the row is locked, and kept.
Stage_Unlocked(x) ==
    /\ pc[x] = "lock"
    /\ Current(x).item \notin Unlinked
    /\ ~Refused(x)
    /\ staged' = [staged EXCEPT ![x] = @ \cup {NewWrite(x)}]
    /\ IF job[x].type = "transfer" /\ results[x] = << >>
       THEN NextLeg(x, "staged")
       ELSE pc' = [pc EXCEPT ![x] = "commit"] /\ UNCHANGED results
    /\ UNCHANGED <<level, moved, processed, posted, lock, job, jobs, crashes>>

\* Mutant: the first leg of a transfer is committed on its own.
Stage_EachLeg(x) ==
    /\ Locks(x)
    /\ ~Refused(x)
    /\ staged' = [staged EXCEPT ![x] = @ \cup {NewWrite(x)}]
    /\ pc' = [pc EXCEPT ![x] = "commit"]
    /\ UNCHANGED <<level, moved, processed, posted, job, results, jobs, crashes>>

\* Steps 1 to 7: the new quantity is computed under the lock.  The first leg
\* of a transfer leaves the commit to the second.
Stage(x) ==
    /\ Locks(x)
    /\ ~Refused(x)
    /\ staged' = [staged EXCEPT ![x] = @ \cup {NewWrite(x)}]
    /\ IF job[x].type = "transfer" /\ results[x] = << >>
       THEN NextLeg(x, "staged")
       ELSE pc' = [pc EXCEPT ![x] = "commit"] /\ UNCHANGED results
    /\ UNCHANGED <<level, moved, processed, posted, job, jobs, crashes>>

\* The writes of W to one stock level.
WritesTo(W, i, s) == {w \in W : w.item = i /\ w.store = s}

\* The level, movement and processed-event rows become visible together.
WriteRows(x) ==
    /\ level' = [i \in Items |-> [s \in Stores |->
          IF WritesTo(staged[x], i, s) = {} THEN level[i][s]
          ELSE (CHOOSE w \in WritesTo(staged[x], i, s) : TRUE).quantity]]
    /\ moved' = [i \in Items |-> [s \in Stores |->
          IF WritesTo(staged[x], i, s) = {} THEN moved[i][s]
          ELSE moved[i][s] + (CHOOSE w \in WritesTo(staged[x], i, s) : TRUE).delta]]
    /\ IF IsEvent(job[x])
       THEN /\ processed' = processed \cup {Key(x)}
            /\ posted' = [posted EXCEPT ![Key(x)] = @ + 1]
       ELSE UNCHANGED <<processed, posted>>

\* Mutant: the processed-event table has no primary key.
Commit_NoKey(x) ==
    /\ pc[x] = "commit"
    /\ WriteRows(x)
    /\ lock' = Released(x)
    /\ staged' = [staged EXCEPT ![x] = {}]
    /\ NextLeg(x, "applied")
    /\ UNCHANGED <<job, jobs, crashes>>

Commit(x) ==
    /\ pc[x] = "commit"
    /\ ~(IsEvent(job[x]) /\ Key(x) \in processed)
    /\ WriteRows(x)
    /\ lock' = Released(x)
    /\ staged' = [staged EXCEPT ![x] = {}]
    /\ NextLeg(x, "applied")
    /\ UNCHANGED <<job, jobs, crashes>>

\* Another delivery of the event has written the key since the check.
KeyConflict(x) ==
    /\ pc[x] = "commit"
    /\ IsEvent(job[x]) /\ Key(x) \in processed
    /\ Fail(x)

Waits(x) ==
    /\ pc[x] = "lock"
    /\ Current(x).item \notin Unlinked
    /\ lock[Current(x).item] \notin {NoSession, x}

\* PostgreSQL picks a session of a cycle of waiting sessions.
DeadlockVictim(x) ==
    /\ \E S \in SUBSET Sessions :
         /\ x \in S
         /\ \A y \in S : Waits(y) /\ lock[Current(y).item] \in S
         /\ \A y \in S : \E z \in S : lock[Current(z).item] = y
    /\ Fail(x)

\* Mutant: the session is not closed.
Answer_NoClose(x) ==
    /\ pc[x] = "answered"
    /\ pc' = [pc EXCEPT ![x] = "idle"]
    /\ job' = [job EXCEPT ![x] = NoJob]
    /\ results' = [results EXCEPT ![x] = << >>]
    /\ UNCHANGED <<level, moved, processed, posted, lock, staged, jobs, crashes>>

\* The answer, and session.close(): what is still locked is released.
Answer(x) ==
    /\ pc[x] = "answered"
    /\ lock' = Released(x)
    /\ pc' = [pc EXCEPT ![x] = "idle"]
    /\ job' = [job EXCEPT ![x] = NoJob]
    /\ results' = [results EXCEPT ![x] = << >>]
    /\ UNCHANGED <<level, moved, processed, posted, staged, jobs, crashes>>

\* The service restarts: PostgreSQL rolls its transactions back.
Crash ==
    /\ crashes < MaxCrashes
    /\ crashes' = crashes + 1
    /\ lock' = [i \in Items |-> NoSession]
    /\ pc' = [x \in Sessions |-> "idle"]
    /\ job' = [x \in Sessions |-> NoJob]
    /\ results' = [x \in Sessions |-> << >>]
    /\ staged' = [x \in Sessions |-> {}]
    /\ UNCHANGED <<level, moved, processed, posted, jobs>>

Handle(x) ==
    \/ CheckProcessed(x) \/ Skip(x)
    \/ RefuseLine(x) \/ RefuseOperation(x) \/ Stage(x)
    \/ Commit(x) \/ KeyConflict(x) \/ DeadlockVictim(x)
    \/ Answer(x)

Next ==
    \/ \E x \in Sessions : Handle(x) \/ \E j \in Jobs : Accept(x, j)
    \/ Crash

Spec == Init /\ [][Next]_vars

\* A started handler goes on, and PostgreSQL's lock queue lets no waiter starve.
FairSpec == Spec /\ \A x \in Sessions : SF_vars(Handle(x))

----------------------------------------------------------------------------
(* Properties.                                                              *)

\* Stock is the opening stock plus every movement in the books: no update of
\* a quantity is lost to another session (stock_movement_service.py, "two
\* cashiers ring up the same item").
StockIsSumOfMovements ==
    \A i \in Items, s \in Stores : level[i][s] = Opening[i][s] + moved[i][s]

\* A line of an event moves stock at most once, also when two deliveries of
\* the event both pass the check that is made before the locks.
LineAppliedOnce ==
    \A k \in Keys : posted[k] = (IF k \in processed THEN 1 ELSE 0)

\* A line answered "applied" has been committed, by this delivery or another:
\* neither a rollback nor a restart takes it back.
AppliedIsPosted ==
    \A x \in Sessions : job[x] # NoJob /\ IsEvent(job[x]) =>
        \A n \in 1..Len(results[x]) :
            results[x][n] = "applied" =>
                <<job[x].event, Leg(job[x], n).item>> \in processed

\* A transfer leaves the stock of its two stores together as it was: both legs
\* become visible in one commit, or neither (operations.py).
TransfersConserve ==
    [][\A x \in Sessions, i \in Items :
          pc[x] = "commit" /\ pc'[x] # "commit" /\ job[x].type = "transfer" =>
              level'[i][job[x].store] + level'[i][job[x].to] =
                  level[i][job[x].store] + level[i][job[x].to]]_vars

\* Every call is answered, although refused lines keep their locks and two
\* events can wait for each other.
EveryCallAnswered == \A x \in Sessions : pc[x] # "idle" ~> pc[x] = "idle"

Book == INSTANCE StockBook

\* Each step of a session is one movement, one transfer or nothing.
Implements == Book!Spec

=============================================================================
