----------------------------- MODULE Purchasing -----------------------------
(***************************************************************************)
(* Inventory Service: buying.  Suppliers and their price list, requisitions   *)
(* that split into one purchase order per supplier, receipts of orders,       *)
(* single-item reorders, the WhatsApp messages prepared for orders and the    *)
(* WhatsApp connection, in sessions that race.                               *)
(*                                                                          *)
(*   idle -> load -> ... -> commit -> ok | refused | error                    *)
(*                                                                          *)
(* Orders, receipts and reorders are read once, without a lock, and written    *)
(* by changed column.  A new number is the count of the rows plus one, and is   *)
(* held by its unique index until the transaction ends.  An order is named by  *)
(* the request that made it and its supplier.                                *)
(***************************************************************************)
EXTENDS Integers, FiniteSets

CONSTANTS
    Sessions, NoSession,
    Suppliers, Items,
    Rank,           \* the order of suppliers and of items in a request
    Sellable,       \* items that are only sold
    Keys, NoKey,    \* idempotency keys
    Jobs, NoJob,
    NoRow,
    Hired,          \* the suppliers of the start
    Reachable,      \* those with a WhatsApp number
    Opened,         \* the orders that are open then: their quantities
    MaxNumber, MaxJobs, MaxAborts

Ids == 0..MaxJobs
Orders == Ids \X Suppliers
Lines == [Items -> Nat]
Named(lines) == {i \in Items : lines[i] # 0}
None == [i \in Items |-> 0]

OrderOps == {"cancel", "receive"}
ReorderOps == {"take", "drop"}
RequisitionOps == {"assign", "regenerate"}
SupplierOps == {"hire", "edit", "remove"}
LinkOps == {"connect", "test", "disconnect"}
Operations ==
    OrderOps \cup ReorderOps \cup RequisitionOps \cup SupplierOps \cup LinkOps
      \cup {"order", "submit", "reorder", "price", "webhook"}

JobType ==
    [op : Operations, order : Orders, id : Ids, supplier : Suppliers, item : Items,
     lines : Lines, cart : [Suppliers -> Lines], number : 0..MaxNumber,
     key : Keys \cup {NoKey}, flag : BOOLEAN, here : BOOLEAN]

OrderRow ==
    [number : Nat \ {0}, status : {"unfulfilled", "fulfilled", "cancelled"},
     ordered : Lines, received : Lines, requisition : Ids \cup {NoRow}]
ReceiptRow == [order : Orders, number : Nat \ {0}, lines : Lines]
RequisitionRow ==
    [key : Keys \cup {NoKey}, cart : [Suppliers -> Lines], moved : Suppliers \cup {NoRow}]
ReorderRow ==
    [supplier : Suppliers, item : Items, quantity : Nat \ {0},
     status : {"pending", "received", "cancelled"}]
Link == [token : BOOLEAN, status : {"connected", "error", "disconnected"}]

ASSUME PurchasingAssumption ==
    /\ NoSession \notin Sessions /\ NoJob \notin Jobs /\ NoKey \notin Keys
    /\ NoRow \notin Ids \cup Suppliers \cup OrderRow \cup ReceiptRow \cup RequisitionRow
                     \cup ReorderRow \cup Link
    /\ IsFiniteSet(Suppliers)
    /\ Rank \in [Suppliers \cup Items -> Nat]
    /\ \A a, b \in Suppliers : Rank[a] = Rank[b] => a = b
    /\ \A a, b \in Items : Rank[a] = Rank[b] => a = b
    /\ Sellable \subseteq Items
    /\ Jobs \subseteq JobType
    /\ \A j \in Jobs : j.op \in {"order", "receive"} => Named(j.lines) # {}
    /\ \A j \in Jobs : j.op = "submit" => \E s \in Suppliers : Named(j.cart[s]) # {}
    /\ \A j \in Jobs : j.op = "reorder" => j.lines[j.item] # 0
    /\ Opened \in [Suppliers -> Lines]
    /\ Hired \subseteq Suppliers /\ Hired # {} /\ Reachable \subseteq Hired /\ Items \ Sellable # {}
    /\ \A s \in Suppliers : Named(Opened[s]) # {} => s \in Hired
    /\ MaxNumber \in Nat /\ MaxJobs \in Nat /\ MaxAborts \in Nat

VARIABLES
    supplier,       \* supplier rows
    phone,          \* suppliers with a WhatsApp number
    price,          \* supplieritem rows
    order, receipt, requisition, reorder,
    message,        \* how many outbound messages each order has
    inbox,          \* replies, each with the order it is linked to
    link,           \* the whatsappconnection row
    level,          \* committed stock
    posted,         \* stock movements by the receipt or reorder they name
    lock,           \* the session that holds an item's row
    pc, job,
    ticket,         \* the number of the session's request
    number,         \* the order or receipt number it has counted
    want,           \* the suppliers, or items, it has still to write
    made,           \* the numbers of the orders it has inserted
    told,           \* the suppliers it prepares a message for
    seen,           \* the order, or the connection, it has read
    base,           \* the stock levels it has read
    jobs, aborts

directory == <<supplier, phone, price>>
papers == <<order, receipt, requisition, reorder>>
chat == <<message, inbox, link>>
stock == <<level, posted>>
book == <<directory, papers, chat, stock>>
own == <<job, ticket, number, want, made, told, seen, base>>
vars == <<book, lock, pc, own, jobs, aborts>>

Answers == {"ok", "refused", "error"}
Places == {"idle", "load", "file", "count", "insert", "level", "lock", "call", "commit"}
            \cup Answers
Refs == {"receipt", "reorder"} \X Ids
Empty == [s \in Suppliers |-> 0]

TypeOK ==
    /\ supplier \in [Suppliers -> {"none", "active", "deleted"}]
    /\ phone \subseteq Suppliers /\ price \subseteq Suppliers \X Items
    /\ order \in [Orders -> OrderRow \cup {NoRow}]
    /\ receipt \in [Ids -> ReceiptRow \cup {NoRow}]
    /\ requisition \in [Ids -> RequisitionRow \cup {NoRow}]
    /\ reorder \in [Ids -> ReorderRow \cup {NoRow}]
    /\ message \in [Orders -> Nat]
    /\ inbox \subseteq Ids \X (Orders \cup {NoRow})
    /\ link \in Link \cup {NoRow}
    /\ level \in [Items -> Int] /\ posted \in [Refs -> Lines]
    /\ lock \in [Items -> Sessions \cup {NoSession}]
    /\ pc \in [Sessions -> Places]
    /\ job \in [Sessions -> Jobs \cup {NoJob}]
    /\ ticket \in [Sessions -> Ids]
    /\ number \in [Sessions -> Nat]
    /\ want \in [Sessions -> SUBSET (Suppliers \cup Items)]
    /\ made \in [Sessions -> [Suppliers -> Nat]]
    /\ told \in [Sessions -> SUBSET Suppliers]
    /\ seen \in [Sessions -> OrderRow \cup Link \cup {NoRow}]
    /\ base \in [Sessions -> [Items -> Int]]
    /\ jobs \in Ids /\ aborts \in 0..MaxAborts

Least(S) == CHOOSE a \in S : \A b \in S : Rank[a] <= Rank[b]

\* The open orders, numbered in turn, and a pending reorder of one item.
Before(s) == {t \in Suppliers : Rank[t] < Rank[s] /\ Named(Opened[t]) # {}}
Init ==
    /\ supplier = [s \in Suppliers |-> IF s \in Hired THEN "active" ELSE "none"]
    /\ phone = Reachable /\ price = {}
    /\ order = [o \in Orders |->
          IF o[1] # 0 \/ Named(Opened[o[2]]) = {} THEN NoRow ELSE
          [number |-> Cardinality(Before(o[2])) + 1, status |-> "unfulfilled", ordered |-> Opened[o[2]],
           received |-> None, requisition |-> NoRow]]
    /\ receipt = [n \in Ids |-> NoRow]
    /\ requisition = [n \in Ids |-> NoRow]
    /\ reorder = [n \in Ids |-> IF n # 0 THEN NoRow ELSE
          [supplier |-> Least(Hired), item |-> Least(Items \ Sellable),
           quantity |-> 1, status |-> "pending"]]
    /\ message = [o \in Orders |-> 0] /\ inbox = {} /\ link = NoRow
    /\ level = None /\ posted = [f \in Refs |-> None]
    /\ lock = [i \in Items |-> NoSession]
    /\ pc = [x \in Sessions |-> "idle"]
    /\ job = [x \in Sessions |-> NoJob]
    /\ ticket = [x \in Sessions |-> 0] /\ number = [x \in Sessions |-> 0]
    /\ want = [x \in Sessions |-> {}] /\ told = [x \in Sessions |-> {}]
    /\ made = [x \in Sessions |-> Empty]
    /\ seen = [x \in Sessions |-> NoRow]
    /\ base = [x \in Sessions |-> None]
    /\ jobs = 0 /\ aborts = 0

Goto(x, place) == pc' = [pc EXCEPT ![x] = place]
Placed == {o \in Orders : order[o] # NoRow}
Receipts == {n \in Ids : receipt[n] # NoRow}
Submitted == {n \in Ids : requisition[n] # NoRow}
Reorders == {n \in Ids : reorder[n] # NoRow}
OrdersOf(n) == {o \in Placed : order[o].requisition = n}

----------------------------------------------------------------------------
(* Requests.                                                                *)

\* A client names a row it was shown.
Known(j) ==
    /\ j.op \in OrderOps => j.order \in Placed
    /\ j.op \in ReorderOps => j.id \in Reorders
    /\ j.op \in RequisitionOps => j.id \in Submitted
    /\ j.op = "hire" => supplier[j.supplier] = "none"
    /\ j.op \in {"edit", "remove", "price", "webhook"} => supplier[j.supplier] # "none"

Arrive(x, j) ==
    /\ pc[x] = "idle" /\ jobs < MaxJobs
    /\ Known(j)
    /\ jobs' = jobs + 1
    /\ job' = [job EXCEPT ![x] = j]
    /\ ticket' = [ticket EXCEPT ![x] = jobs + 1]
    /\ Goto(x, "load")
    /\ UNCHANGED <<book, lock, number, want, made, told, seen, base, aborts>>

Done(x) ==
    /\ pc[x] \in Answers
    /\ Goto(x, "idle")
    /\ UNCHANGED <<book, lock, own, jobs, aborts>>

\* The transaction ends with an answer: its locks and its session are gone.
Released(x) == [i \in Items |-> IF lock[i] = x THEN NoSession ELSE lock[i]]
Finish(x, answer) ==
    /\ Goto(x, answer)
    /\ lock' = Released(x)
    /\ job' = [job EXCEPT ![x] = NoJob] /\ ticket' = [ticket EXCEPT ![x] = 0]
    /\ number' = [number EXCEPT ![x] = 0] /\ want' = [want EXCEPT ![x] = {}]
    /\ made' = [made EXCEPT ![x] = Empty] /\ told' = [told EXCEPT ![x] = {}]
    /\ seen' = [seen EXCEPT ![x] = NoRow] /\ base' = [base EXCEPT ![x] = None]

Leave(x, answer) == Finish(x, answer) /\ UNCHANGED <<jobs, aborts>>
Fails(x, answer) == Leave(x, answer) /\ UNCHANGED book

\* The handler goes on with what it has read.
GoOn(x, place, row, wanted, tell) ==
    /\ Goto(x, place)
    /\ seen' = [seen EXCEPT ![x] = row]
    /\ want' = [want EXCEPT ![x] = wanted]
    /\ told' = [told EXCEPT ![x] = tell]
    /\ UNCHANGED <<book, lock, job, ticket, made, base, jobs, aborts>>
Proceed(x, place, row, wanted, tell) ==
    GoOn(x, place, row, wanted, tell) /\ UNCHANGED number
Reply(x, place) ==
    IF place \in Answers THEN Fails(x, place) ELSE Proceed(x, place, NoRow, {}, {})

Loading(x, op) == pc[x] = "load" /\ job[x].op = op /\ job[x].here

\* The token is for another store, or the webhook is not signed: 403, 401.
Deny(x) == pc[x] = "load" /\ ~job[x].here /\ Fails(x, "refused")

----------------------------------------------------------------------------
(* Suppliers and their prices.  A supplier row is never removed, and each     *)
(* request writes columns of its own.                                       *)

CreateSupplier(x) ==
    /\ Loading(x, "hire")
    /\ supplier' = [supplier EXCEPT ![job[x].supplier] = "active"]
    /\ phone' = IF job[x].flag THEN phone \cup {job[x].supplier} ELSE phone
    /\ Leave(x, "ok") /\ UNCHANGED <<price, papers, chat, stock>>

UpdateSupplier(x) ==
    /\ Loading(x, "edit")
    /\ phone' = IF job[x].flag THEN phone \cup {job[x].supplier}
                               ELSE phone \ {job[x].supplier}
    /\ Leave(x, "ok") /\ UNCHANGED <<supplier, price, papers, chat, stock>>

DeleteSupplier(x) ==
    /\ Loading(x, "remove")
    /\ supplier' = [supplier EXCEPT ![job[x].supplier] = "deleted"]
    /\ Leave(x, "ok") /\ UNCHANGED <<phone, price, papers, chat, stock>>

\* A second insert of the pair fails on uq_supplieritem_supplier_item: 500.
LoadPrice(x) ==
    /\ Loading(x, "price")
    /\ Reply(x, IF <<job[x].supplier, job[x].item>> \in price THEN "ok" ELSE "insert")
InsertPrice(x) ==
    /\ pc[x] = "insert" /\ job[x].op = "price"
    /\ LET row == <<job[x].supplier, job[x].item>> IN
       /\ price' = price \cup {row}
       /\ Leave(x, IF row \in price THEN "error" ELSE "ok")
    /\ UNCHANGED <<supplier, phone, papers, chat, stock>>
UpsertSupplierItem(x) == LoadPrice(x) \/ InsertPrice(x)

----------------------------------------------------------------------------
(* Numbers: PO-0001 and GRN-0001 are counted, then inserted.                 *)

\* The count sees the committed rows and the session's own.
NextNumber(x) ==
    IF job[x].op = "receive" THEN Cardinality(Receipts) + 1
    ELSE Cardinality(Placed) + Cardinality({s \in Suppliers : made[x][s] # 0}) + 1

Count(x) ==
    /\ pc[x] = "count"
    /\ Goto(x, "insert")
    /\ number' = [number EXCEPT ![x] = NextNumber(x)]
    /\ UNCHANGED <<book, lock, job, ticket, want, made, told, seen, base, jobs, aborts>>

\* Numbers of uncommitted rows: another INSERT of one waits for their end.
Held(x) == {made[y][s] : y \in Sessions \ {x}, s \in Suppliers} \ {0}
HeldReceipt(x) ==
    {number[y] : y \in {z \in Sessions \ {x} :
        pc[z] \in {"level", "lock", "commit"} /\ job[z].op = "receive"}}

\* uq_purchaseorder_business_id_po_number and its like for receipts.
Taken(n) == \E o \in Placed : order[o].number = n
TakenReceipt(n) == \E r \in Receipts : receipt[r].number = n

----------------------------------------------------------------------------
(* Orders and requisitions.                                                 *)

Orderable(s, lines) ==
    supplier[s] = "active" /\ Named(lines) \cap Sellable = {}

LoadOrder(x) ==
    /\ Loading(x, "order")
    /\ LET j == job[x] IN
       IF ~Orderable(j.supplier, j.lines) \/ Taken(j.number)
       THEN Fails(x, "refused")
       ELSE /\ GoOn(x, IF j.number = 0 THEN "count" ELSE "insert", NoRow, {j.supplier}, {})
            /\ number' = [number EXCEPT ![x] = j.number]

Cart(x) == IF job[x].op = "submit" THEN job[x].cart
           ELSE [s \in Suppliers |-> IF s = job[x].supplier THEN job[x].lines ELSE None]
Asked(cart) == {s \in Suppliers : Named(cart[s]) # {}}

WithKey(key) == {n \in Submitted : key # NoKey /\ requisition[n].key = key}

\* A key that was used answers with what it made.
LoadSubmit(x) ==
    /\ Loading(x, "submit")
    /\ LET j == job[x] IN
       IF WithKey(j.key) # {} THEN Fails(x, "ok")
       ELSE IF \E s \in Asked(j.cart) : ~Orderable(s, j.cart[s]) THEN Fails(x, "refused")
       ELSE Proceed(x, "file", NoRow, Asked(j.cart), Asked(j.cart) \cap phone)

\* The requisition is flushed: uq_requisition_business_idem.
Filed(y) == job[y] # NoJob /\ job[y].op = "submit" /\ pc[y] \in {"count", "insert", "commit"}
KeyTaken_Never(key) == FALSE  \* Mutant: there is no unique index.
KeyTaken(key) == WithKey(key) # {}
FileRequisition(x) ==
    /\ pc[x] = "file"
    /\ \A y \in Sessions \ {x} : Filed(y) => job[x].key \in {NoKey} \/ job[y].key # job[x].key
    /\ IF KeyTaken(job[x].key) THEN Fails(x, "refused")
       ELSE Proceed(x, "count", NoRow, want[x], told[x])

\* The order of the next supplier: a clash is 409 for a requisition, and 500
\* for an order, whose header is flushed outside the handler's try.
InsertOrder(x) ==
    /\ pc[x] = "insert" /\ job[x].op \in {"order", "submit"}
    /\ number[x] \notin Held(x)
    /\ IF Taken(number[x])
       THEN Fails(x, IF job[x].op = "submit" THEN "refused" ELSE "error")
       ELSE LET s == Least(want[x]) IN
            /\ made' = [made EXCEPT ![x][s] = number[x]]
            /\ want' = [want EXCEPT ![x] = @ \ {s}]
            /\ number' = [number EXCEPT ![x] = 0]
            /\ Goto(x, IF want[x] = {s} THEN "commit" ELSE "count")
            /\ UNCHANGED <<book, lock, job, ticket, told, seen, base, jobs, aborts>>

\* The rows a session has inserted become everyone's.
Ordered(x) ==
    [o \in Orders |->
        IF o[1] # ticket[x] \/ made[x][o[2]] = 0 THEN order[o] ELSE
        [number |-> made[x][o[2]], status |-> "unfulfilled",
         ordered |-> Cart(x)[o[2]], received |-> None,
         requisition |-> IF job[x].op = "submit" THEN ticket[x] ELSE NoRow]]

CommitOrder(x) ==
    /\ pc[x] = "commit" /\ job[x].op = "order"
    /\ order' = Ordered(x)
    /\ Leave(x, "ok")
    /\ UNCHANGED <<directory, receipt, requisition, reorder, chat, stock>>

CommitSubmit_Early(x) ==  \* Mutant: the first order is committed by itself.
    /\ pc[x] \in {"count", "commit"} /\ job[x].op = "submit" /\ made[x] # Empty
    /\ order' = Ordered(x)
    /\ requisition' = [requisition EXCEPT ![ticket[x]] =
          [key |-> job[x].key, cart |-> job[x].cart, moved |-> NoRow]]
    /\ Leave(x, "ok")
    /\ UNCHANGED <<directory, receipt, reorder, chat, stock>>
CommitSubmit(x) ==
    /\ pc[x] = "commit" /\ job[x].op = "submit"
    /\ order' = Ordered(x)
    /\ requisition' = [requisition EXCEPT ![ticket[x]] =
          [key |-> job[x].key, cart |-> job[x].cart, moved |-> NoRow]]
    /\ message' = [o \in Orders |->
          IF o[1] = ticket[x] /\ o[2] \in told[x] THEN 1 ELSE message[o]]
    /\ Leave(x, "ok")
    /\ UNCHANGED <<directory, receipt, reorder, inbox, link, stock>>

CreateOrder(x) == LoadOrder(x) \/ CommitOrder(x)
SubmitRequisition(x) == LoadSubmit(x) \/ FileRequisition(x) \/ CommitSubmit(x)

\* Every line of a requisition has a supplier, so only the explicit override
\* moves lines; the orders that were made stay as they are.
LoadAssign(x) ==
    /\ Loading(x, "assign")
    /\ Reply(x, IF supplier[job[x].supplier] # "active" THEN "refused"
                ELSE IF job[x].flag THEN "commit" ELSE "ok")
CommitAssign(x) ==
    /\ pc[x] = "commit" /\ job[x].op = "assign"
    /\ requisition' = [requisition EXCEPT ![job[x].id].moved = job[x].supplier]
    /\ Leave(x, "ok")
    /\ UNCHANGED <<directory, order, receipt, reorder, chat, stock>>
BulkAssign(x) == LoadAssign(x) \/ CommitAssign(x)

\* The messages of a requisition are made again; one_or_none fails on two.
LoadRegenerate(x) ==
    /\ Loading(x, "regenerate")
    /\ LET mine == {o \in OrdersOf(job[x].id) : o[2] \in phone} IN
       IF \E o \in mine : message[o] > 1 THEN Fails(x, "error")
       ELSE Proceed(x, "commit", NoRow, {}, {o[2] : o \in {p \in mine : message[p] = 0}})
CommitRegenerate(x) ==
    /\ pc[x] = "commit" /\ job[x].op = "regenerate"
    /\ message' = [o \in Orders |->
          IF o[1] = job[x].id /\ o[2] \in told[x] THEN message[o] + 1 ELSE message[o]]
    /\ Leave(x, "ok")
    /\ UNCHANGED <<directory, papers, inbox, link, stock>>
RegenerateAllPayloads(x) == LoadRegenerate(x) \/ CommitRegenerate(x)

\* rollup_requisition_status: what a requisition's readers are shown.
Rollup(n) ==
    LET statuses == {order[o].status : o \in OrdersOf(n)} IN
    IF statuses = {"fulfilled"} THEN "Fulfilled"
    ELSE IF statuses = {"cancelled"} THEN "Cancelled" ELSE "Unfulfilled"

----------------------------------------------------------------------------
(* Cancelling and receiving an order.                                       *)

LoadCancel(x) ==
    /\ Loading(x, "cancel")
    /\ LET o == order[job[x].order] IN
       Reply(x, IF o.status = "unfulfilled" /\ Named(o.received) = {} THEN "commit" ELSE "refused")
CommitCancel(x) ==
    /\ pc[x] = "commit" /\ job[x].op = "cancel"
    /\ order' = [order EXCEPT ![job[x].order].status = "cancelled"]
    /\ Leave(x, "ok")
    /\ UNCHANGED <<directory, receipt, requisition, reorder, chat, stock>>
CancelOrder(x) == LoadCancel(x) \/ CommitCancel(x)

\* Each line is on the order, and no more than what was outstanding when read.
Fits(lines, o) == \A i \in Named(lines) : lines[i] <= o.ordered[i] - o.received[i]

LoadReceive(x) ==
    /\ Loading(x, "receive")
    /\ LET o == order[job[x].order] IN
       IF o.status = "unfulfilled" /\ Fits(job[x].lines, o)
       THEN Proceed(x, "count", o, Named(job[x].lines), {})
       ELSE Fails(x, "refused")

InsertReceipt(x) ==
    /\ pc[x] = "insert" /\ job[x].op = "receive"
    /\ number[x] \notin HeldReceipt(x)
    /\ IF TakenReceipt(number[x]) THEN Fails(x, "refused")
       ELSE Proceed(x, "level", seen[x], want[x], {})

\* The level is read for the average cost, before the item is locked.
ReadLevel(x) ==
    /\ pc[x] = "level"
    /\ Goto(x, "lock")
    /\ LET i == Least(want[x]) IN base' = [base EXCEPT ![x][i] = level[i]]
    /\ UNCHANGED <<book, lock, job, ticket, number, want, made, told, seen, jobs, aborts>>

\* record_movement: SELECT ... FOR UPDATE does not refresh a level that the
\* session has read; only a reorder taken without its cost reads it here.
Grant(i) == lock[i] = NoSession
LockItem(x) ==
    /\ pc[x] = "lock"
    /\ LET i == Least(want[x])
           fresh == job[x].op = "take" /\ ~job[x].flag
       IN  /\ Grant(i)
           /\ lock' = [lock EXCEPT ![i] = x]
           /\ want' = [want EXCEPT ![x] = @ \ {i}]
           /\ base' = IF fresh THEN [base EXCEPT ![x][i] = level[i]] ELSE base
           /\ Goto(x, IF want[x] = {i} THEN "commit" ELSE "level")
    /\ UNCHANGED <<book, job, ticket, number, made, told, seen, jobs, aborts>>

Received(x) == [i \in Items |-> seen[x].received[i] + job[x].lines[i]]

\* The status is written when it changes.
Status_Any(x) ==  \* Mutant: a delivery fulfils the order.
    "fulfilled"
Status(x) ==
    IF \A i \in Items : Received(x)[i] >= seen[x].ordered[i] THEN "fulfilled"
    ELSE order[job[x].order].status

CommitReceive_Unposted(x) ==  \* Mutant: the movements are not committed.
    /\ pc[x] = "commit" /\ job[x].op = "receive"
    /\ receipt' = [receipt EXCEPT ![ticket[x]] =
          [order |-> job[x].order, number |-> number[x], lines |-> job[x].lines]]
    /\ order' = [order EXCEPT ![job[x].order].received = Received(x),
                              ![job[x].order].status = Status(x)]
    /\ Leave(x, "ok")
    /\ UNCHANGED <<directory, requisition, reorder, chat, stock>>
CommitReceive(x) ==
    /\ pc[x] = "commit" /\ job[x].op = "receive"
    /\ receipt' = [receipt EXCEPT ![ticket[x]] =
          [order |-> job[x].order, number |-> number[x], lines |-> job[x].lines]]
    /\ order' = [order EXCEPT
          ![job[x].order].received =
              [i \in Items |-> IF job[x].lines[i] = 0 THEN @[i] ELSE Received(x)[i]],
          ![job[x].order].status = Status(x)]
    /\ posted' = [posted EXCEPT ![<<"receipt", ticket[x]>>] = job[x].lines]
    /\ level' = [i \in Items |->
          IF job[x].lines[i] = 0 THEN level[i] ELSE base[x][i] + job[x].lines[i]]
    /\ Leave(x, "ok")
    /\ UNCHANGED <<directory, requisition, reorder, chat>>
ReceiveOrder(x) == LoadReceive(x) \/ InsertReceipt(x) \/ CommitReceive(x)

----------------------------------------------------------------------------
(* Reorders: one item from one supplier.                                    *)

LoadReorder(x) ==
    /\ Loading(x, "reorder")
    /\ Reply(x, IF job[x].item \notin Sellable /\ supplier[job[x].supplier] = "active"
                THEN "commit" ELSE "refused")
CommitReorder(x) ==
    /\ pc[x] = "commit" /\ job[x].op = "reorder"
    /\ reorder' = [reorder EXCEPT ![ticket[x]] =
          [supplier |-> job[x].supplier, item |-> job[x].item,
           quantity |-> job[x].lines[job[x].item], status |-> "pending"]]
    /\ Leave(x, "ok")
    /\ UNCHANGED <<directory, order, receipt, requisition, chat, stock>>
CreateReorder(x) == LoadReorder(x) \/ CommitReorder(x)

Pending(n) == reorder[n].status = "pending"

LoadTake(x) ==
    /\ Loading(x, "take")
    /\ IF Pending(job[x].id)
       THEN Proceed(x, IF job[x].flag THEN "level" ELSE "lock", NoRow, {reorder[job[x].id].item}, {})
       ELSE Fails(x, "refused")
CommitTake(x) ==
    /\ pc[x] = "commit" /\ job[x].op = "take"
    /\ LET n == job[x].id  i == reorder[n].item  q == reorder[n].quantity IN
       /\ reorder' = [reorder EXCEPT ![n].status = "received"]
       /\ posted' = [posted EXCEPT ![<<"reorder", n>>][i] = @ + q]
       /\ level' = [level EXCEPT ![i] = base[x][i] + q]
    /\ Leave(x, "ok")
    /\ UNCHANGED <<directory, order, receipt, requisition, chat>>
ReceiveReorder(x) == LoadTake(x) \/ CommitTake(x)

LoadDrop(x) ==
    /\ Loading(x, "drop")
    /\ Reply(x, IF Pending(job[x].id) THEN "commit" ELSE "refused")
CommitDrop(x) ==
    /\ pc[x] = "commit" /\ job[x].op = "drop"
    /\ reorder' = [reorder EXCEPT ![job[x].id].status = "cancelled"]
    /\ Leave(x, "ok")
    /\ UNCHANGED <<directory, order, receipt, requisition, chat, stock>>
CancelReorder(x) == LoadDrop(x) \/ CommitDrop(x)

----------------------------------------------------------------------------
(* The WhatsApp connection and its webhook.                                 *)

\* The row of an upsert stays locked while Graph is called; another upsert
\* that found no row fails on uq_whatsappconnection_business_id.
Linking(x) == \E y \in Sessions \ {x} : pc[y] = "call" /\ job[y].op = "connect"

LoadLink(x) ==
    /\ pc[x] = "load" /\ job[x].op \in LinkOps /\ job[x].here
    /\ IF job[x].op = "connect" THEN Proceed(x, "insert", link, {}, {})
       ELSE IF link = NoRow \/ (link # NoRow /\ ~link.token) THEN Fails(x, "refused")
       ELSE Proceed(x, IF job[x].op = "test" THEN "call" ELSE "commit", link, {}, {})

UpsertConnection(x) ==
    /\ pc[x] = "insert" /\ job[x].op = "connect"
    /\ ~Linking(x)
    /\ IF seen[x] = NoRow /\ link # NoRow THEN Fails(x, "error")
       ELSE Proceed(x, "call", seen[x], {}, {})

\* mark_checked: a status is written when it differs from the one read.
Checked(x, status) ==
    IF job[x].op = "connect" THEN [token |-> TRUE, status |-> status]
    ELSE IF seen[x].status = status THEN link ELSE [link EXCEPT !.status = status]

\* Graph answers with the number, rejects the token, or does not answer.
FetchPhoneNumber(x) ==
    /\ pc[x] = "call"
    /\ job[x].op = "test" => ~Linking(x)
    /\ \/ /\ \E status \in {"connected", "error"} : link' = Checked(x, status)
          /\ Leave(x, "ok")
          /\ UNCHANGED <<directory, papers, message, inbox, stock>>
       \/ Fails(x, "error")

CommitDisconnect(x) ==
    /\ pc[x] = "commit" /\ job[x].op = "disconnect"
    /\ ~Linking(x)
    /\ link' = [token |-> FALSE,
                status |-> IF seen[x].status = "disconnected" THEN link.status ELSE "disconnected"]
    /\ Leave(x, "ok")
    /\ UNCHANGED <<directory, papers, message, inbox, stock>>

ConnectWhatsApp(x) == LoadLink(x) \/ UpsertConnection(x) \/ FetchPhoneNumber(x)

\* A reply is stored with the order of a message to its sender, if there is
\* one; a reply that is delivered again is stored again.
Answerable(s) ==
    {o \in Placed : o[2] = s /\ supplier[s] = "active" /\ s \in phone /\ message[o] # 0}
ReceiveWebhook(x) ==
    /\ Loading(x, "webhook")
    /\ LET mine == Answerable(job[x].supplier) IN
       \E o \in (IF mine = {} THEN {NoRow} ELSE mine) :
          inbox' = IF link = NoRow THEN inbox ELSE inbox \cup {<<ticket[x], o>>}
    /\ Leave(x, "ok")
    /\ UNCHANGED <<directory, papers, message, link, stock>>

----------------------------------------------------------------------------
\* A lost connection or a restart: the open transaction is rolled back.
Abort(x) ==
    /\ pc[x] \in {"count", "insert", "level", "lock", "commit"}
    /\ aborts < MaxAborts
    /\ aborts' = aborts + 1
    /\ Finish(x, "error")
    /\ UNCHANGED <<book, jobs>>

Step(x) ==
    \/ Deny(x)
    \/ CreateSupplier(x) \/ UpdateSupplier(x) \/ DeleteSupplier(x)
    \/ UpsertSupplierItem(x)
    \/ Count(x) \/ InsertOrder(x) \/ CreateOrder(x) \/ CancelOrder(x)
    \/ SubmitRequisition(x) \/ BulkAssign(x) \/ RegenerateAllPayloads(x)
    \/ ReceiveOrder(x) \/ ReadLevel(x) \/ LockItem(x)
    \/ CreateReorder(x) \/ ReceiveReorder(x) \/ CancelReorder(x)
    \/ ConnectWhatsApp(x) \/ CommitDisconnect(x) \/ ReceiveWebhook(x)

\* The requests of the bound are answered.
Rest ==
    /\ jobs = MaxJobs /\ \A x \in Sessions : pc[x] = "idle"
    /\ UNCHANGED vars

Next ==
    \/ \E x \in Sessions :
          \/ \E j \in Jobs : Arrive(x, j)
          \/ Step(x) \/ Abort(x) \/ Done(x)
    \/ Rest

Spec == Init /\ [][Next]_vars

----------------------------------------------------------------------------
(* Properties.                                                              *)

\* No two orders and no two receipts share a number, though two sessions count
\* before either commits, and a client may name a number of its own.
NumbersUnique ==
    /\ \A o, p \in Placed : order[o].number = order[p].number => o = p
    /\ \A m, n \in Receipts : receipt[m].number = receipt[n].number => m = n

\* A receipt and the stock it brought are one: each receipt has posted its
\* lines, nothing is posted for a receipt that is not there, and a reorder
\* that reads received has been posted.
ReceiptMovesStock ==
    /\ \A n \in Ids : posted[<<"receipt", n>>] = IF n \in Receipts THEN receipt[n].lines ELSE None
    /\ \A n \in Reorders :
         reorder[n].status = "received" =>
             posted[<<"reorder", n>>][reorder[n].item] >= reorder[n].quantity

\* A double tap on submit makes one requisition per key.
OneRequisitionPerKey ==
    \A m, n \in Submitted :
        requisition[m].key = requisition[n].key /\ requisition[m].key # NoKey => m = n

\* A requisition is split whole: an order for each supplier of the cart, with
\* its lines, and no order of a requisition that is not there.
SplitIsWhole ==
    \A n \in Ids, s \in Suppliers :
        LET o == <<n, s>> IN
        IF n \in Submitted
        THEN /\ o \in Placed <=> s \in Asked(requisition[n].cart)
             /\ o \in Placed => order[o].ordered = requisition[n].cart[s]
        ELSE o \in Placed => order[o].requisition = NoRow

\* What the receipts of an order brought of an item.
Total(f) ==
    LET T[n \in Ids] == f[n] + (IF n = 0 THEN 0 ELSE T[n - 1]) IN T[MaxJobs]
Bringing(o, i) ==
    [n \in Ids |-> IF n \in Receipts /\ receipt[n].order = o THEN receipt[n].lines[i] ELSE 0]
Brought(o, i) == Total(Bringing(o, i))

\* What is shown as fulfilled was received, whatever receipts and cancellations
\* raced: of an order its receipts brought all, of a requisition its whole cart.
FulfilledIsReceived ==
    /\ \A o \in Placed : order[o].status = "fulfilled" =>
          \A i \in Items : Brought(o, i) >= order[o].ordered[i]
    /\ \A n \in Submitted : Rollup(n) = "Fulfilled" =>
          \A s \in Suppliers, i \in Items : Brought(<<n, s>>, i) >= requisition[n].cart[s][i]

\* The tables are what the schema says: the types, the numbers that two
\* sessions count at once, the key of a submission that is tapped twice.
TablesConsistent == TypeOK /\ NumbersUnique /\ OneRequisitionPerKey
=============================================================================
