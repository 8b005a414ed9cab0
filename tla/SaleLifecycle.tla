---------------------------- MODULE SaleLifecycle ----------------------------
(***************************************************************************)
(* POS Service: what happens to a sale after it was ingested - void and      *)
(* refund, the steps of a delivery - and to the couriers it may be given,    *)
(* under requests that race for the same rows.                              *)
(*                                                                          *)
(* A request is a session with a PostgreSQL transaction of its own (READ     *)
(* COMMITTED).  Rows are read without a lock, so what a guard saw may be     *)
(* gone when the UPDATE runs; the UPDATE locks the row until the             *)
(* transaction ends, and writes only the columns that the handler changed.   *)
(***************************************************************************)
EXTENDS Integers, FiniteSets

CONSTANTS
    Sessions,
    Sales,
    Deliveries,     \* the sales whose order_type is delivery
    NoSale,
    Couriers,
    NoCourier,
    Phones,
    NoPhone,
    Actions,        \* client_action_id values
    NoAction,
    Jobs,           \* the requests clients make
    NoJob,
    MaxJobs,        \* bound: requests that arrive
    MaxAborts       \* bound: transactions that fail after their flush

Statuses == {"completed", "voided", "refunded"}
Reversed == {"voided", "refunded"}
DeliveryStatuses == {"pending", "assigned", "out_for_delivery", "delivered", "failed"}
Corrections == {"void", "refund"}
Updates == Corrections \cup {"deliver"}
Operations == Updates \cup {"ring", "hire", "edit", "fire"}

\* The columns of a sales row that change after the insert.
SaleRow ==
    [status : Statuses,
     void : Actions \cup {NoAction}, refund : Actions \cup {NoAction},
     delivery : DeliveryStatuses \cup {"none"},
     courier : Couriers \cup {NoCourier}]
CourierRow == [phone : Phones, active : BOOLEAN]

\* A request: "to" is the status a sale is rung up with, or the one a
\* delivery moves to.
JobType ==
    [op : Operations, sale : Sales \cup {NoSale}, action : Actions \cup {NoAction},
     to : Statuses \cup DeliveryStatuses \cup {"none"},
     courier : Couriers \cup {NoCourier}, phone : Phones \cup {NoPhone},
     active : BOOLEAN]

ASSUME LifecycleAssumption ==
    /\ NoSale \notin Sales /\ NoCourier \notin Couriers /\ NoPhone \notin Phones
    /\ NoAction \notin Actions /\ NoJob \notin Jobs
    /\ NoSale \notin SaleRow /\ NoCourier \notin CourierRow
    /\ Deliveries \subseteq Sales
    /\ Jobs \subseteq JobType
    /\ \A j \in Jobs :
         /\ j.op \in Corrections <=> j.action \in Actions
         /\ j.op \in Updates \cup {"ring"} <=> j.sale \in Sales
         /\ j.op = "deliver" => j.to \in DeliveryStatuses
         /\ j.op = "ring" => j.to \in Statuses
         /\ j.op = "ring" /\ j.courier # NoCourier => j.sale \in Deliveries
         /\ j.op \in {"hire", "edit", "fire"} => j.courier \in Couriers
         /\ j.op = "hire" => j.phone \in Phones
    /\ MaxJobs \in Nat /\ MaxAborts \in Nat

\* The terminal makes a new client_action_id for each tap, so an id is only
\* ever sent again for the sale it was made for.
ASSUME ActionAssumption ==
    \A j, k \in Jobs : j.action \in Actions /\ j.action = k.action => j.sale = k.sale

VARIABLES
    sale,       \* committed sales rows
    courier,    \* committed couriers rows
    putBack,    \* reversal events of each sale that reached Inventory
    orphaned,   \* sales whose reversal failed after its event was sent
    pc,         \* where each session is
    call,       \* its request
    seen,       \* the row it has read
    jobs,       \* how many requests have arrived
    aborts

rows == <<sale, courier, putBack, orphaned>>
vars == <<sale, courier, putBack, orphaned, pc, call, seen, jobs, aborts>>

Answers == {"ok", "refused", "error"}
Places == {"idle", "recall", "load", "courier", "flush", "publish", "commit",
           "phone", "save"} \cup Answers

TypeOK ==
    /\ sale \in [Sales -> SaleRow \cup {NoSale}]
    /\ courier \in [Couriers -> CourierRow \cup {NoCourier}]
    /\ putBack \in [Sales -> SUBSET Actions]
    /\ orphaned \subseteq Sales
    /\ pc \in [Sessions -> Places]
    /\ call \in [Sessions -> Jobs \cup {NoJob}]
    /\ seen \in [Sessions -> SaleRow \cup {NoSale}]
    /\ jobs \in 0..MaxJobs
    /\ aborts \in 0..MaxAborts
    /\ \A x \in Sessions : pc[x] # "idle" => call[x] \in Jobs

Init ==
    /\ sale = [s \in Sales |-> NoSale]
    /\ courier = [c \in Couriers |-> NoCourier]
    /\ putBack = [s \in Sales |-> {}]
    /\ orphaned = {}
    /\ pc = [x \in Sessions |-> "idle"]
    /\ call = [x \in Sessions |-> NoJob]
    /\ seen = [x \in Sessions |-> NoSale]
    /\ jobs = 0
    /\ aborts = 0

Goto(x, place) == pc' = [pc EXCEPT ![x] = place]
Rung == {s \in Sales : sale[s] # NoSale}
Hired == {c \in Couriers : courier[c] # NoCourier}

----------------------------------------------------------------------------
(* Requests arrive and are answered.                                        *)

First(j) ==
    CASE j.op \in Corrections -> "recall"
      [] j.op = "deliver" -> "load"
      [] j.op = "ring" -> IF j.courier = NoCourier THEN "flush" ELSE "courier"
      [] j.op \in {"hire", "edit"} -> "phone"
      [] j.op = "fire" -> "save"

Arrive(x, j) ==
    /\ pc[x] = "idle" /\ jobs < MaxJobs
    /\ jobs' = jobs + 1
    /\ call' = [call EXCEPT ![x] = j]
    /\ Goto(x, First(j))
    /\ UNCHANGED <<rows, seen, aborts>>

Done(x) ==
    /\ pc[x] \in Answers
    /\ Goto(x, "idle")
    /\ call' = [call EXCEPT ![x] = NoJob]
    /\ seen' = [seen EXCEPT ![x] = NoSale]
    /\ UNCHANGED <<rows, jobs, aborts>>

----------------------------------------------------------------------------
(* Void and refund.                                                         *)

\* The idempotency lookup: this action was applied before.
Recall(x) ==
    /\ pc[x] = "recall"
    /\ LET applied == \E s \in Rung : call[x].action \in {sale[s].void, sale[s].refund}
       IN  Goto(x, IF applied THEN "ok" ELSE "load")
    /\ UNCHANGED <<rows, call, seen, jobs, aborts>>

LoadSale_Publishes(x) ==  \* Mutant: the event is sent before the row is written.
    /\ pc[x] = "load" /\ call[x].op \in Corrections
    /\ LET row == sale[call[x].sale]
       IN  /\ seen' = [seen EXCEPT ![x] = row]
           /\ IF row # NoSale /\ row.status = "completed"
              THEN /\ putBack' = [putBack EXCEPT ![call[x].sale] = @ \cup {call[x].action}]
                   /\ Goto(x, "flush")
              ELSE Goto(x, "refused") /\ UNCHANGED putBack
    /\ UNCHANGED <<sale, courier, orphaned, call, jobs, aborts>>

LoadSale(x) ==
    /\ pc[x] = "load" /\ call[x].op \in Corrections
    /\ LET row == sale[call[x].sale]
       IN  /\ seen' = [seen EXCEPT ![x] = row]
           /\ Goto(x, IF row # NoSale /\ row.status = "completed"
                      THEN "flush" ELSE "refused")
    /\ UNCHANGED <<rows, call, jobs, aborts>>

Corrected(j, row) ==
    IF j.op = "void" THEN [row EXCEPT !.status = "voided", !.void = j.action]
                     ELSE [row EXCEPT !.status = "refunded", !.refund = j.action]

\* The event leaves before the commit; a failure to deliver it is logged only.
PublishReversal(x) ==
    /\ pc[x] = "publish"
    /\ \/ putBack' = [putBack EXCEPT ![call[x].sale] = @ \cup {call[x].action}]
       \/ UNCHANGED putBack
    /\ Goto(x, "commit")
    /\ UNCHANGED <<sale, courier, orphaned, call, seen, jobs, aborts>>

----------------------------------------------------------------------------
(* Deliveries.                                                              *)

Allowed ==
    [none |-> {}, pending |-> {"assigned", "failed"},
     assigned |-> {"out_for_delivery", "failed"},
     out_for_delivery |-> {"delivered", "failed"},
     delivered |-> {}, failed |-> {}]

LoadDelivery(x) ==
    /\ pc[x] = "load" /\ call[x].op = "deliver"
    /\ LET j == call[x]
           row == sale[j.sale]
       IN  /\ seen' = [seen EXCEPT ![x] = row]
           /\ IF /\ row # NoSale
                 /\ j.to \in Allowed[row.delivery]
                 /\ j.to = "assigned" => {j.courier, row.courier} # {NoCourier}
              THEN Goto(x, IF j.courier = NoCourier THEN "flush" ELSE "courier")
              ELSE Goto(x, "refused")
    /\ UNCHANGED <<rows, call, jobs, aborts>>

\* validate_courier_for_sale: the courier exists and is active.
CheckCourier(x) ==
    /\ pc[x] = "courier"
    /\ LET row == courier[call[x].courier]
       IN  Goto(x, IF row # NoCourier /\ row.active THEN "flush" ELSE "refused")
    /\ UNCHANGED <<rows, call, seen, jobs, aborts>>

\* courier_id is written only when it differs from the one that was read.
WritesCourier(x) ==
    /\ call[x].op \in {"deliver", "ring"}
    /\ call[x].courier # NoCourier
    /\ seen[x] # NoSale => call[x].courier # seen[x].courier

Delivered(x, row) ==
    [row EXCEPT !.delivery = call[x].to,
                !.courier = IF WritesCourier(x) THEN call[x].courier ELSE @]

----------------------------------------------------------------------------
(* Writing a sale.                                                          *)

RungUp(j) ==
    [status |-> j.to, void |-> NoAction, refund |-> NoAction,
     delivery |-> IF j.sale \in Deliveries THEN "pending" ELSE "none",
     courier |-> j.courier]

Written_WholeRow(x) ==  \* Mutant: the columns that were read are written back.
    CASE call[x].op = "ring" -> RungUp(call[x])
      [] call[x].op \in Corrections -> Corrected(call[x], seen[x])
      [] call[x].op = "deliver" -> Delivered(x, seen[x])

\* The row as this session's INSERT or UPDATE makes it.
Written(x) ==
    LET j == call[x] IN
    CASE j.op = "ring" -> RungUp(j)
      [] j.op \in Corrections -> Corrected(j, sale[j.sale])
      [] j.op = "deliver" -> Delivered(x, sale[j.sale])

Writing == {x \in Sessions : pc[x] \in {"publish", "commit"}}

\* An INSERT or UPDATE waits for a writer of the same row, and of the same
\* unique action id.
Free(x) ==
    \A y \in Writing :
        /\ call[y].sale # call[x].sale
        /\ call[x].action # NoAction => call[y].action # call[x].action

\* The unique keys and the foreign key to couriers.
Broken(x) ==
    \/ call[x].op = "ring" /\ sale[call[x].sale] # NoSale
    \/ call[x].op = "void" /\ \E s \in Rung : sale[s].void = call[x].action
    \/ call[x].op = "refund" /\ \E s \in Rung : sale[s].refund = call[x].action
    \/ WritesCourier(x) /\ courier[call[x].courier] = NoCourier

AfterFlush(x) == IF call[x].op \in Corrections THEN "publish" ELSE "commit"

Flush(x) ==
    /\ pc[x] = "flush"
    /\ Free(x)
    /\ Goto(x, IF Broken(x) THEN "error" ELSE AfterFlush(x))
    /\ UNCHANGED <<rows, call, seen, jobs, aborts>>

Commit(x) ==
    /\ pc[x] = "commit"
    /\ sale' = [sale EXCEPT ![call[x].sale] = Written(x)]
    /\ Goto(x, "ok")
    /\ UNCHANGED <<courier, putBack, orphaned, call, seen, jobs, aborts>>

\* The connection or the service fails after the flush: PostgreSQL rolls back.
Abort(x) ==
    /\ pc[x] \in {"publish", "commit"}
    /\ aborts < MaxAborts
    /\ aborts' = aborts + 1
    /\ orphaned' = IF call[x].op \in Corrections /\ pc[x] = "commit"
                   THEN orphaned \cup {call[x].sale} ELSE orphaned
    /\ Goto(x, "error")
    /\ UNCHANGED <<sale, courier, putBack, call, seen, jobs>>

----------------------------------------------------------------------------
(* Couriers.                                                                *)

PhoneTaken(p, c) == \E d \in Hired \ {c} : courier[d].phone = p

\* create_courier looks the phone up; update_courier loads the courier first,
\* and looks up only a phone that changes.
FindPhone(x) ==
    /\ pc[x] = "phone"
    /\ LET j == call[x]
           found == j.op = "edit" => courier[j.courier] # NoCourier
       IN  Goto(x, IF found /\ ~(j.phone # NoPhone /\ PhoneTaken(j.phone, j.courier))
                   THEN "save" ELSE "refused")
    /\ UNCHANGED <<rows, call, seen, jobs, aborts>>

\* The constraint uq_couriers_business_id_phone.
PhoneClash(j) == j.phone # NoPhone /\ PhoneTaken(j.phone, j.courier)

CreateCourier(x) ==
    /\ pc[x] = "save" /\ call[x].op = "hire"
    /\ LET j == call[x] IN
       IF PhoneClash(j) \/ courier[j.courier] # NoCourier
       THEN Goto(x, "refused") /\ UNCHANGED courier
       ELSE /\ courier' = [courier EXCEPT ![j.courier] =
                              [phone |-> j.phone, active |-> j.active]]
            /\ Goto(x, "ok")
    /\ UNCHANGED <<sale, putBack, orphaned, call, seen, jobs, aborts>>

UpdateCourier(x) ==
    /\ pc[x] = "save" /\ call[x].op = "edit"
    /\ LET j == call[x]
           row == courier[j.courier]
       IN  IF row = NoCourier THEN Goto(x, "error") /\ UNCHANGED courier
           ELSE IF PhoneClash(j) THEN Goto(x, "refused") /\ UNCHANGED courier
           ELSE /\ courier' = [courier EXCEPT ![j.courier] =
                      [phone |-> IF j.phone = NoPhone THEN row.phone ELSE j.phone,
                       active |-> j.active]]
                /\ Goto(x, "ok")
    /\ UNCHANGED <<sale, putBack, orphaned, call, seen, jobs, aborts>>

\* The DELETE waits for the writers that hold a sale of this courier, or the
\* courier itself through the foreign key.
Unheld(c) ==
    \A y \in Writing :
        /\ WritesCourier(y) => call[y].courier # c
        /\ sale[call[y].sale] # NoSale => sale[call[y].sale].courier # c

\* ON DELETE SET NULL.
Orphan_Keeps(c) == sale
Orphan(c) ==
    [s \in Sales |-> IF s \in Rung /\ sale[s].courier = c
                     THEN [sale[s] EXCEPT !.courier = NoCourier] ELSE sale[s]]

DeleteCourier(x) ==
    /\ pc[x] = "save" /\ call[x].op = "fire"
    /\ LET c == call[x].courier IN
       IF courier[c] = NoCourier
       THEN Goto(x, "refused") /\ UNCHANGED <<sale, courier>>
       ELSE /\ Unheld(c)
            /\ courier' = [courier EXCEPT ![c] = NoCourier]
            /\ sale' = Orphan(c)
            /\ Goto(x, "ok")
    /\ UNCHANGED <<putBack, orphaned, call, seen, jobs, aborts>>

----------------------------------------------------------------------------
Step(x) ==
    \/ Recall(x) \/ LoadSale(x) \/ LoadDelivery(x) \/ CheckCourier(x)
    \/ Flush(x) \/ PublishReversal(x) \/ Commit(x)
    \/ FindPhone(x) \/ CreateCourier(x) \/ UpdateCourier(x) \/ DeleteCourier(x)

\* The requests of the bound are answered.
Rest ==
    /\ jobs = MaxJobs /\ \A x \in Sessions : pc[x] = "idle"
    /\ UNCHANGED vars

Next ==
    \/ \E x \in Sessions :
          \/ \E j \in Jobs : Arrive(x, j)
          \/ Step(x)
          \/ Abort(x)
          \/ Done(x)
    \/ Rest

Spec == Init /\ [][Next]_vars
----------------------------------------------------------------------------
(* Properties.                                                              *)

\* The sales the summary and the reports count as revenue.
Revenue == {s \in Rung : sale[s].status = "completed"}

\* A void or refund that was answered with success has taken the sale out of
\* the revenue, and nothing - a racing correction, a delivery step that read
\* the sale before - brings it back while the answer is on its way.
OkMeansReversed ==
    \A x \in Sessions :
        pc[x] = "ok" /\ call[x].op \in Corrections => call[x].sale \in Rung \ Revenue

\* Stock is put back only for a sale that is reversed, is about to be, or
\* whose transaction failed after the event was sent.
StockBackMeansReversed ==
    \A s \in Sales : putBack[s] # {} =>
        \/ s \in orphaned \cup (Rung \ Revenue)
        \/ \E x \in Sessions : pc[x] = "commit" /\ call[x].sale = s

\* A sale names only a courier that exists, though couriers are deleted
\* between the check of a courier and the write of the sale.
CourierExists == \A s \in Rung : sale[s].courier \in Hired \cup {NoCourier}

\* Two couriers of a business never share a phone, though both requests
\* looked it up before either was saved.
PhonesUnique ==
    \A c, d \in Hired : courier[c].phone = courier[d].phone => c = d

\* The tables are what the schema says: the types, and the references and the
\* unique keys that racing requests put to the test.
TablesConsistent == TypeOK /\ CourierExists /\ PhonesUnique
=============================================================================
