--------------------------- MODULE SaleSyncBatch ---------------------------
(***************************************************************************)
(* POS Service, POST /businesses/{id}/sales/sync: a batch of offline sales  *)
(* is ingested in one PostgreSQL transaction, each sale in a savepoint of   *)
(* its own, and every completed sale is published to Inventory Service by   *)
(* an HTTP call made before that transaction commits.                       *)
(*                                                                          *)
(* A request is a slot of Requests and moves through the phases             *)
(*                                                                          *)
(*   free -> sent -> running <-> creating, inserting, publishing -> done   *)
(*                                                                          *)
(* or ends in refused (403) or error (5xx, the transaction rolled back).    *)
(* Steps are cut where the handler awaits the database or the network, so   *)
(* two requests interleave at exactly those points.  Transactions run at    *)
(* READ COMMITTED: a query sees committed rows only, and an insert that     *)
(* meets another transaction's uncommitted row with the same unique key     *)
(* waits for that transaction to end.                                       *)
(***************************************************************************)
EXTENDS Naturals, FiniteSets

CONSTANTS
    Sales,            \* client_sale_id values
    Stores,
    StoreOf,          \* the store_id each sale carries
    AnyStore,         \* the scope of a token with no active_store_id
    Requests,         \* slots for calls to the endpoint
    NoSale,
    CompletedSales,   \* sales sent with status "completed"
    CustomerSales,    \* sales sent with a customer_id
    DisruptionKinds,  \* the disruptions a configuration allows ...
    MaxDisruptions,   \* ... and how many of them may happen
    MaxDeductions     \* bound: deductions counted per sale

ASSUME ServerAssumption ==
    /\ NoSale \notin Sales
    /\ StoreOf \in [Sales -> Stores]
    /\ AnyStore \notin Stores
    /\ CompletedSales \subseteq Sales
    /\ CustomerSales \subseteq Sales
    /\ MaxDisruptions \in Nat
    /\ MaxDeductions \in Nat

VARIABLES
    phase,       \* where each request is
    batch,       \* the sales the request carries
    pin,         \* the store its token is pinned to
    cur,         \* the sale the handler's loop is at
    outcome,     \* the SyncResult of each sale so far
    rows,        \* committed Sale rows per client_sale_id
    deducted,    \* sale.completed events Inventory Service applied per sale
    customer,    \* the customer a sale refers to, as the POS database has it
    disruptions  \* how many disruptions have happened

serverVars ==
    <<phase, batch, pin, cur, outcome, rows, deducted, customer, disruptions>>

Scopes == Stores \cup {AnyStore}
InTransaction == {"running", "creating", "inserting", "publishing"}
Answered == {"done", "refused", "error"}
Phases == {"free", "sent"} \cup InTransaction \cup Answered
Outcomes == {"none", "created", "duplicate", "failed"}
CustomerStates == {"none", "absent", "live", "deleted"}

NoOutcome == [s \in Sales |-> "none"]

\* The sales the loop has not reached yet.
Todo(r) == {s \in batch[r] : outcome[r][s] = "none"}

\* The rows the request has inserted and not yet committed.
Uncommitted(r) ==
    IF phase[r] \in InTransaction
    THEN {s \in Sales : outcome[r][s] = "created"} ELSE {}

\* Mutant: no unique index on client_sale_id.
BlockedBy_NoIndex(r) == {}

\* The unique index on client_sale_id makes r wait for these requests.
BlockedBy(r) == {q \in Requests \ {r} : cur[r] \in Uncommitted(q)}

\* _create_sale_internal accepts the sale: its customer exists and is not
\* deleted.  (The client sends no sale that breaks the other rules.)
Valid(s) == customer[s] \in {"none", "live"}

Disrupt(kind) ==
    /\ kind \in DisruptionKinds
    /\ disruptions < MaxDisruptions
    /\ disruptions' = disruptions + 1

ServerTypeOK ==
    /\ phase \in [Requests -> Phases]
    /\ batch \in [Requests -> SUBSET Sales]
    /\ pin \in [Requests -> Scopes]
    /\ cur \in [Requests -> Sales \cup {NoSale}]
    /\ outcome \in [Requests -> [Sales -> Outcomes]]
    /\ rows \in [Sales -> Nat]
    /\ deducted \in [Sales -> 0..MaxDeductions]
    /\ customer \in [Sales -> CustomerStates]
    /\ disruptions \in 0..MaxDisruptions

ServerInit ==
    /\ phase = [r \in Requests |-> "free"]
    /\ batch = [r \in Requests |-> {}]
    /\ pin = [r \in Requests |-> AnyStore]
    /\ cur = [r \in Requests |-> NoSale]
    /\ outcome = [r \in Requests |-> NoOutcome]
    /\ rows = [s \in Sales |-> 0]
    /\ deducted = [s \in Sales |-> 0]
    /\ customer = [s \in Sales |->
                     IF s \in CustomerSales THEN "absent" ELSE "none"]
    /\ disruptions = 0

----------------------------------------------------------------------------
(* A request arrives, and a finished one gives its slot back.               *)

Arrive(r, B, scope) ==
    /\ phase[r] = "free"
    /\ phase' = [phase EXCEPT ![r] = "sent"]
    /\ batch' = [batch EXCEPT ![r] = B]
    /\ pin' = [pin EXCEPT ![r] = scope]
    /\ UNCHANGED <<cur, outcome, rows, deducted, customer, disruptions>>

Close(r) ==
    /\ phase' = [phase EXCEPT ![r] = "free"]
    /\ batch' = [batch EXCEPT ![r] = {}]
    /\ pin' = [pin EXCEPT ![r] = AnyStore]
    /\ cur' = [cur EXCEPT ![r] = NoSale]
    /\ outcome' = [outcome EXCEPT ![r] = NoOutcome]
    /\ UNCHANGED <<rows, deducted, customer>>

----------------------------------------------------------------------------
(* The handler.                                                             *)

\* ensure_store_access for every sale of the batch, before any is ingested.
MayAccess(r) == \A s \in batch[r] : pin[r] \in {AnyStore, StoreOf[s]}

Authorize(r) ==
    /\ phase[r] = "sent"
    /\ phase' = [phase EXCEPT ![r] = IF MayAccess(r) THEN "running" ELSE "refused"]
    /\ UNCHANGED <<batch, pin, cur, outcome, rows, deducted, customer, disruptions>>

\* Mutant: uncommitted rows are visible to the lookup.
Lookup_Dirty(r, s) ==
    /\ phase[r] = "running"
    /\ s \in Todo(r)
    /\ IF rows[s] > 0 \/ \E q \in Requests \ {r} : s \in Uncommitted(q)
       THEN /\ outcome' = [outcome EXCEPT ![r][s] = "duplicate"]
            /\ UNCHANGED <<phase, cur>>
       ELSE /\ phase' = [phase EXCEPT ![r] = "creating"]
            /\ cur' = [cur EXCEPT ![r] = s]
            /\ UNCHANGED outcome
    /\ UNCHANGED <<batch, pin, rows, deducted, customer, disruptions>>

\* Mutant: a duplicate falls through to the publish call.
Lookup_Republish(r, s) ==
    /\ phase[r] = "running"
    /\ s \in Todo(r)
    /\ cur' = [cur EXCEPT ![r] = s]
    /\ phase' = [phase EXCEPT ![r] = IF rows[s] > 0 THEN "publishing" ELSE "creating"]
    /\ outcome' = [outcome EXCEPT ![r][s] = IF rows[s] > 0 THEN "duplicate" ELSE @]
    /\ UNCHANGED <<batch, pin, rows, deducted, customer, disruptions>>

\* Mutant: a duplicate gets no result, and the loop does not get past it.
Lookup_NoResult(r, s) ==
    /\ phase[r] = "running"
    /\ s \in Todo(r)
    /\ IF rows[s] > 0
       THEN UNCHANGED <<phase, cur>>
       ELSE /\ phase' = [phase EXCEPT ![r] = "creating"]
            /\ cur' = [cur EXCEPT ![r] = s]
    /\ UNCHANGED <<batch, pin, outcome, rows, deducted, customer, disruptions>>

\* The next sale: one already in the table is a duplicate.
Lookup(r, s) ==
    /\ phase[r] = "running"
    /\ s \in Todo(r)
    /\ IF rows[s] > 0
       THEN /\ outcome' = [outcome EXCEPT ![r][s] = "duplicate"]
            /\ UNCHANGED <<phase, cur>>
       ELSE /\ phase' = [phase EXCEPT ![r] = "creating"]
            /\ cur' = [cur EXCEPT ![r] = s]
            /\ UNCHANGED outcome
    /\ UNCHANGED <<batch, pin, rows, deducted, customer, disruptions>>

\* Mutant: a failed or duplicate sale is reported with a status of its own.
Conclude_Raw(r, result) ==
    /\ outcome' = [outcome EXCEPT ![r][cur[r]] = "rejected"]
    /\ cur' = [cur EXCEPT ![r] = NoSale]
    /\ phase' = [phase EXCEPT ![r] = "running"]

Conclude(r, result) ==
    /\ outcome' = [outcome EXCEPT ![r][cur[r]] = result]
    /\ cur' = [cur EXCEPT ![r] = NoSale]
    /\ phase' = [phase EXCEPT ![r] = "running"]

\* The rules that refuse a sale; asking Identity Service for the store's tax
\* switch comes after them, so what follows is a step of its own.
Validate(r) ==
    /\ phase[r] = "creating"
    /\ IF Valid(cur[r])
       THEN /\ phase' = [phase EXCEPT ![r] = "inserting"]
            /\ UNCHANGED <<cur, outcome>>
       ELSE Conclude(r, "failed")
    /\ UNCHANGED <<batch, pin, rows, deducted, customer, disruptions>>

\* The insert in the savepoint.  By now another transaction may have committed
\* the row the lookup did not see: IntegrityError.
Insert(r) ==
    /\ phase[r] = "inserting"
    /\ BlockedBy(r) = {}
    /\ IF rows[cur[r]] > 0
       THEN Conclude(r, "duplicate")
       ELSE /\ outcome' = [outcome EXCEPT ![r][cur[r]] = "created"]
            /\ phase' = [phase EXCEPT ![r] = "publishing"]
            /\ UNCHANGED cur
    /\ UNCHANGED <<batch, pin, rows, deducted, customer, disruptions>>

\* The event is applied by Inventory Service, or lost: a delivery that fails is
\* logged and forgotten.  Its id is the fresh sale.id of this attempt.
PublishEvent(s) ==
    \/ /\ deducted[s] < MaxDeductions
       /\ deducted' = [deducted EXCEPT ![s] = @ + 1]
    \/ UNCHANGED deducted

\* sale.completed goes out before the commit.
Publish(r) ==
    /\ phase[r] = "publishing"
    /\ IF cur[r] \in CompletedSales
       THEN PublishEvent(cur[r])
       ELSE UNCHANGED deducted
    /\ cur' = [cur EXCEPT ![r] = NoSale]
    /\ phase' = [phase EXCEPT ![r] = "running"]
    /\ UNCHANGED <<batch, pin, outcome, rows, customer, disruptions>>

\* Leaving session.begin(): every savepoint of the batch commits at once.
Commit(r) ==
    /\ phase[r] = "running"
    /\ Todo(r) = {}
    /\ rows' = [s \in Sales |->
                  IF s \in Uncommitted(r) THEN rows[s] + 1 ELSE rows[s]]
    /\ phase' = [phase EXCEPT ![r] = "done"]
    /\ UNCHANGED <<batch, pin, cur, outcome, deducted, customer, disruptions>>

RolledBack(r) ==
    /\ phase' = [phase EXCEPT ![r] = "error"]
    /\ cur' = [cur EXCEPT ![r] = NoSale]
    /\ outcome' = [outcome EXCEPT ![r] = NoOutcome]
    /\ UNCHANGED <<batch, pin, rows, deducted, customer>>

\* The service or its database fails before the commit.
Abort(r) ==
    /\ phase[r] \in InTransaction
    /\ Disrupt("abort")
    /\ RolledBack(r)

\* PostgreSQL ends a cycle of two transactions waiting on each other's keys.
DeadlockVictim(r) ==
    /\ phase[r] = "inserting"
    /\ \E q \in BlockedBy(r) : phase[q] = "inserting" /\ r \in BlockedBy(q)
    /\ RolledBack(r)
    /\ UNCHANGED disruptions

\* The customer outbox reaches the server; a manager deletes a customer.
CustomerPushed(s) ==
    /\ customer[s] = "absent"
    /\ customer' = [customer EXCEPT ![s] = "live"]
    /\ UNCHANGED <<phase, batch, pin, cur, outcome, rows, deducted, disruptions>>

CustomerDeleted(s) ==
    /\ customer[s] = "live"
    /\ customer' = [customer EXCEPT ![s] = "deleted"]
    /\ UNCHANGED <<phase, batch, pin, cur, outcome, rows, deducted, disruptions>>

----------------------------------------------------------------------------
(* The endpoint on its own: any client may send any batch at any time.      *)

Handle(r) ==
    \/ Authorize(r)
    \/ \E s \in Sales : Lookup(r, s)
    \/ Validate(r)
    \/ Insert(r)
    \/ Publish(r)
    \/ Commit(r)
    \/ DeadlockVictim(r)

Answer(r) ==
    /\ phase[r] \in Answered
    /\ Close(r)
    /\ UNCHANGED disruptions

ServerNext ==
    \/ \E r \in Requests, B \in SUBSET Sales \ {{}}, p \in Scopes : Arrive(r, B, p)
    \/ \E r \in Requests : Handle(r) \/ Abort(r) \/ Answer(r)
    \/ \E s \in Sales : CustomerPushed(s) \/ CustomerDeleted(s)

ServerSpec == ServerInit /\ [][ServerNext]_serverVars

\* The event loop keeps running every handler it has started, and a handler
\* waiting for a key is next in PostgreSQL's lock queue when the key is freed.
ServerFairSpec == ServerSpec /\ \A r \in Requests : SF_serverVars(Handle(r))

----------------------------------------------------------------------------
(* Properties.                                                              *)

\* A client_sale_id has at most one Sale row, whatever batches run at the
\* same time: the "idempotency for the sale aggregate root" of models/pos.py.
AtMostOneRow == \A s \in Sales : rows[s] <= 1

\* A result that lets the client stop retrying (created, duplicate) is only
\* ever sent for a sale whose row is committed.
AcknowledgedIsCommitted ==
    \A r \in Requests, s \in Sales :
        phase[r] = "done" /\ outcome[r][s] \in {"created", "duplicate"} => rows[s] > 0

\* Every request the service starts is answered, although transactions wait
\* for each other's uncommitted keys.
EveryRequestAnswered ==
    \A r \in Requests : phase[r] = "sent" ~> phase[r] \in Answered
=============================================================================
