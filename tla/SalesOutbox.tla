----------------------------- MODULE SalesOutbox -----------------------------
(***************************************************************************)
(* One terminal's sales outbox (lib/sync/sync_service.dart) against the POS *)
(* batch endpoint of SaleSyncBatch.                                         *)
(*                                                                          *)
(* A drain is one SyncService instance: several may run on the same         *)
(* database (a background isolate, an instance a provider rebuilt), each    *)
(* with its own reentrancy guard.  A drain loops                            *)
(*                                                                          *)
(*   idle -> claim -> send -> wait -> apply -> (claim | idle)               *)
(*                               \-> revert -> idle                         *)
(*                                                                          *)
(* cut at every await: each row is written by a statement of its own.  The  *)
(* outbox rows survive a crash, the drains do not, and a request that was   *)
(* sent goes on without the drain that sent it.                             *)
(***************************************************************************)
EXTENDS SaleSyncBatch

CONSTANTS
    Drains,
    Places,       \* positions in upload order: created_at, then row id
    MaxBatch,     \* AppLimits.syncBatchSize
    NoRequest

ASSUME ClientAssumption ==
    /\ Places \subseteq Nat
    /\ MaxBatch \in Nat \ {0}
    /\ NoRequest \notin Requests

VARIABLES
    store,        \* the store the terminal is provisioned for
    token,        \* the scope of the access token it holds
    refreshDue,   \* storeTokenRefreshPendingProvider
    row,          \* syncStatus of each sale's outbox row
    place,        \* where the row stands in upload order
    pc,           \* where each drain is
    claimed,      \* the batch it claimed
    left,         \* the rows of it the drain has still to write
    reply,        \* the results it was given
    req           \* the request it waits for

clientVars == <<store, token, refreshDue, row, place, pc, claimed, left, reply, req>>
vars == <<serverVars, clientVars>>

RowStates == {"unwritten", "pending", "syncing", "failed", "synced"}
DrainStates == {"idle", "claim", "send", "wait", "apply", "revert"}

ClientTypeOK ==
    /\ store \in Stores
    /\ token \in Scopes
    /\ refreshDue \in BOOLEAN
    /\ row \in [Sales -> RowStates]
    /\ place \in [Sales -> Nat]
    /\ pc \in [Drains -> DrainStates]
    /\ claimed \in [Drains -> SUBSET Sales]
    /\ left \in [Drains -> SUBSET Sales]
    /\ reply \in [Drains -> [Sales -> Outcomes]]
    /\ req \in [Drains -> Requests \cup {NoRequest}]

TypeOK == ServerTypeOK /\ ClientTypeOK

Written == {s \in Sales : row[s] # "unwritten"}
\* Mutants: the query forgets failed rows, or its filter on syncStatus.
Eligible_PendingOnly == {s \in Sales : row[s] = "pending"}
Eligible_Unfiltered == {s \in Written : row[s] # "syncing"}

Eligible == {s \in Sales : row[s] \in {"pending", "failed"}}
First(S) == {s \in S : \A x \in S : place[s] <= place[x]}

\* The oldest rows of S, at most MaxBatch of them.
OldestOf(S) ==
    {B \in SUBSET S :
        /\ \A b \in B, x \in S \ B : place[b] < place[x]
        /\ Cardinality(B) <= MaxBatch
        /\ B = S \/ Cardinality(B) = MaxBatch}

OutboxInit ==
    /\ ServerInit
    /\ store \in Stores
    /\ token \in {store, AnyStore}
    /\ refreshDue = FALSE
    /\ row = [s \in Sales |-> "unwritten"]
    /\ place = [s \in Sales |-> 0]
    /\ pc = [d \in Drains |-> "idle"]
    /\ claimed = [d \in Drains |-> {}]
    /\ left = [d \in Drains |-> {}]
    /\ reply = [d \in Drains |-> NoOutcome]
    /\ req = [d \in Drains |-> NoRequest]

----------------------------------------------------------------------------
(* The till.                                                                *)

\* writeIfMappable: a paid order becomes a pending row.  The device clock may
\* be set back, so the row may come before older ones in upload order.
RingUp(s, p) ==
    /\ row[s] = "unwritten"
    /\ StoreOf[s] = store
    /\ p \notin {place[x] : x \in Written}
    /\ row' = [row EXCEPT ![s] = "pending"]
    /\ place' = [place EXCEPT ![s] = p]
    /\ UNCHANGED <<serverVars, store, token, refreshDue, pc, claimed, left, reply, req>>

\* runStoreSwitchFlow with "switch anyway": offline, only the terminal moves.
SwitchStore(t) ==
    /\ t # store
    /\ Disrupt("switch")
    /\ store' = t
    /\ \/ token' = t /\ refreshDue' = FALSE
       \/ token' = token /\ refreshDue' = TRUE
    /\ UNCHANGED <<phase, batch, pin, cur, outcome, rows, deducted, customer>>
    /\ UNCHANGED <<row, place, pc, claimed, left, reply, req>>

\* retryStoreTokenRefresh, offered while the pending banner shows.
RefreshToken ==
    /\ refreshDue
    /\ token' = store
    /\ refreshDue' = FALSE
    /\ UNCHANGED <<serverVars, store, row, place, pc, claimed, left, reply, req>>

----------------------------------------------------------------------------
(* A drain.                                                                 *)

\* syncNow, when no call of this instance is in flight.
SyncNow(d) ==
    /\ pc[d] = "idle"
    /\ pc' = [pc EXCEPT ![d] = "claim"]
    /\ UNCHANGED <<serverVars, store, token, refreshDue, row, place, claimed, left, reply, req>>

\* Mutant: the rows are read but not flipped to "syncing".
Claim_NoFlip(d) ==
    /\ pc[d] = "claim"
    /\ \E B \in OldestOf(Eligible) :
         /\ claimed' = [claimed EXCEPT ![d] = B]
         /\ pc' = [pc EXCEPT ![d] = IF B = {} THEN "idle" ELSE "send"]
    /\ UNCHANGED <<serverVars, store, token, refreshDue, row, place, left, reply, req>>

\* _claimBatch: one database transaction.
Claim(d) ==
    /\ pc[d] = "claim"
    /\ \E B \in OldestOf(Eligible) :
         /\ row' = [s \in Sales |-> IF s \in B THEN "syncing" ELSE row[s]]
         /\ claimed' = [claimed EXCEPT ![d] = B]
         /\ pc' = [pc EXCEPT ![d] = IF B = {} THEN "idle" ELSE "send"]
    /\ UNCHANGED <<serverVars, store, token, refreshDue, place, left, reply, req>>

\* The request leaves with the token the terminal holds now.
Send(d) ==
    /\ pc[d] = "send"
    /\ \E r \in Requests :
         /\ Arrive(r, claimed[d], token)
         /\ req' = [req EXCEPT ![d] = r]
    /\ pc' = [pc EXCEPT ![d] = "wait"]
    /\ UNCHANGED <<store, token, refreshDue, row, place, claimed, left, reply>>

StartWriting(d, state, results) ==
    /\ pc' = [pc EXCEPT ![d] = state]
    /\ left' = [left EXCEPT ![d] = claimed[d]]
    /\ reply' = [reply EXCEPT ![d] = results]
    /\ req' = [req EXCEPT ![d] = NoRequest]
    /\ UNCHANGED <<store, token, refreshDue, row, place, claimed>>

\* Mutant: the answer leaves before the transaction is committed.
Receive_BeforeCommit(d) ==
    /\ pc[d] = "wait"
    /\ phase[req[d]] \in {"running", "done"}
    /\ Todo(req[d]) = {}
    /\ StartWriting(d, "apply", outcome[req[d]])
    /\ Close(req[d])
    /\ UNCHANGED disruptions

Receive(d) ==
    /\ pc[d] = "wait"
    /\ phase[req[d]] = "done"
    /\ StartWriting(d, "apply", outcome[req[d]])
    /\ Close(req[d])
    /\ UNCHANGED disruptions

\* Any other status throws, whatever its reason.
CallFails(d) ==
    /\ pc[d] = "wait"
    /\ phase[req[d]] \in {"refused", "error"}
    /\ StartWriting(d, "revert", NoOutcome)
    /\ Close(req[d])
    /\ UNCHANGED disruptions

\* No answer came: the request never arrived, or it still runs, or its
\* answer was lost.
CallTimesOut(d) ==
    /\ pc[d] = "wait"
    /\ Disrupt("timeout")
    /\ StartWriting(d, "revert", NoOutcome)
    /\ \/ phase[req[d]] = "sent" /\ Close(req[d])
       \/ UNCHANGED <<phase, batch, pin, cur, outcome, rows, deducted, customer>>

\* Mutants: the API status is stored as it is; every answer counts as success.
StatusAfter_Raw(result) == result
StatusAfter_AnyResult(result) == IF result = "none" THEN "pending" ELSE "synced"

\* The status a row takes from its result.
StatusAfter(result) ==
    CASE result = "none" -> "pending"
      [] result = "failed" -> "failed"
      [] OTHER -> "synced"

WriteResult(d, s) ==
    /\ pc[d] = "apply"
    /\ s \in First(left[d])
    /\ row' = [row EXCEPT ![s] = StatusAfter(reply[d][s])]
    /\ left' = [left EXCEPT ![d] = @ \ {s}]
    /\ UNCHANGED <<serverVars, store, token, refreshDue, place, pc, claimed, reply, req>>

Rest(d, state) ==
    /\ pc' = [pc EXCEPT ![d] = state]
    /\ claimed' = [claimed EXCEPT ![d] = {}]
    /\ left' = [left EXCEPT ![d] = {}]
    /\ reply' = [reply EXCEPT ![d] = NoOutcome]
    /\ req' = [req EXCEPT ![d] = NoRequest]

\* All rows written: a full batch may have left more behind it.
FinishBatch(d) ==
    /\ pc[d] = "apply"
    /\ left[d] = {}
    /\ Rest(d, IF Cardinality(claimed[d]) < MaxBatch THEN "idle" ELSE "claim")
    /\ UNCHANGED <<serverVars, store, token, refreshDue, row, place>>

\* The catch block puts every claimed row back and stops.
RevertRow(d, s) ==
    /\ pc[d] = "revert"
    /\ s \in First(left[d])
    /\ row' = [row EXCEPT ![s] = "pending"]
    /\ IF left[d] = {s}
       THEN Rest(d, "idle")
       ELSE /\ left' = [left EXCEPT ![d] = @ \ {s}]
            /\ UNCHANGED <<pc, claimed, reply, req>>
    /\ UNCHANGED <<serverVars, store, token, refreshDue, place>>

\* A database write fails while results are applied: the same catch block.
WriteThrows(d) ==
    /\ pc[d] = "apply"
    /\ Disrupt("database")
    /\ StartWriting(d, "revert", NoOutcome)
    /\ UNCHANGED <<phase, batch, pin, cur, outcome, rows, deducted, customer>>

\* Outside the try block, or inside its catch, an exception leaves _doSync.
DrainThrows(d) ==
    /\ pc[d] \in {"claim", "send", "revert"}
    /\ Disrupt("database")
    /\ Rest(d, "idle")
    /\ UNCHANGED <<phase, batch, pin, cur, outcome, rows, deducted, customer>>
    /\ UNCHANGED <<store, token, refreshDue, row, place>>

\* The app is killed: memory is lost, the database is not.
Crash ==
    /\ Disrupt("crash")
    /\ pc' = [d \in Drains |-> "idle"]
    /\ claimed' = [d \in Drains |-> {}]
    /\ left' = [d \in Drains |-> {}]
    /\ reply' = [d \in Drains |-> NoOutcome]
    /\ req' = [d \in Drains |-> NoRequest]
    /\ refreshDue' = FALSE
    /\ UNCHANGED <<phase, batch, pin, cur, outcome, rows, deducted, customer>>
    /\ UNCHANGED <<store, token, row, place>>

DrainStep(d) ==
    \/ Claim(d)
    \/ Send(d)
    \/ Receive(d)
    \/ CallFails(d)
    \/ \E s \in Sales : WriteResult(d, s) \/ RevertRow(d, s)
    \/ FinishBatch(d)

----------------------------------------------------------------------------
(* The service, fed by this terminal alone.                                 *)

\* The handler keeps the order of the request, and requests keep the order
\* of the outbox, so two of them never wait for each other.
ServerStep(r) ==
    /\ \/ Authorize(r)
       \/ \E s \in First(Todo(r)) : Lookup(r, s)
       \/ Validate(r)
       \/ Insert(r)
       \/ Publish(r)
       \/ Commit(r)
    /\ UNCHANGED clientVars

\* The answer to a request nobody waits for any more is dropped.
DropAnswer(r) ==
    /\ phase[r] \in Answered
    /\ \A d \in Drains : req[d] # r
    /\ Close(r)
    /\ UNCHANGED <<disruptions, clientVars>>

OutboxNext ==
    \/ \E s \in Sales : \/ \E p \in Places : RingUp(s, p)
                        \/ CustomerPushed(s) /\ UNCHANGED clientVars
                        \/ CustomerDeleted(s) /\ UNCHANGED clientVars
    \/ \E t \in Stores : SwitchStore(t)
    \/ RefreshToken
    \/ \E d \in Drains : \/ SyncNow(d)
                         \/ DrainStep(d)
                         \/ CallTimesOut(d)
                         \/ WriteThrows(d)
                         \/ DrainThrows(d)
    \/ \E r \in Requests : \/ ServerStep(r)
                           \/ DropAnswer(r)
                           \/ Abort(r) /\ UNCHANGED clientVars
    \/ Crash

OutboxSpec == OutboxInit /\ [][OutboxNext]_vars

\* A started drain and a started handler go on; new orders and the user keep
\* calling syncNow; the customer outbox is drained first.  A free request
\* slot is always found in the end.
OutboxFairSpec ==
    /\ OutboxSpec
    /\ \A d \in Drains : WF_vars(SyncNow(d)) /\ SF_vars(DrainStep(d))
    /\ \A r \in Requests : WF_vars(ServerStep(r)) /\ WF_vars(DropAnswer(r))
    /\ \A s \in Sales : WF_vars(CustomerPushed(s) /\ UNCHANGED clientVars)
    /\ WF_vars(RefreshToken)

----------------------------------------------------------------------------
(* Properties.                                                              *)

\* The rows a drain claimed and has not written a result for yet.
Holding(d) == IF pc[d] \in {"send", "wait"} THEN claimed[d] ELSE left[d]

\* A row says "synced" only when POS has committed the sale: whatever is lost,
\* late, refused or rolled back, no sale is dropped from the outbox unsaved.
SyncedIsIngested == \A s \in Sales : row[s] = "synced" => rows[s] > 0

\* The row claim keeps drains apart: a row one drain holds is "syncing" and no
\* other drain holds it (app_database.dart, cross-isolate safety).
ClaimsAreExclusive ==
    \A d \in Drains : \A s \in Holding(d) :
        row[s] = "syncing" /\ \A e \in Drains \ {d} : s \notin Holding(e)

\* The stock of a sale is deducted at most once, and only with its row committed
\* or about to be, although calls time out and sales are sent again under a
\* fresh sale id.  It needs transactions that do not abort: the event leaves
\* before the commit.
DeductedOnce ==
    \A s \in Sales : deducted[s] > 0 =>
        /\ deducted[s] = 1
        /\ rows[s] > 0 \/ \E r \in Requests : s \in Uncommitted(r)

\* A synced row is final: it never goes back to a state that is uploaded again
\* (sync_service.dart, "synced rows are never re-uploaded").
SyncedIsFinal == [][\A s \in Sales : row[s] = "synced" => row'[s] = "synced"]_row

\* Every row marked "syncing" belongs to a drain that will write its result,
\* also after a restart (app_database.dart, "tracks sync state across app
\* restarts: pending, syncing, synced or failed").
SyncingIsHeld ==
    \A s \in Sales : row[s] = "syncing" => \E d \in Drains : s \in Holding(d)

\* Every sale rung up reaches POS and is marked synced, unless its customer is
\* deleted first: time-outs, aborted batches, several drains and failed rows
\* that are retried only delay it.
EventuallySynced ==
    \A s \in Sales :
        row[s] # "unwritten" ~> row[s] = "synced" \/ customer[s] = "deleted"

\* How far a sale has come, as SaleDelivery tells it.
Stage ==
    [s \in Sales |->
        CASE row[s] = "unwritten" -> "unsold"
          [] row[s] = "synced" -> "acknowledged"
          [] row[s] \notin {"unwritten", "synced"} /\ rows[s] > 0 -> "ingested"
          [] OTHER -> "queued"]

Delivery == INSTANCE SaleDelivery WITH stage <- Stage

\* The terminal and POS together implement SaleDelivery: rung up once, ingested
\* once, acknowledged after that, and never a step back.
Implements == Delivery!Spec
=============================================================================
