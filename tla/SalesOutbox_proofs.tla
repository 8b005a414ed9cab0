------------------------- MODULE SalesOutbox_proofs -------------------------
(***************************************************************************)
(* Proofs about the batch endpoint of POS and the terminal that calls it:  *)
(* the endpoint alone, terminal and endpoint, the refinement of SaleDelivery,*)
(* and the deductions of stock.                                            *)
(***************************************************************************)
EXTENDS SalesOutbox, TLAPS

----------------------------------------------------------------------------
(***************************************************************************)
(* The batch endpoint ingests every client_sale_id at most once, for every  *)
(* number of concurrent requests and every batch.  The inductive invariant  *)
(* LedgerInv relates the rows a transaction holds uncommitted to the rows    *)
(* of the table and of every other transaction.                             *)
(***************************************************************************)
\* A request that has not begun its transaction, or has lost it, has no results.
FreshInv ==
    \A r \in Requests :
        phase[r] \in {"free", "sent", "refused", "error"} =>
            \A s \in Sales : outcome[r][s] = "none"

\* The loop variable is a sale while a sale is being created or published.
CursorInv ==
    \A r \in Requests : phase[r] \in {"creating", "inserting", "publishing"} => cur[r] \in Sales

\* An uncommitted row is in no other transaction and not in the table.
UniqueInv ==
    \A r \in Requests : \A s \in Uncommitted(r) :
        /\ rows[s] = 0
        /\ \A q \in Requests \ {r} : s \notin Uncommitted(q)

\* A duplicate, and a created sale once its request is done, is in the table.
ResultInv ==
    \A r \in Requests, s \in Sales :
        \/ outcome[r][s] = "duplicate"
        \/ phase[r] = "done" /\ outcome[r][s] = "created"
        => rows[s] > 0

LedgerInv ==
    /\ ServerTypeOK
    /\ FreshInv
    /\ CursorInv
    /\ UniqueInv
    /\ ResultInv
    /\ AtMostOneRow

----------------------------------------------------------------------------
(* The initial state.                                                       *)

LEMMA LedgerInit == ServerInit => LedgerInv
<1> SUFFICES ASSUME ServerInit PROVE LedgerInv
    OBVIOUS
<1> USE ServerAssumption DEF ServerInit, NoOutcome
<1>1. ServerTypeOK
    BY DEF ServerTypeOK, Phases, InTransaction, Answered, Scopes, Outcomes,
           CustomerStates
<1>2. FreshInv /\ CursorInv /\ UniqueInv /\ ResultInv /\ AtMostOneRow
    BY DEF FreshInv, CursorInv, UniqueInv, ResultInv, AtMostOneRow,
           Uncommitted, InTransaction
<1>3. QED
    BY <1>1, <1>2 DEF LedgerInv

----------------------------------------------------------------------------
(* Every action of the endpoint preserves the invariant.                    *)

\* Types, for all of the handler's steps together.
LEMMA HandlerTypes ==
    ASSUME NEW r \in Requests, ServerTypeOK, CursorInv, Handle(r) \/ Abort(r)
    PROVE  ServerTypeOK'
<1> USE ServerAssumption
    DEF ServerTypeOK, Phases, InTransaction, Answered, Outcomes, CustomerStates
<1>1. CASE Authorize(r)
    BY <1>1 DEF Authorize
<1>2. ASSUME NEW s \in Sales, Lookup(r, s) PROVE ServerTypeOK'
    <2>1. outcome' \in [Requests -> [Sales -> Outcomes]]
        <3>1. \/ outcome' = [outcome EXCEPT ![r][s] = "duplicate"]
              \/ outcome' = outcome
            BY <1>2 DEF Lookup
        <3>2. [outcome EXCEPT ![r][s] = "duplicate"] \in [Requests -> [Sales -> Outcomes]]
            OBVIOUS
        <3>3. QED
            BY <3>1, <3>2
    <2>2. phase' \in [Requests -> Phases] /\ cur' \in [Requests -> Sales \cup {NoSale}]
        <3>1. \/ phase' = [phase EXCEPT ![r] = "creating"] /\ cur' = [cur EXCEPT ![r] = s]
              \/ phase' = phase /\ cur' = cur
            BY ONLY <1>2 DEF Lookup
        <3>2. phase \in [Requests -> Phases] /\ cur \in [Requests -> Sales \cup {NoSale}]
            OBVIOUS
        <3>3. [phase EXCEPT ![r] = "creating"] \in [Requests -> Phases]
            BY ONLY <3>2 DEF Phases, InTransaction
        <3>4. [cur EXCEPT ![r] = s] \in [Requests -> Sales \cup {NoSale}]
            BY ONLY <3>2
        <3>5. QED
            BY ONLY <3>1, <3>2, <3>3, <3>4
    <2>3. QED
        BY <1>2, <2>1, <2>2 DEF Lookup
<1>3. CASE Validate(r) \/ Insert(r)
    <2>1. cur[r] \in Sales
        BY <1>3 DEF Validate, Insert, CursorInv
    <2>2. ASSUME NEW result \in Outcomes, Conclude(r, result)
          PROVE  /\ outcome' \in [Requests -> [Sales -> Outcomes]]
                 /\ phase' \in [Requests -> Phases]
                 /\ cur' \in [Requests -> Sales \cup {NoSale}]
        BY <2>1, <2>2 DEF Conclude
    <2>3. ASSUME /\ outcome' = [outcome EXCEPT ![r][cur[r]] = "created"]
                 /\ phase' = [phase EXCEPT ![r] = "publishing"]
                 /\ UNCHANGED cur
          PROVE  /\ outcome' \in [Requests -> [Sales -> Outcomes]]
                 /\ phase' \in [Requests -> Phases]
                 /\ cur' \in [Requests -> Sales \cup {NoSale}]
        BY <2>1, <2>3
    <2>4. ASSUME /\ phase' = [phase EXCEPT ![r] = "inserting"]
                 /\ UNCHANGED <<cur, outcome>>
          PROVE  /\ outcome' \in [Requests -> [Sales -> Outcomes]]
                 /\ phase' \in [Requests -> Phases]
                 /\ cur' \in [Requests -> Sales \cup {NoSale}]
        BY <2>4
    <2>5. /\ outcome' \in [Requests -> [Sales -> Outcomes]]
          /\ phase' \in [Requests -> Phases]
          /\ cur' \in [Requests -> Sales \cup {NoSale}]
        BY <1>3, <2>2, <2>3, <2>4 DEF Validate, Insert
    <2>6. QED
        BY <1>3, <2>5 DEF Validate, Insert
<1>4. CASE Publish(r)
    <2>1. deducted' \in [Sales -> 0..MaxDeductions]
        BY <1>4 DEF Publish, PublishEvent
    <2>2. phase' \in [Requests -> Phases] /\ cur' \in [Requests -> Sales \cup {NoSale}]
        BY <1>4 DEF Publish, PublishEvent
    <2>3. QED
        BY <1>4, <2>1, <2>2 DEF Publish, PublishEvent
<1>5. CASE Commit(r)
    BY <1>5 DEF Commit
<1>6. CASE DeadlockVictim(r)
    BY <1>6 DEF DeadlockVictim, RolledBack, NoOutcome
<1>7. CASE Abort(r)
    BY <1>7 DEF Abort, Disrupt, RolledBack, NoOutcome
<1>8. QED
    BY <1>1, <1>2, <1>3, <1>4, <1>5, <1>6, <1>7 DEF Handle

LEMMA AuthorizeInv ==
    ASSUME NEW r \in Requests, LedgerInv, Authorize(r)
    PROVE  FreshInv' /\ CursorInv' /\ UniqueInv' /\ ResultInv' /\ AtMostOneRow'
<1> USE DEF LedgerInv, ServerTypeOK, Authorize
<1>1. \A q \in Requests : Uncommitted(q)' = Uncommitted(q)
    BY DEF Uncommitted, FreshInv, InTransaction
<1>2. UniqueInv'
    BY <1>1 DEF UniqueInv
<1>3. FreshInv' /\ CursorInv' /\ ResultInv' /\ AtMostOneRow'
    BY DEF FreshInv, CursorInv, ResultInv, AtMostOneRow
<1>4. QED
    BY <1>2, <1>3

LEMMA LookupInv ==
    ASSUME NEW r \in Requests, NEW s \in Sales, LedgerInv, Lookup(r, s)
    PROVE  FreshInv' /\ CursorInv' /\ UniqueInv' /\ ResultInv' /\ AtMostOneRow'
<1> USE DEF LedgerInv, ServerTypeOK
<1>1. /\ phase[r] = "running"
      /\ outcome[r][s] = "none"
      /\ UNCHANGED rows
    BY DEF Lookup, Todo
<1>2. CASE /\ rows[s] > 0
           /\ outcome' = [outcome EXCEPT ![r][s] = "duplicate"]
           /\ UNCHANGED <<phase, cur>>
    <2>1. \A q \in Requests : Uncommitted(q)' = Uncommitted(q)
        BY <1>1, <1>2 DEF Uncommitted
    <2>2. UniqueInv'
        BY <1>1, <2>1 DEF UniqueInv
    <2>3. FreshInv' /\ CursorInv' /\ ResultInv' /\ AtMostOneRow'
        BY <1>1, <1>2 DEF FreshInv, CursorInv, ResultInv, AtMostOneRow
    <2>4. QED
        BY <2>2, <2>3
<1>3. CASE /\ phase' = [phase EXCEPT ![r] = "creating"]
           /\ cur' = [cur EXCEPT ![r] = s]
           /\ UNCHANGED outcome
    <2>1. \A q \in Requests : Uncommitted(q)' = Uncommitted(q)
        BY <1>1, <1>3 DEF Uncommitted, InTransaction
    <2>2. UniqueInv'
        BY <1>1, <2>1 DEF UniqueInv
    <2>3. FreshInv' /\ CursorInv' /\ ResultInv' /\ AtMostOneRow'
        BY <1>1, <1>3 DEF FreshInv, CursorInv, ResultInv, AtMostOneRow
    <2>4. QED
        BY <2>2, <2>3
<1>4. QED
    BY <1>2, <1>3 DEF Lookup

LEMMA ConcludeInv ==
    ASSUME NEW r \in Requests, NEW result \in {"failed", "duplicate"}, LedgerInv,
           phase[r] \in {"creating", "inserting"}, Conclude(r, result), UNCHANGED rows,
           result = "duplicate" => rows[cur[r]] > 0
    PROVE  FreshInv' /\ CursorInv' /\ UniqueInv' /\ ResultInv' /\ AtMostOneRow'
<1> USE DEF LedgerInv, ServerTypeOK, Conclude
<1>1. cur[r] \in Sales
    BY DEF CursorInv
<1>2. \A q \in Requests : Uncommitted(q)' \subseteq Uncommitted(q)
    BY <1>1 DEF Uncommitted, InTransaction
<1>3. UniqueInv'
    BY <1>2 DEF UniqueInv
<1>4. FreshInv' /\ CursorInv' /\ ResultInv' /\ AtMostOneRow'
    BY <1>1 DEF FreshInv, CursorInv, ResultInv, AtMostOneRow
<1>5. QED
    BY <1>3, <1>4

LEMMA ValidateInv ==
    ASSUME NEW r \in Requests, LedgerInv, Validate(r)
    PROVE  FreshInv' /\ CursorInv' /\ UniqueInv' /\ ResultInv' /\ AtMostOneRow'
<1> USE DEF Validate
<1>1. CASE Conclude(r, "failed")
    BY <1>1, ConcludeInv
<1>2. CASE /\ phase' = [phase EXCEPT ![r] = "inserting"]
           /\ UNCHANGED <<cur, outcome>>
    <2> USE DEF LedgerInv, ServerTypeOK
    <2>1. \A q \in Requests : Uncommitted(q)' = Uncommitted(q)
        BY <1>2 DEF Uncommitted, InTransaction
    <2>2. UniqueInv'
        BY <2>1 DEF UniqueInv
    <2>3. FreshInv' /\ CursorInv' /\ ResultInv' /\ AtMostOneRow'
        BY <1>2 DEF FreshInv, CursorInv, ResultInv, AtMostOneRow
    <2>4. QED
        BY <2>2, <2>3
<1>3. QED
    BY <1>1, <1>2

\* The case of interest: the new row is in no other transaction because r is
\* not blocked, and not in the table because the index was checked.
LEMMA InsertInv ==
    ASSUME NEW r \in Requests, LedgerInv, Insert(r)
    PROVE  FreshInv' /\ CursorInv' /\ UniqueInv' /\ ResultInv' /\ AtMostOneRow'
<1>1. /\ phase[r] = "inserting"
      /\ UNCHANGED rows
      /\ \A q \in Requests \ {r} : cur[r] \notin Uncommitted(q)
    BY DEF Insert, BlockedBy
<1>2. CASE Conclude(r, "duplicate") /\ rows[cur[r]] > 0
    BY <1>1, <1>2, ConcludeInv
<1>3. CASE /\ ~ (rows[cur[r]] > 0)
           /\ outcome' = [outcome EXCEPT ![r][cur[r]] = "created"]
           /\ phase' = [phase EXCEPT ![r] = "publishing"]
           /\ UNCHANGED cur
    <2> USE DEF LedgerInv, ServerTypeOK
    <2>1. cur[r] \in Sales
        BY <1>1 DEF CursorInv
    <2>2. /\ Uncommitted(r)' = Uncommitted(r) \cup {cur[r]}
          /\ \A q \in Requests \ {r} : Uncommitted(q)' = Uncommitted(q)
        BY <1>1, <1>3, <2>1 DEF Uncommitted, InTransaction
    <2>3. rows[cur[r]] = 0
        BY <1>3, <2>1
    <2>4. UniqueInv'
        BY <1>1, <2>2, <2>3 DEF UniqueInv
    <2>5. FreshInv' /\ CursorInv' /\ ResultInv' /\ AtMostOneRow'
        BY <1>1, <1>3, <2>1 DEF FreshInv, CursorInv, ResultInv, AtMostOneRow
    <2>6. QED
        BY <2>4, <2>5
<1>4. QED
    BY <1>2, <1>3 DEF Insert

LEMMA PublishInv ==
    ASSUME NEW r \in Requests, LedgerInv, Publish(r)
    PROVE  FreshInv' /\ CursorInv' /\ UniqueInv' /\ ResultInv' /\ AtMostOneRow'
<1> USE DEF LedgerInv, ServerTypeOK, Publish, PublishEvent
<1>1. \A q \in Requests : Uncommitted(q)' = Uncommitted(q)
    BY DEF Uncommitted, InTransaction
<1>2. UniqueInv'
    BY <1>1 DEF UniqueInv
<1>3. FreshInv' /\ CursorInv' /\ ResultInv' /\ AtMostOneRow'
    BY DEF FreshInv, CursorInv, ResultInv, AtMostOneRow
<1>4. QED
    BY <1>2, <1>3

\* The rows r commits were in no other transaction, so no other one still
\* counts on their absence.
LEMMA CommitInv ==
    ASSUME NEW r \in Requests, LedgerInv, Commit(r)
    PROVE  FreshInv' /\ CursorInv' /\ UniqueInv' /\ ResultInv' /\ AtMostOneRow'
<1> USE DEF LedgerInv, ServerTypeOK, Commit
<1>1. /\ Uncommitted(r)' = {}
      /\ \A q \in Requests \ {r} : Uncommitted(q)' = Uncommitted(q)
    BY DEF Uncommitted, InTransaction
<1>2. /\ \A s \in Uncommitted(r) : rows'[s] = 1
      /\ \A s \in Sales \ Uncommitted(r) : rows'[s] = rows[s]
      /\ \A s \in Sales : rows'[s] >= rows[s]
    BY DEF UniqueInv, Uncommitted
<1>3. UniqueInv'
    BY <1>1, <1>2 DEF UniqueInv, Uncommitted
<1>4. AtMostOneRow'
    <2>1. \A s \in Sales : rows[s] <= 1
        BY DEF AtMostOneRow
    <2>2. \A s \in Sales : rows'[s] = 1 \/ rows'[s] = rows[s]
        BY <1>2
    <2>3. QED
        BY <2>1, <2>2 DEF AtMostOneRow
<1>5. ResultInv'
    BY <1>2 DEF ResultInv, Uncommitted, InTransaction
<1>6. FreshInv' /\ CursorInv'
    BY DEF FreshInv, CursorInv
<1>7. QED
    BY <1>3, <1>4, <1>5, <1>6

LEMMA RolledBackInv ==
    ASSUME NEW r \in Requests, LedgerInv, RolledBack(r)
    PROVE  FreshInv' /\ CursorInv' /\ UniqueInv' /\ ResultInv' /\ AtMostOneRow'
<1> USE DEF LedgerInv, ServerTypeOK, RolledBack, NoOutcome
<1>1. \A q \in Requests : Uncommitted(q)' \subseteq Uncommitted(q)
    BY DEF Uncommitted, InTransaction
<1>2. UniqueInv'
    BY <1>1 DEF UniqueInv
<1>3. FreshInv' /\ CursorInv' /\ ResultInv' /\ AtMostOneRow'
    BY DEF FreshInv, CursorInv, ResultInv, AtMostOneRow
<1>4. QED
    BY <1>2, <1>3

\* A handler step, complete.
LEMMA HandlerInv ==
    ASSUME NEW r \in Requests, LedgerInv, Handle(r) \/ Abort(r)
    PROVE  LedgerInv'
<1>1. ServerTypeOK'
    BY HandlerTypes DEF LedgerInv
<1>2. FreshInv' /\ CursorInv' /\ UniqueInv' /\ ResultInv' /\ AtMostOneRow'
    BY AuthorizeInv, LookupInv, ValidateInv, InsertInv, PublishInv, CommitInv, RolledBackInv
       DEF Handle, Abort, DeadlockVictim
<1>3. QED
    BY <1>1, <1>2 DEF LedgerInv

\* Requests come and go.
LEMMA ArriveInv ==
    ASSUME NEW r \in Requests, NEW B \in SUBSET Sales, NEW p \in Scopes,
           LedgerInv, Arrive(r, B, p)
    PROVE  LedgerInv'
<1> USE DEF LedgerInv, ServerTypeOK, Arrive
<1>1. ServerTypeOK'
    BY DEF Phases
<1>2. \A q \in Requests : Uncommitted(q)' = Uncommitted(q)
    BY DEF Uncommitted, InTransaction
<1>3. UniqueInv'
    BY <1>2 DEF UniqueInv
<1>4. FreshInv' /\ CursorInv' /\ ResultInv' /\ AtMostOneRow'
    BY DEF FreshInv, CursorInv, ResultInv, AtMostOneRow
<1>5. QED
    BY <1>1, <1>3, <1>4

LEMMA CloseInv ==
    ASSUME NEW r \in Requests, LedgerInv, Close(r),
           disruptions' \in 0..MaxDisruptions
    PROVE  LedgerInv'
<1> USE DEF LedgerInv, ServerTypeOK, Close, NoOutcome
<1>1. ServerTypeOK'
    BY DEF Phases, Scopes, Outcomes
<1>2. \A q \in Requests : Uncommitted(q)' \subseteq Uncommitted(q)
    BY DEF Uncommitted, InTransaction
<1>3. UniqueInv'
    BY <1>2 DEF UniqueInv
<1>4. FreshInv' /\ CursorInv' /\ ResultInv' /\ AtMostOneRow'
    BY DEF FreshInv, CursorInv, ResultInv, AtMostOneRow
<1>5. QED
    BY <1>1, <1>3, <1>4

\* Steps that leave the requests and the table alone.
LEMMA ElsewhereInv ==
    ASSUME LedgerInv, ServerTypeOK', UNCHANGED <<phase, batch, pin, cur, outcome, rows>>
    PROVE  LedgerInv'
<1> USE DEF LedgerInv
<1>1. \A q \in Requests : Uncommitted(q)' = Uncommitted(q)
    BY DEF Uncommitted
<1>2. UniqueInv'
    BY <1>1 DEF UniqueInv
<1>3. FreshInv' /\ CursorInv' /\ ResultInv' /\ AtMostOneRow'
    BY DEF FreshInv, CursorInv, ResultInv, AtMostOneRow
<1>4. QED
    BY <1>2, <1>3

LEMMA CustomerInv ==
    ASSUME NEW s \in Sales, LedgerInv, CustomerPushed(s) \/ CustomerDeleted(s)
    PROVE  LedgerInv'
<1>1. ServerTypeOK'
    BY DEF LedgerInv, ServerTypeOK, CustomerPushed, CustomerDeleted, CustomerStates
<1>2. QED
    BY <1>1, ElsewhereInv DEF CustomerPushed, CustomerDeleted

LEMMA LedgerStep == LedgerInv /\ [ServerNext]_serverVars => LedgerInv'
<1> SUFFICES ASSUME LedgerInv, [ServerNext]_serverVars PROVE LedgerInv'
    OBVIOUS
<1>1. ASSUME NEW r \in Requests, NEW B \in SUBSET Sales \ {{}}, NEW p \in Scopes,
             Arrive(r, B, p)
      PROVE  LedgerInv'
    BY <1>1, ArriveInv
<1>2. ASSUME NEW r \in Requests, Handle(r) \/ Abort(r) PROVE LedgerInv'
    BY <1>2, HandlerInv
<1>3. ASSUME NEW r \in Requests, Answer(r) PROVE LedgerInv'
    BY <1>3, CloseInv DEF Answer, LedgerInv, ServerTypeOK
<1>4. ASSUME NEW s \in Sales, CustomerPushed(s) \/ CustomerDeleted(s) PROVE LedgerInv'
    BY <1>4, CustomerInv
<1>5. CASE UNCHANGED serverVars
    BY <1>5, ElsewhereInv DEF serverVars, LedgerInv, ServerTypeOK
<1>6. QED
    BY <1>1, <1>2, <1>3, <1>4, <1>5 DEF ServerNext

----------------------------------------------------------------------------
(* Theorems.                                                                *)

\* The invariant holds of the endpoint under any clients (sync_sale_batch).
THEOREM LedgerInvariant == ServerSpec => []LedgerInv
<1>1. QED
    BY LedgerInit, LedgerStep, PTL DEF ServerSpec

\* The endpoint's variables keep their types (sync_sale_batch).
THEOREM ServerTypesCorrect == ServerSpec => []ServerTypeOK
<1>1. LedgerInv => ServerTypeOK
    BY DEF LedgerInv
<1>2. QED
    BY <1>1, LedgerInvariant, PTL

\* One Sale row per client_sale_id, for any number of concurrent batches.
THEOREM OneRowPerSale == ServerSpec => []AtMostOneRow
<1>1. LedgerInv => AtMostOneRow
    BY DEF LedgerInv
<1>2. QED
    BY <1>1, LedgerInvariant, PTL

\* What the endpoint acknowledges is committed: no result "created" or
\* "duplicate" is sent for a sale that could still be lost.
THEOREM AcknowledgementsAreSafe == ServerSpec => []AcknowledgedIsCommitted
<1>1. LedgerInv => AcknowledgedIsCommitted
    BY DEF LedgerInv, ResultInv, AcknowledgedIsCommitted
<1>2. QED
    BY <1>1, LedgerInvariant, PTL

----------------------------------------------------------------------------
(***************************************************************************)
(* Every sale a terminal calls synced is in the ledger of POS, once, for    *)
(* every number of sales, drains and requests, every batch size and every   *)
(* disruption.  OutboxInv adds to the endpoint's LedgerInv what the          *)
(* terminal may conclude from an answer while it is still writing it down.  *)
(***************************************************************************)
\* A waiting drain waits for a request.
WaitInv == \A d \in Drains : pc[d] = "wait" => req[d] \in Requests

\* An answer a drain holds speaks of committed rows.
ReplyInv ==
    \A d \in Drains, s \in Sales :
        reply[d][s] \in {"created", "duplicate"} => rows[s] > 0

OutboxInv ==
    /\ LedgerInv
    /\ ClientTypeOK
    /\ WaitInv
    /\ ReplyInv
    /\ SyncedIsIngested

\* The part of the invariant that speaks of the terminal.
TerminalInv == ClientTypeOK /\ WaitInv /\ ReplyInv /\ SyncedIsIngested

LEMMA OutboxInitInv == OutboxInit => OutboxInv
<1> SUFFICES ASSUME OutboxInit PROVE OutboxInv
    OBVIOUS
<1>1. LedgerInv
    BY LedgerInit DEF OutboxInit
<1>2. ClientTypeOK
    BY DEF OutboxInit, ClientTypeOK, Scopes, RowStates, DrainStates, Outcomes, NoOutcome
<1>3. WaitInv /\ ReplyInv /\ SyncedIsIngested
    BY DEF OutboxInit, WaitInv, ReplyInv, SyncedIsIngested, NoOutcome
<1>4. QED
    BY <1>1, <1>2, <1>3 DEF OutboxInv

----------------------------------------------------------------------------
(* Steps of the service: the table only grows.                              *)

LEMMA HandlerGrows ==
    ASSUME NEW r \in Requests, LedgerInv, Handle(r) \/ Abort(r)
    PROVE  \A s \in Sales : rows'[s] >= rows[s]
<1> USE DEF LedgerInv, ServerTypeOK
<1>1. CASE Commit(r)
    BY <1>1 DEF Commit
<1>2. CASE UNCHANGED rows
    BY <1>2
<1>3. QED
    BY <1>1, <1>2 DEF Handle, Authorize, Lookup, Validate, Conclude, Insert, Publish, PublishEvent, DeadlockVictim,
                      RolledBack, Abort

LEMMA TerminalUnmoved ==
    ASSUME TerminalInv, LedgerInv, UNCHANGED clientVars,
           rows' \in [Sales -> Nat], \A s \in Sales : rows'[s] >= rows[s]
    PROVE  TerminalInv'
<1> USE DEF TerminalInv, clientVars
<1>1. ClientTypeOK'
    BY DEF ClientTypeOK
<1>2. WaitInv' /\ ReplyInv' /\ SyncedIsIngested'
    BY DEF WaitInv, ReplyInv, SyncedIsIngested, LedgerInv, ServerTypeOK
<1>3. QED
    BY <1>1, <1>2

LEMMA ServiceInv ==
    ASSUME OutboxInv, NEW r \in Requests,
           ServerStep(r) \/ (Abort(r) /\ UNCHANGED clientVars)
    PROVE  OutboxInv'
<1>1. Handle(r) \/ Abort(r)
    <2>1. First(Todo(r)) \subseteq Sales
        BY DEF First, Todo, OutboxInv, LedgerInv, ServerTypeOK
    <2>2. QED
        BY <2>1 DEF ServerStep, Handle
<1>2. UNCHANGED clientVars
    BY DEF ServerStep
<1>3. LedgerInv'
    BY <1>1, HandlerInv DEF OutboxInv
<1>4. TerminalInv'
    BY <1>1, <1>2, <1>3, HandlerGrows, TerminalUnmoved
       DEF OutboxInv, TerminalInv, LedgerInv, ServerTypeOK
<1>5. QED
    BY <1>3, <1>4 DEF OutboxInv, TerminalInv

----------------------------------------------------------------------------
(* Steps that leave the service alone.                                      *)

\* Such a step keeps the endpoint's invariant.
LEMMA ServiceUnmoved ==
    ASSUME LedgerInv, disruptions' \in 0..MaxDisruptions,
           UNCHANGED <<phase, batch, pin, cur, outcome, rows, deducted, customer>>
    PROVE  LedgerInv'
<1>1. ServerTypeOK'
    BY DEF LedgerInv, ServerTypeOK
<1>2. QED
    BY <1>1, ElsewhereInv

LEMMA TillInv ==
    ASSUME OutboxInv,
           \/ \E s \in Sales, p \in Places : RingUp(s, p)
           \/ \E t \in Stores : SwitchStore(t)
           \/ RefreshToken
    PROVE  OutboxInv'
<1> USE ServerAssumption, ClientAssumption
<1>1. /\ UNCHANGED <<phase, batch, pin, cur, outcome, rows, deducted, customer>>
      /\ disruptions' \in 0..MaxDisruptions
      /\ UNCHANGED <<pc, claimed, left, reply, req>>
    BY DEF OutboxInv, LedgerInv, ServerTypeOK, RingUp, SwitchStore, Disrupt,
           RefreshToken, serverVars
<1>2. LedgerInv'
    BY <1>1, ServiceUnmoved DEF OutboxInv
<1>3. ClientTypeOK'
    <2>1. row' \in [Sales -> RowStates] /\ place' \in [Sales -> Nat]
        <3>1. row \in [Sales -> RowStates] /\ place \in [Sales -> Nat]
            BY DEF OutboxInv, ClientTypeOK
        <3>2. ASSUME NEW s \in Sales, NEW p \in Places, RingUp(s, p)
              PROVE  row' \in [Sales -> RowStates] /\ place' \in [Sales -> Nat]
            BY <3>1, <3>2 DEF RingUp, RowStates
        <3>3. ASSUME NEW t \in Stores, SwitchStore(t)
              PROVE  UNCHANGED <<row, place>>
            BY <3>3 DEF SwitchStore
        <3>4. CASE RefreshToken
            BY <3>1, <3>4 DEF RefreshToken
        <3>5. QED
            BY <3>1, <3>2, <3>3, <3>4
    <2>2. store' \in Stores /\ token' \in Scopes
        <3>1. store \in Stores /\ token \in Scopes /\ Stores \subseteq Scopes
            BY DEF OutboxInv, ClientTypeOK, Scopes
        <3>2. ASSUME NEW s \in Sales, NEW p \in Places, RingUp(s, p)
              PROVE  store' = store /\ token' = token
            BY <3>2 DEF RingUp
        <3>3. ASSUME NEW t \in Stores, SwitchStore(t)
              PROVE  store' = t /\ token' \in {t, token}
            BY <3>3 DEF SwitchStore
        <3>4. CASE RefreshToken
            BY <3>1, <3>4 DEF RefreshToken
        <3>5. QED
            BY <3>1, <3>2, <3>3, <3>4
    <2>3. refreshDue' = refreshDue \/ refreshDue' = TRUE \/ refreshDue' = FALSE
        BY DEF RingUp, SwitchStore, RefreshToken
    <2>4. refreshDue' \in BOOLEAN
        BY <2>3 DEF OutboxInv, ClientTypeOK
    <2>5. QED
        BY <1>1, <2>1, <2>2, <2>4 DEF OutboxInv, ClientTypeOK
<1>4. SyncedIsIngested'
    BY <1>1 DEF OutboxInv, ClientTypeOK, SyncedIsIngested, RingUp, SwitchStore,
                RefreshToken
<1>5. WaitInv' /\ ReplyInv'
    BY <1>1 DEF OutboxInv, WaitInv, ReplyInv
<1>6. QED
    BY <1>2, <1>3, <1>4, <1>5 DEF OutboxInv

\* Drain steps that touch neither the service nor the results.
LEMMA LocalInv ==
    ASSUME OutboxInv, NEW d \in Drains,
           SyncNow(d) \/ Claim(d) \/ (\E s \in Sales : WriteResult(d, s))
    PROVE  OutboxInv'
<1> USE ServerAssumption DEF OutboxInv
<1>1. UNCHANGED <<serverVars, store, token, refreshDue, place, reply, req>>
    BY DEF SyncNow, Claim, WriteResult
<1>2. LedgerInv'
    BY <1>1, ElsewhereInv DEF serverVars, LedgerInv, ServerTypeOK
<1>3. CASE SyncNow(d)
    <2>1. ClientTypeOK' /\ WaitInv'
        BY <1>1, <1>3 DEF SyncNow, ClientTypeOK, WaitInv, DrainStates
    <2>2. ReplyInv' /\ SyncedIsIngested'
        BY <1>1, <1>3 DEF SyncNow, ReplyInv, SyncedIsIngested, serverVars
    <2>3. QED
        BY <1>2, <2>1, <2>2
<1>4. CASE Claim(d)
    <2>1. PICK B \in OldestOf(Eligible) :
            /\ row' = [s \in Sales |-> IF s \in B THEN "syncing" ELSE row[s]]
            /\ claimed' = [claimed EXCEPT ![d] = B]
            /\ pc' = [pc EXCEPT ![d] = IF B = {} THEN "idle" ELSE "send"]
        BY <1>4 DEF Claim
    <2>2. B \subseteq Sales
        BY DEF OldestOf, Eligible
    <2>3. row' \in [Sales -> RowStates]
        BY <2>1 DEF ClientTypeOK, RowStates
    <2>4. ClientTypeOK' /\ WaitInv'
        BY <1>1, <1>4, <2>1, <2>2, <2>3 DEF Claim, ClientTypeOK, WaitInv, DrainStates
    <2>5. ReplyInv' /\ SyncedIsIngested'
        BY <1>1, <2>1 DEF ReplyInv, SyncedIsIngested, serverVars
    <2>6. QED
        BY <1>2, <2>4, <2>5
<1>5. ASSUME NEW s \in Sales, WriteResult(d, s) PROVE OutboxInv'
    <2>1. StatusAfter(reply[d][s]) \in RowStates
        BY DEF ClientTypeOK, StatusAfter, RowStates
    <2>2. ClientTypeOK' /\ WaitInv'
        BY <1>1, <1>5, <2>1 DEF WriteResult, ClientTypeOK, WaitInv
    <2>3. StatusAfter(reply[d][s]) = "synced" => rows[s] > 0
        BY DEF ClientTypeOK, StatusAfter, ReplyInv, Outcomes
    <2>4. ReplyInv' /\ SyncedIsIngested'
        BY <1>1, <1>5, <2>3
           DEF WriteResult, ReplyInv, SyncedIsIngested, serverVars, ClientTypeOK
    <2>5. QED
        BY <1>2, <2>2, <2>4
<1>6. QED
    BY <1>3, <1>4, <1>5

\* Steps after which a drain rests, or all of them do.
LEMMA RestInv ==
    ASSUME OutboxInv,
           \/ \E d \in Drains : \/ FinishBatch(d)
                                \/ \E s \in Sales : RevertRow(d, s)
                                \/ DrainThrows(d)
           \/ Crash
    PROVE  OutboxInv'
<1> USE ServerAssumption DEF OutboxInv
<1>1. /\ UNCHANGED <<phase, batch, pin, cur, outcome, rows, deducted, customer>>
      /\ UNCHANGED <<store, token, place>>
      /\ disruptions' \in 0..MaxDisruptions
      /\ refreshDue' \in BOOLEAN
    <2>1. /\ UNCHANGED <<phase, batch, pin, cur, outcome, rows, deducted, customer>>
          /\ UNCHANGED <<store, token, place>>
        BY DEF FinishBatch, RevertRow, DrainThrows, Crash, serverVars
    <2>2. disruptions' \in 0..MaxDisruptions
        BY DEF FinishBatch, RevertRow, DrainThrows, Crash, Disrupt, serverVars,
               LedgerInv, ServerTypeOK
    <2>3. refreshDue' = refreshDue \/ refreshDue' = FALSE
        BY DEF FinishBatch, RevertRow, DrainThrows, Crash
    <2>4. refreshDue' \in BOOLEAN
        BY <2>3 DEF ClientTypeOK
    <2>5. QED
        BY <2>1, <2>2, <2>4
<1>2. LedgerInv'
    BY <1>1, ServiceUnmoved
<1>3. ASSUME NEW d \in Drains, NEW state \in DrainStates \ {"wait"}, Rest(d, state)
      PROVE  /\ pc' \in [Drains -> DrainStates]
             /\ claimed' \in [Drains -> SUBSET Sales]
             /\ left' \in [Drains -> SUBSET Sales]
             /\ reply' \in [Drains -> [Sales -> Outcomes]]
             /\ req' \in [Drains -> Requests \cup {NoRequest}]
             /\ WaitInv'
             /\ ReplyInv'
    <2> USE <1>1, <1>3 DEF Rest, ClientTypeOK
    <2>1. /\ pc' \in [Drains -> DrainStates]
          /\ claimed' \in [Drains -> SUBSET Sales]
          /\ left' \in [Drains -> SUBSET Sales]
          /\ req' \in [Drains -> Requests \cup {NoRequest}]
        OBVIOUS
    <2>2. reply' \in [Drains -> [Sales -> Outcomes]]
        BY DEF NoOutcome, Outcomes
    <2>3. WaitInv'
        BY DEF WaitInv
    <2>4. ReplyInv'
        BY DEF ReplyInv, NoOutcome
    <2>5. QED
        BY <2>1, <2>2, <2>3, <2>4
<1>4. CASE \E d \in Drains : FinishBatch(d) \/ DrainThrows(d)
    <2>1. PICK d \in Drains : FinishBatch(d) \/ DrainThrows(d)
        BY <1>4
    <2>2. \E state \in DrainStates \ {"wait"} : Rest(d, state)
        BY <2>1 DEF FinishBatch, DrainThrows, DrainStates
    <2>3. row' = row
        BY <2>1 DEF FinishBatch, DrainThrows
    <2>4. ClientTypeOK' /\ WaitInv' /\ ReplyInv'
        BY <1>1, <1>3, <2>2, <2>3 DEF ClientTypeOK
    <2>5. QED
        BY <1>1, <1>2, <2>3, <2>4 DEF SyncedIsIngested
<1>5. ASSUME NEW d \in Drains, NEW s \in Sales, RevertRow(d, s) PROVE OutboxInv'
    <2>1. row' \in [Sales -> RowStates] /\ SyncedIsIngested'
        BY <1>1, <1>5 DEF RevertRow, ClientTypeOK, RowStates, SyncedIsIngested
    <2>2. CASE Rest(d, "idle")
        <3>1. ClientTypeOK' /\ WaitInv' /\ ReplyInv'
            BY <1>1, <1>3, <2>1, <2>2 DEF ClientTypeOK, DrainStates
        <3>2. QED
            BY <1>2, <2>1, <3>1
    <2>3. CASE left' = [left EXCEPT ![d] = @ \ {s}] /\ UNCHANGED <<pc, claimed, reply, req>>
        <3>1. ClientTypeOK' /\ WaitInv' /\ ReplyInv'
            BY <1>1, <2>1, <2>3 DEF ClientTypeOK, WaitInv, ReplyInv
        <3>2. QED
            BY <1>2, <2>1, <3>1
    <2>4. QED
        BY <1>5, <2>2, <2>3 DEF RevertRow
<1>6. CASE Crash
    <2>1. ClientTypeOK'
        BY <1>1, <1>6 DEF Crash, ClientTypeOK, DrainStates, NoOutcome, Outcomes
    <2>2. WaitInv' /\ ReplyInv' /\ SyncedIsIngested'
        BY <1>1, <1>6 DEF Crash, WaitInv, ReplyInv, SyncedIsIngested, NoOutcome
    <2>3. QED
        BY <1>2, <2>1, <2>2
<1>7. QED
    BY <1>4, <1>5, <1>6

----------------------------------------------------------------------------
(* Steps of a drain and the service together.                               *)

LEMMA SendInv ==
    ASSUME OutboxInv, NEW d \in Drains, Send(d)
    PROVE  OutboxInv'
<1> USE DEF OutboxInv
<1>1. PICK r \in Requests :
        Arrive(r, claimed[d], token) /\ req' = [req EXCEPT ![d] = r]
    BY DEF Send
<1>2. claimed[d] \in SUBSET Sales /\ token \in Scopes
    BY DEF ClientTypeOK
<1>3. LedgerInv'
    BY <1>1, <1>2, ArriveInv
<1>4. ClientTypeOK' /\ WaitInv'
    BY <1>1 DEF Send, ClientTypeOK, DrainStates, WaitInv
<1>5. ReplyInv' /\ SyncedIsIngested'
    BY <1>1 DEF Send, Arrive, ReplyInv, SyncedIsIngested
<1>6. QED
    BY <1>3, <1>4, <1>5

\* The step from waiting to writing, with results that can be trusted.
LEMMA StartWritingInv ==
    ASSUME OutboxInv, NEW d \in Drains, NEW state \in {"apply", "revert"},
           NEW results \in [Sales -> Outcomes], StartWriting(d, state, results),
           \A s \in Sales : results[s] \in {"created", "duplicate"} => rows[s] > 0,
           UNCHANGED rows
    PROVE  TerminalInv'
<1> USE DEF OutboxInv, StartWriting
<1>1. ClientTypeOK'
    BY DEF ClientTypeOK, DrainStates
<1>2. WaitInv'
    BY DEF WaitInv, ClientTypeOK
<1>3. ReplyInv' /\ SyncedIsIngested'
    BY DEF ReplyInv, SyncedIsIngested, ClientTypeOK
<1>4. QED
    BY <1>1, <1>2, <1>3 DEF TerminalInv

LEMMA CallEndsInv ==
    ASSUME OutboxInv, NEW d \in Drains,
           Receive(d) \/ CallFails(d) \/ CallTimesOut(d) \/ WriteThrows(d)
    PROVE  OutboxInv'
<1> USE ServerAssumption DEF OutboxInv
<1>1. disruptions' \in 0..MaxDisruptions
    BY DEF Receive, CallFails, CallTimesOut, WriteThrows, Disrupt, LedgerInv, ServerTypeOK
<1>2. /\ \/ req[d] \in Requests /\ Close(req[d])
         \/ UNCHANGED <<phase, batch, pin, cur, outcome, rows, deducted, customer>>
      /\ UNCHANGED rows
    BY DEF Receive, CallFails, CallTimesOut, WriteThrows, Close, WaitInv
<1>3. LedgerInv'
    BY <1>1, <1>2, CloseInv, ServiceUnmoved
<1>4. NoOutcome \in [Sales -> Outcomes]
    BY DEF NoOutcome, Outcomes
<1>5. CASE StartWriting(d, "revert", NoOutcome)
    <2>1. \A s \in Sales : NoOutcome[s] \notin {"created", "duplicate"}
        BY DEF NoOutcome
    <2>2. QED
        BY <1>2, <1>3, <1>4, <1>5, <2>1, StartWritingInv DEF TerminalInv
<1>6. CASE Receive(d)
    <2>1. req[d] \in Requests /\ phase[req[d]] = "done"
        BY <1>6 DEF Receive, WaitInv
    <2>2. outcome[req[d]] \in [Sales -> Outcomes]
        BY <2>1 DEF LedgerInv, ServerTypeOK
    <2>3. \A s \in Sales :
            outcome[req[d]][s] \in {"created", "duplicate"} => rows[s] > 0
        BY <2>1 DEF LedgerInv, ResultInv
    <2>4. TerminalInv'
        BY <1>2, <1>6, <2>2, <2>3, StartWritingInv DEF Receive
    <2>5. QED
        BY <1>3, <2>4 DEF TerminalInv
<1>7. QED
    BY <1>5, <1>6 DEF CallFails, CallTimesOut, WriteThrows

LEMMA DropAnswerInv ==
    ASSUME OutboxInv, NEW r \in Requests, DropAnswer(r)
    PROVE  OutboxInv'
<1>1. LedgerInv'
    BY CloseInv DEF OutboxInv, DropAnswer, LedgerInv, ServerTypeOK
<1>2. TerminalInv'
    BY <1>1, TerminalUnmoved
       DEF OutboxInv, TerminalInv, DropAnswer, Close, LedgerInv, ServerTypeOK
<1>3. QED
    BY <1>1, <1>2 DEF OutboxInv, TerminalInv

LEMMA CustomerStepInv ==
    ASSUME OutboxInv, NEW s \in Sales, CustomerPushed(s) \/ CustomerDeleted(s),
           UNCHANGED clientVars
    PROVE  OutboxInv'
<1>1. LedgerInv'
    BY CustomerInv DEF OutboxInv
<1>2. TerminalInv'
    BY <1>1, TerminalUnmoved
       DEF OutboxInv, TerminalInv, CustomerPushed, CustomerDeleted, LedgerInv, ServerTypeOK
<1>3. QED
    BY <1>1, <1>2 DEF OutboxInv, TerminalInv

LEMMA OutboxStep == OutboxInv /\ [OutboxNext]_vars => OutboxInv'
<1> SUFFICES ASSUME OutboxInv, [OutboxNext]_vars PROVE OutboxInv'
    OBVIOUS
<1>1. ASSUME NEW s \in Sales, CustomerPushed(s) \/ CustomerDeleted(s), UNCHANGED clientVars
      PROVE  OutboxInv'
    BY <1>1, CustomerStepInv
<1>2. ASSUME \/ \E s \in Sales, p \in Places : RingUp(s, p)
             \/ \E t \in Stores : SwitchStore(t)
             \/ RefreshToken
      PROVE  OutboxInv'
    BY <1>2, TillInv
<1>3. ASSUME NEW d \in Drains,
             SyncNow(d) \/ DrainStep(d) \/ CallTimesOut(d) \/ WriteThrows(d) \/ DrainThrows(d)
      PROVE  OutboxInv'
    BY <1>3, LocalInv, RestInv, SendInv, CallEndsInv DEF DrainStep
<1>4. ASSUME NEW r \in Requests,
             ServerStep(r) \/ DropAnswer(r) \/ (Abort(r) /\ UNCHANGED clientVars)
      PROVE  OutboxInv'
    BY <1>4, ServiceInv, DropAnswerInv
<1>5. CASE Crash
    BY <1>5, RestInv
<1>6. CASE UNCHANGED vars
    <2>1. UNCHANGED <<phase, batch, pin, cur, outcome, rows, deducted, customer>>
          /\ disruptions' = disruptions /\ UNCHANGED clientVars
        BY <1>6 DEF vars, serverVars
    <2>2. LedgerInv'
        BY <2>1, ServiceUnmoved DEF OutboxInv, LedgerInv, ServerTypeOK
    <2>3. TerminalInv'
        BY <2>1, TerminalUnmoved
           DEF OutboxInv, TerminalInv, LedgerInv, ServerTypeOK
    <2>4. QED
        BY <2>2, <2>3 DEF OutboxInv, TerminalInv
<1>7. QED
    BY <1>1, <1>2, <1>3, <1>4, <1>5, <1>6 DEF OutboxNext

----------------------------------------------------------------------------
(* Theorems.                                                                *)

\* The invariant holds of a terminal and POS together (_doSync and
\* sync_sale_batch), whatever is lost, late, repeated or crashes.
THEOREM OutboxInvariant == OutboxSpec => []OutboxInv
<1>1. QED
    BY OutboxInitInv, OutboxStep, PTL DEF OutboxSpec

\* The variables of the terminal and of POS keep their types.
THEOREM OutboxTypesCorrect == OutboxSpec => []TypeOK
<1>1. OutboxInv => TypeOK
    BY DEF OutboxInv, LedgerInv, TypeOK
<1>2. QED
    BY <1>1, OutboxInvariant, PTL

\* No sale the terminal has stopped uploading is missing from the ledger.
THEOREM SyncedSalesAreIngested == OutboxSpec => []SyncedIsIngested
<1>1. OutboxInv => SyncedIsIngested
    BY DEF OutboxInv
<1>2. QED
    BY <1>1, OutboxInvariant, PTL

\* Retries, crashes and concurrent drains never ingest a sale twice.
THEOREM RetriesIngestOnce == OutboxSpec => []AtMostOneRow
<1>1. OutboxInv => AtMostOneRow
    BY DEF OutboxInv, LedgerInv
<1>2. QED
    BY <1>1, OutboxInvariant, PTL

----------------------------------------------------------------------------
(***************************************************************************)
(* While the terminal's own database does not fail, row claims exclude each *)
(* other, synced rows are final, and SalesOutbox implements SaleDelivery.   *)
(* The database must not fail because the catch block of _doSync writes     *)
(* "pending" to every row it claimed, whatever has become of them since.    *)
(***************************************************************************)
\* What a request carries was rung up on the terminal, and a result is of a
\* sale the request carries.
OriginInv ==
    /\ \A s \in Sales : row[s] = "unwritten" => rows[s] = 0
    /\ \A r \in Requests : \A s \in batch[r] : row[s] # "unwritten"
    /\ \A r \in Requests, s \in Sales : outcome[r][s] # "none" => s \in batch[r]
    /\ \A r \in Requests : phase[r] \in {"creating", "inserting"} => cur[r] \in batch[r]

RefinementInv == OutboxInv /\ ClaimsAreExclusive /\ OriginInv

LEMMA RefinementInit == OutboxInit => RefinementInv
<1> SUFFICES ASSUME OutboxInit PROVE RefinementInv
    OBVIOUS
<1>1. OutboxInv
    BY OutboxInitInv
<1>2. ClaimsAreExclusive
    BY DEF OutboxInit, ClaimsAreExclusive, Holding
<1>3. OriginInv
    BY DEF OutboxInit, ServerInit, OriginInv, NoOutcome
<1>4. QED
    BY <1>1, <1>2, <1>3 DEF RefinementInv

----------------------------------------------------------------------------
(* Row claims.                                                              *)

\* A step that changes neither the rows nor what any drain holds.
LEMMA HoldingUnmoved ==
    ASSUME ClaimsAreExclusive, row' = row, \A d \in Drains : Holding(d)' \subseteq Holding(d)
    PROVE  ClaimsAreExclusive'
<1>1. QED
    BY DEF ClaimsAreExclusive

LEMMA TillClaims ==
    ASSUME RefinementInv,
           \/ \E s \in Sales, p \in Places : RingUp(s, p)
           \/ \E t \in Stores : SwitchStore(t)
           \/ RefreshToken
    PROVE  ClaimsAreExclusive'
<1> USE DEF RefinementInv, OutboxInv, ClientTypeOK
<1>1. ASSUME NEW s \in Sales, NEW p \in Places, RingUp(s, p) PROVE ClaimsAreExclusive'
    BY <1>1 DEF RingUp, ClaimsAreExclusive, Holding
<1>2. CASE (\E t \in Stores : SwitchStore(t)) \/ RefreshToken
    <2>1. UNCHANGED <<row, pc, claimed, left>>
        BY <1>2 DEF SwitchStore, RefreshToken
    <2>2. QED
        BY <2>1, HoldingUnmoved DEF Holding
<1>3. QED
    BY <1>1, <1>2

LEMMA ClaimClaims ==
    ASSUME RefinementInv, NEW d \in Drains, Claim(d)
    PROVE  ClaimsAreExclusive'
<1> USE DEF RefinementInv, OutboxInv, ClientTypeOK
<1>1. PICK B \in OldestOf(Eligible) :
        /\ row' = [s \in Sales |-> IF s \in B THEN "syncing" ELSE row[s]]
        /\ claimed' = [claimed EXCEPT ![d] = B]
        /\ pc' = [pc EXCEPT ![d] = IF B = {} THEN "idle" ELSE "send"]
    BY DEF Claim
<1>2. /\ B \subseteq Sales
      /\ \A s \in B : row[s] # "syncing"
    BY DEF OldestOf, Eligible
<1>3. left' = left
    BY DEF Claim
<1>4. /\ Holding(d)' = B \/ Holding(d)' = Holding(d)
      /\ \A e \in Drains \ {d} : Holding(e)' = Holding(e)
    BY <1>1, <1>3 DEF Claim, Holding
<1>5. \A e \in Drains : Holding(e) \subseteq Sales
    BY DEF Holding
<1>6. \A e \in Drains : \A s \in Holding(e) : row[s] = "syncing" /\ s \notin B
    BY <1>2 DEF ClaimsAreExclusive
<1>7. \A e \in Drains : \A s \in Holding(e)' : row'[s] = "syncing"
    BY <1>1, <1>2, <1>4, <1>5, <1>6
<1>8. \A e, f \in Drains : e # f => \A s \in Holding(e)' : s \notin Holding(f)'
    BY <1>4, <1>6 DEF ClaimsAreExclusive
<1>9. QED
    BY <1>7, <1>8 DEF ClaimsAreExclusive

\* A row is written by the drain that holds it, which lets go of it.
LEMMA WriteClaims ==
    ASSUME RefinementInv, NEW d \in Drains, NEW s \in Sales, NEW status,
           s \in Holding(d), row' = [row EXCEPT ![s] = status],
           Holding(d)' \subseteq Holding(d) \ {s},
           \A e \in Drains \ {d} : Holding(e)' = Holding(e)
    PROVE  ClaimsAreExclusive'
<1> USE DEF RefinementInv, OutboxInv, ClientTypeOK
<1>1. \A e \in Drains : s \notin Holding(e)'
    BY DEF ClaimsAreExclusive
<1>2. \A e \in Drains : Holding(e)' \subseteq Holding(e)
    OBVIOUS
<1>3. \A x : x # s => row'[x] = row[x]
    OBVIOUS
<1>4. QED
    BY <1>1, <1>2, <1>3 DEF ClaimsAreExclusive

LEMMA WriteResultClaims ==
    ASSUME RefinementInv, NEW d \in Drains, NEW s \in Sales,
           WriteResult(d, s) \/ RevertRow(d, s)
    PROVE  /\ row[s] = "syncing"
           /\ ClaimsAreExclusive'
<1> USE DEF RefinementInv, OutboxInv, ClientTypeOK
<1>1. s \in Holding(d)
    BY DEF WriteResult, RevertRow, First, Holding
<1>2. PICK status : row' = [row EXCEPT ![s] = status]
    BY DEF WriteResult, RevertRow
<1>3. Holding(d)' \subseteq Holding(d) \ {s}
    BY DEF WriteResult, RevertRow, Rest, Holding
<1>4. \A e \in Drains \ {d} : Holding(e)' = Holding(e)
    BY DEF WriteResult, RevertRow, Rest, Holding
<1>5. QED
    BY <1>1, <1>2, <1>3, <1>4, WriteClaims DEF ClaimsAreExclusive

\* The other steps of a drain, and the crash of them all.
LEMMA DrainClaims ==
    ASSUME RefinementInv, "database" \notin DisruptionKinds,
           \/ \E d \in Drains : \/ SyncNow(d)
                                \/ Send(d)
                                \/ Receive(d)
                                \/ CallFails(d)
                                \/ CallTimesOut(d)
                                \/ FinishBatch(d)
           \/ Crash
    PROVE  row' = row /\ ClaimsAreExclusive'
<1> USE DEF RefinementInv, OutboxInv, ClientTypeOK
<1>1. ASSUME NEW d \in Drains, SyncNow(d) \/ Send(d)
      PROVE  row' = row /\ \A e \in Drains : Holding(e)' \subseteq Holding(e)
    BY <1>1 DEF SyncNow, Send, Holding
<1>2. ASSUME NEW d \in Drains, Receive(d) \/ CallFails(d) \/ CallTimesOut(d)
      PROVE  row' = row /\ \A e \in Drains : Holding(e)' \subseteq Holding(e)
    BY <1>2 DEF Receive, CallFails, CallTimesOut, StartWriting, Holding
<1>3. ASSUME NEW d \in Drains, FinishBatch(d)
      PROVE  row' = row /\ \A e \in Drains : Holding(e)' \subseteq Holding(e)
    BY <1>3 DEF FinishBatch, Rest, Holding
<1>4. ASSUME Crash
      PROVE  row' = row /\ \A e \in Drains : Holding(e)' \subseteq Holding(e)
    BY <1>4 DEF Crash, Holding
<1>5. QED
    BY <1>1, <1>2, <1>3, <1>4, HoldingUnmoved

\* Drain steps that need a failing database do not happen.
LEMMA NoDatabaseFailure ==
    ASSUME "database" \notin DisruptionKinds, NEW d \in Drains
    PROVE  ~ WriteThrows(d) /\ ~ DrainThrows(d)
<1>1. QED
    BY DEF WriteThrows, DrainThrows, Disrupt

----------------------------------------------------------------------------
(* Where requests and rows come from.                                       *)

LEMMA TerminalOrigin ==
    ASSUME RefinementInv, UNCHANGED <<phase, batch, cur, outcome, rows>>,
           \/ row' = row
           \/ \E s \in Sales : /\ row[s] # "unwritten"
                               /\ row' = [row EXCEPT ![s] = row'[s]]
                               /\ row'[s] # "unwritten"
           \/ \E s \in Sales : row' = [row EXCEPT ![s] = "pending"]
           \/ \E B \in SUBSET Eligible :
                row' = [s \in Sales |-> IF s \in B THEN "syncing" ELSE row[s]]
    PROVE  OriginInv'
<1> USE DEF RefinementInv, OutboxInv, ClientTypeOK, LedgerInv, ServerTypeOK
<1>1. \A s \in Sales : row[s] # "unwritten" => row'[s] # "unwritten"
    BY DEF Eligible
<1>2. QED
    BY <1>1 DEF OriginInv

LEMMA SendOrigin ==
    ASSUME RefinementInv, NEW d \in Drains, Send(d)
    PROVE  OriginInv'
<1> USE DEF RefinementInv, OutboxInv, ClientTypeOK, LedgerInv, ServerTypeOK
<1>1. PICK r \in Requests : Arrive(r, claimed[d], token)
    BY DEF Send
<1>2. /\ row' = row
      /\ \A s \in claimed[d] : row[s] = "syncing"
    BY DEF Send, ClaimsAreExclusive, Holding
<1>3. \A s \in Sales : outcome[r][s] = "none"
    BY <1>1 DEF Arrive, FreshInv
<1>4. QED
    BY <1>1, <1>2, <1>3 DEF Arrive, OriginInv

LEMMA CloseOrigin ==
    ASSUME RefinementInv, NEW r \in Requests, Close(r), row' = row
    PROVE  OriginInv'
<1> USE DEF RefinementInv, OutboxInv, ClientTypeOK, LedgerInv, ServerTypeOK
<1>1. QED
    BY DEF Close, NoOutcome, OriginInv

LEMMA ServiceOrigin ==
    ASSUME RefinementInv, NEW r \in Requests, row' = row,
           ServerStep(r) \/ Abort(r)
    PROVE  OriginInv'
<1> USE DEF RefinementInv, OutboxInv, ClientTypeOK, LedgerInv, ServerTypeOK, OriginInv
<1>1. CASE Authorize(r)
    BY <1>1 DEF Authorize
<1>2. ASSUME NEW s \in First(Todo(r)), Lookup(r, s) PROVE OriginInv'
    <2>1. s \in batch[r] /\ s \in Sales
        BY DEF First, Todo
    <2>2. UNCHANGED <<batch, rows>>
        BY <1>2 DEF Lookup
    <2>3. CASE outcome' = [outcome EXCEPT ![r][s] = "duplicate"] /\ UNCHANGED <<phase, cur>>
        <3>1. \A q \in Requests, x \in Sales :
                outcome'[q][x] = outcome[q][x] \/ (q = r /\ x = s)
            BY <2>1, <2>3
        <3>2. \A q \in Requests, x \in Sales : outcome'[q][x] # "none" => x \in batch'[q]
            BY <2>1, <2>2, <3>1
        <3>3. QED
            BY <2>2, <2>3, <3>2
    <2>4. CASE /\ phase' = [phase EXCEPT ![r] = "creating"]
               /\ cur' = [cur EXCEPT ![r] = s]
               /\ UNCHANGED outcome
        <3>1. \A q \in Requests : phase'[q] \in {"creating", "inserting"} => cur'[q] \in batch'[q]
            BY <2>1, <2>2, <2>4
        <3>2. QED
            BY <2>2, <2>4, <3>1
    <2>5. QED
        BY <1>2, <2>3, <2>4 DEF Lookup
<1>3. CASE Validate(r) \/ Insert(r)
    <2>1. /\ cur[r] \in batch[r] /\ cur[r] \in Sales
          /\ UNCHANGED <<batch, rows>>
        BY <1>3 DEF Validate, Insert
    <2>2. \/ UNCHANGED outcome
          \/ \E result \in Outcomes : outcome' = [outcome EXCEPT ![r][cur[r]] = result]
        BY <1>3 DEF Validate, Conclude, Insert, Outcomes
    <2>3. \A q \in Requests : phase'[q] \in {"creating", "inserting"} =>
                phase[q] \in {"creating", "inserting"} /\ cur'[q] = cur[q]
        BY <1>3 DEF Validate, Conclude, Insert
    <2>4. \A q \in Requests, s \in Sales : outcome'[q][s] # "none" => s \in batch'[q]
        <3>1. \A q \in Requests, s \in Sales :
                outcome'[q][s] = outcome[q][s] \/ (q = r /\ s = cur[r])
            BY <2>1, <2>2
        <3>2. QED
            BY <2>1, <3>1
    <2>5. QED
        BY <2>1, <2>3, <2>4
<1>4. CASE Publish(r)
    BY <1>4 DEF Publish, PublishEvent
<1>5. CASE Commit(r)
    <2>1. \A s \in Sales : rows'[s] = rows[s] \/ s \in batch[r]
        BY <1>5 DEF Commit, Uncommitted
    <2>2. QED
        BY <1>5, <2>1 DEF Commit
<1>6. CASE Abort(r)
    BY <1>6 DEF Abort, RolledBack, NoOutcome
<1>7. QED
    BY <1>1, <1>2, <1>3, <1>4, <1>5, <1>6 DEF ServerStep

LEMMA OriginStep ==
    ASSUME RefinementInv, "database" \notin DisruptionKinds, [OutboxNext]_vars
    PROVE  OriginInv'
<1> USE DEF RefinementInv, OutboxInv, ClientTypeOK
<1>1. ASSUME NEW s \in Sales, NEW p \in Places, RingUp(s, p) PROVE OriginInv'
    BY <1>1, TerminalOrigin DEF RingUp, serverVars
<1>2. CASE \/ \E t \in Stores : SwitchStore(t)
           \/ RefreshToken
           \/ \E s \in Sales : \/ CustomerPushed(s) /\ UNCHANGED clientVars
                               \/ CustomerDeleted(s) /\ UNCHANGED clientVars
           \/ \E d \in Drains : SyncNow(d) \/ FinishBatch(d)
           \/ Crash
           \/ UNCHANGED vars
    <2>1. UNCHANGED <<phase, batch, cur, outcome, rows, row>>
        BY <1>2 DEF SwitchStore, RefreshToken, CustomerPushed, CustomerDeleted,
                    SyncNow, FinishBatch, Crash, vars, serverVars, clientVars
    <2>2. QED
        BY <2>1, TerminalOrigin
<1>3. ASSUME NEW d \in Drains, Claim(d) PROVE OriginInv'
    BY <1>3, TerminalOrigin DEF Claim, OldestOf, serverVars
<1>4. ASSUME NEW d \in Drains, Send(d) PROVE OriginInv'
    BY <1>4, SendOrigin
<1>5. ASSUME NEW d \in Drains, Receive(d) \/ CallFails(d) \/ CallTimesOut(d)
      PROVE  OriginInv'
    <2>1. row' = row
        BY <1>5 DEF Receive, CallFails, CallTimesOut, StartWriting
    <2>2. \/ req[d] \in Requests /\ Close(req[d])
          \/ UNCHANGED <<phase, batch, cur, outcome, rows>>
        BY <1>5 DEF Receive, CallFails, CallTimesOut, WaitInv
    <2>3. QED
        BY <2>1, <2>2, CloseOrigin, TerminalOrigin
<1>6. ASSUME NEW d \in Drains, NEW s \in Sales, WriteResult(d, s) \/ RevertRow(d, s)
      PROVE  OriginInv'
    <2>1. row[s] = "syncing"
        BY <1>6, WriteResultClaims
    <2>2. StatusAfter(reply[d][s]) # "unwritten"
        BY DEF StatusAfter
    <2>3. row' = [row EXCEPT ![s] = row'[s]] /\ row'[s] # "unwritten"
        BY <1>6, <2>2 DEF WriteResult, RevertRow
    <2>4. QED
        BY <1>6, <2>1, <2>3, TerminalOrigin DEF WriteResult, RevertRow, serverVars
<1>7. ASSUME NEW r \in Requests, ServerStep(r) \/ (Abort(r) /\ UNCHANGED clientVars)
      PROVE  OriginInv'
    BY <1>7, ServiceOrigin DEF ServerStep, clientVars
<1>8. ASSUME NEW r \in Requests, DropAnswer(r) PROVE OriginInv'
    BY <1>8, CloseOrigin DEF DropAnswer, clientVars
<1>9. QED
    BY <1>1, <1>2, <1>3, <1>4, <1>5, <1>6, <1>7, <1>8, NoDatabaseFailure
       DEF OutboxNext, DrainStep

LEMMA ClaimsStep ==
    ASSUME RefinementInv, "database" \notin DisruptionKinds, [OutboxNext]_vars
    PROVE  ClaimsAreExclusive'
<1>1. ASSUME UNCHANGED clientVars PROVE ClaimsAreExclusive'
    BY <1>1, HoldingUnmoved DEF clientVars, Holding, RefinementInv
<1>2. ASSUME NEW s \in Sales, NEW p \in Places, RingUp(s, p)
      PROVE  ClaimsAreExclusive'
    BY <1>2, TillClaims
<1>3. CASE (\E t \in Stores : SwitchStore(t)) \/ RefreshToken
    BY <1>3, TillClaims
<1>4. CASE \/ \E d \in Drains : \/ SyncNow(d)
                               \/ Send(d)
                               \/ Receive(d)
                               \/ CallFails(d)
                               \/ CallTimesOut(d)
                               \/ FinishBatch(d)
           \/ Crash
    BY <1>4, DrainClaims
<1>5. ASSUME NEW d \in Drains, Claim(d) PROVE ClaimsAreExclusive'
    BY <1>5, ClaimClaims
<1>6. ASSUME NEW d \in Drains, NEW s \in Sales, WriteResult(d, s) \/ RevertRow(d, s)
      PROVE  ClaimsAreExclusive'
    BY <1>6, WriteResultClaims
<1>7. ASSUME NEW r \in Requests,
             ServerStep(r) \/ DropAnswer(r) \/ (Abort(r) /\ UNCHANGED clientVars)
      PROVE  ClaimsAreExclusive'
    BY <1>1, <1>7 DEF ServerStep, DropAnswer
<1>8. CASE UNCHANGED vars
    BY <1>1, <1>8 DEF vars
<1>9. QED
    BY <1>1, <1>2, <1>3, <1>4, <1>5, <1>6, <1>7, <1>8, NoDatabaseFailure
       DEF OutboxNext, DrainStep

LEMMA RefinementStep ==
    ASSUME "database" \notin DisruptionKinds, RefinementInv, [OutboxNext]_vars
    PROVE  RefinementInv'
<1>1. QED
    BY OutboxStep, OriginStep, ClaimsStep DEF RefinementInv

----------------------------------------------------------------------------
(* Steps of SaleDelivery.                                                   *)

\* What a step does to the rows and the table decides what it does to Stage.
LEMMA StageUnmoved ==
    ASSUME row' = row, rows' = rows PROVE Stage' = Stage
<1>1. QED
    BY DEF Stage

LEMMA StageRingUp ==
    ASSUME RefinementInv, NEW s \in Sales, NEW p \in Places, RingUp(s, p)
    PROVE  Delivery!RingUp(s)
<1> USE DEF RefinementInv, OutboxInv, ClientTypeOK
<1>1. row[s] = "unwritten" /\ rows[s] = 0 /\ rows' = rows
    BY DEF RingUp, OriginInv, serverVars
<1>2. row' = [row EXCEPT ![s] = "pending"]
    BY DEF RingUp
<1>3. Stage[s] = "unsold"
    BY <1>1 DEF Stage
<1>4. Stage' = [x \in Sales |-> IF x \in {s} THEN "queued" ELSE Stage[x]]
    BY <1>1, <1>2 DEF Stage
<1>5. QED
    BY <1>3, <1>4 DEF Delivery!RingUp, Delivery!Move

LEMMA StageClaim ==
    ASSUME RefinementInv, NEW d \in Drains, Claim(d)
    PROVE  Stage' = Stage
<1> USE DEF RefinementInv, OutboxInv, ClientTypeOK
<1>1. PICK B \in SUBSET Eligible :
        row' = [s \in Sales |-> IF s \in B THEN "syncing" ELSE row[s]]
    BY DEF Claim, OldestOf
<1>2. rows' = rows
    BY DEF Claim, serverVars
<1>3. QED
    BY <1>1, <1>2 DEF Eligible, Stage

LEMMA StageWrite ==
    ASSUME RefinementInv, NEW d \in Drains, NEW s \in Sales,
           WriteResult(d, s) \/ RevertRow(d, s)
    PROVE  Stage' = Stage \/ Delivery!Acknowledge(s)
<1> USE DEF RefinementInv, OutboxInv, ClientTypeOK
<1>1. row[s] = "syncing" /\ rows' = rows
    BY WriteResultClaims DEF WriteResult, RevertRow, serverVars
<1>2. PICK status \in {"pending", "failed", "synced"} :
        /\ row' = [row EXCEPT ![s] = status]
        /\ status = "synced" => rows[s] > 0
    <2>1. CASE RevertRow(d, s)
        BY <2>1 DEF RevertRow
    <2>2. CASE WriteResult(d, s)
        BY <2>2 DEF WriteResult, StatusAfter, ReplyInv, Outcomes
    <2>3. QED
        BY <2>1, <2>2
<1>3. CASE status # "synced"
    BY <1>1, <1>2, <1>3 DEF Stage
<1>4. CASE status = "synced"
    <2>1. Stage[s] = "ingested"
        BY <1>1, <1>2, <1>4 DEF Stage
    <2>2. Stage' = [x \in Sales |-> IF x \in {s} THEN "acknowledged" ELSE Stage[x]]
        BY <1>1, <1>2, <1>4 DEF Stage
    <2>3. QED
        BY <2>1, <2>2 DEF Delivery!Acknowledge, Delivery!Move
<1>5. QED
    BY <1>3, <1>4

LEMMA StageCommit ==
    ASSUME RefinementInv, NEW r \in Requests, Commit(r), row' = row
    PROVE  Delivery!Ingest(Uncommitted(r))
<1> USE DEF RefinementInv, OutboxInv, ClientTypeOK, LedgerInv, ServerTypeOK
<1>1. \A s \in Uncommitted(r) : /\ s \in Sales
                               /\ rows[s] = 0
                               /\ row[s] \notin {"unwritten", "synced"}
    BY DEF Uncommitted, UniqueInv, OriginInv, SyncedIsIngested
<1>2. \A s \in Uncommitted(r) : Stage[s] = "queued"
    BY <1>1 DEF Stage
<1>3. \A s \in Sales : rows'[s] = IF s \in Uncommitted(r) THEN rows[s] + 1 ELSE rows[s]
    BY DEF Commit
<1>4. Stage' = [s \in Sales |-> IF s \in Uncommitted(r) THEN "ingested" ELSE Stage[s]]
    BY <1>1, <1>3 DEF Stage
<1>5. QED
    BY <1>2, <1>4 DEF Delivery!Ingest, Delivery!Move

LEMMA StageService ==
    ASSUME RefinementInv, NEW r \in Requests, row' = row, ServerStep(r) \/ Abort(r)
    PROVE  Stage' = Stage \/ \E S \in SUBSET Sales : Delivery!Ingest(S)
<1>1. CASE Commit(r)
    <2>1. Uncommitted(r) \in SUBSET Sales
        BY DEF Uncommitted
    <2>2. QED
        BY <1>1, <2>1, StageCommit
<1>2. CASE rows' = rows
    BY <1>2, StageUnmoved
<1>3. QED
    BY <1>1, <1>2 DEF ServerStep, Authorize, Lookup, Validate, Conclude, Insert, Publish, PublishEvent, Abort, RolledBack

LEMMA StageStep ==
    ASSUME "database" \notin DisruptionKinds, RefinementInv, [OutboxNext]_vars
    PROVE  [Delivery!Next]_Stage
<1>1. ASSUME NEW s \in Sales, NEW p \in Places, RingUp(s, p) PROVE [Delivery!Next]_Stage
    BY <1>1, StageRingUp DEF Delivery!Next
<1>2. CASE \/ \E t \in Stores : SwitchStore(t)
           \/ RefreshToken
           \/ \E s \in Sales : \/ CustomerPushed(s) /\ UNCHANGED clientVars
                               \/ CustomerDeleted(s) /\ UNCHANGED clientVars
           \/ \E d \in Drains : \/ SyncNow(d)
                               \/ Send(d)
                               \/ Receive(d)
                               \/ CallFails(d)
                               \/ CallTimesOut(d)
                               \/ FinishBatch(d)
           \/ \E r \in Requests : DropAnswer(r)
           \/ Crash
           \/ UNCHANGED vars
    <2>1. rows' = rows /\ row' = row
        BY <1>2 DEF SwitchStore, RefreshToken, CustomerPushed, CustomerDeleted, SyncNow,
                    Send, Arrive, Receive, CallFails, CallTimesOut, StartWriting, Close,
                    FinishBatch, DropAnswer, Crash, vars, serverVars, clientVars
    <2>2. QED
        BY <2>1, StageUnmoved
<1>3. ASSUME NEW d \in Drains, Claim(d) PROVE [Delivery!Next]_Stage
    BY <1>3, StageClaim
<1>4. ASSUME NEW d \in Drains, NEW s \in Sales, WriteResult(d, s) \/ RevertRow(d, s)
      PROVE  [Delivery!Next]_Stage
    BY <1>4, StageWrite DEF Delivery!Next
<1>5. ASSUME NEW r \in Requests, ServerStep(r) \/ (Abort(r) /\ UNCHANGED clientVars)
      PROVE  [Delivery!Next]_Stage
    <2>1. row' = row
        BY <1>5 DEF ServerStep, clientVars
    <2>2. QED
        BY <1>5, <2>1, StageService DEF Delivery!Next
<1>6. QED
    BY <1>1, <1>2, <1>3, <1>4, <1>5, NoDatabaseFailure DEF OutboxNext, DrainStep

\* A synced row is only ever left alone.
LEMMA SyncedStep ==
    ASSUME "database" \notin DisruptionKinds, RefinementInv, [OutboxNext]_vars,
           NEW x \in Sales, row[x] = "synced"
    PROVE  row'[x] = "synced"
<1> USE DEF RefinementInv
<1>1. Stage[x] = "acknowledged"
    BY DEF Stage
<1>2. [Delivery!Next]_Stage
    BY StageStep
<1>3. Stage'[x] = "acknowledged"
    BY <1>1, <1>2
       DEF Delivery!Next, Delivery!RingUp, Delivery!Ingest, Delivery!Acknowledge, Delivery!Move
<1>4. QED
    BY <1>3 DEF Stage

----------------------------------------------------------------------------
(* Theorems.                                                                *)

LEMMA RefinementInvariant ==
    ASSUME "database" \notin DisruptionKinds
    PROVE  OutboxSpec => []RefinementInv
<1>1. RefinementInv /\ [OutboxNext]_vars => RefinementInv'
    BY RefinementStep
<1>2. QED
    BY RefinementInit, <1>1, PTL DEF OutboxSpec

\* Two drains never hold the same row, so no sale is uploaded by two of them
\* at once (the row claim of _claimBatch).
THEOREM ClaimsExcludeEachOther ==
    ASSUME "database" \notin DisruptionKinds
    PROVE  OutboxSpec => []ClaimsAreExclusive
<1>1. RefinementInv => ClaimsAreExclusive
    BY DEF RefinementInv
<1>2. QED
    BY <1>1, RefinementInvariant, PTL

\* Once synced a row is never uploaded again (_doSync).
THEOREM SyncedRowsAreFinal ==
    ASSUME "database" \notin DisruptionKinds
    PROVE  OutboxSpec => SyncedIsFinal
<1>1. RefinementInv /\ [OutboxNext]_vars
        => [\A s \in Sales : row[s] = "synced" => row'[s] = "synced"]_row
    BY SyncedStep
<1>2. QED
    BY <1>1, RefinementInvariant, PTL DEF OutboxSpec, SyncedIsFinal

\* The terminal and POS implement SaleDelivery: rung up, ingested once, and
\* acknowledged after that.
THEOREM OutboxImplementsDelivery ==
    ASSUME "database" \notin DisruptionKinds
    PROVE  OutboxSpec => Implements
<1>1. OutboxInit => Delivery!Init
    BY DEF OutboxInit, ServerInit, Stage, Delivery!Init
<1>2. RefinementInv /\ [OutboxNext]_vars => [Delivery!Next]_Stage
    BY StageStep
<1>3. QED
    BY <1>1, <1>2, RefinementInvariant, PTL DEF OutboxSpec, Implements, Delivery!Spec

----------------------------------------------------------------------------
(***************************************************************************)
(* While no transaction of POS aborts, the stock of a sale is deducted once,  *)
(* however often the terminal sends it.  Inventory Service could not tell:     *)
(* the event of each attempt has a fresh sale id.  It is the unique key of     *)
(* client_sale_id that lets one attempt alone come as far as publishing.       *)
(***************************************************************************)
\* A sale that is being created has no result yet; one that is being published
\* is inserted, and its stock has not been touched.
AttemptInv ==
    \A r \in Requests :
        /\ phase[r] \in {"creating", "inserting"} => outcome[r][cur[r]] = "none"
        /\ phase[r] = "publishing" => outcome[r][cur[r]] = "created" /\ deducted[cur[r]] = 0

DeductionInv == OutboxInv /\ AttemptInv /\ DeductedOnce

LEMMA DeductionInit == OutboxInit => DeductionInv
<1>1. OutboxInit => AttemptInv /\ DeductedOnce
    BY DEF OutboxInit, ServerInit, AttemptInv, DeductedOnce
<1>2. QED
    BY <1>1, OutboxInitInv DEF DeductionInv

----------------------------------------------------------------------------
(* Steps around the handler: a request comes, goes, or stays as it is.        *)

LEMMA RequestsUnmoved ==
    ASSUME DeductionInv, UNCHANGED <<rows, deducted>>,
           \A r \in Requests :
              \/ UNCHANGED <<phase[r], cur[r], outcome[r]>>
              \/ phase[r] \notin InTransaction /\ phase'[r] \notin InTransaction
    PROVE  AttemptInv' /\ DeductedOnce'
<1>1. AttemptInv'
    BY DEF DeductionInv, AttemptInv, InTransaction
<1>2. \A r \in Requests : Uncommitted(r)' = Uncommitted(r)
    BY DEF Uncommitted
<1>3. DeductedOnce'
    BY <1>2 DEF DeductionInv, DeductedOnce
<1>4. QED
    BY <1>1, <1>3

\* A terminal sends, and closes what was answered or never began.
LEMMA CallDeductions ==
    ASSUME DeductionInv, NEW d \in Drains,
           Send(d) \/ Receive(d) \/ CallFails(d) \/ CallTimesOut(d)
    PROVE  AttemptInv' /\ DeductedOnce'
<1> USE DEF DeductionInv, OutboxInv, LedgerInv, ServerTypeOK, InTransaction, Answered
<1>1. ASSUME NEW r \in Requests, NEW B, NEW scope, Arrive(r, B, scope)
      PROVE  AttemptInv' /\ DeductedOnce'
    BY <1>1, RequestsUnmoved DEF Arrive
<1>2. ASSUME NEW r \in Requests, Close(r), phase[r] \notin InTransaction
      PROVE  AttemptInv' /\ DeductedOnce'
    BY <1>2, RequestsUnmoved DEF Close
<1>3. CASE Send(d)
    BY <1>1, <1>3 DEF Send
<1>4. CASE Receive(d) \/ CallFails(d) \/ CallTimesOut(d)
    <2>1. req[d] \in Requests
        BY <1>4 DEF Receive, CallFails, CallTimesOut, WaitInv
    <2>2. \/ Close(req[d]) /\ phase[req[d]] \notin InTransaction
          \/ UNCHANGED <<phase, cur, outcome, rows, deducted>>
        BY <1>4 DEF Receive, CallFails, CallTimesOut
    <2>3. QED
        BY <1>2, <2>1, <2>2, RequestsUnmoved
<1>5. QED
    BY <1>3, <1>4

\* All that happens on the terminal alone, and to customers.
LEMMA ElsewhereDeductions ==
    ASSUME DeductionInv, UNCHANGED <<phase, cur, outcome, rows, deducted>>
    PROVE  AttemptInv' /\ DeductedOnce'
BY RequestsUnmoved

LEMMA DropDeductions ==
    ASSUME DeductionInv, NEW r \in Requests, DropAnswer(r)
    PROVE  AttemptInv' /\ DeductedOnce'
BY RequestsUnmoved
   DEF DropAnswer, Close, DeductionInv, OutboxInv, LedgerInv, ServerTypeOK, InTransaction, Answered

----------------------------------------------------------------------------
(* Steps of the handler.                                                     *)

LEMMA LookupDeductions ==
    ASSUME DeductionInv, NEW r \in Requests,
           Authorize(r) \/ \E s \in Sales : Lookup(r, s)
    PROVE  AttemptInv' /\ DeductedOnce'
<1> USE DEF DeductionInv, OutboxInv, LedgerInv, ServerTypeOK
<1>1. \A q \in Requests : Uncommitted(q)' = Uncommitted(q)
    <2>1. CASE Authorize(r)
        BY <2>1 DEF Authorize, Uncommitted, FreshInv, InTransaction
    <2>2. ASSUME NEW s \in Sales, Lookup(r, s) PROVE Uncommitted(r)' = Uncommitted(r)
        <3>1. outcome[r][s] = "none" /\ phase[r] = "running" /\ phase'[r] \in InTransaction
            BY <2>2 DEF Lookup, Todo, InTransaction
        <3>2. \A x \in Sales :
                \/ outcome'[r][x] = outcome[r][x]
                \/ x = s /\ outcome'[r][x] = "duplicate"
            BY <2>2 DEF Lookup
        <3>3. QED
            BY <3>1, <3>2 DEF Uncommitted, InTransaction
    <2>3. ASSUME NEW s \in Sales, Lookup(r, s), NEW q \in Requests \ {r}
          PROVE  Uncommitted(q)' = Uncommitted(q)
        <3>1. phase'[q] = phase[q] /\ outcome'[q] = outcome[q]
            BY <2>3 DEF Lookup
        <3>2. QED
            BY <3>1 DEF Uncommitted
    <2>4. QED
        BY <2>1, <2>2, <2>3
<1>2. AttemptInv'
    BY DEF Authorize, Lookup, Todo, AttemptInv
<1>3. DeductedOnce'
    BY <1>1 DEF Authorize, Lookup, DeductedOnce
<1>4. QED
    BY <1>2, <1>3

\* A sale that is inserted was in no table and no other transaction: its stock
\* has not been touched by any attempt.
LEMMA InsertDeductions ==
    ASSUME DeductionInv, NEW r \in Requests, Validate(r) \/ Insert(r)
    PROVE  AttemptInv' /\ DeductedOnce'
<1> USE DEF DeductionInv, OutboxInv, LedgerInv, ServerTypeOK
<1>1. /\ cur[r] \in Sales /\ outcome[r][cur[r]] = "none"
      /\ UNCHANGED <<rows, deducted>>
    BY DEF Validate, Insert, CursorInv, AttemptInv
<1>2. \A q \in Requests : Uncommitted(q) \subseteq Uncommitted(q)'
    BY <1>1 DEF Validate, Insert, Conclude, Uncommitted, InTransaction
<1>3. DeductedOnce'
    BY <1>1, <1>2 DEF DeductedOnce
<1>4. ASSUME phase'[r] = "publishing"
      PROVE  outcome'[r][cur'[r]] = "created" /\ deducted[cur'[r]] = 0
    <2>1. /\ Insert(r) /\ rows[cur[r]] = 0 /\ BlockedBy(r) = {}
          /\ cur' = cur /\ outcome' = [outcome EXCEPT ![r][cur[r]] = "created"]
        <3>1. ~Validate(r)
            BY <1>4 DEF Validate, Conclude
        <3>2. Insert(r) /\ BlockedBy(r) = {}
            BY <3>1 DEF Insert
        <3>3. ~Conclude(r, "duplicate")
            BY <1>4 DEF Conclude
        <3>4. rows[cur[r]] \in Nat
            BY <1>1
        <3>5. QED
            BY <3>2, <3>3, <3>4 DEF Insert
    <2>2. \A q \in Requests : cur[r] \notin Uncommitted(q)
        BY <1>1, <2>1 DEF BlockedBy, Uncommitted
    <2>3. QED
        BY <1>1, <2>1, <2>2 DEF DeductedOnce
<1>5. AttemptInv'
    BY <1>1, <1>4 DEF Validate, Insert, Conclude, AttemptInv
<1>6. QED
    BY <1>3, <1>5

\* No second request is publishing the same sale.
LEMMA PublishDeductions ==
    ASSUME DeductionInv, NEW r \in Requests, Publish(r)
    PROVE  AttemptInv' /\ DeductedOnce'
<1> USE DEF DeductionInv, OutboxInv, LedgerInv, ServerTypeOK
<1>1. /\ cur[r] \in Sales /\ outcome[r][cur[r]] = "created" /\ deducted[cur[r]] = 0
      /\ phase[r] = "publishing"
    BY DEF Publish, CursorInv, AttemptInv
<1>2. cur[r] \in Uncommitted(r)
    BY <1>1 DEF Uncommitted, InTransaction
<1>3. \A q \in Requests : Uncommitted(q)' = Uncommitted(q)
    BY <1>1 DEF Publish, Uncommitted, InTransaction
<1>4. /\ deducted'[cur[r]] \in {0, 1}
      /\ \A s \in Sales \ {cur[r]} : deducted'[s] = deducted[s]
    BY <1>1 DEF Publish, PublishEvent
<1>5. DeductedOnce'
    BY <1>2, <1>3, <1>4 DEF Publish, DeductedOnce
<1>6. \A q \in Requests \ {r} : phase[q] = "publishing" => cur[q] \in Sales /\ cur[q] # cur[r]
    BY <1>2 DEF UniqueInv, AttemptInv, CursorInv, Uncommitted, InTransaction
<1>7. AttemptInv'
    BY <1>4, <1>6 DEF Publish, AttemptInv
<1>8. QED
    BY <1>5, <1>7

\* What was uncommitted is now in the table.
LEMMA CommitDeductions ==
    ASSUME DeductionInv, NEW r \in Requests, Commit(r)
    PROVE  AttemptInv' /\ DeductedOnce'
<1> USE DEF DeductionInv, OutboxInv, LedgerInv, ServerTypeOK
<1>1. \A s \in Uncommitted(r) : rows'[s] > 0
    BY DEF Commit, Uncommitted
<1>2. \A s \in Sales : rows'[s] >= rows[s]
    BY DEF Commit
<1>3. \A q \in Requests \ {r} : Uncommitted(q)' = Uncommitted(q)
    BY DEF Commit, Uncommitted
<1>4. DeductedOnce'
    BY <1>1, <1>2, <1>3 DEF Commit, DeductedOnce
<1>5. AttemptInv'
    BY DEF Commit, AttemptInv
<1>6. QED
    BY <1>4, <1>5

LEMMA DeductionStep ==
    ASSUME "abort" \notin DisruptionKinds, DeductionInv, [OutboxNext]_vars
    PROVE  DeductionInv'
<1>1. OutboxInv'
    BY OutboxStep DEF DeductionInv
<1>2. ASSUME NEW r \in Requests, ServerStep(r)
      PROVE  AttemptInv' /\ DeductedOnce'
    <2>1. First(Todo(r)) \subseteq Sales
        BY DEF First, Todo, DeductionInv, OutboxInv, LedgerInv, ServerTypeOK
    <2>2. QED
        BY <1>2, <2>1, LookupDeductions, InsertDeductions, PublishDeductions, CommitDeductions
           DEF ServerStep
<1>3. ASSUME NEW r \in Requests PROVE ~Abort(r)
    BY DEF Abort, Disrupt
<1>4. ASSUME NEW d \in Drains,
             SyncNow(d) \/ DrainStep(d) \/ CallTimesOut(d) \/ WriteThrows(d) \/ DrainThrows(d)
      PROVE  AttemptInv' /\ DeductedOnce'
    <2>1. \/ Send(d) \/ Receive(d) \/ CallFails(d) \/ CallTimesOut(d)
          \/ UNCHANGED <<phase, cur, outcome, rows, deducted>>
        BY <1>4 DEF SyncNow, DrainStep, Claim, WriteResult, RevertRow, FinishBatch,
                    WriteThrows, DrainThrows, serverVars
    <2>2. QED
        BY <2>1, CallDeductions, ElsewhereDeductions
<1>5. ASSUME \/ \E s \in Sales, p \in Places : RingUp(s, p)
             \/ \E s \in Sales : CustomerPushed(s) \/ CustomerDeleted(s)
             \/ \E t \in Stores : SwitchStore(t)
             \/ RefreshToken \/ Crash \/ UNCHANGED vars
      PROVE  AttemptInv' /\ DeductedOnce'
    <2>1. UNCHANGED <<phase, cur, outcome, rows, deducted>>
        BY <1>5 DEF RingUp, CustomerPushed, CustomerDeleted, SwitchStore, RefreshToken, Crash,
                    serverVars, vars
    <2>2. QED
        BY <2>1, ElsewhereDeductions
<1>6. AttemptInv' /\ DeductedOnce'
    BY <1>2, <1>3, <1>4, <1>5, DropDeductions DEF OutboxNext
<1>7. QED
    BY <1>1, <1>6 DEF DeductionInv

\* However often a sale is sent again, its stock is deducted once, with a row
\* (_publish_sale_events under the retries of _doSync).
THEOREM StockIsDeductedOnce ==
    ASSUME "abort" \notin DisruptionKinds
    PROVE  OutboxSpec => []DeductedOnce
<1>1. DeductionInv /\ [OutboxNext]_vars => DeductionInv'
    BY DeductionStep
<1>2. DeductionInv => DeductedOnce
    BY DEF DeductionInv
<1>3. QED
    BY <1>1, <1>2, DeductionInit, PTL DEF OutboxSpec
=============================================================================
