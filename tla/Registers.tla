------------------------------ MODULE Registers ------------------------------
(***************************************************************************)
(* POS Service: the registers a terminal fills offline besides its sales -   *)
(* other expenses, other incomes and customers - and the receipt files that  *)
(* expenses and incomes refer to.                                           *)
(*                                                                          *)
(* Three services share one shape: a batch with a savepoint per entry inside  *)
(* one transaction, an update that reads without a lock and writes the        *)
(* columns it changed, an idempotent soft delete.  They differ in their key:   *)
(* an expense or income is known by its client id, a customer by a primary    *)
(* key the terminal chose, which another business may have chosen too.        *)
(***************************************************************************)
EXTENDS Integers, Sequences, FiniteSets

CONSTANTS
    Sessions,
    Businesses,
    Expenses, Incomes, Customers,   \* keys that terminals make
    NoRow,
    Values,         \* what an update may set
    Receipts, NoReceipt,
    BadUploads,     \* receipts whose file has the wrong type, size or content
    Jobs, NoJob,    \* the requests clients make
    MaxJobs,        \* bound: requests that arrive
    MaxAborts       \* bound: failures of a request in the middle

Keys == Expenses \cup Incomes \cup Customers
Operations == {"sync", "update", "delete", "upload"}

Row ==
    [business : Businesses, value : Values, deleted : BOOLEAN,
     receipt : Receipts \cup {NoReceipt}]

Entry == [key : Keys, value : Values, receipt : Receipts \cup {NoReceipt}]
JobType ==
    [op : Operations, business : Businesses, batch : Seq(Entry)]

ASSUME RegistersAssumption ==
    /\ NoReceipt \notin Receipts /\ NoJob \notin Jobs
    /\ NoRow \notin Row \cup Businesses
    /\ Expenses \cap Incomes = {} /\ Customers \cap (Expenses \cup Incomes) = {}
    /\ BadUploads \subseteq Receipts
    /\ Jobs \subseteq JobType
    /\ \A j \in Jobs :
         /\ Len(j.batch) > 0
         /\ j.op # "sync" => Len(j.batch) = 1
         /\ j.op = "upload" => j.batch[1].receipt \in Receipts
         /\ \A n \in 1..Len(j.batch) :
              j.batch[n].key \in Customers => j.batch[n].receipt = NoReceipt
    /\ MaxJobs \in Nat /\ MaxAborts \in Nat

VARIABLES
    row,        \* committed rows of the three tables
    receipt,    \* committed finance_attachments rows: the business of each
    files,      \* receipt files under their final name
    parts,      \* files still under their temporary name
    pc, job,    \* where each session is, and its request
    seen,       \* the row it has read
    results,    \* the status of each entry of its batch so far
    inserted,   \* rows it has inserted and not committed
    jobs, aborts

tables == <<row, receipt, files, parts>>
own == <<job, seen, results, inserted>>
vars == <<tables, pc, own, jobs, aborts>>

Answers == {"ok", "refused", "error"}
Places == {"idle", "lookup", "validate", "insert", "load", "check", "flush",
           "commit", "save", "sniff", "record"} \cup Answers
Statuses == {"created", "duplicate", "failed"}

TypeOK ==
    /\ row \in [Keys -> Row \cup {NoRow}]
    /\ receipt \in [Receipts -> Businesses \cup {NoRow}]
    /\ files \subseteq Receipts /\ parts \subseteq Receipts
    /\ pc \in [Sessions -> Places]
    /\ job \in [Sessions -> Jobs \cup {NoJob}]
    /\ seen \in [Sessions -> Row \cup {NoRow}]
    /\ results \in [Sessions -> Seq(Statuses)]
    /\ inserted \in [Sessions -> SUBSET Keys]
    /\ jobs \in 0..MaxJobs /\ aborts \in 0..MaxAborts
    /\ \A x \in Sessions : pc[x] # "idle" => Len(results[x]) <= Len(job[x].batch)

Init ==
    /\ row = [k \in Keys |-> NoRow]
    /\ receipt = [r \in Receipts |-> NoRow]
    /\ files = {} /\ parts = {}
    /\ pc = [x \in Sessions |-> "idle"]
    /\ job = [x \in Sessions |-> NoJob]
    /\ seen = [x \in Sessions |-> NoRow]
    /\ results = [x \in Sessions |-> << >>]
    /\ inserted = [x \in Sessions |-> {}]
    /\ jobs = 0 /\ aborts = 0

Goto(x, place) == pc' = [pc EXCEPT ![x] = place]
Stored == {k \in Keys : row[k] # NoRow}

\* The entry a session is at: a batch moves on with every result.
Current(x) ==
    IF job[x].op = "sync" THEN job[x].batch[Len(results[x]) + 1] ELSE job[x].batch[1]
Mine(x, k) == row[k] # NoRow /\ row[k].business = job[x].business

----------------------------------------------------------------------------
(* Requests arrive and are answered.                                        *)

First == [sync |-> "lookup", update |-> "load", delete |-> "load", upload |-> "save"]

\* An upload gets a fresh attachment id.
Fresh(j) ==
    j.op = "upload" =>
        \A r \in {j.batch[1].receipt} :
            /\ receipt[r] = NoRow /\ r \notin files \cup parts
            /\ \A y \in Sessions :
                 ~(pc[y] # "idle" /\ job[y].op = "upload" /\ Current(y).receipt = r)

Arrive(x, j) ==
    /\ pc[x] = "idle" /\ jobs < MaxJobs
    /\ Fresh(j)
    /\ jobs' = jobs + 1
    /\ job' = [job EXCEPT ![x] = j]
    /\ Goto(x, First[j.op])
    /\ UNCHANGED <<tables, seen, results, inserted, aborts>>

Done(x) ==
    /\ pc[x] \in Answers
    /\ Goto(x, "idle")
    /\ job' = [job EXCEPT ![x] = NoJob]
    /\ seen' = [seen EXCEPT ![x] = NoRow]
    /\ results' = [results EXCEPT ![x] = << >>]
    /\ UNCHANGED <<tables, inserted, jobs, aborts>>

----------------------------------------------------------------------------
(* A batch.                                                                 *)

\* The entry has its result; the loop goes on, or the transaction commits.
Report(x, status) ==
    /\ results' = [results EXCEPT ![x] = Append(@, status)]
    /\ Goto(x, IF Len(results[x]) + 1 < Len(job[x].batch) THEN "lookup" ELSE "commit")

\* A row is found that is committed, or was inserted by this transaction.
Found(x, k) == k \in Stored \cup inserted[x]

LookupEntry(x, kind) ==
    /\ pc[x] = "lookup" /\ Current(x).key \in kind
    /\ IF Found(x, Current(x).key) THEN Report(x, "duplicate")
       ELSE Goto(x, "validate") /\ UNCHANGED results

LookupExpense(x) == LookupEntry(x, Expenses)
LookupIncome(x) == LookupEntry(x, Incomes)

\* The primary key of a customer may be taken by another business.
LookupCustomer(x) ==
    /\ pc[x] = "lookup" /\ Current(x).key \in Customers
    /\ LET k == Current(x).key IN
       IF ~Found(x, k) THEN Goto(x, "insert") /\ UNCHANGED results
       ELSE Report(x, IF k \in inserted[x] \/ Mine(x, k) THEN "duplicate" ELSE "failed")

Lookup(x) ==
    /\ LookupExpense(x) \/ LookupIncome(x) \/ LookupCustomer(x)
    /\ UNCHANGED <<tables, job, seen, inserted, jobs, aborts>>

\* _validate_attachment_ownership.
ReceiptFits_Exists(x, r) == r # NoReceipt => receipt[r] # NoRow
ReceiptFits(x, r) == r # NoReceipt => receipt[r] = job[x].business

Validate(x) ==
    /\ pc[x] = "validate"
    /\ IF ReceiptFits(x, Current(x).receipt) THEN Goto(x, "insert") /\ UNCHANGED results
       ELSE Report(x, "failed")
    /\ UNCHANGED <<tables, job, seen, inserted, jobs, aborts>>

\* An insert waits for another transaction's uncommitted row of the same key.
Blocks(y, x) ==
    /\ x # y /\ pc[x] = "insert"
    /\ Current(x).key \in inserted[y]

\* The unique key refuses what the lookup could not see yet.
Clash(k) == k \in Stored

Insert(x) ==
    /\ pc[x] = "insert"
    /\ \A y \in Sessions : ~Blocks(y, x)
    /\ IF Clash(Current(x).key)
       THEN Report(x, "duplicate") /\ UNCHANGED inserted
       ELSE /\ inserted' = [inserted EXCEPT ![x] = @ \cup {Current(x).key}]
            /\ Report(x, "created")
    /\ UNCHANGED <<tables, job, seen, jobs, aborts>>

\* Two batches with the same new keys in opposite order.
DeadlockVictim(x) ==
    /\ \E y \in Sessions : Blocks(y, x) /\ Blocks(x, y)
    /\ inserted' = [inserted EXCEPT ![x] = {}]
    /\ Goto(x, "error")
    /\ UNCHANGED <<tables, job, seen, results, jobs, aborts>>

\* The row that was created for a key of the batch.
NewRow(x, k) ==
    LET n == CHOOSE i \in 1..Len(results[x]) :
                job[x].batch[i].key = k /\ results[x][i] = "created"
        e == job[x].batch[n]
    IN  [business |-> job[x].business, value |-> e.value, deleted |-> FALSE,
         receipt |-> e.receipt]

CommitBatch_Forgotten(x) ==  \* Mutant: the session is closed without a commit.
    /\ pc[x] = "commit" /\ job[x].op = "sync"
    /\ inserted' = [inserted EXCEPT ![x] = {}]
    /\ Goto(x, "ok")
    /\ UNCHANGED <<tables, job, seen, results, jobs, aborts>>

CommitBatch(x) ==
    /\ pc[x] = "commit" /\ job[x].op = "sync"
    /\ row' = [k \in Keys |-> IF k \in inserted[x] THEN NewRow(x, k) ELSE row[k]]
    /\ inserted' = [inserted EXCEPT ![x] = {}]
    /\ Goto(x, "ok")
    /\ UNCHANGED <<receipt, files, parts, job, seen, results, jobs, aborts>>

----------------------------------------------------------------------------
(* Updates and soft deletes.                                                *)

\* What an update answers to the row it read: 404, 409, or it goes on.
Updatable(x) == Mine(x, Current(x).key) /\ ~row[Current(x).key].deleted

LoadForUpdate(x, kind) ==
    /\ pc[x] = "load" /\ job[x].op = "update" /\ Current(x).key \in kind
    /\ seen' = [seen EXCEPT ![x] = row[Current(x).key]]
    /\ Goto(x, IF ~Updatable(x) THEN "refused"
               ELSE IF kind = Customers THEN "flush" ELSE "check")

UpdateExpense(x) == LoadForUpdate(x, Expenses)
UpdateIncome(x) == LoadForUpdate(x, Incomes)
UpdateCustomer(x) == LoadForUpdate(x, Customers)

\* A repeated delete is a no-op, not an error.
LoadForDelete(x, kind) ==
    /\ pc[x] = "load" /\ job[x].op = "delete" /\ Current(x).key \in kind
    /\ seen' = [seen EXCEPT ![x] = row[Current(x).key]]
    /\ Goto(x, IF ~Mine(x, Current(x).key) THEN "refused"
               ELSE IF row[Current(x).key].deleted THEN "ok" ELSE "flush")

DeleteExpense(x) == LoadForDelete(x, Expenses)
DeleteIncome(x) == LoadForDelete(x, Incomes)
DeleteCustomer(x) == LoadForDelete(x, Customers)

Load(x) ==
    /\ \/ UpdateExpense(x) \/ UpdateIncome(x) \/ UpdateCustomer(x)
       \/ DeleteExpense(x) \/ DeleteIncome(x) \/ DeleteCustomer(x)
    /\ UNCHANGED <<tables, job, results, inserted, jobs, aborts>>

CheckReceipt(x) ==
    /\ pc[x] = "check"
    /\ LET r == Current(x).receipt
       IN  Goto(x, IF r = seen[x].receipt \/ ReceiptFits(x, r) THEN "flush" ELSE "refused")
    /\ UNCHANGED <<tables, own, jobs, aborts>>

\* The UPDATE waits for the writer that holds the row.
Holds(y, k) == pc[y] = "commit" /\ job[y].op # "sync" /\ Current(y).key = k

Flush(x) ==
    /\ pc[x] = "flush"
    /\ \A y \in Sessions : ~Holds(y, Current(x).key)
    /\ Goto(x, "commit")
    /\ UNCHANGED <<tables, own, jobs, aborts>>

\* Only the columns that differ from the ones read are in the UPDATE.
Edited_WholeRow(x) == [seen[x] EXCEPT !.value = Current(x).value]
Edited(x) ==
    LET e == Current(x)
        set == e.receipt \notin {NoReceipt, seen[x].receipt}
    IN  [row[e.key] EXCEPT !.value = IF e.value = seen[x].value THEN @ ELSE e.value,
                           !.receipt = IF set THEN e.receipt ELSE @]

CommitChange(x) ==
    /\ pc[x] = "commit" /\ job[x].op \in {"update", "delete"}
    /\ LET k == Current(x).key
       IN  row' = [row EXCEPT ![k] = IF job[x].op = "update" THEN Edited(x)
                                     ELSE [row[k] EXCEPT !.deleted = TRUE]]
    /\ Goto(x, "ok")
    /\ UNCHANGED <<receipt, files, parts, own, jobs, aborts>>

----------------------------------------------------------------------------
(* Receipt files.                                                           *)

SaveReceipt_Records(x) ==  \* Mutant: the row is committed before the file is there.
    /\ pc[x] = "save"
    /\ parts' = parts \cup {Current(x).receipt}
    /\ receipt' = [receipt EXCEPT ![Current(x).receipt] = job[x].business]
    /\ Goto(x, "sniff")
    /\ UNCHANGED <<row, files, own, jobs, aborts>>

\* The upload is streamed to a temporary name ...
SaveReceipt(x) ==
    /\ pc[x] = "save"
    /\ parts' = parts \cup {Current(x).receipt}
    /\ Goto(x, "sniff")
    /\ UNCHANGED <<row, receipt, files, own, jobs, aborts>>

\* ... checked, and renamed or removed ...
SniffReceipt(x) ==
    /\ pc[x] = "sniff"
    /\ LET r == Current(x).receipt IN
       IF r \in BadUploads THEN Goto(x, "refused") /\ UNCHANGED files
                           ELSE Goto(x, "record") /\ files' = files \cup {r}
    /\ parts' = parts \ {Current(x).receipt}
    /\ UNCHANGED <<row, receipt, own, jobs, aborts>>

\* ... before its row is inserted.
RecordReceipt(x) ==
    /\ pc[x] = "record"
    /\ receipt' = [receipt EXCEPT ![Current(x).receipt] = job[x].business]
    /\ Goto(x, "ok")
    /\ UNCHANGED <<row, files, parts, own, jobs, aborts>>

\* download_finance_attachment: 404 for another business, or without a file.
CanDownload(b, r) == receipt[r] = b /\ r \in files

----------------------------------------------------------------------------
\* The connection or the service fails in the middle of a request.
Abort(x) ==
    /\ pc[x] \notin Answers \cup {"idle"}
    /\ aborts < MaxAborts
    /\ aborts' = aborts + 1
    /\ inserted' = [inserted EXCEPT ![x] = {}]
    /\ Goto(x, "error")
    /\ UNCHANGED <<tables, job, seen, results, jobs>>

Step(x) ==
    \/ Lookup(x) \/ Validate(x) \/ Insert(x) \/ DeadlockVictim(x) \/ CommitBatch(x)
    \/ Load(x) \/ CheckReceipt(x) \/ Flush(x) \/ CommitChange(x)
    \/ SaveReceipt(x) \/ SniffReceipt(x) \/ RecordReceipt(x)

\* The requests of the bound are answered.
Rest ==
    /\ jobs = MaxJobs /\ \A x \in Sessions : pc[x] = "idle"
    /\ UNCHANGED vars

Next ==
    \/ \E x \in Sessions :
          \/ \E j \in Jobs : Arrive(x, j)
          \/ Step(x)
          \/ Abort(x)
          \/ Done(x)
    \/ Rest

Spec == Init /\ [][Next]_vars

----------------------------------------------------------------------------
(* Properties.                                                              *)

Answered(x, n) == pc[x] = "ok" /\ job[x].op = "sync" /\ n \in 1..Len(results[x])

\* What a terminal may mark as synced is stored: an entry answered "created"
\* or "duplicate" has a committed row, whatever races or failures there were.
AcknowledgedIsStored ==
    \A x \in Sessions : \A n \in 1..Len(results[x]) :
        Answered(x, n) /\ results[x][n] # "failed" => job[x].batch[n].key \in Stored

\* A row keeps its business and a deletion is final: terminals of two
\* businesses that chose the same customer id never take a row from each other,
\* and an update that read an entry before it was deleted does not bring it back.
RowsAreKept ==
    [][\A k \in Stored :
          /\ k \in Stored' /\ row'[k].business = row[k].business
          /\ row[k].deleted => row'[k].deleted]_vars

\* The receipt an entry refers to can be downloaded by the entry's business,
\* and by no other.
ReceiptsReadable ==
    \A k \in Stored : row[k].receipt # NoReceipt =>
        \A b \in Businesses : CanDownload(b, row[k].receipt) <=> b = row[k].business

\* A receipt's row has its file, at every moment of every upload.
RecordedHasFile == \A r \in Receipts : receipt[r] # NoRow => r \in files

\* Temporary files belong to uploads under way; only a failure leaves one.
NoLitter ==
    Cardinality({r \in parts : \A x \in Sessions :
        pc[x] = "sniff" => Current(x).receipt # r}) <= aborts

\* Tables and directory are what the schema and receipt_storage say: the types,
\* a file for every receipt, and no file that nobody accounts for.
TablesConsistent == TypeOK /\ RecordedHasFile /\ NoLitter
=============================================================================
