--------------------------- MODULE Registers_proofs ---------------------------
(***************************************************************************)
(* What a terminal is told is stored is stored, rows keep their business and  *)
(* stay deleted, and a receipt stays readable by its business alone, for every *)
(* number of requests, batches and failures.  The invariant says of every      *)
(* request what it may still rely on of the rows it has read (Own), which      *)
(* holds because tables only grow (Grows), and which keys and receipt ids are   *)
(* its alone (ExclusiveInv).                                                  *)
(***************************************************************************)
EXTENDS Registers, FiniteSetTheorems, TLAPS

InBatch == {"lookup", "validate", "insert"}
Uploads == {"save", "sniff", "record"}

\* The place of a request fits its operation.
PlaceInv(x) ==
    /\ job[x] \in Jobs
    /\ pc[x] \in InBatch => job[x].op = "sync" /\ Len(results[x]) < Len(job[x].batch)
    /\ pc[x] \in {"load", "flush"} => job[x].op \in {"update", "delete"}
    /\ pc[x] = "check" => job[x].op = "update"
    /\ pc[x] = "commit" => job[x].op \in {"sync", "update", "delete"}
    /\ pc[x] \in Uploads => job[x].op = "upload"
    /\ inserted[x] # {} => pc[x] \in InBatch \cup {"commit"} /\ job[x].op = "sync"

\* What a batch has reported so far: rows that are there, receipts that fit, and
\* for each row it has inserted the entry it came from.
BatchInv(x) ==
    /\ \A n \in 1..Len(results[x]) :
          /\ results[x][n] # "failed" /\ pc[x] # "error" =>
               job[x].batch[n].key \in Stored \cup inserted[x]
          /\ results[x][n] = "created" => ReceiptFits(x, job[x].batch[n].receipt)
    /\ pc[x] = "insert" => ReceiptFits(x, Current(x).receipt)
    /\ \A k \in inserted[x] : \E n \in 1..Len(results[x]) :
          job[x].batch[n].key = k /\ results[x][n] = "created"

\* The row a change is about belongs to the business, and so does its receipt.
ChangeInv(x) ==
    /\ pc[x] \in {"check", "flush"} \/ (pc[x] = "commit" /\ job[x].op # "sync") =>
          Mine(x, Current(x).key)
    /\ pc[x] \in {"flush", "commit"} /\ job[x].op = "update" =>
          \/ Current(x).receipt = seen[x].receipt
          \/ ReceiptFits(x, Current(x).receipt)

Own(x) ==
    /\ pc[x] = "idle" => inserted[x] = {} /\ results[x] = << >>
    /\ pc[x] # "idle" =>
          /\ PlaceInv(x) /\ BatchInv(x) /\ ChangeInv(x)
          /\ pc[x] = "record" => Current(x).receipt \in files

\* A key has one inserter, and a receipt id one upload.
ExclusiveInv ==
    /\ \A x \in Sessions : \A k \in inserted[x] :
          row[k] = NoRow /\ \A y \in Sessions \ {x} : k \notin inserted[y]
    /\ \A x \in Sessions : pc[x] \in Uploads =>
          /\ receipt[Current(x).receipt] = NoRow
          /\ \A y \in Sessions \ {x} :
                pc[y] \in Uploads => Current(y).receipt # Current(x).receipt

ReceiptInv ==
    /\ RecordedHasFile
    /\ \A k \in Stored : row[k].receipt # NoReceipt => receipt[row[k].receipt] = row[k].business

RegistersInv == TypeOK /\ ReceiptInv /\ ExclusiveInv /\ \A x \in Sessions : Own(x)

----------------------------------------------------------------------------
(* Tables only grow, and a request keeps what it relies on while others work.  *)

Grows ==
    /\ \A k \in Stored :
          /\ k \in Stored' /\ row'[k].business = row[k].business
          /\ row[k].deleted => row'[k].deleted
    /\ \A r \in Receipts : receipt[r] # NoRow => receipt'[r] = receipt[r]
    /\ files \subseteq files'

Still(y) == UNCHANGED <<pc[y], job[y], seen[y], results[y], inserted[y]>>

LEMMA SomeEntry ==
    ASSUME RegistersInv, NEW x \in Sessions, pc[x] # "idle"
    PROVE  /\ job[x] \in JobType
           /\ \A n \in 1..Len(job[x].batch) : job[x].batch[n] \in Entry
           /\ job[x].op # "sync" \/ pc[x] \in InBatch => Current(x) \in Entry
<1>1. job[x] \in JobType /\ Len(job[x].batch) > 0
    BY RegistersAssumption DEF RegistersInv, Own, PlaceInv
<1>2. job[x].batch \in Seq(Entry)
    BY <1>1 DEF JobType
<1>3. \A n \in 1..Len(job[x].batch) : job[x].batch[n] \in Entry
    BY <1>2
<1>4. Len(job[x].batch) \in Nat
    BY <1>2
<1>5. results[x] \in Seq(Statuses)
    BY DEF RegistersInv, TypeOK
<1>6. pc[x] \in InBatch => Len(results[x]) + 1 \in 1..Len(job[x].batch)
    BY <1>4, <1>5 DEF RegistersInv, Own, PlaceInv
<1>7. 1 \in 1..Len(job[x].batch)
    BY <1>1, <1>4
<1>8. pc[x] \in InBatch => job[x].op = "sync"
    BY DEF RegistersInv, Own, PlaceInv
<1>9. QED
    BY <1>1, <1>3, <1>6, <1>7, <1>8 DEF Current

LEMMA FitsStays ==
    ASSUME Grows, NEW x \in Sessions, NEW r \in Receipts \cup {NoReceipt},
           job'[x] = job[x], job[x] \in JobType, ReceiptFits(x, r)
    PROVE  ReceiptFits(x, r)'
<1>1. r # NoReceipt => receipt[r] # NoRow
    BY RegistersAssumption DEF ReceiptFits, JobType
<1>2. QED
    BY <1>1 DEF Grows, ReceiptFits

LEMMA MineStays ==
    ASSUME Grows, NEW x \in Sessions, NEW k \in Keys, job'[x] = job[x], Mine(x, k)
    PROVE  Mine(x, k)'
BY DEF Grows, Mine, Stored

LEMMA OthersKeep ==
    ASSUME RegistersInv, Grows, NEW y \in Sessions, Still(y)
    PROVE  Own(y)'
<1> USE DEF Still
<1>1. CASE pc[y] = "idle"
    BY <1>1 DEF RegistersInv, Own
<1>2. CASE pc[y] # "idle"
    <2>1. job[y] \in JobType /\ Current(y)' = Current(y)
        BY <1>2, SomeEntry DEF Current
    <2>2. PlaceInv(y) /\ BatchInv(y) /\ ChangeInv(y)
        BY <1>2 DEF RegistersInv, Own
    <2>3. PlaceInv(y)'
        BY <2>2 DEF PlaceInv
    <2>4. results[y] \in Seq(Statuses) /\ Len(results[y]) <= Len(job[y].batch)
        BY <1>2 DEF RegistersInv, TypeOK
    <2>5. \A n \in 1..Len(results[y]) : job[y].batch[n] \in Entry
        <3>1. Len(results[y]) \in Nat /\ Len(job[y].batch) \in Nat
            BY <2>1, <2>4 DEF JobType
        <3>2. QED
            BY <1>2, <2>4, <3>1, SomeEntry
    <2>6. BatchInv(y)'
        <3>1. ASSUME NEW n \in 1..Len(results[y])
              PROVE  /\ results[y][n] # "failed" /\ pc[y] # "error" =>
                           job[y].batch[n].key \in Stored' \cup inserted[y]
                     /\ results[y][n] = "created" => ReceiptFits(y, job[y].batch[n].receipt)'
            <4>1. job[y].batch[n].receipt \in Receipts \cup {NoReceipt}
                BY <2>5, <3>1 DEF Entry
            <4>2. Stored \subseteq Stored'
                BY DEF Grows
            <4>3. QED
                BY <2>1, <2>2, <4>1, <4>2, FitsStays DEF BatchInv
        <3>2. pc[y] = "insert" => ReceiptFits(y, Current(y).receipt)'
            <4>1. pc[y] = "insert" => Current(y).receipt \in Receipts \cup {NoReceipt}
                BY <1>2, SomeEntry DEF InBatch, Entry
            <4>2. QED
                BY <2>1, <2>2, <4>1, FitsStays DEF BatchInv
        <3>3. QED
            BY <2>1, <2>2, <3>1, <3>2 DEF BatchInv, ReceiptFits
    <2>7. ChangeInv(y)'
        <3>1. pc[y] \in {"check", "flush"} \/ (pc[y] = "commit" /\ job[y].op # "sync") =>
                 Current(y) \in Entry
            BY <1>2, <2>2, SomeEntry DEF PlaceInv
        <3>2. pc[y] \in {"flush", "commit"} /\ job[y].op = "update" => Current(y) \in Entry
            BY <1>2, SomeEntry
        <3>3. QED
            BY <2>1, <2>2, <3>1, <3>2, MineStays, FitsStays
               DEF ChangeInv, Entry, Mine, ReceiptFits
    <2>8. pc[y] = "record" => Current(y).receipt \in files'
        BY <1>2 DEF RegistersInv, Own, Grows
    <2>9. QED
        BY <1>2, <2>1, <2>3, <2>6, <2>7, <2>8 DEF Own
<1>3. QED
    BY <1>1, <1>2

\* A step of one request that leaves rows and receipts as they are, and takes
\* no new key and no new receipt id.
LEMMA QuietStep ==
    ASSUME RegistersInv, NEW x \in Sessions,
           UNCHANGED <<row, receipt>>, files \subseteq files',
           \A y \in Sessions \ {x} : Still(y),
           inserted'[x] \subseteq inserted[x],
           pc'[x] \in Uploads => pc[x] \in Uploads /\ job'[x] = job[x],
           TypeOK', Own(x)'
    PROVE  RegistersInv'
<1>1. Grows
    BY DEF Grows, Stored
<1>2. ReceiptInv'
    BY DEF RegistersInv, ReceiptInv, RecordedHasFile, Stored
<1>3. \A y \in Sessions : pc'[y] \in Uploads => pc[y] \in Uploads /\ Current(y)' = Current(y)
    <2>1. ASSUME NEW y \in Sessions, pc'[y] \in Uploads
          PROVE  pc[y] \in Uploads /\ job'[y] = job[y]
        BY <2>1 DEF Still
    <2>2. \A y \in Sessions : pc[y] \in Uploads => job[y].op = "upload"
        BY DEF RegistersInv, Own, PlaceInv, Uploads
    <2>3. QED
        BY <2>1, <2>2 DEF Current
<1>4. \A y \in Sessions : inserted'[y] \subseteq inserted[y]
    BY DEF Still
<1>5. ExclusiveInv'
    BY <1>3, <1>4 DEF RegistersInv, ExclusiveInv
<1>6. QED
    BY <1>1, <1>2, <1>5, OthersKeep DEF RegistersInv

\* The rest of a step that changes a table.
LEMMA BusyStep ==
    ASSUME RegistersInv, NEW x \in Sessions, Grows,
           \A y \in Sessions \ {x} : Still(y),
           TypeOK', ReceiptInv', ExclusiveInv', Own(x)'
    PROVE  RegistersInv'
BY OthersKeep DEF RegistersInv

LEMMA RegistersInit == Init => RegistersInv
<1> SUFFICES ASSUME Init PROVE RegistersInv
    OBVIOUS
<1> USE RegistersAssumption DEF Init
<1>1. TypeOK
    BY DEF TypeOK, Places
<1>2. ReceiptInv /\ ExclusiveInv
    BY DEF ReceiptInv, RecordedHasFile, Stored, ExclusiveInv, Uploads
<1>3. \A x \in Sessions : Own(x)
    BY DEF Own
<1>4. QED
    BY <1>1, <1>2, <1>3 DEF RegistersInv

----------------------------------------------------------------------------
(* A request arrives and is answered.                                       *)

LEMMA ArriveStep ==
    ASSUME RegistersInv, NEW x \in Sessions, NEW j \in Jobs, Arrive(x, j)
    PROVE  RegistersInv'
<1> USE DEF Arrive, tables, Goto
<1>1. /\ pc[x] = "idle" /\ pc'[x] = First[j.op] /\ job'[x] = j
      /\ inserted' = inserted /\ inserted[x] = {} /\ results' = results /\ results[x] = << >>
      /\ j \in JobType
    BY RegistersAssumption DEF RegistersInv, TypeOK, Own
<1>2. \A y \in Sessions \ {x} : Still(y)
    BY DEF Still, RegistersInv, TypeOK
<1>3. First[j.op] = IF j.op = "sync" THEN "lookup"
                    ELSE IF j.op = "upload" THEN "save" ELSE "load"
    BY <1>1 DEF JobType, Operations, First
<1>4. Len(j.batch) \in Nat \ {0} /\ Len(<< >>) = 0
    BY <1>1, RegistersAssumption DEF JobType
<1>5. TypeOK'
    <2>1. pc' \in [Sessions -> Places] /\ job' \in [Sessions -> Jobs \cup {NoJob}]
        BY <1>3 DEF RegistersInv, TypeOK, Places
    <2>2. \A y \in Sessions : pc'[y] # "idle" => Len(results'[y]) <= Len(job'[y].batch)
        <3>1. Len(results'[x]) <= Len(job'[x].batch)
            BY <1>1, <1>4
        <3>2. QED
            BY <1>1, <1>2, <3>1 DEF RegistersInv, TypeOK, Still
    <2>3. jobs' \in 0..MaxJobs
        BY RegistersAssumption DEF RegistersInv, TypeOK
    <2>4. QED
        BY <1>1, <2>1, <2>2, <2>3 DEF RegistersInv, TypeOK
<1>6. Own(x)'
    <2>1. PlaceInv(x)'
        BY <1>1, <1>3, <1>4 DEF PlaceInv, InBatch, Uploads, JobType, Operations
    <2>2. BatchInv(x)'
        BY <1>1, <1>3, <1>4 DEF BatchInv
    <2>3. ChangeInv(x)'
        BY <1>1, <1>3 DEF ChangeInv
    <2>4. QED
        BY <1>1, <1>3, <2>1, <2>2, <2>3 DEF Own
<1>7. CASE j.op = "upload"
    <2>1. /\ receipt[j.batch[1].receipt] = NoRow
          /\ \A y \in Sessions : pc[y] # "idle" /\ job[y].op = "upload" =>
                Current(y).receipt # j.batch[1].receipt
        BY <1>7 DEF Fresh
    <2>2. \A y \in Sessions : pc[y] \in Uploads => pc[y] # "idle" /\ job[y].op = "upload"
        BY DEF RegistersInv, Own, PlaceInv, Uploads
    <2>3. /\ Current(x)' = j.batch[1]
          /\ \A y \in Sessions \ {x} : Current(y)' = Current(y) /\ pc'[y] = pc[y]
        BY <1>1, <1>2, <1>7 DEF Current, Still
    <2>4. ExclusiveInv'
        BY <1>1, <2>1, <2>2, <2>3 DEF RegistersInv, ExclusiveInv
    <2>5. ReceiptInv' /\ Grows
        BY DEF RegistersInv, ReceiptInv, RecordedHasFile, Stored, Grows
    <2>6. QED
        BY <1>2, <1>5, <1>6, <2>4, <2>5, BusyStep
<1>8. CASE j.op # "upload"
    <2>1. pc'[x] \notin Uploads
        BY <1>1, <1>3, <1>8 DEF Uploads
    <2>2. QED
        BY <1>1, <1>2, <1>5, <1>6, <2>1, QuietStep
<1>9. QED
    BY <1>7, <1>8

\* A request ends: it is answered, fails, or is forgotten.
LEMMA EndStep ==
    ASSUME RegistersInv, NEW x \in Sessions,
           Done(x) \/ Abort(x) \/ DeadlockVictim(x)
    PROVE  RegistersInv'
<1> USE RegistersAssumption DEF tables, Goto
<1>1. \A y \in Sessions \ {x} : Still(y)
    BY DEF Done, Abort, DeadlockVictim, Still, RegistersInv, TypeOK
<1>2. CASE Done(x)
    <2>1. inserted[x] = {}
        BY <1>2 DEF Done, RegistersInv, Own, PlaceInv, InBatch, Answers
    <2>2. TypeOK'
        BY <1>2 DEF Done, RegistersInv, TypeOK, Places
    <2>3. Own(x)' /\ pc'[x] \notin Uploads /\ inserted' = inserted
        BY <1>2, <2>1 DEF Done, Own, Uploads, RegistersInv, TypeOK
    <2>4. QED
        BY <1>1, <1>2, <2>2, <2>3, QuietStep DEF Done
<1>3. CASE Abort(x) \/ DeadlockVictim(x)
    <2>1. /\ pc[x] # "idle" /\ pc' = [pc EXCEPT ![x] = "error"]
          /\ inserted' = [inserted EXCEPT ![x] = {}]
          /\ UNCHANGED <<job, seen, results, row, receipt, files, parts, jobs>>
          /\ aborts' \in 0..MaxAborts
        BY <1>3 DEF Abort, DeadlockVictim, Blocks, RegistersInv, TypeOK, Answers
    <2>2. TypeOK'
        BY <2>1 DEF RegistersInv, TypeOK, Places, Answers
    <2>3. pc'[x] = "error" /\ inserted'[x] = {}
        BY <2>1 DEF RegistersInv, TypeOK
    <2>4. Own(x)'
        <3>1. PlaceInv(x)'
            BY <2>1, <2>3 DEF PlaceInv, InBatch, Uploads, RegistersInv, Own
        <3>2. BatchInv(x)'
            BY <2>1, <2>3 DEF BatchInv, RegistersInv, Own, ReceiptFits
        <3>3. ChangeInv(x)'
            BY <2>3 DEF ChangeInv
        <3>4. QED
            BY <2>3, <3>1, <3>2, <3>3 DEF Own
    <2>5. QED
        BY <1>1, <2>1, <2>2, <2>3, <2>4, QuietStep DEF Uploads
<1>4. QED
    BY <1>2, <1>3

----------------------------------------------------------------------------
(* A batch.                                                                 *)

\* The entry the loop is at gets its result.
LEMMA ReportOwn ==
    ASSUME RegistersInv, NEW x \in Sessions, NEW status \in Statuses,
           pc[x] \in InBatch, Report(x, status),
           UNCHANGED <<row, receipt, files, parts, job, seen, jobs, aborts>>,
           inserted' \in [Sessions -> SUBSET Keys],
           inserted[x] \subseteq inserted'[x],
           \A k \in inserted'[x] \ inserted[x] : k = Current(x).key /\ status = "created",
           status # "failed" => Current(x).key \in Stored \cup inserted'[x],
           status = "created" => ReceiptFits(x, Current(x).receipt)
    PROVE  TypeOK' /\ Own(x)' /\ pc'[x] \notin Uploads
<1> DEFINE m == Len(results[x]) + 1
<1>1. /\ PlaceInv(x) /\ BatchInv(x) /\ job[x].op = "sync" /\ pc[x] # "idle"
      /\ results[x] \in Seq(Statuses) /\ Len(results[x]) \in Nat
    BY DEF RegistersInv, TypeOK, Own, PlaceInv, InBatch
<1>2. job[x] \in JobType /\ Len(job[x].batch) \in Nat /\ m <= Len(job[x].batch)
    <2>1. job[x] \in JobType
        BY <1>1, SomeEntry
    <2>2. Len(job[x].batch) \in Nat
        BY <2>1 DEF JobType
    <2>3. QED
        BY <1>1, <2>1, <2>2 DEF PlaceInv
<1>3. Current(x) = job[x].batch[m]
    BY <1>1 DEF Current
<1>4. /\ results' = [results EXCEPT ![x] = Append(results[x], status)]
      /\ results'[x] = Append(results[x], status)
      /\ pc' = [pc EXCEPT ![x] = IF m < Len(job[x].batch) THEN "lookup" ELSE "commit"]
      /\ pc'[x] = IF m < Len(job[x].batch) THEN "lookup" ELSE "commit"
    BY DEF Report, Goto, RegistersInv, TypeOK
<1>5. /\ results'[x] \in Seq(Statuses) /\ Len(results'[x]) = m
      /\ results'[x][m] = status
      /\ \A n \in 1..Len(results[x]) : results'[x][n] = results[x][n]
    BY <1>1, <1>4
<1>6. TypeOK'
    <2>1. results' \in [Sessions -> Seq(Statuses)]
        BY <1>4, <1>5 DEF RegistersInv, TypeOK
    <2>2. pc' \in [Sessions -> Places]
        BY <1>4 DEF RegistersInv, TypeOK, Places
    <2>3. \A y \in Sessions : pc'[y] # "idle" => Len(results'[y]) <= Len(job[y].batch)
        <3>1. ASSUME NEW y \in Sessions \ {x}
              PROVE  pc'[y] = pc[y] /\ results'[y] = results[y]
            BY <1>4 DEF RegistersInv, TypeOK
        <3>2. QED
            BY <1>2, <1>5, <3>1 DEF RegistersInv, TypeOK
    <2>4. QED
        BY <2>1, <2>2, <2>3 DEF RegistersInv, TypeOK
<1>7. PlaceInv(x)'
    BY <1>1, <1>2, <1>4, <1>5 DEF PlaceInv, InBatch, Uploads
<1>8. BatchInv(x)'
    <2>1. \A n \in 1..m : n = m \/ n \in 1..Len(results[x])
        BY <1>1
    <2>2. \A r : ReceiptFits(x, r)' <=> ReceiptFits(x, r)
        BY DEF ReceiptFits
    <2>3. Stored' = Stored
        BY DEF Stored
    <2>4. pc[x] # "error"
        BY DEF InBatch
    <2>5. \A n \in 1..m :
             /\ results'[x][n] # "failed" => job[x].batch[n].key \in Stored \cup inserted'[x]
             /\ results'[x][n] = "created" => ReceiptFits(x, job[x].batch[n].receipt)
        BY <1>1, <1>3, <1>5, <2>1, <2>4 DEF BatchInv
    <2>6. \A k \in inserted'[x] : \E n \in 1..m :
             job[x].batch[n].key = k /\ results'[x][n] = "created"
        <3>1. ASSUME NEW k \in inserted[x]
              PROVE  \E n \in 1..m : job[x].batch[n].key = k /\ results'[x][n] = "created"
            <4>1. PICK n \in 1..Len(results[x]) :
                    job[x].batch[n].key = k /\ results[x][n] = "created"
                BY <1>1 DEF BatchInv
            <4>2. QED
                BY <1>1, <1>5, <4>1
        <3>2. ASSUME NEW k \in inserted'[x] \ inserted[x]
              PROVE  \E n \in 1..m : job[x].batch[n].key = k /\ results'[x][n] = "created"
            BY <1>1, <1>3, <1>5
        <3>3. QED
            BY <3>1, <3>2
    <2>7. pc'[x] # "insert"
        BY <1>4
    <2>8. QED
        BY <1>5, <2>2, <2>3, <2>5, <2>6, <2>7 DEF BatchInv
<1>9. ChangeInv(x)'
    BY <1>1, <1>4 DEF ChangeInv
<1>10. QED
    BY <1>4, <1>6, <1>7, <1>8, <1>9 DEF Own, Uploads

LEMMA LookupStep ==
    ASSUME RegistersInv, NEW x \in Sessions, Lookup(x) \/ Validate(x)
    PROVE  RegistersInv'
<1> USE DEF tables
<1>1. /\ pc[x] \in InBatch
      /\ UNCHANGED <<row, receipt, files, parts, job, seen, inserted, jobs, aborts>>
    BY DEF Lookup, LookupExpense, LookupIncome, LookupEntry, LookupCustomer, Validate, InBatch
<1>2. inserted \in [Sessions -> SUBSET Keys] /\ PlaceInv(x) /\ BatchInv(x)
    BY <1>1 DEF RegistersInv, TypeOK, Own, InBatch
<1>3. \A y \in Sessions \ {x} : Still(y)
    BY <1>1 DEF Lookup, LookupExpense, LookupIncome, LookupEntry, LookupCustomer, Validate,
                Report, Goto, Still, RegistersInv, TypeOK
<1>4. ASSUME NEW status \in {"duplicate", "failed"}, Report(x, status),
             status = "duplicate" => Current(x).key \in Stored \cup inserted[x]
      PROVE  RegistersInv'
    <2>1. TypeOK' /\ Own(x)' /\ pc'[x] \notin Uploads
        BY <1>1, <1>2, <1>4, ReportOwn DEF Statuses
    <2>2. QED
        BY <1>1, <1>3, <2>1, QuietStep
<1>5. ASSUME NEW place \in {"validate", "insert"}, Goto(x, place), UNCHANGED results,
             place = "insert" => ReceiptFits(x, Current(x).receipt)
      PROVE  RegistersInv'
    <2>1. pc'[x] = place /\ pc[x] # "idle" /\ pc[x] # "error"
        BY <1>1, <1>5 DEF Goto, RegistersInv, TypeOK, InBatch
    <2>2. TypeOK'
        <3>1. pc' \in [Sessions -> Places]
            BY <1>5 DEF Goto, RegistersInv, TypeOK, Places
        <3>2. \A y \in Sessions : pc'[y] # "idle" => pc[y] # "idle"
            BY <1>3, <2>1 DEF Still
        <3>3. QED
            BY <1>1, <1>5, <3>1, <3>2 DEF RegistersInv, TypeOK
    <2>3. PlaceInv(x)'
        BY <1>1, <1>2, <1>5, <2>1 DEF PlaceInv, InBatch, Uploads
    <2>4. BatchInv(x)'
        BY <1>1, <1>2, <1>5, <2>1 DEF BatchInv, ReceiptFits, Stored, Current
    <2>5. ChangeInv(x)' /\ pc'[x] \notin Uploads /\ pc'[x] \notin {"idle", "record"}
        BY <2>1 DEF ChangeInv, Uploads
    <2>6. QED
        BY <1>1, <1>3, <2>2, <2>3, <2>4, <2>5, QuietStep DEF Own
<1>6. CASE LookupExpense(x) \/ LookupIncome(x)
    BY <1>4, <1>5, <1>6 DEF LookupExpense, LookupIncome, LookupEntry, Found
<1>7. CASE LookupCustomer(x)
    <2>1. Current(x) \in Entry /\ Current(x).key \in Customers
        BY <1>1, <1>7, SomeEntry DEF LookupCustomer, InBatch
    <2>2. Current(x).receipt = NoReceipt
        <3>1. Current(x) = job[x].batch[Len(results[x]) + 1] /\ job[x] \in Jobs
            BY <1>1, <1>2 DEF Current, PlaceInv
        <3>2. Len(results[x]) + 1 \in 1..Len(job[x].batch)
            <4>1. Len(results[x]) \in Nat
                BY DEF RegistersInv, TypeOK
            <4>2. Len(job[x].batch) \in Nat
                BY <1>1, SomeEntry DEF JobType, InBatch
            <4>3. QED
                BY <1>1, <1>2, <4>1, <4>2 DEF PlaceInv
        <3>3. QED
            BY <2>1, <3>1, <3>2, RegistersAssumption
    <2>3. Found(x, Current(x).key) => Current(x).key \in Stored \cup inserted[x]
        BY DEF Found
    <2>4. QED
        BY <1>4, <1>5, <1>7, <2>2, <2>3 DEF LookupCustomer, ReceiptFits
<1>8. CASE Validate(x)
    BY <1>4, <1>5, <1>8 DEF Validate
<1>9. QED
    BY <1>6, <1>7, <1>8 DEF Lookup

LEMMA InsertStep ==
    ASSUME RegistersInv, NEW x \in Sessions, Insert(x)
    PROVE  RegistersInv'
<1> USE DEF tables
<1>1. /\ pc[x] = "insert" /\ pc[x] \in InBatch
      /\ UNCHANGED <<row, receipt, files, parts, job, seen, jobs, aborts>>
      /\ inserted \in [Sessions -> SUBSET Keys]
    BY DEF Insert, InBatch, RegistersInv, TypeOK
<1>2. /\ PlaceInv(x) /\ BatchInv(x) /\ Current(x) \in Entry
      /\ ReceiptFits(x, Current(x).receipt)
    BY <1>1, SomeEntry DEF RegistersInv, Own, BatchInv
<1>3. \A y \in Sessions \ {x} : Still(y)
    BY <1>1 DEF Insert, Report, Goto, Still, RegistersInv, TypeOK
<1>4. CASE Clash(Current(x).key)
    <2>1. TypeOK' /\ Own(x)' /\ pc'[x] \notin Uploads
        BY <1>1, <1>4, ReportOwn DEF Insert, Clash, Statuses
    <2>2. QED
        BY <1>1, <1>3, <1>4, <2>1, QuietStep DEF Insert
<1>5. CASE ~Clash(Current(x).key)
    <2>1. /\ inserted' = [inserted EXCEPT ![x] = @ \cup {Current(x).key}]
          /\ Report(x, "created")
        BY <1>5 DEF Insert
    <2>2. /\ inserted' \in [Sessions -> SUBSET Keys]
          /\ inserted'[x] = inserted[x] \cup {Current(x).key}
        BY <1>1, <1>2, <2>1 DEF Entry
    <2>3. TypeOK' /\ Own(x)' /\ pc'[x] \notin Uploads
        BY <1>1, <1>2, <2>1, <2>2, ReportOwn DEF Statuses
    <2>4. row[Current(x).key] = NoRow /\ \A y \in Sessions \ {x} : Current(x).key \notin inserted[y]
        BY <1>1, <1>2, <1>5 DEF Clash, Stored, Entry, Insert, Blocks
    <2>5. \A y \in Sessions \ {x} :
            pc'[y] = pc[y] /\ inserted'[y] = inserted[y] /\ Current(y)' = Current(y)
        BY <1>3 DEF Still, Current
    <2>6. ExclusiveInv'
        BY <1>1, <2>2, <2>3, <2>4, <2>5 DEF RegistersInv, ExclusiveInv
    <2>7. ReceiptInv' /\ Grows
        BY <1>1 DEF RegistersInv, ReceiptInv, RecordedHasFile, Stored, Grows
    <2>8. QED
        BY <1>3, <2>3, <2>6, <2>7, BusyStep
<1>6. QED
    BY <1>4, <1>5

\* The rows of a batch are where nobody else has one, each from an entry whose
\* receipt fits.
LEMMA CommitBatchStep ==
    ASSUME RegistersInv, NEW x \in Sessions, CommitBatch(x)
    PROVE  RegistersInv' /\ Grows
<1> USE DEF tables
<1>1. /\ pc[x] = "commit" /\ job[x].op = "sync" /\ pc' = [pc EXCEPT ![x] = "ok"]
      /\ row' = [k \in Keys |-> IF k \in inserted[x] THEN NewRow(x, k) ELSE row[k]]
      /\ inserted' = [inserted EXCEPT ![x] = {}]
      /\ UNCHANGED <<receipt, files, parts, job, seen, results, jobs, aborts>>
    BY DEF CommitBatch, Goto
<1>2. pc'[x] = "ok" /\ inserted'[x] = {} /\ inserted[x] \subseteq Keys
    BY <1>1 DEF RegistersInv, TypeOK
<1>3. \A y \in Sessions \ {x} : Still(y) /\ pc'[y] = pc[y] /\ inserted'[y] = inserted[y]
    BY <1>1 DEF Still, RegistersInv, TypeOK
<1>4. PlaceInv(x) /\ BatchInv(x) /\ job[x] \in JobType
    BY <1>1, SomeEntry DEF RegistersInv, Own
<1>5. ASSUME NEW k \in inserted[x]
      PROVE  /\ row'[k] \in Row /\ row'[k].business = job[x].business
             /\ ReceiptFits(x, row'[k].receipt)
    <2>1. \E n \in 1..Len(results[x]) : job[x].batch[n].key = k /\ results[x][n] = "created"
        BY <1>4 DEF BatchInv
    <2>2. PICK n \in 1..Len(results[x]) :
            /\ job[x].batch[n].key = k /\ results[x][n] = "created"
            /\ NewRow(x, k) = [business |-> job[x].business, value |-> job[x].batch[n].value,
                               deleted |-> FALSE, receipt |-> job[x].batch[n].receipt]
        BY <2>1 DEF NewRow
    <2>3. n \in 1..Len(job[x].batch)
        <3>1. Len(results[x]) \in Nat /\ Len(results[x]) <= Len(job[x].batch)
            BY <1>1 DEF RegistersInv, TypeOK
        <3>2. Len(job[x].batch) \in Nat
            BY <1>4 DEF JobType
        <3>3. QED
            BY <3>1, <3>2
    <2>4. job[x].batch[n] \in Entry
        BY <1>1, <2>3, SomeEntry
    <2>5. row'[k] = NewRow(x, k)
        BY <1>1, <1>2
    <2>6. ReceiptFits(x, job[x].batch[n].receipt)
        BY <1>4, <2>2 DEF BatchInv
    <2>7. QED
        BY <1>4, <2>2, <2>4, <2>5, <2>6 DEF Entry, JobType, Row
<1>6. \A k \in Keys \ inserted[x] : row'[k] = row[k]
    BY <1>1
<1>7. TypeOK'
    <2>1. row' \in [Keys -> Row \cup {NoRow}]
        BY <1>1, <1>5 DEF RegistersInv, TypeOK
    <2>2. pc' \in [Sessions -> Places] /\ inserted' \in [Sessions -> SUBSET Keys]
        BY <1>1 DEF RegistersInv, TypeOK, Places, Answers
    <2>3. \A y \in Sessions : pc'[y] # "idle" => pc[y] # "idle"
        BY <1>1, <1>3
    <2>4. QED
        BY <1>1, <2>1, <2>2, <2>3 DEF RegistersInv, TypeOK
<1>8. \A k \in inserted[x] : row[k] = NoRow /\ \A y \in Sessions \ {x} : k \notin inserted[y]
    BY DEF RegistersInv, ExclusiveInv
<1>9. Grows /\ Stored' = Stored \cup inserted[x]
    <2>1. \A k \in inserted[x] : row'[k] # NoRow
        BY <1>5, RegistersAssumption
    <2>2. QED
        BY <1>1, <1>2, <1>6, <1>8, <2>1 DEF Grows, Stored
<1>10. ExclusiveInv'
    <2>1. \A y \in Sessions : Current(y)' = Current(y)
        BY <1>1 DEF Current
    <2>2. \A y \in Sessions : pc'[y] \in Uploads => pc[y] \in Uploads
        BY <1>2, <1>3 DEF Uploads
    <2>3. \A y \in Sessions \ {x} : \A k \in inserted[y] : k \in Keys /\ k \notin inserted[x]
        BY <1>8 DEF RegistersInv, TypeOK
    <2>4. QED
        BY <1>1, <1>2, <1>3, <1>6, <2>1, <2>2, <2>3 DEF RegistersInv, ExclusiveInv
<1>11. ReceiptInv'
    <2>1. ASSUME NEW k \in Stored', row'[k].receipt # NoReceipt
          PROVE  receipt[row'[k].receipt] = row'[k].business
        BY <1>5, <1>6, <1>9, <2>1 DEF RegistersInv, ReceiptInv, ReceiptFits, Stored
    <2>2. QED
        BY <1>1, <2>1 DEF RegistersInv, ReceiptInv, RecordedHasFile
<1>12. Own(x)'
    <2>1. PlaceInv(x)' /\ ChangeInv(x)'
        BY <1>1, <1>2, <1>4 DEF PlaceInv, ChangeInv, InBatch, Uploads
    <2>2. BatchInv(x)'
        BY <1>1, <1>2, <1>4, <1>9 DEF BatchInv, ReceiptFits
    <2>3. QED
        BY <1>2, <2>1, <2>2 DEF Own
<1>13. QED
    BY <1>3, <1>7, <1>9, <1>10, <1>11, <1>12, BusyStep
----------------------------------------------------------------------------
(* Updates and soft deletes.                                                *)

LEMMA LoadStep ==
    ASSUME RegistersInv, NEW x \in Sessions, Load(x)
    PROVE  RegistersInv'
<1> USE DEF tables
<1> DEFINE k == Current(x).key
<1>1. /\ pc[x] = "load" /\ pc[x] # "idle"
      /\ UNCHANGED <<row, receipt, files, parts, job, results, inserted, jobs, aborts>>
      /\ seen' = [seen EXCEPT ![x] = row[k]]
    BY DEF Load, UpdateExpense, UpdateIncome, UpdateCustomer, LoadForUpdate,
           DeleteExpense, DeleteIncome, DeleteCustomer, LoadForDelete
<1>2. PlaceInv(x) /\ BatchInv(x) /\ inserted[x] = {}
    BY <1>1 DEF RegistersInv, Own, PlaceInv, InBatch
<1>3. Current(x) \in Entry /\ job[x] \in Jobs /\ job[x].op \in {"update", "delete"}
    BY <1>1, <1>2, SomeEntry DEF PlaceInv
<1>4. PICK place \in {"refused", "flush", "check", "ok"} :
        /\ pc' = [pc EXCEPT ![x] = place]
        /\ place \in {"flush", "check"} => Mine(x, k)
        /\ place = "check" => job[x].op = "update"
        /\ place = "flush" /\ job[x].op = "update" => k \in Customers
    BY <1>3 DEF Load, UpdateExpense, UpdateIncome, UpdateCustomer, LoadForUpdate, Updatable,
           DeleteExpense, DeleteIncome, DeleteCustomer, LoadForDelete, Goto
<1>5. pc'[x] = place /\ place \notin Uploads
    BY <1>4 DEF RegistersInv, TypeOK, Uploads
<1>6. \A y \in Sessions \ {x} : Still(y)
    BY <1>1, <1>4 DEF Still, RegistersInv, TypeOK
<1>7. TypeOK'
    <2>1. seen' \in [Sessions -> Row \cup {NoRow}]
        BY <1>1, <1>3 DEF RegistersInv, TypeOK, Entry
    <2>2. pc' \in [Sessions -> Places]
        BY <1>4 DEF RegistersInv, TypeOK, Places, Answers
    <2>3. \A y \in Sessions : pc'[y] # "idle" => pc[y] # "idle"
        BY <1>1, <1>6 DEF Still
    <2>4. QED
        BY <1>1, <2>1, <2>2, <2>3 DEF RegistersInv, TypeOK
<1>8. Current(x)' = Current(x) /\ Current(x) = job[x].batch[1]
    BY <1>1, <1>3 DEF Current
<1>9. job[x].op = "update" /\ place = "flush" => Current(x).receipt = NoReceipt
    <2>1. 1 \in 1..Len(job[x].batch)
        BY <1>3, RegistersAssumption DEF JobType
    <2>2. QED
        BY <1>3, <1>4, <1>8, <2>1, RegistersAssumption
<1>10. PlaceInv(x)'
    BY <1>1, <1>2, <1>3, <1>4, <1>5 DEF PlaceInv, InBatch
<1>11. BatchInv(x)'
    BY <1>1, <1>2, <1>5 DEF BatchInv, Stored, ReceiptFits
<1>12. ChangeInv(x)'
    BY <1>1, <1>4, <1>5, <1>8, <1>9 DEF ChangeInv, Mine, ReceiptFits
<1>13. QED
    BY <1>1, <1>5, <1>6, <1>7, <1>10, <1>11, <1>12, QuietStep DEF Own

LEMMA CheckStep ==
    ASSUME RegistersInv, NEW x \in Sessions, CheckReceipt(x) \/ Flush(x)
    PROVE  RegistersInv'
<1> USE DEF tables, own
<1>1. PICK place \in {"flush", "commit", "refused"} :
        /\ pc' = [pc EXCEPT ![x] = place]
        /\ pc[x] = "check" /\ place = "flush" =>
              Current(x).receipt = seen[x].receipt \/ ReceiptFits(x, Current(x).receipt)
        /\ pc[x] = "check" => place \in {"flush", "refused"}
        /\ pc[x] = "flush" => place = "commit"
    BY DEF CheckReceipt, Flush, Goto
<1>2. /\ pc[x] \in {"check", "flush"}
      /\ UNCHANGED <<row, receipt, files, parts, job, seen, results, inserted, jobs, aborts>>
    BY DEF CheckReceipt, Flush
<1>3. PlaceInv(x) /\ BatchInv(x) /\ ChangeInv(x)
    BY <1>2 DEF RegistersInv, Own
<1>4. pc'[x] = place /\ \A y \in Sessions \ {x} : Still(y)
    BY <1>1, <1>2 DEF Still, RegistersInv, TypeOK
<1>5. TypeOK'
    <2>1. pc' \in [Sessions -> Places]
        BY <1>1 DEF RegistersInv, TypeOK, Places, Answers
    <2>2. \A y \in Sessions : pc'[y] # "idle" => pc[y] # "idle"
        BY <1>2, <1>4 DEF Still
    <2>3. QED
        BY <1>2, <2>1, <2>2 DEF RegistersInv, TypeOK
<1>6. PlaceInv(x)'
    BY <1>1, <1>2, <1>3, <1>4 DEF PlaceInv, InBatch, Uploads
<1>7. BatchInv(x)'
    BY <1>2, <1>3, <1>4 DEF BatchInv, Stored, ReceiptFits
<1>8. ChangeInv(x)'
    BY <1>1, <1>2, <1>3, <1>4 DEF ChangeInv, PlaceInv, Mine, ReceiptFits, Current
<1>9. QED
    BY <1>2, <1>4, <1>5, <1>6, <1>7, <1>8, QuietStep DEF Own, Uploads

\* An update writes the columns that changed, a delete only the mark.
LEMMA CommitChangeStep ==
    ASSUME RegistersInv, NEW x \in Sessions, CommitChange(x)
    PROVE  RegistersInv' /\ Grows
<1> USE DEF tables, own
<1> DEFINE k == Current(x).key
           e == Current(x)
<1>1. /\ pc[x] = "commit" /\ job[x].op \in {"update", "delete"}
      /\ row' = [row EXCEPT ![k] = IF job[x].op = "update" THEN Edited(x)
                                    ELSE [row[k] EXCEPT !.deleted = TRUE]]
      /\ pc' = [pc EXCEPT ![x] = "ok"]
      /\ UNCHANGED <<receipt, files, parts, job, seen, results, inserted, jobs, aborts>>
    BY DEF CommitChange, Goto
<1>2. PlaceInv(x) /\ BatchInv(x) /\ ChangeInv(x) /\ e \in Entry /\ job[x] \in JobType
    BY <1>1, SomeEntry DEF RegistersInv, Own
<1>3. /\ k \in Keys /\ row[k] \in Row /\ row[k].business = job[x].business
      /\ k \in Stored /\ inserted[x] = {}
    <2>1. Mine(x, k)
        BY <1>1, <1>2 DEF ChangeInv
    <2>2. QED
        BY <1>1, <1>2, <2>1 DEF Mine, Entry, Stored, RegistersInv, TypeOK, PlaceInv
<1>4. \/ e.receipt \in {NoReceipt, seen[x].receipt}
      \/ receipt[e.receipt] = job[x].business
      \/ job[x].op = "delete"
    BY <1>1, <1>2 DEF ChangeInv, ReceiptFits
<1>5. /\ row'[k] \in Row /\ row'[k].business = row[k].business
      /\ row[k].deleted => row'[k].deleted
      /\ row'[k].receipt # row[k].receipt => receipt[row'[k].receipt] = row[k].business
    <2>1. CASE job[x].op = "update"
        <3>1. row'[k] = [row[k] EXCEPT
                  !.value = IF e.value = seen[x].value THEN row[k].value ELSE e.value,
                  !.receipt = IF e.receipt \notin {NoReceipt, seen[x].receipt}
                              THEN e.receipt ELSE row[k].receipt]
            BY <1>1, <1>3, <2>1 DEF Edited, RegistersInv, TypeOK
        <3>2. QED
            BY <1>2, <1>3, <1>4, <2>1, <3>1 DEF Row, Entry
    <2>2. CASE job[x].op = "delete"
        <3>1. row'[k] = [row[k] EXCEPT !.deleted = TRUE]
            BY <1>1, <1>3, <2>2 DEF RegistersInv, TypeOK
        <3>2. QED
            BY <1>3, <3>1 DEF Row
    <2>3. QED
        BY <1>1, <2>1, <2>2
<1>6. \A j \in Keys \ {k} : row'[j] = row[j]
    BY <1>1 DEF RegistersInv, TypeOK
<1>7. Stored' = Stored /\ Grows
    <2>1. row'[k] # NoRow
        BY <1>5, RegistersAssumption
    <2>2. QED
        BY <1>1, <1>3, <1>5, <1>6, <2>1 DEF Stored, Grows
<1>8. pc'[x] = "ok" /\ \A y \in Sessions \ {x} : Still(y)
    BY <1>1 DEF Still, RegistersInv, TypeOK
<1>9. TypeOK'
    <2>1. row' \in [Keys -> Row \cup {NoRow}]
        BY <1>1, <1>5, <1>6 DEF RegistersInv, TypeOK
    <2>2. pc' \in [Sessions -> Places]
        BY <1>1 DEF RegistersInv, TypeOK, Places, Answers
    <2>3. \A y \in Sessions : pc'[y] # "idle" => pc[y] # "idle"
        BY <1>1, <1>8 DEF Still
    <2>4. QED
        BY <1>1, <2>1, <2>2, <2>3 DEF RegistersInv, TypeOK
<1>10. ReceiptInv'
    <2>1. ASSUME NEW j \in Stored, row'[j].receipt # NoReceipt
          PROVE  receipt[row'[j].receipt] = row'[j].business
        BY <1>3, <1>5, <1>6, <2>1 DEF RegistersInv, ReceiptInv, Stored
    <2>2. QED
        BY <1>1, <1>7, <2>1 DEF RegistersInv, ReceiptInv, RecordedHasFile
<1>11. ExclusiveInv'
    <2>1. \A y \in Sessions : Current(y)' = Current(y)
        BY <1>1 DEF Current
    <2>2. \A y \in Sessions : pc'[y] \in Uploads => pc[y] \in Uploads
        BY <1>8 DEF Uploads, Still
    <2>3. \A y \in Sessions : \A j \in inserted[y] : row'[j] = NoRow
        BY <1>3, <1>6 DEF RegistersInv, ExclusiveInv, TypeOK, Stored
    <2>4. QED
        BY <1>1, <2>1, <2>2, <2>3 DEF RegistersInv, ExclusiveInv
<1>12. Own(x)'
    <2>1. PlaceInv(x)' /\ ChangeInv(x)'
        BY <1>1, <1>2, <1>3, <1>8 DEF PlaceInv, ChangeInv, InBatch, Uploads
    <2>2. BatchInv(x)'
        BY <1>1, <1>2, <1>7, <1>8 DEF BatchInv, ReceiptFits
    <2>3. QED
        BY <1>8, <2>1, <2>2 DEF Own
<1>13. QED
    BY <1>7, <1>8, <1>9, <1>10, <1>11, <1>12, BusyStep
----------------------------------------------------------------------------
(* Receipt files.                                                           *)

LEMMA UploadStep ==
    ASSUME RegistersInv, NEW x \in Sessions, SaveReceipt(x) \/ SniffReceipt(x)
    PROVE  RegistersInv'
<1> USE DEF own
<1>1. /\ pc[x] \in {"save", "sniff"}
      /\ UNCHANGED <<row, receipt, job, seen, results, inserted, jobs, aborts>>
      /\ files \subseteq files'
    BY DEF SaveReceipt, SniffReceipt
<1>2. PICK place \in {"sniff", "refused", "record"} :
        /\ pc' = [pc EXCEPT ![x] = place]
        /\ place = "record" => files' = files \cup {Current(x).receipt}
    BY DEF SaveReceipt, SniffReceipt, Goto
<1>3. PlaceInv(x) /\ BatchInv(x) /\ job[x].op = "upload"
    BY <1>1 DEF RegistersInv, Own, PlaceInv, Uploads
<1>4. Current(x) = job[x].batch[1] /\ Current(x)' = Current(x)
    BY <1>1, <1>3 DEF Current
<1>5. Current(x).receipt \in Receipts
    BY <1>3, <1>4, RegistersAssumption DEF PlaceInv
<1>6. pc'[x] = place /\ \A y \in Sessions \ {x} : Still(y)
    BY <1>1, <1>2 DEF Still, RegistersInv, TypeOK
<1>7. TypeOK'
    <2>1. files' \subseteq Receipts /\ parts' \subseteq Receipts
        BY <1>5 DEF SaveReceipt, SniffReceipt, RegistersInv, TypeOK
    <2>2. pc' \in [Sessions -> Places]
        BY <1>2 DEF RegistersInv, TypeOK, Places, Answers
    <2>3. \A y \in Sessions : pc'[y] # "idle" => pc[y] # "idle"
        BY <1>1, <1>6 DEF Still
    <2>4. QED
        BY <1>1, <2>1, <2>2, <2>3 DEF RegistersInv, TypeOK
<1>8. PlaceInv(x)'
    BY <1>1, <1>3, <1>6 DEF PlaceInv, InBatch, Uploads
<1>9. BatchInv(x)' /\ ChangeInv(x)'
    BY <1>1, <1>3, <1>6 DEF BatchInv, ChangeInv, Stored, ReceiptFits
<1>10. pc'[x] = "record" => Current(x)'.receipt \in files'
    BY <1>2, <1>4, <1>6
<1>11. Own(x)'
    BY <1>6, <1>8, <1>9, <1>10 DEF Own
<1>12. QED
    BY <1>1, <1>6, <1>7, <1>11, QuietStep DEF Uploads

\* The row of a receipt is written after its file, under an id of its own.
LEMMA RecordStep ==
    ASSUME RegistersInv, NEW x \in Sessions, RecordReceipt(x)
    PROVE  RegistersInv'
<1> USE DEF own
<1> DEFINE r == Current(x).receipt
<1>1. /\ pc[x] = "record" /\ pc' = [pc EXCEPT ![x] = "ok"]
      /\ receipt' = [receipt EXCEPT ![r] = job[x].business]
      /\ UNCHANGED <<row, files, parts, job, seen, results, inserted, jobs, aborts>>
    BY DEF RecordReceipt, Goto
<1>2. PlaceInv(x) /\ BatchInv(x) /\ job[x] \in JobType /\ r \in files
    BY <1>1, SomeEntry DEF RegistersInv, Own
<1>3. /\ receipt[r] = NoRow /\ r \in Receipts
      /\ \A y \in Sessions \ {x} : pc[y] \in Uploads => Current(y).receipt # r
    BY <1>1, <1>2 DEF RegistersInv, ExclusiveInv, Uploads, TypeOK
<1>4. pc'[x] = "ok" /\ \A y \in Sessions \ {x} : Still(y)
    BY <1>1 DEF Still, RegistersInv, TypeOK
<1>5. /\ \A q \in Receipts \ {r} : receipt'[q] = receipt[q]
      /\ receipt'[r] \in Businesses
    BY <1>1, <1>2, <1>3 DEF RegistersInv, TypeOK, JobType
<1>6. Grows /\ Stored' = Stored
    BY <1>1, <1>3, <1>5 DEF Grows, Stored
<1>7. TypeOK'
    <2>1. receipt' \in [Receipts -> Businesses \cup {NoRow}]
        BY <1>1, <1>2 DEF RegistersInv, TypeOK, JobType
    <2>2. pc' \in [Sessions -> Places]
        BY <1>1 DEF RegistersInv, TypeOK, Places, Answers
    <2>3. \A y \in Sessions : pc'[y] # "idle" => pc[y] # "idle"
        BY <1>1, <1>4 DEF Still
    <2>4. QED
        BY <1>1, <2>1, <2>2, <2>3 DEF RegistersInv, TypeOK
<1>8. ReceiptInv'
    <2>1. RecordedHasFile'
        BY <1>1, <1>2, <1>5 DEF RegistersInv, ReceiptInv, RecordedHasFile
    <2>2. ASSUME NEW k \in Stored, row[k].receipt # NoReceipt
          PROVE  receipt'[row[k].receipt] = row[k].business
        <3>1. row[k] \in Row /\ receipt[row[k].receipt] = row[k].business
            BY <2>2 DEF RegistersInv, ReceiptInv, TypeOK, Stored
        <3>2. row[k].receipt \in Receipts /\ row[k].receipt # r
            BY <1>3, <2>2, <3>1, RegistersAssumption DEF Row
        <3>3. QED
            BY <1>5, <3>1, <3>2
    <2>3. QED
        BY <1>1, <1>6, <2>1, <2>2 DEF ReceiptInv
<1>9. ExclusiveInv'
    <2>1. \A y \in Sessions : Current(y)' = Current(y)
        BY <1>1 DEF Current
    <2>2. \A y \in Sessions : pc'[y] \in Uploads => pc[y] \in Uploads /\ y # x
        BY <1>4 DEF Uploads, Still
    <2>3. \A y \in Sessions : pc[y] \in Uploads /\ y # x =>
             receipt'[Current(y).receipt] = receipt[Current(y).receipt]
        BY <1>1, <1>3 DEF RegistersInv, TypeOK
    <2>4. QED
        BY <1>1, <2>1, <2>2, <2>3 DEF RegistersInv, ExclusiveInv
<1>10. Own(x)'
    <2>1. PlaceInv(x)' /\ ChangeInv(x)'
        BY <1>1, <1>2, <1>4 DEF PlaceInv, ChangeInv, InBatch, Uploads
    <2>2. BatchInv(x)'
        BY <1>1, <1>2, <1>3, <1>4, <1>6, RegistersAssumption DEF BatchInv, ReceiptFits, JobType
    <2>3. QED
        BY <1>4, <2>1, <2>2 DEF Own
<1>11. QED
    BY <1>4, <1>6, <1>7, <1>8, <1>9, <1>10, BusyStep

----------------------------------------------------------------------------
(* Theorems.                                                                *)

LEMMA RegistersStep == RegistersInv /\ [Next]_vars => RegistersInv'
<1> SUFFICES ASSUME RegistersInv, [Next]_vars PROVE RegistersInv'
    OBVIOUS
<1>1. ASSUME NEW x \in Sessions, Step(x) PROVE RegistersInv'
    BY <1>1, EndStep, LookupStep, InsertStep, CommitBatchStep, LoadStep, CheckStep,
       CommitChangeStep, UploadStep, RecordStep DEF Step
<1>2. ASSUME NEW x \in Sessions, Abort(x) \/ Done(x) \/ \E j \in Jobs : Arrive(x, j)
      PROVE  RegistersInv'
    BY <1>2, EndStep, ArriveStep
<1>3. CASE UNCHANGED vars
    <2>1. TypeOK' /\ ReceiptInv' /\ ExclusiveInv'
        BY <1>3 DEF vars, tables, own, RegistersInv, TypeOK, ReceiptInv, RecordedHasFile,
                    Stored, ExclusiveInv, Current
    <2>2. Grows /\ \A y \in Sessions : Still(y)
        BY <1>3 DEF vars, tables, own, Grows, Stored, Still
    <2>3. QED
        BY <2>1, <2>2, OthersKeep DEF RegistersInv
<1>4. QED
    BY <1>1, <1>2, <1>3 DEF Next, Rest

\* The invariant holds of the batch, update, delete and upload endpoints of
\* expenses, incomes and customers, however their requests race or fail.
THEOREM RegistersInvariant == Spec => []RegistersInv
<1>1. QED
    BY RegistersInit, RegistersStep, PTL DEF Spec

\* A terminal that is told "created" or "duplicate" may mark its row as synced
\* (sync_expense_batch, sync_income_batch, sync_customer_batch).
THEOREM AcknowledgedRowsAreStored == Spec => []AcknowledgedIsStored
<1>1. RegistersInv => AcknowledgedIsStored
    BY DEF RegistersInv, Own, PlaceInv, BatchInv, InBatch, AcknowledgedIsStored, Answered
<1>2. QED
    BY <1>1, RegistersInvariant, PTL

\* An expense's or income's receipt can be downloaded by its business alone
\* (_validate_attachment_ownership, download_finance_attachment).
THEOREM ReceiptsAreReadable == Spec => []ReceiptsReadable
<1>1. ASSUME RegistersInv, NEW k \in Stored, row[k].receipt # NoReceipt, NEW b \in Businesses
      PROVE  CanDownload(b, row[k].receipt) <=> b = row[k].business
    <2>1. row[k] \in Row
        BY <1>1 DEF RegistersInv, TypeOK, Stored
    <2>2. row[k].receipt \in Receipts /\ row[k].business \in Businesses
        BY <1>1, <2>1 DEF Row
    <2>3. receipt[row[k].receipt] = row[k].business
        BY <1>1 DEF RegistersInv, ReceiptInv
    <2>4. row[k].receipt \in files
        BY <1>1, <2>2, <2>3, RegistersAssumption DEF RegistersInv, ReceiptInv, RecordedHasFile
    <2>5. QED
        BY <2>3, <2>4 DEF CanDownload
<1>2. RegistersInv => ReceiptsReadable
    BY <1>1 DEF ReceiptsReadable
<1>3. QED
    BY <1>2, RegistersInvariant, PTL

LEMMA KeptStep ==
    ASSUME RegistersInv, [Next]_vars
    PROVE  \A k \in Stored :
              /\ k \in Stored' /\ row'[k].business = row[k].business
              /\ row[k].deleted => row'[k].deleted
<1>1. CASE UNCHANGED row
    BY <1>1 DEF Stored
<1>2. ASSUME NEW x \in Sessions, CommitBatch(x) \/ CommitChange(x) PROVE Grows
    BY <1>2, CommitBatchStep, CommitChangeStep
<1>3. \/ UNCHANGED row
      \/ \E x \in Sessions : CommitBatch(x) \/ CommitChange(x)
    <2>1. ASSUME NEW x \in Sessions, Step(x)
          PROVE  UNCHANGED row \/ CommitBatch(x) \/ CommitChange(x)
        BY <2>1 DEF Step, Lookup, Validate, Insert, DeadlockVictim, Load, CheckReceipt, Flush,
                    SaveReceipt, SniffReceipt, RecordReceipt, tables
    <2>2. ASSUME NEW x \in Sessions, Abort(x) \/ Done(x) \/ \E j \in Jobs : Arrive(x, j)
          PROVE  UNCHANGED row
        BY <2>2 DEF Abort, Done, Arrive, tables
    <2>3. QED
        BY <2>1, <2>2 DEF Next, Rest, vars, tables
<1>4. QED
    BY <1>1, <1>2, <1>3 DEF Grows

\* A row keeps its business and a deletion is final (the primary key of
\* customers, soft_delete_customer, delete_expense, delete_income).
THEOREM RowsStayTheirs == Spec => RowsAreKept
<1>1. RegistersInv /\ [Next]_vars =>
        [\A k \in Stored :
            /\ k \in Stored' /\ row'[k].business = row[k].business
            /\ row[k].deleted => row'[k].deleted]_vars
    BY KeptStep
<1>2. QED
    BY <1>1, RegistersInvariant, PTL DEF Spec, RowsAreKept
----------------------------------------------------------------------------
(* Temporary files.  A file nobody is checking was left by a failure: the      *)
(* invariant counts them against the failures there have been.                *)

Litter == {r \in parts : \A x \in Sessions : pc[x] = "sniff" => Current(x).receipt # r}

LitterInv == IsFiniteSet(Litter) /\ Cardinality(Litter) <= aborts

\* No litter is made by a step after which every new temporary file is being
\* checked, and every file that was being checked still is, or is gone.
LEMMA LitterShrinks ==
    ASSUME \A r \in parts' \ parts : \E x \in Sessions :
              pc'[x] = "sniff" /\ Current(x)'.receipt = r,
           \A x \in Sessions : pc[x] = "sniff" =>
              \/ pc'[x] = "sniff" /\ Current(x)' = Current(x)
              \/ Current(x).receipt \notin parts'
    PROVE  Litter' \subseteq Litter
BY DEF Litter

\* A failure leaves at most the file that its request was checking.
LEMMA AbortLitters ==
    ASSUME RegistersInv, NEW x \in Sessions, Abort(x)
    PROVE  /\ aborts' = aborts + 1
           /\ Litter' \subseteq Litter \cup {Current(x).receipt}
<1>1. /\ UNCHANGED <<parts, job, results>> /\ aborts' = aborts + 1
      /\ \A y \in Sessions \ {x} : pc'[y] = pc[y]
    BY DEF Abort, tables, Goto, RegistersInv, TypeOK
<1>2. \A y \in Sessions : Current(y)' = Current(y)
    BY <1>1 DEF Current
<1>3. QED
    BY <1>1, <1>2 DEF Litter

\* The steps of the upload itself.
LEMMA UploadLitters ==
    ASSUME RegistersInv, NEW x \in Sessions,
           SaveReceipt(x) \/ SniffReceipt(x) \/ RecordReceipt(x)
    PROVE  Litter' \subseteq Litter /\ aborts' = aborts
<1>1. /\ UNCHANGED <<job, results, aborts>>
      /\ \A y \in Sessions \ {x} : pc'[y] = pc[y]
    BY DEF SaveReceipt, SniffReceipt, RecordReceipt, own, Goto, RegistersInv, TypeOK
<1>2. \A y \in Sessions : Current(y)' = Current(y)
    BY <1>1 DEF Current
<1>3. CASE SaveReceipt(x)
    <2>1. pc[x] = "save" /\ pc'[x] = "sniff" /\ parts' = parts \cup {Current(x).receipt}
        BY <1>3 DEF SaveReceipt, Goto, RegistersInv, TypeOK
    <2>2. QED
        BY <1>1, <1>2, <2>1 DEF Litter
<1>4. CASE SniffReceipt(x)
    <2>1. pc[x] = "sniff" /\ parts' = parts \ {Current(x).receipt}
        BY <1>4 DEF SniffReceipt
    <2>2. QED
        BY <1>1, <1>2, <2>1 DEF Litter
<1>5. CASE RecordReceipt(x)
    <2>1. pc[x] = "record" /\ parts' = parts
        BY <1>5 DEF RecordReceipt
    <2>2. QED
        BY <1>1, <1>2, <2>1 DEF Litter
<1>6. QED
    BY <1>1, <1>3, <1>4, <1>5

\* Every other step leaves the temporary files and their uploads alone.
LEMMA OthersLitter ==
    ASSUME RegistersInv, NEW x \in Sessions,
           \/ Step(x) /\ ~(SaveReceipt(x) \/ SniffReceipt(x) \/ RecordReceipt(x))
           \/ Done(x) \/ \E j \in Jobs : Arrive(x, j)
    PROVE  Litter' \subseteq Litter /\ aborts' = aborts
<1>1. /\ UNCHANGED <<parts, aborts>> /\ pc[x] # "sniff"
      /\ \A y \in Sessions \ {x} :
            pc'[y] = pc[y] /\ job'[y] = job[y] /\ results'[y] = results[y]
    <2>1. CASE Lookup(x) \/ Validate(x) \/ Insert(x)
        BY <2>1 DEF Lookup, LookupExpense, LookupIncome, LookupCustomer, LookupEntry,
                    Validate, Insert, Report, tables, Goto, RegistersInv, TypeOK
    <2>2. CASE DeadlockVictim(x) \/ CommitBatch(x) \/ CheckReceipt(x) \/ Flush(x)
                 \/ CommitChange(x)
        BY <2>2 DEF DeadlockVictim, Blocks, CommitBatch, CheckReceipt, Flush, CommitChange,
                    tables, own, Goto, RegistersInv, TypeOK
    <2>3. CASE Load(x)
        BY <2>3 DEF Load, UpdateExpense, UpdateIncome, UpdateCustomer, DeleteExpense,
                    DeleteIncome, DeleteCustomer, LoadForUpdate, LoadForDelete, tables,
                    Goto, RegistersInv, TypeOK
    <2>4. CASE Done(x) \/ \E j \in Jobs : Arrive(x, j)
        BY <2>4 DEF Done, Arrive, Answers, tables, Goto, RegistersInv, TypeOK
    <2>5. QED
        BY <2>1, <2>2, <2>3, <2>4 DEF Step
<1>2. \A y \in Sessions \ {x} : Current(y)' = Current(y)
    BY <1>1 DEF Current
<1>3. QED
    BY <1>1, <1>2, LitterShrinks

LEMMA LitterStep == RegistersInv /\ LitterInv /\ [Next]_vars => LitterInv'
<1> SUFFICES ASSUME RegistersInv, LitterInv, [Next]_vars PROVE LitterInv'
    OBVIOUS
<1>1. aborts \in Nat /\ IsFiniteSet(Litter) /\ Cardinality(Litter) \in Nat
    BY RegistersAssumption, FS_CardinalityType DEF RegistersInv, TypeOK, LitterInv
<1>2. ASSUME Litter' \subseteq Litter, aborts' = aborts PROVE LitterInv'
    <2>1. IsFiniteSet(Litter') /\ Cardinality(Litter') <= Cardinality(Litter)
        BY <1>1, <1>2, FS_Subset
    <2>2. Cardinality(Litter') \in Nat
        BY <2>1, FS_CardinalityType
    <2>3. IsFiniteSet(Litter)' /\ Cardinality(Litter)' <= aborts
        BY <1>1, <2>1, <2>2 DEF LitterInv
    <2>4. QED
        BY <1>2, <2>3 DEF LitterInv
<1>3. ASSUME NEW x \in Sessions, Abort(x) PROVE LitterInv'
    <2> DEFINE more == Litter \cup {Current(x).receipt}
    <2>1. aborts' = aborts + 1 /\ Litter' \subseteq more
        BY <1>3, AbortLitters
    <2>2. IsFiniteSet(more) /\ Cardinality(more) <= Cardinality(Litter) + 1
        BY <1>1, FS_AddElement
    <2>3. IsFiniteSet(Litter') /\ Cardinality(Litter') <= Cardinality(more)
        BY <2>1, <2>2, FS_Subset
    <2>4. Cardinality(Litter') \in Nat /\ Cardinality(more) \in Nat
        BY <2>2, <2>3, FS_CardinalityType
    <2>5. IsFiniteSet(Litter)' /\ Cardinality(Litter)' <= aborts + 1
        BY <1>1, <2>2, <2>3, <2>4 DEF LitterInv
    <2>6. QED
        BY <2>1, <2>5 DEF LitterInv
<1>4. CASE UNCHANGED vars
    <2>1. Litter' = Litter /\ aborts' = aborts
        BY <1>4 DEF vars, tables, own, Litter, Current
    <2>2. QED
        BY <1>2, <2>1
<1>5. ASSUME NEW x \in Sessions, Step(x) \/ Done(x) \/ \E j \in Jobs : Arrive(x, j)
      PROVE  LitterInv'
    BY <1>2, <1>5, UploadLitters, OthersLitter
<1>6. QED
    BY <1>3, <1>4, <1>5 DEF Next, Rest

\* The schema and the receipt directory agree: types, a file for every receipt,
\* and no more files nobody accounts for than uploads that failed (save_receipt,
\* upload_finance_attachment).
THEOREM TablesAreConsistent == Spec => []TablesConsistent
<1>1. Init => LitterInv
    <2>1. Init => Litter = {} /\ aborts = 0
        BY DEF Init, Litter
    <2>2. QED
        BY <2>1, FS_EmptySet DEF LitterInv
<1>2. RegistersInv /\ LitterInv => TablesConsistent
    BY DEF RegistersInv, ReceiptInv, LitterInv, Litter, TablesConsistent, NoLitter
<1>3. Spec => []LitterInv
    BY <1>1, LitterStep, RegistersInvariant, PTL DEF Spec
<1>4. QED
    BY <1>2, <1>3, RegistersInvariant, PTL
=============================================================================
