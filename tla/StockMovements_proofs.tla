----------------------- MODULE StockMovements_proofs -----------------------
(***************************************************************************)
(* Proofs about record_movement under its callers: its inductive invariant,*)
(* and the refinement of StockBook.                                        *)
(***************************************************************************)
EXTENDS StockMovements, TLAPS

----------------------------------------------------------------------------
(***************************************************************************)
(* Proofs about record_movement for any number of sessions, items, stores    *)
(* and calls.  The argument: a write that is not committed belongs to the   *)
(* session that holds its item's lock, and was computed from the quantity   *)
(* that is still in the table; so a commit adds exactly its movement.       *)
(***************************************************************************)
\* A session that is at work has a call and a leg to do, an idle one neither.
PlaceInv ==
    \A x \in Sessions :
        /\ pc[x] = "idle" => job[x] = NoJob /\ results[x] = << >>
        /\ pc[x] # "idle" => job[x] \in Jobs
        /\ pc[x] \in {"check", "lock", "commit"} => Len(results[x]) < LegCount(job[x])
        /\ pc[x] = "check" => IsEvent(job[x])

\* Uncommitted writes are made under the lock, from the committed quantity.
StagedInv ==
    \A x \in Sessions : \A w \in staged[x] :
        lock[w.item] = x /\ w.quantity = level[w.item][w.store] + w.delta

\* Only a session about to commit, or a transfer between its legs, has any.
CleanInv ==
    \A x \in Sessions : staged[x] # {} =>
        pc[x] = "commit" \/ (pc[x] = "lock" /\ ~IsEvent(job[x]))

StockInv ==
    /\ TypeOK
    /\ CleanInv
    /\ PlaceInv
    /\ StagedInv
    /\ StockIsSumOfMovements
    /\ LineAppliedOnce
    /\ AppliedIsPosted

----------------------------------------------------------------------------

LEMMA ElementType ==
    ASSUME NEW S, NEW seq \in Seq(S), NEW n \in 1..Len(seq)
    PROVE  seq[n] \in S
OBVIOUS

\* Every leg of a call names an item, a store and an amount.
LEMMA LegType ==
    ASSUME NEW j \in Jobs, NEW n \in 1..LegCount(j)
    PROVE  Leg(j, n) \in [item : Items, store : Stores, delta : Int]
<1>1. j \in JobType
    BY StockAssumption
<1>2. /\ j.store \in Stores /\ j.to \in Stores
      /\ j.lines \in Seq([item : Items, quantity : Int])
    BY <1>1 DEF JobType
<1>3. CASE j.type = "transfer"
    <2>1. 1 \in 1..Len(j.lines)
        BY <1>3, StockAssumption DEF Manual
    <2>2. j.lines[1] \in [item : Items, quantity : Int]
        BY ONLY <1>2, <2>1, ElementType
    <2>3. QED
        BY <1>2, <1>3, <2>2 DEF Leg
<1>4. CASE j.type # "transfer"
    <2>1. n \in 1..Len(j.lines)
        BY <1>4 DEF LegCount
    <2>2. j.lines[n] \in [item : Items, quantity : Int]
        BY ONLY <1>2, <2>1, ElementType
    <2>3. QED
        BY <1>2, <1>4, <2>2 DEF Leg, Signed
<1>5. QED
    BY <1>3, <1>4

\* Manual operations are refused earlier when their item does not exist.
LEMMA ManualLinked ==
    ASSUME NEW j \in Jobs, NEW n \in 1..LegCount(j), ~IsEvent(j)
    PROVE  Leg(j, n).item \notin Unlinked
<1>1. j.type \in Manual /\ Len(j.lines) = 1 /\ j.lines[1].item \notin Unlinked
    BY StockAssumption DEF JobType, IsEvent
<1>2. QED
    BY <1>1 DEF Leg, LegCount

\* A session at work is at a leg of its call.
LEMMA CurrentType ==
    ASSUME TypeOK, PlaceInv, NEW x \in Sessions, pc[x] \in {"check", "lock", "commit"}
    PROVE  /\ job[x] \in Jobs
           /\ Len(results[x]) \in Nat
           /\ Len(results[x]) + 1 \in 1..LegCount(job[x])
           /\ Current(x) \in [item : Items, store : Stores, delta : Int]
           /\ Current(x) = Leg(job[x], Len(results[x]) + 1)
           /\ IsEvent(job[x]) => Key(x) \in Keys
<1>1. job[x] \in Jobs /\ Len(results[x]) \in Nat /\ Len(results[x]) < LegCount(job[x])
    BY DEF TypeOK, PlaceInv
<1>2. job[x] \in JobType /\ (IsEvent(job[x]) => job[x].event \in Events)
    BY <1>1, StockAssumption DEF IsEvent
<1>3. LegCount(job[x]) \in Nat
    BY <1>2 DEF LegCount, JobType
<1>4. Len(results[x]) + 1 \in 1..LegCount(job[x])
    BY <1>1, <1>3
<1>5. Current(x) \in [item : Items, store : Stores, delta : Int]
    BY <1>1, <1>4, LegType DEF Current
<1>6. QED
    BY <1>1, <1>2, <1>4, <1>5 DEF Current, Key, Keys

\* NextLeg and the end of an operation leave the session in order.
LEMMA NextLegPlace ==
    ASSUME TypeOK, PlaceInv, NEW x \in Sessions, NEW status \in Statuses,
           pc[x] \in {"check", "lock", "commit"},
           job' = job, NextLeg(x, status)
    PROVE  /\ PlaceInv'
           /\ pc' \in [Sessions -> Places]
           /\ results' \in [Sessions -> Seq(Statuses)]
<1> DEFINE m == Len(results[x])
<1>1. job[x] \in Jobs /\ m \in Nat /\ m + 1 \in 1..LegCount(job[x])
    BY CurrentType
<1>2. results[x] \in Seq(Statuses)
    BY DEF TypeOK
<1>3. Append(results[x], status) \in Seq(Statuses) /\ Len(Append(results[x], status)) = m + 1
    BY <1>2
<1>4. results' = [results EXCEPT ![x] = Append(results[x], status)]
    BY DEF NextLeg
<1>5. FirstStep(job[x]) \in Places
    BY DEF FirstStep, Places
<1>6. pc' = [pc EXCEPT ![x] = IF m + 1 < LegCount(job[x]) THEN FirstStep(job[x]) ELSE "answered"]
    BY DEF NextLeg
<1>7. pc' \in [Sessions -> Places] /\ results' \in [Sessions -> Seq(Statuses)]
    BY <1>3, <1>4, <1>5, <1>6 DEF TypeOK, Places
<1>8. ASSUME NEW y \in Sessions, y # x
      PROVE  pc'[y] = pc[y] /\ results'[y] = results[y] /\ job'[y] = job[y]
    BY <1>4, <1>6, <1>8 DEF TypeOK
<1>9. /\ pc'[x] # "idle" /\ job'[x] \in Jobs
      /\ pc'[x] \in {"check", "lock", "commit"} => Len(results'[x]) < LegCount(job'[x])
      /\ pc'[x] = "check" => IsEvent(job'[x])
    BY <1>1, <1>3, <1>4, <1>6 DEF TypeOK, FirstStep
<1>10. ASSUME NEW y \in Sessions
       PROVE  /\ pc'[y] = "idle" => job'[y] = NoJob /\ results'[y] = << >>
              /\ pc'[y] # "idle" => job'[y] \in Jobs
              /\ pc'[y] \in {"check", "lock", "commit"} => Len(results'[y]) < LegCount(job'[y])
              /\ pc'[y] = "check" => IsEvent(job'[y])
    <2>1. CASE y = x
        BY <2>1, <1>9
    <2>2. CASE y # x
        BY <2>2, <1>8 DEF PlaceInv
    <2>3. QED
        BY <2>1, <2>2
<1>11. QED
    BY <1>7, <1>10 DEF PlaceInv

\* A line added to the results is the one the session was at.
LEMMA NextLegPosted ==
    ASSUME StockInv, NEW x \in Sessions, NEW status \in Statuses,
           pc[x] \in {"check", "lock", "commit"},
           job' = job, results' = [results EXCEPT ![x] = Append(@, status)],
           processed \subseteq processed',
           IsEvent(job[x]) /\ status = "applied" => Key(x) \in processed'
    PROVE  AppliedIsPosted'
<1> USE DEF StockInv
<1> DEFINE m == Len(results[x])
<1>1. SUFFICES ASSUME NEW y \in Sessions, job[y] # NoJob, IsEvent(job[y]),
                      NEW n \in 1..Len(results'[y]), results'[y][n] = "applied"
               PROVE  <<job[y].event, Leg(job[y], n).item>> \in processed'
    BY DEF AppliedIsPosted
<1>2. CASE y # x
    <2>1. results'[y] = results[y]
        BY <1>2 DEF TypeOK
    <2>2. <<job[y].event, Leg(job[y], n).item>> \in processed
        BY <1>1, <2>1 DEF AppliedIsPosted
    <2>3. QED
        BY <2>2
<1>3. CASE y = x
    <2>1. results[x] \in Seq(Statuses) /\ results'[x] = Append(results[x], status)
        BY DEF TypeOK
    <2>2. n \in 1..(m + 1) /\ m \in Nat
        BY <1>3, <2>1
    <2>3. CASE n = m + 1
        <3>1. status = "applied"
            BY <1>1, <1>3, <2>1, <2>3
        <3>2. QED
            BY <1>1, <1>3, <2>3, <3>1 DEF Key, Current
    <2>4. CASE n \in 1..m
        <3>1. results[x][n] = "applied"
            BY <1>1, <1>3, <2>1, <2>4
        <3>2. <<job[y].event, Leg(job[y], n).item>> \in processed
            BY <1>1, <1>3, <2>4, <3>1 DEF AppliedIsPosted
        <3>3. QED
            BY <3>2
    <2>5. QED
        BY <2>2, <2>3, <2>4
<1>4. QED
    BY <1>2, <1>3

----------------------------------------------------------------------------

LEMMA InitStock == Init => StockInv
<1> SUFFICES ASSUME Init PROVE StockInv
    OBVIOUS
<1> USE DEF Init
<1>1. TypeOK
    BY StockAssumption DEF TypeOK, Places
<1>2. PlaceInv /\ StagedInv /\ CleanInv
    BY DEF PlaceInv, StagedInv, CleanInv
<1>3. StockIsSumOfMovements /\ LineAppliedOnce
    BY StockAssumption DEF StockIsSumOfMovements, LineAppliedOnce
<1>4. AppliedIsPosted
    BY DEF AppliedIsPosted
<1>5. QED
    BY <1>1, <1>2, <1>3, <1>4 DEF StockInv

\* Locks are taken from nobody and released by their holder only, so the
\* writes of the other sessions stay under theirs.
LEMMA StagedKept ==
    ASSUME StockInv, NEW x \in Sessions,
           level' = level,
           lock' \in [Items -> Sessions \cup {NoSession}],
           \A i \in Items, y \in Sessions \ {x} : lock[i] = y => lock'[i] = y,
           \A y \in Sessions \ {x} : staged'[y] = staged[y],
           \A w \in staged'[x] : lock'[w.item] = x /\ w.quantity = level[w.item][w.store] + w.delta
    PROVE  StagedInv'
<1>1. SUFFICES ASSUME NEW y \in Sessions, NEW w \in staged'[y]
               PROVE  lock'[w.item] = y /\ w.quantity = level[w.item][w.store] + w.delta
    BY DEF StagedInv
<1>2. CASE y = x
    BY <1>2
<1>3. CASE y # x
    <2>1. w \in staged[y] /\ w \in Write
        BY <1>3 DEF StockInv, TypeOK
    <2>2. lock[w.item] = y /\ w.quantity = level[w.item][w.store] + w.delta /\ w.item \in Items
        BY <2>1 DEF StockInv, StagedInv, Write
    <2>3. QED
        BY <1>3, <2>2
<1>4. QED
    BY <1>2, <1>3

LEMMA ReleasedLocks ==
    ASSUME StockInv, NEW x \in Sessions
    PROVE  /\ Released(x) \in [Items -> Sessions \cup {NoSession}]
           /\ \A i \in Items, y \in Sessions \ {x} : lock[i] = y => Released(x)[i] = y
BY DEF StockInv, TypeOK, Released

LEMMA AcceptInv ==
    ASSUME StockInv, NEW x \in Sessions, NEW j \in Jobs, Accept(x, j)
    PROVE  StockInv'
<1> USE DEF StockInv, Accept
<1>1. TypeOK'
    BY StockAssumption DEF TypeOK, FirstStep, Places
<1>2. results[x] = << >> /\ Len(results[x]) = 0
    BY DEF PlaceInv
<1>3. 0 < LegCount(j)
    BY StockAssumption DEF LegCount
<1>4. PlaceInv'
    <2>1. pc'[x] = FirstStep(j) /\ job'[x] = j /\ results' = results
        BY DEF TypeOK
    <2>2. \A y \in Sessions \ {x} : pc'[y] = pc[y] /\ job'[y] = job[y]
        BY DEF TypeOK
    <2>3. QED
        BY <1>2, <1>3, <2>1, <2>2 DEF PlaceInv, FirstStep
<1>5. StagedInv' /\ StockIsSumOfMovements' /\ LineAppliedOnce' /\ CleanInv'
    BY DEF StagedInv, StockIsSumOfMovements, LineAppliedOnce, CleanInv, TypeOK
<1>6. AppliedIsPosted'
    <2>1. \A y \in Sessions \ {x} : job'[y] = job[y]
        BY DEF TypeOK
    <2>2. QED
        BY <1>2, <2>1 DEF AppliedIsPosted
<1>7. QED
    BY <1>1, <1>4, <1>5, <1>6

LEMMA CheckProcessedInv ==
    ASSUME StockInv, NEW x \in Sessions, CheckProcessed(x)
    PROVE  StockInv'
<1> USE DEF StockInv, CheckProcessed
<1>1. StagedInv' /\ StockIsSumOfMovements' /\ LineAppliedOnce' /\ CleanInv'
    BY DEF StagedInv, StockIsSumOfMovements, LineAppliedOnce, CleanInv, TypeOK, NextLeg
<1>2. CASE Key(x) \in processed
    <2>1. NextLeg(x, "applied") /\ "applied" \in Statuses
        BY <1>2 DEF Statuses
    <2>2. PlaceInv' /\ TypeOK'
        BY <2>1, NextLegPlace DEF TypeOK
    <2>3. AppliedIsPosted'
        BY <1>2, <2>1, NextLegPosted DEF NextLeg
    <2>4. QED
        BY <1>1, <2>2, <2>3
<1>3. CASE Key(x) \notin processed
    <2>1. TypeOK'
        BY <1>3 DEF TypeOK, Places
    <2>2. PlaceInv'
        BY <1>3 DEF PlaceInv, TypeOK
    <2>3. AppliedIsPosted'
        BY <1>3 DEF AppliedIsPosted
    <2>4. QED
        BY <1>1, <2>1, <2>2, <2>3
<1>4. QED
    BY <1>2, <1>3

LEMMA SkipInv ==
    ASSUME StockInv, NEW x \in Sessions, Skip(x)
    PROVE  StockInv'
<1> USE DEF StockInv, Skip
<1>1. StagedInv' /\ StockIsSumOfMovements' /\ LineAppliedOnce'
    BY DEF StagedInv, StockIsSumOfMovements, LineAppliedOnce
<1>0. CleanInv'
    <2>1. IsEvent(job[x])
        BY CurrentType, ManualLinked
    <2>2. QED
        BY <2>1 DEF CleanInv, TypeOK, NextLeg
<1>2. NextLeg(x, "skipped") /\ "skipped" \in Statuses
    BY DEF Statuses
<1>3. PlaceInv' /\ TypeOK'
    BY <1>2, NextLegPlace DEF TypeOK
<1>4. AppliedIsPosted'
    BY <1>2, NextLegPosted DEF NextLeg
<1>5. QED
    BY <1>0, <1>1, <1>3, <1>4

\* The lock a session takes was free or its own.
LEMMA LocksTaken ==
    ASSUME StockInv, NEW x \in Sessions, Locks(x)
    PROVE  /\ Current(x) \in [item : Items, store : Stores, delta : Int]
           /\ lock' \in [Items -> Sessions \cup {NoSession}]
           /\ lock'[Current(x).item] = x
           /\ \A i \in Items, y \in Sessions : lock[i] = y => lock'[i] = y
<1>1. Current(x) \in [item : Items, store : Stores, delta : Int]
    BY CurrentType DEF Locks, StockInv
<1>2. QED
    BY <1>1, StockAssumption DEF Locks, StockInv, TypeOK

LEMMA RefuseLineInv ==
    ASSUME StockInv, NEW x \in Sessions, RefuseLine(x)
    PROVE  StockInv'
<1> USE DEF StockInv, RefuseLine
<1>1. StockIsSumOfMovements' /\ LineAppliedOnce'
    BY DEF StockIsSumOfMovements, LineAppliedOnce
<1>2. NextLeg(x, "failed") /\ "failed" \in Statuses /\ pc[x] = "lock"
    BY DEF Statuses, Locks
<1>3. PlaceInv' /\ TypeOK'
    BY <1>2, NextLegPlace, LocksTaken DEF TypeOK
<1>4. AppliedIsPosted'
    BY <1>2, NextLegPosted DEF NextLeg
<1>5. StagedInv'
    <2>1. ASSUME NEW y \in Sessions, NEW w \in staged[y]
          PROVE  lock[w.item] = y /\ w.item \in Items
        BY DEF StagedInv, TypeOK, Write
    <2>2. ASSUME NEW y \in Sessions, NEW w \in staged[y]
          PROVE  lock'[w.item] = y
        BY <2>1, LocksTaken
    <2>3. QED
        BY <2>2 DEF StagedInv
<1>6. CleanInv'
    BY <1>2 DEF CleanInv, TypeOK, NextLeg
<1>7. QED
    BY <1>1, <1>3, <1>4, <1>5, <1>6

\* A rollback, whatever brought it about.
LEMMA FailInv ==
    ASSUME StockInv, NEW x \in Sessions, pc[x] \in {"lock", "commit"}, Fail(x)
    PROVE  StockInv'
<1> USE DEF StockInv, Fail
<1>1. StockIsSumOfMovements' /\ LineAppliedOnce'
    BY DEF StockIsSumOfMovements, LineAppliedOnce
<1>2. "failed" \in Statuses
    BY DEF Statuses
<1>3. staged' \in [Sessions -> SUBSET Write] /\ staged'[x] = {}
    BY DEF TypeOK
<1>4. StagedInv' /\ CleanInv'
    <2>1. \A y \in Sessions \ {x} : staged'[y] = staged[y] /\ pc'[y] = pc[y]
        BY DEF TypeOK, NextLeg
    <2>2. QED
        BY <1>3, <2>1, StagedKept, ReleasedLocks DEF CleanInv
<1>5. PlaceInv' /\ pc' \in [Sessions -> Places] /\ results' \in [Sessions -> Seq(Statuses)]
    <2>1. CASE IsEvent(job[x])
        BY <1>2, <2>1, NextLegPlace
    <2>2. CASE ~IsEvent(job[x])
        <3>1. pc'[x] = "answered" /\ \A y \in Sessions \ {x} : pc'[y] = pc[y] /\ results'[y] = results[y]
            BY <2>2 DEF TypeOK
        <3>0. Append(results[x], "failed") \in Seq(Statuses)
            BY <1>2 DEF TypeOK
        <3>2. pc' \in [Sessions -> Places] /\ results' \in [Sessions -> Seq(Statuses)]
            BY <2>2, <3>0 DEF TypeOK, Places
        <3>3. PlaceInv'
            BY <3>1 DEF PlaceInv
        <3>4. QED
            BY <3>2, <3>3
    <2>3. QED
        BY <2>1, <2>2
<1>6. TypeOK'
    BY <1>3, <1>5, ReleasedLocks DEF TypeOK
<1>7. results' = [results EXCEPT ![x] = Append(@, "failed")]
    BY DEF NextLeg
<1>8. AppliedIsPosted'
    BY <1>2, <1>7, NextLegPosted
<1>9. QED
    BY <1>1, <1>4, <1>5, <1>6, <1>8

LEMMA StageInv ==
    ASSUME StockInv, NEW x \in Sessions, Stage(x)
    PROVE  StockInv'
<1> USE DEF StockInv, Stage
<1>1. StockIsSumOfMovements' /\ LineAppliedOnce'
    BY DEF StockIsSumOfMovements, LineAppliedOnce
<1>2. pc[x] = "lock" /\ "staged" \in Statuses
    BY DEF Locks, Statuses
<1>3. Current(x) \in [item : Items, store : Stores, delta : Int]
    BY LocksTaken
<1>4. NewWrite(x) \in Write /\ NewWrite(x).item = Current(x).item
    BY <1>3 DEF NewWrite, Write, TypeOK
<1>5. NewWrite(x).quantity = level[NewWrite(x).item][NewWrite(x).store] + NewWrite(x).delta
    BY DEF NewWrite
<1>6. staged'[x] = staged[x] \cup {NewWrite(x)} /\ staged' \in [Sessions -> SUBSET Write]
    BY <1>4 DEF TypeOK
<1>7. StagedInv'
    <2>1. ASSUME NEW w \in staged'[x]
          PROVE  lock'[w.item] = x /\ w.quantity = level[w.item][w.store] + w.delta
        <3>1. CASE w = NewWrite(x)
            BY <1>4, <1>5, <3>1, LocksTaken
        <3>2. CASE w \in staged[x]
            <4>1. lock[w.item] = x /\ w.quantity = level[w.item][w.store] + w.delta
                BY <3>2 DEF StagedInv
            <4>2. w.item \in Items
                BY <3>2 DEF TypeOK, Write
            <4>3. \A i \in Items : lock[i] = x => lock'[i] = x
                BY LocksTaken
            <4>4. QED
                BY ONLY <4>1, <4>2, <4>3
        <3>3. QED
            BY <1>6, <2>1, <3>1, <3>2
    <2>2. \A y \in Sessions \ {x} : staged'[y] = staged[y]
        BY DEF TypeOK
    <2>3. QED
        BY <2>1, <2>2, StagedKept, LocksTaken
<1>8. CASE job[x].type = "transfer" /\ results[x] = << >>
    <2>1. NextLeg(x, "staged")
        BY <1>8
    <2>2. PlaceInv' /\ TypeOK'
        BY <1>2, <1>6, <2>1, NextLegPlace, LocksTaken DEF TypeOK
    <2>3. AppliedIsPosted'
        BY <1>2, <2>1, NextLegPosted DEF NextLeg
    <2>4. pc'[x] = "lock" /\ ~IsEvent(job[x])
        <3>1. ~IsEvent(job[x]) /\ LegCount(job[x]) = 2
            BY <1>8 DEF IsEvent, SaleEvents, LegCount
        <3>2. QED
            BY <1>8, <2>1, <3>1 DEF NextLeg, FirstStep, TypeOK
    <2>5. CleanInv'
        BY <2>1, <2>4 DEF CleanInv, TypeOK, NextLeg
    <2>6. QED
        BY <1>1, <1>7, <2>2, <2>3, <2>5
<1>9. CASE ~(job[x].type = "transfer" /\ results[x] = << >>)
    <2>1. pc' = [pc EXCEPT ![x] = "commit"] /\ results' = results
        BY <1>9
    <2>2. TypeOK'
        BY <1>6, <2>1, LocksTaken DEF TypeOK, Places
    <2>3. PlaceInv'
        BY <1>2, <2>1 DEF PlaceInv, TypeOK
    <2>4. AppliedIsPosted'
        BY <2>1 DEF AppliedIsPosted
    <2>5. CleanInv'
        BY <2>1 DEF CleanInv, TypeOK
    <2>6. QED
        BY <1>1, <1>7, <2>2, <2>3, <2>4, <2>5
<1>10. QED
    BY <1>8, <1>9

\* What a commit writes: every row is the old one plus its movement.
LEMMA WriteRowsEffect ==
    ASSUME StockInv, NEW x \in Sessions, pc[x] = "commit", WriteRows(x)
    PROVE  /\ level' \in [Items -> [Stores -> Int]]
           /\ moved' \in [Items -> [Stores -> Int]]
           /\ StockIsSumOfMovements'
           /\ \A i \in Items, s \in Stores :
                  WritesTo(staged[x], i, s) = {} => level'[i][s] = level[i][s]
<1> USE DEF StockInv
<1> DEFINE Row(i, s) == CHOOSE w \in WritesTo(staged[x], i, s) : TRUE
<1>1. ASSUME NEW i \in Items, NEW s \in Stores, WritesTo(staged[x], i, s) # {}
      PROVE  /\ Row(i, s) \in Write
             /\ Row(i, s).quantity = level[i][s] + Row(i, s).delta
    <2>1. Row(i, s) \in WritesTo(staged[x], i, s)
        BY <1>1
    <2>2. Row(i, s) \in staged[x] /\ Row(i, s).item = i /\ Row(i, s).store = s
        BY <2>1 DEF WritesTo
    <2>3. QED
        BY <2>2 DEF StagedInv, TypeOK
<1>2. ASSUME NEW i \in Items, NEW s \in Stores
      PROVE  /\ level[i][s] \in Int /\ moved[i][s] \in Int
             /\ level[i][s] = Opening[i][s] + moved[i][s]
             /\ Opening[i][s] \in Int
    BY StockAssumption DEF TypeOK, StockIsSumOfMovements
<1>3. ASSUME NEW i \in Items, NEW s \in Stores
      PROVE  /\ level'[i][s] = IF WritesTo(staged[x], i, s) = {} THEN level[i][s] ELSE Row(i, s).quantity
             /\ moved'[i][s] = IF WritesTo(staged[x], i, s) = {} THEN moved[i][s]
                               ELSE moved[i][s] + Row(i, s).delta
    BY DEF WriteRows
<1> HIDE DEF Row
<1>4. ASSUME NEW i \in Items, NEW s \in Stores
      PROVE  /\ level'[i][s] \in Int /\ moved'[i][s] \in Int
             /\ level'[i][s] = Opening[i][s] + moved'[i][s]
             /\ WritesTo(staged[x], i, s) = {} => level'[i][s] = level[i][s]
    <2>1. CASE WritesTo(staged[x], i, s) = {}
        BY <1>2, <1>3, <2>1
    <2>2. CASE WritesTo(staged[x], i, s) # {}
        <3>1. Row(i, s).quantity = level[i][s] + Row(i, s).delta /\ Row(i, s).delta \in Int
            BY <1>1, <2>2 DEF Write
        <3>2. level'[i][s] = level[i][s] + Row(i, s).delta /\ moved'[i][s] = moved[i][s] + Row(i, s).delta
            BY <1>3, <2>2, <3>1
        <3>3. QED
            BY <1>2, <2>2, <3>1, <3>2
    <2>3. QED
        BY <2>1, <2>2
<1>5. level' = [i \in Items |-> [s \in Stores |-> level'[i][s]]]
    BY DEF WriteRows
<1>6. moved' = [i \in Items |-> [s \in Stores |-> moved'[i][s]]]
    BY DEF WriteRows
<1>7. QED
    BY <1>4, <1>5, <1>6 DEF StockIsSumOfMovements

LEMMA CommitInv ==
    ASSUME StockInv, NEW x \in Sessions, Commit(x)
    PROVE  StockInv'
<1> USE DEF StockInv, Commit
<1>1. NextLeg(x, "applied") /\ "applied" \in Statuses
    BY DEF Statuses
<1>2. PlaceInv' /\ pc' \in [Sessions -> Places] /\ results' \in [Sessions -> Seq(Statuses)]
    BY <1>1, NextLegPlace
<1>3. /\ IsEvent(job[x]) => Key(x) \in Keys
      /\ processed' = IF IsEvent(job[x]) THEN processed \cup {Key(x)} ELSE processed
      /\ posted' = IF IsEvent(job[x]) THEN [posted EXCEPT ![Key(x)] = @ + 1] ELSE posted
    BY CurrentType DEF WriteRows
<1>4. processed' \subseteq Keys /\ posted' \in [Keys -> Nat]
    BY <1>3 DEF TypeOK
<1>5. TypeOK'
    BY <1>2, <1>4, WriteRowsEffect, ReleasedLocks DEF TypeOK
<1>6. LineAppliedOnce'
    <2>1. CASE IsEvent(job[x])
        <3>1. Key(x) \notin processed /\ posted[Key(x)] = 0
            BY <1>3, <2>1 DEF LineAppliedOnce
        <3>2. \A k \in Keys : posted'[k] = IF k = Key(x) THEN posted[k] + 1 ELSE posted[k]
            BY <1>3, <2>1 DEF TypeOK
        <3>3. QED
            BY <1>3, <2>1, <3>1, <3>2 DEF LineAppliedOnce
    <2>2. CASE ~IsEvent(job[x])
        BY <1>3, <2>2 DEF LineAppliedOnce
    <2>3. QED
        BY <2>1, <2>2
<1>7. AppliedIsPosted'
    BY <1>1, <1>3, NextLegPosted DEF NextLeg
<1>8. StagedInv'
    <2>1. SUFFICES ASSUME NEW y \in Sessions, NEW w \in staged'[y]
                   PROVE  lock'[w.item] = y /\ w.quantity = level'[w.item][w.store] + w.delta
        BY DEF StagedInv
    <2>2. y # x /\ w \in staged[y] /\ w \in Write
        BY <2>1 DEF TypeOK
    <2>3. /\ lock[w.item] = y /\ w.quantity = level[w.item][w.store] + w.delta
          /\ w.item \in Items /\ w.store \in Stores
        BY <2>2 DEF StagedInv, Write
    <2>4. WritesTo(staged[x], w.item, w.store) = {}
        BY <2>2, <2>3 DEF WritesTo, StagedInv
    <2>5. level'[w.item][w.store] = level[w.item][w.store]
        BY <2>3, <2>4, WriteRowsEffect
    <2>6. QED
        BY <2>2, <2>3, <2>5, ReleasedLocks
<1>9. CleanInv'
    BY DEF CleanInv, TypeOK, NextLeg
<1>10. QED
    BY <1>2, <1>5, <1>6, <1>7, <1>8, <1>9, WriteRowsEffect

LEMMA AnswerInv ==
    ASSUME StockInv, NEW x \in Sessions, Answer(x)
    PROVE  StockInv'
<1> USE DEF StockInv, Answer
<1>1. TypeOK'
    BY ReleasedLocks DEF TypeOK, Places
<1>2. \A y \in Sessions \ {x} : pc'[y] = pc[y] /\ job'[y] = job[y] /\ results'[y] = results[y]
    BY DEF TypeOK
<1>3. pc'[x] = "idle" /\ job'[x] = NoJob /\ results'[x] = << >>
    BY DEF TypeOK
<1>4. PlaceInv'
    BY <1>2, <1>3 DEF PlaceInv
<1>5. AppliedIsPosted'
    BY <1>2, <1>3 DEF AppliedIsPosted
<1>6. StockIsSumOfMovements' /\ LineAppliedOnce'
    BY DEF StockIsSumOfMovements, LineAppliedOnce
<1>7. StagedInv' /\ CleanInv'
    <2>1. staged[x] = {}
        BY DEF CleanInv
    <2>2. QED
        BY <1>2, <1>3, <2>1, StagedKept, ReleasedLocks DEF CleanInv
<1>8. QED
    BY <1>1, <1>4, <1>5, <1>6, <1>7

LEMMA CrashInv ==
    ASSUME StockInv, Crash
    PROVE  StockInv'
<1> USE DEF StockInv, Crash
<1>1. TypeOK'
    BY StockAssumption DEF TypeOK, Places
<1>2. PlaceInv' /\ StagedInv' /\ CleanInv'
    BY DEF PlaceInv, StagedInv, CleanInv
<1>3. StockIsSumOfMovements' /\ LineAppliedOnce' /\ AppliedIsPosted'
    BY DEF StockIsSumOfMovements, LineAppliedOnce, AppliedIsPosted
<1>4. QED
    BY <1>1, <1>2, <1>3

\* The inductive invariant holds in every reachable state.
THEOREM StockInvariant == Spec => []StockInv
<1>1. ASSUME StockInv, [Next]_vars PROVE StockInv'
    <2>1. ASSUME NEW x \in Sessions, Handle(x) PROVE StockInv'
        <3>1. RefuseOperation(x) \/ KeyConflict(x) \/ DeadlockVictim(x) =>
                  pc[x] \in {"lock", "commit"} /\ Fail(x)
            BY DEF RefuseOperation, KeyConflict, DeadlockVictim, Waits
        <3>2. QED
            BY <1>1, <2>1, <3>1, CheckProcessedInv, SkipInv, RefuseLineInv, FailInv, StageInv,
               CommitInv, AnswerInv DEF Handle
    <2>2. ASSUME NEW x \in Sessions, NEW j \in Jobs, Accept(x, j) PROVE StockInv'
        BY <1>1, <2>2, AcceptInv
    <2>3. CASE Crash
        BY <1>1, <2>3, CrashInv
    <2>4. CASE UNCHANGED vars
        BY <1>1, <2>4 DEF vars, StockInv, TypeOK, PlaceInv, CleanInv, StagedInv,
                          StockIsSumOfMovements, LineAppliedOnce, AppliedIsPosted,
                          IsEvent, LegCount, Leg, Signed
    <2>5. QED
        BY <1>1, <2>1, <2>2, <2>3, <2>4 DEF Next
<1>2. QED
    BY <1>1, InitStock, PTL DEF Spec

\* Type correctness of the stock engine.
THEOREM StockTypesCorrect == Spec => []TypeOK
BY StockInvariant, PTL DEF StockInv

\* No session loses another one's update: whatever sale events, adjustments
\* and transfers run at once, the stock is the sum of its movements.
THEOREM NoLostUpdate == Spec => []StockIsSumOfMovements
BY StockInvariant, PTL DEF StockInv

\* No line of an event is applied twice, however often and however
\* concurrently the event is delivered.
THEOREM LinesAppliedOnce == Spec => []LineAppliedOnce
BY StockInvariant, PTL DEF StockInv

\* No line is answered "applied" whose movement is not committed.
THEOREM AppliedLinesArePosted == Spec => []AppliedIsPosted
BY StockInvariant, PTL DEF StockInv

----------------------------------------------------------------------------
(***************************************************************************)
(* Proof that record_movement, under any number of concurrent calls, implements *)
(* StockBook.  The argument adds to the invariant of StockMovements_proofs   *)
(* what the uncommitted writes of a session are: the leg it is at, or both   *)
(* legs of a transfer.  With their quantities known to be fresh, the commit  *)
(* is one movement or one transfer of the book; every other step stutters.  *)
(***************************************************************************)
\* The legs a session has written and not committed.
StagedLegs(x) ==
    IF pc[x] \in {"lock", "commit"} /\ job[x].type = "transfer"
    THEN 1..(IF pc[x] = "commit" THEN 2 ELSE Len(results[x]))
    ELSE IF pc[x] = "commit" THEN {Len(results[x]) + 1} ELSE {}

\* What a write or a leg does to which stock level.
Effect(w) == <<w.item, w.store, w.delta>>

Shape(x) ==
    {Effect(w) : w \in staged[x]} = {Effect(Leg(job[x], n)) : n \in StagedLegs(x)}

ShapeInv ==
    \A x \in Sessions :
        /\ Shape(x)
        /\ pc[x] = "commit" /\ job[x].type = "transfer" => Len(results[x]) = 1

\* Manual operations write no quantity below zero, unless the item allows it.
CoverInv ==
    \A x \in Sessions : pc[x] # "idle" /\ ~IsEvent(job[x]) =>
        \A w \in staged[x] : w.quantity >= 0 \/ w.item \in AllowNegative

RefinementInv == StockInv /\ ShapeInv /\ CoverInv

----------------------------------------------------------------------------

LEMMA JobFacts ==
    ASSUME NEW j \in Jobs
    PROVE  /\ IsEvent(j) <=> j.event \in Events
           /\ IsEvent(j) <=> j.type \notin Manual
           /\ j.store \in Stores /\ j.to \in Stores
           /\ j.type = "transfer" => j.store # j.to
           /\ LegCount(j) \in Nat \ {0}
           /\ ~IsEvent(j) /\ j.type # "transfer" => LegCount(j) = 1
           /\ j.type = "transfer" => LegCount(j) = 2 /\ ~IsEvent(j)
<1>1. j \in JobType
    BY StockAssumption
<1>2. Len(j.lines) \in Nat \ {0} /\ j.store \in Stores /\ j.to \in Stores
      /\ j.type \in SaleEvents \cup Manual
    BY <1>1, StockAssumption DEF JobType
<1>3. /\ j.type \in SaleEvents <=> j.event \in Events
      /\ j.type = "transfer" => j.store # j.to
      /\ j.type \in Manual => Len(j.lines) = 1
    BY StockAssumption
<1>4. QED
    BY <1>2, <1>3 DEF IsEvent, LegCount, SaleEvents, Manual

\* A leg moves an amount of Quantities, in one direction.
LEMMA LegAmount ==
    ASSUME NEW j \in Jobs, NEW n \in 1..LegCount(j)
    PROVE  Leg(j, n).delta \in Quantities \/ -Leg(j, n).delta \in Quantities
<1>1. j \in JobType
    BY StockAssumption
<1>2. CASE j.type = "transfer"
    <2>1. Len(j.lines) = 1 /\ j.lines[1].quantity \in Quantities
        BY <1>2, StockAssumption DEF Manual
    <2>2. j.lines[1].quantity \in Nat
        BY <2>1, StockAssumption
    <2>3. Leg(j, n).delta \in {j.lines[1].quantity, -j.lines[1].quantity}
        BY <1>2 DEF Leg
    <2>4. -(-j.lines[1].quantity) = j.lines[1].quantity
        BY <2>2
    <2>5. QED
        BY <2>1, <2>3, <2>4
<1>3. CASE j.type # "transfer"
    <2>1. n \in 1..Len(j.lines)
        BY <1>3 DEF LegCount
    <2>2. j.lines[n].quantity \in Quantities \/ -j.lines[n].quantity \in Quantities
        BY <2>1, StockAssumption
    <2>3. j.lines \in Seq([item : Items, quantity : Int])
        BY <1>1 DEF JobType
    <2>4. j.lines[n] \in [item : Items, quantity : Int]
        BY ONLY <2>1, <2>3, ElementType
    <2>5. j.lines[n].quantity \in Int /\ -(-j.lines[n].quantity) = j.lines[n].quantity
        BY <2>4
    <2>6. Leg(j, n).delta \in {j.lines[n].quantity, -j.lines[n].quantity}
        BY <1>3 DEF Leg, Signed
    <2>7. QED
        BY <2>2, <2>5, <2>6
<1>4. QED
    BY <1>2, <1>3

\* A session without uncommitted writes has no leg in between.
LEMMA EmptyShape ==
    ASSUME NEW x \in Sessions, staged[x] = {}, StagedLegs(x) = {}
    PROVE  Shape(x)
BY DEF Shape

\* Steps of x leave what the others have written alone.
LEMMA OthersKept ==
    ASSUME RefinementInv, NEW x \in Sessions,
           \A y \in Sessions \ {x} :
               pc'[y] = pc[y] /\ job'[y] = job[y] /\ results'[y] = results[y]
               /\ staged'[y] = staged[y],
           Shape(x)',
           pc'[x] = "commit" /\ job'[x].type = "transfer" => Len(results'[x]) = 1,
           pc'[x] # "idle" /\ ~IsEvent(job'[x]) =>
               \A w \in staged'[x] : w.quantity >= 0 \/ w.item \in AllowNegative
    PROVE  ShapeInv' /\ CoverInv'
<1>1. ASSUME NEW y \in Sessions, y # x
      PROVE  Shape(y)' /\ (pc'[y] = "commit" /\ job'[y].type = "transfer" => Len(results'[y]) = 1)
    <2>1. StagedLegs(y)' = StagedLegs(y)
        BY <1>1 DEF StagedLegs
    <2>2. \A n : Leg(job'[y], n) = Leg(job[y], n)
        BY <1>1
    <2>3. QED
        BY <1>1, <2>1, <2>2 DEF RefinementInv, ShapeInv, Shape
<1>2. ASSUME NEW y \in Sessions, y # x, pc'[y] # "idle", ~IsEvent(job'[y]), NEW w \in staged'[y]
      PROVE  w.quantity >= 0 \/ w.item \in AllowNegative
    BY <1>2 DEF RefinementInv, CoverInv, IsEvent
<1>3. QED
    BY <1>1, <1>2 DEF ShapeInv, CoverInv, IsEvent

LEMMA InitRefinement == Init => RefinementInv
BY InitStock
DEF RefinementInv, ShapeInv, CoverInv, Shape, StagedLegs, Init

LEMMA AcceptShape ==
    ASSUME RefinementInv, NEW x \in Sessions, NEW j \in Jobs, Accept(x, j)
    PROVE  ShapeInv' /\ CoverInv'
<1>1. staged[x] = {} /\ results[x] = << >>
    BY DEF RefinementInv, StockInv, CleanInv, PlaceInv, Accept
<1>2. /\ pc' = [pc EXCEPT ![x] = FirstStep(j)] /\ job' = [job EXCEPT ![x] = j]
      /\ results' = results /\ staged' = staged
    BY DEF Accept
<1>3. pc'[x] = FirstStep(j) /\ FirstStep(j) \in {"check", "lock"} /\ staged'[x] = {}
      /\ Len(results'[x]) = 0
    BY <1>1, <1>2 DEF FirstStep, RefinementInv, StockInv, TypeOK
<1>4. Shape(x)'
    BY <1>3 DEF Shape, StagedLegs
<1>5. QED
    BY <1>2, <1>3, <1>4, OthersKept DEF RefinementInv, StockInv, TypeOK

\* A leg that is over without a write, and every rollback.
LEMMA LegOver ==
    ASSUME RefinementInv, NEW x \in Sessions, job' = job,
           staged'[x] = {}, pc'[x] \in {"check", "lock", "answered"},
           pc'[x] = "lock" => IsEvent(job[x]),
           pc[x] # "idle",
           \A y \in Sessions \ {x} :
               pc'[y] = pc[y] /\ results'[y] = results[y] /\ staged'[y] = staged[y]
    PROVE  ShapeInv' /\ CoverInv'
<1>1. job[x] \in Jobs
    BY DEF RefinementInv, StockInv, PlaceInv
<1>2. Shape(x)'
    BY <1>1, JobFacts DEF Shape, StagedLegs
<1>3. QED
    BY <1>2, OthersKept

\* The results and the place after a leg.
LEMMA AfterLeg ==
    ASSUME RefinementInv, NEW x \in Sessions, NEW status, job' = job,
           pc[x] \in {"check", "lock", "commit"}, NextLeg(x, status)
    PROVE  /\ pc'[x] \in {"check", "lock", "answered"}
           /\ pc'[x] = "lock" => ~IsEvent(job[x]) /\ Len(results[x]) + 1 < LegCount(job[x])
           /\ Len(results'[x]) = Len(results[x]) + 1
           /\ \A y \in Sessions \ {x} : pc'[y] = pc[y] /\ results'[y] = results[y]
BY DEF NextLeg, FirstStep, RefinementInv, StockInv, TypeOK

LEMMA CheckShape ==
    ASSUME RefinementInv, NEW x \in Sessions, CheckProcessed(x)
    PROVE  ShapeInv' /\ CoverInv'
<1>1. /\ pc[x] = "check" /\ job' = job /\ staged' = staged /\ staged[x] = {}
      /\ IsEvent(job[x])
    BY DEF CheckProcessed, RefinementInv, StockInv, CleanInv, PlaceInv
<1>2. CASE Key(x) \in processed
    BY <1>1, <1>2, AfterLeg, LegOver DEF CheckProcessed
<1>3. CASE Key(x) \notin processed
    BY <1>1, <1>3, LegOver DEF CheckProcessed, RefinementInv, StockInv, TypeOK
<1>4. QED
    BY <1>2, <1>3

\* A line of an event is skipped or refused before it has written anything.
LEMMA LineOver ==
    ASSUME RefinementInv, NEW x \in Sessions, NEW status, pc[x] = "lock",
           IsEvent(job[x]), NextLeg(x, status), UNCHANGED <<job, staged>>
    PROVE  ShapeInv' /\ CoverInv'
<1>1. staged[x] = {}
    BY DEF RefinementInv, StockInv, CleanInv
<1>2. QED
    BY <1>1, AfterLeg, LegOver

LEMMA FailShape ==
    ASSUME RefinementInv, NEW x \in Sessions, pc[x] \in {"lock", "commit"}, Fail(x)
    PROVE  ShapeInv' /\ CoverInv'
<1>1. /\ job' = job /\ staged'[x] = {}
      /\ \A y \in Sessions \ {x} : staged'[y] = staged[y]
    BY DEF Fail, RefinementInv, StockInv, TypeOK
<1>2. CASE IsEvent(job[x])
    BY <1>1, <1>2, AfterLeg, LegOver DEF Fail
<1>3. CASE ~IsEvent(job[x])
    BY <1>1, <1>3, LegOver DEF Fail, RefinementInv, StockInv, TypeOK
<1>4. QED
    BY <1>2, <1>3

LEMMA StageShape ==
    ASSUME RefinementInv, NEW x \in Sessions, Stage(x)
    PROVE  ShapeInv' /\ CoverInv'
<1> DEFINE n == Len(results[x])
           leg == Leg(job[x], n + 1)
<1>1. /\ pc[x] = "lock" /\ job' = job /\ ~Refused(x)
      /\ staged' = [staged EXCEPT ![x] = @ \cup {NewWrite(x)}]
    BY DEF Stage, Locks
<1>2. /\ job[x] \in Jobs /\ n \in Nat /\ n < LegCount(job[x])
      /\ Effect(NewWrite(x)) = Effect(leg) /\ NewWrite(x).item = Current(x).item
    BY <1>1, CurrentType DEF RefinementInv, StockInv, PlaceInv, NewWrite, Effect, Current
<1>3. ~IsEvent(job[x]) => NewWrite(x).quantity >= 0 \/ NewWrite(x).item \in AllowNegative
    <2>1. NewWrite(x).quantity \in Int
        BY <1>1, CurrentType DEF NewWrite, RefinementInv, StockInv, TypeOK
    <2>2. QED
        BY <1>1, <1>2, <2>1 DEF Refused, MayGoNegative, IsEvent, SaleEvents
<1>4. staged'[x] = staged[x] \cup {NewWrite(x)}
      /\ \A y \in Sessions \ {x} : staged'[y] = staged[y]
    BY <1>1 DEF RefinementInv, StockInv, TypeOK
<1>5. ~IsEvent(job[x]) => \A w \in staged'[x] : w.quantity >= 0 \/ w.item \in AllowNegative
    BY <1>1, <1>3, <1>4 DEF RefinementInv, CoverInv
<1>6. {Effect(w) : w \in staged'[x]} = {Effect(w) : w \in staged[x]} \cup {Effect(leg)}
    BY <1>2, <1>4
<1>7. {Effect(w) : w \in staged[x]} = {Effect(Leg(job[x], k)) : k \in StagedLegs(x)}
    BY DEF RefinementInv, ShapeInv, Shape
<1>8. CASE job[x].type = "transfer" /\ results[x] = << >>
    <2>1. NextLeg(x, "staged") /\ n = 0 /\ StagedLegs(x) = {} /\ LegCount(job[x]) = 2
        BY <1>1, <1>2, <1>8, JobFacts DEF Stage, StagedLegs
    <2>2. pc'[x] = "lock" /\ Len(results'[x]) = 1
          /\ \A y \in Sessions \ {x} : pc'[y] = pc[y] /\ results'[y] = results[y]
        <3>1. n + 1 < LegCount(job[x]) /\ ~IsEvent(job[x])
            BY <1>2, <1>8, <2>1, JobFacts
        <3>2. pc'[x] = "lock"
            BY <2>1, <3>1 DEF NextLeg, FirstStep, RefinementInv, StockInv, TypeOK
        <3>3. /\ Len(results'[x]) = n + 1
              /\ \A y \in Sessions \ {x} : pc'[y] = pc[y] /\ results'[y] = results[y]
            BY ONLY <1>1, <2>1, AfterLeg, RefinementInv, x \in Sessions
        <3>4. QED
            BY <2>1, <3>2, <3>3
    <2>3. StagedLegs(x)' = {1}
        BY <1>1, <1>8, <2>2 DEF StagedLegs
    <2>4. Shape(x)'
        BY <1>1, <1>6, <1>7, <2>1, <2>3 DEF Shape
    <2>5. QED
        BY <1>1, <1>4, <1>5, <2>2, <2>4, OthersKept DEF IsEvent
<1>9. CASE ~(job[x].type = "transfer" /\ results[x] = << >>)
    <2>1. pc'[x] = "commit" /\ results' = results
          /\ \A y \in Sessions \ {x} : pc'[y] = pc[y]
        BY <1>9 DEF Stage, RefinementInv, StockInv, TypeOK
    <2>2. CASE job[x].type = "transfer"
        <3>1. results[x] # << >> /\ n = 1
            <4>1. results[x] \in Seq(Statuses) /\ LegCount(job[x]) = 2
                BY <1>2, <2>2, JobFacts DEF RefinementInv, StockInv, TypeOK
            <4>2. n = 0 => results[x] = << >>
                BY ONLY <4>1
            <4>3. results[x] # << >>
                BY ONLY <1>9, <2>2
            <4>4. n \in Nat /\ n < 2 /\ n # 0
                BY ONLY <1>2, <4>1, <4>2, <4>3
            <4>5. \A k \in Nat : k < 2 /\ k # 0 => k = 1
                OBVIOUS
            <4>6. QED
                BY ONLY <4>3, <4>4, <4>5
        <3>2. StagedLegs(x) = {1} /\ StagedLegs(x)' = {1, 2} /\ leg = Leg(job[x], 2)
            BY <1>1, <2>1, <2>2, <3>1 DEF StagedLegs
        <3>3. Shape(x)'
            <4>1. {Effect(Leg(job[x], k)) : k \in {1}} \cup {Effect(Leg(job[x], 2))}
                    = {Effect(Leg(job[x], k)) : k \in {1, 2}}
                OBVIOUS
            <4>2. {Effect(w) : w \in staged'[x]} = {Effect(Leg(job[x], k)) : k \in {1, 2}}
                BY ONLY <1>6, <1>7, <3>2, <4>1
            <4>3. QED
                BY ONLY <1>1, <3>2, <4>2 DEF Shape
        <3>4. QED
            BY <1>1, <1>4, <1>5, <2>1, <3>1, <3>3, OthersKept DEF IsEvent
    <2>3. CASE job[x].type # "transfer"
        <3>1. StagedLegs(x) = {} /\ StagedLegs(x)' = {n + 1}
            BY <1>1, <2>1, <2>3 DEF StagedLegs
        <3>2. Shape(x)'
            BY <1>1, <1>6, <1>7, <3>1 DEF Shape
        <3>3. QED
            BY <1>1, <1>4, <1>5, <2>1, <2>3, <3>2, OthersKept DEF IsEvent
    <2>4. QED
        BY <2>2, <2>3
<1>10. QED
    BY <1>8, <1>9

LEMMA CommitShape ==
    ASSUME RefinementInv, NEW x \in Sessions, Commit(x)
    PROVE  ShapeInv' /\ CoverInv'
<1>1. /\ pc[x] = "commit" /\ job' = job /\ NextLeg(x, "applied")
      /\ staged' = [staged EXCEPT ![x] = {}] /\ job[x] \in Jobs
    BY DEF Commit, RefinementInv, StockInv, PlaceInv
<1>2. pc'[x] = "lock" => IsEvent(job[x])
    <2>1. ASSUME ~IsEvent(job[x]) PROVE ~(Len(results[x]) + 1 < LegCount(job[x]))
        <3>1. CASE job[x].type = "transfer"
            BY <1>1, <3>1, JobFacts DEF RefinementInv, ShapeInv
        <3>2. CASE job[x].type # "transfer"
            BY <1>1, <2>1, <3>2, JobFacts DEF RefinementInv, StockInv, TypeOK
        <3>3. QED
            BY <3>1, <3>2
    <2>2. QED
        BY <1>1, <2>1, AfterLeg
<1>3. staged'[x] = {} /\ \A y \in Sessions \ {x} : staged'[y] = staged[y]
    BY <1>1 DEF RefinementInv, StockInv, TypeOK
<1>4. QED
    BY <1>1, <1>2, <1>3, AfterLeg, LegOver

LEMMA AnswerShape ==
    ASSUME RefinementInv, NEW x \in Sessions, Answer(x)
    PROVE  ShapeInv' /\ CoverInv'
<1>1. staged[x] = {} /\ pc[x] = "answered" /\ staged' = staged
    BY DEF Answer, RefinementInv, StockInv, CleanInv
<1>2. /\ pc'[x] = "idle"
      /\ \A y \in Sessions \ {x} :
             pc'[y] = pc[y] /\ job'[y] = job[y] /\ results'[y] = results[y]
    BY DEF Answer, RefinementInv, StockInv, TypeOK
<1>3. Shape(x)'
    BY <1>1, <1>2 DEF Shape, StagedLegs
<1>4. QED
    BY <1>1, <1>2, <1>3, OthersKept

\* The strengthened invariant holds in every reachable state.
THEOREM RefinementInvariant == Spec => []RefinementInv
<1>1. ASSUME RefinementInv, StockInv', [Next]_vars PROVE ShapeInv' /\ CoverInv'
    <2>1. ASSUME NEW x \in Sessions, Handle(x) PROVE ShapeInv' /\ CoverInv'
        <3>1. RefuseOperation(x) \/ KeyConflict(x) \/ DeadlockVictim(x) =>
                  pc[x] \in {"lock", "commit"} /\ Fail(x)
            BY DEF RefuseOperation, KeyConflict, DeadlockVictim, Waits
        <3>2. CASE Skip(x)
            <4>1. IsEvent(job[x])
                BY <1>1, <3>2, CurrentType, ManualLinked
                DEF Skip, RefinementInv, StockInv
            <4>2. QED
                BY <1>1, <3>2, <4>1, LineOver DEF Skip
        <3>3. CASE RefuseLine(x)
            BY <1>1, <3>3, LineOver DEF RefuseLine, Locks
        <3>4. QED
            BY <1>1, <2>1, <3>1, <3>2, <3>3, CheckShape, FailShape, StageShape, CommitShape,
               AnswerShape
            DEF Handle
    <2>2. CASE Crash
        BY <2>2 DEF Crash, ShapeInv, CoverInv, Shape, StagedLegs
    <2>3. CASE UNCHANGED vars
        BY <1>1, <2>3
        DEF vars, RefinementInv, ShapeInv, CoverInv, Shape, StagedLegs
    <2>4. QED
        BY <1>1, <2>1, <2>2, <2>3, AcceptShape DEF Next
<1>2. QED
    BY <1>1, InitRefinement, StockInvariant, PTL DEF Spec, RefinementInv

----------------------------------------------------------------------------
(* What a commit does to the stock.                                         *)

\* A level that none of the legs is about stays.
LEMMA LevelStays ==
    ASSUME RefinementInv, NEW x \in Sessions, Commit(x), NEW i \in Items, NEW s \in Stores,
           \A n \in StagedLegs(x) : ~(Leg(job[x], n).item = i /\ Leg(job[x], n).store = s)
    PROVE  level'[i][s] = level[i][s]
<1>1. {Effect(w) : w \in staged[x]} = {Effect(Leg(job[x], n)) : n \in StagedLegs(x)}
    BY DEF RefinementInv, ShapeInv, Shape
<1>2. ASSUME NEW w \in staged[x], w.item = i, w.store = s PROVE FALSE
    <2>1. PICK n \in StagedLegs(x) : Effect(w) = Effect(Leg(job[x], n))
        BY <1>1, <1>2
    <2>2. QED
        BY <1>2, <2>1 DEF Effect
<1>3. WritesTo(staged[x], i, s) = {}
    BY <1>2 DEF WritesTo
<1>4. QED
    BY <1>3 DEF Commit, WriteRows

\* A level that a leg is about moves by what the leg says, when no other leg
\* is about it.
LEMMA LevelMoves ==
    ASSUME RefinementInv, NEW x \in Sessions, Commit(x), NEW k \in StagedLegs(x),
           NEW i \in Items, NEW s \in Stores, NEW d,
           Leg(job[x], k) = [item |-> i, store |-> s, delta |-> d],
           \A n \in StagedLegs(x) :
               Leg(job[x], n).item = i /\ Leg(job[x], n).store = s => n = k
    PROVE  level'[i][s] = level[i][s] + d
<1> DEFINE W == WritesTo(staged[x], i, s)
           row == CHOOSE w \in W : TRUE
<1>1. level'[i][s] = IF W = {} THEN level[i][s] ELSE row.quantity
    BY DEF Commit, WriteRows
<1>2. {Effect(w) : w \in staged[x]} = {Effect(Leg(job[x], n)) : n \in StagedLegs(x)}
    BY DEF RefinementInv, ShapeInv, Shape
<1>3. W # {}
    <2>1. PICK w \in staged[x] : Effect(w) = Effect(Leg(job[x], k))
        BY <1>2
    <2>2. QED
        BY <2>1 DEF Effect, WritesTo
<1>4. ASSUME NEW w \in W PROVE w.delta = d
    <2>1. w \in staged[x] /\ w.item = i /\ w.store = s
        BY <1>4 DEF WritesTo
    <2>2. PICK n \in StagedLegs(x) : Effect(w) = Effect(Leg(job[x], n))
        BY <1>2, <2>1
    <2>3. n = k
        BY <2>1, <2>2 DEF Effect
    <2>4. QED
        BY <2>2, <2>3 DEF Effect
<1>5. ASSUME NEW w \in W PROVE w.quantity = level[i][s] + w.delta
    BY <1>5 DEF WritesTo, RefinementInv, StockInv, StagedInv
<1>6. row \in W
    BY <1>3
<1>7. QED
    BY <1>1, <1>3, <1>4, <1>5, <1>6

LEMMA OneLevel ==
    ASSUME level \in [Items -> [Stores -> Int]], level' \in [Items -> [Stores -> Int]],
           NEW a \in Items, NEW b \in Stores, NEW d \in Int,
           level'[a][b] = level[a][b] + d,
           \A i \in Items, s \in Stores :
               ~(i = a /\ s = b) => level'[i][s] = level[i][s]
    PROVE  level' = [level EXCEPT ![a][b] = @ + d]
<1> DEFINE h == [level EXCEPT ![a][b] = @ + d]
<1>1. h \in [Items -> [Stores -> Int]]
    OBVIOUS
<1>2. ASSUME NEW i \in Items PROVE level'[i] = h[i]
    <2>1. ASSUME NEW s \in Stores PROVE level'[i][s] = h[i][s]
        OBVIOUS
    <2>2. level'[i] \in [Stores -> Int] /\ h[i] \in [Stores -> Int]
        BY <1>1
    <2> HIDE DEF h
    <2>3. QED
        BY <2>1, <2>2
<1> HIDE DEF h
<1>3. level' = h
    BY <1>1, <1>2
<1>4. QED
    BY <1>3 DEF h

\* The commit of one line or operation.
LEMMA CommitOne ==
    ASSUME RefinementInv, NEW x \in Sessions, Commit(x), job[x].type # "transfer"
    PROVE  /\ Current(x) \in [item : Items, store : Stores, delta : Int]
           /\ Current(x).delta \in Quantities \/ -Current(x).delta \in Quantities
           /\ level' = [level EXCEPT ![Current(x).item][Current(x).store] = @ + Current(x).delta]
           /\ ~IsEvent(job[x]) =>
                level[Current(x).item][Current(x).store] + Current(x).delta >= 0
                \/ Current(x).item \in AllowNegative
<1> DEFINE n == Len(results[x]) + 1
           leg == Current(x)
<1>1. /\ pc[x] = "commit" /\ job[x] \in Jobs /\ n \in 1..LegCount(job[x])
      /\ leg = Leg(job[x], n) /\ leg \in [item : Items, store : Stores, delta : Int]
    BY CurrentType DEF Commit, RefinementInv, StockInv
<1>2. StagedLegs(x) = {n}
    BY <1>1 DEF StagedLegs
<1>3. leg.delta \in Quantities \/ -leg.delta \in Quantities
    BY <1>1, LegAmount
<1>4. level'[leg.item][leg.store] = level[leg.item][leg.store] + leg.delta
    <2>1. leg = [item |-> leg.item, store |-> leg.store, delta |-> leg.delta]
          /\ leg.item \in Items /\ leg.store \in Stores
        BY <1>1
    <2>2. Leg(job[x], n) = [item |-> leg.item, store |-> leg.store, delta |-> leg.delta]
        BY <1>1, <2>1
    <2> HIDE DEF n, leg
    <2>3. QED
        BY <1>2, <2>1, <2>2, LevelMoves
<1>5. \A i \in Items, s \in Stores :
          ~(i = leg.item /\ s = leg.store) => level'[i][s] = level[i][s]
    BY <1>1, <1>2, LevelStays
<1>6. level' = [level EXCEPT ![leg.item][leg.store] = @ + leg.delta]
    <2>1. leg.item \in Items /\ leg.store \in Stores /\ leg.delta \in Int
        BY <1>1
    <2>2. level' \in [Items -> [Stores -> Int]] /\ level \in [Items -> [Stores -> Int]]
        BY WriteRowsEffect DEF Commit, RefinementInv, StockInv, TypeOK
    <2> HIDE DEF leg
    <2>3. PICK a \in Items, b \in Stores, d \in Int :
              a = leg.item /\ b = leg.store /\ d = leg.delta
        BY ONLY <2>1
    <2>4. /\ level'[a][b] = level[a][b] + d
          /\ \A i \in Items, s \in Stores : ~(i = a /\ s = b) => level'[i][s] = level[i][s]
        BY ONLY <1>4, <1>5, <2>3
    <2>5. level' = [level EXCEPT ![a][b] = @ + d]
        BY ONLY <2>2, <2>4, OneLevel
    <2>6. QED
        BY ONLY <2>3, <2>5
<1>7. ASSUME ~IsEvent(job[x])
      PROVE  level[leg.item][leg.store] + leg.delta >= 0 \/ leg.item \in AllowNegative
    <2>1. Effect(leg) \in {Effect(w) : w \in staged[x]}
        BY <1>1, <1>2 DEF RefinementInv, ShapeInv, Shape
    <2>2. PICK w \in staged[x] : Effect(w) = Effect(leg)
        BY <2>1
    <2>3. w.item = leg.item /\ w.store = leg.store /\ w.delta = leg.delta
        BY <2>2 DEF Effect
    <2>4. w.quantity = level[leg.item][leg.store] + leg.delta
        BY <2>2, <2>3 DEF RefinementInv, StockInv, StagedInv
    <2>5. QED
        BY <1>1, <1>7, <2>2, <2>3, <2>4 DEF RefinementInv, CoverInv
<1>8. QED
    BY <1>1, <1>3, <1>6, <1>7

\* The commit of a transfer.
LEMMA CommitTransfer ==
    ASSUME RefinementInv, NEW x \in Sessions, Commit(x), job[x].type = "transfer"
    PROVE  \E i \in Items, q \in Quantities :
             /\ job[x].store \in Stores /\ job[x].to \in Stores /\ job[x].store # job[x].to
             /\ level' = [level EXCEPT ![i][job[x].store] = @ - q, ![i][job[x].to] = @ + q]
             /\ level[i][job[x].store] - q >= 0 \/ i \in AllowNegative
<1> DEFINE j == job[x]
           i == j.lines[1].item
           q == j.lines[1].quantity
<1>1. /\ pc[x] = "commit" /\ j \in Jobs /\ Len(results[x]) = 1
      /\ j.store \in Stores /\ j.to \in Stores /\ j.store # j.to
      /\ LegCount(j) = 2 /\ ~IsEvent(j)
    BY JobFacts DEF Commit, RefinementInv, ShapeInv, StockInv, PlaceInv
<1>2. StagedLegs(x) = {1, 2}
    BY <1>1 DEF StagedLegs
<1>3. /\ Leg(j, 1) = [item |-> i, store |-> j.store, delta |-> -q]
      /\ Leg(j, 2) = [item |-> i, store |-> j.to, delta |-> q]
    BY DEF Leg
<1>4. Leg(j, 1) \in [item : Items, store : Stores, delta : Int]
      /\ Leg(j, 2) \in [item : Items, store : Stores, delta : Int]
    BY <1>1, LegType
<1>5. i \in Items /\ q \in Int
    BY <1>3, <1>4
<1>6. q \in Quantities
    BY <1>1, StockAssumption DEF Manual
<1>7. level'[i][j.store] = level[i][j.store] - q /\ level'[i][j.to] = level[i][j.to] + q
    <2>1. level[i][j.store] \in Int
        BY <1>1, <1>5 DEF RefinementInv, StockInv, TypeOK
    <2>2. level'[i][j.store] = level[i][j.store] + (-q)
        BY <1>1, <1>2, <1>3, <1>5, LevelMoves
    <2>3. level'[i][j.to] = level[i][j.to] + q
        BY <1>1, <1>2, <1>3, <1>5, LevelMoves
    <2>4. QED
        BY <1>5, <2>1, <2>2, <2>3
<1>8. level' \in [Items -> [Stores -> Int]] /\ level \in [Items -> [Stores -> Int]]
    BY WriteRowsEffect DEF Commit, RefinementInv, StockInv, TypeOK
<1>9. level' = [level EXCEPT ![i][j.store] = @ - q, ![i][j.to] = @ + q]
    <2>1. \A k \in Items, s \in Stores :
              k # i \/ s \notin {j.store, j.to} => level'[k][s] = level[k][s]
        BY <1>2, <1>3, LevelStays
    <2>2. j.store \in Stores /\ j.to \in Stores /\ j.store # j.to
        BY <1>1
    <2> HIDE DEF i, j, q
    <2> DEFINE h == [level EXCEPT ![i][j.store] = @ - q, ![i][j.to] = @ + q]
    <2>3. h \in [Items -> [Stores -> Int]]
        BY <1>5, <1>8, <2>2
    <2>4. ASSUME NEW k \in Items PROVE level'[k] = h[k]
        <3>1. ASSUME NEW s \in Stores PROVE level'[k][s] = h[k][s]
            BY <1>5, <1>7, <1>8, <2>1, <2>2
        <3>2. level'[k] \in [Stores -> Int] /\ h[k] \in [Stores -> Int]
            BY <1>8, <2>3
        <3> HIDE DEF h
        <3>3. QED
            BY <3>1, <3>2
    <2> HIDE DEF h
    <2>5. level' = h
        BY <1>8, <2>3, <2>4
    <2>6. QED
        BY <2>5 DEF h
<1>10. level[i][j.store] - q >= 0 \/ i \in AllowNegative
    <2>1. Effect(Leg(j, 1)) \in {Effect(w) : w \in staged[x]}
        BY <1>2 DEF RefinementInv, ShapeInv, Shape
    <2>2. PICK w \in staged[x] : Effect(w) = Effect(Leg(j, 1))
        BY <2>1
    <2>3. w.item = i /\ w.store = j.store /\ w.delta = -q
        BY <1>3, <2>2 DEF Effect
    <2>4. w.quantity = level[i][j.store] + (-q)
        BY <2>2, <2>3 DEF RefinementInv, StockInv, StagedInv
    <2>5. w.quantity >= 0 \/ i \in AllowNegative
        BY <1>1, <2>2, <2>3 DEF RefinementInv, CoverInv
    <2>6. QED
        BY <1>1, <1>5, <1>8, <2>4, <2>5
<1>11. QED
    BY <1>1, <1>5, <1>6, <1>9, <1>10

----------------------------------------------------------------------------
(* Theorems.                                                                *)

\* A commit is a step of the book.
LEMMA CommitIsBookStep ==
    ASSUME RefinementInv, NEW x \in Sessions, Commit(x)
    PROVE  Book!Next
<1> DEFINE leg == Current(x)
           q == leg.delta
<1>1. pc[x] = "commit" /\ job[x] \in Jobs /\ ~(IsEvent(job[x]) /\ Key(x) \in processed)
      /\ WriteRows(x)
    BY DEF Commit, RefinementInv, StockInv, PlaceInv
<1>2. CASE IsEvent(job[x])
    <2>1. /\ Key(x) \in Keys \ processed /\ processed' = processed \cup {Key(x)}
          /\ job[x].type # "transfer"
        BY <1>1, <1>2, CurrentType, JobFacts DEF WriteRows, RefinementInv, StockInv
    <2>2. /\ leg.item \in Items /\ leg.store \in Stores /\ q \in Int
          /\ q \in Quantities \/ -q \in Quantities
          /\ level' = [level EXCEPT ![leg.item][leg.store] = @ + q]
        BY <2>1, CommitOne
    <2>3. Book!Line(Key(x), leg.item, leg.store, q)
        BY <2>1, <2>2 DEF Book!Line, Book!Changed
    <2>4. -(-q) = q
        BY <2>2
    <2>5. QED
        BY <2>1, <2>2, <2>3, <2>4 DEF Book!Next
<1>3. CASE ~IsEvent(job[x]) /\ job[x].type # "transfer"
    <2>1. /\ leg.item \in Items /\ leg.store \in Stores /\ q \in Int
          /\ q \in Quantities \/ -q \in Quantities
          /\ level' = [level EXCEPT ![leg.item][leg.store] = @ + q]
          /\ level[leg.item][leg.store] + q >= 0 \/ leg.item \in AllowNegative
        BY <1>3, CommitOne
    <2>2. Book!Correct(leg.item, leg.store, q)
        BY <1>1, <1>3, <2>1 DEF Book!Correct, Book!Changed, WriteRows
    <2>3. -(-q) = q
        BY <2>1
    <2>4. QED
        BY <2>1, <2>2, <2>3 DEF Book!Next
<1>4. CASE job[x].type = "transfer"
    <2>1. processed' = processed
        BY <1>1, <1>4, JobFacts DEF WriteRows
    <2>2. PICK i \in Items, r \in Quantities :
             /\ job[x].store \in Stores /\ job[x].to \in Stores /\ job[x].store # job[x].to
             /\ level' = [level EXCEPT ![i][job[x].store] = @ - r, ![i][job[x].to] = @ + r]
             /\ level[i][job[x].store] - r >= 0 \/ i \in AllowNegative
        BY <1>4, CommitTransfer
    <2>3. Book!Transfer(i, job[x].store, job[x].to, r)
        BY <2>1, <2>2 DEF Book!Transfer
    <2>4. QED
        BY <2>2, <2>3 DEF Book!Next
<1>5. QED
    BY <1>2, <1>3, <1>4

\* The other steps change neither the stock nor the processed events.
LEMMA OtherStepsStutter ==
    ASSUME [Next]_vars, \A x \in Sessions : ~Commit(x)
    PROVE  UNCHANGED <<level, processed>>
BY DEF Next, Handle, CheckProcessed, Skip, RefuseLine, RefuseOperation, Stage, KeyConflict,
       DeadlockVictim, Answer, Fail, Accept, Crash, vars

\* However calls interleave, fail and restart, what they do to the stock is
\* what StockBook allows: whole movements and whole transfers, a line once,
\* and no overdraft but by a sale.
THEOREM StockImplementsBook == Spec => Implements
<1>1. Init => Book!Init
    BY DEF Init, Book!Init
<1>2. RefinementInv /\ [Next]_vars => [Book!Next]_<<level, processed>>
    BY CommitIsBookStep, OtherStepsStutter
<1>3. QED
    BY <1>1, <1>2, RefinementInvariant, PTL DEF Spec, Implements, Book!Spec

\* Both legs of a transfer become visible together, so the stock of its two
\* stores stays what it was.
THEOREM TransfersAreWhole == Spec => TransfersConserve
<1>1. ASSUME RefinementInv, [Next]_vars, NEW x \in Sessions, NEW i \in Items,
             pc[x] = "commit", pc'[x] # "commit", job[x].type = "transfer"
      PROVE  level'[i][job[x].store] + level'[i][job[x].to] =
                 level[i][job[x].store] + level[i][job[x].to]
    <2>1. CASE Commit(x)
        <3>1. PICK k \in Items, q \in Quantities :
                /\ job[x].store \in Stores /\ job[x].to \in Stores
                /\ job[x].store # job[x].to
                /\ level' = [level EXCEPT ![k][job[x].store] = @ - q, ![k][job[x].to] = @ + q]
            BY <1>1, <2>1, CommitTransfer
        <3>2. level \in [Items -> [Stores -> Int]] /\ q \in Int
            BY <1>1, <3>1, StockAssumption DEF RefinementInv, StockInv, TypeOK
        <3>3. level[i][job[x].store] \in Int /\ level[i][job[x].to] \in Int
            BY <3>1, <3>2
        <3>4. CASE i = k
            <4>1. /\ level'[i][job[x].store] = level[i][job[x].store] - q
                  /\ level'[i][job[x].to] = level[i][job[x].to] + q
                BY <3>1, <3>2, <3>4
            <4>2. QED
                BY <3>2, <3>3, <4>1
        <3>5. CASE i # k
            <4>1. level'[i] = level[i]
                BY <3>1, <3>2, <3>5
            <4>2. QED
                BY <4>1
        <3>6. QED
            BY <3>4, <3>5
    <2>2. ASSUME NEW y \in Sessions, Commit(y), y # x PROVE FALSE
        BY <1>1, <2>2 DEF Commit, NextLeg, RefinementInv, StockInv, TypeOK
    <2>3. CASE \A y \in Sessions : ~Commit(y)
        BY <1>1, <2>3, OtherStepsStutter
    <2>4. QED
        BY <2>1, <2>2, <2>3
<1>2. RefinementInv /\ [Next]_vars =>
        [\A x \in Sessions, i \in Items :
           pc[x] = "commit" /\ pc'[x] # "commit" /\ job[x].type = "transfer" =>
               level'[i][job[x].store] + level'[i][job[x].to] =
                   level[i][job[x].store] + level[i][job[x].to]]_vars
    BY <1>1
<1>3. QED
    BY <1>2, RefinementInvariant, PTL DEF Spec, TransfersConserve
=============================================================================
