------------------------- MODULE Production_proofs -------------------------
(***************************************************************************)
(* Proofs about Production for any number of sessions, items, recipes and      *)
(* requests.  The argument: runs and events are read without a lock, so what    *)
(* a request relies on at its commit must be something no other request can     *)
(* take back (a started run stays started, a linked recipe stays linked, a      *)
(* record stays, a row that is gone does not return); what it writes to the     *)
(* stock is made under the locks of the items, from levels that are still in    *)
(* the table; and the rows it adds have its own number.                       *)
(***************************************************************************)
EXTENDS Production, WellFoundedInduction, TLAPS

Active(x) == pc[x] \in {"load", "lock", "check", "commit"}
Busy(x) == pc[x] \in {"lock", "check", "commit"}

\* Nothing is committed under the number of a request that is under way, or that
\* has not come yet.
Unused(n) ==
    /\ run[n] = NoRow /\ event[n] = NoRow /\ recipe[n] = NoRow
    /\ posted[<<"event", n>>] = None

\* What a request has made of what it read.
Loaded(x) ==
    LET j == job[x] IN
    /\ j.op = "complete" => run[j.id] = NoRow \/ Started(run[j.id])
    /\ j.op \in {"create", "produce"} => recipe[j.id] \in Items \cup {NoRow}
    /\ j.op = "link" => j.dish \in Items
    /\ j.op = "start" => moves[x] = Out(weighed[x])
    /\ j.op = "cancel" => \A i \in Items : moves[x][i] >= 0
    /\ j.op \in {"produce", "publish"} =>
          \E d \in Items : Made(x)[d] > 0 /\ Made(x) = [None EXCEPT ![d] = Made(x)[d]]
    /\ pc[x] = "commit" =>
          /\ ~Short(x)
          /\ j.op = "start" => run[j.id] = NoRow \/ Named(run[j.id].planned) \subseteq Named(weighed[x])

\* The levels a session goes by are those of the table, and locked.
Holds(x) ==
    /\ \A i \in Items : moves[x][i] # 0 /\ i \notin want[x] =>
          lock[i] = x /\ base[x][i] = level[i]
    /\ ~Busy(x) => moves[x] = None /\ want[x] = {}
    /\ pc[x] \in {"check", "commit"} => want[x] = {}

Own(x) ==
    /\ Holds(x)
    /\ Active(x) =>
          /\ job[x] \in Jobs /\ ticket[x] \in 1..jobs /\ Unused(ticket[x])
          /\ job[x].op # "recipe" => job[x].id <= jobs
          /\ job[x].op = "void" => event[job[x].id] # NoRow
    /\ Busy(x) => Loaded(x)

\* Requests under way have numbers of their own, and no row they name has one.
Apart(x, y) ==
    Active(x) /\ Active(y) =>
        /\ ticket[x] = ticket[y] => x = y
        /\ job[x].op # "recipe" => job[x].id # ticket[y]

RowsInv ==
    /\ CompletedIsWeighed /\ PublishedIffRecorded /\ OneRecipePerDish /\ HistoryReadable
    /\ EventMovesStock
    /\ \A n \in Ids : n > jobs => Unused(n)

ProductionInv ==
    /\ TypeOK /\ RowsInv /\ LedgerBalances
    /\ \A x \in Sessions : Own(x)
    /\ \A x, y \in Sessions : Apart(x, y)

----------------------------------------------------------------------------
(* Sums over the requests.                                                  *)

Below == {ss \in Nat \X Nat : ss[1] < ss[2]}

\* The numbers have no endless descent.
LEMMA BelowWF == IsWellFoundedOn(Below, Nat)
    BY NatLessThanWellFounded DEF OpToRel, Below

\* What holds of 0 and of each next number holds of all numbers.
LEMMA Induction ==
    ASSUME NEW S, 0 \in S, \A n \in S \cap Nat : n + 1 \in S
    PROVE  Nat \subseteq S
<1> DEFINE R == Nat \ S
<1> SUFFICES ASSUME R # {} PROVE FALSE
    OBVIOUS
<1>1. PICK m \in R : \A n \in R : <<n, m>> \notin Below
  <2> HIDE DEF R
  <2>1. R \subseteq Nat
    BY DEF R
  <2>2. QED
    BY <2>1, BelowWF, WFMin
<1>2. m \in Nat /\ m \notin S /\ m # 0
    OBVIOUS
<1>3. m - 1 \in Nat /\ m - 1 \in S
  <2>1. <<m - 1, m>> \in Below
    BY <1>2 DEF Below
  <2>2. QED
    BY <1>1, <1>2, <2>1
<1>4. (m - 1) + 1 = m
    BY <1>2
<1>5. m \in S
    BY <1>3, <1>4
<1>6. QED
    BY <1>2, <1>5

\* The sums of the first requests, one by one.
Prefix(f, g, n) ==
    /\ g \in [0..n -> Int]
    /\ \A k \in 0..n : g[k] = f[k] + (IF k = 0 THEN 0 ELSE g[k - 1])

\* They can be added up,
LEMMA PrefixExists ==
    ASSUME NEW f \in [Ids -> Int]
    PROVE  \E g : Prefix(f, g, MaxJobs)
<1> USE ProductionAssumption DEF Ids
<1> DEFINE S == {n \in Nat : n \in 0..MaxJobs => \E g : Prefix(f, g, n)}
<1>1. 0 \in S
  <2>1. Prefix(f, [k \in 0..0 |-> f[0]], 0)
    BY DEF Prefix
  <2>2. QED
    BY <2>1
<1>2. ASSUME NEW n \in S \cap Nat PROVE n + 1 \in S
  <2> SUFFICES ASSUME n + 1 \in 0..MaxJobs PROVE \E g : Prefix(f, g, n + 1)
    BY <1>2
  <2>1. PICK g : Prefix(f, g, n)
    BY <1>2
  <2> DEFINE h == [k \in 0..(n + 1) |-> IF k = n + 1 THEN f[n + 1] + g[n] ELSE g[k]]
  <2>2. Prefix(f, h, n + 1)
    <3>1. h \in [0..(n + 1) -> Int]
      BY <2>1 DEF Prefix
    <3>2. ASSUME NEW k \in 0..(n + 1) PROVE h[k] = f[k] + (IF k = 0 THEN 0 ELSE h[k - 1])
      <4>1. CASE k = n + 1
        BY <4>1
      <4>2. CASE k \in 0..n
        <5>1. k # n + 1 /\ (k # 0 => k - 1 \in 0..(n + 1) /\ k - 1 # n + 1)
          BY ONLY <4>2, n \in Nat
        <5>2. h[k] = g[k]
          BY <5>1
        <5>3. k # 0 => h[k - 1] = g[k - 1]
          BY <5>1
        <5>4. QED
          BY <2>1, <4>2, <5>2, <5>3 DEF Prefix
      <4>3. QED
        BY <4>1, <4>2
    <3>3. QED
      BY <3>1, <3>2 DEF Prefix
  <2>3. QED
    BY <2>2
<1>3. Nat \subseteq S
  <2> HIDE DEF S
  <2> QED BY <1>1, <1>2, Induction
<1>4. QED
    BY <1>3

\* and the total is the last of the sums.
LEMMA TotalIs ==
    ASSUME NEW f \in [Ids -> Int], NEW g, Prefix(f, g, MaxJobs)
    PROVE  Total(f) = g[MaxJobs]
<1> USE ProductionAssumption DEF Ids
<1> DEFINE F(h) == [n \in Ids |-> f[n] + (IF n = 0 THEN 0 ELSE h[n - 1])]
<1> DEFINE T[n \in Ids] == f[n] + (IF n = 0 THEN 0 ELSE T[n - 1])
<1>1. g = F(g)
    BY DEF Prefix
<1>2. T = F(T)
  <2>1. T = CHOOSE h : h = F(h)
    OBVIOUS
  <2> HIDE DEF T, F
  <2>2. QED
    BY <1>1, <2>1
<1> HIDE DEF T
<1>3. T[MaxJobs] = g[MaxJobs]
  <2> DEFINE S == {n \in Nat : n \in Ids => T[n] = g[n]}
  <2>1. 0 \in S
    BY <1>1, <1>2
  <2>2. ASSUME NEW n \in S \cap Nat PROVE n + 1 \in S
    BY <1>1, <1>2, <2>2
  <2>3. Nat \subseteq S
    <3> HIDE DEF S
    <3> QED BY <2>1, <2>2, Induction
  <2>4. QED
    BY <2>3
<1>4. Total(f) = T[MaxJobs]
    BY DEF Total, T
<1>5. QED
    BY <1>3, <1>4

\* A total is a number.
LEMMA TotalType ==
    ASSUME NEW f \in [Ids -> Int]
    PROVE  Total(f) \in Int
<1>1. PICK g : Prefix(f, g, MaxJobs)
    BY PrefixExists
<1>2. Total(f) = g[MaxJobs]
    BY <1>1, TotalIs
<1>3. QED
    BY <1>1, <1>2, ProductionAssumption DEF Prefix

\* A total changes by what one request adds.
LEMMA TotalAdd ==
    ASSUME NEW f \in [Ids -> Int], NEW k \in Ids, NEW d \in Int
    PROVE  Total([f EXCEPT ![k] = @ + d]) = Total(f) + d
<1> USE ProductionAssumption DEF Ids
<1> DEFINE h == [f EXCEPT ![k] = @ + d]
<1>1. PICK g : Prefix(f, g, MaxJobs)
    BY PrefixExists
<1> DEFINE e == [n \in Ids |-> IF n < k THEN g[n] ELSE g[n] + d]
<1>2. h \in [Ids -> Int]
    OBVIOUS
<1>3. Prefix(h, e, MaxJobs)
  <2>1. e \in [0..MaxJobs -> Int]
    BY <1>1 DEF Prefix
  <2>2. ASSUME NEW n \in Ids PROVE e[n] = h[n] + (IF n = 0 THEN 0 ELSE e[n - 1])
    <3>1. g[n] = f[n] + (IF n = 0 THEN 0 ELSE g[n - 1]) /\ g[n] \in Int
        /\ (n # 0 => n - 1 \in Ids /\ g[n - 1] \in Int)
      BY <1>1 DEF Prefix
    <3>2. CASE n < k
      BY <3>1, <3>2
    <3>3. CASE n = k
      <4>1. h[n] = f[n] + d /\ e[n] = g[n] + d /\ (n # 0 => e[n - 1] = g[n - 1])
        BY <3>3, <3>1
      <4>2. QED
        BY <3>1, <3>3, <4>1
    <3>4. CASE n > k
      <4>1. n # k /\ n # 0 /\ ~(n < k) /\ ~(n - 1 < k)
        BY <3>4
      <4>2. h[n] = f[n] /\ e[n] = g[n] + d
        BY <4>1
      <4>3. e[n - 1] = g[n - 1] + d
        BY <3>1, <4>1
      <4>4. QED
        BY <3>1, <4>1, <4>2, <4>3
    <3>5. QED
      BY <3>2, <3>3, <3>4
  <2>3. QED
    BY <2>1, <2>2 DEF Prefix
<1>4. Total(f) = g[MaxJobs]
    BY <1>1, TotalIs
<1>5. Total(h) = e[MaxJobs]
  <2> HIDE DEF h, e
  <2> QED BY <1>2, <1>3, TotalIs
<1>6. e[MaxJobs] = g[MaxJobs] + d
    BY <1>1
<1>7. QED
    BY <1>4, <1>5, <1>6

\* Of nothing the total is nothing, and of what only the first has, it is that.
LEMMA TotalFirst ==
    ASSUME NEW f \in [Ids -> Int], \A n \in Ids : n # 0 => f[n] = 0
    PROVE  Total(f) = f[0]
<1> USE ProductionAssumption DEF Ids
<1>1. PICK g : Prefix(f, g, MaxJobs)
    BY PrefixExists
<1> DEFINE S == {n \in Nat : n \in Ids => g[n] = f[0]}
<1>2. 0 \in S
    BY <1>1 DEF Prefix
<1>3. ASSUME NEW n \in S \cap Nat PROVE n + 1 \in S
  <2> SUFFICES ASSUME n + 1 \in Ids PROVE g[n + 1] = f[0]
    OBVIOUS
  <2>1. n \in Ids /\ g[n] = f[0] /\ f[n + 1] = 0 /\ n + 1 # 0 /\ (n + 1) - 1 = n
    OBVIOUS
  <2>2. g[n + 1] = f[n + 1] + g[n]
    BY <1>1, <2>1 DEF Prefix
  <2>3. QED
    BY <2>1, <2>2
<1>4. Nat \subseteq S
  <2> HIDE DEF S
  <2> QED BY <1>2, <1>3, Induction
<1>5. g[MaxJobs] = f[0]
    BY <1>4
<1>6. QED
    BY <1>1, <1>5, TotalIs

----------------------------------------------------------------------------
(* What a request may rely on while others go on.                           *)

BookTypes ==
    /\ recipe \in [Ids -> Items \cup {NoItem, NoRow}]
    /\ component \subseteq Component
    /\ run \in [Ids -> RunRow \cup {NoRow}]
    /\ event \in [Ids -> EventRow \cup {NoRow}]
    /\ level \in [Items -> Int]
    /\ posted \in [Refs -> [Items -> Int]]
OwnTypes ==
    /\ lock \in [Items -> Sessions \cup {NoSession}]
    /\ pc \in [Sessions -> Places]
    /\ job \in [Sessions -> Jobs \cup {NoJob}]
    /\ ticket \in [Sessions -> Ids]
    /\ rows \in [Sessions -> SUBSET Component] /\ want \in [Sessions -> SUBSET Items]
    /\ weighed \in [Sessions -> Lines]
    /\ moves \in [Sessions -> [Items -> Int]] /\ base \in [Sessions -> [Items -> Int]]
    /\ jobs \in Ids /\ aborts \in 0..MaxAborts

\* The types are those of the tables and those of the sessions.
LEMMA TypesAre == TypeOK <=> BookTypes /\ OwnTypes
    BY DEF TypeOK, BookTypes, OwnTypes

\* No quantity of anything is a list of lines, and changes nothing.
LEMMA NoneType == None \in Lines /\ None \in [Items -> Int] /\ Named(None) = {}
    BY DEF None, Lines, Named

\* A step of x does not touch what is locked by others, brings rows only under its
\* own number, brings no row back, and takes back nothing that others rely on.
Mild(x) ==
    /\ \A i \in Items : lock[i] # x => level'[i] = level[i]
    /\ \A n \in Ids : event[n] # NoRow => event'[n] # NoRow
    /\ \A n \in Ids : ~(Active(x) /\ n = ticket[x]) =>
          /\ Unused(n) => Unused(n)'
          /\ recipe[n] \in Items \cup {NoRow} => recipe'[n] \in Items \cup {NoRow}
          /\ run[n] = NoRow => run'[n] = NoRow
          /\ run[n] # NoRow => \/ run'[n] = NoRow
                               \/ /\ run'[n].planned = run[n].planned
                                  /\ Started(run[n]) => Started(run'[n])
Kindly(x) ==
    /\ Mild(x)
    /\ \A i \in Items : lock[i] \notin {x, NoSession} => lock'[i] = lock[i]
    /\ jobs <= jobs'

\* It changes what its own session has in mind.
Same(y) ==
    /\ pc'[y] = pc[y] /\ job'[y] = job[y] /\ ticket'[y] = ticket[y]
    /\ weighed'[y] = weighed[y] /\ moves'[y] = moves[y]
    /\ base'[y] = base[y] /\ want'[y] = want[y]
Alone(x) == \A y \in Sessions \ {x} : Same(y)

\* What the other requests rely on stays true.
LEMMA OthersKeep ==
    ASSUME TypeOK, \A z \in Sessions : Own(z), \A z, w \in Sessions : Apart(z, w),
           NEW x \in Sessions, Kindly(x), Alone(x), NEW y \in Sessions \ {x}, jobs' \in Ids
    PROVE  Own(y)'
<1> USE ProductionAssumption
<1>1. /\ y \in Sessions /\ y # x /\ y # NoSession /\ Own(y) /\ Same(y)
      /\ Apart(y, x) /\ Apart(x, y)
    BY DEF Alone
<1>2. Holds(y)'
    BY <1>1 DEF Own, Holds, Same, Kindly, Mild, Busy
<1>3. ASSUME Active(y)
      PROVE  /\ job[y] \in JobType /\ job[y].id \in Ids /\ ticket[y] \in Ids
             /\ ~(Active(x) /\ ticket[y] = ticket[x])
             /\ job[y].op # "recipe" => ~(Active(x) /\ job[y].id = ticket[x])
  <2>1. job[y] \in JobType
    BY <1>1, <1>3 DEF Own
  <2>2. QED
    BY <1>1, <1>3, <2>1 DEF TypeOK, Apart, JobType
<1>4. ASSUME Active(y)' PROVE
          /\ job'[y] \in Jobs /\ ticket'[y] \in 1..jobs' /\ Unused(ticket[y])'
          /\ job'[y].op # "recipe" => job'[y].id <= jobs'
          /\ job'[y].op = "void" => event'[job'[y].id] # NoRow
  <2>1. Active(y)
    BY <1>1, <1>4 DEF Active, Same
  <2>2. Unused(ticket[y])'
    <3>1. PICK n \in Ids : n = ticket[y]
      BY <2>1, <1>3
    <3>2. Unused(n) /\ ~(Active(x) /\ n = ticket[x])
      BY <2>1, <3>1, <1>1, <1>3 DEF Own
    <3>3. Unused(n)'
      BY <3>2 DEF Kindly, Mild
    <3>4. ticket'[y] = n
      BY <1>1, <3>1 DEF Same
    <3>5. QED
      BY <3>3, <3>4 DEF Unused
  <2>3. jobs \in Nat /\ jobs' \in Nat /\ jobs <= jobs'
    BY DEF TypeOK, Ids, Kindly
  <2>4. job[y] \in Jobs /\ ticket[y] \in 1..jobs /\ (job[y].op # "recipe" => job[y].id <= jobs)
      /\ (job[y].op = "void" => event[job[y].id] # NoRow)
    BY <2>1, <1>1 DEF Own
  <2>5. job[y].id \in Nat
    BY <2>1, <1>3 DEF Ids
  <2>6. ticket'[y] \in 1..jobs' /\ (job[y].op # "recipe" => job[y].id <= jobs')
    BY <1>1, <2>3, <2>4, <2>5 DEF Same
  <2>7. job[y].op = "void" => event'[job[y].id] # NoRow
    BY <2>1, <2>4, <1>3 DEF Kindly, Mild
  <2>8. QED
    BY <1>1, <2>2, <2>4, <2>6, <2>7 DEF Same
<1>5. ASSUME Busy(y)' PROVE Loaded(y)'
  <2>1. Busy(y) /\ Active(y) /\ Loaded(y)
    BY <1>1, <1>5 DEF Busy, Active, Same, Own
  <2>2. Made(y)' = Made(y) /\ (Short(y)' <=> Short(y))
    BY <1>1 DEF Same, Made, Short
  <2>3. Out(weighed[y])' = Out(weighed[y])
    BY <1>1 DEF Same, Out
  <2> DEFINE n == job[y].id
  <2>4. job[y].op # "recipe" =>
          /\ recipe[n] \in Items \cup {NoRow} => recipe'[n] \in Items \cup {NoRow}
          /\ run[n] = NoRow => run'[n] = NoRow
          /\ run[n] # NoRow => \/ run'[n] = NoRow
                               \/ /\ run'[n].planned = run[n].planned
                                  /\ Started(run[n]) => Started(run'[n])
    BY <2>1, <1>3 DEF Kindly, Mild
  <2>5. (job[y].op = "complete" => run'[n] = NoRow \/ Started(run'[n]))
      /\ (job[y].op \in {"create", "produce"} => recipe'[n] \in Items \cup {NoRow})
      /\ (job[y].op = "link" => job[y].dish \in Items)
      /\ (job[y].op = "start" => moves[y] = Out(weighed[y]))
      /\ (job[y].op = "cancel" => \A i \in Items : moves[y][i] >= 0)
    BY <2>1, <2>4 DEF Loaded
  <2>6. job[y].op \in {"produce", "publish"} =>
          \E d \in Items : Made(y)[d] > 0 /\ Made(y) = [None EXCEPT ![d] = Made(y)[d]]
    BY <2>1 DEF Loaded
  <2>7. pc[y] = "commit" => ~Short(y) /\
          (job[y].op = "start" => run'[n] = NoRow \/ Named(run'[n].planned) \subseteq Named(weighed[y]))
    BY <2>1, <2>4 DEF Loaded
  <2> HIDE DEF n
  <2>9. job'[y] = job[y] /\ job[y].id = n /\ moves'[y] = moves[y] /\ weighed'[y] = weighed[y]
      /\ pc'[y] = pc[y]
    BY <1>1 DEF Same, n
  <2>10. None' = None /\ \A d \in Items : [None EXCEPT ![d] = Made(y)[d]]' = [None EXCEPT ![d] = Made(y)[d]]
    BY <2>2 DEF None
  <2>11. Named(weighed[y])' = Named(weighed[y])
    BY <2>9 DEF Named
  <2>12. QED
    BY <2>2, <2>3, <2>5, <2>6, <2>7, <2>9, <2>10, <2>11 DEF Loaded, Started, Named, Out
<1>6. QED
    BY <1>1, <1>2, <1>4, <1>5 DEF Own, Same

\* Requests that go on or end are apart as they were.
LEMMA ApartKeeps ==
    ASSUME \A z, w \in Sessions : Apart(z, w),
           \A z \in Sessions : Active(z)' => Active(z) /\ job'[z] = job[z] /\ ticket'[z] = ticket[z]
    PROVE  \A z, w \in Sessions : Apart(z, w)'
    BY DEF Apart

----------------------------------------------------------------------------
(* How a request goes on, and how it ends.                                  *)

\* A step that changes no table and no stock disturbs neither.
LEMMA QuietKeeps ==
    ASSUME ProductionInv, NEW x \in Sessions, UNCHANGED <<book, stock>>,
           jobs' \in Ids, jobs <= jobs'
    PROVE  BookTypes' /\ RowsInv' /\ LedgerBalances' /\ Mild(x)
<1> USE DEF book, stock
<1>1. BookTypes'
    BY TypesAre DEF ProductionInv, BookTypes
<1>2. \A n \in Ids : Unused(n)' <=> Unused(n)
    BY DEF Unused
<1>3. RowsInv'
  <2>1. CompletedIsWeighed' /\ PublishedIffRecorded' /\ OneRecipePerDish' /\ HistoryReadable'
      /\ EventMovesStock'
    BY DEF ProductionInv, RowsInv, CompletedIsWeighed, PublishedIffRecorded, OneRecipePerDish,
           HistoryReadable, EventMovesStock, Kept, Recorded, EventsOf, ReadRuns, ReadEvents
  <2>2. ASSUME NEW n \in Ids, n > jobs' PROVE Unused(n)'
    <3>1. n > jobs
      BY <2>2, ProductionAssumption DEF ProductionInv, TypeOK, Ids
    <3>2. QED
      BY <3>1, <1>2 DEF ProductionInv, RowsInv
  <2>3. QED
    BY <2>1, <2>2 DEF RowsInv
<1>4. LedgerBalances'
  <2>1. \A i \in Items : Moved(i)' = Moved(i)
    BY DEF Moved
  <2>2. \A i \in Items : Total(Moved(i))' = Total(Moved(i))
    BY <2>1 DEF Total
  <2>3. QED
    BY <2>2 DEF ProductionInv, LedgerBalances
<1>5. Mild(x)
    BY <1>2 DEF Mild
<1>6. QED
    BY <1>1, <1>3, <1>4, <1>5

\* What is left to show of a step.
LEMMA StepKeeps ==
    ASSUME ProductionInv, NEW x \in Sessions, Alone(x), Kindly(x),
           BookTypes', OwnTypes', RowsInv', LedgerBalances', Own(x)',
           \A z \in Sessions : Active(z)' => Active(z) /\ job'[z] = job[z] /\ ticket'[z] = ticket[z]
    PROVE  ProductionInv'
<1>1. \A y \in Sessions \ {x} : Own(y)'
    BY OthersKeep DEF ProductionInv, OwnTypes
<1>2. \A z, w \in Sessions : Apart(z, w)'
    BY ApartKeeps DEF ProductionInv
<1>3. TypeOK'
    BY TypesAre DEF TypeOK, BookTypes, OwnTypes
<1>4. QED
    BY <1>1, <1>2, <1>3 DEF ProductionInv

\* A request that ends leaves nothing of its own.
LEMMA FinishKeeps ==
    ASSUME ProductionInv, NEW x \in Sessions, NEW answer \in Answers, Finish(x, answer),
           jobs' = jobs, aborts' \in 0..MaxAborts,
           BookTypes', RowsInv', LedgerBalances', Mild(x)
    PROVE  ProductionInv'
<1> USE ProductionAssumption
<1>1. OwnTypes
    BY TypesAre DEF ProductionInv
<1>2. pc' = [pc EXCEPT ![x] = answer] /\ lock' = Released(x)
    /\ job' = [job EXCEPT ![x] = NoJob] /\ ticket' = [ticket EXCEPT ![x] = 0]
    /\ rows' = [rows EXCEPT ![x] = {}] /\ weighed' = [weighed EXCEPT ![x] = None]
    /\ moves' = [moves EXCEPT ![x] = None] /\ base' = [base EXCEPT ![x] = None]
    /\ want' = [want EXCEPT ![x] = {}]
    BY DEF Finish, Goto
<1>3. OwnTypes'
  <2>1. lock' \in [Items -> Sessions \cup {NoSession}]
    BY <1>1, <1>2 DEF Released, OwnTypes
  <2>2. pc' \in [Sessions -> Places] /\ job' \in [Sessions -> Jobs \cup {NoJob}]
      /\ ticket' \in [Sessions -> Ids]
    BY <1>1, <1>2 DEF OwnTypes, Places, Ids
  <2>3. weighed' \in [Sessions -> Lines] /\ moves' \in [Sessions -> [Items -> Int]]
      /\ base' \in [Sessions -> [Items -> Int]]
    BY <1>1, <1>2, NoneType DEF OwnTypes
  <2>4. rows' \in [Sessions -> SUBSET Component] /\ want' \in [Sessions -> SUBSET Items]
    BY <1>1, <1>2 DEF OwnTypes
  <2>5. QED
    BY <1>1, <2>1, <2>2, <2>3, <2>4 DEF OwnTypes
<1>4. Alone(x)
    BY <1>1, <1>2 DEF OwnTypes, Alone, Same
<1>5. Kindly(x)
    BY <1>1, <1>2 DEF Kindly, Released, OwnTypes, Ids
<1>6. ~Active(x)' /\ ~Busy(x)' /\ moves'[x] = None /\ want'[x] = {} /\ pc'[x] = answer
    BY <1>1, <1>2 DEF OwnTypes, Active, Busy, Answers
<1>7. None' = None
    BY DEF None
<1>8. Own(x)'
  <2>1. Holds(x)'
    BY <1>6, <1>7 DEF Holds, Answers, None
  <2>2. QED
    BY <2>1, <1>6 DEF Own
<1>9. \A z \in Sessions : Active(z)' => Active(z) /\ job'[z] = job[z] /\ ticket'[z] = ticket[z]
    BY <1>4, <1>6 DEF Alone, Same, Active
<1>10. QED
    BY <1>3, <1>4, <1>5, <1>8, <1>9, StepKeeps

\* A request that fails changes nothing.
LEMMA FailsKeep ==
    ASSUME ProductionInv, NEW x \in Sessions, NEW answer \in Answers, Fails(x, answer)
    PROVE  ProductionInv'
<1>1. Finish(x, answer) /\ jobs' = jobs /\ aborts' = aborts /\ UNCHANGED <<book, stock>>
    BY DEF Fails, Leave
<1>2. jobs \in Ids /\ aborts \in 0..MaxAborts /\ jobs <= jobs'
    BY <1>1, ProductionAssumption DEF ProductionInv, TypeOK, Ids
<1>3. BookTypes' /\ RowsInv' /\ LedgerBalances' /\ Mild(x)
    BY <1>1, <1>2, QuietKeeps
<1>4. QED
    BY <1>1, <1>2, <1>3, FinishKeeps

\* A request that has read what it needs goes on to its commit.
LEMMA ToCommitKeeps ==
    ASSUME ProductionInv, NEW x \in Sessions, pc[x] = "load", NEW read \in SUBSET Component,
           ToCommit(x, read), job[x].op \notin {"start", "produce", "publish"},
           job[x].op = "complete" => run[job[x].id] = NoRow \/ Started(run[job[x].id]),
           job[x].op = "create" => recipe[job[x].id] \in Items \cup {NoRow},
           job[x].op = "link" => job[x].dish \in Items
    PROVE  ProductionInv'
<1> USE ProductionAssumption
<1>1. OwnTypes
    BY TypesAre DEF ProductionInv
<1>2. pc' = [pc EXCEPT ![x] = "commit"] /\ rows' = [rows EXCEPT ![x] = read]
    /\ UNCHANGED <<book, stock, lock, job, ticket, weighed, moves, base, want, jobs, aborts>>
    BY DEF ToCommit, Goto
<1>3. jobs' \in Ids /\ jobs <= jobs'
    BY <1>1, <1>2 DEF OwnTypes, Ids
<1>4. BookTypes' /\ RowsInv' /\ LedgerBalances' /\ Mild(x)
    BY <1>2, <1>3, QuietKeeps
<1>5. OwnTypes'
    BY <1>1, <1>2 DEF OwnTypes, Places
<1>6. Alone(x) /\ pc'[x] = "commit"
    BY <1>1, <1>2 DEF OwnTypes, Alone, Same
<1>7. Kindly(x)
    BY <1>2, <1>3, <1>4 DEF Kindly
<1>8. Own(x)
    BY DEF ProductionInv
<1>9. moves[x] = None /\ want[x] = {} /\ \A i \in Items : moves[x][i] = 0
    BY <1>8 DEF Own, Holds, Busy, None
<1>10. Own(x)'
  <2>1. Holds(x)'
    BY <1>2, <1>6, <1>9 DEF Holds, Busy
  <2>2. job'[x] = job[x] /\ run' = run /\ recipe' = recipe /\ event' = event
      /\ moves' = moves /\ base' = base /\ weighed' = weighed /\ ticket' = ticket /\ jobs' = jobs
      /\ posted' = posted /\ job' = job
    BY <1>2 DEF book, stock
  <2>3. ~Short(x)
    BY DEF Short
  <2>4. Loaded(x)'
    BY <2>2, <2>3, <1>9 DEF Loaded, Short, Started
  <2>5. QED
    BY <2>1, <2>2, <2>4, <1>8 DEF Own, Active, Unused, None
<1>11. \A z \in Sessions : Active(z)' => Active(z) /\ job'[z] = job[z] /\ ticket'[z] = ticket[z]
    BY <1>2, <1>6 DEF Alone, Same, Active
<1>12. QED
    BY <1>4, <1>5, <1>6, <1>7, <1>10, <1>11, StepKeeps

\* Or it has its answer.
LEMMA ReplyKeeps ==
    ASSUME ProductionInv, NEW x \in Sessions, pc[x] = "load", NEW place,
           place \in Answers \cup {"commit"}, Reply(x, place),
           place = "commit" =>
             /\ job[x].op \notin {"start", "produce", "publish"}
             /\ job[x].op = "complete" => run[job[x].id] = NoRow \/ Started(run[job[x].id])
             /\ job[x].op = "create" => recipe[job[x].id] \in Items \cup {NoRow}
             /\ job[x].op = "link" => job[x].dish \in Items
    PROVE  ProductionInv'
<1>1. CASE place = "commit"
  <2>1. ToCommit(x, {})
    BY <1>1 DEF Reply
  <2>2. {} \in SUBSET Component
    OBVIOUS
  <2>3. QED
    BY <1>1, <2>1, <2>2, ToCommitKeeps
<1>2. CASE place # "commit"
    BY <1>2, FailsKeep DEF Reply
<1>3. QED
    BY <1>1, <1>2

\* Or it goes on to lock the items whose stock it moves.
LEMMA MovingKeeps ==
    ASSUME ProductionInv, NEW x \in Sessions, pc[x] = "load",
           NEW lines \in Lines, NEW m \in [Items -> Int], NEW items \in SUBSET Items,
           Named(m) \subseteq items, Moving(x, lines, m, items),
           job[x].op \in {"start", "cancel", "produce", "publish", "void"},
           job[x].op = "start" => m = Out(lines),
           job[x].op = "cancel" => \A i \in Items : m[i] >= 0,
           job[x].op = "produce" => recipe[job[x].id] \in Items \cup {NoRow},
           job[x].op = "produce" => \E d \in Items, v \in Nat \ {0} :
              \A i \in Items : m[i] + lines[i] = (IF i = d THEN v ELSE 0),
           job[x].op = "publish" => \E d \in Items, v \in Nat \ {0} :
              \A i \in Items : m[i] = (IF i = d THEN v ELSE 0)
    PROVE  ProductionInv'
<1> USE ProductionAssumption
<1>1. OwnTypes
    BY TypesAre DEF ProductionInv
<1>2. pc' = [pc EXCEPT ![x] = "lock"] /\ weighed' = [weighed EXCEPT ![x] = lines]
    /\ moves' = [moves EXCEPT ![x] = m] /\ want' = [want EXCEPT ![x] = items]
    /\ UNCHANGED <<book, stock, lock, job, ticket, rows, base, jobs, aborts>>
    BY DEF Moving, Goto
<1>3. jobs' \in Ids /\ jobs <= jobs'
    BY <1>1, <1>2 DEF OwnTypes, Ids
<1>4. BookTypes' /\ RowsInv' /\ LedgerBalances' /\ Mild(x)
    BY <1>2, <1>3, QuietKeeps
<1>5. OwnTypes'
    BY <1>1, <1>2 DEF OwnTypes, Places
<1>6. Alone(x) /\ pc'[x] = "lock" /\ moves'[x] = m /\ weighed'[x] = lines /\ want'[x] = items
    BY <1>1, <1>2 DEF OwnTypes, Alone, Same
<1>7. Kindly(x)
    BY <1>2, <1>3, <1>4 DEF Kindly
<1>8. Own(x)
    BY DEF ProductionInv
<1>9. Own(x)'
  <2>1. Holds(x)'
    BY <1>6 DEF Holds, Busy, Named
  <2>2. job' = job /\ run' = run /\ recipe' = recipe /\ event' = event
      /\ ticket' = ticket /\ jobs' = jobs /\ posted' = posted
    BY <1>2 DEF book, stock
  <2>3. Made(x)' = [i \in Items |-> m[i] + (IF job[x].op = "produce" THEN lines[i] ELSE 0)]
    BY <1>6, <2>2 DEF Made
  <2>4. job[x].op \in {"produce", "publish"} =>
          \E d \in Items : Made(x)'[d] > 0 /\ Made(x)' = [None EXCEPT ![d] = Made(x)'[d]]
    <3> SUFFICES ASSUME job[x].op \in {"produce", "publish"}
                 PROVE  \E d \in Items : Made(x)'[d] > 0 /\ Made(x)' = [None EXCEPT ![d] = Made(x)'[d]]
      OBVIOUS
    <3>1. PICK d \in Items, v \in Nat \ {0} :
            \A i \in Items : m[i] + (IF job[x].op = "produce" THEN lines[i] ELSE 0)
                               = (IF i = d THEN v ELSE 0)
      <4>1. CASE job[x].op = "produce"
        BY <4>1
      <4>2. CASE job[x].op = "publish"
        <5>1. PICK d \in Items, v \in Nat \ {0} : \A i \in Items : m[i] = (IF i = d THEN v ELSE 0)
          BY <4>2
        <5>2. \A i \in Items : m[i] + 0 = (IF i = d THEN v ELSE 0)
          BY <5>1
        <5>3. QED
          BY <4>2, <5>2
      <4>3. QED
        BY <4>1, <4>2
    <3>2. Made(x)' = [i \in Items |-> IF i = d THEN v ELSE 0]
      BY <2>3, <3>1
    <3>3. QED
      BY <3>2 DEF None
  <2>5. Loaded(x)'
    <3>1. job[x].op \notin {"complete", "create", "link"}
      OBVIOUS
    <3>2. job[x].op \in {"produce", "publish"} =>
          (\E d \in Items : Made(x)[d] > 0 /\ Made(x) = [None EXCEPT ![d] = Made(x)[d]])'
      BY <2>4 DEF None
    <3>3. (job[x].op = "start" => m = Out(lines)')
      BY DEF Out
    <3>4. Out(weighed[x])' = Out(lines)
      BY <1>6 DEF Out
    <3>5. QED
      BY <1>6, <2>2, <3>1, <3>2, <3>4 DEF Loaded
  <2>6. QED
    BY <2>1, <2>2, <2>5, <1>8, <1>6 DEF Own, Active, Unused, None
<1>10. \A z \in Sessions : Active(z)' => Active(z) /\ job'[z] = job[z] /\ ticket'[z] = ticket[z]
    BY <1>2, <1>6 DEF Alone, Same, Active
<1>11. QED
    BY <1>4, <1>5, <1>6, <1>7, <1>9, <1>10, StepKeeps

----------------------------------------------------------------------------
(* What a request reads.                                                    *)

\* Amounts of what is named, out of stock.
LEMMA OutType ==
    ASSUME NEW lines \in Lines
    PROVE  Out(lines) \in [Items -> Int] /\ Named(Out(lines)) = Named(lines)
<1>1. \A i \in Items : lines[i] \in Nat /\ Out(lines)[i] = -lines[i]
    BY DEF Lines, Out
<1>2. QED
    BY <1>1 DEF Out, Named

\* The amounts of some component rows; an item that one is for is needed.
LEMMA AmountsType ==
    ASSUME NEW S \in SUBSET Component
    PROVE  /\ Amounts(S) \in Lines
           /\ \A c \in S : Amounts(S)[c.item] \in Nat \ {0}
<1>1. ASSUME NEW i \in Items PROVE
        Amounts(S)[i] \in Nat /\ ((\E c \in S : c.item = i) => Amounts(S)[i] # 0)
  <2>1. CASE \E c \in S : c.item = i
    <3> DEFINE d == CHOOSE c \in S : c.item = i
    <3>1. d \in S
      BY <2>1
    <3>2. d.need \in Nat \ {0}
      BY <3>1 DEF Component
    <3>3. Amounts(S)[i] = d.need
      BY <2>1 DEF Amounts
    <3>4. QED
      BY <3>2, <3>3
  <2>2. CASE ~\E c \in S : c.item = i
    BY <2>2 DEF Amounts
  <2>3. QED
    BY <2>1, <2>2
<1>2. Amounts(S) \in Lines
    BY <1>1 DEF Amounts, Lines
<1>3. \A c \in S : c.item \in Items
    BY DEF Component
<1>4. QED
    BY <1>1, <1>2, <1>3

\* Shares of a quantity are quantities, and of at least one unit at least one.
LEMMA Shares ==
    ASSUME NEW a \in Nat, NEW b \in Nat \ {0}
    PROVE  a \div b \in Nat /\ (a >= b => a \div b # 0)
<1>1. a = b * (a \div b) + (a % b) /\ a % b \in 0..(b - 1) /\ a \div b \in Int
    OBVIOUS
<1>2. a \div b >= 0
    BY <1>1
<1>3. ASSUME a >= b, a \div b = 0 PROVE FALSE
    BY <1>1, <1>3
<1>4. QED
    BY <1>1, <1>2, <1>3

\* A request under way is one of the jobs.
LEMMA UnderWay ==
    ASSUME ProductionInv, NEW x \in Sessions, Active(x)
    PROVE  /\ Own(x) /\ job[x] \in JobType /\ job[x] \in Jobs
           /\ job[x].id \in Ids /\ job[x].op \in Operations
           /\ job[x].dish \in Items \cup {NoItem} /\ job[x].lines \in Lines \cup {NoLines}
           /\ job[x].leading \in Items /\ job[x].quantity \in Nat \ {0}
           /\ job[x].key \in Keys \cup {NoKey}
           /\ ticket[x] \in Ids
<1>1. job[x] \in JobType /\ Own(x) /\ job[x] \in Jobs
    BY ProductionAssumption DEF ProductionInv, Own
<1>2. ticket[x] \in Ids
    BY DEF ProductionInv, TypeOK
<1>3. QED
    BY <1>1, <1>2 DEF JobType

\* A run that is kept, and a record, as their tables have them.
LEMMA RunIs ==
    ASSUME ProductionInv, NEW n \in Ids, run[n] # NoRow
    PROVE  /\ run[n] \in RunRow /\ n \in Kept /\ Coherent(run[n])
           /\ run[n].planned \in Lines /\ run[n].actual \in Nat
           /\ Started(run[n]) => run[n].measured \in Lines
           /\ run[n].recipe \in Ids /\ recipe[run[n].recipe] \in Items
           /\ run[n].published <=> EventsOf(n) # {}
<1>1. run[n] \in RunRow /\ n \in Kept
    BY DEF ProductionInv, TypeOK, Kept
<1>2. Coherent(run[n]) /\ ReadRuns(n) /\ (run[n].published <=> EventsOf(n) # {})
    BY <1>1 DEF ProductionInv, RowsInv, CompletedIsWeighed, HistoryReadable, PublishedIffRecorded
<1>3. QED
    BY <1>1, <1>2 DEF RunRow, Started, ReadRuns

\* What a record is made of, and that its recipe has a menu item.
LEMMA EventIs ==
    ASSUME ProductionInv, NEW n \in Ids, event[n] # NoRow
    PROVE  /\ event[n] \in EventRow /\ n \in Recorded
           /\ event[n].consumed \in Lines /\ event[n].output \in Nat /\ event[n].dish \in Items
           /\ event[n].recipe \in Ids /\ recipe[event[n].recipe] \in Items
           /\ event[n].run \in Kept \cup {NoRow}
<1>1. event[n] \in EventRow /\ n \in Recorded
    BY DEF ProductionInv, TypeOK, Recorded
<1>2. ReadEvents(n) /\ event[n].run \in Kept \cup {NoRow}
    BY <1>1 DEF ProductionInv, RowsInv, HistoryReadable
<1>3. QED
    BY <1>1, <1>2 DEF EventRow, ReadEvents

\* What an idempotency key finds is an answer, or nothing.
LEMMA LookupType == \A S : Lookup(S) \in {"ok", "load", "error"}
    BY DEF Lookup

\* Requests that need no stock keep the invariant as they read.
LEMMA QuietLoadsKeep ==
    ASSUME ProductionInv, NEW x \in Sessions,
           \/ Deny(x) \/ LoadPlan(x) \/ LoadCreate(x) \/ LoadComplete(x) \/ LoadDelete(x)
           \/ LoadRecipe(x) \/ LoadLink(x) \/ LoadUpdate(x) \/ LoadDrop(x)
    PROVE  ProductionInv'
<1> USE ProductionAssumption
<1>1. pc[x] = "load" /\ Active(x)
    BY DEF Deny, LoadPlan, LoadCreate, LoadComplete, LoadDelete, LoadRecipe, LoadLink, LoadUpdate,
           LoadDrop, Loading, Active
<1>2. job[x] \in JobType /\ job[x].id \in Ids
    BY <1>1, UnderWay
<1>3. component \subseteq Component /\ Of(job[x].id) \subseteq Component
    BY DEF ProductionInv, TypeOK, Of
<1>4. CASE Deny(x)
    BY <1>4, FailsKeep DEF Deny, Answers
<1>5. CASE LoadPlan(x)
  <2>1. job[x].op = "plan"
    BY <1>5 DEF LoadPlan, Loading
  <2>2. PICK place \in {"ok", "refused"} : Reply(x, place)
    BY <1>5 DEF LoadPlan
  <2>3. QED
    BY <1>1, <2>2, ReplyKeeps DEF Answers
<1>6. CASE LoadCreate(x)
  <2>1. job[x].op = "create"
    BY <1>6 DEF LoadCreate, Loading
  <2> DEFINE hit == Lookup(RunsWith(job[x].key))
  <2>2. hit \in {"ok", "load", "error"}
    BY LookupType
  <2>3. CASE hit # "load"
    <3>1. Reply(x, hit)
      BY <1>6, <2>3 DEF LoadCreate
    <3> HIDE DEF hit
    <3>2. hit \in Answers \cup {"commit"} /\ hit # "commit"
      BY <2>2, <2>3 DEF Answers
    <3>3. QED
      BY <1>1, <3>1, <3>2, ReplyKeeps
  <2>4. CASE hit = "load" /\ ~Plannable(job[x].id)
    <3>1. Reply(x, "refused")
      BY <1>6, <2>4 DEF LoadCreate
    <3>2. QED
      BY <1>1, <3>1, ReplyKeeps DEF Answers
  <2>5. CASE hit = "load" /\ Plannable(job[x].id)
    <3>1. ToCommit(x, Of(job[x].id))
      BY <1>6, <2>5 DEF LoadCreate
    <3>2. recipe[job[x].id] \in Items
      BY <2>5, <1>2 DEF Plannable, ProductionInv, TypeOK
    <3>3. QED
      BY <1>1, <1>3, <2>1, <3>1, <3>2, ToCommitKeeps
  <2>6. QED
    BY <2>3, <2>4, <2>5
<1>7. CASE LoadComplete(x)
  <2>1. job[x].op = "complete"
    BY <1>7 DEF LoadComplete, Loading
  <2>2. CASE run[job[x].id] # NoRow /\ run[job[x].id].status = "in_progress"
    <3>1. Reply(x, "commit")
      BY <1>7, <2>2 DEF LoadComplete
    <3>2. Started(run[job[x].id])
      BY <2>2, <1>2, RunIs DEF Coherent
    <3>3. QED
      BY <1>1, <2>1, <3>1, <3>2, ReplyKeeps
  <2>3. CASE ~(run[job[x].id] # NoRow /\ run[job[x].id].status = "in_progress")
    <3>1. Reply(x, "refused")
      BY <1>7, <2>3 DEF LoadComplete
    <3>2. QED
      BY <1>1, <3>1, ReplyKeeps DEF Answers
  <2>4. QED
    BY <2>2, <2>3
<1>8. CASE LoadDelete(x) \/ LoadRecipe(x) \/ LoadDrop(x)
  <2>1. job[x].op \in {"delete", "recipe", "drop"}
    BY <1>8 DEF LoadDelete, LoadRecipe, LoadDrop, Loading
  <2>2. PICK place \in {"commit", "refused"} : Reply(x, place)
    BY <1>8 DEF LoadDelete, LoadRecipe, LoadDrop
  <2>3. QED
    BY <1>1, <2>1, <2>2, ReplyKeeps DEF Answers
<1>9. CASE LoadLink(x)
  <2>1. job[x].op = "link"
    BY <1>9 DEF LoadLink, Loading
  <2>2. CASE recipe[job[x].id] = NoItem /\ Linkable(job[x].dish)
    <3>1. Reply(x, "commit")
      BY <1>9, <2>2 DEF LoadLink
    <3>2. job[x].dish \in Items
      BY <2>2 DEF Linkable
    <3>3. QED
      BY <1>1, <2>1, <3>1, <3>2, ReplyKeeps
  <2>3. CASE ~(recipe[job[x].id] = NoItem /\ Linkable(job[x].dish))
    <3>1. Reply(x, "refused")
      BY <1>9, <2>3 DEF LoadLink
    <3>2. QED
      BY <1>1, <3>1, ReplyKeeps DEF Answers
  <2>4. QED
    BY <2>2, <2>3
<1>10. CASE LoadUpdate(x)
  <2>1. job[x].op = "update"
    BY <1>10 DEF LoadUpdate, Loading
  <2>2. CASE recipe[job[x].id] = NoRow \/ ~Valid(job[x])
    <3>1. Reply(x, "refused")
      BY <1>10, <2>2 DEF LoadUpdate
    <3>2. QED
      BY <1>1, <3>1, ReplyKeeps DEF Answers
  <2>3. CASE ~(recipe[job[x].id] = NoRow \/ ~Valid(job[x]))
    <3>1. ToCommit(x, Of(job[x].id))
      BY <1>10, <2>3 DEF LoadUpdate
    <3>2. QED
      BY <1>1, <1>3, <2>1, <3>1, ToCommitKeeps
  <2>4. QED
    BY <2>2, <2>3
<1>11. QED
    BY <1>4, <1>5, <1>6, <1>7, <1>8, <1>9, <1>10

\* So does a run that is about to be started,
LEMMA LoadStartKeeps ==
    ASSUME ProductionInv, NEW x \in Sessions, LoadStart(x)
    PROVE  ProductionInv'
<1> USE ProductionAssumption
<1> DEFINE j == job[x]  r == run[j.id]
<1>1. pc[x] = "load" /\ Active(x) /\ j.op = "start"
    BY DEF LoadStart, Loading, Active
<1>2. j \in JobType /\ j.id \in Ids /\ j.lines \in Lines \cup {NoLines} /\ j.quantity \in Nat
    BY <1>1, UnderWay
<1>3. CASE Reply(x, "refused")
    BY <1>1, <1>3, ReplyKeeps DEF Answers
<1>4. CASE ~Reply(x, "refused")
  <2>1. r # NoRow
    BY <1>4 DEF LoadStart
  <2> DEFINE m == Weighed(j, r)
  <2>2. Moving(x, m, Out(m), Named(m))
    BY <1>4 DEF LoadStart
  <2>3. m \in Lines
    <3>1. r.planned \in Lines
      BY <2>1, <1>2, RunIs
    <3>2. QED
      BY <1>2, <3>1 DEF Weighed, Lines
  <2>4. Out(m) \in [Items -> Int] /\ Named(Out(m)) = Named(m) /\ Named(m) \subseteq Items
    BY <2>3, OutType DEF Named
  <2> HIDE DEF m
  <2> DEFINE o == Out(m)  items == Named(m)
  <2>5. o \in [Items -> Int] /\ items \in SUBSET Items /\ Named(o) \subseteq items /\ o = Out(m)
      /\ Moving(x, m, o, items)
    BY <2>2, <2>4
  <2> HIDE DEF o, items
  <2>6. QED
    BY <1>1, <2>3, <2>5, MovingKeeps
<1>5. QED
    BY <1>3, <1>4

\* one that is to be published,
LEMMA LoadPublishKeeps ==
    ASSUME ProductionInv, NEW x \in Sessions, LoadPublish(x)
    PROVE  ProductionInv'
<1> USE ProductionAssumption
<1> DEFINE j == job[x]  r == run[j.id]
<1>1. pc[x] = "load" /\ Active(x) /\ j.op = "publish"
    BY DEF LoadPublish, Loading, Active
<1>2. j.id \in Ids
    BY <1>1, UnderWay
<1>3. CASE \E place \in Answers : Reply(x, place)
  <2>1. PICK place \in Answers : Reply(x, place)
    BY <1>3
  <2>2. place \in Answers \cup {"commit"} /\ place # "commit"
    BY DEF Answers
  <2>3. QED
    BY <1>1, <2>1, <2>2, ReplyKeeps
<1>4. CASE ~\E place \in Answers : Reply(x, place)
  <2>1. ~Reply(x, "refused") /\ ~Reply(x, "error") /\ ~Reply(x, "ok")
    BY <1>4 DEF Answers
  <2>2. r # NoRow
    BY <2>1 DEF LoadPublish
  <2>3. ~r.published
    BY <2>1, <2>2 DEF LoadPublish
  <2>4. r.status = "completed" /\ Started(r) /\ r.leading \in Named(r.measured)
    BY <2>1, <2>2, <2>3 DEF LoadPublish
  <2> DEFINE d == recipe[r.recipe]  m == [None EXCEPT ![d] = r.actual]
  <2>5. Moving(x, r.measured, m, {d})
    BY <2>1, <2>2, <2>3, <2>4 DEF LoadPublish
  <2>6. r.measured \in Lines /\ d \in Items /\ r.actual \in Nat \ {0}
    BY <2>2, <2>4, <1>2, RunIs DEF Coherent
  <2>7. \A i \in Items : m[i] = (IF i = d THEN r.actual ELSE 0)
    BY <2>6 DEF None
  <2>8. m \in [Items -> Int] /\ Named(m) \subseteq {d} /\ {d} \in SUBSET Items
    BY <2>6, <2>7, NoneType DEF Named
  <2>9. \E e \in Items, v \in Nat \ {0} : \A i \in Items : m[i] = (IF i = e THEN v ELSE 0)
    BY <2>6, <2>7
  <2> DEFINE lines == r.measured  items == {d}
  <2>10. lines \in Lines /\ items \in SUBSET Items /\ Named(m) \subseteq items
      /\ Moving(x, lines, m, items)
    BY <2>5, <2>6, <2>8
  <2> HIDE DEF lines, items, m, d
  <2>11. QED
    BY <1>1, <2>8, <2>9, <2>10, MovingKeeps
<1>5. QED
    BY <1>3, <1>4

\* one that is to be cancelled,
LEMMA LoadCancelKeeps ==
    ASSUME ProductionInv, NEW x \in Sessions, LoadCancel(x)
    PROVE  ProductionInv'
<1> USE ProductionAssumption
<1> DEFINE j == job[x]  r == run[j.id]
<1>1. pc[x] = "load" /\ Active(x) /\ j.op = "cancel"
    BY DEF LoadCancel, Loading, Active
<1>2. j.id \in Ids
    BY <1>1, UnderWay
<1>3. CASE \E place \in Answers \cup {"commit"} : Reply(x, place)
  <2>1. PICK place \in Answers \cup {"commit"} : Reply(x, place)
    BY <1>3
  <2>2. QED
    BY <1>1, <2>1, ReplyKeeps
<1>4. CASE ~\E place \in Answers \cup {"commit"} : Reply(x, place)
  <2>1. ~Reply(x, "refused") /\ ~Reply(x, "commit") /\ ~Reply(x, "ok")
    BY <1>4 DEF Answers
  <2>2. r # NoRow
    BY <2>1 DEF LoadCancel
  <2>3. r.status \notin {"cancelled", "completed", "pending"}
    BY <2>1, <2>2 DEF LoadCancel
  <2> DEFINE lines == r.measured  items == Named(r.measured)
  <2>4. Moving(x, lines, lines, items)
    BY <2>1, <2>2, <2>3 DEF LoadCancel
  <2>5. r \in RunRow /\ Coherent(r)
    BY <2>2, <1>2, RunIs
  <2>6. r.status = "in_progress"
    BY <2>3, <2>5 DEF RunRow, Statuses
  <2>7. lines \in Lines
    BY <2>2, <2>5, <2>6, <1>2, RunIs DEF Coherent
  <2>8. lines \in [Items -> Int] /\ \A i \in Items : lines[i] >= 0
    BY <2>7 DEF Lines
  <2>9. items \in SUBSET Items /\ Named(lines) \subseteq items
    BY DEF Named
  <2> HIDE DEF lines, items
  <2>10. QED
    BY <1>1, <2>4, <2>7, <2>8, <2>9, MovingKeeps
<1>5. QED
    BY <1>3, <1>4

\* a record that is to be undone,
LEMMA LoadVoidKeeps ==
    ASSUME ProductionInv, NEW x \in Sessions, LoadVoid(x)
    PROVE  ProductionInv'
<1> USE ProductionAssumption
<1> DEFINE j == job[x]  e == event[j.id]  d == recipe[e.recipe]
<1>1. pc[x] = "load" /\ Active(x) /\ j.op = "void"
    BY DEF LoadVoid, Loading, Active
<1>2. j.id \in Ids /\ e # NoRow
    BY <1>1, UnderWay DEF Own
<1>3. CASE e.voided
  <2>1. Reply(x, "ok")
    BY <1>3 DEF LoadVoid
  <2>2. QED
    BY <1>1, <2>1, ReplyKeeps DEF Answers
<1>4. CASE ~e.voided
  <2> DEFINE m == [e.consumed EXCEPT ![d] = @ - e.output]  lines == e.consumed
             items == Named(e.consumed) \cup {d}
  <2>1. Moving(x, lines, m, items)
    BY <1>4 DEF LoadVoid
  <2>2. lines \in Lines /\ d \in Items /\ e.output \in Nat
    BY <1>2, EventIs
  <2>3. m \in [Items -> Int] /\ Named(m) \subseteq items /\ items \in SUBSET Items
    BY <2>2 DEF Lines, Named
  <2> HIDE DEF m, lines, items
  <2>4. QED
    BY <1>1, <2>1, <2>2, <2>3, MovingKeeps
<1>5. QED
    BY <1>3, <1>4

\* What is cooked is a share of the recipe, and at least one.
LEMMA Cooked ==
    ASSUME ProductionInv, NEW x \in Sessions, Active(x), job[x].op = "produce",
           job[x].leading \in Uses(job[x].id), job[x].quantity >= Need(job[x].id)[job[x].leading]
    PROVE  /\ Consumption(job[x]) \in Lines
           /\ job[x].quantity \div Need(job[x].id)[job[x].leading] \in Nat \ {0}
<1> DEFINE j == job[x]  b == Need(j.id)[j.leading]
<1>1. j \in JobType /\ j.lines \in Lines \cup {NoLines} /\ j.quantity \in Nat \ {0}
    BY UnderWay
<1>2. Of(j.id) \in SUBSET Component
    BY DEF ProductionInv, TypeOK, Of
<1>3. Need(j.id) \in Lines
    BY <1>2, AmountsType DEF Need
<1>4. PICK c \in Of(j.id) : c.item = j.leading
    BY DEF Uses
<1>5. b \in Nat \ {0}
    BY <1>2, <1>4, AmountsType DEF Need
<1>6. \A i \in Items : Need(j.id)[i] * j.quantity \in Nat
    BY <1>1, <1>3 DEF Lines
<1>7. \A i \in Items : (Need(j.id)[i] * j.quantity) \div b \in Nat
  <2> HIDE DEF b
  <2>1. TAKE i \in Items
  <2> DEFINE a == Need(j.id)[i] * j.quantity
  <2>2. a \in Nat
    BY <1>6
  <2> HIDE DEF a
  <2>3. a \div b \in Nat
    BY <2>2, <1>5, Shares
  <2>4. QED
    BY <2>3 DEF a
<1>8. [i \in Items |-> (Need(j.id)[i] * j.quantity) \div b] \in Lines
    BY <1>7 DEF Lines
<1>9. Consumption(j) \in Lines
    BY <1>1, <1>8 DEF Consumption
<1>10. j.quantity \div b \in Nat \ {0}
  <2> DEFINE a == j.quantity
  <2>1. a \in Nat /\ a >= b
    BY <1>1
  <2> HIDE DEF a, b
  <2>2. a \div b \in Nat \ {0}
    BY <2>1, <1>5, Shares
  <2>3. QED
    BY <2>2 DEF a
<1>11. QED
    BY <1>9, <1>10

\* and a dish that is to be cooked.
LEMMA LoadProduceKeeps ==
    ASSUME ProductionInv, NEW x \in Sessions, LoadProduce(x)
    PROVE  ProductionInv'
<1> USE ProductionAssumption
<1> DEFINE j == job[x]  d == recipe[j.id]  hit == Lookup(EventsWith(j.key))
           c == Consumption(j)  out == j.quantity \div Need(j.id)[j.leading]
<1>1. pc[x] = "load" /\ Active(x) /\ j.op = "produce"
    BY DEF LoadProduce, Loading, Active
<1>2. j.id \in Ids /\ j.quantity \in Nat
    BY <1>1, UnderWay
<1>3. hit \in {"ok", "load", "error"}
    BY LookupType
<1>4. CASE hit # "load"
  <2>1. Reply(x, hit)
    BY <1>4 DEF LoadProduce
  <2> HIDE DEF hit
  <2>2. hit \in Answers \cup {"commit"} /\ hit # "commit"
    BY <1>3, <1>4 DEF Answers
  <2>3. QED
    BY <1>1, <2>1, <2>2, ReplyKeeps
<1>5. CASE hit = "load" /\ Reply(x, "refused")
    BY <1>1, <1>5, ReplyKeeps DEF Answers
<1>6. CASE hit = "load" /\ ~Reply(x, "refused")
  <2>1. Plannable(j.id) /\ j.leading \in Uses(j.id) /\ ~(j.quantity < Need(j.id)[j.leading])
    BY <1>6 DEF LoadProduce
  <2> DEFINE m == [Out(c) EXCEPT ![d] = @ + out]  items == Named(c) \cup {d}
  <2>2. Moving(x, c, m, items)
    BY <1>6 DEF LoadProduce
  <2>3. d \in Items
    BY <2>1, <1>2 DEF Plannable, ProductionInv, TypeOK
  <2>4. Need(j.id)[j.leading] \in Nat
    <3>1. Need(j.id) \in Lines
      BY AmountsType DEF Need, ProductionInv, TypeOK, Of
    <3>2. j.leading \in Items
      BY <1>1, UnderWay
    <3>3. QED
      BY <3>1, <3>2 DEF Lines
  <2>5. c \in Lines /\ out \in Nat \ {0}
    BY <1>1, <1>2, <2>1, <2>4, Cooked
  <2> HIDE DEF c, out, d
  <2>6. Out(c) \in [Items -> Int] /\ \A i \in Items : Out(c)[i] = -c[i] /\ c[i] \in Nat
    BY <2>5, OutType DEF Out, Lines
  <2>7. m \in [Items -> Int] /\ items \in SUBSET Items
    BY <2>3, <2>5, <2>6 DEF Named
  <2>8. \A i \in Items : m[i] = (IF i = d THEN -c[i] + out ELSE -c[i])
    BY <2>3, <2>6
  <2>9. \A i \in Items : m[i] + c[i] = (IF i = d THEN out ELSE 0)
    <3>1. TAKE i \in Items
    <3>2. c[i] \in Int /\ out \in Int
      BY <2>5, <2>6
    <3>3. CASE i = d
      <4>1. m[i] = -c[i] + out
        BY <2>8, <3>3
      <4> HIDE DEF m
      <4>2. QED
        BY <3>2, <3>3, <4>1
    <3>4. CASE i # d
      <4>1. m[i] = -c[i]
        BY <2>8, <3>4
      <4> HIDE DEF m
      <4>2. QED
        BY <3>2, <3>4, <4>1
    <3>5. QED
      BY <3>3, <3>4
  <2>10. Named(m) \subseteq items
    <3> SUFFICES ASSUME NEW i \in Items, m[i] # 0, i # d PROVE c[i] # 0
      BY DEF Named
    <3>1. m[i] = -c[i]
      BY <2>8
    <3>2. QED
      BY <3>1
  <2>11. \E e \in Items, v \in Nat \ {0} : \A i \in Items : m[i] + c[i] = (IF i = e THEN v ELSE 0)
    BY <2>3, <2>5, <2>9
  <2>12. recipe[job[x].id] \in Items
    BY <2>3 DEF d
  <2> HIDE DEF m, items
  <2>13. QED
    BY <1>1, <2>2, <2>5, <2>7, <2>10, <2>11, <2>12, MovingKeeps
<1>7. QED
    BY <1>4, <1>5, <1>6

----------------------------------------------------------------------------
(* Locks, checks, failures, arrivals.                                       *)

\* The level of an item is read under its lock.
LEMMA LockKeeps ==
    ASSUME ProductionInv, NEW x \in Sessions, NEW i \in Items, Lock(x, i)
    PROVE  ProductionInv'
<1> USE ProductionAssumption
<1>1. OwnTypes /\ level \in [Items -> Int]
    BY TypesAre DEF ProductionInv, BookTypes
<1> DEFINE place == IF want[x] = {i} THEN "check" ELSE "lock"
<1>2. /\ pc[x] = "lock" /\ i \in want[x] /\ lock[i] = NoSession
      /\ pc' = [pc EXCEPT ![x] = place]
      /\ lock' = [lock EXCEPT ![i] = x]
      /\ want' = [want EXCEPT ![x] = @ \ {i}]
      /\ base' = [base EXCEPT ![x][i] = level[i]]
      /\ UNCHANGED <<book, stock, job, ticket, rows, weighed, moves, jobs, aborts>>
    BY DEF Lock, Grant, Goto
<1>3. jobs' \in Ids /\ jobs <= jobs'
    BY <1>1, <1>2 DEF OwnTypes, Ids
<1>4. BookTypes' /\ RowsInv' /\ LedgerBalances' /\ Mild(x)
    BY <1>2, <1>3, QuietKeeps
<1>5. OwnTypes'
  <2>1. pc' \in [Sessions -> Places]
    BY <1>1, <1>2 DEF OwnTypes, Places
  <2>2. base' \in [Sessions -> [Items -> Int]]
    <3>1. [base[x] EXCEPT ![i] = level[i]] \in [Items -> Int]
      BY <1>1 DEF OwnTypes
    <3>2. base' = [base EXCEPT ![x] = [base[x] EXCEPT ![i] = level[i]]]
      BY <1>2
    <3>3. QED
      BY <1>1, <3>1, <3>2 DEF OwnTypes
  <2>3. lock' \in [Items -> Sessions \cup {NoSession}] /\ want' \in [Sessions -> SUBSET Items]
    BY <1>1, <1>2 DEF OwnTypes
  <2>4. QED
    BY <1>1, <1>2, <2>1, <2>2, <2>3 DEF OwnTypes
<1>6. Alone(x)
    BY <1>1, <1>2 DEF OwnTypes, Alone, Same
<1>7. Kindly(x)
    BY <1>1, <1>2, <1>3, <1>4 DEF Kindly, OwnTypes
<1>8. Own(x) /\ Active(x) /\ Busy(x)
    BY <1>2 DEF ProductionInv, Active, Busy
<1>9. pc'[x] = place /\ want'[x] = want[x] \ {i} /\ moves' = moves /\ level' = level
    /\ lock'[i] = x /\ base'[x][i] = level[i]
    /\ \A k \in Items \ {i} : lock'[k] = lock[k] /\ base'[x][k] = base[x][k]
    BY <1>1, <1>2 DEF OwnTypes, stock
<1>10. Active(x)' /\ Busy(x)' /\ pc'[x] # "commit" /\ (pc'[x] = "check" => want'[x] = {})
    BY <1>9 DEF Active, Busy
<1>11. Own(x)'
  <2>1. Holds(x)'
    <3>1. ASSUME NEW k \in Items, moves[x][k] # 0, k \notin want'[x]
          PROVE  lock'[k] = x /\ base'[x][k] = level[k]
      <4>1. CASE k = i
        BY <4>1, <1>9
      <4>2. CASE k # i
        <5>1. k \notin want[x]
          BY <3>1, <4>2, <1>9
        <5>2. lock[k] = x /\ base[x][k] = level[k]
          BY <5>1, <3>1, <1>8 DEF Own, Holds
        <5>3. QED
          BY <4>2, <5>2, <1>9
      <4>3. QED
        BY <4>1, <4>2
    <3>2. QED
      BY <3>1, <1>9, <1>10 DEF Holds
  <2>2. Loaded(x)'
    <3>1. run' = run /\ recipe' = recipe /\ job' = job /\ weighed' = weighed /\ moves' = moves
      BY <1>2 DEF book
    <3>2. Loaded(x)
      BY <1>8 DEF Own
    <3>3. Made(x)' = Made(x) /\ Out(weighed[x])' = Out(weighed[x]) /\ None' = None
      BY <3>1 DEF Made, Out, None
    <3>4. (\E d \in Items : Made(x)[d] > 0 /\ Made(x) = [None EXCEPT ![d] = Made(x)[d]])'
            <=> (\E d \in Items : Made(x)[d] > 0 /\ Made(x) = [None EXCEPT ![d] = Made(x)[d]])
      BY <3>3
    <3>5. QED
      BY <3>1, <3>2, <3>3, <3>4, <1>10 DEF Loaded, Started
  <2>3. QED
    BY <2>1, <2>2, <1>2, <1>8 DEF Own, Active, Unused, None, book, stock
<1>12. \A z \in Sessions : Active(z)' => Active(z) /\ job'[z] = job[z] /\ ticket'[z] = ticket[z]
    BY <1>2, <1>6, <1>8 DEF Alone, Same, Active
<1>13. QED
    BY <1>4, <1>5, <1>6, <1>7, <1>11, <1>12, StepKeeps

\* All items are checked before anything is written.
LEMMA CheckKeeps ==
    ASSUME ProductionInv, NEW x \in Sessions, Check(x)
    PROVE  ProductionInv'
<1> USE ProductionAssumption
<1>1. OwnTypes
    BY TypesAre DEF ProductionInv
<1>2. pc[x] = "check" /\ Active(x) /\ Busy(x) /\ Own(x)
    BY DEF Check, Active, Busy, ProductionInv
<1>3. CASE Short(x) \/ Uncovered(x)
    BY <1>3, FailsKeep DEF Check, Answers
<1>4. CASE ~Short(x) /\ ~Uncovered(x)
  <2>1. pc' = [pc EXCEPT ![x] = "commit"]
      /\ UNCHANGED <<book, stock, lock, own, jobs, aborts>>
    BY <1>4 DEF Check, Goto
  <2>2. jobs' \in Ids /\ jobs <= jobs'
    BY <1>1, <2>1 DEF OwnTypes, Ids
  <2>3. BookTypes' /\ RowsInv' /\ LedgerBalances' /\ Mild(x)
    BY <2>1, <2>2, QuietKeeps
  <2>4. OwnTypes'
    BY <1>1, <2>1 DEF OwnTypes, Places, own
  <2>5. Alone(x) /\ pc'[x] = "commit"
    BY <1>1, <2>1 DEF OwnTypes, Alone, Same, own
  <2>6. Kindly(x)
    BY <2>1, <2>2, <2>3 DEF Kindly
  <2>7. run' = run /\ recipe' = recipe /\ event' = event /\ job' = job /\ weighed' = weighed
      /\ moves' = moves /\ base' = base /\ want' = want /\ lock' = lock /\ level' = level
      /\ ticket' = ticket /\ jobs' = jobs /\ posted' = posted
    BY <2>1 DEF book, stock, own
  <2>8. Holds(x)'
    BY <2>5, <2>7, <1>2 DEF Own, Holds, Busy
  <2>9. job[x].op = "start" =>
          run[job[x].id] = NoRow \/ Named(run[job[x].id].planned) \subseteq Named(weighed[x])
    <3> SUFFICES ASSUME job[x].op = "start", run[job[x].id] # NoRow
                 PROVE  Named(run[job[x].id].planned) \subseteq Named(weighed[x])
      OBVIOUS
    <3>1. Named(run[job[x].id].planned) \subseteq Named(moves[x])
      BY <1>4 DEF Uncovered
    <3>2. moves[x] = Out(weighed[x])
      BY <1>2 DEF Own, Loaded
    <3>3. weighed[x] \in Lines
      BY <1>1 DEF OwnTypes
    <3>4. QED
      BY <3>1, <3>2, <3>3, OutType
  <2>10. Loaded(x)'
    <3>1. Loaded(x)
      BY <1>2 DEF Own
    <3>2. Made(x)' = Made(x) /\ Out(weighed[x])' = Out(weighed[x]) /\ None' = None
        /\ (Short(x)' <=> Short(x))
      BY <2>7 DEF Made, Out, None, Short
    <3>3. (\E d \in Items : Made(x)[d] > 0 /\ Made(x) = [None EXCEPT ![d] = Made(x)[d]])'
            <=> (\E d \in Items : Made(x)[d] > 0 /\ Made(x) = [None EXCEPT ![d] = Made(x)[d]])
      BY <3>2
    <3>4. QED
      BY <3>1, <3>2, <3>3, <2>7, <2>9, <1>4 DEF Loaded, Started, Named
  <2>11. Own(x)'
    BY <2>7, <2>8, <2>10, <1>2 DEF Own, Active, Unused, None
  <2>12. \A z \in Sessions : Active(z)' => Active(z) /\ job'[z] = job[z] /\ ticket'[z] = ticket[z]
    BY <2>5, <2>7, <1>2 DEF Alone, Same, Active
  <2>13. QED
    BY <2>3, <2>4, <2>5, <2>6, <2>11, <2>12, StepKeeps
<1>5. QED
    BY <1>3, <1>4

\* A victim of a deadlock fails, and a lost connection fails a request anywhere.
LEMMA VictimKeeps ==
    ASSUME ProductionInv, NEW x \in Sessions, DeadlockVictim(x) \/ Abort(x)
    PROVE  ProductionInv'
<1>1. CASE DeadlockVictim(x)
    BY <1>1, FailsKeep DEF DeadlockVictim, Answers
<1>2. CASE Abort(x)
  <2>1. Finish(x, "error") /\ jobs' = jobs /\ UNCHANGED <<book, stock>> /\ "error" \in Answers
    BY <1>2 DEF Abort, Answers
  <2>2. aborts' \in 0..MaxAborts /\ jobs' \in Ids /\ jobs <= jobs'
    BY <1>2, ProductionAssumption DEF Abort, ProductionInv, TypeOK, Ids
  <2>3. BookTypes' /\ RowsInv' /\ LedgerBalances' /\ Mild(x)
    BY <2>1, <2>2, QuietKeeps
  <2>4. QED
    BY <2>1, <2>2, <2>3, FinishKeeps
<1>3. QED
    BY <1>1, <1>2

\* A request that is over makes room for the next.
LEMMA DoneKeeps ==
    ASSUME ProductionInv, NEW x \in Sessions, Done(x)
    PROVE  ProductionInv'
<1> USE ProductionAssumption
<1>1. OwnTypes
    BY TypesAre DEF ProductionInv
<1>2. pc[x] \in Answers /\ pc' = [pc EXCEPT ![x] = "idle"]
    /\ UNCHANGED <<book, stock, lock, own, jobs, aborts>>
    BY DEF Done, Goto
<1>3. jobs' \in Ids /\ jobs <= jobs'
    BY <1>1, <1>2 DEF OwnTypes, Ids
<1>4. BookTypes' /\ RowsInv' /\ LedgerBalances' /\ Mild(x)
    BY <1>2, <1>3, QuietKeeps
<1>5. OwnTypes'
    BY <1>1, <1>2 DEF OwnTypes, Places, own
<1>6. Alone(x) /\ pc'[x] = "idle"
    BY <1>1, <1>2 DEF OwnTypes, Alone, Same, own
<1>7. Kindly(x)
    BY <1>2, <1>3, <1>4 DEF Kindly
<1>8. ~Active(x)' /\ ~Busy(x)' /\ ~Busy(x)
    BY <1>2, <1>6 DEF Active, Busy, Answers
<1>9. Own(x)'
  <2>1. Holds(x)
    BY DEF ProductionInv, Own
  <2>2. Holds(x)'
    BY <2>1, <1>2, <1>6, <1>8 DEF Holds, own, stock, None
  <2>3. QED
    BY <2>2, <1>8 DEF Own
<1>10. \A z \in Sessions : Active(z)' => Active(z) /\ job'[z] = job[z] /\ ticket'[z] = ticket[z]
    BY <1>6, <1>8 DEF Alone, Same, Active
<1>11. QED
    BY <1>4, <1>5, <1>6, <1>7, <1>9, <1>10, StepKeeps

\* A request comes for rows that are there, and has a number that none has.
LEMMA ArriveKeeps ==
    ASSUME ProductionInv, NEW x \in Sessions, NEW j \in Jobs, Arrive(x, j)
    PROVE  ProductionInv'
<1> USE ProductionAssumption
<1>1. OwnTypes /\ RowsInv /\ j \in JobType /\ j.id \in Ids /\ j.op \in Operations
    BY TypesAre DEF ProductionInv, JobType
<1>2. /\ pc[x] = "idle" /\ jobs < MaxJobs /\ Known(j)
      /\ jobs' = jobs + 1 /\ job' = [job EXCEPT ![x] = j]
      /\ ticket' = [ticket EXCEPT ![x] = jobs + 1] /\ pc' = [pc EXCEPT ![x] = "load"]
      /\ UNCHANGED <<book, stock, lock, rows, weighed, moves, base, want, aborts>>
    BY DEF Arrive, Goto
<1>3. jobs \in Nat /\ jobs' \in Ids /\ jobs <= jobs' /\ jobs + 1 \in Ids
    BY <1>1, <1>2 DEF OwnTypes, Ids
<1>4. BookTypes' /\ RowsInv' /\ LedgerBalances' /\ Mild(x)
    BY <1>2, <1>3, QuietKeeps
<1>5. OwnTypes'
    BY <1>1, <1>2, <1>3 DEF OwnTypes, Places
<1>6. Alone(x) /\ pc'[x] = "load" /\ job'[x] = j /\ ticket'[x] = jobs + 1
    BY <1>1, <1>2 DEF OwnTypes, Alone, Same
<1>7. Kindly(x)
    BY <1>2, <1>3, <1>4 DEF Kindly
<1>8. j.op # "recipe" => j.id <= jobs
  <2> SUFFICES ASSUME j.op # "recipe", j.id > jobs PROVE FALSE
    BY <1>1, <1>3 DEF Ids
  <2>1. Unused(j.id)
    BY <1>1 DEF RowsInv
  <2>2. QED
    BY <1>1, <1>2, <2>1 DEF Unused, Known, Kept, Recorded, Operations
<1>9. \A y \in Sessions : Own(y)'
  <2>1. \A y \in Sessions \ {x} : Own(y)'
    BY <1>3, <1>6, <1>7, OthersKeep DEF ProductionInv
  <2>2. Holds(x)
    BY DEF ProductionInv, Own
  <2>3. Holds(x)'
    BY <2>2, <1>2, <1>6 DEF Holds, Busy, None, stock
  <2>4. ~Busy(x)'
    BY <1>6 DEF Busy
  <2>5. Unused(jobs + 1)
    BY <1>1, <1>3 DEF RowsInv
  <2>6. Unused(ticket[x])'
    BY <2>5, <1>2, <1>6 DEF Unused, book, stock, None
  <2>7. j.op = "void" => event[j.id] # NoRow
    BY <1>2 DEF Known, Recorded
  <2>8. ticket'[x] \in 1..jobs' /\ (j.op # "recipe" => j.id <= jobs')
    BY <1>1, <1>2, <1>3, <1>6, <1>8 DEF Ids
  <2>9. Own(x)'
    BY <1>2, <1>6, <2>3, <2>4, <2>6, <2>7, <2>8 DEF Own, book
  <2>10. QED
    BY <2>1, <2>9
<1>10. \A z, w \in Sessions : Apart(z, w)'
  <2> SUFFICES ASSUME NEW z \in Sessions, NEW w \in Sessions, Active(z)', Active(w)'
               PROVE  /\ ticket'[z] = ticket'[w] => z = w
                      /\ job'[z].op # "recipe" => job'[z].id # ticket'[w]
    BY DEF Apart
  <2>1. ASSUME NEW y \in Sessions, y # x, Active(y)'
        PROVE  /\ Active(y) /\ job'[y] = job[y] /\ ticket'[y] = ticket[y]
               /\ ticket[y] \in 1..jobs /\ (job[y].op # "recipe" => job[y].id <= jobs)
               /\ job[y].id \in Ids
    <3>1. Same(y)
      BY <2>1, <1>6 DEF Alone
    <3>2. Active(y)
      BY <2>1, <3>1 DEF Active, Same
    <3>3. QED
      BY <3>1, <3>2, UnderWay DEF Own, Same
  <2>2. CASE z = x /\ w = x
    BY <2>2, <1>1, <1>3, <1>6, <1>8 DEF Ids
  <2>3. CASE z = x /\ w # x
    <3>1. ticket'[w] \in 1..jobs
      BY <2>1, <2>3
    <3>2. ticket'[z] = jobs + 1
      BY <2>3, <1>6
    <3>3. ticket'[z] # ticket'[w]
      BY <3>1, <3>2, <1>3
    <3>4. ASSUME j.op # "recipe", j.id = ticket'[w] PROVE FALSE
      <4>1. ~Unused(j.id)
        BY <1>1, <1>2, <3>4 DEF Unused, Known, Kept, Recorded, Operations
      <4>2. Unused(ticket[w])
        BY <2>1, <2>3 DEF ProductionInv, Own
      <4>3. QED
        BY <4>1, <4>2, <3>4, <2>1, <2>3
    <3>5. QED
      BY <3>3, <3>4, <2>3, <1>6
  <2>4. CASE z # x /\ w = x
    <3>1. ticket'[w] = jobs + 1
      BY <2>4, <1>6
    <3>2. ticket'[z] \in 1..jobs /\ job'[z].id \in Ids
        /\ (job'[z].op # "recipe" => job'[z].id <= jobs)
      BY <2>1, <2>4
    <3>3. QED
      BY <3>1, <3>2, <1>3 DEF Ids
  <2>5. CASE z # x /\ w # x
    BY <2>1, <2>5 DEF ProductionInv, Apart
  <2>6. QED
    BY <2>2, <2>3, <2>4, <2>5
<1>11. TypeOK'
    BY <1>4, <1>5 DEF TypeOK, BookTypes, OwnTypes
<1>12. QED
    BY <1>4, <1>9, <1>10, <1>11 DEF ProductionInv

----------------------------------------------------------------------------
(* What a commit writes.                                                    *)

\* A step that moves no stock keeps the ledger.
LEMMA LedgerStays ==
    ASSUME ProductionInv, UNCHANGED stock
    PROVE  LedgerBalances' /\ level' = level /\ posted' = posted
<1> USE DEF stock
<1>1. \A i \in Items : Moved(i)' = Moved(i)
    BY DEF Moved
<1>2. \A i \in Items : Total(Moved(i))' = Total(Moved(i))
    BY <1>1 DEF Total
<1>3. QED
    BY <1>2 DEF ProductionInv, LedgerBalances

\* What is written under the locks is added to what is there, and to the movements
\* that name the record.
LEMMA WriteKeeps ==
    ASSUME ProductionInv, NEW x \in Sessions, pc[x] = "commit",
           NEW kind \in {"run", "event"}, NEW n \in Ids, Write(x, <<kind, n>>)
    PROVE  /\ level' \in [Items -> Int] /\ posted' \in [Refs -> [Items -> Int]]
           /\ \A i \in Items : level'[i] = level[i] + moves[x][i]
           /\ \A i \in Items : lock[i] # x => level'[i] = level[i]
           /\ \A f \in Refs : f # <<kind, n>> => posted'[f] = posted[f]
           /\ posted'[<<kind, n>>] = [i \in Items |-> posted[<<kind, n>>][i] + moves[x][i]]
           /\ LedgerBalances'
<1>1. level \in [Items -> Int] /\ posted \in [Refs -> [Items -> Int]]
    /\ moves[x] \in [Items -> Int] /\ base[x] \in [Items -> Int]
    BY DEF ProductionInv, TypeOK
<1>2. want[x] = {} /\ \A i \in Items : moves[x][i] # 0 => lock[i] = x /\ base[x][i] = level[i]
    BY DEF ProductionInv, Own, Holds
<1>3. <<kind, n>> \in Refs
    BY DEF Refs
<1> DEFINE ref == <<kind, n>>
<1>4. level' = [i \in Items |-> IF moves[x][i] # 0 THEN base[x][i] + moves[x][i] ELSE level[i]]
    /\ posted' = [posted EXCEPT ![ref] = [i \in Items |-> posted[ref][i] + moves[x][i]]]
    BY DEF Write
<1>5. \A i \in Items : level'[i] = level[i] + moves[x][i] /\ level[i] \in Int
        /\ moves[x][i] \in Int /\ (lock[i] # x => level'[i] = level[i])
    BY <1>1, <1>2, <1>4
<1>6. level' \in [Items -> Int]
    BY <1>4, <1>5
<1>7. posted[ref] \in [Items -> Int]
    BY <1>1, <1>3
<1> HIDE DEF ref
<1>8. [i \in Items |-> posted[ref][i] + moves[x][i]] \in [Items -> Int]
    BY <1>1, <1>7
<1>9. posted' \in [Refs -> [Items -> Int]] /\ (\A f \in Refs : f # ref => posted'[f] = posted[f])
    /\ posted'[ref] = [i \in Items |-> posted[ref][i] + moves[x][i]]
    BY <1>1, <1>3, <1>4, <1>8 DEF ref
<1>10. LedgerBalances'
  <2> SUFFICES ASSUME NEW i \in Items PROVE level'[i] = Opening[i] + Total(Moved(i)')
    BY DEF LedgerBalances, Total
  <2>1. \A m \in Ids : <<"run", m>> \in Refs /\ <<"event", m>> \in Refs
    BY DEF Refs
  <2>2. \A m \in Ids : posted[<<"run", m>>][i] \in Int /\ posted[<<"event", m>>][i] \in Int
    BY <1>1, <2>1
  <2>3. Moved(i) \in [Ids -> Int]
    BY <2>2 DEF Moved
  <2> DEFINE d == moves[x][i]
  <2>4. d \in Int
    BY <1>1
  <2>5. \A m \in Ids : m # n =>
          posted'[<<"run", m>>] = posted[<<"run", m>>] /\ posted'[<<"event", m>>] = posted[<<"event", m>>]
    BY <1>9, <2>1 DEF ref
  <2>6. posted'[<<"run", n>>][i] + posted'[<<"event", n>>][i]
          = (posted[<<"run", n>>][i] + posted[<<"event", n>>][i]) + d
    <3>1. posted'[<<kind, n>>][i] = posted[<<kind, n>>][i] + d
      BY <1>9 DEF ref
    <3>2. CASE kind = "run"
      <4>1. posted'[<<"event", n>>] = posted[<<"event", n>>]
        BY <3>2, <1>9, <2>1 DEF ref
      <4> DEFINE a == posted[<<"run", n>>][i]  b == posted[<<"event", n>>][i]
                 c == posted'[<<"run", n>>][i]
      <4>2. a \in Int /\ b \in Int /\ c = a + d
        BY <2>2, <3>1, <3>2
      <4> HIDE DEF a, b, c, d
      <4>3. c + b = (a + b) + d
        BY <4>2, <2>4
      <4>4. QED
        BY <4>1, <4>3 DEF a, b, c
    <3>3. CASE kind = "event"
      <4>1. posted'[<<"run", n>>] = posted[<<"run", n>>]
        BY <3>3, <1>9, <2>1 DEF ref
      <4> DEFINE a == posted[<<"run", n>>][i]  b == posted[<<"event", n>>][i]
                 c == posted'[<<"event", n>>][i]
      <4>2. a \in Int /\ b \in Int /\ c = b + d
        BY <2>2, <3>1, <3>3
      <4> HIDE DEF a, b, c, d
      <4>3. a + c = (a + b) + d
        BY <4>2, <2>4
      <4>4. QED
        BY <4>1, <4>3 DEF a, b, c
    <3>4. QED
      BY <3>2, <3>3
  <2>7. Moved(i)' = [Moved(i) EXCEPT ![n] = @ + d]
    <3> HIDE DEF d
    <3>1. \A m \in Ids : Moved(i)'[m] = (IF m = n THEN Moved(i)[n] + d ELSE Moved(i)[m])
      BY <2>5, <2>6 DEF Moved
    <3>2. Moved(i)' = [m \in Ids |-> Moved(i)'[m]]
      BY DEF Moved
    <3>3. [Moved(i) EXCEPT ![n] = @ + d] = [m \in Ids |-> IF m = n THEN Moved(i)[n] + d ELSE Moved(i)[m]]
      BY <2>3
    <3>4. QED
      BY <3>1, <3>2, <3>3
  <2>8. Total(Moved(i)') = Total(Moved(i)) + d
    <3> DEFINE f == Moved(i)
    <3> HIDE DEF f, d
    <3>1. f \in [Ids -> Int]
      BY <2>3 DEF f
    <3>2. Total([f EXCEPT ![n] = @ + d]) = Total(f) + d
      BY <2>4, <3>1, TotalAdd
    <3>3. QED
      BY <2>7, <3>2 DEF f
  <2>9. level[i] = Opening[i] + Total(Moved(i))
    BY DEF ProductionInv, LedgerBalances
  <2>10. Opening[i] \in Int /\ Total(Moved(i)) \in Int /\ level'[i] = level[i] + d
    BY <2>3, <1>5, TotalType, ProductionAssumption
  <2> HIDE DEF d
  <2>11. QED
    BY <2>4, <2>8, <2>9, <2>10
<1>11. QED
    BY <1>5, <1>6, <1>9, <1>10 DEF ref

\* One run is written, or deleted; no record refers to a run that is not there.
LEMMA RunWritten ==
    ASSUME ProductionInv, NEW x \in Sessions, Active(x),
           NEW n \in Ids, NEW r \in RunRow \cup {NoRow},
           run' = [run EXCEPT ![n] = r], UNCHANGED <<recipe, component, event, jobs>>,
           \A i \in Items : lock[i] # x => level'[i] = level[i],
           \A m \in Ids : posted'[<<"event", m>>] = posted[<<"event", m>>],
           n = ticket[x] \/ run[n] # NoRow \/ r = NoRow,
           r = NoRow => EventsOf(n) = {},
           r # NoRow =>
             /\ Coherent(r) /\ recipe[r.recipe] \in Items
             /\ r.published <=> EventsOf(n) # {},
           r # NoRow /\ run[n] # NoRow =>
             r.planned = run[n].planned /\ (Started(run[n]) => Started(r))
    PROVE  run' \in [Ids -> RunRow \cup {NoRow}] /\ RowsInv' /\ Mild(x)
<1>1. run \in [Ids -> RunRow \cup {NoRow}] /\ RowsInv /\ jobs \in Ids
    BY DEF ProductionInv, TypeOK
<1>2. run' \in [Ids -> RunRow \cup {NoRow}] /\ run'[n] = r /\ \A m \in Ids \ {n} : run'[m] = run[m]
    BY <1>1
<1>3. ASSUME NEW m \in Ids, ~(Active(x) /\ m = ticket[x]), Unused(m) PROVE Unused(m)'
  <2>1. run'[m] = NoRow
    BY <1>2, <1>3 DEF Unused
  <2>2. QED
    BY <1>3, <2>1 DEF Unused, None
<1>4. Mild(x)
    BY <1>2, <1>3 DEF Mild
<1>5. Recorded' = Recorded /\ \A m : EventsOf(m)' = EventsOf(m)
    BY DEF Recorded, EventsOf
<1>6. CompletedIsWeighed'
    BY <1>1, <1>2 DEF RowsInv, CompletedIsWeighed, Kept
<1>7. PublishedIffRecorded'
    BY <1>1, <1>2, <1>5 DEF RowsInv, PublishedIffRecorded, Kept
<1>8. OneRecipePerDish' /\ EventMovesStock'
    BY <1>1, <1>5 DEF RowsInv, OneRecipePerDish, EventMovesStock, Recorded
<1>9. HistoryReadable'
  <2>1. \A m \in Kept' : ReadRuns(m)'
    BY <1>1, <1>2 DEF RowsInv, HistoryReadable, Kept, ReadRuns
  <2>2. ASSUME NEW e \in Recorded' PROVE ReadEvents(e)' /\ event'[e].run \in Kept' \cup {NoRow}
    <3>1. ReadEvents(e) /\ event[e].run \in Kept \cup {NoRow} /\ e \in EventsOf(event[e].run)
      BY <1>1, <1>5, <2>2 DEF RowsInv, HistoryReadable, EventsOf
    <3>2. ASSUME event[e].run \in Kept PROVE event[e].run \in Kept'
      BY <3>1, <3>2, <1>2 DEF Kept
    <3>3. QED
      BY <3>1, <3>2 DEF ReadEvents
  <2>3. QED
    BY <2>1, <2>2 DEF HistoryReadable
<1>10. ASSUME NEW m \in Ids, m > jobs' PROVE Unused(m)'
  <2>1. Unused(m)
    BY <1>1, <1>10 DEF RowsInv
  <2>2. m # ticket[x]
    <3>1. ticket[x] \in 1..jobs
      BY DEF ProductionInv, Own
    <3>2. QED
      BY <3>1, <1>1, <1>10 DEF Ids
  <2>3. QED
    BY <2>1, <2>2, <1>3
<1>11. QED
    BY <1>2, <1>4, <1>6, <1>7, <1>8, <1>9, <1>10 DEF RowsInv

\* One recipe is written, linked or deleted.
LEMMA RecipeWritten ==
    ASSUME ProductionInv, NEW x \in Sessions, Active(x),
           NEW n \in Ids, NEW d \in Items \cup {NoItem, NoRow},
           recipe' = [recipe EXCEPT ![n] = d], UNCHANGED <<run, event, stock, jobs>>,
           n = ticket[x] \/ recipe[n] # NoRow \/ d = NoRow,
           d \in Items => \A m \in Ids \ {n} : recipe[m] # d,
           d \notin Items => (\A m \in Kept : run[m].recipe # n) /\ (\A e \in Recorded : event[e].recipe # n),
           n # ticket[x] /\ recipe[n] \in Items \cup {NoRow} => d # NoItem
    PROVE  recipe' \in [Ids -> Items \cup {NoItem, NoRow}] /\ RowsInv' /\ Mild(x)
<1>1. recipe \in [Ids -> Items \cup {NoItem, NoRow}] /\ RowsInv /\ jobs \in Ids
    BY DEF ProductionInv, TypeOK
<1>2. recipe' \in [Ids -> Items \cup {NoItem, NoRow}] /\ recipe'[n] = d
    /\ \A m \in Ids \ {n} : recipe'[m] = recipe[m]
    BY <1>1
<1>3. ASSUME NEW m \in Ids, m # ticket[x], Unused(m) PROVE Unused(m)'
  <2>1. recipe'[m] = NoRow
    BY <1>2, <1>3 DEF Unused
  <2>2. QED
    BY <1>3, <2>1 DEF Unused, None, stock
<1>4. Mild(x)
    BY <1>2, <1>3 DEF Mild, stock
<1>5. Recorded' = Recorded /\ Kept' = Kept /\ \A m : EventsOf(m)' = EventsOf(m)
    BY DEF Recorded, EventsOf, Kept
<1>6. CompletedIsWeighed' /\ PublishedIffRecorded' /\ EventMovesStock'
    BY <1>1, <1>5 DEF RowsInv, CompletedIsWeighed, PublishedIffRecorded, EventMovesStock, stock
<1>7. OneRecipePerDish'
    BY <1>1, <1>2 DEF RowsInv, OneRecipePerDish
<1>8. HistoryReadable'
  <2>1. ASSUME NEW m \in Kept PROVE ReadRuns(m)'
    <3>1. recipe[run[m].recipe] \in Items /\ run[m].recipe \in Ids
      BY <1>1, RunIs DEF Kept
    <3>2. recipe'[run[m].recipe] \in Items
      BY <3>1, <1>2
    <3>3. QED
      BY <3>2 DEF ReadRuns
  <2>2. ASSUME NEW m \in Recorded PROVE ReadEvents(m)' /\ event[m].run \in Kept \cup {NoRow}
    <3>1. recipe[event[m].recipe] \in Items /\ event[m].recipe \in Ids /\ event[m].run \in Kept \cup {NoRow}
      BY <1>1, EventIs DEF Recorded
    <3>2. recipe'[event[m].recipe] \in Items
      BY <3>1, <1>2
    <3>3. QED
      BY <3>1, <3>2 DEF ReadEvents
  <2>3. QED
    BY <2>1, <2>2, <1>5 DEF HistoryReadable
<1>9. ASSUME NEW m \in Ids, m > jobs' PROVE Unused(m)'
  <2>1. Unused(m)
    BY <1>1, <1>9 DEF RowsInv
  <2>2. m # ticket[x]
    <3>1. ticket[x] \in 1..jobs
      BY DEF ProductionInv, Own
    <3>2. QED
      BY <3>1, <1>1, <1>9 DEF Ids
  <2>3. QED
    BY <2>1, <2>2, <1>3
<1>10. QED
    BY <1>2, <1>4, <1>6, <1>7, <1>8, <1>9 DEF RowsInv

\* A record is made under the number of its request, and says what it moved; the
\* run it is of, if any, is marked.
LEMMA EventRecorded ==
    ASSUME ProductionInv, NEW x \in Sessions, Active(x), NEW e \in EventRow,
           event' = [event EXCEPT ![ticket[x]] = e], UNCHANGED <<recipe, component, jobs>>,
           e.run \in Kept \cup {NoRow}, recipe[e.recipe] \in Items, ~e.voided,
           e.run = NoRow => run' = run,
           e.run # NoRow => run' = [run EXCEPT ![e.run].published = TRUE],
           \A i \in Items : lock[i] # x => level'[i] = level[i],
           \A m \in Ids : m # ticket[x] => posted'[<<"event", m>>] = posted[<<"event", m>>],
           posted'[<<"event", ticket[x]>>] =
              [i \in Items |-> (IF i = e.dish THEN e.output ELSE 0)
                                 - (IF e.run = NoRow THEN e.consumed[i] ELSE 0)]
    PROVE  /\ event' \in [Ids -> EventRow \cup {NoRow}] /\ run' \in [Ids -> RunRow \cup {NoRow}]
           /\ RowsInv' /\ Mild(x)
<1> USE ProductionAssumption
<1> DEFINE n == ticket[x]
<1>1. run \in [Ids -> RunRow \cup {NoRow}] /\ event \in [Ids -> EventRow \cup {NoRow}]
    /\ RowsInv /\ jobs \in Ids /\ n \in Ids /\ n \in 1..jobs
    BY DEF ProductionInv, TypeOK, Own
<1>2. event' \in [Ids -> EventRow \cup {NoRow}] /\ event'[n] = e
    /\ \A m \in Ids \ {n} : event'[m] = event[m]
    BY <1>1
<1>3. event[n] = NoRow /\ n \notin Recorded /\ run[n] = NoRow
    BY DEF ProductionInv, Own, Unused, Recorded
<1>4. e # NoRow /\ e.run \in Ids \cup {NoRow}
    BY DEF EventRow
<1>5. Recorded' = Recorded \cup {n}
    BY <1>1, <1>2, <1>4 DEF Recorded
<1>6. \A m \in Ids : EventsOf(m)' = EventsOf(m) \cup (IF e.run = m THEN {n} ELSE {})
  <2>1. TAKE m \in Ids
  <2>2. EventsOf(m)' = {k \in Recorded \cup {n} : event'[k].run = m}
    BY <1>5 DEF EventsOf
  <2>3. \A k \in Recorded : event'[k] = event[k]
    BY <1>2, <1>3 DEF Recorded
  <2>4. QED
    BY <2>2, <2>3, <1>2 DEF EventsOf
<1>7. \A m \in Ids : \/ run'[m] = run[m] /\ m # e.run
                     \/ run'[m] = [run[m] EXCEPT !.published = TRUE] /\ m = e.run /\ run[m] # NoRow
  <2>1. CASE e.run = NoRow
    <3>1. NoRow \notin Ids
      OBVIOUS
    <3>2. QED
      BY <2>1, <3>1
  <2>2. CASE e.run # NoRow
    <3>1. e.run \in Ids /\ run[e.run] # NoRow
      BY <2>2 DEF Kept
    <3>2. run'[e.run] = [run[e.run] EXCEPT !.published = TRUE]
      BY <2>2, <3>1, <1>1
    <3>3. \A m \in Ids \ {e.run} : run'[m] = run[m]
      BY <2>2, <1>1
    <3>4. QED
      BY <3>1, <3>2, <3>3
  <2>3. QED
    BY <2>1, <2>2
<1>8. \A m \in Ids : run[m] # NoRow => [run[m] EXCEPT !.published = TRUE] \in RunRow
  <2>1. ASSUME NEW m \in Ids, run[m] # NoRow PROVE [run[m] EXCEPT !.published = TRUE] \in RunRow
    <3>1. run[m] \in RunRow
      BY <1>1, <2>1
    <3>2. QED
      BY <3>1 DEF RunRow
  <2>2. QED
    BY <2>1
<1>9. run' \in [Ids -> RunRow \cup {NoRow}]
  <2>1. CASE e.run = NoRow
    BY <1>1, <2>1
  <2>2. CASE e.run # NoRow
    <3>1. e.run \in Kept /\ e.run \in Ids /\ run[e.run] # NoRow
      BY <2>2 DEF Kept
    <3>2. run' = [run EXCEPT ![e.run] = [run[e.run] EXCEPT !.published = TRUE]]
      BY <2>2
    <3>3. QED
      BY <1>1, <1>8, <3>1, <3>2
  <2>3. QED
    BY <2>1, <2>2
<1>10. ASSUME NEW m \in Ids
       PROVE  /\ run'[m] = NoRow <=> run[m] = NoRow
              /\ run[m] # NoRow =>
                    /\ run'[m].planned = run[m].planned /\ run'[m].measured = run[m].measured
                    /\ run'[m].status = run[m].status /\ run'[m].leading = run[m].leading
                    /\ run'[m].actual = run[m].actual /\ run'[m].recipe = run[m].recipe
                    /\ run'[m].published = (run[m].published \/ m = e.run)
  <2>1. CASE run'[m] = run[m] /\ m # e.run
    <3>1. run[m] # NoRow => run[m].published \in BOOLEAN
      BY <1>1 DEF RunRow
    <3>2. QED
      BY <2>1, <3>1
  <2>2. CASE run'[m] = [run[m] EXCEPT !.published = TRUE] /\ m = e.run /\ run[m] # NoRow
    <3>1. run[m] \in RunRow /\ run'[m] \in RunRow
      BY <1>1, <1>8, <2>2
    <3>2. QED
      BY <2>2, <3>1 DEF RunRow
  <2>3. QED
    BY <1>7, <2>1, <2>2
<1>11. Kept' = Kept
    BY <1>10 DEF Kept
<1>12. ASSUME NEW m \in Ids, m # n, Unused(m) PROVE Unused(m)'
    BY <1>2, <1>10, <1>12 DEF Unused, None
<1>13. Mild(x)
  <2>1. \A m \in Ids : event[m] # NoRow => event'[m] # NoRow
    BY <1>2, <1>4
  <2>2. QED
    BY <2>1, <1>10, <1>12 DEF Mild, Started
<1>14. CompletedIsWeighed'
  <2>1. ASSUME NEW m \in Kept PROVE Coherent(run'[m])
    <3>1. Coherent(run[m]) /\ m \in Ids /\ run[m] # NoRow
      BY <2>1, <1>1 DEF RowsInv, CompletedIsWeighed, Kept
    <3>2. QED
      BY <3>1, <1>10 DEF Coherent, Started
  <2>2. QED
    BY <2>1, <1>11 DEF CompletedIsWeighed
<1>15. PublishedIffRecorded'
  <2>1. ASSUME NEW m \in Kept PROVE run'[m].published <=> EventsOf(m)' # {}
    <3>1. (run[m].published <=> EventsOf(m) # {}) /\ m \in Ids /\ run[m] # NoRow
      BY <2>1, <1>1 DEF RowsInv, PublishedIffRecorded, Kept
    <3>2. run'[m].published = (run[m].published \/ m = e.run)
      BY <3>1, <1>10
    <3>3. run[m].published \in BOOLEAN
      BY <3>1, <1>1 DEF RunRow
    <3>4. EventsOf(m)' = EventsOf(m) \cup (IF e.run = m THEN {n} ELSE {})
      BY <3>1, <1>6
    <3>5. QED
      BY <3>1, <3>2, <3>3, <3>4
  <2>2. QED
    BY <2>1, <1>11 DEF PublishedIffRecorded
<1>16. OneRecipePerDish'
    BY <1>1 DEF RowsInv, OneRecipePerDish
<1>17. HistoryReadable'
  <2>1. ASSUME NEW m \in Kept PROVE ReadRuns(m)'
    <3>1. ReadRuns(m) /\ m \in Ids /\ run[m] # NoRow
      BY <1>1, <2>1 DEF RowsInv, HistoryReadable, Kept
    <3>2. QED
      BY <3>1, <1>10 DEF ReadRuns
  <2>2. ASSUME NEW m \in Recorded' PROVE ReadEvents(m)' /\ event'[m].run \in Kept \cup {NoRow}
    <3>1. CASE m = n
      BY <3>1, <1>2 DEF ReadEvents
    <3>2. CASE m # n
      <4>1. m \in Recorded /\ event'[m] = event[m]
        BY <2>2, <3>2, <1>2, <1>5 DEF Recorded
      <4>2. ReadEvents(m) /\ event[m].run \in Kept \cup {NoRow}
        BY <4>1, <1>1 DEF RowsInv, HistoryReadable
      <4>3. QED
        BY <4>1, <4>2 DEF ReadEvents
    <3>3. QED
      BY <3>1, <3>2
  <2>3. QED
    BY <2>1, <2>2, <1>11 DEF HistoryReadable
<1>18. EventMovesStock'
  <2> SUFFICES ASSUME NEW m \in Recorded', ~event'[m].voided
               PROVE  posted'[<<"event", m>>] =
                        [i \in Items |-> (IF i = event'[m].dish THEN event'[m].output ELSE 0)
                           - (IF event'[m].run = NoRow THEN event'[m].consumed[i] ELSE 0)]
    BY DEF EventMovesStock
  <2>1. CASE m = n
    BY <2>1, <1>2
  <2>2. CASE m # n
    <3>1. m \in Recorded /\ event'[m] = event[m] /\ m \in Ids
      BY <2>2, <1>2, <1>5 DEF Recorded
    <3>2. posted'[<<"event", m>>] = posted[<<"event", m>>]
      BY <3>1, <2>2
    <3>3. QED
      BY <3>1, <3>2, <1>1 DEF RowsInv, EventMovesStock
  <2>3. QED
    BY <2>1, <2>2
<1>19. ASSUME NEW m \in Ids, m > jobs' PROVE Unused(m)'
  <2>1. Unused(m)
    BY <1>1, <1>19 DEF RowsInv
  <2>2. m # n
    BY <1>1, <1>19 DEF Ids
  <2>3. QED
    BY <2>1, <2>2, <1>12
<1>20. QED
    BY <1>2, <1>9, <1>13, <1>14, <1>15, <1>16, <1>17, <1>18, <1>19 DEF RowsInv

\* A record that is undone stays, and is marked.
LEMMA EventUndone ==
    ASSUME ProductionInv, NEW x \in Sessions, Active(x),
           NEW n \in Ids, event[n] # NoRow, event' = [event EXCEPT ![n].voided = TRUE],
           UNCHANGED <<recipe, component, run, jobs>>,
           \A i \in Items : lock[i] # x => level'[i] = level[i],
           \A m \in Ids : m # n => posted'[<<"event", m>>] = posted[<<"event", m>>]
    PROVE  event' \in [Ids -> EventRow \cup {NoRow}] /\ RowsInv' /\ Mild(x)
<1>1. event \in [Ids -> EventRow \cup {NoRow}] /\ RowsInv /\ jobs \in Ids
    BY DEF ProductionInv, TypeOK
<1>2. event[n] \in EventRow
    BY <1>1
<1> DEFINE e == [event[n] EXCEPT !.voided = TRUE]
<1>3. e \in EventRow /\ e.voided /\ e.run = event[n].run /\ e.recipe = event[n].recipe
    BY <1>2 DEF EventRow
<1>4. e # NoRow
    BY <1>3, ProductionAssumption
<1>5. event' \in [Ids -> EventRow \cup {NoRow}] /\ event'[n] = e
    /\ \A m \in Ids \ {n} : event'[m] = event[m]
    BY <1>1, <1>3
<1> HIDE DEF e
<1>6. \A m \in Ids : /\ event'[m] = NoRow <=> event[m] = NoRow
                     /\ event'[m].run = event[m].run /\ event'[m].recipe = event[m].recipe
    BY <1>3, <1>4, <1>5
<1>7. Recorded' = Recorded /\ Kept' = Kept /\ \A m : EventsOf(m)' = EventsOf(m)
    BY <1>6 DEF Recorded, Kept, EventsOf
<1>8. ASSUME NEW m \in Ids, Unused(m) PROVE Unused(m)'
  <2>1. m # n
    BY <1>8 DEF Unused
  <2>2. QED
    BY <1>6, <1>8, <2>1 DEF Unused, None
<1>9. Mild(x)
    BY <1>6, <1>8 DEF Mild
<1>10. CompletedIsWeighed' /\ PublishedIffRecorded' /\ OneRecipePerDish'
    BY <1>1, <1>7 DEF RowsInv, CompletedIsWeighed, PublishedIffRecorded, OneRecipePerDish
<1>11. HistoryReadable'
  <2>1. \A m \in Kept : ReadRuns(m)'
    BY <1>1 DEF RowsInv, HistoryReadable, ReadRuns
  <2>2. \A m \in Recorded : ReadEvents(m)' /\ event'[m].run \in Kept \cup {NoRow}
    BY <1>1, <1>6 DEF RowsInv, HistoryReadable, ReadEvents, Recorded
  <2>3. QED
    BY <2>1, <2>2, <1>7 DEF HistoryReadable
<1>12. EventMovesStock'
  <2> SUFFICES ASSUME NEW m \in Recorded', ~event'[m].voided
               PROVE  posted'[<<"event", m>>] =
                        [i \in Items |-> (IF i = event'[m].dish THEN event'[m].output ELSE 0)
                           - (IF event'[m].run = NoRow THEN event'[m].consumed[i] ELSE 0)]
    BY DEF EventMovesStock
  <2>1. m \in Recorded /\ m \in Ids /\ m # n
    BY <1>3, <1>5, <1>7 DEF Recorded
  <2>2. event'[m] = event[m] /\ posted'[<<"event", m>>] = posted[<<"event", m>>]
    BY <1>5, <2>1
  <2>3. QED
    BY <1>1, <2>1, <2>2 DEF RowsInv, EventMovesStock
<1>13. ASSUME NEW m \in Ids, m > jobs' PROVE Unused(m)'
    BY <1>1, <1>8, <1>13 DEF RowsInv
<1>14. QED
    BY <1>5, <1>9, <1>10, <1>11, <1>12, <1>13 DEF RowsInv

----------------------------------------------------------------------------
(* The commits.                                                             *)

\* A commit that was done leaves tables, stock and sessions as they should be.
LEMMA CommitKeeps ==
    ASSUME ProductionInv, NEW x \in Sessions, Leave(x, "ok"),
           BookTypes', RowsInv', LedgerBalances', Mild(x)
    PROVE  ProductionInv'
<1>1. Finish(x, "ok") /\ jobs' = jobs /\ aborts' = aborts /\ "ok" \in Answers
    BY DEF Leave, Answers
<1>2. aborts' \in 0..MaxAborts
    BY <1>1 DEF ProductionInv, TypeOK
<1>3. QED
    BY <1>1, <1>2, FinishKeeps

\* What a request knows at its commit.
LEMMA AtCommit ==
    ASSUME ProductionInv, NEW x \in Sessions, NEW op, Committing(x, op)
    PROVE  /\ pc[x] = "commit" /\ Active(x) /\ job[x].op = op /\ Loaded(x) /\ BookTypes
           /\ ticket[x] \in Ids /\ Unused(ticket[x]) /\ job[x] \in Jobs
           /\ job[x].id \in Ids /\ job[x].dish \in Items \cup {NoItem}
           /\ job[x].lines \in Lines \cup {NoLines} /\ job[x].leading \in Items
           /\ job[x].quantity \in Nat \ {0} /\ job[x].key \in Keys \cup {NoKey}
           /\ weighed[x] \in Lines /\ moves[x] \in [Items -> Int] /\ rows[x] \in SUBSET Component
           /\ op = "void" => event[job[x].id] # NoRow
           /\ op # "recipe" => job[x].id # ticket[x]
<1>1. pc[x] = "commit" /\ Active(x) /\ Busy(x) /\ job[x].op = op
    BY DEF Committing, Active, Busy
<1>2. Own(x) /\ Loaded(x) /\ Unused(ticket[x]) /\ (op = "void" => event[job[x].id] # NoRow)
    BY <1>1 DEF ProductionInv, Own
<1>3. Apart(x, x)
    BY DEF ProductionInv
<1>4. BookTypes /\ weighed[x] \in Lines /\ moves[x] \in [Items -> Int] /\ rows[x] \in SUBSET Component
    BY TypesAre DEF ProductionInv, OwnTypes
<1>5. op # "recipe" => job[x].id # ticket[x]
    BY <1>1, <1>3 DEF Apart
<1>6. QED
    BY <1>1, <1>2, <1>4, <1>5, UnderWay

\* A run is planned of what the recipe was when it was read.
LEMMA CommitCreateKeeps ==
    ASSUME ProductionInv, NEW x \in Sessions, CommitCreate(x)
    PROVE  ProductionInv'
<1> USE ProductionAssumption
<1> DEFINE j == job[x]  n == ticket[x]
<1>1. Committing(x, "create")
    BY DEF CommitCreate
<1>2. Active(x) /\ j.op = "create" /\ n \in Ids /\ Unused(n) /\ j.id \in Ids
    /\ j.quantity \in Nat \ {0} /\ j.key \in Keys \cup {NoKey}
    /\ rows[x] \in SUBSET Component /\ Loaded(x) /\ BookTypes
    BY <1>1, AtCommit
<1>3. CASE recipe[j.id] = NoRow
    BY <1>3, FailsKeep DEF CommitCreate, Answers
<1>4. CASE recipe[j.id] # NoRow
  <2> DEFINE planned == [i \in Items |-> Amounts(rows[x])[i] * j.quantity]
             r == [recipe |-> j.id, status |-> "pending", target |-> j.quantity,
                   planned |-> planned, measured |-> NoLines, leading |-> NoItem, actual |-> 0,
                   published |-> FALSE, key |-> j.key]
  <2>1. run' = [run EXCEPT ![n] = r] /\ UNCHANGED <<recipe, component, event, stock>> /\ Leave(x, "ok")
    BY <1>4 DEF CommitCreate
  <2>2. planned \in Lines
    <3>1. Amounts(rows[x]) \in Lines
      BY <1>2, AmountsType
    <3> DEFINE a == Amounts(rows[x])  q == j.quantity
    <3>2. a \in [Items -> Nat] /\ q \in Nat
      BY <3>1, <1>2 DEF Lines
    <3> HIDE DEF a, q
    <3>3. \A i \in Items : a[i] * q \in Nat
      BY <3>2
    <3>4. QED
      BY <3>3 DEF Lines, a, q
  <2>3. r \in RunRow
    <3> HIDE DEF planned
    <3>1. QED
      BY <1>2, <2>2 DEF RunRow, Statuses
  <2>4. Coherent(r)
    BY DEF Coherent, Started
  <2>5. recipe[r.recipe] \in Items
    BY <1>2, <1>4 DEF Loaded
  <2>6. EventsOf(n) = {}
    <3>1. n \notin Kept /\ n # NoRow
      BY <1>2 DEF Kept, Unused
    <3>2. \A e \in Recorded : event[e].run \in Kept \cup {NoRow}
      BY EventIs DEF Recorded
    <3>3. QED
      BY <3>1, <3>2 DEF EventsOf
  <2>7. LedgerBalances' /\ level' = level /\ posted' = posted
    BY <2>1, LedgerStays
  <2>8. r # NoRow /\ ~r.published /\ run[n] = NoRow /\ jobs' = jobs
    BY <2>1, <2>3, <1>2 DEF Unused, Leave
  <2> HIDE DEF r, n
  <2>9. run' \in [Ids -> RunRow \cup {NoRow}] /\ RowsInv' /\ Mild(x)
    BY <1>2, <2>1, <2>3, <2>4, <2>5, <2>6, <2>7, <2>8, RunWritten DEF n
  <2>10. BookTypes'
    BY <1>2, <2>1, <2>7, <2>9 DEF BookTypes
  <2>11. QED
    BY <2>1, <2>7, <2>9, <2>10, CommitKeeps
<1>5. QED
    BY <1>3, <1>4

\* A run is started with what was weighed of each line of its plan.
LEMMA CommitStartKeeps ==
    ASSUME ProductionInv, NEW x \in Sessions, CommitStart(x)
    PROVE  ProductionInv'
<1> USE ProductionAssumption
<1> DEFINE j == job[x]  n == j.id
<1>1. Committing(x, "start")
    BY DEF CommitStart
<1>2. pc[x] = "commit" /\ Active(x) /\ j.op = "start" /\ n \in Ids /\ j.leading \in Items
    /\ weighed[x] \in Lines /\ Loaded(x) /\ BookTypes
    BY <1>1, AtCommit
<1>3. CASE run[n] = NoRow
    BY <1>3, FailsKeep DEF CommitStart, Answers
<1>4. CASE run[n] # NoRow
  <2> DEFINE lines == [i \in Items |-> IF run[n].planned[i] = 0 THEN 0 ELSE weighed[x][i]]
             r == [run[n] EXCEPT !.status = "in_progress", !.leading = j.leading, !.measured = lines]
  <2>1. run' = [run EXCEPT ![n] = r] /\ Write(x, <<"run", n>>)
      /\ UNCHANGED <<recipe, component, event>> /\ Leave(x, "ok")
    BY <1>4 DEF CommitStart
  <2>2. run[n] \in RunRow /\ run[n].planned \in Lines /\ recipe[run[n].recipe] \in Items
      /\ (run[n].published <=> EventsOf(n) # {})
    BY <1>2, <1>4, RunIs
  <2>3. lines \in Lines /\ Named(lines) = Named(run[n].planned)
    <3>1. Named(run[n].planned) \subseteq Named(weighed[x])
      BY <1>2, <1>4 DEF Loaded
    <3>2. \A i \in Items : run[n].planned[i] \in Nat /\ weighed[x][i] \in Nat
      BY <1>2, <2>2 DEF Lines
    <3>3. \A i \in Items : lines[i] \in Nat /\ (lines[i] # 0 <=> run[n].planned[i] # 0)
      BY <3>1, <3>2 DEF Named
    <3>4. QED
      BY <3>3 DEF Lines, Named
  <2> HIDE DEF lines
  <2>4. r \in RunRow /\ r.status = "in_progress" /\ r.leading = j.leading /\ r.measured = lines
      /\ r.planned = run[n].planned /\ r.recipe = run[n].recipe /\ r.published = run[n].published
    BY <1>2, <2>2, <2>3 DEF RunRow, Statuses
  <2>5. Started(r)
    <3>1. NoLines \notin Lines
      OBVIOUS
    <3>2. QED
      BY <2>3, <2>4, <3>1 DEF Started
  <2>6. Coherent(r)
    <3>1. r.leading # NoItem
      BY <1>2, <2>4
    <3>2. QED
      BY <2>3, <2>4, <2>5, <3>1 DEF Coherent
  <2>7. r # NoRow
    BY <2>4
  <2>8. /\ level' \in [Items -> Int] /\ posted' \in [Refs -> [Items -> Int]]
        /\ \A i \in Items : lock[i] # x => level'[i] = level[i]
        /\ \A f \in Refs : f # <<"run", n>> => posted'[f] = posted[f]
        /\ LedgerBalances'
    BY <1>2, <2>1, WriteKeeps
  <2>9. \A m \in Ids : posted'[<<"event", m>>] = posted[<<"event", m>>]
    BY <2>8 DEF Refs
  <2>10. jobs' = jobs
    BY <2>1 DEF Leave
  <2> HIDE DEF r, n
  <2>11. run' \in [Ids -> RunRow \cup {NoRow}] /\ RowsInv' /\ Mild(x)
    BY <1>2, <1>4, <2>1, <2>2, <2>4, <2>5, <2>6, <2>7, <2>8, <2>9, <2>10, RunWritten
  <2>12. BookTypes'
    BY <1>2, <2>1, <2>8, <2>11 DEF BookTypes
  <2>13. QED
    BY <2>1, <2>8, <2>11, <2>12, CommitKeeps
<1>5. QED
    BY <1>3, <1>4

\* A run is completed that was started, whatever its status is by now.
LEMMA CommitCompleteKeeps ==
    ASSUME ProductionInv, NEW x \in Sessions, CommitComplete(x)
    PROVE  ProductionInv'
<1> USE ProductionAssumption
<1> DEFINE j == job[x]  n == j.id
<1>1. Committing(x, "complete")
    BY DEF CommitComplete
<1>2. Active(x) /\ j.op = "complete" /\ n \in Ids /\ j.quantity \in Nat \ {0} /\ Loaded(x) /\ BookTypes
    BY <1>1, AtCommit
<1>3. CASE run[n] = NoRow
    BY <1>3, FailsKeep DEF CommitComplete, Answers
<1>4. CASE run[n] # NoRow
  <2> DEFINE r == [run[n] EXCEPT !.status = "completed", !.actual = j.quantity]
  <2>1. run' = [run EXCEPT ![n] = r] /\ UNCHANGED <<recipe, component, event, stock>> /\ Leave(x, "ok")
    BY <1>4 DEF CommitComplete
  <2>2. run[n] \in RunRow /\ Coherent(run[n]) /\ recipe[run[n].recipe] \in Items
      /\ (run[n].published <=> EventsOf(n) # {}) /\ Started(run[n])
    BY <1>2, <1>4, RunIs DEF Loaded
  <2>3. r \in RunRow /\ r.status = "completed" /\ r.leading = run[n].leading
      /\ r.measured = run[n].measured /\ r.actual = j.quantity
      /\ r.planned = run[n].planned /\ r.recipe = run[n].recipe /\ r.published = run[n].published
    BY <1>2, <2>2 DEF RunRow, Statuses
  <2>4. Started(r) /\ Coherent(r) /\ r # NoRow
    BY <1>2, <2>2, <2>3 DEF Started, Coherent
  <2>5. LedgerBalances' /\ level' = level /\ posted' = posted
    BY <2>1, LedgerStays
  <2>6. jobs' = jobs
    BY <2>1 DEF Leave
  <2> HIDE DEF r, n
  <2>7. run' \in [Ids -> RunRow \cup {NoRow}] /\ RowsInv' /\ Mild(x)
    BY <1>2, <1>4, <2>1, <2>2, <2>3, <2>4, <2>5, <2>6, RunWritten
  <2>8. BookTypes'
    BY <1>2, <2>1, <2>5, <2>7 DEF BookTypes
  <2>9. QED
    BY <2>1, <2>5, <2>7, <2>8, CommitKeeps
<1>5. QED
    BY <1>3, <1>4

\* A run is deleted that no record is of.
LEMMA CommitDeleteKeeps ==
    ASSUME ProductionInv, NEW x \in Sessions, CommitDelete(x)
    PROVE  ProductionInv'
<1> DEFINE n == job[x].id
<1>1. Committing(x, "delete")
    BY DEF CommitDelete
<1>2. Active(x) /\ n \in Ids /\ BookTypes
    BY <1>1, AtCommit
<1>3. CASE EventsOf(n) # {}
    BY <1>3, FailsKeep DEF CommitDelete, Answers
<1>4. CASE EventsOf(n) = {}
  <2>1. run' = [run EXCEPT ![n] = NoRow] /\ UNCHANGED <<recipe, component, event, stock>> /\ Leave(x, "ok")
    BY <1>4 DEF CommitDelete
  <2>2. LedgerBalances' /\ level' = level /\ posted' = posted
    BY <2>1, LedgerStays
  <2>3. jobs' = jobs
    BY <2>1 DEF Leave
  <2> HIDE DEF n
  <2>4. run' \in [Ids -> RunRow \cup {NoRow}] /\ RowsInv' /\ Mild(x)
    BY <1>2, <1>4, <2>1, <2>2, <2>3, RunWritten
  <2>5. BookTypes'
    BY <1>2, <2>1, <2>2, <2>4 DEF BookTypes
  <2>6. QED
    BY <2>1, <2>2, <2>4, <2>5, CommitKeeps
<1>5. QED
    BY <1>3, <1>4

\* A run is cancelled, and what was weighed is put back.
LEMMA CommitCancelKeeps ==
    ASSUME ProductionInv, NEW x \in Sessions, CommitCancel(x)
    PROVE  ProductionInv'
<1> USE ProductionAssumption
<1> DEFINE n == job[x].id
<1>1. Committing(x, "cancel")
    BY DEF CommitCancel
<1>2. pc[x] = "commit" /\ Active(x) /\ n \in Ids /\ BookTypes
    BY <1>1, AtCommit
<1>3. CASE run[n] = NoRow
    BY <1>3, FailsKeep DEF CommitCancel, Answers
<1>4. CASE run[n] # NoRow
  <2> DEFINE r == [run[n] EXCEPT !.status = "cancelled"]
  <2>1. run' = [run EXCEPT ![n] = r] /\ Write(x, <<"run", n>>)
      /\ UNCHANGED <<recipe, component, event>> /\ Leave(x, "ok")
    BY <1>4 DEF CommitCancel
  <2>2. run[n] \in RunRow /\ Coherent(run[n]) /\ recipe[run[n].recipe] \in Items
      /\ (run[n].published <=> EventsOf(n) # {})
    BY <1>2, <1>4, RunIs
  <2>3. r \in RunRow /\ r.status = "cancelled" /\ r.leading = run[n].leading
      /\ r.measured = run[n].measured /\ r.planned = run[n].planned
      /\ r.recipe = run[n].recipe /\ r.published = run[n].published
    BY <2>2 DEF RunRow, Statuses
  <2>4. Coherent(r) /\ r # NoRow /\ (Started(run[n]) => Started(r))
    BY <2>2, <2>3 DEF Started, Coherent
  <2>5. /\ level' \in [Items -> Int] /\ posted' \in [Refs -> [Items -> Int]]
        /\ \A i \in Items : lock[i] # x => level'[i] = level[i]
        /\ \A f \in Refs : f # <<"run", n>> => posted'[f] = posted[f]
        /\ LedgerBalances'
    BY <1>2, <2>1, WriteKeeps
  <2>6. \A m \in Ids : posted'[<<"event", m>>] = posted[<<"event", m>>]
    BY <2>5 DEF Refs
  <2>7. jobs' = jobs
    BY <2>1 DEF Leave
  <2> HIDE DEF r, n
  <2>8. run' \in [Ids -> RunRow \cup {NoRow}] /\ RowsInv' /\ Mild(x)
    BY <1>2, <1>4, <2>1, <2>2, <2>3, <2>4, <2>5, <2>6, <2>7, RunWritten
  <2>9. BookTypes'
    BY <1>2, <2>1, <2>5, <2>8 DEF BookTypes
  <2>10. QED
    BY <2>1, <2>5, <2>8, <2>9, CommitKeeps
<1>5. QED
    BY <1>3, <1>4

\* What was made is the output of one dish.
LEMMA RecordIs ==
    ASSUME ProductionInv, NEW x \in Sessions,
           Committing(x, "produce") \/ Committing(x, "publish"),
           NEW formula \in Ids, NEW n \in Ids \cup {NoRow}, NEW key \in Keys \cup {NoKey}
    PROVE  /\ Record(x, formula, n, key) \in EventRow
           /\ Record(x, formula, n, key).recipe = formula
           /\ Record(x, formula, n, key).run = n
           /\ Record(x, formula, n, key).consumed = weighed[x]
           /\ ~Record(x, formula, n, key).voided
           /\ \A i \in Items : Made(x)[i] =
                IF i = Record(x, formula, n, key).dish THEN Record(x, formula, n, key).output ELSE 0
<1>1. /\ job[x].op \in {"produce", "publish"} /\ Loaded(x)
      /\ weighed[x] \in Lines /\ moves[x] \in [Items -> Int]
    BY AtCommit
<1>2. PICK d \in Items : Made(x)[d] > 0 /\ Made(x) = [None EXCEPT ![d] = Made(x)[d]]
    BY <1>1 DEF Loaded
<1>3. \A i \in Items : i # d => Made(x)[i] = 0
    BY <1>2, NoneType DEF None
<1>4. Made(x)[d] \in Int
    BY <1>1 DEF Made, Lines
<1>5. Made(x)[d] \in Nat /\ Made(x)[d] # 0
    BY <1>2, <1>4
<1>6. (CHOOSE i \in Items : Made(x)[i] # 0) = d
    BY <1>3, <1>5
<1> DEFINE e == Record(x, formula, n, key)
<1>7. e = [recipe |-> formula, run |-> n, consumed |-> weighed[x],
           output |-> Made(x)[d], dish |-> d, voided |-> FALSE, key |-> key]
    BY <1>6 DEF Record
<1>8. e \in EventRow
    BY <1>1, <1>5, <1>7 DEF EventRow
<1> HIDE DEF e
<1>9. e.recipe = formula /\ e.run = n /\ e.consumed = weighed[x] /\ ~e.voided /\ e.dish = d
    /\ e.output = Made(x)[d]
    BY <1>7
<1>10. \A i \in Items : Made(x)[i] = IF i = e.dish THEN e.output ELSE 0
    BY <1>3, <1>9
<1>11. QED
    BY <1>8, <1>9, <1>10 DEF e

\* A run is published: its output comes into stock, with a record of it.
LEMMA CommitPublishKeeps ==
    ASSUME ProductionInv, NEW x \in Sessions, CommitPublish(x)
    PROVE  ProductionInv'
<1> USE ProductionAssumption
<1> DEFINE n == job[x].id  t == ticket[x]
<1>1. Committing(x, "publish")
    BY DEF CommitPublish
<1>2. pc[x] = "commit" /\ Active(x) /\ job[x].op = "publish" /\ n \in Ids /\ t \in Ids /\ Unused(t)
    /\ BookTypes /\ weighed[x] \in Lines /\ moves[x] \in [Items -> Int]
    BY <1>1, AtCommit
<1>3. CASE run[n] = NoRow
    BY <1>3, FailsKeep DEF CommitPublish, Answers
<1>4. CASE run[n] # NoRow
  <2> DEFINE e == Record(x, run[n].recipe, n, NoKey)
  <2>1. event' = [event EXCEPT ![t] = e] /\ run' = [run EXCEPT ![n].published = TRUE]
      /\ Write(x, <<"event", t>>) /\ UNCHANGED <<recipe, component>> /\ Leave(x, "ok")
    BY <1>4 DEF CommitPublish
  <2>2. run[n].recipe \in Ids /\ recipe[run[n].recipe] \in Items /\ n \in Kept
    BY <1>2, <1>4, RunIs
  <2>3. e \in EventRow /\ e.recipe = run[n].recipe /\ e.run = n /\ ~e.voided
      /\ \A i \in Items : Made(x)[i] = IF i = e.dish THEN e.output ELSE 0
    BY <1>1, <1>2, <2>2, RecordIs
  <2>4. /\ level' \in [Items -> Int] /\ posted' \in [Refs -> [Items -> Int]]
        /\ \A i \in Items : lock[i] # x => level'[i] = level[i]
        /\ \A f \in Refs : f # <<"event", t>> => posted'[f] = posted[f]
        /\ posted'[<<"event", t>>] = [i \in Items |-> posted[<<"event", t>>][i] + moves[x][i]]
        /\ LedgerBalances'
    BY <1>2, <2>1, WriteKeeps
  <2>5. \A m \in Ids : m # t => posted'[<<"event", m>>] = posted[<<"event", m>>]
    BY <2>4 DEF Refs
  <2>6. n # NoRow
    BY <1>2
  <2> HIDE DEF e
  <2>7. posted'[<<"event", t>>] =
          [i \in Items |-> (IF i = e.dish THEN e.output ELSE 0)
                             - (IF e.run = NoRow THEN e.consumed[i] ELSE 0)]
    <3>1. \A i \in Items : posted[<<"event", t>>][i] = 0
      BY <1>2 DEF Unused, None
    <3>2. \A i \in Items : Made(x)[i] = moves[x][i] /\ moves[x][i] \in Int
      BY <1>2 DEF Made
    <3>3. \A i \in Items : posted[<<"event", t>>][i] + moves[x][i]
             = (IF i = e.dish THEN e.output ELSE 0) - (IF e.run = NoRow THEN e.consumed[i] ELSE 0)
      <4>1. TAKE i \in Items
      <4> DEFINE a == posted[<<"event", t>>][i]  b == moves[x][i]
                 c == IF i = e.dish THEN e.output ELSE 0
      <4>2. a = 0 /\ b \in Int /\ b = c
        BY <2>3, <3>1, <3>2
      <4>3. e.run # NoRow
        BY <2>3, <2>6
      <4> HIDE DEF a, b, c
      <4>4. a + b = c - 0
        BY <4>2
      <4>5. QED
        BY <4>3, <4>4 DEF a, b, c
    <3> DEFINE f == [i \in Items |-> posted[<<"event", t>>][i] + moves[x][i]]
               g == [i \in Items |-> (IF i = e.dish THEN e.output ELSE 0)
                                       - (IF e.run = NoRow THEN e.consumed[i] ELSE 0)]
    <3>4. \A i \in Items : f[i] = g[i]
      BY <3>3
    <3>5. f = [i \in Items |-> f[i]] /\ g = [i \in Items |-> g[i]]
      OBVIOUS
    <3>6. posted'[<<"event", t>>] = f
      BY <2>4
    <3> HIDE DEF f, g
    <3>7. f = g
      BY <3>4, <3>5
    <3>8. QED
      BY <3>6, <3>7 DEF g
  <2>8. jobs' = jobs
    BY <2>1 DEF Leave
  <2> HIDE DEF n, t
  <2>9. /\ event' \in [Ids -> EventRow \cup {NoRow}] /\ run' \in [Ids -> RunRow \cup {NoRow}]
        /\ RowsInv' /\ Mild(x)
    <3>1. e.run \in Kept \cup {NoRow} /\ recipe[e.recipe] \in Items /\ e.run # NoRow
        /\ run' = [run EXCEPT ![e.run].published = TRUE]
      BY <2>1, <2>2, <2>3, <2>6
    <3>2. QED
      BY <1>2, <2>1, <2>3, <2>4, <2>5, <2>7, <2>8, <3>1, EventRecorded DEF t
  <2>10. BookTypes'
    BY <1>2, <2>1, <2>4, <2>9 DEF BookTypes
  <2>11. QED
    BY <2>1, <2>4, <2>9, <2>10, CommitKeeps
<1>5. QED
    BY <1>3, <1>4

\* A quick event takes its ingredients and brings its dish, all or nothing.
LEMMA CommitProduceKeeps ==
    ASSUME ProductionInv, NEW x \in Sessions, CommitProduce(x)
    PROVE  ProductionInv'
<1> USE ProductionAssumption
<1> DEFINE j == job[x]  t == ticket[x]
<1>1. Committing(x, "produce")
    BY DEF CommitProduce
<1>2. pc[x] = "commit" /\ Active(x) /\ j.op = "produce" /\ j.id \in Ids /\ t \in Ids /\ Unused(t)
    /\ j.key \in Keys \cup {NoKey} /\ Loaded(x)
    /\ BookTypes /\ weighed[x] \in Lines /\ moves[x] \in [Items -> Int]
    BY <1>1, AtCommit
<1>3. CASE recipe[j.id] = NoRow
    BY <1>3, FailsKeep DEF CommitProduce, Answers
<1>4. CASE recipe[j.id] # NoRow
  <2> DEFINE e == Record(x, j.id, NoRow, j.key)
  <2>1. event' = [event EXCEPT ![t] = e] /\ Write(x, <<"event", t>>)
      /\ UNCHANGED <<recipe, component, run>> /\ Leave(x, "ok")
    BY <1>4 DEF CommitProduce
  <2>2. recipe[j.id] \in Items
    BY <1>2, <1>4 DEF Loaded
  <2>3. e \in EventRow /\ e.recipe = j.id /\ e.run = NoRow /\ ~e.voided /\ e.consumed = weighed[x]
      /\ \A i \in Items : Made(x)[i] = IF i = e.dish THEN e.output ELSE 0
    BY <1>1, <1>2, RecordIs
  <2>4. /\ level' \in [Items -> Int] /\ posted' \in [Refs -> [Items -> Int]]
        /\ \A i \in Items : lock[i] # x => level'[i] = level[i]
        /\ \A f \in Refs : f # <<"event", t>> => posted'[f] = posted[f]
        /\ posted'[<<"event", t>>] = [i \in Items |-> posted[<<"event", t>>][i] + moves[x][i]]
        /\ LedgerBalances'
    BY <1>2, <2>1, WriteKeeps
  <2>5. \A m \in Ids : m # t => posted'[<<"event", m>>] = posted[<<"event", m>>]
    BY <2>4 DEF Refs
  <2> HIDE DEF e
  <2>6. posted'[<<"event", t>>] =
          [i \in Items |-> (IF i = e.dish THEN e.output ELSE 0)
                             - (IF e.run = NoRow THEN e.consumed[i] ELSE 0)]
    <3>1. \A i \in Items : posted[<<"event", t>>][i] = 0
      BY <1>2 DEF Unused, None
    <3>2. \A i \in Items : Made(x)[i] = moves[x][i] + weighed[x][i] /\ moves[x][i] \in Int
            /\ weighed[x][i] \in Int
      BY <1>2 DEF Made, Lines
    <3>3. \A i \in Items : posted[<<"event", t>>][i] + moves[x][i]
             = (IF i = e.dish THEN e.output ELSE 0) - (IF e.run = NoRow THEN e.consumed[i] ELSE 0)
      <4>1. TAKE i \in Items
      <4> DEFINE a == posted[<<"event", t>>][i]  b == moves[x][i]  w == weighed[x][i]
                 c == IF i = e.dish THEN e.output ELSE 0
      <4>2. a = 0 /\ b \in Int /\ w \in Int /\ b + w = c
        BY <2>3, <3>1, <3>2
      <4>3. e.run = NoRow /\ e.consumed[i] = w
        BY <2>3
      <4> HIDE DEF a, b, c, w
      <4>4. a + b = c - w
        BY <4>2
      <4>5. QED
        BY <4>3, <4>4 DEF a, b, c, w
    <3> DEFINE f == [i \in Items |-> posted[<<"event", t>>][i] + moves[x][i]]
               g == [i \in Items |-> (IF i = e.dish THEN e.output ELSE 0)
                                       - (IF e.run = NoRow THEN e.consumed[i] ELSE 0)]
    <3>4. \A i \in Items : f[i] = g[i]
      BY <3>3
    <3>5. f = [i \in Items |-> f[i]] /\ g = [i \in Items |-> g[i]]
      OBVIOUS
    <3>6. posted'[<<"event", t>>] = f
      BY <2>4
    <3> HIDE DEF f, g
    <3>7. f = g
      BY <3>4, <3>5
    <3>8. QED
      BY <3>6, <3>7 DEF g
  <2>7. jobs' = jobs
    BY <2>1 DEF Leave
  <2> HIDE DEF t
  <2>8. /\ event' \in [Ids -> EventRow \cup {NoRow}] /\ run' \in [Ids -> RunRow \cup {NoRow}]
        /\ RowsInv' /\ Mild(x)
    <3>1. e.run \in Kept \cup {NoRow} /\ recipe[e.recipe] \in Items /\ e.run = NoRow
      BY <2>2, <2>3
    <3>2. QED
      BY <1>2, <2>1, <2>3, <2>4, <2>5, <2>6, <2>7, <3>1, EventRecorded DEF t
  <2>9. BookTypes'
    BY <1>2, <2>1, <2>4, <2>8 DEF BookTypes
  <2>10. QED
    BY <2>1, <2>4, <2>8, <2>9, CommitKeeps
<1>5. QED
    BY <1>3, <1>4

\* An event is undone.
LEMMA CommitVoidKeeps ==
    ASSUME ProductionInv, NEW x \in Sessions, CommitVoid(x)
    PROVE  ProductionInv'
<1> DEFINE n == job[x].id
<1>1. Committing(x, "void")
    BY DEF CommitVoid
<1>2. pc[x] = "commit" /\ Active(x) /\ n \in Ids /\ event[n] # NoRow /\ BookTypes
    BY <1>1, AtCommit
<1>3. event' = [event EXCEPT ![n].voided = TRUE] /\ Write(x, <<"event", n>>)
    /\ UNCHANGED <<recipe, component, run>> /\ Leave(x, "ok")
    BY DEF CommitVoid
<1>4. /\ level' \in [Items -> Int] /\ posted' \in [Refs -> [Items -> Int]]
      /\ \A i \in Items : lock[i] # x => level'[i] = level[i]
      /\ \A f \in Refs : f # <<"event", n>> => posted'[f] = posted[f]
      /\ LedgerBalances'
    BY <1>2, <1>3, WriteKeeps
<1>5. \A m \in Ids : m # n => posted'[<<"event", m>>] = posted[<<"event", m>>]
    BY <1>4 DEF Refs
<1>6. jobs' = jobs
    BY <1>3 DEF Leave
<1> HIDE DEF n
<1>7. event' \in [Ids -> EventRow \cup {NoRow}] /\ RowsInv' /\ Mild(x)
    BY <1>2, <1>3, <1>4, <1>5, <1>6, EventUndone
<1>8. BookTypes'
    BY <1>2, <1>3, <1>4, <1>7 DEF BookTypes
<1>9. QED
    BY <1>3, <1>4, <1>7, <1>8, CommitKeeps

\* The rows of an ingredient set are component rows.
LEMMA NewRowsType ==
    ASSUME ProductionInv, NEW x \in Sessions, Active(x), job[x].op \in {"recipe", "update"},
           NEW n \in Ids
    PROVE  NewRows(x, n) \subseteq Component
<1>1. job[x].lines \in Lines /\ ticket[x] \in Ids
    BY UnderWay, ProductionAssumption
<1>2. ASSUME NEW i \in Named(job[x].lines) PROVE
        [recipe |-> n, item |-> i, need |-> job[x].lines[i], rev |-> ticket[x]] \in Component
    BY <1>1 DEF Named, Lines, Component
<1>3. QED
    BY <1>2 DEF NewRows

\* Recipes are made, linked, edited and dropped; one that is in use stays.
LEMMA CommitRecipesKeep ==
    ASSUME ProductionInv, NEW x \in Sessions,
           CommitRecipe(x) \/ CommitLink(x) \/ CommitUpdate(x) \/ CommitDrop(x)
    PROVE  ProductionInv'
<1> USE ProductionAssumption
<1> DEFINE j == job[x]
<1>1. recipe \in [Ids -> Items \cup {NoItem, NoRow}] /\ component \subseteq Component
    BY DEF ProductionInv, TypeOK
<1>2. ASSUME NEW n \in Ids, NEW d \in Items \cup {NoItem, NoRow}, Active(x),
             recipe' = [recipe EXCEPT ![n] = d], component' \subseteq Component,
             UNCHANGED <<run, event, stock>>, Leave(x, "ok"),
             n = ticket[x] \/ recipe[n] # NoRow \/ d = NoRow,
             d \in Items => \A m \in Ids \ {n} : recipe[m] # d,
             d \notin Items => (\A m \in Kept : run[m].recipe # n) /\ (\A e \in Recorded : event[e].recipe # n),
             n # ticket[x] /\ recipe[n] \in Items \cup {NoRow} => d # NoItem
      PROVE  ProductionInv'
  <2>1. LedgerBalances' /\ level' = level /\ posted' = posted
    BY <1>2, LedgerStays
  <2>2. jobs' = jobs
    BY <1>2 DEF Leave
  <2>3. recipe' \in [Ids -> Items \cup {NoItem, NoRow}] /\ RowsInv' /\ Mild(x)
    BY <1>2, <2>2, RecipeWritten
  <2>4. BookTypes'
    BY <1>2, <2>1, <2>3, TypesAre DEF BookTypes, ProductionInv
  <2>5. QED
    BY <1>2, <2>1, <2>3, <2>4, CommitKeeps
<1>3. ASSUME NEW n \in Ids, recipe[n] \notin Items
      PROVE  (\A m \in Kept : run[m].recipe # n) /\ (\A e \in Recorded : event[e].recipe # n)
    BY <1>3, RunIs, EventIs DEF Kept, Recorded
<1>4. CASE CommitRecipe(x)
  <2>1. Committing(x, "recipe")
    BY <1>4 DEF CommitRecipe
  <2> DEFINE t == ticket[x]  d == j.dish
  <2>2. Active(x) /\ j.op = "recipe" /\ t \in Ids /\ Unused(t) /\ d \in Items \cup {NoItem}
    BY <2>1, AtCommit
  <2>3. CASE Taken(d)
    BY <1>4, <2>3, FailsKeep DEF CommitRecipe, Answers
  <2>4. CASE ~Taken(d)
    <3>1. recipe' = [recipe EXCEPT ![t] = d] /\ component' = component \cup NewRows(x, t)
        /\ UNCHANGED <<run, event, stock>> /\ Leave(x, "ok")
      BY <1>4, <2>4 DEF CommitRecipe
    <3>2. component' \subseteq Component
      BY <1>1, <2>2, <3>1, NewRowsType
    <3>3. d \in Items => \A m \in Ids \ {t} : recipe[m] # d
      BY <2>4 DEF Taken
    <3>4. recipe[t] \notin Items
      BY <2>2 DEF Unused
    <3> HIDE DEF t, d
    <3>5. (\A m \in Kept : run[m].recipe # t) /\ (\A e \in Recorded : event[e].recipe # t)
      BY <1>3, <2>2, <3>4
    <3>6. t = ticket[x] /\ d \in Items \cup {NoItem, NoRow}
      BY <2>2 DEF t
    <3>7. QED
      BY <1>2, <2>2, <3>1, <3>2, <3>3, <3>5, <3>6
  <2>5. QED
    BY <2>3, <2>4
<1>5. CASE CommitLink(x)
  <2>1. Committing(x, "link")
    BY <1>5 DEF CommitLink
  <2> DEFINE n == j.id  d == j.dish
  <2>2. Active(x) /\ n \in Ids /\ d \in Items
    BY <2>1, AtCommit DEF Loaded
  <2>3. CASE recipe[n] = NoRow \/ Taken(d)
    BY <1>5, <2>3, FailsKeep DEF CommitLink, Answers
  <2>4. CASE recipe[n] # NoRow /\ ~Taken(d)
    <3>1. recipe' = [recipe EXCEPT ![n] = d] /\ UNCHANGED <<component, run, event, stock>> /\ Leave(x, "ok")
      BY <1>5, <2>4 DEF CommitLink
    <3>2. \A m \in Ids \ {n} : recipe[m] # d
      BY <2>2, <2>4 DEF Taken
    <3>3. d # NoItem /\ component' \subseteq Component
      BY <1>1, <2>2, <3>1
    <3> HIDE DEF n, d
    <3>4. QED
      BY <1>2, <2>2, <2>4, <3>1, <3>2, <3>3
  <2>5. QED
    BY <2>3, <2>4
<1>6. CASE CommitUpdate(x)
  <2>1. Committing(x, "update")
    BY <1>6 DEF CommitUpdate
  <2> DEFINE n == j.id  left == component \ rows[x]
             clash == recipe[n] = NoRow \/ \E c \in left : c.recipe = n /\ c.item \in Named(j.lines)
  <2>2. Active(x) /\ j.op = "update" /\ n \in Ids
    BY <2>1, AtCommit
  <2>3. CASE clash
    BY <1>6, <2>3, FailsKeep DEF CommitUpdate, Answers
  <2>4. CASE ~clash
    <3>1. component' = left \cup NewRows(x, n) /\ UNCHANGED <<recipe, run, event, stock>> /\ Leave(x, "ok")
      BY <1>6, <2>4 DEF CommitUpdate
    <3>2. component' \subseteq Component
      BY <1>1, <2>2, <3>1, NewRowsType
    <3> DEFINE d == recipe[n]
    <3>3. d \in Items \cup {NoItem, NoRow} /\ d # NoRow /\ recipe' = [recipe EXCEPT ![n] = d]
      BY <1>1, <2>2, <2>4, <3>1
    <3>4. d \in Items => \A m \in Ids \ {n} : recipe[m] # d
      BY <2>2 DEF ProductionInv, RowsInv, OneRecipePerDish
    <3>5. d \notin Items => (\A m \in Kept : run[m].recipe # n) /\ (\A e \in Recorded : event[e].recipe # n)
      BY <1>3, <2>2
    <3>6. recipe[n] \in Items \cup {NoRow} => d # NoItem
      OBVIOUS
    <3>7. recipe[n] # NoRow
      BY <3>3
    <3>8. UNCHANGED <<run, event, stock>> /\ Leave(x, "ok")
      BY <3>1
    <3> HIDE DEF n, d
    <3>9. QED
      BY <1>2, <2>2, <3>2, <3>3, <3>4, <3>5, <3>6, <3>7, <3>8
  <2>5. QED
    BY <2>3, <2>4
<1>7. CASE CommitDrop(x)
  <2>1. Committing(x, "drop")
    BY <1>7 DEF CommitDrop
  <2> DEFINE n == j.id
  <2>2. Active(x) /\ n \in Ids
    BY <2>1, AtCommit
  <2>3. CASE Restricts(n)
    BY <1>7, <2>3, FailsKeep DEF CommitDrop, Answers
  <2>4. CASE ~Restricts(n)
    <3>1. recipe' = [recipe EXCEPT ![n] = NoRow] /\ component' = component \ Of(n)
        /\ UNCHANGED <<run, event, stock>> /\ Leave(x, "ok")
      BY <1>7, <2>4 DEF CommitDrop
    <3>2. component' \subseteq Component
      BY <1>1, <3>1
    <3>3. (\A m \in Kept : run[m].recipe # n) /\ (\A e \in Recorded : event[e].recipe # n)
      BY <2>4 DEF Restricts
    <3> DEFINE d == NoRow
    <3>4. d = NoRow /\ d \in Items \cup {NoItem, NoRow} /\ d \notin Items /\ d # NoItem
        /\ recipe' = [recipe EXCEPT ![n] = d]
      BY <3>1
    <3> HIDE DEF n, d
    <3>5. QED
      BY <1>2, <2>2, <3>1, <3>2, <3>3, <3>4
  <2>5. QED
    BY <2>3, <2>4
<1>8. QED
    BY <1>4, <1>5, <1>6, <1>7

----------------------------------------------------------------------------
(* The invariant.                                                           *)

\* It holds of what an earlier day left.
LEMMA InitHolds == Init => ProductionInv
<1> SUFFICES ASSUME Init PROVE ProductionInv
    OBVIOUS
<1> USE ProductionAssumption
<1>1. PICK r \in Carried :
        /\ run = [n \in Ids |-> IF n = 0 THEN r ELSE NoRow]
        /\ component = {[recipe |-> 0, item |-> i, need |-> r.planned[i], rev |-> 0] :
                           i \in Named(r.planned)}
        /\ event = [n \in Ids |-> IF n # 0 THEN NoRow ELSE
             [recipe |-> 0, run |-> NoRow, consumed |-> r.planned, output |-> 1,
              dish |-> Dish, voided |-> FALSE, key |-> NoKey]]
        /\ posted = [f \in Refs |->
             IF f = <<"run", 0>> /\ Started(r) THEN Out(r.measured)
             ELSE IF f = <<"event", 0>>
             THEN [Out(r.planned) EXCEPT ![Dish] = @ + 1]
             ELSE None]
    BY DEF Init
<1>2. r \in RunRow /\ r.recipe = 0 /\ ~r.published /\ Coherent(r)
    OBVIOUS
<1>3. r.planned \in Lines /\ (Started(r) => r.measured \in Lines)
    BY <1>2 DEF RunRow, Started
<1>4. 0 \in Ids /\ NoRow \notin Ids /\ NoRow \notin Items /\ Dish \in Items /\ r # NoRow
    BY <1>2 DEF Ids
<1> DEFINE e == [recipe |-> 0, run |-> NoRow, consumed |-> r.planned, output |-> 1,
                 dish |-> Dish, voided |-> FALSE, key |-> NoKey]
<1>5. e \in EventRow /\ e # NoRow
  <2>1. e \in EventRow
    BY <1>3, <1>4 DEF EventRow
  <2>2. QED
    BY <2>1
<1>6. /\ recipe = [n \in Ids |-> IF n = 0 THEN Dish ELSE NoRow]
      /\ level = [i \in Items |->
            Opening[i] + posted[<<"run", 0>>][i] + posted[<<"event", 0>>][i]]
      /\ lock = [i \in Items |-> NoSession] /\ pc = [x \in Sessions |-> "idle"]
      /\ job = [x \in Sessions |-> NoJob] /\ ticket = [x \in Sessions |-> 0]
      /\ rows = [x \in Sessions |-> {}] /\ want = [x \in Sessions |-> {}]
      /\ weighed = [x \in Sessions |-> None]
      /\ moves = [x \in Sessions |-> None] /\ base = [x \in Sessions |-> None]
      /\ jobs = 0 /\ aborts = 0
    BY DEF Init
<1>7. run[0] = r /\ event[0] = e /\ recipe[0] = Dish
    /\ \A n \in Ids \ {0} : run[n] = NoRow /\ event[n] = NoRow /\ recipe[n] = NoRow
    BY <1>1, <1>4, <1>6
<1>8. Out(r.planned) \in [Items -> Int] /\ (Started(r) => Out(r.measured) \in [Items -> Int])
    BY <1>3, OutType
<1>9. [Out(r.planned) EXCEPT ![Dish] = @ + 1] \in [Items -> Int]
    BY <1>4, <1>8
<1>10. \A n \in Ids : <<"run", n>> \in Refs /\ <<"event", n>> \in Refs /\ <<"event", n>> # <<"run", 0>>
        /\ (n # 0 => <<"event", n>> # <<"event", 0>> /\ <<"run", n>> # <<"run", 0>>)
        /\ <<"run", n>> # <<"event", 0>>
    BY DEF Refs
<1>11. posted \in [Refs -> [Items -> Int]]
    BY <1>1, <1>8, <1>9, NoneType
<1>12. /\ posted[<<"event", 0>>] = [Out(r.planned) EXCEPT ![Dish] = @ + 1]
       /\ \A n \in Ids \ {0} : posted[<<"run", n>>] = None /\ posted[<<"event", n>>] = None
    BY <1>1, <1>4, <1>10
<1>13. BookTypes
  <2>1. component \subseteq Component
    <3>1. ASSUME NEW i \in Named(r.planned) PROVE
            [recipe |-> 0, item |-> i, need |-> r.planned[i], rev |-> 0] \in Component
      BY <1>3, <1>4 DEF Named, Lines, Component
    <3>2. QED
      BY <1>1, <3>1
  <2>2. level \in [Items -> Int]
    <3>1. posted[<<"run", 0>>] \in [Items -> Int] /\ posted[<<"event", 0>>] \in [Items -> Int]
      BY <1>4, <1>10, <1>11
    <3>2. QED
      BY <1>6, <3>1
  <2>3. run \in [Ids -> RunRow \cup {NoRow}] /\ event \in [Ids -> EventRow \cup {NoRow}]
      /\ recipe \in [Ids -> Items \cup {NoItem, NoRow}]
    <3>1. event = [n \in Ids |-> IF n # 0 THEN NoRow ELSE e]
      BY <1>1
    <3> HIDE DEF e
    <3>2. event \in [Ids -> EventRow \cup {NoRow}]
      BY <1>5, <3>1
    <3>3. run \in [Ids -> RunRow \cup {NoRow}]
      BY <1>1, <1>2
    <3>4. recipe \in [Ids -> Items \cup {NoItem, NoRow}]
      BY <1>4, <1>6
    <3>5. QED
      BY <3>2, <3>3, <3>4
  <2>4. QED
    BY <1>11, <2>1, <2>2, <2>3 DEF BookTypes
<1>14. OwnTypes
    BY <1>6, NoneType DEF OwnTypes, Places, Ids
<1>15. RowsInv
  <2>1. Kept = {0} /\ Recorded = {0}
    BY <1>4, <1>5, <1>7 DEF Kept, Recorded
  <2>2. CompletedIsWeighed
    BY <1>2, <1>7, <2>1 DEF CompletedIsWeighed
  <2>3. \A n \in Ids : EventsOf(n) = {}
    BY <1>4, <1>7, <2>1 DEF EventsOf
  <2>4. PublishedIffRecorded
    BY <1>2, <1>4, <1>7, <2>1, <2>3 DEF PublishedIffRecorded
  <2>5. OneRecipePerDish
    BY <1>4, <1>7 DEF OneRecipePerDish
  <2>6. HistoryReadable
    BY <1>2, <1>4, <1>7, <2>1 DEF HistoryReadable, ReadRuns, ReadEvents
  <2>7. EventMovesStock
    <3>1. \A i \in Items : Out(r.planned)[i] = -r.planned[i] /\ r.planned[i] \in Nat
      BY <1>3 DEF Out, Lines
    <3> DEFINE f == [Out(r.planned) EXCEPT ![Dish] = @ + 1]
               g == [i \in Items |-> (IF i = e.dish THEN e.output ELSE 0)
                                       - (IF e.run = NoRow THEN e.consumed[i] ELSE 0)]
    <3>2. \A i \in Items : f[i] = g[i]
      <4>1. TAKE i \in Items
      <4> DEFINE p == r.planned[i]
      <4>2. f[i] = (IF i = Dish THEN -p + 1 ELSE -p) /\ p \in Nat
        BY <1>8, <3>1
      <4>3. g[i] = (IF i = Dish THEN 1 ELSE 0) - p
        OBVIOUS
      <4> HIDE DEF f, g, p
      <4>4. QED
        BY <4>2, <4>3
    <3>3. f = [i \in Items |-> f[i]] /\ g = [i \in Items |-> g[i]]
      BY <1>8
    <3>4. posted[<<"event", 0>>] = f
      BY <1>12
    <3>5. f = g
      <4> HIDE DEF f, g
      <4>1. QED
        BY <3>2, <3>3
    <3> HIDE DEF f, e
    <3>6. QED
      BY <1>7, <2>1, <3>4, <3>5 DEF EventMovesStock
  <2>8. \A n \in Ids : n > jobs => Unused(n)
    <3>1. ASSUME NEW n \in Ids, n > jobs PROVE n \in Ids \ {0}
      BY <1>6, <3>1 DEF Ids
    <3>2. ASSUME NEW n \in Ids \ {0} PROVE Unused(n)
      BY <1>7, <1>12 DEF Unused
    <3>3. QED
      BY <3>1, <3>2
  <2>9. QED
    BY <2>2, <2>4, <2>5, <2>6, <2>7, <2>8 DEF RowsInv
<1>16. LedgerBalances
  <2> SUFFICES ASSUME NEW i \in Items PROVE level[i] = Opening[i] + Total(Moved(i))
    BY DEF LedgerBalances
  <2>1. \A n \in Ids : posted[<<"run", n>>][i] \in Int /\ posted[<<"event", n>>][i] \in Int
    <3>1. TAKE n \in Ids
    <3>2. posted[<<"run", n>>] \in [Items -> Int] /\ posted[<<"event", n>>] \in [Items -> Int]
      BY <1>10, <1>11
    <3>3. QED
      BY <3>2
  <2>2. Moved(i) \in [Ids -> Int]
    BY <2>1 DEF Moved
  <2>3. \A n \in Ids : n # 0 => Moved(i)[n] = 0
    BY <1>12 DEF Moved, None
  <2>4. Total(Moved(i)) = Moved(i)[0]
    BY <2>2, <2>3, TotalFirst
  <2> DEFINE a == posted[<<"run", 0>>][i]  b == posted[<<"event", 0>>][i]
  <2>5. Moved(i)[0] = a + b /\ level[i] = (Opening[i] + a) + b
    BY <1>4, <1>6 DEF Moved
  <2>6. a \in Int /\ b \in Int /\ Opening[i] \in Int
    BY <1>4, <2>1
  <2> HIDE DEF a, b
  <2>7. QED
    BY <2>4, <2>5, <2>6
<1>17. ASSUME NEW x \in Sessions PROVE Own(x) /\ ~Active(x)
    BY <1>6 DEF Own, Holds, Active, Busy, None
<1>18. QED
    BY <1>13, <1>14, <1>15, <1>16, <1>17, TypesAre DEF ProductionInv, Apart

\* Every step keeps it.
LEMMA NextKeeps == ProductionInv /\ [Next]_vars => ProductionInv'
<1> SUFFICES ASSUME ProductionInv, [Next]_vars PROVE ProductionInv'
    OBVIOUS
<1>1. CASE UNCHANGED vars
  <2>1. UNCHANGED <<book, stock>> /\ jobs' = jobs /\ aborts' = aborts /\ lock' = lock /\ pc' = pc
      /\ UNCHANGED own
    BY <1>1 DEF vars
  <2>2. jobs' \in Ids /\ jobs <= jobs'
    BY <2>1, ProductionAssumption DEF ProductionInv, TypeOK, Ids
  <2>3. TypeOK'
    BY <2>1 DEF ProductionInv, TypeOK, book, stock, own
  <2>4. RowsInv' /\ LedgerBalances'
    <3>1. LedgerBalances'
      BY <2>1, LedgerStays
    <3>2. \A n \in Ids : Unused(n)' <=> Unused(n)
      BY <2>1 DEF Unused, book, stock
    <3>3. RowsInv'
      BY <2>1, <3>2 DEF ProductionInv, RowsInv, CompletedIsWeighed, PublishedIffRecorded,
         OneRecipePerDish, HistoryReadable, EventMovesStock, Kept, Recorded, EventsOf, ReadRuns,
         ReadEvents, book, stock
    <3>4. QED
      BY <3>1, <3>3
  <2>5. ASSUME NEW x \in Sessions PROVE Own(x)'
    <3>1. Own(x)
      BY DEF ProductionInv
    <3>2. (Active(x)' <=> Active(x)) /\ (Busy(x)' <=> Busy(x)) /\ \A n \in Ids : Unused(n)' <=> Unused(n)
      BY <2>1 DEF Active, Busy, Unused, book, stock
    <3>3. Holds(x)'
      BY <2>1, <3>1, <3>2 DEF Own, Holds, None, stock, own
    <3>4. Made(x)' = Made(x) /\ (Short(x)' <=> Short(x))
      BY <2>1 DEF Made, Short, own
    <3>5. Loaded(x)' <=> Loaded(x)
      BY <2>1, <3>4 DEF Loaded, None, Out, Named, Started, book, own
    <3>6. Active(x) => ticket[x] \in Ids
      BY <3>1 DEF ProductionInv, TypeOK
    <3>7. QED
      BY <2>1, <3>1, <3>2, <3>3, <3>5, <3>6 DEF Own, book, own
  <2>6. \A x, y \in Sessions : Apart(x, y)'
    BY <2>1 DEF ProductionInv, Apart, Active, own
  <2>9. QED
    BY <2>3, <2>4, <2>5, <2>6 DEF ProductionInv
<1>2. CASE Rest
    BY <1>1, <1>2 DEF Rest
<1>3. ASSUME NEW x \in Sessions, NEW j \in Jobs, Arrive(x, j) PROVE ProductionInv'
    BY <1>3, ArriveKeeps
<1>4. ASSUME NEW x \in Sessions, Abort(x) \/ DeadlockVictim(x) PROVE ProductionInv'
    BY <1>4, VictimKeeps
<1>5. ASSUME NEW x \in Sessions, Done(x) PROVE ProductionInv'
    BY <1>5, DoneKeeps
<1>6. ASSUME NEW x \in Sessions, Step(x) PROVE ProductionInv'
  <2>1. CASE \/ Deny(x) \/ LoadPlan(x) \/ LoadCreate(x) \/ LoadComplete(x) \/ LoadDelete(x)
             \/ LoadRecipe(x) \/ LoadLink(x) \/ LoadUpdate(x) \/ LoadDrop(x)
    BY <2>1, QuietLoadsKeep
  <2>2. CASE \/ LoadStart(x) \/ LoadPublish(x) \/ LoadCancel(x) \/ LoadProduce(x) \/ LoadVoid(x)
    BY <2>2, LoadStartKeeps, LoadPublishKeeps, LoadCancelKeeps, LoadProduceKeeps, LoadVoidKeeps
  <2>3. CASE \/ CommitCreate(x) \/ CommitStart(x) \/ CommitComplete(x) \/ CommitPublish(x)
             \/ CommitDelete(x) \/ CommitCancel(x) \/ CommitProduce(x) \/ CommitVoid(x)
    BY <2>3, CommitCreateKeeps, CommitStartKeeps, CommitCompleteKeeps, CommitPublishKeeps,
       CommitDeleteKeeps, CommitCancelKeeps, CommitProduceKeeps, CommitVoidKeeps
  <2>4. CASE CommitRecipe(x) \/ CommitLink(x) \/ CommitUpdate(x) \/ CommitDrop(x)
    BY <2>4, CommitRecipesKeep
  <2>5. CASE \/ \E i \in Items : Lock(x, i)
             \/ Check(x) \/ DeadlockVictim(x)
    BY <2>5, LockKeeps, CheckKeeps, VictimKeeps
  <2>6. QED
    BY <1>6, <2>1, <2>2, <2>3, <2>4, <2>5
    DEF Step, PlanProduction, CreateProductionRun, StartProductionRun, CompleteProductionRun,
        PublishProductionRun, DeleteProductionRun, CancelProductionRun, Produce, VoidProduction,
        CreateRecipe, LinkRecipe, UpdateRecipe, DeleteRecipe
<1>7. QED
    BY <1>1, <1>2, <1>3, <1>4, <1>5, <1>6 DEF Next

\* Only what was checked, or is put back, or was sold already, is written.
LEMMA NoStepOverdraws ==
    ASSUME ProductionInv, [Next]_vars, NEW i \in Items \ AllowNegative,
           level'[i] < level[i], level'[i] < 0
    PROVE  \E x \in Sessions : Committing(x, "void") /\ pc'[x] = "ok"
<1>1. level \in [Items -> Int] /\ i \in Items
    BY DEF ProductionInv, TypeOK
<1>2. ~(level' = level)
    BY <1>1
<1>3. PICK x \in Sessions : Step(x)
    BY <1>2 DEF Next, vars, stock, Rest, Arrive, Abort, Done
<1>4. PICK kind \in {"run", "event"}, n \in Ids, op \in {"start", "publish", "cancel", "produce", "void"} :
        Committing(x, op) /\ Write(x, <<kind, n>>) /\ Leave(x, "ok")
          /\ (op = "cancel" => job[x].op = "cancel")
  <2>1. CASE UNCHANGED stock
    BY <1>2, <2>1 DEF stock
  <2>2. CASE CommitStart(x)
    <3>1. Committing(x, "start") /\ job[x].id \in Ids
      BY <2>2, AtCommit DEF CommitStart
    <3>2. Write(x, <<"run", job[x].id>>) /\ Leave(x, "ok")
      BY <2>2, <1>2 DEF CommitStart, Fails, stock
    <3>3. QED
      BY <3>1, <3>2
  <2>3. CASE CommitPublish(x)
    <3>1. Committing(x, "publish") /\ ticket[x] \in Ids
      BY <2>3, AtCommit DEF CommitPublish
    <3>2. Write(x, <<"event", ticket[x]>>) /\ Leave(x, "ok")
      BY <2>3, <1>2 DEF CommitPublish, Fails, stock
    <3>3. QED
      BY <3>1, <3>2
  <2>4. CASE CommitCancel(x)
    <3>1. Committing(x, "cancel") /\ job[x].id \in Ids /\ job[x].op = "cancel"
      BY <2>4, AtCommit DEF CommitCancel
    <3>2. Write(x, <<"run", job[x].id>>) /\ Leave(x, "ok")
      BY <2>4, <1>2 DEF CommitCancel, Fails, stock
    <3>3. QED
      BY <3>1, <3>2
  <2>5. CASE CommitProduce(x)
    <3>1. Committing(x, "produce") /\ ticket[x] \in Ids
      BY <2>5, AtCommit DEF CommitProduce
    <3>2. Write(x, <<"event", ticket[x]>>) /\ Leave(x, "ok")
      BY <2>5, <1>2 DEF CommitProduce, Fails, stock
    <3>3. QED
      BY <3>1, <3>2
  <2>6. CASE CommitVoid(x)
    <3>1. Committing(x, "void") /\ job[x].id \in Ids
      BY <2>6, AtCommit DEF CommitVoid
    <3>2. Write(x, <<"event", job[x].id>>) /\ Leave(x, "ok")
      BY <2>6 DEF CommitVoid
    <3>3. QED
      BY <3>1, <3>2
  <2>7. CASE \/ Deny(x) \/ PlanProduction(x) \/ CreateProductionRun(x) \/ CompleteProductionRun(x)
             \/ DeleteProductionRun(x) \/ CreateRecipe(x) \/ LinkRecipe(x) \/ UpdateRecipe(x)
             \/ DeleteRecipe(x)
    <3>1. UNCHANGED stock
      BY <2>7 DEF Deny, PlanProduction, CreateProductionRun, CompleteProductionRun,
         DeleteProductionRun, CreateRecipe, LinkRecipe, UpdateRecipe, DeleteRecipe,
         LoadPlan, LoadCreate, LoadComplete, LoadDelete, LoadRecipe, LoadLink, LoadUpdate, LoadDrop,
         CommitCreate, CommitComplete, CommitDelete, CommitRecipe, CommitLink, CommitUpdate,
         CommitDrop, Reply, ToCommit, Fails, stock
    <3>2. QED
      BY <2>1, <3>1
  <2>8. CASE \/ LoadStart(x) \/ LoadPublish(x) \/ LoadCancel(x) \/ LoadProduce(x) \/ LoadVoid(x)
             \/ (\E k \in Items : Lock(x, k)) \/ Check(x) \/ DeadlockVictim(x)
    <3>1. UNCHANGED stock
      BY <2>8 DEF LoadStart, LoadPublish, LoadCancel, LoadProduce, LoadVoid, Lock, Check,
         DeadlockVictim, Reply, ToCommit, Moving, Fails, stock
    <3>2. QED
      BY <2>1, <3>1
  <2>9. QED
    BY <1>3, <2>2, <2>3, <2>4, <2>5, <2>6, <2>7, <2>8
    DEF Step, StartProductionRun, PublishProductionRun, CancelProductionRun, Produce, VoidProduction
<1>5. pc[x] = "commit" /\ job[x].op = op /\ Loaded(x)
    /\ weighed[x] \in Lines /\ moves[x] \in [Items -> Int]
    BY <1>4, AtCommit
<1>6. level'[i] = level[i] + moves[x][i]
    BY <1>1, <1>4, <1>5, WriteKeeps
<1>7. moves[x][i] < 0
    BY <1>1, <1>5, <1>6
<1>8. base[x][i] = level[i]
    BY <1>1, <1>5, <1>7 DEF ProductionInv, Own, Holds
<1>9. CASE op = "void"
  <2>1. pc'[x] = "ok"
    BY <1>4 DEF Leave, Finish, Goto, ProductionInv, TypeOK
  <2>2. QED
    BY <1>4, <1>9, <2>1
<1>10. CASE op = "cancel"
  <2>1. moves[x][i] >= 0
    BY <1>1, <1>5, <1>10 DEF Loaded
  <2>2. QED
    BY <1>1, <1>5, <1>7, <2>1
<1>11. CASE op = "start"
  <2>1. moves[x][i] = -weighed[x][i] /\ weighed[x][i] \in Nat
    BY <1>1, <1>5, <1>11 DEF Loaded, Out, Lines
  <2>2. ~Short(x)
    BY <1>5 DEF Loaded
  <2>3. ~(weighed[x][i] > 0 /\ base[x][i] - weighed[x][i] < 0)
    BY <1>5, <1>11, <2>2 DEF Short
  <2>4. QED
    BY <1>1, <1>6, <1>7, <1>8, <2>1, <2>3
<1>12. CASE op \in {"produce", "publish"}
  <2>1. PICK d \in Items : Made(x)[d] > 0 /\ Made(x) = [None EXCEPT ![d] = Made(x)[d]]
    BY <1>5, <1>12 DEF Loaded
  <2>2. Made(x)[i] = Made(x)[d] \/ Made(x)[i] = 0
    BY <1>1, <2>1 DEF None
  <2>3. Made(x)[i] \in Int /\ Made(x)[d] \in Int
    BY <1>1, <1>5 DEF Made, Lines
  <2>4. Made(x)[i] >= 0
    BY <2>1, <2>2, <2>3
  <2>5. CASE op = "publish"
    <3>1. Made(x)[i] = moves[x][i] + 0
      BY <1>1, <1>5, <2>5 DEF Made
    <3>2. QED
      BY <1>1, <1>5, <1>7, <2>4, <3>1
  <2>6. CASE op = "produce"
    <3>1. Made(x)[i] = moves[x][i] + weighed[x][i] /\ weighed[x][i] \in Nat /\ moves[x][i] \in Int
      BY <1>1, <1>5, <2>6 DEF Made, Lines
    <3>2. ~Short(x)
      BY <1>5 DEF Loaded
    <3>3. ~(weighed[x][i] > 0 /\ base[x][i] - weighed[x][i] < 0)
      BY <1>5, <2>6, <3>2 DEF Short
    <3>4. QED
      <4> DEFINE a == Made(x)[i]  b == moves[x][i]  w == weighed[x][i]  l == level[i]  k == level'[i]
      <4>1. a = b + w /\ w \in Nat /\ b \in Int /\ b < 0 /\ a >= 0 /\ l \in Int /\ k = l + b /\ k < 0
          /\ ~(w > 0 /\ l - w < 0)
        BY <1>1, <1>6, <1>7, <1>8, <2>4, <3>1, <3>3
      <4> HIDE DEF a, b, w, l, k
      <4>2. QED
        BY <4>1
  <2>7. QED
    BY <1>12, <2>5, <2>6
<1>13. QED
    BY <1>4, <1>9, <1>10, <1>11, <1>12

\* What the kitchen's requests rely on of each other is always so.
THEOREM ProductionInvariant == Spec => []ProductionInv
<1>1. QED
    BY InitHolds, NextKeeps, PTL DEF Spec

\* Runs, records and recipes are what the schema and their readers take for
\* granted, however the requests race: a finished run was weighed and started, it
\* is published exactly when there is a record of it, and history keeps its recipe.
THEOREM TablesAreConsistent == Spec => []TablesConsistent
<1>1. ProductionInv => TablesConsistent
    BY DEF ProductionInv, RowsInv, TablesConsistent
<1>2. QED
    BY <1>1, ProductionInvariant, PTL

\* Stock is the opening stock and all movements of runs and events: no update of a
\* level is lost.
THEOREM NoLevelIsLost == Spec => []LedgerBalances
<1>1. ProductionInv => LedgerBalances
    BY DEF ProductionInv
<1>2. QED
    BY <1>1, ProductionInvariant, PTL

\* A record and the stock agree, until it is undone.
THEOREM RecordsMoveStock == Spec => []EventMovesStock
<1>1. ProductionInv => EventMovesStock
    BY DEF ProductionInv, RowsInv
<1>2. QED
    BY <1>1, ProductionInvariant, PTL

\* Cooking never takes more than there is; only undoing an event does.
THEOREM CookingNeverOverdraws == Spec => NoOverdraw
<1> DEFINE A == \A i \in Items \ AllowNegative :
                  level'[i] < level[i] /\ level'[i] < 0 =>
                      \E x \in Sessions : Committing(x, "void") /\ pc'[x] = "ok"
<1>1. ProductionInv /\ [Next]_vars => [A]_vars
    BY NoStepOverdraws
<1>2. QED
    BY <1>1, ProductionInvariant, PTL DEF Spec, NoOverdraw
=============================================================================
