------------------------- MODULE Purchasing_proofs -------------------------
(***************************************************************************)
(* Proofs about Purchasing for any number of sessions, suppliers, items and   *)
(* requests.  The argument: what a session has inserted and not committed is   *)
(* kept from all others by a unique index (numbers, keys) or by its own        *)
(* request's number (orders, receipts, requisitions); every commit ends its    *)
(* request; and the order that a receipt is booked on is read at a time when    *)
(* the receipts of then had brought all that the order says was received.      *)
(***************************************************************************)
EXTENDS Purchasing, FiniteSetTheorems, WellFoundedInduction, TLAPS

Busy(x) == pc[x] \notin {"idle"} \cup Answers
Made(x) == {s \in Suppliers : made[x][s] # 0}
Buys(x) == Busy(x) /\ job[x].op \in {"order", "submit"}
Receiving(x) == pc[x] \in {"level", "lock", "commit"} /\ job[x].op = "receive"

\* Which requests are found at which place.
Route(x) ==
    LET op == job[x].op IN
    /\ pc[x] = "file" => op = "submit"
    /\ pc[x] = "count" => op \in {"order", "submit", "receive"}
    /\ pc[x] = "insert" => op \in {"order", "submit", "receive", "price", "connect"}
    /\ pc[x] \in {"level", "lock"} => op \in {"receive", "take"}
    /\ pc[x] = "call" => op \in {"connect", "test"}
    /\ pc[x] = "commit" =>
          op \notin {"hire", "edit", "remove", "price", "webhook", "connect", "test"}

\* The rows a request names are there; those of its own number are not yet.
Fresh(x) ==
    /\ \A s \in Suppliers : order[<<ticket[x], s>>] = NoRow
    /\ receipt[ticket[x]] = NoRow /\ requisition[ticket[x]] = NoRow
Names(x) ==
    /\ job[x].op \in OrderOps => job[x].order \in Placed
    /\ job[x].op \in ReorderOps => job[x].id \in Reorders
    /\ job[x].op \in RequisitionOps => job[x].id \in Submitted
    /\ job[x].op \in {"test", "disconnect"} /\ pc[x] \in {"call", "commit"} =>
          link # NoRow /\ seen[x] \in Link

\* The suppliers of a cart have an order, or are still wanted; only who buys has
\* made an order.
Split(x) ==
    /\ ~Buys(x) \/ pc[x] \in {"load", "file"} => Made(x) = {}
    /\ Buys(x) /\ pc[x] # "load" =>
          /\ want[x] \cup Made(x) = Asked(Cart(x)) /\ want[x] \cap Made(x) = {}
          /\ want[x] # {} <=> pc[x] # "commit"
    /\ pc[x] \in {"count", "insert", "level", "lock"} /\ job[x].op \in {"receive", "take"} =>
          want[x] \subseteq Items /\ want[x] # {}

\* A number that was counted is past all the orders that the session has made.
Counted(x) ==
    LET rows == Cardinality(Placed) + Cardinality(Made(x)) IN
    /\ pc[x] = "insert" /\ job[x].op \in {"order", "submit", "receive"} => number[x] # 0
    /\ pc[x] = "insert" /\ Buys(x) => \A s \in Suppliers : made[x][s] < number[x]
    /\ pc[x] = "insert" /\ job[x].op = "submit" => number[x] <= rows + 1
    /\ Busy(x) /\ job[x].op = "submit" => \A s \in Suppliers : made[x][s] <= rows
    /\ Receiving(x) => number[x] # 0

\* The order that is received is as it was read but for what it has received
\* since, which its receipts had brought by then.
Read(x) ==
    Busy(x) /\ job[x].op = "receive" /\ pc[x] # "load" =>
        /\ seen[x] \in OrderRow
        /\ seen[x].ordered = order[job[x].order].ordered
        /\ \A i \in Items : seen[x].received[i] <= Brought(job[x].order, i)

Own(x) ==
    /\ Busy(x) =>
          /\ job[x] \in Jobs /\ ticket[x] \in 1..jobs
          /\ Route(x) /\ Fresh(x) /\ Names(x)
    /\ ~Busy(x) => job[x] = NoJob /\ ticket[x] = 0
    /\ Split(x) /\ Counted(x) /\ Read(x)

\* Requests, numbers and keys that are not committed are of one session each, and
\* not in the tables.
Apart(x) ==
    /\ Busy(x) => \A y \in Sessions \ {x} : ticket[x] # ticket[y]
    /\ \A y \in Sessions, s, t \in Suppliers :
          made[x][s] = made[y][t] /\ made[x][s] # 0 => x = y /\ s = t
    /\ \A s \in Suppliers : made[x][s] # 0 => ~Taken(made[x][s])
    /\ Receiving(x) =>
          /\ \A y \in Sessions : Receiving(y) /\ number[x] = number[y] => x = y
          /\ ~TakenReceipt(number[x])
    /\ Filed(x) =>
          /\ \A y \in Sessions :
                Filed(y) /\ job[x].key = job[y].key /\ job[x].key # NoKey => x = y
          /\ ~KeyTaken(job[x].key)

\* An order was received by its receipts, and those of a fulfilled one brought all
\* that was ordered; rows are named by requests that came.
BooksInv ==
    /\ \A o \in Placed, i \in Items :
          /\ order[o].received[i] <= Brought(o, i)
          /\ order[o].status = "fulfilled" => order[o].ordered[i] <= Brought(o, i)
    /\ \A n \in Submitted, s \in Suppliers :
          <<n, s>> \in Placed => order[<<n, s>>].requisition = n
    /\ requisition[0] = NoRow
    /\ \A n \in Ids : n > jobs =>
          /\ \A s \in Suppliers : order[<<n, s>>] = NoRow
          /\ receipt[n] = NoRow /\ requisition[n] = NoRow

TablesInv == NumbersUnique /\ OneRequisitionPerKey /\ ReceiptMovesStock /\ SplitIsWhole /\ BooksInv

PurchasingInv ==
    /\ TypeOK /\ TablesInv
    /\ \A x \in Sessions : Own(x) /\ Apart(x)

----------------------------------------------------------------------------
(* Sums over the requests, and what is least.                               *)

Below == {ss \in Nat \X Nat : ss[1] < ss[2]}

\* The numbers have no endless descent.
LEMMA BelowWF == IsWellFoundedOn(Below, Nat)
    BY NatLessThanWellFounded DEF OpToRel, Below

\* What holds of 0 and of each next number holds of all numbers.
LEMMA Induction ==
    ASSUME NEW S, 0 \in S, \A n \in S \cap Nat : n + 1 \in S
    PROVE  Nat \subseteq S
<1> DEFINE R == Nat \ S
<1> SUFFICES ASSUME R # {} PROVE FALSE
    OBVIOUS
<1>1. PICK m \in R : \A n \in R : <<n, m>> \notin Below
  <2> HIDE DEF R
  <2>1. R \subseteq Nat
    BY DEF R
  <2>2. QED
    BY <2>1, BelowWF, WFMin
<1>2. m \in Nat /\ m \notin S /\ m # 0
    OBVIOUS
<1>3. m - 1 \in Nat /\ m - 1 \in S
  <2>1. <<m - 1, m>> \in Below
    BY <1>2 DEF Below
  <2>2. QED
    BY <1>1, <1>2, <2>1
<1>4. (m - 1) + 1 = m
    BY <1>2
<1>5. m \in S
    BY <1>3, <1>4
<1>6. QED
    BY <1>2, <1>5

\* The sums of the first requests, one by one.
Prefix(f, g, n) ==
    /\ g \in [0..n -> Nat]
    /\ \A k \in 0..n : g[k] = f[k] + (IF k = 0 THEN 0 ELSE g[k - 1])

\* They can be added up,
LEMMA PrefixExists ==
    ASSUME NEW f \in [Ids -> Nat]
    PROVE  \E g : Prefix(f, g, MaxJobs)
<1> USE PurchasingAssumption DEF Ids
<1> DEFINE S == {n \in Nat : n \in 0..MaxJobs => \E g : Prefix(f, g, n)}
<1>1. 0 \in S
  <2>1. Prefix(f, [k \in 0..0 |-> f[0]], 0)
    BY DEF Prefix
  <2>2. QED
    BY <2>1
<1>2. ASSUME NEW n \in S \cap Nat PROVE n + 1 \in S
  <2> SUFFICES ASSUME n + 1 \in 0..MaxJobs PROVE \E g : Prefix(f, g, n + 1)
    BY <1>2
  <2>1. PICK g : Prefix(f, g, n)
    BY <1>2
  <2> DEFINE h == [k \in 0..(n + 1) |-> IF k = n + 1 THEN f[n + 1] + g[n] ELSE g[k]]
  <2>2. Prefix(f, h, n + 1)
    <3>1. h \in [0..(n + 1) -> Nat]
      BY <2>1 DEF Prefix
    <3>2. ASSUME NEW k \in 0..(n + 1) PROVE h[k] = f[k] + (IF k = 0 THEN 0 ELSE h[k - 1])
      <4>1. CASE k = n + 1
        BY <4>1
      <4>2. CASE k \in 0..n
        <5>1. k # n + 1 /\ (k # 0 => k - 1 \in 0..(n + 1) /\ k - 1 # n + 1)
          BY ONLY <4>2, n \in Nat
        <5>2. h[k] = g[k]
          BY <5>1
        <5>3. k # 0 => h[k - 1] = g[k - 1]
          BY <5>1
        <5>4. QED
          BY <2>1, <4>2, <5>2, <5>3 DEF Prefix
      <4>3. QED
        BY <4>1, <4>2
    <3>3. QED
      BY <3>1, <3>2 DEF Prefix
  <2>3. QED
    BY <2>2
<1>3. Nat \subseteq S
  <2> HIDE DEF S
  <2> QED BY <1>1, <1>2, Induction
<1>4. QED
    BY <1>3

\* and the total is the last of the sums.
LEMMA TotalIs ==
    ASSUME NEW f \in [Ids -> Nat], NEW g, Prefix(f, g, MaxJobs)
    PROVE  Total(f) = g[MaxJobs]
<1> USE PurchasingAssumption DEF Ids
<1> DEFINE F(h) == [n \in Ids |-> f[n] + (IF n = 0 THEN 0 ELSE h[n - 1])]
<1> DEFINE T[n \in Ids] == f[n] + (IF n = 0 THEN 0 ELSE T[n - 1])
<1>1. g = F(g)
    BY DEF Prefix
<1>2. T = F(T)
  <2>1. T = CHOOSE h : h = F(h)
    OBVIOUS
  <2> HIDE DEF T, F
  <2>2. QED
    BY <1>1, <2>1
<1> HIDE DEF T
<1>3. T[MaxJobs] = g[MaxJobs]
  <2> DEFINE S == {n \in Nat : n \in Ids => T[n] = g[n]}
  <2>1. 0 \in S
    BY <1>1, <1>2
  <2>2. ASSUME NEW n \in S \cap Nat PROVE n + 1 \in S
    BY <1>1, <1>2, <2>2
  <2>3. Nat \subseteq S
    <3> HIDE DEF S
    <3> QED BY <2>1, <2>2, Induction
  <2>4. QED
    BY <2>3
<1>4. Total(f) = T[MaxJobs]
    BY DEF Total, T
<1>5. QED
    BY <1>3, <1>4

\* A total is a quantity.
LEMMA TotalType ==
    ASSUME NEW f \in [Ids -> Nat]
    PROVE  Total(f) \in Nat
<1>1. PICK g : Prefix(f, g, MaxJobs)
    BY PrefixExists
<1>2. Total(f) = g[MaxJobs]
    BY <1>1, TotalIs
<1>3. QED
    BY <1>1, <1>2, PurchasingAssumption DEF Prefix

\* A total grows by what one request adds.
LEMMA TotalAdd ==
    ASSUME NEW f \in [Ids -> Nat], NEW k \in Ids, NEW d \in Nat
    PROVE  Total([f EXCEPT ![k] = @ + d]) = Total(f) + d
<1> USE PurchasingAssumption DEF Ids
<1> DEFINE h == [f EXCEPT ![k] = @ + d]
<1>1. PICK g : Prefix(f, g, MaxJobs)
    BY PrefixExists
<1> DEFINE e == [n \in Ids |-> IF n < k THEN g[n] ELSE g[n] + d]
<1>2. h \in [Ids -> Nat]
    OBVIOUS
<1>3. Prefix(h, e, MaxJobs)
  <2>1. e \in [0..MaxJobs -> Nat]
    BY <1>1 DEF Prefix
  <2>2. ASSUME NEW n \in Ids PROVE e[n] = h[n] + (IF n = 0 THEN 0 ELSE e[n - 1])
    <3>1. g[n] = f[n] + (IF n = 0 THEN 0 ELSE g[n - 1]) /\ g[n] \in Nat
        /\ (n # 0 => n - 1 \in Ids /\ g[n - 1] \in Nat)
      BY <1>1 DEF Prefix
    <3>2. CASE n < k
      BY <3>1, <3>2
    <3>3. CASE n = k
      <4>1. h[n] = f[n] + d /\ e[n] = g[n] + d /\ (n # 0 => e[n - 1] = g[n - 1])
        BY <3>3, <3>1
      <4>2. QED
        BY <3>1, <3>3, <4>1
    <3>4. CASE n > k
      <4>1. n # k /\ n # 0 /\ ~(n < k) /\ ~(n - 1 < k)
        BY <3>4
      <4>2. h[n] = f[n] /\ e[n] = g[n] + d
        BY <4>1
      <4>3. e[n - 1] = g[n - 1] + d
        BY <3>1, <4>1
      <4>4. QED
        BY <3>1, <4>1, <4>2, <4>3
    <3>5. QED
      BY <3>2, <3>3, <3>4
  <2>3. QED
    BY <2>1, <2>2 DEF Prefix
<1>4. Total(f) = g[MaxJobs]
    BY <1>1, TotalIs
<1>5. Total(h) = e[MaxJobs]
  <2> HIDE DEF h, e
  <2> QED BY <1>2, <1>3, TotalIs
<1>6. e[MaxJobs] = g[MaxJobs] + d
    BY <1>1
<1>7. QED
    BY <1>4, <1>5, <1>6

----------------------------------------------------------------------------
(* What is least, and how many rows there are.                              *)

\* The least of some suppliers or items is one of them.
LEMMA LeastIn ==
    ASSUME NEW S, S \subseteq Suppliers \cup Items, S # {}
    PROVE  Least(S) \in S
<1> USE PurchasingAssumption
<1> DEFINE R == {Rank[a] : a \in S}
<1>1. R \subseteq Nat /\ R # {}
    OBVIOUS
<1>2. PICK m \in R : \A n \in R : <<n, m>> \notin Below
  <2> HIDE DEF R
  <2>1. QED
    BY <1>1, BelowWF, WFMin
<1>3. PICK a \in S : Rank[a] = m
    OBVIOUS
<1>4. ASSUME NEW b \in S PROVE Rank[a] <= Rank[b]
  <2>1. <<Rank[b], m>> \notin Below /\ Rank[b] \in Nat /\ m \in Nat
    BY <1>1, <1>2
  <2>2. QED
    BY <2>1, <1>3 DEF Below
<1>5. QED
    BY <1>4 DEF Least

\* There are finitely many orders and suppliers to count,
LEMMA Countable == IsFiniteSet(Orders) /\ IsFiniteSet(Ids) /\ IsFiniteSet(Suppliers)
<1>1. IsFiniteSet(Ids)
    BY PurchasingAssumption, FS_Interval DEF Ids
<1>2. QED
    BY <1>1, PurchasingAssumption, FS_Product DEF Orders

\* and of more orders there are more.
LEMMA MoreRows ==
    ASSUME NEW T, T \subseteq Orders, NEW S, S \subseteq T
    PROVE  Cardinality(S) \in Nat /\ Cardinality(T) \in Nat /\ Cardinality(S) <= Cardinality(T)
    BY Countable, FS_Subset, FS_CardinalityType

\* Of suppliers with one more there is one more.
LEMMA OneMore ==
    ASSUME NEW S, S \subseteq Suppliers, NEW s \in Suppliers \ S
    PROVE  Cardinality(S) \in Nat /\ Cardinality(S \cup {s}) = Cardinality(S) + 1
    BY Countable, FS_Subset, FS_CardinalityType, FS_AddElement

\* What the receipts brought is a quantity.
LEMMA BroughtType ==
    ASSUME TypeOK, NEW o, NEW i \in Items
    PROVE  Bringing(o, i) \in [Ids -> Nat] /\ Brought(o, i) \in Nat
<1>1. Bringing(o, i) \in [Ids -> Nat]
    BY DEF TypeOK, Bringing, Receipts, ReceiptRow, Lines
<1>2. QED
    BY <1>1, TotalType DEF Brought

----------------------------------------------------------------------------
(* Steps: others are left alone, rows are only added.                       *)

BookTypes ==
    /\ supplier \in [Suppliers -> {"none", "active", "deleted"}]
    /\ phone \subseteq Suppliers /\ price \subseteq Suppliers \X Items
    /\ order \in [Orders -> OrderRow \cup {NoRow}]
    /\ receipt \in [Ids -> ReceiptRow \cup {NoRow}]
    /\ requisition \in [Ids -> RequisitionRow \cup {NoRow}]
    /\ reorder \in [Ids -> ReorderRow \cup {NoRow}]
    /\ message \in [Orders -> Nat]
    /\ inbox \subseteq Ids \X (Orders \cup {NoRow})
    /\ link \in Link \cup {NoRow}
    /\ level \in [Items -> Int] /\ posted \in [Refs -> Lines]
OwnTypes ==
    /\ lock \in [Items -> Sessions \cup {NoSession}]
    /\ pc \in [Sessions -> Places]
    /\ job \in [Sessions -> Jobs \cup {NoJob}]
    /\ ticket \in [Sessions -> Ids]
    /\ number \in [Sessions -> Nat]
    /\ want \in [Sessions -> SUBSET (Suppliers \cup Items)]
    /\ made \in [Sessions -> [Suppliers -> Nat]]
    /\ told \in [Sessions -> SUBSET Suppliers]
    /\ seen \in [Sessions -> OrderRow \cup Link \cup {NoRow}]
    /\ base \in [Sessions -> [Items -> Int]]
    /\ jobs \in Ids /\ aborts \in 0..MaxAborts

\* The types are those of the tables and those of the sessions.
LEMMA TypesAre == TypeOK <=> BookTypes /\ OwnTypes
    BY DEF TypeOK, BookTypes, OwnTypes

\* Sessions other than x are where they were.
Alone(x) ==
    /\ pc \in [Sessions -> Places] /\ pc' \in [Sessions -> Places]
    /\ \A y \in Sessions \ {x} :
          /\ pc'[y] = pc[y] /\ job'[y] = job[y] /\ ticket'[y] = ticket[y]
          /\ number'[y] = number[y] /\ want'[y] = want[y] /\ made'[y] = made[y]
          /\ seen'[y] = seen[y]

\* Rows stay; those that are new are of x: its numbers, its request, its key.
Grows(x) ==
    /\ \A o \in Orders :
          /\ o \in Placed =>
                /\ order'[o] # NoRow /\ order'[o].ordered = order[o].ordered
                /\ order'[o].number = order[o].number
                /\ order'[o].requisition = order[o].requisition
          /\ o \notin Placed /\ order'[o] # NoRow =>
                /\ o[1] = ticket[x] /\ made[x][o[2]] # 0
                /\ order'[o].number = made[x][o[2]]
    /\ \A n \in Ids :
          receipt'[n] = receipt[n] \/
          (n = ticket[x] /\ Receiving(x) /\ receipt'[n] =
             [order |-> job[x].order, number |-> number[x], lines |-> job[x].lines])
    /\ \A n \in Ids :
          /\ n \in Submitted => requisition'[n] # NoRow /\ requisition'[n].key = requisition[n].key
          /\ n \notin Submitted /\ requisition'[n] # NoRow =>
                n = ticket[x] /\ Filed(x) /\ requisition'[n].key = job[x].key
    /\ \A n \in Reorders : reorder'[n] # NoRow
    /\ link # NoRow => link' # NoRow

\* Of the same order and item, the receipts of later brought at least as much.
LEMMA BroughtGrows ==
    ASSUME TypeOK, TypeOK', NEW x \in Sessions, Grows(x), receipt[ticket[x]] = NoRow \/ ~Busy(x),
           NEW o \in Orders, NEW i \in Items
    PROVE  Brought(o, i) <= Brought(o, i)'
<1> DEFINE f == Bringing(o, i)
<1>1. f \in [Ids -> Nat] /\ Total(f) \in Nat /\ Total(f) = Brought(o, i)
    BY BroughtType DEF Brought
<1>2. (Bringing(o, i))' = [n \in Ids |->
        IF receipt'[n] # NoRow /\ receipt'[n].order = o THEN receipt'[n].lines[i] ELSE 0]
    BY DEF Bringing, Receipts
<1>3. f = [n \in Ids |->
        IF receipt[n] # NoRow /\ receipt[n].order = o THEN receipt[n].lines[i] ELSE 0]
    BY DEF Bringing, Receipts
<1>4. Brought(o, i)' = Total((Bringing(o, i))')
    BY DEF Brought
<1>5. CASE receipt' = receipt
  <2>1. (Bringing(o, i))' = f
    BY <1>2, <1>3, <1>5
  <2>2. QED
    BY <2>1, <1>1, <1>4
<1>6. CASE receipt' # receipt
  <2>1. Receiving(x) /\ Busy(x) /\ ticket[x] \in Ids /\ receipt[ticket[x]] = NoRow
        /\ \A n \in Ids \ {ticket[x]} : receipt'[n] = receipt[n]
        /\ receipt'[ticket[x]] = [order |-> job[x].order, number |-> number[x], lines |-> job[x].lines]
    BY <1>6 DEF Grows, TypeOK, Receiving, Busy, Answers
  <2> DEFINE d == IF receipt'[ticket[x]].order = o THEN receipt'[ticket[x]].lines[i] ELSE 0
  <2>2. receipt'[ticket[x]] # NoRow
    <3>1. receipt'[ticket[x]] # receipt[ticket[x]]
      BY <1>6, <2>1 DEF TypeOK
    <3>2. QED
      BY <3>1, <2>1
  <2>3. d \in Nat
    BY <2>1, <2>2 DEF TypeOK, ReceiptRow, Lines
  <2>4. (Bringing(o, i))' = [f EXCEPT ![ticket[x]] = @ + d]
    <3>1. f[ticket[x]] = 0
      BY <1>3, <2>1
    <3>2. \A n \in Ids \ {ticket[x]} : ((Bringing(o, i))')[n] = f[n]
      BY <1>2, <1>3, <2>1
    <3>3. ((Bringing(o, i))')[ticket[x]] = d
      BY <1>2, <2>1, <2>2
    <3> DEFINE h == (Bringing(o, i))'
    <3>4. h = [n \in Ids |-> h[n]]
      BY <1>2
    <3>5. f \in [Ids -> Nat] /\ ticket[x] \in Ids
      BY <1>1, <2>1
    <3> HIDE DEF f, d, h
    <3>6. h = [f EXCEPT ![ticket[x]] = @ + d]
      <4>1. h[ticket[x]] = d /\ \A n \in Ids \ {ticket[x]} : h[n] = f[n]
        BY <3>2, <3>3 DEF h
      <4>2. f[ticket[x]] + d = d
        BY <3>1, <2>3
      <4>3. QED
        BY <3>4, <3>5, <4>1, <4>2
    <3>7. QED
      BY <3>6 DEF h
  <2> HIDE DEF f, d
  <2>5. Total((Bringing(o, i))') = Total(f) + d
    <3>1. Total([f EXCEPT ![ticket[x]] = @ + d]) = Total(f) + d
      BY <2>1, <2>3, <1>1, TotalAdd
    <3>2. QED
      BY <3>1, <2>4
  <2>6. QED
    BY <2>5, <2>3, <1>1, <1>4
<1>7. QED
    BY <1>5, <1>6

\* What another session knows of itself stays so.
LEMMA OthersKeep ==
    ASSUME TypeOK, TypeOK', NEW x \in Sessions, NEW y \in Sessions \ {x},
           Own(x), Own(y), Apart(x), Alone(x), Grows(x), Busy(x), jobs <= jobs'
    PROVE  Own(y)'
<1>0. pc'[y] = pc[y] /\ job'[y] = job[y] /\ ticket'[y] = ticket[y] /\ number'[y] = number[y]
      /\ want'[y] = want[y] /\ made'[y] = made[y] /\ seen'[y] = seen[y]
    BY DEF Alone
<1>1. Busy(y)' <=> Busy(y)
    BY <1>0 DEF Busy
<1>2. Made(y)' = Made(y) /\ Cart(y)' = Cart(y) /\ (Buys(y)' <=> Buys(y))
      /\ (Receiving(y)' <=> Receiving(y))
    BY <1>0, <1>1 DEF Made, Cart, Buys, Receiving
<1>3. Placed \subseteq Placed' /\ Placed' \subseteq Orders
    BY DEF Placed, Grows
<1>4. Cardinality(Placed) \in Nat /\ Cardinality(Placed') \in Nat
      /\ Cardinality(Placed) <= Cardinality(Placed')
    BY <1>3, MoreRows
<1>5. Cardinality(Made(y)) \in Nat
  <2>1. Made(y) \subseteq Suppliers
    BY DEF Made
  <2>2. QED
    BY <2>1, Countable, FS_Subset, FS_CardinalityType
<1>6. Split(y)'
    BY <1>0, <1>1, <1>2 DEF Own, Split
<1>7. Counted(y)'
  <2>1. number[y] \in Nat /\ \A s \in Suppliers : made[y][s] \in Nat
    BY DEF TypeOK
  <2>2. QED
    BY <1>0, <1>1, <1>2, <1>4, <1>5, <2>1 DEF Own, Counted
<1>8. ASSUME Busy(y) PROVE Fresh(y)' /\ Names(y)' /\ Route(y)'
                            /\ job'[y] \in Jobs /\ ticket'[y] \in 1..jobs'
  <2>1. ticket[y] \in 1..jobs /\ ticket[y] \in Ids /\ ticket[x] # ticket[y]
        /\ Fresh(y) /\ Names(y) /\ Route(y) /\ job[y] \in Jobs /\ jobs \in Nat /\ jobs' \in Nat
    BY <1>8 DEF Own, TypeOK, Apart, Ids
  <2>2. job[y].op \in OrderOps => job[y].order \in Orders
    BY <2>1 DEF Names, Placed
  <2>3. Fresh(y)'
    <3>1. ASSUME NEW s \in Suppliers PROVE order'[<<ticket[y], s>>] = NoRow
      BY <2>1 DEF Fresh, Grows, Orders, Placed
    <3>2. QED
      BY <1>0, <2>1, <3>1 DEF Fresh, Grows, Submitted
  <2>4. Names(y)'
    <3>1. Reorders \subseteq Reorders' /\ Submitted \subseteq Submitted'
      BY DEF Reorders, Submitted, Grows
    <3>2. link # NoRow => link' # NoRow
      BY DEF Grows
    <3>3. QED
      BY <1>0, <1>3, <2>1, <3>1, <3>2 DEF Names
  <2>5. QED
    BY <1>0, <2>1, <2>3, <2>4 DEF Route
<1>9. Read(y)'
  <2> SUFFICES ASSUME Busy(y), job[y].op = "receive", pc[y] # "load"
               PROVE  Read(y)'
    BY <1>0, <1>1 DEF Read
  <2>1. Read(y) /\ Names(y) /\ job[y].order \in Placed /\ job[y].order \in Orders
    BY DEF Own, Names, OrderOps, Placed
  <2>2. PICK o \in Orders : o = job[y].order
    BY <2>1
  <2>3. ASSUME NEW i \in Items PROVE seen[y].received[i] <= Brought(o, i)'
    <3>1. Brought(o, i) <= Brought(o, i)'
      <4>1. receipt[ticket[x]] = NoRow
        BY DEF Own, Fresh
      <4>2. QED
        BY <4>1, BroughtGrows
    <3>2. Brought(o, i) \in Nat
      BY BroughtType
    <3>3. Brought(o, i)' \in Nat
      <4>1. (Bringing(o, i))' \in [Ids -> Nat]
        BY DEF TypeOK, Bringing, Receipts, ReceiptRow, Lines
      <4>2. QED
        BY <4>1, TotalType DEF Brought
    <3>4. seen[y].received[i] \in Nat /\ seen[y].received[i] <= Brought(o, i)
      BY <2>1, <2>2 DEF Read, OrderRow, Lines
    <3>5. QED
      BY <3>1, <3>2, <3>3, <3>4
  <2>4. seen'[y] \in OrderRow /\ seen'[y].ordered = order'[job'[y].order].ordered
    BY <1>0, <2>1, <2>2 DEF Read, Grows
  <2>5. \A i \in Items : seen'[y].received[i] <= Brought(job[y].order, i)'
    BY <1>0, <2>2, <2>3 DEF Brought, Bringing
  <2>6. QED
    BY <2>4, <2>5 DEF Read
<1>10. ~Busy(y)' => job'[y] = NoJob /\ ticket'[y] = 0
    BY <1>0, <1>1 DEF Own
<1>11. QED
    BY <1>1, <1>6, <1>7, <1>8, <1>9, <1>10 DEF Own

\* No two orders, receipts or keys become the same by a step that only adds rows
\* that its session kept apart.
LEMMA NumbersKeep ==
    ASSUME TypeOK, TypeOK', NumbersUnique, OneRequisitionPerKey,
           NEW x \in Sessions, Own(x), Apart(x), Grows(x)
    PROVE  NumbersUnique' /\ OneRequisitionPerKey'
<1>1. ASSUME NEW o \in Placed', NEW p \in Placed', order'[o].number = order'[p].number
      PROVE  o = p
  <2>0. o \in Orders /\ p \in Orders /\ order'[o] # NoRow /\ order'[p] # NoRow
    BY DEF Placed
  <2>1. CASE o \in Placed /\ p \in Placed
    BY <1>1, <2>0, <2>1 DEF NumbersUnique, Grows
  <2>2. CASE o \in Placed /\ p \notin Placed
    <3>1. o[2] \in Suppliers /\ p[2] \in Suppliers
      BY <2>0 DEF Orders
    <3>2. order[o].number = made[x][p[2]] /\ made[x][p[2]] # 0
      BY <1>1, <2>0, <2>2 DEF Grows
    <3>3. QED
      BY <2>2, <3>1, <3>2 DEF Apart, Taken
  <2>3. CASE o \notin Placed /\ p \in Placed
    <3>1. o[2] \in Suppliers /\ p[2] \in Suppliers
      BY <2>0 DEF Orders
    <3>2. order[p].number = made[x][o[2]] /\ made[x][o[2]] # 0
      BY <1>1, <2>0, <2>3 DEF Grows
    <3>3. QED
      BY <2>3, <3>1, <3>2 DEF Apart, Taken
  <2>4. CASE o \notin Placed /\ p \notin Placed
    <3>1. o[2] \in Suppliers /\ p[2] \in Suppliers /\ o[1] = p[1]
          /\ made[x][o[2]] = made[x][p[2]] /\ made[x][o[2]] # 0
      BY <1>1, <2>0, <2>4 DEF Grows, Orders
    <3>2. o[2] = p[2]
      BY <3>1 DEF Apart
    <3>3. QED
      BY <2>0, <3>1, <3>2 DEF Orders
  <2>5. QED
    BY <2>1, <2>2, <2>3, <2>4
<1>2. ASSUME NEW m \in Receipts', NEW n \in Receipts', receipt'[m].number = receipt'[n].number
      PROVE  m = n
  <2>0. m \in Ids /\ n \in Ids /\ receipt'[m] # NoRow /\ receipt'[n] # NoRow
    BY DEF Receipts
  <2>1. CASE receipt'[m] = receipt[m] /\ receipt'[n] = receipt[n]
    BY <1>2, <2>0, <2>1 DEF NumbersUnique, Receipts
  <2>2. CASE receipt'[m] = receipt[m] /\ receipt'[n] # receipt[n]
    <3>1. Receiving(x) /\ receipt'[n].number = number[x]
      BY <2>0, <2>2 DEF Grows
    <3>2. m \in Receipts
      BY <2>0, <2>2 DEF Receipts
    <3>3. QED
      BY <1>2, <2>2, <3>1, <3>2 DEF Apart, TakenReceipt
  <2>3. CASE receipt'[m] # receipt[m] /\ receipt'[n] = receipt[n]
    <3>1. Receiving(x) /\ receipt'[m].number = number[x]
      BY <2>0, <2>3 DEF Grows
    <3>2. n \in Receipts
      BY <2>0, <2>3 DEF Receipts
    <3>3. QED
      BY <1>2, <2>3, <3>1, <3>2 DEF Apart, TakenReceipt
  <2>4. CASE receipt'[m] # receipt[m] /\ receipt'[n] # receipt[n]
    BY <2>0, <2>4 DEF Grows
  <2>5. QED
    BY <2>1, <2>2, <2>3, <2>4
<1>3. ASSUME NEW m \in Submitted', NEW n \in Submitted',
             requisition'[m].key = requisition'[n].key, requisition'[m].key # NoKey
      PROVE  m = n
  <2>0. m \in Ids /\ n \in Ids /\ requisition'[m] # NoRow /\ requisition'[n] # NoRow
    BY DEF Submitted
  <2>1. CASE m \in Submitted /\ n \in Submitted
    BY <1>3, <2>1, <2>0 DEF OneRequisitionPerKey, Grows
  <2>2. CASE m \in Submitted /\ n \notin Submitted
    <3>1. Filed(x) /\ requisition[m].key = job[x].key /\ job[x].key # NoKey
      BY <1>3, <2>0, <2>2 DEF Grows
    <3>2. QED
      BY <2>2, <3>1 DEF Apart, KeyTaken, WithKey
  <2>3. CASE m \notin Submitted /\ n \in Submitted
    <3>1. Filed(x) /\ requisition[n].key = job[x].key /\ job[x].key # NoKey
      BY <1>3, <2>0, <2>3 DEF Grows
    <3>2. QED
      BY <2>3, <3>1 DEF Apart, KeyTaken, WithKey
  <2>4. CASE m \notin Submitted /\ n \notin Submitted
    BY <2>0, <2>4 DEF Grows
  <2>5. QED
    BY <2>1, <2>2, <2>3, <2>4
<1>4. QED
    BY <1>1, <1>2, <1>3 DEF NumbersUnique, OneRequisitionPerKey

\* What a session keeps for itself stays apart from a step of another that ends.
LEMMA OthersApart ==
    ASSUME TypeOK, NEW x \in Sessions, NEW y \in Sessions \ {x},
           Own(x), Own(y), Apart(x), Apart(y), Alone(x), Grows(x), Busy(x),
           ~Busy(x)', made'[x] = Empty, job'[x] = NoJob, ticket'[x] = 0
    PROVE  Apart(y)'
<1>0. \A z \in Sessions \ {x} :
          /\ pc'[z] = pc[z] /\ job'[z] = job[z] /\ ticket'[z] = ticket[z]
          /\ number'[z] = number[z] /\ made'[z] = made[z]
          /\ (Busy(z)' <=> Busy(z)) /\ (Receiving(z)' <=> Receiving(z)) /\ (Filed(z)' <=> Filed(z))
    BY DEF Alone, Busy, Receiving, Filed
<1>1. ~Receiving(x)' /\ ~Filed(x)'
    BY DEF Receiving, Filed, Busy, Answers
<1>2. Busy(y)' => \A z \in Sessions \ {y} : ticket'[y] # ticket'[z]
  <2>1. Busy(y) => ticket[y] \in 1..jobs /\ jobs \in Nat
    BY DEF Own, TypeOK, Ids
  <2>2. Busy(y) => ticket[y] # 0
    BY <2>1
  <2>3. QED
    BY <1>0, <2>2 DEF Apart
<1>3. ASSUME NEW z \in Sessions, NEW s \in Suppliers, NEW t \in Suppliers,
             made'[y][s] = made'[z][t], made'[y][s] # 0
      PROVE  y = z /\ s = t
  <2>1. z # x
    BY <1>3 DEF Empty
  <2>2. QED
    BY <1>0, <1>3, <2>1 DEF Apart
<1>4. ASSUME NEW s \in Suppliers, made'[y][s] # 0 PROVE ~Taken(made[y][s])'
  <2>1. made'[y][s] = made[y][s] /\ ~Taken(made[y][s])
    BY <1>0, <1>4 DEF Apart
  <2> SUFFICES ASSUME NEW o \in Placed', order'[o].number = made[y][s] PROVE FALSE
    BY <2>1 DEF Taken
  <2>2. o \in Orders /\ order'[o] # NoRow /\ o[2] \in Suppliers
    BY DEF Placed, Orders
  <2>3. CASE o \in Placed
    BY <2>1, <2>2, <2>3 DEF Taken, Grows
  <2>4. CASE o \notin Placed
    <3>1. made[x][o[2]] = made[y][s] /\ made[x][o[2]] # 0
      BY <2>2, <2>4 DEF Grows
    <3>2. QED
      BY <2>2, <3>1 DEF Apart
  <2>5. QED
    BY <2>3, <2>4
<1>5. ASSUME Receiving(y)'
      PROVE  /\ \A z \in Sessions : Receiving(z)' /\ number'[y] = number'[z] => y = z
             /\ ~TakenReceipt(number[y])'
  <2>1. Receiving(y) /\ number'[y] = number[y] /\ ~TakenReceipt(number[y])
    BY <1>0, <1>5 DEF Apart
  <2>2. \A z \in Sessions : Receiving(z)' /\ number'[y] = number'[z] => y = z
    BY <1>0, <1>1, <2>1 DEF Apart
  <2>3. ASSUME NEW r \in Receipts', receipt'[r].number = number[y] PROVE FALSE
    <3>1. r \in Ids /\ receipt'[r] # NoRow
      BY DEF Receipts
    <3>2. CASE receipt'[r] = receipt[r]
      BY <2>1, <2>3, <3>1, <3>2 DEF TakenReceipt, Receipts
    <3>3. CASE receipt'[r] # receipt[r]
      <4>1. Receiving(x) /\ receipt'[r].number = number[x]
        BY <3>1, <3>3 DEF Grows
      <4>2. QED
        BY <4>1, <2>1, <2>3 DEF Apart
    <3>4. QED
      BY <3>2, <3>3
  <2>4. QED
    BY <2>1, <2>2, <2>3 DEF TakenReceipt
<1>6. ASSUME Filed(y)'
      PROVE  /\ \A z \in Sessions :
                   Filed(z)' /\ job'[y].key = job'[z].key /\ job'[y].key # NoKey => y = z
             /\ ~KeyTaken(job[y].key)'
  <2>1. Filed(y) /\ job'[y] = job[y] /\ ~KeyTaken(job[y].key)
    BY <1>0, <1>6 DEF Apart
  <2>2. \A z \in Sessions : Filed(z)' /\ job'[y].key = job'[z].key /\ job'[y].key # NoKey => y = z
    BY <1>0, <1>1, <2>1 DEF Apart
  <2>3. ASSUME NEW n \in Submitted', job[y].key # NoKey, requisition'[n].key = job[y].key
        PROVE  FALSE
    <3>1. n \in Ids /\ requisition'[n] # NoRow
      BY DEF Submitted
    <3>2. CASE n \in Submitted
      BY <2>1, <2>3, <3>1, <3>2 DEF KeyTaken, WithKey, Grows
    <3>3. CASE n \notin Submitted
      <4>1. Filed(x) /\ requisition'[n].key = job[x].key
        BY <3>1, <3>3 DEF Grows
      <4>2. QED
        BY <4>1, <2>1, <2>3 DEF Apart
    <3>4. QED
      BY <3>2, <3>3
  <2>4. QED
    BY <2>1, <2>2, <2>3 DEF KeyTaken, WithKey
<1>7. QED
    BY <1>2, <1>3, <1>4, <1>5, <1>6 DEF Apart

\* A session whose request has ended knows nothing and holds nothing.
LEMMA FinishFacts ==
    ASSUME TypeOK, NEW x \in Sessions, NEW a \in Answers, Finish(x, a),
           jobs' = jobs, aborts' \in 0..MaxAborts
    PROVE  /\ OwnTypes' /\ Alone(x)
           /\ ~Busy(x)' /\ made'[x] = Empty /\ job'[x] = NoJob /\ ticket'[x] = 0
           /\ Own(x)' /\ Apart(x)'
<1> USE PurchasingAssumption
<1>1. pc'[x] = a /\ made'[x] = Empty /\ job'[x] = NoJob /\ ticket'[x] = 0
    BY DEF Finish, Goto, TypeOK
<1>2. ~Busy(x)' /\ ~Buys(x)' /\ ~Receiving(x)' /\ ~Filed(x)'
    BY <1>1 DEF Busy, Buys, Receiving, Filed, Answers
<1>3. OwnTypes'
  <2>1. lock' \in [Items -> Sessions \cup {NoSession}]
    BY DEF Finish, Released, TypeOK
  <2>2. pc' \in [Sessions -> Places] /\ job' \in [Sessions -> Jobs \cup {NoJob}]
        /\ number' \in [Sessions -> Nat] /\ told' \in [Sessions -> SUBSET Suppliers]
        /\ want' \in [Sessions -> SUBSET (Suppliers \cup Items)]
        /\ seen' \in [Sessions -> OrderRow \cup Link \cup {NoRow}]
    BY DEF Finish, Goto, Places, TypeOK
  <2>3. ticket' \in [Sessions -> Ids]
    BY DEF Finish, Ids, TypeOK
  <2>4. made' \in [Sessions -> [Suppliers -> Nat]]
    BY DEF Finish, Empty, TypeOK
  <2>5. base' \in [Sessions -> [Items -> Int]]
    BY DEF Finish, None, TypeOK
  <2>6. QED
    BY <2>1, <2>2, <2>3, <2>4, <2>5 DEF OwnTypes, TypeOK
<1>4. Alone(x)
    BY <1>3 DEF Finish, Goto, Alone, TypeOK, OwnTypes
<1>5. Made(x)' = {} /\ Split(x)' /\ Counted(x)' /\ Read(x)'
  <2>1. Made(x)' = {}
    BY <1>1 DEF Made, Empty
  <2>2. pc'[x] \in Answers
    BY <1>1
  <2>3. Split(x)'
    BY <1>2, <2>1, <2>2 DEF Split, Answers
  <2>4. Counted(x)'
    BY <1>2, <2>2 DEF Counted, Answers
  <2>5. QED
    BY <1>2, <2>1, <2>3, <2>4 DEF Read
<1>6. Own(x)'
    BY <1>1, <1>2, <1>5 DEF Own
<1>7. Apart(x)'
    BY <1>1, <1>2 DEF Apart, Empty
<1>8. QED
    BY <1>1, <1>2, <1>3, <1>4, <1>6, <1>7

\* A request that ends with rows added keeps the invariant, if its rows do.
LEMMA FinishKeeps ==
    ASSUME PurchasingInv, NEW x \in Sessions, NEW a \in Answers, Busy(x), Finish(x, a),
           jobs' = jobs, aborts' \in 0..MaxAborts,
           BookTypes', Grows(x), ReceiptMovesStock', SplitIsWhole', BooksInv'
    PROVE  PurchasingInv'
<1>1. TypeOK /\ TablesInv /\ Own(x) /\ Apart(x)
    BY DEF PurchasingInv
<1>2. /\ OwnTypes' /\ Alone(x)
      /\ ~Busy(x)' /\ made'[x] = Empty /\ job'[x] = NoJob /\ ticket'[x] = 0
      /\ Own(x)' /\ Apart(x)'
    BY <1>1, FinishFacts
<1>3. TypeOK'
    BY <1>2 DEF TypeOK, BookTypes, OwnTypes
<1>4. ASSUME NEW y \in Sessions PROVE Own(y)' /\ Apart(y)'
  <2>1. CASE y = x
    BY <1>2, <2>1
  <2>2. CASE y # x
    <3>1. y \in Sessions \ {x} /\ Own(y) /\ Apart(y)
      BY <2>2 DEF PurchasingInv
    <3>2. jobs <= jobs'
      BY <1>1 DEF TypeOK, Ids
    <3>3. Own(y)'
      BY <1>1, <1>2, <1>3, <3>1, <3>2, OthersKeep
    <3>4. Apart(y)'
      BY <1>1, <1>2, <3>1, OthersApart
    <3>5. QED
      BY <3>3, <3>4
  <2>3. QED
    BY <2>1, <2>2
<1>5. NumbersUnique' /\ OneRequisitionPerKey'
    BY <1>1, <1>3, NumbersKeep DEF TablesInv
<1>6. QED
    BY <1>3, <1>4, <1>5 DEF PurchasingInv, TablesInv

\* Rows that stay as they are say the same.
LEMMA PapersKeep ==
    ASSUME TypeOK, TablesInv, UNCHANGED papers, UNCHANGED posted, jobs \in Nat, jobs' \in Nat,
           jobs <= jobs'
    PROVE  ReceiptMovesStock' /\ SplitIsWhole' /\ BooksInv' /\ NumbersUnique' /\ OneRequisitionPerKey'
<1> USE DEF papers
<1>1. ReceiptMovesStock' /\ NumbersUnique' /\ OneRequisitionPerKey'
    BY DEF TablesInv, ReceiptMovesStock, NumbersUnique, OneRequisitionPerKey,
           Receipts, Reorders, Submitted, Placed
<1>2. SplitIsWhole'
    BY DEF TablesInv, SplitIsWhole, Submitted, Placed, Asked
<1>3. BooksInv'
  <2>1. \A o \in Placed', i \in Items :
          /\ order'[o].received[i] <= Brought(o, i)'
          /\ order'[o].status = "fulfilled" => order'[o].ordered[i] <= Brought(o, i)'
    BY DEF TablesInv, BooksInv, Brought, Bringing, Placed, Receipts
  <2>2. \A n \in Ids : n > jobs' => n > jobs
    BY DEF Ids
  <2>3. QED
    BY <2>1, <2>2 DEF TablesInv, BooksInv, Submitted, Placed
<1>4. QED
    BY <1>1, <1>2, <1>3

\* A request that ends and leaves the papers as they are keeps the invariant.
LEMMA SidesKeep ==
    ASSUME PurchasingInv, NEW x \in Sessions, NEW a \in Answers, Busy(x), Finish(x, a),
           jobs' = jobs, aborts' \in 0..MaxAborts, UNCHANGED papers, UNCHANGED posted,
           BookTypes', link # NoRow => link' # NoRow
    PROVE  PurchasingInv'
<1>1. TypeOK /\ TablesInv /\ jobs \in Nat /\ jobs' \in Nat /\ jobs <= jobs'
    BY DEF PurchasingInv, TypeOK, Ids
<1>2. ReceiptMovesStock' /\ SplitIsWhole' /\ BooksInv'
    BY <1>1, PapersKeep
<1>3. Grows(x)
    BY DEF Grows, papers, Placed, Submitted, Reorders
<1>4. QED
    BY <1>2, <1>3, FinishKeeps

\* A step that leaves the books as they are is of concern to its session only.
LEMMA QuietKeeps ==
    ASSUME PurchasingInv, NEW x \in Sessions, UNCHANGED book, Alone(x),
           OwnTypes', jobs <= jobs', Own(x)', Apart(x)'
    PROVE  PurchasingInv'
<1> USE DEF book, directory, papers, chat, stock
<1>1. TypeOK /\ TablesInv /\ jobs \in Nat /\ jobs' \in Nat
    BY DEF PurchasingInv, TypeOK, OwnTypes, Ids
<1>2. TypeOK'
    BY <1>1 DEF TypeOK, OwnTypes
<1>3. TablesInv'
    BY <1>1, PapersKeep DEF TablesInv
<1>4. Placed' = Placed /\ Receipts' = Receipts /\ Submitted' = Submitted /\ Reorders' = Reorders
    BY DEF Placed, Receipts, Submitted, Reorders
<1>5. ASSUME NEW y \in Sessions, y # x PROVE Own(y)' /\ Apart(y)'
  <2>0. \A z \in Sessions \ {x} :
          /\ pc'[z] = pc[z] /\ job'[z] = job[z] /\ ticket'[z] = ticket[z]
          /\ number'[z] = number[z] /\ want'[z] = want[z] /\ made'[z] = made[z]
          /\ seen'[z] = seen[z]
          /\ (Busy(z)' <=> Busy(z)) /\ (Receiving(z)' <=> Receiving(z)) /\ (Filed(z)' <=> Filed(z))
    BY DEF Alone, Busy, Receiving, Filed
  <2>1. Own(y) /\ Apart(y)
    BY DEF PurchasingInv
  <2>2. Made(y)' = Made(y) /\ Cart(y)' = Cart(y) /\ (Buys(y)' <=> Buys(y))
    BY <1>5, <2>0 DEF Made, Cart, Buys
  <2>3. Busy(y)' => job'[y] \in Jobs /\ ticket'[y] \in 1..jobs'
    <3>1. Busy(y) => job[y] \in Jobs /\ ticket[y] \in 1..jobs
      BY <2>1 DEF Own
    <3>2. QED
      BY <1>1, <1>5, <2>0, <3>1
  <2>4. Busy(y)' => Route(y)' /\ Fresh(y)' /\ Names(y)'
    BY <1>4, <1>5, <2>0, <2>1 DEF Own, Route, Fresh, Names
  <2>5. Split(y)' /\ Counted(y)'
    BY <1>4, <1>5, <2>0, <2>1, <2>2 DEF Own, Split, Counted
  <2>6. Read(y)'
    BY <1>4, <1>5, <2>0, <2>1 DEF Own, Read, Brought, Bringing
  <2>7. ~Busy(y)' => job'[y] = NoJob /\ ticket'[y] = 0
    BY <1>5, <2>0, <2>1 DEF Own
  <2>8. Own(y)'
    BY <2>3, <2>4, <2>5, <2>6, <2>7 DEF Own
  <2>9. Busy(y)' => \A z \in Sessions \ {y} : ticket'[y] # ticket'[z]
    <3>1. Busy(y) => ticket'[y] # ticket'[x]
      <4>1. Busy(y) => ticket[y] # 0
        BY <2>1, <1>1 DEF Own
      <4>2. CASE Busy(x)'
        BY <4>2, <1>5 DEF Apart
      <4>3. CASE ~Busy(x)'
        BY <4>1, <4>3, <1>5, <2>0 DEF Own
      <4>4. QED
        BY <4>2, <4>3
    <3>2. QED
      BY <1>5, <2>0, <2>1, <3>1 DEF Apart
  <2>10. ASSUME NEW z \in Sessions, NEW s \in Suppliers, NEW t \in Suppliers,
                made'[y][s] = made'[z][t], made'[y][s] # 0
         PROVE  y = z /\ s = t
    <3>1. CASE z = x
      BY <2>10, <3>1, <1>5 DEF Apart
    <3>2. CASE z # x
      BY <2>10, <3>2, <1>5, <2>0, <2>1 DEF Apart
    <3>3. QED
      BY <3>1, <3>2
  <2>11. ASSUME NEW s \in Suppliers, made'[y][s] # 0 PROVE ~Taken(made[y][s])'
    BY <1>4, <1>5, <2>0, <2>1, <2>11 DEF Apart, Taken
  <2>12. ASSUME Receiving(y)'
         PROVE  /\ \A z \in Sessions : Receiving(z)' /\ number'[y] = number'[z] => y = z
                /\ ~TakenReceipt(number[y])'
    <3>1. ~TakenReceipt(number[y])'
      BY <1>4, <1>5, <2>0, <2>1, <2>12 DEF Apart, TakenReceipt
    <3>2. Receiving(x)' /\ number'[y] = number'[x] => y = x
      BY <2>12 DEF Apart
    <3>3. QED
      BY <1>5, <2>0, <2>1, <2>12, <3>1, <3>2 DEF Apart
  <2>13. ASSUME Filed(y)'
         PROVE  /\ \A z \in Sessions :
                      Filed(z)' /\ job'[y].key = job'[z].key /\ job'[y].key # NoKey => y = z
                /\ ~KeyTaken(job[y].key)'
    <3>1. ~KeyTaken(job[y].key)'
      BY <1>4, <1>5, <2>0, <2>1, <2>13 DEF Apart, KeyTaken, WithKey
    <3>2. Filed(x)' /\ job'[y].key = job'[x].key /\ job'[y].key # NoKey => y = x
      BY <2>13 DEF Apart
    <3>3. QED
      BY <1>5, <2>0, <2>1, <2>13, <3>1, <3>2 DEF Apart
  <2>14. Apart(y)'
    BY <2>9, <2>10, <2>11, <2>12, <2>13 DEF Apart
  <2>15. QED
    BY <2>8, <2>14
<1>6. QED
    BY <1>2, <1>3, <1>5 DEF PurchasingInv

\* A session that inserts nothing new stays apart from the others.
LEMMA StillApart ==
    ASSUME TypeOK, NEW x \in Sessions, Apart(x), UNCHANGED book, Alone(x),
           made'[x] = made[x],
           Busy(x)' => Busy(x) /\ ticket'[x] = ticket[x],
           Receiving(x)' => Receiving(x) /\ number'[x] = number[x],
           Filed(x)' => Filed(x) /\ job'[x] = job[x]
    PROVE  Apart(x)'
<1> USE DEF book, papers
<1>0. \A z \in Sessions \ {x} :
          /\ job'[z] = job[z] /\ ticket'[z] = ticket[z]
          /\ number'[z] = number[z] /\ made'[z] = made[z]
          /\ (Receiving(z)' <=> Receiving(z)) /\ (Filed(z)' <=> Filed(z))
    BY DEF Alone, Receiving, Filed
<1>1. Busy(x)' => \A y \in Sessions \ {x} : ticket'[x] # ticket'[y]
    BY <1>0 DEF Apart
<1>2. \A y \in Sessions, s, t \in Suppliers :
          made'[x][s] = made'[y][t] /\ made'[x][s] # 0 => x = y /\ s = t
    BY <1>0 DEF Apart
<1>3. \A s \in Suppliers : made'[x][s] # 0 => ~Taken(made[x][s])'
    BY DEF Apart, Taken, Placed
<1>4. Receiving(x)' =>
          /\ \A y \in Sessions : Receiving(y)' /\ number'[x] = number'[y] => x = y
          /\ ~TakenReceipt(number[x])'
    BY <1>0 DEF Apart, TakenReceipt, Receipts
<1>5. Filed(x)' =>
          /\ \A y \in Sessions :
                Filed(y)' /\ job'[x].key = job'[y].key /\ job'[x].key # NoKey => x = y
          /\ ~KeyTaken(job[x].key)'
    BY <1>0 DEF Apart, KeyTaken, WithKey, Submitted
<1>6. QED
    BY <1>1, <1>2, <1>3, <1>4, <1>5 DEF Apart

\* A request that fails keeps the invariant: its transaction is rolled back.
LEMMA FailsKeep ==
    ASSUME PurchasingInv, NEW x \in Sessions, NEW a \in Answers, Busy(x), Fails(x, a)
    PROVE  PurchasingInv'
<1>1. UNCHANGED book /\ Finish(x, a) /\ jobs' = jobs /\ aborts' = aborts
    BY DEF Fails, Leave
<1>2. UNCHANGED papers /\ UNCHANGED posted /\ link' = link /\ BookTypes' /\ aborts' \in 0..MaxAborts
    BY <1>1 DEF book, papers, directory, chat, stock, PurchasingInv, TypeOK, BookTypes
<1>3. QED
    BY <1>1, <1>2, SidesKeep

\* A session that goes on with its request keeps the invariant, if what it knows
\* then is so.
LEMMA MoveKeeps ==
    ASSUME PurchasingInv, NEW x \in Sessions, Busy(x), UNCHANGED book, Alone(x), OwnTypes',
           jobs' = jobs, job'[x] = job[x], ticket'[x] = ticket[x], Busy(x)',
           Route(x)', Split(x)', Counted(x)', Read(x)', Apart(x)',
           job[x].op \in {"test", "disconnect"} /\ pc'[x] \in {"call", "commit"} =>
              link # NoRow /\ seen'[x] \in Link
    PROVE  PurchasingInv'
<1> USE DEF book, papers, chat
<1>1. Own(x) /\ jobs \in Nat
    BY DEF PurchasingInv, TypeOK, Ids
<1>2. Placed' = Placed /\ Submitted' = Submitted /\ Reorders' = Reorders
    BY DEF Placed, Submitted, Reorders
<1>3. Fresh(x)'
    BY <1>1 DEF Own, Fresh
<1>4. Names(x)'
    BY <1>1, <1>2 DEF Own, Names
<1>5. Own(x)'
    BY <1>1, <1>3, <1>4 DEF Own
<1>6. QED
    BY <1>1, <1>5, QuietKeeps

\* What GoOn changes.
LEMMA GoOnFacts ==
    ASSUME TypeOK, NEW x \in Sessions, NEW place \in Places, NEW n \in Nat,
           NEW row \in OrderRow \cup Link \cup {NoRow},
           NEW wanted \in SUBSET (Suppliers \cup Items), NEW tell \in SUBSET Suppliers,
           GoOn(x, place, row, wanted, tell), number' = [number EXCEPT ![x] = n]
    PROVE  /\ UNCHANGED book /\ Alone(x) /\ OwnTypes' /\ jobs' = jobs
           /\ job' = job /\ ticket' = ticket /\ made' = made
           /\ pc'[x] = place /\ seen'[x] = row /\ want'[x] = wanted /\ number'[x] = n
<1>1. UNCHANGED <<book, lock, job, ticket, made, base, jobs, aborts>>
    BY DEF GoOn
<1>2. OwnTypes'
    BY <1>1 DEF GoOn, Goto, TypeOK, OwnTypes
<1>3. QED
    BY <1>1, <1>2 DEF GoOn, Goto, Alone, TypeOK, OwnTypes

\* So does a request that neither buys nor receives, when it goes on.
LEMMA AsideKeeps ==
    ASSUME PurchasingInv, NEW x \in Sessions, NEW place \in {"insert", "call", "commit"},
           NEW row \in OrderRow \cup Link \cup {NoRow}, NEW tell \in SUBSET Suppliers,
           Busy(x), job[x].op \notin {"order", "submit", "receive", "take"},
           place = "insert" => job[x].op \in {"price", "connect"},
           place = "call" => job[x].op \in {"connect", "test"},
           place = "commit" =>
              job[x].op \notin {"hire", "edit", "remove", "price", "webhook", "connect", "test"},
           job[x].op \in {"test", "disconnect"} => link # NoRow /\ row \in Link,
           Proceed(x, place, row, {}, tell)
    PROVE  PurchasingInv'
<1>1. TypeOK /\ Own(x) /\ Apart(x) /\ number[x] \in Nat /\ number' = [number EXCEPT ![x] = number[x]]
    BY DEF PurchasingInv, TypeOK, Proceed
<1>2. /\ UNCHANGED book /\ Alone(x) /\ OwnTypes' /\ jobs' = jobs
      /\ job' = job /\ ticket' = ticket /\ made' = made
      /\ pc'[x] = place /\ seen'[x] = row /\ want'[x] = {} /\ number'[x] = number[x]
    BY <1>1, GoOnFacts DEF Proceed, Places
<1>3. Busy(x)' /\ ~Buys(x)' /\ ~Buys(x) /\ ~Receiving(x)' /\ ~Filed(x)'
    BY <1>2 DEF Busy, Buys, Receiving, Filed, Answers
<1>4. Made(x)' = Made(x) /\ Made(x) = {}
    BY <1>1, <1>2, <1>3 DEF Made, Own, Split
<1>5. Route(x)'
    BY <1>2 DEF Route
<1>6. Split(x)'
    BY <1>2, <1>3, <1>4 DEF Split
<1>7. Counted(x)' /\ Read(x)'
    BY <1>2, <1>3 DEF Counted, Read
<1>8. Apart(x)'
    BY <1>1, <1>2, <1>3, StillApart
<1>9. QED
    BY <1>2, <1>3, <1>5, <1>6, <1>7, <1>8, MoveKeeps

\* An answer, or the next place of a request that wants nothing.
LEMMA ReplyKeeps ==
    ASSUME PurchasingInv, NEW x \in Sessions, NEW place \in Answers \cup {"insert", "commit"},
           Busy(x), job[x].op \in {"price", "assign", "cancel", "reorder", "drop"},
           place = "insert" => job[x].op = "price",
           place = "commit" => job[x].op # "price", Reply(x, place)
    PROVE  PurchasingInv'
<1>1. CASE place \in Answers
    BY <1>1, FailsKeep DEF Reply
<1>2. CASE place \notin Answers
  <2>1. Proceed(x, place, NoRow, {}, {}) /\ place \in {"insert", "commit"}
    BY <1>2 DEF Reply
  <2>2. QED
    BY <2>1, AsideKeeps
<1>3. QED
    BY <1>1, <1>2

----------------------------------------------------------------------------
(* The actions, first those that leave orders, receipts and reorders alone.   *)

\* What is loaded is under way.
LEMMA UnderWay ==
    ASSUME PurchasingInv, NEW x \in Sessions, pc[x] \in Places \ ({"idle"} \cup Answers)
    PROVE  Busy(x) /\ Own(x) /\ Apart(x) /\ job[x] \in JobType /\ TypeOK
    BY PurchasingAssumption DEF PurchasingInv, Busy, Own

\* A refused request.
LEMMA DenyKeeps ==
    ASSUME PurchasingInv, NEW x \in Sessions, Deny(x)
    PROVE  PurchasingInv'
    BY UnderWay, FailsKeep DEF Deny, Places, Answers

\* A supplier, a price or a message that is written.
LEMMA DirectoryKeeps ==
    ASSUME PurchasingInv, NEW x \in Sessions,
           CreateSupplier(x) \/ UpdateSupplier(x) \/ DeleteSupplier(x) \/ UpsertSupplierItem(x)
    PROVE  PurchasingInv'
<1>1. TypeOK
    BY DEF PurchasingInv
<1>2. CASE LoadPrice(x)
  <2>1. Busy(x) /\ job[x].op = "price"
    BY <1>2, UnderWay DEF LoadPrice, Loading, Places, Answers
  <2>2. PICK place \in {"ok", "insert"} : Reply(x, place)
    BY <1>2 DEF LoadPrice
  <2>3. QED
    BY <2>1, <2>2, ReplyKeeps DEF Answers
<1>3. CASE ~LoadPrice(x)
  <2>1. Busy(x) /\ job[x] \in JobType
    BY <1>3, UnderWay DEF CreateSupplier, UpdateSupplier, DeleteSupplier, UpsertSupplierItem,
       InsertPrice, Loading, Places, Answers
  <2>2. PICK a \in Answers : Leave(x, a)
    BY <1>3 DEF CreateSupplier, UpdateSupplier, DeleteSupplier, UpsertSupplierItem,
       InsertPrice, Answers
  <2>3. UNCHANGED papers /\ UNCHANGED chat /\ UNCHANGED stock
    BY <1>3 DEF CreateSupplier, UpdateSupplier, DeleteSupplier, UpsertSupplierItem, InsertPrice
  <2>4. job[x].supplier \in Suppliers /\ job[x].item \in Items
    BY <2>1 DEF JobType
  <2>5. supplier' \in [Suppliers -> {"none", "active", "deleted"}] /\ phone' \subseteq Suppliers
        /\ price' \subseteq Suppliers \X Items
    <3>1. CASE CreateSupplier(x)
      BY <1>1, <2>4, <3>1 DEF TypeOK, CreateSupplier
    <3>2. CASE UpdateSupplier(x)
      BY <1>1, <2>4, <3>2 DEF TypeOK, UpdateSupplier
    <3>3. CASE DeleteSupplier(x)
      BY <1>1, <2>4, <3>3 DEF TypeOK, DeleteSupplier
    <3>4. CASE InsertPrice(x)
      BY <1>1, <2>4, <3>4 DEF TypeOK, InsertPrice
    <3>5. QED
      BY <1>3, <3>1, <3>2, <3>3, <3>4 DEF UpsertSupplierItem
  <2>6. BookTypes' /\ UNCHANGED posted /\ link' = link
    BY <1>1, <2>3, <2>5 DEF TypeOK, BookTypes, papers, chat, stock
  <2>7. aborts' \in 0..MaxAborts /\ jobs' = jobs /\ Finish(x, a)
    BY <1>1, <2>2 DEF Leave, TypeOK
  <2>8. QED
    BY <2>1, <2>3, <2>6, <2>7, SidesKeep
<1>4. QED
    BY <1>2, <1>3

\* Payloads that are made again.
LEMMA RegenerateKeeps ==
    ASSUME PurchasingInv, NEW x \in Sessions, RegenerateAllPayloads(x)
    PROVE  PurchasingInv'
<1>1. TypeOK
    BY DEF PurchasingInv
<1>2. CASE LoadRegenerate(x)
  <2>1. Busy(x) /\ job[x].op = "regenerate"
    BY <1>2, UnderWay DEF LoadRegenerate, Loading, Places, Answers
  <2>2. CASE Fails(x, "error")
    BY <2>1, <2>2, FailsKeep DEF Answers
  <2>3. CASE ~Fails(x, "error")
    <3> DEFINE mine == {o \in OrdersOf(job[x].id) : o[2] \in phone}
               tell == {o[2] : o \in {p \in mine : message[p] = 0}}
    <3>1. Proceed(x, "commit", NoRow, {}, tell)
      BY <1>2, <2>3 DEF LoadRegenerate
    <3>2. tell \in SUBSET Suppliers
      BY DEF OrdersOf, Placed, Orders
    <3> HIDE DEF tell
    <3>3. QED
      BY <2>1, <3>1, <3>2, AsideKeeps
  <2>4. QED
    BY <2>2, <2>3
<1>3. CASE CommitRegenerate(x)
  <2>1. Busy(x)
    BY <1>3, UnderWay DEF CommitRegenerate, Places, Answers
  <2>2. message' \in [Orders -> Nat]
    BY <1>1, <1>3 DEF CommitRegenerate, TypeOK
  <2>3. UNCHANGED papers /\ UNCHANGED posted /\ link' = link /\ BookTypes'
    BY <1>1, <1>3, <2>2 DEF CommitRegenerate, TypeOK, BookTypes, papers, directory, stock
  <2>4. aborts' \in 0..MaxAborts /\ jobs' = jobs /\ Finish(x, "ok")
    BY <1>1, <1>3 DEF CommitRegenerate, Leave, TypeOK
  <2>5. QED
    BY <2>1, <2>3, <2>4, SidesKeep DEF Answers
<1>4. QED
    BY <1>2, <1>3 DEF RegenerateAllPayloads

\* The WhatsApp connection.
LEMMA LinkKeeps ==
    ASSUME PurchasingInv, NEW x \in Sessions, ConnectWhatsApp(x) \/ CommitDisconnect(x)
    PROVE  PurchasingInv'
<1>1. TypeOK
    BY DEF PurchasingInv
<1>2. CASE LoadLink(x)
  <2>1. Busy(x) /\ job[x].op \in LinkOps
    BY <1>2, UnderWay DEF LoadLink, Places, Answers
  <2>2. CASE Fails(x, "refused")
    BY <2>1, <2>2, FailsKeep DEF Answers
  <2>3. CASE ~Fails(x, "refused") /\ job[x].op = "connect"
    <3>1. Proceed(x, "insert", link, {}, {})
      BY <1>2, <2>3 DEF LoadLink
    <3>2. link \in OrderRow \cup Link \cup {NoRow}
      BY <1>1 DEF TypeOK
    <3>3. QED
      BY <2>1, <2>3, <3>1, <3>2, AsideKeeps
  <2>4. CASE ~Fails(x, "refused") /\ job[x].op # "connect"
    <3>1. /\ link # NoRow
          /\ Proceed(x, IF job[x].op = "test" THEN "call" ELSE "commit", link, {}, {})
      BY <1>2, <2>4 DEF LoadLink
    <3>2. link \in Link
      BY <1>1, <3>1 DEF TypeOK
    <3>3. CASE job[x].op = "test"
      BY <2>1, <3>1, <3>2, <3>3, AsideKeeps
    <3>4. CASE job[x].op # "test"
      BY <2>1, <2>4, <3>1, <3>2, <3>4, AsideKeeps DEF LinkOps
    <3>5. QED
      BY <3>3, <3>4
  <2>5. QED
    BY <2>2, <2>3, <2>4
<1>3. CASE UpsertConnection(x)
  <2>1. Busy(x) /\ job[x].op = "connect"
    BY <1>3, UnderWay DEF UpsertConnection, Places, Answers
  <2>2. CASE Fails(x, "error")
    BY <2>1, <2>2, FailsKeep DEF Answers
  <2>3. CASE ~Fails(x, "error")
    <3>1. Proceed(x, "call", seen[x], {}, {}) /\ seen[x] \in OrderRow \cup Link \cup {NoRow}
      BY <1>1, <1>3, <2>3 DEF UpsertConnection, TypeOK
    <3>2. QED
      BY <2>1, <3>1, AsideKeeps
  <2>4. QED
    BY <2>2, <2>3
<1>4. CASE FetchPhoneNumber(x)
  <2>1. Busy(x) /\ Own(x)
    BY <1>4, UnderWay DEF FetchPhoneNumber, Places, Answers
  <2>2. CASE Fails(x, "error")
    BY <2>1, <2>2, FailsKeep DEF Answers
  <2>3. CASE ~Fails(x, "error")
    <3>1. PICK status \in {"connected", "error"} : link' = Checked(x, status)
      BY <1>4, <2>3 DEF FetchPhoneNumber
    <3>2. job[x].op \in {"connect", "test"}
      BY <1>4, <2>1 DEF FetchPhoneNumber, Own, Route
    <3>3. job[x].op = "test" => link \in Link
      BY <1>1, <1>4, <2>1 DEF FetchPhoneNumber, Own, Names, TypeOK
    <3>4. link' \in Link
      BY <3>1, <3>2, <3>3 DEF Checked, Link
    <3>5. link' # NoRow
      BY <3>4, PurchasingAssumption
    <3>6. UNCHANGED papers /\ UNCHANGED posted /\ BookTypes'
      BY <1>1, <1>4, <2>3, <3>4
      DEF FetchPhoneNumber, TypeOK, BookTypes, papers, directory, stock
    <3>7. aborts' \in 0..MaxAborts /\ jobs' = jobs /\ Finish(x, "ok")
      BY <1>1, <1>4, <2>3 DEF FetchPhoneNumber, Leave, TypeOK
    <3>8. QED
      BY <2>1, <3>5, <3>6, <3>7, SidesKeep DEF Answers
  <2>4. QED
    BY <2>2, <2>3
<1>5. CASE CommitDisconnect(x)
  <2>1. Busy(x) /\ Own(x)
    BY <1>5, UnderWay DEF CommitDisconnect, Places, Answers
  <2>2. link \in Link
    BY <1>1, <1>5, <2>1 DEF CommitDisconnect, Own, Names, TypeOK
  <2>3. link' \in Link
    BY <1>5, <2>2 DEF CommitDisconnect, Link
  <2>4. link' # NoRow
    BY <2>3, PurchasingAssumption
  <2>5. UNCHANGED papers /\ UNCHANGED posted /\ BookTypes'
    BY <1>1, <1>5, <2>3 DEF CommitDisconnect, TypeOK, BookTypes, papers, directory, stock
  <2>6. aborts' \in 0..MaxAborts /\ jobs' = jobs /\ Finish(x, "ok")
    BY <1>1, <1>5 DEF CommitDisconnect, Leave, TypeOK
  <2>7. QED
    BY <2>1, <2>4, <2>5, <2>6, SidesKeep DEF Answers
<1>6. QED
    BY <1>2, <1>3, <1>4, <1>5 DEF ConnectWhatsApp

\* A reply that is stored.
LEMMA WebhookKeeps ==
    ASSUME PurchasingInv, NEW x \in Sessions, ReceiveWebhook(x)
    PROVE  PurchasingInv'
<1>1. Busy(x) /\ TypeOK
    BY UnderWay DEF ReceiveWebhook, Loading, Places, Answers
<1>2. inbox' \subseteq Ids \X (Orders \cup {NoRow})
  <2>1. Answerable(job[x].supplier) \subseteq Orders
    BY DEF Answerable, Placed
  <2>2. PICK o \in Orders \cup {NoRow} :
            inbox' = IF link = NoRow THEN inbox ELSE inbox \cup {<<ticket[x], o>>}
    BY <2>1 DEF ReceiveWebhook
  <2>3. QED
    BY <1>1, <2>2 DEF TypeOK
<1>3. UNCHANGED papers /\ UNCHANGED posted /\ link' = link /\ BookTypes'
    BY <1>1, <1>2 DEF ReceiveWebhook, TypeOK, BookTypes, papers, directory, stock
<1>4. aborts' \in 0..MaxAborts /\ jobs' = jobs /\ Finish(x, "ok")
    BY <1>1 DEF ReceiveWebhook, Leave, TypeOK
<1>5. QED
    BY <1>1, <1>3, <1>4, SidesKeep DEF Answers

\* A lost connection.
LEMMA AbortKeeps ==
    ASSUME PurchasingInv, NEW x \in Sessions, Abort(x)
    PROVE  PurchasingInv'
<1>1. Busy(x) /\ TypeOK
    BY UnderWay DEF Abort, Places, Answers
<1>2. UNCHANGED papers /\ UNCHANGED posted /\ link' = link /\ BookTypes' /\ jobs' = jobs
    BY <1>1 DEF Abort, book, TypeOK, BookTypes, papers, chat, directory, stock
<1>3. aborts' \in 0..MaxAborts /\ Finish(x, "error")
    BY <1>1, PurchasingAssumption DEF Abort, TypeOK
<1>4. QED
    BY <1>1, <1>2, <1>3, SidesKeep DEF Answers

\* A request that comes has a number of its own.
LEMMA ArriveKeeps ==
    ASSUME PurchasingInv, NEW x \in Sessions, NEW j \in Jobs, Arrive(x, j)
    PROVE  PurchasingInv'
<1> USE PurchasingAssumption
<1>1. TypeOK /\ BooksInv /\ jobs \in Nat /\ jobs + 1 \in Ids /\ Own(x) /\ Apart(x)
  <2>1. TypeOK /\ BooksInv /\ Own(x) /\ Apart(x)
    BY DEF PurchasingInv, TablesInv
  <2>2. jobs \in 0..MaxJobs /\ jobs < MaxJobs
    BY <2>1 DEF TypeOK, Ids, Arrive
  <2>3. QED
    BY <2>1, <2>2 DEF Ids
<1>2. UNCHANGED <<book, lock, number, want, made, told, seen, base, aborts>> /\ jobs' = jobs + 1
    BY DEF Arrive
<1>3. pc' = [pc EXCEPT ![x] = "load"] /\ job' = [job EXCEPT ![x] = j]
      /\ ticket' = [ticket EXCEPT ![x] = jobs + 1] /\ pc[x] = "idle"
    BY DEF Arrive, Goto
<1>4. OwnTypes' /\ Alone(x)
    BY <1>1, <1>2, <1>3 DEF OwnTypes, TypeOK, Alone, Places
<1>5. pc'[x] = "load" /\ job'[x] = j /\ ticket'[x] = jobs + 1
    BY <1>1, <1>3 DEF TypeOK
<1>6. Busy(x)' /\ ~Busy(x) /\ ~Receiving(x)' /\ ~Filed(x)'
    BY <1>3, <1>5 DEF Busy, Receiving, Filed, Answers
<1>7. Made(x) = {} /\ Made(x)' = {}
    BY <1>1, <1>2, <1>6 DEF Made, Own, Split, Buys
<1>8. Route(x)' /\ Read(x)' /\ Split(x)'
    BY <1>5, <1>7 DEF Route, Read, Split
<1>9. Counted(x)'
  <2>1. Cardinality(Placed') \in Nat /\ Cardinality(Made(x)') \in Nat
    BY <1>7, MoreRows, FS_EmptySet DEF Placed
  <2>2. \A s \in Suppliers : made'[x][s] = 0
    BY <1>1, <1>7 DEF Made
  <2>3. QED
    BY <1>5, <1>6, <2>1, <2>2 DEF Counted
<1>10. Fresh(x)'
    BY <1>1, <1>2, <1>5 DEF BooksInv, Fresh, book, papers
<1>11. Names(x)'
    BY <1>2, <1>5 DEF Names, Arrive, Known, Placed, Reorders, Submitted, book, papers
<1>12. Own(x)'
    BY <1>1, <1>2, <1>5, <1>6, <1>8, <1>9, <1>10, <1>11 DEF Own
<1>13. \A y \in Sessions \ {x} : ticket'[x] # ticket'[y]
  <2>1. ASSUME NEW y \in Sessions \ {x} PROVE ticket[y] \in 0..jobs
    <3>1. Own(y)
      BY DEF PurchasingInv
    <3>2. QED
      BY <3>1, <1>1 DEF Own
  <2>2. QED
    BY <1>1, <1>4, <1>5, <2>1 DEF Alone
<1>14. Apart(x)'
    BY <1>6, <1>7, <1>13 DEF Apart, Made
<1>15. jobs <= jobs'
    BY <1>1, <1>2
<1>16. QED
    BY <1>2, <1>4, <1>12, <1>14, <1>15, QuietKeeps

\* A request that is answered leaves nothing behind.
LEMMA DoneKeeps ==
    ASSUME PurchasingInv, NEW x \in Sessions, Done(x)
    PROVE  PurchasingInv'
<1>1. TypeOK /\ Own(x) /\ Apart(x) /\ jobs \in Nat
    BY DEF PurchasingInv, TypeOK, Ids
<1>2. pc' = [pc EXCEPT ![x] = "idle"] /\ pc'[x] = "idle" /\ pc[x] \in Answers
      /\ UNCHANGED <<book, lock, job, ticket, number, want, made, told, seen, base, jobs, aborts>>
    BY <1>1 DEF Done, Goto, TypeOK, own
<1>3. OwnTypes' /\ Alone(x)
    BY <1>1, <1>2 DEF OwnTypes, TypeOK, Alone, Places
<1>4. ~Busy(x) /\ ~Busy(x)' /\ ~Receiving(x)' /\ ~Filed(x)' /\ ~Buys(x) /\ ~Buys(x)'
    BY <1>2 DEF Busy, Receiving, Filed, Answers, Buys
<1>5. Split(x)' /\ Counted(x)' /\ Read(x)'
    BY <1>1, <1>2, <1>4 DEF Own, Split, Counted, Read, Made
<1>6. Own(x)'
    BY <1>1, <1>2, <1>4, <1>5 DEF Own
<1>7. Apart(x)'
    BY <1>1, <1>2, <1>3, <1>4, StillApart
<1>8. jobs <= jobs'
    BY <1>1, <1>2
<1>9. QED
    BY <1>2, <1>3, <1>6, <1>7, <1>8, QuietKeeps

----------------------------------------------------------------------------
(* Orders and requisitions.                                                 *)

\* An order asks its supplier only, a requisition at least one.
LEMMA WhoIsAsked ==
    ASSUME NEW x \in Sessions, job[x] \in Jobs, job[x].op \in {"order", "submit"}
    PROVE  /\ Asked(Cart(x)) \subseteq Suppliers /\ Asked(Cart(x)) # {}
           /\ job[x].op = "order" => Asked(Cart(x)) = {job[x].supplier}
           /\ Cart(x) \in [Suppliers -> Lines]
<1> USE PurchasingAssumption
<1>1. job[x] \in JobType
    OBVIOUS
<1>2. job[x].supplier \in Suppliers /\ job[x].lines \in Lines
      /\ job[x].cart \in [Suppliers -> Lines]
    BY <1>1 DEF JobType
<1>3. None \in Lines /\ Named(None) = {}
    BY DEF None, Lines, Named
<1>4. Cart(x) \in [Suppliers -> Lines]
    BY <1>2, <1>3 DEF Cart
<1>5. ASSUME job[x].op = "order" PROVE Asked(Cart(x)) = {job[x].supplier}
  <2>1. Named(job[x].lines) # {}
    BY <1>5
  <2>2. \A s \in Suppliers : Cart(x)[s] = IF s = job[x].supplier THEN job[x].lines ELSE None
    BY <1>5 DEF Cart
  <2>3. QED
    BY <1>2, <1>3, <2>1, <2>2 DEF Asked
<1>6. job[x].op = "submit" => Asked(Cart(x)) # {}
    BY DEF Asked, Cart
<1>7. QED
    BY <1>2, <1>4, <1>5, <1>6 DEF Asked

\* An order that is accepted has one supplier to ask.
LEMMA LoadOrderKeeps ==
    ASSUME PurchasingInv, NEW x \in Sessions, LoadOrder(x)
    PROVE  PurchasingInv'
<1>1. Busy(x) /\ Own(x) /\ Apart(x) /\ job[x] \in JobType /\ TypeOK
      /\ job[x].op = "order" /\ pc[x] = "load" /\ job[x] \in Jobs
    BY UnderWay DEF LoadOrder, Loading, Places, Answers, Own
<1>2. CASE Fails(x, "refused")
    BY <1>1, <1>2, FailsKeep DEF Answers
<1>3. CASE ~Fails(x, "refused")
  <2> DEFINE place == IF job[x].number = 0 THEN "count" ELSE "insert"
  <2>1. GoOn(x, place, NoRow, {job[x].supplier}, {})
        /\ number' = [number EXCEPT ![x] = job[x].number]
    BY <1>3 DEF LoadOrder
  <2>2. job[x].number \in Nat /\ job[x].supplier \in Suppliers /\ place \in Places
        /\ {job[x].supplier} \in SUBSET (Suppliers \cup Items) /\ {} \in SUBSET Suppliers
        /\ NoRow \in OrderRow \cup Link \cup {NoRow}
    BY <1>1, PurchasingAssumption DEF JobType, Places
  <2>3. /\ UNCHANGED book /\ Alone(x) /\ OwnTypes' /\ jobs' = jobs
        /\ job' = job /\ ticket' = ticket /\ made' = made
        /\ pc'[x] = place /\ want'[x] = {job[x].supplier} /\ number'[x] = job[x].number
    <3> DEFINE who == {job[x].supplier}
               nobody == {}
               n == job[x].number
    <3>1. who \in SUBSET (Suppliers \cup Items) /\ nobody \in SUBSET Suppliers /\ n \in Nat
          /\ place \in Places /\ NoRow \in OrderRow \cup Link \cup {NoRow}
      BY <2>2
    <3>2. GoOn(x, place, NoRow, who, nobody) /\ number' = [number EXCEPT ![x] = n]
      BY <2>1
    <3>3. /\ UNCHANGED book /\ Alone(x) /\ OwnTypes' /\ jobs' = jobs
          /\ job' = job /\ ticket' = ticket /\ made' = made
          /\ pc'[x] = place /\ want'[x] = who /\ number'[x] = n
      <4> HIDE DEF place, who, nobody, n
      <4>1. TypeOK
        BY <1>1
      <4>2. QED
        BY <4>1, <3>1, <3>2, GoOnFacts, Zenon
    <3>4. QED
      BY <3>3
  <2>4. Busy(x)' /\ Buys(x)' /\ ~Receiving(x)' /\ ~Filed(x)' /\ pc'[x] \in {"count", "insert"}
    BY <1>1, <2>3 DEF Busy, Buys, Receiving, Filed, Answers
  <2>5. Made(x) = {} /\ Made(x)' = {} /\ Cart(x)' = Cart(x)
    BY <1>1, <2>3 DEF Made, Own, Split, Cart
  <2>6. Asked(Cart(x)) = {job[x].supplier}
    BY <1>1, WhoIsAsked
  <2>7. Asked(Cart(x))' = {job[x].supplier}
    BY <2>5, <2>6 DEF Asked
  <2>8. Split(x)'
    BY <1>1, <2>3, <2>4, <2>5, <2>7 DEF Split
  <2>9. Counted(x)'
    <3>1. \A s \in Suppliers : made'[x][s] = 0
      BY <2>5 DEF Made
    <3>2. pc'[x] = "insert" => number'[x] # 0
      BY <2>3
    <3>3. QED
      BY <1>1, <2>2, <2>3, <2>4, <3>1, <3>2 DEF Counted
  <2>10. Route(x)' /\ Read(x)'
    BY <1>1, <2>3, <2>4 DEF Route, Read
  <2>11. Apart(x)'
    BY <1>1, <2>3, <2>4, StillApart
  <2>12. QED
    BY <1>1, <2>3, <2>4, <2>8, <2>9, <2>10, <2>11, MoveKeeps
<1>4. QED
    BY <1>2, <1>3

\* A requisition that is accepted has the suppliers of its cart to ask.
LEMMA LoadSubmitKeeps ==
    ASSUME PurchasingInv, NEW x \in Sessions, LoadSubmit(x)
    PROVE  PurchasingInv'
<1>1. Busy(x) /\ Own(x) /\ Apart(x) /\ job[x] \in JobType /\ TypeOK
      /\ job[x].op = "submit" /\ pc[x] = "load" /\ job[x] \in Jobs
    BY UnderWay DEF LoadSubmit, Loading, Places, Answers, Own
<1>2. CASE Fails(x, "refused") \/ Fails(x, "ok")
    BY <1>1, <1>2, FailsKeep DEF Answers
<1>3. CASE ~(Fails(x, "refused") \/ Fails(x, "ok"))
  <2> DEFINE who == Asked(job[x].cart)
  <2>1. Proceed(x, "file", NoRow, who, who \cap phone)
    BY <1>3 DEF LoadSubmit
  <2>2. who = Asked(Cart(x)) /\ who \in SUBSET Suppliers /\ who # {} /\ number[x] \in Nat
        /\ who \cap phone \in SUBSET Suppliers /\ number' = [number EXCEPT ![x] = number[x]]
        /\ who \in SUBSET (Suppliers \cup Items) /\ NoRow \in OrderRow \cup Link \cup {NoRow}
    BY <1>1, <2>1, WhoIsAsked DEF Cart, TypeOK, Proceed
  <2>3. /\ UNCHANGED book /\ Alone(x) /\ OwnTypes' /\ jobs' = jobs
        /\ job' = job /\ ticket' = ticket /\ made' = made
        /\ pc'[x] = "file" /\ want'[x] = who
    <3> HIDE DEF who
    <3>1. GoOn(x, "file", NoRow, who, who \cap phone) /\ "file" \in Places
      BY <2>1 DEF Proceed, Places
    <3>2. TypeOK
      BY <1>1
    <3>3. QED
      BY <2>2, <3>1, <3>2, GoOnFacts, Zenon
  <2>4. Busy(x)' /\ Buys(x)' /\ ~Receiving(x)' /\ ~Filed(x)'
    BY <1>1, <2>3 DEF Busy, Buys, Receiving, Filed, Answers
  <2>5. Made(x) = {} /\ Made(x)' = {} /\ Cart(x)' = Cart(x)
    BY <1>1, <2>3 DEF Made, Own, Split, Cart
  <2>6. Asked(Cart(x))' = who
    BY <2>2, <2>5 DEF Asked
  <2>7. Split(x)'
    BY <1>1, <2>2, <2>3, <2>4, <2>5, <2>6 DEF Split
  <2>8. Counted(x)'
    <3>1. \A s \in Suppliers : made'[x][s] = 0
      BY <2>5 DEF Made
    <3>2. Cardinality(Placed') \in Nat /\ Cardinality(Made(x)') \in Nat
      BY <2>5, MoreRows, FS_EmptySet DEF Placed
    <3>3. QED
      BY <1>1, <2>3, <2>4, <3>1, <3>2 DEF Counted
  <2>9. Route(x)' /\ Read(x)'
    BY <1>1, <2>3, <2>4 DEF Route, Read
  <2>10. Apart(x)'
    BY <1>1, <2>3, <2>4, StillApart
  <2>11. QED
    BY <1>1, <2>3, <2>4, <2>7, <2>8, <2>9, <2>10, MoveKeeps
<1>4. QED
    BY <1>2, <1>3

\* A requisition that is filed has a key that nobody else has filed or used.
LEMMA FileKeeps ==
    ASSUME PurchasingInv, NEW x \in Sessions, FileRequisition(x)
    PROVE  PurchasingInv'
<1>1. Busy(x) /\ Own(x) /\ Apart(x) /\ TypeOK
      /\ job[x].op = "submit" /\ pc[x] = "file" /\ job[x] \in Jobs
    BY UnderWay DEF FileRequisition, Places, Answers, Own, Route
<1>2. CASE KeyTaken(job[x].key)
    BY <1>1, <1>2, FailsKeep DEF Answers, FileRequisition
<1>3. CASE ~KeyTaken(job[x].key)
  <2>1. Proceed(x, "count", NoRow, want[x], told[x])
    BY <1>3 DEF FileRequisition
  <2>2. want[x] \in SUBSET (Suppliers \cup Items) /\ number[x] \in Nat
        /\ told[x] \in SUBSET Suppliers /\ number' = [number EXCEPT ![x] = number[x]]
        /\ NoRow \in OrderRow \cup Link \cup {NoRow}
    BY <1>1, <2>1 DEF TypeOK, Proceed
  <2>3. /\ UNCHANGED book /\ Alone(x) /\ OwnTypes' /\ jobs' = jobs
        /\ job' = job /\ ticket' = ticket /\ made' = made
        /\ pc'[x] = "count" /\ want'[x] = want[x]
    <3>1. GoOn(x, "count", NoRow, want[x], told[x]) /\ "count" \in Places
      BY <2>1 DEF Proceed, Places
    <3>2. TypeOK
      BY <1>1
    <3>3. QED
      BY <2>2, <3>1, <3>2, GoOnFacts, Zenon
  <2>4. Busy(x)' /\ Buys(x)' /\ Buys(x) /\ ~Receiving(x)'
    BY <1>1, <2>3 DEF Busy, Buys, Receiving, Answers
  <2>5. Made(x) = {} /\ Made(x)' = {} /\ Cart(x)' = Cart(x)
    BY <1>1, <2>3 DEF Made, Own, Split, Cart
  <2>6. Asked(Cart(x))' = Asked(Cart(x))
    BY <2>5 DEF Asked
  <2>7. Split(x)'
    BY <1>1, <2>3, <2>4, <2>5, <2>6 DEF Split, Own
  <2>8. Counted(x)'
    <3>1. \A s \in Suppliers : made'[x][s] = 0
      BY <2>5 DEF Made
    <3>2. Cardinality(Placed') \in Nat /\ Cardinality(Made(x)') \in Nat
      BY <2>5, MoreRows, FS_EmptySet DEF Placed
    <3>3. QED
      BY <1>1, <2>3, <2>4, <3>1, <3>2 DEF Counted
  <2>9. Route(x)' /\ Read(x)'
    BY <1>1, <2>3, <2>4 DEF Route, Read
  <2>10. Apart(x)'
    <3>1. \A z \in Sessions \ {x} :
             /\ job'[z] = job[z] /\ ticket'[z] = ticket[z] /\ made'[z] = made[z]
             /\ (Filed(z)' <=> Filed(z))
      BY <2>3 DEF Alone, Filed
    <3>2. \A y \in Sessions :
             Filed(y)' /\ job'[x].key = job'[y].key /\ job'[x].key # NoKey => x = y
      BY <2>3, <3>1 DEF FileRequisition
    <3>3. ~KeyTaken(job[x].key)'
      BY <1>3, <2>3 DEF KeyTaken, WithKey, Submitted, book, papers
    <3>4. \A s \in Suppliers : made'[x][s] = 0
      BY <2>5 DEF Made
    <3>5. \A y \in Sessions \ {x} : ticket'[x] # ticket'[y]
      BY <1>1, <2>3, <3>1 DEF Apart
    <3>6. QED
      BY <2>4, <3>2, <3>3, <3>4, <3>5 DEF Apart
  <2>11. QED
    BY <1>1, <2>3, <2>4, <2>7, <2>8, <2>9, <2>10, MoveKeeps
<1>4. QED
    BY <1>2, <1>3

\* A session that counts, and finds the number past what it has made.
LEMMA CountKeeps ==
    ASSUME PurchasingInv, NEW x \in Sessions, Count(x)
    PROVE  PurchasingInv'
<1>1. Busy(x) /\ Own(x) /\ Apart(x) /\ TypeOK /\ pc[x] = "count" /\ job[x] \in Jobs
    BY UnderWay DEF Count, Places, Answers, Own
<1>2. job[x].op \in {"order", "submit", "receive"}
    BY <1>1 DEF Own, Route
<1>3. Cardinality(Placed) \in Nat /\ Cardinality(Made(x)) \in Nat /\ Cardinality(Receipts) \in Nat
    BY Countable, FS_Subset, FS_CardinalityType DEF Placed, Made, Receipts
<1>4. NextNumber(x) \in Nat /\ NextNumber(x) # 0
      /\ (job[x].op = "submit" =>
             NextNumber(x) = Cardinality(Placed) + Cardinality(Made(x)) + 1)
    BY <1>3 DEF NextNumber, Made
<1>5. /\ UNCHANGED <<book, lock, job, ticket, want, made, told, seen, base, jobs, aborts>>
      /\ pc' = [pc EXCEPT ![x] = "insert"] /\ number' = [number EXCEPT ![x] = NextNumber(x)]
    BY DEF Count, Goto
<1>6. OwnTypes' /\ Alone(x) /\ pc'[x] = "insert" /\ number'[x] = NextNumber(x)
    BY <1>1, <1>4, <1>5 DEF OwnTypes, TypeOK, Alone, Places
<1>7. Busy(x)' /\ (Buys(x)' <=> Buys(x)) /\ ~Receiving(x)' /\ (Filed(x)' => Filed(x))
    BY <1>1, <1>5, <1>6 DEF Busy, Buys, Receiving, Filed, Answers
<1>8. Made(x)' = Made(x) /\ Cart(x)' = Cart(x) /\ Asked(Cart(x))' = Asked(Cart(x))
      /\ Placed' = Placed
    BY <1>5 DEF Made, Cart, Asked, Placed, book, papers
<1>9. Split(x)'
    BY <1>1, <1>2, <1>5, <1>6, <1>7, <1>8 DEF Own, Split
<1>10. Counted(x)'
  <2>1. \A s \in Suppliers : made[x][s] \in Nat
    BY <1>1 DEF TypeOK
  <2>2. job[x].op = "submit" =>
            \A s \in Suppliers : made[x][s] <= Cardinality(Placed) + Cardinality(Made(x))
    BY <1>1 DEF Own, Counted
  <2>3. job[x].op = "order" => \A s \in Suppliers : made[x][s] = 0
    <3>1. SUFFICES ASSUME job[x].op = "order" PROVE Made(x) = {}
      BY DEF Made
    <3>2. want[x] \cup Made(x) = {job[x].supplier} /\ want[x] \cap Made(x) = {} /\ want[x] # {}
      BY <1>1, <3>1, WhoIsAsked DEF Own, Split, Buys
    <3>3. QED
      BY <3>2
  <2>4. Buys(x)' => \A s \in Suppliers : made[x][s] < NextNumber(x)
    <3>1. CASE job[x].op = "submit"
      BY <1>3, <1>4, <2>1, <2>2, <3>1
    <3>2. CASE job[x].op = "order"
      BY <1>4, <2>3, <3>2
    <3>3. QED
      BY <1>7, <3>1, <3>2 DEF Buys
  <2>5. QED
    BY <1>3, <1>4, <1>5, <1>6, <1>7, <1>8, <2>2, <2>4 DEF Counted
<1>11. Route(x)' /\ Read(x)'
  <2>1. Route(x)'
    BY <1>2, <1>5, <1>6 DEF Route
  <2>2. Read(x)'
    BY <1>1, <1>5, <1>7 DEF Own, Read, Brought, Bringing, Receipts, book, papers
  <2>3. QED
    BY <2>1, <2>2
<1>12. Apart(x)'
    BY <1>1, <1>5, <1>6, <1>7, StillApart
<1>13. QED
    BY <1>1, <1>2, <1>5, <1>6, <1>7, <1>9, <1>10, <1>11, <1>12, MoveKeeps

\* The next order of a request: its number is nobody's.
LEMMA InsertOrderKeeps ==
    ASSUME PurchasingInv, NEW x \in Sessions, InsertOrder(x)
    PROVE  PurchasingInv'
<1>1. Busy(x) /\ Own(x) /\ Apart(x) /\ TypeOK /\ pc[x] = "insert" /\ job[x] \in Jobs
      /\ job[x].op \in {"order", "submit"} /\ number[x] \notin Held(x)
    BY UnderWay DEF InsertOrder, Places, Answers, Own
<1>2. CASE Taken(number[x])
    BY <1>1, <1>2, FailsKeep DEF InsertOrder, Answers
<1>3. CASE ~Taken(number[x])
  <2> DEFINE s == Least(want[x])
             next == IF want[x] = {s} THEN "commit" ELSE "count"
  <2>1. /\ made' = [made EXCEPT ![x][s] = number[x]]
        /\ want' = [want EXCEPT ![x] = @ \ {s}]
        /\ number' = [number EXCEPT ![x] = 0]
        /\ pc' = [pc EXCEPT ![x] = next]
        /\ UNCHANGED <<book, lock, job, ticket, told, seen, base, jobs, aborts>>
    BY <1>3 DEF InsertOrder, Goto
  <2>2. Buys(x) /\ want[x] \cup Made(x) = Asked(Cart(x)) /\ want[x] \cap Made(x) = {} /\ want[x] # {}
    BY <1>1 DEF Own, Split, Buys
  <2>3. s \in want[x] /\ s \in Suppliers /\ s \notin Made(x)
    <3>1. want[x] \subseteq Suppliers
      BY <1>1, <2>2, WhoIsAsked
    <3>2. s \in want[x]
      BY <2>2, <3>1, LeastIn
    <3>3. QED
      BY <2>2, <3>1, <3>2
  <2> HIDE DEF s
  <2>4. number[x] \in Nat /\ number[x] # 0 /\ (\A t \in Suppliers : made[x][t] < number[x])
        /\ (job[x].op = "submit" => number[x] <= Cardinality(Placed) + Cardinality(Made(x)) + 1)
    BY <1>1, <2>2 DEF Own, Counted, TypeOK
  <2>5. OwnTypes' /\ Alone(x)
    BY <1>1, <2>1, <2>3 DEF OwnTypes, TypeOK, Alone, Places
  <2>6. /\ made'[x] = [made[x] EXCEPT ![s] = number[x]] /\ want'[x] = want[x] \ {s}
        /\ pc'[x] = next /\ number'[x] = 0
    BY <1>1, <2>1 DEF TypeOK
  <2>7. Busy(x)' /\ Buys(x)' /\ ~Receiving(x)' /\ (Filed(x)' => Filed(x)) /\ pc'[x] # "load"
        /\ pc'[x] \in {"count", "commit"} /\ (pc'[x] = "commit" <=> want[x] = {s})
    BY <1>1, <2>1, <2>6 DEF Busy, Buys, Receiving, Filed, Answers
  <2>8. Made(x)' = Made(x) \cup {s} /\ Cart(x)' = Cart(x) /\ Asked(Cart(x))' = Asked(Cart(x))
        /\ Placed' = Placed
    <3>1. Made(x)' = Made(x) \cup {s}
      BY <1>1, <2>3, <2>4, <2>6 DEF Made, TypeOK
    <3>2. QED
      BY <2>1, <3>1 DEF Cart, Asked, Placed, book, papers
  <2>9. Split(x)'
    <3>1. want'[x] \cup Made(x)' = Asked(Cart(x))' /\ want'[x] \cap Made(x)' = {}
      BY <2>2, <2>3, <2>6, <2>8
    <3>2. want'[x] # {} <=> pc'[x] # "commit"
      BY <2>2, <2>3, <2>6, <2>7
    <3>3. QED
      BY <1>1, <2>1, <2>7, <3>1, <3>2 DEF Split
  <2>10. Counted(x)'
    <3>1. Made(x) \subseteq Suppliers /\ Cardinality(Placed) \in Nat
      BY MoreRows DEF Made, Placed
    <3>2. Cardinality(Made(x)) \in Nat /\ Cardinality(Made(x)') = Cardinality(Made(x)) + 1
      BY <2>3, <2>8, <3>1, OneMore
    <3>3. job[x].op = "submit" =>
             \A t \in Suppliers : made[x][t] <= Cardinality(Placed) + Cardinality(Made(x))
      BY <1>1 DEF Own, Counted
    <3>4. \A t \in Suppliers : made[x][t] \in Nat
      BY <1>1 DEF TypeOK
    <3>5. ASSUME job[x].op = "submit", NEW t \in Suppliers
          PROVE  made'[x][t] <= Cardinality(Placed') + Cardinality(Made(x)')
      <4>1. CASE t = s
        BY <1>1, <2>3, <2>4, <2>6, <2>8, <3>1, <3>2, <3>5, <4>1 DEF TypeOK
      <4>2. CASE t # s
        <5>1. made'[x][t] = made[x][t]
          BY <1>1, <2>6, <4>2 DEF TypeOK
        <5>2. QED
          BY <2>8, <3>1, <3>2, <3>3, <3>4, <3>5, <5>1
      <4>3. QED
        BY <4>1, <4>2
    <3>6. QED
      BY <2>1, <2>7, <3>5 DEF Counted
  <2>11. Route(x)' /\ Read(x)'
    BY <1>1, <2>1, <2>7 DEF Route, Read
  <2>12. Apart(x)'
    <3>0. \A z \in Sessions \ {x} :
             /\ job'[z] = job[z] /\ ticket'[z] = ticket[z] /\ made'[z] = made[z]
             /\ (Filed(z)' <=> Filed(z))
      BY <2>5 DEF Alone, Filed
    <3>1. \A y \in Sessions \ {x} : ticket'[x] # ticket'[y]
      BY <1>1, <2>1, <3>0 DEF Apart
    <3>2. ASSUME NEW y \in Sessions, NEW u \in Suppliers, NEW t \in Suppliers,
                 made'[x][u] = made'[y][t], made'[x][u] # 0
          PROVE  x = y /\ u = t
      <4>0. made[x] \in [Suppliers -> Nat]
        BY <1>1 DEF TypeOK
      <4>1. CASE y # x /\ u # s
        BY <1>1, <2>6, <3>0, <3>2, <4>0, <4>1 DEF Apart
      <4>2. CASE y # x /\ u = s
        <5>1. made[y][t] = number[x]
          BY <2>3, <2>6, <3>0, <3>2, <4>0, <4>2
        <5>2. QED
          BY <1>1, <2>4, <4>2, <5>1 DEF Held
      <4>3. CASE y = x /\ u # s /\ t # s
        BY <1>1, <2>6, <3>2, <4>0, <4>3 DEF Apart
      <4>4. CASE y = x /\ u # s /\ t = s
        <5>1. made[x][u] = number[x] /\ made[x][u] < number[x] /\ made[x][u] \in Nat
          BY <2>3, <2>4, <2>6, <3>2, <4>0, <4>4
        <5>2. QED
          BY <2>4, <5>1
      <4>5. CASE y = x /\ u = s /\ t # s
        <5>1. made[x][t] = number[x] /\ made[x][t] < number[x] /\ made[x][t] \in Nat
          BY <2>3, <2>4, <2>6, <3>2, <4>0, <4>5
        <5>2. QED
          BY <2>4, <5>1
      <4>6. QED
        BY <4>1, <4>2, <4>3, <4>4, <4>5
    <3>3. ASSUME NEW t \in Suppliers, made'[x][t] # 0 PROVE ~Taken(made[x][t])'
      <4>0. made[x] \in [Suppliers -> Nat]
        BY <1>1 DEF TypeOK
      <4>1. \A o \in Placed : order'[o].number = order[o].number
        BY <2>1 DEF book, papers
      <4>2. CASE t = s
        BY <1>3, <2>3, <2>6, <2>8, <4>0, <4>1, <4>2 DEF Taken
      <4>3. CASE t # s
        <5>1. made'[x][t] = made[x][t] /\ ~Taken(made[x][t])
          BY <1>1, <2>6, <3>3, <4>0, <4>3 DEF Apart
        <5>2. QED
          BY <2>8, <4>1, <5>1 DEF Taken
      <4>4. QED
        BY <4>2, <4>3
    <3>4. ASSUME Filed(x)'
          PROVE  /\ \A y \in Sessions :
                       Filed(y)' /\ job'[x].key = job'[y].key /\ job'[x].key # NoKey => x = y
                 /\ ~KeyTaken(job[x].key)'
      <4>1. Filed(x) /\ job'[x] = job[x]
        BY <2>1, <2>7, <3>4
      <4>2. \A y \in Sessions :
               Filed(y)' /\ job'[x].key = job'[y].key /\ job'[x].key # NoKey => x = y
        BY <1>1, <3>0, <4>1 DEF Apart
      <4>3. ~KeyTaken(job[x].key)'
        BY <1>1, <2>1, <4>1 DEF Apart, KeyTaken, WithKey, Submitted, book, papers
      <4>4. QED
        BY <4>2, <4>3
    <3>5. QED
      BY <2>7, <3>1, <3>2, <3>3, <3>4 DEF Apart
  <2>13. QED
    BY <1>1, <2>1, <2>5, <2>7, <2>9, <2>10, <2>11, <2>12, MoveKeeps
<1>4. QED
    BY <1>2, <1>3

\* The rows of a request that commits: its orders, each with its lines.
LEMMA OrderedRows ==
    ASSUME TypeOK, NEW x \in Sessions, Own(x), Apart(x), Buys(x), pc[x] = "commit",
           job[x] \in Jobs
    PROVE  /\ Ordered(x) \in [Orders -> OrderRow \cup {NoRow}]
           /\ \A o \in Orders : o[1] = ticket[x] => order[o] = NoRow
           /\ \A o \in Orders : o[1] # ticket[x] => Ordered(x)[o] = order[o]
           /\ \A o \in Orders : o[1] = ticket[x] =>
                 /\ Ordered(x)[o] # NoRow <=> o[2] \in Asked(Cart(x))
                 /\ Ordered(x)[o] # NoRow =>
                       /\ made[x][o[2]] # 0 /\ Ordered(x)[o].number = made[x][o[2]]
                       /\ Ordered(x)[o].status = "unfulfilled" /\ Ordered(x)[o].received = None
                       /\ Ordered(x)[o].ordered = Cart(x)[o[2]]
                       /\ Ordered(x)[o].requisition =
                             IF job[x].op = "submit" THEN ticket[x] ELSE NoRow
<1> USE PurchasingAssumption
<1>1. Made(x) = Asked(Cart(x)) /\ Busy(x) /\ job[x].op \in {"order", "submit"}
    BY DEF Own, Split, Buys
<1>2. Cart(x) \in [Suppliers -> Lines] /\ ticket[x] \in Ids /\ made[x] \in [Suppliers -> Nat]
    BY <1>1, WhoIsAsked DEF TypeOK
<1>3. \A o \in Orders : o[2] \in Suppliers /\ o[1] \in Ids /\ o = <<o[1], o[2]>>
    BY DEF Orders
<1>4. ASSUME NEW o \in Orders, o[1] = ticket[x] PROVE order[o] = NoRow
    BY <1>1, <1>3, <1>4 DEF Own, Fresh
<1> DEFINE row(o) ==
        [number |-> made[x][o[2]], status |-> "unfulfilled",
         ordered |-> Cart(x)[o[2]], received |-> None,
         requisition |-> IF job[x].op = "submit" THEN ticket[x] ELSE NoRow]
<1>5. ASSUME NEW o \in Orders, o[1] = ticket[x], made[x][o[2]] # 0
      PROVE  Ordered(x)[o] = row(o) /\ row(o) \in OrderRow /\ row(o) # NoRow
  <2>1. None \in Lines
    BY DEF None, Lines
  <2>2. row(o) \in OrderRow
    BY <1>2, <1>3, <1>5, <2>1 DEF OrderRow
  <2>3. QED
    BY <1>5, <2>2 DEF Ordered
<1>6. ASSUME NEW o \in Orders, o[1] # ticket[x] \/ made[x][o[2]] = 0
      PROVE  Ordered(x)[o] = order[o]
    BY <1>6 DEF Ordered
<1>7. Ordered(x) \in [Orders -> OrderRow \cup {NoRow}]
  <2>1. ASSUME NEW o \in Orders PROVE Ordered(x)[o] \in OrderRow \cup {NoRow}
    <3>1. CASE o[1] = ticket[x] /\ made[x][o[2]] # 0
      BY <1>5, <3>1
    <3>2. CASE ~(o[1] = ticket[x] /\ made[x][o[2]] # 0)
      <4>1. Ordered(x)[o] = order[o]
        BY <1>6, <3>2
      <4>2. QED
        BY <4>1 DEF TypeOK
    <3>3. QED
      BY <3>1, <3>2
  <2>2. Ordered(x) = [o \in Orders |-> Ordered(x)[o]]
    BY DEF Ordered
  <2>3. QED
    BY <2>1, <2>2
<1>8. ASSUME NEW o \in Orders, o[1] = ticket[x]
      PROVE  Ordered(x)[o] # NoRow <=> o[2] \in Asked(Cart(x))
  <2>1. CASE made[x][o[2]] # 0
    BY <1>1, <1>3, <1>5, <1>8, <2>1 DEF Made
  <2>2. CASE made[x][o[2]] = 0
    BY <1>1, <1>3, <1>4, <1>6, <1>8, <2>2 DEF Made
  <2>3. QED
    BY <2>1, <2>2
<1>9. ASSUME NEW o \in Orders, o[1] = ticket[x], Ordered(x)[o] # NoRow
      PROVE  made[x][o[2]] # 0 /\ Ordered(x)[o] = row(o)
    BY <1>4, <1>5, <1>6, <1>9
<1>10. QED
    BY <1>4, <1>6, <1>7, <1>8, <1>9

\* What the receipts brought is of the receipts alone.
LEMMA BroughtStays ==
    ASSUME TypeOK, receipt' = receipt, NEW o, NEW i \in Items
    PROVE  Brought(o, i)' = Brought(o, i) /\ Brought(o, i) \in Nat
    BY BroughtType DEF Brought, Bringing, Receipts

\* The orders of a request, and its requisition, are committed together.
LEMMA CommitsKeep ==
    ASSUME PurchasingInv, NEW x \in Sessions, CommitOrder(x) \/ CommitSubmit(x)
    PROVE  PurchasingInv'
<1> USE PurchasingAssumption
<1>1. Busy(x) /\ Own(x) /\ Apart(x) /\ TypeOK /\ pc[x] = "commit" /\ job[x] \in Jobs
      /\ job[x].op \in {"order", "submit"} /\ job[x] \in JobType /\ TablesInv /\ Buys(x)
    BY UnderWay DEF CommitOrder, CommitSubmit, Places, Answers, Own, PurchasingInv, Buys
<1>2. order' = Ordered(x) /\ receipt' = receipt /\ reorder' = reorder
      /\ UNCHANGED directory /\ inbox' = inbox /\ link' = link /\ UNCHANGED stock
      /\ Leave(x, "ok")
    BY DEF CommitOrder, CommitSubmit, chat
<1>3. /\ Ordered(x) \in [Orders -> OrderRow \cup {NoRow}]
      /\ \A o \in Orders : o[1] = ticket[x] => order[o] = NoRow
      /\ \A o \in Orders : o[1] # ticket[x] => Ordered(x)[o] = order[o]
      /\ \A o \in Orders : o[1] = ticket[x] =>
            /\ Ordered(x)[o] # NoRow <=> o[2] \in Asked(Cart(x))
            /\ Ordered(x)[o] # NoRow =>
                  /\ made[x][o[2]] # 0 /\ Ordered(x)[o].number = made[x][o[2]]
                  /\ Ordered(x)[o].status = "unfulfilled" /\ Ordered(x)[o].received = None
                  /\ Ordered(x)[o].ordered = Cart(x)[o[2]]
                  /\ Ordered(x)[o].requisition =
                        IF job[x].op = "submit" THEN ticket[x] ELSE NoRow
    BY <1>1, OrderedRows
<1>4. ticket[x] \in Ids /\ ticket[x] \in 1..jobs /\ jobs \in Nat /\ requisition[ticket[x]] = NoRow
    BY <1>1 DEF Own, Fresh, TypeOK, Ids
<1> DEFINE row == [key |-> job[x].key, cart |-> job[x].cart, moved |-> NoRow]
<1>5. row \in RequisitionRow /\ row # NoRow
    BY <1>1 DEF JobType, RequisitionRow
<1>6. /\ job[x].op = "submit" =>
            requisition' = [requisition EXCEPT ![ticket[x]] = row] /\ Cart(x) = job[x].cart
      /\ job[x].op = "order" => requisition' = requisition
    BY <1>1 DEF CommitOrder, CommitSubmit, Cart
<1>7. requisition' \in [Ids -> RequisitionRow \cup {NoRow}]
      /\ (\A n \in Ids \ {ticket[x]} : requisition'[n] = requisition[n])
      /\ requisition'[ticket[x]] = (IF job[x].op = "submit" THEN row ELSE NoRow)
  <2> HIDE DEF row
  <2>0. requisition \in [Ids -> RequisitionRow \cup {NoRow}]
    BY <1>1 DEF TypeOK
  <2>1. CASE job[x].op = "submit"
    BY <1>4, <1>5, <1>6, <2>0, <2>1
  <2>2. CASE job[x].op = "order"
    BY <1>4, <1>6, <2>0, <2>2
  <2>3. QED
    BY <1>1, <2>1, <2>2
<1>8. BookTypes'
  <2>1. message' \in [Orders -> Nat]
    <3>1. CASE CommitOrder(x)
      BY <1>1, <3>1 DEF CommitOrder, TypeOK, chat
    <3>2. CASE CommitSubmit(x)
      BY <1>1, <3>2 DEF CommitSubmit, TypeOK
    <3>3. QED
      BY <3>1, <3>2
  <2>2. QED
    BY <1>1, <1>2, <1>3, <1>7, <2>1 DEF TypeOK, BookTypes, directory, stock
<1>9. Grows(x)
  <2>1. ASSUME NEW o \in Orders
        PROVE  /\ o \in Placed =>
                     /\ order'[o] # NoRow /\ order'[o].ordered = order[o].ordered
                     /\ order'[o].number = order[o].number
                     /\ order'[o].requisition = order[o].requisition
               /\ o \notin Placed /\ order'[o] # NoRow =>
                     /\ o[1] = ticket[x] /\ made[x][o[2]] # 0
                     /\ order'[o].number = made[x][o[2]]
    BY <1>2, <1>3 DEF Placed
  <2>2. ASSUME NEW n \in Ids
        PROVE  /\ n \in Submitted =>
                     requisition'[n] # NoRow /\ requisition'[n].key = requisition[n].key
               /\ n \notin Submitted /\ requisition'[n] # NoRow =>
                     n = ticket[x] /\ Filed(x) /\ requisition'[n].key = job[x].key
    <3>1. job[x].op = "submit" => Filed(x)
      BY <1>1 DEF Filed
    <3>2. CASE n = ticket[x]
      BY <1>1, <1>4, <1>7, <3>1, <3>2 DEF Submitted
    <3>3. CASE n # ticket[x]
      BY <1>7, <3>3 DEF Submitted
    <3>4. QED
      BY <3>2, <3>3
  <2>3. QED
    BY <1>2, <2>1, <2>2 DEF Grows, Reorders
<1>10. ReceiptMovesStock'
    BY <1>1, <1>2 DEF TablesInv, ReceiptMovesStock, Receipts, Reorders, stock
<1>11. SplitIsWhole'
  <2> SUFFICES ASSUME NEW n \in Ids, NEW s \in Suppliers
               PROVE  LET o == <<n, s>> IN
                      IF requisition'[n] # NoRow
                      THEN /\ order'[o] # NoRow <=> s \in Asked(requisition'[n].cart)
                           /\ order'[o] # NoRow => order'[o].ordered = requisition'[n].cart[s]
                      ELSE order'[o] # NoRow => order'[o].requisition = NoRow
    BY DEF SplitIsWhole, Submitted, Placed, Orders, Asked
  <2>1. <<n, s>> \in Orders /\ <<n, s>>[1] = n /\ <<n, s>>[2] = s
    BY DEF Orders
  <2>2. CASE n # ticket[x]
    <3>1. order'[<<n, s>>] = order[<<n, s>>] /\ requisition'[n] = requisition[n]
      BY <1>2, <1>3, <1>7, <2>1, <2>2
    <3>2. QED
      BY <1>1, <2>1, <3>1 DEF TablesInv, SplitIsWhole, Submitted, Placed
  <2>3. CASE n = ticket[x] /\ job[x].op = "submit"
    <3>1. requisition'[n] # NoRow /\ requisition'[n].cart = Cart(x)
      BY <1>5, <1>6, <1>7, <2>3
    <3>2. QED
      BY <1>2, <1>3, <2>1, <2>3, <3>1
  <2>4. CASE n = ticket[x] /\ job[x].op = "order"
    BY <1>1, <1>2, <1>3, <1>7, <2>1, <2>4
  <2>5. QED
    BY <1>1, <2>2, <2>3, <2>4
<1>12. BooksInv'
  <2>1. ASSUME NEW o \in Placed', NEW i \in Items
        PROVE  /\ order'[o].received[i] <= Brought(o, i)'
               /\ order'[o].status = "fulfilled" => order'[o].ordered[i] <= Brought(o, i)'
    <3>1. o \in Orders /\ order'[o] # NoRow
      BY DEF Placed
    <3>2. Brought(o, i)' = Brought(o, i) /\ Brought(o, i) \in Nat
      BY <1>1, <1>2, BroughtStays
    <3>3. CASE o[1] = ticket[x]
      BY <1>2, <1>3, <3>1, <3>2, <3>3 DEF None
    <3>4. CASE o[1] # ticket[x]
      <4>1. order'[o] = order[o] /\ o \in Placed
        BY <1>2, <1>3, <3>1, <3>4 DEF Placed
      <4>2. QED
        BY <1>1, <3>2, <4>1 DEF TablesInv, BooksInv
    <3>5. QED
      BY <3>3, <3>4
  <2>2. ASSUME NEW n \in Submitted', NEW s \in Suppliers, <<n, s>> \in Placed'
        PROVE  order'[<<n, s>>].requisition = n
    <3>1. n \in Ids /\ requisition'[n] # NoRow /\ <<n, s>> \in Orders /\ order'[<<n, s>>] # NoRow
          /\ <<n, s>>[1] = n
      BY <2>2 DEF Submitted, Placed, Orders
    <3>2. CASE n = ticket[x]
      BY <1>1, <1>2, <1>3, <1>7, <3>1, <3>2
    <3>3. CASE n # ticket[x]
      <4>1. order'[<<n, s>>] = order[<<n, s>>] /\ requisition'[n] = requisition[n]
        BY <1>2, <1>3, <1>7, <3>1, <3>3
      <4>2. n \in Submitted /\ <<n, s>> \in Placed
        BY <3>1, <4>1 DEF Submitted, Placed
      <4>3. QED
        BY <1>1, <4>1, <4>2 DEF TablesInv, BooksInv
    <3>4. QED
      BY <3>2, <3>3
  <2>3. requisition'[0] = NoRow
    BY <1>1, <1>4, <1>7 DEF TablesInv, BooksInv, Ids
  <2>4. ASSUME NEW n \in Ids, n > jobs'
        PROVE  /\ \A s \in Suppliers : order'[<<n, s>>] = NoRow
               /\ receipt'[n] = NoRow /\ requisition'[n] = NoRow
    <3>1. n > jobs /\ n # ticket[x]
      BY <1>2, <1>4, <2>4 DEF Leave, Ids
    <3>2. \A s \in Suppliers : <<n, s>> \in Orders /\ <<n, s>>[1] = n
      BY DEF Orders
    <3>3. QED
      BY <1>1, <1>2, <1>3, <1>7, <3>1, <3>2 DEF TablesInv, BooksInv
  <2>5. QED
    BY <2>1, <2>2, <2>3, <2>4 DEF BooksInv
<1>13. aborts' \in 0..MaxAborts /\ jobs' = jobs /\ Finish(x, "ok") /\ "ok" \in Answers
    BY <1>1, <1>2 DEF Leave, TypeOK, Answers
<1>14. QED
    BY <1>1, <1>8, <1>9, <1>10, <1>11, <1>12, <1>13, FinishKeeps

\* An explicit override of a requisition's supplier.
LEMMA AssignKeeps ==
    ASSUME PurchasingInv, NEW x \in Sessions, BulkAssign(x)
    PROVE  PurchasingInv'
<1> USE PurchasingAssumption
<1>1. CASE LoadAssign(x)
  <2>1. Busy(x) /\ job[x].op = "assign"
    BY <1>1, UnderWay DEF LoadAssign, Loading, Places, Answers
  <2>2. PICK place \in {"refused", "commit", "ok"} : Reply(x, place)
    BY <1>1 DEF LoadAssign
  <2>3. QED
    BY <2>1, <2>2, ReplyKeeps DEF Answers
<1>2. CASE CommitAssign(x)
  <2>1. Busy(x) /\ Own(x) /\ TypeOK /\ job[x] \in JobType /\ job[x].op = "assign" /\ TablesInv
    BY <1>2, UnderWay DEF CommitAssign, Places, Answers, PurchasingInv
  <2> DEFINE n == job[x].id
             row == [requisition[n] EXCEPT !.moved = job[x].supplier]
  <2>2. n \in Submitted /\ n \in Ids /\ job[x].supplier \in Suppliers
    BY <2>1 DEF Own, Names, RequisitionOps, Submitted, JobType
  <2>3. requisition[n] \in RequisitionRow
    BY <2>1, <2>2 DEF TypeOK, Submitted
  <2>4. row \in RequisitionRow /\ row # NoRow /\ row.key = requisition[n].key
        /\ row.cart = requisition[n].cart
    BY <2>2, <2>3 DEF RequisitionRow
  <2>5. requisition' = [requisition EXCEPT ![n] = row]
        /\ UNCHANGED <<directory, order, receipt, reorder, chat, stock>> /\ Leave(x, "ok")
    BY <1>2 DEF CommitAssign
  <2> HIDE DEF row
  <2>6. requisition' \in [Ids -> RequisitionRow \cup {NoRow}] /\ requisition'[n] = row
        /\ \A m \in Ids \ {n} : requisition'[m] = requisition[m]
    BY <2>1, <2>2, <2>4, <2>5 DEF TypeOK
  <2> HIDE DEF n
  <2>7. BookTypes'
    BY <2>1, <2>5, <2>6 DEF TypeOK, BookTypes, directory, chat, stock
  <2>8. Submitted' = Submitted /\ Placed' = Placed /\ Receipts' = Receipts /\ Reorders' = Reorders
    BY <2>2, <2>4, <2>5, <2>6 DEF Submitted, Placed, Receipts, Reorders
  <2>9. \A m \in Submitted : requisition'[m].key = requisition[m].key
                              /\ requisition'[m].cart = requisition[m].cart
    BY <2>4, <2>6 DEF Submitted
  <2>10. Grows(x)
    BY <2>5, <2>8, <2>9 DEF Grows, Submitted, Placed, Reorders, chat
  <2>11. ReceiptMovesStock' /\ SplitIsWhole'
    <3>1. ReceiptMovesStock'
      BY <2>1, <2>5, <2>8 DEF TablesInv, ReceiptMovesStock, stock
    <3>2. SplitIsWhole'
      BY <2>1, <2>5, <2>8, <2>9 DEF TablesInv, SplitIsWhole, Asked
    <3>3. QED
      BY <3>1, <3>2
  <2>12. BooksInv'
    <3>1. \A o \in Placed', i \in Items :
            /\ order'[o].received[i] <= Brought(o, i)'
            /\ order'[o].status = "fulfilled" => order'[o].ordered[i] <= Brought(o, i)'
      BY <2>1, <2>5, <2>8, BroughtStays DEF TablesInv, BooksInv
    <3>2. \A m \in Submitted', s \in Suppliers :
            <<m, s>> \in Placed' => order'[<<m, s>>].requisition = m
      BY <2>1, <2>5, <2>8 DEF TablesInv, BooksInv
    <3>3. requisition'[0] = NoRow
      BY <2>1, <2>8 DEF TablesInv, BooksInv, Submitted, Ids
    <3>4. \A m \in Ids : m > jobs' =>
            /\ \A s \in Suppliers : order'[<<m, s>>] = NoRow
            /\ receipt'[m] = NoRow /\ requisition'[m] = NoRow
      BY <2>1, <2>5, <2>8 DEF TablesInv, BooksInv, Submitted, Leave
    <3>5. QED
      BY <3>1, <3>2, <3>3, <3>4 DEF BooksInv
  <2>13. aborts' \in 0..MaxAborts /\ jobs' = jobs /\ Finish(x, "ok") /\ "ok" \in Answers
    BY <2>1, <2>5 DEF Leave, TypeOK, Answers
  <2>14. QED
    BY <2>1, <2>7, <2>10, <2>11, <2>12, <2>13, FinishKeeps
<1>3. QED
    BY <1>1, <1>2 DEF BulkAssign

----------------------------------------------------------------------------
(* Cancelling and receiving.                                                *)

\* An order that is written keeps its number, its lines and its requisition.
Rewrites(x, o) ==
    /\ order' = [order EXCEPT ![o] = order'[o]]
    /\ order'[o] \in OrderRow
    /\ order'[o].number = order[o].number /\ order'[o].ordered = order[o].ordered
    /\ order'[o].requisition = order[o].requisition
    /\ requisition' = requisition /\ reorder' = reorder /\ link' = link

\* Then the rows are those that were, and split as they were.
LEMMA RewriteKeeps ==
    ASSUME TypeOK, TablesInv, NEW x \in Sessions, NEW o \in Placed, Rewrites(x, o)
    PROVE  /\ order' \in [Orders -> OrderRow \cup {NoRow}] /\ o \in Orders
           /\ Placed' = Placed /\ Submitted' = Submitted /\ Reorders' = Reorders
           /\ \A p \in Orders \ {o} : order'[p] = order[p]
           /\ \A p \in Placed :
                 /\ order'[p].number = order[p].number /\ order'[p].ordered = order[p].ordered
                 /\ order'[p].requisition = order[p].requisition
           /\ SplitIsWhole'
<1> USE PurchasingAssumption
<1>1. o \in Orders /\ order[o] # NoRow /\ order \in [Orders -> OrderRow \cup {NoRow}]
    BY DEF Placed, TypeOK
<1> DEFINE row == order'[o]
<1>2. order' = [order EXCEPT ![o] = row] /\ row \in OrderRow /\ row # NoRow
    BY DEF Rewrites
<1>3. order' \in [Orders -> OrderRow \cup {NoRow}] /\ \A p \in Orders \ {o} : order'[p] = order[p]
  <2> HIDE DEF row
  <2>1. QED
    BY <1>1, <1>2
<1>4. Placed' = Placed
    BY <1>1, <1>2, <1>3 DEF Placed
<1>5. Submitted' = Submitted /\ Reorders' = Reorders
    BY DEF Rewrites, Submitted, Reorders
<1>6. \A p \in Placed :
        /\ order'[p].number = order[p].number /\ order'[p].ordered = order[p].ordered
        /\ order'[p].requisition = order[p].requisition
  <2>1. \A p \in Placed : p \in Orders
    BY DEF Placed
  <2>2. QED
    BY <1>3, <2>1 DEF Rewrites
<1>7. SplitIsWhole'
    BY <1>4, <1>5, <1>6 DEF TablesInv, SplitIsWhole, Rewrites, Asked
<1>8. QED
    BY <1>1, <1>3, <1>4, <1>5, <1>6, <1>7

\* An order that is cancelled keeps what was received.
LEMMA CancelKeeps ==
    ASSUME PurchasingInv, NEW x \in Sessions, CancelOrder(x)
    PROVE  PurchasingInv'
<1>1. CASE LoadCancel(x)
  <2>1. Busy(x) /\ job[x].op = "cancel"
    BY <1>1, UnderWay DEF LoadCancel, Loading, Places, Answers
  <2>2. PICK place \in {"refused", "commit"} : Reply(x, place)
    BY <1>1 DEF LoadCancel
  <2>3. QED
    BY <2>1, <2>2, ReplyKeeps DEF Answers
<1>2. CASE CommitCancel(x)
  <2>1. Busy(x) /\ Own(x) /\ TypeOK /\ job[x].op = "cancel" /\ TablesInv
    BY <1>2, UnderWay DEF CommitCancel, Places, Answers, PurchasingInv
  <2>2. PICK o \in Placed : o = job[x].order
    BY <2>1 DEF Own, Names, OrderOps
  <2>3. o \in Orders /\ order[o] \in OrderRow
    BY <2>1 DEF Placed, TypeOK
  <2> DEFINE row == [order[o] EXCEPT !.status = "cancelled"]
  <2>4. row \in OrderRow /\ row.status = "cancelled" /\ row.number = order[o].number
        /\ row.ordered = order[o].ordered /\ row.received = order[o].received
        /\ row.requisition = order[o].requisition
    BY <2>3 DEF OrderRow
  <2>5. order' = [order EXCEPT ![o] = row] /\ Leave(x, "ok")
        /\ UNCHANGED <<directory, receipt, requisition, reorder, chat, stock>>
    BY <1>2, <2>2 DEF CommitCancel
  <2> HIDE DEF row
  <2>6. order'[o] = row
    BY <2>1, <2>3, <2>5 DEF TypeOK
  <2>7. Rewrites(x, o)
    BY <2>4, <2>5, <2>6 DEF Rewrites, chat
  <2>8. /\ order' \in [Orders -> OrderRow \cup {NoRow}]
        /\ Placed' = Placed /\ Submitted' = Submitted /\ Reorders' = Reorders
        /\ \A p \in Orders \ {o} : order'[p] = order[p]
        /\ \A p \in Placed :
              /\ order'[p].number = order[p].number /\ order'[p].ordered = order[p].ordered
              /\ order'[p].requisition = order[p].requisition
        /\ SplitIsWhole'
    BY <2>1, <2>7, RewriteKeeps
  <2>9. BookTypes'
    BY <2>1, <2>5, <2>8 DEF TypeOK, BookTypes, directory, chat, stock
  <2>10. Grows(x)
    BY <2>5, <2>8 DEF Grows, Submitted, Placed, Reorders, chat
  <2>11. ReceiptMovesStock'
    BY <2>1, <2>5, <2>8 DEF TablesInv, ReceiptMovesStock, Receipts, stock
  <2>12. BooksInv'
    <3>1. ASSUME NEW p \in Placed', NEW i \in Items
          PROVE  /\ order'[p].received[i] <= Brought(p, i)'
                 /\ order'[p].status = "fulfilled" => order'[p].ordered[i] <= Brought(p, i)'
      <4>1. p \in Placed /\ p \in Orders /\ Brought(p, i)' = Brought(p, i)
        BY <2>1, <2>5, <2>8, BroughtStays DEF Placed
      <4>2. order[p].received[i] <= Brought(p, i)
            /\ (order[p].status = "fulfilled" => order[p].ordered[i] <= Brought(p, i))
        BY <2>1, <4>1 DEF TablesInv, BooksInv
      <4>3. CASE p = o
        BY <2>4, <2>6, <4>1, <4>2, <4>3
      <4>4. CASE p # o
        BY <2>8, <4>1, <4>2, <4>4
      <4>5. QED
        BY <4>3, <4>4
    <3>2. \A m \in Submitted', s \in Suppliers :
            <<m, s>> \in Placed' => order'[<<m, s>>].requisition = m
      BY <2>1, <2>8 DEF TablesInv, BooksInv
    <3>3. ASSUME NEW m \in Ids, m > jobs'
          PROVE  /\ \A s \in Suppliers : order'[<<m, s>>] = NoRow
                 /\ receipt'[m] = NoRow /\ requisition'[m] = NoRow
      <4>1. \A s \in Suppliers : <<m, s>> \in Orders /\ <<m, s>> \notin Placed
        BY <2>1, <2>5, <3>3 DEF TablesInv, BooksInv, Placed, Orders, Leave
      <4>2. QED
        BY <2>1, <2>5, <2>8, <3>3, <4>1 DEF TablesInv, BooksInv, Placed, Leave
    <3>4. requisition'[0] = NoRow
      BY <2>1, <2>5 DEF TablesInv, BooksInv
    <3>5. QED
      BY <3>1, <3>2, <3>3, <3>4 DEF BooksInv
  <2>13. aborts' \in 0..MaxAborts /\ jobs' = jobs /\ Finish(x, "ok") /\ "ok" \in Answers
    BY <2>1, <2>5 DEF Leave, TypeOK, Answers
  <2>14. QED
    BY <2>1, <2>8, <2>9, <2>10, <2>11, <2>12, <2>13, FinishKeeps
<1>3. QED
    BY <1>1, <1>2 DEF CancelOrder

\* An order that is read for a receipt had received what its receipts brought.
LEMMA LoadReceiveKeeps ==
    ASSUME PurchasingInv, NEW x \in Sessions, LoadReceive(x)
    PROVE  PurchasingInv'
<1> USE PurchasingAssumption
<1>1. Busy(x) /\ Own(x) /\ Apart(x) /\ job[x] \in JobType /\ TypeOK /\ TablesInv
      /\ job[x].op = "receive" /\ pc[x] = "load" /\ job[x] \in Jobs
    BY UnderWay DEF LoadReceive, Loading, Places, Answers, Own, PurchasingInv
<1>2. CASE Fails(x, "refused")
    BY <1>1, <1>2, FailsKeep DEF Answers
<1>3. CASE ~Fails(x, "refused")
  <2> DEFINE row == order[job[x].order]
             lines == Named(job[x].lines)
             nobody == {}
  <2>1. Proceed(x, "count", row, lines, nobody)
    BY <1>3 DEF LoadReceive
  <2>2. job[x].order \in Placed /\ job[x].order \in Orders
    BY <1>1 DEF Own, Names, OrderOps, Placed
  <2>3. row \in OrderRow
    BY <1>1, <2>2 DEF TypeOK, Placed
  <2>4. lines \subseteq Items /\ lines # {}
    BY <1>1 DEF Named
  <2>5. /\ UNCHANGED book /\ Alone(x) /\ OwnTypes' /\ jobs' = jobs
        /\ job' = job /\ ticket' = ticket /\ made' = made
        /\ pc'[x] = "count" /\ seen'[x] = row /\ want'[x] = lines
    <3> DEFINE n == number[x]
    <3>1. GoOn(x, "count", row, lines, nobody) /\ "count" \in Places
          /\ row \in OrderRow \cup Link \cup {NoRow} /\ lines \in SUBSET (Suppliers \cup Items)
          /\ nobody \in SUBSET Suppliers /\ n \in Nat /\ number' = [number EXCEPT ![x] = n] /\ TypeOK
      BY <1>1, <2>1, <2>3, <2>4 DEF Proceed, Places, TypeOK
    <3> HIDE DEF row, lines, nobody, n
    <3>2. QED
      BY <3>1, GoOnFacts, Zenon
  <2> HIDE DEF lines, nobody
  <2>6. Busy(x)' /\ ~Buys(x) /\ ~Buys(x)' /\ ~Receiving(x)' /\ ~Filed(x)'
    BY <1>1, <2>5 DEF Busy, Buys, Receiving, Filed, Answers
  <2>7. Made(x)' = {}
    BY <1>1, <2>5, <2>6 DEF Made, Own, Split
  <2>8. Split(x)'
    BY <1>1, <2>4, <2>5, <2>6, <2>7 DEF Split
  <2>9. Counted(x)' /\ Route(x)'
    BY <1>1, <2>5, <2>6 DEF Counted, Route
  <2>10. Read(x)'
    <3>1. ASSUME NEW i \in Items PROVE row.received[i] <= Brought(job[x].order, i)
      BY <1>1, <2>2 DEF TablesInv, BooksInv
    <3>2. QED
      BY <2>3, <2>5, <3>1 DEF Read, Brought, Bringing, Receipts, book, papers
  <2>11. Apart(x)'
    BY <1>1, <2>5, <2>6, StillApart
  <2>12. QED
    BY <1>1, <2>5, <2>6, <2>8, <2>9, <2>10, <2>11, MoveKeeps
<1>4. QED
    BY <1>2, <1>3 DEF LoadReceive

\* A receipt is inserted with a number that is nobody's.
LEMMA InsertReceiptKeeps ==
    ASSUME PurchasingInv, NEW x \in Sessions, InsertReceipt(x)
    PROVE  PurchasingInv'
<1>1. Busy(x) /\ Own(x) /\ Apart(x) /\ TypeOK /\ number[x] \notin HeldReceipt(x)
      /\ job[x].op = "receive" /\ pc[x] = "insert" /\ job[x] \in Jobs
    BY UnderWay DEF InsertReceipt, Places, Answers, Own
<1>2. CASE TakenReceipt(number[x])
    BY <1>1, <1>2, FailsKeep DEF Answers, InsertReceipt
<1>3. CASE ~TakenReceipt(number[x])
  <2> DEFINE nobody == {}
  <2>1. Proceed(x, "level", seen[x], want[x], nobody)
    BY <1>3 DEF InsertReceipt
  <2>2. /\ UNCHANGED book /\ Alone(x) /\ OwnTypes' /\ jobs' = jobs
        /\ job' = job /\ ticket' = ticket /\ made' = made
        /\ pc'[x] = "level" /\ seen'[x] = seen[x] /\ want'[x] = want[x] /\ number'[x] = number[x]
    <3> DEFINE n == number[x]
               row == seen[x]
               wanted == want[x]
    <3>1. GoOn(x, "level", row, wanted, nobody) /\ "level" \in Places
          /\ row \in OrderRow \cup Link \cup {NoRow} /\ wanted \in SUBSET (Suppliers \cup Items)
          /\ nobody \in SUBSET Suppliers /\ n \in Nat /\ number' = [number EXCEPT ![x] = n] /\ TypeOK
      BY <1>1, <2>1 DEF Proceed, Places, TypeOK
    <3>2. /\ UNCHANGED book /\ Alone(x) /\ OwnTypes' /\ jobs' = jobs
          /\ job' = job /\ ticket' = ticket /\ made' = made
          /\ pc'[x] = "level" /\ seen'[x] = row /\ want'[x] = wanted /\ number'[x] = n
      <4> HIDE DEF row, wanted, nobody, n
      <4>1. QED
        BY <3>1, GoOnFacts, Zenon
    <3>3. QED
      BY <3>2
  <2> HIDE DEF nobody
  <2>3. Busy(x)' /\ ~Buys(x) /\ ~Buys(x)' /\ ~Filed(x)'
    BY <1>1, <2>2 DEF Busy, Buys, Filed, Answers
  <2>4. Made(x)' = {} /\ Made(x) = {}
    BY <1>1, <2>2, <2>3 DEF Made, Own, Split
  <2>5. Split(x)'
    BY <1>1, <2>2, <2>3, <2>4 DEF Split, Own
  <2>6. Counted(x)' /\ Route(x)'
    BY <1>1, <2>2, <2>3 DEF Counted, Route, Own
  <2>7. Read(x)'
    BY <1>1, <2>2 DEF Own, Read, Brought, Bringing, Receipts, book, papers
  <2>8. Apart(x)'
    <3>1. \A z \in Sessions \ {x} :
             /\ ticket'[z] = ticket[z] /\ number'[z] = number[z]
             /\ (Receiving(z)' <=> Receiving(z))
      BY <2>2 DEF Alone, Receiving
    <3>2. \A y \in Sessions : Receiving(y)' /\ number'[x] = number'[y] => x = y
      BY <1>1, <2>2, <3>1 DEF HeldReceipt, Receiving
    <3>3. ~TakenReceipt(number[x])'
      BY <1>3, <2>2 DEF TakenReceipt, Receipts, book, papers
    <3>4. \A s \in Suppliers : made'[x][s] = 0
      BY <2>4 DEF Made
    <3>5. \A y \in Sessions \ {x} : ticket'[x] # ticket'[y]
      BY <1>1, <2>2, <3>1 DEF Apart
    <3>6. QED
      BY <2>3, <3>2, <3>3, <3>4, <3>5 DEF Apart
  <2>9. QED
    BY <1>1, <2>2, <2>3, <2>5, <2>6, <2>7, <2>8, MoveKeeps
<1>4. QED
    BY <1>2, <1>3

\* The level of an item is read, the item is locked.
LEMMA StockKeeps ==
    ASSUME PurchasingInv, NEW x \in Sessions, ReadLevel(x) \/ LockItem(x)
    PROVE  PurchasingInv'
<1>1. Busy(x) /\ Own(x) /\ Apart(x) /\ TypeOK /\ pc[x] \in {"level", "lock"} /\ job[x] \in Jobs
      /\ job[x].op \in {"receive", "take"}
    BY UnderWay DEF ReadLevel, LockItem, Places, Answers, Own, Route
<1>2. want[x] \subseteq Items /\ want[x] # {} /\ Least(want[x]) \in want[x]
    BY <1>1, LeastIn DEF Own, Split
<1>3. /\ UNCHANGED <<book, job, ticket, number, made, told, seen, jobs, aborts>>
      /\ \/ pc' = [pc EXCEPT ![x] = "lock"] /\ want' = want
         \/ /\ want' = [want EXCEPT ![x] = @ \ {Least(want[x])}]
            /\ pc' = [pc EXCEPT ![x] = IF want[x] = {Least(want[x])} THEN "commit" ELSE "level"]
    BY DEF ReadLevel, LockItem, Goto
<1>4. base' \in [Sessions -> [Items -> Int]] /\ lock' \in [Items -> Sessions \cup {NoSession}]
  <2>1. CASE ReadLevel(x)
    BY <1>1, <1>2, <2>1 DEF ReadLevel, TypeOK
  <2>2. CASE LockItem(x)
    BY <1>1, <1>2, <2>2 DEF LockItem, TypeOK
  <2>3. QED
    BY <2>1, <2>2
<1>5. OwnTypes' /\ Alone(x)
  <2>1. want' \in [Sessions -> SUBSET (Suppliers \cup Items)] /\ pc' \in [Sessions -> Places]
        /\ \A y \in Sessions \ {x} : pc'[y] = pc[y] /\ want'[y] = want[y]
    <3>1. want \in [Sessions -> SUBSET (Suppliers \cup Items)] /\ pc \in [Sessions -> Places]
      BY <1>1 DEF TypeOK
    <3>2. CASE pc' = [pc EXCEPT ![x] = "lock"] /\ want' = want
      BY <3>1, <3>2 DEF Places
    <3>3. CASE /\ want' = [want EXCEPT ![x] = @ \ {Least(want[x])}]
               /\ pc' = [pc EXCEPT ![x] = IF want[x] = {Least(want[x])} THEN "commit" ELSE "level"]
      BY <3>1, <3>3 DEF Places
    <3>4. QED
      BY <1>3, <3>2, <3>3
  <2>2. UNCHANGED <<job, ticket, number, made, told, seen, jobs, aborts>>
    BY <1>3
  <2>3. OwnTypes'
    BY <1>1, <1>4, <2>1, <2>2 DEF OwnTypes, TypeOK
  <2>4. pc \in [Sessions -> Places]
    BY <1>1 DEF TypeOK
  <2>5. QED
    BY <2>1, <2>2, <2>3, <2>4 DEF Alone
<1>6. /\ pc'[x] \in {"level", "lock", "commit"} /\ want'[x] \subseteq Items
      /\ pc'[x] # "commit" => want'[x] # {}
    BY <1>1, <1>2, <1>3 DEF TypeOK
<1>7. Busy(x)' /\ ~Buys(x) /\ ~Buys(x)' /\ ~Filed(x)' /\ (Receiving(x)' => Receiving(x))
    BY <1>1, <1>3, <1>6 DEF Busy, Buys, Filed, Answers, Receiving
<1>8. Made(x)' = {} /\ Made(x) = {}
    BY <1>1, <1>3, <1>7 DEF Made, Own, Split
<1>9. Split(x)'
    BY <1>1, <1>3, <1>6, <1>7, <1>8 DEF Split
<1>10. Counted(x)' /\ Route(x)'
    BY <1>1, <1>3, <1>6, <1>7 DEF Counted, Route, Own
<1>11. Read(x)'
    BY <1>1, <1>3 DEF Own, Read, Brought, Bringing, Receipts, book, papers
<1>12. Apart(x)'
    BY <1>1, <1>3, <1>5, <1>7, StillApart
<1>13. QED
    BY <1>1, <1>3, <1>5, <1>7, <1>9, <1>10, <1>11, <1>12, MoveKeeps

\* A new receipt brings its lines to its order.
LEMMA BroughtAdds ==
    ASSUME TypeOK, NEW n \in Ids, receipt[n] = NoRow, NEW row \in ReceiptRow,
           receipt' = [receipt EXCEPT ![n] = row], NEW o, NEW i \in Items
    PROVE  /\ Brought(o, i) \in Nat
           /\ Brought(o, i)' = Brought(o, i) + (IF row.order = o THEN row.lines[i] ELSE 0)
<1> USE PurchasingAssumption
<1> DEFINE f == Bringing(o, i)
           h == (Bringing(o, i))'
           d == IF row.order = o THEN row.lines[i] ELSE 0
<1>1. f \in [Ids -> Nat] /\ Total(f) \in Nat /\ Total(f) = Brought(o, i)
    BY BroughtType DEF Brought
<1>2. d \in Nat /\ row # NoRow
    BY DEF ReceiptRow, Lines
<1>3. h = [m \in Ids |->
        IF receipt'[m] # NoRow /\ receipt'[m].order = o THEN receipt'[m].lines[i] ELSE 0]
    BY DEF Bringing, Receipts
<1>4. f = [m \in Ids |->
        IF receipt[m] # NoRow /\ receipt[m].order = o THEN receipt[m].lines[i] ELSE 0]
    BY DEF Bringing, Receipts
<1>5. receipt'[n] = row /\ \A m \in Ids \ {n} : receipt'[m] = receipt[m]
    BY DEF TypeOK
<1>6. h[n] = d /\ f[n] = 0 /\ \A m \in Ids \ {n} : h[m] = f[m]
    BY <1>2, <1>3, <1>4, <1>5
<1>7. h = [m \in Ids |-> h[m]]
    BY <1>3
<1>8. Brought(o, i)' = Total(h)
    BY DEF Brought
<1> HIDE DEF f, h, d
<1>9. h = [f EXCEPT ![n] = @ + d]
  <2>1. f[n] + d = d
    BY <1>2, <1>6
  <2>2. QED
    BY <1>1, <1>6, <1>7, <2>1
<1>10. Total(h) = Total(f) + d
  <2>1. Total([f EXCEPT ![n] = @ + d]) = Total(f) + d
    BY <1>1, <1>2, TotalAdd
  <2>2. QED
    BY <1>9, <2>1
<1>11. QED
    BY <1>1, <1>8, <1>10 DEF d

\* A receipt, what it brings and the order it is of are committed together.
LEMMA CommitReceiveKeeps ==
    ASSUME PurchasingInv, NEW x \in Sessions, CommitReceive(x)
    PROVE  PurchasingInv'
<1> USE PurchasingAssumption
<1>1. Busy(x) /\ Own(x) /\ TypeOK /\ TablesInv /\ job[x] \in JobType /\ Receiving(x)
      /\ job[x].op = "receive" /\ pc[x] = "commit"
    BY UnderWay DEF CommitReceive, Places, Answers, PurchasingInv, Receiving
<1>2. PICK o \in Placed : o = job[x].order
    BY <1>1 DEF Own, Names, OrderOps
<1>3. o \in Orders /\ order[o] \in OrderRow /\ seen[x] \in OrderRow /\ job[x].lines \in Lines
      /\ number[x] \in Nat /\ number[x] # 0
      /\ ticket[x] \in Ids /\ ticket[x] \in 1..jobs /\ jobs \in Nat /\ receipt[ticket[x]] = NoRow
  <2>1. o \in Orders /\ order[o] \in OrderRow
    BY <1>1 DEF Placed, TypeOK
  <2>2. seen[x] \in OrderRow
    BY <1>1 DEF Own, Read
  <2>3. number[x] \in Nat /\ number[x] # 0
    BY <1>1 DEF Own, Counted, TypeOK
  <2>4. ticket[x] \in Ids /\ ticket[x] \in 1..jobs /\ jobs \in Nat /\ receipt[ticket[x]] = NoRow
    BY <1>1 DEF Own, Fresh, TypeOK, Ids
  <2>5. QED
    BY <1>1, <2>1, <2>2, <2>3, <2>4 DEF JobType
<1> DEFINE lines == job[x].lines
           paper == [order |-> job[x].order, number |-> number[x], lines |-> job[x].lines]
           row == order'[o]
<1>4. paper \in ReceiptRow /\ paper # NoRow /\ paper.order = o /\ paper.lines = lines
      /\ paper.number = number[x]
    BY <1>2, <1>3 DEF ReceiptRow
<1>5. receipt' = [receipt EXCEPT ![ticket[x]] = paper]
      /\ posted' = [posted EXCEPT ![<<"receipt", ticket[x]>>] = lines]
      /\ UNCHANGED <<directory, requisition, reorder, chat>> /\ Leave(x, "ok")
    BY DEF CommitReceive
<1>6. /\ order' = [order EXCEPT ![o] = row]
      /\ row.number = order[o].number /\ row.ordered = order[o].ordered
      /\ row.requisition = order[o].requisition
      /\ row.received =
            [i \in Items |-> IF lines[i] = 0 THEN order[o].received[i] ELSE Received(x)[i]]
      /\ row.status = Status(x) /\ row \in OrderRow
  <2> DEFINE got == [i \in Items |-> IF lines[i] = 0 THEN order[o].received[i] ELSE Received(x)[i]]
             new == [order[o] EXCEPT !.received = got, !.status = Status(x)]
  <2>1. order' = [order EXCEPT ![o] = new]
    BY <1>2 DEF CommitReceive
  <2>2. order'[o] = new
    BY <1>1, <1>3, <2>1 DEF TypeOK
  <2>3. got \in Lines
    BY <1>3 DEF Received, OrderRow, Lines
  <2>4. Status(x) \in {"unfulfilled", "fulfilled", "cancelled"}
    BY <1>2, <1>3 DEF Status, OrderRow
  <2> HIDE DEF got
  <2>5. new \in OrderRow /\ new.number = order[o].number /\ new.ordered = order[o].ordered
        /\ new.requisition = order[o].requisition /\ new.received = got /\ new.status = Status(x)
    BY <1>3, <2>3, <2>4 DEF OrderRow
  <2>6. QED
    BY <2>1, <2>2, <2>5 DEF got
<1> HIDE DEF row, paper
<1>7. Rewrites(x, o)
    BY <1>5, <1>6 DEF Rewrites, chat, row
<1>8. /\ order' \in [Orders -> OrderRow \cup {NoRow}]
      /\ Placed' = Placed /\ Submitted' = Submitted /\ Reorders' = Reorders
      /\ \A p \in Orders \ {o} : order'[p] = order[p]
      /\ \A p \in Placed :
            /\ order'[p].number = order[p].number /\ order'[p].ordered = order[p].ordered
            /\ order'[p].requisition = order[p].requisition
      /\ SplitIsWhole'
    BY <1>1, <1>7, RewriteKeeps
<1>9. /\ receipt' \in [Ids -> ReceiptRow \cup {NoRow}] /\ receipt'[ticket[x]] = paper
      /\ \A n \in Ids \ {ticket[x]} : receipt'[n] = receipt[n]
    BY <1>1, <1>3, <1>4, <1>5 DEF TypeOK
<1>10. /\ posted' \in [Refs -> Lines]
       /\ posted'[<<"receipt", ticket[x]>>] = lines
       /\ \A f \in Refs \ {<<"receipt", ticket[x]>>} : posted'[f] = posted[f]
  <2>1. <<"receipt", ticket[x]>> \in Refs
    BY <1>3 DEF Refs
  <2>2. QED
    BY <1>1, <1>3, <1>5, <2>1 DEF TypeOK
<1>11. level' \in [Items -> Int]
  <2>1. \A i \in Items : base[x][i] \in Int /\ level[i] \in Int /\ job[x].lines[i] \in Nat
    BY <1>1, <1>3 DEF TypeOK, Lines
  <2>2. QED
    BY <2>1 DEF CommitReceive
<1>12. BookTypes'
    BY <1>1, <1>5, <1>8, <1>9, <1>10, <1>11 DEF TypeOK, BookTypes, directory, chat
<1>13. Grows(x)
    BY <1>1, <1>5, <1>8, <1>9 DEF Grows, Submitted, Placed, Reorders, chat, paper
<1>14. ReceiptMovesStock'
  <2>1. Receipts' = Receipts \cup {ticket[x]}
    BY <1>3, <1>4, <1>9 DEF Receipts
  <2>2. ASSUME NEW n \in Ids
        PROVE  posted'[<<"receipt", n>>] = IF n \in Receipts' THEN receipt'[n].lines ELSE None
    <3>1. CASE n = ticket[x]
      BY <1>4, <1>9, <1>10, <2>1, <3>1
    <3>2. CASE n # ticket[x]
      <4>1. <<"receipt", n>> \in Refs \ {<<"receipt", ticket[x]>>}
        BY <3>2 DEF Refs
      <4>2. QED
        BY <1>1, <1>9, <1>10, <2>1, <3>2, <4>1 DEF TablesInv, ReceiptMovesStock
    <3>3. QED
      BY <3>1, <3>2
  <2>3. ASSUME NEW n \in Reorders', reorder'[n].status = "received"
        PROVE  posted'[<<"reorder", n>>][reorder'[n].item] >= reorder'[n].quantity
    <3>1. <<"reorder", n>> \in Refs \ {<<"receipt", ticket[x]>>}
      BY DEF Refs, Reorders
    <3>2. QED
      BY <1>1, <1>5, <1>8, <1>10, <2>3, <3>1 DEF TablesInv, ReceiptMovesStock
  <2>4. QED
    BY <2>2, <2>3 DEF ReceiptMovesStock
<1>15. BooksInv'
  <2>1. ASSUME NEW p \in Placed', NEW i \in Items
        PROVE  /\ order'[p].received[i] <= Brought(p, i)'
               /\ order'[p].status = "fulfilled" => order'[p].ordered[i] <= Brought(p, i)'
    <3>1. p \in Placed /\ p \in Orders /\ order[p] \in OrderRow
      BY <1>1, <1>8 DEF Placed, TypeOK
    <3>2. Brought(p, i) \in Nat
          /\ Brought(p, i)' = Brought(p, i) + (IF o = p THEN lines[i] ELSE 0)
      <4> DEFINE n == ticket[x]
      <4>1. TypeOK /\ n \in Ids /\ receipt[n] = NoRow /\ paper \in ReceiptRow
            /\ receipt' = [receipt EXCEPT ![n] = paper]
        BY <1>1, <1>3, <1>4, <1>5
      <4> HIDE DEF n
      <4>2. /\ Brought(p, i) \in Nat
            /\ Brought(p, i)' = Brought(p, i) + (IF paper.order = p THEN paper.lines[i] ELSE 0)
        BY <4>1, BroughtAdds, Zenon
      <4>3. QED
        BY <1>4, <4>2
    <3>3. order[p].received[i] <= Brought(p, i)
          /\ (order[p].status = "fulfilled" => order[p].ordered[i] <= Brought(p, i))
      BY <1>1, <3>1 DEF TablesInv, BooksInv
    <3>4. order[p].received[i] \in Nat /\ order[p].ordered[i] \in Nat /\ lines[i] \in Nat
          /\ seen[x].received[i] \in Nat /\ seen[x].ordered[i] \in Nat
      BY <1>3, <3>1 DEF OrderRow, Lines
    <3>5. CASE p # o
      BY <1>8, <3>1, <3>2, <3>3, <3>4, <3>5
    <3>6. CASE p = o
      <4>1. seen[x].received[i] <= Brought(o, i) /\ seen[x].ordered = order[o].ordered
        BY <1>1, <1>2 DEF Own, Read
      <4>2. Brought(o, i)' = Brought(o, i) + lines[i] /\ Brought(o, i) \in Nat
        BY <3>2, <3>6
      <4>3. Received(x)[i] = seen[x].received[i] + lines[i]
        BY DEF Received
      <4>4. row.received[i] <= Brought(o, i)'
        <5>1. row.received[i] = IF lines[i] = 0 THEN order[o].received[i] ELSE Received(x)[i]
          BY <1>6
        <5>2. CASE lines[i] = 0
          BY <3>3, <3>4, <3>6, <4>2, <5>1, <5>2
        <5>3. CASE lines[i] # 0
          BY <3>4, <4>1, <4>2, <4>3, <5>1, <5>3
        <5>4. QED
          BY <5>2, <5>3
      <4>5. ASSUME row.status = "fulfilled" PROVE order[o].ordered[i] <= Brought(o, i)'
        <5>1. CASE \A k \in Items : Received(x)[k] >= seen[x].ordered[k]
          <6>1. Received(x)[i] >= order[o].ordered[i]
            BY <4>1, <5>1
          <6>2. QED
            BY <3>4, <3>6, <4>1, <4>2, <4>3, <6>1
        <5>2. CASE ~\A k \in Items : Received(x)[k] >= seen[x].ordered[k]
          <6>1. order[o].status = "fulfilled"
            BY <1>2, <1>6, <4>5, <5>2 DEF Status
          <6>2. QED
            BY <3>3, <3>4, <3>6, <4>2, <6>1
        <5>3. QED
          BY <5>1, <5>2
      <4>6. QED
        BY <1>6, <3>6, <4>4, <4>5 DEF row
    <3>7. QED
      BY <3>5, <3>6
  <2>2. \A m \in Submitted', s \in Suppliers :
          <<m, s>> \in Placed' => order'[<<m, s>>].requisition = m
    BY <1>1, <1>8 DEF TablesInv, BooksInv
  <2>3. ASSUME NEW m \in Ids, m > jobs'
        PROVE  /\ \A s \in Suppliers : order'[<<m, s>>] = NoRow
               /\ receipt'[m] = NoRow /\ requisition'[m] = NoRow
    <3>1. m > jobs /\ m # ticket[x]
      BY <1>3, <1>5, <2>3 DEF Leave, Ids
    <3>2. \A s \in Suppliers : <<m, s>> \in Orders /\ <<m, s>> \notin Placed
      BY <1>1, <3>1 DEF TablesInv, BooksInv, Placed, Orders
    <3>3. QED
      BY <1>1, <1>5, <1>8, <1>9, <3>1, <3>2 DEF TablesInv, BooksInv, Placed
  <2>4. requisition'[0] = NoRow
    BY <1>1, <1>5 DEF TablesInv, BooksInv
  <2>5. QED
    BY <2>1, <2>2, <2>3, <2>4 DEF BooksInv
<1>16. aborts' \in 0..MaxAborts /\ jobs' = jobs /\ Finish(x, "ok") /\ "ok" \in Answers
    BY <1>1, <1>5 DEF Leave, TypeOK, Answers
<1>17. QED
    BY <1>1, <1>8, <1>12, <1>13, <1>14, <1>15, <1>16, FinishKeeps

----------------------------------------------------------------------------
(* Reorders.                                                                *)

\* A reorder that is written, with what it posts, leaves the other papers as they
\* are.
LEMMA ReorderRowKeeps ==
    ASSUME PurchasingInv, NEW x \in Sessions, Busy(x), Leave(x, "ok"),
           UNCHANGED <<directory, order, receipt, requisition, chat>>,
           NEW n \in Ids, NEW row \in ReorderRow, reorder' = [reorder EXCEPT ![n] = row],
           posted' \in [Refs -> Lines], level' \in [Items -> Int],
           \A f \in Refs \ {<<"reorder", n>>} : posted'[f] = posted[f],
           row.status = "received" => posted'[<<"reorder", n>>][row.item] >= row.quantity
    PROVE  PurchasingInv'
<1> USE PurchasingAssumption
<1>1. TypeOK /\ TablesInv /\ row # NoRow
    BY DEF PurchasingInv
<1>2. reorder' \in [Ids -> ReorderRow \cup {NoRow}] /\ reorder'[n] = row
      /\ \A m \in Ids \ {n} : reorder'[m] = reorder[m]
    BY <1>1 DEF TypeOK
<1>3. BookTypes'
    BY <1>1, <1>2 DEF TypeOK, BookTypes, directory, chat
<1>4. Grows(x)
    BY <1>1, <1>2 DEF Grows, Placed, Submitted, Reorders, chat
<1>5. Receipts' = Receipts /\ Placed' = Placed /\ Submitted' = Submitted
    BY DEF Receipts, Placed, Submitted
<1>6. ReceiptMovesStock'
  <2>1. ASSUME NEW m \in Ids
        PROVE  posted'[<<"receipt", m>>] = IF m \in Receipts' THEN receipt'[m].lines ELSE None
    <3>1. <<"receipt", m>> \in Refs \ {<<"reorder", n>>}
      BY DEF Refs
    <3>2. QED
      BY <1>1, <1>5, <3>1 DEF TablesInv, ReceiptMovesStock
  <2>2. ASSUME NEW m \in Reorders', reorder'[m].status = "received"
        PROVE  posted'[<<"reorder", m>>][reorder'[m].item] >= reorder'[m].quantity
    <3>1. CASE m = n
      BY <1>2, <2>2, <3>1
    <3>2. CASE m # n
      <4>1. <<"reorder", m>> \in Refs \ {<<"reorder", n>>} /\ m \in Reorders
            /\ reorder'[m] = reorder[m]
        BY <1>2, <3>2 DEF Refs, Reorders
      <4>2. QED
        BY <1>1, <2>2, <4>1 DEF TablesInv, ReceiptMovesStock
    <3>3. QED
      BY <3>1, <3>2
  <2>3. QED
    BY <2>1, <2>2 DEF ReceiptMovesStock
<1>7. SplitIsWhole'
    BY <1>1, <1>5 DEF TablesInv, SplitIsWhole, Asked
<1>8. BooksInv'
  <2>1. \A o \in Placed', i \in Items :
          /\ order'[o].received[i] <= Brought(o, i)'
          /\ order'[o].status = "fulfilled" => order'[o].ordered[i] <= Brought(o, i)'
    BY <1>1, <1>5, BroughtStays DEF TablesInv, BooksInv
  <2>2. QED
    BY <1>1, <1>5, <2>1 DEF TablesInv, BooksInv, Leave
<1>9. aborts' \in 0..MaxAborts /\ jobs' = jobs /\ Finish(x, "ok") /\ "ok" \in Answers
    BY <1>1 DEF Leave, TypeOK, Answers
<1>10. QED
    BY <1>3, <1>4, <1>6, <1>7, <1>8, <1>9, FinishKeeps

\* A reorder that is made is pending.
LEMMA CreateReorderKeeps ==
    ASSUME PurchasingInv, NEW x \in Sessions, CreateReorder(x)
    PROVE  PurchasingInv'
<1> USE PurchasingAssumption
<1>1. CASE LoadReorder(x)
  <2>1. Busy(x) /\ job[x].op = "reorder"
    BY <1>1, UnderWay DEF LoadReorder, Loading, Places, Answers
  <2>2. PICK place \in {"refused", "commit"} : Reply(x, place)
    BY <1>1 DEF LoadReorder
  <2>3. QED
    BY <2>1, <2>2, ReplyKeeps DEF Answers
<1>2. CASE CommitReorder(x)
  <2>1. Busy(x) /\ Own(x) /\ TypeOK /\ job[x] \in JobType /\ job[x].op = "reorder"
        /\ job[x] \in Jobs
    BY <1>2, UnderWay DEF CommitReorder, Places, Answers, Own
  <2> DEFINE row == [supplier |-> job[x].supplier, item |-> job[x].item,
                     quantity |-> job[x].lines[job[x].item], status |-> "pending"]
  <2>2. ticket[x] \in Ids
    BY <2>1 DEF TypeOK
  <2>3. row \in ReorderRow /\ row.status = "pending"
    BY <2>1 DEF JobType, Lines, ReorderRow
  <2>4. reorder' = [reorder EXCEPT ![ticket[x]] = row] /\ Leave(x, "ok")
        /\ UNCHANGED <<directory, order, receipt, requisition, chat, stock>>
    BY <1>2 DEF CommitReorder
  <2>5. posted' \in [Refs -> Lines] /\ level' \in [Items -> Int] /\ posted' = posted
    BY <2>1, <2>4 DEF TypeOK, stock
  <2> HIDE DEF row
  <2>6. QED
    BY <2>1, <2>2, <2>3, <2>4, <2>5, ReorderRowKeeps
<1>3. QED
    BY <1>1, <1>2 DEF CreateReorder

\* A reorder that is cancelled posts nothing.
LEMMA CancelReorderKeeps ==
    ASSUME PurchasingInv, NEW x \in Sessions, CancelReorder(x)
    PROVE  PurchasingInv'
<1> USE PurchasingAssumption
<1>1. CASE LoadDrop(x)
  <2>1. Busy(x) /\ job[x].op = "drop"
    BY <1>1, UnderWay DEF LoadDrop, Loading, Places, Answers
  <2>2. PICK place \in {"refused", "commit"} : Reply(x, place)
    BY <1>1 DEF LoadDrop
  <2>3. QED
    BY <2>1, <2>2, ReplyKeeps DEF Answers
<1>2. CASE CommitDrop(x)
  <2>1. Busy(x) /\ Own(x) /\ TypeOK /\ job[x].op = "drop"
    BY <1>2, UnderWay DEF CommitDrop, Places, Answers
  <2> DEFINE n == job[x].id
             row == [reorder[n] EXCEPT !.status = "cancelled"]
  <2>2. n \in Ids /\ reorder[n] \in ReorderRow
    BY <2>1 DEF Own, Names, ReorderOps, Reorders, TypeOK
  <2>3. row \in ReorderRow /\ row.status = "cancelled"
    BY <2>2 DEF ReorderRow
  <2>4. reorder' = [reorder EXCEPT ![n] = row] /\ Leave(x, "ok")
        /\ UNCHANGED <<directory, order, receipt, requisition, chat, stock>>
    BY <1>2 DEF CommitDrop
  <2>5. posted' \in [Refs -> Lines] /\ level' \in [Items -> Int] /\ posted' = posted
    BY <2>1, <2>4 DEF TypeOK, stock
  <2> HIDE DEF row, n
  <2>6. QED
    BY <2>1, <2>2, <2>3, <2>4, <2>5, ReorderRowKeeps
<1>3. QED
    BY <1>1, <1>2 DEF CancelReorder

\* A reorder that is taken is posted in the same transaction.
LEMMA TakeKeeps ==
    ASSUME PurchasingInv, NEW x \in Sessions, ReceiveReorder(x)
    PROVE  PurchasingInv'
<1> USE PurchasingAssumption
<1>1. CASE LoadTake(x)
  <2>1. Busy(x) /\ Own(x) /\ Apart(x) /\ TypeOK /\ job[x].op = "take" /\ pc[x] = "load"
        /\ job[x] \in Jobs
    BY <1>1, UnderWay DEF LoadTake, Loading, Places, Answers, Own
  <2>2. CASE Fails(x, "refused")
    BY <2>1, <2>2, FailsKeep DEF Answers
  <2>3. CASE ~Fails(x, "refused")
    <3> DEFINE place == IF job[x].flag THEN "level" ELSE "lock"
               wanted == {reorder[job[x].id].item}
               nobody == {}
               n == number[x]
    <3>1. Proceed(x, place, NoRow, wanted, nobody)
      BY <1>1, <2>3 DEF LoadTake
    <3>2. wanted \subseteq Items /\ wanted # {} /\ place \in {"level", "lock"}
      BY <2>1 DEF Own, Names, ReorderOps, Reorders, TypeOK, ReorderRow
    <3>3. GoOn(x, place, NoRow, wanted, nobody) /\ place \in Places
          /\ NoRow \in OrderRow \cup Link \cup {NoRow} /\ wanted \in SUBSET (Suppliers \cup Items)
          /\ nobody \in SUBSET Suppliers /\ n \in Nat /\ number' = [number EXCEPT ![x] = n] /\ TypeOK
      BY <2>1, <3>1, <3>2 DEF Proceed, Places, TypeOK
    <3> HIDE DEF place, wanted, nobody, n
    <3>4. /\ UNCHANGED book /\ Alone(x) /\ OwnTypes' /\ jobs' = jobs
          /\ job' = job /\ ticket' = ticket /\ made' = made
          /\ pc'[x] = place /\ want'[x] = wanted
      BY <3>3, GoOnFacts, Zenon
    <3>5. Busy(x)' /\ ~Buys(x) /\ ~Buys(x)' /\ ~Receiving(x)' /\ ~Filed(x)'
      BY <2>1, <3>2, <3>4 DEF Busy, Buys, Receiving, Filed, Answers
    <3>6. Made(x)' = {}
      BY <2>1, <3>4, <3>5 DEF Made, Own, Split
    <3>7. Split(x)' /\ Counted(x)' /\ Route(x)' /\ Read(x)'
      BY <2>1, <3>2, <3>4, <3>5, <3>6 DEF Split, Counted, Route, Read
    <3>8. Apart(x)'
      BY <2>1, <3>4, <3>5, StillApart
    <3>9. QED
      BY <2>1, <3>4, <3>5, <3>7, <3>8, MoveKeeps
  <2>4. QED
    BY <2>2, <2>3
<1>2. CASE CommitTake(x)
  <2>1. Busy(x) /\ Own(x) /\ TypeOK /\ job[x].op = "take"
    BY <1>2, UnderWay DEF CommitTake, Places, Answers
  <2> DEFINE n == job[x].id
             i == reorder[n].item
             q == reorder[n].quantity
             row == [reorder[n] EXCEPT !.status = "received"]
             ref == <<"reorder", n>>
  <2>2. n \in Ids /\ reorder[n] \in ReorderRow
    BY <2>1 DEF Own, Names, ReorderOps, Reorders, TypeOK
  <2>3. i \in Items /\ q \in Nat /\ ref \in Refs
    BY <2>2 DEF ReorderRow, Refs
  <2>4. row \in ReorderRow /\ row.item = i /\ row.quantity = q
    BY <2>2 DEF ReorderRow
  <2>5. reorder' = [reorder EXCEPT ![n] = row] /\ Leave(x, "ok")
        /\ UNCHANGED <<directory, order, receipt, requisition, chat>>
        /\ posted' = [posted EXCEPT ![ref][i] = @ + q]
        /\ level' = [level EXCEPT ![i] = base[x][i] + q]
    BY <1>2 DEF CommitTake
  <2>6. level' \in [Items -> Int]
    BY <2>1, <2>3, <2>5 DEF TypeOK
  <2>7. posted \in [Refs -> [Items -> Nat]]
    BY <2>1 DEF TypeOK, Lines
  <2> HIDE DEF row, ref, q, i
  <2>8. /\ posted' \in [Refs -> [Items -> Nat]] /\ \A f \in Refs \ {ref} : posted'[f] = posted[f]
        /\ posted'[ref][i] = posted[ref][i] + q
    BY <2>3, <2>5, <2>7
  <2>9. posted'[ref][row.item] >= row.quantity
    BY <2>3, <2>4, <2>7, <2>8
  <2>10. posted' \in [Refs -> Lines]
    BY <2>8 DEF Lines
  <2>11. /\ \A f \in Refs \ {<<"reorder", n>>} : posted'[f] = posted[f]
         /\ posted'[<<"reorder", n>>][row.item] >= row.quantity
    BY <2>8, <2>9 DEF ref
  <2> HIDE DEF n
  <2>12. QED
    BY <2>1, <2>2, <2>4, <2>5, <2>6, <2>10, <2>11, ReorderRowKeeps
<1>3. QED
    BY <1>1, <1>2 DEF ReceiveReorder

----------------------------------------------------------------------------
(* The invariant.                                                           *)

\* The open orders of the start have a number each.
LEMMA InitNumbers ==
    ASSUME NEW s \in Suppliers, NEW t \in Suppliers,
           Named(Opened[s]) # {}, Named(Opened[t]) # {},
           Cardinality(Before(s)) = Cardinality(Before(t))
    PROVE  s = t
<1> USE PurchasingAssumption
<1>1. ASSUME NEW a \in Suppliers, NEW b \in Suppliers, Named(Opened[a]) # {}, Rank[a] < Rank[b]
      PROVE  Cardinality(Before(a)) # Cardinality(Before(b))
  <2>1. Before(a) \subseteq Before(b) /\ a \in Before(b) /\ a \notin Before(a)
    BY <1>1 DEF Before
  <2>2. IsFiniteSet(Before(b))
    BY FS_Subset DEF Before
  <2>3. QED
    BY <2>1, <2>2, FS_Subset
<1>2. Rank[s] \in Nat /\ Rank[t] \in Nat
    OBVIOUS
<1>3. ~(Rank[s] < Rank[t]) /\ ~(Rank[t] < Rank[s])
    BY <1>1
<1>4. QED
    BY <1>2, <1>3

\* At the start nothing is under way and nothing was received.
LEMMA InitHolds == Init => PurchasingInv
<1> USE PurchasingAssumption
<1> SUFFICES ASSUME Init PROVE PurchasingInv
    OBVIOUS
<1>0. None \in Lines /\ Empty \in [Suppliers -> Nat] /\ 0 \in Ids
    BY DEF None, Lines, Empty, Ids
<1>1. \A s \in Suppliers : Cardinality(Before(s)) \in Nat
    BY FS_Subset, FS_CardinalityType DEF Before
<1>2. ASSUME NEW o \in Orders, order[o] # NoRow
      PROVE  /\ o[1] = 0 /\ o[2] \in Suppliers /\ Named(Opened[o[2]]) # {} /\ o = <<0, o[2]>>
             /\ order[o] = [number |-> Cardinality(Before(o[2])) + 1, status |-> "unfulfilled",
                            ordered |-> Opened[o[2]], received |-> None, requisition |-> NoRow]
             /\ order[o] \in OrderRow
             /\ order[o].number = Cardinality(Before(o[2])) + 1
             /\ order[o].status = "unfulfilled" /\ order[o].received = None
             /\ order[o].requisition = NoRow
  <2>1. o[1] = 0 /\ o[2] \in Suppliers /\ Named(Opened[o[2]]) # {} /\ o = <<0, o[2]>>
        /\ order[o] = [number |-> Cardinality(Before(o[2])) + 1, status |-> "unfulfilled",
                       ordered |-> Opened[o[2]], received |-> None, requisition |-> NoRow]
    BY <1>2 DEF Init, Orders
  <2>2. Opened[o[2]] \in Lines /\ Cardinality(Before(o[2])) + 1 \in Nat \ {0}
    BY <1>1, <2>1
  <2>3. order[o] \in OrderRow
    BY <1>0, <2>1, <2>2 DEF OrderRow
  <2>4. QED
    BY <2>1, <2>3
<1>3. order \in [Orders -> OrderRow \cup {NoRow}]
  <2>1. order = [o \in Orders |-> order[o]]
    BY DEF Init
  <2>2. QED
    BY <1>2, <2>1
<1>4. reorder \in [Ids -> ReorderRow \cup {NoRow}]
      /\ \A n \in Reorders : reorder[n].status = "pending"
  <2>1. Least(Hired) \in Suppliers /\ Least(Items \ Sellable) \in Items
    BY LeastIn
  <2> DEFINE row == [supplier |-> Least(Hired), item |-> Least(Items \ Sellable),
                     quantity |-> 1, status |-> "pending"]
  <2>2. row \in ReorderRow /\ row.status = "pending"
    BY <2>1 DEF ReorderRow
  <2>3. reorder = [n \in Ids |-> IF n # 0 THEN NoRow ELSE row]
    BY DEF Init
  <2> HIDE DEF row
  <2>4. QED
    BY <2>2, <2>3 DEF Reorders
<1>5. BookTypes
  <2>1. supplier \in [Suppliers -> {"none", "active", "deleted"}] /\ phone \subseteq Suppliers
        /\ price \subseteq Suppliers \X Items /\ message \in [Orders -> Nat]
        /\ inbox \subseteq Ids \X (Orders \cup {NoRow}) /\ link \in Link \cup {NoRow}
        /\ receipt \in [Ids -> ReceiptRow \cup {NoRow}]
        /\ requisition \in [Ids -> RequisitionRow \cup {NoRow}]
    BY DEF Init
  <2>2. level \in [Items -> Int] /\ posted \in [Refs -> Lines]
    BY <1>0 DEF Init, None
  <2>3. QED
    BY <1>3, <1>4, <2>1, <2>2 DEF BookTypes
<1>6. OwnTypes
  <2>1. base \in [Sessions -> [Items -> Int]] /\ made \in [Sessions -> [Suppliers -> Nat]]
    BY <1>0 DEF Init, None
  <2>2. jobs \in Ids /\ aborts \in 0..MaxAborts /\ ticket \in [Sessions -> Ids]
    BY <1>0 DEF Init
  <2>3. QED
    BY <2>1, <2>2 DEF Init, OwnTypes, Places
<1>7. TypeOK
    BY <1>5, <1>6, TypesAre
<1>8. Receipts = {} /\ Submitted = {}
    BY DEF Init, Receipts, Submitted
<1>9. NumbersUnique /\ OneRequisitionPerKey
  <2>1. ASSUME NEW o \in Placed, NEW p \in Placed, order[o].number = order[p].number
        PROVE  o = p
    <3>1. o \in Orders /\ p \in Orders /\ order[o] # NoRow /\ order[p] # NoRow
      BY DEF Placed
    <3>2. o[2] \in Suppliers /\ p[2] \in Suppliers /\ o = <<0, o[2]>> /\ p = <<0, p[2]>>
          /\ Named(Opened[o[2]]) # {} /\ Named(Opened[p[2]]) # {}
          /\ order[o].number = Cardinality(Before(o[2])) + 1
          /\ order[p].number = Cardinality(Before(p[2])) + 1
      BY <1>2, <3>1
    <3>3. Cardinality(Before(o[2])) = Cardinality(Before(p[2]))
      <4>1. Cardinality(Before(o[2])) \in Nat /\ Cardinality(Before(p[2])) \in Nat
        BY <1>1, <3>2
      <4>2. order[o].number = Cardinality(Before(o[2])) + 1
            /\ order[p].number = Cardinality(Before(p[2])) + 1
        BY <1>2, <3>1
      <4> DEFINE a == Cardinality(Before(o[2]))
                 b == Cardinality(Before(p[2]))
      <4>3. a \in Nat /\ b \in Nat /\ a + 1 = b + 1
        BY <2>1, <4>1, <4>2
      <4> HIDE DEF a, b
      <4>4. a = b
        BY <4>3
      <4>5. QED
        BY <4>4 DEF a, b
    <3>4. o[2] = p[2]
      BY <3>2, <3>3, InitNumbers
    <3>5. QED
      BY <3>2, <3>4
  <2>2. QED
    BY <1>8, <2>1 DEF NumbersUnique, OneRequisitionPerKey
<1>10. ReceiptMovesStock
    BY <1>4, <1>8 DEF ReceiptMovesStock, Init, Refs
<1>11. SplitIsWhole
  <2>1. \A o \in Placed : order[o].requisition = NoRow
    BY <1>2 DEF Placed
  <2>2. QED
    BY <1>8, <2>1 DEF SplitIsWhole
<1>12. BooksInv
  <2>1. ASSUME NEW o \in Placed, NEW i \in Items
        PROVE  /\ order[o].received[i] <= Brought(o, i)
               /\ order[o].status = "fulfilled" => order[o].ordered[i] <= Brought(o, i)
    <3>1. Brought(o, i) \in Nat
      BY <1>7, BroughtType
    <3>2. o \in Orders /\ order[o] # NoRow
      BY DEF Placed
    <3>3. order[o].received = None /\ order[o].status = "unfulfilled"
      BY <1>2, <3>2
    <3>4. QED
      BY <3>1, <3>3 DEF None
  <2>2. ASSUME NEW n \in Ids, n > jobs
        PROVE  /\ \A s \in Suppliers : order[<<n, s>>] = NoRow
               /\ receipt[n] = NoRow /\ requisition[n] = NoRow
    BY <2>2 DEF Init, Orders, Ids
  <2>3. requisition[0] = NoRow
    BY <1>0 DEF Init
  <2>4. QED
    BY <1>8, <2>1, <2>2, <2>3 DEF BooksInv
<1>13. ASSUME NEW x \in Sessions PROVE Own(x) /\ Apart(x)
  <2>1. pc[x] = "idle" /\ job[x] = NoJob /\ ticket[x] = 0 /\ \A s \in Suppliers : made[x][s] = 0
    BY DEF Init, Empty
  <2>2. ~Busy(x) /\ ~Buys(x) /\ ~Receiving(x) /\ ~Filed(x) /\ Made(x) = {}
    BY <2>1 DEF Busy, Buys, Receiving, Filed, Made
  <2>3. Split(x) /\ Counted(x) /\ Read(x)
    BY <2>1, <2>2 DEF Split, Counted, Read
  <2>4. QED
    BY <2>1, <2>2, <2>3 DEF Own, Apart
<1>14. QED
    BY <1>7, <1>9, <1>10, <1>11, <1>12, <1>13 DEF PurchasingInv, TablesInv

\* Every step keeps the invariant.
LEMMA NextKeeps == PurchasingInv /\ [Next]_vars => PurchasingInv'
<1> SUFFICES ASSUME PurchasingInv, [Next]_vars PROVE PurchasingInv'
    OBVIOUS
<1>1. CASE UNCHANGED vars
  <2>1. UNCHANGED <<book, lock, pc, job, ticket, number, want, made, told, seen, base, jobs, aborts>>
    BY <1>1 DEF vars, own
  <2>2. TypeOK' /\ jobs \in Nat /\ jobs' \in Nat /\ jobs <= jobs'
    BY <2>1 DEF PurchasingInv, TypeOK, book, directory, papers, chat, stock, Ids
  <2>3. TablesInv'
    BY <2>1, <2>2, PapersKeep DEF PurchasingInv, TablesInv, book, papers, stock
  <2>4. ASSUME NEW x \in Sessions PROVE Own(x)' /\ Apart(x)'
    <3>1. Own(x) /\ Apart(x)
      BY DEF PurchasingInv
    <3>2. Route(x)' = Route(x) /\ Fresh(x)' = Fresh(x) /\ Names(x)' = Names(x)
          /\ Split(x)' = Split(x) /\ Counted(x)' = Counted(x) /\ Read(x)' = Read(x)
          /\ Busy(x)' = Busy(x)
      BY <2>1 DEF Route, Fresh, Names, Split, Counted, Read, Busy, Buys, Made, Asked, Cart,
         Receiving, Brought, Bringing, Placed, Reorders, Submitted, Receipts, book, papers, chat
    <3>3. Own(x)'
      BY <2>1, <3>1, <3>2 DEF Own
    <3>4. Apart(x)'
      BY <2>1, <3>1 DEF Apart, Busy, Receiving, Filed, Taken, TakenReceipt, KeyTaken, WithKey,
         Placed, Receipts, Submitted, book, papers
    <3>5. QED
      BY <3>3, <3>4
  <2>5. QED
    BY <2>2, <2>3, <2>4 DEF PurchasingInv
<1>2. CASE Rest
    BY <1>1, <1>2 DEF Rest
<1>3. ASSUME NEW x \in Sessions,
             (\E j \in Jobs : Arrive(x, j)) \/ Step(x) \/ Abort(x) \/ Done(x)
      PROVE  PurchasingInv'
  <2>1. CASE \E j \in Jobs : Arrive(x, j)
    BY <2>1, ArriveKeeps
  <2>2. CASE Abort(x)
    BY <2>2, AbortKeeps
  <2>3. CASE Done(x)
    BY <2>3, DoneKeeps
  <2>4. CASE Deny(x) \/ CreateSupplier(x) \/ UpdateSupplier(x) \/ DeleteSupplier(x)
             \/ UpsertSupplierItem(x)
    BY <2>4, DenyKeeps, DirectoryKeeps
  <2>5. CASE Count(x) \/ InsertOrder(x)
    BY <2>5, CountKeeps, InsertOrderKeeps
  <2>6. CASE CreateOrder(x) \/ SubmitRequisition(x)
    BY <2>6, LoadOrderKeeps, LoadSubmitKeeps, FileKeeps, CommitsKeep
    DEF CreateOrder, SubmitRequisition
  <2>7. CASE CancelOrder(x) \/ BulkAssign(x) \/ RegenerateAllPayloads(x)
    BY <2>7, CancelKeeps, AssignKeeps, RegenerateKeeps
  <2>8. CASE ReceiveOrder(x)
    BY <2>8, LoadReceiveKeeps, InsertReceiptKeeps, CommitReceiveKeeps DEF ReceiveOrder
  <2>9. CASE ReadLevel(x) \/ LockItem(x)
    BY <2>9, StockKeeps
  <2>10. CASE CreateReorder(x) \/ ReceiveReorder(x) \/ CancelReorder(x)
    BY <2>10, CreateReorderKeeps, TakeKeeps, CancelReorderKeeps
  <2>11. CASE ConnectWhatsApp(x) \/ CommitDisconnect(x) \/ ReceiveWebhook(x)
    BY <2>11, LinkKeeps, WebhookKeeps
  <2>12. QED
    BY <1>3, <2>1, <2>2, <2>3, <2>4, <2>5, <2>6, <2>7, <2>8, <2>9, <2>10, <2>11 DEF Step
<1>4. QED
    BY <1>1, <1>2, <1>3 DEF Next

\* What an order's receipts must have brought holds of a requisition's whole cart.
LEMMA FulfilledHolds == PurchasingInv => FulfilledIsReceived
<1> SUFFICES ASSUME PurchasingInv PROVE FulfilledIsReceived
    OBVIOUS
<1>0. TypeOK /\ TablesInv
    BY DEF PurchasingInv
<1>1. ASSUME NEW o \in Placed, order[o].status = "fulfilled", NEW i \in Items
      PROVE  Brought(o, i) >= order[o].ordered[i]
  <2>1. order[o].ordered[i] <= Brought(o, i) /\ Brought(o, i) \in Nat
    BY <1>0, <1>1, BroughtType DEF TablesInv, BooksInv
  <2>2. order[o].ordered[i] \in Nat
    BY <1>0 DEF TypeOK, Placed, OrderRow, Lines
  <2>3. QED
    BY <2>1, <2>2
<1>2. ASSUME NEW n \in Submitted, Rollup(n) = "Fulfilled", NEW s \in Suppliers, NEW i \in Items
      PROVE  Brought(<<n, s>>, i) >= requisition[n].cart[s][i]
  <2>1. n \in Ids /\ requisition[n] \in RequisitionRow /\ Brought(<<n, s>>, i) \in Nat
    BY <1>0, BroughtType DEF Submitted, TypeOK
  <2>2. requisition[n].cart[s][i] \in Nat
    BY <2>1 DEF RequisitionRow, Lines
  <2>3. CASE <<n, s>> \in Placed
    <3>1. order[<<n, s>>].requisition = n /\ order[<<n, s>>].ordered = requisition[n].cart[s]
      BY <1>0, <2>1, <2>3 DEF TablesInv, BooksInv, SplitIsWhole
    <3>2. order[<<n, s>>].status = "fulfilled"
      BY <1>2, <2>3, <3>1 DEF Rollup, OrdersOf
    <3>3. QED
      BY <1>1, <2>3, <3>1, <3>2
  <2>4. CASE <<n, s>> \notin Placed
    <3>1. Named(requisition[n].cart[s]) = {}
      BY <1>0, <2>1, <2>4 DEF TablesInv, SplitIsWhole, Asked
    <3>2. requisition[n].cart[s][i] = 0
      BY <3>1 DEF Named
    <3>3. QED
      BY <2>1, <3>2
  <2>5. QED
    BY <2>3, <2>4
<1>3. QED
    BY <1>1, <1>2 DEF FulfilledIsReceived

\* The inductive invariant: what is written and not committed is one session's, and
\* what is committed is whole.
THEOREM PurchasingInvariant == Spec => []PurchasingInv
<1>1. QED
    BY InitHolds, NextKeeps, PTL DEF Spec

\* Two sessions never commit one number or one key.
THEOREM TablesAreConsistent == Spec => []TablesConsistent
<1>1. PurchasingInv => TablesConsistent
    BY DEF PurchasingInv, TablesInv, TablesConsistent
<1>2. QED
    BY <1>1, PurchasingInvariant, PTL

\* A receipt and its stock are committed together, a reorder and its stock too.
THEOREM ReceiptsMoveStock == Spec => []ReceiptMovesStock
<1>1. PurchasingInv => ReceiptMovesStock
    BY DEF PurchasingInv, TablesInv
<1>2. QED
    BY <1>1, PurchasingInvariant, PTL

\* A requisition has an order for each supplier of its cart, and no other.
THEOREM RequisitionsAreSplitWhole == Spec => []SplitIsWhole
<1>1. PurchasingInv => SplitIsWhole
    BY DEF PurchasingInv, TablesInv
<1>2. QED
    BY <1>1, PurchasingInvariant, PTL

\* What is shown as fulfilled was received.
THEOREM FulfilledWasReceived == Spec => []FulfilledIsReceived
<1>1. QED
    BY FulfilledHolds, PurchasingInvariant, PTL
=============================================================================
