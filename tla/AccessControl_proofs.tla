------------------------ MODULE AccessControl_proofs ------------------------
(***************************************************************************)
(* Proofs about AccessControl for any number of handlers, users and requests,  *)
(* and any tables and tokens of the start.  The argument: what a handler has    *)
(* checked without a lock and relies on at its commit is something that no      *)
(* other request can take back.  A business stays, a store stays its           *)
(* business's, a role keeps its kind and a business's role its business, a       *)
(* protected role is open to nobody, and a row that is gone does not return.     *)
(* For the rest there are the keys a handler holds between its flush and its    *)
(* commit, and the number of the request, which names the rows it adds.          *)
(***************************************************************************)
EXTENDS AccessControl, TLAPS

Active(x) == pc[x] \in {"load", "insert", "commit"} \cup Flushed

\* No row has been named by a request that is under way, or has not come yet.
Unused(n) ==
    \A k \in 1..5 :
        db.role[<<n, k>>] = NoRow /\ db.store[<<n, k>>] = NoRow /\ db.group[<<n, k>>] = NoRow

\* The request has the role it names from the tables, or is to make it.
Naming(x) == job[x].op \in RoleOps \/ (job[x].op = "seed" /\ pc[x] = "commit")

\* A role that a request names is of the kind the request works on, if it is
\* still there.
Picked(x) ==
    Naming(x) =>
        /\ pick[x] \in Ids /\ pick[x][1] <= jobs
        /\ pick[x] \in RoleIds => KindOf(pick[x]) = KindFor(job[x])

\* What the checks have found and the commit relies on.
Relies(x) ==
    LET j == job[x] IN
    /\ j.op \in RoleOps /\ pick[x] \in RoleIds => ~db.role[pick[x]].protected
    /\ j.op = "grant" => j.code \in Grantable
    /\ j.op \in {"newrole", "editrole"} => j.on \in {"business", "group", "platform"}
    /\ j.op \in {"newrole", "editrole"} /\ j.on = "business" => db.business[j.place] # NoRow
    /\ j.op = "editrole" /\ j.on = "business" /\ pick[x] \in RoleIds =>
          db.role[pick[x]].of = j.place
    /\ j.op = "assign" /\ j.on = "store" /\ pick[x] \in RoleIds =>
          db.role[pick[x]].of = db.store[j.place].of
    /\ j.op = "assign" => j.on \in Kinds \/ db.people[j.user] # NoRow
    /\ j.op = "editbusiness" => db.business[j.place] # NoRow
    /\ j.op = "setstore" => j.on = "store" /\ db.setting[j.place] # NoRow
    /\ j.op = "seed" => j.on \in {"group", "platform"}
Checked(x) ==
    /\ pc[x] = "commit" => Relies(x)
    /\ pc[x] \in {"insert", "placed"} /\ job[x].op = "newstore" =>
          db.business[job[x].place] # NoRow

\* The keys of what is flushed are not in the tables.
Flushes(x) ==
    /\ pc[x] = "cloned" => job[x].op = "business" /\ db.business[job[x].actor] = NoRow
    /\ pc[x] = "placed" => job[x].op = "newstore" /\ ~StoreNamed(job[x].place, job[x].name)

Own(x) ==
    Active(x) =>
        /\ job[x] \in JobType /\ ticket[x] \in 1..jobs /\ Unused(ticket[x])
        /\ job[x].op # "switch" => claims[job[x].actor] # NoRow
        /\ Known(job[x]) /\ Picked(x) /\ Checked(x) /\ Flushes(x)

\* Requests under way have numbers and keys of their own, and no role they name
\* is to be made by another.
Apart(x, y) ==
    Active(x) /\ Active(y) /\ x # y =>
        /\ ticket[x] # ticket[y]
        /\ Naming(x) => pick[x][1] # ticket[y]
        /\ pc[x] = "cloned" /\ pc[y] = "cloned" => job[x].actor # job[y].actor
        /\ pc[x] = "placed" /\ pc[y] = "placed" =>
              job[x].place # job[y].place \/ job[x].name # job[y].name

TablesInv ==
    /\ BusinessIsWhole /\ RolesExist /\ NamesUnique /\ HeldWhereItBelongs /\ OnlyOwnerHoldsAll
    /\ \A n \in 0..MaxJobs : n > jobs => Unused(n)

AccessInv ==
    /\ TypeOK /\ TablesInv
    /\ \A x \in Handlers : Own(x)
    /\ \A x, y \in Handlers : Apart(x, y)

\* What a step leaves as it is: the other requests.
Alone(x) ==
    \A y \in Handlers \ {x} :
        /\ pc'[y] = pc[y] /\ job'[y] = job[y] /\ ticket'[y] = ticket[y]
        /\ pick'[y] = pick[y] /\ base'[y] = base[y]

\* And what they rely on.
Kindly(x) ==
    /\ \A u \in Users :
          /\ db.business[u] # NoRow => db'.business[u] # NoRow
          /\ db.people[u] # NoRow => db'.people[u] # NoRow
          /\ claims[u] # NoRow => claims'[u] # NoRow
    /\ \A s \in StoreIds : db'.store[s] # NoRow /\ db'.store[s].of = db.store[s].of
    /\ \A s \in Ids : db.setting[s] # NoRow => db'.setting[s] # NoRow
    /\ \A r \in Ids : db'.role[r] # NoRow /\ r[1] # ticket[x] =>
          /\ r \in RoleIds /\ KindOf(r)' = KindOf(r)
          /\ db'.role[r].protected = db.role[r].protected
          /\ db.role[r].of \in Users => db'.role[r].of = db.role[r].of
    /\ \A n \in 0..MaxJobs : Unused(n) /\ n # ticket[x] => Unused(n)'
    /\ \A y \in Handlers \ {x} : Active(y) =>
          /\ pc[y] = "cloned" => db'.business[job[y].actor] = NoRow
          /\ pc[y] = "placed" => ~StoreNamed(job[y].place, job[y].name)'

\* The owner's role, its permissions and its holder are as they were.
Fixed ==
    \A r \in RoleIds : db.role[r].protected =>
        /\ db'.role[r] = db.role[r]
        /\ {c \in Codes : <<r, c>> \in db'.permits} = CodesOf(r)
        /\ {h \in db'.holds : h[3] = r} = HoldersOf(r)

----------------------------------------------------------------------------
(* Types.                                                                   *)

\* The bounds.
LEMMA Bounds == MaxJobs \in Nat /\ MaxAborts \in Nat
    BY AccessAssumption

\* The tables, one by one.
LEMMA TableTypes ==
    ASSUME db \in Tables
    PROVE  /\ db.people \in [Users -> Kinds \cup {NoRow}]
           /\ db.business \in [Users -> Statuses \cup {NoRow}]
           /\ db.role \in [Ids -> RoleRow \cup {NoRow}]
           /\ db.permits \in SUBSET (Ids \X Codes)
           /\ db.holds \in SUBSET (Users \X (Ids \cup {Anywhere}) \X Ids)
           /\ db.store \in [Ids -> StoreRow \cup {NoRow}]
           /\ db.setting \in [Ids -> Settings \cup {NoRow}]
           /\ db.group \in [Ids -> Names \cup {NoRow}]
           /\ db.member \in SUBSET (Users \X Ids)
           /\ db.templates \in SUBSET (DOMAIN Templates)
    BY DEF Tables

\* What a row of a role, a store or a group is made of.
LEMMA RowTypes ==
    ASSUME db \in Tables, NEW r \in Ids
    PROVE  /\ r \in RoleIds <=> db.role[r] # NoRow
           /\ r \in StoreIds <=> db.store[r] # NoRow
           /\ r \in GroupIds <=> db.group[r] # NoRow
           /\ r \in RoleIds => /\ db.role[r] \in RoleRow
                               /\ db.role[r].of \in Users \cup Ids \cup {Platform}
                               /\ db.role[r].protected \in BOOLEAN /\ db.role[r].name \in Names
           /\ r \in StoreIds => /\ db.store[r] \in StoreRow
                                /\ db.store[r].of \in Users /\ db.store[r].name \in Names
           /\ r \in GroupIds => db.group[r] \in Names
<1>1. db.role[r] \in RoleRow \cup {NoRow} /\ db.store[r] \in StoreRow \cup {NoRow}
      /\ db.group[r] \in Names \cup {NoRow}
    BY TableTypes
<1>2. /\ r \in RoleIds <=> db.role[r] # NoRow
      /\ r \in StoreIds <=> db.store[r] # NoRow
      /\ r \in GroupIds <=> db.group[r] # NoRow
    BY DEF RoleIds, StoreIds, GroupIds, Rows
<1>3. QED
    BY <1>1, <1>2 DEF RoleRow, StoreRow

\* The fields of a request.
LEMMA JobIs ==
    ASSUME NEW j \in JobType
    PROVE  /\ j.op \in Operations /\ j.on \in Kinds \cup {"group"}
           /\ j.actor \in Users /\ j.user \in Users /\ j.name \in Names /\ j.code \in Codes
           /\ j.place \in Users \cup Ids \cup {Platform}
           /\ j.on = "business" => j.place \in Users
           /\ j.on = "store" => j.op \notin {"newrole", "editrole", "droprole", "grant", "ungrant"}
           /\ j.on = "group" => j.op # "recast" /\ j.place \in Ids
           /\ j.on = "platform" /\ j.op \in {"newrole", "editrole"} => j.place = Platform
           /\ j.on = "driver" => j.op \notin RoleOps \cup {"newrole"}
           /\ j.op \in {"newstore", "editbusiness"} => j.place \in Users
           /\ j.op = "join" => j.place \in Ids
           /\ j.op = "seed" => j.code \in Grantable
    BY DEF JobType, Request

\* A request under way.
LEMMA UnderWay ==
    ASSUME AccessInv, NEW x \in Handlers, Active(x)
    PROVE  /\ job[x] \in JobType /\ ticket[x] \in 1..jobs /\ ticket[x] \in 0..MaxJobs
           /\ Unused(ticket[x]) /\ Known(job[x]) /\ Picked(x) /\ Checked(x) /\ Flushes(x)
           /\ job[x].op # "switch" => claims[job[x].actor] # NoRow
           /\ \A k \in 1..5 : <<ticket[x], k>> \in Ids
           /\ Row(x) \in Ids /\ Row(x) \notin RoleIds \cup StoreIds \cup GroupIds
<1>1. Own(x) /\ ticket[x] \in 0..MaxJobs
    BY DEF AccessInv, TypeOK
<1>2. \A k \in 1..5 : <<ticket[x], k>> \in Ids
    BY <1>1 DEF Ids
<1>3. Row(x) \in Ids
    BY <1>2 DEF Row
<1>4. Row(x) \notin RoleIds \cup StoreIds \cup GroupIds
    BY <1>1, <1>3 DEF Own, Unused, Row, RoleIds, StoreIds, GroupIds, Rows
<1>5. QED
    BY <1>1, <1>2, <1>3, <1>4 DEF Own

----------------------------------------------------------------------------
(* The other requests.                                                      *)

\* A step that leaves what another request relies on leaves its part of the
\* invariant.
LEMMA OthersKeep ==
    ASSUME AccessInv, NEW x \in Handlers, Active(x), Alone(x), Kindly(x), jobs' = jobs,
           db' \in Tables, NEW y \in Handlers \ {x}
    PROVE  Own(y)'
<1> SUFFICES ASSUME Active(y)' PROVE Own(y)'
    BY DEF Own
<1>1. /\ pc'[y] = pc[y] /\ job'[y] = job[y] /\ ticket'[y] = ticket[y]
      /\ pick'[y] = pick[y] /\ base'[y] = base[y]
    BY DEF Alone
<1>2. Active(y)
    BY <1>1 DEF Active
<1>3. Apart(y, x)
    BY DEF AccessInv
<1>4. /\ job[y] \in JobType /\ ticket[y] \in 1..jobs /\ ticket[y] \in 0..MaxJobs
      /\ Unused(ticket[y]) /\ Known(job[y]) /\ Picked(y) /\ Checked(y) /\ Flushes(y)
      /\ job[y].op # "switch" => claims[job[y].actor] # NoRow
    BY <1>2, UnderWay
<1>5. db \in Tables
    BY DEF AccessInv, TypeOK
<1>a. PICK j : j = job[y]
    OBVIOUS
<1>b. PICK p : p = pick[y]
    OBVIOUS
<1> USE <1>a, <1>b
<1>6. /\ j.op \in Operations /\ j.on \in Kinds \cup {"group"} /\ j.actor \in Users
      /\ j.user \in Users /\ j.place \in Users \cup Ids \cup {Platform}
      /\ j.on = "business" => j.place \in Users
      /\ j.op \in {"newstore", "editbusiness"} => j.place \in Users
    BY <1>4, JobIs
<1>7. PICK n \in 0..MaxJobs : n = ticket[y]
    BY <1>4
<1>8. Unused(n)'
    BY <1>2, <1>3, <1>4, <1>7 DEF Kindly, Apart
<1>9. Unused(ticket[y])'
    BY <1>1, <1>7, <1>8 DEF Unused
<1>10. j.op # "switch" => claims'[j.actor] # NoRow
    BY <1>4, <1>6 DEF Kindly
<1>11. Known(j)'
  <2>1. \A s \in StoreIds : s \in StoreIds'
    BY DEF Kindly, StoreIds, Rows
  <2>2. QED
    BY <1>1, <1>4, <2>1 DEF Known
<1>12. Naming(y)' <=> Naming(y)
    BY <1>1 DEF Naming
<1>13. ASSUME Naming(y), p \in RoleIds'
       PROVE  /\ p \in RoleIds /\ KindOf(p)' = KindOf(p)
              /\ db'.role[p].protected = db.role[p].protected
              /\ db.role[p].of \in Users => db'.role[p].of = db.role[p].of
  <2>1. p \in Ids /\ p[1] # ticket[x]
    BY <1>2, <1>3, <1>4, <1>13 DEF Apart, Picked
  <2>2. db'.role[p] # NoRow
    BY <1>1, <1>13 DEF RoleIds, Rows
  <2>3. QED
    BY <2>1, <2>2 DEF Kindly
<1>14. Picked(y)'
  <2>2. Naming(y) /\ p \in RoleIds' => KindOf(p)' = KindFor(j)
    BY <1>4, <1>13 DEF Picked, KindFor
  <2>3. Naming(y) => p \in Ids /\ p[1] <= jobs
    BY <1>4 DEF Picked
  <2>4. pick'[y] = p /\ KindFor(job[y])' = KindFor(j)
    BY <1>1 DEF KindFor
  <2>5. Naming(y) => (pick'[y] \in RoleIds' => KindOf(pick[y])' = KindFor(job[y])')
    BY <2>2, <2>4 DEF KindOf
  <2>6. QED
    BY <1>12, <2>3, <2>4, <2>5 DEF Picked
<1>15. ASSUME pc[y] = "commit" PROVE Relies(y)'
  <2>1. Relies(y)
    BY <1>4, <1>15 DEF Checked
  <2>2. j.op \in RoleOps => Naming(y)
    BY DEF Naming
  <2>3. j.op \in RoleOps /\ p \in RoleIds' => ~db'.role[p].protected
    BY <1>13, <2>1, <2>2 DEF Relies
  <2>4. j.op \in {"newrole", "editrole"} /\ j.on = "business" => db'.business[j.place] # NoRow
    BY <1>6, <2>1 DEF Relies, Kindly
  <2>5. j.op = "editrole" /\ j.on = "business" /\ p \in RoleIds' => db'.role[p].of = j.place
    BY <1>6, <1>13, <2>1, <2>2 DEF Relies, RoleOps
  <2>6. j.op = "assign" /\ j.on = "store" /\ p \in RoleIds' => db'.role[p].of = db'.store[j.place].of
    <3>1. SUFFICES ASSUME j.op = "assign", j.on = "store", p \in RoleIds'
                   PROVE  db'.role[p].of = db'.store[j.place].of
      OBVIOUS
    <3>2. j.place \in StoreIds
      BY <1>4, <3>1 DEF Known, StoreOps
    <3>3. db.store[j.place].of \in Users
      BY <1>5, <3>2, RowTypes DEF StoreIds, Rows
    <3>4. db'.store[j.place].of = db.store[j.place].of
      BY <3>2 DEF Kindly
    <3>5. p \in RoleIds /\ db.role[p].of = db.store[j.place].of
      BY <1>13, <2>1, <2>2, <3>1 DEF Relies, RoleOps
    <3>6. db'.role[p].of = db.role[p].of
      BY <1>13, <2>2, <3>1, <3>3, <3>5 DEF RoleOps
    <3>7. QED
      BY <3>4, <3>5, <3>6
  <2>7. j.op = "assign" => j.on \in Kinds \/ db'.people[j.user] # NoRow
    BY <1>6, <2>1 DEF Relies, Kindly
  <2>8. j.op = "editbusiness" => db'.business[j.place] # NoRow
    BY <1>6, <2>1 DEF Relies, Kindly
  <2>9. j.op = "setstore" => j.on = "store" /\ db'.setting[j.place] # NoRow
    <3>1. SUFFICES ASSUME j.op = "setstore" PROVE j.on = "store" /\ db'.setting[j.place] # NoRow
      OBVIOUS
    <3>2. j.on = "store" /\ db.setting[j.place] # NoRow
      BY <2>1, <3>1 DEF Relies
    <3>3. j.place \in Ids
      BY <1>4, <3>1, <3>2 DEF Known, StoreOps, StoreIds, Rows
    <3>4. QED
      BY <3>2, <3>3 DEF Kindly
  <2>10. /\ j.op = "grant" => j.code \in Grantable
         /\ j.op \in {"newrole", "editrole"} => j.on \in {"business", "group", "platform"}
         /\ j.op = "seed" => j.on \in {"group", "platform"}
    BY <2>1 DEF Relies
  <2>11. job'[y] = j /\ pick'[y] = p
    BY <1>1
  <2>12. QED
    BY <2>3, <2>4, <2>5, <2>6, <2>7, <2>8, <2>9, <2>10, <2>11 DEF Relies
<1>16. Checked(y)'
  <2>1. pc[y] \in {"insert", "placed"} /\ j.op = "newstore" => db'.business[j.place] # NoRow
    BY <1>4, <1>6 DEF Checked, Kindly
  <2>2. QED
    BY <1>1, <1>15, <2>1 DEF Checked
<1>17. Flushes(y)'
  <2>1. pc[y] = "cloned" => db'.business[j.actor] = NoRow
    BY <1>2 DEF Kindly
  <2>3. pc[y] = "placed" => ~StoreNamed(job[y].place, job[y].name)'
    BY <1>2 DEF Kindly
  <2>4. /\ pc[y] = "cloned" => j.op = "business"
        /\ pc[y] = "placed" => j.op = "newstore"
    BY <1>4 DEF Flushes
  <2>5. QED
    BY <1>1, <2>1, <2>3, <2>4 DEF Flushes
<1>18. Known(job[y])'
    BY <1>1, <1>11 DEF Known
<1>19. job'[y] \in JobType /\ ticket'[y] \in 1..jobs' /\ (job'[y].op # "switch" => claims'[job'[y].actor] # NoRow)
    BY <1>1, <1>4, <1>10
<1>20. QED
    BY <1>9, <1>14, <1>16, <1>17, <1>18, <1>19 DEF Own

\* A step that finishes a request, and leaves the tables right, keeps the
\* invariant.
LEMMA FinishKeeps ==
    ASSUME AccessInv, NEW x \in Handlers, Active(x), NEW answer \in Answers, Finish(x, answer),
           jobs' = jobs, aborts' \in 0..MaxAborts,
           db' \in Tables, claims' \in [Users -> Token \cup {NoRow}], TablesInv', Kindly(x)
    PROVE  AccessInv'
<1>1. /\ pc' = [pc EXCEPT ![x] = answer] /\ job' = [job EXCEPT ![x] = NoJob]
      /\ ticket' = [ticket EXCEPT ![x] = 0]
      /\ pick' = [pick EXCEPT ![x] = NoRow] /\ base' = [base EXCEPT ![x] = NoRow]
    BY DEF Finish
<1>2. /\ pc \in [Handlers -> {"idle", "load", "insert", "commit"} \cup Flushed \cup Answers]
      /\ job \in [Handlers -> JobType \cup {NoJob}] /\ ticket \in [Handlers -> 0..MaxJobs]
      /\ pick \in [Handlers -> Ids \cup {NoRow}] /\ base \in [Handlers -> Ids \cup {NoRow}]
      /\ jobs \in 0..MaxJobs /\ aborts \in 0..MaxAborts
    BY DEF AccessInv, TypeOK
<1>3. Alone(x)
    BY <1>1, <1>2 DEF Alone
<1>4. pc'[x] = answer
    BY <1>1, <1>2
<1>5. ~Active(x)'
    BY <1>4 DEF Active, Flushed, Answers
<1>6. \A y \in Handlers : Own(y)'
  <2>1. ASSUME NEW y \in Handlers \ {x} PROVE Own(y)'
    BY <1>3, OthersKeep
  <2>2. Own(x)'
    BY <1>5 DEF Own
  <2>3. QED
    BY <2>1, <2>2
<1>7. ASSUME NEW y \in Handlers, NEW z \in Handlers PROVE Apart(y, z)'
  <2>1. CASE y = x \/ z = x
    BY <1>5, <2>1 DEF Apart
  <2>2. CASE y # x /\ z # x
    <3>1. Apart(y, z)
      BY DEF AccessInv
    <3>2. QED
      BY <1>3, <2>2, <3>1 DEF Alone, Apart, Active, Naming
  <2>3. QED
    BY <2>1, <2>2
<1>8. TypeOK'
  <2>1. 0 \in 0..MaxJobs
    BY Bounds
  <2>2. QED
    BY <1>1, <1>2, <2>1 DEF TypeOK
<1>9. QED
    BY <1>6, <1>7, <1>8 DEF AccessInv

\* What a step does not touch is as kind to the others as it can be.
LEMMA KindlyStays ==
    ASSUME AccessInv, NEW x \in Handlers, Alone(x),
           db'.role = db.role, db'.store = db.store, db'.setting = db.setting, db'.group = db.group,
           \A u \in Users : db.business[u] # NoRow <=> db'.business[u] # NoRow,
           \A u \in Users : db.people[u] # NoRow => db'.people[u] # NoRow,
           \A u \in Users : claims[u] # NoRow => claims'[u] # NoRow
    PROVE  Kindly(x)
<1>1. StoreIds' = StoreIds /\ RoleIds' = RoleIds
    BY DEF StoreIds, RoleIds, Rows
<1>2. \A s \in StoreIds : db'.store[s] # NoRow /\ db'.store[s].of = db.store[s].of
    BY DEF StoreIds, Rows
<1>3. \A r \in Ids : db'.role[r] # NoRow =>
        r \in RoleIds /\ KindOf(r)' = KindOf(r) /\ db'.role[r] = db.role[r]
    BY DEF KindOf, RoleIds, Rows
<1>4. \A n \in 0..MaxJobs : Unused(n)' <=> Unused(n)
    BY DEF Unused
<1>5. ASSUME NEW y \in Handlers \ {x}, Active(y)
      PROVE  /\ pc[y] = "cloned" => db'.business[job[y].actor] = NoRow
             /\ pc[y] = "placed" => ~StoreNamed(job[y].place, job[y].name)'
  <2>1. job[y] \in JobType /\ Flushes(y)
    BY <1>5, UnderWay
  <2>2. job[y].actor \in Users
    BY <2>1, JobIs
  <2>3. job'[y] = job[y]
    BY DEF Alone
  <2>4. StoreNamed(job[y].place, job[y].name)' <=> StoreNamed(job[y].place, job[y].name)
    BY <1>1, <2>3 DEF StoreNamed
  <2>5. QED
    BY <2>1, <2>2, <2>4 DEF Flushes
<1>6. QED
    BY <1>2, <1>3, <1>4, <1>5 DEF Kindly

\* So are the tables themselves.
LEMMA TablesStay ==
    ASSUME AccessInv, db' = db, claims' = claims, jobs' = jobs
    PROVE  TablesInv' /\ Fixed /\ db' \in Tables /\ claims' \in [Users -> Token \cup {NoRow}]
<1>1. RoleIds' = RoleIds /\ StoreIds' = StoreIds /\ GroupIds' = GroupIds
    BY DEF RoleIds, StoreIds, GroupIds, Rows
<1>2. \A n \in 0..MaxJobs : Unused(n)' <=> Unused(n)
    BY DEF Unused
<1>3. BusinessIsWhole'
    BY <1>1 DEF AccessInv, TablesInv, BusinessIsWhole, HeldAt, CodesOf, Rows
<1>4. RolesExist' /\ NamesUnique' /\ HeldWhereItBelongs' /\ OnlyOwnerHoldsAll'
    BY <1>1 DEF AccessInv, TablesInv, RolesExist, NamesUnique, HeldWhereItBelongs,
       OnlyOwnerHoldsAll
<1>5. Fixed
    BY <1>1 DEF Fixed, CodesOf, HoldersOf
<1>6. QED
    BY <1>2, <1>3, <1>4, <1>5 DEF AccessInv, TypeOK, TablesInv

\* A request that ends without a write.
LEMMA EndKeeps ==
    ASSUME AccessInv, NEW x \in Handlers, Active(x), NEW answer \in Answers, Finish(x, answer),
           db' = db, claims' = claims, jobs' = jobs, aborts' \in 0..MaxAborts
    PROVE  AccessInv' /\ Fixed
<1>1. Alone(x)
    BY DEF Alone, Finish, AccessInv, TypeOK
<1>2. Kindly(x)
    BY <1>1, KindlyStays
<1>3. QED
    BY <1>2, TablesStay, FinishKeeps

\* A request that goes on, and does not write yet.
LEMMA PlaceKeeps ==
    ASSUME AccessInv, NEW x \in Handlers, Active(x),
           NEW place \in {"insert", "commit"} \cup Flushed,
           pc' = [pc EXCEPT ![x] = place], job' = job, ticket' = ticket, Alone(x),
           pick' \in [Handlers -> Ids \cup {NoRow}], base' \in [Handlers -> Ids \cup {NoRow}],
           db' = db, claims' = claims, jobs' = jobs, aborts' = aborts,
           Picked(x)', Checked(x)', Flushes(x)',
           \A y \in Handlers \ {x} : Apart(x, y)' /\ Apart(y, x)'
    PROVE  AccessInv' /\ Fixed
<1>1. Kindly(x)
    BY KindlyStays
<1>2. TablesInv' /\ Fixed /\ db' \in Tables /\ claims' \in [Users -> Token \cup {NoRow}]
    BY TablesStay
<1>3. \A y \in Handlers \ {x} : Own(y)'
    BY <1>1, <1>2, OthersKeep
<1>4. Own(x)'
  <2>1. Own(x)
    BY DEF AccessInv
  <2>2. ticket[x] \in 0..MaxJobs
    BY DEF AccessInv, TypeOK
  <2>3. Unused(ticket[x])' <=> Unused(ticket[x])
    BY DEF Unused
  <2>4. Known(job[x])' <=> Known(job[x])
    BY DEF Known, StoreIds, Rows
  <2>5. QED
    BY <2>1, <2>3, <2>4 DEF Own
<1>5. ASSUME NEW y \in Handlers, NEW z \in Handlers PROVE Apart(y, z)'
  <2>1. CASE y = x /\ z = x
    BY <2>1 DEF Apart
  <2>2. CASE y = x /\ z # x
    BY <2>2
  <2>3. CASE y # x /\ z = x
    BY <2>3
  <2>4. CASE y # x /\ z # x
    <3>1. Apart(y, z)
      BY DEF AccessInv
    <3>2. QED
      BY <2>4, <3>1 DEF Alone, Apart, Active, Naming
  <2>5. QED
    BY <2>1, <2>2, <2>3, <2>4
<1>6. TypeOK'
    BY <1>2 DEF AccessInv, TypeOK
<1>7. QED
    BY <1>2, <1>3, <1>4, <1>5, <1>6 DEF AccessInv

\* A request whose checks have held goes to its commit.
LEMMA ReadyKeeps ==
    ASSUME AccessInv, NEW x \in Handlers, Active(x), pc' = [pc EXCEPT ![x] = "commit"],
           job[x].op # "seed", job' = job, ticket' = ticket, pick' = pick, Alone(x),
           base' \in [Handlers -> Ids \cup {NoRow}],
           db' = db, claims' = claims, jobs' = jobs, aborts' = aborts, Relies(x)
    PROVE  AccessInv' /\ Fixed
<1>1. pc'[x] = "commit" /\ pick' \in [Handlers -> Ids \cup {NoRow}]
    BY DEF AccessInv, TypeOK
<1>2. Naming(x)' <=> Naming(x)
    BY DEF Naming
<1>3. Picked(x)'
    BY <1>2, UnderWay DEF Picked, KindOf, KindFor, RoleIds, Rows
<1>4. Relies(x)'
    BY DEF Relies, RoleIds, Rows
<1>5. Checked(x)' /\ Flushes(x)'
    BY <1>1, <1>4 DEF Checked, Flushes
<1>6. ASSUME NEW y \in Handlers \ {x} PROVE Apart(x, y)' /\ Apart(y, x)'
  <2>1. Apart(x, y) /\ Apart(y, x) /\ pc'[y] = pc[y]
    BY DEF AccessInv, Alone
  <2>2. QED
    BY <1>1, <1>2, <2>1 DEF Apart, Active, Naming
<1>7. QED
    BY <1>1, <1>3, <1>5, <1>6, PlaceKeeps

\* The check of a handler: an answer, or the commit.
LEMMA ProceedKeeps ==
    ASSUME AccessInv, NEW x \in Handlers, Active(x), job[x].op # "seed",
           NEW place \in Answers \cup {"commit"}, Go(x, place), place = "commit" => Relies(x)
    PROVE  AccessInv' /\ Fixed
<1>1. db' = db /\ claims' = claims /\ jobs' = jobs /\ aborts' = aborts
    BY DEF Go
<1>2. CASE place \in Answers
    BY <1>1, <1>2, EndKeeps DEF Go, AccessInv, TypeOK
<1>3. CASE place = "commit"
  <2>1. pc' = [pc EXCEPT ![x] = "commit"] /\ job' = job /\ ticket' = ticket /\ pick' = pick /\ base' = base
    BY <1>3 DEF Go, Goto, own, Answers
  <2>2. Alone(x)
    BY <2>1 DEF Alone, AccessInv, TypeOK
  <2>3. base' \in [Handlers -> Ids \cup {NoRow}]
    BY <2>1 DEF AccessInv, TypeOK
  <2>4. QED
    BY <1>1, <1>3, <2>1, <2>2, <2>3, ReadyKeeps
<1>4. QED
    BY <1>2, <1>3

\* A request that has nothing of its own to remember goes to a place where it
\* has flushed no key.
LEMMA StayKeeps ==
    ASSUME AccessInv, NEW x \in Handlers, Active(x), NEW place \in {"insert", "invited"},
           pc' = [pc EXCEPT ![x] = place], job[x].op # "seed",
           job' = job, ticket' = ticket, pick' = pick, base' = base,
           place = "insert" /\ job[x].op = "newstore" => db.business[job[x].place] # NoRow,
           db' = db, claims' = claims, jobs' = jobs, aborts' = aborts
    PROVE  AccessInv' /\ Fixed
<1>1. /\ pc'[x] = place /\ pick' \in [Handlers -> Ids \cup {NoRow}]
      /\ base' \in [Handlers -> Ids \cup {NoRow}] /\ Alone(x)
    BY DEF AccessInv, TypeOK, Alone
<1>2. Naming(x)' <=> Naming(x)
    BY DEF Naming
<1>3. Picked(x)'
    BY <1>2, UnderWay DEF Picked, KindOf, KindFor, RoleIds, Rows
<1>4. Checked(x)' /\ Flushes(x)'
    BY <1>1 DEF Checked, Flushes
<1>5. ASSUME NEW y \in Handlers \ {x} PROVE Apart(x, y)' /\ Apart(y, x)'
  <2>1. Apart(x, y) /\ Apart(y, x) /\ pc'[y] = pc[y]
    BY <1>1 DEF AccessInv, Alone
  <2>2. QED
    BY <1>1, <1>2, <2>1 DEF Apart, Active, Naming
<1>6. place \in {"insert", "commit"} \cup Flushed
    BY DEF Flushed
<1>7. QED
    BY <1>1, <1>3, <1>4, <1>5, <1>6, PlaceKeeps

----------------------------------------------------------------------------
(* Requests that check, and what they have found.                           *)

\* The roles of groups and of the platform are open.
LEMMA OthersAreOpen ==
    ASSUME AccessInv, NEW r \in RoleIds, KindOf(r) # "business"
    PROVE  ~db.role[r].protected
    BY DEF AccessInv, TablesInv, OnlyOwnerHoldsAll, KindOf

\* The role of a request under way, as far as its kind tells.
LEMMA PickIs ==
    ASSUME AccessInv, NEW x \in Handlers, Active(x), job[x].op \in RoleOps
    PROVE  /\ pick[x] \in Ids
           /\ pick[x] \in RoleIds => KindOf(pick[x]) = KindFor(job[x])
           /\ pick[x] \in RoleIds /\ job[x].on \in {"group", "platform"} =>
                 ~db.role[pick[x]].protected
<1>1. Picked(x) /\ Naming(x)
    BY UnderWay DEF Naming
<1>2. pick[x] \in Ids /\ (pick[x] \in RoleIds => KindOf(pick[x]) = KindFor(job[x]))
    BY <1>1 DEF Picked
<1>3. pick[x] \in RoleIds /\ job[x].on \in {"group", "platform"} => ~db.role[pick[x]].protected
    BY <1>2, OthersAreOpen DEF KindFor
<1>4. QED
    BY <1>2, <1>3

\* A request in the path of a business.
BusinessChecks(x) ==
    \/ CreateBusinessRole(x) \/ UpdateBusinessRole(x) \/ DeleteBusinessRole(x)
    \/ AssignRolePermission(x) \/ RemoveRolePermission(x)
    \/ AssignStaffRole(x) \/ RevokeStaffRole(x)
    \/ AssignStoreStaff(x) \/ RevokeStoreStaffRole(x)

\* They find a role that is open and in its place.
LEMMA BusinessChecksKeep ==
    ASSUME AccessInv, NEW x \in Handlers, BusinessChecks(x)
    PROVE  AccessInv' /\ Fixed
<1> USE DEF At, RoleOps
<1>1. CASE CreateBusinessRole(x)
  <2>1. Active(x) /\ job[x].op = "newrole" /\ job[x].on = "business"
    BY <1>1 DEF CreateBusinessRole, Active
  <2>2. PICK place \in Answers \cup {"commit"} :
          Go(x, place) /\ (place = "commit" => db.business[job[x].place] # NoRow)
    BY <1>1 DEF CreateBusinessRole, Proceed, Permits, Answers
  <2>3. place = "commit" => Relies(x)
    BY <2>1, <2>2 DEF Relies
  <2>4. QED
    BY <2>1, <2>2, <2>3, ProceedKeeps
<1>2. CASE UpdateBusinessRole(x)
  <2>1. Active(x) /\ job[x].op = "editrole" /\ job[x].on = "business"
    BY <1>2 DEF UpdateBusinessRole, Active
  <2>2. PICK place \in Answers \cup {"commit"} :
          /\ Go(x, place)
          /\ place = "commit" => /\ db.business[job[x].place] # NoRow /\ Open(pick[x])
                                 /\ db.role[pick[x]].of = job[x].place
    BY <1>2 DEF UpdateBusinessRole, Proceed, Permits, RoleOf, Answers
  <2>3. place = "commit" => Relies(x)
    BY <2>1, <2>2 DEF Relies, Open
  <2>4. QED
    BY <2>1, <2>2, <2>3, ProceedKeeps
<1>3. CASE DeleteBusinessRole(x) \/ RemoveRolePermission(x) \/ RevokeStaffRole(x) \/ RevokeStoreStaffRole(x)
  <2>1. Active(x) /\ job[x].op \in {"droprole", "ungrant", "revoke"}
    BY <1>3 DEF DeleteBusinessRole, RemoveRolePermission, RevokeStaffRole, RevokeStoreStaffRole, Active
  <2>2. PICK place \in Answers \cup {"commit"} :
          Go(x, place) /\ (place = "commit" => Open(pick[x]))
    BY <1>3 DEF DeleteBusinessRole, RemoveRolePermission, RevokeStaffRole, RevokeStoreStaffRole,
       Proceed, Answers
  <2>3. place = "commit" => Relies(x)
    BY <2>1, <2>2 DEF Relies, Open
  <2>4. QED
    BY <2>1, <2>2, <2>3, ProceedKeeps
<1>4. CASE AssignRolePermission(x)
  <2>1. Active(x) /\ job[x].op = "grant"
    BY <1>4 DEF AssignRolePermission, Active
  <2>2. PICK place \in Answers \cup {"commit"} :
          Go(x, place) /\ (place = "commit" => Open(pick[x]) /\ Coerces(job[x].code))
    BY <1>4 DEF AssignRolePermission, Answers
  <2>3. place = "commit" => Relies(x)
    BY <2>1, <2>2 DEF Relies, Open, Coerces
  <2>4. QED
    BY <2>1, <2>2, <2>3, ProceedKeeps
<1>5. CASE AssignStaffRole(x)
  <2>1. Active(x) /\ job[x].op = "assign" /\ job[x].on = "business"
    BY <1>5 DEF AssignStaffRole, Reachable, Active, Flushed
  <2>2. PICK place \in Answers \cup {"commit"} :
          Go(x, place) /\ (place = "commit" => Open(pick[x]))
    BY <1>5 DEF AssignStaffRole, Proceed, Answers
  <2>3. place = "commit" => Relies(x)
    BY <2>1, <2>2 DEF Relies, Open, Kinds
  <2>4. QED
    BY <2>1, <2>2, <2>3, ProceedKeeps
<1>6. CASE AssignStoreStaff(x)
  <2>1. Active(x) /\ job[x].op = "assign" /\ job[x].on = "store"
    BY <1>6 DEF AssignStoreStaff, Reachable, Active, Flushed
  <2>2. PICK place \in Answers \cup {"commit"} :
          /\ Go(x, place)
          /\ place = "commit" => /\ Open(pick[x])
                                 /\ db.role[pick[x]].of = db.store[job[x].place].of
    BY <1>6 DEF AssignStoreStaff, Proceed, RoleOf, Answers
  <2>3. place = "commit" => Relies(x)
    BY <2>1, <2>2 DEF Relies, Open, Kinds
  <2>4. QED
    BY <2>1, <2>2, <2>3, ProceedKeeps
<1>7. QED
    BY <1>1, <1>2, <1>3, <1>4, <1>5, <1>6 DEF BusinessChecks

\* The endpoints of the platform's staff.
AdminChecks(x) ==
    \/ CreateRole(x) \/ UpdateRole(x) \/ DeleteRole(x)
    \/ CreatePlatformRole(x) \/ UpdatePlatformRole(x) \/ DeletePlatformRole(x)
    \/ AssignInternalPermission(x) \/ RemoveInternalPermission(x)
    \/ AssignPlatformPermission(x) \/ RemovePlatformPermission(x)
    \/ AssignUserRole(x) \/ RemoveUserRole(x)
    \/ AssignUserPlatformRole(x) \/ RemoveUserPlatformRole(x)

\* They work on roles of groups and of the platform, which are open.
LEMMA AdminChecksKeep ==
    ASSUME AccessInv, NEW x \in Handlers, AdminChecks(x)
    PROVE  AccessInv' /\ Fixed
<1>1. Active(x) /\ job[x].on \in {"group", "platform"} /\ job[x].op \in RoleOps \cup {"newrole"}
    BY DEF AdminChecks, At, Active, RoleOps, CreateRole, UpdateRole, DeleteRole,
       CreatePlatformRole, UpdatePlatformRole, DeletePlatformRole, AssignInternalPermission,
       RemoveInternalPermission, AssignPlatformPermission, RemovePlatformPermission,
       AssignUserRole, RemoveUserRole, AssignUserPlatformRole, RemoveUserPlatformRole
<1>2. PICK place \in Answers \cup {"commit"} :
        /\ Go(x, place)
        /\ place = "commit" => /\ job[x].op = "grant" => Coerces(job[x].code)
                               /\ job[x].op = "assign" => db.people[job[x].user] # NoRow
  <2>1. CASE \/ CreateRole(x) \/ UpdateRole(x) \/ DeleteRole(x)
             \/ CreatePlatformRole(x) \/ UpdatePlatformRole(x) \/ DeletePlatformRole(x)
             \/ RemoveInternalPermission(x) \/ RemovePlatformPermission(x)
             \/ RemoveUserRole(x) \/ RemoveUserPlatformRole(x)
    BY <2>1 DEF At, CreateRole, UpdateRole, DeleteRole, CreatePlatformRole, UpdatePlatformRole,
       DeletePlatformRole, RemoveInternalPermission, RemovePlatformPermission, RemoveUserRole,
       RemoveUserPlatformRole, Proceed, Answers
  <2>2. CASE AssignInternalPermission(x) \/ AssignPlatformPermission(x)
    BY <2>2 DEF At, AssignInternalPermission, AssignPlatformPermission, Grants, Answers
  <2>3. CASE AssignUserRole(x)
    BY <2>3 DEF At, AssignUserRole, Answers
  <2>4. CASE AssignUserPlatformRole(x)
    BY <2>4 DEF At, AssignUserPlatformRole, Answers
  <2>5. QED
    BY <2>1, <2>2, <2>3, <2>4 DEF AdminChecks
<1>3. job[x].op \in RoleOps /\ pick[x] \in RoleIds => ~db.role[pick[x]].protected
    BY <1>1, PickIs
<1>4. place = "commit" => Relies(x)
    BY <1>1, <1>2, <1>3 DEF Relies, Coerces, RoleOps
<1>5. job[x].op # "seed"
    BY <1>1 DEF RoleOps
<1>6. QED
    BY <1>1, <1>2, <1>4, <1>5, ProceedKeeps

\* An unknown user is looked up and inserted.
LEMMA InvitesKeep ==
    ASSUME AccessInv, NEW x \in Handlers, LookUp(x) \/ InsertUser(x)
    PROVE  AccessInv' /\ Fixed
<1>1. Active(x) /\ job[x].op = "assign"
    BY DEF LookUp, InsertUser, Active
<1>2. PICK place \in Answers \cup {"insert", "invited"} : Go(x, place)
    BY DEF LookUp, InsertUser, Answers
<1>3. db' = db /\ claims' = claims /\ jobs' = jobs /\ aborts' = aborts
    BY <1>2 DEF Go
<1>4. CASE place \in Answers
    BY <1>1, <1>2, <1>3, <1>4, EndKeeps DEF Go, AccessInv, TypeOK
<1>5. CASE place \in {"insert", "invited"}
  <2>1. /\ pc' = [pc EXCEPT ![x] = place] /\ job' = job /\ ticket' = ticket
        /\ pick' = pick /\ base' = base
    BY <1>2, <1>5 DEF Go, Goto, own, Answers
  <2>2. QED
    BY <1>1, <1>3, <1>5, <2>1, StayKeeps DEF Flushed
<1>6. QED
    BY <1>2, <1>4, <1>5

\* Businesses, stores and groups: the checks.
LEMMA PremiseChecksKeep ==
    ASSUME AccessInv, NEW x \in Handlers,
           \/ UpdateBusiness(x) \/ UpdateStore(x) \/ UpdateStoreSettings(x) \/ RetypeStore(x)
           \/ CreateGroup(x) \/ UpdateGroup(x) \/ DeleteGroup(x) \/ AssignUserToGroup(x)
    PROVE  AccessInv' /\ Fixed
<1>1. /\ Active(x)
      /\ job[x].op \in {"editbusiness", "editstore", "setstore", "retype", "newgroup", "editgroup",
                        "dropgroup", "join"}
      /\ job[x].op = "setstore" => job[x].on = "store"
    BY DEF At, Active, UpdateBusiness, UpdateStore, UpdateStoreSettings, RetypeStore, CreateGroup,
       UpdateGroup, DeleteGroup, AssignUserToGroup
<1>2. PICK place \in Answers \cup {"commit"} :
        /\ Go(x, place)
        /\ place = "commit" =>
              /\ job[x].op = "editbusiness" => db.business[job[x].place] # NoRow
              /\ job[x].op = "setstore" => db.setting[job[x].place] # NoRow
  <2>1. CASE UpdateBusiness(x)
    BY <2>1 DEF At, UpdateBusiness, Proceed, Permits, Answers
  <2>2. CASE UpdateStoreSettings(x)
    BY <2>2 DEF At, UpdateStoreSettings, Proceed, Answers
  <2>3. CASE UpdateStore(x) \/ CreateGroup(x) \/ UpdateGroup(x) \/ DeleteGroup(x)
    BY <2>3 DEF At, UpdateStore, CreateGroup, UpdateGroup, DeleteGroup, Proceed, Answers
  <2>4. CASE RetypeStore(x)
    BY <2>4 DEF At, RetypeStore, Answers
  <2>5. CASE AssignUserToGroup(x)
    BY <2>5 DEF At, AssignUserToGroup, Proceed, Answers
  <2>6. QED
    BY <2>1, <2>2, <2>3, <2>4, <2>5
<1>3. place = "commit" => Relies(x)
    BY <1>1, <1>2 DEF Relies, RoleOps
<1>4. QED
    BY <1>1, <1>2, <1>3, ProceedKeeps

\* A member's group is looked up, to be left.
LEMMA LeavesKeep ==
    ASSUME AccessInv, NEW x \in Handlers, RemoveUserFromGroup(x)
    PROVE  AccessInv' /\ Fixed
<1>1. Active(x) /\ job[x].op = "leave" /\ job[x].on = "group" /\ job[x] \in JobType
    BY UnderWay DEF At, Active, RemoveUserFromGroup
<1>2. Relies(x)
    BY <1>1 DEF Relies, RoleOps
<1>3. CASE \E place \in {"refused", "error"} : Go(x, place)
  <2>1. PICK place \in Answers \cup {"commit"} : Go(x, place)
    BY <1>3 DEF Answers
  <2>2. QED
    BY <1>1, <1>2, <2>1, ProceedKeeps
<1>4. CASE /\ pc' = [pc EXCEPT ![x] = "commit"] /\ GroupsOf(job[x].user) # {}
           /\ base' = [base EXCEPT ![x] = CHOOSE g \in GroupsOf(job[x].user) : TRUE]
           /\ UNCHANGED <<db, claims, job, ticket, pick, jobs, aborts>>
  <2>1. (CHOOSE g \in GroupsOf(job[x].user) : TRUE) \in Ids
    BY <1>4 DEF GroupsOf, GroupIds, Rows
  <2>2. base' \in [Handlers -> Ids \cup {NoRow}] /\ Alone(x)
    BY <1>4, <2>1 DEF AccessInv, TypeOK, Alone
  <2>3. QED
    BY <1>1, <1>2, <1>4, <2>2, ReadyKeeps
<1>5. QED
    BY <1>3, <1>4 DEF RemoveUserFromGroup

\* A business is inserted when its owner has none and nobody inserts one.
LEMMA InsertBusinessKeeps ==
    ASSUME AccessInv, NEW x \in Handlers, CheckOwner(x) \/ InsertBusiness(x)
    PROVE  AccessInv' /\ Fixed
<1>1. Active(x) /\ job[x].op = "business"
    BY DEF At, Active, CheckOwner, InsertBusiness
<1>2. PICK place \in Answers \cup {"insert", "cloned"} :
        /\ Go(x, place)
        /\ place = "cloned" => /\ db.business[job[x].actor] = NoRow
                               /\ Free(x, <<"owner", job[x].actor, NoRow>>)
    BY DEF CheckOwner, InsertBusiness, Answers
<1>3. db' = db /\ claims' = claims /\ jobs' = jobs /\ aborts' = aborts
    BY <1>2 DEF Go
<1>4. CASE place \in Answers
    BY <1>1, <1>2, <1>3, <1>4, EndKeeps DEF Go, AccessInv, TypeOK
<1>5. CASE place \in {"insert", "cloned"}
  <2>1. /\ pc' = [pc EXCEPT ![x] = place] /\ job' = job /\ ticket' = ticket
        /\ pick' = pick /\ base' = base
    BY <1>2, <1>5 DEF Go, Goto, own, Answers
  <2>2. CASE place = "insert"
    BY <1>1, <1>3, <2>1, <2>2, StayKeeps
  <2>3. CASE place = "cloned"
    <3>1. /\ pc'[x] = "cloned" /\ pick' \in [Handlers -> Ids \cup {NoRow}]
          /\ base' \in [Handlers -> Ids \cup {NoRow}] /\ Alone(x)
      BY <2>1, <2>3 DEF AccessInv, TypeOK, Alone
    <3>2. ~Naming(x) /\ ~Naming(x)'
      BY <1>1, <2>1 DEF Naming, RoleOps
    <3>3. Picked(x)' /\ Checked(x)' /\ Flushes(x)'
      BY <1>1, <1>2, <1>3, <2>1, <2>3, <3>1, <3>2 DEF Picked, Checked, Flushes
    <3>4. ASSUME NEW y \in Handlers \ {x} PROVE Apart(x, y)' /\ Apart(y, x)'
      <4>1. Apart(x, y) /\ Apart(y, x) /\ pc'[y] = pc[y]
        BY <3>1 DEF AccessInv, Alone
      <4>2. Active(y) /\ pc[y] = "cloned" => job[y].actor # job[x].actor
        <5>1. SUFFICES ASSUME pc[y] = "cloned" PROVE job[y].actor # job[x].actor
          OBVIOUS
        <5>2. Key(y) # <<"owner", job[x].actor, NoRow>>
          BY <1>2, <2>3 DEF Free
        <5>3. Key(y) = <<"owner", job[y].actor, NoRow>>
          BY <5>1 DEF Key, Invites
        <5>4. QED
          BY <5>2, <5>3
      <4>3. Naming(y)' <=> Naming(y)
        BY <2>1, <4>1 DEF Naming
      <4>4. QED
        BY <1>1, <2>1, <3>1, <3>2, <4>1, <4>2, <4>3 DEF Apart, Active
    <3>5. QED
      BY <1>1, <1>3, <2>1, <2>3, <3>1, <3>3, <3>4, PlaceKeeps DEF Flushed
  <2>4. QED
    BY <1>5, <2>2, <2>3
<1>6. QED
    BY <1>2, <1>4, <1>5

\* A store is inserted when its name is free and nobody inserts it.
LEMMA InsertStoreKeeps ==
    ASSUME AccessInv, NEW x \in Handlers, CheckStore(x) \/ InsertStore(x)
    PROVE  AccessInv' /\ Fixed
<1>1. Active(x) /\ job[x].op = "newstore"
    BY DEF At, Active, CheckStore, InsertStore
<1>2. PICK place \in Answers \cup {"insert", "placed"} :
        /\ Go(x, place)
        /\ place \in {"insert", "placed"} => db.business[job[x].place] # NoRow
        /\ place = "placed" => /\ ~StoreNamed(job[x].place, job[x].name)
                               /\ Free(x, <<"store", job[x].place, job[x].name>>)
  <2>1. CASE CheckStore(x)
    BY <2>1 DEF CheckStore, Permits, Answers
  <2>2. CASE InsertStore(x)
    <3>1. pc[x] = "insert"
      BY <2>2 DEF InsertStore, At
    <3>2. db.business[job[x].place] # NoRow
      BY <1>1, <3>1, UnderWay DEF Checked
    <3>3. QED
      BY <2>2, <3>2 DEF InsertStore, Answers
  <2>3. QED
    BY <2>1, <2>2
<1>3. db' = db /\ claims' = claims /\ jobs' = jobs /\ aborts' = aborts
    BY <1>2 DEF Go
<1>4. CASE place \in Answers
    BY <1>1, <1>2, <1>3, <1>4, EndKeeps DEF Go, AccessInv, TypeOK
<1>5. CASE place \in {"insert", "placed"}
  <2>1. /\ pc' = [pc EXCEPT ![x] = place] /\ job' = job /\ ticket' = ticket
        /\ pick' = pick /\ base' = base
    BY <1>2, <1>5 DEF Go, Goto, own, Answers
  <2>2. CASE place = "insert"
    BY <1>1, <1>2, <1>3, <2>1, <2>2, StayKeeps
  <2>3. CASE place = "placed"
    <3>1. /\ pc'[x] = "placed" /\ pick' \in [Handlers -> Ids \cup {NoRow}]
          /\ base' \in [Handlers -> Ids \cup {NoRow}] /\ Alone(x)
      BY <2>1, <2>3 DEF AccessInv, TypeOK, Alone
    <3>2. ~Naming(x) /\ ~Naming(x)'
      BY <1>1, <2>1 DEF Naming, RoleOps
    <3>3. ~StoreNamed(job[x].place, job[x].name)'
      BY <1>2, <1>3, <2>1, <2>3 DEF StoreNamed, StoreIds, Rows
    <3>4. Picked(x)' /\ Checked(x)' /\ Flushes(x)'
      BY <1>1, <1>2, <1>3, <2>1, <2>3, <3>1, <3>2, <3>3 DEF Picked, Checked, Flushes
    <3>5. ASSUME NEW y \in Handlers \ {x} PROVE Apart(x, y)' /\ Apart(y, x)'
      <4>1. Apart(x, y) /\ Apart(y, x) /\ pc'[y] = pc[y]
        BY <3>1 DEF AccessInv, Alone
      <4>2. pc[y] = "placed" => job[y].place # job[x].place \/ job[y].name # job[x].name
        <5>1. SUFFICES ASSUME pc[y] = "placed"
                       PROVE  job[y].place # job[x].place \/ job[y].name # job[x].name
          OBVIOUS
        <5>2. Key(y) # <<"store", job[x].place, job[x].name>>
          BY <1>2, <2>3 DEF Free
        <5>3. Key(y) = <<"store", job[y].place, job[y].name>>
          BY <5>1 DEF Key, Invites
        <5>4. QED
          BY <5>2, <5>3
      <4>3. Naming(y)' <=> Naming(y)
        BY <2>1, <4>1 DEF Naming
      <4>4. QED
        BY <1>1, <2>1, <3>1, <3>2, <4>1, <4>2, <4>3 DEF Apart, Active
    <3>6. QED
      BY <1>1, <1>3, <2>1, <2>3, <3>1, <3>4, <3>5, PlaceKeeps DEF Flushed
  <2>4. QED
    BY <1>5, <2>2, <2>3
<1>6. QED
    BY <1>2, <1>4, <1>5

\* A deployment's seed takes the role it finds, or the row it is to make.
LEMMA SeedsKeep ==
    ASSUME AccessInv, NEW x \in Handlers, SeedInternalRoles(x) \/ SeedPlatformRoles(x)
    PROVE  AccessInv' /\ Fixed
<1>1. /\ Active(x) /\ pc[x] = "load" /\ job[x].op = "seed" /\ job[x].on \in {"group", "platform"}
    BY DEF At, Active, SeedInternalRoles, SeedPlatformRoles
<1>2. Row(x) \in Ids /\ Row(x)[1] = ticket[x] /\ ticket[x] \in 1..jobs /\ Row(x) \notin RoleIds
    BY <1>1, UnderWay DEF Row
<1>3. CASE Go(x, "error")
    BY <1>1, <1>3, ProceedKeeps, EndKeeps DEF Go, Answers, AccessInv, TypeOK
<1>4. ASSUME NEW of \in Ids \cup {NoRow}, NEW found \in SUBSET RoleIds, Seeds(x, of, found),
             \A r \in found : KindOf(r) = job[x].on
      PROVE  AccessInv' /\ Fixed
  <2>1. PICK r : r = (IF found = {} THEN Row(x) ELSE CHOOSE q \in found : TRUE)
    OBVIOUS
  <2>2. /\ pick' = [pick EXCEPT ![x] = r] /\ base' = [base EXCEPT ![x] = of]
        /\ pc' = [pc EXCEPT ![x] = "commit"]
        /\ db' = db /\ claims' = claims /\ job' = job /\ ticket' = ticket
        /\ jobs' = jobs /\ aborts' = aborts
    BY <1>4, <2>1 DEF Seeds
  <2>3. r = Row(x) \/ (r \in RoleIds /\ KindOf(r) = job[x].on)
    BY <1>4, <2>1
  <2>4. r \in Ids
    BY <1>2, <2>3 DEF RoleIds, Rows
  <2>5. pick' \in [Handlers -> Ids \cup {NoRow}] /\ base' \in [Handlers -> Ids \cup {NoRow}]
        /\ Alone(x) /\ pc'[x] = "commit" /\ pick'[x] = r
    BY <2>2, <2>4 DEF AccessInv, TypeOK, Alone
  <2>6. ASSUME r \in RoleIds, NEW n \in 0..MaxJobs, Unused(n) PROVE r[1] # n
    BY <2>4, <2>6 DEF Unused, RoleIds, Rows, Ids
  <2>7. r[1] <= jobs
    <3>1. CASE r = Row(x)
      BY <1>2, <3>1
    <3>2. CASE r \in RoleIds
      <4>1. r[1] \in 0..MaxJobs
        BY <2>4 DEF Ids
      <4>2. ~Unused(r[1])
        BY <2>6, <3>2, <4>1
      <4>3. QED
        BY <4>1, <4>2 DEF AccessInv, TypeOK, TablesInv
    <3>3. QED
      BY <2>3, <3>1, <3>2
  <2>8. Picked(x)'
    <3>1. r \in RoleIds' => KindOf(r)' = KindFor(job[x])
      BY <1>1, <1>2, <2>2, <2>3 DEF KindOf, KindFor, RoleIds, Rows
    <3>2. KindFor(job[x])' = KindFor(job[x])
      BY <2>2 DEF KindFor
    <3>3. QED
      BY <2>2, <2>4, <2>5, <2>7, <3>1, <3>2 DEF Picked, KindOf
  <2>9. Checked(x)' /\ Flushes(x)'
    BY <1>1, <2>2, <2>5 DEF Checked, Flushes, Relies, RoleOps
  <2>10. ASSUME NEW y \in Handlers \ {x} PROVE Apart(x, y)' /\ Apart(y, x)'
    <3>1. Apart(x, y) /\ Apart(y, x) /\ pc'[y] = pc[y] /\ pick'[y] = pick[y]
      BY <2>5 DEF AccessInv, Alone
    <3>2. Naming(y)' <=> Naming(y)
      BY <2>2, <3>1 DEF Naming
    <3>3. Active(y) => r[1] # ticket[y]
      <4>1. SUFFICES ASSUME Active(y) PROVE r[1] # ticket[y]
        OBVIOUS
      <4>2. Unused(ticket[y]) /\ ticket[y] \in 0..MaxJobs /\ ticket[y] # ticket[x]
        BY <1>1, <3>1, <4>1, UnderWay DEF Apart
      <4>3. QED
        BY <1>2, <2>3, <2>6, <4>2
    <3>4. QED
      BY <1>1, <2>2, <2>5, <3>1, <3>2, <3>3 DEF Apart, Active
  <2>11. QED
    BY <1>1, <2>2, <2>5, <2>8, <2>9, <2>10, PlaceKeeps
<1>5. CASE SeedPlatformRoles(x)
  <2>1. PICK found : found = RolesNamed(Platform, job[x].name)
    OBVIOUS
  <2>2. Seeds(x, NoRow, found) /\ job[x].on = "platform"
    BY <1>5, <2>1 DEF SeedPlatformRoles, At
  <2>3. found \in SUBSET RoleIds /\ \A r \in found : KindOf(r) = "platform"
    BY <2>1, AccessAssumption DEF RolesNamed, KindOf
  <2>4. QED
    BY <1>4, <2>2, <2>3
<1>6. CASE SeedInternalRoles(x)
  <2>1. PICK of, found :
          /\ of = (IF {g \in GroupIds : db.group[g] = job[x].name} = {} THEN Row(x)
                   ELSE CHOOSE g \in {g \in GroupIds : db.group[g] = job[x].name} : TRUE)
          /\ found = RolesNamed(of, job[x].name)
    OBVIOUS
  <2>2. of \in Ids
    BY <1>2, <2>1 DEF GroupIds, Rows
  <2>3. job[x].on = "group" /\ (Go(x, "error") \/ Seeds(x, of, found))
    BY <1>6, <2>1 DEF SeedInternalRoles, At
  <2>4. found \in SUBSET RoleIds /\ \A r \in found : KindOf(r) = "group"
    BY <2>1, <2>2, AccessAssumption DEF RolesNamed, KindOf
  <2>5. QED
    BY <1>3, <1>4, <2>2, <2>3, <2>4
<1>7. QED
    BY <1>5, <1>6

\* The transaction is rolled back.
LEMMA AbortKeeps ==
    ASSUME AccessInv, NEW x \in Handlers, Abort(x)
    PROVE  AccessInv' /\ Fixed
<1>1. Active(x)
    BY DEF Abort, Active
<1>2. aborts' \in 0..MaxAborts /\ "error" \in Answers
    BY Bounds DEF Abort, AccessInv, TypeOK, Answers
<1>3. QED
    BY <1>1, <1>2, EndKeeps DEF Abort

----------------------------------------------------------------------------
(* Access tokens.                                                           *)

\* A token says "*" only of what its user owns.
LEMMA IssueKeeps ==
    ASSUME AccessInv, NEW x \in Handlers, Active(x), NEW token \in Token, Issue(x, token),
           db.people[job[x].actor] # NoRow, Wildcard \in token.codes => token.of = job[x].actor
    PROVE  AccessInv' /\ Fixed
<1>1. PICK u \in Users : u = job[x].actor
    BY UnderWay, JobIs
<1>2. /\ claims' = [claims EXCEPT ![u] = token] /\ Finish(x, "ok")
      /\ db' = db /\ jobs' = jobs /\ aborts' = aborts
    BY <1>1 DEF Issue
<1>3. db \in Tables /\ claims \in [Users -> Token \cup {NoRow}] /\ aborts \in 0..MaxAborts /\ TablesInv
    BY DEF AccessInv, TypeOK
<1>4. claims' \in [Users -> Token \cup {NoRow}] /\ token # NoRow
    BY <1>2, <1>3, AccessAssumption
<1>5. \A v \in Users : claims'[v] = IF v = u THEN token ELSE claims[v]
    BY <1>2, <1>3
<1>6. Alone(x)
    BY <1>2 DEF Alone, Finish, AccessInv, TypeOK
<1>7. Kindly(x)
    BY <1>2, <1>4, <1>5, <1>6, KindlyStays
<1>8. RoleIds' = RoleIds /\ StoreIds' = StoreIds /\ GroupIds' = GroupIds
    BY <1>2 DEF RoleIds, StoreIds, GroupIds, Rows
<1>9. TablesInv'
  <2>1. \A n \in 0..MaxJobs : Unused(n)' <=> Unused(n)
    BY <1>2 DEF Unused
  <2>2. BusinessIsWhole'
    BY <1>2, <1>3, <1>8 DEF TablesInv, BusinessIsWhole, HeldAt, CodesOf, Rows
  <2>3. RolesExist'
    BY <1>1, <1>2, <1>3, <1>5, <1>8 DEF TablesInv, RolesExist
  <2>4. NamesUnique' /\ HeldWhereItBelongs'
    BY <1>2, <1>3, <1>8 DEF TablesInv, NamesUnique, HeldWhereItBelongs
  <2>5. OnlyOwnerHoldsAll'
    BY <1>1, <1>2, <1>3, <1>5, <1>8 DEF TablesInv, OnlyOwnerHoldsAll
  <2>6. QED
    BY <1>2, <1>3, <2>1, <2>2, <2>3, <2>4, <2>5 DEF TablesInv
<1>10. Fixed
    BY <1>2, <1>8 DEF Fixed, CodesOf, HoldersOf
<1>11. db' \in Tables /\ aborts' \in 0..MaxAborts /\ "ok" \in Answers
    BY <1>2, <1>3 DEF Answers
<1>12. AccessInv'
    BY <1>2, <1>4, <1>7, <1>9, <1>11, FinishKeeps
<1>13. QED
    BY <1>10, <1>12

\* What a token is made of.
LEMMA TokenIs ==
    ASSUME NEW kind \in Kinds, NEW of \in Users \cup {NoRow}, NEW at \in Ids \cup {NoRow},
           NEW codes \in SUBSET Codes
    PROVE  /\ [kind |-> kind, of |-> of, at |-> at, codes |-> codes] \in Token
           /\ [kind |-> kind, of |-> of, at |-> at, codes |-> codes].codes = codes
           /\ [kind |-> kind, of |-> of, at |-> at, codes |-> codes].of = of
    BY DEF Token

\* Permissions are codes.
LEMMA PermissionsAre ==
    ASSUME NEW rs
    PROVE  /\ EffectivePermissions(rs) \in SUBSET Codes
           /\ Wildcard \in EffectivePermissions(rs) => \E r \in rs : <<r, Wildcard>> \in db.permits
    BY DEF EffectivePermissions, CodesOf

\* The handlers that issue them.
LEMMA TokensKeep ==
    ASSUME AccessInv, NEW x \in Handlers, Access(x)
    PROVE  AccessInv' /\ Fixed
<1> USE DEF At, Is
<1>1. Active(x) /\ job[x].op = "switch" /\ pc[x] = "load"
    BY DEF Access, SwitchBusinessContext, StoreStaffContext, LoginPlatformStaff, LoginDriver,
       WrongKind, Active
<1>2. job[x].actor \in Users /\ (job[x].on = "business" => job[x].place \in Users)
    BY <1>1, UnderWay, JobIs
<1>3. PICK u \in Users : u = job[x].actor
    BY <1>2
<1>4. OnlyOwnerHoldsAll /\ HeldWhereItBelongs /\ RolesExist /\ db \in Tables
    BY DEF AccessInv, TypeOK, TablesInv
<1>5. \A k \in Kinds : k # NoRow
    BY AccessAssumption
<1>6. "business" \in Kinds /\ "store" \in Kinds /\ "platform" \in Kinds /\ "driver" \in Kinds
    BY DEF Kinds
<1>7. \A r : <<r, Wildcard>> \in db.permits => db.role[r].protected /\ r \in RoleIds
    BY <1>4 DEF OnlyOwnerHoldsAll, RolesExist
<1>8. CASE \E place \in {"refused", "error"} : Go(x, place)
  <2>1. PICK place \in Answers \cup {"commit"} : Go(x, place) /\ place # "commit"
    BY <1>8 DEF Answers
  <2>2. QED
    BY <1>1, <2>1, ProceedKeeps
<1>9. CASE SwitchBusinessContext(x) /\ HeldAt(u, job[x].place) # {}
  <2>1. PICK owner \in Users : owner = job[x].place
    BY <1>2, <1>9 DEF SwitchBusinessContext
  <2>2. PICK codes \in SUBSET Codes : codes = EffectivePermissions(HeldAt(u, owner))
    BY PermissionsAre
  <2>3. PICK token : token = [kind |-> "business", of |-> owner, at |-> NoRow, codes |-> codes]
    OBVIOUS
  <2>4. Issue(x, token) /\ db.people[u] = "business"
    BY <1>3, <1>9, <2>1, <2>2, <2>3 DEF SwitchBusinessContext
  <2>5. token \in Token /\ token.codes = codes /\ token.of = owner
    BY <1>6, <2>3, TokenIs
  <2>6. Wildcard \in codes => owner = u
    <3>1. SUFFICES ASSUME Wildcard \in codes PROVE owner = u
      OBVIOUS
    <3>2. PICK r \in HeldAt(u, owner) : <<r, Wildcard>> \in db.permits
      BY <2>2, <3>1, PermissionsAre
    <3>3. db.role[r].protected /\ <<u, Anywhere, r>> \in db.holds /\ db.role[r].of = owner
      BY <1>7, <3>2 DEF HeldAt
    <3>4. QED
      BY <1>4, <3>3 DEF OnlyOwnerHoldsAll
  <2>7. QED
    BY <1>1, <1>3, <1>5, <1>6, <2>4, <2>5, <2>6, IssueKeeps
<1>10. CASE StoreStaffContext(x)
  <2>1. PICK at : at = {h \in db.holds : h[1] = job[x].actor /\ h[2] \in StoreIds}
    OBVIOUS
  <2>2. db.people[u] = "store"
    BY <1>3, <1>10 DEF StoreStaffContext
  <2>3. CASE at = {}
    <3>1. PICK token : token = [kind |-> "store", of |-> NoRow, at |-> NoRow, codes |-> {}]
      OBVIOUS
    <3>2. Issue(x, token)
      BY <1>10, <2>1, <2>3, <3>1 DEF StoreStaffContext
    <3>3. token \in Token /\ token.codes = {}
      BY <1>6, <3>1, TokenIs
    <3>4. QED
      BY <1>1, <1>3, <1>5, <1>6, <2>2, <3>2, <3>3, IssueKeeps
  <2>4. CASE at # {}
    <3>1. PICK h \in at :
            Issue(x, [kind |-> "store", of |-> db.store[h[2]].of, at |-> h[2],
                      codes |-> EffectivePermissions({h[3]})])
      BY <1>10, <2>1, <2>4 DEF StoreStaffContext
    <3>2. h \in db.holds /\ h[1] = u /\ h[2] \in StoreIds
      BY <1>3, <2>1, <3>1
    <3>3. h[2] \in Ids /\ db.store[h[2]].of \in Users
      BY <1>4, <3>2, RowTypes DEF StoreIds, Rows
    <3>4. PICK owner \in Users : owner = db.store[h[2]].of
      BY <3>3
    <3>5. PICK codes \in SUBSET Codes : codes = EffectivePermissions({h[3]})
      BY PermissionsAre
    <3>6. PICK token : token = [kind |-> "store", of |-> owner, at |-> h[2], codes |-> codes]
      OBVIOUS
    <3>7. Issue(x, token)
      BY <3>1, <3>4, <3>5, <3>6
    <3>8. token \in Token /\ token.codes = codes /\ token.of = owner
      BY <1>6, <3>3, <3>6, TokenIs
    <3>9. Wildcard \in codes => owner = u
      <4>1. SUFFICES ASSUME Wildcard \in codes PROVE owner = u
        OBVIOUS
      <4>2. <<h[3], Wildcard>> \in db.permits
        <5>1. PICK rs : rs = {h[3]}
          OBVIOUS
        <5>2. \E r \in rs : <<r, Wildcard>> \in db.permits
          BY <3>5, <4>1, <5>1, PermissionsAre
        <5>3. QED
          BY <5>1, <5>2
      <4>3. db.role[h[3]].protected
        BY <1>7, <4>2
      <4>4. QED
        BY <1>4, <3>2, <3>4, <4>3 DEF OnlyOwnerHoldsAll, HeldWhereItBelongs
    <3>10. QED
      BY <1>1, <1>3, <1>5, <1>6, <2>2, <3>7, <3>8, <3>9, IssueKeeps
  <2>5. QED
    BY <2>3, <2>4
<1>11. ASSUME NEW kind \in Kinds, NEW codes \in SUBSET Codes, db.people[u] = kind, Wildcard \notin codes,
              Issue(x, [kind |-> kind, of |-> NoRow, at |-> NoRow, codes |-> codes])
       PROVE  AccessInv' /\ Fixed
  <2>1. PICK token : token = [kind |-> kind, of |-> NoRow, at |-> NoRow, codes |-> codes]
    OBVIOUS
  <2>2. token \in Token /\ token.codes = codes
    BY <2>1, TokenIs
  <2>3. QED
    BY <1>1, <1>3, <1>5, <1>11, <2>1, <2>2, IssueKeeps
<1>12. ASSUME NEW r \in RoleIds, KindOf(r) # "business" PROVE <<r, Wildcard>> \notin db.permits
    BY <1>4, <1>7, <1>12, OthersAreOpen
<1>13. CASE LoginPlatformStaff(x) /\ ~(Cardinality(GroupsOf(u)) > 1)
  <2>1. PICK rs : rs = {r \in RoleIds : db.role[r].of \in GroupsOf(u)}
    OBVIOUS
  <2>2. PICK codes \in SUBSET Codes : codes = EffectivePermissions(rs)
    BY PermissionsAre
  <2>3. /\ Issue(x, [kind |-> "platform", of |-> NoRow, at |-> NoRow, codes |-> codes])
        /\ db.people[u] = "platform"
    BY <1>3, <1>13, <2>1, <2>2 DEF LoginPlatformStaff
  <2>4. \A r \in rs : r \in RoleIds /\ KindOf(r) # "business"
    BY <2>1, AccessAssumption DEF GroupsOf, GroupIds, Rows, KindOf
  <2>5. Wildcard \notin codes
    BY <1>12, <2>2, <2>4, PermissionsAre
  <2>6. QED
    BY <1>6, <1>11, <2>3, <2>5
<1>14. CASE LoginDriver(x)
  <2>1. PICK held : held = {r \in {q \in RoleIds : KindOf(q) = "platform"} :
                               <<u, Anywhere, r>> \in db.holds}
    OBVIOUS
  <2>2. PICK named : named = {r \in {q \in RoleIds : KindOf(q) = "platform"} :
                                 db.role[r].name = db.people[u]}
    OBVIOUS
  <2>3. PICK rs : rs = (IF EffectivePermissions(held) # {} THEN held ELSE named)
    OBVIOUS
  <2>4. PlatformPermissions(u) = EffectivePermissions(rs)
    BY <2>1, <2>2, <2>3 DEF PlatformPermissions
  <2>5. \A r \in rs : r \in RoleIds /\ KindOf(r) # "business"
    BY <2>1, <2>2, <2>3
  <2>6. PICK codes \in SUBSET Codes : codes = EffectivePermissions(rs)
    BY PermissionsAre
  <2>7. Wildcard \notin codes
    BY <1>12, <2>5, <2>6, PermissionsAre
  <2>8. /\ Issue(x, [kind |-> "driver", of |-> NoRow, at |-> NoRow, codes |-> codes])
        /\ db.people[u] = "driver"
    BY <1>3, <1>14, <2>4, <2>6 DEF LoginDriver
  <2>9. QED
    BY <1>6, <1>11, <2>7, <2>8
<1>15. CASE WrongKind(x)
    BY <1>8, <1>15 DEF WrongKind
<1>16. CASE SwitchBusinessContext(x) /\ HeldAt(u, job[x].place) = {}
    BY <1>3, <1>8, <1>16 DEF SwitchBusinessContext
<1>17. CASE LoginPlatformStaff(x) /\ Cardinality(GroupsOf(u)) > 1
    BY <1>3, <1>8, <1>17 DEF LoginPlatformStaff
<1>18. QED
    BY <1>9, <1>10, <1>13, <1>14, <1>15, <1>16, <1>17 DEF Access

----------------------------------------------------------------------------
(* Commits.                                                                 *)

\* A commit that the tables accept, and one that they refuse.
Wrote(x) == Finish(x, "ok") /\ UNCHANGED <<claims, jobs, aborts>>
Failed(x) == Finish(x, "error") /\ UNCHANGED <<db, claims, jobs, aborts>>

\* There is no third.
LEMMA CommitIs ==
    ASSUME NEW x, NEW ok, NEW new, Commit(x, ok, new)
    PROVE  (ok /\ db' = new /\ Wrote(x)) \/ (~ok /\ Failed(x))
    BY DEF Commit, Wrote, Failed

\* A commit that is refused changes nothing.
LEMMA FailedKeeps ==
    ASSUME AccessInv, NEW x \in Handlers, Active(x), Failed(x)
    PROVE  AccessInv' /\ Fixed
<1>1. aborts' \in 0..MaxAborts /\ "error" \in Answers
    BY DEF Failed, AccessInv, TypeOK, Answers
<1>2. QED
    BY <1>1, EndKeeps DEF Failed

\* A commit that is accepted leaves the other requests alone, and the invariant
\* if the tables stay right.
LEMMA WroteKeeps ==
    ASSUME AccessInv, NEW x \in Handlers, Active(x), Wrote(x),
           db' \in Tables, TablesInv', Kindly(x)
    PROVE  AccessInv'
<1>1. /\ aborts' \in 0..MaxAborts /\ "ok" \in Answers /\ jobs' = jobs
      /\ claims' \in [Users -> Token \cup {NoRow}]
    BY DEF Wrote, AccessInv, TypeOK, Answers
<1>2. QED
    BY <1>1, FinishKeeps DEF Wrote

\* What it finishes is its own.
LEMMA WroteIsAlone ==
    ASSUME AccessInv, NEW x \in Handlers, Wrote(x)
    PROVE  Alone(x) /\ claims' = claims /\ jobs' = jobs
    BY DEF Wrote, Alone, Finish, AccessInv, TypeOK

\* The tables and the request of a commit.
LEMMA AtCommit ==
    ASSUME AccessInv, NEW x \in Handlers, pc[x] = "commit"
    PROVE  Active(x) /\ Relies(x) /\ Known(job[x]) /\ job[x] \in JobType
    BY UnderWay DEF Active, Checked

\* What the invariant says of the tables.
LEMMA TablesAre ==
    ASSUME AccessInv
    PROVE  /\ db \in Tables /\ BusinessIsWhole /\ RolesExist /\ NamesUnique
           /\ HeldWhereItBelongs /\ OnlyOwnerHoldsAll
           /\ \A n \in 0..MaxJobs : n > jobs => Unused(n)
           /\ jobs \in 0..MaxJobs
    BY DEF AccessInv, TypeOK, TablesInv

\* A write of roles and groups is kind to the others when it leaves the kinds of
\* the roles as they are, and adds rows with its own number only.
LEMMA KindlyRows ==
    ASSUME AccessInv, NEW x \in Handlers, Alone(x),
           db'.store = db.store, db'.setting = db.setting, db'.business = db.business,
           db'.people = db.people, claims' = claims,
           \A r \in Ids : db'.role[r] # NoRow /\ r[1] # ticket[x] =>
              /\ r \in RoleIds /\ KindOf(r)' = KindOf(r)
              /\ db'.role[r].protected = db.role[r].protected
              /\ db.role[r].of \in Users => db'.role[r].of = db.role[r].of,
           \A g \in Ids : db.group[g] = NoRow /\ g[1] # ticket[x] => db'.group[g] = NoRow
    PROVE  Kindly(x)
<1>1. StoreIds' = StoreIds
    BY DEF StoreIds, Rows
<1>2. \A s \in StoreIds : db'.store[s] # NoRow /\ db'.store[s].of = db.store[s].of
    BY DEF StoreIds, Rows
<1>3. ASSUME NEW n \in 0..MaxJobs, Unused(n), n # ticket[x] PROVE Unused(n)'
  <2>1. ASSUME NEW k \in 1..5
        PROVE  db'.role[<<n, k>>] = NoRow /\ db'.store[<<n, k>>] = NoRow
               /\ db'.group[<<n, k>>] = NoRow
    <3>1. <<n, k>> \in Ids /\ <<n, k>>[1] = n
      BY DEF Ids
    <3>2. <<n, k>> \notin RoleIds /\ db.group[<<n, k>>] = NoRow /\ db.store[<<n, k>>] = NoRow
      BY <1>3 DEF Unused, RoleIds, Rows
    <3>3. QED
      BY <1>3, <3>1, <3>2
  <2>2. QED
    BY <2>1 DEF Unused
<1>4. ASSUME NEW y \in Handlers \ {x}, Active(y)
      PROVE  /\ pc[y] = "cloned" => db'.business[job[y].actor] = NoRow
             /\ pc[y] = "placed" => ~StoreNamed(job[y].place, job[y].name)'
  <2>1. job[y] \in JobType /\ Flushes(y) /\ job'[y] = job[y]
    BY <1>4, UnderWay DEF Alone
  <2>2. StoreNamed(job[y].place, job[y].name)' <=> StoreNamed(job[y].place, job[y].name)
    BY <1>1, <2>1 DEF StoreNamed
  <2>3. QED
    BY <2>1, <2>2 DEF Flushes
<1>5. QED
    BY <1>2, <1>3, <1>4 DEF Kindly

\* The rows of a step's own number are nobody's yet.
LEMMA OwnRow ==
    ASSUME AccessInv, NEW x \in Handlers, Active(x)
    PROVE  /\ Row(x) \in Ids /\ Row(x)[1] = ticket[x] /\ ticket[x] \in 1..jobs
           /\ db.role[Row(x)] = NoRow /\ db.store[Row(x)] = NoRow /\ db.group[Row(x)] = NoRow
           /\ \A n \in 0..MaxJobs : n > jobs => n # ticket[x]
<1>1. Row(x) \in Ids /\ Row(x)[1] = ticket[x] /\ ticket[x] \in 1..jobs /\ Unused(ticket[x])
    BY UnderWay DEF Row
<1>2. jobs \in 0..MaxJobs
    BY DEF AccessInv, TypeOK
<1>3. QED
    BY <1>1, <1>2 DEF Unused, Row

\* What is not used beyond the requests so far stays so.
LEMMA UnusedStays ==
    ASSUME AccessInv, NEW x \in Handlers, Active(x), jobs' = jobs, Kindly(x)
    PROVE  \A n \in 0..MaxJobs : n > jobs' => Unused(n)'
<1>1. \A n \in 0..MaxJobs : n > jobs => Unused(n) /\ n # ticket[x]
    BY TablesAre, OwnRow
<1>2. QED
    BY <1>1 DEF Kindly

\* Its owner's role and its first store.
Whole(u) ==
    /\ \E r \in HeldAt(u, u) : db.role[r].protected /\ Wildcard \in CodesOf(r)
    /\ \E s \in StoreIds : db.store[s].of = u

\* A business stays whole while its protected role, the holder and the "*" of
\* that role, and its stores stay.
LEMMA WholeStays ==
    ASSUME BusinessIsWhole,
           \A u \in Users : db'.business[u] # NoRow => db.business[u] # NoRow \/ Whole(u)',
           \A r \in RoleIds : db.role[r].protected =>
              /\ r \in RoleIds' /\ db'.role[r] = db.role[r]
              /\ \A u \in Users : <<u, Anywhere, r>> \in db.holds => <<u, Anywhere, r>> \in db'.holds
              /\ <<r, Wildcard>> \in db.permits => <<r, Wildcard>> \in db'.permits,
           \A s \in StoreIds : s \in StoreIds' /\ db'.store[s].of = db.store[s].of,
           Rows(db.setting)' = StoreIds'
    PROVE  BusinessIsWhole'
<1>1. ASSUME NEW u \in Users, db.business[u] # NoRow PROVE Whole(u)'
  <2>1. PICK r \in HeldAt(u, u) : db.role[r].protected /\ Wildcard \in CodesOf(r)
    BY <1>1 DEF BusinessIsWhole
  <2>2. r \in RoleIds /\ <<u, Anywhere, r>> \in db.holds /\ db.role[r].of = u /\ <<r, Wildcard>> \in db.permits
    BY <2>1 DEF HeldAt, CodesOf
  <2>3. /\ r \in RoleIds' /\ db'.role[r] = db.role[r]
        /\ <<u, Anywhere, r>> \in db'.holds /\ <<r, Wildcard>> \in db'.permits
    BY <2>1, <2>2
  <2>4. r \in HeldAt(u, u)' /\ Wildcard \in CodesOf(r)'
    BY <2>2, <2>3, AccessAssumption DEF HeldAt, CodesOf
  <2>5. PICK s \in StoreIds : db.store[s].of = u
    BY <1>1 DEF BusinessIsWhole
  <2>6. s \in StoreIds' /\ db'.store[s].of = u
    BY <2>5
  <2>7. QED
    BY <2>1, <2>3, <2>4, <2>6 DEF Whole
<1>2. QED
    BY <1>1 DEF BusinessIsWhole, Whole

\* No row is one of the things a field may hold.
LEMMA NoRowIsNone ==
    /\ NoRow \notin RoleRow /\ NoRow \notin StoreRow /\ NoRow \notin Names /\ NoRow \notin Kinds
    /\ NoRow \notin Statuses /\ NoRow \notin Settings /\ NoRow \notin Ids /\ NoRow \notin Users
    BY AccessAssumption

----------------------------------------------------------------------------
(* Roles.                                                                   *)

\* A role is made.
LEMMA InsertRoleKeeps ==
    ASSUME AccessInv, NEW x \in Handlers, InsertRole(x)
    PROVE  AccessInv' /\ Fixed
<1>1. pc[x] = "commit" /\ job[x].op = "newrole"
    BY DEF InsertRole
<1>2. Active(x) /\ Relies(x) /\ job[x] \in JobType
    BY <1>1, AtCommit
<1>3. PICK j \in JobType : j = job[x]
    BY <1>2
<1>4. PICK row : row = [of |-> j.place, name |-> j.name, protected |-> FALSE]
    OBVIOUS
<1>5. PICK new \in Ids : new = Row(x)
    BY <1>2, OwnRow
<1>6. \/ RoleFits(j.place, j.name, NoRow) /\ db' = [db EXCEPT !.role[new] = row] /\ Wrote(x)
      \/ Failed(x)
    BY <1>3, <1>4, <1>5, CommitIs DEF InsertRole
<1>7. CASE Failed(x)
    BY <1>2, <1>7, FailedKeeps
<1>8. CASE RoleFits(j.place, j.name, NoRow) /\ db' = [db EXCEPT !.role[new] = row] /\ Wrote(x)
  <2>1. /\ j.on \in {"business", "group", "platform"} /\ j.name \in Names
        /\ j.place \in Users \cup Ids \cup {Platform}
        /\ j.on = "business" => db.business[j.place] # NoRow
        /\ j.on = "group" => j.place \in Ids
        /\ j.on = "platform" => j.place = Platform
    BY <1>1, <1>2, <1>3, JobIs DEF Relies
  <2>2. row \in RoleRow /\ row # NoRow /\ row.of = j.place /\ row.name = j.name /\ ~row.protected
    <3>1. row.of = j.place /\ row.name = j.name /\ ~row.protected
      BY <1>4
    <3>2. row \in RoleRow
      BY <1>4, <2>1 DEF RoleRow
    <3>3. QED
      BY <3>1, <3>2, NoRowIsNone
  <2>3. /\ db \in Tables /\ BusinessIsWhole /\ RolesExist /\ NamesUnique
        /\ HeldWhereItBelongs /\ OnlyOwnerHoldsAll
    BY TablesAre
  <2>4. /\ db'.people = db.people /\ db'.business = db.business /\ db'.permits = db.permits
        /\ db'.holds = db.holds /\ db'.store = db.store /\ db'.setting = db.setting
        /\ db'.group = db.group /\ db'.member = db.member /\ db'.templates = db.templates
        /\ db'.role = [db.role EXCEPT ![new] = row]
    BY <1>8, <2>3 DEF Tables
  <2>5. \A r \in Ids : db'.role[r] = IF r = new THEN row ELSE db.role[r]
    BY <2>3, <2>4, TableTypes
  <2>6. db' \in Tables
    BY <1>8, <2>2, <2>3, <2>4, TableTypes DEF Tables
  <2>7. /\ new \notin RoleIds /\ new[1] = ticket[x]
        /\ RoleIds' = RoleIds \cup {new} /\ StoreIds' = StoreIds /\ GroupIds' = GroupIds
    BY <1>2, <1>5, <2>2, <2>4, <2>5, OwnRow DEF RoleIds, StoreIds, GroupIds, Rows
  <2>8. \A r \in RoleIds : r # new /\ r \in RoleIds' /\ db'.role[r] = db.role[r] /\ r \in Ids
    BY <2>5, <2>7 DEF RoleIds, Rows
  <2>9. Alone(x) /\ claims' = claims /\ jobs' = jobs
    BY <1>8, WroteIsAlone
  <2>10. Kindly(x)
    BY <2>4, <2>5, <2>7, <2>9, KindlyRows DEF KindOf, RoleIds, Rows
  <2>11. BusinessIsWhole'
    <3>1. Rows(db.setting)' = Rows(db.setting) /\ (\A s \in StoreIds : db'.store[s].of = db.store[s].of)
      BY <2>4 DEF Rows
    <3>2. Rows(db.setting) = StoreIds
      BY <2>3 DEF BusinessIsWhole
    <3>3. QED
      BY <2>3, <2>4, <2>7, <2>8, <3>1, <3>2, WholeStays
  <2>12. RolesExist'
    <3>1. row.of \in Ids => row.of \in GroupIds
      BY <1>8, <2>2 DEF RoleFits
    <3>2. row.of \in Users => db.business[row.of] # NoRow
      BY <2>1, <2>2, AccessAssumption
    <3>3. QED
      BY <2>3, <2>4, <2>5, <2>7, <2>8, <2>9, <3>1, <3>2 DEF RolesExist
  <2>13. NamesUnique'
    <3>1. \A r \in RoleIds : row.of \notin Ids =>
             <<db.role[r].of, db.role[r].name>> # <<row.of, row.name>>
      BY <1>8, <2>2, AccessAssumption DEF RoleFits, UniqueName, NameTaken, RoleIds, Rows
    <3>2. ASSUME NEW q \in RoleIds', NEW r \in RoleIds', q # r, db'.role[q].of \notin Ids
          PROVE  <<db'.role[q].of, db'.role[q].name>> # <<db'.role[r].of, db'.role[r].name>>
      <4>1. CASE q = new
        BY <2>5, <2>7, <2>8, <3>1, <3>2, <4>1
      <4>2. CASE r = new
        BY <2>5, <2>7, <2>8, <3>1, <3>2, <4>2
      <4>3. CASE q # new /\ r # new
        BY <2>3, <2>7, <2>8, <3>2, <4>3 DEF NamesUnique
      <4>4. QED
        BY <4>1, <4>2, <4>3
    <3>3. QED
      BY <2>3, <2>4, <2>7, <3>2 DEF NamesUnique
  <2>14. HeldWhereItBelongs'
    BY <2>3, <2>4, <2>7, <2>8 DEF HeldWhereItBelongs, RolesExist
  <2>15. OnlyOwnerHoldsAll'
    BY <2>2, <2>3, <2>4, <2>5, <2>7, <2>8, <2>9 DEF OnlyOwnerHoldsAll, RolesExist
  <2>16. TablesInv'
    BY <1>2, <2>9, <2>10, <2>11, <2>12, <2>13, <2>14, <2>15, UnusedStays DEF TablesInv
  <2>17. Fixed
    BY <2>4, <2>8 DEF Fixed, CodesOf, HoldersOf
  <2>18. QED
    BY <1>2, <1>8, <2>6, <2>10, <2>16, <2>17, WroteKeeps
<1>9. QED
    BY <1>6, <1>7, <1>8

\* A role is renamed, or moved to another group.
LEMMA WriteRoleKeeps ==
    ASSUME AccessInv, NEW x \in Handlers, WriteRole(x)
    PROVE  AccessInv' /\ Fixed
<1>1. pc[x] = "commit" /\ job[x].op = "editrole"
    BY DEF WriteRole
<1>2. Active(x) /\ Relies(x) /\ job[x] \in JobType
    BY <1>1, AtCommit
<1>3. PICK j \in JobType : j = job[x]
    BY <1>2
<1>4. PICK p : p = pick[x]
    OBVIOUS
<1>5. p \in Ids /\ (p \in RoleIds => KindOf(p) = KindFor(j) /\ ~db.role[p].protected)
    BY <1>1, <1>2, <1>3, <1>4, PickIs DEF RoleOps, Relies
<1>6. \/ /\ p \in RoleIds /\ RoleFits(j.place, j.name, p) /\ Wrote(x)
         /\ db' = [db EXCEPT !.role[p].of = j.place, !.role[p].name = j.name]
      \/ Failed(x)
    BY <1>3, <1>4, CommitIs DEF WriteRole
<1>7. CASE Failed(x)
    BY <1>2, <1>7, FailedKeeps
<1>8. CASE /\ p \in RoleIds /\ RoleFits(j.place, j.name, p) /\ Wrote(x)
           /\ db' = [db EXCEPT !.role[p].of = j.place, !.role[p].name = j.name]
  <2>1. /\ j.on \in {"business", "group", "platform"} /\ j.name \in Names
        /\ j.place \in Users \cup Ids \cup {Platform}
        /\ j.on = "business" => db.business[j.place] # NoRow /\ db.role[p].of = j.place
        /\ j.on = "group" => j.place \in Ids
        /\ j.on = "platform" => j.place = Platform
    BY <1>1, <1>2, <1>3, <1>4, <1>8, JobIs DEF Relies
  <2>2. /\ db \in Tables /\ BusinessIsWhole /\ RolesExist /\ NamesUnique
        /\ HeldWhereItBelongs /\ OnlyOwnerHoldsAll
    BY TablesAre
  <2>3. db.role[p] \in RoleRow
    BY <1>5, <1>8, <2>2, RowTypes
  <2>4. PICK row : row = [db.role[p] EXCEPT !.of = j.place, !.name = j.name]
    OBVIOUS
  <2>5. /\ row.of = j.place /\ row.name = j.name /\ row.protected = db.role[p].protected
        /\ row \in RoleRow /\ row # NoRow
    <3>1. row.of = j.place /\ row.name = j.name /\ row.protected = db.role[p].protected
      BY <2>3, <2>4 DEF RoleRow
    <3>2. row \in RoleRow
      BY <2>1, <2>3, <2>4 DEF RoleRow
    <3>3. QED
      BY <3>1, <3>2, NoRowIsNone
  <2>6. /\ db'.people = db.people /\ db'.business = db.business /\ db'.permits = db.permits
        /\ db'.holds = db.holds /\ db'.store = db.store /\ db'.setting = db.setting
        /\ db'.group = db.group /\ db'.member = db.member /\ db'.templates = db.templates
        /\ db'.role = [db.role EXCEPT ![p] = row]
    <3>1. db' = [db EXCEPT !.role = [db.role EXCEPT ![p] = row]]
      BY <1>5, <1>8, <2>2, <2>3, <2>4, TableTypes DEF Tables, RoleRow
    <3>2. QED
      BY <2>2, <3>1 DEF Tables
  <2>7. \A r \in Ids : db'.role[r] = IF r = p THEN row ELSE db.role[r]
    BY <2>2, <2>6, TableTypes
  <2>8. db' \in Tables
    <3>1. db' = [db EXCEPT !.role = db'.role]
      BY <1>8, <2>2, <2>6 DEF Tables
    <3>2. db'.role \in [Ids -> RoleRow \cup {NoRow}]
      BY <2>2, <2>5, <2>6, TableTypes
    <3>3. QED
      BY <2>2, <3>1, <3>2 DEF Tables
  <2>9. RoleIds' = RoleIds /\ StoreIds' = StoreIds /\ GroupIds' = GroupIds
    BY <1>5, <1>8, <2>5, <2>6, <2>7 DEF RoleIds, StoreIds, GroupIds, Rows
  <2>10. \A r \in RoleIds : r \in Ids /\ (db.role[r].protected => r # p /\ db'.role[r] = db.role[r])
    BY <1>5, <2>7 DEF RoleIds, Rows
  <2>11. db.role[p].of \in Users => row.of = db.role[p].of
    BY <1>5, <1>8, <2>1, <2>5 DEF KindOf, KindFor
  <2>12. row.of \in Users => row.of = db.role[p].of
    BY <2>1, <2>5, AccessAssumption
  <2>13. KindOf(p)' = KindOf(p)
    <3>1. CASE j.on = "business"
      BY <1>5, <2>1, <2>5, <2>7, <3>1 DEF KindOf
    <3>2. CASE j.on = "group"
      <4>1. KindOf(p) = "group" /\ row.of \in Ids
        BY <1>5, <1>8, <2>1, <2>5, <3>2 DEF KindFor
      <4>2. row.of \notin Users /\ row.of # Platform
        BY <4>1, AccessAssumption
      <4>3. KindOf(p)' = "group"
        BY <1>5, <2>7, <4>2 DEF KindOf
      <4>4. QED
        BY <4>1, <4>3
    <3>3. CASE j.on = "platform"
      <4>1. KindOf(p) = "platform" /\ row.of = Platform
        BY <1>5, <1>8, <2>1, <2>5, <3>3 DEF KindFor
      <4>2. KindOf(p)' = "platform"
        BY <1>5, <2>7, <4>1, AccessAssumption DEF KindOf
      <4>3. QED
        BY <4>1, <4>2
    <3>4. QED
      BY <2>1, <3>1, <3>2, <3>3
  <2>14. Alone(x) /\ claims' = claims /\ jobs' = jobs
    BY <1>8, WroteIsAlone
  <2>15. Kindly(x)
    <3>1. ASSUME NEW r \in Ids, db'.role[r] # NoRow
          PROVE  /\ r \in RoleIds /\ KindOf(r)' = KindOf(r)
                 /\ db'.role[r].protected = db.role[r].protected
                 /\ db.role[r].of \in Users => db'.role[r].of = db.role[r].of
      <4>1. CASE r = p
        BY <1>8, <2>5, <2>7, <2>11, <2>13, <4>1
      <4>2. CASE r # p
        BY <2>7, <3>1, <4>2 DEF KindOf, RoleIds, Rows
      <4>3. QED
        BY <4>1, <4>2
    <3>2. QED
      BY <2>6, <2>14, <3>1, KindlyRows
  <2>16. BusinessIsWhole'
    <3>1. Rows(db.setting)' = Rows(db.setting) /\ Rows(db.setting) = StoreIds
      BY <2>2, <2>6 DEF Rows, BusinessIsWhole
    <3>2. QED
      BY <2>2, <2>6, <2>9, <2>10, <3>1, WholeStays
  <2>17. RolesExist'
    <3>1. row.of \in Ids => row.of \in GroupIds
      BY <1>8, <2>5 DEF RoleFits
    <3>2. row.of \in Users => db.business[row.of] # NoRow
      BY <1>8, <2>2, <2>12 DEF RolesExist
    <3>3. QED
      BY <2>2, <2>6, <2>7, <2>9, <2>10, <2>14, <3>1, <3>2 DEF RolesExist
  <2>18. NamesUnique'
    <3>1. \A r \in RoleIds \ {p} : row.of \notin Ids =>
             <<db.role[r].of, db.role[r].name>> # <<row.of, row.name>>
      BY <1>8, <2>5 DEF RoleFits, UniqueName, NameTaken
    <3>2. ASSUME NEW q \in RoleIds, NEW r \in RoleIds, q # r, db'.role[q].of \notin Ids
          PROVE  <<db'.role[q].of, db'.role[q].name>> # <<db'.role[r].of, db'.role[r].name>>
      <4>1. CASE q = p
        BY <2>7, <2>10, <3>1, <3>2, <4>1
      <4>2. CASE r = p
        BY <2>7, <2>10, <3>1, <3>2, <4>2
      <4>3. CASE q # p /\ r # p
        BY <2>2, <2>7, <2>10, <3>2, <4>3 DEF NamesUnique
      <4>4. QED
        BY <4>1, <4>2, <4>3
    <3>3. QED
      BY <2>2, <2>6, <2>9, <3>2 DEF NamesUnique
  <2>19. HeldWhereItBelongs'
    <3>1. ASSUME NEW h \in db.holds, h[2] \in StoreIds
          PROVE  db'.role[h[3]].of = db.store[h[2]].of
      <4>1. h[3] \in RoleIds /\ db.role[h[3]].of = db.store[h[2]].of
        BY <2>2, <3>1 DEF HeldWhereItBelongs, RolesExist
      <4>2. db.store[h[2]].of \in Users
        BY <2>2, <3>1, RowTypes DEF StoreIds, Rows
      <4>3. h[3] \in Ids
        BY <2>10, <4>1
      <4>4. QED
        BY <2>7, <2>11, <4>1, <4>2, <4>3
    <3>2. QED
      BY <2>6, <2>9, <3>1 DEF HeldWhereItBelongs
  <2>20. OnlyOwnerHoldsAll'
    <3>1. \A r \in RoleIds : db'.role[r].protected <=> db.role[r].protected
      BY <2>5, <2>7, <2>10
    <3>2. QED
      BY <2>2, <2>6, <2>9, <2>10, <2>14, <3>1 DEF OnlyOwnerHoldsAll, RolesExist
  <2>21. TablesInv'
    BY <1>2, <2>14, <2>15, <2>16, <2>17, <2>18, <2>19, <2>20, UnusedStays DEF TablesInv
  <2>22. Fixed
    BY <2>6, <2>10 DEF Fixed, CodesOf, HoldersOf
  <2>23. QED
    BY <1>2, <1>8, <2>8, <2>15, <2>21, <2>22, WroteKeeps
<1>9. QED
    BY <1>6, <1>7, <1>8

\* A role that nobody holds and that grants nothing is deleted.
LEMMA EraseRoleKeeps ==
    ASSUME AccessInv, NEW x \in Handlers, EraseRole(x)
    PROVE  AccessInv' /\ Fixed
<1>1. pc[x] = "commit" /\ job[x].op = "droprole"
    BY DEF EraseRole
<1>2. Active(x) /\ Relies(x) /\ job[x] \in JobType
    BY <1>1, AtCommit
<1>3. PICK p : p = pick[x]
    OBVIOUS
<1>4. p \in Ids /\ (p \in RoleIds => ~db.role[p].protected)
    BY <1>1, <1>2, <1>3, PickIs DEF RoleOps, Relies
<1>5. \/ (p \notin RoleIds \/ ~Referred(p)) /\ Wrote(x) /\ db' = [db EXCEPT !.role[p] = NoRow]
      \/ Failed(x)
    BY <1>3, CommitIs DEF EraseRole
<1>6. CASE Failed(x)
    BY <1>2, <1>6, FailedKeeps
<1>7. CASE (p \notin RoleIds \/ ~Referred(p)) /\ Wrote(x) /\ db' = [db EXCEPT !.role[p] = NoRow]
  <2>1. /\ db \in Tables /\ BusinessIsWhole /\ RolesExist /\ NamesUnique
        /\ HeldWhereItBelongs /\ OnlyOwnerHoldsAll
    BY TablesAre
  <2>2. /\ db'.people = db.people /\ db'.business = db.business /\ db'.permits = db.permits
        /\ db'.holds = db.holds /\ db'.store = db.store /\ db'.setting = db.setting
        /\ db'.group = db.group /\ db'.member = db.member /\ db'.templates = db.templates
        /\ db'.role = [db.role EXCEPT ![p] = NoRow]
    BY <1>7, <2>1 DEF Tables
  <2>3. \A r \in Ids : db'.role[r] = IF r = p THEN NoRow ELSE db.role[r]
    BY <2>1, <2>2, TableTypes
  <2>4. db' \in Tables
    BY <1>7, <2>1, <2>2, TableTypes DEF Tables
  <2>5. RoleIds' = RoleIds \ {p} /\ StoreIds' = StoreIds /\ GroupIds' = GroupIds
    BY <2>2, <2>3 DEF RoleIds, StoreIds, GroupIds, Rows
  <2>6. \A r \in RoleIds \ {p} : r \in Ids /\ db'.role[r] = db.role[r]
    BY <2>3 DEF RoleIds, Rows
  <2>7. (\A q \in db.permits : q[1] # p) /\ (\A h \in db.holds : h[3] # p)
    <3>1. CASE p \notin RoleIds
      BY <2>1, <3>1 DEF RolesExist
    <3>2. CASE ~Referred(p)
      <4>1. HoldersOf(p) = {} /\ CodesOf(p) = {}
        BY <3>2 DEF Referred
      <4>2. \A h \in db.holds : h[3] # p
        BY <4>1 DEF HoldersOf
      <4>3. ASSUME NEW q \in db.permits PROVE q[1] # p
        <5>1. q = <<q[1], q[2]>> /\ q[2] \in Codes
          BY <2>1, TableTypes
        <5>2. QED
          BY <4>1, <5>1 DEF CodesOf
      <4>4. QED
        BY <4>2, <4>3
    <3>3. QED
      BY <1>7, <3>1, <3>2
  <2>8. Alone(x) /\ claims' = claims /\ jobs' = jobs
    BY <1>7, WroteIsAlone
  <2>9. Kindly(x)
    <3>1. ASSUME NEW r \in Ids, db'.role[r] # NoRow
          PROVE  r \in RoleIds /\ db'.role[r] = db.role[r] /\ KindOf(r)' = KindOf(r)
      BY <2>3, <3>1 DEF KindOf, RoleIds, Rows
    <3>2. QED
      BY <2>2, <2>8, <3>1, KindlyRows
  <2>10. BusinessIsWhole'
    <3>1. Rows(db.setting)' = Rows(db.setting) /\ Rows(db.setting) = StoreIds
      BY <2>1, <2>2 DEF Rows, BusinessIsWhole
    <3>2. \A r \in RoleIds : db.role[r].protected => r # p
      BY <1>4
    <3>3. QED
      BY <2>1, <2>2, <2>5, <2>6, <3>1, <3>2, WholeStays
  <2>11. RolesExist' /\ NamesUnique' /\ HeldWhereItBelongs' /\ OnlyOwnerHoldsAll'
    <3>1. RolesExist'
      BY <2>1, <2>2, <2>5, <2>6, <2>7, <2>8 DEF RolesExist
    <3>2. NamesUnique'
      BY <2>1, <2>2, <2>5, <2>6 DEF NamesUnique
    <3>3. HeldWhereItBelongs'
      BY <2>1, <2>2, <2>5, <2>6, <2>7 DEF HeldWhereItBelongs, RolesExist
    <3>4. OnlyOwnerHoldsAll'
      BY <2>1, <2>2, <2>5, <2>6, <2>7, <2>8 DEF OnlyOwnerHoldsAll, RolesExist
    <3>5. QED
      BY <3>1, <3>2, <3>3, <3>4
  <2>12. TablesInv'
    BY <1>2, <2>8, <2>9, <2>10, <2>11, UnusedStays DEF TablesInv
  <2>13. Fixed
    BY <1>4, <2>2, <2>6 DEF Fixed, CodesOf, HoldersOf
  <2>14. QED
    BY <1>2, <1>7, <2>4, <2>9, <2>12, <2>13, WroteKeeps
<1>8. QED
    BY <1>5, <1>6, <1>7

\* A permission is added to a role, or taken from it: neither "*", nor to or
\* from the owner's role.
LEMMA PermissionsKeep ==
    ASSUME AccessInv, NEW x \in Handlers, InsertPermission(x) \/ ErasePermission(x)
    PROVE  AccessInv' /\ Fixed
<1>1. pc[x] = "commit" /\ job[x].op \in {"grant", "ungrant"}
      /\ (InsertPermission(x) => job[x].op = "grant")
    BY DEF InsertPermission, ErasePermission
<1>2. Active(x) /\ Relies(x) /\ job[x] \in JobType
    BY <1>1, AtCommit
<1>3. PICK p, c : p = pick[x] /\ c = job[x].code
    OBVIOUS
<1>4. p \in Ids /\ c \in Codes /\ (p \in RoleIds => ~db.role[p].protected)
      /\ (InsertPermission(x) => c # Wildcard)
    BY <1>1, <1>2, <1>3, PickIs, JobIs DEF RoleOps, Relies, Grantable
<1>5. \/ /\ p \in RoleIds /\ c # Wildcard /\ Wrote(x)
         /\ db' = [db EXCEPT !.permits = @ \cup {<<p, c>>}]
      \/ Wrote(x) /\ db' = [db EXCEPT !.permits = @ \ {<<p, c>>}]
      \/ Failed(x)
  <2>1. CASE InsertPermission(x)
    BY <1>3, <1>4, <2>1, CommitIs DEF InsertPermission
  <2>2. CASE ErasePermission(x)
    BY <1>3, <2>2, CommitIs DEF ErasePermission
  <2>3. QED
    BY <2>1, <2>2
<1>6. CASE Failed(x)
    BY <1>2, <1>6, FailedKeeps
<1>7. ASSUME NEW permits \in SUBSET (Ids \X Codes), db' = [db EXCEPT !.permits = permits], Wrote(x),
             \A q \in permits : q \in db.permits \/ (q = <<p, c>> /\ p \in RoleIds /\ c # Wildcard),
             \A q \in db.permits : q \in permits \/ q = <<p, c>>
      PROVE  AccessInv' /\ Fixed
  <2>1. /\ db \in Tables /\ BusinessIsWhole /\ RolesExist /\ NamesUnique
        /\ HeldWhereItBelongs /\ OnlyOwnerHoldsAll
    BY TablesAre
  <2>2. /\ db'.people = db.people /\ db'.business = db.business /\ db'.permits = permits
        /\ db'.holds = db.holds /\ db'.store = db.store /\ db'.setting = db.setting
        /\ db'.group = db.group /\ db'.member = db.member /\ db'.templates = db.templates
        /\ db'.role = db.role
    BY <1>7, <2>1 DEF Tables
  <2>3. db' \in Tables
    BY <1>7, <2>1 DEF Tables
  <2>4. RoleIds' = RoleIds /\ StoreIds' = StoreIds /\ GroupIds' = GroupIds
    BY <2>2 DEF RoleIds, StoreIds, GroupIds, Rows
  <2>5. Alone(x) /\ claims' = claims /\ jobs' = jobs
    BY <1>7, WroteIsAlone
  <2>6. Kindly(x)
    BY <2>2, <2>5, KindlyStays
  <2>7. \A r \in RoleIds : db.role[r].protected => \A k : <<r, k>> \in permits <=> <<r, k>> \in db.permits
    BY <1>4, <1>7
  <2>8. BusinessIsWhole'
    <3>1. Rows(db.setting)' = Rows(db.setting) /\ Rows(db.setting) = StoreIds
      BY <2>1, <2>2 DEF Rows, BusinessIsWhole
    <3>2. QED
      BY <2>1, <2>2, <2>4, <2>7, <3>1, WholeStays
  <2>9. RolesExist' /\ NamesUnique' /\ HeldWhereItBelongs'
    BY <1>7, <2>1, <2>2, <2>4, <2>5 DEF RolesExist, NamesUnique, HeldWhereItBelongs
  <2>10. OnlyOwnerHoldsAll'
    BY <1>7, <2>1, <2>2, <2>4, <2>5 DEF OnlyOwnerHoldsAll
  <2>11. TablesInv'
    BY <1>2, <2>5, <2>6, <2>8, <2>9, <2>10, UnusedStays DEF TablesInv
  <2>12. Fixed
    BY <2>2, <2>7 DEF Fixed, CodesOf, HoldersOf
  <2>13. QED
    BY <1>2, <1>7, <2>3, <2>6, <2>11, <2>12, WroteKeeps
<1>8. db \in Tables /\ db.permits \in SUBSET (Ids \X Codes)
    BY TablesAre, TableTypes
<1>9. CASE /\ p \in RoleIds /\ c # Wildcard /\ Wrote(x)
           /\ db' = [db EXCEPT !.permits = @ \cup {<<p, c>>}]
  <2>1. PICK permits : permits = db.permits \cup {<<p, c>>}
    OBVIOUS
  <2>2. permits \in SUBSET (Ids \X Codes) /\ db' = [db EXCEPT !.permits = permits]
    BY <1>4, <1>8, <1>9, <2>1
  <2>3. QED
    BY <1>7, <1>9, <2>1, <2>2
<1>10. CASE Wrote(x) /\ db' = [db EXCEPT !.permits = @ \ {<<p, c>>}]
  <2>1. PICK permits : permits = db.permits \ {<<p, c>>}
    OBVIOUS
  <2>2. permits \in SUBSET (Ids \X Codes) /\ db' = [db EXCEPT !.permits = permits]
    BY <1>8, <1>10, <2>1
  <2>3. QED
    BY <1>7, <1>10, <2>1, <2>2
<1>11. QED
    BY <1>5, <1>6, <1>9, <1>10

\* A role is given to a user, who may be a new one: not the owner's, and in a
\* store only one of its business.
LEMMA InsertHolderKeeps ==
    ASSUME AccessInv, NEW x \in Handlers, InsertHolder(x)
    PROVE  AccessInv' /\ Fixed
<1>1. pc[x] = "commit" /\ job[x].op = "assign"
    BY DEF InsertHolder
<1>2. Active(x) /\ Relies(x) /\ Known(job[x]) /\ job[x] \in JobType
    BY <1>1, AtCommit
<1>3. PICK j \in JobType : j = job[x]
    BY <1>2
<1>4. PICK p, at, k : /\ p = pick[x] /\ at = (IF j.on = "store" THEN j.place ELSE Anywhere)
                      /\ k = Target(x)
    OBVIOUS
<1>5. PICK u \in Users : u = j.user
    BY <1>3, JobIs
<1>6. \/ /\ p \in RoleIds /\ Wrote(x)
         /\ db' = [db EXCEPT !.holds = @ \cup {<<u, at, p>>}, !.people[u] = k]
      \/ Failed(x)
    BY <1>3, <1>4, <1>5, CommitIs DEF InsertHolder, Holding
<1>7. CASE Failed(x)
    BY <1>2, <1>7, FailedKeeps
<1>8. CASE /\ p \in RoleIds /\ Wrote(x)
           /\ db' = [db EXCEPT !.holds = @ \cup {<<u, at, p>>}, !.people[u] = k]
  <2>1. /\ db \in Tables /\ BusinessIsWhole /\ RolesExist /\ NamesUnique
        /\ HeldWhereItBelongs /\ OnlyOwnerHoldsAll
    BY TablesAre
  <2>2. p \in Ids /\ ~db.role[p].protected
    BY <1>1, <1>2, <1>4, <1>8, PickIs DEF Relies, RoleOps
  <2>3. at \in StoreIds => db.role[p].of = db.store[at].of
    BY <1>1, <1>2, <1>3, <1>4, <1>8, AccessAssumption DEF Relies, RoleOps, StoreIds, Rows
  <2>4. at \in StoreIds \cup {Anywhere}
    BY <1>1, <1>2, <1>3, <1>4 DEF Known, StoreOps
  <2>5. k \in Kinds /\ k # NoRow
    <3>1. db.people[u] \in Kinds \cup {NoRow} /\ (j.on \in Kinds \/ db.people[u] # NoRow)
      BY <1>1, <1>2, <1>3, <1>5, <2>1, TableTypes DEF Relies
    <3>2. k \in Kinds
      BY <1>3, <1>4, <1>5, <3>1 DEF Target
    <3>3. QED
      BY <3>2, NoRowIsNone
  <2>6. /\ db'.people = [db.people EXCEPT ![u] = k] /\ db'.business = db.business
        /\ db'.permits = db.permits /\ db'.holds = db.holds \cup {<<u, at, p>>}
        /\ db'.store = db.store /\ db'.setting = db.setting
        /\ db'.group = db.group /\ db'.member = db.member /\ db'.templates = db.templates
        /\ db'.role = db.role
    BY <1>8, <2>1 DEF Tables
  <2>7. \A v \in Users : db'.people[v] = IF v = u THEN k ELSE db.people[v]
    BY <2>1, <2>6, TableTypes
  <2>8. db' \in Tables
    <3>1. <<u, at, p>> \in Users \X (Ids \cup {Anywhere}) \X Ids
      BY <2>2, <2>4 DEF StoreIds, Rows
    <3>2. PICK people, holds : people = db'.people /\ holds = db'.holds
      OBVIOUS
    <3>3. people \in [Users -> Kinds \cup {NoRow}]
      BY <2>1, <2>5, <2>6, <3>2, TableTypes
    <3>4. holds \in SUBSET (Users \X (Ids \cup {Anywhere}) \X Ids)
      BY <2>1, <2>6, <3>1, <3>2, TableTypes
    <3>5. db' = [db EXCEPT !.holds = holds, !.people = people]
      BY <1>8, <2>1, <2>6, <3>2 DEF Tables
    <3>6. QED
      BY <2>1, <3>3, <3>4, <3>5 DEF Tables
  <2>9. RoleIds' = RoleIds /\ StoreIds' = StoreIds /\ GroupIds' = GroupIds
    BY <2>6 DEF RoleIds, StoreIds, GroupIds, Rows
  <2>10. Alone(x) /\ claims' = claims /\ jobs' = jobs
    BY <1>8, WroteIsAlone
  <2>11. Kindly(x)
    BY <2>5, <2>6, <2>7, <2>10, KindlyStays
  <2>12. \A h \in db'.holds : h \in db.holds \/ (h = <<u, at, p>> /\ h[1] = u /\ h[2] = at /\ h[3] = p)
    BY <2>6
  <2>13. BusinessIsWhole'
    <3>1. Rows(db.setting)' = Rows(db.setting) /\ Rows(db.setting) = StoreIds
      BY <2>1, <2>6 DEF Rows, BusinessIsWhole
    <3>2. QED
      BY <2>1, <2>6, <2>9, <3>1, WholeStays
  <2>14. RolesExist'
    <3>1. \A h \in db'.holds : h[3] \in RoleIds /\ h[2] \in StoreIds \cup {Anywhere}
                                /\ db'.people[h[1]] # NoRow
      <4>1. ASSUME NEW h \in db.holds
            PROVE  h[3] \in RoleIds /\ h[2] \in StoreIds \cup {Anywhere} /\ db'.people[h[1]] # NoRow
        <5>1. h[1] \in Users
          BY <2>1, TableTypes
        <5>2. QED
          BY <2>1, <2>5, <2>7, <5>1 DEF RolesExist
      <4>2. QED
        BY <1>8, <2>4, <2>5, <2>7, <2>12, <4>1
    <3>2. \A v \in Users : claims'[v] # NoRow => db'.people[v] # NoRow
      BY <2>1, <2>5, <2>7, <2>10 DEF RolesExist
    <3>3. QED
      BY <2>1, <2>6, <2>9, <3>1, <3>2 DEF RolesExist
  <2>15. NamesUnique'
    BY <2>1, <2>6, <2>9 DEF NamesUnique
  <2>16. HeldWhereItBelongs'
    BY <2>1, <2>3, <2>6, <2>9, <2>12 DEF HeldWhereItBelongs
  <2>17. OnlyOwnerHoldsAll'
    BY <2>1, <2>2, <2>6, <2>9, <2>10, <2>12 DEF OnlyOwnerHoldsAll
  <2>18. TablesInv'
    BY <1>2, <2>10, <2>11, <2>13, <2>14, <2>15, <2>16, <2>17, UnusedStays DEF TablesInv
  <2>19. Fixed
    BY <2>2, <2>6, <2>12 DEF Fixed, CodesOf, HoldersOf
  <2>20. QED
    BY <1>2, <1>8, <2>8, <2>11, <2>18, <2>19, WroteKeeps
<1>9. QED
    BY <1>6, <1>7, <1>8

\* A role is taken from a user.
LEMMA EraseHolderKeeps ==
    ASSUME AccessInv, NEW x \in Handlers, EraseHolder(x)
    PROVE  AccessInv' /\ Fixed
<1>1. pc[x] = "commit" /\ job[x].op = "revoke"
    BY DEF EraseHolder
<1>2. Active(x) /\ Relies(x) /\ job[x] \in JobType
    BY <1>1, AtCommit
<1>3. PICK p, gone : p = pick[x] /\ gone = Holding(x)
    OBVIOUS
<1>4. (p \in RoleIds => ~db.role[p].protected) /\ gone[3] = p
    BY <1>1, <1>2, <1>3, PickIs DEF RoleOps, Relies, Holding
<1>5. Wrote(x) /\ db' = [db EXCEPT !.holds = @ \ {gone}]
    BY <1>3, CommitIs DEF EraseHolder
<1>6. /\ db \in Tables /\ BusinessIsWhole /\ RolesExist /\ NamesUnique
      /\ HeldWhereItBelongs /\ OnlyOwnerHoldsAll
    BY TablesAre
<1>7. /\ db'.people = db.people /\ db'.business = db.business /\ db'.permits = db.permits
      /\ db'.holds = db.holds \ {gone} /\ db'.store = db.store /\ db'.setting = db.setting
      /\ db'.group = db.group /\ db'.member = db.member /\ db'.templates = db.templates
      /\ db'.role = db.role
    BY <1>5, <1>6 DEF Tables
<1>8. db' \in Tables
  <2>1. PICK holds : holds = db.holds \ {gone}
    OBVIOUS
  <2>2. holds \in SUBSET (Users \X (Ids \cup {Anywhere}) \X Ids) /\ db' = [db EXCEPT !.holds = holds]
    BY <1>5, <1>6, <2>1, TableTypes
  <2>3. QED
    BY <1>6, <2>2 DEF Tables
<1>9. RoleIds' = RoleIds /\ StoreIds' = StoreIds /\ GroupIds' = GroupIds
    BY <1>7 DEF RoleIds, StoreIds, GroupIds, Rows
<1>10. Alone(x) /\ claims' = claims /\ jobs' = jobs
    BY <1>5, WroteIsAlone
<1>11. Kindly(x)
    BY <1>7, <1>10, KindlyStays
<1>12. \A r \in RoleIds : db.role[r].protected =>
         \A h : h[3] = r => (h \in db'.holds <=> h \in db.holds)
    BY <1>4, <1>7
<1>13. BusinessIsWhole'
  <2>1. Rows(db.setting)' = Rows(db.setting) /\ Rows(db.setting) = StoreIds
    BY <1>6, <1>7 DEF Rows, BusinessIsWhole
  <2>2. \A r \in RoleIds : db.role[r].protected =>
          \A u \in Users : <<u, Anywhere, r>> \in db.holds => <<u, Anywhere, r>> \in db'.holds
    BY <1>12
  <2>3. QED
    BY <1>6, <1>7, <1>9, <2>1, <2>2, WholeStays
<1>14. RolesExist' /\ NamesUnique' /\ HeldWhereItBelongs'
    BY <1>6, <1>7, <1>9, <1>10 DEF RolesExist, NamesUnique, HeldWhereItBelongs
<1>15. OnlyOwnerHoldsAll'
    BY <1>6, <1>7, <1>9, <1>10 DEF OnlyOwnerHoldsAll
<1>16. TablesInv'
    BY <1>2, <1>10, <1>11, <1>13, <1>14, <1>15, UnusedStays DEF TablesInv
<1>17. Fixed
    BY <1>7, <1>12 DEF Fixed, CodesOf, HoldersOf
<1>18. QED
    BY <1>2, <1>5, <1>8, <1>11, <1>16, <1>17, WroteKeeps

----------------------------------------------------------------------------
(* Premises, members and categories.                                        *)

\* A write that leaves the roles, what they grant and who holds them, the names
\* and the references keeps the tables right.
LEMMA AsideKeeps ==
    ASSUME AccessInv, NEW x \in Handlers, Active(x), Wrote(x), db' \in Tables,
           db'.role = db.role, db'.permits = db.permits, db'.holds = db.holds,
           db'.store = db.store, db'.group = db.group, Rows(db.setting)' = Rows(db.setting),
           \A u \in Users : db'.business[u] # NoRow <=> db.business[u] # NoRow,
           \A u \in Users : db.people[u] # NoRow => db'.people[u] # NoRow,
           \A m \in db'.member : m[2] \in GroupIds
    PROVE  AccessInv' /\ Fixed
<1>1. /\ db \in Tables /\ BusinessIsWhole /\ RolesExist /\ NamesUnique
      /\ HeldWhereItBelongs /\ OnlyOwnerHoldsAll
    BY TablesAre
<1>2. Alone(x) /\ claims' = claims /\ jobs' = jobs
    BY WroteIsAlone
<1>3. RoleIds' = RoleIds /\ StoreIds' = StoreIds /\ GroupIds' = GroupIds
    BY DEF RoleIds, StoreIds, GroupIds, Rows
<1>4. \A s \in Ids : db.setting[s] # NoRow <=> db'.setting[s] # NoRow
    BY DEF Rows
<1>5. Kindly(x)
  <2>1. \A s \in StoreIds : db'.store[s] # NoRow /\ db'.store[s].of = db.store[s].of
    BY DEF StoreIds, Rows
  <2>2. \A r \in Ids : db'.role[r] # NoRow =>
          r \in RoleIds /\ KindOf(r)' = KindOf(r) /\ db'.role[r] = db.role[r]
    BY DEF KindOf, RoleIds, Rows
  <2>3. \A n \in 0..MaxJobs : Unused(n)' <=> Unused(n)
    BY DEF Unused
  <2>4. ASSUME NEW y \in Handlers \ {x}, Active(y)
        PROVE  /\ pc[y] = "cloned" => db'.business[job[y].actor] = NoRow
               /\ pc[y] = "placed" => ~StoreNamed(job[y].place, job[y].name)'
    <3>1. job[y] \in JobType /\ Flushes(y) /\ job'[y] = job[y]
      BY <1>2, <2>4, UnderWay DEF Alone
    <3>2. job[y].actor \in Users
      BY <3>1, JobIs
    <3>3. StoreNamed(job[y].place, job[y].name)' <=> StoreNamed(job[y].place, job[y].name)
      BY <1>3, <3>1 DEF StoreNamed
    <3>4. QED
      BY <3>1, <3>2, <3>3 DEF Flushes
  <2>5. QED
    BY <1>2, <1>4, <2>1, <2>2, <2>3, <2>4 DEF Kindly
<1>6. BusinessIsWhole'
  <2>1. Rows(db.setting) = StoreIds
    BY <1>1 DEF BusinessIsWhole
  <2>2. QED
    BY <1>1, <1>3, <2>1, WholeStays
<1>7. RolesExist'
  <2>1. \A h \in db.holds : h[1] \in Users
    BY <1>1, TableTypes
  <2>2. \A r \in RoleIds : db.role[r].of \in Users => db'.business[db.role[r].of] # NoRow
    BY <1>1 DEF RolesExist
  <2>3. \A s \in StoreIds : db'.business[db.store[s].of] # NoRow
    BY <1>1, RowTypes DEF RolesExist, StoreIds, Rows
  <2>4. \A u \in Users : claims'[u] # NoRow => db'.people[u] # NoRow
    BY <1>1, <1>2 DEF RolesExist
  <2>5. \A h \in db.holds : db'.people[h[1]] # NoRow
    BY <1>1, <2>1 DEF RolesExist
  <2>6. QED
    BY <1>1, <1>3, <2>2, <2>3, <2>4, <2>5 DEF RolesExist
<1>8. NamesUnique' /\ HeldWhereItBelongs' /\ OnlyOwnerHoldsAll'
    BY <1>1, <1>2, <1>3 DEF NamesUnique, HeldWhereItBelongs, OnlyOwnerHoldsAll
<1>9. TablesInv'
    BY <1>2, <1>5, <1>6, <1>7, <1>8, UnusedStays DEF TablesInv
<1>10. Fixed
    BY DEF Fixed, CodesOf, HoldersOf
<1>11. QED
    BY <1>5, <1>9, <1>10, WroteKeeps

\* The commits that do no more.
LEMMA AsidesKeep ==
    ASSUME AccessInv, NEW x \in Handlers,
           \/ CommitStatus(x) \/ WriteSetting(x) \/ InsertMember(x) \/ EraseMember(x)
           \/ SeedRoleTemplates(x)
    PROVE  AccessInv' /\ Fixed
<1>1. db \in Tables /\ RolesExist
    BY TablesAre
<1>2. Active(x) /\ job[x] \in JobType
    BY UnderWay DEF At, Active, CommitStatus, WriteSetting, InsertMember, EraseMember, SeedRoleTemplates
<1>3. CASE CommitStatus(x)
  <2>1. pc[x] = "commit" /\ job[x].op = "editbusiness" /\ job[x].place \in Users
    BY <1>2, <1>3, JobIs DEF CommitStatus, At
  <2>2. PICK u \in Users : u = job[x].place
    BY <2>1
  <2>3. Wrote(x) /\ db' = [db EXCEPT !.business[u] = "inactive"]
    BY <1>3, <2>2, CommitIs DEF CommitStatus
  <2>4. db.business[u] # NoRow /\ "inactive" # NoRow /\ "inactive" \in Statuses
    BY <2>1, <2>2, AtCommit, NoRowIsNone DEF Relies, Statuses
  <2>5. /\ db'.role = db.role /\ db'.permits = db.permits /\ db'.holds = db.holds
        /\ db'.store = db.store /\ db'.group = db.group /\ db'.setting = db.setting
        /\ db'.people = db.people /\ db'.member = db.member
        /\ db'.business = [db.business EXCEPT ![u] = "inactive"]
    BY <1>1, <2>3 DEF Tables
  <2>6. \A v \in Users : db'.business[v] # NoRow <=> db.business[v] # NoRow
    BY <1>1, <2>4, <2>5, TableTypes
  <2>7. db' \in Tables
    BY <1>1, <2>3, <2>4, <2>5, TableTypes DEF Tables
  <2>8. Rows(db.setting)' = Rows(db.setting)
    BY <2>5 DEF Rows
  <2>9. QED
    BY <1>1, <1>2, <2>3, <2>5, <2>6, <2>7, <2>8, AsideKeeps DEF RolesExist
<1>4. CASE WriteSetting(x)
  <2>1. pc[x] = "commit" /\ job[x].op = "setstore" /\ job[x].on = "store"
    BY <1>4 DEF WriteSetting, At
  <2>2. job[x].place \in Ids /\ db.setting[job[x].place] # NoRow
    BY <2>1, AtCommit DEF Relies, Known, StoreOps, StoreIds, Rows
  <2>3. PICK s \in Ids : s = job[x].place
    BY <2>2
  <2>4. Wrote(x) /\ db' = [db EXCEPT !.setting[s] = "edited"]
    BY <1>4, <2>3, CommitIs DEF WriteSetting
  <2>5. "edited" # NoRow /\ "edited" \in Settings
    BY NoRowIsNone DEF Settings
  <2>6. /\ db'.role = db.role /\ db'.permits = db.permits /\ db'.holds = db.holds
        /\ db'.store = db.store /\ db'.group = db.group /\ db'.business = db.business
        /\ db'.people = db.people /\ db'.member = db.member
        /\ db'.setting = [db.setting EXCEPT ![s] = "edited"]
    BY <1>1, <2>4 DEF Tables
  <2>7. Rows(db.setting)' = Rows(db.setting)
    BY <1>1, <2>2, <2>3, <2>5, <2>6, TableTypes DEF Rows
  <2>8. db' \in Tables
    BY <1>1, <2>4, <2>5, <2>6, TableTypes DEF Tables
  <2>9. QED
    BY <1>1, <1>2, <2>4, <2>6, <2>7, <2>8, AsideKeeps DEF RolesExist
<1>5. CASE InsertMember(x) \/ EraseMember(x)
  <2>1. job[x].user \in Users
    BY <1>2, JobIs
  <2>2. CASE Failed(x)
    BY <1>2, <2>2, FailedKeeps
  <2>3. ASSUME NEW members \in SUBSET (Users \X Ids), \A m \in members : m[2] \in GroupIds,
               Wrote(x), db' = [db EXCEPT !.member = members]
        PROVE  AccessInv' /\ Fixed
    <3>1. /\ db'.role = db.role /\ db'.permits = db.permits /\ db'.holds = db.holds
          /\ db'.store = db.store /\ db'.group = db.group /\ db'.business = db.business
          /\ db'.people = db.people /\ db'.setting = db.setting /\ db'.member = members
      BY <1>1, <2>3 DEF Tables
    <3>2. db' \in Tables
      BY <1>1, <2>3 DEF Tables
    <3>3. Rows(db.setting)' = Rows(db.setting)
      BY <3>1 DEF Rows
    <3>4. QED
      BY <1>2, <2>3, <3>1, <3>2, <3>3, AsideKeeps
  <2>4. db.member \in SUBSET (Users \X Ids) /\ \A m \in db.member : m[2] \in GroupIds
    BY <1>1, TableTypes DEF RolesExist
  <2>5. CASE InsertMember(x) /\ ~Failed(x)
    <3>1. PICK u, g : u = job[x].user /\ g = job[x].place
      OBVIOUS
    <3>2. Wrote(x) /\ g \in GroupIds /\ db' = [db EXCEPT !.member = @ \cup {<<u, g>>}]
      BY <2>5, <3>1, CommitIs DEF InsertMember
    <3>3. PICK members : members = db.member \cup {<<u, g>>}
      OBVIOUS
    <3>4. /\ members \in SUBSET (Users \X Ids) /\ \A m \in members : m[2] \in GroupIds
          /\ db' = [db EXCEPT !.member = members]
      BY <2>1, <2>4, <3>1, <3>2, <3>3 DEF GroupIds, Rows
    <3>5. QED
      BY <2>3, <3>2, <3>4
  <2>6. CASE EraseMember(x) /\ ~Failed(x)
    <3>1. PICK members : members = db.member \ {<<job[x].user, base[x]>>}
      OBVIOUS
    <3>2. Wrote(x) /\ db' = [db EXCEPT !.member = members]
      BY <2>6, <3>1, CommitIs DEF EraseMember
    <3>3. members \in SUBSET (Users \X Ids) /\ \A m \in members : m[2] \in GroupIds
      BY <2>4, <3>1
    <3>4. QED
      BY <2>3, <3>2, <3>3
  <2>7. QED
    BY <1>5, <2>2, <2>5, <2>6
<1>6. CASE SeedRoleTemplates(x)
  <2>1. Wrote(x) /\ db' = [db EXCEPT !.templates = DOMAIN Templates]
    BY <1>6, CommitIs DEF SeedRoleTemplates
  <2>2. /\ db'.role = db.role /\ db'.permits = db.permits /\ db'.holds = db.holds
        /\ db'.store = db.store /\ db'.group = db.group /\ db'.business = db.business
        /\ db'.people = db.people /\ db'.setting = db.setting /\ db'.member = db.member
    BY <1>1, <2>1 DEF Tables
  <2>3. db' \in Tables
    BY <1>1, <2>1 DEF Tables
  <2>4. Rows(db.setting)' = Rows(db.setting)
    BY <2>2 DEF Rows
  <2>5. QED
    BY <1>1, <1>2, <2>1, <2>2, <2>3, <2>4, AsideKeeps DEF RolesExist
<1>7. QED
    BY <1>3, <1>4, <1>5, <1>6

\* A user's category is changed by an administrator.
LEMMA RecategoriseKeeps ==
    ASSUME AccessInv, NEW x \in Handlers, Recategorise(x)
    PROVE  AccessInv' /\ Fixed
<1>1. db \in Tables /\ RolesExist
    BY TablesAre
<1>2. Active(x) /\ job[x].op = "recast"
    BY DEF Recategorise, Active
<1>3. PICK j \in JobType : j = job[x]
    BY <1>2, UnderWay
<1>4. PICK u \in Users, k \in Kinds : u = j.user /\ k = j.on
    BY <1>2, <1>3, JobIs
<1>5. Go(x, "refused") \/ Failed(x) \/ (Wrote(x) /\ db' = [db EXCEPT !.people[u] = k])
    BY <1>3, <1>4, CommitIs DEF Recategorise
<1>6. CASE Go(x, "refused")
    BY <1>2, <1>6, EndKeeps DEF Go, Answers, AccessInv, TypeOK
<1>7. CASE Failed(x)
    BY <1>2, <1>7, FailedKeeps
<1>8. CASE Wrote(x) /\ db' = [db EXCEPT !.people[u] = k]
  <2>1. /\ db'.role = db.role /\ db'.permits = db.permits /\ db'.holds = db.holds
        /\ db'.store = db.store /\ db'.group = db.group /\ db'.business = db.business
        /\ db'.setting = db.setting /\ db'.member = db.member
        /\ db'.people = [db.people EXCEPT ![u] = k]
    BY <1>1, <1>8 DEF Tables
  <2>2. db' \in Tables
    BY <1>1, <1>8, <2>1, TableTypes DEF Tables
  <2>3. \A v \in Users : db.people[v] # NoRow => db'.people[v] # NoRow
    BY <1>1, <2>1, TableTypes, NoRowIsNone
  <2>4. Rows(db.setting)' = Rows(db.setting)
    BY <2>1 DEF Rows
  <2>5. QED
    BY <1>1, <1>2, <1>8, <2>1, <2>2, <2>3, <2>4, AsideKeeps DEF RolesExist
<1>9. QED
    BY <1>5, <1>6, <1>7, <1>8

\* A write of groups that keeps their names apart and every group that is
\* referred to keeps the tables right.
LEMMA GroupsKeep ==
    ASSUME AccessInv, NEW x \in Handlers, Active(x), Wrote(x),
           NEW groups \in [Ids -> Names \cup {NoRow}], db' = [db EXCEPT !.group = groups],
           \A g \in Ids \ GroupIds : groups[g] # NoRow => g = Row(x),
           \A m \in db.member : groups[m[2]] # NoRow,
           \A r \in RoleIds : db.role[r].of \in Ids => groups[db.role[r].of] # NoRow,
           \A g, h \in Ids : groups[g] # NoRow /\ groups[g] = groups[h] => g = h
    PROVE  AccessInv' /\ Fixed
<1>1. /\ db \in Tables /\ BusinessIsWhole /\ RolesExist /\ NamesUnique
      /\ HeldWhereItBelongs /\ OnlyOwnerHoldsAll
    BY TablesAre
<1>2. Alone(x) /\ claims' = claims /\ jobs' = jobs
    BY WroteIsAlone
<1>3. /\ db'.people = db.people /\ db'.business = db.business /\ db'.permits = db.permits
      /\ db'.holds = db.holds /\ db'.store = db.store /\ db'.setting = db.setting
      /\ db'.group = groups /\ db'.member = db.member /\ db'.role = db.role
    BY <1>1 DEF Tables
<1>4. db' \in Tables
    BY <1>1 DEF Tables
<1>5. RoleIds' = RoleIds /\ StoreIds' = StoreIds /\ GroupIds' = {g \in Ids : groups[g] # NoRow}
    BY <1>3 DEF RoleIds, StoreIds, GroupIds, Rows
<1>6. Kindly(x)
  <2>1. \A r \in Ids : db'.role[r] # NoRow =>
          r \in RoleIds /\ KindOf(r)' = KindOf(r) /\ db'.role[r] = db.role[r]
    BY <1>3 DEF KindOf, RoleIds, Rows
  <2>2. \A g \in Ids : db.group[g] = NoRow /\ g[1] # ticket[x] => db'.group[g] = NoRow
    BY <1>3, OwnRow DEF GroupIds, Rows
  <2>3. QED
    BY <1>2, <1>3, <2>1, <2>2, KindlyRows
<1>7. BusinessIsWhole'
  <2>1. Rows(db.setting)' = Rows(db.setting) /\ Rows(db.setting) = StoreIds
    BY <1>1, <1>3 DEF Rows, BusinessIsWhole
  <2>2. QED
    BY <1>1, <1>3, <1>5, <2>1, WholeStays
<1>8. RolesExist'
  <2>1. \A m \in db.member : m[2] \in Ids
    BY <1>1, TableTypes
  <2>2. QED
    BY <1>1, <1>2, <1>3, <1>5, <2>1 DEF RolesExist
<1>9. NamesUnique' /\ HeldWhereItBelongs' /\ OnlyOwnerHoldsAll'
    BY <1>1, <1>2, <1>3, <1>5 DEF NamesUnique, HeldWhereItBelongs, OnlyOwnerHoldsAll
<1>10. TablesInv'
    BY <1>2, <1>6, <1>7, <1>8, <1>9, UnusedStays DEF TablesInv
<1>11. Fixed
    BY <1>3 DEF Fixed, CodesOf, HoldersOf
<1>12. QED
    BY <1>4, <1>6, <1>10, <1>11, WroteKeeps

\* The commits of groups.
LEMMA GroupCommitsKeep ==
    ASSUME AccessInv, NEW x \in Handlers, InsertGroup(x) \/ WriteGroup(x) \/ EraseGroup(x)
    PROVE  AccessInv' /\ Fixed
<1>1. Active(x)
    BY DEF Active, InsertGroup, WriteGroup, EraseGroup
<1>2. job[x].name \in Names /\ job[x].name # NoRow
    BY <1>1, UnderWay, JobIs, NoRowIsNone
<1>3. PICK name \in Names : name = job[x].name
    BY <1>2
<1>4. db \in Tables /\ RolesExist /\ NamesUnique /\ db.group \in [Ids -> Names \cup {NoRow}]
    BY TablesAre, TableTypes
<1>5. (\A m \in db.member : m[2] \in GroupIds) /\ (\A m \in db.member : m[1] \in Users)
    BY <1>4, TableTypes DEF RolesExist
<1>6. \A r \in RoleIds : db.role[r].of \in Ids => db.role[r].of \in GroupIds
    BY <1>4 DEF RolesExist
<1>7. \A g \in Ids : g \in GroupIds <=> db.group[g] # NoRow
    BY DEF GroupIds, Rows
<1>8. \A g \in GroupIds : g \in Ids
    BY DEF GroupIds, Rows
<1>9. CASE Failed(x)
    BY <1>1, <1>9, FailedKeeps
<1>10. CASE InsertGroup(x) /\ ~Failed(x)
  <2>1. PICK new \in Ids : new = Row(x)
    BY <1>1, OwnRow
  <2>2. PICK groups : groups = [db.group EXCEPT ![new] = name]
    OBVIOUS
  <2>3. /\ Wrote(x) /\ ~GroupNamed(name, NoRow) /\ db' = [db EXCEPT !.group = groups]
    BY <1>3, <1>10, <2>1, <2>2, CommitIs DEF InsertGroup
  <2>4. groups \in [Ids -> Names \cup {NoRow}] /\ \A g \in Ids : groups[g] = IF g = new THEN name ELSE db.group[g]
    BY <1>4, <2>2
  <2>5. new \notin GroupIds
    BY <1>1, <1>7, <2>1, OwnRow
  <2>6. \A g \in GroupIds : db.group[g] # name
    BY <1>8, <2>3, NoRowIsNone DEF GroupNamed
  <2>7. \A g \in GroupIds : groups[g] = db.group[g] /\ groups[g] # NoRow
    BY <1>7, <1>8, <2>4, <2>5
  <2>8. \A g, h \in Ids : groups[g] # NoRow /\ groups[g] = groups[h] => g = h
    BY <1>4, <1>7, <2>4, <2>6 DEF NamesUnique
  <2>9. QED
    BY <1>1, <1>5, <1>6, <1>7, <2>1, <2>3, <2>4, <2>7, <2>8, GroupsKeep
<1>11. CASE WriteGroup(x) /\ ~Failed(x)
  <2>1. PICK p : p = job[x].place
    OBVIOUS
  <2>2. PICK groups : groups = [db.group EXCEPT ![p] = name]
    OBVIOUS
  <2>3. Wrote(x) /\ p \in GroupIds /\ ~GroupNamed(name, p) /\ db' = [db EXCEPT !.group = groups]
    BY <1>3, <1>11, <2>1, <2>2, CommitIs DEF WriteGroup
  <2>4. groups \in [Ids -> Names \cup {NoRow}] /\ \A g \in Ids : groups[g] = IF g = p THEN name ELSE db.group[g]
    BY <1>4, <2>2
  <2>5. \A g \in GroupIds \ {p} : db.group[g] # name
    BY <2>3 DEF GroupNamed
  <2>6. \A g \in GroupIds : groups[g] # NoRow
    BY <1>2, <1>3, <1>7, <1>8, <2>4
  <2>7. \A g \in Ids \ GroupIds : groups[g] = NoRow
    BY <1>7, <2>3, <2>4
  <2>8. \A g, h \in Ids : groups[g] # NoRow /\ groups[g] = groups[h] => g = h
    BY <1>4, <1>7, <2>4, <2>5 DEF NamesUnique
  <2>9. QED
    BY <1>1, <1>5, <1>6, <2>3, <2>4, <2>6, <2>7, <2>8, GroupsKeep
<1>12. CASE EraseGroup(x) /\ ~Failed(x)
  <2>1. PICK p : p = job[x].place
    OBVIOUS
  <2>2. PICK groups : groups = [db.group EXCEPT ![p] = NoRow]
    OBVIOUS
  <2>3. /\ Wrote(x) /\ db' = [db EXCEPT !.group = groups]
        /\ \A u \in Users : p \notin GroupsOf(u)
        /\ \A r \in RoleIds : db.role[r].of # p
    BY <1>12, <2>1, <2>2, CommitIs DEF EraseGroup
  <2>4. groups \in [Ids -> Names \cup {NoRow}] /\ \A g \in Ids : groups[g] = IF g = p THEN NoRow ELSE db.group[g]
    BY <1>4, <2>2
  <2>5. \A m \in db.member : groups[m[2]] # NoRow
    <3>1. ASSUME NEW m \in db.member PROVE m[2] # p
      <4>1. m = <<m[1], m[2]>> /\ m[1] \in Users /\ m[2] \in GroupIds
        BY <1>4, <1>5, TableTypes
      <4>2. QED
        BY <2>3, <4>1 DEF GroupsOf
    <3>2. QED
      BY <1>5, <1>7, <1>8, <2>4, <3>1
  <2>6. \A r \in RoleIds : db.role[r].of \in Ids => groups[db.role[r].of] # NoRow
    BY <1>6, <1>7, <2>3, <2>4
  <2>7. \A g, h \in Ids : groups[g] # NoRow /\ groups[g] = groups[h] => g = h
    BY <1>4, <1>7, <2>4 DEF NamesUnique
  <2>8. \A g \in Ids \ GroupIds : groups[g] = NoRow
    BY <1>7, <2>4
  <2>9. QED
    BY <1>1, <2>3, <2>4, <2>5, <2>6, <2>7, <2>8, GroupsKeep
<1>13. QED
    BY <1>9, <1>10, <1>11, <1>12

\* A write of stores that leaves each its business, gives each its settings and
\* takes no name that is taken or flushed keeps the tables right.
LEMMA StoresKeep ==
    ASSUME AccessInv, NEW x \in Handlers, Active(x), Wrote(x),
           NEW stores \in [Ids -> StoreRow \cup {NoRow}],
           NEW settings \in [Ids -> Settings \cup {NoRow}],
           db' = [db EXCEPT !.store = stores, !.setting = settings],
           \A s \in StoreIds : stores[s] # NoRow /\ stores[s].of = db.store[s].of,
           \A s \in Ids \ StoreIds : stores[s] # NoRow =>
              s = Row(x) /\ db.business[stores[s].of] # NoRow,
           \A s \in Ids : settings[s] # NoRow <=> stores[s] # NoRow,
           \A s, t \in Ids : stores[s] # NoRow /\ stores[s] = stores[t] => s = t,
           \A y \in Handlers \ {x} : pc[y] = "placed" =>
              \A s \in Ids : stores[s] # NoRow =>
                 stores[s].of # job[y].place \/ stores[s].name # job[y].name
    PROVE  AccessInv' /\ Fixed
<1>1. /\ db \in Tables /\ BusinessIsWhole /\ RolesExist /\ NamesUnique
      /\ HeldWhereItBelongs /\ OnlyOwnerHoldsAll
    BY TablesAre
<1>2. Alone(x) /\ claims' = claims /\ jobs' = jobs
    BY WroteIsAlone
<1>3. /\ db'.people = db.people /\ db'.business = db.business /\ db'.permits = db.permits
      /\ db'.holds = db.holds /\ db'.store = stores /\ db'.setting = settings
      /\ db'.group = db.group /\ db'.member = db.member /\ db'.role = db.role
    BY <1>1 DEF Tables
<1>4. db' \in Tables
    BY <1>1 DEF Tables
<1>5. RoleIds' = RoleIds /\ GroupIds' = GroupIds /\ StoreIds' = {s \in Ids : stores[s] # NoRow}
    BY <1>3 DEF RoleIds, StoreIds, GroupIds, Rows
<1>6. \A s \in StoreIds : s \in StoreIds' /\ s \in Ids
    BY <1>5 DEF StoreIds, Rows
<1>7. Kindly(x)
  <2>1. \A r \in Ids : db'.role[r] # NoRow =>
          r \in RoleIds /\ KindOf(r)' = KindOf(r) /\ db'.role[r] = db.role[r]
    BY <1>3 DEF KindOf, RoleIds, Rows
  <2>2. ASSUME NEW n \in 0..MaxJobs, Unused(n), n # ticket[x] PROVE Unused(n)'
    <3>1. ASSUME NEW k \in 1..5 PROVE stores[<<n, k>>] = NoRow
      <4>1. <<n, k>> \in Ids \ StoreIds /\ <<n, k>>[1] = n
        BY <2>2 DEF Ids, Unused, StoreIds, Rows
      <4>2. <<n, k>> # Row(x)
        BY <2>2, <4>1, OwnRow
      <4>3. QED
        BY <4>1, <4>2
    <3>2. QED
      BY <1>3, <2>2, <3>1 DEF Unused
  <2>3. \A s \in Ids : db.setting[s] # NoRow => db'.setting[s] # NoRow
    BY <1>1, <1>3 DEF BusinessIsWhole, Rows
  <2>4. ASSUME NEW y \in Handlers \ {x}, Active(y)
        PROVE  /\ pc[y] = "cloned" => db'.business[job[y].actor] = NoRow
               /\ pc[y] = "placed" => ~StoreNamed(job[y].place, job[y].name)'
    <3>1. job[y] \in JobType /\ Flushes(y) /\ job'[y] = job[y]
      BY <1>2, <2>4, UnderWay DEF Alone
    <3>2. pc[y] = "placed" => ~StoreNamed(job[y].place, job[y].name)'
      BY <1>3, <1>5, <3>1 DEF StoreNamed
    <3>3. QED
      BY <1>3, <3>1, <3>2 DEF Flushes
  <2>5. QED
    BY <1>2, <1>3, <2>1, <2>2, <2>3, <2>4 DEF Kindly
<1>8. BusinessIsWhole'
  <2>1. Rows(db.setting)' = StoreIds'
    BY <1>3, <1>5 DEF Rows
  <2>2. \A s \in StoreIds : db'.store[s].of = db.store[s].of
    BY <1>3
  <2>3. QED
    BY <1>1, <1>3, <1>5, <1>6, <2>1, <2>2, WholeStays
<1>9. RolesExist'
  <2>1. \A s \in StoreIds' : db.business[stores[s].of] # NoRow
    BY <1>1, <1>5 DEF RolesExist
  <2>2. QED
    BY <1>1, <1>2, <1>3, <1>5, <1>6, <2>1 DEF RolesExist
<1>10. NamesUnique'
    BY <1>1, <1>3, <1>5 DEF NamesUnique
<1>11. HeldWhereItBelongs'
  <2>1. ASSUME NEW h \in db.holds, h[2] \in StoreIds'
        PROVE  db.role[h[3]].of = stores[h[2]].of
    <3>1. h[2] \in StoreIds
      BY <1>1, <1>5, <2>1, AccessAssumption DEF RolesExist
    <3>2. QED
      BY <1>1, <3>1 DEF HeldWhereItBelongs
  <2>2. QED
    BY <1>3, <2>1 DEF HeldWhereItBelongs
<1>12. OnlyOwnerHoldsAll'
    BY <1>1, <1>2, <1>3, <1>5 DEF OnlyOwnerHoldsAll
<1>13. TablesInv'
    BY <1>2, <1>7, <1>8, <1>9, <1>10, <1>11, <1>12, UnusedStays DEF TablesInv
<1>14. Fixed
    BY <1>3 DEF Fixed, CodesOf, HoldersOf
<1>15. QED
    BY <1>4, <1>7, <1>13, <1>14, WroteKeeps

\* A store that was flushed is committed.
LEMMA CommitStoreKeeps ==
    ASSUME AccessInv, NEW x \in Handlers, CommitStore(x)
    PROVE  AccessInv' /\ Fixed
<1>1. Active(x) /\ pc[x] = "placed" /\ job[x].op = "newstore"
    BY DEF CommitStore, At, Active, Flushed
<1>2. PICK j \in JobType : j = job[x]
    BY <1>1, UnderWay
<1>3. j.place \in Users /\ j.name \in Names
    BY <1>1, <1>2, JobIs
<1>4. PICK new \in Ids : new = Row(x)
    BY <1>1, OwnRow
<1>5. PICK row : row = [of |-> j.place, name |-> j.name]
    OBVIOUS
<1>6. PICK stores, settings : /\ stores = [db.store EXCEPT ![new] = row]
                              /\ settings = [db.setting EXCEPT ![new] = "default"]
    OBVIOUS
<1>7. Wrote(x) /\ db' = [db EXCEPT !.store = stores, !.setting = settings]
    BY <1>2, <1>4, <1>5, <1>6, CommitIs DEF CommitStore
<1>8. db \in Tables /\ BusinessIsWhole /\ NamesUnique
    BY TablesAre
<1>9. /\ row \in StoreRow /\ row # NoRow /\ row.of = j.place /\ row.name = j.name
      /\ "default" \in Settings /\ "default" # NoRow
  <2>1. row \in StoreRow /\ row.of = j.place /\ row.name = j.name /\ "default" \in Settings
    BY <1>3, <1>5 DEF StoreRow, Settings
  <2>2. QED
    BY <2>1, NoRowIsNone
<1>10. /\ stores \in [Ids -> StoreRow \cup {NoRow}]
       /\ \A s \in Ids : stores[s] = IF s = new THEN row ELSE db.store[s]
    BY <1>6, <1>8, <1>9, TableTypes
<1>11. /\ settings \in [Ids -> Settings \cup {NoRow}]
       /\ \A s \in Ids : settings[s] = IF s = new THEN "default" ELSE db.setting[s]
    BY <1>6, <1>8, <1>9, TableTypes
<1>12. (\A s \in Ids : s \in StoreIds <=> db.store[s] # NoRow) /\ (\A s \in StoreIds : s \in Ids)
    BY DEF StoreIds, Rows
<1>13. new \notin StoreIds
    BY <1>1, <1>4, <1>12, OwnRow
<1>14. \A s \in StoreIds : stores[s] = db.store[s] /\ stores[s] # NoRow
    BY <1>10, <1>12, <1>13
<1>15. db.business[j.place] # NoRow /\ ~StoreNamed(j.place, j.name)
    BY <1>1, <1>2, UnderWay DEF Checked, Flushes
<1>16. \A s \in StoreIds : db.store[s].of # row.of \/ db.store[s].name # row.name
    BY <1>9, <1>15 DEF StoreNamed
<1>17. \A s \in Ids \ StoreIds : stores[s] # NoRow => s = Row(x) /\ db.business[stores[s].of] # NoRow
    BY <1>4, <1>9, <1>10, <1>12, <1>15
<1>18. \A s \in Ids : settings[s] # NoRow <=> stores[s] # NoRow
    BY <1>8, <1>9, <1>10, <1>11, <1>12 DEF BusinessIsWhole, Rows
<1>19. \A s, t \in Ids : stores[s] # NoRow /\ stores[s] = stores[t] => s = t
    BY <1>8, <1>10, <1>12, <1>16 DEF NamesUnique
<1>20. ASSUME NEW y \in Handlers \ {x}, pc[y] = "placed", NEW s \in Ids, stores[s] # NoRow
       PROVE  stores[s].of # job[y].place \/ stores[s].name # job[y].name
  <2>1. Active(y)
    BY <1>20 DEF Active, Flushed
  <2>2. Flushes(y) /\ Apart(x, y)
    BY <2>1, UnderWay DEF AccessInv
  <2>3. CASE s = new
    BY <1>1, <1>2, <1>9, <1>10, <1>20, <2>1, <2>2, <2>3 DEF Apart
  <2>4. CASE s # new
    BY <1>10, <1>12, <1>20, <2>2, <2>4 DEF Flushes, StoreNamed
  <2>5. QED
    BY <2>3, <2>4
<1>21. \A y \in Handlers \ {x} : pc[y] = "placed" =>
       \A s \in Ids : stores[s] # NoRow =>
          stores[s].of # job[y].place \/ stores[s].name # job[y].name
    BY <1>20
<1>22. \A s \in StoreIds : stores[s] # NoRow /\ stores[s].of = db.store[s].of
    BY <1>14
<1>23. QED
    BY <1>1, <1>7, <1>10, <1>11, <1>17, <1>18, <1>19, <1>21, <1>22, StoresKeep

\* A store is renamed, to a name that nobody has flushed.
LEMMA WriteStoreKeeps ==
    ASSUME AccessInv, NEW x \in Handlers, WriteStore(x)
    PROVE  AccessInv' /\ Fixed
<1>1. pc[x] = "commit" /\ job[x].op = "editstore" /\ job[x].on = "store"
    BY DEF WriteStore, At
<1>2. Active(x) /\ job[x].place \in StoreIds
    BY <1>1, AtCommit DEF Known, StoreOps
<1>3. PICK j \in JobType : j = job[x]
    BY <1>2, UnderWay
<1>4. PICK p \in StoreIds : p = j.place
    BY <1>2, <1>3
<1>5. db \in Tables /\ BusinessIsWhole /\ NamesUnique
    BY TablesAre
<1>6. p \in Ids /\ db.store[p] \in StoreRow /\ j.name \in Names
    BY <1>3, <1>5, JobIs, RowTypes DEF StoreIds, Rows
<1>7. PICK row : row = [db.store[p] EXCEPT !.name = j.name]
    OBVIOUS
<1>8. /\ row \in StoreRow /\ row # NoRow /\ row.of = db.store[p].of /\ row.name = j.name
      /\ row = [of |-> db.store[p].of, name |-> j.name]
  <2>1. /\ row \in StoreRow /\ row.of = db.store[p].of /\ row.name = j.name
        /\ row = [of |-> db.store[p].of, name |-> j.name]
    BY <1>6, <1>7 DEF StoreRow
  <2>2. QED
    BY <2>1, NoRowIsNone
<1>9. CASE Failed(x)
    BY <1>2, <1>9, FailedKeeps
<1>10. CASE ~Failed(x)
  <2>1. /\ Wrote(x) /\ Free(x, <<"store", db.store[p].of, j.name>>)
        /\ \A o \in StoreIds \ {p} : db.store[o] # row
        /\ db' = [db EXCEPT !.store[p].name = j.name]
    BY <1>3, <1>4, <1>8, <1>10, CommitIs DEF WriteStore
  <2>2. PICK stores, settings : stores = [db.store EXCEPT ![p] = row] /\ settings = db.setting
    OBVIOUS
  <2>3. db' = [db EXCEPT !.store = stores, !.setting = settings]
    BY <1>5, <1>6, <1>7, <2>1, <2>2, TableTypes DEF Tables
  <2>4. /\ stores \in [Ids -> StoreRow \cup {NoRow}] /\ settings \in [Ids -> Settings \cup {NoRow}]
        /\ \A s \in Ids : stores[s] = IF s = p THEN row ELSE db.store[s]
    BY <1>5, <1>6, <1>8, <2>2, TableTypes
  <2>5. (\A s \in Ids : s \in StoreIds <=> db.store[s] # NoRow) /\ (\A s \in StoreIds : s \in Ids)
    BY DEF StoreIds, Rows
  <2>6. \A s \in StoreIds : stores[s] # NoRow /\ stores[s].of = db.store[s].of
    BY <1>8, <2>4, <2>5
  <2>7. \A s \in Ids \ StoreIds : stores[s] = NoRow
    BY <1>4, <2>4, <2>5
  <2>8. \A s \in Ids : settings[s] # NoRow <=> stores[s] # NoRow
    BY <1>5, <2>2, <2>5, <2>6, <2>7 DEF BusinessIsWhole, Rows
  <2>9. \A s, t \in Ids : stores[s] # NoRow /\ stores[s] = stores[t] => s = t
    BY <1>5, <2>1, <2>4, <2>5 DEF NamesUnique
  <2>10. ASSUME NEW y \in Handlers \ {x}, pc[y] = "placed", NEW s \in Ids, stores[s] # NoRow
         PROVE  stores[s].of # job[y].place \/ stores[s].name # job[y].name
    <3>1. Flushes(y)
      BY <2>10, UnderWay DEF Active, Flushed
    <3>2. CASE s = p
      <4>1. Key(y) # <<"store", db.store[p].of, j.name>>
        BY <2>1 DEF Free
      <4>2. Key(y) = <<"store", job[y].place, job[y].name>>
        BY <2>10 DEF Key, Invites
      <4>3. job[y].place # db.store[p].of \/ job[y].name # j.name
        BY <4>1, <4>2
      <4>4. QED
        BY <1>8, <2>4, <3>2, <4>3
    <3>3. CASE s # p
      BY <2>4, <2>5, <2>10, <3>1, <3>3 DEF Flushes, StoreNamed
    <3>4. QED
      BY <3>2, <3>3
  <2>11. \A y \in Handlers \ {x} : pc[y] = "placed" =>
        \A s \in Ids : stores[s] # NoRow =>
           stores[s].of # job[y].place \/ stores[s].name # job[y].name
    BY <2>10
  <2>12. \A s \in Ids \ StoreIds : stores[s] # NoRow =>
           s = Row(x) /\ db.business[stores[s].of] # NoRow
    BY <2>7
  <2>13. stores \in [Ids -> StoreRow \cup {NoRow}] /\ settings \in [Ids -> Settings \cup {NoRow}]
    BY <2>4
  <2>14. Wrote(x)
    BY <2>1
  <2>15. QED
    BY <1>2, <2>13, <2>14, <2>3, <2>6, <2>8, <2>9, <2>11, <2>12, StoresKeep
<1>11. QED
    BY <1>9, <1>10

\* The rows that create_business makes from the templates.
LEMMA ClonesAre ==
    ASSUME AccessInv, NEW x \in Handlers, Active(x)
    PROVE  /\ \A r \in Clones(x) : /\ r \in Ids /\ r \notin RoleIds /\ r[1] = ticket[x]
                                   /\ r[2] \in db.templates /\ r[2] \in DOMAIN Templates
           /\ \A q, r \in Clones(x) : q[2] = r[2] => q = r
           /\ 1 \in db.templates => Row(x) \in Clones(x) /\ Row(x)[2] = 1
<1>1. db.templates \in SUBSET (DOMAIN Templates)
    BY TablesAre, TableTypes
<1>2. DOMAIN Templates \subseteq 1..5
    BY AccessAssumption
<1>3. Unused(ticket[x]) /\ \A k \in 1..5 : <<ticket[x], k>> \in Ids
    BY UnderWay
<1>4. ASSUME NEW k \in db.templates
      PROVE  <<ticket[x], k>> \in Ids /\ <<ticket[x], k>> \notin RoleIds /\ k \in DOMAIN Templates
    BY <1>1, <1>2, <1>3 DEF Unused, RoleIds, Rows
<1>5. QED
    BY <1>4 DEF Clones, Row

\* The owner's template is the one that has "*", and each has a name of its own.
LEMMA TemplatesAre ==
    /\ \A k \in DOMAIN Templates : Wildcard \in Templates[k].codes <=> k = 1
    /\ \A k, l \in DOMAIN Templates : Templates[k].name = Templates[l].name => k = l
    BY AccessAssumption

\* A business is committed with its roles, its owner's role and its first store.
LEMMA CommitBusinessKeeps ==
    ASSUME AccessInv, NEW x \in Handlers, CommitBusiness(x)
    PROVE  AccessInv' /\ Fixed
<1>1. Active(x) /\ pc[x] = "cloned" /\ job[x].op = "business"
    BY DEF CommitBusiness, At, Active, Flushed
<1>2. PICK owner \in Users : owner = job[x].actor
    BY <1>1, UnderWay, JobIs
<1>3. PICK new \in Ids : new = Row(x)
    BY <1>1, OwnRow
<1>4. PICK row : row = [of |-> owner, name |-> "Main Location"]
    OBVIOUS
<1>5. PICK clones, role, added :
        clones = Clones(x) /\ role = CloneRoles(x) /\ added = ClonePermissions(x)
    OBVIOUS
<1>6. CASE Failed(x)
    BY <1>1, <1>6, FailedKeeps
<1>7. CASE ~Failed(x)
  <2>1. /\ 1 \in db.templates /\ Wrote(x)
        /\ db' = [db EXCEPT !.business[owner] = "active", !.role = role,
                    !.permits = @ \cup added,
                    !.holds = @ \cup {<<owner, Anywhere, new>>},
                    !.store[new] = row, !.setting[new] = "default"]
    BY <1>2, <1>3, <1>4, <1>5, <1>7, CommitIs DEF CommitBusiness
  <2>2. /\ db \in Tables /\ BusinessIsWhole /\ RolesExist /\ NamesUnique
        /\ HeldWhereItBelongs /\ OnlyOwnerHoldsAll
    BY TablesAre
  <2>3. /\ \A r \in clones : /\ r \in Ids /\ r \notin RoleIds /\ r[1] = ticket[x]
                             /\ r[2] \in db.templates /\ r[2] \in DOMAIN Templates
        /\ \A q, r \in clones : q[2] = r[2] => q = r
        /\ new \in clones /\ new[2] = 1
    BY <1>1, <1>3, <1>5, <2>1, ClonesAre
  <2>4. db.business[owner] = NoRow
    BY <1>1, <1>2, UnderWay DEF Flushes
  <2>5. db.people[owner] # NoRow
    BY <1>1, <1>2, <2>2, UnderWay DEF RolesExist
  <2>6. "Main Location" \in Names
    BY AccessAssumption
  <2>7. /\ row \in StoreRow /\ row # NoRow /\ row.of = owner
        /\ "default" \in Settings /\ "default" # NoRow /\ "active" \in Statuses /\ "active" # NoRow
    <3>1. row \in StoreRow /\ row.of = owner /\ "default" \in Settings /\ "active" \in Statuses
      BY <1>4, <2>6 DEF StoreRow, Settings, Statuses
    <3>2. QED
      BY <3>1, NoRowIsNone
  <2>8. /\ DOMAIN role = Ids
        /\ \A r \in Ids \ clones : role[r] = db.role[r]
        /\ \A r \in clones : role[r] = [of |-> owner, name |-> Templates[r[2]].name, protected |-> r[2] = 1]
    BY <1>2, <1>5, <2>3 DEF CloneRoles
  <2>9. \A r \in clones : /\ role[r] \in RoleRow /\ role[r] # NoRow /\ role[r].of = owner
                          /\ role[r].name = Templates[r[2]].name
                          /\ role[r].protected <=> r[2] = 1
    <3>1. ASSUME NEW r \in clones
          PROVE  /\ role[r] \in RoleRow /\ role[r].of = owner
                 /\ role[r].name = Templates[r[2]].name
                 /\ role[r].protected <=> r[2] = 1
      <4>1. PICK name : name = Templates[r[2]].name
        OBVIOUS
      <4>2. name \in Names
        BY <2>3, <4>1, AccessAssumption
      <4>3. PICK b \in BOOLEAN : b = (r[2] = 1)
        OBVIOUS
      <4>4. role[r] = [of |-> owner, name |-> name, protected |-> b]
        BY <2>8, <4>1, <4>3
      <4>5. role[r] \in RoleRow /\ role[r].of = owner /\ role[r].name = name /\ role[r].protected = b
        BY <4>2, <4>4 DEF RoleRow
      <4>6. QED
        BY <4>1, <4>3, <4>5
    <3>2. QED
      BY <3>1, NoRowIsNone
  <2>10. role \in [Ids -> RoleRow \cup {NoRow}]
    <3>1. \A r \in Ids : role[r] \in RoleRow \cup {NoRow}
      BY <2>2, <2>8, <2>9, TableTypes
    <3>2. role = [r \in Ids |-> role[r]]
      BY <1>5, <2>8 DEF CloneRoles
    <3>3. QED
      BY <3>1, <3>2
  <2>11. /\ db'.people = db.people /\ db'.business = [db.business EXCEPT ![owner] = "active"]
         /\ db'.permits = db.permits \cup added
         /\ db'.holds = db.holds \cup {<<owner, Anywhere, new>>}
         /\ db'.store = [db.store EXCEPT ![new] = row]
         /\ db'.setting = [db.setting EXCEPT ![new] = "default"]
         /\ db'.group = db.group /\ db'.member = db.member /\ db'.role = role
         /\ db'.templates = db.templates
    BY <2>1, <2>2 DEF Tables
  <2>12. /\ \A u \in Users : db'.business[u] = IF u = owner THEN "active" ELSE db.business[u]
         /\ \A s \in Ids : db'.store[s] = IF s = new THEN row ELSE db.store[s]
         /\ \A s \in Ids : db'.setting[s] = IF s = new THEN "default" ELSE db.setting[s]
    BY <2>2, <2>11, TableTypes
  <2>13. /\ added \subseteq Ids \X Codes
         /\ \A p \in added : p[1] \in clones /\ p[2] \in Templates[p[1][2]].codes
         /\ <<new, Wildcard>> \in added
    <3>1. added = {p \in Ids \X Codes : p[1] \in clones /\ p[2] \in Templates[p[1][2]].codes}
      BY <1>5 DEF ClonePermissions
    <3>2. Wildcard \in Templates[1].codes /\ Wildcard \in Codes
      BY <2>3, AccessAssumption
    <3>3. <<new, Wildcard>> \in Ids \X Codes /\ <<new, Wildcard>>[1] = new /\ <<new, Wildcard>>[2] = Wildcard
      BY <3>2
    <3>4. Wildcard \in Templates[new[2]].codes
      BY <2>3, <3>2
    <3>5. <<new, Wildcard>> \in added
      BY <2>3, <3>1, <3>3, <3>4
    <3>6. QED
      BY <3>1, <3>5
  <2>14. db' \in Tables
    <3>1. /\ db'.business \in [Users -> Statuses \cup {NoRow}]
          /\ db'.store \in [Ids -> StoreRow \cup {NoRow}]
          /\ db'.setting \in [Ids -> Settings \cup {NoRow}]
          /\ db'.permits \in SUBSET (Ids \X Codes)
          /\ db'.holds \in SUBSET (Users \X (Ids \cup {Anywhere}) \X Ids)
          /\ db'.role \in [Ids -> RoleRow \cup {NoRow}]
      BY <2>2, <2>7, <2>10, <2>11, <2>13, TableTypes
    <3>2. PICK b, s, t, p, h : b = db'.business /\ s = db'.store /\ t = db'.setting
                               /\ p = db'.permits /\ h = db'.holds
      OBVIOUS
    <3>3. db' = [db EXCEPT !.business = b, !.role = role, !.permits = p, !.holds = h,
                           !.store = s, !.setting = t]
      BY <2>1, <2>2, <2>11, <3>2 DEF Tables
    <3>4. QED
      BY <2>2, <2>10, <3>1, <3>2, <3>3 DEF Tables
  <2>15. /\ RoleIds' = RoleIds \cup clones /\ StoreIds' = StoreIds \cup {new}
         /\ GroupIds' = GroupIds /\ new \notin StoreIds
    <3>1. RoleIds' = RoleIds \cup clones
      BY <2>3, <2>8, <2>9, <2>11 DEF RoleIds, Rows
    <3>2. StoreIds' = StoreIds \cup {new} /\ new \notin StoreIds
      BY <1>1, <1>3, <2>7, <2>12, OwnRow DEF StoreIds, Rows
    <3>3. QED
      BY <2>11, <3>1, <3>2 DEF GroupIds, Rows
  <2>16. \A r \in RoleIds : r \in Ids /\ r \notin clones /\ r # new /\ role[r] = db.role[r]
    BY <2>3, <2>8 DEF RoleIds, Rows
  <2>17. \A s \in StoreIds : s \in Ids /\ s # new /\ db'.store[s] = db.store[s]
    BY <2>12, <2>15 DEF StoreIds, Rows
  <2>18. \A r \in RoleIds : db.role[r].of # owner
    BY <2>2, <2>4 DEF RolesExist
  <2>19. \A s \in StoreIds : db.store[s].of # owner
    BY <2>2, <2>4 DEF RolesExist
  <2>20. Alone(x) /\ claims' = claims /\ jobs' = jobs
    BY <2>1, WroteIsAlone
  <2>21. Kindly(x)
    <3>1. ASSUME NEW r \in Ids, role[r] # NoRow, r[1] # ticket[x]
          PROVE  r \in RoleIds /\ KindOf(r)' = KindOf(r) /\ role[r] = db.role[r]
      BY <2>3, <2>8, <2>11, <3>1 DEF KindOf, RoleIds, Rows
    <3>2. ASSUME NEW n \in 0..MaxJobs, Unused(n), n # ticket[x] PROVE Unused(n)'
      <4>1. ASSUME NEW k \in 1..5
            PROVE  role[<<n, k>>] = NoRow /\ db'.store[<<n, k>>] = NoRow
        <5>1. <<n, k>> \in Ids /\ <<n, k>>[1] = n
          BY DEF Ids
        <5>2. <<n, k>> \notin clones /\ <<n, k>> # new
          BY <1>1, <1>3, <2>3, <3>2, <5>1, OwnRow
        <5>3. QED
          BY <2>8, <2>12, <3>2, <5>1, <5>2 DEF Unused
      <4>2. QED
        BY <2>11, <3>2, <4>1 DEF Unused
    <3>3. ASSUME NEW y \in Handlers \ {x}, Active(y)
          PROVE  /\ pc[y] = "cloned" => db'.business[job[y].actor] = NoRow
                 /\ pc[y] = "placed" => ~StoreNamed(job[y].place, job[y].name)'
      <4>1. /\ job[y] \in JobType /\ Flushes(y) /\ Checked(y) /\ job'[y] = job[y] /\ Apart(x, y)
            /\ job[y].actor \in Users
        BY <2>20, <3>3, UnderWay, JobIs DEF Alone, AccessInv
      <4>2. pc[y] = "cloned" => job[y].actor # owner
        BY <1>1, <1>2, <3>3, <4>1 DEF Apart
      <4>3. ASSUME pc[y] = "placed" PROVE ~StoreNamed(job[y].place, job[y].name)'
        <5>1. job[y].op = "newstore" /\ ~StoreNamed(job[y].place, job[y].name)
          BY <4>1, <4>3 DEF Flushes
        <5>2. job[y].place # owner
          BY <2>4, <4>1, <4>3, <5>1 DEF Checked
        <5>3. \A s \in StoreIds' :
                 ~(db'.store[s].of = job[y].place /\ db'.store[s].name = job[y].name)
          BY <2>7, <2>12, <2>15, <2>17, <5>1, <5>2 DEF StoreNamed
        <5>4. QED
          BY <4>1, <5>3 DEF StoreNamed
      <4>4. QED
        BY <2>12, <4>1, <4>2, <4>3 DEF Flushes
    <3>4. QED
      BY <2>7, <2>11, <2>12, <2>17, <2>20, <3>1, <3>2, <3>3 DEF Kindly, StoreIds, Rows
  <2>22. BusinessIsWhole'
    <3>1. Whole(owner)'
      <4>1. new \in HeldAt(owner, owner)'
        BY <2>3, <2>9, <2>11, <2>15 DEF HeldAt
      <4>2. db'.role[new].protected
        BY <2>3, <2>9, <2>11
      <4>3. Wildcard \in CodesOf(new)'
        BY <2>11, <2>13, AccessAssumption DEF CodesOf
      <4>4. new \in StoreIds' /\ db'.store[new].of = owner
        BY <2>7, <2>12, <2>15
      <4>5. QED
        BY <4>1, <4>2, <4>3, <4>4 DEF Whole
    <3>2. \A u \in Users : db'.business[u] # NoRow => db.business[u] # NoRow \/ Whole(u)'
      BY <2>12, <3>1
    <3>3. Rows(db.setting)' = StoreIds'
      BY <2>2, <2>7, <2>12, <2>15 DEF BusinessIsWhole, Rows
    <3>4. \A r \in RoleIds : db.role[r].protected =>
            /\ r \in RoleIds' /\ db'.role[r] = db.role[r]
            /\ \A u \in Users : <<u, Anywhere, r>> \in db.holds => <<u, Anywhere, r>> \in db'.holds
            /\ <<r, Wildcard>> \in db.permits => <<r, Wildcard>> \in db'.permits
      BY <2>11, <2>15, <2>16
    <3>5. \A s \in StoreIds : s \in StoreIds' /\ db'.store[s].of = db.store[s].of
      BY <2>15, <2>17
    <3>6. QED
      BY <2>2, <3>2, <3>3, <3>4, <3>5, WholeStays
  <2>23. RolesExist'
    <3>1. \A p \in db'.permits : p[1] \in RoleIds'
      BY <2>2, <2>11, <2>13, <2>15 DEF RolesExist
    <3>2. \A h \in db'.holds : /\ h[3] \in RoleIds' /\ h[2] \in StoreIds' \cup {Anywhere}
                               /\ db'.people[h[1]] # NoRow
      BY <2>2, <2>3, <2>5, <2>11, <2>15 DEF RolesExist
    <3>3. \A m \in db'.member : m[2] \in GroupIds'
      BY <2>2, <2>11, <2>15 DEF RolesExist
    <3>4. ASSUME NEW r \in RoleIds'
          PROVE  /\ role[r].of \in Ids => role[r].of \in GroupIds'
                 /\ role[r].of \in Users => db'.business[role[r].of] # NoRow
      <4>1. CASE r \in clones
        <5>1. role[r].of = owner /\ owner \notin Ids
          BY <2>9, <4>1, AccessAssumption
        <5>2. db'.business[owner] # NoRow
          BY <2>7, <2>12
        <5>3. QED
          BY <5>1, <5>2
      <4>2. CASE r \in RoleIds
        BY <2>2, <2>7, <2>12, <2>15, <2>16, <4>2 DEF RolesExist
      <4>3. QED
        BY <2>15, <4>1, <4>2
    <3>5. \A s \in StoreIds' : db'.business[db'.store[s].of] # NoRow
      <4>1. \A s \in StoreIds : db.store[s].of \in Users
        BY <2>2, RowTypes DEF StoreIds, Rows
      <4>2. QED
        BY <2>2, <2>7, <2>12, <2>15, <2>17, <4>1 DEF RolesExist
    <3>6. \A u \in Users : claims'[u] # NoRow => db'.people[u] # NoRow
      BY <2>2, <2>11, <2>20 DEF RolesExist
    <3>7. QED
      BY <2>11, <3>1, <3>2, <3>3, <3>4, <3>5, <3>6 DEF RolesExist
  <2>24. NamesUnique'
    <3>1. ASSUME NEW q \in RoleIds', NEW r \in RoleIds', q # r, role[q].of \notin Ids
          PROVE  <<role[q].of, role[q].name>> # <<role[r].of, role[r].name>>
      <4>1. CASE q \in clones /\ r \in clones
        <5>1. q[2] # r[2] /\ q[2] \in DOMAIN Templates /\ r[2] \in DOMAIN Templates
          BY <2>3, <3>1, <4>1
        <5>2. Templates[q[2]].name # Templates[r[2]].name
          BY <5>1, TemplatesAre
        <5>3. QED
          BY <2>9, <4>1, <5>2
      <4>2. CASE q \in clones /\ r \in RoleIds
        BY <2>9, <2>16, <2>18, <4>2
      <4>3. CASE q \in RoleIds /\ r \in clones
        BY <2>9, <2>16, <2>18, <4>3
      <4>4. CASE q \in RoleIds /\ r \in RoleIds
        BY <2>2, <2>16, <3>1, <4>4 DEF NamesUnique
      <4>5. QED
        BY <2>15, <4>1, <4>2, <4>3, <4>4
    <3>2. \A s, t \in StoreIds' : db'.store[s] = db'.store[t] => s = t
      BY <2>2, <2>7, <2>12, <2>15, <2>17, <2>19 DEF NamesUnique
    <3>3. \A g, h \in GroupIds' : db'.group[g] = db'.group[h] => g = h
      BY <2>2, <2>11, <2>15 DEF NamesUnique
    <3>4. QED
      BY <2>11, <3>1, <3>2, <3>3 DEF NamesUnique
  <2>25. HeldWhereItBelongs'
    <3>1. ASSUME NEW h \in db'.holds, h[2] \in StoreIds'
          PROVE  role[h[3]].of = db'.store[h[2]].of
      <4>1. h[2] # Anywhere
        BY <2>15, <2>17, <3>1, AccessAssumption
      <4>2. h \in db.holds
        BY <2>11, <3>1, <4>1
      <4>3. h[2] \in StoreIds /\ h[3] \in RoleIds
        BY <2>2, <4>1, <4>2 DEF RolesExist
      <4>4. QED
        BY <2>2, <2>16, <2>17, <4>2, <4>3 DEF HeldWhereItBelongs
    <3>2. QED
      BY <2>11, <3>1 DEF HeldWhereItBelongs
  <2>26. OnlyOwnerHoldsAll'
    <3>1. \A r \in RoleIds' : role[r].protected => role[r].of \in Users
      BY <2>2, <2>9, <2>15, <2>16 DEF OnlyOwnerHoldsAll
    <3>2. \A p \in db'.permits : p[2] = Wildcard => role[p[1]].protected
      <4>1. \A p \in added : p[2] = Wildcard => role[p[1]].protected
        BY <2>3, <2>9, <2>13, TemplatesAre
      <4>2. \A p \in db.permits : p[2] = Wildcard => role[p[1]].protected
        BY <2>2, <2>16 DEF OnlyOwnerHoldsAll, RolesExist
      <4>3. QED
        BY <2>11, <4>1, <4>2
    <3>3. \A h \in db'.holds : role[h[3]].protected => h[1] = role[h[3]].of
      <4>1. \A h \in db.holds : role[h[3]].protected => h[1] = role[h[3]].of
        BY <2>2, <2>16 DEF OnlyOwnerHoldsAll, RolesExist
      <4>2. QED
        BY <2>3, <2>9, <2>11, <4>1
    <3>4. QED
      BY <2>2, <2>11, <2>20, <3>1, <3>2, <3>3 DEF OnlyOwnerHoldsAll
  <2>27. TablesInv'
    BY <1>1, <2>20, <2>21, <2>22, <2>23, <2>24, <2>25, <2>26, UnusedStays DEF TablesInv
  <2>28. Fixed
    BY <2>3, <2>11, <2>13, <2>16 DEF Fixed, CodesOf, HoldersOf
  <2>29. QED
    BY <1>1, <2>1, <2>14, <2>21, <2>27, <2>28, WroteKeeps
<1>8. QED
    BY <1>6, <1>7

\* A deployment's seed is committed: a group and a role that were not there, and
\* a permission that is not "*".
LEMMA CommitSeedKeeps ==
    ASSUME AccessInv, NEW x \in Handlers, CommitSeed(x)
    PROVE  AccessInv' /\ Fixed
<1>1. Active(x) /\ pc[x] = "commit" /\ job[x].op = "seed" /\ Relies(x)
    BY AtCommit DEF CommitSeed, Active
<1>2. PICK j \in JobType : j = job[x]
    BY <1>1, UnderWay
<1>3. j.on \in {"group", "platform"} /\ j.name \in Names /\ j.code \in Codes /\ j.code # Wildcard
    BY <1>1, <1>2, JobIs DEF Relies, Grantable
<1>4. PICK row \in Ids : row = Row(x)
    BY <1>1, OwnRow
<1>5. row \notin RoleIds /\ row \notin GroupIds /\ row[1] = ticket[x] /\ row \notin StoreIds
    BY <1>1, <1>4, OwnRow DEF RoleIds, GroupIds, StoreIds, Rows
<1>6. PICK p \in Ids : p = pick[x]
    BY <1>1, UnderWay DEF Picked, Naming
<1>7. p \in RoleIds => KindOf(p) # "business" /\ ~db.role[p].protected
  <2>1. p \in RoleIds => KindOf(p) = KindFor(j)
    BY <1>1, <1>2, <1>6, UnderWay DEF Picked, Naming
  <2>2. KindFor(j) # "business"
    BY <1>3 DEF KindFor
  <2>3. QED
    BY <2>1, <2>2, OthersAreOpen
<1>8. PICK of : of = (IF j.on = "group" THEN base[x] ELSE Platform)
    OBVIOUS
<1>9. PICK role : role = (IF p = row THEN [of |-> of, name |-> j.name, protected |-> FALSE] ELSE db.role[row])
    OBVIOUS
<1>10. PICK group : group = (IF base[x] = row THEN j.name ELSE db.group[row])
    OBVIOUS
<1>11. CASE Failed(x)
    BY <1>1, <1>11, FailedKeeps
<1>12. CASE ~Failed(x)
  <2>1. /\ Wrote(x)
        /\ base[x] = row => ~GroupNamed(j.name, NoRow)
        /\ of \in GroupIds \cup {row, Platform}
        /\ IF p = row THEN UniqueName(of, j.name, NoRow) ELSE p \in RoleIds
        /\ db' = [db EXCEPT
             !.group[row] = IF base[x] = row THEN j.name ELSE @,
             !.role[row] = IF p = row THEN [of |-> of, name |-> j.name, protected |-> FALSE] ELSE @,
             !.permits = @ \cup {<<p, j.code>>}]
    BY <1>2, <1>4, <1>6, <1>8, <1>12, CommitIs DEF CommitSeed
  <2>2. /\ db \in Tables /\ BusinessIsWhole /\ RolesExist /\ NamesUnique
        /\ HeldWhereItBelongs /\ OnlyOwnerHoldsAll
    BY TablesAre
  <2>3. PICK permits : permits = db.permits \cup {<<p, j.code>>}
    OBVIOUS
  <2>4. db' = [db EXCEPT !.group = [db.group EXCEPT ![row] = group],
                         !.role = [db.role EXCEPT ![row] = role], !.permits = permits]
    BY <1>9, <1>10, <2>1, <2>2, <2>3 DEF Tables
  <2>5. /\ db'.people = db.people /\ db'.business = db.business /\ db'.permits = permits
        /\ db'.holds = db.holds /\ db'.store = db.store /\ db'.setting = db.setting
        /\ db'.member = db.member /\ db'.templates = db.templates
        /\ db'.group = [db.group EXCEPT ![row] = group]
        /\ db'.role = [db.role EXCEPT ![row] = role]
    BY <2>2, <2>4 DEF Tables
  <2>6. /\ \A r \in Ids : db'.role[r] = IF r = row THEN role ELSE db.role[r]
        /\ \A g \in Ids : db'.group[g] = IF g = row THEN group ELSE db.group[g]
    BY <2>2, <2>5, TableTypes
  <2>7. of \in Ids \cup {Platform} /\ of \notin Users
    BY <2>1, AccessAssumption DEF GroupIds, Rows
  <2>8. ASSUME p = row
        PROVE  role \in RoleRow /\ role # NoRow /\ role.of = of /\ role.name = j.name /\ ~role.protected
    <3>1. role = [of |-> of, name |-> j.name, protected |-> FALSE]
      BY <1>9, <2>8
    <3>2. role \in RoleRow /\ role.of = of /\ role.name = j.name /\ ~role.protected
      BY <1>3, <2>7, <3>1 DEF RoleRow
    <3>3. QED
      BY <3>2, NoRowIsNone
  <2>9. p # row => role = NoRow /\ p \in RoleIds
    BY <1>5, <1>9, <2>1 DEF RoleIds, Rows
  <2>10. group \in Names \cup {NoRow} /\ (base[x] = row => group = j.name /\ group # NoRow)
         /\ (base[x] # row => group = NoRow)
    BY <1>3, <1>5, <1>10, NoRowIsNone DEF GroupIds, Rows
  <2>11. permits \in SUBSET (Ids \X Codes)
    BY <1>3, <2>2, <2>3, TableTypes
  <2>12. db' \in Tables
    <3>1. [db.group EXCEPT ![row] = group] \in [Ids -> Names \cup {NoRow}]
      BY <2>2, <2>10, TableTypes
    <3>2. [db.role EXCEPT ![row] = role] \in [Ids -> RoleRow \cup {NoRow}]
      BY <2>2, <2>8, <2>9, TableTypes
    <3>3. QED
      BY <2>2, <2>4, <2>11, <3>1, <3>2 DEF Tables
  <2>13. /\ RoleIds' = IF p = row THEN RoleIds \cup {row} ELSE RoleIds
         /\ GroupIds' = IF base[x] = row THEN GroupIds \cup {row} ELSE GroupIds
         /\ StoreIds' = StoreIds
    <3>1. RoleIds' = IF p = row THEN RoleIds \cup {row} ELSE RoleIds
      BY <1>5, <2>6, <2>8, <2>9 DEF RoleIds, Rows
    <3>2. GroupIds' = IF base[x] = row THEN GroupIds \cup {row} ELSE GroupIds
      BY <1>5, <2>6, <2>10 DEF GroupIds, Rows
    <3>3. QED
      BY <2>5, <3>1, <3>2 DEF StoreIds, Rows
  <2>14. \A r \in RoleIds : r \in Ids /\ r # row /\ r \in RoleIds' /\ db'.role[r] = db.role[r]
    BY <1>5, <2>6, <2>13 DEF RoleIds, Rows
  <2>15. \A g \in GroupIds : g \in Ids /\ g # row /\ g \in GroupIds' /\ db'.group[g] = db.group[g]
    BY <1>5, <2>6, <2>13 DEF GroupIds, Rows
  <2>16. p \in RoleIds'
    BY <2>9, <2>13
  <2>17. \A r \in RoleIds' : r \in RoleIds \/ (r = row /\ p = row /\ db'.role[r] = role)
    BY <2>6, <2>13
  <2>18. Alone(x) /\ claims' = claims /\ jobs' = jobs
    BY <2>1, WroteIsAlone
  <2>19. Kindly(x)
    <3>1. ASSUME NEW r \in Ids, db'.role[r] # NoRow, r[1] # ticket[x]
          PROVE  r \in RoleIds /\ KindOf(r)' = KindOf(r) /\ db'.role[r] = db.role[r]
      BY <1>5, <2>6, <3>1 DEF KindOf, RoleIds, Rows
    <3>2. \A g \in Ids : db.group[g] = NoRow /\ g[1] # ticket[x] => db'.group[g] = NoRow
      BY <1>5, <2>6
    <3>3. QED
      BY <2>5, <2>18, <3>1, <3>2, KindlyRows
  <2>20. BusinessIsWhole'
    <3>1. Rows(db.setting)' = Rows(db.setting) /\ Rows(db.setting) = StoreIds
      BY <2>2, <2>5 DEF Rows, BusinessIsWhole
    <3>2. \A q \in db.permits : q \in db'.permits
      BY <2>3, <2>5
    <3>3. QED
      BY <2>2, <2>5, <2>13, <2>14, <3>1, <3>2, WholeStays
  <2>21. RolesExist'
    <3>1. \A q \in permits : q[1] \in RoleIds'
      BY <2>2, <2>3, <2>14, <2>16 DEF RolesExist
    <3>2. \A h \in db.holds : h[3] \in RoleIds'
      BY <2>2, <2>14 DEF RolesExist
    <3>3. \A m \in db.member : m[2] \in GroupIds'
      BY <2>2, <2>15 DEF RolesExist
    <3>4. ASSUME NEW r \in RoleIds'
          PROVE  /\ db'.role[r].of \in Ids => db'.role[r].of \in GroupIds'
                 /\ db'.role[r].of \in Users => db.business[db'.role[r].of] # NoRow
      <4>1. CASE r \in RoleIds
        BY <2>2, <2>14, <2>15, <4>1 DEF RolesExist
      <4>2. CASE r = row /\ p = row /\ db'.role[r] = role
        <5>1. db'.role[r].of = of /\ of \notin Users
          BY <2>7, <2>8, <4>2
        <5>2. of \in Ids => of \in GroupIds'
          <6>1. SUFFICES ASSUME of \in Ids PROVE of \in GroupIds'
            OBVIOUS
          <6>2. of # Platform
            BY <6>1, AccessAssumption
          <6>3. CASE of \in GroupIds
            BY <2>15, <6>3
          <6>4. CASE of = row
            BY <1>8, <2>13, <6>2, <6>4
          <6>5. QED
            BY <2>1, <6>2, <6>3, <6>4
        <5>3. QED
          BY <5>1, <5>2
      <4>3. QED
        BY <2>17, <4>1, <4>2
    <3>5. QED
      BY <2>2, <2>5, <2>13, <2>18, <3>1, <3>2, <3>3, <3>4 DEF RolesExist
  <2>22. NamesUnique'
    <3>1. ASSUME p = row, of \notin Ids, NEW r \in RoleIds
          PROVE  <<db.role[r].of, db.role[r].name>> # <<of, j.name>>
      BY <2>1, <2>14, <3>1, NoRowIsNone DEF UniqueName, NameTaken
    <3>2. ASSUME NEW q \in RoleIds', NEW r \in RoleIds', q # r, db'.role[q].of \notin Ids
          PROVE  <<db'.role[q].of, db'.role[q].name>> # <<db'.role[r].of, db'.role[r].name>>
      <4>1. CASE q \in RoleIds /\ r \in RoleIds
        BY <2>2, <2>14, <3>2, <4>1 DEF NamesUnique
      <4>2. CASE q \notin RoleIds
        BY <2>8, <2>14, <2>17, <3>1, <3>2, <4>2
      <4>3. CASE r \notin RoleIds
        BY <2>8, <2>14, <2>17, <3>1, <3>2, <4>3
      <4>4. QED
        BY <4>1, <4>2, <4>3
    <3>3. \A g, h \in GroupIds' : db'.group[g] = db'.group[h] => g = h
      <4>1. base[x] = row => \A g \in GroupIds : db.group[g] # j.name
        BY <2>1, <2>15, NoRowIsNone DEF GroupNamed
      <4>2. QED
        BY <2>2, <2>6, <2>10, <2>13, <2>15, <4>1 DEF NamesUnique
    <3>4. QED
      BY <2>2, <2>5, <2>13, <3>2, <3>3 DEF NamesUnique
  <2>23. HeldWhereItBelongs'
    BY <2>2, <2>5, <2>13, <2>14 DEF HeldWhereItBelongs, RolesExist
  <2>24. OnlyOwnerHoldsAll'
    <3>1. \A r \in RoleIds' : db'.role[r].protected => db'.role[r].of \in Users
      BY <2>2, <2>8, <2>14, <2>17 DEF OnlyOwnerHoldsAll
    <3>2. \A q \in permits : q[2] = Wildcard => db'.role[q[1]].protected
      BY <1>3, <2>2, <2>3, <2>14 DEF OnlyOwnerHoldsAll, RolesExist
    <3>3. \A h \in db.holds : db'.role[h[3]].protected => h[1] = db'.role[h[3]].of
      BY <2>2, <2>14 DEF OnlyOwnerHoldsAll, RolesExist
    <3>4. QED
      BY <2>2, <2>5, <2>18, <3>1, <3>2, <3>3 DEF OnlyOwnerHoldsAll
  <2>25. TablesInv'
    BY <1>1, <2>18, <2>19, <2>20, <2>21, <2>22, <2>23, <2>24, UnusedStays DEF TablesInv
  <2>26. Fixed
    <3>1. \A r \in RoleIds : db.role[r].protected => r # p
      BY <1>7
    <3>2. QED
      BY <2>3, <2>5, <2>14, <3>1 DEF Fixed, CodesOf, HoldersOf
  <2>27. QED
    BY <1>1, <2>1, <2>12, <2>19, <2>25, <2>26, WroteKeeps
<1>13. QED
    BY <1>11, <1>12

----------------------------------------------------------------------------
(* The steps together.                                                      *)

\* Nothing changes when nothing does.
LEMMA StutterKeeps ==
    ASSUME AccessInv, UNCHANGED vars
    PROVE  AccessInv' /\ Fixed
<1>1. /\ db' = db /\ claims' = claims /\ pc' = pc /\ job' = job /\ ticket' = ticket
      /\ pick' = pick /\ base' = base /\ jobs' = jobs /\ aborts' = aborts
    BY DEF vars, own
<1>2. TablesInv' /\ Fixed
    BY <1>1, TablesStay
<1>3. RoleIds' = RoleIds /\ StoreIds' = StoreIds
    BY <1>1 DEF RoleIds, StoreIds, Rows
<1>4. ASSUME NEW x \in Handlers PROVE Own(x)'
  <2>1. Own(x) /\ ticket[x] \in 0..MaxJobs
    BY DEF AccessInv, TypeOK
  <2>2. Unused(ticket[x])' <=> Unused(ticket[x])
    BY <1>1 DEF Unused
  <2>3. Known(job[x])' <=> Known(job[x])
    BY <1>1, <1>3 DEF Known
  <2>4. Picked(x)' <=> Picked(x)
    BY <1>1, <1>3 DEF Picked, Naming, KindOf, KindFor
  <2>5. Checked(x)' <=> Checked(x)
    BY <1>1, <1>3 DEF Checked, Relies
  <2>6. Flushes(x)' <=> Flushes(x)
    BY <1>1, <1>3 DEF Flushes, StoreNamed
  <2>7. QED
    BY <1>1, <2>1, <2>2, <2>3, <2>4, <2>5, <2>6 DEF Own, Active
<1>5. \A x, y \in Handlers : Apart(x, y)'
    BY <1>1 DEF AccessInv, Apart, Active, Naming
<1>6. TypeOK'
    BY <1>1 DEF AccessInv, TypeOK
<1>7. QED
    BY <1>2, <1>4, <1>5, <1>6 DEF AccessInv

\* A row that is there has a number of a request that has come.
LEMMA RowsAreOld ==
    ASSUME AccessInv, NEW r \in RoleIds
    PROVE  /\ r \in Ids /\ r[1] \in 0..MaxJobs /\ r[1] <= jobs
           /\ \A n \in 0..MaxJobs : Unused(n) => r[1] # n
<1>1. r \in Ids /\ db.role[r] # NoRow
    BY DEF RoleIds, Rows
<1>2. r[1] \in 0..MaxJobs /\ r[2] \in 1..5 /\ r = <<r[1], r[2]>>
    BY <1>1 DEF Ids
<1>3. \A n \in 0..MaxJobs : Unused(n) => r[1] # n
    BY <1>1, <1>2 DEF Unused
<1>4. r[1] <= jobs
    BY <1>2, <1>3, TablesAre
<1>5. QED
    BY <1>1, <1>2, <1>3, <1>4

\* A request arrives, with a number that nothing has.
LEMMA ArriveKeeps ==
    ASSUME AccessInv, Arrive
    PROVE  AccessInv' /\ Fixed
<1>a. PICK x \in Handlers, j \in Jobs[jobs + 1] : \E r \in Nameable(j) :
        /\ pc[x] \in {"idle"} \cup Answers /\ jobs < MaxJobs
        /\ Known(j) /\ (claims[j.actor] # NoRow \/ j.op = "switch")
        /\ job' = [job EXCEPT ![x] = j] /\ pick' = [pick EXCEPT ![x] = r]
        /\ ticket' = [ticket EXCEPT ![x] = jobs + 1]
        /\ pc' = [pc EXCEPT ![x] = "load"]
        /\ jobs' = jobs + 1
        /\ db' = db /\ claims' = claims /\ base' = base /\ aborts' = aborts
  <2>1. PICK idle : idle = {x \in Handlers : pc[x] \in {"idle"} \cup Answers}
    OBVIOUS
  <2>2. PICK x : x = CHOOSE y \in idle : TRUE
    OBVIOUS
  <2>3. idle # {}
    BY <2>1 DEF Arrive
  <2>4. x \in Handlers /\ pc[x] \in {"idle"} \cup Answers
    BY <2>1, <2>2, <2>3
  <2>5. QED
    BY <2>1, <2>2, <2>4 DEF Arrive
<1>1. PICK r \in Nameable(j) :
        /\ pc[x] \in {"idle"} \cup Answers /\ jobs < MaxJobs
        /\ Known(j) /\ (claims[j.actor] # NoRow \/ j.op = "switch")
        /\ job' = [job EXCEPT ![x] = j] /\ pick' = [pick EXCEPT ![x] = r]
        /\ ticket' = [ticket EXCEPT ![x] = jobs + 1]
        /\ pc' = [pc EXCEPT ![x] = "load"]
        /\ jobs' = jobs + 1
        /\ db' = db /\ claims' = claims /\ base' = base /\ aborts' = aborts
    BY <1>a
<1>2. jobs \in 0..MaxJobs /\ MaxJobs \in Nat /\ jobs + 1 \in 1..MaxJobs /\ jobs + 1 \in 0..MaxJobs
    BY <1>1, Bounds DEF AccessInv, TypeOK
<1>3. j \in JobType
    BY <1>1, <1>2, AccessAssumption
<1>4. /\ pc \in [Handlers -> {"idle", "load", "insert", "commit"} \cup Flushed \cup Answers]
      /\ job \in [Handlers -> JobType \cup {NoJob}] /\ ticket \in [Handlers -> 0..MaxJobs]
      /\ pick \in [Handlers -> Ids \cup {NoRow}]
    BY DEF AccessInv, TypeOK
<1>5. /\ pc'[x] = "load" /\ job'[x] = j /\ pick'[x] = r /\ ticket'[x] = jobs + 1
      /\ \A y \in Handlers \ {x} :
            pc'[y] = pc[y] /\ job'[y] = job[y] /\ pick'[y] = pick[y] /\ ticket'[y] = ticket[y]
    BY <1>1, <1>4
<1>6. ~Active(x)
    BY <1>1 DEF Active, Answers, Flushed
<1>7. Unused(jobs + 1) /\ \A n \in 0..MaxJobs : n > jobs + 1 => Unused(n)
    BY <1>2, TablesAre
<1>8. j.op \in RoleOps => r \in RoleIds /\ KindOf(r) = KindFor(j)
    BY DEF Nameable
<1>9. r \in Ids \cup {NoRow}
    BY DEF Nameable, RoleIds, Rows
<1>10. RoleIds' = RoleIds /\ StoreIds' = StoreIds /\ GroupIds' = GroupIds
    BY <1>1 DEF RoleIds, StoreIds, GroupIds, Rows
<1>11. TypeOK'
    BY <1>1, <1>2, <1>3, <1>4, <1>9 DEF AccessInv, TypeOK
<1>12. \A n \in 0..MaxJobs : Unused(n)' <=> Unused(n)
    BY <1>1 DEF Unused
<1>13. TablesInv' /\ Fixed
  <2>1. /\ BusinessIsWhole /\ RolesExist /\ NamesUnique /\ HeldWhereItBelongs /\ OnlyOwnerHoldsAll
    BY TablesAre
  <2>2. BusinessIsWhole'
    BY <1>1, <1>10, <2>1 DEF BusinessIsWhole, HeldAt, CodesOf, Rows
  <2>3. RolesExist' /\ NamesUnique' /\ HeldWhereItBelongs' /\ OnlyOwnerHoldsAll'
    BY <1>1, <1>10, <2>1 DEF RolesExist, NamesUnique, HeldWhereItBelongs, OnlyOwnerHoldsAll
  <2>4. \A n \in 0..MaxJobs : n > jobs' => Unused(n)'
    BY <1>1, <1>7, <1>12
  <2>5. Fixed
    BY <1>1, <1>10 DEF Fixed, CodesOf, HoldersOf
  <2>6. QED
    BY <2>2, <2>3, <2>4, <2>5 DEF TablesInv
<1>14. Own(x)'
  <2>1. Naming(x)' <=> j.op \in RoleOps
    BY <1>5 DEF Naming
  <2>2. j.op \in RoleOps => r \in Ids /\ r[1] <= jobs + 1
    BY <1>2, <1>8, RowsAreOld
  <2>3. KindFor(job[x])' = KindFor(j)
    BY <1>5 DEF KindFor
  <2>4. r \in RoleIds => KindOf(r)' = KindOf(r)
    BY <1>1 DEF KindOf
  <2>5. Picked(x)'
    BY <1>1, <1>5, <1>8, <1>10, <2>1, <2>2, <2>3, <2>4 DEF Picked, KindOf
  <2>6. Checked(x)' /\ Flushes(x)'
    BY <1>5 DEF Checked, Flushes
  <2>7. Known(job[x])'
    BY <1>1, <1>5, <1>10 DEF Known
  <2>8. Unused(ticket[x])'
    <3>1. PICK n \in 0..MaxJobs : n = jobs + 1
      BY <1>2
    <3>2. Unused(n)'
      BY <1>7, <1>12, <3>1
    <3>3. QED
      BY <1>5, <3>1, <3>2 DEF Unused
  <2>9. ticket'[x] \in 1..jobs'
    BY <1>1, <1>2, <1>5
  <2>10. QED
    BY <1>1, <1>3, <1>5, <2>5, <2>6, <2>7, <2>8, <2>9 DEF Own
<1>15. ASSUME NEW y \in Handlers \ {x} PROVE Own(y)'
  <2>1. Own(y) /\ ticket[y] \in 0..MaxJobs
    BY <1>4 DEF AccessInv
  <2>2. Active(y)' <=> Active(y)
    BY <1>5 DEF Active
  <2>3. SUFFICES ASSUME Active(y) PROVE Own(y)'
    BY <2>2 DEF Own
  <2>4. Unused(ticket[y])' <=> Unused(ticket[y])
    BY <1>1, <1>5 DEF Unused
  <2>5. Known(job[y])' <=> Known(job[y])
    BY <1>5, <1>10 DEF Known
  <2>6. Picked(y) /\ pick[y] \in Ids \cup {NoRow}
    BY <1>4, <2>1, <2>3 DEF Own
  <2>7. Picked(y)'
    <3>1. Naming(y)' <=> Naming(y)
      BY <1>5 DEF Naming
    <3>2. pick[y] \in RoleIds => KindOf(pick[y])' = KindOf(pick[y])
      BY <1>1, <1>5 DEF KindOf
    <3>3. KindFor(job[y])' = KindFor(job[y])
      BY <1>5 DEF KindFor
    <3>4. ASSUME pick[y] \in Ids, pick[y][1] <= jobs PROVE pick[y][1] <= jobs'
      BY <1>1, <1>2, <3>4 DEF Ids
    <3>5. QED
      BY <1>5, <1>10, <2>6, <3>1, <3>2, <3>3, <3>4 DEF Picked
  <2>8. Checked(y)' <=> Checked(y)
    BY <1>1, <1>5, <1>10 DEF Checked, Relies
  <2>9. Flushes(y)' <=> Flushes(y)
    BY <1>1, <1>5, <1>10 DEF Flushes, StoreNamed
  <2>10. ticket'[y] \in 1..jobs'
    BY <1>1, <1>2, <1>5, <2>1, <2>3 DEF Own
  <2>11. QED
    BY <1>1, <1>5, <2>1, <2>3, <2>4, <2>5, <2>7, <2>8, <2>9, <2>10 DEF Own
<1>16. ASSUME NEW y \in Handlers \ {x} PROVE Apart(x, y)' /\ Apart(y, x)'
  <2>1. Active(y)' <=> Active(y)
    BY <1>5 DEF Active
  <2>2. SUFFICES ASSUME Active(y) PROVE Apart(x, y)' /\ Apart(y, x)'
    BY <2>1 DEF Apart
  <2>3. ticket[y] \in 1..jobs /\ Unused(ticket[y]) /\ ticket[y] \in 0..MaxJobs /\ Picked(y)
    BY <2>2, UnderWay
  <2>4. ticket[y] # jobs + 1
    BY <1>2, <2>3
  <2>5. j.op \in RoleOps => r[1] # ticket[y]
    BY <1>8, <2>3, RowsAreOld
  <2>6. Naming(x)' <=> j.op \in RoleOps
    BY <1>5 DEF Naming
  <2>7. Naming(y)' <=> Naming(y)
    BY <1>5 DEF Naming
  <2>8. Naming(y) => pick[y][1] # jobs + 1
    BY <1>2, <2>3 DEF Picked, Ids
  <2>9. QED
    BY <1>5, <2>4, <2>5, <2>6, <2>7, <2>8 DEF Apart
<1>17. ASSUME NEW y \in Handlers, NEW z \in Handlers PROVE Apart(y, z)'
  <2>1. CASE y = x \/ z = x
    BY <1>16, <2>1 DEF Apart
  <2>2. CASE y # x /\ z # x
    <3>1. Apart(y, z)
      BY DEF AccessInv
    <3>2. QED
      BY <1>5, <2>2, <3>1 DEF Apart, Active, Naming
  <2>3. QED
    BY <2>1, <2>2
<1>18. QED
    BY <1>11, <1>13, <1>14, <1>15, <1>17 DEF AccessInv

\* The start.
LEMMA InitHolds == Init => AccessInv
<1> SUFFICES ASSUME Init PROVE AccessInv
    OBVIOUS
<1>1. TypeOK
  <2>1. db \in Tables /\ claims \in [Users -> Token \cup {NoRow}]
    BY AccessAssumption DEF Init
  <2>2. /\ pc \in [Handlers -> {"idle", "load", "insert", "commit"} \cup Flushed \cup Answers]
        /\ job \in [Handlers -> JobType \cup {NoJob}]
        /\ pick \in [Handlers -> Ids \cup {NoRow}] /\ base \in [Handlers -> Ids \cup {NoRow}]
    BY DEF Init
  <2>3. ticket \in [Handlers -> 0..MaxJobs] /\ jobs \in 0..MaxJobs /\ aborts \in 0..MaxAborts
    BY Bounds DEF Init
  <2>4. QED
    BY <2>1, <2>2, <2>3 DEF TypeOK
<1>2. ASSUME NEW n \in 0..MaxJobs, n > jobs PROVE Unused(n)
  <2>1. ASSUME NEW k \in 1..5
        PROVE  <<n, k>> \notin RoleIds /\ <<n, k>> \notin StoreIds /\ <<n, k>> \notin GroupIds
               /\ <<n, k>> \in Ids
    BY <1>2 DEF Init, Ids
  <2>2. QED
    BY <2>1 DEF Unused, RoleIds, StoreIds, GroupIds, Rows
<1>3. TablesInv
    BY <1>2 DEF Init, TablesInv
<1>4. \A x \in Handlers : ~Active(x)
    BY DEF Init, Active, Flushed
<1>5. QED
    BY <1>1, <1>3, <1>4 DEF AccessInv, Own, Apart

\* Every step.
LEMMA NextKeeps == AccessInv /\ [Next]_vars => AccessInv' /\ Fixed
<1> SUFFICES ASSUME AccessInv, [Next]_vars PROVE AccessInv' /\ Fixed
    OBVIOUS
<1>1. CASE Arrive
    BY <1>1, ArriveKeeps
<1>2. CASE Rest \/ UNCHANGED vars
    BY <1>2, StutterKeeps DEF Rest
<1>3. ASSUME NEW x \in Handlers, RoleChecks(x) PROVE AccessInv' /\ Fixed
    BY <1>3, BusinessChecksKeep, AdminChecksKeep, InvitesKeep
    DEF RoleChecks, BusinessChecks, AdminChecks
<1>4. ASSUME NEW x \in Handlers, RoleCommits(x) PROVE AccessInv' /\ Fixed
    BY <1>4, InsertRoleKeeps, WriteRoleKeeps, EraseRoleKeeps, PermissionsKeep, InsertHolderKeeps,
       EraseHolderKeeps
    DEF RoleCommits
<1>5. ASSUME NEW x \in Handlers, Premises(x) PROVE AccessInv' /\ Fixed
    BY <1>5, PremiseChecksKeep, InsertBusinessKeeps, CommitBusinessKeeps, InsertStoreKeeps,
       CommitStoreKeeps, WriteStoreKeeps, AsidesKeep
    DEF Premises, CreateBusiness, CreateStore
<1>6. ASSUME NEW x \in Handlers, Membership(x) PROVE AccessInv' /\ Fixed
    BY <1>6, PremiseChecksKeep, GroupCommitsKeep, AsidesKeep, LeavesKeep, RecategoriseKeeps,
       SeedsKeep, CommitSeedKeeps
    DEF Membership
<1>7. ASSUME NEW x \in Handlers, Access(x) PROVE AccessInv' /\ Fixed
    BY <1>7, TokensKeep
<1>8. ASSUME NEW x \in Handlers, Abort(x) PROVE AccessInv' /\ Fixed
    BY <1>8, AbortKeeps
<1>9. QED
    BY <1>1, <1>2, <1>3, <1>4, <1>5, <1>6, <1>7, <1>8 DEF Next, Step

----------------------------------------------------------------------------
(* Theorems.                                                                *)

\* What the requests under way rely on, and the tables, hold at all times,
\* whichever requests race and wherever they are rolled back.
THEOREM AccessInvariant == Spec => []AccessInv
<1>1. Init => AccessInv
    BY InitHolds
<1>2. AccessInv /\ [Next]_vars => AccessInv'
    BY NextKeeps
<1>3. QED
    BY <1>1, <1>2, PTL DEF Spec

\* The tables of Identity Service are what their readers take for granted: a
\* business has its owner's role, holder and first store, nothing outlives what it
\* refers to, no name is taken twice and no role is held in another business's store.
THEOREM TablesAreConsistent == Spec => []TablesConsistent
<1>1. AccessInv => TablesConsistent
    BY DEF AccessInv, TablesInv, TablesConsistent
<1>2. QED
    BY <1>1, AccessInvariant, PTL

\* rbac_guard and seed_permissions: no sequence of grants, assignments and
\* recategorisations gives "*" to a role, a holder or a token but the owner's.
THEOREM OnlyTheOwnerHoldsAll == Spec => []OnlyOwnerHoldsAll
<1>1. AccessInv => OnlyOwnerHoldsAll
    BY DEF AccessInv, TablesInv
<1>2. QED
    BY <1>1, AccessInvariant, PTL

\* reject_protected_role: no step changes an owner's role, its permissions or who
\* holds it, although handlers look at the role without a lock.
THEOREM OwnersRoleIsFixed == Spec => OwnerRoleIsFixed
<1>1. AccessInv /\ [Next]_vars =>
        [\A r \in RoleIds : db.role[r].protected =>
            /\ db'.role[r] = db.role[r]
            /\ {c \in Codes : <<r, c>> \in db'.permits} = CodesOf(r)
            /\ {h \in db'.holds : h[3] = r} = HoldersOf(r)]_vars
    BY NextKeeps DEF Fixed
<1>2. QED
    BY <1>1, AccessInvariant, PTL DEF Spec, OwnerRoleIsFixed
=============================================================================
