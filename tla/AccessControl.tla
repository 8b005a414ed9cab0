--------------------------- MODULE AccessControl ---------------------------
(***************************************************************************)
(* Identity Service: businesses, their stores and roles, and the groups and   *)
(* roles of the platform's own staff, in requests that race.                 *)
(*                                                                          *)
(*   load -> (insert -> invited | cloned | placed) -> commit -> ok | refused | error    *)
(*                                                                          *)
(* Every handler checks without locks what it is going to change, inside the   *)
(* transaction that changes it: between the check and the commit another       *)
(* request may commit, and only the constraints of the tables are left.  A      *)
(* handler that flushes an insert before it is done (an invited user, a new      *)
(* business, a new store) holds the unique key until it ends.                  *)
(*                                                                          *)
(* A role of a business, of a group and of the platform are rows of three       *)
(* tables; here they are one, and "of" says whose the role is.  A business is    *)
(* named by its owner.  A row is named by the request that made it.             *)
(***************************************************************************)
EXTENDS Integers, FiniteSets

CONSTANTS
    Handlers,
    Users,
    Names,
    Codes,
    Manage,         \* the permission code that an endpoint asks for
    Wildcard,       \* "*"
    Platform,       \* whose the platform roles are
    Anywhere,       \* where a role holds that is not a store's
    Templates,      \* the role templates of a business type; the first is the owner's
    Jobs,           \* the requests that can be the first, the second, ...
    NoJob, NoRow,
    Start, Tokens,  \* the tables and the access tokens of the start
    MaxJobs, MaxAborts

Ids == (0..MaxJobs) \X (1..5)
Kinds == {"business", "store", "platform", "driver"}
Statuses == {"active", "inactive"}
Settings == {"default", "edited"}
Grantable == Codes \ {Wildcard}

RoleRow == [of : Users \cup Ids \cup {Platform}, name : Names, protected : BOOLEAN]
StoreRow == [of : Users, name : Names]
Token ==
    [kind : Kinds, of : Users \cup {NoRow}, at : Ids \cup {NoRow}, codes : SUBSET Codes]

RoleOps == {"editrole", "droprole", "grant", "ungrant", "assign", "revoke"}
Operations ==
    RoleOps \cup {"business", "editbusiness", "newrole", "newstore", "editstore", "retype",
                  "setstore", "newgroup", "editgroup", "dropgroup", "join", "leave", "recast",
                  "switch", "seed"}
StoreOps == {"assign", "revoke", "editstore", "retype", "setstore"}
\* "on" is the table of the endpoint, "place" the business, the store or the
\* group in its path or its body.
Request ==
    [op : Operations, on : Kinds \cup {"group"}, actor : Users, user : Users,
     place : Users \cup Ids \cup {Platform}, name : Names, code : Codes]
\* A role is of a business, a group or the platform; a seed names the codes of
\* the enumeration.
JobType ==
    {j \in Request :
        /\ j.on = "business" => j.place \in Users
        /\ j.on = "store" => j.op \notin {"newrole", "editrole", "droprole", "grant", "ungrant"}
        /\ j.on = "group" => j.op # "recast" /\ j.place \in Ids
        /\ j.on = "platform" /\ j.op \in {"newrole", "editrole"} => j.place = Platform
        /\ j.on = "driver" => j.op \notin RoleOps \cup {"newrole"}
        /\ j.op \in {"newstore", "editbusiness"} => j.place \in Users
        /\ j.op = "join" => j.place \in Ids
        /\ j.op = "seed" => j.code \in Grantable}

Tables ==
    [people : [Users -> Kinds \cup {NoRow}],
     business : [Users -> Statuses \cup {NoRow}],
     role : [Ids -> RoleRow \cup {NoRow}],
     permits : SUBSET (Ids \X Codes),
     holds : SUBSET (Users \X (Ids \cup {Anywhere}) \X Ids),
     store : [Ids -> StoreRow \cup {NoRow}],
     setting : [Ids -> Settings \cup {NoRow}],
     group : [Ids -> Names \cup {NoRow}],
     member : SUBSET (Users \X Ids),
     templates : SUBSET (DOMAIN Templates)]

\* The owner's template is the one that has "*".
ASSUME AccessAssumption ==
    /\ Manage \in Grantable /\ Wildcard \in Codes
    /\ \A n \in 1..MaxJobs : Jobs[n] \subseteq JobType
    /\ NoJob \notin JobType
    /\ NoRow \notin Ids \cup Users \cup Names \cup Kinds \cup Statuses \cup Settings
                   \cup RoleRow \cup StoreRow \cup Token
    /\ Platform \notin Ids \cup Users /\ Users \cap Ids = {}
    /\ Anywhere \notin Ids
    /\ DOMAIN Templates \subseteq 1..5 /\ "Main Location" \in Names
    /\ \A k \in DOMAIN Templates :
          /\ Templates[k].name \in Names /\ Templates[k].codes \subseteq Codes
          /\ Wildcard \in Templates[k].codes <=> k = 1
    /\ \A k, l \in DOMAIN Templates : Templates[k].name = Templates[l].name => k = l
    /\ Start \in Tables /\ Tokens \in [Users -> Token \cup {NoRow}]
    /\ MaxJobs \in Nat /\ MaxAborts \in Nat

VARIABLES
    db,             \* the tables
    claims,         \* what each user's access token says
    pc, job,
    ticket,         \* the number of the request
    pick,           \* the role it names
    base,           \* the group it has found
    jobs, aborts

own == <<job, ticket, pick, base>>
vars == <<db, claims, pc, own, jobs, aborts>>

Answers == {"ok", "refused", "error"}
Flushed == {"invited", "cloned", "placed"}

Rows(table) == {r \in Ids : table[r] # NoRow}
RoleIds == Rows(db.role)
StoreIds == Rows(db.store)
GroupIds == Rows(db.group)

TypeOK ==
    /\ db \in Tables
    /\ claims \in [Users -> Token \cup {NoRow}]
    /\ pc \in [Handlers -> {"idle", "load", "insert", "commit"} \cup Flushed \cup Answers]
    /\ job \in [Handlers -> JobType \cup {NoJob}] /\ ticket \in [Handlers -> 0..MaxJobs]
    /\ pick \in [Handlers -> Ids \cup {NoRow}] /\ base \in [Handlers -> Ids \cup {NoRow}]
    /\ jobs \in 0..MaxJobs /\ aborts \in 0..MaxAborts

----------------------------------------------------------------------------
(* What the tables say.                                                     *)

KindOf(r) ==
    IF db.role[r].of \in Users THEN "business"
    ELSE IF db.role[r].of = Platform THEN "platform" ELSE "group"

HoldersOf(r) == {h \in db.holds : h[3] = r}
GroupsOf(u) == {g \in GroupIds : <<u, g>> \in db.member}
HeldAt(u, owner) ==
    {r \in RoleIds : <<u, Anywhere, r>> \in db.holds /\ db.role[r].of = owner}

\* role_permission_codes
CodesOf(r) == {c \in Codes : <<r, c>> \in db.permits}

\* resolve_effective_permissions: nothing writes the grants and denies of one
\* user, the roles are all there is.
EffectivePermissions(rs) == UNION {CodesOf(r) : r \in rs}

\* compute_platform_role_permissions: the roles the user holds, or else the
\* one that has the name of the user's category.
PlatformPermissions(u) ==
    LET platform == {r \in RoleIds : KindOf(r) = "platform"}
        held == {r \in platform : <<u, Anywhere, r>> \in db.holds}
        named == {r \in platform : db.role[r].name = db.people[u]}
    IN EffectivePermissions(IF EffectivePermissions(held) # {} THEN held ELSE named)

----------------------------------------------------------------------------
(* What is true of the tables.                                              *)

\* The comment of create_business' result and of StoreSetting: a business never
\* exists without its owner's role, which the owner holds and which grants
\* everything, and a store never without its settings.
BusinessIsWhole ==
    /\ \A u \in Users : db.business[u] # NoRow =>
          /\ \E r \in HeldAt(u, u) : db.role[r].protected /\ Wildcard \in CodesOf(r)
          /\ \E s \in StoreIds : db.store[s].of = u
    /\ Rows(db.setting) = StoreIds

\* No permission, holder, member, role, store or token outlives what it refers to: a token is
\* never computed from a role that has been deleted, whoever deletes what
\* another request is handing out.
RolesExist ==
    /\ \A p \in db.permits : p[1] \in RoleIds
    /\ \A h \in db.holds : h[3] \in RoleIds /\ h[2] \in StoreIds \cup {Anywhere}
                            /\ db.people[h[1]] # NoRow
    /\ \A m \in db.member : m[2] \in GroupIds
    /\ \A r \in RoleIds : db.role[r].of \in Ids => db.role[r].of \in GroupIds
    /\ \A r \in RoleIds : db.role[r].of \in Users => db.business[db.role[r].of] # NoRow
    /\ \A s \in StoreIds : db.business[db.store[s].of] # NoRow
    /\ \A u \in Users : claims[u] # NoRow => db.people[u] # NoRow

\* Two requests that both see a name free do not both take it.
NamesUnique ==
    /\ \A q, r \in RoleIds :
          q # r /\ db.role[q].of \notin Ids
          => <<db.role[q].of, db.role[q].name>> # <<db.role[r].of, db.role[r].name>>
    /\ \A s, t \in StoreIds : db.store[s] = db.store[t] => s = t
    /\ \A g, h \in GroupIds : db.group[g] = db.group[h] => g = h

\* rbac_guard: no legal sequence of grants and assignments builds a second
\* owner.  What grants everything is the protected role, only its business's
\* owner holds it, and no token says "*" for anybody else.
OnlyOwnerHoldsAll ==
    /\ \A r \in RoleIds : db.role[r].protected => db.role[r].of \in Users
    /\ \A p \in db.permits : p[2] = Wildcard => db.role[p[1]].protected
    /\ \A h \in db.holds : db.role[h[3]].protected => h[1] = db.role[h[3]].of
    /\ \A u \in Users : claims[u] # NoRow /\ Wildcard \in claims[u].codes => claims[u].of = u

\* _get_business_role_or_404, in nine endpoints: the role in the path is never
\* one of another business, whose codes a store's token would then carry.
HeldWhereItBelongs ==
    \A h \in db.holds : h[2] \in StoreIds => db.role[h[3]].of = db.store[h[2]].of

\* The tables of the start are any that earlier requests left.
Init ==
    /\ db = Start /\ claims = Tokens
    /\ BusinessIsWhole /\ RolesExist /\ NamesUnique /\ HeldWhereItBelongs /\ OnlyOwnerHoldsAll
    /\ RoleIds \cup StoreIds \cup GroupIds \subseteq {0} \X (1..5)
    /\ pc = [x \in Handlers |-> "idle"] /\ job = [x \in Handlers |-> NoJob]
    /\ ticket = [x \in Handlers |-> 0]
    /\ pick = [x \in Handlers |-> NoRow] /\ base = [x \in Handlers |-> NoRow]
    /\ jobs = 0 /\ aborts = 0

----------------------------------------------------------------------------
(* Requests.                                                                *)

\* A client names a store and a role that it has seen: any role of the kind it
\* works on.
Known(j) == j.on = "store" /\ j.op \in StoreOps => j.place \in StoreIds
KindFor(j) == IF j.on = "store" THEN "business" ELSE j.on
Nameable(j) ==
    IF j.op \in RoleOps THEN {r \in RoleIds : KindOf(r) = KindFor(j)} ELSE {NoRow}

Arrive ==
    LET idle == {x \in Handlers : pc[x] \in {"idle"} \cup Answers} IN
    /\ idle # {} /\ jobs < MaxJobs
    /\ LET x == CHOOSE y \in idle : TRUE IN
       \E j \in Jobs[jobs + 1] : \E r \in Nameable(j) :
          /\ Known(j) /\ (claims[j.actor] # NoRow \/ j.op = "switch")
          /\ job' = [job EXCEPT ![x] = j] /\ pick' = [pick EXCEPT ![x] = r]
          /\ ticket' = [ticket EXCEPT ![x] = jobs + 1]
          /\ pc' = [pc EXCEPT ![x] = "load"]
    /\ jobs' = jobs + 1
    /\ UNCHANGED <<db, claims, base, aborts>>

Finish(x, answer) ==
    /\ pc' = [pc EXCEPT ![x] = answer]
    /\ job' = [job EXCEPT ![x] = NoJob] /\ ticket' = [ticket EXCEPT ![x] = 0]
    /\ pick' = [pick EXCEPT ![x] = NoRow] /\ base' = [base EXCEPT ![x] = NoRow]

Goto(x, place) == pc' = [pc EXCEPT ![x] = place] /\ UNCHANGED own

\* A request at a place of its handler.
At(x, place, op, on) == pc[x] = place /\ job[x].op = op /\ job[x].on = on

\* What the checks come to: the answer when there is nothing to write.
Go(x, place) ==
    /\ IF place \in Answers THEN Finish(x, place) ELSE Goto(x, place)
    /\ UNCHANGED <<db, claims, jobs, aborts>>
Proceed(x, ok) == Go(x, IF ok THEN "commit" ELSE "refused")

\* The commit, which the constraints of the tables can still refuse.
Commit(x, ok, new) ==
    /\ db' = IF ok THEN new ELSE db
    /\ Finish(x, IF ok THEN "ok" ELSE "error")
    /\ UNCHANGED <<claims, jobs, aborts>>

Row(x) == <<ticket[x], 1>>
Caller(x) == claims[job[x].actor]

\* require_permission
Permitted(x) == Caller(x).codes \cap {Manage, Wildcard} # {}
\* require_business_permission, for the business in the path
Permits(x, owner) == Caller(x).of = owner /\ Permitted(x) /\ db.business[owner] # NoRow
\* require_platform_staff, with a permission
Staff(x) == Caller(x).kind = "platform" /\ Permitted(x)
\* require_can_grant
CanGrant(x, codes) == Wildcard \in Caller(x).codes \/ codes \subseteq Caller(x).codes
\* _require_store_scope_match
StoreScope(x, s) == Caller(x).at \in {NoRow, s}
\* coerce_permission_code: every code of the enumeration, which "*" is not in
Coerces(code) == code \in Grantable
\* reject_protected_role
Open_Always(r) == TRUE
Open(r) == ~db.role[r].protected

\* The role of the path is one of the business in the path.
RoleOf(x, owner) == pick[x] \in RoleIds /\ db.role[pick[x]].of = owner

\* Role names are unique in a business and among the platform roles, not in a group.
NameTaken(of, name, but) ==
    \E r \in RoleIds \ {but} : db.role[r].of = of /\ db.role[r].name = name
UniqueName(of, name, but) == of \in Ids \/ ~NameTaken(of, name, but)

\* The unique key of what a handler has flushed and not committed.
Invites(y) ==
    /\ pc[y] \in {"invited", "commit"} /\ job[y].op = "assign"
    /\ db.people[job[y].user] = NoRow
NoKey == <<"none", NoRow, NoRow>>
Key(y) ==
    IF Invites(y) THEN <<"user", job[y].user, NoRow>>
    ELSE IF pc[y] = "cloned" THEN <<"owner", job[y].actor, NoRow>>
    ELSE IF pc[y] = "placed" THEN <<"store", job[y].place, job[y].name>>
    ELSE NoKey
Free(x, key) == \A y \in Handlers \ {x} : Key(y) # key

----------------------------------------------------------------------------
(* Roles: what the endpoints check.                                         *)

CreateBusinessRole(x) ==
    LET owner == job[x].place IN
    /\ At(x, "load", "newrole", "business")
    /\ Proceed(x, Permits(x, owner) /\ ~NameTaken(owner, job[x].name, NoRow))

UpdateBusinessRole(x) ==
    LET owner == job[x].place IN
    /\ At(x, "load", "editrole", "business")
    /\ Proceed(x, /\ Permits(x, owner) /\ RoleOf(x, owner) /\ Open(pick[x])
                  /\ ~NameTaken(owner, job[x].name, pick[x]))

DeleteBusinessRole(x) ==
    LET owner == job[x].place IN
    /\ At(x, "load", "droprole", "business")
    /\ Proceed(x, /\ Permits(x, owner) /\ RoleOf(x, owner) /\ Open(pick[x])
                  /\ HoldersOf(pick[x]) = {})

AssignRolePermission(x) ==
    LET owner == job[x].place
        code == job[x].code
    IN
    /\ At(x, "load", "grant", "business")
    /\ IF /\ Permits(x, owner) /\ RoleOf(x, owner) /\ Open(pick[x])
          /\ CanGrant(x, CodesOf(pick[x])) /\ Coerces(code) /\ CanGrant(x, {code})
       THEN Go(x, IF code \in CodesOf(pick[x]) THEN "ok" ELSE "commit")
       ELSE Go(x, "refused")

RemoveRolePermission(x) ==
    LET owner == job[x].place IN
    /\ At(x, "load", "ungrant", "business")
    /\ Proceed(x, /\ Permits(x, owner) /\ RoleOf(x, owner) /\ Open(pick[x])
                  /\ CanGrant(x, CodesOf(pick[x])) /\ job[x].code \in CodesOf(pick[x]))

\* An unknown user is invited: the row is inserted before the role is looked at.
LookUp(x) ==
    LET j == job[x] IN
    /\ pc[x] = "load" /\ j.op = "assign" /\ j.on \in {"business", "store"}
    /\ db.people[j.user] = NoRow
    /\ Go(x, IF Permits(x, IF j.on = "business" THEN j.place ELSE db.store[j.place].of)
             THEN "insert" ELSE "refused")
InsertUser(x) ==
    /\ pc[x] = "insert" /\ job[x].op = "assign"
    /\ Free(x, <<"user", job[x].user, NoRow>>)
    /\ Go(x, IF db.people[job[x].user] = NoRow THEN "invited" ELSE "error")

\* The account is there, or it is this request's own.
Reachable(x) ==
    \/ pc[x] = "load" /\ db.people[job[x].user] # NoRow
    \/ pc[x] = "invited"
Target(x) ==
    IF db.people[job[x].user] = NoRow THEN job[x].on ELSE db.people[job[x].user]

AssignStaffRole(x) ==
    LET j == job[x] IN
    /\ Reachable(x) /\ At(x, pc[x], "assign", "business")
    /\ Proceed(x, /\ Permits(x, j.place) /\ RoleOf(x, j.place) /\ Open(pick[x])
                  /\ CanGrant(x, CodesOf(pick[x]))
                  /\ j.user # j.actor /\ Target(x) = "business"
                  /\ <<j.user, Anywhere, pick[x]>> \notin db.holds)

RevokeStaffRole(x) ==
    LET j == job[x] IN
    /\ At(x, "load", "revoke", "business")
    /\ Proceed(x, /\ Permits(x, j.place) /\ RoleOf(x, j.place) /\ Open(pick[x])
                  /\ CanGrant(x, CodesOf(pick[x]))
                  /\ <<j.user, Anywhere, pick[x]>> \in db.holds)

AssignStoreStaff(x) ==
    LET j == job[x]
        owner == db.store[j.place].of
    IN
    /\ Reachable(x) /\ At(x, pc[x], "assign", "store")
    /\ Proceed(x, /\ Permits(x, owner) /\ Target(x) = "store"
                  /\ RoleOf(x, owner) /\ Open(pick[x]) /\ CanGrant(x, CodesOf(pick[x]))
                  /\ j.user # j.actor /\ <<j.user, j.place, pick[x]>> \notin db.holds)

RevokeStoreStaffRole(x) ==
    LET j == job[x]
        owner == db.store[j.place].of
    IN
    /\ At(x, "load", "revoke", "store")
    /\ Proceed(x, /\ Permits(x, owner) /\ RoleOf(x, owner) /\ Open(pick[x])
                  /\ CanGrant(x, CodesOf(pick[x]))
                  /\ <<j.user, j.place, pick[x]>> \in db.holds)

\* The endpoints of the platform's own staff: there is no look at the names.
CreateRole(x) == At(x, "load", "newrole", "group") /\ Proceed(x, Staff(x))
CreatePlatformRole(x) == At(x, "load", "newrole", "platform") /\ Proceed(x, Staff(x))

AdminRole(x) == Staff(x) /\ pick[x] \in RoleIds
UpdateRole(x) == At(x, "load", "editrole", "group") /\ Proceed(x, AdminRole(x))
UpdatePlatformRole(x) == At(x, "load", "editrole", "platform") /\ Proceed(x, AdminRole(x))
DeleteRole(x) ==
    /\ At(x, "load", "droprole", "group")
    /\ Proceed(x, AdminRole(x) /\ HoldersOf(pick[x]) = {})
DeletePlatformRole(x) ==
    /\ At(x, "load", "droprole", "platform")
    /\ Proceed(x, AdminRole(x) /\ HoldersOf(pick[x]) = {})

Grants(x) ==
    IF ~(AdminRole(x) /\ Coerces(job[x].code)) THEN "refused"
    ELSE IF job[x].code \in CodesOf(pick[x]) THEN "ok" ELSE "commit"
AssignInternalPermission(x) == At(x, "load", "grant", "group") /\ Go(x, Grants(x))
AssignPlatformPermission(x) == At(x, "load", "grant", "platform") /\ Go(x, Grants(x))
RemoveInternalPermission(x) ==
    /\ At(x, "load", "ungrant", "group")
    /\ Proceed(x, AdminRole(x) /\ job[x].code \in CodesOf(pick[x]))
RemovePlatformPermission(x) ==
    /\ At(x, "load", "ungrant", "platform")
    /\ Proceed(x, AdminRole(x) /\ job[x].code \in CodesOf(pick[x]))

\* A second group row of one user is more than one_or_none can bear.
AssignUserRole(x) ==
    LET u == job[x].user IN
    /\ At(x, "load", "assign", "group")
    /\ IF ~(AdminRole(x) /\ db.people[u] # NoRow) THEN Go(x, "refused")
       ELSE IF Cardinality(GroupsOf(u)) > 1 THEN Go(x, "error")
       ELSE IF GroupsOf(u) # {db.role[pick[x]].of} THEN Go(x, "refused")
       ELSE Go(x, IF <<u, Anywhere, pick[x]>> \in db.holds THEN "ok" ELSE "commit")
AssignUserPlatformRole(x) ==
    LET u == job[x].user IN
    /\ At(x, "load", "assign", "platform")
    /\ IF AdminRole(x) /\ db.people[u] # NoRow
       THEN Go(x, IF <<u, Anywhere, pick[x]>> \in db.holds THEN "ok" ELSE "commit")
       ELSE Go(x, "refused")
RemoveUserRole(x) ==
    /\ At(x, "load", "revoke", "group")
    /\ Proceed(x, Staff(x) /\ <<job[x].user, Anywhere, pick[x]>> \in db.holds)
RemoveUserPlatformRole(x) ==
    /\ At(x, "load", "revoke", "platform")
    /\ Proceed(x, Staff(x) /\ <<job[x].user, Anywhere, pick[x]>> \in db.holds)

----------------------------------------------------------------------------
(* Roles: what is written, and what the tables refuse.                      *)

\* The unique key of a role's name, and the group it refers to.
RoleFits(of, name, but) ==
    /\ UniqueName(of, name, but)
    /\ of \in Ids => of \in GroupIds

InsertRole(x) ==
    LET j == job[x] IN
    /\ pc[x] = "commit" /\ j.op = "newrole"
    /\ Commit(x, RoleFits(j.place, j.name, NoRow),
              [db EXCEPT !.role[Row(x)] =
                 [of |-> j.place, name |-> j.name, protected |-> FALSE]])

\* RoleUpdate can move a role to another group.  A row that is gone is not updated.
WriteRole(x) ==
    LET j == job[x] IN
    /\ pc[x] = "commit" /\ j.op = "editrole"
    /\ Commit(x, pick[x] \in RoleIds /\ RoleFits(j.place, j.name, pick[x]),
              [db EXCEPT !.role[pick[x]].of = j.place, !.role[pick[x]].name = j.name])

\* Nothing says what becomes of the permissions and the holders of a role that
\* is deleted: with one of either the deletion fails.
Referred(r) == CodesOf(r) # {} \/ HoldersOf(r) # {}
EraseRole(x) ==
    LET gone == pick[x] \notin RoleIds IN
    /\ pc[x] = "commit" /\ job[x].op = "droprole"
    /\ Commit(x, gone \/ ~Referred(pick[x]),
              [db EXCEPT !.role[pick[x]] = NoRow])

InsertPermission(x) ==
    LET row == <<pick[x], job[x].code>> IN
    /\ pc[x] = "commit" /\ job[x].op = "grant"
    /\ Commit(x, pick[x] \in RoleIds /\ row \notin db.permits,
              [db EXCEPT !.permits = @ \cup {row}])
ErasePermission(x) ==
    /\ pc[x] = "commit" /\ job[x].op = "ungrant"
    /\ Commit(x, TRUE, [db EXCEPT !.permits = @ \ {<<pick[x], job[x].code>>}])

Holding(x) == <<job[x].user, IF job[x].on = "store" THEN job[x].place ELSE Anywhere, pick[x]>>
InsertHolder(x) ==
    LET u == job[x].user IN
    /\ pc[x] = "commit" /\ job[x].op = "assign"
    /\ Commit(x, pick[x] \in RoleIds /\ Holding(x) \notin db.holds,
              [db EXCEPT !.holds = @ \cup {Holding(x)}, !.people[u] = Target(x)])
EraseHolder(x) ==
    /\ pc[x] = "commit" /\ job[x].op = "revoke"
    /\ Commit(x, TRUE, [db EXCEPT !.holds = @ \ {Holding(x)}])

----------------------------------------------------------------------------
(* Businesses and stores.                                                   *)

\* create_business: the business, a role for each template, the owner's role
\* for its owner and the first store with its settings are one transaction.
CheckOwner(x) ==
    /\ At(x, "load", "business", "business")
    /\ Go(x, IF db.business[job[x].actor] = NoRow THEN "insert" ELSE "refused")
InsertBusiness_Early(x) ==
    LET owner == job[x].actor IN
    /\ At(x, "insert", "business", "business")
    /\ Free(x, <<"owner", owner, NoRow>>) /\ db.business[owner] = NoRow
    /\ db' = [db EXCEPT !.business[owner] = "active"]
    /\ Goto(x, "cloned") /\ UNCHANGED <<claims, jobs, aborts>>
InsertBusiness(x) ==
    LET owner == job[x].actor IN
    /\ At(x, "insert", "business", "business")
    /\ Free(x, <<"owner", owner, NoRow>>)
    /\ Go(x, IF db.business[owner] # NoRow \/ db.templates = {} THEN "error" ELSE "cloned")
Clones(x) == {<<ticket[x], k>> : k \in db.templates}
CloneRoles(x) ==
    [r \in Ids |-> IF r \notin Clones(x) THEN db.role[r] ELSE
        [of |-> job[x].actor, name |-> Templates[r[2]].name, protected |-> r[2] = 1]]
ClonePermissions(x) ==
    {p \in Ids \X Codes : p[1] \in Clones(x) /\ p[2] \in Templates[p[1][2]].codes}
CommitBusiness(x) ==
    LET owner == job[x].actor IN
    /\ At(x, "cloned", "business", "business")
    /\ Commit(x, 1 \in db.templates,
              [db EXCEPT !.business[owner] = "active",
                 !.role = CloneRoles(x), !.permits = @ \cup ClonePermissions(x),
                 !.holds = @ \cup {<<owner, Anywhere, Row(x)>>},
                 !.store[Row(x)] = [of |-> owner, name |-> "Main Location"],
                 !.setting[Row(x)] = "default"])
CreateBusiness(x) == CheckOwner(x) \/ InsertBusiness(x) \/ CommitBusiness(x)

UpdateBusiness(x) ==
    LET owner == job[x].place IN
    /\ At(x, "load", "editbusiness", "business")
    /\ Proceed(x, Permits(x, owner))
CommitStatus(x) ==
    /\ At(x, "commit", "editbusiness", "business")
    /\ Commit(x, TRUE, [db EXCEPT !.business[job[x].place] = "inactive"])

StoreNamed(owner, name) ==
    \E s \in StoreIds : db.store[s].of = owner /\ db.store[s].name = name
CheckStore(x) ==
    LET owner == job[x].place IN
    /\ At(x, "load", "newstore", "store")
    /\ Go(x, IF /\ Caller(x).kind # "store" /\ Permits(x, owner)
                /\ ~StoreNamed(owner, job[x].name)
             THEN "insert" ELSE "refused")
InsertStore(x) ==
    LET owner == job[x].place IN
    /\ At(x, "insert", "newstore", "store")
    /\ Free(x, <<"store", owner, job[x].name>>)
    /\ Go(x, IF StoreNamed(owner, job[x].name) THEN "refused" ELSE "placed")
CommitStore(x) ==
    /\ At(x, "placed", "newstore", "store")
    /\ Commit(x, TRUE,
              [db EXCEPT !.store[Row(x)] = [of |-> job[x].place, name |-> job[x].name],
                 !.setting[Row(x)] = "default"])
CreateStore(x) == CheckStore(x) \/ InsertStore(x) \/ CommitStore(x)

MayUpdate(x) ==
    LET s == job[x].place IN Permits(x, db.store[s].of) /\ StoreScope(x, s)
UpdateStore(x) == At(x, "load", "editstore", "store") /\ Proceed(x, MayUpdate(x))
WriteStore(x) ==
    LET s == job[x].place
        owner == db.store[s].of
    IN
    /\ At(x, "commit", "editstore", "store")
    /\ Free(x, <<"store", owner, job[x].name>>)
    /\ Commit(x, \A o \in StoreIds \ {s} : db.store[o] # [of |-> owner, name |-> job[x].name],
              [db EXCEPT !.store[s].name = job[x].name])
\* With a location type the business is read before the transaction is begun,
\* which then cannot be begun.
RetypeStore(x) ==
    /\ At(x, "load", "retype", "store")
    /\ Go(x, IF MayUpdate(x) THEN "error" ELSE "refused")

UpdateStoreSettings(x) ==
    /\ At(x, "load", "setstore", "store")
    /\ Proceed(x, MayUpdate(x) /\ db.setting[job[x].place] # NoRow)
WriteSetting(x) ==
    /\ At(x, "commit", "setstore", "store")
    /\ Commit(x, TRUE, [db EXCEPT !.setting[job[x].place] = "edited"])

----------------------------------------------------------------------------
(* Groups and their members.                                                *)

CreateGroup(x) == At(x, "load", "newgroup", "group") /\ Proceed(x, Staff(x))
UpdateGroup(x) ==
    At(x, "load", "editgroup", "group") /\ Proceed(x, Staff(x) /\ job[x].place \in GroupIds)
DeleteGroup(x) ==
    /\ At(x, "load", "dropgroup", "group")
    /\ Proceed(x, /\ Staff(x) /\ job[x].place \in GroupIds
                  /\ \A u \in Users : job[x].place \notin GroupsOf(u))

GroupNamed(name, but) == \E g \in GroupIds \ {but} : db.group[g] = name
InsertGroup(x) ==
    /\ pc[x] = "commit" /\ job[x].op = "newgroup"
    /\ Commit(x, ~GroupNamed(job[x].name, NoRow),
              [db EXCEPT !.group[Row(x)] = job[x].name])
WriteGroup(x) ==
    LET g == job[x].place IN
    /\ pc[x] = "commit" /\ job[x].op = "editgroup"
    /\ Commit(x, g \in GroupIds /\ ~GroupNamed(job[x].name, g),
              [db EXCEPT !.group[g] = job[x].name])
\* With a role or a member the deletion fails, as that of a role does.
EraseGroup(x) ==
    LET g == job[x].place IN
    /\ pc[x] = "commit" /\ job[x].op = "dropgroup"
    /\ Commit(x, /\ \A u \in Users : g \notin GroupsOf(u)
                 /\ \A r \in RoleIds : db.role[r].of # g,
              [db EXCEPT !.group[g] = NoRow])

AssignUserToGroup(x) ==
    LET u == job[x].user IN
    /\ At(x, "load", "join", "group")
    /\ IF ~(Staff(x) /\ db.people[u] # NoRow /\ job[x].place \in GroupIds)
       THEN Go(x, "refused")
       ELSE IF Cardinality(GroupsOf(u)) > 1 THEN Go(x, "error")
       ELSE Proceed(x, GroupsOf(u) = {})
\* The key of a membership is the user and the group: of two groups both are kept.
InsertMember(x) ==
    LET row == <<job[x].user, job[x].place>> IN
    /\ pc[x] = "commit" /\ job[x].op = "join"
    /\ Commit(x, job[x].place \in GroupIds /\ row \notin db.member,
              [db EXCEPT !.member = @ \cup {row}])
RemoveUserFromGroup(x) ==
    LET u == job[x].user IN
    /\ At(x, "load", "leave", "group")
    /\ IF ~(Staff(x) /\ db.people[u] # NoRow) \/ GroupsOf(u) = {} THEN Go(x, "refused")
       ELSE IF Cardinality(GroupsOf(u)) > 1 THEN Go(x, "error")
       ELSE /\ pc' = [pc EXCEPT ![x] = "commit"]
            /\ base' = [base EXCEPT ![x] = CHOOSE g \in GroupsOf(u) : TRUE]
            /\ UNCHANGED <<db, claims, job, ticket, pick, jobs, aborts>>
EraseMember(x) ==
    /\ pc[x] = "commit" /\ job[x].op = "leave"
    /\ Commit(x, TRUE, [db EXCEPT !.member = @ \ {<<job[x].user, base[x]>>}])

\* update_user: the category is one of the fields an administrator may write.
Recategorise(x) ==
    /\ pc[x] = "load" /\ job[x].op = "recast"
    /\ IF Staff(x) /\ db.people[job[x].user] # NoRow
       THEN Commit(x, TRUE, [db EXCEPT !.people[job[x].user] = job[x].on])
       ELSE Go(x, "refused")

----------------------------------------------------------------------------
(* Seeding, at a deployment.  What it finds it leaves as it is.             *)

SeedRoleTemplates(x) ==
    /\ At(x, "load", "seed", "business")
    /\ Commit(x, TRUE, [db EXCEPT !.templates = DOMAIN Templates])

\* seed_internal_rbac and seed_permissions: the group, the role, its permission.
RolesNamed(of, name) == {r \in RoleIds : db.role[r].of = of /\ db.role[r].name = name}
Seeds(x, of, found) ==
    /\ pick' = [pick EXCEPT ![x] = IF found = {} THEN Row(x) ELSE CHOOSE r \in found : TRUE]
    /\ base' = [base EXCEPT ![x] = of]
    /\ pc' = [pc EXCEPT ![x] = "commit"]
    /\ UNCHANGED <<db, claims, job, ticket, jobs, aborts>>
SeedInternalRoles(x) ==
    LET groups == {g \in GroupIds : db.group[g] = job[x].name}
        of == IF groups = {} THEN Row(x) ELSE CHOOSE g \in groups : TRUE
        found == RolesNamed(of, job[x].name)
    IN
    /\ At(x, "load", "seed", "group")
    /\ IF Cardinality(found) > 1 THEN Go(x, "error") ELSE Seeds(x, of, found)
SeedPlatformRoles(x) ==
    /\ At(x, "load", "seed", "platform")
    /\ Seeds(x, NoRow, RolesNamed(Platform, job[x].name))
CommitSeed(x) ==
    LET new == pick[x] = Row(x)
        newGroup == base[x] = Row(x)
        of == IF job[x].on = "group" THEN base[x] ELSE Platform
        name == job[x].name
    IN
    /\ pc[x] = "commit" /\ job[x].op = "seed"
    /\ Commit(x, /\ newGroup => ~GroupNamed(name, NoRow)
                 /\ of \in GroupIds \cup {Row(x), Platform}
                 /\ IF new THEN UniqueName(of, name, NoRow) ELSE pick[x] \in RoleIds,
              [db EXCEPT
                 !.group[Row(x)] = IF newGroup THEN name ELSE @,
                 !.role[Row(x)] =
                     IF new THEN [of |-> of, name |-> name, protected |-> FALSE] ELSE @,
                 !.permits = @ \cup {<<pick[x], job[x].code>>}])

----------------------------------------------------------------------------
(* Access tokens: what the roles come to when the token is issued.          *)

Issue(x, token) ==
    /\ claims' = [claims EXCEPT ![job[x].actor] = token]
    /\ Finish(x, "ok")
    /\ UNCHANGED <<db, jobs, aborts>>
Is(x, kind) == At(x, "load", "switch", kind) /\ db.people[job[x].actor] = kind

SwitchBusinessContext(x) ==
    LET owner == job[x].place
        held == HeldAt(job[x].actor, owner)
    IN
    /\ Is(x, "business")
    /\ IF held = {} THEN Go(x, "refused")
       ELSE Issue(x, [kind |-> "business", of |-> owner, at |-> NoRow,
                      codes |-> EffectivePermissions(held)])

\* One of the stores of a user who is given several: the first of random ids.
StoreStaffContext(x) ==
    LET at == {h \in db.holds : h[1] = job[x].actor /\ h[2] \in StoreIds} IN
    /\ Is(x, "store")
    /\ IF at = {}
       THEN Issue(x, [kind |-> "store", of |-> NoRow, at |-> NoRow, codes |-> {}])
       ELSE \E h \in at :
               Issue(x, [kind |-> "store", of |-> db.store[h[2]].of, at |-> h[2],
                         codes |-> EffectivePermissions({h[3]})])

\* The roles of the user's group, held or not.
LoginPlatformStaff(x) ==
    LET groups == GroupsOf(job[x].actor) IN
    /\ Is(x, "platform")
    /\ IF Cardinality(groups) > 1 THEN Go(x, "error")
       ELSE Issue(x, [kind |-> "platform", of |-> NoRow, at |-> NoRow,
                      codes |-> EffectivePermissions({r \in RoleIds : db.role[r].of \in groups})])
LoginDriver(x) ==
    /\ Is(x, "driver")
    /\ Issue(x, [kind |-> "driver", of |-> NoRow, at |-> NoRow,
                 codes |-> PlatformPermissions(job[x].actor)])
WrongKind(x) ==
    /\ pc[x] = "load" /\ job[x].op = "switch" /\ db.people[job[x].actor] # job[x].on
    /\ Go(x, "refused")

----------------------------------------------------------------------------
\* The transaction is rolled back; what it held is free.
Abort(x) ==
    /\ pc[x] \in {"insert", "commit"} \cup Flushed /\ aborts < MaxAborts
    /\ aborts' = aborts + 1
    /\ Finish(x, "error")
    /\ UNCHANGED <<db, claims, jobs>>

RoleChecks(x) ==
    \/ CreateBusinessRole(x) \/ UpdateBusinessRole(x) \/ DeleteBusinessRole(x)
    \/ AssignRolePermission(x) \/ RemoveRolePermission(x)
    \/ LookUp(x) \/ InsertUser(x)
    \/ AssignStaffRole(x) \/ RevokeStaffRole(x)
    \/ AssignStoreStaff(x) \/ RevokeStoreStaffRole(x)
    \/ CreateRole(x) \/ UpdateRole(x) \/ DeleteRole(x)
    \/ CreatePlatformRole(x) \/ UpdatePlatformRole(x) \/ DeletePlatformRole(x)
    \/ AssignInternalPermission(x) \/ RemoveInternalPermission(x)
    \/ AssignPlatformPermission(x) \/ RemovePlatformPermission(x)
    \/ AssignUserRole(x) \/ RemoveUserRole(x)
    \/ AssignUserPlatformRole(x) \/ RemoveUserPlatformRole(x)
RoleCommits(x) ==
    \/ InsertRole(x) \/ WriteRole(x) \/ EraseRole(x)
    \/ InsertPermission(x) \/ ErasePermission(x)
    \/ InsertHolder(x) \/ EraseHolder(x)
Premises(x) ==
    \/ CreateBusiness(x) \/ UpdateBusiness(x) \/ CommitStatus(x)
    \/ CreateStore(x) \/ UpdateStore(x) \/ WriteStore(x) \/ RetypeStore(x)
    \/ UpdateStoreSettings(x) \/ WriteSetting(x)
Membership(x) ==
    \/ CreateGroup(x) \/ InsertGroup(x) \/ UpdateGroup(x) \/ WriteGroup(x)
    \/ DeleteGroup(x) \/ EraseGroup(x)
    \/ AssignUserToGroup(x) \/ InsertMember(x) \/ RemoveUserFromGroup(x) \/ EraseMember(x)
    \/ Recategorise(x)
    \/ SeedRoleTemplates(x) \/ SeedInternalRoles(x) \/ SeedPlatformRoles(x) \/ CommitSeed(x)
Access(x) ==
    \/ SwitchBusinessContext(x) \/ StoreStaffContext(x)
    \/ LoginPlatformStaff(x) \/ LoginDriver(x) \/ WrongKind(x)

Step(x) ==
    RoleChecks(x) \/ RoleCommits(x) \/ Premises(x) \/ Membership(x) \/ Access(x)
\* The requests of the bound are answered.
Rest ==
    /\ jobs = MaxJobs /\ \A x \in Handlers : pc[x] \in {"idle"} \cup Answers
    /\ UNCHANGED vars

Next == Arrive \/ Rest \/ \E x \in Handlers : Step(x) \/ Abort(x)
Spec == Init /\ [][Next]_vars

----------------------------------------------------------------------------
(* Properties.                                                              *)

\* "Ownership transfer requires a dedicated audited flow": whatever happens to
\* the other roles, the owner's role, its permissions and its holder stay.
OwnerRoleIsFixed ==
    [][\A r \in RoleIds : db.role[r].protected =>
          /\ db'.role[r] = db.role[r]
          /\ {c \in Codes : <<r, c>> \in db'.permits} = CodesOf(r)
          /\ {h \in db'.holds : h[3] = r} = HoldersOf(r)]_vars

\* The tables are what their readers take for granted: the types, the references,
\* the unique names, a business with all that create_business makes, and no role
\* in a store that is another business's.
TablesConsistent ==
    TypeOK /\ BusinessIsWhole /\ RolesExist /\ NamesUnique /\ HeldWhereItBelongs
=============================================================================
