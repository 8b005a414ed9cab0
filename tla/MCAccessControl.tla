-------------------------- MODULE MCAccessControl --------------------------
(***************************************************************************)
(* Instances of AccessControl for TLC: a restaurant with a manager and a       *)
(* cashier at its store, an administrator of the platform, a driver, and       *)
(* somebody who has no account yet.                                           *)
(***************************************************************************)
EXTENDS AccessControl, TLC

CONSTANTS boss, manager, admin, rider, newcomer

ownerRole == <<0, 1>>
managerRole == <<0, 2>>
adminRole == <<0, 3>>
driverRole == <<0, 4>>
spareRole == <<0, 5>>
shop == <<0, 1>>
staff == <<0, 1>>
empty == <<0, 2>>

TemplateRows == <<[name |-> "Owner", codes |-> {Manage, Wildcard}],
                  [name |-> "Manager", codes |-> {Manage}],
                  [name |-> "Spare", codes |-> {}]>>
\* The release brings the third template, which a deployment seeds.

Filled(rows) == [r \in Ids |-> IF r \in DOMAIN rows THEN rows[r] ELSE NoRow]
StartTables ==
    [people |-> (boss :> "business") @@ (manager :> "business") @@ (admin :> "platform")
                @@ (rider :> "driver") @@ (newcomer :> NoRow),
     business |-> [u \in Users |-> IF u = boss THEN "active" ELSE NoRow],
     role |-> Filled((ownerRole :> [of |-> boss, name |-> "Owner", protected |-> TRUE])
              @@ (managerRole :> [of |-> boss, name |-> "Manager", protected |-> FALSE])
              @@ (adminRole :> [of |-> staff, name |-> "Staff", protected |-> FALSE])
              @@ (driverRole :> [of |-> Platform, name |-> "driver", protected |-> FALSE])
              @@ (spareRole :> [of |-> boss, name |-> "Spare", protected |-> FALSE])),
     permits |-> {<<ownerRole, Manage>>, <<ownerRole, Wildcard>>, <<managerRole, Manage>>,
                  <<adminRole, Manage>>},
     holds |-> {<<boss, Anywhere, ownerRole>>, <<manager, Anywhere, managerRole>>,
                <<admin, Anywhere, adminRole>>},
     store |-> Filled(shop :> [of |-> boss, name |-> "Main Location"]),
     setting |-> Filled(shop :> "default"),
     group |-> Filled((staff :> "Staff") @@ (empty :> "Empty")),
     member |-> {<<admin, staff>>},
     templates |-> {1, 2}]

StartTokens ==
    (boss :> [kind |-> "business", of |-> boss, at |-> NoRow, codes |-> {Manage, Wildcard}])
    @@ (manager :> [kind |-> "business", of |-> boss, at |-> NoRow, codes |-> {Manage}])
    @@ (admin :> [kind |-> "platform", of |-> NoRow, at |-> NoRow, codes |-> {Manage}])
    @@ [u \in {rider, newcomer} |-> NoRow]

J(op, on, actor, user, place, name, code) ==
    [op |-> op, on |-> on, actor |-> actor, user |-> user, place |-> place, name |-> name,
     code |-> code]
By(actor, op, on, place) == J(op, on, actor, newcomer, place, "Spare", Manage)

BusinessJobs ==
    {By(boss, op, "business", boss) : op \in {"editrole", "droprole", "grant", "ungrant",
                                                "assign", "editbusiness"}}
      \cup {[By(boss, "newrole", "business", boss) EXCEPT !.name = "Manager2"],
            [By(boss, "editrole", "business", boss) EXCEPT !.name = "Manager2"],
            [By(boss, "grant", "business", boss) EXCEPT !.code = Wildcard],
            [By(manager, "assign", "business", boss) EXCEPT !.user = manager],
            [By(boss, "assign", "business", boss) EXCEPT !.user = manager],
            [By(boss, "revoke", "business", boss) EXCEPT !.user = manager],
            By(manager, "switch", "business", boss),
            By(manager, "business", "business", manager),
            By(newcomer, "switch", "business", boss)}
StoreJobs ==
    {[By(boss, "newstore", "store", boss) EXCEPT !.name = "Annex"],
     [By(boss, "editstore", "store", shop) EXCEPT !.name = "Annex"]}
      \cup {By(boss, op, "store", shop) : op \in {"assign", "revoke", "setstore", "retype"}}
      \cup {By(newcomer, "switch", "store", shop)}
AdminJobs ==
    {By(admin, op, "group", empty) : op \in {"newrole", "editrole", "dropgroup", "droprole",
                                             "grant", "ungrant", "seed"}}
      \cup {By(admin, op, "platform", Platform) : op \in {"newrole", "editrole", "droprole",
                                                          "grant", "ungrant", "seed", "switch"}}
      \cup {[By(admin, op, on, empty) EXCEPT !.user = rider] :
               op \in {"assign", "revoke"}, on \in {"group", "platform"}}
      \cup {[By(admin, "revoke", "group", empty) EXCEPT !.user = admin]}
      \cup {[By(admin, "join", "group", g) EXCEPT !.user = rider] : g \in {staff, empty}}
      \cup {[By(admin, "leave", "group", empty) EXCEPT !.user = rider],
            [By(admin, "newgroup", "group", empty) EXCEPT !.name = "Spare"],
            [By(admin, "editgroup", "group", empty) EXCEPT !.name = "Spare"],
            By(admin, "recast", "store", empty), By(admin, "seed", "business", boss),
            By(rider, "switch", "driver", boss)}
AllJobs == BusinessJobs \cup StoreJobs \cup AdminJobs

\* The first request sets the scene for two more.
FirstJobs ==
    {[By(admin, "join", "group", empty) EXCEPT !.user = rider],
     By(boss, "assign", "store", shop)}
JobsByTurn == [n \in 1..MaxJobs |-> IF n = 1 THEN FirstJobs ELSE AllJobs]
=============================================================================
