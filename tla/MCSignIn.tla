------------------------------ MODULE MCSignIn ------------------------------
(***************************************************************************)
(* Instances of SignIn for TLC: an invited account that has set a password    *)
(* and is logged in, and the requests that its owner, a stranger and an        *)
(* administrator send.                                                        *)
(***************************************************************************)
EXTENDS SignIn, TLC

CONSTANTS phone1, phone2, mail, pw, pw2

Invited ==
    [name |-> ("phone" :> phone1) @@ ("email" :> NoName), secret |-> pw, on |-> TRUE,
     status |-> "invited", kind |-> "business"]

Plain(op) ==
    [op |-> op, channel |-> "phone", name |-> phone1, email |-> NoName, secret |-> pw, who |-> 0]
Mailed(op) == [Plain(op) EXCEPT !.email = mail]
To2(op) == [Plain(op) EXCEPT !.name = phone2]
ByMail(op) == [Plain(op) EXCEPT !.channel = "email", !.name = mail]

TokenJobs ==
    {Plain(op) : op \in {"refresh", "logout", "revoke", "suspend", "reactivate", "deactivate",
                         "activate", "login", "switch", "switchstore"}}
CodeJobs ==
    {Plain("ask"), Plain("verify"), Plain("forgot"), [Plain("reset") EXCEPT !.secret = pw2],
     To2("askchange"), To2("change"), ByMail("ask"), ByMail("verify"),
     ByMail("askchange"), ByMail("change")}
AccountJobs == {[To2("register") EXCEPT !.email = mail], Mailed("staff"), Mailed("enter")}
AllJobs == TokenJobs \cup CodeJobs \cup AccountJobs
=============================================================================
