------------------------------- MODULE SignIn -------------------------------
(***************************************************************************)
(* Identity Service: accounts, one-time codes, login sessions and their       *)
(* refresh tokens, in requests that race.                                    *)
(*                                                                          *)
(*   load -> (insert | mark, store, send | lock, judge) -> ... -> issue -> ok  *)
(*   refresh: load -> rotate -> check -> ok, or trace -> kill -> reused       *)
(*                                                                          *)
(* A handler's objects stay as it loaded them (expire_on_commit is off), its  *)
(* updates write the columns it changed, and only a refresh token that is       *)
(* rotated and a code that is checked are read FOR UPDATE.  A row is named by   *)
(* the request that made it, 0 for those of the start; a login's session and    *)
(* its token family have one name.  Expiry is left out: an expired token or      *)
(* code is answered as a revoked or a used one is.                            *)
(***************************************************************************)
EXTENDS Integers, FiniteSets, Sequences

CONSTANTS
    Handlers,
    Names, NoName,  \* phone numbers and email addresses
    Blank,          \* the empty string, a platform account's phone
    Secrets, NoSecret,
    Jobs, NoJob,
    NoRow,
    Founder,        \* the account of the start
    MaxAttempts,    \* OTP_MAX_ATTEMPTS
    MaxJobs, MaxAborts

Ids == 0..MaxJobs
Channels == {"phone", "email"}
Purposes == {"login", "password_reset", "phone_change", "email_change"}

AccountRow ==
    [name : [Channels -> Names \cup {NoName}], secret : Secrets \cup {NoSecret},
     on : BOOLEAN, status : {"active", "invited", "suspended"},
     kind : {"business", "platform"}]
TokenRow == [account : Ids, family : Ids, revoked : BOOLEAN, next : Ids \cup {NoRow}]
SessionRow == [account : Ids, token : Ids, active : BOOLEAN]
CodeRow == [account : Ids, purpose : Purposes, used : BOOLEAN, attempts : 0..MaxAttempts]

CodeOps == {"verify", "reset", "change"}
AskOps == {"ask", "forgot", "askchange"}
AdminOps == {"suspend", "activate", "deactivate", "reactivate"}
ClaimOps == {"askchange", "change", "switch", "switchstore"}
Operations ==
    CodeOps \cup AskOps \cup AdminOps \cup ClaimOps
      \cup {"register", "login", "staff", "enter", "refresh", "logout", "revoke"}

\* "who" is the account of the access token, or the one an administrator names.
JobType ==
    [op : Operations, channel : Channels, name : Names, email : Names \cup {NoName},
     secret : Secrets \cup {NoSecret}, who : Ids]

ASSUME SignInAssumption ==
    /\ NoName \notin Names /\ Blank \in Names /\ NoSecret \notin Secrets
    /\ NoJob \notin Jobs
    /\ NoRow \notin Ids \cup AccountRow \cup TokenRow \cup SessionRow
    /\ Jobs \subseteq JobType
    /\ Founder \in AccountRow /\ Founder.name["phone"] # Blank
    /\ MaxAttempts \in Nat \ {0} /\ MaxJobs \in Nat /\ MaxAborts \in Nat

VARIABLES
    account, token, session,
    codes,          \* verification codes, in the order of created_at
    verdicts,       \* what each code was answered: how often right and wrong
    pc, job,
    ticket,         \* the number of the request
    pick,           \* the token, the session or the code it presents; 0 is a wrong code
    who, seen,      \* the account it works for, and the row as it was read
    hold,           \* the rows it has locked
    want,           \* the tokens, or the codes, it is going to revoke
    kill,           \* the sessions it is going to end, or to move
    jobs, aborts

tables == <<account, token, session, codes>>
book == <<tables, verdicts>>
own == <<job, ticket, pick, who, seen, hold, want, kill>>
vars == <<book, pc, own, jobs, aborts>>

Answers == {"ok", "refused", "error", "reused"}
Places ==
    {"idle", "load", "insert", "mark", "store", "send", "lock", "judge", "welcome",
     "recheck", "write", "sweep", "kill", "issue", "rotate", "check", "trace"} \cup Answers
Codes == 1..Len(codes)

TypeOK ==
    /\ account \in [Ids -> AccountRow \cup {NoRow}]
    /\ token \in [Ids -> TokenRow \cup {NoRow}]
    /\ session \in [Ids -> SessionRow \cup {NoRow}]
    /\ Len(codes) <= MaxJobs /\ \A c \in Codes : codes[c] \in CodeRow
    /\ Len(verdicts) = Len(codes)
    /\ \A c \in Codes : verdicts[c] \in [right : Nat, wrong : Nat]
    /\ pc \in [Handlers -> Places]
    /\ job \in [Handlers -> Jobs \cup {NoJob}]
    /\ ticket \in [Handlers -> Ids] /\ pick \in [Handlers -> Ids]
    /\ who \in [Handlers -> Ids \cup {NoRow}]
    /\ seen \in [Handlers -> AccountRow \cup {NoRow}]
    /\ hold \in [Handlers -> SUBSET ({"token", "code"} \X Ids)]
    /\ want \in [Handlers -> SUBSET Ids] /\ kill \in [Handlers -> SUBSET Ids]
    /\ jobs \in Ids /\ aborts \in 0..MaxAborts

NoRows == [n \in Ids |-> NoRow]
Init ==
    /\ account = [NoRows EXCEPT ![0] = Founder]
    /\ token = [NoRows EXCEPT ![0] =
          [account |-> 0, family |-> 0, revoked |-> FALSE, next |-> NoRow]]
    /\ session = [NoRows EXCEPT ![0] = [account |-> 0, token |-> 0, active |-> TRUE]]
    /\ codes = <<>> /\ verdicts = <<>>
    /\ pc = [x \in Handlers |-> "idle"] /\ job = [x \in Handlers |-> NoJob]
    /\ ticket = [x \in Handlers |-> 0] /\ pick = [x \in Handlers |-> 0]
    /\ who = [x \in Handlers |-> NoRow] /\ seen = [x \in Handlers |-> NoRow]
    /\ hold = [x \in Handlers |-> {}]
    /\ want = [x \in Handlers |-> {}] /\ kill = [x \in Handlers |-> {}]
    /\ jobs = 0 /\ aborts = 0

Accounts == {a \in Ids : account[a] # NoRow}
Tokens == {t \in Ids : token[t] # NoRow}
Logins == {s \in Ids : session[s] # NoRow}
ActiveOf(a) == {s \in Logins : session[s].account = a /\ session[s].active}
Goto(x, place) == pc' = [pc EXCEPT ![x] = place]

----------------------------------------------------------------------------
(* Requests.                                                                *)

Purpose(j) ==
    CASE j.op \in {"ask", "verify"} -> "login"
      [] j.op \in {"forgot", "reset"} -> "password_reset"
      [] OTHER -> IF j.channel = "phone" THEN "phone_change" ELSE "email_change"

\* What a client can present: a token or a session it was given, a code that
\* was sent for the purpose or a wrong one, and a change it has asked for.
Presents(j, k) ==
    /\ j.op \in {"refresh", "logout"} => k \in Tokens
    /\ j.op = "revoke" => k \in Logins
    /\ j.op \in CodeOps => k \in {0} \cup {c \in Codes : codes[c].purpose = Purpose(j)}
    /\ j.op \notin {"refresh", "logout", "revoke"} \cup CodeOps => k = 0
Possible(j) ==
    /\ j.op \in AdminOps \cup ClaimOps => j.who \in Accounts
    /\ j.op = "change" => \E c \in Codes :
          codes[c].account = j.who /\ codes[c].purpose = Purpose(j)

\* Handlers are alike: a request is given to one of the free ones.
Idle == {x \in Handlers : pc[x] \in {"idle"} \cup Answers}
Arrive(x, j, k) ==
    /\ Idle # {} /\ x = CHOOSE y \in Idle : TRUE
    /\ jobs < MaxJobs
    /\ Possible(j) /\ Presents(j, k)
    /\ jobs' = jobs + 1
    /\ job' = [job EXCEPT ![x] = j]
    /\ ticket' = [ticket EXCEPT ![x] = jobs + 1]
    /\ pick' = [pick EXCEPT ![x] = k]
    /\ Goto(x, "load")
    /\ UNCHANGED <<book, who, seen, hold, want, kill, aborts>>

Released(x) == [hold EXCEPT ![x] = {}]

\* Who is answered "reused" keeps the token it presented, for a property's sake.
Finish(x, answer) ==
    /\ Goto(x, answer)
    /\ job' = [job EXCEPT ![x] = NoJob] /\ ticket' = [ticket EXCEPT ![x] = 0]
    /\ pick' = [pick EXCEPT ![x] = IF answer = "reused" THEN @ ELSE 0]
    /\ who' = [who EXCEPT ![x] = NoRow] /\ seen' = [seen EXCEPT ![x] = NoRow]
    /\ hold' = Released(x)
    /\ want' = [want EXCEPT ![x] = {}] /\ kill' = [kill EXCEPT ![x] = {}]
Leave(x, answer) == Finish(x, answer) /\ UNCHANGED <<jobs, aborts>>
Fails(x, answer) == Leave(x, answer) /\ UNCHANGED book

Loading(x, op) == pc[x] = "load" /\ job[x].op = op

\* The access token carries the category, the permission and the store that
\* the endpoint asks for, or the answer is 403.
Deny(x) == pc[x] = "load" /\ job[x].op \in AdminOps \cup ClaimOps /\ Fails(x, "refused")

\* The handler goes on for account a, whose row it has read.
For(x, a, place) ==
    /\ Goto(x, place)
    /\ who' = [who EXCEPT ![x] = a]
    /\ seen' = [seen EXCEPT ![x] = account[a]]
    /\ UNCHANGED <<book, job, ticket, pick, hold, want, kill, jobs, aborts>>
To(x, place) ==
    /\ Goto(x, place)
    /\ UNCHANGED <<book, own, jobs, aborts>>

\* The row of its own is inserted, or a change of its account is committed.
Wrote(x, place) ==
    /\ Goto(x, place)
    /\ UNCHANGED <<token, session, codes, verdicts, job, ticket, pick, hold, want, kill,
                   jobs, aborts>>

Holders(channel, n) == {a \in Accounts : n # NoName /\ account[a].name[channel] = n}
Enabled(row) == row.on /\ row.status # "suspended"

----------------------------------------------------------------------------
(* Accounts.                                                                *)

\* users.phone and users.email are unique: a clash that the handler's own
\* check has missed is 500.
Clashes(name) == \E c \in Channels : Holders(c, name[c]) # {}
NewAccount(x) ==
    LET j == job[x]
        name == CASE j.op = "staff" -> [phone |-> Blank, email |-> j.email]
                  [] j.op = "register" -> [phone |-> j.name, email |-> j.email]
                  [] OTHER -> [c \in Channels |-> IF c = j.channel THEN j.name ELSE NoName]
    IN  [name |-> name, secret |-> IF j.op = "ask" THEN NoSecret ELSE j.secret,
         on |-> TRUE, status |-> "active",
         kind |-> IF j.op = "staff" THEN "platform" ELSE "business"]

InsertAccount(x) ==
    /\ pc[x] = "insert"
    /\ LET row == NewAccount(x) IN
       IF Clashes(row.name) THEN Fails(x, "error")
       ELSE /\ account' = [account EXCEPT ![ticket[x]] = row]
            /\ who' = [who EXCEPT ![x] = ticket[x]]
            /\ seen' = [seen EXCEPT ![x] = row]
            /\ Wrote(x, IF job[x].op = "ask" THEN "mark" ELSE "issue")

Register(x) ==
    /\ Loading(x, "register")
    /\ IF Clashes([phone |-> job[x].name, email |-> job[x].email])
       THEN Fails(x, "refused") ELSE To(x, "insert")

\* Only the email is checked: every platform account has the same phone.
RegisterPlatformStaff(x) ==
    /\ Loading(x, "staff")
    /\ IF Holders("email", job[x].email) # {} THEN Fails(x, "refused") ELSE To(x, "insert")

\* An administrator: what it writes does not depend on what it has read.
AdminRow(x) ==
    LET row == account[job[x].who] IN
    CASE job[x].op = "suspend" -> [row EXCEPT !.status = "suspended"]
      [] job[x].op = "activate" -> [row EXCEPT !.status = "active"]
      [] OTHER -> [row EXCEPT !.on = (job[x].op = "reactivate")]
SetAccount(x, place) ==
    /\ account' = [account EXCEPT ![job[x].who] = AdminRow(x)]
    /\ who' = [who EXCEPT ![x] = job[x].who]
    /\ seen' = seen
    /\ Wrote(x, place)
UpdateUser(x) ==
    \/ Loading(x, "suspend") /\ SetAccount(x, "sweep")
    \/ Loading(x, "activate") /\ SetAccount(x, "check")
DeactivateUser(x) == Loading(x, "deactivate") /\ SetAccount(x, "sweep")
ReactivateUser(x) ==
    /\ Loading(x, "reactivate")
    /\ IF account[job[x].who].on THEN Fails(x, "refused") ELSE SetAccount(x, "check")
AdminAnswer(x) ==
    pc[x] = "check" /\ job[x].op \in AdminOps /\ Fails(x, "ok")

----------------------------------------------------------------------------
(* One-time codes.                                                          *)

\* An unknown name is given an account; a platform account is sent nothing.
Provision(x, channel) ==
    /\ Loading(x, "ask") /\ job[x].channel = channel
    /\ LET found == Holders(channel, job[x].name) IN
       IF found = {} THEN To(x, "insert")
       ELSE \E a \in found :
            IF channel = "email" /\ account[a].kind = "platform"
            THEN Fails(x, "ok") ELSE For(x, a, "mark")
RequestOTP(x) == Provision(x, "phone")
RequestEmailOTP(x) == Provision(x, "email")

PasswordResetRequest(x) ==
    /\ Loading(x, "forgot")
    /\ IF Holders("phone", job[x].name) = {} THEN Fails(x, "ok")
       ELSE \E a \in Holders("phone", job[x].name) : For(x, a, "mark")

\* A change is asked for with the current password, by an account in use.
RequireCurrentPassword(j) ==
    account[j.who].secret # NoSecret /\ account[j.who].secret = j.secret
AskChange(x, channel) ==
    /\ Loading(x, "askchange")
    /\ LET j == job[x] IN
       /\ j.channel = channel
       /\ IF /\ Enabled(account[j.who]) /\ RequireCurrentPassword(j)
             /\ Holders(channel, j.name) = {}
          THEN For(x, j.who, "mark") ELSE Fails(x, "refused")
RequestPhoneChange(x) == AskChange(x, "phone")
RequestEmailChange(x) == AskChange(x, "email")

Outstanding(a, purpose) ==
    {c \in Codes : codes[c].account = a /\ codes[c].purpose = purpose /\ ~codes[c].used}

\* The outstanding codes are read, and marked as used with the new one's insert.
MarkCodes(x) ==
    /\ pc[x] = "mark"
    /\ Goto(x, "store")
    /\ want' = [want EXCEPT ![x] = Outstanding(who[x], Purpose(job[x]))]
    /\ UNCHANGED <<book, job, ticket, pick, who, seen, hold, kill, jobs, aborts>>

Free_Always(x, row) == TRUE  \* Mutant: the row is read without FOR UPDATE.
Free(x, row) == \A y \in Handlers \ {x} : row \notin hold[y]

StoreCode(x) ==
    /\ pc[x] = "store"
    /\ \A c \in want[x] : Free(x, <<"code", c>>)
    /\ codes' = Append([c \in Codes |-> [codes[c] EXCEPT !.used = @ \/ c \in want[x]]],
                  [account |-> who[x], purpose |-> Purpose(job[x]), used |-> FALSE, attempts |-> 0])
    /\ verdicts' = Append(verdicts, [right |-> 0, wrong |-> 0])
    /\ want' = [want EXCEPT ![x] = {}]
    /\ Goto(x, "send")
    /\ UNCHANGED <<account, token, session, job, ticket, pick, who, seen, hold, kill,
                   jobs, aborts>>

\* A login's delivery error is logged; a change's is not caught.
SendCode(x) ==
    /\ pc[x] = "send"
    /\ \/ Fails(x, "ok")
       \/ job[x].op = "askchange" /\ Fails(x, "error")

GenerateAndStoreOTP(x) == MarkCodes(x) \/ StoreCode(x)

\* Phone or email and code, or access token and code.
LoadVerify(x, channel) ==
    /\ Loading(x, "verify") /\ job[x].channel = channel
    /\ LET found == {a \in Holders(channel, job[x].name) :
                        channel = "email" => account[a].kind # "platform"} IN
       IF \A a \in found : ~Enabled(account[a]) THEN Fails(x, "refused")
       ELSE \E a \in found : For(x, a, "lock")
LoadReset(x) ==
    /\ Loading(x, "reset")
    /\ LET found == Holders("phone", job[x].name) IN
       IF \A a \in found : ~Enabled(account[a]) THEN Fails(x, "refused")
       ELSE \E a \in found : For(x, a, "lock")
LoadChange(x, channel) ==
    /\ Loading(x, "change") /\ job[x].channel = channel
    /\ IF Enabled(account[job[x].who]) THEN For(x, job[x].who, "lock")
       ELSE Fails(x, "refused")

\* The newest unused code, once no one else holds it.
LockCode(x) ==
    /\ pc[x] = "lock"
    /\ LET left == Outstanding(who[x], Purpose(job[x])) IN
       IF left = {} THEN Fails(x, "refused")
       ELSE LET c == CHOOSE c \in left : \A d \in left : d <= c IN
            /\ Free(x, <<"code", c>>)
            /\ hold' = [hold EXCEPT ![x] = {<<"code", c>>}]
            /\ Goto(x, "judge")
            /\ UNCHANGED <<book, job, ticket, pick, who, seen, want, kill, jobs, aborts>>

AfterCode(x) ==
    CASE job[x].op = "reset" -> "write"
      [] job[x].op = "change" -> "recheck"
      [] OTHER -> IF seen[x].status = "invited" THEN "welcome" ELSE "issue"

\* A wrong guess is counted and committed; a right one uses the code up.
Spent_Rolled(c, right) ==
    IF right THEN [codes EXCEPT ![c].used = TRUE] ELSE codes
    \* Mutant: a wrong guess raises, and its count is rolled back.
Spent(c, right) ==
    IF right THEN [codes EXCEPT ![c].used = TRUE] ELSE [codes EXCEPT ![c].attempts = @ + 1]
Exhausted(c) == codes[c].attempts >= MaxAttempts
JudgeCode(x) ==
    /\ pc[x] = "judge"
    /\ LET c == CHOOSE c \in Codes : <<"code", c>> \in hold[x]
           right == pick[x] = c
       IN  IF Exhausted(c) THEN Fails(x, "refused")
           ELSE /\ codes' = Spent(c, right)
                /\ verdicts' = IF right THEN [verdicts EXCEPT ![c].right = @ + 1]
                                        ELSE [verdicts EXCEPT ![c].wrong = @ + 1]
                /\ IF right
                   THEN /\ Goto(x, AfterCode(x))
                        /\ hold' = Released(x)
                        /\ UNCHANGED <<job, ticket, pick, who, seen, want, kill, jobs, aborts>>
                   ELSE Leave(x, "refused")
                /\ UNCHANGED <<account, token, session>>
VerifyOTP(x) == LockCode(x) \/ JudgeCode(x)

\* An invited account that has proved its phone is active: the status is
\* written over what an administrator has set since.
Welcome(x) ==
    /\ pc[x] = "welcome"
    /\ account' = [account EXCEPT ![who[x]].status = "active"]
    /\ seen' = [seen EXCEPT ![x].status = "active"]
    /\ who' = who
    /\ Wrote(x, "issue")
VerifyOTPEndpoint(x) == LoadVerify(x, "phone")
VerifyEmailOTPEndpoint(x) == LoadVerify(x, "email")

SetPassword(x) ==
    /\ pc[x] = "write" /\ job[x].op = "reset"
    /\ account' = [account EXCEPT ![who[x]].secret = job[x].secret]
    /\ UNCHANGED <<who, seen>>
    /\ Wrote(x, "sweep")
PasswordResetConfirm(x) == LoadReset(x) \/ SetPassword(x)

\* The new name is looked up again, and the change is committed or fails on
\* the unique column; the code is used up in any case.
Recheck(x) ==
    /\ pc[x] = "recheck"
    /\ IF Holders(job[x].channel, job[x].name) \ {who[x]} # {}
       THEN Fails(x, "refused") ELSE To(x, "write")
Rename(x) ==
    /\ pc[x] = "write" /\ job[x].op = "change"
    /\ IF Holders(job[x].channel, job[x].name) \ {who[x]} # {}
       THEN Fails(x, "error")
       ELSE /\ account' = [account EXCEPT ![who[x]].name[job[x].channel] = job[x].name]
            /\ UNCHANGED <<who, seen>>
            /\ Wrote(x, "sweep")
VerifyPhoneChange(x) == LoadChange(x, "phone")
VerifyEmailChange(x) == LoadChange(x, "email")
ConsumeIdentifierChange(x) == Recheck(x) \/ Rename(x)

----------------------------------------------------------------------------
(* Sessions and refresh tokens.                                             *)

LoginPassword(x) ==
    /\ Loading(x, "login")
    /\ LET j == job[x]
           found == {a \in Holders("phone", j.name) :
                       account[a].secret = j.secret /\ j.secret # NoSecret
                         /\ Enabled(account[a])}
       IN  IF found = {} THEN Fails(x, "refused") ELSE \E a \in found : For(x, a, "issue")

\* A platform login and a switch of context do not ask whether the account is
\* enabled.
LoginPlatformStaff(x) ==
    /\ Loading(x, "enter")
    /\ LET found == {a \in Holders("email", job[x].email) :
                       account[a].kind = "platform" /\ account[a].secret = job[x].secret}
       IN  IF found = {} THEN Fails(x, "refused") ELSE \E a \in found : For(x, a, "issue")
SwitchBusinessContext(x) == Loading(x, "switch") /\ For(x, job[x].who, "issue")
SwitchStoreContext(x) == Loading(x, "switchstore") /\ For(x, job[x].who, "issue")

IssueLoginSession(x) ==
    /\ pc[x] = "issue"
    /\ LET n == ticket[x] IN
       /\ token' = [token EXCEPT ![n] =
             [account |-> who[x], family |-> n, revoked |-> FALSE, next |-> NoRow]]
       /\ session' = [session EXCEPT ![n] =
             [account |-> who[x], token |-> n, active |-> TRUE]]
    /\ Leave(x, "ok")
    /\ UNCHANGED <<account, codes, verdicts>>

\* The presented token is locked.  One that was replaced is a replay; one that
\* was revoked is refused; a live one without a session is an error.
Family(t) == {u \in Tokens : token[u].family = token[t].family /\ ~token[u].revoked}
SessionsAt(t) == {s \in Logins : session[s].token = t}
LockToken(x) ==
    /\ Loading(x, "refresh")
    /\ LET t == pick[x]
           a == token[t].account
           mine == SessionsAt(t) \cap ActiveOf(a)
       IN  /\ Free(x, <<"token", t>>)
           /\ IF token[t].next = NoRow /\ token[t].revoked THEN Fails(x, "refused")
              ELSE IF token[t].next = NoRow /\ mine = {} THEN Fails(x, "error")
              ELSE LET replay == token[t].next # NoRow IN
                   /\ hold' = [hold EXCEPT ![x] = {<<"token", t>>}]
                   /\ who' = [who EXCEPT ![x] = a]
                   /\ want' = [want EXCEPT ![x] = IF replay THEN Family(t) ELSE {}]
                   /\ kill' = [kill EXCEPT ![x] = IF replay THEN {} ELSE mine]
                   /\ Goto(x, IF replay THEN "trace" ELSE "rotate")
                   /\ UNCHANGED <<book, job, ticket, pick, seen, jobs, aborts>>

\* The session moves to the new token; its is_active is written only if it has
\* changed, so a session that was ended since stays ended.
Moved_Whole(s, n) == [session[s] EXCEPT !.token = n, !.active = TRUE]
    \* Mutant: every column is written.
Moved(s, n) == [session[s] EXCEPT !.token = n]
Rotate(x) ==
    /\ pc[x] = "rotate"
    /\ LET t == pick[x] n == ticket[x] IN
       /\ token' = [token EXCEPT
             ![t] = [@ EXCEPT !.revoked = TRUE, !.next = n],
             ![n] = [account |-> who[x], family |-> token[t].family,
                     revoked |-> FALSE, next |-> NoRow]]
       /\ session' = [s \in Ids |-> IF s \in kill[x] THEN Moved(s, n) ELSE session[s]]
    /\ Goto(x, "check")
    /\ hold' = Released(x) /\ kill' = [kill EXCEPT ![x] = {}]
    /\ UNCHANGED <<account, codes, verdicts, job, ticket, pick, who, seen, want, jobs, aborts>>

\* The account of a rotated token is read: a disabled one loses its sessions.
CheckAccount(x) ==
    /\ pc[x] = "check" /\ job[x].op = "refresh"
    /\ IF Enabled(account[who[x]]) THEN Fails(x, "ok") ELSE To(x, "sweep")

\* A replay revokes the family's tokens, which the flush before the next read
\* locks, and ends all the sessions that the account has then.
Ended_ByToken(x) == SessionsAt(pick[x])
    \* Mutant: a replay ends the session of the token that was replayed.
Ended(x) == ActiveOf(who[x])
EndFamily(x) ==
    /\ pc[x] = "trace" /\ job[x].op = "refresh"
    /\ LET rows == {"token"} \X want[x] IN
       /\ \A row \in rows : Free(x, row)
       /\ hold' = [hold EXCEPT ![x] = @ \cup rows]
    /\ kill' = [kill EXCEPT ![x] = Ended(x)]
    /\ Goto(x, "kill")
    /\ UNCHANGED <<book, job, ticket, pick, who, seen, want, jobs, aborts>>

\* Tokens and sessions are ended in one commit; a token that is being rotated
\* is waited for.
KillSessions(x) ==
    [s \in Ids |-> IF s \in kill[x] THEN [session[s] EXCEPT !.active = FALSE] ELSE session[s]]
Kill(x) ==
    /\ pc[x] = "kill"
    /\ \A t \in want[x] : Free(x, <<"token", t>>)
    /\ token' = [t \in Ids |-> IF t \in want[x] THEN [token[t] EXCEPT !.revoked = TRUE] ELSE token[t]]
    /\ session' = KillSessions(x)
    /\ IF job[x].op = "reset"
       THEN /\ Goto(x, "issue")
            /\ want' = [want EXCEPT ![x] = {}] /\ kill' = [kill EXCEPT ![x] = {}]
            /\ UNCHANGED <<job, ticket, pick, who, seen, hold, jobs, aborts>>
       ELSE Leave(x, IF job[x].op # "refresh" THEN "ok"
                     ELSE IF hold[x] # {} THEN "reused" ELSE "refused")
    /\ UNCHANGED <<account, codes, verdicts>>

\* The handler is going to end these sessions and tokens.
Doom(x, place, tokens, sessions) ==
    /\ want' = [want EXCEPT ![x] = tokens] /\ kill' = [kill EXCEPT ![x] = sessions]
    /\ Goto(x, place)
    /\ UNCHANGED <<book, job, ticket, pick, who, seen, hold, jobs, aborts>>

\* The sessions are read, and the token that each has then.
RevokeAllSessionsForUser(x) ==
    /\ pc[x] = "sweep"
    /\ LET mine == ActiveOf(who[x]) IN
       Doom(x, "kill", {session[s].token : s \in mine}, mine)

RotateRefreshToken(x) == LockToken(x) \/ Rotate(x) \/ EndFamily(x)
Refresh(x) == RotateRefreshToken(x) \/ CheckAccount(x)

\* The token is read in a transaction of its own, the session in the next one.
Logout(x) ==
    /\ Loading(x, "logout")
    /\ IF token[pick[x]].account # job[x].who THEN Fails(x, "ok")
       ELSE Doom(x, "trace", {pick[x]}, {})
RevokeRefreshToken(x) ==
    /\ pc[x] = "trace" /\ job[x].op = "logout"
    /\ Doom(x, "kill", want[x], SessionsAt(pick[x]))

\* The session is as the endpoint has read it: a token that it is moved to
\* since is not revoked.
DeleteSession(x) ==
    /\ Loading(x, "revoke")
    /\ IF session[pick[x]].account # job[x].who THEN Fails(x, "refused")
       ELSE Doom(x, "kill", {session[pick[x]].token}, {pick[x]})

----------------------------------------------------------------------------
\* A lost connection or a restart between two commits of a request; one before
\* the first is a request that was not sent (so is the victim of a deadlock of a
\* rotation with the end of its session).
Abort(x) ==
    /\ pc[x] \in {"write", "kill", "issue"}
    /\ aborts < MaxAborts
    /\ aborts' = aborts + 1
    /\ Finish(x, "error")
    /\ UNCHANGED <<book, jobs>>

Step(x) ==
    \/ Deny(x)
    \/ Register(x) \/ RegisterPlatformStaff(x) \/ InsertAccount(x)
    \/ UpdateUser(x) \/ DeactivateUser(x) \/ ReactivateUser(x) \/ AdminAnswer(x)
    \/ RequestOTP(x) \/ RequestEmailOTP(x) \/ PasswordResetRequest(x)
    \/ RequestPhoneChange(x) \/ RequestEmailChange(x)
    \/ GenerateAndStoreOTP(x) \/ SendCode(x)
    \/ VerifyOTPEndpoint(x) \/ VerifyEmailOTPEndpoint(x) \/ VerifyOTP(x) \/ Welcome(x)
    \/ PasswordResetConfirm(x)
    \/ VerifyPhoneChange(x) \/ VerifyEmailChange(x) \/ ConsumeIdentifierChange(x)
    \/ LoginPassword(x) \/ LoginPlatformStaff(x)
    \/ SwitchBusinessContext(x) \/ SwitchStoreContext(x) \/ IssueLoginSession(x)
    \/ Refresh(x) \/ Kill(x) \/ RevokeAllSessionsForUser(x)
    \/ Logout(x) \/ RevokeRefreshToken(x) \/ DeleteSession(x)

\* The requests of the bound are answered.
Rest ==
    /\ jobs = MaxJobs /\ Idle = Handlers
    /\ UNCHANGED vars

Next ==
    \/ \E x \in Handlers :
          \/ \E j \in Jobs, k \in Ids : Arrive(x, j, k)
          \/ Step(x) \/ Abort(x)
    \/ Rest

Spec == Init /\ [][Next]_vars

----------------------------------------------------------------------------
(* Properties.                                                              *)

Live(t) == ~token[t].revoked /\ token[t].next = NoRow

\* Rotation does not fork: of the tokens that descend from one login at most
\* one can still be exchanged, however many refreshes of them overlap.
OneLiveToken ==
    \A t, u \in Tokens :
        Live(t) /\ Live(u) /\ token[t].family = token[u].family => t = u

\* A session that is listed as active has a token of its own login that can be
\* exchanged: the two tables are ended together.
ActiveIsUsable ==
    \A s \in Logins : session[s].active =>
        /\ Live(session[s].token)
        /\ token[session[s].token].family = s

\* A session that was ended stays ended, whatever rotation was under way.
EndedStaysEnded ==
    [][\A s \in Logins : ~session[s].active => ~session'[s].active]_vars

\* Who is told that the token was used before finds the login it came from
\* ended, though the token was exchanged many times since.
ReuseEndsTheLogin ==
    \A x \in Handlers : pc[x] = "reused" => ~session[token[pick[x]].family].active

\* A code opens one thing at most, though it is presented twice at a time, and
\* no wrong guess is free: its attempts are the wrong answers it gave.
CodesAreCounted ==
    \A c \in Codes :
        verdicts[c].right <= 1 /\ codes[c].attempts = verdicts[c].wrong

\* The tables are what their readers take for granted: the types, one token of a
\* login that can be exchanged, and for a listed session that one.
TablesConsistent == TypeOK /\ OneLiveToken /\ ActiveIsUsable
=============================================================================
