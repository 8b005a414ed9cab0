--------------------------- MODULE SignIn_proofs ---------------------------
(***************************************************************************)
(* Proofs about SignIn for any number of handlers, requests, accounts and     *)
(* codes.  The argument: the tables alone name every token's login, and a       *)
(* step of one request changes them only in ways (Grows) that leave what each   *)
(* other request has read or locked as it needs it; so each action is looked   *)
(* at once for the tables and once for the request that takes it.             *)
(***************************************************************************)
EXTENDS SignIn, FiniteSetTheorems, SequenceTheorems, WellFoundedInduction,
        TLAPS

Busy(x) == pc[x] \notin {"idle"} \cup Answers

\* A request's number is still free for a new session and a new token.
Unissued(x) == ~(job[x].op = "refresh" /\ pc[x] \in {"check", "sweep", "kill"})

\* The tables alone: a token is of its login's account, a login's token is of its
\* family, and no row is named by a request that has not come yet.
LoginInv ==
    /\ \A t \in Tokens :
          /\ token[t].family \in Logins
          /\ session[token[t].family].account = token[t].account
    /\ \A s \in Logins : session[s].token \in Tokens /\ token[session[s].token].family = s
    /\ \A n \in Ids : n > jobs => token[n] = NoRow /\ session[n] = NoRow

\* A code that was right is used up.
CountInv ==
    \A c \in Codes :
        /\ verdicts[c].right <= IF codes[c].used THEN 1 ELSE 0
        /\ codes[c].attempts = verdicts[c].wrong

TablesInv == OneLiveToken /\ ActiveIsUsable /\ LoginInv /\ CountInv

\* Requests that have not stored their code: there are no more codes than the others.
Asking(x) == pc[x] \in {"load", "insert", "mark", "store"} /\ job[x].op \in AskOps
Askers == {n \in 1..jobs : \E x \in Handlers : Asking(x) /\ ticket[x] = n}
RoomInv == Len(codes) + Cardinality(Askers) <= jobs

\* Numbers and locks are of one request each.
ApartInv ==
    \A x, y \in Handlers : x # y =>
        /\ Busy(x) /\ Busy(y) => ticket[x] # ticket[y]
        /\ hold[x] \cap hold[y] = {}

\* Which requests are found at which place.
Route(x) ==
    LET op == job[x].op IN
    /\ pc[x] = "insert" => op \in {"register", "staff", "ask"}
    /\ pc[x] \in {"mark", "store", "send"} => op \in AskOps
    /\ pc[x] \in {"lock", "judge"} => op \in CodeOps
    /\ pc[x] = "welcome" => op = "verify"
    /\ pc[x] = "recheck" => op = "change"
    /\ pc[x] = "write" => op \in {"reset", "change"}
    /\ pc[x] = "rotate" => op = "refresh"
    /\ pc[x] = "trace" => op \in {"refresh", "logout"}
    /\ pc[x] = "check" => op \in AdminOps \cup {"refresh"}
    /\ pc[x] = "issue" => op # "refresh"

\* The account a request works for is there, and was when its row was read.
AccountHeld(x) ==
    /\ pc[x] = "load" /\ job[x].op \in AdminOps \cup ClaimOps => job[x].who \in Accounts
    /\ pc[x] \in {"mark", "store", "lock", "judge", "welcome", "recheck", "write", "issue"}
         => who[x] \in Accounts
    /\ pc[x] \in {"check", "sweep"} => who[x] \in Ids
    /\ pc[x] \in {"sweep", "kill"} /\ job[x].op = "reset" => who[x] \in Accounts
    /\ pc[x] \in {"lock", "judge", "welcome"} => seen[x] \in AccountRow

\* What it presents is there.
Presented(x) ==
    /\ pc[x] = "load" /\ job[x].op \in {"refresh", "logout"} => pick[x] \in Tokens
    /\ pc[x] = "load" /\ job[x].op = "revoke" => pick[x] \in Logins
    /\ pc[x] \in {"rotate", "trace"} => pick[x] \in Tokens

\* A code that is judged is locked and unused; all other locks are a refresh's.
CodeHeld(x) ==
    /\ hold[x] # {} =>
          \/ pc[x] \in {"judge", "rotate"}
          \/ pc[x] \in {"trace", "kill"} /\ job[x].op = "refresh"
    /\ IF pc[x] = "judge" THEN \E c \in Codes : hold[x] = {<<"code", c>>} /\ ~codes[c].used
       ELSE hold[x] \subseteq {"token"} \X Ids

\* A token that is rotated is locked, live and the token of its login, which is
\* the session that the request is going to move.
TokenHeld(x) ==
    pc[x] = "rotate" =>
        LET t == pick[x] IN
        /\ hold[x] = {<<"token", t>>} /\ Live(t)
        /\ who[x] = token[t].account
        /\ kill[x] = {token[t].family} /\ session[token[t].family].token = t

\* Who ends tokens ends the logins that have them.
Doomed(x) ==
    /\ pc[x] \in {"trace", "kill"} => want[x] \subseteq Tokens
    /\ pc[x] = "kill" =>
          /\ kill[x] \subseteq Logins
          /\ \A s \in Logins : session[s].active /\ session[s].token \in want[x] => s \in kill[x]
    /\ pc[x] = "trace" /\ job[x].op = "logout" => want[x] = {pick[x]}
    /\ pc[x] = "trace" /\ job[x].op = "refresh" =>
          /\ who[x] = token[pick[x]].account
          /\ \A t \in want[x] : token[t].family = token[pick[x]].family

\* Who is going to answer "reused" ends the login of the token it was given.
Replayed(x) ==
    /\ pc[x] = "kill" /\ job[x].op = "refresh" /\ hold[x] # {} =>
          /\ pick[x] \in Tokens
          /\ LET s == token[pick[x]].family IN session[s].active => s \in kill[x]
    /\ pc[x] = "reused" => pick[x] \in Tokens /\ ~session[token[pick[x]].family].active

\* What a request in progress relies on.
Own(x) ==
    /\ Busy(x) =>
          /\ job[x] \in Jobs /\ ticket[x] \in 1..jobs
          /\ Unissued(x) => token[ticket[x]] = NoRow /\ session[ticket[x]] = NoRow
          /\ Route(x) /\ AccountHeld(x) /\ Presented(x) /\ TokenHeld(x) /\ Doomed(x)
    /\ ~Busy(x) => ticket[x] = 0
    /\ CodeHeld(x) /\ Replayed(x)

Typed ==
    /\ TypeOK
    /\ codes \in Seq(CodeRow) /\ verdicts \in Seq([right : Nat, wrong : Nat])

SignInInv ==
    /\ Typed /\ TablesInv /\ RoomInv /\ ApartInv
    /\ \A x \in Handlers : Own(x)

----------------------------------------------------------------------------
(* What a step of one request leaves of another's.                          *)

Alone(x) ==
    \A y \in Handlers \ {x} :
        /\ pc'[y] = pc[y] /\ job'[y] = job[y] /\ ticket'[y] = ticket[y]
        /\ pick'[y] = pick[y] /\ who'[y] = who[y] /\ seen'[y] = seen[y]
        /\ hold'[y] = hold[y] /\ want'[y] = want[y] /\ kill'[y] = kill[y]

\* Locks of the others on a row.
Locked(x, row) == \E y \in Handlers \ {x} : row \in hold[y]

\* Rows are never taken away; a login that is ended stays ended, and moves to new
\* tokens only; what another request has locked is not written.
Grows(x) ==
    /\ Accounts \subseteq Accounts'
    /\ \A t \in Tokens :
          /\ t \in Tokens'
          /\ token'[t].family = token[t].family /\ token'[t].account = token[t].account
          /\ Locked(x, <<"token", t>>) /\ Live(t) =>
                /\ token'[t] = token[t]
                /\ session[token[t].family].token = t => session'[token[t].family].token = t
    /\ \A s \in Logins :
          /\ s \in Logins' /\ session'[s].account = session[s].account
          /\ session'[s].active => session[s].active
          /\ session'[s].token = session[s].token \/ session'[s].token \notin Tokens
    /\ \A s \in Logins' \ Logins : session'[s].token \notin Tokens
    /\ \A n \in Ids : n # ticket[x] =>
          /\ token[n] = NoRow => token'[n] = NoRow
          /\ session[n] = NoRow => session'[n] = NoRow
    /\ \A c \in Codes :
          /\ c \in Codes'
          /\ Locked(x, <<"code", c>>) => codes'[c].used = codes[c].used

\* The request goes on as the one it is, and takes free locks only.
Moves(x) ==
    /\ Alone(x)
    /\ jobs' = jobs
    /\ Busy(x)' => Busy(x) /\ ticket'[x] = ticket[x] /\ job'[x] = job[x]
    /\ \A row \in hold'[x] : row \in hold[x] \/ Free(x, row)

\* What a request of a job can carry.
LEMMA JobFacts ==
    ASSUME NEW j \in Jobs
    PROVE  /\ j \in JobType
           /\ j.op \in Operations /\ j.channel \in Channels
           /\ j.name \in Names /\ j.email \in Names \cup {NoName}
           /\ j.secret \in Secrets \cup {NoSecret} /\ j.who \in Ids
BY SignInAssumption DEF JobType

\* Rows are told from their absence.
LEMMA Rows ==
    ASSUME Typed
    PROVE  /\ \A a \in Accounts : a \in Ids /\ account[a] \in AccountRow
           /\ \A t \in Tokens : t \in Ids /\ token[t] \in TokenRow
           /\ \A s \in Logins : s \in Ids /\ session[s] \in SessionRow
           /\ \A c \in Codes : c \in Ids /\ c \in Nat \ {0} /\ codes[c] \in CodeRow
                               /\ verdicts[c] \in [right : Nat, wrong : Nat]
           /\ Len(codes) \in Nat /\ jobs \in Nat /\ MaxJobs \in Nat /\ MaxAttempts \in Nat
BY SignInAssumption DEF Typed, TypeOK, Accounts, Tokens, Logins, Codes, Ids

\* A request is left as it was by another's step.
LEMMA OthersKeep ==
    ASSUME SignInInv, Typed', NEW x \in Handlers, NEW y \in Handlers, y # x,
           Alone(x), Grows(x), jobs' \in Nat, jobs' >= jobs,
           Busy(y) => ticket[x] # ticket[y]
    PROVE  Own(y)'
<1>1. /\ pc'[y] = pc[y] /\ job'[y] = job[y] /\ ticket'[y] = ticket[y]
      /\ pick'[y] = pick[y] /\ who'[y] = who[y] /\ seen'[y] = seen[y]
      /\ hold'[y] = hold[y] /\ want'[y] = want[y] /\ kill'[y] = kill[y]
    BY DEF Alone
<1>2. Own(y) /\ Typed /\ LoginInv
    BY DEF SignInInv, TablesInv
<1>3. (Busy(y)' <=> Busy(y)) /\ (Unissued(y)' <=> Unissued(y))
    BY <1>1 DEF Busy, Unissued, Answers
<1>4. \A row : row \in hold[y] => Locked(x, row)
    BY DEF Locked
<1>5. Route(y)' <=> Route(y)
    BY <1>1 DEF Route
<1>6. AccountHeld(y) => AccountHeld(y)'
    <2>1. Accounts \subseteq Accounts'
        BY DEF Grows
    <2>2. QED
        BY <1>1, <2>1 DEF AccountHeld
<1>7. Presented(y) => Presented(y)'
    <2>1. Tokens \subseteq Tokens' /\ Logins \subseteq Logins'
        BY DEF Grows
    <2>2. QED
        BY <1>1, <2>1 DEF Presented
<1>8. CodeHeld(y)'
    <2> USE DEF CodeHeld
    <2>1. CASE pc[y] = "judge"
        <3>1. PICK c \in Codes : hold[y] = {<<"code", c>>} /\ ~codes[c].used
            BY <1>2, <2>1 DEF Own
        <3>2. c \in Codes' /\ codes'[c].used = codes[c].used
            BY <1>4, <3>1 DEF Grows
        <3>3. QED
            BY <1>1, <2>1, <3>1, <3>2
    <2>2. CASE pc[y] # "judge"
        BY <1>1, <1>2, <2>2 DEF Own
    <2>3. QED
        BY <2>1, <2>2
<1>9. TokenHeld(y) /\ Presented(y) => TokenHeld(y)'
    <2> SUFFICES ASSUME TokenHeld(y), Presented(y)
                 PROVE  TokenHeld(y)'
        OBVIOUS
    <2>1. CASE pc[y] = "rotate"
        <3> DEFINE t == pick[y]
        <3>1. t \in Tokens /\ Live(t) /\ <<"token", t>> \in hold[y]
              /\ session[token[t].family].token = t
            BY <2>1 DEF TokenHeld, Presented
        <3>2. token'[t] = token[t] /\ session'[token[t].family].token = t
            BY <1>4, <3>1 DEF Grows
        <3>3. QED
            BY <1>1, <2>1, <3>1, <3>2 DEF TokenHeld, Live
    <2>2. CASE pc[y] # "rotate"
        BY <1>1, <2>2 DEF TokenHeld
    <2>3. QED
        BY <2>1, <2>2
<1>10. Doomed(y) /\ Presented(y) => Doomed(y)'
    <2> SUFFICES ASSUME Doomed(y), Presented(y)
                 PROVE  Doomed(y)'
        OBVIOUS
    <2>1. Tokens \subseteq Tokens' /\ Logins \subseteq Logins'
        BY DEF Grows
    <2>2. CASE pc[y] = "kill"
        <3>1. want[y] \subseteq Tokens /\ kill[y] \subseteq Logins
            BY <2>2 DEF Doomed
        <3>2. ASSUME NEW s \in Logins', session'[s].active, session'[s].token \in want[y]
              PROVE  s \in kill[y]
            <4>1. session'[s].token \in Tokens
                BY <3>1, <3>2
            <4>2. s \in Logins
                BY <3>2, <4>1 DEF Grows
            <4>3. session[s].active /\ session'[s].token = session[s].token
                BY <3>2, <4>1, <4>2 DEF Grows
            <4>4. QED
                BY <2>2, <3>2, <4>2, <4>3 DEF Doomed
        <3>3. QED
            BY <1>1, <2>1, <2>2, <3>1, <3>2 DEF Doomed
    <2>3. CASE pc[y] = "trace"
        <3>1. want[y] \subseteq Tokens /\ pick[y] \in Tokens
            BY <2>3 DEF Doomed, Presented
        <3>2. \A t \in Tokens : token'[t].family = token[t].family
                                /\ token'[t].account = token[t].account
            BY DEF Grows
        <3>3. QED
            BY <1>1, <2>1, <2>3, <3>1, <3>2 DEF Doomed
    <2>4. CASE pc[y] \notin {"kill", "trace"}
        BY <1>1, <2>4 DEF Doomed
    <2>5. QED
        BY <2>2, <2>3, <2>4
<1>11. Replayed(y)'
    <2> DEFINE t == pick[y]
    <2>1. ASSUME t \in Tokens
          PROVE  /\ t \in Tokens' /\ token'[t].family = token[t].family
                 /\ session'[token[t].family].active => session[token[t].family].active
        BY <1>2, <2>1 DEF Grows, LoginInv
    <2>2. Replayed(y)
        BY <1>2 DEF Own
    <2>3. QED
        BY <1>1, <2>1, <2>2 DEF Replayed
<1>12. ASSUME Busy(y)
       PROVE  /\ job'[y] \in Jobs /\ ticket'[y] \in 1..jobs'
              /\ Unissued(y) => token'[ticket[y]] = NoRow /\ session'[ticket[y]] = NoRow
    <2>1. job[y] \in Jobs /\ ticket[y] \in 1..jobs /\ ticket[y] \in Ids /\ jobs \in Nat
          /\ (Unissued(y) => token[ticket[y]] = NoRow /\ session[ticket[y]] = NoRow)
        BY <1>2, <1>12, Rows DEF Own, Ids, Typed, TypeOK
    <2>2. Unissued(y) => token'[ticket[y]] = NoRow /\ session'[ticket[y]] = NoRow
        BY <1>12, <2>1 DEF Grows
    <2>3. QED
        BY <1>1, <2>1, <2>2
<1>13. QED
    <2>1. ~Busy(y) => ticket'[y] = 0
        BY <1>1, <1>2 DEF Own
    <2>2. QED
        BY <1>1, <1>2, <1>3, <1>5, <1>6, <1>7, <1>8, <1>9, <1>10, <1>11, <1>12, <2>1 DEF Own

\* Codes are counted against the requests that are not going to store one.
LEMMA RoomKeeps ==
    ASSUME SignInInv, NEW x \in Handlers, Moves(x), Asking(x)' => Asking(x) /\ ticket'[x] = ticket[x],
           Len(codes') = Len(codes)
    PROVE  RoomInv'
<1>1. Askers' \subseteq Askers
    BY DEF Askers, Moves, Alone, Asking
<1>2. IsFiniteSet(1..jobs) /\ Askers \subseteq 1..jobs /\ jobs \in Nat
    BY FS_Interval, Rows DEF Askers, SignInInv
<1>3. IsFiniteSet(Askers)
    BY <1>2, FS_Subset
<1>4. Cardinality(Askers') <= Cardinality(Askers)
    BY <1>1, <1>3, FS_Subset
<1>5. Cardinality(Askers') \in Nat /\ Cardinality(Askers) \in Nat
    BY <1>1, <1>3, FS_Subset, FS_CardinalityType
<1>6. QED
    BY <1>2, <1>4, <1>5, Rows DEF RoomInv, SignInInv, Moves

\* Numbers and locks stay apart when one request moves.
LEMMA ApartKeeps ==
    ASSUME SignInInv, NEW x \in Handlers, Moves(x)
    PROVE  ApartInv'
<1>1. ApartInv
    BY DEF SignInInv
<1>2. \A y \in Handlers \ {x} : hold'[x] \cap hold[y] = {}
    BY <1>1 DEF ApartInv, Moves, Free
<1>3. QED
    BY <1>1, <1>2 DEF ApartInv, Moves, Alone, Busy, Answers

\* A step is looked at for the tables and for the request that takes it.
LEMMA StepKeeps ==
    ASSUME SignInInv, NEW x \in Handlers, Moves(x), Grows(x), Busy(x),
           Typed', TablesInv', RoomInv', Own(x)'
    PROVE  SignInInv'
<1>1. ASSUME NEW y \in Handlers, y # x
      PROVE  Own(y)'
    BY <1>1, OthersKeep, Rows DEF Moves, SignInInv, ApartInv
<1>2. QED
    BY <1>1, ApartKeeps DEF SignInInv

\* A step that leaves the tables alone.
LEMMA QuietKeeps ==
    ASSUME SignInInv, NEW x \in Handlers, Moves(x), Busy(x), UNCHANGED book,
           Asking(x)' => Asking(x), Typed', Own(x)'
    PROVE  SignInInv'
<1>1. UNCHANGED <<account, token, session, codes, verdicts, jobs>>
    BY DEF book, tables, Moves
<1>2. Grows(x)
    BY <1>1 DEF Grows, Accounts, Tokens, Logins, Codes
<1>3. TablesInv'
    BY <1>1 DEF SignInInv, TablesInv, OneLiveToken, ActiveIsUsable, LoginInv, CountInv, Live, Accounts,
        Tokens, Logins, Codes
<1>4. RoomInv'
    BY <1>1, RoomKeeps DEF Asking, Moves, Busy, Answers
<1>5. QED
    BY <1>2, <1>3, <1>4, StepKeeps

----------------------------------------------------------------------------
(* Steps that the tables do not see.                                        *)

TypedOwn ==
    /\ pc \in [Handlers -> Places]
    /\ job \in [Handlers -> Jobs \cup {NoJob}]
    /\ ticket \in [Handlers -> Ids] /\ pick \in [Handlers -> Ids]
    /\ who \in [Handlers -> Ids \cup {NoRow}]
    /\ seen \in [Handlers -> AccountRow \cup {NoRow}]
    /\ hold \in [Handlers -> SUBSET ({"token", "code"} \X Ids)]
    /\ want \in [Handlers -> SUBSET Ids] /\ kill \in [Handlers -> SUBSET Ids]
    /\ jobs \in Ids /\ aborts \in 0..MaxAborts

TypedBook ==
    /\ account \in [Ids -> AccountRow \cup {NoRow}]
    /\ token \in [Ids -> TokenRow \cup {NoRow}]
    /\ session \in [Ids -> SessionRow \cup {NoRow}]
    /\ codes \in Seq(CodeRow) /\ verdicts \in Seq([right : Nat, wrong : Nat])
    /\ Len(codes) <= MaxJobs /\ Len(verdicts) = Len(codes)

\* The types, split into the tables and the handlers.
LEMMA Types == Typed <=> TypedOwn /\ TypedBook
<1>1. ASSUME TypedBook
      PROVE  \A c \in Codes : codes[c] \in CodeRow /\ verdicts[c] \in [right : Nat, wrong : Nat]
    BY <1>1, ElementOfSeq DEF TypedBook, Codes
<1>2. QED
    BY <1>1 DEF Typed, TypeOK, TypedOwn, TypedBook

LEMMA TypesLater == Typed' <=> TypedOwn' /\ TypedBook'
BY Types, PTL

\* A step that leaves the tables alone is typed when its handler is.
LEMMA TypesKept ==
    ASSUME Typed, UNCHANGED book, TypedOwn'
    PROVE  Typed'
<1>1. TypedBook
    BY Types
<1>2. TypedBook'
    BY <1>1 DEF TypedBook, book, tables
<1>3. QED
    BY <1>2, TypesLater

\* A request that is answered relies on nothing; who is told "reused" needs its
\* token's login to be over.
LEMMA Finished ==
    ASSUME SignInInv, NEW x \in Handlers, NEW a \in Answers, Finish(x, a), Busy(x),
           jobs' = jobs, aborts' \in 0..MaxAborts,
           a = "reused" => pick[x] \in Tokens' /\ ~session'[token'[pick[x]].family].active
    PROVE  Moves(x) /\ ~Asking(x)' /\ Own(x)' /\ TypedOwn'
<1>1. TypedOwn
    BY Types DEF SignInInv
<1>2. /\ pc' = [pc EXCEPT ![x] = a]
      /\ job' = [job EXCEPT ![x] = NoJob] /\ ticket' = [ticket EXCEPT ![x] = 0]
      /\ pick' = [pick EXCEPT ![x] = IF a = "reused" THEN @ ELSE 0]
      /\ who' = [who EXCEPT ![x] = NoRow] /\ seen' = [seen EXCEPT ![x] = NoRow]
      /\ hold' = [hold EXCEPT ![x] = {}]
      /\ want' = [want EXCEPT ![x] = {}] /\ kill' = [kill EXCEPT ![x] = {}]
    BY DEF Finish, Goto, Released
<1>3. pc'[x] = a /\ hold'[x] = {} /\ ticket'[x] = 0 /\ (a = "reused" => pick'[x] = pick[x])
    BY <1>1, <1>2 DEF TypedOwn
<1>4. ~Busy(x)' /\ ~Asking(x)'
    BY <1>3 DEF Busy, Answers, Asking
<1>5. Moves(x)
    BY <1>1, <1>2, <1>3, <1>4 DEF Moves, Alone, TypedOwn
<1>6. Own(x)'
    BY <1>3, <1>4 DEF Own, CodeHeld, Replayed, Answers
<1>7. TypedOwn'
    BY <1>1, <1>2, SignInAssumption DEF TypedOwn, Places, Ids
<1>8. QED
    BY <1>4, <1>5, <1>6, <1>7

\* A request that is answered without a change.
LEMMA FailsKeeps ==
    ASSUME SignInInv, NEW x \in Handlers, NEW a \in {"ok", "refused", "error"},
           Fails(x, a), Busy(x)
    PROVE  SignInInv'
<1>1. Finish(x, a) /\ jobs' = jobs /\ aborts' = aborts /\ UNCHANGED book
    BY DEF Fails, Leave
<1>2. Moves(x) /\ ~Asking(x)' /\ Own(x)' /\ TypedOwn'
    BY <1>1, Finished DEF Answers, SignInInv, Typed, TypeOK
<1>3. Typed'
    BY <1>1, <1>2, TypesKept DEF SignInInv
<1>4. QED
    BY <1>1, <1>2, <1>3, QuietKeeps

\* A handler goes on to a place where it needs an account.
LEMMA ForKeeps ==
    ASSUME SignInInv, NEW x \in Handlers, pc[x] = "load", NEW a \in Accounts,
           NEW place \in {"mark", "lock", "issue"}, For(x, a, place),
           place = "mark" => job[x].op \in AskOps,
           place = "lock" => job[x].op \in CodeOps,
           place = "issue" => job[x].op # "refresh"
    PROVE  SignInInv'
<1>1. TypedOwn /\ Typed /\ Own(x)
    BY Types DEF SignInInv
<1>2. /\ pc' = [pc EXCEPT ![x] = place] /\ who' = [who EXCEPT ![x] = a]
      /\ seen' = [seen EXCEPT ![x] = account[a]]
      /\ UNCHANGED <<account, token, session, codes, verdicts, job, ticket, pick, hold, want, kill,
                     jobs, aborts>>
    BY DEF For, Goto, book, tables
<1>3. pc'[x] = place /\ who'[x] = a /\ seen'[x] = account[a]
    BY <1>1, <1>2 DEF TypedOwn
<1>4. a \in Ids /\ account[a] \in AccountRow
    BY <1>1, Rows
<1>5. TypedOwn' /\ UNCHANGED book
    BY <1>1, <1>2, <1>4 DEF TypedOwn, Places, book, tables
<1>6. Moves(x) /\ Busy(x) /\ (Asking(x)' => Asking(x))
    BY <1>1, <1>2 DEF Moves, Alone, TypedOwn, Busy, Asking, Answers
<1>7. Own(x)'
    <2>1. /\ Busy(x)' /\ Unissued(x)' /\ Unissued(x)
          /\ Route(x)' /\ Presented(x)' /\ TokenHeld(x)' /\ Doomed(x)' /\ CodeHeld(x)' /\ Replayed(x)'
        BY <1>1, <1>2, <1>3
        DEF Own, Busy, Unissued, Route, Presented, TokenHeld, Doomed, CodeHeld, Replayed, Answers
    <2>2. AccountHeld(x)'
        BY <1>2, <1>3, <1>4 DEF AccountHeld, Accounts
    <2>3. QED
        BY <1>1, <1>2, <1>6, <2>1, <2>2 DEF Own
<1>8. Typed'
    BY <1>1, <1>5, TypesKept
<1>9. QED
    BY <1>5, <1>6, <1>7, <1>8, QuietKeeps

\* A handler goes on to a place where it needs no more than it has.
LEMMA ToKeeps ==
    ASSUME SignInInv, NEW x \in Handlers, NEW place, To(x, place),
           \/ pc[x] = "load" /\ place = "insert" /\ job[x].op \in {"register", "staff", "ask"}
           \/ pc[x] = "recheck" /\ place = "write"
           \/ pc[x] = "check" /\ place = "sweep" /\ job[x].op = "refresh"
    PROVE  SignInInv'
<1>1. TypedOwn /\ Typed /\ Own(x)
    BY Types DEF SignInInv
<1>2. /\ pc' = [pc EXCEPT ![x] = place] /\ UNCHANGED book
      /\ UNCHANGED <<account, token, session, codes, verdicts, job, ticket, pick, who, seen, hold,
                     want, kill, jobs, aborts>>
    BY DEF To, Goto, book, tables, own
<1>3. pc'[x] = place
    BY <1>1, <1>2 DEF TypedOwn
<1>4. TypedOwn'
    BY <1>1, <1>2 DEF TypedOwn, Places
<1>5. Moves(x) /\ Busy(x) /\ (Asking(x)' => Asking(x))
    BY <1>1, <1>2 DEF Moves, Alone, TypedOwn, Busy, Asking, Answers
<1>6. Own(x)'
    <2>1. /\ Busy(x)' /\ (Unissued(x)' => Unissued(x))
          /\ Route(x)' /\ Presented(x)' /\ TokenHeld(x)' /\ Doomed(x)' /\ CodeHeld(x)' /\ Replayed(x)'
        BY <1>1, <1>2, <1>3
        DEF Own, Busy, Unissued, Route, Presented, TokenHeld, Doomed, CodeHeld, Replayed, Answers
    <2>2. AccountHeld(x)'
        BY <1>1, <1>2, <1>3, <1>5 DEF Own, AccountHeld, Accounts, Route
    <2>3. QED
        BY <1>1, <1>2, <1>5, <2>1, <2>2 DEF Own
<1>7. Typed'
    BY <1>1, <1>2, <1>4, TypesKept
<1>8. QED
    BY <1>2, <1>5, <1>6, <1>7, QuietKeeps

\* A handler has chosen the tokens and the sessions that it is going to end.
LEMMA DoomKeeps ==
    ASSUME SignInInv, NEW x \in Handlers, NEW place \in {"trace", "kill"},
           NEW T \in SUBSET Tokens, NEW S \in SUBSET Logins, Doom(x, place, T, S),
           pc[x] \in {"load", "sweep", "trace"}, pc[x] = "trace" => job[x].op # "refresh",
           place = "trace" => job[x].op = "logout" /\ T = {pick[x]},
           place = "kill" =>
              /\ pc[x] = "load" => job[x].op \notin {"reset", "refresh"}
              /\ job[x].op = "reset" => pc[x] = "sweep"
              /\ \A s \in Logins : session[s].active /\ session[s].token \in T => s \in S
    PROVE  SignInInv'
<1>1. TypedOwn /\ Typed /\ Own(x)
    BY Types DEF SignInInv
<1>2. /\ pc' = [pc EXCEPT ![x] = place] /\ UNCHANGED book
      /\ want' = [want EXCEPT ![x] = T] /\ kill' = [kill EXCEPT ![x] = S]
      /\ UNCHANGED <<account, token, session, codes, verdicts, job, ticket, pick, who, seen, hold,
                     jobs, aborts>>
    BY DEF Doom, Goto, book, tables
<1>3. pc'[x] = place /\ want'[x] = T /\ kill'[x] = S
    BY <1>1, <1>2 DEF TypedOwn
<1>4. TypedOwn'
    BY <1>1, <1>2 DEF TypedOwn, Places, Tokens, Logins
<1>5. Moves(x) /\ Busy(x) /\ (Asking(x)' => Asking(x))
    BY <1>1, <1>2, <1>3 DEF Moves, Alone, TypedOwn, Busy, Asking, Answers
<1>6. Own(x)'
    <2>1. /\ Busy(x)' /\ (Unissued(x)' => Unissued(x))
          /\ Route(x)' /\ TokenHeld(x)' /\ CodeHeld(x)' /\ Replayed(x)'
        BY <1>1, <1>2, <1>3, <1>5
        DEF Own, Busy, Unissued, Route, TokenHeld, CodeHeld, Replayed, Answers
    <2>2. AccountHeld(x)' /\ Presented(x)'
        BY <1>1, <1>2, <1>3, <1>5 DEF Own, AccountHeld, Presented, Accounts, Tokens, Route
    <2>3. Doomed(x)'
        BY <1>2, <1>3 DEF Doomed, Tokens, Logins
    <2>4. QED
        BY <1>1, <1>2, <1>5, <2>1, <2>2, <2>3 DEF Own
<1>7. Typed'
    BY <1>1, <1>2, <1>4, TypesKept
<1>8. QED
    BY <1>2, <1>5, <1>6, <1>7, QuietKeeps

----------------------------------------------------------------------------
(* Steps that write an account.                                             *)

\* One row is written, and the request goes on to a place where it holds nothing.
LEMMA WroteKeeps ==
    ASSUME SignInInv, NEW x \in Handlers, NEW a \in Ids, NEW row \in AccountRow,
           NEW place \in {"mark", "issue", "sweep", "check"}, Wrote(x, place),
           pc[x] \in {"load", "insert", "welcome", "write"},
           account' = [account EXCEPT ![a] = row],
           who' = [who EXCEPT ![x] = a],
           seen' \in [Handlers -> AccountRow \cup {NoRow}],
           \A y \in Handlers \ {x} : seen'[y] = seen[y],
           place = "mark" => pc[x] = "insert" /\ job[x].op \in AskOps,
           place = "check" => job[x].op \in AdminOps,
           place = "issue" => job[x].op # "refresh",
           place = "sweep" => job[x].op # "refresh"
    PROVE  SignInInv'
<1>1. TypedOwn /\ TypedBook /\ Typed /\ Own(x)
    BY Types DEF SignInInv
<1>2. /\ pc' = [pc EXCEPT ![x] = place]
      /\ UNCHANGED <<token, session, codes, verdicts, job, ticket, pick, hold, want, kill,
                     jobs, aborts>>
    BY DEF Wrote, Goto
<1>3. pc'[x] = place /\ who'[x] = a /\ a \in Accounts' /\ Accounts \subseteq Accounts'
    BY <1>1, <1>2, SignInAssumption DEF TypedOwn, TypedBook, Accounts
<1>4. TypedOwn' /\ TypedBook'
    BY <1>1, <1>2 DEF TypedOwn, TypedBook, Places
<1>5. Moves(x) /\ Busy(x) /\ (Asking(x)' => Asking(x))
    BY <1>1, <1>2, <1>3 DEF Moves, Alone, TypedOwn, Busy, Asking, Answers
<1>6. Grows(x)
    BY <1>2, <1>3 DEF Grows, Tokens, Logins, Codes
<1>7. TablesInv'
    BY <1>2 DEF SignInInv, TablesInv, OneLiveToken, ActiveIsUsable, LoginInv, CountInv, Live, Tokens,
        Logins, Codes
<1>8. RoomInv'
    BY <1>2, <1>5, RoomKeeps
<1>9. Own(x)'
    <2>1. /\ Busy(x)' /\ (Unissued(x)' => Unissued(x))
          /\ Route(x)' /\ Presented(x)' /\ TokenHeld(x)' /\ Doomed(x)' /\ CodeHeld(x)' /\ Replayed(x)'
        BY <1>1, <1>2, <1>3
        DEF Own, Busy, Unissued, Route, Presented, TokenHeld, Doomed, CodeHeld, Replayed, Answers
    <2>2. AccountHeld(x)'
        BY <1>3 DEF AccountHeld
    <2>3. QED
        BY <1>1, <1>2, <1>5, <2>1, <2>2 DEF Own
<1>10. QED
    BY <1>4, <1>5, <1>6, <1>7, <1>8, <1>9, StepKeeps, TypesLater

\* A new account has the number of the request that asked for it.
LEMMA InsertAccountKeeps ==
    ASSUME SignInInv, NEW x \in Handlers, InsertAccount(x)
    PROVE  SignInInv'
<1> DEFINE row == NewAccount(x)
<1>1. pc[x] = "insert" /\ Busy(x) /\ Own(x) /\ TypedOwn
    BY Types DEF InsertAccount, Busy, Answers, SignInInv
<1>2. job[x] \in Jobs /\ ticket[x] \in Ids /\ job[x].op \in {"register", "staff", "ask"}
    BY <1>1 DEF Own, Route, TypedOwn
<1>3. CASE Clashes(row.name)
    BY <1>1, <1>3, FailsKeeps DEF InsertAccount
<1>4. CASE ~Clashes(row.name)
    <2>1. row \in AccountRow
        <3>1. [phone |-> Blank, email |-> job[x].email] \in [Channels -> Names \cup {NoName}]
              /\ [phone |-> job[x].name, email |-> job[x].email] \in [Channels -> Names \cup {NoName}]
              /\ [c \in Channels |-> IF c = job[x].channel THEN job[x].name ELSE NoName]
                   \in [Channels -> Names \cup {NoName}]
            BY <1>2, JobFacts, SignInAssumption DEF Channels
        <3>2. QED
            BY <1>2, <3>1, JobFacts DEF NewAccount, AccountRow
    <2>2. /\ account' = [account EXCEPT ![ticket[x]] = row]
          /\ who' = [who EXCEPT ![x] = ticket[x]] /\ seen' = [seen EXCEPT ![x] = row]
          /\ Wrote(x, IF job[x].op = "ask" THEN "mark" ELSE "issue")
        BY <1>4 DEF InsertAccount
    <2>3. seen' \in [Handlers -> AccountRow \cup {NoRow}] /\ \A y \in Handlers \ {x} : seen'[y] = seen[y]
        BY <1>1, <2>1, <2>2 DEF TypedOwn
    <2>4. CASE job[x].op = "ask"
        BY <1>1, <1>2, <2>1, <2>2, <2>3, <2>4, WroteKeeps DEF AskOps
    <2>5. CASE job[x].op # "ask"
        BY <1>1, <1>2, <2>1, <2>2, <2>3, <2>5, WroteKeeps
    <2>6. QED
        BY <2>4, <2>5
<1>5. QED
    BY <1>3, <1>4

\* An administrator writes an account that is there.
LEMMA SetAccountKeeps ==
    ASSUME SignInInv, NEW x \in Handlers, NEW place \in {"sweep", "check"},
           pc[x] = "load", job[x].op \in AdminOps, SetAccount(x, place)
    PROVE  SignInInv'
<1>1. Own(x) /\ TypedOwn /\ TypedBook /\ Busy(x)
    BY Types DEF SignInInv, Busy, Answers
<1>2. job[x].who \in Ids /\ account[job[x].who] \in AccountRow
    BY <1>1 DEF Own, AccountHeld, Accounts, TypedBook
<1>3. AdminRow(x) \in AccountRow
    BY <1>2 DEF AdminRow, AccountRow
<1>4. seen' \in [Handlers -> AccountRow \cup {NoRow}] /\ \A y \in Handlers \ {x} : seen'[y] = seen[y]
    BY <1>1 DEF TypedOwn, SetAccount
<1>5. QED
    BY <1>2, <1>3, <1>4, WroteKeeps DEF SetAccount, AdminOps

\* The account of a right code is written.
LEMMA WelcomeKeeps ==
    ASSUME SignInInv, NEW x \in Handlers, Welcome(x)
    PROVE  SignInInv'
<1>1. pc[x] = "welcome" /\ Busy(x) /\ Own(x) /\ TypedOwn /\ TypedBook
    BY Types DEF Welcome, Busy, Answers, SignInInv
<1> DEFINE row == [account[who[x]] EXCEPT !.status = "active"]
<1>2. who[x] \in Ids /\ account[who[x]] \in AccountRow /\ seen[x] \in AccountRow
      /\ job[x].op # "refresh"
    BY <1>1 DEF Own, AccountHeld, Accounts, TypedBook, Route
<1>3. row \in AccountRow /\ [seen[x] EXCEPT !.status = "active"] \in AccountRow
    BY <1>2 DEF AccountRow
<1>4. account' = [account EXCEPT ![who[x]] = row] /\ who' = [who EXCEPT ![x] = who[x]]
    BY <1>1, <1>2 DEF Welcome, TypedOwn, TypedBook
<1>5. seen' \in [Handlers -> AccountRow \cup {NoRow}] /\ \A y \in Handlers \ {x} : seen'[y] = seen[y]
    BY <1>1, <1>3 DEF TypedOwn, Welcome
<1>6. QED
    BY <1>1, <1>2, <1>3, <1>4, <1>5, WroteKeeps DEF Welcome

\* A password is set for an account that is there.
LEMMA SetPasswordKeeps ==
    ASSUME SignInInv, NEW x \in Handlers, SetPassword(x)
    PROVE  SignInInv'
<1>1. pc[x] = "write" /\ Busy(x) /\ Own(x) /\ TypedOwn /\ TypedBook /\ job[x].op = "reset"
    BY Types DEF SetPassword, Busy, Answers, SignInInv
<1> DEFINE row == [account[who[x]] EXCEPT !.secret = job[x].secret]
<1>2. who[x] \in Ids /\ account[who[x]] \in AccountRow /\ job[x].secret \in Secrets \cup {NoSecret}
    BY <1>1, JobFacts DEF Own, AccountHeld, Accounts, TypedBook
<1>3. row \in AccountRow
    BY <1>2 DEF AccountRow
<1>4. account' = [account EXCEPT ![who[x]] = row] /\ who' = [who EXCEPT ![x] = who[x]]
    BY <1>1, <1>2 DEF SetPassword, TypedOwn, TypedBook
<1>5. seen' \in [Handlers -> AccountRow \cup {NoRow}] /\ \A y \in Handlers \ {x} : seen'[y] = seen[y]
    BY <1>1 DEF TypedOwn, SetPassword
<1>6. QED
    BY <1>1, <1>2, <1>3, <1>4, <1>5, WroteKeeps DEF SetPassword

\* A name is changed, or clashes.
LEMMA RenameKeeps ==
    ASSUME SignInInv, NEW x \in Handlers, Rename(x)
    PROVE  SignInInv'
<1>1. pc[x] = "write" /\ Busy(x) /\ Own(x) /\ TypedOwn /\ TypedBook /\ job[x].op = "change"
    BY Types DEF Rename, Busy, Answers, SignInInv
<1> DEFINE row == [account[who[x]] EXCEPT !.name[job[x].channel] = job[x].name]
           clash == Holders(job[x].channel, job[x].name) \ {who[x]} # {}
<1>2. who[x] \in Ids /\ account[who[x]] \in AccountRow
      /\ job[x].name \in Names /\ job[x].channel \in Channels
    BY <1>1, JobFacts DEF Own, AccountHeld, Accounts, TypedBook
<1>3. row \in AccountRow
    BY <1>2 DEF AccountRow
<1>4. CASE clash
    BY <1>1, <1>4, FailsKeeps DEF Rename
<1>5. CASE ~clash
    <2>1. account' = [account EXCEPT ![who[x]] = row] /\ who' = [who EXCEPT ![x] = who[x]]
        BY <1>1, <1>2, <1>5 DEF Rename, TypedOwn, TypedBook
    <2>2. /\ seen' \in [Handlers -> AccountRow \cup {NoRow}]
          /\ \A y \in Handlers \ {x} : seen'[y] = seen[y]
          /\ Wrote(x, "sweep")
        BY <1>1, <1>5 DEF TypedOwn, Rename
    <2>3. job[x].op # "refresh" /\ pc[x] = "write" /\ who[x] \in Ids
        BY <1>1, <1>2
    <2> HIDE DEF row, clash
    <2>4. QED
        BY <1>3, <2>1, <2>2, <2>3, WroteKeeps
<1>6. QED
    BY <1>4, <1>5

----------------------------------------------------------------------------
(* One-time codes.                                                          *)

\* A handler goes on in its own variables only, from one place to another where
\* it is still asking, or judging.
LEMMA MarkCodesKeeps ==
    ASSUME SignInInv, NEW x \in Handlers, MarkCodes(x)
    PROVE  SignInInv'
<1>1. TypedOwn /\ Typed /\ Own(x) /\ pc[x] = "mark"
    BY Types DEF SignInInv, MarkCodes
<1> DEFINE W == Outstanding(who[x], Purpose(job[x]))
<1>2. /\ pc' = [pc EXCEPT ![x] = "store"] /\ want' = [want EXCEPT ![x] = W] /\ UNCHANGED book
      /\ UNCHANGED <<account, token, session, codes, verdicts, job, ticket, pick, who, seen, hold, kill,
                     jobs, aborts>>
    BY DEF MarkCodes, Goto, book, tables
<1>3. pc'[x] = "store" /\ W \in SUBSET Ids
    BY <1>1, <1>2, Rows DEF TypedOwn, Outstanding
<1>4. TypedOwn'
    BY <1>1, <1>2, <1>3 DEF TypedOwn, Places
<1>5. Moves(x) /\ Busy(x) /\ (Asking(x)' => Asking(x))
    BY <1>1, <1>2, <1>3 DEF Moves, Alone, TypedOwn, Busy, Asking, Answers
<1>6. Own(x)'
    <2>1. /\ Busy(x)' /\ (Unissued(x)' => Unissued(x))
          /\ Route(x)' /\ Presented(x)' /\ TokenHeld(x)' /\ Doomed(x)' /\ CodeHeld(x)' /\ Replayed(x)'
        BY <1>1, <1>2, <1>3
        DEF Own, Busy, Unissued, Route, Presented, TokenHeld, Doomed, CodeHeld, Replayed, Answers
    <2>2. AccountHeld(x)'
        BY <1>1, <1>2, <1>3, <1>5 DEF Own, AccountHeld, Accounts
    <2>3. QED
        BY <1>1, <1>2, <1>5, <2>1, <2>2 DEF Own
<1>7. Typed'
    BY <1>1, <1>2, <1>4, TypesKept
<1>8. QED
    BY <1>2, <1>5, <1>6, <1>7, QuietKeeps

\* A code more is a request less that is going to store one.
LEMMA StoreCodeKeeps ==
    ASSUME SignInInv, NEW x \in Handlers, StoreCode(x)
    PROVE  SignInInv'
<1>1. TypedOwn /\ TypedBook /\ Typed /\ Own(x) /\ pc[x] = "store" /\ Busy(x) /\ job[x].op \in AskOps
    BY Types DEF SignInInv, StoreCode, Own, Route, Busy, Answers
<1> DEFINE marked == [c \in Codes |-> [codes[c] EXCEPT !.used = @ \/ c \in want[x]]]
           new == [account |-> who[x], purpose |-> Purpose(job[x]), used |-> FALSE, attempts |-> 0]
           none == [right |-> 0, wrong |-> 0]
           len == Len(codes)
<1>2. /\ pc' = [pc EXCEPT ![x] = "send"] /\ want' = [want EXCEPT ![x] = {}]
      /\ codes' = Append(marked, new) /\ verdicts' = Append(verdicts, none)
      /\ UNCHANGED <<account, token, session, job, ticket, pick, who, seen, hold, kill, jobs, aborts>>
      /\ \A c \in want[x] : Free(x, <<"code", c>>)
    BY DEF StoreCode, Goto
<1>3. pc'[x] = "send"
    BY <1>1, <1>2 DEF TypedOwn
<1>4. Moves(x) /\ ~Asking(x)'
    BY <1>1, <1>2, <1>3 DEF Moves, Alone, TypedOwn, Busy, Asking, Answers
<1>5. job[x] \in Jobs /\ who[x] \in Accounts /\ who[x] \in Ids /\ ticket[x] \in 1..jobs
    BY <1>1 DEF Own, AccountHeld, Accounts
<1>6. new \in CodeRow /\ none \in [right : Nat, wrong : Nat]
    <2>1. Purpose(job[x]) \in Purposes
        BY DEF Purpose, Purposes
    <2>2. 0 \in 0..MaxAttempts
        BY Rows, <1>1
    <2>3. QED
        BY <1>5, <2>1, <2>2 DEF CodeRow
<1>7. \A c \in Codes : c \in 1..len /\ codes[c] \in CodeRow /\ verdicts[c] \in [right : Nat, wrong : Nat]
    BY <1>1, Rows DEF Codes
<1>8. marked \in Seq(CodeRow) /\ Len(marked) = len
    <2>1. marked \in [1..len -> CodeRow] /\ len \in Nat
        BY <1>1, <1>7, Rows DEF Codes, CodeRow
    <2>2. QED
        BY <2>1
<1>a. \A c \in Codes : marked[c] = [codes[c] EXCEPT !.used = @ \/ c \in want[x]]
    OBVIOUS
<1>b. new.used = FALSE /\ new.attempts = 0 /\ none.right = 0 /\ none.wrong = 0 /\ len = Len(codes)
    OBVIOUS
<1> HIDE DEF marked, new, none, len
<1>9. /\ codes' \in Seq(CodeRow) /\ Len(codes') = len + 1
      /\ \A c \in 1..len : codes'[c] = marked[c]
      /\ codes'[len + 1] = new
    BY <1>2, <1>6, <1>8, AppendProperties
<1>10. /\ verdicts' \in Seq([right : Nat, wrong : Nat]) /\ Len(verdicts') = len + 1
       /\ \A c \in 1..len : verdicts'[c] = verdicts[c]
       /\ verdicts'[len + 1] = none
    BY <1>1, <1>2, <1>6, <1>b, AppendProperties DEF TypedBook
<1>11. RoomInv' /\ len + 1 <= MaxJobs
    <2>1. IsFiniteSet(1..jobs) /\ Askers \subseteq 1..jobs /\ jobs \in Nat /\ len \in Nat /\ jobs <= MaxJobs
        BY <1>1, <1>b, FS_Interval, Rows DEF Askers, TypedOwn, Ids
    <2>2. IsFiniteSet(Askers) /\ Cardinality(Askers) \in Nat
        BY <2>1, FS_Subset, FS_CardinalityType
    <2>3. ticket[x] \in Askers
        BY <1>1, <1>5 DEF Askers, Asking
    <2>4. IsFiniteSet(Askers \ {ticket[x]})
          /\ Cardinality(Askers \ {ticket[x]}) = Cardinality(Askers) - 1
        BY <2>2, <2>3, FS_RemoveElement
    <2>5. Askers' \subseteq Askers \ {ticket[x]}
        <3>1. \A y \in Handlers : Asking(y)' => y # x /\ Asking(y) /\ ticket'[y] = ticket[y]
            BY <1>4 DEF Moves, Alone, Asking
        <3>2. \A y \in Handlers : Asking(y) /\ y # x => ticket[y] # ticket[x]
            BY <1>1 DEF SignInInv, ApartInv, Asking, Busy, Answers
        <3>3. QED
            BY <1>2, <3>1, <3>2 DEF Askers
    <2>6. Cardinality(Askers') \in Nat /\ Cardinality(Askers') <= Cardinality(Askers) - 1
        BY <2>4, <2>5, FS_Subset, FS_CardinalityType
    <2>7. len + Cardinality(Askers) <= jobs
        BY <1>b DEF SignInInv, RoomInv
    <2>8. len + 1 + Cardinality(Askers') <= jobs
        BY <2>1, <2>2, <2>6, <2>7
    <2>9. RoomInv'
        BY <1>2, <1>9, <2>8 DEF RoomInv
    <2>10. QED
        BY <2>1, <2>6, <2>8, <2>9, Rows, <1>1
<1>12. Codes' = 1..(len + 1) /\ len \in Nat
    BY <1>1, <1>9, <1>b, Rows DEF Codes
<1>13. TypedOwn' /\ TypedBook'
    BY <1>1, <1>2, <1>9, <1>10, <1>11, <1>b DEF TypedOwn, TypedBook, Places
<1>14. TablesInv'
    <2>1. CountInv'
        <3> SUFFICES ASSUME NEW c \in 1..(len + 1)
                     PROVE  /\ verdicts'[c].right <= IF codes'[c].used THEN 1 ELSE 0
                            /\ codes'[c].attempts = verdicts'[c].wrong
            BY <1>12 DEF CountInv
        <3>1. CASE c = len + 1
            BY <1>9, <1>10, <1>b, <3>1
        <3>2. CASE c # len + 1
            <4>1. c \in Codes /\ codes'[c] = marked[c] /\ verdicts'[c] = verdicts[c]
                BY <1>9, <1>10, <1>12, <1>b, <3>2 DEF Codes
            <4>2. codes[c] \in CodeRow /\ codes'[c] = [codes[c] EXCEPT !.used = @ \/ c \in want[x]]
                BY <1>7, <1>a, <4>1
            <4>3. codes'[c].attempts = codes[c].attempts /\ (codes[c].used => codes'[c].used)
                BY <4>2 DEF CodeRow
            <4>4. /\ verdicts[c].right <= IF codes[c].used THEN 1 ELSE 0
                  /\ codes[c].attempts = verdicts[c].wrong /\ verdicts[c].right \in Nat
                BY <1>7, <4>1 DEF SignInInv, TablesInv, CountInv
            <4>5. QED
                BY <4>1, <4>3, <4>4
        <3>3. QED
            BY <3>1, <3>2
    <2>2. OneLiveToken' /\ ActiveIsUsable' /\ LoginInv'
        BY <1>2 DEF SignInInv, TablesInv, OneLiveToken, ActiveIsUsable, LoginInv, Live, Tokens, Logins
    <2>3. QED
        BY <2>1, <2>2 DEF TablesInv
<1>15. Grows(x)
    <2>1. ASSUME NEW c \in Codes
          PROVE  c \in Codes' /\ (Locked(x, <<"code", c>>) => codes'[c].used = codes[c].used)
        <3>1. c \in 1..len /\ c \in Codes' /\ codes'[c] = marked[c] /\ codes[c] \in CodeRow
            BY <1>7, <1>9, <1>12, <1>b
        <3>2. codes'[c].used = (codes[c].used \/ c \in want[x])
            BY <1>a, <3>1 DEF CodeRow
        <3>3. Locked(x, <<"code", c>>) => c \notin want[x]
            BY <1>2 DEF Locked, Free
        <3>4. QED
            BY <3>1, <3>2, <3>3 DEF CodeRow
    <2>2. QED
        BY <1>2, <2>1 DEF Grows, Accounts, Tokens, Logins
<1>16. Own(x)'
    <2>1. /\ Busy(x)' /\ (Unissued(x)' => Unissued(x))
          /\ Route(x)' /\ Presented(x)' /\ TokenHeld(x)' /\ Doomed(x)' /\ CodeHeld(x)' /\ Replayed(x)'
          /\ AccountHeld(x)'
        BY <1>1, <1>2, <1>3
        DEF Own, Busy, Unissued, Route, Presented, TokenHeld, Doomed, CodeHeld, Replayed, AccountHeld,
            Answers
    <2>2. QED
        BY <1>1, <1>2, <2>1 DEF Own
<1>17. QED
    BY <1>1, <1>4, <1>11, <1>13, <1>14, <1>15, <1>16, StepKeeps, TypesLater

\* A bounded set of numbers that is not empty has a largest one.
Below == {ss \in Nat \X Nat : ss[1] < ss[2]}
LEMMA LargestOf ==
    ASSUME NEW m \in Nat, NEW S \in SUBSET (1..m), S # {}
    PROVE  \E k \in S : \A d \in S : d <= k
<1> DEFINE Above == {b \in Nat : \A d \in S : d <= b}
<1>1. m \in Above /\ Above \subseteq Nat
    OBVIOUS
<1>2. PICK b \in Above : \A c \in Above : <<c, b>> \notin Below
    <2> HIDE DEF Above
    <2>1. IsWellFoundedOn(Below, Nat)
        BY NatLessThanWellFounded DEF OpToRel, Below
    <2>2. QED
        BY <1>1, <2>1, WFMin
<1>3. b \in S
    <2> SUFFICES ASSUME b \notin S
                 PROVE  FALSE
        OBVIOUS
    <2>1. b \in Nat /\ \A d \in S : d \in Nat \ {0} /\ d <= b /\ d # b
        BY <1>2
    <2>2. PICK d \in S : TRUE
        OBVIOUS
    <2>3. b - 1 \in Nat
        BY <2>1, <2>2
    <2>4. b - 1 \in Above
        BY <2>1, <2>3
    <2>5. <<b - 1, b>> \in Below
        BY <2>1, <2>3 DEF Below
    <2>6. QED
        BY <1>2, <2>4, <2>5
<1>4. QED
    BY <1>2, <1>3

\* The code that is locked is one that is left, and is no one else's.
LEMMA LockCodeKeeps ==
    ASSUME SignInInv, NEW x \in Handlers, LockCode(x)
    PROVE  SignInInv'
<1>1. TypedOwn /\ Typed /\ Own(x) /\ pc[x] = "lock" /\ Busy(x)
    BY Types DEF SignInInv, LockCode, Busy, Answers
<1> DEFINE left == Outstanding(who[x], Purpose(job[x]))
           c == CHOOSE c \in left : \A d \in left : d <= c
<1>2. CASE left = {}
    BY <1>1, <1>2, FailsKeeps DEF LockCode
<1>3. CASE left # {}
    <2>1. c \in left
        <3>2. left \in SUBSET (1..Len(codes)) /\ Len(codes) \in Nat
            BY <1>1, Rows DEF Outstanding, Codes
        <3>3. \E k \in left : \A d \in left : d <= k
            BY <1>3, <3>2, LargestOf
        <3>4. QED
            BY <3>3
    <2>2. c \in Codes /\ ~codes[c].used /\ c \in Ids
        BY <1>1, <2>1, Rows DEF Outstanding
    <2>3. /\ pc' = [pc EXCEPT ![x] = "judge"] /\ hold' = [hold EXCEPT ![x] = {<<"code", c>>}]
          /\ UNCHANGED <<account, token, session, codes, verdicts, job, ticket, pick, who, seen, want,
                         kill, jobs, aborts>>
          /\ UNCHANGED book /\ Free(x, <<"code", c>>)
        BY <1>3 DEF LockCode, Goto, book, tables
    <2> HIDE DEF c, left
    <2>4. pc'[x] = "judge" /\ hold'[x] = {<<"code", c>>}
        BY <1>1, <2>3 DEF TypedOwn
    <2>5. TypedOwn'
        BY <1>1, <2>2, <2>3 DEF TypedOwn, Places
    <2>6. Moves(x) /\ (Asking(x)' => Asking(x))
        BY <1>1, <2>3, <2>4 DEF Moves, Alone, TypedOwn, Busy, Asking, Answers
    <2>7. Own(x)'
        <3>1. /\ Busy(x)' /\ (Unissued(x)' => Unissued(x)) /\ Route(x)' /\ AccountHeld(x)'
              /\ Presented(x)' /\ TokenHeld(x)' /\ Doomed(x)' /\ Replayed(x)'
            BY <1>1, <2>3, <2>4
            DEF Own, Busy, Unissued, Route, AccountHeld, Presented, TokenHeld, Doomed, Replayed, Answers,
                Accounts
        <3>2. CodeHeld(x)'
            BY <2>2, <2>3, <2>4 DEF CodeHeld, Codes
        <3>3. QED
            BY <1>1, <2>3, <3>1, <3>2 DEF Own
    <2>8. Typed'
        BY <1>1, <2>3, <2>5, TypesKept
    <2>9. QED
        BY <1>1, <2>3, <2>6, <2>7, <2>8, QuietKeeps
<1>4. QED
    BY <1>2, <1>3

\* The code that is judged is the one that is locked: it is unused, and what it
\* is answered is counted with it.
LEMMA JudgeCodeKeeps ==
    ASSUME SignInInv, NEW x \in Handlers, JudgeCode(x)
    PROVE  SignInInv'
<1>1. TypedOwn /\ TypedBook /\ Typed /\ Own(x) /\ pc[x] = "judge" /\ Busy(x) /\ job[x].op \in CodeOps
    BY Types DEF SignInInv, JudgeCode, Own, Route, Busy, Answers
<1> DEFINE c == CHOOSE k \in Codes : <<"code", k>> \in hold[x]
           right == pick[x] = c
<1>2. /\ c \in Codes /\ hold[x] = {<<"code", c>>} /\ ~codes[c].used /\ c \in Ids
      /\ codes[c] \in CodeRow /\ verdicts[c] \in [right : Nat, wrong : Nat]
      /\ codes[c].attempts \in Nat /\ MaxAttempts \in Nat
    <2>1. PICK k \in Codes : hold[x] = {<<"code", k>>} /\ ~codes[k].used
        BY <1>1 DEF Own, CodeHeld
    <2>2. c = k
        BY <2>1
    <2>3. k \in Ids /\ codes[k] \in CodeRow /\ verdicts[k] \in [right : Nat, wrong : Nat]
          /\ MaxAttempts \in Nat
        BY <1>1, Rows
    <2>4. codes[k].attempts \in Nat
        BY <2>3 DEF CodeRow
    <2>5. QED
        BY <2>1, <2>2, <2>3, <2>4
<1>3. CASE Exhausted(c)
    BY <1>1, <1>3, FailsKeeps DEF JudgeCode
<1>4. CASE ~Exhausted(c)
    <2> DEFINE row == IF right THEN [codes[c] EXCEPT !.used = TRUE]
                               ELSE [codes[c] EXCEPT !.attempts = @ + 1]
               verdict == IF right THEN [verdicts[c] EXCEPT !.right = @ + 1]
                                   ELSE [verdicts[c] EXCEPT !.wrong = @ + 1]
    <2>1. /\ codes' = Spent(c, right)
          /\ verdicts' = IF right THEN [verdicts EXCEPT ![c].right = @ + 1]
                                  ELSE [verdicts EXCEPT ![c].wrong = @ + 1]
          /\ IF right
             THEN /\ Goto(x, AfterCode(x))
                  /\ hold' = Released(x)
                  /\ UNCHANGED <<job, ticket, pick, who, seen, want, kill, jobs, aborts>>
             ELSE Leave(x, "refused")
          /\ UNCHANGED <<account, token, session>>
        BY <1>4 DEF JudgeCode
    <2> HIDE DEF c, right
    <2>2. codes' = [codes EXCEPT ![c] = row] /\ verdicts' = [verdicts EXCEPT ![c] = verdict]
        <3>1. codes \in [Codes -> CodeRow] /\ verdicts \in [Codes -> [right : Nat, wrong : Nat]]
            BY <1>1, LenProperties DEF TypedBook, Codes
        <3>2. QED
            BY <1>2, <2>1, <3>1 DEF Spent
    <2>3. /\ row \in CodeRow /\ verdict \in [right : Nat, wrong : Nat]
          /\ verdict.right <= (IF row.used THEN 1 ELSE 0) /\ row.attempts = verdict.wrong
        <3>1. codes[c].attempts < MaxAttempts
            BY <1>2, <1>4 DEF Exhausted
        <3>2. verdicts[c].right <= 0 /\ codes[c].attempts = verdicts[c].wrong
            BY <1>2 DEF SignInInv, TablesInv, CountInv
        <3>3. codes[c].attempts + 1 \in 0..MaxAttempts
            BY <1>2, <3>1
        <3> USE DEF CodeRow
        <3>4. CASE right
            <4>1. /\ row = [codes[c] EXCEPT !.used = TRUE]
                  /\ verdict = [verdicts[c] EXCEPT !.right = @ + 1]
                BY <3>4
            <4> HIDE DEF row, verdict
            <4>2. row \in CodeRow /\ row.used = TRUE /\ row.attempts = codes[c].attempts
                BY <1>2, <4>1
            <4>3. /\ verdict \in [right : Nat, wrong : Nat] /\ verdict.right <= 1
                  /\ verdict.wrong = verdicts[c].wrong
                BY <1>2, <3>2, <4>1
            <4>4. QED
                BY <3>2, <4>2, <4>3
        <3>5. CASE ~right
            <4>1. /\ row = [codes[c] EXCEPT !.attempts = @ + 1]
                  /\ verdict = [verdicts[c] EXCEPT !.wrong = @ + 1]
                BY <3>5
            <4>2. verdicts[c].right <= IF codes[c].used THEN 1 ELSE 0
                BY <1>2, <3>2
            <4>3. QED
                BY <1>2, <3>2, <3>3, <4>1, <4>2
        <3>6. QED
            BY <3>4, <3>5
    <2> HIDE DEF row, verdict
    <2>4. /\ codes' \in Seq(CodeRow) /\ verdicts' \in Seq([right : Nat, wrong : Nat])
          /\ Len(codes') = Len(codes) /\ Len(verdicts') = Len(verdicts)
          /\ codes'[c] = row /\ verdicts'[c] = verdict
          /\ \A k \in Codes : k # c => codes'[k] = codes[k] /\ verdicts'[k] = verdicts[k]
        <3>1. c \in 1..Len(codes) /\ c \in 1..Len(verdicts) /\ Codes = 1..Len(codes)
              /\ codes \in Seq(CodeRow) /\ verdicts \in Seq([right : Nat, wrong : Nat])
              /\ Len(verdicts) = Len(codes)
            BY <1>1, <1>2 DEF TypedBook, Codes
        <3>2. QED
            BY <2>2, <2>3, <3>1, ExceptSeq
    <2>5. Codes' = Codes
        BY <2>4 DEF Codes
    <2>6. TypedBook'
        BY <1>1, <2>1, <2>4 DEF TypedBook
    <2>7. TablesInv'
        <3>1. CountInv'
            BY <2>3, <2>4, <2>5 DEF SignInInv, TablesInv, CountInv
        <3>2. jobs' = jobs
            BY <2>1 DEF Leave
        <3>3. OneLiveToken' /\ ActiveIsUsable' /\ LoginInv'
            BY <2>1, <3>2 DEF SignInInv, TablesInv, OneLiveToken, ActiveIsUsable, LoginInv, Live, Tokens,
                Logins
        <3>4. QED
            BY <3>1, <3>3 DEF TablesInv
    <2>8. Grows(x)
        <3>1. ASSUME NEW k \in Codes, Locked(x, <<"code", k>>)
              PROVE  codes'[k] = codes[k]
            <4>1. PICK y \in Handlers \ {x} : <<"code", k>> \in hold[y]
                BY <3>1 DEF Locked
            <4>2. <<"code", k>> \notin hold[x]
                BY <4>1 DEF SignInInv, ApartInv
            <4>3. QED
                BY <1>2, <2>4, <4>2
        <3>2. QED
            BY <2>1, <2>5, <3>1 DEF Grows, Accounts, Tokens, Logins
    <2>9. CASE right
        <3>1. /\ pc' = [pc EXCEPT ![x] = AfterCode(x)] /\ hold' = [hold EXCEPT ![x] = {}]
              /\ UNCHANGED <<account, token, session, job, ticket, pick, who, seen, want, kill, jobs,
                             aborts>>
            BY <2>1, <2>9 DEF Goto, Released
        <3>2. /\ AfterCode(x) \in {"write", "recheck", "welcome", "issue"}
              /\ AfterCode(x) = "write" => job[x].op = "reset"
              /\ AfterCode(x) = "recheck" => job[x].op = "change"
              /\ AfterCode(x) = "welcome" => job[x].op = "verify"
            BY <1>1 DEF AfterCode, CodeOps
        <3>3. pc'[x] = AfterCode(x) /\ hold'[x] = {}
            BY <1>1, <3>1 DEF TypedOwn
        <3> DEFINE after == AfterCode(x)
        <3> HIDE DEF after
        <3>4. TypedOwn'
            BY <1>1, <3>1, <3>2 DEF TypedOwn, Places
        <3>5. Moves(x) /\ ~Asking(x)'
            BY <1>1, <3>1, <3>2, <3>3 DEF Moves, Alone, TypedOwn, Busy, Asking
        <3>6. Own(x)'
            <4>1. /\ Busy(x)' /\ (Unissued(x)' => Unissued(x)) /\ Route(x)'
                  /\ Presented(x)' /\ TokenHeld(x)' /\ Doomed(x)' /\ Replayed(x)' /\ CodeHeld(x)'
                BY <1>1, <3>1, <3>2, <3>3
                DEF Own, Busy, Unissued, Route, Presented, TokenHeld, Doomed, Replayed, CodeHeld, Answers,
                    CodeOps
            <4>2. AccountHeld(x)'
                BY <1>1, <3>1, <3>2, <3>3 DEF Own, AccountHeld, Accounts
            <4>3. QED
                BY <1>1, <3>1, <4>1, <4>2 DEF Own
        <3>7. RoomInv'
            BY <2>4, <3>5, RoomKeeps
        <3>8. QED
            BY <1>1, <2>6, <2>7, <2>8, <3>4, <3>5, <3>6, <3>7, StepKeeps, TypesLater
    <2>10. CASE ~right
        <3>1. Finish(x, "refused") /\ jobs' = jobs /\ aborts' = aborts
            BY <2>1, <2>10 DEF Leave
        <3>2. Moves(x) /\ ~Asking(x)' /\ Own(x)' /\ TypedOwn'
            BY <1>1, <3>1, Finished DEF Answers, TypedOwn
        <3>3. RoomInv'
            BY <2>4, <3>2, RoomKeeps
        <3>4. QED
            BY <1>1, <2>6, <2>7, <2>8, <3>2, <3>3, StepKeeps, TypesLater
    <2>11. QED
        BY <2>9, <2>10
<1>5. QED
    BY <1>3, <1>4

----------------------------------------------------------------------------
(* Sessions and refresh tokens.                                             *)

\* A login is a row of each table under the request's own number.
LEMMA IssueKeeps ==
    ASSUME SignInInv, NEW x \in Handlers, IssueLoginSession(x)
    PROVE  SignInInv'
<1>1. TypedOwn /\ TypedBook /\ Typed /\ Own(x) /\ pc[x] = "issue" /\ Busy(x)
    BY Types DEF SignInInv, IssueLoginSession, Busy, Answers
<1> DEFINE n == ticket[x]
           tok == [account |-> who[x], family |-> n, revoked |-> FALSE, next |-> NoRow]
           ses == [account |-> who[x], token |-> n, active |-> TRUE]
<1>2. /\ token' = [token EXCEPT ![n] = tok] /\ session' = [session EXCEPT ![n] = ses]
      /\ Finish(x, "ok") /\ UNCHANGED <<account, codes, verdicts, jobs, aborts>>
    BY DEF IssueLoginSession, Leave
<1>3. /\ n \in Ids /\ n \in 1..jobs /\ token[n] = NoRow /\ session[n] = NoRow /\ who[x] \in Ids
      /\ who[x] \in Accounts
    BY <1>1 DEF Own, Unissued, TypedOwn, AccountHeld, Accounts
<1>4. Moves(x) /\ ~Asking(x)' /\ Own(x)' /\ TypedOwn'
    BY <1>1, <1>2, Finished DEF Answers, TypedOwn
<1>5. tok \in TokenRow /\ ses \in SessionRow /\ tok # NoRow /\ ses # NoRow
    <2>1. tok \in TokenRow /\ ses \in SessionRow
        BY <1>3 DEF TokenRow, SessionRow
    <2> HIDE DEF tok, ses
    <2>2. QED
        BY <2>1, SignInAssumption
<1>6. /\ tok.account = who[x] /\ tok.family = n /\ ~tok.revoked /\ tok.next = NoRow
      /\ ses.account = who[x] /\ ses.token = n
    OBVIOUS
<1> HIDE DEF tok, ses, n
<1>7. TypedBook'
    BY <1>1, <1>2, <1>3, <1>5 DEF TypedBook
<1>8. /\ Tokens' = Tokens \cup {n} /\ Logins' = Logins \cup {n} /\ n \notin Tokens /\ n \notin Logins
      /\ token'[n] = tok /\ session'[n] = ses
      /\ \A t \in Tokens : token'[t] = token[t]
      /\ \A s \in Logins : session'[s] = session[s]
      /\ \A k \in Ids : k # n => token'[k] = token[k] /\ session'[k] = session[k]
    BY <1>1, <1>2, <1>3, <1>5 DEF TypedBook, Tokens, Logins
<1>9. TablesInv'
    <2>1. OneLiveToken /\ ActiveIsUsable /\ LoginInv /\ CountInv
        BY DEF SignInInv, TablesInv
    <2>2. \A t \in Tokens : token[t].family # n
        BY <1>8, <2>1 DEF LoginInv
    <2>3. OneLiveToken'
        BY <1>6, <1>8, <2>1, <2>2 DEF OneLiveToken, Live
    <2>4. ActiveIsUsable'
        BY <1>6, <1>8, <2>1 DEF ActiveIsUsable, Live, LoginInv
    <2>5. LoginInv'
        <3>1. \A k \in Ids : k > jobs => k # n
            BY <1>1, <1>3, Rows DEF Ids
        <3>2. QED
            BY <1>2, <1>6, <1>8, <2>1, <3>1 DEF LoginInv
    <2>6. CountInv'
        BY <1>2, <2>1 DEF CountInv, Codes
    <2>7. QED
        BY <2>3, <2>4, <2>5, <2>6 DEF TablesInv
<1>10. Grows(x)
    <2>1. n = ticket[x]
        BY DEF n
    <2>2. \A t \in Tokens : token[t].family \in Logins
        BY DEF SignInInv, TablesInv, LoginInv
    <2>3. QED
        BY <1>2, <1>6, <1>8, <2>1, <2>2 DEF Grows, Accounts, Codes
<1>11. RoomInv'
    BY <1>2, <1>4, RoomKeeps
<1>12. QED
    BY <1>1, <1>4, <1>7, <1>9, <1>10, <1>11, StepKeeps, TypesLater

\* The sessions at a live token are those of its login, which there is one of.
LEMMA OneSession ==
    ASSUME SignInInv, NEW t \in Tokens
    PROVE  SessionsAt(t) \subseteq {token[t].family}
BY DEF SignInInv, TablesInv, LoginInv, SessionsAt

\* A token is locked to be rotated, or to be traced as a replay.
LEMMA LockTokenKeeps ==
    ASSUME SignInInv, NEW x \in Handlers, LockToken(x)
    PROVE  SignInInv'
<1>1. TypedOwn /\ TypedBook /\ Typed /\ Own(x) /\ pc[x] = "load" /\ Busy(x) /\ job[x].op = "refresh"
    BY Types DEF SignInInv, LockToken, Loading, Busy, Answers
<1> DEFINE t == pick[x]
           a == token[t].account
           mine == SessionsAt(t) \cap ActiveOf(a)
           replay == token[t].next # NoRow
<1>2. t \in Tokens /\ t \in Ids /\ token[t] \in TokenRow /\ a \in Ids
    BY <1>1, Rows DEF Own, Presented, TokenRow
<1>3. CASE ~replay /\ (token[t].revoked \/ mine = {})
    BY <1>1, <1>3, FailsKeeps DEF LockToken
<1>4. CASE replay \/ (~token[t].revoked /\ mine # {})
    <2>1. /\ Free(x, <<"token", t>>)
          /\ hold' = [hold EXCEPT ![x] = {<<"token", t>>}]
          /\ who' = [who EXCEPT ![x] = a]
          /\ want' = [want EXCEPT ![x] = IF replay THEN Family(t) ELSE {}]
          /\ kill' = [kill EXCEPT ![x] = IF replay THEN {} ELSE mine]
          /\ pc' = [pc EXCEPT ![x] = IF replay THEN "trace" ELSE "rotate"]
          /\ UNCHANGED <<account, token, session, codes, verdicts, job, ticket, pick, seen, jobs, aborts>>
          /\ UNCHANGED book
        BY <1>4 DEF LockToken, Goto, book, tables
    <2>2. /\ hold'[x] = {<<"token", t>>} /\ who'[x] = a
          /\ want'[x] = (IF replay THEN Family(t) ELSE {})
          /\ kill'[x] = (IF replay THEN {} ELSE mine)
          /\ pc'[x] = (IF replay THEN "trace" ELSE "rotate")
        BY <1>1, <2>1 DEF TypedOwn
    <2>3. Family(t) \subseteq Tokens /\ Tokens \subseteq Ids /\ mine \subseteq Ids
          /\ \A u \in Family(t) : token[u].family = token[t].family
        BY DEF Family, Tokens, SessionsAt, Logins
    <2>4. ~replay => mine = {token[t].family} /\ Live(t) /\ session[token[t].family].token = t
        <3>1. mine \subseteq {token[t].family}
            BY <1>2, OneSession
        <3>2. QED
            BY <1>4, <3>1 DEF Live, SessionsAt
    <2> HIDE DEF mine, replay
    <2>5. TypedOwn'
        BY <1>1, <1>2, <2>1, <2>3 DEF TypedOwn, Places
    <2>6. Moves(x) /\ ~Asking(x)'
        BY <1>1, <2>1, <2>2 DEF Moves, Alone, TypedOwn, Busy, Asking, Answers
    <2>7. Own(x)'
        <3>1. t = pick[x] /\ pick'[x] = t
            BY <2>1
        <3> HIDE DEF t
        <3>2. /\ Busy(x)' /\ (Unissued(x)' => Unissued(x)) /\ Route(x)' /\ AccountHeld(x)'
              /\ Presented(x)' /\ CodeHeld(x)' /\ Replayed(x)'
            BY <1>1, <1>2, <2>1, <2>2, <3>1
            DEF Own, Busy, Unissued, Route, AccountHeld, Presented, CodeHeld, Replayed, Answers, Tokens
        <3>3. TokenHeld(x)'
            BY <2>1, <2>2, <2>4, <3>1 DEF TokenHeld, Live
        <3>4. Doomed(x)'
            BY <1>1, <2>1, <2>2, <2>3, <3>1 DEF Doomed, Tokens
        <3>5. QED
            BY <1>1, <2>1, <3>2, <3>3, <3>4 DEF Own
    <2>8. Typed'
        BY <1>1, <2>1, <2>5, TypesKept
    <2>9. QED
        BY <1>1, <2>1, <2>6, <2>7, <2>8, QuietKeeps
<1>5. QED
    BY <1>3, <1>4

\* The session of the login moves from the token that was locked to the new one.
LEMMA RotateKeeps ==
    ASSUME SignInInv, NEW x \in Handlers, Rotate(x)
    PROVE  SignInInv'
<1>1. TypedOwn /\ TypedBook /\ Typed /\ Own(x) /\ pc[x] = "rotate" /\ Busy(x) /\ job[x].op = "refresh"
    BY Types DEF SignInInv, Rotate, Busy, Answers, Own, Route
<1> DEFINE t == pick[x]
           n == ticket[x]
           f == token[t].family
           old == [token[t] EXCEPT !.revoked = TRUE, !.next = n]
           new == [account |-> who[x], family |-> f, revoked |-> FALSE, next |-> NoRow]
           ses == [session[f] EXCEPT !.token = n]
<1>2. /\ t \in Tokens /\ t \in Ids /\ token[t] \in TokenRow /\ Live(t)
      /\ f \in Logins /\ f \in Ids /\ session[f] \in SessionRow /\ session[f].token = t
      /\ session[f].account = token[t].account
      /\ n \in Ids /\ n \in 1..jobs /\ token[n] = NoRow /\ session[n] = NoRow
      /\ who[x] = token[t].account /\ who[x] \in Ids /\ kill[x] = {f} /\ hold[x] = {<<"token", t>>}
      /\ n # t /\ n # f
    <2>1. t \in Tokens /\ t \in Ids /\ token[t] \in TokenRow
        BY <1>1, Rows DEF Own, Presented
    <2>2. f \in Logins /\ f \in Ids /\ session[f] \in SessionRow
          /\ session[f].account = token[t].account
        BY <1>1, <2>1, Rows DEF SignInInv, TablesInv, LoginInv
    <2>3. Unissued(x) /\ n \in Ids /\ n \in 1..jobs /\ token[n] = NoRow /\ session[n] = NoRow
        BY <1>1 DEF Own, Unissued, TypedOwn
    <2>4. QED
        BY <1>1, <2>1, <2>2, <2>3 DEF Own, TokenHeld, TokenRow, Tokens, Logins
<1>3. /\ token' = [token EXCEPT ![t] = old, ![n] = new]
      /\ session' = [s \in Ids |-> IF s \in kill[x] THEN Moved(s, n) ELSE session[s]]
      /\ pc' = [pc EXCEPT ![x] = "check"]
      /\ hold' = [hold EXCEPT ![x] = {}] /\ kill' = [kill EXCEPT ![x] = {}]
      /\ UNCHANGED <<account, codes, verdicts, job, ticket, pick, who, seen, want, jobs, aborts>>
    <2>1. token' = [token EXCEPT ![t] = [@ EXCEPT !.revoked = TRUE, !.next = n], ![n] = new]
        BY DEF Rotate
    <2>2. token' = [token EXCEPT ![t] = old, ![n] = new]
        BY <1>1, <1>2, <2>1 DEF TypedBook
    <2>3. QED
        BY <2>2 DEF Rotate, Goto, Released
<1>4. /\ old \in TokenRow /\ new \in TokenRow /\ ses \in SessionRow
      /\ old.family = f /\ old.account = token[t].account /\ old.revoked
      /\ new.family = f /\ new.account = who[x] /\ ~new.revoked /\ new.next = NoRow
      /\ ses.account = session[f].account /\ ses.token = n /\ ses.active = session[f].active
    BY <1>2 DEF TokenRow, SessionRow
<1>5. old # NoRow /\ new # NoRow /\ ses # NoRow
    <2> HIDE DEF old, new, ses
    <2>1. QED
        BY <1>4, SignInAssumption
<1>6. session' = [session EXCEPT ![f] = ses]
    BY <1>1, <1>2, <1>3 DEF TypedBook, Moved
<1>a. n = ticket[x] /\ t = pick[x]
    OBVIOUS
<1>b. f = token[t].family
    OBVIOUS
<1> HIDE DEF old, new, ses, n, t, f
<1>7. TypedBook'
    BY <1>1, <1>2, <1>3, <1>4, <1>6 DEF TypedBook
<1>8. /\ Tokens' = Tokens \cup {n} /\ Logins' = Logins /\ n \notin Tokens /\ n \notin Logins
      /\ token'[n] = new /\ token'[t] = old /\ session'[f] = ses
      /\ \A u \in Tokens : u # t => token'[u] = token[u]
      /\ \A s \in Logins : s # f => session'[s] = session[s]
      /\ \A k \in Ids : k \notin {n, t} => token'[k] = token[k]
      /\ \A k \in Ids : k # f => session'[k] = session[k]
    <2>1. /\ token'[n] = new /\ token'[t] = old /\ session'[f] = ses
          /\ \A k \in Ids : k # n /\ k # t => token'[k] = token[k]
          /\ \A k \in Ids : k # f => session'[k] = session[k]
        BY <1>1, <1>2, <1>3, <1>6 DEF TypedBook
    <2>2. Tokens' = Tokens \cup {n} /\ n \notin Tokens
        BY <1>2, <1>5, <2>1 DEF Tokens
    <2>3. Logins' = Logins /\ n \notin Logins
        BY <1>2, <1>5, <2>1 DEF Logins
    <2>4. Tokens \subseteq Ids /\ Logins \subseteq Ids
        BY DEF Tokens, Logins
    <2>5. QED
        BY <2>1, <2>2, <2>3, <2>4
<1>9. /\ pc'[x] = "check" /\ hold'[x] = {} /\ kill'[x] = {}
    BY <1>1, <1>3 DEF TypedOwn
<1>10. Moves(x) /\ ~Asking(x)'
    BY <1>1, <1>3, <1>9 DEF Moves, Alone, TypedOwn, Busy, Asking, Answers
<1>11. TypedOwn'
    BY <1>1, <1>3 DEF TypedOwn, Places
<1>12. TablesInv'
    <2>1. OneLiveToken /\ ActiveIsUsable /\ LoginInv /\ CountInv
        BY DEF SignInInv, TablesInv
    <2>2. \A u \in Tokens : Live(u) /\ token[u].family = f => u = t
        BY <1>2, <1>b, <2>1 DEF OneLiveToken
    <2>3. \A s \in Logins : s # f => session[s].token # t /\ session[s].token \in Tokens
        BY <1>b, <2>1 DEF LoginInv
    <2>4. OneLiveToken'
        <3> SUFFICES ASSUME NEW u \in Tokens', NEW v \in Tokens', Live(u)', Live(v)',
                            token'[u].family = token'[v].family
                     PROVE  u = v
            BY DEF OneLiveToken
        <3>1. u # t /\ v # t
            BY <1>4, <1>8 DEF Live
        <3>2. \A w \in Tokens \ {t} : (Live(w)' <=> Live(w)) /\ token'[w].family = token[w].family
            BY <1>8 DEF Live
        <3>3. QED
            BY <1>4, <1>8, <2>1, <2>2, <3>1, <3>2 DEF OneLiveToken
    <2>5. ActiveIsUsable'
        <3> SUFFICES ASSUME NEW s \in Logins', session'[s].active
                     PROVE  /\ ~token'[session'[s].token].revoked
                            /\ token'[session'[s].token].next = NoRow
                            /\ token'[session'[s].token].family = s
            BY DEF ActiveIsUsable, Live
        <3>1. CASE s = f
            <4>1. session'[s].token = n /\ token'[n] = new
                BY <1>4, <1>8, <3>1
            <4>2. QED
                BY <1>4, <3>1, <4>1 DEF Live
        <3>2. CASE s # f
            <4>1. s \in Logins /\ session'[s] = session[s]
                BY <1>8, <3>2
            <4>2. /\ Live(session[s].token) /\ token[session[s].token].family = s
                  /\ token'[session[s].token] = token[session[s].token]
                BY <1>8, <2>1, <2>3, <3>2, <4>1 DEF ActiveIsUsable
            <4>3. QED
                BY <4>1, <4>2 DEF Live
        <3>3. QED
            BY <3>1, <3>2
    <2>6. LoginInv'
        <3>1. \A k \in Ids : k > jobs => k # n /\ k # f /\ k # t
            <4>1. \A k \in Ids : k > jobs => k # n
                BY <1>1, <1>2, Rows DEF Ids
            <4>2. QED
                BY <1>2, <2>1, <4>1 DEF LoginInv, Tokens, Logins
        <3>2. \A u \in Tokens' : token'[u].family \in Logins
                                 /\ session'[token'[u].family].account = token'[u].account
            <4> TAKE u \in Tokens'
            <4>1. \A s \in Logins : session'[s].account = session[s].account
                BY <1>4, <1>8
            <4>2. CASE u \in {n, t}
                BY <1>2, <1>4, <1>8, <4>1, <4>2
            <4>3. CASE u \notin {n, t}
                <5>1. u \in Tokens /\ token'[u] = token[u]
                    BY <1>8, <4>3
                <5>2. QED
                    BY <2>1, <4>1, <5>1 DEF LoginInv
            <4>4. QED
                BY <4>2, <4>3
        <3>3. \A s \in Logins' : session'[s].token \in Tokens' /\ token'[session'[s].token].family = s
            <4> TAKE s \in Logins'
            <4>1. CASE s = f
                BY <1>4, <1>8, <4>1
            <4>2. CASE s # f
                <5>1. s \in Logins /\ session'[s] = session[s]
                    BY <1>8, <4>2
                <5>2. token'[session[s].token] = token[session[s].token]
                    BY <1>8, <2>3, <4>2, <5>1
                <5>3. QED
                    BY <1>8, <2>1, <5>1, <5>2 DEF LoginInv
            <4>3. QED
                BY <4>1, <4>2
        <3>4. \A k \in Ids : k > jobs => token'[k] = NoRow /\ session'[k] = NoRow
            BY <1>8, <2>1, <3>1 DEF LoginInv
        <3>5. QED
            BY <1>3, <1>8, <3>2, <3>3, <3>4 DEF LoginInv
    <2>7. CountInv'
        BY <1>3, <2>1 DEF CountInv, Codes
    <2>8. QED
        BY <2>4, <2>5, <2>6, <2>7 DEF TablesInv
<1>13. Grows(x)
    <2>1. \A u \in Tokens : u \in Tokens' /\ token'[u].family = token[u].family
                            /\ token'[u].account = token[u].account
        BY <1>4, <1>8, <1>b
    <2>2. ASSUME NEW u \in Tokens, Locked(x, <<"token", u>>), Live(u)
          PROVE  /\ token'[u] = token[u]
                 /\ session[token[u].family].token = u => session'[token[u].family].token = u
        <3>1. PICK y \in Handlers \ {x} : <<"token", u>> \in hold[y]
            BY <2>2 DEF Locked
        <3>2. <<"token", u>> \notin hold[x]
            BY <3>1 DEF SignInInv, ApartInv
        <3>3. u # t
            BY <1>2, <3>2
        <3>4. token[u].family # f
            BY <1>2, <1>b, <2>2, <3>3 DEF SignInInv, TablesInv, OneLiveToken
        <3>5. token[u].family \in Logins
            BY DEF SignInInv, TablesInv, LoginInv
        <3>6. QED
            BY <1>8, <3>3, <3>4, <3>5
    <2>3. \A s \in Logins :
             /\ s \in Logins' /\ session'[s].account = session[s].account
             /\ session'[s].active => session[s].active
             /\ session'[s].token = session[s].token \/ session'[s].token \notin Tokens
        BY <1>4, <1>8
    <2>4. \A k \in Ids : k # ticket[x] =>
             /\ token[k] = NoRow => token'[k] = NoRow
             /\ session[k] = NoRow => session'[k] = NoRow
        BY <1>2, <1>8, <1>a DEF Tokens, Logins
    <2>5. QED
        BY <1>3, <1>8, <2>1, <2>2, <2>3, <2>4 DEF Grows, Accounts, Codes
<1>14. RoomInv'
    BY <1>3, <1>10, RoomKeeps
<1>15. Own(x)'
    <2>1. /\ Busy(x)' /\ ~Unissued(x)' /\ Route(x)' /\ AccountHeld(x)'
          /\ Presented(x)' /\ TokenHeld(x)' /\ Doomed(x)' /\ CodeHeld(x)' /\ Replayed(x)'
        BY <1>1, <1>2, <1>3, <1>9
        DEF Own, Busy, Unissued, Route, AccountHeld, Presented, TokenHeld, Doomed, CodeHeld, Replayed,
            Answers
    <2>2. QED
        BY <1>1, <1>3, <2>1 DEF Own
<1>16. QED
    BY <1>1, <1>7, <1>10, <1>11, <1>12, <1>13, <1>14, <1>15, StepKeeps, TypesLater

\* A replay ends every session that the account has, its login's among them.
LEMMA EndFamilyKeeps ==
    ASSUME SignInInv, NEW x \in Handlers, EndFamily(x)
    PROVE  SignInInv'
<1>1. TypedOwn /\ TypedBook /\ Typed /\ Own(x) /\ pc[x] = "trace" /\ Busy(x) /\ job[x].op = "refresh"
    BY Types DEF SignInInv, EndFamily, Busy, Answers
<1> DEFINE rows == {"token"} \X want[x]
           mine == ActiveOf(who[x])
<1>2. /\ \A row \in rows : Free(x, row)
      /\ hold' = [hold EXCEPT ![x] = @ \cup rows] /\ kill' = [kill EXCEPT ![x] = mine]
      /\ pc' = [pc EXCEPT ![x] = "kill"]
      /\ UNCHANGED <<account, token, session, codes, verdicts, job, ticket, pick, who, seen, want, jobs,
                     aborts>>
      /\ UNCHANGED book
    BY DEF EndFamily, Ended, Goto, book, tables
<1>3. hold'[x] = hold[x] \cup rows /\ kill'[x] = mine /\ pc'[x] = "kill"
    BY <1>1, <1>2 DEF TypedOwn
<1>4. want[x] \subseteq Tokens /\ want[x] \subseteq Ids /\ mine \subseteq Logins /\ mine \subseteq Ids
      /\ hold[x] \subseteq {"token"} \X Ids
    BY <1>1 DEF Own, Doomed, CodeHeld, ActiveOf, Tokens, Logins
<1>5. /\ pick[x] \in Tokens /\ token[pick[x]].family \in Logins
      /\ session[token[pick[x]].family].account = who[x]
      /\ \A t \in want[x] : token[t].family = token[pick[x]].family
    BY <1>1 DEF Own, Presented, Doomed, SignInInv, TablesInv, LoginInv
<1>6. \A s \in Logins : session[s].active /\ session[s].token \in want[x] => s \in mine
    <2>1. \A s \in Logins : token[session[s].token].family = s
        BY DEF SignInInv, TablesInv, LoginInv
    <2>2. QED
        BY <1>5, <2>1 DEF ActiveOf
<1>7. TypedOwn'
    BY <1>1, <1>2, <1>4 DEF TypedOwn, Places
<1>8. Moves(x) /\ ~Asking(x)'
    BY <1>1, <1>2, <1>3 DEF Moves, Alone, TypedOwn, Busy, Asking, Answers
<1>9. Own(x)'
    <2>1. /\ Busy(x)' /\ Route(x)' /\ AccountHeld(x)' /\ Presented(x)' /\ TokenHeld(x)' /\ CodeHeld(x)'
          /\ ~Unissued(x)'
        BY <1>1, <1>2, <1>3, <1>4
        DEF Own, Busy, Route, AccountHeld, Presented, TokenHeld, CodeHeld, Answers, Unissued
    <2>2. Doomed(x)'
        BY <1>2, <1>3, <1>4, <1>6 DEF Doomed, Tokens, Logins
    <2>3. Replayed(x)'
        <3>1. session[token[pick[x]].family].active => token[pick[x]].family \in mine
            BY <1>5 DEF ActiveOf
        <3>2. QED
            BY <1>2, <1>3, <1>5, <3>1 DEF Replayed, Tokens
    <2>4. QED
        BY <1>1, <1>2, <2>1, <2>2, <2>3 DEF Own
<1>10. Typed'
    BY <1>1, <1>2, <1>7, TypesKept
<1>11. QED
    BY <1>1, <1>2, <1>8, <1>9, <1>10, QuietKeeps

\* Tokens and sessions end together: no session that goes on has a token that does
\* not, and no token that is being rotated is among them.
LEMMA KillKeeps ==
    ASSUME SignInInv, NEW x \in Handlers, Kill(x)
    PROVE  SignInInv'
<1>1. TypedOwn /\ TypedBook /\ Typed /\ Own(x) /\ pc[x] = "kill" /\ Busy(x)
    BY Types DEF SignInInv, Kill, Busy, Answers
<1>2. /\ \A t \in want[x] : Free(x, <<"token", t>>)
      /\ token' = [t \in Ids |-> IF t \in want[x] THEN [token[t] EXCEPT !.revoked = TRUE] ELSE token[t]]
      /\ session' = [s \in Ids |-> IF s \in kill[x] THEN [session[s] EXCEPT !.active = FALSE]
                                                    ELSE session[s]]
      /\ IF job[x].op = "reset"
         THEN /\ Goto(x, "issue")
              /\ want' = [want EXCEPT ![x] = {}] /\ kill' = [kill EXCEPT ![x] = {}]
              /\ UNCHANGED <<job, ticket, pick, who, seen, hold, jobs, aborts>>
         ELSE Leave(x, IF job[x].op # "refresh" THEN "ok"
                       ELSE IF hold[x] # {} THEN "reused" ELSE "refused")
      /\ UNCHANGED <<account, codes, verdicts>>
    BY DEF Kill, KillSessions
<1>3. want[x] \subseteq Tokens /\ kill[x] \subseteq Logins
      /\ \A s \in Logins : session[s].active /\ session[s].token \in want[x] => s \in kill[x]
    BY <1>1 DEF Own, Doomed
<1>4. /\ \A t \in want[x] : t \in Ids /\ token[t] \in TokenRow
                            /\ token'[t] = [token[t] EXCEPT !.revoked = TRUE]
      /\ \A t \in Ids \ want[x] : token'[t] = token[t]
      /\ \A s \in kill[x] : s \in Ids /\ session[s] \in SessionRow
                            /\ session'[s] = [session[s] EXCEPT !.active = FALSE]
      /\ \A s \in Ids \ kill[x] : session'[s] = session[s]
    BY <1>1, <1>2, <1>3, Rows DEF Tokens, Logins
<1>5. /\ \A t \in want[x] : token'[t] \in TokenRow /\ token'[t] # NoRow /\ token'[t].revoked
                            /\ token'[t].family = token[t].family /\ token'[t].account = token[t].account
      /\ \A s \in kill[x] : session'[s] \in SessionRow /\ session'[s] # NoRow /\ ~session'[s].active
                            /\ session'[s].token = session[s].token
                            /\ session'[s].account = session[s].account
    <2>1. \A t \in want[x] : token'[t] \in TokenRow /\ token'[t].revoked
                            /\ token'[t].family = token[t].family /\ token'[t].account = token[t].account
        BY <1>4 DEF TokenRow
    <2>2. \A s \in kill[x] : session'[s] \in SessionRow /\ ~session'[s].active
                            /\ session'[s].token = session[s].token
                            /\ session'[s].account = session[s].account
        BY <1>4 DEF SessionRow
    <2>3. QED
        BY <2>1, <2>2, SignInAssumption
<1>6. TypedBook'
    <2>1. token' \in [Ids -> TokenRow \cup {NoRow}]
        BY <1>1, <1>2, <1>4, <1>5 DEF TypedBook
    <2>2. session' \in [Ids -> SessionRow \cup {NoRow}]
        BY <1>1, <1>2, <1>4, <1>5 DEF TypedBook
    <2>3. QED
        BY <1>1, <1>2, <2>1, <2>2 DEF TypedBook
<1>7. Tokens' = Tokens /\ Logins' = Logins /\ Codes' = Codes /\ Accounts' = Accounts
    <2>1. Tokens' = Tokens
        BY <1>3, <1>4, <1>5 DEF Tokens
    <2>2. Logins' = Logins
        BY <1>3, <1>4, <1>5 DEF Logins
    <2>3. QED
        BY <1>2, <2>1, <2>2 DEF Codes, Accounts
<1>8. /\ \A t \in Tokens : t \in Ids /\ token'[t].family = token[t].family
                           /\ token'[t].account = token[t].account
                           /\ (~token'[t].revoked => t \notin want[x])
      /\ \A s \in Logins : s \in Ids /\ session'[s].token = session[s].token
                           /\ session'[s].account = session[s].account
                           /\ (session'[s].active => session[s].active /\ s \notin kill[x])
    BY <1>4, <1>5 DEF Tokens, Logins
<1>9. jobs' = jobs
    BY <1>2 DEF Leave
<1>10. TablesInv'
    <2>1. OneLiveToken /\ ActiveIsUsable /\ LoginInv /\ CountInv
        BY DEF SignInInv, TablesInv
    <2>2. OneLiveToken'
        BY <1>4, <1>7, <1>8, <2>1 DEF OneLiveToken, Live
    <2>3. ActiveIsUsable'
        <3> SUFFICES ASSUME NEW s \in Logins, session'[s].active
                     PROVE  /\ ~token'[session'[s].token].revoked
                            /\ token'[session'[s].token].next = NoRow
                            /\ token'[session'[s].token].family = s
            BY <1>7 DEF ActiveIsUsable, Live
        <3>1. session'[s].token = session[s].token /\ session[s].active /\ s \notin kill[x]
              /\ session[s].token \in Tokens
            BY <1>8, <2>1 DEF LoginInv
        <3>2. session[s].token \in Ids \ want[x]
            BY <1>3, <1>8, <3>1
        <3>3. token'[session[s].token] = token[session[s].token]
            BY <1>4, <3>2
        <3>4. QED
            BY <2>1, <3>1, <3>3 DEF ActiveIsUsable, Live
    <2>4. LoginInv'
        <3>1. \A n \in Ids : n > jobs => token'[n] = NoRow /\ session'[n] = NoRow
            BY <1>3, <1>4, <2>1 DEF LoginInv, Tokens, Logins
        <3>2. \A t \in Tokens : token'[t].family \in Logins
                                /\ session'[token'[t].family].account = token'[t].account
            BY <1>8, <2>1 DEF LoginInv
        <3>3. \A s \in Logins : session'[s].token \in Tokens /\ token'[session'[s].token].family = s
            BY <1>8, <2>1 DEF LoginInv
        <3>4. QED
            BY <1>7, <1>9, <3>1, <3>2, <3>3 DEF LoginInv
    <2>5. CountInv'
        BY <1>2, <2>1 DEF CountInv, Codes
    <2>6. QED
        BY <2>2, <2>3, <2>4, <2>5 DEF TablesInv
<1>11. Grows(x)
    <2>1. \A t \in Tokens : Locked(x, <<"token", t>>) => t \in Ids \ want[x]
        BY <1>2, <1>8 DEF Locked, Free
    <2>2. \A t \in Tokens : token[t].family \in Logins
        BY DEF SignInInv, TablesInv, LoginInv
    <2>3. \A n \in Ids : /\ token[n] = NoRow => token'[n] = NoRow
                         /\ session[n] = NoRow => session'[n] = NoRow
        BY <1>7 DEF Tokens, Logins
    <2>4. QED
        BY <1>2, <1>4, <1>7, <1>8, <2>1, <2>2, <2>3 DEF Grows
<1>12. CASE job[x].op = "reset"
    <2>1. /\ pc' = [pc EXCEPT ![x] = "issue"]
          /\ want' = [want EXCEPT ![x] = {}] /\ kill' = [kill EXCEPT ![x] = {}]
          /\ UNCHANGED <<account, codes, verdicts, job, ticket, pick, who, seen, hold, jobs, aborts>>
        BY <1>2, <1>12 DEF Goto
    <2>2. pc'[x] = "issue"
        BY <1>1, <2>1 DEF TypedOwn
    <2>3. TypedOwn'
        BY <1>1, <2>1 DEF TypedOwn, Places
    <2>4. Moves(x) /\ ~Asking(x)'
        BY <1>1, <2>1, <2>2 DEF Moves, Alone, TypedOwn, Busy, Asking, Answers
    <2>5. RoomInv'
        BY <2>1, <2>4, RoomKeeps
    <2>6. Own(x)'
        <3>1. /\ Busy(x)' /\ Unissued(x)' /\ Unissued(x) /\ Route(x)' /\ AccountHeld(x)'
              /\ Presented(x)' /\ TokenHeld(x)' /\ Doomed(x)' /\ CodeHeld(x)' /\ Replayed(x)'
            BY <1>1, <1>7, <1>12, <2>1, <2>2
            DEF Own, Busy, Unissued, Route, AccountHeld, Presented, TokenHeld, Doomed, CodeHeld, Replayed,
                Answers
        <3>2. token'[ticket[x]] = NoRow /\ session'[ticket[x]] = NoRow /\ ticket[x] \in 1..jobs
            BY <1>1, <1>11, <1>7, <3>1 DEF Own, TypedOwn, Tokens, Logins
        <3>3. QED
            BY <1>1, <2>1, <3>1, <3>2 DEF Own
    <2>7. QED
        BY <1>1, <1>6, <1>10, <1>11, <2>3, <2>4, <2>5, <2>6, StepKeeps, TypesLater
<1>13. CASE job[x].op # "reset"
    <2> DEFINE a == IF job[x].op # "refresh" THEN "ok"
                    ELSE IF hold[x] # {} THEN "reused" ELSE "refused"
    <2>1. Finish(x, a) /\ jobs' = jobs /\ aborts' = aborts
        BY <1>2, <1>13 DEF Leave
    <2>2. a \in Answers
        BY DEF Answers
    <2>3. ASSUME a = "reused"
          PROVE  pick[x] \in Tokens' /\ ~session'[token'[pick[x]].family].active
        <3>1. job[x].op = "refresh" /\ hold[x] # {}
            BY <2>3
        <3>2. pick[x] \in Tokens /\ (session[token[pick[x]].family].active
                                       => token[pick[x]].family \in kill[x])
            BY <1>1, <3>1 DEF Own, Replayed
        <3>3. token[pick[x]].family \in Logins
            BY <3>2 DEF SignInInv, TablesInv, LoginInv
        <3>4. QED
            BY <1>5, <1>7, <1>8, <3>2, <3>3
    <2> HIDE DEF a
    <2>4. Moves(x) /\ ~Asking(x)' /\ Own(x)' /\ TypedOwn'
        BY <1>1, <2>1, <2>2, <2>3, Finished DEF TypedOwn
    <2>5. RoomInv'
        BY <1>2, <2>4, RoomKeeps
    <2>6. QED
        BY <1>1, <1>6, <1>10, <1>11, <2>4, <2>5, StepKeeps, TypesLater
<1>14. QED
    BY <1>12, <1>13

----------------------------------------------------------------------------
(* A request arrives, goes on, or is broken off.                            *)

\* A new request has a number of its own, and holds nothing.
LEMMA ArriveKeeps ==
    ASSUME SignInInv, NEW x \in Handlers, NEW j \in Jobs, NEW k \in Ids, Arrive(x, j, k)
    PROVE  SignInInv'
<1>1. TypedOwn /\ TypedBook /\ Typed /\ Own(x) /\ ~Busy(x) /\ jobs \in Nat /\ MaxJobs \in Nat
    <2>1. x \in Idle
        BY DEF Arrive
    <2>2. QED
        BY <2>1, Types, Rows DEF SignInInv, Busy, Idle
<1>2. /\ jobs < MaxJobs /\ Possible(j) /\ Presents(j, k) /\ jobs' = jobs + 1
      /\ job' = [job EXCEPT ![x] = j] /\ ticket' = [ticket EXCEPT ![x] = jobs + 1]
      /\ pick' = [pick EXCEPT ![x] = k] /\ pc' = [pc EXCEPT ![x] = "load"]
      /\ UNCHANGED <<account, token, session, codes, verdicts, who, seen, hold, want, kill, aborts>>
      /\ UNCHANGED book
    BY DEF Arrive, Goto, book, tables
<1>3. job'[x] = j /\ ticket'[x] = jobs + 1 /\ pick'[x] = k /\ pc'[x] = "load"
      /\ hold'[x] = hold[x] /\ hold[x] = {} /\ ticket[x] = 0 /\ jobs + 1 \in Ids
    BY <1>1, <1>2 DEF TypedOwn, Own, CodeHeld, Busy, Answers, Ids
<1>4. TypedOwn'
    BY <1>1, <1>2, <1>3 DEF TypedOwn, Places
<1>5. Alone(x)
    BY <1>1, <1>2 DEF Alone, TypedOwn
<1>6. \A y \in Handlers : Busy(y) => ticket[y] \in 1..jobs
    BY DEF SignInInv, Own
<1>7. Grows(x)
    BY <1>2 DEF Grows, Accounts, Tokens, Logins, Codes
<1>8. ASSUME NEW y \in Handlers, y # x
      PROVE  Own(y)'
    <2>1. Busy(y) => ticket[x] # ticket[y]
        BY <1>1, <1>3, <1>6, <1>8
    <2>2. jobs' \in Nat /\ jobs' >= jobs
        BY <1>1, <1>2
    <2>3. Typed'
        BY <1>1, <1>2, <1>4, TypesKept
    <2>4. QED
        BY <1>5, <1>7, <1>8, <2>1, <2>2, <2>3, OthersKeep
<1>9. Own(x)'
    <2>1. token[jobs + 1] = NoRow /\ session[jobs + 1] = NoRow
        BY <1>1, <1>3 DEF SignInInv, TablesInv, LoginInv
    <2>2. Busy(x)' /\ Route(x)' /\ TokenHeld(x)' /\ Doomed(x)' /\ CodeHeld(x)' /\ Replayed(x)'
        BY <1>3 DEF Busy, Route, TokenHeld, Doomed, CodeHeld, Replayed, Answers
    <2>3. AccountHeld(x)'
        BY <1>2, <1>3 DEF Possible, AccountHeld, Accounts
    <2>4. Presented(x)'
        BY <1>2, <1>3 DEF Presents, Presented, Tokens, Logins
    <2>5. QED
        BY <1>1, <1>2, <1>3, <2>1, <2>2, <2>3, <2>4 DEF Own
<1>10. ApartInv'
    <2>1. \A y \in Handlers \ {x} : Busy(y)' => Busy(y) /\ ticket'[y] = ticket[y]
        BY <1>5 DEF Alone, Busy
    <2>2. \A y \in Handlers : hold'[y] = hold[y]
        BY <1>2
    <2>3. \A y \in Handlers \ {x} : Busy(y)' => ticket'[y] # ticket'[x]
        BY <1>1, <1>3, <1>6, <2>1
    <2>4. QED
        BY <2>1, <2>2, <2>3 DEF SignInInv, ApartInv
<1>11. RoomInv'
    <2>1. IsFiniteSet(1..jobs) /\ Askers \subseteq 1..jobs
        BY <1>1, FS_Interval DEF Askers
    <2>2. IsFiniteSet(Askers) /\ Cardinality(Askers) \in Nat
        BY <2>1, FS_Subset, FS_CardinalityType
    <2>3. jobs + 1 \notin Askers
        BY <1>1, <2>1
    <2>4. IsFiniteSet(Askers \cup {jobs + 1})
          /\ Cardinality(Askers \cup {jobs + 1}) = Cardinality(Askers) + 1
        BY <2>2, <2>3, FS_AddElement
    <2>5. Askers' \subseteq Askers \cup {jobs + 1}
        <3>1. \A y \in Handlers \ {x} : Asking(y)' => Asking(y) /\ ticket'[y] = ticket[y]
            BY <1>5 DEF Alone, Asking
        <3>2. SUFFICES ASSUME NEW m \in 1..(jobs + 1), NEW y \in Handlers, Asking(y)', ticket'[y] = m,
                              m # jobs + 1
                       PROVE  m \in Askers
            BY <1>2 DEF Askers
        <3>3. y # x
            BY <1>3, <3>2
        <3>4. m \in 1..jobs
            BY <1>1, <3>2
        <3>5. QED
            BY <3>1, <3>2, <3>3, <3>4 DEF Askers
    <2>6. Cardinality(Askers') \in Nat /\ Cardinality(Askers') <= Cardinality(Askers) + 1
        BY <2>4, <2>5, FS_Subset, FS_CardinalityType
    <2>7. Len(codes) + Cardinality(Askers) <= jobs /\ Len(codes) \in Nat
        BY <1>1, Rows DEF SignInInv, RoomInv
    <2>8. Len(codes) + Cardinality(Askers') <= jobs + 1
        BY <1>1, <2>2, <2>6, <2>7
    <2>9. QED
        BY <1>2, <2>8 DEF RoomInv
<1>12. TablesInv'
    <2>1. \A n \in Ids : n > jobs + 1 => n > jobs
        BY <1>1 DEF Ids
    <2>2. QED
        BY <1>2, <2>1 DEF SignInInv, TablesInv, OneLiveToken, ActiveIsUsable, LoginInv, CountInv, Live,
            Tokens, Logins, Codes
<1>13. QED
    BY <1>1, <1>2, <1>4, <1>8, <1>9, <1>10, <1>11, <1>12, TypesKept DEF SignInInv

\* A request that is broken off has committed what it had.
LEMMA AbortKeeps ==
    ASSUME SignInInv, NEW x \in Handlers, Abort(x)
    PROVE  SignInInv'
<1>1. Finish(x, "error") /\ jobs' = jobs /\ UNCHANGED book /\ Busy(x) /\ TypedOwn /\ Typed
    BY Types DEF Abort, Busy, Answers, SignInInv
<1>2. aborts' \in 0..MaxAborts
    BY <1>1, SignInAssumption DEF Abort, TypedOwn
<1>3. Moves(x) /\ ~Asking(x)' /\ Own(x)' /\ TypedOwn'
    BY <1>1, <1>2, Finished DEF Answers
<1>4. QED
    BY <1>1, <1>3, QuietKeeps, TypesKept

\* The endpoints that look an account up and go on for it, or refuse.
LEMMA LoadKeeps ==
    ASSUME SignInInv, NEW x \in Handlers,
           \/ Deny(x) \/ Register(x) \/ RegisterPlatformStaff(x)
           \/ RequestOTP(x) \/ RequestEmailOTP(x) \/ PasswordResetRequest(x)
           \/ RequestPhoneChange(x) \/ RequestEmailChange(x)
           \/ VerifyOTPEndpoint(x) \/ VerifyEmailOTPEndpoint(x) \/ LoadReset(x)
           \/ VerifyPhoneChange(x) \/ VerifyEmailChange(x)
           \/ LoginPassword(x) \/ LoginPlatformStaff(x)
           \/ SwitchBusinessContext(x) \/ SwitchStoreContext(x)
    PROVE  SignInInv'
<1>1. pc[x] = "load" /\ Busy(x)
    BY DEF Deny, Register, RegisterPlatformStaff, RequestOTP, RequestEmailOTP, Provision,
        PasswordResetRequest, RequestPhoneChange, RequestEmailChange, AskChange, VerifyOTPEndpoint,
        VerifyEmailOTPEndpoint, LoadVerify, LoadReset, VerifyPhoneChange, VerifyEmailChange, LoadChange,
        LoginPassword, LoginPlatformStaff, SwitchBusinessContext, SwitchStoreContext, Loading, Busy,
        Answers
<1>2. job[x].op \in AdminOps \cup ClaimOps => job[x].who \in Accounts
    BY <1>1 DEF SignInInv, Own, AccountHeld
<1>3. \A channel, name : Holders(channel, name) \subseteq Accounts
    BY DEF Holders
<1>4. \/ \E a \in {"ok", "refused", "error"} : Fails(x, a)
      \/ To(x, "insert") /\ job[x].op \in {"register", "staff", "ask"}
      \/ \E a \in Accounts : For(x, a, "mark") /\ job[x].op \in AskOps
      \/ \E a \in Accounts : For(x, a, "lock") /\ job[x].op \in CodeOps
      \/ \E a \in Accounts : For(x, a, "issue") /\ job[x].op # "refresh"
    <2>1. CASE Deny(x) \/ Register(x) \/ RegisterPlatformStaff(x)
        BY <2>1 DEF Deny, Register, RegisterPlatformStaff, Loading
    <2>2. CASE RequestOTP(x) \/ RequestEmailOTP(x) \/ PasswordResetRequest(x)
        BY <1>3, <2>2 DEF RequestOTP, RequestEmailOTP, Provision, PasswordResetRequest, Loading, AskOps
    <2>3. CASE RequestPhoneChange(x) \/ RequestEmailChange(x)
        BY <1>2, <2>3 DEF RequestPhoneChange, RequestEmailChange, AskChange, Loading, AskOps, ClaimOps
    <2>4. CASE VerifyOTPEndpoint(x) \/ VerifyEmailOTPEndpoint(x) \/ LoadReset(x)
        BY <1>3, <2>4 DEF VerifyOTPEndpoint, VerifyEmailOTPEndpoint, LoadVerify, LoadReset, Loading, CodeOps
    <2>5. CASE VerifyPhoneChange(x) \/ VerifyEmailChange(x)
        BY <1>2, <2>5 DEF VerifyPhoneChange, VerifyEmailChange, LoadChange, Loading, CodeOps, ClaimOps
    <2>6. CASE LoginPassword(x) \/ LoginPlatformStaff(x)
        BY <1>3, <2>6 DEF LoginPassword, LoginPlatformStaff, Loading
    <2>7. CASE SwitchBusinessContext(x) \/ SwitchStoreContext(x)
        BY <1>2, <2>7 DEF SwitchBusinessContext, SwitchStoreContext, Loading, ClaimOps
    <2>8. QED
        BY <2>1, <2>2, <2>3, <2>4, <2>5, <2>6, <2>7
<1>5. QED
    BY <1>1, <1>4, FailsKeeps, ToKeeps, ForKeeps

\* The endpoints that end sessions read what they are going to end.
LEMMA RevokeKeeps ==
    ASSUME SignInInv, NEW x \in Handlers,
           RevokeAllSessionsForUser(x) \/ Logout(x) \/ RevokeRefreshToken(x) \/ DeleteSession(x)
    PROVE  SignInInv'
<1>1. /\ Own(x)
      /\ \A s \in Logins : session[s].token \in Tokens /\ token[session[s].token].family = s
    BY DEF SignInInv, TablesInv, LoginInv
<1>2. CASE RevokeAllSessionsForUser(x)
    <2> DEFINE mine == ActiveOf(who[x])
               theirs == {session[s].token : s \in mine}
    <2>1. pc[x] = "sweep" /\ Doom(x, "kill", theirs, mine)
        BY <1>2 DEF RevokeAllSessionsForUser
    <2>2. mine \in SUBSET Logins
        BY DEF ActiveOf
    <2>3. theirs \in SUBSET Tokens
        BY <1>1, <2>2
    <2>4. \A s \in Logins : session[s].active /\ session[s].token \in theirs => s \in mine
        BY <1>1, <2>2
    <2> HIDE DEF mine, theirs
    <2>5. QED
        BY <2>1, <2>2, <2>3, <2>4, DoomKeeps
<1>3. CASE Logout(x)
    <2>1. pc[x] = "load" /\ job[x].op = "logout" /\ Busy(x)
        BY <1>3 DEF Logout, Loading, Busy, Answers
    <2>2. CASE token[pick[x]].account # job[x].who
        BY <1>3, <2>1, <2>2, FailsKeeps DEF Logout
    <2>3. CASE token[pick[x]].account = job[x].who
        <3>1. pick[x] \in Tokens
            BY <1>1, <2>1 DEF Own, Presented
        <3>2. Doom(x, "trace", {pick[x]}, {})
            BY <1>3, <2>3 DEF Logout
        <3>3. QED
            BY <2>1, <3>1, <3>2, DoomKeeps
    <2>4. QED
        BY <2>2, <2>3
<1>4. CASE RevokeRefreshToken(x)
    <2>1. pc[x] = "trace" /\ job[x].op = "logout" /\ Busy(x)
          /\ Doom(x, "kill", want[x], SessionsAt(pick[x]))
        BY <1>4 DEF RevokeRefreshToken, Busy, Answers
    <2>2. want[x] = {pick[x]} /\ want[x] \in SUBSET Tokens
        BY <1>1, <2>1 DEF Own, Doomed
    <2>3. SessionsAt(pick[x]) \in SUBSET Logins
          /\ \A s \in Logins : session[s].active /\ session[s].token \in want[x] => s \in SessionsAt(pick[x])
        BY <2>2 DEF SessionsAt
    <2>4. QED
        BY <2>1, <2>2, <2>3, DoomKeeps
<1>5. CASE DeleteSession(x)
    <2>1. pc[x] = "load" /\ job[x].op = "revoke" /\ Busy(x)
        BY <1>5 DEF DeleteSession, Loading, Busy, Answers
    <2>2. CASE session[pick[x]].account # job[x].who
        BY <1>5, <2>1, <2>2, FailsKeeps DEF DeleteSession
    <2>3. CASE session[pick[x]].account = job[x].who
        <3>1. pick[x] \in Logins
            BY <1>1, <2>1 DEF Own, Presented
        <3>2. Doom(x, "kill", {session[pick[x]].token}, {pick[x]})
            BY <1>5, <2>3 DEF DeleteSession
        <3>3. {session[pick[x]].token} \in SUBSET Tokens
              /\ \A s \in Logins : session[s].token \in {session[pick[x]].token} => s \in {pick[x]}
            BY <1>1, <3>1
        <3>4. QED
            BY <2>1, <3>1, <3>2, <3>3, DoomKeeps
    <2>4. QED
        BY <2>2, <2>3
<1>6. QED
    BY <1>2, <1>3, <1>4, <1>5

\* Answers, and the places between two reads.
LEMMA GoesOnKeeps ==
    ASSUME SignInInv, NEW x \in Handlers,
           AdminAnswer(x) \/ SendCode(x) \/ Recheck(x) \/ CheckAccount(x)
             \/ UpdateUser(x) \/ DeactivateUser(x) \/ ReactivateUser(x)
    PROVE  SignInInv'
<1>1. CASE AdminAnswer(x) \/ SendCode(x)
    <2>1. Busy(x) /\ \E a \in {"ok", "refused", "error"} : Fails(x, a)
        BY <1>1 DEF AdminAnswer, SendCode, Busy, Answers
    <2>2. QED
        BY <2>1, FailsKeeps
<1>2. CASE Recheck(x)
    <2>1. Busy(x) /\ pc[x] = "recheck" /\ (Fails(x, "refused") \/ To(x, "write"))
        BY <1>2 DEF Recheck, Busy, Answers
    <2>2. QED
        BY <2>1, FailsKeeps, ToKeeps
<1>3. CASE CheckAccount(x)
    <2>1. Busy(x) /\ pc[x] = "check" /\ job[x].op = "refresh" /\ (Fails(x, "ok") \/ To(x, "sweep"))
        BY <1>3 DEF CheckAccount, Busy, Answers
    <2>2. QED
        BY <2>1, FailsKeeps, ToKeeps
<1>4. CASE UpdateUser(x) \/ DeactivateUser(x) \/ ReactivateUser(x)
    <2>1. /\ Busy(x) /\ pc[x] = "load" /\ job[x].op \in AdminOps
          /\ SetAccount(x, "sweep") \/ SetAccount(x, "check") \/ Fails(x, "refused")
        BY <1>4 DEF UpdateUser, DeactivateUser, ReactivateUser, Loading, AdminOps, Busy, Answers
    <2>2. QED
        BY <2>1, SetAccountKeeps, FailsKeeps
<1>5. QED
    BY <1>1, <1>2, <1>3, <1>4

\* Every action of a request keeps the invariant.
LEMMA StepsKeep ==
    ASSUME SignInInv, NEW x \in Handlers, Step(x)
    PROVE  SignInInv'
BY LoadKeeps, RevokeKeeps, GoesOnKeeps, InsertAccountKeeps, MarkCodesKeeps, StoreCodeKeeps,
    LockCodeKeeps, JudgeCodeKeeps, WelcomeKeeps, SetPasswordKeeps, RenameKeeps, IssueKeeps,
    LockTokenKeeps, RotateKeeps, EndFamilyKeeps, KillKeeps
DEF Step, GenerateAndStoreOTP, VerifyOTP, PasswordResetConfirm, ConsumeIdentifierChange, Refresh,
    RotateRefreshToken

\* Every step keeps the invariant.
LEMMA NextKeeps ==
    ASSUME SignInInv, [Next]_vars
    PROVE  SignInInv'
<1>1. CASE UNCHANGED vars
    <2>1. UNCHANGED <<account, token, session, codes, verdicts, pc, job, ticket, pick, who, seen, hold,
                      want, kill, jobs, aborts>>
        BY <1>1 DEF vars, book, tables, own
    <2>2. Typed' /\ TablesInv' /\ RoomInv' /\ ApartInv'
        BY <2>1 DEF SignInInv, Typed, TypeOK, TablesInv, OneLiveToken, ActiveIsUsable, LoginInv, CountInv,
            Live, Tokens, Logins, Codes, RoomInv, Askers, Asking, ApartInv, Busy
    <2>3. \A x \in Handlers : Own(x)'
        BY <2>1 DEF SignInInv, Own, Busy, Unissued, Route, AccountHeld, Presented, TokenHeld, Doomed,
            CodeHeld, Replayed, Live, Accounts, Tokens, Logins, Codes
    <2>4. QED
        BY <2>2, <2>3 DEF SignInInv
<1>2. CASE Rest
    BY <1>1, <1>2 DEF Rest
<1>3. CASE \E x \in Handlers : (\E j \in Jobs, k \in Ids : Arrive(x, j, k)) \/ Step(x) \/ Abort(x)
    BY <1>3, ArriveKeeps, StepsKeep, AbortKeeps
<1>4. QED
    BY <1>1, <1>2, <1>3 DEF Next

----------------------------------------------------------------------------
(* Theorems.                                                                *)

\* The invariant holds at the start.
LEMMA InitHolds == Init => SignInInv
<1> SUFFICES ASSUME Init
             PROVE  SignInInv
    OBVIOUS
<1> USE DEF Init
<1>1. MaxJobs \in Nat /\ 0 \in Ids /\ 0 \in 0..MaxAborts /\ MaxAttempts \in Nat
    BY SignInAssumption DEF Ids
<1>2. TypedOwn
    BY <1>1, SignInAssumption DEF TypedOwn, Places
<1> DEFINE tok == [account |-> 0, family |-> 0, revoked |-> FALSE, next |-> NoRow]
           ses == [account |-> 0, token |-> 0, active |-> TRUE]
<1>3. tok \in TokenRow /\ ses \in SessionRow /\ Founder \in AccountRow
    BY <1>1, SignInAssumption DEF TokenRow, SessionRow
<1>4. tok.account = 0 /\ tok.family = 0 /\ ~tok.revoked /\ tok.next = NoRow
      /\ ses.account = 0 /\ ses.token = 0 /\ ses.active
    OBVIOUS
<1>5. /\ account = [n \in Ids |-> IF n = 0 THEN Founder ELSE NoRow]
      /\ token = [n \in Ids |-> IF n = 0 THEN tok ELSE NoRow]
      /\ session = [n \in Ids |-> IF n = 0 THEN ses ELSE NoRow]
    BY <1>1 DEF NoRows
<1> HIDE DEF tok, ses
<1>6. tok # NoRow /\ ses # NoRow
    BY <1>3, SignInAssumption
<1>7. TypedBook
    <2>1. /\ account \in [Ids -> AccountRow \cup {NoRow}]
          /\ token \in [Ids -> TokenRow \cup {NoRow}]
          /\ session \in [Ids -> SessionRow \cup {NoRow}]
        BY <1>3, <1>5
    <2>2. /\ codes \in Seq(CodeRow) /\ verdicts \in Seq([right : Nat, wrong : Nat])
          /\ Len(codes) = 0 /\ Len(verdicts) = 0
        OBVIOUS
    <2>3. QED
        BY <1>1, <2>1, <2>2 DEF TypedBook
<1>8. Tokens = {0} /\ Logins = {0} /\ token[0] = tok /\ session[0] = ses /\ Codes = {}
    <2>1. token[0] = tok /\ session[0] = ses
        BY <1>1, <1>5
    <2>2. Tokens = {0}
        BY <1>1, <1>5, <1>6 DEF Tokens
    <2>3. Logins = {0}
        BY <1>1, <1>5, <1>6 DEF Logins
    <2>4. Codes = {}
        BY DEF Codes
    <2>5. QED
        BY <2>1, <2>2, <2>3, <2>4
<1>9. OneLiveToken /\ ActiveIsUsable
    BY <1>4, <1>8 DEF OneLiveToken, ActiveIsUsable, Live
<1>10. LoginInv /\ CountInv
    BY <1>1, <1>4, <1>5, <1>8 DEF LoginInv, CountInv
<1>11. RoomInv
    <2>1. Askers = {}
        BY DEF Askers
    <2>2. Cardinality(Askers) = 0 /\ Len(codes) = 0
        BY <2>1, FS_EmptySet
    <2>3. QED
        BY <2>2 DEF RoomInv
<1>12. ApartInv /\ \A x \in Handlers : Own(x)
    BY DEF ApartInv, Busy, Own, CodeHeld, Replayed
<1>13. QED
    BY <1>2, <1>7, <1>9, <1>10, <1>11, <1>12, Types DEF SignInInv, TablesInv

\* The inductive invariant: what every request relies on is so, whatever the
\* other requests have done since it read it.
THEOREM SignInInvariant == Spec => []SignInInv
<1>1. SignInInv /\ [Next]_vars => SignInInv'
    BY NextKeeps
<1>2. QED
    BY InitHolds, <1>1, PTL DEF Spec

\* The tables are what their readers take for granted: the types, one token of a
\* login that can be exchanged (rotation does not fork), and for a session that
\* is listed as active that one.
THEOREM TablesAreConsistent == Spec => []TablesConsistent
<1>1. SignInInv => TablesConsistent
    BY DEF SignInInv, Typed, TablesInv, TablesConsistent
<1>2. QED
    BY <1>1, SignInInvariant, PTL

\* Who is told that a refresh token was used before finds its login ended,
\* though the token was exchanged many times since.
THEOREM ReuseIsTheEnd == Spec => []ReuseEndsTheLogin
<1>1. SignInInv => ReuseEndsTheLogin
    BY DEF SignInInv, Own, Replayed, ReuseEndsTheLogin
<1>2. QED
    BY <1>1, SignInInvariant, PTL

\* A code opens one thing at most, and its attempts are the wrong answers it
\* gave, though several requests present it at a time.
THEOREM EveryCodeIsCounted == Spec => []CodesAreCounted
<1>1. SignInInv => CodesAreCounted
    <2> SUFFICES ASSUME SignInInv, NEW c \in Codes
                 PROVE  verdicts[c].right <= 1 /\ codes[c].attempts = verdicts[c].wrong
        BY DEF CodesAreCounted
    <2>1. verdicts[c].right \in Nat
        BY Rows DEF SignInInv
    <2>2. QED
        BY <2>1 DEF SignInInv, TablesInv, CountInv
<1>2. QED
    BY <1>1, SignInInvariant, PTL

\* The actions that write the sessions' table.
LEMMA SessionWriters ==
    ASSUME [Next]_vars
    PROVE  \/ UNCHANGED session
           \/ \E x \in Handlers : IssueLoginSession(x) \/ Rotate(x) \/ Kill(x)
<1>1. CASE UNCHANGED vars
    BY <1>1 DEF vars, book, tables
<1>2. CASE Rest
    BY <1>2 DEF Rest, vars, book, tables
<1>3. ASSUME NEW x \in Handlers, (\E j \in Jobs, k \in Ids : Arrive(x, j, k)) \/ Abort(x)
      PROVE  UNCHANGED session
    BY <1>3 DEF Arrive, Abort, book, tables
<1>4. ASSUME NEW x \in Handlers, Step(x)
      PROVE  UNCHANGED session \/ IssueLoginSession(x) \/ Rotate(x) \/ Kill(x)
    <2> USE DEF Fails, To, For, book, tables
    <2>1. CASE Deny(x) \/ Register(x) \/ RegisterPlatformStaff(x) \/ InsertAccount(x)
        BY <2>1 DEF Deny, Register, RegisterPlatformStaff, InsertAccount, Wrote
    <2>2. CASE UpdateUser(x) \/ DeactivateUser(x) \/ ReactivateUser(x) \/ AdminAnswer(x)
        BY <2>2 DEF UpdateUser, DeactivateUser, ReactivateUser, AdminAnswer, SetAccount, Wrote
    <2>3. CASE RequestOTP(x) \/ RequestEmailOTP(x) \/ PasswordResetRequest(x)
        BY <2>3 DEF RequestOTP, RequestEmailOTP, Provision, PasswordResetRequest
    <2>4. CASE RequestPhoneChange(x) \/ RequestEmailChange(x)
        BY <2>4 DEF RequestPhoneChange, RequestEmailChange, AskChange
    <2>5. CASE GenerateAndStoreOTP(x) \/ SendCode(x)
        BY <2>5 DEF GenerateAndStoreOTP, MarkCodes, StoreCode, SendCode
    <2>6. CASE VerifyOTPEndpoint(x) \/ VerifyEmailOTPEndpoint(x) \/ VerifyOTP(x) \/ Welcome(x)
        BY <2>6 DEF VerifyOTPEndpoint, VerifyEmailOTPEndpoint, LoadVerify, VerifyOTP, LockCode,
            JudgeCode, Welcome, Wrote
    <2>7. CASE PasswordResetConfirm(x)
        BY <2>7 DEF PasswordResetConfirm, LoadReset, SetPassword, Wrote
    <2>8. CASE VerifyPhoneChange(x) \/ VerifyEmailChange(x) \/ ConsumeIdentifierChange(x)
        BY <2>8 DEF VerifyPhoneChange, VerifyEmailChange, LoadChange, ConsumeIdentifierChange, Recheck,
            Rename, Wrote
    <2>9. CASE LoginPassword(x) \/ LoginPlatformStaff(x) \/ SwitchBusinessContext(x)
               \/ SwitchStoreContext(x)
        BY <2>9 DEF LoginPassword, LoginPlatformStaff, SwitchBusinessContext, SwitchStoreContext
    <2>10. CASE LockToken(x) \/ EndFamily(x) \/ CheckAccount(x)
        BY <2>10 DEF LockToken, EndFamily, CheckAccount
    <2>11. CASE RevokeAllSessionsForUser(x) \/ Logout(x) \/ RevokeRefreshToken(x) \/ DeleteSession(x)
        BY <2>11 DEF RevokeAllSessionsForUser, Logout, RevokeRefreshToken, DeleteSession, Doom
    <2>12. QED
        BY <1>4, <2>1, <2>2, <2>3, <2>4, <2>5, <2>6, <2>7, <2>8, <2>9, <2>10, <2>11
        DEF Step, Refresh, RotateRefreshToken
<1>5. QED
    BY <1>1, <1>2, <1>3, <1>4 DEF Next

\* A session that was ended stays ended, whatever rotation was under way: a
\* rotation keeps the flag that it finds in the row.
THEOREM EndedForGood == Spec => EndedStaysEnded
<1>1. SignInInv /\ [Next]_vars
        => [\A s \in Logins : ~session[s].active => ~session'[s].active]_vars
    <2> SUFFICES ASSUME SignInInv, [Next]_vars, NEW s \in Logins, ~session[s].active
                 PROVE  ~session'[s].active
        OBVIOUS
    <2>1. Typed /\ TypedOwn /\ TypedBook /\ s \in Ids /\ session[s] \in SessionRow
        BY Rows, Types DEF SignInInv
    <2>2. ASSUME NEW x \in Handlers, IssueLoginSession(x)
          PROVE  ~session'[s].active
        <3>1. pc[x] = "issue" /\ session[ticket[x]] = NoRow /\ ticket[x] \in Ids
            BY <2>1, <2>2 DEF IssueLoginSession, SignInInv, Own, Busy, Answers, Unissued, TypedOwn
        <3>2. s # ticket[x]
            BY <3>1 DEF Logins
        <3>3. session'[s] = session[s]
            BY <2>1, <2>2, <3>2 DEF IssueLoginSession, TypedBook
        <3>4. QED
            BY <3>3
    <2>3. ASSUME NEW x \in Handlers, Rotate(x)
          PROVE  ~session'[s].active
        BY <2>1, <2>3 DEF Rotate, Moved, SessionRow
    <2>4. ASSUME NEW x \in Handlers, Kill(x)
          PROVE  ~session'[s].active
        BY <2>1, <2>4 DEF Kill, KillSessions, SessionRow
    <2>5. QED
        BY <2>2, <2>3, <2>4, SessionWriters
<1>2. QED
    BY <1>1, SignInInvariant, PTL DEF Spec, EndedStaysEnded
=============================================================================
