--------------------------- MODULE AccountsProofs ---------------------------
(***************************************************************************)
(* Proofs about Accounts, for any number of clients, addresses, accounts   *)
(* and edits, and any token lifetime: the tables stay whole, a claim is    *)
(* out of date for TTL at most, and the routes implement the registry.     *)
(***************************************************************************)
EXTENDS AccountsRequirements, TLAPS

\* Identifiers are handed out in order and name one row; an owner's account and
\* organisation are made together and share theirs.
Numbered ==
    /\ \A u \in users : u.id <= minted /\ u.org = u.id
    /\ \A o \in orgs : o.id <= minted
    /\ \A u, v \in users : u.id = v.id => u = v
    /\ \A o, p \in orgs : o.id = p.id => o = p

Tables ==
    /\ users \subseteq Rows
    /\ orgs \subseteq [id : Ids, plan : Plans]
    /\ minted \in 0 .. MaxAccounts
    /\ Numbered /\ OneAccountPerEmail /\ NoOrphans

Signups == [at : {"signup"}, email : Emails, password : Passwords, plan : Plans]
Logins == [at : {"login"}, id : Ids, password : Passwords, rehash : BOOLEAN]
Refreshes == [at : {"refresh"}, id : Ids]
Sessions == [at : {"session"}, user : Rows]

Requested ==
    request \in [Clients -> {Idle} \union Signups \union Logins \union Refreshes \union Sessions]

\* A request on its way to a session found the account enabled, or the account
\* was disabled since, in the tick the request runs in.
Admitted == \A c \in Clients : request[c].at \in {"login", "refresh"} =>
                \A u \in WithId(request[c].id) : u.active \/ changed[u.id] = now

\* What a request read of a user's row is what the row still says, of an enabled
\* account, or an administrator touched the account in the tick it runs in.
Vouched(u) == \/ changed[u.id] = now
              \/ \E v \in users : v.id = u.id /\ v.active /\ v.role = u.role /\ v.org = u.org

Fresh == \A c \in Clients : request[c].at = "session" => Vouched(request[c].user)

Dated ==
    /\ now \in Nat /\ changed \in [Ids -> Nat] /\ edits \in Nat
    /\ \A i \in Ids : changed[i] <= now
    /\ token \in [Clients -> Tokens \union {None}]
    /\ \A c \in Clients : token[c] # None => token[c].exp <= now + TTL

AccountsInv == Tables /\ Requested /\ Admitted /\ Fresh /\ Dated /\ StaleAtMostTTL

-----------------------------------------------------------------------------
PlansRead == \A u \in users : /\ \A o \in orgs : o.id = u.org => PlanOf(u) = o.plan
                              /\ PlanOf(u) \in Plans

\* The plan a token is given is the plan of the one org its user belongs to.
LEMMA PlanIsItsOrgs == Tables => PlansRead
PROOF
  <1> SUFFICES ASSUME Tables, NEW u \in users
               PROVE  /\ \A o \in orgs : o.id = u.org => PlanOf(u) = o.plan
                      /\ PlanOf(u) \in Plans
    BY DEF PlansRead
  <1> DEFINE its == CHOOSE o \in orgs : o.id = u.org
  <1>1. \E o \in orgs : o.id = u.org
    BY DEF Tables, NoOrphans
  <1>2. its \in orgs /\ its.id = u.org
    BY <1>1
  <1>3. \A o \in orgs : o.id = u.org => o = its
    BY <1>2 DEF Tables, Numbered
  <1>4. PlanOf(u) = its.plan
    BY DEF PlanOf
  <1> HIDE DEF its
  <1> QED BY <1>1, <1>2, <1>3, <1>4 DEF Tables

\* A step that rewrites rows in place keeps what names them.
Rewritten ==
    /\ users' \subseteq Rows
    /\ \A v \in users' : \E u \in users : v.id = u.id /\ v.org = u.org /\ v.email = u.email
    /\ \A u \in users : \E v \in users' : v.id = u.id /\ v.org = u.org /\ v.email = u.email
    /\ \A u, v \in users' : u.id = v.id => u = v

\* Rewriting columns that are not keys leaves the tables consistent.
LEMMA RowsRewritten ==
    ASSUME Tables, Rewritten, UNCHANGED <<minted, orgs>>
    PROVE  Tables'
PROOF
  <1>1. Numbered'
    BY DEF Tables, Rewritten, Numbered
  <1>2. OneAccountPerEmail'
    BY DEF Tables, Rewritten, Numbered, OneAccountPerEmail
  <1>3. NoOrphans'
    BY DEF Tables, Rewritten, NoOrphans
  <1> QED BY <1>1, <1>2, <1>3 DEF Tables, Rewritten

\* One row replaced by one of the same name.
LEMMA RowReplaced ==
    ASSUME Tables, NEW u \in users, NEW v \in Rows,
           v.id = u.id, v.org = u.org, v.email = u.email,
           users' = (users \ {u}) \union {v}
    PROVE  Rewritten
PROOF
  <1>1. users' \subseteq Rows
    BY DEF Tables
  <1>2. \A x \in users' : \E y \in users : x.id = y.id /\ x.org = y.org /\ x.email = y.email
    OBVIOUS
  <1>3. \A y \in users : \E x \in users' : x.id = y.id /\ x.org = y.org /\ x.email = y.email
    OBVIOUS
  <1>4. \A x, y \in users' : x.id = y.id => x = y
    BY DEF Tables, Numbered
  <1> QED BY <1>1, <1>2, <1>3, <1>4 DEF Rewritten

\* A deployment with stronger hashing parameters is such a rewriting.
LEMMA HardenRewrites ==
    ASSUME Tables, Harden
    PROVE  Rewritten
PROOF
  <1>1. users' = {[u EXCEPT !.aged = TRUE] : u \in users} /\ UNCHANGED <<minted, orgs>>
    BY DEF Harden
  <1>2. \A u \in users : LET v == [u EXCEPT !.aged = TRUE] IN
           v \in Rows /\ v.id = u.id /\ v.org = u.org /\ v.email = u.email
    BY DEF Tables, Rows
  <1>3. /\ users' \subseteq Rows
        /\ \A v \in users' : \E u \in users : v.id = u.id /\ v.org = u.org /\ v.email = u.email
        /\ \A u \in users : \E v \in users' : v.id = u.id /\ v.org = u.org /\ v.email = u.email
    BY <1>1, <1>2
  <1>4. \A u, v \in users' : u.id = v.id => u = v
    <2> SUFFICES ASSUME NEW a \in users', NEW b \in users', a.id = b.id
                 PROVE  a = b
      OBVIOUS
    <2>1. PICK x \in users : a = [x EXCEPT !.aged = TRUE]
      BY <1>1
    <2>2. PICK y \in users : b = [y EXCEPT !.aged = TRUE]
      BY <1>1
    <2>3. x.id = y.id
      BY <1>2, <2>1, <2>2
    <2> QED BY <2>1, <2>2, <2>3 DEF Tables, Numbered
  <1> QED BY <1>3, <1>4 DEF Rewritten

\* The tables start empty, hence consistent.
LEMMA TablesInit == Init => Tables
BY AccountsAssumption DEF Init, Tables, Numbered, OneAccountPerEmail, NoOrphans

\* No step, a signup racing another included, breaks the tables.
LEMMA TablesStep == Tables /\ Requested /\ [Next]_vars => Tables'
PROOF
  <1> SUFFICES ASSUME Tables, Requested, [Next]_vars PROVE Tables'
    OBVIOUS
  <1>1. CASE UNCHANGED <<users, orgs, minted>>
    BY <1>1 DEF Tables, Numbered, OneAccountPerEmail, NoOrphans
  <1>2. ASSUME NEW c \in Clients, SignupCommit(c) PROVE Tables'
    <2> DEFINE r == request[c]
    <2>1. CASE UNCHANGED <<users, orgs, minted>>
      BY <2>1, <1>1
    <2>2. CASE /\ IndexAccepts(r.email) /\ minted < MaxAccounts /\ minted' = minted + 1
               /\ orgs' = orgs \union {[id |-> minted', plan |-> r.plan]}
               /\ users' = users \union
                    {[id |-> minted', email |-> r.email, org |-> minted', role |-> "owner",
                      active |-> TRUE, password |-> r.password, aged |-> FALSE]}
      <3>1. r.at = "signup" /\ r \in Signups
        BY <1>2 DEF SignupCommit, Requested, Idle, Signups, Logins, Refreshes, Sessions
      <3>2. r.email \in Emails /\ r.plan \in Plans /\ r.password \in Passwords
        BY <3>1 DEF Signups
      <3>3. minted \in Nat /\ minted' \in Ids /\ minted' \in 0 .. MaxAccounts
        BY <2>2, AccountsAssumption DEF Tables, Ids
      <3> DEFINE o == [id |-> minted', plan |-> r.plan]
                 u == [id |-> minted', email |-> r.email, org |-> minted', role |-> "owner",
                       active |-> TRUE, password |-> r.password, aged |-> FALSE]
      <3>4. u \in Rows /\ o \in [id : Ids, plan : Plans]
        BY <3>2, <3>3 DEF Rows, Roles
      <3>5. u.id = minted' /\ u.org = minted' /\ u.email = r.email /\ o.id = minted'
        OBVIOUS
      <3>6. users' = users \union {u} /\ orgs' = orgs \union {o}
        BY <2>2
      <3>7. \A v \in users : v.email # r.email
        BY <2>2 DEF IndexAccepts, WithEmail
      <3>8. /\ \A v \in users : v.id \in Nat /\ v.id <= minted /\ v.org = v.id
            /\ \A p \in orgs : p.id \in Nat /\ p.id <= minted
        BY DEF Tables, Numbered, Rows, Ids
      <3> HIDE DEF o, u, r
      <3>9. Numbered'
        <4>1. \A x \in users' : x.id <= minted' /\ x.org = x.id
          BY <2>2, <3>3, <3>5, <3>6, <3>8
        <4>2. \A x \in orgs' : x.id <= minted'
          BY <2>2, <3>3, <3>5, <3>6, <3>8
        <4>3. \A x, y \in users' : x.id = y.id => x = y
          BY <2>2, <3>3, <3>5, <3>6, <3>8 DEF Tables, Numbered
        <4>4. \A x, y \in orgs' : x.id = y.id => x = y
          BY <2>2, <3>3, <3>5, <3>6, <3>8 DEF Tables, Numbered
        <4> QED BY <4>1, <4>2, <4>3, <4>4 DEF Numbered
      <3>10. OneAccountPerEmail'
        BY <3>5, <3>6, <3>7 DEF Tables, OneAccountPerEmail
      <3>11. NoOrphans'
        BY <3>5, <3>6 DEF Tables, NoOrphans
      <3> QED BY <3>3, <3>4, <3>6, <3>9, <3>10, <3>11 DEF Tables
    <2> QED BY <1>2, <2>1, <2>2 DEF SignupCommit
  <1>3. ASSUME NEW c \in Clients, LoginCommit(c) PROVE Tables'
    <2> DEFINE r == request[c]
    <2>1. CASE users' = users
      BY <1>3, <2>1, <1>1 DEF LoginCommit
    <2>2. ASSUME NEW u \in WithId(r.id),
                 users' = (users \ {u}) \union
                   {IF r.rehash THEN [u EXCEPT !.password = r.password, !.aged = FALSE] ELSE u}
          PROVE  Tables'
      <3>1. r.at = "login" /\ r.password \in Passwords
        <4>1. r.at = "login"
          BY <1>3 DEF LoginCommit
        <4> QED BY <4>1 DEF Requested, Idle, Signups, Logins, Refreshes, Sessions
      <3>2. u \in users /\ u \in Rows
        BY <2>2 DEF WithId, Tables
      <3> DEFINE v == IF r.rehash THEN [u EXCEPT !.password = r.password, !.aged = FALSE] ELSE u
      <3>3. v \in Rows /\ v.id = u.id /\ v.org = u.org /\ v.email = u.email
        BY <3>1, <3>2 DEF Rows
      <3>4. users' = (users \ {u}) \union {v}
        BY <2>2
      <3> HIDE DEF v
      <3>5. Rewritten
        BY <3>2, <3>3, <3>4, RowReplaced
      <3> QED BY <3>5, <1>3, RowsRewritten DEF LoginCommit
    <2> QED BY <1>3, <2>1, <2>2 DEF LoginCommit
  <1>4. ASSUME NEW u \in users, NEW role \in Roles, NEW active \in BOOLEAN, Amend(u, role, active)
        PROVE  Tables'
    <2> DEFINE v == [u EXCEPT !.role = role, !.active = active]
    <2>1. v \in Rows /\ v.id = u.id /\ v.org = u.org /\ v.email = u.email
      BY DEF Tables, Rows
    <2>2. users' = (users \ {u}) \union {v}
      BY <1>4 DEF Amend
    <2> HIDE DEF v
    <2> QED BY <2>1, <2>2, <1>4, RowReplaced, RowsRewritten DEF Amend
  <1>5. ASSUME NEW o \in orgs, NEW plan \in Plans, ChangePlan(o, plan) PROVE Tables'
    <2> DEFINE p == [o EXCEPT !.plan = plan]
    <2>1. p \in [id : Ids, plan : Plans] /\ p.id = o.id
      BY DEF Tables
    <2>2. orgs' = (orgs \ {o}) \union {p} /\ users' = users /\ minted' = minted
      BY <1>5 DEF ChangePlan
    <2> HIDE DEF p
    <2>3. Numbered'
      BY <2>1, <2>2 DEF Tables, Numbered
    <2>4. NoOrphans'
      BY <2>1, <2>2 DEF Tables, NoOrphans
    <2> QED BY <2>1, <2>2, <2>3, <2>4 DEF Tables, OneAccountPerEmail
  <1>6. ASSUME NEW o \in orgs, Close(o) PROVE Tables'
    <2>1. /\ orgs' = orgs \ {o} /\ users' = {u \in users : u.org # o.id} /\ minted' = minted
      BY <1>6 DEF Close, Cascade
    <2>2. NoOrphans'
      BY <2>1 DEF Tables, NoOrphans, Numbered
    <2> QED BY <2>1, <2>2 DEF Tables, Numbered, OneAccountPerEmail
  <1>7. CASE Harden
    BY <1>7, HardenRewrites, RowsRewritten DEF Harden
  <1>8. CASE Administer
    BY <1>8, <1>4, <1>5, <1>6, <1>7 DEF Administer
  <1>9. ASSUME NEW c \in Clients,
               \/ \E s \in Spellings, p \in Passwords :
                     (\E size \in Sizes : SignupCheck(c, s, p, size)) \/ LoginCheck(c, s, p)
               \/ Refresh(c) \/ Me(c) \/ SessionFor(c) \/ Drop(c)
        PROVE  Tables'
    BY <1>9, <1>1 DEF SignupCheck, LoginCheck, Refresh, Me, SessionFor, Drop
  <1>10. CASE Tick \/ UNCHANGED vars
    BY <1>10, <1>1 DEF Tick, vars
  <1> QED BY <1>2, <1>3, <1>8, <1>9, <1>10 DEF Next

-----------------------------------------------------------------------------
\* A request stays one of those the handlers serve.
LEMMA RequestStep == Tables /\ Requested /\ [Next]_vars => Requested'
PROOF
  <1> SUFFICES ASSUME Tables, Requested, [Next]_vars PROVE Requested'
    OBVIOUS
  <1> DEFINE All == {Idle} \union Signups \union Logins \union Refreshes \union Sessions
  <1>1. CASE UNCHANGED request
    BY <1>1 DEF Requested
  <1>2. ASSUME NEW c \in Clients, NEW x \in All, request' = [request EXCEPT ![c] = x]
        PROVE  Requested'
    BY <1>2 DEF Requested
  <1>3. ASSUME NEW c \in Clients, NEW a, Say(c, a) PROVE Requested'
    BY <1>3, <1>2 DEF Say
  <1> HIDE DEF All
  <1>4. ASSUME NEW c \in Clients, NEW s \in Spellings, NEW p \in Passwords, NEW size \in Sizes,
               SignupCheck(c, s, p, size)
        PROVE  Requested'
    <2> DEFINE x == [at |-> "signup", email |-> Fold[s], password |-> p, plan |-> PlanForSize[size]]
    <2>1. CASE \E a : Say(c, a)
      BY <2>1, <1>3
    <2>2. CASE request' = [request EXCEPT ![c] = x]
      <3>1. PlanForSize[size] \in Plans
        <4>1. size \in {"solo", "small", "medium", "large"}
          BY AccountsAssumption
        <4>2. CASE size = "solo"
          BY <4>2 DEF PlanForSize, Plans
        <4>3. CASE size = "small"
          BY <4>3 DEF PlanForSize, Plans
        <4>4. CASE size = "medium"
          BY <4>4 DEF PlanForSize, Plans
        <4>5. CASE size = "large"
          BY <4>5 DEF PlanForSize, Plans
        <4> QED BY <4>1, <4>2, <4>3, <4>4, <4>5
      <3>2. Fold[s] \in Emails
        BY AccountsAssumption
      <3>3. x \in Signups
        BY <3>1, <3>2 DEF Signups
      <3> HIDE DEF x
      <3> QED BY <2>2, <3>3, <1>2 DEF All
    <2> QED BY <1>4, <2>1, <2>2 DEF SignupCheck
  <1>5. ASSUME NEW c \in Clients, SignupCommit(c) PROVE Requested'
    <2>1. CASE \E a : Say(c, a)
      BY <2>1, <1>3
    <2>2. CASE /\ minted < MaxAccounts /\ minted' = minted + 1
               /\ request' = [request EXCEPT ![c] = [at |-> "refresh", id |-> minted']]
      <3>1. minted' \in Ids
        BY <2>2, AccountsAssumption DEF Tables, Ids
      <3>2. [at |-> "refresh", id |-> minted'] \in Refreshes
        BY <3>1 DEF Refreshes
      <3> QED BY <2>2, <3>2, <1>2 DEF All
    <2> QED BY <1>5, <2>1, <2>2 DEF SignupCommit
  <1>6. ASSUME NEW c \in Clients, NEW s \in Spellings, NEW p \in Passwords, LoginCheck(c, s, p)
        PROVE  Requested'
    <2>1. CASE \E a : Say(c, a)
      BY <2>1, <1>3
    <2>2. ASSUME NEW u \in users,
                 request' = [request EXCEPT ![c] =
                   [at |-> "login", id |-> u.id, password |-> p, rehash |-> u.aged]]
          PROVE  Requested'
      <3>1. [at |-> "login", id |-> u.id, password |-> p, rehash |-> u.aged] \in Logins
        BY DEF Logins, Tables, Rows
      <3> QED BY <2>2, <3>1, <1>2 DEF All
    <2> QED BY <1>6, <2>1, <2>2 DEF LoginCheck, WithEmail
  <1>7. ASSUME NEW c \in Clients, LoginCommit(c) PROVE Requested'
    <2>1. CASE \E a : Say(c, a)
      BY <2>1, <1>3
    <2>2. CASE request' = [request EXCEPT ![c] = [at |-> "refresh", id |-> request[c].id]]
      <3>1. request[c].at = "login"
        BY <1>7 DEF LoginCommit
      <3>2. request[c].id \in Ids
        BY <3>1 DEF Requested, Idle, Signups, Logins, Refreshes, Sessions
      <3>3. [at |-> "refresh", id |-> request[c].id] \in Refreshes
        BY <3>2 DEF Refreshes
      <3> QED BY <2>2, <3>3, <1>2 DEF All
    <2> QED BY <1>7, <2>1, <2>2 DEF LoginCommit
  <1>8. ASSUME NEW c \in Clients, Refresh(c) \/ Me(c) \/ SessionFor(c) \/ Drop(c)
        PROVE  Requested'
    <2>1. CASE \E a : Say(c, a)
      BY <2>1, <1>3
    <2>2. ASSUME NEW u \in users, Found(c, u) PROVE Requested'
      <3>1. [at |-> "session", user |-> u] \in Sessions
        BY DEF Sessions, Tables
      <3> QED BY <2>2, <3>1, <1>2 DEF Found, All
    <2> QED BY <1>8, <2>1, <2>2 DEF Refresh, Me, SessionFor, Drop, WithId, Renewable
  <1>9. CASE Administer \/ Tick \/ UNCHANGED vars
    BY <1>9, <1>1 DEF Administer, Amend, ChangePlan, Close, Harden, Tick, vars
  <1> QED BY <1>4, <1>5, <1>6, <1>7, <1>8, <1>9 DEF Next

-----------------------------------------------------------------------------
\* What the session of a row and of its organisation puts into a token.
LEMMA SessionIssued ==
    ASSUME Dated, NEW u \in Rows, NEW o \in orgs, Tables
    PROVE  /\ Session(u, o) \in Tokens
           /\ Session(u, o).sub = u.id /\ Session(u, o).org = u.org
           /\ Session(u, o).role = u.role /\ Session(u, o).plan = o.plan
           /\ Session(u, o).exp = now + TTL
PROOF
  <1>1. o.plan \in Plans
    BY DEF Tables
  <1>2. now + TTL \in Nat
    BY AccountsAssumption DEF Dated
  <1> QED BY <1>1, <1>2 DEF Session, Tokens, Rows

\* The row a request has read is a row.
LEMMA ReadIsRow ==
    ASSUME Requested, NEW c \in Clients, request[c].at = "session"
    PROVE  request[c] \in Sessions /\ request[c].user \in Rows
BY DEF Requested, Idle, Signups, Logins, Refreshes, Sessions

\* What a step may do to the edit times, and a step that hands out no token.
TimesGrow == /\ changed' \in [Ids -> Nat]
             /\ \A i \in Ids : changed'[i] = changed[i] \/ changed'[i] = now

\* A step that issues nothing and moves the clock on keeps the dates in order.
LEMMA DatedKept ==
    ASSUME Dated, TimesGrow, UNCHANGED token, now' \in {now, now + 1}, edits' \in {edits, edits + 1}
    PROVE  Dated'
BY AccountsAssumption DEF Dated, TimesGrow, Tokens

\* No step issues a token that expires later than its TTL from now.
LEMMA DatedStep == Tables /\ Requested /\ Dated /\ [Next]_vars => Dated'
PROOF
  <1> SUFFICES ASSUME Tables, Requested, Dated, [Next]_vars PROVE Dated'
    OBVIOUS
  <1>1. CASE UNCHANGED <<now, token, changed, edits>>
    BY <1>1 DEF Dated
  <1>2. ASSUME NEW c \in Clients, NEW u \in Rows, NEW o \in orgs,
               token' = [token EXCEPT ![c] = Session(u, o)], UNCHANGED <<now, changed, edits>>
        PROVE  Dated'
    <2>1. Session(u, o) \in Tokens /\ Session(u, o).exp = now + TTL /\ now + TTL \in Nat
      BY SessionIssued, AccountsAssumption DEF Dated
    <2>2. token' \in [Clients -> Tokens \union {None}]
      BY <1>2, <2>1 DEF Dated
    <2>3. \A d \in Clients : token'[d] # None => token'[d].exp <= now + TTL
      BY <1>2, <2>1 DEF Dated
    <2> QED BY <1>2, <2>2, <2>3 DEF Dated
  <1>3. ASSUME NEW c \in Clients, SessionFor(c) PROVE Dated'
    <2>1. request[c].user \in Rows
      BY <1>3, ReadIsRow DEF SessionFor
    <2> QED BY <1>3, <2>1, <1>1, <1>2 DEF SessionFor
  <1>4. ASSUME NEW c \in Clients,
               \/ \E s \in Spellings, p \in Passwords :
                     (\E size \in Sizes : SignupCheck(c, s, p, size)) \/ LoginCheck(c, s, p)
               \/ SignupCommit(c) \/ LoginCommit(c) \/ Refresh(c) \/ Me(c) \/ Drop(c)
        PROVE  Dated'
    BY <1>4, <1>1 DEF SignupCheck, LoginCheck, SignupCommit, LoginCommit, Refresh, Me, Drop
  <1>5. CASE Administer
    <2>1. TimesGrow
      BY <1>5 DEF Administer, Amend, ChangePlan, Close, Harden, Touch, TimesGrow, Dated
    <2> QED BY <1>5, <2>1, DatedKept DEF Administer, Amend, ChangePlan, Close, Harden
  <1>6. CASE Tick
    <2>1. TimesGrow
      BY <1>6 DEF Tick, TimesGrow, Dated
    <2> QED BY <1>6, <2>1, DatedKept DEF Tick
  <1>7. CASE UNCHANGED vars
    BY <1>7, <1>1 DEF vars
  <1> QED BY <1>3, <1>4, <1>5, <1>6, <1>7 DEF Next

-----------------------------------------------------------------------------
\* A row is as enabled as it was, or new and enabled, or it was just edited.
LEMMA AdmittedKept ==
    ASSUME Admitted, Tables, Tables', Dated, TimesGrow, now' = now,
           \A v \in users' : \/ v.active
                             \/ changed'[v.id] = now
                             \/ \E u \in users : u.id = v.id /\ u.active = v.active,
           \A c \in Clients : request'[c].at \in {"login", "refresh"} =>
              \/ request[c].at \in {"login", "refresh"} /\ request'[c].id = request[c].id
              \/ \A v \in users' : v.id = request'[c].id => v.active
    PROVE  Admitted'
PROOF
  <1> SUFFICES ASSUME NEW c \in Clients, request'[c].at \in {"login", "refresh"},
                      NEW v \in users', v.id = request'[c].id
               PROVE  v.active \/ changed'[v.id] = now
    BY DEF Admitted, WithId
  <1>1. CASE /\ request[c].at \in {"login", "refresh"} /\ request'[c].id = request[c].id
             /\ \E u \in users : u.id = v.id /\ u.active = v.active
    <2>1. PICK u \in users : u.id = v.id /\ u.active = v.active
      BY <1>1
    <2>2. u.active \/ changed[u.id] = now
      BY <1>1, <2>1 DEF Admitted, WithId
    <2>3. v.id \in Ids
      BY DEF Tables, Rows
    <2> QED BY <2>1, <2>2, <2>3 DEF TimesGrow
  <1> QED BY <1>1

\* Who is being logged in or refreshed has been let in by a row of the tables.
LEMMA AdmittedStep ==
    ASSUME Tables, Tables', Requested, Admitted, Dated, [Next]_vars
    PROVE  Admitted'
PROOF
  <1> DEFINE Going(c) == request'[c].at \in {"login", "refresh"}
             Same(c) == /\ request[c].at \in {"login", "refresh"}
                        /\ request'[c].id = request[c].id
             Enabled(c) == \A v \in users' : v.id = request'[c].id => v.active
  <1>1. ASSUME UNCHANGED <<users, now, changed>>, \A c \in Clients : Going(c) => Same(c) \/ Enabled(c)
        PROVE  Admitted'
    BY <1>1, AdmittedKept DEF TimesGrow, Dated
  <1>2. ASSUME NEW c \in Clients, NEW a, Say(c, a), UNCHANGED <<users, now, changed>>
        PROVE  Admitted'
    <2>1. request' = [request EXCEPT ![c] = Idle]
      BY <1>2 DEF Say
    <2>2. \A d \in Clients : Going(d) => Same(d)
      BY <2>1 DEF Requested, Idle
    <2> QED BY <1>2, <2>2, <1>1
  <1>3. ASSUME NEW c \in Clients, NEW s \in Spellings, NEW p \in Passwords, NEW size \in Sizes,
               SignupCheck(c, s, p, size)
        PROVE  Admitted'
    <2>1. CASE \E a : Say(c, a)
      BY <1>3, <2>1, <1>2 DEF SignupCheck
    <2>2. CASE request' = [request EXCEPT ![c] = [at |-> "signup", email |-> Fold[s],
                            password |-> p, plan |-> PlanForSize[size]]]
      <3>1. \A d \in Clients : Going(d) => Same(d)
        BY <2>2 DEF Requested
      <3> QED BY <1>3, <3>1, <1>1 DEF SignupCheck
    <2> QED BY <1>3, <2>1, <2>2 DEF SignupCheck
  <1>4. ASSUME NEW c \in Clients, NEW s \in Spellings, NEW p \in Passwords, LoginCheck(c, s, p)
        PROVE  Admitted'
    <2>1. CASE \E a : Say(c, a)
      BY <1>4, <2>1, <1>2 DEF LoginCheck
    <2>2. ASSUME NEW u \in users, u.active,
                 request' = [request EXCEPT ![c] =
                   [at |-> "login", id |-> u.id, password |-> p, rehash |-> u.aged]]
          PROVE  Admitted'
      <3>1. users' = users
        BY <1>4 DEF LoginCheck
      <3>2. \A d \in Clients : Going(d) => Same(d) \/ Enabled(d)
        BY <2>2, <3>1 DEF Requested, Tables, Numbered
      <3> QED BY <1>4, <3>2, <1>1 DEF LoginCheck
    <2> QED BY <1>4, <2>1, <2>2 DEF LoginCheck, WithEmail
  <1>5. ASSUME NEW c \in Clients, SignupCommit(c) PROVE Admitted'
    <2>1. CASE \E a : Say(c, a) /\ users' = users
      BY <1>5, <2>1, <1>2 DEF SignupCommit
    <2>2. CASE \E u : /\ u.id = minted' /\ u.active /\ minted' = minted + 1
                      /\ users' = users \union {u}
                      /\ request' = [request EXCEPT ![c] = [at |-> "refresh", id |-> minted']]
      <3>1. PICK u : /\ u.id = minted' /\ u.active /\ minted' = minted + 1
                     /\ users' = users \union {u}
                     /\ request' = [request EXCEPT ![c] = [at |-> "refresh", id |-> minted']]
        BY <2>2
      <3>2. \A v \in users : v.id # minted'
        BY <3>1 DEF Tables, Numbered, Rows, Ids
      <3>3. \A d \in Clients : Going(d) => Same(d) \/ Enabled(d)
        BY <3>1, <3>2 DEF Requested
      <3>4. \A v \in users' : v.active \/ \E x \in users : x.id = v.id /\ x.active = v.active
        BY <3>1
      <3> QED BY <1>5, <3>3, <3>4, AdmittedKept DEF SignupCommit, TimesGrow, Dated
    <2>3. ASSUME minted' = minted + 1,
                 users' = users \union
                   {[id |-> minted', email |-> request[c].email, org |-> minted', role |-> "owner",
                     active |-> TRUE, password |-> request[c].password, aged |-> FALSE]},
                 request' = [request EXCEPT ![c] = [at |-> "refresh", id |-> minted']]
          PROVE  Admitted'
      <3> DEFINE u == [id |-> minted', email |-> request[c].email, org |-> minted',
                       role |-> "owner", active |-> TRUE, password |-> request[c].password,
                       aged |-> FALSE]
      <3>1. u.id = minted' /\ u.active /\ users' = users \union {u}
        BY <2>3
      <3> HIDE DEF u
      <3> QED BY <2>2, <2>3, <3>1
    <2> QED BY <1>5, <2>1, <2>3 DEF SignupCommit
  <1>6. ASSUME NEW c \in Clients, LoginCommit(c) PROVE Admitted'
    <2> DEFINE r == request[c]
    <2>1. CASE \E a : Say(c, a) /\ users' = users
      BY <1>6, <2>1, <1>2 DEF LoginCommit
    <2>2. ASSUME NEW u \in WithId(r.id),
                 users' = (users \ {u}) \union
                   {IF r.rehash THEN [u EXCEPT !.password = r.password, !.aged = FALSE] ELSE u},
                 request' = [request EXCEPT ![c] = [at |-> "refresh", id |-> r.id]]
          PROVE  Admitted'
      <3> DEFINE v == IF r.rehash THEN [u EXCEPT !.password = r.password, !.aged = FALSE] ELSE u
      <3>1. u \in users /\ u \in Rows
        BY <2>2 DEF WithId, Tables
      <3>2. v.id = u.id /\ v.active = u.active
        BY <3>1 DEF Rows
      <3>3. users' = (users \ {u}) \union {v}
        BY <2>2
      <3> HIDE DEF v
      <3>4. \A x \in users' : \E y \in users : y.id = x.id /\ y.active = x.active
        BY <3>1, <3>2, <3>3
      <3>5. r.at = "login"
        BY <1>6 DEF LoginCommit
      <3>6. \A d \in Clients : Going(d) => Same(d)
        BY <2>2, <3>5 DEF Requested
      <3> QED BY <1>6, <3>4, <3>6, AdmittedKept DEF LoginCommit, TimesGrow, Dated
    <2> QED BY <1>6, <2>1, <2>2 DEF LoginCommit
  <1>7. ASSUME NEW c \in Clients, Refresh(c) \/ Me(c) \/ SessionFor(c) \/ Drop(c)
        PROVE  Admitted'
    <2>1. CASE \E a : Say(c, a)
      BY <1>7, <2>1, <1>2 DEF Refresh, Me, SessionFor, Drop
    <2>2. ASSUME NEW u, Found(c, u) PROVE Admitted'
      <3>1. \A d \in Clients : Going(d) => Same(d)
        BY <2>2 DEF Found, Requested
      <3> QED BY <1>7, <3>1, <1>1 DEF Refresh, Me, SessionFor, Drop
    <2> QED BY <1>7, <2>1, <2>2 DEF Refresh, Me, SessionFor, Drop
  <1>8. ASSUME NEW u \in users, NEW role \in Roles, NEW active \in BOOLEAN, Amend(u, role, active)
        PROVE  Admitted'
    <2> DEFINE v == [u EXCEPT !.role = role, !.active = active]
    <2>1. v.id = u.id /\ u.id \in Ids
      BY DEF Tables, Rows
    <2>2. users' = (users \ {u}) \union {v}
      BY <1>8 DEF Amend
    <2>3. changed' = [changed EXCEPT ![u.id] = now] /\ UNCHANGED <<now, request>>
      BY <1>8 DEF Amend, Touch
    <2> HIDE DEF v
    <2>4. \A x \in users' : \/ changed'[x.id] = now
                            \/ \E y \in users : y.id = x.id /\ y.active = x.active
      BY <2>1, <2>2, <2>3 DEF Dated
    <2>5. TimesGrow
      BY <2>1, <2>3 DEF Dated, TimesGrow
    <2> QED BY <2>3, <2>4, <2>5, AdmittedKept
  <1>9. ASSUME NEW o \in orgs, \/ \E plan \in Plans : ChangePlan(o, plan)
                               \/ Close(o)
        PROVE  Admitted'
    <2>1. users' \subseteq users /\ UNCHANGED <<now, request>>
      BY <1>9 DEF ChangePlan, Close, Cascade
    <2>2. TimesGrow
      BY <1>9 DEF ChangePlan, Close, TimesGrow, Dated
    <2> QED BY <2>1, <2>2, AdmittedKept
  <1>10. CASE Harden
    <2>1. users' = {[u EXCEPT !.aged = TRUE] : u \in users} /\ UNCHANGED <<now, request, changed>>
      BY <1>10 DEF Harden
    <2>2. \A u \in users : [u EXCEPT !.aged = TRUE].id = u.id /\ [u EXCEPT !.aged = TRUE].active = u.active
      BY DEF Tables, Rows
    <2>3. \A x \in users' : \E y \in users : y.id = x.id /\ y.active = x.active
      BY <2>1, <2>2
    <2> QED BY <2>1, <2>3, AdmittedKept DEF TimesGrow, Dated
  <1>11. CASE Administer
    BY <1>11, <1>8, <1>9, <1>10 DEF Administer
  <1>12. CASE Tick
    BY <1>12 DEF Tick, Admitted, Idle
  <1>13. CASE UNCHANGED vars
    BY <1>13, <1>1 DEF vars
  <1> QED BY <1>3, <1>4, <1>5, <1>6, <1>7, <1>11, <1>12, <1>13 DEF Next

-----------------------------------------------------------------------------
Current(t) == \E u \in WithId(t.sub) : /\ u.active /\ t.role = u.role
                                       /\ t.org = u.org /\ t.plan = PlanOf(u)

Lagging(t) == t.exp <= changed[t.sub] + TTL

\* Whoever a token with subject i may name is there after the step as before it.
Kept(i) == \A u \in users : u.id = i =>
              \E v \in users' : /\ v.id = i /\ v.active = u.active /\ v.role = u.role
                                /\ v.org = u.org
                                /\ \A o \in orgs : o.id = u.org => o \in orgs'

\* A claim only falls out of date when an edit is dated.
LEMMA ClaimsKept ==
    ASSUME Tables, Tables', Dated, StaleAtMostTTL, TimesGrow,
           \A i \in Ids : changed'[i] = now \/ Kept(i),
           NEW t \in Tokens, t.exp <= now + TTL, Current(t) \/ Lagging(t)
    PROVE  Current(t)' \/ Lagging(t)'
PROOF
  <1>1. PlansRead /\ PlansRead'
    BY PlanIsItsOrgs, PTL
  <1>2. t.sub \in Ids /\ t.exp \in Nat
    BY DEF Tokens
  <1>3. changed[t.sub] \in Nat /\ changed'[t.sub] \in Nat /\ changed[t.sub] <= now
        /\ now \in Nat /\ TTL \in Nat
    BY <1>2, AccountsAssumption DEF Dated, TimesGrow
  <1>4. CASE changed'[t.sub] = now
    BY <1>2, <1>3, <1>4 DEF Lagging
  <1>5. CASE Kept(t.sub) /\ Current(t)
    <2>1. PICK u \in users : /\ u.id = t.sub /\ u.active /\ t.role = u.role
                             /\ t.org = u.org /\ t.plan = PlanOf(u)
      BY <1>5 DEF Current, WithId
    <2>2. PICK v \in users' : /\ v.id = t.sub /\ v.active = u.active /\ v.role = u.role
                              /\ v.org = u.org
                              /\ \A o \in orgs : o.id = u.org => o \in orgs'
      BY <1>5, <2>1 DEF Kept
    <2>3. PICK o \in orgs : o.id = u.org
      BY DEF Tables, NoOrphans
    <2>4. PlanOf(u) = o.plan
      BY <1>1, <2>3 DEF PlansRead
    <2>5. PlanOf(v)' = o.plan
      BY <1>1, <2>2, <2>3 DEF PlansRead
    <2>6. v \in WithId(t.sub)'
      BY <2>2 DEF WithId
    <2> QED BY <2>1, <2>2, <2>4, <2>5, <2>6 DEF Current
  <1>6. CASE Kept(t.sub) /\ Lagging(t)
    BY <1>2, <1>3, <1>4, <1>6 DEF Lagging, TimesGrow
  <1> QED BY <1>2, <1>4, <1>5, <1>6

\* The staleness of all tokens, token by token.
LEMMA ClaimsByToken ==
    StaleAtMostTTL <=> \A c \in Clients : token[c] # None => Current(token[c]) \/ Lagging(token[c])
BY DEF StaleAtMostTTL, Current, Lagging

\* A change of the rows made now makes no token stale for longer than its TTL.
LEMMA StaleKept ==
    ASSUME Tables, Tables', Dated, StaleAtMostTTL, TimesGrow, UNCHANGED token,
           \A i \in Ids : changed'[i] = now \/ Kept(i)
    PROVE  StaleAtMostTTL'
PROOF
  <1>1. \A c \in Clients : token[c] # None => token[c] \in Tokens /\ token[c].exp <= now + TTL
    BY DEF Dated
  <1>2. \A c \in Clients : token[c] # None => Current(token[c]) \/ Lagging(token[c])
    BY ClaimsByToken
  <1>3. \A t : /\ t \in Tokens /\ t.exp <= now + TTL /\ (Current(t) \/ Lagging(t))
               => (Current(t)' \/ Lagging(t)')
    BY ClaimsKept
  <1>4. \A c \in Clients : token'[c] # None => Current(token[c])' \/ Lagging(token[c])'
    BY <1>1, <1>2, <1>3
  <1> QED BY <1>4 DEF StaleAtMostTTL, Current, Lagging

\* A step is dated now for whomever it touches, and leaves the others as they were.
Touched == TimesGrow /\ \A i \in Ids : changed'[i] = now \/ Kept(i)

\* No step changes what a token may claim without dating it.
LEMMA TouchedStep ==
    ASSUME Tables, Requested, Dated, [Next]_vars
    PROVE  Touched
PROOF
  <1>1. CASE UNCHANGED <<users, orgs, changed>>
    BY <1>1 DEF Touched, TimesGrow, Dated, Kept
  <1>2. ASSUME NEW c \in Clients,
               \/ \E s \in Spellings, p \in Passwords :
                     (\E size \in Sizes : SignupCheck(c, s, p, size)) \/ LoginCheck(c, s, p)
               \/ Refresh(c) \/ Me(c) \/ SessionFor(c) \/ Drop(c)
        PROVE  Touched
    BY <1>2, <1>1 DEF SignupCheck, LoginCheck, Refresh, Me, SessionFor, Drop
  <1>3. ASSUME NEW c \in Clients, SignupCommit(c) PROVE Touched
    <2>1. users \subseteq users' /\ orgs \subseteq orgs' /\ UNCHANGED <<token, changed>>
      BY <1>3 DEF SignupCommit
    <2>2. TimesGrow /\ \A i \in Ids : Kept(i)
      BY <2>1 DEF TimesGrow, Dated, Kept
    <2> QED BY <2>2 DEF Touched
  <1>4. ASSUME NEW c \in Clients, LoginCommit(c) PROVE Touched
    <2> DEFINE r == request[c]
    <2>1. CASE users' = users
      BY <1>4, <2>1, <1>1 DEF LoginCommit
    <2>2. ASSUME NEW u \in WithId(r.id),
                 users' = (users \ {u}) \union
                   {IF r.rehash THEN [u EXCEPT !.password = r.password, !.aged = FALSE] ELSE u}
          PROVE  Touched
      <3> DEFINE v == IF r.rehash THEN [u EXCEPT !.password = r.password, !.aged = FALSE] ELSE u
      <3>1. u \in users /\ u \in Rows
        BY <2>2 DEF WithId, Tables
      <3>2. v.id = u.id /\ v.active = u.active /\ v.role = u.role /\ v.org = u.org
        BY <3>1 DEF Rows
      <3>3. users' = (users \ {u}) \union {v} /\ UNCHANGED <<orgs, changed>>
        BY <1>4, <2>2 DEF LoginCommit
      <3> HIDE DEF v
      <3>4. TimesGrow /\ \A i \in Ids : Kept(i)
        BY <3>1, <3>2, <3>3 DEF TimesGrow, Dated, Kept
      <3> QED BY <3>4 DEF Touched
    <2> QED BY <1>4, <2>1, <2>2 DEF LoginCommit
  <1>5. ASSUME NEW u \in users, NEW role \in Roles, NEW active \in BOOLEAN, Amend(u, role, active)
        PROVE  Touched
    <2>1. users \ {u} \subseteq users' /\ UNCHANGED <<orgs, token>> /\ u.id \in Ids
      BY <1>5 DEF Amend, Tables, Rows
    <2>2. changed' = [changed EXCEPT ![u.id] = now]
      BY <1>5 DEF Amend, Touch
    <2>3. TimesGrow
      BY <2>1, <2>2 DEF TimesGrow, Dated
    <2>4. \A i \in Ids : changed'[i] = now \/ Kept(i)
      BY <2>1, <2>2 DEF Kept, Dated
    <2> QED BY <2>3, <2>4 DEF Touched
  <1>6. ASSUME NEW o \in orgs, \/ \E plan \in Plans : ChangePlan(o, plan)
                               \/ Close(o)
        PROVE  Touched
    <2>1. /\ changed' = [i \in Ids |-> IF \E u \in WithId(i) : u.org = o.id THEN now ELSE changed[i]]
          /\ {u \in users : u.org # o.id} \subseteq users' /\ orgs \ {o} \subseteq orgs'
          /\ UNCHANGED token
      BY <1>6 DEF ChangePlan, Close, Cascade
    <2>2. TimesGrow
      BY <2>1 DEF TimesGrow, Dated
    <2>3. \A i \in Ids : changed'[i] = now \/ Kept(i)
      BY <2>1 DEF Kept, WithId
    <2> QED BY <2>2, <2>3 DEF Touched
  <1>7. CASE Harden
    <2>1. users' = {[u EXCEPT !.aged = TRUE] : u \in users} /\ UNCHANGED <<orgs, token, changed>>
      BY <1>7 DEF Harden
    <2>2. ASSUME NEW u \in users
          PROVE  \E v \in users' : /\ v.id = u.id /\ v.active = u.active /\ v.role = u.role
                                   /\ v.org = u.org
      <3> DEFINE v == [u EXCEPT !.aged = TRUE]
      <3>1. v.id = u.id /\ v.active = u.active /\ v.role = u.role /\ v.org = u.org
        BY DEF Tables, Rows
      <3>2. v \in users'
        BY <2>1
      <3> HIDE DEF v
      <3> QED BY <3>1, <3>2
    <2>3. TimesGrow /\ \A i \in Ids : Kept(i)
      BY <2>1, <2>2 DEF TimesGrow, Dated, Kept
    <2> QED BY <2>3 DEF Touched
  <1>8. CASE Administer
    BY <1>8, <1>5, <1>6, <1>7 DEF Administer
  <1>9. CASE Tick \/ UNCHANGED vars
    BY <1>9, <1>1 DEF Tick, vars
  <1> QED BY <1>2, <1>3, <1>4, <1>8, <1>9 DEF Next

\* What was vouched for stays so within the tick.
LEMMA VouchedKept ==
    ASSUME Tables, Dated, Touched, now' = now, NEW u \in Rows, Vouched(u)
    PROVE  Vouched(u)'
PROOF
  <1>1. u.id \in Ids
    BY DEF Rows
  <1>2. CASE changed'[u.id] = now
    BY <1>2 DEF Vouched
  <1>3. CASE changed'[u.id] # now
    <2>1. changed[u.id] # now /\ Kept(u.id)
      BY <1>1, <1>3 DEF Touched, TimesGrow
    <2>2. PICK v \in users : v.id = u.id /\ v.active /\ v.role = u.role /\ v.org = u.org
      BY <2>1 DEF Vouched
    <2>3. PICK w \in users' : w.id = u.id /\ w.active = v.active /\ w.role = v.role /\ w.org = v.org
      BY <2>1, <2>2 DEF Kept
    <2> QED BY <2>2, <2>3 DEF Vouched
  <1> QED BY <1>2, <1>3

\* What a request carries to its session was read within the tick.
LEMMA FreshStep ==
    ASSUME Tables, Requested, Admitted, Fresh, Dated, [Next]_vars
    PROVE  Fresh'
PROOF
  <1>1. Touched
    BY TouchedStep
  <1>2. ASSUME now' = now,
               \A d \in Clients : request'[d].at = "session"
                  => \/ request'[d] = request[d]
                     \/ Vouched(request'[d].user) /\ request'[d].user \in Rows
        PROVE  Fresh'
    <2>1. \A d \in Clients : request'[d].at = "session"
             => request'[d].user \in Rows /\ Vouched(request'[d].user)
      BY <1>2, ReadIsRow DEF Fresh
    <2>2. \A x \in Rows : Vouched(x) =>
             \/ changed'[x.id] = now'
             \/ \E v \in users' : v.id = x.id /\ v.active /\ v.role = x.role /\ v.org = x.org
      BY <1>1, <1>2, VouchedKept DEF Vouched
    <2>3. \A d \in Clients : request'[d].at = "session" =>
             LET x == request'[d].user IN
             \/ changed'[x.id] = now'
             \/ \E v \in users' : v.id = x.id /\ v.active /\ v.role = x.role /\ v.org = x.org
      BY <2>1, <2>2
    <2> QED BY <2>3 DEF Fresh, Vouched
  <1>3. ASSUME NEW c \in Clients, NEW x, request' = [request EXCEPT ![c] = x],
               x.at # "session", now' = now
        PROVE  Fresh'
    <2>1. \A d \in Clients : request'[d].at = "session" => request'[d] = request[d]
      BY <1>3 DEF Requested
    <2> QED BY <2>1, <1>2, <1>3
  <1>4. ASSUME NEW c \in Clients, NEW a, Say(c, a), now' = now PROVE Fresh'
    <2>1. request' = [request EXCEPT ![c] = Idle]
      BY <1>4 DEF Say
    <2>2. Idle.at # "session"
      BY DEF Idle
    <2> QED BY <2>1, <2>2, <1>3, <1>4
  <1>5. ASSUME NEW c \in Clients, NEW u \in users, Found(c, u), u.active \/ changed[u.id] = now,
               now' = now
        PROVE  Fresh'
    <2>1. Vouched(u) /\ u \in Rows
      BY <1>5 DEF Vouched, Tables
    <2>2. \A d \in Clients : request'[d] = request[d] \/ request'[d] = [at |-> "session", user |-> u]
      BY <1>5 DEF Found, Requested
    <2> QED BY <2>1, <2>2, <1>2, <1>5
  <1>6. ASSUME NEW c \in Clients,
               \/ \E s \in Spellings, p \in Passwords :
                     (\E size \in Sizes : SignupCheck(c, s, p, size)) \/ LoginCheck(c, s, p)
               \/ SignupCommit(c) \/ LoginCommit(c) \/ SessionFor(c) \/ Drop(c)
        PROVE  Fresh'
    <2>1. \/ \E a : Say(c, a)
          \/ \E x : x.at # "session" /\ request' = [request EXCEPT ![c] = x]
      <3>1. ASSUME NEW s \in Spellings, NEW p \in Passwords, NEW size \in Sizes,
                   SignupCheck(c, s, p, size), ~(\E a : Say(c, a))
            PROVE  \E x : x.at # "session" /\ request' = [request EXCEPT ![c] = x]
        <4> DEFINE x == [at |-> "signup", email |-> Fold[s], password |-> p,
                         plan |-> PlanForSize[size]]
        <4>1. request' = [request EXCEPT ![c] = x]
          BY <3>1 DEF SignupCheck
        <4>2. x.at # "session"
          OBVIOUS
        <4> QED BY <4>1, <4>2
      <3>2. ASSUME NEW s \in Spellings, NEW p \in Passwords, LoginCheck(c, s, p),
                   ~(\E a : Say(c, a))
            PROVE  \E x : x.at # "session" /\ request' = [request EXCEPT ![c] = x]
        <4>1. PICK u : request' = [request EXCEPT ![c] =
                         [at |-> "login", id |-> u.id, password |-> p, rehash |-> u.aged]]
          BY <3>2 DEF LoginCheck
        <4> QED BY <4>1
      <3>3. ASSUME SignupCommit(c), ~(\E a : Say(c, a))
            PROVE  \E x : x.at # "session" /\ request' = [request EXCEPT ![c] = x]
        <4>1. request' = [request EXCEPT ![c] = [at |-> "refresh", id |-> minted']]
          BY <3>3 DEF SignupCommit
        <4> QED BY <4>1
      <3>4. ASSUME LoginCommit(c), ~(\E a : Say(c, a))
            PROVE  \E x : x.at # "session" /\ request' = [request EXCEPT ![c] = x]
        <4>1. request' = [request EXCEPT ![c] = [at |-> "refresh", id |-> request[c].id]]
          BY <3>4 DEF LoginCommit
        <4> QED BY <4>1
      <3>5. SessionFor(c) \/ Drop(c) => \E a : Say(c, a)
        BY DEF SessionFor, Drop
      <3> QED BY <1>6, <3>1, <3>2, <3>3, <3>4, <3>5
    <2>2. now' = now
      BY <1>6 DEF SignupCheck, LoginCheck, SignupCommit, LoginCommit, SessionFor, Drop
    <2> QED BY <2>1, <2>2, <1>3, <1>4
  <1>7. ASSUME NEW c \in Clients, Refresh(c) PROVE Fresh'
    <2>1. ASSUME NEW u \in WithId(request[c].id), Found(c, u) PROVE Fresh'
      <3>1. u \in users /\ (u.active \/ changed[u.id] = now)
        <4>1. request[c].at = "refresh" /\ u \in users
          BY <1>7 DEF Refresh, WithId
        <4> QED BY <4>1 DEF Admitted
      <3> QED BY <1>7, <2>1, <3>1, <1>5 DEF Refresh
    <2> QED BY <1>7, <2>1, <1>4 DEF Refresh
  <1>8. ASSUME NEW c \in Clients, Me(c) PROVE Fresh'
    BY <1>8, <1>4, <1>5 DEF Me, Renewable, WithId
  <1>9. CASE Administer \/ UNCHANGED vars
    <2>1. request' = request /\ now' = now
      BY <1>9 DEF Administer, Amend, ChangePlan, Close, Harden, vars
    <2>2. \A d \in Clients : request'[d] = request[d]
      BY <2>1
    <2> QED BY <2>1, <2>2, <1>2
  <1>10. CASE Tick
    BY <1>10 DEF Tick, Fresh, Idle
  <1> QED BY <1>6, <1>7, <1>8, <1>9, <1>10 DEF Next

\* No step leaves a token stale for longer than its TTL.
LEMMA StaleStep ==
    ASSUME Tables, Tables', Requested, Fresh, Dated, StaleAtMostTTL, [Next]_vars
    PROVE  StaleAtMostTTL'
PROOF
  <1>1. Touched
    BY TouchedStep
  <1>2. CASE UNCHANGED token
    BY <1>1, <1>2, StaleKept DEF Touched
  <1>3. ASSUME NEW c \in Clients, NEW u \in Rows, NEW o \in orgs, o.id = u.org, Vouched(u),
               token' = [token EXCEPT ![c] = Session(u, o)], UNCHANGED <<users, orgs, changed>>
        PROVE  StaleAtMostTTL'
    <2> DEFINE t == Session(u, o)
    <2>1. /\ t.sub = u.id /\ t.org = u.org /\ t.role = u.role /\ t.plan = o.plan
          /\ t.exp = now + TTL
      BY SessionIssued
    <2>2. token' = [token EXCEPT ![c] = t]
      BY <1>3
    <2> HIDE DEF t
    <2>3. Current(t) \/ Lagging(t)
      <3>1. CASE changed[u.id] = now
        BY <2>1, <3>1, AccountsAssumption DEF Lagging, Dated
      <3>2. CASE \E v \in users : v.id = u.id /\ v.active /\ v.role = u.role /\ v.org = u.org
        <4>1. PICK v \in users : v.id = u.id /\ v.active /\ v.role = u.role /\ v.org = u.org
          BY <3>2
        <4>2. PlanOf(v) = o.plan
          BY <1>3, <4>1, PlanIsItsOrgs DEF PlansRead
        <4> QED BY <2>1, <4>1, <4>2 DEF Current, WithId
      <3> QED BY <1>3, <3>1, <3>2 DEF Vouched
    <2>4. ASSUME NEW d \in Clients, token'[d] # None
          PROVE  \/ \E x \in WithId(token'[d].sub) :
                       /\ x.active /\ token'[d].role = x.role
                       /\ token'[d].org = x.org /\ token'[d].plan = PlanOf(x)
                 \/ token'[d].exp <= changed[token'[d].sub] + TTL
      <3>1. CASE d = c
        <4>1. token'[d] = t
          BY <2>2, <3>1 DEF Dated
        <4> QED BY <2>3, <4>1 DEF Current, Lagging
      <3>2. CASE d # c
        <4>1. token'[d] = token[d]
          BY <2>2, <3>2 DEF Dated
        <4> QED BY <2>4, <4>1 DEF StaleAtMostTTL
      <3> QED BY <3>1, <3>2
    <2>5. \A i, x : WithId(i)' = WithId(i) /\ PlanOf(x)' = PlanOf(x)
      BY <1>3 DEF WithId, PlanOf
    <2> QED BY <1>3, <2>4, <2>5 DEF StaleAtMostTTL
  <1>4. ASSUME NEW c \in Clients, SessionFor(c) PROVE StaleAtMostTTL'
    <2>1. request[c].user \in Rows /\ Vouched(request[c].user)
      BY <1>4, ReadIsRow DEF SessionFor, Fresh
    <2> QED BY <1>4, <2>1, <1>2, <1>3 DEF SessionFor
  <1>5. ASSUME NEW c \in Clients,
               \/ \E s \in Spellings, p \in Passwords :
                     (\E size \in Sizes : SignupCheck(c, s, p, size)) \/ LoginCheck(c, s, p)
               \/ SignupCommit(c) \/ LoginCommit(c) \/ Refresh(c) \/ Me(c) \/ Drop(c)
        PROVE  StaleAtMostTTL'
    BY <1>5, <1>2 DEF SignupCheck, LoginCheck, SignupCommit, LoginCommit, Refresh, Me, Drop
  <1>6. CASE Administer \/ Tick \/ UNCHANGED vars
    BY <1>6, <1>2 DEF Administer, Amend, ChangePlan, Close, Harden, Tick, vars
  <1> QED BY <1>4, <1>5, <1>6 DEF Next

\* The tables, the requests, the dates and the staleness hold in every state.
LEMMA AccountsInvAlways == Spec => []AccountsInv
PROOF
  <1>1. Init => AccountsInv
    <2> SUFFICES ASSUME Init PROVE AccountsInv
      OBVIOUS
    <2>1. Requested /\ Admitted /\ Fresh /\ StaleAtMostTTL
      BY DEF Init, Requested, Admitted, Fresh, Idle, StaleAtMostTTL
    <2>2. Dated
      BY AccountsAssumption DEF Init, Dated
    <2> QED BY <2>1, <2>2, TablesInit DEF AccountsInv
  <1>2. AccountsInv /\ [Next]_vars => AccountsInv'
    <2> SUFFICES ASSUME AccountsInv, [Next]_vars PROVE AccountsInv'
      OBVIOUS
    <2>1. Tables'
      BY TablesStep DEF AccountsInv
    <2> QED BY <2>1, RequestStep, AdmittedStep, FreshStep, DatedStep, StaleStep DEF AccountsInv
  <1> QED BY <1>1, <1>2, PTL DEF Spec

\* Whatever the administrator edits and whatever requests are in flight, a claim
\* a token carries is out of date for TOKEN_TTL_MINUTES at the most.
THEOREM ClaimsExpire == Spec => []StaleAtMostTTL
BY AccountsInvAlways, PTL DEF AccountsInv

\* Through every race of signups, crash and closed account, an address has one
\* account, and accounts and organisations come and go together.
THEOREM TablesStayWhole == Spec => [](AccountsTypeOK /\ OneAccountPerEmail /\ NoOrphans)
PROOF
  <1>1. AccountsInv => AccountsTypeOK /\ OneAccountPerEmail /\ NoOrphans
    BY DEF AccountsInv, Tables, Requested, Dated, AccountsTypeOK, Signups, Logins, Refreshes, Sessions
  <1> QED BY <1>1, AccountsInvAlways, PTL

-----------------------------------------------------------------------------
Held == {<<u.email, u.org>> : u \in users}

Registered == [Promise!Next]_<<Held, answer>>

\* Rewriting other columns leaves who holds which address as it was.
LEMMA HeldRewritten ==
    ASSUME Rewritten
    PROVE  Held' = Held
PROOF
  <1>1. ASSUME NEW v \in users' PROVE <<v.email, v.org>> \in Held
    BY DEF Rewritten, Held
  <1>2. ASSUME NEW u \in users PROVE <<u.email, u.org>> \in Held'
    BY DEF Rewritten, Held
  <1> QED BY <1>1, <1>2 DEF Held

\* An answer that registers nobody is a stutter of the registry.
LEMMA Answered ==
    ASSUME NEW c \in Clients, UNCHANGED Held,
           NEW a \in {"weak_password", "invalid_credentials", "account_disabled",
                      "invalid_token", "session", "error"},
           Say(c, <<a>>)
    PROVE  Registered
BY DEF Say, Held, Registered, Promise!Next, Promise!Answer

\* A signup refused as taken is the registry's refusal of a held address.
LEMMA Declined ==
    ASSUME NEW c \in Clients, NEW e \in Emails, UNCHANGED users,
           WithEmail(e) # {}, Say(c, <<"taken", e>>)
    PROVE  Registered
PROOF
  <1>1. PICK u \in users : u.email = e
    BY DEF WithEmail
  <1>2. <<u.email, u.org>> \in Held /\ <<u.email, u.org>>[1] = e
    BY <1>1 DEF Held
  <1>3. ~Promise!Free(e)
    BY <1>2 DEF Promise!Free, Held
  <1>4. answer' = [answer EXCEPT ![c] = <<"taken", e>>] /\ Held' = Held
    BY DEF Say, Held
  <1> QED BY <1>3, <1>4 DEF Registered, Held, Promise!Next, Promise!Decline

\* A committed signup is a registration, or its refusal.
LEMMA SignupRegisters ==
    ASSUME Tables, Requested, NEW c \in Clients, SignupCommit(c)
    PROVE  Registered
PROOF
  <1> DEFINE r == request[c]
  <1>1. r.email \in Emails
    <2>1. r.at = "signup"
      BY DEF SignupCommit
    <2> QED BY <2>1 DEF Requested, Idle, Signups, Logins, Refreshes, Sessions
  <1>2. CASE ~IndexAccepts(r.email) /\ Say(c, <<"taken", r.email>>) /\ UNCHANGED users
    BY <1>1, <1>2, Declined DEF IndexAccepts
  <1>3. ASSUME IndexAccepts(r.email), minted < MaxAccounts, minted' = minted + 1, UNCHANGED answer,
               users' = users \union
                 {[id |-> minted', email |-> r.email, org |-> minted', role |-> "owner",
                   active |-> TRUE, password |-> r.password, aged |-> FALSE]}
        PROVE  Registered
    <2> DEFINE u == [id |-> minted', email |-> r.email, org |-> minted', role |-> "owner",
                     active |-> TRUE, password |-> r.password, aged |-> FALSE]
    <2>1. users' = users \union {u} /\ u.email = r.email /\ u.org = minted'
      BY <1>3
    <2> HIDE DEF u
    <2>2. Held' = Held \union {<<r.email, minted'>>}
      BY <2>1 DEF Held
    <2>3. minted' \in Ids /\ minted \in Nat
      BY <1>3, AccountsAssumption DEF Tables, Ids
    <2>4. \A h \in Held : h[1] # r.email
      BY <1>3 DEF Held, IndexAccepts, WithEmail
    <2>5. \A h \in Held : h[2] # minted'
      BY <1>3, <2>3 DEF Held, Tables, Numbered, Rows, Ids
    <2>6. Promise!Free(r.email) /\ Promise!Unused(minted')
      BY <2>4, <2>5 DEF Promise!Free, Promise!Unused, Held
    <2> QED BY <1>1, <1>3, <2>2, <2>3, <2>6 DEF Registered, Held, Promise!Next, Promise!Create
  <1> QED BY <1>2, <1>3 DEF SignupCommit

\* Closing an org releases the addresses of its accounts.
LEMMA CloseRegisters ==
    ASSUME Tables, NEW o \in orgs, Close(o)
    PROVE  Registered
PROOF
  <1>1. users' = {u \in users : u.org # o.id} /\ UNCHANGED answer /\ o.id \in Ids
    BY DEF Close, Cascade, Tables
  <1>2. Held' = {h \in Held : h[2] # o.id}
    BY <1>1 DEF Held
  <1> QED BY <1>1, <1>2 DEF Registered, Held, Promise!Next, Promise!Close

\* Every step of the accounts is a step of the registry or a stutter.
LEMMA RegistryStep == Tables /\ Requested /\ [Next]_vars => Registered
PROOF
  <1> SUFFICES ASSUME Tables, Requested, [Next]_vars PROVE Registered
    OBVIOUS
  <1>1. CASE UNCHANGED <<users, answer>>
    BY <1>1 DEF Registered, Held
  <1>2. ASSUME Rewritten, UNCHANGED answer PROVE Registered
    BY <1>2, HeldRewritten DEF Registered
  <1>3. UNCHANGED users => UNCHANGED Held
    BY DEF Held
  <1>4. ASSUME NEW c \in Clients, NEW s \in Spellings, NEW p \in Passwords, NEW size \in Sizes,
               SignupCheck(c, s, p, size)
        PROVE  Registered
    BY <1>4, <1>1, <1>3, Answered, Declined, AccountsAssumption DEF SignupCheck
  <1>5. ASSUME NEW c \in Clients, NEW s \in Spellings, NEW p \in Passwords, LoginCheck(c, s, p)
        PROVE  Registered
    BY <1>5, <1>1, <1>3, Answered DEF LoginCheck
  <1>6. ASSUME NEW c \in Clients, LoginCommit(c) PROVE Registered
    <2> DEFINE r == request[c]
    <2>1. CASE Say(c, <<"error">>) /\ UNCHANGED users
      BY <2>1, <1>3, Answered
    <2>2. ASSUME UNCHANGED answer, NEW u \in WithId(r.id),
                 users' = (users \ {u}) \union
                   {IF r.rehash THEN [u EXCEPT !.password = r.password, !.aged = FALSE] ELSE u}
          PROVE  Registered
      <3>1. r.at = "login" /\ r.password \in Passwords
        <4>1. r.at = "login"
          BY <1>6 DEF LoginCommit
        <4> QED BY <4>1 DEF Requested, Idle, Signups, Logins, Refreshes, Sessions
      <3>2. u \in users /\ u \in Rows
        BY <2>2 DEF WithId, Tables
      <3> DEFINE v == IF r.rehash THEN [u EXCEPT !.password = r.password, !.aged = FALSE] ELSE u
      <3>3. v \in Rows /\ v.id = u.id /\ v.org = u.org /\ v.email = u.email
        BY <3>1, <3>2 DEF Rows
      <3>4. users' = (users \ {u}) \union {v}
        BY <2>2
      <3> HIDE DEF v
      <3> QED BY <2>2, <3>2, <3>3, <3>4, RowReplaced, <1>2
    <2> QED BY <1>6, <2>1, <2>2 DEF LoginCommit
  <1>7. ASSUME NEW c \in Clients, Refresh(c) \/ Me(c) \/ SessionFor(c) \/ Drop(c)
        PROVE  Registered
    BY <1>7, <1>1, <1>3, Answered DEF Refresh, Me, SessionFor, Drop, Found
  <1>8. ASSUME NEW u \in users, NEW role \in Roles, NEW active \in BOOLEAN, Amend(u, role, active)
        PROVE  Registered
    <2> DEFINE v == [u EXCEPT !.role = role, !.active = active]
    <2>1. v \in Rows /\ v.id = u.id /\ v.org = u.org /\ v.email = u.email
      BY DEF Tables, Rows
    <2>2. users' = (users \ {u}) \union {v} /\ UNCHANGED answer
      BY <1>8 DEF Amend
    <2> HIDE DEF v
    <2> QED BY <2>1, <2>2, RowReplaced, <1>2
  <1>9. ASSUME NEW o \in orgs, NEW plan \in Plans, ChangePlan(o, plan) PROVE Registered
    BY <1>9, <1>1 DEF ChangePlan
  <1>10. CASE Harden
    BY <1>10, HardenRewrites, <1>2 DEF Harden
  <1>11. CASE Administer
    BY <1>11, <1>8, <1>9, <1>10, CloseRegisters DEF Administer
  <1>12. CASE Tick \/ UNCHANGED vars
    BY <1>12, <1>1 DEF Tick, vars
  <1> QED BY <1>4, <1>5, SignupRegisters, <1>6, <1>7, <1>11, <1>12 DEF Next

\* The signup, login and session routes implement the registry: accounts appear
\* at once and whole, an address names one of them, and it is called taken only
\* while it is.
THEOREM RegistryImplemented == Spec => RegistryPromise
PROOF
  <1>1. Init => Promise!Init
    BY DEF Init, Promise!Init
  <1>2. AccountsInv /\ [Next]_vars => Registered
    BY RegistryStep DEF AccountsInv
  <1> QED BY <1>1, <1>2, AccountsInvAlways, PTL DEF Spec, Registered, Held, RegistryPromise, Promise!Spec
=============================================================================
