------------------------------ MODULE Accounts ------------------------------
(***************************************************************************)
(* Signing up, signing in and re-resolving a session (endpoints/auth.py),  *)
(* over the users and organizations tables (models/) and the stateless     *)
(* tokens of core/security.py.  A handler is cut wherever it goes to the   *)
(* database, so that the requests of several clients, and an administrator *)
(* working on the tables, fall between a check and the commit it guards.   *)
(***************************************************************************)
EXTENDS Naturals, FiniteSets

CONSTANTS Clients,
          Spellings,   \* addresses as typed
          Emails, Fold, \* .strip().lower()
          Passwords, Weak, \* the passwords, and those refused at signup
          Sizes,       \* company sizes signups are made with
          TTL,         \* TOKEN_TTL_MINUTES, in ticks; a request takes less than one
          MaxAccounts, MaxTime, MaxEdits, \* bounds: accounts made, clock, edits
          None

ASSUME AccountsAssumption ==
    /\ Fold \in [Spellings -> Emails]
    /\ Weak \subseteq Passwords
    /\ Sizes \subseteq {"solo", "small", "medium", "large"}
    /\ TTL \in Nat \ {0} /\ MaxAccounts \in Nat /\ MaxTime \in Nat /\ MaxEdits \in Nat
    /\ None \notin [sub : Nat, org : Nat, role : {"owner", "accountant"},
                   plan : {"essentials", "professional", "enterprise"}, exp : Nat]

VARIABLES users,   \* rows of the users table
          orgs,    \* rows of the organizations table
          minted,  \* identifiers handed out (uuid4: never the same twice)
          now,
          token,   \* the token each client holds
          request, \* where each client's request stands
          answer,  \* what each client heard last
          changed, \* history: when an administrator last touched an account
          edits    \* bound: what the administrator has done so far

vars == <<users, orgs, minted, now, token, request, answer, changed, edits>>

Roles == {"owner", "accountant"}
Plans == {"essentials", "professional", "enterprise"}
Ids == 1 .. MaxAccounts
Rows == [id : Ids, email : Emails, org : Ids, role : Roles, active : BOOLEAN,
         password : Passwords, aged : BOOLEAN]
Tokens == [sub : Ids, org : Ids, role : Roles, plan : Plans, exp : Nat]

Idle == [at |-> "idle"]

PlanForSize == [size \in {"solo", "small", "medium", "large"} |->
                  CASE size \in {"solo", "small"} -> "essentials"
                    [] size = "medium" -> "professional"
                    [] size = "large" -> "enterprise"]

WithEmail(e) == {u \in users : u.email = e}
WithId(i) == {u \in users : u.id = i}
\* validate_password_strength, and decode_token's expiry.
Weakness(password) == password \in Weak
Expired(t) == t.exp <= now

-----------------------------------------------------------------------------
Init == /\ users = {} /\ orgs = {} /\ minted = 0 /\ now = 0
        /\ token = [c \in Clients |-> None]
        /\ request = [c \in Clients |-> Idle]
        /\ answer = [c \in Clients |-> <<"nothing">>]
        /\ changed = [i \in Ids |-> 0]
        /\ edits = 0

Say(c, a) == /\ answer' = [answer EXCEPT ![c] = a]
             /\ request' = [request EXCEPT ![c] = Idle]

\* _session_for: the claims are those of the rows just read.
Session(u, o) == [sub |-> u.id, org |-> u.org, role |-> u.role, plan |-> o.plan,
                  exp |-> now + TTL]

\* The user's row is read; its organisation's takes a query of its own.
Found(c, u) == /\ request' = [request EXCEPT ![c] = [at |-> "session", user |-> u]]
               /\ UNCHANGED answer

-----------------------------------------------------------------------------
\* signup, up to db.commit(): the SELECT is only the nicer error.
SignupCheck(c, spelling, password, size) ==
    /\ request[c] = Idle
    /\ \/ Weakness(password) /\ Say(c, <<"weak_password">>)
       \/ /\ ~Weakness(password)
          /\ WithEmail(Fold[spelling]) # {}
          /\ Say(c, <<"taken", Fold[spelling]>>)
       \/ /\ ~Weakness(password)
          /\ WithEmail(Fold[spelling]) = {}
          /\ request' = [request EXCEPT ![c] =
                [at |-> "signup", email |-> Fold[spelling], password |-> password,
                 plan |-> PlanForSize[size]]]
          /\ UNCHANGED answer
    /\ UNCHANGED <<users, orgs, minted, now, token, changed, edits>>

NoIndex(email) == TRUE

\* users.email is unique (models/user.py).
IndexAccepts(email) == WithEmail(email) = {}

\* The unique index on users.email decides; a refused commit takes both rows back.
SignupCommit(c) ==
    /\ request[c].at = "signup"
    /\ LET r == request[c] IN
       \/ /\ IndexAccepts(r.email)
          /\ minted < MaxAccounts
          /\ minted' = minted + 1
          /\ orgs' = orgs \union {[id |-> minted', plan |-> r.plan]}
          /\ users' = users \union
                {[id |-> minted', email |-> r.email, org |-> minted', role |-> "owner",
                  active |-> TRUE, password |-> r.password, aged |-> FALSE]}
          /\ request' = [request EXCEPT ![c] = [at |-> "refresh", id |-> minted']]
          /\ UNCHANGED answer
       \/ /\ ~IndexAccepts(r.email)
          /\ Say(c, <<"taken", r.email>>)
          /\ UNCHANGED <<users, orgs, minted>>
    /\ UNCHANGED <<now, token, changed, edits>>

\* login, up to db.commit().
LoginCheck(c, spelling, password) ==
    /\ request[c] = Idle
    /\ LET found == WithEmail(Fold[spelling]) IN
       \/ /\ \A u \in found : u.password # password
          /\ Say(c, <<"invalid_credentials">>)
       \/ \E u \in found : /\ u.password = password /\ ~u.active
                           /\ Say(c, <<"account_disabled">>)
       \/ \E u \in found :
             /\ u.password = password /\ u.active
             /\ request' = [request EXCEPT ![c] =
                  [at |-> "login", id |-> u.id, password |-> password, rehash |-> u.aged]]
             /\ UNCHANGED answer
    /\ UNCHANGED <<users, orgs, minted, now, token, changed, edits>>

\* The UPDATE of a row that is gone matches nothing, and the request ends in a 500.
LoginCommit(c) ==
    /\ request[c].at = "login"
    /\ LET r == request[c] IN
       \/ WithId(r.id) = {} /\ Say(c, <<"error">>) /\ UNCHANGED users
       \/ \E u \in WithId(r.id) :
             /\ users' = (users \ {u}) \union
                   {IF r.rehash THEN [u EXCEPT !.password = r.password, !.aged = FALSE] ELSE u}
             /\ request' = [request EXCEPT ![c] = [at |-> "refresh", id |-> r.id]]
             /\ UNCHANGED answer
    /\ UNCHANGED <<orgs, minted, now, token, changed, edits>>

\* db.refresh(user), at the end of signup and of login.
Refresh(c) ==
    /\ request[c].at = "refresh"
    /\ \/ \E u \in WithId(request[c].id) : Found(c, u)
       \/ WithId(request[c].id) = {} /\ Say(c, <<"error">>)
    /\ UNCHANGED <<users, orgs, minted, now, token, changed, edits>>

RenewableAny(t) == WithId(t.sub)

\* The account the client's token is renewed for: that of the row, as it is now.
Renewable(t) == {u \in WithId(t.sub) : u.active}

\* me: decode_token, then the row as it is now.
Me(c) ==
    /\ request[c] = Idle /\ token[c] # None
    /\ \/ /\ ~Expired(token[c])
          /\ \E u \in Renewable(token[c]) : Found(c, u)
       \/ /\ Expired(token[c]) \/ Renewable(token[c]) = {}
          /\ Say(c, <<"invalid_token">>)
    /\ UNCHANGED <<users, orgs, minted, now, token, changed, edits>>

\* db.refresh(org), or the load of user.organization; and the new session.  An
\* organisation closed meanwhile is an error of the server.
SessionFor(c) ==
    /\ request[c].at = "session"
    /\ LET u == request[c].user IN
       \/ \E o \in orgs : /\ o.id = u.org
                          /\ token' = [token EXCEPT ![c] = Session(u, o)]
                          /\ Say(c, <<"session">>)
       \/ (\A o \in orgs : o.id # u.org) /\ Say(c, <<"error">>) /\ UNCHANGED token
    /\ UNCHANGED <<users, orgs, minted, now, changed, edits>>

\* The worker dies, or its connection does: what was committed stays.
Drop(c) ==
    /\ request[c] # Idle
    /\ Say(c, <<"error">>)
    /\ UNCHANGED <<users, orgs, minted, now, token, changed, edits>>

-----------------------------------------------------------------------------
(* The administrator, with database access, and the clock.                 *)

Touch(i) == changed' = [changed EXCEPT ![i] = now]

Amend(u, role, active) ==
    /\ users' = (users \ {u}) \union {[u EXCEPT !.role = role, !.active = active]}
    /\ Touch(u.id)
    /\ UNCHANGED <<orgs, minted, now, token, request, answer>>

ChangePlan(o, plan) ==
    /\ orgs' = (orgs \ {o}) \union {[o EXCEPT !.plan = plan]}
    /\ changed' = [i \in Ids |-> IF \E u \in WithId(i) : u.org = o.id THEN now ELSE changed[i]]
    /\ UNCHANGED <<users, minted, now, token, request, answer>>

\* ON DELETE CASCADE.
Cascade(o) == {u \in users : u.org # o.id}

Close(o) ==
    /\ orgs' = orgs \ {o}
    /\ users' = Cascade(o)
    /\ changed' = [i \in Ids |-> IF \E u \in WithId(i) : u.org = o.id THEN now ELSE changed[i]]
    /\ UNCHANGED <<minted, now, token, request, answer>>

\* A deployment with stronger hashing parameters: every digest needs a rehash.
Harden ==
    /\ users' = {[u EXCEPT !.aged = TRUE] : u \in users}
    /\ UNCHANGED <<orgs, minted, now, token, request, answer, changed>>

Tick ==
    /\ now < MaxTime
    /\ \A c \in Clients : request[c] = Idle
    /\ now' = now + 1
    /\ UNCHANGED <<users, orgs, minted, token, request, answer, changed, edits>>

Administer == /\ edits < MaxEdits
              /\ edits' = edits + 1
              /\ \/ \E u \in users, role \in Roles, active \in BOOLEAN : Amend(u, role, active)
                 \/ \E o \in orgs, plan \in Plans : ChangePlan(o, plan)
                 \/ \E o \in orgs : Close(o)
                 \/ Harden

Next == \/ \E c \in Clients :
              \/ \E s \in Spellings, p \in Passwords :
                    (\E size \in Sizes : SignupCheck(c, s, p, size)) \/ LoginCheck(c, s, p)
              \/ SignupCommit(c) \/ LoginCommit(c) \/ Refresh(c) \/ Me(c)
              \/ SessionFor(c) \/ Drop(c)
        \/ Administer
        \/ Tick

Spec == Init /\ [][Next]_vars
=============================================================================
