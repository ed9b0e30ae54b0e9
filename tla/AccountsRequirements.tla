------------------------ MODULE AccountsRequirements ------------------------
(* What must hold of Accounts.                                               *)
EXTENDS Accounts

\* The tables, the tokens and the requests in flight are always well formed.
AccountsTypeOK ==
    /\ users \subseteq Rows
    /\ orgs \subseteq [id : Ids, plan : Plans]
    /\ minted \in 0 .. MaxAccounts
    /\ now \in Nat
    /\ token \in [Clients -> Tokens \union {None}]
    /\ request \in [Clients -> {Idle}
            \union [at : {"signup"}, email : Emails, password : Passwords, plan : Plans]
            \union [at : {"login"}, id : Ids, password : Passwords, rehash : BOOLEAN]
            \union [at : {"refresh"}, id : Ids]
            \union [at : {"session"}, user : Rows]]
    /\ changed \in [Ids -> Nat]
    /\ edits \in Nat

\* However two signups race (auth.py:224-266), and however the same address is
\* spelled, it names one account.
OneAccountPerEmail == \A u, v \in users : u.email = v.email => u = v

\* No signup, refused, interrupted or completed, leaves an organisation nobody
\* can sign in to, or a user whose organisation is gone.
NoOrphans == /\ \A o \in orgs : \E u \in users : u.org = o.id
             /\ \A u \in users : \E o \in orgs : u.org = o.id

PlanOf(u) == (CHOOSE o \in orgs : o.id = u.org).plan

\* What a token claims of its bearer (role, plan, an enabled account) may be out
\* of date for TTL after the change and never longer: renewing a session through
\* /auth/me or a sign-in under way does not carry an old claim on
\* (core/security.py:19-27, auth.py:308-329).
StaleAtMostTTL ==
    \A c \in Clients :
        LET t == token[c] IN
        t # None => \/ \E u \in WithId(t.sub) : /\ u.active
                                                /\ t.role = u.role
                                                /\ t.org = u.org
                                                /\ t.plan = PlanOf(u)
                    \/ t.exp <= changed[t.sub] + TTL

\* Signing up implements the registry: see Registry.
Promise == INSTANCE Registry
           WITH held <- {<<u.email, u.org>> : u \in users},
                told <- answer,
                Orgs <- Ids,
                Answers <- {"weak_password", "invalid_credentials", "account_disabled",
                            "invalid_token", "session", "error"}

\* Whatever the interleaving of requests, crashes and closures, the routes show
\* their clients a registry in which accounts appear at once and whole, and an
\* address is called taken only while it is (auth.py:224-266).
RegistryPromise == Promise!Spec
=============================================================================
