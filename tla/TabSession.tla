----------------------------- MODULE TabSession -----------------------------
(***************************************************************************)
(* The frontend's session: AuthProvider (lib/auth.tsx), the token it keeps *)
(* in a module variable and in localStorage (lib/api.ts), the AuthGuard,   *)
(* the login form, the sign-out button and useApi, in the browser tabs of  *)
(* one profile; and the tokens the backend issues, expires and refuses.    *)
(*                                                                         *)
(* Every answer of the backend is an action of its own: between a request  *)
(* and its answer the user, the other tabs and the other requests go on.   *)
(***************************************************************************)
EXTENDS Naturals, Sequences, FiniteSets

CONSTANTS Tabs, Users, Pages,
          Home,      \* safeNext's default, "/"
          Login,     \* the one public route
          None,      \* no token, no session, no request, no data
          MaxTokens  \* bound on the tokens issued

ASSUME TabAssumption == /\ Home \in Pages
                        /\ Login \notin Pages
                        /\ None \notin Nat
                        /\ None \notin [user : Users, next : Pages]
                        /\ MaxTokens \in Nat

VARIABLES
    issued,   \* owner of each token ever issued; a token is its index here
    expired,  \* tokens past their expiry
    inactive, \* users whose account is disabled
    storage,  \* localStorage["finascend.token"], shared by the tabs
    memory,   \* each tab's `authToken`
    session,  \* each tab's session, as the token it came with
    boot,     \* "closed", "checking" while /auth/me is out, "done" is `ready`
    bearer,   \* the token the tab's /auth/me carries, while it is out
    signins,  \* sign-ins (and sign-ups) sent and not yet answered
    form,     \* the sign-in the login form on screen is busy with
    place,    \* where the tab is
    next,     \* the login URL's ?next=, Home when there is none
    asked,    \* token carried by the page's request, while it is out
    shown,    \* token the data on the page was fetched with
    crossed   \* history: a sign-in was sent over another credential's head

serverVars == <<issued, expired, inactive>>
pageVars == <<asked, shown>>
tabVars == <<memory, session, boot, bearer, signins, form, place, next, crossed>>
allVars == <<serverVars, storage, tabVars, pageVars>>

Tokens == DOMAIN issued

SignIns == [user : Users, next : Pages]

-----------------------------------------------------------------------------
(* What is on screen.                                                      *)

\* AuthGuard renders the page itself: anything else is the login form or a
\* skeleton.
Mounted(t) == boot[t] = "done" /\ session[t] # None /\ place[t] # Login

\* const token = authToken ?? loadStoredToken().  The fallback would also set
\* authToken; RequestsUnderTheSession says no page on screen ever takes it.
Carried(t) == IF memory[t] # None THEN memory[t] ELSE storage

\* A variant of Render without useApi's `live` flag and cleanup
RenderKeepsAll(t) ==
    /\ asked' = [asked EXCEPT ![t] = IF ~Mounted(t) /\ Mounted(t)' /\ @ = None
                                     THEN Carried(t)' ELSE @]
    /\ UNCHANGED shown

\* What React makes of a change to t: a page that stays where it is stays
\* mounted, requests and data included, whoever the session now belongs to; a
\* page that goes away takes them with it (`live`); a page that appears asks.
Render(t) ==
    LET stays == Mounted(t) /\ Mounted(t)' /\ place'[t] = place[t]
    IN  /\ asked' = [asked EXCEPT ![t] = IF stays THEN @
                                         ELSE IF Mounted(t)' THEN Carried(t)' ELSE None]
        /\ shown' = [shown EXCEPT ![t] = IF stays THEN @ ELSE None]

\* setAuthToken
Store(t, token) == /\ memory' = [memory EXCEPT ![t] = token]
                   /\ storage' = token

-----------------------------------------------------------------------------
TabInit == /\ issued = <<>> /\ expired = {} /\ inactive = {}
           /\ storage = None
           /\ memory = [t \in Tabs |-> None]
           /\ session = [t \in Tabs |-> None]
           /\ boot = [t \in Tabs |-> "closed"]
           /\ bearer = [t \in Tabs |-> None]
           /\ signins = [t \in Tabs |-> {}]
           /\ form = [t \in Tabs |-> None]
           /\ place = [t \in Tabs |-> Login]
           /\ next = [t \in Tabs |-> Home]
           /\ asked = [t \in Tabs |-> None]
           /\ shown = [t \in Tabs |-> None]
           /\ crossed = [t \in Tabs |-> FALSE]

\* The tab is opened or refreshed at p: a fresh page, nothing of the old one. What ?next=
\* names is a page: the app never writes the login page there.
Open(t, p) ==
    /\ memory' = [memory EXCEPT ![t] = storage]
    /\ session' = [session EXCEPT ![t] = None]
    /\ boot' = [boot EXCEPT ![t] = IF storage = None THEN "done" ELSE "checking"]
    /\ bearer' = [bearer EXCEPT ![t] = storage]
    /\ signins' = [signins EXCEPT ![t] = {}]
    /\ form' = [form EXCEPT ![t] = None]
    /\ place' = [place EXCEPT ![t] = p]
    /\ \E q \in {Home} \cup (IF p = Login THEN {next[t]} ELSE {}) :
          next' = [next EXCEPT ![t] = q]
    /\ crossed' = [crossed EXCEPT ![t] = FALSE]
    /\ asked' = [asked EXCEPT ![t] = None]
    /\ shown' = [shown EXCEPT ![t] = None]
    /\ UNCHANGED <<serverVars, storage>>

\* The backend signs a new token for u
Issue(u) == /\ Len(issued) < MaxTokens
            /\ issued' = Append(issued, u)
            /\ UNCHANGED <<expired, inactive>>

\* setAuthToken(s.access_token); setSession(s)
Adopt(t, token) == /\ Store(t, token)
                   /\ session' = [session EXCEPT ![t] = token]

\* setAuthToken(null); setSession(null)
Forget(t) == /\ Store(t, None)
             /\ session' = [session EXCEPT ![t] = None]

-----------------------------------------------------------------------------
(* Boot: /auth/me and its answers.  It refuses an expired token and a      *)
(* disabled account, and reissues the token otherwise.                     *)

BootSucceeds(t) ==
    /\ boot[t] = "checking"
    /\ bearer[t] \notin expired /\ issued[bearer[t]] \notin inactive
    /\ Issue(issued[bearer[t]])
    /\ Adopt(t, Len(issued) + 1)
    /\ boot' = [boot EXCEPT ![t] = "done"]
    /\ bearer' = [bearer EXCEPT ![t] = None]
    /\ UNCHANGED <<signins, form, place, next, crossed>>
    /\ Render(t)

\* .catch(): a refusal, an unreachable backend, an error of the server
BootFails(t) ==
    /\ boot[t] = "checking"
    /\ Forget(t)
    /\ boot' = [boot EXCEPT ![t] = "done"]
    /\ bearer' = [bearer EXCEPT ![t] = None]
    /\ UNCHANGED <<serverVars, signins, form, place, next, crossed>>
    /\ Render(t)

BootAnswers(t) == BootSucceeds(t) \/ BootFails(t)

-----------------------------------------------------------------------------
(* The login form.  It is rendered before `ready`, and a sign-in goes on   *)
(* when its form is gone.                                                  *)

SubmitSignIn(t, u) ==
    LET s == [user |-> u, next |-> next[t]] IN
    /\ boot[t] # "closed" /\ place[t] = Login /\ form[t] = None
    /\ Len(issued) + Cardinality(signins[t]) < MaxTokens /\ s \notin signins[t]
    /\ signins' = [signins EXCEPT ![t] = @ \cup {s}]
    /\ form' = [form EXCEPT ![t] = s]
    /\ crossed' = [crossed EXCEPT ![t] =
                     @ \/ boot[t] = "checking" \/ signins[t] # {} \/ session[t] # None]
    /\ UNCHANGED <<serverVars, storage, memory, session, boot, bearer, place, next>>
    /\ Render(t)

\* adopt(await ...), then router.replace(next) with the `next` of the submit
SignInSucceeds(t, s) ==
    /\ s \in signins[t] /\ s.user \notin inactive
    /\ Issue(s.user)
    /\ Adopt(t, Len(issued) + 1)
    /\ signins' = [signins EXCEPT ![t] = @ \ {s}]
    /\ form' = [form EXCEPT ![t] = None]
    /\ place' = [place EXCEPT ![t] = s.next]
    /\ next' = [next EXCEPT ![t] = Home]
    /\ UNCHANGED <<boot, bearer, crossed>>
    /\ Render(t)

\* Wrong password, disabled account, backend unreachable
SignInFails(t, s) ==
    /\ s \in signins[t]
    /\ signins' = [signins EXCEPT ![t] = @ \ {s}]
    /\ form' = [form EXCEPT ![t] = IF @ = s THEN None ELSE @]
    /\ UNCHANGED <<serverVars, storage, memory, session, boot, bearer, place, next, crossed>>
    /\ Render(t)

\* The header shows the button as soon as there is a session.  Its own
\* router.replace("/login") and the guard's, which adds ?next=, both go out.
SignOut(t) ==
    /\ session[t] # None /\ place[t] # Login
    /\ Forget(t)
    /\ place' = [place EXCEPT ![t] = Login]
    /\ \E p \in {Home, place[t]} : next' = [next EXCEPT ![t] = p]
    /\ UNCHANGED <<serverVars, boot, bearer, signins, form, crossed>>
    /\ Render(t)

-----------------------------------------------------------------------------
(* Moving about.                                                           *)

\* A link, the address bar of the router, the back button
Navigate(t, p) ==
    /\ boot[t] # "closed" /\ p # place[t]
    /\ place' = [place EXCEPT ![t] = p]
    /\ next' = [next EXCEPT ![t] = Home]
    /\ form' = [form EXCEPT ![t] = None]
    /\ UNCHANGED <<serverVars, storage, memory, session, boot, bearer, signins, crossed>>
    /\ Render(t)

GuardSendsToLogin(t) ==
    /\ boot[t] = "done" /\ session[t] = None /\ place[t] # Login
    /\ place' = [place EXCEPT ![t] = Login]
    /\ next' = [next EXCEPT ![t] = place[t]]
    /\ UNCHANGED <<serverVars, storage, memory, session, boot, bearer, signins, form, crossed>>
    /\ Render(t)

GuardSendsBack(t) ==
    /\ boot[t] = "done" /\ session[t] # None /\ place[t] = Login
    /\ place' = [place EXCEPT ![t] = next[t]]
    /\ next' = [next EXCEPT ![t] = Home]
    /\ form' = [form EXCEPT ![t] = None]
    /\ UNCHANGED <<serverVars, storage, memory, session, boot, bearer, signins, crossed>>
    /\ Render(t)

\* A variant of Guard that leaves a signed-in user on the login form
GuardOneWay(t) == GuardSendsToLogin(t)

\* AuthGuard's effect: nothing before `ready`
Guard(t) == GuardSendsToLogin(t) \/ GuardSendsBack(t)

-----------------------------------------------------------------------------
(* useApi: the data of the page.                                           *)

PageAnswers(t) ==
    /\ asked[t] # None /\ asked[t] \notin expired
    /\ shown' = [shown EXCEPT ![t] = asked[t]]
    /\ asked' = [asked EXCEPT ![t] = None]
    /\ UNCHANGED <<serverVars, storage, tabVars>>

\* 401: isAuthFailure(e), so signOut()
PageRefused(t) ==
    /\ asked[t] # None /\ asked[t] \in expired
    /\ Forget(t)
    /\ UNCHANGED <<serverVars, boot, bearer, signins, form, place, next, crossed>>
    /\ Render(t)

\* PageFails, taking any error for an end of the session
AnyErrorSignsOut(t) ==
    /\ asked[t] # None
    /\ Forget(t)
    /\ UNCHANGED <<serverVars, boot, bearer, signins, form, place, next, crossed>>
    /\ Render(t)

\* Any other error is shown in place of the data.
PageFails(t) ==
    /\ asked[t] # None
    /\ asked' = [asked EXCEPT ![t] = None]
    /\ UNCHANGED <<serverVars, storage, tabVars, shown>>

\* The page's own reload button, or a dependency that changed
Reload(t) ==
    /\ Mounted(t) /\ asked[t] = None
    /\ asked' = [asked EXCEPT ![t] = Carried(t)]
    /\ UNCHANGED <<serverVars, storage, tabVars, shown>>

-----------------------------------------------------------------------------
(* The backend's side: time passes, an account is disabled.                *)

Expire(k) == /\ expired' = expired \cup {k}
             /\ UNCHANGED <<issued, inactive, storage, tabVars, pageVars>>

Disable(u) == /\ inactive' = inactive \cup {u}
              /\ UNCHANGED <<issued, expired, storage, tabVars, pageVars>>

Tab(t) == \/ \E p \in Pages \cup {Login} : Open(t, p) \/ Navigate(t, p)
          \/ BootAnswers(t) \/ Guard(t) \/ SignOut(t)
          \/ \E u \in Users : SubmitSignIn(t, u)
          \/ \E s \in signins[t] : SignInSucceeds(t, s) \/ SignInFails(t, s)
          \/ PageAnswers(t) \/ PageRefused(t) \/ PageFails(t) \/ Reload(t)

TabNext == \/ \E t \in Tabs : Tab(t)
           \/ \E k \in Tokens \ expired : Expire(k)
           \/ \E u \in Users \ inactive : Disable(u)

TabSpec == TabInit /\ [][TabNext]_allVars

\* A request to the backend is answered or fails in the end (the browser gives
\* up on it), and React runs the effects of what it renders.
FairTabSpec == TabSpec /\ \A t \in Tabs : WF_allVars(BootAnswers(t)) /\ WF_allVars(Guard(t))

-----------------------------------------------------------------------------
TokenOrNone == Tokens \cup {None}

TabTypeOK ==
    /\ issued \in Seq(Users)
    /\ expired \subseteq Tokens
    /\ inactive \subseteq Users
    /\ storage \in TokenOrNone
    /\ memory \in [Tabs -> TokenOrNone]
    /\ session \in [Tabs -> TokenOrNone]
    /\ boot \in [Tabs -> {"closed", "checking", "done"}]
    /\ bearer \in [Tabs -> TokenOrNone]
    /\ \A t \in Tabs : boot[t] = "checking" => bearer[t] \in Tokens
    /\ signins \in [Tabs -> SUBSET SignIns]
    /\ form \in [Tabs -> SignIns \cup {None}]
    /\ place \in [Tabs -> Pages \cup {Login}]
    /\ next \in [Tabs -> Pages]
    /\ asked \in [Tabs -> TokenOrNone]
    /\ shown \in [Tabs -> TokenOrNone]
    /\ crossed \in [Tabs -> BOOLEAN]

\* The identity on screen and the credential in use never part: while a tab has
\* a session, its module variable holds that session's token, whatever the other
\* tabs write to the storage, so a request never falls back to loadStoredToken()
\* and somebody else's token.
RequestsUnderTheSession ==
    \A t \in Tabs : session[t] # None => memory[t] = session[t]

\* What a page shows, and what its pending request will bring back (data, or the
\* 401 that signs the tab out), belongs to the session on screen, provided the
\* user sent no sign-in while another answer that sets the session was due.
PageBelongsToSession ==
    \A t \in Tabs : ~crossed[t] =>
        /\ asked[t] # None => asked[t] = session[t]
        /\ shown[t] # None => shown[t] = session[t]

\* The tabs of a profile share a storage and no more: no credential, and no data,
\* of one session is used or shown under another.
SessionsKeptApart == RequestsUnderTheSession /\ PageBelongsToSession

\* The tab shows a page to somebody signed in, or the login form to nobody.
Settled(t) == \/ boot[t] = "closed"
              \/ Mounted(t)
              \/ boot[t] = "done" /\ session[t] = None /\ place[t] = Login

\* No tab stays on the skeleton, or on the login form while signed in.
EveryTabSettles == \A t \in Tabs : ~Settled(t) ~> Settled(t)

GoodToken(k) == k \in Tokens \ expired /\ issued[k] \notin inactive

\* A session on screen ends for a reason of its own tab: the user signs out or
\* reloads, or the backend refuses an expired token of the page's.  Neither another
\* tab's sign-out nor a backend that stutters ends it, with one exception: the
\* boot forgets the session whatever its /auth/me failed of (auth.tsx:70-78), and
\* a sign-in sent over it is lost with it.
SessionEndsForCause ==
    \A t \in Tabs : session[t] # None /\ session'[t] = None =>
        \/ SignOut(t)
        \/ \E p \in Pages \cup {Login} : Open(t, p)
        \/ asked[t] \in expired
        \/ boot[t] = "checking" /\ crossed[t]

\* The storage loses its token only to a sign-out, to a boot that failed (the same
\* exception: of whatever it failed), or to a refusal that ends a session.  A
\* refusal never throws away the tab's own token while that is good, unless
\* sign-ins were crossed; it can throw away a good one that another tab stored.
TokenClearedForCause ==
    storage # None /\ storage' = None =>
        \E t \in Tabs :
            \/ SignOut(t)
            \/ BootFails(t)
            \/ /\ asked[t] \in expired /\ session[t] # None /\ session'[t] = None
               /\ ~crossed[t] /\ GoodToken(storage) => memory[t] # storage

\* Nobody is signed out, on screen or in the storage, but for one of these causes.
SignedOutForCause == [][SessionEndsForCause /\ TokenClearedForCause]_allVars
=============================================================================
