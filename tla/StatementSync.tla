---------------------------- MODULE StatementSync ----------------------------
(***************************************************************************)
(* SyncEngine.sync and the /ingestion/statements/sync handler around it:   *)
(* idempotency key, replay cache, the page loop with its call budget, the  *)
(* provider's retries, and the parse, run by the threads of the request    *)
(* pool over one module-global engine.  The counter is RateCap, step by    *)
(* step; everything else a thread does between two shared accesses is one  *)
(* action.                                                                 *)
(*                                                                         *)
(* A statement is the sequence of the page numbers pulled; what a page     *)
(* says and what the parser makes of it is a choice of Parse.              *)
(***************************************************************************)
EXTENDS RateCap

CONSTANTS Requests,   \* what a user can ask the handler for
          KeyOf,      \* make_idempotency_key, as [Requests -> Keys]
          SourceOf,   \* the feed a request names: base_url, dialect, n_rows, page_size
          PageCount,  \* [sources -> pages the provider has for the window]
          MaxPages,   \* sync(max_pages=20)
          MaxRetries, \* HttpStatementProvider.max_retries
          MaxSyncs,   \* bound on the syncs begun
          Nothing     \* no request, no cache entry, no answer

Keys == {KeyOf[r] : r \in Requests}
Sources == {SourceOf[r] : r \in Requests}

ASSUME SyncAssumption ==
    /\ KeyOf \in [Requests -> Keys]
    /\ SourceOf \in [Requests -> Sources]
    /\ PageCount \in [Sources -> Nat \ {0}]
    /\ MaxPages \in Nat \ {0} /\ MaxRetries \in Nat /\ MaxSyncs \in Nat
    /\ IsFiniteSet(Workers)
    /\ Nothing \notin Requests

VARIABLES pc,      \* where each thread is in the handler
          req,     \* the request it serves
          pages,   \* `pages`/`chunks`: the pages pulled so far
          cursor,  \* `cursor`: page to ask for next, 0 for None
          attempt, \* fetch_page's retry counter
          verdict, \* what the parse said
          answer,  \* what the handler returned
          cache,   \* IdempotencyCache._entries
          syncs,   \* history: syncs begun
          spent,   \* history: budget charged to the running sync
          room,    \* history: budget left when it began
          http,    \* history: HTTP requests sent in this process lifetime
          fresh    \* history: results each key was answered with un-replayed

localVars == <<pc, req, pages, cursor, attempt, verdict, answer, spent, room>>
sharedVars == <<cache, syncs, http, fresh>>
syncVars == <<localVars, sharedVars>>
allVars == <<vars, syncVars>>

PCs == {"idle", "page", "charging", "calling", "parse", "status", "refusing", "answered"}
Verdicts == {"records", "rejected", "unparseable"}
Errors == {"rate_cap_exceeded", "provider_unavailable", "internal_error"}
Results == [source : Sources, pages : Seq(Nat), incomplete : BOOLEAN, verdict : Verdicts]

ASSUME ResultAssumption == Nothing \notin Results

-----------------------------------------------------------------------------
(* Result, flagging every sync that used the whole ceiling                 *)
FlagsFullCeiling(w, v) == [source |-> SourceOf[req[w]], pages |-> pages[w],
                           incomplete |-> Len(pages[w]) = MaxPages, verdict |-> v]

(* The result a finished sync returns and caches.  `for ... else` warns    *)
(* INCOMPLETE exactly when the loop was not left by a cleared cursor.      *)
Result(w, v) == [source |-> SourceOf[req[w]], pages |-> pages[w],
                 incomplete |-> cursor[w] # 0, verdict |-> v]

Answered(kind, r) == [kind |-> kind, result |-> r]

SyncInit ==
    /\ Init
    /\ pc = [w \in Workers |-> "idle"]
    /\ req = [w \in Workers |-> Nothing]
    /\ pages = [w \in Workers |-> <<>>]
    /\ cursor = [w \in Workers |-> 0]
    /\ attempt = [w \in Workers |-> 0]
    /\ verdict = [w \in Workers |-> Nothing]
    /\ answer = [w \in Workers |-> Nothing]
    /\ cache = [k \in Keys |-> Nothing]
    /\ syncs = 0
    /\ spent = [w \in Workers |-> 0]
    /\ room = [w \in Workers |-> 0]
    /\ http = 0
    /\ fresh = [k \in Keys |-> <<>>]

-----------------------------------------------------------------------------
CallsLeft == CallsAllowed - Cardinality(InWindow(callTime, clock))

\* Cached, passing over a result whose statement could not be read
CachedIfRead(r) ==
    LET c == cache[KeyOf[r]]
    IN  IF c = Nothing \/ c.verdict # "records" THEN Nothing ELSE c

\* What the replay cache remembers for the key of r
Cached(r) == cache[KeyOf[r]]

\* key = make_idempotency_key(...); cached = self.cache.get(key)
Begin(w, r) ==
    /\ pc[w] = "idle" /\ syncs < MaxSyncs
    /\ syncs' = syncs + 1
    /\ req' = [req EXCEPT ![w] = r]
    /\ room' = [room EXCEPT ![w] = CallsLeft]
    /\ \/ /\ Cached(r) = Nothing
          /\ pc' = [pc EXCEPT ![w] = "page"]
          /\ UNCHANGED answer
       \/ /\ Cached(r) # Nothing
          /\ pc' = [pc EXCEPT ![w] = "answered"]
          /\ answer' = [answer EXCEPT ![w] = Answered("replayed", Cached(r))]
    /\ UNCHANGED <<vars, pages, cursor, attempt, verdict, spent, cache, http, fresh>>

\* self.rate_cap.consume(cap_key), before the call it pays for
Charge(w) == /\ pc[w] = "page"
             /\ Enter(w, "consume")
             /\ pc' = [pc EXCEPT ![w] = "charging"]
             /\ UNCHANGED <<req, pages, cursor, attempt, verdict, answer, spent, room, sharedVars>>

InCounter(w) == Inside(w) /\ UNCHANGED syncVars

Charged(w) == /\ pc[w] = "charging" /\ step[w] = "accepted"
              /\ Leave(w)
              /\ spent' = [spent EXCEPT ![w] = @ + 1]
              /\ attempt' = [attempt EXCEPT ![w] = 0]
              /\ pc' = [pc EXCEPT ![w] = "calling"]
              /\ UNCHANGED <<req, pages, cursor, verdict, answer, room, sharedVars>>

\* RateCapExceeded leaves sync(); the handler asks status() for the 429 body
Exceeded(w) == /\ pc[w] = "charging" /\ step[w] = "refused"
               /\ Leave(w)
               /\ pc' = [pc EXCEPT ![w] = "refusing"]
               /\ UNCHANGED <<req, pages, cursor, attempt, verdict, answer, spent, room, sharedVars>>

-----------------------------------------------------------------------------
(* One HTTP exchange of fetch_page, by what comes back.                    *)

Asked(w) == IF cursor[w] = 0 THEN 1 ELSE cursor[w]

\* What a provider's cursor is to the loop: there is a page after this one, or not.
NextCursor(w) == IF Asked(w) < PageCount[SourceOf[req[w]]] THEN Asked(w) + 1 ELSE 0

\* PageArrives, caching what it has so far
CachesEarly(w) ==
    /\ pc[w] = "calling"
    /\ http' = http + 1
    /\ pages' = [pages EXCEPT ![w] = Append(@, Asked(w))]
    /\ cursor' = [cursor EXCEPT ![w] = NextCursor(w)]
    /\ cache' = [cache EXCEPT ![KeyOf[req[w]]] =
                   [source |-> SourceOf[req[w]], pages |-> Append(pages[w], Asked(w)),
                    incomplete |-> NextCursor(w) # 0, verdict |-> "records"]]
    /\ pc' = [pc EXCEPT ![w] = IF NextCursor(w) = 0 \/ Len(pages[w]) + 1 = MaxPages
                               THEN "parse" ELSE "page"]
    /\ UNCHANGED <<vars, req, attempt, verdict, answer, spent, room, syncs, fresh>>

\* A page: leave the loop when the cursor is None or the ceiling is reached.
PageArrives(w) ==
    /\ pc[w] = "calling"
    /\ http' = http + 1
    /\ pages' = [pages EXCEPT ![w] = Append(@, Asked(w))]
    /\ cursor' = [cursor EXCEPT ![w] = NextCursor(w)]
    /\ pc' = [pc EXCEPT ![w] = IF NextCursor(w) = 0 \/ Len(pages[w]) + 1 = MaxPages
                               THEN "parse" ELSE "page"]
    /\ UNCHANGED <<vars, req, attempt, verdict, answer, spent, room, cache, syncs, fresh>>

\* Retry through the counter again, and one that never gives up
ChargedRetry(w) ==
    /\ pc[w] = "calling" /\ attempt[w] < MaxRetries
    /\ http' = http + 1
    /\ attempt' = [attempt EXCEPT ![w] = @ + 1]
    /\ pc' = [pc EXCEPT ![w] = "page"]
    /\ UNCHANGED <<vars, req, pages, cursor, verdict, answer, spent, room,
                   cache, syncs, fresh>>

EndlessRetry(w) ==
    /\ pc[w] = "calling"
    /\ http' = IF http < MaxCalls THEN http + 1 ELSE 0
    /\ UNCHANGED <<vars, pc, req, pages, cursor, attempt, verdict, answer, spent, room,
                   cache, syncs, fresh>>

\* A retryable status, an unreachable host, a timeout or broken JSON
Retry(w) == /\ pc[w] = "calling" /\ attempt[w] < MaxRetries
            /\ http' = http + 1
            /\ attempt' = [attempt EXCEPT ![w] = @ + 1]
            /\ UNCHANGED <<vars, pc, req, pages, cursor, verdict, answer, spent, room,
                           cache, syncs, fresh>>

\* ProviderError (retries exhausted, a non-retryable status, an empty CSV) and
\* what fetch_page does not catch (a reset connection, a payload that is not an
\* object), or parse_statement throws but for StatementParseError: the exception
\* leaves sync(), the pages already pulled are dropped.
CallFails(w, kind) ==
    /\ \/ pc[w] = "calling"
       \/ pc[w] = "parse" /\ kind = "internal_error"
    /\ http' = IF pc[w] = "calling" THEN http + 1 ELSE http
    /\ answer' = [answer EXCEPT ![w] = Answered(kind, Nothing)]
    /\ pc' = [pc EXCEPT ![w] = "answered"]
    /\ UNCHANGED <<vars, req, pages, cursor, attempt, verdict, spent, room, cache, syncs, fresh>>

-----------------------------------------------------------------------------
\* parse_statement and to_records; StatementParseError becomes a warning
Parse(w, v) == /\ pc[w] = "parse"
               /\ verdict' = [verdict EXCEPT ![w] = v]
               /\ pc' = [pc EXCEPT ![w] = "status"]
               /\ UNCHANGED <<vars, req, pages, cursor, attempt, answer, spent, room, sharedVars>>

\* self.rate_cap.status(cap_key), for the result or for the 429 body
AskStatus(w) == /\ pc[w] \in {"status", "refusing"}
                /\ Enter(w, "status")
                /\ UNCHANGED syncVars

Refused(w) == /\ pc[w] = "refusing" /\ step[w] = "reported"
              /\ Leave(w)
              /\ answer' = [answer EXCEPT ![w] = Answered("rate_cap_exceeded", Nothing)]
              /\ pc' = [pc EXCEPT ![w] = "answered"]
              /\ UNCHANGED <<req, pages, cursor, attempt, verdict, spent, room, sharedVars>>

\* self.cache.put(key, ...) whatever the parse said and whatever is warned of
Finish(w) ==
    /\ pc[w] = "status" /\ step[w] = "reported"
    /\ Leave(w)
    /\ LET r == Result(w, verdict[w])
           k == KeyOf[req[w]]
       IN  /\ cache' = [cache EXCEPT ![k] = r]
           /\ fresh' = [fresh EXCEPT ![k] = Append(@, r)]
           /\ answer' = [answer EXCEPT ![w] = Answered("fresh", r)]
    /\ pc' = [pc EXCEPT ![w] = "answered"]
    /\ UNCHANGED <<req, pages, cursor, attempt, verdict, spent, room, syncs, http>>

Reset(w) ==
    /\ pc' = [pc EXCEPT ![w] = "idle"]
    /\ req' = [req EXCEPT ![w] = Nothing]
    /\ pages' = [pages EXCEPT ![w] = <<>>]
    /\ cursor' = [cursor EXCEPT ![w] = 0]
    /\ attempt' = [attempt EXCEPT ![w] = 0]
    /\ verdict' = [verdict EXCEPT ![w] = Nothing]
    /\ answer' = [answer EXCEPT ![w] = Nothing]
    /\ spent' = [spent EXCEPT ![w] = 0]
    /\ room' = [room EXCEPT ![w] = 0]

\* The response is sent; the thread goes back to the pool.
Reply(w) == pc[w] = "answered" /\ Reset(w) /\ UNCHANGED <<vars, sharedVars>>

\* Cache and counter are per process: a restart empties both, and drops the
\* requests being served.
SyncRestart == /\ ProcessRestart
               /\ pc' = [w \in Workers |-> "idle"]
               /\ req' = [w \in Workers |-> Nothing]
               /\ pages' = [w \in Workers |-> <<>>]
               /\ cursor' = [w \in Workers |-> 0]
               /\ attempt' = [w \in Workers |-> 0]
               /\ verdict' = [w \in Workers |-> Nothing]
               /\ answer' = [w \in Workers |-> Nothing]
               /\ spent' = [w \in Workers |-> 0]
               /\ room' = [w \in Workers |-> 0]
               /\ cache' = [k \in Keys |-> Nothing]
               /\ http' = 0
               /\ fresh' = [k \in Keys |-> <<>>]
               /\ UNCHANGED syncs

-----------------------------------------------------------------------------
Serve(w) == \/ Charge(w) \/ InCounter(w) \/ Charged(w) \/ Exceeded(w)
            \/ PageArrives(w) \/ Retry(w)
            \/ \E kind \in {"provider_unavailable", "internal_error"} : CallFails(w, kind)
            \/ \E v \in Verdicts : Parse(w, v)
            \/ AskStatus(w) \/ Refused(w) \/ Finish(w) \/ Reply(w)

SyncNext == \/ ClockTick /\ UNCHANGED syncVars
            \/ \E w \in Workers, r \in Requests : Begin(w, r)
            \/ \E w \in Workers : Serve(w)
            \/ SyncRestart

SyncSpec == SyncInit /\ [][SyncNext]_allVars

\* The pool runs every thread that can run, and a provider that does not answer
\* runs into the client's timeout, which is one of Retry and CallFails.
FairSyncSpec == SyncSpec /\ \A w \in Workers : WF_allVars(Serve(w))
=============================================================================
