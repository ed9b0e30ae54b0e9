--------------------------- MODULE SyncRequirements ---------------------------
(* What a statement sync owes its caller and its call budget.               *)
EXTENDS StatementSync

Got(w, kind) == pc[w] = "answered" /\ answer[w].kind = kind

-----------------------------------------------------------------------------
\* A result holds the window from its first page on, each page once and in
\* cursor order, and it is flagged INCOMPLETE exactly when the provider still
\* had pages beyond the ceiling: neither a silent truncation nor a false alarm
\* on a window of exactly max_pages pages.
WholeWindowOrFlagged ==
    \A w \in Workers : \A kind \in {"fresh", "replayed"} : Got(w, kind) =>
        LET r == answer[w].result
            n == PageCount[r.source]
        IN  /\ r.pages = [i \in 1..Len(r.pages) |-> i]
            /\ Len(r.pages) = IF n <= MaxPages THEN n ELSE MaxPages
            /\ r.incomplete <=> n > MaxPages

\* What a sync is charged is what it cost: a replay nothing, a result one call
\* per page, a failed sync one more than the pages it got ("a failed call still
\* costs budget"), a refused sync the pages it got before the refusal.
ChargedForWhatItCost ==
    \A w \in Workers :
        /\ Got(w, "replayed") => spent[w] = 0
        /\ Got(w, "fresh") => spent[w] = Len(answer[w].result.pages)
        /\ Got(w, "provider_unavailable") => spent[w] = Len(pages[w]) + 1
        /\ Got(w, "rate_cap_exceeded") => spent[w] = Len(pages[w])

\* Retries are not charged, so the provider may see more requests than the
\* counter records, but never more than max_retries + 1 for each.
RequestsBounded == http <= (MaxRetries + 1) * Len(callTime)

\* A replay is a result this process really computed for the same key, not a
\* mixture of two syncs that ran at once.  The key leaves out the feed a request
\* names (base_url, dialect, n_rows, page_size), so it may be another feed's.
ReplayOfAFreshResult ==
    \A w \in Workers : Got(w, "replayed") =>
        \E i \in DOMAIN fresh[KeyOf[req[w]]] :
            fresh[KeyOf[req[w]]][i] = answer[w].result

\* A thread that is asked for a statement answers, or the process restarts:
\* the page loop, the retries and the counter all end.
EverySyncEnds == \A w \in Workers : pc[w] # "idle" ~> pc[w] = "idle"

\* What a sync is answered with is a whole window or says it is not, and what it
\* is answered with again is what it was answered with before.
SoundResults == WholeWindowOrFlagged /\ ReplayOfAFreshResult

\* "The same window is never double-posted", as far as a cache that is read
\* before the pull and written after it can promise: within one process lifetime
\* a key is answered un-replayed at most once by each thread that was pulling it
\* at the same time, so once and only once while requests are served one by one.
FreshOncePerThread == \A k \in Keys : Len(fresh[k]) <= Cardinality(Workers)

\* A sync that starts with the budget for all its pages is never refused half
\* way, while requests are served one at a time: time only frees budget, and
\* nothing but its own pages is charged to it.
BudgetSuffices ==
    \A w \in Workers : Got(w, "rate_cap_exceeded") =>
        LET n == PageCount[SourceOf[req[w]]]
        IN  room[w] < IF n <= MaxPages THEN n ELSE MaxPages

\* The counter's books are right: every call is charged once and to the sync that
\* made it, and a budget that covered a sync when it began lasts to its end.
CallsAccountedFor == ChargedForWhatItCost /\ RequestsBounded /\ BudgetSuffices
=============================================================================
