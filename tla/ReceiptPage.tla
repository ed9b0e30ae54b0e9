----------------------------- MODULE ReceiptPage -----------------------------
(* The receipt page in several tabs, and the reader behind it: requests in    *)
(* flight, the authenticated image shown from a blob URL, and the process's   *)
(* cache of engines, filled by threads that take no lock                      *)
(* (app/receipt/page.tsx, endpoints/ingestion.py, ocr_service.py).            *)
EXTENDS Naturals, FiniteSets

CONSTANTS
    Tabs, Samples,
    Upload,     \* an image of the user's own
    MaxReads,   \* bound on the readings asked for
    None

VARIABLES
    mounted,    \* tabs that have the page open
    selected,   \* each tab's sample, None for an upload
    busy,
    result,     \* what the fields on screen were read from
    effects,    \* each tab's runs of the image effect
    imgUrl,     \* the URL the page draws
    live,       \* blob URLs created and not revoked
    fetches,    \* image requests in flight
    job,        \* each tab's reading on the server
    reads,      \* readings asked for
    cache,      \* _ENGINE_CACHE's engine, 0 for none
    built,      \* engines ever constructed
    loaded      \* engines whose Reader holds its weights

pageVars == <<mounted, selected, busy, result>>
imageVars == <<effects, imgUrl, live, fetches>>
engineVars == <<cache, built, loaded>>
vars == <<pageVars, imageVars, job, reads, engineVars>>

\* The URL of the image a run of the effect asked for.
Url(t, n, s) == [tab |-> t, run |-> n, sample |-> s]

\* An upload is read on the event loop itself: nothing else is accepted or answered
\* meanwhile. A sample is read by a worker thread.
LoopTaken == \E t \in Tabs : job[t] # None /\ job[t].of = Upload /\ job[t].at # "sent"

Init ==
    /\ mounted = Tabs
    /\ selected = [t \in Tabs |-> None]
    /\ busy = [t \in Tabs |-> FALSE]
    /\ result = [t \in Tabs |-> None]
    /\ effects = [t \in Tabs |-> 0]
    /\ imgUrl = [t \in Tabs |-> None]
    /\ live = {} /\ fetches = {}
    /\ job = [t \in Tabs |-> None] /\ reads = 0
    /\ cache = 0 /\ built = 0 /\ loaded = {}

-----------------------------------------------------------------------------
(* The page.                                                                 *)

\* A cleanup that only marks the effect as dead.
MarkDead(t) == UNCHANGED live

\* The effect's cleanup: the URL it made is revoked, a late answer no longer wanted.
Revoke(t) == live' = {u \in live : u.tab # t}

\* The effect of a new selection; the URL drawn stays until the new image answers.
Watch(t, s) ==
    IF s = selected[t] THEN UNCHANGED imageVars
    ELSE /\ Revoke(t)
         /\ effects' = [effects EXCEPT ![t] = @ + 1]
         /\ IF s = None THEN imgUrl' = [imgUrl EXCEPT ![t] = None] /\ UNCHANGED fetches
                        ELSE fetches' = fetches \cup {Url(t, effects[t] + 1, s)} /\ UNCHANGED imgUrl

Clear(t) == result' = [result EXCEPT ![t] = None]

\* Buttons are disabled while busy; the hidden file input is opened by one of them
\* only, and nothing else in its tab can be pressed while its dialog is open.
Idle(t) == t \in mounted /\ ~busy[t]

\* runSample and runUpload.
Ask(t, x) ==
    LET s == IF x = Upload THEN None ELSE x
    IN  /\ Idle(t) /\ reads < MaxReads
        /\ busy' = [busy EXCEPT ![t] = TRUE]
        /\ selected' = [selected EXCEPT ![t] = s]
        /\ Clear(t)
        /\ Watch(t, s)
        /\ job' = [job EXCEPT ![t] = [of |-> x, at |-> "sent", engine |-> 0, cold |-> FALSE]]
        /\ reads' = reads + 1
        /\ UNCHANGED <<mounted, engineVars>>

ImageArrives(f) ==
    /\ f \in fetches /\ ~LoopTaken
    /\ fetches' = fetches \ {f}
    /\ IF f.tab \in mounted /\ f.run = effects[f.tab]
         THEN live' = live \cup {f} /\ imgUrl' = [imgUrl EXCEPT ![f.tab] = f]
         ELSE UNCHANGED <<live, imgUrl>>
    /\ UNCHANGED <<effects, pageVars, job, reads, engineVars>>

ImageFails(f) ==
    /\ f \in fetches
    /\ fetches' = fetches \ {f}
    /\ imgUrl' = [imgUrl EXCEPT ![f.tab] = IF f.tab \in mounted /\ f.run = effects[f.tab] THEN None ELSE @]
    /\ UNCHANGED <<effects, live, pageVars, job, reads, engineVars>>

\* The page goes away; what it asked for is read all the same.
Leave(t) ==
    /\ t \in mounted
    /\ mounted' = mounted \ {t}
    /\ Revoke(t)
    /\ UNCHANGED <<selected, busy, result, effects, imgUrl, fetches, job, reads, engineVars>>

-----------------------------------------------------------------------------
(* The reading: resolve_engine and _get_reader, a line at a time.             *)

At(t, phase) == job[t] # None /\ job[t].at = phase
Move(t, phase) == job' = [job EXCEPT ![t].at = phase]
Server == UNCHANGED <<pageVars, imageVars, reads>>

\* Some request found no engine and has not stored its own yet.
Racing == \E t \in Tabs : At(t, "build")

\* history: cold, whether an engine might have to be loaded when the request came.
Accept(t) ==
    /\ At(t, "sent") /\ ~LoopTaken
    /\ job' = [job EXCEPT ![t].at = "resolve", ![t].cold = cache \notin loaded \/ Racing]
    /\ Server /\ UNCHANGED engineVars

\* An engine for every request.
ResolveAnew(t) == At(t, "resolve") /\ Move(t, "build") /\ Server /\ UNCHANGED engineVars

Resolve(t) ==
    /\ At(t, "resolve")
    /\ IF cache = 0 THEN Move(t, "build") ELSE Move(t, "take")
    /\ Server /\ UNCHANGED engineVars

Build(t) ==
    /\ At(t, "build")
    /\ built' = built + 1 /\ cache' = built + 1
    /\ Move(t, "take")
    /\ Server /\ UNCHANGED loaded

Take(t) ==
    /\ At(t, "take")
    /\ job' = [job EXCEPT ![t].at = "reader", ![t].engine = cache]
    /\ Server /\ UNCHANGED engineVars

GetReader(t) ==
    /\ At(t, "reader")
    /\ Move(t, IF job[t].engine \in loaded THEN "reading" ELSE "loading")
    /\ Server /\ UNCHANGED engineVars

Load(t) ==
    /\ At(t, "loading")
    /\ loaded' = loaded \cup {job[t].engine}
    /\ Move(t, "reading")
    /\ Server /\ UNCHANGED <<cache, built>>

\* An error leaves the page busy.
AnswerInTryOnly(t) ==
    /\ At(t, "reading") /\ (LoopTaken => job[t].of = Upload)
    /\ job' = [job EXCEPT ![t] = None]
    /\ \/ /\ busy' = [busy EXCEPT ![t] = FALSE]
          /\ result' = [result EXCEPT ![t] = job[t].of]
       \/ UNCHANGED <<busy, result>>
    /\ UNCHANGED <<mounted, selected, imageVars, reads, engineVars>>

\* The page hears the reading's end, if it is still there.
Hears(t, results) ==
    /\ LoopTaken => job[t].of = Upload
    /\ job' = [job EXCEPT ![t] = None]
    /\ IF t \notin mounted THEN UNCHANGED <<busy, result>>
       ELSE busy' = [busy EXCEPT ![t] = FALSE] /\ \E r \in results : result' = [result EXCEPT ![t] = r]
    /\ UNCHANGED <<mounted, selected, imageVars, reads, engineVars>>

\* What was read, for the fields on screen, or an error of the reader's.
Answer(t) == At(t, "reading") /\ Hears(t, {job[t].of, result[t]})

\* An image that is not one, and a Reader that cannot be built.
Fails(t) == (At(t, "resolve") \/ At(t, "loading")) /\ Hears(t, {result[t]})

Read(t) == \/ Accept(t) \/ Resolve(t) \/ Build(t) \/ Take(t)
           \/ GetReader(t) \/ Load(t) \/ Answer(t) \/ Fails(t)

Next ==
    \/ \E t \in Tabs : \/ \E x \in Samples \cup {Upload} : Ask(t, x)
                       \/ Leave(t) \/ Read(t)
    \/ \E f \in fetches : ImageArrives(f) \/ ImageFails(f)

PageSpec == Init /\ [][Next]_vars

\* A server thread, and the event loop, go on; users and images need not.
FairPageSpec == PageSpec /\ \A t \in Tabs : SF_vars(Read(t))

-----------------------------------------------------------------------------
\* No blob outlives the selection it was fetched for, and the picture beside the
\* fields is the selection's; but until the new image answers it is the old one,
\* revoked (page.tsx:61-82).
PictureOfTheSelection ==
    /\ \A u \in live : u.tab \in mounted /\ u.run = effects[u.tab]
    /\ \A t \in mounted :
         result[t] # None /\ selected[t] # None /\ imgUrl[t] # None =>
            \/ imgUrl[t] \in live /\ imgUrl[t].sample = selected[t]
            \/ \E f \in fetches : f = Url(t, effects[t], selected[t])

\* "Cached so weights load once per process": a request that finds the engine of
\* the cache loaded, and no other request in between finding none and storing its
\* own, loads nothing (ocr_service.py:217-222, 312-323).
WarmStaysWarm == \A t \in Tabs : At(t, "loading") => job[t].cold

\* Every reading ends, and the page can be used again.
EveryReadSettles == \A t \in Tabs : busy[t] /\ t \in mounted ~> ~busy[t] \/ t \notin mounted
=============================================================================
