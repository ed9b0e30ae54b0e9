# FinAscend in TLA+

FinAscend helps a small business decide whom to pay when cash is short. A
FastAPI backend pulls bank statements and receipts, forecasts cash, simulates,
solves an allocation problem, and keeps an approval log; a Next.js frontend
shows it. This directory holds a TLA+ development of the parts of it that keep
state, run concurrently, fail, or promise something of every input:
specifications, model-checking runs, and proofs checked by TLAPS. `PROJECT.json`
maps every definition to the lines it models, and lists the runs, the hazards,
the findings and the theorems.

Paths below are relative to `src/finascend/`; `app/` is `backend/app/`.

## 1. Inventory

| Part | State it keeps | Operations | Talks to |
|---|---|---|---|
| Statement sync (`app/services/ingestion/bank_api_client.py`, sync handler in `app/api/v1/endpoints/ingestion.py`) | per process: the call counter's lists, the idempotency cache | `sync`, `consume`, `status`, `fetch_page` with retries | the provider over HTTP; the statement parser; the thread pool shares one engine |
| Audit log (`app/services/audit/hash_chain_logger.py`, `router.py`) | per process: the list of entries | `append` (approve), `verify`, `head_hash` | the thread pool; an auditor who may keep the head hash |
| Frontend session (`frontend/lib/auth.tsx`, `lib/api.ts`, `components/guard.tsx`, `components/ui.tsx`, `components/shell.tsx`, `app/login/page.tsx`) | token in a module variable and in `localStorage`, session in React state, page data | boot, sign-in, sign-up, sign-out, guard redirects, page loads, 401 handling | the backend's `/auth/*`; the other tabs, through `localStorage` |
| Accounts (`app/api/v1/endpoints/auth.py`, `core/`, `models/`, `db/session.py`) | users and organisations in the database; stateless tokens | signup, login, me | the unique index, the cascade; every endpoint |
| Allocation (`app/services/quant_core/optimization/`, `decision_engine/`, plan endpoint) | none between calls; DP table, deque, remaining cash inside one | greedy rule, knapsack DP, LP, chance-constrained LP, cross-validation, explained plan | router, backtest |
| Statement parser (`app/services/ingestion/statement_parser.py`) | none between calls | column mapping by the running balance, date format, diagnosis, record ids | sync, upload endpoints |
| Receipts (`ocr_service.py`, `normalizer.py`, `receipt_generator.py`) | none between calls | rows, field extraction, normalisation, duplicate screen | receipt endpoints and page |
| Receipt page and reader (`frontend/app/receipt/page.tsx`, `ingestion.py`, `ocr_service.py`) | page state, blob URL; per process: engine cache with lazily loaded weights | pick a sample, upload, show the image, read | the thread pool, the event loop |
| Backtest (`app/services/backtesting/`, `pipeline.py`, `synthetic_data.py`) | forecast cache shared by the replays of one run | worlds, as-of view, replay loop, hindsight, regret | all quant parts |
| Forecast, simulation, ruin (`forecasting.py`, `monte_carlo_engine.py`, `bankruptcy_risk.py`) | none | walk-forward selection, conformal interval, cash paths, Runway-at-Risk, ruin curve and hazards | router, backtest |
| Counterparty risk, credit scoring, anomalies, text | none | statistical learning | router |
| Router, schemas, charts, entitlement table | `lru_cache`s over deterministic functions | composition | everything |
| `action_generator`, `adversarial`, `simulation`, `nlp`, `graph_rag`, `market_intelligence`, `data_intelligence`, `websockets` | empty packages | none | nothing |

What is hard here, and what each part must get right:

* *Statement sync.* Endpoints are plain `def`s, so FastAPI runs them in a thread
  pool, and the engine is module-global: the counter prunes, checks and appends
  without a lock, and the cache is looked up at the start of a pull and filled at
  its end. Time moves a rolling window. Calls fail, are retried below the
  counter, and the budget may run out between two pages. Right means: no window
  over budget, no spurious refusal, each sync charged what it cost, a whole window
  or a flagged one, one post per key, and an answer in the end.
* *Audit log.* The same thread pool appends to a chain in three steps. Right
  means: an edit located where it was made, nothing else reported, and a published
  head that fixes the history behind it.
* *Frontend session.* Every `await` lets the user, another tab or another answer
  go first. Right means: requests go out under the session on screen, a page never
  shows another user's data, no tab is stuck, and a session ends only for cause.
* *Accounts.* Two signups race for an address between the check and the commit; a
  worker may die between them; a token outlives what it says.
* *Allocation.* Floors and ceilings to cells, all-or-nothing items, a sliding-window
  maximum, a walk back through the choice table, a quantile of few scenarios: never
  spend more than there is, never more than is owed, be optimal where optimality
  is claimed, and explain the plan truthfully.
* *Parser.* Many readings of a file compete, and the running balance decides; row
  0, empty columns, ambiguous dates, joined pages and overlapping pulls are where
  it can go wrong without an error.
* *Receipts.* Damage to one region must not promote another figure; a repeated scan
  must be caught, and one copy kept.
* *Receipt page and reader.* Answers arrive after the choice changed; a cache is
  filled by threads without a lock; an upload holds the event loop.
* *Backtest.* The as-of boundary, a cache whose key leaves something out, and a
  benchmark that must not lose to the plan it judges.
* *Forecast to runway.* Ranks, quantiles and horizons one off; censoring; reports
  that must agree with each other.

The hazards, each at its line, are in `PROJECT.json` under `hazards`; every one has
a property, and a note where the property excepts a part that the code gets wrong.

## 2. Modules

| Module | What it is |
|---|---|
| `CallBudget` | abstract promise of the call counter |
| `RateCap` | `RateCap`, step by step, for any number of threads; with one thread it implements `CallBudget` |
| `RateCapHistory` | `RateCap` with a history: were two threads ever inside the counter at once |
| `StatementSync`, `SyncRequirements` | `SyncEngine.sync` and its handler, on top of `RateCap`, and what a sync owes its caller |
| `AuditChain` | the log, its insider and its auditor, with their requirements |
| `TabSession` | the frontend session, several tabs, with their requirements |
| `Allocation`, `AllocationRequirements` | the solvers and the explained plan, and what each owes |
| `Registry` | abstract promise of signing up |
| `Accounts`, `AccountsRequirements` | the three routes over the tables; they implement `Registry` |
| `StatementParser`, `StatementRequirements` | ledger, layouts, pages, parser and records |
| `Replay`, `ReplayRequirements` | worlds, observer, replays, shared cache, hindsight and regret |
| `Runway`, `RunwayRequirements` | history to forecast, paths, Runway-at-Risk, ruin reports |
| `Receipts`, `ReceiptRequirements` | photographs to rows to fields to records, and the duplicate screen |
| `ReceiptPage` | tabs, requests, blob URLs and the engine cache, with their requirements |
| `OrderStatistics` | what is read off a sorted sample; `Allocation`, `Runway` and `Receipts` use it |
| `MC*` | instances for TLC |
| `SyncProofs`, `AuditAndSessionProofs`, `AccountsProofs`, `StatementProofs`, `ReceiptProofs`, `ReplayProofs`, `DecisionProofs` | theorems and proofs; `AuditAndSessionProofs` is about `AuditChain` and, apart from it, `TabSession`; `ReceiptProofs` about `ReceiptPage` and, apart from it, `Receipts`; `DecisionProofs` about `Runway` and `Allocation` |
| `DataLemmas` | lemmas about sums, finite sets, division and order statistics that they share |

### RateCap and CallBudget

`_calls[key]` is a Python list object. `_prune` builds a new list and rebinds the
key; a thread then checks the list *it* built but appends to the list bound *now*.
The model keeps this: `list[w]` is the list thread `w` last bound, `bound` says
whose list the key names, `kept[w]` is a list built and not yet bound, and `step[w]`
walks `Enter`, `ReadCalls`, `Rebind`, `Refuse` or `Pass`, `Record` (or `Report` for
`status`), `Leave`. One step is one access to the dictionary or to a list, which is
what the interpreter can interleave; the lookup and the append of line 180 are one
step, because a rebind between them loses the call exactly as one between
`ReadCalls` and `Rebind` does. A list of timestamps is kept as the set of the calls
in it, a call being its index in the history `callTime`. `ClockTick` lets time pass
anywhere, but a thread does not sleep for a whole 30-day window inside one call of
the counter. `ProcessRestart` empties everything. `RateCapHistory` adds `overlapped`,
set by the first step that puts two threads inside and cleared by a restart.

One cap key is modelled. The code's key is provider and business, and the handler
passes one business; keys do not interact.

### StatementSync and SyncRequirements

A thread goes `idle`, `page` (top of the loop), `charging` (inside `consume`),
`calling`, back to `page` or on to `parse`, `status` (inside `RateCap.status`),
`answered`; `refusing` is the handler's `except RateCapExceeded`, which asks
`status` for the body of the 429. A statement is the sequence of page numbers
pulled; `cursor` is the page to ask for next, 0 for `None`. The provider is
nondeterministic: a page, a retryable failure (`Retry`, not charged), or an
exception (`CallFails`, with both kinds the handler can return: a `ProviderError`
becomes a 502, what `fetch_page` does not catch a 500; so is what the parse throws
besides its own error). The parse is otherwise a choice of three outcomes, because
`sync` caches and returns whatever it says. `NextCursor` is what any provider's cursor
is to the loop: there is a page after this one, or not. `syncs`,
`spent`, `room`, `http` and `fresh` are histories that only properties read.

`KeyOf` and `SourceOf` are constants because what the key leaves out is the point:
`MCSync` gives two requests with different feeds the same key, as the code does.

### AuditChain

`append` is `ReadLength`, `ReadHead`, `AppendEntry`. The hash of an entry is the
sequence of all it commits to, so two hashes are equal exactly when everything
behind them is: SHA-256 idealised as injective. `Broken` is the set of entries
`verify` would call broken; the first one it names is the least of them. The
insider may change an entry's contents, reseal that entry, or replace a whole tail
consistently. The auditor keeps the log behind the last published head, and takes the head only
of a log that verifies.

### TabSession

A token is its index in `issued`; a session is named by the token it came with.
`memory`, `storage`, `session`, `boot`, `form`, `place`, `next` are the code's state
under other names; `asked` and `shown` are the page's pending request and its data,
each named by the token that carried it; one request stands for the several `useApi`
calls of a page. `Render` is what React makes of a change: a page that stays keeps
its requests and data, a page that goes takes them along (`live = false`), a page
that appears asks. `setAuthToken` and `setSession` run in one callback, so `Adopt`
and `Forget` are atomic. `loadStoredToken` inside `request` would also set the
module variable; `SessionsKeptApart` implies that path is never taken while a
page is on screen, so `Carried` need not. `crossed` remembers that a sign-in was
sent while an answer that also sets the session was due (the boot's, or another
sign-in's) or while signed in: then the page can keep the other session's data, and
`SessionsKeptApart` does not claim otherwise. The double effects of React's
development mode are not modelled.

### Allocation and AllocationRequirements

`AllocationInit` picks an instance and one solver to run on it. `phase` is where the
solver is: `start`, then `pay` (the rule's loop over its ranking: `PayNext`, then
`StopPaying`), or `row` (one obligation of the DP: `RigidRow` and `CopiedRow` fill
the row at once, as the code's array operations do, `Slide` is one turn of the loop
over cells with its deque `dq`) and `walk` (`WalkBack` through the choice table),
and `done`. `prev`, `cur`, `choice`, `take`, `c`, `i`, `remaining` are the code's
variables; a row's `cur` grows as the code fills it. `Prioritized` allows any order
among obligations with equal rates, since due dates play no other part.

The MILP (`lp_solver.py`) builds a model and hands it to CBC; here it is the set
`Optima` of its optima. `SolveExactly` takes any of them, as the plan endpoint does,
and `ActionType`, `Shortfall` and `LateFee` say what the endpoint tells of each bill;
the chance-constrained solve takes one within the smaller of the cash and
`SafeSpend`. That is exact for integer data: with whole amounts and a whole budget,
some optimum is whole. Money is counted in paise, so the solvers' float tolerances
(1e-9, 1e-6, CBC's gap, a paisa per item) decide nothing and are left out, as are
`choose_unit` (`Unit` is a constant) and the stability statistic. `np.quantile` is
its linear interpolation, in integers that divide.

### Accounts, AccountsRequirements and Registry

A request is at one database access at a time: a signup reads (`SignupCheck`) and
commits (`SignupCommit`, where the unique index may refuse), then refreshes; a login
reads and verifies (`LoginCheck`), then commits the rehash and the time of login.
`Refresh` and `Me` read the user's row; the organisation's is read by a query of its
own, after which the token is issued (`SessionFor`). Between any two of them other requests, an administrator (`Amend`, `ChangePlan`,
`Close` with its cascade), a stronger hash setting (`Harden`) or the clock may go,
and `Drop` is a worker that dies: its transaction leaves nothing. A token is a record
of its claims; `Me` and `SessionFor` reissue one from the tables. `changed` and `minted` are
histories: when a user's claims last changed, and how many ids were ever given out
(uuid4 never repeats). Argon2 is idealised: a digest verifies its own password and no
other. A request takes less time than a token lives.

`Registry` is what this promises: an address names at most one account, which comes
and goes with its own organisation, and an address is called taken only while it is.

### StatementParser and StatementRequirements

A run writes a ledger (`Transact`), renders it in one of seven layouts, cuts it into
pages, joins them as `_concatenate_pages` does (a page loses its leading lines while
they equal the first page's), damages it or not, and parses it (`Pull`). A cell is
what `parse_amount` makes of it; a date cell is the written pair of day and month,
which either format may read. `Candidates` enumerates the mappings in the code's
order, `Residuals` is the identity, `Merit` the key of `max`, and `Chosen` the first
of the best. Header scores are a table of the values the fuzzy matcher gives to the
layouts' headers. A record's identity is its date, amounts, direction and narrative,
as `_record_id` has it: two equal transactions of one day share one, by design.

### Replay and ReplayRequirements

A world is a set of invoices and the daily outflows; `Receipts`, `Balance` and
`Operating` build the daily series from them, with a payment at a half day because
`paid_date` is a due date plus a fractional delay while days compare at midnight. An
observer on a day sees a `View`; a step of a replay (`Decide`) takes its forecast from
the shared cache or computes it, and records it *as what it was computed from*, so a
property can tell whose it is. A replay stops where the history does; nothing in the
repository gives it another end. Every plan the strategy could make is then scored
against `HindsightPenalty`, on the days after.

### Runway and RunwayRequirements

One run goes from a history over walk-forward folds, selection and the conformal
interval to the simulated paths, the Runway-at-Risk and the ruin reports, as the
router chains them. What statsmodels or scipy fits and draws is external: a fitted
model predicts from the past by one representative function, and shocks, delays and
the growth of scales are small sets. A model with a variance of its own has a scale
for every fold, one without a profile for all. A simulation for a payer with fewer than
ten settled invoices is refused in the code and not begun in the model; scales of zero
and non-finite ones, which the code drops, do not occur. Everything computed *from* those is in the
code's own arithmetic: fold bounds, residual order, rank, horizon censoring, floors,
quantile interpolation, absorbing ruin, bins.

### Receipts and ReceiptRequirements

`Layout` is what the generator prints: regions with the label words, digit groups,
dates and numbers that extraction looks for. A photograph damages a bounded number of
regions: lost, read as other words, sunk below its line, or, for a figure, its marks
blank, its marks gone, its leading group cut. `Rows` groups what is left (`Seen`) from
the top (`Tops`: a row starts where nothing is a little higher);
`Extract` is `extract_fields`; `Normalize` builds a record or refuses; `Screen` marks
duplicates after the last image, with the density clustering free wherever features
are not equal. `Bills` is what a bill is: no template of the generator draws a sum below
the thousands, and `ReceiptAssumption` asks for a hundred, so that no figure is too short
to be an amount. The repair of digits misread as letters is not spelled out: a garbled
region has no digits left to repair. The search of the whole text for a bill's number
finds nothing more, as a region that holds the number says "inv" and is a label itself.
The template of the tax authority, whose name holds a tax label, is left out.

### ReceiptPage

A tab's `selected`, `busy`, `image` and blob URLs are the page's; a job is a reading
on its way through `resolve_engine` (`Resolve`, `Build`, `Take`), the lazily loaded
reader (`GetReader`, `Load`) and the answer, or an error, of an image that is none or
a reader that cannot be built (`Fails`). An upload is an `async def` that works on
the event loop, so while it runs no other request is accepted (`LoopTaken`). The
effect that fetches the picture drops an answer whose selection is gone (`Watch`,
`ImageArrives`, `Revoke`). `cold` is a history: an engine might have to be loaded when
the request came.

## 3. Runs

| Run | Bounds | Properties |
|---|---|---|
| `RateCapThreads` | 2 threads, cap 2, window 2, clock 0..3, 4 calls | `NoSpuriousRefusal`, `OverrunNeedsOverlap` |
| `SyncSerial` | 1 thread, 3 requests over 2 keys, feeds of 1, 2 and 3 pages, ceiling 2, 1 retry, cap 3, window 2, clock 0..2, 6 calls, 3 syncs | `SoundResults`, `CallsAccountedFor`, `BudgetSpec`, `EverySyncEnds` |
| `SyncThreads` | 2 threads, 2 requests sharing a key, no retries, clock still, 4 calls, 3 syncs | `SoundResults`, `FreshOncePerThread` |
| `AuditThreads` | 2 approvers, 2 contents, 2 entries, 2 edits | `EditsLocated`, `Anchored` |
| `TabSession` | 2 tabs, 1 user, 2 pages, 2 tokens | `SessionsKeptApart`, `EveryTabSettles`, `SignedOutForCause` |
| `Accounts` | 2 clients (symmetric), 2 spellings of one address, 2 passwords of which one weak, 2 accounts, token life 2, clock 0..2, 2 edits | `StaleAtMostTTL`, `RegistryPromise` |
| `Allocation` | up to 3 obligations of 1, 3 or 4 at rates 1 or 2, rigid or not, cell 2, cash -1, 0, 1, 3, 4, 7, epsilon 1/4 over five samples of 3 to 5 scenarios | `WithinMeans`, `AgreeWhereClaimed`, `HoldingOffCostsLeast`, `ShortfallNearEpsilon` |
| `Statements` | ledgers of up to 5 rows, a fifth only where all have one date, 2 amounts, 3 dates of a calendar of 2 months of 3 days, 7 layouts, pages of 2, intact, one balance altered, or one row missing | `ReadsBackWhatIsChecked`, `RefusesOnly`, `DatesRightOrFlagged`, `OverlapPostsNothingTwice`, `DamageShows`, `DiagnosisNames` |
| `Receipts` | batches of 1 to 3 bills, 2, 2 and 1 damaged regions | `TotalSurvivesDamageElsewhere`, `CrossCheckHolds`, `RescansAreCaught`, `ReadOrRefused` |
| `ReceiptPage` | 2 tabs, 2 samples and uploads, 3 readings | `PictureOfTheSelection`, `WarmStaysWarm`, `EveryReadSettles` |
| `Replay` | 5 days, horizon 2, history 1, 2 data sets, every world of 2 outflow series and up to 2 invoices, 2 replays | `NoLookAhead`, `MoneyCountedOnce`, `ForecastIsOwn`, `RegretIsFair` |
| `Runway` | 4 histories of 5 to 8 days, period 2, validation horizon 2, up to 2 folds, horizon 4, confidence 3/4, 3 sets of receivables, 3 simulated paths, alpha 1/20 and 1/2, bins of 3 days | `CoversWhatIsLeftOut`, `RunwayMeansWhatItSays`, `ReportsAgree`, `SlowerPayersNeverHelp` |

Each property is preceded by a comment with its meaning and the lines it is about;
`PROJECT.json` says in a sentence what each run shows. Every property also has a
mutant there, a plausible bug in a mapped definition that makes TLC refute it.

Many properties state a promise *and* its exact exception, because the code breaks
the unqualified promise: `OverrunNeedsOverlap`, `EditsLocated` (unless two approvals
forked the log), `FreshOncePerThread`, `SignedOutForCause`, `ForecastIsOwn`,
`MoneyCountedOnce`, `RefusesOnly`, `ReadsBackWhatIsChecked` (not the blind first row of
a flagged statement, nor withdrawals alone) and others. Section 5 has the exceptions.

Why the bounds are enough to be interesting. Cap 2 and window 2 with a clock to 3
let calls expire while others do not, so both sides of the cutoff occur. A ceiling
of 2 with feeds of 1, 2 and 3 pages covers below, exactly at and beyond it. Cap 3
with 3 syncs lets the budget run out before, within and after a sync. Two threads
are enough for every race found: each is between one reader and one writer. Two
tokens let one session replace another; a token's owner does not matter to the
properties, which speak of tokens. Two clients and one address in two spellings are a
signup race; a token life of two ticks leaves a tick in which a stale claim is live.
With cell 2, amounts 1, 3 and 4 are less than a cell, between cells and on one, and
cash 1, 3 and 7 leave a remainder; cash 7 gives rows of four cells, wide enough for
the deque to admit, dominate and evict in one row; three obligations let a rigid one
block, and be blocked; the samples cover shortfall at no spend, ties, and sizes that
epsilon does and does not divide. Four rows in pages of two make two whole pages, a
repeated first line, a column that is empty all the way down, and a first row that is
the only debit; a fifth leaves three residuals after a lost row, so that every verdict
of the diagnosis is reachable, the missing row among them (`FifthRowSameDay` keeps it to
ledgers of one date: what dates do has no part in it); two months of three days make dates that read both ways and dates
that do not. Three damaged regions over a batch, two of them on one bill, can hit a
label and its figure, or the total and the subtotal. Five days with a horizon of two
give steps with and without a future to leak, and two data sets a cache to share. The
histories are long enough for two folds and short enough for the rank to exceed the
scores; three paths make the quantile fall between two runways.

`CHECK_DEADLOCK FALSE` is set where the thing modelled is a bounded task that ends:
`Statements`, `Receipts`, `ReceiptPage`, `Replay`, `Runway`. The servers and the tabs
are checked for deadlock.

Fairness. `FairSyncSpec` assumes weak fairness of each thread's step: the pool runs
runnable threads, and `urlopen` has a timeout, so a call that gets no answer ends as
`Retry` or `CallFails`. (The timeout is per read; a provider that drips bytes forever
is outside the model.) `FairTabSpec` assumes that a request is answered or fails in
the end and that React runs the effects of what it rendered. `FairPageSpec` assumes
strong fairness of each tab's reading: uploads take the event loop again and again,
and a loop that serves its queue in order lets a waiting request in between them.
Nothing else is fair: users, insiders, administrators, clocks and restarts may or may
not act.

## 4. Proofs

All theorems hold for every value of the constants that satisfies the named assumptions
of the modules (`BudgetAssumption`, `RateCapAssumption`, `SyncAssumption`,
`ResultAssumption`, `AuditAssumption`, `TabAssumption`, `AccountsAssumption`,
`ParserAssumption`, `LayoutsAssumption`, `ReplayAssumption`, `RunwayAssumption`,
`ReceiptAssumption`, `AllocationAssumption`); TLC evaluates each on every run. "With
one thread" is a hypothesis of the theorem that says so. Type correctness is proved, as
a theorem of its own or as a part of the inductive invariant, and not run again.

* `SyncProofs`, the counter. `BudgetRespected`: the guard of `RecordCall` looks at one
  window only, the one that ends at the new call. Since stamps never go back, every
  other window that contains the new call is contained in that one
  (`RecordKeepsWindow`), which is why the guard suffices. `TypeCorrect`;
  `RefusalsAreReal` from `CapInv`, the inductive invariant that what a thread counts
  are recorded calls younger than its cutoff; `SerialImplementsBudget`, `SerialWindow`
  and `SerialStatus` from the serial invariant that the bound list holds all live
  calls. It fails with two threads; `OverrunIsOverlap` says exactly when: `AloneInv`
  carries the serial invariant, for whichever thread is inside, through every history
  in which no two were inside together.
* `SyncProofs`, the sync. `SyncInv` is typing, a part per thread (`ServiceInv`: what a
  thread holds inside the page loop, once pulled, and with its answer) and a part
  about the cache (`CacheInv`). The part that matters: once a key is in the cache
  nobody sets out to pull it, so the results computed for a key and the threads still
  pulling it together never exceed the number of threads. Hence `EveryResultSound`,
  `OncePerThread` and `ChargesAreCosts`, for any number of threads.
  `RequestsStayBounded` adds what each page and its retries may have cost so far;
  `BudgetLasts` adds `LedgerInv`, which ties the room a sync found when it began, less
  what it has spent, to the calls that still fit; `BooksRight` is the three together.
* `AuditAndSessionProofs`, the log: `AnchoredAlways` by the least position at which two valid logs
  with equal heads differ (`HeadPinsLog`); `EditsAlwaysLocated` from an invariant that
  ties stored hashes and links to the contents as appended, for a log no two approvals
  forked.
* `AuditAndSessionProofs`, the tabs: `SessionHoldsItsToken` is inductive with typing;
  `PageHoldsItsSession` needs `PageInv`, which adds that an uncrossed tab has at most
  one answer due that sets the session, and has no session while it is due;
  `SessionsAreKeptApart` follows from both. `SignedOutForCauseOnly` goes through the
  actions that touch a session or the stored token (`SessionEnds`, `TokenCleared`): a
  good token that a refusal clears was another tab's, or sign-ins were crossed.
* `AccountsProofs`: `AccountsInv` says that ids are numbered and unique, that what a
  request in flight carries is what it found, that it found an account enabled or
  the account was disabled within this tick, and that the row a session is made from is
  still the row, or was touched within this tick (`Fresh`); with the date of each change this gives
  `ClaimsExpire`. `TablesStayWhole` needs the index at the commit, not the check
  before it. `RegistryImplemented` is the refinement of `Registry`, action by action.
* `StatementProofs`. `StatementInv`, proved in `StatementCorrect`: the ledger chains (each
  balance is the last one, plus credit, less debit) and runs on in date, and a pull
  holds the parse of the pages of a window of it. The rest is about what a parse of such
  pages is. *Joining.* Cutting a list into pages and joining them gives the list back,
  if no page loses more than its header (`TextIs`); a page that begins with a line of the
  first page loses it, and then the rows are fewer, so that equal numbers of rows mean
  that nothing was lost. *Dates.* The bank's own format reads every date, in order, so
  it is in the pool; a pool of one format chooses it, and a pool of more warns
  (`DatesAre`). *The choice.* `Merit` puts passing first, so a chosen mapping passes
  whenever the right one does (`Chosen` exists because candidates are finitely many and
  the order on their keys is total: `OneIsAhead`). Then each layout is a case. With two
  amount columns a mapping that passes and takes other columns would need a residual of 0
  against columns that hold nothing on some row; swapped, it reconciles only if
  nothing moved after the first row, and the headers, which score between `Weak` and
  `Full`, decide the first row (`ChosenTwoWays`, `ChosenDeposits`). A signed column is
  told from its balance column by the identity or the headers (`ChosenSigned`); under a
  flag the right mapping or the blind first row is all that is left (`ChosenFlag`);
  without a balance nothing is checkable (`ChosenUs`). Hence `ReadsBackHolds`,
  `RefusesOnlyHolds`, `DatesHold`, and, since a record's identifier is made of what was
  read, `OverlapHolds`. The last is stated for pulls none of whose pages lost a line: the
  run checks the rest, but for some amounts another mapping may fit what is left.
* `ReceiptProofs`, the page: `PictureFitsSelection` from an invariant on the image and its
  URL, `LoadedOncePerQuietStart` from one on the engine cache: a job that is not cold
  finds the reader loaded.
* `ReceiptProofs`, the bills. `ReceiptInv`, proved in `ReceiptCorrect`: every record
  and every refusal is what extraction and normalisation make of an image of the batch
  and of what became of its regions, and findings are the screen's of the records. The
  rest is about what extraction makes of *any* damage; no bound on the number of
  damaged regions is used. *Rows.* A region sinks by half a line or not at all, so a
  row is the regions of one height, and its place the number of heights up to it
  (`RowsAre`, `AtIs`). *Figures.* `Thousands` and `Concat` are recursive functions;
  `Recursion` shows that a function defined on the naturals by what it is below a
  number exists and obeys its rule, and by induction on the number a printed sum reads
  back as itself, with its marks or with blanks for them (`ThousandsAre`, `SumsRead`).
  *The total.* Only the subtotal's and the total's rows say "total"; the lookahead of
  either ends among the three sums, so any amount found is one of them or what damage
  made of one (`TotalIsASum`), and a legible TOTAL line outranks the subtotal's and is
  followed first by its own figure, on its line or sunk below it (`TotalLineIs`,
  `TotalSurvives`). *The head.* No more than five heights come up to the fourth line,
  so a legible name is among the first five rows (`HeadIsAmongFive`, `VendorIsRead`);
  heading and number on lines next to one another make the number the tax
  (`TaxIsTheNumber`). *The screen.* The first earlier record that one repeats is
  earlier than it (`ExactIs`), so the least of any set of records repeats none of the
  set, and equal readings are found.
* `ReplayProofs`: `ForecastsShared` from the invariant that an entry of the cache was
  computed for its key by one of the replays, `NothingCountedTwice` from the two
  cut-offs, midnight for the view and the normalised day for the receipts.
  `NothingFromTheFuture` is about two worlds, not one: what the view of a day, the
  balance, the delays and the problem read of a world is shown to be the same in
  worlds that agree up to that day, receipt by receipt.
  `ScoredFairly` rests on what it is to honour a plan within the cash there really was.
  The obligations have a last and a first in the order they are honoured; by induction
  on the last, every plan can be honoured within the cash (`PlansAreHonourable`), and
  by looking at the first on which two ways would differ, in one way only
  (`HonouredOneWay`). What is honoured is therefore payable from that cash, and the
  benchmark is the least penalty of what is payable. That a recorded decision leaves
  room for its horizon is the invariant `Dated`.
* `DecisionProofs`, the runway. `RunwayInv`, proved in `RunwayComputed`, says that
  forecast, paths and report are what was read off the view, the draws and the paths.
  On it rest `IntervalsCover` (a score of rank r has r scores up to it, and the rank is
  the least that covers the confidence), `RunwayIsWhatItSays` (how many paths lie below
  and up to an interpolated quantile), `ReportsTellOneStory` (ruin curve and hazard
  table count the same paths; the bins partition the horizon) and `SlowerNeverHelps`
  (a receivable that arrives later is never in a balance earlier, so sums of receipts
  never gain).
* `DecisionProofs`, the allocation. `AllocationInv`, proved in `AllocationMade` step by
  step for the four solvers: a plan in the making respects what is owed; the rule's
  `remaining` is the cash less what it spends; the choice table never takes more cells
  than there are, because the deque holds cells inside the window and up to the
  current one; and in the walk back what is spent and the cells left are together
  within the capacity. It gives `PlansStayWithinMeans`, the overdrawn account included.
  `HeldOffIsCheapest` is an exchange argument: moving a paisa, or a bill, from a paid
  obligation to one held back would be a feasible plan with a smaller penalty.
  `ShortfallsStayRare` counts the scenarios below an interpolated quantile.
* `DecisionProofs`, the best there is. `SolversDeliver` states `AgreeWhereClaimed` for
  every book of obligations, cash and cell; the invariant it needs is `BestInv`, kept
  by every step (`AlwaysBest`). Of the dynamic program it says that row k bounds what
  *any* plan of cells saves on the first k obligations (`RowBounds`) and that a route
  through the choices made so far reaches that bound (`RowReached`); inside a row, that
  the deque falls in `Gain` and that every cell still in reach is beaten by one of it
  (`Leads`), so its head is the best choice (`SlideBest`: `AdmittedFalls`,
  `EvictedLeads`, `HeadIsBest`). In the walk back (`WalkIsBest`), what is paid already
  and what the rest of the route saves are together no less than any plan saves. With
  that the DP is optimal on the grid. Rounding an optimum of the MILP down to whole
  cells costs at most one cell of each obligation and nothing on rigid whole-cell
  amounts (`RoundingCosts`), which gives both halves of `cross_validate`'s claim. Of
  the greedy rule `RuleIsBest` says that some rate divides what is paid in full from
  what is left; any other plan within the cash then saves less by at least that rate
  (`RuleIsOptimal`). The quantities in these arguments are sums, compared term by term
  (`SumCompares`).

Sums and finite data. The library's induction theorems take an operator, which the
provers do not instantiate; `DataLemmas` states induction with a *set* of sets instead
(`SmallestSet`, `SubsetInduction`, from the well-foundedness of the naturals) and
derives from it what the recursive sum of the community modules adds up to
(`SumRule`, `SumAdd`, `SumUnion`, `SumExcept`, ...), and that a sample has its k-th
smallest value (`KthSmallestIs`) and how a quantile splits it (`QuantileShares`).

Only model-checked. Liveness (`EverySyncEnds`, `EveryTabSettles`, `EveryReadSettles`)
is beyond the prover. `DamageShows` and `DiagnosisNames` are not theorems: an altered
balance, or what is left of a file that lost a row, can be fitted by another mapping
when the amounts and the opening balance happen to coincide, and a lost amount twice
that of the row after it looks like an inverted direction, so the two hold of the
amounts of the run, which do not coincide so. For the same reason `OverlapHolds` leaves a pull with a
lost line to the run.

## 5. Findings

`PROJECT.json` quotes them, each with the property whose exception it is.

* Sync: concurrent syncs can exceed the call cap; a sync may be refused half way,
  contrary to its docstring, with the earlier pages paid for; the idempotency key
  leaves out what selects the feed; overlapping retries post twice.
* Audit: concurrent approvals can make the chain fail verification; a docstring of
  `verify` claims that later hashes break too, where only the altered entries do.
* Session: any boot failure clears a good token.
* Allocation: the bound `cross_validate` allows the DP is too small for rigid amounts
  between cells; the plan calls every deferred bill's late fee smaller than those paid
  first, which a rigid bill that does not fit need not be; the safe-spend limit
  interpolates, so it may exceed epsilon by less than one scenario.
* Parser: under a Dr/Cr flag the first row, if the only debit, is posted as an inflow;
  a true statement of one row, or with an all-empty amount column, is refused, or, of
  withdrawals alone whose balance runs down just so, accepted with the withdrawals
  posted as deposits (TLC finds it from an opening balance of 200); a lost
  row is diagnosed as a bad cell wherever the columns are right; a mapping that moves
  little can outrank the true one on a damaged file; a page whose rows are the first
  page's over again is taken for a header whole, and the statement accepted without it.
* Backtest: the obligations of the coming days are the sum of the last ones; money
  paid in the course of the day is counted as cash and as receivable; the forecast
  cache's key leaves out the data set and the step; the sign of regret is claimed to
  be asserted and is not.
* Runway: the sentence of the answer is wrong for a censored runway; receivables
  overdue for longer than their drawn delay vanish; the Gaussian fallback of the
  conformal interval does not exist.
* Receipts: the heading "Tax Invoice" makes the bill's number the tax; with the TOTAL
  line lost the subtotal is the total; with the vendor line lost the next line is the
  vendor; requests that race a cold start each load the weights.

## 6. Not modelled

* Counterparty risk, credit scoring, anomaly scores, text categories and the parts of
  forecasting and simulation inside scipy and statsmodels (marginal fits, copula,
  bootstrap): stateless numerics over floats, out of TLC's reach. The same holds of
  the Altman score, the calibration statistic and the stability over resamples.
* The OCR recogniser and the receipt classifier: external models. What surrounds them
  is modelled over everything they may return, up to the damage bound.
* `choose_unit`, the solvers' float tolerances, the search for a header under a
  preamble, fuzzy matching itself (a table of its values stands for it), narrative
  clean-up, the drawing of images.
* The remaining router endpoints, which put results of the above behind an `lru_cache`
  into response objects; the capability table, which no route consults yet; schemas and
  migrations; charts and pages, which render what `useApi` holds; the notebooks; the
  placeholder packages, which are empty.

What could still be done: several cap keys at once in `RateCap` (they do not interact
in the code), and an assumption on amounts under which `DamageShows` and
`DiagnosisNames` are theorems.
