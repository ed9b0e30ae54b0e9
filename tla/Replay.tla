-------------------------------- MODULE Replay --------------------------------
(***************************************************************************)
(* The backtest: synthetic worlds whose daily series is built from their   *)
(* invoices (synthetic_data.py), what an observer on a day may see of them *)
(* (pipeline.py), replays that walk the history forward and share one      *)
(* cache of forecasts (replay_harness.py, run_backtest.py), and the score  *)
(* of each decision against perfect foresight (hindsight_optimal.py,       *)
(* regret.py).                                                             *)
(*                                                                         *)
(* Days are 1 .. Days and start at midnight; a payment lands at a half     *)
(* day, 2 * day or 2 * day + 1.  Money is a whole number of units.  The    *)
(* forecast and the simulation are kept as what they are computed from.    *)
(***************************************************************************)
EXTENDS Integers, Sequences, FiniteSets, FiniteSetsExt, Functions

CONSTANTS Days,            \* length of the history
          Horizon,         \* horizon_days of a replay
          MinHistory,      \* min_history_days
          ObligationDays,  \* horizon_days of obligations_as_of
          Categories,      \* obligations: share of spend, late fee, rigid
          ShareOf,         \* the whole of which the shares are parts
          DueDraws,        \* the due days a seed draws, a tuple per draw
          Slack,           \* over-commitment is planned - realized > Slack
          Worlds,          \* worlds a dataset can be
          Datasets,        \* the datasets of a behaviour
          Starts, Spacings,\* starts and step_days of the replays
          MaxReplays       \* bound on the replays that share a cache

Never == -1

ASSUME ReplayAssumption ==
    /\ {Days, Horizon, MinHistory, ObligationDays, Slack} \subseteq Nat
    /\ ShareOf \in Nat \ {0}
    /\ Categories \in Seq([share : Nat, fee : Nat, rigid : BOOLEAN])
    /\ DueDraws \in Seq([DOMAIN Categories -> Int]) /\ DueDraws # <<>>
    /\ Spacings \subseteq Nat \ {0}
    /\ Starts \subseteq 1 .. Days
    /\ \A w \in Worlds :
          /\ w.opening \in Int
          /\ w.sales \in [1 .. Days -> Nat] /\ w.outflow \in [1 .. Days -> Nat]
          /\ IsFiniteSet(w.invoices)
          /\ \A v \in w.invoices :
                /\ v = [payer |-> v.payer, issue |-> v.issue, due |-> v.due,
                        amount |-> v.amount, late |-> v.late]
                /\ v.issue \in Nat /\ v.due \in Nat /\ v.issue <= v.due
                /\ v.amount \in Nat /\ v.late \in Nat \union {Never}

VARIABLES world,   \* the datasets: invoices, daily sales and outflow
          cache,   \* shared_cache: forecasts by day
          replay,  \* the replay that runs
          steps,   \* the steps recorded by all the replays so far
          count    \* replays begun

vars == <<world, cache, replay, steps, count>>

Idle == [at |-> "idle"]

-----------------------------------------------------------------------------
(* The generated world.                                                    *)

\* paid_date, in half days: due_date plus a delay that need not be whole.
PaidAt(v) == 2 * v.due + v.late
PaidDay(v) == PaidAt(v) \div 2
Paid(v) == v.late # Never

\* The receipts of a day: what lands before the next midnight.
PaidOn(w, d) == {v \in w.invoices : Paid(v) /\ PaidDay(v) = d}
Receipts(w, d) == SumFunction([v \in PaidOn(w, d) |-> v.amount])

\* net_ex_receipts, the series that is forecast.
Operating(w, d) == w.sales[d] - w.outflow[d]

Balance(w, d) ==
    w.opening + SumFunction([e \in 1 .. d |-> Operating(w, e) + Receipts(w, e)])

-----------------------------------------------------------------------------
(* What can be seen of it on a day.                                        *)

\* Issued and paid some day: the future delays leak in.
SettledSomeDay(w, d) == {v \in w.invoices : Paid(v) /\ v.issue <= d}

\* The midnight a payment lands at is left for tomorrow.
SettledBefore(w, d) == {v \in w.invoices : Paid(v) /\ PaidAt(v) < 2 * d}

\* Paid, and the money there by the first moment of the day.
Settled(w, d) == {v \in w.invoices : Paid(v) /\ PaidAt(v) <= 2 * d}

Outstanding(w, d) == {v \in w.invoices : v.issue <= d} \ Settled(w, d)

\* observed_delays_by_counterparty and delay_panel, of the settled invoices.
Delays(w, d) == {[payer |-> v.payer, issue |-> v.issue, late |-> v.late] : v \in Settled(w, d)}

View(w, d) ==
    [history     |-> [e \in 1 .. d |-> Operating(w, e)],
     spent       |-> [e \in 1 .. d |-> w.outflow[e]],
     opening     |-> Balance(w, d),
     delays      |-> Delays(w, d),
     receivables |-> {[payer |-> v.payer, issue |-> v.issue, amount |-> v.amount,
                       untilDue |-> v.due - d] : v \in Outstanding(w, d)}]

-----------------------------------------------------------------------------
(* A decision: the obligations to pay, and what they cost when unpaid.     *)

NonNegative(n) == IF n > 0 THEN n ELSE 0
Lesser(a, b) == IF a <= b THEN a ELSE b

\* The outflow of the last ObligationDays days, shared out over the categories;
\* a category's penalty rate is its fee for the days it would be overdue.  The
\* generator draws the due days anew for every step: seed + step_no.
Obligations(view, draw) ==
    LET d == Cardinality(DOMAIN view.spent)
        tail == {e \in 1 .. d : e > d - ObligationDays}
        outflow == SumFunctionOnSet(view.spent, tail)
        due == DueDraws[(draw % Len(DueDraws)) + 1]
    IN  [n \in DOMAIN Categories |->
            [amount |-> (outflow * Categories[n].share) \div ShareOf,
             rate   |-> Categories[n].fee * NonNegative(ObligationDays - due[n]),
             rigid  |-> Categories[n].rigid]]

Problem(view, draw) == [cash |-> NonNegative(view.opening), items |-> Obligations(view, draw)]

Spend(x) == SumFunction(x)
Penalty(items, x) ==
    SumFunction([n \in DOMAIN items |-> items[n].rate * (items[n].amount - x[n])])

\* The plans a strategy may return for the items and a budget.
Payable(items, budget) ==
    LET most == Max({0} \union {items[n].amount : n \in DOMAIN items})
    IN  {x \in [DOMAIN items -> 0 .. most] :
            /\ Spend(x) <= budget
            /\ \A n \in DOMAIN items : /\ x[n] <= items[n].amount
                                       /\ items[n].rigid => x[n] \in {0, items[n].amount}}

-----------------------------------------------------------------------------
(* Its score, once the history is known.                                   *)

\* realized_available_cash: the lowest balance of the horizon, both ends in.
Realized(w, d) ==
    NonNegative(Min({Balance(w, e) : e \in {f \in 1 .. Days : d <= f /\ f <= d + Horizon}}))

\* hindsight_plan: the optimum for the cash there really was.
HindsightPenalty(items, cash) == Min({Penalty(items, x) : x \in Payable(items, cash)})

\* Which of two obligations is honoured first when the cash is short: the more
\* punitive, of equals the first listed.
Sooner(items, m, n) == \/ items[m].rate > items[n].rate
                       \/ items[m].rate = items[n].rate /\ m < n

HonoursOnCredit(o, planned, budget) ==
    IF o.rigid /\ budget < planned THEN 0 ELSE planned

\* What is honoured of one commitment with what is left of the budget.
Honours(o, planned, budget) ==
    IF o.rigid THEN IF budget >= planned THEN planned ELSE 0
               ELSE Lesser(planned, budget)

\* Each commitment gets what it can of what those before it leave of the cash.
Honoured(items, plan, cash) ==
    CHOOSE x \in [DOMAIN items -> 0 .. Max({0} \union Range(plan))] :
        \A n \in DOMAIN items :
            x[n] = Honours(items[n], plan[n],
                           cash - SumFunctionOnSet(x, {m \in DOMAIN items : Sooner(items, m, n)}))

RealizedPenalty(items, plan, cash) == Penalty(items, Honoured(items, plan, cash))

Regret(items, plan, cash) ==
    RealizedPenalty(items, plan, cash) - HindsightPenalty(items, cash)

OverCommitted(plan, cash) == Spend(plan) > cash + Slack

-----------------------------------------------------------------------------
(* Replays.                                                                *)

FirstPossible == MinHistory + 1
LastPossible == Days - Horizon

Init == /\ world \in [Datasets -> Worlds]
        /\ cache = <<>> /\ replay = Idle /\ steps = <<>> /\ count = 0

\* replay: refused with ValueError when there is no room for a step. It stops where
\* the history does: nothing gives it another end (run_backtest.py:120).
Begin(data, start, spacing) ==
    /\ replay = Idle /\ count < MaxReplays
    /\ start <= LastPossible
    /\ replay' = [at |-> "run", data |-> data, start |-> start, spacing |-> spacing,
                  cur |-> start, no |-> 0]
    /\ count' = count + 1
    /\ UNCHANGED <<world, cache, steps>>

\* The day is left out of the key.
KeyOfSettings(r) == [horizon |-> Horizon]

\* cache_key: the day and the settings of the replay; not its data, not its seed.
CacheKey(r) == [day |-> r.cur, horizon |-> Horizon]

\* select_and_forecast and run_simulation, by what they are computed from.
Computed(r) == [view |-> View(world[r.data], r.cur), seed |-> r.no]

Decide ==
    /\ replay.at = "run" /\ replay.cur <= LastPossible
    /\ LET key == CacheKey(replay)
           forecast == IF key \in DOMAIN cache THEN cache[key] ELSE Computed(replay)
           view == View(world[replay.data], replay.cur)
       IN  /\ cache' = [k \in DOMAIN cache \union {key} |-> IF k = key THEN forecast ELSE cache[k]]
           /\ steps' = Append(steps,
                 [replay |-> count, data |-> replay.data, start |-> replay.start,
                  spacing |-> replay.spacing, as_of |-> replay.cur, no |-> replay.no,
                  view |-> view, forecast |-> forecast, own |-> Computed(replay),
                  problem |-> Problem(view, replay.no)])
    /\ replay' = [replay EXCEPT !.cur = @ + replay.spacing, !.no = @ + 1]
    /\ UNCHANGED <<world, count>>

Return == /\ replay.at = "run" /\ replay.cur > LastPossible
          /\ replay' = Idle
          /\ UNCHANGED <<world, cache, steps, count>>

Next == \/ \E data \in Datasets, start \in Starts \union {FirstPossible}, spacing \in Spacings :
              Begin(data, start, spacing)
        \/ Decide \/ Return

ReplaySpec == Init /\ [][Next]_vars
=============================================================================
