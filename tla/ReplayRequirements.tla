-------------------------- MODULE ReplayRequirements --------------------------
(* What must hold of Replay.                                                 *)
EXTENDS Replay

\* What a day knows of an invoice, and of a world's: a payment that has not
\* landed by the end of the day is not known to land.
SeenBy(i, d) == [payer |-> i.payer, issue |-> i.issue, due |-> i.due, amount |-> i.amount,
                 late |-> IF Paid(i) /\ PaidDay(i) <= d THEN i.late ELSE Never]
Known(w, d) == {SeenBy(i, d) : i \in {j \in w.invoices : j.issue <= d}}

\* Two worlds nobody can tell apart before the end of day d.
Alike(w, v, d) ==
    /\ w.opening = v.opening
    /\ \A e \in 1 .. d : w.sales[e] = v.sales[e] /\ w.outflow[e] = v.outflow[e]
    /\ Known(w, d) = Known(v, d)

\* No look-ahead: in two worlds that are alike up to the day, the same step of
\* a replay sees the same, forecasts from the same and decides the same problem,
\* whatever comes after; of two strategies replayed over one dataset, each step
\* is the same (pipeline.py:30, replay_harness.py:9-18, run_backtest.py:57-64).
NoLookAhead ==
    \A s, t \in Range(steps) :
        s.as_of = t.as_of /\ s.no = t.no /\ Alike(world[s.data], world[t.data], s.as_of)
          => s.view = t.view /\ s.own = t.own /\ s.problem = t.problem

\* Money is counted once: an invoice still outstanding to the observer is not
\* in the balance already, except when it was paid in the course of that very
\* day, after the midnight that the cut-off compares with (pipeline.py:66-92).
MoneyCountedOnce ==
    \A s \in Range(steps) :
        LET w == world[s.data] IN
        \A v \in Outstanding(w, s.as_of) :
            Paid(v) /\ PaidDay(v) <= s.as_of => PaidAt(v) = 2 * s.as_of + 1

\* Every strategy decides from the same forecast, and it is the forecast the
\* replay would have made: only a replay of other data, or one that reaches the
\* day at another step, can leave another in the cache (replay_harness.py:175-183).
ForecastIsOwn ==
    \A s \in Range(steps) :
        \/ s.forecast = s.own
        \/ \E t \in Range(steps) : /\ t.replay < s.replay /\ t.as_of = s.as_of
                                   /\ t.data # s.data \/ t.no # s.no
                                   /\ s.forecast = t.own

\* Whatever plan the strategy made with the cash it saw: its regret is never
\* negative, and a plan the account could bear is honoured to the last payment
\* (regret.py:5-9, hindsight_optimal.py:113-123).
RegretIsFair ==
    steps # <<>> =>
        LET s == steps[Len(steps)]
            items == s.problem.items
            cash == Realized(world[s.data], s.as_of)
        IN  \A plan \in Payable(items, s.problem.cash) :
                /\ Regret(items, plan, cash) >= 0
                /\ Spend(plan) <= cash => /\ ~OverCommitted(plan, cash)
                                          /\ Honoured(items, plan, cash) = plan
=============================================================================
