-------------------------- MODULE RunwayRequirements --------------------------
(* What must hold of Runway.                                                 *)
EXTENDS Runway

\* The conformal promise, of the scores there are: leave out each in turn, take
\* the multiplier of the others, and it covers the one left out as often as the
\* confidence says, or, where that many scores cannot say it, as often as they
\* can (forecasting.py:587-592, 633-646).
CoversWhatIsLeftOut ==
    forecast.made =>
        LET s == forecast.scores
            others(k) == Conformal(Restrict(s, DOMAIN s \ {k}))
            covered == {k \in DOMAIN s : s[k] <= others(k).q}
            n == Cardinality(DOMAIN s)
        IN  /\ (\E k \in DOMAIN s : others(k).achieved) => Cardinality(covered) * ConfDen >= n * ConfNum
            /\ (\A k \in DOMAIN s : ~others(k).achieved) => Cardinality(covered) >= n - 1

\* "A chance of alpha of reaching zero cash within the runway" is what the paths
\* say whenever the runway is short of the horizon: more than alpha of the paths
\* but one reach zero by then, and no more than alpha and one reach it sooner; the
\* tail's mean is no longer than the runway (monte_carlo_engine.py:508-520).
RunwayMeansWhatItSays ==
    report.made =>
        LET r == report.runway
            Within(d) == Cardinality({k \in DOMAIN paths : Hit(paths[k]) /\ Runway(paths[k]) <= d})
        IN  /\ r.days < Horizon =>
                  /\ Within(r.days) * AlphaDen > (Iterations - 1) * report.alpha
                  /\ (Within(r.days - 1) - 1) * AlphaDen <= (Iterations - 1) * report.alpha
            /\ r.tail > 0 /\ r.tailDays <= r.tail * r.days
            /\ r.shortfall = Within(Horizon)

\* The cash-flow reports tell one story: the hazards compose to the curve, a
\* curve that never falls and ends in the probability of shortfall, and the days
\* to ruin are the runways of the paths that have one (bankruptcy_risk.py:74-207).
ReportsAgree ==
    report.made =>
        /\ \A d \in 1 .. Horizon - 1 : report.curve[d] <= report.curve[d + 1]
        /\ \A b \in DOMAIN report.hazards :
              LET h == report.hazards[b] IN
              /\ h.atRisk = Iterations - (IF h.from = 1 THEN 0 ELSE report.curve[h.from - 1])
              /\ h.atRisk - h.failed = Iterations - report.curve[h.to]
        /\ report.hazards[Len(report.hazards)].to = Horizon
        /\ report.curve[Horizon] = report.runway.shortfall /\ report.ruin.n = report.runway.shortfall
        /\ report.ruin.sum = SumFunctionOnSet(Runways, {k \in DOMAIN paths : Hit(paths[k])})

\* Payers who take longer never make the account richer, on any day, as long as
\* the faster draw loses no receivable to the past: one overdue for longer than
\* the delay drawn for it (monte_carlo_engine.py:472-482).
SlowerPayersNeverHelp ==
    \A k, l \in DOMAIN paths :
        /\ paths[k].shocks = paths[l].shocks
        /\ \A p \in Payers : paths[k].delays[p] <= paths[l].delays[p]
        /\ \A r \in view.receivables : r.payer \in Payers => Arrival(r, paths[k].delays) >= 0
        => \A d \in 1 .. Horizon : paths[k].balance[d] >= paths[l].balance[d]
=============================================================================
