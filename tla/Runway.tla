-------------------------------- MODULE Runway --------------------------------
(***************************************************************************)
(* From the history of a business to its runway: walk-forward validation,  *)
(* selection and the conformal interval (forecasting.py), simulated cash   *)
(* paths and Runway-at-Risk (monte_carlo_engine.py), ruin curve and hazard *)
(* table (bankruptcy_risk.py), as the router chains them for one view.     *)
(*                                                                         *)
(* Money is a whole number of units, a payment delay of half days.  What   *)
(* scipy and statsmodels fit or draw is external: the forecast of the      *)
(* model with fitted parameters, the growth of an error's scale with the   *)
(* horizon, the sampled shocks and delays are members of small sets.       *)
(***************************************************************************)
EXTENDS OrderStatistics, Sequences, FiniteSetsExt

Larger(a, b) == IF a >= b THEN a ELSE b

CONSTANTS Histories,          \* histories of the operating flow, sequences
          Period,             \* SEASONAL_PERIOD
          MinTrain,           \* the floor of min_train, four periods
          CvHorizon, MaxFolds,
          Horizon,            \* horizon_days
          ConfNum, ConfDen,   \* the interval's confidence
          Scales,             \* growth of the error's scale over the horizon
          ScaleUnit,          \* a multiple of every scale
          Openings, Receivables, \* cash and sets of receivables of a view
          Payers,             \* payers with settled invoices, ten or more: none is simulated
                              \* for a payer with fewer
          Shocks, Delays,     \* sampled: shocks of the flow, delays of the payers
          Iterations,         \* n_iterations
          Alphas, AlphaDen,   \* 1 - confidence of Runway-at-Risk, as Alphas / AlphaDen
          BinDays             \* bin_days of the hazard table

ASSUME RunwayAssumption ==
    /\ {Period, MinTrain, CvHorizon, MaxFolds, Horizon, ConfDen, ScaleUnit, Iterations,
        AlphaDen, BinDays} \subseteq Nat \ {0}
    /\ Period <= MinTrain
    /\ ConfNum \in 1 .. ConfDen - 1
    /\ Histories \subseteq Seq(Int) /\ Openings \subseteq Int
    /\ \A s \in Scales : \A h \in 1 .. Larger(Horizon, CvHorizon) :
          s[h] \in Nat \ {0} /\ ScaleUnit % s[h] = 0
    /\ \A owed \in Receivables :
          /\ IsFiniteSet(owed)
          /\ \A r \in owed : r.amount \in Nat /\ r.untilDue \in Int
    /\ Shocks \subseteq [1 .. Horizon -> Int] /\ Delays \subseteq [Payers -> Int]
    /\ Alphas \subseteq 0 .. AlphaDen

VARIABLES view,     \* the view the models see: history, cash, receivables
          forecast, \* the forecast, once made
          paths,    \* SimulationPaths: the paths drawn so far
          report    \* the answer to the last request

vars == <<view, forecast, paths, report>>

None == [made |-> FALSE]

CeilDiv(a, b) == -((-a) \div b)
Magnitude(n) == IF n < 0 THEN -n ELSE n

-----------------------------------------------------------------------------
(* Walk-forward validation.                                                *)

Trained(n) == Larger(n \div 2, MinTrain)

FoldCount(n) == Larger(1, Smaller(MaxFolds, (n - Trained(n)) \div CvHorizon))

\* The windows held out, the oldest first; the last one ends with the history.
Folds(n) ==
    [k \in 1 .. FoldCount(n) |-> [from |-> n - (FoldCount(n) - k + 1) * CvHorizon + 1,
                                  to   |-> n - (FoldCount(n) - k) * CvHorizon]]

Models == {"seasonal_naive", "fitted"}

\* predict: the last cycle again; for a fitted model, any function of the past.
Predict(model, y, h) ==
    IF model = "seasonal_naive" THEN y[Len(y) - Period + ((h - 1) % Period) + 1]
                                ELSE y[Len(y)]

Residuals(model, y, fold) ==
    [h \in 1 .. CvHorizon |-> y[fold.from + h - 1] - Predict(model, SubSeq(y, 1, fold.from - 1), h)]

SquaredError(model, y, fold) ==
    LET r == Residuals(model, y, fold) IN SumFunction([h \in DOMAIN r |-> r[h] * r[h]])

\* The lowest mean RMSE: of the means nothing is kept but that a model beaten in
\* every fold does not win.
Winners(y, candidates) ==
    {m \in candidates : \A o \in candidates : \E k \in DOMAIN Folds(Len(y)) :
        SquaredError(m, y, Folds(Len(y))[k]) <= SquaredError(o, y, Folds(Len(y))[k])}

-----------------------------------------------------------------------------
(* The conformal interval.                                                 *)

\* |residual| / scale of every cell held out, as a multiple of 1 / ScaleUnit.
Scores(model, y, scales) ==
    LET folds == Folds(Len(y))
    IN  [held \in (DOMAIN folds) \X (1 .. CvHorizon) |->
            Magnitude(Residuals(model, y, folds[held[1]])[held[2]]) * (ScaleUnit \div scales[held[1]][held[2]])]

\* fit_scale_profile: a power of the horizon with an exponent in 0 .. 1, constant
\* when there are too few horizons for a slope.
Profile(scale) == \A h \in 1 .. Horizon - 1 : IF CvHorizon < 3 THEN scale[h] = scale[h + 1]
                                                               ELSE scale[h] <= scale[h + 1]

PlainRank(n) == CeilDiv(n * ConfNum, ConfDen)

\* The finite-sample rank.
ScoreRank(n) == CeilDiv((n + 1) * ConfNum, ConfDen)

\* conformal_multiplier: the score of that rank, or the largest when there is none.
Conformal(scores) ==
    LET n == Cardinality(DOMAIN scores)
    IN  [q |-> KthSmallest(scores, Smaller(ScoreRank(n), n)), achieved |-> ScoreRank(n) <= n]

\* conformal_interval: half its width, day by day.
Interval(q, scale) == [h \in 1 .. Horizon |-> q * scale[h]]

\* The first day a path of daily flows takes the cash to zero; 0 when none does.
DaysToZero(opening, flow) ==
    LET Spent(d) == opening + SumFunctionOnSet(flow, 1 .. d)
        below == {d \in DOMAIN flow : Spent(d) <= 0}
    IN  IF below = {} THEN 0 ELSE Min(below)

-----------------------------------------------------------------------------
(* A simulated path.                                                       *)

\* The day, from 0, on which a receivable arrives.
Arrival(r, delays) == (2 * r.untilDue + delays[r.payer]) \div 2

\* Receipts of a day as fancy indexing would leave them: the last one written.
LastReceipt(delays, d) ==
    LET there == {r \in view.receivables : r.payer \in Payers /\ Arrival(r, delays) = d - 1}
    IN  IF there = {} THEN 0 ELSE (CHOOSE r \in there : TRUE).amount

\* Receipts of a day: what arrives before the first day or after the last is
\* dropped, and so is what a payer without a fit owes.
Receipts(delays, d) ==
    SumFunctionOnSet([r \in view.receivables |-> r.amount],
                     {r \in view.receivables : r.payer \in Payers /\ Arrival(r, delays) = d - 1})

Path(shocks, delays) ==
    LET flow == [d \in 1 .. Horizon |-> forecast.point[d] + shocks[d] + Receipts(delays, d)]
    IN  [d \in 1 .. Horizon |-> view.cash + SumFunctionOnSet(flow, 1 .. d)]

HitDays(p) == {d \in DOMAIN p.balance : p.balance[d] <= 0}
Hit(p) == HitDays(p) # {}

\* days_to_zero, censored at the horizon.
Runway(p) == IF Hit(p) THEN Min(HitDays(p)) ELSE Horizon

-----------------------------------------------------------------------------
(* Runway-at-Risk.                                                         *)

\* The runways drawn.
Runways == [k \in DOMAIN paths |-> Runway(paths[k])]

UpperTail(alpha) == Interpolated(Runways, AlphaDen - alpha, AlphaDen)

\* np.quantile(d, alpha), times AlphaDen.
RunwayQuantile(alpha) == Interpolated(Runways, alpha, AlphaDen)

RunwayAtRisk(alpha) ==
    LET tail == {k \in DOMAIN paths : AlphaDen * Runway(paths[k]) <= RunwayQuantile(alpha)}
    IN  [days      |-> RunwayQuantile(alpha) \div AlphaDen,
         tail      |-> Cardinality(tail),
         tailDays  |-> SumFunctionOnSet(Runways, tail),
         shortfall |-> Cardinality({k \in DOMAIN paths : Hit(paths[k])})]

-----------------------------------------------------------------------------
(* Ruin.                                                                   *)

BelowZero(p, d) == p.balance[d] <= 0

\* ruin_indicator_matrix: the running minimum, so that ruin is never undone.
Ruined(p, d) == \E e \in 1 .. d : p.balance[e] <= 0

RuinCurve == [d \in 1 .. Horizon |-> Cardinality({k \in DOMAIN paths : Ruined(paths[k], d)})]

\* hazard_table: the paths alive when a bin opens, and those ruined inside it.
Hazards ==
    [b \in 1 .. CeilDiv(Horizon, BinDays) |->
        LET start == (b - 1) * BinDays
            end == Smaller(start + BinDays, Horizon)
            alive == {k \in DOMAIN paths : start = 0 \/ ~Ruined(paths[k], start)}
        IN  [from |-> start + 1, to |-> end, atRisk |-> Cardinality(alive),
             failed |-> Cardinality({k \in alive : Ruined(paths[k], end)})]]

\* expected_days_to_ruin, as the sum and the number of the days averaged.
DaysToRuin ==
    LET ever == {k \in DOMAIN paths : Ruined(paths[k], Horizon)}
    IN  [sum |-> SumFunction([k \in ever |-> Min({d \in 1 .. Horizon : Ruined(paths[k], d)})]),
         n |-> Cardinality(ever)]

-----------------------------------------------------------------------------
(* The router: a view, its forecast, its simulation, and the answers.      *)

Init == /\ view \in [history : Histories, cash : Openings, receivables : Receivables]
        /\ forecast = None /\ paths = <<>> /\ report = None

\* The fit of every fold, and the last one, have scales of their own.
ScalesOf(history) == [1 .. FoldCount(Len(history)) -> Scales]

\* select_and_forecast, refused when no candidate could be fitted; _forecast.
\* A model with no variance model of its own has one profile for all.
Forecast(candidates, winner, scale, scales) ==
    /\ forecast = None
    /\ Len(view.history) - Trained(Len(view.history)) >= CvHorizon
    /\ winner \in Winners(view.history, candidates)
    /\ winner = "seasonal_naive" => Profile(scale) /\ \A k \in DOMAIN scales : scales[k] = scale
    /\ LET scores == Scores(winner, view.history, scales)
           point == [h \in 1 .. Horizon |-> Predict(winner, view.history, h)]
           conformal == Conformal(scores)
       IN  forecast' = [made |-> TRUE, model |-> winner, point |-> point,
                        scores |-> scores, conformal |-> conformal,
                        width |-> Interval(conformal.q, scale),
                        daysToZero |-> DaysToZero(view.cash, point)]
    /\ UNCHANGED <<view, paths, report>>

\* simulate_cash_paths, one iteration.
Draw(shocks, delays) ==
    /\ forecast.made /\ Len(paths) < Iterations
    /\ paths' = Append(paths, [shocks |-> shocks, delays |-> delays,
                               balance |-> Path(shocks, delays)])
    /\ UNCHANGED <<view, forecast, report>>

\* runway_at_risk and bankruptcy_risk, from the same paths.
Answer(alpha) ==
    /\ Len(paths) = Iterations /\ report = None
    /\ report' = [made |-> TRUE, alpha |-> alpha, runway |-> RunwayAtRisk(alpha),
                  curve |-> RuinCurve, hazards |-> Hazards, ruin |-> DaysToRuin]
    /\ UNCHANGED <<view, forecast, paths>>

Next == \/ \E candidates \in SUBSET Models \ {{}}, winner \in Models,
              scale \in Scales, scales \in ScalesOf(view.history) : Forecast(candidates, winner, scale, scales)
        \/ \E shocks \in Shocks, delays \in Delays : Draw(shocks, delays)
        \/ \E alpha \in Alphas : Answer(alpha)

RunwaySpec == Init /\ [][Next]_vars
=============================================================================
