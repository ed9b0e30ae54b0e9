----------------------------- MODULE DecisionProofs -----------------------------
(* What the runway and its reports, and the allocation of cash to obligations,   *)
(* owe: RunwayRequirements and AllocationRequirements, for every value of their  *)
(* constants.                                                                    *)
EXTENDS AllocationRequirements, RunwayRequirements, DataLemmas

-----------------------------------------------------------------------------
(* Runway: the folds, what is held out in them, and what it scores.         *)

RunwayConstants ==
    /\ Period \in Nat \ {0} /\ MinTrain \in Nat \ {0} /\ CvHorizon \in Nat \ {0}
    /\ MaxFolds \in Nat \ {0} /\ Horizon \in Nat \ {0} /\ ConfDen \in Nat \ {0}
    /\ ScaleUnit \in Nat \ {0} /\ Iterations \in Nat \ {0} /\ AlphaDen \in Nat \ {0}
    /\ BinDays \in Nat \ {0} /\ Period <= MinTrain
    /\ ConfNum \in Nat /\ 1 <= ConfNum /\ ConfNum < ConfDen

\* The part of the module's assumption that is arithmetic.
LEMMA RunwayConstantsTyped == RunwayConstants
BY RunwayAssumption DEF RunwayConstants

\* Why the interpolation never looks at a day that is not there.
LEMMA PredictIsInt ==
    ASSUME NEW y \in Seq(Int), Len(y) >= Period, NEW model, NEW h \in Nat \ {0}
    PROVE  Predict(model, y, h) \in Int
<1>1. Period \in Nat \ {0} /\ Len(y) \in Nat
  BY RunwayConstantsTyped DEF RunwayConstants
<1>2. h - 1 \in Nat
  OBVIOUS
<1>3. (h - 1) % Period \in 0 .. Period - 1
  BY <1>1, <1>2
<1> DEFINE k == Len(y) - Period + ((h - 1) % Period) + 1
<1>4. k \in 1 .. Len(y)
  BY <1>1, <1>3
<1>5. Len(y) \in 1 .. Len(y)
  BY <1>1
<1> HIDE DEF k
<1>6. y[k] \in Int /\ y[Len(y)] \in Int
  BY <1>4, <1>5
<1> QED BY <1>6 DEF Predict, k

LongEnough(n) == n - Trained(n) >= CvHorizon

\* Every fold of the cross-validation trains on at least a period and ends in time.
LEMMA FoldsFit ==
    ASSUME NEW n \in Nat, LongEnough(n)
    PROVE  /\ FoldCount(n) \in Nat \ {0} /\ Trained(n) \in Nat /\ Period <= Trained(n)
           /\ DOMAIN Folds(n) = 1 .. FoldCount(n)
           /\ \A k \in 1 .. FoldCount(n) :
                 /\ Folds(n)[k].from \in Int /\ Trained(n) < Folds(n)[k].from
                 /\ Folds(n)[k].from + CvHorizon - 1 <= n
<1> DEFINE free == n - Trained(n)
           count == FoldCount(n)
<1>0. RunwayConstants
  BY RunwayConstantsTyped
<1>1. Trained(n) \in Nat /\ Period <= Trained(n) /\ free \in Nat /\ CvHorizon <= free
  <2>1. n \div 2 \in Nat
    OBVIOUS
  <2> QED BY <1>0, <2>1 DEF Trained, Larger, RunwayConstants, LongEnough
<1>2. free \div CvHorizon \in Int /\ 1 <= free \div CvHorizon
      /\ \A v \in Int : v <= free \div CvHorizon => v * CvHorizon <= free
  <2> HIDE DEF free
  <2>1. CvHorizon \in Nat \ {0} /\ 1 * CvHorizon <= free /\ free \in Int
    BY <1>0, <1>1 DEF RunwayConstants
  <2>2. free \div CvHorizon \in Int
    BY <2>1
  <2> QED BY <2>1, <2>2, Floor
<1>3. count \in Nat \ {0} /\ count <= free \div CvHorizon
  BY <1>0, <1>2 DEF FoldCount, Larger, Smaller, RunwayConstants
<1>4. count * CvHorizon <= free
  <2> HIDE DEF free, count
  <2> QED BY <1>2, <1>3
<1>5. ASSUME NEW k \in 1 .. FoldCount(n)
      PROVE  /\ Folds(n)[k].from \in Int /\ Trained(n) < Folds(n)[k].from
             /\ Folds(n)[k].from + CvHorizon - 1 <= n
  <2>1. Folds(n)[k].from = n - (count - k + 1) * CvHorizon + 1
    BY DEF Folds
  <2>2. k \in 1 .. count /\ CvHorizon \in Nat \ {0}
    BY <1>0 DEF RunwayConstants
  <2> HIDE DEF count
  <2>3. count - k + 1 \in Int /\ count - k + 1 <= count /\ 1 <= count - k + 1
    BY <1>3, <2>2
  <2>4. (count - k + 1) * CvHorizon <= count * CvHorizon /\ 1 * CvHorizon <= (count - k + 1) * CvHorizon
    BY <1>3, <2>2, <2>3, ProductGrows
  <2>5. (count - k + 1) * CvHorizon \in Int /\ count * CvHorizon \in Int
    BY <1>3, <2>2, <2>3
  <2> HIDE DEF free
  <2> DEFINE w == (count - k + 1) * CvHorizon
             t == count * CvHorizon
  <2>6. free = n - Trained(n)
    BY DEF free
  <2> HIDE DEF w, t
  <2>7. w \in Int /\ t \in Int /\ w <= t /\ CvHorizon <= w /\ t <= free /\ Folds(n)[k].from = n - w + 1
    BY <1>4, <2>1, <2>2, <2>4, <2>5 DEF w, t
  <2> QED BY <2>2, <2>6, <2>7, <1>1
<1>6. DOMAIN Folds(n) = 1 .. FoldCount(n)
  BY DEF Folds
<1> QED BY <1>1, <1>3, <1>5, <1>6

\* What is held out in the folds of one model, and what it scores there.
LEMMA ScoresAre ==
    ASSUME NEW y \in Seq(Int), LongEnough(Len(y)), NEW model,
           NEW scales \in ScalesOf(y)
    PROVE  \E S : IsFiniteSet(S) /\ S # {} /\ Scores(model, y, scales) \in [S -> Int]
<1> DEFINE n == Len(y)
           folds == Folds(n)
           S == (DOMAIN folds) \X (1 .. CvHorizon)
           f == Scores(model, y, scales)
<1>0. RunwayConstants /\ n \in Nat
  BY RunwayConstantsTyped
<1>1. /\ FoldCount(n) \in Nat \ {0} /\ DOMAIN folds = 1 .. FoldCount(n)
      /\ Trained(n) \in Nat /\ Period <= Trained(n)
      /\ \A k \in 1 .. FoldCount(n) : /\ folds[k].from \in Int /\ Trained(n) < folds[k].from
                                     /\ folds[k].from + CvHorizon - 1 <= n
  <2> HIDE DEF n
  <2>1. LongEnough(n)
    BY DEF n
  <2> QED BY <1>0, <2>1, FoldsFit
<1>2. IsFiniteSet(S) /\ S # {}
  <2>1. IsFiniteSet(1 .. FoldCount(n)) /\ IsFiniteSet(1 .. CvHorizon)
    BY <1>0, <1>1, FS_Interval DEF RunwayConstants
  <2>2. <<1, 1>> \in S
    BY <1>0, <1>1 DEF RunwayConstants
  <2> QED BY <1>1, <2>1, <2>2, FS_Product
<1>3. f = [held \in S |-> Magnitude(Residuals(model, y, folds[held[1]])[held[2]])
                            * (ScaleUnit \div scales[held[1]][held[2]])]
  BY DEF Scores
<1>4. ASSUME NEW held \in S
      PROVE  Magnitude(Residuals(model, y, folds[held[1]])[held[2]]) * (ScaleUnit \div scales[held[1]][held[2]]) \in Int
  <2> DEFINE fold == folds[held[1]]
             h == held[2]
             past == SubSeq(y, 1, fold.from - 1)
  <2>1. h \in 1 .. CvHorizon /\ held[1] \in 1 .. FoldCount(n) /\ h \in Nat \ {0}
    BY <1>0, <1>1 DEF RunwayConstants
  <2>2. fold.from \in Int /\ Trained(n) < fold.from /\ fold.from + CvHorizon - 1 <= n
    BY <1>1, <2>1
  <2>3. past \in Seq(Int) /\ Len(past) >= Period
    <3> HIDE DEF fold
    <3>1. fold.from - 1 \in 0 .. n /\ fold.from - 1 >= Period
      <4> HIDE DEF n
      <4>1. CvHorizon \in Nat \ {0} /\ Period \in Nat /\ Trained(n) \in Nat /\ Period <= Trained(n)
        BY <1>0, <1>1 DEF RunwayConstants
      <4> QED BY <1>0, <2>2, <4>1
    <3>2. past \in Seq(Int) /\ Len(past) = fold.from - 1
      BY <3>1
    <3> QED BY <3>1, <3>2
  <2>4. Predict(model, past, h) \in Int
    <3> HIDE DEF past, h
    <3> QED BY <2>1, <2>3, PredictIsInt
  <2>5. y[fold.from + h - 1] \in Int
    <3> HIDE DEF fold, h
    <3>1. fold.from + h - 1 \in 1 .. n
      <4> HIDE DEF n
      <4>1. CvHorizon \in Nat \ {0} /\ Trained(n) \in Nat
        BY <1>0, <1>1 DEF RunwayConstants
      <4> QED BY <1>0, <2>1, <2>2, <4>1, SMTT(30)
    <3> QED BY <3>1
  <2>6. Residuals(model, y, fold)[h] = y[fold.from + h - 1] - Predict(model, past, h)
    BY <2>1 DEF Residuals
  <2>7. Residuals(model, y, fold)[h] \in Int
    <3> HIDE DEF fold, h, past
    <3> QED BY <2>4, <2>5, <2>6
  <2>8. Magnitude(Residuals(model, y, fold)[h]) \in Int
    <3> HIDE DEF fold, h
    <3> QED BY <2>7 DEF Magnitude
  <2>9. ScaleUnit \div scales[held[1]][h] \in Int
    <3> DEFINE scale == scales[held[1]]
    <3>1. h \in 1 .. Larger(Horizon, CvHorizon)
      BY <1>0, <2>1 DEF Larger, RunwayConstants
    <3>2. scale \in Scales
      BY <2>1 DEF ScalesOf
    <3>3. scale[h] \in Nat \ {0}
      <4> HIDE DEF h, scale
      <4> QED BY <3>1, <3>2, RunwayAssumption
    <3>4. ScaleUnit \in Int
      BY <1>0 DEF RunwayConstants
    <3> HIDE DEF h
    <3> QED BY <3>3, <3>4
  <2> HIDE DEF fold, h
  <2>10. Magnitude(Residuals(model, y, fold)[h]) * (ScaleUnit \div scales[held[1]][h]) \in Int
    BY <2>8, <2>9
  <2> QED BY <2>10 DEF fold, h
<1>5. f \in [S -> Int]
  <2> HIDE DEF S, f, folds
  <2> QED BY <1>3, <1>4
<1> QED BY <1>2, <1>5

\* A sample that has been scored or drawn: a finite function to the integers.
Sampled(f) == \E S : IsFiniteSet(S) /\ S # {} /\ f \in [S -> Int]

ViewTyped == /\ view.history \in Seq(Int) /\ view.cash \in Int
             /\ view.receivables \in Receivables

ForecastTyped ==
    /\ forecast.made \in BOOLEAN
    /\ forecast.made => /\ forecast.point \in [1 .. Horizon -> Int]
                        /\ Sampled(forecast.scores)

DrawnPaths == {p \in [shocks : Shocks, delays : Delays, balance : [1 .. Horizon -> Int]] :
                 p.balance = Path(p.shocks, p.delays)}

PathsDrawn == /\ paths \in Seq(DrawnPaths) /\ Len(paths) <= Iterations
              /\ paths # <<>> => forecast.made

\* The report was read off the paths that are there, all of them.
ReadOff(alpha) == [made |-> TRUE, alpha |-> alpha, runway |-> RunwayAtRisk(alpha),
                   curve |-> RuinCurve, hazards |-> Hazards, ruin |-> DaysToRuin]

ReportReadOff ==
    /\ report.made \in BOOLEAN
    /\ report.made => /\ Len(paths) = Iterations
                      /\ \E alpha \in Alphas : report = ReadOff(alpha)

RunwayInv == ViewTyped /\ ForecastTyped /\ PathsDrawn /\ ReportReadOff

-----------------------------------------------------------------------------
\* What arrives on a day is a whole amount.
LEMMA ReceiptsAreInt ==
    ASSUME ViewTyped, NEW delays, NEW d
    PROVE  Receipts(delays, d) \in Int
<1> DEFINE f == [r \in view.receivables |-> r.amount]
           S == {r \in view.receivables : r.payer \in Payers /\ Arrival(r, delays) = d - 1}
<1>1. IsFiniteSet(S) /\ \A r \in S : f[r] \in Int
  <2>1. IsFiniteSet(view.receivables) /\ \A r \in view.receivables : r.amount \in Nat
    BY RunwayAssumption DEF ViewTyped
  <2>2. IsFiniteSet(S)
    BY <2>1, FS_Subset
  <2> QED BY <2>1, <2>2
<1> HIDE DEF f, S
<1>2. SumFunctionOnSet(f, S) \in Int
  BY <1>1, SumType
<1> QED BY <1>2 DEF Receipts, f, S

\* A simulated path is a balance for every day of the horizon.
LEMMA PathIsTyped ==
    ASSUME ViewTyped, ForecastTyped, forecast.made, NEW shocks \in Shocks, NEW delays \in Delays
    PROVE  Path(shocks, delays) \in [1 .. Horizon -> Int]
<1> DEFINE flow == [d \in 1 .. Horizon |-> forecast.point[d] + shocks[d] + Receipts(delays, d)]
<1>1. \A d \in 1 .. Horizon : flow[d] \in Int
  <2>1. ASSUME NEW d \in 1 .. Horizon PROVE flow[d] \in Int
    <3>1. forecast.point[d] \in Int /\ shocks[d] \in Int
      BY RunwayAssumption DEF ForecastTyped
    <3> QED BY <3>1, ReceiptsAreInt
  <2> QED BY <2>1
<1>2. Horizon \in Nat /\ view.cash \in Int
  BY RunwayConstantsTyped DEF RunwayConstants, ViewTyped
<1>3. ASSUME NEW d \in 1 .. Horizon PROVE view.cash + SumFunctionOnSet(flow, 1 .. d) \in Int
  <2> HIDE DEF flow
  <2>1. IsFiniteSet(1 .. d) /\ \A e \in 1 .. d : flow[e] \in Int
    <3>1. d \in Int
      OBVIOUS
    <3> QED BY <1>1, <1>2, <3>1, FS_Interval
  <2>2. SumFunctionOnSet(flow, 1 .. d) \in Int
    BY <2>1, SumType
  <2> QED BY <2>2, <1>2
<1> HIDE DEF flow
<1>4. [d \in 1 .. Horizon |-> view.cash + SumFunctionOnSet(flow, 1 .. d)] \in [1 .. Horizon -> Int]
  BY <1>3
<1> QED BY <1>4 DEF Path, flow

\* Choosing a model and its interval keeps the invariant.
LEMMA ForecastKeeps ==
    ASSUME RunwayInv, NEW candidates, NEW winner, NEW scale \in Scales,
           NEW scales \in ScalesOf(view.history), Forecast(candidates, winner, scale, scales)
    PROVE  RunwayInv'
<1> DEFINE y == view.history
           scores == Scores(winner, y, scales)
           point == [h \in 1 .. Horizon |-> Predict(winner, y, h)]
<1>0. RunwayConstants
  BY RunwayConstantsTyped
<1>1. y \in Seq(Int) /\ LongEnough(Len(y)) /\ Len(y) \in Nat
  BY DEF RunwayInv, ViewTyped, Forecast, LongEnough
<1>2. UNCHANGED <<view, paths, report>> /\ forecast = None
  BY DEF Forecast
<1>3. forecast'.made = TRUE /\ forecast'.point = point /\ forecast'.scores = scores
  BY DEF Forecast
<1>4. Sampled(scores)
  <2>0. scales \in ScalesOf(y)
    OBVIOUS
  <2> HIDE DEF y
  <2>1. \E S : IsFiniteSet(S) /\ S # {} /\ Scores(winner, y, scales) \in [S -> Int]
    BY <1>1, <2>0, ScoresAre
  <2> QED BY <2>1 DEF Sampled
<1>5. point \in [1 .. Horizon -> Int]
  <2>1. Len(y) >= Period
    <3> HIDE DEF y
    <3> DEFINE n == Len(y)
    <3>1. n \in Nat /\ LongEnough(n)
      BY <1>1
    <3> HIDE DEF n
    <3>2. Trained(n) \in Nat /\ Period <= Trained(n)
      BY <3>1, FoldsFit
    <3>3. n >= Period
      BY <1>0, <3>1, <3>2 DEF LongEnough, RunwayConstants
    <3> QED BY <3>3 DEF n
  <2> HIDE DEF y
  <2>2. ASSUME NEW h \in 1 .. Horizon PROVE Predict(winner, y, h) \in Int
    <3>1. h \in Nat \ {0}
      BY <1>0 DEF RunwayConstants
    <3> QED BY <1>1, <2>1, <3>1, PredictIsInt
  <2> QED BY <2>2
<1> HIDE DEF y, scores, point
<1>6. ForecastTyped'
  BY <1>3, <1>4, <1>5 DEF ForecastTyped, Sampled
<1>7. ViewTyped'
  BY <1>2 DEF RunwayInv, ViewTyped
<1>8. paths = <<>>
  BY <1>2 DEF RunwayInv, PathsDrawn, None
<1>9. PathsDrawn'
  <2>1. paths' = <<>>
    BY <1>2, <1>8
  <2>2. Len(paths') = 0 /\ paths' \in Seq(DrawnPaths')
    BY <2>1
  <2> QED BY <2>1, <2>2, <1>0 DEF PathsDrawn, RunwayConstants
<1>10. ReportReadOff'
  <2>1. Len(paths) # Iterations
    BY <1>0, <1>8 DEF RunwayConstants
  <2>2. report.made = FALSE
    BY <2>1 DEF RunwayInv, ReportReadOff
  <2> QED BY <1>2, <2>2 DEF ReportReadOff
<1> QED BY <1>6, <1>7, <1>9, <1>10 DEF RunwayInv

\* Drawing one more path keeps it.
LEMMA DrawKeeps ==
    ASSUME RunwayInv, NEW shocks \in Shocks, NEW delays \in Delays, Draw(shocks, delays)
    PROVE  RunwayInv'
<1> DEFINE new == [shocks |-> shocks, delays |-> delays, balance |-> Path(shocks, delays)]
<1>1. /\ UNCHANGED <<view, forecast, report>> /\ forecast.made /\ Len(paths) < Iterations
      /\ paths' = Append(paths, new)
  BY DEF Draw
<1>2. ViewTyped' /\ ForecastTyped'
  BY <1>1 DEF RunwayInv, ViewTyped, ForecastTyped
<1>3. new \in DrawnPaths
  BY <1>1, PathIsTyped DEF RunwayInv, DrawnPaths
<1>4. paths \in Seq(DrawnPaths) /\ Len(paths) \in Nat
  BY DEF RunwayInv, PathsDrawn
<1>5. DrawnPaths' = DrawnPaths
  BY <1>1 DEF DrawnPaths, Path, Receipts
<1> HIDE DEF new
<1>8. paths' \in Seq(DrawnPaths) /\ Len(paths') = Len(paths) + 1
  BY <1>1, <1>3, <1>4
<1>9. PathsDrawn'
  <2>1. Len(paths') <= Iterations
    BY <1>1, <1>4, <1>8, RunwayConstantsTyped DEF RunwayConstants
  <2> QED BY <1>1, <1>5, <1>8, <2>1 DEF PathsDrawn
<1>10. ReportReadOff'
  <2>1. report.made = FALSE
    BY <1>1, <1>4, RunwayConstantsTyped DEF RunwayInv, ReportReadOff, RunwayConstants
  <2> QED BY <1>1, <2>1 DEF ReportReadOff
<1> QED BY <1>2, <1>9, <1>10 DEF RunwayInv

\* Answering with a report keeps it.
LEMMA AnswerKeeps ==
    ASSUME RunwayInv, NEW alpha \in Alphas, Answer(alpha)
    PROVE  RunwayInv'
<1>1. UNCHANGED <<view, forecast, paths>> /\ Len(paths) = Iterations /\ report' = ReadOff(alpha)
  BY DEF Answer, ReadOff
<1>2. ViewTyped' /\ ForecastTyped'
  BY <1>1 DEF RunwayInv, ViewTyped, ForecastTyped
<1>3. DrawnPaths' = DrawnPaths
  BY <1>1 DEF DrawnPaths, Path, Receipts
<1>4. PathsDrawn'
  BY <1>1, <1>3 DEF RunwayInv, PathsDrawn
<1>5. ReadOff(alpha)' = ReadOff(alpha)
  BY <1>1 DEF ReadOff, RunwayAtRisk, RunwayQuantile, Runways, RuinCurve, Hazards, DaysToRuin
<1>6. report'.made = TRUE
  BY <1>1 DEF ReadOff
<1>7. ReportReadOff'
  BY <1>1, <1>5, <1>6 DEF ReportReadOff
<1> QED BY <1>2, <1>4, <1>7 DEF RunwayInv

\* The forecast, the paths and the report are what the view makes of them.
THEOREM RunwayComputed == RunwaySpec => []RunwayInv
<1>1. Init => RunwayInv
  <2> SUFFICES ASSUME Init PROVE RunwayInv
    OBVIOUS
  <2>1. ViewTyped
    BY RunwayAssumption DEF Init, ViewTyped
  <2>2. ForecastTyped /\ ReportReadOff
    BY DEF Init, None, ForecastTyped, ReportReadOff
  <2>3. PathsDrawn
    BY RunwayConstantsTyped DEF Init, PathsDrawn, RunwayConstants
  <2> QED BY <2>1, <2>2, <2>3 DEF RunwayInv
<1>2. RunwayInv /\ [Next]_vars => RunwayInv'
  <2> SUFFICES ASSUME RunwayInv, [Next]_vars PROVE RunwayInv'
    OBVIOUS
  <2>1. CASE UNCHANGED vars
    <3>1. UNCHANGED <<view, forecast, paths, report>>
      BY <2>1 DEF vars
    <3>2. DrawnPaths' = DrawnPaths
      BY <3>1 DEF DrawnPaths, Path, Receipts
    <3>3. \A alpha : ReadOff(alpha)' = ReadOff(alpha)
      BY <3>1 DEF ReadOff, RunwayAtRisk, RunwayQuantile, Runways, RuinCurve, Hazards, DaysToRuin
    <3>4. ViewTyped' /\ ForecastTyped'
      BY <3>1 DEF RunwayInv, ViewTyped, ForecastTyped
    <3>5. PathsDrawn'
      BY <3>1, <3>2 DEF RunwayInv, PathsDrawn
    <3>6. ReportReadOff'
      BY <3>1, <3>3 DEF RunwayInv, ReportReadOff
    <3> QED BY <3>4, <3>5, <3>6 DEF RunwayInv
  <2>2. CASE \E candidates \in SUBSET Models \ {{}}, winner \in Models,
                scale \in Scales, scales \in ScalesOf(view.history) :
                  Forecast(candidates, winner, scale, scales)
    BY <2>2, ForecastKeeps
  <2>3. CASE \E shocks \in Shocks, delays \in Delays : Draw(shocks, delays)
    BY <2>3, DrawKeeps
  <2>4. CASE \E alpha \in Alphas : Answer(alpha)
    BY <2>4, AnswerKeeps
  <2> QED BY <2>1, <2>2, <2>3, <2>4 DEF Next
<1> QED BY <1>1, <1>2, PTL DEF RunwaySpec

\* What rounding a quotient up gives.
LEMMA CeilOf ==
    ASSUME NEW a \in Int, NEW b \in Nat \ {0}
    PROVE  /\ CeilDiv(a, b) \in Int /\ a <= CeilDiv(a, b) * b
           /\ (CeilDiv(a, b) - 1) * b < a
<1> DEFINE d == (-a) \div b
           r == (-a) % b
<1>1. d \in Int /\ r \in 0 .. b - 1 /\ -a = b * d + r
  <2>1. -a \in Int
    OBVIOUS
  <2> QED BY <2>1, Division
<1>2. CeilDiv(a, b) = -d
  BY DEF CeilDiv
<1> HIDE DEF d, r
<1>3. (-d) * b = -(b * d) /\ (-d - 1) * b = -(b * d) - b
  BY <1>1
<1>4. b * d \in Int
  BY <1>1
<1> QED BY <1>1, <1>2, <1>3, <1>4

\* With the one left out back in, at least as many are covered as the rank says.
LEMMA LeaveOneOut ==
    ASSUME NEW S, IsFiniteSet(S), NEW s \in [S -> Int], Cardinality(S) >= 2
    PROVE  LET n == Cardinality(S)
               r == Smaller(ScoreRank(n - 1), n - 1)
           IN  \E covered \in SUBSET {k \in S : s[k] <= Conformal(Restrict(s, S \ {k})).q} :
                  IsFiniteSet(covered) /\ Cardinality(covered) >= r
<1> DEFINE n == Cardinality(S)
           m == n - 1
           rank == ScoreRank(m)
           r == Smaller(rank, m)
           low == KthSmallest(s, r)
<1>0. RunwayConstants /\ n \in Nat
  BY RunwayConstantsTyped, FS_CardinalityType
<1>1. r \in 1 .. m /\ rank \in Int
  <2> DEFINE a == (m + 1) * ConfNum
  <2>1. a \in Int /\ 1 <= a
    <3>1. 1 * ConfNum <= (m + 1) * ConfNum
      BY <1>0, ProductGrows DEF RunwayConstants
    <3> QED BY <1>0, <3>1 DEF RunwayConstants
  <2>2. rank = CeilDiv(a, ConfDen)
    BY DEF ScoreRank
  <2>3. rank \in Int /\ a <= rank * ConfDen
    <3> HIDE DEF a
    <3> QED BY <1>0, <2>1, <2>2, CeilOf DEF RunwayConstants
  <2>4. rank >= 1
    <3> SUFFICES ASSUME rank <= 0 PROVE FALSE
      BY <2>3
    <3> HIDE DEF rank, a
    <3>1. rank * ConfDen <= 0 * ConfDen
      BY <1>0, <2>3, ProductGrows DEF RunwayConstants
    <3>2. 0 * ConfDen = 0 /\ rank * ConfDen \in Int
      BY <1>0, <2>3 DEF RunwayConstants
    <3> QED BY <2>1, <2>3, <3>1, <3>2
  <2> HIDE DEF rank, n
  <2> QED BY <1>0, <2>3, <2>4 DEF Smaller, n
<1>2. low \in Int /\ r <= Cardinality(UpTo(s, low))
  <2> HIDE DEF r
  <2> QED BY <1>0, <1>1, KthSmallestIs
<1>3. ASSUME NEW k \in S
      PROVE  Conformal(Restrict(s, S \ {k})).q = KthSmallest(Restrict(s, S \ {k}), r)
  <2>1. DOMAIN Restrict(s, S \ {k}) = S \ {k} /\ Cardinality(S \ {k}) = m
    BY <1>0, FS_RemoveElement DEF Restrict
  <2> QED BY <2>1 DEF Conformal
<1>4. ASSUME NEW k \in UpTo(s, low)
      PROVE  k \in S /\ s[k] <= Conformal(Restrict(s, S \ {k})).q
  <2>1. k \in S /\ s[k] \in Int /\ s[k] <= low
    BY DEF UpTo
  <2>2. low <= KthSmallest(Restrict(s, S \ {k}), r)
    <3> HIDE DEF r
    <3> QED BY <1>0, <1>1, <2>1, KthSmallestOfOthers
  <2>3. KthSmallest(Restrict(s, S \ {k}), r) \in Int
    <3>1. /\ IsFiniteSet(S \ {k}) /\ Cardinality(S \ {k}) = m
          /\ Restrict(s, S \ {k}) \in [S \ {k} -> Int]
      BY <1>0, <2>1, FS_RemoveElement DEF Restrict
    <3> HIDE DEF r, m
    <3>2. r \in 1 .. Cardinality(S \ {k})
      BY <1>1, <3>1
    <3> QED BY <3>1, <3>2, KthSmallestIs
  <2> HIDE DEF low, r
  <2> QED BY <1>2, <1>3, <2>1, <2>2, <2>3
<1>5. UpTo(s, low) \in SUBSET S
  BY DEF UpTo
<1>6. IsFiniteSet(UpTo(s, low)) /\ Cardinality(UpTo(s, low)) \in Nat
  BY <1>5, Counted
<1> HIDE DEF low
<1>7. UpTo(s, low) \in SUBSET {k \in S : s[k] <= Conformal(Restrict(s, S \ {k})).q}
  BY <1>4
<1>8. Cardinality(UpTo(s, low)) >= r
  BY <1>1, <1>2, <1>6
<1> QED BY <1>6, <1>7, <1>8

\* The intervals that leave one score out cover at least the share that was asked for.
LEMMA CoversEnough ==
    ASSUME NEW S, IsFiniteSet(S), S # {}, NEW s \in [S -> Int]
    PROVE  LET others(k) == Conformal(Restrict(s, S \ {k}))
               covered == {k \in S : s[k] <= others(k).q}
               n == Cardinality(S)
           IN  /\ (\E k \in S : others(k).achieved) => Cardinality(covered) * ConfDen >= n * ConfNum
               /\ (\A k \in S : ~others(k).achieved) => Cardinality(covered) >= n - 1
<1> DEFINE n == Cardinality(S)
           covered == {k \in S : s[k] <= Conformal(Restrict(s, S \ {k})).q}
           achieved == ScoreRank(n - 1) <= n - 1
           r == Smaller(ScoreRank(n - 1), n - 1)
           a == n * ConfNum
<1>0. RunwayConstants /\ n \in Nat \ {0} /\ IsFiniteSet(covered) /\ Cardinality(covered) \in Nat
  <2>1. covered \in SUBSET S
    OBVIOUS
  <2> HIDE DEF covered
  <2> QED BY <2>1, RunwayConstantsTyped, FS_CardinalityType, FS_EmptySet, FS_Subset
<1>1. ASSUME NEW k \in S PROVE Conformal(Restrict(s, S \ {k})).achieved = achieved
  <2>1. DOMAIN Restrict(s, S \ {k}) = S \ {k} /\ Cardinality(S \ {k}) = n - 1
    BY FS_RemoveElement DEF Restrict
  <2> QED BY <2>1 DEF Conformal
<1>2. ScoreRank(n - 1) \in Int /\ a \in Int /\ a <= ScoreRank(n - 1) * ConfDen /\ a >= 1
  <2>1. a \in Int /\ a >= 1
    <3>1. 1 * ConfNum <= n * ConfNum
      BY <1>0, ProductGrows DEF RunwayConstants
    <3> HIDE DEF n
    <3> QED BY <1>0, <3>1 DEF RunwayConstants
  <2>2. ScoreRank(n - 1) = CeilDiv(a, ConfDen)
    <3> HIDE DEF n
    <3>1. n - 1 + 1 = n
      BY <1>0
    <3> QED BY <3>1 DEF ScoreRank
  <2> HIDE DEF a, n
  <2> QED BY <1>0, <2>1, <2>2, CeilOf DEF RunwayConstants
<1>3. n >= 2 => Cardinality(covered) >= r
  <2> SUFFICES ASSUME n >= 2 PROVE Cardinality(covered) >= r
    OBVIOUS
  <2>1. PICK few \in SUBSET covered : IsFiniteSet(few) /\ Cardinality(few) >= r
    BY LeaveOneOut
  <2> HIDE DEF covered, r
  <2>2. Cardinality(few) \in Nat /\ Cardinality(few) <= Cardinality(covered)
    BY <1>0, <2>1, Counted
  <2>3. r \in Int
    <3> HIDE DEF n
    <3> QED BY <1>0, <1>2 DEF r, Smaller
  <2> QED BY <1>0, <2>1, <2>2, <2>3
<1>4. ASSUME achieved PROVE Cardinality(covered) * ConfDen >= n * ConfNum
  <2>1. n >= 2
    <3> SUFFICES ASSUME n = 1 PROVE FALSE
      BY <1>0
    <3> HIDE DEF n, a
    <3>1. ScoreRank(n - 1) <= 0
      BY <1>4
    <3>2. ScoreRank(n - 1) * ConfDen <= 0 * ConfDen
      BY <1>0, <1>2, <3>1, ProductGrows DEF RunwayConstants
    <3>3. ScoreRank(n - 1) * ConfDen \in Int /\ 0 * ConfDen = 0
      BY <1>0, <1>2 DEF RunwayConstants
    <3> QED BY <1>2, <3>2, <3>3
  <2> HIDE DEF covered, n
  <2>2. r = ScoreRank(n - 1)
    BY <1>2, <1>4, <1>0 DEF Smaller
  <2>3. ScoreRank(n - 1) * ConfDen <= Cardinality(covered) * ConfDen
    BY <1>0, <1>2, <1>3, <2>1, <2>2, ProductGrows DEF RunwayConstants
  <2>4. ScoreRank(n - 1) * ConfDen \in Int /\ Cardinality(covered) * ConfDen \in Int
    BY <1>0, <1>2 DEF RunwayConstants
  <2> HIDE DEF r
  <2> QED BY <1>2, <2>3, <2>4
<1>5. ASSUME ~achieved PROVE Cardinality(covered) >= n - 1
  <2> HIDE DEF covered, n
  <2>1. CASE n = 1
    BY <1>0, <2>1
  <2>2. CASE n # 1
    <3>1. n >= 2 /\ r = n - 1
      BY <1>0, <1>2, <1>5, <2>2 DEF Smaller
    <3> QED BY <1>3, <3>1
  <2> QED BY <2>1, <2>2
<1> HIDE DEF n, covered, achieved
<1>6. /\ (\E k \in S : Conformal(Restrict(s, S \ {k})).achieved) => Cardinality(covered) * ConfDen >= n * ConfNum
      /\ (\A k \in S : ~Conformal(Restrict(s, S \ {k})).achieved) => Cardinality(covered) >= n - 1
  BY <1>1, <1>4, <1>5
<1> QED BY <1>6 DEF n, covered

\* Leave out any of the scores, and the multiplier of the others covers it as often
\* as the confidence says: of every history, model and scale.
THEOREM IntervalsCover == RunwaySpec => []CoversWhatIsLeftOut
<1>1. RunwayInv => CoversWhatIsLeftOut
  <2> SUFFICES ASSUME RunwayInv, forecast.made PROVE CoversWhatIsLeftOut
    BY DEF CoversWhatIsLeftOut
  <2>1. PICK S : IsFiniteSet(S) /\ S # {} /\ forecast.scores \in [S -> Int]
    BY DEF RunwayInv, ForecastTyped, Sampled
  <2>2. DOMAIN forecast.scores = S
    BY <2>1
  <2> QED BY <2>1, <2>2, CoversEnough DEF CoversWhatIsLeftOut
<1> QED BY <1>1, RunwayComputed, PTL

\* The runways drawn, each a day of the horizon, and short of it only for a hit.
LEMMA RunwaysAre ==
    ASSUME RunwayInv
    PROVE  /\ IsFiniteSet(DOMAIN paths) /\ Cardinality(DOMAIN paths) = Len(paths) /\ Len(paths) \in Nat
           /\ DOMAIN Runways = DOMAIN paths /\ Runways \in [DOMAIN paths -> Int]
           /\ \A k \in DOMAIN paths :
                 /\ Runways[k] = Runway(paths[k]) /\ Runway(paths[k]) \in 1 .. Horizon
                 /\ paths[k].balance \in [1 .. Horizon -> Int]
                 /\ ~Hit(paths[k]) => Runway(paths[k]) = Horizon
                 /\ Hit(paths[k]) => /\ Runway(paths[k]) \in HitDays(paths[k])
                                     /\ \A d \in HitDays(paths[k]) : Runway(paths[k]) <= d
<1>0. RunwayConstants
  BY RunwayConstantsTyped
<1>1. paths \in Seq(DrawnPaths) /\ Len(paths) \in Nat /\ DOMAIN paths = 1 .. Len(paths)
  BY DEF RunwayInv, PathsDrawn
<1>2. IsFiniteSet(DOMAIN paths) /\ Cardinality(DOMAIN paths) = Len(paths)
  <2> DEFINE n == Len(paths)
  <2>1. n \in Nat /\ DOMAIN paths = 1 .. n
    BY <1>1
  <2> HIDE DEF n
  <2>2. IsFiniteSet(1 .. n) /\ Cardinality(1 .. n) = n
    BY <2>1, FS_Interval
  <2> QED BY <2>1, <2>2 DEF n
<1>3. ASSUME NEW k \in DOMAIN paths
      PROVE  /\ Runway(paths[k]) \in 1 .. Horizon /\ paths[k].balance \in [1 .. Horizon -> Int]
             /\ ~Hit(paths[k]) => Runway(paths[k]) = Horizon
             /\ Hit(paths[k]) => /\ Runway(paths[k]) \in HitDays(paths[k])
                                 /\ \A d \in HitDays(paths[k]) : Runway(paths[k]) <= d
  <2>1. paths[k] \in DrawnPaths
    BY <1>1
  <2> DEFINE p == paths[k]
  <2>2. p.balance \in [1 .. Horizon -> Int]
    BY <2>1 DEF DrawnPaths
  <2>3. HitDays(p) \in SUBSET (1 .. Horizon)
    BY <2>2 DEF HitDays
  <2> HIDE DEF p
  <2>4. CASE ~Hit(p)
    <3>1. Runway(p) = Horizon /\ Horizon \in 1 .. Horizon
      BY <1>0, <2>4 DEF Runway, RunwayConstants
    <3> QED BY <3>1, <2>2, <2>4 DEF p
  <2>5. CASE Hit(p)
    <3>1. HitDays(p) \in SUBSET Nat /\ HitDays(p) # {}
      BY <2>3, <2>5, <1>0 DEF Hit, RunwayConstants
    <3>2. \E d \in HitDays(p) : \A e \in HitDays(p) : d <= e
      BY <3>1, LeastNatural
    <3>3. Runway(p) = Min(HitDays(p))
      BY <2>5 DEF Runway
    <3>4. Runway(p) \in HitDays(p) /\ \A e \in HitDays(p) : Runway(p) <= e
      BY <3>2, <3>3 DEF Min
    <3> QED BY <2>2, <2>3, <2>5, <3>4 DEF p
  <2> QED BY <2>4, <2>5
<1>4. /\ DOMAIN Runways = DOMAIN paths /\ Runways \in [DOMAIN paths -> Int]
      /\ \A k \in DOMAIN paths : Runways[k] = Runway(paths[k])
  <2>1. \A k \in DOMAIN paths : Runway(paths[k]) \in Int
    BY <1>0, <1>3 DEF RunwayConstants
  <2> QED BY <2>1 DEF Runways
<1> QED BY <1>1, <1>2, <1>3, <1>4

\* "A chance of alpha of reaching zero cash within the runway" is what the paths
\* say, of every set of paths and every confidence.
THEOREM RunwayIsWhatItSays == RunwaySpec => []RunwayMeansWhatItSays
<1>1. RunwayInv => RunwayMeansWhatItSays
  <2> SUFFICES ASSUME RunwayInv, report.made PROVE RunwayMeansWhatItSays
    BY DEF RunwayMeansWhatItSays
  <2> DEFINE S == DOMAIN paths
             f == Runways
             n == Cardinality(S)
  <2>1. PICK alpha \in Alphas : report = ReadOff(alpha) /\ Len(paths) = Iterations
    BY DEF RunwayInv, ReportReadOff
  <2>2. report.alpha = alpha /\ report.runway = RunwayAtRisk(alpha)
    BY <2>1 DEF ReadOff
  <2> DEFINE total == Interpolated(f, alpha, AlphaDen)
             q == total \div AlphaDen
             h == (n - 1) * alpha
             tail == {k \in S : AlphaDen * Runway(paths[k]) <= total}
             Within(d) == {k \in S : Hit(paths[k]) /\ Runway(paths[k]) <= d}
  <2>3. /\ RunwayConstants /\ alpha \in Nat /\ alpha <= AlphaDen
    BY RunwayConstantsTyped, RunwayAssumption DEF RunwayConstants
  <2>4. /\ IsFiniteSet(S) /\ n = Iterations /\ S # {} /\ f \in [S -> Int]
        /\ \A k \in S : f[k] = Runway(paths[k])
    <3>1. n = Iterations /\ IsFiniteSet(S)
      BY <2>1, RunwaysAre
    <3>2. S # {}
      BY <2>3, <3>1, FS_EmptySet DEF RunwayConstants
    <3> QED BY <3>1, <3>2, RunwaysAre
  <2>5. /\ report.runway.days = q /\ report.runway.tail = Cardinality(tail)
        /\ report.runway.tailDays = SumFunctionOnSet(f, tail)
        /\ report.runway.shortfall = Cardinality({k \in S : Hit(paths[k])})
    BY <2>2 DEF RunwayAtRisk, RunwayQuantile
  <2>6. /\ q \in Int
        /\ \A k \in S : AlphaDen * f[k] <= total <=> f[k] <= q
        /\ Cardinality(UpTo(f, q)) * AlphaDen > h
        /\ (Cardinality(Below(f, q)) - 1) * AlphaDen <= h
    <3>1. AlphaDen \in Nat \ {0}
      BY <2>3 DEF RunwayConstants
    <3> HIDE DEF S, f
    <3> QED BY <2>3, <2>4, <3>1, QuantileShares
  <2>7. h = (Iterations - 1) * report.alpha /\ h \in Nat
    <3>1. (Iterations - 1) * alpha \in Nat
      BY <2>3 DEF RunwayConstants
    <3> QED BY <2>2, <2>4, <3>1
  <2>8. \A k \in S : /\ Runway(paths[k]) \in 1 .. Horizon
                     /\ ~Hit(paths[k]) => Runway(paths[k]) = Horizon
    BY RunwaysAre
  <2> HIDE DEF f, n, total, q, h
  <2>9. tail = UpTo(f, q) /\ IsFiniteSet(tail) /\ Cardinality(tail) \in Nat
        /\ Below(f, q) \in SUBSET S
    <3>1. DOMAIN f = S
      BY <2>4
    <3>2. tail = UpTo(f, q) /\ tail \in SUBSET S
      BY <2>4, <2>6, <3>1 DEF UpTo
    <3>3. Below(f, q) \in SUBSET S
      BY <3>1 DEF Below
    <3> HIDE DEF tail, S
    <3> QED BY <2>4, <3>2, <3>3, Counted
  <2>10. ASSUME q < Horizon PROVE Cardinality(Within(q)) * AlphaDen > h
    <3>1. Within(q) = UpTo(f, q)
      <4>1. DOMAIN f = S /\ Horizon \in Int
        BY <2>3, <2>4 DEF RunwayConstants
      <4> QED BY <2>4, <2>6, <2>8, <2>10, <4>1 DEF UpTo
    <3> QED BY <2>6, <3>1
  <2>11. (Cardinality(Within(q - 1)) - 1) * AlphaDen <= h
    <3>1. Within(q - 1) \in SUBSET Below(f, q)
      <4>1. DOMAIN f = S
        BY <2>4
      <4>2. \A k \in S : Runway(paths[k]) \in Int
        BY <2>4
      <4> QED BY <2>4, <2>6, <4>1, <4>2 DEF Below
    <3>2. IsFiniteSet(Below(f, q)) /\ Cardinality(Below(f, q)) \in Nat
      BY <2>4, <2>9, Counted
    <3> HIDE DEF Within
    <3>3. Cardinality(Within(q - 1)) \in Nat /\ Cardinality(Within(q - 1)) <= Cardinality(Below(f, q))
      BY <3>1, <3>2, Counted
    <3> DEFINE a == Cardinality(Within(q - 1)) - 1
               b == Cardinality(Below(f, q)) - 1
    <3>4. a \in Int /\ b \in Int /\ a <= b /\ AlphaDen \in Nat
      BY <2>3, <3>2, <3>3 DEF RunwayConstants
    <3> HIDE DEF a, b
    <3>5. a * AlphaDen <= b * AlphaDen /\ a * AlphaDen \in Int /\ b * AlphaDen \in Int
      BY <3>4, ProductGrows
    <3>6. b * AlphaDen <= h
      BY <2>6 DEF b
    <3>7. a * AlphaDen <= h
      BY <2>7, <3>5, <3>6
    <3> QED BY <3>7 DEF a
  <2>12. Cardinality(tail) > 0
    <3> SUFFICES ASSUME Cardinality(tail) = 0 PROVE FALSE
      BY <2>9
    <3>1. 0 * AlphaDen > h
      BY <2>6, <2>9
    <3> QED BY <2>3, <2>7, <3>1 DEF RunwayConstants
  <2>13. SumFunctionOnSet(f, tail) <= Cardinality(tail) * q
    <3>1. \A k \in tail : f[k] \in Int /\ f[k] <= q
      BY <2>4, <2>6
    <3> HIDE DEF tail
    <3> QED BY <2>6, <2>9, <3>1, SumBound
  <2>14. {k \in S : Hit(paths[k])} = Within(Horizon)
    BY <2>8, <2>3 DEF RunwayConstants
  <2> QED BY <2>5, <2>7, <2>10, <2>11, <2>12, <2>13, <2>14 DEF RunwayMeansWhatItSays
<1> QED BY <1>1, RunwayComputed, PTL

\* Ruin is never undone, and by the end of the horizon it is a hit.
LEMMA RuinIs ==
    ASSUME RunwayInv, NEW k \in DOMAIN paths
    PROVE  /\ \A d, e \in 1 .. Horizon : d <= e /\ Ruined(paths[k], d) => Ruined(paths[k], e)
           /\ Ruined(paths[k], Horizon) <=> Hit(paths[k])
           /\ Hit(paths[k]) => Min({d \in 1 .. Horizon : Ruined(paths[k], d)}) = Runway(paths[k])
<1>0. /\ RunwayConstants /\ Runway(paths[k]) \in 1 .. Horizon
      /\ paths[k].balance \in [1 .. Horizon -> Int]
      /\ Hit(paths[k]) => /\ Runway(paths[k]) \in HitDays(paths[k])
                          /\ \A d \in HitDays(paths[k]) : Runway(paths[k]) <= d
  BY RunwayConstantsTyped, RunwaysAre
<1> DEFINE p == paths[k]
<1>1. HitDays(p) = {d \in 1 .. Horizon : p.balance[d] <= 0} /\ (Hit(p) <=> HitDays(p) # {})
  BY <1>0 DEF HitDays, Hit
<1> HIDE DEF p
<1>2. \A d, e \in 1 .. Horizon : d <= e /\ Ruined(p, d) => Ruined(p, e)
  BY <1>0 DEF Ruined, RunwayConstants
<1>3. Ruined(p, Horizon) <=> Hit(p)
  BY <1>1 DEF Ruined
<1>4. ASSUME Hit(p) PROVE Min({d \in 1 .. Horizon : Ruined(p, d)}) = Runway(p)
  <2> DEFINE D == {d \in 1 .. Horizon : Ruined(p, d)}
             m == Runway(p)
  <2>1. m \in 1 .. Horizon /\ m \in HitDays(p) /\ \A d \in HitDays(p) : m <= d
    BY <1>0, <1>4 DEF p
  <2>2. m \in D
    <3>1. m \in 1 .. m
      BY <2>1
    <3> HIDE DEF m
    <3> QED BY <1>1, <2>1, <3>1 DEF Ruined
  <2>3. ASSUME NEW d \in D PROVE m <= d
    <3>1. PICK e \in 1 .. d : p.balance[e] <= 0
      BY DEF Ruined
    <3>2. e \in 1 .. Horizon /\ e <= d
      BY <1>0 DEF RunwayConstants
    <3>3. m <= e
      BY <1>1, <2>1, <3>1, <3>2
    <3> HIDE DEF m
    <3> QED BY <2>1, <3>2, <3>3
  <2>4. \A a, b \in D : (\A d \in D : a <= d) /\ (\A d \in D : b <= d) => a = b
    BY <1>0 DEF RunwayConstants
  <2> HIDE DEF D, m
  <2>5. Min(D) = m
    BY <2>2, <2>3, <2>4 DEF Min
  <2> QED BY <2>5 DEF D, m
<1> QED BY <1>2, <1>3, <1>4 DEF p

\* Of the bins of the hazard table: inside the horizon, and the last ends with it.
LEMMA BinsAre ==
    ASSUME RunwayConstants
    PROVE  LET bins == CeilDiv(Horizon, BinDays)
           IN  /\ bins \in Nat \ {0} /\ bins * BinDays >= Horizon
               /\ \A b \in 1 .. bins : (b - 1) * BinDays \in 0 .. Horizon - 1
<1> DEFINE bins == CeilDiv(Horizon, BinDays)
<1>1. bins \in Int /\ Horizon <= bins * BinDays /\ (bins - 1) * BinDays < Horizon
  BY CeilOf DEF RunwayConstants
<1> HIDE DEF bins
<1>2. bins >= 1
  <2> SUFFICES ASSUME bins <= 0 PROVE FALSE
    BY <1>1
  <2>1. bins * BinDays <= 0 * BinDays /\ 0 * BinDays = 0 /\ bins * BinDays \in Int
    BY <1>1, ProductGrows DEF RunwayConstants
  <2> QED BY <1>1, <2>1 DEF RunwayConstants
<1>3. ASSUME NEW b \in 1 .. bins PROVE (b - 1) * BinDays \in 0 .. Horizon - 1
  <2>1. b - 1 <= bins - 1 /\ 0 <= b - 1 /\ b \in Int
    BY <1>1
  <2>2. /\ (b - 1) * BinDays <= (bins - 1) * BinDays /\ (b - 1) * BinDays \in Int
        /\ (bins - 1) * BinDays \in Int /\ 0 <= (b - 1) * BinDays
    <3>1. 0 * BinDays <= (b - 1) * BinDays /\ 0 * BinDays = 0
      BY <2>1, ProductGrows DEF RunwayConstants
    <3> QED BY <1>1, <2>1, <3>1, ProductGrows DEF RunwayConstants
  <2> QED BY <1>1, <2>2 DEF RunwayConstants
<1> QED BY <1>1, <1>2, <1>3 DEF bins

\* The hazard table, the ruin curve, the days to ruin and the shortfall tell one
\* story, of every set of paths and every width of the bins.
THEOREM ReportsTellOneStory == RunwaySpec => []ReportsAgree
<1>1. RunwayInv => ReportsAgree
  <2> SUFFICES ASSUME RunwayInv, report.made PROVE ReportsAgree
    BY DEF ReportsAgree
  <2> DEFINE S == DOMAIN paths
             By(d) == {k \in S : Ruined(paths[k], d)}
             hit == {k \in S : Hit(paths[k])}
             bins == CeilDiv(Horizon, BinDays)
             start(b) == (b - 1) * BinDays
             end(b) == Smaller(start(b) + BinDays, Horizon)
             alive(b) == {k \in S : start(b) = 0 \/ ~Ruined(paths[k], start(b))}
             failed(b) == {k \in alive(b) : Ruined(paths[k], end(b))}
  <2>0. RunwayConstants
    BY RunwayConstantsTyped
  <2>1. PICK alpha \in Alphas : report = ReadOff(alpha) /\ Len(paths) = Iterations
    BY DEF RunwayInv, ReportReadOff
  <2>2. /\ report.curve = [d \in 1 .. Horizon |-> Cardinality(By(d))]
        /\ report.runway.shortfall = Cardinality(hit)
        /\ report.hazards = [b \in 1 .. bins |->
              [from |-> start(b) + 1, to |-> end(b), atRisk |-> Cardinality(alive(b)),
               failed |-> Cardinality(failed(b))]]
        /\ report.ruin.n = Cardinality(By(Horizon))
        /\ report.ruin.sum = SumFunction([k \in By(Horizon) |-> Min({d \in 1 .. Horizon : Ruined(paths[k], d)})])
    BY <2>1 DEF ReadOff, RuinCurve, Hazards, DaysToRuin, RunwayAtRisk
  <2>3. IsFiniteSet(S) /\ Cardinality(S) = Iterations
    BY <2>1, RunwaysAre
  <2>4. \A k \in S : /\ \A d, e \in 1 .. Horizon : d <= e /\ Ruined(paths[k], d) => Ruined(paths[k], e)
                     /\ Ruined(paths[k], Horizon) <=> Hit(paths[k])
    BY RuinIs
  <2>5. \A d : IsFiniteSet(By(d)) /\ Cardinality(By(d)) \in Nat
               /\ Cardinality(S \ By(d)) = Iterations - Cardinality(By(d))
    <3>1. \A d : By(d) \in SUBSET S
      OBVIOUS
    <3> HIDE DEF By, S
    <3> QED BY <2>3, <3>1, Counted
  <2>6. \A d \in 1 .. Horizon - 1 : report.curve[d] <= report.curve[d + 1]
    <3> SUFFICES ASSUME NEW d \in 1 .. Horizon - 1 PROVE report.curve[d] <= report.curve[d + 1]
      OBVIOUS
    <3>1. d \in 1 .. Horizon /\ d + 1 \in 1 .. Horizon /\ d <= d + 1
      BY <2>0 DEF RunwayConstants
    <3>2. By(d) \in SUBSET By(d + 1)
      BY <2>4, <3>1
    <3>3. report.curve[d] = Cardinality(By(d)) /\ report.curve[d + 1] = Cardinality(By(d + 1))
      BY <2>2, <3>1
    <3>4. IsFiniteSet(By(d + 1))
      BY <2>5
    <3> HIDE DEF By
    <3>5. Cardinality(By(d)) <= Cardinality(By(d + 1))
      BY <3>2, <3>4, Counted
    <3> QED BY <3>3, <3>5
  <2>7. /\ bins \in Nat \ {0} /\ bins * BinDays >= Horizon
        /\ \A b \in 1 .. bins : start(b) \in 0 .. Horizon - 1
    BY <2>0, BinsAre
  <2>8. \A b \in 1 .. bins :
           /\ end(b) \in 1 .. Horizon /\ start(b) <= end(b)
           /\ alive(b) = S \ (IF start(b) = 0 THEN {} ELSE By(start(b)))
           /\ alive(b) \ failed(b) = S \ By(end(b))
    <3> SUFFICES ASSUME NEW b \in 1 .. bins
                 PROVE  /\ end(b) \in 1 .. Horizon /\ start(b) <= end(b)
                        /\ alive(b) = S \ (IF start(b) = 0 THEN {} ELSE By(start(b)))
                        /\ alive(b) \ failed(b) = S \ By(end(b))
      OBVIOUS
    <3> DEFINE from == start(b)
               to == end(b)
    <3>1. from \in 0 .. Horizon - 1 /\ to = Smaller(from + BinDays, Horizon)
      BY <2>7
    <3>2. to \in 1 .. Horizon /\ from <= to
      <4> HIDE DEF from, to
      <4> QED BY <2>0, <3>1 DEF Smaller, RunwayConstants
    <3>3. alive(b) = {k \in S : from = 0 \/ ~Ruined(paths[k], from)}
          /\ failed(b) = {k \in alive(b) : Ruined(paths[k], to)}
      OBVIOUS
    <3>4. from # 0 => from \in 1 .. Horizon
      <4> HIDE DEF from
      <4> QED BY <2>0, <3>1 DEF RunwayConstants
    <3> HIDE DEF from, to, alive, failed
    <3>5. \A k \in S : from # 0 /\ Ruined(paths[k], from) => Ruined(paths[k], to)
      BY <2>4, <3>2, <3>4
    <3>6. alive(b) = S \ (IF from = 0 THEN {} ELSE By(from))
      BY <3>3
    <3>7. alive(b) \ failed(b) = S \ By(to)
      BY <3>3, <3>5
    <3> QED BY <3>2, <3>6, <3>7 DEF from, to
  <2>9. ASSUME NEW b \in DOMAIN report.hazards
        PROVE  LET row == report.hazards[b] IN
               /\ row.atRisk = Iterations - (IF row.from = 1 THEN 0 ELSE report.curve[row.from - 1])
               /\ row.atRisk - row.failed = Iterations - report.curve[row.to]
    <3> DEFINE from == start(b)
               to == end(b)
    <3>1. b \in 1 .. bins /\ report.hazards[b] =
             [from |-> from + 1, to |-> to, atRisk |-> Cardinality(alive(b)),
              failed |-> Cardinality(failed(b))]
      BY <2>2
    <3>2. /\ from \in 0 .. Horizon - 1 /\ to \in 1 .. Horizon
          /\ alive(b) = S \ (IF from = 0 THEN {} ELSE By(from))
          /\ alive(b) \ failed(b) = S \ By(to)
      BY <2>7, <2>8, <3>1
    <3>3. failed(b) \in SUBSET alive(b) /\ alive(b) \in SUBSET S
      OBVIOUS
    <3> HIDE DEF from, to, alive, failed, By, S
    <3>4. /\ IsFiniteSet(alive(b)) /\ Cardinality(alive(b)) \in Nat /\ Cardinality(failed(b)) \in Nat
          /\ Cardinality(alive(b) \ failed(b)) = Cardinality(alive(b)) - Cardinality(failed(b))
      <4>1. IsFiniteSet(alive(b)) /\ Cardinality(alive(b)) \in Nat
        BY <2>3, <3>3, Counted
      <4> QED BY <3>3, <4>1, Counted
    <3>5. Cardinality(alive(b)) = Iterations - (IF from = 0 THEN 0 ELSE Cardinality(By(from)))
      <4>1. CASE from = 0
        <5>1. alive(b) = S
          BY <3>2, <4>1
        <5> QED BY <2>0, <2>3, <4>1, <5>1 DEF RunwayConstants
      <4>2. CASE from # 0
        BY <2>5, <3>2, <4>2
      <4> QED BY <4>1, <4>2
    <3>6. Cardinality(alive(b)) - Cardinality(failed(b)) = Iterations - Cardinality(By(to))
      BY <2>5, <3>2, <3>4
    <3>7. report.curve[to] = Cardinality(By(to))
          /\ (from # 0 => report.curve[from] = Cardinality(By(from)))
      <4>1. from # 0 => from \in 1 .. Horizon
        BY <2>0, <3>2 DEF RunwayConstants
      <4> QED BY <2>2, <3>2, <4>1
    <3>8. (from + 1 = 1 <=> from = 0) /\ from + 1 - 1 = from
      BY <3>2
    <3> DEFINE row == report.hazards[b]
    <3>9. /\ row.atRisk = Cardinality(alive(b)) /\ row.failed = Cardinality(failed(b))
          /\ row.from = from + 1 /\ row.to = to
      BY <3>1
    <3> HIDE DEF row
    <3>10. row.atRisk = Iterations - (IF row.from = 1 THEN 0 ELSE report.curve[row.from - 1])
      <4>1. CASE from = 0
        BY <3>5, <3>8, <3>9, <4>1
      <4>2. CASE from # 0
        <5>1. row.from - 1 = from /\ row.from # 1
          BY <3>2, <3>8, <3>9, <4>2
        <5>2. report.curve[row.from - 1] = Cardinality(By(from))
          BY <3>7, <4>2, <5>1
        <5> QED BY <3>5, <3>9, <4>2, <5>1, <5>2
      <4> QED BY <4>1, <4>2
    <3>11. row.atRisk - row.failed = Iterations - report.curve[row.to]
      BY <3>6, <3>7, <3>9
    <3> QED BY <3>10, <3>11 DEF row
  <2>10. report.hazards[Len(report.hazards)].to = Horizon
    <3>1. Len(report.hazards) = bins /\ bins \in 1 .. bins
      <4>1. bins \in Nat /\ DOMAIN report.hazards = 1 .. bins
        BY <2>2, <2>7
      <4> HIDE DEF bins
      <4>2. Len(report.hazards) = bins
        BY <2>2, <4>1
      <4> QED BY <2>7, <4>2
    <3>2. report.hazards[bins].to = end(bins)
      BY <2>2, <3>1
    <3>3. start(bins) + BinDays >= Horizon
      <4> HIDE DEF bins
      <4>1. start(bins) + BinDays = bins * BinDays
        BY <2>0, <2>7 DEF RunwayConstants
      <4> QED BY <2>7, <4>1
    <3>4. end(bins) = Horizon
      <4> HIDE DEF bins
      <4>1. start(bins) \in Int
        BY <2>0, <2>7 DEF RunwayConstants
      <4> HIDE DEF start
      <4> QED BY <2>0, <3>3, <4>1 DEF Smaller, RunwayConstants
    <3> QED BY <3>1, <3>2, <3>4
  <2>11. By(Horizon) = hit
    BY <2>4
  <2>12. report.curve[Horizon] = report.runway.shortfall /\ report.ruin.n = report.runway.shortfall
    <3>1. Horizon \in 1 .. Horizon
      BY <2>0 DEF RunwayConstants
    <3> QED BY <2>2, <2>11, <3>1
  <2>13. report.ruin.sum = SumFunctionOnSet(Runways, hit)
    <3> DEFINE f == [k \in hit |-> Min({d \in 1 .. Horizon : Ruined(paths[k], d)})]
    <3>1. report.ruin.sum = SumFunctionOnSet(f, hit)
      BY <2>2, <2>11 DEF SumFunction
    <3>2. \A k \in hit : f[k] \in Int /\ f[k] = Runways[k]
      <4>1. ASSUME NEW k \in hit PROVE f[k] \in Int /\ f[k] = Runways[k]
        <5>1. k \in DOMAIN paths /\ Hit(paths[k])
          OBVIOUS
        <5>2. f[k] = Runway(paths[k])
          BY <5>1, RuinIs
        <5>3. Runways[k] = Runway(paths[k]) /\ Runway(paths[k]) \in Int
          BY <5>1, <2>0, RunwaysAre DEF RunwayConstants
        <5> QED BY <5>2, <5>3
      <4> QED BY <4>1
    <3>3. IsFiniteSet(hit)
      BY <2>5, <2>11
    <3> HIDE DEF f, hit
    <3>4. SumFunctionOnSet(f, hit) = SumFunctionOnSet(Runways, hit)
      BY <3>2, <3>3, SumSame
    <3> QED BY <3>1, <3>4
  <2> HIDE DEF By
  <2> QED BY <2>6, <2>9, <2>10, <2>12, <2>13 DEF ReportsAgree
<1> QED BY <1>1, RunwayComputed, PTL

\* What has arrived by a day, of the receivables that do arrive.
Arrived(delays, d) ==
    {r \in view.receivables : r.payer \in Payers /\ Arrival(r, delays) \in 0 .. d - 1}

Owed == [r \in view.receivables |-> r.amount]

\* A view's receivables are finite many, and what each owes is a natural.
LEMMA ReceivablesAre ==
    ASSUME ViewTyped
    PROVE  /\ IsFiniteSet(view.receivables)
           /\ \A r \in view.receivables : Owed[r] \in Nat /\ r.untilDue \in Int
           /\ \A delays \in Delays, r \in view.receivables :
                 r.payer \in Payers => Arrival(r, delays) \in Int
<1>1. IsFiniteSet(view.receivables)
      /\ \A r \in view.receivables : Owed[r] \in Nat /\ r.untilDue \in Int
  BY RunwayAssumption DEF ViewTyped, Owed
<1>2. ASSUME NEW delays \in Delays, NEW r \in view.receivables, r.payer \in Payers
      PROVE  Arrival(r, delays) \in Int
  <2>1. delays[r.payer] \in Int
    BY <1>2, RunwayAssumption
  <2> QED BY <1>1, <2>1 DEF Arrival
<1> QED BY <1>1, <1>2

\* A balance is the flow drawn and what has arrived.
LEMMA FlowAndArrivals ==
    ASSUME RunwayInv, forecast.made, NEW shocks \in Shocks, NEW delays \in Delays
    PROVE  LET flow == [d \in 1 .. Horizon |-> forecast.point[d] + shocks[d] + Receipts(delays, d)]
               base == [d \in 1 .. Horizon |-> forecast.point[d] + shocks[d]]
           IN  \A d \in 0 .. Horizon :
                  SumFunctionOnSet(flow, 1 .. d)
                     = SumFunctionOnSet(base, 1 .. d) + SumFunctionOnSet(Owed, Arrived(delays, d))
<1> DEFINE flow == [d \in 1 .. Horizon |-> forecast.point[d] + shocks[d] + Receipts(delays, d)]
           base == [d \in 1 .. Horizon |-> forecast.point[d] + shocks[d]]
           In(d) == SumFunctionOnSet(flow, 1 .. d)
           Own(d) == SumFunctionOnSet(base, 1 .. d)
           Came(d) == SumFunctionOnSet(Owed, Arrived(delays, d))
           Wrong == {d \in 0 .. Horizon : In(d) # Own(d) + Came(d)}
<1>0. RunwayConstants /\ ViewTyped /\ Horizon \in Nat
  BY RunwayConstantsTyped DEF RunwayInv, RunwayConstants
<1>1. \A d \in 1 .. Horizon : /\ flow[d] = base[d] + Receipts(delays, d)
                              /\ flow[d] \in Int /\ base[d] \in Int /\ Receipts(delays, d) \in Int
  <2>1. ASSUME NEW d \in 1 .. Horizon
        PROVE  /\ flow[d] = base[d] + Receipts(delays, d)
               /\ flow[d] \in Int /\ base[d] \in Int /\ Receipts(delays, d) \in Int
    <3>1. forecast.point[d] \in Int /\ shocks[d] \in Int /\ Receipts(delays, d) \in Int
      BY <1>0, RunwayAssumption, ReceiptsAreInt DEF RunwayInv, ForecastTyped
    <3> QED BY <3>1
  <2> QED BY <2>1
<1>2. \A d : /\ IsFiniteSet(Arrived(delays, d)) /\ Arrived(delays, d) \in SUBSET view.receivables
             /\ Came(d) \in Int
  <2> SUFFICES ASSUME NEW d
               PROVE  /\ IsFiniteSet(Arrived(delays, d)) /\ Arrived(delays, d) \in SUBSET view.receivables
                      /\ Came(d) \in Int
    OBVIOUS
  <2>1. Arrived(delays, d) \in SUBSET view.receivables
    BY DEF Arrived
  <2>2. IsFiniteSet(Arrived(delays, d))
    BY <1>0, <2>1, ReceivablesAre, FS_Subset
  <2>3. \A r \in Arrived(delays, d) : Owed[r] \in Int
    BY <1>0, <2>1, ReceivablesAre
  <2> QED BY <2>1, <2>2, <2>3, SumType
<1>3. In(0) = Own(0) + Came(0)
  <2>1. 1 .. 0 = {} /\ Arrived(delays, 0) = {}
    BY DEF Arrived
  <2> HIDE DEF flow, base
  <2> QED BY <2>1, SumEmpty
<1>4. ASSUME NEW d \in 1 .. Horizon, In(d - 1) = Own(d - 1) + Came(d - 1)
      PROVE  In(d) = Own(d) + Came(d)
  <2> DEFINE new == {r \in view.receivables : r.payer \in Payers /\ Arrival(r, delays) = d - 1}
             before == Arrived(delays, d - 1)
             days == 1 .. d - 1
  <2>1. /\ 1 .. d = days \union {d} /\ d \notin days
        /\ IsFiniteSet(days)
        /\ \A e \in days \union {d} : e \in 1 .. Horizon
    <3>1. d - 1 \in Int /\ IsFiniteSet(1 .. d - 1)
      BY FS_Interval
    <3> QED BY <1>0, <3>1
  <2> HIDE DEF flow, base, days
  <2>2. \A e \in days \union {d} : flow[e] \in Int /\ base[e] \in Int
    BY <1>1, <2>1
  <2>3. /\ In(d) = SumFunctionOnSet(flow, days) + flow[d]
        /\ Own(d) = SumFunctionOnSet(base, days) + base[d]
    BY <2>1, <2>2, SumAdd
  <2>4. SumFunctionOnSet(flow, days) \in Int /\ SumFunctionOnSet(base, days) \in Int
    BY <2>1, <2>2, SumType
  <2>5. /\ Arrived(delays, d) = before \union new /\ before \cap new = {}
        /\ IsFiniteSet(before) /\ IsFiniteSet(new)
        /\ \A r \in before \union new : Owed[r] \in Int
    <3>1. Arrived(delays, d) = before \union new /\ before \cap new = {}
      <4>1. \A r \in view.receivables : r.payer \in Payers => Arrival(r, delays) \in Int
        BY <1>0, ReceivablesAre
      <4>2. \A a \in Int : (a \in 0 .. d - 1 <=> (a \in 0 .. d - 1 - 1 \/ a = d - 1))
                           /\ ~(a \in 0 .. d - 1 - 1 /\ a = d - 1)
        OBVIOUS
      <4> QED BY <4>1, <4>2 DEF Arrived
    <3>2. new \in SUBSET view.receivables
      OBVIOUS
    <3>3. IsFiniteSet(new)
      BY <1>0, <3>2, ReceivablesAre, FS_Subset
    <3>4. IsFiniteSet(before) /\ before \in SUBSET view.receivables
      BY <1>2
    <3>5. \A r \in before \union new : Owed[r] \in Int
      BY <1>0, <3>2, <3>4, ReceivablesAre
    <3> QED BY <3>1, <3>3, <3>4, <3>5
  <2>6. Receipts(delays, d) = SumFunctionOnSet(Owed, new)
    BY DEF Receipts, Owed
  <2> HIDE DEF before, new
  <2>7. Came(d) = SumFunctionOnSet(Owed, before) + SumFunctionOnSet(Owed, new)
    BY <2>5, SumUnion
  <2>8. SumFunctionOnSet(Owed, before) = Came(d - 1) /\ Came(d - 1) \in Int
    BY <1>2 DEF before
  <2>9. SumFunctionOnSet(flow, days) = In(d - 1) /\ SumFunctionOnSet(base, days) = Own(d - 1)
    BY DEF days
  <2>10. flow[d] = base[d] + Receipts(delays, d) /\ base[d] \in Int /\ Receipts(delays, d) \in Int
    BY <1>1
  <2> HIDE DEF In, Own, Came
  <2> QED BY <1>4, <2>3, <2>4, <2>6, <2>7, <2>8, <2>9, <2>10
<1> HIDE DEF In, Own, Came
<1>5. Wrong = {}
  <2> SUFFICES ASSUME Wrong # {} PROVE FALSE
    OBVIOUS
  <2>1. Wrong \in SUBSET Nat
    BY <1>0
  <2>2. PICK d \in Wrong : \A e \in Wrong : d <= e
    <3> HIDE DEF Wrong
    <3> QED BY <2>1, LeastNatural
  <2>3. d \in 1 .. Horizon
    BY <1>3, <1>0
  <2>4. In(d - 1) = Own(d - 1) + Came(d - 1)
    <3>1. d - 1 \in 0 .. Horizon /\ ~(d <= d - 1)
      BY <1>0, <2>3
    <3> QED BY <2>2, <3>1
  <2> QED BY <1>4, <2>3, <2>4
<1>6. \A d \in 0 .. Horizon : In(d) = Own(d) + Came(d)
  BY <1>5
<1> QED BY <1>6 DEF In, Own, Came

\* Payers who take longer never help, whatever is owed, drawn and forecast.
THEOREM SlowerNeverHelps == RunwaySpec => []SlowerPayersNeverHelp
<1>1. RunwayInv => SlowerPayersNeverHelp
  <2> SUFFICES ASSUME RunwayInv, NEW k \in DOMAIN paths, NEW l \in DOMAIN paths,
                      paths[k].shocks = paths[l].shocks,
                      \A p \in Payers : paths[k].delays[p] <= paths[l].delays[p],
                      \A r \in view.receivables : r.payer \in Payers => Arrival(r, paths[k].delays) >= 0,
                      NEW d \in 1 .. Horizon
               PROVE  paths[k].balance[d] >= paths[l].balance[d]
    BY DEF SlowerPayersNeverHelp
  <2>0. RunwayConstants /\ ViewTyped /\ view.cash \in Int /\ d \in 0 .. Horizon
    BY RunwayConstantsTyped DEF RunwayInv, ViewTyped
  <2>1. forecast.made /\ paths[k] \in DrawnPaths /\ paths[l] \in DrawnPaths
    <3>1. paths \in Seq(DrawnPaths) /\ (paths # <<>> => forecast.made)
      BY DEF RunwayInv, PathsDrawn
    <3>2. paths # <<>>
      OBVIOUS
    <3> QED BY <3>1, <3>2
  <2> DEFINE shocks == paths[k].shocks
             soon == paths[k].delays
             late == paths[l].delays
             base == [e \in 1 .. Horizon |-> forecast.point[e] + shocks[e]]
             own == SumFunctionOnSet(base, 1 .. d)
             cameSoon == SumFunctionOnSet(Owed, Arrived(soon, d))
             cameLate == SumFunctionOnSet(Owed, Arrived(late, d))
  <2>2. /\ shocks \in Shocks /\ soon \in Delays /\ late \in Delays
        /\ paths[k].balance = Path(shocks, soon) /\ paths[l].balance = Path(shocks, late)
    BY <2>1 DEF DrawnPaths
  <2>3. \A delays \in Delays :
           Path(shocks, delays)[d] = view.cash + (own + SumFunctionOnSet(Owed, Arrived(delays, d)))
    <3> SUFFICES ASSUME NEW delays \in Delays
                 PROVE  Path(shocks, delays)[d] = view.cash + (own + SumFunctionOnSet(Owed, Arrived(delays, d)))
      OBVIOUS
    <3> DEFINE flow == [e \in 1 .. Horizon |-> forecast.point[e] + shocks[e] + Receipts(delays, e)]
    <3>1. Path(shocks, delays)[d] = view.cash + SumFunctionOnSet(flow, 1 .. d)
      BY DEF Path
    <3> HIDE DEF shocks
    <3>2. SumFunctionOnSet(flow, 1 .. d) = own + SumFunctionOnSet(Owed, Arrived(delays, d))
      BY <2>0, <2>1, <2>2, FlowAndArrivals
    <3> QED BY <3>1, <3>2
  <2>4. Arrived(late, d) \in SUBSET Arrived(soon, d)
    <3> SUFFICES ASSUME NEW r \in Arrived(late, d) PROVE r \in Arrived(soon, d)
      OBVIOUS
    <3>1. r \in view.receivables /\ r.payer \in Payers /\ Arrival(r, late) \in 0 .. d - 1
      BY DEF Arrived
    <3>2. soon[r.payer] \in Int /\ late[r.payer] \in Int /\ r.untilDue \in Int
      BY <2>0, <2>2, <3>1, RunwayAssumption, ReceivablesAre
    <3>3. soon[r.payer] <= late[r.payer] /\ Arrival(r, soon) >= 0
      BY <3>1
    <3> HIDE DEF soon, late
    <3>4. Arrival(r, soon) \in Int /\ Arrival(r, soon) <= Arrival(r, late)
      BY <3>2, <3>3 DEF Arrival
    <3>5. Arrival(r, soon) \in 0 .. d - 1
      BY <3>1, <3>3, <3>4
    <3> QED BY <3>1, <3>5 DEF Arrived
  <2>5. /\ IsFiniteSet(Arrived(soon, d)) /\ Arrived(soon, d) \in SUBSET view.receivables
        /\ \A r \in Arrived(soon, d) : Owed[r] \in Nat
    <3>1. Arrived(soon, d) \in SUBSET view.receivables
      BY DEF Arrived
    <3> HIDE DEF soon
    <3> QED BY <2>0, <3>1, ReceivablesAre, FS_Subset
  <2> HIDE DEF soon, late
  <2>6. cameLate <= cameSoon
    BY <2>4, <2>5, SumSubset
  <2>7. cameSoon \in Int /\ cameLate \in Int
    <3>1. IsFiniteSet(Arrived(late, d)) /\ \A r \in Arrived(late, d) : Owed[r] \in Int
      BY <2>4, <2>5, FS_Subset
    <3>2. \A r \in Arrived(soon, d) : Owed[r] \in Int
      BY <2>5
    <3> QED BY <2>5, <3>1, <3>2, SumType
  <2>8. own \in Int
    <3>1. d \in Int /\ IsFiniteSet(1 .. d)
      BY FS_Interval
    <3>2. \A e \in 1 .. d : base[e] \in Int
      <4>1. \A e \in 1 .. Horizon : forecast.point[e] \in Int /\ shocks[e] \in Int
        BY <2>1, <2>2, RunwayAssumption DEF RunwayInv, ForecastTyped
      <4>2. \A e \in 1 .. d : e \in 1 .. Horizon
        BY <2>0 DEF RunwayConstants
      <4> HIDE DEF shocks
      <4> QED BY <4>1, <4>2
    <3> HIDE DEF base
    <3> QED BY <3>1, <3>2, SumType
  <2>9. paths[k].balance[d] = view.cash + (own + cameSoon) /\ paths[l].balance[d] = view.cash + (own + cameLate)
    BY <2>2, <2>3
  <2> HIDE DEF own, cameSoon, cameLate
  <2> QED BY <2>0, <2>6, <2>7, <2>8, <2>9
<1> QED BY <1>1, RunwayComputed, PTL

-----------------------------------------------------------------------------
(* Allocation: sums over the obligations, and what an optimum is.           *)

\* Functions that differ in two places sum to what these differ by.
LEMMA SumDiffersInTwo ==
    ASSUME NEW S, IsFiniteSet(S), NEW f \in [S -> Int]
    PROVE  \A g \in [S -> Int] : \A o \in S : \A p \in S :
              o # p /\ (\A n \in S : n = o \/ n = p \/ g[n] = f[n])
                 => SumFunction(g) = SumFunction(f) + ((g[o] - f[o]) + (g[p] - f[p]))
<1> SUFFICES ASSUME NEW g \in [S -> Int], NEW o \in S, NEW p \in S, o # p,
                    \A n \in S : n = o \/ n = p \/ g[n] = f[n]
             PROVE  SumFunction(g) = SumFunction(f) + ((g[o] - f[o]) + (g[p] - f[p]))
  OBVIOUS
<1> DEFINE u == g[o]
           v == g[p]
           e == [f EXCEPT ![o] = u]
<1>0. ASSUME NEW h \in [S -> Int], NEW m \in S, NEW a \in Int
      PROVE  SumFunction([h EXCEPT ![m] = a]) = SumFunction(h) - h[m] + a
  BY SumExcept, ZenonT(30)
<1>1. /\ e \in [S -> Int] /\ e[p] = f[p] /\ g = [e EXCEPT ![p] = v]
      /\ u \in Int /\ v \in Int
  OBVIOUS
<1>2. SumFunction(e) = SumFunction(f) - f[o] + u
  <2>1. f \in [S -> Int] /\ o \in S /\ u \in Int
    BY <1>1
  <2> HIDE DEF u
  <2>2. SumFunction([f EXCEPT ![o] = u]) = SumFunction(f) - f[o] + u
    BY <1>0, <2>1, Zenon
  <2> QED BY <2>2
<1>3. SumFunction([e EXCEPT ![p] = v]) = SumFunction(e) - e[p] + v
  <2> DEFINE m == p
  <2>1. e \in [S -> Int] /\ m \in S /\ v \in Int
    BY <1>1
  <2> HIDE DEF e, u, v, m
  <2>2. SumFunction([e EXCEPT ![m] = v]) = SumFunction(e) - e[m] + v
    BY <1>0, <2>1, Zenon
  <2> QED BY <2>2 DEF m
<1>4. SumFunction(f) \in Int /\ f[o] \in Int /\ f[p] \in Int /\ g[o] \in Int /\ g[p] \in Int
  <2>1. DOMAIN f = S /\ \A n \in S : f[n] \in Int
    OBVIOUS
  <2> QED BY <2>1, SumType DEF SumFunction
<1>5. SumFunction(g) = SumFunction(e) - e[p] + v
  BY <1>1, <1>3
<1> HIDE DEF e
<1> QED BY <1>1, <1>2, <1>4, <1>5

Obligations == 1 .. N

ProblemTyped ==
    /\ solver \in {"rule", "dp", "lp", "saa"} /\ cash \in Int
    /\ N \in Nat /\ items \in [1 .. N -> Items]
    /\ solver \in {"lp", "saa"} => cash >= 0
    /\ solver = "saa" => batch \in Batches

PenaltyOf(x) == [n \in 1 .. N |-> IF x[n] < items[n].amount
                                  THEN items[n].rate * (items[n].amount - x[n]) ELSE 0]

\* What an obligation is made of.
LEMMA ItemsAre ==
    ASSUME ProblemTyped
    PROVE  /\ IsFiniteSet(1 .. N) /\ Unit \in Nat \ {0} /\ N \in Nat
           /\ \A n \in 1 .. N : /\ items[n] \in Items
                                /\ items[n].amount \in Nat /\ items[n].rate \in Nat
                                /\ items[n].rigid \in BOOLEAN
<1>1. N \in Nat /\ \A n \in 1 .. N : items[n] \in Items
  BY DEF ProblemTyped
<1>2. IsFiniteSet(1 .. N)
  <2> HIDE DEF N
  <2> QED BY <1>1, FS_Interval
<1> QED BY <1>1, <1>2, AllocationAssumption

\* An allocation spends a natural amount.
LEMMA SpendIsNat ==
    ASSUME ProblemTyped, NEW x \in [1 .. N -> Nat]
    PROVE  Spend(x) \in Nat
<1>1. IsFiniteSet(1 .. N) /\ DOMAIN x = 1 .. N /\ \A n \in 1 .. N : x[n] \in Nat
  BY ItemsAre
<1> QED BY <1>1, SumType DEF Spend, SumFunction

\* A penalty is the sum of its terms, a natural.
LEMMA PenaltyIsNat ==
    ASSUME ProblemTyped, NEW x \in [1 .. N -> Nat]
    PROVE  PenaltyOf(x) \in [1 .. N -> Nat] /\ Penalty(x) = SumFunction(PenaltyOf(x)) /\ Penalty(x) \in Nat
<1>1. ASSUME NEW n \in 1 .. N
      PROVE  (IF x[n] < items[n].amount THEN items[n].rate * (items[n].amount - x[n]) ELSE 0) \in Nat
  <2>1. x[n] \in Nat /\ items[n].amount \in Nat /\ items[n].rate \in Nat
    BY ItemsAre
  <2> QED BY <2>1
<1>2. PenaltyOf(x) \in [1 .. N -> Nat]
  BY <1>1 DEF PenaltyOf
<1>3. Penalty(x) = SumFunction(PenaltyOf(x))
  BY DEF Penalty, PenaltyOf
<1>4. SumFunction(PenaltyOf(x)) \in Nat
  <2>1. IsFiniteSet(1 .. N) /\ DOMAIN PenaltyOf(x) = 1 .. N /\ \A n \in 1 .. N : PenaltyOf(x)[n] \in Nat
    BY <1>2, ItemsAre
  <2> QED BY <2>1, SumType DEF SumFunction
<1> QED BY <1>2, <1>3, <1>4

\* Some amount, or none, is the largest owed.
LEMMA LargestAmount ==
    ASSUME ProblemTyped
    PROVE  \E a \in {0} \union {items[n].amount : n \in 1 .. N} : \A n \in 1 .. N : items[n].amount <= a
<1> DEFINE amounts == {0} \union {items[n].amount : n \in 1 .. N}
<1>0. /\ IsFiniteSet(1 .. N) /\ N \in Nat
      /\ \A n \in 1 .. N : items[n].amount \in Nat
  BY ItemsAre
<1>1. \E a \in amounts : \A n \in 1 .. N : items[n].amount <= a
  <2>1. CASE 1 .. N = {}
    BY <2>1
  <2>2. CASE 1 .. N # {}
    <3> DEFINE f == [n \in 1 .. N |-> items[n].amount]
    <3>1. \A n \in 1 .. N : f[n] \in Int
      BY <1>0
    <3>2. PICK m \in 1 .. N : \A n \in 1 .. N : f[n] <= f[m]
      <4> HIDE DEF f
      <4> QED BY <1>0, <2>2, <3>1, LargestValue
    <3>3. items[m].amount \in amounts /\ \A n \in 1 .. N : items[n].amount <= items[m].amount
      BY <3>2
    <3> QED BY <3>3
  <2> QED BY <2>1, <2>2
<1> QED BY <1>1

\* An optimum can be paid, and nothing that can be paid costs less.
LEMMA OptimumIsBest ==
    ASSUME ProblemTyped, NEW budget \in Int, NEW x \in Optima(budget)
    PROVE  /\ x \in [1 .. N -> Nat] /\ Payable(x, budget)
           /\ \A y \in [1 .. N -> Nat] : Payable(y, budget) => Penalty(x) <= Penalty(y)
<1> DEFINE amounts == {0} \union {items[n].amount : n \in 1 .. N}
           bound == CHOOSE a \in amounts : \A n \in 1 .. N : items[n].amount <= a
           feasible == {z \in [1 .. N -> 0 .. bound] : Payable(z, budget)}
           penalties == {Penalty(z) : z \in feasible}
           least == CHOOSE p \in penalties : \A q \in penalties : p <= q
<1>0. /\ IsFiniteSet(1 .. N) /\ N \in Nat
      /\ \A n \in 1 .. N : items[n].amount \in Nat
  BY ItemsAre
<1>1. \E a \in amounts : \A n \in 1 .. N : items[n].amount <= a
  BY LargestAmount
<1>2. bound \in Nat /\ \A n \in 1 .. N : items[n].amount <= bound
  <2>1. amounts \in SUBSET Nat
    BY <1>0
  <2> HIDE DEF amounts
  <2> QED BY <1>1, <2>1
<1>3. x \in feasible /\ Penalty(x) = least
  BY DEF Optima
<1> HIDE DEF bound
<1>4. feasible \in SUBSET [1 .. N -> Nat]
  BY <1>2
<1>5. x \in [1 .. N -> Nat] /\ Payable(x, budget)
  BY <1>3, <1>4
<1>6. penalties \in SUBSET Nat /\ penalties # {}
  <2>1. penalties # {}
    BY <1>3
  <2>2. \A z \in feasible : Penalty(z) \in Nat
    <3> HIDE DEF feasible
    <3> QED BY <1>4, PenaltyIsNat
  <2> QED BY <2>1, <2>2
<1>7. \A q \in penalties : least <= q
  <2> HIDE DEF penalties
  <2>1. \E p \in penalties : \A q \in penalties : p <= q
    BY <1>6, LeastNatural
  <2> QED BY <2>1
<1>8. ASSUME NEW y \in [1 .. N -> Nat], Payable(y, budget) PROVE Penalty(x) <= Penalty(y)
  <2>1. y \in feasible
    <3>1. \A n \in 1 .. N : y[n] \in 0 .. items[n].amount
      BY <1>8 DEF Payable
    <3>2. \A n \in 1 .. N : y[n] \in 0 .. bound
      BY <1>0, <1>2, <3>1, SMTT(30)
    <3> QED BY <1>8, <3>2
  <2> QED BY <1>3, <1>7, <2>1
<1> QED BY <1>5, <1>8

\* The allocation x with u paid of o and v paid of p
Changed(x, o, u, p, v) == [x EXCEPT ![o] = u, ![p] = v]

\* Changing what two obligations get.
LEMMA TwoChanged ==
    ASSUME ProblemTyped, NEW x \in [Obligations -> Nat],
           NEW o \in Obligations, NEW p \in Obligations, o # p, NEW u \in Nat, NEW v \in Nat,
           u <= items[o].amount, x[o] <= items[o].amount,
           v <= items[p].amount, x[p] <= items[p].amount
    PROVE  /\ Changed(x, o, u, p, v) \in [Obligations -> Nat]
           /\ Spend(Changed(x, o, u, p, v)) = Spend(x) - x[o] - x[p] + u + v
           /\ Penalty(Changed(x, o, u, p, v))
                 = Penalty(x) + items[o].rate * (x[o] - u) + items[p].rate * (x[p] - v)
<1> DEFINE y == [x EXCEPT ![o] = u, ![p] = v]
           f == PenaltyOf(x)
           uu == items[o].rate * (items[o].amount - u)
           vv == items[p].rate * (items[p].amount - v)
<1>0. /\ IsFiniteSet(1 .. N)
      /\ items[o].amount \in Nat /\ items[p].amount \in Nat
      /\ items[o].rate \in Nat /\ items[p].rate \in Nat
      /\ x[o] \in Nat /\ x[p] \in Nat /\ u \in Nat /\ v \in Nat
      /\ u <= items[o].amount /\ v <= items[p].amount
      /\ x \in [1 .. N -> Nat] /\ o \in 1 .. N /\ p \in 1 .. N
  BY ItemsAre DEF Obligations
<1>1. y \in [1 .. N -> Nat] /\ x \in [1 .. N -> Int]
  BY <1>0, SMTT(30)
<1>2. Spend(y) = Spend(x) - x[o] - x[p] + u + v
  <2> DEFINE S == 1 .. N
             h == x
             k == o
             l == p
  <2>1. /\ IsFiniteSet(S) /\ h \in [S -> Int] /\ y \in [S -> Int] /\ k \in S /\ l \in S /\ k # l
        /\ \A n \in S : n = k \/ n = l \/ y[n] = h[n]
        /\ y[k] = u /\ y[l] = v
    BY <1>0, <1>1
  <2> HIDE DEF S, y, h, k, l
  <2>2. SumFunction(y) = SumFunction(h) + ((y[k] - h[k]) + (y[l] - h[l]))
    BY <2>1, SumDiffersInTwo
  <2>3. Spend(x) \in Nat
    BY <1>0, SpendIsNat
  <2> QED BY <1>0, <2>1, <2>2, <2>3, SMTT(30) DEF Spend, h, k, l
<1>3. f \in [1 .. N -> Int] /\ Penalty(x) = SumFunction(f) /\ Penalty(x) \in Nat
  BY <1>1, PenaltyIsNat
<1>4. f[o] = items[o].rate * (items[o].amount - x[o]) /\ f[p] = items[p].rate * (items[p].amount - x[p])
  <2>1. ASSUME NEW n \in 1 .. N, x[n] \in Nat, x[n] <= items[n].amount,
               items[n].amount \in Nat, items[n].rate \in Nat
        PROVE f[n] = items[n].rate * (items[n].amount - x[n])
    <3>1. CASE x[n] < items[n].amount
      BY <3>1 DEF PenaltyOf
    <3>2. CASE ~(x[n] < items[n].amount)
      <4>1. x[n] = items[n].amount /\ f[n] = 0
        BY <2>1, <3>2 DEF PenaltyOf
      <4> QED BY <2>1, <4>1
    <3> QED BY <3>1, <3>2
  <2> QED BY <1>0, <2>1
<1>5. uu \in Int /\ vv \in Int
  <2>1. ASSUME NEW r \in Nat, NEW a \in Nat, NEW b \in Nat PROVE r * (a - b) \in Int
    OBVIOUS
  <2> QED BY <1>0, <2>1
<1>6. PenaltyOf(y) = [f EXCEPT ![o] = uu, ![p] = vv]
  <2>1. \A n \in 1 .. N : PenaltyOf(y)[n] = [f EXCEPT ![o] = uu, ![p] = vv][n]
    <3> SUFFICES ASSUME NEW n \in 1 .. N PROVE PenaltyOf(y)[n] = [f EXCEPT ![o] = uu, ![p] = vv][n]
      OBVIOUS
    <3>1. CASE n # o /\ n # p
      <4>1. y[n] = x[n]
        BY <1>0, <3>1
      <4>2. PenaltyOf(y)[n] = f[n]
        BY <4>1 DEF PenaltyOf
      <4> HIDE DEF f, y, uu, vv
      <4> QED BY <1>3, <3>1, <4>2
    <3>2. ASSUME NEW w \in Nat, n = o \/ n = p, y[n] = w, w <= items[n].amount
          PROVE PenaltyOf(y)[n] = items[n].rate * (items[n].amount - w)
      <4>1. items[n].amount \in Nat /\ items[n].rate \in Nat
        BY ItemsAre
      <4>2. CASE w < items[n].amount
        BY <3>2, <4>2 DEF PenaltyOf
      <4>3. CASE ~(w < items[n].amount)
        <5>1. w = items[n].amount /\ PenaltyOf(y)[n] = 0
          BY <3>2, <4>1, <4>3 DEF PenaltyOf
        <5> QED BY <4>1, <5>1
      <4> QED BY <4>2, <4>3
    <3>3. CASE n = o
      <4>1. y[n] = u
        BY <3>3
      <4>2. PenaltyOf(y)[n] = uu
        BY <1>0, <3>2, <3>3, <4>1
      <4>3. [f EXCEPT ![o] = uu, ![p] = vv][n] = uu
        BY <3>3, <1>3
      <4> QED BY <4>2, <4>3
    <3>4. CASE n = p
      <4>1. y[n] = v
        BY <3>4
      <4>2. PenaltyOf(y)[n] = vv
        BY <1>0, <3>2, <3>4, <4>1
      <4>3. [f EXCEPT ![o] = uu, ![p] = vv][n] = vv
        BY <3>4, <1>3
      <4> QED BY <4>2, <4>3
    <3> QED BY <3>1, <3>3, <3>4
  <2>2. DOMAIN PenaltyOf(y) = 1 .. N /\ PenaltyOf(y) = [n \in 1 .. N |-> PenaltyOf(y)[n]]
    BY DEF PenaltyOf
  <2>3. [f EXCEPT ![o] = uu, ![p] = vv] \in [1 .. N -> Int]
    BY <1>3, <1>5
  <2> HIDE DEF y, f, uu, vv
  <2> QED BY <2>1, <2>2, <2>3
<1>7. Penalty(y) = Penalty(x) + ((uu - f[o]) + (vv - f[p]))
  <2>1. Penalty(y) = SumFunction(PenaltyOf(y))
    <3> HIDE DEF y
    <3> QED BY <1>1, PenaltyIsNat
  <2> DEFINE S == 1 .. N
             g == PenaltyOf(y)
             k == o
             l == p
  <2>2. IsFiniteSet(S) /\ f \in [S -> Int] /\ k \in S /\ l \in S /\ k # l
    BY <1>0, <1>3
  <2>3. g \in [S -> Int] /\ g[k] = uu /\ g[l] = vv /\ \A n \in S : n = k \/ n = l \/ g[n] = f[n]
    <3>1. g = [f EXCEPT ![k] = uu, ![l] = vv]
      BY <1>6
    <3> HIDE DEF S, g, f, uu, vv, k, l
    <3> QED BY <1>5, <2>2, <3>1
  <2> HIDE DEF S, f, g, uu, vv, y, k, l
  <2>4. SumFunction(g) = SumFunction(f) + ((g[k] - f[k]) + (g[l] - f[l]))
    BY <2>2, <2>3, SumDiffersInTwo
  <2> QED BY <1>3, <2>1, <2>3, <2>4 DEF g, k, l
<1>8. Penalty(y) = Penalty(x) + items[o].rate * (x[o] - u) + items[p].rate * (x[p] - v)
  <2>2. /\ uu - f[o] = items[o].rate * (x[o] - u) /\ f[o] \in Int
        /\ vv - f[p] = items[p].rate * (x[p] - v) /\ f[p] \in Int
    <3> HIDE DEF f, y
    <3>1. \A n \in {o, p}, w \in Nat :
             /\ items[n].rate * (items[n].amount - x[n]) \in Int
             /\ items[n].rate * (items[n].amount - w) - items[n].rate * (items[n].amount - x[n])
                  = items[n].rate * (x[n] - w)
      <4> SUFFICES ASSUME NEW n \in {o, p}, NEW w \in Nat
                   PROVE  /\ items[n].rate * (items[n].amount - x[n]) \in Int
                          /\ items[n].rate * (items[n].amount - w) - items[n].rate * (items[n].amount - x[n])
                               = items[n].rate * (x[n] - w)
        OBVIOUS
      <4> DEFINE a == items[n].rate
                 b == items[n].amount
                 z == x[n]
      <4>1. a \in Int /\ b \in Int /\ z \in Int /\ w \in Int
        BY <1>0
      <4> HIDE DEF a, b, z
      <4>2. a * (b - z) \in Int /\ a * (b - w) - a * (b - z) = a * (z - w)
        BY <4>1
      <4> QED BY <4>2 DEF a, b, z
    <3> QED BY <1>0, <1>4, <3>1
  <2> DEFINE d == items[o].rate * (x[o] - u)
             e == items[p].rate * (x[p] - v)
  <2>3. uu - f[o] = d /\ vv - f[p] = e
    BY <2>2
  <2> HIDE DEF f, y, uu, vv, d, e
  <2>5. Penalty(y) = Penalty(x) + (d + e)
    BY <1>7, <2>3
  <2>6. d \in Int /\ e \in Int
    BY <1>5, <2>2, <2>3
  <2>7. Penalty(y) = Penalty(x) + d + e
    BY <1>3, <2>5, <2>6
  <2> QED BY <2>7 DEF d, e
<1> QED BY <1>1, <1>2, <1>8 DEF Obligations, Changed
\* The allocation is payable still when two obligations get what they may get and
\* the budget allows for it.
LEMMA PayableStill ==
    ASSUME ProblemTyped, NEW budget \in Int, NEW x \in [Obligations -> Nat], Payable(x, budget),
           NEW o \in Obligations, NEW p \in Obligations, o # p, NEW u \in Nat, NEW v \in Nat,
           u <= items[o].amount, items[o].rigid => u \in {0, items[o].amount},
           v <= items[p].amount, items[p].rigid => v \in {0, items[p].amount},
           Spend(Changed(x, o, u, p, v)) <= budget
    PROVE  Payable(Changed(x, o, u, p, v), budget)
<1> DEFINE y == Changed(x, o, u, p, v)
<1>1. /\ \A n \in Obligations : /\ x[n] \in Nat /\ x[n] <= items[n].amount
                                /\ items[n].rigid => x[n] \in {0, items[n].amount}
      /\ \A n \in Obligations : items[n].amount \in Nat
  BY ItemsAre DEF Payable, Obligations
<1>2. \A n \in Obligations : /\ y[n] \in Nat /\ y[n] <= items[n].amount
                             /\ items[n].rigid => y[n] \in {0, items[n].amount}
  <2> TAKE n \in Obligations
  <2>1. CASE n = p
    <3>1. y[n] = v
      BY <2>1 DEF Changed
    <3> QED BY <2>1, <3>1
  <2>2. CASE n = o
    <3>1. y[n] = u
      BY <2>2 DEF Changed
    <3> QED BY <2>2, <3>1
  <2>3. CASE n # o /\ n # p
    <3>1. y[n] = x[n]
      BY <2>3 DEF Changed
    <3> QED BY <1>1, <3>1
  <2> QED BY <2>1, <2>2, <2>3
<1> HIDE DEF y
<1>3. \A n \in Obligations : y[n] \in 0 .. items[n].amount
  BY <1>1, <1>2
<1> QED BY <1>2, <1>3 DEF Payable, Obligations, y

\* No such change of an optimum saves anything.
LEMMA NoChangeSaves ==
    ASSUME ProblemTyped, NEW budget \in Int, NEW x \in Optima(budget),
           NEW o \in Obligations, NEW p \in Obligations, o # p, NEW u \in Nat, NEW v \in Nat,
           u <= items[o].amount, items[o].rigid => u \in {0, items[o].amount},
           v <= items[p].amount, items[p].rigid => v \in {0, items[p].amount},
           Spend(x) - x[o] - x[p] + u + v <= budget
    PROVE  Penalty(x) <= Penalty(x) + items[o].rate * (x[o] - u) + items[p].rate * (x[p] - v)
<1> DEFINE y == Changed(x, o, u, p, v)
<1>1. /\ x \in [Obligations -> Nat] /\ Payable(x, budget)
      /\ \A z \in [Obligations -> Nat] : Payable(z, budget) => Penalty(x) <= Penalty(z)
  BY OptimumIsBest DEF Obligations
<1>2. x[o] <= items[o].amount /\ x[p] <= items[p].amount
  BY <1>1, ItemsAre DEF Payable, Obligations
<1>3. /\ y \in [Obligations -> Nat]
      /\ Spend(y) = Spend(x) - x[o] - x[p] + u + v
      /\ Penalty(y) = Penalty(x) + items[o].rate * (x[o] - u) + items[p].rate * (x[p] - v)
  BY <1>1, <1>2, TwoChanged
<1>4. Payable(y, budget)
  BY <1>1, <1>3, PayableStill
<1> HIDE DEF y
<1> QED BY <1>1, <1>3, <1>4

\* What the plan quotes as expected late fees is the penalty of its allocation.
LEMMA FeesAreThePenalty ==
    ASSUME ProblemTyped, allocation \in [Obligations -> Nat],
           \A n \in Obligations : allocation[n] <= items[n].amount
    PROVE  ExpectedLateFees = Penalty(allocation)
<1>1. ASSUME NEW n \in 1 .. N
      PROVE  (IF Shortfall(n) > 0 THEN LateFee(n) ELSE 0)
                = (IF allocation[n] < items[n].amount
                   THEN items[n].rate * (items[n].amount - allocation[n]) ELSE 0)
  <2>1. allocation[n] \in Nat /\ items[n].amount \in Nat /\ items[n].rate \in Nat
    BY ItemsAre DEF Obligations
  <2>2. Shortfall(n) > 0 <=> allocation[n] < items[n].amount
    BY <2>1 DEF Shortfall
  <2> QED BY <2>2 DEF LateFee, Shortfall
<1> QED BY <1>1 DEF ExpectedLateFees, Penalty

\* In an optimum no bill held back could take the place of a paid one and save
\* more than that one costs, be it a paisa of it or the whole bill.
LEMMA NoExchangeSaves ==
    ASSUME ProblemTyped, allocation \in Optima(cash),
           NEW o \in Obligations, NEW p \in Obligations,
           ActionType(o) # "pay_now", ActionType(p) = "pay_now"
    PROVE  /\ ~items[o].rigid /\ ~items[p].rigid /\ allocation[p] > 0
                 => items[o].rate <= items[p].rate
           /\ Shortfall(o) <= cash - Spend(allocation) + allocation[p] => LateFee(o) <= LateFee(p)
<1> DEFINE x == allocation
           ao == items[o].amount
           ap == items[p].amount
           ro == items[o].rate
           rp == items[p].rate
           s == Spend(x)
<1>1. /\ x \in [1 .. N -> Nat] /\ Payable(x, cash)
      /\ \A y \in [1 .. N -> Nat] : Payable(y, cash) => Penalty(x) <= Penalty(y)
  <2>1. cash \in Int
    BY DEF ProblemTyped
  <2> QED BY <2>1, OptimumIsBest
<1>2. /\ cash \in Int /\ Penalty(x) \in Nat /\ s \in Nat /\ s <= cash
      /\ ao \in Nat /\ ap \in Nat /\ ro \in Nat /\ rp \in Nat
      /\ x[o] \in Nat /\ x[p] \in Nat /\ x[o] <= ao /\ x[p] <= ap
  <2>1. cash \in Int
    BY DEF ProblemTyped
  <2>2. Penalty(x) \in Nat /\ s \in Nat
    BY <1>1, PenaltyIsNat, SpendIsNat
  <2>3. ao \in Nat /\ ap \in Nat /\ ro \in Nat /\ rp \in Nat
    BY ItemsAre DEF Obligations
  <2>4. x[o] \in Nat /\ x[p] \in Nat /\ x[o] \in 0 .. ao /\ x[p] \in 0 .. ap /\ s <= cash
    BY <1>1 DEF Obligations, Payable
  <2> HIDE DEF x, s, ao, ap
  <2> QED BY <2>1, <2>2, <2>3, <2>4
<1>3. x[o] < ao /\ x[p] = ap /\ o # p
  <2>0. \A n \in {o, p} : Shortfall(n) \in Int
    <3> HIDE DEF x
    <3> QED BY <1>2 DEF Shortfall, x
  <2>1. ~(Shortfall(o) <= 0) /\ Shortfall(p) <= 0
    <3>1. Shortfall(o) <= 0 => ActionType(o) = "pay_now"
      BY <2>0 DEF ActionType
    <3>2. Shortfall(p) > 0 => ActionType(p) \in {"pay_partial", "defer"}
      BY <2>0 DEF ActionType
    <3> QED BY <2>0, <3>1, <3>2
  <2> QED BY <1>2, <2>1 DEF Shortfall
<1>4. x \in [Obligations -> Nat]
  BY <1>1 DEF Obligations
<1>5. ASSUME NEW u \in Nat, NEW v \in Nat,
             u <= ao, items[o].rigid => u \in {0, ao}, v <= ap, items[p].rigid => v \in {0, ap},
             s - x[o] - x[p] + u + v <= cash
      PROVE  Penalty(x) <= Penalty(x) + ro * (x[o] - u) + rp * (x[p] - v)
  BY <1>2, <1>3, <1>5, NoChangeSaves
<1>6. ASSUME ~items[o].rigid, ~items[p].rigid, x[p] > 0 PROVE ro <= rp
  <2> DEFINE u == x[o] + 1
             v == x[p] - 1
  <2>1. /\ u \in Nat /\ v \in Nat /\ u <= ao /\ v <= ap /\ s - x[o] - x[p] + u + v <= cash
        /\ x[o] - u = -1 /\ x[p] - v = 1
    BY <1>2, <1>3, <1>6
  <2>2. Penalty(x) <= Penalty(x) + ro * (-1) + rp * 1
    <3>1. Penalty(x) <= Penalty(x) + ro * (x[o] - u) + rp * (x[p] - v)
      <4> HIDE DEF u, v, x, s, ao, ap, ro, rp
      <4> QED BY <1>5, <1>6, <2>1
    <3> HIDE DEF u, v, x
    <3> QED BY <2>1, <3>1
  <2> HIDE DEF x, ro, rp
  <2> QED BY <1>2, <2>2
<1>7. ASSUME Shortfall(o) <= cash - s + x[p] PROVE LateFee(o) <= LateFee(p)
  <2>1. ao \in Nat /\ 0 \in Nat /\ ao <= ao /\ 0 <= ap /\ s - x[o] - x[p] + ao + 0 <= cash
    <3>1. ao - x[o] <= cash - s + x[p]
      BY <1>7 DEF Shortfall
    <3> HIDE DEF s, x, ao, ap
    <3> QED BY <1>2, <1>3, <3>1
  <2>2. Penalty(x) <= Penalty(x) + ro * (x[o] - ao) + rp * (x[p] - 0)
    <3> HIDE DEF x, s, ao, ap, ro, rp
    <3> QED BY <1>5, <2>1
  <2>3. Penalty(x) <= Penalty(x) + ro * (x[o] - ao) + rp * ap
    <3>1. x[p] - 0 = ap
      BY <1>2, <1>3
    <3> HIDE DEF x, ro, rp, ao, ap
    <3> QED BY <2>2, <3>1
  <2>4. ro * (ao - x[o]) <= rp * ap
    <3> DEFINE d == x[o]
               P == Penalty(x)
    <3>1. d \in Nat /\ P \in Nat /\ P <= P + ro * (d - ao) + rp * ap
      BY <1>2, <2>3
    <3> HIDE DEF d, P, ro, rp, ao, ap
    <3>2. ro * (d - ao) = -(ro * (ao - d)) /\ ro * (ao - d) \in Int /\ rp * ap \in Int
      BY <1>2, <3>1
    <3> DEFINE g == ro * (ao - d)
               h == rp * ap
               k == ro * (d - ao)
    <3>3. k = -g /\ g \in Int /\ h \in Int /\ P <= P + k + h
      BY <3>1, <3>2
    <3> HIDE DEF g, h, k
    <3>4. g <= h
      BY <3>1, <3>3
    <3> QED BY <3>4 DEF g, h, d
  <2>5. LateFee(o) = ro * (ao - x[o]) /\ LateFee(p) = rp * ap
    <3>1. Shortfall(o) = ao - x[o] /\ Shortfall(o) > 0 /\ ~(Shortfall(p) > 0)
      BY <1>2, <1>3 DEF Shortfall
    <3> QED BY <3>1 DEF LateFee
  <2> QED BY <2>4, <2>5
<1> QED BY <1>6, <1>7
\* Whole multiples of d less than d apart from above do not lie above.
LEMMA MultiplesBelow ==
    ASSUME NEW d \in Nat \ {0}, NEW k \in Int, NEW e \in Int, e % d = 0, k * d - e < d
    PROVE  k * d - e <= 0
<1>1. PICK m \in Int : e = m * d
  <2>1. e = d * (e \div d) + (e % d) /\ e \div d \in Int
    OBVIOUS
  <2>2. e = (e \div d) * d
    <3> DEFINE m == e \div d
    <3>1. m \in Int /\ e = d * m
      BY <2>1
    <3> HIDE DEF m
    <3>2. e = m * d
      BY <3>1
    <3> QED BY <3>2 DEF m
  <2> QED BY <2>1, <2>2
<1>2. CASE k <= m
  <2>1. k * d <= m * d
    BY <1>1, <1>2
  <2>2. k * d \in Int /\ m * d \in Int
    OBVIOUS
  <2> DEFINE a == k * d
             b == m * d
  <2>3. a <= b /\ a \in Int /\ b \in Int /\ e = b
    BY <1>1, <2>1, <2>2
  <2> HIDE DEF a, b
  <2>4. a - e <= 0
    BY <2>3
  <2> QED BY <2>4 DEF a
<1>3. CASE k >= m + 1
  <2>1. k * d >= (m + 1) * d /\ (m + 1) * d = m * d + d
    BY <1>1, <1>3
  <2> DEFINE a == k * d
             b == m * d
  <2>2. a >= b + d /\ e = b /\ a \in Int /\ b \in Int /\ a - e < d
    BY <1>1, <2>1
  <2> HIDE DEF a, b
  <2> QED BY <2>2
<1> QED BY <1>1, <1>2, <1>3

BatchTyped ==
    /\ batch \in Seq(Int) /\ batch # <<>> /\ Len(batch) \in Nat
    /\ EpsNum \in Nat /\ EpsDen \in Nat \ {0} /\ EpsNum <= EpsDen

\* Spending no more than the limit leaves too little in at most the share of the
\* scenarios that was allowed for, short of one more.
LEMMA SafeSpendIsSafe ==
    ASSUME BatchTyped, NEW spend \in Nat, spend <= SafeSpend, ~Hopeless
    PROVE  LET excess == Shortfalls(spend) * EpsDen - EpsNum * Len(batch)
           IN  /\ excess < EpsDen
               /\ (EpsNum * Len(batch)) % EpsDen = 0 => excess <= 0
<1> DEFINE S == 1 .. Len(batch)
           k == Shortfalls(spend)
           q == Interpolated(batch, EpsNum, EpsDen) \div EpsDen
           n == Len(batch)
           h == (n - 1) * EpsNum
           excess == k * EpsDen - EpsNum * n
<1>1. /\ IsFiniteSet(S) /\ S # {} /\ Cardinality(S) = n /\ n \in Nat \ {0}
      /\ batch \in [S -> Int] /\ DOMAIN batch = S
  <2>1. n \in Nat /\ n # 0 /\ batch \in [S -> Int]
    BY DEF BatchTyped
  <2>2. IsFiniteSet(S) /\ Cardinality(S) = n
    BY <2>1, FS_Interval
  <2> QED BY <2>1, <2>2
<1>2. /\ q \in Int
      /\ (Cardinality(Below(batch, q)) - 1) * EpsDen <= h
      /\ h = 0 => Below(batch, q) = {}
  <2>1. EpsNum \in Nat /\ EpsDen \in Nat \ {0} /\ EpsNum <= EpsDen
    BY DEF BatchTyped
  <2> DEFINE f == batch
  <2>2. IsFiniteSet(S) /\ S # {} /\ f \in [S -> Int] /\ Cardinality(S) = n
    BY <1>1
  <2> HIDE DEF S, f, n
  <2>3. LET qq == Interpolated(f, EpsNum, EpsDen) \div EpsDen
            hh == (Cardinality(S) - 1) * EpsNum
        IN  /\ qq \in Int
            /\ (Cardinality(Below(f, qq)) - 1) * EpsDen <= hh
            /\ hh = 0 => Below(f, qq) = {}
    BY <2>1, <2>2, QuantileShares
  <2> QED BY <2>2, <2>3 DEF f
<1>3. SafeSpend = IF q > 0 THEN q ELSE 0
  BY DEF SafeSpend, Quantile
<1> HIDE DEF q
<1>4. \A v : Below(batch, v) \in SUBSET S
  BY <1>1 DEF Below
<1>5. k \in Nat /\ \A v : IsFiniteSet(Below(batch, v)) /\ Cardinality(Below(batch, v)) \in Nat
  <2> HIDE DEF S
  <2>1. \A v : IsFiniteSet(Below(batch, v))
    BY <1>1, <1>4, FS_Subset
  <2>2. \A v : Cardinality(Below(batch, v)) \in Nat
    BY <2>1, FS_CardinalityType
  <2> QED BY <2>1, <2>2 DEF Shortfalls
<1>6. excess < EpsDen
  <2>1. CASE q > 0
    <3>1. Below(batch, spend) \subseteq Below(batch, q)
      <4>1. spend <= q
        BY <1>3, <2>1
      <4>2. \A s \in S : batch[s] \in Int
        BY <1>1
      <4> QED BY <1>1, <1>2, <4>1, <4>2 DEF Below
    <3> DEFINE b == Cardinality(Below(batch, q))
    <3>2. k <= b /\ b \in Nat
      BY <1>5, <3>1, FS_Subset DEF Shortfalls
    <3>3. (b - 1) * EpsDen <= h /\ (h = 0 => b = 0)
      BY <1>2, FS_EmptySet
    <3> HIDE DEF b, k
    <3>4. EpsNum \in Nat /\ EpsDen \in Nat \ {0}
      BY DEF BatchTyped
    <3>5. CASE EpsNum = 0
      <4>1. h = 0
        BY <1>1, <3>5
      <4>2. k = 0
        BY <1>5, <3>2, <3>3, <4>1
      <4> QED BY <1>1, <3>4, <3>5, <4>2
    <3>6. CASE EpsNum > 0
      <4>1. (k - 1) * EpsDen <= (b - 1) * EpsDen
        BY <1>5, <3>2, <3>4, ProductGrows
      <4>2. (k - 1) * EpsDen = k * EpsDen - EpsDen /\ h = EpsNum * n - EpsNum
        BY <1>1, <1>5, <3>4
      <4> DEFINE x == k * EpsDen
                 y == EpsNum * n
                 z == (b - 1) * EpsDen
      <4>3. x - EpsDen <= z /\ z <= y - EpsNum /\ x \in Int /\ y \in Int /\ z \in Int
        BY <1>1, <1>5, <3>2, <3>3, <3>4, <4>1, <4>2
      <4> HIDE DEF x, y, z
      <4>4. x - y < EpsDen
        BY <3>4, <3>6, <4>3
      <4> QED BY <4>4 DEF x, y
    <3> QED BY <3>4, <3>5, <3>6
  <2>2. CASE ~(q > 0)
    <3>1. spend = 0
      BY <1>3, <2>2
    <3>2. k * EpsDen <= EpsNum * n
      <4>1. k \in Nat /\ n \in Nat /\ EpsNum \in Nat /\ EpsDen \in Nat
        BY <1>1, <1>5 DEF BatchTyped
      <4>2. ~(k * EpsDen > EpsNum * n)
        BY <3>1 DEF Hopeless
      <4> HIDE DEF k, n
      <4> QED BY <4>1, <4>2
    <3> DEFINE x == k * EpsDen
               y == EpsNum * n
    <3>3. x \in Int /\ y \in Int /\ x <= y /\ EpsDen \in Nat \ {0}
      <4>1. k \in Nat /\ n \in Nat /\ EpsNum \in Nat /\ EpsDen \in Nat \ {0}
        BY <1>1, <1>5 DEF BatchTyped
      <4> HIDE DEF k, n
      <4> QED BY <3>2, <4>1
    <3> HIDE DEF x, y
    <3>4. x - y < EpsDen
      BY <3>3
    <3> QED BY <3>4 DEF x, y
  <2> QED BY <2>1, <2>2
<1>7. ASSUME (EpsNum * n) % EpsDen = 0 PROVE excess <= 0
  <2> DEFINE e == EpsNum * n
  <2>1. EpsDen \in Nat \ {0} /\ k \in Int /\ e \in Int /\ e % EpsDen = 0 /\ k * EpsDen - e < EpsDen
    <3>1. EpsDen \in Nat \ {0} /\ EpsNum \in Nat /\ n \in Nat /\ k \in Int
      BY <1>1, <1>5 DEF BatchTyped
    <3> HIDE DEF k, n
    <3> QED BY <1>6, <1>7, <3>1
  <2> HIDE DEF e, k
  <2>2. k * EpsDen - e <= 0
    BY <2>1, MultiplesBelow
  <2> QED BY <2>2 DEF e
<1> QED BY <1>6, <1>7

-----------------------------------------------------------------------------
(* The invariant of the solvers.                                           *)

Allowed ==
    /\ allocation \in [Obligations -> Nat]
    /\ \A n \in Obligations : /\ allocation[n] <= items[n].amount
                              /\ items[n].rigid => allocation[n] \in {0, items[n].amount}

Phases ==
    /\ phase \in {"start", "pay", "row", "walk", "done"}
    /\ phase = "pay" => solver = "rule"
    /\ phase \in {"row", "walk"} => solver = "dp"
    /\ phase = "start" => allocation = Unpaid
    /\ phase = "start" /\ solver = "dp" => c = 0 /\ take = <<>> /\ choice = <<>> /\ dq = <<>>

\* The rule still has what it has not paid, and nobody it ranks is paid yet.
RuleInv ==
    solver = "rule" =>
        /\ remaining = cash - Spend(allocation)
        /\ remaining >= 0 \/ Spend(allocation) = 0
        /\ order \in Seq(Obligations)
        /\ \A m \in DOMAIN order : allocation[order[m]] = 0
        /\ \A m, n \in DOMAIN order : m # n => order[m] # order[n]

\* What a row of the choice table says of obligation n is within the cells at hand.
RowAllows(row, n) ==
    \A b \in Cells : row[b] <= b /\ (items[n].rigid => row[b] \in {0, Weight(items[n])})

TableAllows == /\ take \in Seq([Cells -> Nat])
               /\ \A n \in DOMAIN take : n <= N => RowAllows(take[n], n)

FillingRow ==
    phase = "row" =>
        /\ Capacity >= 1 /\ allocation = Unpaid
        /\ i \in 1 .. N /\ Len(take) = i - 1
        /\ c \in Cells
        /\ choice \in Seq(Nat) /\ Len(choice) = c
        /\ \A m \in 1 .. c : choice[m] <= m - 1
        /\ dq \in Seq(Cells) /\ \A m \in DOMAIN dq : dq[m] <= c

WalkingBack ==
    phase = "walk" =>
        /\ Capacity >= 1
        /\ i \in 0 .. N /\ Len(take) = N
        /\ c \in Cells
        /\ \A n \in Obligations : n <= i => allocation[n] = 0
        /\ Spend(allocation) + c * Unit <= Capacity * Unit

DpInv == /\ phase \in {"row", "walk"} => TableAllows
         /\ FillingRow
         /\ WalkingBack
         /\ phase = "done" /\ solver = "dp" => Spend(allocation) <= (IF cash > 0 THEN cash ELSE 0)

LpInv == /\ solver = "lp" /\ phase = "done" => allocation \in Optima(cash)
         /\ solver = "saa" /\ phase = "done" => allocation \in Optima(Smaller(cash, SafeSpend))
         /\ solver \in {"lp", "saa"} => phase \in {"start", "done"}

AllocationInv == ProblemTyped /\ Allowed /\ Phases /\ RuleInv /\ DpInv /\ LpInv

\* The DP's cells hold no more than the cash.
LEMMA CapacityIs ==
    ASSUME ProblemTyped
    PROVE  Capacity \in Int /\ Capacity * Unit <= cash
<1>1. cash \in Int /\ Unit \in Nat \ {0}
  BY ItemsAre DEF ProblemTyped
<1> DEFINE q == cash \div Unit
<1>2. q \in Int /\ q <= q
  BY <1>1
<1>3. q * Unit <= cash
  BY <1>1, <1>2, Floor
<1> QED BY <1>2, <1>3 DEF Capacity

\* A rigid obligation's cells hold its amount.
LEMMA WeightIs ==
    ASSUME ProblemTyped, NEW n \in Obligations
    PROVE  /\ Weight(items[n]) \in Nat /\ items[n].amount <= Weight(items[n]) * Unit
           /\ Copies(items[n]) \in Nat
<1> DEFINE a == items[n].amount
           u == Unit
           q == (-a) \div u
<1>1. a \in Nat /\ u \in Nat \ {0}
  BY ItemsAre DEF Obligations
<1> HIDE DEF a, u
<1>2. -a \in Int /\ q \in Int /\ a \div u \in Nat
  BY <1>1
<1>3. q * u <= -a
  <2> DEFINE b == -a
  <2>1. b \in Int /\ b \div u \in Int /\ b \div u <= b \div u
    BY <1>1, <1>2
  <2> HIDE DEF b
  <2>2. (b \div u) * u <= b
    BY <1>1, <2>1, Floor
  <2> QED BY <2>2 DEF b
<1>4. q <= 0
  <2>1. CASE q >= 1
    <3>1. 1 * u <= q * u
      BY <1>1, <1>2, <2>1, ProductGrows
    <3> DEFINE z == q * u
    <3>2. z \in Int /\ u <= z /\ z <= -a
      BY <1>1, <1>2, <1>3, <3>1
    <3> HIDE DEF z
    <3> QED BY <1>1, <3>2
  <2> QED BY <1>2, <2>1
<1> HIDE DEF q
<1>5. (-q) * u = -(q * u) /\ q * u \in Int
  BY <1>1, <1>2
<1>6. -q \in Nat /\ a <= (-q) * u
  <2> DEFINE z == q * u
  <2>1. z \in Int /\ z <= -a /\ (-q) * u = -z
    BY <1>3, <1>5
  <2> HIDE DEF z
  <2> QED BY <1>1, <1>2, <1>4, <2>1
<1> QED BY <1>2, <1>6 DEF Weight, Copies, a, u, q

\* Paying v for n
Put(x, n, v) == [x EXCEPT ![n] = v]

PaidTo(n, v) == Put(allocation, n, v)

\* Changing one value changes the sum by as much.
LEMMA SumPut ==
    ASSUME NEW S, IsFiniteSet(S), NEW x \in [S -> Int], NEW n \in S, NEW v \in Int
    PROVE  SumFunction(Put(x, n, v)) = SumFunction(x) - x[n] + v
BY SumExcept DEF Put

\* Paying one obligation that nothing was paid of yet.
LEMMA PayOne ==
    ASSUME ProblemTyped, Allowed, NEW n \in Obligations, allocation[n] = 0,
           NEW v \in Nat, v <= items[n].amount, items[n].rigid => v \in {0, items[n].amount}
    PROVE  /\ PaidTo(n, v) \in [Obligations -> Nat]
           /\ \A m \in Obligations : /\ PaidTo(n, v)[m] <= items[m].amount
                                     /\ items[m].rigid => PaidTo(n, v)[m] \in {0, items[m].amount}
           /\ \A m \in Obligations : m # n => PaidTo(n, v)[m] = allocation[m]
           /\ Spend(PaidTo(n, v)) = Spend(allocation) + v
<1>1. allocation \in [Obligations -> Nat]
  BY DEF Allowed
<1>2. PaidTo(n, v) \in [Obligations -> Nat]
  BY <1>1 DEF PaidTo, Put
<1>3. \A m \in Obligations : PaidTo(n, v)[m] = IF m = n THEN v ELSE allocation[m]
  BY <1>1 DEF PaidTo, Put
<1>4. Spend(PaidTo(n, v)) = Spend(allocation) - allocation[n] + v
  <2> DEFINE S == Obligations
             x == allocation
             k == n
  <2>1. IsFiniteSet(S) /\ x \in [S -> Int] /\ k \in S
    BY <1>1, ItemsAre DEF Obligations
  <2> HIDE DEF S, x, k
  <2>2. SumFunction(Put(x, k, v)) = SumFunction(x) - x[k] + v
    BY <2>1, SumPut
  <2> QED BY <2>2 DEF PaidTo, Spend, x, k
<1>5. Spend(allocation) \in Nat
  BY <1>1, SpendIsNat DEF Obligations
<1>6. Spend(PaidTo(n, v)) = Spend(allocation) + v
  BY <1>4, <1>5
<1>7. \A m \in Obligations : /\ PaidTo(n, v)[m] <= items[m].amount
                             /\ items[m].rigid => PaidTo(n, v)[m] \in {0, items[m].amount}
  <2> TAKE m \in Obligations
  <2>1. CASE m = n
    BY <1>3, <2>1
  <2>2. CASE m # n
    BY <1>3, <2>2 DEF Allowed
  <2> QED BY <2>1, <2>2
<1> QED BY <1>2, <1>3, <1>6, <1>7

\* Paying nothing costs nothing, and is allowed.
LEMMA NothingPaid ==
    ASSUME ProblemTyped
    PROVE  /\ Unpaid \in [Obligations -> Nat] /\ Spend(Unpaid) = 0
           /\ \A n \in Obligations : Unpaid[n] = 0 /\ items[n].amount \in Nat
<1>1. Unpaid \in [Obligations -> Nat] /\ DOMAIN Unpaid = Obligations /\ \A n \in Obligations : Unpaid[n] = 0
  BY DEF Unpaid, Obligations
<1>2. IsFiniteSet(Obligations)
  BY ItemsAre DEF Obligations
<1>3. SumFunctionOnSet(Unpaid, Obligations) = 0
  BY <1>1, <1>2, SumZero
<1> QED BY <1>1, <1>3, ItemsAre DEF Spend, SumFunction, Obligations

-----------------------------------------------------------------------------
(* What a state function is worth while the problem stays what it is.      *)

PenaltyIn(its, x) == SumFunction([n \in 1..Len(its) |->
                         IF x[n] < its[n].amount THEN its[n].rate * (its[n].amount - x[n]) ELSE 0])

PayableIn(its, x, budget) ==
    /\ Spend(x) <= budget
    /\ \A n \in 1..Len(its) : /\ x[n] \in 0..its[n].amount
                              /\ its[n].rigid => x[n] \in {0, its[n].amount}

OptimaIn(its, budget) ==
    LET bound == CHOOSE a \in {0} \cup {its[n].amount : n \in 1..Len(its)} :
                     \A n \in 1..Len(its) : its[n].amount <= a
        feasible == {x \in [1..Len(its) -> 0..bound] : PayableIn(its, x, budget)}
        penalties == {PenaltyIn(its, x) : x \in feasible}
        least == CHOOSE p \in penalties : \A q \in penalties : p <= q
    IN  {x \in feasible : PenaltyIn(its, x) = least}

SafeSpendIn(b) ==
    LET q == Interpolated(b, EpsNum, EpsDen) \div EpsDen IN IF q > 0 THEN q ELSE 0

OptimaAreThose ==
    /\ Optima(cash) = OptimaIn(items, cash)
    /\ Optima(Smaller(cash, SafeSpend)) = OptimaIn(items, Smaller(cash, SafeSpendIn(batch)))

\* The optima depend on the obligations and the budget only.
LEMMA OptimaAre == OptimaAreThose
<1>1. SafeSpend = SafeSpendIn(batch)
  BY DEF SafeSpend, Quantile, SafeSpendIn
<1>2. Optima(cash) = OptimaIn(items, cash)
  BY DEF Optima, OptimaIn, Payable, PayableIn, Penalty, PenaltyIn, N
<1>3. Optima(Smaller(cash, SafeSpend)) = OptimaIn(items, Smaller(cash, SafeSpend))
  BY DEF Optima, OptimaIn, Payable, PayableIn, Penalty, PenaltyIn, N
<1> QED BY <1>1, <1>2, <1>3 DEF OptimaAreThose

-----------------------------------------------------------------------------
(* The greedy rule and the exact solvers keep it.                          *)

\* A step that leaves the problem alone leaves what is derived from it alone.
LEMMA ProblemKept ==
    ASSUME ProblemTyped, UNCHANGED problemVars
    PROVE  /\ ProblemTyped' /\ N' = N /\ Obligations' = Obligations /\ Unpaid' = Unpaid
           /\ Capacity' = Capacity /\ Cells' = Cells
           /\ items' = items /\ cash' = cash /\ solver' = solver /\ batch' = batch
BY DEF ProblemTyped, problemVars, N, Obligations, Unpaid, Capacity, Cells

\* Nothing is paid to begin with.
LEMMA AllocationStarts == AllocationInit => AllocationInv
<1> SUFFICES ASSUME AllocationInit PROVE AllocationInv
  OBVIOUS
<1>1. ProblemTyped
  <2>1. PICK n \in 0 .. MaxItems : items \in [1 .. n -> Items]
    BY DEF AllocationInit
  <2>2. n \in Nat
    BY <2>1, AllocationAssumption
  <2>3. Len(items) = n
    BY <2>1, <2>2
  <2>4. N \in Nat /\ items \in [1 .. N -> Items]
    BY <2>1, <2>2, <2>3 DEF N
  <2>5. /\ solver \in {"rule", "dp", "lp", "saa"} /\ cash \in Int
        /\ solver \in {"lp", "saa"} => cash >= 0
        /\ solver = "saa" => batch \in Batches
    BY AllocationAssumption DEF AllocationInit
  <2> QED BY <2>4, <2>5 DEF ProblemTyped
<1>2. allocation = Unpaid /\ phase = "start" /\ Spend(allocation) = 0
  BY <1>1, NothingPaid DEF AllocationInit
<1>3. Allowed
  <2>1. \A n \in Obligations : allocation[n] = 0 /\ items[n].amount \in Nat
    BY <1>1, <1>2, NothingPaid
  <2>2. allocation \in [Obligations -> Nat]
    BY <1>1, <1>2, NothingPaid
  <2> QED BY <2>1, <2>2 DEF Allowed
<1>4. Phases
  BY <1>2 DEF Phases, AllocationInit, NoRow
<1>5. RuleInv
  <2>1. remaining = cash /\ cash \in Int /\ order = <<>>
    BY <1>1 DEF AllocationInit, ProblemTyped
  <2> QED BY <1>2, <2>1 DEF RuleInv
<1>6. DpInv /\ LpInv
  BY <1>2 DEF DpInv, LpInv, FillingRow, WalkingBack
<1> QED BY <1>1, <1>3, <1>4, <1>5, <1>6 DEF AllocationInv

\* What a step does not touch stays as it was.
AllocationKept == /\ allocation' = allocation /\ Allowed'
                  /\ Spend(allocation)' = Spend(allocation)

\* A step that leaves the allocation alone keeps it allowed.
LEMMA AllowedKept ==
    ASSUME ProblemTyped, Allowed, UNCHANGED problemVars, allocation' = allocation
    PROVE  AllocationKept
<1>1. Obligations' = Obligations /\ items' = items
  BY ProblemKept
<1> QED BY <1>1 DEF Allowed, AllocationKept, Spend

\* Ranking the obligations keeps the invariant.
LEMMA RankKeeps == AllocationInv /\ Rank => AllocationInv'
<1> SUFFICES ASSUME AllocationInv, Rank PROVE AllocationInv'
  OBVIOUS
<1>1. /\ ProblemTyped /\ Allowed /\ Phases /\ RuleInv
      /\ solver = "rule" /\ phase = "start" /\ phase' = "pay"
      /\ UNCHANGED problemVars /\ remaining' = remaining /\ allocation' = allocation
  BY DEF AllocationInv, Rank
<1>2. ProblemTyped' /\ N' = N /\ Obligations' = Obligations /\ items' = items /\ solver' = "rule" /\ cash' = cash
  BY <1>1, ProblemKept
<1>3. Allowed' /\ Spend(allocation)' = Spend(allocation)
  BY <1>1, AllowedKept DEF AllocationKept
<1>4. allocation = Unpaid /\ \A n \in Obligations : allocation[n] = 0
  BY <1>1, NothingPaid DEF Phases
<1>5. /\ order' \in [1 .. N -> 1 .. N]
      /\ \A m, n \in 1 .. N : m # n => order'[m] # order'[n]
  BY DEF Rank, Rankings
<1>6. order' \in Seq(Obligations) /\ DOMAIN order' = 1 .. N /\ N \in Nat
  BY <1>1, <1>5 DEF ProblemTyped, Obligations
<1>7. RuleInv'
  <2>1. \A m \in DOMAIN order' : order'[m] \in Obligations
    BY <1>6
  <2>2. \A m \in DOMAIN order' : allocation'[order'[m]] = 0
    BY <1>1, <1>4, <2>1
  <2>3. /\ remaining' = cash' - Spend(allocation)'
        /\ remaining' >= 0 \/ Spend(allocation)' = 0
    BY <1>1, <1>2, <1>3 DEF RuleInv
  <2> QED BY <1>2, <1>5, <1>6, <2>2, <2>3 DEF RuleInv
<1>8. Phases' /\ DpInv' /\ LpInv'
  BY <1>1, <1>2 DEF Phases, DpInv, LpInv, FillingRow, WalkingBack
<1> QED BY <1>2, <1>3, <1>7, <1>8 DEF AllocationInv

\* Stopping keeps it.
LEMMA StopPayingKeeps == AllocationInv /\ StopPaying => AllocationInv'
<1> SUFFICES ASSUME AllocationInv, StopPaying PROVE AllocationInv'
  OBVIOUS
<1>1. /\ ProblemTyped /\ Allowed /\ Phases /\ RuleInv
      /\ solver = "rule" /\ phase = "pay" /\ phase' = "done"
      /\ UNCHANGED problemVars /\ remaining' = remaining /\ order' = order /\ allocation' = allocation
  BY DEF AllocationInv, StopPaying, Phases
<1>2. ProblemTyped' /\ N' = N /\ Obligations' = Obligations /\ items' = items /\ solver' = "rule" /\ cash' = cash
  BY <1>1, ProblemKept
<1>3. Allowed' /\ Spend(allocation)' = Spend(allocation)
  BY <1>1, AllowedKept DEF AllocationKept
<1>4. RuleInv'
  BY <1>1, <1>2, <1>3 DEF RuleInv
<1>5. Phases' /\ DpInv' /\ LpInv'
  BY <1>1, <1>2 DEF Phases, DpInv, LpInv, FillingRow, WalkingBack
<1> QED BY <1>2, <1>3, <1>4, <1>5 DEF AllocationInv

\* Paying the head of the ranking
LEMMA PayKeeps ==
    ASSUME ProblemTyped, Allowed, RuleInv, solver = "rule", order # <<>>, remaining > 0,
           UNCHANGED problemVars, order' = Tail(order),
           NEW v \in Nat, v <= items[Head(order)].amount, v <= remaining,
           items[Head(order)].rigid => v \in {0, items[Head(order)].amount},
           Pay(Head(order), v)
    PROVE  Allowed' /\ RuleInv'
<1> DEFINE n == Head(order)
<1>1. /\ order \in Seq(Obligations) /\ \A m \in DOMAIN order : allocation[order[m]] = 0
      /\ \A k, m \in DOMAIN order : k # m => order[k] # order[m]
      /\ remaining = cash - Spend(allocation)
  BY DEF RuleInv
<1>2. n \in Obligations /\ n = order[1] /\ 1 \in DOMAIN order
  BY <1>1
<1>3. allocation[n] = 0
  BY <1>1, <1>2
<1>4. allocation' = PaidTo(n, v) /\ remaining' = remaining - v
  BY DEF Pay, PaidTo, Put
<1> HIDE DEF n
<1>5. /\ PaidTo(n, v) \in [Obligations -> Nat]
      /\ \A m \in Obligations : /\ PaidTo(n, v)[m] <= items[m].amount
                                /\ items[m].rigid => PaidTo(n, v)[m] \in {0, items[m].amount}
      /\ \A m \in Obligations : m # n => PaidTo(n, v)[m] = allocation[m]
      /\ Spend(PaidTo(n, v)) = Spend(allocation) + v
  <2>1. v <= items[n].amount /\ (items[n].rigid => v \in {0, items[n].amount})
    BY DEF n
  <2> QED BY <1>2, <1>3, <2>1, PayOne
<1>6. Obligations' = Obligations /\ items' = items /\ cash' = cash /\ cash \in Int
  BY ProblemKept DEF ProblemTyped
<1>7. Allowed'
  BY <1>4, <1>5, <1>6 DEF Allowed
<1>8. Spend(allocation)' = Spend(allocation) + v /\ Spend(allocation) \in Nat
  BY <1>4, <1>5, SpendIsNat DEF Allowed, Obligations, Spend
<1>9. order' \in Seq(Obligations) /\ Len(order') = Len(order) - 1
      /\ \A m \in DOMAIN order' : m + 1 \in DOMAIN order /\ order'[m] = order[m + 1]
  BY <1>1
<1>10. \A m \in DOMAIN order' : allocation'[order'[m]] = 0
  <2> TAKE m \in DOMAIN order'
  <2>1. m + 1 \in DOMAIN order /\ order'[m] = order[m + 1] /\ m + 1 # 1
    BY <1>9
  <2>2. order[m + 1] # n /\ order[m + 1] \in Obligations
    BY <1>1, <1>2, <2>1
  <2> QED BY <1>1, <1>4, <1>5, <2>1, <2>2, ZenonT(30)
<1>11. \A k, m \in DOMAIN order' : k # m => order'[k] # order'[m]
  <2> TAKE k, m \in DOMAIN order'
  <2>1. k \in Int /\ m \in Int
    BY <1>9
  <2>2. k # m => k + 1 # m + 1
    BY <2>1
  <2> QED BY <1>1, <1>9, <2>2
<1>12. remaining' = cash' - Spend(allocation)' /\ remaining' >= 0
  BY <1>1, <1>4, <1>6, <1>8
<1> QED BY <1>6, <1>7, <1>9, <1>10, <1>11, <1>12 DEF RuleInv

\* Paying, or passing over, the next of the ranking keeps it.
LEMMA PayNextKeeps == AllocationInv /\ PayNext => AllocationInv'
<1> SUFFICES ASSUME AllocationInv, PayNext PROVE AllocationInv'
  OBVIOUS
<1> DEFINE n == Head(order)
           o == items[n]
<1>1. /\ ProblemTyped /\ Allowed /\ Phases /\ RuleInv
      /\ solver = "rule" /\ phase = "pay" /\ phase' = "pay" /\ order # <<>> /\ remaining > 0
      /\ UNCHANGED problemVars /\ order' = Tail(order)
  BY DEF AllocationInv, PayNext, Phases
<1>2. ProblemTyped' /\ N' = N /\ Obligations' = Obligations /\ items' = items /\ solver' = "rule" /\ cash' = cash
  BY <1>1, ProblemKept
<1>3. n \in Obligations /\ order \in Seq(Obligations) /\ remaining \in Int
  <2>1. Spend(allocation) \in Nat /\ cash \in Int
    BY <1>1, SpendIsNat DEF Allowed, Obligations, ProblemTyped
  <2> QED BY <1>1, <2>1 DEF RuleInv
<1>4. o.amount \in Nat /\ o.rigid \in BOOLEAN
  BY <1>1, <1>3, ItemsAre DEF Obligations
<1>5. Allowed' /\ RuleInv'
  <2>1. CASE o.rigid /\ remaining >= o.amount /\ Pay(n, o.amount)
    BY <1>1, <1>3, <1>4, <2>1, PayKeeps
  <2>2. CASE o.rigid /\ remaining < o.amount /\ UNCHANGED <<allocation, remaining>>
    <3>1. Allowed' /\ Spend(allocation)' = Spend(allocation)
      BY <1>1, <2>2, AllowedKept DEF AllocationKept
    <3>2. order' \in Seq(Obligations)
          /\ \A m \in DOMAIN order' : m + 1 \in DOMAIN order /\ order'[m] = order[m + 1] /\ m \in Int
      BY <1>1, <1>3
    <3>3. /\ \A m \in DOMAIN order' : allocation[order'[m]] = 0
          /\ \A k, m \in DOMAIN order' : k # m => order'[k] # order'[m]
      <4>1. \A k, m \in DOMAIN order' : k # m => k + 1 # m + 1
        BY <3>2
      <4> QED BY <1>1, <3>2, <4>1 DEF RuleInv
    <3> QED BY <1>1, <1>2, <2>2, <3>1, <3>2, <3>3 DEF RuleInv
  <2>3. CASE ~o.rigid /\ Pay(n, Smaller(o.amount, remaining))
    <3> DEFINE v == Smaller(o.amount, remaining)
    <3>1. v \in Nat /\ v <= o.amount /\ v <= remaining
      BY <1>1, <1>3, <1>4 DEF Smaller
    <3> HIDE DEF v
    <3>2. Pay(n, v)
      BY <2>3 DEF v
    <3> QED BY <1>1, <2>3, <3>1, <3>2, PayKeeps
  <2> QED BY <2>1, <2>2, <2>3 DEF PayNext
<1>6. Phases' /\ DpInv' /\ LpInv'
  BY <1>1, <1>2 DEF Phases, DpInv, LpInv, FillingRow, WalkingBack
<1> QED BY <1>2, <1>5, <1>6 DEF AllocationInv

\* An optimum pays what may be paid.
LEMMA OptimumAllowed ==
    ASSUME ProblemTyped, NEW budget \in Int, NEW x \in Optima(budget)
    PROVE  /\ x \in [Obligations -> Nat] /\ Spend(x) <= budget
           /\ \A n \in Obligations : /\ x[n] <= items[n].amount
                                     /\ items[n].rigid => x[n] \in {0, items[n].amount}
<1>1. x \in [1 .. N -> Nat] /\ Payable(x, budget)
  BY OptimumIsBest
<1> QED BY <1>1, ItemsAre DEF Payable, Obligations

\* The chance constraint runs on a sample that is not empty.
LEMMA BatchIsTyped ==
    ASSUME ProblemTyped, solver = "saa"
    PROVE  BatchTyped
<1>1. batch \in Seq(Int) /\ batch # <<>> /\ EpsNum \in Nat /\ EpsDen \in Nat \ {0} /\ EpsNum <= EpsDen
  BY AllocationAssumption DEF ProblemTyped
<1> QED BY <1>1 DEF BatchTyped

\* The safe-spend limit is a natural amount.
LEMMA SafeSpendIsNat ==
    ASSUME BatchTyped
    PROVE  SafeSpend \in Nat
<1>1. Quantile \in Int
  <2> DEFINE f == batch
             S == 1 .. Len(batch)
  <2>1. /\ IsFiniteSet(S) /\ S # {} /\ f \in [S -> Int]
        /\ EpsNum \in Nat /\ EpsDen \in Nat \ {0} /\ EpsNum <= EpsDen
    <3>1. Len(batch) \in Nat /\ Len(batch) # 0 /\ f \in [S -> Int]
      BY DEF BatchTyped
    <3>2. IsFiniteSet(S) /\ 1 \in S
      BY <3>1, FS_Interval
    <3>3. EpsNum \in Nat /\ EpsDen \in Nat \ {0} /\ EpsNum <= EpsDen
      BY DEF BatchTyped
    <3> HIDE DEF S, f
    <3> QED BY <3>1, <3>2, <3>3
  <2> HIDE DEF S, f
  <2>2. Interpolated(f, EpsNum, EpsDen) \div EpsDen \in Int
    BY <2>1, QuantileShares
  <2> QED BY <2>2 DEF Quantile, f
<1> QED BY <1>1 DEF SafeSpend

\* Solving the MILP keeps the invariant.
LEMMA SolveExactlyKeeps == AllocationInv /\ SolveExactly => AllocationInv'
<1> SUFFICES ASSUME AllocationInv, SolveExactly PROVE AllocationInv'
  OBVIOUS
<1>1. /\ ProblemTyped /\ UNCHANGED problemVars
      /\ solver = "lp" /\ phase' = "done" /\ allocation' \in Optima(cash)
  BY DEF AllocationInv, SolveExactly
<1>2. ProblemTyped' /\ Obligations' = Obligations /\ items' = items /\ solver' = "lp" /\ cash' = cash /\ cash \in Int
  BY <1>1, ProblemKept DEF ProblemTyped
<1>3. Allowed'
  BY <1>1, <1>2, OptimumAllowed DEF Allowed
<1>4. allocation' \in Optima(cash)'
  <2>1. OptimaAreThose /\ OptimaAreThose'
    BY OptimaAre, PTL
  <2> QED BY <1>1, <1>2, <2>1 DEF OptimaAreThose
<1>5. LpInv'
  BY <1>1, <1>2, <1>4 DEF LpInv
<1>6. Phases' /\ RuleInv' /\ DpInv'
  BY <1>1, <1>2 DEF Phases, RuleInv, DpInv, FillingRow, WalkingBack
<1> QED BY <1>2, <1>3, <1>5, <1>6 DEF AllocationInv

\* So does solving it within the safe-spend limit.
LEMMA SolveWithinSafeSpendKeeps == AllocationInv /\ SolveWithinSafeSpend => AllocationInv'
<1> SUFFICES ASSUME AllocationInv, SolveWithinSafeSpend PROVE AllocationInv'
  OBVIOUS
<1>1. /\ ProblemTyped /\ UNCHANGED problemVars
      /\ solver = "saa" /\ phase' = "done" /\ allocation' \in Optima(Smaller(cash, SafeSpend))
  BY DEF AllocationInv, SolveWithinSafeSpend
<1>2. /\ ProblemTyped' /\ Obligations' = Obligations /\ items' = items /\ solver' = "saa"
      /\ cash' = cash /\ cash \in Int /\ batch' = batch
  BY <1>1, ProblemKept DEF ProblemTyped
<1>3. Smaller(cash, SafeSpend) \in Int
  BY <1>1, <1>2, BatchIsTyped, SafeSpendIsNat DEF Smaller
<1>4. Allowed'
  BY <1>1, <1>2, <1>3, OptimumAllowed DEF Allowed
<1>5. allocation' \in Optima(Smaller(cash, SafeSpend))'
  <2>1. OptimaAreThose /\ OptimaAreThose'
    BY OptimaAre, PTL
  <2>2. /\ Optima(Smaller(cash, SafeSpend)) = OptimaIn(items, Smaller(cash, SafeSpendIn(batch)))
        /\ Optima(Smaller(cash, SafeSpend))' = OptimaIn(items', Smaller(cash', SafeSpendIn(batch')))
    BY <2>1 DEF OptimaAreThose
  <2> QED BY <1>1, <1>2, <2>2
<1>6. LpInv'
  BY <1>1, <1>2, <1>5 DEF LpInv
<1>7. Phases' /\ RuleInv' /\ DpInv'
  BY <1>1, <1>2 DEF Phases, RuleInv, DpInv, FillingRow, WalkingBack
<1> QED BY <1>2, <1>4, <1>6, <1>7 DEF AllocationInv

-----------------------------------------------------------------------------
(* The knapsack DP.                                                        *)

\* Starting the table keeps it.
LEMMA StartTableKeeps == AllocationInv /\ StartTable => AllocationInv'
<1> SUFFICES ASSUME AllocationInv, StartTable PROVE AllocationInv'
  OBVIOUS
<1>1. /\ ProblemTyped /\ Allowed /\ Phases /\ UNCHANGED problemVars
      /\ solver = "dp" /\ phase = "start" /\ allocation' = allocation
      /\ UNCHANGED <<order, remaining, c, cur, take, choice, dq, allocation>>
  BY DEF AllocationInv, StartTable
<1>2. /\ ProblemTyped' /\ Obligations' = Obligations /\ items' = items /\ solver' = "dp"
      /\ cash' = cash /\ cash \in Int /\ N' = N /\ Capacity' = Capacity /\ Cells' = Cells
      /\ Unpaid' = Unpaid /\ N \in Nat
  BY <1>1, ProblemKept DEF ProblemTyped
<1>3. Allowed' /\ Spend(allocation)' = Spend(allocation) /\ Spend(allocation) = 0 /\ allocation = Unpaid
  BY <1>1, AllowedKept, NothingPaid DEF AllocationKept, Phases
<1>4. c = 0 /\ take = <<>> /\ choice = <<>> /\ dq = <<>>
  BY <1>1 DEF Phases
<1>5. CASE phase' = "done"
  <2>1. DpInv'
    BY <1>2, <1>3, <1>5 DEF DpInv, FillingRow, WalkingBack
  <2>2. Phases' /\ RuleInv' /\ LpInv'
    BY <1>1, <1>2, <1>5 DEF Phases, RuleInv, LpInv
  <2> QED BY <1>2, <1>3, <2>1, <2>2 DEF AllocationInv
<1>6. CASE phase' = "row" /\ ~(N = 0 \/ Capacity <= 0) /\ i' = 1
  <2>1. Capacity \in Int /\ Capacity >= 1 /\ N >= 1
    BY <1>1, <1>2, <1>6, CapacityIs
  <2>2. 0 \in Cells
    BY <2>1 DEF Cells
  <2>3. FillingRow'
    BY <1>1, <1>2, <1>3, <1>4, <1>6, <2>1, <2>2 DEF FillingRow
  <2>4. TableAllows'
    BY <1>1, <1>4 DEF TableAllows
  <2>5. DpInv'
    BY <1>6, <2>3, <2>4 DEF DpInv, WalkingBack
  <2>6. Phases' /\ RuleInv' /\ LpInv'
    BY <1>1, <1>2, <1>6 DEF Phases, RuleInv, LpInv
  <2> QED BY <1>2, <1>3, <2>5, <2>6 DEF AllocationInv
<1> QED BY <1>5, <1>6 DEF StartTable

\* A row done and added to the table, whatever chose it
LEMMA CloseRowKeeps ==
    ASSUME AllocationInv, phase = "row", UNCHANGED problemVars,
           UNCHANGED <<order, remaining, allocation>>,
           NEW row, NEW chosen \in [Cells -> Nat], RowAllows(chosen, i), CloseRow(row, chosen)
    PROVE  AllocationInv'
<1>1. /\ ProblemTyped /\ Allowed /\ Phases /\ TableAllows /\ FillingRow /\ solver = "dp"
      /\ take' = Append(take, chosen) /\ choice' = <<>> /\ dq' = <<>>
      /\ \/ i = N /\ phase' = "walk" /\ i' = N /\ c' = Capacity
         \/ i # N /\ phase' = "row" /\ i' = i + 1 /\ c' = 0
  BY DEF AllocationInv, CloseRow, NoRow, Phases, DpInv
<1>2. /\ ProblemTyped' /\ Obligations' = Obligations /\ items' = items /\ solver' = "dp"
      /\ cash' = cash /\ N' = N /\ Capacity' = Capacity /\ Cells' = Cells
      /\ Unpaid' = Unpaid /\ N \in Nat
  BY <1>1, ProblemKept DEF ProblemTyped
<1>3. Allowed' /\ allocation' = allocation /\ Spend(allocation)' = Spend(allocation)
  BY <1>1, AllowedKept DEF AllocationKept
<1>4. /\ Capacity \in Int /\ Capacity >= 1 /\ allocation = Unpaid /\ i \in 1 .. N /\ Len(take) = i - 1
  BY <1>1, CapacityIs DEF FillingRow
<1>5. TableAllows' /\ Len(take') = i
  <2>1. take \in Seq([Cells -> Nat]) /\ \A n \in DOMAIN take : n <= N => RowAllows(take[n], n)
    BY <1>1 DEF TableAllows
  <2>2. /\ take' \in Seq([Cells -> Nat]) /\ Len(take') = i /\ DOMAIN take' = 1 .. i
        /\ \A n \in 1 .. i : take'[n] = IF n = i THEN chosen ELSE take[n]
    <3>1. take' \in Seq([Cells -> Nat]) /\ Len(take') = Len(take) + 1
      BY <1>1, <2>1
    <3>2. \A n \in 1 .. Len(take) + 1 : take'[n] = IF n = Len(take) + 1 THEN chosen ELSE take[n]
      BY <1>1, <2>1
    <3> QED BY <1>4, <3>1, <3>2
  <2>3. \A n \in DOMAIN take' : RowAllows(take'[n], n)
    <3> TAKE n \in DOMAIN take'
    <3>1. CASE n = i
      BY <2>2, <3>1
    <3>2. CASE n # i
      <4>1. n \in DOMAIN take /\ n <= N /\ take'[n] = take[n]
        BY <1>2, <1>4, <2>1, <2>2, <3>2
      <4> QED BY <2>1, <4>1
    <3> QED BY <3>1, <3>2
  <2>4. \A n \in DOMAIN take' : \A b \in Cells' :
           take'[n][b] <= b /\ (items'[n].rigid => take'[n][b] \in {0, Weight(items'[n])})
    BY <1>2, <2>3 DEF RowAllows
  <2>5. take' \in Seq([Cells -> Nat])' /\ Len(take') = i
    BY <1>2, <2>2
  <2> QED BY <2>4, <2>5 DEF TableAllows, RowAllows
<1>6. Phases' /\ RuleInv' /\ LpInv'
  BY <1>1, <1>2 DEF Phases, RuleInv, LpInv
<1>7. 0 \in Cells /\ Capacity \in Cells
  BY <1>4 DEF Cells
<1>8. CASE i = N /\ phase' = "walk" /\ i' = N /\ c' = Capacity
  <2>1. \A n \in Obligations : allocation[n] = 0
    BY <1>1, <1>4, NothingPaid
  <2>2. Spend(allocation) = 0
    BY <1>1, <1>4, NothingPaid
  <2>3. Unit \in Nat /\ 0 + Capacity * Unit <= Capacity * Unit
    <3>1. Unit \in Nat
      BY <1>1, ItemsAre
    <3> QED BY <1>4, <3>1
  <2>4. WalkingBack'
    BY <1>2, <1>3, <1>4, <1>5, <1>7, <1>8, <2>1, <2>2, <2>3 DEF WalkingBack
  <2>5. DpInv'
    BY <1>5, <1>8, <2>4 DEF DpInv, FillingRow
  <2> QED BY <1>2, <1>3, <1>6, <2>5 DEF AllocationInv
<1>9. CASE i # N /\ phase' = "row" /\ i' = i + 1 /\ c' = 0
  <2>1. i' \in 1 .. N /\ Len(take') = i' - 1
    BY <1>2, <1>4, <1>5, <1>9
  <2>2. FillingRow'
    BY <1>1, <1>2, <1>3, <1>4, <1>7, <1>9, <2>1 DEF FillingRow
  <2>3. DpInv'
    BY <1>5, <1>9, <2>2 DEF DpInv, WalkingBack
  <2> QED BY <1>2, <1>3, <1>6, <2>3 DEF AllocationInv
<1> QED BY <1>1, <1>8, <1>9

\* A rigid obligation's row keeps it.
LEMMA RigidRowKeeps == AllocationInv /\ RigidRow => AllocationInv'
<1> SUFFICES ASSUME AllocationInv, RigidRow PROVE AllocationInv'
  OBVIOUS
<1> DEFINE o == items[i]
           chosen == [b \in Cells |-> IF Better(o, b) THEN Weight(o) ELSE 0]
           row == [b \in Cells |-> IF Better(o, b) THEN prev[b - Weight(o)] + o.rate * o.amount ELSE prev[b]]
<1>1. /\ phase = "row" /\ UNCHANGED problemVars /\ UNCHANGED <<order, remaining, allocation>>
      /\ CloseRow(row, chosen) /\ ProblemTyped /\ FillingRow
  BY DEF RigidRow, AllocationInv, DpInv
<1>2. Weight(o) \in Nat
  BY <1>1, WeightIs DEF FillingRow, Obligations
<1>3. chosen \in [Cells -> Nat]
  BY <1>2
<1>4. RowAllows(chosen, i)
  <2>1. \A b \in Cells : b \in Nat
    BY DEF Cells
  <2> QED BY <1>2, <2>1 DEF RowAllows, Better
<1> HIDE DEF chosen, row
<1> QED BY <1>1, <1>3, <1>4, CloseRowKeeps

\* A row that is copied keeps it.
LEMMA CopiedRowKeeps == AllocationInv /\ CopiedRow => AllocationInv'
<1> SUFFICES ASSUME AllocationInv, CopiedRow PROVE AllocationInv'
  OBVIOUS
<1> DEFINE chosen == [b \in Cells |-> 0]
<1>1. /\ phase = "row" /\ UNCHANGED problemVars /\ UNCHANGED <<order, remaining, allocation>>
      /\ CloseRow(prev, chosen) /\ ~items[i].rigid
  BY DEF CopiedRow
<1>2. chosen \in [Cells -> Nat]
  OBVIOUS
<1>3. RowAllows(chosen, i)
  BY <1>1 DEF RowAllows, Cells
<1> HIDE DEF chosen
<1> QED BY <1>1, <1>2, <1>3, CloseRowKeeps

\* A sequence grown by one
LEMMA AppendIs ==
    ASSUME NEW S, NEW s \in Seq(S), NEW d \in S
    PROVE  /\ Append(s, d) \in Seq(S) /\ Len(Append(s, d)) = Len(s) + 1
           /\ Append(s, d)[Len(s) + 1] = d
           /\ \A m \in 1 .. Len(s) : Append(s, d)[m] = s[m]
OBVIOUS

\* What is kept of the deque when cell b joins it: a front part of it, and b.
LEMMA AdmittedIs ==
    ASSUME NEW q \in Seq(Nat), NEW b \in Nat, \A m \in DOMAIN q : q[m] <= b
    PROVE  /\ Admitted(q, b) \in Seq(Nat) /\ Len(Admitted(q, b)) >= 1
           /\ \A m \in DOMAIN Admitted(q, b) : Admitted(q, b)[m] <= b
           /\ Admitted(q, b)[Len(Admitted(q, b))] = b
<1> DEFINE last == {m \in DOMAIN q : Gain(q[m]) > Gain(b)}
           keep == IF last = {} THEN 0 ELSE CHOOSE m \in last : \A l \in last : l <= m
           front == SubSeq(q, 1, keep)
<1>1. keep \in 0 .. Len(q)
  <2>1. CASE last = {}
    BY <2>1
  <2>2. CASE last # {}
    <3>1. IsFiniteSet(last) /\ \A m \in last : m \in 1 .. Len(q)
      <4>1. IsFiniteSet(1 .. Len(q)) /\ last \in SUBSET (1 .. Len(q))
        BY FS_Interval
      <4> HIDE DEF last
      <4>2. IsFiniteSet(last)
        BY <4>1, FS_Subset
      <4> QED BY <4>1, <4>2
    <3> HIDE DEF last
    <3> DEFINE f == [m \in last |-> m]
    <3>2. \A m \in last : f[m] \in Int
      BY <3>1
    <3>3. \E m \in last : \A l \in last : f[l] <= f[m]
      <4> HIDE DEF f
      <4> QED BY <2>2, <3>1, <3>2, LargestValue
    <3>4. \E m \in last : \A l \in last : l <= m
      BY <3>3
    <3>5. (CHOOSE m \in last : \A l \in last : l <= m) \in last
      BY <3>4
    <3> QED BY <2>2, <3>1, <3>5
  <2> QED BY <2>1, <2>2
<1>2. Admitted(q, b) = Append(front, b)
  BY DEF Admitted
<1> HIDE DEF keep
<1>3. /\ front \in Seq(Nat) /\ Len(front) = keep
      /\ \A m \in 1 .. keep : front[m] = q[m]
  BY <1>1
<1> HIDE DEF front
<1>4. /\ Append(front, b) \in Seq(Nat) /\ Len(Append(front, b)) = keep + 1
      /\ Append(front, b)[keep + 1] = b
      /\ \A m \in 1 .. keep : Append(front, b)[m] = q[m]
  BY <1>1, <1>3
<1>5. \A m \in 1 .. keep + 1 : Append(front, b)[m] <= b
  <2> TAKE m \in 1 .. keep + 1
  <2>1. CASE m = keep + 1
    BY <1>4, <2>1
  <2>2. CASE m \in 1 .. keep
    <3>1. q[m] <= b
      BY <1>1, <2>2
    <3> QED BY <1>4, <2>2, <3>1
  <2>3. m = keep + 1 \/ m \in 1 .. keep
    <3>1. keep \in Nat
      BY <1>1
    <3> QED BY <3>1
  <2> QED BY <2>1, <2>2, <2>3
<1> QED BY <1>1, <1>2, <1>4, <1>5

\* What is in reach of cell b is a rear part of it, and not empty.
LEMMA EvictedIs ==
    ASSUME NEW q \in Seq(Nat), NEW b \in Nat, Len(q) >= 1, q[Len(q)] = b,
           \A m \in DOMAIN q : q[m] <= b, Copies(items[i]) \in Nat
    PROVE  /\ Evicted(q, b) \in Seq(Nat) /\ Len(Evicted(q, b)) >= 1
           /\ \A m \in DOMAIN Evicted(q, b) : Evicted(q, b)[m] <= b
<1> DEFINE inside == {m \in DOMAIN q : q[m] >= b - Copies(items[i])}
           first == CHOOSE m \in inside : \A l \in inside : m <= l
<1>1. first \in 1 .. Len(q)
  <2>1. Len(q) \in inside /\ inside \in SUBSET Nat /\ \A m \in inside : m \in 1 .. Len(q)
    OBVIOUS
  <2> HIDE DEF inside
  <2>2. \E m \in inside : \A l \in inside : m <= l
    BY <2>1, LeastNatural
  <2>3. first \in inside
    BY <2>2
  <2> QED BY <2>1, <2>3
<1>2. Evicted(q, b) = SubSeq(q, first, Len(q))
  BY DEF Evicted
<1> HIDE DEF first
<1>3. /\ SubSeq(q, first, Len(q)) \in Seq(Nat) /\ Len(SubSeq(q, first, Len(q))) = Len(q) - first + 1
      /\ \A m \in 1 .. Len(q) - first + 1 : SubSeq(q, first, Len(q))[m] = q[first + m - 1]
  BY <1>1
<1>4. \A m \in 1 .. Len(q) - first + 1 : first + m - 1 \in DOMAIN q
  BY <1>1
<1> DEFINE e == SubSeq(q, first, Len(q))
           k == Len(q) - first + 1
<1>5. k \in Nat /\ k >= 1 /\ e \in Seq(Nat) /\ Len(e) = k
  BY <1>1, <1>3
<1>6. \A m \in 1 .. k : e[m] <= b
  BY <1>3, <1>4
<1>7. Evicted(q, b) = e
  BY <1>2
<1> HIDE DEF e, k, inside
<1>8. DOMAIN e = 1 .. k
  BY <1>5
<1> QED BY <1>5, <1>6, <1>7, <1>8

\* A turn of the deque's loop keeps it.
LEMMA SlideKeeps == AllocationInv /\ Slide => AllocationInv'
<1> SUFFICES ASSUME AllocationInv, Slide PROVE AllocationInv'
  OBVIOUS
<1> DEFINE q == Evicted(Admitted(dq, c), c)
           row == Append(cur, Gain(Head(q)) + c * CopyValue(items[i]))
           chosen == Append(choice, c - Head(q))
<1>1. /\ phase = "row" /\ UNCHANGED problemVars /\ UNCHANGED <<order, remaining, allocation>>
      /\ ProblemTyped /\ Allowed /\ Phases /\ FillingRow /\ TableAllows /\ ~items[i].rigid /\ solver = "dp"
      /\ \/ /\ c < Capacity
            /\ dq' = q /\ choice' = chosen /\ c' = c + 1
            /\ UNCHANGED <<phase, i, prev, take>>
         \/ /\ ~(c < Capacity)
            /\ CloseRow([b \in Cells |-> row[b + 1]], [b \in Cells |-> chosen[b + 1]])
  BY DEF Slide, AllocationInv, DpInv, Phases
<1>2. /\ Capacity \in Int /\ Capacity >= 1 /\ c \in Nat /\ c <= Capacity /\ i \in 1 .. N
      /\ choice \in Seq(Nat) /\ Len(choice) = c /\ \A m \in 1 .. c : choice[m] <= m - 1
      /\ dq \in Seq(Nat) /\ dq \in Seq(Cells) /\ \A m \in DOMAIN dq : dq[m] <= c
  BY <1>1, CapacityIs DEF FillingRow, Cells
<1>3. /\ q \in Seq(Nat) /\ Len(q) >= 1 /\ \A m \in DOMAIN q : q[m] <= c
  <2> DEFINE a == Admitted(dq, c)
  <2>1. /\ a \in Seq(Nat) /\ Len(a) >= 1 /\ \A m \in DOMAIN a : a[m] <= c
        /\ a[Len(a)] = c
    BY <1>2, AdmittedIs
  <2>2. Copies(items[i]) \in Nat
    BY <1>1, <1>2, WeightIs DEF Obligations
  <2> HIDE DEF a
  <2>3. /\ Evicted(a, c) \in Seq(Nat) /\ Len(Evicted(a, c)) >= 1
        /\ \A m \in DOMAIN Evicted(a, c) : Evicted(a, c)[m] <= c
    BY <1>2, <2>1, <2>2, EvictedIs
  <2> QED BY <2>3 DEF a
<1> HIDE DEF q
<1>4. Head(q) \in 0 .. c
  <2>1. 1 \in DOMAIN q /\ Head(q) = q[1] /\ q[1] \in Nat
    BY <1>3
  <2> QED BY <1>3, <2>1
<1>5. /\ chosen \in Seq(Nat) /\ Len(chosen) = c + 1
      /\ \A m \in 1 .. c + 1 : chosen[m] <= m - 1
  <2> DEFINE d == c - Head(q)
  <2>1. d \in Nat /\ d <= c
    BY <1>2, <1>4
  <2> HIDE DEF d
  <2>2. /\ Append(choice, d) \in Seq(Nat) /\ Len(Append(choice, d)) = c + 1
        /\ Append(choice, d)[c + 1] = d
        /\ \A m \in 1 .. c : Append(choice, d)[m] = choice[m]
    <3> DEFINE s == choice
    <3>1. s \in Seq(Nat) /\ Len(s) = c
      BY <1>2
    <3> HIDE DEF s
    <3>2. /\ Append(s, d) \in Seq(Nat) /\ Len(Append(s, d)) = Len(s) + 1
          /\ Append(s, d)[Len(s) + 1] = d
          /\ \A m \in 1 .. Len(s) : Append(s, d)[m] = s[m]
      BY <2>1, <3>1, AppendIs
    <3> QED BY <3>1, <3>2 DEF s
  <2>3. \A m \in 1 .. c + 1 : Append(choice, d)[m] <= m - 1
    <3> TAKE m \in 1 .. c + 1
    <3>1. m = c + 1 \/ m \in 1 .. c
      BY <1>2
    <3> QED BY <1>2, <2>1, <2>2, <3>1
  <2> QED BY <2>2, <2>3 DEF d
<1> HIDE DEF chosen, row
<1>6. CASE /\ c < Capacity
           /\ dq' = q /\ choice' = chosen /\ c' = c + 1
           /\ UNCHANGED <<phase, i, prev, take>>
  <2>1. /\ ProblemTyped' /\ Obligations' = Obligations /\ items' = items /\ solver' = "dp"
        /\ cash' = cash /\ N' = N /\ Capacity' = Capacity /\ Cells' = Cells
        /\ Unpaid' = Unpaid /\ N \in Nat
    BY <1>1, ProblemKept DEF ProblemTyped
  <2>2. Allowed' /\ allocation' = allocation
    BY <1>1, AllowedKept DEF AllocationKept
  <2>3. TableAllows'
    BY <1>1, <1>6, <2>1 DEF TableAllows, RowAllows
  <2>4. c' \in Cells /\ \A m \in DOMAIN q : q[m] \in Cells /\ q[m] <= c'
    <3>1. c' = c + 1 /\ c + 1 <= Capacity
      BY <1>2, <1>6
    <3>2. c' \in Cells
      BY <1>2, <3>1 DEF Cells
    <3>3. \A m \in DOMAIN q : q[m] \in Nat /\ q[m] <= c
      BY <1>3
    <3>4. ASSUME NEW m \in DOMAIN q PROVE q[m] \in Cells /\ q[m] <= c'
      <4>1. q[m] \in Nat /\ q[m] <= c
        BY <3>3
      <4> QED BY <1>2, <3>1, <4>1 DEF Cells
    <3> QED BY <3>2, <3>4
  <2>5. q \in Seq(Cells)
    BY <1>3, <2>4
  <2>6. FillingRow'
    BY <1>1, <1>2, <1>5, <1>6, <2>1, <2>2, <2>4, <2>5 DEF FillingRow
  <2>7. DpInv'
    BY <1>1, <1>6, <2>3, <2>6 DEF DpInv, WalkingBack
  <2>8. Phases' /\ RuleInv' /\ LpInv'
    BY <1>1, <1>6, <2>1 DEF Phases, RuleInv, LpInv
  <2> QED BY <2>1, <2>2, <2>7, <2>8 DEF AllocationInv
<1>7. CASE /\ ~(c < Capacity)
           /\ CloseRow([b \in Cells |-> row[b + 1]], [b \in Cells |-> chosen[b + 1]])
  <2> DEFINE full == [b \in Cells |-> chosen[b + 1]]
             rest == [b \in Cells |-> row[b + 1]]
  <2>1. \A b \in Cells : b \in Nat /\ b + 1 \in 1 .. c + 1 /\ (b + 1) - 1 = b
    BY <1>2, <1>7 DEF Cells
  <2>2. \A b \in Cells : chosen[b + 1] \in Nat /\ chosen[b + 1] <= b
    BY <1>5, <2>1
  <2>3. full \in [Cells -> Nat]
    BY <2>2
  <2>4. RowAllows(full, i)
    BY <1>1, <2>2 DEF RowAllows
  <2>5. CloseRow(rest, full)
    BY <1>7
  <2> HIDE DEF full, rest
  <2> QED BY <1>1, <2>3, <2>4, <2>5, CloseRowKeeps
<1> QED BY <1>1, <1>6, <1>7

\* A step back through the choice table keeps it.
LEMMA WalkBackKeeps == AllocationInv /\ WalkBack => AllocationInv'
<1> SUFFICES ASSUME AllocationInv, WalkBack PROVE AllocationInv'
  OBVIOUS
<1> DEFINE o == items[i]
           cells == take[i][c]
           v == IF o.rigid THEN o.amount ELSE Smaller(cells * Unit, o.amount)
<1>1. /\ phase = "walk" /\ phase' = "walk" /\ i > 0 /\ UNCHANGED problemVars
      /\ UNCHANGED <<order, remaining, take>>
      /\ ProblemTyped /\ Allowed /\ Phases /\ WalkingBack /\ TableAllows /\ solver = "dp"
      /\ c' = c - cells /\ i' = i - 1
  BY DEF WalkBack, AllocationInv, DpInv, Phases
<1>2. allocation' = IF cells = 0 THEN allocation ELSE [allocation EXCEPT ![i] = v]
  BY DEF WalkBack
<1>3. /\ ProblemTyped' /\ Obligations' = Obligations /\ items' = items /\ solver' = "dp"
      /\ cash' = cash /\ N' = N /\ Capacity' = Capacity /\ Cells' = Cells /\ N \in Nat
  BY <1>1, ProblemKept DEF ProblemTyped
<1>4. /\ Capacity \in Int /\ Capacity >= 1 /\ c \in Nat /\ c <= Capacity /\ i \in 1 .. N /\ Len(take) = N
      /\ c \in Cells /\ \A n \in Obligations : n <= i => allocation[n] = 0
      /\ Spend(allocation) + c * Unit <= Capacity * Unit
  BY <1>1, <1>3, CapacityIs DEF WalkingBack, Cells
<1>5. /\ cells \in Nat /\ cells <= c /\ (o.rigid => cells \in {0, Weight(o)})
  <2>1. take \in Seq([Cells -> Nat]) /\ i \in DOMAIN take /\ i <= N
    BY <1>1, <1>3, <1>4 DEF TableAllows
  <2>2. take[i] \in [Cells -> Nat] /\ RowAllows(take[i], i)
    BY <1>1, <2>1 DEF TableAllows
  <2> QED BY <1>4, <2>2 DEF RowAllows
<1> HIDE DEF cells
<1>6. i \in Obligations /\ allocation[i] = 0
  BY <1>4 DEF Obligations
<1>7. /\ o.amount \in Nat /\ o.rigid \in BOOLEAN /\ Unit \in Nat \ {0}
      /\ Weight(o) \in Nat /\ o.amount <= Weight(o) * Unit
  BY <1>1, <1>6, ItemsAre, WeightIs DEF Obligations
<1>8. Spend(allocation) \in Nat
  BY <1>1, SpendIsNat DEF Allowed, Obligations
<1>9. TableAllows'
  BY <1>1, <1>3 DEF TableAllows, RowAllows
<1>10. Phases' /\ RuleInv' /\ LpInv'
  BY <1>1, <1>3 DEF Phases, RuleInv, LpInv
<1>11. c' \in Cells /\ i' \in 0 .. N
  BY <1>1, <1>4, <1>5 DEF Cells
<1>12. ASSUME Allowed', \A n \in Obligations : n <= i' => allocation'[n] = 0,
              Spend(allocation') + (c - cells) * Unit <= Capacity * Unit
       PROVE  AllocationInv'
  <2>1. WalkingBack'
    BY <1>1, <1>3, <1>4, <1>11, <1>12 DEF WalkingBack, Spend
  <2>2. DpInv'
    BY <1>1, <1>9, <2>1 DEF DpInv, FillingRow
  <2> QED BY <1>3, <1>10, <1>12, <2>2 DEF AllocationInv
<1>13. CASE cells = 0
  <2>1. Allowed' /\ allocation' = allocation
    BY <1>1, <1>2, <1>13, AllowedKept DEF AllocationKept
  <2>2. \A n \in Obligations : n <= i' => n <= i
    BY <1>1, <1>4 DEF Obligations
  <2>3. c - cells = c
    BY <1>4, <1>13
  <2> QED BY <1>4, <1>12, <2>1, <2>2, <2>3
<1>14. CASE cells # 0
  <2>1. v \in Nat /\ v <= o.amount /\ (o.rigid => v \in {0, o.amount}) /\ v <= cells * Unit /\ cells * Unit \in Nat
    <3>1. cells * Unit \in Nat
      BY <1>5, <1>7
    <3>2. CASE o.rigid
      <4>1. cells = Weight(o)
        BY <1>5, <1>14, <3>2
      <4> QED BY <1>7, <3>1, <3>2, <4>1
    <3>3. CASE ~o.rigid
      <4> DEFINE z == cells * Unit
      <4>1. v = Smaller(z, o.amount) /\ z \in Nat
        BY <3>1, <3>3
      <4> HIDE DEF z
      <4>2. v \in Nat /\ v <= o.amount /\ v <= z
        BY <1>7, <4>1 DEF Smaller
      <4> QED BY <3>3, <4>1, <4>2 DEF z
    <3> QED BY <3>2, <3>3
  <2> HIDE DEF v
  <2>2. allocation' = PaidTo(i, v)
    BY <1>2, <1>14 DEF PaidTo, Put
  <2>3. /\ PaidTo(i, v) \in [Obligations -> Nat]
        /\ \A m \in Obligations : /\ PaidTo(i, v)[m] <= items[m].amount
                                  /\ items[m].rigid => PaidTo(i, v)[m] \in {0, items[m].amount}
        /\ \A m \in Obligations : m # i => PaidTo(i, v)[m] = allocation[m]
        /\ Spend(PaidTo(i, v)) = Spend(allocation) + v
    BY <1>1, <1>6, <2>1, PayOne
  <2>4. Allowed'
    BY <1>3, <2>2, <2>3 DEF Allowed
  <2>5. \A n \in Obligations : n <= i' => allocation'[n] = 0
    <3> TAKE n \in Obligations
    <3>1. n <= i' => n # i /\ n <= i
      BY <1>1, <1>4 DEF Obligations
    <3> QED BY <1>4, <2>2, <2>3, <3>1
  <2>6. Spend(allocation') + (c - cells) * Unit <= Capacity * Unit
    <3>1. (c - cells) * Unit = c * Unit - cells * Unit /\ c * Unit \in Int
      BY <1>4, <1>5, <1>7
    <3>2. Capacity * Unit \in Int
      BY <1>4, <1>7
    <3> DEFINE x == c * Unit
               y == cells * Unit
               z == Capacity * Unit
               s == Spend(allocation)
    <3>3. /\ (c - cells) * Unit = x - y /\ x \in Int /\ y \in Nat /\ z \in Int /\ s \in Nat
          /\ s + x <= z /\ v <= y /\ v \in Nat /\ Spend(allocation') = s + v
      BY <1>4, <1>8, <2>1, <2>2, <2>3, <3>1, <3>2
    <3> HIDE DEF x, y, z, s
    <3>4. (s + v) + (x - y) <= z
      BY <3>3
    <3> QED BY <3>3, <3>4 DEF z
  <2> QED BY <1>12, <2>4, <2>5, <2>6
<1> QED BY <1>13, <1>14

\* Packaging the plan keeps it.
LEMMA PackageKeeps == AllocationInv /\ Package => AllocationInv'
<1> SUFFICES ASSUME AllocationInv, Package PROVE AllocationInv'
  OBVIOUS
<1>1. /\ phase = "walk" /\ phase' = "done" /\ UNCHANGED problemVars
      /\ UNCHANGED <<order, remaining, dpVars, allocation>>
      /\ ProblemTyped /\ Allowed /\ Phases /\ WalkingBack /\ solver = "dp"
  BY DEF Package, AllocationInv, DpInv, Phases
<1>2. /\ ProblemTyped' /\ Obligations' = Obligations /\ items' = items /\ solver' = "dp"
      /\ cash' = cash /\ cash \in Int
  BY <1>1, ProblemKept DEF ProblemTyped
<1>3. Allowed' /\ Spend(allocation)' = Spend(allocation) /\ Spend(allocation) \in Nat
  BY <1>1, AllowedKept, SpendIsNat DEF AllocationKept, Allowed, Obligations
<1>4. Spend(allocation) <= cash /\ cash > 0
  <2>1. /\ Capacity \in Int /\ Capacity >= 1 /\ c \in Nat /\ Unit \in Nat \ {0}
        /\ Spend(allocation) + c * Unit <= Capacity * Unit /\ Capacity * Unit <= cash
    BY <1>1, CapacityIs, ItemsAre DEF WalkingBack, Cells
  <2>2. c * Unit \in Nat /\ Capacity * Unit \in Int
    BY <2>1
  <2>3. 1 * Unit <= Capacity * Unit
    BY <2>1, ProductGrows
  <2> DEFINE x == c * Unit
             z == Capacity * Unit
             s == Spend(allocation)
  <2>4. x \in Nat /\ z \in Int /\ s + x <= z /\ z <= cash /\ s \in Nat /\ Unit <= z /\ Unit \in Nat \ {0}
    BY <1>3, <2>1, <2>2, <2>3
  <2> HIDE DEF x, z, s
  <2>5. s <= cash /\ cash > 0
    BY <1>2, <2>4
  <2> QED BY <2>5 DEF s
<1>5. DpInv'
  BY <1>1, <1>2, <1>3, <1>4 DEF DpInv, FillingRow, WalkingBack
<1>6. Phases' /\ RuleInv' /\ LpInv'
  BY <1>1, <1>2 DEF Phases, RuleInv, LpInv
<1> QED BY <1>2, <1>3, <1>5, <1>6 DEF AllocationInv

\* So does doing nothing.
LEMMA AllocationStays == AllocationInv /\ UNCHANGED allVars => AllocationInv'
<1> SUFFICES ASSUME AllocationInv, UNCHANGED allVars PROVE AllocationInv'
  OBVIOUS
<1>1. /\ ProblemTyped /\ Allowed /\ Phases /\ RuleInv /\ DpInv /\ LpInv
      /\ UNCHANGED problemVars /\ phase' = phase /\ order' = order /\ remaining' = remaining
      /\ UNCHANGED <<i, c, prev, cur, take, choice, dq>> /\ allocation' = allocation
  BY DEF AllocationInv, allVars, dpVars
<1>2. /\ ProblemTyped' /\ Obligations' = Obligations /\ items' = items /\ solver' = solver
      /\ cash' = cash /\ N' = N /\ Capacity' = Capacity /\ Cells' = Cells /\ Unpaid' = Unpaid /\ batch' = batch
  BY <1>1, ProblemKept
<1>3. Allowed' /\ Spend(allocation)' = Spend(allocation)
  BY <1>1, AllowedKept DEF AllocationKept
<1>4. Phases' /\ RuleInv'
  BY <1>1, <1>2, <1>3 DEF Phases, RuleInv
<1>5. TableAllows' = TableAllows
  BY <1>1, <1>2 DEF TableAllows, RowAllows
<1>6. FillingRow' /\ WalkingBack'
  BY <1>1, <1>2, <1>3 DEF DpInv, FillingRow, WalkingBack
<1>7. DpInv'
  BY <1>1, <1>2, <1>3, <1>5, <1>6 DEF DpInv
<1>8. LpInv'
  <2>1. OptimaAreThose /\ OptimaAreThose'
    BY OptimaAre, PTL
  <2>2. /\ Optima(cash)' = Optima(cash)
        /\ Optima(Smaller(cash, SafeSpend))' = Optima(Smaller(cash, SafeSpend))
    BY <1>2, <2>1 DEF OptimaAreThose
  <2> QED BY <1>1, <1>2, <2>2 DEF LpInv
<1> QED BY <1>2, <1>3, <1>4, <1>7, <1>8 DEF AllocationInv

\* The invariant of the four solvers: how far the plan being made is within what
\* the rule still has, or within the cells the walk back still has.
THEOREM AllocationMade == AllocationSpec => []AllocationInv
<1>1. AllocationInv /\ [AllocationNext]_allVars => AllocationInv'
  <2> SUFFICES ASSUME AllocationInv, [AllocationNext]_allVars PROVE AllocationInv'
    OBVIOUS
  <2>1. CASE Rank
    BY <2>1, RankKeeps
  <2>2. CASE PayNext
    BY <2>2, PayNextKeeps
  <2>3. CASE StopPaying
    BY <2>3, StopPayingKeeps
  <2>4. CASE StartTable
    BY <2>4, StartTableKeeps
  <2>5. CASE RigidRow
    BY <2>5, RigidRowKeeps
  <2>6. CASE CopiedRow
    BY <2>6, CopiedRowKeeps
  <2>7. CASE Slide
    BY <2>7, SlideKeeps
  <2>8. CASE WalkBack
    BY <2>8, WalkBackKeeps
  <2>9. CASE Package
    BY <2>9, PackageKeeps
  <2>10. CASE SolveExactly
    BY <2>10, SolveExactlyKeeps
  <2>11. CASE SolveWithinSafeSpend
    BY <2>11, SolveWithinSafeSpendKeeps
  <2>12. CASE Finished \/ UNCHANGED allVars
    BY <2>12, AllocationStays DEF Finished
  <2> QED BY <2>1, <2>2, <2>3, <2>4, <2>5, <2>6, <2>7, <2>8, <2>9, <2>10, <2>11, <2>12 DEF AllocationNext
<1> QED BY <1>1, AllocationStarts, PTL DEF AllocationSpec

\* The invariant bounds what the plan spends.
LEMMA PlansAreAffordable == AllocationInv => WithinMeans
<1> SUFFICES ASSUME AllocationInv PROVE WithinMeans
  OBVIOUS
<1> DEFINE budget == IF cash > 0 THEN cash ELSE 0
           s == Spend(allocation)
<1>1. ProblemTyped /\ Allowed /\ Phases /\ RuleInv /\ DpInv /\ LpInv /\ cash \in Int
  BY DEF AllocationInv, ProblemTyped
<1>2. s \in Nat
  BY <1>1, SpendIsNat DEF Allowed, Obligations
<1>3. allocation = Unpaid => s = 0
  BY <1>1, NothingPaid
<1> HIDE DEF s
<1>4. s <= budget
  <2>1. CASE solver = "rule"
    <3>1. remaining = cash - s /\ (remaining >= 0 \/ s = 0)
      BY <1>1, <2>1 DEF RuleInv, s
    <3> QED BY <1>1, <1>2, <3>1
  <2>2. CASE solver = "dp"
    <3>1. CASE phase = "start" \/ phase = "row"
      BY <1>1, <1>3, <3>1 DEF Phases, DpInv, FillingRow
    <3>2. CASE phase = "walk"
      <4>1. /\ Capacity \in Int /\ Capacity >= 1 /\ c \in Nat /\ Unit \in Nat \ {0}
            /\ s + c * Unit <= Capacity * Unit /\ Capacity * Unit <= cash
        BY <1>1, <3>2, CapacityIs, ItemsAre DEF DpInv, WalkingBack, Cells, s
      <4> DEFINE x == c * Unit
                 z == Capacity * Unit
      <4>2. x \in Nat /\ z \in Int /\ s + x <= z /\ z <= cash
        BY <4>1
      <4> HIDE DEF x, z
      <4> QED BY <1>1, <1>2, <4>2
    <3>3. CASE phase = "done"
      BY <1>1, <2>2, <3>3 DEF DpInv, s
    <3>4. phase # "pay"
      BY <1>1, <2>2 DEF Phases
    <3> QED BY <1>1, <3>1, <3>2, <3>3, <3>4 DEF Phases
  <2>3. CASE solver \in {"lp", "saa"}
    <3>1. cash >= 0
      BY <1>1, <2>3 DEF ProblemTyped
    <3>2. CASE phase = "start"
      BY <1>1, <1>3, <3>2 DEF Phases
    <3>3. CASE phase = "done" /\ solver = "lp"
      <4>1. s <= cash
        BY <1>1, <3>3, OptimumAllowed DEF LpInv, s
      <4> QED BY <1>1, <3>1, <4>1
    <3>4. CASE phase = "done" /\ solver = "saa"
      <4>1. SafeSpend \in Nat
        BY <1>1, <3>4, BatchIsTyped, SafeSpendIsNat
      <4>2. Smaller(cash, SafeSpend) \in Int /\ Smaller(cash, SafeSpend) <= cash
        BY <1>1, <4>1 DEF Smaller
      <4>3. s <= Smaller(cash, SafeSpend)
        BY <1>1, <3>4, <4>2, OptimumAllowed DEF LpInv, s
      <4> QED BY <1>1, <1>2, <3>1, <4>2, <4>3
    <3> QED BY <1>1, <2>3, <3>2, <3>3, <3>4 DEF LpInv
  <2> QED BY <1>1, <2>1, <2>2, <2>3 DEF ProblemTyped
<1>5. \A n \in 1 .. N : allocation[n] \in 0 .. items[n].amount
  <2>1. \A n \in 1 .. N : allocation[n] \in Nat /\ items[n].amount \in Nat /\ allocation[n] <= items[n].amount
    BY <1>1, ItemsAre DEF Allowed, Obligations
  <2> QED BY <2>1
<1> QED BY <1>1, <1>4, <1>5 DEF WithinMeans, Payable, Allowed, Obligations, s

\* No solver plans to spend what is not there, to pay more than is owed, or a part
\* of a rigid obligation, at any point of its loops, whatever the obligations, the
\* cash (a negative balance included), the cell of the DP and the sample.
THEOREM PlansStayWithinMeans == AllocationSpec => []WithinMeans
BY AllocationMade, PlansAreAffordable, PTL

\* What the invariant says of a finished MILP is what the plan tells the owner.
LEMMA OptimaHoldOffTheCheapest == AllocationInv => HoldingOffCostsLeast
<1> SUFFICES ASSUME AllocationInv, Solved("lp")
             PROVE  /\ ExpectedLateFees = Penalty(allocation)
                    /\ \A o, p \in 1..N :
                          ActionType(o) # "pay_now" /\ ActionType(p) = "pay_now" =>
                              /\ ~items[o].rigid /\ ~items[p].rigid /\ allocation[p] > 0
                                    => items[o].rate <= items[p].rate
                              /\ Shortfall(o) <= cash - Spend(allocation) + allocation[p]
                                    => LateFee(o) <= LateFee(p)
  BY DEF HoldingOffCostsLeast
<1>1. ProblemTyped /\ Allowed /\ allocation \in Optima(cash)
  BY DEF AllocationInv, LpInv, Solved
<1>2. ExpectedLateFees = Penalty(allocation)
  BY <1>1, FeesAreThePenalty DEF Allowed
<1>3. ASSUME NEW o \in Obligations, NEW p \in Obligations,
             ActionType(o) # "pay_now", ActionType(p) = "pay_now"
      PROVE  /\ ~items[o].rigid /\ ~items[p].rigid /\ allocation[p] > 0
                   => items[o].rate <= items[p].rate
             /\ Shortfall(o) <= cash - Spend(allocation) + allocation[p] => LateFee(o) <= LateFee(p)
  BY <1>1, <1>3, NoExchangeSaves
<1> QED BY <1>2, <1>3, Zenon DEF Obligations

\* The reason the plan gives for holding a bill back: by exchanging a paisa or the
\* whole bill for what a paid one gets, no optimum of any problem could save.
THEOREM HeldOffIsCheapest == AllocationSpec => []HoldingOffCostsLeast
BY AllocationMade, OptimaHoldOffTheCheapest, PTL

\* What the invariant says of a finished chance-constrained run bounds its shortfalls.
LEMMA ShortfallsAreRare == AllocationInv => ShortfallNearEpsilon
<1> SUFFICES ASSUME AllocationInv, Solved("saa"), ~Hopeless
             PROVE  LET excess == Shortfalls(Spend(allocation)) * EpsDen - EpsNum * Len(batch)
                    IN  /\ excess < EpsDen
                        /\ (EpsNum * Len(batch)) % EpsDen = 0 => excess <= 0
  BY DEF ShortfallNearEpsilon
<1> DEFINE s == Spend(allocation)
<1>1. ProblemTyped /\ BatchTyped /\ Allowed /\ allocation \in Optima(Smaller(cash, SafeSpend)) /\ cash \in Int
  BY BatchIsTyped DEF AllocationInv, LpInv, Solved, ProblemTyped
<1>2. SafeSpend \in Nat
  BY <1>1, SafeSpendIsNat
<1>3. Smaller(cash, SafeSpend) \in Int /\ Smaller(cash, SafeSpend) <= SafeSpend
  BY <1>1, <1>2 DEF Smaller
<1>4. s \in Nat /\ s <= Smaller(cash, SafeSpend)
  BY <1>1, <1>3, OptimumAllowed, SpendIsNat DEF Allowed, Obligations
<1>5. s <= SafeSpend
  BY <1>1, <1>2, <1>3, <1>4
<1> HIDE DEF s
<1>6. LET excess == Shortfalls(s) * EpsDen - EpsNum * Len(batch)
      IN  /\ excess < EpsDen
          /\ (EpsNum * Len(batch)) % EpsDen = 0 => excess <= 0
  BY <1>1, <1>4, <1>5, SafeSpendIsSafe
<1> QED BY <1>6 DEF s

\* The safe-spend limit keeps the scenarios that fall short within epsilon of the
\* sample, short of one more, whatever the sample and epsilon.
THEOREM ShortfallsStayRare == AllocationSpec => []ShortfallNearEpsilon
BY AllocationMade, ShortfallsAreRare, PTL

-----------------------------------------------------------------------------
(* The best there is.                                                      *)

\* What t cells for obligation n save of its penalty.
CellWorth(its, n, t) ==
    IF ~its[n].rigid THEN (Unit * its[n].rate) * t
    ELSE IF t = 0 THEN 0 ELSE its[n].rate * its[n].amount

\* How many cells it may get.
CellChoices(its, n) == IF its[n].rigid THEN {0, Weight(its[n])} ELSE 0 .. Copies(its[n])

CellPlans(its) == {t \in [1 .. Len(its) -> Nat] : \A n \in 1 .. Len(its) : t[n] \in CellChoices(its, n)}

\* What the first k of a plan take and save.
CellsTaken(t, k) == SumFunctionOnSet(t, 1 .. k)
CellsSave(its, t, k) == SumFunctionOnSet([n \in 1 .. Len(its) |-> CellWorth(its, n, t[n])], 1 .. k)

\* A way through a choice table, from cell b of row k back to its beginning, and what
\* it saves.
Routes(tab, k, b, cap) ==
    {r \in [0 .. k -> 0 .. cap] : r[k] = b /\ \A n \in 1 .. k : r[n - 1] = r[n] - tab[n][r[n]]}

RouteSaves(its, tab, r, k) ==
    SumFunctionOnSet([n \in 1 .. k |-> CellWorth(its, n, tab[n][r[n]])], 1 .. k)

\* No plan for the first k saves more within b cells than row k says, and the choices
\* made so far lead to that much.
RowBounds(its, row, k, cap) ==
    \A t \in CellPlans(its) : \A b \in 0 .. cap : CellsTaken(t, k) <= b => CellsSave(its, t, k) <= row[b]

RowReached(its, tab, row, k, cap) ==
    \A b \in 0 .. cap : \E r \in Routes(tab, k, b, cap) : RouteSaves(its, tab, r, k) = row[b]

\* Row k's cell b, value v, chosen x, is the best that can be made of the row before.
BestCell(its, row, k, b, v, x) ==
    /\ x \in CellChoices(its, k) /\ x <= b
    /\ v = row[b - x] + CellWorth(its, k, x)
    /\ \A y \in CellChoices(its, k) : y <= b => row[b - y] + CellWorth(its, k, y) <= v

ChoicesFit(its, tab, cap) ==
    \A n \in DOMAIN tab : \A b \in 0 .. cap : tab[n][b] \in CellChoices(its, n) /\ tab[n][b] <= b

\* g of the deque
GainIn(its, row, n, j) == row[j] - j * (Unit * its[n].rate)

\* The deque falls, and every cell in reach of b is beaten by one in it that is not before it
Leads(its, row, n, q, b) ==
    /\ \A l, m \in DOMAIN q : l < m => GainIn(its, row, n, q[l]) > GainIn(its, row, n, q[m])
    /\ \A j \in 0 .. b : j >= b - Copies(its[n]) =>
          \E m \in DOMAIN q : j <= q[m] /\ GainIn(its, row, n, q[m]) >= GainIn(its, row, n, j)

RowsAreBest ==
    /\ phase = "start" => cur = <<>>
    /\ phase = "row" =>
          /\ prev \in [0 .. Capacity -> Int]
          /\ ChoicesFit(items, take, Capacity)
          /\ RowBounds(items, prev, i - 1, Capacity)
          /\ RowReached(items, take, prev, i - 1, Capacity)
          /\ cur \in Seq(Int) /\ Len(cur) = c
          /\ \A b \in 0 .. c - 1 : BestCell(items, prev, i, b, cur[b + 1], choice[b + 1])
          /\ c = 0 => dq = <<>>
          /\ c > 0 => ~items[i].rigid /\ Leads(items, prev, i, dq, c - 1)

\* What an allocation saves of the penalty of paying nothing
Saved(its, x) == SumFunction([n \in 1 .. Len(its) |-> its[n].rate * x[n]])

WalkIsBest ==
    phase = "walk" =>
        /\ ChoicesFit(items, take, Capacity)
        /\ \E r \in Routes(take, i, c, Capacity) :
              \A t \in CellPlans(items) : CellsTaken(t, N) <= Capacity =>
                 CellsSave(items, t, N) <= Saved(items, allocation) + RouteSaves(items, take, r, i)

DpIsBest ==
    phase = "done" /\ solver = "dp" =>
        /\ Capacity <= 0 => allocation = Unpaid
        /\ Capacity > 0 => \A t \in CellPlans(items) : CellsTaken(t, N) <= Capacity =>
                              CellsSave(items, t, N) <= Saved(items, allocation)

\* Rates above lambda are paid in full, those below not at all.
Divides(its, x, lambda) ==
    \A n \in 1 .. Len(its) : /\ its[n].rate > lambda => x[n] = its[n].amount
                             /\ its[n].rate < lambda => x[n] = 0

RuleIsBest ==
    solver = "rule" /\ (\A n \in 1 .. N : ~items[n].rigid) =>
        /\ phase = "pay" =>
              /\ \A l, m \in DOMAIN order : l < m => items[order[l]].rate >= items[order[m]].rate
              /\ remaining > 0 =>
                    \A n \in 1 .. N : \/ \E m \in DOMAIN order : order[m] = n
                                      \/ /\ allocation[n] = items[n].amount
                                         /\ \A m \in DOMAIN order : items[order[m]].rate <= items[n].rate
              /\ remaining <= 0 => \E lambda \in Nat : Divides(items, allocation, lambda)
        /\ phase = "done" =>
              \E lambda \in Nat : /\ Divides(items, allocation, lambda)
                                  /\ lambda = 0 \/ Spend(allocation) >= cash

BestInv == RowsAreBest /\ WalkIsBest /\ DpIsBest /\ RuleIsBest

-----------------------------------------------------------------------------
\* A book of obligations as the DP reads it.
Booked(its) ==
    /\ Len(its) \in Nat /\ Unit \in Nat
    /\ \A n \in 1 .. Len(its) : /\ its[n].amount \in Nat /\ its[n].rate \in Nat /\ its[n].rigid \in BOOLEAN
                                /\ CellChoices(its, n) \in SUBSET Nat

\* What a cell saves is a natural amount.
LEMMA CellWorthIsNat ==
    ASSUME NEW its, Booked(its), NEW n \in 1 .. Len(its), NEW t \in Nat
    PROVE  CellWorth(its, n, t) \in Nat
<1>1. its[n].amount \in Nat /\ its[n].rate \in Nat /\ Unit \in Nat
  BY DEF Booked
<1>2. Unit * its[n].rate \in Nat /\ its[n].rate * its[n].amount \in Nat
  BY <1>1
<1>3. (Unit * its[n].rate) * t \in Nat
  BY <1>2
<1> QED BY <1>2, <1>3 DEF CellWorth

\* A row that is no less than any choice makes of a row that bounds the plans before
\* bounds the plans.
LEMMA BoundExtends ==
    ASSUME NEW its, Booked(its), NEW k \in 1 .. Len(its), NEW cap \in Nat,
           NEW row \in [0 .. cap -> Int], NEW new \in [0 .. cap -> Int],
           RowBounds(its, row, k - 1, cap),
           \A b \in 0 .. cap : \A y \in CellChoices(its, k) :
              y <= b => row[b - y] + CellWorth(its, k, y) <= new[b]
    PROVE  RowBounds(its, new, k, cap)
<1> SUFFICES ASSUME NEW t \in CellPlans(its), NEW b \in 0 .. cap, CellsTaken(t, k) <= b
             PROVE  CellsSave(its, t, k) <= new[b]
  BY DEF RowBounds
<1> DEFINE F == [n \in 1 .. Len(its) |-> CellWorth(its, n, t[n])]
           y == t[k]
           w == CellWorth(its, k, y)
<1>1. /\ t \in [1 .. Len(its) -> Nat] /\ y \in CellChoices(its, k) /\ y \in Nat
      /\ Len(its) \in Nat /\ k \in Nat \ {0} /\ k <= Len(its)
  BY DEF CellPlans, Booked
<1>2. \A n \in 1 .. k : t[n] \in Int /\ F[n] \in Int
  <2> TAKE n \in 1 .. k
  <2> DEFINE L == Len(its)
             z == t[n]
  <2>1. n \in 1 .. L
    <3>1. L \in Nat /\ k \in Nat /\ k <= L
      BY <1>1
    <3> HIDE DEF L
    <3> QED BY <3>1
  <2>2. z \in Nat
    BY <1>1, <2>1
  <2>3. F[n] = CellWorth(its, n, z)
    BY <2>1
  <2> HIDE DEF z, F
  <2>4. CellWorth(its, n, z) \in Nat
    BY <2>1, <2>2, CellWorthIsNat
  <2> QED BY <2>2, <2>3, <2>4 DEF z
<1>3. F[k] = w /\ w \in Nat
  BY <1>1, CellWorthIsNat
<1> HIDE DEF F, w
<1>4. /\ CellsTaken(t, k) = CellsTaken(t, k - 1) + y
      /\ CellsTaken(t, k) \in Int
  BY <1>1, <1>2, SumFirst DEF CellsTaken
<1>5. CellsTaken(t, k - 1) \in Nat
  <2>1. IsFiniteSet(1 .. k - 1)
    BY <1>1, FS_Interval
  <2>2. \A n \in 1 .. k - 1 : n \in 1 .. Len(its)
    BY <1>1
  <2>3. \A n \in 1 .. k - 1 : t[n] \in Nat
    BY <1>1, <2>2
  <2> QED BY <2>1, <2>3, SumType DEF CellsTaken
<1>6. /\ CellsSave(its, t, k) = CellsSave(its, t, k - 1) + w /\ CellsSave(its, t, k - 1) \in Int
  <2>1. /\ SumFunctionOnSet(F, 1 .. k) = SumFunctionOnSet(F, 1 .. k - 1) + F[k]
        /\ SumFunctionOnSet(F, 1 .. k - 1) \in Int
    BY <1>1, <1>2, SumFirst
  <2> QED BY <1>3, <2>1 DEF CellsSave, F
<1> HIDE DEF y
<1>7. b - y \in 0 .. cap /\ y <= b /\ CellsTaken(t, k - 1) <= b - y
  BY <1>1, <1>4, <1>5, SMTT(30)
<1>8. CellsSave(its, t, k - 1) <= row[b - y]
  BY <1>7 DEF RowBounds
<1>9. row[b - y] + w <= new[b] /\ row[b - y] \in Int /\ new[b] \in Int
  BY <1>1, <1>7 DEF w
<1> DEFINE saved == CellsSave(its, t, k - 1)
           before == row[b - y]
           now == new[b]
<1>10. /\ w \in Nat /\ saved \in Int /\ before \in Int /\ now \in Int
       /\ saved <= before /\ before + w <= now /\ CellsSave(its, t, k) = saved + w
  BY <1>3, <1>6, <1>8, <1>9
<1> HIDE DEF saved, before, now
<1>11. CellsSave(its, t, k) <= now
  BY <1>10
<1> QED BY <1>11 DEF now

\* The choices of the first rows, longer by one, still make the ways they made; a way to
\* a cell of the new row is one to the cell its choice leads to, and the choice.
LEMMA ReachExtends ==
    ASSUME NEW its, Booked(its), NEW k \in 1 .. Len(its), NEW cap \in Nat,
           NEW tab \in Seq([0 .. cap -> Nat]), Len(tab) = k - 1, NEW chosen \in [0 .. cap -> Nat],
           NEW row, NEW new, RowReached(its, tab, row, k - 1, cap),
           \A b \in 0 .. cap : /\ chosen[b] <= b
                               /\ new[b] = row[b - chosen[b]] + CellWorth(its, k, chosen[b])
    PROVE  RowReached(its, Append(tab, chosen), new, k, cap)
<1> SUFFICES ASSUME NEW b \in 0 .. cap
             PROVE  \E r \in Routes(Append(tab, chosen), k, b, cap) :
                       RouteSaves(its, Append(tab, chosen), r, k) = new[b]
  BY DEF RowReached
<1> DEFINE d == b - chosen[b]
           T == Append(tab, chosen)
<1>1. /\ d \in 0 .. cap /\ k \in Nat \ {0} /\ Len(its) \in Nat /\ k <= Len(its)
      /\ new[b] = row[d] + CellWorth(its, k, chosen[b]) /\ chosen[b] \in Nat
  <2>1. chosen[b] \in Nat /\ chosen[b] <= b /\ new[b] = row[d] + CellWorth(its, k, chosen[b])
    OBVIOUS
  <2>2. Len(its) \in Nat
    BY DEF Booked
  <2>3. d \in 0 .. cap
    <3> DEFINE z == chosen[b]
    <3>1. z \in Nat /\ z <= b /\ b \in 0 .. cap /\ cap \in Nat
      BY <2>1
    <3> HIDE DEF z
    <3>2. b - z \in 0 .. cap
      BY <3>1
    <3> QED BY <3>2 DEF z
  <2> HIDE DEF d
  <2> QED BY <2>1, <2>2, <2>3
<1>2. PICK r \in Routes(tab, k - 1, d, cap) : RouteSaves(its, tab, r, k - 1) = row[d]
  BY <1>1 DEF RowReached
<1>3. /\ r \in [0 .. k - 1 -> 0 .. cap] /\ r[k - 1] = d
      /\ \A n \in 1 .. k - 1 : r[n - 1] = r[n] - tab[n][r[n]]
  BY <1>2 DEF Routes
<1>4. /\ T[k] = chosen /\ \A n \in 1 .. k - 1 : T[n] = tab[n] /\ tab[n] \in [0 .. cap -> Nat]
  <2> DEFINE S == [0 .. cap -> Nat]
  <2>1. tab \in Seq(S) /\ chosen \in S
    OBVIOUS
  <2> HIDE DEF S
  <2>2. /\ T[Len(tab) + 1] = chosen /\ \A n \in 1 .. Len(tab) : T[n] = tab[n]
    BY <2>1, AppendIs, SMTT(30)
  <2>3. \A n \in 1 .. Len(tab) : tab[n] \in S
    BY <2>1
  <2>4. Len(tab) + 1 = k
    BY <1>1
  <2> QED BY <2>2, <2>3, <2>4 DEF S
<1> HIDE DEF d, T
<1> DEFINE q == [n \in 0 .. k |-> IF n = k THEN b ELSE r[n]]
           F == [n \in 1 .. k |-> CellWorth(its, n, T[n][q[n]])]
           G == [n \in 1 .. k - 1 |-> CellWorth(its, n, tab[n][r[n]])]
<1>5. /\ q \in [0 .. k -> 0 .. cap] /\ q[k] = b
      /\ \A n \in 0 .. k - 1 : q[n] = r[n]
  <2>1. ASSUME NEW n \in 0 .. k PROVE q[n] \in 0 .. cap /\ q[n] = IF n = k THEN b ELSE r[n]
    <3>1. n = k \/ n \in 0 .. k - 1
      BY <1>1
    <3>2. n # k => r[n] \in 0 .. cap
      BY <1>3, <3>1
    <3> QED BY <3>2
  <2>2. k \in 0 .. k /\ \A n \in 0 .. k - 1 : n \in 0 .. k /\ n # k
    BY <1>1
  <2> QED BY <2>1, <2>2
<1> HIDE DEF q
<1>6. q \in Routes(T, k, b, cap)
  <2>1. ASSUME NEW n \in 1 .. k PROVE q[n - 1] = q[n] - T[n][q[n]]
    <3>1. CASE n = k
      <4>1. q[n - 1] = d
        BY <1>1, <1>3, <1>5, <3>1
      <4> QED BY <1>4, <1>5, <3>1, <4>1 DEF d
    <3>2. CASE n # k
      <4>1. n \in 1 .. k - 1 /\ n \in 0 .. k - 1 /\ n - 1 \in 0 .. k - 1
        BY <1>1, <3>2
      <4> QED BY <1>3, <1>4, <1>5, <4>1
    <3> QED BY <3>1, <3>2
  <2> QED BY <1>5, <2>1 DEF Routes
<1>7. \A n \in 1 .. k - 1 : F[n] = G[n] /\ F[n] \in Nat /\ F[n] \in Int
  <2> TAKE n \in 1 .. k - 1
  <2>1. n \in 1 .. k /\ n \in 0 .. k - 1 /\ n \in 1 .. Len(its)
    BY <1>1
  <2>2. tab[n][r[n]] \in Nat
    <3>1. r[n] \in 0 .. cap
      BY <1>3, <2>1
    <3> QED BY <1>4, <3>1
  <2>3. T[n][q[n]] = tab[n][r[n]]
    BY <1>4, <1>5, <2>1
  <2>4. CellWorth(its, n, tab[n][r[n]]) \in Nat
    BY <2>1, <2>2, CellWorthIsNat
  <2>5. F[n] = CellWorth(its, n, tab[n][r[n]]) /\ G[n] = CellWorth(its, n, tab[n][r[n]])
    BY <2>1, <2>3
  <2> HIDE DEF F, G
  <2> QED BY <2>4, <2>5
<1>8. F[k] = CellWorth(its, k, chosen[b]) /\ F[k] \in Nat
  <2>1. k \in 1 .. k /\ T[k][q[k]] = chosen[b]
    BY <1>1, <1>4, <1>5
  <2>2. F[k] = CellWorth(its, k, chosen[b])
    BY <2>1
  <2>3. CellWorth(its, k, chosen[b]) \in Nat
    BY <1>1, CellWorthIsNat
  <2> HIDE DEF F
  <2> QED BY <2>2, <2>3
<1> HIDE DEF F, G
<1>9. SumFunctionOnSet(F, 1 .. k) = SumFunctionOnSet(F, 1 .. k - 1) + F[k]
  <2>1. \A n \in 1 .. k : F[n] \in Int
    <3> TAKE n \in 1 .. k
    <3>1. n = k \/ n \in 1 .. k - 1
      BY <1>1
    <3>2. CASE n = k
      BY <1>8, <3>2, SMTT(30)
    <3>3. CASE n \in 1 .. k - 1
      BY <1>7, <3>3
    <3> QED BY <3>1, <3>2, <3>3
  <2> QED BY <1>1, <2>1, SumFirst
<1>10. SumFunctionOnSet(F, 1 .. k - 1) = SumFunctionOnSet(G, 1 .. k - 1)
  <2>1. IsFiniteSet(1 .. k - 1)
    BY <1>1, FS_Interval
  <2>2. \A n \in 1 .. k - 1 : F[n] \in Int /\ F[n] = G[n]
    BY <1>7
  <2> QED BY <2>1, <2>2, SumSame, ZenonT(30)
<1>11. RouteSaves(its, T, q, k) = SumFunctionOnSet(F, 1 .. k)
  BY DEF RouteSaves, F
<1>12. RouteSaves(its, tab, r, k - 1) = SumFunctionOnSet(G, 1 .. k - 1)
  BY DEF RouteSaves, G
<1>13. RouteSaves(its, T, q, k) = new[b]
  BY <1>1, <1>2, <1>8, <1>9, <1>10, <1>11, <1>12
<1> QED BY <1>6, <1>13 DEF T

\* A step back along a way leaves a way, and takes with it what its choice saves.
LEMMA RouteShortens ==
    ASSUME NEW its, Booked(its), NEW cap \in Nat, NEW tab \in Seq([0 .. cap -> Nat]),
           NEW k \in 1 .. Len(its), k <= Len(tab), NEW b \in 0 .. cap, NEW r \in Routes(tab, k, b, cap)
    PROVE  LET s == [n \in 0 .. k - 1 |-> r[n]]
           IN  /\ s \in Routes(tab, k - 1, b - tab[k][b], cap)
               /\ RouteSaves(its, tab, r, k) = RouteSaves(its, tab, s, k - 1) + CellWorth(its, k, tab[k][b])
               /\ RouteSaves(its, tab, s, k - 1) \in Int /\ CellWorth(its, k, tab[k][b]) \in Nat
<1> DEFINE s == [n \in 0 .. k - 1 |-> r[n]]
           F == [n \in 1 .. k |-> CellWorth(its, n, tab[n][r[n]])]
           G == [n \in 1 .. k - 1 |-> CellWorth(its, n, tab[n][s[n]])]
           L == Len(its)
<1>1. k \in Nat \ {0} /\ L \in Nat /\ k <= L
  BY DEF Booked
<1>2. /\ r \in [0 .. k -> 0 .. cap] /\ r[k] = b
      /\ \A n \in 1 .. k : r[n - 1] = r[n] - tab[n][r[n]]
  BY DEF Routes
<1>3. \A n \in 1 .. k : tab[n] \in [0 .. cap -> Nat]
  <2> DEFINE S == [0 .. cap -> Nat]
  <2>1. tab \in Seq(S) /\ \A n \in 1 .. k : n \in 1 .. Len(tab)
    BY <1>1
  <2> HIDE DEF S
  <2>2. \A n \in 1 .. k : tab[n] \in S
    BY <2>1
  <2> QED BY <2>2 DEF S
<1>4. \A n \in 0 .. k - 1 : s[n] = r[n] /\ n \in 0 .. k
  BY <1>1
<1>5. s \in [0 .. k - 1 -> 0 .. cap]
  BY <1>2, <1>4
<1> HIDE DEF s
<1>6. s \in Routes(tab, k - 1, b - tab[k][b], cap)
  <2>1. s[k - 1] = b - tab[k][b]
    <3>1. k \in 1 .. k /\ k - 1 \in 0 .. k - 1
      BY <1>1
    <3>2. r[k - 1] = r[k] - tab[k][r[k]] /\ s[k - 1] = r[k - 1]
      BY <1>2, <1>4, <3>1
    <3> QED BY <1>2, <3>2
  <2>2. ASSUME NEW n \in 1 .. k - 1 PROVE s[n - 1] = s[n] - tab[n][s[n]]
    <3>1. n \in 1 .. k /\ n \in 0 .. k - 1 /\ n - 1 \in 0 .. k - 1
      BY <1>1
    <3> QED BY <1>2, <1>4, <3>1
  <2> QED BY <1>5, <2>1, <2>2 DEF Routes
<1>7. \A n \in 1 .. k : F[n] = CellWorth(its, n, tab[n][r[n]]) /\ F[n] \in Nat /\ F[n] \in Int
  <2> TAKE n \in 1 .. k
  <2> DEFINE z == tab[n][r[n]]
  <2>1. n \in 1 .. L
    <3> HIDE DEF L
    <3> QED BY <1>1
  <2>2. z \in Nat
    <3>1. r[n] \in 0 .. cap
      <4>1. n \in 0 .. k
        BY <1>1
      <4> QED BY <1>2, <4>1
    <3> QED BY <1>3, <3>1
  <2>3. F[n] = CellWorth(its, n, z)
    OBVIOUS
  <2> HIDE DEF z, F
  <2>4. CellWorth(its, n, z) \in Nat
    BY <2>1, <2>2, CellWorthIsNat
  <2> QED BY <2>3, <2>4 DEF z
<1>8. \A n \in 1 .. k - 1 : F[n] = G[n] /\ F[n] \in Int
  <2> TAKE n \in 1 .. k - 1
  <2>1. n \in 1 .. k /\ n \in 0 .. k - 1
    BY <1>1
  <2>2. G[n] = CellWorth(its, n, tab[n][r[n]])
    BY <1>4, <2>1
  <2> HIDE DEF F, G
  <2> QED BY <1>7, <2>1, <2>2
<1> HIDE DEF F, G
<1>9. /\ SumFunctionOnSet(F, 1 .. k) = SumFunctionOnSet(F, 1 .. k - 1) + F[k]
      /\ SumFunctionOnSet(F, 1 .. k - 1) \in Int
  <2>1. \A n \in 1 .. k : F[n] \in Int
    BY <1>7
  <2> QED BY <1>1, <2>1, SumFirst
<1>10. SumFunctionOnSet(F, 1 .. k - 1) = SumFunctionOnSet(G, 1 .. k - 1)
  <2>1. IsFiniteSet(1 .. k - 1)
    BY <1>1, FS_Interval
  <2> QED BY <1>8, <2>1, SumSame, ZenonT(30)
<1>11. RouteSaves(its, tab, r, k) = SumFunctionOnSet(F, 1 .. k)
  BY DEF RouteSaves, F
<1>12. RouteSaves(its, tab, s, k - 1) = SumFunctionOnSet(G, 1 .. k - 1)
  BY DEF RouteSaves, G
<1>13. F[k] = CellWorth(its, k, tab[k][b]) /\ F[k] \in Nat
  <2>1. k \in 1 .. k
    BY <1>1
  <2> QED BY <1>2, <1>7, <2>1
<1>14. RouteSaves(its, tab, r, k) = RouteSaves(its, tab, s, k - 1) + CellWorth(its, k, tab[k][b])
  BY <1>9, <1>10, <1>11, <1>12, <1>13
<1>15. RouteSaves(its, tab, s, k - 1) \in Int /\ CellWorth(its, k, tab[k][b]) \in Nat
  BY <1>9, <1>10, <1>12, <1>13
<1> QED BY <1>6, <1>14, <1>15 DEF s

-----------------------------------------------------------------------------
(* The deque.                                                              *)

Falls(q) == \A l, m \in DOMAIN q : l < m => Gain(q[l]) > Gain(q[m])

\* Every cell from `from` up to b is beaten by one in the deque that is not before it.
Beaten(q, from, b) ==
    \A j \in 0 .. b : j >= from => \E m \in DOMAIN q : j <= q[m] /\ Gain(q[m]) >= Gain(j)

\* When cell b joins a deque that falls, what is left of it falls, and beats b and what
\* was beaten before.
LEMMA AdmittedFalls ==
    ASSUME NEW q \in Seq(Nat), NEW b \in Nat, \A m \in DOMAIN q : q[m] <= b,
           \A j \in 0 .. b : Gain(j) \in Int, NEW from \in Int,
           Falls(q), Beaten(q, from, b - 1)
    PROVE  Falls(Admitted(q, b)) /\ Beaten(Admitted(q, b), from, b)
<1> DEFINE last == {m \in DOMAIN q : Gain(q[m]) > Gain(b)}
           keep == IF last = {} THEN 0 ELSE CHOOSE m \in last : \A l \in last : l <= m
           front == SubSeq(q, 1, keep)
<1>0. \A m \in DOMAIN q : q[m] \in 0 .. b /\ Gain(q[m]) \in Int
  <2>1. \A m \in DOMAIN q : q[m] \in 0 .. b
    OBVIOUS
  <2> QED BY <2>1
<1>1. /\ keep \in 0 .. Len(q)
      /\ keep # 0 => keep \in last
      /\ \A m \in last : m <= keep
  <2>1. CASE last = {}
    BY <2>1
  <2>2. CASE last # {}
    <3>1. IsFiniteSet(last) /\ \A m \in last : m \in 1 .. Len(q)
      <4>0. Len(q) \in Nat /\ DOMAIN q = 1 .. Len(q)
        OBVIOUS
      <4>1. IsFiniteSet(1 .. Len(q)) /\ last \in SUBSET (1 .. Len(q))
        <5>1. IsFiniteSet(1 .. Len(q))
          BY <4>0, FS_Interval
        <5>2. last \in SUBSET (1 .. Len(q))
          BY <4>0
        <5> QED BY <5>1, <5>2
      <4> HIDE DEF last
      <4>2. IsFiniteSet(last)
        BY <4>1, FS_Subset
      <4> QED BY <4>1, <4>2
    <3> HIDE DEF last
    <3> DEFINE f == [m \in last |-> m]
    <3>2. \A m \in last : f[m] \in Int
      BY <3>1
    <3>3. \E m \in last : \A l \in last : f[l] <= f[m]
      <4> HIDE DEF f
      <4> QED BY <2>2, <3>1, <3>2, LargestValue
    <3>4. \E m \in last : \A l \in last : l <= m
      BY <3>3
    <3>5. /\ (CHOOSE m \in last : \A l \in last : l <= m) \in last
          /\ \A l \in last : l <= (CHOOSE m \in last : \A l2 \in last : l2 <= m)
      BY <3>4
    <3> QED BY <2>2, <3>1, <3>5
  <2> QED BY <2>1, <2>2
<1>2. Admitted(q, b) = Append(front, b)
  BY DEF Admitted
<1> HIDE DEF keep
<1>3. /\ front \in Seq(Nat) /\ Len(front) = keep
      /\ \A m \in 1 .. keep : front[m] = q[m]
  BY <1>1
<1> HIDE DEF front
<1> DEFINE a == Append(front, b)
<1>4. /\ a \in Seq(Nat) /\ Len(a) = keep + 1 /\ DOMAIN a = 1 .. keep + 1
      /\ a[keep + 1] = b
      /\ \A m \in 1 .. keep : a[m] = q[m]
  BY <1>1, <1>3
<1> HIDE DEF a
<1>5. \A m \in 1 .. keep + 1 : m = keep + 1 \/ m \in 1 .. keep
  BY <1>1
<1>6. \A m \in 1 .. keep : m \in DOMAIN q /\ Gain(q[m]) > Gain(b)
  <2> TAKE m \in 1 .. keep
  <2>1. keep \in last /\ m \in DOMAIN q
    BY <1>1
  <2>2. Gain(q[keep]) > Gain(b) /\ keep \in DOMAIN q /\ Gain(q[keep]) \in Int /\ Gain(q[m]) \in Int /\ Gain(b) \in Int
    BY <1>0, <2>1
  <2>3. CASE m = keep
    BY <2>1, <2>2, <2>3
  <2>4. CASE m < keep
    <3>1. Gain(q[m]) > Gain(q[keep])
      BY <2>1, <2>2, <2>4 DEF Falls
    <3> QED BY <2>1, <2>2, <3>1
  <2>5. m = keep \/ m < keep
    BY <1>1
  <2> QED BY <2>3, <2>4, <2>5
<1>7. Falls(a)
  <2> SUFFICES ASSUME NEW l \in DOMAIN a, NEW m \in DOMAIN a, l < m PROVE Gain(a[l]) > Gain(a[m])
    BY DEF Falls
  <2>1. l \in 1 .. keep
    BY <1>1, <1>4
  <2>2. CASE m = keep + 1
    BY <1>4, <1>6, <2>1, <2>2
  <2>3. CASE m \in 1 .. keep
    <3>1. l \in DOMAIN q /\ m \in DOMAIN q
      BY <1>6, <2>1, <2>3
    <3>2. Gain(q[l]) > Gain(q[m])
      BY <3>1 DEF Falls
    <3> QED BY <1>4, <2>1, <2>3, <3>2
  <2> QED BY <1>4, <1>5, <2>2, <2>3
<1>8. Beaten(a, from, b)
  <2> SUFFICES ASSUME NEW j \in 0 .. b, j >= from
               PROVE  \E m \in DOMAIN a : j <= a[m] /\ Gain(a[m]) >= Gain(j)
    BY DEF Beaten
  <2>0. Gain(j) \in Int /\ Gain(b) \in Int
    OBVIOUS
  <2>1. keep + 1 \in DOMAIN a
    BY <1>1, <1>4
  <2>2. CASE j = b
    <3>1. j <= a[keep + 1] /\ Gain(a[keep + 1]) = Gain(j) /\ b \in Nat
      BY <1>4, <2>2
    <3>2. Gain(a[keep + 1]) >= Gain(j)
      BY <2>0, <3>1
    <3> QED BY <2>1, <3>1, <3>2
  <2>3. CASE j # b
    <3>1. j \in 0 .. b - 1
      BY <2>3
    <3>2. PICK m \in DOMAIN q : j <= q[m] /\ Gain(q[m]) >= Gain(j)
      BY <3>1 DEF Beaten
    <3>3. CASE m <= keep
      <4>1. m \in 1 .. keep /\ m \in DOMAIN a
        BY <1>1, <1>4, <3>3, SMTT(30)
      <4> QED BY <1>4, <3>2, <4>1
    <3>4. CASE ~(m <= keep)
      <4>1. m \notin last
        BY <1>1, <3>4
      <4>2. ~(Gain(q[m]) > Gain(b)) /\ Gain(q[m]) \in Int
        BY <1>0, <4>1
      <4>3. Gain(b) >= Gain(j)
        BY <2>0, <3>2, <4>2
      <4>4. j <= a[keep + 1] /\ Gain(a[keep + 1]) >= Gain(j)
        BY <1>4, <4>3
      <4> QED BY <2>1, <4>4
    <3> QED BY <3>3, <3>4
  <2> QED BY <2>2, <2>3
<1> QED BY <1>2, <1>7, <1>8 DEF a

\* What is left in reach of b falls, still beats what is in reach, and its head, which is
\* in reach, beats all of it.
LEMMA EvictedLeads ==
    ASSUME NEW q \in Seq(Nat), NEW b \in Nat, Len(q) >= 1, q[Len(q)] = b,
           \A m \in DOMAIN q : q[m] <= b, \A j \in 0 .. b : Gain(j) \in Int,
           Copies(items[i]) \in Nat,
           Falls(q), Beaten(q, b - Copies(items[i]), b)
    PROVE  /\ Falls(Evicted(q, b)) /\ Beaten(Evicted(q, b), b - Copies(items[i]), b)
           /\ Evicted(q, b)[1] >= b - Copies(items[i])
           /\ \A j \in 0 .. b : j >= b - Copies(items[i]) => Gain(Evicted(q, b)[1]) >= Gain(j)
<1> DEFINE from == b - Copies(items[i])
           inside == {m \in DOMAIN q : q[m] >= from}
           first == CHOOSE m \in inside : \A l \in inside : m <= l
<1>0. /\ from \in Int
      /\ \A m \in DOMAIN q : q[m] \in 0 .. b /\ Gain(q[m]) \in Int /\ m \in Nat
  <2>1. \A m \in DOMAIN q : q[m] \in 0 .. b /\ m \in Nat
    OBVIOUS
  <2> QED BY <2>1
<1>1. first \in inside /\ \A l \in inside : first <= l
  <2>1. Len(q) \in inside /\ inside \in SUBSET Nat
    OBVIOUS
  <2> HIDE DEF inside
  <2>2. \E m \in inside : \A l \in inside : m <= l
    BY <2>1, LeastNatural
  <2> QED BY <2>2
<1>2. Evicted(q, b) = SubSeq(q, first, Len(q))
  BY DEF Evicted
<1> HIDE DEF first
<1>3. first \in 1 .. Len(q) /\ first \in DOMAIN q /\ q[first] >= from
  BY <1>1
<1>3a. first \in 1 .. Len(q)
  BY <1>3
<1> DEFINE e == SubSeq(q, first, Len(q))
<1>4. /\ e \in Seq(Nat) /\ Len(e) = Len(q) - first + 1 /\ DOMAIN e = 1 .. Len(q) - first + 1
      /\ \A m \in DOMAIN e : e[m] = q[first + m - 1] /\ first + m - 1 \in DOMAIN q /\ m \in Int
  <2>1. /\ e \in Seq(Nat) /\ Len(e) = Len(q) - first + 1
        /\ \A m \in 1 .. Len(q) - first + 1 : e[m] = q[first + m - 1]
    <3> HIDE DEF inside
    <3> QED BY <1>3a, SMTT(30)
  <2>2. \A m \in 1 .. Len(q) - first + 1 : first + m - 1 \in DOMAIN q /\ m \in Int
    BY <1>3
  <2> HIDE DEF e
  <2>3. DOMAIN e = 1 .. Len(q) - first + 1
    BY <2>1
  <2> QED BY <2>1, <2>2, <2>3
<1>5. 1 \in DOMAIN e /\ e[1] = q[first]
  <2> DEFINE L == Len(q)
  <2>1. L \in Nat /\ first \in 1 .. L /\ DOMAIN e = 1 .. L - first + 1
    BY <1>3a, <1>4
  <2> HIDE DEF L, e, inside
  <2>2. 1 \in DOMAIN e /\ first + 1 - 1 = first
    BY <2>1
  <2> QED BY <1>4, <2>2 DEF e
<1>6. \A m \in inside : m - first + 1 \in DOMAIN e /\ e[m - first + 1] = q[m]
  <2> TAKE m \in inside
  <2>1. m \in 1 .. Len(q) /\ first <= m
    BY <1>1, SMTT(30)
  <2>2. m - first + 1 \in 1 .. Len(q) - first + 1 /\ first + (m - first + 1) - 1 = m
    <3> DEFINE L == Len(q)
    <3>1. L \in Nat /\ m \in 1 .. L /\ first \in 1 .. L /\ first <= m
      BY <1>3a, <2>1
    <3> HIDE DEF L, inside
    <3>2. m \in Int /\ first \in Int
      BY <3>1
    <3>3. m - first + 1 \in 1 .. L - first + 1 /\ first + (m - first + 1) - 1 = m
      BY <3>1, <3>2
    <3> QED BY <3>3 DEF L
  <2> HIDE DEF e
  <2> QED BY <1>4, <2>2
<1> HIDE DEF e
<1>7. Falls(e)
  <2> SUFFICES ASSUME NEW l \in DOMAIN e, NEW m \in DOMAIN e, l < m PROVE Gain(e[l]) > Gain(e[m])
    BY DEF Falls
  <2>1. first + l - 1 \in DOMAIN q /\ first + m - 1 \in DOMAIN q /\ first + l - 1 < first + m - 1
    BY <1>3, <1>4, SMTT(30)
  <2> QED BY <1>4, <2>1 DEF Falls
<1>8. ASSUME NEW j \in 0 .. b, j >= from
      PROVE  \E m \in inside : j <= q[m] /\ Gain(q[m]) >= Gain(j)
  <2>1. PICK m \in DOMAIN q : j <= q[m] /\ Gain(q[m]) >= Gain(j)
    BY <1>8 DEF Beaten
  <2>2. m \in inside
    BY <1>0, <1>8, <2>1
  <2> QED BY <2>1, <2>2
<1>9. Beaten(e, from, b)
  <2> SUFFICES ASSUME NEW j \in 0 .. b, j >= from
               PROVE  \E m \in DOMAIN e : j <= e[m] /\ Gain(e[m]) >= Gain(j)
    BY DEF Beaten
  <2> HIDE DEF from, inside
  <2>1. PICK m \in inside : j <= q[m] /\ Gain(q[m]) >= Gain(j)
    BY <1>8
  <2> QED BY <1>6, <2>1
<1>10. ASSUME NEW j \in 0 .. b, j >= from PROVE Gain(e[1]) >= Gain(j)
  <2>1. PICK m \in inside : j <= q[m] /\ Gain(q[m]) >= Gain(j)
    BY <1>8, <1>10
  <2>2. m \in DOMAIN q /\ first <= m /\ Gain(q[m]) \in Int /\ Gain(q[first]) \in Int /\ Gain(j) \in Int
    BY <1>0, <1>1, <1>3
  <2>3. Gain(q[first]) >= Gain(q[m])
    <3>1. CASE first = m
      BY <2>2, <3>1
    <3>2. CASE first < m
      <4>1. Gain(q[first]) > Gain(q[m])
        BY <1>3, <2>2, <3>2 DEF Falls
      <4> QED BY <2>2, <4>1
    <3> QED BY <1>0, <1>3, <2>2, <3>1, <3>2, SMTT(30)
  <2> QED BY <1>5, <2>1, <2>2, <2>3
<1>11. e[1] >= from
  BY <1>3, <1>5
<1> QED BY <1>2, <1>7, <1>9, <1>10, <1>11 DEF e, from

\* The obligations are a book, and a route or a row starts from nothing.
LEMMA ItemsBooked ==
    ASSUME ProblemTyped
    PROVE  Booked(items) /\ N = Len(items) /\ N \in Nat
<1>1. N = Len(items) /\ N \in Nat /\ Unit \in Nat
  BY ItemsAre DEF N
<1>2. ASSUME NEW n \in 1 .. Len(items) PROVE CellChoices(items, n) \in SUBSET Nat
  <2>1. n \in Obligations
    BY <1>1 DEF Obligations
  <2>2. Weight(items[n]) \in Nat /\ Copies(items[n]) \in Nat
    BY <2>1, WeightIs
  <2> QED BY <2>2 DEF CellChoices
<1>3. \A n \in 1 .. Len(items) :
         items[n].amount \in Nat /\ items[n].rate \in Nat /\ items[n].rigid \in BOOLEAN
  BY <1>1, ItemsAre
<1> QED BY <1>1, <1>2, <1>3 DEF Booked

\* What a payment of v instead saves.
LEMMA SavedPut ==
    ASSUME ProblemTyped, NEW x \in [Obligations -> Nat], NEW n \in Obligations, NEW v \in Nat
    PROVE  /\ Saved(items, Put(x, n, v)) = Saved(items, x) - items[n].rate * x[n] + items[n].rate * v
           /\ Saved(items, x) \in Int
<1> DEFINE S == Obligations
           g == [m \in S |-> items[m].rate * x[m]]
           y == Put(x, n, v)
           h == [m \in S |-> items[m].rate * y[m]]
           w == items[n].rate * v
<1>1. IsFiniteSet(S) /\ \A m \in S : items[m].rate \in Nat /\ x[m] \in Nat
  BY ItemsAre DEF Obligations
<1>2. g \in [S -> Int] /\ w \in Int /\ \A m \in S : g[m] \in Int
  <2>1. \A m \in S : items[m].rate * x[m] \in Int
    BY <1>1
  <2>2. w \in Int
    BY <1>1
  <2> QED BY <2>1, <2>2
<1>3. h = Put(g, n, w)
  <2>1. \A m \in S : y[m] = IF m = n THEN v ELSE x[m]
    BY DEF Put
  <2>2. \A m \in S : h[m] = IF m = n THEN w ELSE g[m]
    BY <2>1
  <2>3. Put(g, n, w) \in [S -> Int] /\ \A m \in S : Put(g, n, w)[m] = IF m = n THEN w ELSE g[m]
    BY <1>2 DEF Put
  <2> HIDE DEF w, g
  <2> QED BY <2>2, <2>3
<1>4. g[n] = items[n].rate * x[n]
  OBVIOUS
<1>5. 1 .. Len(items) = S
  BY DEF Obligations, N
<1>6. Saved(items, x) = SumFunction(g) /\ Saved(items, y) = SumFunction(h)
  BY <1>5 DEF Saved
<1>7. SumFunction(g) \in Int
  <2>1. DOMAIN g = S
    OBVIOUS
  <2> QED BY <1>1, <1>2, <2>1, SumType DEF SumFunction
<1> HIDE DEF g, h, w, S
<1>8. SumFunction(Put(g, n, w)) = SumFunction(g) - g[n] + w
  <2>1. n \in S
    BY DEF S
  <2> QED BY <1>1, <1>2, <2>1, SumPut
<1> QED BY <1>3, <1>4, <1>6, <1>7, <1>8 DEF w

\* Nothing paid saves nothing.
LEMMA NothingSaved ==
    ASSUME ProblemTyped
    PROVE  Saved(items, Unpaid) = 0
<1> DEFINE g == [m \in 1 .. Len(items) |-> items[m].rate * Unpaid[m]]
<1>1. IsFiniteSet(1 .. N) /\ N = Len(items)
  BY ItemsAre DEF N
<1>2. \A m \in 1 .. N : items[m].rate \in Nat /\ Unpaid[m] = 0
  BY ItemsAre, NothingPaid DEF Obligations
<1>3. DOMAIN g = 1 .. Len(items) /\ IsFiniteSet(1 .. Len(items)) /\ \A m \in 1 .. Len(items) : g[m] = 0
  <2>1. IsFiniteSet(1 .. Len(items))
    BY <1>1
  <2>2. \A m \in 1 .. Len(items) : items[m].rate * Unpaid[m] = 0
    BY <1>1, <1>2
  <2> QED BY <2>1, <2>2
<1> HIDE DEF g
<1>4. SumFunction(g) = 0
  BY <1>3, SumZero DEF SumFunction
<1> QED BY <1>4 DEF Saved, g

\* A row of best choices, closed: the next row, or the walk back, starts from the best.
LEMMA CloseRowBest ==
    ASSUME AllocationInv, AllocationInv', RowsAreBest, phase = "row", UNCHANGED problemVars,
           allocation' = allocation,
           NEW row \in [0 .. Capacity -> Int], NEW chosen \in [0 .. Capacity -> Nat],
           CloseRow(row, chosen),
           \A b \in 0 .. Capacity : BestCell(items, prev, i, b, row[b], chosen[b])
    PROVE  BestInv'
<1>1. /\ ProblemTyped /\ Phases /\ TableAllows /\ FillingRow /\ solver = "dp"
      /\ prev' = row /\ take' = Append(take, chosen) /\ cur' = <<>> /\ choice' = <<>> /\ dq' = <<>>
      /\ \/ i = N /\ phase' = "walk" /\ i' = N /\ c' = Capacity
         \/ i # N /\ phase' = "row" /\ i' = i + 1 /\ c' = 0
  BY DEF AllocationInv, CloseRow, NoRow, Phases, DpInv
<1>2. /\ items' = items /\ solver' = "dp" /\ N' = N /\ Capacity' = Capacity /\ N \in Nat
      /\ Booked(items) /\ N = Len(items)
  BY <1>1, ProblemKept, ItemsBooked
<1>3. /\ Capacity \in Nat /\ allocation = Unpaid /\ i \in 1 .. N /\ Len(take) = i - 1
      /\ i \in 1 .. Len(items) /\ take \in Seq([0 .. Capacity -> Nat])
  BY <1>1, <1>2, CapacityIs DEF FillingRow, TableAllows, Cells
<1>4. /\ prev \in [0 .. Capacity -> Int] /\ ChoicesFit(items, take, Capacity)
      /\ RowBounds(items, prev, i - 1, Capacity)
      /\ RowReached(items, take, prev, i - 1, Capacity)
  BY DEF RowsAreBest
<1>5. RowBounds(items, row, i, Capacity)
  <2>1. \A b \in 0 .. Capacity : \A y \in CellChoices(items, i) :
           y <= b => prev[b - y] + CellWorth(items, i, y) <= row[b]
    BY DEF BestCell
  <2> HIDE DEF Capacity
  <2> QED BY <1>2, <1>3, <1>4, <2>1, BoundExtends
<1>6. RowReached(items, take', row, i, Capacity)
  <2>1. \A b \in 0 .. Capacity : /\ chosen[b] <= b
                                 /\ row[b] = prev[b - chosen[b]] + CellWorth(items, i, chosen[b])
    BY DEF BestCell
  <2> HIDE DEF Capacity
  <2>2. RowReached(items, Append(take, chosen), row, i, Capacity)
    BY <1>2, <1>3, <1>4, <2>1, ReachExtends
  <2> QED BY <1>1, <2>2
<1>7. ChoicesFit(items, take', Capacity)
  <2> DEFINE S == [0 .. Capacity -> Nat]
  <2>1. take \in Seq(S) /\ chosen \in S
    BY <1>3
  <2> HIDE DEF S
  <2>2. /\ Append(take, chosen) \in Seq(S) /\ Len(Append(take, chosen)) = Len(take) + 1
        /\ Append(take, chosen)[Len(take) + 1] = chosen
        /\ \A m \in 1 .. Len(take) : Append(take, chosen)[m] = take[m]
    BY <2>1, AppendIs
  <2>3. DOMAIN take' = 1 .. i /\ take'[i] = chosen /\ \A m \in 1 .. i - 1 : take'[m] = take[m] /\ m \in DOMAIN take
    <3>1. Len(take) + 1 = i /\ DOMAIN take = 1 .. i - 1
      BY <1>3, <2>1
    <3>2. DOMAIN Append(take, chosen) = 1 .. Len(Append(take, chosen))
      BY <2>2
    <3> QED BY <1>1, <2>2, <3>1, <3>2
  <2>4. ASSUME NEW n \in 1 .. i, NEW b \in 0 .. Capacity
        PROVE  take'[n][b] \in CellChoices(items, n) /\ take'[n][b] <= b
    <3>1. n = i \/ n \in 1 .. i - 1
      BY <1>3
    <3>2. CASE n = i
      BY <2>3, <3>2 DEF BestCell
    <3>3. CASE n \in 1 .. i - 1
      <4>1. take'[n] = take[n] /\ n \in DOMAIN take
        BY <2>3, <3>3
      <4> QED BY <1>4, <4>1 DEF ChoicesFit
    <3> QED BY <3>1, <3>2, <3>3
  <2> QED BY <2>3, <2>4 DEF ChoicesFit
<1>8. DpIsBest' /\ RuleIsBest'
  BY <1>1, <1>2 DEF DpIsBest, RuleIsBest
<1>9. CASE i = N /\ phase' = "walk" /\ i' = N /\ c' = Capacity
  <2>1. Capacity \in 0 .. Capacity
    BY <1>3
  <2>2. PICK r \in Routes(take', i, Capacity, Capacity) : RouteSaves(items, take', r, i) = row[Capacity]
    BY <1>6, <2>1 DEF RowReached
  <2>3. Saved(items, allocation) = 0
    BY <1>1, <1>3, NothingSaved
  <2>4. ASSUME NEW t \in CellPlans(items), CellsTaken(t, N) <= Capacity
        PROVE  CellsSave(items, t, N) <= Saved(items, allocation) + RouteSaves(items, take', r, i)
    <3>1. CellsSave(items, t, N) <= row[Capacity] /\ row[Capacity] \in Int
      BY <1>5, <1>9, <2>1, <2>4 DEF RowBounds
    <3>2. Saved(items, allocation) + RouteSaves(items, take', r, i) = row[Capacity]
      BY <2>2, <2>3, <3>1
    <3> QED BY <3>1, <3>2
  <2>5. /\ r \in Routes(take', i', c', Capacity')
        /\ \A t \in CellPlans(items') : CellsTaken(t, N') <= Capacity' =>
              CellsSave(items', t, N') <= Saved(items', allocation') + RouteSaves(items', take', r, i')
    BY <1>2, <1>9, <2>4
  <2>6. WalkIsBest'
    BY <1>2, <1>7, <2>5 DEF WalkIsBest
  <2>7. RowsAreBest'
    BY <1>9 DEF RowsAreBest
  <2> QED BY <1>8, <2>6, <2>7 DEF BestInv
<1>10. CASE i # N /\ phase' = "row" /\ i' = i + 1 /\ c' = 0
  <2>1. i' - 1 = i
    BY <1>3, <1>10
  <2>2. cur' \in Seq(Int) /\ Len(cur') = c' /\ ~(c' > 0) /\ \A b \in 0 .. c' - 1 : FALSE
    BY <1>1, <1>10
  <2>3. /\ prev' \in [0 .. Capacity' -> Int] /\ ChoicesFit(items', take', Capacity')
        /\ RowBounds(items', prev', i' - 1, Capacity')
        /\ RowReached(items', take', prev', i' - 1, Capacity')
    BY <1>1, <1>2, <1>5, <1>6, <1>7, <2>1
  <2>4. RowsAreBest'
    BY <1>1, <2>2, <2>3 DEF RowsAreBest
  <2>5. WalkIsBest'
    BY <1>10 DEF WalkIsBest
  <2> QED BY <1>8, <2>4, <2>5 DEF BestInv
<1> QED BY <1>1, <1>9, <1>10

\* The table starts from a row that nothing saves more than.
LEMMA StartTableBest == AllocationInv /\ AllocationInv' /\ RowsAreBest /\ StartTable => BestInv'
<1> SUFFICES ASSUME AllocationInv, AllocationInv', RowsAreBest, StartTable PROVE BestInv'
  OBVIOUS
<1>1. /\ ProblemTyped /\ Phases /\ UNCHANGED problemVars
      /\ solver = "dp" /\ phase = "start"
      /\ UNCHANGED <<c, cur, take, dq, allocation>>
  BY DEF AllocationInv, StartTable
<1>2. /\ items' = items /\ solver' = "dp" /\ N' = N /\ Capacity' = Capacity /\ Unpaid' = Unpaid /\ N \in Nat
      /\ Booked(items) /\ N = Len(items) /\ Capacity \in Int
  BY <1>1, ProblemKept, ItemsBooked, CapacityIs
<1>3. c = 0 /\ take = <<>> /\ dq = <<>> /\ allocation = Unpaid /\ cur = <<>>
  <2>1. cur = <<>>
    BY <1>1 DEF RowsAreBest
  <2> QED BY <1>1, <2>1 DEF Phases
<1>4. RuleIsBest'
  BY <1>2 DEF RuleIsBest
<1>5. CASE (N = 0 \/ Capacity <= 0) /\ phase' = "done"
  <2>1. RowsAreBest' /\ WalkIsBest'
    BY <1>5 DEF RowsAreBest, WalkIsBest
  <2>2. ASSUME Capacity > 0, NEW t \in CellPlans(items)
        PROVE  CellsSave(items, t, N) <= Saved(items, allocation)
    <3>1. N = 0 /\ 1 .. N = {}
      BY <1>2, <1>5, <2>2
    <3>2. CellsSave(items, t, N) = 0
      BY <3>1, SumEmpty DEF CellsSave
    <3>3. Saved(items, allocation) = 0
      BY <1>1, <1>3, NothingSaved
    <3> QED BY <3>2, <3>3
  <2>3. DpIsBest'
    BY <1>1, <1>2, <1>3, <2>2 DEF DpIsBest
  <2> QED BY <1>4, <2>1, <2>3 DEF BestInv
<1>6. CASE ~(N = 0 \/ Capacity <= 0) /\ phase' = "row" /\ prev' = [b \in Cells |-> 0] /\ i' = 1
  <2>1. WalkIsBest' /\ DpIsBest'
    BY <1>6 DEF WalkIsBest, DpIsBest
  <2>2. prev' \in [0 .. Capacity -> Int] /\ \A b \in 0 .. Capacity : prev'[b] = 0
    BY <1>6 DEF Cells
  <2>3. i' - 1 = 0 /\ 1 .. 0 = {}
    BY <1>6
  <2>4. RowBounds(items, prev', 0, Capacity)
    <3>1. \A t \in CellPlans(items) : CellsSave(items, t, 0) = 0
      BY <2>3, SumEmpty DEF CellsSave
    <3> QED BY <2>2, <3>1 DEF RowBounds
  <2>5. RowReached(items, take, prev', 0, Capacity)
    <3> SUFFICES ASSUME NEW b \in 0 .. Capacity
                 PROVE  \E r \in Routes(take, 0, b, Capacity) : RouteSaves(items, take, r, 0) = prev'[b]
      BY DEF RowReached
    <3> DEFINE r == [n \in 0 .. 0 |-> b]
    <3>1. r \in Routes(take, 0, b, Capacity)
      BY <2>3 DEF Routes
    <3>2. RouteSaves(items, take, r, 0) = 0
      BY <2>3, SumEmpty DEF RouteSaves
    <3> QED BY <2>2, <3>1, <3>2
  <2>6. ChoicesFit(items, take, Capacity)
    BY <1>3 DEF ChoicesFit
  <2>7. cur' \in Seq(Int) /\ Len(cur') = c' /\ ~(c' > 0) /\ dq' = <<>> /\ \A b \in 0 .. c' - 1 : FALSE
    BY <1>1, <1>3
  <2>8. /\ prev' \in [0 .. Capacity' -> Int] /\ ChoicesFit(items', take', Capacity')
        /\ RowBounds(items', prev', i' - 1, Capacity')
        /\ RowReached(items', take', prev', i' - 1, Capacity')
    BY <1>1, <1>2, <2>2, <2>3, <2>4, <2>5, <2>6
  <2>9. RowsAreBest'
    BY <2>7, <2>8 DEF RowsAreBest
  <2> QED BY <1>4, <2>1, <2>9 DEF BestInv
<1> QED BY <1>5, <1>6 DEF StartTable

\* Taking a rigid obligation where that is better is the best choice.
LEMMA RigidRowBest == AllocationInv /\ AllocationInv' /\ RowsAreBest /\ RigidRow => BestInv'
<1> SUFFICES ASSUME AllocationInv, AllocationInv', RowsAreBest, RigidRow PROVE BestInv'
  OBVIOUS
<1> DEFINE o == items[i]
           w == Weight(o)
           chosen == [b \in Cells |-> IF Better(o, b) THEN Weight(o) ELSE 0]
           row == [b \in Cells |-> IF Better(o, b) THEN prev[b - Weight(o)] + o.rate * o.amount ELSE prev[b]]
<1>1. /\ phase = "row" /\ UNCHANGED problemVars /\ allocation' = allocation
      /\ CloseRow(row, chosen) /\ ProblemTyped /\ FillingRow /\ o.rigid
      /\ prev \in [0 .. Capacity -> Int] /\ Cells = 0 .. Capacity
  BY DEF RigidRow, AllocationInv, DpInv, RowsAreBest, Cells
<1>2. w \in Nat /\ o.rate * o.amount \in Nat /\ i \in 1 .. N /\ Capacity \in Int
  <2>0. Capacity \in Int
    BY <1>1, CapacityIs
  <2>1. i \in 1 .. N /\ o.rate \in Nat /\ o.amount \in Nat
    BY <1>1, ItemsAre DEF FillingRow
  <2> QED BY <1>1, <2>0, <2>1, WeightIs DEF Obligations
<1> DEFINE g == o.rate * o.amount
<1>3. CellWorth(items, i, 0) = 0 /\ (w # 0 => CellWorth(items, i, w) = g)
  BY <1>1 DEF CellWorth
<1>4. CellChoices(items, i) = {0, w}
  BY <1>1 DEF CellChoices
<1>5. \A b \in 0 .. Capacity : Better(o, b) <=> b >= w /\ prev[b - w] + g > prev[b]
  BY DEF Better
<1> HIDE DEF w, g, o
<1>6. ASSUME NEW b \in 0 .. Capacity
      PROVE  row[b] \in Int /\ chosen[b] \in Nat /\ BestCell(items, prev, i, b, row[b], chosen[b])
  <2>1. b \in Cells /\ prev[b] \in Int /\ b - 0 = b /\ b \in Nat
    BY <1>1
  <2>2. CASE Better(o, b)
    <3>1. row[b] = prev[b - w] + g /\ chosen[b] = w
      BY <2>1, <2>2 DEF w, g
    <3>2. b - w \in 0 .. Capacity /\ w <= b /\ prev[b - w] \in Int /\ prev[b - w] + g > prev[b]
      <4>1. b >= w /\ prev[b - w] + g > prev[b]
        BY <1>5, <2>2
      <4>2. b - w \in 0 .. Capacity
        BY <1>2, <4>1 DEF w
      <4> QED BY <1>1, <4>1, <4>2
    <3> HIDE DEF row, chosen
    <3>3. CASE w # 0
      <4>1. /\ prev[b - w] + CellWorth(items, i, w) = row[b]
            /\ prev[b - 0] + CellWorth(items, i, 0) <= row[b]
            /\ row[b] \in Int
        BY <1>2, <1>3, <2>1, <3>1, <3>2, <3>3 DEF w, g
      <4>2. \A y \in CellChoices(items, i) : y <= b => prev[b - y] + CellWorth(items, i, y) <= row[b]
        BY <1>4, <4>1
      <4>3. BestCell(items, prev, i, b, row[b], chosen[b])
        BY <1>4, <3>1, <3>2, <4>1, <4>2 DEF BestCell
      <4> QED BY <1>2, <3>1, <4>1, <4>3 DEF w
    <3>4. CASE w = 0
      <4>1. o.amount <= w * Unit /\ o.amount \in Nat /\ o.rate \in Nat /\ Unit \in Nat
        BY <1>1, <1>2, WeightIs, ItemsAre DEF Obligations, w, o
      <4>2. o.amount = 0
        BY <3>4, <4>1
      <4>3. g = 0
        BY <4>1, <4>2 DEF g
      <4>4. FALSE
        BY <2>1, <3>2, <3>4, <4>3
      <4> QED BY <4>4
    <3> QED BY <3>3, <3>4
  <2>3. CASE ~Better(o, b)
    <3>1. row[b] = prev[b] /\ chosen[b] = 0
      BY <2>1, <2>3
    <3>2. w <= b => prev[b - w] + g <= prev[b]
      <4> SUFFICES ASSUME w <= b PROVE prev[b - w] + g <= prev[b]
        OBVIOUS
      <4>1. ~(prev[b - w] + g > prev[b]) /\ b - w \in 0 .. Capacity
        BY <1>2, <1>5, <2>3 DEF w
      <4>2. prev[b - w] \in Int /\ g \in Int
        BY <1>1, <1>2, <4>1 DEF g
      <4> QED BY <2>1, <4>1, <4>2
    <3> HIDE DEF row, chosen
    <3>3. w <= b => prev[b - w] + CellWorth(items, i, w) <= prev[b]
      <4>1. CASE w = 0
        BY <1>3, <2>1, <4>1
      <4>2. CASE w # 0
        BY <1>3, <3>2, <4>2
      <4> QED BY <4>1, <4>2
    <3>4. prev[b - 0] + CellWorth(items, i, 0) = prev[b] /\ prev[b] <= prev[b]
      BY <1>3, <2>1
    <3>5. \A y \in CellChoices(items, i) : y <= b => prev[b - y] + CellWorth(items, i, y) <= row[b]
      BY <1>4, <3>1, <3>3, <3>4
    <3>6. 0 <= b
      BY <2>1
    <3>7. BestCell(items, prev, i, b, row[b], chosen[b])
      BY <1>4, <3>1, <3>4, <3>5, <3>6 DEF BestCell
    <3> QED BY <2>1, <3>1, <3>7
  <2> QED BY <2>2, <2>3
<1>7. row \in [0 .. Capacity -> Int] /\ chosen \in [0 .. Capacity -> Nat]
  <2>1. \A b \in 0 .. Capacity : row[b] \in Int /\ chosen[b] \in Nat
    BY <1>6
  <2>2. row = [b \in 0 .. Capacity |-> row[b]] /\ chosen = [b \in 0 .. Capacity |-> chosen[b]]
    BY <1>1
  <2> HIDE DEF row, chosen
  <2> QED BY <2>1, <2>2
<1>8. \A b \in 0 .. Capacity : BestCell(items, prev, i, b, row[b], chosen[b])
  BY <1>6
<1> HIDE DEF row, chosen
<1> QED BY <1>1, <1>7, <1>8, CloseRowBest

\* Where less than a cell is owed there is no choice.
LEMMA CopiedRowBest == AllocationInv /\ AllocationInv' /\ RowsAreBest /\ CopiedRow => BestInv'
<1> SUFFICES ASSUME AllocationInv, AllocationInv', RowsAreBest, CopiedRow PROVE BestInv'
  OBVIOUS
<1> DEFINE chosen == [b \in Cells |-> 0]
<1>1. /\ phase = "row" /\ UNCHANGED problemVars /\ allocation' = allocation
      /\ CloseRow(prev, chosen) /\ ~items[i].rigid /\ Copies(items[i]) = 0
      /\ prev \in [0 .. Capacity -> Int] /\ Cells = 0 .. Capacity /\ ProblemTyped /\ FillingRow
  BY DEF CopiedRow, RowsAreBest, Cells, AllocationInv, DpInv
<1>2. chosen \in [0 .. Capacity -> Nat] /\ \A b \in 0 .. Capacity : chosen[b] = 0
  BY <1>1
<1> HIDE DEF chosen
<1>3. CellChoices(items, i) = {0}
  BY <1>1 DEF CellChoices
<1>4. CellWorth(items, i, 0) = 0
  <2>1. items[i].rate \in Nat /\ Unit \in Nat
    BY <1>1, ItemsAre DEF FillingRow
  <2> QED BY <1>1, <2>1 DEF CellWorth
<1>5. ASSUME NEW b \in 0 .. Capacity PROVE BestCell(items, prev, i, b, prev[b], chosen[b])
  <2>1. prev[b - 0] + CellWorth(items, i, 0) = prev[b] /\ prev[b] <= prev[b] /\ 0 <= b
    <3>1. prev[b] \in Int /\ b - 0 = b
      BY <1>1
    <3> QED BY <1>4, <3>1
  <2> QED BY <1>2, <1>3, <2>1 DEF BestCell
<1> QED BY <1>1, <1>2, <1>5, CloseRowBest

\* A deque that leads is one that falls and beats what is in reach.
LEMMA LeadsIs ==
    ASSUME NEW q, NEW b \in Int
    PROVE  Leads(items, prev, i, q, b) <=> Falls(q) /\ Beaten(q, b - Copies(items[i]), b)
BY DEF Leads, Falls, Beaten, GainIn, Gain, CopyValue

\* The head of the deque gives the best cell.
LEMMA HeadIsBest ==
    ASSUME NEW cap \in Nat, NEW row \in [0 .. cap -> Int], NEW n, ~items[n].rigid,
           Copies(items[n]) \in Nat, Unit * items[n].rate \in Nat,
           NEW b \in 0 .. cap, NEW h \in 0 .. b, h >= b - Copies(items[n]),
           \A j \in 0 .. b : j >= b - Copies(items[n]) =>
              GainIn(items, row, n, h) >= GainIn(items, row, n, j)
    PROVE  /\ GainIn(items, row, n, h) + b * (Unit * items[n].rate) \in Int
           /\ BestCell(items, row, n, b, GainIn(items, row, n, h) + b * (Unit * items[n].rate), b - h)
<1> DEFINE v == Unit * items[n].rate
           k == Copies(items[n])
           best == GainIn(items, row, n, h) + b * v
<1>1. CellChoices(items, n) = 0 .. k /\ \A y \in Nat : CellWorth(items, n, y) = v * y
  BY DEF CellChoices, CellWorth
<1>2. \A j \in 0 .. b : GainIn(items, row, n, j) = row[j] - j * v
  BY DEF GainIn
<1>3. v \in Nat /\ k \in Nat /\ b \in Nat /\ h \in Nat /\ h <= b /\ h >= b - k
      /\ \A j \in 0 .. b : j >= b - k => GainIn(items, row, n, h) >= GainIn(items, row, n, j)
  OBVIOUS
<1> HIDE DEF v, k
<1>4. ASSUME NEW j \in 0 .. b
      PROVE  /\ row[j] \in Int /\ row[j] - j * v \in Int /\ b * v \in Int
             /\ (row[j] - j * v) + b * v = row[j] + v * (b - j)
  <2>1. row[j] \in Int /\ j \in Int
    OBVIOUS
  <2>2. v * (b - j) = b * v - j * v /\ j * v \in Int /\ b * v \in Int
    BY <1>3, <2>1
  <2> DEFINE x == j * v
             z == b * v
             u == row[j]
  <2>3. x \in Int /\ z \in Int /\ u \in Int /\ v * (b - j) = z - x
    BY <2>1, <2>2
  <2> HIDE DEF x, z, u
  <2>4. u - x \in Int /\ (u - x) + z = u + (z - x)
    BY <2>3
  <2> QED BY <2>1, <2>3, <2>4 DEF x, z, u
<1>5. best = row[h] + v * (b - h) /\ best \in Int
  <2>1. best = (row[h] - h * v) + b * v
    BY <1>2
  <2> HIDE DEF best
  <2>2. /\ row[h] - h * v \in Int /\ b * v \in Int
        /\ (row[h] - h * v) + b * v = row[h] + v * (b - h)
    BY <1>4
  <2> DEFINE p == row[h] - h * v
             q == b * v
  <2>3. p \in Int /\ q \in Int /\ best = p + q /\ p + q = row[h] + v * (b - h)
    BY <2>1, <2>2
  <2> HIDE DEF p, q
  <2> QED BY <2>3
<1>6. b - h \in CellChoices(items, n) /\ b - h <= b /\ b - (b - h) = h /\ b - h \in Nat
  BY <1>1, <1>3
<1>7. best = row[b - (b - h)] + CellWorth(items, n, b - h)
  BY <1>1, <1>5, <1>6
<1>8. ASSUME NEW y \in CellChoices(items, n), y <= b
      PROVE  row[b - y] + CellWorth(items, n, y) <= best
  <2> DEFINE j == b - y
             p == row[h] - h * v
             q == row[j] - j * v
  <2>1. y \in Nat /\ y <= k /\ CellWorth(items, n, y) = v * y
    <3>1. y \in 0 .. k
      BY <1>1, <1>8
    <3> QED BY <1>1, <1>3, <3>1
  <2>2. j \in 0 .. b /\ j >= b - k /\ b - j = y
    BY <1>3, <1>8, <2>1
  <2>3. GainIn(items, row, n, h) >= GainIn(items, row, n, j)
    BY <1>3, <2>2
  <2> HIDE DEF j
  <2>4. p >= q
    BY <1>2, <1>3, <2>2, <2>3
  <2>5. q \in Int /\ p \in Int /\ q + b * v = row[j] + v * y /\ b * v \in Int /\ p + b * v = best
    <3>1. q + b * v = row[j] + v * (b - j) /\ q \in Int /\ b * v \in Int
      BY <1>4, <2>2
    <3>2. p \in Int
      BY <1>3, <1>4
    <3>3. p + b * v = best
      BY <1>2, <1>3
    <3> HIDE DEF p, q, best
    <3> QED BY <2>2, <3>1, <3>2, <3>3
  <2> HIDE DEF p, q, best
  <2> DEFINE z == b * v
  <2>6. q + z <= p + z
    <3>1. z \in Int
      BY <2>5
    <3> HIDE DEF z
    <3> QED BY <2>4, <2>5, <3>1
  <2>7. row[j] + v * y <= best
    BY <2>5, <2>6
  <2> QED BY <2>1, <2>7 DEF j
<1> HIDE DEF best
<1>9. BestCell(items, row, n, b, best, b - h)
  BY <1>6, <1>7, <1>8 DEF BestCell
<1> QED BY <1>5, <1>9 DEF best, v

\* A turn of the deque's loop finds the best cell.
LEMMA SlideBest == AllocationInv /\ AllocationInv' /\ RowsAreBest /\ Slide => BestInv'
<1> SUFFICES ASSUME AllocationInv, AllocationInv', RowsAreBest, Slide PROVE BestInv'
  OBVIOUS
<1> DEFINE a == Admitted(dq, c)
           q == Evicted(a, c)
           k == Copies(items[i])
           v == Unit * items[i].rate
           value == Gain(Head(q)) + c * CopyValue(items[i])
           x == c - Head(q)
           row == Append(cur, value)
           chosen == Append(choice, x)
<1>1. /\ phase = "row" /\ UNCHANGED problemVars /\ allocation' = allocation
      /\ ProblemTyped /\ FillingRow /\ ~items[i].rigid /\ solver = "dp"
      /\ \/ /\ c < Capacity
            /\ dq' = q /\ cur' = row /\ choice' = chosen /\ c' = c + 1
            /\ UNCHANGED <<phase, i, prev, take>>
         \/ /\ ~(c < Capacity)
            /\ CloseRow([b \in Cells |-> row[b + 1]], [b \in Cells |-> chosen[b + 1]])
  BY DEF Slide, AllocationInv, DpInv, Phases
<1>2. /\ Capacity \in Nat /\ c \in Nat /\ c <= Capacity /\ i \in 1 .. N
      /\ choice \in Seq(Nat) /\ Len(choice) = c
      /\ dq \in Seq(Nat) /\ \A m \in DOMAIN dq : dq[m] <= c
      /\ Cells = 0 .. Capacity
  BY <1>1, CapacityIs DEF FillingRow, Cells
<1>3. /\ prev \in [0 .. Capacity -> Int] /\ cur \in Seq(Int) /\ Len(cur) = c
      /\ \A b \in 0 .. c - 1 : BestCell(items, prev, i, b, cur[b + 1], choice[b + 1])
      /\ c = 0 => dq = <<>>
      /\ c > 0 => Leads(items, prev, i, dq, c - 1)
      /\ ChoicesFit(items, take, Capacity)
      /\ RowBounds(items, prev, i - 1, Capacity)
      /\ RowReached(items, take, prev, i - 1, Capacity)
  BY <1>1 DEF RowsAreBest
<1>4. k \in Nat /\ v \in Nat /\ CopyValue(items[i]) = v
  <2>1. items[i].rate \in Nat /\ Unit \in Nat
    BY <1>1, <1>2, ItemsAre
  <2> QED BY <1>1, <1>2, <2>1, WeightIs, SMTT(30) DEF Obligations, CopyValue
<1> HIDE DEF k, v
<1>5. \A j \in 0 .. c : Gain(j) \in Int /\ Gain(j) = GainIn(items, prev, i, j)
  <2> TAKE j \in 0 .. c
  <2>1. prev[j] \in Int /\ j \in Int
    BY <1>2, <1>3
  <2>2. Gain(j) = prev[j] - j * v
    BY <1>4 DEF Gain
  <2>3. j * v \in Int
    BY <1>4, <2>1
  <2>4. Gain(j) = GainIn(items, prev, i, j)
    BY <1>4 DEF Gain, GainIn, CopyValue
  <2> QED BY <2>1, <2>2, <2>3, <2>4
<1>6. Falls(dq) /\ Beaten(dq, c - k, c - 1)
  <2>1. CASE c = 0
    BY <1>3, <2>1 DEF Falls, Beaten
  <2>2. CASE c > 0
    <3> DEFINE d == c - 1
    <3>1. d \in Int /\ Leads(items, prev, i, dq, d)
      BY <1>2, <1>3, <2>2
    <3>2. Falls(dq) /\ Beaten(dq, d - k, d)
      BY <3>1, LeadsIs DEF k
    <3>3. \A j \in 0 .. d : j >= c - k => j >= d - k
      BY <1>2, <1>4
    <3> HIDE DEF d
    <3>4. Beaten(dq, c - k, d)
      BY <3>2, <3>3 DEF Beaten
    <3> QED BY <3>2, <3>4 DEF d
  <2> QED BY <1>2, <2>1, <2>2
<1>7. /\ a \in Seq(Nat) /\ Len(a) >= 1 /\ \A m \in DOMAIN a : a[m] <= c
      /\ a[Len(a)] = c
  BY <1>2, AdmittedIs
<1>8. Falls(a) /\ Beaten(a, c - k, c)
  <2>1. c - k \in Int /\ \A j \in 0 .. c : Gain(j) \in Int
    BY <1>2, <1>4, <1>5
  <2> DEFINE from == c - k
  <2> HIDE DEF from
  <2> QED BY <1>2, <1>6, <2>1, AdmittedFalls DEF from
<1> HIDE DEF a
<1>9. /\ q \in Seq(Nat) /\ Len(q) >= 1 /\ \A m \in DOMAIN q : q[m] <= c
      /\ Falls(q) /\ Beaten(q, c - k, c)
      /\ q[1] >= c - k
      /\ \A j \in 0 .. c : j >= c - k => Gain(q[1]) >= Gain(j)
  <2>1. /\ Evicted(a, c) \in Seq(Nat) /\ Len(Evicted(a, c)) >= 1
        /\ \A m \in DOMAIN Evicted(a, c) : Evicted(a, c)[m] <= c
    BY <1>2, <1>4, <1>7, EvictedIs DEF k
  <2>2. \A j \in 0 .. c : Gain(j) \in Int
    BY <1>5
  <2>3. /\ Falls(Evicted(a, c)) /\ Beaten(Evicted(a, c), c - Copies(items[i]), c)
        /\ Evicted(a, c)[1] >= c - Copies(items[i])
        /\ \A j \in 0 .. c : j >= c - Copies(items[i]) => Gain(Evicted(a, c)[1]) >= Gain(j)
    BY <1>2, <1>4, <1>7, <1>8, <2>2, EvictedLeads DEF k
  <2> QED BY <2>1, <2>3 DEF k
<1> HIDE DEF q
<1> DEFINE h == Head(q)
<1>10. h = q[1] /\ h \in 0 .. c
  <2>1. 1 \in DOMAIN q /\ Head(q) = q[1] /\ q[1] \in Nat
    BY <1>9
  <2> QED BY <1>9, <2>1
<1> HIDE DEF h
<1>11. BestCell(items, prev, i, c, value, x) /\ value \in Int /\ x \in Nat
  <2>1. \A j \in 0 .. c : j >= c - k => GainIn(items, prev, i, h) >= GainIn(items, prev, i, j)
    BY <1>5, <1>9, <1>10
  <2>2. h \in 0 .. c /\ h >= c - k /\ c \in 0 .. Capacity
    BY <1>2, <1>9, <1>10
  <2>3. /\ GainIn(items, prev, i, h) + c * (Unit * items[i].rate) \in Int
        /\ BestCell(items, prev, i, c, GainIn(items, prev, i, h) + c * (Unit * items[i].rate), c - h)
    <3> DEFINE cap == Capacity
    <3>1. cap \in Nat /\ prev \in [0 .. cap -> Int] /\ c \in 0 .. cap
      BY <1>2, <1>3, <2>2
    <3> HIDE DEF cap
    <3> QED BY <1>1, <1>4, <2>1, <2>2, <3>1, HeadIsBest DEF k, v
  <2>4. value = GainIn(items, prev, i, h) + c * (Unit * items[i].rate) /\ x = c - h
    BY <1>4, <1>5, <1>10 DEF v, h
  <2>5. x \in Nat
    BY <1>2, <1>10, <2>4
  <2> QED BY <2>3, <2>4, <2>5
<1> HIDE DEF value, x
<1>12. /\ row \in Seq(Int) /\ Len(row) = c + 1 /\ row[c + 1] = value /\ \A m \in 1 .. c : row[m] = cur[m]
       /\ chosen \in Seq(Nat) /\ Len(chosen) = c + 1 /\ chosen[c + 1] = x /\ \A m \in 1 .. c : chosen[m] = choice[m]
  <2>1. /\ row \in Seq(Int) /\ Len(row) = Len(cur) + 1 /\ row[Len(cur) + 1] = value
        /\ \A m \in 1 .. Len(cur) : row[m] = cur[m]
    BY <1>3, <1>11, AppendIs
  <2>2. /\ chosen \in Seq(Nat) /\ Len(chosen) = Len(choice) + 1 /\ chosen[Len(choice) + 1] = x
        /\ \A m \in 1 .. Len(choice) : chosen[m] = choice[m]
    BY <1>2, <1>11, AppendIs
  <2> HIDE DEF row, chosen
  <2> QED BY <1>2, <1>3, <2>1, <2>2
<1> HIDE DEF row, chosen
<1>13. \A b \in 0 .. c : BestCell(items, prev, i, b, row[b + 1], chosen[b + 1])
  <2> TAKE b \in 0 .. c
  <2>1. b = c \/ (b \in 0 .. c - 1 /\ b + 1 \in 1 .. c)
    BY <1>2
  <2>2. CASE b = c
    BY <1>11, <1>12, <2>2
  <2>3. CASE b \in 0 .. c - 1 /\ b + 1 \in 1 .. c
    BY <1>3, <1>12, <2>3
  <2> QED BY <2>1, <2>2, <2>3
<1>14. CASE /\ c < Capacity
            /\ dq' = q /\ cur' = row /\ choice' = chosen /\ c' = c + 1
            /\ UNCHANGED <<phase, i, prev, take>>
  <2>1. items' = items /\ solver' = "dp" /\ Capacity' = Capacity
    BY <1>1, ProblemKept
  <2>2. c' - 1 = c /\ c' > 0 /\ ~(c' = 0)
    BY <1>2, <1>14
  <2>3. Leads(items, prev, i, q, c)
    <3>1. c \in Int
      BY <1>2
    <3> QED BY <1>9, <3>1, LeadsIs DEF k
  <2>4. /\ prev' \in [0 .. Capacity' -> Int] /\ ChoicesFit(items', take', Capacity')
        /\ RowBounds(items', prev', i' - 1, Capacity')
        /\ RowReached(items', take', prev', i' - 1, Capacity')
    BY <1>3, <1>14, <2>1
  <2>5. cur' \in Seq(Int) /\ Len(cur') = c'
    BY <1>12, <1>14
  <2>6. \A b \in 0 .. c' - 1 : BestCell(items', prev', i', b, cur'[b + 1], choice'[b + 1])
    BY <1>13, <1>14, <2>1, <2>2
  <2>7. ~items'[i'].rigid /\ Leads(items', prev', i', dq', c' - 1)
    BY <1>1, <1>14, <2>1, <2>2, <2>3
  <2>8. RowsAreBest'
    BY <1>1, <1>14, <2>2, <2>4, <2>5, <2>6, <2>7 DEF RowsAreBest
  <2>9. WalkIsBest' /\ DpIsBest' /\ RuleIsBest'
    BY <1>1, <1>14, <2>1 DEF WalkIsBest, DpIsBest, RuleIsBest
  <2> QED BY <2>8, <2>9 DEF BestInv
<1>15. CASE /\ ~(c < Capacity)
            /\ CloseRow([b \in Cells |-> row[b + 1]], [b \in Cells |-> chosen[b + 1]])
  <2> DEFINE full == [b \in Cells |-> chosen[b + 1]]
             rest == [b \in Cells |-> row[b + 1]]
  <2>1. c = Capacity /\ \A b \in 0 .. Capacity : b \in 0 .. c /\ b + 1 \in 1 .. c + 1
    BY <1>2, <1>15
  <2>2. rest \in [0 .. Capacity -> Int] /\ full \in [0 .. Capacity -> Nat]
    <3>1. \A b \in 0 .. Capacity : row[b + 1] \in Int /\ chosen[b + 1] \in Nat
      BY <1>12, <2>1
    <3> QED BY <1>2, <3>1
  <2>3. \A b \in 0 .. Capacity : BestCell(items, prev, i, b, rest[b], full[b])
    BY <1>2, <1>13, <2>1
  <2>4. CloseRow(rest, full)
    BY <1>15
  <2> HIDE DEF full, rest
  <2> QED BY <1>1, <2>2, <2>3, <2>4, CloseRowBest
<1> QED BY <1>1, <1>14, <1>15

\* A step of the walk back moves what the choice saves from the way to the allocation.
LEMMA WalkBackBest == AllocationInv /\ AllocationInv' /\ WalkIsBest /\ WalkBack => BestInv'
<1> SUFFICES ASSUME AllocationInv, AllocationInv', WalkIsBest, WalkBack PROVE BestInv'
  OBVIOUS
<1> DEFINE o == items[i]
           cells == take[i][c]
           v == IF o.rigid THEN o.amount ELSE Smaller(cells * Unit, o.amount)
           worth == CellWorth(items, i, cells)
           cap == Capacity
<1>1. /\ phase = "walk" /\ phase' = "walk" /\ i > 0 /\ UNCHANGED problemVars
      /\ take' = take
      /\ ProblemTyped /\ Allowed /\ Phases /\ WalkingBack /\ TableAllows /\ solver = "dp"
      /\ c' = c - cells /\ i' = i - 1
  BY DEF WalkBack, AllocationInv, DpInv, Phases
<1>2. allocation' = IF cells = 0 THEN allocation ELSE PaidTo(i, v)
  BY DEF WalkBack, PaidTo, Put
<1>3. /\ items' = items /\ solver' = "dp" /\ N' = N /\ Capacity' = cap
      /\ Booked(items) /\ N = Len(items) /\ N \in Nat
  BY <1>1, ProblemKept, ItemsBooked
<1>4. /\ cap \in Nat /\ c \in 0 .. cap /\ i \in 1 .. Len(items) /\ i <= Len(take)
      /\ take \in Seq([0 .. cap -> Nat])
      /\ i \in Obligations /\ allocation[i] = 0 /\ i \in DOMAIN take
  <2>1. /\ Capacity \in Int /\ Capacity >= 1 /\ c \in 0 .. Capacity /\ i \in 0 .. N /\ Len(take) = N
        /\ \A n \in Obligations : n <= i => allocation[n] = 0
    BY <1>1, CapacityIs DEF WalkingBack, Cells
  <2>2. i \in 1 .. N /\ i \in Obligations
    BY <1>1, <1>3, <2>1 DEF Obligations
  <2>3. take \in Seq([0 .. Capacity -> Nat])
    BY <1>1 DEF TableAllows, Cells
  <2>4. i \in DOMAIN take /\ i <= Len(take) /\ i \in 1 .. Len(items) /\ i <= i
    BY <1>3, <2>1, <2>2, <2>3
  <2> QED BY <2>1, <2>2, <2>3, <2>4
<1> HIDE DEF cap
<1>5. PICK r \in Routes(take, i, c, cap) :
         \A t \in CellPlans(items) : CellsTaken(t, N) <= cap =>
            CellsSave(items, t, N) <= Saved(items, allocation) + RouteSaves(items, take, r, i)
  BY <1>1 DEF WalkIsBest, cap
<1> DEFINE s == [n \in 0 .. i - 1 |-> r[n]]
<1>6. /\ s \in Routes(take, i - 1, c - cells, cap)
      /\ RouteSaves(items, take, r, i) = RouteSaves(items, take, s, i - 1) + worth
      /\ RouteSaves(items, take, s, i - 1) \in Int /\ worth \in Nat
  BY <1>3, <1>4, RouteShortens, ZenonT(30)
<1> HIDE DEF s
<1>7. ChoicesFit(items, take, cap)
  BY <1>1 DEF WalkIsBest, cap
<1>8. cells \in CellChoices(items, i) /\ cells \in Nat
  <2>1. cells \in CellChoices(items, i)
    BY <1>4, <1>7 DEF ChoicesFit
  <2>2. CellChoices(items, i) \in SUBSET Nat
    BY <1>3, <1>4 DEF Booked
  <2> QED BY <2>1, <2>2
<1>9. o.amount \in Nat /\ o.rate \in Nat /\ o.rigid \in BOOLEAN /\ Unit \in Nat \ {0}
  BY <1>1, <1>4, ItemsAre DEF Obligations
<1>10. Saved(items, allocation) \in Int /\ allocation \in [Obligations -> Nat]
  <2>1. allocation \in [Obligations -> Nat]
    BY <1>1 DEF Allowed
  <2> QED BY <1>1, <1>4, <2>1, SavedPut
<1> HIDE DEF cells
<1>11. Saved(items, allocation') = Saved(items, allocation) + worth
  <2>1. CASE cells = 0
    <3>1. worth = 0
      BY <1>9, <2>1 DEF CellWorth
    <3> QED BY <1>2, <1>10, <2>1, <3>1
  <2>2. CASE cells # 0
    <3>1. v \in Nat /\ o.rate * v = worth
      <4>1. CASE o.rigid
        <5>1. v = o.amount /\ worth = o.rate * o.amount
          BY <2>2, <4>1 DEF CellWorth
        <5> QED BY <1>9, <5>1
      <4>2. CASE ~o.rigid
        <5>1. cells \in 0 .. Copies(o) /\ Copies(o) = o.amount \div Unit
          BY <1>8, <4>2 DEF CellChoices, Copies
        <5> DEFINE u == Unit
                   am == o.amount
                   z == cells * u
        <5>2. am \in Nat /\ u \in Nat \ {0} /\ cells \in Nat /\ cells <= am \div u
          <6>1. am \div u \in Int
            BY <1>9
          <6> HIDE DEF u, am
          <6>2. cells <= Copies(o) /\ Copies(o) = am \div u /\ cells \in Nat
            <7>1. Copies(o) \in Int
              BY <5>1, <6>1 DEF u, am
            <7> QED BY <1>8, <5>1, <7>1 DEF u, am
          <6> QED BY <1>9, <6>2 DEF u, am
        <5> HIDE DEF u, am
        <5>3. z <= am /\ z \in Nat
          BY <5>2, Floor
        <5>4. v = Smaller(z, am)
          BY <4>2 DEF u, am
        <5> HIDE DEF z
        <5>5. v = z
          BY <5>2, <5>3, <5>4 DEF Smaller
        <5>6. worth = (Unit * o.rate) * cells
          BY <4>2 DEF CellWorth
        <5>7. o.rate * (cells * Unit) = (Unit * o.rate) * cells
          BY <1>8, <1>9
        <5> QED BY <5>3, <5>5, <5>6, <5>7 DEF z, u
      <4> QED BY <4>1, <4>2
    <3> HIDE DEF v, worth
    <3>2. allocation' = Put(allocation, i, v)
      BY <1>2, <2>2 DEF PaidTo
    <3>3. Saved(items, Put(allocation, i, v)) = Saved(items, allocation) - items[i].rate * allocation[i] + items[i].rate * v
      BY <1>1, <1>4, <1>10, <3>1, SavedPut
    <3>4. items[i].rate * allocation[i] = 0
      BY <1>4, <1>9, SMTT(30)
    <3> QED BY <1>6, <1>10, <3>1, <3>2, <3>3, <3>4
  <2> QED BY <2>1, <2>2
<1> HIDE DEF worth
<1>12. \A t \in CellPlans(items) : CellsTaken(t, N) <= cap =>
            CellsSave(items, t, N) <= Saved(items, allocation') + RouteSaves(items, take, s, i - 1)
  <2>1. Saved(items, allocation) + RouteSaves(items, take, r, i)
           = Saved(items, allocation') + RouteSaves(items, take, s, i - 1)
    BY <1>6, <1>10, <1>11
  <2> QED BY <1>5, <2>1
<1>13. /\ s \in Routes(take', i', c', Capacity')
       /\ \A t \in CellPlans(items') : CellsTaken(t, N') <= Capacity' =>
             CellsSave(items', t, N') <= Saved(items', allocation') + RouteSaves(items', take', s, i')
  BY <1>1, <1>3, <1>6, <1>12 DEF cells
<1>14. ChoicesFit(items', take', Capacity')
  BY <1>1, <1>3, <1>7
<1>15. WalkIsBest'
  BY <1>13, <1>14 DEF WalkIsBest
<1>16. RowsAreBest' /\ DpIsBest' /\ RuleIsBest'
  BY <1>1, <1>3 DEF RowsAreBest, DpIsBest, RuleIsBest
<1> QED BY <1>15, <1>16 DEF BestInv

\* At the end of the way everything it saves is in the allocation.
LEMMA PackageBest == AllocationInv /\ AllocationInv' /\ WalkIsBest /\ Package => BestInv'
<1> SUFFICES ASSUME AllocationInv, AllocationInv', WalkIsBest, Package PROVE BestInv'
  OBVIOUS
<1>1. /\ phase = "walk" /\ phase' = "done" /\ i = 0 /\ UNCHANGED problemVars
      /\ allocation' = allocation
      /\ ProblemTyped /\ Allowed /\ Phases /\ WalkingBack /\ solver = "dp"
  BY DEF Package, AllocationInv, DpInv, Phases
<1>2. /\ items' = items /\ solver' = "dp" /\ N' = N /\ Capacity' = Capacity
      /\ Capacity \in Int /\ Capacity >= 1
  BY <1>1, ProblemKept, CapacityIs DEF WalkingBack
<1>3. PICK r \in Routes(take, i, c, Capacity) :
         \A t \in CellPlans(items) : CellsTaken(t, N) <= Capacity =>
            CellsSave(items, t, N) <= Saved(items, allocation) + RouteSaves(items, take, r, i)
  BY <1>1 DEF WalkIsBest
<1>4. RouteSaves(items, take, r, i) = 0
  <2>1. 1 .. i = {}
    BY <1>1
  <2> QED BY <2>1, SumEmpty DEF RouteSaves
<1>5. Saved(items, allocation) \in Int
  <2> DEFINE g == [n \in 1 .. Len(items) |-> items[n].rate * allocation[n]]
  <2>1. IsFiniteSet(1 .. Len(items)) /\ \A n \in 1 .. Len(items) : items[n].rate \in Nat /\ allocation[n] \in Nat
    BY <1>1, ItemsAre DEF N, Allowed, Obligations
  <2>2. \A n \in 1 .. Len(items) : g[n] \in Int
    BY <2>1
  <2>3. DOMAIN g = 1 .. Len(items)
    OBVIOUS
  <2> HIDE DEF g
  <2>4. SumFunction(g) \in Int
    BY <2>1, <2>2, <2>3, SumType DEF SumFunction
  <2> QED BY <2>4 DEF Saved, g
<1>6. Saved(items, allocation) + RouteSaves(items, take, r, i) = Saved(items, allocation)
  BY <1>4, <1>5
<1>7. \A t \in CellPlans(items) : CellsTaken(t, N) <= Capacity =>
         CellsSave(items, t, N) <= Saved(items, allocation)
  BY <1>3, <1>6
<1>8. ~(Capacity <= 0)
  BY <1>2
<1>9. DpIsBest'
  BY <1>1, <1>2, <1>7, <1>8 DEF DpIsBest
<1>10. RowsAreBest' /\ WalkIsBest' /\ RuleIsBest'
  BY <1>1, <1>2 DEF RowsAreBest, WalkIsBest, RuleIsBest
<1> QED BY <1>9, <1>10 DEF BestInv

\* As many different places as there are obligations leave none of them out.
LEMMA RankingIsFull ==
    ASSUME NEW n \in Nat, NEW p \in [1 .. n -> 1 .. n], \A l, m \in 1 .. n : l # m => p[l] # p[m]
    PROVE  \A k \in 1 .. n : \E m \in 1 .. n : p[m] = k
<1> DEFINE S == 1 .. n
<1>1. IsFiniteSet(S)
  BY FS_Interval
<1> HIDE DEF S
<1>2. p \in Injection(S, S)
  BY DEF Injection, S, IsInjective
<1>3. p \in Surjection(S, S)
  BY <1>1, <1>2, FS_Injection
<1> QED BY <1>3 DEF Surjection, S

\* Ranked by rate, nobody is paid before one who charges more.
LEMMA RankBest == AllocationInv /\ AllocationInv' /\ Rank => BestInv'
<1> SUFFICES ASSUME AllocationInv, AllocationInv', Rank PROVE BestInv'
  OBVIOUS
<1>1. /\ ProblemTyped /\ Phases /\ solver = "rule" /\ phase = "start" /\ phase' = "pay"
      /\ UNCHANGED problemVars /\ remaining' = remaining /\ allocation' = allocation
  BY DEF AllocationInv, Rank
<1>2. items' = items /\ solver' = "rule" /\ N' = N /\ N \in Nat /\ N = Len(items) /\ allocation = Unpaid
  BY <1>1, ProblemKept, ItemsBooked DEF Phases
<1>3. /\ order' \in [1 .. N -> 1 .. N]
      /\ \A l, m \in 1 .. N : l # m => order'[l] # order'[m]
      /\ \A l, m \in 1 .. N : l < m => items[order'[l]].rate >= items[order'[m]].rate
  BY DEF Rank, Rankings, Prioritized
<1>4. DOMAIN order' = 1 .. N /\ \A n \in 1 .. N : \E m \in 1 .. N : order'[m] = n
  <2> DEFINE p == order'
             L == N
  <2>1. L \in Nat /\ p \in [1 .. L -> 1 .. L] /\ \A l, m \in 1 .. L : l # m => p[l] # p[m]
    BY <1>2, <1>3
  <2> HIDE DEF p, L
  <2>2. \A n \in 1 .. L : \E m \in 1 .. L : p[m] = n
    BY <2>1, RankingIsFull
  <2>3. DOMAIN p = 1 .. L
    BY <2>1
  <2> QED BY <2>2, <2>3 DEF p, L
<1>5. \A n \in 1 .. N : items[n].rate \in Nat /\ allocation[n] = 0
  BY <1>1, <1>2, ItemsAre, NothingPaid DEF Obligations
<1>6. \E lambda \in Nat : Divides(items, allocation, lambda)
  <2>1. CASE N = 0
    <3>1. 1 .. Len(items) = {}
      BY <1>2, <2>1
    <3> QED BY <3>1 DEF Divides
  <2>2. CASE N # 0
    <3>1. 1 \in 1 .. N /\ order'[1] \in 1 .. N
      BY <1>2, <1>3, <2>2
    <3> DEFINE lambda == items[order'[1]].rate
    <3>2. lambda \in Nat
      BY <1>5, <3>1
    <3>3. ASSUME NEW n \in 1 .. N PROVE items[n].rate <= lambda /\ allocation[n] = 0 /\ items[n].rate \in Nat
      <4>1. PICK m \in 1 .. N : order'[m] = n
        BY <1>4
      <4>2. CASE m = 1
        BY <1>5, <4>1, <4>2
      <4>3. CASE m # 1
        <5>1. 1 < m
          BY <4>3
        <5> QED BY <1>3, <1>5, <3>1, <3>2, <4>1, <5>1
      <4> QED BY <4>2, <4>3
    <3> HIDE DEF lambda
    <3>4. Divides(items, allocation, lambda)
      <4>1. \A n \in 1 .. N : ~(items[n].rate > lambda)
        BY <3>2, <3>3
      <4> QED BY <1>2, <3>3, <4>1 DEF Divides
    <3> QED BY <3>2, <3>4
  <2> QED BY <2>1, <2>2
<1>7. RuleIsBest'
  <2>1. \A l, m \in DOMAIN order' : l < m => items'[order'[l]].rate >= items'[order'[m]].rate
    BY <1>2, <1>3, <1>4
  <2>2. \A n \in 1 .. N' : \E m \in DOMAIN order' : order'[m] = n
    BY <1>2, <1>4
  <2>3. \E lambda \in Nat : Divides(items', allocation', lambda)
    BY <1>1, <1>2, <1>6
  <2> QED BY <1>1, <2>1, <2>2, <2>3 DEF RuleIsBest
<1>8. RowsAreBest' /\ WalkIsBest' /\ DpIsBest'
  BY <1>1, <1>2 DEF RowsAreBest, WalkIsBest, DpIsBest
<1> QED BY <1>7, <1>8 DEF BestInv

\* Paying the most punitive that is left leaves the division by rate.
LEMMA PayNextBest == AllocationInv /\ AllocationInv' /\ RuleIsBest /\ PayNext => BestInv'
<1> SUFFICES ASSUME AllocationInv, AllocationInv', RuleIsBest, PayNext PROVE BestInv'
  OBVIOUS
<1> DEFINE n == Head(order)
           v == Smaller(items[n].amount, remaining)
<1>1. /\ ProblemTyped /\ Phases /\ Allowed /\ RuleInv /\ solver = "rule" /\ phase = "pay" /\ phase' = "pay"
      /\ UNCHANGED problemVars /\ order # <<>> /\ remaining > 0 /\ order' = Tail(order)
  BY DEF AllocationInv, PayNext, Phases
<1>2. items' = items /\ solver' = "rule" /\ N' = N /\ N \in Nat /\ N = Len(items)
  BY <1>1, ProblemKept, ItemsBooked
<1>3. /\ order \in Seq(1 .. N) /\ remaining \in Int
      /\ \A m \in DOMAIN order : allocation[order[m]] = 0
      /\ \A l, m \in DOMAIN order : l # m => order[l] # order[m]
  <2>1. Spend(allocation) \in Nat /\ cash \in Int
    BY <1>1, SpendIsNat DEF Allowed, Obligations, ProblemTyped
  <2> QED BY <1>1, <2>1 DEF RuleInv, Obligations
<1>4. /\ n = order[1] /\ 1 \in DOMAIN order /\ n \in 1 .. N
      /\ \A m \in DOMAIN order : m \in Nat /\ m >= 1 /\ order[m] \in 1 .. N
  <2> DEFINE s == order
             S == 1 .. N
  <2>1. s \in Seq(S) /\ s # <<>>
    BY <1>1, <1>3
  <2> HIDE DEF s, S
  <2>2. /\ Head(s) = s[1] /\ 1 \in DOMAIN s /\ s[1] \in S
        /\ \A m \in DOMAIN s : m \in Nat /\ m >= 1 /\ s[m] \in S
    BY <2>1
  <2> QED BY <2>2 DEF s, S
<1>5. /\ \A m \in DOMAIN order' : m + 1 \in DOMAIN order /\ order'[m] = order[m + 1] /\ m \in Int /\ 1 < m + 1
      /\ \A m \in DOMAIN order : m # 1 => m - 1 \in DOMAIN order' /\ order'[m - 1] = order[m]
  <2> DEFINE s == order
             S == 1 .. N
  <2>1. s \in Seq(S) /\ s # <<>>
    BY <1>1, <1>3
  <2> HIDE DEF s, S
  <2>2. Len(s) \in Nat /\ DOMAIN s = 1 .. Len(s) /\ Len(s) >= 1
    BY <2>1
  <2>3. /\ Tail(s) \in Seq(S) /\ Len(Tail(s)) = Len(s) - 1
        /\ \A m \in 1 .. Len(s) - 1 : Tail(s)[m] = s[m + 1]
    BY <2>1
  <2>4. DOMAIN Tail(s) = 1 .. Len(s) - 1
    BY <2>3
  <2>5. \A m \in 1 .. Len(s) : m # 1 => m - 1 \in 1 .. Len(s) - 1 /\ (m - 1) + 1 = m
    BY <2>2
  <2>6. \A m \in 1 .. Len(s) - 1 : m + 1 \in 1 .. Len(s) /\ m \in Int /\ 1 < m + 1
    BY <2>2
  <2>7. \A m \in DOMAIN Tail(s) : m + 1 \in DOMAIN s /\ Tail(s)[m] = s[m + 1] /\ m \in Int /\ 1 < m + 1
    BY <2>2, <2>3, <2>4, <2>6
  <2>8. \A m \in DOMAIN s : m # 1 => m - 1 \in DOMAIN Tail(s) /\ Tail(s)[m - 1] = s[m]
    BY <2>2, <2>3, <2>4, <2>5
  <2> QED BY <1>1, <2>7, <2>8 DEF s
<1>6. \A m \in 1 .. N : items[m].rate \in Nat /\ items[m].amount \in Nat
  BY <1>1, ItemsAre
<1>7. RowsAreBest' /\ WalkIsBest' /\ DpIsBest'
  BY <1>1, <1>2 DEF RowsAreBest, WalkIsBest, DpIsBest
<1>8. SUFFICES ASSUME \A m \in 1 .. N : ~items[m].rigid PROVE RuleIsBest'
  <2>1. CASE ~(\A m \in 1 .. N : ~items[m].rigid)
    <3>1. RuleIsBest'
      BY <1>2, <2>1 DEF RuleIsBest
    <3> QED BY <1>7, <3>1 DEF BestInv
  <2>2. CASE \A m \in 1 .. N : ~items[m].rigid
    BY <1>7, <1>8, <2>2 DEF BestInv
  <2> QED BY <2>1, <2>2
<1>9. /\ \A l, m \in DOMAIN order : l < m => items[order[l]].rate >= items[order[m]].rate
      /\ \A k \in 1 .. N : \/ \E m \in DOMAIN order : order[m] = k
                           \/ /\ allocation[k] = items[k].amount
                              /\ \A m \in DOMAIN order : items[order[m]].rate <= items[k].rate
  BY <1>1, <1>8 DEF RuleIsBest
<1>10. Pay(n, v)
  BY <1>4, <1>8 DEF PayNext
<1>11. v \in Nat /\ v <= items[n].amount /\ v <= remaining /\ (v = items[n].amount \/ v = remaining)
  <2> DEFINE a == items[n].amount
  <2>1. a \in Nat
    BY <1>4, <1>6
  <2> HIDE DEF a
  <2>2. v = Smaller(a, remaining)
    BY DEF a
  <2> QED BY <1>1, <1>3, <2>1, <2>2 DEF Smaller, a
<1> HIDE DEF v
<1>12. /\ remaining' = remaining - v
       /\ \A m \in 1 .. N : allocation'[m] = IF m = n THEN v ELSE allocation[m]
  <2>1. allocation \in [1 .. N -> Nat] /\ allocation' = [allocation EXCEPT ![n] = v] /\ remaining' = remaining - v
    BY <1>1, <1>10 DEF Pay, Allowed, Obligations
  <2> HIDE DEF n
  <2> QED BY <1>4, <2>1
<1> HIDE DEF n
<1>13. \A l, m \in DOMAIN order' : l < m => items[order'[l]].rate >= items[order'[m]].rate
  <2> TAKE l, m \in DOMAIN order'
  <2>1. l < m => l + 1 < m + 1
    BY <1>5
  <2>2. l + 1 \in DOMAIN order /\ m + 1 \in DOMAIN order /\ order'[l] = order[l + 1] /\ order'[m] = order[m + 1]
    BY <1>5
  <2> QED BY <1>9, <2>1, <2>2
<1>14. \A m \in DOMAIN order' : items[order'[m]].rate <= items[n].rate
  <2> TAKE m \in DOMAIN order'
  <2>1. m + 1 \in DOMAIN order /\ order'[m] = order[m + 1] /\ 1 < m + 1
    BY <1>5
  <2>2. items[order[1]].rate >= items[order[m + 1]].rate
    BY <1>4, <1>9, <2>1
  <2>3. items[n].rate \in Nat /\ items[order[m + 1]].rate \in Nat
    BY <1>4, <1>6, <2>1
  <2> QED BY <1>4, <2>1, <2>2, <2>3
<1>15. ASSUME remaining' > 0, NEW k \in 1 .. N
       PROVE  \/ \E m \in DOMAIN order' : order'[m] = k
              \/ /\ allocation'[k] = items[k].amount
                 /\ \A m \in DOMAIN order' : items[order'[m]].rate <= items[k].rate
  <2>1. CASE k = n
    <3>1. v = items[n].amount
      BY <1>3, <1>11, <1>12, <1>15
    <3> QED BY <1>12, <1>14, <2>1, <3>1
  <2>2. CASE k # n
    <3>1. CASE \E m \in DOMAIN order : order[m] = k
      <4>1. PICK m \in DOMAIN order : order[m] = k
        BY <3>1
      <4>2. m # 1
        BY <1>4, <2>2, <4>1
      <4> QED BY <1>5, <4>1, <4>2
    <3>2. CASE /\ allocation[k] = items[k].amount
               /\ \A m \in DOMAIN order : items[order[m]].rate <= items[k].rate
      BY <1>5, <1>12, <2>2, <3>2
    <3> QED BY <1>9, <3>1, <3>2
  <2> QED BY <2>1, <2>2
<1>16. ASSUME remaining' <= 0 PROVE \E lambda \in Nat : Divides(items, allocation', lambda)
  <2> DEFINE lambda == items[n].rate
  <2>1. lambda \in Nat
    BY <1>4, <1>6
  <2>2. ASSUME NEW k \in 1 .. N
        PROVE  /\ items[k].rate > lambda => allocation'[k] = items[k].amount
               /\ items[k].rate < lambda => allocation'[k] = 0
    <3>0. items[k].rate \in Nat
      BY <1>6
    <3>1. CASE k = n
      BY <3>0, <3>1
    <3>2. CASE k # n
      <4>0. allocation'[k] = allocation[k]
        BY <1>12, <3>2
      <4>1. CASE \E m \in DOMAIN order : order[m] = k
        <5>1. PICK m \in DOMAIN order : order[m] = k
          BY <4>1
        <5>2. m # 1 /\ 1 < m
          BY <1>4, <3>2, <5>1
        <5>3. items[order[1]].rate >= items[order[m]].rate
          BY <1>4, <1>9, <5>2
        <5>4. lambda >= items[k].rate /\ allocation[k] = 0
          BY <1>3, <1>4, <5>1, <5>3
        <5> QED BY <2>1, <3>0, <4>0, <5>4
      <4>2. CASE /\ allocation[k] = items[k].amount
                 /\ \A m \in DOMAIN order : items[order[m]].rate <= items[k].rate
        <5>1. lambda <= items[k].rate
          BY <1>4, <4>2
        <5> QED BY <2>1, <3>0, <4>0, <4>2, <5>1
      <4> QED BY <1>9, <4>1, <4>2
    <3> QED BY <3>1, <3>2
  <2> HIDE DEF lambda
  <2>3. Divides(items, allocation', lambda)
    BY <1>2, <2>2 DEF Divides
  <2> QED BY <2>1, <2>3
<1>17. /\ \A l, m \in DOMAIN order' : l < m => items'[order'[l]].rate >= items'[order'[m]].rate
       /\ remaining' > 0 =>
             \A k \in 1 .. N' : \/ \E m \in DOMAIN order' : order'[m] = k
                                \/ /\ allocation'[k] = items'[k].amount
                                   /\ \A m \in DOMAIN order' : items'[order'[m]].rate <= items'[k].rate
       /\ remaining' <= 0 => \E lambda \in Nat : Divides(items', allocation', lambda)
  BY <1>2, <1>13, <1>15, <1>16
<1> QED BY <1>1, <1>17 DEF RuleIsBest

\* When the rule stops, the cash is spent or everybody is paid.
LEMMA StopPayingBest == AllocationInv /\ AllocationInv' /\ RuleIsBest /\ StopPaying => BestInv'
<1> SUFFICES ASSUME AllocationInv, AllocationInv', RuleIsBest, StopPaying PROVE BestInv'
  OBVIOUS
<1>1. /\ ProblemTyped /\ Phases /\ Allowed /\ RuleInv /\ solver = "rule" /\ phase = "pay" /\ phase' = "done"
      /\ UNCHANGED problemVars /\ remaining' = remaining /\ allocation' = allocation
      /\ order = <<>> \/ remaining <= 0
  BY DEF AllocationInv, StopPaying, Phases
<1>2. items' = items /\ solver' = "rule" /\ N' = N /\ N \in Nat /\ N = Len(items) /\ cash' = cash
  BY <1>1, ProblemKept, ItemsBooked
<1>3. RowsAreBest' /\ WalkIsBest' /\ DpIsBest'
  BY <1>1, <1>2 DEF RowsAreBest, WalkIsBest, DpIsBest
<1>4. remaining \in Int /\ Spend(allocation) \in Nat /\ cash \in Int /\ remaining = cash - Spend(allocation)
  <2>1. Spend(allocation) \in Nat /\ cash \in Int
    BY <1>1, SpendIsNat DEF Allowed, Obligations, ProblemTyped
  <2> QED BY <1>1, <2>1 DEF RuleInv
<1>5. ASSUME \A n \in 1 .. N : ~items[n].rigid
      PROVE  \E lambda \in Nat : Divides(items, allocation, lambda) /\ (lambda = 0 \/ Spend(allocation) >= cash)
  <2>1. CASE remaining <= 0
    <3>1. \E lambda \in Nat : Divides(items, allocation, lambda)
      BY <1>1, <1>5, <2>1 DEF RuleIsBest
    <3>2. Spend(allocation) >= cash
      BY <1>4, <2>1
    <3> QED BY <3>1, <3>2
  <2>2. CASE remaining > 0
    <3>1. order = <<>>
      BY <1>1, <1>4, <2>2
    <3>2. \A n \in 1 .. N : allocation[n] = items[n].amount
      BY <1>1, <1>5, <2>2, <3>1 DEF RuleIsBest
    <3>3. \A n \in 1 .. N : ~(items[n].rate < 0)
      <4>1. \A n \in 1 .. N : items[n].rate \in Nat
        BY <1>1, ItemsAre
      <4> QED BY <4>1
    <3>4. Divides(items, allocation, 0)
      BY <1>2, <3>2, <3>3 DEF Divides
    <3> QED BY <3>4
  <2> QED BY <1>4, <2>1, <2>2
<1>6. Spend(allocation)' = Spend(allocation)
  BY <1>1 DEF Spend
<1>7. RuleIsBest'
  <2>1. (\A n \in 1 .. N' : ~items'[n].rigid) =>
           \E lambda \in Nat : Divides(items', allocation', lambda) /\ (lambda = 0 \/ Spend(allocation') >= cash')
    BY <1>1, <1>2, <1>5
  <2> QED BY <1>1, <2>1 DEF RuleIsBest
<1> QED BY <1>3, <1>7 DEF BestInv

\* The exact solvers are not concerned.
LEMMA SolverBest ==
    AllocationInv /\ AllocationInv' /\ (SolveExactly \/ SolveWithinSafeSpend) => BestInv'
<1> SUFFICES ASSUME AllocationInv, SolveExactly \/ SolveWithinSafeSpend PROVE BestInv'
  OBVIOUS
<1>1. solver' \in {"lp", "saa"} /\ phase' = "done"
  BY DEF SolveExactly, SolveWithinSafeSpend, problemVars
<1> QED BY <1>1 DEF BestInv, RowsAreBest, WalkIsBest, DpIsBest, RuleIsBest

\* Doing nothing changes nothing.
LEMMA BestStays == AllocationInv /\ BestInv /\ UNCHANGED allVars => BestInv'
<1> SUFFICES ASSUME AllocationInv, BestInv, UNCHANGED allVars PROVE BestInv'
  OBVIOUS
<1>1. /\ ProblemTyped /\ UNCHANGED problemVars /\ phase' = phase /\ order' = order /\ remaining' = remaining
      /\ i' = i /\ c' = c /\ prev' = prev /\ cur' = cur /\ take' = take /\ choice' = choice /\ dq' = dq
      /\ allocation' = allocation
  BY DEF AllocationInv, allVars, dpVars
<1>2. /\ items' = items /\ solver' = solver /\ cash' = cash /\ N' = N /\ Capacity' = Capacity
      /\ Unpaid' = Unpaid
  BY <1>1, ProblemKept
<1>3. RowsAreBest'
  BY <1>1, <1>2 DEF BestInv, RowsAreBest
<1>4. WalkIsBest'
  BY <1>1, <1>2 DEF BestInv, WalkIsBest
<1>5. DpIsBest'
  BY <1>1, <1>2 DEF BestInv, DpIsBest
<1>6. Spend(allocation)' = Spend(allocation)
  BY <1>1 DEF Spend
<1>7. RuleIsBest'
  BY <1>1, <1>2, <1>6 DEF BestInv, RuleIsBest
<1> QED BY <1>3, <1>4, <1>5, <1>7 DEF BestInv

\* The rows of the choice table, the way back through it and the division by rate stay
\* the best there is.
THEOREM AlwaysBest == AllocationSpec => []BestInv
<1>1. AllocationInit => BestInv
  BY DEF AllocationInit, NoRow, BestInv, RowsAreBest, WalkIsBest, DpIsBest, RuleIsBest
<1>2. AllocationInv /\ AllocationInv' /\ BestInv /\ [AllocationNext]_allVars => BestInv'
  <2> SUFFICES ASSUME AllocationInv, AllocationInv', BestInv, [AllocationNext]_allVars PROVE BestInv'
    OBVIOUS
  <2>0. RowsAreBest /\ WalkIsBest /\ RuleIsBest
    BY DEF BestInv
  <2>1. CASE Rank
    BY <2>1, RankBest
  <2>2. CASE PayNext
    BY <2>0, <2>2, PayNextBest
  <2>3. CASE StopPaying
    BY <2>0, <2>3, StopPayingBest
  <2>4. CASE StartTable
    BY <2>0, <2>4, StartTableBest
  <2>5. CASE RigidRow
    BY <2>0, <2>5, RigidRowBest
  <2>6. CASE CopiedRow
    BY <2>0, <2>6, CopiedRowBest
  <2>7. CASE Slide
    BY <2>0, <2>7, SlideBest
  <2>8. CASE WalkBack
    BY <2>0, <2>8, WalkBackBest
  <2>9. CASE Package
    BY <2>0, <2>9, PackageBest
  <2>10. CASE SolveExactly \/ SolveWithinSafeSpend
    BY <2>10, SolverBest
  <2>11. CASE Finished \/ UNCHANGED allVars
    BY <2>11, BestStays DEF Finished
  <2> QED BY <2>1, <2>2, <2>3, <2>4, <2>5, <2>6, <2>7, <2>8, <2>9, <2>10, <2>11 DEF AllocationNext
<1> QED BY <1>1, <1>2, AllocationMade, PTL DEF AllocationSpec

-----------------------------------------------------------------------------
(* What a plan leaves unpaid, and what it saves.                           *)

\* What missing everything would cost
Full == [n \in Obligations |-> items[n].rate * items[n].amount]

\* A penalty is what everything unpaid would cost less what is saved of it.
LEMMA PenaltyIsTheRest ==
    ASSUME ProblemTyped, NEW x \in [Obligations -> Nat], \A n \in Obligations : x[n] <= items[n].amount
    PROVE  /\ Penalty(x) = SumFunctionOnSet(Full, Obligations) - Saved(items, x)
           /\ SumFunctionOnSet(Full, Obligations) \in Int /\ Saved(items, x) \in Int /\ Penalty(x) \in Nat
<1> DEFINE S == Obligations
           g == [n \in S |-> items[n].rate * x[n]]
           h == PenaltyOf(x)
<1>1. S = 1 .. N /\ S = 1 .. Len(items) /\ IsFiniteSet(S)
  BY ItemsAre DEF N, Obligations
<1>2. Penalty(x) = SumFunction(h) /\ Penalty(x) \in Nat /\ h \in [S -> Nat]
  BY <1>1, PenaltyIsNat
<1>3. ASSUME NEW n \in S
      PROVE  Full[n] \in Int /\ g[n] \in Int /\ h[n] \in Int /\ h[n] = Full[n] - g[n]
  <2> DEFINE r == items[n].rate
             a == items[n].amount
             y == x[n]
  <2>1. r \in Nat /\ a \in Nat /\ y \in Nat /\ y <= a
    BY <1>1, ItemsAre
  <2>2. Full[n] = r * a /\ g[n] = r * y /\ h[n] = IF y < a THEN r * (a - y) ELSE 0
    BY <1>1 DEF Full, PenaltyOf
  <2> HIDE DEF r, a, y, g, h
  <2>3. r * a \in Int /\ r * y \in Int /\ r * (a - y) = r * a - r * y
    BY <2>1
  <2>4. CASE y < a
    BY <2>2, <2>3, <2>4
  <2>5. CASE y = a
    <3>1. h[n] = 0 /\ g[n] = Full[n]
      BY <2>1, <2>2, <2>5
    <3> QED BY <2>2, <2>3, <3>1
  <2> QED BY <2>1, <2>4, <2>5
<1>4. DOMAIN g = S /\ DOMAIN h = S
  BY <1>2
<1>5. Saved(items, x) = SumFunction(g)
  BY <1>1 DEF Saved
<1> HIDE DEF g, h, S
<1>6. /\ SumFunctionOnSet(h, S) = SumFunctionOnSet(Full, S) - SumFunctionOnSet(g, S)
      /\ SumFunctionOnSet(Full, S) \in Int /\ SumFunctionOnSet(g, S) \in Int
  <2>1. IsFiniteSet(S)
    BY <1>1
  <2> QED BY <1>3, <2>1, SumDifference, ZenonT(30)
<1> QED BY <1>2, <1>4, <1>5, <1>6 DEF SumFunction, S

\* What a plan of cells pays is what may be paid, and saves what the cells do.
LEMMA PaidIs ==
    ASSUME ProblemTyped, NEW t \in CellPlans(items)
    PROVE  /\ Paid(t) \in [Obligations -> Nat]
           /\ \A n \in Obligations : Paid(t)[n] <= items[n].amount
           /\ Saved(items, Paid(t)) = CellsSave(items, t, N)
<1> DEFINE S == Obligations
           x == Paid(t)
           F == [n \in 1 .. Len(items) |-> CellWorth(items, n, t[n])]
           g == [n \in 1 .. Len(items) |-> items[n].rate * x[n]]
<1>1. S = 1 .. N /\ N = Len(items) /\ IsFiniteSet(S) /\ Booked(items)
  BY ItemsAre, ItemsBooked DEF Obligations
<1>2. \A n \in S : t[n] \in Nat /\ t[n] \in CellChoices(items, n)
  BY <1>1 DEF CellPlans
<1>3. ASSUME NEW n \in S
      PROVE  /\ x[n] \in Nat /\ x[n] <= items[n].amount
             /\ items[n].rate * x[n] = CellWorth(items, n, t[n])
  <2> DEFINE o == items[n]
             a == o.amount
             u == Unit
             k == t[n]
  <2>1. a \in Nat /\ o.rate \in Nat /\ o.rigid \in BOOLEAN /\ u \in Nat \ {0} /\ k \in Nat
    BY <1>1, <1>2, ItemsAre
  <2>2. x[n] = IF ~o.rigid THEN u * k ELSE IF k = 0 THEN 0 ELSE a
    BY <1>1 DEF Paid
  <2>3. CellWorth(items, n, k) = IF ~o.rigid THEN (u * o.rate) * k ELSE IF k = 0 THEN 0 ELSE o.rate * a
    BY DEF CellWorth
  <2>4. CASE o.rigid
    <3>1. x[n] \in Nat /\ x[n] <= a
      BY <2>1, <2>2, <2>4
    <3>2. CASE k = 0
      BY <2>1, <2>2, <2>3, <2>4, <3>2
    <3>3. CASE k # 0
      <4>1. x[n] = a /\ CellWorth(items, n, k) = o.rate * a
        BY <2>2, <2>3, <2>4, <3>3
      <4> HIDE DEF x
      <4> QED BY <3>1, <4>1
    <3> QED BY <3>1, <3>2, <3>3
  <2>5. CASE ~o.rigid
    <3>1. k \in 0 .. (a \div u)
      BY <1>2, <2>5 DEF CellChoices, Copies
    <3> HIDE DEF a, u, k
    <3>2. k <= a \div u
      <4>1. a \div u \in Int
        BY <2>1
      <4> QED BY <3>1, <4>1
    <3>3. k * u <= a
      BY <2>1, <3>2, Floor
    <3>4. u * k = k * u /\ u * k \in Nat /\ o.rate * (u * k) = (u * o.rate) * k
      BY <2>1
    <3> HIDE DEF o
    <3>5. x[n] = u * k /\ CellWorth(items, n, k) = (u * o.rate) * k
      BY <2>2, <2>3, <2>5
    <3> QED BY <3>3, <3>4, <3>5 DEF a, k, o
  <2> QED BY <2>1, <2>4, <2>5
<1>4. x \in [S -> Nat]
  <2>1. DOMAIN x = S /\ x = [n \in S |-> x[n]]
    BY <1>1 DEF Paid
  <2> HIDE DEF x
  <2> QED BY <1>3, <2>1
<1>5. \A n \in S : g[n] = F[n] /\ g[n] \in Int
  <2> TAKE n \in S
  <2>1. n \in 1 .. Len(items) /\ t[n] \in Nat
    BY <1>1, <1>2
  <2>2. CellWorth(items, n, t[n]) \in Nat
    BY <1>1, <2>1, CellWorthIsNat
  <2>3. g[n] = items[n].rate * x[n] /\ F[n] = CellWorth(items, n, t[n])
    BY <2>1
  <2> QED BY <1>3, <2>2, <2>3
<1>6. Saved(items, x) = SumFunctionOnSet(g, S)
  <2>1. DOMAIN g = S
    BY <1>1
  <2> QED BY <2>1 DEF Saved, SumFunction
<1>7. CellsSave(items, t, N) = SumFunctionOnSet(F, S)
  BY <1>1 DEF CellsSave
<1> HIDE DEF F, g
<1>8. SumFunctionOnSet(g, S) = SumFunctionOnSet(F, S)
  <2> HIDE DEF S
  <2> QED BY <1>1, <1>5, SumSame
<1> QED BY <1>3, <1>4, <1>6, <1>7, <1>8

\* What the DP hands out is no dearer than any plan of cells that its capacity holds.
LEMMA CellsAreBest ==
    ASSUME AllocationInv, BestInv, Solved("dp"),
           NEW t \in CellPlans(items), CellsTaken(t, N) <= Capacity
    PROVE  Penalty(allocation) <= Penalty(Paid(t))
<1> DEFINE S == Obligations
           A == Penalty(allocation)
           P == Penalty(Paid(t))
<1>1. /\ ProblemTyped /\ allocation \in [S -> Nat] /\ \A n \in S : allocation[n] <= items[n].amount
      /\ Capacity \in Int /\ S = 1 .. N /\ N = Len(items)
  BY CapacityIs DEF AllocationInv, Allowed, Obligations, N
<1>2. CASE Capacity > 0
  <2> DEFINE full == SumFunctionOnSet(Full, S)
             mine == Saved(items, allocation)
             its == Saved(items, Paid(t))
  <2>1. its <= mine
    BY <1>2, <1>1, PaidIs DEF BestInv, DpIsBest, Solved
  <2>2. A = full - mine /\ full \in Int /\ mine \in Int
    BY <1>1, PenaltyIsTheRest
  <2>3. P = full - its /\ its \in Int
    BY <1>1, PaidIs, PenaltyIsTheRest
  <2> HIDE DEF full, mine, its, A, P
  <2>4. A <= P
    BY <2>1, <2>2, <2>3
  <2> QED BY <2>4 DEF A, P
<1>3. CASE Capacity <= 0
  <2>1. \A n \in S : t[n] \in Nat
    BY <1>1 DEF CellPlans
  <2>2. IsFiniteSet(S)
    BY <1>1, ItemsAre
  <2>3. ASSUME NEW n \in S PROVE t[n] = 0
    <3> DEFINE rest == SumFunctionOnSet(t, S \ {n})
    <3>1. SumFunctionOnSet(t, S) = t[n] + rest
      <4>1. \A m \in S : t[m] \in Int
        BY <2>1
      <4> HIDE DEF S
      <4> QED BY <2>2, <4>1, SumRemove
    <3>2. rest \in Nat
      <4>1. IsFiniteSet(S \ {n}) /\ \A m \in S \ {n} : t[m] \in Nat
        BY <2>1, <2>2, FS_Subset
      <4> HIDE DEF S
      <4> QED BY <4>1, SumType
    <3>3. SumFunctionOnSet(t, S) <= 0
      <4>1. SumFunctionOnSet(t, S) \in Int
        BY <3>1, <3>2, <2>1
      <4>2. SumFunctionOnSet(t, S) <= Capacity
        BY <1>1 DEF CellsTaken
      <4> QED BY <1>1, <1>3, <4>1, <4>2
    <3> HIDE DEF rest
    <3> QED BY <2>1, <3>1, <3>2, <3>3
  <2>4. Paid(t) = Unpaid
    <3>1. \A n \in 1 .. N : Unit * t[n] = 0 /\ t[n] = 0
      BY <1>1, <2>3, ItemsAre
    <3> QED BY <3>1 DEF Paid, Unpaid
  <2>5. allocation = Unpaid
    BY <1>3 DEF BestInv, DpIsBest, Solved
  <2>6. A = P /\ A \in Nat
    BY <1>1, <2>4, <2>5, PenaltyIsTheRest
  <2> QED BY <2>6
<1> QED BY <1>1, <1>2, <1>3

\* The grid of the requirement is among the plans of cells.
LEMMA GridIsSolved == AllocationInv /\ BestInv => OptimalOnTheGrid
<1> SUFFICES ASSUME AllocationInv, BestInv, Solved("dp"), Capacity > 0, NEW t \in GridChoices
             PROVE  Penalty(allocation) <= Penalty(Paid(t))
  BY DEF OptimalOnTheGrid
<1>1. ProblemTyped /\ Capacity \in Int /\ N = Len(items)
  BY CapacityIs DEF AllocationInv, N
<1>2. /\ t \in [1 .. N -> 0 .. Capacity] /\ SumFunction(t) <= Capacity
      /\ \A n \in 1 .. N : IF items[n].rigid THEN t[n] \in {0, Weight(items[n])}
                                             ELSE t[n] <= Copies(items[n])
  BY DEF GridChoices
<1>3. ASSUME NEW n \in 1 .. N PROVE t[n] \in Nat /\ t[n] \in CellChoices(items, n)
  <2>1. t[n] \in Nat
    BY <1>1, <1>2
  <2>2. Copies(items[n]) \in Nat
    BY <1>1, WeightIs DEF Obligations
  <2> QED BY <1>2, <2>1, <2>2 DEF CellChoices
<1>4. t \in CellPlans(items)
  <2>1. t \in [1 .. N -> Nat]
    BY <1>2, <1>3
  <2> QED BY <1>1, <1>3, <2>1 DEF CellPlans
<1>5. CellsTaken(t, N) <= Capacity
  <2>1. DOMAIN t = 1 .. N
    BY <1>2
  <2> QED BY <1>2, <2>1 DEF CellsTaken, SumFunction
<1> QED BY <1>4, <1>5, CellsAreBest

\* An allocation in whole cells, rounded down
InCells(x) == [n \in Obligations |-> IF items[n].rigid
                                     THEN IF x[n] = 0 THEN 0 ELSE Weight(items[n])
                                     ELSE x[n] \div Unit]

\* A rigid amount that is whole cells weighs exactly those.
LEMMA WeightOnGrid ==
    ASSUME ProblemTyped, OnGrid, NEW n \in Obligations, items[n].rigid
    PROVE  Weight(items[n]) * Unit = items[n].amount
<1> DEFINE a == items[n].amount
           u == Unit
           q == a \div u
           w == (-a) \div u
           b == -a
           m == -q
<1>1. a \in Nat /\ u \in Nat \ {0} /\ a % u = 0
  BY ItemsAre DEF Obligations, OnGrid
<1> HIDE DEF a, u
<1>2. q \in Int /\ w \in Int /\ b \in Int /\ m \in Int /\ b \div u \in Int
  BY <1>1
<1>3. a = q * u
  <2>1. a = u * (a \div u) + (a % u)
    BY <1>1, Division
  <2> QED BY <1>1, <1>2, <2>1
<1>4. m <= b \div u
  <2> HIDE DEF b
  <2>1. m <= b \div u <=> m * u <= b
    BY <1>1, <1>2, Floor
  <2>2. m * u = -(q * u)
    BY <1>1, <1>2
  <2>3. m * u <= b
    BY <1>2, <1>3, <2>2 DEF b
  <2> QED BY <2>1, <2>3
<1>5. (b \div u) * u <= b
  <2> DEFINE z == b \div u
  <2>1. z <= b \div u
    BY <1>2
  <2> HIDE DEF b
  <2> QED BY <1>1, <1>2, <2>1, Floor
<1>6. ~ (m + 1 <= w)
  <2> SUFFICES ASSUME m + 1 <= w PROVE FALSE
    OBVIOUS
  <2>1. (m + 1) * u <= w * u
    BY <1>1, <1>2, ProductGrows
  <2>2. (m + 1) * u = u - (q * u)
    BY <1>1, <1>2
  <2>3. w * u <= -a
    BY <1>5
  <2> HIDE DEF m, w
  <2>4. w * u \in Int
    BY <1>1, <1>2
  <2> QED BY <1>1, <1>3, <2>1, <2>2, <2>3, <2>4
<1>7. w = m
  <2>1. m <= w
    BY <1>4
  <2> HIDE DEF m, w
  <2> QED BY <1>2, <1>6, <2>1
<1>8. -w = q
  BY <1>2, <1>7
<1> QED BY <1>3, <1>8 DEF Weight, a, u

\* What rounding an amount down to whole cells does to it.
LEMMA RoundedTo ==
    ASSUME ProblemTyped, OnGrid, NEW x \in [Obligations -> Nat], NEW n \in Obligations,
           x[n] <= items[n].amount, items[n].rigid => x[n] \in {0, items[n].amount}
    PROVE  /\ InCells(x)[n] \in Nat /\ InCells(x)[n] \in CellChoices(items, n)
           /\ InCells(x)[n] * Unit <= x[n]
           /\ Paid(InCells(x))[n] \in Nat /\ x[n] - Paid(InCells(x))[n] \in 0 .. Unit
           /\ items[n].rigid => Paid(InCells(x))[n] = x[n]
<1> DEFINE o == items[n]
           a == o.amount
           u == Unit
           y == x[n]
           k == InCells(x)[n]
           p == Paid(InCells(x))[n]
<1>1. /\ a \in Nat /\ u \in Nat \ {0} /\ o.rigid \in BOOLEAN /\ y \in Nat /\ y <= a
      /\ o.rigid => y \in {0, a}
  BY ItemsAre DEF Obligations
<1>2. k = IF o.rigid THEN IF y = 0 THEN 0 ELSE Weight(o) ELSE y \div u
  BY DEF InCells
<1>3. p = IF ~o.rigid THEN u * k ELSE IF k = 0 THEN 0 ELSE a
  BY DEF Paid, Obligations
<1>4. CellChoices(items, n) = IF o.rigid THEN {0, Weight(o)} ELSE 0 .. (a \div u)
  BY DEF CellChoices, Copies
<1>5. Weight(o) \in Nat
  BY WeightIs
<1>6. o.rigid => Weight(o) * u = a
  BY WeightOnGrid
<1> HIDE DEF a, u, y, k, p
<1>7. CASE o.rigid
  <2>1. k \in {0, Weight(o)} /\ k \in Nat
    BY <1>2, <1>5, <1>7
  <2>2. CASE y = 0
    <3>1. k = 0 /\ p = 0
      BY <1>2, <1>3, <1>7, <2>2
    <3> QED BY <1>1, <1>4, <1>7, <2>1, <2>2, <3>1 DEF a, u, y, k, p, o
  <2>3. CASE y # 0
    <3>1. y = a /\ k = Weight(o) /\ k * u = a
      BY <1>1, <1>2, <1>6, <1>7, <2>3
    <3>2. k # 0
      BY <1>1, <2>1, <2>3, <3>1
    <3>3. p = a /\ y - p = 0 /\ k * u <= y
      BY <1>1, <1>3, <1>7, <3>1, <3>2
    <3>4. y - p \in 0 .. u
      BY <1>1, <3>3
    <3>5. k \in CellChoices(items, n)
      BY <1>4, <1>7, <2>1
    <3> QED BY <1>1, <2>1, <3>1, <3>3, <3>4, <3>5 DEF a, u, y, k, p
  <2> QED BY <2>2, <2>3
<1>8. CASE ~o.rigid
  <2>1. k = y \div u /\ p = u * k
    BY <1>2, <1>3, <1>8
  <2>2. /\ y \div u \in Int /\ y % u \in 0 .. u - 1
        /\ y = u * (y \div u) + (y % u)
    BY <1>1, Division
  <2>3. k \in Int /\ p \in Int /\ k * u = p /\ y - p \in 0 .. u - 1
    BY <1>1, <2>1, <2>2
  <2>4. 0 <= k
    <3>1. 0 <= y \div u <=> 0 * u <= y
      BY <1>1, Floor
    <3> QED BY <1>1, <2>1, <3>1
  <2>5. p \in Nat /\ p <= y /\ y - p \in 0 .. u
    <3>1. p >= 0
      BY <1>1, <2>1, <2>3, <2>4
    <3> QED BY <1>1, <2>3, <3>1
  <2>6. k <= a \div u /\ a \div u \in Int
    <3>1. k <= a \div u <=> k * u <= a
      BY <1>1, <2>3, Floor
    <3>2. k * u <= a
      BY <1>1, <2>3, <2>5
    <3> QED BY <1>1, <3>1, <3>2
  <2>7. k \in 0 .. (a \div u)
    BY <2>3, <2>4, <2>6
  <2>8. k \in Nat /\ k * u <= y
    BY <2>3, <2>4, <2>5
  <2> QED BY <1>4, <1>8, <2>5, <2>7, <2>8 DEF a, u, y, k, p, o
<1> QED BY <1>1, <1>7, <1>8

CellCosts == [n \in Obligations |-> items[n].rate]

\* An allocation rounded down to whole cells is a plan of cells that spends no more,
\* and costs at most a cell of each obligation more; no more at all if all are rigid.
LEMMA RoundingCosts ==
    ASSUME ProblemTyped, OnGrid, NEW x \in [Obligations -> Nat],
           \A n \in Obligations : /\ x[n] <= items[n].amount
                                  /\ items[n].rigid => x[n] \in {0, items[n].amount}
    PROVE  /\ InCells(x) \in CellPlans(items)
           /\ CellsTaken(InCells(x), N) \in Nat
           /\ CellsTaken(InCells(x), N) * Unit <= Spend(x)
           /\ Penalty(Paid(InCells(x))) <= Penalty(x) + CellForEach
           /\ CellForEach \in Nat
           /\ (\A n \in Obligations : items[n].rigid) => Paid(InCells(x)) = x
<1> DEFINE S == Obligations
           u == Unit
           t == InCells(x)
           p == Paid(t)
           z == [n \in S |-> 0]
           f == [n \in S |-> items[n].rate * x[n]]
           g == [n \in S |-> items[n].rate * p[n]]
           full == SumFunctionOnSet(Full, S)
<1>1. /\ S = 1 .. N /\ S = 1 .. Len(items) /\ IsFiniteSet(S) /\ u \in Nat \ {0}
      /\ \A n \in S : items[n].rate \in Nat /\ items[n].amount \in Nat
  BY ItemsAre DEF N, Obligations
<1>2. \A n \in S : /\ t[n] \in Nat /\ t[n] \in CellChoices(items, n)
                   /\ t[n] * u <= x[n]
                   /\ p[n] \in Nat /\ x[n] - p[n] \in 0 .. u
                   /\ items[n].rigid => p[n] = x[n]
  BY RoundedTo
<1>3. DOMAIN t = S /\ DOMAIN p = S /\ DOMAIN x = S /\ t = [n \in S |-> t[n]] /\ p = [n \in S |-> p[n]]
  BY <1>1 DEF InCells, Paid
<1>z. \A n \in S : z[n] = 0
  OBVIOUS
<1>f. \A n \in S : f[n] = items[n].rate * x[n] /\ g[n] = items[n].rate * p[n]
  OBVIOUS
<1>4. CellsTaken(t, N) = SumFunctionOnSet(t, S) /\ Spend(x) = SumFunctionOnSet(x, S)
  BY <1>1, <1>3 DEF CellsTaken, Spend, SumFunction
<1>5. t \in CellPlans(items) /\ p \in [S -> Nat]
  <2> HIDE DEF S, t, p
  <2>1. t \in [S -> Nat] /\ p \in [S -> Nat]
    BY <1>2, <1>3
  <2> QED BY <1>1, <1>2, <2>1 DEF CellPlans
<1>6. DOMAIN f = S /\ DOMAIN g = S
  OBVIOUS
<1>s. /\ SumFunctionOnSet(z, S) = 0
      /\ Saved(items, x) = SumFunctionOnSet(f, S) /\ Saved(items, p) = SumFunctionOnSet(g, S)
  <2>1. Saved(items, x) = SumFunction(f) /\ Saved(items, p) = SumFunction(g)
    BY <1>1 DEF Saved
  <2> HIDE DEF f, g, z
  <2> QED BY <1>1, <1>6, <1>z, <2>1, SumZero DEF SumFunction
<1>c. CellForEach = u * SumFunctionOnSet(CellCosts, S)
  <2>1. CellCosts = [n \in 1 .. N |-> items[n].rate] /\ DOMAIN CellCosts = S
    BY <1>1 DEF CellCosts
  <2> QED BY <2>1 DEF CellForEach, SumFunction
<1>r. \A n \in S : CellCosts[n] = items[n].rate
  BY DEF CellCosts
<1>l. \A n \in S : p[n] <= items[n].amount
  <2> TAKE n \in S
  <2> DEFINE y == x[n]
             q == p[n]
             a == items[n].amount
  <2>1. y \in Nat /\ q \in Nat /\ y - q \in 0 .. u /\ y <= a /\ a \in Nat /\ u \in Nat
    BY <1>1, <1>2
  <2> HIDE DEF y, q, a, u
  <2>2. q <= a
    BY <2>1
  <2> QED BY <2>2 DEF q, a
<1>7. /\ Penalty(x) = full - Saved(items, x) /\ Penalty(p) = full - Saved(items, p)
      /\ full \in Int /\ Saved(items, x) \in Int /\ Saved(items, p) \in Int
  <2>1. Penalty(p) = full - Saved(items, p) /\ Saved(items, p) \in Int
    <3> HIDE DEF p
    <3> QED BY <1>5, <1>l, PenaltyIsTheRest
  <2>2. Penalty(x) = full - Saved(items, x) /\ Saved(items, x) \in Int /\ full \in Int
    BY PenaltyIsTheRest
  <2> QED BY <2>1, <2>2
<1> HIDE DEF S, t, p, z, f, g, full, u
<1>8. CellsTaken(t, N) \in Nat /\ CellsTaken(t, N) * u <= Spend(x)
  <2> DEFINE l == -u
             st == SumFunctionOnSet(t, S)
             sx == SumFunctionOnSet(x, S)
  <2>1. l \in Int
    BY <1>1
  <2>2. \A n \in S : /\ z[n] \in Int /\ x[n] \in Int /\ t[n] \in Int
                     /\ z[n] - x[n] <= l * (t[n] - z[n])
    <3> TAKE n \in S
    <3> DEFINE m == t[n]
               y == x[n]
    <3>1. m \in Nat /\ y \in Nat /\ m * u <= y /\ z[n] = 0
      BY <1>2, <1>z DEF S
    <3>2. l * (m - 0) = -(m * u) /\ m * u \in Int
      BY <1>1, <3>1
    <3> HIDE DEF l, m, y
    <3>3. 0 - y <= l * (m - 0)
      BY <3>1, <3>2
    <3> QED BY <3>1, <3>3 DEF m, y
  <2>3. SumFunctionOnSet(z, S) - sx <= l * (st - SumFunctionOnSet(z, S))
    <3> HIDE DEF l
    <3> QED BY <1>1, <2>1, <2>2, SumCompares
  <2>4. st \in Nat
    BY <1>1, <1>2, SumType
  <2>5. sx \in Int
    BY <1>1, <2>2, SumType
  <2> HIDE DEF st, sx
  <2>6. 0 - sx <= l * (st - 0)
    BY <1>s, <2>3
  <2>7. l * (st - 0) = -(st * u) /\ st * u \in Int
    BY <1>1, <2>4
  <2>8. st * u <= sx
    BY <2>5, <2>6, <2>7
  <2> QED BY <1>4, <2>4, <2>8 DEF st, sx
<1>9. /\ SumFunctionOnSet(CellCosts, S) \in Nat
      /\ Saved(items, x) - Saved(items, p) <= u * SumFunctionOnSet(CellCosts, S)
  <2> DEFINE sc == SumFunctionOnSet(CellCosts, S)
  <2>1. \A n \in S : CellCosts[n] \in Nat
    BY <1>1, <1>r
  <2>2. sc \in Nat
    BY <1>1, <2>1, SumType
  <2>3. \A n \in S : /\ f[n] \in Int /\ g[n] \in Int /\ CellCosts[n] \in Int /\ z[n] \in Int
                     /\ f[n] - g[n] <= u * (CellCosts[n] - z[n])
    <3> TAKE n \in S
    <3> DEFINE r == items[n].rate
               y == x[n]
               q == p[n]
               d == y - q
    <3>1. r \in Nat /\ y \in Nat /\ q \in Nat /\ d \in 0 .. u /\ z[n] = 0
      BY <1>1, <1>2, <1>z DEF S
    <3>2. f[n] = r * y /\ g[n] = r * q /\ CellCosts[n] = r
      BY <1>f, <1>r
    <3> HIDE DEF r, y, q
    <3>3. r * y - r * q = d * r /\ r * y \in Int /\ r * q \in Int
      BY <3>1
    <3> HIDE DEF d
    <3>4. d * r <= u * r
      BY <1>1, <3>1, ProductGrows
    <3>5. r * y - r * q <= u * (r - 0)
      BY <1>1, <3>1, <3>3, <3>4
    <3> QED BY <3>1, <3>2, <3>3, <3>5
  <2>4. SumFunctionOnSet(f, S) - SumFunctionOnSet(g, S)
           <= u * (SumFunctionOnSet(CellCosts, S) - SumFunctionOnSet(z, S))
    <3>1. u \in Int
      BY <1>1
    <3> QED BY <1>1, <2>3, <3>1, SumCompares
  <2> HIDE DEF sc
  <2>5. u * (sc - 0) = u * sc
    BY <1>1, <2>2
  <2> QED BY <1>s, <2>2, <2>4, <2>5 DEF sc
<1>10. CellForEach \in Nat /\ Penalty(p) <= Penalty(x) + CellForEach
  <2> DEFINE w == u * SumFunctionOnSet(CellCosts, S)
             a == Saved(items, x)
             b == Saved(items, p)
  <2>1. w \in Nat /\ CellForEach = w
    BY <1>1, <1>9, <1>c
  <2>2. a - b <= w /\ a \in Int /\ b \in Int
    BY <1>7, <1>9
  <2> HIDE DEF w, a, b
  <2> QED BY <1>7, <2>1, <2>2 DEF a, b
<1>11. ASSUME \A n \in S : items[n].rigid PROVE p = x
  <2>1. \A n \in S : p[n] = x[n]
    BY <1>2, <1>11
  <2>2. x \in [S -> Nat]
    BY DEF S
  <2> QED BY <1>5, <2>1, <2>2
<1> QED BY <1>5, <1>8, <1>10, <1>11 DEF S, t, p, u

\* There is a best allocation within any budget.
LEMMA OptimaExist ==
    ASSUME ProblemTyped, NEW budget \in Nat
    PROVE  Optima(budget) # {}
<1> DEFINE amounts == {0} \union {items[n].amount : n \in 1 .. N}
           bound == CHOOSE a \in amounts : \A n \in 1 .. N : items[n].amount <= a
           feasible == {z \in [1 .. N -> 0 .. bound] : Payable(z, budget)}
           penalties == {Penalty(z) : z \in feasible}
           least == CHOOSE p \in penalties : \A q \in penalties : p <= q
<1>0. /\ IsFiniteSet(1 .. N) /\ N \in Nat
      /\ \A n \in 1 .. N : items[n].amount \in Nat
  BY ItemsAre
<1>1. \E a \in amounts : \A n \in 1 .. N : items[n].amount <= a
  BY LargestAmount
<1>2. bound \in Nat
  <2>1. amounts \in SUBSET Nat
    BY <1>0
  <2> HIDE DEF amounts
  <2> QED BY <1>1, <2>1
<1> HIDE DEF bound
<1>3. Unpaid \in feasible
  <2>1. /\ Spend(Unpaid) = 0 /\ Unpaid \in [1 .. N -> Nat]
        /\ \A n \in 1 .. N : Unpaid[n] = 0 /\ items[n].amount \in Nat
    BY NothingPaid DEF Obligations
  <2>2. Unpaid \in [1 .. N -> 0 .. bound]
    BY <1>2, <2>1
  <2>3. Payable(Unpaid, budget)
    BY <2>1 DEF Payable
  <2> QED BY <2>2, <2>3
<1>4. feasible \in SUBSET [1 .. N -> Nat]
  BY <1>2
<1>5. penalties \in SUBSET Nat /\ penalties # {}
  <2>1. penalties # {}
    BY <1>3
  <2>2. \A z \in feasible : Penalty(z) \in Nat
    <3> HIDE DEF feasible
    <3> QED BY <1>4, PenaltyIsNat
  <2> QED BY <2>1, <2>2
<1>6. least \in penalties
  <2> HIDE DEF penalties
  <2>1. \E p \in penalties : \A q \in penalties : p <= q
    BY <1>5, LeastNatural
  <2> QED BY <2>1
<1>7. PICK x \in feasible : Penalty(x) = least
  BY <1>6
<1>8. x \in Optima(budget)
  BY <1>7 DEF Optima, bound
<1> QED BY <1>8

\* What the exact solver is said to pay has the least penalty there is.
LEMMA ExactIsLeast ==
    ASSUME ProblemTyped, NEW budget \in Nat, NEW y \in [1 .. N -> Nat], Payable(y, budget)
    PROVE  Exact(budget) \in Nat /\ Exact(budget) <= Penalty(y)
<1> DEFINE x == CHOOSE z \in Optima(budget) : TRUE
<1>1. x \in Optima(budget)
  BY OptimaExist
<1> HIDE DEF x
<1>2. x \in [1 .. N -> Nat] /\ Penalty(x) <= Penalty(y)
  BY <1>1, OptimumIsBest
<1>3. Penalty(x) \in Nat
  BY <1>2, PenaltyIsNat
<1> QED BY <1>2, <1>3 DEF Exact, x

\* What the plan pays can be paid.
LEMMA MadeIsPayable ==
    ASSUME AllocationInv, cash >= 0
    PROVE  allocation \in [1 .. N -> Nat] /\ Payable(allocation, cash) /\ cash \in Nat
<1>1. cash \in Nat /\ (IF cash > 0 THEN cash ELSE 0) = cash
  BY DEF AllocationInv, ProblemTyped
<1>2. WithinMeans
  BY PlansAreAffordable
<1>3. allocation \in [1 .. N -> Nat]
  BY DEF AllocationInv, Allowed, Obligations
<1> QED BY <1>1, <1>2, <1>3 DEF WithinMeans

\* The DP and the MILP come within a cell of each obligation of each other.
LEMMA DpAgrees ==
    ASSUME AllocationInv, BestInv, Solved("dp"), cash >= 0, OnGrid, NEW x \in Optima(cash)
    PROVE  /\ Agree(allocation, x)
           /\ (\A n \in 1 .. N : items[n].rigid) => Penalty(allocation) <= Penalty(x)
<1> DEFINE t == InCells(x)
           A == Penalty(allocation)
           X == Penalty(x)
           P == Penalty(Paid(t))
           k == CellsTaken(t, N)
           u == Unit
<1>1. /\ ProblemTyped /\ cash \in Nat /\ cash \in Int /\ u \in Nat \ {0}
      /\ allocation \in [1 .. N -> Nat] /\ Payable(allocation, cash)
  BY MadeIsPayable, ItemsAre DEF AllocationInv
<1>2. x \in [1 .. N -> Nat] /\ Payable(x, cash) /\ X <= A
  BY <1>1, OptimumIsBest
<1>3. \A n \in 1 .. N : /\ x[n] <= items[n].amount
                        /\ items[n].rigid => x[n] \in {0, items[n].amount}
  <2> TAKE n \in 1 .. N
  <2>1. x[n] \in 0 .. items[n].amount /\ items[n].amount \in Nat
    BY <1>1, <1>2, ItemsAre DEF Payable
  <2> QED BY <1>2, <2>1 DEF Payable
<1>4. /\ t \in CellPlans(items) /\ k \in Nat /\ k * u <= Spend(x)
      /\ P <= X + CellForEach /\ CellForEach \in Nat
      /\ (\A n \in 1 .. N : items[n].rigid) => Paid(t) = x
  BY <1>1, <1>2, <1>3, RoundingCosts DEF Obligations
<1> HIDE DEF t
<1>5. k <= Capacity
  <2>1. Spend(x) \in Nat /\ Spend(x) <= cash
    BY <1>1, <1>2, SpendIsNat DEF Payable
  <2> HIDE DEF k, u
  <2>2. k * u <= cash
    <3>1. k * u \in Int
      BY <1>1, <1>4
    <3> QED BY <1>1, <1>4, <2>1, <3>1
  <2>3. k <= cash \div u
    BY <1>1, <1>4, <2>2, Floor
  <2> QED BY <2>3 DEF Capacity, u
<1>6. A <= P
  BY <1>4, <1>5, CellsAreBest
<1>7. A \in Nat /\ X \in Nat /\ P \in Nat
  <2>1. Paid(t) \in [1 .. N -> Nat]
    BY <1>1, <1>4, PaidIs DEF Obligations
  <2> QED BY <1>1, <1>2, <2>1, PenaltyIsNat
<1>8. Paid(t) = x => P = X
  OBVIOUS
<1> HIDE DEF A, X, P
<1>9. A - X \in -CellForEach .. CellForEach
  BY <1>2, <1>4, <1>6, <1>7
<1> QED BY <1>1, <1>2, <1>4, <1>6, <1>8, <1>9 DEF Agree, A, X

\* The DP and the MILP agree on the grid.
LEMMA SolversAgreeOnTheGrid == AllocationInv /\ BestInv => AgreeOnTheGrid
<1> SUFFICES ASSUME AllocationInv, BestInv, Solved("dp"), cash >= 0, OnGrid
             PROVE  /\ \A x \in Optima(cash) : Agree(allocation, x)
                    /\ Penalty(allocation) >= Exact(cash)
                    /\ (\A n \in 1..N : items[n].rigid) => Penalty(allocation) = Exact(cash)
  BY DEF AgreeOnTheGrid
<1>1. \A x \in Optima(cash) : /\ Agree(allocation, x)
                              /\ (\A n \in 1 .. N : items[n].rigid) => Penalty(allocation) <= Penalty(x)
  BY DpAgrees
<1>2. ProblemTyped /\ allocation \in [1 .. N -> Nat] /\ Payable(allocation, cash) /\ cash \in Nat
  BY MadeIsPayable DEF AllocationInv
<1>3. Exact(cash) \in Nat /\ Exact(cash) <= Penalty(allocation) /\ Penalty(allocation) \in Nat
  BY <1>2, ExactIsLeast, PenaltyIsNat
<1>4. (CHOOSE z \in Optima(cash) : TRUE) \in Optima(cash)
  BY <1>2, OptimaExist
<1>5. (\A n \in 1 .. N : items[n].rigid) => Penalty(allocation) <= Exact(cash)
  BY <1>1, <1>4 DEF Exact
<1> QED BY <1>1, <1>3, <1>5

\* The rule, and the MILP, on bills that may all be paid in part: no plan within the
\* cash saves more than one that pays what is dearer than some rate and leaves what is
\* cheaper.
LEMMA RuleIsOptimal == AllocationInv /\ BestInv => GreedyOptimalIfDivisible
<1> SUFFICES ASSUME AllocationInv, BestInv, Solved("rule"), cash >= 0, \A n \in 1 .. N : ~items[n].rigid
             PROVE  Penalty(allocation) = Exact(cash)
  BY DEF GreedyOptimalIfDivisible
<1> DEFINE S == Obligations
           x == allocation
           y == CHOOSE z \in Optima(cash) : TRUE
           f == [n \in S |-> items[n].rate * y[n]]
           g == [n \in S |-> items[n].rate * x[n]]
           sx == Spend(x)
           sy == Spend(y)
           vx == Saved(items, x)
           vy == Saved(items, y)
           full == SumFunctionOnSet(Full, S)
<1>1. ProblemTyped /\ x \in [1 .. N -> Nat] /\ Payable(x, cash) /\ cash \in Nat
  BY MadeIsPayable DEF AllocationInv
<1>2. y \in Optima(cash)
  BY <1>1, OptimaExist
<1>3. y \in [1 .. N -> Nat] /\ Payable(y, cash)
  <2> HIDE DEF y
  <2> QED BY <1>1, <1>2, OptimumIsBest
<1>4. Exact(cash) = Penalty(y)
  BY DEF Exact
<1>5. PICK l \in Nat : /\ Divides(items, x, l)
                       /\ l = 0 \/ sx >= cash
  BY DEF BestInv, RuleIsBest, Solved
<1> HIDE DEF y
<1>6. /\ S = 1 .. N /\ S = 1 .. Len(items) /\ IsFiniteSet(S)
      /\ \A n \in S : items[n].rate \in Nat /\ items[n].amount \in Nat
  BY <1>1, ItemsAre DEF N, Obligations
<1>7. \A n \in S : /\ x[n] \in Nat /\ y[n] \in Nat
                   /\ x[n] <= items[n].amount /\ y[n] <= items[n].amount
  <2> TAKE n \in S
  <2>1. x[n] \in 0 .. items[n].amount /\ y[n] \in 0 .. items[n].amount
    BY <1>1, <1>3, <1>6 DEF Payable
  <2> QED BY <1>6, <2>1
<1>8. sx = SumFunctionOnSet(x, S) /\ sy = SumFunctionOnSet(y, S)
  <2>1. DOMAIN x = S /\ DOMAIN y = S
    BY <1>1, <1>3, <1>6
  <2> HIDE DEF S, x
  <2> QED BY <2>1 DEF Spend, SumFunction
<1>9. vy = SumFunctionOnSet(f, S) /\ vx = SumFunctionOnSet(g, S)
  <2>1. vy = SumFunction(f) /\ vx = SumFunction(g)
    BY <1>6 DEF Saved
  <2>2. DOMAIN f = S /\ DOMAIN g = S
    OBVIOUS
  <2> HIDE DEF f, g, vx, vy, S
  <2> QED BY <2>1, <2>2 DEF SumFunction
<1>10. \A n \in S : f[n] = items[n].rate * y[n] /\ g[n] = items[n].rate * x[n]
  OBVIOUS
<1>11. \A n \in S : /\ items[n].rate > l => x[n] = items[n].amount
                    /\ items[n].rate < l => x[n] = 0
  BY <1>5, <1>6 DEF Divides
<1>12. /\ Penalty(x) = full - vx /\ Penalty(y) = full - vy
       /\ full \in Int /\ vx \in Int /\ vy \in Int
  <2>1. x \in [S -> Nat] /\ y \in [S -> Nat]
    BY <1>1, <1>3, <1>6
  <2> HIDE DEF x
  <2> QED BY <1>1, <1>7, <2>1, PenaltyIsTheRest
<1>13. sx \in Nat /\ sy \in Nat /\ sy <= cash
  BY <1>1, <1>3, SpendIsNat DEF Payable
<1> HIDE DEF S, x, f, g, sx, sy, vx, vy, full
<1>14. \A n \in S : /\ f[n] \in Int /\ g[n] \in Int /\ y[n] \in Int /\ x[n] \in Int
                    /\ f[n] - g[n] <= l * (y[n] - x[n])
  <2> TAKE n \in S
  <2> DEFINE r == items[n].rate
             a == items[n].amount
             p == x[n]
             q == y[n]
             d == q - p
             e == r * d
  <2>1. /\ r \in Nat /\ a \in Nat /\ p \in Nat /\ q \in Nat /\ p <= a /\ q <= a
        /\ r > l => p = a
        /\ r < l => p = 0
    BY <1>6, <1>7, <1>11
  <2>2. f[n] = r * q /\ g[n] = r * p
    BY <1>10
  <2> HIDE DEF r, a, p, q
  <2>3. d \in Int /\ r * q - r * p = e /\ r * q \in Int /\ r * p \in Int
    BY <2>1
  <2>4. r > l => d <= 0
    BY <2>1
  <2>5. r < l => d >= 0
    BY <2>1
  <2> HIDE DEF d
  <2>6. e <= l * d
    <3>1. CASE r = l
      BY <2>1, <2>3, <3>1
    <3>2. CASE r < l
      <4>1. r * d <= l * d
        BY <2>1, <2>3, <2>5, <3>2, ProductGrows
      <4> QED BY <4>1
    <3>3. CASE r > l
      <4> DEFINE m == -d
      <4>1. m \in Nat
        BY <2>3, <2>4, <3>3
      <4> HIDE DEF m
      <4>2. l * m <= r * m
        BY <2>1, <3>3, <4>1, ProductGrows
      <4>3. l * m = -(l * d) /\ r * m = -(r * d) /\ l * d \in Int /\ r * d \in Int
        BY <2>1, <2>3 DEF m
      <4> QED BY <4>2, <4>3
    <3> QED BY <2>1, <3>1, <3>2, <3>3
  <2>7. l * (y[n] - x[n]) = l * d
    BY DEF d, p, q
  <2> HIDE DEF e
  <2>8. f[n] - g[n] <= l * (y[n] - x[n])
    BY <2>2, <2>3, <2>6, <2>7
  <2>9. y[n] \in Int /\ x[n] \in Int
    BY <2>1 DEF p, q
  <2> QED BY <2>2, <2>3, <2>8, <2>9
<1>15. vy - vx <= l * (sy - sx)
  <2>1. l \in Int
    OBVIOUS
  <2>2. SumFunctionOnSet(f, S) - SumFunctionOnSet(g, S)
           <= l * (SumFunctionOnSet(y, S) - SumFunctionOnSet(x, S))
    BY <1>6, <1>14, <2>1, SumCompares
  <2> QED BY <1>8, <1>9, <2>2
<1>16. l * (sy - sx) <= 0
  <2>1. CASE l = 0
    BY <1>13, <2>1
  <2>2. CASE l # 0
    <3> DEFINE d == sx - sy
    <3>1. d \in Nat
      BY <1>1, <1>5, <1>13, <2>2
    <3>2. l * (sy - sx) = -(l * d)
      BY <1>13
    <3> HIDE DEF d
    <3>3. l * d \in Nat
      BY <3>1
    <3> QED BY <3>2, <3>3
  <2> QED BY <2>1, <2>2
<1>17. Penalty(x) <= Penalty(y)
  <2>1. l * (sy - sx) \in Int
    BY <1>13
  <2> QED BY <1>12, <1>15, <1>16, <2>1
<1>18. Exact(cash) <= Penalty(x) /\ Exact(cash) \in Nat /\ Penalty(x) \in Nat
  BY <1>1, ExactIsLeast, PenaltyIsNat
<1>19. Penalty(x) = Exact(cash)
  BY <1>4, <1>17, <1>18
<1> QED BY <1>19 DEF x

\* Where a solver is said to give the best answer, or the same as another, it does,
\* whatever the obligations, the cash and the cell: the DP, through its deque and its
\* choice table, is the best there is on the grid of cells; on it the DP and the MILP
\* agree within a cell of each obligation, the DP on the safe side; and the greedy rule
\* is optimal when every obligation may be paid in part, whatever breaks the ties.
THEOREM SolversDeliver == AllocationSpec => []AgreeWhereClaimed
<1>1. AllocationInv /\ BestInv => AgreeWhereClaimed
  BY GridIsSolved, SolversAgreeOnTheGrid, RuleIsOptimal DEF AgreeWhereClaimed
<1> QED BY <1>1, AllocationMade, AlwaysBest, PTL
===============================================================================
