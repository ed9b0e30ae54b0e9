------------------------ MODULE AllocationRequirements ------------------------
(* What the allocation solvers owe: feasible plans, and the optimality that *)
(* each of them claims.                                                     *)
EXTENDS Allocation

Solved(s) == phase = "done" /\ solver = s

-----------------------------------------------------------------------------
\* No solver plans to spend what is not there, to pay more than is owed, or a
\* part of a rigid obligation, at any point of its loops, a negative balance
\* included.
WithinMeans == Payable(allocation, IF cash > 0 THEN cash ELSE 0)

\* What the walk back hands out is the best there is on the grid of cells: the
\* choice table leads to the optimum its last row promises.
GridChoices ==
    {t \in [1..N -> 0..Capacity] :
        /\ \A n \in 1..N : IF items[n].rigid THEN t[n] \in {0, Weight(items[n])}
                                            ELSE t[n] <= Copies(items[n])
        /\ SumFunction(t) <= Capacity}

Paid(t) == [n \in 1..N |-> IF ~items[n].rigid THEN Unit * t[n]
                           ELSE IF t[n] = 0 THEN 0 ELSE items[n].amount]

OptimalOnTheGrid ==
    Solved("dp") /\ Capacity > 0 =>
        \A t \in GridChoices : Penalty(allocation) <= Penalty(Paid(t))

Exact(budget) == Penalty(CHOOSE x \in Optima(budget) : TRUE)

OnGrid == \A n \in 1..N : items[n].rigid => items[n].amount % Unit = 0

\* While rigid amounts are whole cells, cross_validate finds that the two solvers
\* agree, the DP on the safe side, and exactly when every obligation is rigid.
AgreeOnTheGrid ==
    Solved("dp") /\ cash >= 0 /\ OnGrid =>
        /\ \A x \in Optima(cash) : Agree(allocation, x)
        /\ Penalty(allocation) >= Exact(cash)
        /\ (\A n \in 1..N : items[n].rigid) => Penalty(allocation) = Exact(cash)

\* "Greedy-by-density is exactly optimal when every obligation can be partially
\* funded", whatever breaks the ties.
GreedyOptimalIfDivisible ==
    Solved("rule") /\ cash >= 0 /\ (\A n \in 1..N : ~items[n].rigid) =>
        Penalty(allocation) = Exact(cash)

\* Where a solver is said to give the best answer, or the same as another, it
\* does: the DP on the grid, the DP and the MILP on it, the rule and the MILP on
\* divisible obligations.
AgreeWhereClaimed == OptimalOnTheGrid /\ AgreeOnTheGrid /\ GreedyOptimalIfDivisible

\* "Its late fee is smaller than the fees on the bills being paid first": what the
\* plan says of a bill it holds back (router.py:545-562), as far as an optimum
\* bears it out.  A divisible bill charges no higher a rate than a divisible one that
\* is paid; any other would cost less than a paid one whose place it could take.
\* A rigid bill that fits nobody's place may be the dearest of all.  The fees
\* quoted add up to what the plan is expected to cost.
HoldingOffCostsLeast ==
    Solved("lp") =>
        /\ ExpectedLateFees = Penalty(allocation)
        /\ \A o, p \in 1..N :
              ActionType(o) # "pay_now" /\ ActionType(p) = "pay_now" =>
                  /\ ~items[o].rigid /\ ~items[p].rigid /\ allocation[p] > 0
                        => items[o].rate <= items[p].rate
                  /\ Shortfall(o) <= cash - Spend(allocation) + allocation[p]
                        => LateFee(o) <= LateFee(p)

\* The safe-spend limit keeps the shortfall frequency within epsilon when the
\* sample divides evenly, and otherwise exceeds it by less than one scenario.
ShortfallNearEpsilon ==
    Solved("saa") /\ ~Hopeless =>
        LET excess == Shortfalls(Spend(allocation)) * EpsDen - EpsNum * Len(batch)
        IN  /\ excess < EpsDen
            /\ (EpsNum * Len(batch)) % EpsDen = 0 => excess <= 0

=============================================================================
