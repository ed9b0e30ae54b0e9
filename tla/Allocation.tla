------------------------------ MODULE Allocation ------------------------------
(***************************************************************************)
(* Which obligations to pay from the cash at hand: the greedy rule         *)
(* (decision_engine/rule_based_prioritizer.py), the knapsack DP            *)
(* (optimization/dp_solver.py) loop by loop, the chance-constrained budget *)
(* (chance_constrained.py), and the MILP (lp_solver.py), which hands its   *)
(* model to CBC and is taken at its word: it returns some optimum.  The    *)
(* decision plan (api/v1/router.py) is read off the MILP's allocation.     *)
(*                                                                         *)
(* Money is an integer number of paise, a penalty rate an integer, so the  *)
(* solvers' tolerances (1e-9, 1e-6) decide nothing and are left out.       *)
(***************************************************************************)
EXTENDS OrderStatistics, Sequences

CONSTANTS Items,     \* what an obligation can be: amount, rate, rigid
          MaxItems,  \* bound on the number of obligations
          CashLevels,
          Unit,      \* the DP's cell, solve_dp(unit=...)
          Batches,   \* sampled minimum free cash
          EpsNum, EpsDen \* epsilon = EpsNum / EpsDen

ASSUME AllocationAssumption ==
    /\ Items \subseteq [amount : Nat, rate : Nat, rigid : BOOLEAN]
    /\ MaxItems \in Nat /\ Unit \in Nat \ {0}
    /\ CashLevels \subseteq Int
    /\ EpsNum \in Nat /\ EpsDen \in Nat \ {0} /\ EpsNum <= EpsDen
    \* money is counted finely enough for an interpolated quantile
    /\ \A b \in Batches : b \in Seq(Int) /\ b # <<>> /\ \A s \in DOMAIN b : b[s] % EpsDen = 0

VARIABLES solver,     \* which solver runs: "rule", "dp", "lp" or "saa"
          cash,       \* problem.available_cash
          items,      \* problem.obligations
          batch,      \* ScenarioBatch.min_free_cash, for the chance constraint
          phase,      \* where the solver is
          order,      \* the ranking still to be paid
          remaining,  \* the greedy rule's `remaining`
          i,          \* the DP's obligation
          c,          \* the DP's cell
          prev, cur,  \* its rows dp[i - 1] and dp[i]
          take,       \* its choice table, a row per obligation done
          choice,     \* the row of it being filled
          dq,         \* its monotonic deque
          allocation

dpVars == <<i, c, prev, cur, take, choice, dq>>
problemVars == <<solver, cash, items, batch>>
allVars == <<problemVars, phase, order, remaining, dpVars, allocation>>

N == Len(items)

-----------------------------------------------------------------------------
(* The problem (problem.py).                                               *)

Spend(x) == SumFunction(x)

\* total_penalty; an obligation overpaid costs nothing, not less than nothing
Penalty(x) == SumFunction([n \in 1..N |->
                  IF x[n] < items[n].amount THEN items[n].rate * (items[n].amount - x[n]) ELSE 0])

\* is_feasible, without the paisa of tolerance that rounding needs
Payable(x, budget) ==
    /\ Spend(x) <= budget
    /\ \A n \in 1..N : /\ x[n] \in 0..items[n].amount
                       /\ items[n].rigid => x[n] \in {0, items[n].amount}

Unpaid == [n \in 1..N |-> 0]

\* solve_lp: one of the allocations with the least penalty within the budget
Optima(budget) ==
    LET bound == CHOOSE a \in {0} \cup {items[n].amount : n \in 1..N} :
                     \A n \in 1..N : items[n].amount <= a
        feasible == {x \in [1..N -> 0..bound] : Payable(x, budget)}
        penalties == {Penalty(x) : x \in feasible}
        least == CHOOSE p \in penalties : \A q \in penalties : p <= q
    IN  {x \in feasible : Penalty(x) = least}

\* expected_discretization_gap: a cell of each obligation
CellForEach == Unit * SumFunction([n \in 1..N |-> items[n].rate])

\* cross_validate's verdict on the DP's allocation x and the MILP's y
Agree(x, y) ==
    /\ Penalty(x) - Penalty(y) \in -CellForEach..CellForEach
    /\ Payable(x, cash) /\ Payable(y, cash)

SolveExactly ==
    /\ solver = "lp" /\ phase = "start"
    /\ allocation' \in Optima(cash)
    /\ phase' = "done"
    /\ UNCHANGED <<problemVars, order, remaining, dpVars>>

-----------------------------------------------------------------------------
(* The decision plan (router.py): what the owner reads of an allocation.   *)

Shortfall(n) == items[n].amount - allocation[n]

ActionType(n) == CASE Shortfall(n) <= 0 -> "pay_now"
                   [] Shortfall(n) > 0 /\ allocation[n] > 0 -> "pay_partial"
                   [] OTHER -> "defer"

\* LateFee, quoting what missing the whole bill would cost
LateFeeInFull(n) == items[n].rate * items[n].amount

\* late_fee_if_unpaid: of what stays unpaid, or of the bill if nothing does
LateFee(n) == items[n].rate * (IF Shortfall(n) > 0 THEN Shortfall(n) ELSE items[n].amount)

\* expected_late_fees
ExpectedLateFees ==
    SumFunction([n \in 1..N |-> IF Shortfall(n) > 0 THEN LateFee(n) ELSE 0])

-----------------------------------------------------------------------------
(* The greedy rule.                                                        *)

Rankings == {p \in [1..N -> 1..N] : \A m, n \in 1..N : m # n => p[m] # p[n]}

\* prioritize the cheapest to miss first
CheapestFirst(p) == \A m, n \in 1..N : m < n => items[p[m]].rate <= items[p[n]].rate

\* prioritize: by penalty rate, ties by due date and amount, that is, any way
Prioritized(p) == \A m, n \in 1..N : m < n => items[p[m]].rate >= items[p[n]].rate

Rank == /\ solver = "rule" /\ phase = "start"
        /\ \E p \in Rankings : Prioritized(p) /\ order' = p
        /\ phase' = "pay"
        /\ UNCHANGED <<problemVars, remaining, dpVars, allocation>>

\* The body of the loop for one obligation: all of a rigid one or nothing
Pay(n, amount) == /\ allocation' = [allocation EXCEPT ![n] = amount]
                  /\ remaining' = remaining - amount

PayNext ==
    /\ phase = "pay" /\ order # <<>> /\ remaining > 0
    /\ LET n == Head(order)
           o == items[n]
       IN  \/ o.rigid /\ remaining >= o.amount /\ Pay(n, o.amount)
           \/ o.rigid /\ remaining < o.amount /\ UNCHANGED <<allocation, remaining>>
           \/ ~o.rigid /\ Pay(n, Smaller(o.amount, remaining))
    /\ order' = Tail(order)
    /\ UNCHANGED <<problemVars, phase, dpVars>>

StopPaying == /\ phase = "pay" /\ (order = <<>> \/ remaining <= 0)
              /\ phase' = "done"
              /\ UNCHANGED <<problemVars, order, remaining, dpVars, allocation>>

-----------------------------------------------------------------------------
(* The knapsack DP.                                                        *)

CeilCapacity == -((-cash) \div Unit)

\* Budget in whole cells, never rounded up
Capacity == cash \div Unit

Cells == 0..Capacity

NoRow == <<>>

\* A rigid obligation's weight is rounded up, a divisible one's copies down.
Weight(o) == -((-o.amount) \div Unit)
Copies(o) == o.amount \div Unit
CopyValue(o) == Unit * o.rate

StartTable ==
    /\ solver = "dp" /\ phase = "start"
    /\ IF N = 0 \/ Capacity <= 0
       THEN phase' = "done" /\ UNCHANGED <<prev, i>>
       ELSE phase' = "row" /\ prev' = [b \in Cells |-> 0] /\ i' = 1
    /\ UNCHANGED <<problemVars, order, remaining, c, cur, take, choice, dq, allocation>>

\* dp[i] and take[i] are complete: on to the next obligation, or walk back.
CloseRow(row, chosen) ==
    /\ prev' = row
    /\ take' = Append(take, chosen)
    /\ cur' = NoRow /\ choice' = NoRow /\ dq' = <<>>
    /\ IF i = N THEN phase' = "walk" /\ i' = N /\ c' = Capacity
                ELSE phase' = "row" /\ i' = i + 1 /\ c' = 0

\* np.where(better, cand, prev)
Better(o, b) == /\ b >= Weight(o)
                /\ prev[b - Weight(o)] + o.rate * o.amount > prev[b]

RigidRow ==
    /\ phase = "row" /\ items[i].rigid
    /\ LET o == items[i]
       IN  CloseRow([b \in Cells |-> IF Better(o, b)
                                     THEN prev[b - Weight(o)] + o.rate * o.amount
                                     ELSE prev[b]],
                    [b \in Cells |-> IF Better(o, b) THEN Weight(o) ELSE 0])
    /\ UNCHANGED <<problemVars, order, remaining, allocation>>

\* Less than a cell is owed: the row is copied.
CopiedRow ==
    /\ phase = "row" /\ ~items[i].rigid /\ Copies(items[i]) = 0
    /\ CloseRow(prev, [b \in Cells |-> 0])
    /\ UNCHANGED <<problemVars, order, remaining, allocation>>

\* g[j] = prev[j] - j * v
Gain(j) == prev[j] - j * CopyValue(items[i])

\* Pop from the back while g[dq[-1]] <= g[b]; append b
Admitted(q, b) ==
    LET last == {m \in DOMAIN q : Gain(q[m]) > Gain(b)}
        keep == IF last = {} THEN 0 ELSE CHOOSE m \in last : \A l \in last : l <= m
    IN  Append(SubSeq(q, 1, keep), b)

\* popleft while dq[0] < b - k
Evicted(q, b) ==
    LET inside == {m \in DOMAIN q : q[m] >= b - Copies(items[i])}
    IN  SubSeq(q, CHOOSE m \in inside : \A l \in inside : m <= l, Len(q))

\* One turn of the loop over the cells
Slide ==
    /\ phase = "row" /\ ~items[i].rigid /\ Copies(items[i]) > 0
    /\ LET q == Evicted(Admitted(dq, c), c)
           row == Append(cur, Gain(Head(q)) + c * CopyValue(items[i]))
           chosen == Append(choice, c - Head(q))
       IN  IF c < Capacity
           THEN /\ dq' = q /\ cur' = row /\ choice' = chosen /\ c' = c + 1
                /\ UNCHANGED <<phase, i, prev, take>>
           ELSE CloseRow([b \in Cells |-> row[b + 1]], [b \in Cells |-> chosen[b + 1]])
    /\ UNCHANGED <<problemVars, order, remaining, allocation>>

\* Reconstruct: what the choice table says of obligation i at cell c
WalkBack ==
    /\ phase = "walk" /\ i > 0
    /\ LET o == items[i]
           cells == take[i][c]
       IN  /\ allocation' = IF cells = 0 THEN allocation
                            ELSE [allocation EXCEPT ![i] =
                                    IF o.rigid THEN o.amount ELSE Smaller(cells * Unit, o.amount)]
           /\ c' = c - cells
    /\ i' = i - 1
    /\ UNCHANGED <<problemVars, phase, order, remaining, prev, cur, take, choice, dq>>

Package == /\ phase = "walk" /\ i = 0
           /\ phase' = "done"
           /\ UNCHANGED <<problemVars, order, remaining, dpVars, allocation>>

-----------------------------------------------------------------------------
(* The chance-constrained budget.                                          *)

\* The sample at the other tail
WrongTail == Interpolated(batch, EpsDen - EpsNum, EpsDen) \div EpsDen

\* np.quantile(min_free_cash, epsilon)
Quantile == Interpolated(batch, EpsNum, EpsDen) \div EpsDen

\* safe_spend_limit
SafeSpend == IF Quantile > 0 THEN Quantile ELSE 0

\* How many scenarios fall short once `spend` is gone
Shortfalls(spend) == Cardinality(Below(batch, spend))

\* baseline_shortfall > epsilon
Hopeless == Shortfalls(0) * EpsDen > EpsNum * Len(batch)

SolveWithinSafeSpend ==
    /\ solver = "saa" /\ phase = "start"
    /\ allocation' \in Optima(Smaller(cash, SafeSpend))
    /\ phase' = "done"
    /\ UNCHANGED <<problemVars, order, remaining, dpVars>>

-----------------------------------------------------------------------------
\* An instance, and one of the solvers to run on it.  A negative balance goes to
\* the rule and to the DP only: what CBC returns for an infeasible model is its
\* own affair.
AllocationInit ==
    /\ cash \in CashLevels
    /\ items \in UNION {[1..n -> Items] : n \in 0..MaxItems}
    /\ phase = "start"
    /\ \/ solver \in {"rule", "dp"} /\ batch = <<>>
       \/ solver = "lp" /\ cash >= 0 /\ batch = <<>>
       \/ solver = "saa" /\ cash >= 0 /\ batch \in Batches
    /\ order = <<>> /\ remaining = cash
    /\ i = 0 /\ c = 0
    /\ prev = NoRow /\ cur = NoRow /\ take = <<>> /\ choice = NoRow /\ dq = <<>>
    /\ allocation = Unpaid

Finished == phase = "done" /\ UNCHANGED allVars

AllocationNext == \/ Rank \/ PayNext \/ StopPaying
                  \/ StartTable \/ RigidRow \/ CopiedRow \/ Slide \/ WalkBack \/ Package
                  \/ SolveExactly \/ SolveWithinSafeSpend
                  \/ Finished

AllocationSpec == AllocationInit /\ [][AllocationNext]_allVars
=============================================================================
