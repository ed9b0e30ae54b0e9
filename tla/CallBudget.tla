----------------------------- MODULE CallBudget -----------------------------
(***************************************************************************)
(* What the call counter of the bank API client promises, before any       *)
(* thread, list or dictionary is mentioned: a provider call is recorded    *)
(* only while fewer than CallsAllowed calls lie in the rolling window that *)
(* ends at its own timestamp.                                              *)
(***************************************************************************)
EXTENDS Integers, Sequences, FiniteSets

CONSTANTS CallsAllowed, \* RateCap.calls_allowed
          Window,       \* RateCap.window_days, in ticks of the clock
          MaxClock      \* bound on the clock; the code has none

ASSUME BudgetAssumption == /\ CallsAllowed \in Nat
                           /\ Window \in Nat \ {0}
                           /\ MaxClock \in Nat

VARIABLES clock,    \* datetime.now(timezone.utc)
          callTime  \* timestamps of every call recorded since the process began

budgetVars == <<clock, callTime>>

Time == 0..MaxClock

\* The recorded calls still inside the window that ends at t: _prune's cutoff
\* is exclusive, so a call exactly Window old is out.
InWindow(times, t) == {i \in DOMAIN times : t - Window < times[i] /\ times[i] <= t}

BudgetInit == clock = 0 /\ callTime = <<>>

Tick == /\ clock < MaxClock
        /\ clock' = clock + 1
        /\ UNCHANGED callTime

\* A call may be recorded a little after the instant it is stamped with, but
\* never under a stamp older than one already recorded.
RecordCall == \E t \in 0..clock :
                 /\ \A i \in DOMAIN callTime : callTime[i] <= t
                 /\ Cardinality(InWindow(callTime, t)) < CallsAllowed
                 /\ callTime' = Append(callTime, t)
                 /\ UNCHANGED clock

Restart == callTime' = <<>> /\ UNCHANGED clock

BudgetNext == Tick \/ RecordCall \/ Restart

BudgetSpec == BudgetInit /\ [][BudgetNext]_budgetVars

-----------------------------------------------------------------------------
\* The promise itself: whatever window one looks at, no more than CallsAllowed
\* recorded calls fall into it ("Record one call, or refuse when the budget is
\* spent", RateCap.consume).
WindowRespected ==
    \A t \in Time : Cardinality(InWindow(callTime, t)) <= CallsAllowed
=============================================================================
