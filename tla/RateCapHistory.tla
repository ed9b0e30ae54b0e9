--------------------------- MODULE RateCapHistory ---------------------------
(***************************************************************************)
(* RateCap with a history variable: whether two threads were ever inside   *)
(* the counter at once in this process lifetime.                           *)
(***************************************************************************)
EXTENDS RateCap

VARIABLE overlapped

HistoryInit == Init /\ overlapped = FALSE

Overlapping == \E v, w \in Workers : v # w /\ InFlight(v) /\ InFlight(w)

HistoryNext == \/ /\ ClockTick \/ \E w \in Workers : Worker(w)
                  /\ overlapped' = (overlapped \/ Overlapping')
               \/ ProcessRestart /\ overlapped' = FALSE

HistorySpec == HistoryInit /\ [][HistoryNext]_<<vars, overlapped>>

-----------------------------------------------------------------------------
\* The missing lock is the only way past the cap and the only way to forget a
\* call: while no two requests were inside the counter at once, whichever
\* threads of the pool served them, no window holds more calls than allowed
\* ("an actual counter, not just a plan", bank_api_client.py:128-129) and every
\* call still inside the window is on the list status() counts.
OverrunNeedsOverlap ==
    \/ overlapped
    \/ WindowRespected /\ InWindow(callTime, clock) \subseteq BoundCalls
=============================================================================
