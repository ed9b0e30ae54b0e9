------------------------------- MODULE RateCap -------------------------------
(***************************************************************************)
(* RateCap (services/ingestion/bank_api_client.py) for one cap key, as the *)
(* threads of the request pool run it: consume() and status() take no      *)
(* lock, and each is a sequence of steps between which any other thread    *)
(* may run.                                                                *)
(*                                                                         *)
(* The value of _calls[key] is a list OBJECT.  _prune builds a new list    *)
(* and rebinds the key to it; the list that was bound before lives on in   *)
(* the threads that still hold it.  A thread holds no list but the one its *)
(* own last _prune built, so that list is named after the thread: list[w]. *)
(* A list of timestamps is kept as the set of the calls it records, a call *)
(* being its index in callTime.                                            *)
(***************************************************************************)
EXTENDS CallBudget

CONSTANTS Workers,   \* threads of the request pool
          MaxCalls,  \* bound on the calls of one process lifetime
          NoList     \* the key is not in _calls yet

ASSUME RateCapAssumption == NoList \notin Workers /\ MaxCalls \in Nat

VARIABLES bound,  \* the thread whose list _calls[key] is bound to, or NoList
          list,   \* list[w]: contents of the list object w's last _prune bound
          step,   \* where w is inside consume() or status()
          op,     \* which of the two w is running
          at,     \* w's local `now`
          kept    \* w's local `kept`, built but not yet bound

capVars == <<bound, list, step, op, at, kept>>
vars == <<budgetVars, capVars>>

Ops   == {"consume", "status"}
Steps == {"idle", "read", "rebind", "check", "record",
          "accepted", "refused", "reported"}

\* self._calls.get(key, [])
BoundCalls == IF bound = NoList THEN {} ELSE list[bound]

InFlight(w) == step[w] \in {"read", "rebind", "check", "record"}

CapInit == /\ bound = NoList
           /\ list = [w \in Workers |-> {}]
           /\ step = [w \in Workers |-> "idle"]
           /\ op = [w \in Workers |-> "consume"]
           /\ at = [w \in Workers |-> 0]
           /\ kept = [w \in Workers |-> {}]

Init == BudgetInit /\ CapInit

-----------------------------------------------------------------------------
\* now = now or datetime.now(timezone.utc)
Enter(w, o) == /\ step[w] = "idle"
               /\ step' = [step EXCEPT ![w] = "read"]
               /\ op' = [op EXCEPT ![w] = o]
               /\ at' = [at EXCEPT ![w] = clock]
               /\ UNCHANGED <<bound, list, kept, budgetVars>>

\* _prune without its cutoff.
KeepsAll(w) ==
    /\ step[w] = "read"
    /\ kept' = [kept EXCEPT ![w] = BoundCalls]
    /\ step' = [step EXCEPT ![w] = "rebind"]
    /\ UNCHANGED <<bound, list, op, at, budgetVars>>

\* kept = [t for t in self._calls.get(key, []) if t > cutoff]
ReadCalls(w) ==
    /\ step[w] = "read"
    /\ kept' = [kept EXCEPT ![w] = {c \in BoundCalls : callTime[c] > at[w] - Window}]
    /\ step' = [step EXCEPT ![w] = "rebind"]
    /\ UNCHANGED <<bound, list, op, at, budgetVars>>

\* self._calls[key] = kept, whatever was bound there by now
Rebind(w) == /\ step[w] = "rebind"
             /\ bound' = w
             /\ list' = [list EXCEPT ![w] = kept[w]]
             /\ kept' = [kept EXCEPT ![w] = {}]
             /\ step' = [step EXCEPT ![w] = "check"]
             /\ UNCHANGED <<op, at, budgetVars>>

\* Spent, one call late
SpentBeyond(w) == Cardinality(list[w]) > CallsAllowed

\* len(used) >= self.calls_allowed, on the list w itself bound: another
\* thread's append shows in it, another thread's rebind does not.
Spent(w) == Cardinality(list[w]) >= CallsAllowed

Refuse(w) == /\ step[w] = "check" /\ op[w] = "consume"
             /\ Spent(w)
             /\ step' = [step EXCEPT ![w] = "refused"]
             /\ UNCHANGED <<bound, list, op, at, kept, budgetVars>>

Pass(w) == /\ step[w] = "check" /\ op[w] = "consume"
           /\ ~Spent(w)
           /\ step' = [step EXCEPT ![w] = "record"]
           /\ UNCHANGED <<bound, list, op, at, kept, budgetVars>>

Report(w) == /\ step[w] = "check" /\ op[w] = "status"
             /\ step' = [step EXCEPT ![w] = "reported"]
             /\ UNCHANGED <<bound, list, op, at, kept, budgetVars>>

\* self._calls.setdefault(key, []).append(now): onto the list bound NOW.  The
\* lookup and the append are one step; a rebind between them loses the call
\* exactly as one between ReadCalls and Rebind does.
Record(w) == /\ step[w] = "record"
             /\ Len(callTime) < MaxCalls
             /\ callTime' = Append(callTime, at[w])
             /\ list' = [list EXCEPT ![bound] = @ \cup {Len(callTime) + 1}]
             /\ step' = [step EXCEPT ![w] = "accepted"]
             /\ UNCHANGED <<bound, op, at, kept, clock>>

\* Control goes back to the caller.
Leave(w) == /\ step[w] \in {"accepted", "refused", "reported"}
            /\ step' = [step EXCEPT ![w] = "idle"]
            /\ UNCHANGED <<bound, list, op, at, kept, budgetVars>>

\* The counter lives in the process and nowhere else.
ProcessRestart == /\ bound' = NoList
                  /\ list' = [w \in Workers |-> {}]
                  /\ step' = [w \in Workers |-> "idle"]
                  /\ op' = [w \in Workers |-> "consume"]
                  /\ at' = [w \in Workers |-> 0]
                  /\ kept' = [w \in Workers |-> {}]
                  /\ Restart

Inside(w) == ReadCalls(w) \/ Rebind(w) \/ Refuse(w) \/ Pass(w) \/ Report(w) \/ Record(w)

\* A thread may be descheduled between any two of its steps, but not for a
\* whole window (30 days) inside one call of the counter.
ClockTick == /\ \A w \in Workers : InFlight(w) => clock + 1 - at[w] < Window
             /\ Tick
             /\ UNCHANGED capVars

Worker(w) == (\E o \in Ops : Enter(w, o)) \/ Inside(w) \/ Leave(w)

Next == \/ ClockTick
        \/ \E w \in Workers : Worker(w)
        \/ ProcessRestart

Spec == Init /\ [][Next]_vars

-----------------------------------------------------------------------------
TypeOK == /\ clock \in Time
          /\ callTime \in Seq(Time)
          /\ bound \in Workers \cup {NoList}
          /\ list \in [Workers -> SUBSET DOMAIN callTime]
          /\ step \in [Workers -> Steps]
          /\ op \in [Workers -> Ops]
          /\ at \in [Workers -> Time]
          /\ kept \in [Workers -> SUBSET DOMAIN callTime]

\* The calls that count against w's own window: those younger than its cutoff.
LiveFor(w) == {c \in DOMAIN callTime : callTime[c] > at[w] - Window}

\* A refusal is never spurious: however the threads interleave, when consume()
\* raises RateCapExceeded, at least CallsAllowed calls really were recorded
\* inside the caller's window.  (A call listed twice, or an expired one kept by
\* _prune, would break it.)
NoSpuriousRefusal ==
    \A w \in Workers :
        step[w] = "refused" => Cardinality(LiveFor(w)) >= CallsAllowed

-----------------------------------------------------------------------------
(* What holds only while at most one thread is inside the counter. *)

\* status() tells the truth: the list it counts holds exactly the calls of the
\* process that are still inside the caller's window, none forgotten and none
\* expired, so calls_remaining and `exhausted` can be believed.
StatusExact == \A w \in Workers : step[w] = "reported" => list[w] = LiveFor(w)
=============================================================================
