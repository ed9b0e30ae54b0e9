----------------------------- MODULE SyncProofs -----------------------------
(***************************************************************************)
(* Proofs about the call budget and the statement sync that spends it, for *)
(* any number of threads, requests, pages, retries and syncs:              *)
(*   1. the promised counter keeps its promise (CallBudget);               *)
(*   2. the counter the threads run (RateCap): what survives every         *)
(*      interleaving, that one thread at a time implements the promise,    *)
(*      and that nothing but an overlap breaks it (RateCapHistory);        *)
(*   3. results and replays (StatementSync), which rest on nothing of the  *)
(*      counter: they do not depend on the budget being kept;              *)
(*   4. the books: requests against recorded calls, budget against pages.  *)
(***************************************************************************)
EXTENDS RateCapHistory, SyncRequirements, DataLemmas
-----------------------------------------------------------------------------
(* 1. The promised counter *)

BudgetTypeOK == clock \in Time /\ callTime \in Seq(Time)

BudgetInv == BudgetTypeOK /\ WindowRespected

\* The calls a window holds are finitely many, so that they can be counted.
LEMMA InWindowFinite ==
    ASSUME NEW times \in Seq(Time), NEW t \in Int
    PROVE  /\ IsFiniteSet(InWindow(times, t))
           /\ Cardinality(InWindow(times, t)) \in Nat
<1>1. IsFiniteSet(DOMAIN times)
  BY FS_Interval
<1>2. InWindow(times, t) \subseteq DOMAIN times
  BY DEF InWindow
<1> QED BY <1>1, <1>2, FS_Subset, FS_CardinalityType

\* An accepted call takes no window above the cap: a window that ends before it
\* does not see it, and one that ends later holds, besides it, only calls that
\* were already in the window it was checked against.
LEMMA RecordKeepsWindow ==
    ASSUME BudgetInv, NEW t \in 0..clock,
           \A i \in DOMAIN callTime : callTime[i] <= t,
           Cardinality(InWindow(callTime, t)) < CallsAllowed,
           NEW u \in Time
    PROVE  Cardinality(InWindow(Append(callTime, t), u)) <= CallsAllowed
<1> DEFINE new == Len(callTime) + 1
           times == Append(callTime, t)
<1> USE BudgetAssumption
<1>1. /\ callTime \in Seq(Time) /\ t \in Time /\ t \in Int /\ u \in Int
      /\ DOMAIN callTime = 1..Len(callTime) /\ Len(callTime) \in Nat
  BY DEF BudgetInv, BudgetTypeOK, Time
<1>2. /\ DOMAIN times = 1..new
      /\ times[new] = t
      /\ \A i \in 1..Len(callTime) : times[i] = callTime[i] /\ callTime[i] \in Int
  BY <1>1 DEF Time
<1>3. CASE u < t
  <2>1. InWindow(times, u) = InWindow(callTime, u)
    BY <1>1, <1>2, <1>3 DEF InWindow
  <2> QED BY <2>1 DEF BudgetInv, WindowRespected
<1>4. CASE t <= u
  <2>1. InWindow(times, u) \subseteq InWindow(callTime, t) \cup {new}
    BY <1>1, <1>2, <1>4 DEF InWindow
  <2>2. /\ IsFiniteSet(InWindow(callTime, t) \cup {new})
        /\ Cardinality(InWindow(callTime, t) \cup {new}) <= Cardinality(InWindow(callTime, t)) + 1
    <3>1. IsFiniteSet(InWindow(callTime, t)) /\ Cardinality(InWindow(callTime, t)) \in Nat
      BY <1>1, InWindowFinite
    <3> HIDE DEF new
    <3> QED BY <3>1, FS_AddElement
  <2>3. Cardinality(InWindow(times, u)) <= Cardinality(InWindow(callTime, t) \cup {new})
    BY <2>1, <2>2, FS_Subset
  <2>4. /\ Cardinality(InWindow(times, u)) \in Nat
        /\ Cardinality(InWindow(callTime, t)) \in Nat
        /\ Cardinality(InWindow(callTime, t) \cup {new}) \in Nat
    BY <1>1, <2>1, <2>2, InWindowFinite, FS_Subset, FS_CardinalityType
  <2> QED BY <2>2, <2>3, <2>4
<1> QED BY <1>1, <1>3, <1>4

\* RateCap's promise ("record one call, or refuse when the budget is spent"):
\* no rolling window ever holds more recorded calls than calls_allowed.
THEOREM BudgetRespected == BudgetSpec => []WindowRespected
<1> USE BudgetAssumption
<1>1. BudgetInit => BudgetInv
  <2> SUFFICES ASSUME BudgetInit PROVE BudgetInv
    OBVIOUS
  <2>1. BudgetTypeOK
    BY DEF BudgetInit, BudgetTypeOK, Time
  <2>2. \A t \in Time : InWindow(callTime, t) = {}
    BY DEF BudgetInit, InWindow
  <2> QED BY <2>1, <2>2, FS_EmptySet DEF BudgetInv, WindowRespected
<1>2. BudgetInv /\ [BudgetNext]_budgetVars => BudgetInv'
  <2> SUFFICES ASSUME BudgetInv, [BudgetNext]_budgetVars PROVE BudgetInv'
    OBVIOUS
  <2>1. CASE Tick
    <3>1. BudgetTypeOK'
      BY <2>1 DEF Tick, BudgetInv, BudgetTypeOK, Time
    <3>2. UNCHANGED callTime
      BY <2>1 DEF Tick
    <3>3. \A t \in Time : InWindow(callTime', t) = InWindow(callTime, t)
      BY <3>2
    <3> QED BY <3>1, <3>2, <3>3 DEF BudgetInv, WindowRespected
  <2>2. CASE RecordCall
    <3>1. PICK t \in 0..clock :
             /\ \A i \in DOMAIN callTime : callTime[i] <= t
             /\ Cardinality(InWindow(callTime, t)) < CallsAllowed
             /\ callTime' = Append(callTime, t)
             /\ UNCHANGED clock
      BY <2>2 DEF RecordCall
    <3>2. BudgetTypeOK'
      BY <3>1 DEF BudgetInv, BudgetTypeOK, Time
    <3>3. \A u \in Time : Cardinality(InWindow(callTime', u)) <= CallsAllowed
      BY <3>1, RecordKeepsWindow
    <3> QED BY <3>2, <3>3 DEF BudgetInv, WindowRespected, InWindow
  <2>3. CASE Restart
    <3>1. BudgetTypeOK'
      BY <2>3 DEF Restart, BudgetInv, BudgetTypeOK
    <3>2. \A t \in Time : InWindow(callTime', t) = {}
      BY <2>3 DEF Restart, InWindow
    <3> QED BY <3>1, <3>2, FS_EmptySet DEF BudgetInv, WindowRespected, InWindow
  <2>4. CASE UNCHANGED budgetVars
    BY <2>4 DEF budgetVars, BudgetInv, BudgetTypeOK, WindowRespected, InWindow
  <2> QED BY <2>1, <2>2, <2>3, <2>4 DEF BudgetNext
<1>3. BudgetInv => WindowRespected
  BY DEF BudgetInv
<1> QED BY <1>1, <1>2, <1>3, PTL DEF BudgetSpec

-----------------------------------------------------------------------------
(* 2. The counter as the threads run it *)

\* The lists hold recorded calls only, and every local of a thread has its type.
THEOREM TypeCorrect == Spec => []TypeOK
<1> USE BudgetAssumption, RateCapAssumption
<1>1. Init => TypeOK
  BY DEF Init, BudgetInit, CapInit, TypeOK, Time, Steps, Ops
<1>2. TypeOK /\ [Next]_vars => TypeOK'
  <2> SUFFICES ASSUME TypeOK, [Next]_vars PROVE TypeOK'
    OBVIOUS
  <2> USE DEF TypeOK
  <2>1. CASE ClockTick
    BY <2>1 DEF ClockTick, Tick, capVars, Time
  <2>2. ASSUME NEW w \in Workers, NEW o \in Ops, Enter(w, o) PROVE TypeOK'
    BY <2>2 DEF Enter, budgetVars, Steps
  <2>3. ASSUME NEW w \in Workers, ReadCalls(w) PROVE TypeOK'
    BY <2>3 DEF ReadCalls, budgetVars, Steps, BoundCalls
  <2>4. ASSUME NEW w \in Workers, Rebind(w) PROVE TypeOK'
    BY <2>4 DEF Rebind, budgetVars, Steps
  <2>5. ASSUME NEW w \in Workers, Refuse(w) \/ Pass(w) \/ Report(w) \/ Leave(w) PROVE TypeOK'
    BY <2>5 DEF Refuse, Pass, Report, Leave, budgetVars, Steps
  <2>6. ASSUME NEW w \in Workers, Record(w) PROVE TypeOK'
    <3>1. /\ callTime' \in Seq(Time) /\ Len(callTime') = Len(callTime) + 1
          /\ DOMAIN callTime' = DOMAIN callTime \cup {Len(callTime) + 1}
      BY <2>6 DEF Record
    <3>2. list' \in [Workers -> SUBSET DOMAIN callTime']
      BY <2>6, <3>1 DEF Record
    <3>3. kept' \in [Workers -> SUBSET DOMAIN callTime']
      BY <2>6, <3>1 DEF Record
    <3> QED BY <2>6, <3>1, <3>2, <3>3 DEF Record, Steps
  <2>7. CASE ProcessRestart
    BY <2>7 DEF ProcessRestart, Restart, Steps, Ops, Time
  <2>8. CASE UNCHANGED vars
    BY <2>8 DEF vars, capVars, budgetVars
  <2> QED BY <2>1, <2>2, <2>3, <2>4, <2>5, <2>6, <2>7, <2>8
          DEF Next, Worker, Inside
<1> QED BY <1>1, <1>2, PTL DEF Spec

-----------------------------------------------------------------------------
(* Any number of threads. *)

Passing == {"check", "record"}

\* A thread inside the counter entered it less than a window ago; what it kept,
\* and later the list it bound, is young enough for it, although other threads
\* append to that list; once it has bound a list, some list stays bound.
CapInv ==
    /\ TypeOK
    /\ \A w \in Workers :
        /\ InFlight(w) => at[w] <= clock /\ clock - at[w] < Window
        /\ step[w] = "rebind" => kept[w] \subseteq LiveFor(w)
        /\ step[w] \in Passing => bound # NoList /\ list[w] \subseteq LiveFor(w)
    /\ NoSpuriousRefusal

\* The calls that count for a thread are finitely many.
LEMMA LiveForFinite ==
    ASSUME TypeOK, NEW w \in Workers
    PROVE  IsFiniteSet(LiveFor(w)) /\ Cardinality(LiveFor(w)) \in Nat
<1>1. IsFiniteSet(DOMAIN callTime)
  BY FS_Interval DEF TypeOK
<1> QED BY <1>1, FS_Subset, FS_CardinalityType DEF LiveFor

\* Recording a call only adds to what counts for any thread.
LEMMA RecordAddsToLive ==
    ASSUME TypeOK, NEW w \in Workers, Record(w), NEW u \in Workers
    PROVE  LiveFor(u) \subseteq LiveFor(u)'
<1>1. /\ callTime \in Seq(Time) /\ at[w] \in Time
      /\ callTime' = Append(callTime, at[w]) /\ at' = at
  BY DEF TypeOK, Record
<1>2. /\ DOMAIN callTime \subseteq DOMAIN callTime'
      /\ \A c \in DOMAIN callTime : callTime'[c] = callTime[c]
  BY <1>1
<1> QED BY <1>1, <1>2 DEF LiveFor

\* The inductive invariant of the rate cap holds in every state.
THEOREM CapInvariant == Spec => []CapInv
<1> USE BudgetAssumption, RateCapAssumption
<1>1. Init => CapInv
  BY DEF Init, BudgetInit, CapInit, CapInv, TypeOK, Time, Steps, Ops, InFlight,
         Passing, NoSpuriousRefusal
<1>2. CapInv /\ TypeOK' /\ [Next]_vars => CapInv'
  <2> SUFFICES ASSUME CapInv, TypeOK', [Next]_vars PROVE CapInv'
    OBVIOUS
  <2> USE DEF CapInv, NoSpuriousRefusal
  <2>1. CASE ClockTick
    BY <2>1 DEF ClockTick, Tick, capVars, InFlight, Passing, LiveFor, TypeOK, Time
  <2>2. ASSUME NEW w \in Workers, NEW o \in Ops, Enter(w, o) PROVE CapInv'
    BY <2>2 DEF Enter, budgetVars, InFlight, Passing, LiveFor, TypeOK, Time
  <2>3. ASSUME NEW w \in Workers, ReadCalls(w) PROVE CapInv'
    BY <2>3 DEF ReadCalls, budgetVars, InFlight, Passing, LiveFor, TypeOK, BoundCalls
  <2>4. ASSUME NEW w \in Workers, Rebind(w) PROVE CapInv'
    BY <2>4 DEF Rebind, budgetVars, InFlight, Passing, LiveFor, TypeOK
  <2>5. ASSUME NEW w \in Workers, Refuse(w) PROVE CapInv'
    <3>1. list[w] \subseteq LiveFor(w) /\ Cardinality(list[w]) >= CallsAllowed
      BY <2>5 DEF Refuse, Spent, Passing
    <3>2. Cardinality(LiveFor(w)) >= CallsAllowed
      BY <3>1, LiveForFinite, FS_Subset, FS_CardinalityType
    <3>3. \A u \in Workers : LiveFor(u)' = LiveFor(u)
      BY <2>5 DEF Refuse, budgetVars, LiveFor
    <3> QED BY <2>5, <3>2, <3>3 DEF Refuse, budgetVars, InFlight, Passing, TypeOK
  <2>6. ASSUME NEW w \in Workers, Pass(w) \/ Report(w) \/ Leave(w) PROVE CapInv'
    BY <2>6 DEF Pass, Report, Leave, budgetVars, InFlight, Passing, LiveFor, TypeOK
  <2>7. ASSUME NEW w \in Workers, Record(w) PROVE CapInv'
    <3>1. \A u \in Workers :
            InFlight(u)' => at'[u] <= clock' /\ clock' - at'[u] < Window
      BY <2>7 DEF Record, InFlight, TypeOK
    <3>2. \A u \in Workers : step'[u] = "rebind" => kept'[u] \subseteq LiveFor(u)'
      BY <2>7, RecordAddsToLive DEF Record, TypeOK
    <3>3. ASSUME NEW u \in Workers, step'[u] \in Passing
          PROVE  bound' # NoList /\ list'[u] \subseteq LiveFor(u)'
      <4>1. /\ u # w /\ step[u] \in Passing /\ bound' = bound /\ bound # NoList
            /\ bound \in Workers /\ list[u] \subseteq LiveFor(u)
        BY <2>7, <3>3 DEF Record, Passing, TypeOK
      <4>2. at[u] - Window < at[w]
        BY <2>7, <4>1 DEF Record, InFlight, Passing, TypeOK, Time
      <4>3. Len(callTime) + 1 \in LiveFor(u)'
        BY <2>7, <4>2 DEF Record, LiveFor, TypeOK
      <4>4. list'[u] \subseteq list[u] \cup {Len(callTime) + 1}
        BY <2>7, <4>1 DEF Record, TypeOK
      <4> QED BY <2>7, <4>1, <4>3, <4>4, RecordAddsToLive
    <3>4. ASSUME NEW u \in Workers, step'[u] = "refused"
          PROVE  Cardinality(LiveFor(u)') >= CallsAllowed
      <4>1. Cardinality(LiveFor(u)) >= CallsAllowed
        BY <2>7, <3>4 DEF Record, TypeOK
      <4>2. IsFiniteSet(LiveFor(u)')
        <5>1. IsFiniteSet(DOMAIN callTime')
          BY FS_Interval DEF TypeOK
        <5> QED BY <5>1, FS_Subset DEF LiveFor
      <4> QED BY <2>7, <4>1, <4>2, RecordAddsToLive, LiveForFinite, FS_Subset, FS_CardinalityType
    <3> QED BY <3>1, <3>2, <3>3, <3>4
  <2>8. CASE ProcessRestart
    BY <2>8 DEF ProcessRestart, InFlight, Passing
  <2>9. CASE UNCHANGED vars
    BY <2>9 DEF vars, capVars, budgetVars, InFlight, Passing, LiveFor
  <2> QED BY <2>1, <2>2, <2>3, <2>4, <2>5, <2>6, <2>7, <2>8, <2>9
          DEF Next, Worker, Inside
<1> QED BY <1>1, <1>2, TypeCorrect, PTL DEF Spec

\* Whatever the threads of the pool do to one another's lists, consume() raises
\* RateCapExceeded only when calls_allowed calls really lie in its window.
THEOREM RefusalsAreReal == Spec => []NoSpuriousRefusal
<1>1. CapInv => NoSpuriousRefusal
  BY DEF CapInv
<1> QED BY <1>1, CapInvariant, PTL

-----------------------------------------------------------------------------
(* At most one thread.  "A single thread" is the assumption that no two     *)
(* workers differ; nothing else about Workers is used.                      *)

SingleWorker == \A u, v \in Workers : u = v

\* Calls are stamped in order, the bound list forgets none that is still young
\* enough for the thread, and the list the thread bound is the bound list.
SerialInv ==
    /\ \A w \in Workers :
        /\ at[w] <= clock
        /\ \A i \in DOMAIN callTime : callTime[i] <= at[w]
        /\ \A i \in DOMAIN callTime \ BoundCalls : callTime[i] <= at[w] - Window
        /\ step[w] = "rebind" => kept[w] = LiveFor(w)
        /\ step[w] \in Passing \cup {"reported"} => bound = w /\ list[w] = LiveFor(w)
        /\ step[w] = "record" => Cardinality(list[w]) < CallsAllowed

\* The list consume() counts is the rolling window of its own timestamp.
LEMMA LiveIsWindow ==
    ASSUME SerialInv, NEW w \in Workers
    PROVE  LiveFor(w) = InWindow(callTime, at[w])
BY DEF SerialInv, LiveFor, InWindow

\* Alone, a worker's count is never read by another between its check and its record.
LEMMA SerialInvariant ==
    ASSUME SingleWorker PROVE Spec => []SerialInv
<1> USE BudgetAssumption, RateCapAssumption, SingleWorker DEF SingleWorker
<1>1. Init => SerialInv
  BY DEF Init, BudgetInit, CapInit, SerialInv, Passing
<1>2. CapInv /\ TypeOK' /\ SerialInv /\ [Next]_vars => SerialInv'
  <2> SUFFICES ASSUME CapInv, TypeOK', SerialInv, [Next]_vars PROVE SerialInv'
    OBVIOUS
  <2> TypeOK
    BY DEF CapInv
  <2> USE DEF SerialInv, BoundCalls
  <2>1. CASE ClockTick
    BY <2>1 DEF ClockTick, Tick, capVars, Passing, LiveFor, TypeOK, Time
  <2>2. ASSUME NEW w \in Workers, NEW o \in Ops, Enter(w, o) PROVE SerialInv'
    <3>1. \A i \in DOMAIN callTime : callTime[i] \in Int
      BY DEF TypeOK, Time
    <3> QED BY <2>2, <3>1 DEF Enter, budgetVars, Passing, LiveFor, TypeOK, Time
  <2>3. ASSUME NEW w \in Workers, ReadCalls(w) PROVE SerialInv'
    <3>1. kept'[w] = LiveFor(w)
      <4>1. kept'[w] = {c \in BoundCalls : callTime[c] > at[w] - Window}
        BY <2>3 DEF ReadCalls, TypeOK
      <4>2. BoundCalls \subseteq DOMAIN callTime
        BY DEF TypeOK
      <4>3. \A i \in DOMAIN callTime \ BoundCalls : ~(callTime[i] > at[w] - Window)
        BY DEF TypeOK, Time
      <4> QED BY <4>1, <4>2, <4>3 DEF LiveFor
    <3> QED BY <2>3, <3>1 DEF ReadCalls, budgetVars, Passing, LiveFor, TypeOK
  <2>4. ASSUME NEW w \in Workers, Rebind(w) PROVE SerialInv'
    <3>1. /\ bound' = w /\ list'[w] = LiveFor(w) /\ step'[w] = "check"
          /\ at' = at /\ callTime' = callTime /\ clock' = clock
      BY <2>4 DEF Rebind, budgetVars, TypeOK
    <3>2. \A i \in DOMAIN callTime \ LiveFor(w) : callTime[i] <= at[w] - Window
      BY DEF LiveFor, TypeOK, Time
    <3> QED BY <3>1, <3>2, RateCapAssumption DEF Passing, LiveFor
  <2>5. ASSUME NEW w \in Workers, Refuse(w) \/ Pass(w) \/ Report(w) \/ Leave(w) PROVE SerialInv'
    <3>1. list[w] \subseteq DOMAIN callTime
      BY DEF TypeOK
    <3>2. IsFiniteSet(DOMAIN callTime)
      BY FS_Interval DEF TypeOK
    <3>3. Cardinality(list[w]) \in Nat
      BY <3>1, <3>2, FS_Subset, FS_CardinalityType
    <3> QED BY <2>5, <3>3 DEF Spent, Refuse, Pass, Report, Leave, budgetVars, Passing, LiveFor, TypeOK
  <2>6. ASSUME NEW w \in Workers, Record(w) PROVE SerialInv'
    <3> DEFINE new == Len(callTime) + 1
    <3>1. /\ bound = w /\ bound' = w /\ list[w] = LiveFor(w) /\ list'[w] = list[w] \cup {new}
          /\ at' = at /\ clock' = clock /\ step'[w] = "accepted"
      BY <2>6 DEF Record, Passing, TypeOK
    <3>2. /\ DOMAIN callTime' = DOMAIN callTime \cup {new}
          /\ callTime'[new] = at[w]
          /\ \A i \in DOMAIN callTime : callTime'[i] = callTime[i]
      BY <2>6 DEF Record, TypeOK
    <3>3. BoundCalls' = BoundCalls \cup {new}
      BY <3>1, RateCapAssumption
    <3> QED BY <3>1, <3>2, <3>3 DEF Passing, TypeOK, Time
  <2>7. CASE ProcessRestart
    BY <2>7 DEF ProcessRestart, Restart, Passing, TypeOK, Time
  <2>8. CASE UNCHANGED vars
    BY <2>8 DEF vars, capVars, budgetVars, Passing, LiveFor
  <2> QED BY <2>1, <2>2, <2>3, <2>4, <2>5, <2>6, <2>7, <2>8
          DEF Next, Worker, Inside
<1> QED BY <1>1, <1>2, TypeCorrect, CapInvariant, PTL DEF Spec

\* Run by one thread at a time, RateCap implements the promised counter: a call
\* it records is one the promise allows, every other step is a tick, a restart
\* or invisible.
THEOREM SerialImplementsBudget ==
    ASSUME SingleWorker PROVE Spec => BudgetSpec
<1> USE BudgetAssumption, RateCapAssumption
<1>1. Init => BudgetInit
  BY DEF Init
<1>2. CapInv /\ SerialInv /\ [Next]_vars => [BudgetNext]_budgetVars
  <2> SUFFICES ASSUME CapInv, SerialInv, [Next]_vars PROVE [BudgetNext]_budgetVars
    OBVIOUS
  <2>1. ASSUME NEW w \in Workers, Record(w) PROVE RecordCall
    <3>1. /\ at[w] \in 0..clock
          /\ \A i \in DOMAIN callTime : callTime[i] <= at[w]
      BY <2>1 DEF SerialInv, CapInv, TypeOK, Time
    <3>2. list[w] = InWindow(callTime, at[w])
      BY <2>1, LiveIsWindow DEF SerialInv, Record, Passing
    <3>3. Cardinality(list[w]) < CallsAllowed
      BY <2>1 DEF SerialInv, Record
    <3> QED BY <2>1, <3>1, <3>2, <3>3 DEF RecordCall, Record
  <2>2. CASE ClockTick
    BY <2>2 DEF ClockTick, BudgetNext
  <2>3. CASE ProcessRestart
    BY <2>3 DEF ProcessRestart, BudgetNext
  <2>4. ASSUME NEW w \in Workers, Worker(w), ~Record(w) PROVE UNCHANGED budgetVars
    BY <2>4 DEF Worker, Inside, Enter, ReadCalls, Rebind, Refuse, Pass, Report, Leave
  <2>5. CASE UNCHANGED vars
    BY <2>5 DEF vars
  <2> QED BY <2>1, <2>2, <2>3, <2>4, <2>5 DEF Next, BudgetNext
<1> QED BY <1>1, <1>2, CapInvariant, SerialInvariant, PTL DEF Spec, BudgetSpec

\* "Record one call, or refuse when the budget is spent" holds of a counter that
\* one thread at a time uses.
THEOREM SerialWindow ==
    ASSUME SingleWorker PROVE Spec => []WindowRespected
BY SerialImplementsBudget, BudgetRespected, PTL

\* ... and so does what status() reports.
THEOREM SerialStatus ==
    ASSUME SingleWorker PROVE Spec => []StatusExact
<1>1. SerialInv => StatusExact
  BY DEF SerialInv, StatusExact
<1> QED BY <1>1, SerialInvariant, PTL

-----------------------------------------------------------------------------
(* Any number of threads, as long as no two are inside the counter at once. *)

\* The one thread inside was the last to be stamped; it works on the list that is
\* bound, and that list forgets none of the calls its window still holds.
AloneInv ==
    /\ ~Overlapping
    /\ \A i \in DOMAIN callTime : callTime[i] <= clock
    /\ \A i \in DOMAIN callTime \ BoundCalls : callTime[i] <= clock - Window
    /\ \A w \in Workers : InFlight(w) =>
        /\ \A i \in DOMAIN callTime : callTime[i] <= at[w]
        /\ \A i \in DOMAIN callTime \ BoundCalls : callTime[i] <= at[w] - Window
        /\ step[w] = "rebind" => kept[w] = LiveFor(w)
        /\ step[w] \in Passing => bound = w /\ list[w] = LiveFor(w)
        /\ step[w] = "record" => Cardinality(list[w]) < CallsAllowed
    /\ WindowRespected

\* A step that leaves the lists and the calls alone, and lets nobody in.
LEMMA AloneStays ==
    ASSUME TypeOK, AloneInv, NEW w \in Workers,
           UNCHANGED <<bound, list, at, kept, clock, callTime>>,
           step' = [step EXCEPT ![w] = step'[w]],
           InFlight(w)' => InFlight(w),
           step'[w] = "rebind" => step[w] = "rebind",
           step'[w] \in Passing => step[w] \in Passing,
           step'[w] = "record" => Cardinality(list[w]) < CallsAllowed
    PROVE  AloneInv'
<1>1. /\ BoundCalls' = BoundCalls /\ \A u \in Workers : LiveFor(u)' = LiveFor(u)
  BY DEF BoundCalls, LiveFor
<1>2. \A u \in Workers \ {w} : step'[u] = step[u]
  BY DEF TypeOK
<1>3. \A u \in Workers : InFlight(u)' => InFlight(u)
  BY <1>2 DEF InFlight
<1>4. ~Overlapping'
  BY <1>3 DEF AloneInv, Overlapping
<1>5. WindowRespected'
  BY DEF AloneInv, WindowRespected, InWindow
<1> QED BY <1>1, <1>2, <1>3, <1>4, <1>5 DEF AloneInv, Passing

\* Entering a check that overlaps none keeps the count exact.
LEMMA AloneEnter ==
    ASSUME CapInv, AloneInv, NEW w \in Workers, NEW o \in Ops, Enter(w, o), ~Overlapping'
    PROVE  AloneInv'
<1>1. /\ step[w] = "idle" /\ step' = [step EXCEPT ![w] = "read"]
      /\ at' = [at EXCEPT ![w] = clock] /\ UNCHANGED <<bound, list, kept, clock, callTime>>
  BY DEF Enter, budgetVars
<1>2. \A u \in Workers \ {w} : step'[u] = step[u] /\ at'[u] = at[u]
  BY <1>1 DEF CapInv, TypeOK
<1>3. step'[w] = "read" /\ at'[w] = clock
  BY <1>1 DEF CapInv, TypeOK
<1>4. \A u \in Workers : InFlight(u)' => u = w
  BY <1>3 DEF Overlapping, InFlight
<1>5. WindowRespected'
  BY <1>1 DEF AloneInv, WindowRespected, InWindow
<1>6. BoundCalls' = BoundCalls
  BY <1>1 DEF BoundCalls
<1> QED BY <1>1, <1>3, <1>4, <1>5, <1>6 DEF AloneInv, Passing

\* So does recording the request.
LEMMA AloneRecord ==
    ASSUME CapInv, AloneInv, NEW w \in Workers, Record(w)
    PROVE  AloneInv'
<1> DEFINE new == Len(callTime) + 1
<1> USE BudgetAssumption, RateCapAssumption
<1> TypeOK
  BY DEF CapInv
<1>1. /\ step[w] = "record" /\ InFlight(w) /\ step[w] \in Passing
      /\ callTime' = Append(callTime, at[w])
      /\ list' = [list EXCEPT ![bound] = @ \cup {new}]
      /\ step' = [step EXCEPT ![w] = "accepted"]
      /\ UNCHANGED <<bound, op, at, kept, clock>>
  BY DEF Record, InFlight, Passing
<1>2. /\ bound = w /\ list[w] = LiveFor(w) /\ Cardinality(list[w]) < CallsAllowed
      /\ \A i \in DOMAIN callTime : callTime[i] <= at[w]
      /\ at[w] \in 0..clock
  BY <1>1 DEF AloneInv, CapInv, TypeOK, Time
<1>3. /\ DOMAIN callTime' = DOMAIN callTime \cup {new}
      /\ callTime'[new] = at[w]
      /\ \A i \in DOMAIN callTime : callTime'[i] = callTime[i]
  BY <1>1 DEF TypeOK
<1>4. BoundCalls = list[w] /\ BoundCalls' = BoundCalls \cup {new}
  BY <1>1, <1>2 DEF BoundCalls, TypeOK
<1>5. \A u \in Workers : ~InFlight(u)'
  BY <1>1 DEF AloneInv, Overlapping, InFlight, TypeOK
<1>6. WindowRespected'
  <2>1. list[w] = InWindow(callTime, at[w])
    BY <1>2 DEF LiveFor, InWindow
  <2>2. BudgetInv
    BY DEF BudgetInv, BudgetTypeOK, TypeOK, AloneInv
  <2>3. \A u \in Time : Cardinality(InWindow(Append(callTime, at[w]), u)) <= CallsAllowed
    BY <1>2, <2>1, <2>2, RecordKeepsWindow
  <2> QED BY <1>1, <2>3 DEF WindowRespected, InWindow
<1>7. \A i \in DOMAIN callTime' : callTime'[i] <= clock
  BY <1>2, <1>3 DEF AloneInv
<1>8. \A i \in DOMAIN callTime' \ BoundCalls' : callTime'[i] <= clock - Window
  BY <1>3, <1>4 DEF AloneInv
<1> QED BY <1>1, <1>5, <1>6, <1>7, <1>8 DEF AloneInv, Overlapping

\* While nobody overlaps, each step keeps the bound list whole.
LEMMA AloneStep ==
    ASSUME CapInv, AloneInv, [Next]_vars, ~Overlapping'
    PROVE  AloneInv'
<1> USE BudgetAssumption, RateCapAssumption
<1> TypeOK
  BY DEF CapInv
<1>1. CASE ClockTick
  <2>1. /\ clock' = clock + 1 /\ clock \in Int
        /\ UNCHANGED <<bound, list, step, op, at, kept, callTime>>
    BY <1>1 DEF ClockTick, Tick, capVars, TypeOK, Time
  <2>2. \A i \in DOMAIN callTime : callTime[i] \in Int
    BY DEF TypeOK, Time
  <2>3. WindowRespected'
    BY <2>1 DEF AloneInv, WindowRespected, InWindow
  <2>4. \A i \in DOMAIN callTime' : callTime'[i] <= clock'
    BY <2>1, <2>2 DEF AloneInv
  <2>5. \A i \in DOMAIN callTime' \ BoundCalls' : callTime'[i] <= clock' - Window
    <3>1. BoundCalls' = BoundCalls
      BY <2>1 DEF BoundCalls
    <3> QED BY <2>1, <2>2, <3>1 DEF AloneInv
  <2>6. \A u \in Workers : InFlight(u)' <=> InFlight(u)
    BY <2>1 DEF InFlight
  <2>7. BoundCalls' = BoundCalls /\ \A u \in Workers : LiveFor(u)' = LiveFor(u)
    BY <2>1 DEF BoundCalls, LiveFor
  <2> QED BY <2>1, <2>3, <2>4, <2>5, <2>6, <2>7 DEF AloneInv
<1>2. ASSUME NEW w \in Workers, NEW o \in Ops, Enter(w, o) PROVE AloneInv'
  BY <1>2, AloneEnter
<1>3. ASSUME NEW w \in Workers, ReadCalls(w) PROVE AloneInv'
  <2>1. /\ step[w] = "read" /\ step' = [step EXCEPT ![w] = "rebind"]
        /\ kept' = [kept EXCEPT ![w] = {c \in BoundCalls : callTime[c] > at[w] - Window}]
        /\ UNCHANGED <<bound, list, at, clock, callTime>>
    BY <1>3 DEF ReadCalls, budgetVars
  <2>2. InFlight(w) /\ step'[w] = "rebind"
    BY <2>1 DEF InFlight, TypeOK
  <2>3. kept'[w] = LiveFor(w)
    <3>1. kept'[w] = {c \in BoundCalls : callTime[c] > at[w] - Window}
      BY <2>1 DEF TypeOK
    <3>2. BoundCalls \subseteq DOMAIN callTime
      BY DEF TypeOK, BoundCalls
    <3>3. \A i \in DOMAIN callTime \ BoundCalls : ~(callTime[i] > at[w] - Window)
      BY <2>2 DEF TypeOK, Time, AloneInv
    <3> QED BY <3>1, <3>2, <3>3 DEF LiveFor
  <2>4. \A u \in Workers : InFlight(u)' => u = w
    BY <2>1, <2>2 DEF AloneInv, Overlapping, InFlight, TypeOK
  <2>5. BoundCalls' = BoundCalls /\ LiveFor(w)' = LiveFor(w)
    BY <2>1 DEF BoundCalls, LiveFor
  <2>6. WindowRespected'
    BY <2>1 DEF AloneInv, WindowRespected, InWindow
  <2> QED BY <2>1, <2>2, <2>3, <2>4, <2>5, <2>6 DEF AloneInv, Passing
<1>4. ASSUME NEW w \in Workers, Rebind(w) PROVE AloneInv'
  <2>1. /\ step[w] = "rebind" /\ step' = [step EXCEPT ![w] = "check"]
        /\ bound' = w /\ list' = [list EXCEPT ![w] = kept[w]]
        /\ UNCHANGED <<at, clock, callTime>>
    BY <1>4 DEF Rebind, budgetVars
  <2>2. InFlight(w) /\ step'[w] = "check" /\ kept[w] = LiveFor(w) /\ list'[w] = LiveFor(w)
    BY <2>1 DEF InFlight, TypeOK, AloneInv
  <2>3. \A u \in Workers : InFlight(u)' => u = w
    BY <2>1, <2>2 DEF AloneInv, Overlapping, InFlight, TypeOK
  <2>4. BoundCalls' = LiveFor(w) /\ LiveFor(w)' = LiveFor(w)
    BY <2>1, <2>2 DEF BoundCalls, LiveFor
  <2>5. at[w] \in Int /\ clock \in Int /\ at[w] <= clock /\ Window \in Int
        /\ \A i \in DOMAIN callTime : callTime[i] \in Int
    BY <2>2 DEF TypeOK, Time, CapInv
  <2>6. \A i \in DOMAIN callTime \ LiveFor(w) : callTime[i] <= at[w] - Window /\ callTime[i] <= clock - Window
    BY <2>5 DEF LiveFor
  <2>7. WindowRespected'
    BY <2>1 DEF AloneInv, WindowRespected, InWindow
  <2> QED BY <2>1, <2>2, <2>3, <2>4, <2>6, <2>7 DEF AloneInv, Passing
<1>5. ASSUME NEW w \in Workers, Refuse(w) \/ Pass(w) \/ Report(w) \/ Leave(w) PROVE AloneInv'
  <2>1. Cardinality(list[w]) \in Nat
    <3>1. IsFiniteSet(DOMAIN callTime)
      BY FS_Interval DEF TypeOK
    <3> QED BY <3>1, FS_Subset, FS_CardinalityType DEF TypeOK
  <2>2. UNCHANGED <<bound, list, at, kept, clock, callTime>>
    BY <1>5 DEF Refuse, Pass, Report, Leave, budgetVars
  <2>3. /\ step' = [step EXCEPT ![w] = step'[w]]
        /\ InFlight(w)' => InFlight(w)
        /\ step'[w] # "rebind"
        /\ step'[w] \in Passing => step[w] \in Passing
    BY <1>5 DEF Refuse, Pass, Report, Leave, InFlight, Passing, TypeOK
  <2>4. step'[w] = "record" => Cardinality(list[w]) < CallsAllowed
    BY <1>5, <2>1 DEF Refuse, Pass, Report, Leave, Spent, TypeOK
  <2> QED BY <2>2, <2>3, <2>4, AloneStays
<1>6. ASSUME NEW w \in Workers, Record(w) PROVE AloneInv'
  BY <1>6, AloneRecord
<1>7. CASE ProcessRestart
  <2>1. callTime' = <<>> /\ \A w \in Workers : ~InFlight(w)'
    BY <1>7 DEF ProcessRestart, Restart, InFlight
  <2>2. \A t \in Time : InWindow(callTime', t) = {}
    BY <2>1 DEF InWindow
  <2>3. WindowRespected'
    BY <2>2, FS_EmptySet DEF WindowRespected, InWindow
  <2> QED BY <2>1, <2>3 DEF AloneInv
<1>8. CASE UNCHANGED vars
  <2>1. UNCHANGED <<bound, list, step, at, kept, clock, callTime>>
    BY <1>8 DEF vars, capVars, budgetVars
  <2> QED BY <2>1 DEF AloneInv, Overlapping, InFlight, BoundCalls, LiveFor, Passing, WindowRespected, InWindow
<1> QED BY <1>1, <1>2, <1>3, <1>4, <1>5, <1>6, <1>7, <1>8 DEF Next, Worker, Inside

\* The missing lock is the only way past the cap: with any number of threads, as
\* long as no two were inside the counter at once, no window holds more calls
\* than allowed and status() forgets none that is still inside.
THEOREM OverrunIsOverlap == HistorySpec => []OverrunNeedsOverlap
<1> USE BudgetAssumption, RateCapAssumption
<1> DEFINE Inv == overlapped \in BOOLEAN /\ (~overlapped => AloneInv)
<1>1. HistorySpec => Spec
  <2>1. HistoryInit => Init
    BY DEF HistoryInit
  <2>2. [HistoryNext]_<<vars, overlapped>> => [Next]_vars
    BY DEF HistoryNext, Next
  <2> QED BY <2>1, <2>2, PTL DEF HistorySpec, Spec
<1>2. HistoryInit => Inv
  <2> SUFFICES ASSUME HistoryInit PROVE Inv
    OBVIOUS
  <2>1. /\ overlapped = FALSE /\ clock = 0 /\ callTime = <<>>
        /\ \A w \in Workers : step[w] = "idle"
    BY DEF HistoryInit, Init, BudgetInit, CapInit
  <2>2. \A t \in Time : InWindow(callTime, t) = {}
    BY <2>1 DEF InWindow
  <2>3. WindowRespected
    BY <2>2, FS_EmptySet DEF WindowRespected
  <2>4. \A w \in Workers : ~InFlight(w)
    BY <2>1 DEF InFlight
  <2>5. DOMAIN callTime = {}
    BY <2>1
  <2>6. AloneInv
    BY <2>3, <2>4, <2>5 DEF AloneInv, Overlapping
  <2> QED BY <2>1, <2>6
<1>3. CapInv /\ Inv /\ [HistoryNext]_<<vars, overlapped>> => Inv'
  <2> SUFFICES ASSUME CapInv, Inv, [HistoryNext]_<<vars, overlapped>> PROVE Inv'
    OBVIOUS
  <2>1. [Next]_vars
    BY DEF HistoryNext, Next
  <2>2. overlapped' \in BOOLEAN
    BY DEF HistoryNext
  <2>3. ASSUME ~overlapped' PROVE AloneInv'
    <3>1. CASE ProcessRestart
      <4>1. callTime' = <<>> /\ \A w \in Workers : ~InFlight(w)'
        BY <3>1 DEF ProcessRestart, Restart, InFlight
      <4>2. \A t \in Time : InWindow(callTime', t) = {}
        BY <4>1 DEF InWindow
      <4>3. WindowRespected'
        BY <4>2, FS_EmptySet DEF WindowRespected, InWindow
      <4> QED BY <4>1, <4>3 DEF AloneInv, Overlapping
    <3>2. CASE ~ProcessRestart
      <4>1. ~overlapped /\ ~Overlapping'
        <5>1. CASE overlapped' = (overlapped \/ Overlapping')
          BY <5>1, <2>3
        <5>2. CASE UNCHANGED <<vars, overlapped>>
          <6>1. ~overlapped
            BY <5>2, <2>3
          <6> QED BY <6>1, <5>2 DEF AloneInv, Overlapping, InFlight, vars, capVars
        <5> QED BY <3>2, <5>1, <5>2 DEF HistoryNext
      <4> QED BY <2>1, <4>1, AloneStep
    <3> QED BY <3>1, <3>2
  <2> QED BY <2>2, <2>3
<1>4. CapInv /\ Inv => OverrunNeedsOverlap
  <2> SUFFICES ASSUME CapInv, AloneInv PROVE InWindow(callTime, clock) \subseteq BoundCalls
    BY DEF OverrunNeedsOverlap, AloneInv
  <2>1. \A i \in DOMAIN callTime : callTime[i] \in Int
    BY DEF CapInv, TypeOK, Time
  <2> QED BY <2>1 DEF AloneInv, InWindow, CapInv, TypeOK, Time
<1> QED BY <1>1, <1>2, <1>3, <1>4, CapInvariant, PTL DEF HistorySpec

-----------------------------------------------------------------------------
(* 3. Results and replays *)

SyncTyped ==
    /\ pc \in [Workers -> PCs]
    /\ req \in [Workers -> Requests \cup {Nothing}]
    /\ pages \in [Workers -> Seq(Nat)]
    /\ cursor \in [Workers -> Nat]
    /\ spent \in [Workers -> Nat]
    /\ verdict \in [Workers -> Verdicts \cup {Nothing}]
    /\ DOMAIN answer = Workers
    /\ cache \in [Keys -> Results \cup {Nothing}]
    /\ fresh \in [Keys -> Seq(Results)]

\* The pages of a window from the first on.
FirstPages(s) == s = [i \in 1..Len(s) |-> i]

Available(w) == PageCount[SourceOf[req[w]]]

\* In the page loop: there is a page to ask for, and it is the next one.
InLoop(w) ==
    /\ FirstPages(pages[w])
    /\ Len(pages[w]) < MaxPages /\ Len(pages[w]) < Available(w)
    /\ cursor[w] = IF pages[w] = <<>> THEN 0 ELSE Len(pages[w]) + 1
    /\ spent[w] = Len(pages[w]) + (IF pc[w] = "calling" THEN 1 ELSE 0)

\* Out of it: the cursor was cleared, or the ceiling reached.
Pulled(w) ==
    /\ FirstPages(pages[w])
    /\ \/ Len(pages[w]) = Available(w) /\ Len(pages[w]) <= MaxPages /\ cursor[w] = 0
       \/ Len(pages[w]) = MaxPages /\ MaxPages < Available(w) /\ cursor[w] = MaxPages + 1
    /\ spent[w] = Len(pages[w])
    /\ pc[w] = "status" => verdict[w] \in Verdicts

WholeOrFlagged(r) ==
    /\ FirstPages(r.pages)
    /\ Len(r.pages) = IF PageCount[r.source] <= MaxPages THEN PageCount[r.source] ELSE MaxPages
    /\ r.incomplete <=> PageCount[r.source] > MaxPages

AnswerGiven(w) ==
    LET a == answer[w] IN
    /\ a.kind \in {"fresh", "replayed"} => WholeOrFlagged(a.result)
    /\ a.kind = "replayed" => /\ \E i \in DOMAIN fresh[KeyOf[req[w]]] : fresh[KeyOf[req[w]]][i] = a.result
                              /\ spent[w] = 0
    /\ a.kind = "fresh" => spent[w] = Len(a.result.pages)
    /\ a.kind = "provider_unavailable" => spent[w] = Len(pages[w]) + 1
    /\ a.kind = "rate_cap_exceeded" => spent[w] = Len(pages[w])

ServiceInv(w) ==
    /\ pc[w] = "idle" => pages[w] = <<>> /\ cursor[w] = 0 /\ spent[w] = 0
    /\ pc[w] # "idle" => req[w] \in Requests
    /\ pc[w] \in {"page", "charging", "calling", "refusing"} => InLoop(w)
    /\ pc[w] \in {"parse", "status"} => Pulled(w)
    /\ pc[w] = "answered" => AnswerGiven(w)

\* The threads on their way to an un-replayed answer for key k.
Pulling(k) == {w \in Workers : pc[w] \notin {"idle", "answered"} /\ KeyOf[req[w]] = k}

\* Once a key is answered it is in the cache, so nobody sets out to pull it
\* again: each answer more is a thread less that is pulling.
CacheInv ==
    \A k \in Keys :
        /\ cache[k] # Nothing =>
              /\ WholeOrFlagged(cache[k])
              /\ \E i \in DOMAIN fresh[k] : fresh[k][i] = cache[k]
        /\ fresh[k] # <<>> => /\ cache[k] # Nothing
                              /\ Len(fresh[k]) + Cardinality(Pulling(k)) <= Cardinality(Workers)

SyncInv == SyncTyped /\ (\A w \in Workers : ServiceInv(w)) /\ CacheInv

-----------------------------------------------------------------------------
\* At most all of the workers pull at once.
LEMMA PullingFinite ==
    ASSUME NEW k
    PROVE  /\ IsFiniteSet(Pulling(k)) /\ Cardinality(Pulling(k)) \in Nat
           /\ Cardinality(Pulling(k)) <= Cardinality(Workers) /\ Cardinality(Workers) \in Nat
BY SyncAssumption, FS_Subset, FS_CardinalityType DEF Pulling

\* The next page extends the first pages.
LEMMA OnePageMore ==
    ASSUME NEW s \in Seq(Nat), FirstPages(s)
    PROVE  /\ Append(s, Len(s) + 1) \in Seq(Nat) /\ FirstPages(Append(s, Len(s) + 1))
           /\ Len(Append(s, Len(s) + 1)) = Len(s) + 1
BY DEF FirstPages

\* Nothing is being synced to begin with.
LEMMA SyncInvInit == SyncInit => SyncInv
PROOF
  <1> SUFFICES ASSUME SyncInit PROVE SyncInv
    OBVIOUS
  <1>1. SyncTyped
    BY DEF SyncInit, SyncTyped, PCs
  <1>2. \A w \in Workers : ServiceInv(w)
    BY DEF SyncInit, ServiceInv
  <1>3. CacheInv
    BY DEF SyncInit, CacheInv
  <1> QED BY <1>1, <1>2, <1>3 DEF SyncInv

\* What a thread's invariant says depends on its own locals and on `fresh`, which
\* only grows.
Same(o) == /\ pc'[o] = pc[o] /\ req'[o] = req[o] /\ pages'[o] = pages[o] /\ cursor'[o] = cursor[o]
           /\ verdict'[o] = verdict[o] /\ answer'[o] = answer[o] /\ spent'[o] = spent[o]

FreshGrows == \A k \in Keys : \A i \in DOMAIN fresh[k] :
                 i \in DOMAIN fresh'[k] /\ fresh'[k][i] = fresh[k][i]

\* A step that leaves a worker alone, and only adds results, leaves its invariant.
LEMMA OthersServed ==
    ASSUME NEW o \in Workers, ServiceInv(o), Same(o), FreshGrows
    PROVE  ServiceInv(o)'
PROOF
  <1>1. pc[o] # "idle" => KeyOf[req[o]] \in Keys
    BY DEF ServiceInv, Keys
  <1>2. InLoop(o) => InLoop(o)'
    BY DEF InLoop, Same, Available
  <1>3. Pulled(o) => Pulled(o)'
    BY DEF Pulled, Same, Available
  <1>4. pc[o] = "answered" /\ AnswerGiven(o) => AnswerGiven(o)'
    BY <1>1 DEF AnswerGiven, Same, FreshGrows
  <1> QED BY <1>2, <1>3, <1>4 DEF ServiceInv, Same

\* A step of w that neither answers nor sets out on a pull leaves the books alone.
LEMMA CacheUntouched ==
    ASSUME CacheInv, SyncTyped, UNCHANGED <<cache, fresh>>,
           \A k \in Keys : Pulling(k)' \subseteq Pulling(k)
    PROVE  CacheInv'
PROOF
  <1> SUFFICES ASSUME NEW k \in Keys, fresh[k] # <<>>
               PROVE  Len(fresh[k]) + Cardinality(Pulling(k)') <= Cardinality(Workers)
    BY DEF CacheInv
  <1>1. /\ Cardinality(Pulling(k)') <= Cardinality(Pulling(k))
        /\ Cardinality(Pulling(k)') \in Nat
    BY PullingFinite, FS_Subset, FS_CardinalityType
  <1>2. Len(fresh[k]) + Cardinality(Pulling(k)) <= Cardinality(Workers) /\ Len(fresh[k]) \in Nat
    BY DEF CacheInv, SyncTyped
  <1> QED BY <1>1, <1>2, PullingFinite

\* A step that touches none of the sync's state keeps the invariant.
LEMMA SyncStutter ==
    ASSUME SyncInv, UNCHANGED <<pc, req, pages, cursor, verdict, answer, spent, cache, fresh>>
    PROVE  SyncInv'
PROOF
  <1>1. SyncTyped'
    BY DEF SyncInv, SyncTyped
  <1>2. FreshGrows /\ \A o \in Workers : Same(o)
    BY DEF FreshGrows, Same
  <1>3. \A k \in Keys : Pulling(k)' \subseteq Pulling(k)
    BY DEF Pulling
  <1>4. CacheInv'
    BY <1>3, CacheUntouched DEF SyncInv
  <1> QED BY <1>1, <1>2, <1>4, OthersServed DEF SyncInv

\* A step of w inside the page loop or at its end, or its reply.
LEMMA ServedAlone ==
    ASSUME NEW w \in Workers, SyncInv, SyncTyped', UNCHANGED <<cache, fresh>>,
           \A o \in Workers \ {w} : Same(o),
           ServiceInv(w)',
           pc'[w] \in {"idle", "answered"} \/ (pc[w] \notin {"idle", "answered"} /\ req'[w] = req[w])
    PROVE  SyncInv'
PROOF
  <1>1. FreshGrows
    BY DEF FreshGrows
  <1>2. \A k \in Keys : Pulling(k)' \subseteq Pulling(k)
    BY DEF Pulling, Same
  <1>3. CacheInv'
    BY <1>2, CacheUntouched DEF SyncInv
  <1> QED BY <1>1, <1>3, OthersServed DEF SyncInv

-----------------------------------------------------------------------------
\* Taking a request keeps it.
LEMMA BeginKeeps ==
    ASSUME NEW w \in Workers, NEW r \in Requests, SyncInv, Begin(w, r)
    PROVE  SyncInv'
PROOF
  <1>1. /\ pc[w] = "idle" /\ req' = [req EXCEPT ![w] = r]
        /\ UNCHANGED <<pages, cursor, verdict, spent, cache, fresh>>
    BY DEF Begin
  <1>2. pages[w] = <<>> /\ cursor[w] = 0 /\ spent[w] = 0 /\ KeyOf[r] \in Keys
    BY <1>1 DEF SyncInv, ServiceInv, Keys
  <1>3. CASE Cached(r) = Nothing
    <2>1. pc' = [pc EXCEPT ![w] = "page"] /\ answer' = answer
      BY <1>3 DEF Begin
    <2>2. SyncTyped'
      BY <1>1, <2>1 DEF SyncInv, SyncTyped, PCs
    <2>3. pc'[w] = "page" /\ req'[w] = r
      BY <1>1, <2>1 DEF SyncInv, SyncTyped
    <2>4. FreshGrows /\ \A o \in Workers \ {w} : Same(o)
      BY <1>1, <2>1 DEF FreshGrows, Same, SyncInv, SyncTyped
    <2>5. ServiceInv(w)'
      <3>1. SourceOf[r] \in Sources /\ PageCount[SourceOf[r]] \in Nat \ {0} /\ MaxPages \in Nat \ {0}
        BY SyncAssumption DEF Sources
      <3>2. FirstPages(<<>>)
        BY DEF FirstPages
      <3>3. InLoop(w)'
        BY <1>1, <1>2, <2>3, <3>1, <3>2 DEF InLoop, Available
      <3> QED BY <2>3, <3>3 DEF ServiceInv
    <2>6. CacheInv'
      <3>1. fresh[KeyOf[r]] = <<>>
        BY <1>2, <1>3 DEF SyncInv, CacheInv, Cached
      <3>2. \A k \in Keys : k # KeyOf[r] => Pulling(k)' = Pulling(k)
        BY <2>3, <2>4, <1>1 DEF Pulling, Same
      <3> QED BY <1>1, <3>1, <3>2 DEF SyncInv, CacheInv
    <2> QED BY <2>2, <2>4, <2>5, <2>6, OthersServed DEF SyncInv
  <1>4. CASE Cached(r) # Nothing
    <2>1. /\ pc' = [pc EXCEPT ![w] = "answered"]
          /\ answer' = [answer EXCEPT ![w] = [kind |-> "replayed", result |-> cache[KeyOf[r]]]]
      BY <1>4 DEF Begin, Cached, Answered
    <2>2. SyncTyped'
      BY <1>1, <2>1 DEF SyncInv, SyncTyped, PCs
    <2>3. /\ pc'[w] = "answered" /\ req'[w] = r
          /\ answer'[w] = [kind |-> "replayed", result |-> cache[KeyOf[r]]]
      BY <1>1, <2>1 DEF SyncInv, SyncTyped
    <2>4. \A o \in Workers \ {w} : Same(o)
      BY <1>1, <2>1 DEF Same, SyncInv, SyncTyped
    <2>5. ServiceInv(w)'
      BY <1>1, <1>2, <1>4, <2>3, SMTT(40) DEF ServiceInv, AnswerGiven, SyncInv, CacheInv, Cached
    <2> QED BY <1>1, <2>2, <2>3, <2>4, <2>5, ServedAlone
  <1> QED BY <1>3, <1>4

\* So does every step of charging a call.
LEMMA CountingKeeps ==
    ASSUME NEW w \in Workers, SyncInv, Charge(w) \/ Charged(w) \/ Exceeded(w)
    PROVE  SyncInv'
PROOF
  <1> USE DEF SyncInv, SyncTyped
  <1>1. /\ UNCHANGED <<req, pages, cursor, verdict, answer, cache, fresh>>
        /\ \/ pc[w] = "page" /\ pc' = [pc EXCEPT ![w] = "charging"] /\ spent' = spent
           \/ pc[w] = "charging" /\ pc' = [pc EXCEPT ![w] = "calling"] /\ spent' = [spent EXCEPT ![w] = @ + 1]
           \/ pc[w] = "charging" /\ pc' = [pc EXCEPT ![w] = "refusing"] /\ spent' = spent
    BY DEF Charge, Charged, Exceeded, sharedVars
  <1>2. pc' \in [Workers -> PCs] /\ spent' \in [Workers -> Nat]
    <2>1. pc \in [Workers -> PCs] /\ spent \in [Workers -> Nat] /\ spent[w] + 1 \in Nat
      OBVIOUS
    <2> HIDE DEF SyncInv, SyncTyped
    <2>2. {"charging", "calling", "refusing"} \subseteq PCs
      BY DEF PCs
    <2>3. CASE spent' = spent
      BY <1>1, <2>1, <2>2, <2>3
    <2>4. CASE spent' = [spent EXCEPT ![w] = @ + 1]
      BY <1>1, <2>1, <2>2, <2>4
    <2> QED BY <1>1, <2>3, <2>4
  <1>2a. SyncTyped'
    BY <1>1, <1>2
  <1>3. pc'[w] \in {"charging", "calling", "refusing"} /\ pc[w] \in {"page", "charging"}
    BY <1>1
  <1>4. spent'[w] = spent[w] + (IF pc'[w] = "calling" THEN 1 ELSE 0)
    BY <1>1
  <1>5. InLoop(w) /\ req[w] \in Requests
    BY <1>3 DEF ServiceInv
  <1>6. InLoop(w)'
    <2>1. spent[w] = Len(pages[w]) /\ Len(pages[w]) \in Nat
      BY <1>3, <1>5 DEF InLoop
    <2>2. spent'[w] = Len(pages[w]) + (IF pc'[w] = "calling" THEN 1 ELSE 0)
      BY <1>4, <2>1
    <2> QED BY <1>1, <1>5, <2>2 DEF InLoop, Available
  <1>7. ServiceInv(w)'
    BY <1>1, <1>3, <1>5, <1>6 DEF ServiceInv
  <1>8. \A o \in Workers \ {w} : Same(o)
    BY <1>1 DEF Same
  <1> HIDE DEF SyncInv, SyncTyped
  <1> QED BY <1>1, <1>2a, <1>3, <1>7, <1>8, ServedAlone

\* So does a page that arrives.
LEMMA PageKeeps ==
    ASSUME NEW w \in Workers, SyncInv, PageArrives(w)
    PROVE  SyncInv'
PROOF
  <1> DEFINE n == Len(pages[w]) + 1
             done == NextCursor(w) = 0 \/ n = MaxPages
  <1>1. /\ pc[w] = "calling"
        /\ pages' = [pages EXCEPT ![w] = Append(@, Asked(w))]
        /\ cursor' = [cursor EXCEPT ![w] = NextCursor(w)]
        /\ pc' = [pc EXCEPT ![w] = IF done THEN "parse" ELSE "page"]
        /\ UNCHANGED <<req, verdict, answer, spent, cache, fresh>>
    BY DEF PageArrives
  <1>2. /\ FirstPages(pages[w]) /\ Len(pages[w]) < MaxPages /\ Len(pages[w]) < Available(w)
        /\ cursor[w] = IF pages[w] = <<>> THEN 0 ELSE Len(pages[w]) + 1
        /\ spent[w] = n /\ req[w] \in Requests /\ pages[w] \in Seq(Nat)
    BY <1>1 DEF SyncInv, SyncTyped, ServiceInv, InLoop
  <1>3. Available(w) \in Nat /\ MaxPages \in Nat \ {0} /\ Len(pages[w]) \in Nat
    BY <1>2, SyncAssumption DEF Available, Sources
  <1>4. Asked(w) = n
    BY <1>2 DEF Asked
  <1>5. NextCursor(w) = IF n < Available(w) THEN n + 1 ELSE 0
    BY <1>4 DEF NextCursor, Available
  <1>6. /\ Append(pages[w], n) \in Seq(Nat) /\ FirstPages(Append(pages[w], n))
        /\ Len(Append(pages[w], n)) = n
    BY <1>2, OnePageMore
  <1>7. /\ pages'[w] = Append(pages[w], n) /\ cursor'[w] = NextCursor(w)
        /\ pc'[w] = IF done THEN "parse" ELSE "page"
    BY <1>1, <1>4 DEF SyncInv, SyncTyped
  <1>8. SyncTyped'
    BY <1>1, <1>3, <1>4, <1>5, <1>6 DEF SyncInv, SyncTyped, PCs
  <1>9. Available(w)' = Available(w)
    BY <1>1 DEF Available
  <1>10. CASE done
    <2>1. Pulled(w)'
      BY <1>1, <1>2, <1>3, <1>5, <1>6, <1>7, <1>9, <1>10 DEF Pulled
    <2>2. ServiceInv(w)'
      BY <2>1, <1>1, <1>2, <1>7, <1>10 DEF ServiceInv
    <2>3. \A o \in Workers \ {w} : Same(o)
      BY <1>1 DEF Same, SyncInv, SyncTyped
    <2> QED BY <2>2, <2>3, <1>1, <1>8, ServedAlone
  <1>11. CASE ~done
    <2>1. pages'[w] # <<>>
      BY <1>6, <1>7, <1>3
    <2>2. InLoop(w)'
      <3>1. n # MaxPages /\ n < Available(w) /\ NextCursor(w) = n + 1
        BY <1>3, <1>5, <1>11
      <3>2. /\ pages'[w] = Append(pages[w], n) /\ Len(pages'[w]) = n
            /\ FirstPages(pages'[w]) /\ pc'[w] = "page"
        BY <1>6, <1>7, <1>11
      <3>3. n < MaxPages /\ cursor'[w] = n + 1 /\ spent'[w] = n
        BY <1>1, <1>2, <1>3, <1>7, <3>1
      <3> HIDE DEF n, done
      <3> QED BY <2>1, <3>1, <3>2, <3>3, <1>9 DEF InLoop
    <2>3. ServiceInv(w)'
      BY <2>2, <1>1, <1>2, <1>7, <1>11 DEF ServiceInv
    <2>4. \A o \in Workers \ {w} : Same(o)
      BY <1>1 DEF Same, SyncInv, SyncTyped
    <2> QED BY <2>3, <2>4, <1>1, <1>8, ServedAlone
  <1> QED BY <1>10, <1>11

\* So does a call that fails for good.
LEMMA FailureKeeps ==
    ASSUME NEW w \in Workers, NEW kind \in {"provider_unavailable", "internal_error"},
           SyncInv, CallFails(w, kind)
    PROVE  SyncInv'
PROOF
  <1>1. /\ \/ pc[w] = "calling"
           \/ pc[w] = "parse" /\ kind = "internal_error"
        /\ pc' = [pc EXCEPT ![w] = "answered"]
        /\ answer' = [answer EXCEPT ![w] = [kind |-> kind, result |-> Nothing]]
        /\ UNCHANGED <<req, pages, cursor, verdict, spent, cache, fresh>>
    BY DEF CallFails, Answered
  <1>2. SyncTyped'
    BY <1>1 DEF SyncInv, SyncTyped, PCs
  <1>3. pc'[w] = "answered" /\ answer'[w] = [kind |-> kind, result |-> Nothing]
    BY <1>1 DEF SyncInv, SyncTyped
  <1>4. ServiceInv(w)'
    <2>1. /\ req[w] \in Requests
          /\ kind = "provider_unavailable" => spent[w] = Len(pages[w]) + 1
      BY <1>1 DEF SyncInv, ServiceInv, InLoop
    <2> QED BY <1>1, <1>3, <2>1 DEF ServiceInv, AnswerGiven
  <1>5. \A o \in Workers \ {w} : Same(o)
    BY <1>1 DEF Same, SyncInv, SyncTyped
  <1> QED BY <1>1, <1>2, <1>3, <1>4, <1>5, ServedAlone

\* So does parsing the pages.
LEMMA ParseKeeps ==
    ASSUME NEW w \in Workers, NEW v \in Verdicts, SyncInv, Parse(w, v)
    PROVE  SyncInv'
PROOF
  <1>1. /\ pc[w] = "parse" /\ pc' = [pc EXCEPT ![w] = "status"]
        /\ verdict' = [verdict EXCEPT ![w] = v]
        /\ UNCHANGED <<req, pages, cursor, answer, spent, cache, fresh>>
    BY DEF Parse, sharedVars
  <1>2. SyncTyped'
    BY <1>1 DEF SyncInv, SyncTyped, PCs
  <1>3. pc'[w] = "status" /\ verdict'[w] = v
    BY <1>1 DEF SyncInv, SyncTyped
  <1>4. ServiceInv(w)'
    BY <1>1, <1>3 DEF SyncInv, ServiceInv, Pulled, Available
  <1>5. \A o \in Workers \ {w} : Same(o)
    BY <1>1 DEF Same, SyncInv, SyncTyped
  <1> QED BY <1>1, <1>2, <1>3, <1>4, <1>5, ServedAlone

\* So does refusing for the cap.
LEMMA RefusedKeeps ==
    ASSUME NEW w \in Workers, SyncInv, Refused(w)
    PROVE  SyncInv'
PROOF
  <1>1. /\ pc[w] = "refusing" /\ pc' = [pc EXCEPT ![w] = "answered"]
        /\ answer' = [answer EXCEPT ![w] = [kind |-> "rate_cap_exceeded", result |-> Nothing]]
        /\ UNCHANGED <<req, pages, cursor, verdict, spent, cache, fresh>>
    BY DEF Refused, Answered, sharedVars
  <1>2. SyncTyped'
    BY <1>1 DEF SyncInv, SyncTyped, PCs
  <1>3. pc'[w] = "answered" /\ answer'[w] = [kind |-> "rate_cap_exceeded", result |-> Nothing]
    BY <1>1 DEF SyncInv, SyncTyped
  <1>4. ServiceInv(w)'
    BY <1>1, <1>3 DEF SyncInv, SyncTyped, ServiceInv, InLoop, AnswerGiven
  <1>5. \A o \in Workers \ {w} : Same(o)
    BY <1>1 DEF Same, SyncInv, SyncTyped
  <1> QED BY <1>1, <1>2, <1>3, <1>4, <1>5, ServedAlone

\* So does replying.
LEMMA ReplyKeeps ==
    ASSUME NEW w \in Workers, SyncInv, Reply(w)
    PROVE  SyncInv'
PROOF
  <1>1. /\ pc' = [pc EXCEPT ![w] = "idle"] /\ req' = [req EXCEPT ![w] = Nothing]
        /\ pages' = [pages EXCEPT ![w] = <<>>] /\ cursor' = [cursor EXCEPT ![w] = 0]
        /\ verdict' = [verdict EXCEPT ![w] = Nothing]
        /\ answer' = [answer EXCEPT ![w] = Nothing] /\ spent' = [spent EXCEPT ![w] = 0]
        /\ UNCHANGED <<cache, fresh>>
    BY DEF Reply, Reset, sharedVars
  <1>2. SyncTyped'
    BY <1>1 DEF SyncInv, SyncTyped, PCs
  <1>3. pc'[w] = "idle" /\ pages'[w] = <<>> /\ cursor'[w] = 0 /\ spent'[w] = 0
    BY <1>1 DEF SyncInv, SyncTyped
  <1>4. ServiceInv(w)'
    BY <1>3 DEF ServiceInv
  <1>5. \A o \in Workers \ {w} : Same(o)
    BY <1>1 DEF Same, SyncInv, SyncTyped
  <1> QED BY <1>1, <1>2, <1>3, <1>4, <1>5, ServedAlone

\* So does caching the result.
LEMMA FinishKeeps ==
    ASSUME NEW w \in Workers, SyncInv, Finish(w)
    PROVE  SyncInv'
PROOF
  <1> DEFINE r == Result(w, verdict[w])
             k == KeyOf[req[w]]
  <1>1. /\ pc[w] = "status" /\ pc' = [pc EXCEPT ![w] = "answered"]
        /\ cache' = [cache EXCEPT ![k] = r] /\ fresh' = [fresh EXCEPT ![k] = Append(@, r)]
        /\ answer' = [answer EXCEPT ![w] = [kind |-> "fresh", result |-> r]]
        /\ UNCHANGED <<req, pages, cursor, verdict, spent>>
    BY DEF Finish, Answered
  <1>2. /\ req[w] \in Requests /\ k \in Keys /\ SourceOf[req[w]] \in Sources
        /\ Pulled(w) /\ verdict[w] \in Verdicts
    BY <1>1 DEF SyncInv, ServiceInv, Pulled, Keys, Sources
  <1>3. r \in Results /\ r # Nothing
    <2>1. pages[w] \in Seq(Nat)
      BY DEF SyncInv, SyncTyped
    <2>2. r = [source |-> SourceOf[req[w]], pages |-> pages[w],
               incomplete |-> cursor[w] # 0, verdict |-> verdict[w]]
      BY DEF Result
    <2>3. r \in Results
      BY <1>2, <2>1, <2>2 DEF Results
    <2> QED BY <2>3, ResultAssumption
  <1>4. WholeOrFlagged(r) /\ r.pages = pages[w]
    <2>1. /\ r.pages = pages[w] /\ r.source = SourceOf[req[w]]
          /\ r.incomplete = (cursor[w] # 0)
      BY DEF Result
    <2>2. Available(w) \in Nat /\ MaxPages \in Nat
      BY <1>2, SyncAssumption DEF Available
    <2> HIDE DEF r
    <2>3. FirstPages(r.pages)
      BY <1>2, <2>1 DEF Pulled
    <2>4. /\ Len(pages[w]) = IF Available(w) <= MaxPages THEN Available(w) ELSE MaxPages
          /\ cursor[w] # 0 <=> Available(w) > MaxPages
      BY <1>2, <2>2 DEF Pulled
    <2>5. r.incomplete <=> Available(w) > MaxPages
      BY <2>1, <2>4
    <2> QED BY <2>1, <2>3, <2>4, <2>5 DEF WholeOrFlagged, Available
  <1> HIDE DEF r, k
  <1>5. SyncTyped'
    <2>1. /\ pc' \in [Workers -> PCs] /\ DOMAIN answer' = Workers
          /\ cache' \in [Keys -> Results \cup {Nothing}]
      BY <1>1, <1>3 DEF SyncInv, SyncTyped, PCs
    <2>2. Append(fresh[k], r) \in Seq(Results)
      BY <1>2, <1>3 DEF SyncInv, SyncTyped
    <2>3. fresh' \in [Keys -> Seq(Results)]
      BY <1>1, <2>2 DEF SyncInv, SyncTyped
    <2> QED BY <1>1, <2>1, <2>3 DEF SyncInv, SyncTyped
  <1>6. /\ pc'[w] = "answered" /\ answer'[w] = [kind |-> "fresh", result |-> r]
        /\ cache'[k] = r /\ fresh'[k] = Append(fresh[k], r) /\ fresh[k] \in Seq(Results)
    BY <1>1, <1>2 DEF SyncInv, SyncTyped
  <1>7. FreshGrows
    <2>1. \A i \in DOMAIN fresh[k] :
             i \in DOMAIN Append(fresh[k], r) /\ Append(fresh[k], r)[i] = fresh[k][i]
      BY <1>3, <1>6
    <2>2. \A j \in Keys : j # k => fresh'[j] = fresh[j]
      BY <1>1 DEF SyncInv, SyncTyped
    <2> QED BY <1>6, <2>1, <2>2 DEF FreshGrows
  <1>8. \A o \in Workers \ {w} : Same(o)
    BY <1>1 DEF Same, SyncInv, SyncTyped
  <1>9. ServiceInv(w)'
    <2>1. spent[w] = Len(r.pages)
      BY <1>2, <1>4 DEF Pulled
    <2> QED BY <1>1, <1>2, <1>4, <1>6, <2>1 DEF ServiceInv, AnswerGiven
  <1>10. CacheInv'
    <2> SUFFICES ASSUME NEW j \in Keys
                 PROVE  /\ cache'[j] # Nothing =>
                              /\ WholeOrFlagged(cache'[j])
                              /\ \E i \in DOMAIN fresh'[j] : fresh'[j][i] = cache'[j]
                        /\ fresh'[j] # <<>> =>
                              /\ cache'[j] # Nothing
                              /\ Len(fresh'[j]) + Cardinality(Pulling(j)') <= Cardinality(Workers)
      BY DEF CacheInv, WholeOrFlagged, FirstPages
    <2>1. CASE j = k
      <3>1. Len(Append(fresh[k], r)) = Len(fresh[k]) + 1 /\ Len(fresh[k]) \in Nat
            /\ Append(fresh[k], r)[Len(fresh[k]) + 1] = r
            /\ Len(fresh[k]) + 1 \in DOMAIN Append(fresh[k], r)
        BY <1>3, <1>6
      <3>2. w \in Pulling(j) /\ Pulling(j)' = Pulling(j) \ {w}
        BY <2>1, <1>1, <1>6, <1>8 DEF Pulling, Same, k
      <3>3. /\ Cardinality(Pulling(j)') = Cardinality(Pulling(j)) - 1
            /\ Cardinality(Pulling(j)) \in Nat /\ Cardinality(Workers) \in Nat
            /\ Cardinality(Pulling(j)) <= Cardinality(Workers)
        BY <3>2, PullingFinite, FS_RemoveElement
      <3>4. Len(fresh[k]) + Cardinality(Pulling(j)) <= Cardinality(Workers)
        <4>1. CASE fresh[k] = <<>>
          BY <4>1, <3>3, <3>1
        <4>2. CASE fresh[k] # <<>>
          BY <4>2, <2>1, <1>2 DEF SyncInv, CacheInv
        <4> QED BY <4>1, <4>2
      <3>5. cache'[j] # Nothing /\ WholeOrFlagged(cache'[j])
        BY <2>1, <1>3, <1>4, <1>6
      <3>6. \E i \in DOMAIN fresh'[j] : fresh'[j][i] = cache'[j]
        BY <2>1, <1>6, <3>1
      <3>7. Len(fresh'[j]) + Cardinality(Pulling(j)') <= Cardinality(Workers)
        BY <2>1, <1>6, <3>1, <3>3, <3>4
      <3> QED BY <3>5, <3>6, <3>7
    <2>2. CASE j # k
      <3>1. cache'[j] = cache[j] /\ fresh'[j] = fresh[j]
        BY <1>1, <2>2 DEF SyncInv, SyncTyped
      <3>2. Pulling(j)' = Pulling(j)
        BY <1>1, <1>6, <1>8, <2>2 DEF Pulling, Same, k
      <3> QED BY <3>1, <3>2 DEF SyncInv, CacheInv
    <2> QED BY <2>1, <2>2
  <1> QED BY <1>5, <1>7, <1>8, <1>9, <1>10, OthersServed DEF SyncInv

\* So does a restart of the process.
LEMMA RestartKeeps ==
    ASSUME SyncInv, SyncRestart
    PROVE  SyncInv'
PROOF
  <1>1. SyncTyped'
    BY DEF SyncRestart, SyncTyped, PCs
  <1>2. \A w \in Workers : ServiceInv(w)'
    BY DEF SyncRestart, ServiceInv
  <1>3. CacheInv'
    BY DEF SyncRestart, CacheInv
  <1> QED BY <1>1, <1>2, <1>3 DEF SyncInv

\* Every step keeps the invariant of the sync.
LEMMA SyncInvStep == SyncInv /\ [SyncNext]_allVars => SyncInv'
PROOF
  <1> SUFFICES ASSUME SyncInv, [SyncNext]_allVars PROVE SyncInv'
    OBVIOUS
  <1>1. ASSUME NEW w \in Workers, Serve(w) PROVE SyncInv'
    <2>1. CASE Charge(w) \/ Charged(w) \/ Exceeded(w)
      BY <2>1, CountingKeeps
    <2>2. CASE InCounter(w) \/ Retry(w) \/ AskStatus(w)
      <3>1. UNCHANGED <<pc, req, pages, cursor, verdict, answer, spent, cache, fresh>>
        BY <2>2 DEF InCounter, Retry, AskStatus, syncVars, localVars, sharedVars
      <3> QED BY <3>1, SyncStutter
    <2>3. CASE PageArrives(w)
      BY <2>3, PageKeeps
    <2>4. CASE \E kind \in {"provider_unavailable", "internal_error"} : CallFails(w, kind)
      BY <2>4, FailureKeeps
    <2>5. CASE \E v \in Verdicts : Parse(w, v)
      BY <2>5, ParseKeeps
    <2>6. CASE Refused(w)
      BY <2>6, RefusedKeeps
    <2>7. CASE Finish(w)
      BY <2>7, FinishKeeps
    <2>8. CASE Reply(w)
      BY <2>8, ReplyKeeps
    <2> QED BY <1>1, <2>1, <2>2, <2>3, <2>4, <2>5, <2>6, <2>7, <2>8 DEF Serve
  <1>2. CASE (ClockTick /\ UNCHANGED syncVars) \/ UNCHANGED allVars
    <2>1. UNCHANGED <<pc, req, pages, cursor, verdict, answer, spent, cache, fresh>>
      BY <1>2 DEF allVars, syncVars, localVars, sharedVars
    <2> QED BY <2>1, SyncStutter
  <1>3. CASE \E w \in Workers, r \in Requests : Begin(w, r)
    BY <1>3, BeginKeeps
  <1>4. CASE SyncRestart
    BY <1>4, RestartKeeps
  <1> QED BY <1>1, <1>2, <1>3, <1>4 DEF SyncNext

\* It holds in every state.
LEMMA SyncInvAlways == SyncSpec => []SyncInv
PROOF
  <1>1. SyncInit => SyncInv
    BY SyncInvInit
  <1>2. SyncInv /\ [SyncNext]_allVars => SyncInv'
    BY SyncInvStep
  <1> QED BY <1>1, <1>2, PTL DEF SyncSpec

-----------------------------------------------------------------------------
\* A result sync() returns, pulled now or replayed, is the whole window from its
\* first page on or says INCOMPLETE, and a replay is a result this process
\* computed for the same key, however many threads pull it at once.
THEOREM EveryResultSound == SyncSpec => []SoundResults
PROOF
  <1>1. SyncInv => SoundResults
    <2> SUFFICES ASSUME SyncInv, NEW w \in Workers, pc[w] = "answered"
                 PROVE  /\ answer[w].kind \in {"fresh", "replayed"} => WholeOrFlagged(answer[w].result)
                        /\ answer[w].kind = "replayed" =>
                              \E i \in DOMAIN fresh[KeyOf[req[w]]] :
                                 fresh[KeyOf[req[w]]][i] = answer[w].result
      BY DEF SoundResults, WholeWindowOrFlagged, ReplayOfAFreshResult, Got, WholeOrFlagged, FirstPages
    <2> QED BY DEF SyncInv, ServiceInv, AnswerGiven
  <1> QED BY <1>1, SyncInvAlways, PTL

\* The cache read before the pull and written after it answers a key un-replayed
\* at most once for each thread of the pool: with one thread, exactly once.
THEOREM OncePerThread == SyncSpec => []FreshOncePerThread
PROOF
  <1>1. SyncInv => FreshOncePerThread
    <2> SUFFICES ASSUME SyncInv, NEW k \in Keys
                 PROVE  Len(fresh[k]) <= Cardinality(Workers)
      BY DEF FreshOncePerThread
    <2>1. fresh[k] \in Seq(Results) /\ Len(fresh[k]) \in Nat
      BY DEF SyncInv, SyncTyped
    <2>2. CASE fresh[k] = <<>>
      BY <2>2, PullingFinite
    <2>3. CASE fresh[k] # <<>>
      <3>1. Len(fresh[k]) + Cardinality(Pulling(k)) <= Cardinality(Workers)
        BY <2>3 DEF SyncInv, CacheInv
      <3> QED BY <2>1, <3>1, PullingFinite
    <2> QED BY <2>2, <2>3
  <1> QED BY <1>1, SyncInvAlways, PTL

\* What a sync is charged is what it cost, whatever the other threads do to the
\* counter: nothing for a replay, a call per page for a result, the failed call
\* too when the provider gives up, the pages it had when the cap refuses.
THEOREM ChargesAreCosts == SyncSpec => []ChargedForWhatItCost
PROOF
  <1>1. SyncInv => ChargedForWhatItCost
    BY DEF SyncInv, ServiceInv, AnswerGiven, ChargedForWhatItCost, Got
  <1> QED BY <1>1, SyncInvAlways, PTL

-----------------------------------------------------------------------------
(* 4. The books *)

\* The counter inside the sync is the counter.
LEMMA SyncIsSpec == SyncSpec => Spec
PROOF
  <1>1. SyncInit => Init
    BY DEF SyncInit
  <1>2. [SyncNext]_allVars => [Next]_vars
    <2> SUFFICES ASSUME [SyncNext]_allVars PROVE [Next]_vars
      OBVIOUS
    <2>1. ASSUME NEW w \in Workers, Serve(w) PROVE Worker(w) \/ UNCHANGED vars
      <3>1. CASE Charge(w) \/ AskStatus(w)
        BY <3>1 DEF Charge, AskStatus, Worker, Ops
      <3>2. CASE InCounter(w) \/ Charged(w) \/ Exceeded(w) \/ Refused(w) \/ Finish(w)
        BY <3>2 DEF InCounter, Charged, Exceeded, Refused, Finish, Worker
      <3>3. CASE PageArrives(w) \/ Retry(w) \/ (\E v \in Verdicts : Parse(w, v)) \/ Reply(w)
                 \/ (\E kind \in {"provider_unavailable", "internal_error"} : CallFails(w, kind))
        BY <3>3 DEF PageArrives, Retry, Parse, Reply, CallFails
      <3> QED BY <2>1, <3>1, <3>2, <3>3 DEF Serve
    <2>2. CASE \E w \in Workers, r \in Requests : Begin(w, r)
      BY <2>2 DEF Begin
    <2>3. CASE SyncRestart
      BY <2>3 DEF SyncRestart, Next
    <2>4. CASE UNCHANGED allVars
      BY <2>4 DEF allVars
    <2> QED BY <2>1, <2>2, <2>3, <2>4 DEF SyncNext, Next
  <1> QED BY <1>1, <1>2, PTL DEF SyncSpec, Spec

-----------------------------------------------------------------------------
(* The provider's requests against the recorded calls.                     *)

Requested == MaxRetries + 1

\* What is still to come of a call that is paid for: every try left of the call
\* under way, all of them when it has not begun.
TriesLeft(w) == IF pc[w] = "calling" THEN Requested - attempt[w]
                ELSE IF pc[w] = "charging" /\ step[w] = "accepted" THEN Requested
                ELSE 0

Outstanding == [w \in Workers |-> TriesLeft(w)]

BookTyped == /\ attempt \in [Workers -> 0..MaxRetries]
             /\ http \in Nat
             /\ pc \in [Workers -> PCs]

RequestInv == /\ BookTyped
              /\ http + SumFunction(Outstanding) <= Requested * Len(callTime)

OutstandingTyped == /\ Outstanding \in [Workers -> Nat]
                    /\ SumFunction(Outstanding) \in Nat
                    /\ Requested \in Nat \ {0}

\* The retries outstanding are a natural per worker.
LEMMA OutstandingType == BookTyped => OutstandingTyped
PROOF
  <1> SUFFICES ASSUME BookTyped PROVE OutstandingTyped
    OBVIOUS
  <1>1. MaxRetries \in Nat /\ Requested \in Nat \ {0}
    BY SyncAssumption DEF Requested
  <1>2. ASSUME NEW w \in Workers PROVE TriesLeft(w) \in Nat
    <2>1. attempt[w] \in 0..MaxRetries
      BY DEF BookTyped
    <2>2. Requested - attempt[w] \in Nat
      BY <1>1, <2>1 DEF Requested
    <2> QED BY <1>1, <2>2 DEF TriesLeft
  <1>3. Outstanding \in [Workers -> Nat]
    BY <1>2 DEF Outstanding
  <1>4. IsFiniteSet(Workers) /\ DOMAIN Outstanding = Workers /\ \A w \in Workers : Outstanding[w] \in Nat
    BY <1>3, SyncAssumption
  <1>5. SumFunctionOnSet(Outstanding, Workers) \in Nat
    BY <1>4, SumType
  <1> QED BY <1>1, <1>3, <1>4, <1>5 DEF SumFunction, OutstandingTyped

\* A step of w moves the total by what it moves w's own tries.
LEMMA OutstandingMoves ==
    ASSUME BookTyped, BookTyped', NEW w \in Workers,
           \A u \in Workers \ {w} : pc'[u] = pc[u] /\ attempt'[u] = attempt[u] /\ step'[u] = step[u]
    PROVE  SumFunction(Outstanding)' = SumFunction(Outstanding) - TriesLeft(w) + TriesLeft(w)'
PROOF
  <1>1. Outstanding \in [Workers -> Nat] /\ Outstanding' \in [Workers -> Nat]
    <2>1. BookTyped' => OutstandingTyped'
      BY OutstandingType, PTL
    <2> QED BY <2>1, OutstandingType DEF OutstandingTyped
  <1>2. \A u \in Workers : Outstanding[u] = TriesLeft(u) /\ Outstanding'[u] = TriesLeft(u)'
    BY DEF Outstanding
  <1>3. \A u \in Workers \ {w} : Outstanding'[u] = Outstanding[u]
    BY <1>2 DEF TriesLeft
  <1>4. Outstanding' = [Outstanding EXCEPT ![w] = TriesLeft(w)']
    BY <1>1, <1>2, <1>3
  <1>5. TriesLeft(w)' \in Int /\ Outstanding \in [Workers -> Int] /\ Outstanding[w] = TriesLeft(w)
    BY <1>1, <1>2
  <1>6. IsFiniteSet(Workers)
    BY SyncAssumption
  <1>7. SumFunction([Outstanding EXCEPT ![w] = TriesLeft(w)']) = SumFunction(Outstanding) - Outstanding[w] + TriesLeft(w)'
    BY <1>5, <1>6, SumExcept
  <1> QED BY <1>4, <1>5, <1>7

\* Nothing is outstanding while nobody is served.
Quiet == \A w \in Workers : pc[w] = "idle"
NoneLeft == SumFunction(Outstanding) = 0

\* When no worker is calling, none is outstanding.
LEMMA NoTriesLeft == Quiet => NoneLeft
PROOF
  <1> SUFFICES ASSUME Quiet PROVE NoneLeft
    OBVIOUS
  <1>1. DOMAIN Outstanding = Workers /\ \A w \in Workers : Outstanding[w] = 0
    BY DEF Outstanding, TriesLeft, Quiet
  <1> QED BY <1>1, SyncAssumption, SumZero DEF SumFunction, NoneLeft

\* The books start typed.
LEMMA BookTypedInit == SyncInit => BookTyped
PROOF
  <1> USE SyncAssumption
  <1> QED BY DEF SyncInit, BookTyped, PCs

\* Every step keeps them typed.
LEMMA BookTypedStep == BookTyped /\ [SyncNext]_allVars => BookTyped'
PROOF
  <1> SUFFICES ASSUME BookTyped, [SyncNext]_allVars PROVE BookTyped'
    OBVIOUS
  <1> USE SyncAssumption DEF BookTyped, PCs
  <1>1. ASSUME NEW w \in Workers, Serve(w) PROVE BookTyped'
    <2>1. CASE Charge(w) \/ Charged(w) \/ Exceeded(w)
      BY <2>1 DEF Charge, Charged, Exceeded, sharedVars
    <2>2. CASE InCounter(w) \/ AskStatus(w)
      BY <2>2 DEF InCounter, AskStatus, syncVars, localVars, sharedVars
    <2>3. CASE PageArrives(w)
      BY <2>3 DEF PageArrives
    <2>4. CASE Retry(w)
      BY <2>4 DEF Retry
    <2>5. CASE \E kind \in {"provider_unavailable", "internal_error"} : CallFails(w, kind)
      BY <2>5 DEF CallFails
    <2>6. CASE \E v \in Verdicts : Parse(w, v)
      BY <2>6 DEF Parse, sharedVars
    <2>7. CASE Refused(w)
      BY <2>7 DEF Refused, sharedVars
    <2>8. CASE Finish(w)
      BY <2>8 DEF Finish
    <2>9. CASE Reply(w)
      BY <2>9 DEF Reply, Reset, sharedVars
    <2> QED BY <1>1, <2>1, <2>2, <2>3, <2>4, <2>5, <2>6, <2>7, <2>8, <2>9 DEF Serve
  <1>2. CASE (ClockTick /\ UNCHANGED syncVars) \/ UNCHANGED allVars
    BY <1>2 DEF allVars, syncVars, localVars, sharedVars
  <1>3. CASE \E w \in Workers, r \in Requests : Begin(w, r)
    BY <1>3 DEF Begin
  <1>4. CASE SyncRestart
    BY <1>4 DEF SyncRestart
  <1> QED BY <1>1, <1>2, <1>3, <1>4 DEF SyncNext

\* A step of w keeps the bound when what it sends and what it leaves to try do
\* not exceed what it had left to try and what it records.
LEMMA RequestStep ==
    ASSUME RequestInv, BookTyped', NEW w \in Workers, NEW n \in Nat,
           callTime \in Seq(Time), Len(callTime') = Len(callTime) + n,
           \A u \in Workers \ {w} : pc'[u] = pc[u] /\ attempt'[u] = attempt[u] /\ step'[u] = step[u],
           (http' - http) + TriesLeft(w)' <= TriesLeft(w) + Requested * n
    PROVE  RequestInv'
PROOF
  <1>1. SumFunction(Outstanding)' = SumFunction(Outstanding) - TriesLeft(w) + TriesLeft(w)'
    BY OutstandingMoves DEF RequestInv
  <1>2. http \in Int /\ http' \in Int /\ Len(callTime) \in Nat
    BY DEF RequestInv, BookTyped
  <1>3. OutstandingTyped /\ OutstandingTyped'
    <2>1. BookTyped' => OutstandingTyped'
      BY OutstandingType, PTL
    <2> QED BY <2>1, OutstandingType DEF RequestInv
  <1>4. /\ SumFunction(Outstanding) \in Nat /\ Requested \in Nat
        /\ TriesLeft(w) \in Nat /\ TriesLeft(w)' \in Nat
    BY <1>3 DEF OutstandingTyped, Outstanding
  <1>5. Requested * (Len(callTime) + n) = Requested * Len(callTime) + Requested * n
        /\ Requested * Len(callTime) \in Int /\ Requested * n \in Int
    BY <1>2, <1>4, SMTT(40)
  <1>6. http + SumFunction(Outstanding) <= Requested * Len(callTime)
    BY DEF RequestInv
  <1>7. http' + SumFunction(Outstanding)' <= Requested * (Len(callTime) + n)
    BY <1>1, <1>2, <1>4, <1>5, <1>6, SMTT(40)
  <1> QED BY <1>7 DEF RequestInv

\* Every step keeps the requests made within those there is a try for.
LEMMA RequestInvStep ==
    TypeOK /\ RequestInv /\ [SyncNext]_allVars => RequestInv'
PROOF
  <1> SUFFICES ASSUME TypeOK, RequestInv, [SyncNext]_allVars PROVE RequestInv'
    OBVIOUS
  <1>1. /\ BookTyped /\ BookTyped' /\ callTime \in Seq(Time) /\ Len(callTime) \in Nat
        /\ Requested \in Nat \ {0} /\ Requested * 0 = 0 /\ Requested * 1 = Requested
    <2>1. BookTyped /\ BookTyped' /\ callTime \in Seq(Time)
      BY BookTypedStep DEF RequestInv, TypeOK
    <2> QED BY <2>1, OutstandingType DEF OutstandingTyped
  <1> DEFINE Others(w) == \A u \in Workers \ {w} :
                pc'[u] = pc[u] /\ attempt'[u] = attempt[u] /\ step'[u] = step[u]
  <1>2. ASSUME NEW w \in Workers, Others(w), callTime' = callTime,
               (http' - http) + TriesLeft(w)' <= TriesLeft(w)
        PROVE  RequestInv'
    <2>1. (http' - http) + TriesLeft(w)' <= TriesLeft(w) + Requested * 0 /\ Len(callTime') = Len(callTime) + 0
      <3>1. TriesLeft(w) \in Int
        BY <1>1, OutstandingType DEF OutstandingTyped, Outstanding
      <3> QED BY <1>1, <1>2, <3>1
    <2> QED BY <1>1, <1>2, <2>1, RequestStep
  <1>3. ASSUME NEW w \in Workers, Serve(w) PROVE RequestInv'
    <2>1. /\ pc \in [Workers -> PCs] /\ attempt \in [Workers -> 0..MaxRetries]
          /\ step \in [Workers -> Steps] /\ http \in Nat /\ MaxRetries \in Nat
          /\ attempt[w] \in 0..MaxRetries
      BY <1>1, SyncAssumption DEF BookTyped, TypeOK
    <2>2. CASE Charge(w) \/ Exceeded(w) \/ AskStatus(w) \/ Refused(w) \/ Finish(w)
      <3>1. /\ UNCHANGED <<callTime, http, attempt>> /\ Others(w)
            /\ pc'[w] # "calling" /\ (pc'[w] = "charging" => step'[w] = "read")
            /\ pc[w] # "calling" /\ (pc[w] = "charging" => step[w] # "accepted")
        BY <2>1, <2>2 DEF Charge, Exceeded, AskStatus, Refused, Finish, Enter, Leave,
              budgetVars, sharedVars, syncVars, localVars
      <3>2. TriesLeft(w)' = 0 /\ TriesLeft(w) = 0
        BY <3>1 DEF TriesLeft
      <3> QED BY <1>2, <3>1, <3>2, <2>1
    <2>3. CASE Charged(w)
      <3>1. /\ UNCHANGED <<callTime, http>> /\ Others(w)
            /\ pc'[w] = "calling" /\ attempt'[w] = 0
            /\ pc[w] = "charging" /\ step[w] = "accepted"
        BY <2>1, <2>3 DEF Charged, Leave, budgetVars, sharedVars
      <3>2. TriesLeft(w)' = Requested - 0 /\ TriesLeft(w) = Requested
        BY <3>1 DEF TriesLeft
      <3> QED BY <1>2, <3>1, <3>2, <2>1, <1>1
    <2>4. CASE InCounter(w)
      <3>1. UNCHANGED <<pc, attempt, http>>
        BY <2>4 DEF InCounter, syncVars, localVars, sharedVars
      <3>2. CASE Record(w)
        <4>1. /\ Others(w) /\ step[w] = "record" /\ Len(callTime') = Len(callTime) + 1
          BY <1>1, <2>1, <3>1, <3>2 DEF Record
        <4>2. TriesLeft(w)' <= TriesLeft(w) + Requested
          <5>1. CASE pc[w] = "calling"
            BY <5>1, <3>1, <2>1, <1>1 DEF TriesLeft
          <5>2. CASE pc[w] # "calling"
            <6>1. TriesLeft(w) = 0 /\ TriesLeft(w)' \in {0, Requested}
              BY <5>2, <3>1, <4>1 DEF TriesLeft
            <6> QED BY <6>1, <1>1
          <5> QED BY <5>1, <5>2
        <4>3. (http' - http) + TriesLeft(w)' <= TriesLeft(w) + Requested * 1
          <5>1. TriesLeft(w) \in Int /\ TriesLeft(w)' \in Int
            BY <1>1, <2>1, <3>1 DEF TriesLeft
          <5> QED BY <1>1, <2>1, <3>1, <4>2, <5>1
        <4> QED BY <1>1, <4>1, <4>3, RequestStep
      <3>3. CASE ~Record(w)
        <4>1. /\ UNCHANGED callTime /\ Others(w)
              /\ step[w] # "accepted" /\ step'[w] # "accepted"
          BY <2>1, <2>4, <3>1, <3>3 DEF InCounter, Inside, ReadCalls, Rebind, Refuse, Pass, Report, budgetVars
        <4>2. TriesLeft(w)' = TriesLeft(w)
          BY <3>1, <4>1 DEF TriesLeft
        <4>3. TriesLeft(w) \in Int
          BY <1>1, <2>1 DEF TriesLeft
        <4> QED BY <1>2, <3>1, <4>1, <4>2, <4>3, <2>1
      <3> QED BY <3>2, <3>3
    <2>5. CASE \/ PageArrives(w)
               \/ pc[w] = "calling" /\ \E kind \in {"provider_unavailable", "internal_error"} : CallFails(w, kind)
      <3>1. /\ UNCHANGED <<callTime, attempt, step>> /\ Others(w) /\ http' = http + 1
            /\ pc[w] = "calling" /\ pc'[w] \in {"parse", "page", "answered"}
        BY <2>1, <2>5 DEF PageArrives, CallFails, vars, budgetVars, capVars
      <3>2. TriesLeft(w)' = 0 /\ TriesLeft(w) = Requested - attempt[w]
        BY <3>1 DEF TriesLeft
      <3>3. Requested - attempt[w] >= 1
        BY <2>1 DEF Requested
      <3> QED BY <1>1, <1>2, <2>1, <3>1, <3>2, <3>3
    <2>6. CASE Retry(w)
      <3>1. /\ UNCHANGED <<callTime, step, pc>> /\ Others(w) /\ http' = http + 1
            /\ pc[w] = "calling" /\ attempt'[w] = attempt[w] + 1
        BY <2>1, <2>6 DEF Retry, vars, budgetVars, capVars
      <3>2. TriesLeft(w)' = Requested - (attempt[w] + 1) /\ TriesLeft(w) = Requested - attempt[w]
        BY <3>1 DEF TriesLeft
      <3> QED BY <1>1, <1>2, <2>1, <3>1, <3>2
    <2>7. CASE \/ Reply(w) \/ \E v \in Verdicts : Parse(w, v)
               \/ pc[w] = "parse" /\ \E kind \in {"provider_unavailable", "internal_error"} : CallFails(w, kind)
      <3>1. /\ UNCHANGED <<callTime, step, http>> /\ Others(w)
            /\ pc[w] \in {"answered", "parse"} /\ pc'[w] \in {"idle", "status", "answered"}
        BY <2>1, <2>7 DEF Reply, Reset, Parse, CallFails, vars, budgetVars, capVars, sharedVars
      <3>2. TriesLeft(w)' = 0 /\ TriesLeft(w) = 0
        BY <3>1 DEF TriesLeft
      <3> QED BY <1>2, <2>1, <3>1, <3>2
    <2>8. ASSUME NEW kind \in {"provider_unavailable", "internal_error"}, CallFails(w, kind)
          PROVE  RequestInv'
      <3>1. CASE pc[w] = "calling"
        BY <2>5, <2>8, <3>1
      <3>2. CASE pc[w] = "parse" /\ kind = "internal_error"
        BY <2>7, <2>8, <3>2
      <3> QED BY <2>8, <3>1, <3>2 DEF CallFails
    <2> QED BY <1>3, <2>2, <2>3, <2>4, <2>5, <2>6, <2>7, <2>8 DEF Serve
  <1>4. CASE (ClockTick /\ UNCHANGED syncVars) \/ UNCHANGED allVars
    <2>1. UNCHANGED <<pc, attempt, step, http, callTime>>
      BY <1>4 DEF ClockTick, Tick, capVars, allVars, vars, budgetVars, syncVars, localVars, sharedVars
    <2>2. Outstanding' = Outstanding
      BY <2>1 DEF Outstanding, TriesLeft
    <2> QED BY <1>1, <2>1, <2>2 DEF RequestInv
  <1>5. ASSUME NEW w \in Workers, NEW r \in Requests, Begin(w, r) PROVE RequestInv'
    <2>1. /\ UNCHANGED <<callTime, step, http, attempt>> /\ Others(w)
          /\ pc[w] = "idle" /\ pc'[w] \in {"page", "answered"}
      BY <1>1, <1>5 DEF Begin, vars, budgetVars, capVars, BookTyped
    <2>2. TriesLeft(w)' = 0 /\ TriesLeft(w) = 0
      BY <2>1 DEF TriesLeft
    <2> QED BY <1>1, <1>2, <2>1, <2>2 DEF BookTyped
  <1>6. CASE SyncRestart
    <2>1. http' = 0 /\ callTime' = <<>> /\ \A w \in Workers : pc'[w] = "idle"
      BY <1>6 DEF SyncRestart, ProcessRestart, Restart
    <2>2. Quiet' => NoneLeft'
      BY NoTriesLeft, PTL
    <2>3. SumFunction(Outstanding)' = 0
      BY <2>1, <2>2 DEF Quiet, NoneLeft
    <2> QED BY <1>1, <2>1, <2>3 DEF RequestInv
  <1> QED BY <1>3, <1>4, <1>5, <1>6 DEF SyncNext

\* Retries are not charged, yet the provider never sees more than max_retries + 1
\* requests for a recorded call, however many threads share the counter.
THEOREM RequestsStayBounded == SyncSpec => []RequestsBounded
PROOF
  <1>1. SyncInit => RequestInv
    <2> SUFFICES ASSUME SyncInit PROVE RequestInv
      OBVIOUS
    <2>1. Quiet /\ http = 0 /\ callTime = <<>>
      BY DEF SyncInit, Quiet, Init, BudgetInit
    <2>2. BookTyped /\ SumFunction(Outstanding) = 0 /\ Requested \in Nat
      BY <2>1, BookTypedInit, NoTriesLeft, OutstandingType DEF NoneLeft, OutstandingTyped
    <2> QED BY <2>1, <2>2 DEF RequestInv
  <1>2. TypeOK /\ RequestInv => RequestsBounded
    <2> SUFFICES ASSUME TypeOK, RequestInv PROVE RequestsBounded
      OBVIOUS
    <2>1. SumFunction(Outstanding) \in Nat /\ Requested \in Nat
      BY OutstandingType DEF RequestInv, OutstandingTyped
    <2>2. Requested * Len(callTime) \in Int /\ http \in Nat
      BY <2>1 DEF TypeOK, RequestInv, BookTyped
    <2>3. http <= Requested * Len(callTime)
      BY <2>1, <2>2 DEF RequestInv
    <2> QED BY <2>3 DEF RequestsBounded, Requested
  <1> QED BY <1>1, <1>2, RequestInvStep, SyncIsSpec, TypeCorrect, PTL DEF SyncSpec

-----------------------------------------------------------------------------
(* One thread: the budget a sync began with is its own.                    *)

Used(t) == Cardinality(InWindow(callTime, t))

\* What the running sync has recorded, the call just accepted included.
PaidFor(w) == spent[w] + (IF pc[w] = "charging" /\ step[w] = "accepted" THEN 1 ELSE 0)

Needed(w) == IF Available(w) <= MaxPages THEN Available(w) ELSE MaxPages

\* What runs of the counter belongs to which part of the handler.
CounterPhase(w) ==
    /\ pc[w] \in {"charging", "status", "refusing"} \/ step[w] = "idle"
    /\ pc[w] \in {"status", "refusing"} => step[w] = "idle" \/ op[w] = "status"
    /\ step[w] \in {"record", "accepted", "refused"} => op[w] = "consume"

\* While a sync runs, the window holds what it held when the sync began, less
\* what has grown old, and what the sync itself has recorded.
Ledger(w) ==
    /\ pc[w] \notin {"idle", "answered"} => Used(clock) <= CallsAllowed - room[w] + PaidFor(w)
    /\ pc[w] = "charging" => Used(at[w]) <= CallsAllowed - room[w] + PaidFor(w)
    /\ pc[w] = "refusing" => room[w] <= spent[w]
    /\ Got(w, "rate_cap_exceeded") => room[w] < Needed(w)

RoomTyped == room \in [Workers -> Int]

LedgerInv == /\ RoomTyped
             /\ \A w \in Workers : CounterPhase(w) /\ Ledger(w)

\* What has been used of a window is a natural.
LEMMA UsedType ==
    ASSUME TypeOK, NEW t \in Time
    PROVE  /\ Used(t) \in Nat /\ IsFiniteSet(InWindow(callTime, t))
           /\ clock \in Time /\ \A w \in Workers : at[w] \in Time
PROOF
  <1>1. t \in Int /\ callTime \in Seq(Time)
    BY DEF TypeOK, Time
  <1> QED BY <1>1, InWindowFinite DEF Used, TypeOK

\* A step that records nothing and keeps the accounts keeps the ledger.
LEMMA LedgerKeeps ==
    ASSUME NEW w \in Workers, Ledger(w), callTime' = callTime,
           room'[w] = room[w], PaidFor(w)' = PaidFor(w), req'[w] = req[w],
           Used(clock') <= Used(clock) \/ pc'[w] \in {"idle", "answered"},
           TypeOK, TypeOK', room \in [Workers -> Int], spent[w] \in Int,
           pc[w] \notin {"idle", "answered"} \/ pc'[w] \in {"idle", "answered"},
           pc'[w] = "charging" => \/ pc[w] = "charging" /\ at'[w] = at[w]
                                  \/ at'[w] = clock,
           pc'[w] = "refusing" => spent'[w] = spent[w] /\ (pc[w] = "refusing" \/ room[w] <= spent[w]),
           Got(w, "rate_cap_exceeded")' => Got(w, "rate_cap_exceeded") \/ room[w] < Needed(w)
    PROVE  Ledger(w)'
PROOF
  <1>1. /\ Used(clock)' = Used(clock') /\ Used(at[w])' = Used(at'[w])
    BY DEF Used, InWindow
  <1>2. /\ Used(clock) \in Int /\ Used(clock') \in Int /\ Used(at'[w]) \in Int
        /\ room[w] \in Int /\ PaidFor(w) \in Int /\ CallsAllowed \in Int
    <2>1. clock' \in Time /\ at'[w] \in Time /\ clock \in Time
      BY DEF TypeOK
    <2>2. Used(clock) \in Int /\ Used(clock') \in Int /\ Used(at'[w]) \in Int
      BY <2>1, UsedType
    <2> QED BY <2>2, BudgetAssumption DEF PaidFor
  <1>3. pc'[w] \notin {"idle", "answered"} => Used(clock') <= CallsAllowed - room[w] + PaidFor(w)
    BY <1>2 DEF Ledger
  <1>4. pc'[w] = "charging" => Used(at'[w]) <= CallsAllowed - room[w] + PaidFor(w)
    BY <1>2 DEF Ledger
  <1>5. pc'[w] = "refusing" => room[w] <= spent'[w]
    BY DEF Ledger
  <1>6. Got(w, "rate_cap_exceeded")' => room[w] < Needed(w)'
    BY DEF Ledger, Needed, Available
  <1> QED BY <1>1, <1>3, <1>4, <1>5, <1>6 DEF Ledger

\* Every call recorded so far was stamped before now, so a later window that ends
\* now holds no call the earlier one did not.
LEMMA WindowsShrink ==
    ASSUME TypeOK, SerialInv, NEW w \in Workers, NEW t \in Time, at[w] <= t, t + 1 \in Time
    PROVE  Used(t + 1) <= Used(t)
PROOF
  <1>1. /\ IsFiniteSet(InWindow(callTime, t)) /\ t \in Int /\ at[w] \in Int /\ Window \in Int
        /\ \A i \in DOMAIN callTime : callTime[i] \in Int /\ callTime[i] <= at[w]
    BY UsedType, BudgetAssumption DEF TypeOK, Time, SerialInv
  <1>2. InWindow(callTime, t + 1) \subseteq InWindow(callTime, t)
    BY <1>1 DEF InWindow
  <1> QED BY <1>1, <1>2, FS_Subset DEF Used

\* One element more counts at most one more.
LEMMA OneElementMore ==
    ASSUME NEW S, IsFiniteSet(S), NEW x
    PROVE  IsFiniteSet(S \union {x}) /\ Cardinality(S \union {x}) <= Cardinality(S) + 1
PROOF
  <1>1. Cardinality(S) \in Nat
    BY FS_CardinalityType
  <1>2. CASE x \in S
    BY <1>1, <1>2, FS_AddElement
  <1>3. CASE x \notin S
    BY <1>1, <1>3, FS_AddElement
  <1> QED BY <1>2, <1>3

\* An accepted call is one call more in any window.
LEMMA OneMoreUsed ==
    ASSUME TypeOK, NEW w \in Workers, Record(w), NEW t \in Time
    PROVE  Cardinality(InWindow(callTime', t)) <= Used(t) + 1
PROOF
  <1> DEFINE new == Len(callTime) + 1
  <1>1. InWindow(callTime', t) \subseteq InWindow(callTime, t) \union {new}
    <2>1. callTime' = Append(callTime, at[w]) /\ callTime \in Seq(Time)
      BY DEF Record, TypeOK
    <2>2. /\ DOMAIN callTime' \subseteq DOMAIN callTime \union {new}
          /\ \A i \in DOMAIN callTime : callTime'[i] = callTime[i]
      BY <2>1
    <2> HIDE DEF new
    <2> QED BY <2>2 DEF InWindow
  <1>2. IsFiniteSet(InWindow(callTime, t)) /\ Used(t) \in Nat
    BY UsedType
  <1> HIDE DEF new
  <1>3. /\ IsFiniteSet(InWindow(callTime, t) \union {new})
        /\ Cardinality(InWindow(callTime, t) \union {new}) <= Used(t) + 1
    BY <1>2, OneElementMore DEF Used
  <1>4. /\ Cardinality(InWindow(callTime', t)) <= Cardinality(InWindow(callTime, t) \union {new})
        /\ Cardinality(InWindow(callTime', t)) \in Nat
        /\ Cardinality(InWindow(callTime, t) \union {new}) \in Nat
    BY <1>1, <1>3, FS_Subset, FS_CardinalityType
  <1> QED BY <1>2, <1>3, <1>4

\* The handler uses the counter as it should: consume() before a call, status()
\* for an answer.
LEMMA PhaseStep ==
    ASSUME TypeOK, SyncTyped, NEW w \in Workers, CounterPhase(w), SingleWorker, [SyncNext]_allVars
    PROVE  CounterPhase(w)'
PROOF
  <1> USE DEF CounterPhase
  <1>1. step \in [Workers -> Steps] /\ op \in [Workers -> Ops] /\ pc \in [Workers -> PCs]
    BY DEF TypeOK, SyncTyped
  <1>2. CASE (ClockTick /\ UNCHANGED syncVars) \/ UNCHANGED allVars
    BY <1>2 DEF ClockTick, capVars, allVars, vars, syncVars, localVars
  <1>3. ASSUME NEW r \in Requests, Begin(w, r) PROVE CounterPhase(w)'
    BY <1>1, <1>3 DEF Begin, vars, capVars
  <1>4. CASE SyncRestart
    BY <1>4 DEF SyncRestart, ProcessRestart
  <1>5. CASE Charge(w) \/ Charged(w) \/ Exceeded(w) \/ AskStatus(w) \/ Refused(w) \/ Finish(w)
    BY <1>1, <1>5 DEF Charge, Charged, Exceeded, AskStatus, Refused, Finish, Enter, Leave, syncVars, localVars
  <1>6. CASE InCounter(w)
    BY <1>1, <1>6 DEF InCounter, Inside, ReadCalls, Rebind, Refuse, Pass, Report, Record, syncVars, localVars
  <1>7. CASE PageArrives(w) \/ Retry(w) \/ Reply(w) \/ (\E v \in Verdicts : Parse(w, v))
             \/ \E kind \in {"provider_unavailable", "internal_error"} : CallFails(w, kind)
    BY <1>1, <1>7 DEF PageArrives, Retry, Reply, Reset, Parse, CallFails, vars, capVars
  <1> QED BY <1>2, <1>3, <1>4, <1>5, <1>6, <1>7 DEF SyncNext, Serve, SingleWorker

\* Every step keeps the ledger of a worker that serves alone.
LEMMA LedgerStep ==
    ASSUME CapInv, TypeOK', SerialInv, SyncInv, RoomTyped, SingleWorker,
           NEW w \in Workers, CounterPhase(w), Ledger(w), [SyncNext]_allVars
    PROVE  Ledger(w)'
PROOF
  <1>1. /\ step \in [Workers -> Steps] /\ op \in [Workers -> Ops] /\ pc \in [Workers -> PCs]
        /\ spent \in [Workers -> Nat] /\ spent[w] \in Int /\ room \in [Workers -> Int]
        /\ DOMAIN answer = Workers
        /\ at \in [Workers -> Time] /\ clock \in Time /\ clock \in Int /\ at[w] \in Int
        /\ req \in [Workers -> Requests \cup {Nothing}]
        /\ pages \in [Workers -> Seq(Nat)]
        /\ TypeOK
    <2>1. TypeOK /\ SyncTyped /\ \A t \in Time : t \in Int
      BY DEF CapInv, SyncInv, Time
    <2>2. /\ pc \in [Workers -> PCs] /\ spent \in [Workers -> Nat] /\ DOMAIN answer = Workers
          /\ req \in [Workers -> Requests \cup {Nothing}] /\ pages \in [Workers -> Seq(Nat)]
      BY <2>1 DEF SyncTyped
    <2>3. /\ step \in [Workers -> Steps] /\ op \in [Workers -> Ops]
          /\ at \in [Workers -> Time] /\ clock \in Time
      BY <2>1 DEF TypeOK
    <2> QED BY <2>1, <2>2, <2>3 DEF RoomTyped
  <1>2. Used(clock) \in Int
    BY <1>1, UsedType
  <1>3. CASE (ClockTick /\ UNCHANGED syncVars) \/ UNCHANGED allVars
    <2>1. /\ UNCHANGED <<callTime, pc, step, at, spent, room, req, answer>>
          /\ (clock' = clock + 1 /\ clock' \in Time) \/ clock' = clock
      BY <1>3 DEF ClockTick, Tick, capVars, allVars, vars, budgetVars, syncVars, localVars, TypeOK
    <2>2. Used(clock') <= Used(clock)
      BY <1>1, <1>2, <2>1, WindowsShrink DEF SerialInv
    <2>3. PaidFor(w)' = PaidFor(w) /\ (Got(w, "rate_cap_exceeded")' => Got(w, "rate_cap_exceeded"))
      BY <2>1 DEF PaidFor, Got
    <2> QED BY <1>1, <2>1, <2>2, <2>3, LedgerKeeps DEF Ledger
  <1>4. ASSUME NEW r \in Requests, Begin(w, r) PROVE Ledger(w)'
    <2>1. /\ UNCHANGED <<callTime, clock, at, step>>
          /\ pc[w] = "idle" /\ pc'[w] \in {"page", "answered"} /\ spent'[w] = spent[w]
          /\ room'[w] = CallsAllowed - Used(clock)
          /\ pc'[w] = "answered" => answer'[w].kind = "replayed"
      BY <1>1, <1>4 DEF Begin, vars, budgetVars, capVars, CallsLeft, Used, Answered
    <2>2. spent[w] = 0
      BY <2>1 DEF SyncInv, ServiceInv
    <2>3. PaidFor(w)' = 0 /\ Used(clock)' = Used(clock)
      BY <2>1, <2>2 DEF PaidFor, Used, InWindow
    <2>4. ~Got(w, "rate_cap_exceeded")'
      BY <2>1 DEF Got
    <2>5. Used(clock) <= CallsAllowed - room'[w] + 0
      BY <2>1, <1>2, BudgetAssumption
    <2> QED BY <2>1, <2>3, <2>4, <2>5 DEF Ledger
  <1>5. CASE SyncRestart
    BY <1>5 DEF SyncRestart, Ledger, Got
  <1>6. CASE Charge(w)
    <2>1. /\ UNCHANGED <<callTime, clock, spent, room, req>>
          /\ pc[w] = "page" /\ pc'[w] = "charging" /\ step'[w] = "read" /\ at'[w] = clock
      BY <1>1, <1>6 DEF Charge, Enter, budgetVars
    <2>2. PaidFor(w)' = PaidFor(w) /\ Used(clock') <= Used(clock) /\ ~Got(w, "rate_cap_exceeded")'
      BY <1>2, <2>1 DEF PaidFor, Got
    <2> QED BY <1>1, <2>1, <2>2, LedgerKeeps
  <1>7. CASE Charged(w)
    <2>1. /\ UNCHANGED <<callTime, clock, at, room, req>>
          /\ pc[w] = "charging" /\ step[w] = "accepted" /\ pc'[w] = "calling"
          /\ spent'[w] = spent[w] + 1
      BY <1>1, <1>7 DEF Charged, Leave, budgetVars
    <2>2. PaidFor(w)' = PaidFor(w) /\ Used(clock') <= Used(clock) /\ ~Got(w, "rate_cap_exceeded")'
      BY <1>1, <1>2, <2>1 DEF PaidFor, Got
    <2> QED BY <1>1, <2>1, <2>2, LedgerKeeps
  <1>8. CASE Exceeded(w)
    <2>1. /\ UNCHANGED <<callTime, clock, at, room, req, spent>>
          /\ pc[w] = "charging" /\ step[w] = "refused" /\ pc'[w] = "refusing"
      BY <1>1, <1>8 DEF Exceeded, Leave, budgetVars
    <2>2. PaidFor(w)' = PaidFor(w) /\ Used(clock') <= Used(clock) /\ ~Got(w, "rate_cap_exceeded")'
      BY <1>2, <2>1 DEF PaidFor, Got
    <2>3. Used(at[w]) >= CallsAllowed
      BY <2>1, LiveIsWindow DEF CapInv, NoSpuriousRefusal, Used
    <2>4. PaidFor(w) = spent[w] /\ Used(at[w]) <= CallsAllowed - room[w] + PaidFor(w)
      BY <1>1, <2>1 DEF PaidFor, Ledger
    <2>5. Used(at[w]) \in Int /\ room[w] \in Int /\ CallsAllowed \in Int
      BY <1>1, UsedType, BudgetAssumption
    <2>6. room[w] <= spent[w]
      BY <1>1, <2>3, <2>4, <2>5
    <2> QED BY <1>1, <2>1, <2>2, <2>6, LedgerKeeps
  <1>9. CASE Record(w) /\ UNCHANGED syncVars
    <2>1. /\ UNCHANGED <<clock, at, pc, spent, room, answer>>
          /\ step[w] = "record" /\ step'[w] = "accepted"
      BY <1>1, <1>9 DEF Record, syncVars, localVars
    <2>2. pc[w] = "charging"
      BY <2>1 DEF CounterPhase
    <2>3. PaidFor(w)' = PaidFor(w) + 1 /\ PaidFor(w) \in Int
      BY <1>1, <2>1, <2>2 DEF PaidFor
    <2>4. /\ Cardinality(InWindow(callTime', clock)) <= Used(clock) + 1
          /\ Cardinality(InWindow(callTime', at[w])) <= Used(at[w]) + 1
      BY <1>1, <1>9, OneMoreUsed
    <2>5. /\ Used(clock)' \in Int /\ Used(at[w])' \in Int
          /\ Used(clock)' <= Used(clock) + 1 /\ Used(at[w])' <= Used(at[w]) + 1
          /\ Used(at[w]) \in Int
      <3>1. callTime' \in Seq(Time) /\ clock \in Int /\ at[w] \in Int
        BY <1>1 DEF TypeOK
      <3>2. Cardinality(InWindow(callTime', clock)) \in Nat /\ Cardinality(InWindow(callTime', at[w])) \in Nat
        BY <3>1, InWindowFinite
      <3>3. /\ Used(clock)' = Cardinality(InWindow(callTime', clock))
            /\ Used(at[w])' = Cardinality(InWindow(callTime', at[w]))
        BY <2>1 DEF Used, InWindow
      <3> QED BY <1>1, <2>4, <3>2, <3>3, UsedType
    <2>6. room[w] \in Int /\ CallsAllowed \in Int
      BY <1>1, BudgetAssumption
    <2>7. /\ Used(clock)' <= CallsAllowed - room[w] + PaidFor(w)'
          /\ Used(at[w])' <= CallsAllowed - room[w] + PaidFor(w)'
      <3>1. /\ Used(clock) <= CallsAllowed - room[w] + PaidFor(w)
            /\ Used(at[w]) <= CallsAllowed - room[w] + PaidFor(w)
        BY <2>2 DEF Ledger
      <3> QED BY <1>2, <2>3, <2>5, <2>6, <3>1
    <2> QED BY <2>1, <2>2, <2>7 DEF Ledger, Got
  <1>10. CASE InCounter(w) /\ ~Record(w)
    <2>1. /\ UNCHANGED <<clock, at, pc, spent, room, answer, callTime, req>>
          /\ step[w] # "accepted" /\ step'[w] # "accepted"
      BY <1>1, <1>10 DEF InCounter, Inside, ReadCalls, Rebind, Refuse, Pass, Report,
            budgetVars, syncVars, localVars
    <2>2. /\ PaidFor(w)' = PaidFor(w) /\ Used(clock') <= Used(clock)
          /\ Got(w, "rate_cap_exceeded")' => Got(w, "rate_cap_exceeded")
      BY <1>2, <2>1 DEF PaidFor, Got
    <2> QED BY <1>1, <2>1, <2>2, LedgerKeeps DEF Ledger
  <1>11. CASE AskStatus(w)
    <2>1. /\ UNCHANGED <<clock, pc, spent, room, answer, callTime, req>>
          /\ pc[w] \in {"status", "refusing"}
      BY <1>1, <1>11 DEF AskStatus, Enter, budgetVars, syncVars, localVars
    <2>2. /\ PaidFor(w)' = PaidFor(w) /\ Used(clock') <= Used(clock)
          /\ ~Got(w, "rate_cap_exceeded")'
      BY <1>2, <2>1 DEF PaidFor, Got
    <2> QED BY <1>1, <2>1, <2>2, LedgerKeeps DEF Ledger
  <1>12. CASE PageArrives(w) \/ Retry(w) \/ \E v \in Verdicts : Parse(w, v)
    <2>1. /\ UNCHANGED <<clock, step, at, spent, room, answer, callTime, req>>
          /\ pc[w] \in {"calling", "parse"} /\ pc'[w] \in {"page", "calling", "parse", "status"}
      BY <1>1, <1>12 DEF PageArrives, Retry, Parse, vars, budgetVars, capVars, sharedVars
    <2>2. /\ PaidFor(w)' = PaidFor(w) /\ Used(clock') <= Used(clock)
          /\ ~Got(w, "rate_cap_exceeded")'
      BY <1>2, <2>1 DEF PaidFor, Got
    <2> QED BY <1>1, <2>1, <2>2, LedgerKeeps
  <1>13. CASE Refused(w) \/ Finish(w) \/ \E kind \in {"provider_unavailable", "internal_error"} : CallFails(w, kind)
    <2>1. /\ pc'[w] = "answered" /\ UNCHANGED <<room, req>>
          /\ answer'[w].kind = "rate_cap_exceeded" => pc[w] = "refusing"
      BY <1>1, <1>13 DEF Refused, Finish, CallFails, Answered
    <2>2. CASE answer'[w].kind = "rate_cap_exceeded"
      <3>1. /\ room[w] <= spent[w] /\ InLoop(w) /\ req[w] \in Requests
        BY <2>1, <2>2 DEF Ledger, SyncInv, ServiceInv
      <3>2. /\ spent[w] = Len(pages[w]) /\ Len(pages[w]) < MaxPages /\ Len(pages[w]) < Available(w)
            /\ Len(pages[w]) \in Int /\ MaxPages \in Int /\ Available(w) \in Int
        BY <1>1, <2>1, <2>2, <3>1, SyncAssumption DEF InLoop, Available
      <3>3. room[w] < Needed(w)
        BY <1>1, <3>1, <3>2 DEF Needed
      <3> QED BY <2>1, <3>3 DEF Ledger, Needed, Available
    <2>3. CASE answer'[w].kind # "rate_cap_exceeded"
      BY <2>1, <2>3 DEF Ledger, Got
    <2> QED BY <2>2, <2>3
  <1>14. CASE Reply(w)
    BY <1>1, <1>14 DEF Reply, Reset, Ledger, Got
  <1> QED BY <1>3, <1>4, <1>5, <1>6, <1>7, <1>8, <1>9, <1>10, <1>11, <1>12, <1>13, <1>14
          DEF SyncNext, Serve, InCounter, SingleWorker

\* The room a worker was told of is an integer.
LEMMA RoomStep ==
    ASSUME TypeOK, RoomTyped, [SyncNext]_allVars
    PROVE  RoomTyped'
PROOF
  <1> USE DEF RoomTyped
  <1>1. CallsLeft \in Int
    BY UsedType, BudgetAssumption DEF CallsLeft, Used, TypeOK
  <1>2. CASE (ClockTick /\ UNCHANGED syncVars) \/ UNCHANGED allVars
    BY <1>2 DEF allVars, syncVars, localVars
  <1>3. CASE \E w \in Workers, r \in Requests : Begin(w, r)
    BY <1>1, <1>3 DEF Begin
  <1>4. CASE SyncRestart
    BY <1>4 DEF SyncRestart
  <1>5. ASSUME NEW w \in Workers, Serve(w) PROVE RoomTyped'
    <2>1. CASE Reply(w)
      BY <2>1 DEF Reply, Reset
    <2>2. CASE ~Reply(w)
      <3>1. room' = room
        BY <1>5, <2>2 DEF Serve, Charge, InCounter, Charged, Exceeded, PageArrives, Retry,
              CallFails, Parse, AskStatus, Refused, Finish, syncVars, localVars
      <3> QED BY <3>1
    <2> QED BY <2>1, <2>2
  <1> QED BY <1>2, <1>3, <1>4, <1>5 DEF SyncNext

\* The ledger of a worker that serves alone holds in every state.
LEMMA LedgerInvariant ==
    ASSUME SingleWorker PROVE SyncSpec => []LedgerInv
PROOF
  <1>1. SyncInit => LedgerInv
    <2> SUFFICES ASSUME SyncInit PROVE LedgerInv
      OBVIOUS
    <2>1. /\ RoomTyped
          /\ \A w \in Workers : pc[w] = "idle" /\ step[w] = "idle"
      BY DEF SyncInit, Init, CapInit, RoomTyped
    <2> QED BY <2>1 DEF LedgerInv, Ledger, CounterPhase, Got
  <1>2. CapInv /\ TypeOK' /\ SerialInv /\ SyncInv /\ LedgerInv /\ [SyncNext]_allVars => LedgerInv'
    <2> SUFFICES ASSUME CapInv, TypeOK', SerialInv, SyncInv, LedgerInv, [SyncNext]_allVars
                 PROVE  LedgerInv'
      OBVIOUS
    <2>1. TypeOK /\ SyncTyped /\ RoomTyped /\ \A w \in Workers : CounterPhase(w) /\ Ledger(w)
      BY DEF CapInv, SyncInv, LedgerInv
    <2>2. RoomTyped'
      BY <2>1, RoomStep
    <2>3. \A w \in Workers : CounterPhase(w)'
      BY <2>1, PhaseStep
    <2>4. \A w \in Workers : Ledger(w)'
      BY <2>1, LedgerStep
    <2> QED BY <2>2, <2>3, <2>4 DEF LedgerInv
  <1> QED BY <1>1, <1>2, SyncIsSpec, TypeCorrect, CapInvariant, SerialInvariant, SyncInvAlways, PTL
          DEF SyncSpec

\* Served one at a time, a sync that starts with the budget for all its pages is
\* never refused half way.
THEOREM BudgetLasts ==
    ASSUME SingleWorker PROVE SyncSpec => []BudgetSuffices
PROOF
  <1>1. LedgerInv => BudgetSuffices
    BY DEF LedgerInv, Ledger, BudgetSuffices, Needed, Available
  <1> QED BY <1>1, LedgerInvariant, PTL

\* The counter's books are right.
THEOREM BooksRight ==
    ASSUME SingleWorker PROVE SyncSpec => []CallsAccountedFor
PROOF
  <1>1. ChargedForWhatItCost /\ RequestsBounded /\ BudgetSuffices => CallsAccountedFor
    BY DEF CallsAccountedFor
  <1> QED BY <1>1, ChargesAreCosts, RequestsStayBounded, BudgetLasts, PTL
=============================================================================
