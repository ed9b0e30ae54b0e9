---------------------------- MODULE ReplayProofs ----------------------------
(***************************************************************************)
(* Proofs about Replay, for histories, worlds, replays and settings of any *)
(* kind: what a step was decided from, that money is counted once, that no *)
(* step looks ahead, and that every plan is scored fairly.                 *)
(***************************************************************************)
EXTENDS ReplayRequirements, DataLemmas

Views == {View(w, d) : w \in Worlds, d \in Nat}
Computations == [view : Views, seed : Nat]

Problems == {Problem(v, n) : v \in Views, n \in Nat}

Step == [replay : Nat, data : Datasets, start : Nat, spacing : Nat, as_of : Nat, no : Nat,
         view : Views, forecast : Computations, own : Computations,
         problem : Problems]

Running == [at : {"run"}, data : Datasets, start : Nat, spacing : Nat \ {0}, cur : Nat, no : Nat]

ReplayTyped ==
    /\ world \in [Datasets -> Worlds]
    /\ replay = Idle \/ replay \in Running
    /\ steps \in Seq(Step)
    /\ count \in Nat

\* What a step computed it computed for its own day, data and number.
OwnIsComputed ==
    \A s \in Range(steps) : /\ s.view = View(world[s.data], s.as_of)
                            /\ s.own = [view |-> s.view, seed |-> s.no]
                            /\ s.problem = Problem(s.view, s.no)

\* The steps come from replays already begun, those of the running one from days
\* it has passed.
Past == \A s \in Range(steps) :
            /\ s.replay <= count
            /\ replay # Idle /\ s.replay = count => s.as_of < replay.cur

\* What is in the cache some step computed, for that day.
CacheComputed == \A k \in DOMAIN cache : \E t \in Range(steps) : t.as_of = k.day /\ cache[k] = t.own

ReplayInv == ReplayTyped /\ OwnIsComputed /\ Past /\ CacheComputed /\ ForecastIsOwn

-----------------------------------------------------------------------------
\* A sequence grown by one has one element more.
LEMMA OneStepMore ==
    ASSUME NEW S, NEW q \in Seq(S), NEW x \in S
    PROVE  Append(q, x) \in Seq(S) /\ Range(Append(q, x)) = Range(q) \union {x}
PROOF
  <1>1. Append(q, x) \in Seq(S) /\ DOMAIN q = 1 .. Len(q) /\ Len(q) \in Nat
    OBVIOUS
  <1>2. DOMAIN Append(q, x) = 1 .. Len(q) + 1 /\ Append(q, x)[Len(q) + 1] = x
    OBVIOUS
  <1>3. \A i \in 1 .. Len(q) : Append(q, x)[i] = q[i]
    OBVIOUS
  <1>4. ASSUME NEW y \in Range(Append(q, x)) PROVE y \in Range(q) \union {x}
    BY <1>1, <1>2, <1>3 DEF Range
  <1>5. ASSUME NEW y \in Range(q) PROVE y \in Range(Append(q, x))
    BY <1>1, <1>2, <1>3 DEF Range
  <1>6. x \in Range(Append(q, x))
    BY <1>1, <1>2 DEF Range
  <1> QED BY <1>1, <1>4, <1>5, <1>6

\* What a recorded step is made of.
LEMMA StepsTyped ==
    ASSUME ReplayTyped, NEW s \in Range(steps)
    PROVE  /\ s \in Step /\ s.replay \in Nat /\ s.as_of \in Nat /\ s.no \in Nat
           /\ s.own \in Computations /\ world[s.data] \in Worlds
PROOF
  <1>1. s \in Step
    <2>1. PICK i \in DOMAIN steps : s = steps[i]
      BY DEF Range
    <2> QED BY <2>1 DEF ReplayTyped
  <1> QED BY <1>1 DEF Step, ReplayTyped

\* Moving on keeps a replay a running one.
LEMMA WalkGoesOn ==
    ASSUME NEW r \in Running, NEW c \in Nat, NEW n \in Nat
    PROVE  /\ [r EXCEPT !.cur = c, !.no = n] \in Running
           /\ [r EXCEPT !.cur = c, !.no = n].cur = c
BY Zenon DEF Running

\* Beginning a replay keeps the invariant.
LEMMA BeginStep ==
    ASSUME ReplayInv, NEW data \in Datasets, NEW start \in Starts \union {FirstPossible},
           NEW spacing \in Spacings, Begin(data, start, spacing)
    PROVE  ReplayInv'
PROOF
  <1>1. start \in Nat /\ spacing \in Nat \ {0}
    <2>1. MinHistory \in Nat /\ Starts \subseteq 1 .. Days /\ Spacings \subseteq Nat \ {0}
      BY ReplayAssumption
    <2> QED BY <2>1 DEF FirstPossible
  <1>2. /\ replay' = [at |-> "run", data |-> data, start |-> start, spacing |-> spacing,
                      cur |-> start, no |-> 0]
        /\ count' = count + 1 /\ UNCHANGED <<world, cache, steps>>
    BY DEF Begin
  <1>3. replay' \in Running
    BY <1>1, <1>2 DEF Running
  <1>4. ReplayTyped'
    BY <1>2, <1>3 DEF ReplayInv, ReplayTyped
  <1>5. \A s \in Range(steps) : s.replay \in Nat /\ s.replay <= count
    BY StepsTyped DEF ReplayInv, Past
  <1>6. Past'
    BY <1>2, <1>5 DEF Past, ReplayInv, ReplayTyped
  <1> QED BY <1>2, <1>4, <1>6 DEF ReplayInv, OwnIsComputed, CacheComputed, ForecastIsOwn

\* Deciding a day, from the cache or not, keeps it.
LEMMA DecideStep ==
    ASSUME ReplayInv, Decide
    PROVE  ReplayInv'
PROOF
  <1> DEFINE key == CacheKey(replay)
             own == Computed(replay)
             forecast == IF key \in DOMAIN cache THEN cache[key] ELSE own
             view == View(world[replay.data], replay.cur)
             s == [replay |-> count, data |-> replay.data, start |-> replay.start,
                   spacing |-> replay.spacing, as_of |-> replay.cur, no |-> replay.no,
                   view |-> view, forecast |-> forecast, own |-> own,
                   problem |-> Problem(view, replay.no)]
  <1>1. /\ replay.at = "run"
        /\ cache' = [k \in DOMAIN cache \union {key} |-> IF k = key THEN forecast ELSE cache[k]]
        /\ steps' = Append(steps, s)
        /\ replay' = [replay EXCEPT !.cur = @ + replay.spacing, !.no = @ + 1]
        /\ UNCHANGED <<world, count>>
    BY DEF Decide
  <1>2. replay \in Running /\ replay # Idle
    BY <1>1 DEF ReplayInv, ReplayTyped, Idle
  <1>3. /\ replay.data \in Datasets /\ world[replay.data] \in Worlds
        /\ replay.cur \in Nat /\ replay.no \in Nat /\ replay.spacing \in Nat \ {0}
        /\ replay.start \in Nat /\ count \in Nat
    BY <1>2 DEF Running, ReplayInv, ReplayTyped
  <1>4. view \in Views /\ own \in Computations
    BY <1>3 DEF Views, Computations, Computed
  <1>5. own = [view |-> view, seed |-> replay.no] /\ key.day = replay.cur
    BY DEF Computed, CacheKey
  <1>6. ASSUME key \in DOMAIN cache
        PROVE  \E t \in Range(steps) : t.as_of = replay.cur /\ cache[key] = t.own /\ t.replay < count
    <2>1. PICK t \in Range(steps) : t.as_of = key.day /\ cache[key] = t.own
      BY <1>6 DEF ReplayInv, CacheComputed
    <2>2. t.replay \in Nat /\ t.as_of \in Nat
      BY StepsTyped DEF ReplayInv
    <2>3. t.replay <= count /\ t.replay # count
      BY <2>1, <2>2, <1>2, <1>3, <1>5 DEF ReplayInv, Past
    <2> QED BY <2>1, <2>2, <2>3, <1>3, <1>5
  <1>7. forecast \in Computations
    BY <1>4, <1>6, StepsTyped DEF ReplayInv
  <1>8. s \in Step
    <2>1. Problem(view, replay.no) \in Problems
      BY <1>3, <1>4 DEF Problems
    <2> HIDE DEF view, own, forecast
    <2> QED BY <1>3, <1>4, <1>7, <2>1 DEF Step
  <1>9. /\ s.replay = count /\ s.data = replay.data /\ s.as_of = replay.cur /\ s.no = replay.no
        /\ s.own = own /\ s.forecast = forecast
        /\ s.view = view /\ s.problem = Problem(view, replay.no)
    OBVIOUS
  <1>10. forecast = own \/ \E t \in Range(steps) : /\ t.replay < count /\ t.as_of = replay.cur
                                                   /\ t.data # replay.data \/ t.no # replay.no
                                                   /\ forecast = t.own
    <2>1. CASE key \in DOMAIN cache
      <3>1. PICK t \in Range(steps) : t.as_of = replay.cur /\ cache[key] = t.own /\ t.replay < count
        BY <2>1, <1>6
      <3>2. t.own = [view |-> View(world[t.data], t.as_of), seed |-> t.no]
        BY DEF ReplayInv, OwnIsComputed
      <3>3. CASE t.data = replay.data /\ t.no = replay.no
        BY <2>1, <3>1, <3>2, <3>3, <1>5
      <3> QED BY <2>1, <3>1, <3>3
    <2> QED BY <2>1
  <1> HIDE DEF s, forecast, own, view, key
  <1>11. steps' \in Seq(Step) /\ Range(steps') = Range(steps) \union {s}
    BY <1>1, <1>8, OneStepMore DEF ReplayInv, ReplayTyped
  <1>12. replay' \in Running /\ replay'.cur = replay.cur + replay.spacing
    <2> DEFINE c == replay.cur + replay.spacing
               n == replay.no + 1
    <2>1. c \in Nat /\ n \in Nat
      BY <1>3
    <2>2. replay' = [replay EXCEPT !.cur = c, !.no = n]
      BY <1>1
    <2>3. replay' \in Running /\ replay'.cur = c
      <3> HIDE DEF c, n
      <3> QED BY <1>2, <2>1, <2>2, WalkGoesOn
    <2> QED BY <2>3
  <1>13. ReplayTyped'
    BY <1>1, <1>11, <1>12 DEF ReplayInv, ReplayTyped
  <1>14. OwnIsComputed'
    BY <1>1, <1>5, <1>9, <1>11 DEF ReplayInv, OwnIsComputed, view
  <1>15. Past'
    <2> SUFFICES ASSUME NEW t \in Range(steps')
                 PROVE  t.replay <= count /\ (t.replay = count => t.as_of < replay'.cur)
      BY <1>1 DEF Past
    <2>1. CASE t = s
      BY <2>1, <1>3, <1>9, <1>12
    <2>2. CASE t \in Range(steps)
      <3>1. t.replay <= count /\ (t.replay = count => t.as_of < replay.cur) /\ t.as_of \in Nat
        BY <2>2, <1>2, StepsTyped DEF ReplayInv, Past
      <3> QED BY <3>1, <1>3, <1>12
    <2> QED BY <2>1, <2>2, <1>11
  <1>16. CacheComputed'
    <2> SUFFICES ASSUME NEW k \in DOMAIN cache'
                 PROVE  \E t \in Range(steps') : t.as_of = k.day /\ cache'[k] = t.own
      BY DEF CacheComputed
    <2>1. CASE k = key
      <3>1. cache'[k] = forecast
        BY <1>1, <2>1
      <3>2. CASE forecast = own
        BY <1>5, <1>9, <1>11, <2>1, <3>1, <3>2
      <3>3. CASE \E t \in Range(steps) : t.as_of = replay.cur /\ forecast = t.own
        BY <1>5, <1>11, <2>1, <3>1, <3>3
      <3> QED BY <1>10, <3>2, <3>3
    <2>2. CASE k # key
      <3>1. k \in DOMAIN cache /\ cache'[k] = cache[k]
        BY <1>1, <2>2
      <3> QED BY <3>1, <1>11 DEF ReplayInv, CacheComputed
    <2> QED BY <2>1, <2>2
  <1>17. ForecastIsOwn'
    <2> SUFFICES ASSUME NEW x \in Range(steps')
                 PROVE  \/ x.forecast = x.own
                        \/ \E t \in Range(steps') : /\ t.replay < x.replay /\ t.as_of = x.as_of
                                                    /\ t.data # x.data \/ t.no # x.no
                                                    /\ x.forecast = t.own
      BY DEF ForecastIsOwn
    <2>1. CASE x = s
      BY <2>1, <1>9, <1>10, <1>11
    <2>2. CASE x \in Range(steps)
      BY <2>2, <1>11 DEF ReplayInv, ForecastIsOwn
    <2> QED BY <2>1, <2>2, <1>11
  <1> QED BY <1>13, <1>14, <1>15, <1>16, <1>17 DEF ReplayInv

\* The invariant of the replay holds in every state.
LEMMA ReplayInvAlways == ReplaySpec => []ReplayInv
PROOF
  <1>1. Init => ReplayInv
    <2> SUFFICES ASSUME Init PROVE ReplayInv
      OBVIOUS
    <2>1. steps = <<>> /\ cache = <<>> /\ Range(steps) = {}
      BY DEF Init, Range
    <2> QED BY <2>1 DEF Init, ReplayInv, ReplayTyped, OwnIsComputed, Past, CacheComputed, ForecastIsOwn
  <1>2. ReplayInv /\ [Next]_vars => ReplayInv'
    <2> SUFFICES ASSUME ReplayInv, [Next]_vars PROVE ReplayInv'
      OBVIOUS
    <2>1. CASE Return
      BY <2>1 DEF Return, ReplayInv, ReplayTyped, OwnIsComputed, Past, CacheComputed, ForecastIsOwn
    <2>2. CASE UNCHANGED vars
      BY <2>2 DEF vars, ReplayInv, ReplayTyped, OwnIsComputed, Past, CacheComputed, ForecastIsOwn
    <2> QED BY <2>1, <2>2, BeginStep, DecideStep DEF Next
  <1> QED BY <1>1, <1>2, PTL DEF ReplaySpec

-----------------------------------------------------------------------------
\* Of replays that share a cache, a step decides from the forecast it would have
\* made itself, or from one that an earlier replay of other data, or at another
\* step of its walk, left for that day.
THEOREM ForecastsShared == ReplaySpec => []ForecastIsOwn
BY ReplayInvAlways, PTL DEF ReplayInv

\* An invoice that is still outstanding on a day is not in the day's balance,
\* unless it was paid in the course of that day.
THEOREM NothingCountedTwice == ReplaySpec => []MoneyCountedOnce
PROOF
  <1>1. ReplayInv => MoneyCountedOnce
    <2> SUFFICES ASSUME ReplayInv, NEW s \in Range(steps),
                        NEW v \in Outstanding(world[s.data], s.as_of),
                        Paid(v), PaidDay(v) <= s.as_of
                 PROVE  PaidAt(v) = 2 * s.as_of + 1
      BY DEF MoneyCountedOnce
    <2>1. s.as_of \in Nat /\ world[s.data] \in Worlds
      BY StepsTyped DEF ReplayInv
    <2>2. v \in world[s.data].invoices /\ ~(PaidAt(v) <= 2 * s.as_of)
      BY DEF Outstanding, Settled
    <2>3. PaidAt(v) \in Nat
      <3>1. v.due \in Nat /\ v.late \in Nat \union {Never}
        BY <2>1, <2>2, ReplayAssumption
      <3> QED BY <3>1 DEF PaidAt, Paid
    <2>4. PaidAt(v) \div 2 <= s.as_of
      BY DEF PaidDay
    <2> QED BY <2>1, <2>2, <2>3, <2>4
  <1> QED BY <1>1, ReplayInvAlways, PTL

-----------------------------------------------------------------------------
(* No look-ahead: what a step sees depends on what was known on its day.   *)

InvoiceOf(w, i) ==
    /\ i = [payer |-> i.payer, issue |-> i.issue, due |-> i.due, amount |-> i.amount, late |-> i.late]
    /\ i.issue \in Nat /\ i.due \in Nat /\ i.issue <= i.due /\ i.late \in Nat \union {Never}

\* What an invoice of a world is made of.
LEMMA InvoicesAre ==
    ASSUME NEW w \in Worlds, NEW i \in w.invoices PROVE InvoiceOf(w, i)
BY ReplayAssumption DEF InvoiceOf

\* An invoice paid by the end of the day is known as it is.
LEMMA PaidIsKnown ==
    ASSUME NEW w \in Worlds, NEW d \in Nat, NEW i \in w.invoices, Paid(i), PaidDay(i) <= d
    PROVE  i \in Known(w, d)
PROOF
  <1>1. InvoiceOf(w, i)
    BY InvoicesAre
  <1>2. PaidAt(i) \in Nat /\ 2 * i.due <= PaidAt(i)
    BY <1>1 DEF InvoiceOf, PaidAt, Paid
  <1>3. i.due <= PaidDay(i)
    <2>1. i.due \in Nat /\ \A n \in Nat, m \in Nat : 2 * m <= n => m <= n \div 2
      BY <1>1 DEF InvoiceOf
    <2> QED BY <1>2, <2>1 DEF PaidDay
  <1>4. i.issue <= d
    BY <1>1, <1>2, <1>3 DEF InvoiceOf, PaidDay
  <1>5. SeenBy(i, d) = i
    BY <1>1 DEF SeenBy, InvoiceOf
  <1> QED BY <1>4, <1>5 DEF Known

\* An invoice known as paid was paid by that day.
LEMMA KnownIsPaid ==
    ASSUME NEW w \in Worlds, NEW d \in Nat, NEW k \in Known(w, d), Paid(k)
    PROVE  k \in w.invoices /\ PaidDay(k) <= d
PROOF
  <1>1. PICK i \in w.invoices : i.issue <= d /\ k = SeenBy(i, d)
    BY DEF Known
  <1>2. InvoiceOf(w, i)
    BY InvoicesAre
  <1>3. k.late = IF Paid(i) /\ PaidDay(i) <= d THEN i.late ELSE Never
    BY <1>1 DEF SeenBy
  <1>4. Paid(i) /\ PaidDay(i) <= d
    BY <1>3 DEF Paid
  <1>5. k = i
    BY <1>1, <1>2, <1>4 DEF SeenBy, InvoiceOf
  <1> QED BY <1>4, <1>5

\* The receipts of a day that is over, and the invoices settled, are known.
LEMMA PaidOnKnown ==
    ASSUME NEW w \in Worlds, NEW d \in Nat, NEW e \in Nat, e <= d
    PROVE  PaidOn(w, e) = {k \in Known(w, d) : Paid(k) /\ PaidDay(k) = e}
PROOF
  <1>1. ASSUME NEW i \in PaidOn(w, e) PROVE i \in Known(w, d) /\ Paid(i) /\ PaidDay(i) = e
    BY <1>1, PaidIsKnown DEF PaidOn
  <1>2. ASSUME NEW k \in Known(w, d), Paid(k), PaidDay(k) = e PROVE k \in PaidOn(w, e)
    BY <1>2, KnownIsPaid DEF PaidOn
  <1> QED BY <1>1, <1>2 DEF PaidOn

\* Worlds alike up to a day have the same balance on it.
LEMMA BalanceKnown ==
    ASSUME NEW w \in Worlds, NEW v \in Worlds, NEW d \in Nat, Alike(w, v, d)
    PROVE  Balance(w, d) = Balance(v, d)
PROOF
  <1>1. ASSUME NEW e \in 1 .. d
        PROVE  Operating(w, e) = Operating(v, e) /\ Receipts(w, e) = Receipts(v, e)
    <2>1. PaidOn(w, e) = PaidOn(v, e)
      <3>1. e \in Nat /\ e <= d /\ Known(w, d) = Known(v, d)
        BY DEF Alike
      <3>2. /\ PaidOn(w, e) = {k \in Known(w, d) : Paid(k) /\ PaidDay(k) = e}
            /\ PaidOn(v, e) = {k \in Known(v, d) : Paid(k) /\ PaidDay(k) = e}
        BY <3>1, PaidOnKnown
      <3> QED BY <3>1, <3>2
    <2> QED BY <2>1 DEF Operating, Receipts, Alike
  <1>2. [e \in 1 .. d |-> Operating(w, e) + Receipts(w, e)] = [e \in 1 .. d |-> Operating(v, e) + Receipts(v, e)]
    BY <1>1
  <1> QED BY <1>2 DEF Balance, Alike

\* What was settled by a day is known on it.
LEMMA SettledKnown ==
    ASSUME NEW w \in Worlds, NEW d \in Nat
    PROVE  Settled(w, d) = {k \in Known(w, d) : Paid(k) /\ PaidAt(k) <= 2 * d}
PROOF
  <1>1. \A i \in w.invoices : Paid(i) => PaidAt(i) \in Nat
    <2> SUFFICES ASSUME NEW i \in w.invoices, Paid(i) PROVE PaidAt(i) \in Nat
      OBVIOUS
    <2>1. InvoiceOf(w, i)
      BY InvoicesAre
    <2> QED BY <2>1 DEF InvoiceOf, PaidAt, Paid
  <1>2. ASSUME NEW i \in Settled(w, d) PROVE i \in Known(w, d) /\ Paid(i) /\ PaidAt(i) <= 2 * d
    <2>1. i \in w.invoices /\ Paid(i) /\ PaidAt(i) <= 2 * d /\ PaidAt(i) \in Nat
      BY <1>1 DEF Settled
    <2>2. PaidDay(i) <= d
      BY <2>1 DEF PaidDay
    <2> QED BY <2>1, <2>2, PaidIsKnown
  <1>3. ASSUME NEW k \in Known(w, d), Paid(k), PaidAt(k) <= 2 * d PROVE k \in Settled(w, d)
    BY <1>3, KnownIsPaid DEF Settled
  <1> QED BY <1>2, <1>3 DEF Settled

Receivable(i, d) == [payer |-> i.payer, issue |-> i.issue, amount |-> i.amount, untilDue |-> i.due - d]

\* An invoice outstanding on a day shows the day nothing but what it knows of it.
LEMMA OutstandingKnown ==
    ASSUME NEW w \in Worlds, NEW d \in Nat
    PROVE  {Receivable(i, d) : i \in Outstanding(w, d)}
             = {Receivable(k, d) : k \in Known(w, d) \ Settled(w, d)}
PROOF
  <1>1. ASSUME NEW i \in Outstanding(w, d)
        PROVE  \E k \in Known(w, d) \ Settled(w, d) : Receivable(i, d) = Receivable(k, d)
    <2>1. i \in w.invoices /\ i.issue <= d /\ i \notin Settled(w, d)
      BY DEF Outstanding
    <2>2. SeenBy(i, d) \in Known(w, d)
      BY <2>1 DEF Known
    <2>3. Receivable(i, d) = Receivable(SeenBy(i, d), d)
      BY DEF Receivable, SeenBy
    <2>4. SeenBy(i, d) \notin Settled(w, d)
      <3> SUFFICES ASSUME Paid(SeenBy(i, d)) PROVE SeenBy(i, d) = i
        BY <2>1 DEF Settled
      <3>1. InvoiceOf(w, i)
        BY <2>1, InvoicesAre
      <3> QED BY <3>1 DEF SeenBy, Paid, InvoiceOf
    <2> QED BY <2>2, <2>3, <2>4
  <1>2. ASSUME NEW k \in Known(w, d) \ Settled(w, d)
        PROVE  \E i \in Outstanding(w, d) : Receivable(k, d) = Receivable(i, d)
    <2>1. PICK i \in w.invoices : i.issue <= d /\ k = SeenBy(i, d)
      BY DEF Known
    <2>2. Receivable(i, d) = Receivable(k, d)
      BY <2>1 DEF Receivable, SeenBy
    <2>3. i \notin Settled(w, d)
      <3> SUFFICES ASSUME i \in Settled(w, d) PROVE k = i
        BY <1>2
      <3>1. i \in Known(w, d) /\ Paid(i) /\ PaidAt(i) <= 2 * d
        BY SettledKnown
      <3>2. PaidDay(i) <= d
        BY <3>1, KnownIsPaid
      <3>3. InvoiceOf(w, i)
        BY <2>1, InvoicesAre
      <3> QED BY <2>1, <3>1, <3>2, <3>3 DEF SeenBy, InvoiceOf
    <2> QED BY <2>1, <2>2, <2>3 DEF Outstanding
  <1> QED BY <1>1, <1>2

\* Worlds alike up to a day look the same on it.
LEMMA ViewKnown ==
    ASSUME NEW w \in Worlds, NEW v \in Worlds, NEW d \in Nat, Alike(w, v, d)
    PROVE  View(w, d) = View(v, d)
PROOF
  <1>1. /\ [e \in 1 .. d |-> Operating(w, e)] = [e \in 1 .. d |-> Operating(v, e)]
        /\ [e \in 1 .. d |-> w.outflow[e]] = [e \in 1 .. d |-> v.outflow[e]]
    BY DEF Alike, Operating
  <1>2. Settled(w, d) = Settled(v, d)
    BY SettledKnown DEF Alike
  <1>3. Delays(w, d) = Delays(v, d)
    BY <1>2 DEF Delays
  <1>4. {Receivable(i, d) : i \in Outstanding(w, d)} = {Receivable(i, d) : i \in Outstanding(v, d)}
    BY <1>2, OutstandingKnown DEF Alike
  <1>5. /\ View(w, d).receivables = {Receivable(i, d) : i \in Outstanding(w, d)}
        /\ View(v, d).receivables = {Receivable(i, d) : i \in Outstanding(v, d)}
    BY DEF View, Receivable
  <1> QED BY <1>1, <1>3, <1>4, <1>5, BalanceKnown DEF View

\* No look-ahead: whatever the histories hold after a day, two steps that had the
\* same number and knew the same on that day saw the same, forecast from the same
\* and decided the same problem.
THEOREM NothingFromTheFuture == ReplaySpec => []NoLookAhead
PROOF
  <1>1. ReplayInv => NoLookAhead
    <2> SUFFICES ASSUME ReplayInv, NEW s \in Range(steps), NEW t \in Range(steps),
                        s.as_of = t.as_of, s.no = t.no,
                        Alike(world[s.data], world[t.data], s.as_of)
                 PROVE  s.view = t.view /\ s.own = t.own /\ s.problem = t.problem
      BY DEF NoLookAhead
    <2>1. s.as_of \in Nat /\ world[s.data] \in Worlds /\ world[t.data] \in Worlds
      BY StepsTyped DEF ReplayInv
    <2>2. View(world[s.data], s.as_of) = View(world[t.data], t.as_of)
      BY <2>1, ViewKnown
    <2> QED BY <2>2 DEF ReplayInv, OwnIsComputed
  <1> QED BY <1>1, ReplayInvAlways, PTL

-----------------------------------------------------------------------------
(* The score of a plan.                                                    *)

\* What is owed, by obligations that have a place in a list.
Items(items) ==
    /\ IsFiniteSet(DOMAIN items) /\ DOMAIN items \subseteq Nat
    /\ \A n \in DOMAIN items : /\ items[n].amount \in Nat /\ items[n].rate \in Nat
                               /\ items[n].rigid \in BOOLEAN

\* A plan that might be made for the items, and cash to honour it with.
Committed(items, plan, cash) ==
    Items(items) /\ plan \in [DOMAIN items -> Nat] /\ cash \in Nat

\* Of those in T, each obligation gets what it can of what those before it leave.
HonouredAmong(items, plan, cash, T, x) ==
    \A n \in T : x[n] = Honours(items[n], plan[n],
                                cash - SumFunctionOnSet(x, {m \in T : Sooner(items, m, n)}))

\* Obligations are honoured one after the other.
LEMMA SoonerIsAnOrder ==
    ASSUME NEW items, Items(items), NEW m \in DOMAIN items, NEW n \in DOMAIN items
    PROVE  /\ m # n => Sooner(items, m, n) \/ Sooner(items, n, m)
           /\ Sooner(items, m, n) => m # n /\ ~Sooner(items, n, m)
<1>1. m \in Nat /\ n \in Nat /\ items[m].rate \in Nat /\ items[n].rate \in Nat
  BY DEF Items
<1> QED BY <1>1 DEF Sooner

\* Of some obligations one is the last to be honoured.
LEMMA LastObligation ==
    ASSUME NEW items, Items(items), NEW T \in SUBSET DOMAIN items, T # {}
    PROVE  \E l \in T : \A m \in T : m # l => Sooner(items, m, l)
<1>1. IsFiniteSet(T) /\ \A n \in T : n \in Nat /\ items[n].rate \in Nat
  BY FS_Subset DEF Items
<1> DEFINE rate == [n \in T |-> items[n].rate]
<1>2. \A n \in T : rate[n] \in Int
  BY <1>1
<1>3. PICK x \in T : \A y \in T : rate[x] <= rate[y]
  <2> HIDE DEF rate
  <2> QED BY <1>1, <1>2, SmallestValue
<1> DEFINE R == {n \in T : items[n].rate = items[x].rate}
           same == [n \in R |-> n]
<1>4. IsFiniteSet(R) /\ R # {} /\ \A n \in R : same[n] \in Int
  BY <1>1, FS_Subset
<1>5. PICK l \in R : \A y \in R : same[y] <= same[l]
  <2> HIDE DEF R, same
  <2> QED BY <1>4, LargestValue
<1>6. ASSUME NEW m \in T, m # l PROVE Sooner(items, m, l)
  <2>1. items[x].rate <= items[m].rate /\ items[l].rate = items[x].rate /\ l \in T
    BY <1>3
  <2>2. items[m].rate = items[x].rate => m <= l
    BY <1>5
  <2> QED BY <1>1, <1>6, <2>1, <2>2 DEF Sooner
<1> QED BY <1>6

\* And one the first.
LEMMA FirstObligation ==
    ASSUME NEW items, Items(items), NEW T \in SUBSET DOMAIN items, T # {}
    PROVE  \E f \in T : \A m \in T : m # f => Sooner(items, f, m)
<1>1. IsFiniteSet(T) /\ \A n \in T : n \in Nat /\ items[n].rate \in Nat
  BY FS_Subset DEF Items
<1> DEFINE rate == [n \in T |-> items[n].rate]
<1>2. \A n \in T : rate[n] \in Int
  BY <1>1
<1>3. PICK x \in T : \A y \in T : rate[y] <= rate[x]
  <2> HIDE DEF rate
  <2> QED BY <1>1, <1>2, LargestValue
<1> DEFINE R == {n \in T : items[n].rate = items[x].rate}
           same == [n \in R |-> n]
<1>4. IsFiniteSet(R) /\ R # {} /\ \A n \in R : same[n] \in Int
  BY <1>1, FS_Subset
<1>5. PICK f \in R : \A y \in R : same[f] <= same[y]
  <2> HIDE DEF R, same
  <2> QED BY <1>4, SmallestValue
<1>6. ASSUME NEW m \in T, m # f PROVE Sooner(items, f, m)
  <2>1. items[m].rate <= items[x].rate /\ items[f].rate = items[x].rate /\ f \in T
    BY <1>3
  <2>2. items[m].rate = items[x].rate => f <= m
    BY <1>5
  <2> QED BY <1>1, <1>6, <2>1, <2>2 DEF Sooner
<1> QED BY <1>6

\* What one commitment gets of a budget that is not overdrawn.
LEMMA HonoursIs ==
    ASSUME NEW o, o.rigid \in BOOLEAN, NEW planned \in Nat, NEW budget \in Nat
    PROVE  /\ Honours(o, planned, budget) \in Nat
           /\ Honours(o, planned, budget) <= planned /\ Honours(o, planned, budget) <= budget
           /\ o.rigid => Honours(o, planned, budget) \in {0, planned}
           /\ planned <= budget => Honours(o, planned, budget) = planned
BY DEF Honours, Lesser

\* There is only one way to honour a plan.
LEMMA HonouredOneWay ==
    ASSUME NEW items, NEW plan, NEW cash, Committed(items, plan, cash),
           NEW x \in [DOMAIN items -> Int], NEW y \in [DOMAIN items -> Int],
           HonouredAmong(items, plan, cash, DOMAIN items, x),
           HonouredAmong(items, plan, cash, DOMAIN items, y)
    PROVE  x = y
<1> DEFINE S == DOMAIN items
           Differ == {n \in S : x[n] # y[n]}
           Before(n) == {m \in S : Sooner(items, m, n)}
<1>1. ASSUME Differ # {} PROVE FALSE
  <2>1. Items(items) /\ Differ \in SUBSET DOMAIN items
    BY DEF Committed
  <2>2. PICK n \in Differ : \A m \in Differ : m # n => Sooner(items, n, m)
    <3> HIDE DEF Differ
    <3> QED BY <1>1, <2>1, FirstObligation
  <2>3. IsFiniteSet(Before(n)) /\ \A m \in Before(n) : x[m] \in Int /\ x[m] = y[m]
    <3>1. \A m \in Before(n) : m \notin Differ
      BY <2>1, <2>2, SoonerIsAnOrder
    <3>2. IsFiniteSet(Before(n))
      BY <2>1, FS_Subset DEF Items
    <3> QED BY <3>1, <3>2
  <2>4. SumFunctionOnSet(x, Before(n)) = SumFunctionOnSet(y, Before(n))
    <3> HIDE DEF Before
    <3> QED BY <2>3, SumSame
  <2>5. x[n] = y[n]
    BY <2>2, <2>4 DEF HonouredAmong
  <2> QED BY <2>2, <2>5
<1> QED BY <1>1

\* A plan for a part of the obligations can be honoured within the cash.
HonourableAmong(items, plan, cash, T) ==
    \E x \in [T -> Nat] :
        /\ HonouredAmong(items, plan, cash, T, x)
        /\ SumFunctionOnSet(x, T) <= cash
        /\ \A n \in T : x[n] <= plan[n] /\ (items[n].rigid => x[n] \in {0, plan[n]})

\* The last of them gets what it can of what the others leave.
LEMMA LastIsHonoured ==
    ASSUME NEW items, NEW plan, NEW cash, Committed(items, plan, cash),
           NEW T \in SUBSET DOMAIN items, NEW l \in T, \A m \in T : m # l => Sooner(items, m, l),
           HonourableAmong(items, plan, cash, T \ {l})
    PROVE  HonourableAmong(items, plan, cash, T)
<1> DEFINE U == T \ {l}
           Before(V, n) == {m \in V : Sooner(items, m, n)}
<1>1. Items(items) /\ cash \in Nat /\ IsFiniteSet(T) /\ IsFiniteSet(U) /\ l \notin U /\ T = U \union {l}
  BY FS_Subset DEF Committed, Items
<1>2. PICK x \in [U -> Nat] :
        /\ HonouredAmong(items, plan, cash, U, x)
        /\ SumFunctionOnSet(x, U) <= cash
        /\ \A n \in U : x[n] <= plan[n] /\ (items[n].rigid => x[n] \in {0, plan[n]})
  BY DEF HonourableAmong
<1> DEFINE budget == cash - SumFunctionOnSet(x, U)
           got == Honours(items[l], plan[l], budget)
           y == [n \in T |-> IF n = l THEN got ELSE x[n]]
<1>3. SumFunctionOnSet(x, U) \in Nat /\ budget \in Nat
  <2>1. \A n \in U : x[n] \in Nat
    OBVIOUS
  <2>2. SumFunctionOnSet(x, U) \in Nat
    BY <1>1, <2>1, SumType, Zenon
  <2> QED BY <1>1, <1>2, <2>2
<1>4. /\ got \in Nat /\ got <= plan[l] /\ got <= budget
      /\ items[l].rigid => got \in {0, plan[l]}
  <2>1. items[l].rigid \in BOOLEAN /\ plan[l] \in Nat
    BY DEF Committed, Items
  <2> HIDE DEF budget
  <2> QED BY <1>3, <2>1, HonoursIs
<1> HIDE DEF got
<1>5. y \in [T -> Nat] /\ y[l] = got /\ \A n \in U : y[n] = x[n] /\ y[n] \in Nat
  BY <1>1, <1>4
<1>6. \A V \in SUBSET U : SumFunctionOnSet(y, V) = SumFunctionOnSet(x, V)
  <2> SUFFICES ASSUME NEW V \in SUBSET U PROVE SumFunctionOnSet(y, V) = SumFunctionOnSet(x, V)
    OBVIOUS
  <2>1. IsFiniteSet(V) /\ \A n \in V : y[n] \in Int /\ y[n] = x[n]
    BY <1>1, <1>5, FS_Subset
  <2> HIDE DEF y
  <2> QED BY <2>1, SumSame
<1> HIDE DEF y
<1>7. SumFunctionOnSet(y, T) <= cash
  <2>1. SumFunctionOnSet(y, U \union {l}) = SumFunctionOnSet(y, U) + y[l]
    <3>1. \A n \in U \union {l} : y[n] \in Int
      BY <1>4, <1>5
    <3> HIDE DEF U
    <3> QED BY <1>1, <3>1, SumAdd
  <2>2. SumFunctionOnSet(y, T) = SumFunctionOnSet(x, U) + got
    BY <1>1, <1>5, <1>6, <2>1
  <2> QED BY <1>1, <1>3, <1>4, <2>2
<1>8. ASSUME NEW n \in T
      PROVE  y[n] = Honours(items[n], plan[n], cash - SumFunctionOnSet(y, Before(T, n)))
  <2>1. CASE n = l
    <3>1. ~Sooner(items, l, l)
      BY <1>1, SoonerIsAnOrder
    <3>2. Before(T, l) = U
      BY <3>1
    <3> QED BY <1>5, <1>6, <2>1, <3>2 DEF got
  <2>2. CASE n # l
    <3>1. ~Sooner(items, l, n)
      BY <1>1, <2>2, SoonerIsAnOrder
    <3>2. Before(T, n) = Before(U, n) /\ Before(U, n) \in SUBSET U /\ n \in U
      BY <2>2, <3>1
    <3>3. x[n] = Honours(items[n], plan[n], cash - SumFunctionOnSet(x, Before(U, n)))
      BY <1>2, <3>2 DEF HonouredAmong
    <3> QED BY <1>5, <1>6, <3>2, <3>3
  <2> QED BY <2>1, <2>2
<1>9. \A n \in T : y[n] <= plan[n] /\ (items[n].rigid => y[n] \in {0, plan[n]})
  BY <1>1, <1>2, <1>4, <1>5
<1> QED BY <1>5, <1>7, <1>8, <1>9 DEF HonourableAmong, HonouredAmong

\* Every plan can be honoured within the cash.
LEMMA PlansAreHonourable ==
    ASSUME NEW items, NEW plan, NEW cash, Committed(items, plan, cash)
    PROVE  HonourableAmong(items, plan, cash, DOMAIN items)
<1> DEFINE Missed == {T \in SUBSET DOMAIN items : ~HonourableAmong(items, plan, cash, T)}
<1>1. ASSUME Missed # {} PROVE FALSE
  <2>1. Items(items) /\ IsFiniteSet(DOMAIN items) /\ cash \in Nat
    BY DEF Committed, Items
  <2>2. PICK T \in Missed : \A n \in T : T \ {n} \notin Missed
    <3>1. Missed \in SUBSET SUBSET DOMAIN items
      OBVIOUS
    <3> HIDE DEF Missed
    <3> QED BY <1>1, <2>1, <3>1, SmallestSet
  <2>3. CASE T = {}
    <3> DEFINE x == [n \in {} |-> 0]
    <3>1. x \in [{} -> Nat] /\ SumFunctionOnSet(x, {}) = 0
      BY SumEmpty
    <3>2. HonourableAmong(items, plan, cash, {})
      <4>1. HonouredAmong(items, plan, cash, {}, x)
        BY DEF HonouredAmong
      <4>2. SumFunctionOnSet(x, {}) <= cash
        BY <2>1, <3>1
      <4> HIDE DEF x
      <4> QED BY <3>1, <4>1, <4>2, Zenon DEF HonourableAmong
    <3> QED BY <2>2, <2>3, <3>2
  <2>4. CASE T # {}
    <3>1. T \in SUBSET DOMAIN items
      BY <2>2
    <3>2. PICK l \in T : \A m \in T : m # l => Sooner(items, m, l)
      BY <2>1, <2>4, <3>1, LastObligation
    <3>3. HonourableAmong(items, plan, cash, T \ {l})
      BY <2>2, <3>1
    <3> HIDE DEF Missed
    <3>4. HonourableAmong(items, plan, cash, T)
      BY <3>1, <3>2, <3>3, LastIsHonoured
    <3> QED BY <2>2, <3>4 DEF Missed
  <2> QED BY <2>3, <2>4
<1> QED BY <1>1

\* How a plan is honoured: it is the one way there is.
LEMMA HonouredIs ==
    ASSUME NEW items, NEW plan, NEW cash, Committed(items, plan, cash)
    PROVE  /\ Honoured(items, plan, cash) \in [DOMAIN items -> Nat]
           /\ SumFunctionOnSet(Honoured(items, plan, cash), DOMAIN items) <= cash
           /\ \A n \in DOMAIN items :
                 /\ Honoured(items, plan, cash)[n] <= plan[n]
                 /\ items[n].rigid => Honoured(items, plan, cash)[n] \in {0, plan[n]}
           /\ SumFunctionOnSet(plan, DOMAIN items) <= cash => Honoured(items, plan, cash) = plan
<1> DEFINE S == DOMAIN items
           most == Max({0} \union Range(plan))
           h == Honoured(items, plan, cash)
<1>1. Items(items) /\ IsFiniteSet(S) /\ cash \in Nat /\ plan \in [S -> Nat]
  BY DEF Committed, Items
<1>2. most \in Nat /\ \A n \in S : plan[n] <= most
  <2> DEFINE M == {0} \union Range(plan)
             same == [v \in M |-> v]
  <2>1. IsFiniteSet(M)
    <3>1. IsFiniteSet(Range(plan))
      <4>1. plan \in Surjection(S, Range(plan))
        BY <1>1 DEF Surjection, Range
      <4> QED BY <1>1, <4>1, FS_Surjection
    <3> QED BY <3>1, FS_AddElement
  <2>2. M # {} /\ \A v \in M : v \in Nat /\ same[v] \in Int
    BY <1>1 DEF Range
  <2>3. PICK m \in M : \A v \in M : same[v] <= same[m]
    <3> HIDE DEF M, same
    <3> QED BY <2>1, <2>2, LargestValue
  <2>4. m \in M /\ \A v \in M : m >= v
    BY <2>2, <2>3
  <2>5. most \in M /\ \A v \in M : most >= v
    BY <2>4 DEF Max
  <2>6. \A n \in S : plan[n] \in M
    BY <1>1 DEF Range
  <2> QED BY <2>2, <2>5, <2>6
<1> HIDE DEF most
<1>3. PICK x \in [S -> Nat] :
        /\ HonouredAmong(items, plan, cash, S, x)
        /\ SumFunctionOnSet(x, S) <= cash
        /\ \A n \in S : x[n] <= plan[n] /\ (items[n].rigid => x[n] \in {0, plan[n]})
  BY PlansAreHonourable DEF HonourableAmong
<1>4. x \in [S -> 0 .. most]
  <2>1. \A n \in S : x[n] \in Nat /\ x[n] <= plan[n] /\ plan[n] \in Nat
    BY <1>1, <1>3
  <2>2. \A n \in S : x[n] \in 0 .. most
    BY <1>2, <2>1
  <2> QED BY <2>2
<1>5. h \in [S -> 0 .. most] /\ HonouredAmong(items, plan, cash, S, h)
  BY <1>3, <1>4 DEF Honoured, HonouredAmong, most
<1> HIDE DEF h
<1>6. \A y \in [S -> Nat] : HonouredAmong(items, plan, cash, S, y) => y = h
  <2> SUFFICES ASSUME NEW y \in [S -> Nat], HonouredAmong(items, plan, cash, S, y) PROVE y = h
    OBVIOUS
  <2>1. y \in [S -> Int] /\ h \in [S -> Int]
    BY <1>2, <1>5
  <2> QED BY <1>5, <2>1, HonouredOneWay
<1>7. x = h
  BY <1>3, <1>6
<1>8. ASSUME SumFunctionOnSet(plan, S) <= cash PROVE h = plan
  <2>1. ASSUME NEW n \in S
        PROVE  plan[n] = Honours(items[n], plan[n],
                                 cash - SumFunctionOnSet(plan, {m \in S : Sooner(items, m, n)}))
    <3> DEFINE B == {m \in S : Sooner(items, m, n)}
               spent == SumFunctionOnSet(plan, B)
    <3>1. B \in SUBSET S /\ IsFiniteSet(B) /\ n \notin B /\ B \union {n} \in SUBSET S
      BY <1>1, SoonerIsAnOrder, FS_Subset
    <3>2. \A m \in S : plan[m] \in Nat
      BY <1>1
    <3> HIDE DEF B
    <3>3. SumFunctionOnSet(plan, B \union {n}) = spent + plan[n]
      <4>1. \A m \in B \union {n} : plan[m] \in Int
        BY <3>1, <3>2
      <4> QED BY <3>1, <4>1, SumAdd
    <3>4. SumFunctionOnSet(plan, B \union {n}) <= SumFunctionOnSet(plan, S)
      BY <1>1, <3>1, <3>2, SumSubset
    <3>5. spent \in Nat /\ SumFunctionOnSet(plan, S) \in Nat
      <4>1. \A m \in B : plan[m] \in Nat
        BY <3>1, <3>2
      <4> QED BY <1>1, <3>1, <3>2, <4>1, SumType
    <3> HIDE DEF spent
    <3>6. cash - spent \in Nat /\ plan[n] <= cash - spent
      BY <1>1, <1>8, <3>2, <3>3, <3>4, <3>5
    <3>7. items[n].rigid \in BOOLEAN /\ plan[n] \in Nat
      BY <1>1, <3>2 DEF Items
    <3> QED BY <3>6, <3>7, HonoursIs DEF B, spent
  <2>2. HonouredAmong(items, plan, cash, S, plan)
    BY <2>1 DEF HonouredAmong
  <2> QED BY <1>1, <1>6, <2>2
<1> QED BY <1>3, <1>7, <1>8 DEF h
\* What a payable plan of the items costs is a natural number.
LEMMA PenaltyIsNat ==
    ASSUME NEW items, Items(items), NEW x \in [DOMAIN items -> Nat],
           \A n \in DOMAIN items : x[n] <= items[n].amount
    PROVE  Penalty(items, x) \in Nat
<1> DEFINE S == DOMAIN items
           f == [n \in S |-> items[n].rate * (items[n].amount - x[n])]
<1>1. IsFiniteSet(S)
  BY DEF Items
<1>2. ASSUME NEW n \in S PROVE f[n] \in Nat
  <2>1. items[n].rate \in Nat /\ items[n].amount - x[n] \in Nat
    BY DEF Items
  <2>2. \A r \in Nat, a \in Nat : r * a \in Nat
    OBVIOUS
  <2>3. items[n].rate * (items[n].amount - x[n]) \in Nat
    BY <2>1, <2>2
  <2> QED BY <2>3
<1>3. DOMAIN f = S
  OBVIOUS
<1>4. SumFunctionOnSet(f, S) \in Nat
  <2> HIDE DEF f
  <2> QED BY <1>1, <1>2, SumType
<1> QED BY <1>3, <1>4 DEF Penalty, SumFunction

\* A plan is payable when it spends no more than the budget and pays no more than
\* is owed, nor a part of what is rigid.
LEMMA PayableIs ==
    ASSUME NEW items, Items(items), NEW budget, NEW x
    PROVE  x \in Payable(items, budget) <=>
             /\ x \in [DOMAIN items -> Nat]
             /\ Spend(x) <= budget
             /\ \A n \in DOMAIN items : /\ x[n] <= items[n].amount
                                        /\ items[n].rigid => x[n] \in {0, items[n].amount}
<1> DEFINE S == DOMAIN items
           M == {0} \union {items[n].amount : n \in S}
           most == Max(M)
<1>1. most \in Nat /\ \A n \in S : items[n].amount <= most
  <2> DEFINE amount == [n \in S |-> items[n].amount]
             same == [v \in M |-> v]
  <2>1. IsFiniteSet(M)
    <3>1. IsFiniteSet(S) /\ Range(amount) = {items[n].amount : n \in S}
      BY DEF Items, Range
    <3>2. amount \in Surjection(S, Range(amount))
      BY DEF Surjection, Range
    <3>3. IsFiniteSet(Range(amount))
      <4> HIDE DEF amount
      <4> QED BY <3>1, <3>2, FS_Surjection
    <3>4. IsFiniteSet({items[n].amount : n \in S})
      BY <3>1, <3>3
    <3> QED BY <3>4, FS_AddElement
  <2>2. M # {} /\ \A v \in M : v \in Nat /\ same[v] \in Int
    BY DEF Items
  <2>3. PICK m \in M : \A v \in M : same[v] <= same[m]
    <3> HIDE DEF M, same
    <3> QED BY <2>1, <2>2, LargestValue
  <2>4. m \in M /\ \A v \in M : m >= v
    BY <2>2, <2>3
  <2>5. most \in M /\ \A v \in M : most >= v
    BY <2>4 DEF Max
  <2>6. \A n \in S : items[n].amount \in M
    OBVIOUS
  <2> QED BY <2>2, <2>5, <2>6
<1>2. x \in Payable(items, budget) <=>
        /\ x \in [S -> 0 .. most] /\ Spend(x) <= budget
        /\ \A n \in S : /\ x[n] <= items[n].amount
                        /\ items[n].rigid => x[n] \in {0, items[n].amount}
  BY DEF Payable
<1> HIDE DEF most
<1>3. ASSUME x \in [S -> Nat], \A n \in S : x[n] <= items[n].amount PROVE x \in [S -> 0 .. most]
  <2>1. \A n \in S : x[n] \in Nat /\ items[n].amount \in Nat /\ x[n] <= most
    BY <1>1, <1>3 DEF Items
  <2>2. \A n \in S : x[n] \in 0 .. most
    BY <1>1, <2>1
  <2> QED BY <1>3, <2>2
<1>4. x \in [S -> 0 .. most] => x \in [S -> Nat]
  BY <1>1
<1> QED BY <1>2, <1>3, <1>4, Zenon

\* No payable plan beats the benchmark.
LEMMA BenchmarkIsLeast ==
    ASSUME NEW items, Items(items), NEW cash, NEW x \in Payable(items, cash)
    PROVE  /\ HindsightPenalty(items, cash) \in Nat /\ Penalty(items, x) \in Nat
           /\ HindsightPenalty(items, cash) <= Penalty(items, x)
<1> DEFINE P == {Penalty(items, y) : y \in Payable(items, cash)}
<1>1. ASSUME NEW y \in Payable(items, cash) PROVE Penalty(items, y) \in Nat
  <2>1. y \in [DOMAIN items -> Nat] /\ \A n \in DOMAIN items : y[n] <= items[n].amount
    BY PayableIs
  <2> QED BY <2>1, PenaltyIsNat
<1>2. P \in SUBSET Nat /\ Penalty(items, x) \in P
  BY <1>1
<1>3. PICK k \in P : \A m \in P : k <= m
  <2> HIDE DEF P
  <2> QED BY <1>2, LeastNatural
<1>4. Min(P) \in P /\ \A m \in P : Min(P) <= m
  <2> HIDE DEF P
  <2> QED BY <1>3 DEF Min
<1>5. HindsightPenalty(items, cash) = Min(P)
  BY DEF HindsightPenalty
<1> HIDE DEF P
<1> QED BY <1>2, <1>4, <1>5

\* Whatever cash there turns out to be, a plan that was payable with some other
\* is honoured within it, does no better than the benchmark, and is honoured in
\* full when there is enough.
LEMMA RegretIsNeverNegative ==
    ASSUME NEW items, Items(items), NEW cash \in Nat, NEW budget, NEW plan \in Payable(items, budget)
    PROVE  /\ Regret(items, plan, cash) >= 0
           /\ Spend(plan) \in Nat
           /\ Spend(plan) <= cash => Honoured(items, plan, cash) = plan
<1> DEFINE S == DOMAIN items
           h == Honoured(items, plan, cash)
<1>1. /\ plan \in [S -> Nat]
      /\ \A n \in S : plan[n] <= items[n].amount /\ (items[n].rigid => plan[n] \in {0, items[n].amount})
  BY PayableIs
<1>2. Committed(items, plan, cash)
  BY <1>1 DEF Committed
<1>3. /\ h \in [S -> Nat] /\ SumFunctionOnSet(h, S) <= cash
      /\ \A n \in S : h[n] <= plan[n] /\ (items[n].rigid => h[n] \in {0, plan[n]})
      /\ SumFunctionOnSet(plan, S) <= cash => h = plan
  BY <1>2, HonouredIs
<1> HIDE DEF h
<1>4. Spend(h) <= cash /\ Spend(plan) \in Nat /\ (Spend(plan) <= cash => h = plan)
  <2>1. DOMAIN h = S /\ DOMAIN plan = S
    BY <1>1, <1>3
  <2>2. SumFunctionOnSet(plan, S) \in Nat
    <3>1. IsFiniteSet(S) /\ \A n \in S : plan[n] \in Nat
      BY <1>1 DEF Items
    <3> QED BY <3>1, SumType
  <2> QED BY <1>3, <2>1, <2>2 DEF Spend, SumFunction
<1>5. \A n \in S : h[n] <= items[n].amount /\ (items[n].rigid => h[n] \in {0, items[n].amount})
  <2> SUFFICES ASSUME NEW n \in S
               PROVE  h[n] <= items[n].amount /\ (items[n].rigid => h[n] \in {0, items[n].amount})
    OBVIOUS
  <2>1. h[n] \in Nat /\ plan[n] \in Nat /\ items[n].amount \in Nat
    BY <1>1, <1>3 DEF Items
  <2> QED BY <1>1, <1>3, <2>1
<1>6. h \in Payable(items, cash)
  BY <1>3, <1>4, <1>5, PayableIs
<1>7. /\ HindsightPenalty(items, cash) \in Nat /\ Penalty(items, h) \in Nat
      /\ HindsightPenalty(items, cash) <= Penalty(items, h)
  BY <1>6, BenchmarkIsLeast
<1>8. Regret(items, plan, cash) = Penalty(items, h) - HindsightPenalty(items, cash)
  BY DEF Regret, RealizedPenalty, h
<1> QED BY <1>4, <1>7, <1>8 DEF h

-----------------------------------------------------------------------------
\* What is to be paid of a day of some world.
LEMMA ProblemIsTyped ==
    ASSUME NEW w \in Worlds, NEW d \in 1 .. Days, NEW n \in Nat
    PROVE  Items(Problem(View(w, d), n).items)
<1> DEFINE view == View(w, d)
           spent == [e \in 1 .. d |-> w.outflow[e]]
           tail == {e \in 1 .. d : e > d - ObligationDays}
           outflow == SumFunctionOnSet(spent, tail)
           due == DueDraws[(n % Len(DueDraws)) + 1]
           S == DOMAIN Categories
           amount(k) == (outflow * Categories[k].share) \div ShareOf
           rate(k) == Categories[k].fee * NonNegative(ObligationDays - due[k])
           items == [k \in S |-> [amount |-> amount(k), rate |-> rate(k), rigid |-> Categories[k].rigid]]
<1>1. /\ Days \in Nat /\ ObligationDays \in Nat /\ ShareOf \in Nat \ {0}
      /\ Categories \in Seq([share : Nat, fee : Nat, rigid : BOOLEAN])
      /\ DueDraws \in Seq([S -> Int]) /\ DueDraws # <<>>
      /\ w.outflow \in [1 .. Days -> Nat]
  BY ReplayAssumption
<1>2. Cardinality(1 .. d) = d
  BY <1>1, FS_Interval
<1>3. Problem(view, n).items = items
  <2>1. view.spent = spent /\ DOMAIN view.spent = 1 .. d
    BY DEF View
  <2> QED BY <1>2, <2>1 DEF Problem, Obligations
<1>4. outflow \in Nat
  <2>1. IsFiniteSet(tail)
    BY <1>1, FS_Interval, FS_Subset
  <2>2. \A e \in tail : spent[e] \in Nat
    BY <1>1
  <2> HIDE DEF tail, spent
  <2> QED BY <2>1, <2>2, SumType
<1> HIDE DEF outflow
<1>5. S = 1 .. Len(Categories) /\ Len(Categories) \in Nat
  BY <1>1
<1>6. IsFiniteSet(S) /\ S \subseteq Nat
  BY <1>5, FS_Interval
<1>7. due \in [S -> Int]
  <2>1. Len(DueDraws) \in Nat \ {0}
    BY <1>1
  <2>2. (n % Len(DueDraws)) + 1 \in 1 .. Len(DueDraws)
    BY <2>1
  <2> QED BY <1>1, <2>2
<1> HIDE DEF due
<1>8. ASSUME NEW k \in S PROVE amount(k) \in Nat /\ rate(k) \in Nat /\ Categories[k].rigid \in BOOLEAN
  <2>1. Categories[k] \in [share : Nat, fee : Nat, rigid : BOOLEAN]
    <3> DEFINE R == [share : Nat, fee : Nat, rigid : BOOLEAN]
    <3>1. Categories \in Seq(R) /\ k \in 1 .. Len(Categories)
      BY <1>1, <1>5
    <3> HIDE DEF R
    <3>2. Categories[k] \in R
      BY <3>1
    <3> QED BY <3>2 DEF R
  <2>2. Categories[k].share \in Nat /\ Categories[k].fee \in Nat /\ Categories[k].rigid \in BOOLEAN
    BY <2>1
  <2>3. \A a, b \in Nat : a * b \in Nat
    OBVIOUS
  <2>4. \A a \in Nat : a \div ShareOf \in Nat
    <3> SUFFICES ASSUME NEW a \in Nat PROVE a \div ShareOf \in Nat
      OBVIOUS
    <3>1. a \in Int /\ ShareOf \in Nat \ {0} /\ 0 \in Int /\ 0 * ShareOf = 0
      BY <1>1
    <3>2. a \div ShareOf \in Int /\ (0 <= a \div ShareOf <=> 0 * ShareOf <= a)
      BY <3>1, Division, Floor
    <3> QED BY <3>1, <3>2
  <2>5. amount(k) \in Nat
    BY <1>4, <2>2, <2>3, <2>4
  <2>6. NonNegative(ObligationDays - due[k]) \in Nat
    BY <1>1, <1>7 DEF NonNegative
  <2>7. rate(k) \in Nat
    BY <2>2, <2>3, <2>6
  <2> QED BY <2>2, <2>5, <2>7
<1> HIDE DEF amount, rate
<1>9. /\ DOMAIN items = S
      /\ \A k \in S : /\ items[k].amount = amount(k) /\ items[k].rate = rate(k)
                      /\ items[k].rigid = Categories[k].rigid
  OBVIOUS
<1> HIDE DEF items
<1>10. Items(items)
  BY <1>6, <1>8, <1>9 DEF Items
<1> QED BY <1>3, <1>10

\* The balance of a day is a whole amount.
LEMMA BalanceIsInt ==
    ASSUME NEW w \in Worlds, NEW d \in 1 .. Days
    PROVE  Balance(w, d) \in Int
<1>1. /\ Days \in Nat /\ w.opening \in Int /\ IsFiniteSet(w.invoices)
      /\ w.sales \in [1 .. Days -> Nat] /\ w.outflow \in [1 .. Days -> Nat]
      /\ \A v \in w.invoices : v.amount \in Nat
  BY ReplayAssumption
<1>2. ASSUME NEW e \in 1 .. d PROVE Operating(w, e) + Receipts(w, e) \in Int
  <2> DEFINE P == PaidOn(w, e)
             f == [v \in P |-> v.amount]
  <2>1. IsFiniteSet(P) /\ \A v \in P : f[v] \in Int
    BY <1>1, FS_Subset DEF PaidOn
  <2>2. SumFunctionOnSet(f, P) \in Int
    <3> HIDE DEF f, P
    <3> QED BY <2>1, SumType
  <2>3. Receipts(w, e) = SumFunctionOnSet(f, P)
    BY DEF Receipts, SumFunction
  <2>4. Operating(w, e) \in Int
    BY <1>1 DEF Operating
  <2> QED BY <2>2, <2>3, <2>4
<1> DEFINE g == [e \in 1 .. d |-> Operating(w, e) + Receipts(w, e)]
<1>3. IsFiniteSet(1 .. d) /\ DOMAIN g = 1 .. d /\ \A e \in 1 .. d : g[e] \in Int
  BY <1>1, <1>2, FS_Interval
<1>4. Balance(w, d) = w.opening + SumFunctionOnSet(g, 1 .. d)
  BY DEF Balance, SumFunction
<1>5. SumFunctionOnSet(g, 1 .. d) \in Int
  <2> HIDE DEF g
  <2> QED BY <1>3, SumType
<1> QED BY <1>1, <1>4, <1>5

\* What there really was is not less than nothing.
LEMMA RealizedIsNat ==
    ASSUME NEW w \in Worlds, NEW d \in 1 .. Days
    PROVE  Realized(w, d) \in Nat
<1> DEFINE F == {f \in 1 .. Days : d <= f /\ f <= d + Horizon}
           b == [e \in F |-> Balance(w, e)]
           B == {Balance(w, e) : e \in F}
<1>1. Days \in Nat /\ Horizon \in Nat
  BY ReplayAssumption
<1>2. IsFiniteSet(F) /\ F # {} /\ \A e \in F : b[e] \in Int
  <2>1. d \in F
    BY <1>1
  <2>2. IsFiniteSet(F)
    <3>1. IsFiniteSet(1 .. Days) /\ F \in SUBSET (1 .. Days)
      BY <1>1, FS_Interval
    <3> HIDE DEF F
    <3> QED BY <3>1, FS_Subset
  <2> QED BY <2>1, <2>2, BalanceIsInt
<1>3. PICK e \in F : \A f \in F : b[e] <= b[f]
  <2> HIDE DEF F, b
  <2> QED BY <1>2, SmallestValue
<1>4. Balance(w, e) \in B /\ \A v \in B : Balance(w, e) <= v
  BY <1>3
<1>5. Min(B) \in B
  <2> HIDE DEF B
  <2> QED BY <1>4 DEF Min
<1>6. Min(B) \in Int
  BY <1>5, BalanceIsInt
<1>7. Realized(w, d) = NonNegative(Min(B))
  BY DEF Realized
<1> HIDE DEF B
<1> QED BY <1>6, <1>7 DEF NonNegative

-----------------------------------------------------------------------------
\* Decisions are made on days of the history.
Dated == /\ \A s \in Range(steps) : s.as_of \in 1 .. Days
         /\ replay # Idle => replay.cur >= 1

\* A decision is made on a day that leaves room for its horizon.
LEMMA DecideDated ==
    ASSUME ReplayInv, Dated, Decide
    PROVE  Dated'
<1>1. replay \in Running /\ replay.cur <= LastPossible /\ replay.cur >= 1 /\ replay # Idle
  BY DEF Decide, Dated, ReplayInv, ReplayTyped, Idle
<1>2. replay.cur \in Nat /\ replay.spacing \in Nat \ {0} /\ replay.no \in Nat
  BY <1>1 DEF Running
<1>3. Days \in Nat /\ Horizon \in Nat
  BY ReplayAssumption
<1>4. replay.cur \in 1 .. Days
  BY <1>1, <1>2, <1>3 DEF LastPossible
<1>5. PICK s : steps' = Append(steps, s) /\ s.as_of = replay.cur
  BY DEF Decide
<1>6. Range(steps') = Range(steps) \union {s}
  <2>1. steps \in Seq(Step \union {s})
    BY DEF ReplayInv, ReplayTyped
  <2> QED BY <1>5, <2>1, OneStepMore
<1>7. replay'.cur = replay.cur + replay.spacing
  <2> DEFINE c == replay.cur + replay.spacing
             n == replay.no + 1
  <2>1. c \in Nat /\ n \in Nat /\ replay' = [replay EXCEPT !.cur = c, !.no = n]
    BY <1>2 DEF Decide
  <2> HIDE DEF c, n
  <2>2. replay'.cur = c
    BY <1>1, <2>1, WalkGoesOn
  <2> QED BY <2>2 DEF c
<1> QED BY <1>2, <1>4, <1>5, <1>6, <1>7 DEF Dated

\* Every step that was recorded was.
LEMMA DatedAlways == ReplaySpec => []Dated
<1>1. Init => Dated
  BY DEF Init, Dated, Range
<1>2. ReplayInv /\ Dated /\ [Next]_vars => Dated'
  <2> SUFFICES ASSUME ReplayInv, Dated, [Next]_vars PROVE Dated'
    OBVIOUS
  <2>1. ASSUME NEW data \in Datasets, NEW start \in Starts \union {FirstPossible},
               NEW spacing \in Spacings, Begin(data, start, spacing)
        PROVE  Dated'
    <3>1. start >= 1
      <4>1. MinHistory \in Nat /\ Starts \subseteq 1 .. Days /\ Days \in Nat
        BY ReplayAssumption
      <4> QED BY <4>1 DEF FirstPossible
    <3> QED BY <2>1, <3>1 DEF Begin, Dated
  <2>2. CASE Decide
    BY <2>2, DecideDated
  <2>3. CASE Return \/ UNCHANGED vars
    BY <2>3 DEF Return, vars, Dated
  <2> QED BY <2>1, <2>2, <2>3 DEF Next
<1> QED BY <1>1, <1>2, ReplayInvAlways, PTL DEF ReplaySpec

\* Whatever the history, whatever was decided on whatever day: no plan that was
\* payable from the cash the strategy saw has a negative regret, and one that the
\* account could bear is honoured to the last payment.
THEOREM ScoredFairly == ReplaySpec => []RegretIsFair
<1>1. ReplayInv /\ Dated => RegretIsFair
  <2> SUFFICES ASSUME ReplayInv, Dated, steps # <<>> PROVE RegretIsFair
    BY DEF RegretIsFair
  <2> DEFINE s == steps[Len(steps)]
             items == s.problem.items
             cash == Realized(world[s.data], s.as_of)
  <2>1. s \in Range(steps)
    <3>1. steps \in Seq(Step)
      BY DEF ReplayInv, ReplayTyped
    <3>2. Len(steps) \in DOMAIN steps
      BY <3>1
    <3> QED BY <3>2 DEF Range
  <2>2. s.no \in Nat /\ s.as_of \in 1 .. Days /\ world[s.data] \in Worlds
    <3> HIDE DEF s
    <3> QED BY <2>1, StepsTyped DEF ReplayInv, Dated
  <2>3. s.problem = Problem(View(world[s.data], s.as_of), s.no)
    BY <2>1 DEF ReplayInv, OwnIsComputed
  <2> HIDE DEF s
  <2>4. Items(items) /\ cash \in Nat
    BY <2>2, <2>3, ProblemIsTyped, RealizedIsNat
  <2> HIDE DEF items, cash
  <2>5. ASSUME NEW plan \in Payable(items, s.problem.cash)
        PROVE  /\ Regret(items, plan, cash) >= 0
               /\ Spend(plan) <= cash => ~OverCommitted(plan, cash) /\ Honoured(items, plan, cash) = plan
    <3>1. /\ Regret(items, plan, cash) >= 0 /\ Spend(plan) \in Nat
          /\ Spend(plan) <= cash => Honoured(items, plan, cash) = plan
      BY <2>4, RegretIsNeverNegative
    <3>2. Slack \in Nat
      BY ReplayAssumption
    <3>3. Spend(plan) <= cash => ~OverCommitted(plan, cash)
      BY <2>4, <3>1, <3>2 DEF OverCommitted
    <3> QED BY <3>1, <3>3
  <2> QED BY <2>5 DEF RegretIsFair, s, items, cash
<1> QED BY <1>1, ReplayInvAlways, DatedAlways, PTL
=============================================================================
