---------------------------- MODULE ReceiptProofs ----------------------------
(***************************************************************************)
(* Proofs about ReceiptPage, for any number of tabs, samples and readings, *)
(* and, apart from it, about Receipts, for batches of any length, any bill *)
(* and any damage.  The page and the reader behind it share nothing but    *)
(* `job`, so that each property has an inductive invariant of its own.     *)
(***************************************************************************)
EXTENDS ReceiptPage, ReceiptRequirements, DataLemmas, SequenceTheorems, TLAPS

-----------------------------------------------------------------------------
(* The picture.  A fetch whose run is still the tab's was made for the     *)
(* sample that is selected, so a late answer of it is the right picture.   *)

ImageTyped ==
    /\ mounted \subseteq Tabs
    /\ effects \in [Tabs -> Nat]
    /\ selected \in [Tabs -> Samples \cup {None}]
    /\ DOMAIN imgUrl = Tabs

FetchesAreOfRuns ==
    \A f \in fetches :
        /\ f.tab \in Tabs /\ f.run \in Nat /\ f.run <= effects[f.tab]
        /\ f = Url(f.tab, f.run, f.sample)
        /\ f.run = effects[f.tab] => f.sample = selected[f.tab]

LiveAreCurrent == \A u \in live : u.tab \in mounted /\ u.run = effects[u.tab]

PictureWaitsOrFits ==
    \A t \in mounted :
        selected[t] # None /\ imgUrl[t] # None =>
            \/ imgUrl[t] \in live /\ imgUrl[t].tab = t /\ imgUrl[t].sample = selected[t]
            \/ Url(t, effects[t], selected[t]) \in fetches

PictureInv == ImageTyped /\ FetchesAreOfRuns /\ LiveAreCurrent /\ PictureWaitsOrFits

\* No tab shows a picture to begin with.
LEMMA PictureInvInit == Init => PictureInv
BY DEF Init, PictureInv, ImageTyped, FetchesAreOfRuns, LiveAreCurrent, PictureWaitsOrFits

\* The steps of a reading leave the image alone, and so does a stutter.
LEMMA ImageUntouched ==
    ASSUME PictureInv, UNCHANGED <<mounted, selected, imageVars>>
    PROVE  PictureInv'
BY DEF PictureInv, ImageTyped, FetchesAreOfRuns, LiveAreCurrent, PictureWaitsOrFits, imageVars, Url

\* Choosing a receipt keeps the invariant of the pictures.
LEMMA AskKeepsPicture ==
    ASSUME NEW t \in Tabs, NEW x \in Samples \cup {Upload},
           PictureInv, Ask(t, x)
    PROVE  PictureInv'
PROOF
  <1> DEFINE s == IF x = Upload THEN None ELSE x
  <1>1. /\ mounted' = mounted /\ selected' = [selected EXCEPT ![t] = s] /\ Watch(t, s)
        /\ s \in Samples \cup {None}
    BY DEF Ask
  <1>2. CASE s = selected[t]
    <2>1. selected' = selected /\ UNCHANGED imageVars
      BY <1>1, <1>2 DEF Watch, PictureInv, ImageTyped
    <2> QED BY <2>1, <1>1, ImageUntouched
  <1>3. CASE s # selected[t]
    <2>1. /\ live' = {u \in live : u.tab # t}
          /\ effects' = [effects EXCEPT ![t] = effects[t] + 1]
      BY <1>1, <1>3 DEF Watch, Revoke
    <2>2. CASE s = None
      <3>1. imgUrl' = [imgUrl EXCEPT ![t] = None] /\ fetches' = fetches
        BY <1>1, <1>3, <2>2 DEF Watch
      <3>2. ImageTyped'
        BY <1>1, <2>1, <3>1 DEF PictureInv, ImageTyped
      <3>3. FetchesAreOfRuns'
        BY <1>1, <2>1, <3>1 DEF PictureInv, ImageTyped, FetchesAreOfRuns, Url
      <3>4. LiveAreCurrent'
        BY <1>1, <2>1 DEF PictureInv, ImageTyped, LiveAreCurrent
      <3>5. ASSUME NEW o \in mounted', selected'[o] # None, imgUrl'[o] # None
            PROVE  \/ imgUrl'[o] \in live' /\ imgUrl'[o].tab = o /\ imgUrl'[o].sample = selected'[o]
                   \/ Url(o, effects'[o], selected'[o]) \in fetches'
        <4>1. o # t
          BY <3>5, <1>1, <2>2 DEF PictureInv, ImageTyped
        <4>2. effects'[o] = effects[o] /\ selected'[o] = selected[o] /\ imgUrl'[o] = imgUrl[o]
          BY <4>1, <1>1, <2>1, <3>1, <3>5 DEF PictureInv, ImageTyped
        <4>3. \/ imgUrl[o] \in live /\ imgUrl[o].tab = o /\ imgUrl[o].sample = selected[o]
              \/ Url(o, effects[o], selected[o]) \in fetches
          BY <4>2, <1>1, <3>5 DEF PictureInv, PictureWaitsOrFits
        <4> QED BY <4>1, <4>2, <4>3, <3>1, <2>1
      <3> QED BY <3>2, <3>3, <3>4, <3>5 DEF PictureInv, PictureWaitsOrFits, Url
    <2>3. CASE s # None
      <3>1. imgUrl' = imgUrl /\ fetches' = fetches \cup {Url(t, effects[t] + 1, s)}
        BY <1>1, <1>3, <2>3 DEF Watch
      <3>2. ImageTyped'
        BY <1>1, <2>1, <3>1 DEF PictureInv, ImageTyped
      <3>3. FetchesAreOfRuns'
        BY <1>1, <2>1, <3>1 DEF PictureInv, ImageTyped, FetchesAreOfRuns, Url
      <3>4. LiveAreCurrent'
        BY <1>1, <2>1 DEF PictureInv, ImageTyped, LiveAreCurrent
      <3>5. ASSUME NEW o \in mounted', selected'[o] # None, imgUrl'[o] # None
            PROVE  \/ imgUrl'[o] \in live' /\ imgUrl'[o].tab = o /\ imgUrl'[o].sample = selected'[o]
                   \/ Url(o, effects'[o], selected'[o]) \in fetches'
        <4>1. CASE o = t
          <5>1. effects'[o] = effects[o] + 1 /\ selected'[o] = s
            BY <4>1, <1>1, <2>1 DEF PictureInv, ImageTyped
          <5> QED BY <4>1, <5>1, <3>1
        <4>2. CASE o # t
          <5>1. effects'[o] = effects[o] /\ selected'[o] = selected[o] /\ imgUrl'[o] = imgUrl[o]
            BY <4>2, <1>1, <2>1, <3>1, <3>5 DEF PictureInv, ImageTyped
          <5>2. \/ imgUrl[o] \in live /\ imgUrl[o].tab = o /\ imgUrl[o].sample = selected[o]
                \/ Url(o, effects[o], selected[o]) \in fetches
            BY <5>1, <1>1, <3>5 DEF PictureInv, PictureWaitsOrFits
          <5> QED BY <4>2, <5>1, <5>2, <3>1, <2>1
        <4> QED BY <4>1, <4>2
      <3> QED BY <3>2, <3>3, <3>4, <3>5 DEF PictureInv, PictureWaitsOrFits, Url
    <2> QED BY <2>2, <2>3
  <1> QED BY <1>2, <1>3

\* An image that arrives, late ones included, keeps it.
LEMMA ArrivalKeepsPicture ==
    ASSUME NEW f, PictureInv, ImageArrives(f)
    PROVE  PictureInv'
PROOF
  <1>1. /\ f \in fetches /\ fetches' = fetches \ {f}
        /\ UNCHANGED <<mounted, selected, effects>>
    BY DEF ImageArrives, pageVars
  <1>2. /\ f.tab \in Tabs /\ f = Url(f.tab, f.run, f.sample)
        /\ f.run = effects[f.tab] => f.sample = selected[f.tab]
    BY <1>1 DEF PictureInv, FetchesAreOfRuns
  <1>3. CASE f.tab \in mounted /\ f.run = effects[f.tab]
    <2>1. live' = live \cup {f} /\ imgUrl' = [imgUrl EXCEPT ![f.tab] = f]
      BY <1>3 DEF ImageArrives
    <2>2. ImageTyped' /\ FetchesAreOfRuns' /\ LiveAreCurrent'
      BY <1>1, <1>2, <1>3, <2>1 DEF PictureInv, ImageTyped, FetchesAreOfRuns, LiveAreCurrent, Url
    <2>3. PictureWaitsOrFits'
      <3> SUFFICES ASSUME NEW o \in mounted, selected[o] # None, imgUrl'[o] # None
                   PROVE  \/ imgUrl'[o] \in live' /\ imgUrl'[o].tab = o /\ imgUrl'[o].sample = selected[o]
                          \/ Url(o, effects[o], selected[o]) \in fetches'
        BY <1>1 DEF PictureWaitsOrFits, Url
      <3>1. CASE o = f.tab
        BY <3>1, <1>2, <1>3, <2>1 DEF PictureInv, ImageTyped
      <3>2. CASE o # f.tab
        <4>1. imgUrl'[o] = imgUrl[o]
          BY <3>2, <2>1 DEF PictureInv, ImageTyped
        <4>2. Url(o, effects[o], selected[o]) # f
          BY <3>2 DEF Url
        <4>3. \/ imgUrl[o] \in live /\ imgUrl[o].tab = o /\ imgUrl[o].sample = selected[o]
              \/ Url(o, effects[o], selected[o]) \in fetches
          BY <4>1 DEF PictureInv, PictureWaitsOrFits
        <4> QED BY <4>1, <4>2, <4>3, <1>1, <2>1
      <3> QED BY <3>1, <3>2
    <2> QED BY <2>2, <2>3 DEF PictureInv
  <1>4. CASE ~(f.tab \in mounted /\ f.run = effects[f.tab])
    <2>1. live' = live /\ imgUrl' = imgUrl
      BY <1>4 DEF ImageArrives
    <2>2. \A o \in mounted : Url(o, effects[o], selected[o]) # f
      BY <1>4 DEF Url
    <2>3. ImageTyped' /\ FetchesAreOfRuns' /\ LiveAreCurrent' /\ PictureWaitsOrFits'
      BY <1>1, <2>1, <2>2
      DEF PictureInv, ImageTyped, FetchesAreOfRuns, LiveAreCurrent, PictureWaitsOrFits, Url
    <2> QED BY <2>3 DEF PictureInv
  <1> QED BY <1>3, <1>4

\* So does one that fails.
LEMMA FailureKeepsPicture ==
    ASSUME NEW f, PictureInv, ImageFails(f)
    PROVE  PictureInv'
PROOF
  <1> DEFINE current == f.tab \in mounted /\ f.run = effects[f.tab]
  <1>1. /\ f \in fetches /\ fetches' = fetches \ {f}
        /\ imgUrl' = [imgUrl EXCEPT ![f.tab] = IF current THEN None ELSE imgUrl[f.tab]]
        /\ UNCHANGED <<mounted, selected, effects, live>>
    BY DEF ImageFails, pageVars
  <1>2. f.tab \in Tabs /\ f = Url(f.tab, f.run, f.sample)
    BY <1>1 DEF PictureInv, FetchesAreOfRuns
  <1>3. ImageTyped' /\ FetchesAreOfRuns' /\ LiveAreCurrent'
    BY <1>1 DEF PictureInv, ImageTyped, FetchesAreOfRuns, LiveAreCurrent, Url
  <1>4. PictureWaitsOrFits'
    <2> SUFFICES ASSUME NEW o \in mounted, selected[o] # None, imgUrl'[o] # None
                 PROVE  \/ imgUrl[o] \in live /\ imgUrl[o].tab = o /\ imgUrl[o].sample = selected[o]
                        \/ Url(o, effects[o], selected[o]) \in fetches'
      <3>1. ASSUME NEW o \in mounted, imgUrl'[o] # None
            PROVE  imgUrl'[o] = imgUrl[o]
        BY <3>1, <1>1 DEF PictureInv, ImageTyped
      <3> QED BY <3>1, <1>1 DEF PictureWaitsOrFits, Url
    <2>1. o = f.tab => ~current
      BY <1>1, <1>2 DEF PictureInv, ImageTyped
    <2>2. Url(o, effects[o], selected[o]) # f
      BY <2>1 DEF Url
    <2>3. imgUrl[o] # None
      BY <1>1, <2>1 DEF PictureInv, ImageTyped
    <2> QED BY <2>2, <2>3, <1>1 DEF PictureInv, PictureWaitsOrFits
  <1> QED BY <1>3, <1>4 DEF PictureInv

\* So does leaving the page.
LEMMA LeavingKeepsPicture ==
    ASSUME NEW t \in Tabs, PictureInv, Leave(t)
    PROVE  PictureInv'
PROOF
  <1>1. /\ mounted' = mounted \ {t} /\ live' = {u \in live : u.tab # t}
        /\ UNCHANGED <<selected, effects, imgUrl, fetches>>
    BY DEF Leave, Revoke
  <1>2. ImageTyped' /\ FetchesAreOfRuns' /\ LiveAreCurrent'
    BY <1>1 DEF PictureInv, ImageTyped, FetchesAreOfRuns, LiveAreCurrent, Url
  <1>3. PictureWaitsOrFits'
    BY <1>1 DEF PictureInv, PictureWaitsOrFits, Url
  <1> QED BY <1>2, <1>3 DEF PictureInv

\* Reading a receipt does not touch the pictures.
LEMMA ReadLeavesPicture ==
    ASSUME NEW t \in Tabs, Read(t)
    PROVE  UNCHANGED <<mounted, selected, imageVars>>
BY DEF Read, Accept, Resolve, Build, Take, GetReader, Load, Answer, Fails, Hears, Server, pageVars

\* A blob URL lives exactly as long as the selection it was fetched for, and the
\* picture beside the fields is the selection's or its image is still on the way,
\* in any number of tabs (page.tsx:61-82).
THEOREM PictureFitsSelection == PageSpec => []PictureOfTheSelection
PROOF
  <1>1. Init => PictureInv
    BY PictureInvInit
  <1>2. PictureInv /\ [Next]_vars => PictureInv'
    <2> SUFFICES ASSUME PictureInv, [Next]_vars
                 PROVE  PictureInv'
      OBVIOUS
    <2>1. CASE \E t \in Tabs, x \in Samples \cup {Upload} : Ask(t, x)
      BY <2>1, AskKeepsPicture
    <2>2. CASE \E t \in Tabs : Leave(t)
      BY <2>2, LeavingKeepsPicture
    <2>3. CASE \E t \in Tabs : Read(t)
      BY <2>3, ReadLeavesPicture, ImageUntouched
    <2>4. CASE \E f \in fetches : ImageArrives(f) \/ ImageFails(f)
      BY <2>4, ArrivalKeepsPicture, FailureKeepsPicture
    <2>5. CASE UNCHANGED vars
      BY <2>5, ImageUntouched DEF vars, pageVars
    <2> QED BY <2>1, <2>2, <2>3, <2>4, <2>5 DEF Next
  <1>3. PictureInv => PictureOfTheSelection
    BY DEF PictureInv, LiveAreCurrent, PictureWaitsOrFits, PictureOfTheSelection
  <1> QED BY <1>1, <1>2, <1>3, PTL DEF PageSpec

-----------------------------------------------------------------------------
(* The reader.  Once an engine with its weights is in the cache and nobody *)
(* is building another, it stays so: an engine is built only by a request  *)
(* that found none, and the cache is never emptied.                        *)

Phases == {"sent", "resolve", "build", "take", "reader", "loading", "reading"}

Warm == cache \in loaded /\ ~Racing

ReaderTyped ==
    /\ job \in [Tabs -> [of : Samples \cup {Upload}, at : Phases, engine : Nat, cold : BOOLEAN] \cup {None}]
    /\ cache \in Nat /\ built \in Nat /\ loaded \subseteq Nat \ {0}

EnginesTaken ==
    \A t \in Tabs :
        /\ At(t, "take") => cache # 0
        /\ At(t, "reader") \/ At(t, "loading") => job[t].engine # 0

WarmAccepted ==
    \A t \in Tabs :
        job[t] # None /\ job[t].at # "sent" /\ ~job[t].cold =>
            /\ Warm
            /\ job[t].at \in {"resolve", "take", "reader", "reading"}
            /\ job[t].at = "reader" => job[t].engine \in loaded

ReaderInv == ReaderTyped /\ EnginesTaken /\ WarmAccepted

\* No engine is built to begin with.
LEMMA ReaderInvInit == Init => ReaderInv
BY DEF Init, ReaderInv, ReaderTyped, EnginesTaken, WarmAccepted, At

\* Sending a receipt keeps the invariant of the reader.
LEMMA AskKeepsReader ==
    ASSUME NEW t \in Tabs, NEW x \in Samples \cup {Upload}, ReaderInv, Ask(t, x)
    PROVE  ReaderInv'
PROOF
  <1> DEFINE asked == [of |-> x, at |-> "sent", engine |-> 0, cold |-> FALSE]
  <1>1. job' = [job EXCEPT ![t] = asked] /\ UNCHANGED <<cache, built, loaded>>
    BY DEF Ask, engineVars
  <1>2. ReaderTyped'
    BY <1>1 DEF ReaderInv, ReaderTyped, Phases
  <1>3. \A o \in Tabs : job'[o] = IF o = t THEN asked ELSE job[o]
    BY <1>1 DEF ReaderInv, ReaderTyped
  <1>4. EnginesTaken'
    BY <1>1, <1>3 DEF ReaderInv, EnginesTaken, At
  <1>5. Warm => Warm'
    BY <1>1, <1>3 DEF Warm, Racing, At
  <1>6. WarmAccepted'
    BY <1>1, <1>3, <1>5 DEF ReaderInv, WarmAccepted
  <1> QED BY <1>2, <1>4, <1>6 DEF ReaderInv

\* A step of t's request that leaves the engines alone and does not set out to build one.
LEMMA StepKeepsReader ==
    ASSUME NEW t \in Tabs, ReaderInv, job[t] # None,
           NEW next \in [of : Samples \cup {Upload}, at : Phases, engine : Nat, cold : BOOLEAN],
           job' = [job EXCEPT ![t] = next], UNCHANGED <<cache, built, loaded>>,
           next.at = "build" => cache = 0,
           next.at = "take" => cache # 0,
           next.at \in {"reader", "loading"} => next.engine # 0,
           next.at # "sent" /\ ~next.cold =>
               /\ Warm
               /\ next.at \in {"resolve", "take", "reader", "reading"}
               /\ next.at = "reader" => next.engine \in loaded
    PROVE  ReaderInv'
PROOF
  <1>1. ReaderTyped'
    BY DEF ReaderInv, ReaderTyped
  <1>2. \A o \in Tabs : job'[o] = IF o = t THEN next ELSE job[o]
    BY DEF ReaderInv, ReaderTyped
  <1>3. EnginesTaken'
    BY <1>2 DEF ReaderInv, EnginesTaken, At
  <1>4. Warm => Warm'
    <2>1. Warm => cache # 0
      BY DEF Warm, ReaderInv, ReaderTyped
    <2> QED BY <1>2, <2>1 DEF Warm, Racing, At
  <1>5. WarmAccepted'
    BY <1>2, <1>4 DEF ReaderInv, WarmAccepted
  <1> QED BY <1>1, <1>3, <1>5 DEF ReaderInv

\* Building an engine, a second one at the same time included, keeps it.
LEMMA BuildKeepsReader ==
    ASSUME NEW t \in Tabs, ReaderInv, Build(t)
    PROVE  ReaderInv'
PROOF
  <1>1. /\ At(t, "build") /\ built' = built + 1 /\ cache' = built + 1 /\ UNCHANGED loaded
        /\ job' = [job EXCEPT ![t].at = "take"]
    BY DEF Build, Move
  <1>2. ReaderTyped'
    BY <1>1 DEF ReaderInv, ReaderTyped, Phases, At
  <1>3. \A o \in Tabs : job'[o] = IF o = t THEN [job[t] EXCEPT !.at = "take"] ELSE job[o]
    BY <1>1 DEF ReaderInv, ReaderTyped
  <1>4. ~Warm
    BY <1>1 DEF Warm, Racing
  <1>5. EnginesTaken'
    BY <1>1, <1>3 DEF ReaderInv, ReaderTyped, EnginesTaken, At
  <1>6. WarmAccepted'
    BY <1>1, <1>3, <1>4 DEF ReaderInv, ReaderTyped, WarmAccepted, At
  <1> QED BY <1>2, <1>5, <1>6 DEF ReaderInv

\* So does loading its models.
LEMMA LoadKeepsReader ==
    ASSUME NEW t \in Tabs, ReaderInv, Load(t)
    PROVE  ReaderInv'
PROOF
  <1>1. /\ At(t, "loading") /\ loaded' = loaded \cup {job[t].engine} /\ UNCHANGED <<cache, built>>
        /\ job' = [job EXCEPT ![t].at = "reading"]
    BY DEF Load, Move
  <1>2. ReaderTyped'
    BY <1>1 DEF ReaderInv, ReaderTyped, EnginesTaken, Phases, At
  <1>3. \A o \in Tabs : job'[o] = IF o = t THEN [job[t] EXCEPT !.at = "reading"] ELSE job[o]
    BY <1>1 DEF ReaderInv, ReaderTyped
  <1>4. Warm => Warm'
    BY <1>1, <1>3 DEF Warm, Racing, At
  <1>5. EnginesTaken'
    BY <1>1, <1>3 DEF ReaderInv, ReaderTyped, EnginesTaken, At
  <1>6. WarmAccepted'
    BY <1>1, <1>3, <1>4 DEF ReaderInv, ReaderTyped, WarmAccepted, At
  <1> QED BY <1>2, <1>5, <1>6 DEF ReaderInv

\* So does answering, with a reading or an error.
LEMMA AnswerKeepsReader ==
    ASSUME NEW t \in Tabs, ReaderInv, Answer(t) \/ Fails(t)
    PROVE  ReaderInv'
PROOF
  <1>1. job' = [job EXCEPT ![t] = None] /\ UNCHANGED <<cache, built, loaded>>
    BY DEF Answer, Fails, Hears, engineVars
  <1>2. ReaderTyped'
    BY <1>1 DEF ReaderInv, ReaderTyped
  <1>3. \A o \in Tabs : job'[o] = IF o = t THEN None ELSE job[o]
    BY <1>1 DEF ReaderInv, ReaderTyped
  <1>4. (Warm => Warm') /\ EnginesTaken'
    BY <1>1, <1>3 DEF Warm, Racing, At, ReaderInv, EnginesTaken
  <1>5. WarmAccepted'
    BY <1>1, <1>3, <1>4 DEF ReaderInv, WarmAccepted
  <1> QED BY <1>2, <1>4, <1>5 DEF ReaderInv

\* Every step of a reading keeps it.
LEMMA ReadKeepsReader ==
    ASSUME NEW t \in Tabs, ReaderInv, Read(t)
    PROVE  ReaderInv'
PROOF
  <1> USE DEF ReaderInv, ReaderTyped
  <1>1. CASE Accept(t)
    <2> DEFINE next == [job[t] EXCEPT !.at = "resolve", !.cold = cache \notin loaded \/ Racing]
    <2>1. /\ At(t, "sent") /\ job' = [job EXCEPT ![t] = next] /\ UNCHANGED <<cache, built, loaded>>
      BY <1>1 DEF Accept, engineVars
    <2>2. /\ next \in [of : Samples \cup {Upload}, at : Phases, engine : Nat, cold : BOOLEAN]
          /\ next.at = "resolve" /\ next.cold = (cache \notin loaded \/ Racing)
      BY <2>1 DEF At, Phases, Racing
    <2> HIDE DEF next, ReaderInv, ReaderTyped
    <2> QED BY <2>1, <2>2, StepKeepsReader DEF At, Warm
  <1>2. CASE Resolve(t)
    <2> DEFINE next == [job[t] EXCEPT !.at = IF cache = 0 THEN "build" ELSE "take"]
    <2>1. /\ At(t, "resolve") /\ job' = [job EXCEPT ![t] = next] /\ UNCHANGED <<cache, built, loaded>>
      BY <1>2 DEF Resolve, Move, engineVars
    <2>2. /\ next \in [of : Samples \cup {Upload}, at : Phases, engine : Nat, cold : BOOLEAN]
          /\ next.at = (IF cache = 0 THEN "build" ELSE "take") /\ next.cold = job[t].cold
      BY <2>1 DEF At, Phases
    <2>3. ~next.cold => Warm /\ cache # 0
      BY <2>1, <2>2 DEF At, WarmAccepted, Warm
    <2> HIDE DEF next, ReaderInv, ReaderTyped
    <2> QED BY <2>1, <2>2, <2>3, StepKeepsReader DEF At
  <1>3. CASE Build(t)
    BY <1>3, BuildKeepsReader
  <1>4. CASE Take(t)
    <2> DEFINE next == [job[t] EXCEPT !.at = "reader", !.engine = cache]
    <2>1. /\ At(t, "take") /\ job' = [job EXCEPT ![t] = next] /\ UNCHANGED <<cache, built, loaded>>
      BY <1>4 DEF Take, engineVars
    <2>2. /\ next \in [of : Samples \cup {Upload}, at : Phases, engine : Nat, cold : BOOLEAN]
          /\ next.at = "reader" /\ next.cold = job[t].cold /\ next.engine = cache
      BY <2>1 DEF At, Phases
    <2>3. (~next.cold => Warm) /\ cache # 0
      BY <2>1, <2>2 DEF At, WarmAccepted, EnginesTaken
    <2> HIDE DEF next, ReaderInv, ReaderTyped
    <2> QED BY <2>1, <2>2, <2>3, StepKeepsReader DEF At, Warm
  <1>5. CASE GetReader(t)
    <2> DEFINE next == [job[t] EXCEPT !.at = IF job[t].engine \in loaded THEN "reading" ELSE "loading"]
    <2>1. /\ At(t, "reader") /\ job' = [job EXCEPT ![t] = next] /\ UNCHANGED <<cache, built, loaded>>
      BY <1>5 DEF GetReader, Move, engineVars
    <2>2. /\ next \in [of : Samples \cup {Upload}, at : Phases, engine : Nat, cold : BOOLEAN]
          /\ next.at = (IF job[t].engine \in loaded THEN "reading" ELSE "loading")
          /\ next.cold = job[t].cold /\ next.engine = job[t].engine
      BY <2>1 DEF At, Phases
    <2>3. (~next.cold => Warm /\ job[t].engine \in loaded) /\ job[t].engine # 0
      BY <2>1, <2>2 DEF At, WarmAccepted, EnginesTaken
    <2> HIDE DEF next, ReaderInv, ReaderTyped
    <2> QED BY <2>1, <2>2, <2>3, StepKeepsReader DEF At
  <1>6. CASE Load(t)
    BY <1>6, LoadKeepsReader
  <1>7. CASE Answer(t) \/ Fails(t)
    BY <1>7, AnswerKeepsReader
  <1> QED BY <1>1, <1>2, <1>3, <1>4, <1>5, <1>6, <1>7 DEF Read

\* A request loads weights only if it came while none were loaded or another
\* request was on its way to replace the engine: after the first quiet moment the
\* process never loads again, for any number of tabs (ocr_service.py:217-222, 312-323).
THEOREM LoadedOncePerQuietStart == PageSpec => []WarmStaysWarm
PROOF
  <1>1. Init => ReaderInv
    BY ReaderInvInit
  <1>2. ReaderInv /\ [Next]_vars => ReaderInv'
    <2> SUFFICES ASSUME ReaderInv, [Next]_vars
                 PROVE  ReaderInv'
      OBVIOUS
    <2>1. CASE \E t \in Tabs, x \in Samples \cup {Upload} : Ask(t, x)
      BY <2>1, AskKeepsReader
    <2>2. CASE \E t \in Tabs : Read(t)
      BY <2>2, ReadKeepsReader
    <2>3. CASE UNCHANGED <<job, engineVars>>
      BY <2>3 DEF ReaderInv, ReaderTyped, EnginesTaken, WarmAccepted, Warm, Racing, At, engineVars
    <2>4. CASE \E t \in Tabs : Leave(t)
      BY <2>4, <2>3 DEF Leave
    <2>5. CASE \E f \in fetches : ImageArrives(f) \/ ImageFails(f)
      BY <2>5, <2>3 DEF ImageArrives, ImageFails
    <2>6. CASE UNCHANGED vars
      BY <2>6, <2>3 DEF vars
    <2> QED BY <2>1, <2>2, <2>4, <2>5, <2>6 DEF Next
  <1>3. ReaderInv => WarmStaysWarm
    BY DEF ReaderInv, WarmAccepted, WarmStaysWarm, At
  <1> QED BY <1>1, <1>2, <1>3, PTL DEF PageSpec

-----------------------------------------------------------------------------
(* The eighteen regions of a bill, and what damage leaves of one.            *)

Reference(b) == <<Group(4, b.invoice, "")>>
Year == <<Group(4, 2026, "")>>

\* There are eighteen of them.
LEMMA LayoutSize ==
    ASSUME NEW b
    PROVE  Len(Layout(b)) = 18 /\ DOMAIN Layout(b) = 1 .. 18
BY SMTT(30) DEF Layout

\* They stand on eleven lines.
LEMMA LayoutLines ==
    ASSUME NEW b
    PROVE  LET page == Layout(b)
           IN  /\ page[1].line = 1 /\ page[2].line = 2 /\ page[3].line = 3 /\ page[4].line = 3
               /\ page[5].line = 4 /\ page[6].line = 4 /\ page[7].line = 5 /\ page[8].line = 5
               /\ page[9].line = 6 /\ page[10].line = 7 /\ page[11].line = 7 /\ page[12].line = 8
               /\ page[13].line = 8 /\ page[14].line = 9 /\ page[15].line = 9 /\ page[16].line = 10
               /\ page[17].line = 10 /\ page[18].line = 11
BY ZenonT(60) DEF Layout, Region, Label, Figure

\* Their kinds.
LEMMA LayoutKinds ==
    ASSUME NEW b
    PROVE  LET page == Layout(b)
           IN  /\ page[1].kind = "words" /\ page[2].kind = "label" /\ page[3].kind = "label"
               /\ page[4].kind = "words" /\ page[5].kind = "label" /\ page[6].kind = "figure"
               /\ page[7].kind = "label" /\ page[8].kind = "words" /\ page[9].kind = "label"
               /\ page[10].kind = "words" /\ page[11].kind = "figure" /\ page[12].kind = "label"
               /\ page[13].kind = "figure" /\ page[14].kind = "label" /\ page[15].kind = "figure"
               /\ page[16].kind = "label" /\ page[17].kind = "figure" /\ page[18].kind = "label"
BY ZenonT(60) DEF Layout, Region, Label, Figure

\* The label words in them.
LEMMA LayoutSays ==
    ASSUME NEW b
    PROVE  LET page == Layout(b)
           IN  /\ page[1].says = {} /\ page[2].says = {"tax", "invoice"}
               /\ page[3].says = {"invoice"} /\ page[4].says = {"invoice"}
               /\ page[5].says = {"date"} /\ page[6].says = {}
               /\ page[7].says = {"gst", "gstin"} /\ page[8].says = {"registration"}
               /\ page[9].says = {} /\ page[10].says = {}
               /\ page[11].says = {} /\ page[12].says = {"total", "sub"}
               /\ page[13].says = {} /\ page[14].says = {"gst"}
               /\ page[15].says = {} /\ page[16].says = {"total"}
               /\ page[17].says = {"inr"} /\ page[18].says = {"invoice", "date"}
BY ZenonT(60) DEF Layout, Region, Label, Figure

\* The digits in them.
LEMMA LayoutRuns ==
    ASSUME NEW b
    PROVE  LET page == Layout(b)
           IN  /\ page[1].runs = {} /\ page[2].runs = {} /\ page[3].runs = {}
               /\ page[4].runs = {Reference(b)} /\ page[5].runs = {} /\ page[6].runs = {Year}
               /\ page[7].runs = {} /\ page[8].runs = {} /\ page[9].runs = {}
               /\ page[10].runs = {} /\ page[11].runs = {Thousands[b.subtotal]} /\ page[12].runs = {}
               /\ page[13].runs = {Thousands[b.subtotal]} /\ page[14].runs = {} /\ page[15].runs = {Printed(Tax(b))}
               /\ page[16].runs = {} /\ page[17].runs = {Printed(Total(b))} /\ page[18].runs = {}
BY ZenonT(60) DEF Layout, Region, Label, Figure, Reference, Year

\* Which parse as a date or as a bill number, and what the first one says.
LEMMA LayoutValues ==
    ASSUME NEW b
    PROVE  LET page == Layout(b)
           IN  /\ page[1].text = b.vendor /\ page[17].text = "figure"
               /\ page[6].date = b.day /\ page[4].invoice = b.invoice
               /\ page[1].date = Unread /\ page[2].date = Unread /\ page[3].date = Unread
               /\ page[4].date = Unread /\ page[5].date = Unread /\ page[7].date = Unread
               /\ page[8].date = Unread /\ page[9].date = Unread /\ page[10].date = Unread
               /\ page[11].date = Unread /\ page[12].date = Unread /\ page[13].date = Unread
               /\ page[14].date = Unread /\ page[15].date = Unread /\ page[16].date = Unread
               /\ page[17].date = Unread /\ page[18].date = Unread
               /\ page[1].invoice = Unread /\ page[2].invoice = Unread /\ page[3].invoice = Unread
               /\ page[5].invoice = Unread /\ page[6].invoice = Unread /\ page[7].invoice = Unread
               /\ page[8].invoice = Unread /\ page[9].invoice = Unread /\ page[10].invoice = Unread
               /\ page[11].invoice = Unread /\ page[12].invoice = Unread /\ page[13].invoice = Unread
               /\ page[14].invoice = Unread /\ page[15].invoice = Unread /\ page[16].invoice = Unread
               /\ page[17].invoice = Unread /\ page[18].invoice = Unread
BY DEF Layout, Region, Label, Figure

IsRegion(r) ==
    \E line, kind, text, says, runs, invoice, date :
        r = Region(line, kind, text, says, runs, invoice, date)

\* A region is a record of its fields.
LEMMA LayoutRegions ==
    ASSUME NEW b, NEW k \in 1 .. 18
    PROVE  IsRegion(Layout(b)[k])
<1> DEFINE page == Layout(b)
<1>1. \A line, kind, text, says, runs, invoice, date : IsRegion(Region(line, kind, text, says, runs, invoice, date))
  BY DEF IsRegion
<1>2. \A line, text, says : IsRegion(Label(line, text, says))
  BY <1>1 DEF Label
<1>3. \A line, says, digits : IsRegion(Figure(line, says, digits))
  BY <1>1 DEF Figure
<1>4. IsRegion(page[1]) /\ IsRegion(page[4]) /\ IsRegion(page[6])
  <2>1. IsRegion(Region(1, "words", b.vendor, {}, {}, Unread, Unread))
    BY <1>1
  <2>2. IsRegion(Region(3, "words", "reference", {"invoice"}, {Reference(b)}, b.invoice, Unread))
    BY <1>1
  <2>3. IsRegion(Region(4, "figure", "date", {}, {Year}, Unread, b.day))
    BY <1>1
  <2>4. /\ page[1] = Region(1, "words", b.vendor, {}, {}, Unread, Unread)
        /\ page[4] = Region(3, "words", "reference", {"invoice"}, {Reference(b)}, b.invoice, Unread)
        /\ page[6] = Region(4, "figure", "date", {}, {Year}, Unread, b.day)
    BY DEF Layout, Reference, Year
  <2> HIDE DEF page
  <2> QED BY <2>1, <2>2, <2>3, <2>4
<1>5. IsRegion(page[8]) /\ IsRegion(page[10])
  BY <1>1 DEF Layout
<1>6. IsRegion(page[2]) /\ IsRegion(page[3]) /\ IsRegion(page[5])
  BY <1>2 DEF Layout
<1>7. IsRegion(page[7]) /\ IsRegion(page[9]) /\ IsRegion(page[12])
  BY <1>2 DEF Layout
<1>8. IsRegion(page[14]) /\ IsRegion(page[16]) /\ IsRegion(page[18])
  BY <1>2 DEF Layout
<1>9. IsRegion(page[11]) /\ IsRegion(page[13]) /\ IsRegion(page[15])
  BY <1>3 DEF Layout
<1>10. IsRegion(page[17])
  BY <1>3 DEF Layout
<1> HIDE DEF page
<1>11. IsRegion(page[k])
  BY <1>4, <1>5, <1>6, <1>7, <1>8, <1>9, <1>10
<1> QED BY <1>11 DEF page

\* The region k as it was seen.
Look(b, hurt, k) == IF k \in DOMAIN hurt THEN Damaged(Layout(b)[k], hurt[k]) ELSE Layout(b)[k]

Spread(digits) == [k \in DOMAIN digits |-> [digits[k] EXCEPT !.sep = " "]]
Glued(digits) == <<Group(Digits(digits), Concat(digits), "")>>

\* What damage leaves of a region's fields.
LEMMA DamagedIs ==
    ASSUME NEW r, IsRegion(r), NEW how
    PROVE  LET d == Damaged(r, how)
           IN  /\ d.kind \in {r.kind, "words"} /\ d.says \in {r.says, {}}
               /\ d.invoice \in {r.invoice, Unread} /\ d.date \in {r.date, Unread}
               /\ how # "garbled" => /\ d.kind = r.kind /\ d.says = r.says /\ d.text = r.text
                                     /\ d.invoice = r.invoice /\ d.date = r.date
               /\ how = "garbled" => d.kind = "words" /\ d.says = {} /\ d.runs = {}
               /\ how = "spread" => d.runs = {Spread(digits) : digits \in r.runs}
               /\ how = "glued" => d.runs = {Glued(digits) : digits \in r.runs}
               /\ how = "cut" => d.runs = {Tail(digits) : digits \in r.runs}
               /\ how \in {"lost", "sunk"} => d.runs = r.runs
<1>0. PICK line, kind, text, says, runs, invoice, date :
          r = [line |-> line, kind |-> kind, text |-> text, says |-> says,
               runs |-> runs, invoice |-> invoice, date |-> date]
  BY DEF IsRegion, Region
<1>1. CASE how = "garbled"
  BY <1>1 DEF Damaged, Region
<1>2. CASE how = "spread"
  BY <1>0, <1>2 DEF Damaged, Spread
<1>3. CASE how = "glued"
  BY <1>0, <1>3 DEF Damaged, Glued
<1>4. CASE how = "cut"
  BY <1>0, <1>4 DEF Damaged
<1>5. CASE how \notin {"garbled", "spread", "glued", "cut"}
  BY <1>5 DEF Damaged
<1> QED BY <1>1, <1>2, <1>3, <1>4, <1>5

\* What a region still shows when it was damaged.
LEMMA LookIs ==
    ASSUME NEW b, NEW hurt, NEW k \in 1 .. 18
    PROVE  LET r == Look(b, hurt, k)
               p == Layout(b)[k]
           IN  /\ r.kind \in {p.kind, "words"} /\ r.says \in {p.says, {}}
               /\ r.invoice \in {p.invoice, Unread} /\ r.date \in {p.date, Unread}
               /\ k \notin DOMAIN hurt \/ hurt[k] # "garbled" =>
                    /\ r.kind = p.kind /\ r.says = p.says /\ r.text = p.text
                    /\ r.invoice = p.invoice /\ r.date = p.date
               /\ k \in DOMAIN hurt /\ hurt[k] = "garbled" => r.kind = "words" /\ r.says = {} /\ r.runs = {}
               /\ k \in DOMAIN hurt /\ hurt[k] = "spread" => r.runs = {Spread(digits) : digits \in p.runs}
               /\ k \in DOMAIN hurt /\ hurt[k] = "glued" => r.runs = {Glued(digits) : digits \in p.runs}
               /\ k \in DOMAIN hurt /\ hurt[k] = "cut" => r.runs = {Tail(digits) : digits \in p.runs}
               /\ k \notin DOMAIN hurt \/ hurt[k] \in {"lost", "sunk"} => r.runs = p.runs
<1> DEFINE p == Layout(b)[k]
<1>1. IsRegion(p)
  BY LayoutRegions
<1>2. CASE k \notin DOMAIN hurt
  BY <1>2 DEF Look
<1>3. CASE k \in DOMAIN hurt
  <2>1. Look(b, hurt, k) = Damaged(p, hurt[k])
    BY <1>3 DEF Look
  <2> HIDE DEF p
  <2> QED BY <1>1, <1>3, <2>1, DamagedIs DEF p
<1> QED BY <1>2, <1>3

-----------------------------------------------------------------------------
(* The rows.                                                                 *)

\* Those of a set up to t.
Among(S, t) == {u \in S : u <= t}

\* The k-th smallest of a set of integers is the one with k up to it.
LEMMA KthOfSet ==
    ASSUME NEW S \in SUBSET Int, IsFiniteSet(S)
    PROVE  LET from == [t \in S |-> t]
           IN  /\ \A i \in 1 .. Cardinality(S) :
                    KthSmallest(from, i) \in S /\ Cardinality(Among(S, KthSmallest(from, i))) = i
               /\ \A t \in S :
                    /\ Cardinality(Among(S, t)) \in 1 .. Cardinality(S)
                    /\ KthSmallest(from, Cardinality(Among(S, t))) = t
               /\ \A t, u \in S : t < u <=> Cardinality(Among(S, t)) < Cardinality(Among(S, u))
<1> DEFINE from == [t \in S |-> t]
<1>1. from \in [S -> Int] /\ Range(from) = S
  BY DEF Range
<1>2. ASSUME NEW t \in S PROVE UpTo(from, t) = Among(S, t) /\ Below(from, t) = Among(S, t) \ {t}
  <2>1. \A s \in S : from[s] = s /\ s \in Int /\ (s < t <=> s <= t /\ s # t)
    OBVIOUS
  <2>2. DOMAIN from = S
    OBVIOUS
  <2> HIDE DEF from
  <2> QED BY <2>1, <2>2 DEF UpTo, Below, Among
<1>3. ASSUME NEW t \in S
      PROVE  /\ IsFiniteSet(Among(S, t)) /\ Cardinality(Among(S, t)) \in 1 .. Cardinality(S)
             /\ Cardinality(Among(S, t)) \in Nat
             /\ IsFiniteSet(Among(S, t) \ {t})
             /\ Cardinality(Among(S, t) \ {t}) = Cardinality(Among(S, t)) - 1
  <2>1. Among(S, t) \in SUBSET S /\ t \in Among(S, t)
    BY DEF Among
  <2>2. /\ IsFiniteSet(Among(S, t)) /\ Cardinality(Among(S, t)) \in Nat
        /\ Cardinality(Among(S, t)) <= Cardinality(S)
    BY <2>1, Counted
  <2>3. Cardinality(Among(S, t)) # 0
    BY <2>1, <2>2, FS_EmptySet
  <2>4. Cardinality(S) \in Nat
    BY FS_CardinalityType
  <2>5. IsFiniteSet(Among(S, t) \ {t}) /\ Cardinality(Among(S, t) \ {t}) = Cardinality(Among(S, t)) - 1
    BY <2>1, <2>2, FS_RemoveElement
  <2> QED BY <2>2, <2>3, <2>4, <2>5
<1>4. ASSUME NEW t \in S, NEW u \in S, t < u
      PROVE  Cardinality(Among(S, t)) < Cardinality(Among(S, u))
  <2>1. Among(S, t) \in SUBSET (Among(S, u) \ {u})
    <3> SUFFICES ASSUME NEW v \in S, v <= t PROVE v <= u /\ v # u
      BY DEF Among
    <3>1. v \in Int /\ t \in Int /\ u \in Int
      OBVIOUS
    <3> QED BY <1>4, <3>1
  <2>2. /\ IsFiniteSet(Among(S, u) \ {u}) /\ Cardinality(Among(S, t)) \in Nat
        /\ Cardinality(Among(S, u)) \in Nat
        /\ Cardinality(Among(S, u) \ {u}) = Cardinality(Among(S, u)) - 1
    BY <1>3
  <2>3. Cardinality(Among(S, t)) <= Cardinality(Among(S, u) \ {u})
    BY <2>1, <2>2, Counted
  <2> QED BY <2>2, <2>3
<1> HIDE DEF from
<1>5. ASSUME NEW i \in 1 .. Cardinality(S)
      PROVE  KthSmallest(from, i) \in S /\ Cardinality(Among(S, KthSmallest(from, i))) = i
  <2> DEFINE v == KthSmallest(from, i)
  <2>1. v \in S /\ Cardinality(Below(from, v)) < i /\ i <= Cardinality(UpTo(from, v))
    BY <1>1, KthSmallestIs
  <2> HIDE DEF v
  <2>2. Below(from, v) = Among(S, v) \ {v} /\ UpTo(from, v) = Among(S, v)
    BY <1>2, <2>1
  <2>3. Cardinality(Among(S, v)) \in Nat /\ Cardinality(Among(S, v) \ {v}) = Cardinality(Among(S, v)) - 1
    BY <2>1, <1>3
  <2>4. i \in Int
    OBVIOUS
  <2>5. Cardinality(Among(S, v)) = i
    BY <2>1, <2>2, <2>3, <2>4
  <2> QED BY <2>1, <2>5 DEF v
<1>6. ASSUME NEW t \in S
      PROVE  KthSmallest(from, Cardinality(Among(S, t))) = t
  <2> DEFINE i == Cardinality(Among(S, t))
             w == KthSmallest(from, i)
  <2>1. i \in 1 .. Cardinality(S) /\ i \in Nat
    BY <1>3
  <2> HIDE DEF i
  <2>2. w \in S /\ Cardinality(Among(S, w)) = i
    BY <2>1, <1>5
  <2> HIDE DEF w
  <2>3. ~(w < t) /\ ~(t < w)
    BY <1>4, <2>1, <2>2 DEF i
  <2>4. w = t
    BY <2>2, <2>3
  <2> QED BY <2>4 DEF w, i
<1>7. ASSUME NEW t \in S, NEW u \in S
      PROVE  t < u <=> Cardinality(Among(S, t)) < Cardinality(Among(S, u))
  <2>1. Cardinality(Among(S, t)) \in Nat /\ Cardinality(Among(S, u)) \in Nat
    BY <1>3
  <2>2. t < u \/ t = u \/ u < t
    OBVIOUS
  <2>3. t < u => Cardinality(Among(S, t)) < Cardinality(Among(S, u))
    BY <1>4
  <2>4. u < t => Cardinality(Among(S, u)) < Cardinality(Among(S, t))
    BY <1>4
  <2> QED BY <2>1, <2>2, <2>3, <2>4
<1> QED BY <1>3, <1>5, <1>6, <1>7, Zenon DEF from

HeightOf(b, hurt, k) == Height(Layout(b), hurt, k)
SeenOf(b, hurt) == Seen(Layout(b), hurt, b.absent)
Heights(b, hurt) == {HeightOf(b, hurt, k) : k \in SeenOf(b, hurt)}

\* The regions of the row at a height, that row, and its place from the top.
InRow(b, hurt, t) == {k \in SeenOf(b, hurt) : HeightOf(b, hurt, k) = t}
RowAt(b, hurt, t) == Row(Layout(b), hurt, InRow(b, hurt, t))
Place(b, hurt, t) == Cardinality(Among(Heights(b, hurt), t))

\* A region stands on its line, or half a line below it.
LEMMA HeightIs ==
    ASSUME NEW b, NEW hurt, NEW k \in 1 .. 18
    PROVE  /\ Layout(b)[k].line \in 1 .. 11
           /\ HeightOf(b, hurt, k) = 40 * Layout(b)[k].line
                                     + (IF k \in DOMAIN hurt /\ hurt[k] = "sunk" THEN 20 ELSE 0)
<1> DEFINE page == Layout(b)
<1>1. page[k].line \in 1 .. 11
  <2>1. /\ page[1].line = 1 /\ page[2].line = 2 /\ page[3].line = 3 /\ page[4].line = 3
        /\ page[5].line = 4 /\ page[6].line = 4 /\ page[7].line = 5 /\ page[8].line = 5
        /\ page[9].line = 6 /\ page[10].line = 7 /\ page[11].line = 7 /\ page[12].line = 8
    BY LayoutLines
  <2>2. /\ page[13].line = 8 /\ page[14].line = 9 /\ page[15].line = 9 /\ page[16].line = 10
        /\ page[17].line = 10 /\ page[18].line = 11
    BY LayoutLines
  <2> HIDE DEF page
  <2> QED BY <2>1, <2>2
<1> QED BY <1>1 DEF HeightOf, Height, Pitch, Drift

\* So no two heights are nearer than the tolerance: each is the top of a row.
LEMMA TopsAre ==
    ASSUME NEW b, NEW hurt
    PROVE  /\ SeenOf(b, hurt) \subseteq 1 .. 18
           /\ Heights(b, hurt) \in SUBSET Nat /\ IsFiniteSet(Heights(b, hurt))
           /\ Tops(Heights(b, hurt)) = Heights(b, hurt)
<1> DEFINE S == SeenOf(b, hurt)  H(k) == HeightOf(b, hurt, k)
<1>1. S \subseteq 1 .. 18
  BY LayoutSize DEF SeenOf, Seen
<1>2. \A k \in 1 .. 18 : \E m \in Nat : H(k) = 20 * m
  <2> TAKE k \in 1 .. 18
  <2> DEFINE n == Layout(b)[k].line
  <2>1. n \in 1 .. 11 /\ H(k) = 40 * n + (IF k \in DOMAIN hurt /\ hurt[k] = "sunk" THEN 20 ELSE 0)
    BY HeightIs
  <2> HIDE DEF n, H
  <2>2. H(k) = 20 * (2 * n) \/ H(k) = 20 * (2 * n + 1)
    BY <2>1
  <2>3. 2 * n \in Nat /\ 2 * n + 1 \in Nat
    BY <2>1
  <2> QED BY <2>2, <2>3
<1>3. \A h \in Heights(b, hurt) : \E m \in Nat : h = 20 * m
  BY <1>1, <1>2 DEF Heights
<1>4. Heights(b, hurt) \in SUBSET Nat
  BY <1>3
<1>5. IsFiniteSet(Heights(b, hurt))
  <2>1. IsFiniteSet(S)
    <3>1. 1 \in Int /\ 18 \in Int
      OBVIOUS
    <3>2. IsFiniteSet(1 .. 18)
      BY <3>1, FS_Interval, Zenon
    <3> QED BY <1>1, <3>2, FS_Subset
  <2> DEFINE f == [k \in S |-> H(k)]
  <2>2. f \in Surjection(S, Heights(b, hurt))
    BY DEF Surjection, Heights
  <2> QED BY <2>1, <2>2, FS_Surjection
<1>6. ASSUME NEW h \in Heights(b, hurt), NEW d \in 1 .. 16 PROVE h - d \notin Heights(b, hurt)
  <2> SUFFICES ASSUME h - d \in Heights(b, hurt) PROVE FALSE
    OBVIOUS
  <2>1. PICK m \in Nat : h = 20 * m
    BY <1>3
  <2>2. PICK n \in Nat : h - d = 20 * n
    BY <1>3
  <2> QED BY <2>1, <2>2
<1> QED BY <1>1, <1>4, <1>5, <1>6 DEF Tops, Tolerance

\* The rows of the regions seen, given where rows start.
RowsFrom(page, hurt, seen, tops) ==
    LET from == [t \in tops |-> t]
        row == [t \in tops |->
                  Row(page, hurt, {k \in seen : /\ Height(page, hurt, k) >= t
                                                /\ \A u \in tops : u > t => Height(page, hurt, k) < u})]
    IN  [i \in 1 .. Cardinality(tops) |-> row[KthSmallest(from, i)]]

\* The rows are those of the heights, from the top.
LEMMA RowsAre ==
    ASSUME NEW b, NEW hurt
    PROVE  LET rows == Rows(b, hurt)
               n == Cardinality(Heights(b, hurt))
           IN  /\ n \in Nat /\ DOMAIN rows = 1 .. n /\ Len(rows) = n
               /\ \A i \in 1 .. n :
                    \E t \in Heights(b, hurt) : i = Place(b, hurt, t) /\ rows[i] = RowAt(b, hurt, t)
               /\ \A t \in Heights(b, hurt) :
                    Place(b, hurt, t) \in 1 .. n /\ rows[Place(b, hurt, t)] = RowAt(b, hurt, t)
               /\ \A t, u \in Heights(b, hurt) : t < u <=> Place(b, hurt, t) < Place(b, hurt, u)
<1> DEFINE S == Heights(b, hurt)
           seen == SeenOf(b, hurt)
           from == [t \in S |-> t]
           Here(t) == {k \in seen : /\ HeightOf(b, hurt, k) >= t
                                    /\ \A u \in S : u > t => HeightOf(b, hurt, k) < u}
           row == [t \in S |-> Row(Layout(b), hurt, Here(t))]
           n == Cardinality(S)
           rows == [i \in 1 .. n |-> row[KthSmallest(from, i)]]
<1>1. S \in SUBSET Nat /\ S \in SUBSET Int /\ IsFiniteSet(S) /\ Tops(S) = S
  BY TopsAre
<1>2. Rows(b, hurt) = rows
  <2>1. {Height(Layout(b), hurt, k) : k \in Seen(Layout(b), hurt, b.absent)} = S
    BY DEF Heights, HeightOf, SeenOf
  <2>2. Tops({Height(Layout(b), hurt, k) : k \in Seen(Layout(b), hurt, b.absent)}) = S
    BY <2>1, <1>1, Zenon
  <2>3. Rows(b, hurt) = RowsFrom(Layout(b), hurt, Seen(Layout(b), hurt, b.absent),
                                 Tops({Height(Layout(b), hurt, k) : k \in Seen(Layout(b), hurt, b.absent)}))
    BY Zenon DEF Rows, RowsFrom
  <2>4. RowsFrom(Layout(b), hurt, seen, S) = rows
    BY Zenon DEF RowsFrom, HeightOf
  <2> QED BY <2>2, <2>3, <2>4, Zenon DEF SeenOf
<1>3. ASSUME NEW t \in S PROVE Here(t) = InRow(b, hurt, t)
  <2>1. \A k \in seen : HeightOf(b, hurt, k) \in S
    BY DEF Heights
  <2> HIDE DEF S, seen
  <2>2. \A u \in S : u \in Nat
    BY <1>1
  <2>3. ASSUME NEW k \in seen
        PROVE  k \in Here(t) <=> HeightOf(b, hurt, k) = t
    <3> DEFINE h == HeightOf(b, hurt, k)
    <3>1. h \in S /\ h \in Nat /\ t \in Nat
      BY <2>1, <2>2, <2>3
    <3> HIDE DEF h
    <3>2. (h >= t /\ \A u \in S : u > t => h < u) <=> h = t
      BY <3>1, <2>2
    <3> QED BY <3>2, <2>3 DEF h
  <2> QED BY <2>3 DEF InRow, seen
<1>4. \A t \in S : row[t] = RowAt(b, hurt, t)
  <2>1. \A t \in S : row[t] = Row(Layout(b), hurt, Here(t))
    OBVIOUS
  <2> HIDE DEF row, Here, S
  <2> QED BY <2>1, <1>3 DEF RowAt
<1>5. n \in Nat
  BY <1>1, FS_CardinalityType
<1>6. /\ \A i \in 1 .. n : KthSmallest(from, i) \in S /\ Cardinality(Among(S, KthSmallest(from, i))) = i
      /\ \A t \in S : Cardinality(Among(S, t)) \in 1 .. n /\ KthSmallest(from, Cardinality(Among(S, t))) = t
      /\ \A t, u \in S : t < u <=> Cardinality(Among(S, t)) < Cardinality(Among(S, u))
  <2> HIDE DEF S
  <2> QED BY <1>1, KthOfSet
<1> HIDE DEF from, row
<1>7. DOMAIN rows = 1 .. n /\ \A i \in 1 .. n : rows[i] = row[KthSmallest(from, i)]
  OBVIOUS
<1>8. Len(rows) = n
  <2> HIDE DEF n
  <2> QED BY <1>5
<1> HIDE DEF rows, S, n
<1>9. \A i \in 1 .. n :
        \E t \in S : i = Place(b, hurt, t) /\ rows[i] = RowAt(b, hurt, t)
  BY <1>4, <1>6, <1>7 DEF Place, S
<1>10. \A t \in S : Place(b, hurt, t) \in 1 .. n /\ rows[Place(b, hurt, t)] = RowAt(b, hurt, t)
  BY <1>4, <1>6, <1>7 DEF Place, S
<1>11. \A t, u \in S : t < u <=> Place(b, hurt, t) < Place(b, hurt, u)
  BY <1>6 DEF Place, S
<1> QED BY <1>2, <1>5, <1>7, <1>8, <1>9, <1>10, <1>11 DEF S, n

\* The one value among some, or none.
Only(values) == IF values \ {Unread} = {} THEN Unread ELSE CHOOSE v \in values : v # Unread

\* What some regions show together.
Kinds(b, hurt, K) == {Look(b, hurt, k).kind : k \in K}
Texts(b, hurt, K) == {Look(b, hurt, k).text : k \in K}
Words(b, hurt, K) == UNION {Look(b, hurt, k).says : k \in K}
Runs(b, hurt, K) == UNION {Look(b, hurt, k).runs : k \in K}
Numbers(b, hurt, K) == {Look(b, hurt, k).invoice : k \in K}
Days(b, hurt, K) == {Look(b, hurt, k).date : k \in K}

\* What a row is made of.
LEMMA RowIs ==
    ASSUME NEW b, NEW hurt, NEW t
    PROVE  LET row == RowAt(b, hurt, t)
               K == InRow(b, hurt, t)
           IN  /\ row.kinds = Kinds(b, hurt, K) /\ row.texts = Texts(b, hurt, K)
               /\ row.says = Words(b, hurt, K) /\ row.amount = ParseAmount(Runs(b, hurt, K))
               /\ row.invoice = Only(Numbers(b, hurt, K)) /\ row.date = Only(Days(b, hurt, K))
<1> DEFINE K == InRow(b, hurt, t)
           regions == {Look(b, hurt, k) : k \in K}
           plain == {IF k \in DOMAIN hurt THEN Damaged(Layout(b)[k], hurt[k]) ELSE Layout(b)[k] : k \in K}
<1>1. plain = regions
  BY DEF Look
<1>2. RowAt(b, hurt, t) =
         [kinds |-> {r.kind : r \in plain}, texts |-> {r.text : r \in plain},
          says |-> UNION {r.says : r \in plain}, amount |-> ParseAmount(UNION {r.runs : r \in plain}),
          invoice |-> Only({r.invoice : r \in plain}), date |-> Only({r.date : r \in plain}),
          confidence |-> IF K \cap DOMAIN hurt = {} THEN Sure ELSE Faint]
  BY DEF RowAt, Row, Only
<1> HIDE DEF plain
<1>3. LET row == RowAt(b, hurt, t)
      IN  /\ row.kinds = {r.kind : r \in regions} /\ row.texts = {r.text : r \in regions}
          /\ row.says = UNION {r.says : r \in regions} /\ row.amount = ParseAmount(UNION {r.runs : r \in regions})
          /\ row.invoice = Only({r.invoice : r \in regions}) /\ row.date = Only({r.date : r \in regions})
  BY <1>1, <1>2
<1>4. /\ {r.kind : r \in regions} = Kinds(b, hurt, K)
      /\ {r.text : r \in regions} = Texts(b, hurt, K)
      /\ UNION {r.says : r \in regions} = Words(b, hurt, K)
      /\ UNION {r.runs : r \in regions} = Runs(b, hurt, K)
      /\ {r.invoice : r \in regions} = Numbers(b, hurt, K)
      /\ {r.date : r \in regions} = Days(b, hurt, K)
  BY DEF Kinds, Texts, Words, Runs, Numbers, Days
<1> HIDE DEF K, regions
<1>5. LET row == RowAt(b, hurt, t)
      IN  /\ row.kinds = Kinds(b, hurt, K) /\ row.texts = Texts(b, hurt, K)
          /\ row.says = Words(b, hurt, K) /\ row.amount = ParseAmount(Runs(b, hurt, K))
          /\ row.invoice = Only(Numbers(b, hurt, K)) /\ row.date = Only(Days(b, hurt, K))
  BY <1>3, <1>4
<1> QED BY <1>5 DEF K

\* Which regions are seen, and in which row.
LEMMA AtIs ==
    ASSUME NEW b, NEW hurt
    PROVE  /\ \A k : k \in SeenOf(b, hurt) <=>
                        k \in 1 .. 18 /\ k \notin b.absent /\ (k \notin DOMAIN hurt \/ hurt[k] # "lost")
           /\ \A k \in SeenOf(b, hurt) :
                 HeightOf(b, hurt, k) \in Heights(b, hurt) /\ k \in InRow(b, hurt, HeightOf(b, hurt, k))
           /\ \A t \in Heights(b, hurt) : InRow(b, hurt, t) # {} /\ InRow(b, hurt, t) \subseteq SeenOf(b, hurt)
           /\ \A t : \A k \in InRow(b, hurt, t) :
                 /\ k \in SeenOf(b, hurt) /\ k \in 1 .. 18
                 /\ t = 40 * Layout(b)[k].line + (IF k \in DOMAIN hurt /\ hurt[k] = "sunk" THEN 20 ELSE 0)
<1>1. \A k : k \in SeenOf(b, hurt) <=>
                k \in 1 .. 18 /\ k \notin b.absent /\ (k \notin DOMAIN hurt \/ hurt[k] # "lost")
  BY LayoutSize DEF SeenOf, Seen
<1>2. \A k \in SeenOf(b, hurt) :
         HeightOf(b, hurt, k) \in Heights(b, hurt) /\ k \in InRow(b, hurt, HeightOf(b, hurt, k))
  BY DEF Heights, InRow
<1>3. \A t \in Heights(b, hurt) : InRow(b, hurt, t) # {} /\ InRow(b, hurt, t) \subseteq SeenOf(b, hurt)
  BY DEF Heights, InRow
<1>4. \A t : \A k \in InRow(b, hurt, t) : k \in SeenOf(b, hurt) /\ t = HeightOf(b, hurt, k)
  BY DEF InRow
<1>5. \A t : \A k \in InRow(b, hurt, t) :
         /\ k \in SeenOf(b, hurt) /\ k \in 1 .. 18
         /\ t = 40 * Layout(b)[k].line + (IF k \in DOMAIN hurt /\ hurt[k] = "sunk" THEN 20 ELSE 0)
  BY <1>1, <1>4, HeightIs
<1> QED BY <1>1, <1>2, <1>3, <1>5

\* A region in a row was seen, and its line tells the row's height.
LEMMA InRowIs ==
    ASSUME NEW b, NEW hurt, NEW t, NEW k \in InRow(b, hurt, t)
    PROVE  /\ k \in SeenOf(b, hurt) /\ k \in 1 .. 18
           /\ Layout(b)[k].line \in 1 .. 11
           /\ t = 40 * Layout(b)[k].line + (IF k \in DOMAIN hurt /\ hurt[k] = "sunk" THEN 20 ELSE 0)
BY AtIs, HeightIs

-----------------------------------------------------------------------------
(* Finding a value by its label.                                             *)

\* The first of some rows.
LEMMA FirstIs ==
    ASSUME NEW K \in SUBSET (Nat \ {0})
    PROVE  IF K = {} THEN First(K) = 0 ELSE First(K) \in K /\ \A j \in K : First(K) <= j
<1>1. CASE K = {}
  BY <1>1 DEF First
<1>2. CASE K # {}
  <2>1. K \in SUBSET Nat
    OBVIOUS
  <2>2. \E k \in K : \A j \in K : k <= j
    BY <1>2, <2>1, LeastNatural
  <2> QED BY <1>2, <2>2 DEF First
<1> QED BY <1>1, <1>2

\* A value is that of the label's row or one of the three after it.
LEMMA ValueAfterIs ==
    ASSUME NEW holding \in SUBSET (Nat \ {0}), NEW i \in Nat
    PROVE  IF (i .. i + 3) \cap holding = {} THEN ValueAfter(i, holding) = 0
           ELSE /\ ValueAfter(i, holding) \in holding /\ ValueAfter(i, holding) \in i .. i + 3
                /\ \A j \in holding : j >= i => ValueAfter(i, holding) <= j
<1> DEFINE K == (i .. i + 3) \cap holding
<1>1. K \in SUBSET (Nat \ {0}) /\ ValueAfter(i, holding) = First(K)
  BY DEF ValueAfter, Lookahead
<1>2. IF K = {} THEN First(K) = 0 ELSE First(K) \in K /\ \A j \in K : First(K) <= j
  <2> HIDE DEF K
  <2> QED BY <1>1, FirstIs
<1>3. CASE K = {}
  BY <1>1, <1>2, <1>3
<1>4. CASE K # {}
  <2>1. First(K) \in holding /\ First(K) \in i .. i + 3 /\ \A j \in K : First(K) <= j
    BY <1>2, <1>4
  <2>2. ASSUME NEW j \in holding, j >= i PROVE First(K) <= j
    <3>1. CASE j <= i + 3
      <4>1. j \in K
        BY <2>2, <3>1
      <4> HIDE DEF K
      <4> QED BY <4>1, <2>1
    <3>2. CASE ~(j <= i + 3)
      <4>1. j \in Nat /\ First(K) \in Nat /\ First(K) <= i + 3
        BY <2>1
      <4> HIDE DEF K
      <4> QED BY <4>1, <3>2
    <3> QED BY <3>1, <3>2
  <2> QED BY <1>1, <1>4, <2>1, <2>2
<1> QED BY <1>3, <1>4

\* The value is one, and it is found when the first label that leads to one is.
LEMMA LabelledIs ==
    ASSUME NEW holding \in SUBSET (Nat \ {0}), NEW labels \in SUBSET (Nat \ {0})
    PROVE  /\ Labelled(labels, holding) \in holding \union {0}
           /\ \A i \in labels :
                (/\ ValueAfter(i, holding) # 0
                 /\ \A j \in labels : j < i => ValueAfter(j, holding) = 0)
                => Labelled(labels, holding) = ValueAfter(i, holding)
<1> DEFINE K == {i \in labels : ValueAfter(i, holding) # 0}
<1>1. K \in SUBSET (Nat \ {0})
  OBVIOUS
<1>2. IF K = {} THEN First(K) = 0 ELSE First(K) \in K /\ \A j \in K : First(K) <= j
  <2> HIDE DEF K
  <2> QED BY <1>1, FirstIs
<1>3. Labelled(labels, holding) = IF First(K) = 0 THEN 0 ELSE ValueAfter(First(K), holding)
  BY DEF Labelled
<1>4. Labelled(labels, holding) \in holding \union {0}
  <2>1. CASE First(K) = 0
    BY <1>3, <2>1
  <2>2. CASE First(K) # 0
    <3>1. First(K) \in Nat /\ ValueAfter(First(K), holding) # 0
      BY <1>2, <2>2
    <3>2. ValueAfter(First(K), holding) \in holding
      <4> DEFINE i == First(K)
      <4> HIDE DEF i
      <4> QED BY <3>1, ValueAfterIs DEF i
    <3> QED BY <1>3, <2>2, <3>2
  <2> QED BY <2>1, <2>2
<1>5. ASSUME NEW i \in labels, ValueAfter(i, holding) # 0,
             \A j \in labels : j < i => ValueAfter(j, holding) = 0
      PROVE  Labelled(labels, holding) = ValueAfter(i, holding)
  <2>1. i \in K /\ First(K) \in K /\ First(K) <= i
    BY <1>2, <1>5
  <2>2. First(K) \in labels /\ ValueAfter(First(K), holding) # 0 /\ First(K) \in Nat /\ i \in Nat
    BY <2>1
  <2>3. ~(First(K) < i)
    BY <1>5, <2>2
  <2> HIDE DEF K
  <2>4. First(K) = i
    BY <2>1, <2>2, <2>3
  <2>5. i # 0
    OBVIOUS
  <2> QED BY <1>3, <2>4, <2>5
<1> QED BY <1>4, <1>5

\* Of one value and nothing else, a row has the value.
LEMMA OnlyIs ==
    ASSUME NEW v, v # Unread, NEW values \in SUBSET {v, Unread}
    PROVE  Only(values) = IF v \in values THEN v ELSE Unread
<1>1. CASE v \in values
  <2>1. values \ {Unread} # {} /\ \A w \in values : w # Unread => w = v
    BY <1>1
  <2> QED BY <1>1, <2>1 DEF Only
<1>2. CASE v \notin values
  <2>1. values \ {Unread} = {}
    BY <1>2
  <2> QED BY <1>2, <2>1 DEF Only
<1> QED BY <1>1, <1>2

\* What a bill has that is no "unread".
LEMMA BillIs ==
    ASSUME NEW b \in Bills
    PROVE  /\ b.invoice \in Nat \ {0} /\ b.day \in Nat /\ b.subtotal \in Nat /\ b.subtotal >= 100
           /\ b.invoice # Unread /\ b.day # Unread /\ b.absent \in SUBSET (1 .. 18)
<1>1. b.invoice \in Nat \ {0} /\ b.day \in Nat /\ b.subtotal \in Nat \ 0 .. 99 /\ b.absent \in SUBSET (1 .. 18)
  BY DEF Bills
<1>2. Unread \notin Int
  BY ReceiptAssumption
<1>3. b.invoice # Unread /\ b.day # Unread
  BY <1>1, <1>2
<1>4. b.subtotal \in Nat /\ b.subtotal >= 100
  BY <1>1
<1> QED BY <1>1, <1>3, <1>4

-----------------------------------------------------------------------------
(* The date.                                                                 *)

\* A row shows the bill's date or none, and the date line shows it unless hurt.
LEMMA DateOfRow ==
    ASSUME NEW b \in Bills, NEW hurt, NEW t
    PROVE  /\ RowAt(b, hurt, t).date \in {b.day, Unread}
           /\ 6 \in InRow(b, hurt, t) /\ 6 \notin DOMAIN hurt => RowAt(b, hurt, t).date = b.day
<1> DEFINE K == InRow(b, hurt, t)
           dates == Days(b, hurt, K)
<1>1. b.day # Unread
  BY BillIs
<1>2. \A k \in 1 .. 18 : Layout(b)[k].date = IF k = 6 THEN b.day ELSE Unread
  <2> DEFINE page == Layout(b)
  <2>1. /\ page[1].date = Unread /\ page[2].date = Unread /\ page[3].date = Unread /\ page[4].date = Unread
        /\ page[5].date = Unread /\ page[6].date = b.day /\ page[7].date = Unread /\ page[8].date = Unread
        /\ page[9].date = Unread /\ page[10].date = Unread /\ page[11].date = Unread
    BY LayoutValues
  <2>2. /\ page[12].date = Unread /\ page[13].date = Unread /\ page[14].date = Unread
        /\ page[15].date = Unread /\ page[16].date = Unread /\ page[17].date = Unread /\ page[18].date = Unread
    BY LayoutValues
  <2> HIDE DEF page
  <2>3. \A k \in 1 .. 18 : page[k].date = IF k = 6 THEN b.day ELSE Unread
    BY <2>1, <2>2
  <2> QED BY <2>3 DEF page
<1>3. \A k \in K : Look(b, hurt, k).date \in {b.day, Unread}
  <2> TAKE k \in K
  <2>1. k \in 1 .. 18
    BY AtIs
  <2>2. Look(b, hurt, k).date \in {Layout(b)[k].date, Unread}
    BY <2>1, LookIs
  <2> QED BY <2>1, <2>2, <1>2
<1>4. dates \in SUBSET {b.day, Unread}
  BY <1>3 DEF Days
<1>5. RowAt(b, hurt, t).date = Only(dates)
  BY RowIs
<1>6. Only(dates) = IF b.day \in dates THEN b.day ELSE Unread
  <2> HIDE DEF dates
  <2> QED BY <1>1, <1>4, OnlyIs
<1>7. ASSUME 6 \in K, 6 \notin DOMAIN hurt PROVE b.day \in dates
  <2>1. Look(b, hurt, 6).date = Layout(b)[6].date
    BY <1>7 DEF Look
  <2>2. Layout(b)[6].date = b.day
    BY <1>2
  <2> QED BY <1>7, <2>1, <2>2 DEF Days
<1> QED BY <1>5, <1>6, <1>7

\* The row a date is read from has one, and there is such a row if any has.
LEMMA DateRowIs ==
    ASSUME NEW rows, NEW n \in Nat, DOMAIN rows = 1 .. n
    PROVE  /\ DateRow(rows) # 0 => DateRow(rows) \in 1 .. n /\ rows[DateRow(rows)].date # Unread
           /\ DateRow(rows) = 0 => \A i \in 1 .. n : rows[i].date = Unread
<1> DEFINE D == Dates(rows)
           labels == Saying(rows, "date")
<1>1. D \in SUBSET (Nat \ {0}) /\ labels \in SUBSET (Nat \ {0})
  BY DEF Dates, Saying
<1>2. Labelled(labels, D) \in D \union {0}
  <2> HIDE DEF D, labels
  <2> QED BY <1>1, LabelledIs
<1>3. IF D = {} THEN First(D) = 0 ELSE First(D) \in D
  <2> HIDE DEF D
  <2> QED BY <1>1, FirstIs
<1>4. DateRow(rows) = IF Labelled(labels, D) # 0 THEN Labelled(labels, D) ELSE First(D)
  BY DEF DateRow, DateByLabel
<1>5. DateRow(rows) \in D \/ (DateRow(rows) = 0 /\ D = {})
  <2> HIDE DEF D, labels
  <2> QED BY <1>1, <1>2, <1>3, <1>4
<1>6. \A i : i \in D <=> i \in 1 .. n /\ rows[i].date # Unread
  BY DEF Dates
<1>7. 0 \notin D
  BY <1>1
<1> HIDE DEF D
<1> QED BY <1>5, <1>6, <1>7

\* The date is read rightly or not at all, and only its own region's damage costs it.
LEMMA DateIsRead ==
    ASSUME NEW b \in Bills, NEW hurt
    PROVE  LET f == Extract(Rows(b, hurt))
           IN  /\ f.date \in {b.day, Unread}
               /\ 6 \notin DOMAIN hurt \union b.absent => f.date = b.day
<1> DEFINE rows == Rows(b, hurt)
           n == Cardinality(Heights(b, hurt))
           f == Extract(rows)
           d == DateRow(rows)
<1>1. /\ n \in Nat /\ DOMAIN rows = 1 .. n
      /\ \A i \in 1 .. n : \E t \in Heights(b, hurt) : rows[i] = RowAt(b, hurt, t)
      /\ \A t \in Heights(b, hurt) : Place(b, hurt, t) \in 1 .. n /\ rows[Place(b, hurt, t)] = RowAt(b, hurt, t)
  BY RowsAre
<1>2. f.date = IF d = 0 THEN Unread ELSE rows[d].date
  BY DEF Extract
<1> HIDE DEF rows, n, f
<1>3. /\ d # 0 => d \in 1 .. n /\ rows[d].date # Unread
      /\ d = 0 => \A i \in 1 .. n : rows[i].date = Unread
  BY <1>1, DateRowIs
<1> HIDE DEF d
<1>4. \A i \in 1 .. n : rows[i].date \in {b.day, Unread}
  BY <1>1, DateOfRow
<1>5. f.date \in {b.day, Unread} /\ (f.date = Unread => d = 0)
  BY <1>2, <1>3, <1>4
<1>6. ASSUME 6 \notin DOMAIN hurt \union b.absent PROVE f.date = b.day
  <2>1. 6 \in SeenOf(b, hurt)
    BY <1>6, AtIs
  <2> DEFINE t == HeightOf(b, hurt, 6)
  <2>2. t \in Heights(b, hurt) /\ 6 \in InRow(b, hurt, t)
    BY <2>1, AtIs
  <2> HIDE DEF t
  <2>3. RowAt(b, hurt, t).date = b.day
    BY <1>6, <2>2, DateOfRow
  <2>4. Place(b, hurt, t) \in 1 .. n /\ rows[Place(b, hurt, t)].date = b.day
    BY <1>1, <2>2, <2>3
  <2>5. b.day # Unread
    BY BillIs
  <2>6. d # 0
    BY <1>3, <2>4, <2>5
  <2> QED BY <1>5, <2>6
<1> QED BY <1>5, <1>6 DEF f, rows

\* Which regions a line has.
LEMMA OnLine ==
    ASSUME NEW b, NEW k \in 1 .. 18
    PROVE  LET line == Layout(b)[k].line
           IN  /\ line = 1 <=> k = 1
               /\ line = 2 <=> k = 2
               /\ line = 3 <=> k \in {3, 4}
               /\ line = 4 <=> k \in {5, 6}
               /\ line = 8 <=> k \in {12, 13}
               /\ line = 9 <=> k \in {14, 15}
               /\ line = 10 <=> k \in {16, 17}
               /\ line = 11 <=> k = 18
               /\ line >= 8 <=> k >= 12
<1> DEFINE page == Layout(b)
<1>1. /\ page[1].line = 1 /\ page[2].line = 2 /\ page[3].line = 3 /\ page[4].line = 3
      /\ page[5].line = 4 /\ page[6].line = 4
  BY LayoutLines
<1>2. /\ page[7].line = 5 /\ page[8].line = 5 /\ page[9].line = 6 /\ page[10].line = 7 /\ page[11].line = 7
      /\ page[12].line = 8
  BY LayoutLines
<1>3. /\ page[13].line = 8 /\ page[14].line = 9 /\ page[15].line = 9 /\ page[16].line = 10
      /\ page[17].line = 10 /\ page[18].line = 11
  BY LayoutLines
<1> HIDE DEF page
<1>4. CASE k \in 1 .. 6
  BY <1>1, <1>4 DEF page
<1>5. CASE k \in 7 .. 12
  BY <1>2, <1>5 DEF page
<1>6. CASE k \in 13 .. 18
  BY <1>3, <1>6 DEF page
<1> QED BY <1>4, <1>5, <1>6

\* The number of a list is no more than the list is long.
LEMMA FiveAtMost ==
    ASSUME NEW a, NEW b, NEW c, NEW d, NEW e
    PROVE  IsFiniteSet({a, b, c, d, e}) /\ Cardinality({a, b, c, d, e}) <= 5
<1> DEFINE f == [i \in 1 .. 5 |-> IF i = 1 THEN a ELSE IF i = 2 THEN b ELSE IF i = 3 THEN c
                                    ELSE IF i = 4 THEN d ELSE e]
<1>1. 1 \in Int /\ 5 \in Int
  OBVIOUS
<1>2. IsFiniteSet(1 .. 5) /\ Cardinality(1 .. 5) = IF 1 > 5 THEN 0 ELSE 5 - 1 + 1
  BY <1>1, FS_Interval, Zenon
<1>3. Cardinality(1 .. 5) = 5
  BY <1>2
<1>4. f \in [1 .. 5 -> {a, b, c, d, e}]
  OBVIOUS
<1>5. f[1] = a /\ f[2] = b /\ f[3] = c /\ f[4] = d /\ f[5] = e
  OBVIOUS
<1> HIDE DEF f
<1>6. \A x \in {a, b, c, d, e} : \E i \in 1 .. 5 : f[i] = x
  BY <1>5
<1>7. f \in Surjection(1 .. 5, {a, b, c, d, e})
  BY <1>4, <1>6 DEF Surjection
<1>8. IsFiniteSet({a, b, c, d, e}) /\ Cardinality({a, b, c, d, e}) <= Cardinality(1 .. 5)
  BY <1>2, <1>7, FS_Surjection
<1> QED BY <1>3, <1>8

\* The rows of the bill's first four lines are among the first five.
LEMMA HeadIsAmongFive ==
    ASSUME NEW b, NEW hurt, NEW t \in Heights(b, hurt), t <= 160
    PROVE  Place(b, hurt, t) <= 5
<1> DEFINE S == Heights(b, hurt)  H(k) == HeightOf(b, hurt, k)
<1>1. S \in SUBSET Nat /\ SeenOf(b, hurt) \subseteq 1 .. 18
  BY TopsAre
<1>2. ASSUME NEW h \in S, h <= t PROVE h \in {H(1), H(2), 120, 140, 160}
  <2>1. PICK k \in SeenOf(b, hurt) : h = H(k)
    BY DEF Heights
  <2> DEFINE line == Layout(b)[k].line
  <2>2. k \in 1 .. 18
    BY <1>1, <2>1
  <2>3. line \in 1 .. 11 /\ (h = 40 * line \/ h = 40 * line + 20)
    BY <2>1, <2>2, HeightIs
  <2>4. /\ line = 1 => k = 1
        /\ line = 2 => k = 2
    BY <2>2, OnLine
  <2> HIDE DEF line
  <2>5. t \in Nat /\ h \in Nat
    BY <1>1
  <2>6. line \in {1, 2, 3, 4} /\ (line = 4 => h = 160)
    BY <1>2, <2>3, <2>5
  <2>7. CASE line \in {1, 2}
    BY <2>1, <2>4, <2>7
  <2>8. CASE line = 3
    <3>1. h = 120 \/ h = 140
      BY <2>3, <2>8
    <3> QED BY <3>1
  <2>9. CASE line = 4
    BY <2>6, <2>9
  <2> QED BY <2>6, <2>7, <2>8, <2>9
<1> DEFINE five == {H(1), H(2), 120, 140, 160}
<1>3. Among(S, t) \in SUBSET five
  BY <1>2 DEF Among
<1>4. IsFiniteSet(five) /\ Cardinality(five) <= 5
  BY FiveAtMost, ZenonT(60)
<1> HIDE DEF five
<1>5. /\ Cardinality(Among(S, t)) \in Nat /\ Cardinality(Among(S, t)) <= Cardinality(five)
      /\ Cardinality(five) \in Nat
  BY <1>3, <1>4, Counted, FS_CardinalityType
<1> QED BY <1>4, <1>5 DEF Place

-----------------------------------------------------------------------------
(* The vendor.                                                               *)

\* The row the vendor is read from is the first, of five, that could be a name.
LEMMA VendorRowIs ==
    ASSUME NEW rows, NEW n \in Nat, DOMAIN rows = 1 .. n
    PROVE  LET v == VendorRow(rows)
               could(i) == i \in 1 .. n /\ i <= 5 /\ Substantial(rows[i])
           IN  /\ v # 0 => could(v)
               /\ \A i : could(i) => v # 0 /\ v <= i
<1> DEFINE K == {i \in 1 .. n : i <= 5 /\ Substantial(rows[i])}
<1>1. K \in SUBSET (Nat \ {0}) /\ VendorRow(rows) = First(K)
  BY DEF VendorRow
<1>2. IF K = {} THEN First(K) = 0 ELSE First(K) \in K /\ \A j \in K : First(K) <= j
  <2> HIDE DEF K
  <2> QED BY <1>1, FirstIs
<1>3. 0 \notin K
  OBVIOUS
<1>4. \A i : i \in K <=> (i \in 1 .. n /\ i <= 5 /\ Substantial(rows[i]))
  OBVIOUS
<1> HIDE DEF K
<1> QED BY <1>1, <1>2, <1>3, <1>4

\* A row in the head that shows words, or a label and a figure, could be a name.
LEMMA CouldBeName ==
    ASSUME NEW b, NEW hurt, NEW t \in Heights(b, hurt), t <= 160,
           \/ \E k \in InRow(b, hurt, t) : Look(b, hurt, k).kind = "words"
           \/ \E k, l \in InRow(b, hurt, t) : Look(b, hurt, k).kind # Look(b, hurt, l).kind
    PROVE  LET rows == Rows(b, hurt)  i == Place(b, hurt, t)
           IN  i \in DOMAIN rows /\ i <= 5 /\ Substantial(rows[i])
<1> DEFINE rows == Rows(b, hurt)  i == Place(b, hurt, t)  K == InRow(b, hurt, t)
<1>1. i \in DOMAIN rows /\ rows[i] = RowAt(b, hurt, t)
  BY RowsAre
<1>2. i <= 5
  BY HeadIsAmongFive
<1>3. rows[i].kinds = Kinds(b, hurt, K)
  BY <1>1, RowIs
<1> HIDE DEF rows, i, K
<1>4. CASE \E k \in K : Look(b, hurt, k).kind = "words"
  <2>1. "words" \in Kinds(b, hurt, K)
    BY <1>4 DEF Kinds
  <2>2. Kinds(b, hurt, K) # {"label"} /\ Kinds(b, hurt, K) # {"figure"}
    BY <2>1
  <2> QED BY <1>1, <1>2, <1>3, <2>2 DEF Substantial, rows, i
<1>5. CASE \E k, l \in K : Look(b, hurt, k).kind # Look(b, hurt, l).kind
  <2>1. \E x, y \in Kinds(b, hurt, K) : x # y
    BY <1>5 DEF Kinds
  <2>2. Kinds(b, hurt, K) # {"label"} /\ Kinds(b, hurt, K) # {"figure"}
    BY <2>1
  <2> QED BY <1>1, <1>2, <1>3, <2>2 DEF Substantial, rows, i
<1> QED BY <1>4, <1>5 DEF K

\* Some region of the head that is seen is enough for a name.
LEMMA HeadGivesName ==
    ASSUME NEW b, NEW hurt,
           \/ 1 \in SeenOf(b, hurt)
           \/ 4 \in SeenOf(b, hurt)
           \/ {5, 6} \cap (DOMAIN hurt \union b.absent) = {}
    PROVE  VendorRow(Rows(b, hurt)) # 0
<1> DEFINE rows == Rows(b, hurt)  n == Cardinality(Heights(b, hurt))
           H(k) == HeightOf(b, hurt, k)
           Sunk(k) == k \in DOMAIN hurt /\ hurt[k] = "sunk"
<1>1. n \in Nat /\ DOMAIN rows = 1 .. n
  BY RowsAre
<1>2. ASSUME NEW t \in Heights(b, hurt), t <= 160,
             \/ \E k \in InRow(b, hurt, t) : Look(b, hurt, k).kind = "words"
             \/ \E k, l \in InRow(b, hurt, t) : Look(b, hurt, k).kind # Look(b, hurt, l).kind
      PROVE  VendorRow(rows) # 0
  <2> DEFINE i == Place(b, hurt, t)
  <2>1. i \in DOMAIN rows /\ i <= 5 /\ Substantial(rows[i])
    BY <1>2, CouldBeName
  <2> HIDE DEF rows, i, n
  <2> QED BY <1>1, <2>1, VendorRowIs
<1> HIDE DEF rows, n
<1>3. ASSUME NEW k \in {1, 4, 5, 6}
      PROVE  /\ k \in {1, 4} => H(k) <= 160
             /\ k \in {5, 6} /\ k \notin DOMAIN hurt => H(k) = 160
  <2>1. /\ Layout(b)[1].line = 1 /\ Layout(b)[4].line = 3 /\ Layout(b)[5].line = 4 /\ Layout(b)[6].line = 4
    BY LayoutLines
  <2>2. H(k) = 40 * Layout(b)[k].line + (IF Sunk(k) THEN 20 ELSE 0)
    BY HeightIs
  <2> HIDE DEF H
  <2>3. CASE k = 1
    BY <2>1, <2>2, <2>3
  <2>4. CASE k = 4
    BY <2>1, <2>2, <2>4
  <2>5. CASE k \in {5, 6}
    BY <2>1, <2>2, <2>5
  <2> QED BY <2>3, <2>4, <2>5
<1>4. ASSUME NEW k \in {1, 4}, k \in SeenOf(b, hurt)
      PROVE  VendorRow(rows) # 0
  <2>1. H(k) \in Heights(b, hurt) /\ k \in InRow(b, hurt, H(k))
    BY <1>4, AtIs
  <2>2. H(k) <= 160
    BY <1>3
  <2>3. Look(b, hurt, k).kind = "words"
    <3>1. Layout(b)[1].kind = "words" /\ Layout(b)[4].kind = "words"
      BY LayoutKinds
    <3>2. Look(b, hurt, k).kind \in {Layout(b)[k].kind, "words"}
      BY LookIs
    <3> QED BY <3>1, <3>2
  <2> HIDE DEF H
  <2> QED BY <1>2, <2>1, <2>2, <2>3
<1>5. ASSUME {5, 6} \cap (DOMAIN hurt \union b.absent) = {}
      PROVE  VendorRow(rows) # 0
  <2>1. 5 \in SeenOf(b, hurt) /\ 6 \in SeenOf(b, hurt)
    BY <1>5, AtIs
  <2>2. H(5) = 160 /\ H(6) = 160
    BY <1>3, <1>5
  <2>3. 160 \in Heights(b, hurt) /\ 5 \in InRow(b, hurt, 160) /\ 6 \in InRow(b, hurt, 160)
    BY <2>1, <2>2, AtIs
  <2>4. Look(b, hurt, 5).kind # Look(b, hurt, 6).kind
    <3>1. Layout(b)[5].kind = "label" /\ Layout(b)[6].kind = "figure"
      BY LayoutKinds
    <3> QED BY <3>1, <1>5 DEF Look
  <2>5. 160 <= 160
    OBVIOUS
  <2> QED BY <1>2, <2>3, <2>4, <2>5
<1> QED BY <1>4, <1>5 DEF rows

\* A record names somebody; the vendor, when its line is unhurt.
LEMMA VendorIsRead ==
    ASSUME NEW b \in Bills, NEW hurt
    PROVE  LET f == Extract(Rows(b, hurt))
           IN  /\ f.vendor = {} =>
                    /\ 1 \notin SeenOf(b, hurt) /\ 4 \notin SeenOf(b, hurt)
                    /\ {5, 6} \cap (DOMAIN hurt \union b.absent) # {}
               /\ 1 \notin DOMAIN hurt \union b.absent => f.vendor = {b.vendor}
<1> DEFINE rows == Rows(b, hurt)
           n == Cardinality(Heights(b, hurt))
           f == Extract(rows)
           v == VendorRow(rows)
<1>1. /\ n \in Nat /\ DOMAIN rows = 1 .. n
      /\ \A i \in 1 .. n : \E t \in Heights(b, hurt) : i = Place(b, hurt, t) /\ rows[i] = RowAt(b, hurt, t)
      /\ \A t \in Heights(b, hurt) : Place(b, hurt, t) \in 1 .. n /\ rows[Place(b, hurt, t)] = RowAt(b, hurt, t)
      /\ \A t, u \in Heights(b, hurt) : t < u <=> Place(b, hurt, t) < Place(b, hurt, u)
  BY RowsAre
<1>2. f.vendor = IF v = 0 THEN {} ELSE rows[v].texts
  BY DEF Extract
<1>3. v = 0 => /\ 1 \notin SeenOf(b, hurt) /\ 4 \notin SeenOf(b, hurt)
               /\ {5, 6} \cap (DOMAIN hurt \union b.absent) # {}
  BY HeadGivesName
<1>4. /\ v # 0 => v \in 1 .. n /\ Substantial(rows[v])
      /\ \A i \in 1 .. n : i <= 5 /\ Substantial(rows[i]) => v # 0 /\ v <= i
  <2> HIDE DEF rows, n
  <2> QED BY <1>1, VendorRowIs
<1> HIDE DEF rows, n, f, v
<1>5. v # 0 => f.vendor # {}
  <2> SUFFICES ASSUME v # 0 PROVE rows[v].texts # {}
    BY <1>2
  <2>1. PICK t \in Heights(b, hurt) : rows[v] = RowAt(b, hurt, t)
    BY <1>1, <1>4
  <2>2. InRow(b, hurt, t) # {}
    BY AtIs
  <2>3. rows[v].texts = Texts(b, hurt, InRow(b, hurt, t))
    BY <2>1, RowIs
  <2> QED BY <2>2, <2>3 DEF Texts
<1>6. ASSUME 1 \notin DOMAIN hurt \union b.absent PROVE f.vendor = {b.vendor}
  <2>1. 1 \in SeenOf(b, hurt)
    BY <1>6, AtIs
  <2>2. HeightOf(b, hurt, 1) = 40
    <3>1. Layout(b)[1].line = 1
      BY LayoutLines
    <3>2. HeightOf(b, hurt, 1) = 40 * Layout(b)[1].line + 0
      BY <1>6, HeightIs
    <3> QED BY <3>1, <3>2
  <2>3. 40 \in Heights(b, hurt) /\ 1 \in InRow(b, hurt, 40)
    BY <2>1, <2>2, AtIs
  <2>4. \A k \in InRow(b, hurt, 40) : k = 1
    <3> TAKE k \in InRow(b, hurt, 40)
    <3>1. k \in 1 .. 18 /\ 40 = 40 * Layout(b)[k].line + (IF k \in DOMAIN hurt /\ hurt[k] = "sunk" THEN 20 ELSE 0)
      BY InRowIs
    <3>2. Layout(b)[k].line \in 1 .. 11 /\ (Layout(b)[k].line = 1 <=> k = 1)
      BY <3>1, HeightIs, OnLine
    <3> QED BY <3>1, <3>2
  <2>5. Place(b, hurt, 40) = 1
    <3>1. 1 \in 1 .. n /\ Place(b, hurt, 40) \in 1 .. n
      BY <1>1, <2>3
    <3>2. PICK u \in Heights(b, hurt) : 1 = Place(b, hurt, u)
      BY <1>1, <3>1
    <3>3. u \in Nat /\ u >= 40
      <4>1. PICK k \in SeenOf(b, hurt) : u = HeightOf(b, hurt, k)
        BY DEF Heights
      <4>2. k \in 1 .. 18
        BY AtIs
      <4>3. /\ Layout(b)[k].line \in 1 .. 11
            /\ u = 40 * Layout(b)[k].line + (IF k \in DOMAIN hurt /\ hurt[k] = "sunk" THEN 20 ELSE 0)
        BY <4>1, <4>2, HeightIs
      <4> QED BY <4>3
    <3>4. ~(40 < u)
      <4> SUFFICES ASSUME 40 < u PROVE FALSE
        OBVIOUS
      <4>1. Place(b, hurt, 40) < 1
        BY <1>1, <2>3, <3>2
      <4> QED BY <4>1, <3>1
    <3>5. u = 40
      BY <3>3, <3>4
    <3> QED BY <3>2, <3>5
  <2>6. InRow(b, hurt, 40) = {1}
    BY <2>3, <2>4
  <2>7. Look(b, hurt, 1) = Layout(b)[1]
    BY <1>6 DEF Look
  <2>8. Look(b, hurt, 1).text = b.vendor /\ Look(b, hurt, 1).kind = "words"
    BY <2>7, LayoutValues, LayoutKinds
  <2>9. rows[1].texts = {b.vendor} /\ rows[1].kinds = {"words"} /\ 1 \in 1 .. n
    <3>1. rows[1] = RowAt(b, hurt, 40) /\ 1 \in 1 .. n
      BY <1>1, <2>3, <2>5
    <3>2. rows[1].texts = Texts(b, hurt, {1}) /\ rows[1].kinds = Kinds(b, hurt, {1})
      BY <3>1, <2>6, RowIs
    <3> QED BY <3>1, <3>2, <2>8 DEF Texts, Kinds
  <2>10. Substantial(rows[1])
    BY <2>9 DEF Substantial
  <2>11. v = 1
    <3>1. v # 0 /\ v <= 1
      BY <1>4, <2>9, <2>10
    <3>2. v \in 1 .. n
      BY <1>4, <3>1
    <3> QED BY <1>1, <3>1, <3>2
  <2> QED BY <1>2, <2>9, <2>11
<1> QED BY <1>2, <1>3, <1>5, <1>6 DEF f, rows

-----------------------------------------------------------------------------
(* Functions on the naturals defined by what they are below a number.        *)

\* The steps that look no further than below the number.
Steps(V) ==
    {step \in [Nat \X [Nat -> V] -> V] :
        \A n \in Nat : \A g, h \in [Nat -> V] :
            (\A m \in 0 .. n - 1 : g[m] = h[m]) => step[<<n, g>>] = step[<<n, h>>]}

Follows(step, g, n) == \A m \in 0 .. n - 1 : g[m] = step[<<m, g>>]

\* One more value can always be added.
LEMMA OneMore ==
    ASSUME NEW V, NEW step \in Steps(V), NEW n \in Nat, NEW g \in [Nat -> V], Follows(step, g, n)
    PROVE  \E h \in [Nat -> V] : Follows(step, h, n + 1)
<1> DEFINE h == [g EXCEPT ![n] = step[<<n, g>>]]
<1>1. h \in [Nat -> V]
  BY DEF Steps
<1>2. \A m \in 0 .. n - 1 : h[m] = g[m]
  OBVIOUS
<1>3. h[n] = step[<<n, g>>]
  OBVIOUS
<1> HIDE DEF h
<1>4. ASSUME NEW m \in 0 .. n PROVE h[m] = step[<<m, h>>]
  <2>1. m \in Nat /\ \A l \in 0 .. m - 1 : g[l] = h[l]
    BY <1>2
  <2>2. step[<<m, g>>] = step[<<m, h>>]
    BY <1>1, <2>1 DEF Steps
  <2>3. CASE m = n
    BY <1>3, <2>2, <2>3
  <2>4. CASE m # n
    <3>1. m \in 0 .. n - 1
      BY <2>4
    <3> QED BY <1>2, <2>2, <3>1 DEF Follows
  <2> QED BY <2>3, <2>4
<1>5. (n + 1) - 1 = n
  OBVIOUS
<1> QED BY <1>1, <1>4, <1>5 DEF Follows

\* So there is one for every number.
LEMMA Enough ==
    ASSUME NEW V, V # {}, NEW step \in Steps(V), NEW n \in Nat
    PROVE  \E g \in [Nat -> V] : Follows(step, g, n)
<1> DEFINE Missed == {k \in Nat : ~ \E g \in [Nat -> V] : Follows(step, g, k)}
<1> SUFFICES ASSUME Missed # {} PROVE FALSE
  OBVIOUS
<1>1. PICK k \in Missed : \A m \in Missed : k <= m
  <2>1. Missed \in SUBSET Nat
    OBVIOUS
  <2> HIDE DEF Missed
  <2> QED BY <2>1, LeastNatural
<1>2. CASE k = 0
  <2>1. PICK v \in V : TRUE
    OBVIOUS
  <2>2. [i \in Nat |-> v] \in [Nat -> V]
    OBVIOUS
  <2>3. \A g : Follows(step, g, 0)
    <3>1. 0 .. 0 - 1 = {}
      OBVIOUS
    <3> QED BY <3>1, Zenon DEF Follows
  <2> QED BY <1>2, <2>2, <2>3
<1>3. CASE k # 0
  <2>1. k - 1 \in Nat /\ k - 1 \notin Missed /\ (k - 1) + 1 = k
    <3>1. k \in Nat
      OBVIOUS
    <3> HIDE DEF Missed
    <3> QED BY <3>1, <1>1, <1>3
  <2>2. PICK g \in [Nat -> V] : Follows(step, g, k - 1)
    BY <2>1
  <2>3. \E h \in [Nat -> V] : Follows(step, h, (k - 1) + 1)
    BY <2>1, <2>2, OneMore
  <2> QED BY <2>1, <2>3
<1> QED BY <1>2, <1>3

\* And they agree.
LEMMA Agreeing ==
    ASSUME NEW V, NEW step \in Steps(V), NEW n \in Nat, NEW g \in [Nat -> V], NEW h \in [Nat -> V],
           Follows(step, g, n), Follows(step, h, n)
    PROVE  \A m \in 0 .. n - 1 : g[m] = h[m]
<1> DEFINE Differ == {m \in 0 .. n - 1 : g[m] # h[m]}
<1> SUFFICES ASSUME Differ # {} PROVE FALSE
  OBVIOUS
<1>1. PICK k \in Differ : \A m \in Differ : k <= m
  <2>1. Differ \in SUBSET Nat
    OBVIOUS
  <2> HIDE DEF Differ
  <2> QED BY <2>1, LeastNatural
<1>2. k \in Nat /\ k \in 0 .. n - 1 /\ g[k] # h[k]
  OBVIOUS
<1>3. \A m \in 0 .. k - 1 : g[m] = h[m]
  <2> TAKE m \in 0 .. k - 1
  <2>1. m \in 0 .. n - 1 /\ ~(k <= m)
    BY <1>2
  <2> QED BY <1>1, <2>1
<1>4. step[<<k, g>>] = step[<<k, h>>]
  BY <1>2, <1>3 DEF Steps
<1> QED BY <1>2, <1>4 DEF Follows

\* There is a function all of whose values follow.
LEMMA Recursion ==
    ASSUME NEW V, V # {}, NEW step \in Steps(V)
    PROVE  \E f \in [Nat -> V] : \A n \in Nat : f[n] = step[<<n, f>>]
<1> DEFINE F(n) == CHOOSE g \in [Nat -> V] : Follows(step, g, n + 1)
           f == [n \in Nat |-> F(n)[n]]
<1>1. ASSUME NEW n \in Nat PROVE F(n) \in [Nat -> V] /\ Follows(step, F(n), n + 1)
  <2>1. n + 1 \in Nat
    OBVIOUS
  <2>2. \E g \in [Nat -> V] : Follows(step, g, n + 1)
    BY <2>1, Enough
  <2> QED BY <2>2
<1> HIDE DEF F
<1>2. f \in [Nat -> V]
  BY <1>1
<1>3. \A n \in Nat : f[n] = F(n)[n]
  OBVIOUS
<1> HIDE DEF f
<1>4. ASSUME NEW n \in Nat PROVE f[n] = step[<<n, f>>]
  <2>1. ASSUME NEW m \in 0 .. n - 1 PROVE f[m] = F(n)[m]
    <3>1. m \in Nat /\ m + 1 \in Nat /\ m + 1 <= n + 1
      OBVIOUS
    <3>2. Follows(step, F(n), m + 1)
      <4>1. \A l \in 0 .. (m + 1) - 1 : l \in 0 .. (n + 1) - 1
        BY <3>1
      <4> QED BY <1>1, <4>1 DEF Follows
    <3>3. Follows(step, F(m), m + 1) /\ F(m) \in [Nat -> V] /\ F(n) \in [Nat -> V]
      BY <1>1, <3>1
    <3>4. \A l \in 0 .. (m + 1) - 1 : F(m)[l] = F(n)[l]
      BY <3>1, <3>2, <3>3, Agreeing
    <3>5. m \in 0 .. (m + 1) - 1
      BY <3>1
    <3> QED BY <1>3, <3>1, <3>4, <3>5
  <2>2. F(n) \in [Nat -> V] /\ Follows(step, F(n), n + 1)
    BY <1>1
  <2>3. step[<<n, f>>] = step[<<n, F(n)>>]
    BY <1>2, <2>1, <2>2 DEF Steps
  <2>4. n \in 0 .. (n + 1) - 1
    OBVIOUS
  <2>5. F(n)[n] = step[<<n, F(n)>>]
    BY <2>2, <2>4 DEF Follows
  <2> QED BY <1>3, <2>3, <2>5
<1> QED BY <1>2, <1>4

-----------------------------------------------------------------------------
(* Figures: digit groups one after another.                                  *)

\* The marks before a group: none, a comma, a blank, a point.
Bare == ""
Comma == ","
Blank == " "
Marks == {Bare, Comma, Blank, "."}

\* Only the point is one.
LEMMA MarksAre == Bare # "." /\ Comma # "." /\ Blank # "."
BY Zenon DEF Bare, Comma, Blank

Groups == [n : Nat, v : Nat, sep : Marks]

\* The powers of ten.
LEMMA TenToIs ==
    /\ TenTo[0] = 1 /\ TenTo[2] = 100 /\ TenTo[3] = 1000
    /\ \A n \in Nat : TenTo[n] \in Nat
<1> DEFINE Given(f, n) == IF n = 0 THEN 1 ELSE 10 * f[n - 1]
           step == [p \in Nat \X [Nat -> Nat] |-> Given(p[2], p[1])]
<1>1. \A n \in Nat : \A g \in [Nat -> Nat] : step[<<n, g>>] = Given(g, n)
  OBVIOUS
<1>2. \A n \in Nat : \A g \in [Nat -> Nat] : Given(g, n) \in Nat
  <2> TAKE n \in Nat
  <2> TAKE g \in [Nat -> Nat]
  <2>1. CASE n = 0
    BY <2>1
  <2>2. CASE n # 0
    <3>1. n - 1 \in Nat
      BY <2>2
    <3>2. g[n - 1] \in Nat
      BY <3>1
    <3> QED BY <2>2, <3>2
  <2> QED BY <2>1, <2>2
<1>3. step \in [Nat \X [Nat -> Nat] -> Nat]
  BY <1>2
<1> HIDE DEF step
<1>4. step \in Steps(Nat)
  <2>1. ASSUME NEW n \in Nat, NEW g \in [Nat -> Nat], NEW h \in [Nat -> Nat], \A m \in 0 .. n - 1 : g[m] = h[m]
        PROVE  Given(g, n) = Given(h, n)
    <3>1. CASE n = 0
      BY <3>1
    <3>2. CASE n # 0
      <4>1. n - 1 \in 0 .. n - 1
        BY <3>2
      <4> QED BY <2>1, <3>2, <4>1
    <3> QED BY <3>1, <3>2
  <2> HIDE DEF Given
  <2>2. \A n \in Nat : \A g, h \in [Nat -> Nat] :
          (\A m \in 0 .. n - 1 : g[m] = h[m]) => step[<<n, g>>] = step[<<n, h>>]
    BY <1>1, <2>1, SMTT(30)
  <2> QED BY <1>3, <2>2 DEF Steps
<1>5. PICK f \in [Nat -> Nat] : \A n \in Nat : f[n] = step[<<n, f>>]
  <2>1. Nat # {}
    OBVIOUS
  <2> QED BY <1>4, <2>1, Recursion
<1>6. f = [n \in Nat |-> IF n = 0 THEN 1 ELSE 10 * f[n - 1]]
  BY <1>1, <1>5
<1>7. TenTo = [n \in Nat |-> IF n = 0 THEN 1 ELSE 10 * TenTo[n - 1]]
  BY <1>6 DEF TenTo
<1> HIDE DEF Given
<1>8. TenTo[0] = 1
  BY <1>7
<1>9. TenTo[1] = 10 * TenTo[0] /\ TenTo[2] = 10 * TenTo[1] /\ TenTo[3] = 10 * TenTo[2]
  BY <1>7
<1>10. \A n \in Nat : TenTo[n] \in Nat
  <2> DEFINE Missed == {n \in Nat : TenTo[n] \notin Nat}
  <2> SUFFICES ASSUME Missed # {} PROVE FALSE
    OBVIOUS
  <2>1. PICK k \in Missed : \A m \in Missed : k <= m
    <3>1. Missed \in SUBSET Nat
      OBVIOUS
    <3> HIDE DEF Missed
    <3> QED BY <3>1, LeastNatural
  <2>2. k \in Nat /\ TenTo[k] \notin Nat
    OBVIOUS
  <2>3. k # 0
    BY <1>8, <2>2
  <2>4. k - 1 \in Nat /\ k - 1 \notin Missed
    <3> HIDE DEF Missed
    <3> QED BY <2>1, <2>2, <2>3
  <2>5. TenTo[k - 1] \in Nat /\ TenTo[k] = 10 * TenTo[k - 1]
    BY <1>7, <2>2, <2>3, <2>4
  <2> QED BY <2>2, <2>5
<1> QED BY <1>8, <1>9, <1>10

\* The numbers a figure's first groups make.
Upto(figure) ==
    CHOOSE f : f = [k \in 0 .. Len(figure) |->
                      IF k = 0 THEN 0 ELSE f[k - 1] * TenTo[figure[k].n] + figure[k].v]

\* There are such numbers.
LEMMA UptoIs ==
    ASSUME NEW figure \in Seq(Groups)
    PROVE  /\ Concat(figure) = Upto(figure)[Len(figure)]
           /\ Upto(figure)[0] = 0
           /\ \A k \in 1 .. Len(figure) :
                Upto(figure)[k] = Upto(figure)[k - 1] * TenTo[figure[k].n] + figure[k].v
           /\ \A k \in 0 .. Len(figure) : Upto(figure)[k] \in Nat
<1> DEFINE n == Len(figure)
           Given(f, k) == IF k = 0 \/ k > n THEN 0 ELSE f[k - 1] * TenTo[figure[k].n] + figure[k].v
           step == [p \in Nat \X [Nat -> Nat] |-> Given(p[2], p[1])]
<1>a. \A x, y, z \in Nat : x * y + z \in Nat
  OBVIOUS
<1>b. n \in Nat
  OBVIOUS
<1>0. n \in Nat /\ \A k \in 1 .. n : figure[k].n \in Nat /\ figure[k].v \in Nat /\ TenTo[figure[k].n] \in Nat
  <2>1. n \in Nat /\ \A k \in 1 .. n : figure[k] \in Groups
    OBVIOUS
  <2>2. \A k \in 1 .. n : figure[k].n \in Nat /\ figure[k].v \in Nat
    BY <2>1 DEF Groups
  <2> QED BY <2>1, <2>2, TenToIs
<1> HIDE DEF n
<1>1. \A k \in Nat : \A g \in [Nat -> Nat] : step[<<k, g>>] = Given(g, k)
  OBVIOUS
<1>2. ASSUME NEW k \in Nat, NEW g \in [Nat -> Nat] PROVE Given(g, k) \in Nat
  <2>1. CASE k = 0 \/ k > n
    BY <2>1
  <2>2. CASE ~(k = 0 \/ k > n)
    <3>1. k - 1 \in Nat /\ k \in 1 .. n
      BY <1>b, <2>2
    <3>2. g[k - 1] \in Nat /\ TenTo[figure[k].n] \in Nat /\ figure[k].v \in Nat
      BY <1>0, <3>1
    <3>3. g[k - 1] * TenTo[figure[k].n] + figure[k].v \in Nat
      BY <1>a, <3>2
    <3> QED BY <2>2, <3>3
  <2> QED BY <2>1, <2>2
<1>3. step \in [Nat \X [Nat -> Nat] -> Nat]
  BY <1>2
<1> HIDE DEF step
<1>4. step \in Steps(Nat)
  <2>1. ASSUME NEW k \in Nat, NEW g \in [Nat -> Nat], NEW h \in [Nat -> Nat], \A m \in 0 .. k - 1 : g[m] = h[m]
        PROVE  Given(g, k) = Given(h, k)
    <3>1. CASE k = 0
      BY <3>1
    <3>2. CASE k # 0
      <4>1. k - 1 \in 0 .. k - 1
        BY <3>2
      <4>2. g[k - 1] = h[k - 1]
        BY <2>1, <4>1
      <4> QED BY <4>2
    <3> QED BY <3>1, <3>2
  <2> HIDE DEF Given
  <2>2. \A k \in Nat : \A g, h \in [Nat -> Nat] :
          (\A m \in 0 .. k - 1 : g[m] = h[m]) => step[<<k, g>>] = step[<<k, h>>]
    <3> TAKE k \in Nat
    <3> TAKE g, h \in [Nat -> Nat]
    <3> HAVE \A m \in 0 .. k - 1 : g[m] = h[m]
    <3>1. Given(g, k) = Given(h, k)
      BY <2>1
    <3>2. step[<<k, g>>] = Given(g, k) /\ step[<<k, h>>] = Given(h, k)
      BY <1>1
    <3> QED BY <3>1, <3>2
  <2> QED BY <1>3, <2>2 DEF Steps
<1>5. PICK f \in [Nat -> Nat] : \A k \in Nat : f[k] = step[<<k, f>>]
  <2>1. Nat # {}
    OBVIOUS
  <2> QED BY <1>4, <2>1, Recursion
<1> DEFINE u == [k \in 0 .. n |-> f[k]]
<1>6. u = [k \in 0 .. n |-> IF k = 0 THEN 0 ELSE u[k - 1] * TenTo[figure[k].n] + figure[k].v]
  <2>1. ASSUME NEW k \in 0 .. n
        PROVE  u[k] = IF k = 0 THEN 0 ELSE u[k - 1] * TenTo[figure[k].n] + figure[k].v
    <3>1. u[k] = f[k] /\ k \in Nat /\ ~(k > n)
      BY <1>0
    <3>2. f[k] = Given(f, k)
      BY <1>1, <1>5, <3>1
    <3>3. k # 0 => k - 1 \in 0 .. n
      BY <1>b, <3>1
    <3>4. k # 0 => u[k - 1] = f[k - 1]
      BY <3>3
    <3> HIDE DEF u
    <3> QED BY <3>1, <3>2, <3>4
  <2>2. DOMAIN u = 0 .. n /\ u = [k \in 0 .. n |-> u[k]]
    OBVIOUS
  <2> HIDE DEF u
  <2> QED BY <2>1, <2>2
<1>7. \E w : w = [k \in 0 .. Len(figure) |-> IF k = 0 THEN 0 ELSE w[k - 1] * TenTo[figure[k].n] + figure[k].v]
  BY <1>6 DEF n
<1> DEFINE w == Upto(figure)
<1>8. w = [k \in 0 .. n |-> IF k = 0 THEN 0 ELSE w[k - 1] * TenTo[figure[k].n] + figure[k].v]
  BY <1>7 DEF Upto, n
<1>9. Concat(figure) = w[n]
  BY DEF Concat, Upto, n
<1> HIDE DEF w, u, Given
<1>10. w[0] = 0 /\ \A k \in 1 .. n : w[k] = w[k - 1] * TenTo[figure[k].n] + figure[k].v
  <2>1. 0 \in 0 .. n /\ \A k \in 1 .. n : k \in 0 .. n /\ k # 0
    BY <1>0
  <2> QED BY <1>8, <2>1
<1>11. \A k \in 0 .. n : w[k] \in Nat
  <2> DEFINE Missed == {k \in 0 .. n : w[k] \notin Nat}
  <2> SUFFICES ASSUME Missed # {} PROVE FALSE
    OBVIOUS
  <2>1. PICK k \in Missed : \A m \in Missed : k <= m
    <3>1. Missed \in SUBSET Nat
      OBVIOUS
    <3> HIDE DEF Missed
    <3> QED BY <3>1, LeastNatural
  <2>2. k \in 0 .. n /\ w[k] \notin Nat
    OBVIOUS
  <2>3. k # 0
    BY <1>10, <2>2
  <2>4. k \in 1 .. n /\ k - 1 \in 0 .. n /\ ~(k <= k - 1)
    BY <1>0, <2>2, <2>3
  <2>5. w[k - 1] \in Nat
    BY <2>1, <2>4
  <2>6. TenTo[figure[k].n] \in Nat /\ figure[k].v \in Nat
    BY <1>0, <2>4
  <2>7. w[k - 1] * TenTo[figure[k].n] + figure[k].v \in Nat
    BY <1>a, <2>5, <2>6
  <2>8. w[k] = w[k - 1] * TenTo[figure[k].n] + figure[k].v
    BY <1>10, <2>4
  <2> QED BY <2>2, <2>7, <2>8
<1> QED BY <1>9, <1>10, <1>11 DEF w, n

\* Figures that begin alike make the same numbers.
LEMMA UptoAgrees ==
    ASSUME NEW s \in Seq(Groups), NEW t \in Seq(Groups), NEW n \in Nat, n <= Len(s), n <= Len(t),
           \A k \in 1 .. n : s[k].n = t[k].n /\ s[k].v = t[k].v
    PROVE  \A k \in 0 .. n : Upto(s)[k] = Upto(t)[k]
<1> DEFINE Differ == {k \in 0 .. n : Upto(s)[k] # Upto(t)[k]}
<1> SUFFICES ASSUME Differ # {} PROVE FALSE
  OBVIOUS
<1>1. PICK k \in Differ : \A m \in Differ : k <= m
  <2>1. Differ \in SUBSET Nat
    OBVIOUS
  <2> HIDE DEF Differ
  <2> QED BY <2>1, LeastNatural
<1>2. k \in 0 .. n /\ Upto(s)[k] # Upto(t)[k]
  OBVIOUS
<1>3. k # 0
  <2>1. Upto(s)[0] = 0 /\ Upto(t)[0] = 0
    BY UptoIs
  <2> QED BY <1>2, <2>1
<1>4. k \in 1 .. n /\ k - 1 \in 0 .. n /\ ~(k <= k - 1)
  BY <1>2, <1>3
<1>5. Upto(s)[k - 1] = Upto(t)[k - 1]
  BY <1>1, <1>4
<1>6. s[k].n = t[k].n /\ s[k].v = t[k].v
  BY <1>4
<1>7. k \in 1 .. Len(s) /\ k \in 1 .. Len(t)
  <2>1. Len(s) \in Nat /\ Len(t) \in Nat
    OBVIOUS
  <2> QED BY <1>4, <2>1
<1>8. /\ Upto(s)[k] = Upto(s)[k - 1] * TenTo[s[k].n] + s[k].v
      /\ Upto(t)[k] = Upto(t)[k - 1] * TenTo[t[k].n] + t[k].v
  BY <1>7, UptoIs
<1> QED BY <1>2, <1>5, <1>6, <1>8

\* A figure is a number; one more group shifts it; the marks do not matter.
LEMMA ConcatIs ==
    ASSUME NEW s \in Seq(Groups), NEW g \in Groups
    PROVE  /\ Concat(s) \in Nat
           /\ Concat(Append(s, g)) = Concat(s) * TenTo[g.n] + g.v
           /\ Concat(<<g>>) = g.v
<1> DEFINE n == Len(s)  t == Append(s, g)
<1>1. n \in Nat /\ t \in Seq(Groups) /\ Len(t) = n + 1 /\ t[n + 1] = g /\ \A k \in 1 .. n : t[k] = s[k]
  OBVIOUS
<1>2. Concat(s) = Upto(s)[n] /\ Upto(s)[n] \in Nat
  <2>1. n \in 0 .. Len(s)
    OBVIOUS
  <2> QED BY <2>1, UptoIs
<1> HIDE DEF t, n
<1>3. Concat(t) = Upto(t)[n + 1] /\ Upto(t)[n + 1] = Upto(t)[n] * TenTo[g.n] + g.v
  <2>1. n + 1 \in 1 .. Len(t) /\ (n + 1) - 1 = n
    BY <1>1
  <2>2. Concat(t) = Upto(t)[Len(t)]
    BY <1>1, UptoIs
  <2>3. Upto(t)[n + 1] = Upto(t)[(n + 1) - 1] * TenTo[t[n + 1].n] + t[n + 1].v
    BY <1>1, <2>1, UptoIs
  <2> QED BY <1>1, <2>1, <2>2, <2>3
<1>4. Upto(t)[n] = Upto(s)[n]
  <2>1. n <= Len(s) /\ n <= Len(t)
    BY <1>1 DEF n
  <2>2. \A k \in 1 .. n : s[k].n = t[k].n /\ s[k].v = t[k].v
    BY <1>1
  <2>3. \A k \in 0 .. n : Upto(s)[k] = Upto(t)[k]
    BY <1>1, <2>1, <2>2, UptoAgrees
  <2>4. n \in 0 .. n
    BY <1>1
  <2> QED BY <2>3, <2>4
<1>5. Concat(<<g>>) = g.v
  <2> DEFINE o == <<g>>
  <2>1. o \in Seq(Groups) /\ Len(o) = 1 /\ o[1] = g
    OBVIOUS
  <2> HIDE DEF o
  <2>2. Concat(o) = Upto(o)[1] /\ Upto(o)[0] = 0
    BY <2>1, UptoIs
  <2>3. 1 \in 1 .. Len(o) /\ 1 - 1 = 0
    BY <2>1
  <2>4. Upto(o)[1] = Upto(o)[1 - 1] * TenTo[o[1].n] + o[1].v
    BY <2>1, <2>3, UptoIs
  <2>5. g.n \in Nat /\ g.v \in Nat
    BY DEF Groups
  <2>6. TenTo[g.n] \in Nat
    BY <2>5, TenToIs
  <2>7. 0 * TenTo[g.n] + g.v = g.v
    BY <2>5, <2>6
  <2> QED BY <2>1, <2>2, <2>3, <2>4, <2>7 DEF o
<1> QED BY <1>2, <1>3, <1>4, <1>5 DEF t

\* Its digits are counted group by group.
LEMMA DigitsAre ==
    ASSUME NEW s \in Seq(Groups), NEW g \in Groups
    PROVE  /\ Digits(s) \in Nat
           /\ Digits(Append(s, g)) = Digits(s) + g.n
           /\ Digits(<<g>>) = g.n
<1> DEFINE lens(t) == [k \in DOMAIN t |-> t[k].n]
<1>1. ASSUME NEW t \in Seq(Groups)
      PROVE  /\ Digits(t) = SumFunctionOnSet(lens(t), 1 .. Len(t))
             /\ \A k \in 1 .. Len(t) : lens(t)[k] = t[k].n /\ t[k].n \in Nat
             /\ IsFiniteSet(1 .. Len(t)) /\ Len(t) \in Nat
             /\ Digits(t) \in Nat
  <2>1. DOMAIN t = 1 .. Len(t) /\ Len(t) \in Nat /\ \A k \in 1 .. Len(t) : t[k] \in Groups
    OBVIOUS
  <2>2. IsFiniteSet(1 .. Len(t))
    <3>1. 1 \in Int /\ Len(t) \in Int
      BY <2>1
    <3> QED BY <3>1, FS_Interval
  <2>3. DOMAIN lens(t) = 1 .. Len(t) /\ \A k \in 1 .. Len(t) : lens(t)[k] = t[k].n
    BY <2>1
  <2>4. \A k \in 1 .. Len(t) : t[k].n \in Nat
    BY <2>1 DEF Groups
  <2>5. Digits(t) = SumFunctionOnSet(lens(t), DOMAIN lens(t))
    BY DEF Digits, Added
  <2> HIDE DEF lens
  <2>6. \A k \in 1 .. Len(t) : lens(t)[k] \in Nat
    BY <2>3, <2>4
  <2>7. SumFunctionOnSet(lens(t), 1 .. Len(t)) \in Nat
    BY <2>2, <2>6, SumType
  <2> QED BY <2>1, <2>2, <2>3, <2>4, <2>5, <2>7
<1> HIDE DEF lens
<1>2. Digits(Append(s, g)) = Digits(s) + g.n
  <2> DEFINE t == Append(s, g)  n == Len(s)
  <2>1. t \in Seq(Groups) /\ n \in Nat /\ Len(t) = n + 1 /\ t[n + 1] = g /\ \A k \in 1 .. n : t[k] = s[k]
    OBVIOUS
  <2> HIDE DEF t
  <2>2. \A k \in 1 .. n + 1 : lens(t)[k] = t[k].n /\ t[k].n \in Nat
    BY <1>1, <2>1
  <2>3. Digits(t) = SumFunctionOnSet(lens(t), 1 .. n + 1)
    BY <1>1, <2>1
  <2>4. Digits(s) = SumFunctionOnSet(lens(s), 1 .. n) /\ IsFiniteSet(1 .. n)
        /\ \A k \in 1 .. n : lens(s)[k] = s[k].n /\ s[k].n \in Nat
    BY <1>1
  <2> HIDE DEF n
  <2>5. n + 1 \in Nat \ {0} /\ (n + 1) - 1 = n /\ n + 1 \in 1 .. n + 1
    BY <2>1
  <2>6. \A k \in 1 .. n + 1 : lens(t)[k] \in Int
    BY <2>2
  <2>7. SumFunctionOnSet(lens(t), 1 .. n + 1) = SumFunctionOnSet(lens(t), 1 .. n) + lens(t)[n + 1]
    <3>1. SumFunctionOnSet(lens(t), 1 .. n + 1) = SumFunctionOnSet(lens(t), 1 .. (n + 1) - 1) + lens(t)[n + 1]
      BY <2>5, <2>6, SumFirst
    <3> QED BY <2>5, <3>1
  <2>8. \A k \in 1 .. n : lens(t)[k] = lens(s)[k] /\ lens(s)[k] \in Int /\ lens(t)[k] \in Int
    <3> TAKE k \in 1 .. n
    <3>1. k \in 1 .. n + 1
      BY <2>1
    <3> QED BY <2>1, <2>2, <2>4, <3>1
  <2>9. SumFunctionOnSet(lens(t), 1 .. n) = SumFunctionOnSet(lens(s), 1 .. n)
    BY <2>4, <2>8, SumSame, ZenonT(60)
  <2>10. lens(t)[n + 1] = g.n
    BY <2>1, <2>2, <2>5
  <2> QED BY <2>3, <2>4, <2>7, <2>9, <2>10 DEF t
<1>3. Digits(<<g>>) = g.n
  <2> DEFINE o == <<g>>
  <2>1. o \in Seq(Groups) /\ Len(o) = 1 /\ o[1] = g
    OBVIOUS
  <2> HIDE DEF o
  <2>2. Digits(o) = SumFunctionOnSet(lens(o), 1 .. 1) /\ lens(o)[1] = g.n /\ g.n \in Nat
    <3>1. 1 \in 1 .. Len(o)
      BY <2>1
    <3> QED BY <1>1, <2>1, <3>1
  <2>3. 1 \in Nat \ {0} /\ 1 - 1 = 0 /\ 1 .. 0 = {}
    OBVIOUS
  <2>4. \A m \in 1 .. 1 : lens(o)[m] \in Int
    BY <2>2
  <2>5. SumFunctionOnSet(lens(o), 1 .. 1) = SumFunctionOnSet(lens(o), 1 .. 1 - 1) + lens(o)[1]
    BY <2>3, <2>4, SumFirst
  <2>6. SumFunctionOnSet(lens(o), 1 .. 1 - 1) = 0
    <3>1. SumFunctionOnSet(lens(o), {}) = 0
      BY SumEmpty
    <3> QED BY <2>3, <3>1
  <2> QED BY <2>2, <2>5, <2>6 DEF o
<1> QED BY <1>1, <1>2, <1>3

\* Marks read as blanks, or not at all, leave a figure and its number of digits.
LEMMA SpreadIs ==
    ASSUME NEW s \in Seq(Groups)
    PROVE  LET t == Spread(s)
           IN  /\ t \in Seq(Groups) /\ Len(t) = Len(s)
               /\ \A k \in 1 .. Len(s) : t[k].n = s[k].n /\ t[k].v = s[k].v /\ t[k].sep = Blank
               /\ Concat(t) = Concat(s) /\ Digits(t) = Digits(s)
<1> DEFINE t == Spread(s)  n == Len(s)
<1>1. n \in Nat /\ DOMAIN s = 1 .. n /\ \A k \in 1 .. n : s[k] \in Groups
  OBVIOUS
<1>2. \A g \in Groups : LET h == [g EXCEPT !.sep = Blank]
                        IN  h \in Groups /\ h.n = g.n /\ h.v = g.v /\ h.sep = Blank
  BY DEF Groups, Marks
<1>3. t = [k \in 1 .. n |-> [s[k] EXCEPT !.sep = Blank]]
  BY <1>1, Zenon DEF Spread, Blank
<1> HIDE DEF n
<1>4. \A k \in 1 .. n : t[k] \in Groups /\ t[k].n = s[k].n /\ t[k].v = s[k].v /\ t[k].sep = Blank
  <2> TAKE k \in 1 .. n
  <2>1. t[k] = [s[k] EXCEPT !.sep = Blank] /\ s[k] \in Groups
    BY <1>1, <1>3
  <2> QED BY <1>2, <2>1
<1>5. DOMAIN t = 1 .. n
  BY <1>3
<1> HIDE DEF t
<1>6. t \in Seq(Groups) /\ Len(t) = n
  <2>1. t = [k \in 1 .. n |-> t[k]]
    BY <1>3, <1>5
  <2>2. t \in [1 .. n -> Groups]
    BY <1>4, <2>1
  <2> QED BY <1>1, <2>2
<1>7. Concat(t) = Concat(s)
  <2>1. n <= Len(s) /\ n <= Len(t)
    BY <1>1, <1>6 DEF n
  <2>2. \A k \in 1 .. n : s[k].n = t[k].n /\ s[k].v = t[k].v
    BY <1>4
  <2>3. \A k \in 0 .. n : Upto(s)[k] = Upto(t)[k]
    BY <1>1, <1>6, <2>1, <2>2, UptoAgrees
  <2>4. n \in 0 .. n
    BY <1>1
  <2>5. Concat(s) = Upto(s)[n] /\ Concat(t) = Upto(t)[n]
    BY <1>6, UptoIs DEF n
  <2> QED BY <2>3, <2>4, <2>5
<1>8. Digits(t) = Digits(s)
  <2>1. \A k \in 1 .. n : t[k].n = s[k].n
    BY <1>4
  <2>2. [k \in 1 .. n |-> t[k].n] = [k \in 1 .. n |-> s[k].n]
    BY <2>1
  <2>3. [k \in DOMAIN t |-> t[k].n] = [k \in DOMAIN s |-> s[k].n]
    BY <1>1, <1>5, <2>2
  <2> QED BY <2>3, Zenon DEF Digits
<1> QED BY <1>4, <1>6, <1>7, <1>8 DEF t, n

\* All damage leaves a figure.
LEMMA FiguresStay ==
    ASSUME NEW s \in Seq(Groups)
    PROVE  Glued(s) \in Seq(Groups) /\ (s # <<>> => Tail(s) \in Seq(Groups))
<1>1. Digits(s) \in Nat /\ Concat(s) \in Nat
  <2> DEFINE g == [n |-> 0, v |-> 0, sep |-> Bare]
  <2>1. g \in Groups
    BY DEF Groups, Marks
  <2> HIDE DEF g
  <2> QED BY <2>1, ConcatIs, DigitsAre
<1>2. Group(Digits(s), Concat(s), Bare) \in Groups
  BY <1>1 DEF Group, Groups, Marks
<1>3. Glued(s) \in Seq(Groups)
  <2> DEFINE g == Group(Digits(s), Concat(s), Bare)
  <2>1. g \in Groups
    BY <1>2
  <2>2. Glued(s) = <<g>>
    BY Zenon DEF Glued, Bare
  <2> HIDE DEF g
  <2>3. <<g>> \in Seq(Groups)
    BY <2>1
  <2> QED BY <2>2, <2>3
<1> QED BY <1>3

\* A group of digits is one.
LEMMA GroupIs ==
    \A n, v \in Nat : \A sep \in Marks :
        /\ Group(n, v, sep) \in Groups
        /\ Group(n, v, sep).n = n /\ Group(n, v, sep).v = v /\ Group(n, v, sep).sep = sep
BY DEF Group, Groups, Marks

\* The figures of less than a thousand, and a step of the rule for all.
Few(k) == <<Group(IF k > 99 THEN 3 ELSE IF k > 9 THEN 2 ELSE 1, k, Bare)>>
Lower(f, k) == Append(f[k \div 1000], Group(3, k % 1000, Comma))
Given(f, k) == IF k < 1000 THEN Few(k) ELSE Lower(f, k)

\* Short figures are figures.
LEMMA FewIs ==
    ASSUME NEW k \in Nat
    PROVE  /\ Few(k) \in Seq(Groups) /\ Len(Few(k)) = 1
           /\ Few(k)[1].n = (IF k > 99 THEN 3 ELSE IF k > 9 THEN 2 ELSE 1)
           /\ Few(k)[1].v = k /\ Few(k)[1].sep = Bare
           /\ Few(k)[1] \in Groups /\ Few(k) = <<Few(k)[1]>>
<1> DEFINE d == IF k > 99 THEN 3 ELSE IF k > 9 THEN 2 ELSE 1
           g == Group(d, k, Bare)
<1>1. d \in Nat /\ Bare \in Marks
  BY DEF Marks
<1>2. g \in Groups /\ g.n = d /\ g.v = k /\ g.sep = Bare
  <2>1. \A m \in Nat : LET h == Group(m, k, Bare) IN h \in Groups /\ h.n = m /\ h.v = k /\ h.sep = Bare
    BY DEF Group, Groups, Marks
  <2> HIDE DEF d
  <2> QED BY <1>1, <2>1
<1>3. Few(k) = <<g>>
  BY Zenon DEF Few
<1> HIDE DEF g
<1>4. <<g>> \in Seq(Groups) /\ Len(<<g>>) = 1 /\ <<g>>[1] = g
  <2>1. g \in Groups
    BY <1>2
  <2> HIDE DEF Groups
  <2> QED BY <2>1
<1> QED BY <1>2, <1>3, <1>4 DEF d

\* Longer ones are a figure and three digits more.
LEMMA LowerIs ==
    ASSUME NEW f, NEW k \in Nat, f[k \div 1000] \in Seq(Groups)
    PROVE  Lower(f, k) \in Seq(Groups)
<1>1. k \div 1000 \in Nat /\ k % 1000 \in Nat /\ 3 \in Nat /\ Comma \in Marks
  BY DEF Marks
<1> DEFINE q == k \div 1000  m == k % 1000  g == Group(3, m, Comma)
<1>2. Lower(f, k) = Append(f[q], g)
  BY Zenon DEF Lower
<1>3. g \in Groups
  <2>1. m \in Nat
    BY <1>1
  <2> HIDE DEF m
  <2> QED BY <1>1, <2>1, GroupIs, ZenonT(60)
<1>4. f[q] \in Seq(Groups)
  OBVIOUS
<1> HIDE DEF q, g
<1> QED BY <1>2, <1>3, <1>4

\* What the rupees of a sum are printed as.
LEMMA ThousandsRule ==
    /\ Thousands \in [Nat -> Seq(Groups)]
    /\ \A r \in Nat : Thousands[r] = Given(Thousands, r)
<1> DEFINE V == Seq(Groups)
           step == [p \in Nat \X [Nat -> V] |-> Given(p[2], p[1])]
<1> HIDE DEF V
<1>1. \A k \in Nat : \A g \in [Nat -> V] : step[<<k, g>>] = Given(g, k)
  OBVIOUS
<1>2. ASSUME NEW k \in Nat, NEW g \in [Nat -> V] PROVE Given(g, k) \in V
  <2>1. Few(k) \in V
    BY FewIs DEF V
  <2>2. Lower(g, k) \in V
    <3>1. k \div 1000 \in Nat
      OBVIOUS
    <3>2. g[k \div 1000] \in V
      BY <3>1
    <3> QED BY <3>2, LowerIs DEF V
  <2> QED BY <2>1, <2>2, ZenonT(60) DEF Given
<1>3. step \in [Nat \X [Nat -> V] -> V]
  BY <1>2
<1> HIDE DEF step
<1>4. step \in Steps(V)
  <2>1. ASSUME NEW k \in Nat, NEW g \in [Nat -> V], NEW h \in [Nat -> V], \A m \in 0 .. k - 1 : g[m] = h[m]
        PROVE  Given(g, k) = Given(h, k)
    <3>1. CASE k < 1000
      BY <3>1, Zenon DEF Given
    <3>2. CASE ~(k < 1000)
      <4>1. k \div 1000 \in 0 .. k - 1
        BY <3>2
      <4>2. g[k \div 1000] = h[k \div 1000]
        BY <2>1, <4>1
      <4>3. Lower(g, k) = Lower(h, k)
        BY <4>2, SMT DEF Lower
      <4> QED BY <3>2, <4>3, Zenon DEF Given
    <3> QED BY <3>1, <3>2
  <2>2. \A k \in Nat : \A g, h \in [Nat -> V] :
          (\A m \in 0 .. k - 1 : g[m] = h[m]) => step[<<k, g>>] = step[<<k, h>>]
    <3> TAKE k \in Nat
    <3> TAKE g, h \in [Nat -> V]
    <3> HAVE \A m \in 0 .. k - 1 : g[m] = h[m]
    <3>1. Given(g, k) = Given(h, k)
      BY <2>1
    <3>2. step[<<k, g>>] = Given(g, k) /\ step[<<k, h>>] = Given(h, k)
      BY <1>1
    <3> QED BY <3>1, <3>2
  <2> QED BY <1>3, <2>2 DEF Steps
<1>5. PICK f \in [Nat -> V] : \A k \in Nat : f[k] = step[<<k, f>>]
  <2>1. V # {}
    <3>1. <<>> \in Seq(Groups)
      OBVIOUS
    <3> QED BY <3>1 DEF V
  <2> QED BY <1>4, <2>1, Recursion
<1> DEFINE Rule(g) == g = [k \in Nat |-> Given(g, k)]
<1>6. Rule(f)
  <2>1. f = [k \in Nat |-> f[k]]
    OBVIOUS
  <2>2. \A k \in Nat : f[k] = Given(f, k)
    BY <1>1, <1>5
  <2> QED BY <2>1, <2>2
<1>7. Thousands = CHOOSE g : Rule(g)
  <2>1. \A g : \A k : Given(g, k) = IF k < 1000 THEN <<Group(IF k > 99 THEN 3 ELSE IF k > 9 THEN 2 ELSE 1, k, Bare)>>
                ELSE Append(g[k \div 1000], Group(3, k % 1000, Comma))
    BY Zenon DEF Given, Few, Lower, Bare, Comma
  <2> QED BY Zenon DEF Thousands, Given, Few, Lower, Bare, Comma
<1>8. Rule(Thousands)
  <2>1. \E g : Rule(g)
    BY <1>6
  <2> HIDE DEF Rule
  <2> QED BY <1>7, <2>1
<1>9. \A r \in Nat : Thousands[r] = Given(Thousands, r)
  BY <1>8
<1>10. \A r \in Nat : Thousands[r] \in V
  <2> DEFINE Missed == {r \in Nat : Thousands[r] \notin V}
  <2> SUFFICES ASSUME Missed # {} PROVE FALSE
    OBVIOUS
  <2>1. PICK k \in Missed : \A m \in Missed : k <= m
    <3>1. Missed \in SUBSET Nat
      OBVIOUS
    <3> HIDE DEF Missed
    <3> QED BY <3>1, LeastNatural
  <2>2. k \in Nat /\ Thousands[k] \notin V
    OBVIOUS
  <2>3. CASE k < 1000
    <3>1. Thousands[k] = Few(k)
      BY <1>9, <2>2, <2>3 DEF Given
    <3> QED BY <2>2, <3>1, FewIs DEF V
  <2>4. CASE ~(k < 1000)
    <3>1. k \div 1000 \in Nat /\ ~(k <= k \div 1000)
      BY <2>2, <2>4
    <3>2. Thousands[k \div 1000] \in V
      <4>1. k \div 1000 \notin Missed
        BY <2>1, <3>1
      <4> QED BY <3>1, <4>1
    <3>3. Lower(Thousands, k) \in V
      BY <2>2, <3>2, LowerIs DEF V
    <3>4. Thousands[k] = Lower(Thousands, k)
      BY <1>9, <2>2, <2>4 DEF Given
    <3> QED BY <2>2, <3>3, <3>4
  <2> QED BY <2>3, <2>4
<1>11. Thousands = [k \in Nat |-> Thousands[k]]
  BY <1>8
<1> HIDE DEF Rule
<1>12. Thousands \in [Nat -> V]
  BY <1>10, <1>11
<1> QED BY <1>9, <1>12 DEF V

\* Figures of the same numbers of the same lengths are the same number.
LEMMA ConcatSame ==
    ASSUME NEW s \in Seq(Groups), NEW t \in Seq(Groups), Len(s) = Len(t),
           \A k \in 1 .. Len(s) : s[k].n = t[k].n /\ s[k].v = t[k].v
    PROVE  Concat(s) = Concat(t)
<1>1. Len(s) \in Nat /\ Len(t) \in Nat
  OBVIOUS
<1>2. \A k \in 0 .. Len(s) : Upto(s)[k] = Upto(t)[k]
  <2>1. Len(s) <= Len(s) /\ Len(s) <= Len(t)
    BY <1>1
  <2> QED BY <1>1, <2>1, UptoAgrees
<1>3. Len(s) \in 0 .. Len(s)
  BY <1>1
<1>4. Upto(s)[Len(s)] = Upto(t)[Len(s)]
  BY <1>2, <1>3
<1>5. Concat(s) = Upto(s)[Len(s)] /\ Concat(t) = Upto(t)[Len(t)]
  BY UptoIs
<1> QED BY <1>4, <1>5

\* The rupees of a sum as they are printed: three digits in every group but the first.
Rupees(t, r) ==
    /\ t \in Seq(Groups) /\ Len(t) >= 1
    /\ t[1].n \in 1 .. 3 /\ \A k \in 2 .. Len(t) : t[k].n = 3
    /\ \A k \in 1 .. Len(t) : t[k].sep # "."
    /\ Concat(t) = r
    /\ Digits(t) >= 1 /\ (r >= 100 => Digits(t) >= 3)

\* Less than a thousand.
LEMMA FewAreRupees ==
    ASSUME NEW r \in Nat, r < 1000
    PROVE  Rupees(Few(r), r)
<1> DEFINE t == Few(r)  g == t[1]
<1>1. t \in Seq(Groups) /\ Len(t) = 1 /\ t = <<g>> /\ g \in Groups
  BY FewIs
<1>2. g.n = (IF r > 99 THEN 3 ELSE IF r > 9 THEN 2 ELSE 1) /\ g.v = r /\ g.sep = Bare
  BY FewIs
<1> HIDE DEF g
<1>3. Concat(t) = r /\ Digits(t) = g.n
  <2>1. Concat(<<g>>) = g.v /\ Digits(<<g>>) = g.n
    BY <1>1, ConcatIs, DigitsAre
  <2> HIDE DEF t
  <2> QED BY <1>1, <1>2, <2>1
<1>4. t[1] = g
  BY DEF g
<1> HIDE DEF t
<1>5. g.n \in 1 .. 3 /\ (r >= 100 => g.n >= 3) /\ g.sep # "."
  <2>1. g.sep # "."
    BY <1>2, MarksAre
  <2>2. r > 99 <=> r >= 100
    OBVIOUS
  <2>4. g.n = (IF r > 99 THEN 3 ELSE IF r > 9 THEN 2 ELSE 1)
    BY <1>2
  <2>3. g.n \in 1 .. 3 /\ (r > 99 => g.n = 3)
    BY <2>4
  <2> QED BY <2>1, <2>2, <2>3
<1>6. \A k \in 1 .. Len(t) : t[k].sep # "."
  BY <1>1, <1>4, <1>5
<1>7. \A k \in 2 .. Len(t) : t[k].n = 3
  BY <1>1
<1>8. Digits(t) >= 1 /\ (r >= 100 => Digits(t) >= 3)
  BY <1>3, <1>5
<1> QED BY <1>1, <1>3, <1>4, <1>5, <1>6, <1>7, <1>8 DEF Rupees, t

\* A group of so many digits, of a value, after a mark.
Shows(g, n, v, sep) == g \in Groups /\ g.n = n /\ g.v = v /\ g.sep = sep

\* Three digits more.
LEMMA MoreRupees ==
    ASSUME NEW q \in Nat, NEW s, Rupees(s, q), NEW m \in Nat, NEW g, Shows(g, 3, m, Comma)
    PROVE  Rupees(Append(s, g), q * 1000 + m)
<1> DEFINE t == Append(s, g)  n == Len(s)
<1>1. /\ s \in Seq(Groups) /\ n >= 1
      /\ s[1].n \in 1 .. 3 /\ \A k \in 2 .. n : s[k].n = 3
      /\ \A k \in 1 .. n : s[k].sep # "."
      /\ Concat(s) = q /\ Digits(s) >= 1
  BY DEF Rupees
<1>0. g \in Groups /\ g.n = 3 /\ g.v = m /\ g.sep # "."
  BY MarksAre DEF Shows
<1>2. t \in Seq(Groups) /\ Len(t) = n + 1 /\ t[n + 1] = g /\ \A k \in 1 .. n : t[k] = s[k]
  <2>1. s \in Seq(Groups) /\ g \in Groups
    BY <1>0, <1>1
  <2> HIDE DEF Groups
  <2> QED BY <2>1
<1>3. n \in Nat /\ n >= 1
  BY <1>1
<1>a. Len(t) = n + 1
  BY <1>2
<1>b. t[n + 1] = g /\ \A k \in 1 .. n : t[k] = s[k]
  BY <1>2
<1>4. Concat(t) = q * 1000 + m
  <2>1. Concat(t) = Concat(s) * TenTo[g.n] + g.v
    BY <1>0, <1>1, ConcatIs
  <2>2. Concat(s) = q /\ g.n = 3 /\ g.v = m /\ TenTo[3] = 1000
    BY <1>0, <1>1, TenToIs
  <2>3. Concat(t) = q * TenTo[3] + m
    BY <2>1, <2>2, Zenon
  <2> HIDE DEF t
  <2> QED BY <2>2, <2>3, SMT
<1>5. Digits(t) = Digits(s) + 3 /\ Digits(s) \in Nat
  <2>1. Digits(t) = Digits(s) + g.n /\ Digits(s) \in Nat
    BY <1>0, <1>1, DigitsAre
  <2>2. g.n = 3
    BY <1>0
  <2> QED BY <2>1, <2>2, Zenon
<1>c. Digits(s) >= 1
  BY <1>1
<1> HIDE DEF t, n
<1>6. Digits(t) >= 1 /\ Digits(t) >= 3
  BY <1>c, <1>5
<1>7. t[1].n \in 1 .. 3
  <2>1. t[1] = s[1]
    BY <1>3, <1>b
  <2> QED BY <1>1, <2>1
<1>8. ASSUME NEW k \in 1 .. Len(t) PROVE t[k].sep # "." /\ (k # 1 => t[k].n = 3)
  <2>1. CASE k = n + 1
    <3>1. t[k] = g
      BY <1>b, <2>1
    <3> QED BY <1>0, <3>1
  <2>2. CASE k # n + 1
    <3>1. k \in 1 .. n
      BY <1>a, <1>3, <2>2
    <3>2. t[k] = s[k] /\ (k # 1 => k \in 2 .. n)
      BY <1>b, <3>1
    <3> QED BY <1>1, <3>1, <3>2
  <2> QED BY <2>1, <2>2
<1>9. \A k \in 2 .. Len(t) : t[k].n = 3
  <2>1. \A k \in 2 .. Len(t) : k \in 1 .. Len(t) /\ k # 1
    BY <1>a, <1>3
  <2> QED BY <1>8, <2>1
<1>10. Len(t) >= 1
  BY <1>a, <1>3
<1> QED BY <1>2, <1>4, <1>6, <1>7, <1>8, <1>9, <1>10 DEF Rupees, t

\* What the rupees of a sum are printed as says how many they are.
LEMMA ThousandsAre == \A r \in Nat : Rupees(Thousands[r], r)
<1> DEFINE Missed == {r \in Nat : ~Rupees(Thousands[r], r)}
<1> SUFFICES ASSUME Missed # {} PROVE FALSE
  OBVIOUS
<1>1. PICK k \in Missed : \A m \in Missed : k <= m
  <2>1. Missed \in SUBSET Nat
    OBVIOUS
  <2> HIDE DEF Missed
  <2> QED BY <2>1, LeastNatural
<1>2. k \in Nat /\ ~Rupees(Thousands[k], k)
  OBVIOUS
<1>3. Thousands[k] = Given(Thousands, k)
  BY <1>2, ThousandsRule
<1>4. CASE k < 1000
  <2>1. Thousands[k] = Few(k)
    BY <1>3, <1>4 DEF Given
  <2> QED BY <1>2, <1>4, <2>1, FewAreRupees
<1>5. CASE ~(k < 1000)
  <2>1. k \div 1000 \in Nat /\ ~(k <= k \div 1000) /\ k >= 1000
    BY <1>2, <1>5
  <2>2. Rupees(Thousands[k \div 1000], k \div 1000)
    <3>1. k \div 1000 \notin Missed
      BY <1>1, <2>1
    <3> QED BY <2>1, <3>1
  <2> DEFINE q == k \div 1000  m == k % 1000  g == Group(3, m, Comma)
  <2>3. Thousands[k] = Append(Thousands[q], g)
    <3>1. Thousands[k] = Lower(Thousands, k)
      BY <1>3, <1>5 DEF Given
    <3> QED BY <3>1, ZenonT(60) DEF Lower, Comma
  <2>4. m \in Nat /\ k = q * 1000 + m /\ q \in Nat
    BY <1>2
  <2>5. Shows(g, 3, m, Comma)
    <3>1. m \in Nat
      BY <2>4
    <3> HIDE DEF m
    <3> QED BY <3>1, SMT DEF Shows, Group, Groups, Marks
  <2>6. Rupees(Thousands[q], q)
    BY <2>2
  <2> HIDE DEF q, m, g
  <2>7. Rupees(Append(Thousands[q], g), q * 1000 + m)
    BY <2>4, <2>5, <2>6, MoreRupees
  <2>8. Rupees(Thousands[k], k)
    BY <2>3, <2>4, <2>7
  <2> QED BY <1>2, <2>8
<1> QED BY <1>4, <1>5

-----------------------------------------------------------------------------
(* What amounts are read from figures.                                       *)

Pointed(run) == {k \in 1 .. Len(run) : run[k].sep = "."}
Shaped(run) ==
    LET n == Len(run)
    IN  n > 1 /\ run[n].n = 2 /\ run[1].n <= 3 /\ \A k \in 2 .. n - 1 : run[k].n = 3

\* The three readings of a figure, told apart by its marks and its shape.
LEMMA ReadingIs ==
    ASSUME NEW run \in Seq(Groups), Digits(run) >= 3
    PROVE  LET n == Len(run)
               last == CHOOSE k \in Pointed(run) : \A j \in Pointed(run) : j <= k
           IN  RunToDecimal(run) =
                 IF Pointed(run) # {}
                   THEN Concat(SubSeq(run, 1, last - 1)) * 100 + Concat(SubSeq(run, last, n))
                   ELSE IF Shaped(run) THEN Concat(Front(run)) * 100 + run[n].v ELSE Concat(run) * 100
<1>1. Digits(run) \in Nat /\ ~(Digits(run) < MinAmountDigits) /\ Digits(run) >= MinAmountDigits
  <2> DEFINE g == Group(0, 0, Bare)
  <2>1. g \in Groups
    BY DEF Group, Groups, Marks
  <2> HIDE DEF g
  <2>2. Digits(run) \in Nat
    BY <2>1, DigitsAre
  <2> QED BY <2>2 DEF MinAmountDigits
<1> DEFINE n == Len(run)
           P == Pointed(run)
           last == CHOOSE k \in P : \A j \in P : j <= k
           X == Concat(SubSeq(run, 1, last - 1)) * 100 + Concat(SubSeq(run, last, n))
           Y == IF Shaped(run) THEN Concat(Front(run)) * 100 + run[n].v ELSE Concat(run) * 100
           few == Digits(run) < MinAmountDigits
           enough == Digits(run) >= MinAmountDigits
<1>2. RunToDecimal(run) = CASE few -> Unread [] enough /\ P # {} -> X [] enough /\ P = {} -> Y
  BY Zenon DEF RunToDecimal, Pointed, Shaped
<1>3. ~few /\ enough
  BY <1>1
<1> HIDE DEF X, Y, few, enough, P
<1>4. RunToDecimal(run) = IF P # {} THEN X ELSE Y
  <2>1. CASE P # {}
    BY <1>2, <1>3, <2>1
  <2>2. CASE P = {}
    BY <1>2, <1>3, <2>2
  <2> QED BY <2>1, <2>2
<1> QED BY <1>4, Zenon DEF X, Y, P

\* Rupees alone are read as rupees.
LEMMA RupeesRead ==
    ASSUME NEW r \in Nat, r >= 100, NEW t, Rupees(t, r)
    PROVE  RunToDecimal(t) = 100 * r
<1> DEFINE n == Len(t)
<1>1. t \in Seq(Groups) /\ Digits(t) >= 3 /\ Concat(t) = r
  BY DEF Rupees
<1>2. n \in Nat
  BY <1>1
<1>3. Pointed(t) = {}
  <2>1. \A k \in 1 .. Len(t) : t[k].sep # "."
    BY DEF Rupees
  <2> QED BY <2>1 DEF Pointed
<1>4. ~Shaped(t)
  <2> SUFFICES ASSUME n > 1 PROVE t[n].n # 2
    BY DEF Shaped
  <2>1. n \in 2 .. n
    BY <1>2
  <2>2. \A k \in 2 .. n : t[k].n = 3
    BY DEF Rupees
  <2> HIDE DEF n
  <2>3. t[n].n = 3
    BY <2>1, <2>2
  <2> QED BY <2>3
<1>5. RunToDecimal(t) = Concat(t) * 100
  BY <1>1, <1>3, <1>4, ReadingIs
<1> QED BY <1>1, <1>5

\* One group of a figure.
LEMMA OneGroup ==
    ASSUME NEW s \in Seq(Groups), NEW m \in 1 .. Len(s)
    PROVE  SubSeq(s, m, m) = <<s[m]>>
<1> DEFINE u == SubSeq(s, m, m)
<1>1. u \in Seq(Groups) /\ Len(u) = 1 /\ u[1] = s[m]
  BY SubSeqProperties
<1> HIDE DEF u
<1>2. u = <<u[1]>>
  BY <1>1
<1> QED BY <1>1, <1>2 DEF u

\* Paise after a point.
LEMMA PointRead ==
    ASSUME NEW r \in Nat, NEW t, Rupees(t, r), NEW p \in Nat, NEW g, Shows(g, 2, p, ".")
    PROVE  RunToDecimal(Append(t, g)) = 100 * r + p
<1> DEFINE s == Append(t, g)  n == Len(t)
<1>1. t \in Seq(Groups) /\ Concat(t) = r /\ Digits(t) >= 1 /\ \A k \in 1 .. n : t[k].sep # "."
  BY DEF Rupees
<1>2. g \in Groups /\ g.n = 2 /\ g.v = p /\ g.sep = "."
  BY DEF Shows
<1>3. n \in Nat /\ s \in Seq(Groups) /\ Len(s) = n + 1 /\ s[n + 1] = g /\ \A k \in 1 .. n : s[k] = t[k]
  <2>1. t \in Seq(Groups) /\ g \in Groups
    BY <1>1, <1>2
  <2> QED BY <2>1
<1>4. Digits(s) >= 3
  <2>1. Digits(s) = Digits(t) + g.n /\ Digits(t) \in Nat
    BY <1>1, <1>2, DigitsAre
  <2>2. Digits(s) = Digits(t) + 2
    BY <1>2, <2>1, Zenon
  <2> HIDE DEF s
  <2>3. Digits(t) \in Nat /\ Digits(t) >= 1
    BY <1>1, <2>1
  <2> QED BY <2>2, <2>3
<1>5. SubSeq(s, 1, n) = t /\ SubSeq(s, n + 1, n + 1) = <<g>>
  <2>1. t \in Seq(Groups) /\ g \in Groups
    BY <1>1, <1>2
  <2>2. SubSeq(s, 1, n) = t
    BY <2>1
  <2> HIDE DEF s, n
  <2>3. n + 1 \in 1 .. Len(s)
    BY <1>3
  <2>4. SubSeq(s, n + 1, n + 1) = <<s[n + 1]>>
    BY <1>3, <2>3, OneGroup
  <2> QED BY <1>3, <2>2, <2>4
<1> HIDE DEF s, n
<1>6. Pointed(s) = {n + 1}
  <2>1. n + 1 \in Pointed(s)
    <3>1. n + 1 \in 1 .. Len(s) /\ s[n + 1].sep = "."
      BY <1>2, <1>3
    <3> QED BY <3>1 DEF Pointed
  <2>2. ASSUME NEW k \in Pointed(s) PROVE k = n + 1
    <3>1. k \in 1 .. n + 1 /\ s[k].sep = "."
      BY <1>3 DEF Pointed
    <3>2. ~(k \in 1 .. n)
      BY <1>1, <1>3, <3>1
    <3> QED BY <1>3, <3>1, <3>2
  <2> QED BY <2>1, <2>2
<1>7. (CHOOSE k \in Pointed(s) : \A j \in Pointed(s) : j <= k) = n + 1
  <2>1. n + 1 <= n + 1
    BY <1>3
  <2> QED BY <1>6, <2>1
<1>8. RunToDecimal(s) = Concat(SubSeq(s, 1, (n + 1) - 1)) * 100 + Concat(SubSeq(s, n + 1, Len(s)))
  <2> DEFINE last == CHOOSE k \in Pointed(s) : \A j \in Pointed(s) : j <= k
  <2>1. RunToDecimal(s) = Concat(SubSeq(s, 1, last - 1)) * 100 + Concat(SubSeq(s, last, Len(s)))
    BY <1>3, <1>4, <1>6, ReadingIs
  <2>2. last = n + 1
    BY <1>7
  <2> HIDE DEF last
  <2> QED BY <2>1, <2>2, Zenon
<1>9. (n + 1) - 1 = n
  BY <1>3
<1>10. RunToDecimal(s) = Concat(t) * 100 + Concat(<<g>>)
  BY <1>3, <1>5, <1>8, <1>9, Zenon
<1>11. Concat(<<g>>) = p
  <2>1. Concat(<<g>>) = g.v
    BY <1>1, <1>2, ConcatIs
  <2> QED BY <1>2, <2>1, Zenon
<1>12. RunToDecimal(s) = r * 100 + p
  BY <1>1, <1>10, <1>11, Zenon
<1> QED BY <1>12 DEF s

\* Paise as a last group of two digits.
LEMMA ShapeRead ==
    ASSUME NEW r \in Nat, NEW t, Rupees(t, r), NEW p \in Nat, NEW g, Shows(g, 2, p, Blank)
    PROVE  RunToDecimal(Append(t, g)) = 100 * r + p
<1> DEFINE s == Append(t, g)  n == Len(t)
<1>1. /\ t \in Seq(Groups) /\ Concat(t) = r /\ Digits(t) >= 1 /\ \A k \in 1 .. n : t[k].sep # "."
      /\ n >= 1 /\ t[1].n \in 1 .. 3 /\ \A k \in 2 .. n : t[k].n = 3
  BY DEF Rupees
<1>2. g \in Groups /\ g.n = 2 /\ g.v = p /\ g.sep # "."
  BY MarksAre DEF Shows
<1>3. n \in Nat /\ s \in Seq(Groups) /\ Len(s) = n + 1 /\ s[n + 1] = g /\ \A k \in 1 .. n : s[k] = t[k]
  <2>1. t \in Seq(Groups) /\ g \in Groups
    BY <1>1, <1>2
  <2> QED BY <2>1
<1>4. Digits(s) >= 3
  <2>1. Digits(s) = Digits(t) + g.n /\ Digits(t) \in Nat
    BY <1>1, <1>2, DigitsAre
  <2>2. Digits(s) = Digits(t) + 2
    BY <1>2, <2>1, Zenon
  <2> HIDE DEF s
  <2>3. Digits(t) \in Nat /\ Digits(t) >= 1
    BY <1>1, <2>1
  <2> QED BY <2>2, <2>3
<1>5. SubSeq(s, 1, n) = t
  <2>1. t \in Seq(Groups) /\ g \in Groups
    BY <1>1, <1>2
  <2> QED BY <2>1
<1> HIDE DEF s, n
<1>a. n \in Nat /\ n >= 1 /\ Len(s) = n + 1 /\ s[n + 1] = g /\ \A k \in 1 .. n : s[k] = t[k]
  BY <1>1, <1>3
<1>6. Pointed(s) = {}
  <2> SUFFICES ASSUME NEW k \in 1 .. n + 1 PROVE s[k].sep # "."
    BY <1>3 DEF Pointed
  <2>1. CASE k = n + 1
    BY <1>2, <1>3, <2>1
  <2>2. CASE k # n + 1
    <3>1. k \in 1 .. n
      BY <1>a, <2>2
    <3> QED BY <1>1, <1>a, <3>1
  <2> QED BY <2>1, <2>2
<1>7. Shaped(s)
  <2>1. Len(s) > 1 /\ s[Len(s)].n = 2
    <3>1. n + 1 > 1
      BY <1>a
    <3>2. g.n = 2
      BY <1>2
    <3> QED BY <1>a, <3>1, <3>2
  <2>2. s[1].n <= 3
    <3>1. s[1] = t[1]
      BY <1>a
    <3> QED BY <1>1, <3>1
  <2>3. \A k \in 2 .. Len(s) - 1 : s[k].n = 3
    <3> TAKE k \in 2 .. Len(s) - 1
    <3>1. k \in 2 .. n /\ k \in 1 .. n
      BY <1>a
    <3>2. s[k] = t[k]
      BY <1>a, <3>1
    <3> QED BY <1>1, <3>1, <3>2
  <2> QED BY <2>1, <2>2, <2>3 DEF Shaped
<1>8. RunToDecimal(s) = Concat(Front(s)) * 100 + s[Len(s)].v
  BY <1>3, <1>4, <1>6, <1>7, ReadingIs
<1>9. Front(s) = t
  <2>1. Front(s) = SubSeq(s, 1, Len(s) - 1)
    BY DEF Front
  <2>2. Len(s) - 1 = n
    BY <1>a
  <2> QED BY <1>5, <2>1, <2>2
<1>10. s[Len(s)].v = p
  BY <1>2, <1>a
<1>11. RunToDecimal(s) = r * 100 + p
  BY <1>1, <1>8, <1>9, <1>10, Zenon
<1> QED BY <1>11 DEF s

\* A figure whose marks are read as blanks has the same groups.
LEMMA SpreadRupees ==
    ASSUME NEW r \in Nat, NEW t, Rupees(t, r)
    PROVE  Rupees(Spread(t), r)
<1> DEFINE s == Spread(t)  n == Len(t)
<1>1. /\ t \in Seq(Groups) /\ Concat(t) = r /\ Digits(t) >= 1 /\ (r >= 100 => Digits(t) >= 3)
      /\ n >= 1 /\ t[1].n \in 1 .. 3 /\ \A k \in 2 .. n : t[k].n = 3
  BY DEF Rupees
<1>2. n \in Nat
  BY <1>1
<1>3. /\ s \in Seq(Groups) /\ Len(s) = n
      /\ \A k \in 1 .. n : s[k].n = t[k].n /\ s[k].sep = Blank
      /\ Concat(s) = Concat(t) /\ Digits(s) = Digits(t)
  BY <1>1, SpreadIs
<1> HIDE DEF s, n
<1>4. s[1].n \in 1 .. 3 /\ \A k \in 2 .. n : s[k].n = 3
  <2>1. 1 \in 1 .. n /\ \A k \in 2 .. n : k \in 1 .. n
    BY <1>1, <1>2
  <2> QED BY <1>1, <1>3, <2>1
<1>5. \A k \in 1 .. n : s[k].sep # "."
  BY <1>3, MarksAre
<1> QED BY <1>1, <1>3, <1>4, <1>5 DEF Rupees, s

\* And one group more, one more.
LEMMA SpreadAppend ==
    ASSUME NEW t \in Seq(Groups), NEW g \in Groups
    PROVE  Spread(Append(t, g)) = Append(Spread(t), [g EXCEPT !.sep = Blank])
<1> DEFINE n == Len(t)  s == Append(t, g)  h == [g EXCEPT !.sep = Blank]
           a == Spread(s)  u == Spread(t)  c == Append(u, h)
<1>1. n \in Nat /\ DOMAIN t = 1 .. n /\ DOMAIN s = 1 .. n + 1 /\ s[n + 1] = g /\ \A k \in 1 .. n : s[k] = t[k]
  OBVIOUS
<1>2. u \in Seq(Groups) /\ Len(u) = n
  BY SpreadIs
<1>3. h \in Groups
  BY DEF Groups, Marks
<1>4. u = [k \in 1 .. n |-> [t[k] EXCEPT !.sep = Blank]]
  BY <1>1, Zenon DEF Spread, Blank
<1>5. a = [k \in 1 .. n + 1 |-> [s[k] EXCEPT !.sep = Blank]]
  BY <1>1, Zenon DEF Spread, Blank
<1> HIDE DEF s, u, h, a
<1>6. DOMAIN c = 1 .. n + 1 /\ c[n + 1] = h /\ \A k \in 1 .. n : c[k] = u[k]
  BY <1>2, <1>3
<1>7. c = [k \in 1 .. n + 1 |-> c[k]]
  <2>1. c \in Seq(Groups)
    BY <1>2, <1>3
  <2> HIDE DEF c
  <2>2. c = [k \in DOMAIN c |-> c[k]]
    BY <2>1
  <2> QED BY <1>6, <2>2, Zenon
<1> HIDE DEF c, n
<1>8. \A k \in 1 .. n + 1 : c[k] = [s[k] EXCEPT !.sep = Blank]
  <2> TAKE k \in 1 .. n + 1
  <2>1. CASE k = n + 1
    BY <1>1, <1>6, <2>1, Zenon DEF h
  <2>2. CASE k # n + 1
    <3>1. k \in 1 .. n
      BY <1>1, <2>2
    <3>2. u[k] = [t[k] EXCEPT !.sep = Blank]
      BY <1>4, <3>1, Zenon
    <3> QED BY <1>1, <1>6, <3>1, <3>2, Zenon
  <2> QED BY <2>1, <2>2
<1>9. c = [k \in 1 .. n + 1 |-> [s[k] EXCEPT !.sep = Blank]]
  BY <1>7, <1>8, Zenon
<1>10. a = c
  BY <1>5, <1>9, Zenon
<1> QED BY <1>10, Zenon DEF a, c, s, u, h

\* Printed sums are read as they are, marks or blanks between their groups.
LEMMA SumsRead ==
    /\ \A r \in Nat : r >= 100 => /\ RunToDecimal(Thousands[r]) = 100 * r
                                  /\ RunToDecimal(Spread(Thousands[r])) = 100 * r
    /\ \A m \in Nat : RunToDecimal(Printed(m)) = m /\ RunToDecimal(Spread(Printed(m))) = m
<1>1. ASSUME NEW r \in Nat, r >= 100
      PROVE  RunToDecimal(Thousands[r]) = 100 * r /\ RunToDecimal(Spread(Thousands[r])) = 100 * r
  <2>1. Rupees(Thousands[r], r)
    BY ThousandsAre
  <2>2. Rupees(Spread(Thousands[r]), r)
    BY <2>1, SpreadRupees
  <2> QED BY <1>1, <2>1, <2>2, RupeesRead
<1>2. ASSUME NEW m \in Nat
      PROVE  RunToDecimal(Printed(m)) = m /\ RunToDecimal(Spread(Printed(m))) = m
  <2> DEFINE r == m \div 100  p == m % 100  t == Thousands[r]  g == Group(2, p, ".")
             h == [g EXCEPT !.sep = Blank]
  <2>1. r \in Nat /\ p \in Nat /\ m = 100 * r + p
    OBVIOUS
  <2>2. Rupees(t, r)
    <3> HIDE DEF r
    <3> QED BY <2>1, ThousandsAre
  <2>3. Shows(g, 2, p, ".") /\ Shows(h, 2, p, Blank) /\ g \in Groups
    <3>1. p \in Nat
      BY <2>1
    <3> HIDE DEF p
    <3> QED BY <3>1 DEF Shows, Group, Groups, Marks
  <2>4. Printed(m) = Append(t, g)
    BY Zenon DEF Printed
  <2> HIDE DEF r, p, t, g, h
  <2>5. t \in Seq(Groups)
    BY <2>2 DEF Rupees
  <2>6. Spread(Append(t, g)) = Append(Spread(t), h)
    BY <2>3, <2>5, SpreadAppend DEF h
  <2>7. RunToDecimal(Append(t, g)) = 100 * r + p
    BY <2>1, <2>2, <2>3, PointRead
  <2>8. RunToDecimal(Append(Spread(t), h)) = 100 * r + p
    <3>1. Rupees(Spread(t), r)
      BY <2>1, <2>2, SpreadRupees
    <3> QED BY <2>1, <2>3, <3>1, ShapeRead
  <2> QED BY <2>1, <2>4, <2>6, <2>7, <2>8, Zenon
<1> QED BY <1>1, <1>2

\* A bill's number is read as so many rupees.
LEMMA NumberRead ==
    ASSUME NEW b \in Bills
    PROVE  Reference(b) \in Seq(Groups) /\ RunToDecimal(Reference(b)) = 100 * b.invoice
<1> DEFINE i == b.invoice  g == Group(4, i, Bare)  s == <<g>>
<1>1. i \in Nat
  BY BillIs
<1>2. g \in Groups /\ g.n = 4 /\ g.v = i /\ g.sep # "."
  <2> HIDE DEF i
  <2> QED BY <1>1, MarksAre DEF Group, Groups, Marks
<1>3. Reference(b) = s
  BY Zenon DEF Reference, Bare
<1> HIDE DEF g, i
<1>4. s \in Seq(Groups) /\ Len(s) = 1 /\ s[1] = g
  <2>1. g \in Groups
    BY <1>2
  <2> QED BY <2>1
<1>5. Concat(s) = i /\ Digits(s) = 4
  <2>1. s \in Seq(Groups) /\ g \in Groups
    BY <1>2, <1>4
  <2>2. Concat(<<g>>) = g.v /\ Digits(<<g>>) = g.n
    BY <2>1, ConcatIs, DigitsAre
  <2> QED BY <1>2, <2>2, Zenon
<1> HIDE DEF s
<1>6. Pointed(s) = {} /\ ~Shaped(s)
  <2>1. \A k \in 1 .. Len(s) : s[k].sep # "."
    <3>1. g.sep # "."
      BY <1>2
    <3> QED BY <1>4, <3>1
  <2>2. ~(Len(s) > 1)
    BY <1>4
  <2> QED BY <2>1, <2>2 DEF Pointed, Shaped
<1>7. Digits(s) >= 3
  BY <1>5
<1>8. RunToDecimal(s) = Concat(s) * 100
  BY <1>4, <1>6, <1>7, ReadingIs
<1> QED BY <1>1, <1>3, <1>4, <1>5, <1>8 DEF i

\* A figure reads as a number or not at all.
LEMMA ReadingType ==
    ASSUME NEW run \in Seq(Groups)
    PROVE  RunToDecimal(run) \in Nat \union {Unread} /\ Digits(run) \in Nat
<1> DEFINE n == Len(run)
<1>0. n \in Nat
  OBVIOUS
<1>1. \A s \in Seq(Groups) : Concat(s) \in Nat /\ Digits(s) \in Nat
  <2> DEFINE g == Group(0, 0, Bare)
  <2>1. g \in Groups
    BY DEF Group, Groups, Marks
  <2> HIDE DEF g
  <2> QED BY <2>1, ConcatIs, DigitsAre
<1>2. CASE Digits(run) >= 3
  <2> DEFINE P == Pointed(run)
             last == CHOOSE k \in P : \A j \in P : j <= k
             X == Concat(SubSeq(run, 1, last - 1)) * 100 + Concat(SubSeq(run, last, n))
  <2>1. RunToDecimal(run) = IF P # {} THEN X
                            ELSE IF Shaped(run) THEN Concat(Front(run)) * 100 + run[n].v ELSE Concat(run) * 100
    BY <1>2, ReadingIs, Zenon
  <2>2. CASE P # {}
    <3>1. last \in P
      <4> DEFINE f == [k \in P |-> k]
      <4>1. IsFiniteSet(P)
        <5>1. IsFiniteSet(1 .. n)
          <6>1. 1 \in Int /\ n \in Int
            BY <1>0
          <6> QED BY <6>1, FS_Interval
        <5>2. P \in SUBSET (1 .. n)
          BY DEF Pointed
        <5> QED BY <5>1, <5>2, FS_Subset
      <4>2. \A k \in P : f[k] = k /\ k \in Int
        BY DEF Pointed
      <4> HIDE DEF f, P
      <4>3. \E x \in P : \A y \in P : f[y] <= f[x]
        BY <2>2, <4>1, <4>2, LargestValue
      <4>4. \E x \in P : \A y \in P : y <= x
        BY <4>2, <4>3
      <4> QED BY <4>4, Zenon
    <3>2. last \in 1 .. n
      BY <3>1 DEF Pointed
    <3> HIDE DEF last, P
    <3>3. SubSeq(run, 1, last - 1) \in Seq(Groups) /\ SubSeq(run, last, n) \in Seq(Groups)
      <4>1. \A i \in 1 .. last - 1 : i \in DOMAIN run
        BY <3>2
      <4>2. \A i \in last .. n : i \in DOMAIN run
        BY <3>2
      <4> QED BY <1>0, <3>2
    <3>4. X \in Nat
      <4>1. Concat(SubSeq(run, 1, last - 1)) \in Nat /\ Concat(SubSeq(run, last, n)) \in Nat
        BY <1>1, <3>3
      <4> QED BY <4>1
    <3> QED BY <1>1, <2>1, <2>2, <3>4
  <2>3. CASE P = {} /\ Shaped(run)
    <3>1. n > 1
      BY <2>3 DEF Shaped
    <3>2. Front(run) \in Seq(Groups)
      BY <1>0, <3>1 DEF Front
    <3>3. run[n] \in Groups
      BY <1>0, <3>1
    <3>4. run[n].v \in Nat /\ Concat(Front(run)) \in Nat
      BY <1>1, <3>2, <3>3 DEF Groups
    <3>5. Concat(Front(run)) * 100 + run[n].v \in Nat
      BY <3>4
    <3> QED BY <1>1, <2>1, <2>3, <3>5
  <2>4. CASE P = {} /\ ~Shaped(run)
    <3>1. Concat(run) * 100 \in Nat
      BY <1>1
    <3> QED BY <1>1, <2>1, <2>4, <3>1
  <2> QED BY <2>2, <2>3, <2>4
<1>3. CASE ~(Digits(run) >= 3)
  <2>1. Digits(run) \in Nat
    BY <1>1
  <2>2. Digits(run) < MinAmountDigits
    BY <1>3, <2>1 DEF MinAmountDigits
  <2>3. ~(Digits(run) >= MinAmountDigits)
    BY <1>3 DEF MinAmountDigits
  <2>4. RunToDecimal(run) = Unread
    BY <2>2, <2>3, Zenon DEF RunToDecimal
  <2> QED BY <2>1, <2>4
<1> QED BY <1>2, <1>3

\* A row with one figure has the amount the figure reads as.
LEMMA ParseIs ==
    /\ ParseAmount({}) = Unread
    /\ \A run \in Seq(Groups) :
         ParseAmount({run}) = IF RunToDecimal(run) \in {Unread, 0} THEN Unread ELSE RunToDecimal(run)
<1>1. ParseAmount({}) = Unread
  BY DEF ParseAmount
<1>2. ASSUME NEW run \in Seq(Groups)
      PROVE  ParseAmount({run}) = IF RunToDecimal(run) \in {Unread, 0} THEN Unread ELSE RunToDecimal(run)
  <2> DEFINE value == RunToDecimal(run)
             runs == {r \in {run} : RunToDecimal(r) \notin {Unread, 0}}
             longest == {r \in runs : \A s \in runs : Digits(s) <= Digits(r)}
  <2>1. ParseAmount({run}) =
          IF runs = {} THEN Unread
          ELSE RunToDecimal(CHOOSE r \in longest : \A s \in longest : RunToDecimal(s) <= RunToDecimal(r))
    BY Zenon DEF ParseAmount
  <2>2. value \in Nat \union {Unread} /\ Digits(run) \in Nat
    BY ReadingType
  <2>3. CASE value \in {Unread, 0}
    BY <2>1, <2>3
  <2>4. CASE value \notin {Unread, 0}
    <3>1. runs = {run}
      BY <2>4
    <3>2. Digits(run) <= Digits(run) /\ RunToDecimal(run) <= RunToDecimal(run)
      <4>1. value \in Nat
        BY <2>2, <2>4
      <4> HIDE DEF value
      <4>2. value <= value /\ Digits(run) <= Digits(run)
        BY <2>2, <4>1
      <4> QED BY <4>2 DEF value
    <3> HIDE DEF runs
    <3>3. longest = {run}
      BY <3>1, <3>2, Zenon
    <3> HIDE DEF longest
    <3>4. (CHOOSE r \in longest : \A s \in longest : RunToDecimal(s) <= RunToDecimal(r)) = run
      BY <3>2, <3>3, Zenon
    <3>5. runs # {}
      BY <3>1
    <3>6. ParseAmount({run}) = RunToDecimal(run)
      BY <2>1, <3>4, <3>5, Zenon
    <3> QED BY <2>4, <3>6
  <2> QED BY <2>3, <2>4
<1> QED BY <1>1, <1>2

-----------------------------------------------------------------------------
(* The sums below the items.                                                 *)

Sums == {13, 15, 17}
Sum(b, k) == IF k = 13 THEN 100 * b.subtotal ELSE IF k = 15 THEN Tax(b) ELSE Total(b)
PrintedSum(b, k) ==
    IF k = 13 THEN Thousands[b.subtotal] ELSE IF k = 15 THEN Printed(Tax(b)) ELSE Printed(Total(b))

\* What damage leaves of a printed sum to read.
ReadAs(printed) ==
    {RunToDecimal(printed), RunToDecimal(Tail(printed)),
     RunToDecimal(<<Group(Digits(printed), Concat(printed), "")>>)}

\* A photograph's damage.
IsPhoto(hurt) ==
    \A k \in DOMAIN hurt : hurt[k] \in {"lost", "garbled", "sunk", "spread", "glued", "cut"}

Legible(hurt, k) == k \notin DOMAIN hurt \/ hurt[k] \in {"spread", "sunk"}

\* The sums and their figures.
LEMMA PrintedSumIs ==
    ASSUME NEW b \in Bills, NEW k \in Sums
    PROVE  LET p == PrintedSum(b, k)
           IN  /\ p \in Seq(Groups) /\ Spread(p) \in Seq(Groups)
               /\ Glued(p) \in Seq(Groups) /\ Tail(p) \in Seq(Groups)
               /\ RunToDecimal(p) = Sum(b, k) /\ RunToDecimal(Spread(p)) = Sum(b, k)
               /\ Sum(b, k) \in Nat \ {0} /\ Layout(b)[k].runs = {p}
<1> DEFINE s == b.subtotal  p == PrintedSum(b, k)
<1>1. s \in Nat /\ s >= 100
  BY BillIs
<1>2. Tax(b) = s * 18 /\ Total(b) = s * 100 + Tax(b)
  BY DEF Tax, Total
<1> HIDE DEF s
<1>3. Tax(b) \in Nat \ {0} /\ Total(b) \in Nat \ {0} /\ 100 * s \in Nat \ {0}
  BY <1>1, <1>2
<1>4. p \in Seq(Groups) /\ p # <<>>
  <2>1. \A m \in Nat : Thousands[m] \in Seq(Groups) /\ Len(Thousands[m]) >= 1
    BY ThousandsAre DEF Rupees
  <2>2. ASSUME NEW m \in Nat PROVE Printed(m) \in Seq(Groups) /\ Len(Printed(m)) >= 1
    <3> DEFINE t == Thousands[m \div 100]  w == m % 100  g == Group(2, w, ".")
    <3>1. m \div 100 \in Nat /\ w \in Nat
      OBVIOUS
    <3>2. t \in Seq(Groups) /\ Len(t) >= 1
      BY <2>1, <3>1
    <3>3. g \in Groups
      <4> HIDE DEF w
      <4> QED BY <3>1 DEF Group, Groups, Marks
    <3>4. Printed(m) = Append(t, g)
      BY Zenon DEF Printed
    <3> HIDE DEF t, g
    <3>5. Append(t, g) \in Seq(Groups) /\ Len(Append(t, g)) = Len(t) + 1 /\ Len(t) \in Nat
      BY <3>2, <3>3
    <3> QED BY <3>4, <3>5
  <2>3. p \in {Thousands[s], Printed(Tax(b)), Printed(Total(b))}
    BY DEF PrintedSum, s
  <2>4. p \in Seq(Groups) /\ Len(p) >= 1
    BY <1>1, <1>3, <2>1, <2>2, <2>3
  <2> HIDE DEF p
  <2>5. p # <<>>
    <3> SUFFICES ASSUME p = <<>> PROVE FALSE
      OBVIOUS
    <3>1. Len(p) = 0
      OBVIOUS
    <3> QED BY <2>4, <3>1
  <2> QED BY <2>4, <2>5
<1>5. /\ Spread(p) \in Seq(Groups) /\ Glued(p) \in Seq(Groups) /\ Tail(p) \in Seq(Groups)
  <2> HIDE DEF p
  <2> QED BY <1>4, SpreadIs, FiguresStay
<1>6. RunToDecimal(p) = Sum(b, k) /\ RunToDecimal(Spread(p)) = Sum(b, k)
  <2>1. /\ RunToDecimal(Thousands[s]) = 100 * s /\ RunToDecimal(Spread(Thousands[s])) = 100 * s
    BY <1>1, SumsRead
  <2>2. /\ RunToDecimal(Printed(Tax(b))) = Tax(b) /\ RunToDecimal(Spread(Printed(Tax(b)))) = Tax(b)
        /\ RunToDecimal(Printed(Total(b))) = Total(b) /\ RunToDecimal(Spread(Printed(Total(b)))) = Total(b)
    BY <1>3, SumsRead
  <2>3. CASE k = 13
    BY <2>1, <2>3 DEF PrintedSum, Sum, s
  <2>4. CASE k = 15
    <3>1. p = Printed(Tax(b)) /\ Sum(b, k) = Tax(b)
      BY <2>4 DEF PrintedSum, Sum
    <3> QED BY <2>2, <3>1
  <2>5. CASE k = 17
    <3>1. p = Printed(Total(b)) /\ Sum(b, k) = Total(b)
      BY <2>5 DEF PrintedSum, Sum
    <3> QED BY <2>2, <3>1
  <2> QED BY <2>3, <2>4, <2>5 DEF Sums
<1>7. Sum(b, k) \in Nat \ {0}
  BY <1>3 DEF Sum, s
<1>8. Layout(b)[k].runs = {p}
  <2>1. /\ Layout(b)[13].runs = {Thousands[b.subtotal]} /\ Layout(b)[15].runs = {Printed(Tax(b))}
        /\ Layout(b)[17].runs = {Printed(Total(b))}
    BY LayoutRuns
  <2>2. CASE k = 13
    BY <2>1, <2>2 DEF PrintedSum
  <2>3. CASE k = 15
    <3>1. p = Printed(Tax(b))
      BY <2>3 DEF PrintedSum
    <3> QED BY <2>1, <2>3, <3>1
  <2>4. CASE k = 17
    <3>1. p = Printed(Total(b))
      BY <2>4 DEF PrintedSum
    <3> QED BY <2>1, <2>4, <3>1
  <2> QED BY <2>2, <2>3, <2>4 DEF Sums
<1> QED BY <1>4, <1>5, <1>6, <1>7, <1>8

\* Most regions have no digits, damaged or not.
LEMMA SilentIs ==
    ASSUME NEW b, NEW hurt, IsPhoto(hurt), NEW k \in 1 .. 18, Layout(b)[k].runs = {}
    PROVE  Look(b, hurt, k).runs = {}
<1>1. CASE k \in DOMAIN hurt
  <2>1. hurt[k] \in {"lost", "garbled", "sunk", "spread", "glued", "cut"}
    BY <1>1 DEF IsPhoto
  <2>2. CASE hurt[k] \in {"lost", "sunk"}
    BY <2>2, LookIs
  <2>3. CASE hurt[k] = "garbled"
    BY <1>1, <2>3, LookIs
  <2>4. CASE hurt[k] = "spread"
    <3>1. Look(b, hurt, k).runs = {Spread(digits) : digits \in Layout(b)[k].runs}
      BY <1>1, <2>4, LookIs
    <3> QED BY <3>1
  <2>5. CASE hurt[k] = "glued"
    <3>1. Look(b, hurt, k).runs = {Glued(digits) : digits \in Layout(b)[k].runs}
      BY <1>1, <2>5, LookIs
    <3> QED BY <3>1
  <2>6. CASE hurt[k] = "cut"
    <3>1. Look(b, hurt, k).runs = {Tail(digits) : digits \in Layout(b)[k].runs}
      BY <1>1, <2>6, LookIs
    <3> QED BY <3>1
  <2> QED BY <2>1, <2>2, <2>3, <2>4, <2>5, <2>6
<1>2. CASE k \notin DOMAIN hurt
  BY <1>2, LookIs
<1> QED BY <1>1, <1>2

\* What is read of a printed sum.
LEMMA FigureIs ==
    ASSUME NEW b \in Bills, NEW hurt, IsPhoto(hurt), NEW k \in Sums
    PROVE  LET runs == Look(b, hurt, k).runs
           IN  /\ runs = {} \/ \E run \in Seq(Groups) : runs = {run} /\ RunToDecimal(run) \in ReadAs(PrintedSum(b, k))
               /\ Legible(hurt, k) => \E run \in Seq(Groups) : runs = {run} /\ RunToDecimal(run) = Sum(b, k)
<1> DEFINE p == PrintedSum(b, k)  runs == Look(b, hurt, k).runs
<1>1. /\ p \in Seq(Groups) /\ Spread(p) \in Seq(Groups) /\ Glued(p) \in Seq(Groups) /\ Tail(p) \in Seq(Groups)
      /\ RunToDecimal(p) = Sum(b, k) /\ RunToDecimal(Spread(p)) = Sum(b, k) /\ Layout(b)[k].runs = {p}
  BY PrintedSumIs
<1>2. k \in 1 .. 18
  BY DEF Sums
<1>3. ReadAs(p) = {RunToDecimal(p), RunToDecimal(Tail(p)), RunToDecimal(Glued(p))}
  BY Zenon DEF ReadAs, Glued
<1> HIDE DEF p
<1>4. CASE k \notin DOMAIN hurt \/ hurt[k] \in {"lost", "sunk"}
  <2>1. runs = {p}
    BY <1>1, <1>2, <1>4, LookIs
  <2> QED BY <1>1, <1>3, <2>1 DEF p
<1>5. CASE k \in DOMAIN hurt /\ hurt[k] = "garbled"
  <2>1. runs = {}
    BY <1>2, <1>5, LookIs
  <2>2. ~Legible(hurt, k)
    BY <1>5 DEF Legible
  <2> QED BY <2>1, <2>2
<1>6. CASE k \in DOMAIN hurt /\ hurt[k] = "spread"
  <2>1. runs = {Spread(digits) : digits \in Layout(b)[k].runs}
    BY <1>2, <1>6, LookIs
  <2>2. runs = {Spread(p)}
    BY <1>1, <2>1
  <2> QED BY <1>1, <1>3, <2>2 DEF p
<1>7. CASE k \in DOMAIN hurt /\ hurt[k] = "glued"
  <2>1. runs = {Glued(digits) : digits \in Layout(b)[k].runs}
    BY <1>2, <1>7, LookIs
  <2>2. runs = {Glued(p)} /\ ~Legible(hurt, k)
    BY <1>1, <1>7, <2>1 DEF Legible
  <2> QED BY <1>1, <1>3, <2>2 DEF p
<1>8. CASE k \in DOMAIN hurt /\ hurt[k] = "cut"
  <2>1. runs = {Tail(digits) : digits \in Layout(b)[k].runs}
    BY <1>2, <1>8, LookIs
  <2>2. runs = {Tail(p)} /\ ~Legible(hurt, k)
    BY <1>1, <1>8, <2>1 DEF Legible
  <2> QED BY <1>1, <1>3, <2>2 DEF p
<1>9. k \in DOMAIN hurt => hurt[k] \in {"lost", "garbled", "sunk", "spread", "glued", "cut"}
  BY DEF IsPhoto
<1> QED BY <1>4, <1>5, <1>6, <1>7, <1>8, <1>9

\* Below the items a row has at most one sum.
LEMMA OneSum ==
    ASSUME NEW b, NEW hurt, NEW t, NEW k \in Sums \cap InRow(b, hurt, t), NEW l \in Sums \cap InRow(b, hurt, t)
    PROVE  k = l
<1> DEFINE L(j) == Layout(b)[j].line
           S(j) == IF j \in DOMAIN hurt /\ hurt[j] = "sunk" THEN 20 ELSE 0
<1>1. L(13) = 8 /\ L(15) = 9 /\ L(17) = 10
  BY LayoutLines
<1>2. t = 40 * L(k) + S(k) /\ t = 40 * L(l) + S(l)
  BY InRowIs
<1>3. S(k) \in {0, 20} /\ S(l) \in {0, 20}
  OBVIOUS
<1>4. k \in {13, 15, 17} /\ l \in {13, 15, 17}
  BY DEF Sums
<1> HIDE DEF L, S
<1>5. L(k) = (IF k = 13 THEN 8 ELSE IF k = 15 THEN 9 ELSE 10)
  BY <1>1, <1>4
<1>6. L(l) = (IF l = 13 THEN 8 ELSE IF l = 15 THEN 9 ELSE 10)
  BY <1>1, <1>4
<1> QED BY <1>2, <1>3, <1>4, <1>5, <1>6

\* The amount of a row below the items is that of its sum.
LEMMA AmountIs ==
    ASSUME NEW b \in Bills, NEW hurt, IsPhoto(hurt), NEW t, t >= 320
    PROVE  LET amount == RowAt(b, hurt, t).amount
               sums == Sums \cap InRow(b, hurt, t)
           IN  /\ amount # Unread => \E k \in sums : amount \in ReadAs(PrintedSum(b, k))
               /\ \A k \in sums : Legible(hurt, k) => amount = Sum(b, k)
<1> DEFINE K == InRow(b, hurt, t)
           amount == RowAt(b, hurt, t).amount
           sums == Sums \cap K
<1>1. amount = ParseAmount(Runs(b, hurt, K))
  BY RowIs
<1>2. ASSUME NEW k \in K PROVE k \in 1 .. 18 /\ k >= 12
  <2>1. k \in 1 .. 18 /\ Layout(b)[k].line \in 1 .. 11
        /\ t = 40 * Layout(b)[k].line + (IF k \in DOMAIN hurt /\ hurt[k] = "sunk" THEN 20 ELSE 0)
    BY InRowIs
  <2>2. Layout(b)[k].line >= 8
    BY <2>1
  <2>3. k >= 12
    BY <2>1, <2>2, OnLine
  <2> QED BY <2>1, <2>3
<1>3. ASSUME NEW k \in K, k \notin Sums PROVE Look(b, hurt, k).runs = {}
  <2>1. k \in 1 .. 18 /\ k \in {12, 14, 16, 18}
    BY <1>2, <1>3 DEF Sums
  <2>2. Layout(b)[12].runs = {} /\ Layout(b)[14].runs = {} /\ Layout(b)[16].runs = {} /\ Layout(b)[18].runs = {}
    BY LayoutRuns
  <2>3. Layout(b)[k].runs = {}
    BY <2>1, <2>2
  <2> QED BY <2>1, <2>3, SilentIs
<1> HIDE DEF K, amount
<1>4. CASE sums = {}
  <2>1. \A k \in K : Look(b, hurt, k).runs = {}
    BY <1>3, <1>4
  <2>2. Runs(b, hurt, K) = {}
    BY <2>1 DEF Runs
  <2>3. amount = Unread
    BY <1>1, <2>2, ParseIs
  <2> QED BY <1>4, <2>3 DEF amount, K
<1>5. ASSUME NEW k \in sums
      PROVE  /\ amount # Unread => amount \in ReadAs(PrintedSum(b, k))
             /\ Legible(hurt, k) => amount = Sum(b, k)
  <2>1. \A l \in K : l # k => Look(b, hurt, l).runs = {}
    <3> SUFFICES ASSUME NEW l \in K, l # k PROVE Look(b, hurt, l).runs = {}
      OBVIOUS
    <3>1. l \notin Sums
      BY OneSum DEF K
    <3> QED BY <1>3, <3>1
  <2>2. Runs(b, hurt, K) = Look(b, hurt, k).runs
    BY <2>1 DEF Runs
  <2>3. k \in Sums
    OBVIOUS
  <2> DEFINE runs == Look(b, hurt, k).runs
  <2>4. /\ runs = {} \/ \E run \in Seq(Groups) : runs = {run} /\ RunToDecimal(run) \in ReadAs(PrintedSum(b, k))
        /\ Legible(hurt, k) => \E run \in Seq(Groups) : runs = {run} /\ RunToDecimal(run) = Sum(b, k)
    BY <2>3, FigureIs
  <2>5. amount = ParseAmount(runs)
    BY <1>1, <2>2
  <2> HIDE DEF runs, sums
  <2>6. ASSUME amount # Unread PROVE amount \in ReadAs(PrintedSum(b, k))
    <3>1. runs # {}
      BY <2>5, <2>6, ParseIs
    <3>2. PICK run \in Seq(Groups) : runs = {run} /\ RunToDecimal(run) \in ReadAs(PrintedSum(b, k))
      BY <2>4, <3>1
    <3>3. amount \in {Unread, RunToDecimal(run)}
      BY <2>5, <3>2, ParseIs
    <3> QED BY <2>6, <3>2, <3>3
  <2>7. ASSUME Legible(hurt, k) PROVE amount = Sum(b, k)
    <3>1. PICK run \in Seq(Groups) : runs = {run} /\ RunToDecimal(run) = Sum(b, k)
      BY <2>4, <2>7
    <3>2. Sum(b, k) \in Nat \ {0}
      BY <2>3, PrintedSumIs
    <3>3. Unread \notin Int
      BY ReceiptAssumption
    <3>4. Sum(b, k) \notin {Unread, 0}
      BY <3>2, <3>3
    <3> QED BY <2>5, <3>1, <3>4, ParseIs
  <2> QED BY <2>6, <2>7
<1>6. CASE sums # {}
  <2>1. PICK k \in sums : TRUE
    BY <1>6
  <2>2. amount # Unread => \E j \in sums : amount \in ReadAs(PrintedSum(b, j))
    BY <1>5, <2>1
  <2>3. \A j \in sums : Legible(hurt, j) => amount = Sum(b, j)
    BY <1>5
  <2> QED BY <2>2, <2>3 DEF amount, K
<1> QED BY <1>4, <1>6

-----------------------------------------------------------------------------
(* The total.                                                                *)

\* The total is read from a label of the highest rank among those that lead to an amount.
LEMMA TotalRowIs ==
    ASSUME NEW rows, NEW n \in Nat, DOMAIN rows = 1 .. n
    PROVE  LET from == {i \in Saying(rows, "total") : ValueAfter(i, Amounts(rows)) # 0}
           IN  /\ from = {} => TotalRow(rows) = 0
               /\ from # {} => \E i \in from : /\ TotalRow(rows) = ValueAfter(i, Amounts(rows))
                                               /\ \A k \in from : TotalRank(rows, i) >= TotalRank(rows, k)
<1> DEFINE from == {i \in Saying(rows, "total") : ValueAfter(i, Amounts(rows)) # 0}
           R(i) == TotalRank(rows, i)
           better(i, k) == \/ TotalRank(rows, i) > TotalRank(rows, k)
                           \/ TotalRank(rows, i) = TotalRank(rows, k) /\ i <= k
           best == CHOOSE i \in from : \A k \in from : better(i, k)
<1>1. TotalRow(rows) = IF from = {} THEN 0 ELSE ValueAfter(best, Amounts(rows))
  BY Zenon DEF TotalRow
<1>2. \A i : R(i) \in Int
  BY DEF TotalRank
<1>3. from \in SUBSET (1 .. n)
  BY DEF Saying
<1> HIDE DEF from, R
<1>4. ASSUME from # {} PROVE \E i \in from : \A k \in from : R(i) > R(k) \/ (R(i) = R(k) /\ i <= k)
  <2>1. IsFiniteSet(from)
    <3>1. IsFiniteSet(1 .. n)
      <4>1. 1 \in Int /\ n \in Int
        OBVIOUS
      <4> QED BY <4>1, FS_Interval
    <3> QED BY <1>3, <3>1, FS_Subset
  <2> DEFINE f == [i \in from |-> R(i)]
  <2>2. \A i \in from : f[i] = R(i)
    OBVIOUS
  <2> HIDE DEF f
  <2>3. \A i \in from : f[i] \in Int
    BY <1>2, <2>2
  <2>4. PICK x \in from : \A y \in from : f[y] <= f[x]
    BY <1>4, <2>1, <2>3, LargestValue
  <2> DEFINE top == {i \in from : R(i) = R(x)}
  <2>5. top \in SUBSET Nat /\ top # {}
    <3>1. x \in top
      OBVIOUS
    <3>2. \A i \in top : i \in 1 .. n
      BY <1>3
    <3> HIDE DEF top
    <3> QED BY <3>1, <3>2
  <2>6. \E i \in top : \A j \in top : i <= j
    <3> HIDE DEF top
    <3> QED BY <2>5, LeastNatural
  <2>7. PICK i \in top : \A j \in top : i <= j
    BY <2>6
  <2>8. i \in from /\ R(i) = R(x)
    OBVIOUS
  <2>9. \A k \in from : R(k) <= R(i)
    BY <2>2, <2>4, <2>8
  <2>10. \A k \in from : R(i) = R(k) => i <= k
    BY <2>7, <2>8
  <2>11. \A k \in from : R(i) > R(k) \/ (R(i) = R(k) /\ i <= k)
    BY <1>2, <2>9, <2>10
  <2> QED BY <2>8, <2>11
<1>5. ASSUME from # {}
      PROVE  best \in from /\ \A k \in from : R(best) > R(k) \/ (R(best) = R(k) /\ best <= k)
  BY <1>4, <1>5, Zenon DEF R
<1> HIDE DEF best
<1>6. ASSUME from # {} PROVE best \in from /\ \A k \in from : R(best) >= R(k)
  BY <1>2, <1>5, <1>6
<1>7. from # {} => \E i \in from : TotalRow(rows) = ValueAfter(i, Amounts(rows)) /\ \A k \in from : R(i) >= R(k)
  BY <1>1, <1>6
<1> QED BY <1>1, <1>7 DEF from, R

\* Which regions say what.
LEMMA SaysAre ==
    ASSUME NEW b, NEW k \in 1 .. 18
    PROVE  LET says == Layout(b)[k].says
           IN  /\ "total" \in says <=> k \in {12, 16}
               /\ "sub" \in says <=> k = 12
               /\ "inr" \in says <=> k = 17
               /\ "registration" \in says <=> k = 8
               /\ "gstin" \in says <=> k = 7
               /\ "tax" \in says <=> k = 2
<1> DEFINE S(j) == Layout(b)[j].says
<1>1. /\ S(1) = {} /\ S(2) = {"tax", "invoice"} /\ S(3) = {"invoice"} /\ S(4) = {"invoice"}
      /\ S(5) = {"date"} /\ S(6) = {} /\ S(7) = {"gst", "gstin"} /\ S(8) = {"registration"} /\ S(9) = {}
  BY LayoutSays
<1>2. /\ S(10) = {} /\ S(11) = {} /\ S(12) = {"total", "sub"} /\ S(13) = {} /\ S(14) = {"gst"}
      /\ S(15) = {} /\ S(16) = {"total"} /\ S(17) = {"inr"} /\ S(18) = {"invoice", "date"}
  BY LayoutSays
<1> HIDE DEF S
<1>3. k \in 1 .. 9 \/ k \in 10 .. 18
  OBVIOUS
<1>4. CASE k \in 1 .. 9
  <2>1. "total" \notin S(k) /\ "sub" \notin S(k) /\ "inr" \notin S(k)
    BY <1>1, <1>4
  <2>2. "registration" \in S(k) <=> k = 8
    BY <1>1, <1>4
  <2>3. "gstin" \in S(k) <=> k = 7
    BY <1>1, <1>4
  <2>4. "tax" \in S(k) <=> k = 2
    BY <1>1, <1>4
  <2> QED BY <1>4, <2>1, <2>2, <2>3, <2>4 DEF S
<1>5. CASE k \in 10 .. 18
  <2>1. "registration" \notin S(k) /\ "gstin" \notin S(k) /\ "tax" \notin S(k)
    BY <1>2, <1>5
  <2>2. "total" \in S(k) <=> k \in {12, 16}
    BY <1>2, <1>5
  <2>3. "sub" \in S(k) <=> k = 12
    BY <1>2, <1>5
  <2>4. "inr" \in S(k) <=> k = 17
    BY <1>2, <1>5
  <2> QED BY <1>5, <2>1, <2>2, <2>3, <2>4 DEF S
<1> QED BY <1>3, <1>4, <1>5

\* A row says what one of its regions does, and what a region not misread does.
LEMMA RowSays ==
    ASSUME NEW b, NEW hurt, NEW t, NEW w
    PROVE  LET says == RowAt(b, hurt, t).says
           IN  /\ w \in says => \E k \in InRow(b, hurt, t) : /\ w \in Layout(b)[k].says
                                                             /\ Look(b, hurt, k).says = Layout(b)[k].says
               /\ \A k \in InRow(b, hurt, t) :
                    w \in Layout(b)[k].says /\ Look(b, hurt, k).says = Layout(b)[k].says => w \in says
               /\ \A k \in InRow(b, hurt, t) :
                    Legible(hurt, k) => Look(b, hurt, k).says = Layout(b)[k].says
<1> DEFINE K == InRow(b, hurt, t)
<1>1. RowAt(b, hurt, t).says = UNION {Look(b, hurt, k).says : k \in K}
  BY RowIs DEF Words
<1>2. \A k \in K : k \in 1 .. 18
  BY InRowIs
<1>3. \A k \in 1 .. 18 : Look(b, hurt, k).says \in {Layout(b)[k].says, {}}
  BY LookIs
<1>4. ASSUME NEW k \in K, Legible(hurt, k) PROVE Look(b, hurt, k).says = Layout(b)[k].says
  <2>1. k \notin DOMAIN hurt \/ hurt[k] # "garbled"
    BY <1>4 DEF Legible
  <2> QED BY <1>2, <2>1, LookIs
<1> HIDE DEF K
<1>5. ASSUME w \in RowAt(b, hurt, t).says
      PROVE  \E k \in K : w \in Layout(b)[k].says /\ Look(b, hurt, k).says = Layout(b)[k].says
  <2>1. PICK k \in K : w \in Look(b, hurt, k).says
    BY <1>1, <1>5
  <2>2. Look(b, hurt, k).says \in {Layout(b)[k].says, {}}
    BY <1>2, <1>3
  <2>3. Look(b, hurt, k).says = Layout(b)[k].says
    BY <2>1, <2>2
  <2> QED BY <2>1, <2>3
<1>6. \A k \in K : w \in Layout(b)[k].says /\ Look(b, hurt, k).says = Layout(b)[k].says
                     => w \in RowAt(b, hurt, t).says
  BY <1>1
<1> QED BY <1>4, <1>5, <1>6 DEF K

\* Heights with none between are those of two rows one after the other.
LEMMA NextIs ==
    ASSUME NEW b, NEW hurt, NEW t \in Heights(b, hurt), NEW u \in Heights(b, hurt), t < u,
           \A x \in Heights(b, hurt) : ~(t < x /\ x < u)
    PROVE  Place(b, hurt, u) = Place(b, hurt, t) + 1
<1> DEFINE n == Cardinality(Heights(b, hurt))
           P(x) == Place(b, hurt, x)
<1>1. /\ n \in Nat
      /\ \A i \in 1 .. n : \E x \in Heights(b, hurt) : i = P(x)
      /\ \A x \in Heights(b, hurt) : P(x) \in 1 .. n
      /\ \A x, y \in Heights(b, hurt) : x < y <=> P(x) < P(y)
  BY RowsAre
<1>2. t \in Nat /\ u \in Nat /\ Heights(b, hurt) \in SUBSET Nat
  BY TopsAre
<1> HIDE DEF n, P
<1>4. P(t) \in 1 .. n /\ P(u) \in 1 .. n /\ P(t) < P(u)
  BY <1>1
<1>5. P(t) + 1 \in 1 .. n
  BY <1>1, <1>4
<1>6. PICK x \in Heights(b, hurt) : P(t) + 1 = P(x)
  BY <1>1, <1>5
<1>7. P(t) < P(x) /\ ~(P(u) < P(x))
  BY <1>1, <1>4, <1>6
<1>8. t < x /\ ~(u < x)
  BY <1>1, <1>7
<1>9. x = u
  <2>1. x \in Nat /\ ~(x < u)
    BY <1>2, <1>8
  <2> QED BY <1>2, <1>8, <2>1
<1> QED BY <1>6, <1>9 DEF P

\* A region half a line below another's line is in the next row.
LEMMA HalfALineIs ==
    ASSUME NEW b, NEW hurt, NEW t \in Heights(b, hurt), NEW u \in Heights(b, hurt), u = t + 20
    PROVE  Place(b, hurt, u) = Place(b, hurt, t) + 1
<1>2. ASSUME NEW x \in Heights(b, hurt) PROVE \E m \in Nat : x = 20 * m
  <2>1. PICK k \in SeenOf(b, hurt) : x = HeightOf(b, hurt, k)
    BY DEF Heights
  <2>2. k \in 1 .. 18
    BY AtIs
  <2>3. Layout(b)[k].line \in 1 .. 11
        /\ x = 40 * Layout(b)[k].line + (IF k \in DOMAIN hurt /\ hurt[k] = "sunk" THEN 20 ELSE 0)
    BY <2>1, <2>2, HeightIs
  <2> DEFINE l == Layout(b)[k].line
  <2>4. l \in Nat /\ (x = 20 * (2 * l) \/ x = 20 * (2 * l + 1))
    BY <2>3
  <2> HIDE DEF l
  <2>5. 2 * l \in Nat /\ 2 * l + 1 \in Nat
    BY <2>4
  <2> QED BY <2>4, <2>5
<1>3. PICK m \in Nat : t = 20 * m
  BY <1>2
<1>4. t < u
  BY <1>3
<1>5. ASSUME NEW x \in Heights(b, hurt) PROVE ~(t < x /\ x < u)
  <2>1. PICK l \in Nat : x = 20 * l
    BY <1>2
  <2> QED BY <2>1, <1>3
<1> QED BY <1>4, <1>5, NextIs

\* Where the labels and sums below the items stand.
LEMMA SumHeights ==
    ASSUME NEW b, NEW hurt, NEW t, NEW k \in InRow(b, hurt, t)
    PROVE  /\ k \in {12, 13} => t \in {320, 340}
           /\ k = 15 => t \in {360, 380}
           /\ k \in {16, 17} => t \in {400, 420}
           /\ k \in {12, 13, 16, 17} /\ (k \notin DOMAIN hurt \/ hurt[k] # "sunk") => t \in {320, 400}
           /\ k = 17 /\ k \in DOMAIN hurt /\ hurt[k] = "sunk" => t = 420
<1> DEFINE L(j) == Layout(b)[j].line
           S == IF k \in DOMAIN hurt /\ hurt[k] = "sunk" THEN 20 ELSE 0
<1>1. L(12) = 8 /\ L(13) = 8 /\ L(15) = 9 /\ L(16) = 10 /\ L(17) = 10
  BY LayoutLines
<1>2. t = 40 * L(k) + S
  BY InRowIs
<1>3. S \in {0, 20} /\ (k \notin DOMAIN hurt \/ hurt[k] # "sunk" => S = 0)
      /\ (k \in DOMAIN hurt /\ hurt[k] = "sunk" => S = 20)
  OBVIOUS
<1> HIDE DEF L, S
<1>4. CASE k \in {12, 13}
  <2>1. L(k) = 8
    BY <1>1, <1>4
  <2> QED BY <1>2, <1>3, <1>4, <2>1
<1>5. CASE k = 15
  <2>1. L(k) = 9
    BY <1>1, <1>5
  <2> QED BY <1>2, <1>3, <1>5, <2>1
<1>6. CASE k \in {16, 17}
  <2>1. L(k) = 10
    BY <1>1, <1>6
  <2> QED BY <1>2, <1>3, <1>6, <2>1
<1> QED BY <1>4, <1>5, <1>6

\* The rows that say "total", those with an amount, and the labels a total is read by.
TotalLabels(rows) == {i \in Saying(rows, "total") : ValueAfter(i, Amounts(rows)) # 0}

\* A row that says "total" is one of the two labels', and has its rank.
LEMMA TotalLabelIs ==
    ASSUME NEW b, NEW hurt, NEW t, "total" \in RowAt(b, hurt, t).says
    PROVE  /\ t \in {320, 340, 400, 420}
           /\ 16 \in InRow(b, hurt, t) \/ "sub" \in RowAt(b, hurt, t).says
           /\ t \in {320, 340} => "inr" \notin RowAt(b, hurt, t).says
<1>1. PICK k \in InRow(b, hurt, t) : "total" \in Layout(b)[k].says /\ Look(b, hurt, k).says = Layout(b)[k].says
  BY RowSays
<1>2. k \in 1 .. 18
  BY InRowIs
<1>3. k \in {12, 16}
  BY <1>1, <1>2, SaysAre
<1>4. t \in {320, 340, 400, 420}
  BY <1>3, SumHeights
<1>5. k = 12 => "sub" \in RowAt(b, hurt, t).says
  <2> SUFFICES ASSUME k = 12 PROVE "sub" \in RowAt(b, hurt, t).says
    OBVIOUS
  <2>1. "sub" \in Layout(b)[k].says
    BY <1>2, SaysAre
  <2> QED BY <1>1, <2>1, RowSays
<1>6. ASSUME "inr" \in RowAt(b, hurt, t).says PROVE t \notin {320, 340}
  <2>1. PICK l \in InRow(b, hurt, t) : "inr" \in Layout(b)[l].says
    BY <1>6, RowSays
  <2>2. l \in 1 .. 18
    BY InRowIs
  <2>3. l = 17
    BY <2>1, <2>2, SaysAre
  <2> QED BY <2>3, SumHeights
<1> QED BY <1>3, <1>4, <1>5, <1>6

\* What ranks are.
LEMMA RankIs ==
    ASSUME NEW rows, NEW i
    PROVE  LET sub == "sub" \in rows[i].says
               inr == "inr" \in rows[i].says
               next == i < Len(rows) /\ "inr" \in rows[i + 1].says
           IN  /\ TotalRank(rows, i) \in Int
               /\ sub /\ ~inr => TotalRank(rows, i) <= 9
               /\ ~sub /\ (inr \/ next) => TotalRank(rows, i) >= 15
<1> DEFINE sub == "sub" \in rows[i].says
           inr == "inr" \in rows[i].says
           next == i < Len(rows) /\ "inr" \in rows[i + 1].says
<1>1. TotalRank(rows, i) = 10 - (IF sub THEN 6 ELSE 0) + (IF inr THEN 5 ELSE 0) + (IF next THEN 5 ELSE 0)
  BY Zenon DEF TotalRank
<1> HIDE DEF sub, inr, next
<1>2. /\ TotalRank(rows, i) \in Int
      /\ sub /\ ~inr => TotalRank(rows, i) <= 9
      /\ ~sub /\ (inr \/ next) => TotalRank(rows, i) >= 15
  BY <1>1
<1> QED BY <1>2 DEF sub, inr, next

\* Whatever total a record has is read from one of the printed sums.
LEMMA TotalIsASum ==
    ASSUME NEW b \in Bills, NEW hurt, IsPhoto(hurt)
    PROVE  LET rows == Rows(b, hurt)
               f == Extract(rows)
           IN  /\ f.total # Unread => \E k \in Sums : f.total \in ReadAs(PrintedSum(b, k))
               /\ f.total = Unread => TotalLabels(rows) = {}
               /\ TotalLabels(rows) # {} =>
                    \E i \in TotalLabels(rows) :
                        /\ \A k \in TotalLabels(rows) : TotalRank(rows, i) >= TotalRank(rows, k)
                        /\ f.total = rows[ValueAfter(i, Amounts(rows))].amount
<1> DEFINE rows == Rows(b, hurt)
           n == Cardinality(Heights(b, hurt))
           f == Extract(rows)
           P(x) == Place(b, hurt, x)
           hold == Amounts(rows)
           from == TotalLabels(rows)
<1>1. /\ n \in Nat /\ DOMAIN rows = 1 .. n
      /\ \A i \in 1 .. n : \E t \in Heights(b, hurt) : i = P(t) /\ rows[i] = RowAt(b, hurt, t)
      /\ \A t, u \in Heights(b, hurt) : t < u <=> P(t) < P(u)
  BY RowsAre
<1>2. f.total = IF TotalRow(rows) = 0 THEN Unread ELSE rows[TotalRow(rows)].amount
  BY DEF Extract
<1>3. \A i : i \in hold <=> i \in 1 .. n /\ rows[i].amount # Unread
  BY <1>1 DEF Amounts
<1>4. from = {} => TotalRow(rows) = 0
  BY <1>1, TotalRowIs DEF TotalLabels
<1>5. from # {} => \E i \in from : /\ TotalRow(rows) = ValueAfter(i, hold)
                                   /\ \A k \in from : TotalRank(rows, i) >= TotalRank(rows, k)
  BY <1>1, TotalRowIs DEF TotalLabels
<1>6. \A i : i \in from <=> i \in 1 .. n /\ "total" \in rows[i].says /\ ValueAfter(i, hold) # 0
  BY <1>1 DEF TotalLabels, Saying
<1> HIDE DEF rows, n, f, hold, from, P
<1>7. hold \in SUBSET (Nat \ {0})
  <2>1. \A i \in hold : i \in 1 .. n
    BY <1>3
  <2> QED BY <1>1, <2>1
<1>8. ASSUME from # {}
      PROVE  /\ f.total # Unread /\ \E k \in Sums : f.total \in ReadAs(PrintedSum(b, k))
             /\ \E i \in from : /\ \A k \in from : TotalRank(rows, i) >= TotalRank(rows, k)
                                /\ f.total = rows[ValueAfter(i, hold)].amount
  <2>1. PICK i \in from : /\ TotalRow(rows) = ValueAfter(i, hold)
                          /\ \A k \in from : TotalRank(rows, i) >= TotalRank(rows, k)
    BY <1>5, <1>8
  <2>2. i \in 1 .. n /\ "total" \in rows[i].says /\ ValueAfter(i, hold) # 0
    BY <1>6
  <2> DEFINE j == ValueAfter(i, hold)
  <2>3. j \in hold /\ j >= i
    <3>1. i \in Nat
      BY <1>1, <2>2
    <3>2. IF (i .. i + 3) \cap hold = {} THEN ValueAfter(i, hold) = 0
          ELSE ValueAfter(i, hold) \in hold /\ ValueAfter(i, hold) \in i .. i + 3
      BY <1>7, <3>1, ValueAfterIs
    <3>3. j \in hold /\ j \in i .. i + 3
      BY <2>2, <3>2
    <3> HIDE DEF j
    <3> QED BY <3>1, <3>3
  <2>4. j \in 1 .. n /\ rows[j].amount # Unread /\ j # 0
    BY <1>1, <1>3, <2>3
  <2> HIDE DEF j
  <2>5. f.total = rows[j].amount
    BY <1>2, <2>1, <2>4 DEF j
  <2>6. PICK t \in Heights(b, hurt) : i = P(t) /\ rows[i] = RowAt(b, hurt, t)
    BY <1>1, <2>2
  <2>7. PICK u \in Heights(b, hurt) : j = P(u) /\ rows[j] = RowAt(b, hurt, u)
    BY <1>1, <2>4
  <2>8. t >= 320
    <3>1. "total" \in RowAt(b, hurt, t).says
      BY <2>2, <2>6
    <3>2. t \in {320, 340, 400, 420}
      BY <3>1, TotalLabelIs
    <3> QED BY <3>2
  <2>9. u >= 320
    <3>1. i \in 1 .. n /\ j \in 1 .. n /\ ~(j < i)
      BY <1>1, <2>2, <2>3, <2>4
    <3>2. ~(u < t)
      BY <1>1, <2>6, <2>7, <3>1
    <3>3. u \in Nat /\ t \in Nat
      BY TopsAre
    <3> QED BY <2>8, <3>2, <3>3
  <2>10. \E k \in Sums \cap InRow(b, hurt, u) : RowAt(b, hurt, u).amount \in ReadAs(PrintedSum(b, k))
    <3>1. RowAt(b, hurt, u).amount # Unread
      BY <2>4, <2>7
    <3> QED BY <2>9, <3>1, AmountIs
  <2>11. \E k \in Sums : f.total \in ReadAs(PrintedSum(b, k))
    BY <2>5, <2>7, <2>10
  <2>12. f.total # Unread
    BY <2>4, <2>5
  <2> QED BY <2>1, <2>5, <2>11, <2>12 DEF j
<1>9. CASE from = {}
  <2>1. f.total = Unread
    BY <1>2, <1>4, <1>9
  <2> QED BY <1>9, <2>1 DEF f, from, rows
<1>10. CASE from # {}
  BY <1>8, <1>10 DEF f, from, rows, hold
<1> QED BY <1>9, <1>10

\* With the label sound and the figure legible, the TOTAL line leads to the total.
LEMMA TotalLineIs ==
    ASSUME NEW b \in Bills, NEW hurt, IsPhoto(hurt),
           16 \notin DOMAIN hurt \union b.absent, 17 \notin b.absent, Legible(hurt, 17)
    PROVE  LET rows == Rows(b, hurt)
               i == Place(b, hurt, 400)
           IN  /\ 400 \in Heights(b, hurt) /\ 16 \in InRow(b, hurt, 400)
               /\ i \in TotalLabels(rows) /\ TotalRank(rows, i) >= 15
               /\ rows[ValueAfter(i, Amounts(rows))].amount = Total(b)
<1> DEFINE rows == Rows(b, hurt)
           n == Cardinality(Heights(b, hurt))
           P(x) == Place(b, hurt, x)
           hold == Amounts(rows)
           u == HeightOf(b, hurt, 17)
           i == P(400)
           says(x) == RowAt(b, hurt, x).says
           amount(x) == RowAt(b, hurt, x).amount
<1>1. /\ n \in Nat /\ DOMAIN rows = 1 .. n /\ Len(rows) = n
      /\ \A t \in Heights(b, hurt) : P(t) \in 1 .. n /\ rows[P(t)] = RowAt(b, hurt, t)
  BY RowsAre
<1>2. 16 \in SeenOf(b, hurt) /\ 17 \in SeenOf(b, hurt)
  BY AtIs DEF Legible
<1>3. HeightOf(b, hurt, 16) = 400
  <2>1. Layout(b)[16].line = 10
    BY LayoutLines
  <2>2. HeightOf(b, hurt, 16) = 40 * Layout(b)[16].line + 0
    BY HeightIs
  <2> QED BY <2>1, <2>2
<1>4. 400 \in Heights(b, hurt) /\ 16 \in InRow(b, hurt, 400)
  BY <1>2, <1>3, AtIs
<1>5. u \in Heights(b, hurt) /\ 17 \in InRow(b, hurt, u) /\ u \in {400, 420}
  <2>1. u \in Heights(b, hurt) /\ 17 \in InRow(b, hurt, u)
    BY <1>2, AtIs
  <2> HIDE DEF u
  <2> QED BY <2>1, SumHeights
<1>6. \A j : j \in hold <=> j \in 1 .. n /\ rows[j].amount # Unread
  BY <1>1 DEF Amounts
<1>7. \A j : j \in TotalLabels(rows) <=> j \in 1 .. n /\ "total" \in rows[j].says /\ ValueAfter(j, hold) # 0
  BY <1>1 DEF TotalLabels, Saying
<1>8. u # 400 => P(u) = i + 1
  BY <1>4, <1>5, HalfALineIs
<1> HIDE DEF rows, n, hold, P, i, u, says, amount
<1>9. hold \in SUBSET (Nat \ {0})
  <2>1. \A j \in hold : j \in 1 .. n
    BY <1>6
  <2> QED BY <1>1, <2>1
<1>10. i \in 1 .. n /\ i \in Nat /\ rows[i] = RowAt(b, hurt, 400)
  BY <1>1, <1>4 DEF i
<1>11. amount(u) = Total(b) /\ Total(b) # Unread
  <2>1. 17 \in Sums \cap InRow(b, hurt, u)
    BY <1>5 DEF Sums
  <2>2. u >= 320
    BY <1>5
  <2>3. amount(u) = Sum(b, 17)
    BY <2>1, <2>2, AmountIs DEF amount
  <2>4. Sum(b, 17) = Total(b)
    BY DEF Sum
  <2>5. Sum(b, 17) \in Nat \ {0}
    BY <2>1, PrintedSumIs
  <2>6. Unread \notin Int
    BY ReceiptAssumption
  <2> QED BY <2>3, <2>4, <2>5, <2>6
<1>12. P(u) \in hold /\ P(u) \in 1 .. n /\ rows[P(u)] = RowAt(b, hurt, u)
  BY <1>1, <1>5, <1>6, <1>11 DEF amount
<1>13. u # 400 => i \notin hold
  <2> SUFFICES ASSUME u # 400, amount(400) # Unread PROVE FALSE
    BY <1>6, <1>10 DEF amount
  <2>1. 400 >= 320
    OBVIOUS
  <2>2. PICK k \in Sums \cap InRow(b, hurt, 400) : TRUE
    BY <2>1, AmountIs DEF amount
  <2>3. k \in {13, 15, 17}
    BY DEF Sums
  <2>4. k = 17
    <3>1. k = 13 => 400 \in {320, 340}
      BY SumHeights
    <3>2. k = 15 => 400 \in {360, 380}
      BY SumHeights
    <3> QED BY <2>3, <3>1, <3>2
  <2>5. HeightOf(b, hurt, 17) = 400
    <3>1. 17 \in InRow(b, hurt, 400)
      BY <2>4
    <3> QED BY <3>1 DEF InRow
  <2> QED BY <2>5 DEF u
<1>14. ValueAfter(i, hold) = P(u)
  <2> DEFINE v == ValueAfter(i, hold)
  <2>1. P(u) \in i .. i + 1
    <3>1. u = 400 => P(u) = i
      BY DEF i
    <3> QED BY <1>8, <1>10, <3>1
  <2>2. (i .. i + 3) \cap hold # {}
    <3>1. P(u) \in i .. i + 3
      BY <1>10, <2>1
    <3> QED BY <1>12, <3>1
  <2>3. v \in hold /\ v \in i .. i + 3 /\ \A j \in hold : j >= i => v <= j
    BY <1>9, <1>10, <2>2, ValueAfterIs
  <2> HIDE DEF v
  <2>4. v <= P(u)
    <3>1. P(u) >= i
      BY <1>10, <2>1
    <3> QED BY <1>12, <2>3, <3>1
  <2>5. CASE u = 400
    <3>1. P(u) = i
      BY <2>5 DEF i
    <3> QED BY <1>10, <2>3, <2>4, <3>1 DEF v
  <2>6. CASE u # 400
    <3>1. P(u) = i + 1 /\ v # i
      BY <1>8, <1>13, <2>3, <2>6
    <3> QED BY <1>10, <2>3, <2>4, <3>1 DEF v
  <2> QED BY <2>5, <2>6
<1>15. rows[ValueAfter(i, hold)].amount = Total(b)
  BY <1>11, <1>12, <1>14 DEF amount
<1>16. "total" \in rows[i].says
  <2>1. "total" \in Layout(b)[16].says
    BY SaysAre
  <2>2. Look(b, hurt, 16).says = Layout(b)[16].says
    BY DEF Look
  <2>3. "total" \in RowAt(b, hurt, 400).says
    BY <1>4, <2>1, <2>2, RowSays
  <2> QED BY <1>10, <2>3
<1>17. i \in TotalLabels(rows)
  <2>1. P(u) # 0
    BY <1>9, <1>12
  <2> QED BY <1>7, <1>10, <1>14, <1>16, <2>1
<1>18. TotalRank(rows, i) >= 15
  <2>1. "sub" \notin rows[i].says
    <3> SUFFICES ASSUME "sub" \in RowAt(b, hurt, 400).says PROVE FALSE
      BY <1>10
    <3>1. PICK k \in InRow(b, hurt, 400) : "sub" \in Layout(b)[k].says
      BY RowSays
    <3>2. k \in 1 .. 18
      BY InRowIs
    <3>3. k = 12
      BY <3>1, <3>2, SaysAre
    <3>4. 400 \in {320, 340}
      BY <3>3, SumHeights
    <3> QED BY <3>4
  <2>2. "inr" \in rows[P(u)].says
    <3>1. "inr" \in Layout(b)[17].says
      BY SaysAre
    <3>2. Look(b, hurt, 17).says = Layout(b)[17].says
      <4>1. 17 \notin DOMAIN hurt \/ hurt[17] # "garbled"
        BY DEF Legible
      <4> QED BY <4>1, LookIs
    <3>3. "inr" \in RowAt(b, hurt, u).says
      BY <1>5, <3>1, <3>2, RowSays
    <3> QED BY <1>12, <3>3
  <2>3. "inr" \in rows[i].says \/ (i < Len(rows) /\ "inr" \in rows[i + 1].says)
    <3>1. CASE u = 400
      <4>1. P(u) = i
        BY <3>1 DEF i
      <4> QED BY <2>2, <4>1
    <3>2. CASE u # 400
      <4>1. P(u) = i + 1 /\ i + 1 \in 1 .. n
        BY <1>8, <1>12, <3>2
      <4>2. i < Len(rows)
        BY <1>1, <1>10, <4>1
      <4> QED BY <2>2, <4>1, <4>2
    <3> QED BY <3>1, <3>2
  <2> QED BY <2>1, <2>3, RankIs
<1> QED BY <1>4, <1>15, <1>17, <1>18 DEF rows, hold, i, P

\* So that is the total the record has.
LEMMA TotalSurvives ==
    ASSUME NEW b \in Bills, NEW hurt, IsPhoto(hurt),
           16 \notin DOMAIN hurt \union b.absent, 17 \notin b.absent, Legible(hurt, 17)
    PROVE  Extract(Rows(b, hurt)).total = Total(b)
<1> DEFINE rows == Rows(b, hurt)
           n == Cardinality(Heights(b, hurt))
           f == Extract(rows)
           P(x) == Place(b, hurt, x)
           from == TotalLabels(rows)
           i == P(400)
<1>1. /\ n \in Nat /\ DOMAIN rows = 1 .. n
      /\ \A j \in 1 .. n : \E t \in Heights(b, hurt) : j = P(t) /\ rows[j] = RowAt(b, hurt, t)
  BY RowsAre
<1>2. /\ 16 \in InRow(b, hurt, 400)
      /\ i \in from /\ TotalRank(rows, i) >= 15
      /\ rows[ValueAfter(i, Amounts(rows))].amount = Total(b)
  BY TotalLineIs
<1>3. \E j \in from : /\ \A k \in from : TotalRank(rows, j) >= TotalRank(rows, k)
                      /\ f.total = rows[ValueAfter(j, Amounts(rows))].amount
  BY <1>2, TotalIsASum
<1>4. PICK j \in from : /\ \A k \in from : TotalRank(rows, j) >= TotalRank(rows, k)
                        /\ f.total = rows[ValueAfter(j, Amounts(rows))].amount
  BY <1>3
<1>5. j \in 1 .. n /\ "total" \in rows[j].says
  BY <1>1 DEF TotalLabels, Saying
<1> HIDE DEF rows, n, f, from
<1>6. PICK t \in Heights(b, hurt) : j = P(t) /\ rows[j] = RowAt(b, hurt, t)
  BY <1>1, <1>5
<1>7. t = 400
  <2> SUFFICES ASSUME t # 400 PROVE FALSE
    OBVIOUS
  <2>1. "total" \in RowAt(b, hurt, t).says
    BY <1>5, <1>6
  <2>2. 16 \notin InRow(b, hurt, t)
    BY <1>2 DEF InRow
  <2>3. "sub" \in RowAt(b, hurt, t).says
    BY <2>1, <2>2, TotalLabelIs
  <2>4. t \in {320, 340}
    <3>1. PICK k \in InRow(b, hurt, t) : "sub" \in Layout(b)[k].says
      BY <2>3, RowSays
    <3>2. k \in 1 .. 18
      BY InRowIs
    <3>3. k = 12
      BY <3>1, <3>2, SaysAre
    <3> QED BY <3>3, SumHeights
  <2>5. "inr" \notin RowAt(b, hurt, t).says
    BY <2>1, <2>4, TotalLabelIs
  <2>6. TotalRank(rows, j) <= 9
    BY <1>6, <2>3, <2>5, RankIs
  <2>7. TotalRank(rows, j) >= TotalRank(rows, i) /\ TotalRank(rows, i) >= 15
    BY <1>2, <1>4
  <2>8. TotalRank(rows, j) \in Int /\ TotalRank(rows, i) \in Int
    BY RankIs
  <2> HIDE DEF i
  <2> QED BY <2>6, <2>7, <2>8
<1> QED BY <1>2, <1>4, <1>6, <1>7 DEF f, rows

\* A subtotal that was read is a total, for want of a better one.
LEMMA SubtotalServes ==
    ASSUME NEW b \in Bills, NEW hurt, IsPhoto(hurt), {12, 13} \cap (DOMAIN hurt \union b.absent) = {}
    PROVE  TotalLabels(Rows(b, hurt)) # {}
<1> DEFINE rows == Rows(b, hurt)
           n == Cardinality(Heights(b, hurt))
           hold == Amounts(rows)
           i == Place(b, hurt, 320)
<1>1. /\ n \in Nat /\ DOMAIN rows = 1 .. n
      /\ \A t \in Heights(b, hurt) : Place(b, hurt, t) \in 1 .. n /\ rows[Place(b, hurt, t)] = RowAt(b, hurt, t)
  BY RowsAre
<1>2. 12 \in SeenOf(b, hurt) /\ 13 \in SeenOf(b, hurt)
  BY AtIs
<1>3. HeightOf(b, hurt, 12) = 320 /\ HeightOf(b, hurt, 13) = 320
  <2>1. Layout(b)[12].line = 8 /\ Layout(b)[13].line = 8
    BY LayoutLines
  <2>2. HeightOf(b, hurt, 12) = 40 * Layout(b)[12].line + 0 /\ HeightOf(b, hurt, 13) = 40 * Layout(b)[13].line + 0
    BY HeightIs
  <2> QED BY <2>1, <2>2
<1>4. 320 \in Heights(b, hurt) /\ 12 \in InRow(b, hurt, 320) /\ 13 \in InRow(b, hurt, 320)
  BY <1>2, <1>3, AtIs
<1>5. \A j : j \in hold <=> j \in 1 .. n /\ rows[j].amount # Unread
  BY <1>1 DEF Amounts
<1>6. \A j : j \in TotalLabels(rows) <=> j \in 1 .. n /\ "total" \in rows[j].says /\ ValueAfter(j, hold) # 0
  BY <1>1 DEF TotalLabels, Saying
<1> HIDE DEF rows, n, hold
<1>7. i \in 1 .. n /\ i \in Nat /\ rows[i] = RowAt(b, hurt, 320)
  BY <1>1, <1>4
<1>8. rows[i].amount # Unread
  <2>1. 13 \in Sums \cap InRow(b, hurt, 320) /\ Legible(hurt, 13) /\ 320 >= 320
    BY <1>4 DEF Sums, Legible
  <2>2. RowAt(b, hurt, 320).amount = Sum(b, 13)
    BY <2>1, AmountIs
  <2>3. Sum(b, 13) \in Nat \ {0}
    BY <2>1, PrintedSumIs
  <2>4. Unread \notin Int
    BY ReceiptAssumption
  <2> QED BY <1>7, <2>2, <2>3, <2>4
<1>9. "total" \in rows[i].says
  <2>1. "total" \in Layout(b)[12].says
    BY SaysAre
  <2>2. Look(b, hurt, 12).says = Layout(b)[12].says
    BY DEF Look
  <2>3. "total" \in RowAt(b, hurt, 320).says
    BY <1>4, <2>1, <2>2, RowSays
  <2> QED BY <1>7, <2>3
<1> HIDE DEF i
<1>10. hold \in SUBSET (Nat \ {0})
  <2>1. \A j \in hold : j \in 1 .. n
    BY <1>5
  <2> QED BY <1>1, <2>1
<1>11. ValueAfter(i, hold) # 0
  <2>1. i \in (i .. i + 3) \cap hold
    BY <1>5, <1>7, <1>8
  <2>2. ValueAfter(i, hold) \in hold
    BY <1>7, <1>10, <2>1, ValueAfterIs
  <2> QED BY <1>10, <2>2
<1> QED BY <1>6, <1>7, <1>9, <1>11 DEF rows

-----------------------------------------------------------------------------
(* The tax.                                                                  *)

\* The heading's row, unhurt, is the heading and nothing else; the next is the bill's number.
LEMMA HeadRows ==
    ASSUME NEW b, NEW hurt, {2, 3, 4} \cap (DOMAIN hurt \union b.absent) = {}
    PROVE  /\ 80 \in Heights(b, hurt) /\ InRow(b, hurt, 80) = {2}
           /\ 120 \in Heights(b, hurt) /\ InRow(b, hurt, 120) = {3, 4}
           /\ Place(b, hurt, 120) = Place(b, hurt, 80) + 1
           /\ \A t \in Heights(b, hurt) : t < 80 => InRow(b, hurt, t) \subseteq {1}
<1> DEFINE S(k) == IF k \in DOMAIN hurt /\ hurt[k] = "sunk" THEN 20 ELSE 0
           L(k) == Layout(b)[k].line
<1>1. 2 \in SeenOf(b, hurt) /\ 3 \in SeenOf(b, hurt) /\ 4 \in SeenOf(b, hurt)
  BY AtIs
<1>2. S(2) = 0 /\ S(3) = 0 /\ S(4) = 0
  OBVIOUS
<1>3. HeightOf(b, hurt, 2) = 80 /\ HeightOf(b, hurt, 3) = 120 /\ HeightOf(b, hurt, 4) = 120
  <2>1. L(2) = 2 /\ L(3) = 3 /\ L(4) = 3
    BY LayoutLines
  <2>2. /\ HeightOf(b, hurt, 2) = 40 * L(2) + S(2) /\ HeightOf(b, hurt, 3) = 40 * L(3) + S(3)
        /\ HeightOf(b, hurt, 4) = 40 * L(4) + S(4)
    BY HeightIs
  <2> HIDE DEF L, S
  <2> QED BY <1>2, <2>1, <2>2
<1>4. 80 \in Heights(b, hurt) /\ 120 \in Heights(b, hurt)
      /\ 2 \in InRow(b, hurt, 80) /\ 3 \in InRow(b, hurt, 120) /\ 4 \in InRow(b, hurt, 120)
  BY <1>1, <1>3, AtIs
<1>5. ASSUME NEW t, NEW k \in InRow(b, hurt, t)
      PROVE  /\ t = 80 => k = 2
             /\ t = 100 => k = 2
             /\ t = 120 => k \in {3, 4}
             /\ t \in Nat /\ t < 80 => k = 1
  <2>1. k \in 1 .. 18 /\ L(k) \in 1 .. 11 /\ t = 40 * L(k) + S(k)
    BY InRowIs
  <2>2. S(k) \in {0, 20}
    OBVIOUS
  <2>3. /\ L(k) = 1 <=> k = 1
        /\ L(k) = 2 <=> k = 2
        /\ L(k) = 3 <=> k \in {3, 4}
    BY <2>1, OnLine
  <2> HIDE DEF L, S
  <2> QED BY <2>1, <2>2, <2>3
<1>6. InRow(b, hurt, 80) = {2} /\ InRow(b, hurt, 120) = {3, 4}
  BY <1>4, <1>5
<1>7. 100 \notin Heights(b, hurt)
  <2> SUFFICES ASSUME 100 \in Heights(b, hurt) PROVE FALSE
    OBVIOUS
  <2>1. PICK k \in InRow(b, hurt, 100) : TRUE
    BY AtIs
  <2>2. k = 2
    BY <1>5
  <2>3. HeightOf(b, hurt, 2) = 100
    BY <2>2 DEF InRow
  <2> QED BY <1>3, <2>3
<1>8. ASSUME NEW x \in Heights(b, hurt), 80 < x, x < 120 PROVE FALSE
  <2>1. PICK k \in InRow(b, hurt, x) : TRUE
    BY AtIs
  <2>2. k \in 1 .. 18 /\ L(k) \in 1 .. 11 /\ x = 40 * L(k) + S(k) /\ S(k) \in {0, 20}
    BY InRowIs
  <2> HIDE DEF L, S
  <2>3. x = 100
    BY <1>8, <2>2
  <2> QED BY <1>7, <2>3
<1>9. Place(b, hurt, 120) = Place(b, hurt, 80) + 1
  <2>1. 80 < 120
    OBVIOUS
  <2>2. \A x \in Heights(b, hurt) : ~(80 < x /\ x < 120)
    BY <1>8
  <2> QED BY <1>4, <2>1, <2>2, NextIs
<1>10. \A t \in Heights(b, hurt) : t < 80 => InRow(b, hurt, t) \subseteq {1}
  <2>1. Heights(b, hurt) \in SUBSET Nat
    BY TopsAre
  <2> QED BY <1>5, <2>1
<1> QED BY <1>4, <1>6, <1>9, <1>10

\* Whenever the heading and the number under it are legible, the number is the tax.
LEMMA TaxIsTheNumber ==
    ASSUME NEW b \in Bills, NEW hurt, IsPhoto(hurt), {2, 3, 4} \cap (DOMAIN hurt \union b.absent) = {}
    PROVE  Extract(Rows(b, hurt)).tax = 100 * b.invoice
<1> DEFINE rows == Rows(b, hurt)
           n == Cardinality(Heights(b, hurt))
           P(x) == Place(b, hurt, x)
           f == Extract(rows)
           labels == {i \in DOMAIN rows : TaxAnchor(rows[i])}
           hold == TaxAmounts(rows)
           i == P(80)
<1>1. /\ n \in Nat /\ DOMAIN rows = 1 .. n
      /\ \A j \in 1 .. n : \E t \in Heights(b, hurt) : j = P(t) /\ rows[j] = RowAt(b, hurt, t)
      /\ \A t \in Heights(b, hurt) : P(t) \in 1 .. n /\ rows[P(t)] = RowAt(b, hurt, t)
      /\ \A t, u \in Heights(b, hurt) : t < u <=> P(t) < P(u)
  BY RowsAre
<1>2. f.tax = LET from == Labelled(labels, hold) IN IF from = 0 THEN Unread ELSE rows[from].amount
  BY DEF Extract
<1>3. \A j : j \in hold <=> j \in 1 .. n /\ TaxAmount(rows[j]) # Unread
  BY <1>1 DEF TaxAmounts
<1>4. \A j : j \in labels <=> j \in 1 .. n /\ TaxAnchor(rows[j])
  BY <1>1
<1>5. /\ 80 \in Heights(b, hurt) /\ InRow(b, hurt, 80) = {2}
      /\ 120 \in Heights(b, hurt) /\ InRow(b, hurt, 120) = {3, 4}
      /\ P(120) = i + 1
      /\ \A t \in Heights(b, hurt) : t < 80 => InRow(b, hurt, t) \subseteq {1}
  BY HeadRows
<1>6. /\ i \in 1 .. n /\ i \in Nat /\ rows[i] = RowAt(b, hurt, 80)
      /\ i + 1 \in 1 .. n /\ rows[i + 1] = RowAt(b, hurt, 120)
  <2>1. i \in 1 .. n /\ rows[i] = RowAt(b, hurt, 80) /\ P(120) \in 1 .. n /\ rows[P(120)] = RowAt(b, hurt, 120)
    BY <1>1, <1>5
  <2> HIDE DEF i, P, rows, n
  <2> QED BY <1>1, <1>5, <2>1
<1> HIDE DEF rows, n, f, labels, hold, P, i
<1>7. hold \in SUBSET (Nat \ {0}) /\ labels \in SUBSET (Nat \ {0})
  <2>1. \A j \in hold \union labels : j \in 1 .. n
    BY <1>3, <1>4
  <2> QED BY <1>1, <2>1
<1>8. i \in labels
  <2>1. "tax" \in rows[i].says
    <3>1. "tax" \in Layout(b)[2].says
      BY SaysAre
    <3>2. Look(b, hurt, 2).says = Layout(b)[2].says /\ 2 \in InRow(b, hurt, 80)
      BY <1>5 DEF Look
    <3>3. "tax" \in RowAt(b, hurt, 80).says
      BY <3>1, <3>2, RowSays
    <3> QED BY <1>6, <3>3
  <2>2. "gstin" \notin rows[i].says
    <3> SUFFICES ASSUME "gstin" \in RowAt(b, hurt, 80).says PROVE FALSE
      BY <1>6
    <3>1. PICK k \in InRow(b, hurt, 80) : "gstin" \in Layout(b)[k].says
      BY RowSays
    <3>2. k = 2
      BY <1>5
    <3>3. "gstin" \notin Layout(b)[2].says
      BY SaysAre
    <3> QED BY <3>1, <3>2, <3>3
  <2>3. TaxAnchor(rows[i])
    BY <2>1, <2>2 DEF TaxAnchor
  <2> QED BY <1>4, <1>6, <2>3
<1>9. ASSUME NEW j \in labels, j < i PROVE FALSE
  <2>1. j \in 1 .. n /\ TaxAnchor(rows[j])
    BY <1>4
  <2>2. PICK t \in Heights(b, hurt) : j = P(t) /\ rows[j] = RowAt(b, hurt, t)
    BY <1>1, <2>1
  <2>3. t < 80
    BY <1>1, <1>5, <1>9, <2>2 DEF i
  <2>4. InRow(b, hurt, t) \subseteq {1}
    BY <1>5, <2>3
  <2>5. PICK w \in {"gst", "tax"} : w \in RowAt(b, hurt, t).says
    BY <2>1, <2>2 DEF TaxAnchor
  <2>6. PICK k \in InRow(b, hurt, t) : w \in Layout(b)[k].says
    BY <2>5, RowSays
  <2>7. k = 1 /\ Layout(b)[1].says = {}
    BY <2>4, LayoutSays
  <2> QED BY <2>6, <2>7
<1>10. i \notin hold
  <2>1. Look(b, hurt, 2).runs = {}
    <3>1. Layout(b)[2].runs = {}
      BY LayoutRuns
    <3> QED BY <3>1, SilentIs
  <2>2. Runs(b, hurt, InRow(b, hurt, 80)) = {}
    BY <1>5, <2>1 DEF Runs
  <2>3. RowAt(b, hurt, 80).amount = Unread
    BY <2>2, RowIs, ParseIs
  <2>4. TaxAmount(rows[i]) = Unread
    BY <1>6, <2>3 DEF TaxAmount
  <2> QED BY <1>3, <2>4
<1>11. rows[i + 1].amount = 100 * b.invoice
  <2>1. Look(b, hurt, 3).runs = {} /\ Look(b, hurt, 4).runs = {Reference(b)}
    <3>1. Layout(b)[3].runs = {} /\ Layout(b)[4].runs = {Reference(b)}
      BY LayoutRuns
    <3> QED BY <3>1 DEF Look
  <2>2. Runs(b, hurt, InRow(b, hurt, 120)) = {Reference(b)}
    BY <1>5, <2>1 DEF Runs
  <2>3. Reference(b) \in Seq(Groups) /\ RunToDecimal(Reference(b)) = 100 * b.invoice
    BY NumberRead
  <2>4. 100 * b.invoice \in Nat \ {0}
    <3>1. b.invoice \in Nat \ {0}
      BY BillIs
    <3> QED BY <3>1
  <2>5. Unread \notin Int
    BY ReceiptAssumption
  <2> DEFINE v == 100 * b.invoice
  <2>6. v \notin {Unread, 0}
    BY <2>4, <2>5
  <2> HIDE DEF v
  <2>7. ParseAmount({Reference(b)}) = v
    BY <2>3, <2>6, ParseIs DEF v
  <2>8. RowAt(b, hurt, 120).amount = v
    BY <2>2, <2>7, RowIs
  <2> QED BY <1>6, <2>8 DEF v
<1>12. i + 1 \in hold
  <2>1. "registration" \notin rows[i + 1].says
    <3> SUFFICES ASSUME "registration" \in RowAt(b, hurt, 120).says PROVE FALSE
      BY <1>6
    <3>1. PICK k \in InRow(b, hurt, 120) : "registration" \in Layout(b)[k].says
      BY RowSays
    <3>2. k \in 1 .. 18 /\ k # 8
      BY <1>5
    <3> QED BY <3>1, <3>2, SaysAre
  <2>2. TaxAmount(rows[i + 1]) = 100 * b.invoice
    BY <1>11, <2>1 DEF TaxAmount
  <2>3. 100 * b.invoice \in Int /\ Unread \notin Int
    <3>1. b.invoice \in Nat
      BY BillIs
    <3> QED BY <3>1, ReceiptAssumption
  <2>4. TaxAmount(rows[i + 1]) # Unread
    BY <2>2, <2>3
  <2> QED BY <1>3, <1>6, <2>4
<1>13. ValueAfter(i, hold) = i + 1
  <2> DEFINE v == ValueAfter(i, hold)
  <2>1. (i .. i + 3) \cap hold # {}
    <3>1. i + 1 \in i .. i + 3
      BY <1>6
    <3> QED BY <1>12, <3>1
  <2>2. v \in hold /\ v \in i .. i + 3 /\ \A j \in hold : j >= i => v <= j
    BY <1>6, <1>7, <2>1, ValueAfterIs
  <2> HIDE DEF v
  <2>3. v # i /\ v <= i + 1
    <3>1. i + 1 >= i
      BY <1>6
    <3> QED BY <1>10, <1>12, <2>2, <3>1
  <2> QED BY <1>6, <2>2, <2>3 DEF v
<1>14. Labelled(labels, hold) = i + 1
  <2>1. ValueAfter(i, hold) # 0
    BY <1>6, <1>13
  <2>2. \A j \in labels : j < i => ValueAfter(j, hold) = 0
    BY <1>9
  <2>3. Labelled(labels, hold) = ValueAfter(i, hold)
    BY <1>7, <1>8, <2>1, <2>2, LabelledIs
  <2> QED BY <1>13, <2>3
<1>15. f.tax = rows[i + 1].amount
  <2>1. i + 1 # 0
    BY <1>6
  <2> QED BY <1>2, <1>14, <2>1
<1> QED BY <1>11, <1>15 DEF f, rows

-----------------------------------------------------------------------------
(* The duplicate screen.                                                     *)

\* A record's finding is the first it repeats of those before it, and there is one if it repeats any.
LEMMA ExactIs ==
    ASSUME NEW i \in Nat
    PROVE  /\ ExactOf(i) # 0 => ExactOf(i) \in 1 .. i - 1 /\ Same(records[i], records[ExactOf(i)])
           /\ ExactOf(i) \in Nat /\ (i # 0 => ExactOf(i) < i)
           /\ \A j \in 1 .. i - 1 : Same(records[i], records[j]) => ExactOf(i) # 0
<1> DEFINE same == {j \in Earlier(i) : Same(records[i], records[j])}
<1>1. ExactOf(i) = IF same = {} THEN 0 ELSE CHOOSE j \in same : \A k \in same : j <= k
  BY Zenon DEF ExactOf
<1>2. same \in SUBSET (1 .. i - 1) /\ \A j \in same : Same(records[i], records[j])
  BY DEF Earlier
<1>3. \A j \in 1 .. i - 1 : Same(records[i], records[j]) => j \in same
  BY DEF Earlier
<1> HIDE DEF same
<1>4. CASE same = {}
  BY <1>1, <1>3, <1>4
<1>5. CASE same # {}
  <2>1. same \in SUBSET Nat
    BY <1>2
  <2>2. \E j \in same : \A k \in same : j <= k
    BY <1>5, <2>1, LeastNatural
  <2>3. ExactOf(i) \in same
    BY <1>1, <1>5, <2>2
  <2>4. ExactOf(i) \in 1 .. i - 1 /\ Same(records[i], records[ExactOf(i)])
    BY <1>2, <2>3
  <2> QED BY <2>4
<1> QED BY <1>4, <1>5

-----------------------------------------------------------------------------
(* The inductive invariant.                                                  *)

Photos == UNION {[K -> {"lost", "garbled", "sunk", "spread", "glued", "cut"}] : K \in SUBSET Nat}

\* What was read of the n-th image, which images were enough for a record, and the
\* record or the refusal of one.
FieldsOf(n) == Extract(Rows(batch[n], damage[n]))
Complete == {n \in 1 .. Len(damage) : Missing(FieldsOf(n)) = {}}
RecordOf(n) == Normalize(n, FieldsOf(n), batch[n])
RefusalOf(n) == [image |-> n, missing |-> Missing(FieldsOf(n))]
AllRecords == {RecordOf(n) : n \in Complete}
AllRefusals == {RefusalOf(n) : n \in 1 .. Len(damage) \ Complete}

\* The findings are those of the records.
Screened ==
    /\ Len(damage) = Len(batch)
    /\ \A i \in DOMAIN records :
         /\ findings[i].of = ExactOf(i)
         /\ ExactOf(i) # 0 => findings[i].reason = "exact duplicate"

\* Records and refusals are those of images read.
ReceiptInv ==
    /\ batch \in Batches
    /\ damage \in Seq(Photos) /\ Len(damage) <= Len(batch)
    /\ records \in Seq(AllRecords)
    /\ rejections \in Seq(AllRefusals)
    /\ findings # Unread => Screened

\* A photograph's damage is some.
LEMMA PhotographsArePhotos ==
    ASSUME NEW b, NEW left, NEW d \in Photographs(b, left)
    PROVE  d \in Photos
<1> DEFINE page == Layout(b)
           spots == {{f[n] : n \in 1 .. left} \ {0} : f \in [1 .. left -> 0 .. Len(page)]}
           harms == UNION {Damages(page[k]) : k \in DOMAIN page}
           H == {"lost", "garbled", "sunk", "spread", "glued", "cut"}
<1>1. Photographs(b, left) = UNION {{x \in [K -> harms] : \A k \in K : x[k] \in Damages(page[k])} : K \in spots}
  BY Zenon DEF Photographs
<1>2. Len(page) = 18
  BY LayoutSize
<1>3. \A k : Damages(page[k]) \subseteq H
  BY DEF Damages
<1> HIDE DEF page, harms
<1>4. \A K \in spots : K \subseteq Nat
  <2> SUFFICES ASSUME NEW f \in [1 .. left -> 0 .. Len(page)] PROVE {f[n] : n \in 1 .. left} \ {0} \subseteq Nat
    OBVIOUS
  <2>1. 0 .. Len(page) \subseteq Nat
    BY <1>2
  <2> QED BY <2>1
<1> HIDE DEF spots
<1>5. PICK K \in spots : d \in {x \in [K -> harms] : \A k \in K : x[k] \in Damages(page[k])}
  BY <1>1
<1>6. d \in [K -> harms] /\ \A k \in K : d[k] \in H
  BY <1>3, <1>5
<1> HIDE DEF H
<1>7. d \in [K -> H]
  BY <1>6
<1> QED BY <1>4, <1>5, <1>7 DEF Photos, H

\* Sequences over a set are sequences over a larger one.
LEMMA SeqGrows ==
    ASSUME NEW S, NEW T, S \subseteq T, NEW s \in Seq(S)
    PROVE  s \in Seq(T)
OBVIOUS

\* Reading one image more keeps the invariant.
LEMMA IngestKeepsInv ==
    ASSUME ReceiptInv, Ingest
    PROVE  ReceiptInv'
<1>1. /\ batch \in Batches /\ damage \in Seq(Photos) /\ Len(damage) \in Nat
      /\ records \in Seq(AllRecords) /\ rejections \in Seq(AllRefusals) /\ (findings # Unread => Screened)
  BY DEF ReceiptInv
<1>0. PICK n \in Nat : n = Len(damage) + 1
  BY <1>1
<1>2. n <= Len(batch) /\ batch' = batch /\ findings' = findings
  BY <1>0 DEF Ingest
<1> DEFINE left == Budget[Len(batch)] - Added([k \in DOMAIN damage |-> Cardinality(DOMAIN damage[k])])
<1>3. PICK d \in Photographs(batch[n], left) :
        \E f \in {Extract(Rows(batch[n], d))} :
            /\ damage' = Append(damage, d)
            /\ IF Missing(f) # {}
                 THEN rejections' = Append(rejections, [image |-> n, missing |-> Missing(f)])
                      /\ UNCHANGED records
                 ELSE records' = Append(records, Normalize(n, f, batch[n])) /\ UNCHANGED rejections
  BY <1>0, Zenon DEF Ingest
<1> DEFINE f == Extract(Rows(batch[n], d))
<1>4. /\ damage' = Append(damage, d)
      /\ IF Missing(f) # {}
           THEN rejections' = Append(rejections, [image |-> n, missing |-> Missing(f)]) /\ records' = records
           ELSE records' = Append(records, Normalize(n, f, batch[n])) /\ rejections' = rejections
  BY <1>3
<1>5. d \in Photos
  BY <1>3, PhotographsArePhotos
<1> HIDE DEF left
<1>6. /\ damage' \in Seq(Photos) /\ Len(damage') = n /\ damage'[n] = d
      /\ \A m \in 1 .. Len(damage) : damage'[m] = damage[m]
  BY <1>0, <1>1, <1>4, <1>5
<1>7. n \in 1 .. n /\ n \notin 1 .. Len(damage) /\ 1 .. Len(damage) \subseteq 1 .. n
  BY <1>0, <1>1
<1>8. ASSUME NEW m \in 1 .. Len(damage)
      PROVE  FieldsOf(m)' = FieldsOf(m) /\ RecordOf(m)' = RecordOf(m) /\ RefusalOf(m)' = RefusalOf(m)
  <2>1. damage'[m] = damage[m] /\ batch'[m] = batch[m]
    BY <1>2, <1>6
  <2>2. FieldsOf(m)' = FieldsOf(m)
    BY <2>1, Zenon DEF FieldsOf
  <2> QED BY <2>1, <2>2, Zenon DEF RecordOf, RefusalOf
<1>9. /\ FieldsOf(n)' = f /\ RecordOf(n)' = Normalize(n, f, batch[n])
      /\ RefusalOf(n)' = [image |-> n, missing |-> Missing(f)]
  <2>1. damage'[n] = d /\ batch'[n] = batch[n]
    BY <1>2, <1>6
  <2>2. FieldsOf(n)' = f
    BY <2>1, Zenon DEF FieldsOf
  <2> QED BY <2>1, <2>2, Zenon DEF RecordOf, RefusalOf
<1>10. \A m \in 1 .. Len(damage) : m \in Complete' <=> m \in Complete
  <2> TAKE m \in 1 .. Len(damage)
  <2>1. FieldsOf(m)' = FieldsOf(m) /\ m \in 1 .. Len(damage')
    BY <1>6, <1>7, <1>8
  <2> QED BY <2>1 DEF Complete
<1>11. n \in Complete' <=> Missing(f) = {}
  <2>1. n \in 1 .. Len(damage')
    BY <1>6, <1>7
  <2> QED BY <1>9, <2>1 DEF Complete
<1>12. AllRecords \subseteq AllRecords' /\ AllRefusals \subseteq AllRefusals'
  <2>1. ASSUME NEW m \in Complete PROVE RecordOf(m) \in AllRecords'
    <3>1. m \in 1 .. Len(damage)
      BY DEF Complete
    <3>2. m \in Complete' /\ RecordOf(m)' = RecordOf(m)
      BY <1>8, <1>10, <3>1
    <3> QED BY <3>2 DEF AllRecords
  <2>2. ASSUME NEW m \in 1 .. Len(damage) \ Complete PROVE RefusalOf(m) \in AllRefusals'
    <3>1. m \in 1 .. Len(damage') /\ m \notin Complete' /\ RefusalOf(m)' = RefusalOf(m)
      BY <1>6, <1>7, <1>8, <1>10
    <3> QED BY <3>1 DEF AllRefusals
  <2> QED BY <2>1, <2>2 DEF AllRecords, AllRefusals
<1>13. Missing(f) = {} => Normalize(n, f, batch[n]) \in AllRecords'
  BY <1>9, <1>11 DEF AllRecords
<1>14. Missing(f) # {} => [image |-> n, missing |-> Missing(f)] \in AllRefusals'
  <2>1. n \in 1 .. Len(damage')
    BY <1>6, <1>7
  <2> QED BY <1>9, <1>11, <2>1 DEF AllRefusals
<1>15. records \in Seq(AllRecords') /\ rejections \in Seq(AllRefusals')
  BY <1>1, <1>12, SeqGrows
<1> DEFINE new == Normalize(n, f, batch[n])  refused == [image |-> n, missing |-> Missing(f)]
           gap == Missing(f)
<1> HIDE DEF new, refused, gap, f
<1>16. records' \in Seq(AllRecords')
  <2>1. CASE gap = {}
    <3>1. new \in AllRecords' /\ records' = Append(records, new)
      BY <1>4, <1>13, <2>1 DEF new, gap
    <3> QED BY <1>15, <3>1
  <2>2. CASE gap # {}
    BY <1>4, <1>15, <2>2 DEF gap
  <2> QED BY <2>1, <2>2
<1>17. rejections' \in Seq(AllRefusals')
  <2>1. CASE gap # {}
    <3>1. refused \in AllRefusals' /\ rejections' = Append(rejections, refused)
      BY <1>4, <1>14, <2>1 DEF refused, gap
    <3> QED BY <1>15, <3>1
  <2>2. CASE gap = {}
    BY <1>4, <1>15, <2>2 DEF gap
  <2> QED BY <2>1, <2>2
<1>18. findings' = Unread
  <2>1. Len(batch) \in Nat
    <3>1. batch \in Seq(Bills)
      BY <1>1, ReceiptAssumption
    <3> QED BY <3>1
  <2>2. Len(damage) # Len(batch)
    BY <1>0, <1>1, <1>2, <2>1
  <2> QED BY <1>1, <1>2, <2>2 DEF Screened
<1>19. Len(damage') <= Len(batch')
  BY <1>2, <1>6
<1> QED BY <1>1, <1>2, <1>6, <1>16, <1>17, <1>18, <1>19 DEF ReceiptInv

\* So does the screen.
LEMMA ScreenKeepsInv ==
    ASSUME ReceiptInv, Screen
    PROVE  ReceiptInv'
<1>1. /\ batch' = batch /\ damage' = damage /\ records' = records /\ rejections' = rejections
      /\ Len(damage) = Len(batch)
  BY DEF Screen
<1>2. \A i : ExactOf(i)' = ExactOf(i)
  <2> TAKE i
  <2>1. records' = records
    BY <1>1
  <2> QED BY <2>1 DEF ExactOf, Same, Earlier
<1>3. PICK near : findings' = [i \in DOMAIN records |->
                    [of |-> ExactOf(i),
                     reason |-> CASE ExactOf(i) # 0 -> "exact duplicate"
                                  [] ExactOf(i) = 0 /\ Clustered(i, near) -> "near duplicate"
                                  [] OTHER -> "one-off"]]
  BY Zenon DEF Screen
<1>4. ASSUME NEW i \in DOMAIN records
      PROVE  findings'[i].of = ExactOf(i) /\ (ExactOf(i) # 0 => findings'[i].reason = "exact duplicate")
  <2> DEFINE r == CASE ExactOf(i) # 0 -> "exact duplicate"
                    [] ExactOf(i) = 0 /\ Clustered(i, near) -> "near duplicate"
                    [] OTHER -> "one-off"
  <2>1. findings'[i] = [of |-> ExactOf(i), reason |-> r]
    BY <1>3
  <2>2. ExactOf(i) # 0 => r = "exact duplicate"
    OBVIOUS
  <2> HIDE DEF r
  <2>3. findings'[i].of = ExactOf(i)
    BY ONLY <2>1
  <2>4. findings'[i].reason = r
    BY ONLY <2>1
  <2> QED BY <2>2, <2>3, <2>4, Zenon
<1>5. Screened'
  BY <1>1, <1>2, <1>4 DEF Screened
<1>6. \A m : FieldsOf(m)' = FieldsOf(m) /\ RecordOf(m)' = RecordOf(m) /\ RefusalOf(m)' = RefusalOf(m)
  <2> TAKE m
  <2>1. FieldsOf(m)' = FieldsOf(m)
    BY <1>1, Zenon DEF FieldsOf
  <2> QED BY <1>1, <2>1, Zenon DEF RecordOf, RefusalOf
<1>7. Complete' = Complete
  BY <1>1, <1>6 DEF Complete
<1>8. AllRecords' = AllRecords /\ AllRefusals' = AllRefusals
  BY <1>1, <1>6, <1>7 DEF AllRecords, AllRefusals
<1> QED BY <1>1, <1>5, <1>8 DEF ReceiptInv

\* The invariant holds.
THEOREM ReceiptCorrect == ReceiptSpec => []ReceiptInv
<1>1. ASSUME ReceiptInit PROVE ReceiptInv
  <2>1. /\ batch \in Batches /\ damage = <<>> /\ records = <<>> /\ rejections = <<>> /\ findings = Unread
    BY <1>1 DEF ReceiptInit
  <2>2. batch \in Seq(Bills)
    BY <2>1, ReceiptAssumption
  <2>3. Len(damage) <= Len(batch)
    BY <2>1, <2>2
  <2> QED BY <2>1, <2>3 DEF ReceiptInv
<1>2. ASSUME ReceiptInv, UNCHANGED receiptVars PROVE ReceiptInv'
  <2>1. /\ batch' = batch /\ damage' = damage /\ records' = records /\ rejections' = rejections
        /\ findings' = findings
    BY <1>2 DEF receiptVars
  <2>2. \A m : FieldsOf(m)' = FieldsOf(m) /\ RecordOf(m)' = RecordOf(m) /\ RefusalOf(m)' = RefusalOf(m)
    <3> TAKE m
    <3>1. FieldsOf(m)' = FieldsOf(m)
      BY <2>1, Zenon DEF FieldsOf
    <3> QED BY <2>1, <3>1, Zenon DEF RecordOf, RefusalOf
  <2>3. Complete' = Complete
    BY <2>1, <2>2 DEF Complete
  <2>4. AllRecords' = AllRecords /\ AllRefusals' = AllRefusals
    BY <2>1, <2>2, <2>3 DEF AllRecords, AllRefusals
  <2>5. \A i : ExactOf(i)' = ExactOf(i)
    BY <2>1 DEF ExactOf, Same, Earlier
  <2>6. Screened => Screened'
    BY <2>1, <2>5 DEF Screened
  <2> QED BY <1>2, <2>1, <2>4, <2>6 DEF ReceiptInv
<1>3. ASSUME ReceiptInv, [ReceiptNext]_receiptVars PROVE ReceiptInv'
  <2>1. CASE Ingest
    BY <1>3, <2>1, IngestKeepsInv
  <2>2. CASE Screen
    BY <1>3, <2>2, ScreenKeepsInv
  <2>3. CASE UNCHANGED receiptVars
    BY <1>2, <1>3, <2>3
  <2> QED BY <1>3, <2>1, <2>2, <2>3 DEF ReceiptNext
<1> QED BY <1>1, <1>3, PTL DEF ReceiptSpec

-----------------------------------------------------------------------------
(* The requirements.                                                         *)

\* A record's bill, its photograph and what was read of it.
LEMMA RecordIs ==
    ASSUME ReceiptInv, NEW n \in DOMAIN records
    PROVE  LET r == records[n]  b == Bill(r)  d == damage[r.image]  f == Extract(Rows(b, d))
           IN  /\ b \in Bills /\ IsPhoto(d) /\ Hurt(r) = DOMAIN d \union b.absent
               /\ r.vendor = f.vendor /\ r.amount = f.total /\ r.due = f.date + 30
               /\ r.fields = f /\ r.reasons = Reasons(f, b)
               /\ f.vendor # {} /\ f.total # Unread /\ f.date # Unread
<1>1. batch \in Seq(Bills) /\ damage \in Seq(Photos) /\ Len(damage) <= Len(batch) /\ records \in Seq(AllRecords)
  BY ReceiptAssumption DEF ReceiptInv
<1>2. records[n] \in AllRecords
  BY <1>1
<1>3. PICK m \in Complete : records[n] = RecordOf(m)
  BY <1>2, Zenon DEF AllRecords
<1>4. m \in 1 .. Len(damage) /\ Missing(FieldsOf(m)) = {}
  BY DEF Complete
<1>5. m \in 1 .. Len(batch) /\ m \in DOMAIN damage
  BY <1>1, <1>4
<1>6. batch[m] \in Bills /\ damage[m] \in Photos
  BY <1>1, <1>5
<1>7. IsPhoto(damage[m])
  BY <1>6 DEF IsPhoto, Photos
<1> DEFINE f == FieldsOf(m)
<1>8. /\ RecordOf(m).image = m /\ RecordOf(m).vendor = f.vendor /\ RecordOf(m).amount = f.total
      /\ RecordOf(m).due = f.date + 30 /\ RecordOf(m).fields = f /\ RecordOf(m).reasons = Reasons(f, batch[m])
  <2> HIDE DEF f
  <2> QED BY DEF RecordOf, Normalize, DefaultTerms, f
<1>9. f.vendor # {} /\ f.total # Unread /\ f.date # Unread
  <2> HIDE DEF f
  <2>1. Missing(f) = {}
    BY <1>4 DEF f
  <2> QED BY <2>1 DEF Missing
<1>10. Bill(records[n]) = batch[m] /\ damage[records[n].image] = damage[m]
  BY <1>3, <1>8, Zenon DEF Bill
<1>11. f = Extract(Rows(batch[m], damage[m]))
  BY Zenon DEF FieldsOf
<1>12. Hurt(records[n]) = DOMAIN damage[m] \union batch[m].absent
  BY <1>10, Zenon DEF Hurt
<1> HIDE DEF f
<1> QED BY <1>3, <1>6, <1>7, <1>8, <1>9, <1>10, <1>11, <1>12, Zenon

\* How a region of a record's photograph came out.
LEMMA HowIs ==
    ASSUME ReceiptInv, NEW n \in DOMAIN records, NEW k
    PROVE  LET r == records[n]  b == Bill(r)  d == damage[r.image]
           IN  /\ How(r, k) = "sound" <=> k \notin DOMAIN d \union b.absent
               /\ How(r, k) \in {"sound", "spread", "sunk"} => k \notin b.absent /\ Legible(d, k)
<1>1. Hurt(records[n]) = DOMAIN damage[records[n].image] \union Bill(records[n]).absent
  BY Zenon DEF Hurt
<1>2. IsPhoto(damage[records[n].image])
  BY RecordIs, Zenon
<1> QED BY <1>1, <1>2 DEF How, IsPhoto, Legible

\* A photograph leaves the total line's total standing, and any other total is a
\* printed sum or what damage made of one (TotalSurvivesDamageElsewhere).
LEMMA TotalsStand ==
    ASSUME ReceiptInv
    PROVE  TotalSurvivesDamageElsewhere
<1> SUFFICES ASSUME NEW n \in DOMAIN records
             PROVE  LET r == records[n]
                    IN  IF How(r, 16) = "sound" /\ How(r, 17) \in {"sound", "spread", "sunk"}
                        THEN r.amount = Total(Bill(r))
                        ELSE r.amount \in ReadAs(Thousands[Bill(r).subtotal]) \union ReadAs(Printed(Tax(Bill(r))))
                                \union ReadAs(Printed(Total(Bill(r))))
  BY Zenon DEF TotalSurvivesDamageElsewhere, TotalLabel, TotalFigure, ReadAs
<1> DEFINE r == records[n]  b == Bill(r)  d == damage[r.image]
<1>1. /\ b \in Bills /\ IsPhoto(d) /\ r.amount = Extract(Rows(b, d)).total
      /\ Extract(Rows(b, d)).total # Unread
  BY RecordIs, Zenon
<1>2. /\ How(r, 16) = "sound" <=> 16 \notin DOMAIN d \union b.absent
      /\ How(r, 17) \in {"sound", "spread", "sunk"} => 17 \notin b.absent /\ Legible(d, 17)
  BY HowIs, Zenon
<1> HIDE DEF r, b, d
<1>3. CASE How(r, 16) = "sound" /\ How(r, 17) \in {"sound", "spread", "sunk"}
  <2>1. r.amount = Total(b)
    BY <1>1, <1>2, <1>3, TotalSurvives, Zenon
  <2> QED BY <1>3, <2>1, Zenon DEF b, r
<1>4. CASE ~(How(r, 16) = "sound" /\ How(r, 17) \in {"sound", "spread", "sunk"})
  <2>1. PICK k \in Sums : r.amount \in ReadAs(PrintedSum(b, k))
    BY <1>1, TotalIsASum, Zenon
  <2>2. PrintedSum(b, k) \in {Thousands[b.subtotal], Printed(Tax(b)), Printed(Total(b))}
    BY DEF PrintedSum
  <2>3. r.amount \in ReadAs(Thousands[b.subtotal]) \union ReadAs(Printed(Tax(b))) \union ReadAs(Printed(Total(b)))
    BY <2>1, <2>2, Zenon
  <2> QED BY <1>4, <2>3, Zenon DEF b, r
<1> QED BY <1>3, <1>4

\* A hundredfold total never passes the tax check where the tax was read, and a legible
\* heading and number make the number the tax (CrossCheckHolds).
LEMMA CrossChecksHold ==
    ASSUME ReceiptInv
    PROVE  CrossCheckHolds
<1> SUFFICES ASSUME NEW n \in DOMAIN records
             PROVE  LET r == records[n]
                    IN  /\ r.amount = 100 * Total(Bill(r)) /\ r.fields.tax = Tax(Bill(r)) => "tax" \in r.reasons
                        /\ {2, 3, 4} \cap Hurt(r) = {} => r.fields.tax = 100 * Bill(r).invoice
  BY Zenon DEF CrossCheckHolds
<1> DEFINE r == records[n]  b == Bill(r)  d == damage[r.image]  f == Extract(Rows(b, d))
<1>1. /\ b \in Bills /\ IsPhoto(d) /\ Hurt(r) = DOMAIN d \union b.absent /\ r.amount = f.total
      /\ r.fields = f /\ r.reasons = Reasons(f, b)
  BY RecordIs, Zenon
<1> HIDE DEF r, b, d, f
<1>2. ASSUME r.amount = 100 * Total(b), r.fields.tax = Tax(b)
      PROVE  "tax" \in r.reasons
  <2>1. b.subtotal \in Nat /\ b.subtotal >= 100
    BY <1>1, BillIs
  <2>2. f.total = 100 * Total(b) /\ f.tax = Tax(b)
    BY <1>1, <1>2
  <2>3. Total(b) = b.subtotal * 118 /\ Tax(b) = b.subtotal * 18
    BY <2>1 DEF Total, Tax
  <2>4. f.tax \in Int /\ f.tax > 0 /\ f.tax # Unread
    BY <2>1, <2>2, <2>3, ReceiptAssumption
  <2>5. f.total - f.tax > f.tax * 100
    BY <2>1, <2>2, <2>3
  <2>6. ~Plausible(f.total, f.tax)
    BY <2>1, <2>2, <2>3, <2>5 DEF Plausible
  <2> QED BY <1>1, <2>4, <2>6 DEF Reasons
<1>3. ASSUME {2, 3, 4} \cap Hurt(r) = {}
      PROVE  r.fields.tax = 100 * b.invoice
  <2>1. Extract(Rows(b, d)).tax = 100 * b.invoice
    BY <1>1, <1>3, TaxIsTheNumber, Zenon
  <2> QED BY <1>1, <2>1 DEF f
<1> QED BY <1>2, <1>3, Zenon DEF r, b

\* Right readings of one bill are found to repeat one another, a repeat is of a record of
\* the same vendor and amount, and repeats do not run in circles (RescansAreCaught).
LEMMA RescansCaught ==
    ASSUME ReceiptInv
    PROVE  RescansAreCaught
<1> SUFFICES ASSUME findings # Unread PROVE RescansAreCaught
  BY Zenon DEF RescansAreCaught
<1>1. /\ \A i \in DOMAIN records : findings[i].of = ExactOf(i)
      /\ \A i \in DOMAIN records : ExactOf(i) # 0 => findings[i].reason = "exact duplicate"
  BY Zenon DEF ReceiptInv, Screened
<1>2. records \in Seq(AllRecords) /\ DOMAIN records \subseteq Nat \ {0}
  BY DEF ReceiptInv
<1> DEFINE Right(r) == r.vendor = {Bill(r).vendor} /\ r.amount = Total(Bill(r))
<1>3. ASSUME NEW i \in DOMAIN records, NEW j \in DOMAIN records, i < j,
             Bill(records[i]) = Bill(records[j]), Right(records[i]), Right(records[j])
      PROVE  findings[j].reason = "exact duplicate"
  <2> DEFINE b == Bill(records[j])
  <2>1. b \in Bills
    BY RecordIs, Zenon
  <2>2. records[i].vendor = records[j].vendor /\ records[i].amount = records[j].amount
    BY <1>3
  <2>3. \A k \in {i, j} : records[k].due = b.day + 30
    <3>1. TAKE k \in {i, j}
    <3> DEFINE g == Extract(Rows(Bill(records[k]), damage[records[k].image]))
    <3>2. Bill(records[k]) = b /\ k \in DOMAIN records
      BY <1>3
    <3>3. records[k].due = g.date + 30 /\ g.date # Unread
      BY <3>2, RecordIs, Zenon
    <3>4. g.date \in {b.day, Unread}
      BY <2>1, <3>2, DateIsRead, Zenon
    <3> HIDE DEF g, b
    <3> QED BY <3>3, <3>4
  <2>4. b.day \in Nat
    BY <2>1, BillIs
  <2> HIDE DEF b
  <2>5. records[j].due - records[i].due = 0
    BY <2>3, <2>4
  <2>6. Same(records[j], records[i])
    BY <2>2, <2>5 DEF Same, DayTolerance
  <2>7. i \in 1 .. j - 1 /\ j \in Nat
    BY <1>2, <1>3
  <2>8. ExactOf(j) # 0
    BY <2>6, <2>7, ExactIs, Zenon
  <2> QED BY <1>1, <2>8, Zenon
<1>4. ASSUME NEW i \in DOMAIN records, findings[i].of # 0
      PROVE  LET first == records[findings[i].of]
             IN  first.vendor = records[i].vendor /\ first.amount = records[i].amount
  <2>1. i \in Nat /\ findings[i].of = ExactOf(i)
    BY <1>1, <1>2, Zenon
  <2>2. Same(records[i], records[ExactOf(i)])
    BY <1>4, <2>1, ExactIs, Zenon
  <2> QED BY <2>1, <2>2, Zenon DEF Same
<1>5. ASSUME NEW S \in (SUBSET DOMAIN records) \ {{}}
      PROVE  \E i \in S : findings[i].of \notin S
  <2>1. S \in SUBSET Nat /\ S # {} /\ 0 \notin S
    BY <1>2, Zenon
  <2>2. PICK i \in S : \A k \in S : i <= k
    BY <2>1, LeastNatural
  <2>3. i \in Nat /\ i # 0 /\ findings[i].of = ExactOf(i)
    BY <1>1, <2>1, Zenon
  <2>4. ExactOf(i) \in Nat /\ ExactOf(i) < i
    BY <2>3, ExactIs, Zenon
  <2>5. ExactOf(i) \notin S
    BY <2>2, <2>3, <2>4
  <2> QED BY <2>3, <2>5, Zenon
<1> HIDE DEF Right
<1> QED BY <1>3, <1>4, <1>5, Zenon DEF RescansAreCaught, Right

\* What a record and a refusal say of the photograph (ReadOrRefused).
LEMMA ReadsOrRefuses ==
    ASSUME ReceiptInv
    PROVE  ReadOrRefused
<1>1. ASSUME NEW n \in DOMAIN records
      PROVE  LET r == records[n]
             IN  /\ r.due = Bill(r).day + DefaultTerms
                 /\ How(r, 1) = "sound" => r.vendor = {Bill(r).vendor}
                 /\ r.vendor # {}
  <2> DEFINE r == records[n]  b == Bill(r)  d == damage[r.image]  f == Extract(Rows(b, d))
  <2>1. /\ b \in Bills /\ r.vendor = f.vendor /\ r.due = f.date + 30 /\ f.vendor # {} /\ f.date # Unread
    BY RecordIs, Zenon
  <2>2. How(r, 1) = "sound" => 1 \notin DOMAIN d \union b.absent
    BY HowIs, Zenon
  <2>3. f.date \in {b.day, Unread}
    BY <2>1, DateIsRead, Zenon
  <2>4. 1 \notin DOMAIN d \union b.absent => f.vendor = {b.vendor}
    BY <2>1, VendorIsRead, Zenon
  <2> HIDE DEF r, b, d, f
  <2>5. r.due = b.day + DefaultTerms
    BY <2>1, <2>3 DEF DefaultTerms
  <2>6. How(r, 1) = "sound" => r.vendor = {b.vendor}
    BY <2>1, <2>2, <2>4
  <2> QED BY <2>1, <2>5, <2>6, Zenon DEF r, b
<1>2. ASSUME NEW n \in DOMAIN rejections
      PROVE  LET r == rejections[n]
             IN  /\ "vendor" \in r.missing =>
                        How(r, 1) = "lost" /\ How(r, 4) = "lost" /\ {5, 6} \cap Hurt(r) # {}
                 /\ "date" \in r.missing => 6 \in Hurt(r)
                 /\ "total" \in r.missing => {16, 17} \cap Hurt(r) # {} /\ {12, 13} \cap Hurt(r) # {}
  <2>1. batch \in Seq(Bills) /\ damage \in Seq(Photos) /\ Len(damage) <= Len(batch) /\ rejections \in Seq(AllRefusals)
    BY ReceiptAssumption DEF ReceiptInv
  <2>2. rejections[n] \in AllRefusals
    BY <2>1
  <2>3. PICK m \in 1 .. Len(damage) : rejections[n] = RefusalOf(m)
    BY <2>2, Zenon DEF AllRefusals
  <2>4. m \in 1 .. Len(batch) /\ m \in DOMAIN damage
    BY <2>1
  <2> DEFINE r == rejections[n]  b == batch[m]  d == damage[m]  f == Extract(Rows(b, d))
  <2>5. b \in Bills /\ d \in Photos
    BY <2>1, <2>4
  <2>6. IsPhoto(d)
    BY <2>5 DEF IsPhoto, Photos
  <2>7. r.image = m /\ r.missing = Missing(f)
    <3> HIDE DEF f
    <3>1. r = [image |-> m, missing |-> Missing(f)]
      BY <2>3, Zenon DEF RefusalOf, FieldsOf, f
    <3> QED BY <3>1
  <2>8. Bill(r) = b /\ damage[r.image] = d
    BY <2>7, Zenon DEF Bill
  <2>9. Hurt(r) = DOMAIN d \union b.absent
    BY <2>8, Zenon DEF Hurt
  <2>10. ASSUME "vendor" \in r.missing
         PROVE  How(r, 1) = "lost" /\ How(r, 4) = "lost" /\ {5, 6} \cap Hurt(r) # {}
    <3>1. f.vendor = {}
      <4> HIDE DEF r, f
      <4> QED BY <2>7, <2>10 DEF Missing
    <3>2. 1 \notin SeenOf(b, d) /\ 4 \notin SeenOf(b, d) /\ {5, 6} \cap (DOMAIN d \union b.absent) # {}
      BY <2>5, <3>1, VendorIsRead, Zenon
    <3>3. \A k \in {1, 4} : k \in DOMAIN d \union b.absent /\ (k \in b.absent \/ d[k] = "lost")
      BY <3>2, AtIs
    <3> HIDE DEF r, b, d
    <3>4. \A k \in {1, 4} : How(r, k) = "lost"
      BY <2>8, <2>9, <3>3 DEF How
    <3> QED BY <2>9, <3>2, <3>4
  <2>11. ASSUME "date" \in r.missing
         PROVE  6 \in Hurt(r)
    <3>1. f.date = Unread
      <4> HIDE DEF r, f
      <4> QED BY <2>7, <2>11 DEF Missing
    <3>2. b.day # Unread
      BY <2>5, BillIs, Zenon
    <3>3. 6 \notin DOMAIN d \union b.absent => f.date = b.day
      BY <2>5, DateIsRead, Zenon
    <3> QED BY <2>9, <3>1, <3>2, <3>3, Zenon
  <2>12. ASSUME "total" \in r.missing
         PROVE  {16, 17} \cap Hurt(r) # {} /\ {12, 13} \cap Hurt(r) # {}
    <3>1. f.total = Unread
      <4> HIDE DEF r, f
      <4> QED BY <2>7, <2>12 DEF Missing
    <3>2. TotalLabels(Rows(b, d)) = {}
      BY <2>5, <2>6, <3>1, TotalIsASum, Zenon
    <3>3. {12, 13} \cap (DOMAIN d \union b.absent) # {}
      BY <2>5, <2>6, <3>2, SubtotalServes, Zenon
    <3>4. ASSUME {16, 17} \cap (DOMAIN d \union b.absent) = {} PROVE FALSE
      <4>1. 16 \notin DOMAIN d \union b.absent /\ 17 \notin DOMAIN d /\ 17 \notin b.absent
        BY <3>4
      <4>2. Legible(d, 17)
        BY <4>1, Zenon DEF Legible
      <4>3. f.total = Total(b)
        BY <2>5, <2>6, <4>1, <4>2, TotalSurvives, Zenon
      <4>4. Total(b) \in Int
        BY <2>5, BillIs DEF Total, Tax
      <4> QED BY <3>1, <4>3, <4>4, ReceiptAssumption, Zenon
    <3> QED BY <2>9, <3>3, <3>4, Zenon
  <2> QED BY <2>10, <2>11, <2>12, Zenon
<1> QED BY <1>1, <1>2, Zenon DEF ReadOrRefused, TotalLabel, TotalFigure

\* In every run the total line's total survives damage elsewhere, and any other total is
\* one of the three sums or a reading of one (ocr_service.py:579-600).
THEOREM TotalSurvivesHolds == ReceiptSpec => []TotalSurvivesDamageElsewhere
BY ReceiptCorrect, TotalsStand, PTL

\* In every run a hundredfold total is held for review where the tax was read, and a
\* legible heading and number make the bill number the tax (normalizer.py:147-173).
THEOREM CrossCheckIsKept == ReceiptSpec => []CrossCheckHolds
BY ReceiptCorrect, CrossChecksHold, PTL

\* In every run the duplicate screen catches right readings of one bill and keeps one of
\* each (normalizer.py:259-274).
THEOREM RescansHold == ReceiptSpec => []RescansAreCaught
BY ReceiptCorrect, RescansCaught, PTL

\* In every run dates are read rightly or not at all, and a bill is refused only for what
\* was damaged (normalizer.py:107-122).
THEOREM ReadOrRefusedHolds == ReceiptSpec => []ReadOrRefused
BY ReceiptCorrect, ReadsOrRefuses, PTL
=============================================================================
