-------------------------- MODULE RolloutRoute_proofs --------------------------
(* Proofs about RolloutRoute, for any number of steps and deaths.  The        *)
(* invariant says, for every operation of every call, what the operations     *)
(* before it have brought about: which buffer is loaded, what is cached, and  *)
(* whether writes are let through.                                            *)
EXTENDS RolloutRoute, SequenceTheorems, TLAPS

Operations ==
  {"unavailable", "trainer_mode", "install", "rollout_mode", "available", "reset",
   "set_clean", "generate_clean", "set_masked", "generate_masked"}
Phases == {"load", "first", "sample", "dual", "update", "validate", "refresh", "save", "done"}

Forwards == [buffer : Int, weights : Int]

Types ==
  /\ freeCache \in BOOLEAN /\ pc \in Phases /\ step \in Int /\ asked \in Int
  /\ actor \in [weights : Int, mask : Int]
  /\ roll \in [route : {Clean, Masked}, mask : Int, available : BOOLEAN]
  /\ engine \in [awake : BOOLEAN, weights : Int, buffer : Int, cache : SUBSET Forwards]
  /\ saved \in [step : Int, weights : Int, mask : Int]

\* The driver's version is that of the rollout controller.
Stamped == roll.mask = asked

-----------------------------------------------------------------------------
(* The call that is executed, and what holds before its k-th operation.       *)
Rest(call, k) == SubSeq(call, k, Len(call))

CleanForward == [buffer |-> Ones, weights |-> actor.weights]

Gated == roll.available = FALSE
Open == roll.available = TRUE /\ engine.awake = TRUE
Current == engine.awake = TRUE /\ engine.weights = actor.weights
CleanCached == engine.cache \subseteq {CleanForward}
NothingCached == engine.cache = {}

BuildFacts(k) ==
  /\ NothingCached
  /\ k \in {2, 3, 4} => Gated
  /\ k \in {1, 2} => engine.awake = TRUE

CleanFacts(k) ==
  /\ CleanCached
  /\ k \in {1, 2, 3, 6, 7} => Gated
  /\ k \in {2, 3} => roll.route = Clean
  /\ k \in {3, 4} => Current
  /\ k \in {4, 5} => Open
  /\ k = 4 => engine.buffer = Ones

DualFacts(k) ==
  /\ k \in {1, 2, 11, 12} => Gated
  /\ k \in 2..8 => Current
  /\ k \in 3..10 => Open
  /\ k \in {4, 5, 7, 8, 10, 11, 12} => NothingCached
  /\ k = 5 => engine.buffer = Ones
  /\ k = 8 => engine.buffer = asked

InBuild == pc = "load" /\ \E k \in 1..4 : todo = Rest(BuildCall, k) /\ BuildFacts(k)
InClean == pc \in {"first", "validate"} /\ \E k \in 1..7 : todo = Rest(CleanCall, k) /\ CleanFacts(k)
InDual == pc = "update" /\ \E k \in 1..12 : todo = Rest(DualCall, k) /\ DualFacts(k)
Idle == pc \notin {"load", "update"} /\ todo = <<>> /\ Gated /\ CleanCached

Positioned == InBuild \/ InClean \/ InDual \/ Idle

Inv == Types /\ Stamped /\ Positioned /\ GeneratesAsAsked /\ PrefixesOfOwnForward

-----------------------------------------------------------------------------
(* What is left of a call.                                                    *)
LEMMA RestStep ==
  ASSUME NEW S, NEW call \in Seq(S), NEW k \in 1..Len(call)
  PROVE  /\ Rest(call, k) # <<>>
         /\ Head(Rest(call, k)) = call[k]
         /\ Tail(Rest(call, k)) = Rest(call, k + 1)
<1>1. Len(Rest(call, k)) = Len(call) - k + 1
  BY SubSeqProperties DEF Rest
<1>2. Rest(call, k) # <<>>
  BY <1>1
<1>3. Len(call) \in k..Len(call)
  OBVIOUS
<1> QED BY <1>2, <1>3, HeadTailOfSubSeq DEF Rest

LEMMA RestDone ==
  ASSUME NEW S, NEW call \in Seq(S)
  PROVE  Rest(call, Len(call) + 1) = <<>>
BY SubSeqEmpty DEF Rest

LEMMA RestWhole ==
  ASSUME NEW S, NEW call \in Seq(S)
  PROVE  Rest(call, 1) = call
BY SubSeqFull DEF Rest

LEMMA CallTypes ==
  /\ BuildCall \in Seq(Operations) /\ Len(BuildCall) = 3
  /\ CleanCall \in Seq(Operations) /\ Len(CleanCall) = 6
  /\ DualCall \in Seq(Operations) /\ Len(DualCall) = 11
BY DEF BuildCall, CleanCall, DualCall, Operations

\* A call is over exactly after its last operation.
LEMMA Over ==
  ASSUME NEW call \in Seq(Operations), NEW k \in 1..(Len(call) + 1),
         todo = Rest(call, k)
  PROVE  todo = <<>> <=> k = Len(call) + 1
<1>1. k \in 1..Len(call) \/ k = Len(call) + 1
  OBVIOUS
<1>2. CASE k \in 1..Len(call)
  BY <1>2, RestStep
<1>3. CASE k = Len(call) + 1
  BY <1>3, RestDone
<1> QED BY <1>1, <1>2, <1>3

LEMMA IdleBetweenCalls ==
  ASSUME Positioned, todo = <<>>
  PROVE  Gated /\ CleanCached /\ (pc \in {"load", "update"} => NothingCached)
<1>1. CASE InBuild
  <2>1. PICK k \in 1..4 : todo = Rest(BuildCall, k) /\ BuildFacts(k)
    BY <1>1 DEF InBuild
  <2>2. BuildCall \in Seq(Operations) /\ k \in 1..(Len(BuildCall) + 1)
    BY CallTypes
  <2>3. todo = <<>> <=> k = Len(BuildCall) + 1
    BY <2>1, <2>2, Over
  <2>4. k = 4
    BY <2>3, CallTypes
  <2> QED BY <2>1, <2>4 DEF BuildFacts, NothingCached, CleanCached
<1>2. CASE InClean
  <2>1. PICK k \in 1..7 : todo = Rest(CleanCall, k) /\ CleanFacts(k)
    BY <1>2 DEF InClean
  <2>2. CleanCall \in Seq(Operations) /\ k \in 1..(Len(CleanCall) + 1)
    BY CallTypes
  <2>3. todo = <<>> <=> k = Len(CleanCall) + 1
    BY <2>1, <2>2, Over
  <2>4. k = 7
    BY <2>3, CallTypes
  <2> QED BY <1>2, <2>1, <2>4 DEF CleanFacts, InClean
<1>3. CASE InDual
  <2>1. PICK k \in 1..12 : todo = Rest(DualCall, k) /\ DualFacts(k)
    BY <1>3 DEF InDual
  <2>2. DualCall \in Seq(Operations) /\ k \in 1..(Len(DualCall) + 1)
    BY CallTypes
  <2>3. todo = <<>> <=> k = Len(DualCall) + 1
    BY <2>1, <2>2, Over
  <2>4. k = 12
    BY <2>3, CallTypes
  <2> QED BY <2>1, <2>4 DEF DualFacts, NothingCached, CleanCached
<1>4. CASE Idle
  BY <1>4 DEF Idle
<1> QED BY <1>1, <1>2, <1>3, <1>4 DEF Positioned

-----------------------------------------------------------------------------
(* What each operation does, field by field.                                  *)
EngineButBuffer ==
  /\ engine'.awake = engine.awake /\ engine'.weights = engine.weights
  /\ engine'.cache = engine.cache

RollButRoute == roll'.mask = roll.mask /\ roll'.available = roll.available

LEMMA SetRouteDoes ==
  ASSUME Types, NEW route \in {Clean, Masked}, SetRoute(route)
  PROVE  /\ roll' \in [route : {Clean, Masked}, mask : Int, available : BOOLEAN]
         /\ engine' \in [awake : BOOLEAN, weights : Int, buffer : Int, cache : SUBSET Forwards]
         /\ roll'.route = route /\ RollButRoute /\ EngineButBuffer
         /\ ~roll.available => engine'.buffer = engine.buffer
         /\ roll.available => engine'.buffer = IF route = Clean THEN Ones ELSE roll.mask
<1>1. /\ roll' \in [route : {Clean, Masked}, mask : Int, available : BOOLEAN]
      /\ roll'.route = route /\ RollButRoute
  BY DEF Types, SetRoute, RollButRoute
<1>2. BufferAfter(roll') = IF roll.available
                             THEN IF route = Clean THEN Ones ELSE roll.mask ELSE engine.buffer
  BY <1>1 DEF BufferAfter, RouteBuffer, RollButRoute
<1>3. BufferAfter(roll') \in Int
  BY <1>2 DEF Types, Ones
<1>4. engine' = [engine EXCEPT !.buffer = BufferAfter(roll')]
  BY DEF SetRoute
<1> HIDE DEF BufferAfter
<1>5. engine'.buffer = BufferAfter(roll') /\ EngineButBuffer
  BY <1>4 DEF Types, EngineButBuffer
<1>6. engine' \in [awake : BOOLEAN, weights : Int, buffer : Int, cache : SUBSET Forwards]
  BY <1>3, <1>4 DEF Types
<1> QED BY <1>1, <1>2, <1>5, <1>6

LEMMA SetAvailableDoes ==
  ASSUME Types, NEW flag \in BOOLEAN, SetAvailable(flag)
  PROVE  /\ roll' \in [route : {Clean, Masked}, mask : Int, available : BOOLEAN]
         /\ engine' \in [awake : BOOLEAN, weights : Int, buffer : Int, cache : SUBSET Forwards]
         /\ roll'.available = flag /\ roll'.route = roll.route /\ roll'.mask = roll.mask
         /\ EngineButBuffer
         /\ ~flag \/ roll.available => engine'.buffer = engine.buffer
         /\ flag /\ ~roll.available =>
              engine'.buffer = IF roll.route = Clean THEN Ones ELSE roll.mask
<1> DEFINE copied == IF flag /\ ~roll.available THEN BufferAfter(roll') ELSE engine.buffer
<1>1. /\ roll' \in [route : {Clean, Masked}, mask : Int, available : BOOLEAN]
      /\ roll'.available = flag /\ roll'.route = roll.route /\ roll'.mask = roll.mask
  BY DEF Types, SetAvailable
<1>2. flag => BufferAfter(roll') = IF roll.route = Clean THEN Ones ELSE roll.mask
  BY <1>1 DEF BufferAfter, RouteBuffer
<1>3. copied \in Int
  BY <1>2 DEF Types, Ones
<1>4. engine' = [engine EXCEPT !.buffer = copied]
  BY DEF SetAvailable
<1>5. /\ ~flag \/ roll.available => copied = engine.buffer
      /\ flag /\ ~roll.available => copied = IF roll.route = Clean THEN Ones ELSE roll.mask
  BY <1>2 DEF Types
<1> HIDE DEF copied
<1>6. engine'.buffer = copied /\ EngineButBuffer
  BY <1>4 DEF Types, EngineButBuffer
<1>7. engine' \in [awake : BOOLEAN, weights : Int, buffer : Int, cache : SUBSET Forwards]
  BY <1>3, <1>4 DEF Types
<1> QED BY <1>1, <1>5, <1>6, <1>7

LEMMA RolloutModeDoes ==
  ASSUME Types, RolloutMode
  PROVE  /\ engine' \in [awake : BOOLEAN, weights : Int, buffer : Int, cache : SUBSET Forwards]
         /\ engine'.awake = TRUE /\ engine'.weights = actor.weights
         /\ engine'.cache = engine.cache
<1>1. PICK content \in {engine.buffer} \cup IF engine.awake THEN {} ELSE {Lost} :
        engine' = [engine EXCEPT !.awake = TRUE, !.weights = actor.weights, !.buffer = content]
  BY DEF RolloutMode
<1>2. content \in Int
  BY DEF Types, Lost
<1>3. actor.weights \in Int
  BY DEF Types
<1> DEFINE pushed == actor.weights
           woken == [engine EXCEPT !.awake = TRUE]
           loaded == [woken EXCEPT !.weights = pushed]
<1> HIDE DEF pushed
<1>4. /\ woken \in [awake : BOOLEAN, weights : Int, buffer : Int, cache : SUBSET Forwards]
      /\ woken.awake = TRUE /\ woken.cache = engine.cache
  BY DEF Types
<1> HIDE DEF woken
<1>5. /\ loaded \in [awake : BOOLEAN, weights : Int, buffer : Int, cache : SUBSET Forwards]
      /\ loaded.awake = TRUE /\ loaded.weights = pushed /\ loaded.cache = engine.cache
  BY <1>3, <1>4 DEF pushed
<1>6. engine' = [loaded EXCEPT !.buffer = content]
  BY <1>1 DEF loaded, woken, pushed, Types
<1> HIDE DEF loaded
<1>7. /\ engine' \in [awake : BOOLEAN, weights : Int, buffer : Int, cache : SUBSET Forwards]
      /\ engine'.awake = TRUE /\ engine'.weights = pushed /\ engine'.cache = engine.cache
  BY <1>2, <1>5, <1>6
<1> QED BY <1>7 DEF pushed

LEMMA TrainerModeDoes ==
  ASSUME Types, TrainerMode
  PROVE  /\ engine' \in [awake : BOOLEAN, weights : Int, buffer : Int, cache : SUBSET Forwards]
         /\ engine'.buffer = engine.buffer
         /\ engine'.cache \subseteq engine.cache
<1>1. CASE freeCache
  <2> DEFINE asleep == [engine EXCEPT !.awake = FALSE]
  <2>1. asleep \in [awake : BOOLEAN, weights : Int, buffer : Int, cache : SUBSET Forwards]
        /\ asleep.buffer = engine.buffer
    BY DEF Types
  <2>2. engine' = [asleep EXCEPT !.cache = {}]
    BY <1>1 DEF TrainerMode, Types
  <2> HIDE DEF asleep
  <2> QED BY <2>1, <2>2
<1>2. CASE ~freeCache
  BY <1>2 DEF TrainerMode, Types
<1> QED BY <1>1, <1>2

LEMMA ResetDoes ==
  ASSUME Types, ResetPrefixCache
  PROVE  /\ engine' \in [awake : BOOLEAN, weights : Int, buffer : Int, cache : SUBSET Forwards]
         /\ engine'.awake = engine.awake /\ engine'.weights = engine.weights
         /\ engine'.buffer = engine.buffer /\ engine'.cache = {}
BY DEF Types, ResetPrefixCache

\* A generation that finds its buffer, its weights and its cache in order.
LEMMA GenerateDoes ==
  ASSUME Types, NEW route \in {Clean, Masked}, Generate(route),
         engine.weights = actor.weights,
         engine.buffer = IF route = Clean THEN Ones ELSE asked,
         engine.cache \subseteq {[buffer |-> engine.buffer, weights |-> actor.weights]}
  PROVE  /\ engine' \in [awake : BOOLEAN, weights : Int, buffer : Int, cache : SUBSET Forwards]
         /\ engine'.awake = engine.awake /\ engine'.weights = engine.weights
         /\ engine'.buffer = engine.buffer
         /\ engine'.cache = {[buffer |-> engine.buffer, weights |-> actor.weights]}
         /\ GeneratesAsAsked' /\ PrefixesOfOwnForward'
<1> DEFINE ran == [buffer |-> engine.buffer, weights |-> engine.weights]
           wanted == [buffer |-> IF route = Clean THEN Ones ELSE asked, weights |-> actor.weights]
           g == [route |-> route, wanted |-> wanted, ran |-> ran, reused |-> engine.cache]
           cached == engine.cache \cup {ran}
<1>1. ran = wanted /\ ran \in Forwards /\ cached = {ran} /\ engine.cache \subseteq {ran}
      /\ ran = [buffer |-> engine.buffer, weights |-> actor.weights]
  BY DEF Types, Forwards
<1>2. generated' = {g} /\ engine' = [engine EXCEPT !.cache = cached]
  BY DEF Generate
<1> HIDE DEF ran, wanted, cached
<1>3. g.ran = ran /\ g.wanted = wanted /\ g.reused = engine.cache
  OBVIOUS
<1> HIDE DEF g
<1>4. GeneratesAsAsked' /\ PrefixesOfOwnForward'
  BY <1>1, <1>2, <1>3 DEF GeneratesAsAsked, PrefixesOfOwnForward
<1>5. cached \in SUBSET Forwards
  BY <1>1
<1>6. /\ engine' \in [awake : BOOLEAN, weights : Int, buffer : Int, cache : SUBSET Forwards]
      /\ engine'.awake = engine.awake /\ engine'.weights = engine.weights
      /\ engine'.buffer = engine.buffer /\ engine'.cache = cached
  BY <1>2, <1>5 DEF Types
<1> QED BY <1>1, <1>4, <1>6

-----------------------------------------------------------------------------
(* One operation of a call.                                                   *)
StorageKept == engine.awake \/ engine'.awake \/ engine'.buffer = engine.buffer
History == GeneratesAsAsked /\ PrefixesOfOwnForward

LEMMA HistoryKept ==
  ASSUME History, UNCHANGED generated
  PROVE  History'
BY DEF History, GeneratesAsAsked, PrefixesOfOwnForward

LEMMA OperationOf ==
  /\ Do("rollout_mode") => RolloutMode
  /\ Do("trainer_mode") => TrainerMode
  /\ Do("available") => SetAvailable(TRUE)
  /\ Do("unavailable") => SetAvailable(FALSE)
  /\ Do("install") => Reregister
  /\ Do("reset") => ResetPrefixCache
  /\ Do("set_clean") => SetRoute(Clean)
  /\ Do("set_masked") => SetRoute(Masked)
  /\ Do("generate_clean") => Generate(Clean)
  /\ Do("generate_masked") => Generate(Masked)
BY DEF Do

\* What WorkerStep and every operation leave alone.
Frame == UNCHANGED <<freeCache, pc, step, asked, actor, saved>>

LEMMA FrameOfStep ==
  ASSUME WorkerStep
  PROVE  Frame
BY DEF WorkerStep, Do, Frame, RolloutMode, TrainerMode, SetAvailable, Reregister,
       ResetPrefixCache, SetRoute, Generate, worker

LEMMA BuildStep ==
  ASSUME Types, Stamped, History, InBuild, WorkerStep
  PROVE  Types' /\ Stamped' /\ History' /\ InBuild' /\ StorageKept
<1>1. PICK k \in 1..4 : todo = Rest(BuildCall, k) /\ BuildFacts(k)
  BY DEF InBuild
<1>2. BuildCall \in Seq(Operations) /\ Len(BuildCall) = 3
  BY CallTypes
<1>3. k \in 1..3
  <2>1. Rest(BuildCall, Len(BuildCall) + 1) = <<>>
    BY <1>2, RestDone
  <2>2. Len(BuildCall) + 1 = 4
    BY <1>2
  <2> QED BY <1>1, <2>1, <2>2 DEF WorkerStep
<1>4. Do(BuildCall[k]) /\ todo' = Rest(BuildCall, k + 1)
  BY <1>1, <1>2, <1>3, RestStep DEF WorkerStep
<1>5. Frame
  BY FrameOfStep
<1>6. BuildFacts(k + 1)' => InBuild'
  BY <1>3, <1>4, <1>5 DEF InBuild, Frame
<1>7. CASE k = 1
  <2>1. SetAvailable(FALSE)
    BY <1>4, <1>7, OperationOf DEF BuildCall
  <2>2. BuildFacts(1)
    BY <1>1, <1>7
  <2>3. UNCHANGED generated
    BY <2>1 DEF SetAvailable
  <2>4. /\ roll' \in [route : {Clean, Masked}, mask : Int, available : BOOLEAN]
        /\ engine' \in [awake : BOOLEAN, weights : Int, buffer : Int, cache : SUBSET Forwards]
        /\ roll'.available = FALSE /\ roll'.route = roll.route /\ roll'.mask = roll.mask
        /\ EngineButBuffer /\ engine'.buffer = engine.buffer
    BY <2>1, SetAvailableDoes
  <2>5. Types' /\ Stamped' /\ StorageKept /\ History'
    BY <1>5, <2>2, <2>3, <2>4, HistoryKept
    DEF Types, Stamped, StorageKept, Frame, EngineButBuffer, BuildFacts, Gated, Open, Current, CleanCached, NothingCached, CleanForward
  <2>6. BuildFacts(2)'
    BY <1>5, <2>2, <2>4 DEF BuildFacts, Gated, Open, Current, CleanCached, NothingCached, CleanForward, Frame, EngineButBuffer
  <2> QED BY <1>6, <1>7, <2>5, <2>6
<1>8. CASE k = 2
  <2>1. TrainerMode
    BY <1>4, <1>8, OperationOf DEF BuildCall
  <2>2. BuildFacts(2)
    BY <1>1, <1>8
  <2>3. roll' = roll /\ UNCHANGED generated
    BY <2>1 DEF TrainerMode
  <2>4. Types' /\ Stamped' /\ StorageKept /\ History'
    BY <1>5, <2>1, <2>2, <2>3, TrainerModeDoes, HistoryKept
    DEF Types, Stamped, StorageKept, Frame, EngineButBuffer, BuildFacts, Gated, Open, Current, CleanCached, NothingCached, CleanForward
  <2>5. BuildFacts(3)'
    BY <1>5, <2>1, <2>2, <2>3, TrainerModeDoes
    DEF BuildFacts, Gated, Open, Current, CleanCached, NothingCached, CleanForward, Frame, EngineButBuffer, Stamped
  <2> QED BY <1>6, <1>8, <2>4, <2>5
<1>9. CASE k = 3
  <2>1. Reregister
    BY <1>4, <1>9, OperationOf DEF BuildCall
  <2>2. BuildFacts(3)
    BY <1>1, <1>9
  <2>3. UNCHANGED <<roll, engine, generated>>
    BY <2>1 DEF Reregister, worker
  <2>4. Types' /\ Stamped' /\ StorageKept /\ History'
    BY <1>5, <2>3, HistoryKept DEF Types, Stamped, StorageKept, Frame
  <2>5. BuildFacts(4)'
    BY <2>2, <2>3 DEF BuildFacts, Gated, Open, Current, CleanCached, NothingCached, CleanForward
  <2> QED BY <1>6, <1>9, <2>4, <2>5
<1> QED BY <1>3, <1>7, <1>8, <1>9

LEMMA CleanStep ==
  ASSUME Types, Stamped, History, InClean, WorkerStep
  PROVE  Types' /\ Stamped' /\ History' /\ InClean' /\ StorageKept
<1>1. PICK k \in 1..7 : todo = Rest(CleanCall, k) /\ CleanFacts(k)
  BY DEF InClean
<1>2. CleanCall \in Seq(Operations) /\ Len(CleanCall) = 6
  BY CallTypes
<1>3. k \in 1..6
  <2>1. Rest(CleanCall, Len(CleanCall) + 1) = <<>>
    BY <1>2, RestDone
  <2>2. Len(CleanCall) + 1 = 7
    BY <1>2
  <2> QED BY <1>1, <2>1, <2>2 DEF WorkerStep
<1>4. Do(CleanCall[k]) /\ todo' = Rest(CleanCall, k + 1)
  BY <1>1, <1>2, <1>3, RestStep DEF WorkerStep
<1>5. Frame
  BY FrameOfStep
<1>6. CleanFacts(k + 1)' => InClean'
  BY <1>3, <1>4, <1>5 DEF InClean, Frame
<1>7. CASE k = 1
  <2>1. SetRoute(Clean)
    BY <1>4, <1>7, OperationOf DEF CleanCall
  <2>2. CleanFacts(1)
    BY <1>1, <1>7
  <2>3. UNCHANGED generated
    BY <2>1 DEF SetRoute
  <2>4. Types' /\ Stamped' /\ StorageKept /\ History'
    BY <1>5, <2>1, <2>2, <2>3, SetRouteDoes, HistoryKept
    DEF Types, Stamped, StorageKept, Frame, RollButRoute, EngineButBuffer, CleanFacts, Gated, Open, Current, CleanCached, NothingCached, CleanForward
  <2>5. CleanFacts(2)'
    BY <1>5, <2>1, <2>2, <2>3, SetRouteDoes
    DEF CleanFacts, Gated, Open, Current, CleanCached, NothingCached, CleanForward, Frame, RollButRoute, EngineButBuffer, Stamped, Clean, Masked
  <2> QED BY <1>6, <1>7, <2>4, <2>5
<1>8. CASE k = 2
  <2>1. RolloutMode
    BY <1>4, <1>8, OperationOf DEF CleanCall
  <2>2. CleanFacts(2)
    BY <1>1, <1>8
  <2>3. UNCHANGED generated
    BY <2>1 DEF RolloutMode
  <2>4. /\ roll' = roll
        /\ engine' \in [awake : BOOLEAN, weights : Int, buffer : Int, cache : SUBSET Forwards]
        /\ engine'.awake = TRUE /\ engine'.weights = actor.weights /\ engine'.cache = engine.cache
    BY <2>1, RolloutModeDoes DEF RolloutMode
  <2>5. Types' /\ Stamped' /\ StorageKept /\ History'
    BY <1>5, <2>2, <2>3, <2>4, HistoryKept
    DEF Types, Stamped, StorageKept, Frame, EngineButBuffer, CleanFacts, Gated, Open, Current, CleanCached, NothingCached, CleanForward
  <2>6. CleanFacts(3)'
    BY <1>5, <2>2, <2>4 DEF CleanFacts, Gated, Open, Current, CleanCached, NothingCached, CleanForward, Frame, EngineButBuffer
  <2> QED BY <1>6, <1>8, <2>5, <2>6
<1>9. CASE k = 3
  <2>1. SetAvailable(TRUE)
    BY <1>4, <1>9, OperationOf DEF CleanCall
  <2>2. CleanFacts(3)
    BY <1>1, <1>9
  <2>3. UNCHANGED generated
    BY <2>1 DEF SetAvailable
  <2>4. /\ roll' \in [route : {Clean, Masked}, mask : Int, available : BOOLEAN]
        /\ engine' \in [awake : BOOLEAN, weights : Int, buffer : Int, cache : SUBSET Forwards]
        /\ roll'.available = TRUE /\ roll'.route = roll.route /\ roll'.mask = roll.mask
        /\ EngineButBuffer
        /\ ~roll.available =>
             engine'.buffer = IF roll.route = Clean THEN Ones ELSE roll.mask
    BY <2>1, SetAvailableDoes
  <2>5. Types' /\ Stamped' /\ StorageKept /\ History'
    BY <1>5, <2>2, <2>3, <2>4, HistoryKept
    DEF Types, Stamped, StorageKept, Frame, EngineButBuffer, CleanFacts, Gated, Open, Current, CleanCached, NothingCached, CleanForward
  <2>6. CleanFacts(4)'
    BY <1>5, <2>2, <2>4 DEF CleanFacts, Gated, Open, Current, CleanCached, NothingCached, CleanForward, Frame, EngineButBuffer
  <2> QED BY <1>6, <1>9, <2>5, <2>6
<1>10. CASE k = 4
  <2>1. Generate(Clean)
    BY <1>4, <1>10, OperationOf DEF CleanCall
  <2>2. CleanFacts(4)
    BY <1>1, <1>10
  <2>3. /\ engine.weights = actor.weights /\ engine.buffer = Ones
        /\ engine.cache \subseteq {[buffer |-> engine.buffer, weights |-> actor.weights]}
    BY <2>2 DEF CleanFacts, Gated, Open, Current, CleanCached, NothingCached, CleanForward
  <2>4. /\ engine' \in [awake : BOOLEAN, weights : Int, buffer : Int, cache : SUBSET Forwards]
        /\ engine'.awake = engine.awake /\ engine'.weights = engine.weights
        /\ engine'.buffer = engine.buffer
        /\ engine'.cache = {[buffer |-> engine.buffer, weights |-> actor.weights]}
        /\ History'
    BY <2>1, <2>3, GenerateDoes DEF History, Clean, Masked
  <2>5. roll' = roll
    BY <2>1 DEF Generate
  <2>6. Types' /\ Stamped' /\ StorageKept
    BY <1>5, <2>4, <2>5 DEF Types, Stamped, StorageKept, Frame
  <2>7. CleanFacts(5)'
    BY <1>5, <2>2, <2>3, <2>4, <2>5 DEF CleanFacts, Gated, Open, Current, CleanCached, NothingCached, CleanForward, Frame
  <2> QED BY <1>6, <1>10, <2>4, <2>6, <2>7
<1>11. CASE k = 5
  <2>1. SetAvailable(FALSE)
    BY <1>4, <1>11, OperationOf DEF CleanCall
  <2>2. CleanFacts(5)
    BY <1>1, <1>11
  <2>3. UNCHANGED generated
    BY <2>1 DEF SetAvailable
  <2>4. /\ roll' \in [route : {Clean, Masked}, mask : Int, available : BOOLEAN]
        /\ engine' \in [awake : BOOLEAN, weights : Int, buffer : Int, cache : SUBSET Forwards]
        /\ roll'.available = FALSE /\ roll'.route = roll.route /\ roll'.mask = roll.mask
        /\ EngineButBuffer /\ engine'.buffer = engine.buffer
    BY <2>1, SetAvailableDoes
  <2>5. Types' /\ Stamped' /\ StorageKept /\ History'
    BY <1>5, <2>2, <2>3, <2>4, HistoryKept
    DEF Types, Stamped, StorageKept, Frame, EngineButBuffer, CleanFacts, Gated, Open, Current, CleanCached, NothingCached, CleanForward
  <2>6. CleanFacts(6)'
    BY <1>5, <2>2, <2>4 DEF CleanFacts, Gated, Open, Current, CleanCached, NothingCached, CleanForward, Frame, EngineButBuffer
  <2> QED BY <1>6, <1>11, <2>5, <2>6
<1>12. CASE k = 6
  <2>1. TrainerMode
    BY <1>4, <1>12, OperationOf DEF CleanCall
  <2>2. CleanFacts(6)
    BY <1>1, <1>12
  <2>3. roll' = roll /\ UNCHANGED generated
    BY <2>1 DEF TrainerMode
  <2>4. Types' /\ Stamped' /\ StorageKept /\ History'
    BY <1>5, <2>1, <2>2, <2>3, TrainerModeDoes, HistoryKept
    DEF Types, Stamped, StorageKept, Frame, EngineButBuffer, CleanFacts, Gated, Open, Current, CleanCached, NothingCached, CleanForward
  <2>5. CleanFacts(7)'
    BY <1>5, <2>1, <2>2, <2>3, TrainerModeDoes
    DEF CleanFacts, Gated, Open, Current, CleanCached, NothingCached, CleanForward, Frame, EngineButBuffer, Stamped
  <2> QED BY <1>6, <1>12, <2>4, <2>5
<1> QED BY <1>3, <1>7, <1>8, <1>9, <1>10, <1>11, <1>12

LEMMA DualStep ==
  ASSUME Types, Stamped, History, InDual, WorkerStep
  PROVE  Types' /\ Stamped' /\ History' /\ InDual' /\ StorageKept
<1>1. PICK k \in 1..12 : todo = Rest(DualCall, k) /\ DualFacts(k)
  BY DEF InDual
<1>2. DualCall \in Seq(Operations) /\ Len(DualCall) = 11
  BY CallTypes
<1>3. k \in 1..11
  <2>1. Rest(DualCall, Len(DualCall) + 1) = <<>>
    BY <1>2, RestDone
  <2>2. Len(DualCall) + 1 = 12
    BY <1>2
  <2> QED BY <1>1, <2>1, <2>2 DEF WorkerStep
<1>4. Do(DualCall[k]) /\ todo' = Rest(DualCall, k + 1)
  BY <1>1, <1>2, <1>3, RestStep DEF WorkerStep
<1>5. Frame
  BY FrameOfStep
<1>6. DualFacts(k + 1)' => InDual'
  BY <1>3, <1>4, <1>5 DEF InDual, Frame
<1>7. CASE k = 1
  <2>1. RolloutMode
    BY <1>4, <1>7, OperationOf DEF DualCall
  <2>2. DualFacts(1)
    BY <1>1, <1>7
  <2>3. UNCHANGED generated
    BY <2>1 DEF RolloutMode
  <2>4. /\ roll' = roll
        /\ engine' \in [awake : BOOLEAN, weights : Int, buffer : Int, cache : SUBSET Forwards]
        /\ engine'.awake = TRUE /\ engine'.weights = actor.weights /\ engine'.cache = engine.cache
    BY <2>1, RolloutModeDoes DEF RolloutMode
  <2>5. Types' /\ Stamped' /\ StorageKept /\ History'
    BY <1>5, <2>2, <2>3, <2>4, HistoryKept
    DEF Types, Stamped, StorageKept, Frame, EngineButBuffer, DualFacts, Gated, Open, Current, CleanCached, NothingCached, CleanForward
  <2>6. DualFacts(2)'
    BY <1>5, <2>2, <2>4 DEF DualFacts, Gated, Open, Current, CleanCached, NothingCached, CleanForward, Frame, EngineButBuffer
  <2> QED BY <1>6, <1>7, <2>5, <2>6
<1>8. CASE k = 2
  <2>1. SetAvailable(TRUE)
    BY <1>4, <1>8, OperationOf DEF DualCall
  <2>2. DualFacts(2)
    BY <1>1, <1>8
  <2>3. UNCHANGED generated
    BY <2>1 DEF SetAvailable
  <2>4. /\ roll' \in [route : {Clean, Masked}, mask : Int, available : BOOLEAN]
        /\ engine' \in [awake : BOOLEAN, weights : Int, buffer : Int, cache : SUBSET Forwards]
        /\ roll'.available = TRUE /\ roll'.route = roll.route /\ roll'.mask = roll.mask
        /\ EngineButBuffer
        /\ ~roll.available =>
             engine'.buffer = IF roll.route = Clean THEN Ones ELSE roll.mask
    BY <2>1, SetAvailableDoes
  <2>5. Types' /\ Stamped' /\ StorageKept /\ History'
    BY <1>5, <2>2, <2>3, <2>4, HistoryKept
    DEF Types, Stamped, StorageKept, Frame, EngineButBuffer, DualFacts, Gated, Open, Current, CleanCached, NothingCached, CleanForward
  <2>6. DualFacts(3)'
    BY <1>5, <2>2, <2>4 DEF DualFacts, Gated, Open, Current, CleanCached, NothingCached, CleanForward, Frame, EngineButBuffer
  <2> QED BY <1>6, <1>8, <2>5, <2>6
<1>9. CASE k = 3
  <2>1. ResetPrefixCache
    BY <1>4, <1>9, OperationOf DEF DualCall
  <2>2. DualFacts(3)
    BY <1>1, <1>9
  <2>3. roll' = roll /\ UNCHANGED generated
    BY <2>1 DEF ResetPrefixCache
  <2>4. Types' /\ Stamped' /\ StorageKept /\ History'
    BY <1>5, <2>1, <2>2, <2>3, ResetDoes, HistoryKept
    DEF Types, Stamped, StorageKept, Frame, EngineButBuffer, DualFacts, Gated, Open, Current, CleanCached, NothingCached, CleanForward
  <2>5. DualFacts(4)'
    BY <1>5, <2>1, <2>2, <2>3, ResetDoes
    DEF DualFacts, Gated, Open, Current, CleanCached, NothingCached, CleanForward, Frame, EngineButBuffer, Stamped
  <2> QED BY <1>6, <1>9, <2>4, <2>5
<1>10. CASE k = 4
  <2>1. SetRoute(Clean)
    BY <1>4, <1>10, OperationOf DEF DualCall
  <2>2. DualFacts(4)
    BY <1>1, <1>10
  <2>3. UNCHANGED generated
    BY <2>1 DEF SetRoute
  <2>4. Types' /\ Stamped' /\ StorageKept /\ History'
    BY <1>5, <2>1, <2>2, <2>3, SetRouteDoes, HistoryKept
    DEF Types, Stamped, StorageKept, Frame, RollButRoute, EngineButBuffer, DualFacts, Gated, Open, Current, CleanCached, NothingCached, CleanForward
  <2>5. DualFacts(5)'
    BY <1>5, <2>1, <2>2, <2>3, SetRouteDoes
    DEF DualFacts, Gated, Open, Current, CleanCached, NothingCached, CleanForward, Frame, RollButRoute, EngineButBuffer, Stamped, Clean, Masked
  <2> QED BY <1>6, <1>10, <2>4, <2>5
<1>11. CASE k = 5
  <2>1. Generate(Clean)
    BY <1>4, <1>11, OperationOf DEF DualCall
  <2>2. DualFacts(5)
    BY <1>1, <1>11
  <2>3. /\ engine.weights = actor.weights /\ engine.buffer = Ones
        /\ engine.cache \subseteq {[buffer |-> engine.buffer, weights |-> actor.weights]}
    BY <2>2 DEF DualFacts, Gated, Open, Current, CleanCached, NothingCached, CleanForward
  <2>4. /\ engine' \in [awake : BOOLEAN, weights : Int, buffer : Int, cache : SUBSET Forwards]
        /\ engine'.awake = engine.awake /\ engine'.weights = engine.weights
        /\ engine'.buffer = engine.buffer
        /\ engine'.cache = {[buffer |-> engine.buffer, weights |-> actor.weights]}
        /\ History'
    BY <2>1, <2>3, GenerateDoes DEF History, Clean, Masked
  <2>5. roll' = roll
    BY <2>1 DEF Generate
  <2>6. Types' /\ Stamped' /\ StorageKept
    BY <1>5, <2>4, <2>5 DEF Types, Stamped, StorageKept, Frame
  <2>7. DualFacts(6)'
    BY <1>5, <2>2, <2>3, <2>4, <2>5 DEF DualFacts, Gated, Open, Current, CleanCached, NothingCached, CleanForward, Frame
  <2> QED BY <1>6, <1>11, <2>4, <2>6, <2>7
<1>12. CASE k = 6
  <2>1. ResetPrefixCache
    BY <1>4, <1>12, OperationOf DEF DualCall
  <2>2. DualFacts(6)
    BY <1>1, <1>12
  <2>3. roll' = roll /\ UNCHANGED generated
    BY <2>1 DEF ResetPrefixCache
  <2>4. Types' /\ Stamped' /\ StorageKept /\ History'
    BY <1>5, <2>1, <2>2, <2>3, ResetDoes, HistoryKept
    DEF Types, Stamped, StorageKept, Frame, EngineButBuffer, DualFacts, Gated, Open, Current, CleanCached, NothingCached, CleanForward
  <2>5. DualFacts(7)'
    BY <1>5, <2>1, <2>2, <2>3, ResetDoes
    DEF DualFacts, Gated, Open, Current, CleanCached, NothingCached, CleanForward, Frame, EngineButBuffer, Stamped
  <2> QED BY <1>6, <1>12, <2>4, <2>5
<1>13. CASE k = 7
  <2>1. SetRoute(Masked)
    BY <1>4, <1>13, OperationOf DEF DualCall
  <2>2. DualFacts(7)
    BY <1>1, <1>13
  <2>3. UNCHANGED generated
    BY <2>1 DEF SetRoute
  <2>4. Types' /\ Stamped' /\ StorageKept /\ History'
    BY <1>5, <2>1, <2>2, <2>3, SetRouteDoes, HistoryKept
    DEF Types, Stamped, StorageKept, Frame, RollButRoute, EngineButBuffer, DualFacts, Gated, Open, Current, CleanCached, NothingCached, CleanForward
  <2>5. DualFacts(8)'
    BY <1>5, <2>1, <2>2, <2>3, SetRouteDoes
    DEF DualFacts, Gated, Open, Current, CleanCached, NothingCached, CleanForward, Frame, RollButRoute, EngineButBuffer, Stamped, Clean, Masked
  <2> QED BY <1>6, <1>13, <2>4, <2>5
<1>14. CASE k = 8
  <2>1. Generate(Masked)
    BY <1>4, <1>14, OperationOf DEF DualCall
  <2>2. DualFacts(8)
    BY <1>1, <1>14
  <2>3. /\ engine.weights = actor.weights /\ engine.buffer = asked
        /\ engine.cache \subseteq {[buffer |-> engine.buffer, weights |-> actor.weights]}
    BY <2>2 DEF DualFacts, Gated, Open, Current, CleanCached, NothingCached, CleanForward
  <2>4. /\ engine' \in [awake : BOOLEAN, weights : Int, buffer : Int, cache : SUBSET Forwards]
        /\ engine'.awake = engine.awake /\ engine'.weights = engine.weights
        /\ engine'.buffer = engine.buffer
        /\ engine'.cache = {[buffer |-> engine.buffer, weights |-> actor.weights]}
        /\ History'
    BY <2>1, <2>3, GenerateDoes DEF History, Clean, Masked
  <2>5. roll' = roll
    BY <2>1 DEF Generate
  <2>6. Types' /\ Stamped' /\ StorageKept
    BY <1>5, <2>4, <2>5 DEF Types, Stamped, StorageKept, Frame
  <2>7. DualFacts(9)'
    BY <1>5, <2>2, <2>3, <2>4, <2>5 DEF DualFacts, Gated, Open, Current, CleanCached, NothingCached, CleanForward, Frame
  <2> QED BY <1>6, <1>14, <2>4, <2>6, <2>7
<1>15. CASE k = 9
  <2>1. ResetPrefixCache
    BY <1>4, <1>15, OperationOf DEF DualCall
  <2>2. DualFacts(9)
    BY <1>1, <1>15
  <2>3. roll' = roll /\ UNCHANGED generated
    BY <2>1 DEF ResetPrefixCache
  <2>4. Types' /\ Stamped' /\ StorageKept /\ History'
    BY <1>5, <2>1, <2>2, <2>3, ResetDoes, HistoryKept
    DEF Types, Stamped, StorageKept, Frame, EngineButBuffer, DualFacts, Gated, Open, Current, CleanCached, NothingCached, CleanForward
  <2>5. DualFacts(10)'
    BY <1>5, <2>1, <2>2, <2>3, ResetDoes
    DEF DualFacts, Gated, Open, Current, CleanCached, NothingCached, CleanForward, Frame, EngineButBuffer, Stamped
  <2> QED BY <1>6, <1>15, <2>4, <2>5
<1>16. CASE k = 10
  <2>1. SetAvailable(FALSE)
    BY <1>4, <1>16, OperationOf DEF DualCall
  <2>2. DualFacts(10)
    BY <1>1, <1>16
  <2>3. UNCHANGED generated
    BY <2>1 DEF SetAvailable
  <2>4. /\ roll' \in [route : {Clean, Masked}, mask : Int, available : BOOLEAN]
        /\ engine' \in [awake : BOOLEAN, weights : Int, buffer : Int, cache : SUBSET Forwards]
        /\ roll'.available = FALSE /\ roll'.route = roll.route /\ roll'.mask = roll.mask
        /\ EngineButBuffer /\ engine'.buffer = engine.buffer
    BY <2>1, SetAvailableDoes
  <2>5. Types' /\ Stamped' /\ StorageKept /\ History'
    BY <1>5, <2>2, <2>3, <2>4, HistoryKept
    DEF Types, Stamped, StorageKept, Frame, EngineButBuffer, DualFacts, Gated, Open, Current, CleanCached, NothingCached, CleanForward
  <2>6. DualFacts(11)'
    BY <1>5, <2>2, <2>4 DEF DualFacts, Gated, Open, Current, CleanCached, NothingCached, CleanForward, Frame, EngineButBuffer
  <2> QED BY <1>6, <1>16, <2>5, <2>6
<1>17. CASE k = 11
  <2>1. TrainerMode
    BY <1>4, <1>17, OperationOf DEF DualCall
  <2>2. DualFacts(11)
    BY <1>1, <1>17
  <2>3. roll' = roll /\ UNCHANGED generated
    BY <2>1 DEF TrainerMode
  <2>4. Types' /\ Stamped' /\ StorageKept /\ History'
    BY <1>5, <2>1, <2>2, <2>3, TrainerModeDoes, HistoryKept
    DEF Types, Stamped, StorageKept, Frame, EngineButBuffer, DualFacts, Gated, Open, Current, CleanCached, NothingCached, CleanForward
  <2>5. DualFacts(12)'
    BY <1>5, <2>1, <2>2, <2>3, TrainerModeDoes
    DEF DualFacts, Gated, Open, Current, CleanCached, NothingCached, CleanForward, Frame, EngineButBuffer, Stamped
  <2> QED BY <1>6, <1>17, <2>4, <2>5
<1> QED BY <1>3, <1>7, <1>8, <1>9, <1>10, <1>11, <1>12, <1>13, <1>14, <1>15, <1>16, <1>17

-----------------------------------------------------------------------------
(* The driver's steps, between the calls.                                     *)
LEMMA MaskCopied ==
  ASSUME Types, Gated, NEW m \in Int,
         roll' = [roll EXCEPT !.mask = m],
         engine' = [engine EXCEPT !.buffer = BufferAfter(roll')]
  PROVE  /\ roll' \in [route : {Clean, Masked}, mask : Int, available : BOOLEAN]
         /\ engine' \in [awake : BOOLEAN, weights : Int, buffer : Int, cache : SUBSET Forwards]
         /\ roll'.mask = m /\ Gated' /\ EngineButBuffer /\ engine'.buffer = engine.buffer
<1>1. /\ roll' \in [route : {Clean, Masked}, mask : Int, available : BOOLEAN]
      /\ roll'.mask = m /\ Gated'
  BY DEF Types, Gated
<1>2. BufferAfter(roll') = engine.buffer
  BY <1>1 DEF BufferAfter, Gated
<1>3. engine' = engine
  BY <1>2 DEF Types
<1> QED BY <1>1, <1>3 DEF Types, EngineButBuffer

LEMMA DriverStep ==
  ASSUME Types, Stamped, History, Positioned,
         \/ Load \/ Validate \/ Proceed \/ RefreshMlpMask \/ GenerateDual
         \/ UpdateActor \/ EndStep \/ Restart
  PROVE  Types' /\ Stamped' /\ History' /\ Positioned' /\ StorageKept
<1>1. ASSUME todo = <<>>
      PROVE  Gated /\ CleanCached /\ (pc \in {"load", "update"} => NothingCached)
  BY <1>1, IdleBetweenCalls
<1>2. Idle' \/ InBuild' \/ InClean' \/ InDual' => Positioned'
  BY DEF Positioned
<1>3. CASE Load
  <2>1. Gated /\ NothingCached /\ saved.mask \in Int /\ saved.weights \in Int
    BY <1>1, <1>3 DEF Load, Driver, Types
  <2>2. /\ roll' \in [route : {Clean, Masked}, mask : Int, available : BOOLEAN]
        /\ engine' \in [awake : BOOLEAN, weights : Int, buffer : Int, cache : SUBSET Forwards]
        /\ roll'.mask = saved.mask /\ Gated' /\ EngineButBuffer /\ engine'.buffer = engine.buffer
    BY <1>3, <2>1, MaskCopied DEF Load
  <2>3. Types' /\ Stamped' /\ StorageKept
    BY <1>3, <2>1, <2>2 DEF Load, Driver, Types, Phases, Stamped, StorageKept
  <2>4. Idle'
    BY <1>3, <2>1, <2>2 DEF Load, Driver, Idle, NothingCached, CleanCached, EngineButBuffer
  <2>5. History'
    BY <1>3, HistoryKept DEF Load
  <2> QED BY <1>2, <2>3, <2>4, <2>5
<1>4. CASE Validate
  <2>1. Types' /\ Stamped' /\ StorageKept
    BY <1>4 DEF Validate, Driver, Types, Phases, Stamped, StorageKept, worker
  <2>2. Gated /\ CleanCached
    BY <1>1, <1>4 DEF Validate, Driver
  <2>3. CleanFacts(1)'
    BY <1>4, <2>2 DEF Validate, worker, CleanFacts, Gated, CleanCached, CleanForward
  <2>4. todo' = Rest(CleanCall, 1)
    BY <1>4, RestWhole, CallTypes DEF Validate
  <2>5. InClean'
    BY <1>4, <2>3, <2>4 DEF Validate, Driver, InClean
  <2>6. History'
    BY <1>4, HistoryKept DEF Validate
  <2> QED BY <1>2, <2>1, <2>5, <2>6
<1>5. CASE Proceed
  <2>1. Types' /\ Stamped' /\ StorageKept
    BY <1>5 DEF Proceed, Driver, Types, Phases, Stamped, StorageKept, worker
  <2>2. Gated /\ CleanCached
    BY <1>1, <1>5 DEF Proceed, Driver
  <2>3. Idle'
    BY <1>5, <2>2 DEF Proceed, Driver, worker, Idle, Gated, CleanCached, CleanForward
  <2>4. History'
    BY <1>5, HistoryKept DEF Proceed
  <2> QED BY <1>2, <2>1, <2>3, <2>4
<1>6. CASE RefreshMlpMask
  <2>1. Gated /\ CleanCached
    BY <1>1, <1>6 DEF RefreshMlpMask, Driver
  <2>2. /\ actor' \in [weights : Int, mask : Int] /\ actor'.weights = actor.weights
        /\ actor'.mask \in Int
    BY <1>6 DEF RefreshMlpMask, Types
  <2>3. /\ roll' \in [route : {Clean, Masked}, mask : Int, available : BOOLEAN]
        /\ engine' \in [awake : BOOLEAN, weights : Int, buffer : Int, cache : SUBSET Forwards]
        /\ roll'.mask = actor'.mask /\ Gated' /\ EngineButBuffer /\ engine'.buffer = engine.buffer
    BY <1>6, <2>1, <2>2, MaskCopied DEF RefreshMlpMask
  <2>4. Types' /\ Stamped' /\ StorageKept
    BY <1>6, <2>2, <2>3 DEF RefreshMlpMask, Driver, Types, Phases, Stamped, StorageKept
  <2>5. Idle'
    BY <1>6, <2>1, <2>2, <2>3
    DEF RefreshMlpMask, Driver, Idle, CleanCached, CleanForward, EngineButBuffer
  <2>6. History'
    BY <1>6, HistoryKept DEF RefreshMlpMask
  <2> QED BY <1>2, <2>4, <2>5, <2>6
<1>7. CASE GenerateDual
  <2>1. Types' /\ Stamped' /\ StorageKept
    BY <1>7 DEF GenerateDual, Driver, Types, Phases, Stamped, StorageKept, worker
  <2>2. Gated
    BY <1>1, <1>7 DEF GenerateDual, Driver
  <2>3. DualFacts(1)'
    BY <1>7, <2>2 DEF GenerateDual, worker, DualFacts, Gated
  <2>4. todo' = Rest(DualCall, 1)
    BY <1>7, RestWhole, CallTypes DEF GenerateDual
  <2>5. InDual'
    BY <1>7, <2>3, <2>4 DEF GenerateDual, Driver, InDual
  <2>6. History'
    BY <1>7, HistoryKept DEF GenerateDual
  <2> QED BY <1>2, <2>1, <2>5, <2>6
<1>8. CASE UpdateActor
  <2>1. PICK done \in {0, 1} : actor' = [actor EXCEPT !.weights = @ + done]
    BY <1>8 DEF UpdateActor
  <2>2. actor' \in [weights : Int, mask : Int]
    BY <2>1 DEF Types
  <2>3. Types' /\ Stamped' /\ StorageKept
    BY <1>8, <2>2 DEF UpdateActor, Driver, Types, Phases, Stamped, StorageKept
  <2>4. Gated /\ NothingCached
    BY <1>1, <1>8 DEF UpdateActor, Driver
  <2>5. Idle'
    BY <1>8, <2>4 DEF UpdateActor, Driver, Idle, Gated, NothingCached, CleanCached
  <2>6. History'
    BY <1>8, HistoryKept DEF UpdateActor
  <2> QED BY <1>2, <2>3, <2>5, <2>6
<1>9. CASE EndStep
  <2>1. saved' \in [step : Int, weights : Int, mask : Int]
    BY <1>9 DEF EndStep, Types
  <2>3. Types' /\ Stamped' /\ StorageKept
    BY <1>9, <2>1 DEF EndStep, Driver, Types, Phases, Stamped, StorageKept, worker
  <2>4. Gated /\ CleanCached
    BY <1>1, <1>9 DEF EndStep, Driver
  <2>5. Idle'
    BY <1>9, <2>4 DEF EndStep, Driver, worker, Idle, Gated, CleanCached, CleanForward
  <2>6. History'
    BY <1>9, HistoryKept DEF EndStep
  <2> QED BY <1>2, <2>3, <2>5, <2>6
<1>10. CASE Restart
  <2>1. Types' /\ Stamped' /\ StorageKept
    BY <1>10 DEF Restart, Types, Phases, Stamped, StorageKept, FreshActor, FreshRoll,
                 FreshEngine, Ones, Forwards
  <2>2. BuildFacts(1)'
    BY <1>10 DEF Restart, FreshEngine, BuildFacts, NothingCached
  <2>3. todo' = Rest(BuildCall, 1)
    BY <1>10, RestWhole, CallTypes DEF Restart
  <2>4. InBuild'
    BY <1>10, <2>2, <2>3 DEF Restart, InBuild
  <2>5. History'
    BY <1>10, HistoryKept DEF Restart
  <2> QED BY <1>2, <2>1, <2>4, <2>5
<1> QED BY <1>3, <1>4, <1>5, <1>6, <1>7, <1>8, <1>9, <1>10

-----------------------------------------------------------------------------
(* The invariant, and what it is for.                                         *)
LEMMA InvStep ==
  ASSUME Inv, [Next]_vars
  PROVE  Inv' /\ StorageKept
<1> USE DEF Inv
<1>1. CASE WorkerStep
  <2>1. todo # <<>> /\ ~Idle
    BY <1>1 DEF WorkerStep, Idle
  <2>2. InBuild \/ InClean \/ InDual
    BY <2>1 DEF Positioned
  <2> QED BY <1>1, <2>2, BuildStep, CleanStep, DualStep DEF History, Positioned
<1>2. CASE \/ Load \/ Validate \/ Proceed \/ RefreshMlpMask \/ GenerateDual
           \/ UpdateActor \/ EndStep \/ Restart
  BY <1>2, DriverStep DEF History
<1>3. CASE UNCHANGED vars
  <2>1. Types' /\ Stamped' /\ StorageKept /\ GeneratesAsAsked' /\ PrefixesOfOwnForward'
    BY <1>3 DEF vars, Types, Stamped, StorageKept, GeneratesAsAsked, PrefixesOfOwnForward
  <2>2. Positioned'
    BY <1>3 DEF vars, Positioned, InBuild, InClean, InDual, Idle, BuildFacts, CleanFacts,
                DualFacts, Gated, Open, Current, CleanCached, NothingCached, CleanForward
  <2> QED BY <2>1, <2>2
<1> QED BY <1>1, <1>2, <1>3 DEF Next, Returned

LEMMA InitInv == Init => Inv
<1> SUFFICES ASSUME Init PROVE Inv
  OBVIOUS
<1>1. Types /\ Stamped
  BY DEF Init, Types, Phases, Stamped, FreshActor, FreshRoll, FreshEngine, NotSaved, Ones,
         Forwards
<1>2. GeneratesAsAsked /\ PrefixesOfOwnForward
  BY DEF Init, GeneratesAsAsked, PrefixesOfOwnForward
<1>3. BuildFacts(1)
  BY DEF Init, FreshEngine, BuildFacts, NothingCached
<1>4. todo = Rest(BuildCall, 1)
  BY RestWhole, CallTypes DEF Init
<1> QED BY <1>1, <1>2, <1>3, <1>4 DEF Init, Inv, Positioned, InBuild

LEMMA Invariance == Spec => []Inv
BY InitInv, InvStep, PTL DEF Spec

\* Every generation ran on the newest weights, under no mask for clean rows and
\* under the mask the driver asked for otherwise.
THEOREM GeneratesAsAskedHolds == Spec => []GeneratesAsAsked
<1>1. Inv => GeneratesAsAsked
  BY DEF Inv
<1> QED BY <1>1, Invariance, PTL

\* No generation was served a cached prefix of another forward pass.
THEOREM PrefixesOfOwnForwardHolds == Spec => []PrefixesOfOwnForward
<1>1. Inv => PrefixesOfOwnForward
  BY DEF Inv
<1> QED BY <1>1, Invariance, PTL

\* No step writes an active buffer while the engine sleeps.
THEOREM SleepingStorageUntouchedHolds == Spec => SleepingStorageUntouched
<1>1. Inv /\ [Next]_vars =>
        [engine.awake \/ engine'.awake \/ engine'.buffer = engine.buffer]_vars
  BY InvStep DEF StorageKept
<1> QED BY <1>1, Invariance, PTL DEF Spec, SleepingStorageUntouched

=============================================================================
