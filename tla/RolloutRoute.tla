---------------------------- MODULE RolloutRoute ----------------------------
(***************************************************************************)
(* One hybrid worker of recipe/mlp_channel_mask: the FSDP actor, the       *)
(* vLLM engine beside it, and the buffers through which the rollout        *)
(* controller steers the engine's captured CUDA graphs.  The engine sleeps *)
(* between calls (free_cache_engine) and its prefix cache has no notion of *)
(* a route, a mask or a weight version, so every call must switch, copy    *)
(* and reset in the right order.  A call is a sequence of operations and   *)
(* the worker executes it front to back.                                   *)
(*                                                                         *)
(* A mask is named by its version.  Version 0 keeps every channel, so it   *)
(* is also what a buffer of ones holds.                                    *)
(***************************************************************************)
EXTENDS Integers, Sequences

CONSTANTS
    Steps,      \* training steps of a run
    MaxDeaths   \* bound on process deaths

ASSUME StepsAssumption == Steps \in Nat \ {0} /\ MaxDeaths \in Nat

VARIABLES
    freeCache,  \* config.rollout.free_cache_engine
    pc,         \* where the driver is in fit()
    todo,       \* operations left of the call the worker executes
    step,       \* global_steps
    asked,      \* the driver's mask_version
    actor,      \* the FSDP side: its weights and its controller's mask
    roll,       \* the rollout controller: route, mask, buffers available
    engine,     \* vLLM: awake, weights, active buffer, prefix cache
    generated,  \* the last generation: what was asked for, what ran
    saved,      \* the last complete checkpoint
    deaths

vars == <<freeCache, pc, todo, step, asked, actor, roll, engine, generated,
          saved, deaths>>
worker == <<actor, roll, engine>>

Clean == "clean"
Masked == "masked"
Ones == 0         \* a buffer of ones, and the mask of version 0
Lost == -1        \* a buffer whose storage did not survive sleep mode

-----------------------------------------------------------------------------
(* The rollout controller *)

\* _copy_route_to_buffer
RouteBuffer(ctl) == IF ctl.route = Clean THEN Ones ELSE ctl.mask

\* Mutant: the write is not gated.
BufferAfter_Ungated(ctl) == RouteBuffer(ctl)

\* _refresh_active_buffers: no write while the storage may be suspended
BufferAfter(ctl) == IF ctl.available THEN RouteBuffer(ctl) ELSE engine.buffer

SetRoute(route) ==
    /\ roll' = [roll EXCEPT !.route = route]
    /\ engine' = [engine EXCEPT !.buffer = BufferAfter(roll')]
    /\ UNCHANGED <<actor, generated>>

\* Mutant: nothing is copied at the rising edge.
SetAvailable_NoCopy(flag) ==
    /\ roll' = [roll EXCEPT !.available = flag]
    /\ UNCHANGED <<engine, actor, generated>>

\* set_active_buffers_available: only a rising edge copies the mask
SetAvailable(flag) ==
    /\ roll' = [roll EXCEPT !.available = flag]
    /\ engine' = [engine EXCEPT
                    !.buffer = IF flag /\ ~roll.available
                               THEN BufferAfter(roll') ELSE @]
    /\ UNCHANGED <<actor, generated>>

\* register_active_buffer of a buffer the class patch has already
\* registered: read-only
Reregister == UNCHANGED <<worker, generated>>

-----------------------------------------------------------------------------
(* The engine *)

\* super().rollout_mode(): wake, push the actor's weights.  What a buffer
\* holds after a sleep is vLLM's business: as before, or lost.
RolloutMode ==
    /\ \E content \in {engine.buffer} \cup IF engine.awake THEN {} ELSE {Lost} :
         engine' = [engine EXCEPT !.awake = TRUE, !.weights = actor.weights,
                                  !.buffer = content]
    /\ UNCHANGED <<actor, roll, generated>>

\* super().trainer_mode(): release() resets the prefix cache and sleeps,
\* and is not called at all when the engine keeps its memory
TrainerMode ==
    /\ engine' = IF freeCache
                 THEN [engine EXCEPT !.awake = FALSE, !.cache = {}]
                 ELSE engine
    /\ UNCHANGED <<actor, roll, generated>>

ResetPrefixCache ==
    /\ engine' = [engine EXCEPT !.cache = {}]
    /\ UNCHANGED <<actor, roll, generated>>

\* One generate_sequences() of the engine for rows of a route.  A prefix may
\* be served from any cached block; the blocks computed are cached.
Generate(route) ==
    LET ran == [buffer |-> engine.buffer, weights |-> engine.weights]
    IN  /\ generated' = {[route  |-> route,
                          wanted |-> [buffer  |-> IF route = Clean THEN Ones
                                                  ELSE asked,
                                      weights |-> actor.weights],
                          ran    |-> ran,
                          reused |-> engine.cache]}
        /\ engine' = [engine EXCEPT !.cache = @ \cup {ran}]
        /\ UNCHANGED <<actor, roll>>

-----------------------------------------------------------------------------
(* Calls *)

\* The rest of _build_rollout, once LLM(...) has been constructed awake
BuildCall == <<"unavailable", "trainer_mode", "install">>

\* Mutant: the cache is kept from the clean to the masked rows.
DualCall_NoResetBetween ==
    <<"rollout_mode", "available",
      "reset", "set_clean", "generate_clean",
      "set_masked", "generate_masked",
      "reset", "unavailable", "trainer_mode">>

\* generate_dual_sequences
DualCall ==
    <<"rollout_mode", "available",
      "reset", "set_clean", "generate_clean",
      "reset", "set_masked", "generate_masked",
      "reset", "unavailable", "trainer_mode">>

\* generate_sequences: forced to the clean route while the engine sleeps
CleanCall ==
    <<"set_clean", "rollout_mode", "available", "generate_clean",
      "unavailable", "trainer_mode">>

Do(op) ==
    \/ op = "rollout_mode"    /\ RolloutMode
    \/ op = "trainer_mode"    /\ TrainerMode
    \/ op = "available"       /\ SetAvailable(TRUE)
    \/ op = "unavailable"     /\ SetAvailable(FALSE)
    \/ op = "install"         /\ Reregister
    \/ op = "reset"           /\ ResetPrefixCache
    \/ op = "set_clean"       /\ SetRoute(Clean)
    \/ op = "set_masked"      /\ SetRoute(Masked)
    \/ op = "generate_clean"  /\ Generate(Clean)
    \/ op = "generate_masked" /\ Generate(Masked)

WorkerStep ==
    /\ todo /= <<>>
    /\ Do(Head(todo))
    /\ todo' = Tail(todo)
    /\ UNCHANGED <<freeCache, pc, step, asked, saved, deaths>>

-----------------------------------------------------------------------------
(* The driver: fit(), as far as it calls this worker *)

Driver(from, to) == todo = <<>> /\ pc = from /\ pc' = to

NotSaved == [step |-> 0, weights |-> 0, mask |-> Ones]

FreshActor == [weights |-> 0, mask |-> Ones]
FreshRoll == [route |-> Clean, mask |-> Ones, available |-> TRUE]
FreshEngine == [awake |-> TRUE, weights |-> 0, buffer |-> Ones, cache |-> {}]

Init ==
    /\ freeCache \in BOOLEAN
    /\ pc = "load" /\ todo = BuildCall
    /\ step = 0 /\ asked = Ones
    /\ actor = FreshActor /\ roll = FreshRoll /\ engine = FreshEngine
    /\ generated = {}
    /\ saved = NotSaved
    /\ deaths = 0

\* load_checkpoint: weights to the actor, the mask to both controllers.  The
\* driver reads the version back, refuses a step without a mask, and starts
\* at the next step.
Load ==
    /\ Driver("load", IF saved.step > 0 /\ saved.mask = Ones THEN "done"
                      ELSE "first")
    /\ step' = saved.step + 1
    /\ asked' = saved.mask
    /\ actor' = [weights |-> saved.weights, mask |-> saved.mask]
    /\ roll' = [roll EXCEPT !.mask = saved.mask]
    /\ engine' = [engine EXCEPT !.buffer = BufferAfter(roll')]
    /\ UNCHANGED <<freeCache, todo, generated, saved, deaths>>

\* _validate: any number of clean calls, before training or after a step
Validate ==
    /\ \/ Driver("first", "first")
       \/ Driver("validate", "validate")
    /\ todo' = CleanCall
    /\ UNCHANGED <<freeCache, step, asked, worker, generated, saved, deaths>>

\* fit() moves on without another validation or refresh
Proceed ==
    /\ \/ Driver("first", "sample")
       \/ Driver("sample", "dual")
       \/ Driver("validate", "refresh")
       \/ Driver("refresh", "save")
    /\ UNCHANGED <<freeCache, todo, step, asked, worker, generated, saved,
                   deaths>>

\* refresh_mlp_mask, before the rollout or after the step: the actor's
\* controller selects a mask and the rollout controller copies it
RefreshMlpMask ==
    /\ \/ Driver("sample", "dual")
       \/ Driver("refresh", "save")
    /\ actor' = [actor EXCEPT !.mask = @ + 1]
    /\ roll' = [roll EXCEPT !.mask = actor'.mask]
    /\ engine' = [engine EXCEPT !.buffer = BufferAfter(roll')]
    /\ asked' = actor'.mask
    /\ UNCHANGED <<freeCache, todo, step, generated, saved, deaths>>

\* The worker refuses a batch stamped with another mask version; a refused
\* batch would stop the run here.
GenerateDual ==
    /\ Driver("dual", "update")
    /\ asked = roll.mask
    /\ todo' = DualCall
    /\ UNCHANGED <<freeCache, step, asked, worker, generated, saved, deaths>>

\* update_actor, skipped during the critic warm-up
UpdateActor ==
    /\ Driver("update", "validate")
    /\ \E done \in {0, 1} : actor' = [actor EXCEPT !.weights = @ + done]
    /\ UNCHANGED <<freeCache, todo, step, asked, roll, engine, generated, saved,
                   deaths>>

\* Save or not, then the next step or return
EndStep ==
    /\ Driver("save", IF step >= Steps THEN "done" ELSE "sample")
    /\ saved' \in {saved, [step |-> step, weights |-> actor.weights,
                           mask |-> actor.mask]}
    /\ step' = step + 1
    /\ UNCHANGED <<freeCache, todo, asked, worker, generated, deaths>>

\* A death at any point; a new process builds the engine and loads
Restart ==
    /\ pc /= "done"
    /\ deaths < MaxDeaths
    /\ deaths' = deaths + 1
    /\ pc' = "load" /\ todo' = BuildCall
    /\ step' = 0 /\ asked' = Ones
    /\ actor' = FreshActor /\ roll' = FreshRoll /\ engine' = FreshEngine
    /\ UNCHANGED <<freeCache, generated, saved>>

Returned ==
    /\ pc = "done"
    /\ UNCHANGED vars

Next ==
    \/ WorkerStep
    \/ Load \/ Validate \/ Proceed \/ RefreshMlpMask \/ GenerateDual
    \/ UpdateActor \/ EndStep
    \/ Restart \/ Returned

Spec == Init /\ [][Next]_vars

-----------------------------------------------------------------------------
(* Properties *)

\* Clean rows, validation rows included, run with every channel kept and
\* masked rows run under exactly the mask version the driver stamped on
\* them, always on the actor's newest weights: across sleep and wake-up,
\* deferred buffer writes, mask refreshes while the engine sleeps, and
\* resumes.
GeneratesAsAsked == \A g \in generated : g.ran = g.wanted

\* No generation is served a prefix that was computed under another route,
\* another mask or older weights, although vLLM's cache keys name none of
\* them and an engine that keeps its memory is never reset by release().
PrefixesOfOwnForward == \A g \in generated : \A block \in g.reused : block = g.ran

\* The buffers live in storage vLLM suspends while it sleeps: no step that
\* starts and ends asleep writes them (worker.py, trainer_mode).
SleepingStorageUntouched ==
    [][engine.awake \/ engine'.awake \/ engine'.buffer = engine.buffer]_vars
=============================================================================
