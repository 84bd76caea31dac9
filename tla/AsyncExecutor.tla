--------------------------- MODULE AsyncExecutor ----------------------------
(***************************************************************************)
(* AsyncInferenceExecutor (openwam/deploy/executors/async_executor.py).    *)
(*                                                                         *)
(* predict_action serves a buffer of actions and, when the buffer is short *)
(* enough, lets a one-thread pool generate the next chunk while the robot  *)
(* executes the rest.  Three things run concurrently: the caller inside    *)
(* _lock, the pool's worker, and a caller of shutdown after its reset.     *)
(* Callers waiting for _lock have no state, so any number of them is       *)
(* covered: `phase` says what the holder of the lock is blocked on.        *)
(*                                                                         *)
(* An observation is named by the episode and the control step it was      *)
(* served at.  These names, and `served`, `delivered` and `error`, are     *)
(* bookkeeping of the model: the code decides on `step`, `startStep`,      *)
(* `delay` and the length of the buffer only.                              *)
(***************************************************************************)
EXTENDS Integers, Sequences, FiniteSets

CONSTANTS
    ActionHorizon,    \* bound on the length of a chunk
    ChunkLengths,     \* lengths of the chunks engine.generate may return
    InferenceHorizon, \* inference_horizon: a positive number, or Unset
    DelaySteps,       \* inference_delay_steps: a number, or Unset
    Unset,            \* Python's None in the configuration
    MayFail,          \* whether engine.generate may raise
    MaxSteps,         \* bound: control steps per episode
    MaxEpisodes       \* bound: episodes

(* normalize_execution_config: what reaches the constructor. *)
ASSUME ConfigAssumption ==
    /\ Unset \notin Nat
    /\ ActionHorizon \in Nat /\ ChunkLengths \subseteq 0 .. ActionHorizon
    /\ InferenceHorizon \in (Nat \ {0}) \cup {Unset}
    /\ DelaySteps \in Nat \cup {Unset}
    /\ (InferenceHorizon # Unset /\ DelaySteps # Unset) => DelaySteps < InferenceHorizon
    /\ MayFail \in BOOLEAN
    /\ MaxSteps \in Nat
    /\ MaxEpisodes \in Nat \ {0}

VARIABLES
    buffer,     \* _action_buffer
    pending,    \* the conditions _pending_future was submitted with, or NoObs
    startStep,  \* _pending_start_step, NoStep for None
    delay,      \* _resolved_inference_delay_steps, Unset for None
    step,       \* _current_step
    phase,      \* what the holder of _lock waits for; "free": nobody holds it
    conds,      \* the conditions argument of the predict_action in progress
    draining,   \* the future reset waits for
    queued,     \* work items the pool has not started
    running,    \* the conditions the pool's worker generates for, or NoObs
    results,    \* futures that finished and were not taken yet
    pool,       \* the pool: "open", in shutdown ("resetting", "closing"), "shut", "joined"
    episode, served, delivered,   \* as in ActionStream
    error       \* how a predict_action of this episode last failed, "none" if none did

lockVars  == <<buffer, pending, startStep, delay, step>>
ghostVars == <<episode, served, delivered>>
poolVars  == <<queued, running, results>>
vars == <<lockVars, phase, conds, draining, poolVars, pool, ghostVars, error>>

NoStep  == -1
Failed  == -1      \* the outcome of a generate that raised
Obs     == [episode : Nat, step : Nat]
NoObs   == [episode |-> 0, step |-> 0]
Nothing == [episode |-> 0, step |-> 0, obs |-> NoObs, index |-> 0]
Action  == [obs : Obs, index : Nat]
Result  == [obs : Obs, length : ChunkLengths \cup {Failed}]

Outcomes == ChunkLengths \cup (IF MayFail THEN {Failed} ELSE {})

Now == [episode |-> episode, step |-> served]
-----------------------------------------------------------------------------
(* _resolve_inference_horizon, _resolve_inference_delay_steps. *)
Horizon(len) == IF InferenceHorizon = Unset THEN len ELSE InferenceHorizon
ResolvedDelay(len) == IF DelaySteps = Unset THEN Horizon(len) \div 2 ELSE DelaySteps

(* The end of the slice _unpack_result keeps. *)
SliceEnd(len, skip) ==
    IF skip + Horizon(len) < len THEN skip + Horizon(len) ELSE len

(* The exception an unpacked result raises before it touches any state. *)
Rejects(len) ==
    \/ len = 0
    \/ Horizon(len) > len
    \/ ResolvedDelay(len) >= Horizon(len)

(* actions[skip : end] of the chunk generated for obs. *)
Chunk(obs, len, skip) ==
    [i \in 1 .. SliceEnd(len, skip) - skip |-> [obs |-> obs, index |-> skip + i - 1]]

(* Fault: a prefetched chunk is played from its beginning. *)
SkipNothing == 0

(* skip_steps of _adopt_pending_result. *)
SkipSteps == IF startStep = NoStep \/ step < startStep THEN 0 ELSE step - startStep
-----------------------------------------------------------------------------
Init ==
    /\ buffer = <<>>
    /\ pending = NoObs
    /\ startStep = NoStep
    /\ delay = DelaySteps
    /\ step = 0
    /\ phase = "free"
    /\ conds = NoObs
    /\ draining = NoObs
    /\ queued = {}
    /\ running = NoObs
    /\ results = {}
    /\ pool = "open"
    /\ episode = 1
    /\ served = 0
    /\ delivered = Nothing
    /\ error = "none"

(* Fault: the threshold is off by one. *)
PrefetchesEarly(buf, fut, d) == fut = NoObs /\ d # Unset /\ Len(buf) <= d + 1

(* Fault: a buffer that is already shorter than the threshold is missed. *)
PrefetchesAtThreshold(buf, fut, d) == fut = NoObs /\ d # Unset /\ Len(buf) = d

(* _maybe_start_async_inference: whether it submits. *)
WantsPrefetch(buf, fut, d) == fut = NoObs /\ d # Unset /\ Len(buf) <= d

Pop(buf) ==
    /\ buffer' = Tail(buf)
    /\ step' = step + 1
    /\ delivered' = [episode |-> episode, step |-> served,
                     obs |-> Head(buf).obs, index |-> Head(buf).index]
    /\ served' = served + 1
    /\ UNCHANGED <<episode, error>>

(* The end of predict_action on buffer buf, pending future fut submitted   *)
(* at start and resolved delay d: _maybe_start_async_inference, then       *)
(* popleft and the step count.  submit raises once the pool is shut down,  *)
(* before anything is popped.                                              *)
Finish(buf, fut, start, d, c) ==
    /\ phase' = "free"
    /\ delay' = d
    /\ \/ /\ ~WantsPrefetch(buf, fut, d)
          /\ pending' = fut
          /\ startStep' = start
          /\ Pop(buf)
          /\ UNCHANGED queued
       \/ /\ WantsPrefetch(buf, fut, d)
          /\ pool \notin {"shut", "joined"}
          /\ pending' = c
          /\ startStep' = step
          /\ queued' = queued \cup {c}
          /\ Pop(buf)
       \/ /\ WantsPrefetch(buf, fut, d)
          /\ pool \in {"shut", "joined"}
          /\ pending' = fut
          /\ startStep' = start
          /\ buffer' = buf
          /\ error' = "shutdown"
          /\ UNCHANGED <<step, queued, ghostVars>>

(* Fault: no `finally` clears the future when its result raises. *)
RaiseKeepsFuture(why, buf, d) ==
    /\ phase' = "free"
    /\ buffer' = buf
    /\ delay' = d
    /\ error' = why
    /\ UNCHANGED <<pending, startStep, step, queued, ghostVars>>

(* predict_action leaves with an exception: buffer buf, no future left. *)
Raise(why, buf, d) ==
    /\ phase' = "free"
    /\ buffer' = buf
    /\ pending' = NoObs
    /\ startStep' = NoStep
    /\ delay' = d
    /\ error' = why
    /\ UNCHANGED <<step, queued, ghostVars>>

(* _unpack_result on a generated chunk, then the end of predict_action.  A *)
(* stale result is found only after the resolved values are stored and the *)
(* buffer cleared.                                                         *)
Unpack(obs, len, skip) ==
    \/ /\ len = Failed
       /\ Raise("engine", buffer, delay)
    \/ /\ len # Failed
       /\ Rejects(len)
       /\ Raise("rejected", buffer, delay)
    \/ /\ len # Failed
       /\ ~Rejects(len)
       /\ skip >= SliceEnd(len, skip)
       /\ Raise("stale", <<>>, ResolvedDelay(len))
    \/ /\ len # Failed
       /\ ~Rejects(len)
       /\ skip < SliceEnd(len, skip)
       /\ Finish(Chunk(obs, len, skip), NoObs, NoStep, ResolvedDelay(len), conds)
-----------------------------------------------------------------------------
(* predict_action takes the lock.  A non-empty buffer is served at once;   *)
(* an empty one waits for the pending future, or generates in the caller.  *)
PredictBuffered ==
    /\ phase = "free"
    /\ served < MaxSteps
    /\ buffer # <<>>
    /\ Finish(buffer, pending, startStep, delay, Now)
    /\ UNCHANGED <<conds, draining, running, results, pool>>

PredictEmpty ==
    /\ phase = "free"
    /\ served < MaxSteps
    /\ buffer = <<>>
    /\ phase' = IF pending # NoObs THEN "adopt" ELSE "generate"
    /\ conds' = Now
    /\ UNCHANGED <<lockVars, draining, poolVars, pool, ghostVars, error>>

(* engine.generate returns or raises in the caller. *)
GenerateReturn ==
    /\ phase = "generate"
    /\ \E len \in Outcomes : Unpack(conds, len, 0)
    /\ conds' = NoObs
    /\ UNCHANGED <<draining, running, results, pool>>

(* future.result() returns or raises in _adopt_pending_result. *)
AdoptReturn ==
    /\ phase = "adopt"
    /\ \E r \in results :
        /\ r.obs = pending
        /\ Unpack(r.obs, r.length, SkipSteps)
        /\ results' = results \ {r}
    /\ conds' = NoObs
    /\ UNCHANGED <<draining, running, pool>>

ResetState ==
    /\ startStep' = NoStep
    /\ step' = 0

(* Fault: reset drops the future without waiting for it. *)
ResetWithoutDrain(poolDraining, poolDone) ==
    /\ phase = "free"
    /\ episode < MaxEpisodes
    /\ episode' = episode + 1
    /\ served' = 0
    /\ error' = "none"
    /\ buffer' = <<>>
    /\ pending' = NoObs
    /\ queued' = queued \ {pending}
    /\ pool' = poolDone
    /\ ResetState
    /\ UNCHANGED <<phase, draining, delay, conds, running, results, delivered>>

(* reset, and the reset inside shutdown.  future.cancel() wins only while  *)
(* the worker has not taken the item; otherwise the result is awaited, and *)
(* the counters are reset after it.                                        *)
ResetWith(poolDraining, poolDone) ==
    /\ phase = "free"
    /\ episode < MaxEpisodes
    /\ episode' = episode + 1
    /\ served' = 0
    /\ error' = "none"
    /\ buffer' = <<>>
    /\ pending' = NoObs
    /\ \/ /\ pending = NoObs \/ pending \in queued
          /\ queued' = queued \ {pending}
          /\ pool' = poolDone
          /\ ResetState
          /\ UNCHANGED <<phase, draining>>
       \/ /\ pending # NoObs /\ pending \notin queued
          /\ phase' = "drain"
          /\ draining' = pending
          /\ pool' = poolDraining
          /\ UNCHANGED <<startStep, step, queued>>
    /\ UNCHANGED <<delay, conds, running, results, delivered>>

Reset == ResetWith(pool, pool)

Shutdown == pool = "open" /\ ResetWith("resetting", "closing")

DrainReturn ==
    /\ phase = "drain"
    /\ \E r \in results : r.obs = draining /\ results' = results \ {r}
    /\ phase' = "free"
    /\ draining' = NoObs
    /\ pool' = IF pool = "resetting" THEN "closing" ELSE pool
    /\ ResetState
    /\ UNCHANGED <<buffer, pending, delay, conds, queued, running, ghostVars, error>>

(* ThreadPoolExecutor.shutdown(wait=True), outside _lock: no submit after  *)
(* the first step, return once the worker has emptied the queue.           *)
PoolShutdown ==
    /\ pool = "closing"
    /\ pool' = "shut"
    /\ UNCHANGED <<lockVars, phase, conds, draining, poolVars, ghostVars, error>>

PoolJoin ==
    /\ pool = "shut"
    /\ queued = {} /\ running = NoObs
    /\ pool' = "joined"
    /\ UNCHANGED <<lockVars, phase, conds, draining, poolVars, ghostVars, error>>

(* The pool's only worker: _infer. *)
WorkerStart ==
    /\ running = NoObs
    /\ \E c \in queued : running' = c /\ queued' = queued \ {c}
    /\ UNCHANGED <<lockVars, phase, conds, draining, results, pool, ghostVars, error>>

WorkerFinish ==
    /\ running # NoObs
    /\ \E len \in Outcomes : results' = results \cup {[obs |-> running, length |-> len]}
    /\ running' = NoObs
    /\ UNCHANGED <<lockVars, phase, conds, draining, queued, pool, ghostVars, error>>

Next ==
    \/ PredictBuffered \/ PredictEmpty \/ GenerateReturn \/ AdoptReturn
    \/ Reset \/ Shutdown \/ DrainReturn \/ PoolShutdown \/ PoolJoin
    \/ WorkerStart \/ WorkerFinish

Spec == Init /\ [][Next]_vars

(* The engine's calls end, the pool's thread is scheduled, and a call that *)
(* can return does.  Nobody has to call predict_action, reset or shutdown. *)
Fairness ==
    /\ WF_vars(GenerateReturn) /\ WF_vars(AdoptReturn) /\ WF_vars(DrainReturn)
    /\ WF_vars(WorkerStart) /\ WF_vars(WorkerFinish)
    /\ WF_vars(PoolShutdown) /\ WF_vars(PoolJoin)

FairSpec == Spec /\ Fairness
-----------------------------------------------------------------------------
(* The types of the executor's state: actions in the buffer, observations  *)
(* or none everywhere a future or its conditions are held.                 *)
TypeOK ==
    /\ buffer \in Seq(Action)
    /\ pending \in Obs /\ conds \in Obs /\ draining \in Obs /\ running \in Obs
    /\ queued \subseteq Obs
    /\ results \subseteq Result
    /\ startStep \in Nat \cup {NoStep}
    /\ delay \in Nat \cup {Unset}
    /\ step \in Nat /\ served \in Nat /\ episode \in Nat \ {0}
    /\ phase \in {"free", "adopt", "generate", "drain"}
    /\ pool \in {"open", "resetting", "closing", "shut", "joined"}
    /\ delivered \in [episode : Nat, step : Nat, obs : Obs, index : Nat]
    /\ error \in {"none", "engine", "rejected", "stale", "shutdown"}

(* An action is never older than a prefetch of `delay` steps followed by a *)
(* horizon of actions, nor than its chunk is long.                         *)
AgeBound ==
    IF InferenceHorizon = Unset \/ ActionHorizon < InferenceHorizon + ResolvedDelay(0)
    THEN ActionHorizon
    ELSE InferenceHorizon + ResolvedDelay(0)

(* The executor implements the promise of ActionStream for every engine,   *)
(* configuration and interleaving: skipping the elapsed steps of a         *)
(* prefetched chunk keeps each action at the control step it was planned   *)
(* for, and nothing generated before a reset is executed after it.         *)
Stream == INSTANCE ActionStream WITH MaxAge <- AgeBound
StreamSpec == Stream!Spec

(* The engine keeps per-request caches and is not thread safe: the caller  *)
(* never generates while the pool's worker does.                           *)
EngineExclusive == ~(phase = "generate" /\ running # NoObs)

(* A future that is no longer pending leaves nothing behind in the pool:   *)
(* no worker still generates for it, no result waits to be mistaken for a  *)
(* later one.                                                              *)
PoolQuiet ==
    (pending = NoObs /\ phase # "drain") => queued = {} /\ running = NoObs /\ results = {}

(* With an engine whose chunks all have one length, as the deployed one's, *)
(* the "Async inference result is stale" branch cannot be reached: no more *)
(* steps than inference_delay_steps elapse before a prefetch is adopted.   *)
NeverStale == error # "stale"

(* predict_action "starts the next chunk before this horizon ends": with a *)
(* delay of at least one step, the caller generates by itself only for the *)
(* first action of an episode, unless a call of the episode failed.        *)
NoStall == phase = "generate" => served = 0 \/ error # "none"

-----------------------------------------------------------------------------
(* The inductive invariant behind EngineExclusive, PoolQuiet, NeverStale   *)
(* and StreamSpec.                                                         *)

(* The observation behind the last action of this episode. *)
LastPlan == IF delivered.episode = episode THEN delivered.obs.step ELSE 0

(* What the lock holder waits for decides the rest of the locked state. *)
PhaseInv ==
    /\ phase \in {"adopt", "generate", "drain"} => buffer = <<>>
    /\ phase \in {"adopt", "generate"} => conds = Now
    /\ phase = "adopt" => pending # NoObs
    /\ phase = "generate" => pending = NoObs
    /\ phase = "drain" => pending = NoObs /\ draining # NoObs /\ served = 0
    /\ phase # "drain" => draining = NoObs /\ step = served /\ pool # "resetting"
    /\ phase # "drain" /\ pending = NoObs => startStep = NoStep

(* The future somebody holds is in exactly one place of the pool; without  *)
(* one the pool is empty.                                                  *)
Held == IF phase = "drain" THEN draining ELSE pending

PoolInv ==
    /\ \A c \in queued : c = Held /\ c # NoObs
    /\ running # NoObs => running = Held
    /\ \A r \in results : r.obs = Held /\ r.obs # NoObs
    /\ running # NoObs => queued = {} /\ results = {}
    /\ queued # {} => results = {}
    /\ \A r1, r2 \in results : r1 = r2
    /\ Held # NoObs => queued # {} \/ running # NoObs \/ results # {}

(* The buffer is a run of one chunk, its head the action for this step. *)
BufferInv ==
    \A i \in DOMAIN buffer :
        /\ buffer[i].obs = buffer[1].obs
        /\ buffer[i].obs.episode = episode
        /\ LastPlan <= buffer[i].obs.step /\ buffer[i].obs.step <= served
        /\ buffer[i].obs.step + buffer[i].index = served + i - 1
        /\ buffer[i].index < AgeBound

(* A prefetch was filed under the step it was made at, at most `delay`     *)
(* actions before the end of the buffer, and is newer than what is served. *)
PendingInv ==
    pending # NoObs =>
        /\ pending = [episode |-> episode, step |-> startStep]
        /\ startStep < served
        /\ LastPlan <= startStep
        /\ buffer # <<>> => buffer[1].obs.step <= startStep
        /\ delay # Unset
        /\ served - startStep + Len(buffer) <= delay

DelayInv ==
    /\ DelaySteps # Unset => delay = DelaySteps
    /\ delay # Unset =>
          delay = DelaySteps \/ \E len \in ChunkLengths : delay = ResolvedDelay(len)
    /\ delay = Unset => buffer = <<>>
    /\ delivered.episode <= episode
    /\ delivered.episode = episode => delivered.obs.step <= served

IInv ==
    TypeOK /\ PhaseInv /\ PoolInv /\ BufferInv /\ PendingInv /\ DelayInv
-----------------------------------------------------------------------------
(* A call that took the lock returns, whichever way the chunk it waits for *)
(* turns out: no future it waits for is lost.                              *)
CallReturns == (phase # "free") ~> (phase = "free")

(* shutdown returns, with other callers predicting and resetting between   *)
(* its reset and the pool's shutdown.                                      *)
ShutdownReturns == (pool = "resetting" \/ pool = "closing") ~> (pool = "joined")
=============================================================================
