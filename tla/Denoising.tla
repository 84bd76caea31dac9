----------------------------- MODULE Denoising -----------------------------
(***************************************************************************)
(* The denoising runs of the deployed engine: engine.generate builds a     *)
(* schedule of noise levels for the video and the action stream, resets    *)
(* the DiT velocity cache and calls the architecture, which denoises both  *)
(* streams in one loop (base.generate) or, for the inverse-dynamics model, *)
(* the video first and then the action (idm.generate).  The cache may      *)
(* replace a forward of the network by the prediction of an earlier one.   *)
(* A run may fail in any forward; the next request finds the cache as the  *)
(* failure left it.                                                        *)
(*                                                                         *)
(* A noise level is its rank on the stream's grid: the strength of the     *)
(* lead curve and the alpha-shift change the sigmas, not their order.  A   *)
(* prediction is named by its run and step.  The level of the video is     *)
(* that of the frames to be made: a clean first frame is put back after    *)
(* every update.  Requests start from noise; generate can be handed        *)
(* latents for the video, which nothing does.                              *)
(***************************************************************************)
EXTENDS Integers, Sequences

CONSTANTS
    Steps,      \* denoise_steps
    MaxSkips,   \* max_consecutive_skips
    MaxRuns,    \* bound on the requests
    None

DenoisingAssumption ==
    /\ Steps \in Nat \ {0} /\ MaxSkips \in Nat
    /\ None \notin [run : Nat, step : Nat]

VARIABLES
    engine,     \* the architecture and the options the engine was built with
    run,        \* number of the request
    pc,         \* idle, joint, stage1, stage2, done, failed
    schedule,   \* the levels of both streams, ending in zeros
    step,       \* index of the loop
    level,      \* the noise left in the video, the active and the inactive action dimensions
    pinned,     \* inactive_action_noise: None, or whether it is the noise the run started from
    cache,      \* DiTVelocityCache
    used        \* the predictions the last step applied

vars == <<engine, run, pc, schedule, step, level, pinned, cache, used>>

Drifted == -1   \* the value of inactive dimensions off their noise path
Least(a, b) == IF a < b THEN a ELSE b

EmptyCache == [velocity |-> None, action |-> None, prevVelocity |-> None, prevAction |-> None, skips |-> 0]
Nothing    == [video |-> None, action |-> None]

(* schedule_variance_shift, with schedule_sync as delay 0: the lead stream *)
(* moves at every step, the other one waits for `delay` steps.             *)
Lead(k)         == Steps - k
Lag(k, delay)   == Least(Steps - delay, Steps - k)
Level(k, lead, delay) ==
    [video  |-> IF lead = "video" THEN Lead(k) ELSE Lag(k, delay),
     action |-> IF lead = "video" THEN Lag(k, delay) ELSE Lead(k)]
MakeSchedule(lead, delay) == [i \in 1 .. Steps + 1 |-> Level(i - 1, lead, delay)]

Init ==
    /\ engine \in [arch : {"joint", "idm"}, caching : BOOLEAN, guided : BOOLEAN]
    /\ run = 0 /\ pc = "idle" /\ schedule = <<>> /\ step = 0
    /\ level = [video |-> 0, action |-> 0, inactive |-> 0]
    /\ pinned = None /\ cache = EmptyCache /\ used = Nothing
-----------------------------------------------------------------------------
Running == pc \in {"joint", "stage1", "stage2"}

(* Each request has a schedule of its own and starts from noise.          *)
Request ==
    /\ ~Running /\ run < MaxRuns
    /\ run' = run + 1
    /\ \E lead \in {"video", "action"}, delay \in 0 .. Steps - 1 :
          schedule' = MakeSchedule(lead, delay)
    /\ level' = [video    |-> schedule'[1].video,
                 action   |-> schedule'[1].action,
                 inactive |-> schedule'[1].action]
    /\ pc' = IF engine.arch = "joint" THEN "joint" ELSE "stage1"
    /\ step' = 1 /\ pinned' = None /\ used' = Nothing
    /\ UNCHANGED engine

(* Fault: the cache is not reset between runs. *)
GenerateKeepingCache == Request /\ UNCHANGED cache

(* engine.generate resets the cache whatever the last run left in it. *)
Generate == Request /\ cache' = EmptyCache
-----------------------------------------------------------------------------
AtEnd == step = Steps + 1
Here  == schedule[step]
There == schedule[step + 1]

VideoSteps  == pc \in {"joint", "stage1"} /\ Here.video # There.video
ActionSteps == pc \in {"joint", "stage2"} /\ Here.action # There.action
This        == [run |-> run, step |-> step]

(* Classifier-free guidance switches the cache off; IDM takes no guidance, *)
(* and its stage 2 does not consult the cache.                             *)
Caching == engine.caching /\ ~(engine.guided /\ pc = "joint") /\ VideoSteps

(* The update of both streams.  A stream that does not step, or whose      *)
(* prediction is missing, keeps its latents.  The inactive dimensions of   *)
(* the unified action, which no loss trained, are put back on the path of  *)
(* the noise they started from, taken before the first update.             *)
Move(l, from, to) == l + (to - from)

(* Fault: the noise is taken after the update, which has moved it. *)
UpdateThenPin(p) ==
    LET moving == ActionSteps /\ p.action # None IN
    /\ level' = [video    |-> IF VideoSteps THEN Move(level.video, Here.video, There.video) ELSE level.video,
                 action   |-> IF moving THEN Move(level.action, Here.action, There.action) ELSE level.action,
                 inactive |-> IF moving THEN Drifted ELSE level.inactive]
    /\ used' = [video |-> IF VideoSteps THEN p.video ELSE None, action |-> IF moving THEN p.action ELSE None]
    /\ step' = step + 1
    /\ UNCHANGED <<engine, run, pc, schedule, pinned>>

Update(p) ==
    LET moving == ActionSteps /\ p.action # None
        noise  == IF pinned = None THEN level.inactive = Here.action ELSE pinned IN
    /\ level' = [video    |-> IF VideoSteps THEN Move(level.video, Here.video, There.video) ELSE level.video,
                 action   |-> IF moving THEN Move(level.action, Here.action, There.action) ELSE level.action,
                 inactive |-> CASE ~moving -> level.inactive
                                [] moving /\ noise -> There.action
                                [] OTHER -> Drifted]
    /\ pinned' = IF moving THEN noise ELSE pinned
    /\ used' = [video |-> IF VideoSteps THEN p.video ELSE None, action |-> IF moving THEN p.action ELSE None]
    /\ step' = step + 1
    /\ UNCHANGED <<engine, run, pc, schedule>>

(* should_recompute: two predictions of each stream that steps, and not    *)
(* too many skips in a row.  Whether they are alike is left open.          *)
MayReuse ==
    /\ cache.velocity # None /\ cache.prevVelocity # None
    /\ ActionSteps => cache.action # None /\ cache.prevAction # None
    /\ cache.skips < MaxSkips

Reuse ==
    /\ ~AtEnd /\ Caching /\ MayReuse
    /\ cache' = [cache EXCEPT !.skips = @ + 1]
    /\ Update([video |-> cache.velocity, action |-> cache.action])

(* update *)
Refreshed(p) ==
    [velocity |-> p.video, prevVelocity |-> cache.velocity,
     action |-> p.action, prevAction |-> cache.action, skips |-> 0]

(* A forward of the network: a joint one predicts both streams, a video    *)
(* or action pass of IDM its own.                                          *)
Forward ==
    LET p == [video  |-> IF pc # "stage2" THEN This ELSE None,
              action |-> IF pc # "stage1" THEN This ELSE None] IN
    /\ Running /\ ~AtEnd /\ (VideoSteps \/ ActionSteps)
    /\ cache' = IF Caching THEN Refreshed(p) ELSE cache
    /\ Update(p)

(* An IDM loop passes over the steps of the other stream. *)
PassOver ==
    /\ Running /\ ~AtEnd /\ ~VideoSteps /\ ~ActionSteps
    /\ step' = step + 1
    /\ used' = Nothing
    /\ UNCHANGED <<engine, run, pc, schedule, level, pinned, cache>>

(* IDM's second stage reads the video as clean. *)
Prefill ==
    /\ pc = "stage1" /\ AtEnd
    /\ pc' = "stage2" /\ step' = 1 /\ used' = Nothing
    /\ UNCHANGED <<engine, run, schedule, level, pinned, cache>>

Finish ==
    /\ pc \in {"joint", "stage2"} /\ AtEnd
    /\ pc' = "done" /\ used' = Nothing
    /\ UNCHANGED <<engine, run, schedule, step, level, pinned, cache>>

(* Out of memory, a compile error, a broken observation. *)
Fail ==
    /\ Running
    /\ pc' = "failed" /\ used' = Nothing
    /\ UNCHANGED <<engine, run, schedule, step, level, pinned, cache>>

Next == Generate \/ Reuse \/ Forward \/ PassOver \/ Prefill \/ Finish \/ Fail

Spec == Init /\ [][Next]_vars
-----------------------------------------------------------------------------
(* Whatever predictions were reused, each stream's latents hold exactly    *)
(* the noise its timestep tells the network, a frozen stream waits at full *)
(* noise, the untrained action dimensions stay on their noise path, and a  *)
(* run ends with no noise in any of them (base.generate, idm.generate).    *)
OnSchedule ==
    /\ Running =>
         /\ level.video  = IF pc = "stage2" THEN 0 ELSE Here.video
         /\ level.action = IF pc = "stage1" THEN schedule[1].action ELSE Here.action
         /\ level.inactive = level.action
    /\ pc = "done" => level = [video |-> 0, action |-> 0, inactive |-> 0]

(* A prediction that is applied comes from this run, is at most MaxSkips   *)
(* steps old, is of the same forward for both streams, and under guidance  *)
(* is never an old one ("Call between inference runs", dit_cache.py:144).  *)
FreshPredictions ==
    \A s \in {"video", "action"} : used[s] # None =>
        /\ used[s].run = run
        /\ step - 1 - used[s].step \in 0 .. IF engine.caching THEN MaxSkips ELSE 0
        /\ engine.guided /\ pc = "joint" => used[s].step = step - 1
        /\ used.video # None /\ used.action # None => used.video = used.action
=============================================================================
