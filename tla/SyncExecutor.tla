---------------------------- MODULE SyncExecutor ----------------------------
(***************************************************************************)
(* SyncInferenceExecutor (openwam/deploy/executors/sync_executor.py): one  *)
(* thread, a chunk generated when the buffer is empty, its tail beyond     *)
(* inference_horizon discarded.  Actions are named as in AsyncExecutor.    *)
(***************************************************************************)
EXTENDS Integers, Sequences

CONSTANTS
    ActionHorizon,    \* bound on the length of a chunk
    ChunkLengths,     \* lengths of the chunks engine.generate may return
    InferenceHorizon, \* inference_horizon: a positive number, or Unset
    Unset,            \* Python's None in the configuration
    MayFail,          \* whether engine.generate may raise
    MaxSteps,         \* bound: control steps per episode
    MaxEpisodes       \* bound: episodes

ConfigAssumption ==
    /\ Unset \notin Nat
    /\ ActionHorizon \in Nat /\ ChunkLengths \subseteq 0 .. ActionHorizon
    /\ InferenceHorizon \in (Nat \ {0}) \cup {Unset}
    /\ MayFail \in BOOLEAN
    /\ MaxSteps \in Nat
    /\ MaxEpisodes \in Nat \ {0}

VARIABLES
    buffer,                       \* _action_buffer
    episode, served, delivered,   \* as in ActionStream
    raised                        \* whether the last predict_action raised

vars == <<buffer, episode, served, delivered, raised>>

Obs     == [episode : Nat, step : Nat]
NoObs   == [episode |-> 0, step |-> 0]
Nothing == [episode |-> 0, step |-> 0, obs |-> NoObs, index |-> 0]
Now     == [episode |-> episode, step |-> served]

Horizon(len) == IF InferenceHorizon = Unset THEN len ELSE InferenceHorizon

(* Fault: the whole chunk is queued, not its first Horizon actions. *)
ChunkWithTail(obs, len) == [i \in 1 .. len |-> [obs |-> obs, index |-> i - 1]]

Chunk(obs, len) == [i \in 1 .. Horizon(len) |-> [obs |-> obs, index |-> i - 1]]

Init ==
    /\ buffer = <<>>
    /\ episode = 1
    /\ served = 0
    /\ delivered = Nothing
    /\ raised = FALSE

Pop(buf) ==
    /\ buffer' = Tail(buf)
    /\ delivered' = [episode |-> episode, step |-> served,
                     obs |-> Head(buf).obs, index |-> Head(buf).index]
    /\ served' = served + 1
    /\ raised' = FALSE
    /\ UNCHANGED episode

PredictBuffered ==
    /\ served < MaxSteps
    /\ buffer # <<>>
    /\ Pop(buffer)

(* _generate_and_enqueue on an empty buffer: an empty chunk, or one shorter *)
(* than the horizon, raises and leaves the buffer empty.                    *)
PredictGenerate ==
    /\ served < MaxSteps
    /\ buffer = <<>>
    /\ \E len \in ChunkLengths :
        /\ 0 < len /\ Horizon(len) <= len
        /\ Pop(Chunk(Now, len))

PredictRaise ==
    /\ served < MaxSteps
    /\ buffer = <<>>
    /\ MayFail \/ \E len \in ChunkLengths : len = 0 \/ Horizon(len) > len
    /\ raised' = TRUE
    /\ UNCHANGED <<buffer, episode, served, delivered>>

Reset ==
    /\ episode < MaxEpisodes
    /\ buffer' = <<>>
    /\ episode' = episode + 1
    /\ served' = 0
    /\ raised' = FALSE
    /\ UNCHANGED delivered

Next == PredictBuffered \/ PredictGenerate \/ PredictRaise \/ Reset

Spec == Init /\ [][Next]_vars
-----------------------------------------------------------------------------
(* The synchronous executor keeps the same promise as the asynchronous     *)
(* one, with actions younger than the horizon.                             *)
AgeBound == IF InferenceHorizon = Unset THEN ActionHorizon ELSE InferenceHorizon

Stream == INSTANCE ActionStream WITH MaxAge <- AgeBound
StreamSpec == Stream!Spec

(* "The unused tail is discarded rather than mixed into later predictions":*)
(* an action either follows its predecessor in one chunk, inside the       *)
(* horizon, or starts a chunk generated from the current observation.      *)
NoMixing ==
    [][ served' = served + 1 =>
          \/ delivered'.index = 0 /\ delivered'.obs = Now
          \/ /\ delivered'.obs = delivered.obs
             /\ delivered'.index = delivered.index + 1
             /\ InferenceHorizon # Unset => delivered'.index < InferenceHorizon ]_vars
=============================================================================
