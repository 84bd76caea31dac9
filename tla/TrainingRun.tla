---------------------------- MODULE TrainingRun -----------------------------
(***************************************************************************)
(* A training run with checkpoints, crashes and resumes: the loop of       *)
(* OpenWAMTrainer.train (openwam/train/openwam_trainer.py) and the         *)
(* checkpoint files of openwam/train/utils/checkpointing.py.               *)
(*                                                                         *)
(* The ranks run the loop in lockstep (each step ends in a collective) and *)
(* are modelled as one process, except while each writes its own shard of  *)
(* the full state.  A crash ends all ranks at any point.  The weights are  *)
(* named by what they were computed from: the sequence of accumulation     *)
(* cycles, each the sequence of the batches whose gradients it averaged.   *)
(* Batches are numbered over all epochs in the order of the uninterrupted  *)
(* run (project.seed is set).                                              *)
(***************************************************************************)
EXTENDS Integers, Sequences, FiniteSets, FiniteSetsExt

CONSTANTS
    Ranks,
    BatchesPerEpoch,  \* len(dataloader) after prepare
    NumEpochs,        \* num_epochs
    MaxSteps,         \* max_steps; 0 is None
    GradAccum,        \* gradient_accumulation_steps
    SaveSteps,        \* save_steps
    KeepLastK,        \* keep_last_k_ckpts
    FullStates,       \* save_full_states_for_resume
    CrashInFinish,    \* whether a crash may hit finalize_keep_weights_only
    MaxCrashes        \* bound: crashes of the run

TrainingAssumption ==
    /\ IsFiniteSet(Ranks) /\ Ranks # {}
    /\ {BatchesPerEpoch, NumEpochs, GradAccum, SaveSteps, KeepLastK} \subseteq Nat \ {0}
    /\ MaxSteps \in Nat /\ MaxCrashes \in Nat
    /\ FullStates \in BOOLEAN /\ CrashInFinish \in BOOLEAN

VARIABLES
    weights, accum,        \* the weights; the batches of the open accumulation cycle
    globalStep, optStep,   \* global_step, opt_step
    epoch, index,          \* the next batch of the dataloader
    phase,                 \* where the run is; "down": crashed
    writing,               \* what each rank does in accelerator.save_state
    todo, removing,        \* state dirs a cleanup has still to remove; the one it removes
    files, torn,           \* checkpoint_step_N.safetensors by N; those half-written
    dirs, marked,          \* accel_state_step_N by N; those with trainer_state.json
    written, content,      \* per dir, the complete shards and the weights they hold
    crashes

loopVars == <<weights, accum, globalStep, optStep, epoch, index>>
fileVars == <<files, torn>>
dirVars  == <<dirs, marked, written, content>>
doing    == <<writing, todo, removing>>
vars == <<loopVars, phase, doing, fileVars, dirVars, crashes>>

Steps  == 0 .. BatchesPerEpoch * NumEpochs
NoStep == -1
-----------------------------------------------------------------------------
(* Fault: the position is not pulled back to a full cycle. *)
ResumeUnfloored(g) ==
    [epoch |-> g \div BatchesPerEpoch, skip |-> (g % BatchesPerEpoch), step |-> g]

(* compute_resume_position *)
ResumePosition(g) ==
    LET start == g \div BatchesPerEpoch
        skip  == ((g % BatchesPerEpoch) \div GradAccum) * GradAccum
    IN  [epoch |-> start, skip |-> skip, step |-> start * BatchesPerEpoch + skip]

(* find_latest_accel_state *)
Latest == IF marked = {} THEN NoStep ELSE Max(marked)

(* The n - KeepLastK lowest of n steps. *)
Oldest(S) == {s \in S : Cardinality({t \in S : t > s}) >= KeepLastK}

(* Fault: one dir too many is removed. *)
PrunedDirsOneMore == {s \in dirs : Cardinality({t \in dirs : t > s}) >= KeepLastK - 1}

(* Fault: the dirs are sorted the other way round. *)
PrunedDirsReversed == {s \in dirs : Cardinality({t \in dirs : t < s}) >= KeepLastK}

(* manage_checkpoints: the state dirs to remove. *)
PrunedDirs == Oldest(dirs)
-----------------------------------------------------------------------------
Init ==
    /\ weights = <<>> /\ accum = <<>>
    /\ globalStep = 0 /\ optStep = 0 /\ epoch = 0 /\ index = 0
    /\ phase = "train"
    /\ writing = [r \in Ranks |-> "idle"]
    /\ todo = {} /\ removing = NoStep
    /\ files = {} /\ torn = {}
    /\ dirs = {} /\ marked = {}
    /\ written = [s \in Steps |-> {}]
    /\ content = [s \in Steps |-> <<>>]
    /\ crashes = 0

Exhausted == epoch >= NumEpochs \/ (MaxSteps # 0 /\ globalStep >= MaxSteps)

(* One batch of the loop.  accumulate() lets the optimizer step on every   *)
(* GradAccum-th batch and on the last of the dataloader.                   *)
Step ==
    /\ phase = "train" /\ ~Exhausted
    /\ LET batch == epoch * BatchesPerEpoch + index
           cycle == Append(accum, batch)
           last  == index + 1 = BatchesPerEpoch
       IN  /\ IF last \/ Len(cycle) = GradAccum
              THEN weights' = Append(weights, cycle) /\ accum' = <<>> /\ optStep' = optStep + 1
              ELSE accum' = cycle /\ UNCHANGED <<weights, optStep>>
           /\ epoch' = IF last THEN epoch + 1 ELSE epoch
           /\ index' = IF last THEN 0 ELSE index + 1
    /\ globalStep' = globalStep + 1
    /\ phase' = IF globalStep' % SaveSteps = 0 THEN "save" ELSE "train"
    /\ UNCHANGED <<doing, fileVars, dirVars, crashes>>

(* finish_training. *)
Finish ==
    /\ phase = "train" /\ Exhausted
    /\ phase' = "final"
    /\ UNCHANGED <<loopVars, doing, fileVars, dirVars, crashes>>
-----------------------------------------------------------------------------
(* save_weights: rank 0 writes the file in place. *)
AfterWeights == IF phase \in {"final", "finalSaving"} THEN "finalize"
                ELSE IF FullStates THEN "mkdir" ELSE "prune"

OpenWeights ==
    /\ phase \in {"save", "final"}
    /\ files' = files \cup {globalStep}
    /\ torn' = torn \cup {globalStep}
    /\ phase' = IF phase = "save" THEN "saving" ELSE "finalSaving"
    /\ UNCHANGED <<loopVars, doing, dirVars, crashes>>

CloseWeights ==
    /\ phase \in {"saving", "finalSaving"}
    /\ torn' = torn \ {globalStep}
    /\ phase' = AfterWeights
    /\ UNCHANGED <<loopVars, doing, files, dirVars, crashes>>

(* save_full_state: makedirs, a barrier, every rank's save_state, a        *)
(* barrier, and rank 0's os.replace of the marker.                         *)
MakeDir ==
    /\ phase = "mkdir"
    /\ dirs' = dirs \cup {globalStep}
    /\ writing' = [r \in Ranks |-> "todo"]
    /\ phase' = "shards"
    /\ UNCHANGED <<loopVars, todo, removing, fileVars, marked, written, content, crashes>>

OpenShard(r) ==
    /\ phase = "shards" /\ writing[r] = "todo"
    /\ writing' = [writing EXCEPT ![r] = "open"]
    /\ written' = [written EXCEPT ![globalStep] = @ \ {r}]
    /\ UNCHANGED <<loopVars, phase, todo, removing, fileVars, dirs, marked, content, crashes>>

CloseShard(r) ==
    /\ phase = "shards" /\ writing[r] = "open"
    /\ writing' = [writing EXCEPT ![r] = "idle"]
    /\ written' = [written EXCEPT ![globalStep] = @ \cup {r}]
    /\ content' = [content EXCEPT ![globalStep] = weights]
    /\ UNCHANGED <<loopVars, phase, todo, removing, fileVars, dirs, marked, crashes>>

(* Fault: rank 0 does not wait for the other ranks' shards. *)
MarkEarly ==
    /\ phase = "shards" /\ \E r \in Ranks : writing[r] = "idle"
    /\ marked' = marked \cup {globalStep}
    /\ writing' = [r \in Ranks |-> "idle"]
    /\ phase' = "prune"
    /\ UNCHANGED <<loopVars, todo, removing, fileVars, dirs, written, content, crashes>>

Mark ==
    /\ phase = "shards" /\ \A r \in Ranks : writing[r] = "idle"
    /\ marked' = marked \cup {globalStep}
    /\ phase' = "prune"
    /\ UNCHANGED <<loopVars, doing, fileVars, dirs, written, content, crashes>>
-----------------------------------------------------------------------------
(* manage_checkpoints and finalize_keep_weights_only remove weights one    *)
(* file at a time, lowest step first ...                                   *)
RemoveWeights ==
    /\ phase \in {"prune", "finalFiles"} /\ Oldest(files) # {}
    /\ LET old == Min(files)
       IN  files' = files \ {old} /\ torn' = torn \ {old}
    /\ UNCHANGED <<loopVars, phase, doing, dirVars, crashes>>

ChooseDirs ==
    /\ \/ phase = "prune" /\ Oldest(files) = {} /\ todo' = PrunedDirs /\ phase' = "pruneDirs"
       \/ phase = "finalize" /\ todo' = dirs /\ phase' = "finalDirs"
    /\ UNCHANGED <<loopVars, writing, removing, fileVars, dirVars, crashes>>

(* ... and dirs by rmtree, which removes their entries in any order and    *)
(* may fail; manage_checkpoints goes by step, finalize in glob's order.    *)
StartRemove ==
    /\ phase \in {"pruneDirs", "finalDirs"} /\ removing = NoStep
    /\ \E d \in todo :
        /\ phase = "pruneDirs" => d = Min(todo)
        /\ removing' = d
        /\ todo' = todo \ {d}
        /\ \E kept \in SUBSET written[d] : written' = [written EXCEPT ![d] = kept]
        /\ marked' \in {marked, marked \ {d}}
    /\ UNCHANGED <<loopVars, phase, writing, fileVars, dirs, content, crashes>>

EndRemove ==
    /\ removing # NoStep
    /\ removing' = NoStep
    /\ \/ /\ dirs' = dirs \ {removing}
          /\ marked' = marked \ {removing}
          /\ written' = [written EXCEPT ![removing] = {}]
          /\ content' = [content EXCEPT ![removing] = <<>>]
       \/ UNCHANGED dirVars
    /\ UNCHANGED <<loopVars, phase, writing, todo, fileVars, crashes>>

CleanupEnds ==
    /\ removing = NoStep /\ todo = {}
    /\ \/ phase = "pruneDirs" /\ phase' = "train"
       \/ phase = "finalDirs" /\ phase' = "finalFiles"
       \/ phase = "finalFiles" /\ Oldest(files) = {} /\ phase' = "done"
    /\ UNCHANGED <<loopVars, doing, fileVars, dirVars, crashes>>
-----------------------------------------------------------------------------
(* The memory of all ranks is lost; what is on disk stays as it is. *)
Forget ==
    /\ accum' = <<>>
    /\ writing' = [r \in Ranks |-> "idle"]
    /\ todo' = {} /\ removing' = NoStep

Crash ==
    /\ crashes < MaxCrashes
    /\ phase \notin {"down", "done"}
    /\ ~CrashInFinish => phase \notin {"finalDirs", "finalFiles"}
    /\ crashes' = crashes + 1
    /\ phase' = "down"
    /\ weights' = <<>> /\ globalStep' = 0 /\ optStep' = 0 /\ epoch' = 0 /\ index' = 0
    /\ Forget
    /\ UNCHANGED <<fileVars, dirVars>>

(* setup_output_dir and resume_if_configured in the same run directory.    *)
(* load_state is taken to begin an accumulation cycle, as                  *)
(* compute_resume_position expects.                                        *)
Resume ==
    /\ phase = "down" /\ Latest # NoStep /\ written[Latest] = Ranks
    /\ weights' = content[Latest]
    /\ LET at == ResumePosition(Latest)
       IN  /\ epoch' = at.epoch /\ index' = at.skip /\ globalStep' = at.step
           /\ optStep' = at.step \div GradAccum
    /\ phase' = "train"
    /\ UNCHANGED <<accum, doing, fileVars, dirVars, crashes>>

(* Without a usable state resume raises; the user starts anew elsewhere. *)
Restart ==
    /\ phase = "down" /\ Latest = NoStep
    /\ phase' = "train"
    /\ files' = {} /\ torn' = {} /\ dirs' = {} /\ marked' = {}
    /\ written' = [s \in Steps |-> {}]
    /\ content' = [s \in Steps |-> <<>>]
    /\ UNCHANGED <<loopVars, doing, crashes>>

Next ==
    \/ Step \/ Finish \/ OpenWeights \/ CloseWeights \/ MakeDir \/ Mark
    \/ \E r \in Ranks : OpenShard(r) \/ CloseShard(r)
    \/ RemoveWeights \/ ChooseDirs \/ StartRemove \/ EndRemove \/ CleanupEnds
    \/ Crash \/ Resume \/ Restart

Spec == Init /\ [][Next]_vars
-----------------------------------------------------------------------------
(* Steps, positions and files in range; a marker is in a dir. *)
TypeOK ==
    /\ weights \in Seq(Seq(Nat)) /\ accum \in Seq(Nat) /\ Len(accum) < GradAccum
    /\ globalStep \in Steps /\ optStep \in Nat
    /\ epoch \in 0 .. NumEpochs /\ index \in 0 .. BatchesPerEpoch - 1
    /\ phase \in {"train", "save", "saving", "mkdir", "shards", "prune", "pruneDirs", "final",
                  "finalSaving", "finalize", "finalDirs", "finalFiles", "done", "down"}
    /\ writing \in [Ranks -> {"idle", "todo", "open"}]
    /\ torn \subseteq files /\ files \subseteq Steps
    /\ marked \subseteq dirs /\ dirs \cup todo \subseteq Steps
    /\ removing \in Steps \cup {NoStep}
    /\ written \in [Steps -> SUBSET Ranks]
    /\ \A s \in Steps : content[s] \in Seq(Seq(Nat))

(* The k-th accumulation cycle of a run that is never interrupted. *)
IdealCycle(k) ==
    LET perEpoch == (BatchesPerEpoch + GradAccum - 1) \div GradAccum
        start == ((k - 1) \div perEpoch) * BatchesPerEpoch
        first == start + ((k - 1) % perEpoch) * GradAccum
        end   == Min({first + GradAccum, start + BatchesPerEpoch})
    IN  [i \in 1 .. end - first |-> first + i - 1]

(* "The first optimizer step after resume sees a full accumulation cycle": *)
(* whatever crashes and resumes happened, the weights are those of an      *)
(* uninterrupted run, with no batch skipped, repeated or averaged into     *)
(* another cycle.                                                          *)
ExactTraining == \A k \in DOMAIN weights : weights[k] = IdealCycle(k)

(* global_step, which keys the per-step seed, always names the batch the   *)
(* dataloader is about to return.                                          *)
SeedMatches == globalStep = epoch * BatchesPerEpoch + index

(* "A half-written dir is never picked": after a crash at any point, the   *)
(* state a resume takes is complete.                                       *)
LatestComplete == (phase = "down" /\ Latest # NoStep) => written[Latest] = Ranks

(* The run is as durable as one with atomic checkpoints: a crash loses the *)
(* updates since the last completed save and no more.                      *)
Finishing == phase \in {"finalDirs", "finalFiles", "done"}
Saved     == IF Latest = NoStep THEN 0 ELSE Len(content[Latest])

Durable == INSTANCE DurableTraining WITH
    updates <- IF phase = "down" THEN Saved ELSE Len(weights),
    durable <- IF Finishing THEN Len(weights) ELSE Saved
DurableSpec == Durable!Spec

(* "In lockstep so a kept weights file always retains its sibling state    *)
(* dir": every prune that rmtree does not fail leaves the same steps on    *)
(* both lines, at most KeepLastK of them.                                  *)
Paired == files \subseteq dirs /\ Cardinality(files) <= KeepLastK
Lockstep == [][ (phase = "pruneDirs" /\ phase' = "train" /\ FullStates) => Paired ]_vars

(* A finished run leaves the final weights, complete, as the latest file   *)
(* and no half-written one, whichever saves crashed before.                *)
CleanArtifacts ==
    phase = "done" =>
        torn = {} /\ globalStep \in files /\ globalStep = Max(files)
=============================================================================
