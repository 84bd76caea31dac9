------------------------------ MODULE MCModel ------------------------------
(***************************************************************************)
(* What training and the model are promised, checked in one run: seven     *)
(* systems side by side that never meet in a state, told apart by          *)
(* `system`, with the variables of the others at None.                     *)
(*   "aligned"   TrainingRun, saving where an accumulation cycle ends      *)
(*   "cycles"    TrainingRun, saving inside cycles and ended by max_steps  *)
(*   "plan"      SamplePlan                                                *)
(*   "windows"   TrainingWindows                                           *)
(*   "stats"     NormalizationStats                                        *)
(*   "flow"      AttentionFlow                                             *)
(*   "denoise"   Denoising                                                 *)
(* Both names of a variable that two systems have are one variable here.   *)
(***************************************************************************)
EXTENDS MixtureConfigs, WindowTables, Sequences, FiniteSets

CONSTANTS
    None,
    (* the two training runs *)
    TrainingRanks, NumEpochs, GradAccum, MaxCrashes,
    AlignedBatches, AlignedMaxSteps, AlignedSaveSteps, AlignedKeepLastK,
    CyclesBatches, CyclesMaxSteps, CyclesSaveSteps, CyclesKeepLastK,
    (* the sample plan *)
    Mixtures, PlanMinLength, PlanScale, PlanMaxCrashes,
    (* the windows of the readers *)
    Datasets, WindowFrames, WindowStrides, MaxTries,
    (* the statistics *)
    Jobs, LastRank, Roots, Unreadable, StatsSources, MaxVersion, MaxLaunches, Together,
    (* the attention *)
    FlowFrames, FlowLayers,
    (* the denoising engine *)
    DenoisingSteps, MaxSkips, MaxRuns

VARIABLES
    system,
    weights, accum, globalStep, optStep, epoch, index, phase, writing, todo, removing,
    files, torn, dirs, marked, written, content, crashes,
    config, stage, source, kept, alloc, active, remaining, dealt, map, forked, pos, trained, saved,
    reader, disk, asked, at, tries, sample,
    kind, corpus, file, tmp, shards, rank, scan, run, launches,
    setup, pass, layer, hidden, cache, compiled, results,
    engine, pc, schedule, step, level, pinned, used

(* AlignedSaves: a save ends an accumulation cycle, so that a resume loses *)
(* nothing of it.                                                          *)
Aligned == INSTANCE TrainingRunProofs WITH
    Ranks <- TrainingRanks, BatchesPerEpoch <- AlignedBatches, MaxSteps <- AlignedMaxSteps,
    SaveSteps <- AlignedSaveSteps, KeepLastK <- AlignedKeepLastK,
    FullStates <- TRUE, CrashInFinish <- FALSE

Cycles == INSTANCE TrainingRunProofs WITH
    Ranks <- TrainingRanks, BatchesPerEpoch <- CyclesBatches, MaxSteps <- CyclesMaxSteps,
    SaveSteps <- CyclesSaveSteps, KeepLastK <- CyclesKeepLastK,
    FullStates <- TRUE, CrashInFinish <- FALSE

Data == INSTANCE DataProofs WITH
    Configs <- Mixtures, MinLength <- PlanMinLength, Scale <- PlanScale, MaxCrashes <- PlanMaxCrashes

Stats == INSTANCE NormalizationStats WITH Sources <- StatsSources

Flow == INSTANCE AttentionFlow WITH Frames <- FlowFrames, Layers <- FlowLayers

Denoise == INSTANCE Denoising WITH Steps <- DenoisingSteps

(* No two jobs build at the same time through one temporary name.          *)
ASSUME ModelAssumption ==
    /\ Aligned!TrainingAssumption /\ Cycles!TrainingAssumption
    /\ Aligned!AlignedSaves
    /\ Data!PlanAssumption /\ Data!Reading!WindowsAssumption /\ Stats!StatsAssumption
    /\ Together \cap Stats!OneName = {}
    /\ Flow!FlowAssumption /\ Denoise!DenoisingAssumption

ManyMixtures == ManyConfigs(None)
-----------------------------------------------------------------------------
(* The variables of one system each, and those that two have: index of a   *)
(* run and a reader, epoch and crashes of a run and a plan, run of         *)
(* statistics and requests, cache of attention and requests.               *)
trainOnly   == <<weights, accum, globalStep, optStep, phase, writing, todo, removing,
                 files, torn, dirs, marked, written, content>>
planOnly    == <<config, stage, source, kept, alloc, active, remaining, dealt, map, forked, pos,
                 trained, saved>>
windowsOnly == <<reader, disk, asked, at, tries, sample>>
statsOnly   == <<kind, corpus, file, tmp, shards, rank, scan, launches>>
flowOnly    == <<setup, pass, layer, hidden, compiled, results>>
denoiseOnly == <<engine, pc, schedule, step, level, pinned, used>>

NoTrain   == /\ weights = None /\ accum = None /\ globalStep = None /\ optStep = None /\ phase = None
             /\ writing = None /\ todo = None /\ removing = None /\ files = None /\ torn = None
             /\ dirs = None /\ marked = None /\ written = None /\ content = None
NoPlan    == /\ config = None /\ stage = None /\ source = None /\ kept = None /\ alloc = None
             /\ active = None /\ remaining = None /\ dealt = None /\ map = None /\ forked = None
             /\ pos = None /\ trained = None /\ saved = None
NoWindows == /\ reader = None /\ disk = None /\ asked = None /\ at = None /\ tries = None
             /\ sample = None
NoStats   == /\ kind = None /\ corpus = None /\ file = None /\ tmp = None /\ shards = None
             /\ rank = None /\ scan = None /\ launches = None
NoFlow    == /\ setup = None /\ pass = None /\ layer = None /\ hidden = None /\ compiled = None
             /\ results = None
NoDenoise == /\ engine = None /\ pc = None /\ schedule = None /\ step = None /\ level = None
             /\ pinned = None /\ used = None
NoLoop    == epoch = None /\ crashes = None
NoIndex   == index = None
NoRun     == run = None
NoCache   == cache = None

Init ==
    \/ /\ system = "aligned" /\ Aligned!Init
       /\ NoPlan /\ NoWindows /\ NoStats /\ NoFlow /\ NoDenoise /\ NoRun /\ NoCache
    \/ /\ system = "cycles" /\ Cycles!Init
       /\ NoPlan /\ NoWindows /\ NoStats /\ NoFlow /\ NoDenoise /\ NoRun /\ NoCache
    \/ /\ system = "plan" /\ Data!Init
       /\ NoTrain /\ NoIndex /\ NoWindows /\ NoStats /\ NoFlow /\ NoDenoise /\ NoRun /\ NoCache
    \/ /\ system = "windows" /\ Data!Reading!Init
       /\ NoTrain /\ NoLoop /\ NoPlan /\ NoStats /\ NoFlow /\ NoDenoise /\ NoRun /\ NoCache
    \/ /\ system = "stats" /\ Stats!Init
       /\ NoTrain /\ NoLoop /\ NoIndex /\ NoPlan /\ NoWindows /\ NoFlow /\ NoDenoise /\ NoCache
    \/ /\ system = "flow" /\ Flow!Init
       /\ NoTrain /\ NoLoop /\ NoIndex /\ NoPlan /\ NoWindows /\ NoStats /\ NoDenoise /\ NoRun
    \/ /\ system = "denoise" /\ Denoise!Init
       /\ NoTrain /\ NoLoop /\ NoIndex /\ NoPlan /\ NoWindows /\ NoStats /\ NoFlow

Next ==
    /\ UNCHANGED system
    /\ \/ /\ system = "aligned" /\ Aligned!Next
          /\ UNCHANGED <<planOnly, windowsOnly, statsOnly, flowOnly, denoiseOnly, run, cache>>
       \/ /\ system = "cycles" /\ Cycles!Next
          /\ UNCHANGED <<planOnly, windowsOnly, statsOnly, flowOnly, denoiseOnly, run, cache>>
       \/ /\ system = "plan" /\ Data!Next
          /\ UNCHANGED <<trainOnly, index, windowsOnly, statsOnly, flowOnly, denoiseOnly, run, cache>>
       \/ /\ system = "windows" /\ Data!Reading!Next
          /\ UNCHANGED <<trainOnly, epoch, crashes, planOnly, statsOnly, flowOnly, denoiseOnly, run, cache>>
       \/ /\ system = "stats" /\ Stats!Next
          /\ UNCHANGED <<trainOnly, epoch, crashes, index, planOnly, windowsOnly, flowOnly, denoiseOnly, cache>>
       \/ /\ system = "flow" /\ Flow!Next
          /\ UNCHANGED <<trainOnly, epoch, crashes, index, planOnly, windowsOnly, statsOnly, denoiseOnly, run>>
       \/ /\ system = "denoise" /\ Denoise!Next
          /\ UNCHANGED <<trainOnly, epoch, crashes, index, planOnly, windowsOnly, statsOnly, flowOnly>>

vars == <<system, trainOnly, epoch, crashes, index, planOnly, windowsOnly, statsOnly, flowOnly,
          denoiseOnly, run, cache>>

(* A rank that reads, builds or waits for statistics goes on. *)
Spec ==
    /\ Init /\ [][Next]_vars
    /\ \A j \in Jobs, r \in 0 .. LastRank : WF_Stats!vars(system = "stats" /\ Stats!RankStep(j, r))
-----------------------------------------------------------------------------
(* A resume finds a complete state, and a finished run its final weights:  *)
(* LatestComplete and CleanArtifacts of TrainingRun.                       *)
Artifacts == system = "aligned" => Aligned!LatestComplete /\ Aligned!CleanArtifacts

(* A crash loses what was trained since the last completed save, no more:  *)
(* the run implements DurableTraining.                                     *)
Durable ==
    [][system = "aligned" =>
          Aligned!Durable!Next \/ UNCHANGED Aligned!Durable!vars]_vars

(* Pruning keeps weights and states in lockstep: TrainingRun.              *)
Lockstep ==
    [][(system = "aligned" /\ phase = "pruneDirs" /\ phase' = "train") => Aligned!Paired]_vars

(* Crashes and resumes change neither the batches behind the weights nor   *)
(* the seeds they were trained under: ExactTraining and SeedMatches of     *)
(* TrainingRun.                                                            *)
ExactTraining == system = "cycles" => Cycles!ExactTraining /\ Cycles!SeedMatches

(* A budget of hours is spent as far as it goes: SamplePlan.               *)
FairBudget == system = "plan" => Data!FairBudget

(* An epoch is trained on its own samples, each once: SamplePlan.          *)
EpochExact == system = "plan" => Data!EpochExact

(* The frames and actions of a sample belong together: TrainingWindows.    *)
Aligning == system = "windows" => Data!Reading!Aligned

(* Every window of every kept episode can be asked for: TrainingWindows.   *)
Exhaustive == system = "windows" => Data!Reading!Exhaustive

(* Statistics are of every root and of the data: NormalizationStats.       *)
PooledStats == system = "stats" => Stats!PooledWhole /\ Stats!PooledFresh

(* A run keeps its statistics for life: NormalizationStats.                *)
OneTransform == system = "stats" => Stats!OneTransform

(* Waiting for statistics ends on every rank: NormalizationStats.          *)
BuildReturns ==
    <>[](system = "stats" => \A j \in Jobs, r \in 0 .. LastRank : rank[j][r].pc \notin Stats!Loading)

(* The model is trained on what it is given when deployed: AttentionFlow.  *)
TrainDeployAligned == system = "flow" => Flow!TrainDeployAligned

(* What the masks close stays closed, to padding as well: AttentionFlow.   *)
ClosedWays == system = "flow" => Flow!ClosedWays /\ Flow!PaddingInert

(* Every sample is on its noise schedule: Denoising.                       *)
OnSchedule == system = "denoise" => Denoise!OnSchedule

(* A prediction that is used is fresh enough, and the request's: Denoising.*)
FreshPredictions == system = "denoise" => Denoise!FreshPredictions
=============================================================================
