---------------------------- MODULE MCEvaluation ----------------------------
(***************************************************************************)
(* What evaluations are promised, checked in one run: three systems side   *)
(* by side that never meet in a state, told apart by `system`, with the    *)
(* variables of the others at None.                                        *)
(*   "workers"    PolicyWorker, with a process more than one worker needs, *)
(*                so that a worker meets what an earlier one left          *)
(*   "manifests"  EvalManifests                                            *)
(*   "replay"     EpisodeReplay                                            *)
(* Both names of a variable that two systems have are one variable here.   *)
(***************************************************************************)
EXTENDS Naturals, Sequences, FiniteSets

CONSTANTS
    None,
    (* PolicyWorker *)
    Models, Procs, MaxKills, Foreign,
    (* EvalManifests *)
    Keys, RoboTwin, MaxTotal, Commands, Generations, Builders, PageSize, MaxBuilds, MaxSubmits,
    (* EpisodeReplay *)
    Total, MaxSteps, MaxAttempts, MaxNoise

VARIABLES
    system,
    pc, task, revoked, interrupted, process, identity, client, owned, todo, then,
    snapshot, proc, spoiled, foreign, kills,
    stored, index, builder, submitter, summary, builds, submits,
    benchmark, generator, feasible, entries, sealed, rng, domain, outside, candidate, batch,
    phase, scene, drawn, steps, attempts

Workers == INSTANCE PolicyWorker

(* The commands of the run: RoboTwin's keys and others in any order; one   *)
(* trial each, or two in batches of one or two.                            *)
Orders        == {s \in UNION {[1..n -> Keys] : n \in 1..Cardinality(Keys)} :
                    /\ \A i, j \in DOMAIN s : s[i] = s[j] => i = j
                    /\ RoboTwin \subseteq {s[i] : i \in DOMAIN s}}
ShortCommands == {c \in [keys : Orders, total : 1..MaxTotal, batch : 1..MaxTotal] : c.batch <= c.total}

Manifests == INSTANCE EvalManifests

Replay == INSTANCE EpisodeReplay

ASSUME EvaluationAssumption ==
    Workers!WorkerAssumption /\ Manifests!ManifestAssumption /\ Replay!ReplayAssumption

workerVars   == <<pc, task, revoked, interrupted, process, identity, client, owned, todo, then,
                  snapshot, proc, spoiled, foreign, kills>>
manifestVars == <<stored, index, builder, submitter, summary, builds, submits>>
replayVars   == <<benchmark, generator, feasible, entries, sealed, rng, domain, outside, candidate, batch,
                  phase, scene, drawn, steps, attempts>>

NoTask      == task = None
NoWorker    == /\ pc = None /\ revoked = None /\ interrupted = None /\ process = None
               /\ identity = None /\ client = None /\ owned = None /\ todo = None /\ then = None
               /\ snapshot = None /\ proc = None /\ spoiled = None /\ foreign = None /\ kills = None
NoManifests == /\ stored = None /\ index = None /\ builder = None /\ submitter = None
               /\ summary = None /\ builds = None /\ submits = None
NoReplay    == /\ benchmark = None /\ generator = None /\ feasible = None /\ entries = None
               /\ sealed = None /\ rng = None /\ domain = None /\ outside = None /\ candidate = None /\ batch = None /\ phase = None
               /\ scene = None /\ drawn = None /\ steps = None /\ attempts = None

Init ==
    \/ system = "workers" /\ Workers!Init /\ NoManifests /\ NoReplay
    \/ system = "manifests" /\ Manifests!Init /\ NoWorker /\ NoReplay
    \/ system = "replay" /\ Replay!Init /\ NoWorker /\ NoTask /\ NoManifests

Next ==
    /\ UNCHANGED system
    /\ \/ system = "workers" /\ Workers!Next /\ UNCHANGED <<manifestVars, replayVars>>
       \/ system = "manifests" /\ Manifests!Next
            /\ UNCHANGED <<pc, revoked, interrupted, process, identity, client, owned, todo, then,
                           snapshot, proc, spoiled, foreign, kills, replayVars>>
       \/ system = "replay" /\ Replay!Next /\ UNCHANGED <<workerVars, manifestVars>>

vars == <<system, workerVars, manifestVars, replayVars>>

Spec == Init /\ [][Next]_vars
-----------------------------------------------------------------------------
(* A result comes from the model its task names, and not from a server     *)
(* that a failed client has left in the middle of an episode: see          *)
(* RightModel and FreshAfterFailure in PolicyWorker.                       *)
RightModel == system = "workers" => Workers!RightModel /\ Workers!FreshAfterFailure

(* No two servers of a worker, no two clients at all: PolicyWorker.        *)
OneOfEach == system = "workers" => Workers!OneOfEach

(* A task in the queue finds its manifest: EvalManifests.                  *)
Replayable == system = "manifests" => Manifests!Replayable

(* A summary that is accepted counts every trial once: EvalManifests.      *)
AcceptedCoverage == system = "manifests" => Manifests!AcceptedCoverage

(* An episode's randomness is its manifest's: EpisodeReplay.               *)
EpisodeReplays == system = "replay" => Replay!EpisodeReplays
=============================================================================
