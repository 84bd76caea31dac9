---------------------------- MODULE EpisodeReplay ----------------------------
(***************************************************************************)
(* Sharded evaluation: a sealed manifest says where the benchmark's random *)
(* numbers of every episode start, and any worker may run any range of it, *)
(* more than once.  The simulator and the policy's client live in one      *)
(* process and draw from the same module-global generators, so every call  *)
(* of the simulator is made inside GlobalRngDomain.activate, which puts    *)
(* the episode's generator in and takes it out again.                      *)
(*                                                                         *)
(* A generator is a cursor, [seed, n]: the numbers that were drawn from    *)
(* the stream of a seed.  A call of the simulator draws one number or two, *)
(* which depends on the number it sees; the policy draws as it likes.      *)
(*                                                                         *)
(* The process has several generators, and a domain all of them.  They are *)
(* swapped alike, so a behaviour follows one, any of them.  They start     *)
(* differently: a manifest of LIBERO tells where NumPy's starts, and       *)
(* from_numpy_state puts the others at seed 0; RoboTwin seeds all of them, *)
(* and the CUDA ones once more when the scene is set up.                   *)
(***************************************************************************)
EXTENDS Integers, Sequences, FiniteSets

CONSTANTS
    Total,          \* episodes of the task
    MaxSteps,       \* steps of an episode
    MaxAttempts,    \* batches that are run
    MaxNoise,       \* numbers drawn outside the domain that matter to the model
    None

ReplayAssumption ==
    /\ Total \in Nat \ {0} /\ MaxSteps \in Nat \ {0} /\ MaxAttempts \in Nat /\ MaxNoise \in Nat
    /\ None \notin [seed : Nat \cup {"process"}, n : Nat]

VARIABLES
    benchmark,  \* "libero", "robotwin"
    generator,  \* the one that is followed: "numpy", "cuda", or one of the "others"
    feasible,   \* RoboTwin: the candidate seeds the expert solves
    entries,    \* the manifest: [origin, scene], scene being what the builder saw drawn
    sealed,     \* the manifest is published
    rng,        \* the module-global generator of the process
    domain,     \* GlobalRngDomain._state of this episode, None without an episode
    outside,    \* what activate put aside, None outside of it
    candidate,  \* the builder's next seed
    batch,      \* the episodes this attempt has yet to run
    phase,      \* where in the episode the process is
    scene,      \* what the set-up of this episode drew
    drawn,      \* what the simulator drew in this episode
    steps,
    attempts

vars == <<benchmark, generator, feasible, entries, sealed, rng, domain, outside, candidate, batch,
          phase, scene, drawn, steps, attempts>>

Libero  == benchmark = "libero"
Seed    == 42   \* the run's
Process == "process"
Start(seed)  == [seed |-> seed, n |-> 0]
After(c, k)  == [c EXCEPT !.n = @ + k]
Amount(c)    == IF c.n % 3 = 1 THEN 2 ELSE 1
Candidates   == 1 .. Total + 2

(* The manifest tells where the generator starts.                          *)
Told     == ~Libero \/ generator = "numpy"
(* _canonicalize_torch_cuda                                                *)
Reseeded == ~Libero /\ generator = "cuda"

Init ==
    /\ benchmark \in {"libero", "robotwin"} /\ generator \in {"numpy", "cuda", "others"}
    /\ feasible \in IF Libero THEN {{}} ELSE {s \in SUBSET Candidates : Cardinality(s) >= Total}
    /\ entries = <<>> /\ sealed = FALSE
    /\ rng = Start(Process) /\ domain = None /\ outside = None
    /\ candidate = 1 /\ batch = <<>> /\ phase = "make"
    /\ scene = <<>> /\ drawn = <<>> /\ steps = 0 /\ attempts = 0

manifest == <<benchmark, generator, feasible, entries, sealed>>

(* A number drawn by somebody who is not in a domain.                      *)
Noise ==
    \/ rng' = rng
    \/ rng.seed = Process /\ rng.n < MaxNoise /\ rng' = After(rng, 1)
-----------------------------------------------------------------------------
(* activate.                                                               *)

(* Fault: the generator is put in and what it becomes is not kept.         *)
LeaveDiscarding ==
    /\ rng' = outside /\ outside' = None
    /\ UNCHANGED domain

Enter == outside' = rng /\ rng' = domain /\ UNCHANGED domain
Leave ==
    /\ domain' = rng
    /\ rng' = outside /\ outside' = None

Onward == After(rng, Amount(rng))
Draw(next) ==
    /\ rng' = next
    /\ drawn' = Append(drawn, rng)
    /\ UNCHANGED <<outside, domain>>
-----------------------------------------------------------------------------
(* build_manifest.  LIBERO: one stream through all the resets.  RoboTwin:  *)
(* consecutive seeds, of which the expert's successes are accepted.        *)

MakeBuilderEnv ==
    /\ ~sealed /\ phase = "make"
    /\ phase' = "scan"
    /\ IF Libero /\ Told THEN rng' = Start(Seed) ELSE Noise
    /\ domain' = IF ~Libero THEN domain ELSE IF Told THEN Start(Seed) ELSE Start(0)
    /\ UNCHANGED <<manifest, outside, candidate, batch, scene, drawn, steps, attempts>>

OpenCandidate ==
    /\ ~sealed /\ phase = "scan" /\ Len(entries) < Total
    /\ LET at == IF Libero THEN domain ELSE Start(candidate)
       IN domain' = at /\ rng' = at /\ outside' = rng
    /\ phase' = "setup" /\ drawn' = <<>> /\ scene' = <<>>
    /\ UNCHANGED <<manifest, candidate, batch, steps, attempts>>

(* env.reset, or setup_demo                                                *)
SetUpCandidate ==
    /\ ~sealed /\ phase = "setup"
    /\ Draw(Onward)
    /\ scene' = drawn'
    /\ phase' = IF Libero THEN "judge" ELSE "expert"
    /\ UNCHANGED <<manifest, candidate, batch, steps, attempts>>

(* play_once                                                               *)
PlayExpert ==
    /\ ~sealed /\ phase = "expert"
    /\ Draw(Onward)
    /\ phase' = "judge"
    /\ UNCHANGED <<manifest, candidate, batch, scene, steps, attempts>>

(* RoboTwin: setup_demo or play_once raises, and the seed is passed over.  *)
CandidateRaises ==
    /\ ~sealed /\ ~Libero /\ phase \in {"setup", "expert"} /\ candidate \notin feasible
    /\ phase' = "judge"
    /\ UNCHANGED <<manifest, rng, domain, outside, candidate, batch, scene, drawn, steps, attempts>>

JudgeCandidate ==
    LET accepted == Libero \/ candidate \in feasible
        origin   == IF Told THEN drawn[1] ELSE None
    IN  /\ ~sealed /\ phase = "judge"
        /\ Leave
        /\ entries' = IF accepted THEN Append(entries, [origin |-> origin, scene |-> scene]) ELSE entries
        /\ candidate' = candidate + 1
        /\ phase' = "scan"
        /\ UNCHANGED <<benchmark, generator, feasible, sealed, batch, scene, drawn, steps, attempts>>

(* The evaluators are other processes.                                     *)
Seal ==
    /\ ~sealed /\ phase = "scan" /\ Len(entries) = Total
    /\ sealed' = TRUE /\ phase' = "idle"
    /\ rng' = Start(Process) /\ domain' = None
    /\ UNCHANGED <<benchmark, generator, feasible, entries, outside, candidate, batch, scene, drawn, steps, attempts>>
-----------------------------------------------------------------------------
(* One attempt at a range of episodes.                                     *)

StartBatch(from, to) ==
    /\ sealed /\ phase = "idle" /\ attempts < MaxAttempts
    /\ attempts' = attempts + 1
    /\ batch' = [i \in 1 .. to - from + 1 |-> from + i - 1]
    /\ phase' = "make" /\ rng' = Start(Process)
    /\ UNCHANGED <<manifest, domain, outside, candidate, scene, drawn, steps>>

MakeEnv ==
    /\ sealed /\ phase = "make"
    /\ phase' = "next"
    /\ Noise
    /\ UNCHANGED <<manifest, domain, outside, candidate, batch, scene, drawn, steps, attempts>>

Origin(episode) == IF Told THEN entries[episode].origin ELSE Start(0)

OpenEpisode ==
    /\ sealed /\ phase = "next" /\ batch # <<>>
    /\ domain' = Origin(Head(batch))
    /\ phase' = "setup" /\ drawn' = <<>> /\ scene' = <<>> /\ steps' = 0
    /\ UNCHANGED <<manifest, rng, outside, candidate, batch, attempts>>

(* The simulator's calls, and the one that comes next: LIBERO's reset,     *)
(* set_init_state and a settling step; RoboTwin's setup_demo, and get_obs  *)
(* before and close_env after the steps.                                   *)
Following(p) ==
    CASE p = "setup"   -> IF Libero THEN "initial" ELSE "policy"
      [] p = "initial" -> "settle"
      [] p = "settle"  -> "policy"
      [] p = "observe" -> "act"
      [] p = "step"    -> "stepped"
      [] p = "close"   -> "closed"

Calls == {"setup", "initial", "settle", "observe", "step", "close"}

Activate ==
    /\ sealed /\ phase \in Calls /\ outside = None
    /\ Enter
    /\ UNCHANGED <<manifest, candidate, batch, phase, scene, drawn, steps, attempts>>

CallSimulator ==
    /\ sealed /\ phase \in Calls /\ outside # None
    /\ Draw(IF phase = "setup" /\ Reseeded THEN Origin(Head(batch)) ELSE Onward)
    /\ scene' = IF phase = "setup" THEN drawn' ELSE scene
    /\ phase' = Following(phase)
    /\ UNCHANGED <<manifest, candidate, batch, steps, attempts>>

Deactivate ==
    /\ sealed /\ phase \notin Calls /\ outside # None
    /\ Leave
    /\ UNCHANGED <<manifest, candidate, batch, phase, scene, drawn, steps, attempts>>

(* policy.reset, policy.act and model.step: outside the domain.            *)
CallPolicy ==
    /\ sealed /\ phase \in {"policy", "act"} /\ outside = None
    /\ Noise
    /\ phase' = CASE phase = "policy" -> IF Libero THEN "act" ELSE "observe"
                  [] phase = "act"    -> "step"
    /\ UNCHANGED <<manifest, domain, outside, candidate, batch, scene, drawn, steps, attempts>>

Stepped(success) ==
    /\ sealed /\ phase = "stepped" /\ outside = None
    /\ steps' = steps + 1
    /\ phase' = IF success \/ steps' >= MaxSteps
                THEN IF Libero THEN "closed" ELSE "close"
                ELSE IF Libero THEN "act" ELSE "observe"
    /\ UNCHANGED <<manifest, rng, domain, outside, candidate, batch, scene, drawn, attempts>>

EndEpisode ==
    /\ sealed /\ phase = "closed" /\ outside = None
    /\ batch' = Tail(batch)
    /\ phase' = IF Len(batch) = 1 THEN "idle" ELSE "next"
    /\ UNCHANGED <<manifest, rng, domain, outside, candidate, scene, drawn, steps, attempts>>

(* The simulator or the policy raises: the attempt is over, and Labtasker  *)
(* may run the range again.                                                *)
AttemptFails ==
    /\ sealed /\ phase \in Calls \cup {"policy", "act"}
    /\ phase' = "idle" /\ batch' = <<>>
    /\ rng' = Start(Process) /\ domain' = None /\ outside' = None
    /\ UNCHANGED <<manifest, candidate, scene, drawn, steps, attempts>>

Next ==
    \/ MakeBuilderEnv \/ OpenCandidate \/ SetUpCandidate \/ PlayExpert \/ CandidateRaises \/ JudgeCandidate \/ Seal
    \/ \E from, to \in 1 .. Total : from <= to /\ StartBatch(from, to)
    \/ MakeEnv \/ OpenEpisode \/ Activate \/ CallSimulator \/ Deactivate \/ CallPolicy
    \/ \E success \in BOOLEAN : Stepped(success)
    \/ EndEpisode \/ AttemptFails

Spec == Init /\ [][Next]_vars
-----------------------------------------------------------------------------
(* What the simulator draws in an episode is, from every generator, the    *)
(* stream that starts where the manifest says, or else at seed 0, number   *)
(* after number: whichever batch the episode is run in, whatever ran       *)
(* before it, whatever the policy draws in between (GlobalRngDomain:       *)
(* "Isolate benchmark-owned legacy RNG state from same-process policy      *)
(* code").  And the scene it sets up is the one the builder saw, which     *)
(* RoboTwin's expert has solved; in LIBERO as far as NumPy decides it.     *)
EpisodeReplays ==
    sealed /\ phase \notin {"idle", "make", "next"} =>
        /\ \A i \in DOMAIN drawn :
               drawn[i] = IF i = 1 \/ (i = 2 /\ Reseeded) THEN Origin(Head(batch))
                          ELSE After(drawn[i - 1], Amount(drawn[i - 1]))
        /\ scene # <<>> /\ Told => scene = entries[Head(batch)].scene
=============================================================================
