----------------------------- MODULE SamplePlan -----------------------------
(***************************************************************************)
(* What an epoch of training consists of.  A source is a root of LeRobot   *)
(* buckets: buckets that fail or have no window are dropped, and a budget  *)
(* of footage is shared out among the others (water_fill_hours), each of   *)
(* which keeps whole episodes, drawn at random, until its share is         *)
(* reached.  MixtureDataset deals the windows of its sources into one map, *)
(* shuffled anew in every epoch; DataLoader workers have the copy of the   *)
(* map they were forked with.  A run that crashes resumes in the middle of *)
(* an epoch and skips the batches it has done.                             *)
(*                                                                         *)
(* Footage is counted in frames, and shares of it in Scale-ths of a frame, *)
(* so that they divide.                                                    *)
(***************************************************************************)
EXTENDS Integers, Sequences, SequencesExt, FiniteSets

CONSTANTS
    Configs,        \* the sources' buckets and budgets, how they are weighted, how many epochs
    MinLength,      \* frames of the shortest training window
    Scale,
    MaxCrashes,
    None

BucketRoots == [buckets : Seq([lengths : Seq(Nat), fails : {"no", "environment", "contract"}]),
          budget : (Nat \ {0}) \cup {None}, strict : BOOLEAN]

PlanAssumption ==
    /\ MinLength \in Nat \ {0} /\ Scale \in Nat \ {0} /\ MaxCrashes \in Nat /\ None \notin Nat
    /\ Configs \subseteq [sources : Seq(BucketRoots), strategy : {"proportional", "uniform", "inverse_size", "manual"},
                          weights : Seq(Nat), epochs : Nat]
    /\ \A c \in Configs :
           /\ c.sources # <<>> /\ Len(c.weights) = Len(c.sources)
           /\ \A i \in DOMAIN c.sources : \A n \in DOMAIN c.sources[i].buckets : Scale % n = 0

VARIABLES
    config,
    stage,      \* "load", "fill", "select", "mix", "epochs", "training", "done", "aborted"
    source,     \* the source being built
    kept,       \* of each source, the episodes kept of each bucket
    alloc,      \* of the source being built, the share of each bucket that was loaded
    active,     \* the buckets that have no share yet
    remaining,  \* the footage not yet shared out
    dealt,      \* the mixture's map before it is shuffled
    epoch,
    map,        \* the epoch for which the parent's map was shuffled
    forked,     \* the epoch whose map the workers have
    pos,        \* samples of this epoch that were trained
    trained,    \* history: of each epoch, the samples that shaped the weights
    saved,      \* the position of the last full state
    crashes

plan == <<kept, alloc, active, remaining, dealt>>
loop == <<epoch, map, forked, pos, trained, saved, crashes>>
vars == <<config, stage, source, kept, alloc, active, remaining, dealt,
          epoch, map, forked, pos, trained, saved, crashes>>

Sources == DOMAIN config.sources
Source  == config.sources[source]
Lengths(i, b)  == config.sources[i].buckets[b].lengths
Episodes(i, b) == DOMAIN Lengths(i, b)

(* _sampleable_episode_frames: an episode without a window counts as none. *)
Sampleable(i, b) == {e \in Episodes(i, b) : Lengths(i, b)[e] >= MinLength}
EffectiveFrames(i, b, eps) == SumFunctionOnSet(Lengths(i, b), eps \cap Sampleable(i, b))

(* len(reader) with stride 1 *)
Windows(i, b, eps) ==
    SumFunctionOnSet([e \in Episodes(i, b) |-> Lengths(i, b)[e] - MinLength + 1], eps \cap Sampleable(i, b))
-----------------------------------------------------------------------------
Init ==
    /\ config \in Configs
    /\ stage = "load" /\ source = 1
    /\ kept = <<>> /\ alloc = <<>> /\ active = {} /\ remaining = 0 /\ dealt = <<>>
    /\ epoch = 0 /\ map = None /\ forked = None /\ pos = 0
    /\ trained = [e \in 0 .. config.epochs - 1 |-> <<>>]
    /\ saved = None /\ crashes = 0

NextSource ==
    /\ source' = source + 1
    /\ stage' = IF source = Len(config.sources) THEN "mix" ELSE "load"

Abort == stage' = "aborted" /\ UNCHANGED <<config, source, plan, loop>>

(* build_multibucket up to the budget: the readers that have windows.      *)
Loaded ==
    {b \in DOMAIN Source.buckets : /\ Source.buckets[b].fails = "no"
                                  /\ Windows(source, b, Episodes(source, b)) > 0}

Refused ==
    \/ \E b \in DOMAIN Source.buckets : \/ Source.buckets[b].fails = "contract"
                                        \/ Source.buckets[b].fails = "environment" /\ Source.strict
    \/ Loaded = {}

Load ==
    LET whole == [b \in DOMAIN Source.buckets |-> IF b \in Loaded THEN Episodes(source, b) ELSE {}]
        available == SumFunction([b \in Loaded |-> EffectiveFrames(source, b, whole[b])])
    IN  /\ stage = "load"
        /\ IF Refused THEN Abort
           ELSE /\ kept' = Append(kept, whole)
                /\ IF Source.budget = None \/ Source.budget >= available
                   THEN NextSource /\ UNCHANGED <<alloc, active, remaining>>
                   ELSE /\ alloc' = [b \in Loaded |-> 0]
                        /\ active' = Loaded
                        /\ remaining' = Source.budget * Scale
                        /\ stage' = "fill"
                        /\ UNCHANGED source
                /\ UNCHANGED <<config, dealt, loop>>

Capacity(b) == EffectiveFrames(source, b, kept[source][b]) * Scale

(* Fault: what a small bucket leaves over is not given to the others. *)
FillOnce ==
    LET fair == remaining \div Cardinality(active) IN
    /\ stage = "fill"
    /\ alloc' = [k \in DOMAIN alloc |-> IF Capacity(k) <= fair THEN Capacity(k) ELSE fair]
    /\ active' = DOMAIN alloc /\ remaining' = 0 /\ stage' = "select"
    /\ UNCHANGED <<config, source, kept, dealt, loop>>

(* One round of water_fill_hours. *)
Fill ==
    LET fair  == remaining \div Cardinality(active)
        small == {k \in active : Capacity(k) <= fair}
        left  == remaining - SumFunction([k \in small |-> Capacity(k)])
        full  == small = {} \/ small = active \/ left = 0
    IN  /\ stage = "fill"
        /\ alloc' = [k \in DOMAIN alloc |->
                         IF k \in small THEN Capacity(k)
                         ELSE IF small = {} /\ k \in active THEN fair ELSE alloc[k]]
        /\ active' = IF full THEN DOMAIN alloc ELSE active \ small
        /\ remaining' = IF full THEN 0 ELSE left
        /\ stage' = IF full THEN "select" ELSE "fill"
        /\ UNCHANGED <<config, source, kept, dealt, loop>>

Ceiling(x) == (x + Scale - 1) \div Scale
Target(b)  == IF Ceiling(alloc[b]) > 1 THEN Ceiling(alloc[b]) ELSE 1

(* subsample_episodes_by_hours: in the order of a permutation, until the   *)
(* target is reached.                                                      *)
Drawn(b, permutation) ==
    LET first(n) == {permutation[i] : i \in 1 .. n}
        frames(n) == EffectiveFrames(source, b, first(n))
        n == CHOOSE n \in DOMAIN permutation : frames(n) >= Target(b) /\ frames(n - 1) < Target(b)
    IN  first(n) \cap Sampleable(source, b)

Whole(b) == Capacity(b) <= Target(b) * Scale

Select(b, permutation) ==
    /\ stage = "select" /\ b \in active
    /\ \A i \in active : b <= i
    /\ active' = active \ {b}
    /\ kept' = [kept EXCEPT ![source][b] = IF Whole(b) THEN @ ELSE Drawn(b, permutation)]
    /\ IF active = {b} THEN NextSource ELSE UNCHANGED <<source, stage>>
    /\ UNCHANGED <<config, alloc, remaining, dealt, loop>>
-----------------------------------------------------------------------------
(* The mixture.                                                            *)

WindowsOf(i) == [b \in DOMAIN kept[i] |-> Windows(i, b, kept[i][b])]
Size(i)      == SumFunction(WindowsOf(i))
TotalReal    == SumFunction([i \in Sources |-> Size(i)])

(* Weights as fractions of a common denominator. *)
Product(f, S) == FoldFunctionOnSet(LAMBDA m, n : m * n, 1, f, S)
Others(i)     == Product([j \in Sources |-> Size(j)], Sources \ {i})
Weight(i) ==
    CASE config.strategy = "proportional" -> Size(i)
      [] config.strategy = "uniform"      -> 1
      [] config.strategy = "inverse_size" -> Others(i)
      [] config.strategy = "manual"       -> config.weights[i]
TotalWeight == SumFunction([i \in Sources |-> Weight(i)])

(* round() takes a half to the even neighbour. *)
Round(p, q) ==
    LET n == p \div q IN
    IF 2 * (p % q) > q \/ (2 * (p % q) = q /\ n % 2 = 1) THEN n + 1 ELSE n

Virtual(i) ==
    LET n == Round(TotalReal * Weight(i), TotalWeight)
    IN IF Weight(i) = 0 THEN 0 ELSE IF n > 1 THEN n ELSE 1

(* MultiLeRobotV3Reader.__getitem__: the bucket whose windows idx is among. *)
Dispatch(i, idx) ==
    LET from(k) == SumFunctionOnSet(WindowsOf(i), 1 .. k - 1)
        k == CHOOSE k \in DOMAIN kept[i] : from(k) <= idx /\ idx < from(k + 1)
    IN <<i, k, idx - from(k)>>

(* The map before the shuffle: a source's windows in turn, round and round. *)
Deal == FlattenSeq([i \in Sources |-> [n \in 1 .. Virtual(i) |-> Dispatch(i, (n - 1) % Size(i))]])

(* A shuffle seeded by the epoch: which one matters to nobody, that it is  *)
(* the same whenever the epoch is the same does.                           *)
Map(e) == [n \in DOMAIN dealt |-> dealt[((n - 1 + e) % Len(dealt)) + 1]]

Mix ==
    /\ stage = "mix"
    /\ IF TotalWeight = 0 THEN Abort
       ELSE /\ dealt' = Deal
            /\ stage' = IF config.epochs = 0 THEN "done" ELSE "epochs"
            /\ map' = 0
            /\ UNCHANGED <<config, source, kept, alloc, active, remaining,
                           epoch, forked, pos, trained, saved, crashes>>
-----------------------------------------------------------------------------
(* Fault: DataLoader workers outlive their epoch. *)
StartEpochPersistent ==
    /\ stage = "epochs"
    /\ map' = epoch
    /\ forked' = IF forked = None THEN epoch ELSE forked
    /\ stage' = "training"
    /\ UNCHANGED <<config, source, plan, epoch, pos, trained, saved, crashes>>

(* set_epoch, then the workers are forked. *)
StartEpoch ==
    /\ stage = "epochs"
    /\ map' = epoch
    /\ forked' = epoch
    /\ stage' = "training"
    /\ UNCHANGED <<config, source, plan, epoch, pos, trained, saved, crashes>>

Train ==
    /\ stage = "training" /\ pos < Len(dealt)
    /\ pos' = pos + 1
    /\ trained' = [trained EXCEPT ![epoch] = Append(@, Map(forked)[pos'])]
    /\ UNCHANGED <<config, stage, source, plan, epoch, map, forked, saved, crashes>>

EndEpoch ==
    /\ stage = "training" /\ pos = Len(dealt)
    /\ IF epoch + 1 = config.epochs
       THEN stage' = "done" /\ UNCHANGED <<epoch, pos>>
       ELSE stage' = "epochs" /\ epoch' = epoch + 1 /\ pos' = 0
    /\ UNCHANGED <<config, source, plan, map, forked, trained, saved, crashes>>

Save ==
    /\ stage = "training" /\ pos > 0 /\ crashes < MaxCrashes
    /\ saved' = [epoch |-> epoch, pos |-> pos, trained |-> trained]
    /\ saved' # saved
    /\ UNCHANGED <<config, stage, source, plan, epoch, map, forked, pos, trained, crashes>>

(* The weights go back to the saved state; a new process has the map of    *)
(* epoch 0 until set_epoch, and skip_first_batches passes over pos.        *)
CrashAndResume ==
    /\ stage \in {"training", "epochs"} /\ saved # None /\ crashes < MaxCrashes
    /\ stage' = "epochs" /\ map' = 0 /\ forked' = None
    /\ epoch' = saved.epoch /\ pos' = saved.pos /\ trained' = saved.trained
    /\ crashes' = crashes + 1
    /\ UNCHANGED <<config, source, plan, saved>>

Next ==
    \/ Load \/ Fill \/ Mix \/ StartEpoch \/ Train \/ EndEpoch \/ Save \/ CrashAndResume
    \/ /\ stage = "select"
       /\ \E b \in active : \E permutation \in SetToSeqs(Episodes(source, b)) : Select(b, permutation)

Spec == Init /\ [][Next]_vars
-----------------------------------------------------------------------------
(* A budget is spent as far as it goes and no further (lerobotv3.py,       *)
(* water_fill_hours and subsample_episodes_by_hours): there is a level up  *)
(* to which every bucket is filled, or as far as it goes, and these shares *)
(* are the budget.  The whole episodes that are kept then amount to it,    *)
(* and to less than one episode of each bucket more.                       *)
Realized(i)  == SumFunction([b \in DOMAIN kept[i] |-> EffectiveFrames(i, b, kept[i][b])])
Available(i) ==
    SumFunctionOnSet([b \in DOMAIN config.sources[i].buckets |-> EffectiveFrames(i, b, Episodes(i, b))],
                     {b \in DOMAIN config.sources[i].buckets : config.sources[i].buckets[b].fails = "no"})
Longest(i, b) == Max(Range(Lengths(i, b)))

FairBudget ==
    /\ stage = "select" /\ active = DOMAIN alloc =>
           /\ SumFunction(alloc) = Source.budget * Scale
           /\ \E level \in Range(alloc) : \A b \in DOMAIN alloc :
                  0 < alloc[b] /\ alloc[b] = IF Capacity(b) <= level THEN Capacity(b) ELSE level
    /\ \A i \in 1 .. source - 1 :
           LET budget == config.sources[i].budget
               used   == {b \in DOMAIN kept[i] : kept[i][b] # {}}
           IN IF budget = None \/ budget >= Available(i) THEN Realized(i) = Available(i)
              ELSE /\ budget <= Realized(i)
                   /\ Realized(i) < budget + SumFunction([b \in used |-> Longest(i, b)])

(* However often training crashed and resumed, the weights are shaped by   *)
(* an epoch's samples as if it had not (mixture.py, set_epoch: the workers *)
(* of every epoch have the map of that epoch, and the map of an epoch is   *)
(* the same in every process).  Under "proportional" weights each window   *)
(* is one of the samples exactly once (mixture.py:314).                    *)
Count(w, s)   == Cardinality({n \in DOMAIN s : s[n] = w})
AllWindows(i) == {Dispatch(i, n) : n \in 0 .. Size(i) - 1}
Finished      == {e \in 0 .. config.epochs - 1 : e < epoch \/ stage = "done"}

EpochExact ==
    \A e \in Finished :
        /\ trained[e] = Map(e)
        /\ config.strategy = "proportional" =>
               \A i \in Sources : \A w \in AllWindows(i) : Count(w, trained[e]) = 1

(* set_epoch is what keeps a source with fewer samples than windows from   *)
(* always leaving out the same ones (mixture.py:150): what no epoch can    *)
(* reach is then only what has no weight.                                  *)
EveryWindowReached ==
    stage = "training" =>
        \A i \in Sources : Weight(i) > 0 =>
            \A w \in AllWindows(i) : \E e \in 0 .. Len(dealt) : w \in Range(Map(e))
=============================================================================
