------------------------- MODULE TrainingRunProofs --------------------------
(***************************************************************************)
(* TrainingRun for any number of ranks, batches, epochs and crashes, and   *)
(* every setting of the accumulation, the saves and the limits.            *)
(***************************************************************************)
EXTENDS TrainingRun, FiniteSetTheorems, NaturalsInduction, WellFoundedInduction, TLAPS

(* The batches of a whole run. *)
Batches == BatchesPerEpoch * NumEpochs
Total   == IF MaxSteps = 0 \/ MaxSteps > Batches THEN Batches ELSE MaxSteps

(* The accumulation cycles completed before batch i of epoch e, and the    *)
(* batches of the open one.                                                *)
PerEpoch     == (BatchesPerEpoch + GradAccum - 1) \div GradAccum
Cycles(e, i) == e * PerEpoch + (i \div GradAccum)
Open(e, i)   ==
    [j \in 1 .. i % GradAccum |-> e * BatchesPerEpoch + (i \div GradAccum) * GradAccum + j - 1]

Exact(w, n) ==
    w \in Seq(Seq(Nat)) /\ Len(w) = n /\ \A k \in DOMAIN w : w[k] = IdealCycle(k)

Ended   == {"finalize", "finalDirs", "finalFiles", "done"}
Saving  == {"save", "saving"}
Stating == {"mkdir", "shards"}
Pruning == {"prune", "pruneDirs"}
Phases  == {"train", "final", "finalSaving", "down"} \cup Ended \cup Saving \cup Stating \cup Pruning

(* The types of the files, and what belongs to a phase. *)
FileTypes ==
    /\ files \subseteq 1 .. Total /\ torn \subseteq files
    /\ dirs \subseteq 1 .. Total /\ marked \subseteq dirs
    /\ todo \subseteq dirs /\ removing \in (dirs \ todo) \cup {NoStep}
    /\ written \in [Steps -> SUBSET Ranks] /\ content \in [Steps -> Seq(Seq(Nat))]
    /\ writing \in [Ranks -> {"idle", "todo", "open"}]
    /\ phase \in Phases /\ optStep \in Nat

PhaseInv ==
    /\ phase \in Saving \cup Stating => globalStep > 0 /\ globalStep % SaveSteps = 0
    /\ phase \in Stating => FullStates
    /\ phase \in {"final", "finalSaving"} \cup Ended => globalStep = Total
    /\ phase \notin {"pruneDirs", "finalDirs"} => todo = {} /\ removing = NoStep
    /\ phase = "shards" => globalStep \in dirs
    /\ phase # "shards" => \A r \in Ranks : writing[r] = "idle"
    /\ ~FullStates => dirs = {}
    /\ phase \in {"saving", "finalSaving"} \cup Ended => globalStep \in files

(* The position, the weights and the open cycle are those of a run without *)
(* interruptions; so are the weights in every state that has a shard.      *)
LoopInv ==
    /\ SeedMatches
    /\ globalStep \in 0 .. Total
    /\ epoch \in 0 .. NumEpochs /\ index \in 0 .. BatchesPerEpoch - 1
    /\ Exact(weights, Cycles(epoch, index))
    /\ accum = Open(epoch, index)
    /\ phase = "down" => globalStep = 0 /\ weights = <<>>
    /\ \A s \in Steps : written[s] # {} =>
          Exact(content[s], Cycles(s \div BatchesPerEpoch, s % BatchesPerEpoch))

(* A half-written weights file is one that the run will still write. *)
TornInv ==
    /\ phase # "down" => \A m \in marked : ResumePosition(m).step <= globalStep
    /\ phase \in Saving => \A m \in marked : ResumePosition(m).step < globalStep
    /\ phase \in Ended => torn = {}
    /\ \A t \in torn :
          /\ t = Total \/ t % SaveSteps = 0
          /\ \/ t = Total
             \/ phase = "down" /\ \A m \in marked : t > ResumePosition(m).step
             \/ phase # "down" /\ t > globalStep
             \/ phase \in Saving /\ t = globalStep

Safe == FileTypes /\ PhaseInv /\ LoopInv /\ TornInv

(* Saves happen where an accumulation cycle ends: a resume loses no batch. *)
AlignedSaves == \A g \in Steps : g % SaveSteps = 0 => ResumePosition(g).step = g

Base == IF marked = {} THEN 0 ELSE Max(marked)

(* With full states, saves at the end of cycles and no crash in the        *)
(* cleanup after training: the latest state is complete, at most one save  *)
(* is under way beyond it, and only lower dirs are removed.                *)
SaveInv ==
    ~Finishing =>
    /\ marked # {} => written[Base] = Ranks
    /\ \A d \in dirs : d % SaveSteps = 0 /\ d <= Base + SaveSteps
    /\ phase # "down" => globalStep >= Base /\ globalStep <= Base + SaveSteps
    /\ phase = "train" => globalStep < Base + SaveSteps
    /\ phase \in Saving \cup Stating => globalStep > Base
    /\ phase = "shards" => \A r \in Ranks : writing[r] = "idle" =>
                              r \in written[globalStep] /\ content[globalStep] = weights
    /\ phase \in Pruning =>
          /\ marked # {} /\ globalStep = Base
          /\ \A d \in dirs : d <= Base
          /\ Base \notin todo /\ removing # Base

(* Weights files and state dirs go hand in hand. *)
LineInv ==
    ~Finishing =>
    /\ \A f \in files : f \in dirs \/ f > Base
    /\ \A f \in files : f <= Base + SaveSteps /\ (f = Total \/ f % SaveSteps = 0)
    /\ \A d \in dirs \ files, f \in files : d < f
    /\ phase \in Stating => globalStep \in files
    /\ phase \in Pruning => files \subseteq dirs
    /\ phase = "pruneDirs" =>
          /\ Oldest(files) = {}
          /\ (todo \cup {removing}) \cap files = {}

Durably == FullStates /\ AlignedSaves /\ ~CrashInFinish

IInv == Safe /\ (Durably => SaveInv /\ LineInv)
-----------------------------------------------------------------------------
(* Arithmetic of positions. *)
LEMMA DivMod ==
    ASSUME NEW x \in Nat, NEW n \in Nat \ {0}
    PROVE  /\ x \div n \in Nat /\ x % n \in 0 .. n - 1
           /\ x = (x \div n) * n + (x % n)
  OBVIOUS

LEMMA ProductMonotone ==
    ASSUME NEW a \in Nat, NEW b \in Nat, NEW n \in Nat, a <= b
    PROVE  a * n <= b * n /\ a * n \in Nat /\ b * n \in Nat
  OBVIOUS

LEMMA DivUnique ==
    ASSUME NEW n \in Nat \ {0}, NEW q \in Nat, NEW r \in 0 .. n - 1
    PROVE  (q * n + r) \div n = q /\ (q * n + r) % n = r
  OBVIOUS

LEMMA NextMultiple ==
    ASSUME NEW b \in Nat, NEW n \in Nat \ {0}, b % n = 0
    PROVE  (b + n) % n = 0
<1>1. b \div n \in Nat /\ b = (b \div n) * n
  BY DivMod
<1> DEFINE q == b \div n
<1>2. q \in Nat /\ b = q * n
  BY <1>1
<1> HIDE DEF q
<1>3. (q + 1) * n + 0 = b + n
  BY <1>2
<1>4. ((q + 1) * n + 0) % n = 0
  <2>1. q + 1 \in Nat /\ 0 \in 0 .. n - 1
    BY <1>2
  <2>2. QED
    BY <2>1, DivUnique
<1>5. QED
  BY <1>3, <1>4, Zenon

LEMMA DivMonotone ==
    ASSUME NEW a \in Nat, NEW b \in Nat, NEW n \in Nat \ {0}, a <= b
    PROVE  a \div n <= b \div n
  OBVIOUS

LEMMA Parameters ==
    ASSUME TrainingAssumption
    PROVE  /\ BatchesPerEpoch \in Nat \ {0} /\ NumEpochs \in Nat \ {0} /\ GradAccum \in Nat \ {0}
           /\ SaveSteps \in Nat \ {0} /\ KeepLastK \in Nat \ {0} /\ MaxSteps \in Nat
           /\ Batches \in Nat \ {0} /\ Total \in Nat \ {0} /\ Total <= Batches
           /\ Steps = 0 .. Batches
           /\ PerEpoch \in Nat \ {0}
<1>1. /\ BatchesPerEpoch \in Nat \ {0} /\ NumEpochs \in Nat \ {0} /\ GradAccum \in Nat \ {0}
      /\ SaveSteps \in Nat \ {0} /\ KeepLastK \in Nat \ {0} /\ MaxSteps \in Nat
  BY DEF TrainingAssumption
<1>2. Batches \in Nat \ {0}
  BY <1>1 DEF Batches
<1>3. Total \in Nat \ {0} /\ Total <= Batches
  BY <1>1, <1>2 DEF Total
<1>4. PerEpoch \in Nat \ {0}
  <2>1. BatchesPerEpoch + GradAccum - 1 \in Nat /\ 1 * GradAccum + 0 \in Nat
        /\ 1 * GradAccum + 0 <= BatchesPerEpoch + GradAccum - 1
    BY <1>1
  <2>2. (1 * GradAccum + 0) \div GradAccum = 1
    BY <1>1, DivUnique
  <2>3. 1 <= (BatchesPerEpoch + GradAccum - 1) \div GradAccum
    BY <1>1, <2>1, <2>2, DivMonotone
  <2>4. (BatchesPerEpoch + GradAccum - 1) \div GradAccum \in Nat
    BY <1>1, <2>1, DivMod
  <2>5. QED
    BY <2>3, <2>4 DEF PerEpoch
<1>5. QED
  BY <1>1, <1>2, <1>3, <1>4 DEF Steps, Batches

(* The batch of a position, and the position of a batch. *)
LEMMA Position ==
    ASSUME TrainingAssumption, NEW e \in Nat, NEW i \in 0 .. BatchesPerEpoch - 1
    PROVE  /\ e * BatchesPerEpoch \in Nat /\ (e + 1) * BatchesPerEpoch = e * BatchesPerEpoch + BatchesPerEpoch
           /\ (e * BatchesPerEpoch + i) \div BatchesPerEpoch = e
           /\ (e * BatchesPerEpoch + i) % BatchesPerEpoch = i
           /\ e < NumEpochs => e * BatchesPerEpoch + i < Batches
           /\ e >= NumEpochs => e * BatchesPerEpoch + i >= Batches
<1>1. BatchesPerEpoch \in Nat \ {0} /\ NumEpochs \in Nat
  BY Parameters
<1>2. e * BatchesPerEpoch \in Nat /\ (e + 1) * BatchesPerEpoch = e * BatchesPerEpoch + BatchesPerEpoch
  BY <1>1
<1>3. e < NumEpochs => (e + 1) * BatchesPerEpoch <= NumEpochs * BatchesPerEpoch
  BY <1>1, ProductMonotone
<1>4. e >= NumEpochs => NumEpochs * BatchesPerEpoch <= e * BatchesPerEpoch
  BY <1>1, ProductMonotone
<1>5. Batches = NumEpochs * BatchesPerEpoch
  BY <1>1 DEF Batches
<1>6. /\ (e * BatchesPerEpoch + i) \div BatchesPerEpoch = e
      /\ (e * BatchesPerEpoch + i) % BatchesPerEpoch = i
  BY <1>1, DivUnique
<1> DEFINE a == e * BatchesPerEpoch
           b == NumEpochs * BatchesPerEpoch
<1>7. b \in Nat
  BY <1>1
<1>8. /\ e < NumEpochs => a + BatchesPerEpoch <= b
      /\ e >= NumEpochs => b <= a
  BY <1>2, <1>3, <1>4
<1>9. a \in Nat /\ Batches = b
  BY <1>2, <1>5
<1> HIDE DEF a, b
<1>10. /\ e < NumEpochs => a + i < Batches
       /\ e >= NumEpochs => a + i >= Batches
  BY <1>1, <1>7, <1>8, <1>9
<1>11. QED
  BY <1>2, <1>6, <1>10 DEF a

(* The batches of the run: every step is the batch of one position. *)
LEMMA StepPosition ==
    ASSUME TrainingAssumption, NEW g \in Steps
    PROVE  /\ g \div BatchesPerEpoch \in 0 .. NumEpochs
           /\ g % BatchesPerEpoch \in 0 .. BatchesPerEpoch - 1
           /\ g = (g \div BatchesPerEpoch) * BatchesPerEpoch + (g % BatchesPerEpoch)
           /\ g \div BatchesPerEpoch = NumEpochs => g % BatchesPerEpoch = 0
<1>1. g \in Nat /\ g <= Batches /\ BatchesPerEpoch \in Nat \ {0} /\ NumEpochs \in Nat
      /\ Batches \in Nat
  BY Parameters
<1> DEFINE e == g \div BatchesPerEpoch
           i == g % BatchesPerEpoch
<1>2. e \in Nat /\ i \in 0 .. BatchesPerEpoch - 1 /\ g = e * BatchesPerEpoch + i
  BY <1>1, DivMod
<1> HIDE DEF e, i
<1>3. Batches = NumEpochs * BatchesPerEpoch + 0 /\ 0 \in 0 .. BatchesPerEpoch - 1
  BY <1>1 DEF Batches
<1>4. Batches \div BatchesPerEpoch = NumEpochs
  BY <1>1, <1>3, DivUnique
<1>5. e <= NumEpochs
  BY <1>1, <1>4, DivMonotone DEF e
<1>6. e = NumEpochs => i = 0
  <2>1. SUFFICES ASSUME e = NumEpochs PROVE i = 0
    OBVIOUS
  <2>2. g = Batches + i
    BY <1>1, <1>2, <1>3, <2>1
  <2>3. QED
    BY <1>1, <1>2, <2>2
<1>7. e \in 0 .. NumEpochs
  BY <1>1, <1>2, <1>5
<1>8. QED
  BY <1>2, <1>6, <1>7 DEF e, i

(* compute_resume_position: a position at the start of an accumulation     *)
(* cycle, at most one cycle before the saved one.                          *)
LEMMA ResumeFacts ==
    ASSUME TrainingAssumption, NEW g \in Steps
    PROVE  LET at == ResumePosition(g)
           IN  /\ at.epoch \in 0 .. NumEpochs /\ at.skip \in 0 .. BatchesPerEpoch - 1
               /\ at.step = at.epoch * BatchesPerEpoch + at.skip
               /\ at.step \in Nat /\ at.step <= g
               /\ at.epoch = g \div BatchesPerEpoch
               /\ at.skip \div GradAccum = (g % BatchesPerEpoch) \div GradAccum
               /\ at.skip % GradAccum = 0
               /\ at.epoch = NumEpochs => at.skip = 0
<1> DEFINE e == g \div BatchesPerEpoch
           i == g % BatchesPerEpoch
           q == i \div GradAccum
           skip == q * GradAccum
<1>1. /\ e \in 0 .. NumEpochs /\ i \in 0 .. BatchesPerEpoch - 1
      /\ g = e * BatchesPerEpoch + i /\ (e = NumEpochs => i = 0)
  BY StepPosition
<1>2. ResumePosition(g) = [epoch |-> e, skip |-> skip, step |-> e * BatchesPerEpoch + skip]
  BY DEF ResumePosition
<1>3. BatchesPerEpoch \in Nat \ {0} /\ GradAccum \in Nat \ {0} /\ NumEpochs \in Nat
  BY Parameters
<1> HIDE DEF e, i
<1>4. i \in Nat
  BY <1>1, <1>3
<1>5. q \in Nat /\ i % GradAccum \in 0 .. GradAccum - 1 /\ i = q * GradAccum + (i % GradAccum)
  BY <1>3, <1>4, DivMod
<1> HIDE DEF q
<1>6. skip \in Nat /\ skip <= i
  BY <1>3, <1>4, <1>5
<1>7. 0 \in 0 .. GradAccum - 1 /\ skip = q * GradAccum + 0
  BY <1>3, <1>6
<1>8. skip \div GradAccum = q /\ skip % GradAccum = 0
  BY <1>3, <1>5, <1>7, DivUnique, ZenonT(30)
<1> HIDE DEF skip
<1>9. e * BatchesPerEpoch \in Nat
  BY <1>1, <1>3
<1>10. skip \in 0 .. BatchesPerEpoch - 1 /\ (e = NumEpochs => skip = 0)
  BY <1>1, <1>3, <1>4, <1>6
<1>11. e * BatchesPerEpoch + skip \in Nat /\ e * BatchesPerEpoch + skip <= g
  BY <1>1, <1>4, <1>6, <1>9
<1>12. QED
  BY <1>1, <1>2, <1>8, <1>10, <1>11 DEF e, i, q

LEMMA ResumeMonotone ==
    ASSUME TrainingAssumption, NEW g \in Steps, NEW h \in Steps, g <= h
    PROVE  ResumePosition(g).step <= ResumePosition(h).step
<1> DEFINE e == g \div BatchesPerEpoch
           i == g % BatchesPerEpoch
           f == h \div BatchesPerEpoch
           j == h % BatchesPerEpoch
           eb == e * BatchesPerEpoch
           fb == f * BatchesPerEpoch
           p == (i \div GradAccum) * GradAccum
           q == (j \div GradAccum) * GradAccum
<1>1. BatchesPerEpoch \in Nat \ {0} /\ GradAccum \in Nat \ {0} /\ g \in Nat /\ h \in Nat
      /\ NumEpochs \in Nat
  BY Parameters
<1>2. /\ ResumePosition(g).step = eb + p /\ ResumePosition(h).step = fb + q
  BY DEF ResumePosition
<1>3. /\ e \in Nat /\ i \in 0 .. BatchesPerEpoch - 1 /\ g = eb + i
      /\ f \in Nat /\ j \in 0 .. BatchesPerEpoch - 1 /\ h = fb + j
  BY <1>1, DivMod
<1>4. e <= f
  BY <1>1, DivMonotone
<1> HIDE DEF e, f, i, j
<1>5. eb \in Nat /\ fb \in Nat /\ (e < f => (e + 1) * BatchesPerEpoch <= fb)
      /\ (e + 1) * BatchesPerEpoch = eb + BatchesPerEpoch
  BY <1>1, <1>3, ProductMonotone
<1>6. i \in Nat /\ j \in Nat /\ (e = f => i <= j)
  BY <1>1, <1>3, <1>5
<1>7. p \in Nat /\ q \in Nat /\ p <= i /\ (i <= j => p <= q)
  <2>1. /\ i \div GradAccum \in Nat /\ j \div GradAccum \in Nat
        /\ i = p + (i % GradAccum) /\ i % GradAccum \in Nat
    BY <1>1, <1>6, DivMod
  <2>2. i <= j => i \div GradAccum <= j \div GradAccum
    BY <1>1, <1>6, DivMonotone
  <2>3. i <= j => p <= q
    BY <1>1, <2>1, <2>2, ProductMonotone
  <2>4. p \in Nat /\ q \in Nat
    BY <1>1, <2>1
  <2> HIDE DEF p, q
  <2>5. p <= i
    BY <1>6, <2>1, <2>4
  <2>6. QED
    BY <2>3, <2>4, <2>5
<1> HIDE DEF eb, fb, p, q
<1>8. CASE e = f
  BY <1>2, <1>5, <1>6, <1>7, <1>8 DEF eb, fb
<1>9. CASE e < f
  BY <1>1, <1>2, <1>3, <1>5, <1>6, <1>7, <1>9
<1>10. QED
  BY <1>3, <1>4, <1>8, <1>9
-----------------------------------------------------------------------------
(* Accumulation cycles: the batch after the open cycle either completes it *)
(* to the next cycle of the uninterrupted run, or leaves it open.          *)
LEMMA SplitPosition ==
    ASSUME TrainingAssumption, NEW i \in 0 .. BatchesPerEpoch - 1
    PROVE  LET q == i \div GradAccum
               r == i % GradAccum
           IN  /\ q \in Nat /\ r \in 0 .. GradAccum - 1 /\ i = q * GradAccum + r
               /\ q < PerEpoch
               /\ i + 1 = BatchesPerEpoch => PerEpoch = q + 1
               /\ r + 1 = GradAccum => (i + 1) \div GradAccum = q + 1 /\ (i + 1) % GradAccum = 0
               /\ r + 1 < GradAccum => (i + 1) \div GradAccum = q /\ (i + 1) % GradAccum = r + 1
<1> DEFINE q == i \div GradAccum
           r == i % GradAccum
<1>1. BatchesPerEpoch \in Nat \ {0} /\ GradAccum \in Nat \ {0} /\ i \in Nat
  BY Parameters
<1>2. q \in Nat /\ r \in 0 .. GradAccum - 1 /\ i = q * GradAccum + r
  BY <1>1, DivMod
<1> HIDE DEF q, r
<1>3. (q + 1) * GradAccum = q * GradAccum + GradAccum /\ q * GradAccum \in Nat
  BY <1>1, <1>2
<1>4. q < PerEpoch
  <2>1. ((q + 1) * GradAccum + 0) \div GradAccum = q + 1
    BY <1>1, <1>2, DivUnique
  <2>2. /\ (q + 1) * GradAccum + 0 \in Nat /\ BatchesPerEpoch + GradAccum - 1 \in Nat
        /\ (q + 1) * GradAccum + 0 <= BatchesPerEpoch + GradAccum - 1
    BY <1>1, <1>2, <1>3
  <2>3. q + 1 <= (BatchesPerEpoch + GradAccum - 1) \div GradAccum
    BY <1>1, <2>1, <2>2, DivMonotone
  <2>4. QED
    BY <1>2, <2>3, Parameters DEF PerEpoch
<1>5. ASSUME i + 1 = BatchesPerEpoch PROVE PerEpoch = q + 1
  <2>1. BatchesPerEpoch + GradAccum - 1 = (q + 1) * GradAccum + r
    BY <1>1, <1>2, <1>3, <1>5
  <2>2. QED
    BY <1>1, <1>2, <2>1, DivUnique DEF PerEpoch
<1>6. ASSUME r + 1 = GradAccum
      PROVE  (i + 1) \div GradAccum = q + 1 /\ (i + 1) % GradAccum = 0
  <2>1. i + 1 = (q + 1) * GradAccum + 0 /\ 0 \in 0 .. GradAccum - 1 /\ q + 1 \in Nat
    BY <1>1, <1>2, <1>3, <1>6
  <2>2. /\ ((q + 1) * GradAccum + 0) \div GradAccum = q + 1
        /\ ((q + 1) * GradAccum + 0) % GradAccum = 0
    BY <1>1, <2>1, DivUnique
  <2>3. QED
    BY <2>1, <2>2, Zenon
<1>7. ASSUME r + 1 < GradAccum
      PROVE  (i + 1) \div GradAccum = q /\ (i + 1) % GradAccum = r + 1
  <2>1. i + 1 = q * GradAccum + (r + 1) /\ r + 1 \in 0 .. GradAccum - 1
    BY <1>1, <1>2, <1>3, <1>7
  <2>2. QED
    BY <1>1, <1>2, <2>1, DivUnique
<1>8. QED
  BY <1>2, <1>4, <1>5, <1>6, <1>7 DEF q, r

LEMMA IdealFacts ==
    ASSUME TrainingAssumption, NEW e \in Nat, NEW q \in Nat, q < PerEpoch,
           NEW n \in Nat, n = IF (q + 1) * GradAccum <= BatchesPerEpoch
                              THEN GradAccum ELSE BatchesPerEpoch - q * GradAccum
    PROVE  IdealCycle(e * PerEpoch + q + 1)
              = [j \in 1 .. n |-> e * BatchesPerEpoch + q * GradAccum + j - 1]
<1> DEFINE k == e * PerEpoch + q + 1
           start == e * BatchesPerEpoch
           first == start + q * GradAccum
           A == first + GradAccum
           B == start + BatchesPerEpoch
           end == Min({A, B})
<1>1. BatchesPerEpoch \in Nat \ {0} /\ GradAccum \in Nat \ {0} /\ PerEpoch \in Nat \ {0}
  BY Parameters
<1>2. k - 1 = e * PerEpoch + q /\ e * PerEpoch \in Nat
  BY <1>1
<1>3. (k - 1) \div PerEpoch = e /\ (k - 1) % PerEpoch = q
  <2>1. q \in 0 .. PerEpoch - 1
    BY <1>1
  <2>2. QED
    BY <1>1, <1>2, <2>1, DivUnique
<1>4. IdealCycle(k) = [j \in 1 .. end - first |-> first + j - 1]
  <2> HIDE DEF k
  <2>1. QED
    BY <1>3 DEF IdealCycle, PerEpoch
<1>5. start \in Nat /\ q * GradAccum \in Nat /\ (q + 1) * GradAccum = q * GradAccum + GradAccum
  BY <1>1
<1> HIDE DEF start
<1>6. first \in Nat /\ A \in Nat /\ B \in Nat
  BY <1>1, <1>5
<1>7. end = IF A <= B THEN A ELSE B
  <2> HIDE DEF A, B
  <2>1. \E x \in {A, B} : \A y \in {A, B} : x <= y
    BY <1>6
  <2>2. end \in {A, B} /\ end <= A /\ end <= B
    BY <2>1 DEF Min
  <2>3. QED
    BY <1>6, <2>2
<1> HIDE DEF end
<1>8. end - first = n
  BY <1>1, <1>5, <1>6, <1>7
<1>9. QED
  BY <1>4, <1>8 DEF start

LEMMA NextCycle ==
    ASSUME TrainingAssumption, NEW e \in Nat, NEW i \in 0 .. BatchesPerEpoch - 1,
           NEW cycle, cycle = Append(Open(e, i), e * BatchesPerEpoch + i)
    PROVE  /\ Open(e, i) \in Seq(Nat) /\ Len(Open(e, i)) < GradAccum
           /\ cycle \in Seq(Nat) /\ Cycles(e, i) \in Nat
           /\ i + 1 = BatchesPerEpoch \/ Len(cycle) = GradAccum
                 => cycle = IdealCycle(Cycles(e, i) + 1)
           /\ i + 1 = BatchesPerEpoch
                 => Cycles(e + 1, 0) = Cycles(e, i) + 1 /\ Open(e + 1, 0) = <<>>
           /\ i + 1 # BatchesPerEpoch /\ Len(cycle) = GradAccum
                 => Cycles(e, i + 1) = Cycles(e, i) + 1 /\ Open(e, i + 1) = <<>>
           /\ i + 1 # BatchesPerEpoch /\ Len(cycle) # GradAccum
                 => Cycles(e, i + 1) = Cycles(e, i) /\ Open(e, i + 1) = cycle
<1> DEFINE q == i \div GradAccum
           r == i % GradAccum
           first == e * BatchesPerEpoch + q * GradAccum
<1>1. BatchesPerEpoch \in Nat \ {0} /\ GradAccum \in Nat \ {0} /\ PerEpoch \in Nat \ {0}
  BY Parameters
<1>2. /\ q \in Nat /\ r \in 0 .. GradAccum - 1 /\ i = q * GradAccum + r
      /\ q < PerEpoch
      /\ i + 1 = BatchesPerEpoch => PerEpoch = q + 1
      /\ r + 1 = GradAccum => (i + 1) \div GradAccum = q + 1 /\ (i + 1) % GradAccum = 0
      /\ r + 1 < GradAccum => (i + 1) \div GradAccum = q /\ (i + 1) % GradAccum = r + 1
  BY SplitPosition
<1>3. Open(e, i) = [j \in 1 .. r |-> first + j - 1] /\ Cycles(e, i) = e * PerEpoch + q
  BY DEF Open, Cycles
<1> HIDE DEF q, r
<1>4. /\ first \in Nat /\ e * BatchesPerEpoch + i = first + r /\ q * GradAccum \in Nat
      /\ e * BatchesPerEpoch \in Nat /\ r \in Nat /\ e * PerEpoch \in Nat
      /\ (q + 1) * GradAccum = q * GradAccum + GradAccum
  BY <1>1, <1>2
<1> HIDE DEF first
<1>5. Open(e, i) \in Seq(Nat) /\ Len(Open(e, i)) = r
  <2>1. \A j \in 1 .. r : first + j - 1 \in Nat
    BY <1>4
  <2>2. QED
    BY <1>3, <1>4, <2>1
<1>6. cycle = [j \in 1 .. r + 1 |-> first + j - 1] /\ cycle \in Seq(Nat) /\ Len(cycle) = r + 1
  <2>1. cycle \in Seq(Nat) /\ Len(cycle) = r + 1
    BY <1>4, <1>5
  <2>2. \A j \in 1 .. r + 1 : cycle[j] = first + j - 1
    <3> SUFFICES ASSUME NEW j \in 1 .. r + 1 PROVE cycle[j] = first + j - 1
      OBVIOUS
    <3>1. j = r + 1 \/ j \in 1 .. r
      BY <1>4
    <3>2. CASE j = r + 1
      BY <1>4, <1>5, <3>2
    <3>3. CASE j \in 1 .. r
      <4>1. Open(e, i)[j] = first + j - 1
        BY <1>3, <3>3
      <4>2. cycle[j] = Open(e, i)[j]
        BY <1>4, <1>5, <3>3
      <4>3. QED
        BY <4>1, <4>2
    <3>4. QED
      BY <3>1, <3>2, <3>3
  <2>3. cycle = [j \in 1 .. Len(cycle) |-> cycle[j]]
    BY <2>1
  <2>4. cycle = [j \in 1 .. r + 1 |-> cycle[j]]
    BY <2>1, <2>3
  <2>5. QED
    BY <2>1, <2>2, <2>4
<1>7. ASSUME i + 1 = BatchesPerEpoch \/ r + 1 = GradAccum
      PROVE  cycle = IdealCycle(e * PerEpoch + q + 1)
  <2>1. r + 1 = IF (q + 1) * GradAccum <= BatchesPerEpoch
                THEN GradAccum ELSE BatchesPerEpoch - q * GradAccum
    BY <1>1, <1>2, <1>4, <1>7
  <2>2. r + 1 \in Nat
    BY <1>4
  <2>3. IdealCycle(e * PerEpoch + q + 1)
           = [j \in 1 .. r + 1 |-> e * BatchesPerEpoch + q * GradAccum + j - 1]
    BY <1>2, <2>1, <2>2, IdealFacts
  <2>4. QED
    BY <1>6, <2>3 DEF first
<1>8. ASSUME NEW f \in Nat, NEW p \in Nat, p % GradAccum = 0
      PROVE  Open(f, p) = <<>>
  BY <1>8 DEF Open
<1>9. ASSUME i + 1 = BatchesPerEpoch
      PROVE  Cycles(e + 1, 0) = e * PerEpoch + q + 1 /\ Open(e + 1, 0) = <<>>
  <2>1. 0 = 0 * GradAccum + 0 /\ 0 \in 0 .. GradAccum - 1
    BY <1>1
  <2>2. 0 \div GradAccum = 0 /\ 0 % GradAccum = 0
    BY <1>1, <2>1, DivUnique
  <2>3. (e + 1) * PerEpoch = e * PerEpoch + PerEpoch
    BY <1>1
  <2>4. QED
    BY <1>1, <1>2, <1>4, <1>8, <1>9, <2>2, <2>3 DEF Cycles
<1>10. ASSUME i + 1 # BatchesPerEpoch, r + 1 = GradAccum
       PROVE  Cycles(e, i + 1) = e * PerEpoch + q + 1 /\ Open(e, i + 1) = <<>>
  <2>1. (i + 1) \div GradAccum = q + 1 /\ (i + 1) % GradAccum = 0
    BY <1>2, <1>10
  <2>2. Cycles(e, i + 1) = e * PerEpoch + (q + 1)
    BY <2>1 DEF Cycles
  <2>3. i + 1 \in Nat
    BY <1>1
  <2>4. QED
    BY <1>2, <1>4, <1>8, <2>1, <2>2, <2>3, SMTT(30)
<1>11. ASSUME i + 1 # BatchesPerEpoch, r + 1 # GradAccum
       PROVE  Cycles(e, i + 1) = e * PerEpoch + q /\ Open(e, i + 1) = cycle
  <2>1. (i + 1) \div GradAccum = q /\ (i + 1) % GradAccum = r + 1
    BY <1>1, <1>2, <1>11
  <2>2. Cycles(e, i + 1) = e * PerEpoch + q
    BY <2>1 DEF Cycles
  <2>3. Open(e, i + 1) = [j \in 1 .. r + 1 |-> e * BatchesPerEpoch + q * GradAccum + j - 1]
    BY <2>1 DEF Open
  <2>4. QED
    BY <1>6, <2>2, <2>3 DEF first
<1>12. /\ Open(e, i) \in Seq(Nat) /\ Len(Open(e, i)) < GradAccum
       /\ cycle \in Seq(Nat) /\ Cycles(e, i) \in Nat /\ Len(cycle) = r + 1
  <2>1. r < GradAccum
    BY <1>1, <1>2
  <2>2. e * PerEpoch + q \in Nat
    BY <1>2, <1>4, SMTT(30)
  <2>3. Cycles(e, i) \in Nat
    BY <1>3, <2>2
  <2>4. QED
    BY <1>5, <1>6, <2>1, <2>3
<1>13. Cycles(e, i) + 1 = e * PerEpoch + q + 1
  BY <1>3
<1>14. QED
  BY <1>3, <1>7, <1>9, <1>10, <1>11, <1>12, <1>13
-----------------------------------------------------------------------------
(* The lowest and the highest step of a set, and what `Oldest` leaves.     *)
LEMMA MinFacts ==
    ASSUME NEW S \in SUBSET Nat, S # {}
    PROVE  Min(S) \in S /\ \A y \in S : Min(S) <= y
<1> DEFINE R == {ss \in Nat \X Nat : ss[1] < ss[2]}
<1>1. R = OpToRel(<, Nat)
  BY DEF OpToRel
<1>2. IsWellFoundedOn(R, Nat)
  BY <1>1, NatLessThanWellFounded
<1> HIDE DEF R
<1>3. PICK x \in S : \A y \in S : <<y, x>> \notin R
  BY <1>2, WFMin
<1>4. ASSUME NEW y \in S PROVE x <= y
  <2>1. <<y, x>> \in Nat \X Nat /\ <<y, x>>[1] = y /\ <<y, x>>[2] = x
    OBVIOUS
  <2>2. ~(y < x)
    BY <1>3, <2>1 DEF R
  <2>3. QED
    BY <2>2
<1>5. QED
  BY <1>4 DEF Min

LEMMA MaxFacts ==
    ASSUME NEW n \in Nat, NEW S \in SUBSET (0 .. n), S # {}
    PROVE  Max(S) \in S /\ \A y \in S : y <= Max(S)
<1> DEFINE T == {n - s : s \in S}
<1>1. T \in SUBSET Nat /\ T # {}
  <2>1. \A s \in S : n - s \in Nat
    OBVIOUS
  <2>2. QED
    BY <2>1
<1>2. PICK x \in S : Min(T) = n - x
  BY <1>1, MinFacts
<1>3. \A y \in S : n - y \in T
  OBVIOUS
<1> HIDE DEF T
<1>4. \A y \in S : n - x <= n - y
  BY <1>1, <1>2, <1>3, MinFacts
<1>5. \A y \in S : x >= y
  BY <1>4
<1>6. QED
  BY <1>5 DEF Max

LEMMA MaxUnique ==
    ASSUME NEW n \in Nat, NEW S \in SUBSET (0 .. n), NEW x \in S, \A y \in S : y <= x
    PROVE  Max(S) = x
<1>1. Max(S) \in S /\ x <= Max(S) /\ Max(S) <= x
  BY MaxFacts
<1> DEFINE m == Max(S)
<1> HIDE DEF m
<1>2. \A y \in S : y \in Int
  OBVIOUS
<1>3. m \in S /\ x <= m /\ m <= x
  BY <1>1 DEF m
<1>4. m = x
  BY <1>2, <1>3
<1>5. QED
  BY <1>4 DEF m

LEMMA OldestFacts ==
    ASSUME TrainingAssumption, NEW n \in Nat, NEW S \in SUBSET (0 .. n)
    PROVE  /\ Oldest(S) \subseteq S /\ IsFiniteSet(S)
           /\ \A s \in Oldest(S) : \E t \in S : t > s
           /\ Oldest(S) = {} => Cardinality(S) <= KeepLastK
<1>1. KeepLastK \in Nat \ {0}
  BY Parameters
<1>2. IsFiniteSet(S)
  <2>1. 0 \in Int /\ n \in Int
    OBVIOUS
  <2>2. IsFiniteSet(0 .. n)
    BY <2>1, FS_Interval
  <2>3. QED
    BY <2>2, FS_Subset
<1>3. ASSUME NEW s \in Oldest(S)
      PROVE  \E t \in S : t > s
  <2>1. Cardinality({t \in S : t > s}) >= KeepLastK
    BY <1>3 DEF Oldest
  <2>2. {t \in S : t > s} # {}
    BY <1>1, <2>1, FS_EmptySet
  <2>3. QED
    BY <2>2
<1>4. ASSUME Oldest(S) = {}, S # {}
      PROVE  Cardinality(S) <= KeepLastK
  <2>1. S \in SUBSET Nat
    OBVIOUS
  <2> DEFINE m == Min(S)
  <2>2. m \in S /\ \A y \in S : m <= y
    BY <1>4, <2>1, MinFacts
  <2> HIDE DEF m
  <2>3. {t \in S : t > m} = S \ {m}
    <3>1. ASSUME NEW t \in S PROVE t > m <=> t # m
      <4>1. t \in Nat /\ m \in Nat /\ m <= t
        BY <2>1, <2>2
      <4>2. QED
        BY <4>1
    <3>2. QED
      BY <3>1
  <2>4. ~(Cardinality({t \in S : t > m}) >= KeepLastK)
    BY <1>4, <2>2 DEF Oldest
  <2>5. Cardinality(S \ {m}) = Cardinality(S) - 1
    BY <1>2, <2>2, FS_RemoveElement
  <2>6. Cardinality(S) \in Nat
    BY <1>2, FS_CardinalityType
  <2>7. QED
    <3>1. Cardinality(S) - 1 < KeepLastK
      <4>1. ~(Cardinality(S \ {m}) >= KeepLastK)
        BY <2>3, <2>4
      <4>2. QED
        BY <1>1, <2>5, <2>6, <4>1
    <3>2. QED
      BY <1>1, <2>6, <3>1
<1>5. S = {} => Cardinality(S) = 0
  BY FS_EmptySet
<1>6. QED
  BY <1>1, <1>2, <1>3, <1>4, <1>5 DEF Oldest

(* "In lockstep": no dir is pruned while its weights file is kept. *)
LEMMA PrunedTogether ==
    ASSUME TrainingAssumption, NEW n \in Nat, NEW S \in SUBSET (0 .. n), NEW T \in SUBSET S,
           \A d \in S \ T, f \in T : d < f,
           Oldest(T) = {}
    PROVE  Oldest(S) \cap T = {}
<1> SUFFICES ASSUME NEW p \in Oldest(S), p \in T PROVE FALSE
  OBVIOUS
<1> DEFINE A == {t \in S : t > p}
<1>1. KeepLastK \in Nat \ {0} /\ IsFiniteSet(S) /\ IsFiniteSet(T) /\ Cardinality(T) <= KeepLastK
  <2>1. T \in SUBSET (0 .. n)
    OBVIOUS
  <2>2. QED
    BY <2>1, Parameters, OldestFacts
<1>2. p \in Nat /\ Cardinality(A) >= KeepLastK
  BY DEF Oldest
<1>3. A \subseteq T \ {p}
  <2>1. ASSUME NEW t \in S, t > p PROVE t \in T /\ t # p
    <3>1. t \in Nat /\ ~(t < p)
      BY <1>2, <2>1
    <3>2. t \in T
      BY <3>1
    <3>3. QED
      BY <1>2, <2>1, <3>2
  <2>2. QED
    BY <2>1
<1> HIDE DEF A
<1>4. IsFiniteSet(T \ {p}) /\ Cardinality(T \ {p}) = Cardinality(T) - 1
  BY <1>1, FS_RemoveElement
<1>5. Cardinality(A) <= Cardinality(T \ {p}) /\ Cardinality(A) \in Nat
  BY <1>3, <1>4, FS_Subset, FS_CardinalityType
<1>6. Cardinality(T) \in Nat
  BY <1>1, FS_CardinalityType
<1>7. QED
  BY <1>1, <1>2, <1>4, <1>5, <1>6
-----------------------------------------------------------------------------
LEMMA SafeFacts ==
    ASSUME TrainingAssumption, Safe
    PROVE  /\ globalStep \in Steps /\ globalStep \in Nat /\ globalStep <= Total
           /\ epoch \in Nat /\ index \in Nat
           /\ dirs \subseteq Steps /\ files \subseteq Steps /\ 1 .. Total \subseteq Steps
           /\ dirs \subseteq 0 .. Total /\ files \subseteq 0 .. Total /\ marked \subseteq 0 .. Total
           /\ removing \in dirs => removing # NoStep
<1>1. Total \in Nat /\ Total <= Batches /\ Steps = 0 .. Batches /\ Batches \in Nat
  BY Parameters
<1>2. globalStep \in 0 .. Total /\ epoch \in 0 .. NumEpochs /\ index \in 0 .. BatchesPerEpoch - 1
      /\ files \subseteq 1 .. Total /\ dirs \subseteq 1 .. Total /\ marked \subseteq dirs
  BY DEF Safe, LoopInv, FileTypes
<1>3. 0 .. Total \subseteq Steps /\ 1 .. Total \subseteq 0 .. Total
  BY <1>1
<1>4. \A x \in 1 .. Total : x # NoStep
  BY <1>1 DEF NoStep
<1>5. globalStep \in Steps /\ globalStep \in Nat /\ globalStep <= Total /\ epoch \in Nat
  BY <1>1, <1>2
<1>6. index \in Nat
  BY <1>2, Parameters
<1>7. QED
  BY <1>2, <1>3, <1>4, <1>5, <1>6

LEMMA SafeInit == TrainingAssumption /\ Init => Safe
<1> SUFFICES ASSUME TrainingAssumption, Init PROVE Safe
  OBVIOUS
<1>1. /\ BatchesPerEpoch \in Nat \ {0} /\ GradAccum \in Nat \ {0} /\ NumEpochs \in Nat \ {0}
      /\ Total \in Nat \ {0} /\ Steps = 0 .. Batches /\ SaveSteps \in Nat \ {0} /\ PerEpoch \in Nat
  BY Parameters
<1>2. FileTypes
  BY <1>1 DEF Init, FileTypes, Phases
<1>3. PhaseInv
  BY DEF Init, PhaseInv, Saving, Stating, Ended
<1>4. LoopInv
  <2>1. 0 = 0 * GradAccum + 0 /\ 0 \in 0 .. GradAccum - 1
    BY <1>1
  <2>2. 0 \div GradAccum = 0 /\ 0 % GradAccum = 0
    BY <1>1, <2>1, DivUnique
  <2>3. Cycles(0, 0) = 0 /\ Open(0, 0) = <<>>
    BY <1>1, <2>2 DEF Cycles, Open
  <2>4. Exact(<<>>, 0)
    BY DEF Exact
  <2>5. \A s \in Steps : written[s] = {}
    BY DEF Init
  <2>6. QED
    BY <1>1, <2>3, <2>4, <2>5 DEF Init, LoopInv, SeedMatches
<1>5. TornInv
  BY DEF Init, TornInv, Saving, Ended
<1>6. QED
  BY <1>2, <1>3, <1>4, <1>5 DEF Safe

LEMMA TypesStep ==
    ASSUME TrainingAssumption, Safe, [Next]_vars
    PROVE  FileTypes'
<1>1. FileTypes /\ PhaseInv
  BY DEF Safe
<1>2. /\ globalStep \in Steps /\ globalStep \in Nat /\ globalStep <= Total
      /\ dirs \subseteq Steps /\ Total \in Nat \ {0}
  BY SafeFacts, Parameters
<1>3. CASE Step \/ Finish
  <2>1. UNCHANGED <<writing, todo, removing, files, torn, dirs, marked, written, content>>
    BY <1>3 DEF Step, Finish, doing, fileVars, dirVars
  <2>2. phase' \in Phases
    BY <1>3 DEF Step, Finish, Phases, Saving
  <2>3. optStep' \in {optStep, optStep + 1}
    BY <1>3 DEF Step, Finish, loopVars
  <2>4. QED
    BY <1>1, <2>1, <2>2, <2>3 DEF FileTypes
<1>4. CASE OpenWeights
  <2>1. globalStep \in 1 .. Total
    BY <1>1, <1>2, <1>4 DEF OpenWeights, PhaseInv, Saving
  <2>2. QED
    BY <1>1, <1>4, <2>1 DEF OpenWeights, FileTypes, Phases, Saving, doing, dirVars, loopVars
<1>5. CASE CloseWeights
  BY <1>1, <1>5 DEF CloseWeights, AfterWeights, FileTypes, Phases, Ended, Stating, Pruning, doing,
                    dirVars, loopVars
<1>6. CASE MakeDir
  <2>1. globalStep \in 1 .. Total
    BY <1>1, <1>2, <1>6 DEF MakeDir, PhaseInv, Stating
  <2>2. QED
    BY <1>1, <1>6, <2>1 DEF MakeDir, FileTypes, Phases, Stating, fileVars, loopVars
<1>7. ASSUME NEW r \in Ranks, OpenShard(r)
      PROVE  FileTypes'
  BY <1>1, <1>2, <1>7 DEF OpenShard, FileTypes, fileVars, loopVars
<1>8. ASSUME NEW r \in Ranks, CloseShard(r)
      PROVE  FileTypes'
  <2>1. weights \in Seq(Seq(Nat))
    BY DEF Safe, LoopInv, Exact
  <2>2. QED
    BY <1>1, <1>2, <1>8, <2>1 DEF CloseShard, FileTypes, fileVars, loopVars
<1>9. CASE Mark
  BY <1>1, <1>9 DEF Mark, FileTypes, PhaseInv, Phases, Pruning, Stating, doing, fileVars, loopVars
<1>10. CASE RemoveWeights
  BY <1>1, <1>10 DEF RemoveWeights, FileTypes, doing, dirVars, loopVars
<1>11. CASE ChooseDirs
  BY <1>1, <1>11 DEF ChooseDirs, PrunedDirs, Oldest, FileTypes, PhaseInv, Phases, Pruning, Ended,
                     fileVars, dirVars, loopVars
<1>12. CASE StartRemove
  <2>1. PICK d \in todo : /\ removing' = d /\ todo' = todo \ {d}
                          /\ \E kept \in SUBSET written[d] : written' = [written EXCEPT ![d] = kept]
                          /\ marked' \in {marked, marked \ {d}}
    BY <1>12 DEF StartRemove
  <2>2. UNCHANGED <<phase, writing, files, torn, dirs, content, optStep>>
    BY <1>12 DEF StartRemove, fileVars, loopVars
  <2>3. d \in dirs /\ d \in Steps
    BY <1>1, <1>2, <2>1 DEF FileTypes
  <2>4. written' \in [Steps -> SUBSET Ranks]
    BY <1>1, <2>1, <2>3 DEF FileTypes
  <2>5. QED
    BY <1>1, <2>1, <2>2, <2>3, <2>4 DEF FileTypes
<1>13. CASE EndRemove
  <2>1. UNCHANGED <<phase, writing, todo, files, torn, optStep>> /\ removing' = NoStep
        /\ removing \in dirs \ todo
    BY <1>1, <1>13 DEF EndRemove, FileTypes, fileVars, loopVars
  <2>2. \/ /\ dirs' = dirs \ {removing} /\ marked' = marked \ {removing}
           /\ written' = [written EXCEPT ![removing] = {}]
           /\ content' = [content EXCEPT ![removing] = <<>>]
        \/ UNCHANGED <<dirs, marked, written, content>>
    BY <1>13 DEF EndRemove, dirVars
  <2>3. written' \in [Steps -> SUBSET Ranks]
    BY <1>1, <2>2 DEF FileTypes
  <2>4. content' \in [Steps -> Seq(Seq(Nat))]
    <3>1. <<>> \in Seq(Seq(Nat))
      OBVIOUS
    <3>2. QED
      BY <1>1, <2>2, <3>1 DEF FileTypes
  <2>5. dirs' \subseteq 1 .. Total /\ marked' \subseteq dirs' /\ todo \subseteq dirs'
    BY <1>1, <2>1, <2>2 DEF FileTypes
  <2>6. QED
    BY <1>1, <2>1, <2>3, <2>4, <2>5 DEF FileTypes
<1>14. CASE CleanupEnds
  BY <1>1, <1>14 DEF CleanupEnds, FileTypes, Phases, Ended, doing, fileVars, dirVars, loopVars
<1>15. CASE Crash
  BY <1>1, <1>15 DEF Crash, Forget, FileTypes, Phases, fileVars, dirVars
<1>16. CASE Resume
  <2>1. optStep' \in Nat
    <3>1. marked # {} /\ Latest = Max(marked) /\ marked \subseteq 0 .. Total
      BY <1>16, SafeFacts DEF Resume, Latest
    <3>2. Latest \in marked
      BY <1>2, <3>1, MaxFacts
    <3>3. Latest \in Steps
      BY <1>1, <1>2, <3>2 DEF FileTypes
    <3>4. ResumePosition(Latest).step \in Nat /\ GradAccum \in Nat \ {0}
      BY <3>3, ResumeFacts, Parameters
    <3>5. optStep' = ResumePosition(Latest).step \div GradAccum
      BY <1>16 DEF Resume
    <3>6. QED
      BY <3>4, <3>5, DivMod
  <2>2. QED
    BY <1>1, <1>16, <2>1 DEF Resume, FileTypes, Phases, doing, fileVars, dirVars
<1>17. CASE Restart
  BY <1>1, <1>17 DEF Restart, FileTypes, PhaseInv, Phases, doing, loopVars
<1>18. CASE UNCHANGED vars
  BY <1>1, <1>18 DEF vars, FileTypes, doing, fileVars, dirVars, loopVars
<1>19. QED
  BY <1>3, <1>4, <1>5, <1>6, <1>7, <1>8, <1>9, <1>10, <1>11, <1>12, <1>13, <1>14, <1>15, <1>16,
     <1>17, <1>18 DEF Next

(* The loop ends where the uninterrupted run ends. *)
LEMMA ExhaustedFacts ==
    ASSUME TrainingAssumption, Safe
    PROVE  /\ Exhausted => globalStep = Total
           /\ ~Exhausted => globalStep < Total /\ epoch < NumEpochs
<1>1. /\ globalStep = epoch * BatchesPerEpoch + index /\ epoch \in Nat
      /\ index \in 0 .. BatchesPerEpoch - 1 /\ globalStep \in Nat /\ globalStep <= Total
      /\ epoch <= NumEpochs
  BY SafeFacts DEF Safe, LoopInv, SeedMatches
<1>2. /\ NumEpochs \in Nat /\ Batches \in Nat /\ MaxSteps \in Nat
      /\ Total = IF MaxSteps = 0 \/ MaxSteps > Batches THEN Batches ELSE MaxSteps
  BY Parameters DEF Total
<1>3. /\ epoch < NumEpochs => globalStep < Batches
      /\ epoch >= NumEpochs => globalStep >= Batches
  BY <1>1, Position
<1>4. QED
  BY <1>1, <1>2, <1>3 DEF Exhausted

LEMMA PhaseStep ==
    ASSUME TrainingAssumption, Safe, [Next]_vars
    PROVE  PhaseInv'
<1>1. FileTypes /\ PhaseInv
  BY DEF Safe
<1>2. globalStep \in Nat /\ globalStep <= Total /\ Total \in Nat \ {0}
  BY SafeFacts, Parameters
<1> USE DEF Saving, Stating, Ended
<1>3. CASE Step
  <2>1. /\ UNCHANGED <<writing, todo, removing, files, dirs>>
        /\ phase = "train" /\ globalStep' = globalStep + 1
        /\ phase' = IF globalStep' % SaveSteps = 0 THEN "save" ELSE "train"
    BY <1>3 DEF Step, doing, fileVars, dirVars
  <2>2. globalStep' > 0
    BY <1>2, <2>1
  <2>3. QED
    BY <1>1, <2>1, <2>2 DEF PhaseInv
<1>4. CASE Finish
  BY <1>1, <1>4, ExhaustedFacts DEF Finish, PhaseInv, loopVars, doing, fileVars, dirVars
<1>5. CASE OpenWeights \/ CloseWeights
  BY <1>1, <1>5 DEF OpenWeights, CloseWeights, AfterWeights, PhaseInv, loopVars, doing, dirVars
<1>6. CASE MakeDir
  BY <1>1, <1>6 DEF MakeDir, PhaseInv, loopVars, fileVars
<1>7. ASSUME NEW r \in Ranks, OpenShard(r) \/ CloseShard(r)
      PROVE  PhaseInv'
  BY <1>1, <1>7 DEF OpenShard, CloseShard, PhaseInv, loopVars, fileVars
<1>8. CASE Mark
  BY <1>1, <1>8 DEF Mark, PhaseInv, loopVars, fileVars, doing
<1>9. CASE RemoveWeights
  <2>1. /\ UNCHANGED <<globalStep, phase, writing, todo, removing, dirs>>
        /\ phase \in {"prune", "finalFiles"} /\ Oldest(files) # {} /\ files' = files \ {Min(files)}
    BY <1>9 DEF RemoveWeights, loopVars, doing, dirVars
  <2>2. phase = "finalFiles" => globalStep \in files'
    <3>1. files \subseteq 0 .. Total /\ files \in SUBSET Nat /\ Total \in Nat
      BY <1>2, SafeFacts
    <3>2. PICK s \in files, t \in files : t > s
      BY <2>1, <3>1, OldestFacts
    <3>3. Min(files) \in files /\ Min(files) <= s
      BY <3>1, <3>2, MinFacts
    <3>4. Min(files) # Total
      BY <3>1, <3>2, <3>3
    <3>5. QED
      BY <1>1, <2>1, <3>4 DEF PhaseInv
  <2>3. QED
    BY <1>1, <2>1, <2>2 DEF PhaseInv
<1>10. CASE ChooseDirs
  BY <1>1, <1>10 DEF ChooseDirs, PhaseInv, loopVars, fileVars, dirVars
<1>11. CASE StartRemove
  BY <1>1, <1>11 DEF StartRemove, PhaseInv, loopVars, fileVars
<1>12. CASE EndRemove
  <2>1. /\ UNCHANGED <<globalStep, phase, writing, todo, files>> /\ removing # NoStep
        /\ dirs' \subseteq dirs
    BY <1>12 DEF EndRemove, loopVars, fileVars, dirVars
  <2>2. phase \in {"pruneDirs", "finalDirs"}
    BY <1>1, <2>1 DEF PhaseInv
  <2>3. QED
    BY <1>1, <2>1, <2>2 DEF PhaseInv
<1>13. CASE CleanupEnds
  BY <1>1, <1>13 DEF CleanupEnds, PhaseInv, loopVars, doing, fileVars, dirVars
<1>14. CASE Crash
  BY <1>1, <1>14 DEF Crash, Forget, PhaseInv, fileVars, dirVars
<1>15. CASE Resume
  BY <1>1, <1>15 DEF Resume, PhaseInv, doing, fileVars, dirVars
<1>16. CASE Restart
  BY <1>1, <1>16 DEF Restart, PhaseInv, doing, loopVars
<1>17. CASE UNCHANGED vars
  BY <1>1, <1>17 DEF vars, PhaseInv, doing, fileVars, dirVars, loopVars
<1>18. QED
  BY <1>3, <1>4, <1>5, <1>6, <1>7, <1>8, <1>9, <1>10, <1>11, <1>12, <1>13, <1>14, <1>15, <1>16,
     <1>17 DEF Next

LEMMA LatestFacts ==
    ASSUME TrainingAssumption, Safe
    PROVE  /\ Latest = NoStep <=> marked = {}
           /\ marked # {} => /\ Latest \in marked /\ Latest = Base
                             /\ \A m \in marked : m <= Latest
           /\ \A m \in marked : m \in Steps /\ m \in Nat
           /\ Base \in Nat
<1>1. marked \in SUBSET (0 .. Total) /\ marked \subseteq Steps /\ Total \in Nat
  BY SafeFacts, Parameters DEF Safe, FileTypes
<1>2. marked # {} => Max(marked) \in marked /\ \A m \in marked : m <= Max(marked)
  BY <1>1, MaxFacts
<1>3. \A m \in marked : m \in Nat
  BY <1>1
<1>4. marked # {} => Max(marked) # NoStep
  BY <1>2, <1>3 DEF NoStep
<1>5. QED
  BY <1>1, <1>2, <1>3, <1>4 DEF Latest, Base

(* A step that leaves the loop alone and adds no shard. *)
LEMMA LoopFrame ==
    ASSUME TrainingAssumption, Safe,
           UNCHANGED <<weights, accum, globalStep, epoch, index>>,
           phase' = "down" => phase = "down",
           \A s \in Steps : written'[s] # {} => written[s] # {} /\ content'[s] = content[s]
    PROVE  LoopInv'
<1>1. LoopInv
  BY DEF Safe
<1>2. \A s \in Steps : written'[s] # {} =>
          Exact(content'[s], Cycles(s \div BatchesPerEpoch, s % BatchesPerEpoch))
  BY <1>1 DEF LoopInv
<1>3. /\ SeedMatches'
      /\ globalStep' \in 0 .. Total
      /\ epoch' \in 0 .. NumEpochs /\ index' \in 0 .. BatchesPerEpoch - 1
      /\ Exact(weights', Cycles(epoch', index'))
      /\ accum' = Open(epoch', index')
      /\ phase' = "down" => globalStep' = 0 /\ weights' = <<>>
  BY <1>1 DEF LoopInv, SeedMatches
<1>4. QED
  BY <1>2, <1>3 DEF LoopInv

LEMMA LoopStep ==
    ASSUME TrainingAssumption, Safe, [Next]_vars
    PROVE  LoopInv'
<1>1. FileTypes /\ PhaseInv /\ LoopInv
  BY DEF Safe
<1>2. /\ BatchesPerEpoch \in Nat \ {0} /\ GradAccum \in Nat \ {0} /\ NumEpochs \in Nat \ {0}
      /\ Total \in Nat \ {0}
  BY Parameters
<1>3. /\ globalStep \in Nat /\ globalStep \in Steps /\ epoch \in Nat /\ index \in Nat
      /\ globalStep = epoch * BatchesPerEpoch + index
      /\ index \in 0 .. BatchesPerEpoch - 1
  BY <1>1, SafeFacts DEF LoopInv, SeedMatches
<1>4. \A s \in Steps : written[s] # {} =>
          Exact(content[s], Cycles(s \div BatchesPerEpoch, s % BatchesPerEpoch))
  BY <1>1 DEF LoopInv
<1>5. CASE Step
  <2> DEFINE batch == epoch * BatchesPerEpoch + index
             cycle == Append(accum, batch)
             last  == index + 1 = BatchesPerEpoch
  <2>1. /\ IF last \/ Len(cycle) = GradAccum
           THEN weights' = Append(weights, cycle) /\ accum' = <<>>
           ELSE accum' = cycle /\ weights' = weights
        /\ epoch' = IF last THEN epoch + 1 ELSE epoch
        /\ index' = IF last THEN 0 ELSE index + 1
        /\ globalStep' = globalStep + 1 /\ phase' # "down"
        /\ written' = written /\ content' = content
    BY <1>5 DEF Step, dirVars
  <2>2. globalStep < Total /\ epoch < NumEpochs
    BY <1>5, ExhaustedFacts DEF Step
  <2>3. epoch' \in 0 .. NumEpochs /\ index' \in 0 .. BatchesPerEpoch - 1
    BY <1>2, <1>3, <2>1, <2>2
  <2>4. SeedMatches' /\ globalStep' \in 0 .. Total
    <3>1. (epoch + 1) * BatchesPerEpoch = epoch * BatchesPerEpoch + BatchesPerEpoch
      BY <1>3, Position
    <3>2. epoch * BatchesPerEpoch \in Nat
      BY <1>3, Position
    <3>3. CASE last
      <4>1. epoch' = epoch + 1 /\ index' = 0
        BY <2>1, <3>3
      <4>2. epoch' * BatchesPerEpoch = epoch * BatchesPerEpoch + BatchesPerEpoch
        BY <3>1, <4>1
      <4>3. QED
        BY <1>2, <1>3, <2>1, <2>2, <3>2, <3>3, <4>1, <4>2 DEF SeedMatches
    <3>4. CASE ~last
      <4>1. epoch' = epoch /\ index' = index + 1
        BY <2>1, <3>4
      <4>2. epoch' * BatchesPerEpoch = epoch * BatchesPerEpoch
        BY <4>1
      <4>3. QED
        BY <1>2, <1>3, <2>1, <2>2, <3>2, <4>1, <4>2 DEF SeedMatches
    <3>5. QED
      BY <3>3, <3>4
  <2>5. accum = Open(epoch, index) /\ Exact(weights, Cycles(epoch, index))
    BY <1>1 DEF LoopInv
  <2>6. cycle = Append(Open(epoch, index), epoch * BatchesPerEpoch + index)
    BY <2>5
  <2>7. /\ cycle \in Seq(Nat) /\ Cycles(epoch, index) \in Nat
        /\ last \/ Len(cycle) = GradAccum => cycle = IdealCycle(Cycles(epoch, index) + 1)
        /\ last => Cycles(epoch + 1, 0) = Cycles(epoch, index) + 1 /\ Open(epoch + 1, 0) = <<>>
        /\ ~last /\ Len(cycle) = GradAccum
              => Cycles(epoch, index + 1) = Cycles(epoch, index) + 1 /\ Open(epoch, index + 1) = <<>>
        /\ ~last /\ Len(cycle) # GradAccum
              => Cycles(epoch, index + 1) = Cycles(epoch, index) /\ Open(epoch, index + 1) = cycle
    <3> HIDE DEF cycle
    <3>1. QED
      BY <1>3, <2>6, NextCycle, SMTT(30)
  <2> HIDE DEF cycle
  <2>8. accum' = Open(epoch', index')
    BY <2>1, <2>7
  <2>9. Exact(weights', Cycles(epoch', index'))
    <3>1. CASE last \/ Len(cycle) = GradAccum
      <4> DEFINE n == Cycles(epoch, index)
      <4>1. weights' = Append(weights, cycle) /\ Cycles(epoch', index') = n + 1
            /\ cycle = IdealCycle(n + 1)
        BY <2>1, <2>7, <3>1
      <4>2. /\ weights \in Seq(Seq(Nat)) /\ Len(weights) = n
            /\ \A k \in DOMAIN weights : weights[k] = IdealCycle(k)
        BY <2>5 DEF Exact
      <4>3. n \in Nat
        BY <2>7
      <4> HIDE DEF n
      <4>4. Append(weights, cycle) \in Seq(Seq(Nat)) /\ Len(Append(weights, cycle)) = n + 1
        BY <2>7, <4>2
      <4>5. ASSUME NEW k \in DOMAIN Append(weights, cycle)
            PROVE  Append(weights, cycle)[k] = IdealCycle(k)
        <5>1. k \in DOMAIN weights \/ k = n + 1
          BY <4>2, <4>3, <4>4, <4>5
        <5>2. CASE k = n + 1
          <6>1. Append(weights, cycle)[n + 1] = cycle
            BY <2>7, <4>2
          <6>2. QED
            BY <4>1, <5>2, <6>1
        <5>3. CASE k \in DOMAIN weights
          <6>1. Append(weights, cycle)[k] = weights[k]
            BY <2>7, <4>2, <5>3
          <6>2. QED
            BY <4>2, <5>3, <6>1
        <5>4. QED
          BY <5>1, <5>2, <5>3
      <4>6. Exact(Append(weights, cycle), n + 1)
        BY <4>4, <4>5 DEF Exact
      <4>7. QED
        BY <4>1, <4>6
    <3>2. CASE ~last /\ Len(cycle) # GradAccum
      <4>1. weights' = weights /\ Cycles(epoch', index') = Cycles(epoch, index)
        BY <2>1, <2>7, <3>2
      <4>2. QED
        BY <2>5, <4>1
    <3>3. QED
      BY <3>1, <3>2
  <2>10. QED
    BY <1>4, <2>1, <2>3, <2>4, <2>8, <2>9 DEF LoopInv
<1>6. CASE Finish \/ OpenWeights \/ CloseWeights \/ MakeDir \/ Mark
  <2>1. /\ UNCHANGED <<loopVars, written, content>> /\ phase' # "down"
    BY <1>6 DEF Finish, OpenWeights, CloseWeights, AfterWeights, MakeDir, Mark, dirVars
  <2>2. QED
    BY <2>1, LoopFrame DEF loopVars
<1>7. CASE RemoveWeights \/ ChooseDirs \/ CleanupEnds \/ UNCHANGED vars
  <2>1. /\ UNCHANGED <<loopVars, written, content>> /\ (phase' = phase \/ phase' # "down")
    BY <1>7 DEF RemoveWeights, ChooseDirs, CleanupEnds, vars, dirVars
  <2>2. QED
    BY <2>1, LoopFrame DEF loopVars
<1>8. ASSUME NEW r \in Ranks, OpenShard(r)
      PROVE  LoopInv'
  <2>1. /\ UNCHANGED loopVars /\ phase' = phase /\ content' = content
        /\ written' = [written EXCEPT ![globalStep] = @ \ {r}]
    BY <1>8 DEF OpenShard
  <2>2. \A s \in Steps : written'[s] \subseteq written[s]
    BY <1>1, <2>1 DEF FileTypes
  <2>3. QED
    BY <2>1, <2>2, LoopFrame DEF loopVars
<1>9. ASSUME NEW r \in Ranks, CloseShard(r)
      PROVE  LoopInv'
  <2>1. /\ UNCHANGED loopVars /\ phase' = phase
        /\ written' = [written EXCEPT ![globalStep] = @ \cup {r}]
        /\ content' = [content EXCEPT ![globalStep] = weights]
    BY <1>9 DEF CloseShard
  <2>2. Cycles(globalStep \div BatchesPerEpoch, globalStep % BatchesPerEpoch)
           = Cycles(epoch, index)
    <3>1. globalStep \div BatchesPerEpoch = epoch /\ globalStep % BatchesPerEpoch = index
      <4>1. /\ (epoch * BatchesPerEpoch + index) \div BatchesPerEpoch = epoch
            /\ (epoch * BatchesPerEpoch + index) % BatchesPerEpoch = index
        BY <1>3, Position
      <4>2. QED
        BY <1>3, <4>1, Zenon
    <3>2. QED
      BY <3>1, Zenon
  <2>3. ASSUME NEW s \in Steps, written'[s] # {}
        PROVE  Exact(content'[s], Cycles(s \div BatchesPerEpoch, s % BatchesPerEpoch))
    <3>1. CASE s = globalStep
      <4>1. content'[s] = weights
        BY <1>1, <2>1, <3>1 DEF FileTypes
      <4>2. Exact(weights, Cycles(epoch, index))
        BY <1>1 DEF LoopInv
      <4>3. QED
        BY <2>2, <3>1, <4>1, <4>2, Zenon
    <3>2. CASE s # globalStep
      <4>1. content'[s] = content[s] /\ written'[s] = written[s]
        BY <1>1, <2>1, <3>2 DEF FileTypes
      <4>2. QED
        BY <1>4, <2>3, <4>1, Zenon
    <3>3. QED
      BY <3>1, <3>2
  <2>4. /\ SeedMatches'
        /\ globalStep' \in 0 .. Total
        /\ epoch' \in 0 .. NumEpochs /\ index' \in 0 .. BatchesPerEpoch - 1
        /\ Exact(weights', Cycles(epoch', index'))
        /\ accum' = Open(epoch', index')
        /\ phase' = "down" => globalStep' = 0 /\ weights' = <<>>
    BY <1>1, <2>1 DEF LoopInv, SeedMatches, loopVars
  <2>5. QED
    BY <2>3, <2>4 DEF LoopInv
<1>10. CASE StartRemove
  <2>1. PICK d \in todo : \E kept \in SUBSET written[d] : written' = [written EXCEPT ![d] = kept]
    BY <1>10 DEF StartRemove
  <2>2. UNCHANGED <<loopVars, phase, content>>
    BY <1>10 DEF StartRemove
  <2>3. \A s \in Steps : written'[s] \subseteq written[s]
    BY <1>1, <2>1 DEF FileTypes
  <2>4. QED
    BY <2>2, <2>3, LoopFrame DEF loopVars
<1>11. CASE EndRemove
  <2>1. /\ UNCHANGED <<loopVars, phase>>
        /\ \/ written' = [written EXCEPT ![removing] = {}]
              /\ content' = [content EXCEPT ![removing] = <<>>]
           \/ written' = written /\ content' = content
    BY <1>11 DEF EndRemove, dirVars
  <2>2. ASSUME NEW s \in Steps, written'[s] # {}
        PROVE  written[s] # {} /\ content'[s] = content[s]
    BY <1>1, <2>1, <2>2 DEF FileTypes
  <2>3. QED
    BY <2>1, <2>2, LoopFrame DEF loopVars
<1>12. ASSUME TRUE
       PROVE  Cycles(0, 0) = 0 /\ Open(0, 0) = <<>> /\ Exact(<<>>, 0)
  <2>1. 0 = 0 * GradAccum + 0 /\ 0 \in 0 .. GradAccum - 1
    BY <1>2
  <2>2. 0 \div GradAccum = 0 /\ 0 % GradAccum = 0
    BY <1>2, <2>1, DivUnique
  <2>3. 0 * PerEpoch + 0 = 0
    BY Parameters
  <2>4. QED
    BY <2>2, <2>3 DEF Cycles, Open, Exact
<1>13. CASE Crash
  <2>1. /\ weights' = <<>> /\ globalStep' = 0 /\ epoch' = 0 /\ index' = 0 /\ accum' = <<>>
        /\ written' = written /\ content' = content
    BY <1>13 DEF Crash, Forget, dirVars
  <2>2. SeedMatches' /\ globalStep' \in 0 .. Total /\ epoch' \in 0 .. NumEpochs
        /\ index' \in 0 .. BatchesPerEpoch - 1
    BY <1>2, <2>1 DEF SeedMatches
  <2>3. Exact(weights', Cycles(epoch', index')) /\ accum' = Open(epoch', index')
    BY <1>12, <2>1
  <2>4. QED
    BY <1>4, <2>1, <2>2, <2>3 DEF LoopInv
<1>14. CASE Resume
  <2> DEFINE at == ResumePosition(Latest)
  <2>1. /\ weights' = content[Latest] /\ epoch' = at.epoch /\ index' = at.skip
        /\ globalStep' = at.step /\ accum' = accum /\ phase' = "train"
        /\ written' = written /\ content' = content
        /\ Latest # NoStep /\ written[Latest] = Ranks /\ phase = "down"
    BY <1>14 DEF Resume, dirVars
  <2>2. Latest \in Steps /\ Latest \in 0 .. Total
    BY <2>1, LatestFacts, SafeFacts
  <2>3. /\ at.epoch \in 0 .. NumEpochs /\ at.skip \in 0 .. BatchesPerEpoch - 1
        /\ at.step = at.epoch * BatchesPerEpoch + at.skip
        /\ at.step \in Nat /\ at.step <= Latest
        /\ at.epoch = Latest \div BatchesPerEpoch
        /\ at.skip \div GradAccum = (Latest % BatchesPerEpoch) \div GradAccum
        /\ at.skip % GradAccum = 0
    BY <2>2, ResumeFacts
  <2> HIDE DEF at
  <2>4. SeedMatches' /\ globalStep' \in 0 .. Total /\ epoch' \in 0 .. NumEpochs
        /\ index' \in 0 .. BatchesPerEpoch - 1
    <3>1. globalStep' \in 0 .. Total
      BY <1>2, <2>1, <2>2, <2>3
    <3>2. QED
      BY <2>1, <2>3, <3>1 DEF SeedMatches
  <2>5. Cycles(epoch', index') = Cycles(Latest \div BatchesPerEpoch, Latest % BatchesPerEpoch)
    BY <2>1, <2>3 DEF Cycles
  <2>6. Ranks # {}
    BY DEF TrainingAssumption
  <2>7. Exact(weights', Cycles(epoch', index'))
    BY <1>4, <2>1, <2>2, <2>5, <2>6
  <2>8. accum = <<>>
    <3>1. globalStep = 0
      BY <1>1, <2>1 DEF LoopInv
    <3>2. epoch * BatchesPerEpoch \in Nat
      BY <1>3, Position
    <3>3. epoch * BatchesPerEpoch = 0 /\ index = 0
      BY <1>3, <3>1, <3>2
    <3>4. epoch = 0
      BY <1>2, <1>3, <3>3
    <3>5. QED
      BY <1>1, <1>12, <3>3, <3>4 DEF LoopInv
  <2>9. accum' = Open(epoch', index')
    <3>1. index' % GradAccum = 0
      BY <2>1, <2>3
    <3>2. Open(epoch', index') = <<>>
      BY <3>1 DEF Open
    <3>3. QED
      BY <2>1, <2>8, <3>2
  <2>10. QED
    BY <1>4, <2>1, <2>4, <2>7, <2>9 DEF LoopInv
<1>15. CASE Restart
  <2>1. /\ UNCHANGED loopVars /\ phase' = "train" /\ \A s \in Steps : written'[s] = {}
    BY <1>15 DEF Restart
  <2>2. QED
    BY <2>1, LoopFrame DEF loopVars
<1>16. QED
  BY <1>5, <1>6, <1>7, <1>8, <1>9, <1>10, <1>11, <1>13, <1>14, <1>15 DEF Next

LEMMA TornStep ==
    ASSUME TrainingAssumption, Safe, [Next]_vars
    PROVE  TornInv'
<1>1. FileTypes /\ PhaseInv /\ LoopInv /\ TornInv
  BY DEF Safe
<1>2. /\ globalStep \in Nat /\ globalStep \in Steps /\ globalStep <= Total /\ Total \in Nat
      /\ SaveSteps \in Nat \ {0}
  BY SafeFacts, Parameters
<1>3. /\ torn \subseteq files /\ files \subseteq 1 .. Total
      /\ \A t \in torn : t \in Nat /\ t <= Total
  BY <1>1, <1>2 DEF FileTypes
<1>4. \A m \in marked : m \in Steps /\ ResumePosition(m).step \in Nat
  BY LatestFacts, ResumeFacts
<1>5. /\ phase # "down" => \A m \in marked : ResumePosition(m).step <= globalStep
      /\ phase \in Saving => \A m \in marked : ResumePosition(m).step < globalStep
      /\ phase \in Ended => torn = {}
      /\ \A t \in torn :
            /\ t = Total \/ t % SaveSteps = 0
            /\ \/ t = Total
               \/ phase = "down" /\ \A m \in marked : t > ResumePosition(m).step
               \/ phase # "down" /\ t > globalStep
               \/ phase \in Saving /\ t = globalStep
  BY <1>1 DEF TornInv
(* A step with no new marker or torn file, that keeps the step and stays   *)
(* out of the saves.                                                       *)
<1>6. ASSUME globalStep' = globalStep, torn' \subseteq torn, marked' \subseteq marked,
             \/ phase' = phase
             \/ phase' \notin Saving \cup {"down"} /\ phase \notin Saving \cup {"down"},
             phase' \in Ended => phase \in Ended
      PROVE  TornInv'
  <2>1. phase' \in Ended => torn' = {}
    BY <1>5, <1>6
  <2>2. /\ phase' # "down" => \A m \in marked' : ResumePosition(m).step <= globalStep'
        /\ phase' \in Saving => \A m \in marked' : ResumePosition(m).step < globalStep'
    BY <1>5, <1>6
  <2>3. ASSUME NEW t \in torn'
        PROVE  /\ t = Total \/ t % SaveSteps = 0
               /\ \/ t = Total
                  \/ phase' = "down" /\ \A m \in marked' : t > ResumePosition(m).step
                  \/ phase' # "down" /\ t > globalStep'
                  \/ phase' \in Saving /\ t = globalStep'
    BY <1>5, <1>6
  <2>4. QED
    BY <2>1, <2>2, <2>3 DEF TornInv
<1>7. CASE Step
  <2>1. /\ phase = "train" /\ globalStep' = globalStep + 1 /\ torn' = torn /\ marked' = marked
        /\ phase' = IF globalStep' % SaveSteps = 0 THEN "save" ELSE "train"
    BY <1>7 DEF Step, fileVars, dirVars
  <2>2. \A m \in marked' : ResumePosition(m).step < globalStep'
    BY <1>2, <1>4, <1>5, <2>1
  <2>3. ASSUME NEW t \in torn'
        PROVE  /\ t = Total \/ t % SaveSteps = 0
               /\ t = Total \/ t > globalStep' \/ (phase' = "save" /\ t = globalStep')
    <3>1. t \in Nat /\ (t = Total \/ t % SaveSteps = 0) /\ (t = Total \/ t > globalStep)
      BY <1>3, <1>5, <2>1 DEF Saving
    <3>2. t > globalStep => t > globalStep' \/ t = globalStep'
      BY <1>2, <2>1, <3>1
    <3>3. t = globalStep' => t = Total \/ phase' = "save"
      BY <2>1, <3>1
    <3>4. QED
      BY <3>1, <3>2, <3>3
  <2>4. phase' # "down" /\ phase' \notin Ended
    BY <2>1 DEF Ended
  <2>5. \A m \in marked' : ResumePosition(m).step <= globalStep'
    BY <1>2, <1>4, <2>1, <2>2
  <2>6. QED
    BY <2>2, <2>3, <2>4, <2>5 DEF TornInv, Saving
<1>8. CASE Finish \/ MakeDir \/ \E r \in Ranks : OpenShard(r) \/ CloseShard(r)
  BY <1>6, <1>8 DEF Finish, MakeDir, OpenShard, CloseShard, Saving, Ended, loopVars, fileVars, dirVars
<1>9. CASE OpenWeights
  <2>1. /\ phase \in {"save", "final"} /\ torn' = torn \cup {globalStep} /\ marked' = marked
        /\ phase' = IF phase = "save" THEN "saving" ELSE "finalSaving"
        /\ globalStep' = globalStep
    BY <1>9 DEF OpenWeights, loopVars, dirVars
  <2>2. /\ phase = "save" => globalStep % SaveSteps = 0
        /\ phase = "final" => globalStep = Total
    BY <1>1 DEF PhaseInv, Saving
  <2>3. QED
    BY <1>5, <2>1, <2>2 DEF TornInv, Saving, Ended
<1>10. CASE CloseWeights
  <2>1. /\ phase \in {"saving", "finalSaving"} /\ torn' = torn \ {globalStep} /\ marked' = marked
        /\ phase' = IF phase = "finalSaving" THEN "finalize" ELSE IF FullStates THEN "mkdir" ELSE "prune"
        /\ globalStep' = globalStep
    BY <1>10 DEF CloseWeights, AfterWeights, loopVars, dirVars
  <2>2. phase = "finalSaving" => globalStep = Total
    BY <1>1 DEF PhaseInv
  <2>3. phase' \notin Saving \cup {"down"} /\ (phase' \in Ended <=> phase = "finalSaving")
    BY <2>1 DEF Saving, Ended
  <2>4. \A t \in torn' : t = Total \/ t > globalStep
    BY <1>5, <2>1 DEF Saving
  <2>5. phase' \in Ended => torn' = {}
    BY <1>2, <1>3, <2>1, <2>2, <2>3, <2>4
  <2>6. \A m \in marked' : ResumePosition(m).step <= globalStep'
    BY <1>5, <2>1
  <2>7. \A t \in torn' : t = Total \/ t % SaveSteps = 0
    BY <1>5, <2>1
  <2>8. QED
    BY <2>1, <2>3, <2>4, <2>5, <2>6, <2>7 DEF TornInv
<1>11. CASE Mark
  <2>1. /\ phase = "shards" /\ phase' = "prune" /\ marked' = marked \cup {globalStep}
        /\ torn' = torn /\ globalStep' = globalStep
    BY <1>11 DEF Mark, loopVars, fileVars
  <2>2. ResumePosition(globalStep).step <= globalStep
    BY <1>2, ResumeFacts
  <2>3. QED
    BY <1>5, <2>1, <2>2 DEF TornInv, Saving, Ended
<1>12. CASE RemoveWeights
  BY <1>6, <1>12 DEF RemoveWeights, loopVars, dirVars
<1>13. CASE ChooseDirs \/ CleanupEnds
  BY <1>6, <1>13 DEF ChooseDirs, CleanupEnds, Saving, Ended, loopVars, fileVars, dirVars
<1>14. CASE StartRemove \/ EndRemove
  <2>1. globalStep' = globalStep /\ torn' = torn /\ phase' = phase /\ marked' \subseteq marked
    BY <1>14 DEF StartRemove, EndRemove, loopVars, fileVars, dirVars
  <2>2. QED
    BY <1>6, <2>1
<1>15. CASE Crash
  <2>1. phase # "down" /\ phase' = "down" /\ torn' = torn /\ marked' = marked
    BY <1>15 DEF Crash, fileVars, dirVars
  <2>2. ASSUME NEW t \in torn', t # Total, NEW m \in marked'
        PROVE  t > ResumePosition(m).step
    <3>1. t \in Nat /\ ResumePosition(m).step \in Nat
      BY <1>3, <1>4, <2>1
    <3>2. ResumePosition(m).step <= globalStep
      BY <1>5, <2>1
    <3>3. CASE t > globalStep
      BY <1>2, <3>1, <3>2, <3>3
    <3>4. CASE phase \in Saving /\ t = globalStep
      BY <1>2, <1>5, <2>1, <3>1, <3>4
    <3>5. QED
      BY <1>5, <2>1, <2>2, <3>3, <3>4
  <2>3. \A t \in torn' : t = Total \/ t % SaveSteps = 0
    BY <1>5, <2>1
  <2>4. QED
    BY <2>1, <2>2, <2>3 DEF TornInv, Saving, Ended
<1>16. CASE Resume
  <2>1. /\ phase = "down" /\ phase' = "train" /\ torn' = torn /\ marked' = marked
        /\ Latest # NoStep /\ globalStep' = ResumePosition(Latest).step
    BY <1>16 DEF Resume, fileVars, dirVars
  <2>2. Latest \in marked /\ Latest \in Steps /\ \A m \in marked : m <= Latest
    BY <2>1, LatestFacts
  <2>3. \A m \in marked : ResumePosition(m).step <= globalStep'
    BY <1>4, <2>1, <2>2, ResumeMonotone
  <2>4. \A t \in torn : (t = Total \/ t % SaveSteps = 0) /\ (t = Total \/ t > globalStep')
    BY <1>5, <2>1, <2>2 DEF Saving
  <2>5. QED
    BY <2>1, <2>3, <2>4 DEF TornInv, Saving, Ended
<1>17. CASE Restart
  BY <1>17 DEF Restart, TornInv, Saving, Ended
<1>18. CASE UNCHANGED vars
  BY <1>6, <1>18 DEF vars, loopVars, fileVars, dirVars
<1>19. QED
  BY <1>7, <1>8, <1>9, <1>10, <1>11, <1>12, <1>13, <1>14, <1>15, <1>16, <1>17, <1>18 DEF Next

LEMMA SafeStep == TrainingAssumption /\ Safe /\ [Next]_vars => Safe'
  BY TypesStep, PhaseStep, LoopStep, TornStep DEF Safe

(* Whatever crashes and resumes happen, the types, the position, the       *)
(* weights and the artifacts are as `Safe` says.                           *)
THEOREM Safety == TrainingAssumption => (Spec => []Safe)
<1> SUFFICES ASSUME TrainingAssumption PROVE Spec => []Safe
  OBVIOUS
<1>1. Init => Safe
  BY SafeInit
<1>2. Safe /\ [Next]_vars => Safe'
  BY SafeStep
<1>3. QED
  BY <1>1, <1>2, PTL DEF Spec

(* Steps, positions, files and shards keep their types. *)
THEOREM TypeCorrect == TrainingAssumption => (Spec => []TypeOK)
<1> SUFFICES ASSUME TrainingAssumption PROVE Spec => []TypeOK
  OBVIOUS
<1>1. Safe => TypeOK
  <2> SUFFICES ASSUME Safe PROVE TypeOK
    OBVIOUS
  <2>1. FileTypes /\ LoopInv
    BY DEF Safe
  <2>2. weights \in Seq(Seq(Nat))
    BY <2>1 DEF LoopInv, Exact
  <2>3. accum \in Seq(Nat) /\ Len(accum) < GradAccum
    <3>1. epoch \in Nat /\ index \in 0 .. BatchesPerEpoch - 1 /\ accum = Open(epoch, index)
      BY <2>1, SafeFacts DEF LoopInv
    <3>2. QED
      BY <3>1, NextCycle
  <2>4. /\ epoch \in 0 .. NumEpochs /\ index \in 0 .. BatchesPerEpoch - 1
        /\ globalStep \in Steps /\ optStep \in Nat
    BY <2>1, SafeFacts DEF LoopInv, FileTypes
  <2>5. /\ torn \subseteq files /\ files \subseteq Steps /\ marked \subseteq dirs
        /\ dirs \cup todo \subseteq Steps /\ removing \in Steps \cup {NoStep}
    BY <2>1, SafeFacts DEF FileTypes
  <2>6. \A s \in Steps : content[s] \in Seq(Seq(Nat))
    BY <2>1 DEF FileTypes
  <2>7. QED
    BY <2>1, <2>2, <2>3, <2>4, <2>5, <2>6
       DEF TypeOK, FileTypes, Phases, Ended, Saving, Stating, Pruning
<1>2. QED
  BY <1>1, Safety, PTL

(* global_step names the batch the dataloader returns next, so that the    *)
(* per-step seed is that of the uninterrupted run.                         *)
THEOREM SeedsMatch == TrainingAssumption => (Spec => []SeedMatches)
<1> SUFFICES ASSUME TrainingAssumption PROVE Spec => []SeedMatches
  OBVIOUS
<1>1. Safe => SeedMatches
  BY DEF Safe, LoopInv
<1>2. QED
  BY <1>1, Safety, PTL

(* "The first optimizer step after resume sees a full accumulation cycle": *)
(* the weights are those of a run that was never interrupted, wherever     *)
(* saves fall within a cycle and wherever crashes hit.                     *)
THEOREM TrainingIsExact == TrainingAssumption => (Spec => []ExactTraining)
<1> SUFFICES ASSUME TrainingAssumption PROVE Spec => []ExactTraining
  OBVIOUS
<1>1. Safe => ExactTraining
  BY DEF Safe, LoopInv, Exact, ExactTraining
<1>2. QED
  BY <1>1, Safety, PTL

LEMMA SafeArtifacts == TrainingAssumption /\ Safe => CleanArtifacts
<1> SUFFICES ASSUME TrainingAssumption, Safe, phase = "done"
             PROVE  torn = {} /\ globalStep \in files /\ globalStep = Max(files)
  BY DEF CleanArtifacts
<1>1. torn = {} /\ globalStep \in files /\ globalStep = Total
  BY DEF Safe, TornInv, PhaseInv, Ended
<1>2. files \in SUBSET (0 .. Total) /\ Total \in Nat
  BY SafeFacts, Parameters
<1>3. \A f \in files : f <= globalStep
  BY <1>1, <1>2
<1>4. QED
  BY <1>1, <1>2, <1>3, MaxUnique

(* finish_training leaves complete weights, the final ones latest, though  *)
(* crashes may have left half-written files on the way.                    *)
THEOREM ArtifactsAreClean == TrainingAssumption => (Spec => []CleanArtifacts)
<1> SUFFICES ASSUME TrainingAssumption PROVE Spec => []CleanArtifacts
  OBVIOUS
<1>1. Safe => CleanArtifacts
  BY SafeArtifacts
<1>2. QED
  BY <1>1, Safety, PTL
-----------------------------------------------------------------------------
(* Durable saves. *)
LEMMA Multiples ==
    ASSUME NEW n \in Nat \ {0}, NEW a \in Nat, NEW b \in Nat, a % n = 0, b % n = 0, a < b
    PROVE  b >= a + n
<1> DEFINE q == a \div n
           p == b \div n
<1>1. q \in Nat /\ p \in Nat /\ a = q * n /\ b = p * n
  <2>1. a = (a \div n) * n + (a % n) /\ b = (b \div n) * n + (b % n)
        /\ a \div n \in Nat /\ b \div n \in Nat
    BY DivMod
  <2>2. (a \div n) * n \in Nat /\ (b \div n) * n \in Nat
    BY <2>1
  <2>3. a = (a \div n) * n /\ b = (b \div n) * n
    BY <2>1, <2>2
  <2>4. QED
    BY <2>1, <2>3
<1> HIDE DEF q, p
<1>2. ~(p <= q)
  BY <1>1, ProductMonotone
<1>3. (q + 1) * n <= p * n
  BY <1>1, <1>2, ProductMonotone
<1>4. (q + 1) * n = q * n + n
  BY <1>1
<1>5. QED
  BY <1>1, <1>3, <1>4

LEMMA SaveFacts ==
    ASSUME TrainingAssumption, Safe, Durably, SaveInv, ~Finishing
    PROVE  /\ Base \in Nat /\ Base % SaveSteps = 0
           /\ marked # {} => /\ Base \in marked /\ Base \in dirs /\ Base \in Steps /\ Latest = Base
                             /\ written[Base] = Ranks
           /\ marked = {} => Base = 0 /\ Latest = NoStep
           /\ \A m \in marked : m <= Base /\ m \in Nat
           /\ \A d \in dirs : /\ d \in Nat /\ d \in Steps /\ d % SaveSteps = 0
                              /\ d <= Base + SaveSteps
           /\ \A m \in dirs : ResumePosition(m).step = m
<1>1. \A d \in dirs : d \in Nat /\ d \in Steps
  <2>1. dirs \subseteq 0 .. Total /\ dirs \subseteq Steps /\ Total \in Nat
    BY SafeFacts, Parameters
  <2>2. QED
    BY <2>1
<1>2. \A d \in dirs : d % SaveSteps = 0 /\ d <= Base + SaveSteps
  BY DEF SaveInv
<1>3. marked \subseteq dirs
  BY DEF Safe, FileTypes
<1>4. marked = {} => Base = 0 /\ Latest = NoStep
  BY DEF Base, Latest
<1>5. Base \in Nat /\ \A m \in marked : m <= Base /\ m \in Nat
  BY <1>4, LatestFacts
<1>6. marked # {} => Base \in marked /\ Latest = Base /\ written[Base] = Ranks
  BY LatestFacts DEF SaveInv
<1>7. Base % SaveSteps = 0
  <2>1. marked # {} => Base % SaveSteps = 0
    BY <1>2, <1>3, <1>6
  <2>2. 0 % SaveSteps = 0
    BY Parameters
  <2>3. QED
    BY <1>4, <2>1, <2>2
<1>8. \A m \in dirs : ResumePosition(m).step = m
  BY <1>1, <1>2 DEF Durably, AlignedSaves
<1>9. QED
  BY <1>1, <1>2, <1>3, <1>4, <1>5, <1>6, <1>7, <1>8

LEMMA BaseKept ==
    ASSUME TrainingAssumption, Safe, marked # {}, marked' \subseteq marked, Base \in marked'
    PROVE  Base' = Base /\ marked' # {}
<1>1. marked' \in SUBSET (0 .. Total) /\ Total \in Nat
  BY SafeFacts, Parameters
<1>2. \A m \in marked' : m <= Base
  BY LatestFacts
<1>3. Max(marked') = Base
  BY <1>1, <1>2, MaxUnique
<1>4. QED
  BY <1>3 DEF Base

(* Nothing is resumed from what the cleanup after training has begun to    *)
(* take away.                                                              *)
LEMMA FinishingStays ==
    ASSUME Safe, Durably, Finishing, [Next]_vars
    PROVE  Finishing'
<1>1. CASE UNCHANGED vars
  BY <1>1 DEF vars, Finishing
<1>2. CASE RemoveWeights \/ StartRemove \/ EndRemove \/ CleanupEnds
  BY <1>2 DEF RemoveWeights, StartRemove, EndRemove, CleanupEnds, Finishing
<1>3. QED
  BY <1>1, <1>2 DEF Next, Finishing, Durably, Step, Finish, OpenWeights, CloseWeights, MakeDir, Mark,
     OpenShard, CloseShard, ChooseDirs, Crash, Resume, Restart

LEMMA SaveStep ==
    ASSUME TrainingAssumption, Safe, Durably, SaveInv, [Next]_vars
    PROVE  SaveInv'
<1> SUFFICES ASSUME ~Finishing, ~Finishing' PROVE SaveInv'
  BY FinishingStays DEF SaveInv
<1>1. FileTypes /\ PhaseInv /\ LoopInv /\ SaveInv
  BY DEF Safe
<1>2. /\ globalStep \in Nat /\ globalStep \in Steps /\ globalStep <= Total
      /\ SaveSteps \in Nat \ {0} /\ Ranks # {} /\ FullStates
  BY SafeFacts, Parameters DEF TrainingAssumption, Durably
<1>3. /\ Base \in Nat /\ Base % SaveSteps = 0
      /\ marked # {} => /\ Base \in marked /\ Base \in dirs /\ Base \in Steps /\ Latest = Base
                        /\ written[Base] = Ranks
      /\ marked = {} => Base = 0 /\ Latest = NoStep
      /\ \A m \in marked : m <= Base /\ m \in Nat
      /\ \A d \in dirs : d \in Nat /\ d \in Steps /\ d % SaveSteps = 0 /\ d <= Base + SaveSteps
      /\ \A m \in dirs : ResumePosition(m).step = m
  BY SaveFacts
<1>4. /\ marked # {} => written[Base] = Ranks
      /\ \A d \in dirs : d % SaveSteps = 0 /\ d <= Base + SaveSteps
      /\ phase # "down" => globalStep >= Base /\ globalStep <= Base + SaveSteps
      /\ phase = "train" => globalStep < Base + SaveSteps
      /\ phase \in Saving \cup Stating => globalStep > Base
      /\ phase = "shards" => \A r \in Ranks : writing[r] = "idle" =>
                                r \in written[globalStep] /\ content[globalStep] = weights
      /\ phase \in Pruning =>
            /\ marked # {} /\ globalStep = Base
            /\ \A d \in dirs : d <= Base
            /\ Base \notin todo /\ removing # Base
  BY <1>1 DEF SaveInv
<1> USE DEF Saving, Stating, Pruning
<1>5. marked' = marked => Base' = Base
  BY DEF Base
<1>6. CASE Step
  <2>1. /\ phase = "train" /\ globalStep' = globalStep + 1
        /\ phase' = IF globalStep' % SaveSteps = 0 THEN "save" ELSE "train"
        /\ UNCHANGED <<marked, dirs, written, content>>
    BY <1>6 DEF Step, dirVars
  <2>2. (Base + SaveSteps) % SaveSteps = 0
    BY <1>2, <1>3, NextMultiple
  <2>3. globalStep' > Base /\ globalStep' <= Base + SaveSteps
    BY <1>2, <1>3, <1>4, <2>1
  <2>4. phase' = "train" => globalStep' # Base + SaveSteps
    BY <2>1, <2>2
  <2>5. phase' = "train" => globalStep' < Base + SaveSteps
    BY <1>2, <1>3, <2>1, <2>3, <2>4
  <2>6. globalStep' >= Base
    BY <1>2, <1>3, <2>1, <2>3
  <2>7. QED
    BY <1>4, <1>5, <2>1, <2>3, <2>5, <2>6 DEF SaveInv
<1>7. CASE Finish \/ OpenWeights \/ RemoveWeights
  BY <1>4, <1>5, <1>7 DEF Finish, OpenWeights, RemoveWeights, SaveInv, loopVars, doing, dirVars
<1>8. CASE CloseWeights
  BY <1>2, <1>4, <1>5, <1>8 DEF CloseWeights, AfterWeights, SaveInv, loopVars, doing, dirVars
<1>9. CASE MakeDir
  <2>1. /\ phase = "mkdir" /\ phase' = "shards" /\ dirs' = dirs \cup {globalStep}
        /\ writing' = [r \in Ranks |-> "todo"]
        /\ UNCHANGED <<globalStep, weights, marked, written, content>>
    BY <1>9 DEF MakeDir, loopVars
  <2>2. globalStep % SaveSteps = 0
    BY <1>1, <2>1 DEF PhaseInv
  <2>3. QED
    BY <1>4, <1>5, <2>1, <2>2 DEF SaveInv
<1>10. ASSUME NEW r \in Ranks, OpenShard(r)
       PROVE  SaveInv'
  <2>1. /\ phase = "shards" /\ phase' = phase /\ writing' = [writing EXCEPT ![r] = "open"]
        /\ written' = [written EXCEPT ![globalStep] = @ \ {r}]
        /\ UNCHANGED <<globalStep, weights, marked, dirs, content>>
    BY <1>10 DEF OpenShard, loopVars
  <2>2. marked # {} => written'[Base] = Ranks
    BY <1>1, <1>2, <1>3, <1>4, <2>1 DEF FileTypes
  <2>3. ASSUME NEW w \in Ranks, writing'[w] = "idle"
        PROVE  w \in written'[globalStep] /\ content'[globalStep] = weights
    <3>1. w # r /\ writing[w] = "idle"
      BY <1>1, <2>1, <2>3 DEF FileTypes
    <3>2. QED
      BY <1>1, <1>2, <1>4, <2>1, <3>1 DEF FileTypes
  <2>4. QED
    BY <1>4, <1>5, <2>1, <2>2, <2>3 DEF SaveInv
<1>11. ASSUME NEW r \in Ranks, CloseShard(r)
       PROVE  SaveInv'
  <2>1. /\ phase = "shards" /\ phase' = phase /\ writing' = [writing EXCEPT ![r] = "idle"]
        /\ written' = [written EXCEPT ![globalStep] = @ \cup {r}]
        /\ content' = [content EXCEPT ![globalStep] = weights]
        /\ UNCHANGED <<globalStep, weights, marked, dirs>>
    BY <1>11 DEF CloseShard, loopVars
  <2>2. marked # {} => written'[Base] = Ranks
    BY <1>1, <1>2, <1>3, <1>4, <2>1 DEF FileTypes
  <2>3. ASSUME NEW w \in Ranks, writing'[w] = "idle"
        PROVE  w \in written'[globalStep] /\ content'[globalStep] = weights
    <3>1. w = r \/ writing[w] = "idle"
      BY <1>1, <2>1, <2>3 DEF FileTypes
    <3>2. content'[globalStep] = weights
      BY <1>1, <1>2, <2>1 DEF FileTypes
    <3>3. w \in written'[globalStep]
      BY <1>1, <1>2, <1>4, <2>1, <3>1 DEF FileTypes
    <3>4. QED
      BY <3>2, <3>3
  <2>4. QED
    BY <1>4, <1>5, <2>1, <2>2, <2>3 DEF SaveInv
<1>12. CASE Mark
  <2>1. /\ phase = "shards" /\ \A r \in Ranks : writing[r] = "idle"
        /\ marked' = marked \cup {globalStep} /\ phase' = "prune"
        /\ UNCHANGED <<globalStep, weights, todo, removing, dirs, written, content>>
    BY <1>12 DEF Mark, loopVars, doing
  <2>2. Base' = globalStep /\ marked' # {}
    <3>1. marked' \in SUBSET (0 .. Total) /\ Total \in Nat /\ globalStep \in marked'
      BY <1>2, <2>1, SafeFacts, Parameters
    <3>2. \A m \in marked' : m <= globalStep
      <4>1. \A m \in marked : m <= Base /\ m \in Nat
        BY <1>3
      <4>2. Base < globalStep
        BY <1>2, <1>3, <1>4, <2>1
      <4>3. QED
        BY <1>2, <1>3, <2>1, <4>1, <4>2
    <3>3. Max(marked') = globalStep
      BY <3>1, <3>2, MaxUnique
    <3>4. QED
      BY <3>1, <3>3 DEF Base
  <2>3. written[globalStep] = Ranks
    BY <1>1, <1>2, <1>4, <2>1 DEF FileTypes
  <2>4. globalStep % SaveSteps = 0
    BY <1>1, <2>1 DEF PhaseInv
  <2>5. globalStep = Base + SaveSteps
    <3>1. globalStep > Base /\ globalStep <= Base + SaveSteps
      BY <1>4, <2>1
    <3>2. globalStep >= Base + SaveSteps
      BY <1>2, <1>3, <2>4, <3>1, Multiples
    <3>3. QED
      BY <1>2, <1>3, <3>1, <3>2
  <2>6. \A d \in dirs : d % SaveSteps = 0 /\ d <= globalStep /\ d <= globalStep + SaveSteps
    BY <1>2, <1>3, <1>4, <2>5
  <2>7. todo = {} /\ removing = NoStep /\ NoStep # globalStep
    BY <1>1, <1>2, <2>1 DEF PhaseInv, NoStep
  <2>8. globalStep >= globalStep /\ globalStep <= globalStep + SaveSteps
    BY <1>2
  <2>9. QED
    BY <2>1, <2>2, <2>3, <2>6, <2>7, <2>8 DEF SaveInv
<1>13. CASE ChooseDirs
  <2>1. /\ phase = "prune" /\ todo' = Oldest(dirs) /\ phase' = "pruneDirs"
        /\ UNCHANGED <<globalStep, removing, dirs, marked, written>>
    BY <1>13 DEF ChooseDirs, PrunedDirs, Finishing, loopVars, dirVars
  <2>2. Base \notin Oldest(dirs)
    <3> SUFFICES ASSUME Base \in Oldest(dirs) PROVE FALSE
      OBVIOUS
    <3>1. dirs \in SUBSET (0 .. Total) /\ Total \in Nat
      BY SafeFacts, Parameters
    <3>2. PICK t \in dirs : t > Base
      BY <3>1, OldestFacts
    <3>3. t <= Base /\ t \in Nat
      BY <1>3, <1>4, <2>1
    <3>4. QED
      BY <1>3, <3>2, <3>3
  <2>3. QED
    BY <1>4, <1>5, <2>1, <2>2 DEF SaveInv
<1>14. CASE StartRemove
  <2>1. PICK d \in todo : /\ removing' = d /\ todo' = todo \ {d}
                          /\ \E kept \in SUBSET written[d] : written' = [written EXCEPT ![d] = kept]
                          /\ marked' \in {marked, marked \ {d}}
    BY <1>14 DEF StartRemove
  <2>2. /\ phase = "pruneDirs" /\ phase' = phase
        /\ UNCHANGED <<globalStep, dirs, content>>
    BY <1>14 DEF StartRemove, Finishing, loopVars
  <2>3. d # Base /\ marked # {} /\ Base \in marked'
    BY <1>3, <1>4, <2>1, <2>2
  <2>4. Base' = Base /\ marked' # {}
    BY <2>1, <2>3, BaseKept
  <2>5. written'[Base] = Ranks
    BY <1>1, <1>3, <2>1, <2>3 DEF FileTypes
  <2>6. QED
    BY <1>4, <2>1, <2>2, <2>3, <2>4, <2>5 DEF SaveInv
<1>15. CASE EndRemove
  <2>1. /\ removing' = NoStep /\ UNCHANGED <<phase, globalStep, todo>> /\ removing # NoStep
        /\ \/ /\ dirs' = dirs \ {removing} /\ marked' = marked \ {removing}
              /\ written' = [written EXCEPT ![removing] = {}]
           \/ UNCHANGED <<dirs, marked, written>>
    BY <1>15 DEF EndRemove, dirVars, loopVars
  <2>2. phase = "pruneDirs"
    BY <1>1, <2>1 DEF PhaseInv, Finishing
  <2>3. removing # Base /\ marked # {} /\ Base \in marked' /\ marked' \subseteq marked
    BY <1>3, <1>4, <2>1, <2>2
  <2>4. Base' = Base /\ marked' # {}
    BY <2>3, BaseKept
  <2>5. written'[Base] = Ranks
    BY <1>1, <1>3, <2>1, <2>3 DEF FileTypes
  <2>6. Base # NoStep
    BY <1>3 DEF NoStep
  <2>7. \A d \in dirs' : d \in dirs
    BY <2>1
  <2>8. QED
    BY <1>4, <2>1, <2>2, <2>3, <2>4, <2>5, <2>6, <2>7 DEF SaveInv
<1>16. CASE CleanupEnds
  <2>1. /\ phase = "pruneDirs" /\ phase' = "train"
        /\ UNCHANGED <<globalStep, dirs, marked, written>>
    BY <1>16 DEF CleanupEnds, Finishing, loopVars, dirVars
  <2>2. globalStep < Base + SaveSteps
    BY <1>2, <1>3, <1>4, <2>1
  <2>3. QED
    BY <1>4, <1>5, <2>1, <2>2 DEF SaveInv
<1>17. CASE Crash
  BY <1>4, <1>5, <1>17 DEF Crash, SaveInv, dirVars
<1>18. CASE Resume
  <2>1. /\ phase' = "train" /\ Latest # NoStep /\ globalStep' = ResumePosition(Latest).step
        /\ UNCHANGED <<dirs, marked, written>>
    BY <1>18 DEF Resume, dirVars
  <2>2. globalStep' = Base
    BY <1>3, <2>1
  <2>3. Base >= Base /\ Base <= Base + SaveSteps /\ Base < Base + SaveSteps
    BY <1>2, <1>3
  <2>4. QED
    BY <1>4, <1>5, <2>1, <2>2, <2>3 DEF SaveInv
<1>19. CASE Restart
  <2>1. /\ phase' = "train" /\ dirs' = {} /\ marked' = {} /\ globalStep' = 0
    BY <1>1, <1>19 DEF Restart, LoopInv, loopVars
  <2>2. Base' = 0
    BY <2>1 DEF Base
  <2>3. 0 >= 0 /\ 0 <= 0 + SaveSteps /\ 0 < 0 + SaveSteps
    BY <1>2
  <2>4. QED
    BY <2>1, <2>2, <2>3 DEF SaveInv
<1>20. CASE UNCHANGED vars
  BY <1>4, <1>5, <1>20 DEF vars, SaveInv, loopVars, doing, dirVars
<1>21. QED
  BY <1>6, <1>7, <1>8, <1>9, <1>10, <1>11, <1>12, <1>13, <1>14, <1>15, <1>16, <1>17, <1>18, <1>19,
     <1>20 DEF Next

LEMMA LineStep ==
    ASSUME TrainingAssumption, Safe, Durably, SaveInv, LineInv, [Next]_vars
    PROVE  LineInv'
<1> SUFFICES ASSUME ~Finishing, ~Finishing' PROVE LineInv'
  BY FinishingStays DEF LineInv
<1>1. FileTypes /\ PhaseInv /\ LoopInv /\ SaveInv
  BY DEF Safe
<1>2. /\ globalStep \in Nat /\ globalStep <= Total /\ Total \in Nat \ {0}
      /\ SaveSteps \in Nat \ {0} /\ FullStates
  BY SafeFacts, Parameters DEF Durably
<1>3. /\ Base \in Nat /\ Base % SaveSteps = 0
      /\ marked # {} => Base \in marked /\ Base \in dirs
      /\ marked = {} => Base = 0 /\ Latest = NoStep
      /\ \A d \in dirs : d \in Nat /\ d % SaveSteps = 0 /\ d <= Base + SaveSteps
  BY SaveFacts
<1>4. /\ phase # "down" => globalStep >= Base /\ globalStep <= Base + SaveSteps
      /\ phase \in Saving \cup Stating => globalStep > Base
      /\ phase \in Pruning => marked # {}
  BY <1>1 DEF SaveInv
<1>5. /\ files \subseteq 1 .. Total /\ \A f \in files : f \in Nat /\ f <= Total
      /\ dirs \subseteq 1 .. Total /\ \A d \in dirs : d <= Total
  BY <1>1, <1>2 DEF FileTypes
<1>6. /\ \A f \in files : f \in dirs \/ f > Base
      /\ \A f \in files : f <= Base + SaveSteps /\ (f = Total \/ f % SaveSteps = 0)
      /\ \A d \in dirs \ files, f \in files : d < f
      /\ phase \in Stating => globalStep \in files
      /\ phase \in Pruning => files \subseteq dirs
      /\ phase = "pruneDirs" => /\ Oldest(files) = {}
                                /\ (todo \cup {removing}) \cap files = {}
  BY DEF LineInv
<1> USE DEF Saving, Stating, Pruning
<1>7. marked' = marked => Base' = Base
  BY DEF Base
<1>8. CASE Step \/ Finish \/ Crash \/ Resume \/ UNCHANGED vars
  <2>1. /\ UNCHANGED <<files, dirs, marked>>
        /\ \/ phase' \notin Stating \cup Pruning
           \/ UNCHANGED <<phase, globalStep, todo, removing>>
    BY <1>8 DEF Step, Finish, Crash, Resume, vars, loopVars, doing, fileVars, dirVars
  <2>2. QED
    BY <1>6, <1>7, <2>1 DEF LineInv
<1>9. CASE OpenWeights
  <2>1. /\ phase \in {"save", "final"} /\ files' = files \cup {globalStep}
        /\ phase' \in {"saving", "finalSaving"}
        /\ UNCHANGED <<dirs, marked>>
    BY <1>9 DEF OpenWeights, dirVars
  <2>2. globalStep = Total \/ globalStep % SaveSteps = 0
    BY <1>1, <2>1 DEF PhaseInv
  <2>3. globalStep \in dirs \/ globalStep > Base
    <3>1. globalStep > 0
      BY <1>1, <1>2, <2>1 DEF PhaseInv
    <3>2. globalStep = Base => globalStep \in dirs
      BY <1>2, <1>3, <3>1
    <3>3. globalStep >= Base
      BY <1>4, <2>1
    <3>4. QED
      BY <1>2, <1>3, <3>2, <3>3
  <2>4. ASSUME NEW d \in dirs \ files'
        PROVE  d < globalStep
    <3>1. d # globalStep /\ d \in Nat /\ d <= Base + SaveSteps /\ d % SaveSteps = 0 /\ d <= Total
      BY <1>3, <1>5, <2>1, <2>4
    <3>2. CASE phase = "final"
      <4>1. globalStep = Total
        BY <1>1, <3>2 DEF PhaseInv
      <4>2. QED
        BY <1>2, <3>1, <4>1
    <3>3. CASE phase = "save"
      <4>1. globalStep % SaveSteps = 0 /\ globalStep > Base
        BY <1>1, <1>4, <3>3 DEF PhaseInv
      <4>2. globalStep >= Base + SaveSteps
        BY <1>2, <1>3, <4>1, Multiples
      <4>3. QED
        BY <1>2, <1>3, <3>1, <4>2
    <3>4. QED
      BY <2>1, <3>2, <3>3
  <2>5. globalStep <= Base + SaveSteps
    BY <1>4, <2>1
  <2>6. \A d \in dirs \ files', f \in files' : d < f
    BY <1>6, <2>1, <2>4
  <2>7. QED
    BY <1>6, <1>7, <2>1, <2>2, <2>3, <2>5, <2>6 DEF LineInv
<1>10. CASE CloseWeights
  <2>1. /\ phase \in {"saving", "finalSaving"} /\ phase' \in {"mkdir", "finalize"}
        /\ UNCHANGED <<globalStep, files, dirs, marked>>
    BY <1>2, <1>10 DEF CloseWeights, AfterWeights, loopVars, dirVars
  <2>2. globalStep \in files
    BY <1>1, <2>1 DEF PhaseInv
  <2>3. QED
    BY <1>6, <1>7, <2>1, <2>2 DEF LineInv
<1>11. CASE MakeDir
  <2>1. /\ phase = "mkdir" /\ phase' = "shards" /\ dirs' = dirs \cup {globalStep}
        /\ UNCHANGED <<globalStep, files, marked>>
    BY <1>11 DEF MakeDir, loopVars, fileVars
  <2>2. globalStep \in files
    BY <1>6, <2>1
  <2>3. dirs' \ files = dirs \ files
    BY <2>1, <2>2
  <2>4. QED
    BY <1>6, <1>7, <2>1, <2>2, <2>3 DEF LineInv
<1>12. ASSUME NEW r \in Ranks, OpenShard(r) \/ CloseShard(r)
       PROVE  LineInv'
  <2>1. phase = "shards" /\ UNCHANGED <<phase, globalStep, files, dirs, marked>>
    BY <1>12 DEF OpenShard, CloseShard, loopVars, fileVars
  <2>2. QED
    BY <1>6, <1>7, <2>1 DEF LineInv
<1>13. CASE Mark
  <2>1. /\ phase = "shards" /\ phase' = "prune" /\ marked' = marked \cup {globalStep}
        /\ UNCHANGED <<globalStep, files, dirs>>
    BY <1>13 DEF Mark, loopVars, fileVars
  <2>2. /\ globalStep % SaveSteps = 0 /\ globalStep \in dirs
        /\ globalStep > Base /\ globalStep <= Base + SaveSteps
    BY <1>1, <1>4, <2>1 DEF PhaseInv
  <2>3. globalStep = Base + SaveSteps
    BY <1>2, <1>3, <2>2, Multiples, SMTT(30)
  <2>4. ASSUME NEW f \in files
        PROVE  f \in dirs
    <3>1. f \in Nat /\ f <= globalStep /\ (f \in dirs \/ f > Base)
      BY <1>5, <1>6, <2>3
    <3>2. CASE f = Total
      <4>1. f = globalStep
        BY <1>2, <3>1, <3>2
      <4>2. QED
        BY <2>2, <4>1
    <3>3. CASE f % SaveSteps = 0 /\ f > Base
      <4>1. f >= Base + SaveSteps
        BY <1>2, <1>3, <3>1, <3>3, Multiples
      <4>2. f = globalStep
        BY <1>2, <2>3, <3>1, <4>1
      <4>3. QED
        BY <2>2, <4>2
    <3>4. QED
      BY <1>6, <3>1, <3>2, <3>3
  <2>5. Base' = globalStep
    <3>1. SaveInv' /\ phase' \in Pruning /\ ~Finishing'
      BY <2>1, SaveStep
    <3>2. globalStep' = Base'
      BY <3>1 DEF SaveInv
    <3>3. QED
      BY <2>1, <3>2
  <2>6. \A f \in files : f <= globalStep + SaveSteps
    BY <1>2, <1>3, <1>5, <1>6, <2>3
  <2>7. QED
    BY <1>6, <2>1, <2>4, <2>5, <2>6 DEF LineInv
<1>14. CASE RemoveWeights
  <2>1. /\ phase = "prune" /\ files' = files \ {Min(files)} /\ Oldest(files) # {}
        /\ UNCHANGED <<phase, dirs, marked>>
    BY <1>14 DEF RemoveWeights, Finishing, dirVars
  <2>2. Min(files) \in files /\ \A f \in files : Min(files) <= f
    <3>1. files \in SUBSET Nat /\ files # {}
      BY <1>5, <2>1 DEF Oldest
    <3>2. QED
      BY <3>1, MinFacts
  <2> DEFINE old == Min(files)
  <2> HIDE DEF old
  <2>3. old \in files /\ (\A f \in files : old <= f) /\ files' = files \ {old}
    BY <2>1, <2>2 DEF old
  <2>4. ASSUME NEW d \in dirs \ files', NEW f \in files'
        PROVE  d < f
    <3>1. d = old \/ d \in dirs \ files
      BY <2>3, <2>4
    <3>2. f \in files /\ f # old /\ f \in Nat /\ old \in Nat /\ old <= f
      BY <1>5, <2>3, <2>4
    <3>3. old < f
      BY <3>2
    <3>4. QED
      BY <1>6, <3>1, <3>2, <3>3
  <2>5. QED
    BY <1>6, <1>7, <2>1, <2>3, <2>4 DEF LineInv
<1>15. CASE ChooseDirs
  <2>1. /\ phase = "prune" /\ todo' = Oldest(dirs) /\ phase' = "pruneDirs" /\ Oldest(files) = {}
        /\ UNCHANGED <<globalStep, removing, files, dirs, marked>>
    BY <1>15 DEF ChooseDirs, PrunedDirs, Finishing, loopVars, fileVars, dirVars
  <2>2. Oldest(dirs) \cap files = {}
    <3>1. dirs \in SUBSET (0 .. Total) /\ Total \in Nat
      BY SafeFacts, Parameters
    <3>2. files \in SUBSET dirs
      BY <1>6, <2>1
    <3>3. QED
      BY <1>6, <2>1, <3>1, <3>2, PrunedTogether
  <2>3. removing = NoStep /\ NoStep \notin files
    BY <1>1, <1>5, <2>1 DEF PhaseInv, NoStep
  <2>4. Oldest(files') = {} /\ (todo' \cup {removing'}) \cap files' = {}
    BY <2>1, <2>2, <2>3
  <2>5. QED
    BY <1>6, <1>7, <2>1, <2>4 DEF LineInv
<1>16. CASE StartRemove
  <2>1. PICK d \in todo : /\ removing' = d /\ todo' = todo \ {d}
                          /\ marked' \in {marked, marked \ {d}}
    BY <1>16 DEF StartRemove
  <2>2. /\ phase = "pruneDirs"
        /\ UNCHANGED <<phase, globalStep, files, dirs>>
    BY <1>16 DEF StartRemove, Finishing, loopVars, fileVars
  <2>3. Base' = Base
    <3>1. d # Base /\ marked # {}
      BY <1>1, <2>1, <2>2 DEF SaveInv
    <3>2. QED
      BY <1>3, <2>1, <3>1, BaseKept
  <2>4. Oldest(files') = {} /\ (todo' \cup {removing'}) \cap files' = {}
    BY <1>6, <2>1, <2>2
  <2>5. QED
    BY <1>6, <2>2, <2>3, <2>4 DEF LineInv
<1>17. CASE EndRemove
  <2>1. /\ removing' = NoStep /\ UNCHANGED <<phase, globalStep, todo, files>> /\ removing # NoStep
        /\ \/ dirs' = dirs \ {removing} /\ marked' = marked \ {removing}
           \/ UNCHANGED <<dirs, marked>>
    BY <1>17 DEF EndRemove, dirVars, loopVars, fileVars
  <2>2. phase = "pruneDirs"
    BY <1>1, <2>1 DEF PhaseInv, Finishing
  <2>3. Base' = Base
    <3>1. removing # Base /\ marked # {}
      BY <1>1, <2>2 DEF SaveInv
    <3>2. QED
      BY <1>3, <2>1, <3>1, BaseKept
  <2>4. removing \notin files /\ NoStep \notin files
    BY <1>2, <1>5, <1>6, <2>2 DEF NoStep
  <2>5. Oldest(files') = {} /\ (todo' \cup {removing'}) \cap files' = {}
    BY <1>6, <2>1, <2>2, <2>4
  <2>6. \A f \in files : (f \in dirs => f \in dirs') /\ \A d \in dirs' : d \in dirs
    BY <2>1, <2>4
  <2>7. QED
    BY <1>6, <2>1, <2>2, <2>3, <2>5, <2>6 DEF LineInv
<1>18. CASE CleanupEnds
  <2>1. /\ phase = "pruneDirs" /\ phase' = "train"
        /\ UNCHANGED <<globalStep, files, dirs, marked>>
    BY <1>18 DEF CleanupEnds, Finishing, loopVars, fileVars, dirVars
  <2>2. QED
    BY <1>6, <1>7, <2>1 DEF LineInv
<1>19. CASE Restart
  BY <1>19 DEF Restart, LineInv
<1>20. QED
  BY <1>8, <1>9, <1>10, <1>11, <1>12, <1>13, <1>14, <1>15, <1>16, <1>17, <1>18, <1>19 DEF Next
-----------------------------------------------------------------------------
LEMMA IInvInit == TrainingAssumption /\ Init => IInv
<1> SUFFICES ASSUME TrainingAssumption, Init PROVE IInv
  OBVIOUS
<1>1. SaveSteps \in Nat \ {0} /\ Base = 0
  BY Parameters DEF Init, Base
<1>2. SaveInv
  BY <1>1 DEF Init, SaveInv, Saving, Stating, Pruning
<1>3. LineInv
  BY DEF Init, LineInv, Stating, Pruning
<1>4. QED
  BY <1>2, <1>3, SafeInit DEF IInv

LEMMA IInvStep == TrainingAssumption /\ IInv /\ [Next]_vars => IInv'
<1> SUFFICES ASSUME TrainingAssumption, IInv, [Next]_vars PROVE IInv'
  OBVIOUS
<1>1. Safe'
  BY SafeStep DEF IInv
<1>2. Durably => SaveInv' /\ LineInv'
  BY SaveStep, LineStep DEF IInv
<1>3. Durably' <=> Durably
  BY DEF Durably
<1>4. QED
  BY <1>1, <1>2, <1>3 DEF IInv

(* All of it at once, for any parameters. *)
THEOREM Invariance == TrainingAssumption => (Spec => []IInv)
<1> SUFFICES ASSUME TrainingAssumption PROVE Spec => []IInv
  OBVIOUS
<1>1. Init => IInv
  BY IInvInit
<1>2. IInv /\ [Next]_vars => IInv'
  BY IInvStep
<1>3. QED
  BY <1>1, <1>2, PTL DEF Spec

LEMMA IInvLatest == TrainingAssumption /\ Durably /\ IInv => LatestComplete
<1> SUFFICES ASSUME TrainingAssumption, Durably, IInv, phase = "down", Latest # NoStep
             PROVE  written[Latest] = Ranks
  BY DEF LatestComplete
<1>1. Safe /\ SaveInv /\ ~Finishing
  BY DEF IInv, Finishing
<1>2. QED
  BY <1>1, SaveFacts

(* "A half-written dir is never picked": with full states and saves at the *)
(* end of cycles, a run that crashes before its final cleanup resumes from *)
(* the shards of every rank.                                               *)
THEOREM LatestIsComplete == TrainingAssumption /\ Durably => (Spec => []LatestComplete)
<1> SUFFICES ASSUME TrainingAssumption, Durably PROVE Spec => []LatestComplete
  OBVIOUS
<1>1. IInv => LatestComplete
  BY IInvLatest
<1>2. QED
  BY <1>1, Invariance, PTL

(* Each step of a run is a step of DurableTraining or changes nothing of   *)
(* it: the mark and the end of training save, a crash loses the rest.      *)
LEMMA DurableStep ==
    ASSUME TrainingAssumption, Durably, IInv, [Next]_vars
    PROVE  [Durable!Next]_Durable!vars
<1>1. Safe /\ SaveInv /\ FileTypes /\ PhaseInv /\ LoopInv /\ IInv'
  BY IInvStep DEF IInv, Safe
<1> DEFINE updates == IF phase = "down" THEN Saved ELSE Len(weights)
           durable == IF Finishing THEN Len(weights) ELSE Saved
<1>2. ASSUME \/ UNCHANGED <<updates, durable>>
             \/ updates' = updates + 1 /\ durable' = durable
             \/ durable' = updates /\ updates' = updates
             \/ updates' = durable /\ durable' = durable
      PROVE  [Durable!Next]_Durable!vars
  BY <1>2 DEF Durable!Next, Durable!vars, Durable!Update, Durable!Save, Durable!Crash
<1> USE DEF Finishing
<1>3. ASSUME phase # "down", phase' # "down", UNCHANGED <<Finishing, weights, content, marked>>
      PROVE  UNCHANGED <<updates, durable>>
  BY <1>3 DEF Saved, Latest
<1>4. /\ globalStep \in Nat /\ globalStep \in Steps /\ weights \in Seq(Seq(Nat)) /\ Ranks # {}
      /\ content \in [Steps -> Seq(Seq(Nat))]
  BY <1>1, SafeFacts DEF LoopInv, Exact, FileTypes, TrainingAssumption
<1>5. ~Finishing => /\ marked # {} => Latest = Base /\ Base \in marked
                    /\ marked = {} => Latest = NoStep
                    /\ phase \in Stating => globalStep > Base
                    /\ phase \in Pruning => marked # {} /\ Base \notin todo /\ removing # Base
                    /\ Base \in Nat
  BY <1>1, SaveFacts DEF SaveInv
<1>6. CASE Step
  <2>1. /\ phase = "train" /\ phase' \in {"train", "save"} /\ content' = content /\ marked' = marked
        /\ weights' = weights \/ \E c : weights' = Append(weights, c)
    BY <1>6 DEF Step, dirVars
  <2>2. CASE weights' = weights
    BY <1>2, <1>3, <2>1, <2>2
  <2>3. ASSUME NEW c, weights' = Append(weights, c)
        PROVE  [Durable!Next]_Durable!vars
    <3>1. Len(weights') = Len(weights) + 1
      BY <1>4, <2>3
    <3>2. Saved' = Saved
      BY <2>1 DEF Saved, Latest
    <3>3. QED
      BY <1>2, <2>1, <3>1, <3>2
  <2>4. QED
    BY <2>1, <2>2, <2>3
<1>7. CASE Finish \/ OpenWeights \/ CloseWeights \/ MakeDir \/ RemoveWeights
  BY <1>2, <1>3, <1>7 DEF Finish, OpenWeights, CloseWeights, AfterWeights, MakeDir, RemoveWeights,
                          loopVars, dirVars
<1>8. CASE CleanupEnds
  BY <1>2, <1>3, <1>8 DEF CleanupEnds, loopVars, dirVars
<1>9. ASSUME NEW r \in Ranks, OpenShard(r)
      PROVE  [Durable!Next]_Durable!vars
  BY <1>2, <1>3, <1>9 DEF OpenShard, loopVars
<1>10. ASSUME NEW r \in Ranks, CloseShard(r)
       PROVE  [Durable!Next]_Durable!vars
  <2>1. /\ phase = "shards" /\ phase' = phase /\ weights' = weights /\ marked' = marked
        /\ content' = [content EXCEPT ![globalStep] = weights]
    BY <1>10 DEF CloseShard, loopVars
  <2>2. Latest' = Latest /\ Latest # globalStep
    BY <1>4, <1>5, <2>1 DEF Latest, Stating, NoStep
  <2>3. content'[Latest] = content[Latest]
    BY <1>4, <2>1, <2>2
  <2>4. Saved' = Saved
    BY <2>2, <2>3 DEF Saved
  <2>5. QED
    BY <1>2, <2>1, <2>4
<1>11. CASE Mark
  <2>1. /\ phase = "shards" /\ phase' = "prune" /\ UNCHANGED <<weights, content, globalStep>>
        /\ marked' = marked \cup {globalStep} /\ \A r \in Ranks : writing[r] = "idle"
    BY <1>11 DEF Mark, loopVars
  <2>2. content[globalStep] = weights
    BY <1>1, <1>4, <2>1 DEF SaveInv
  <2>3. Latest' = globalStep
    <3>1. SaveInv' /\ Safe'
      BY <1>1, SaveStep, SafeStep
    <3>2. globalStep' = Base' /\ marked' # {}
      BY <2>1, <3>1 DEF SaveInv, Pruning
    <3>3. QED
      BY <2>1, <3>2 DEF Latest, Base
  <2>4. Latest' # NoStep
    BY <1>4, <2>3 DEF NoStep
  <2>5. Saved' = Len(weights)
    BY <2>1, <2>2, <2>3, <2>4 DEF Saved
  <2>6. QED
    BY <1>2, <2>1, <2>5
<1>12. CASE ChooseDirs
  <2>1. /\ UNCHANGED <<weights, content, marked>>
        /\ \/ phase = "prune" /\ phase' = "pruneDirs"
           \/ phase = "finalize" /\ phase' = "finalDirs"
    BY <1>12 DEF ChooseDirs, loopVars, dirVars
  <2>2. CASE phase = "prune" /\ phase' = "pruneDirs"
    BY <1>2, <1>3, <2>1, <2>2
  <2>3. CASE phase = "finalize" /\ phase' = "finalDirs"
    BY <1>2, <2>1, <2>3
  <2>4. QED
    BY <2>1, <2>2, <2>3
<1>13. CASE StartRemove
  <2>1. PICK d \in todo : marked' \in {marked, marked \ {d}}
    BY <1>13 DEF StartRemove
  <2>2. /\ phase \in {"pruneDirs", "finalDirs"} /\ phase' = phase
        /\ UNCHANGED <<weights, content>>
    BY <1>13 DEF StartRemove, loopVars
  <2>3. CASE phase = "finalDirs"
    BY <1>2, <2>2, <2>3
  <2>4. CASE phase = "pruneDirs"
    <3>1. marked # {} /\ Base \in marked /\ d # Base
      BY <1>5, <2>1, <2>4 DEF Pruning
    <3>2. Base' = Base /\ marked' # {}
      BY <1>1, <2>1, <3>1, BaseKept
    <3>3. Latest' = Latest
      BY <3>1, <3>2 DEF Latest, Base
    <3>4. Saved' = Saved
      BY <2>2, <3>3 DEF Saved
    <3>5. QED
      BY <1>2, <2>2, <2>4, <3>4
  <2>5. QED
    BY <2>2, <2>3, <2>4
<1>14. CASE EndRemove
  <2>1. /\ UNCHANGED <<phase, weights>> /\ removing # NoStep
        /\ \/ /\ marked' = marked \ {removing}
              /\ content' = [content EXCEPT ![removing] = <<>>]
           \/ UNCHANGED <<marked, content>>
    BY <1>14 DEF EndRemove, loopVars, dirVars
  <2>2. phase \in {"pruneDirs", "finalDirs"}
    BY <1>1, <2>1 DEF PhaseInv
  <2>3. CASE phase = "finalDirs"
    BY <1>2, <2>1, <2>3
  <2>4. CASE phase = "pruneDirs"
    <3>1. marked # {} /\ Base \in marked /\ removing # Base /\ Latest = Base
      BY <1>5, <2>4 DEF Pruning
    <3>2. Base' = Base /\ marked' # {}
      BY <1>1, <2>1, <3>1, BaseKept
    <3>3. Latest' = Latest
      BY <3>1, <3>2 DEF Latest, Base
    <3>4. content'[Latest] = content[Latest]
      <4>1. Latest \in Steps /\ Latest # removing
        BY <1>1, <3>1, LatestFacts
      <4>2. QED
        BY <1>4, <2>1, <4>1
    <3>5. Saved' = Saved
      BY <3>3, <3>4 DEF Saved
    <3>6. QED
      BY <1>2, <2>1, <2>4, <3>5
  <2>5. QED
    BY <2>2, <2>3, <2>4
<1>15. CASE Crash
  <2>1. /\ ~Finishing /\ phase # "down" /\ phase' = "down" /\ UNCHANGED <<marked, content>>
    BY <1>15 DEF Crash, Durably, dirVars
  <2>2. Saved' = Saved
    BY <2>1 DEF Saved, Latest
  <2>3. QED
    BY <1>2, <2>1, <2>2
<1>16. CASE Resume
  <2>1. /\ phase = "down" /\ phase' = "train" /\ Latest # NoStep /\ weights' = content[Latest]
        /\ UNCHANGED <<marked, content>>
    BY <1>16 DEF Resume, dirVars
  <2>2. Saved' = Saved /\ Saved = Len(content[Latest])
    BY <2>1 DEF Saved, Latest
  <2>3. QED
    BY <1>2, <2>1, <2>2
<1>17. CASE Restart
  <2>1. /\ phase = "down" /\ phase' = "train" /\ Latest = NoStep /\ weights' = <<>> /\ marked' = {}
    BY <1>1, <1>17 DEF Restart, LoopInv, loopVars
  <2>2. Saved' = 0 /\ Saved = 0 /\ Len(weights') = 0
    BY <2>1 DEF Saved, Latest
  <2>3. QED
    BY <1>2, <2>1, <2>2
<1>18. CASE UNCHANGED vars
  BY <1>2, <1>18 DEF vars, loopVars, dirVars, Saved, Latest
<1>19. QED
  BY <1>6, <1>7, <1>8, <1>9, <1>10, <1>11, <1>12, <1>13, <1>14, <1>15, <1>16, <1>17, <1>18 DEF Next

(* A run is as durable as one with atomic checkpoints: a crash takes back  *)
(* the updates since the last completed save and no more.                  *)
THEOREM RunIsDurable == TrainingAssumption /\ Durably => (Spec => DurableSpec)
<1> SUFFICES ASSUME TrainingAssumption, Durably PROVE Spec => DurableSpec
  OBVIOUS
<1>1. Init => Durable!Init
  BY DEF Init, Durable!Init, Saved, Latest, Finishing
<1>2. IInv /\ [Next]_vars => [Durable!Next]_Durable!vars
  BY DurableStep
<1>3. QED
  BY <1>1, <1>2, Invariance, PTL DEF Spec, DurableSpec, Durable!Spec

LEMMA LockstepStep ==
    ASSUME TrainingAssumption, Durably, IInv, phase = "pruneDirs"
    PROVE  Paired
<1>1. Safe /\ LineInv /\ ~Finishing
  BY DEF IInv, Finishing
<1>2. files \subseteq dirs /\ Oldest(files) = {}
  BY <1>1 DEF LineInv, Pruning
<1>3. files \in SUBSET (0 .. Total) /\ Total \in Nat
  BY <1>1, SafeFacts, Parameters
<1>4. QED
  BY <1>2, <1>3, OldestFacts DEF Paired

(* "In lockstep so a kept weights file always retains its sibling state    *)
(* dir", for any number of checkpoints kept.                               *)
THEOREM PrunesInLockstep == TrainingAssumption /\ Durably => (Spec => Lockstep)
<1> SUFFICES ASSUME TrainingAssumption, Durably PROVE Spec => Lockstep
  OBVIOUS
<1>1. IInv /\ [Next]_vars => [ (phase = "pruneDirs" /\ phase' = "train" /\ FullStates) => Paired ]_vars
  BY LockstepStep
<1>2. QED
  BY <1>1, Invariance, PTL DEF Spec, Lockstep
=============================================================================
