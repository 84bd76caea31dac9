-------------------------- MODULE EvaluationProofs --------------------------
(***************************************************************************)
(* What the run of MCEvaluation checks of workers, manifests and episodes, *)
(* for every set of models, processes, keys, commands and builders and     *)
(* every bound.  Each of the three systems has its inductive invariant.    *)
(***************************************************************************)
EXTENDS MCEvaluation, FiniteSetTheorems, WellFoundedInduction, TLAPS

Cursor == [seed : Nat \cup {Replay!Process}, n : Nat]

(* A manifest entry names the cursor an episode starts from, or not; what  *)
(* is set up there is decided by the first number drawn.                   *)
Entry == [origin : Cursor \cup {None}, scene : Seq(Cursor)]

ReplayTypes ==
    /\ rng \in Cursor /\ drawn \in Seq(Cursor) /\ scene \in Seq(Cursor) /\ batch \in Seq(1 .. Total)
    /\ domain \in Cursor \cup {None} /\ outside \in Cursor \cup {None}
    /\ candidate \in Nat /\ sealed \in BOOLEAN
    /\ entries \in Seq(Entry)
    /\ Replay!Told => \A i \in DOMAIN entries :
          entries[i].origin \in Cursor /\ entries[i].scene = <<entries[i].origin>>

Building == {"make", "scan", "setup", "expert", "judge"}
Between  == {"idle", "make", "next"}

(* The builder: a candidate is judged by what its set-up drew first.       *)
BuilderInv ==
    ~sealed =>
        /\ phase \in Building
        /\ phase \in {"make", "scan"} <=> outside = None
        /\ phase # "make" /\ Replay!Libero => domain # None
        /\ phase = "setup" => drawn = <<>>
        /\ phase = "expert" => drawn # <<>> /\ scene = <<drawn[1]>>
        /\ phase = "judge" /\ (Replay!Libero \/ candidate \in feasible) =>
              drawn # <<>> /\ scene = <<drawn[1]>>

(* The number that follows on those drawn in the episode at the head of    *)
(* the batch, which is where its stream must stand: in the process while a *)
(* call is inside the domain, in the domain otherwise.                     *)
Origin   == Replay!Origin(Head(batch))
Expected == IF drawn = <<>> \/ (Len(drawn) = 1 /\ Replay!Reseeded) THEN Origin
            ELSE Replay!After(drawn[Len(drawn)], Replay!Amount(drawn[Len(drawn)]))
EpisodeInv ==
    sealed =>
        /\ Len(entries) = Total
        /\ phase \in Between => outside = None
        /\ phase \notin Between =>
              /\ batch # <<>>
              /\ IF outside = None THEN domain = Expected ELSE rng = Expected
              /\ IF phase = "setup" THEN drawn = <<>> /\ scene = <<>> ELSE drawn # <<>>
              /\ scene # <<>> => scene = <<Origin>>
              /\ \A i \in DOMAIN drawn :
                    drawn[i] = IF i = 1 \/ (i = 2 /\ Replay!Reseeded) THEN Origin
                               ELSE Replay!After(drawn[i - 1], Replay!Amount(drawn[i - 1]))

ReplayInv == ReplayTypes /\ BuilderInv /\ EpisodeInv
-----------------------------------------------------------------------------
LEMMA CursorFacts ==
    /\ \A s \in Nat \cup {Replay!Process} : Replay!Start(s) \in Cursor
    /\ \A c \in Cursor : Replay!Amount(c) \in {1, 2}
    /\ \A c \in Cursor, k \in Nat : Replay!After(c, k) \in Cursor
<1>1. ASSUME NEW s \in Nat \cup {Replay!Process} PROVE Replay!Start(s) \in Cursor
  BY DEF Cursor, Replay!Start
<1>2. ASSUME NEW c \in Cursor PROVE Replay!Amount(c) \in {1, 2}
  BY DEF Replay!Amount
<1>3. ASSUME NEW c \in Cursor, NEW k \in Nat PROVE Replay!After(c, k) \in Cursor
  BY DEF Cursor, Replay!After
<1>4. QED
  BY <1>1, <1>2, <1>3

LEMMA SeedFacts == Replay!Seed \in Nat \cup {Replay!Process}
  BY DEF Replay!Seed

LEMMA NoiseFacts ==
    ASSUME ReplayTypes, Replay!Noise
    PROVE  rng' \in Cursor
  BY CursorFacts DEF Replay!Noise, ReplayTypes

(* A draw takes the next number of the stream.                             *)
LEMMA DrawFacts ==
    ASSUME ReplayTypes, NEW next \in Cursor, Replay!Draw(next)
    PROVE  /\ rng' \in Cursor /\ drawn' \in Seq(Cursor) /\ drawn' # <<>>
           /\ rng' = next
           /\ Len(drawn') = Len(drawn) + 1 /\ drawn'[Len(drawn')] = rng
           /\ \A i \in DOMAIN drawn : drawn'[i] = drawn[i]
           /\ drawn = <<>> => drawn' = <<rng>>
           /\ drawn # <<>> => drawn'[1] = drawn[1]
           /\ outside' = outside /\ domain' = domain
<1>1. /\ rng' = next /\ drawn' = Append(drawn, rng)
      /\ outside' = outside /\ domain' = domain
  BY DEF Replay!Draw
<1>2. rng \in Cursor /\ drawn \in Seq(Cursor)
  BY DEF ReplayTypes
<1>3. rng' \in Cursor
  BY <1>1
<1>4. /\ drawn' \in Seq(Cursor) /\ Len(drawn') = Len(drawn) + 1 /\ drawn'[Len(drawn')] = rng
      /\ \A i \in DOMAIN drawn : drawn'[i] = drawn[i]
  BY <1>1, <1>2
<1>5. drawn' # <<>> /\ (drawn # <<>> => drawn'[1] = drawn[1])
  BY <1>2, <1>4
<1>6. drawn = <<>> => drawn' = <<rng>>
  BY <1>1
<1>7. QED
  BY <1>1, <1>3, <1>4, <1>5, <1>6

LEMMA OnwardFacts ==
    ASSUME ReplayTypes
    PROVE  Replay!Onward \in Cursor /\ Replay!Onward = Replay!After(rng, Replay!Amount(rng))
<1>1. rng \in Cursor
  BY DEF ReplayTypes
<1>2. Replay!Amount(rng) \in Nat
  BY <1>1, CursorFacts
<1>3. Replay!Onward = Replay!After(rng, Replay!Amount(rng))
  BY DEF Replay!Onward
<1>4. QED
  BY <1>1, <1>2, <1>3, CursorFacts

LEMMA NotACursor == Replay!ReplayAssumption => None \notin Cursor /\ Total \in Nat \ {0}
  BY DEF Replay!ReplayAssumption, Cursor, Replay!Process

LEMMA ReplayInit == Replay!ReplayAssumption /\ Replay!Init => ReplayInv
<1> SUFFICES ASSUME Replay!ReplayAssumption, Replay!Init PROVE ReplayInv
  OBVIOUS
<1>1. rng \in Cursor
  BY DEF Replay!Init, Replay!Start, Cursor
<1>2. /\ domain = None /\ outside = None /\ candidate = 1 /\ sealed = FALSE /\ phase = "make"
      /\ entries = <<>> /\ drawn = <<>> /\ scene = <<>> /\ batch = <<>>
  BY DEF Replay!Init
<1>3. ReplayTypes
  <2>1. <<>> \in Seq(Entry) /\ <<>> \in Seq(Cursor) /\ <<>> \in Seq(1 .. Total)
    OBVIOUS
  <2>2. \A i \in DOMAIN entries : entries[i].origin \in Cursor /\ entries[i].scene = <<entries[i].origin>>
    BY <1>2
  <2>3. QED
    BY <1>1, <1>2, <2>1, <2>2 DEF ReplayTypes
<1>4. QED
  BY <1>2, <1>3 DEF ReplayInv, BuilderInv, EpisodeInv, Building

LEMMA BuilderStep ==
    ASSUME Replay!ReplayAssumption, ReplayInv,
           \/ Replay!MakeBuilderEnv \/ Replay!OpenCandidate \/ Replay!SetUpCandidate \/ Replay!PlayExpert
           \/ Replay!CandidateRaises \/ Replay!JudgeCandidate \/ Replay!Seal
    PROVE  ReplayInv'
<1>0. ~sealed /\ ReplayTypes /\ BuilderInv /\ None \notin Cursor
  BY NotACursor DEF ReplayInv, Replay!MakeBuilderEnv, Replay!OpenCandidate, Replay!SetUpCandidate,
       Replay!PlayExpert, Replay!CandidateRaises, Replay!JudgeCandidate, Replay!Seal
<1>1. CASE Replay!MakeBuilderEnv
  <2>1. /\ phase = "make" /\ phase' = "scan"
        /\ UNCHANGED <<benchmark, generator, feasible, entries, sealed, outside, candidate, batch, scene, drawn>>
        /\ IF Replay!Libero /\ Replay!Told THEN rng' = Replay!Start(Replay!Seed) ELSE Replay!Noise
        /\ domain' = IF ~Replay!Libero THEN domain
                     ELSE IF Replay!Told THEN Replay!Start(Replay!Seed) ELSE Replay!Start(0)
    BY <1>1 DEF Replay!MakeBuilderEnv, Replay!manifest
  <2>2. rng' \in Cursor /\ domain' \in Cursor \cup {None} /\ (Replay!Libero => domain' # None)
    <3>1. rng' \in Cursor
      BY <1>0, <2>1, CursorFacts, SeedFacts, NoiseFacts
    <3>2. Replay!Start(Replay!Seed) \in Cursor /\ Replay!Start(0) \in Cursor
      BY CursorFacts, SeedFacts
    <3>3. QED
      BY <1>0, <2>1, <3>1, <3>2 DEF ReplayTypes
  <2>3. ReplayTypes'
    BY <1>0, <2>1, <2>2 DEF ReplayTypes, Replay!Told, Replay!Libero
  <2>4. BuilderInv' /\ EpisodeInv'
    BY <1>0, <2>1, <2>2 DEF BuilderInv, EpisodeInv, Building, Replay!Libero
  <2>5. QED
    BY <2>3, <2>4 DEF ReplayInv
<1>2. CASE Replay!OpenCandidate
  <2>1. PICK at : /\ at = IF Replay!Libero THEN domain ELSE Replay!Start(candidate)
                  /\ domain' = at /\ rng' = at /\ outside' = rng
    BY <1>2 DEF Replay!OpenCandidate
  <2>2. /\ phase = "scan" /\ phase' = "setup" /\ drawn' = <<>> /\ scene' = <<>>
        /\ UNCHANGED <<benchmark, generator, feasible, entries, sealed, candidate, batch>>
    BY <1>2 DEF Replay!OpenCandidate, Replay!manifest
  <2>3. at \in Cursor
    <3>1. CASE Replay!Libero
      BY <1>0, <2>1, <2>2, <3>1 DEF BuilderInv, ReplayTypes
    <3>2. CASE ~Replay!Libero
      BY <1>0, <2>1, <3>2, CursorFacts DEF ReplayTypes
    <3>3. QED
      BY <3>1, <3>2
  <2>4. rng' \in Cursor /\ domain' \in Cursor /\ outside' \in Cursor /\ outside' # None
    BY <1>0, <2>1, <2>3 DEF ReplayTypes
  <2>5. ReplayTypes'
    BY <1>0, <2>2, <2>4 DEF ReplayTypes, Replay!Told, Replay!Libero
  <2>6. BuilderInv' /\ EpisodeInv'
    BY <1>0, <2>2, <2>4 DEF BuilderInv, EpisodeInv, Building, Replay!Libero
  <2>7. QED
    BY <2>5, <2>6 DEF ReplayInv
<1>3. CASE Replay!SetUpCandidate
  <2>1. /\ phase = "setup" /\ Replay!Draw(Replay!Onward) /\ scene' = drawn' /\ phase' \in {"judge", "expert"}
        /\ UNCHANGED <<benchmark, generator, feasible, entries, sealed, candidate, batch>>
    BY <1>3 DEF Replay!SetUpCandidate, Replay!manifest
  <2>2. drawn = <<>>
    BY <1>0, <2>1 DEF BuilderInv
  <2>3. /\ rng' \in Cursor /\ drawn' \in Seq(Cursor) /\ drawn' = <<rng>>
        /\ outside' = outside /\ domain' = domain
    BY <1>0, <2>1, <2>2, OnwardFacts, DrawFacts
  <2>4. drawn' # <<>> /\ scene' = <<drawn'[1]>>
    BY <2>1, <2>3
  <2>5. ReplayTypes'
    BY <1>0, <2>1, <2>3 DEF ReplayTypes, Replay!Told, Replay!Libero
  <2>6. BuilderInv' /\ EpisodeInv'
    BY <1>0, <2>1, <2>3, <2>4 DEF BuilderInv, EpisodeInv, Building, Replay!Libero
  <2>7. QED
    BY <2>5, <2>6 DEF ReplayInv
<1>4. CASE Replay!PlayExpert
  <2>1. /\ phase = "expert" /\ Replay!Draw(Replay!Onward) /\ phase' = "judge"
        /\ UNCHANGED <<benchmark, generator, feasible, entries, sealed, candidate, batch, scene>>
    BY <1>4 DEF Replay!PlayExpert, Replay!manifest
  <2>2. drawn # <<>> /\ scene = <<drawn[1]>>
    BY <1>0, <2>1 DEF BuilderInv
  <2>3. /\ rng' \in Cursor /\ drawn' \in Seq(Cursor) /\ drawn' # <<>> /\ drawn'[1] = drawn[1]
        /\ outside' = outside /\ domain' = domain
    BY <1>0, <2>1, <2>2, OnwardFacts, DrawFacts
  <2>4. ReplayTypes'
    BY <1>0, <2>1, <2>3 DEF ReplayTypes, Replay!Told, Replay!Libero
  <2>5. BuilderInv' /\ EpisodeInv'
    BY <1>0, <2>1, <2>2, <2>3 DEF BuilderInv, EpisodeInv, Building, Replay!Libero
  <2>6. QED
    BY <2>4, <2>5 DEF ReplayInv
<1>5. CASE Replay!CandidateRaises
  BY <1>0, <1>5 DEF Replay!CandidateRaises, Replay!manifest, ReplayInv, ReplayTypes, BuilderInv, EpisodeInv,
       Building, Replay!Libero, Replay!Told
<1>6. CASE Replay!JudgeCandidate
  <2> DEFINE accepted == Replay!Libero \/ candidate \in feasible
             entry    == [origin |-> IF Replay!Told THEN drawn[1] ELSE None, scene |-> scene]
  <2>1. /\ phase = "judge" /\ phase' = "scan" /\ domain' = rng /\ rng' = outside /\ outside' = None
        /\ entries' = IF accepted THEN Append(entries, entry) ELSE entries
        /\ candidate' = candidate + 1
        /\ UNCHANGED <<benchmark, generator, feasible, sealed, batch, scene, drawn>>
    BY <1>6 DEF Replay!JudgeCandidate, Replay!Leave
  <2>2. accepted => entry \in Entry /\ (Replay!Told => entry.origin \in Cursor /\ entry.scene = <<entry.origin>>)
    <3>1. accepted => drawn # <<>> /\ scene = <<drawn[1]>>
      BY <1>0, <2>1 DEF BuilderInv
    <3>2. drawn # <<>> => drawn[1] \in Cursor
      BY <1>0 DEF ReplayTypes
    <3>3. QED
      BY <1>0, <3>1, <3>2 DEF Entry, ReplayTypes
  <2>3. /\ entries' \in Seq(Entry)
        /\ Replay!Told => \A i \in DOMAIN entries' :
              entries'[i].origin \in Cursor /\ entries'[i].scene = <<entries'[i].origin>>
    <3> HIDE DEF entry, accepted
    <3>1. /\ entries \in Seq(Entry)
          /\ Replay!Told => \A i \in DOMAIN entries :
                entries[i].origin \in Cursor /\ entries[i].scene = <<entries[i].origin>>
      BY <1>0 DEF ReplayTypes
    <3>2. CASE accepted
      <4>1. /\ entries' = Append(entries, entry) /\ entry \in Entry
            /\ Replay!Told => entry.origin \in Cursor /\ entry.scene = <<entry.origin>>
        BY <2>1, <2>2, <3>2
      <4>2. /\ entries' \in Seq(Entry)
            /\ \A i \in DOMAIN entries' : entries'[i] = entry
                 \/ (i \in DOMAIN entries /\ entries'[i] = entries[i])
        BY <3>1, <4>1
      <4>3. QED
        BY <3>1, <4>1, <4>2, Zenon
    <3>3. CASE ~accepted
      BY <2>1, <3>1, <3>3
    <3>4. QED
      BY <3>2, <3>3
  <2>4. outside \in Cursor
    BY <1>0, <2>1 DEF BuilderInv, ReplayTypes
  <2>5. ReplayTypes'
    BY <1>0, <2>1, <2>3, <2>4 DEF ReplayTypes, Replay!Told, Replay!Libero
  <2>6. BuilderInv' /\ EpisodeInv'
    BY <1>0, <2>1 DEF BuilderInv, EpisodeInv, Building, Replay!Libero, ReplayTypes
  <2>7. QED
    BY <2>5, <2>6 DEF ReplayInv
<1>7. CASE Replay!Seal
  <2>1. /\ phase = "scan" /\ Len(entries) = Total /\ sealed' = TRUE /\ phase' = "idle"
        /\ rng' = Replay!Start(Replay!Process) /\ domain' = None
        /\ UNCHANGED <<benchmark, generator, feasible, entries, outside, candidate, batch, scene, drawn>>
    BY <1>7 DEF Replay!Seal
  <2>2. rng' \in Cursor
    BY <2>1, CursorFacts
  <2>3. ReplayTypes'
    BY <1>0, <2>1, <2>2 DEF ReplayTypes, Replay!Told, Replay!Libero
  <2>4. BuilderInv' /\ EpisodeInv'
    BY <1>0, <2>1 DEF BuilderInv, EpisodeInv, Between
  <2>5. QED
    BY <2>3, <2>4 DEF ReplayInv
<1>8. QED
  BY <1>1, <1>2, <1>3, <1>4, <1>5, <1>6, <1>7

(* While an episode runs its entry stays where it is.                      *)
LEMMA EntryFacts ==
    ASSUME ReplayTypes, Len(entries) = Total, batch # <<>>
    PROVE  /\ Head(batch) \in DOMAIN entries /\ Origin \in Cursor
           /\ Replay!Told => entries[Head(batch)].scene = <<Origin>>
<1>1. Head(batch) \in 1 .. Total /\ entries \in Seq(Entry)
  BY DEF ReplayTypes
<1>2. Head(batch) \in DOMAIN entries
  BY <1>1
<1>3. Replay!Start(0) \in Cursor
  BY CursorFacts
<1>4. QED
  BY <1>2, <1>3 DEF ReplayTypes, Origin, Replay!Origin

LEMMA EvaluatorStep ==
    ASSUME Replay!ReplayAssumption, ReplayInv,
           \/ \E from, to \in 1 .. Total : from <= to /\ Replay!StartBatch(from, to)
           \/ Replay!MakeEnv \/ Replay!OpenEpisode \/ Replay!Activate \/ Replay!CallSimulator
           \/ Replay!Deactivate \/ Replay!CallPolicy
           \/ \E success \in BOOLEAN : Replay!Stepped(success)
           \/ Replay!EndEpisode \/ Replay!AttemptFails
    PROVE  ReplayInv'
<1>0. sealed /\ ReplayTypes /\ EpisodeInv /\ None \notin Cursor /\ Total \in Nat \ {0}
  BY NotACursor DEF ReplayInv, Replay!StartBatch, Replay!MakeEnv, Replay!OpenEpisode, Replay!Activate,
       Replay!CallSimulator, Replay!Deactivate, Replay!CallPolicy, Replay!Stepped, Replay!EndEpisode,
       Replay!AttemptFails
<1>a. Len(entries) = Total /\ (phase \in Between => outside = None)
  BY <1>0 DEF EpisodeInv
<1>b. ASSUME sealed' = sealed PROVE BuilderInv'
  BY <1>0, <1>b DEF BuilderInv
<1>c. Replay!Start(Replay!Process) \in Cursor
  BY CursorFacts
<1>1. ASSUME NEW from \in 1 .. Total, NEW to \in 1 .. Total, from <= to, Replay!StartBatch(from, to)
      PROVE  ReplayInv'
  <2>1. /\ phase' = "make" /\ rng' = Replay!Start(Replay!Process)
        /\ batch' = [i \in 1 .. to - from + 1 |-> from + i - 1] /\ phase = "idle"
        /\ UNCHANGED <<benchmark, generator, feasible, entries, sealed, domain, outside, candidate, scene, drawn>>
    BY <1>1 DEF Replay!StartBatch, Replay!manifest
  <2>2. batch' \in Seq(1 .. Total)
    <3>1. \A i \in 1 .. to - from + 1 : from + i - 1 \in 1 .. Total
      BY <1>0, <1>1
    <3>2. to - from + 1 \in Nat
      BY <1>0, <1>1
    <3>3. QED
      BY <2>1, <3>1, <3>2
  <2>3. ReplayTypes'
    BY <1>0, <1>c, <2>1, <2>2 DEF ReplayTypes, Replay!Told, Replay!Libero
  <2>4. EpisodeInv'
    BY <1>a, <2>1 DEF EpisodeInv, Between
  <2>5. QED
    BY <1>b, <2>1, <2>3, <2>4 DEF ReplayInv
<1>2. CASE Replay!MakeEnv
  <2>1. /\ phase = "make" /\ phase' = "next" /\ Replay!Noise
        /\ UNCHANGED <<benchmark, generator, feasible, entries, sealed, domain, outside, candidate, batch, scene, drawn>>
    BY <1>2 DEF Replay!MakeEnv, Replay!manifest
  <2>2. ReplayTypes'
    BY <1>0, <2>1, NoiseFacts DEF ReplayTypes, Replay!Told, Replay!Libero
  <2>3. EpisodeInv'
    BY <1>a, <2>1 DEF EpisodeInv, Between
  <2>4. QED
    BY <1>b, <2>1, <2>2, <2>3 DEF ReplayInv
<1>3. CASE Replay!OpenEpisode
  <2>1. /\ phase = "next" /\ phase' = "setup" /\ batch # <<>> /\ domain' = Origin
        /\ drawn' = <<>> /\ scene' = <<>>
        /\ UNCHANGED <<benchmark, generator, feasible, entries, sealed, rng, outside, candidate, batch>>
    BY <1>3 DEF Replay!OpenEpisode, Replay!manifest, Origin
  <2>2. Origin \in Cursor /\ Origin' = Origin
    BY <1>0, <1>a, <2>1, EntryFacts DEF Origin, Replay!Origin, Replay!Told, Replay!Libero
  <2>3. ReplayTypes'
    BY <1>0, <2>1, <2>2 DEF ReplayTypes, Replay!Told, Replay!Libero
  <2>4. outside' = None /\ domain' = Expected'
    BY <1>a, <2>1, <2>2 DEF Between, Expected
  <2>5. EpisodeInv'
    BY <1>a, <2>1, <2>4 DEF EpisodeInv, Between
  <2>6. QED
    BY <1>b, <2>1, <2>3, <2>5 DEF ReplayInv
<1>4. CASE Replay!Activate
  <2>1. /\ phase \in Replay!Calls /\ outside = None /\ outside' = rng /\ rng' = domain
        /\ UNCHANGED <<benchmark, generator, feasible, entries, sealed, domain, candidate, batch, phase, scene, drawn>>
    BY <1>4 DEF Replay!Activate, Replay!Enter, Replay!manifest
  <2>2. phase \notin Between
    BY <2>1 DEF Between, Replay!Calls
  <2>3. batch # <<>> /\ domain = Expected
    BY <1>0, <2>1, <2>2 DEF EpisodeInv
  <2>4. Expected \in Cursor /\ Expected' = Expected /\ Origin' = Origin
    <3>1. Origin \in Cursor
      BY <1>0, <1>a, <2>3, EntryFacts
    <3>2. drawn # <<>> => drawn[Len(drawn)] \in Cursor
      BY <1>0 DEF ReplayTypes
    <3>3. drawn # <<>> => Replay!Amount(drawn[Len(drawn)]) \in Nat
      BY <3>2, CursorFacts
    <3>4. Expected \in Cursor
      BY <3>1, <3>2, <3>3, CursorFacts DEF Expected
    <3>5. QED
      BY <2>1, <3>4 DEF Expected, Origin, Replay!Origin, Replay!Told, Replay!Reseeded, Replay!Libero
  <2>5. outside' # None /\ rng' = Expected'
    BY <1>0, <2>1, <2>3, <2>4 DEF ReplayTypes
  <2>6. ReplayTypes'
    BY <1>0, <2>1, <2>3, <2>4 DEF ReplayTypes, Replay!Told, Replay!Libero
  <2>7. EpisodeInv'
    <3>1. Replay!Reseeded' = Replay!Reseeded
      BY <2>1 DEF Replay!Reseeded, Replay!Libero
    <3>2. /\ Len(entries) = Total
          /\ IF phase = "setup" THEN drawn = <<>> /\ scene = <<>> ELSE drawn # <<>>
          /\ scene # <<>> => scene = <<Origin>>
          /\ \A i \in DOMAIN drawn :
                drawn[i] = IF i = 1 \/ (i = 2 /\ Replay!Reseeded) THEN Origin
                           ELSE Replay!After(drawn[i - 1], Replay!Amount(drawn[i - 1]))
      BY <1>0, <1>a, <2>2 DEF EpisodeInv
    <3>3. /\ entries' = entries /\ phase' = phase /\ batch' = batch /\ drawn' = drawn
          /\ scene' = scene
      BY <2>1
    <3>4. \A i \in DOMAIN drawn' :
             drawn'[i] = IF i = 1 \/ (i = 2 /\ Replay!Reseeded') THEN Origin'
                         ELSE Replay!After(drawn'[i - 1], Replay!Amount(drawn'[i - 1]))
      BY <2>4, <3>1, <3>2, <3>3
    <3>5. QED
      BY <2>2, <2>3, <2>4, <2>5, <3>2, <3>3, <3>4, Zenon DEF EpisodeInv, Between
  <2>8. QED
    BY <1>b, <2>1, <2>6, <2>7 DEF ReplayInv
<1>5. CASE Replay!CallSimulator
  <2>1. /\ phase \in Replay!Calls /\ outside # None
        /\ Replay!Draw(IF phase = "setup" /\ Replay!Reseeded THEN Origin ELSE Replay!Onward)
        /\ scene' = IF phase = "setup" THEN drawn' ELSE scene
        /\ phase' = Replay!Following(phase)
        /\ UNCHANGED <<benchmark, generator, feasible, entries, sealed, candidate, batch>>
    BY <1>5 DEF Replay!CallSimulator, Replay!manifest, Origin
  <2>2. phase \notin Between /\ phase' \notin Between /\ phase' # "setup"
    BY <2>1 DEF Between, Replay!Calls, Replay!Following
  <2>3. /\ batch # <<>> /\ rng = Expected
        /\ IF phase = "setup" THEN drawn = <<>> /\ scene = <<>> ELSE drawn # <<>>
        /\ scene # <<>> => scene = <<Origin>>
        /\ \A i \in DOMAIN drawn :
              drawn[i] = IF i = 1 \/ (i = 2 /\ Replay!Reseeded) THEN Origin
                         ELSE Replay!After(drawn[i - 1], Replay!Amount(drawn[i - 1]))
    BY <1>0, <2>1, <2>2 DEF EpisodeInv
  <2>4. /\ rng' \in Cursor /\ drawn' \in Seq(Cursor) /\ drawn' # <<>>
        /\ rng' = IF phase = "setup" /\ Replay!Reseeded THEN Origin ELSE Replay!After(rng, Replay!Amount(rng))
        /\ Len(drawn') = Len(drawn) + 1 /\ drawn'[Len(drawn')] = rng
        /\ \A i \in DOMAIN drawn : drawn'[i] = drawn[i]
        /\ drawn = <<>> => drawn' = <<rng>>
        /\ outside' = outside /\ domain' = domain
    <3>1. Origin \in Cursor
      BY <1>0, <1>a, <2>3, EntryFacts
    <3>2. QED
      BY <1>0, <2>1, <3>1, OnwardFacts, DrawFacts
  <2>5. Origin' = Origin /\ Replay!Reseeded' = Replay!Reseeded
    BY <2>1 DEF Origin, Replay!Origin, Replay!Told, Replay!Reseeded, Replay!Libero
  <2>6. rng' = Expected'
    <3>1. Len(drawn') = 1 <=> phase = "setup"
      BY <1>0, <2>3, <2>4 DEF ReplayTypes
    <3>2. QED
      BY <2>4, <2>5, <3>1 DEF Expected
  <2>7. scene' # <<>> => scene' = <<Origin>>
    BY <2>1, <2>3, <2>4 DEF Expected
  <2>8. \A i \in DOMAIN drawn' :
           drawn'[i] = IF i = 1 \/ (i = 2 /\ Replay!Reseeded) THEN Origin
                       ELSE Replay!After(drawn'[i - 1], Replay!Amount(drawn'[i - 1]))
    <3>1. SUFFICES ASSUME NEW i \in DOMAIN drawn'
                   PROVE  drawn'[i] = IF i = 1 \/ (i = 2 /\ Replay!Reseeded) THEN Origin
                                      ELSE Replay!After(drawn'[i - 1], Replay!Amount(drawn'[i - 1]))
      OBVIOUS
    <3>2. /\ Len(drawn) \in Nat /\ DOMAIN drawn = 1 .. Len(drawn)
          /\ DOMAIN drawn' = 1 .. Len(drawn) + 1
      BY <1>0, <2>4 DEF ReplayTypes
    <3>3. CASE i \in DOMAIN drawn
      <4>1. i # 1 => i - 1 \in DOMAIN drawn
        BY <3>2, <3>3
      <4>2. QED
        BY <2>3, <2>4, <3>3, <4>1
    <3>4. CASE i = Len(drawn) + 1 /\ drawn # <<>>
      <4>1. i # 1 /\ i - 1 = Len(drawn) /\ i - 1 \in DOMAIN drawn
        BY <1>0, <3>2, <3>4 DEF ReplayTypes
      <4>2. drawn'[i - 1] = drawn[Len(drawn)] /\ drawn'[i] = Expected
        BY <2>3, <2>4, <3>4, <4>1
      <4>3. Expected = IF i = 2 /\ Replay!Reseeded THEN Origin
                       ELSE Replay!After(drawn[Len(drawn)], Replay!Amount(drawn[Len(drawn)]))
        BY <3>4, <4>1 DEF Expected
      <4>4. QED
        BY <4>1, <4>2, <4>3
    <3>5. CASE i = Len(drawn) + 1 /\ drawn = <<>>
      <4>1. i = 1
        BY <3>5
      <4>2. Expected = Origin
        BY <3>5 DEF Expected
      <4>3. QED
        BY <2>3, <2>4, <3>5, <4>1, <4>2
    <3>6. QED
      BY <3>2, <3>3, <3>4, <3>5
  <2>9. scene' \in Seq(Cursor) /\ ReplayTypes'
    BY <1>0, <2>1, <2>4 DEF ReplayTypes, Replay!Told, Replay!Libero
  <2>10. EpisodeInv'
    BY <1>0, <1>a, <2>1, <2>2, <2>3, <2>4, <2>5, <2>6, <2>7, <2>8 DEF EpisodeInv
  <2>11. QED
    BY <1>b, <2>1, <2>9, <2>10 DEF ReplayInv
<1>6. CASE Replay!Deactivate
  <2>1. /\ outside # None /\ domain' = rng /\ rng' = outside /\ outside' = None
        /\ UNCHANGED <<benchmark, generator, feasible, entries, sealed, candidate, batch, phase, scene, drawn>>
    BY <1>6 DEF Replay!Deactivate, Replay!Leave, Replay!manifest
  <2>2. Expected' = Expected /\ Origin' = Origin /\ Replay!Reseeded' = Replay!Reseeded
    BY <2>1 DEF Expected, Origin, Replay!Origin, Replay!Told, Replay!Reseeded, Replay!Libero
  <2>3. ReplayTypes'
    BY <1>0, <2>1 DEF ReplayTypes, Replay!Told, Replay!Libero
  <2>4. EpisodeInv'
    BY <1>0, <1>a, <2>1, <2>2 DEF EpisodeInv
  <2>5. QED
    BY <1>b, <2>1, <2>3, <2>4 DEF ReplayInv
<1>7. CASE Replay!CallPolicy
  <2>1. /\ phase \in {"policy", "act"} /\ phase' \in {"act", "observe", "step"} /\ outside = None
             /\ Replay!Noise
        /\ UNCHANGED <<benchmark, generator, feasible, entries, sealed, domain, outside, candidate, batch, scene, drawn>>
    BY <1>7 DEF Replay!CallPolicy, Replay!manifest
  <2>2. Expected' = Expected /\ Origin' = Origin /\ Replay!Reseeded' = Replay!Reseeded
    BY <2>1 DEF Expected, Origin, Replay!Origin, Replay!Told, Replay!Reseeded, Replay!Libero
  <2>3. ReplayTypes'
    BY <1>0, <2>1, NoiseFacts DEF ReplayTypes, Replay!Told, Replay!Libero
  <2>4. EpisodeInv'
    BY <1>0, <1>a, <2>1, <2>2 DEF EpisodeInv, Between
  <2>5. QED
    BY <1>b, <2>1, <2>3, <2>4 DEF ReplayInv
<1>8. ASSUME NEW success \in BOOLEAN, Replay!Stepped(success)
      PROVE  ReplayInv'
  <2>1. /\ phase = "stepped" /\ phase' \in {"closed", "close", "act", "observe"}
        /\ UNCHANGED <<benchmark, generator, feasible, entries, sealed, rng, domain, outside, candidate, batch, scene, drawn>>
    BY <1>8 DEF Replay!Stepped, Replay!manifest
  <2>2. Expected' = Expected /\ Origin' = Origin /\ Replay!Reseeded' = Replay!Reseeded
    BY <2>1 DEF Expected, Origin, Replay!Origin, Replay!Told, Replay!Reseeded, Replay!Libero
  <2>3. ReplayTypes'
    BY <1>0, <2>1 DEF ReplayTypes, Replay!Told, Replay!Libero
  <2>4. EpisodeInv'
    BY <1>0, <1>a, <2>1, <2>2 DEF EpisodeInv, Between
  <2>5. QED
    BY <1>b, <2>1, <2>3, <2>4 DEF ReplayInv
<1>9. CASE Replay!EndEpisode
  <2>1. /\ phase = "closed" /\ phase' \in {"idle", "next"} /\ outside = None /\ batch' = Tail(batch)
        /\ UNCHANGED <<benchmark, generator, feasible, entries, sealed, rng, domain, outside, candidate, scene, drawn>>
    BY <1>9 DEF Replay!EndEpisode, Replay!manifest
  <2>2. batch' \in Seq(1 .. Total)
    <3>1. batch # <<>>
      BY <1>0, <2>1 DEF EpisodeInv, Between
    <3>2. QED
      BY <1>0, <2>1, <3>1 DEF ReplayTypes
  <2>3. ReplayTypes'
    BY <1>0, <2>1, <2>2 DEF ReplayTypes, Replay!Told, Replay!Libero
  <2>4. EpisodeInv'
    BY <1>a, <2>1 DEF EpisodeInv, Between
  <2>5. QED
    BY <1>b, <2>1, <2>3, <2>4 DEF ReplayInv
<1>10. CASE Replay!AttemptFails
  <2>1. /\ phase' = "idle" /\ batch' = <<>> /\ rng' = Replay!Start(Replay!Process)
        /\ domain' = None /\ outside' = None
        /\ UNCHANGED <<benchmark, generator, feasible, entries, sealed, candidate, scene, drawn>>
    BY <1>10 DEF Replay!AttemptFails, Replay!manifest
  <2>2. ReplayTypes'
    BY <1>0, <1>c, <2>1 DEF ReplayTypes, Replay!Told, Replay!Libero
  <2>3. EpisodeInv'
    BY <1>a, <2>1 DEF EpisodeInv, Between
  <2>4. QED
    BY <1>b, <2>1, <2>2, <2>3 DEF ReplayInv
<1>11. QED
  BY <1>1, <1>2, <1>3, <1>4, <1>5, <1>6, <1>7, <1>8, <1>9, <1>10

LEMMA ReplayStep ==
    ASSUME Replay!ReplayAssumption, ReplayInv, [Replay!Next]_(Replay!vars)
    PROVE  ReplayInv'
<1>1. CASE UNCHANGED Replay!vars
  BY <1>1 DEF Replay!vars, ReplayInv, ReplayTypes, BuilderInv, EpisodeInv, Replay!Libero, Expected, Origin,
              Replay!Origin, Replay!Told, Replay!Reseeded
<1>2. CASE Replay!Next
  BY <1>2, BuilderStep, EvaluatorStep DEF Replay!Next
<1>3. QED
  BY <1>1, <1>2

LEMMA ReplayImplies ==
    ASSUME ReplayInv
    PROVE  Replay!EpisodeReplays
<1> SUFFICES ASSUME sealed, phase \notin {"idle", "make", "next"} PROVE Replay!EpisodeReplays
  BY DEF Replay!EpisodeReplays
<1>1. /\ ReplayTypes /\ batch # <<>> /\ Len(entries) = Total
      /\ scene # <<>> => scene = <<Origin>>
      /\ \A i \in DOMAIN drawn :
            drawn[i] = IF i = 1 \/ (i = 2 /\ Replay!Reseeded) THEN Origin
                       ELSE Replay!After(drawn[i - 1], Replay!Amount(drawn[i - 1]))
  BY DEF ReplayInv, EpisodeInv, Between
<1>2. Replay!Told => entries[Head(batch)].scene = <<Origin>>
  BY <1>1, EntryFacts
<1>3. QED
  BY <1>1, <1>2 DEF Replay!EpisodeReplays, Origin
-----------------------------------------------------------------------------
(* Tasks as they are submitted: their fields, and the manifest they name.  *)
Fields(t) ==
    /\ t = [key |-> t.key, manifest |-> t.manifest, total |-> t.total, start |-> t.start,
            count |-> t.count, tasks |-> t.tasks, units |-> t.units, status |-> t.status]
    /\ t.key \in Keys /\ t.total \in Nat /\ t.tasks \in Nat /\ t.start \in Int /\ t.count \in Int
Named(t, known) == t.manifest \in known /\ Manifests!Valid(t.manifest, t.key, t.total)

(* What is published was stored before, and stays.                         *)
StoreInv ==
    /\ index \in [Keys -> stored \cup {None}]
    /\ builder \in [Builders -> [pc : {"idle", "look", "build", "content", "index"},
                                 job : Manifests!Jobs \cup {None}, built : Manifests!Contents \cup {None}]]
    /\ \A b \in Builders : builder[b].pc = "index" => builder[b].built \in stored

(* What a command has resolved is stored, and fits its keys in order.      *)
SubmitterInv ==
    /\ submitter \in [pc : {"off", "resolve", "submit"}, command : Commands \cup {None},
                      cached : Seq(stored), next : Nat]
    /\ submitter.pc # "off" =>
          /\ submitter.command \in Commands
          /\ Len(submitter.cached) <= Len(submitter.command.keys)
          /\ \A i \in 1 .. Len(submitter.cached) :
                Manifests!Valid(submitter.cached[i], submitter.command.keys[i], submitter.command.total)
    /\ submitter.pc = "resolve" =>
          Len(submitter.cached) < Len(submitter.command.keys) /\ submitter.next = 0
    /\ submitter.pc = "submit" =>
          /\ Len(submitter.cached) = Len(submitter.command.keys)
          /\ submitter.next < Len(Manifests!Inputs(submitter.command, submitter.cached))

TasksInv ==
    /\ task = [i \in DOMAIN task |-> task[i]]
    /\ \A i \in DOMAIN task : Fields(task[i]) /\ Named(task[i], stored)

(* Tasks change while a summary lists them; what it has listed is what the *)
(* coverage was decided on.                                                *)
SummaryInv ==
    /\ summary \in [pc : {"off", "list", "accepted"}, cursor : {summary.cursor}, listed : {summary.listed}]
    /\ \A i \in DOMAIN summary.listed : Fields(summary.listed[i])
    /\ summary.pc = "accepted" => Manifests!ValidCoverage(summary.listed)

ManifestInv == StoreInv /\ SubmitterInv /\ TasksInv /\ SummaryInv
-----------------------------------------------------------------------------
LEMMA DivMod ==
    ASSUME NEW x \in Nat, NEW n \in Nat \ {0}
    PROVE  /\ x \div n \in Nat /\ x % n \in 0 .. n - 1
           /\ x = (x \div n) * n + (x % n)
  OBVIOUS

LEMMA ProductMonotone ==
    ASSUME NEW a \in Nat, NEW b \in Nat, NEW n \in Nat, a <= b
    PROVE  a * n <= b * n
  OBVIOUS

(* An index of a product of two counts, row after row.                     *)
LEMMA RowFacts ==
    ASSUME NEW rows \in Nat, NEW n \in Nat \ {0}, NEW i \in 1 .. rows * n
    PROVE  1 + ((i - 1) \div n) \in 1 .. rows /\ 1 + ((i - 1) % n) \in 1 .. n
<1> DEFINE q == (i - 1) \div n
           r == (i - 1) % n
<1>1. i \in Nat /\ i - 1 \in Nat /\ i <= rows * n
  <2>1. rows * n \in Nat
    OBVIOUS
  <2>2. QED
    BY <2>1
<1>2. q \in Nat /\ r \in 0 .. n - 1 /\ i - 1 = q * n + r
  BY <1>1, DivMod
<1> HIDE DEF q, r
<1>3. ASSUME ~(q < rows) PROVE FALSE
  <2>1. rows <= q
    BY <1>2, <1>3
  <2>2. rows * n <= q * n
    BY <1>2, <2>1, ProductMonotone
  <2>3. rows * n \in Nat /\ q * n \in Nat
    BY <1>2
  <2>4. QED
    BY <1>1, <1>2, <2>2, <2>3
<1>4. 1 + q \in 1 .. rows /\ 1 + r \in 1 .. n
  BY <1>2, <1>3
<1>5. QED
  BY <1>4 DEF q, r

(* split_range: at least one batch of whole numbers.                       *)
LEMMA SplitFacts ==
    ASSUME NEW total \in Nat \ {0}, NEW size \in Nat \ {0}
    PROVE  /\ Len(Manifests!SplitRange(total, size)) \in Nat \ {0}
           /\ \A i \in 1 .. Len(Manifests!SplitRange(total, size)) :
                 /\ Manifests!SplitRange(total, size)[i].start \in Int
                 /\ Manifests!SplitRange(total, size)[i].count \in Int
<1> DEFINE n == (total + size - 1) \div size
<1>1. n \in Nat \ {0}
  <2>1. total + size - 1 \in Nat /\ size <= total + size - 1
    OBVIOUS
  <2>2. n \in Nat /\ (total + size - 1) % size \in 0 .. size - 1
        /\ total + size - 1 = n * size + ((total + size - 1) % size)
    BY <2>1, DivMod
  <2>3. n # 0
    <3> HIDE DEF n
    <3>1. ASSUME n = 0 PROVE FALSE
      <4>1. n * size = 0
        BY <3>1
      <4>2. QED
        BY <2>1, <2>2, <4>1
    <3>2. QED
      BY <3>1
  <2>4. QED
    BY <2>2, <2>3
<1> HIDE DEF n
<1>2. Manifests!SplitRange(total, size) =
         [i \in 1 .. n |-> [start |-> (i - 1) * size,
                            count |-> IF i * size <= total THEN size ELSE total - (i - 1) * size]]
  BY DEF Manifests!SplitRange, n
<1>3. Len(Manifests!SplitRange(total, size)) = n
  BY <1>1, <1>2
<1>4. ASSUME NEW i \in 1 .. n
      PROVE  /\ Manifests!SplitRange(total, size)[i].start \in Int
             /\ Manifests!SplitRange(total, size)[i].count \in Int
  <2>1. (i - 1) * size \in Int /\ total - (i - 1) * size \in Int
    BY <1>1, <1>4
  <2>2. QED
    BY <1>2, <1>4, <2>1
<1>5. QED
  BY <1>1, <1>3, <1>4

(* build_task_inputs: every task has the key and the manifest of its row.  *)
LEMMA InputsFacts ==
    ASSUME Manifests!ManifestAssumption, NEW c \in Commands, NEW known, NEW cached \in Seq(known),
           Len(cached) = Len(c.keys),
           \A i \in 1 .. Len(cached) : Manifests!Valid(cached[i], c.keys[i], c.total)
    PROVE  /\ Len(Manifests!Inputs(c, cached)) \in Nat \ {0}
           /\ \A i \in 1 .. Len(Manifests!Inputs(c, cached)) :
                 /\ Fields(Manifests!Inputs(c, cached)[i]) /\ Named(Manifests!Inputs(c, cached)[i], known)
<1>1. /\ c.keys \in Seq(Keys) /\ c.keys # <<>> /\ c.total \in Nat \ {0} /\ c.batch \in Nat \ {0}
  BY DEF Manifests!ManifestAssumption
<1> DEFINE batches == Manifests!SplitRange(c.total, c.batch)
           n       == Len(batches)
           tasks   == Len(c.keys) * n
           at(i)   == 1 + ((i - 1) \div n)
           in(i)   == 1 + ((i - 1) % n)
           units   == Len(c.keys) * Manifests!Units(batches)
           input(i) == [key |-> c.keys[at(i)], manifest |-> cached[at(i)], total |-> c.total,
                        start |-> batches[in(i)].start, count |-> batches[in(i)].count,
                        tasks |-> tasks, units |-> units, status |-> "pending"]
<1>2. Manifests!Inputs(c, cached) = [i \in 1 .. tasks |-> input(i)]
  BY DEF Manifests!Inputs
<1>3. n \in Nat \ {0} /\ \A i \in 1 .. n : batches[i].start \in Int /\ batches[i].count \in Int
  BY <1>1, SplitFacts
<1> HIDE DEF batches, n, units
<1>4. Len(c.keys) \in Nat \ {0} /\ tasks \in Nat \ {0}
  <2>1. Len(c.keys) \in Nat \ {0}
    BY <1>1
  <2> DEFINE k == Len(c.keys)
  <2>2. k \in Nat \ {0}
    BY <2>1
  <2> HIDE DEF k
  <2>3. k * n \in Nat /\ k * n # 0
    BY <1>3, <2>2
  <2>4. QED
    BY <2>1, <2>3 DEF k
<1>5. ASSUME NEW i \in 1 .. tasks
      PROVE  Fields(input(i)) /\ Named(input(i), known)
  <2>1. at(i) \in 1 .. Len(c.keys) /\ in(i) \in 1 .. n
    BY <1>3, <1>4, <1>5, RowFacts
  <2>2. /\ c.keys[at(i)] \in Keys /\ cached[at(i)] \in known
        /\ Manifests!Valid(cached[at(i)], c.keys[at(i)], c.total)
        /\ batches[in(i)].start \in Int /\ batches[in(i)].count \in Int
    BY <1>1, <1>3, <2>1, SMTT(30)
  <2> HIDE DEF at, in, tasks
  <2>3. QED
    BY <1>1, <1>4, <2>2 DEF Fields, Named
<1>6. Len(Manifests!Inputs(c, cached)) = tasks
  <2> HIDE DEF tasks, input
  <2>1. QED
    BY <1>2, <1>4
<1>7. ASSUME NEW i \in 1 .. tasks PROVE Manifests!Inputs(c, cached)[i] = input(i)
  <2> HIDE DEF tasks, input
  <2>1. QED
    BY <1>2, <1>7
<1>8. QED
  <2> HIDE DEF tasks, input
  <2>1. QED
    BY <1>4, <1>5, <1>6, <1>7
-----------------------------------------------------------------------------
LEMMA ManifestInit == Manifests!Init => ManifestInv
<1> SUFFICES ASSUME Manifests!Init PROVE ManifestInv
  OBVIOUS
<1>1. /\ stored = {} /\ index = [k \in Keys |-> None]
      /\ builder = [b \in Builders |-> [pc |-> "idle", job |-> None, built |-> None]]
  BY DEF Manifests!Init, Manifests!Idle
<1>2. StoreInv
  BY <1>1 DEF StoreInv
<1>3. submitter = [pc |-> "off", command |-> None, cached |-> <<>>, next |-> 0]
  BY DEF Manifests!Init, Manifests!NoCmd
<1>4. SubmitterInv
  BY <1>3 DEF SubmitterInv
<1>5. task = <<>> /\ summary = [pc |-> "off", cursor |-> 0, listed |-> <<>>]
  BY DEF Manifests!Init, Manifests!NoTasks, Manifests!Quiet
<1>6. TasksInv
  BY <1>5 DEF TasksInv
<1>7. SummaryInv
  BY <1>5 DEF SummaryInv
<1>8. QED
  BY <1>2, <1>4, <1>6, <1>7 DEF ManifestInv

(* What is stored stays: what was resolved and submitted stays stored.     *)
LEMMA StoredStays ==
    ASSUME SubmitterInv, TasksInv, stored \subseteq stored', UNCHANGED <<submitter, task>>
    PROVE  SubmitterInv' /\ TasksInv'
<1>1. \A s : s \in Seq(stored) => s \in Seq(stored')
  OBVIOUS
<1>2. submitter.cached \in Seq(stored')
  BY <1>1 DEF SubmitterInv
<1>3. submitter' = submitter
  OBVIOUS
<1>4. SubmitterInv'
  BY <1>2, <1>3 DEF SubmitterInv
<1>5. TasksInv'
  BY DEF TasksInv, Named
<1>6. QED
  BY <1>4, <1>5

LEMMA BuildStep ==
    ASSUME Manifests!ManifestAssumption, ManifestInv, NEW b \in Builders,
           \/ \E job \in Manifests!Jobs : Manifests!Claim(b, job)
           \/ Manifests!Look(b) \/ Manifests!Publish(b) \/ Manifests!BuilderDies(b)
           \/ \E c \in Manifests!Contents : Manifests!Generate(b, c)
    PROVE  ManifestInv'
<1>1. /\ StoreInv /\ SubmitterInv /\ TasksInv /\ SummaryInv
      /\ UNCHANGED <<submitter, task, summary>>
  BY
     DEF ManifestInv, Manifests!Claim, Manifests!Look, Manifests!Publish, Manifests!BuilderDies,
         Manifests!Generate
<1>2. SummaryInv'
  BY <1>1 DEF SummaryInv
<1> DEFINE At == [pc : {"idle", "look", "build", "content", "index"},
                  job : Manifests!Jobs \cup {None}, built : Manifests!Contents \cup {None}]
<1>3. Manifests!Idle \in At /\ Manifests!Idle.pc = "idle"
  BY DEF Manifests!Idle
<1>4. builder \in [Builders -> At] /\ builder[b] \in At
  BY <1>1 DEF StoreInv
<1>5. stored \subseteq stored' /\ StoreInv'
  <2>1. ASSUME NEW state \in At, state.pc # "index", builder' = [builder EXCEPT ![b] = state],
               UNCHANGED <<stored, index>>
        PROVE  stored \subseteq stored' /\ StoreInv'
    <3>1. builder' \in [Builders -> At]
      BY <1>4, <2>1
    <3>2. \A a \in Builders : builder'[a].pc = "index" => builder'[a] = builder[a]
      BY <1>4, <2>1
    <3>3. QED
      BY <1>1, <2>1, <3>1, <3>2 DEF StoreInv
  <2>2. CASE \E job \in Manifests!Jobs : Manifests!Claim(b, job)
    <3>1. PICK job \in Manifests!Jobs : Manifests!Claim(b, job)
      BY <2>2
    <3> DEFINE state == [Manifests!Idle EXCEPT !.pc = "look", !.job = job]
    <3>2. state \in At /\ state.pc # "index"
      BY DEF Manifests!Idle
    <3>3. builder' = [builder EXCEPT ![b] = state] /\ UNCHANGED <<stored, index>>
      BY <3>1 DEF Manifests!Claim, Manifests!Goto, Manifests!storeVars
    <3> HIDE DEF state, At
    <3>4. QED
      BY <2>1, <3>2, <3>3
  <2>3. CASE Manifests!Look(b)
    <3> DEFINE state == [builder[b] EXCEPT !.pc = "build"]
    <3>1. UNCHANGED <<stored, index>>
          /\ (builder' = [builder EXCEPT ![b] = Manifests!Idle] \/ builder' = [builder EXCEPT ![b] = state])
      BY <2>3 DEF Manifests!Look, Manifests!Goto, Manifests!storeVars
    <3>2. state \in At /\ state.pc # "index"
      BY <1>4
    <3> HIDE DEF state, At
    <3>3. QED
      BY <1>3, <2>1, <3>1, <3>2
  <2>4. CASE \E c \in Manifests!Contents : Manifests!Generate(b, c)
    <3>1. PICK c \in Manifests!Contents : Manifests!Generate(b, c)
      BY <2>4
    <3> DEFINE state == [builder[b] EXCEPT !.pc = "content", !.built = c]
    <3>2. UNCHANGED <<stored, index>>
          /\ (builder' = [builder EXCEPT ![b] = Manifests!Idle] \/ builder' = [builder EXCEPT ![b] = state])
      BY <3>1 DEF Manifests!Generate, Manifests!Goto, Manifests!storeVars
    <3>3. state \in At /\ state.pc # "index"
      BY <1>4
    <3> HIDE DEF state, At
    <3>4. QED
      BY <1>3, <2>1, <3>2, <3>3
  <2>5. CASE Manifests!BuilderDies(b)
    <3>1. UNCHANGED <<stored, index>> /\ builder' = [builder EXCEPT ![b] = Manifests!Idle]
      BY <2>5 DEF Manifests!BuilderDies, Manifests!Goto, Manifests!storeVars
    <3> HIDE DEF At
    <3>2. QED
      BY <1>3, <2>1, <3>1
  <2>6. CASE Manifests!Publish(b) /\ builder[b].pc = "content"
    <3> DEFINE state == [builder[b] EXCEPT !.pc = "index"]
    <3>1. /\ stored' = stored \cup {builder[b].built} /\ index' = index
          /\ builder' = [builder EXCEPT ![b] = state]
      BY <2>6 DEF Manifests!Publish, Manifests!Goto
    <3>2. state \in At /\ state.built = builder[b].built
      BY <1>4
    <3>3. builder' \in [Builders -> At]
      BY <1>4, <3>1, <3>2
    <3>4. \A a \in Builders : builder'[a].pc = "index" => builder'[a].built \in stored'
      <4> HIDE DEF state
      <4>1. QED
        BY <1>1, <1>4, <3>1, <3>2 DEF StoreInv
    <3>5. index' \in [Keys -> stored' \cup {None}]
      BY <1>1, <3>1 DEF StoreInv
    <3>6. QED
      BY <3>1, <3>3, <3>4, <3>5 DEF StoreInv
  <2>7. CASE Manifests!Publish(b) /\ builder[b].pc = "index"
    <3>1. /\ stored' = stored /\ index' = [index EXCEPT ![builder[b].job.key] = builder[b].built]
          /\ builder' = [builder EXCEPT ![b] = Manifests!Idle]
      BY <2>7 DEF Manifests!Publish, Manifests!Goto
    <3>2. builder[b].built \in stored
      BY <1>1, <2>7 DEF StoreInv
    <3>3. index' \in [Keys -> stored' \cup {None}]
      BY <1>1, <3>1, <3>2 DEF StoreInv
    <3>4. builder' \in [Builders -> At]
      BY <1>3, <1>4, <3>1
    <3>5. \A a \in Builders : builder'[a].pc = "index" => builder'[a] = builder[a]
      BY <1>3, <1>4, <3>1
    <3>6. QED
      BY <1>1, <3>1, <3>3, <3>4, <3>5 DEF StoreInv
  <2>8. QED
    BY <2>2, <2>3, <2>4, <2>5, <2>6, <2>7 DEF Manifests!Publish
<1>6. QED
  BY <1>1, <1>2, <1>5, StoredStays DEF ManifestInv

LEMMA SubmitStep ==
    ASSUME Manifests!ManifestAssumption, ManifestInv,
           \/ \E c \in Commands : Manifests!Invoke(c)
           \/ Manifests!Resolve \/ Manifests!SubmitTask \/ Manifests!SubmitterDies
    PROVE  ManifestInv'
<1>1. /\ StoreInv /\ SubmitterInv /\ TasksInv /\ SummaryInv
      /\ UNCHANGED <<stored, index, builder, summary>>
  BY DEF ManifestInv, Manifests!Invoke, Manifests!Resolve, Manifests!SubmitTask, Manifests!SubmitterDies,
       Manifests!storeVars
<1>2. SummaryInv' /\ StoreInv'
  BY <1>1 DEF SummaryInv, StoreInv
<1> DEFINE At == [pc : {"off", "resolve", "submit"}, command : Commands \cup {None},
                  cached : Seq(stored), next : Nat]
<1>3. /\ submitter \in At /\ Manifests!NoCmd \in At /\ Manifests!NoCmd.pc = "off"
  BY <1>1 DEF SubmitterInv, Manifests!NoCmd
<1>4. ASSUME submitter' = Manifests!NoCmd PROVE SubmitterInv'
  BY <1>1, <1>3, <1>4 DEF SubmitterInv
<1>5. CASE \E c \in Commands : Manifests!Invoke(c)
  <2>1. PICK c \in Commands : Manifests!Invoke(c)
    BY <1>5
  <2>2. submitter' = [pc |-> "resolve", command |-> c, cached |-> <<>>, next |-> 0] /\ task' = task
    BY <2>1 DEF Manifests!Invoke, Manifests!NoCmd
  <2>3. c.keys # <<>> /\ c.keys \in Seq(Keys)
    BY DEF Manifests!ManifestAssumption
  <2>4. SubmitterInv'
    BY <1>1, <2>2, <2>3 DEF SubmitterInv
  <2>5. QED
    BY <1>1, <1>2, <2>2, <2>4 DEF ManifestInv, TasksInv
<1>6. CASE Manifests!Resolve
  <2> DEFINE k      == submitter.command.keys[Len(submitter.cached) + 1]
             cached == Append(submitter.cached, index[k])
             state  == [submitter EXCEPT !.cached = cached,
                          !.pc = IF Len(cached) = Len(submitter.command.keys) THEN "submit" ELSE "resolve"]
  <2>1. /\ submitter.pc = "resolve" /\ task' = task
        /\ submitter' = IF ~Manifests!Loadable(k) \/ ~Manifests!Valid(index[k], k, submitter.command.total)
                        THEN Manifests!NoCmd ELSE state
    BY <1>6 DEF Manifests!Resolve
  <2>2. /\ submitter.command \in Commands /\ submitter.cached \in Seq(stored) /\ submitter.next = 0
        /\ Len(submitter.cached) < Len(submitter.command.keys)
        /\ submitter.command.keys \in Seq(Keys)
        /\ \A i \in 1 .. Len(submitter.cached) :
              Manifests!Valid(submitter.cached[i], submitter.command.keys[i], submitter.command.total)
    BY <1>1, <2>1 DEF SubmitterInv, Manifests!ManifestAssumption
  <2>3. CASE submitter' = Manifests!NoCmd
    BY <1>1, <1>2, <1>4, <2>1, <2>3 DEF ManifestInv, TasksInv
  <2>4. CASE /\ submitter' = state /\ index[k] \in stored
             /\ Manifests!Valid(index[k], k, submitter.command.total)
    <3>1. /\ cached \in Seq(stored) /\ Len(cached) = Len(submitter.cached) + 1
          /\ \A i \in 1 .. Len(submitter.cached) : cached[i] = submitter.cached[i]
          /\ cached[Len(submitter.cached) + 1] = index[k]
      BY <2>2, <2>4
    <3>2. \A i \in 1 .. Len(cached) :
             Manifests!Valid(cached[i], submitter.command.keys[i], submitter.command.total)
      <4> SUFFICES ASSUME NEW i \in 1 .. Len(cached)
                   PROVE  Manifests!Valid(cached[i], submitter.command.keys[i], submitter.command.total)
        OBVIOUS
      <4>1. CASE i \in 1 .. Len(submitter.cached)
        <5>1. cached[i] = submitter.cached[i]
          BY <3>1, <4>1
        <5>2. Manifests!Valid(submitter.cached[i], submitter.command.keys[i], submitter.command.total)
          BY <2>2, <4>1
        <5> HIDE DEF cached
        <5>3. QED
          BY <5>1, <5>2
      <4>2. CASE i = Len(submitter.cached) + 1
        <5>1. cached[i] = index[k] /\ submitter.command.keys[i] = k
          BY <3>1, <4>2
        <5> HIDE DEF cached, k
        <5>2. QED
          BY <2>4, <5>1
      <4>3. QED
        BY <2>2, <3>1, <4>1, <4>2
    <3>3. /\ submitter'.cached = cached /\ submitter'.command = submitter.command
          /\ submitter'.next = submitter.next
          /\ submitter'.pc = IF Len(cached) = Len(submitter.command.keys) THEN "submit" ELSE "resolve"
          /\ submitter' \in At
      <4> HIDE DEF cached
      <4>1. QED
        BY <1>3, <2>4, <3>1
    <3>4. submitter'.pc = "submit" =>
             submitter'.next < Len(Manifests!Inputs(submitter'.command, submitter'.cached))
      <4>1. SUFFICES ASSUME submitter'.pc = "submit"
                     PROVE  submitter.next < Len(Manifests!Inputs(submitter.command, cached))
        BY <3>3
      <4>2. Len(cached) = Len(submitter.command.keys)
        BY <3>3, <4>1
      <4>3. Len(Manifests!Inputs(submitter.command, cached)) \in Nat \ {0}
        <5> HIDE DEF cached
        <5>1. QED
          BY <2>2, <3>1, <3>2, <4>2, InputsFacts
      <4>4. QED
        BY <2>2, <4>3
    <3>5. SubmitterInv'
      <4> HIDE DEF cached
      <4>1. Len(cached) <= Len(submitter.command.keys) /\ Len(cached) \in Nat
        BY <2>2, <3>1
      <4>2. QED
        BY <1>1, <2>2, <3>1, <3>2, <3>3, <3>4, <4>1 DEF SubmitterInv
    <3>6. QED
      BY <1>1, <1>2, <2>1, <3>5 DEF ManifestInv, TasksInv
  <2>5. QED
    <3> HIDE DEF state
    <3>1. QED
      BY <2>1, <2>3, <2>4 DEF Manifests!Loadable
<1>7. CASE Manifests!SubmitTask
  <2> DEFINE inputs == Manifests!Inputs(submitter.command, submitter.cached)
             i      == submitter.next
             next   == IF i + 1 = Len(inputs) THEN Manifests!NoCmd ELSE [submitter EXCEPT !.next = i + 1]
  <2>1. /\ submitter.pc = "submit" /\ submitter' \in {next, Manifests!NoCmd}
        /\ \/ i \notin DOMAIN task /\ task' = Manifests!Extend(task, i, inputs[i + 1])
           \/ task' = task
    BY <1>7 DEF Manifests!SubmitTask
  <2>2. /\ submitter.command \in Commands /\ submitter.cached \in Seq(stored) /\ i \in Nat
        /\ Len(submitter.cached) = Len(submitter.command.keys) /\ i < Len(inputs)
        /\ \A j \in 1 .. Len(submitter.cached) :
              Manifests!Valid(submitter.cached[j], submitter.command.keys[j], submitter.command.total)
    BY <1>1, <2>1 DEF SubmitterInv
  <2>3. /\ Len(inputs) \in Nat \ {0}
        /\ \A j \in 1 .. Len(inputs) : Fields(inputs[j]) /\ Named(inputs[j], stored)
    BY <2>2, InputsFacts
  <2> HIDE DEF inputs
  <2>4. SubmitterInv'
    <3>1. CASE submitter' = Manifests!NoCmd
      BY <1>4, <3>1
    <3>2. CASE i + 1 # Len(inputs) /\ submitter' = [submitter EXCEPT !.next = i + 1]
      <4>1. /\ submitter'.pc = "submit" /\ submitter'.command = submitter.command
            /\ submitter'.cached = submitter.cached /\ submitter'.next = i + 1
            /\ submitter' \in At
        BY <1>3, <2>1, <2>2, <3>2, SMTT(30)
      <4>2. i + 1 < Len(inputs)
        BY <2>2, <2>3, <3>2
      <4>3. QED
        BY <1>1, <2>2, <4>1, <4>2 DEF SubmitterInv, inputs
    <3>3. QED
      BY <2>1, <3>1, <3>2
  <2>5. TasksInv'
    <3>1. CASE task' = task
      BY <1>1, <3>1 DEF TasksInv
    <3>2. CASE i \notin DOMAIN task /\ task' = Manifests!Extend(task, i, inputs[i + 1])
      <4>1. i + 1 \in 1 .. Len(inputs)
        BY <2>2, <2>3
      <4>2. Fields(inputs[i + 1]) /\ Named(inputs[i + 1], stored)
        BY <2>3, <4>1
      <4>3. task' = [j \in DOMAIN task \cup {i} |-> IF j = i THEN inputs[i + 1] ELSE task[j]]
        BY <3>2 DEF Manifests!Extend
      <4>4. /\ task' = [j \in DOMAIN task' |-> task'[j]]
            /\ \A j \in DOMAIN task' : task'[j] = inputs[i + 1] \/ (j \in DOMAIN task /\ task'[j] = task[j])
        BY <4>3
      <4>5. \A j \in DOMAIN task' : Fields(task'[j]) /\ Named(task'[j], stored)
        BY <1>1, <4>2, <4>4, Zenon DEF TasksInv
      <4>6. QED
        BY <1>1, <4>4, <4>5 DEF TasksInv
    <3>3. QED
      BY <2>1, <3>1, <3>2
  <2>6. QED
    BY <1>2, <2>4, <2>5 DEF ManifestInv
<1>8. CASE Manifests!SubmitterDies
  BY <1>1, <1>2, <1>4, <1>8 DEF Manifests!SubmitterDies, ManifestInv, TasksInv
<1>9. QED
  BY <1>5, <1>6, <1>7, <1>8

LEMMA EvaluateStep ==
    ASSUME ManifestInv, NEW i \in DOMAIN task, Manifests!Evaluate(i)
    PROVE  ManifestInv'
<1>1. /\ StoreInv /\ SubmitterInv /\ TasksInv /\ SummaryInv
      /\ UNCHANGED <<stored, index, builder, submitter, summary>>
      /\ task' = [task EXCEPT ![i].status = "succeeded"]
  BY DEF ManifestInv, Manifests!Evaluate, Manifests!storeVars
<1>2. Fields(task[i]) /\ Named(task[i], stored)
  BY <1>1 DEF TasksInv
<1> DEFINE t == [task[i] EXCEPT !.status = "succeeded"]
<1>3. Fields(t) /\ Named(t, stored)
  <2>1. t = [key |-> task[i].key, manifest |-> task[i].manifest, total |-> task[i].total,
             start |-> task[i].start, count |-> task[i].count, tasks |-> task[i].tasks,
             units |-> task[i].units, status |-> "succeeded"]
    BY <1>2 DEF Fields
  <2> HIDE DEF t
  <2>2. QED
    BY <1>2, <2>1 DEF Fields, Named
<1>4. task' = [j \in DOMAIN task |-> IF j = i THEN t ELSE task[j]]
  BY <1>1 DEF TasksInv
<1> HIDE DEF t
<1>5. TasksInv'
  <2>1. /\ task' = [j \in DOMAIN task' |-> task'[j]]
        /\ \A j \in DOMAIN task' : task'[j] = t \/ (j \in DOMAIN task /\ task'[j] = task[j])
    BY <1>4
  <2>2. \A j \in DOMAIN task' : Fields(task'[j]) /\ Named(task'[j], stored)
    BY <1>1, <1>3, <2>1, Zenon DEF TasksInv
  <2>3. QED
    BY <1>1, <2>1, <2>2 DEF TasksInv
<1>6. QED
  BY <1>1, <1>5 DEF ManifestInv, StoreInv, SubmitterInv, SummaryInv

LEMMA SummaryStep ==
    ASSUME ManifestInv, Manifests!Summarize \/ Manifests!ListPage \/ Manifests!Report
    PROVE  ManifestInv'
<1>1. /\ StoreInv /\ SubmitterInv /\ TasksInv /\ SummaryInv
      /\ UNCHANGED <<stored, index, builder, submitter, task>>
  BY DEF ManifestInv, Manifests!Summarize, Manifests!ListPage, Manifests!Report, Manifests!storeVars
<1>2. StoreInv' /\ SubmitterInv' /\ TasksInv'
  BY <1>1 DEF StoreInv, SubmitterInv, TasksInv
<1>3. ASSUME NEW p \in {"off", "list"}, NEW c, summary' = [pc |-> p, cursor |-> c, listed |-> <<>>]
      PROVE  SummaryInv'
  BY <1>3 DEF SummaryInv
<1>4. CASE Manifests!Summarize \/ Manifests!Report
  <2>1. \/ summary' = [pc |-> "off", cursor |-> 0, listed |-> <<>>]
        \/ summary' = [pc |-> "list", cursor |-> 0, listed |-> <<>>]
    BY <1>4 DEF Manifests!Summarize, Manifests!Report, Manifests!Quiet, Manifests!NoTasks
  <2>2. QED
    BY <1>2, <1>3, <2>1 DEF ManifestInv
<1>5. CASE Manifests!ListPage
  <2> DEFINE rest   == {i \in DOMAIN task : i >= summary.cursor}
             page   == {i \in rest : Manifests!Cardinality({j \in rest : j < i}) < PageSize}
             listed == [i \in DOMAIN summary.listed \cup page |->
                          IF i \in page THEN task[i] ELSE summary.listed[i]]
             cursor == 1 + CHOOSE i \in page : \A j \in page : j <= i
  <2>1. \/ summary' = [pc |-> "list", listed |-> listed, cursor |-> cursor]
        \/ /\ Manifests!ValidCoverage(listed)
           /\ summary' = [pc |-> "accepted", listed |-> listed, cursor |-> 0]
        \/ summary' = [pc |-> "off", cursor |-> 0, listed |-> <<>>]
    BY <1>5 DEF Manifests!ListPage, Manifests!Quiet, Manifests!NoTasks
  <2>2. page \subseteq DOMAIN task
    OBVIOUS
  <2> HIDE DEF page, cursor
  <2>3. \A i \in DOMAIN listed : \/ i \in DOMAIN task /\ listed[i] = task[i]
                                 \/ i \in DOMAIN summary.listed /\ listed[i] = summary.listed[i]
    BY <2>2
  <2> HIDE DEF listed
  <2>4. \A i \in DOMAIN listed : Fields(listed[i])
    BY <1>1, <2>3, Zenon DEF TasksInv, SummaryInv
  <2>5. SummaryInv'
    <3>1. CASE summary' = [pc |-> "list", listed |-> listed, cursor |-> cursor]
      BY <2>4, <3>1 DEF SummaryInv
    <3>2. CASE /\ Manifests!ValidCoverage(listed)
               /\ summary' = [pc |-> "accepted", listed |-> listed, cursor |-> 0]
      BY <2>4, <3>2 DEF SummaryInv
    <3>3. CASE summary' = [pc |-> "off", cursor |-> 0, listed |-> <<>>]
      BY <1>3, <3>3
    <3>4. QED
      BY <2>1, <3>1, <3>2, <3>3
  <2>6. QED
    BY <1>2, <2>5 DEF ManifestInv
<1>6. QED
  BY <1>4, <1>5

LEMMA ManifestStep ==
    ASSUME Manifests!ManifestAssumption, ManifestInv, [Manifests!Next]_(Manifests!vars)
    PROVE  ManifestInv'
<1>1. CASE UNCHANGED Manifests!vars
  BY <1>1 DEF Manifests!vars, Manifests!storeVars, ManifestInv, StoreInv, SubmitterInv, TasksInv, SummaryInv
<1>2. CASE Manifests!Next
  <2>1. \/ \E b \in Builders :
              \/ \E job \in Manifests!Jobs : Manifests!Claim(b, job)
              \/ Manifests!Look(b) \/ Manifests!Publish(b) \/ Manifests!BuilderDies(b)
              \/ \E c \in Manifests!Contents : Manifests!Generate(b, c)
        \/ \E c \in Commands : Manifests!Invoke(c)
        \/ Manifests!Resolve \/ Manifests!SubmitTask \/ Manifests!SubmitterDies
        \/ \E i \in DOMAIN task : Manifests!Evaluate(i)
        \/ Manifests!Summarize \/ Manifests!ListPage \/ Manifests!Report
    BY <1>2 DEF Manifests!Next
  <2>2. QED
    BY <2>1, BuildStep, SubmitStep, EvaluateStep, SummaryStep
<1>3. QED
  BY <1>1, <1>2

LEMMA ManifestImplies == ManifestInv => Manifests!Replayable
  BY DEF ManifestInv, StoreInv, TasksInv, Named, Manifests!Replayable, Manifests!Loadable
-----------------------------------------------------------------------------
LEMMA LeastOf ==
    ASSUME NEW S \in SUBSET Nat, S # {}
    PROVE  \E x \in S : \A y \in S : x <= y
<1> DEFINE R == {ss \in Nat \X Nat : ss[1] < ss[2]}
<1>1. R = OpToRel(<, Nat)
  BY DEF OpToRel
<1>2. IsWellFoundedOn(R, Nat)
  BY <1>1, NatLessThanWellFounded
<1> HIDE DEF R
<1>3. PICK x \in S : \A y \in S : <<y, x>> \notin R
  BY <1>2, WFMin
<1>4. ASSUME NEW y \in S PROVE x <= y
  <2>1. <<y, x>> \in Nat \X Nat /\ <<y, x>>[1] = y /\ <<y, x>>[2] = x
    OBVIOUS
  <2>2. ~(y < x)
    BY <1>3, <2>1 DEF R
  <2>3. QED
    BY <2>2
<1>5. QED
  BY <1>4

(* Ranges laid end to end: what one of them begins no earlier one reaches. *)
LEMMA ChainOrder ==
    ASSUME NEW N \in Nat, NEW from \in [1 .. N -> Int], NEW to \in [1 .. N -> Int],
           \A n \in 1 .. N : from[n] < to[n],
           \A n \in 1 .. N : n > 1 => from[n] = to[n - 1],
           NEW m \in 1 .. N, NEW n \in 1 .. N, m < n
    PROVE  to[m] <= from[n]
<1> DEFINE Bad == {k \in 1 .. N : m < k /\ ~(to[m] <= from[k])}
<1>1. ASSUME Bad # {} PROVE FALSE
  <2>1. PICK k \in Bad : \A j \in Bad : k <= j
    <3>1. Bad \in SUBSET Nat
      OBVIOUS
    <3>2. QED
      BY <1>1, <3>1, LeastOf
  <2>2. k \in 1 .. N /\ m < k /\ ~(to[m] <= from[k]) /\ m \in 1 .. N
    BY <2>1
  <2>3. k > 1 /\ k - 1 \in 1 .. N /\ from[k] = to[k - 1]
    BY <2>2
  <2>4. CASE k - 1 = m
    BY <2>2, <2>3, <2>4
  <2>5. CASE m < k - 1
    <3>1. k - 1 \notin Bad
      BY <2>1, <2>3
    <3>2. to[m] <= from[k - 1]
      BY <2>3, <2>5, <3>1
    <3>3. from[k - 1] < to[k - 1] /\ to[m] \in Int /\ from[k - 1] \in Int /\ to[k - 1] \in Int
      BY <2>3
    <3>4. QED
      BY <2>2, <2>3, <3>2, <3>3
  <2>6. QED
    BY <2>2, <2>4, <2>5
<1>2. n \notin Bad
  BY <1>1
<1>3. QED
  BY <1>2

LEMMA SameCardinality == ASSUME NEW S PROVE Manifests!Cardinality(S) = Cardinality(S)
  BY DEF Cardinality, Manifests!Cardinality

(* validate_submission_coverage: when it accepts, each trial of a key lies *)
(* in one range and in no other.                                           *)
LEMMA Coverage ==
    ASSUME NEW tasks, \A i \in DOMAIN tasks : Fields(tasks[i]), Manifests!ValidCoverage(tasks),
           NEW i \in DOMAIN tasks, NEW trial \in 0 .. tasks[i].total - 1
    PROVE  Manifests!Cardinality({j \in Manifests!Ranges(tasks, tasks[i].key) :
                                    /\ tasks[j].start <= trial
                                    /\ trial < tasks[j].start + tasks[j].count}) = 1
<1> DEFINE k == tasks[i].key
           R == Manifests!Ranges(tasks, k)
           N == Manifests!Cardinality(R)
<1>1. k \in Keys /\ R = {j \in DOMAIN tasks : tasks[j].key = k} /\ i \in R
  BY DEF Fields, Manifests!Ranges
<1>2. N \in Nat
  <2>1. PICK j \in DOMAIN tasks : DOMAIN tasks = 0 .. tasks[j].tasks - 1
    BY DEF Manifests!ValidCoverage, Manifests!Complete
  <2>2. tasks[j].tasks - 1 \in Int
    BY DEF Fields
  <2>3. IsFiniteSet(DOMAIN tasks)
    <3> DEFINE last == tasks[j].tasks - 1
    <3>1. last \in Int /\ 0 \in Int
      BY <2>2
    <3> HIDE DEF last
    <3>2. IsFiniteSet(0 .. last)
      BY <3>1, FS_Interval
    <3>3. QED
      BY <2>1, <3>2 DEF last
  <2>4. IsFiniteSet(R)
    BY <1>1, <2>3, FS_Subset
  <2>5. QED
    BY <2>4, FS_CardinalityType, SameCardinality
<1> DEFINE end(ranges, n) == IF n = 0 THEN 0 ELSE tasks[ranges[n]].start + tasks[ranges[n]].count
<1>3. PICK ranges \in Manifests!Sorted(tasks, k) :
         \A n \in DOMAIN ranges : /\ tasks[ranges[n]].start = end(ranges, n - 1)
                                  /\ tasks[ranges[n]].total = end(ranges, N)
  BY <1>1 DEF Manifests!ValidCoverage
<1>4. ranges \in [1 .. N -> R] /\ \A j \in R : \E n \in 1 .. N : ranges[n] = j
  BY <1>3 DEF Manifests!Sorted, Manifests!Bijection, Manifests!Injection, Manifests!Surjection
<1> DEFINE from == [n \in 1 .. N |-> tasks[ranges[n]].start]
           to   == [n \in 1 .. N |-> tasks[ranges[n]].start + tasks[ranges[n]].count]
<1>5. \A n \in 1 .. N :
         /\ ranges[n] \in DOMAIN tasks /\ ranges[n] \in R
         /\ tasks[ranges[n]].start \in Int /\ tasks[ranges[n]].count \in Int
         /\ tasks[ranges[n]].count > 0
         /\ from[n] = tasks[ranges[n]].start
         /\ to[n] = tasks[ranges[n]].start + tasks[ranges[n]].count
  <2> SUFFICES ASSUME NEW n \in 1 .. N
               PROVE  /\ ranges[n] \in DOMAIN tasks /\ ranges[n] \in R
                      /\ tasks[ranges[n]].start \in Int /\ tasks[ranges[n]].count \in Int
                      /\ tasks[ranges[n]].count > 0
    BY Zenon
  <2>1. ranges[n] \in R /\ ranges[n] \in DOMAIN tasks
    BY <1>1, <1>4
  <2>2. QED
    BY <2>1 DEF Fields, Manifests!ValidCoverage
<1>6. /\ from \in [1 .. N -> Int] /\ to \in [1 .. N -> Int]
      /\ \A n \in 1 .. N : from[n] < to[n]
  BY <1>5
<1>7. PICK n0 \in 1 .. N : ranges[n0] = i
  BY <1>1, <1>4
<1>8. N \in 1 .. N
  BY <1>2, <1>7
<1>9. trial \in Int /\ 0 <= trial /\ trial < to[N]
  <2>1. tasks[i].total = end(ranges, N)
    BY <1>3, <1>4, <1>7
  <2>2. N # 0
    BY <1>8
  <2>3. tasks[i].total = to[N]
    BY <1>5, <1>8, <2>1, <2>2
  <2>4. tasks[i].total \in Nat
    BY DEF Fields
  <2>5. QED
    BY <2>3, <2>4
<1>10. \A n \in 1 .. N : from[n] = IF n = 1 THEN 0 ELSE to[n - 1]
  <2> SUFFICES ASSUME NEW n \in 1 .. N
               PROVE  from[n] = IF n = 1 THEN 0 ELSE to[n - 1]
    BY Zenon
  <2>1. from[n] = end(ranges, n - 1)
    BY <1>3, <1>4, <1>5
  <2>2. n # 1 => n - 1 \in 1 .. N /\ n - 1 # 0
    BY <1>2
  <2>3. n # 1 => end(ranges, n - 1) = to[n - 1]
    BY <1>5, <2>2
  <2>4. QED
    BY <2>1, <2>3
<1> HIDE DEF R, N, k, from, to
<1>11. PICK n \in 1 .. N : from[n] <= trial /\ trial < to[n]
  <2> DEFINE Past == {n \in 1 .. N : trial < to[n]}
  <2>1. Past \in SUBSET Nat /\ Past # {}
    BY <1>8, <1>9
  <2>2. PICK n \in Past : \A m \in Past : n <= m
    BY <2>1, LeastOf
  <2>3. n \in 1 .. N /\ trial < to[n]
    BY <2>2
  <2>4. CASE n = 1
    BY <1>9, <1>10, <2>3, <2>4
  <2>5. CASE n # 1
    <3>1. n - 1 \in 1 .. N /\ n - 1 \notin Past
      BY <1>2, <2>2, <2>3, <2>5
    <3>2. to[n - 1] <= trial
      BY <1>6, <1>9, <3>1
    <3>3. QED
      BY <1>10, <2>3, <2>5, <3>2
  <2>6. QED
    BY <2>4, <2>5
<1>12. ASSUME NEW m \in 1 .. N, from[m] <= trial, trial < to[m]
       PROVE  m = n
  <2>1. \A x \in 1 .. N : x > 1 => from[x] = to[x - 1]
    BY <1>10
  <2>2. from[m] \in Int /\ to[m] \in Int /\ from[n] \in Int /\ to[n] \in Int
    BY <1>6
  <2>3. ~(m < n)
    <3>1. m < n => to[m] <= from[n]
      BY <1>2, <1>6, <2>1, ChainOrder
    <3>2. QED
      BY <1>9, <1>11, <1>12, <2>2, <3>1
  <2>4. ~(n < m)
    <3>1. n < m => to[n] <= from[m]
      BY <1>2, <1>6, <2>1, ChainOrder
    <3>2. QED
      BY <1>9, <1>11, <1>12, <2>2, <3>1
  <2>5. QED
    BY <2>3, <2>4
<1> DEFINE Holds == {j \in R : tasks[j].start <= trial /\ trial < tasks[j].start + tasks[j].count}
<1>13. Holds = {ranges[n]}
  <2>1. ranges[n] \in Holds
    BY <1>5, <1>11
  <2>2. ASSUME NEW j \in Holds PROVE j = ranges[n]
    <3>1. PICK m \in 1 .. N : ranges[m] = j
      BY <1>4
    <3>2. from[m] <= trial /\ trial < to[m]
      BY <1>5, <3>1
    <3>3. QED
      BY <1>12, <3>1, <3>2
  <2> HIDE DEF Holds
  <2>3. QED
    BY <2>1, <2>2
<1>14. Manifests!Cardinality(Holds) = 1
  <2> HIDE DEF Holds
  <2>1. Cardinality(Holds) = 1
    BY <1>13, FS_Singleton
  <2>2. QED
    BY <2>1, SameCardinality
<1>15. QED
  BY <1>14 DEF R, k

LEMMA ManifestCovers == ManifestInv => Manifests!AcceptedCoverage
<1> SUFFICES ASSUME ManifestInv, summary.pc = "accepted",
                    NEW i \in DOMAIN summary.listed, NEW trial \in 0 .. summary.listed[i].total - 1
             PROVE  Manifests!Cardinality({j \in Manifests!Ranges(summary.listed, summary.listed[i].key) :
                       /\ summary.listed[j].start <= trial
                       /\ trial < summary.listed[j].start + summary.listed[j].count}) = 1
  BY DEF Manifests!AcceptedCoverage
<1>1. /\ \A j \in DOMAIN summary.listed : Fields(summary.listed[j])
      /\ Manifests!ValidCoverage(summary.listed)
  BY DEF ManifestInv, SummaryInv
<1>2. QED
  BY <1>1, Coverage
-----------------------------------------------------------------------------
Terminating == {"take", "signal", "await"}
Lists == {<<>>, <<"server">>, <<"clients">>, <<"server", "clients">>, <<"clients", "server">>}

(* A process that may run its command yet, or runs it under control.       *)
Able(p)   == \/ p.guardian = "up" /\ p.child = "none"
             \/ p.guardian \in {"up", "stopping"} /\ p.child \in {"loading", "serving", "running"}
Potent(r) == Able(proc[r])

(* What a client that did not finish leaves, and one that did.             *)
Lost(p) == p.child = "exited" \/ (p.child = "none" /\ p.guardian \in {"gone", "killed"})
Done(p) == p.child = "succeeded" /\ p.guardian \in {"gone", "killed"}

(* An outlived guardian is killed, never gone; only servers load and serve *)
(* and only clients run; and only a client whose guardian was killed is    *)
(* ever misled.                                                            *)
Sound(p) ==
    /\ p.guardian = "gone" => p.child \notin {"loading", "serving", "running"}
    /\ p.child = "loading" => p.guardian # "killed"
    /\ p.child \in {"loading", "serving"} => p.kind = "server"
    /\ p.child = "running" => p.kind = "client"
    /\ p.misled /\ p.mine => p.guardian = "killed"
ProcessInv == proc \in [Procs -> Workers!Process] /\ \A r \in Procs : Sound(proc[r])

(* What the worker holds where it is.                                      *)
WorkerTypes ==
    /\ pc \in {"off", "idle", "load", "spawn", "own", "ping", "runClient", "ownClient", "watch", "finish"}
              \cup Terminating
    /\ task \in Models \cup {None} /\ process \in Procs \cup {None} /\ client \in Procs \cup {None}
    /\ identity \in Models \cup {None}
    /\ owned \in [server : SUBSET Procs, clients : SUBSET Procs] /\ snapshot \in SUBSET Procs
    /\ todo \in Lists /\ then \in {"off", "idle", "spawn", "finish"}
    /\ spoiled \in BOOLEAN /\ foreign \in BOOLEAN
HolderInv ==
    /\ pc = "off" => /\ task = None /\ process = None /\ client = None
                     /\ \A r \in Procs : ~proc[r].mine
    /\ process = None => identity = None
    /\ pc \in {"idle", "load", "spawn", "own", "ping", "runClient"} => client = None
    /\ pc \in {"load", "spawn", "own", "ping", "runClient"} => task # None
    /\ pc = "spawn" => process = None
    /\ pc \in {"own", "ping"} =>
          /\ process # None
          /\ Potent(process) => /\ proc[process].kind = "server" /\ proc[process].mine
                                /\ proc[process].model = task
    /\ pc = "runClient" => identity = task
    /\ pc \in {"ownClient", "watch", "finish"} => client # None
TerminatingInv ==
    pc \in Terminating =>
       /\ todo # <<>>
       /\ pc # "take" /\ then # "off" =>
             IF Head(todo) = "server" THEN process = None ELSE owned.clients = {}
       /\ then = "spawn" => todo = <<"server">> /\ client = None /\ task # None
       /\ then = "finish" => todo = <<"clients">> /\ client # None
       /\ then = "idle" => \/ todo = <<"server", "clients">>
                           \/ todo = <<"clients">> /\ process = None

(* A worker that is not on its way out knows every process that is its own *)
(* and may run: it holds it, registered or just started, or is waiting for *)
(* its end.                                                                *)
Leaving == pc \in Terminating /\ then = "off"
OwnersInv ==
    ~Leaving => \A r \in Procs : proc[r].mine /\ Potent(r) =>
       \/ pc \in {"signal", "await"} /\ r \in snapshot
       \/ proc[r].kind = "server" /\ r = process /\ (pc = "own" \/ r \in owned.server)
       \/ proc[r].kind = "client" /\ r = client /\ (pc = "ownClient" \/ r \in owned.clients)

OneInv ==
    \A r, s \in Procs : Potent(r) /\ Potent(s) /\ proc[r].kind = proc[s].kind /\ r # s =>
       proc[r].kind = "server" /\ ~(proc[r].mine /\ proc[s].mine)

(* Once a server of this worker has bound the port, nothing of an earlier  *)
(* worker can run any more, and there is one holder of the port.           *)
Alone == \A r \in Procs : proc[r].mine \/ ~Potent(r)
PortInv ==
    /\ \A r \in Procs : proc[r].mine /\ proc[r].child = "serving" => Alone
    /\ identity # None => Alone
    /\ \A r, s \in Procs : proc[r].child = "serving" /\ proc[s].child = "serving" => r = s
    /\ foreign => \A r \in Procs : proc[r].child # "serving"

(* Whoever answers on the port now or later has the model.                 *)
SettledOn(m) ==
    /\ ~foreign
    /\ \A r \in Procs :
          /\ proc[r].child = "serving" => proc[r].model = m
          /\ proc[r].child # "loading"
          /\ ~(Potent(r) /\ proc[r].kind = "server" /\ proc[r].child = "none")
ModelInv ==
    /\ identity # None => SettledOn(identity)
    /\ \A r \in Procs : proc[r].mine /\ Potent(r) /\ proc[r].kind = "client" => SettledOn(proc[r].model)

(* A client that did not finish is recorded until its server is gone.      *)
FreshInv ==
    /\ pc \in {"own", "ping", "runClient"} => ~spoiled
    /\ pc \in {"idle", "load"} /\ process # None => ~spoiled
    /\ pc \in {"ownClient", "watch"} /\ spoiled => Lost(proc[client])
    /\ pc = "finish" \/ (pc \in Terminating /\ then = "finish") => ~spoiled /\ Done(proc[client])

WorkerInv ==
    /\ ProcessInv /\ WorkerTypes /\ HolderInv /\ TerminatingInv /\ OwnersInv
    /\ OneInv /\ PortInv /\ ModelInv /\ FreshInv
-----------------------------------------------------------------------------
(* A process as time passes: its guardian and its command only get closer  *)
(* to their ends, and a server that loads once could.                      *)
Evolves(p, q) ==
    /\ Able(q) => Able(p) /\ q.kind = p.kind /\ q.mine = p.mine /\ q.model = p.model
    /\ q.child = "serving" => p.child = "serving" /\ q.mine = p.mine /\ q.model = p.model
    /\ q.child = "loading" => p.child = "loading" \/ (Able(p) /\ p.kind = "server" /\ p.child = "none")
    /\ Able(q) /\ q.child = "none" => p.child = "none"
    /\ q.mine => p.mine
    /\ Lost(p) => Lost(q)
    /\ Done(p) => Done(q)
Aged(f) == f \in [Procs -> Workers!Process] /\ \A r \in Procs : Sound(f[r]) /\ Evolves(proc[r], f[r])

LEMMA ProcessFields ==
    ASSUME NEW p \in Workers!Process
    PROVE  /\ p.kind \in {"server", "client"} /\ p.model \in Models
           /\ p.mine \in BOOLEAN /\ p.term \in BOOLEAN /\ p.eof \in BOOLEAN /\ p.misled \in BOOLEAN
           /\ p.guardian \in {"up", "stopping", "gone", "killed"}
           /\ p.child \in {"none", "loading", "serving", "running", "succeeded", "exited", "wedged"}
  BY DEF Workers!Process

LEMMA NothingFacts ==
    ASSUME Workers!WorkerAssumption, NEW c \in {"none", "succeeded"}
    PROVE  [Workers!Nothing EXCEPT !.child = c] \in Workers!Process /\ Workers!Nothing \in Workers!Process
<1>1. (CHOOSE m \in Models : TRUE) \in Models
  <2>1. \E m \in Models : TRUE
    BY DEF Workers!WorkerAssumption
  <2>2. QED
    BY <2>1
<1>2. QED
  BY <1>1 DEF Workers!Nothing, Workers!Process

LEMMA SettleFacts ==
    ASSUME Workers!WorkerAssumption, NEW p \in Workers!Process
    PROVE  LET q    == Workers!Settle(p)
               over == p.guardian \in {"gone", "killed"} /\ p.child \in {"none", "succeeded", "exited"}
           IN  /\ q \in Workers!Process
               /\ ~over => q = p
               /\ over => /\ q.guardian = "gone" /\ q.kind = "client" /\ ~q.mine /\ ~q.misled
                          /\ q.child = IF p.guardian = "gone" /\ p.child = "succeeded"
                                       THEN "succeeded" ELSE "none"
<1> DEFINE c == IF p.guardian = "gone" /\ p.child = "succeeded" THEN "succeeded" ELSE "none"
           over == p.guardian \in {"gone", "killed"} /\ p.child \in {"none", "succeeded", "exited"}
<1>1. Workers!Settle(p) = IF over THEN [Workers!Nothing EXCEPT !.child = c] ELSE p
  BY DEF Workers!Settle
<1>2. c \in {"none", "succeeded"}
  OBVIOUS
<1>3. /\ [Workers!Nothing EXCEPT !.child = c] \in Workers!Process
      /\ [Workers!Nothing EXCEPT !.child = c].child = c
  BY <1>2, NothingFacts DEF Workers!Nothing
<1>4. /\ [Workers!Nothing EXCEPT !.child = c].guardian = "gone"
      /\ [Workers!Nothing EXCEPT !.child = c].kind = "client"
      /\ ~[Workers!Nothing EXCEPT !.child = c].mine /\ ~[Workers!Nothing EXCEPT !.child = c].misled
  BY DEF Workers!Nothing
<1> HIDE DEF c, over
<1>5. /\ Workers!Settle(p) \in Workers!Process
      /\ ~over => Workers!Settle(p) = p
      /\ over => /\ Workers!Settle(p).guardian = "gone" /\ Workers!Settle(p).kind = "client"
                 /\ ~Workers!Settle(p).mine /\ ~Workers!Settle(p).misled /\ Workers!Settle(p).child = c
  BY <1>1, <1>3, <1>4
<1>6. QED
  BY <1>5 DEF c, over

(* Settling what a process has become ages it as well.                     *)
LEMMA SettleKeeps ==
    ASSUME Workers!WorkerAssumption, NEW o \in Workers!Process, NEW p \in Workers!Process,
           Sound(p), Evolves(o, p), ~Done(o)
    PROVE  /\ Workers!Settle(p) \in Workers!Process /\ Sound(Workers!Settle(p))
           /\ Evolves(o, Workers!Settle(p))
<1> DEFINE over == p.guardian \in {"gone", "killed"} /\ p.child \in {"none", "succeeded", "exited"}
           q    == Workers!Settle(p)
<1>1. /\ q \in Workers!Process
      /\ ~over => q = p
      /\ over => /\ q.guardian = "gone" /\ q.kind = "client" /\ ~q.mine /\ ~q.misled
                 /\ q.child = IF p.guardian = "gone" /\ p.child = "succeeded" THEN "succeeded" ELSE "none"
  BY SettleFacts
<1> HIDE DEF q
<1>2. CASE ~over
  BY <1>1, <1>2 DEF q
<1>3. CASE over
  <2>1. Sound(q)
    BY <1>1, <1>3 DEF Sound
  <2>2. ~Able(q) /\ q.child \in {"none", "succeeded"}
    BY <1>1, <1>3 DEF Able
  <2>3. Lost(o) => Lost(q)
    BY <1>1, <1>3 DEF Lost, Evolves
  <2>4. Evolves(o, q)
    BY <1>1, <1>3, <2>2, <2>3 DEF Evolves
  <2>5. QED
    BY <1>1, <2>1, <2>4 DEF q
<1>4. QED
  BY <1>2, <1>3

LEMMA SameAge == \A p : Evolves(p, p)
  BY DEF Evolves

LEMMA PutAges ==
    ASSUME Workers!WorkerAssumption, ProcessInv, NEW r \in Procs, NEW p \in Workers!Process,
           Sound(p), Evolves(proc[r], p), ~Done(proc[r]), Workers!Put(r, p)
    PROVE  Aged(proc')
<1> DEFINE q == Workers!Settle(p)
<1>1. proc[r] \in Workers!Process /\ proc' = [proc EXCEPT ![r] = q]
  BY DEF ProcessInv, Workers!Put
<1>2. q \in Workers!Process /\ Sound(q) /\ Evolves(proc[r], q)
  BY <1>1, SettleKeeps
<1> HIDE DEF q
<1>3. /\ proc' \in [Procs -> Workers!Process] /\ proc'[r] = q
      /\ \A s \in Procs : s # r => proc'[s] = proc[s]
  BY <1>1, <1>2 DEF ProcessInv
<1>4. ASSUME NEW s \in Procs PROVE Sound(proc'[s]) /\ Evolves(proc[s], proc'[s])
  <2>1. CASE s = r
    BY <1>2, <1>3, <2>1
  <2>2. CASE s # r
    BY <1>3, <2>2, SameAge DEF ProcessInv
  <2>3. QED
    BY <2>1, <2>2
<1>5. QED
  BY <1>3, <1>4 DEF Aged

(* What a step outside the worker leaves alone.                            *)
Outside ==
    /\ UNCHANGED <<pc, task, process, identity, client, owned, todo, then, snapshot>>
    /\ foreign' \in BOOLEAN /\ (foreign' => foreign)
    /\ spoiled' \in BOOLEAN
    /\ spoiled' /\ ~spoiled => client # None /\ Lost(proc'[client]) /\ ~Done(proc[client])

LEMMA SetFacts ==
    ASSUME WorkerTypes, NEW r \in Procs, NEW p,
           \/ Workers!Set(r, p)
           \/ Workers!Put(r, p) /\ UNCHANGED <<Workers!workerVars, spoiled, foreign>>
    PROVE  Workers!Put(r, p) /\ Outside
  BY
     DEF Workers!Set, Workers!workerVars, Workers!serverVars, Workers!callVars, Workers!envVars, Outside,
         WorkerTypes

LEMMA GuardianStep ==
    ASSUME Workers!WorkerAssumption, WorkerInv, NEW r \in Procs,
           Workers!Guardian(r) \/ Workers!ChildWedges(r) \/ Workers!GuardianKilled(r)
    PROVE  Aged(proc') /\ Outside
<1> DEFINE o == proc[r]
<1>1. ProcessInv /\ WorkerTypes /\ o \in Workers!Process /\ Sound(o)
  BY DEF WorkerInv, ProcessInv
<1>2. /\ o.kind \in {"server", "client"} /\ o.mine \in BOOLEAN /\ o.misled \in BOOLEAN
      /\ o.guardian \in {"up", "stopping", "gone", "killed"}
      /\ o.child \in {"none", "loading", "serving", "running", "succeeded", "exited", "wedged"}
  BY <1>1, ProcessFields
<1>3. ASSUME NEW c \in {"none", "loading", "serving", "running", "succeeded", "exited", "wedged"}
      PROVE  [o EXCEPT !.child = c] \in Workers!Process
  BY <1>1 DEF Workers!Process
<1>4. ASSUME NEW g \in {"up", "stopping", "gone", "killed"}
      PROVE  [o EXCEPT !.guardian = g] \in Workers!Process
  BY <1>1 DEF Workers!Process
<1>5. CASE /\ o.guardian = "up" /\ o.child = "none"
           /\ Workers!Set(r, [o EXCEPT !.child = IF @ = "none" /\ o.kind = "server" THEN "loading" ELSE "running"])
  <2> DEFINE c == IF o.child = "none" /\ o.kind = "server" THEN "loading" ELSE "running"
             p == [o EXCEPT !.child = c]
  <2>1. o.guardian = "up" /\ o.child = "none" /\ Workers!Set(r, p)
    BY <1>1, <1>5
  <2>2. p \in Workers!Process
    BY <1>3
  <2>3. p.guardian = "up" /\ p.child = c /\ p.kind = o.kind /\ p.mine = o.mine /\ p.misled = o.misled
          /\ p.model = o.model
    BY <1>1, <2>1 DEF Workers!Process
  <2>4. Sound(p) /\ Evolves(o, p) /\ ~Done(o)
    <3> HIDE DEF p, o
    <3>1. QED
      BY <1>1, <1>2, <2>1, <2>3 DEF Sound, Evolves, Able, Lost, Done
  <2> HIDE DEF p
  <2>5. QED
    BY <1>1, <2>1, <2>2, <2>4, SetFacts, PutAges
<1>6. CASE o.guardian = "up" /\ Workers!Set(r, [o EXCEPT !.guardian = "gone"]) /\ o.child = "none"
  <2> DEFINE p == [o EXCEPT !.guardian = "gone"]
  <2>1. p \in Workers!Process
    BY <1>4
  <2>2. p.guardian = "gone" /\ p.child = o.child /\ p.kind = o.kind /\ p.mine = o.mine /\ p.misled = o.misled
          /\ p.model = o.model
    BY <1>1 DEF Workers!Process
  <2>3. Sound(p) /\ Evolves(o, p) /\ ~Done(o)
    <3> HIDE DEF p, o
    <3>1. QED
      BY <1>1, <1>2, <1>6, <2>2 DEF Sound, Evolves, Able, Lost, Done
  <2> HIDE DEF p
  <2>4. QED
    BY <1>1, <1>6, <2>1, <2>3, SetFacts, PutAges DEF p
<1>7. CASE Workers!GuardianStops(r)
  <2> DEFINE p == [o EXCEPT !.guardian = "stopping"]
  <2>1. o.guardian = "up" /\ o.child # "none" /\ Workers!Set(r, p)
    BY <1>7 DEF Workers!GuardianStops
  <2>2. p \in Workers!Process
    BY <1>4
  <2>3. p.guardian = "stopping" /\ p.child = o.child /\ p.kind = o.kind /\ p.mine = o.mine
          /\ p.misled = o.misled /\ p.model = o.model
    BY <1>1 DEF Workers!Process
  <2>4. Sound(p) /\ Evolves(o, p) /\ ~Done(o)
    <3> HIDE DEF p, o
    <3>1. QED
      BY <1>1, <1>2, <2>1, <2>3 DEF Sound, Evolves, Able, Lost, Done
  <2> HIDE DEF p
  <2>5. QED
    BY <1>1, <2>1, <2>2, <2>4, SetFacts, PutAges
<1>8. CASE Workers!ChildKilled(r)
  <2> DEFINE p == [o EXCEPT !.child = "exited"]
  <2>1. o.guardian = "stopping" /\ o.child \in {"loading", "serving", "running"} /\ Workers!Set(r, p)
    BY <1>8 DEF Workers!ChildKilled, Workers!Alive
  <2>2. p \in Workers!Process
    BY <1>3
  <2>3. p.guardian = o.guardian /\ p.child = "exited" /\ p.kind = o.kind /\ p.mine = o.mine
          /\ p.misled = o.misled /\ p.model = o.model
    BY <1>1 DEF Workers!Process
  <2>4. Sound(p) /\ Evolves(o, p) /\ ~Done(o)
    <3> HIDE DEF p, o
    <3>1. QED
      BY <1>1, <1>2, <2>1, <2>3 DEF Sound, Evolves, Able, Lost, Done
  <2> HIDE DEF p
  <2>5. QED
    BY <1>1, <2>1, <2>2, <2>4, SetFacts, PutAges
<1>9. CASE Workers!ChildWedges(r)
  <2> DEFINE p == [o EXCEPT !.child = "wedged"]
  <2>1. /\ o.guardian = "stopping" /\ o.child \in {"loading", "serving", "running"}
        /\ Workers!Put(r, p) /\ UNCHANGED <<Workers!workerVars, spoiled, foreign>>
    BY <1>9 DEF Workers!ChildWedges, Workers!Alive
  <2>2. p \in Workers!Process
    BY <1>3
  <2>3. p.guardian = o.guardian /\ p.child = "wedged" /\ p.kind = o.kind /\ p.mine = o.mine
          /\ p.misled = o.misled /\ p.model = o.model
    BY <1>1 DEF Workers!Process
  <2>4. Sound(p) /\ Evolves(o, p) /\ ~Done(o)
    <3> HIDE DEF p, o
    <3>1. QED
      BY <1>1, <1>2, <2>1, <2>3 DEF Sound, Evolves, Able, Lost, Done
  <2> HIDE DEF p
  <2>5. QED
    BY <1>1, <2>1, <2>2, <2>4, SetFacts, PutAges
<1>10. CASE Workers!GuardianExits(r)
  <2> DEFINE p == [o EXCEPT !.guardian = "gone"]
  <2>1. /\ o.guardian = "stopping" /\ o.child \notin {"loading", "serving", "running", "wedged"}
        /\ Workers!Set(r, p)
    BY <1>10 DEF Workers!GuardianExits, Workers!Alive
  <2>2. p \in Workers!Process
    BY <1>4
  <2>3. p.guardian = "gone" /\ p.child = o.child /\ p.kind = o.kind /\ p.mine = o.mine /\ p.misled = o.misled
          /\ p.model = o.model
    BY <1>1 DEF Workers!Process
  <2>4. Sound(p) /\ Evolves(o, p) /\ ~Done(o)
    <3> HIDE DEF p, o
    <3>1. QED
      BY <1>1, <1>2, <2>1, <2>3 DEF Sound, Evolves, Able, Lost, Done
  <2> HIDE DEF p
  <2>5. QED
    BY <1>1, <2>1, <2>2, <2>4, SetFacts, PutAges
<1>11. CASE Workers!GuardianKilled(r)
  <2> DEFINE p == [o EXCEPT !.guardian = "killed"]
  <2>1. /\ o.guardian \in {"up", "stopping"} /\ o.child # "loading"
        /\ Workers!Put(r, p) /\ UNCHANGED <<Workers!workerVars, spoiled, foreign>>
    BY <1>2, <1>11 DEF Workers!GuardianKilled, Workers!Exited
  <2>2. p \in Workers!Process
    BY <1>4
  <2>3. p.guardian = "killed" /\ p.child = o.child /\ p.kind = o.kind /\ p.mine = o.mine
          /\ p.misled = o.misled /\ p.model = o.model
    BY <1>1 DEF Workers!Process
  <2>4. Sound(p) /\ Evolves(o, p) /\ ~Done(o)
    <3> HIDE DEF p, o
    <3>1. QED
      BY <1>1, <1>2, <2>1, <2>3 DEF Sound, Evolves, Able, Lost, Done
  <2> HIDE DEF p
  <2>5. QED
    BY <1>1, <2>1, <2>2, <2>4, SetFacts, PutAges
<1>12. CASE Workers!GuardianStarts(r)
  <2>1. /\ o.guardian = "up" /\ o.child = "none"
        /\ \/ Workers!Set(r, [o EXCEPT !.child = IF @ = "none" /\ o.kind = "server" THEN "loading" ELSE "running"])
           \/ Workers!Set(r, [o EXCEPT !.guardian = "gone"])
    BY <1>12 DEF Workers!GuardianStarts
  <2> HIDE DEF o
  <2>2. QED
    BY <1>5, <1>6, <2>1
<1>13. QED
  BY <1>7, <1>8, <1>9, <1>10, <1>11, <1>12 DEF Workers!Guardian

LEMMA CommandStep ==
    ASSUME Workers!WorkerAssumption, WorkerInv, NEW r \in Procs,
           Workers!ChildFails(r) \/ Workers!ClientAsks(r) \/ Workers!ClientSucceeds(r)
    PROVE  Aged(proc') /\ Outside
<1> DEFINE o == proc[r]
<1>1. ProcessInv /\ WorkerTypes /\ o \in Workers!Process /\ Sound(o)
  BY DEF WorkerInv, ProcessInv
<1>2. /\ o.kind \in {"server", "client"} /\ o.mine \in BOOLEAN /\ o.misled \in BOOLEAN
      /\ o.guardian \in {"up", "stopping", "gone", "killed"}
      /\ o.child \in {"none", "loading", "serving", "running", "succeeded", "exited", "wedged"}
  BY <1>1, ProcessFields
<1>3. ASSUME NEW c \in {"succeeded", "exited"}
      PROVE  [o EXCEPT !.child = c] \in Workers!Process
  BY <1>1 DEF Workers!Process
<1>4. CASE Workers!ChildFails(r)
  <2> DEFINE p == [o EXCEPT !.child = "exited"]
  <2>1. /\ o.child \in {"loading", "serving", "running", "wedged"} /\ Workers!Put(r, p)
        /\ spoiled' = (spoiled \/ r = client) /\ UNCHANGED <<Workers!workerVars, Workers!envVars>>
    BY <1>4 DEF Workers!ChildFails, Workers!Alive
  <2>2. p \in Workers!Process
    BY <1>3
  <2>3. p.guardian = o.guardian /\ p.child = "exited" /\ p.kind = o.kind /\ p.mine = o.mine
          /\ p.misled = o.misled /\ p.model = o.model
    BY <1>1 DEF Workers!Process
  <2>4. Sound(p) /\ Evolves(o, p) /\ ~Done(o) /\ Lost(p)
    <3> HIDE DEF p, o
    <3>1. QED
      BY <1>1, <1>2, <2>1, <2>3 DEF Sound, Evolves, Able, Lost, Done
  <2>5. Aged(proc')
    <3> HIDE DEF p
    <3>1. QED
      BY <1>1, <2>1, <2>2, <2>4, PutAges
  <2>6. Lost(proc'[r])
    <3>1. proc' = [proc EXCEPT ![r] = Workers!Settle(p)]
      BY <2>1 DEF Workers!Put
    <3>2. proc'[r] = Workers!Settle(p)
      BY <1>1, <3>1 DEF ProcessInv
    <3>3. Lost(Workers!Settle(p))
      <4> HIDE DEF p
      <4>1. QED
        BY <2>2, <2>3, SettleFacts DEF Lost
    <3>4. QED
      BY <3>2, <3>3
  <2>7. None \notin Procs
    BY DEF Workers!WorkerAssumption
  <2>8. Outside
    <3>1. spoiled' /\ ~spoiled => client = r
      BY <2>1
    <3>2. UNCHANGED <<pc, task, process, identity, client, owned, todo, then, snapshot>>
      BY <2>1 DEF Workers!workerVars, Workers!serverVars, Workers!callVars
    <3>3. foreign' = foreign /\ foreign \in BOOLEAN /\ spoiled' \in BOOLEAN
      BY <1>1, <2>1 DEF Workers!envVars, WorkerTypes
    <3>4. r # None /\ ~Done(proc[r])
      BY <2>4, <2>7
    <3>5. QED
      BY <2>6, <3>1, <3>2, <3>3, <3>4 DEF Outside
  <2>9. QED
    BY <2>5, <2>8
<1>5. CASE Workers!ClientAsks(r)
  <2> DEFINE p == [o EXCEPT !.misled = TRUE]
  <2>1. /\ o.child = "running" /\ o.mine /\ Workers!Set(r, p)
        /\ foreign \/ \E s \in Procs : proc[s].child = "serving" /\ proc[s].model # o.model
    BY <1>5 DEF Workers!ClientAsks, Workers!Serving
  <2>2. o.guardian = "killed"
    <3>1. ~SettledOn(o.model)
      BY <2>1 DEF SettledOn
    <3>2. o.kind = "client"
      BY <1>1, <2>1 DEF Sound
    <3>3. ~Potent(r)
      BY <2>1, <3>1, <3>2 DEF WorkerInv, ModelInv
    <3>4. QED
      BY <1>1, <1>2, <2>1, <3>3 DEF Potent, Able, Sound
  <2>3. p \in Workers!Process
    BY <1>1 DEF Workers!Process
  <2>4. p.guardian = o.guardian /\ p.child = o.child /\ p.kind = o.kind /\ p.mine = o.mine
          /\ p.model = o.model
    BY <1>1 DEF Workers!Process
  <2>5. Sound(p) /\ Evolves(o, p) /\ ~Done(o)
    <3> HIDE DEF p, o
    <3>1. QED
      BY <1>1, <1>2, <2>1, <2>2, <2>4 DEF Sound, Evolves, Able, Lost, Done
  <2> HIDE DEF p
  <2>6. QED
    BY <1>1, <2>1, <2>3, <2>5, SetFacts, PutAges
<1>6. CASE Workers!ClientSucceeds(r)
  <2> DEFINE p == [o EXCEPT !.child = "succeeded"]
  <2>1. o.child = "running" /\ Workers!Set(r, p)
    BY <1>6 DEF Workers!ClientSucceeds
  <2>2. p \in Workers!Process
    BY <1>3
  <2>3. p.guardian = o.guardian /\ p.child = "succeeded" /\ p.kind = o.kind /\ p.mine = o.mine
          /\ p.misled = o.misled /\ p.model = o.model
    BY <1>1 DEF Workers!Process
  <2>4. Sound(p) /\ Evolves(o, p) /\ ~Done(o)
    <3> HIDE DEF p, o
    <3>1. QED
      BY <1>1, <1>2, <2>1, <2>3 DEF Sound, Evolves, Able, Lost, Done
  <2> HIDE DEF p
  <2>5. QED
    BY <1>1, <2>1, <2>2, <2>4, SetFacts, PutAges
<1>7. QED
  BY <1>4, <1>5, <1>6

(* What ageing leaves of the invariant, wherever the worker goes on.       *)
LEMMA AgedFacts ==
    ASSUME ProcessInv, Aged(proc')
    PROVE  /\ ProcessInv'
           /\ \A r \in Procs :
                 /\ Potent(r)' => /\ Potent(r) /\ proc'[r].kind = proc[r].kind
                                  /\ proc'[r].mine = proc[r].mine /\ proc'[r].model = proc[r].model
                 /\ proc'[r].child = "serving" => /\ proc[r].child = "serving"
                                                  /\ proc'[r].mine = proc[r].mine
                                                       /\ proc'[r].model = proc[r].model
                 /\ proc'[r].mine => proc[r].mine
                 /\ Lost(proc[r]) => Lost(proc'[r])
                 /\ Done(proc[r]) => Done(proc'[r])
           /\ Alone => Alone'
<1>1. ProcessInv'
  BY DEF Aged, ProcessInv
<1>2. ASSUME NEW r \in Procs
      PROVE  /\ Potent(r)' => /\ Potent(r) /\ proc'[r].kind = proc[r].kind
                              /\ proc'[r].mine = proc[r].mine /\ proc'[r].model = proc[r].model
             /\ proc'[r].child = "serving" => /\ proc[r].child = "serving"
                                              /\ proc'[r].mine = proc[r].mine
                                                   /\ proc'[r].model = proc[r].model
             /\ proc'[r].mine => proc[r].mine
             /\ Lost(proc[r]) => Lost(proc'[r])
             /\ Done(proc[r]) => Done(proc'[r])
  <2>1. Evolves(proc[r], proc'[r])
    BY DEF Aged
  <2>2. QED
    BY <2>1 DEF Evolves, Potent
<1>3. Alone => Alone'
  <2> SUFFICES ASSUME Alone, NEW r \in Procs, Potent(r)' PROVE proc'[r].mine
    BY DEF Alone
  <2>1. Potent(r) /\ proc'[r].mine = proc[r].mine
    BY <1>2
  <2>2. QED
    BY <2>1 DEF Alone
<1>4. QED
  BY <1>1, <1>2, <1>3

LEMMA SettledStays ==
    ASSUME Aged(proc'), foreign' => foreign, NEW m, SettledOn(m)
    PROVE  SettledOn(m)'
<1> SUFFICES ASSUME NEW r \in Procs
             PROVE  /\ proc'[r].child = "serving" => proc'[r].model = m
                    /\ proc'[r].child # "loading"
                    /\ ~(Potent(r)' /\ proc'[r].kind = "server" /\ proc'[r].child = "none")
  BY DEF SettledOn
<1>1. Evolves(proc[r], proc'[r])
  BY DEF Aged
<1>2. /\ proc[r].child = "serving" => proc[r].model = m
      /\ proc[r].child # "loading"
      /\ ~(Able(proc[r]) /\ proc[r].kind = "server" /\ proc[r].child = "none")
  BY DEF SettledOn, Potent
<1>3. QED
  BY <1>1, <1>2 DEF Evolves, Potent

LEMMA AgedKeeps ==
    ASSUME Workers!WorkerAssumption, WorkerInv, Aged(proc'), foreign' => foreign,
           identity' \in {identity, None}
    PROVE  ProcessInv' /\ OneInv' /\ PortInv' /\ ModelInv'
<1>1. /\ ProcessInv /\ OneInv /\ PortInv /\ ModelInv
  BY DEF WorkerInv
<1>2. /\ ProcessInv'
      /\ \A r \in Procs :
            /\ Potent(r)' => /\ Potent(r) /\ proc'[r].kind = proc[r].kind
                             /\ proc'[r].mine = proc[r].mine /\ proc'[r].model = proc[r].model
            /\ proc'[r].child = "serving" => /\ proc[r].child = "serving"
                                             /\ proc'[r].mine = proc[r].mine /\ proc'[r].model = proc[r].model
      /\ Alone => Alone'
  BY <1>1, AgedFacts
<1>3. OneInv'
  BY <1>1, <1>2, Zenon DEF OneInv
<1>4. PortInv'
  <2>1. ASSUME NEW r \in Procs, proc'[r].mine, proc'[r].child = "serving" PROVE Alone'
    BY <1>1, <1>2, <2>1 DEF PortInv
  <2>2. identity' # None => Alone'
    BY <1>1, <1>2 DEF PortInv
  <2>3. ASSUME NEW r \in Procs, NEW s \in Procs, proc'[r].child = "serving", proc'[s].child = "serving"
        PROVE  r = s
    BY <1>1, <1>2, <2>3 DEF PortInv
  <2>4. ASSUME foreign', NEW r \in Procs PROVE proc'[r].child # "serving"
    BY <1>1, <1>2, <2>4 DEF PortInv
  <2>5. QED
    BY <2>1, <2>2, <2>3, <2>4 DEF PortInv
<1>5. ModelInv'
  <2>1. identity' # None => SettledOn(identity)'
    <3>1. SUFFICES ASSUME identity' = identity, identity # None PROVE SettledOn(identity)'
      OBVIOUS
    <3>2. PICK m : m = identity
      OBVIOUS
    <3>3. SettledOn(m) /\ m = identity'
      BY <1>1, <3>1, <3>2 DEF ModelInv
    <3>4. SettledOn(m)'
      BY <3>3, SettledStays
    <3>5. QED
      BY <3>3, <3>4 DEF SettledOn
  <2>2. ASSUME NEW r \in Procs, proc'[r].mine, Potent(r)', proc'[r].kind = "client"
        PROVE  SettledOn(proc[r].model)'
    <3>1. Potent(r) /\ proc[r].mine /\ proc[r].kind = "client" /\ proc'[r].model = proc[r].model
      BY <1>2, <2>2
    <3>2. PICK m : m = proc[r].model
      OBVIOUS
    <3>3. SettledOn(m) /\ m = proc'[r].model
      BY <1>1, <3>1, <3>2 DEF ModelInv
    <3>4. SettledOn(m)'
      BY <3>3, SettledStays
    <3>5. QED
      BY <3>3, <3>4 DEF SettledOn
  <2>3. QED
    BY <2>1, <2>2 DEF ModelInv
<1>6. QED
  BY <1>2, <1>3, <1>4, <1>5

LEMMA WorkerInit == Workers!WorkerAssumption /\ Workers!Init => WorkerInv
<1> SUFFICES ASSUME Workers!WorkerAssumption, Workers!Init PROVE WorkerInv
  OBVIOUS
<1>1. /\ pc = "off" /\ task = None /\ process = None /\ identity = None /\ client = None
      /\ owned = [server |-> {}, clients |-> {}] /\ todo = <<>> /\ then = "off" /\ snapshot = {}
      /\ spoiled = FALSE /\ foreign \in BOOLEAN
  BY DEF Workers!Init, Workers!WorkerAssumption
<1>2. Workers!Nothing \in Workers!Process
  BY NothingFacts
<1>3. /\ Workers!Nothing.guardian = "gone" /\ Workers!Nothing.child = "none" /\ ~Workers!Nothing.mine
  BY DEF Workers!Nothing
<1>4. proc \in [Procs -> Workers!Process] /\ \A r \in Procs : proc[r] = Workers!Nothing
  BY <1>2 DEF Workers!Init
<1>5. ASSUME NEW r \in Procs
      PROVE  /\ ~Potent(r) /\ ~proc[r].mine /\ proc[r].child = "none" /\ Sound(proc[r])
  BY <1>3, <1>4 DEF Potent, Able, Sound
<1>6. ProcessInv /\ OneInv /\ PortInv /\ ModelInv
  BY <1>1, <1>4, <1>5 DEF ProcessInv, OneInv, PortInv, ModelInv
<1>7. WorkerTypes /\ HolderInv /\ TerminatingInv /\ OwnersInv /\ FreshInv
  BY <1>1, <1>5 DEF WorkerTypes, HolderInv, TerminatingInv, OwnersInv, FreshInv, Terminating, Lists
<1>8. QED
  BY <1>6, <1>7 DEF WorkerInv

(* A step outside the worker keeps the invariant when it only ages the     *)
(* processes.                                                              *)
LEMMA OutsideKeeps ==
    ASSUME Workers!WorkerAssumption, WorkerInv, Aged(proc'), Outside
    PROVE  WorkerInv'
<1>1. /\ ProcessInv /\ WorkerTypes /\ HolderInv /\ TerminatingInv /\ OwnersInv /\ FreshInv
  BY DEF WorkerInv
<1>2. /\ pc' = pc /\ task' = task /\ process' = process /\ identity' = identity /\ client' = client
      /\ owned' = owned /\ todo' = todo /\ then' = then /\ snapshot' = snapshot
      /\ foreign' \in BOOLEAN /\ (foreign' => foreign) /\ spoiled' \in BOOLEAN
      /\ spoiled' /\ ~spoiled => client # None /\ Lost(proc'[client]) /\ ~Done(proc[client])
  BY DEF Outside
<1>3. ProcessInv' /\ OneInv' /\ PortInv' /\ ModelInv'
  BY <1>2, AgedKeeps
<1>4. \A r \in Procs :
         /\ Potent(r)' => /\ Potent(r) /\ proc'[r].kind = proc[r].kind
                          /\ proc'[r].mine = proc[r].mine /\ proc'[r].model = proc[r].model
         /\ proc'[r].mine => proc[r].mine
         /\ Lost(proc[r]) => Lost(proc'[r])
         /\ Done(proc[r]) => Done(proc'[r])
  BY <1>1, AgedFacts
<1>5. WorkerTypes'
  BY <1>1, <1>2 DEF WorkerTypes, Terminating
<1>6. HolderInv'
  BY <1>1, <1>2, <1>4 DEF HolderInv, WorkerTypes
<1>7. TerminatingInv'
  BY <1>1, <1>2 DEF TerminatingInv, Terminating
<1>8. OwnersInv'
  BY <1>1, <1>2, <1>4 DEF OwnersInv, Leaving
<1>9. FreshInv'
  <2>1. pc \in {"ownClient", "watch", "finish"} \/ (pc \in Terminating /\ then = "finish") => client \in Procs
    BY <1>1 DEF HolderInv, TerminatingInv, WorkerTypes, Terminating
  <2>2. pc \in {"idle", "load", "own", "ping", "runClient"} => client = None
    BY <1>1 DEF HolderInv
  <2>3. QED
    BY <1>1, <1>2, <1>4, <2>1, <2>2 DEF FreshInv, Terminating
<1>10. QED
  BY <1>3, <1>5, <1>6, <1>7, <1>8, <1>9 DEF WorkerInv

(* A server binds the port only when nobody else can answer on it.         *)
LEMMA BindStep ==
    ASSUME Workers!WorkerAssumption, WorkerInv, NEW r \in Procs, Workers!ServerBinds(r)
    PROVE  WorkerInv'
<1> DEFINE o == proc[r]
<1>1. /\ ProcessInv /\ WorkerTypes /\ HolderInv /\ TerminatingInv /\ OwnersInv /\ OneInv /\ PortInv
      /\ ModelInv /\ FreshInv
  BY DEF WorkerInv
<1>2. /\ o \in Workers!Process /\ Sound(o) /\ o.child = "loading" /\ o.kind = "server"
      /\ o.guardian \in {"up", "stopping"}
  <2>1. o \in Workers!Process /\ Sound(o) /\ o.child = "loading"
    BY <1>1 DEF ProcessInv, Workers!ServerBinds
  <2>2. QED
    BY <2>1, ProcessFields DEF Sound
<1>3. ASSUME NEW c \in {"exited", "serving"}
      PROVE  /\ [o EXCEPT !.child = c] \in Workers!Process /\ [o EXCEPT !.child = c].child = c
             /\ [o EXCEPT !.child = c].kind = o.kind /\ [o EXCEPT !.child = c].mine = o.mine
             /\ [o EXCEPT !.child = c].model = o.model /\ [o EXCEPT !.child = c].misled = o.misled
             /\ [o EXCEPT !.child = c].guardian = o.guardian
  BY <1>2 DEF Workers!Process
<1>4. CASE Workers!PortTaken
  <2> DEFINE p == [o EXCEPT !.child = "exited"]
  <2>1. Workers!Set(r, p)
    BY <1>4 DEF Workers!ServerBinds
  <2>2. Sound(p) /\ Evolves(o, p) /\ ~Done(o) /\ p \in Workers!Process
    BY <1>2, <1>3 DEF Sound, Evolves, Able, Lost, Done
  <2> HIDE DEF p
  <2>3. Workers!Put(r, p) /\ Outside
    BY <1>1, <2>1, SetFacts
  <2>4. Aged(proc')
    BY <1>1, <2>2, <2>3, PutAges
  <2>5. QED
    BY <2>3, <2>4, OutsideKeeps
<1>5. CASE ~Workers!PortTaken
  <2> DEFINE p == [o EXCEPT !.child = "serving"]
  <2>1. Workers!Set(r, p)
    BY <1>5 DEF Workers!ServerBinds
  <2>2. /\ p \in Workers!Process /\ p.child = "serving" /\ p.kind = o.kind /\ p.mine = o.mine
        /\ p.model = o.model /\ p.guardian = o.guardian /\ p.misled = o.misled
    BY <1>3
  <2>3. Sound(p) /\ Able(p) /\ Able(o) /\ ~Lost(o) /\ ~Done(o)
    BY <1>2, <2>2 DEF Sound, Able, Lost, Done
  <2> HIDE DEF p
  <2>4. Workers!Put(r, p) /\ Outside
    BY <1>1, <2>1, SetFacts
  <2>5. Workers!Settle(p) = p
    BY <1>2, <2>2, SettleFacts
  <2>6. /\ proc' \in [Procs -> Workers!Process] /\ proc'[r] = p
        /\ \A s \in Procs : s # r => proc'[s] = proc[s]
    BY <1>1, <2>2, <2>4, <2>5 DEF ProcessInv, Workers!Put
  <2>7. \A s \in Procs :
           /\ (Potent(s)' <=> Potent(s)) /\ proc'[s].kind = proc[s].kind /\ proc'[s].mine = proc[s].mine
           /\ proc'[s].model = proc[s].model
           /\ Lost(proc[s]) => Lost(proc'[s])
           /\ Done(proc[s]) => Done(proc'[s])
    BY <2>2, <2>3, <2>6 DEF Potent
  <2>8. /\ pc' = pc /\ task' = task /\ process' = process /\ identity' = identity /\ client' = client
        /\ owned' = owned /\ todo' = todo /\ then' = then /\ snapshot' = snapshot /\ spoiled' = spoiled
        /\ foreign' = foreign
    BY <2>1 DEF Workers!Set, Workers!workerVars, Workers!serverVars, Workers!callVars, Workers!envVars
  <2>9. ~foreign /\ \A s \in Procs : proc[s].child # "serving"
    BY <1>5 DEF Workers!PortTaken
  <2>10. o.mine => Alone
    <3> SUFFICES ASSUME o.mine, NEW s \in Procs, ~proc[s].mine PROVE ~Potent(s)
      BY DEF Alone
    <3>1. Workers!Exited(s) \/ Workers!Beyond(s)
      BY DEF Workers!ServerBinds
    <3>2. QED
      BY <3>1 DEF Workers!Exited, Workers!Beyond, Potent, Able
  <2>11. identity = None /\ \A s \in Procs : ~(proc[s].mine /\ Potent(s) /\ proc[s].kind = "client")
    <3>1. \A m : ~SettledOn(m)
      BY <1>2 DEF SettledOn
    <3>2. QED
      BY <1>1, <3>1 DEF ModelInv
  <2>12. ProcessInv'
    BY <1>1, <2>3, <2>6 DEF ProcessInv
  <2>13. WorkerTypes' /\ TerminatingInv'
    BY <1>1, <2>8 DEF WorkerTypes, TerminatingInv, Terminating
  <2>14. HolderInv'
    BY <1>1, <2>7, <2>8 DEF HolderInv, WorkerTypes
  <2>15. OwnersInv'
    BY <1>1, <2>7, <2>8 DEF OwnersInv, Leaving
  <2>16. OneInv'
    BY <1>1, <2>7 DEF OneInv
  <2>17. PortInv'
    <3>1. o.mine => Alone'
      BY <2>7, <2>10 DEF Alone
    <3>2. \A s \in Procs : proc'[s].child = "serving" => s = r
      BY <2>6, <2>9
    <3>3. QED
      BY <2>2, <2>6, <2>8, <2>9, <2>11, <3>1, <3>2 DEF PortInv
  <2>18. ModelInv'
    BY <2>7, <2>8, <2>11 DEF ModelInv
  <2>19. FreshInv'
    <3>1. pc \in {"ownClient", "watch", "finish"} \/ (pc \in Terminating /\ then = "finish")
            => client \in Procs
      BY <1>1 DEF HolderInv, TerminatingInv, WorkerTypes, Terminating
    <3>2. QED
      BY <1>1, <2>7, <2>8, <3>1 DEF FreshInv, Terminating
  <2>20. QED
    BY <2>12, <2>13, <2>14, <2>15, <2>16, <2>17, <2>18, <2>19 DEF WorkerInv
<1>6. QED
  BY <1>4, <1>5

(* Worker steps that leave the processes as they are.                      *)
LEMMA StillKeeps ==
    ASSUME Workers!WorkerAssumption, WorkerInv, UNCHANGED <<proc, foreign>>, identity' \in {identity, None}
    PROVE  /\ ProcessInv' /\ OneInv' /\ PortInv' /\ ModelInv'
           /\ \A r \in Procs : Potent(r)' <=> Potent(r)
<1>1. Aged(proc')
  BY SameAge DEF Aged, WorkerInv, ProcessInv
<1>2. ProcessInv' /\ OneInv' /\ PortInv' /\ ModelInv'
  BY <1>1, AgedKeeps
<1>3. QED
  BY <1>2 DEF Potent

LEMMA ForeignStep ==
    ASSUME Workers!WorkerAssumption, WorkerInv, Workers!ForeignLeaves
    PROVE  WorkerInv'
<1>1. Aged(proc') /\ Outside
  BY SameAge DEF Aged, WorkerInv, ProcessInv, WorkerTypes, Outside, Workers!ForeignLeaves, Workers!workerVars,
     Workers!serverVars, Workers!callVars
<1>2. QED
  BY <1>1, OutsideKeeps

(* What the worker knows and does, apart from its processes.               *)
Control == WorkerTypes /\ HolderInv /\ TerminatingInv /\ OwnersInv /\ FreshInv

(* The steps of the worker between its tasks, and those that only move it. *)
LEMMA MoveStep ==
    ASSUME Workers!WorkerAssumption, WorkerInv,
           \/ Workers!Start \/ Workers!Quit \/ Workers!Load \/ Workers!Own \/ Workers!OwnClient
           \/ Workers!Watch \/ Workers!Finish \/ Workers!Interrupt \/ Workers!Revoke
           \/ \E m \in Models : Workers!Claim(m)
    PROVE  WorkerInv'
<1> USE DEF Workers!workerVars, Workers!serverVars, Workers!callVars, Workers!envVars
<1>1. /\ ProcessInv /\ WorkerTypes /\ HolderInv /\ TerminatingInv /\ OwnersInv /\ FreshInv
  BY DEF WorkerInv
<1>2. None \notin Models /\ None \notin Procs
  BY DEF Workers!WorkerAssumption
<1>3. UNCHANGED <<process, identity, proc, spoiled, foreign>>
  BY
     DEF Workers!Start, Workers!Quit, Workers!Load, Workers!Own, Workers!OwnClient, Workers!Watch,
         Workers!Finish,
     Workers!Interrupt, Workers!Revoke, Workers!Claim, Workers!Leave
<1>4. /\ ProcessInv' /\ OneInv' /\ PortInv' /\ ModelInv'
      /\ \A r \in Procs : Potent(r)' <=> Potent(r)
  BY <1>3, StillKeeps
<1>5. CASE Workers!Start
  <2>1. /\ pc = "off" /\ pc' = "idle"
        /\ UNCHANGED <<task, process, identity, client, owned, todo, then, snapshot>>
    BY <1>5 DEF Workers!Start
  <2>2. task = None /\ process = None /\ client = None /\ \A r \in Procs : ~proc[r].mine
    BY <1>1, <2>1 DEF HolderInv
  <2>3. Control'
    BY <1>1, <1>3, <2>1, <2>2
       DEF Control, WorkerTypes, HolderInv, TerminatingInv, OwnersInv, FreshInv, Terminating
  <2>4. QED
    BY <1>4, <2>3 DEF WorkerInv, Control
<1>6. CASE \E m \in Models : Workers!Claim(m)
  <2>1. /\ pc = "idle" /\ pc' = "load" /\ task' \in Models
        /\ UNCHANGED <<process, identity, client, owned, todo, then, snapshot>>
    BY <1>6 DEF Workers!Claim
  <2>2. WorkerTypes' /\ HolderInv' /\ TerminatingInv' /\ FreshInv'
    BY <1>1, <1>2, <1>3, <2>1 DEF WorkerTypes, HolderInv, TerminatingInv, FreshInv, Terminating
  <2>3. OwnersInv'
    BY <1>1, <1>3, <1>4, <2>1 DEF OwnersInv, Leaving, Terminating
  <2>4. QED
    BY <1>4, <2>2, <2>3 DEF WorkerInv, Control
<1>7. CASE Workers!Quit
  <2>1. /\ pc = "idle" /\ pc' = "take" /\ todo' = <<"clients", "server">> /\ then' = "off"
        /\ UNCHANGED <<task, process, identity, client, owned, snapshot>>
    BY <1>7 DEF Workers!Quit, Workers!Terminate
  <2>2. Control'
    BY <1>1, <1>3, <2>1
       DEF Control, WorkerTypes, HolderInv, TerminatingInv, OwnersInv, Leaving, FreshInv, Terminating, Lists
  <2>3. QED
    BY <1>4, <2>2 DEF WorkerInv, Control
<1>8. CASE Workers!Load
  <2>1. /\ pc = "load" /\ client = None /\ task # None
        /\ UNCHANGED <<task, process, identity, client, owned, snapshot>>
    BY <1>1, <1>8 DEF Workers!Load, Workers!Terminate, HolderInv
  <2>2. \/ /\ identity = task /\ process # None /\ pc' = "runClient" /\ UNCHANGED <<todo, then>>
        \/ pc' = "take" /\ todo' = <<"server">> /\ then' = "spawn"
    BY <1>8 DEF Workers!Load, Workers!Terminate, Workers!Reusable
  <2>3. OwnersInv'
    BY <1>1, <1>3, <1>4, <2>1, <2>2 DEF OwnersInv, Leaving, Terminating
  <2>4. WorkerTypes' /\ HolderInv' /\ TerminatingInv' /\ FreshInv'
    BY <1>1, <1>3, <2>1, <2>2 DEF WorkerTypes, HolderInv, TerminatingInv, FreshInv, Terminating, Lists
  <2>5. QED
    BY <1>4, <2>3, <2>4 DEF WorkerInv, Control
<1>9. CASE Workers!Own
  <2>1. /\ pc = "own" /\ pc' = "ping" /\ owned' = [owned EXCEPT !.server = @ \cup {process}]
        /\ UNCHANGED <<task, process, identity, client, todo, then, snapshot>>
    BY <1>9 DEF Workers!Own
  <2>2. process \in Procs /\ client = None
    BY <1>1, <2>1 DEF HolderInv, WorkerTypes
  <2>3. /\ owned' \in [server : SUBSET Procs, clients : SUBSET Procs]
        /\ process \in owned'.server /\ owned'.clients = owned.clients
    BY <1>1, <2>1, <2>2 DEF WorkerTypes
  <2>4. OwnersInv'
    BY <1>1, <1>3, <1>4, <2>1, <2>3 DEF OwnersInv, Leaving, Terminating
  <2>5. WorkerTypes' /\ HolderInv' /\ TerminatingInv' /\ FreshInv'
    BY <1>1, <1>3, <1>4, <2>1, <2>2, <2>3 DEF WorkerTypes, HolderInv, TerminatingInv, FreshInv, Terminating
  <2>6. QED
    BY <1>4, <2>4, <2>5 DEF WorkerInv, Control
<1>10. CASE Workers!OwnClient
  <2>1. /\ pc = "ownClient" /\ pc' = "watch" /\ owned' = [owned EXCEPT !.clients = @ \cup {client}]
        /\ UNCHANGED <<task, process, identity, client, todo, then, snapshot>>
    BY <1>10 DEF Workers!OwnClient
  <2>2. client \in Procs
    BY <1>1, <2>1 DEF HolderInv, WorkerTypes
  <2>3. /\ owned' \in [server : SUBSET Procs, clients : SUBSET Procs]
        /\ client \in owned'.clients /\ owned'.server = owned.server
    BY <1>1, <2>1, <2>2 DEF WorkerTypes
  <2>4. OwnersInv'
    BY <1>1, <1>3, <1>4, <2>1, <2>3 DEF OwnersInv, Leaving, Terminating
  <2>5. WorkerTypes' /\ HolderInv' /\ TerminatingInv' /\ FreshInv'
    BY <1>1, <1>2, <1>3, <2>1, <2>2, <2>3 DEF WorkerTypes, HolderInv, TerminatingInv, FreshInv, Terminating
  <2>6. QED
    BY <1>4, <2>4, <2>5 DEF WorkerInv, Control
<1>11. CASE Workers!Watch
  <2>1. /\ pc = "watch" /\ pc' = "take" /\ client # None
        /\ UNCHANGED <<task, process, identity, client, owned, snapshot>>
    BY <1>1, <1>11 DEF Workers!Watch, Workers!Terminate, HolderInv
  <2>2. \/ Done(proc[client]) /\ todo' = <<"clients">> /\ then' = "finish"
        \/ todo' = <<"server", "clients">> /\ then' = "idle"
    BY <1>11 DEF Workers!Watch, Workers!Terminate, Workers!Succeeded, Workers!Exited, Done
  <2>3. spoiled => Lost(proc[client])
    BY <1>1, <2>1 DEF FreshInv
  <2>4. spoiled => ~Done(proc[client])
    BY <2>3 DEF Lost, Done
  <2>5. OwnersInv'
    BY <1>1, <1>3, <1>4, <2>1, <2>2 DEF OwnersInv, Leaving, Terminating
  <2>6. WorkerTypes' /\ HolderInv' /\ TerminatingInv'
    BY <1>1, <1>3, <2>1, <2>2 DEF WorkerTypes, HolderInv, TerminatingInv, Terminating, Lists
  <2>7. FreshInv'
    BY <1>1, <1>3, <2>1, <2>2, <2>4 DEF FreshInv, WorkerTypes
  <2>8. QED
    BY <1>4, <2>5, <2>6, <2>7 DEF WorkerInv, Control
<1>12. CASE Workers!Finish
  <2>1. /\ pc = "finish" /\ pc' = "idle" /\ task' = None /\ client' = None
        /\ UNCHANGED <<process, identity, owned, todo, then, snapshot>>
    BY <1>12 DEF Workers!Finish, Workers!Leave
  <2>2. ~spoiled /\ Done(proc[client]) /\ client \in Procs
    BY <1>1, <2>1 DEF FreshInv, HolderInv, WorkerTypes
  <2>3. ~Potent(client)
    BY <2>2 DEF Done, Potent, Able
  <2>4. OwnersInv'
    BY <1>1, <1>3, <1>4, <2>1, <2>3 DEF OwnersInv, Leaving, Terminating
  <2>5. WorkerTypes' /\ HolderInv' /\ TerminatingInv' /\ FreshInv'
    BY <1>1, <1>3, <2>1, <2>2 DEF WorkerTypes, HolderInv, TerminatingInv, FreshInv, Terminating
  <2>6. QED
    BY <1>4, <2>4, <2>5 DEF WorkerInv, Control
<1>13. CASE Workers!Interrupt
  <2>1. /\ then' = "off" /\ snapshot' = {} /\ UNCHANGED <<task, process, identity, client, owned>>
        /\ \/ pc \in Terminating /\ pc' = "await" /\ todo' = todo
           \/ pc' = "take" /\ todo' \in {<<"server", "clients">>, <<"clients", "server">>}
    BY <1>13 DEF Workers!Interrupt, Terminating
  <2>2. Control'
    BY <1>1, <1>3, <2>1
       DEF Control, WorkerTypes, HolderInv, TerminatingInv, OwnersInv, Leaving, FreshInv, Terminating, Lists
  <2>3. QED
    BY <1>4, <2>2 DEF WorkerInv, Control
<1>14. CASE Workers!Revoke
  <2>1. UNCHANGED <<pc, task, process, identity, client, owned, todo, then, snapshot>>
    BY <1>14 DEF Workers!Revoke
  <2>2. OwnersInv'
    BY <1>1, <1>3, <1>4, <2>1 DEF OwnersInv, Leaving, Terminating
  <2>3. WorkerTypes' /\ HolderInv' /\ TerminatingInv' /\ FreshInv'
    BY <1>1, <1>3, <1>4, <2>1 DEF WorkerTypes, HolderInv, TerminatingInv, FreshInv, Terminating
  <2>4. QED
    BY <1>4, <2>2, <2>3 DEF WorkerInv, Control
<1>15. QED
  BY <1>5, <1>6, <1>7, <1>8, <1>9, <1>10, <1>11, <1>12, <1>13, <1>14

LEMMA TakeStep ==
    ASSUME Workers!WorkerAssumption, WorkerInv, Workers!Take
    PROVE  WorkerInv'
<1>1. /\ ProcessInv /\ WorkerTypes /\ HolderInv /\ TerminatingInv /\ OwnersInv /\ FreshInv
  BY DEF WorkerInv
<1>2. /\ pc = "take" /\ pc' = "signal" /\ snapshot' = owned[Head(todo)]
      /\ owned' = [owned EXCEPT ![Head(todo)] = {}]
      /\ UNCHANGED <<task, client, todo, then, proc, spoiled, foreign>>
  BY DEF Workers!Take, Workers!serverVars, Workers!envVars
<1>3. IF Head(todo) = "server" THEN process' = None /\ identity' = None ELSE UNCHANGED <<process, identity>>
  BY DEF Workers!Take, Workers!serverVars
<1>4. /\ ProcessInv' /\ OneInv' /\ PortInv' /\ ModelInv'
      /\ \A r \in Procs : Potent(r)' <=> Potent(r)
  BY <1>2, <1>3, StillKeeps
<1>5. Head(todo) \in {"server", "clients"}
  BY <1>1, <1>2 DEF TerminatingInv, WorkerTypes, Terminating, Lists
<1>6. /\ owned' \in [server : SUBSET Procs, clients : SUBSET Procs] /\ snapshot' \in SUBSET Procs
      /\ Head(todo) = "server" => snapshot' = owned.server /\ owned'.server = {}
           /\ owned'.clients = owned.clients
      /\ Head(todo) = "clients" => snapshot' = owned.clients /\ owned'.clients = {}
           /\ owned'.server = owned.server
  BY <1>1, <1>2, <1>5 DEF WorkerTypes
<1>7. WorkerTypes'
  BY <1>1, <1>2, <1>3, <1>6 DEF WorkerTypes, Terminating
<1>8. HolderInv'
  BY <1>1, <1>2, <1>3 DEF HolderInv
<1>9. TerminatingInv'
  BY <1>1, <1>2, <1>3, <1>5, <1>6 DEF TerminatingInv, Terminating
<1>10. OwnersInv'
  <2> SUFFICES ASSUME ~Leaving', NEW r \in Procs, proc'[r].mine, Potent(r)'
               PROVE  \/ r \in snapshot'
                      \/ proc'[r].kind = "server" /\ r = process' /\ r \in owned'.server
                      \/ proc'[r].kind = "client" /\ r = client' /\ r \in owned'.clients
    BY <1>2 DEF OwnersInv
  <2>1. ~Leaving /\ proc[r].mine /\ Potent(r)
    BY <1>2, <1>4 DEF Leaving, Terminating
  <2>2. \/ proc[r].kind = "server" /\ r = process /\ r \in owned.server
        \/ proc[r].kind = "client" /\ r = client /\ r \in owned.clients
    BY <1>1, <1>2, <2>1 DEF OwnersInv
  <2>3. QED
    BY <1>2, <1>3, <1>5, <1>6, <2>2
<1>11. FreshInv'
  BY <1>1, <1>2 DEF FreshInv, Terminating
<1>12. QED
  BY <1>4, <1>7, <1>8, <1>9, <1>10, <1>11 DEF WorkerInv

LEMMA SignalStep ==
    ASSUME Workers!WorkerAssumption, WorkerInv, Workers!Signal
    PROVE  WorkerInv'
<1>1. /\ ProcessInv /\ WorkerTypes /\ HolderInv /\ TerminatingInv /\ OwnersInv /\ FreshInv
  BY DEF WorkerInv
<1>2. /\ pc = "signal" /\ pc' = "await"
      /\ UNCHANGED <<task, process, identity, client, owned, todo, then, snapshot, spoiled, foreign>>
  BY DEF Workers!Signal, Workers!serverVars, Workers!callVars, Workers!envVars
<1>3. ASSUME NEW r \in Procs, NEW q, q = [proc[r] EXCEPT !.term = TRUE]
      PROVE  /\ q \in Workers!Process /\ Sound(q) /\ Evolves(proc[r], q)
             /\ (Able(q) <=> Able(proc[r])) /\ q.kind = proc[r].kind /\ q.mine = proc[r].mine
             /\ (Lost(q) <=> Lost(proc[r])) /\ (Done(q) <=> Done(proc[r]))
  <2>1. proc[r] \in Workers!Process /\ Sound(proc[r])
    BY <1>1 DEF ProcessInv
  <2>2. /\ q \in Workers!Process /\ q.kind = proc[r].kind /\ q.mine = proc[r].mine /\ q.model = proc[r].model
        /\ q.guardian = proc[r].guardian /\ q.child = proc[r].child /\ q.misled = proc[r].misled
    BY <1>3, <2>1 DEF Workers!Process
  <2>3. QED
    BY <2>1, <2>2 DEF Sound, Evolves, Able, Lost, Done
<1>4. ASSUME NEW r \in Procs PROVE proc'[r] = proc[r] \/ proc'[r] = [proc[r] EXCEPT !.term = TRUE]
  BY DEF Workers!Signal
<1>5. ASSUME NEW r \in Procs
      PROVE  /\ proc'[r] \in Workers!Process /\ Sound(proc'[r]) /\ Evolves(proc[r], proc'[r])
             /\ (Potent(r)' <=> Potent(r)) /\ proc'[r].kind = proc[r].kind /\ proc'[r].mine = proc[r].mine
             /\ (Lost(proc'[r]) <=> Lost(proc[r])) /\ (Done(proc'[r]) <=> Done(proc[r]))
  <2>1. CASE proc'[r] = proc[r]
    BY <1>1, <2>1, SameAge DEF ProcessInv, Potent
  <2>2. CASE proc'[r] = [proc[r] EXCEPT !.term = TRUE]
    BY <1>3, <2>2 DEF Potent
  <2>3. QED
    BY <1>4, <2>1, <2>2
<1>6. Aged(proc')
  <2>1. \E f : proc' = [r \in Procs |-> f[r]]
    <3>1. proc' = [r \in Procs |-> [s \in Procs |->
              IF s \in snapshot /\ ~Workers!Exited(s) THEN [proc[s] EXCEPT !.term = TRUE] ELSE proc[s]][r]]
      BY DEF Workers!Signal
    <3>2. QED
      BY <3>1
  <2>2. QED
    BY <1>5, <2>1 DEF Aged
<1>7. ProcessInv' /\ OneInv' /\ PortInv' /\ ModelInv'
  BY <1>2, <1>6, AgedKeeps
<1>8. WorkerTypes' /\ HolderInv' /\ TerminatingInv'
  BY <1>1, <1>2, <1>5 DEF WorkerTypes, HolderInv, TerminatingInv, Terminating
<1>9. OwnersInv'
  BY <1>1, <1>2, <1>5 DEF OwnersInv, Leaving, Terminating
<1>10. FreshInv'
  <2>1. then = "finish" => client \in Procs
    BY <1>1, <1>2 DEF TerminatingInv, WorkerTypes, Terminating
  <2>2. QED
    BY <1>1, <1>2, <1>5, <2>1 DEF FreshInv, Terminating
<1>11. QED
  BY <1>7, <1>8, <1>9, <1>10 DEF WorkerInv

(* The server that answers with its token is the only one left, and has    *)
(* the task's model.                                                       *)
LEMMA PingStep ==
    ASSUME Workers!WorkerAssumption, WorkerInv, Workers!Ping
    PROVE  WorkerInv'
<1>1. /\ ProcessInv /\ WorkerTypes /\ HolderInv /\ TerminatingInv /\ OwnersInv /\ OneInv /\ PortInv
      /\ ModelInv /\ FreshInv
  BY DEF WorkerInv
<1>2. /\ pc = "ping" /\ process \in Procs /\ client = None /\ task \in Models
      /\ UNCHANGED <<task, process, client, owned, snapshot, proc, spoiled, foreign>>
  <2>1. pc = "ping" /\ UNCHANGED <<task, process, client, owned, snapshot, proc, spoiled, foreign>>
    BY DEF Workers!Ping, Workers!envVars, Workers!callVars, Workers!Terminate
  <2>2. QED
    BY <1>1, <2>1 DEF HolderInv, WorkerTypes
<1>3. CASE UNCHANGED identity /\ Workers!Terminate(<<"server", "clients">>, "idle")
  <2>1. pc' = "take" /\ todo' = <<"server", "clients">> /\ then' = "idle"
    BY <1>3 DEF Workers!Terminate
  <2>2. /\ ProcessInv' /\ OneInv' /\ PortInv' /\ ModelInv'
        /\ \A r \in Procs : Potent(r)' <=> Potent(r)
    BY <1>2, <1>3, StillKeeps
  <2>3. OwnersInv'
    BY <1>1, <1>2, <2>1, <2>2 DEF OwnersInv, Leaving, Terminating
  <2>4. WorkerTypes' /\ HolderInv' /\ TerminatingInv' /\ FreshInv'
    BY <1>1, <1>2, <1>3, <2>1 DEF WorkerTypes, HolderInv, TerminatingInv, FreshInv, Terminating, Lists
  <2>5. QED
    BY <2>2, <2>3, <2>4 DEF WorkerInv
<1>4. CASE /\ ~Workers!Exited(process) /\ process \in Workers!Serving
           /\ identity' = task /\ pc' = "runClient" /\ UNCHANGED Workers!callVars
  <2>1. /\ proc[process].child = "serving" /\ proc[process].guardian \in {"up", "stopping"}
    BY <1>1, <1>2, <1>4, ProcessFields DEF ProcessInv, Workers!Exited, Workers!Serving
  <2>2. Potent(process)
    BY <2>1 DEF Potent, Able
  <2>3. proc[process].kind = "server" /\ proc[process].mine /\ proc[process].model = task
    BY <1>1, <1>2, <2>2 DEF HolderInv
  <2>4. Alone
    BY <1>1, <1>2, <2>1, <2>3 DEF PortInv
  <2>5. SettledOn(task)
    <3>1. ~foreign
      BY <1>1, <1>2, <2>1 DEF PortInv
    <3>2. \A r \in Procs : proc[r].child = "serving" => r = process
      BY <1>1, <1>2, <2>1 DEF PortInv
    <3>3. \A r \in Procs : Potent(r) /\ proc[r].kind = "server" => r = process
      <4> SUFFICES ASSUME NEW r \in Procs, Potent(r), proc[r].kind = "server", r # process PROVE FALSE
        OBVIOUS
      <4>1. proc[r].mine
        BY <2>4 DEF Alone
      <4>2. QED
        BY <1>1, <1>2, <2>2, <2>3, <4>1 DEF OneInv
    <3>4. ASSUME NEW r \in Procs, proc[r].child = "loading" PROVE FALSE
      <4>1. Sound(proc[r]) /\ proc[r] \in Workers!Process
        BY <1>1 DEF ProcessInv
      <4>2. proc[r].kind = "server" /\ proc[r].guardian \in {"up", "stopping"}
        BY <3>4, <4>1, ProcessFields DEF Sound
      <4>3. Potent(r)
        BY <3>4, <4>2 DEF Potent, Able
      <4>4. QED
        BY <2>1, <3>3, <3>4, <4>2, <4>3
    <3>5. QED
      BY <2>1, <2>3, <3>1, <3>2, <3>3, <3>4 DEF SettledOn
  <2>6. /\ (\A r \in Procs : Potent(r)' <=> Potent(r)) /\ (Alone' <=> Alone)
        /\ \A m : SettledOn(m)' <=> SettledOn(m)
    BY <1>2 DEF Potent, Alone, SettledOn
  <2>7. ProcessInv' /\ OneInv'
    BY <1>1, <1>2, <2>6 DEF ProcessInv, OneInv
  <2>8. PortInv'
    BY <1>1, <1>2, <2>4, <2>6 DEF PortInv
  <2>9. ModelInv'
    <3>1. \A r \in Procs : proc[r].mine /\ Potent(r) /\ proc[r].kind = "client" => SettledOn(proc[r].model)
      BY <1>1 DEF ModelInv
    <3>2. ASSUME NEW r \in Procs, proc'[r].mine, Potent(r)', proc'[r].kind = "client"
          PROVE  SettledOn(proc[r].model)'
      <4>1. PICK m : m = proc[r].model
        OBVIOUS
      <4>2. SettledOn(m)' /\ m = proc'[r].model
        BY <1>2, <2>6, <3>1, <3>2, <4>1
      <4>3. QED
        BY <4>2 DEF SettledOn
    <3>3. SettledOn(identity)'
      <4>1. PICK m : m = task
        OBVIOUS
      <4>2. SettledOn(m)' /\ m = identity'
        BY <1>4, <2>5, <2>6, <4>1
      <4>3. QED
        BY <4>2 DEF SettledOn
    <3>4. QED
      BY <3>2, <3>3 DEF ModelInv
  <2>10. UNCHANGED <<todo, then>>
    BY <1>4 DEF Workers!callVars
  <2>11. OwnersInv'
    BY <1>1, <1>2, <1>4, <2>6, <2>10 DEF OwnersInv, Leaving, Terminating
  <2>12. WorkerTypes' /\ HolderInv' /\ TerminatingInv' /\ FreshInv'
    BY <1>1, <1>2, <1>4, <2>10
       DEF WorkerTypes, HolderInv, TerminatingInv, FreshInv, Terminating, Workers!WorkerAssumption
  <2>13. QED
    BY <2>7, <2>8, <2>9, <2>11, <2>12 DEF WorkerInv
<1>5. QED
  BY <1>3, <1>4 DEF Workers!Ping

(* A worker that is gone owns nothing, and what it left still ages.        *)
LEMMA LeaveStep ==
    ASSUME Workers!WorkerAssumption, WorkerInv, NEW f, Aged(f), proc' = Workers!Disown(f),
           Workers!Leave("off"), todo' = <<>>, then' = "off", snapshot' = {}, UNCHANGED <<spoiled, foreign>>
    PROVE  WorkerInv'
<1>1. ProcessInv /\ OneInv /\ PortInv /\ WorkerTypes
  BY DEF WorkerInv
<1>2. /\ pc' = "off" /\ task' = None /\ client' = None /\ process' = None /\ identity' = None
      /\ owned' = [server |-> {}, clients |-> {}]
  BY DEF Workers!Leave
<1>3. ASSUME NEW p \in Workers!Process, Sound(p), NEW q,
             q = [p EXCEPT !.mine = FALSE, !.eof = TRUE, !.misled = FALSE, !.term = @ /\ p.child = "none",
                           !.child = IF @ = "succeeded" THEN "exited" ELSE @]
      PROVE  /\ q \in Workers!Process /\ Sound(q) /\ ~q.mine
             /\ (Able(q) <=> Able(p)) /\ q.kind = p.kind /\ q.model = p.model
             /\ (q.child = "serving" <=> p.child = "serving")
  <2>1. /\ q.mine = FALSE /\ q.misled = FALSE /\ q.kind = p.kind /\ q.model = p.model
        /\ q.guardian = p.guardian /\ q.child = IF p.child = "succeeded" THEN "exited" ELSE p.child
    BY <1>3 DEF Workers!Process
  <2>2. (p.term /\ p.child = "none") \in BOOLEAN
    OBVIOUS
  <2>3. (IF p.child = "succeeded" THEN "exited" ELSE p.child)
            \in {"none", "loading", "serving", "running", "succeeded", "exited", "wedged"}
    BY ProcessFields
  <2>4. q \in Workers!Process
    BY <1>3, <2>2, <2>3 DEF Workers!Process
  <2>5. QED
    BY <1>3, <2>1, <2>4 DEF Sound, Able
<1>4. /\ f \in [Procs -> Workers!Process]
      /\ \A r \in Procs : Sound(f[r]) /\ Evolves(proc[r], f[r])
  BY DEF Aged
<1>5. ASSUME NEW r \in Procs
      PROVE  /\ proc'[r] \in Workers!Process /\ Sound(proc'[r]) /\ ~proc'[r].mine
             /\ Potent(r)' => Potent(r) /\ proc'[r].kind = proc[r].kind
             /\ proc'[r].child = "serving" => proc[r].child = "serving"
  <2>1. f[r] \in Workers!Process /\ Sound(f[r]) /\ Evolves(proc[r], f[r])
    BY <1>4
  <2>2. f[r].mine \in BOOLEAN
    BY <2>1, ProcessFields
  <2>3. /\ proc'[r] \in Workers!Process /\ Sound(proc'[r]) /\ ~proc'[r].mine
        /\ Able(proc'[r]) => Able(f[r]) /\ proc'[r].kind = f[r].kind
        /\ proc'[r].child = "serving" => f[r].child = "serving"
    <3>1. CASE ~f[r].mine
      BY <2>1, <3>1 DEF Workers!Disown
    <3>2. CASE f[r].mine
      <4>1. proc'[r] = [f[r] EXCEPT !.mine = FALSE, !.eof = TRUE, !.misled = FALSE, !.term = @ /\ f[r].child = "none",
                                    !.child = IF @ = "succeeded" THEN "exited" ELSE @]
        BY <3>2 DEF Workers!Disown
      <4>2. QED
        BY <1>3, <2>1, <4>1
    <3>3. QED
      BY <2>2, <3>1, <3>2
  <2>4. QED
    BY <2>1, <2>3 DEF Evolves, Potent
<1>6. ProcessInv'
  <2>1. \E g : proc' = [r \in Procs |-> g[r]]
    <3>1. proc' = [r \in Procs |-> proc'[r]]
      BY DEF Workers!Disown
    <3>2. QED
      BY <3>1
  <2>2. QED
    BY <1>5, <2>1 DEF ProcessInv
<1>7. WorkerTypes' /\ HolderInv' /\ TerminatingInv' /\ OwnersInv' /\ FreshInv'
  BY <1>1, <1>2, <1>5 DEF WorkerTypes, HolderInv, TerminatingInv, OwnersInv, FreshInv, Terminating, Lists
<1>8. OneInv'
  BY <1>1, <1>5 DEF OneInv
<1>9. PortInv' /\ ModelInv'
  BY <1>1, <1>2, <1>5 DEF PortInv, ModelInv
<1>10. QED
  BY <1>6, <1>7, <1>8, <1>9 DEF WorkerInv

LEMMA CrashStep ==
    ASSUME Workers!WorkerAssumption, WorkerInv, Workers!Crash
    PROVE  WorkerInv'
<1>1. Aged(proc)
  BY SameAge DEF Aged, WorkerInv, ProcessInv
<1>2. QED
  BY <1>1, LeaveStep DEF Workers!Crash, Workers!envVars

(* terminate_all returns: nothing of the snapshot can run any more.        *)
LEMMA AwaitStep ==
    ASSUME Workers!WorkerAssumption, WorkerInv, Workers!Await
    PROVE  WorkerInv'
<1> DEFINE killed == [r \in Procs |-> IF r \in snapshot /\ ~Workers!Exited(r)
                                      THEN Workers!Settle([proc[r] EXCEPT !.guardian = "killed"]) ELSE proc[r]]
<1>1. /\ ProcessInv /\ WorkerTypes /\ HolderInv /\ TerminatingInv /\ OwnersInv /\ FreshInv
  BY DEF WorkerInv
<1>2. /\ pc = "await" /\ snapshot' = {} /\ todo' = Tail(todo) /\ UNCHANGED <<spoiled, foreign>>
      /\ \A r \in snapshot : Workers!Exited(r) \/ proc[r].child = "wedged"
  BY DEF Workers!Await, Workers!envVars
<1>3. ASSUME NEW r \in Procs
      PROVE  /\ killed[r] \in Workers!Process /\ Sound(killed[r]) /\ Evolves(proc[r], killed[r])
             /\ r \in snapshot => ~Potent(r)
  <2>1. proc[r] \in Workers!Process /\ Sound(proc[r])
    BY <1>1 DEF ProcessInv
  <2>2. r \in snapshot => ~Potent(r)
    BY <1>2 DEF Workers!Exited, Potent, Able
  <2>3. CASE r \in snapshot /\ ~Workers!Exited(r)
    <3> DEFINE q == [proc[r] EXCEPT !.guardian = "killed"]
    <3>1. proc[r].child = "wedged"
      BY <1>2, <2>3
    <3>2. /\ q \in Workers!Process /\ q.child = "wedged" /\ q.kind = proc[r].kind /\ q.mine = proc[r].mine
          /\ q.model = proc[r].model /\ q.guardian = "killed"
      BY <2>1, <3>1 DEF Workers!Process
    <3> HIDE DEF q
    <3>3. Workers!Settle(q) = q
      BY <3>2, SettleFacts
    <3>4. killed[r] = q
      BY <2>3, <3>3 DEF q
    <3>5. Sound(q) /\ Evolves(proc[r], q)
      BY <3>1, <3>2 DEF Sound, Evolves, Able, Lost, Done
    <3>6. QED
      BY <2>2, <3>2, <3>4, <3>5
  <2>4. CASE ~(r \in snapshot /\ ~Workers!Exited(r))
    BY <2>1, <2>2, <2>4, SameAge
  <2>5. QED
    BY <2>3, <2>4
<1>4. killed \in [Procs -> Workers!Process]
  BY <1>3
<1> HIDE DEF killed
<1>5. Aged(killed)
  BY <1>3, <1>4 DEF Aged
<1>6. /\ Tail(todo) # <<>> => /\ pc' = "take" /\ proc' = killed
                              /\ UNCHANGED <<task, client, then, process, identity, owned>>
      /\ Tail(todo) = <<>> => /\ Workers!Leave(then) /\ then' = "off"
                              /\ proc' = IF then = "off" THEN Workers!Disown(killed) ELSE killed
  BY DEF Workers!Await, Workers!serverVars, killed
<1>7. todo # <<>> /\ Head(todo) \in {"server", "clients"} /\ Tail(todo) \in Lists
  <2>1. todo \in Lists /\ todo # <<>>
    BY <1>1, <1>2 DEF TerminatingInv, WorkerTypes, Terminating
  <2>2. CASE todo = <<"server">>
    <3>1. Head(todo) = "server" /\ Tail(todo) = <<>>
      BY <2>2
    <3>2. QED
      BY <2>1, <3>1 DEF Lists
  <2>3. CASE todo = <<"clients">>
    <3>1. Head(todo) = "clients" /\ Tail(todo) = <<>>
      BY <2>3
    <3>2. QED
      BY <2>1, <3>1 DEF Lists
  <2>4. CASE todo = <<"server", "clients">>
    <3>1. Head(todo) = "server" /\ Tail(todo) = <<"clients">>
      BY <2>4
    <3>2. QED
      BY <2>1, <3>1 DEF Lists
  <2>5. CASE todo = <<"clients", "server">>
    <3>1. Head(todo) = "clients" /\ Tail(todo) = <<"server">>
      BY <2>5
    <3>2. QED
      BY <2>1, <3>1 DEF Lists
  <2>6. QED
    BY <2>1, <2>2, <2>3, <2>4, <2>5 DEF Lists
<1>8. CASE Tail(todo) = <<>> /\ then = "off"
  BY <1>2, <1>5, <1>6, <1>8, LeaveStep
<1>9. CASE ~(Tail(todo) = <<>> /\ then = "off")
  <2>1. Aged(proc') /\ UNCHANGED <<process, identity, owned>>
    BY <1>5, <1>6, <1>9 DEF Workers!Leave, Workers!serverVars
  <2>2. ProcessInv' /\ OneInv' /\ PortInv' /\ ModelInv'
    BY <1>2, <2>1, AgedKeeps
  <2>3. /\ ProcessInv'
        /\ \A r \in Procs :
              /\ Potent(r)' => /\ Potent(r) /\ proc'[r].kind = proc[r].kind /\ proc'[r].mine = proc[r].mine
              /\ Lost(proc[r]) => Lost(proc'[r])
              /\ Done(proc[r]) => Done(proc'[r])
    BY <1>1, <2>1, AgedFacts
  <2>4. ~Leaving =>
           /\ IF Head(todo) = "server" THEN process = None ELSE owned.clients = {}
           /\ \A r \in Procs : proc'[r].mine /\ Potent(r)' =>
                 \/ proc'[r].kind = "server" /\ r = process /\ r \in owned.server
                 \/ proc'[r].kind = "client" /\ r = client /\ r \in owned.clients
    <3> SUFFICES ASSUME ~Leaving
                 PROVE  /\ IF Head(todo) = "server" THEN process = None ELSE owned.clients = {}
                        /\ \A r \in Procs : proc'[r].mine /\ Potent(r)' =>
                              \/ proc'[r].kind = "server" /\ r = process /\ r \in owned.server
                              \/ proc'[r].kind = "client" /\ r = client /\ r \in owned.clients
      OBVIOUS
    <3>1. IF Head(todo) = "server" THEN process = None ELSE owned.clients = {}
      BY <1>1, <1>2 DEF TerminatingInv, Leaving, Terminating
    <3>2. ASSUME NEW r \in Procs, proc'[r].mine, Potent(r)'
          PROVE  \/ proc'[r].kind = "server" /\ r = process /\ r \in owned.server
                 \/ proc'[r].kind = "client" /\ r = client /\ r \in owned.clients
      <4>1. proc[r].mine /\ Potent(r) /\ proc'[r].kind = proc[r].kind /\ r \notin snapshot
        BY <1>3, <2>3, <3>2
      <4>2. QED
        BY <1>1, <1>2, <4>1 DEF OwnersInv
    <3>3. QED
      BY <3>1, <3>2
  <2>5. CASE Tail(todo) # <<>>
    <3>1. /\ pc' = "take" /\ UNCHANGED <<task, client, then, process, identity, owned>>
      BY <1>6, <2>5
    <3>2. OwnersInv'
      BY <1>2, <2>4, <3>1 DEF OwnersInv, Leaving, Terminating
    <3>3. then = "idle" => todo = <<"server", "clients">>
      BY <1>1, <1>2, <2>5 DEF TerminatingInv, Terminating
    <3>4. then # "spawn" /\ then # "finish"
      BY <1>1, <1>2, <2>5 DEF TerminatingInv, Terminating
    <3>5. ASSUME then = "idle" PROVE todo' = <<"clients">> /\ process' = None
      <4>1. todo = <<"server", "clients">>
        BY <3>3, <3>5
      <4>2. Head(todo) = "server" /\ Tail(todo) = <<"clients">>
        BY <4>1
      <4>3. ~Leaving
        BY <3>5 DEF Leaving
      <4>4. QED
        BY <1>2, <2>4, <3>1, <4>2, <4>3
    <3>6. WorkerTypes' /\ HolderInv' /\ FreshInv'
      BY <1>1, <1>2, <1>7, <3>1, <3>4 DEF WorkerTypes, HolderInv, FreshInv, Terminating
    <3>7. TerminatingInv'
      BY <1>2, <2>5, <3>1, <3>4, <3>5 DEF TerminatingInv, Terminating
    <3>8. QED
      BY <2>2, <3>2, <3>6, <3>7 DEF WorkerInv
  <2>6. CASE Tail(todo) = <<>>
    <3>1. /\ then \in {"idle", "spawn", "finish"} /\ pc' = then /\ ~Leaving
      BY <1>1, <1>6, <1>9, <2>6 DEF WorkerTypes, Workers!Leave, Leaving
    <3>2. then' = "off"
            /\ (IF then = "idle" THEN task' = None /\ client' = None ELSE UNCHANGED <<task, client>>)
      BY <1>6, <2>6, <3>1 DEF Workers!Leave
    <3>3. /\ then = "spawn" => process = None /\ client = None /\ task # None
          /\ then = "finish" => client \in Procs
          /\ then = "idle" => process = None /\ owned.clients = {}
      <4>1. CASE then = "spawn"
        <5>1. todo = <<"server">> /\ client = None /\ task # None
          BY <1>1, <1>2, <4>1 DEF TerminatingInv, Terminating
        <5>2. Head(todo) = "server"
          BY <5>1
        <5>3. QED
          BY <2>4, <3>1, <4>1, <5>1, <5>2
      <4>2. CASE then = "finish"
        BY <1>1, <1>2, <4>2 DEF TerminatingInv, WorkerTypes, Terminating
      <4>3. CASE then = "idle"
        <5>1. todo = <<"clients">> /\ process = None
          BY <1>1, <1>2, <2>6, <4>3 DEF TerminatingInv, Terminating
        <5>2. Head(todo) = "clients"
          BY <5>1
        <5>3. QED
          BY <2>4, <3>1, <4>3, <5>1, <5>2
      <4>4. QED
        BY <3>1, <4>1, <4>2, <4>3
    <3>4. OwnersInv'
      BY <2>1, <2>4, <3>1, <3>2, <3>3 DEF OwnersInv, Leaving, Terminating
    <3>5. WorkerTypes'
      BY <1>1, <1>2, <1>7, <2>1, <3>1, <3>2 DEF WorkerTypes, Terminating
    <3>6. HolderInv' /\ TerminatingInv'
      BY <1>1, <1>2, <2>1, <3>1, <3>2, <3>3 DEF HolderInv, TerminatingInv, Terminating, WorkerTypes
    <3>7. FreshInv'
      BY <1>1, <1>2, <2>1, <2>3, <3>1, <3>2, <3>3 DEF FreshInv, Terminating
    <3>8. QED
      BY <2>2, <3>4, <3>5, <3>6, <3>7 DEF WorkerInv
  <2>7. QED
    BY <2>5, <2>6
<1>10. QED
  BY <1>8, <1>9

(* The process the worker starts is one nothing is left of.                *)
LEMMA NewProcess ==
    ASSUME Workers!WorkerAssumption, WorkerInv, task \in Models, NEW kind \in {"server", "client"},
           NEW r \in Procs, Workers!Lowest(r), proc' = [proc EXCEPT ![r] = Workers!New(kind)]
    PROVE  /\ ProcessInv' /\ Potent(r)' /\ ~Potent(r)
           /\ proc'[r].kind = kind /\ proc'[r].mine /\ proc'[r].model = task /\ proc'[r].child = "none"
           /\ \A s \in Procs : s # r => proc'[s] = proc[s] /\ (Potent(s)' <=> Potent(s))
<1>1. ProcessInv
  BY DEF WorkerInv
<1>2. Workers!New(kind) \in Workers!Process /\ Sound(Workers!New(kind)) /\ Able(Workers!New(kind))
  BY DEF Workers!New, Workers!Process, Sound, Able
<1>3. /\ Workers!New(kind).kind = kind /\ Workers!New(kind).mine /\ Workers!New(kind).model = task
      /\ Workers!New(kind).child = "none"
  BY DEF Workers!New
<1>4. /\ proc' \in [Procs -> Workers!Process] /\ proc'[r] = Workers!New(kind)
      /\ \A s \in Procs : s # r => proc'[s] = proc[s]
  BY <1>1, <1>2 DEF ProcessInv
<1>5. ~Potent(r)
  BY DEF Workers!Lowest, Workers!Free, Workers!Present, Workers!Alive, Workers!Exited, Potent, Able
<1>6. ProcessInv'
  BY <1>1, <1>2, <1>4 DEF ProcessInv
<1>7. QED
  BY <1>2, <1>3, <1>4, <1>5, <1>6 DEF Potent

LEMMA SpawnStep ==
    ASSUME Workers!WorkerAssumption, WorkerInv, NEW r \in Procs, Workers!Spawn(r)
    PROVE  WorkerInv'
<1>1. /\ ProcessInv /\ WorkerTypes /\ HolderInv /\ TerminatingInv /\ OwnersInv /\ OneInv /\ PortInv
      /\ ModelInv /\ FreshInv
  BY DEF WorkerInv
<1>2. /\ pc = "spawn" /\ pc' = "own" /\ process' = r /\ spoiled' = FALSE
      /\ UNCHANGED <<task, identity, client, owned, todo, then, snapshot, foreign>>
      /\ Workers!Lowest(r) /\ proc' = [proc EXCEPT ![r] = Workers!New("server")]
  BY DEF Workers!Spawn, Workers!callVars, Workers!envVars
<1>3. task \in Models /\ client = None /\ process = None /\ identity = None
  BY <1>1, <1>2 DEF HolderInv, WorkerTypes
<1>4. /\ ProcessInv' /\ Potent(r)' /\ ~Potent(r)
      /\ proc'[r].kind = "server" /\ proc'[r].mine /\ proc'[r].model = task /\ proc'[r].child = "none"
      /\ \A s \in Procs : s # r => proc'[s] = proc[s] /\ (Potent(s)' <=> Potent(s))
  BY <1>2, <1>3, NewProcess
<1>5. None \notin Procs /\ None \notin Models
  BY DEF Workers!WorkerAssumption
<1>6. \A s \in Procs : ~(proc[s].mine /\ Potent(s))
  BY <1>1, <1>2, <1>3, <1>5 DEF OwnersInv, Leaving, Terminating
<1>7. WorkerTypes'
  BY <1>1, <1>2 DEF WorkerTypes
<1>8. HolderInv'
  BY <1>2, <1>3, <1>4, <1>5 DEF HolderInv
<1>9. TerminatingInv' /\ FreshInv'
  BY <1>2 DEF TerminatingInv, FreshInv, Terminating
<1>10. OwnersInv'
  BY <1>2, <1>4, <1>6 DEF OwnersInv
<1>11. OneInv'
  BY <1>1, <1>4, <1>6 DEF OneInv
<1>12. Alone => Alone'
  BY <1>4 DEF Alone
<1>13. PortInv'
  BY <1>1, <1>2, <1>3, <1>4, <1>12 DEF PortInv
<1>14. ModelInv'
  BY <1>2, <1>3, <1>4, <1>6 DEF ModelInv
<1>15. QED
  BY <1>4, <1>7, <1>8, <1>9, <1>10, <1>11, <1>13, <1>14 DEF WorkerInv

LEMMA ClientStep ==
    ASSUME Workers!WorkerAssumption, WorkerInv, NEW r \in Procs, Workers!RunClient(r)
    PROVE  WorkerInv'
<1>1. /\ ProcessInv /\ WorkerTypes /\ HolderInv /\ TerminatingInv /\ OwnersInv /\ OneInv /\ PortInv
      /\ ModelInv /\ FreshInv
  BY DEF WorkerInv
<1>2. /\ pc = "runClient" /\ pc' = "ownClient" /\ client' = r
      /\ UNCHANGED <<task, process, identity, owned, todo, then, snapshot, spoiled, foreign>>
      /\ Workers!Lowest(r) /\ proc' = [proc EXCEPT ![r] = Workers!New("client")]
  BY DEF Workers!RunClient, Workers!serverVars, Workers!callVars, Workers!envVars
<1>3. task \in Models /\ client = None /\ identity = task /\ ~spoiled
  BY <1>1, <1>2 DEF HolderInv, WorkerTypes, FreshInv
<1>4. /\ ProcessInv' /\ Potent(r)' /\ ~Potent(r)
      /\ proc'[r].kind = "client" /\ proc'[r].mine /\ proc'[r].model = task /\ proc'[r].child = "none"
      /\ \A s \in Procs : s # r => proc'[s] = proc[s] /\ (Potent(s)' <=> Potent(s))
  BY <1>2, <1>3, NewProcess
<1>5. None \notin Procs /\ None \notin Models
  BY DEF Workers!WorkerAssumption
<1>6. Alone /\ SettledOn(task)
  <2>1. PICK m : m = task
    OBVIOUS
  <2>2. SettledOn(identity) /\ Alone
    BY <1>1, <1>3, <1>5 DEF ModelInv, PortInv
  <2>3. QED
    BY <1>3, <2>2
<1>7. \A s \in Procs : Potent(s) => proc[s].mine /\ proc[s].kind = "server"
  BY <1>1, <1>2, <1>3, <1>5, <1>6 DEF OwnersInv, Leaving, Terminating, Alone
<1>8. WorkerTypes' /\ HolderInv'
  BY <1>1, <1>2, <1>3, <1>5 DEF WorkerTypes, HolderInv
<1>9. TerminatingInv' /\ FreshInv'
  BY <1>2, <1>3 DEF TerminatingInv, FreshInv, Terminating
<1>10. OwnersInv'
  BY <1>1, <1>2, <1>3, <1>4, <1>5 DEF OwnersInv, Leaving, Terminating
<1>11. OneInv'
  BY <1>1, <1>4, <1>7 DEF OneInv
<1>12. Alone'
  BY <1>4, <1>6 DEF Alone
<1>13. PortInv'
  BY <1>1, <1>2, <1>4, <1>12 DEF PortInv
<1>14. \A m : SettledOn(m) => SettledOn(m)'
  BY <1>2, <1>4 DEF SettledOn
<1>15. ModelInv'
  <2>1. PICK m : m = task
    OBVIOUS
  <2>2. SettledOn(m)'
    BY <1>6, <1>14, <2>1
  <2>3. SettledOn(identity)'
    <3>1. m = identity'
      BY <1>2, <1>3, <2>1
    <3>2. QED
      BY <2>2, <3>1 DEF SettledOn
  <2>4. ASSUME NEW s \in Procs, proc'[s].mine, Potent(s)', proc'[s].kind = "client"
        PROVE  SettledOn(proc[s].model)'
    <3>1. s = r
      BY <1>4, <1>7, <2>4
    <3>2. m = proc'[s].model
      BY <1>4, <2>1, <3>1
    <3>3. QED
      BY <2>2, <3>2 DEF SettledOn
  <2>5. QED
    BY <2>3, <2>4 DEF ModelInv
<1>16. QED
  BY <1>4, <1>8, <1>9, <1>10, <1>11, <1>13, <1>15 DEF WorkerInv

LEMMA WorkerStep ==
    ASSUME Workers!WorkerAssumption, WorkerInv, [Workers!Next]_(Workers!vars)
    PROVE  WorkerInv'
<1>1. CASE UNCHANGED Workers!vars
  <2>1. Aged(proc')
    BY <1>1, SameAge DEF Workers!vars, Aged, WorkerInv, ProcessInv
  <2>2. Outside
    BY <1>1 DEF Workers!vars, Workers!workerVars, Workers!serverVars, Workers!callVars, Workers!envVars,
                Outside, WorkerInv, WorkerTypes
  <2>3. QED
    BY <2>1, <2>2, OutsideKeeps
<1>2. CASE Workers!WorkerStep
  BY <1>2, TakeStep, SignalStep, AwaitStep, MoveStep, PingStep, SpawnStep, ClientStep
     DEF Workers!WorkerStep, Workers!TerminateAll
<1>3. CASE Workers!Start \/ Workers!Quit \/ Workers!Interrupt \/ Workers!Revoke
             \/ \E m \in Models : Workers!Claim(m)
  BY <1>3, MoveStep
<1>4. CASE Workers!Crash \/ Workers!ForeignLeaves
  BY <1>4, CrashStep, ForeignStep
<1>5. ASSUME NEW r \in Procs,
             \/ Workers!Guardian(r) \/ Workers!ChildWedges(r) \/ Workers!GuardianKilled(r)
             \/ Workers!ServerBinds(r) \/ Workers!ChildFails(r) \/ Workers!ClientAsks(r)
             \/ Workers!ClientSucceeds(r)
      PROVE  WorkerInv'
  <2>1. CASE Workers!Guardian(r) \/ Workers!ChildWedges(r) \/ Workers!GuardianKilled(r)
    BY <2>1, GuardianStep, OutsideKeeps
  <2>2. CASE Workers!ServerBinds(r)
    BY <2>2, BindStep
  <2>3. CASE Workers!ChildFails(r) \/ Workers!ClientAsks(r) \/ Workers!ClientSucceeds(r)
    BY <2>3, CommandStep, OutsideKeeps
  <2>4. QED
    BY <1>5, <2>1, <2>2, <2>3
<1>6. QED
  BY <1>1, <1>2, <1>3, <1>4, <1>5 DEF Workers!Next

LEMMA WorkerImplies ==
    ASSUME Workers!WorkerAssumption, WorkerInv
    PROVE  Workers!RightModel /\ Workers!OneOfEach /\ Workers!FreshAfterFailure
<1>1. ProcessInv /\ OneInv /\ FreshInv
  BY DEF WorkerInv
<1>2. Workers!RightModel
  BY <1>1 DEF ProcessInv, Sound, Workers!RightModel, Workers!Beyond
<1>3. ASSUME NEW r \in Procs, Workers!Alive(r), ~Workers!Beyond(r) PROVE Potent(r)
  <2>1. proc[r] \in Workers!Process /\ Sound(proc[r])
    BY <1>1 DEF ProcessInv
  <2>2. proc[r].guardian \in {"up", "stopping"}
    BY <1>3, <2>1, ProcessFields DEF Sound, Workers!Alive, Workers!Beyond
  <2>3. QED
    BY <1>3, <2>2 DEF Workers!Alive, Potent, Able
<1>4. Workers!OneOfEach
  BY <1>1, <1>3 DEF OneInv, Workers!OneOfEach
<1>5. Workers!FreshAfterFailure
  BY <1>1 DEF FreshInv, Workers!FreshAfterFailure
<1>6. QED
  BY <1>2, <1>4, <1>5
-----------------------------------------------------------------------------
(* The invariant of the run: that of the system a behaviour is of.         *)
EvaluationInv ==
    /\ system = "workers" => WorkerInv
    /\ system = "manifests" => ManifestInv
    /\ system = "replay" => ReplayInv

LEMMA EvaluationInit == Init => EvaluationInv
BY EvaluationAssumption, WorkerInit, ManifestInit, ReplayInit DEF Init, EvaluationInv

LEMMA EvaluationStep == EvaluationInv /\ [Next]_vars => EvaluationInv'
<1> SUFFICES ASSUME EvaluationInv, [Next]_vars PROVE EvaluationInv'
  OBVIOUS
<1>1. /\ Workers!WorkerAssumption /\ Manifests!ManifestAssumption /\ Replay!ReplayAssumption
      /\ system' = system
  BY EvaluationAssumption DEF Next, vars
<1>2. CASE system = "workers"
  <2>1. WorkerInv /\ [Workers!Next]_(Workers!vars)
    BY <1>2 DEF EvaluationInv, Next, vars, workerVars, Workers!vars, Workers!workerVars, Workers!serverVars,
                Workers!callVars, Workers!envVars
  <2>2. WorkerInv'
    BY <1>1, <2>1, WorkerStep
  <2>3. QED
    BY <1>1, <1>2, <2>2 DEF EvaluationInv
<1>3. CASE system = "manifests"
  <2>1. ManifestInv /\ [Manifests!Next]_(Manifests!vars)
    BY <1>3 DEF EvaluationInv, Next, vars, workerVars, manifestVars, Manifests!vars, Manifests!storeVars
  <2>2. ManifestInv'
    BY <1>1, <2>1, ManifestStep
  <2>3. QED
    BY <1>1, <1>3, <2>2 DEF EvaluationInv
<1>4. CASE system = "replay"
  <2>1. ReplayInv /\ [Replay!Next]_(Replay!vars)
    BY <1>4 DEF EvaluationInv, Next, vars, replayVars, Replay!vars
  <2>2. ReplayInv'
    BY <1>1, <2>1, ReplayStep
  <2>3. QED
    BY <1>1, <1>4, <2>2 DEF EvaluationInv
<1>5. QED
  BY <1>1, <1>2, <1>3, <1>4 DEF EvaluationInv

(* What every evaluation keeps, of any number of models, tasks, processes, *)
(* builders, pages and steps.                                              *)
THEOREM EvaluationInvariance == Spec => []EvaluationInv
BY EvaluationInit, EvaluationStep, PTL DEF Spec

(* A worker takes a result only from a client that asked the model its     *)
(* task names, and keeps no server a failed client left in the middle of   *)
(* an episode (load_or_reuse, _wait_ready and the guardians).              *)
THEOREM ResultsOfTheModel == Spec => []RightModel
<1>1. EvaluationInv => RightModel
  BY EvaluationAssumption, WorkerImplies DEF EvaluationInv, RightModel
<1>2. QED
  BY <1>1, EvaluationInvariance, PTL

(* Workers that are killed, interrupted and restarted never run two        *)
(* servers each, and no two clients under control run at all.              *)
THEOREM ProcessesExclusive == Spec => []OneOfEach
<1>1. EvaluationInv => OneOfEach
  BY EvaluationAssumption, WorkerImplies DEF EvaluationInv, OneOfEach
<1>2. QED
  BY <1>1, EvaluationInvariance, PTL

(* A manifest that a queued task names is stored, whole and of its task's  *)
(* key and size, whichever builders died and whatever was rebuilt.         *)
THEOREM ManifestsStay == Spec => []Replayable
<1>1. EvaluationInv => Replayable
  BY ManifestImplies DEF EvaluationInv, Replayable
<1>2. QED
  BY <1>1, EvaluationInvariance, PTL

(* What validate_submission_coverage accepts partitions every key's        *)
(* trials: each is counted exactly once, of any number of ranges.          *)
THEOREM CoverageExact == Spec => []AcceptedCoverage
<1>1. EvaluationInv => AcceptedCoverage
  BY ManifestCovers DEF EvaluationInv, AcceptedCoverage
<1>2. QED
  BY <1>1, EvaluationInvariance, PTL

(* An episode draws what its manifest entry recorded and then the          *)
(* consecutive numbers of the same stream, in any batch, attempt and       *)
(* process (GlobalRngDomain).                                              *)
THEOREM EpisodesReplay == Spec => []EpisodeReplays
<1>1. EvaluationInv => EpisodeReplays
  BY ReplayImplies DEF EvaluationInv, EpisodeReplays
<1>2. QED
  BY <1>1, EvaluationInvariance, PTL
=============================================================================
