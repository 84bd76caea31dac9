---------------------------- MODULE ModelProofs -----------------------------
(***************************************************************************)
(* What the run of MCModel checks of its systems, for every value of its   *)
(* constants.  The training runs bring the invariant of TrainingRunProofs, *)
(* the sample plan and the readers those of DataProofs; the invariants of  *)
(* the statistics, the attention and the denoising engine are here.        *)
(***************************************************************************)
EXTENDS MCModel, Integers, TLAPS

-----------------------------------------------------------------------------
(* Data that never changed, a pool that leaves out no root that had        *)
(* episodes in the data c it was taken from, and a file of statistics that *)
(* may be loaded.                                                          *)
Original == \A x \in 1 .. Roots : corpus[x] \in {0, 1}
Pools    == [1 .. Roots -> Int]
Corpora  == [1 .. Roots -> Nat]
Files    == [whole : BOOLEAN, schema : {"old", "new"}, pool : Pools, fingerprint : Corpora]
Of(v, c) == v = c \/ (kind \in Stats!Sharded /\ v = -c)
Full(p, c) ==
    /\ p \in Pools
    /\ \A x \in 1 .. Roots : p[x] = 0 => kind \in Stats!Sharded /\ c[x] = 0
    /\ Original => \A x \in 1 .. Roots : Of(p[x], corpus[x])
Good(f)  ==
    /\ f.whole /\ f.schema = "new" /\ Full(f.pool, f.fingerprint)
    /\ kind = "ebench" => f.fingerprint = f.pool

Places == Stats!Loading \cup {"off", "failed", "up", "trains"}
Build  == {"scan", "pool", "open", "write", "replace"}
RankStates == [pc : Places, loaded : [pool : Pools, taken : Corpora, of : Corpora] \cup {None}]
StatsTypes ==
    /\ kind \in StatsSources /\ corpus \in Corpora
    /\ kind \notin Stats!Sharded => \A x \in 1 .. Roots : corpus[x] # 0
    /\ file \in Files \cup {None}
    /\ tmp \in [Jobs \cup {"tmp"} -> Files \cup {None}]
    /\ shards \in Pools
    /\ rank \in [Jobs -> [Stats!Ranks -> RankStates]]
    /\ scan \in [Jobs -> [next : 1 .. Roots, pool : Pools]]
    /\ run \in [Jobs -> [artifact : Pools \cup {None}, saved : BOOLEAN]]

(* What stands under the file's name may be loaded, or is of an old schema.*)
FileInv ==
    /\ file = None \/ Good(file) \/ (kind = "gr1" /\ file = Stats!Legacy)
    /\ Original => \A x \in 1 .. Roots : shards[x] = 0 \/ Of(shards[x], corpus[x])

AloneInv == kind \notin Together => \A i, j \in Jobs : Stats!Alive(i) /\ Stats!Alive(j) => i = j

(* What rank 0 of a job has in hand while it builds; a file that meanwhile *)
(* stands is somebody else's, who may build at the same time, and then of  *)
(* the same data.                                                          *)
BuildOf(j) ==
    /\ \A r \in Stats!Ranks \ {0} : rank[j][r].pc \notin Build \cup {"clean"}
    /\ rank[j][0].pc \in {"pool", "clean"} => kind \in Stats!Sharded
    /\ rank[j][0].pc = "look" => scan[j].next = 1
    /\ rank[j][0].pc = "scan" /\ kind \in Stats!Sharded =>
          \A x \in 1 .. scan[j].next - 1 : shards[x] = 0 => corpus[x] = 0
    /\ rank[j][0].pc = "pool" => \A x \in 1 .. Roots : shards[x] = 0 => corpus[x] = 0
    /\ rank[j][0].pc \in {"open", "write"} =>
          Full(scan[j].pool, corpus) /\ (kind \notin Stats!Sharded => scan[j].pool = corpus)
    /\ rank[j][0].pc = "write" => tmp[Stats!Temp(j)] # None
    /\ rank[j][0].pc = "replace" =>
          /\ tmp[Stats!Temp(j)] # None /\ Good(tmp[Stats!Temp(j)])
          /\ kind \notin Stats!Sharded => tmp[Stats!Temp(j)].pool = corpus
    /\ rank[j][0].pc \in Build /\ Stats!Present => kind \notin Stats!OneName /\ file.pool = corpus
BuildInv == \A j \in Jobs : BuildOf(j)

(* What a rank has loaded, and that the file is still that when its run    *)
(* begins.                                                                 *)
LoadedOf(j, r) ==
    /\ rank[j][r].loaded # None =>
         /\ Full(rank[j][r].loaded.pool, rank[j][r].loaded.taken) /\ (Original => rank[j][r].loaded.of = corpus)
         /\ kind = "ebench" => rank[j][r].loaded.pool = rank[j][r].loaded.of
    /\ rank[j][r].pc = "up" => Stats!Present /\ rank[j][r].loaded.pool = file.pool
LoadedInv == \A j \in Jobs, r \in Stats!Ranks : LoadedOf(j, r)

(* A run's ranks all have the statistics of its directory, and those that  *)
(* still look for theirs will find the same.                               *)
TransformOf(j, r) ==
    /\ rank[j][r].pc = "trains" => rank[j][r].loaded.pool = run[j].artifact
    /\ rank[j][r].pc = "trains" /\ ~run[j].saved => rank[j][0].pc = "trains"
    /\ ~run[j].saved /\ rank[j][0].pc = "trains" /\ rank[j][r].pc \in Stats!Loading \cup {"up"} =>
          Stats!Present /\ file.pool = run[j].artifact
TransformInv == \A j \in Jobs, r \in Stats!Ranks : TransformOf(j, r)

StatsInv == StatsTypes /\ FileInv /\ AloneInv /\ BuildInv /\ LoadedInv /\ TransformInv
-----------------------------------------------------------------------------
LEMMA StatsAssumed ==
    /\ Stats!StatsAssumption /\ Together \cap Stats!OneName = {} /\ None \notin Files
    /\ None \notin [pool : Pools, taken : Corpora, of : Corpora]
  BY ModelAssumption DEF Stats!StatsAssumption, Files, Pools, Corpora

LEMMA StatsBasics ==
    /\ 0 \in Stats!Ranks /\ Roots \in Nat \ {0} /\ None \notin Files
    /\ Stats!Empty \in Pools /\ Stats!Empty \in Corpora /\ Stats!Legacy \in Files /\ Stats!Torn \in Files
    /\ Stats!Fresh \in [next : 1 .. Roots, pool : Pools] /\ Stats!Fresh.next = 1
<1>1. 0 \in Stats!Ranks /\ Roots \in Nat \ {0} /\ None \notin Files
  BY StatsAssumed DEF Stats!StatsAssumption, Stats!Ranks
<1>2. Stats!Empty \in Pools /\ Stats!Empty \in Corpora
  BY DEF Stats!Empty, Pools, Corpora
<1>3. Stats!Legacy \in Files
  BY <1>2 DEF Stats!Legacy, Files
<1>4. Stats!Torn \in Files
  BY <1>3 DEF Stats!Torn, Files
<1>5. QED
  BY <1>1, <1>2, <1>3, <1>4 DEF Stats!Fresh

LEMMA PoolFacts ==
    ASSUME StatsTypes
    PROVE  /\ corpus \in Pools /\ corpus \in Corpora
           /\ \A p \in Pools :
                  /\ Stats!Stats(p) \in Files /\ Stats!Stats(p).whole /\ Stats!Stats(p).schema = "new"
                  /\ Stats!Stats(p).pool = p /\ Stats!Stats(p).fingerprint = corpus
           /\ \A p, c : Full(p, c) => p \in Pools
<1>1. corpus \in Pools /\ corpus \in Corpora
  BY DEF StatsTypes, Pools, Corpora
<1>2. QED
  BY <1>1 DEF Stats!Stats, Files, Full, Pools

Others(j, r) == \A i \in Jobs, s \in Stats!Ranks : i # j \/ s # r => rank'[i][s] = rank[i][s]
Moves(j, r, l) ==
    /\ rank' \in [Jobs -> [Stats!Ranks -> RankStates]] /\ Others(j, r)
    /\ rank'[j][r].pc = l /\ rank'[j][r].loaded = rank[j][r].loaded

LEMMA Moved ==
    ASSUME StatsTypes, NEW j \in Jobs, NEW r \in Stats!Ranks, NEW l \in Places, Stats!To(j, r, l)
    PROVE  Moves(j, r, l)
<1>1. rank \in [Jobs -> [Stats!Ranks -> RankStates]] /\ rank[j][r] \in RankStates
  BY DEF StatsTypes
<1>2. rank' = [rank EXCEPT ![j] = [rank[j] EXCEPT ![r] = [rank[j][r] EXCEPT !.pc = l]]]
  BY DEF Stats!To
<1> DEFINE q == [rank[j][r] EXCEPT !.pc = l]
<1>3. q \in RankStates /\ q.pc = l /\ q.loaded = rank[j][r].loaded
  BY <1>1 DEF RankStates
<1> HIDE DEF q
<1>4. [rank[j] EXCEPT ![r] = q] \in [Stats!Ranks -> RankStates]
  BY <1>1, <1>3
<1>5. QED
  BY <1>1, <1>2, <1>3, <1>4 DEF Moves, Others, q

LEMMA FrameFacts ==
    ASSUME StatsTypes, UNCHANGED <<kind, corpus, file>>
    PROVE  /\ (Stats!Present' <=> Stats!Present) /\ (Original' <=> Original)
           /\ \A p, c : Full(p, c)' <=> Full(p, c)
           /\ \A f : Good(f)' <=> Good(f)
           /\ \A j : Stats!Temp(j)' = Stats!Temp(j)
<1>1. \A p, c : Full(p, c)' <=> Full(p, c)
  BY DEF Full, Of, Original
<1>2. QED
  BY <1>1 DEF Stats!Present, Original, Good, Stats!Temp

LEMMA AloneKeeps ==
    ASSUME AloneInv, kind' = kind, NEW j \in Jobs, NEW r \in Stats!Ranks,
           rank[j][r].pc \notin {"off", "failed"}, Others(j, r)
    PROVE  AloneInv'
<1>1. ASSUME NEW i \in Jobs, Stats!Alive(i)' PROVE Stats!Alive(i)
  BY <1>1 DEF Stats!Alive, Others
<1>2. QED
  BY <1>1 DEF AloneInv

LEMMA BuildFrame ==
    ASSUME StatsTypes, NEW i \in Jobs, BuildOf(i), \A s \in Stats!Ranks : rank'[i][s].pc = rank[i][s].pc,
           scan'[i] = scan[i], UNCHANGED <<kind, corpus, file, shards>>,
           tmp'[Stats!Temp(i)] = tmp[Stats!Temp(i)]
    PROVE  BuildOf(i)'
<1>1. /\ (Stats!Present' <=> Stats!Present) /\ Stats!Temp(i)' = Stats!Temp(i)
      /\ \A p, c : Full(p, c)' <=> Full(p, c)
      /\ \A f : Good(f)' <=> Good(f)
  BY FrameFacts
<1>2. Full(scan[i].pool, corpus) => Full(scan[i].pool, corpus)'
  BY <1>1 DEF Full, Of, Original
<1>3. Good(tmp[Stats!Temp(i)]) => Good(tmp[Stats!Temp(i)])'
  BY <1>1 DEF Good, Full, Of, Original
<1>4. 0 \in Stats!Ranks
  BY StatsBasics
<1>5. QED
  BY <1>1, <1>2, <1>3, <1>4 DEF BuildOf

LEMMA LoadedFrame ==
    ASSUME NEW i \in Jobs, NEW s \in Stats!Ranks, LoadedOf(i, s), rank'[i][s] = rank[i][s],
           UNCHANGED <<kind, corpus, file>>
    PROVE  LoadedOf(i, s)'
  BY DEF LoadedOf, Full, Of, Original, Stats!Present

LEMMA TransformFrame ==
    ASSUME NEW i \in Jobs, NEW s \in Stats!Ranks, TransformOf(i, s), rank'[i][s] = rank[i][s],
           rank'[i][0].pc = rank[i][0].pc, run'[i] = run[i], UNCHANGED <<kind, file>>
    PROVE  TransformOf(i, s)'
  BY DEF TransformOf, Stats!Present

(* A rank that moves on without loading, building or training.             *)
LEMMA MoveKeeps ==
    ASSUME StatsInv, NEW j \in Jobs, NEW r \in Stats!Ranks, NEW l \in {"load", "wait", "failed"},
           Moves(j, r, l), rank[j][r].pc \in Stats!Loading \cup {"up"},
           UNCHANGED <<kind, corpus, file, tmp, shards, scan, run>>
    PROVE  StatsInv'
<1>1. /\ StatsTypes /\ FileInv /\ AloneInv /\ BuildInv /\ LoadedInv /\ TransformInv
  BY DEF StatsInv
<1>2. 0 \in Stats!Ranks
  BY StatsBasics
<1>3. StatsTypes'
  BY <1>1 DEF StatsTypes, Moves
<1>4. FileInv'
  BY <1>1, FrameFacts DEF FileInv, Good, Full, Of, Original
<1>5. AloneInv'
  BY <1>1, AloneKeeps DEF Moves, Stats!Loading
<1>6. ASSUME NEW i \in Jobs PROVE BuildOf(i)'
  <2>1. CASE i # j
    BY <1>1, <2>1, BuildFrame DEF BuildInv, Moves, Others
  <2>2. CASE i = j /\ r # 0
    <3>1. rank'[j][0] = rank[j][0] /\ \A s \in Stats!Ranks \ {0} : rank'[j][s].pc \notin Build \cup {"clean"}
      BY <1>1, <1>2, <2>2 DEF BuildInv, BuildOf, Moves, Others, Build
    <3>2. BuildOf(j)
      BY <1>1 DEF BuildInv
    <3>3. Stats!Present' <=> Stats!Present
      BY <1>1, FrameFacts
    <3>4. QED
      BY <2>2, <3>1, <3>2, <3>3 DEF BuildOf, Full, Of, Original, Good, Stats!Temp
  <2>3. CASE i = j /\ r = 0
    BY <1>1, <2>3 DEF BuildInv, BuildOf, Moves, Others, Build
  <2>4. QED
    BY <2>1, <2>2, <2>3
<1>7. ASSUME NEW i \in Jobs, NEW s \in Stats!Ranks PROVE LoadedOf(i, s)'
  <2>1. CASE i # j \/ s # r
    BY <1>1, <2>1, LoadedFrame DEF LoadedInv, Moves, Others
  <2>2. CASE i = j /\ s = r
    BY <1>1, <2>2 DEF LoadedInv, LoadedOf, Moves, Full, Of, Original
  <2>3. QED
    BY <2>1, <2>2
<1>8. ASSUME NEW i \in Jobs, NEW s \in Stats!Ranks PROVE TransformOf(i, s)'
  <2>1. CASE i # j
    BY <1>1, <1>2, <2>1, TransformFrame DEF TransformInv, Moves, Others
  <2>2. CASE i = j
    <3>1. TransformOf(j, s) /\ TransformOf(j, r) /\ TransformOf(j, 0)
      BY <1>1, <1>2 DEF TransformInv
    <3>2. Stats!Present' <=> Stats!Present
      BY <1>1, FrameFacts
    <3>3. rank[j][r].pc # "trains"
      BY DEF Stats!Loading
    <3>4. CASE r = 0
      BY <1>2, <2>2, <3>1, <3>2, <3>3, <3>4 DEF TransformOf, Moves, Others
    <3>5. CASE r # 0
      BY <1>2, <2>2, <3>1, <3>2, <3>3, <3>5 DEF TransformOf, Moves, Others
    <3>6. QED
      BY <3>4, <3>5
  <2>3. QED
    BY <2>1, <2>2
<1>9. QED
  BY <1>3, <1>4, <1>5, <1>6, <1>7, <1>8 DEF StatsInv, BuildInv, LoadedInv, TransformInv

(* What another job has in hand while rank 0 of a job builds.              *)
LEMMA OtherBuilds ==
    ASSUME StatsTypes, AloneInv, BuildInv, NEW j \in Jobs, NEW i \in Jobs, i # j,
           rank[j][0].pc \in Stats!Loading, Others(j, 0), scan'[i] = scan[i],
           UNCHANGED <<kind, corpus, file>>, \A n : n # Stats!Temp(j) => tmp'[n] = tmp[n],
           kind \in Together => shards' = shards
    PROVE  BuildOf(i)'
<1>1. 0 \in Stats!Ranks /\ BuildOf(i) /\ \A s \in Stats!Ranks : rank'[i][s] = rank[i][s]
  BY StatsBasics DEF BuildInv, Others
<1>2. CASE kind \in Together
  <2>1. Stats!Temp(i) = i /\ Stats!Temp(j) = j
    BY <1>2, StatsAssumed DEF Stats!Temp
  <2>2. QED
    BY <1>1, <1>2, <2>1, BuildFrame
<1>3. CASE kind \notin Together
  <2>1. ~Stats!Alive(i)
    BY <1>1, <1>3 DEF AloneInv, Stats!Alive, Stats!Loading
  <2>2. \A s \in Stats!Ranks : rank'[i][s].pc \in {"off", "failed"}
    BY <1>1, <2>1 DEF Stats!Alive
  <2>3. QED
    BY <1>1, <2>2 DEF BuildOf, Build
<1>4. QED
  BY <1>2, <1>3

(* Rank 0 of a job builds, and the file stays as it is.                    *)
LEMMA BuildKeeps ==
    ASSUME StatsInv, NEW j \in Jobs, NEW l \in Stats!Loading \cup {"failed"}, Moves(j, 0, l),
           rank[j][0].pc \in Stats!Loading, UNCHANGED <<kind, corpus, file, run>>,
           StatsTypes', FileInv', BuildOf(j)', \A i \in Jobs : i # j => scan'[i] = scan[i],
           \A n : n # Stats!Temp(j) => tmp'[n] = tmp[n], kind \in Together => shards' = shards
    PROVE  StatsInv'
<1>1. /\ StatsTypes /\ FileInv /\ AloneInv /\ BuildInv /\ LoadedInv /\ TransformInv
  BY DEF StatsInv
<1>2. 0 \in Stats!Ranks /\ Others(j, 0)
  BY StatsBasics DEF Moves
<1>3. AloneInv'
  BY <1>1, <1>2, AloneKeeps DEF Stats!Loading
<1>4. ASSUME NEW i \in Jobs PROVE BuildOf(i)'
  BY <1>1, <1>2, OtherBuilds
<1>5. ASSUME NEW i \in Jobs, NEW s \in Stats!Ranks PROVE LoadedOf(i, s)'
  <2>1. CASE i # j \/ s # 0
    BY <1>1, <1>2, <2>1, LoadedFrame DEF LoadedInv, Others
  <2>2. CASE i = j /\ s = 0
    BY <1>1, <2>2 DEF LoadedInv, LoadedOf, Moves, Full, Of, Original, Stats!Loading
  <2>3. QED
    BY <2>1, <2>2
<1>6. ASSUME NEW i \in Jobs, NEW s \in Stats!Ranks PROVE TransformOf(i, s)'
  <2>1. CASE i # j
    BY <1>1, <1>2, <2>1, TransformFrame DEF TransformInv, Others
  <2>2. CASE i = j
    <3>1. TransformOf(j, s) /\ rank[j][0].pc # "trains" /\ l # "trains"
      BY <1>1 DEF TransformInv, Stats!Loading
    <3>2. rank'[j][0].pc # "trains" /\ (s # 0 => rank'[j][s] = rank[j][s])
      BY <1>2, <3>1 DEF Moves, Others
    <3>3. QED
      BY <2>2, <3>1, <3>2 DEF TransformOf
  <2>3. QED
    BY <2>1, <2>2
<1>7. QED
  BY <1>3, <1>4, <1>5, <1>6 DEF StatsInv, BuildInv, LoadedInv, TransformInv
-----------------------------------------------------------------------------
LEMMA LookStep ==
    ASSUME StatsInv, NEW j \in Jobs, NEW r \in Stats!Ranks, Stats!Look(j, r)
    PROVE  StatsInv'
<1>1. StatsTypes /\ FileInv /\ BuildInv /\ 0 \in Stats!Ranks
  BY StatsBasics DEF StatsInv
<1>2. CASE Stats!Present \/ r # 0
  <2>1. PICK l \in {"load", "wait"} : Stats!To(j, r, l)
    BY <1>2 DEF Stats!Look
  <2>2. Moves(j, r, l)
    BY <1>1, <2>1, Moved DEF Places, Stats!Loading
  <2>3. QED
    BY <2>1, <2>2, MoveKeeps DEF Stats!Look, Stats!At, Stats!Loading
<1>3. CASE ~Stats!Present /\ r = 0
  <2>1. Stats!To(j, 0, "scan") /\ rank[j][0].pc = "look"
    BY <1>3 DEF Stats!Look, Stats!At
  <2>2. Moves(j, 0, "scan")
    BY <1>1, <2>1, Moved DEF Places, Stats!Loading
  <2>3. StatsTypes' /\ FileInv'
    BY <1>1, <2>2 DEF Stats!Look, StatsTypes, Moves, FileInv, Good, Full, Of, Original
  <2>4. ~Stats!Present' /\ rank'[j][0].pc = "scan" /\ scan'[j].next = 1
    BY <1>1, <1>3, <2>1, <2>2 DEF Stats!Look, Stats!Present, Moves, BuildInv, BuildOf
  <2>5. \A s \in Stats!Ranks \ {0} : rank'[j][s].pc \notin Build \cup {"clean"}
    BY <1>1, <2>2 DEF BuildInv, BuildOf, Moves, Others
  <2>6. BuildOf(j)'
    BY <2>4, <2>5 DEF BuildOf
  <2>7. QED
    BY <2>1, <2>2, <2>3, <2>6, BuildKeeps DEF Stats!Look, Stats!Loading
<1>4. QED
  BY <1>2, <1>3

LEMMA PollStep ==
    ASSUME StatsInv, NEW j \in Jobs, NEW r \in Stats!Ranks, Stats!Poll(j, r) \/ Stats!TimeOut(j, r)
    PROVE  StatsInv'
<1>1. PICK l \in {"load", "failed"} : Stats!To(j, r, l)
  BY DEF Stats!Poll, Stats!TimeOut
<1>2. Moves(j, r, l)
  BY <1>1, Moved DEF Places, Stats!Loading, StatsInv
<1>3. QED
  BY <1>1, <1>2, MoveKeeps DEF Stats!Poll, Stats!TimeOut, Stats!At, Stats!Loading

LEMMA FailStep ==
    ASSUME StatsInv, NEW j \in Jobs, Stats!BuildFails(j)
    PROVE  StatsInv'
<1>1. 0 \in Stats!Ranks /\ Stats!To(j, 0, "failed")
  BY StatsBasics DEF Stats!BuildFails
<1>2. Moves(j, 0, "failed")
  BY <1>1, Moved DEF Places, StatsInv
<1>3. QED
  BY <1>1, <1>2, MoveKeeps DEF Stats!BuildFails, Stats!Loading

LEMMA ScanStep ==
    ASSUME StatsInv, NEW j \in Jobs, Stats!Scan(j)
    PROVE  StatsInv'
<1>1. StatsTypes /\ FileInv /\ BuildOf(j) /\ 0 \in Stats!Ranks
  BY StatsBasics DEF StatsInv, BuildInv
<1>2. Moves(j, 0, "open")
  BY <1>1, Moved DEF Stats!Scan, Places, Stats!Loading
<1>3. scan[j] \in [next : 1 .. Roots, pool : Pools] /\ corpus \in Pools
  BY <1>1, PoolFacts DEF StatsTypes
<1>4. /\ scan' \in [Jobs -> [next : 1 .. Roots, pool : Pools]] /\ scan'[j].pool = corpus
      /\ \A i \in Jobs : i # j => scan'[i] = scan[i]
  <2> DEFINE q == [scan[j] EXCEPT !.pool = corpus]
  <2>1. q \in [next : 1 .. Roots, pool : Pools] /\ q.pool = corpus
    BY <1>3
  <2>2. scan' = [scan EXCEPT ![j] = q]
    BY DEF Stats!Scan
  <2> HIDE DEF q
  <2>3. QED
    BY <1>1, <2>1, <2>2 DEF StatsTypes
<1>5. StatsTypes' /\ FileInv'
  BY <1>1, <1>2, <1>4 DEF Stats!Scan, StatsTypes, Moves, FileInv, Good, Full, Of, Original
<1>6. Full(corpus, corpus)' /\ rank'[j][0].pc = "open" /\ kind \notin Stats!Sharded
  <2>1. corpus' = corpus /\ kind \notin Stats!Sharded /\ (Original' <=> Original) /\ corpus \in Pools
    BY <1>3 DEF Stats!Scan, Original
  <2>2. \A x \in 1 .. Roots : corpus[x] # 0
    BY <1>1, <2>1 DEF StatsTypes
  <2>3. QED
    BY <1>2, <2>1, <2>2 DEF Full, Of, Stats!Scan, Moves
<1>7. Stats!Present' => kind' \notin Stats!OneName /\ file'.pool = corpus'
  BY <1>1 DEF Stats!Scan, Stats!Present, BuildOf, Stats!At, Build
<1>8. \A s \in Stats!Ranks \ {0} : rank'[j][s].pc \notin Build \cup {"clean"}
  BY <1>1, <1>2 DEF BuildOf, Moves, Others
<1>9. BuildOf(j)'
  BY <1>4, <1>6, <1>7, <1>8 DEF BuildOf, Stats!Scan
<1>10. QED
  BY <1>2, <1>4, <1>5, <1>9, BuildKeeps DEF Stats!Scan, Stats!At, Stats!Loading

(* Only rank 0's memory of the scan changes, field by field.               *)
LEMMA ScanChanges ==
    ASSUME StatsTypes, NEW j \in Jobs, NEW q \in [next : 1 .. Roots, pool : Pools],
           scan' = [scan EXCEPT ![j] = q]
    PROVE  /\ scan' \in [Jobs -> [next : 1 .. Roots, pool : Pools]] /\ scan'[j] = q
           /\ \A i \in Jobs : i # j => scan'[i] = scan[i]
  BY DEF StatsTypes

LEMMA ScanRootStep ==
    ASSUME StatsInv, NEW j \in Jobs, Stats!ScanRoot(j)
    PROVE  StatsInv'
<1> DEFINE x == scan[j].next
           q == [scan[j] EXCEPT !.next = IF x = Roots THEN 1 ELSE x + 1]
           l == IF x = Roots THEN "pool" ELSE "scan"
<1>1. StatsTypes /\ FileInv /\ BuildOf(j) /\ 0 \in Stats!Ranks /\ Roots \in Nat \ {0}
  BY StatsBasics DEF StatsInv, BuildInv
<1>2. rank[j][0].pc = "scan" /\ kind \in Stats!Sharded /\ Stats!To(j, 0, l) /\ l \in {"pool", "scan"}
  BY DEF Stats!ScanRoot, Stats!At, Stats!Following
<1>3. Moves(j, 0, l)
  BY <1>1, <1>2, Moved DEF Places, Stats!Loading
<1>4. scan[j] \in [next : 1 .. Roots, pool : Pools] /\ x \in 1 .. Roots
  BY <1>1 DEF StatsTypes
<1>5. q \in [next : 1 .. Roots, pool : Pools] /\ q.next = IF x = Roots THEN 1 ELSE x + 1
  BY <1>1, <1>4
<1>6. scan' = [scan EXCEPT ![j] = q]
  BY DEF Stats!ScanRoot, Stats!Following
<1>7. /\ scan' \in [Jobs -> [next : 1 .. Roots, pool : Pools]] /\ scan'[j] = q
      /\ \A i \in Jobs : i # j => scan'[i] = scan[i]
  <2> HIDE DEF q, x
  <2>1. QED
    BY <1>1, <1>5, <1>6, ScanChanges
<1>8. PICK v \in {shards[x], corpus[x], -corpus[x]} :
          shards' = [shards EXCEPT ![x] = v] /\ (v = 0 => corpus[x] = 0)
  <2>1. shards \in Pools /\ corpus[x] \in Nat
    BY <1>1, <1>4 DEF StatsTypes, Corpora
  <2>2. CASE shards[x] = 0 /\ corpus[x] # 0
    BY <2>1, <2>2 DEF Stats!ScanRoot
  <2>3. CASE ~(shards[x] = 0 /\ corpus[x] # 0)
    <3>1. shards' = shards /\ shards = [shards EXCEPT ![x] = shards[x]]
      BY <2>1, <2>3 DEF Stats!ScanRoot, Pools
    <3>2. QED
      BY <2>3, <3>1
  <2>4. QED
    BY <2>2, <2>3
<1>9. /\ shards' \in Pools /\ shards'[x] = v /\ (shards'[x] = 0 => corpus[x] = 0)
      /\ \A y \in 1 .. Roots : y # x => shards'[y] = shards[y]
  <2>1. shards \in Pools /\ corpus[x] \in Nat /\ shards[x] \in Int
    BY <1>1, <1>4 DEF StatsTypes, Corpora, Pools
  <2>2. v \in Int
    BY <1>8, <2>1
  <2>3. QED
    BY <1>4, <1>8, <2>1, <2>2 DEF Pools
<1>10. StatsTypes'
  BY <1>1, <1>3, <1>7, <1>9 DEF Stats!ScanRoot, StatsTypes, Moves
<1>11. FileInv'
  <2>1. Original => \A y \in 1 .. Roots : shards'[y] = 0 \/ Of(shards'[y], corpus[y])
    BY <1>1, <1>2, <1>4, <1>8, <1>9 DEF FileInv, Of
  <2>2. QED
    BY <1>1, <2>1 DEF Stats!ScanRoot, FileInv, Good, Full, Of, Original
<1>12. \A s \in Stats!Ranks \ {0} : rank'[j][s].pc \notin Build \cup {"clean"}
  BY <1>1, <1>3 DEF BuildOf, Moves, Others
<1>13. ~Stats!Present'
  BY <1>1, <1>2 DEF Stats!ScanRoot, Stats!Present, BuildOf, Build, Stats!Sharded, Stats!OneName
<1>14. corpus' = corpus /\ \A y \in 1 .. x : shards'[y] = 0 => corpus[y] = 0
  BY <1>1, <1>2, <1>4, <1>9 DEF BuildOf, Stats!ScanRoot
<1>15. BuildOf(j)'
  <2>1. rank'[j][0].pc = l
    BY <1>3 DEF Moves
  <2>2. CASE x = Roots
    BY <1>2, <1>12, <1>13, <1>14, <2>1, <2>2 DEF BuildOf, Stats!ScanRoot
  <2>3. CASE x # Roots
    <3>1. scan'[j].next = x + 1
      BY <1>5, <1>7, <2>3
    <3>2. \A y \in 1 .. scan'[j].next - 1 : shards'[y] = 0 => corpus'[y] = 0
      BY <1>4, <1>14, <3>1
    <3>3. QED
      BY <1>2, <1>12, <1>13, <2>1, <2>3, <3>2 DEF BuildOf, Stats!ScanRoot
  <2>4. QED
    BY <2>2, <2>3
<1>16. kind \notin Together
  BY <1>2, StatsAssumed DEF Stats!Sharded, Stats!OneName
<1>17. QED
  BY <1>2, <1>3, <1>7, <1>10, <1>11, <1>15, <1>16, BuildKeeps DEF Stats!ScanRoot, Stats!Loading

LEMMA PoolShardsStep ==
    ASSUME StatsInv, NEW j \in Jobs, Stats!PoolShards(j)
    PROVE  StatsInv'
<1> DEFINE q == [scan[j] EXCEPT !.pool = shards]
           l == IF shards = Stats!Empty THEN "failed" ELSE "open"
<1>1. StatsTypes /\ FileInv /\ BuildOf(j) /\ 0 \in Stats!Ranks
  BY StatsBasics DEF StatsInv, BuildInv
<1>2. rank[j][0].pc = "pool" /\ kind \in Stats!Sharded /\ Stats!To(j, 0, l) /\ l \in {"failed", "open"}
  BY <1>1 DEF Stats!PoolShards, Stats!At, BuildOf
<1>3. Moves(j, 0, l)
  BY <1>1, <1>2, Moved DEF Places, Stats!Loading
<1>4. scan[j] \in [next : 1 .. Roots, pool : Pools] /\ shards \in Pools
  BY <1>1 DEF StatsTypes
<1>5. q \in [next : 1 .. Roots, pool : Pools] /\ q.pool = shards
  BY <1>4
<1>6. scan' = [scan EXCEPT ![j] = q]
  BY DEF Stats!PoolShards
<1>7. /\ scan' \in [Jobs -> [next : 1 .. Roots, pool : Pools]] /\ scan'[j].pool = shards
      /\ \A i \in Jobs : i # j => scan'[i] = scan[i]
  <2> HIDE DEF q
  <2>1. QED
    BY <1>1, <1>5, <1>6, ScanChanges
<1>8. StatsTypes' /\ FileInv'
  BY <1>1, <1>3, <1>7 DEF Stats!PoolShards, StatsTypes, Moves, FileInv, Good, Full, Of, Original
<1>9. Full(shards, corpus)'
  <2>1. \A x \in 1 .. Roots : shards[x] = 0 => corpus[x] = 0
    BY <1>1, <1>2 DEF BuildOf
  <2>2. Original => \A x \in 1 .. Roots : Of(shards[x], corpus[x])
    BY <1>1, <2>1 DEF FileInv, Of
  <2>3. QED
    BY <1>2, <1>4, <2>1, <2>2 DEF Full, Of, Original, Stats!PoolShards
<1>10. \A s \in Stats!Ranks \ {0} : rank'[j][s].pc \notin Build \cup {"clean"}
  BY <1>1, <1>3 DEF BuildOf, Moves, Others
<1>11. ~Stats!Present'
  BY <1>1, <1>2 DEF Stats!PoolShards, Stats!Present, BuildOf, Build, Stats!Sharded, Stats!OneName
<1>12. BuildOf(j)'
  <2>1. rank'[j][0].pc \in {"failed", "open"} /\ scan'[j].pool = shards'
    BY <1>2, <1>3, <1>7 DEF Moves, Stats!PoolShards
  <2>2. Full(scan[j].pool, corpus)'
    BY <1>9, <2>1 DEF Full, Of, Original
  <2>3. QED
    BY <1>2, <1>10, <1>11, <2>1, <2>2 DEF BuildOf, Stats!PoolShards
<1>13. QED
  BY <1>2, <1>3, <1>7, <1>8, <1>12, BuildKeeps DEF Stats!PoolShards, Stats!Loading

(* Only the temporary file changes, or is moved away.                      *)
LEMMA TmpChanges ==
    ASSUME StatsTypes, NEW j \in Jobs, NEW f \in Files \cup {None}, tmp' = [tmp EXCEPT ![Stats!Temp(j)] = f]
    PROVE  /\ tmp' \in [Jobs \cup {"tmp"} -> Files \cup {None}] /\ tmp'[Stats!Temp(j)] = f
           /\ \A n : n # Stats!Temp(j) => tmp'[n] = tmp[n]
<1>1. Stats!Temp(j) \in Jobs \cup {"tmp"} /\ tmp \in [Jobs \cup {"tmp"} -> Files \cup {None}]
  BY DEF Stats!Temp, StatsTypes
<1>2. QED
  BY <1>1

LEMMA OpenTmpStep ==
    ASSUME StatsInv, NEW j \in Jobs, Stats!OpenTmp(j)
    PROVE  StatsInv'
<1>1. StatsTypes /\ FileInv /\ BuildOf(j) /\ 0 \in Stats!Ranks /\ Stats!Torn \in Files /\ None \notin Files
  BY StatsBasics DEF StatsInv, BuildInv
<1>2. Moves(j, 0, "write")
  BY <1>1, Moved DEF Stats!OpenTmp, Places, Stats!Loading
<1>3. /\ tmp' \in [Jobs \cup {"tmp"} -> Files \cup {None}] /\ tmp'[Stats!Temp(j)] = Stats!Torn
      /\ \A n : n # Stats!Temp(j) => tmp'[n] = tmp[n]
  BY <1>1, TmpChanges DEF Stats!OpenTmp
<1>4. StatsTypes' /\ FileInv'
  BY <1>1, <1>2, <1>3 DEF Stats!OpenTmp, StatsTypes, Moves, FileInv, Good, Full, Of, Original
<1>5. \A s \in Stats!Ranks \ {0} : rank'[j][s].pc \notin Build \cup {"clean"}
  BY <1>1, <1>2 DEF BuildOf, Moves, Others
<1>6. BuildOf(j)'
  <2>1. rank'[j][0].pc = "write" /\ Stats!Temp(j)' = Stats!Temp(j) /\ (Stats!Present' <=> Stats!Present)
    BY <1>2 DEF Moves, Stats!OpenTmp, Stats!Temp, Stats!Present
  <2>2. Full(scan[j].pool, corpus)' /\ (kind \notin Stats!Sharded => scan'[j].pool = corpus')
    BY <1>1 DEF BuildOf, Stats!OpenTmp, Stats!At, Full, Of, Original
  <2>3. Stats!Present => kind \notin Stats!OneName /\ file.pool = corpus
    BY <1>1 DEF BuildOf, Stats!OpenTmp, Stats!At, Build
  <2>4. QED
    BY <1>1, <1>3, <1>5, <2>1, <2>2, <2>3 DEF BuildOf, Stats!OpenTmp
<1>7. QED
  BY <1>2, <1>3, <1>4, <1>6, BuildKeeps DEF Stats!OpenTmp, Stats!At, Stats!Loading

LEMMA WriteTmpStep ==
    ASSUME StatsInv, NEW j \in Jobs, Stats!WriteTmp(j)
    PROVE  StatsInv'
<1> DEFINE f == Stats!Stats(scan[j].pool)
<1>1. StatsTypes /\ FileInv /\ BuildOf(j) /\ 0 \in Stats!Ranks /\ None \notin Files
  BY StatsBasics DEF StatsInv, BuildInv
<1>2. rank[j][0].pc = "write" /\ scan[j].pool \in Pools /\ tmp[Stats!Temp(j)] # None
  BY <1>1 DEF Stats!WriteTmp, Stats!At, StatsTypes, BuildOf
<1>3. Moves(j, 0, "replace")
  BY <1>1, Moved DEF Stats!WriteTmp, Places, Stats!Loading
<1>4. /\ f \in Files /\ f.whole /\ f.schema = "new" /\ f.pool = scan[j].pool /\ f.fingerprint = corpus
  BY <1>1, <1>2, PoolFacts
<1>5. /\ tmp' \in [Jobs \cup {"tmp"} -> Files \cup {None}] /\ tmp'[Stats!Temp(j)] = f
      /\ \A n : n # Stats!Temp(j) => tmp'[n] = tmp[n]
  <2>1. tmp' = [tmp EXCEPT ![Stats!Temp(j)] = f]
    BY <1>2 DEF Stats!WriteTmp
  <2> HIDE DEF f
  <2>2. QED
    BY <1>1, <1>4, <2>1, TmpChanges
<1>6. file' = file
  BY <1>2 DEF Stats!WriteTmp
<1>7. /\ scan' \in [Jobs -> [next : 1 .. Roots, pool : Pools]]
      /\ \A i \in Jobs : i # j => scan'[i] = scan[i]
  BY <1>1, StatsBasics, ScanChanges DEF Stats!WriteTmp
<1>8. StatsTypes' /\ FileInv'
  BY <1>1, <1>3, <1>5, <1>6, <1>7 DEF Stats!WriteTmp, StatsTypes, Moves, FileInv, Good, Full, Of, Original
<1>9. \A s \in Stats!Ranks \ {0} : rank'[j][s].pc \notin Build \cup {"clean"}
  BY <1>1, <1>3 DEF BuildOf, Moves, Others
<1>10. BuildOf(j)'
  <2>1. rank'[j][0].pc = "replace" /\ Stats!Temp(j)' = Stats!Temp(j) /\ (Stats!Present' <=> Stats!Present)
    BY <1>3, <1>6 DEF Moves, Stats!WriteTmp, Stats!Temp, Stats!Present
  <2>2. Full(scan[j].pool, corpus) /\ (kind \notin Stats!Sharded => scan[j].pool = corpus)
    BY <1>1, <1>2 DEF BuildOf
  <2>3. Good(f)
    BY <1>4, <2>2 DEF Good, Stats!Sharded
  <2>4. Good(tmp[Stats!Temp(j)])'
    <3> HIDE DEF f
    <3>1. QED
      BY <1>5, <2>1, <2>3 DEF Good, Full, Of, Original, Stats!WriteTmp
  <2>5. Stats!Present => kind \notin Stats!OneName /\ file.pool = corpus
    BY <1>1, <1>2 DEF BuildOf, Build
  <2>6. tmp'[Stats!Temp(j)] # None /\ tmp'[Stats!Temp(j)].pool = scan[j].pool
    <3> HIDE DEF f
    <3>1. QED
      BY <1>1, <1>4, <1>5
  <2> HIDE DEF f
  <2>7. QED
    BY <1>6, <1>9, <2>1, <2>2, <2>4, <2>5, <2>6 DEF BuildOf, Stats!WriteTmp
<1>11. QED
  BY <1>2, <1>3, <1>5, <1>6, <1>7, <1>8, <1>10, BuildKeeps DEF Stats!WriteTmp, Stats!Loading

LEMMA CleanStep ==
    ASSUME StatsInv, NEW j \in Jobs, Stats!Clean(j)
    PROVE  StatsInv'
<1>1. StatsTypes /\ FileInv /\ BuildOf(j) /\ 0 \in Stats!Ranks /\ Stats!Empty \in Pools
  BY StatsBasics DEF StatsInv, BuildInv
<1>2. Moves(j, 0, "load")
  BY <1>1, Moved DEF Stats!Clean, Places, Stats!Loading
<1>3. StatsTypes'
  BY <1>1, <1>2 DEF Stats!Clean, StatsTypes, Moves
<1>4. FileInv'
  <2>1. \A x \in 1 .. Roots : shards'[x] = 0
    BY DEF Stats!Clean, Stats!Empty
  <2>2. QED
    BY <1>1, <2>1 DEF Stats!Clean, FileInv, Good, Full, Of, Original
<1>5. \A s \in Stats!Ranks \ {0} : rank'[j][s].pc \notin Build \cup {"clean"}
  BY <1>1, <1>2 DEF BuildOf, Moves, Others
<1>6. BuildOf(j)'
  BY <1>2, <1>5 DEF BuildOf, Moves, Build
<1>7. kind \notin Together
  BY <1>1, StatsAssumed DEF Stats!Clean, Stats!At, BuildOf, Stats!Sharded, Stats!OneName
<1>8. QED
  BY <1>2, <1>3, <1>4, <1>6, <1>7, BuildKeeps DEF Stats!Clean, Stats!At, Stats!Loading

LEMMA ReplaceStep ==
    ASSUME StatsInv, NEW j \in Jobs, Stats!Replace(j)
    PROVE  StatsInv'
<1> DEFINE l == IF kind \in Stats!Sharded THEN "clean" ELSE "load"
<1>1. /\ StatsTypes /\ FileInv /\ AloneInv /\ BuildInv /\ LoadedInv /\ TransformInv
      /\ BuildOf(j) /\ 0 \in Stats!Ranks
  BY StatsBasics DEF StatsInv, BuildInv
<1>2. /\ rank[j][0].pc = "replace" /\ tmp[Stats!Temp(j)] # None /\ Good(tmp[Stats!Temp(j)])
      /\ kind \notin Stats!Sharded => tmp[Stats!Temp(j)].pool = corpus
      /\ Stats!Present => kind \notin Stats!OneName /\ file.pool = corpus
  BY <1>1 DEF Stats!Replace, Stats!At, BuildOf, Build
<1>3. /\ file' = tmp[Stats!Temp(j)] /\ tmp' = [tmp EXCEPT ![Stats!Temp(j)] = None]
      /\ Stats!To(j, 0, l) /\ l \in {"clean", "load"}
  BY <1>2 DEF Stats!Replace
<1>4. Moves(j, 0, l) /\ Others(j, 0)
  BY <1>1, <1>3, Moved DEF Places, Stats!Loading, Moves
<1>5. /\ tmp' \in [Jobs \cup {"tmp"} -> Files \cup {None}] /\ tmp'[Stats!Temp(j)] = None
      /\ \A n : n # Stats!Temp(j) => tmp'[n] = tmp[n]
  BY <1>1, <1>3, TmpChanges
<1>6. file' \in Files
  BY <1>1, <1>2, <1>3 DEF StatsTypes, Stats!Temp
<1>7. StatsTypes'
  BY <1>1, <1>4, <1>5, <1>6 DEF Stats!Replace, StatsTypes, Moves
<1>8. Good(file)'
  <2> DEFINE f == tmp[Stats!Temp(j)]
  <2>1. kind' = kind /\ corpus' = corpus /\ file' = f
    BY <1>3 DEF Stats!Replace
  <2>2. Good(f)
    BY <1>2
  <2> HIDE DEF f
  <2>3. QED
    BY SMTT(30), <2>1, <2>2 DEF Good, Full, Of, Original
<1>9. FileInv'
  BY <1>1, <1>8 DEF Stats!Replace, FileInv, Of, Original
<1>10. Stats!Present' /\ (Stats!Present => file'.pool = file.pool)
  <2>1. Stats!Present'
    BY <1>6, <1>8, StatsBasics DEF Stats!Present, Good
  <2>2. Stats!Present => kind \notin Stats!Sharded
    BY <1>2 DEF Stats!Sharded, Stats!OneName
  <2>3. QED
    BY <1>2, <1>3, <2>1, <2>2
<1>11. AloneInv'
  BY <1>1, <1>2, <1>4, AloneKeeps DEF Stats!Replace
<1>12. ASSUME NEW i \in Jobs PROVE BuildOf(i)'
  <2>1. CASE i = j
    <3>1. \A s \in Stats!Ranks \ {0} : rank'[j][s].pc \notin Build \cup {"clean"}
      BY <1>1, <1>4 DEF BuildOf, Others
    <3>2. rank'[j][0].pc = l
      BY <1>4 DEF Moves
    <3>3. QED
      BY <2>1, <3>1, <3>2 DEF BuildOf, Build, Stats!Replace
  <2>2. CASE i # j /\ kind \in Together
    <3>1. BuildOf(i) /\ (\A s \in Stats!Ranks : rank'[i][s] = rank[i][s]) /\ scan'[i] = scan[i]
      BY <1>1, <1>4, <2>2 DEF BuildInv, Others, Stats!Replace
    <3>2. /\ Stats!Temp(i) = i /\ Stats!Temp(j) = j /\ Stats!Temp(i)' = i
          /\ kind \notin Stats!OneName /\ kind \notin Stats!Sharded
      BY <2>2, StatsAssumed DEF Stats!Temp, Stats!Replace, Stats!Sharded, Stats!OneName
    <3>3. tmp'[Stats!Temp(i)] = tmp[Stats!Temp(i)]
      BY <1>5, <2>2, <3>2
    <3>4. Good(tmp[Stats!Temp(i)]) => Good(tmp[Stats!Temp(i)])'
      BY <3>2, <3>3 DEF Good, Full, Of, Original, Stats!Replace
    <3>5. file'.pool = corpus'
      BY <1>2, <1>3, <3>2 DEF Stats!Replace
    <3>6. Full(scan[i].pool, corpus) => Full(scan[i].pool, corpus)'
      BY <3>1 DEF Full, Of, Original, Stats!Replace
    <3>7. QED
      BY <1>1, <3>1, <3>2, <3>3, <3>4, <3>5, <3>6 DEF BuildOf, Stats!Replace
  <2>3. CASE i # j /\ kind \notin Together
    <3>1. ~Stats!Alive(i)
      BY <1>1, <1>2, <2>3 DEF AloneInv, Stats!Alive
    <3>2. \A s \in Stats!Ranks : rank'[i][s].pc \in {"off", "failed"}
      BY <1>4, <2>3, <3>1 DEF Stats!Alive, Others
    <3>3. QED
      BY <1>1, <3>2 DEF BuildOf, Build
  <2>4. QED
    BY <2>1, <2>2, <2>3
<1>13. ASSUME NEW i \in Jobs, NEW s \in Stats!Ranks PROVE LoadedOf(i, s)'
  <2>1. /\ LoadedOf(i, s) /\ rank'[i][s].loaded = rank[i][s].loaded
        /\ rank'[i][s].pc = "up" => rank[i][s].pc = "up"
    BY <1>1, <1>4 DEF LoadedInv, Moves, Others
  <2>2. QED
    BY <1>10, <2>1 DEF LoadedOf, Full, Of, Original, Stats!Replace
<1>14. ASSUME NEW i \in Jobs, NEW s \in Stats!Ranks PROVE TransformOf(i, s)'
  <2>1. TransformOf(i, s) /\ run'[i] = run[i]
    BY <1>1 DEF TransformInv, Stats!Replace
  <2>2. CASE i = j
    <3>1. rank'[j][0].pc # "trains" /\ (s # 0 => rank'[j][s] = rank[j][s])
      BY <1>2, <1>4 DEF Moves, Others
    <3>2. QED
      BY <1>2, <2>1, <2>2, <3>1 DEF TransformOf
  <2>3. CASE i # j
    <3>1. rank'[i][s] = rank[i][s] /\ rank'[i][0] = rank[i][0]
      BY <1>1, <1>4, <2>3 DEF Others
    <3>2. QED
      BY <1>10, <2>1, <3>1 DEF TransformOf
  <2>4. QED
    BY <2>2, <2>3
<1>15. QED
  BY <1>7, <1>9, <1>11, <1>12, <1>13, <1>14 DEF StatsInv, BuildInv, LoadedInv, TransformInv

LEMMA LoadStep ==
    ASSUME StatsInv, NEW j \in Jobs, NEW r \in Stats!Ranks, Stats!Load(j, r)
    PROVE  StatsInv'
<1>1. /\ StatsTypes /\ FileInv /\ AloneInv /\ BuildInv /\ LoadedInv /\ TransformInv
      /\ 0 \in Stats!Ranks /\ rank[j][r].pc = "load"
  BY StatsBasics DEF StatsInv, Stats!Load, Stats!At
<1>2. CASE Stats!To(j, r, "failed")
  <2>1. Moves(j, r, "failed")
    BY <1>1, <1>2, Moved DEF Places
  <2>2. QED
    BY <1>1, <1>2, <2>1, MoveKeeps DEF Stats!Load, Stats!Loading
<1>3. CASE ~Stats!To(j, r, "failed")
  <2> DEFINE m == [pc |-> "up", loaded |-> [pool |-> file.pool, taken |-> file.fingerprint, of |-> corpus]]
  <2>1. Stats!Present /\ file.whole /\ Stats!Matches /\ rank' = [rank EXCEPT ![j][r] = m]
    BY <1>3 DEF Stats!Load
  <2>2. Good(file) /\ file.pool \in Pools /\ file.fingerprint \in Corpora /\ corpus \in Corpora
    <3>1. Good(file)
      BY <1>1, <2>1 DEF FileInv, Stats!Present, Stats!Legacy
    <3>2. QED
      BY <1>1, <2>1, <3>1, PoolFacts DEF Good, Stats!Present, StatsTypes, Files
  <2>3. m \in RankStates /\ m.pc = "up" /\ m.loaded.pool = file.pool /\ m.loaded.of = corpus
        /\ m.loaded.taken = file.fingerprint /\ m.loaded # None
    <3>1. m \in RankStates
      BY <2>2 DEF RankStates, Places
    <3>2. m.loaded # None
      BY <2>2, StatsAssumed
    <3>3. QED
      BY <3>1, <3>2
  <2>4. rank \in [Jobs -> [Stats!Ranks -> RankStates]]
    BY <1>1 DEF StatsTypes
  <2> HIDE DEF m
  <2>5. rank' \in [Jobs -> [Stats!Ranks -> RankStates]] /\ Others(j, r) /\ rank'[j][r] = m
    BY <2>1, <2>3, <2>4 DEF Others
  <2>6. StatsTypes'
    BY <1>1, <2>5 DEF StatsTypes, Stats!Load
  <2>7. FileInv'
    BY <1>1 DEF FileInv, Good, Full, Of, Original, Stats!Load
  <2>8. AloneInv'
    BY <1>1, <2>5, AloneKeeps DEF Stats!Load
  <2>9. ASSUME NEW i \in Jobs PROVE BuildOf(i)'
    <3>1. CASE i # j
      BY <1>1, <2>5, <3>1, BuildFrame DEF BuildInv, Others, Stats!Load
    <3>2. CASE i = j
      <4>1. BuildOf(j) /\ \A s \in Stats!Ranks \ {0} : rank'[j][s].pc \notin Build \cup {"clean"}
        BY <1>1, <2>3, <2>5 DEF BuildInv, BuildOf, Others, Build
      <4>2. CASE r = 0
        BY <2>3, <2>5, <3>2, <4>1, <4>2 DEF BuildOf, Build
      <4>3. CASE r # 0
        <5>1. rank'[j][0] = rank[j][0] /\ (Stats!Present' <=> Stats!Present) /\ Stats!Temp(j)' = Stats!Temp(j)
          BY <1>1, <2>5, <4>3 DEF Others, Stats!Load, Stats!Present, Stats!Temp
        <5>2. QED
          BY <3>2, <4>1, <5>1 DEF BuildOf, Full, Of, Good, Original, Stats!Load
      <4>4. QED
        BY <4>2, <4>3
    <3>3. QED
      BY <3>1, <3>2
  <2>10. ASSUME NEW i \in Jobs, NEW s \in Stats!Ranks PROVE LoadedOf(i, s)'
    <3>1. CASE i # j \/ s # r
      BY <1>1, <2>5, <3>1, LoadedFrame DEF LoadedInv, Others, Stats!Load
    <3>2. CASE i = j /\ s = r
      <4>1. Full(file.pool, file.fingerprint) /\ (kind = "ebench" => file.pool = corpus) /\ Stats!Present'
        BY <2>1, <2>2 DEF Good, Stats!Matches, Stats!Present, Stats!Load
      <4>2. QED
        BY <2>3, <2>5, <3>2, <4>1 DEF LoadedOf, Full, Of, Original, Stats!Load
    <3>3. QED
      BY <3>1, <3>2
  <2>11. ASSUME NEW i \in Jobs, NEW s \in Stats!Ranks PROVE TransformOf(i, s)'
    <3>1. CASE i # j
      BY <1>1, <2>5, <3>1, TransformFrame DEF TransformInv, Others, Stats!Load
    <3>2. CASE i = j
      <4>1. TransformOf(j, s) /\ TransformOf(j, r) /\ (Stats!Present' <=> Stats!Present)
        BY <1>1 DEF TransformInv, Stats!Load, Stats!Present
      <4>2. CASE r = 0
        BY <1>1, <2>3, <2>5, <3>2, <4>1, <4>2 DEF TransformOf, Others, Stats!Load
      <4>3. CASE r # 0
        BY <1>1, <2>3, <2>5, <3>2, <4>1, <4>3 DEF TransformOf, Others, Stats!Load, Stats!Loading
      <4>4. QED
        BY <4>2, <4>3
    <3>3. QED
      BY <3>1, <3>2
  <2>12. QED
    BY <2>6, <2>7, <2>8, <2>9, <2>10, <2>11 DEF StatsInv, BuildInv, LoadedInv, TransformInv
<1>4. QED
  BY <1>2, <1>3
-----------------------------------------------------------------------------
LEMMA StartStep ==
    ASSUME StatsInv, NEW j \in Jobs, Stats!StartRun(j)
    PROVE  StatsInv'
<1>1. /\ StatsTypes /\ FileInv /\ AloneInv /\ BuildInv /\ LoadedInv /\ TransformInv
      /\ 0 \in Stats!Ranks /\ rank[j][0].pc = "up" /\ ~run[j].saved
  BY StatsBasics DEF StatsInv, Stats!StartRun, Stats!At
<1>2. Moves(j, 0, "trains") /\ Others(j, 0)
  BY <1>1, Moved DEF Stats!StartRun, Places, Moves
<1>3. Stats!Present /\ rank[j][0].loaded.pool = file.pool /\ file.pool \in Pools
  BY <1>1, StatsBasics DEF LoadedInv, LoadedOf, Stats!Present, StatsTypes, Files
<1>4. run[j] \in [artifact : Pools \cup {None}, saved : BOOLEAN]
  BY <1>1 DEF StatsTypes
<1> DEFINE q == [run[j] EXCEPT !.artifact = file.pool]
<1>5. run' = [run EXCEPT ![j] = q]
  BY <1>3 DEF Stats!StartRun, Stats!Present
<1>6. q \in [artifact : Pools \cup {None}, saved : BOOLEAN] /\ q.artifact = file.pool /\ ~q.saved
  BY <1>1, <1>3, <1>4
<1> HIDE DEF q
<1>7. /\ run' \in [Jobs -> [artifact : Pools \cup {None}, saved : BOOLEAN]] /\ run'[j] = q
      /\ \A i \in Jobs : i # j => run'[i] = run[i]
  BY <1>1, <1>5, <1>6 DEF StatsTypes
<1>8. StatsTypes'
  BY <1>1, <1>2, <1>7 DEF StatsTypes, Moves, Stats!StartRun
<1>9. FileInv'
  BY <1>1 DEF FileInv, Good, Full, Of, Original, Stats!StartRun
<1>10. AloneInv'
  BY <1>1, <1>2, AloneKeeps DEF Stats!StartRun
<1>11. ASSUME NEW i \in Jobs PROVE BuildOf(i)'
  <2>1. CASE i # j
    BY <1>1, <1>2, <2>1, BuildFrame DEF BuildInv, Others, Stats!StartRun
  <2>2. CASE i = j
    <3>1. \A s \in Stats!Ranks \ {0} : rank'[j][s].pc \notin Build \cup {"clean"}
      BY <1>1, <1>2 DEF BuildInv, BuildOf, Others
    <3>2. QED
      BY <1>2, <2>2, <3>1 DEF BuildOf, Build, Moves
  <2>3. QED
    BY <2>1, <2>2
<1>12. ASSUME NEW i \in Jobs, NEW s \in Stats!Ranks PROVE LoadedOf(i, s)'
  <2>1. CASE i # j \/ s # 0
    BY <1>1, <1>2, <2>1, LoadedFrame DEF LoadedInv, Others, Stats!StartRun
  <2>2. CASE i = j /\ s = 0
    BY <1>1, <1>2, <2>2 DEF LoadedInv, LoadedOf, Moves, Full, Of, Original, Stats!StartRun
  <2>3. QED
    BY <2>1, <2>2
<1>13. ASSUME NEW i \in Jobs, NEW s \in Stats!Ranks PROVE TransformOf(i, s)'
  <2>1. CASE i # j
    BY <1>1, <1>2, <1>7, <2>1, TransformFrame DEF TransformInv, Others, Stats!StartRun
  <2>2. CASE i = j
    <3>1. /\ rank'[j][0].pc = "trains" /\ rank'[j][0].loaded = rank[j][0].loaded
          /\ s # 0 => rank'[j][s] = rank[j][s]
      BY <1>1, <1>2 DEF Moves, Others
    <3>2. rank[j][s].pc # "trains"
      BY <1>1 DEF TransformInv, TransformOf
    <3>3. Stats!Present' /\ file' = file
      BY <1>3 DEF Stats!Present, Stats!StartRun
    <3>4. QED
      BY <1>3, <1>6, <1>7, <2>2, <3>1, <3>2, <3>3 DEF TransformOf
  <2>3. QED
    BY <2>1, <2>2
<1>14. QED
  BY <1>8, <1>9, <1>10, <1>11, <1>12, <1>13 DEF StatsInv, BuildInv, LoadedInv, TransformInv

(* A rank that finds its run, or one that was resumed, with its statistics.*)
LEMMA TrainsKeeps ==
    ASSUME StatsInv, NEW j \in Jobs, NEW r \in Stats!Ranks, Moves(j, r, "trains"), rank[j][r].pc = "up",
           rank[j][r].loaded.pool = run[j].artifact, r = 0 => run[j].saved,
           run[j].saved \/ rank[j][0].pc = "trains",
           UNCHANGED <<kind, corpus, file, tmp, shards, scan, run>>
    PROVE  StatsInv'
<1>1. /\ StatsTypes /\ FileInv /\ AloneInv /\ BuildInv /\ LoadedInv /\ TransformInv
      /\ 0 \in Stats!Ranks /\ Others(j, r)
  BY StatsBasics DEF StatsInv, Moves
<1>2. StatsTypes'
  BY <1>1 DEF StatsTypes, Moves
<1>3. FileInv'
  BY <1>1 DEF FileInv, Good, Full, Of, Original
<1>4. AloneInv'
  BY <1>1, AloneKeeps
<1>5. ASSUME NEW i \in Jobs PROVE BuildOf(i)'
  <2>1. CASE i # j
    BY <1>1, <2>1, BuildFrame DEF BuildInv, Others
  <2>2. CASE i = j
    <3>1. BuildOf(j) /\ \A s \in Stats!Ranks \ {0} : rank'[j][s].pc \notin Build \cup {"clean"}
      BY <1>1 DEF BuildInv, BuildOf, Others, Moves, Build
    <3>2. CASE r = 0
      BY <2>2, <3>1, <3>2 DEF BuildOf, Build, Moves
    <3>3. CASE r # 0
      <4>1. rank'[j][0] = rank[j][0] /\ (Stats!Present' <=> Stats!Present) /\ Stats!Temp(j)' = Stats!Temp(j)
        BY <1>1, <3>3 DEF Others, Stats!Present, Stats!Temp
      <4>2. QED
        BY <2>2, <3>1, <4>1 DEF BuildOf, Full, Of, Good, Original
    <3>4. QED
      BY <3>2, <3>3
  <2>3. QED
    BY <2>1, <2>2
<1>6. ASSUME NEW i \in Jobs, NEW s \in Stats!Ranks PROVE LoadedOf(i, s)'
  <2>1. CASE i # j \/ s # r
    BY <1>1, <2>1, LoadedFrame DEF LoadedInv, Others
  <2>2. CASE i = j /\ s = r
    BY <1>1, <2>2 DEF LoadedInv, LoadedOf, Moves, Full, Of, Original
  <2>3. QED
    BY <2>1, <2>2
<1>7. ASSUME NEW i \in Jobs, NEW s \in Stats!Ranks PROVE TransformOf(i, s)'
  <2>1. CASE i # j
    BY <1>1, <2>1, TransformFrame DEF TransformInv, Others
  <2>2. CASE i = j
    <3>1. TransformOf(j, s) /\ (Stats!Present' <=> Stats!Present)
      BY <1>1 DEF TransformInv, Stats!Present
    <3>2. (s # r => rank'[j][s] = rank[j][s]) /\ (r # 0 => rank'[j][0] = rank[j][0])
      BY <1>1 DEF Others
    <3>3. QED
      BY <2>2, <3>1, <3>2 DEF TransformOf, Moves, Stats!Loading
  <2>3. QED
    BY <2>1, <2>2
<1>8. QED
  BY <1>2, <1>3, <1>4, <1>5, <1>6, <1>7 DEF StatsInv, BuildInv, LoadedInv, TransformInv

LEMMA FollowStep ==
    ASSUME StatsInv, NEW j \in Jobs, NEW r \in Stats!Ranks, Stats!FollowRun(j, r)
    PROVE  StatsInv'
<1>1. rank[j][r].pc = "up" /\ r # 0 /\ ~run[j].saved /\ rank[j][0].pc = "trains" /\ StatsTypes
  BY DEF Stats!FollowRun, Stats!At, StatsInv
<1>2. Moves(j, r, "trains")
  BY <1>1, Moved DEF Stats!FollowRun, Places
<1>3. rank[j][r].loaded.pool = file.pool /\ file.pool = run[j].artifact
  BY <1>1 DEF StatsInv, LoadedInv, LoadedOf, TransformInv, TransformOf
<1>4. QED
  BY <1>1, <1>2, <1>3, TrainsKeeps DEF Stats!FollowRun

LEMMA ResumeStep ==
    ASSUME StatsInv, NEW j \in Jobs, NEW r \in Stats!Ranks, Stats!ResumeRun(j, r)
    PROVE  StatsInv'
<1>1. rank[j][r].pc = "up" /\ run[j].saved /\ StatsTypes
  BY DEF Stats!ResumeRun, Stats!At, StatsInv
<1>2. CASE Stats!To(j, r, "failed")
  <2>1. Moves(j, r, "failed")
    BY <1>1, <1>2, Moved DEF Places
  <2>2. QED
    BY <1>1, <2>1, MoveKeeps DEF Stats!ResumeRun
<1>3. CASE ~Stats!To(j, r, "failed")
  <2>1. Stats!To(j, r, "trains") /\ run[j].artifact = file.pool
    BY <1>3 DEF Stats!ResumeRun
  <2>2. Moves(j, r, "trains")
    BY <1>1, <2>1, Moved DEF Places
  <2>3. rank[j][r].loaded.pool = file.pool
    BY <1>1 DEF StatsInv, LoadedInv, LoadedOf
  <2>4. QED
    BY <1>1, <2>1, <2>2, <2>3, TrainsKeeps DEF Stats!ResumeRun
<1>4. QED
  BY <1>2, <1>3

LEMMA SaveStep ==
    ASSUME StatsInv, NEW j \in Jobs, Stats!SaveState(j)
    PROVE  StatsInv'
<1>1. /\ StatsTypes /\ FileInv /\ AloneInv /\ BuildInv /\ LoadedInv /\ TransformInv
      /\ 0 \in Stats!Ranks /\ \A r \in Stats!Ranks : rank[j][r].pc = "trains"
  BY StatsBasics DEF StatsInv, Stats!SaveState, Stats!At
<1> DEFINE q == [run[j] EXCEPT !.saved = TRUE]
<1>2. run[j] \in [artifact : Pools \cup {None}, saved : BOOLEAN] /\ run' = [run EXCEPT ![j] = q]
  BY <1>1 DEF StatsTypes, Stats!SaveState
<1>3. q \in [artifact : Pools \cup {None}, saved : BOOLEAN] /\ q.artifact = run[j].artifact /\ q.saved
  BY <1>2
<1> HIDE DEF q
<1>4. /\ run' \in [Jobs -> [artifact : Pools \cup {None}, saved : BOOLEAN]] /\ run'[j] = q
      /\ \A i \in Jobs : i # j => run'[i] = run[i]
  BY <1>1, <1>2, <1>3 DEF StatsTypes
<1>5. StatsTypes'
  BY <1>1, <1>4 DEF StatsTypes, Stats!SaveState
<1>6. FileInv' /\ AloneInv'
  BY <1>1 DEF FileInv, Good, Full, Of, Original, AloneInv, Stats!Alive, Stats!SaveState
<1>7. ASSUME NEW i \in Jobs PROVE BuildOf(i)'
  BY <1>1, BuildFrame DEF BuildInv, Stats!SaveState
<1>8. ASSUME NEW i \in Jobs, NEW s \in Stats!Ranks PROVE LoadedOf(i, s)'
  BY <1>1, LoadedFrame DEF LoadedInv, Stats!SaveState
<1>9. ASSUME NEW i \in Jobs, NEW s \in Stats!Ranks PROVE TransformOf(i, s)'
  <2>1. CASE i # j
    BY <1>1, <1>4, <2>1, TransformFrame DEF TransformInv, Stats!SaveState
  <2>2. CASE i = j
    BY <1>1, <1>3, <1>4, <2>2 DEF TransformInv, TransformOf, Stats!SaveState
  <2>3. QED
    BY <2>1, <2>2
<1>10. QED
  BY <1>5, <1>6, <1>7, <1>8, <1>9 DEF StatsInv, BuildInv, LoadedInv, TransformInv

(* A job is launched, or all of it is killed.                              *)
LEMMA RestartKeeps ==
    ASSUME StatsInv, NEW j \in Jobs, NEW l \in {"look", "off"}, UNCHANGED <<kind, corpus, file, tmp, shards>>,
           rank' = [rank EXCEPT ![j] = [r \in Stats!Ranks |-> [pc |-> l, loaded |-> None]]],
           scan' = [scan EXCEPT ![j] = Stats!Fresh] \/ (l = "off" /\ scan' = scan),
           run' \in [Jobs -> [artifact : Pools \cup {None}, saved : BOOLEAN]],
           \A i \in Jobs : i # j => run'[i] = run[i],
           l = "off" \/ kind \in Together \/ \A i \in Jobs : ~Stats!Alive(i)
    PROVE  StatsInv'
<1> DEFINE q == [r \in Stats!Ranks |-> [pc |-> l, loaded |-> None]]
<1>1. /\ StatsTypes /\ FileInv /\ AloneInv /\ BuildInv /\ LoadedInv /\ TransformInv /\ 0 \in Stats!Ranks
  BY StatsBasics DEF StatsInv
<1>2. q \in [Stats!Ranks -> RankStates] /\ \A r \in Stats!Ranks : q[r].pc = l /\ q[r].loaded = None
  BY DEF RankStates, Places, Stats!Loading
<1> HIDE DEF q
<1>3. /\ rank' \in [Jobs -> [Stats!Ranks -> RankStates]]
      /\ \A r \in Stats!Ranks : rank'[j][r].pc = l /\ rank'[j][r].loaded = None
      /\ \A i \in Jobs : i # j => rank'[i] = rank[i]
  <2>1. rank' = [rank EXCEPT ![j] = q]
    BY DEF q
  <2>2. QED
    BY <1>1, <1>2, <2>1 DEF StatsTypes
<1>4. /\ scan' \in [Jobs -> [next : 1 .. Roots, pool : Pools]]
      /\ \A i \in Jobs : i # j => scan'[i] = scan[i]
      /\ l = "look" => scan'[j].next = 1
  <2>1. CASE scan' = [scan EXCEPT ![j] = Stats!Fresh]
    BY <1>1, <2>1, StatsBasics, ScanChanges
  <2>2. CASE l = "off" /\ scan' = scan
    BY <1>1, <2>2 DEF StatsTypes
  <2>3. QED
    BY <2>1, <2>2
<1>5. StatsTypes'
  BY <1>1, <1>3, <1>4 DEF StatsTypes
<1>6. FileInv'
  BY <1>1 DEF FileInv, Good, Full, Of, Original
<1>7. AloneInv'
  <2>1. \A i \in Jobs : i # j /\ Stats!Alive(i)' => Stats!Alive(i)
    BY <1>3 DEF Stats!Alive
  <2>2. l = "off" => ~Stats!Alive(j)'
    BY <1>3 DEF Stats!Alive
  <2>3. QED
    BY <1>1, <2>1, <2>2 DEF AloneInv
<1>8. ASSUME NEW i \in Jobs PROVE BuildOf(i)'
  <2>1. CASE i # j
    BY <1>1, <1>3, <1>4, <2>1, BuildFrame DEF BuildInv
  <2>2. CASE i = j
    BY <1>1, <1>3, <1>4, <2>2 DEF BuildOf, Build
  <2>3. QED
    BY <2>1, <2>2
<1>9. ASSUME NEW i \in Jobs, NEW s \in Stats!Ranks PROVE LoadedOf(i, s)'
  <2>1. CASE i # j
    BY <1>1, <1>3, <2>1, LoadedFrame DEF LoadedInv
  <2>2. CASE i = j
    BY <1>3, <2>2 DEF LoadedOf
  <2>3. QED
    BY <2>1, <2>2
<1>10. ASSUME NEW i \in Jobs, NEW s \in Stats!Ranks PROVE TransformOf(i, s)'
  <2>1. CASE i # j
    BY <1>1, <1>3, <2>1, TransformFrame DEF TransformInv
  <2>2. CASE i = j
    BY <1>1, <1>3, <2>2 DEF TransformOf
  <2>3. QED
    BY <2>1, <2>2
<1>11. QED
  BY <1>5, <1>6, <1>7, <1>8, <1>9, <1>10 DEF StatsInv, BuildInv, LoadedInv, TransformInv

LEMMA LaunchStep ==
    ASSUME StatsInv, NEW j \in Jobs, Stats!Launch(j) \/ Stats!Kill(j)
    PROVE  StatsInv'
<1>1. run \in [Jobs -> [artifact : Pools \cup {None}, saved : BOOLEAN]]
  BY DEF StatsInv, StatsTypes
<1>2. CASE Stats!Launch(j)
  <2> DEFINE q == [run[j] EXCEPT !.artifact = IF run[j].saved THEN @ ELSE None]
  <2>1. q \in [artifact : Pools \cup {None}, saved : BOOLEAN]
    BY <1>1
  <2>2. run' = [run EXCEPT ![j] = q]
    BY <1>2 DEF Stats!Launch
  <2> HIDE DEF q
  <2>3. /\ run' \in [Jobs -> [artifact : Pools \cup {None}, saved : BOOLEAN]]
        /\ \A i \in Jobs : i # j => run'[i] = run[i]
    BY <1>1, <2>1, <2>2
  <2>4. kind \in Together \/ \A i \in Jobs : ~Stats!Alive(i)
    BY <1>2 DEF Stats!Launch
  <2>5. /\ rank' = [rank EXCEPT ![j] = [r \in Stats!Ranks |-> [pc |-> "look", loaded |-> None]]]
        /\ scan' = [scan EXCEPT ![j] = Stats!Fresh] /\ UNCHANGED <<kind, corpus, file, tmp, shards>>
    BY <1>2 DEF Stats!Launch
  <2>6. QED
    BY <2>3, <2>4, <2>5, RestartKeeps
<1>3. CASE Stats!Kill(j)
  BY <1>1, <1>3, RestartKeeps DEF Stats!Kill
<1>4. QED
  BY <1>2, <1>3

(* The data or the file changes while nobody builds or loads.              *)
LEMMA UpdateStep ==
    ASSUME StatsInv, (\E x \in 1 .. Roots : Stats!Update(x)) \/ Stats!Delete
    PROVE  StatsInv'
<1>1. /\ StatsTypes /\ FileInv /\ AloneInv /\ BuildInv /\ LoadedInv /\ TransformInv /\ 0 \in Stats!Ranks
      /\ \A j \in Jobs, r \in Stats!Ranks : rank[j][r].pc \notin Stats!Loading \cup {"up"}
  BY StatsBasics DEF StatsInv, Stats!Update, Stats!Delete, Stats!Quiet
<1>2. UNCHANGED <<kind, tmp, shards, rank, scan, run>>
  BY DEF Stats!Update, Stats!Delete
<1>3. CASE \E x \in 1 .. Roots : Stats!Update(x)
  <2>1. PICK x \in 1 .. Roots : Stats!Update(x)
    BY <1>3
  <2>2. PICK v \in 2 .. MaxVersion : corpus' = [corpus EXCEPT ![x] = v]
    BY <2>1 DEF Stats!Update
  <2>3. MaxVersion \in Nat /\ v \in Nat \ {0} /\ v \notin {0, 1}
    BY StatsAssumed DEF Stats!StatsAssumption
  <2>4. /\ corpus' \in Corpora /\ ~Original' /\ file' = file
        /\ kind \notin Stats!Sharded => \A y \in 1 .. Roots : corpus'[y] # 0
    BY <1>1, <2>1, <2>2, <2>3 DEF StatsTypes, Corpora, Original, Stats!Update
  <2>5. StatsTypes' /\ FileInv'
    BY <1>1, <1>2, <2>4 DEF StatsTypes, FileInv, Good, Full
  <2>6. \A j \in Jobs, r \in Stats!Ranks : LoadedOf(j, r)'
    BY <1>1, <1>2, <2>4 DEF LoadedInv, LoadedOf, Full
  <2>7. QED
    BY <1>1, <1>2, <2>4, <2>5, <2>6
    DEF StatsInv, AloneInv, Stats!Alive, BuildInv, BuildOf, LoadedInv, TransformInv, TransformOf, Build,
        Stats!Loading
<1>4. CASE Stats!Delete
  <2>1. file' = None /\ corpus' = corpus
    BY <1>4 DEF Stats!Delete
  <2>2. StatsTypes' /\ FileInv'
    BY <1>1, <1>2, <2>1 DEF StatsTypes, FileInv, Of, Original
  <2>3. \A j \in Jobs, r \in Stats!Ranks : LoadedOf(j, r)'
    BY <1>1, <1>2, <2>1 DEF LoadedInv, LoadedOf, Full, Of, Original
  <2>4. QED
    BY <1>1, <1>2, <2>1, <2>2, <2>3
    DEF StatsInv, AloneInv, Stats!Alive, BuildInv, BuildOf, LoadedInv, TransformInv, TransformOf, Build,
        Stats!Loading
<1>5. QED
  BY <1>3, <1>4

LEMMA StatsInit ==
    ASSUME Stats!Init
    PROVE  StatsInv
<1>1. 0 \in Stats!Ranks /\ Roots \in Nat \ {0} /\ Stats!Empty \in Pools /\ Stats!Legacy \in Files
      /\ Stats!Fresh \in [next : 1 .. Roots, pool : Pools]
  BY StatsBasics
<1>2. /\ kind \in StatsSources /\ file \in {None, Stats!Legacy} /\ (file = Stats!Legacy => kind = "gr1")
      /\ corpus \in [1 .. Roots -> IF kind \in Stats!Sharded THEN {0, 1} ELSE {1}] /\ tmp = [n \in Jobs \cup {"tmp"} |-> None]
      /\ shards = Stats!Empty
      /\ rank = [j \in Jobs |-> [r \in Stats!Ranks |-> [pc |-> "off", loaded |-> None]]]
      /\ scan = [j \in Jobs |-> Stats!Fresh] /\ run = [j \in Jobs |-> [artifact |-> None, saved |-> FALSE]]
  BY <1>1, StatsBasics DEF Stats!Init
<1>3. [pc |-> "off", loaded |-> None] \in RankStates
  BY DEF RankStates, Places
<1>4. StatsTypes
  <2>1. /\ corpus \in Corpora /\ file \in Files \cup {None} /\ shards \in Pools
        /\ kind \notin Stats!Sharded => \A x \in 1 .. Roots : corpus[x] # 0
    <3>1. CASE kind \in Stats!Sharded
      BY <1>1, <1>2, <3>1 DEF Corpora
    <3>2. CASE kind \notin Stats!Sharded
      <4>1. corpus \in [1 .. Roots -> {1}]
        BY <1>2, <3>2
      <4>2. QED
        BY <1>1, <1>2, <3>2, <4>1 DEF Corpora
    <3>3. QED
      BY <3>1, <3>2
  <2>2. tmp \in [Jobs \cup {"tmp"} -> Files \cup {None}]
    BY <1>2
  <2>3. rank \in [Jobs -> [Stats!Ranks -> RankStates]]
    BY <1>2, <1>3
  <2>4. scan \in [Jobs -> [next : 1 .. Roots, pool : Pools]]
    BY <1>1, <1>2
  <2>5. run \in [Jobs -> [artifact : Pools \cup {None}, saved : BOOLEAN]]
    BY <1>2
  <2>6. QED
    BY <1>2, <2>1, <2>2, <2>3, <2>4, <2>5 DEF StatsTypes
<1>5. FileInv
  BY <1>2 DEF FileInv, Stats!Empty
<1>6. \A j \in Jobs, r \in Stats!Ranks : rank[j][r].pc = "off" /\ rank[j][r].loaded = None
  BY <1>2
<1>7. AloneInv
  BY <1>6 DEF AloneInv, Stats!Alive
<1>8. BuildInv /\ LoadedInv /\ TransformInv
  BY <1>1, <1>6 DEF BuildInv, BuildOf, Build, LoadedInv, LoadedOf, TransformInv, TransformOf, Stats!Loading
<1>9. QED
  BY <1>4, <1>5, <1>7, <1>8 DEF StatsInv

LEMMA StatsStep ==
    ASSUME StatsInv, Stats!Next \/ UNCHANGED Stats!vars
    PROVE  StatsInv'
<1>1. CASE Stats!Next
  <2>1. ASSUME NEW j \in Jobs, NEW r \in Stats!Ranks,
               Stats!RankStep(j, r) \/ Stats!FollowRun(j, r) \/ Stats!ResumeRun(j, r)
        PROVE  StatsInv'
    BY <2>1, LookStep, PollStep, LoadStep, ScanStep, ScanRootStep, PoolShardsStep, OpenTmpStep, WriteTmpStep,
       ReplaceStep, CleanStep, FollowStep, ResumeStep
    DEF Stats!RankStep, Stats!BuildStep
  <2>2. ASSUME NEW j \in Jobs, \/ Stats!Launch(j) \/ Stats!BuildFails(j) \/ Stats!StartRun(j)
                               \/ Stats!SaveState(j) \/ Stats!Kill(j)
        PROVE  StatsInv'
    BY <2>2, LaunchStep, FailStep, StartStep, SaveStep
  <2>3. ASSUME (\E x \in 1 .. Roots : Stats!Update(x)) \/ Stats!Delete PROVE StatsInv'
    BY <2>3, UpdateStep, SMTT(30)
  <2>4. QED
    BY <1>1, <2>1, <2>2, <2>3 DEF Stats!Next
<1>2. CASE UNCHANGED Stats!vars
  BY <1>2 DEF Stats!vars, StatsInv, StatsTypes, FileInv, Good, Full, Of, Original, AloneInv, Stats!Alive,
              BuildInv, BuildOf, Stats!Present, Stats!Temp, LoadedInv, LoadedOf, TransformInv, TransformOf
<1>3. QED
  BY <1>1, <1>2

LEMMA StatsImplies ==
    ASSUME StatsInv
    PROVE  Stats!PooledWhole /\ Stats!PooledFresh /\ Stats!OneTransform
<1>1. /\ StatsTypes /\ FileInv /\ LoadedInv /\ TransformInv
  BY DEF StatsInv
<1>2. file # None => file.whole
  BY <1>1 DEF FileInv, Good, Stats!Legacy
<1>3. ASSUME NEW j \in Jobs, NEW r \in Stats!Ranks, rank[j][r].loaded # None
      PROVE  \A x \in 1 .. Roots :
                 /\ rank[j][r].loaded.pool[x] = 0 => kind \in Stats!Sharded /\ rank[j][r].loaded.taken[x] = 0
                 /\ kind = "ebench" \/ Original => Of(rank[j][r].loaded.pool[x], rank[j][r].loaded.of[x])
  BY <1>1, <1>3 DEF LoadedInv, LoadedOf, Full, Of
<1>4. QED
  BY <1>1, <1>2, <1>3
  DEF Stats!PooledWhole, Stats!PooledFresh, Stats!OneTransform, Of, Original, Stats!At, TransformInv, TransformOf
-----------------------------------------------------------------------------
(* What may not reach a token in a pass, nor in any layer before: the ways *)
(* that ClosedWays and PaddingInert name, and what makes them closed under *)
(* one more layer, that the read-only tokens see nothing of the rest.      *)
FirstFrame == <<"noisy", 0>>
JointClosed(q, k) ==
    \/ q \in Flow!ReadOnly /\ k \in Flow!Noisy \cup {Flow!Action}
    \/ q \in Flow!Noisy /\ k = Flow!Action /\ setup.cross \in {"action_sees_video", "isolated"}
    \/ q = FirstFrame /\ k = Flow!Action /\ setup.video # "bidirectional"
    \/ q = Flow!Action /\ k \in Flow!Noisy \ {FirstFrame} /\ setup.video # "bidirectional"
         /\ setup.cross \in {"video_sees_action", "isolated"} /\ ~setup.hints
    \/ q \in Flow!Noisy /\ k \in Flow!Noisy /\ ~(k[2] <= q[2])
         /\ setup.cross # "mutual" /\ setup.video = "per_frame_causal" /\ ~setup.hints
    \/ q = FirstFrame /\ k \in Flow!Noisy \ {FirstFrame} /\ setup.video # "bidirectional" /\ ~setup.hints
TrainingClosed(q, k) ==
    \/ q \in Flow!Cond /\ k \in Flow!Noisy \cup {Flow!Action}
    \/ q \in Flow!Noisy /\ k \in Flow!Cond \cup {Flow!Action}
    \/ q = Flow!Action /\ k \in Flow!Noisy
ClosedWay(p, q, k) ==
    \/ k \in Flow!Inert /\ k # q
    \/ p = "joint" /\ JointClosed(q, k)
    \/ p = "training" /\ TrainingClosed(q, k)

(* The values of a pass at a token came by open ways, and from itself.     *)
OpenOnly(p, values) ==
    \A q \in Flow!Queries(p) : q \in values[q].from /\ \A k \in values[q].from : ~ClosedWay(p, q, k)
SeesFirst(p, values) == p = "joint" => FirstFrame \in values[Flow!Action].from

Passes  == {"joint", "training", "stage1", "prefill", "stage2"}
DoneBefore(p) ==
    CASE p = "stage1"  -> {"training"}
      [] p = "prefill" -> {"training", "stage1"}
      [] p = "stage2"  -> {"training", "stage1", "prefill"}
      [] p = "end"     -> IF setup.system = "joint" THEN {"joint"}
                          ELSE {"training", "stage1", "prefill", "stage2"}
      [] OTHER         -> {}
Cached(p) ==
    CASE p = "prefill" -> layer
      [] p = "stage2"  -> FlowLayers
      [] p = "end"     -> Len(cache)
      [] OTHER         -> 0

FlowTypes ==
    /\ setup \in Flow!Setups /\ pass \in Passes \cup {"end"} /\ layer \in 0 .. FlowLayers
    /\ pass = "joint" => setup.system = "joint"
    /\ pass \in Passes \ {"joint"} => setup.system = "idm"
    /\ Flow!Ended = DoneBefore(pass)
    /\ pass # "end" => DOMAIN hidden = Flow!Queries(pass)
    /\ \A p \in Flow!Ended : DOMAIN results[p] = Flow!Queries(p)
    /\ \E S : cache \in Seq(S)
    /\ Len(cache) = Cached(pass)

WaysInv ==
    /\ pass # "end" => OpenOnly(pass, hidden) /\ (layer > 0 => SeesFirst(pass, hidden))
    /\ \A p \in Flow!Ended : OpenOnly(p, results[p]) /\ SeesFirst(p, results[p])
    /\ \A i \in 1 .. Len(cache), q \in Flow!Cond : cache[i][q].from \cap Flow!Inert = {}

(* The training pass layer by layer, as far as it has come.                *)
Value(h, i, k) == IF k[1] = "text" THEN [stream |-> "text", index |-> k[2], layer |-> i] ELSE h[i][k]
Layered(h, i, q) ==
    [own  |-> h[i][q],
     sees |-> {<<Flow!Position(k), Value(h, i, k)>> : k \in Flow!TeacherForcingMask(q) \cup Flow!Prefix},
     hint |-> Flow!Hint("training", q, i).is]
LayersTrained == IF pass = "training" THEN layer ELSE FlowLayers
Trace(h) ==
    /\ \A q \in Flow!Queries("training") : h[0][q] = Flow!Input("training", q).is
    /\ \A i \in 0 .. LayersTrained - 1 : \A q \in Flow!Queries("training") : h[i + 1][q] = Layered(h, i, q)

(* The deployment's passes follow it where they may.                       *)
Follows(p, q) ==
    CASE p = "training" -> q \in Flow!Queries("training")
      [] p = "stage1"   -> q \in Flow!Noisy /\ setup.video = "bidirectional"
      [] p = "prefill"  -> q \in Flow!Cond /\ ~setup.noised
      [] p = "stage2"   -> q = Flow!Action /\ ~setup.noised
      [] OTHER          -> FALSE
InStep(h) ==
    /\ pass # "end" => \A q \in Flow!Queries(pass) : Follows(pass, q) => hidden[q].is = h[layer][q]
    /\ \A p \in Flow!Ended : \A q \in Flow!Queries(p) : Follows(p, q) => results[p][q].is = h[FlowLayers][q]
    /\ ~setup.noised => \A i \in 0 .. Len(cache) - 1 : \A q \in Flow!Cond : cache[i + 1][q].is = h[i][q]
InStepInv == setup.system = "idm" => \E h : Trace(h) /\ InStep(h)

FlowInv == FlowTypes /\ WaysInv /\ InStepInv
-----------------------------------------------------------------------------
LEMMA FlowAssumed == Flow!FlowAssumption
  BY ModelAssumption

LEMMA Tokens ==
    /\ 0 \in Flow!FrameIds /\ FirstFrame \in Flow!Noisy /\ FlowLayers \in Nat \ {0}
    /\ \A q \in Flow!Noisy : q[1] = "noisy" /\ q[2] \in Flow!FrameIds /\ q = <<"noisy", q[2]>>
    /\ \A q \in Flow!Cond : q[1] = "cond" /\ q[2] \in Flow!FrameIds /\ q = <<"cond", q[2]>>
    /\ Flow!Action[1] = "action" /\ Flow!Action[2] = 0
    /\ \A q \in Flow!Text : q[1] = "text"
    /\ \A q \in Flow!ReadOnly : q[1] = "tail"
    /\ \A q \in Flow!Padded : q[1] \in {"text", "tail"}
    /\ Flow!Prefix \subseteq Flow!Text /\ Flow!Prefix \cap Flow!Inert = {} /\ Flow!Inert \subseteq Flow!Padded
<1>1. 0 \in Flow!FrameIds /\ FirstFrame \in Flow!Noisy /\ FlowLayers \in Nat \ {0}
  BY FlowAssumed DEF Flow!FlowAssumption, Flow!FrameIds, FirstFrame, Flow!Noisy
<1>2. \A q \in Flow!Noisy : q[1] = "noisy" /\ q[2] \in Flow!FrameIds /\ q = <<"noisy", q[2]>>
  BY DEF Flow!Noisy
<1>3. \A q \in Flow!Cond : q[1] = "cond" /\ q[2] \in Flow!FrameIds /\ q = <<"cond", q[2]>>
  BY DEF Flow!Cond
<1>4. Flow!Action[1] = "action" /\ Flow!Action[2] = 0
  BY DEF Flow!Action
<1>5. /\ \A q \in Flow!Text : q[1] = "text"
      /\ \A q \in Flow!ReadOnly : q[1] = "tail"
      /\ \A q \in Flow!Padded : q[1] \in {"text", "tail"}
  BY DEF Flow!Text, Flow!ReadOnly, Flow!Padded
<1>6. Flow!Prefix \subseteq Flow!Text /\ Flow!Prefix \cap Flow!Inert = {} /\ Flow!Inert \subseteq Flow!Padded
  BY <1>5 DEF Flow!Prefix, Flow!Inert
<1>7. QED
  BY <1>1, <1>2, <1>3, <1>4, <1>5, <1>6

(* The masks by the kind of the query.                                     *)
LEMMA JointMasks ==
    /\ \A q \in Flow!Noisy : Flow!JointMask(q) =
          Flow!Branch("noisy", Flow!VideoToVideo(q[2])) \cup Flow!VideoToAction(q[2])
            \cup (Flow!ReadOnly \ Flow!Padded)
    /\ Flow!JointMask(Flow!Action) = Flow!ActionToVideo \cup {Flow!Action} \cup (Flow!ReadOnly \ Flow!Padded)
    /\ \A q \in Flow!ReadOnly :
          Flow!JointMask(q) = IF q \in Flow!Padded THEN {q} ELSE Flow!ReadOnly \ Flow!Padded
<1>1. \A q \in Flow!Noisy : Flow!JointMask(q) =
         Flow!Branch("noisy", Flow!VideoToVideo(q[2])) \cup Flow!VideoToAction(q[2])
           \cup (Flow!ReadOnly \ Flow!Padded)
  BY Tokens DEF Flow!JointMask
<1>2. Flow!JointMask(Flow!Action) = Flow!ActionToVideo \cup {Flow!Action} \cup (Flow!ReadOnly \ Flow!Padded)
  BY Tokens DEF Flow!JointMask
<1>3. \A q \in Flow!ReadOnly :
         Flow!JointMask(q) = IF q \in Flow!Padded THEN {q} ELSE Flow!ReadOnly \ Flow!Padded
  BY Tokens DEF Flow!JointMask
<1>4. QED
  BY <1>1, <1>2, <1>3

LEMMA TrainingMasks ==
    /\ \A q \in Flow!Noisy : Flow!TeacherForcingMask(q) = Flow!Branch("noisy", Flow!VideoToVideo(q[2]))
    /\ \A q \in Flow!Cond : Flow!TeacherForcingMask(q) = Flow!Branch("cond", Flow!VideoToVideo(q[2]))
    /\ Flow!TeacherForcingMask(Flow!Action) = Flow!Cond \cup {Flow!Action}
  BY Tokens DEF Flow!TeacherForcingMask

LEMMA MaskedFrames ==
    ASSUME setup \in Flow!Setups, NEW f \in Flow!FrameIds
    PROVE  /\ Flow!VideoToVideo(f) \subseteq Flow!FrameIds
           /\ setup.video = "bidirectional" => Flow!VideoToVideo(f) = Flow!FrameIds
           /\ setup.video = "per_frame_causal" => \A g \in Flow!VideoToVideo(f) : g <= f
           /\ setup.video # "bidirectional" /\ f = 0 => Flow!VideoToVideo(f) = {0}
<1>1. setup.video \in Flow!VideoModes
  BY DEF Flow!Setups, Flow!Configured
<1>2. Flow!FrameIds \subseteq Nat /\ f \in Nat /\ 0 .. f \subseteq Flow!FrameIds /\ 0 .. 0 = {0}
        /\ 0 \in Flow!FrameIds
  BY FlowAssumed DEF Flow!FlowAssumption, Flow!FrameIds
<1>3. QED
  BY <1>1, <1>2 DEF Flow!VideoToVideo, Flow!VideoModes

LEMMA JointOpen ==
    ASSUME setup \in Flow!Setups, NEW q \in Flow!Queries("joint"), NEW k \in Flow!JointMask(q), NEW t,
           ~JointClosed(k, t)
    PROVE  ~JointClosed(q, t)
<1>1. q \in Flow!Noisy \/ q = Flow!Action \/ q \in Flow!ReadOnly
  BY DEF Flow!Queries
<1>2. CASE q \in Flow!Noisy
  <2>1. PICK f \in Flow!FrameIds : q = <<"noisy", f>> /\ q[1] = "noisy" /\ q[2] = f
    BY <1>2, Tokens
  <2>2. q \notin Flow!ReadOnly /\ q # Flow!Action
    BY <2>1, Tokens
  <2>3. CASE k \in Flow!Branch("noisy", Flow!VideoToVideo(f))
    <3>1. PICK g \in Flow!VideoToVideo(f) : k = <<"noisy", g>>
      BY <2>3 DEF Flow!Branch
    <3>2. g \in Flow!FrameIds /\ f \in Nat /\ g \in Nat /\ k \in Flow!Noisy /\ k[2] = g
      BY <3>1, MaskedFrames DEF Flow!FrameIds, Flow!Noisy
    <3>3. CASE q = FirstFrame
      <4>1. f = 0 /\ (setup.video # "bidirectional" => k = FirstFrame)
        BY <2>1, <3>1, <3>3, MaskedFrames DEF FirstFrame
      <4>2. QED
        BY <1>2, <2>2, <3>2, <3>3, <4>1 DEF JointClosed
    <3>4. CASE q # FirstFrame
      <4>1. setup.video = "per_frame_causal" => g <= f
        BY <3>1, MaskedFrames
      <4>2. ASSUME t \in Flow!Noisy, ~(t[2] <= f), setup.video = "per_frame_causal" PROVE ~(t[2] <= g)
        <5>1. t[2] \in Nat
          BY <4>2, Tokens DEF Flow!FrameIds
        <5>2. QED
          BY <3>2, <4>1, <4>2, <5>1
      <4>3. QED
        BY <1>2, <2>1, <2>2, <3>2, <3>4, <4>2 DEF JointClosed
    <3>5. QED
      BY <3>3, <3>4
  <2>4. CASE k \in Flow!VideoToAction(f)
    <3>1. k = Flow!Action /\ setup.cross \in {"mutual", "video_sees_action"} /\ f # 0
      BY <2>4 DEF Flow!VideoToAction
    <3>2. q # FirstFrame /\ 0 <= f
      BY <2>1, <3>1 DEF FirstFrame, Flow!FrameIds
    <3>3. FirstFrame[2] = 0
      BY DEF FirstFrame
    <3>4. QED
      BY <1>2, <2>1, <2>2, <3>1, <3>2, <3>3 DEF JointClosed
  <2>5. CASE k \in Flow!ReadOnly
    BY <2>2, <2>5 DEF JointClosed
  <2>6. QED
    BY <1>2, <2>1, <2>3, <2>4, <2>5, JointMasks
<1>3. CASE q = Flow!Action
  <2>1. q \notin Flow!Noisy /\ q \notin Flow!ReadOnly /\ q # FirstFrame
    BY <1>3, Tokens DEF FirstFrame
  <2>2. CASE k \in Flow!ActionToVideo
    <3>1. setup.cross \in {"video_sees_action", "isolated"} => k = FirstFrame
      BY <2>2 DEF Flow!ActionToVideo, Flow!Branch, FirstFrame
    <3>2. QED
      BY <1>3, <2>1, <3>1 DEF JointClosed
  <2>3. CASE k = Flow!Action
    BY <1>3, <2>3
  <2>4. CASE k \in Flow!ReadOnly
    BY <2>1, <2>4 DEF JointClosed
  <2>5. QED
    BY <1>3, <2>2, <2>3, <2>4, JointMasks
<1>4. CASE q \in Flow!ReadOnly
  <2>1. k \in Flow!ReadOnly /\ q \notin Flow!Noisy /\ q # Flow!Action /\ q # FirstFrame
    BY <1>4, JointMasks, Tokens DEF FirstFrame
  <2>2. QED
    BY <1>4, <2>1 DEF JointClosed
<1>5. QED
  BY <1>1, <1>2, <1>3, <1>4

LEMMA TrainingOpen ==
    ASSUME setup \in Flow!Setups, NEW q \in Flow!Queries("training"), NEW k \in Flow!TeacherForcingMask(q),
           NEW t,
           ~TrainingClosed(k, t)
    PROVE  ~TrainingClosed(q, t) /\ k \in Flow!Queries("training")
<1>1. q \in Flow!Noisy \/ q \in Flow!Cond \/ q = Flow!Action
  BY DEF Flow!Queries
<1>2. CASE q \in Flow!Noisy
  <2>1. k \in Flow!Noisy
    BY <1>2, Tokens, MaskedFrames, TrainingMasks DEF Flow!Branch, Flow!Noisy
  <2>2. q \notin Flow!Cond /\ q # Flow!Action
    BY <1>2, Tokens
  <2>3. QED
    BY <1>2, <2>1, <2>2 DEF TrainingClosed, Flow!Queries
<1>3. CASE q \in Flow!Cond
  <2>1. k \in Flow!Cond
    BY <1>3, Tokens, MaskedFrames, TrainingMasks DEF Flow!Branch, Flow!Cond
  <2>2. q \notin Flow!Noisy /\ q # Flow!Action
    BY <1>3, Tokens
  <2>3. QED
    BY <1>3, <2>1, <2>2 DEF TrainingClosed, Flow!Queries
<1>4. CASE q = Flow!Action
  <2>1. k \in Flow!Cond \cup {Flow!Action} /\ q \notin Flow!Noisy /\ q \notin Flow!Cond
    BY <1>4, TrainingMasks, Tokens
  <2>2. QED
    BY <1>4, <2>1 DEF TrainingClosed, Flow!Queries
<1>5. QED
  BY <1>1, <1>2, <1>3, <1>4

(* A key is of the text, from the cache, or another token of the pass, and *)
(* then no padding but itself.                                             *)
LEMMA MaskFacts ==
    ASSUME setup \in Flow!Setups, pass \in Passes, NEW q \in Flow!Queries(pass), NEW k \in Flow!Mask(q)
    PROVE  \/ k \in Flow!Prefix
           \/ pass = "stage2" /\ k \in Flow!Cond
           \/ /\ k \in Flow!Queries(pass) /\ k[1] # "text" /\ (k[1] = "cond" => pass # "stage2")
              /\ k \in Flow!Padded => k = q
              /\ pass = "joint" => k \in Flow!JointMask(q)
              /\ pass = "training" => k \in Flow!TeacherForcingMask(q)
<1> SUFFICES ASSUME k \notin Flow!Prefix, ~(pass = "stage2" /\ k \in Flow!Cond)
             PROVE  /\ k \in Flow!Queries(pass) /\ k[1] # "text" /\ (k[1] = "cond" => pass # "stage2")
                    /\ k \in Flow!Padded => k = q
                    /\ pass = "joint" => k \in Flow!JointMask(q)
                    /\ pass = "training" => k \in Flow!TeacherForcingMask(q)
  OBVIOUS
<1>1. CASE pass = "joint"
  <2>1. k \in Flow!JointMask(q)
    BY <1>1 DEF Flow!Mask
  <2>2. q \in Flow!Noisy \/ q = Flow!Action \/ q \in Flow!ReadOnly
    BY <1>1 DEF Flow!Queries
  <2>3. CASE q \in Flow!Noisy
    <3>1. k \in Flow!Noisy \/ k = Flow!Action \/ k \in Flow!ReadOnly \ Flow!Padded
      BY <2>1, <2>3, JointMasks, Tokens, MaskedFrames DEF Flow!Branch, Flow!Noisy, Flow!VideoToAction
    <3>2. QED
      BY <1>1, <2>1, <3>1, Tokens DEF Flow!Queries
  <2>4. CASE q = Flow!Action
    <3>1. k \in Flow!Noisy \/ k = Flow!Action \/ k \in Flow!ReadOnly \ Flow!Padded
      BY <2>1, <2>4, JointMasks, Tokens DEF Flow!Branch, Flow!Noisy, Flow!ActionToVideo
    <3>2. QED
      BY <1>1, <2>1, <3>1, Tokens DEF Flow!Queries
  <2>5. CASE q \in Flow!ReadOnly
    <3>1. k \in Flow!ReadOnly /\ (k \in Flow!Padded => k = q)
      BY <2>1, <2>5, JointMasks
    <3>2. QED
      BY <1>1, <2>1, <3>1, Tokens DEF Flow!Queries
  <2>6. QED
    BY <2>2, <2>3, <2>4, <2>5
<1>2. CASE pass = "training"
  <2>1. k \in Flow!TeacherForcingMask(q)
    BY <1>2 DEF Flow!Mask
  <2>2. q \in Flow!Noisy \/ q \in Flow!Cond \/ q = Flow!Action
    BY <1>2 DEF Flow!Queries
  <2>3. k \in Flow!Noisy \/ k \in Flow!Cond \/ k = Flow!Action
    BY <2>1, <2>2, TrainingMasks, Tokens, MaskedFrames DEF Flow!Branch, Flow!Noisy, Flow!Cond
  <2>4. QED
    BY <1>2, <2>1, <2>3, Tokens DEF Flow!Queries
<1>3. CASE pass = "stage1"
  <2>1. k \in Flow!Noisy
    BY <1>3 DEF Flow!Mask, Flow!NoMask
  <2>2. QED
    BY <1>3, <2>1, Tokens DEF Flow!Queries
<1>4. CASE pass = "prefill"
  <2>1. q \in Flow!Cond
    BY <1>4 DEF Flow!Queries
  <2>2. k \in Flow!Cond
    BY <1>4, <2>1, Tokens, MaskedFrames DEF Flow!Mask, Flow!PrefillMask, Flow!Branch, Flow!Cond
  <2>3. QED
    BY <1>4, <2>2, Tokens DEF Flow!Queries
<1>5. CASE pass = "stage2"
  <2>1. k = Flow!Action
    BY <1>5 DEF Flow!Mask, Flow!CachedActionMask
  <2>2. QED
    BY <1>5, <2>1, Tokens DEF Flow!Queries
<1>6. QED
  BY <1>1, <1>2, <1>3, <1>4, <1>5 DEF Passes

LEMMA CacheGrows ==
    ASSUME NEW S, NEW c \in Seq(S), NEW x
    PROVE  /\ Len(c) \in Nat /\ Len(Append(c, x)) = Len(c) + 1 /\ Append(c, x)[Len(c) + 1] = x
           /\ \A i \in 1 .. Len(c) : Append(c, x)[i] = c[i]
           /\ Append(c, x) \in Seq(S \cup {x})
<1>1. c \in Seq(S \cup {x}) /\ x \in S \cup {x}
  OBVIOUS
<1>2. QED
  BY <1>1

LEMMA SelfOpen ==
    ASSUME NEW p \in Passes, NEW q
    PROVE  ~ClosedWay(p, q, q)
<1>1. q \in Flow!Noisy => q[2] <= q[2]
  BY Tokens DEF Flow!FrameIds
<1>2. q \in Flow!Noisy => q \notin Flow!ReadOnly /\ q # Flow!Action /\ q \notin Flow!Cond
  BY Tokens
<1>3. Flow!Action \notin Flow!ReadOnly /\ Flow!Action \notin Flow!Cond /\ Flow!Action \notin Flow!Noisy
        /\ FirstFrame # Flow!Action
  BY Tokens
<1>4. QED
  BY <1>1, <1>2, <1>3 DEF ClosedWay, JointClosed, TrainingClosed

LEMMA InputsOpen ==
    ASSUME NEW p \in Passes, NEW values, values = [q \in Flow!Queries(p) |-> Flow!Input(p, q)]
    PROVE  OpenOnly(p, values)
<1>1. \A q \in Flow!Queries(p) : values[q].from = {q}
  BY DEF Flow!Input
<1>2. QED
  BY <1>1, SelfOpen DEF OpenOnly

(* A hint brings the video of the own branch, and text.                    *)
LEMMA HintOpen ==
    ASSUME NEW p \in Passes, NEW q \in Flow!Queries(p), NEW i, NEW t \in Flow!Hint(p, q, i).from
    PROVE  ~ClosedWay(p, q, t)
<1>1. setup.hints /\ (q \in Flow!Noisy \/ q \in Flow!Cond) /\ t \in Flow!Branch(q[1], Flow!FrameIds) \cup Flow!Text
  BY DEF Flow!Hint
<1>2. t \notin Flow!Inert
  BY <1>1, Tokens DEF Flow!Branch, Flow!Inert
<1>3. CASE q \in Flow!Noisy
  <2>1. t \in Flow!Noisy \/ t[1] = "text"
    BY <1>1, <1>3, Tokens DEF Flow!Branch, Flow!Noisy
  <2>2. t \notin Flow!Cond /\ t # Flow!Action /\ q \notin Flow!ReadOnly /\ q \notin Flow!Cond /\ q # Flow!Action
    BY <1>3, <2>1, Tokens
  <2>3. QED
    BY <1>1, <1>2, <2>2 DEF ClosedWay, JointClosed, TrainingClosed
<1>4. CASE q \in Flow!Cond
  <2>1. t \in Flow!Cond \/ t[1] = "text"
    BY <1>1, <1>4, Tokens DEF Flow!Branch, Flow!Cond
  <2>2. /\ t \notin Flow!Noisy /\ t # Flow!Action
        /\ q \notin Flow!ReadOnly /\ q \notin Flow!Noisy /\ q # Flow!Action /\ q # FirstFrame
    BY <1>4, <2>1, Tokens
  <2>3. QED
    BY <1>1, <1>2, <2>2 DEF ClosedWay, JointClosed, TrainingClosed
<1>5. QED
  BY <1>1, <1>3, <1>4

(* What reaches a token by one more layer.                                 *)
LEMMA LayerOpen ==
    ASSUME FlowTypes, pass \in Passes, layer < FlowLayers, OpenOnly(pass, hidden),
           \A i \in 1 .. Len(cache), q \in Flow!Cond : cache[i][q].from \cap Flow!Inert = {},
           NEW q \in Flow!Queries(pass), NEW t \in Flow!Mix(q, layer).from
    PROVE  ~ClosedWay(pass, q, t)
<1>1. CASE t \in hidden[q].from
  BY <1>1 DEF OpenOnly
<1>2. CASE t \in Flow!Hint(pass, q, layer).from
  <2>1. \A i : \A u \in Flow!Hint(pass, q, i).from : ~ClosedWay(pass, q, u)
    BY HintOpen
  <2>2. QED
    BY <1>2, <2>1
<1>3. CASE t \notin hidden[q].from /\ t \notin Flow!Hint(pass, q, layer).from
  <2>1. PICK k \in Flow!Mask(q) : t \in Flow!KeyValue(k, layer).from
    BY <1>3 DEF Flow!Mix
  <2>2. setup \in Flow!Setups /\ layer \in Nat /\ FlowLayers \in Nat
    BY Tokens DEF FlowTypes
  <2>3. CASE k \in Flow!Prefix
    <3>1. t = k
      BY <2>1, <2>3, Tokens DEF Flow!KeyValue
    <3>2. t \notin Flow!Inert /\ t[1] = "text"
      BY <2>3, <3>1, Tokens
    <3>3. t \notin Flow!Noisy /\ t \notin Flow!Cond /\ t # Flow!Action
      BY <3>2, Tokens
    <3>4. QED
      BY <3>2, <3>3, Tokens DEF ClosedWay, JointClosed, TrainingClosed
  <2>4. CASE pass = "stage2" /\ k \in Flow!Cond
    <3>1. layer + 1 \in 1 .. Len(cache)
      BY <2>2, <2>4 DEF FlowTypes, Cached
    <3>2. t \notin Flow!Inert
      BY <2>1, <2>4, <3>1, Tokens DEF Flow!KeyValue
    <3>3. QED
      BY <2>4, <3>2 DEF ClosedWay
  <2>5. CASE /\ k \in Flow!Queries(pass) /\ k[1] # "text" /\ (k[1] = "cond" => pass # "stage2")
             /\ k \in Flow!Padded => k = q
             /\ pass = "joint" => k \in Flow!JointMask(q)
             /\ pass = "training" => k \in Flow!TeacherForcingMask(q)
    <3>1. Flow!KeyValue(k, layer) = hidden[k]
      BY <2>5 DEF Flow!KeyValue
    <3>2. ~ClosedWay(pass, k, t)
      BY <2>1, <2>5, <3>1 DEF OpenOnly
    <3>3. t \in Flow!Inert => t = q
      BY <2>5, <3>2, Tokens DEF ClosedWay
    <3>4. pass = "joint" => ~JointClosed(q, t)
      BY <2>2, <2>5, <3>2, JointOpen DEF ClosedWay
    <3>5. pass = "training" => ~TrainingClosed(q, t)
      BY <2>2, <2>5, <3>2, TrainingOpen DEF ClosedWay
    <3>6. QED
      BY <3>3, <3>4, <3>5 DEF ClosedWay
  <2>6. QED
    BY <2>2, <2>3, <2>4, <2>5, MaskFacts
<1>4. QED
  BY <1>1, <1>2, <1>3

LEMMA ActionSeesFirst ==
    ASSUME pass = "joint", OpenOnly(pass, hidden), NEW i
    PROVE  FirstFrame \in Flow!Mix(Flow!Action, i).from
<1>1. FirstFrame \in Flow!Mask(Flow!Action)
  <2>1. FirstFrame \in Flow!ActionToVideo
    BY Tokens DEF Flow!ActionToVideo, Flow!Branch, FirstFrame
  <2>2. QED
    BY <2>1, JointMasks DEF Flow!Mask
<1>2. Flow!KeyValue(FirstFrame, i) = hidden[FirstFrame]
  BY Tokens DEF Flow!KeyValue
<1>3. FirstFrame \in hidden[FirstFrame].from
  BY Tokens DEF OpenOnly, Flow!Queries
<1>4. QED
  BY <1>1, <1>2, <1>3 DEF Flow!Mix
-----------------------------------------------------------------------------
LEMMA InputFollows ==
    ASSUME NEW p \in Passes, NEW q \in Flow!Queries(p), Follows(p, q)
    PROVE  Flow!Input(p, q).is = Flow!Input("training", q).is /\ q \in Flow!Queries("training")
<1>1. Flow!Input(p, q).is = Flow!Input("training", q).is
  BY Tokens DEF Flow!Input, Follows, Passes
<1>2. q \in Flow!Queries("training")
  BY DEF Follows, Flow!Queries, Passes
<1>3. QED
  BY <1>1, <1>2

(* The hints of a branch that follows training are those of training.      *)
LEMMA HintFollows ==
    ASSUME NEW p \in Passes, NEW q \in Flow!Queries(p), Follows(p, q), NEW i
    PROVE  Flow!Hint(p, q, i).is = Flow!Hint("training", q, i).is
<1>1. CASE q \in Flow!Noisy \cup Flow!Cond
  <2>1. ASSUME NEW k \in Flow!Branch(q[1], Flow!FrameIds)
        PROVE  Flow!Input(p, k).is = Flow!Input("training", k).is
    <3>1. k \in Flow!Queries(p) /\ Follows(p, k)
      BY <1>1, <2>1, Tokens DEF Follows, Flow!Queries, Flow!Branch, Flow!Noisy, Flow!Cond, Passes
    <3>2. QED
      BY <3>1, InputFollows
  <2>2. {<<Flow!Position(k), Flow!Input(p, k).is>> : k \in Flow!Branch(q[1], Flow!FrameIds)} =
        {<<Flow!Position(k), Flow!Input("training", k).is>> : k \in Flow!Branch(q[1], Flow!FrameIds)}
    BY <2>1
  <2>3. QED
    BY <2>2 DEF Flow!Hint
<1>2. CASE q \notin Flow!Noisy \cup Flow!Cond
  BY <1>2 DEF Flow!Hint
<1>3. QED
  BY <1>1, <1>2

(* A layer of deployment is the layer of training.                         *)
LEMMA LayerFollows ==
    ASSUME FlowTypes, pass \in Passes, layer < FlowLayers, NEW h, InStep(h),
           NEW q \in Flow!Queries(pass), Follows(pass, q)
    PROVE  Flow!Mix(q, layer).is = Layered(h, layer, q)
<1>1. setup \in Flow!Setups /\ layer \in Nat /\ FlowLayers \in Nat
  BY Tokens DEF FlowTypes
<1>2. Flow!Mask(q) = Flow!TeacherForcingMask(q) \cup Flow!Prefix
  <2>1. CASE pass = "training"
    BY <2>1 DEF Flow!Mask
  <2>2. CASE pass = "stage1"
    <3>1. q \in Flow!Noisy /\ Flow!VideoToVideo(q[2]) = Flow!FrameIds
      BY <1>1, <2>2, Tokens, MaskedFrames DEF Follows
    <3>2. QED
      BY <2>2, <3>1, TrainingMasks DEF Flow!Mask, Flow!NoMask, Flow!Branch, Flow!Noisy
  <2>3. CASE pass = "prefill"
    BY <2>3, TrainingMasks DEF Flow!Mask, Flow!PrefillMask, Follows
  <2>4. CASE pass = "stage2"
    BY <2>4, TrainingMasks DEF Flow!Mask, Flow!CachedActionMask, Follows
  <2>5. QED
    BY <2>1, <2>2, <2>3, <2>4 DEF Follows
<1>3. ASSUME NEW k \in Flow!Mask(q) PROVE Flow!KeyValue(k, layer).is = Value(h, layer, k)
  <2>1. CASE k \in Flow!Prefix
    BY <2>1, Tokens DEF Value, Flow!KeyValue
  <2>2. CASE pass = "stage2" /\ k \in Flow!Cond
    <3>1. layer \in 0 .. Len(cache) - 1
      BY <1>1, <2>2 DEF FlowTypes, Cached
    <3>2. ~setup.noised
      BY <2>2 DEF Follows
    <3>3. cache[layer + 1][k].is = h[layer][k]
      BY <2>2, <3>1, <3>2 DEF InStep
    <3>4. Flow!KeyValue(k, layer) = cache[layer + 1][k] /\ k[1] # "text"
      BY <2>2, Tokens DEF Flow!KeyValue
    <3>5. QED
      BY <3>3, <3>4 DEF Value
  <2>3. CASE k \in Flow!Queries(pass) /\ k[1] # "text" /\ (k[1] = "cond" => pass # "stage2")
    <3>1. Follows(pass, k)
      BY <2>3, Tokens DEF Follows, Flow!Queries, Passes
    <3>2. hidden[k].is = h[layer][k]
      BY <2>3, <3>1 DEF InStep, Passes
    <3>3. Flow!KeyValue(k, layer) = hidden[k]
      BY <2>3 DEF Flow!KeyValue
    <3>4. QED
      BY <2>3, <3>2, <3>3 DEF Value
  <2>4. QED
    BY <1>1, <2>1, <2>2, <2>3, MaskFacts
<1>4. hidden[q].is = h[layer][q]
  BY DEF InStep, Passes
<1>5. {<<Flow!Position(k), Flow!KeyValue(k, layer).is>> : k \in Flow!Mask(q)} =
      {<<Flow!Position(k), Value(h, layer, k)>> : k \in Flow!TeacherForcingMask(q) \cup Flow!Prefix}
  BY <1>2, <1>3
<1>6. Flow!Hint(pass, q, layer).is = Flow!Hint("training", q, layer).is
  BY HintFollows
<1>7. QED
  BY <1>4, <1>5, <1>6 DEF Flow!Mix, Layered
-----------------------------------------------------------------------------
LEMMA FlowInit ==
    ASSUME Flow!Init
    PROVE  FlowInv
<1>1. setup \in Flow!Setups /\ setup.system \in {"idm", "joint"} /\ layer = 0 /\ cache = << >>
        /\ results = << >>
  BY DEF Flow!Init, Flow!Setups, Flow!Configured
<1>2. /\ pass = IF setup.system = "idm" THEN "training" ELSE "joint"
      /\ hidden = [q \in Flow!Queries(pass) |-> Flow!Input(pass, q)]
  BY DEF Flow!Init
<1>3. pass \in Passes /\ 0 \in 0 .. FlowLayers /\ Flow!Ended = {} /\ Len(cache) = 0
  BY <1>1, <1>2, Tokens DEF Passes, Flow!Ended
<1>4. FlowTypes
  <2>1. \E S : cache \in Seq(S)
    <3>1. cache \in Seq({})
      BY <1>1
    <3>2. QED
      BY <3>1
  <2>2. QED
    BY <1>1, <1>2, <1>3, <2>1 DEF FlowTypes, DoneBefore, Cached, Passes
<1>5. WaysInv
  BY <1>1, <1>2, <1>3, InputsOpen DEF WaysInv
<1>6. InStepInv
  <2> SUFFICES ASSUME setup.system = "idm" PROVE \E h : Trace(h) /\ InStep(h)
    BY DEF InStepInv
  <2>1. pass = "training" /\ LayersTrained = 0
    BY <1>1, <1>2 DEF LayersTrained
  <2> DEFINE h == [i \in {0} |-> [q \in Flow!Queries("training") |-> Flow!Input("training", q).is]]
  <2>2. \A q \in Flow!Queries("training") : h[0][q] = Flow!Input("training", q).is
    OBVIOUS
  <2> HIDE DEF h
  <2>3. Trace(h)
    BY <2>1, <2>2 DEF Trace
  <2>4. InStep(h)
    BY <1>1, <1>2, <1>3, <2>1, <2>2 DEF InStep
  <2>5. QED
    BY <2>3, <2>4
<1>7. QED
  BY <1>4, <1>5, <1>6 DEF FlowInv

LEMMA LayerStep ==
    ASSUME FlowInv, Flow!RunLayer
    PROVE  FlowInv'
<1>1. /\ FlowTypes /\ WaysInv /\ InStepInv /\ pass \in Passes /\ pass # "end" /\ layer < FlowLayers
      /\ layer \in Nat /\ FlowLayers \in Nat \ {0}
  BY Tokens DEF FlowInv, FlowTypes, Flow!RunLayer, Passes
<1>2. /\ hidden' = [q \in Flow!Queries(pass) |-> Flow!Mix(q, layer)]
      /\ layer' = layer + 1 /\ UNCHANGED <<setup, pass, compiled, results>>
      /\ cache' = IF pass = "prefill" THEN Append(cache, hidden) ELSE cache
  BY <1>1 DEF Flow!RunLayer, FlowTypes
<1>3. /\ Len(cache) \in Nat /\ Len(Append(cache, hidden)) = Len(cache) + 1
      /\ Append(cache, hidden)[Len(cache) + 1] = hidden
      /\ \A i \in 1 .. Len(cache) : Append(cache, hidden)[i] = cache[i]
      /\ \E S : Append(cache, hidden) \in Seq(S)
  <2>1. PICK S : cache \in Seq(S)
    BY <1>1 DEF FlowTypes
  <2>2. Append(cache, hidden) \in Seq(S \cup {hidden})
    BY <2>1, CacheGrows
  <2>3. QED
    BY <2>1, <2>2, CacheGrows
<1>4. FlowTypes'
  <2>1. Len(cache') = Cached(pass)'
    BY <1>1, <1>2, <1>3 DEF FlowTypes, Cached
  <2>2. \E S : cache' \in Seq(S)
    BY <1>1, <1>2, <1>3 DEF FlowTypes
  <2>3. layer' \in 0 .. FlowLayers
    BY <1>1, <1>2
  <2>4. Flow!Ended' = DoneBefore(pass)'
    BY <1>1, <1>2 DEF FlowTypes, Flow!Ended, DoneBefore
  <2>5. (pass # "end" => DOMAIN hidden = Flow!Queries(pass))'
          /\ (\A p \in Flow!Ended : DOMAIN results[p] = Flow!Queries(p))'
    BY <1>1, <1>2 DEF FlowTypes, Flow!Queries, Flow!ReadOnly, Flow!Ended
  <2>6. QED
    BY <1>1, <1>2, <2>1, <2>2, <2>3, <2>4, <2>5 DEF FlowTypes
<1>5. \A p, q, k : ClosedWay(p, q, k)' <=> ClosedWay(p, q, k)
  BY <1>2 DEF ClosedWay, JointClosed, TrainingClosed, Flow!Inert, Flow!Padded, Flow!ReadOnly
<1>6. \A p : Flow!Queries(p)' = Flow!Queries(p)
  BY <1>2 DEF Flow!Queries, Flow!ReadOnly
<1>7. WaysInv'
  <2>1. OpenOnly(pass, hidden)'
    <3>1. ASSUME NEW q \in Flow!Queries(pass)
          PROVE  q \in hidden'[q].from /\ \A k \in hidden'[q].from : ~ClosedWay(pass, q, k)
      <4>1. hidden'[q] = Flow!Mix(q, layer) /\ q \in hidden[q].from
        BY <1>1, <1>2 DEF WaysInv, OpenOnly
      <4>2. q \in Flow!Mix(q, layer).from
        BY <4>1 DEF Flow!Mix
      <4>3. \A k \in Flow!Mix(q, layer).from : ~ClosedWay(pass, q, k)
        BY <1>1, LayerOpen DEF WaysInv
      <4>4. QED
        BY <4>1, <4>2, <4>3
    <3>2. QED
      BY <1>2, <1>5, <1>6, <3>1 DEF OpenOnly
  <2>2. SeesFirst(pass, hidden)'
    <3>1. pass = "joint" => hidden'[Flow!Action] = Flow!Mix(Flow!Action, layer)
      BY <1>2 DEF Flow!Queries
    <3>2. QED
      BY <1>1, <1>2, <3>1, ActionSeesFirst DEF SeesFirst, WaysInv
  <2>3. \A p \in Flow!Ended' : (OpenOnly(p, results[p]) /\ SeesFirst(p, results[p]))'
    BY <1>1, <1>2, <1>5, <1>6 DEF WaysInv, OpenOnly, SeesFirst, Flow!Ended
  <2>4. ASSUME NEW i \in 1 .. Len(cache'), NEW q \in Flow!Cond PROVE cache'[i][q].from \cap Flow!Inert = {}
    <3>1. CASE i \in 1 .. Len(cache)
      BY <1>1, <1>2, <1>3, <3>1 DEF WaysInv
    <3>2. CASE i \notin 1 .. Len(cache)
      <4>1. pass = "prefill" /\ cache'[i] = hidden
        BY <1>2, <1>3, <3>2
      <4>2. q \in Flow!Queries(pass) /\ q \notin Flow!Inert
        BY <4>1, Tokens DEF Flow!Queries
      <4>3. \A k \in hidden[q].from : ~ClosedWay(pass, q, k)
        BY <1>1, <4>2 DEF WaysInv, OpenOnly
      <4>4. QED
        BY <4>1, <4>2, <4>3 DEF ClosedWay
    <3>3. QED
      BY <3>1, <3>2
  <2>5. Flow!Inert' = Flow!Inert
    BY <1>2 DEF Flow!Inert, Flow!Padded
  <2>6. QED
    BY <2>1, <2>2, <2>3, <2>4, <2>5 DEF WaysInv
<1>8. InStepInv'
  <2> SUFFICES ASSUME setup.system = "idm" PROVE (\E h : Trace(h) /\ InStep(h))'
    BY <1>2 DEF InStepInv
  <2>1. PICK h : Trace(h) /\ InStep(h)
    BY <1>1 DEF InStepInv
  <2>2. \A q \in Flow!Queries(pass) : Follows(pass, q) => hidden'[q].is = Layered(h, layer, q)
    BY <1>1, <1>2, <2>1, LayerFollows
  <2>3. \A p, q : Follows(p, q)' <=> Follows(p, q)
    BY <1>2, <1>6 DEF Follows
  <2>4. /\ \A q : Flow!Input("training", q)' = Flow!Input("training", q)
        /\ \A q, i : Flow!Hint("training", q, i).is' = Flow!Hint("training", q, i).is
    BY <1>2 DEF Flow!Input, Flow!Video, Flow!LatentsOf, Flow!TimeOf, Flow!Hint, Flow!Text
  <2>5. \A g, i, q : Layered(g, i, q)' = Layered(g, i, q)
    BY <1>2, <2>4
       DEF Layered, Value, Flow!TeacherForcingMask, Flow!Prefix, Flow!Text, Flow!Padded, Flow!VideoToVideo
  <2>6. CASE pass = "training"
    <3> DEFINE n == layer + 1
    <3>1. /\ n \in Nat /\ n <= FlowLayers /\ LayersTrained = layer /\ LayersTrained' = n
      BY <1>1, <1>2, <2>6 DEF LayersTrained
    <3>2. PICK g : g = [i \in 0 .. n |-> IF i = n THEN [q \in Flow!Queries("training") |-> Layered(h, layer, q)]
                                        ELSE h[i]]
      OBVIOUS
    <3>3. /\ \A i \in 0 .. layer : g[i] = h[i]
          /\ \A q \in Flow!Queries("training") : g[n][q] = Layered(h, layer, q)
      BY <1>1, <3>2
    <3>4. ASSUME NEW i \in 0 .. layer, NEW q PROVE Layered(g, i, q) = Layered(h, i, q)
      <4>1. g[i] = h[i]
        BY <3>3
      <4>2. \A k : Value(g, i, k) = Value(h, i, k)
        BY <4>1 DEF Value
      <4>3. QED
        BY <4>1, <4>2 DEF Layered
    <3>5. ASSUME NEW i \in 0 .. n - 1, NEW q \in Flow!Queries("training") PROVE g[i + 1][q] = Layered(g, i, q)
      <4>1. i \in 0 .. layer
        BY <1>1, <3>1
      <4>2. CASE i = layer
        BY <3>3, <3>4, <4>1, <4>2
      <4>3. CASE i # layer
        <5>1. i \in 0 .. LayersTrained - 1 /\ i + 1 \in 0 .. layer
          BY <1>1, <3>1, <4>1, <4>3
        <5>2. h[i + 1][q] = Layered(h, i, q)
          BY <2>1, <5>1 DEF Trace
        <5>3. QED
          BY <3>3, <3>4, <4>1, <5>1, <5>2
      <4>4. QED
        BY <4>2, <4>3
    <3>6. \A q \in Flow!Queries("training") : g[0][q] = Flow!Input("training", q).is
      BY <1>1, <2>1, <3>3 DEF Trace
    <3>7. Trace(g)'
      BY <1>6, <2>4, <2>5, <3>1, <3>5, <3>6 DEF Trace
    <3>8. InStep(g)'
      <4>1. Flow!Ended = {} /\ Len(cache) = 0 /\ cache' = cache /\ results' = results
        BY <1>1, <1>2, <2>6 DEF FlowTypes, DoneBefore, Cached
      <4>2. \A q \in Flow!Queries(pass) : Follows(pass, q) => hidden'[q].is = g[n][q]
        BY <2>2, <2>6, <3>3
      <4>3. QED
        BY <1>2, <1>6, <2>3, <4>1, <4>2 DEF InStep, Flow!Ended
    <3>9. QED
      BY <3>7, <3>8
  <2>7. CASE pass # "training"
    <3>1. LayersTrained = FlowLayers /\ LayersTrained' = FlowLayers
      BY <1>2, <2>7 DEF LayersTrained
    <3>2. Trace(h)'
      BY <1>6, <2>1, <2>4, <2>5, <3>1 DEF Trace
    <3>3. \A q \in Flow!Queries(pass) : Follows(pass, q) => hidden'[q].is = h[layer + 1][q]
      <4>1. layer \in 0 .. FlowLayers - 1
        BY <1>1
      <4>2. \A q \in Flow!Queries(pass) : Follows(pass, q) => q \in Flow!Queries("training")
        BY <1>1, InputFollows
      <4>3. QED
        BY <2>1, <2>2, <3>1, <4>1, <4>2 DEF Trace
    <3>4. \A p \in Flow!Ended : \A q \in Flow!Queries(p) :
             Follows(p, q) => results[p][q].is = h[FlowLayers][q]
      BY <2>1 DEF InStep
    <3>5. ASSUME ~setup.noised, NEW i \in 0 .. Len(cache') - 1, NEW q \in Flow!Cond
          PROVE  cache'[i + 1][q].is = h[i][q]
      <4>1. CASE i \in 0 .. Len(cache) - 1
        <5>1. cache'[i + 1] = cache[i + 1]
          BY <1>2, <1>3, <4>1
        <5>2. QED
          BY <2>1, <3>5, <4>1, <5>1 DEF InStep
      <4>2. CASE i \notin 0 .. Len(cache) - 1
        <5>1. pass = "prefill" /\ i = Len(cache) /\ cache'[i + 1] = hidden /\ i = layer
          BY <1>1, <1>2, <1>3, <4>2 DEF FlowTypes, Cached
        <5>2. q \in Flow!Queries(pass) /\ Follows(pass, q)
          BY <3>5, <5>1 DEF Flow!Queries, Follows
        <5>3. QED
          BY <1>1, <2>1, <5>1, <5>2 DEF InStep
      <4>3. QED
        BY <4>1, <4>2
    <3>6. InStep(h)'
      BY <1>2, <1>6, <2>3, <3>3, <3>4, <3>5 DEF InStep, Flow!Ended
    <3>7. QED
      BY <3>2, <3>6
  <2>8. QED
    BY <2>6, <2>7
<1>9. QED
  BY <1>4, <1>7, <1>8 DEF FlowInv

LEMMA FallBackStep ==
    ASSUME FlowInv, Flow!CompiledFails
    PROVE  FlowInv'
<1>1. FlowTypes /\ WaysInv /\ InStepInv /\ pass = "stage2" /\ pass \in Passes /\ FlowLayers \in Nat \ {0}
  BY Tokens DEF FlowInv, Flow!CompiledFails, Passes
<1>2. /\ hidden' = [q \in Flow!Queries(pass) |-> Flow!Input(pass, q)]
      /\ layer' = 0 /\ UNCHANGED <<setup, pass, cache, results>>
  BY DEF Flow!CompiledFails
<1>3. FlowTypes'
  <2>1. (pass # "end" => DOMAIN hidden = Flow!Queries(pass))'
          /\ (\A p \in Flow!Ended : DOMAIN results[p] = Flow!Queries(p))'
    BY <1>1, <1>2 DEF FlowTypes, Flow!Queries, Flow!ReadOnly, Flow!Ended
  <2>2. Flow!Ended' = DoneBefore(pass)' /\ Len(cache') = Cached(pass)' /\ layer' \in 0 .. FlowLayers
    BY <1>1, <1>2 DEF FlowTypes, Flow!Ended, DoneBefore, Cached
  <2>3. QED
    BY <1>1, <1>2, <2>1, <2>2 DEF FlowTypes
<1>4. \A p : Flow!Queries(p)' = Flow!Queries(p)
  BY <1>2 DEF Flow!Queries, Flow!ReadOnly
<1>5. \A p, q, k : ClosedWay(p, q, k)' <=> ClosedWay(p, q, k)
  BY <1>2 DEF ClosedWay, JointClosed, TrainingClosed, Flow!Inert, Flow!Padded, Flow!ReadOnly
<1>6. WaysInv'
  <2>1. OpenOnly(pass, hidden')
    BY <1>1, <1>2, InputsOpen
  <2>2. OpenOnly(pass, hidden)'
    BY <1>2, <1>4, <1>5, <2>1 DEF OpenOnly
  <2>3. \A p \in Flow!Ended' : (OpenOnly(p, results[p]) /\ SeesFirst(p, results[p]))'
    BY <1>1, <1>2, <1>4, <1>5 DEF WaysInv, OpenOnly, SeesFirst, Flow!Ended
  <2>4. Flow!Inert' = Flow!Inert
    BY <1>2 DEF Flow!Inert, Flow!Padded
  <2>5. QED
    BY <1>1, <1>2, <2>2, <2>3, <2>4 DEF WaysInv
<1>7. InStepInv'
  <2> SUFFICES ASSUME setup.system = "idm" PROVE (\E h : Trace(h) /\ InStep(h))'
    BY <1>2 DEF InStepInv
  <2>1. PICK h : Trace(h) /\ InStep(h)
    BY <1>1 DEF InStepInv
  <2>2. \A p, q : Follows(p, q)' <=> Follows(p, q)
    BY <1>2, <1>4 DEF Follows
  <2>3. /\ \A q : Flow!Input("training", q)' = Flow!Input("training", q)
        /\ \A q, i : Flow!Hint("training", q, i).is' = Flow!Hint("training", q, i).is
    BY <1>2 DEF Flow!Input, Flow!Video, Flow!LatentsOf, Flow!TimeOf, Flow!Hint, Flow!Text
  <2>4. \A i, q : Layered(h, i, q)' = Layered(h, i, q)
    BY <1>2, <2>3
       DEF Layered, Value, Flow!TeacherForcingMask, Flow!Prefix, Flow!Text, Flow!Padded, Flow!VideoToVideo
  <2>5. LayersTrained = FlowLayers /\ LayersTrained' = FlowLayers
    BY <1>1, <1>2 DEF LayersTrained
  <2>6. Trace(h)'
    BY <1>4, <2>1, <2>3, <2>4, <2>5 DEF Trace
  <2>7. \A q \in Flow!Queries(pass) : Follows(pass, q) => hidden'[q].is = h[0][q]
    BY <1>1, <1>2, <2>1, InputFollows DEF Trace
  <2>8. InStep(h)'
    BY <1>2, <1>4, <2>1, <2>2, <2>7 DEF InStep, Flow!Ended
  <2>9. QED
    BY <2>6, <2>8
<1>8. QED
  BY <1>3, <1>6, <1>7 DEF FlowInv

LEMMA FinalizeStep ==
    ASSUME FlowInv, Flow!Finalize
    PROVE  FlowInv'
<1>1. /\ FlowTypes /\ WaysInv /\ InStepInv /\ pass \in Passes /\ pass # "end" /\ layer = FlowLayers
      /\ layer \in Nat /\ layer > 0 /\ FlowLayers \in Nat \ {0} /\ setup.system \in {"joint", "idm"}
  <2>1. FlowTypes /\ WaysInv /\ InStepInv /\ pass # "end" /\ layer = FlowLayers
    BY DEF FlowInv, Flow!Finalize
  <2>2. pass \in Passes /\ setup \in Flow!Setups
    BY <2>1 DEF FlowTypes
  <2>3. setup.system \in {"joint", "idm"}
    BY <2>2 DEF Flow!Setups, Flow!Configured
  <2>4. QED
    BY <2>1, <2>2, <2>3, Tokens
<1>2. /\ results' = [p \in Flow!Ended \cup {pass} |-> IF p = pass THEN hidden ELSE results[p]]
      /\ pass' = Flow!Following[pass] /\ layer' = 0 /\ UNCHANGED <<setup, cache>>
      /\ hidden' = IF pass' = "end" THEN << >> ELSE [q \in Flow!Queries(pass') |-> Flow!Input(pass', q)]
  BY DEF Flow!Finalize, Flow!Ended
<1>3. /\ Flow!Ended' = Flow!Ended \cup {pass} /\ results'[pass] = hidden
      /\ \A p \in Flow!Ended \ {pass} : results'[p] = results[p]
  BY <1>2 DEF Flow!Ended
<1>4. /\ \A p : Flow!Queries(p)' = Flow!Queries(p)
      /\ \A p, q, k : ClosedWay(p, q, k)' <=> ClosedWay(p, q, k)
      /\ Flow!Inert' = Flow!Inert
  BY <1>2 DEF Flow!Queries, Flow!ReadOnly, ClosedWay, JointClosed, TrainingClosed, Flow!Inert, Flow!Padded
<1>5. /\ pass = "joint" => pass' = "end" /\ setup.system = "joint"
      /\ pass = "training" => pass' = "stage1"
      /\ pass = "stage1" => pass' = "prefill"
      /\ pass = "prefill" => pass' = "stage2"
      /\ pass = "stage2" => pass' = "end"
      /\ pass # "joint" => setup.system = "idm"
      /\ pass' \in (Passes \ {"joint", "training"}) \cup {"end"}
  BY <1>1, <1>2 DEF Flow!Following, FlowTypes, Passes
<1>6. FlowTypes'
  <2>1. Flow!Ended' = DoneBefore(pass)'
    BY <1>1, <1>2, <1>3, <1>5 DEF FlowTypes, DoneBefore, Passes
  <2>2. Len(cache') = Cached(pass)'
    BY <1>1, <1>2, <1>5 DEF FlowTypes, Cached, Passes
  <2>3. pass' # "end" => DOMAIN hidden' = Flow!Queries(pass)'
    <3>1. pass' # "end" => DOMAIN hidden' = Flow!Queries(pass')
      BY <1>2
    <3>2. QED
      BY <1>2, <3>1 DEF Flow!Queries, Flow!ReadOnly
  <2>4. layer' \in 0 .. FlowLayers /\ (\E S : cache' \in Seq(S)) /\ setup' \in Flow!Setups
    BY <1>1, <1>2 DEF FlowTypes
  <2>5. (\A p \in Flow!Ended : DOMAIN results[p] = Flow!Queries(p))'
    <3>1. \A p \in Flow!Ended' : DOMAIN results'[p] = Flow!Queries(p)
      BY <1>1, <1>3 DEF FlowTypes
    <3>2. QED
      BY <1>4, <3>1
  <2>6. /\ pass' \in Passes \cup {"end"}
        /\ (pass = "joint" => setup.system = "joint")'
        /\ (pass \in Passes \ {"joint"} => setup.system = "idm")'
    BY <1>2, <1>5 DEF Passes
  <2>7. QED
    BY <2>1, <2>2, <2>3, <2>4, <2>5, <2>6 DEF FlowTypes
<1>7. WaysInv'
  <2>1. pass' # "end" => OpenOnly(pass', hidden')
    BY <1>2, <1>5, InputsOpen
  <2>2. pass' # "end" => OpenOnly(pass, hidden)'
    <3>1. Flow!Queries(pass)' = Flow!Queries(pass')
      BY <1>2 DEF Flow!Queries, Flow!ReadOnly
    <3>2. \A q, k : ClosedWay(pass, q, k)' <=> ClosedWay(pass', q, k)
      BY <1>2 DEF ClosedWay, JointClosed, TrainingClosed, Flow!Inert, Flow!Padded, Flow!ReadOnly
    <3>3. QED
      BY <2>1, <3>1, <3>2 DEF OpenOnly
  <2>3. ASSUME NEW p \in Flow!Ended' PROVE (OpenOnly(p, results[p]) /\ SeesFirst(p, results[p]))'
    <3>1. OpenOnly(p, results'[p]) /\ SeesFirst(p, results'[p])
      BY <1>1, <1>3, <2>3 DEF WaysInv
    <3>2. QED
      BY <1>4, <3>1 DEF OpenOnly, SeesFirst
  <2>4. (\A i \in 1 .. Len(cache), q \in Flow!Cond : cache[i][q].from \cap Flow!Inert = {})'
    BY <1>1, <1>2, <1>4 DEF WaysInv
  <2>5. (pass # "end" => OpenOnly(pass, hidden) /\ (layer > 0 => SeesFirst(pass, hidden)))'
    BY <1>2, <2>2
  <2>6. QED
    BY <2>3, <2>4, <2>5 DEF WaysInv
<1>8. InStepInv'
  <2> SUFFICES ASSUME setup.system = "idm" PROVE (\E h : Trace(h) /\ InStep(h))'
    BY <1>2 DEF InStepInv
  <2>1. PICK h : Trace(h) /\ InStep(h)
    BY <1>1 DEF InStepInv
  <2>2. \A p, q : Follows(p, q)' <=> Follows(p, q)
    BY <1>2, <1>4 DEF Follows
  <2>3. /\ \A q : Flow!Input("training", q)' = Flow!Input("training", q)
        /\ \A q, i : Flow!Hint("training", q, i).is' = Flow!Hint("training", q, i).is
    BY <1>2 DEF Flow!Input, Flow!Video, Flow!LatentsOf, Flow!TimeOf, Flow!Hint, Flow!Text
  <2>4. \A i, q : Layered(h, i, q)' = Layered(h, i, q)
    BY <1>2, <2>3
       DEF Layered, Value, Flow!TeacherForcingMask, Flow!Prefix, Flow!Text, Flow!Padded, Flow!VideoToVideo
  <2>5. LayersTrained = FlowLayers /\ LayersTrained' = FlowLayers
    BY <1>1, <1>2, <1>5 DEF LayersTrained, Passes
  <2>6. Trace(h)'
    BY <1>4, <2>1, <2>3, <2>4, <2>5 DEF Trace
  <2>7. pass' # "end" => \A q \in Flow!Queries(pass') : Follows(pass', q) => hidden'[q].is = h[0][q]
    BY <1>1, <1>2, <1>5, <2>1, InputFollows DEF Trace
  <2>8. ASSUME NEW p \in Flow!Ended', NEW q \in Flow!Queries(p), Follows(p, q)
        PROVE  results'[p][q].is = h[FlowLayers][q]
    BY <1>1, <1>3, <2>1, <2>8 DEF InStep
  <2>9. InStep(h)'
    <3>1. (pass # "end")' => (\A q \in Flow!Queries(pass) : Follows(pass, q) => hidden[q].is = h[layer][q])'
      <4>1. Flow!Queries(pass)' = Flow!Queries(pass')
        BY <1>2 DEF Flow!Queries, Flow!ReadOnly
      <4>2. \A q : Follows(pass, q)' <=> Follows(pass', q)
        BY <1>2, <1>4 DEF Follows
      <4>3. QED
        BY <1>2, <2>7, <4>1, <4>2
    <3>2. (\A p \in Flow!Ended : \A q \in Flow!Queries(p) :
              Follows(p, q) => results[p][q].is = h[FlowLayers][q])'
      BY <1>4, <2>2, <2>8
    <3>3. ~setup.noised => \A i \in 0 .. Len(cache) - 1 : \A q \in Flow!Cond : cache[i + 1][q].is = h[i][q]
      BY <2>1 DEF InStep
    <3>4. QED
      BY <1>2, <3>1, <3>2, <3>3 DEF InStep
  <2>10. QED
    BY <2>6, <2>9
<1>9. QED
  BY <1>6, <1>7, <1>8 DEF FlowInv

LEMMA FlowStep ==
    ASSUME FlowInv, Flow!Next \/ UNCHANGED Flow!vars
    PROVE  FlowInv'
<1>1. CASE Flow!Next
  BY <1>1, LayerStep, FinalizeStep, FallBackStep DEF Flow!Next
<1>2. CASE UNCHANGED Flow!vars
  <2>1. UNCHANGED <<setup, pass, layer, hidden, cache, compiled, results>>
    BY <1>2 DEF Flow!vars
  <2>2. /\ \A p : Flow!Queries(p)' = Flow!Queries(p)
        /\ Flow!Queries(pass)' = Flow!Queries(pass)
        /\ \A p, q, k : ClosedWay(p, q, k)' <=> ClosedWay(p, q, k)
        /\ \A q, k : ClosedWay(pass, q, k)' <=> ClosedWay(pass, q, k)
        /\ Flow!Inert' = Flow!Inert /\ Flow!Ended' = Flow!Ended
    BY <2>1 DEF Flow!Queries, Flow!ReadOnly, ClosedWay, JointClosed, TrainingClosed, Flow!Inert, Flow!Padded, Flow!Ended
  <2>3. FlowTypes'
    <3>1. DoneBefore(pass)' = DoneBefore(pass) /\ Cached(pass)' = Cached(pass)
      BY <2>1 DEF DoneBefore, Cached
    <3>2. QED
      BY <2>1, <2>2, <3>1 DEF FlowInv, FlowTypes
  <2>4. WaysInv'
    BY <2>1, <2>2 DEF FlowInv, WaysInv, OpenOnly, SeesFirst
  <2>5. InStepInv'
    <3> SUFFICES ASSUME setup.system = "idm" PROVE (\E h : Trace(h) /\ InStep(h))'
      BY <2>1 DEF InStepInv
    <3>1. PICK h : Trace(h) /\ InStep(h)
      BY DEF FlowInv, InStepInv
    <3>2. /\ \A p, q : Follows(p, q)' <=> Follows(p, q)
          /\ \A q : Follows(pass, q)' <=> Follows(pass, q)
      BY <2>1, <2>2 DEF Follows
    <3>3. /\ \A q : Flow!Input("training", q)' = Flow!Input("training", q)
          /\ \A q, i : Flow!Hint("training", q, i).is' = Flow!Hint("training", q, i).is
      BY <2>1 DEF Flow!Input, Flow!Video, Flow!LatentsOf, Flow!TimeOf, Flow!Hint, Flow!Text
    <3>4. \A i, q : Layered(h, i, q)' = Layered(h, i, q)
      BY <2>1, <3>3
         DEF Layered, Value, Flow!TeacherForcingMask, Flow!Prefix, Flow!Text, Flow!Padded, Flow!VideoToVideo
    <3>5. LayersTrained' = LayersTrained
      BY <2>1 DEF LayersTrained
    <3>6. Trace(h)'
      BY <2>2, <3>1, <3>3, <3>4, <3>5 DEF Trace
    <3>7. InStep(h)'
      BY <2>1, <2>2, <3>1, <3>2 DEF InStep
    <3>8. QED
      BY <3>6, <3>7
  <2>6. QED
    BY <2>3, <2>4, <2>5 DEF FlowInv
<1>3. QED
  BY <1>1, <1>2

(* What the invariant says of the passes that have ended.                  *)
LEMMA FlowImplies ==
    ASSUME FlowInv
    PROVE  Flow!TrainDeployAligned /\ Flow!ClosedWays /\ Flow!PaddingInert
<1>1. /\ FlowTypes /\ WaysInv /\ InStepInv /\ setup \in Flow!Setups /\ Flow!Ended = DoneBefore(pass)
      /\ "training" \in Flow!Ended => setup.system = "idm"
      /\ \A p \in Flow!Ended : p \in Passes
  <2>1. FlowTypes /\ WaysInv /\ InStepInv /\ setup \in Flow!Setups /\ Flow!Ended = DoneBefore(pass)
          /\ pass \in Passes \cup {"end"}
    BY DEF FlowInv, FlowTypes
  <2>2. setup.system \in {"joint", "idm"}
    BY <2>1 DEF Flow!Setups, Flow!Configured
  <2>3. pass \in Passes \ {"joint"} => setup.system = "idm"
    BY <2>1 DEF FlowTypes
  <2>4. QED
    BY <2>1, <2>2, <2>3 DEF DoneBefore, Passes
<1>2. ASSUME NEW p \in Flow!Ended, NEW q \in Flow!Queries(p), NEW k \in Flow!Reaching(p, q)
      PROVE  ~ClosedWay(p, q, k)
  BY <1>1 DEF WaysInv, OpenOnly, Flow!Reaching
<1>3. ASSUME NEW p \in Flow!Ended, NEW q \in Flow!Queries(p) PROVE q \in Flow!Reaching(p, q)
  BY <1>1 DEF WaysInv, OpenOnly, Flow!Reaching
<1>4. Flow!TrainDeployAligned
  <2> SUFFICES ASSUME "training" \in Flow!Ended PROVE Flow!TrainDeployAligned
    BY DEF Flow!TrainDeployAligned
  <2>1. PICK h : Trace(h) /\ InStep(h)
    BY <1>1 DEF InStepInv
  <2>2. \A q \in Flow!Queries("training") : results["training"][q].is = h[FlowLayers][q]
    BY <2>1 DEF InStep, Follows
  <2>3. "stage2" \in Flow!Ended /\ ~setup.noised
          => results["stage2"][Flow!Action].is = h[FlowLayers][Flow!Action]
    BY <2>1 DEF InStep, Follows, Flow!Queries
  <2>4. "stage1" \in Flow!Ended /\ setup.video = "bidirectional" =>
            \A q \in Flow!Noisy : results["stage1"][q].is = h[FlowLayers][q]
    BY <2>1 DEF InStep, Follows, Flow!Queries
  <2>5. Flow!Action \in Flow!Queries("training") /\ Flow!Noisy \subseteq Flow!Queries("training")
    BY DEF Flow!Queries
  <2>6. QED
    BY <2>2, <2>3, <2>4, <2>5 DEF Flow!TrainDeployAligned
<1>5. Flow!ClosedWays
  <2>1. ASSUME "training" \in Flow!Ended
        PROVE  /\ \A q \in Flow!Cond : Flow!Reaching("training", q) \cap (Flow!Noisy \cup {Flow!Action}) = {}
               /\ \A q \in Flow!Noisy : Flow!Reaching("training", q) \cap (Flow!Cond \cup {Flow!Action}) = {}
               /\ Flow!Reaching("training", Flow!Action) \cap Flow!Noisy = {}
    <3>1. Flow!Queries("training") = Flow!Noisy \cup Flow!Cond \cup {Flow!Action}
      BY DEF Flow!Queries
    <3>2. \A q \in Flow!Noisy \cup Flow!Cond \cup {Flow!Action} :
             \A k \in Flow!Reaching("training", q) : ~TrainingClosed(q, k)
      BY <1>2, <2>1, <3>1 DEF ClosedWay
    <3>3. QED
      BY <3>2 DEF TrainingClosed
  <2>2. ASSUME "joint" \in Flow!Ended
        PROVE  /\ setup.cross \in {"action_sees_video", "isolated"} =>
                     \A q \in Flow!Noisy : Flow!Action \notin Flow!Reaching("joint", q)
               /\ setup.video # "bidirectional" => Flow!Action \notin Flow!Reaching("joint", FirstFrame)
    <3>1. \A q \in Flow!Noisy : \A k \in Flow!Reaching("joint", q) : ~JointClosed(q, k)
      BY <1>2, <2>2 DEF ClosedWay, Flow!Queries
    <3>2. QED
      BY <3>1, Tokens DEF JointClosed
  <2>3. ASSUME "joint" \in Flow!Ended, ~setup.hints
        PROVE  /\ setup.cross \in {"video_sees_action", "isolated"} /\ setup.video # "bidirectional" =>
                     Flow!Reaching("joint", Flow!Action) \cap Flow!Noisy = {FirstFrame}
               /\ setup.cross # "mutual" /\ setup.video = "per_frame_causal" =>
                     \A q \in Flow!Noisy : \A k \in Flow!Reaching("joint", q) \cap Flow!Noisy : k[2] <= q[2]
               /\ setup.video # "bidirectional" =>
                     Flow!Reaching("joint", FirstFrame) \cap Flow!Noisy = {FirstFrame}
    <3>1. Flow!Queries("joint") = Flow!Noisy \cup {Flow!Action} \cup Flow!ReadOnly
      BY DEF Flow!Queries
    <3>2. \A q \in Flow!Noisy \cup {Flow!Action} : \A k \in Flow!Reaching("joint", q) : ~JointClosed(q, k)
      BY <1>2, <2>3, <3>1 DEF ClosedWay
    <3>3. FirstFrame \in Flow!Reaching("joint", Flow!Action)
            /\ FirstFrame \in Flow!Reaching("joint", FirstFrame) /\ FirstFrame \in Flow!Noisy
      BY <1>1, <1>3, <2>3, <3>1, Tokens DEF WaysInv, SeesFirst, Flow!Reaching
    <3>4. setup.cross \in {"video_sees_action", "isolated"} /\ setup.video # "bidirectional" =>
             Flow!Reaching("joint", Flow!Action) \cap Flow!Noisy = {FirstFrame}
      BY <2>3, <3>2, <3>3 DEF JointClosed
    <3>5. setup.cross # "mutual" /\ setup.video = "per_frame_causal" =>
             \A q \in Flow!Noisy : \A k \in Flow!Reaching("joint", q) \cap Flow!Noisy : k[2] <= q[2]
      BY <2>3, <3>2 DEF JointClosed
    <3>6. setup.video # "bidirectional" => Flow!Reaching("joint", FirstFrame) \cap Flow!Noisy = {FirstFrame}
      BY <2>3, <3>2, <3>3 DEF JointClosed
    <3>7. QED
      BY <3>4, <3>5, <3>6
  <2>4. QED
    BY <2>1, <2>2, <2>3 DEF Flow!ClosedWays, FirstFrame
<1>6. Flow!PaddingInert
  <2> SUFFICES ASSUME NEW p \in Flow!Ended, NEW q \in DOMAIN results[p],
                      NEW k \in Flow!Reaching(p, q) \cap Flow!Inert
               PROVE  k = q
    BY DEF Flow!PaddingInert
  <2>1. q \in Flow!Queries(p)
    BY <1>1 DEF FlowTypes
  <2>2. QED
    BY <1>2, <2>1 DEF ClosedWay
<1>7. QED
  BY <1>4, <1>5, <1>6
-----------------------------------------------------------------------------
(* What a request has done to the latents and the cache of predictions.    *)
Prediction == [run : Nat, step : Nat]
DenoisePcs == {"idle", "joint", "stage1", "stage2", "done", "failed"}

DenoiseTypes ==
    /\ engine \in [arch : {"joint", "idm"}, caching : BOOLEAN, guided : BOOLEAN]
    /\ run \in Nat /\ pc \in DenoisePcs /\ step \in Nat
    /\ level \in [video : Int, action : Int, inactive : Int]
    /\ cache \in [velocity : Prediction \cup {None}, action : Prediction \cup {None},
                  prevVelocity : Prediction \cup {None}, prevAction : Prediction \cup {None},
                  skips : Nat]
    /\ used \in [video : Prediction \cup {None}, action : Prediction \cup {None}]

(* A run has the schedule of a lead stream and a delay, and is inside it. *)
ScheduleInv ==
    Denoise!Running =>
        /\ \E lead \in {"video", "action"}, delay \in 0 .. DenoisingSteps - 1 :
              schedule = Denoise!MakeSchedule(lead, delay)
        /\ step \in 1 .. DenoisingSteps + 1
        /\ pc = "joint" <=> engine.arch = "joint"

(* Until the inactive dimensions are pinned they are the noise of their    *)
(* schedule; afterwards the noise they are put back to is that noise.      *)
PinInv == Denoise!Running => pinned \in {None, TRUE}

(* While the video is denoised, what the cache holds is of this run and as *)
(* many steps old as were skipped, and both its predictions are of one     *)
(* forward.  It holds nothing before the video moves.                      *)
CacheInv ==
    (pc \in {"joint", "stage1"} /\ cache.velocity # None) =>
        /\ cache.velocity.run = run
        /\ cache.velocity.step \in 1 .. DenoisingSteps
        /\ cache.velocity.step + cache.skips = step - 1
        /\ cache.skips <= MaxSkips
        /\ cache.action # None => cache.action = cache.velocity
        /\ schedule[cache.velocity.step].video # schedule[cache.velocity.step + 1].video
        /\ engine.caching /\ ~(engine.guided /\ pc = "joint")

DenoiseInv ==
    /\ DenoiseTypes /\ ScheduleInv /\ PinInv /\ CacheInv
    /\ Denoise!OnSchedule /\ Denoise!FreshPredictions
-----------------------------------------------------------------------------
(* Both streams of a schedule end without noise, and the one that waits    *)
(* moves at every step once it has begun to.                               *)
LEMMA ScheduleFacts ==
    ASSUME Denoise!DenoisingAssumption,
           NEW lead \in {"video", "action"}, NEW delay \in 0 .. DenoisingSteps - 1,
           NEW s, s = Denoise!MakeSchedule(lead, delay)
    PROVE  /\ \A k \in 1 .. DenoisingSteps + 1 : s[k] \in [video : Int, action : Int]
           /\ s[DenoisingSteps + 1].video = 0 /\ s[DenoisingSteps + 1].action = 0
           /\ \A k, m \in 1 .. DenoisingSteps :
                 k <= m /\ s[k].video # s[k + 1].video => s[m].video # s[m + 1].video
<1>1. DenoisingSteps \in Nat /\ DenoisingSteps > 0
  BY DEF Denoise!DenoisingAssumption
<1>2. \A k \in 1 .. DenoisingSteps + 1 : s[k] = Denoise!Level(k - 1, lead, delay)
  BY DEF Denoise!MakeSchedule
<1>3. \A k \in 0 .. DenoisingSteps : Denoise!Level(k, lead, delay) \in [video : Int, action : Int]
  BY <1>1 DEF Denoise!Level, Denoise!Lead, Denoise!Lag, Denoise!Least
<1>4. /\ Denoise!Level(DenoisingSteps, lead, delay).video = 0
      /\ Denoise!Level(DenoisingSteps, lead, delay).action = 0
  BY <1>1 DEF Denoise!Level, Denoise!Lead, Denoise!Lag, Denoise!Least
<1>5. \A k, m \in 0 .. DenoisingSteps - 1 :
         k <= m /\ Denoise!Level(k, lead, delay).video # Denoise!Level(k + 1, lead, delay).video
            => Denoise!Level(m, lead, delay).video # Denoise!Level(m + 1, lead, delay).video
  BY <1>1 DEF Denoise!Level, Denoise!Lead, Denoise!Lag, Denoise!Least
<1>6. ASSUME NEW k \in 1 .. DenoisingSteps, NEW m \in 1 .. DenoisingSteps, k <= m, s[k].video # s[k + 1].video
      PROVE  s[m].video # s[m + 1].video
  <2>1. /\ s[k] = Denoise!Level(k - 1, lead, delay) /\ s[k + 1] = Denoise!Level((k - 1) + 1, lead, delay)
        /\ s[m] = Denoise!Level(m - 1, lead, delay) /\ s[m + 1] = Denoise!Level((m - 1) + 1, lead, delay)
    BY <1>1, <1>2
  <2>2. k - 1 \in 0 .. DenoisingSteps - 1 /\ m - 1 \in 0 .. DenoisingSteps - 1 /\ k - 1 <= m - 1
    BY <1>1, <1>6
  <2>3. QED
    BY <1>5, <1>6, <2>1, <2>2
<1>7. QED
  BY <1>1, <1>2, <1>3, <1>4, <1>6

(* The schedule of a run, without its parameters. *)
LEMMA RunningSchedule ==
    ASSUME Denoise!DenoisingAssumption, ScheduleInv, Denoise!Running
    PROVE  /\ DenoisingSteps \in Nat /\ DenoisingSteps > 0 /\ step \in 1 .. DenoisingSteps + 1
           /\ \A k \in 1 .. DenoisingSteps + 1 : schedule[k] \in [video : Int, action : Int]
           /\ schedule[DenoisingSteps + 1].video = 0 /\ schedule[DenoisingSteps + 1].action = 0
           /\ \A k, m \in 1 .. DenoisingSteps :
                 k <= m /\ schedule[k].video # schedule[k + 1].video
                    => schedule[m].video # schedule[m + 1].video
           /\ ~Denoise!AtEnd => step \in 1 .. DenoisingSteps /\ step + 1 \in 1 .. DenoisingSteps + 1
<1>1. PICK lead \in {"video", "action"}, delay \in 0 .. DenoisingSteps - 1 :
         schedule = Denoise!MakeSchedule(lead, delay)
  BY DEF ScheduleInv
<1>2. /\ \A k \in 1 .. DenoisingSteps + 1 : schedule[k] \in [video : Int, action : Int]
      /\ schedule[DenoisingSteps + 1].video = 0 /\ schedule[DenoisingSteps + 1].action = 0
      /\ \A k, m \in 1 .. DenoisingSteps :
            k <= m /\ schedule[k].video # schedule[k + 1].video
               => schedule[m].video # schedule[m + 1].video
  BY <1>1, ScheduleFacts
<1>3. DenoisingSteps \in Nat /\ DenoisingSteps > 0 /\ step \in 1 .. DenoisingSteps + 1
  BY DEF ScheduleInv, Denoise!DenoisingAssumption
<1>4. ~Denoise!AtEnd => step \in 1 .. DenoisingSteps /\ step + 1 \in 1 .. DenoisingSteps + 1
  BY <1>3 DEF Denoise!AtEnd
<1>5. QED
  BY <1>2, <1>3, <1>4

(* A step of the loop moves each stream's latents from its level to the    *)
(* next one, provided that a stream that steps has a prediction.           *)
LEMMA LatentsMove ==
    ASSUME Denoise!DenoisingAssumption, DenoiseTypes, ScheduleInv, PinInv, Denoise!OnSchedule,
           Denoise!Running, ~Denoise!AtEnd, NEW p, Denoise!Update(p), Denoise!ActionSteps => p.action # None
    PROVE  /\ UNCHANGED <<engine, run, pc, schedule>> /\ step' = step + 1
           /\ level' \in [video : Int, action : Int, inactive : Int]
           /\ ScheduleInv' /\ PinInv' /\ Denoise!OnSchedule'
<1> DEFINE noise == IF pinned = None THEN level.inactive = Denoise!Here.action ELSE pinned
<1>1. /\ Denoise!Here \in [video : Int, action : Int] /\ Denoise!There \in [video : Int, action : Int]
      /\ step \in 1 .. DenoisingSteps /\ DenoisingSteps \in Nat
  BY RunningSchedule DEF Denoise!Here, Denoise!There
<1>2. UNCHANGED <<engine, run, pc, schedule>> /\ step' = step + 1
  BY DEF Denoise!Update
<1>3. Denoise!Running' /\ Denoise!Here' = Denoise!There
  BY <1>2 DEF Denoise!Running, Denoise!Here, Denoise!There
<1>4. ScheduleInv'
  BY <1>1, <1>2, <1>3 DEF ScheduleInv
<1>5. Denoise!ActionSteps => noise = TRUE
  BY DEF Denoise!OnSchedule, PinInv, Denoise!ActionSteps, Denoise!Running
<1>6. level' = [video    |-> IF Denoise!VideoSteps
                              THEN level.video + (Denoise!There.video - Denoise!Here.video)
                              ELSE level.video,
                action   |-> IF Denoise!ActionSteps
                              THEN level.action + (Denoise!There.action - Denoise!Here.action)
                              ELSE level.action,
                inactive |-> IF Denoise!ActionSteps THEN Denoise!There.action ELSE level.inactive]
  BY <1>5 DEF Denoise!Update, Denoise!Move
<1>7. pinned' \in {pinned, TRUE}
  BY <1>5 DEF Denoise!Update
<1>8. PinInv'
  BY <1>7 DEF PinInv, Denoise!Running
<1>9. /\ level.video  = IF pc = "stage2" THEN 0 ELSE Denoise!Here.video
      /\ level.action = IF pc = "stage1" THEN schedule[1].action ELSE Denoise!Here.action
      /\ level.inactive = level.action
  BY DEF Denoise!OnSchedule
<1>10. level' \in [video : Int, action : Int, inactive : Int]
  BY <1>1, <1>6 DEF DenoiseTypes
<1>11. /\ level'.video  = IF pc = "stage2" THEN 0 ELSE Denoise!There.video
       /\ level'.action = IF pc = "stage1" THEN schedule[1].action ELSE Denoise!There.action
       /\ level'.inactive = level'.action
  BY <1>1, <1>6, <1>9, <1>10 DEF Denoise!VideoSteps, Denoise!ActionSteps, Denoise!Running, DenoiseTypes
<1>12. Denoise!OnSchedule'
  BY <1>2, <1>3, <1>11 DEF Denoise!OnSchedule, Denoise!Running
<1>13. QED
  BY <1>2, <1>4, <1>8, <1>10, <1>12
-----------------------------------------------------------------------------
(* The invariant of the denoising engine holds at first, and every action  *)
(* keeps it.                                                               *)
LEMMA DenoiseInit == Denoise!DenoisingAssumption /\ Denoise!Init => DenoiseInv
<1> SUFFICES ASSUME Denoise!DenoisingAssumption, Denoise!Init PROVE DenoiseInv
  OBVIOUS
<1>1. DenoiseTypes
  BY DEF Denoise!Init, DenoiseTypes, DenoisePcs, Denoise!EmptyCache, Denoise!Nothing
<1>2. ScheduleInv /\ PinInv /\ Denoise!OnSchedule
  BY DEF Denoise!Init, ScheduleInv, PinInv, Denoise!OnSchedule, Denoise!Running
<1>3. CacheInv /\ Denoise!FreshPredictions
  BY DEF Denoise!Init, CacheInv, Denoise!FreshPredictions, Denoise!EmptyCache, Denoise!Nothing
<1>4. QED
  BY <1>1, <1>2, <1>3 DEF DenoiseInv

(* What is new at a request. *)
LEMMA GenerateStep ==
    ASSUME Denoise!DenoisingAssumption, DenoiseInv, Denoise!Generate
    PROVE  DenoiseInv'
<1>1. PICK lead \in {"video", "action"}, delay \in 0 .. DenoisingSteps - 1 :
         schedule' = Denoise!MakeSchedule(lead, delay)
  BY DEF Denoise!Generate, Denoise!Request
<1>2. schedule'[1] \in [video : Int, action : Int] /\ DenoisingSteps \in Nat /\ DenoisingSteps > 0
  BY <1>1, ScheduleFacts DEF Denoise!DenoisingAssumption
<1>3. /\ level' = [video |-> schedule'[1].video, action |-> schedule'[1].action,
                   inactive |-> schedule'[1].action]
      /\ pc' = (IF engine.arch = "joint" THEN "joint" ELSE "stage1")
      /\ step' = 1 /\ pinned' = None /\ used' = Denoise!Nothing /\ engine' = engine /\ run' = run + 1
      /\ cache' = Denoise!EmptyCache
  BY DEF Denoise!Generate, Denoise!Request
<1>4. DenoiseTypes'
  BY <1>2, <1>3 DEF DenoiseInv, DenoiseTypes, DenoisePcs, Denoise!EmptyCache, Denoise!Nothing
<1>5. ScheduleInv'
  BY <1>1, <1>2, <1>3 DEF ScheduleInv
<1>6. Denoise!OnSchedule'
  BY <1>3 DEF Denoise!OnSchedule, Denoise!Running, Denoise!Here
<1>7. PinInv' /\ CacheInv' /\ Denoise!FreshPredictions'
  BY <1>3 DEF PinInv, CacheInv, Denoise!FreshPredictions, Denoise!EmptyCache, Denoise!Nothing
<1>8. QED
  BY <1>4, <1>5, <1>6, <1>7 DEF DenoiseInv

(* A step that moves the streams, by whichever prediction. *)
LEMMA ReuseStep ==
    ASSUME Denoise!DenoisingAssumption, DenoiseInv, Denoise!Reuse
    PROVE  DenoiseInv'
<1> DEFINE p == [video |-> cache.velocity, action |-> cache.action]
<1>1. /\ Denoise!Running /\ ~Denoise!AtEnd /\ pc \in {"joint", "stage1"} /\ Denoise!VideoSteps
      /\ engine.caching /\ ~(engine.guided /\ pc = "joint")
  BY DEF Denoise!Reuse, Denoise!Caching, Denoise!VideoSteps, Denoise!Running
<1>2. /\ cache.velocity # None /\ cache.skips < MaxSkips
      /\ Denoise!ActionSteps => cache.action # None
  BY DEF Denoise!Reuse, Denoise!MayReuse
<1>3. Denoise!Update(p) /\ (Denoise!ActionSteps => p.action # None)
  BY <1>2 DEF Denoise!Reuse
<1>4. DenoiseTypes /\ ScheduleInv /\ PinInv /\ CacheInv /\ Denoise!OnSchedule /\ MaxSkips \in Nat
  BY DEF DenoiseInv, Denoise!DenoisingAssumption
<1>5. /\ UNCHANGED <<engine, run, pc, schedule>> /\ step' = step + 1
      /\ level' \in [video : Int, action : Int, inactive : Int]
      /\ ScheduleInv' /\ PinInv' /\ Denoise!OnSchedule'
  <2> HIDE DEF p
  <2>1. QED
    BY <1>1, <1>3, <1>4, LatentsMove
<1>6. /\ used'.video = cache.velocity
      /\ used'.action = IF Denoise!ActionSteps THEN cache.action ELSE None
      /\ used' \in [video : Prediction \cup {None}, action : Prediction \cup {None}]
  BY <1>1, <1>2, <1>4 DEF Denoise!Reuse, Denoise!Update, DenoiseTypes
<1>7. /\ cache'.velocity = cache.velocity /\ cache'.action = cache.action
      /\ cache'.skips = cache.skips + 1
      /\ cache' \in [velocity : Prediction \cup {None}, action : Prediction \cup {None},
                     prevVelocity : Prediction \cup {None}, prevAction : Prediction \cup {None},
                     skips : Nat]
  BY <1>4 DEF Denoise!Reuse, DenoiseTypes
<1>8. /\ cache.velocity.run = run /\ cache.velocity.step \in 1 .. DenoisingSteps
      /\ cache.velocity.step + cache.skips = step - 1
      /\ cache.action # None => cache.action = cache.velocity
      /\ schedule[cache.velocity.step].video # schedule[cache.velocity.step + 1].video
      /\ cache.skips \in Nat /\ step \in Nat /\ cache.velocity.step \in Int
  BY <1>1, <1>2, <1>4 DEF CacheInv, DenoiseTypes
<1>9. DenoiseTypes'
  BY <1>4, <1>5, <1>6, <1>7 DEF DenoiseTypes
<1>10. CacheInv'
  BY <1>1, <1>2, <1>4, <1>5, <1>7, <1>8 DEF CacheInv
<1>11. Denoise!FreshPredictions'
  <2>1. \A s \in {"video", "action"} : used'[s] # None => used'[s] = cache.velocity
    BY <1>2, <1>6, <1>8
  <2>2. step' - 1 - cache.velocity.step \in 0 .. MaxSkips
    BY <1>2, <1>4, <1>5, <1>8
  <2>3. used'.video # None /\ used'.action # None => used'.video = used'.action
    BY <2>1
  <2>4. QED
    BY <1>1, <1>5, <1>8, <2>1, <2>2, <2>3 DEF Denoise!FreshPredictions
<1>12. QED
  BY <1>5, <1>9, <1>10, <1>11 DEF DenoiseInv

LEMMA ForwardStep ==
    ASSUME Denoise!DenoisingAssumption, DenoiseInv, Denoise!Forward
    PROVE  DenoiseInv'
<1> DEFINE p == [video  |-> IF pc # "stage2" THEN Denoise!This ELSE None,
                 action |-> IF pc # "stage1" THEN Denoise!This ELSE None]
<1>1. /\ Denoise!Running /\ ~Denoise!AtEnd /\ (Denoise!VideoSteps \/ Denoise!ActionSteps) /\ Denoise!Update(p)
      /\ cache' = IF Denoise!Caching THEN Denoise!Refreshed(p) ELSE cache
  BY DEF Denoise!Forward
<1>2. DenoiseTypes /\ ScheduleInv /\ PinInv /\ CacheInv /\ Denoise!OnSchedule /\ MaxSkips \in Nat
  BY DEF DenoiseInv, Denoise!DenoisingAssumption
<1>3. Denoise!This \in Prediction /\ Denoise!This # None /\ Denoise!This.run = run /\ Denoise!This.step = step
  BY <1>2 DEF Denoise!This, Prediction, DenoiseTypes, Denoise!DenoisingAssumption
<1>4. /\ Denoise!VideoSteps => p.video = Denoise!This
      /\ Denoise!ActionSteps => p.action = Denoise!This
      /\ p.video \in {Denoise!This, None} /\ p.action \in {Denoise!This, None}
      /\ pc = "joint" => p.video = Denoise!This /\ p.action = Denoise!This
  BY <1>1 DEF Denoise!VideoSteps, Denoise!ActionSteps, Denoise!Running
<1> HIDE DEF p
<1>5. /\ UNCHANGED <<engine, run, pc, schedule>> /\ step' = step + 1
      /\ level' \in [video : Int, action : Int, inactive : Int]
      /\ ScheduleInv' /\ PinInv' /\ Denoise!OnSchedule'
  BY <1>1, <1>2, <1>3, <1>4, LatentsMove
<1>6. /\ used' \in [video : {Denoise!This, None}, action : {Denoise!This, None}]
      /\ used'.video # None /\ used'.action # None => used'.video = used'.action
  BY <1>1, <1>4 DEF Denoise!Update
<1>7. cache' \in [velocity : Prediction \cup {None}, action : Prediction \cup {None},
                  prevVelocity : Prediction \cup {None}, prevAction : Prediction \cup {None},
                  skips : Nat]
  BY <1>1, <1>2, <1>3, <1>4 DEF Denoise!Refreshed, DenoiseTypes
<1>8. DenoiseTypes'
  BY <1>2, <1>3, <1>5, <1>6, <1>7 DEF DenoiseTypes
<1>9. step \in 1 .. DenoisingSteps /\ DenoisingSteps \in Nat
  BY <1>1, <1>2, RunningSchedule
<1>10. CacheInv'
  <2>1. CASE Denoise!Caching
    <3>1. /\ cache'.velocity = Denoise!This /\ cache'.skips = 0 /\ cache'.action \in {Denoise!This, None}
          /\ engine.caching /\ schedule[step].video # schedule[step + 1].video
      BY <1>1, <1>4, <2>1
         DEF Denoise!Refreshed, Denoise!Caching, Denoise!VideoSteps, Denoise!Here, Denoise!There
    <3>2. cache'.velocity.run = run /\ cache'.velocity.step = step
      BY <1>3, <3>1
    <3>3. cache'.velocity.step + cache'.skips = step' - 1
      BY <1>5, <1>9, <3>1, <3>2
    <3>4. ~(engine.guided /\ pc = "joint")
      BY <2>1 DEF Denoise!Caching
    <3>5. cache'.action # None => cache'.action = cache'.velocity
      BY <3>1
    <3>6. cache'.skips <= MaxSkips
      BY <1>2, <3>1
    <3>7. QED
      BY <1>5, <1>9, <3>1, <3>2, <3>3, <3>4, <3>5, <3>6 DEF CacheInv
  <2>2. CASE ~Denoise!Caching
    <3>1. cache' = cache
      BY <1>1, <2>2
    <3>2. cache.velocity # None /\ pc \in {"joint", "stage1"} => FALSE
      <4>1. SUFFICES ASSUME cache.velocity # None, pc \in {"joint", "stage1"} PROVE FALSE
        OBVIOUS
      <4>2. /\ cache.velocity.step \in 1 .. DenoisingSteps /\ cache.velocity.step <= step
            /\ schedule[cache.velocity.step].video # schedule[cache.velocity.step + 1].video
            /\ engine.caching
        BY <1>2, <1>9, <4>1 DEF CacheInv, DenoiseTypes
      <4>3. Denoise!VideoSteps
        BY <1>1, <1>2, <1>9, <4>1, <4>2, RunningSchedule DEF Denoise!VideoSteps, Denoise!Here, Denoise!There
      <4>4. ~(engine.guided /\ pc = "joint")
        BY <1>2, <4>1 DEF CacheInv
      <4>5. QED
        BY <2>2, <4>2, <4>3, <4>4 DEF Denoise!Caching
    <3>3. QED
      BY <1>5, <3>1, <3>2 DEF CacheInv
  <2>3. QED
    BY <2>1, <2>2
<1>11. Denoise!FreshPredictions'
  BY <1>2, <1>3, <1>5, <1>6, <1>9 DEF Denoise!FreshPredictions
<1>12. QED
  BY <1>5, <1>8, <1>10, <1>11 DEF DenoiseInv

LEMMA EndingSteps ==
    ASSUME Denoise!DenoisingAssumption, DenoiseInv,
           Denoise!PassOver \/ Denoise!Prefill \/ Denoise!Finish \/ Denoise!Fail
    PROVE  DenoiseInv'
<1>1. DenoiseTypes /\ ScheduleInv /\ PinInv /\ CacheInv /\ Denoise!OnSchedule
  BY DEF DenoiseInv
<1>2. /\ UNCHANGED <<engine, run, schedule, level, pinned, cache>> /\ used' = Denoise!Nothing
      /\ Denoise!Running
  BY DEF Denoise!PassOver, Denoise!Prefill, Denoise!Finish, Denoise!Fail, Denoise!Running
<1>3. Denoise!FreshPredictions'
  BY <1>2 DEF Denoise!FreshPredictions, Denoise!Nothing
<1>4. /\ step \in 1 .. DenoisingSteps + 1 /\ DenoisingSteps \in Nat /\ DenoisingSteps > 0
      /\ schedule[1] \in [video : Int, action : Int]
      /\ schedule[DenoisingSteps + 1].video = 0 /\ schedule[DenoisingSteps + 1].action = 0
  BY <1>1, <1>2, RunningSchedule
<1>5. DenoiseTypes'
  BY <1>1, <1>2, <1>4
     DEF Denoise!PassOver, Denoise!Prefill, Denoise!Finish, Denoise!Fail, DenoiseTypes, DenoisePcs,
         Denoise!Nothing
<1>5a. PinInv'
  BY <1>1, <1>2 DEF PinInv
<1>6. CASE Denoise!PassOver
  <2>1. /\ pc' = pc /\ step' = step + 1 /\ step \in 1 .. DenoisingSteps
        /\ ~Denoise!VideoSteps /\ ~Denoise!ActionSteps
    BY <1>4, <1>6 DEF Denoise!PassOver, Denoise!AtEnd
  <2>2. ScheduleInv'
    BY <1>1, <1>2, <1>4, <2>1 DEF ScheduleInv, Denoise!Running
  <2>3. Denoise!OnSchedule'
    <3>1. /\ pc \in {"joint", "stage1"} => Denoise!Here.video = Denoise!There.video
          /\ pc \in {"joint", "stage2"} => Denoise!Here.action = Denoise!There.action
      BY <2>1 DEF Denoise!VideoSteps, Denoise!ActionSteps
    <3>2. Denoise!Here' = Denoise!There
      BY <1>2, <2>1 DEF Denoise!Here, Denoise!There
    <3>3. QED
      BY <1>1, <1>2, <2>1, <3>1, <3>2 DEF Denoise!OnSchedule, Denoise!Running
  <2>4. pc \in {"joint", "stage1"} => cache.velocity = None
    <3>1. SUFFICES ASSUME pc \in {"joint", "stage1"}, cache.velocity # None PROVE FALSE
      OBVIOUS
    <3>2. /\ cache.velocity.step \in 1 .. DenoisingSteps /\ cache.velocity.step <= step
          /\ schedule[cache.velocity.step].video # schedule[cache.velocity.step + 1].video
      BY <1>1, <2>1, <3>1 DEF CacheInv, DenoiseTypes
    <3>3. Denoise!VideoSteps
      BY <1>1, <1>2, <2>1, <3>1, <3>2, RunningSchedule DEF Denoise!VideoSteps, Denoise!Here, Denoise!There
    <3>4. QED
      BY <2>1, <3>3
  <2>5. CacheInv'
    BY <1>2, <2>1, <2>4 DEF CacheInv
  <2>6. QED
    BY <1>3, <1>5, <1>5a, <2>2, <2>3, <2>5 DEF DenoiseInv
<1>7. CASE Denoise!Prefill
  <2>1. pc = "stage1" /\ step = DenoisingSteps + 1 /\ pc' = "stage2" /\ step' = 1
    BY <1>7 DEF Denoise!Prefill, Denoise!AtEnd
  <2>2. ScheduleInv' /\ CacheInv'
    BY <1>1, <1>2, <1>4, <2>1 DEF ScheduleInv, CacheInv, Denoise!Running
  <2>3. Denoise!OnSchedule'
    BY <1>1, <1>2, <1>4, <2>1 DEF Denoise!OnSchedule, Denoise!Running, Denoise!Here
  <2>4. QED
    BY <1>3, <1>5, <1>5a, <2>2, <2>3 DEF DenoiseInv
<1>8. CASE Denoise!Finish
  <2>1. pc \in {"joint", "stage2"} /\ step = DenoisingSteps + 1 /\ pc' = "done"
    BY <1>8 DEF Denoise!Finish, Denoise!AtEnd
  <2>2. ScheduleInv' /\ CacheInv'
    BY <2>1 DEF ScheduleInv, CacheInv, Denoise!Running
  <2>3. level.video = 0 /\ level.action = 0 /\ level.inactive = 0
    BY <1>1, <1>2, <1>4, <2>1 DEF Denoise!OnSchedule, Denoise!Running, Denoise!Here
  <2>4. Denoise!OnSchedule'
    BY <1>1, <1>2, <2>1, <2>3 DEF Denoise!OnSchedule, Denoise!Running, DenoiseTypes
  <2>5. QED
    BY <1>3, <1>5, <1>5a, <2>2, <2>4 DEF DenoiseInv
<1>9. CASE Denoise!Fail
  BY <1>3, <1>5, <1>5a, <1>9
     DEF Denoise!Fail, DenoiseInv, ScheduleInv, CacheInv, Denoise!OnSchedule, Denoise!Running
<1>10. QED
  BY <1>6, <1>7, <1>8, <1>9

LEMMA DenoiseStep == Denoise!DenoisingAssumption /\ DenoiseInv /\ [Denoise!Next]_Denoise!vars => DenoiseInv'
<1> SUFFICES ASSUME Denoise!DenoisingAssumption, DenoiseInv, [Denoise!Next]_Denoise!vars PROVE DenoiseInv'
  OBVIOUS
<1>1. CASE UNCHANGED Denoise!vars
  <2>1. UNCHANGED <<engine, run, pc, schedule, step, level, pinned, cache, used>>
    BY <1>1 DEF Denoise!vars
  <2>2. DenoiseTypes' /\ ScheduleInv' /\ CacheInv'
    BY <2>1 DEF DenoiseInv, DenoiseTypes, ScheduleInv, CacheInv, Denoise!Running
  <2>3. PinInv'
    BY <2>1 DEF DenoiseInv, PinInv, Denoise!Running
  <2>4. Denoise!OnSchedule' /\ Denoise!FreshPredictions'
    BY <2>1 DEF DenoiseInv, Denoise!OnSchedule, Denoise!FreshPredictions, Denoise!Running, Denoise!Here
  <2>5. QED
    BY <2>2, <2>3, <2>4 DEF DenoiseInv
<1>2. QED
  BY <1>1, GenerateStep, ReuseStep, ForwardStep, EndingSteps DEF Denoise!Next
-----------------------------------------------------------------------------
(* The systems of the run that have one, each with its invariant. *)
ModelInv ==
    /\ system = "aligned" => Aligned!IInv
    /\ system = "cycles" => Cycles!Safe
    /\ system = "plan" => Data!PlanInv
    /\ system = "stats" => StatsInv
    /\ system = "flow" => FlowInv
    /\ system = "denoise" => DenoiseInv
    /\ system = "windows" => Data!ReadingInv

LEMMA AlignedDurably == Aligned!TrainingAssumption /\ Aligned!Durably
  BY ModelAssumption DEF Aligned!Durably

LEMMA ModelInvInit == Init => ModelInv
<1> SUFFICES ASSUME Init PROVE ModelInv
  OBVIOUS
<1>1. /\ Aligned!TrainingAssumption /\ Cycles!TrainingAssumption
      /\ Data!PlanAssumption /\ Denoise!DenoisingAssumption
  BY ModelAssumption
<1>2. system = "aligned" => Aligned!IInv
  BY <1>1, Aligned!IInvInit DEF Init
<1>3. system = "cycles" => Cycles!Safe
  BY <1>1, Cycles!SafeInit DEF Init
<1>4. system = "denoise" => DenoiseInv
  BY <1>1, DenoiseInit DEF Init
<1>5. system = "stats" => StatsInv
  BY StatsInit DEF Init
<1>6. system = "flow" => FlowInv
  BY FlowInit DEF Init
<1>7. system = "plan" => Data!PlanInv
  BY <1>1, Data!PlanInit DEF Init
<1>8. system = "windows" => Data!ReadingInv
  BY ModelAssumption, Data!ReadingInit DEF Init
<1>9. QED
  BY <1>2, <1>3, <1>4, <1>5, <1>6, <1>7, <1>8 DEF ModelInv

LEMMA ModelInvStep ==
    ASSUME ModelInv, [Next]_vars
    PROVE  ModelInv'
<1>1. /\ Aligned!TrainingAssumption /\ Cycles!TrainingAssumption
      /\ Data!PlanAssumption /\ Denoise!DenoisingAssumption
  BY ModelAssumption
<1>2. CASE Next
  <2>1. system' = system
    BY <1>2 DEF Next
  <2>2. system = "aligned" => Aligned!IInv'
    BY <1>1, <1>2, Aligned!IInvStep DEF Next, ModelInv
  <2>3. system = "cycles" => Cycles!Safe'
    BY <1>1, <1>2, Cycles!SafeStep DEF Next, ModelInv
  <2>4. system = "denoise" => DenoiseInv'
    BY <1>1, <1>2, DenoiseStep DEF Next, ModelInv
  <2>5. system = "stats" => StatsInv'
    BY <1>2, StatsStep DEF Next, ModelInv
  <2>6. system = "flow" => FlowInv'
    BY <1>2, FlowStep DEF Next, ModelInv
  <2>7. system = "plan" => Data!PlanInv'
    BY <1>1, <1>2, Data!PlanNext DEF Next, ModelInv
  <2>8. system = "windows" => Data!ReadingInv'
    BY <1>2, ModelAssumption, Data!ReadingNext DEF Next, ModelInv
  <2>9. QED
    BY <2>1, <2>2, <2>3, <2>4, <2>5, <2>6, <2>7, <2>8 DEF ModelInv
<1>3. CASE UNCHANGED vars
  <2>1. system' = system
    BY <1>3 DEF vars
  <2>2. UNCHANGED Aligned!vars /\ UNCHANGED Cycles!vars
    BY <1>3 DEF vars, trainOnly, Aligned!vars, Aligned!loopVars, Aligned!doing, Aligned!fileVars,
                Aligned!dirVars, Cycles!vars, Cycles!loopVars, Cycles!doing, Cycles!fileVars,
                Cycles!dirVars
  <2>3. UNCHANGED Denoise!vars
    BY <1>3 DEF vars, denoiseOnly, Denoise!vars
  <2>4. system = "aligned" => Aligned!IInv'
    BY <1>1, <2>2, Aligned!IInvStep DEF ModelInv
  <2>5. system = "cycles" => Cycles!Safe'
    BY <1>1, <2>2, Cycles!SafeStep DEF ModelInv
  <2>6. system = "denoise" => DenoiseInv'
    BY <1>1, <2>3, DenoiseStep DEF ModelInv
  <2>7. system = "stats" => StatsInv'
    <3>1. UNCHANGED Stats!vars
      BY <1>3 DEF vars, statsOnly, Stats!vars
    <3>2. QED
      BY <3>1, StatsStep DEF ModelInv
  <2>8. system = "flow" => FlowInv'
    <3>1. UNCHANGED Flow!vars
      BY <1>3 DEF vars, flowOnly, Flow!vars
    <3>2. QED
      BY <3>1, FlowStep DEF ModelInv
  <2>9. system = "plan" => Data!PlanInv'
    <3>1. UNCHANGED Data!vars
      BY <1>3 DEF vars, planOnly, Data!vars
    <3>2. QED
      BY <1>1, <3>1, Data!PlanNext DEF ModelInv
  <2>10. system = "windows" => Data!ReadingInv'
    <3>1. UNCHANGED Data!Reading!vars
      BY <1>3 DEF vars, windowsOnly, Data!Reading!vars
    <3>2. QED
      BY <3>1, ModelAssumption, Data!ReadingNext DEF ModelInv
  <2>11. QED
    BY <2>1, <2>4, <2>5, <2>6, <2>7, <2>8, <2>9, <2>10 DEF ModelInv
<1>4. QED
  BY <1>2, <1>3

(* The invariants hold in every state of every system of the run.          *)
THEOREM ModelInvariance == Spec => []ModelInv
<1>1. ModelInv /\ [Next]_vars => ModelInv'
  BY ModelInvStep
<1>2. QED
  BY <1>1, ModelInvInit, PTL DEF Spec
-----------------------------------------------------------------------------
(* A resume finds a complete state, and a finished run its final weights   *)
(* whole, as the latest file.                                              *)
THEOREM ArtifactsWhole == Spec => []Artifacts
<1>1. ModelInv => Artifacts
  <2> SUFFICES ASSUME Aligned!IInv PROVE Aligned!LatestComplete /\ Aligned!CleanArtifacts
    BY DEF ModelInv, Artifacts
  <2>1. Aligned!LatestComplete
    BY AlignedDurably, Aligned!IInvLatest
  <2>2. Aligned!CleanArtifacts
    BY AlignedDurably, Aligned!SafeArtifacts DEF Aligned!IInv
  <2>3. QED
    BY <2>1, <2>2
<1>2. QED
  BY <1>1, ModelInvariance, PTL

(* Crashes and resumes change neither the batches behind the weights nor   *)
(* the seeds they were trained under.                                      *)
THEOREM TrainingExact == Spec => []ExactTraining
<1>1. ModelInv => ExactTraining
  BY DEF ModelInv, ExactTraining, Cycles!Safe, Cycles!LoopInv, Cycles!Exact, Cycles!ExactTraining
<1>2. QED
  BY <1>1, ModelInvariance, PTL

(* A crash takes back the updates since the last completed save, no more.  *)
THEOREM TrainingDurable == Spec => Durable
<1>1. ModelInv /\ [Next]_vars =>
         [system = "aligned" =>
            Aligned!Durable!Next \/ UNCHANGED Aligned!Durable!vars]_vars
  <2> SUFFICES ASSUME ModelInv, Next, system = "aligned"
               PROVE  Aligned!Durable!Next \/ UNCHANGED Aligned!Durable!vars
    OBVIOUS
  <2>1. Aligned!IInv /\ Aligned!Next
    BY DEF ModelInv, Next
  <2>2. QED
    BY <2>1, AlignedDurably, Aligned!DurableStep
<1>2. QED
  BY <1>1, ModelInvariance, PTL DEF Spec, Durable

(* A prune leaves each weights file its state dir, for every number of     *)
(* checkpoints that are kept.                                              *)
THEOREM LinesInLockstep == Spec => Lockstep
<1>1. ModelInv /\ [Next]_vars =>
         [(system = "aligned" /\ phase = "pruneDirs" /\ phase' = "train") =>
             Aligned!Paired]_vars
  <2> SUFFICES ASSUME ModelInv, system = "aligned", phase = "pruneDirs"
               PROVE  Aligned!Paired
    OBVIOUS
  <2>1. Aligned!IInv
    BY DEF ModelInv
  <2>2. QED
    BY <2>1, AlignedDurably, Aligned!LockstepStep
<1>2. QED
  BY <1>1, ModelInvariance, PTL DEF Spec, Lockstep

(* A source's budget of hours is shared out evenly over its buckets, all   *)
(* of it, and however the episodes of a bucket are drawn, those that are   *)
(* kept amount to it and to less than one episode of each bucket more.     *)
THEOREM BudgetsFair == Spec => []FairBudget
<1>1. ModelInv => FairBudget
  BY ModelAssumption, Data!BudgetFair DEF ModelInv, FairBudget
<1>2. QED
  BY <1>1, ModelInvariance, PTL

(* An epoch trains on the windows of its own map in the map's order,       *)
(* through every crash and resume; without weights, on each window once.   *)
THEOREM EpochsExact == Spec => []EpochExact
<1>1. ModelInv => EpochExact
  BY ModelAssumption, Data!EpochsExact DEF ModelInv, EpochExact
<1>2. QED
  BY <1>1, ModelInvariance, PTL

(* Of every data set, whatever is excluded, packed, repaired or retried,   *)
(* the rows, frames and prompt of a sample are those of one window.        *)
THEOREM SamplesAligned == Spec => []Aligning
<1>1. ModelInv => Aligning
  BY DEF ModelInv, Aligning, Data!ReadingInv
<1>2. QED
  BY <1>1, ModelInvariance, PTL

(* With stride 1 every start of every admitted episode is a training       *)
(* window, and one only.                                                   *)
THEOREM WindowsComplete == Spec => []Exhaustive
<1>1. ModelInv => Exhaustive
  BY ModelAssumption, Data!EveryWindow DEF ModelInv, Exhaustive
<1>2. QED
  BY <1>1, ModelInvariance, PTL

(* The statistics a rank works with are of a complete file, taken over     *)
(* every root that had episodes, and those of the data but for the files   *)
(* RoboTwin's scan could not read.                                         *)
THEOREM StatisticsWhole == Spec => []PooledStats
<1>1. ModelInv => PooledStats
  BY StatsImplies DEF ModelInv, PooledStats
<1>2. QED
  BY <1>1, ModelInvariance, PTL

(* Every rank of a run, whenever it is resumed, trains with the statistics *)
(* in the run's directory.                                                 *)
THEOREM TransformForLife == Spec => []OneTransform
<1>1. ModelInv => OneTransform
  BY StatsImplies DEF ModelInv, OneTransform
<1>2. QED
  BY <1>1, ModelInvariance, PTL

(* For every depth and number of frames, the action that is deployed from  *)
(* cached keys and values is the one that was trained.                     *)
THEOREM DeployedAsTrained == Spec => []TrainDeployAligned
<1>1. ModelInv => TrainDeployAligned
  BY FlowImplies DEF ModelInv, TrainDeployAligned
<1>2. QED
  BY <1>1, ModelInvariance, PTL

(* Through every number of layers nothing travels where the masks close    *)
(* the way, and padding that is masked reaches nothing; VACE's hints and   *)
(* CosmosPredict25's text are past the masks.                              *)
THEOREM WaysStayClosed == Spec => []ClosedWays
<1>1. ModelInv => ClosedWays
  BY FlowImplies DEF ModelInv, ClosedWays
<1>2. QED
  BY <1>1, ModelInvariance, PTL

(* Every sample is at the noise level of its schedule that its step says.  *)
THEOREM SamplesOnSchedule == Spec => []OnSchedule
<1>1. ModelInv => OnSchedule
  BY DEF ModelInv, OnSchedule, DenoiseInv
<1>2. QED
  BY <1>1, ModelInvariance, PTL

(* A prediction that is used is this request's, and recent enough.         *)
THEOREM PredictionsFresh == Spec => []FreshPredictions
<1>1. ModelInv => FreshPredictions
  BY DEF ModelInv, FreshPredictions, DenoiseInv
<1>2. QED
  BY <1>1, ModelInvariance, PTL
=============================================================================
