------------------------- MODULE NormalizationStats -------------------------
(***************************************************************************)
(* The action statistics of a dataset.  A training job whose dataset has   *)
(* no statistics file builds it: rank 0 scans every root of the dataset    *)
(* and puts the file in place, the other ranks poll for it.  RoboTwin,     *)
(* whose scan takes hours, keeps a shard per root so that a scan that was  *)
(* interrupted is resumed.  The run directory gets a copy of the file; a   *)
(* resumed run is refused when the dataset's file is no longer the same.   *)
(*                                                                         *)
(* The statistics are the pool they were taken over: a version of the data *)
(* for every root, 0 where the root is missing from it.  -v is version v   *)
(* without the episode files that could not be read, which RoboTwin's scan *)
(* leaves out; a scan that leaves any out leaves out the same ones.        *)
(***************************************************************************)
EXTENDS Integers, FiniteSets

CONSTANTS
    Jobs,
    LastRank,       \* ranks are 0 .. LastRank
    Roots,          \* roots are 1 .. Roots
    Unreadable,     \* the roots of which a scan may not get every file
    Sources,        \* the kinds of reader
    MaxVersion,     \* bounds the updates of the data
    MaxLaunches,    \* bounds the launches of all jobs
    Together,       \* the kinds for which jobs may run at the same time
    None

StatsAssumption ==
    /\ LastRank \in Nat /\ Roots \in Nat \ {0} /\ MaxVersion \in Nat \ {0}
    /\ Together \subseteq Sources
    /\ None \notin [whole : BOOLEAN, schema : {"old", "new"},
                    pool : [1 .. Roots -> Int], fingerprint : [1 .. Roots -> Nat]]
    /\ None \notin [pool : [1 .. Roots -> Int], taken : [1 .. Roots -> Nat], of : [1 .. Roots -> Nat]]

VARIABLES
    kind,       \* the reader
    corpus,     \* the version of each root's data, 0 for one without episode files
    file,       \* the dataset's statistics file
    tmp,        \* the temporary files the jobs write
    shards,     \* the roots whose shard stands, and the version it was taken from
    rank,       \* [pc, loaded] of each job's ranks
    scan,       \* what rank 0 of each job has in memory: the next root, and the pool
    run,        \* [artifact, saved]: the copy in the run directory, whether a state was saved
    launches

vars == <<kind, corpus, file, tmp, shards, rank, scan, run, launches>>

(* robotwin   per-root shards, one temporary name                          *)
(* robocasa   RoboCasa365: one temporary name                              *)
(* ebench     the file carries a fingerprint of the data, checked on load  *)
(* gr1        a file of an older schema is built again                     *)
(* pooled     LIBERO, VLABench, RoboDojo                                   *)
Sharded == {"robotwin"}
OneName == {"robotwin", "robocasa"}

Ranks == 0 .. LastRank
Empty == [x \in 1 .. Roots |-> 0]
Fresh == [next |-> 1, pool |-> Empty]
Temp(j) == IF kind \in OneName THEN "tmp" ELSE j

Legacy  == [whole |-> TRUE, schema |-> "old", pool |-> Empty, fingerprint |-> Empty]
(* Every file is modelled with the data it was taken from, EBench's alone  *)
(* is compared with it.                                                    *)
Stats(pool) == [whole |-> TRUE, schema |-> "new", pool |-> pool, fingerprint |-> corpus]
Torn    == [Legacy EXCEPT !.whole = FALSE]

(* path.exists() and _stats_file_is_compatible *)
Present == file # None /\ (kind = "gr1" => file.whole /\ file.schema = "new")

Loading == {"look", "wait", "scan", "pool", "open", "write", "replace", "clean", "load"}
Alive(j) == \E r \in Ranks : rank[j][r].pc \notin {"off", "failed"}
Quiet == \A j \in Jobs, r \in Ranks : rank[j][r].pc \notin Loading \cup {"up"}

To(j, r, l) == rank' = [rank EXCEPT ![j][r].pc = l]
At(j, r, l) == rank[j][r].pc = l
-----------------------------------------------------------------------------
Init ==
    /\ kind \in Sources
    /\ corpus \in [1 .. Roots -> IF kind \in Sharded THEN {0, 1} ELSE {1}]
    /\ file \in IF kind = "gr1" THEN {None, Legacy} ELSE {None}
    /\ tmp = [n \in Jobs \cup {"tmp"} |-> None]
    /\ shards = Empty
    /\ rank = [j \in Jobs |-> [r \in Ranks |-> [pc |-> "off", loaded |-> None]]]
    /\ scan = [j \in Jobs |-> Fresh]
    /\ run = [j \in Jobs |-> [artifact |-> None, saved |-> FALSE]]
    /\ launches = 0

(* With a saved state the launch resumes the run, otherwise it starts one. *)
Launch(j) ==
    /\ ~Alive(j) /\ launches < MaxLaunches
    /\ kind \in Together \/ \A i \in Jobs : ~Alive(i)
    /\ launches' = launches + 1
    /\ rank' = [rank EXCEPT ![j] = [r \in Ranks |-> [pc |-> "look", loaded |-> None]]]
    /\ scan' = [scan EXCEPT ![j] = Fresh]
    /\ run' = [run EXCEPT ![j].artifact = IF run[j].saved THEN @ ELSE None]
    /\ UNCHANGED <<kind, corpus, file, tmp, shards>>

Look(j, r) ==
    /\ At(j, r, "look")
    /\ To(j, r, IF Present THEN "load" ELSE IF r = 0 THEN "scan" ELSE "wait")
    /\ UNCHANGED <<kind, corpus, file, tmp, shards, scan, run, launches>>

Poll(j, r) ==
    /\ At(j, r, "wait") /\ Present
    /\ To(j, r, "load")
    /\ UNCHANGED <<kind, corpus, file, tmp, shards, scan, run, launches>>

(* Fault: the wait has no deadline. *)
TimeOutNever(j, r) == FALSE

(* OPENWAM_STATS_WAIT_TIMEOUT_S *)
TimeOut(j, r) ==
    /\ At(j, r, "wait") /\ ~Present
    /\ To(j, r, "failed")
    /\ UNCHANGED <<kind, corpus, file, tmp, shards, scan, run, launches>>

(* Rank 0 reads the roots.  What it keeps in memory nobody sees, so that   *)
(* is one step.                                                            *)
Scan(j) ==
    /\ At(j, 0, "scan") /\ kind \notin Sharded
    /\ scan' = [scan EXCEPT ![j].pool = corpus]
    /\ To(j, 0, "open")
    /\ UNCHANGED <<kind, corpus, file, tmp, shards, run, launches>>

Following(j, l) ==
    /\ To(j, 0, IF scan[j].next = Roots THEN l ELSE rank[j][0].pc)
    /\ scan' = [scan EXCEPT ![j].next = IF @ = Roots THEN 1 ELSE @ + 1]

(* RoboTwin skips a root that has a shard or that has no episodes, and     *)
(* keeps a shard of each it reads, complete or not.                        *)
ScanRoot(j) ==
    LET x == scan[j].next IN
    /\ At(j, 0, "scan") /\ kind \in Sharded
    /\ IF shards[x] = 0 /\ corpus[x] # 0
       THEN \E v \in {corpus[x], -corpus[x]} :
                /\ v < 0 => x \in Unreadable
                /\ shards' = [shards EXCEPT ![x] = v]
       ELSE UNCHANGED shards
    /\ Following(j, "pool")
    /\ UNCHANGED <<kind, corpus, file, tmp, run, launches>>

(* _rebuild_stats_from_shards goes on without a shard that is not there,   *)
(* unless there is none at all.                                            *)
PoolShards(j) ==
    /\ At(j, 0, "pool")
    /\ scan' = [scan EXCEPT ![j].pool = shards]
    /\ To(j, 0, IF shards = Empty THEN "failed" ELSE "open")
    /\ UNCHANGED <<kind, corpus, file, tmp, shards, run, launches>>

(* A root that cannot be read, shards without a single action between      *)
(* them, or a full disk.                                                   *)
BuildFails(j) ==
    /\ rank[j][0].pc \in {"scan", "pool", "open", "write"}
    /\ To(j, 0, "failed")
    /\ UNCHANGED <<kind, corpus, file, tmp, shards, scan, run, launches>>

(* Fault: np.save writes the file itself. *)
OpenTmpInPlace(j) ==
    /\ At(j, 0, "open")
    /\ file' = Torn
    /\ tmp' = [tmp EXCEPT ![Temp(j)] = Torn]
    /\ To(j, 0, "write")
    /\ UNCHANGED <<kind, corpus, shards, scan, run, launches>>

(* np.save to the temporary file, then os.replace. *)
OpenTmp(j) ==
    /\ At(j, 0, "open")
    /\ tmp' = [tmp EXCEPT ![Temp(j)] = Torn]
    /\ To(j, 0, "write")
    /\ UNCHANGED <<kind, corpus, file, shards, scan, run, launches>>

(* Another job that uses the same name may have moved the file meanwhile;  *)
(* the handle still writes to it.                                          *)
WriteTmp(j) ==
    /\ At(j, 0, "write")
    /\ IF tmp[Temp(j)] # None
       THEN tmp' = [tmp EXCEPT ![Temp(j)] = Stats(scan[j].pool)] /\ UNCHANGED file
       ELSE file' = Stats(scan[j].pool) /\ UNCHANGED tmp
    /\ scan' = [scan EXCEPT ![j] = Fresh]
    /\ To(j, 0, "replace")
    /\ UNCHANGED <<kind, corpus, shards, run, launches>>

Replace(j) ==
    /\ At(j, 0, "replace")
    /\ IF tmp[Temp(j)] = None
       THEN To(j, 0, "failed") /\ UNCHANGED <<file, tmp>>
       ELSE /\ file' = tmp[Temp(j)]
            /\ tmp' = [tmp EXCEPT ![Temp(j)] = None]
            /\ To(j, 0, IF kind \in Sharded THEN "clean" ELSE "load")
    /\ UNCHANGED <<kind, corpus, shards, scan, run, launches>>

(* cleanup_partial_stats_checkpoint *)
Clean(j) ==
    /\ At(j, 0, "clean")
    /\ shards' = Empty
    /\ To(j, 0, "load")
    /\ UNCHANGED <<kind, corpus, file, tmp, scan, run, launches>>

(* _validate_stats_fingerprint *)
Matches == kind = "ebench" => file.fingerprint = corpus

Load(j, r) ==
    /\ At(j, r, "load")
    /\ IF Present /\ file.whole /\ Matches
       THEN rank' = [rank EXCEPT ![j][r] = [pc |-> "up",
            loaded |-> [pool |-> file.pool, taken |-> file.fingerprint, of |-> corpus]]]
       ELSE To(j, r, "failed")
    /\ UNCHANGED <<kind, corpus, file, tmp, shards, scan, run, launches>>
-----------------------------------------------------------------------------
(* setup_output_dir.  A fresh run gets the dataset's file from rank 0,     *)
(* which then tells the others the run's directory.                        *)
StartRun(j) ==
    /\ At(j, 0, "up") /\ ~run[j].saved
    /\ run' = [run EXCEPT ![j].artifact = IF file = None THEN None ELSE file.pool]
    /\ To(j, 0, "trains")
    /\ UNCHANGED <<kind, corpus, file, tmp, shards, scan, launches>>

FollowRun(j, r) ==
    /\ r # 0 /\ At(j, r, "up") /\ ~run[j].saved /\ At(j, 0, "trains")
    /\ To(j, r, "trains")
    /\ UNCHANGED <<kind, corpus, file, tmp, shards, scan, run, launches>>

(* Fault: the statistics of a resumed run are taken as they come. *)
ResumeRunUnverified(j, r) ==
    /\ At(j, r, "up") /\ run[j].saved
    /\ To(j, r, "trains")
    /\ UNCHANGED <<kind, corpus, file, tmp, shards, scan, run, launches>>

(* verify_resume_normalization_stats, on every rank. *)
ResumeRun(j, r) ==
    /\ At(j, r, "up") /\ run[j].saved
    /\ To(j, r, IF file # None /\ file.whole /\ run[j].artifact = file.pool THEN "trains" ELSE "failed")
    /\ UNCHANGED <<kind, corpus, file, tmp, shards, scan, run, launches>>

SaveState(j) ==
    /\ \A r \in Ranks : At(j, r, "trains")
    /\ ~run[j].saved
    /\ run' = [run EXCEPT ![j].saved = TRUE]
    /\ UNCHANGED <<kind, corpus, file, tmp, shards, rank, scan, launches>>

Kill(j) ==
    /\ Alive(j)
    /\ rank' = [rank EXCEPT ![j] = [r \in Ranks |-> [pc |-> "off", loaded |-> None]]]
    /\ UNCHANGED <<kind, corpus, file, tmp, shards, scan, run, launches>>

(* The dataset is downloaded again, or its statistics are deleted, while   *)
(* no job is about to read them.                                           *)
Update(x) ==
    /\ Quiet
    /\ \E v \in 2 .. MaxVersion : /\ \A y \in 1 .. Roots : corpus[y] < v
                                 /\ corpus' = [corpus EXCEPT ![x] = v]
    /\ UNCHANGED <<kind, file, tmp, shards, rank, scan, run, launches>>

Delete ==
    /\ Quiet /\ file # None
    /\ file' = None
    /\ UNCHANGED <<kind, corpus, tmp, shards, rank, scan, run, launches>>

BuildStep(j) ==
    \/ Scan(j) \/ ScanRoot(j) \/ PoolShards(j)
    \/ OpenTmp(j) \/ WriteTmp(j) \/ Replace(j) \/ Clean(j)
RankStep(j, r) ==
    \/ Look(j, r) \/ Poll(j, r) \/ TimeOut(j, r) \/ Load(j, r)
    \/ r = 0 /\ BuildStep(j)

Next ==
    \/ \E j \in Jobs, r \in Ranks : RankStep(j, r) \/ FollowRun(j, r) \/ ResumeRun(j, r)
    \/ \E j \in Jobs : Launch(j) \/ BuildFails(j) \/ StartRun(j) \/ SaveState(j) \/ Kill(j)
    \/ \E x \in 1 .. Roots : Update(x)
    \/ Delete

(* A rank goes on, and time passes for one that waits. *)
FairSpec ==
    /\ Init /\ [][Next]_vars
    /\ \A j \in Jobs, r \in Ranks : WF_vars(RankStep(j, r))
-----------------------------------------------------------------------------
(* What stands under the file's name is complete, after a crash as well,   *)
(* and the statistics a rank works with were taken over every root, not    *)
(* over the shards that happened to stand: RoboTwin's leave out only a     *)
(* root that had no episodes when they were taken.                         *)
PooledWhole ==
    /\ file # None => file.whole
    /\ \A j \in Jobs, r \in Ranks : rank[j][r].loaded # None =>
           \A x \in 1 .. Roots :
               rank[j][r].loaded.pool[x] = 0 => kind \in Sharded /\ rank[j][r].loaded.taken[x] = 0

(* They are those of the data as it is, but for RoboTwin's unreadable      *)
(* files: EBench's in any case, the others' as long as the data has not    *)
(* changed under a file or a shard.                                        *)
PooledFresh ==
    \A j \in Jobs, r \in Ranks :
        rank[j][r].loaded # None /\ (kind = "ebench" \/ \A x \in 1 .. Roots : corpus[x] \in {0, 1}) =>
            \A x \in 1 .. Roots :
                LET p == rank[j][r].loaded.pool[x]  c == rank[j][r].loaded.of[x] IN
                p = c \/ (kind \in Sharded /\ p = -c)

(* A run trains in one coordinate system all its life: on every rank and   *)
(* after every resume, that of the statistics in its directory.            *)
OneTransform ==
    \A j \in Jobs, r \in Ranks : At(j, r, "trains") => rank[j][r].loaded.pool = run[j].artifact

(* Building or waiting for the statistics ends on every rank, whatever     *)
(* becomes of rank 0: launches are bounded, so in the end nobody does.     *)
BuildReturns == <>[](\A j \in Jobs, r \in Ranks : rank[j][r].pc \notin Loading)
=============================================================================
