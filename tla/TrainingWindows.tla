--------------------------- MODULE TrainingWindows ---------------------------
(***************************************************************************)
(* A training sample: one window of one recorded episode, put together     *)
(* from parquet rows or HDF5 arrays, video frames and a prompt that lie in *)
(* different files.  LeRobot v3 packs many episodes into one shard, so the *)
(* readers find an episode by offsets they add up themselves; the readers  *)
(* of EBench, RoboTwin and RoboDojo have a file per episode.  Splits and   *)
(* blacklists drop episodes; a damaged file fails a sample, and some       *)
(* readers then deliver another one.                                       *)
(*                                                                         *)
(* A row or a frame is the pair <<episode, time>> it was recorded at, so   *)
(* reading the wrong place is visible in what is read.                     *)
(***************************************************************************)
EXTENDS Integers, Sequences, SequencesExt, FiniteSets

CONSTANTS
    Disks,      \* the datasets on disk
    Frames,     \* num_frames
    Strides,    \* pairs of window_stride and video_stride
    MaxTries,   \* _GETITEM_MAX_RETRIES
    None

WindowsAssumption ==
    /\ Frames \in Nat \ {0, 1} /\ MaxTries \in Nat \ {0}
    /\ Strides \subseteq (Nat \ {0}) \X (Nat \ {0})
    /\ \A d \in Disks :
           /\ IsFiniteSet(d.files) /\ d.files = 1 .. Cardinality(d.files)
           /\ d.episodes \in Seq([length : Nat, data : d.files, video : d.files, from : Nat,
                                 excluded : BOOLEAN, damaged : BOOLEAN])
           /\ d.stamped => \A a, b \in DOMAIN d.episodes :
                 a # b /\ d.episodes[a].video = d.episodes[b].video =>
                     \/ d.episodes[a].from + d.episodes[a].length <= d.episodes[b].from
                     \/ d.episodes[b].from + d.episodes[b].length <= d.episodes[a].from

VARIABLES
    reader,     \* the reader's kind, split and strides
    disk,       \* the episodes in recording order, and info.json
    index,      \* _eps_df: of each episode that is kept, its length and where it begins
    asked,      \* the window that was asked for, None when idle
    at,         \* the window now tried
    tries,
    sample      \* what was delivered

vars == <<reader, disk, index, asked, at, tries, sample>>

(* lerobot    row-aligned commands (LIBERO, RoboCasa GR1, RoboCOIN, DROID)  *)
(* relabeled  the action of a row is the next row's pose (AgiBot, InternData) *)
(* vlabench   lerobot over shards whose metadata is wrong                  *)
(* robocasa   RoboCasa365, its own reader over packed shards               *)
(* ebench, robotwin, robodojo   a file per episode                         *)
Kinds    == {"lerobot", "relabeled", "vlabench", "robocasa", "ebench", "robotwin", "robodojo"}
Packed   == {"lerobot", "relabeled", "vlabench", "robocasa"}
Family   == {"lerobot", "relabeled", "vlabench"}
NextPose == {"relabeled", "robotwin", "robodojo"}

Least(a, b) == IF a < b THEN a ELSE b
Most(a, b)  == IF a > b THEN a ELSE b
Episodes    == DOMAIN disk.episodes
Length(e)   == disk.episodes[e].length
Lengths     == [e \in Episodes |-> Length(e)]
-----------------------------------------------------------------------------
(* The files.                                                              *)

Before(e, field) ==   \* the episodes that lie before e in its shard
    {b \in 1 .. e - 1 : disk.episodes[b][field] = disk.episodes[e][field]}

Recorded(e) == [t \in 1 .. Length(e) |-> <<e, t - 1>>]

Shard(file, field) ==
    FlattenSeq([e \in Episodes |-> IF disk.episodes[e][field] = file THEN Recorded(e) ELSE <<>>])

(* table.slice and friends: a slice beyond the end is shorter. *)
Slice(rows, start, n) == SubSeq(rows, start + 1, Least(start + n, Len(rows)))
(* What a video shard shows at its n-th frame.  With from_timestamp in the *)
(* metadata a writer may put the episodes of a shard anywhere, the first   *)
(* frame of e at disk.episodes[e].from; without it they follow each other. *)
Filmed(file, n) ==
    IF disk.stamped
    THEN LET e == CHOOSE e \in Episodes :
                      /\ disk.episodes[e].video = file
                      /\ n - disk.episodes[e].from \in 0 .. Length(e) - 1
         IN <<e, n - disk.episodes[e].from>>
    ELSE Shard(file, "video")[n + 1]
-----------------------------------------------------------------------------
(* The index.                                                              *)

(* compute_file_local_offsets *)
FileLocalOffset(e, field) == SumFunctionOnSet(Lengths, Before(e, field))

(* VLABench does not trust the shard its metadata names: it adds up the    *)
(* lengths of all episodes and finds the shard by its real number of rows. *)
ShardRows(file) == Len(Shard(file, "data"))
ShardStart(file) == SumFunctionOnSet([f \in disk.files |-> ShardRows(f)], 1 .. file - 1)
GlobalStart(e)  == SumFunctionOnSet(Lengths, 1 .. e - 1)
RepairedShard(e) ==
    CHOOSE f \in disk.files : /\ ShardStart(f) <= GlobalStart(e)
                              /\ \A g \in disk.files : ShardStart(g) <= GlobalStart(e) => g <= f

(* The shard metadata names: VLABench's writer gives every episode the     *)
(* first ones.                                                             *)
Named(e) == IF reader.kind = "vlabench" THEN 1 ELSE disk.episodes[e].data

(* Fault: the metadata is taken at its word. *)
DataOffsetsAsNamed(e) == [data |-> Named(e), row |-> FileLocalOffset(e, "data")]

DataOffsets(e) ==
    CASE reader.kind = "vlabench" -> [data |-> RepairedShard(e), row |-> GlobalStart(e) - ShardStart(RepairedShard(e))]
      [] reader.kind \in Packed \ {"vlabench"} -> [data |-> Named(e), row |-> FileLocalOffset(e, "data")]
      [] OTHER -> [data |-> e, row |-> 0]

(* The time stamps are rounded to frames; one that lies further than a     *)
(* quarter of a frame off is refused.  RoboCasa365 has no use for them.    *)
VideoOffsets(e) ==
    CASE reader.kind \in Family -> [video |-> disk.episodes[e].video,
             frame |-> IF disk.stamped THEN disk.episodes[e].from ELSE FileLocalOffset(e, "video")]
      [] reader.kind = "robocasa" -> [video |-> disk.episodes[e].video, frame |-> FileLocalOffset(e, "video")]
      [] OTHER -> [video |-> e, frame |-> 0]

(* meta/excluded_episodes.json; the cleaned exports have none. *)
Excluded(e) == reader.kind \in {"lerobot", "vlabench", "ebench"} /\ disk.episodes[e].excluded

(* apply_info_splits and EBench's _select_split of episode_index = e - 1;  *)
(* the others have no splits.  Only EBench takes a split without an end,   *)
(* which it puts at the number of episodes that are not excluded.          *)
InSplit(e) ==
    LET split == disk.splits[reader.split] IN
    CASE reader.kind \notin Family \cup {"ebench"} -> TRUE
      [] split.spec = "missing" -> reader.split = "train"
      [] split.spec = "all" -> TRUE
      [] split.spec = "range" -> split.first < e /\ e <= split.past
      [] split.spec = "open" -> split.first < e /\ e <= Cardinality({k \in Episodes : ~Excluded(k)})

Row(e) == [length |-> Length(e), places |-> [data |-> DataOffsets(e), video |-> VideoOffsets(e)]]

Admitted == {e \in Episodes : InSplit(e) /\ ~Excluded(e)}

(* Offsets are those of the whole shard, so rows are dropped afterwards. *)
EpisodeIndex == [e \in Admitted |-> Row(e)]

(* The number of windows of an episode: cum_n_starts of the LeRobot family *)
(* and EBench, ranges of starts in the others.  Validation takes only full *)
(* windows, except that RoboTwin and RoboCasa365 keep short episodes.      *)
MinLength ==
    CASE reader.split = "val" /\ reader.kind \in Family \cup {"ebench"} -> Frames
      [] reader.kind \in {"lerobot", "vlabench"} -> 1
      [] OTHER -> 2

(* Fault: the last window of an episode is not counted. *)
FamilyStartsOneLess(n) == IF n >= MinLength THEN (n - MinLength) \div reader.stride ELSE 0

FamilyStarts(n) == IF n >= MinLength THEN (n - MinLength) \div reader.stride + 1 ELSE 0

RangedStarts(n) ==
    LET last == Most(0, n - IF reader.split = "val" THEN Frames ELSE 2)
    IN IF n < 2 THEN 0 ELSE last \div reader.stride + 1

DojoStarts(n) == IF n < 2 THEN 0 ELSE (n - 2) \div reader.stride + 1

Starts(n) ==
    CASE reader.kind \in Family \cup {"ebench"} -> FamilyStarts(n)
      [] reader.kind \in {"robotwin", "robocasa"} -> RangedStarts(n)
      [] reader.kind = "robodojo" -> DojoStarts(n)

WindowCounts   == [e \in DOMAIN index |-> Starts(index[e].length)]
FirstWindow(e) == SumFunctionOnSet(WindowCounts, {b \in DOMAIN index : b < e})
Windows        == SumFunction(WindowCounts)
-----------------------------------------------------------------------------
(* A window.                                                               *)

(* searchsorted(side="right") - 1: the last row that begins at or before. *)
EpisodeOf(w) ==
    CHOOSE e \in DOMAIN index : FirstWindow(e) <= w /\ w < FirstWindow(e) + WindowCounts[e]
Offset(w) == (w - FirstWindow(EpisodeOf(w))) * reader.stride
RawLen(w) == Least(Frames, index[EpisodeOf(w)].length - Offset(w))

Rows(w) ==
    LET e == EpisodeOf(w)
        place == index[e].places.data
        rows == IF reader.kind \in Packed THEN Shard(place.data, "data") ELSE Recorded(e)
    IN Slice(rows, place.row + Offset(w), RawLen(w))

(* video_stride takes every nth frame of the window.  Where the window is  *)
(* short the last frame taken fills it up; RoboTwin and RoboDojo fill it   *)
(* before they sample, so with the episode's last frame, taken or not.     *)
SampledTimes == [i \in 1 .. (Frames - 1) \div reader.vstride + 1 |-> (i - 1) * reader.vstride]
RealFrames(w) == Cardinality({i \in DOMAIN SampledTimes : SampledTimes[i] < RawLen(w)})
FillTime(w) ==
    IF reader.kind \in {"robotwin", "robodojo"} THEN RawLen(w) - 1 ELSE SampledTimes[RealFrames(w)]

VideoFrames(w) ==
    LET e == EpisodeOf(w)
        place == index[e].places.video
        Frame(t) == IF reader.kind \in Packed THEN Filmed(place.video, place.frame + Offset(w) + t)
                    ELSE Recorded(e)[place.frame + Offset(w) + t + 1]
    IN [i \in DOMAIN SampledTimes |->
           Frame(IF SampledTimes[i] < RawLen(w) THEN SampledTimes[i] ELSE FillTime(w))]

(* What the action column holds in a row: a relabeled dataset has the next *)
(* pose there, and in an episode's last row, which has no next, an old one. *)
ActionColumn(row) ==
    IF reader.kind = "relabeled"
    THEN IF row[2] + 1 < Length(row[1]) THEN <<row[1], row[2] + 1>> ELSE None
    ELSE row

(* _n_supervised_action_steps and the masks of the other readers. *)
Supervised(n) ==
    CASE reader.kind = "relabeled" -> Least(IF n >= Frames THEN n ELSE n - 1, Frames - 1)
      [] reader.kind \in {"robotwin", "robodojo", "robocasa"} -> Least(n - 1, Frames - 1)
      [] OTHER -> Least(n, Frames - 1)

(* RoboTwin and RoboDojo take the states after the first as targets. *)
Targets(w) ==
    LET rows == Rows(w) IN
    [t \in 1 .. Supervised(Len(rows)) |->
        IF reader.kind \in {"robotwin", "robodojo"} THEN rows[t + 1] ELSE ActionColumn(rows[t])]

(* EBench needs the row before the window for the base's velocity. *)
Lead(w) == IF reader.kind = "ebench" /\ Offset(w) > 0 THEN <<Rows(w)[1][1], Rows(w)[1][2] - 1>> ELSE None

Sample(w, wrist) ==
    [proprio |-> Rows(w)[1], lead |-> Lead(w), targets |-> Targets(w),
     video |-> VideoFrames(w), valid |-> RealFrames(w), wrist |-> wrist,
     prompt |-> IF reader.kind \in Family THEN Rows(w)[1][1] ELSE EpisodeOf(w)]
-----------------------------------------------------------------------------
(* VLABench's episodes are packed into the shards in their order           *)
(* (vlabench.py:112, "verified exactly").                                  *)
InOrder(d) ==
    \A a, b \in DOMAIN d.episodes : a < b => d.episodes[a].data <= d.episodes[b].data

Init ==
    /\ disk \in Disks
    /\ reader \in [kind : Kinds, split : {"train", "val"}, stride : {s[1] : s \in Strides},
                   vstride : {s[2] : s \in Strides}]
    /\ <<reader.stride, reader.vstride>> \in Strides
    /\ reader.kind = "vlabench" => InOrder(disk)
    /\ reader.kind = "robocasa" => ~disk.stamped
    /\ reader.kind \in Family => disk.splits[reader.split].spec \in {"missing", "range"}
    /\ index = <<>> /\ asked = None /\ at = None /\ tries = 0 /\ sample = None

(* __init__: an empty index is refused by the file-per-episode readers and *)
(* of no use to anybody.                                                   *)
Construct ==
    /\ index = <<>> /\ Admitted # {}
    /\ index' = EpisodeIndex
    /\ UNCHANGED <<reader, disk, asked, at, tries, sample>>

Ask(w) ==
    /\ asked = None /\ w < Windows
    /\ asked' = w /\ at' = w /\ tries' = 1 /\ sample' = None
    /\ UNCHANGED <<reader, disk, index>>

(* Any read may fail; a damaged head video always does.                    *)
Damaged(w) == disk.episodes[EpisodeOf(w)].damaged

(* A wrist camera that cannot be decoded leaves a black slot. *)
Deliver(wrist) ==
    /\ asked # None /\ ~Damaged(at)
    /\ wrist = "black" => reader.kind \in Family \cup {"ebench"}
    /\ sample' = Sample(at, wrist)
    /\ asked' = None /\ at' = None /\ tries' = 0
    /\ UNCHANGED <<reader, disk, index>>

(* _safe_get goes on with the next window, EBench's with the next episode. *)
NextEpisodeStart(w) ==
    LET later == {e \in DOMAIN index : e > EpisodeOf(w)}
    IN IF later = {} THEN 0 ELSE FirstWindow(Min(later)) % Windows

(* EBench raises at once what it knows to be an error of the data.         *)
Fail ==
    /\ asked # None
    /\ \/ /\ reader.kind \in Family \cup {"ebench"} /\ tries < MaxTries
          /\ at' = IF reader.kind = "ebench" THEN NextEpisodeStart(at) ELSE (at + 1) % Windows
          /\ tries' = tries + 1
          /\ UNCHANGED asked
       \/ /\ reader.kind \in Family => tries = MaxTries
          /\ asked' = None /\ at' = None /\ tries' = 0
    /\ UNCHANGED <<reader, disk, index, sample>>

Next ==
    \/ Construct \/ Fail
    \/ \E w \in 0 .. Windows - 1 : Ask(w)
    \/ \E wrist \in {"seen", "black"} : Deliver(wrist)

Spec == Init /\ [][Next]_vars
-----------------------------------------------------------------------------
Time(i) == (i - 1) * reader.vstride
Shift   == IF reader.kind \in NextPose THEN 1 ELSE 0

(* Whatever was dropped, packed, repaired or retried, a sample is one      *)
(* window of one episode that the split admits and the blacklist does not: *)
(* proprioception, supervised targets, frames and prompt belong to the     *)
(* same episode and to the times they are paired with, no supervised       *)
(* target lies beyond the episode's end, and at least one is supervised.   *)
(* Frames beyond the episode's end are not valid; they repeat one frame of *)
(* the window that is no older than the last valid one.                    *)
Aligned ==
    sample # None =>
        LET e == sample.proprio[1]  o == sample.proprio[2] IN
        /\ e \in Admitted
        /\ sample.prompt = e
        /\ sample.lead \in {None, <<e, o - 1>>}
        /\ sample.targets # <<>>
        /\ \A t \in DOMAIN sample.targets : sample.targets[t] = <<e, o + t - 1 + Shift>>
        /\ o + Len(sample.targets) - 1 + Shift < Length(e)
        /\ \A i \in DOMAIN sample.video :
               /\ i <= sample.valid <=> o + Time(i) < Length(e)
               /\ i <= sample.valid => sample.video[i] = <<e, o + Time(i)>>
        /\ \E last \in o + Time(sample.valid) .. Length(e) - 1 :
               \A i \in DOMAIN sample.video : i > sample.valid => sample.video[i] = <<e, last>>

(* The windows are all there: with stride 1 every time of an admitted      *)
(* episode that has a target is the start of a training window, once.      *)
Exhaustive ==
    index # <<>> /\ reader.split = "train" /\ reader.stride = 1 =>
        \A e \in Admitted : \A o \in 0 .. Length(e) - MinLength :
            Cardinality({w \in 0 .. Windows - 1 : EpisodeOf(w) = e /\ Offset(w) = o}) = 1
=============================================================================
