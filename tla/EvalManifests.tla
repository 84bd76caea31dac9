---------------------------- MODULE EvalManifests ----------------------------
(***************************************************************************)
(* Labtasker evaluations of LIBERO and RoboTwin: manifests of evaluation   *)
(* instances, built once and published through a cache index               *)
(* (utils/eval_manifest.py), submissions of evaluation tasks that name     *)
(* their manifest (utils/labtasker_utils.py), workers that build and       *)
(* evaluate, and the summary that accepts a submission as complete.        *)
(*                                                                         *)
(* A manifest is its content: the key it was built for (benchmark task),   *)
(* the number of its entries, and a generation that tells one build from   *)
(* another.  Its hash and its path stand for the content.  Processes may   *)
(* die between any two steps; files written before stay (no power loss).   *)
(* The Labtasker server, which keeps tasks by identifier, is external.     *)
(***************************************************************************)
EXTENDS Integers, FiniteSets, SequencesExt

CONSTANTS
    Keys,         \* manifest_cache_key: benchmark tasks
    RoboTwin,     \* those of RoboTwin, whose builds may exceed what was asked
    MaxTotal,     \* bound: entries a command asks for
    Commands,     \* submit commands: [keys, total, batch]
    Generations,  \* what tells builds of one key and size apart
    Builders,     \* workers of the build_manifest route
    PageSize,     \* tasks in a page of list_tasks (100)
    MaxBuilds, MaxSubmits,  \* bounds: build attempts and submit commands
    None

(* IndexRange and split_range refuse a range without an entry.             *)
ManifestAssumption ==
    /\ Commands \subseteq [keys : Seq(Keys), total : 1..MaxTotal, batch : Nat \ {0}]
    /\ \A c \in Commands : c.keys # <<>>
    /\ MaxTotal \in Nat /\ PageSize \in Nat \ {0} /\ MaxBuilds \in Nat /\ MaxSubmits \in Nat

Sizes    == 1..MaxTotal
Contents == [key : Keys, size : Sizes, generation : Generations]
Jobs     == [key : Keys, total : Sizes, rebuild : BOOLEAN]

VARIABLES
    stored,    \* contents under manifests/, by hash
    index,     \* the pointer under index/ of each key
    builder,   \* per builder: where it is, its job, what it built
    submitter, \* the submit command that runs: where it is, the manifests it resolved
    task,      \* the submission's tasks on the server, by submission_task_index
    summary,   \* a summarize command: where it is, and the tasks it listed
    builds, submits

storeVars == <<stored, index>>
vars == <<storeVars, builder, submitter, task, summary, builds, submits>>

Idle    == [pc |-> "idle", job |-> None, built |-> None]
NoCmd   == [pc |-> "off", command |-> None, cached |-> <<>>, next |-> 0]
NoTasks == <<>>
Quiet   == [pc |-> "off", cursor |-> 0, listed |-> NoTasks]

Init ==
    /\ stored = {} /\ index = [k \in Keys |-> None]
    /\ builder = [b \in Builders |-> Idle]
    /\ submitter = NoCmd /\ task = NoTasks /\ summary = Quiet
    /\ builds = 0 /\ submits = 0

Extend(f, i, v) == [j \in DOMAIN f \cup {i} |-> IF j = i THEN v ELSE f[j]]
-----------------------------------------------------------------------------
(* Building: labtasker_worker's build_manifest and _run_manifest.          *)

Loadable(k)      == index[k] \in stored  \* load_cached_manifest
Valid(c, k, n)   == c.key = k /\ c.size >= n  \* validate_manifest
Accepted(c, job) == Valid(c, job.key, job.total) /\ (job.key \in RoboTwin \/ c.size = job.total)

Goto(b, state) == builder' = [builder EXCEPT ![b] = state]

Claim(b, job) ==
    /\ builder[b].pc = "idle" /\ builds < MaxBuilds
    /\ builds' = builds + 1
    /\ Goto(b, [Idle EXCEPT !.pc = "look", !.job = job])
    /\ UNCHANGED <<storeVars, submitter, task, summary, submits>>

(* An index that is there decides the task unless it asks for a rebuild:   *)
(* its manifest is used, or the task fails.                                *)
Look(b) ==
    /\ builder[b].pc = "look"
    /\ IF ~builder[b].job.rebuild /\ index[builder[b].job.key] # None
       THEN Goto(b, Idle)
       ELSE Goto(b, [builder[b] EXCEPT !.pc = "build"])
    /\ UNCHANGED <<storeVars, submitter, task, summary, builds, submits>>

(* The client generates and seals a manifest, which is read back. *)
Generate(b, c) ==
    /\ builder[b].pc = "build"
    /\ c.key = builder[b].job.key
    /\ IF Accepted(c, builder[b].job)
       THEN Goto(b, [builder[b] EXCEPT !.pc = "content", !.built = c])
       ELSE Goto(b, Idle)
    /\ UNCHANGED <<storeVars, submitter, task, summary, builds, submits>>

(* Fault: the index is replaced first. *)
PublishIndexFirst(b) ==
    /\ \/ /\ builder[b].pc = "content"
          /\ index' = [index EXCEPT ![builder[b].job.key] = builder[b].built]
          /\ Goto(b, [builder[b] EXCEPT !.pc = "index"])
          /\ UNCHANGED stored
       \/ /\ builder[b].pc = "index"
          /\ stored' = stored \cup {builder[b].built}
          /\ Goto(b, Idle)
          /\ UNCHANGED index
    /\ UNCHANGED <<submitter, task, summary, builds, submits>>

(* publish_manifest: the content, unless a file of that name is there, and *)
(* then the index; each is written aside and moved into place.             *)
Publish(b) ==
    /\ \/ /\ builder[b].pc = "content"
          /\ stored' = stored \cup {builder[b].built}
          /\ Goto(b, [builder[b] EXCEPT !.pc = "index"])
          /\ UNCHANGED index
       \/ /\ builder[b].pc = "index"
          /\ index' = [index EXCEPT ![builder[b].job.key] = builder[b].built]
          /\ Goto(b, Idle)
          /\ UNCHANGED stored
    /\ UNCHANGED <<submitter, task, summary, builds, submits>>

BuilderDies(b) ==
    /\ builder[b].pc # "idle"
    /\ Goto(b, Idle)
    /\ UNCHANGED <<storeVars, submitter, task, summary, builds, submits>>
-----------------------------------------------------------------------------
(* Submitting: build_task_inputs, submit and submit_tasks.                 *)

SplitRange(count, size) ==
    [i \in 1..((count + size - 1) \div size) |->
       [start |-> (i - 1) * size, count |-> IF i * size <= count THEN size ELSE count - (i - 1) * size]]

Units(batches) == FoldSeq(LAMBDA b, n : b.count + n, 0, batches)

(* The tasks of a command, key after key, with the metadata that tells how *)
(* many there are.                                                         *)
Inputs(command, cached) ==
    LET batches == SplitRange(command.total, command.batch)
        tasks   == Len(command.keys) * Len(batches)
        at(i)   == 1 + ((i - 1) \div Len(batches))
    IN  [i \in 1..tasks |->
           [key |-> command.keys[at(i)], manifest |-> cached[at(i)], total |-> command.total,
            start |-> batches[1 + ((i - 1) % Len(batches))].start,
            count |-> batches[1 + ((i - 1) % Len(batches))].count,
            tasks |-> tasks, units |-> Len(command.keys) * Units(batches), status |-> "pending"]]

Invoke(command) ==
    /\ submitter.pc = "off" /\ submits < MaxSubmits
    /\ submits' = submits + 1
    /\ submitter' = [NoCmd EXCEPT !.pc = "resolve", !.command = command]
    /\ UNCHANGED <<storeVars, builder, task, summary, builds>>

(* require_manifests reads one index after the other; a command that lacks *)
(* a manifest, or whose manifest is too short, submits nothing.            *)
Resolve ==
    /\ submitter.pc = "resolve"
    /\ LET k == submitter.command.keys[Len(submitter.cached) + 1]
           cached == Append(submitter.cached, index[k])
       IN  submitter' = IF ~Loadable(k) \/ ~Valid(index[k], k, submitter.command.total) THEN NoCmd
                        ELSE [submitter EXCEPT !.cached = cached,
                                !.pc = IF Len(cached) = Len(submitter.command.keys)
                                       THEN "submit" ELSE "resolve"]
    /\ UNCHANGED <<storeVars, builder, task, summary, builds, submits>>

Definition(t) == [t EXCEPT !.status = "pending"]

(* One submit_task: the identifier derives from the submission and the     *)
(* index.  A task that exists is kept; the server may refuse another       *)
(* definition of it.                                                       *)
SubmitTask ==
    /\ submitter.pc = "submit"
    /\ LET inputs == Inputs(submitter.command, submitter.cached)
           i == submitter.next
           new == inputs[i + 1]
           next == IF i + 1 = Len(inputs) THEN NoCmd ELSE [submitter EXCEPT !.next = i + 1]
       IN  \/ /\ i \notin DOMAIN task
              /\ task' = Extend(task, i, new) /\ submitter' = next
           \/ /\ i \in DOMAIN task
              /\ submitter' \in {next} \cup IF Definition(task[i]) = new THEN {} ELSE {NoCmd}
              /\ UNCHANGED task
    /\ UNCHANGED <<storeVars, builder, summary, builds, submits>>

SubmitterDies ==
    /\ submitter.pc # "off"
    /\ submitter' = NoCmd
    /\ UNCHANGED <<storeVars, builder, task, summary, builds, submits>>
-----------------------------------------------------------------------------
(* A worker evaluates a task: it loads the manifest the task names and     *)
(* checks its hash, its key, its size and the range.  A task whose attempt *)
(* fails waits for another.                                                *)
Evaluate(i) ==
    /\ task[i].status = "pending"
    /\ task[i].manifest \in stored /\ Valid(task[i].manifest, task[i].key, task[i].total)
    /\ task[i].start + task[i].count <= task[i].manifest.size
    /\ task' = [task EXCEPT ![i].status = "succeeded"]
    /\ UNCHANGED <<storeVars, builder, submitter, summary, builds, submits>>
-----------------------------------------------------------------------------
(* Summarizing.                                                            *)

Ranges(tasks, k) == {i \in DOMAIN tasks : tasks[i].key = k}

(* What the tasks were submitted with: all agree, all are there.           *)
Complete(tasks) ==
    \E i \in DOMAIN tasks :
       /\ \A j \in DOMAIN tasks : tasks[j].tasks = tasks[i].tasks /\ tasks[j].units = tasks[i].units
       /\ DOMAIN tasks = 0..(tasks[i].tasks - 1)
       /\ FoldFunction(LAMBDA t, n : t.count + n, 0, tasks) = tasks[i].units

(* Fault: the units are counted, the ranges are not compared. *)
CountedCoverage(tasks) == Complete(tasks)

(* The ranges of a key, sorted. *)
Sorted(tasks, k) ==
    {ranges \in Bijection(1..Cardinality(Ranges(tasks, k)), Ranges(tasks, k)) :
       \A m, n \in DOMAIN ranges : m < n => tasks[ranges[m]].start <= tasks[ranges[n]].start}

(* validate_submission_coverage: all tasks of one count are there, and the *)
(* ranges of each key follow on each other from 0 to one total.            *)
ValidCoverage(tasks) ==
    /\ Complete(tasks)
    /\ \A i \in DOMAIN tasks : tasks[i].count > 0 /\ tasks[i].start + tasks[i].count <= tasks[i].total
    /\ \A k \in Keys : \E ranges \in Sorted(tasks, k) :
          LET end(n) == IF n = 0 THEN 0 ELSE tasks[ranges[n]].start + tasks[ranges[n]].count
          IN  \A n \in DOMAIN ranges :
                 /\ tasks[ranges[n]].start = end(n - 1)
                 /\ tasks[ranges[n]].total = end(Cardinality(Ranges(tasks, k)))

Summarize ==
    /\ summary.pc = "off" /\ DOMAIN task # {}
    /\ summary' = [Quiet EXCEPT !.pc = "list"]
    /\ UNCHANGED <<storeVars, builder, submitter, task, builds, submits>>

(* list_submission_tasks: pages after a cursor, while tasks come and       *)
(* change; after the last the coverage decides.                            *)
ListPage ==
    /\ summary.pc = "list"
    /\ LET rest == {i \in DOMAIN task : i >= summary.cursor}
           page == {i \in rest : Cardinality({j \in rest : j < i}) < PageSize}
           listed == [i \in DOMAIN summary.listed \cup page |->
                        IF i \in page THEN task[i] ELSE summary.listed[i]]
       IN  summary' = IF rest # page
                      THEN [pc |-> "list", listed |-> listed,
                            cursor |-> 1 + CHOOSE i \in page : \A j \in page : j <= i]
                      ELSE IF ValidCoverage(listed)
                           THEN [pc |-> "accepted", listed |-> listed, cursor |-> 0]
                           ELSE Quiet
    /\ UNCHANGED <<storeVars, builder, submitter, task, builds, submits>>

(* The tables are written. *)
Report ==
    /\ summary.pc = "accepted"
    /\ summary' = Quiet
    /\ UNCHANGED <<storeVars, builder, submitter, task, builds, submits>>

Next ==
    \/ \E b \in Builders :
          \/ \E job \in Jobs : Claim(b, job)
          \/ Look(b) \/ Publish(b) \/ BuilderDies(b)
          \/ \E c \in Contents : Generate(b, c)
    \/ \E command \in Commands : Invoke(command)
    \/ Resolve \/ SubmitTask \/ SubmitterDies
    \/ \E i \in DOMAIN task : Evaluate(i)
    \/ Summarize \/ ListPage \/ Report

Spec == Init /\ [][Next]_vars
-----------------------------------------------------------------------------
(* "Previous content-addressed manifests remain available", "atomic        *)
(* pointer replacement": whoever was killed, rebuilt or rebuilt with fewer *)
(* entries in between, a task in the queue finds the manifest it was       *)
(* submitted with, with all the entries its submission needs, and the      *)
(* cache never points to a manifest that is not there.                     *)
Replayable ==
    /\ \A i \in DOMAIN task :
          task[i].manifest \in stored /\ Valid(task[i].manifest, task[i].key, task[i].total)
    /\ \A k \in Keys : index[k] # None => Loadable(k)

(* "Reject incomplete submissions": a summary that was accepted counts     *)
(* every trial of every key it mentions exactly once, although commands    *)
(* were interrupted, repeated and changed, and pages listed meanwhile.     *)
AcceptedCoverage ==
    summary.pc = "accepted" =>
       \A i \in DOMAIN summary.listed : \A trial \in 0..(summary.listed[i].total - 1) :
          Cardinality({j \in Ranges(summary.listed, summary.listed[i].key) :
                         /\ summary.listed[j].start <= trial
                         /\ trial < summary.listed[j].start + summary.listed[j].count}) = 1
=============================================================================
