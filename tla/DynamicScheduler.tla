-------------------------- MODULE DynamicScheduler --------------------------
(***************************************************************************)
(* The LIBERO evaluation scheduler (benchmarks/libero/scheduler.py, and    *)
(* its copy in benchmarks/libero-plus): worker threads, one per policy     *)
(* server, pull jobs from a shared queue.Queue and run each in a client    *)
(* subprocess; failed attempts go back to the queue; the main thread waits *)
(* for the queue, collects the workers and terminates what it started.     *)
(*                                                                         *)
(* Concurrent parties: the main thread, the workers, the client and server *)
(* processes, and the user's Ctrl-C.  A client is named by its job and     *)
(* attempt.  A result file is modelled by whether _latest_valid_result     *)
(* accepts it, a pause by the step that ends it.                           *)
(***************************************************************************)
EXTENDS Integers, FiniteSets, Sequences, SequencesExt

CONSTANTS
    Jobs,          \* assignment_jobs: the unfinished jobs of the plan
    Workers,       \* active_slots: a worker and a policy server each
    MaxAttempts,   \* client_max_attempts
    FailureLimit,  \* worker_max_consecutive_failures
    Managed,       \* server_mode = "managed"
    MayInterrupt,  \* whether the user may press Ctrl-C
    PrintsFail,    \* whether a worker's print may raise (stdout closed, its disk full)
    NoJob          \* None

ASSUME SchedulerAssumption ==
    /\ IsFiniteSet(Jobs) /\ Jobs # {} /\ NoJob \notin Jobs
    /\ IsFiniteSet(Workers) /\ Workers # {} /\ Cardinality(Workers) <= Cardinality(Jobs)
    /\ MaxAttempts \in Nat \ {0}
    /\ FailureLimit \in Nat \ {0}
    /\ Managed \in BOOLEAN /\ MayInterrupt \in BOOLEAN /\ PrintsFail \in BOOLEAN

VARIABLES
    queue,       \* work_queue
    unfinished,  \* its count of tasks put and not yet task_done
    pc,          \* where each worker is
    held,        \* the QueuedTask each worker took
    streak,      \* its consecutive_failures
    failed,      \* its list of failed jobs
    alive,       \* client processes that run
    exited0,     \* clients that exited with code 0, until their worker saw it
    registered,  \* client processes in the ProcessRegistry
    servers,     \* the policy servers of a managed run
    valid,       \* jobs with a valid result on disk
    main,        \* where the main thread is
    stop,        \* stop_event
    snapshot,    \* terminate_all's copy of the registry
    rc           \* return_code

workerVars  == <<pc, held, streak, failed>>
clientVars  == <<alive, exited0>>
queueVars   == <<queue, unfinished>>
mainVars    == <<main, stop, snapshot, rc>>
vars == <<queueVars, workerVars, clientVars, registered, servers, valid, mainVars>>

Attempts == 1 .. MaxAttempts
Task     == [job : Jobs, attempt : Attempts]
NoTask   == [job |-> NoJob, attempt |-> 0]
Sentinel == NoTask      \* the None that ends a worker

Holding == {w \in Workers : held[w] # NoTask}
Gone(w) == pc[w] \in {"done", "dead"}
-----------------------------------------------------------------------------
(* Jobs are queued in the plan's order, before any server is started. *)
Init ==
    /\ \E order \in {o \in [1 .. Cardinality(Jobs) -> Jobs] : IsInjective(o)} :
          queue = [i \in DOMAIN order |-> [job |-> order[i], attempt |-> 1]]
    /\ unfinished = Cardinality(Jobs)
    /\ pc = [w \in Workers |-> "idle"]
    /\ held = [w \in Workers |-> NoTask]
    /\ streak = [w \in Workers |-> 0]
    /\ failed = [w \in Workers |-> {}]
    /\ alive = {} /\ exited0 = {} /\ registered = {}
    /\ servers = [w \in Workers |-> "none"]
    /\ valid = {}
    /\ main = "start" /\ stop = FALSE /\ snapshot = {} /\ rc = -1
-----------------------------------------------------------------------------
(* _dynamic_worker *)

Goto(w, label) == pc' = [pc EXCEPT ![w] = label]

(* Fault: a worker that returns does not count its task as done. *)
TaskDoneUnlessReturning(w, label) ==
    /\ Goto(w, label)
    /\ unfinished' = IF label = "done" THEN unfinished ELSE unfinished - 1
    /\ held' = [held EXCEPT ![w] = NoTask]

(* The `finally: work_queue.task_done()` of the worker's loop body. *)
TaskDone(w, label) ==
    /\ Goto(w, label)
    /\ unfinished' = unfinished - 1
    /\ held' = [held EXCEPT ![w] = NoTask]

GiveUp(w) == failed' = [failed EXCEPT ![w] = @ \cup {held[w].job}]

(* The start stagger ends, by time or by the stop event. *)
Stagger(w) ==
    /\ pc[w] = "stagger"
    /\ \/ Goto(w, "pull")
       \/ stop /\ Goto(w, "done")
    /\ UNCHANGED <<queueVars, held, streak, failed, clientVars, registered, servers, valid, mainVars>>

(* The loop head.  The stop event may be set after it was tested, so get() *)
(* may still return.                                                       *)
Pull(w) ==
    /\ pc[w] = "pull"
    /\ \/ /\ stop
          /\ Goto(w, "done")
          /\ UNCHANGED <<queueVars, held>>
       \/ /\ queue # <<>>
          /\ queue' = Tail(queue)
          /\ \/ /\ Head(queue) = Sentinel
                /\ TaskDone(w, "done")
             \/ /\ Head(queue) # Sentinel
                /\ held' = [held EXCEPT ![w] = Head(queue)]
                /\ Goto(w, "got")
                /\ UNCHANGED unfinished
    /\ UNCHANGED <<streak, failed, clientVars, registered, servers, valid, mainVars>>

AttemptFails(w) ==
    /\ streak' = [streak EXCEPT ![w] = @ + 1]
    /\ Goto(w, "decide")
    /\ UNCHANGED <<held, unfinished>>

(* Fault: a job is started without looking for its result. *)
CheckStopOnly(w) ==
    /\ pc[w] = "got"
    /\ \/ stop /\ GiveUp(w) /\ TaskDone(w, "pull")
       \/ ~stop /\ Goto(w, "launch") /\ UNCHANGED <<unfinished, held, failed>>
    /\ UNCHANGED <<queue, streak, clientVars, registered, servers, valid, mainVars>>

(* The stop test, then _run_client's look for an earlier result. *)
Check(w) ==
    /\ pc[w] = "got"
    /\ \/ /\ stop
          /\ GiveUp(w)
          /\ TaskDone(w, "pull")
          /\ UNCHANGED streak
       \/ /\ ~stop /\ held[w].job \in valid
          /\ \/ streak' = [streak EXCEPT ![w] = 0] /\ TaskDone(w, "pull")
             \/ PrintsFail /\ AttemptFails(w)
          /\ UNCHANGED failed
       \/ /\ ~stop /\ held[w].job \notin valid
          /\ Goto(w, "launch")
          /\ UNCHANGED <<unfinished, held, streak, failed>>
    /\ UNCHANGED <<queue, clientVars, registered, servers, valid, mainVars>>

(* Popen, or an exception on the way to it (disk full, no such python). *)
Launch(w) ==
    /\ pc[w] = "launch"
    /\ \/ /\ alive' = alive \cup {held[w]}
          /\ Goto(w, "spawned")
          /\ UNCHANGED <<unfinished, held, streak>>
       \/ AttemptFails(w) /\ UNCHANGED alive
    /\ UNCHANGED <<queue, failed, exited0, registered, servers, valid, mainVars>>

(* registry.add, a step after Popen returned. *)
Register(w) ==
    /\ pc[w] = "spawned"
    /\ registered' = registered \cup {held[w]}
    /\ Goto(w, "watch")
    /\ UNCHANGED <<queueVars, held, streak, failed, clientVars, servers, valid, mainVars>>

(* Exit code 0 counts only with a valid result. *)
Succeeded(c) == c \notin alive /\ c \in exited0 /\ c.job \in valid

(* Fault: the worker waits for the client whatever the stop event says. *)
ObserveExitOnly(w) ==
    /\ pc[w] = "watch" /\ held[w] \notin alive
    /\ \/ /\ Succeeded(held[w])
          /\ streak' = [streak EXCEPT ![w] = 0]
          /\ TaskDone(w, "pull")
       \/ ~Succeeded(held[w]) /\ AttemptFails(w)
    /\ exited0' = exited0 \ {held[w]}
    /\ UNCHANGED <<queue, failed, alive, registered, servers, valid, mainVars>>

(* Fault: the worker gives up on a client that takes long. *)
ObserveImpatient(w) ==
    /\ pc[w] = "watch"
    /\ \/ /\ Succeeded(held[w])
          /\ streak' = [streak EXCEPT ![w] = 0]
          /\ TaskDone(w, "pull")
       \/ ~Succeeded(held[w]) /\ AttemptFails(w)
    /\ exited0' = exited0 \ {held[w]}
    /\ UNCHANGED <<queue, failed, alive, registered, servers, valid, mainVars>>

(* The poll loop ends: the client exited, or the stop event is set and it  *)
(* is left running.  A print before or after the loop that raises fails    *)
(* the attempt too.                                                        *)
Observe(w) ==
    /\ pc[w] = "watch"
    /\ \/ /\ Succeeded(held[w])
          /\ streak' = [streak EXCEPT ![w] = 0]
          /\ TaskDone(w, "pull")
       \/ /\ ~Succeeded(held[w])
          /\ held[w] \in alive => stop
          /\ AttemptFails(w)
       \/ PrintsFail /\ AttemptFails(w)
    /\ exited0' = exited0 \ {held[w]}
    /\ UNCHANGED <<queue, failed, alive, registered, servers, valid, mainVars>>

(* Fault: an exhausted job is not reported. *)
DecideSilently(w) ==
    /\ pc[w] = "decide"
    /\ \/ /\ stop
          /\ GiveUp(w)
          /\ TaskDone(w, "pull")
       \/ /\ ~stop
          /\ Goto(w, IF held[w].attempt >= MaxAttempts THEN "settle" ELSE "retry")
          /\ UNCHANGED <<unfinished, held, failed>>
    /\ UNCHANGED <<queue, streak, clientVars, registered, servers, valid, mainVars>>

(* A failed attempt: stopped, exhausted, or to be retried.  The exhausted  *)
(* and the requeued job leave by Settle, which may cool the worker down.   *)
Decide(w) ==
    /\ pc[w] = "decide"
    /\ \/ /\ stop
          /\ GiveUp(w)
          /\ TaskDone(w, "pull")
       \/ /\ ~stop /\ held[w].attempt >= MaxAttempts
          /\ GiveUp(w)
          /\ Goto(w, "settle")
          /\ UNCHANGED <<unfinished, held>>
       \/ /\ ~stop /\ held[w].attempt < MaxAttempts
          /\ Goto(w, "retry")
          /\ UNCHANGED <<unfinished, held, failed>>
    /\ UNCHANGED <<queue, streak, clientVars, registered, servers, valid, mainVars>>

(* The retry delay ends: by the stop event, or by time, and the next       *)
(* attempt is queued behind everything else.                               *)
Retry(w) ==
    /\ pc[w] = "retry"
    /\ \/ /\ stop
          /\ GiveUp(w)
          /\ TaskDone(w, "pull")
          /\ UNCHANGED queue
       \/ /\ queue' = Append(queue, [held[w] EXCEPT !.attempt = @ + 1])
          /\ unfinished' = unfinished + 1
          /\ Goto(w, "settle")
          /\ UNCHANGED <<held, failed>>
    /\ UNCHANGED <<streak, clientVars, registered, servers, valid, mainVars>>

(* Back to the queue, after a cool-down if too many attempts failed in a   *)
(* row.  task_done comes after the cool-down.                              *)
Settle(w) ==
    /\ pc[w] = "settle"
    /\ \/ /\ streak[w] < FailureLimit
          /\ TaskDone(w, "pull")
          /\ UNCHANGED streak
       \/ /\ streak[w] >= FailureLimit
          /\ TaskDone(w, "pull")
          /\ streak' = [streak EXCEPT ![w] = 0]
       \/ /\ streak[w] >= FailureLimit /\ stop
          /\ TaskDone(w, "done")
          /\ UNCHANGED streak
    /\ UNCHANGED <<queue, failed, clientVars, registered, servers, valid, mainVars>>

(* A print of the worker raises; `finally` still counts the task as done. *)
Die(w) ==
    /\ PrintsFail
    /\ pc[w] \in {"decide", "settle"}
    /\ TaskDone(w, "dead")
    /\ UNCHANGED <<queue, streak, failed, clientVars, registered, servers, valid, mainVars>>

WorkerStep(w) ==
    \/ Stagger(w) \/ Pull(w) \/ Check(w) \/ Launch(w) \/ Register(w)
    \/ Observe(w) \/ Decide(w) \/ Retry(w) \/ Settle(w)
-----------------------------------------------------------------------------
(* The client process of an attempt: it may write its result, and exits.   *)
ClientWrites(c) ==
    /\ c \in alive
    /\ valid' = valid \cup {c.job}
    /\ UNCHANGED <<queueVars, workerVars, clientVars, registered, servers, mainVars>>

ClientExits(c) ==
    /\ c \in alive
    /\ alive' = alive \ {c}
    /\ exited0' \in {exited0, exited0 \cup {c}}
    /\ UNCHANGED <<queueVars, workerVars, registered, servers, valid, mainVars>>
-----------------------------------------------------------------------------
(* main and its helpers.  _start_servers: Popen, then registry.add, one    *)
(* server after the other.                                                 *)
SpawnServer(w) ==
    /\ main = "start" /\ Managed
    /\ \A v \in Workers : servers[v] # "spawned"
    /\ servers[w] = "none"
    /\ servers' = [servers EXCEPT ![w] = "spawned"]
    /\ UNCHANGED <<queueVars, workerVars, clientVars, registered, valid, mainVars>>

AddServer(w) ==
    /\ main = "start"
    /\ servers[w] = "spawned"
    /\ servers' = [servers EXCEPT ![w] = "up"]
    /\ UNCHANGED <<queueVars, workerVars, clientVars, registered, valid, mainVars>>

(* A server may die while it loads; nobody watches it afterwards. *)
ServerExits(w) ==
    /\ servers[w] = "up" /\ main = "start"
    /\ servers' = [servers EXCEPT ![w] = "dead"]
    /\ UNCHANGED <<queueVars, workerVars, clientVars, registered, valid, mainVars>>

Leave(code) ==
    /\ main' = "terminate"
    /\ rc' = code
    /\ stop' = IF code = 0 THEN stop ELSE TRUE
    /\ UNCHANGED snapshot

(* All servers answer and the workers are submitted; or main raises: a     *)
(* server cannot be started while others run, one exited, or the wait for  *)
(* them timed out.                                                         *)
AllStarted == ~Managed \/ \A w \in Workers : servers[w] \in {"up", "dead"}

Submit ==
    /\ main = "start" /\ AllStarted
    /\ \A w \in Workers : servers[w] # "dead"
    /\ main' = "wait"
    /\ pc' = [w \in Workers |-> "stagger"]
    /\ UNCHANGED <<queueVars, held, streak, failed, clientVars, registered, servers, valid,
                   stop, snapshot, rc>>

StartFails ==
    /\ main = "start" /\ Managed
    /\ \A w \in Workers : servers[w] # "spawned"
    /\ Leave(1)
    /\ UNCHANGED <<queueVars, workerVars, clientVars, registered, servers, valid>>

(* _wait_for_dynamic_queue returns when Queue.join does; one sentinel per  *)
(* worker follows.                                                         *)
Drained ==
    /\ main = "wait" /\ unfinished = 0
    /\ main' = "collect"
    /\ queue' = queue \o [i \in 1 .. Cardinality(Workers) |-> Sentinel]
    /\ unfinished' = unfinished + Cardinality(Workers)
    /\ UNCHANGED <<workerVars, clientVars, registered, servers, valid, stop, snapshot, rc>>

(* Fault: main waits for the queue even when nobody is left to drain it. *)
AllRetiredAndDrained ==
    /\ main = "wait" /\ unfinished = 0
    /\ \A w \in Workers : Gone(w)
    /\ Leave(1)
    /\ UNCHANGED <<queueVars, workerVars, clientVars, registered, servers, valid>>

(* It raises when every worker is gone, after emptying the queue. *)
AllRetired ==
    /\ main = "wait"
    /\ \A w \in Workers : Gone(w)
    /\ queue' = <<>>
    /\ unfinished' = unfinished - Len(queue)
    /\ Leave(1)
    /\ UNCHANGED <<workerVars, clientVars, registered, servers, valid>>

(* as_completed: the first dead worker raises, otherwise all lists count. *)
Collect ==
    /\ main = "collect"
    /\ \/ /\ \E w \in Workers : pc[w] = "dead"
          /\ Leave(1)
       \/ /\ \A w \in Workers : pc[w] = "done"
          /\ rc' = IF \E w \in Workers : failed[w] # {} THEN 1 ELSE 0
          /\ main' = "terminate"
          /\ UNCHANGED <<stop, snapshot>>
    /\ UNCHANGED <<queueVars, workerVars, clientVars, registered, servers, valid>>

Interrupt ==
    /\ MayInterrupt
    /\ main \in {"start", "wait", "collect"}
    /\ Leave(130)
    /\ UNCHANGED <<queueVars, workerVars, clientVars, registered, servers, valid>>

(* Fault: only servers are terminated. *)
KillServers ==
    /\ main = "kill"
    /\ servers' = [w \in Workers |-> IF servers[w] = "up" THEN "dead" ELSE servers[w]]
    /\ main' = "shutdown"
    /\ UNCHANGED <<queueVars, workerVars, clientVars, registered, valid, stop, snapshot, rc>>

(* terminate_all copies the registry under its lock and, without it, kills *)
(* what it copied; SIGKILL follows SIGTERM, so every copy ends.            *)
Snapshot ==
    /\ main = "terminate"
    /\ snapshot' = registered
    /\ main' = "kill"
    /\ UNCHANGED <<queueVars, workerVars, clientVars, registered, servers, valid, stop, rc>>

Kill ==
    /\ main = "kill"
    /\ alive' = alive \ snapshot
    /\ servers' = [w \in Workers |-> IF servers[w] = "up" THEN "dead" ELSE servers[w]]
    /\ main' = "shutdown"
    /\ UNCHANGED <<queueVars, workerVars, exited0, registered, valid, stop, snapshot, rc>>

(* future.cancel catches a worker no thread has begun to run;              *)
(* shutdown(wait=True) waits for the others.                               *)
Cancel(w) ==
    /\ main = "shutdown"
    /\ pc[w] = "stagger"
    /\ Goto(w, "done")
    /\ UNCHANGED <<queueVars, held, streak, failed, clientVars, registered, servers, valid, mainVars>>

(* Fault: the summary alone decides the exit code. *)
SummarizeDecides ==
    /\ main = "shutdown"
    /\ \A w \in Workers : Gone(w) \/ pc[w] = "idle"
    /\ main' = "done"
    /\ rc' = IF valid = Jobs THEN 0 ELSE 1
    /\ UNCHANGED <<queueVars, workerVars, clientVars, registered, servers, valid, stop, snapshot>>

(* _summarize: jobs without a result spoil a return code of 0. *)
Summarize ==
    /\ main = "shutdown"
    /\ \A w \in Workers : Gone(w) \/ pc[w] = "idle"
    /\ main' = "done"
    /\ rc' = IF rc = 0 /\ valid # Jobs THEN 1 ELSE rc
    /\ UNCHANGED <<queueVars, workerVars, clientVars, registered, servers, valid, stop, snapshot>>

MainStep ==
    \/ \E w \in Workers : SpawnServer(w) \/ AddServer(w)
    \/ Submit \/ StartFails \/ Drained \/ AllRetired \/ Collect \/ Snapshot \/ Kill \/ Summarize

Next ==
    \/ MainStep \/ Interrupt
    \/ \E w \in Workers : WorkerStep(w) \/ Die(w) \/ ServerExits(w) \/ Cancel(w)
    \/ \E c \in alive : ClientWrites(c) \/ ClientExits(c)

Spec == Init /\ [][Next]_vars

(* Threads are scheduled, and main's waits are polls.  Nothing is assumed  *)
(* of the clients.                                                         *)
FairSpec ==
    /\ Spec
    /\ WF_vars(MainStep)
    /\ \A w \in Workers : WF_vars(WorkerStep(w))
-----------------------------------------------------------------------------
(* Every task counted, every worker, process and main in a known state; no *)
(* attempt beyond client_max_attempts.                                     *)
TypeOK ==
    /\ queue \in Seq(Task \cup {Sentinel}) /\ unfinished \in Nat
    /\ pc \in [Workers -> {"idle", "stagger", "pull", "got", "launch", "spawned", "watch",
                           "decide", "retry", "settle", "done", "dead"}]
    /\ held \in [Workers -> Task \cup {NoTask}]
    /\ \A w \in Workers :
          held[w] # NoTask <=> pc[w] \in {"got", "launch", "spawned", "watch", "decide",
                                         "retry", "settle"}
    /\ streak \in [Workers -> Nat] /\ failed \in [Workers -> SUBSET Jobs]
    /\ alive \cup exited0 \cup registered \cup snapshot \subseteq Task
    /\ servers \in [Workers -> {"none", "spawned", "up", "dead"}]
    /\ valid \subseteq Jobs
    /\ main \in {"start", "wait", "collect", "terminate", "kill", "shutdown", "done"}
    /\ stop \in BOOLEAN /\ rc \in {-1, 0, 1, 130}

(* Queue.join's count is that of the entries in the queue, sentinels       *)
(* included, and of the tasks that workers hold, on each of the worker's   *)
(* exits: it is zero neither while a task is queued or being worked on     *)
(* (main would send the sentinels too early) nor never (main would wait    *)
(* for ever).                                                              *)
Accounting == unfinished = Len(queue) + Cardinality(Holding)

(* Once main has seen the queue drain, every job has a result or was       *)
(* reported failed, through whatever requeues and cool-downs; a worker     *)
(* that died or a stop is the only way to lose one.                        *)
NothingForgotten ==
    (main \notin {"start", "wait"} /\ ~stop /\ \A w \in Workers : pc[w] # "dead") =>
        \A j \in Jobs : j \in valid \/ \E w \in Workers : j \in failed[w]

(* Two clients never work on one job (and in its run directory) at once.   *)
(* Not claimed when prints raise: that fails an attempt whose client runs. *)
ExclusiveRun == ~PrintsFail => \A c, d \in alive : c.job = d.job => c = d

(* No client is started for a job that has a valid result, written by      *)
(* whichever attempt.                                                      *)
NoRework == [][~PrintsFail => \A c \in alive' \ alive : c.job \notin valid]_vars

(* Exit code 0 means: every job has its result, none was given up, and no  *)
(* process the scheduler started still runs.                               *)
HonestExit ==
    (main = "done" /\ rc = 0) =>
        /\ valid = Jobs /\ alive = {}
        /\ \A w \in Workers : failed[w] = {} /\ servers[w] \in {"none", "dead"}

(* "Track only subprocesses created by this scheduler for scoped cleanup": *)
(* when main returns, no client and no server it started still runs.       *)
NoOrphans ==
    main = "done" => alive = {} /\ \A w \in Workers : servers[w] \in {"none", "dead"}

(* When every client exits sooner or later the scheduler returns, whatever *)
(* attempts fail and workers die: no requeue, cool-down or lost sentinel   *)
(* keeps it waiting.                                                       *)
Terminates == (\A c \in Task : []<>(c \notin alive)) => <>(main = "done")

(* "Terminate first: shutdown(wait=True) otherwise waits for long-running  *)
(* simulator subprocesses": once main leaves its try block it returns,     *)
(* even if no client would ever exit by itself.                            *)
PromptStop == main = "terminate" ~> main = "done"
=============================================================================
