----------------------- MODULE DynamicSchedulerProofs -----------------------
(***************************************************************************)
(* DynamicScheduler for every number of jobs, workers and attempts: the    *)
(* inductive invariant, and the safety properties the runs check.          *)
(***************************************************************************)
EXTENDS DynamicScheduler, FiniteSetTheorems, SequenceTheorems, TLAPS

(* A task circulates while it is queued or a worker may still run it.  A   *)
(* worker in "settle" has requeued its task or given it up.                *)
Active == {"got", "launch", "spawned", "watch", "decide", "retry"}

Circulates(j) ==
    \/ \E i \in DOMAIN queue : queue[i].job = j
    \/ \E w \in Workers : pc[w] \in Active /\ held[w].job = j

(* Main has left its try block; OnlySentinels: it saw the queue drain. *)
Left == main \in {"terminate", "kill", "shutdown", "done"}
OnlySentinels == \A i \in DOMAIN queue : queue[i] = Sentinel
-----------------------------------------------------------------------------
(* A job circulates once: it is queued once, or one worker has it, never   *)
(* both.  A task that waits for its retry has an attempt left.             *)
TokenInv ==
    /\ \A i, k \in DOMAIN queue :
          queue[i].job = queue[k].job /\ queue[i] # Sentinel => i = k
    /\ \A v, w \in Workers :
          pc[v] \in Active /\ pc[w] \in Active /\ held[v].job = held[w].job => v = w
    /\ \A w \in Workers, i \in DOMAIN queue :
          pc[w] \in Active => held[w].job # queue[i].job
    /\ \A w \in Workers : pc[w] = "retry" => held[w].attempt < MaxAttempts

(* A client that runs is in the registry or about to be.  Unless prints    *)
(* raise, the worker that started it watches it, or it was abandoned by a  *)
(* stop and its job no longer circulates.                                  *)
ClientInv ==
    /\ \A c \in alive :
          c \in registered \/ \E w \in Workers : pc[w] = "spawned" /\ held[w] = c
    /\ ~PrintsFail =>
          /\ \A c \in alive :
                \/ \E w \in Workers : pc[w] \in {"spawned", "watch"} /\ held[w] = c
                \/ stop /\ \E w \in Workers : pc[w] = "decide" /\ held[w] = c
                \/ stop /\ ~Circulates(c.job)
          /\ \A w \in Workers : pc[w] = "launch" => held[w].job \notin valid
    /\ ExclusiveRun

(* No job is lost while nobody stops the scheduler or kills a worker. *)
JobInv ==
    (~stop /\ \A w \in Workers : pc[w] # "dead") =>
        \A j \in Jobs : j \in valid \/ (\E w \in Workers : j \in failed[w]) \/ Circulates(j)

(* What main's place says about the workers, the servers and the clients.  *)
MainInv ==
    /\ main = "start" => \A w \in Workers : pc[w] = "idle"
    /\ ~Left => ~stop /\ rc = -1
    /\ Left => rc # -1
    /\ rc = 0 => ~stop /\ \A w \in Workers : failed[w] = {}
    /\ main \in {"wait", "collect"} \/ (Left /\ (~stop \/ ~MayInterrupt)) =>
          \A w \in Workers : servers[w] # "spawned"
    /\ main = "collect" \/ (Left /\ ~stop) => Holding = {} /\ OnlySentinels
    /\ Left /\ ~stop => \A w \in Workers : pc[w] = "done"
    /\ Left /\ ~MayInterrupt =>
          /\ Holding = {}
          /\ OnlySentinels \/ \A w \in Workers : pc[w] \in {"idle", "done", "dead"}
    /\ main = "kill" /\ (~stop \/ ~MayInterrupt) => alive \subseteq snapshot
    /\ main \in {"shutdown", "done"} =>
          /\ ~stop \/ ~MayInterrupt => alive = {}
          /\ \A w \in Workers : servers[w] # "up"
    /\ main = "done" /\ rc = 0 => valid = Jobs
    /\ ~Managed => \A w \in Workers : servers[w] = "none"

IInv == TypeOK /\ Accounting /\ TokenInv /\ ClientInv /\ JobInv /\ MainInv
-----------------------------------------------------------------------------
(* Tasks and sentinels differ. *)
LEMMA TaskFacts ==
    /\ NoTask \notin Task /\ Sentinel = NoTask
    /\ \A t \in Task : t.job \in Jobs /\ t.attempt \in Attempts /\ t.job # NoJob
    /\ NoTask.job = NoJob /\ NoJob \notin Jobs
    /\ Attempts \subseteq Nat
BY SchedulerAssumption DEF Task, NoTask, Sentinel, Attempts

(* The count of workers that hold a task, when one takes or drops one. *)
LEMMA HoldingCount ==
    ASSUME TypeOK, NEW w \in Workers, NEW t \in Task \cup {NoTask},
           held' = [held EXCEPT ![w] = t]
    PROVE  /\ Cardinality(Holding) \in Nat /\ Cardinality(Holding') \in Nat
           /\ held[w] = NoTask /\ t # NoTask => Cardinality(Holding') = Cardinality(Holding) + 1
           /\ held[w] # NoTask /\ t = NoTask => Cardinality(Holding') = Cardinality(Holding) - 1
           /\ held[w] = t => Holding' = Holding
<1>1. IsFiniteSet(Holding) /\ IsFiniteSet(Holding')
  BY FS_Subset, SchedulerAssumption DEF Holding
<1>2. held[w] = NoTask /\ t # NoTask => w \notin Holding /\ Holding' = Holding \cup {w}
  BY DEF Holding, TypeOK
<1>3. held[w] # NoTask /\ t = NoTask => w \in Holding /\ Holding' = Holding \ {w}
  BY DEF Holding, TypeOK
<1>4. held[w] = t => Holding' = Holding
  BY DEF Holding, TypeOK
<1>5. Cardinality(Holding) \in Nat /\ Cardinality(Holding') \in Nat
  BY <1>1, FS_CardinalityType
<1>6. QED
  BY <1>1, <1>2, <1>3, <1>4, <1>5, FS_AddElement, FS_RemoveElement

(* A task that is worked on or queued is one of those counted. *)
LEMMA CountFacts ==
    ASSUME TypeOK, Accounting
    PROVE  /\ Cardinality(Holding) \in Nat /\ Len(queue) \in Nat
           /\ queue # <<>> => unfinished > 0
           /\ \A w \in Workers : held[w] # NoTask => unfinished > 0
           /\ unfinished = 0 => queue = <<>> /\ Holding = {}
           /\ unfinished - Len(queue) = Cardinality(Holding)
<1>1. IsFiniteSet(Holding)
  BY FS_Subset, SchedulerAssumption DEF Holding
<1>2. Cardinality(Holding) \in Nat /\ (Cardinality(Holding) = 0 <=> Holding = {})
  BY <1>1, FS_CardinalityType, FS_EmptySet
<1>3. Len(queue) \in Nat /\ (queue # <<>> => Len(queue) > 0)
  BY DEF TypeOK
<1>4. \A w \in Workers : held[w] # NoTask => Holding # {}
  BY DEF Holding
<1>5. QED
  BY <1>2, <1>3, <1>4 DEF Accounting, TypeOK

LEMMA TypeInit == Init => TypeOK /\ Accounting
<1> SUFFICES ASSUME Init PROVE TypeOK /\ Accounting
  OBVIOUS
<1>1. Cardinality(Jobs) \in Nat
  BY FS_CardinalityType, SchedulerAssumption
<1>2. PICK order \in [1 .. Cardinality(Jobs) -> Jobs] :
         queue = [i \in DOMAIN order |-> [job |-> order[i], attempt |-> 1]]
  BY DEF Init
<1>3. \A i \in 1 .. Cardinality(Jobs) : [job |-> order[i], attempt |-> 1] \in Task
  BY <1>2, SchedulerAssumption DEF Task, Attempts
<1>4. queue \in Seq(Task \cup {Sentinel}) /\ Len(queue) = Cardinality(Jobs)
  BY <1>1, <1>2, <1>3
<1>5. Holding = {}
  BY DEF Init, Holding
<1>6. Cardinality(Holding) = 0
  BY <1>5, FS_EmptySet
<1>7. TypeOK
  BY <1>1, <1>4 DEF Init, TypeOK, Task, NoTask
<1>8. QED
  BY <1>1, <1>4, <1>6, <1>7 DEF Init, Accounting
-----------------------------------------------------------------------------
(* Types and the count, which are proved together: a worker that counts a  *)
(* task as done holds one, or has just taken a sentinel.                   *)
Labels == {"idle", "stagger", "pull", "got", "launch", "spawned", "watch", "decide", "retry",
           "settle", "done", "dead"}

(* What TaskDone does to types and count, for a worker with a task. *)
LEMMA TaskDoneStep ==
    ASSUME TypeOK, Accounting, NEW w \in Workers, held[w] # NoTask,
           NEW label \in {"pull", "done", "dead"}, TaskDone(w, label)
    PROVE  /\ pc' \in [Workers -> Labels] /\ held' \in [Workers -> Task \cup {NoTask}]
           /\ \A v \in Workers :
                 held'[v] # NoTask <=> pc'[v] \in {"got", "launch", "spawned", "watch", "decide",
                                                   "retry", "settle"}
           /\ unfinished' \in Nat /\ unfinished' = unfinished - 1
           /\ Cardinality(Holding') = Cardinality(Holding) - 1
           /\ Cardinality(Holding) \in Nat
<1>1. held' = [held EXCEPT ![w] = NoTask] /\ pc' = [pc EXCEPT ![w] = label]
  BY DEF TaskDone, Goto
<1>2. Cardinality(Holding') = Cardinality(Holding) - 1 /\ Cardinality(Holding) \in Nat
  BY <1>1, HoldingCount
<1>3. unfinished > 0 /\ unfinished' = unfinished - 1
  BY CountFacts DEF TaskDone
<1>4. QED
  BY <1>1, <1>2, <1>3 DEF TypeOK, Labels

(* A worker moves and keeps what it holds. *)
LEMMA MoveStep ==
    ASSUME TypeOK, Accounting, NEW w \in Workers, NEW label \in Labels, Goto(w, label),
           label \in {"got", "launch", "spawned", "watch", "decide", "retry", "settle"}
               <=> held[w] # NoTask,
           held' = held
    PROVE  /\ pc' \in [Workers -> Labels] /\ held' \in [Workers -> Task \cup {NoTask}]
           /\ \A v \in Workers :
                 held'[v] # NoTask <=> pc'[v] \in {"got", "launch", "spawned", "watch", "decide",
                                                   "retry", "settle"}
           /\ Holding' = Holding
BY DEF TypeOK, Goto, Holding, Labels

LEMMA TypeStep ==
    ASSUME TypeOK, Accounting, TokenInv, MainInv, Next
    PROVE  TypeOK' /\ Accounting'
<1> USE DEF Labels
<1>0. /\ Cardinality(Holding) \in Nat /\ Len(queue) \in Nat /\ unfinished \in Nat
      /\ unfinished = Len(queue) + Cardinality(Holding)
  BY CountFacts DEF Accounting, TypeOK
<1>1. ASSUME NEW w \in Workers, Stagger(w)
      PROVE  TypeOK' /\ Accounting'
  <2>1. \E label \in {"pull", "done"} : Goto(w, label)
    BY <1>1 DEF Stagger
  <2>2. held' = held /\ held[w] = NoTask
    BY <1>1 DEF Stagger, TypeOK
  <2>3. QED
    BY <1>0, <1>1, <2>1, <2>2, MoveStep
       DEF Stagger, TypeOK, Accounting, queueVars, clientVars, mainVars
<1>2. ASSUME NEW w \in Workers, Pull(w)
      PROVE  TypeOK' /\ Accounting'
  <2>0. pc[w] = "pull" /\ held[w] = NoTask
    BY <1>2 DEF Pull, TypeOK
  <2>1. CASE stop /\ Goto(w, "done") /\ UNCHANGED <<queueVars, held>>
    BY <1>0, <1>2, <2>0, <2>1, MoveStep
       DEF Pull, TypeOK, Accounting, queueVars, clientVars, mainVars
  <2>2. ASSUME queue # <<>>, queue' = Tail(queue)
        PROVE  /\ queue' \in Seq(Task \cup {Sentinel}) /\ Len(queue') = Len(queue) - 1
               /\ Head(queue) \in Task \cup {Sentinel} /\ unfinished > 0
    BY <2>2, CountFacts DEF TypeOK
  <2>3. CASE /\ queue # <<>> /\ queue' = Tail(queue)
             /\ Head(queue) = Sentinel /\ TaskDone(w, "done")
    <3>1. held' = held
      BY <2>0, <2>3 DEF TaskDone, TypeOK
    <3>2. Goto(w, "done") /\ unfinished' = unfinished - 1
      BY <2>3 DEF TaskDone
    <3>3. Holding' = Holding /\ unfinished' \in Nat
      BY <1>0, <2>0, <2>2, <2>3, <3>1, <3>2, MoveStep
    <3>4. QED
      BY <1>0, <1>2, <2>0, <2>2, <2>3, <3>1, <3>2, <3>3, MoveStep
         DEF Pull, TypeOK, Accounting, clientVars, mainVars
  <2>4. CASE /\ queue # <<>> /\ queue' = Tail(queue)
             /\ Head(queue) # Sentinel /\ held' = [held EXCEPT ![w] = Head(queue)]
             /\ Goto(w, "got") /\ UNCHANGED unfinished
    <3>1. Head(queue) \in Task /\ Head(queue) # NoTask
      BY <2>2, <2>4, TaskFacts
    <3>2. Cardinality(Holding') = Cardinality(Holding) + 1
      BY <2>0, <2>4, <3>1, HoldingCount
    <3>3. QED
      BY <1>0, <1>2, <2>2, <2>4, <3>1, <3>2
         DEF Pull, TypeOK, Accounting, Goto, clientVars, mainVars
  <2>5. QED
    BY <1>2, <2>1, <2>3, <2>4 DEF Pull, queueVars
<1>3. ASSUME NEW w \in Workers, Check(w)
      PROVE  TypeOK' /\ Accounting'
  <2>0. held[w] # NoTask /\ held[w].job \in Jobs
    BY <1>3, TaskFacts DEF Check, TypeOK
  <2>1. failed' \in [Workers -> SUBSET Jobs]
    BY <1>3, <2>0 DEF Check, GiveUp, TypeOK
  <2>2. streak' \in [Workers -> Nat]
    BY <1>3 DEF Check, AttemptFails, TypeOK
  <2>3. CASE TaskDone(w, "pull")
    BY <1>0, <1>3, <2>0, <2>1, <2>2, <2>3, TaskDoneStep, SMTT(30)
       DEF Check, TypeOK, Accounting, clientVars, mainVars
  <2>4. CASE \E label \in {"decide", "launch"} : Goto(w, label) /\ UNCHANGED <<held, unfinished>>
    BY <1>0, <1>3, <2>0, <2>1, <2>2, <2>4, MoveStep
       DEF Check, TypeOK, Accounting, clientVars, mainVars
  <2>5. QED
    BY <1>3, <2>3, <2>4 DEF Check, AttemptFails
<1>4. ASSUME NEW w \in Workers, Launch(w)
      PROVE  TypeOK' /\ Accounting'
  <2>0. held[w] # NoTask /\ held[w] \in Task
    BY <1>4 DEF Launch, TypeOK
  <2>1. streak' \in [Workers -> Nat] /\ alive' \subseteq Task
    BY <1>4, <2>0 DEF Launch, AttemptFails, TypeOK
  <2>2. \E label \in {"decide", "spawned"} : Goto(w, label) /\ UNCHANGED <<held, unfinished>>
    BY <1>4 DEF Launch, AttemptFails
  <2>3. QED
    BY <1>0, <1>4, <2>0, <2>1, <2>2, MoveStep DEF Launch, TypeOK, Accounting, mainVars
<1>5. ASSUME NEW w \in Workers, Register(w)
      PROVE  TypeOK' /\ Accounting'
  <2>0. held[w] # NoTask /\ held[w] \in Task
    BY <1>5 DEF Register, TypeOK
  <2>1. QED
    BY <1>0, <1>5, <2>0, MoveStep
       DEF Register, TypeOK, Accounting, queueVars, clientVars, mainVars
<1>6. ASSUME NEW w \in Workers, Observe(w)
      PROVE  TypeOK' /\ Accounting'
  <2>0. held[w] # NoTask
    BY <1>6 DEF Observe, TypeOK
  <2>1. streak' \in [Workers -> Nat] /\ exited0' \subseteq Task
    <3>1. exited0 \subseteq Task /\ exited0' = exited0 \ {held[w]}
      BY <1>6 DEF Observe, TypeOK
    <3>2. streak' = [streak EXCEPT ![w] = 0] \/ streak' = [streak EXCEPT ![w] = @ + 1]
      BY <1>6 DEF Observe, AttemptFails
    <3>3. QED
      BY <3>1, <3>2 DEF TypeOK
  <2>2. CASE TaskDone(w, "pull")
    BY <1>0, <1>6, <2>0, <2>1, <2>2, TaskDoneStep DEF Observe, TypeOK, Accounting, mainVars
  <2>3. CASE Goto(w, "decide") /\ UNCHANGED <<held, unfinished>>
    BY <1>0, <1>6, <2>0, <2>1, <2>3, MoveStep DEF Observe, TypeOK, Accounting, mainVars
  <2>4. QED
    BY <1>6, <2>2, <2>3 DEF Observe, AttemptFails
<1>7. ASSUME NEW w \in Workers, Decide(w)
      PROVE  TypeOK' /\ Accounting'
  <2>0. held[w] # NoTask /\ held[w].job \in Jobs
    BY <1>7, TaskFacts DEF Decide, TypeOK
  <2>1. failed' \in [Workers -> SUBSET Jobs]
    BY <1>7, <2>0 DEF Decide, GiveUp, TypeOK
  <2>2. CASE TaskDone(w, "pull")
    <3>1. UNCHANGED <<queue, streak, clientVars, registered, servers, valid, mainVars>>
      BY <1>7 DEF Decide
    <3>2. QED
      BY <1>0, <2>0, <2>1, <2>2, <3>1, TaskDoneStep DEF TypeOK, Accounting, clientVars, mainVars
  <2>3. CASE \E label \in {"settle", "retry"} : Goto(w, label) /\ UNCHANGED <<held, unfinished>>
    BY <1>0, <1>7, <2>0, <2>1, <2>3, MoveStep
       DEF Decide, TypeOK, Accounting, clientVars, mainVars
  <2>4. QED
    BY <1>7, <2>2, <2>3 DEF Decide
<1>8. ASSUME NEW w \in Workers, Retry(w)
      PROVE  TypeOK' /\ Accounting'
  <2>0. held[w] # NoTask /\ held[w] \in Task /\ held[w].job \in Jobs
    BY <1>8, TaskFacts DEF Retry, TypeOK
  <2>1. CASE GiveUp(w) /\ TaskDone(w, "pull") /\ UNCHANGED queue
    <3>1. failed' \in [Workers -> SUBSET Jobs]
      BY <2>0, <2>1 DEF GiveUp, TypeOK
    <3>2. QED
      BY <1>0, <1>8, <2>0, <2>1, <3>1, TaskDoneStep
         DEF Retry, TypeOK, Accounting, clientVars, mainVars
  <2>2. CASE /\ queue' = Append(queue, [held[w] EXCEPT !.attempt = @ + 1])
             /\ unfinished' = unfinished + 1 /\ Goto(w, "settle") /\ UNCHANGED <<held, failed>>
    <3>1. [held[w] EXCEPT !.attempt = @ + 1] \in Task
      BY <1>8, <2>0, SchedulerAssumption DEF Retry, TokenInv, Task, Attempts
    <3>2. queue' \in Seq(Task \cup {Sentinel}) /\ Len(queue') = Len(queue) + 1
      BY <2>2, <3>1 DEF TypeOK
    <3>3. QED
      BY <1>0, <1>8, <2>0, <2>2, <3>2, MoveStep
         DEF Retry, TypeOK, Accounting, clientVars, mainVars
  <2>3. QED
    BY <1>8, <2>1, <2>2 DEF Retry
<1>9. ASSUME NEW w \in Workers, Settle(w) \/ Die(w)
      PROVE  TypeOK' /\ Accounting'
  <2>0. held[w] # NoTask
    BY <1>9 DEF Settle, Die, TypeOK
  <2>1. streak' \in [Workers -> Nat] /\ \E label \in {"pull", "done", "dead"} : TaskDone(w, label)
    BY <1>9 DEF Settle, Die, TypeOK
  <2>2. QED
    BY <1>0, <1>9, <2>0, <2>1, TaskDoneStep
       DEF Settle, Die, TypeOK, Accounting, clientVars, mainVars
<1>10. ASSUME NEW c \in alive, ClientWrites(c) \/ ClientExits(c)
       PROVE  TypeOK' /\ Accounting'
  <2>1. c \in Task /\ c.job \in Jobs
    BY TaskFacts DEF TypeOK
  <2>2. Holding' = Holding
    BY <1>10 DEF ClientWrites, ClientExits, workerVars, Holding
  <2>3. QED
    BY <1>10, <2>1, <2>2
       DEF ClientWrites, ClientExits, TypeOK, Accounting, queueVars, workerVars, clientVars,
           mainVars
<1>11. ASSUME NEW w \in Workers, SpawnServer(w) \/ AddServer(w) \/ ServerExits(w)
       PROVE  TypeOK' /\ Accounting'
  <2>2. Holding' = Holding
    BY <1>11 DEF SpawnServer, AddServer, ServerExits, workerVars, Holding
  <2>3. servers' \in [Workers -> {"none", "spawned", "up", "dead"}]
    <3>1. \E state \in {"spawned", "up", "dead"} : servers' = [servers EXCEPT ![w] = state]
      BY <1>11 DEF SpawnServer, AddServer, ServerExits
    <3>2. QED
      BY <3>1 DEF TypeOK
  <2>4. UNCHANGED <<queueVars, workerVars, clientVars, registered, valid, mainVars>>
    BY <1>11 DEF SpawnServer, AddServer, ServerExits
  <2>5. QED
    BY <2>2, <2>3, <2>4 DEF TypeOK, Accounting, queueVars, workerVars, clientVars, mainVars
<1>12. ASSUME Submit
       PROVE  TypeOK' /\ Accounting'
  <2>1. \A w \in Workers : held[w] = NoTask
    BY <1>12 DEF Submit, TypeOK, MainInv
  <2>2. Holding' = Holding
    BY <1>12 DEF Submit, Holding
  <2>3. QED
    BY <1>12, <2>1, <2>2 DEF Submit, TypeOK, Accounting, queueVars, clientVars
<1>13. ASSUME NEW w \in Workers, Cancel(w)
       PROVE  TypeOK' /\ Accounting'
  <2>1. held[w] = NoTask
    BY <1>13 DEF Cancel, TypeOK
  <2>2. QED
    BY <1>0, <1>13, <2>1, MoveStep
       DEF Cancel, TypeOK, Accounting, queueVars, clientVars, mainVars
<1>14. ASSUME Drained
       PROVE  TypeOK' /\ Accounting'
  <2>1. Cardinality(Workers) \in Nat
    BY FS_CardinalityType, SchedulerAssumption
  <2>2. /\ [i \in 1 .. Cardinality(Workers) |-> Sentinel] \in Seq(Task \cup {Sentinel})
        /\ Len([i \in 1 .. Cardinality(Workers) |-> Sentinel]) = Cardinality(Workers)
    BY <2>1
  <2>3. /\ queue' \in Seq(Task \cup {Sentinel})
        /\ Len(queue') = Len(queue) + Cardinality(Workers)
    <3>1. queue \in Seq(Task \cup {Sentinel})
      BY DEF TypeOK
    <3>2. queue' = queue \o [i \in 1 .. Cardinality(Workers) |-> Sentinel]
      BY <1>14 DEF Drained
    <3>3. QED
      BY <2>2, <3>1, <3>2, ConcatProperties
  <2>4. Holding' = Holding
    BY <1>14 DEF Drained, workerVars, Holding
  <2>5. QED
    BY <1>0, <1>14, <2>1, <2>3, <2>4
       DEF Drained, TypeOK, Accounting, workerVars, clientVars
<1>15. ASSUME AllRetired
       PROVE  TypeOK' /\ Accounting'
  <2>1. Holding' = Holding
    BY <1>15 DEF AllRetired, workerVars, Holding
  <2>2. queue' = <<>> /\ Len(queue') = 0 /\ queue' \in Seq(Task \cup {Sentinel})
    BY <1>15 DEF AllRetired
  <2>3. unfinished' = Cardinality(Holding) /\ unfinished' \in Nat
    BY <1>0, <1>15 DEF AllRetired
  <2>4. Accounting'
    BY <1>0, <2>1, <2>2, <2>3 DEF Accounting
  <2>5. QED
    BY <1>15, <2>2, <2>3, <2>4 DEF AllRetired, Leave, TypeOK, workerVars, clientVars
<1>16. ASSUME StartFails \/ Collect \/ Interrupt \/ Snapshot \/ Kill \/ Summarize
       PROVE  TypeOK' /\ Accounting'
  <2>1. Holding' = Holding /\ UNCHANGED <<queueVars, workerVars, exited0, registered, valid>>
    BY <1>16
       DEF StartFails, Collect, Interrupt, Snapshot, Kill, Summarize, workerVars, clientVars, Holding
  <2>2. /\ main' \in {"terminate", "kill", "shutdown", "done"}
        /\ stop' \in BOOLEAN /\ rc' \in {-1, 0, 1, 130}
    BY <1>16
       DEF StartFails, Collect, Interrupt, Snapshot, Kill, Summarize, Leave, TypeOK
  <2>3. alive' \subseteq Task /\ snapshot' \subseteq Task
    BY <1>16, ZenonT(30)
       DEF StartFails, Collect, Interrupt, Snapshot, Kill, Summarize, Leave, TypeOK, clientVars
  <2>4. servers' \in [Workers -> {"none", "spawned", "up", "dead"}]
    BY <1>16
       DEF StartFails, Collect, Interrupt, Snapshot, Kill, Summarize, TypeOK
  <2>5. QED
    BY <2>1, <2>2, <2>3, <2>4 DEF TypeOK, Accounting, queueVars, workerVars
<1>17. QED
  BY <1>1, <1>2, <1>3, <1>4, <1>5, <1>6, <1>7, <1>8, <1>9, <1>10, <1>11, <1>12, <1>13, <1>14,
     <1>15, <1>16 DEF Next, MainStep, WorkerStep
-----------------------------------------------------------------------------
(* Jobs circulate once. *)
LEMMA TokenKeep ==
    ASSUME TokenInv, queue' = queue,
           \A v \in Workers : pc'[v] \in Active => pc[v] \in Active /\ held'[v] = held[v],
           \A v \in Workers : pc'[v] = "retry" => held'[v].attempt < MaxAttempts
    PROVE  TokenInv'
BY DEF TokenInv

(* A step of one worker that does not touch the queue and takes no task. *)
LEMMA TokenMove ==
    ASSUME TypeOK, TokenInv, NEW w \in Workers, NEW label \in Labels, queue' = queue,
           pc' = [pc EXCEPT ![w] = label],
           label \in Active => pc[w] \in Active,
           label = "retry" => held[w].attempt < MaxAttempts,
           held' = held \/ (label \notin Active /\ held' = [held EXCEPT ![w] = NoTask])
    PROVE  TokenInv'
<1>1. \A v \in Workers : pc'[v] \in Active => pc[v] \in Active /\ held'[v] = held[v]
  BY DEF TypeOK
<1>2. \A v \in Workers : pc'[v] = "retry" => held'[v].attempt < MaxAttempts
  BY DEF TypeOK, TokenInv, Active
<1>3. QED
  BY <1>1, <1>2, TokenKeep

LEMMA TokenStep ==
    ASSUME TypeOK, TokenInv, MainInv, Next
    PROVE  TokenInv'
<1>1. ASSUME NEW w \in Workers, NEW label \in {"pull", "done", "dead"}, TaskDone(w, label),
             queue' = queue
      PROVE  TokenInv'
  BY <1>1, TokenMove DEF TaskDone, Goto, Active, Labels
<1>2. ASSUME NEW w \in Workers, NEW label \in Labels, Goto(w, label), held' = held, queue' = queue,
             label \in Active => pc[w] \in Active,
             label = "retry" => held[w].attempt < MaxAttempts
      PROVE  TokenInv'
  <2>1. pc' = [pc EXCEPT ![w] = label]
    BY <1>2 DEF Goto
  <2>2. held' = held \/ (label \notin Active /\ held' = [held EXCEPT ![w] = NoTask])
    BY <1>2
  <2>3. label \in Active => pc[w] \in Active
    BY <1>2
  <2>4. label = "retry" => held[w].attempt < MaxAttempts
    BY <1>2
  <2>5. queue' = queue
    BY <1>2
  <2>6. QED
    BY <2>1, <2>2, <2>3, <2>4, <2>5, TokenMove, Zenon
<1>3. ASSUME NEW w \in Workers, Pull(w)
      PROVE  TokenInv'
  <2>1. CASE Goto(w, "done") /\ UNCHANGED <<queueVars, held>>
    BY <1>2, <2>1 DEF queueVars, Active, Labels
  <2>2. CASE queue # <<>> /\ queue' = Tail(queue)
    <3>1. /\ Head(queue) = queue[1] /\ 1 \in DOMAIN queue
          /\ \A i \in DOMAIN queue' : i + 1 \in DOMAIN queue /\ i + 1 # 1 /\ i \in Nat
                                      /\ queue'[i] = queue[i + 1]
      BY <2>2 DEF TypeOK
    <3>2. CASE TaskDone(w, "done")
      <4>1. \A v \in Workers : pc'[v] \in Active => pc[v] \in Active /\ held'[v] = held[v]
        BY <3>2 DEF TaskDone, Goto, TypeOK, Active
      <4>2. \A v \in Workers : pc'[v] = "retry" => held'[v].attempt < MaxAttempts
        BY <3>2 DEF TaskDone, Goto, TypeOK, TokenInv, Active
      <4>3. QED
        BY <3>1, <4>1, <4>2 DEF TokenInv
    <3>3. CASE /\ Head(queue) # Sentinel /\ held' = [held EXCEPT ![w] = Head(queue)]
               /\ Goto(w, "got")
      <4>1. /\ pc'[w] = "got" /\ held'[w] = queue[1] /\ queue[1] # Sentinel
            /\ \A v \in Workers : v # w => pc'[v] = pc[v] /\ held'[v] = held[v]
        BY <3>1, <3>3 DEF Goto, TypeOK
      <4>2. QED
        BY <3>1, <4>1 DEF TokenInv
    <3>4. CASE Goto(w, "done") /\ UNCHANGED <<queueVars, held>>
      BY <2>1, <3>4
    <3>5. QED
      BY <1>3, <2>2, <3>2, <3>3, <3>4 DEF Pull
  <2>3. QED
    BY <1>3, <2>1, <2>2 DEF Pull
<1>4. ASSUME NEW w \in Workers, Retry(w)
      PROVE  TokenInv'
  <2>1. CASE TaskDone(w, "pull") /\ UNCHANGED queue
    BY <1>1, <2>1
  <2>2. CASE /\ queue' = Append(queue, [held[w] EXCEPT !.attempt = @ + 1])
             /\ Goto(w, "settle") /\ UNCHANGED held
    <3>1. /\ [held[w] EXCEPT !.attempt = @ + 1].job = held[w].job
          /\ held[w].job \in Jobs /\ held[w].job # Sentinel.job
      <4>1. held[w] \in Task
        BY <1>4 DEF Retry, TypeOK
      <4>2. QED
        BY <4>1, TaskFacts DEF Task
    <3>2. /\ \A i \in DOMAIN queue' : i \in DOMAIN queue \/ i = Len(queue) + 1
          /\ \A i \in DOMAIN queue : queue'[i] = queue[i] /\ i # Len(queue) + 1
          /\ queue'[Len(queue) + 1] = [held[w] EXCEPT !.attempt = @ + 1]
      <4>1. queue \in Seq(Task \cup {Sentinel})
        BY DEF TypeOK
      <4> DEFINE t == [held[w] EXCEPT !.attempt = @ + 1]
      <4>2. queue' = Append(queue, t)
        BY <2>2
      <4> HIDE DEF t
      <4>3. /\ \A i \in DOMAIN queue' : i \in DOMAIN queue \/ i = Len(queue) + 1
            /\ \A i \in DOMAIN queue : queue'[i] = queue[i] /\ i # Len(queue) + 1
            /\ queue'[Len(queue) + 1] = t
        BY <4>1, <4>2
      <4>4. QED
        BY <4>3 DEF t
    <3>3. /\ pc[w] \in Active /\ pc'[w] \notin Active
          /\ \A v \in Workers : v # w => pc'[v] = pc[v]
      BY <1>4, <2>2 DEF Retry, Goto, TypeOK, Active
    <3>4. \A i \in DOMAIN queue : queue[i].job # held[w].job
      BY <3>3 DEF TokenInv
    <3>5. \A i, k \in DOMAIN queue' :
             queue'[i].job = queue'[k].job /\ queue'[i] # Sentinel => i = k
      BY <3>1, <3>2, <3>4, ZenonT(30) DEF TokenInv
    <3>6. \A v \in Workers, i \in DOMAIN queue' :
             pc'[v] \in Active => held[v].job # queue'[i].job
      <4>1. SUFFICES ASSUME NEW v \in Workers, NEW i \in DOMAIN queue', pc'[v] \in Active
                     PROVE  held[v].job # queue'[i].job
        OBVIOUS
      <4>2. v # w /\ pc[v] \in Active
        BY <3>3, <4>1
      <4>3. held[v].job # held[w].job
        BY <3>3, <4>2 DEF TokenInv
      <4>4. CASE i \in DOMAIN queue
        BY <3>2, <4>2, <4>4 DEF TokenInv
      <4>5. CASE i = Len(queue) + 1
        BY <3>1, <3>2, <4>3, <4>5
      <4>6. QED
        BY <3>2, <4>1, <4>4, <4>5
    <3>7. QED
      BY <2>2, <3>3, <3>5, <3>6 DEF TokenInv, Active
  <2>3. QED
    BY <1>4, <2>1, <2>2 DEF Retry
<1>5. ASSUME NEW w \in Workers,
             Stagger(w) \/ Check(w) \/ Launch(w) \/ Register(w) \/ Observe(w) \/ Cancel(w)
      PROVE  TokenInv'
  <2>1. /\ queue' = queue /\ pc[w] # "retry"
        /\ \/ TaskDone(w, "pull")
           \/ \E label \in Labels : /\ Goto(w, label) /\ held' = held /\ label # "retry"
                                    /\ label \in Active => pc[w] \in Active
    BY <1>5 DEF Stagger, Check, Launch, Register, Observe, Cancel, AttemptFails, queueVars, Active,
                Labels
  <2>2. QED
    BY <1>1, <1>2, <2>1
<1>6. ASSUME NEW w \in Workers, Decide(w)
      PROVE  TokenInv'
  BY <1>1, <1>2, <1>6 DEF Decide, Active, Labels
<1>7. ASSUME NEW w \in Workers, Settle(w) \/ Die(w)
      PROVE  TokenInv'
  BY <1>1, <1>7 DEF Settle, Die
<1>8. ASSUME Drained
      PROVE  TokenInv'
  <2>1. Cardinality(Workers) \in Nat
    BY FS_CardinalityType, SchedulerAssumption
  <2> DEFINE pills == [i \in 1 .. Cardinality(Workers) |-> Sentinel]
  <2>2. /\ queue \in Seq(Task \cup {Sentinel}) /\ pills \in Seq(Task \cup {Sentinel})
        /\ queue' = queue \o pills /\ Len(pills) = Cardinality(Workers)
    BY <1>8, <2>1 DEF TypeOK, Drained
  <2>3. \A i \in DOMAIN queue' : \/ i \in DOMAIN queue /\ queue'[i] = queue[i]
                                 \/ queue'[i] = Sentinel
    BY <2>1, <2>2
  <2>4. \A v \in Workers : pc[v] \in Active => held[v].job # Sentinel.job
    <3>1. \A v \in Workers : pc[v] \in Active => held[v] \in Task
      BY DEF TypeOK, Active
    <3>2. QED
      BY <3>1, TaskFacts
  <2>5. \A i \in DOMAIN queue : queue[i] # Sentinel => queue[i].job # Sentinel.job
    <3>1. \A i \in DOMAIN queue : queue[i] \in Task \cup {Sentinel}
      BY <2>2
    <3>2. QED
      BY <3>1, TaskFacts
  <2>6. pc' = pc /\ held' = held
    BY <1>8 DEF Drained, workerVars
  <2>7. \A i, k \in DOMAIN queue' :
           queue'[i].job = queue'[k].job /\ queue'[i] # Sentinel => i = k
    BY <2>3, <2>5 DEF TokenInv
  <2>8. QED
    BY <2>3, <2>4, <2>6, <2>7 DEF TokenInv
<1>9. ASSUME AllRetired
      PROVE  TokenInv'
  BY <1>9 DEF AllRetired, workerVars, TokenInv
<1>10. ASSUME Submit
       PROVE  TokenInv'
  <2>1. queue' = queue /\ \A v \in Workers : pc'[v] = "stagger"
    BY <1>10 DEF Submit, queueVars
  <2>2. QED
    BY <2>1 DEF TokenInv, Active
<1>11. ASSUME UNCHANGED <<queue, pc, held>>
       PROVE  TokenInv'
  BY <1>11, TokenKeep DEF TokenInv
<1>12. ASSUME \/ StartFails \/ Collect \/ Interrupt \/ Snapshot \/ Kill \/ Summarize
              \/ \E w \in Workers : SpawnServer(w) \/ AddServer(w) \/ ServerExits(w)
              \/ \E c \in alive : ClientWrites(c) \/ ClientExits(c)
       PROVE  TokenInv'
  BY <1>11, <1>12 DEF StartFails, Collect, Interrupt, Snapshot, Kill, Summarize, SpawnServer,
     AddServer, ServerExits, ClientWrites, ClientExits, queueVars, workerVars
<1>13. QED
  BY <1>3, <1>4, <1>5, <1>6, <1>7, <1>8, <1>9, <1>10, <1>12 DEF Next, MainStep, WorkerStep
-----------------------------------------------------------------------------
(* What happens to a job that circulates, as one worker moves. *)
LEMMA CirculatesMove ==
    ASSUME TypeOK, NEW w \in Workers, NEW j \in Jobs, queue' = queue,
           \A v \in Workers : v # w => pc'[v] = pc[v] /\ held'[v] = held[v],
           pc'[w] \in Active => pc[w] \in Active /\ held'[w] = held[w]
    PROVE  /\ Circulates(j)' => Circulates(j)
           /\ Circulates(j) => Circulates(j)' \/ (held[w].job = j /\ pc'[w] \notin Active)
<1>1. Circulates(j)' => Circulates(j)
  BY DEF Circulates
<1>2. ASSUME Circulates(j)
      PROVE  Circulates(j)' \/ (held[w].job = j /\ pc'[w] \notin Active)
  <2>1. CASE \E i \in DOMAIN queue : queue[i].job = j
    BY <2>1 DEF Circulates
  <2>2. CASE \E v \in Workers : pc[v] \in Active /\ held[v].job = j
    <3>1. PICK v \in Workers : pc[v] \in Active /\ held[v].job = j
      BY <2>2
    <3>2. CASE v # w
      BY <3>1, <3>2 DEF Circulates
    <3>3. CASE v = w
      BY <3>1, <3>3 DEF Circulates
    <3>4. QED
      BY <3>2, <3>3
  <2>3. QED
    BY <1>2, <2>1, <2>2 DEF Circulates
<1>3. QED
  BY <1>1, <1>2

(* A job leaves circulation with the worker that drops it. *)
LEMMA Dropped ==
    ASSUME TypeOK, TokenInv, NEW w \in Workers, pc[w] \in Active, queue' = queue,
           \A v \in Workers : v # w => pc'[v] = pc[v] /\ held'[v] = held[v],
           pc'[w] \notin Active, NEW j, j = held[w].job
    PROVE  ~Circulates(j)'
<1>1. \A i \in DOMAIN queue' : queue'[i].job # j
  BY DEF TokenInv
<1>2. \A v \in Workers : pc'[v] \in Active => held'[v].job # j
  BY DEF TokenInv
<1>3. QED
  BY <1>1, <1>2 DEF Circulates

(* A job circulates only if it did; and it stops when its result is there, *)
(* when its worker gives it up or dies, or with the scheduler.             *)
LEMMA CirculatesStep ==
    ASSUME TypeOK, TokenInv, MainInv, Next, NEW j \in Jobs
    PROVE  /\ Circulates(j)' => Circulates(j)
           /\ Circulates(j) => \/ Circulates(j)' \/ stop \/ stop' \/ j \in valid
                               \/ \E w \in Workers : j \in failed'[w] \/ pc'[w] = "dead"
<1> DEFINE Goal ==
      /\ Circulates(j)' => Circulates(j)
      /\ Circulates(j) => \/ Circulates(j)' \/ stop \/ stop' \/ j \in valid
                          \/ \E w \in Workers : j \in failed'[w] \/ pc'[w] = "dead"
<1>1. ASSUME NEW w \in Workers, NEW label \in Labels, queue' = queue,
             (TaskDone(w, label) /\ label \notin Active) \/ (Goto(w, label) /\ held' = held),
             label \in Active => pc[w] \in Active,
             label \notin Active /\ pc[w] \in Active =>
                stop \/ held[w].job \in valid \cup failed'[w] \/ label = "dead"
      PROVE  Goal
  <2>1. /\ \A v \in Workers : v # w => pc'[v] = pc[v] /\ held'[v] = held[v]
        /\ pc'[w] = label
    BY <1>1 DEF TaskDone, Goto, TypeOK
  <2>2. pc'[w] \in Active => pc[w] \in Active /\ held'[w] = held[w]
    BY <1>1, <2>1 DEF TaskDone, TypeOK, Active
  <2>3. CASE pc[w] \in Active
    BY <1>1, <2>1, <2>2, <2>3, CirculatesMove
  <2>4. CASE pc[w] \notin Active
    BY <1>1, <2>1, <2>2, <2>4 DEF Circulates
  <2>5. QED
    BY <2>3, <2>4
<1>2. ASSUME NEW w \in Workers, Pull(w)
      PROVE  Goal
  <2>1. CASE Goto(w, "done") /\ UNCHANGED <<queueVars, held>>
    <3>1. pc[w] \notin Active /\ "done" \in Labels /\ "done" \notin Active /\ queue' = queue
      BY <1>2, <2>1 DEF Pull, queueVars, Labels, Active
    <3>2. QED
      BY <1>1, <2>1, <3>1
  <2>2. CASE queue # <<>> /\ queue' = Tail(queue)
    <3>1. /\ Head(queue) = queue[1] /\ 1 \in DOMAIN queue
          /\ \A i \in DOMAIN queue' : i + 1 \in DOMAIN queue /\ queue'[i] = queue[i + 1]
          /\ \A i \in DOMAIN queue : i = 1 \/ (i - 1 \in DOMAIN queue' /\ queue'[i - 1] = queue[i])
      BY <2>2 DEF TypeOK
    <3>2. pc[w] \notin Active
      BY <1>2 DEF Pull, Active
    <3>3. CASE Head(queue) = Sentinel /\ TaskDone(w, "done")
      <4>1. /\ \A v \in Workers : v # w => pc'[v] = pc[v] /\ held'[v] = held[v]
            /\ pc'[w] \notin Active
        BY <3>3 DEF TaskDone, Goto, TypeOK, Active
      <4>2. queue[1].job # j
        BY <3>1, <3>3, TaskFacts
      <4>3. Circulates(j)' => Circulates(j)
        BY <3>1, <4>1 DEF Circulates
      <4>4. (\E i \in DOMAIN queue : queue[i].job = j) => \E i \in DOMAIN queue' : queue'[i].job = j
        BY <3>1, <4>2
      <4>5. Circulates(j) => Circulates(j)'
        BY <3>2, <4>1, <4>4 DEF Circulates
      <4>6. QED
        BY <4>3, <4>5
    <3>4. CASE held' = [held EXCEPT ![w] = Head(queue)] /\ Goto(w, "got")
      <4>1. /\ \A v \in Workers : v # w => pc'[v] = pc[v] /\ held'[v] = held[v]
            /\ pc'[w] \in Active /\ held'[w] = queue[1]
        BY <3>1, <3>4 DEF Goto, TypeOK, Active
      <4>2. Circulates(j)' => Circulates(j)
        BY <3>1, <4>1 DEF Circulates
      <4>3. (\E i \in DOMAIN queue : queue[i].job = j) =>
               held'[w].job = j \/ \E i \in DOMAIN queue' : queue'[i].job = j
        BY <3>1, <4>1
      <4>4. Circulates(j) => Circulates(j)'
        BY <3>2, <4>1, <4>3 DEF Circulates
      <4>5. QED
        BY <4>2, <4>4
    <3>5. CASE Goto(w, "done") /\ UNCHANGED <<queueVars, held>>
      BY <2>1, <3>5
    <3>6. QED
      BY <1>2, <3>3, <3>4, <3>5 DEF Pull
  <2>3. QED
    BY <1>2, <2>1, <2>2 DEF Pull
<1>3. ASSUME NEW w \in Workers, Retry(w)
      PROVE  Goal
  <2>1. CASE stop /\ TaskDone(w, "pull") /\ UNCHANGED queue
    BY <1>1, <2>1 DEF Labels, Active
  <2>2. CASE /\ queue' = Append(queue, [held[w] EXCEPT !.attempt = @ + 1])
             /\ Goto(w, "settle") /\ UNCHANGED held
    <3> DEFINE t == [held[w] EXCEPT !.attempt = @ + 1]
    <3>1. t.job = held[w].job
      <4>1. held[w] \in Task
        BY <1>3 DEF Retry, TypeOK
      <4>2. QED
        BY <4>1 DEF Task
    <3>2. queue \in Seq(Task \cup {Sentinel}) /\ queue' = Append(queue, t)
      BY <2>2 DEF TypeOK
    <3> HIDE DEF t
    <3>3. /\ \A i \in DOMAIN queue' : (i \in DOMAIN queue /\ queue'[i] = queue[i]) \/ queue'[i] = t
          /\ \A i \in DOMAIN queue : i \in DOMAIN queue' /\ queue'[i] = queue[i]
          /\ Len(queue) + 1 \in DOMAIN queue' /\ queue'[Len(queue) + 1] = t
      BY <3>2
    <3>4. /\ \A v \in Workers : v # w => pc'[v] = pc[v] /\ held'[v] = held[v]
          /\ pc[w] \in Active /\ pc'[w] \notin Active
      BY <1>3, <2>2 DEF Retry, Goto, TypeOK, Active
    <3>5. Circulates(j)' => Circulates(j)
      BY <3>1, <3>3, <3>4 DEF Circulates
    <3>6. ASSUME NEW v \in Workers, pc[v] \in Active, held[v].job = j
          PROVE  Circulates(j)'
      <4>1. CASE v = w
        BY <3>1, <3>3, <3>6, <4>1 DEF Circulates
      <4>2. CASE v # w
        BY <3>4, <3>6, <4>2 DEF Circulates
      <4>3. QED
        BY <4>1, <4>2
    <3>7. ASSUME NEW i \in DOMAIN queue, queue[i].job = j
          PROVE  Circulates(j)'
      BY <3>3, <3>7 DEF Circulates
    <3>8. QED
      BY <3>5, <3>6, <3>7 DEF Circulates
  <2>3. QED
    BY <1>3, <2>1, <2>2 DEF Retry
<1>4. ASSUME NEW w \in Workers,
             Stagger(w) \/ Check(w) \/ Launch(w) \/ Register(w) \/ Observe(w) \/ Cancel(w)
      PROVE  Goal
  <2>1. /\ queue' = queue
        /\ \/ TaskDone(w, "pull") /\ (stop \/ held[w].job \in valid)
           \/ \E label \in Labels : /\ Goto(w, label) /\ held' = held
                                    /\ label \in Active <=> pc[w] \in Active
    BY <1>4 DEF Stagger, Check, Launch, Register, Observe, Cancel, AttemptFails, queueVars, Active,
                Labels, Succeeded
  <2>2. QED
    BY <1>1, <2>1 DEF Active, Labels
<1>5. ASSUME NEW w \in Workers, Decide(w)
      PROVE  Goal
  <2>1. queue' = queue
    BY <1>5 DEF Decide
  <2>2. GiveUp(w) => held[w].job \in failed'[w]
    BY DEF GiveUp, TypeOK
  <2>3. CASE stop /\ TaskDone(w, "pull")
    BY <1>1, <2>1, <2>3 DEF Active, Labels
  <2>4. CASE GiveUp(w) /\ Goto(w, "settle") /\ held' = held
    BY <1>1, <2>1, <2>2, <2>4 DEF Active, Labels
  <2>5. CASE Goto(w, "retry") /\ held' = held
    BY <1>1, <1>5, <2>1, <2>5 DEF Decide, Active, Labels
  <2>6. QED
    BY <1>5, <2>3, <2>4, <2>5 DEF Decide
<1>6. ASSUME NEW w \in Workers, Settle(w) \/ Die(w)
      PROVE  Goal
  BY <1>1, <1>6 DEF Settle, Die, Active, Labels
<1>7. ASSUME Drained
      PROVE  Goal
  <2>1. Cardinality(Workers) \in Nat
    BY FS_CardinalityType, SchedulerAssumption
  <2> DEFINE pills == [i \in 1 .. Cardinality(Workers) |-> Sentinel]
  <2>2. /\ queue \in Seq(Task \cup {Sentinel}) /\ pills \in Seq(Task \cup {Sentinel})
        /\ queue' = queue \o pills /\ Len(pills) = Cardinality(Workers)
    BY <1>7, <2>1 DEF TypeOK, Drained
  <2>3. /\ \A i \in DOMAIN queue' : (i \in DOMAIN queue /\ queue'[i] = queue[i])
                                    \/ queue'[i] = Sentinel
        /\ \A i \in DOMAIN queue : i \in DOMAIN queue' /\ queue'[i] = queue[i]
    BY <2>1, <2>2
  <2>4. pc' = pc /\ held' = held /\ Sentinel.job # j
    BY <1>7, TaskFacts DEF Drained, workerVars
  <2>5. QED
    BY <2>3, <2>4 DEF Circulates
<1>8. ASSUME AllRetired \/ Submit
      PROVE  Goal
  <2>1. CASE AllRetired
    BY <2>1 DEF AllRetired, workerVars, Leave, Circulates
  <2>2. CASE Submit
    <3>1. queue' = queue /\ \A v \in Workers : pc'[v] = "stagger"
      BY <2>2 DEF Submit, queueVars
    <3>2. QED
      BY <2>2, <3>1 DEF MainInv, Circulates, Active, Submit
  <2>3. QED
    BY <1>8, <2>1, <2>2
<1>9. ASSUME \/ StartFails \/ Collect \/ Interrupt \/ Snapshot \/ Kill \/ Summarize
             \/ \E w \in Workers : SpawnServer(w) \/ AddServer(w) \/ ServerExits(w)
             \/ \E c \in alive : ClientWrites(c) \/ ClientExits(c)
      PROVE  Goal
  <2>1. UNCHANGED <<queue, pc, held>>
    BY <1>9 DEF StartFails, Collect, Interrupt, Snapshot, Kill, Summarize, SpawnServer,
       AddServer, ServerExits, ClientWrites, ClientExits, queueVars, workerVars
  <2>2. QED
    BY <2>1 DEF Circulates
<1>10. QED
  BY <1>2, <1>3, <1>4, <1>5, <1>6, <1>7, <1>8, <1>9 DEF Next, MainStep, WorkerStep
-----------------------------------------------------------------------------
(* What no step takes back: a stop, a death, a result, a reported failure. *)
LEMMA Monotone ==
    ASSUME TypeOK, MainInv, Next
    PROVE  /\ stop => stop'
           /\ \A w \in Workers : pc[w] = "dead" => pc'[w] = "dead"
           /\ valid \subseteq valid'
           /\ \A w \in Workers : failed[w] \subseteq failed'[w]
<1>1. (stop => stop') /\ valid \subseteq valid'
  <2>1. ASSUME NEW w \in Workers, WorkerStep(w) \/ Die(w) \/ ServerExits(w) \/ Cancel(w)
        PROVE  stop' = stop /\ valid' = valid
    BY <2>1 DEF WorkerStep, Stagger, Pull, Check, Launch, Register, Observe, Decide, Retry, Settle,
                Die, ServerExits, Cancel, mainVars
  <2>2. ASSUME MainStep \/ Interrupt
        PROVE  (stop => stop') /\ valid' = valid
    BY <2>2 DEF MainStep, SpawnServer, AddServer, Submit, StartFails, Drained, AllRetired, Collect,
                Snapshot, Kill, Summarize, Interrupt, Leave, mainVars
  <2>3. ASSUME NEW c \in alive, ClientWrites(c) \/ ClientExits(c)
        PROVE  stop' = stop /\ valid \subseteq valid'
    BY <2>3 DEF ClientWrites, ClientExits, mainVars
  <2>4. QED
    BY <2>1, <2>2, <2>3 DEF Next
<1>2. ASSUME NEW w \in Workers
      PROVE  (pc[w] = "dead" => pc'[w] = "dead") /\ failed[w] \subseteq failed'[w]
  <2>1. ASSUME NEW v \in Workers, WorkerStep(v) \/ Die(v) \/ Cancel(v)
        PROVE  pc[v] # "dead" /\ \E label \in Labels : pc' = [pc EXCEPT ![v] = label]
    <3>1. pc[v] # "dead"
      BY <2>1 DEF WorkerStep, Stagger, Pull, Check, Launch, Register, Observe, Decide, Retry,
                  Settle, Die, Cancel
    <3>2. CASE Stagger(v) \/ Pull(v) \/ Check(v) \/ Launch(v)
      BY <3>1, <3>2 DEF Stagger, Pull, Check, Launch, AttemptFails, TaskDone, Goto, Labels
    <3>3. CASE Register(v) \/ Observe(v) \/ Decide(v) \/ Retry(v)
      BY <3>1, <3>3 DEF Register, Observe, Decide, Retry, AttemptFails, TaskDone, Goto, Labels
    <3>4. CASE Settle(v) \/ Die(v) \/ Cancel(v)
      BY <3>1, <3>4 DEF Settle, Die, Cancel, TaskDone, Goto, Labels
    <3>5. QED
      BY <2>1, <3>2, <3>3, <3>4 DEF WorkerStep
  <2>2. ASSUME NEW v \in Workers, WorkerStep(v) \/ Die(v) \/ Cancel(v)
        PROVE  failed' = failed \/ GiveUp(v)
    BY <2>2 DEF WorkerStep, Stagger, Pull, Check, Launch, Register, Observe, Decide, Retry,
                Settle, Die, Cancel
  <2>3. ASSUME NEW v \in Workers, WorkerStep(v) \/ Die(v) \/ Cancel(v)
        PROVE  (pc[w] = "dead" => pc'[w] = "dead") /\ failed[w] \subseteq failed'[w]
    <3>1. pc[w] = "dead" => pc'[w] = "dead"
      BY <2>1, <2>3 DEF TypeOK
    <3>2. failed' = failed \/ failed' = [failed EXCEPT ![v] = @ \cup {held[v].job}]
      BY <2>2, <2>3 DEF GiveUp
    <3>3. failed'[w] = failed[w] \/ failed'[w] = failed[w] \cup {held[v].job}
      BY <3>2 DEF TypeOK
    <3>4. QED
      BY <3>1, <3>3
  <2>4. CASE Submit
    BY <2>4 DEF Submit, MainInv
  <2>5. CASE \/ StartFails \/ Drained \/ AllRetired \/ Collect \/ Interrupt \/ Snapshot \/ Kill
             \/ Summarize
             \/ \E v \in Workers : SpawnServer(v) \/ AddServer(v) \/ ServerExits(v)
             \/ \E c \in alive : ClientWrites(c) \/ ClientExits(c)
    BY <2>5 DEF StartFails, Drained, AllRetired, Collect, Interrupt, Snapshot, Kill, Summarize,
       SpawnServer, AddServer, ServerExits, ClientWrites, ClientExits, workerVars
  <2>6. QED
    BY <2>3, <2>4, <2>5 DEF Next, MainStep
<1>3. QED
  BY <1>1, <1>2

(* Every job that leaves circulation is accounted for. *)
LEMMA JobStep ==
    ASSUME TypeOK, TokenInv, JobInv, MainInv, Next
    PROVE  JobInv'
<1> SUFFICES ASSUME ~stop', \A w \in Workers : pc'[w] # "dead", NEW j \in Jobs
             PROVE  j \in valid' \/ (\E w \in Workers : j \in failed'[w]) \/ Circulates(j)'
  BY DEF JobInv
<1>1. ~stop /\ \A w \in Workers : pc[w] # "dead"
  BY Monotone
<1>2. j \in valid \/ (\E w \in Workers : j \in failed[w]) \/ Circulates(j)
  BY <1>1 DEF JobInv
<1>3. Circulates(j) => \/ Circulates(j)' \/ j \in valid \/ \E w \in Workers : j \in failed'[w]
  BY <1>1, CirculatesStep
<1>4. QED
  BY <1>2, <1>3, Monotone
-----------------------------------------------------------------------------
(* A client that runs keeps the worker that watches it, unless a stop      *)
(* parted them.                                                            *)
Watched(c) ==
    \/ \E w \in Workers : pc[w] \in {"spawned", "watch"} /\ held[w] = c
    \/ stop /\ \E w \in Workers : pc[w] = "decide" /\ held[w] = c
    \/ stop /\ ~Circulates(c.job)

LEMMA WatchedMove ==
    ASSUME TypeOK, TokenInv, MainInv, Next, stop' = stop, NEW w \in Workers,
           \A v \in Workers : v # w => pc'[v] = pc[v] /\ held'[v] = held[v],
           NEW c \in Task, Watched(c),
           \/ held[w] # c
           \/ pc[w] \notin {"spawned", "watch"} /\ (stop => pc[w] # "decide")
           \/ pc'[w] \in {"spawned", "watch"} /\ held'[w] = c
           \/ stop /\ pc'[w] = "decide" /\ held'[w] = c
           \/ stop /\ ~Circulates(c.job)'
    PROVE  Watched(c)'
<1>1. c.job \in Jobs
  BY TaskFacts
<1>2. CASE \E v \in Workers : pc[v] \in {"spawned", "watch"} /\ held[v] = c
  <2>1. PICK v \in Workers : pc[v] \in {"spawned", "watch"} /\ held[v] = c
    BY <1>2
  <2>2. QED
    BY <2>1 DEF Watched
<1>3. CASE stop /\ \E v \in Workers : pc[v] = "decide" /\ held[v] = c
  <2>1. PICK v \in Workers : pc[v] = "decide" /\ held[v] = c
    BY <1>3
  <2>2. QED
    BY <1>3, <2>1 DEF Watched
<1>4. CASE stop /\ ~Circulates(c.job)
  <2>1. ~Circulates(c.job)'
    BY <1>1, <1>4, CirculatesStep
  <2>2. QED
    BY <1>4, <2>1 DEF Watched
<1>5. QED
  BY <1>2, <1>3, <1>4 DEF Watched

LEMMA WatchedStay ==
    ASSUME TypeOK, TokenInv, MainInv, Next, UNCHANGED <<pc, held>>, NEW c \in Task, Watched(c)
    PROVE  Watched(c)'
<1>1. c.job \in Jobs
  BY TaskFacts
<1>2. ~Circulates(c.job) => ~Circulates(c.job)'
  BY <1>1, CirculatesStep
<1>3. QED
  BY <1>2, Monotone DEF Watched

LEMMA ClientStep ==
    ASSUME TypeOK, TokenInv, ClientInv, MainInv, Next
    PROVE  ClientInv'
<1>0. \A c \in alive : c \in Task /\ c.job \in Jobs
  BY TaskFacts DEF TypeOK
(* Clients in the registry. *)
<1>1. \A c \in alive' : c \in registered' \/ \E w \in Workers : pc'[w] = "spawned" /\ held'[w] = c
  <2>1. ASSUME NEW w \in Workers, Launch(w)
        PROVE  \A c \in alive' :
                  c \in registered' \/ \E v \in Workers : pc'[v] = "spawned" /\ held'[v] = c
    <3>1. CASE alive' = alive \cup {held[w]} /\ Goto(w, "spawned") /\ UNCHANGED held
      <4>1. registered' = registered /\ pc'[w] = "spawned" /\ held'[w] = held[w]
        BY <2>1, <3>1 DEF Launch, Goto, TypeOK
      <4>2. \A v \in Workers : pc[v] = "spawned" => pc'[v] = "spawned" /\ held'[v] = held[v]
        BY <2>1, <3>1 DEF Launch, Goto, TypeOK
      <4>3. QED
        BY <3>1, <4>1, <4>2 DEF ClientInv
    <3>2. CASE AttemptFails(w) /\ UNCHANGED alive
      <4>1. registered' = registered /\ held' = held
        BY <2>1, <3>2 DEF Launch, AttemptFails
      <4>2. \A v \in Workers : pc[v] = "spawned" => pc'[v] = "spawned"
        BY <2>1, <3>2 DEF Launch, AttemptFails, Goto, TypeOK
      <4>3. QED
        BY <3>2, <4>1, <4>2 DEF ClientInv
    <3>3. QED
      BY <2>1, <3>1, <3>2 DEF Launch
  <2>2. ASSUME NEW w \in Workers, Register(w)
        PROVE  \A c \in alive' :
                  c \in registered' \/ \E v \in Workers : pc'[v] = "spawned" /\ held'[v] = c
    <3>1. /\ registered' = registered \cup {held[w]} /\ alive' = alive /\ held' = held
          /\ \A v \in Workers : v # w => pc'[v] = pc[v]
      BY <2>2 DEF Register, Goto, TypeOK, clientVars
    <3>2. QED
      BY <3>1 DEF ClientInv
  <2>3. ASSUME alive' \subseteq alive, registered' = registered,
               \A v \in Workers : pc[v] = "spawned" => pc'[v] = "spawned" /\ held'[v] = held[v]
        PROVE  \A c \in alive' :
                  c \in registered' \/ \E v \in Workers : pc'[v] = "spawned" /\ held'[v] = c
    BY <2>3 DEF ClientInv
  <2>4. ASSUME NEW w \in Workers,
               \/ Stagger(w) \/ Pull(w) \/ Check(w) \/ Observe(w) \/ Decide(w) \/ Retry(w)
               \/ Settle(w) \/ Die(w) \/ Cancel(w)
        PROVE  /\ alive' = alive /\ registered' = registered
               /\ \A v \in Workers : pc[v] = "spawned" => pc'[v] = "spawned" /\ held'[v] = held[v]
    <3>1. alive' = alive /\ registered' = registered /\ pc[w] # "spawned"
      BY <2>4 DEF Stagger, Pull, Check, Observe, Decide, Retry, Settle, Die, Cancel, clientVars
    <3>2. CASE Stagger(w) \/ Pull(w) \/ Check(w) \/ Observe(w)
      BY <3>1, <3>2 DEF Stagger, Pull, Check, Observe, AttemptFails, TaskDone, Goto, TypeOK
    <3>3. CASE Decide(w) \/ Retry(w) \/ Settle(w) \/ Die(w) \/ Cancel(w)
      BY <3>1, <3>3 DEF Decide, Retry, Settle, Die, Cancel, TaskDone, Goto, TypeOK
    <3>4. QED
      BY <2>4, <3>1, <3>2, <3>3
  <2>5. ASSUME Submit
        PROVE  /\ alive' \subseteq alive /\ registered' = registered
               /\ \A v \in Workers : pc[v] = "spawned" => pc'[v] = "spawned" /\ held'[v] = held[v]
    BY <2>5 DEF Submit, MainInv, clientVars
  <2>6. ASSUME \/ StartFails \/ Drained \/ AllRetired \/ Collect \/ Interrupt \/ Snapshot \/ Kill
               \/ Summarize
               \/ \E w \in Workers : SpawnServer(w) \/ AddServer(w) \/ ServerExits(w)
               \/ \E c \in alive : ClientWrites(c) \/ ClientExits(c)
        PROVE  alive' \subseteq alive /\ registered' = registered /\ UNCHANGED workerVars
    BY <2>6 DEF StartFails, Drained, AllRetired, Collect, Interrupt, Snapshot, Kill, Summarize,
       SpawnServer, AddServer, ServerExits, ClientWrites, ClientExits, clientVars
  <2>7. QED
    BY <2>1, <2>2, <2>3, <2>4, <2>5, <2>6 DEF Next, MainStep, WorkerStep, workerVars
(* Clients and the workers that watch them. *)
<1>2. ASSUME ~PrintsFail
      PROVE  /\ \A c \in alive' : Watched(c)'
             /\ \A w \in Workers : pc'[w] = "launch" => held'[w].job \notin valid'
             /\ \A c, d \in alive' : c.job = d.job => c = d
  <2>0. /\ \A c \in alive : Watched(c)
        /\ \A w \in Workers : pc[w] = "launch" => held[w].job \notin valid
        /\ \A c, d \in alive : c.job = d.job => c = d
    BY <1>2 DEF ClientInv, ExclusiveRun, Watched
  <2>1. \A c \in alive, w \in Workers : pc[w] = "launch" => c.job # held[w].job
    <3>1. SUFFICES ASSUME NEW c \in alive, NEW w \in Workers, pc[w] = "launch", c.job = held[w].job
                   PROVE  FALSE
      OBVIOUS
    <3>2. Circulates(c.job)
      BY <3>1 DEF Circulates, Active
    <3>3. PICK v \in Workers : pc[v] \in {"spawned", "watch", "decide"} /\ held[v] = c
      BY <2>0, <3>2 DEF Watched
    <3>4. QED
      BY <3>1, <3>3 DEF TokenInv, Active
  <2>2. ASSUME alive' \subseteq alive, valid' = valid,
               \A c \in alive' : Watched(c) => Watched(c)',
               \A w \in Workers : pc'[w] = "launch" => held'[w].job \notin valid
        PROVE  /\ \A c \in alive' : Watched(c)'
               /\ \A w \in Workers : pc'[w] = "launch" => held'[w].job \notin valid'
               /\ \A c, d \in alive' : c.job = d.job => c = d
    BY <2>0, <2>2
  <2>3. ASSUME NEW w \in Workers, stop' = stop, alive' \subseteq alive, valid' = valid,
               \A v \in Workers : v # w => pc'[v] = pc[v] /\ held'[v] = held[v],
               pc'[w] # "launch",
               \A c \in alive :
                  \/ held[w] # c
                  \/ pc[w] \notin {"spawned", "watch"} /\ (stop => pc[w] # "decide")
                  \/ pc'[w] \in {"spawned", "watch"} /\ held'[w] = c
                  \/ stop /\ pc'[w] = "decide" /\ held'[w] = c
                  \/ stop /\ ~Circulates(c.job)'
        PROVE  /\ \A c \in alive' : Watched(c)'
               /\ \A v \in Workers : pc'[v] = "launch" => held'[v].job \notin valid'
               /\ \A c, d \in alive' : c.job = d.job => c = d
    <3>1. \A c \in alive' : Watched(c)'
      BY <1>0, <2>0, <2>3, WatchedMove
    <3>2. \A v \in Workers : pc'[v] = "launch" => held'[v].job \notin valid
      BY <2>0, <2>3
    <3>3. QED
      BY <2>0, <2>3, <3>1, <3>2
  <2>4. ASSUME NEW w \in Workers,
               Stagger(w) \/ Pull(w) \/ Check(w) \/ Retry(w) \/ Settle(w) \/ Cancel(w)
        PROVE  /\ \A c \in alive' : Watched(c)'
               /\ \A v \in Workers : pc'[v] = "launch" => held'[v].job \notin valid'
               /\ \A c, d \in alive' : c.job = d.job => c = d
    <3>1. /\ pc[w] \notin {"spawned", "watch", "decide"}
          /\ stop' = stop /\ alive' = alive /\ valid' = valid
      BY <2>4 DEF Stagger, Pull, Check, Retry, Settle, Cancel, clientVars, mainVars
    <3>2. /\ \A v \in Workers : v # w => pc'[v] = pc[v] /\ held'[v] = held[v]
          /\ pc'[w] = "launch" => held'[w].job \notin valid
      <4>1. CASE Stagger(w) \/ Pull(w) \/ Cancel(w)
        BY <4>1 DEF Stagger, Pull, Cancel, TaskDone, Goto, TypeOK
      <4>2. CASE Check(w)
        BY <4>2 DEF Check, AttemptFails, TaskDone, Goto, TypeOK
      <4>3. CASE Retry(w) \/ Settle(w)
        BY <4>3 DEF Retry, Settle, TaskDone, Goto, TypeOK
      <4>4. QED
        BY <2>4, <4>1, <4>2, <4>3
    <3>3. \A c \in alive' : Watched(c)'
      BY <1>0, <2>0, <3>1, <3>2, WatchedMove
    <3>4. QED
      BY <2>0, <3>1, <3>2, <3>3
  <2>5. ASSUME NEW w \in Workers, Launch(w)
        PROVE  /\ \A c \in alive' : Watched(c)'
               /\ \A v \in Workers : pc'[v] = "launch" => held'[v].job \notin valid'
               /\ \A c, d \in alive' : c.job = d.job => c = d
    <3>1. /\ pc[w] = "launch" /\ stop' = stop /\ valid' = valid /\ held' = held
          /\ \A v \in Workers : v # w => pc'[v] = pc[v]
          /\ \/ pc'[w] = "spawned" /\ alive' = alive \cup {held[w]}
             \/ pc'[w] = "decide" /\ alive' = alive
      BY <2>5 DEF Launch, AttemptFails, Goto, TypeOK, mainVars
    <3>2. \A c \in alive : Watched(c)'
      BY <1>0, <2>0, <3>1, WatchedMove
    <3>3. pc'[w] = "spawned" => \A c : c = held[w] => Watched(c)'
      BY <3>1 DEF Watched
    <3>4. QED
      BY <2>0, <2>1, <3>1, <3>2, <3>3
  <2>6. ASSUME NEW w \in Workers, Register(w)
        PROVE  /\ \A c \in alive' : Watched(c)'
               /\ \A v \in Workers : pc'[v] = "launch" => held'[v].job \notin valid'
               /\ \A c, d \in alive' : c.job = d.job => c = d
    BY <2>3, <2>6 DEF Register, Goto, TypeOK, clientVars, mainVars
  <2>7. ASSUME NEW w \in Workers, Observe(w)
        PROVE  /\ \A c \in alive' : Watched(c)'
               /\ \A v \in Workers : pc'[v] = "launch" => held'[v].job \notin valid'
               /\ \A c, d \in alive' : c.job = d.job => c = d
    <3>1. /\ stop' = stop /\ alive' = alive /\ valid' = valid
          /\ \A v \in Workers : v # w => pc'[v] = pc[v] /\ held'[v] = held[v]
          /\ \/ pc'[w] = "pull" /\ held[w] \notin alive
             \/ pc'[w] = "decide" /\ held' = held /\ (held[w] \in alive => stop)
      BY <1>2, <2>7 DEF Observe, Succeeded, AttemptFails, TaskDone, Goto, TypeOK, mainVars
    <3>2. QED
      BY <2>3, <3>1
  <2>8. ASSUME NEW w \in Workers, Decide(w)
        PROVE  /\ \A c \in alive' : Watched(c)'
               /\ \A v \in Workers : pc'[v] = "launch" => held'[v].job \notin valid'
               /\ \A c, d \in alive' : c.job = d.job => c = d
    <3>1. /\ stop' = stop /\ alive' = alive /\ valid' = valid /\ queue' = queue
          /\ \A v \in Workers : v # w => pc'[v] = pc[v] /\ held'[v] = held[v]
          /\ pc[w] = "decide" /\ pc'[w] \in {"pull", "settle", "retry"}
          /\ stop => pc'[w] = "pull"
      BY <2>8 DEF Decide, TaskDone, Goto, TypeOK, clientVars, mainVars
    <3>2. stop => \A j : j = held[w].job => ~Circulates(j)'
      BY <3>1, Dropped DEF Active
    <3>3. QED
      BY <2>3, <3>1, <3>2
  <2>9. ASSUME Submit
        PROVE  /\ \A c \in alive' : Watched(c)'
               /\ \A v \in Workers : pc'[v] = "launch" => held'[v].job \notin valid'
               /\ \A c, d \in alive' : c.job = d.job => c = d
    <3>1. /\ alive' = alive /\ stop' = stop /\ \A v \in Workers : pc'[v] = "stagger"
          /\ \A v \in Workers : pc[v] = "idle"
      BY <2>9 DEF Submit, MainInv, clientVars
    <3>2. \A c \in alive : ~Circulates(c.job) => ~Circulates(c.job)'
      BY <1>0, CirculatesStep
    <3>3. QED
      BY <2>0, <3>1, <3>2 DEF Watched
  <2>10. ASSUME UNCHANGED workerVars, valid' = valid, alive' \subseteq alive
         PROVE  /\ \A c \in alive' : Watched(c)'
                /\ \A v \in Workers : pc'[v] = "launch" => held'[v].job \notin valid'
                /\ \A c, d \in alive' : c.job = d.job => c = d
    <3>1. pc' = pc /\ held' = held
      BY <2>10 DEF workerVars
    <3>2. \A c \in alive' : Watched(c)'
      BY <1>0, <2>0, <2>10, <3>1, WatchedStay
    <3>3. QED
      BY <2>0, <2>10, <3>1, <3>2
  <2>11. ASSUME \/ StartFails \/ Drained \/ AllRetired \/ Collect \/ Interrupt \/ Snapshot \/ Kill
                \/ Summarize
                \/ \E w \in Workers : SpawnServer(w) \/ AddServer(w) \/ ServerExits(w)
                \/ \E c \in alive : ClientExits(c)
         PROVE  UNCHANGED workerVars /\ valid' = valid /\ alive' \subseteq alive
    BY <2>11 DEF StartFails, Drained, AllRetired, Collect, Interrupt, Snapshot, Kill, Summarize,
       SpawnServer, AddServer, ServerExits, ClientExits, clientVars
  <2>12. ASSUME NEW c \in alive, ClientWrites(c)
         PROVE  /\ \A d \in alive' : Watched(d)'
                /\ \A v \in Workers : pc'[v] = "launch" => held'[v].job \notin valid'
                /\ \A d, e \in alive' : d.job = e.job => d = e
    <3>1. pc' = pc /\ held' = held /\ alive' = alive /\ valid' = valid \cup {c.job}
      BY <2>12 DEF ClientWrites, workerVars, clientVars
    <3>2. \A d \in alive' : Watched(d)'
      BY <1>0, <2>0, <3>1, WatchedStay
    <3>3. QED
      BY <2>0, <2>1, <3>1, <3>2
  <2>13. ~\E w \in Workers : Die(w)
    BY <1>2 DEF Die
  <2>14. QED
    BY <2>4, <2>5, <2>6, <2>7, <2>8, <2>9, <2>10, <2>11, <2>12, <2>13
       DEF Next, MainStep, WorkerStep
<1>3. QED
  BY <1>1, <1>2 DEF ClientInv, ExclusiveRun, Watched
-----------------------------------------------------------------------------
(* No worker holds a task and no worker will: the queue has only sentinels *)
(* left, or nobody takes from it.                                          *)
Quiet ==
    /\ Holding = {}
    /\ OnlySentinels \/ \A w \in Workers : pc[w] \in {"idle", "done", "dead"}

LEMMA QuietStep ==
    ASSUME TypeOK, Quiet, NEW w \in Workers, WorkerStep(w) \/ Die(w) \/ Cancel(w)
    PROVE  Quiet' /\ OnlySentinels /\ OnlySentinels' /\ failed' = failed /\ alive' = alive
<1>1. pc[w] \in {"stagger", "pull"}
  <2>1. held[w] = NoTask
    BY DEF Quiet, Holding
  <2>2. pc[w] \notin {"got", "launch", "spawned", "watch", "decide", "retry", "settle"}
    BY <2>1 DEF TypeOK
  <2>3. QED
    BY <2>2 DEF WorkerStep, Stagger, Pull, Check, Launch, Register, Observe, Decide, Retry, Settle,
                Die, Cancel
<1>2. Stagger(w) \/ Pull(w) \/ Cancel(w)
  BY <1>1 DEF WorkerStep, Check, Launch, Register, Observe, Decide, Retry, Settle, Die
<1>3. OnlySentinels
  BY <1>1 DEF Quiet
<1>4. failed' = failed /\ alive' = alive
  BY <1>2 DEF Stagger, Pull, Cancel, clientVars
<1>5. CASE queue' = queue /\ held' = held
  BY <1>3, <1>4, <1>5 DEF Quiet, Holding, OnlySentinels
<1>6. CASE queue # <<>> /\ queue' = Tail(queue) /\ Pull(w)
  <2>1. /\ Head(queue) = queue[1] /\ 1 \in DOMAIN queue
        /\ \A i \in DOMAIN queue' : i + 1 \in DOMAIN queue /\ queue'[i] = queue[i + 1]
    BY <1>6 DEF TypeOK
  <2>2. Head(queue) = Sentinel /\ OnlySentinels'
    BY <1>3, <2>1 DEF OnlySentinels
  <2>3. held' = [held EXCEPT ![w] = NoTask] \/ held' = held
    BY <1>6, <2>2 DEF Pull, TaskDone
  <2>4. Holding' = {}
    BY <2>3 DEF Quiet, Holding, TypeOK
  <2>5. QED
    BY <1>3, <1>4, <2>2, <2>4 DEF Quiet
<1>7. QED
  BY <1>2, <1>5, <1>6 DEF Stagger, Pull, Cancel, queueVars

LEMMA WorkerKeeps ==
    ASSUME NEW w \in Workers, WorkerStep(w) \/ Die(w) \/ Cancel(w)
    PROVE  UNCHANGED <<servers, valid, mainVars>> /\ pc[w] \notin {"idle", "done", "dead"}
BY DEF WorkerStep, Stagger, Pull, Check, Launch, Register, Observe, Decide, Retry, Settle, Die,
       Cancel

LEMMA MainInvStep ==
    ASSUME TypeOK, Accounting, ClientInv, JobInv, MainInv, TypeOK', Next
    PROVE  MainInv'
<1> USE DEF Left
<1>1. Holding = {} => alive \subseteq registered
  BY DEF Holding, ClientInv, TypeOK
<1>2. ASSUME NEW w \in Workers, WorkerStep(w) \/ Die(w) \/ Cancel(w)
      PROVE  MainInv'
  <2>1. /\ UNCHANGED <<servers, valid, main, stop, snapshot, rc>>
        /\ pc[w] \notin {"idle", "done", "dead"}
    BY <1>2, WorkerKeeps DEF mainVars
  <2>2. main # "start" /\ ~(Left /\ ~stop)
    BY <2>1 DEF MainInv
  <2>3. rc # 0
    BY <2>2 DEF MainInv
  <2>4. CASE Quiet
    BY <1>2, <2>1, <2>2, <2>3, <2>4, QuietStep DEF MainInv, Quiet
  <2>5. CASE ~Quiet
    <3>1. main # "collect" /\ ~(Left /\ ~MayInterrupt)
      BY <2>5 DEF MainInv, Quiet
    <3>2. QED
      BY <2>1, <2>2, <2>3, <3>1 DEF MainInv
  <2>6. QED
    BY <2>4, <2>5
<1>3. ASSUME NEW c \in alive, ClientWrites(c) \/ ClientExits(c)
      PROVE  MainInv'
  <2>1. /\ UNCHANGED <<queueVars, workerVars, servers, mainVars>>
        /\ alive' \subseteq alive /\ valid \subseteq valid' /\ valid' \subseteq Jobs
    BY <1>3 DEF ClientWrites, ClientExits, clientVars, TypeOK
  <2>2. QED
    BY <2>1 DEF MainInv, Holding, OnlySentinels, queueVars, workerVars, mainVars
<1>4. ASSUME NEW w \in Workers, SpawnServer(w) \/ AddServer(w) \/ ServerExits(w)
      PROVE  MainInv'
  <2>1. /\ UNCHANGED <<queueVars, workerVars, clientVars, valid, mainVars>> /\ main = "start"
    BY <1>4 DEF SpawnServer, AddServer, ServerExits
  <2>2. Managed
    BY <1>4 DEF SpawnServer, AddServer, ServerExits, MainInv, TypeOK
  <2>3. QED
    BY <2>1, <2>2 DEF MainInv, Holding, OnlySentinels, queueVars, workerVars, clientVars, mainVars
<1>5. ASSUME Submit
      PROVE  MainInv'
  <2>1. /\ main = "start" /\ main' = "wait" /\ UNCHANGED <<stop, snapshot, rc, servers, failed>>
        /\ \A w \in Workers : servers[w] # "spawned"
    BY <1>5 DEF Submit, AllStarted, MainInv
  <2>2. QED
    BY <2>1 DEF MainInv
<1>6. ASSUME Drained
      PROVE  MainInv'
  <2>1. queue = <<>> /\ Holding = {}
    BY <1>6, CountFacts DEF Drained
  <2>2. Cardinality(Workers) \in Nat
    BY FS_CardinalityType, SchedulerAssumption
  <2>3. \A i \in DOMAIN queue' : queue'[i] = Sentinel
    BY <1>6, <2>1, <2>2 DEF Drained
  <2>4. Holding' = {}
    BY <1>6, <2>1 DEF Drained, workerVars, Holding
  <2>5. /\ main = "wait" /\ main' = "collect" /\ ~stop /\ rc = -1
        /\ UNCHANGED <<servers, stop, rc>>
    BY <1>6 DEF Drained, MainInv
  <2>6. QED
    BY <2>3, <2>4, <2>5 DEF MainInv, OnlySentinels
<1>7. ASSUME StartFails \/ AllRetired \/ Interrupt \/ Collect
      PROVE  MainInv'
  <2>1. /\ main \in {"start", "wait", "collect"} /\ ~stop /\ main' = "terminate"
        /\ UNCHANGED <<workerVars, clientVars, servers, valid>>
        /\ Holding' = Holding
    BY <1>7 DEF StartFails, AllRetired, Interrupt, Collect, Leave, MainInv, Holding, workerVars
  <2>2. /\ rc' \in {0, 1, 130}
        /\ ~stop' => /\ Collect /\ \A w \in Workers : pc[w] = "done"
                     /\ rc' = 0 => \A w \in Workers : failed[w] = {}
        /\ rc' = 0 => ~stop'
    <3>1. CASE StartFails \/ AllRetired \/ Interrupt
      <4>1. Leave(1) \/ Leave(130)
        BY <3>1 DEF StartFails, AllRetired, Interrupt
      <4>2. stop' /\ rc' \in {1, 130}
        <5>1. CASE Leave(1)
          BY <5>1 DEF Leave
        <5>2. CASE Leave(130)
          BY <5>2 DEF Leave
        <5>3. QED
          BY <4>1, <5>1, <5>2
      <4>3. QED
        BY <4>2
    <3>2. CASE Collect
      <4>1. CASE Leave(1)
        BY <4>1 DEF Leave
      <4>2. CASE /\ stop' = stop /\ \A w \in Workers : pc[w] = "done"
                 /\ rc' = IF \E w \in Workers : failed[w] # {} THEN 1 ELSE 0
        <5>1. rc' \in {0, 1} /\ (rc' = 0 => \A w \in Workers : failed[w] = {})
          BY <4>2
        <5>2. ~stop'
          BY <2>1, <4>2
        <5>3. QED
          BY <3>2, <4>2, <5>1, <5>2
      <4>3. QED
        BY <3>2, <4>1, <4>2 DEF Collect
    <3>3. QED
      BY <1>7, <3>1, <3>2
  <2>3. ~MayInterrupt => Quiet'
    <3>1. CASE StartFails
      <4>1. \A w \in Workers : pc'[w] = "idle" /\ held'[w] = NoTask
        <5>1. pc' = pc /\ held' = held /\ \A w \in Workers : pc[w] = "idle"
          BY <2>1, <3>1 DEF StartFails, MainInv, workerVars
        <5>2. QED
          BY <5>1 DEF TypeOK
      <4>2. QED
        BY <4>1 DEF Quiet, Holding
    <3>2. CASE AllRetired
      <4>1. \A w \in Workers : pc'[w] \in {"done", "dead"} /\ held'[w] = NoTask
        BY <2>1, <3>2 DEF AllRetired, Gone, TypeOK, workerVars
      <4>2. QED
        BY <4>1 DEF Quiet, Holding
    <3>3. CASE Collect
      <4>1. Holding' = {} /\ OnlySentinels'
        BY <2>1, <3>3 DEF Collect, MainInv, OnlySentinels, queueVars
      <4>2. QED
        BY <4>1 DEF Quiet
    <3>4. CASE Interrupt
      BY <3>4 DEF Interrupt
    <3>5. QED
      BY <1>7, <3>1, <3>2, <3>3, <3>4
  <2>4. ~stop' => /\ Holding' = {} /\ OnlySentinels'
                  /\ \A w \in Workers : servers'[w] # "spawned" /\ pc'[w] = "done"
    BY <2>1, <2>2 DEF Collect, MainInv, OnlySentinels, queueVars, workerVars
  <2>5. ~MayInterrupt => \A w \in Workers : servers'[w] # "spawned"
    BY <1>7, <2>1 DEF StartFails, AllRetired, Interrupt, Collect, MainInv
  <2>6. QED
    BY <2>1, <2>2, <2>3, <2>4, <2>5 DEF MainInv, Quiet, workerVars
<1>8. ASSUME Snapshot
      PROVE  MainInv'
  <2>1. /\ main = "terminate" /\ main' = "kill" /\ snapshot' = registered
        /\ UNCHANGED <<queue, pc, held, failed, alive, servers, valid, stop, rc>>
    BY <1>8 DEF Snapshot, queueVars, workerVars, clientVars
  <2>2. ~stop \/ ~MayInterrupt => alive' \subseteq snapshot'
    BY <1>1, <2>1 DEF MainInv
  <2>3. QED
    BY <2>1, <2>2 DEF MainInv, Holding, OnlySentinels
<1>9. ASSUME Kill
      PROVE  MainInv'
  <2>1. /\ main = "kill" /\ main' = "shutdown" /\ alive' = alive \ snapshot
        /\ UNCHANGED <<queue, pc, held, failed, valid, stop, rc>>
        /\ servers' = [w \in Workers |-> IF servers[w] = "up" THEN "dead" ELSE servers[w]]
    BY <1>9 DEF Kill, queueVars, workerVars
  <2>2. \A w \in Workers : servers'[w] # "up" /\ (servers[w] # "spawned" => servers'[w] # "spawned")
    BY <2>1
  <2>3. ~stop \/ ~MayInterrupt => alive' = {}
    BY <2>1 DEF MainInv
  <2>4. ~Managed => \A w \in Workers : servers'[w] = "none"
    BY <2>1 DEF MainInv
  <2>5. QED
    BY <2>1, <2>2, <2>3, <2>4 DEF MainInv, Holding, OnlySentinels
<1>10. ASSUME Summarize
       PROVE  MainInv'
  <2>1. /\ main = "shutdown" /\ main' = "done"
        /\ UNCHANGED <<queue, pc, held, failed, alive, servers, valid, stop>>
        /\ rc' = IF rc = 0 /\ valid # Jobs THEN 1 ELSE rc
    BY <1>10 DEF Summarize, queueVars, workerVars, clientVars
  <2>2. rc' # -1 /\ (rc' = 0 => rc = 0 /\ valid = Jobs)
    BY <2>1 DEF MainInv
  <2>3. QED
    BY <2>1, <2>2 DEF MainInv, Holding, OnlySentinels
<1>11. QED
  BY <1>2, <1>3, <1>4, <1>5, <1>6, <1>7, <1>8, <1>9, <1>10 DEF Next, MainStep
-----------------------------------------------------------------------------
LEMMA InvInit == Init => IInv
<1> SUFFICES ASSUME Init PROVE IInv
  OBVIOUS
<1>1. TypeOK /\ Accounting
  BY TypeInit
<1>2. Cardinality(Jobs) \in Nat /\ IsFiniteSet(Jobs)
  BY FS_CardinalityType, SchedulerAssumption
<1>3. PICK order \in [1 .. Cardinality(Jobs) -> Jobs] :
         /\ IsInjective(order)
         /\ queue = [i \in DOMAIN order |-> [job |-> order[i], attempt |-> 1]]
  BY DEF Init
<1>4. \A i, k \in DOMAIN order : order[i] = order[k] => i = k
  BY <1>3 DEF IsInjective
<1>5. DOMAIN queue = 1 .. Cardinality(Jobs) /\ \A i \in DOMAIN queue : queue[i].job = order[i]
  BY <1>3
<1>6. TokenInv
  BY <1>4, <1>5 DEF Init, TokenInv, Active
<1>7. ClientInv
  BY DEF Init, ClientInv, ExclusiveRun
<1>8. \A j \in Jobs : Circulates(j)
  <2>1. order \in Surjection(1 .. Cardinality(Jobs), Jobs)
    <3>1. /\ IsFiniteSet(1 .. Cardinality(Jobs))
          /\ Cardinality(1 .. Cardinality(Jobs)) = Cardinality(Jobs)
      BY <1>2, FS_Interval
    <3>2. order \in Injection(1 .. Cardinality(Jobs), Jobs)
      BY <1>3, <1>4 DEF Injection
    <3>3. QED
      BY <1>2, <3>1, <3>2, FS_Injection
  <2>2. QED
    BY <1>5, <2>1 DEF Circulates, Surjection
<1>9. JobInv
  BY <1>8 DEF JobInv
<1>10. MainInv
  BY DEF Init, MainInv, Left
<1>11. QED
  BY <1>1, <1>6, <1>7, <1>9, <1>10 DEF IInv

LEMMA InvStep == IInv /\ [Next]_vars => IInv'
<1>1. ASSUME IInv, Next
      PROVE  IInv'
  <2>1. TypeOK' /\ Accounting'
    BY <1>1, TypeStep DEF IInv
  <2>2. TokenInv'
    BY <1>1, TokenStep DEF IInv
  <2>3. ClientInv'
    BY <1>1, ClientStep DEF IInv
  <2>4. JobInv'
    BY <1>1, JobStep DEF IInv
  <2>5. MainInv'
    BY <1>1, <2>1, MainInvStep DEF IInv
  <2>6. QED
    BY <2>1, <2>2, <2>3, <2>4, <2>5 DEF IInv
<1>2. ASSUME IInv, UNCHANGED vars
      PROVE  IInv'
  <2> USE <1>2 DEF vars, queueVars, workerVars, clientVars, mainVars
  <2>1. TypeOK' /\ Accounting'
    BY DEF IInv, TypeOK, Accounting, Holding
  <2>2. TokenInv' /\ JobInv'
    BY DEF IInv, TokenInv, JobInv, Circulates
  <2>3. ClientInv'
    BY DEF IInv, ClientInv, ExclusiveRun, Circulates
  <2>4. MainInv'
    BY DEF IInv, MainInv, Left, Holding, OnlySentinels
  <2>5. QED
    BY <2>1, <2>2, <2>3, <2>4 DEF IInv
<1>3. QED
  BY <1>1, <1>2

(* The invariant holds in every reachable state, for any number of jobs,   *)
(* workers and attempts, managed servers or not, with or without Ctrl-C.   *)
THEOREM Invariance == Spec => []IInv
<1>1. QED
  BY InvInit, InvStep, PTL DEF Spec

(* Every variable keeps its type, and no task exceeds its attempts. *)
THEOREM TypeCorrect == Spec => []TypeOK
<1>1. IInv => TypeOK
  BY DEF IInv
<1>2. QED
  BY <1>1, Invariance, PTL

(* Queue.join counts exactly the tasks that are queued or worked on. *)
THEOREM ExactCount == Spec => []Accounting
<1>1. IInv => Accounting
  BY DEF IInv
<1>2. QED
  BY <1>1, Invariance, PTL

(* Once main saw the queue drain, no job is forgotten. *)
THEOREM AllAccountedFor == Spec => []NothingForgotten
<1>1. IInv => NothingForgotten
  <2> SUFFICES ASSUME IInv, main \notin {"start", "wait"}, ~stop,
                      \A w \in Workers : pc[w] # "dead", NEW j \in Jobs
               PROVE  j \in valid \/ \E w \in Workers : j \in failed[w]
    BY DEF NothingForgotten
  <2>1. Holding = {} /\ OnlySentinels
    BY DEF IInv, TypeOK, MainInv, Left
  <2>2. \A w \in Workers : pc[w] \notin Active
    BY <2>1 DEF Holding, IInv, TypeOK, Active
  <2>3. \A i \in DOMAIN queue : queue[i].job # j
    BY <2>1, TaskFacts DEF OnlySentinels
  <2>4. ~Circulates(j)
    BY <2>2, <2>3 DEF Circulates
  <2>5. QED
    BY <2>4 DEF IInv, JobInv
<1>2. QED
  BY <1>1, Invariance, PTL

(* No two clients work on one job at once, unless prints fail. *)
THEOREM OneClientPerJob == Spec => []ExclusiveRun
<1>1. IInv => ExclusiveRun
  BY DEF IInv, ClientInv
<1>2. QED
  BY <1>1, Invariance, PTL

(* Exit code 0 is not given for less than the whole plan, nor before every *)
(* process is gone.                                                        *)
THEOREM ExitCodeZero == Spec => []HonestExit
<1>1. IInv => HonestExit
  <2> SUFFICES ASSUME IInv, main = "done", rc = 0
               PROVE  /\ valid = Jobs /\ alive = {}
                      /\ \A w \in Workers : failed[w] = {} /\ servers[w] \in {"none", "dead"}
    BY DEF HonestExit
  <2>1. MainInv /\ Left
    BY DEF IInv, Left
  <2>2. ~stop /\ valid = Jobs /\ \A w \in Workers : failed[w] = {}
    BY <2>1 DEF MainInv
  <2>3. alive = {} /\ \A w \in Workers : servers[w] # "up" /\ servers[w] # "spawned"
    BY <2>1, <2>2 DEF MainInv
  <2>4. \A w \in Workers : servers[w] \in {"none", "spawned", "up", "dead"}
    BY DEF IInv, TypeOK
  <2>5. QED
    BY <2>2, <2>3, <2>4
<1>2. QED
  BY <1>1, Invariance, PTL

(* Without Ctrl-C no client and no server outlives the scheduler,          *)
(* whichever servers fail to start, attempts fail and workers die.  With   *)
(* it a client may: the run scheduler_interrupt shows how.                 *)
THEOREM NoOrphansUninterrupted == ~MayInterrupt => (Spec => []NoOrphans)
<1> SUFFICES ASSUME ~MayInterrupt PROVE Spec => []NoOrphans
  OBVIOUS
<1>1. IInv => NoOrphans
  BY DEF IInv, MainInv, NoOrphans, Left, TypeOK
<1>2. QED
  BY <1>1, Invariance, PTL

(* A job with a valid result is not run again, unless prints fail: what    *)
(* _run_client saw still holds when its client starts.                     *)
THEOREM ResultsKept == Spec => NoRework
<1>1. ASSUME IInv, [Next]_vars
      PROVE  [~PrintsFail => \A c \in alive' \ alive : c.job \notin valid]_vars
  <2>1. ASSUME NEW w \in Workers, Launch(w), ~PrintsFail
        PROVE  \A c \in alive' \ alive : c.job \notin valid
    <3>1. alive' \subseteq alive \cup {held[w]} /\ pc[w] = "launch"
      BY <2>1 DEF Launch
    <3>2. held[w].job \notin valid
      BY <1>1, <2>1, <3>1 DEF IInv, ClientInv
    <3>3. QED
      BY <3>1, <3>2
  <2>2. ASSUME Next, ~\E w \in Workers : Launch(w)
        PROVE  alive' \subseteq alive
    BY <2>2 DEF Next, MainStep, WorkerStep, Stagger, Pull, Check, Register, Observe, Decide, Retry,
       Settle, Die, ServerExits, Cancel, ClientWrites, ClientExits, SpawnServer, AddServer, Submit,
       StartFails, Drained, AllRetired, Collect, Interrupt, Snapshot, Kill, Summarize, clientVars
  <2>3. QED
    BY <1>1, <2>1, <2>2
<1>2. QED
  BY <1>1, Invariance, PTL DEF Spec, NoRework
=============================================================================
