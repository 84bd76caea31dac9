----------------------------- MODULE MCServing -----------------------------
(***************************************************************************)
(* What calls are promised, checked in one run: five systems side by side  *)
(* that never meet in a state, told apart by `system`.                     *)
(*   "async"      AsyncExecutor, a chunk of full length per inference      *)
(*   "lengths"    AsyncExecutor as it is configured by default, with       *)
(*                chunks of all lengths                                    *)
(*   "sync"       SyncExecutor, with chunks of all lengths                 *)
(*   "transport"  PolicyTransport                                          *)
(*   "worker"     PolicyWorker, with as many processes as one worker needs *)
(* The variables of the others are at None, those of AsyncExecutor, whose  *)
(* properties are those its theorems are about, where they begin.          *)
(***************************************************************************)
EXTENDS AsyncExecutor

CONSTANTS
    m1, m2, None,
    (* the lengths of the chunks and the bounds of the other executors *)
    LengthsActions, LengthsChunks, LengthsSteps, LengthsEpisodes,
    SyncActions, SyncChunks, SyncHorizon, SyncSteps, SyncEpisodes,
    RemoteActions, RemoteChunks, RemoteHorizon, RemoteSteps, RemoteEpisodes, MaxClients

VARIABLES
    system,
    sBuffer, sEpisode, sServed, sDelivered, raised,
    sPending, sStartStep, sDelay, sStep, sPhase, sConds, sDraining, sQueued, sRunning,
    sResults, sPool, sError,
    plan, once, client, robotEpisode, robotStep, executed, call, pc, attempt,
    socket, opened, broken, wire, answers,
    task, revoked, interrupted, process, identity, owned, todo, then,
    snapshot, proc, spoiled, foreign, kills

Lengths == INSTANCE AsyncExecutorProofs WITH
    ActionHorizon <- LengthsActions, ChunkLengths <- LengthsChunks, InferenceHorizon <- Unset,
    DelaySteps <- Unset, MayFail <- TRUE, MaxSteps <- LengthsSteps, MaxEpisodes <- LengthsEpisodes,
    buffer <- sBuffer, pending <- sPending, startStep <- sStartStep, delay <- sDelay,
    step <- sStep, phase <- sPhase, conds <- sConds, draining <- sDraining,
    queued <- sQueued, running <- sRunning, results <- sResults, pool <- sPool,
    episode <- sEpisode, served <- sServed, delivered <- sDelivered, error <- sError

Sync == INSTANCE SyncExecutor WITH
    ActionHorizon <- SyncActions, ChunkLengths <- SyncChunks, InferenceHorizon <- SyncHorizon,
    MayFail <- TRUE, MaxSteps <- SyncSteps, MaxEpisodes <- SyncEpisodes,
    buffer <- sBuffer, episode <- sEpisode, served <- sServed, delivered <- sDelivered

Transport == INSTANCE PolicyTransportProofs WITH
    ActionHorizon <- RemoteActions, ChunkLengths <- RemoteChunks, InferenceHorizon <- RemoteHorizon,
    MayFail <- TRUE, MaxSteps <- RemoteSteps, MaxEpisodes <- RemoteEpisodes,
    buffer <- sBuffer, episode <- sEpisode, served <- sServed, delivered <- sDelivered

Worker == INSTANCE PolicyWorker WITH Models <- {m1, m2}, Procs <- {1, 2}, MaxKills <- 1, Foreign <- TRUE

ASSUME ServingAssumption ==
    /\ Lengths!ConfigAssumption /\ Sync!ConfigAssumption /\ Worker!WorkerAssumption
    /\ Transport!BoundAssumption /\ Transport!Policy!ConfigAssumption

asyncVars  == <<buffer, pending, startStep, delay, step, phase, conds, draining, queued, running,
                results, pool, episode, served, delivered, error>>
serverVars == <<sBuffer, sEpisode, sServed, sDelivered>>
lengthVars == <<sPending, sStartStep, sDelay, sStep, sPhase, sConds, sDraining, sQueued, sRunning,
                sResults, sPool, sError>>
robotSide  == <<plan, once, robotEpisode, robotStep, executed, call, attempt, socket, opened,
                broken, wire, answers>>
clientVars == <<client, pc>>
workerSide == <<task, revoked, interrupted, process, identity, owned, todo, then, snapshot, proc,
                spoiled, foreign, kills>>

NoServer  == sBuffer = None /\ sEpisode = None /\ sServed = None /\ sDelivered = None
NoError   == raised = None
NoLengths == /\ sPending = None /\ sStartStep = None /\ sDelay = None /\ sStep = None /\ sPhase = None
             /\ sConds = None /\ sDraining = None /\ sQueued = None /\ sRunning = None
             /\ sResults = None /\ sPool = None /\ sError = None
NoRobot  == /\ plan = None /\ once = None /\ robotEpisode = None /\ robotStep = None /\ executed = None
            /\ call = None /\ attempt = None /\ socket = None /\ opened = None /\ broken = None
            /\ wire = None /\ answers = None
NoClient == client = None /\ pc = None
NoWorker == /\ task = None /\ revoked = None /\ interrupted = None /\ process = None /\ identity = None
            /\ owned = None /\ todo = None /\ then = None /\ snapshot = None /\ proc = None
            /\ spoiled = None /\ foreign = None /\ kills = None

ServingInit ==
    /\ Init
    /\ \/ system = "async" /\ NoServer /\ NoLengths /\ NoError /\ NoRobot /\ NoClient /\ NoWorker
       \/ system = "lengths" /\ Lengths!Init /\ NoError /\ NoRobot /\ NoClient /\ NoWorker
       \/ system = "sync" /\ Sync!Init /\ NoLengths /\ NoRobot /\ NoClient /\ NoWorker
       \/ system = "transport" /\ Transport!Init /\ NoLengths /\ NoWorker
       \/ system = "worker" /\ Worker!Init /\ NoServer /\ NoLengths /\ NoError /\ NoRobot

ServingNext ==
    /\ UNCHANGED system
    /\ \/ system = "async" /\ Next
            /\ UNCHANGED <<serverVars, lengthVars, raised, robotSide, clientVars, workerSide>>
       \/ system = "lengths" /\ Lengths!Next
            /\ UNCHANGED <<asyncVars, raised, robotSide, clientVars, workerSide>>
       \/ system = "sync" /\ Sync!Next
            /\ UNCHANGED <<asyncVars, lengthVars, robotSide, clientVars, workerSide>>
       \/ system = "transport" /\ Transport!Next /\ UNCHANGED <<asyncVars, lengthVars, workerSide>>
       \/ system = "worker" /\ Worker!Next
            /\ UNCHANGED <<asyncVars, serverVars, lengthVars, raised, robotSide>>

servingVars == <<system, asyncVars, serverVars, lengthVars, raised, robotSide, clientVars, workerSide>>

(* The fairness of each system, of its own steps.                          *)
In(name, A) == system = name /\ A
ServingSpec ==
    /\ ServingInit /\ [][ServingNext]_servingVars
    /\ WF_vars(In("async", GenerateReturn)) /\ WF_vars(In("async", AdoptReturn))
    /\ WF_vars(In("async", DrainReturn))
    /\ WF_vars(In("async", WorkerStart)) /\ WF_vars(In("async", WorkerFinish))
    /\ WF_vars(In("async", PoolShutdown)) /\ WF_vars(In("async", PoolJoin))
    /\ WF_Transport!vars(In("transport", Transport!Send))
    /\ WF_Transport!vars(In("transport", Transport!Receive \/ Transport!Dropped \/ Transport!TimeOut))
    /\ WF_Worker!vars(In("worker", Worker!WorkerStep))
    /\ \A r \in {1, 2} : WF_Worker!vars(In("worker", Worker!Guardian(r)))
-----------------------------------------------------------------------------
(* The calls of the robot's process and of the executor return: the        *)
(* CallReturns of AsyncExecutor and PolicyTransport, and ShutdownReturns.  *)
EveryCallReturns ==
    /\ CallReturns
    /\ ShutdownReturns
    /\ (system = "transport" /\ pc \in {"send", "recv"}) ~> (pc \in {"idle", "gone"})

(* The synchronous executor implements ActionStream and mixes no chunks:   *)
(* StreamSpec and NoMixing of SyncExecutor.  So does the asynchronous one  *)
(* with chunks of all lengths implement it, and keep its invariant.        *)
OtherStreams ==
    /\ [](system = "lengths" => Lengths!IInv)
    /\ [][system = "lengths" =>
             Lengths!Stream!Next \/ UNCHANGED <<sEpisode, sServed, sDelivered>>]_servingVars
    /\ [][system = "sync" => Sync!Stream!Next \/ UNCHANGED <<sEpisode, sServed, sDelivered>>]_servingVars
    /\ [][system = "sync" /\ sServed' = sServed + 1 =>
             \/ sDelivered'.index = 0 /\ sDelivered'.obs = Sync!Now
             \/ /\ sDelivered'.obs = sDelivered.obs
                /\ sDelivered'.index = sDelivered.index + 1
                /\ SyncHorizon # Unset => sDelivered'.index < SyncHorizon]_servingVars

(* No answer is taken for that to another request, a reset isolates the    *)
(* episodes, and a retry costs at most a bounded lag: AnswersMatch,        *)
(* SameEpisode and LagBound of PolicyTransport.                            *)
AnswersMatch ==
    system = "transport" => Transport!AnswersMatch /\ Transport!SameEpisode /\ Transport!LagBound

(* Without retries the robot sees what ActionStream promises.              *)
EndToEnd ==
    [][system = "transport" /\ once =>
          Transport!Stream!Next \/ UNCHANGED <<robotEpisode, robotStep, executed>>]_servingVars

(* What a worker leaves behind ends: PolicyWorker.                         *)
NothingLeft ==
    \A r \in {1, 2} :
        (system = "worker" /\ Worker!Present(r) /\ ~proc[r].mine)
            ~> (system = "worker" /\ (~Worker!Present(r) \/ Worker!Beyond(r)))

(* A revoked or interrupted worker gives its task up: PolicyWorker.        *)
GivesUp == (system = "worker" /\ (revoked \/ interrupted)) ~> pc \in {"idle", "off"}
=============================================================================
