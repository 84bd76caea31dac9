---------------------------- MODULE PolicyWorker ----------------------------
(***************************************************************************)
(* A Labtasker evaluation worker (benchmarks/{libero,robotwin}/            *)
(* labtasker_worker.py) with the processes it owns: the policy server it   *)
(* keeps across tasks (utils/task_policy.py), one client per task, and     *)
(* between the worker and each of them a guardian                          *)
(* (utils/resource_process.py) that ends its command when it is told to,   *)
(* or when the pipe to its worker closes.                                  *)
(*                                                                         *)
(* A task is the model it asks for.  A process is an identifier of Procs,  *)
(* free again once nothing of it is left.  Workers follow each other on    *)
(* the same port: a worker may be killed and another started at any time,  *)
(* while guardians of the first are still at work.  Labtasker (claiming,   *)
(* revoking, accepting) is external.                                       *)
(***************************************************************************)
EXTENDS Naturals, FiniteSets, Sequences

CONSTANTS
    Models,    \* what tasks ask for: model["identity"]
    Procs,     \* guardian processes, with the command each runs
    MaxKills,  \* bound: guardians killed from outside, children that wedge
    Foreign,   \* whether a server of somebody else may hold the port at first
    None

WorkerAssumption ==
    /\ Models # {} /\ None \notin Models
    /\ Procs \subseteq Nat /\ IsFiniteSet(Procs) /\ None \notin Procs
    /\ MaxKills \in Nat /\ Foreign \in BOOLEAN

VARIABLES
    pc,           \* where the worker is; "off" before, between and after workers
    task,         \* the model its task asks for
    revoked,      \* labtasker.cancellation_requested()
    interrupted,  \* a SIGINT or SIGTERM was taken; later ones are ignored
    process,      \* WorkerPolicyServer.process
    identity,     \* WorkerPolicyServer.identity
    client,       \* the client process of the task, and what it returned
    owned,        \* the two ProcessRegistry: processes of each
    todo,         \* the registries to terminate, in order
    then,         \* where the worker goes afterwards
    snapshot,     \* the processes terminate_all took out of a registry
    proc,         \* every process, see Process
    spoiled,      \* history: a client of the server did not finish
    foreign,      \* somebody else's server holds the port
    kills         \* how many faults of MaxKills happened

callVars   == <<todo, then, snapshot>>
serverVars == <<process, identity>>
workerVars == <<pc, task, revoked, interrupted, serverVars, client, owned, callVars>>
envVars    == <<foreign, kills>>
vars       == <<workerVars, proc, spoiled, envVars>>

Process ==
    [kind     : {"server", "client"},
     model    : Models,
     mine     : BOOLEAN,  \* started by the worker that runs now
     guardian : {"up", "stopping", "gone", "killed"},
     term     : BOOLEAN,  \* SIGTERM sent to the guardian
     eof      : BOOLEAN,  \* its stdin is closed
     child    : {"none", "loading", "serving", "running", "succeeded", "exited", "wedged"},
     misled   : BOOLEAN]  \* history: another model answered this client

Alive(r)   == proc[r].child \in {"loading", "serving", "running"}
Exited(r)  == proc[r].guardian \in {"gone", "killed"}  \* process.poll() is not None
Present(r) == Alive(r) \/ proc[r].child = "wedged" \/ ~Exited(r)
Beyond(r)  == proc[r].guardian = "killed" \/ proc[r].child = "wedged"  \* out of control
Free       == {r \in Procs : ~Present(r) /\ r \notin {process, client} \cup snapshot
                                                    \cup owned.server \cup owned.clients}
Serving    == {r \in Procs : proc[r].child = "serving"}
PortTaken  == foreign \/ \E r \in Procs : proc[r].child \in {"serving", "wedged"}

Nothing ==
    [kind |-> "client", model |-> CHOOSE m \in Models : TRUE, mine |-> FALSE,
     guardian |-> "gone", term |-> FALSE, eof |-> FALSE, child |-> "none", misled |-> FALSE]

(* Of a process that ended only its exit code is left. *)
Settle(p) ==
    IF p.guardian \in {"gone", "killed"} /\ p.child \in {"none", "succeeded", "exited"}
    THEN [Nothing EXCEPT !.child = IF p.guardian = "gone" /\ p.child = "succeeded"
                                   THEN "succeeded" ELSE "none"]
    ELSE p

Succeeded(r) == Exited(r) /\ proc[r].child = "succeeded"

Init ==
    /\ pc = "off" /\ task = None /\ revoked = FALSE /\ interrupted = FALSE
    /\ process = None /\ identity = None /\ client = None
    /\ owned = [server |-> {}, clients |-> {}]
    /\ todo = <<>> /\ then = "off" /\ snapshot = {}
    /\ proc = [r \in Procs |-> Nothing] /\ spoiled = FALSE
    /\ foreign \in {FALSE, Foreign} /\ kills = 0
-----------------------------------------------------------------------------
(* ProcessRegistry.terminate_all, on the registries of `todo`.             *)

Terminate(registries, label) ==
    /\ pc' = "take" /\ todo' = registries /\ then' = label
    /\ UNCHANGED snapshot

(* The swap under the registry's lock.  WorkerPolicyServer.close forgets   *)
(* its model and process before it.                                        *)
Take ==
    /\ pc = "take"
    /\ snapshot' = owned[Head(todo)]
    /\ owned' = [owned EXCEPT ![Head(todo)] = {}]
    /\ IF Head(todo) = "server"
       THEN process' = None /\ identity' = None
       ELSE UNCHANGED serverVars
    /\ pc' = "signal"
    /\ UNCHANGED <<task, revoked, interrupted, client, todo, then, proc, spoiled, envVars>>

Signal ==
    /\ pc = "signal"
    /\ proc' = [r \in Procs |->
                  IF r \in snapshot /\ ~Exited(r) THEN [proc[r] EXCEPT !.term = TRUE] ELSE proc[r]]
    /\ pc' = "await"
    /\ UNCHANGED <<task, revoked, interrupted, serverVars, client, owned, callVars, spoiled, envVars>>

(* A worker that ends takes its registries and its memory with it, also    *)
(* of what an interrupt kept it from terminating.                          *)
Leave(label) ==
    /\ pc' = label
    /\ IF label \in {"idle", "off"}
       THEN task' = None /\ revoked' = FALSE /\ client' = None
       ELSE UNCHANGED <<task, revoked, client>>
    /\ IF label = "off"
       THEN process' = None /\ identity' = None /\ owned' = [server |-> {}, clients |-> {}]
       ELSE UNCHANGED <<serverVars, owned>>
    /\ interrupted' = (interrupted /\ label # "off")

(* What a worker that ends leaves behind: its pipes close, and nobody      *)
(* reads exit codes.                                                       *)
Disown(f) ==
    [r \in Procs |->
       IF ~f[r].mine THEN f[r]
       ELSE [f[r] EXCEPT !.mine = FALSE, !.eof = TRUE, !.misled = FALSE,
                         !.term = @ /\ f[r].child = "none",
                         !.child = IF @ = "succeeded" THEN "exited" ELSE @]]

(* All guardians exit within the 15 seconds, which are longer than the     *)
(* five a guardian gives its child; or one waits for a child that cannot   *)
(* be killed, and is killed itself.  Then the next registry, or the return *)
(* to the caller.                                                          *)
Await ==
    /\ pc = "await"
    /\ \A r \in snapshot : Exited(r) \/ proc[r].child = "wedged"
    /\ snapshot' = {} /\ todo' = Tail(todo)
    /\ LET killed == [r \in Procs |->
                          IF r \in snapshot /\ ~Exited(r)
                          THEN Settle([proc[r] EXCEPT !.guardian = "killed"]) ELSE proc[r]]
       IN  IF Tail(todo) # <<>>
           THEN /\ pc' = "take" /\ proc' = killed
                /\ UNCHANGED <<task, revoked, client, interrupted, then, serverVars, owned>>
           ELSE /\ Leave(then) /\ then' = "off"
                /\ proc' = IF then = "off" THEN Disown(killed) ELSE killed
    /\ UNCHANGED <<spoiled, envVars>>

TerminateAll == Take \/ Signal \/ Await
-----------------------------------------------------------------------------
(* The worker. *)

Start ==
    /\ pc = "off"
    /\ pc' = "idle"
    /\ UNCHANGED <<task, revoked, interrupted, serverVars, client, owned, callVars, proc, spoiled, envVars>>

(* A task needs at most a server and a client; its range, its manifest and *)
(* its settings were validated, or it fails here without a trace.          *)
Claim(m) ==
    /\ pc = "idle"
    /\ Cardinality(Free) >= 2
    /\ task' = m /\ pc' = "load"
    /\ UNCHANGED <<revoked, interrupted, serverVars, client, owned, callVars, proc, spoiled, envVars>>

(* The idle timeout, a failure limit: run_task's and main's `finally`. *)
Quit ==
    /\ pc = "idle"
    /\ Terminate(<<"clients", "server">>, "off")
    /\ UNCHANGED <<task, revoked, interrupted, serverVars, client, owned, proc, spoiled, envVars>>

Reusable == identity = task /\ process # None /\ ~Exited(process)

(* Fault: the old server is not closed before the next is loaded. *)
LoadBeside ==
    /\ pc = "load"
    /\ pc' = IF Reusable THEN "runClient" ELSE "spawn"
    /\ UNCHANGED <<callVars, task, revoked, interrupted, serverVars, client, owned, proc, spoiled, envVars>>

(* load_or_reuse *)
Load ==
    /\ pc = "load"
    /\ \/ Reusable /\ pc' = "runClient" /\ UNCHANGED callVars
       \/ ~Reusable /\ Terminate(<<"server">>, "spawn")
    /\ UNCHANGED <<task, revoked, interrupted, serverVars, client, owned, proc, spoiled, envVars>>

New(kind) ==
    [kind |-> kind, model |-> task, mine |-> TRUE, guardian |-> "up", term |-> FALSE,
     eof |-> FALSE, child |-> "none", misled |-> FALSE]

Lowest(r) == r \in Free /\ \A s \in Free : r <= s

(* Popen, then the registry: an interrupt in between leaves a process that *)
(* no registry knows.                                                      *)
Spawn(r) ==
    /\ pc = "spawn" /\ Lowest(r)
    /\ proc' = [proc EXCEPT ![r] = New("server")] /\ spoiled' = FALSE
    /\ process' = r
    /\ pc' = "own"
    /\ UNCHANGED <<task, revoked, interrupted, identity, client, owned, callVars, envVars>>

Own ==
    /\ pc = "own"
    /\ owned' = [owned EXCEPT !.server = @ \cup {process}]
    /\ pc' = "ping"
    /\ UNCHANGED <<task, revoked, interrupted, serverVars, client, callVars, proc, spoiled, envVars>>

(* Fault: whoever answers on the port is taken for the server. *)
PingAnyone ==
    /\ pc = "ping"
    /\ \/ /\ ~Exited(process) /\ (foreign \/ Serving # {})
          /\ identity' = task
          /\ pc' = "runClient"
          /\ UNCHANGED callVars
       \/ Terminate(<<"server", "clients">>, "idle") /\ UNCHANGED identity
    /\ UNCHANGED <<task, revoked, interrupted, process, client, owned, proc, spoiled, envVars>>

(* The readiness loop: the server answers with its token, or it exited,    *)
(* the task was revoked, something else holds the port, or time is up.     *)
(* A refused connection is tried again.                                    *)
Ping ==
    /\ pc = "ping"
    /\ \/ /\ ~Exited(process) /\ process \in Serving
          /\ identity' = task
          /\ pc' = "runClient"
          /\ UNCHANGED callVars
       \/ Terminate(<<"server", "clients">>, "idle") /\ UNCHANGED identity
    /\ UNCHANGED <<task, revoked, interrupted, process, client, owned, proc, spoiled, envVars>>

(* _run_client: the spawn and the add, which an interrupt may part. *)
RunClient(r) ==
    /\ pc = "runClient" /\ Lowest(r)
    /\ proc' = [proc EXCEPT ![r] = New("client")]
    /\ client' = r
    /\ pc' = "ownClient"
    /\ UNCHANGED <<task, revoked, interrupted, serverVars, owned, callVars, spoiled, envVars>>

OwnClient ==
    /\ pc = "ownClient"
    /\ owned' = [owned EXCEPT !.clients = @ \cup {client}]
    /\ pc' = "watch"
    /\ UNCHANGED <<task, revoked, interrupted, serverVars, client, callVars, proc, spoiled, envVars>>

(* Fault: a revoked task's client is waited for. *)
WatchOn ==
    /\ pc = "watch"
    /\ Exited(client)
    /\ IF Succeeded(client)
       THEN Terminate(<<"clients">>, "finish")
       ELSE Terminate(<<"server", "clients">>, "idle")
    /\ UNCHANGED <<task, revoked, interrupted, serverVars, client, owned, proc, spoiled, envVars>>

(* The client exited or the task was revoked.  Without a valid result the  *)
(* server goes first (`except Exception`), then the client (`finally`).    *)
Watch ==
    /\ pc = "watch"
    /\ Exited(client) \/ revoked
    /\ IF Succeeded(client)
       THEN Terminate(<<"clients">>, "finish")
       ELSE Terminate(<<"server", "clients">>, "idle")
    /\ UNCHANGED <<task, revoked, interrupted, serverVars, client, owned, proc, spoiled, envVars>>

(* labtasker.finish: accepted or, for a revoked task, refused. *)
Finish ==
    /\ pc = "finish"
    /\ Leave("idle")
    /\ UNCHANGED <<callVars, proc, spoiled, envVars>>

WorkerStep ==
    \/ TerminateAll \/ Load \/ Own \/ Ping \/ OwnClient \/ Watch \/ Finish
    \/ \E r \in Procs : Spawn(r) \/ RunClient(r)

(* `interrupt` raises KeyboardInterrupt wherever the worker is, inside     *)
(* terminate_all too; the `finally` clauses on the way out remain.         *)
Interrupt ==
    /\ pc # "off" /\ ~interrupted
    /\ interrupted' = TRUE
    /\ IF pc \in {"take", "signal", "await"} /\ then = "off"
       THEN pc' = "await" /\ UNCHANGED todo
       ELSE /\ pc' = "take"
            /\ todo' = IF pc \in {"own", "ping"} THEN <<"server", "clients">>
                                                 ELSE <<"clients", "server">>
    /\ then' = "off" /\ snapshot' = {}
    /\ UNCHANGED <<task, revoked, serverVars, client, owned, proc, spoiled, envVars>>

(* The worker is killed; the operating system closes its pipes. *)
Crash ==
    /\ pc # "off"
    /\ Leave("off")
    /\ todo' = <<>> /\ then' = "off" /\ snapshot' = {}
    /\ proc' = Disown(proc)
    /\ UNCHANGED <<spoiled, envVars>>

Revoke ==
    /\ task # None /\ ~revoked /\ revoked' = TRUE
    /\ UNCHANGED <<pc, task, interrupted, serverVars, client, owned, callVars, proc, spoiled, envVars>>
-----------------------------------------------------------------------------
(* resource_process.main, and the command it runs. *)

Put(r, p) == proc' = [proc EXCEPT ![r] = Settle(p)]
Set(r, p) == Put(r, p) /\ UNCHANGED <<workerVars, spoiled, envVars>>

(* Python starts and spawns the command; a SIGTERM that comes before the   *)
(* handlers are installed ends the guardian without one.                   *)
GuardianStarts(r) ==
    /\ proc[r].guardian = "up" /\ proc[r].child = "none"
    /\ \/ Set(r, [proc[r] EXCEPT !.child = IF @ = "none" /\ proc[r].kind = "server"
                                           THEN "loading" ELSE "running"])
       \/ proc[r].term /\ Set(r, [proc[r] EXCEPT !.guardian = "gone"])

(* Fault: the guardian does not watch the pipe to its worker. *)
GuardianIgnoresEof(r) ==
    /\ proc[r].guardian = "up" /\ proc[r].child # "none"
    /\ proc[r].term \/ ~Alive(r)
    /\ Set(r, [proc[r] EXCEPT !.guardian = "stopping"])

(* The loop ends: by a signal, by EOF, or because the command exited. *)
GuardianStops(r) ==
    /\ proc[r].guardian = "up" /\ proc[r].child # "none"
    /\ proc[r].term \/ proc[r].eof \/ ~Alive(r)
    /\ Set(r, [proc[r] EXCEPT !.guardian = "stopping"])

(* SIGTERM, then SIGKILL; or the command hangs in the kernel. *)
ChildKilled(r) ==
    /\ proc[r].guardian = "stopping" /\ Alive(r)
    /\ Set(r, [proc[r] EXCEPT !.child = "exited"])

ChildWedges(r) ==
    /\ proc[r].guardian = "stopping" /\ Alive(r) /\ kills < MaxKills
    /\ Put(r, [proc[r] EXCEPT !.child = "wedged"])
    /\ kills' = kills + 1
    /\ UNCHANGED <<workerVars, spoiled, foreign>>

GuardianExits(r) ==
    /\ proc[r].guardian = "stopping" /\ ~Alive(r) /\ proc[r].child # "wedged"
    /\ Set(r, [proc[r] EXCEPT !.guardian = "gone"])

(* The guardian is killed from outside; its command lives on.  Bound: not  *)
(* while its server loads.                                                 *)
GuardianKilled(r) ==
    /\ ~Exited(r) /\ proc[r].child # "loading" /\ kills < MaxKills
    /\ Put(r, [proc[r] EXCEPT !.guardian = "killed"])
    /\ kills' = kills + 1
    /\ UNCHANGED <<workerVars, spoiled, foreign>>

(* The policy server binds its port once the model is loaded, or fails.    *)
(* Loading takes longer than the five seconds in which a guardian ends     *)
(* what an earlier worker left.                                            *)
ServerBinds(r) ==
    /\ proc[r].child = "loading"
    /\ proc[r].mine => \A s \in Procs : proc[s].mine \/ Exited(s) \/ Beyond(s)
    /\ Set(r, [proc[r] EXCEPT !.child = IF PortTaken THEN "exited" ELSE "serving"])

(* A command exits: a server or orphan that crashes, a client that failed  *)
(* and thereby leaves an episode unfinished on the server, or a wedged     *)
(* command that is let go.                                                 *)
ChildFails(r) ==
    /\ Alive(r) \/ proc[r].child = "wedged"
    /\ Put(r, [proc[r] EXCEPT !.child = "exited"])
    /\ spoiled' = (spoiled \/ r = client)
    /\ UNCHANGED <<workerVars, envVars>>

(* A client asks whoever serves on the port; recorded when it should not. *)
ClientAsks(r) ==
    /\ proc[r].child = "running" /\ proc[r].mine
    /\ foreign \/ \E s \in Serving : proc[s].model # proc[r].model
    /\ Set(r, [proc[r] EXCEPT !.misled = TRUE])

ClientSucceeds(r) ==
    /\ proc[r].child = "running" /\ proc[r].mine
    /\ Set(r, [proc[r] EXCEPT !.child = "succeeded"])

ForeignLeaves ==
    /\ foreign /\ foreign' = FALSE
    /\ UNCHANGED <<workerVars, proc, spoiled, kills>>

Guardian(r) == GuardianStarts(r) \/ GuardianStops(r) \/ ChildKilled(r) \/ GuardianExits(r)

Next ==
    \/ Start \/ Quit \/ WorkerStep \/ Interrupt \/ Crash \/ Revoke \/ ForeignLeaves
    \/ \E m \in Models : Claim(m)
    \/ \E r \in Procs :
          \/ Guardian(r) \/ ChildWedges(r) \/ GuardianKilled(r)
          \/ ServerBinds(r) \/ ChildFails(r) \/ ClientAsks(r) \/ ClientSucceeds(r)

Spec == Init /\ [][Next]_vars

(* The worker's threads and the guardians run; servers need not load,      *)
(* clients need not end and nobody need start another worker.              *)
FairSpec ==
    /\ Spec
    /\ WF_vars(WorkerStep)
    /\ \A r \in Procs : WF_vars(Guardian(r))
-----------------------------------------------------------------------------
TypeOK ==
    /\ pc \in {"off", "idle", "load", "spawn", "own", "ping", "runClient", "ownClient", "watch",
              "finish", "take", "signal", "await"}
    /\ task \in Models \cup {None} /\ (task = None => ~revoked)
    /\ {process, client} \subseteq Procs \cup {None} /\ identity \in Models \cup {None}
    /\ owned \in [{"server", "clients"} -> SUBSET Procs] /\ snapshot \subseteq Procs
    /\ todo \in Seq({"server", "clients"}) /\ then \in {"off", "idle", "spawn", "finish"}
    /\ proc \in [Procs -> Process]
    /\ owned.server \subseteq {process} /\ owned.clients \subseteq {client}

(* A result is accepted only from a client that no other model answered:   *)
(* not a server kept for another task, nor one that an earlier worker, a   *)
(* dead guardian or a stranger left on the port.                           *)
RightModel ==
    \A r \in Procs : proc[r].mine /\ proc[r].kind = "client" /\ ~Beyond(r) =>
                       ~proc[r].misled

(* "One lazily loaded policy server": a worker never has two (the GPU      *)
(* holds one), and no two clients ever share it, whatever was interrupted, *)
(* revoked or restarted; beyond control is only what outlived its guardian *)
(* or does not die.                                                        *)
OneOfEach ==
    \A r, s \in Procs :
       /\ Alive(r) /\ Alive(s) /\ proc[r].kind = proc[s].kind /\ r # s
       /\ ~Beyond(r) /\ ~Beyond(s)
       => proc[r].kind = "server" /\ ~(proc[r].mine /\ proc[s].mine)

(* After a client failed in the middle of an episode its server is not     *)
(* reused.                                                                 *)
FreshAfterFailure == pc = "runClient" => ~spoiled

(* "EOF on stdin means its owning Worker is gone": whatever a worker       *)
(* leaves behind ends, registered or not.                                  *)
NothingLeft ==
    \A r \in Procs : (Present(r) /\ ~proc[r].mine) ~> (~Present(r) \/ Beyond(r))

(* A revoked or interrupted worker gives its task up, even when a client   *)
(* would never end or a process cannot be killed.                          *)
GivesUp == (revoked \/ interrupted) ~> pc \in {"idle", "off"}
=============================================================================
