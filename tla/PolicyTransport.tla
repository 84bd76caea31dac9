--------------------------- MODULE PolicyTransport ---------------------------
(***************************************************************************)
(* A robot driven over the network: a benchmark bridge calls               *)
(* WSPolicyClient (benchmarks/utils/transport.py), which sends each        *)
(* request over a WebSocket to PolicyServer (openwam/deploy/server.py),    *)
(* whose connections share one policy, here with the synchronous executor. *)
(*                                                                         *)
(* Connections drop, answers come too late, clients die and are started    *)
(* again, and the server may still serve what a client has given up.  The  *)
(* server's event loop is blocked while it predicts, so one message is one *)
(* step of it, and requests reach it in the order they were sent.          *)
(*                                                                         *)
(* An observation is named by the client's episode and control step, an    *)
(* action by its observation and its index in the chunk.                   *)
(***************************************************************************)
EXTENDS Integers, Sequences

CONSTANTS
    ActionHorizon, ChunkLengths, InferenceHorizon, Unset, MayFail,   \* see SyncExecutor
    MaxSteps,      \* bound: control steps per episode
    MaxEpisodes,   \* bound: episodes of all clients
    MaxClients     \* bound: client processes, one after the other

BoundAssumption ==
    /\ MaxSteps \in Nat
    /\ MaxEpisodes \in Nat \ {0} /\ MaxClients \in Nat \ {0}

VARIABLES
    buffer, episode, served, delivered, raised,   \* the server's policy, see SyncExecutor
    plan,          \* the observation the buffer was generated from
    once,          \* whether the bridge calls predict_once instead of predict
    client,        \* which client process runs
    robotEpisode,  \* episodes begun by the clients, from 1
    robotStep,     \* control step of the running episode
    executed,      \* the last action the robot executed, and when
    call,          \* the request the client makes next or is making
    pc,            \* "idle", in _roundtrip ("send", "recv"), or "gone"
    attempt,       \* the attempt of _roundtrip, from 0
    socket,        \* _ws, 0 for None
    opened,        \* connections opened so far
    broken,        \* connections dropped, or closed by the client
    wire,          \* requests the server has not read
    answers        \* answers the client has not read

policyVars == <<buffer, episode, served, delivered, raised, plan>>
robotVars  == <<once, client, robotEpisode, robotStep, executed>>
netVars    == <<opened, broken, wire, answers>>
vars == <<policyVars, robotVars, call, pc, attempt, socket, netVars>>

Policy == INSTANCE SyncExecutor WITH
    MaxSteps <- 2 * MaxSteps,            \* two attempts per control step
    MaxEpisodes <- 2 * MaxEpisodes + 1   \* and per reset

Obs     == [episode : Nat, step : Nat]
NoObs   == [episode |-> 0, step |-> 0]
Now     == [episode |-> robotEpisode, step |-> robotStep]
Nothing == [episode |-> 0, step |-> 0, obs |-> NoObs, index |-> 0]

Kinds   == {"ping", "reset", "obs"}
Request == [kind : Kinds, client : Nat, obs : Obs]
Current == [kind |-> call, client |-> client, obs |-> Now]

(* predict and reset reconnect and resend once; ping and predict_once do not. *)
Reconnects == call = "reset" \/ (call = "obs" /\ ~once)
-----------------------------------------------------------------------------
Init ==
    /\ Policy!Init /\ plan = NoObs
    /\ once \in BOOLEAN
    /\ client = 1 /\ robotEpisode = 1 /\ robotStep = 0 /\ executed = Nothing
    /\ call = "ping" /\ pc = "idle" /\ attempt = 0
    /\ socket = 0 /\ opened = 0 /\ broken = {}
    /\ wire = <<>> /\ answers = {}
-----------------------------------------------------------------------------
(* The bridge: ping once per process, reset at the start of an episode,    *)
(* then one observation per control step, and a new episode at any time.   *)
StartPing ==
    /\ pc = "idle" /\ call = "ping"
    /\ pc' = "send" /\ attempt' = 0
    /\ UNCHANGED <<policyVars, robotVars, call, socket, netVars>>

StartReset ==
    /\ pc = "idle" /\ call \in {"reset", "obs"}
    /\ robotEpisode <= MaxEpisodes
    /\ robotEpisode' = robotEpisode + 1
    /\ robotStep' = 0
    /\ call' = "reset" /\ pc' = "send" /\ attempt' = 0
    /\ UNCHANGED <<policyVars, once, client, executed, socket, netVars>>

StartPredict ==
    /\ pc = "idle" /\ call = "obs"
    /\ robotStep < MaxSteps
    /\ pc' = "send" /\ attempt' = 0
    /\ UNCHANGED <<policyVars, robotVars, call, socket, netVars>>

(* An exception ends the client; a later attempt of its job is a new       *)
(* process, which pings and resets before it predicts.  Its predecessor's  *)
(* socket is closed by its end at the latest.                              *)
ClientEnds ==
    /\ IF client < MaxClients THEN pc' = "idle" /\ client' = client + 1
                              ELSE pc' = "gone" /\ UNCHANGED client
    /\ call' = "ping" /\ attempt' = 0
    /\ socket' = 0
    /\ broken' = IF socket = 0 THEN broken ELSE broken \cup {socket}
    /\ answers' = {a \in answers : a.conn # socket}
    /\ UNCHANGED <<once, robotEpisode, robotStep, executed>>

Killed ==
    /\ pc # "gone"
    /\ ClientEnds
    /\ UNCHANGED <<policyVars, opened, wire>>
-----------------------------------------------------------------------------
(* _roundtrip *)

(* Fault: the retry goes on with the connection it has. *)
GiveUpKeepingSocket ==
    \/ /\ attempt = 0 /\ Reconnects
       /\ attempt' = 1 /\ pc' = "send"
       /\ UNCHANGED <<robotVars, call, socket, broken, answers>>
    \/ /\ attempt = 1 \/ ~Reconnects
       /\ ClientEnds

(* An error in _DROP_ERRORS: close, and reconnect once or raise. *)
GiveUp ==
    \/ /\ attempt = 0 /\ Reconnects
       /\ attempt' = 1 /\ pc' = "send"
       /\ socket' = 0
       /\ broken' = broken \cup {socket}
       /\ answers' = {a \in answers : a.conn # socket}
       /\ UNCHANGED <<robotVars, call>>
    \/ /\ attempt = 1 \/ ~Reconnects
       /\ ClientEnds

(* _connect if there is no socket, and send.  _connect is outside the try: *)
(* what it raises is not retried.  A socket that was dropped between calls *)
(* is noticed now.                                                         *)
Send ==
    /\ pc = "send"
    /\ \/ /\ socket = 0
          /\ ClientEnds
          /\ UNCHANGED <<opened, wire>>
       \/ /\ socket \in broken
          /\ GiveUp
          /\ UNCHANGED <<opened, wire>>
       \/ /\ socket \notin broken
          /\ opened' = IF socket = 0 THEN opened + 1 ELSE opened
          /\ socket' = IF socket = 0 THEN opened' ELSE socket
          /\ wire' = Append(wire, [conn |-> socket', request |-> Current])
          /\ pc' = "recv"
          /\ UNCHANGED <<robotVars, call, attempt, broken, answers>>
    /\ UNCHANGED policyVars

(* recv returns: an error message is raised as ServerError; anything else  *)
(* returns to the bridge, and an action is executed.                       *)
Receive ==
    /\ pc = "recv"
    /\ \E a \in answers :
        /\ a.conn = socket
        /\ \/ /\ ~a.ok
              /\ ClientEnds
           \/ /\ a.ok
              /\ answers' = answers \ {a}
              /\ pc' = "idle"
              /\ call' = IF call = "ping" THEN "reset" ELSE "obs"
              /\ IF call = "obs"
                 THEN /\ executed' = [episode |-> robotEpisode, step |-> robotStep,
                                      obs |-> a.obs, index |-> a.index]
                      /\ robotStep' = robotStep + 1
                 ELSE UNCHANGED <<executed, robotStep>>
              /\ UNCHANGED <<once, client, robotEpisode, attempt, socket, broken>>
    /\ UNCHANGED <<policyVars, opened, wire>>

(* recv raises, because the connection was dropped ... *)
Dropped ==
    /\ pc = "recv" /\ socket \in broken
    /\ GiveUp
    /\ UNCHANGED <<policyVars, opened, wire>>

(* ... or because the answer is not in time (TimeoutError is an OSError). *)
TimeOut ==
    /\ pc = "recv" /\ \A a \in answers : a.conn # socket
    /\ GiveUp
    /\ UNCHANGED <<policyVars, opened, wire>>

(* The connection breaks, with or without the answer on its way. *)
Drop ==
    /\ socket # 0 /\ socket \notin broken
    /\ broken' = broken \cup {socket}
    /\ answers' \in {answers, {a \in answers : a.conn # socket}}
    /\ UNCHANGED <<policyVars, robotVars, call, pc, attempt, socket, opened, wire>>
-----------------------------------------------------------------------------
(* ws_handler: one message, with everything it does to the policy. *)
Answer(m, ok, obs, index) ==
    answers' = IF m.conn \in broken THEN answers
               ELSE answers \cup {[conn |-> m.conn, request |-> m.request, ok |-> ok,
                                   obs |-> obs, index |-> index]}

(* Fault: reset is acknowledged and the policy goes on. *)
ServeResetOnlyAck(m) ==
    /\ m.request.kind = "reset"
    /\ Answer(m, TRUE, NoObs, 0)
    /\ UNCHANGED policyVars

ServeReset(m) ==
    /\ m.request.kind = "reset"
    /\ Policy!Reset
    /\ Answer(m, TRUE, NoObs, 0)
    /\ UNCHANGED plan

ServePing(m) ==
    /\ m.request.kind = "ping"
    /\ Answer(m, TRUE, NoObs, 0)
    /\ UNCHANGED policyVars

(* predict: an observation that is invalid, or a policy that fails, is     *)
(* answered with an error.                                                 *)
ServePredict(m) ==
    /\ m.request.kind = "obs"
    /\ \/ /\ Policy!PredictBuffered
          /\ plan' = plan
          /\ Answer(m, TRUE, plan, delivered'.index)
       \/ /\ Policy!PredictGenerate
          /\ plan' = m.request.obs
          /\ Answer(m, TRUE, plan', delivered'.index)
       \/ /\ Policy!PredictRaise
          /\ plan' = plan
          /\ Answer(m, FALSE, NoObs, 0)
       \/ /\ UNCHANGED policyVars
          /\ Answer(m, FALSE, NoObs, 0)

Serve ==
    /\ wire # <<>>
    /\ LET m == Head(wire)
       IN  ServeReset(m) \/ ServePing(m) \/ ServePredict(m)
    /\ wire' = Tail(wire)
    /\ UNCHANGED <<robotVars, call, pc, attempt, socket, opened, broken>>

(* A request on a broken connection may be lost on its way. *)
Lose ==
    /\ wire # <<>> /\ Head(wire).conn \in broken
    /\ wire' = Tail(wire)
    /\ UNCHANGED <<policyVars, robotVars, call, pc, attempt, socket, opened, broken, answers>>

Next ==
    \/ StartPing \/ StartReset \/ StartPredict \/ Killed
    \/ Send \/ Receive \/ Dropped \/ TimeOut \/ Drop
    \/ Serve \/ Lose

Spec == Init /\ [][Next]_vars

(* send returns and recv is bounded by its timeout.  Nothing is assumed of *)
(* the server.                                                             *)
FairSpec == Spec /\ WF_vars(Send) /\ WF_vars(Receive \/ Dropped \/ TimeOut)
-----------------------------------------------------------------------------
(* Types; a client that is in no call has no answer waiting. *)
TypeOK ==
    /\ plan \in Obs /\ once \in BOOLEAN
    /\ client \in 1 .. MaxClients /\ robotEpisode \in Nat /\ robotStep \in 0 .. MaxSteps
    /\ executed \in [episode : Nat, step : Nat, obs : Obs, index : Nat]
    /\ call \in Kinds /\ pc \in {"idle", "send", "recv", "gone"} /\ attempt \in {0, 1}
    /\ socket \in 0 .. opened /\ broken \subseteq 1 .. opened
    /\ wire \in Seq([conn : 1 .. opened, request : Request])
    /\ answers \subseteq [conn : 1 .. opened, request : Request, ok : BOOLEAN,
                          obs : Obs, index : Nat]

(* What recv returns answers the call in progress: a late answer to a      *)
(* request that was given up is never taken for the answer to the next     *)
(* one, since each retry has a connection of its own.                      *)
AnswersMatch ==
    pc = "recv" => \A a \in answers : a.conn = socket => a.request = Current

(* A reset between episodes isolates them, whatever was sent, given up or  *)
(* sent twice before: no action of an episode was planned in another one.  *)
SameEpisode == executed.obs.episode = executed.episode

(* "predict() retries once after a dropped socket": the retry may cost the *)
(* robot the action of each step since its chunk was generated and one     *)
(* more, never makes it execute one too early; "use predict_once() when    *)
(* retrying an ambiguous action is unsafe": then there is no lag at all.   *)
Lag == executed.obs.step + executed.index - executed.step

LagBound == Lag \in 0 .. IF once THEN 0 ELSE executed.step - executed.obs.step + 1

(* With predict_once the robot sees what ActionStream promises, end to end. *)
Stream == INSTANCE ActionStream WITH
    MaxAge    <- Policy!AgeBound,
    episode   <- robotEpisode,
    served    <- robotStep,
    delivered <- executed

EndToEnd == [][once => Stream!Next \/ UNCHANGED <<robotEpisode, robotStep, executed>>]_vars

(* Every call returns or raises, whatever the server does. *)
CallReturns == (pc \in {"send", "recv"}) ~> (pc \in {"idle", "gone"})

(* `Errors that mean "the socket dropped" - reconnect once and retry`: an  *)
(* observation is sent again only after its connection was dropped.        *)
ResendsAfterDrop == [][(call = "obs" /\ attempt = 0 /\ attempt' = 1) => socket \in broken]_vars
=============================================================================
