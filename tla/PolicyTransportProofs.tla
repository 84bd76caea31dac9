----------------------- MODULE PolicyTransportProofs -----------------------
(***************************************************************************)
(* PolicyTransport for every chunk length and horizon, any number of       *)
(* connections, episodes and clients.                                      *)
(***************************************************************************)
EXTENDS PolicyTransport, SequenceTheorems, TLAPS

Action  == [obs : Obs, index : Nat]
Message == [conn : Nat, request : Request]
Reply   == [conn : Nat, request : Request, ok : BOOLEAN, obs : Obs, index : Nat]

(* The variables the arguments below look at. *)
Types ==
    /\ buffer \in Seq(Action) /\ plan \in Obs
    /\ episode \in Nat /\ served \in Nat /\ delivered.index \in Nat
    /\ once \in BOOLEAN /\ client \in Nat /\ robotEpisode \in Nat /\ robotStep \in Nat
    /\ executed \in [episode : Nat, step : Nat, obs : Obs, index : Nat]
    /\ call \in Kinds /\ pc \in {"idle", "send", "recv", "gone"} /\ attempt \in {0, 1}
    /\ opened \in Nat /\ socket \in 0 .. opened /\ broken \subseteq 1 .. opened
    /\ wire \in Seq(Message) /\ answers \subseteq Reply

(* A connection that was given up is closed, so only the answer to the     *)
(* request in progress can still arrive; once it has, the server has       *)
(* nothing left to read.                                                   *)
NetInv ==
    /\ (1 .. opened) \ broken \subseteq {socket}
    /\ pc = "recv" => socket # 0
    /\ pc = "gone" => call = "ping"
    /\ \A i \in DOMAIN wire :
          /\ wire[i].conn \in 1 .. opened
          /\ wire[i].conn = socket =>
                pc = "recv" /\ i = Len(wire) /\ wire[i].request = Current /\ answers = {}
    /\ \A a \in answers : a.conn = socket /\ pc = "recv" /\ a.request = Current /\ wire = <<>>
    /\ \A a, b \in answers : a = b

(* The buffer is the rest of one chunk, generated from `plan`. *)
BufferInv ==
    \A i \in DOMAIN buffer :
        buffer[i].index = delivered.index + i /\ buffer[i].index < Policy!AgeBound

(* The requests of the control step that were sent so far. *)
Sent == (IF pc \in {"send", "recv"} THEN attempt ELSE 0) + (IF pc = "recv" THEN 1 ELSE 0)

(* How far the action that is served next lags behind its control step,    *)
(* and by how much it may. *)
NextLag  == plan.step + delivered.index + 1 - robotStep
Slack(s) == IF once THEN 0 ELSE robotStep - s

(* Within an episode: whatever the server has still to read is the request *)
(* of this control step, and its buffer was planned in this episode.       *)
EpisodeInv ==
    /\ call = "reset" /\ answers # {} => buffer = <<>>
    /\ call = "reset" /\ pc # "idle" => executed.episode # robotEpisode
    /\ call = "obs" =>
          /\ \A i \in DOMAIN wire : wire[i].request = Current
          /\ Len(wire) <= Sent
          /\ once /\ pc # "idle" => attempt = 0
          /\ executed.episode = robotEpisode => executed.obs.step <= robotStep
          /\ buffer # <<>> =>
                /\ plan.episode = robotEpisode /\ plan.step <= robotStep
                /\ NextLag \in 0 .. Slack(plan.step) + Sent - Len(wire)
                /\ executed.episode = robotEpisode => executed.obs.step <= plan.step

AnswerInv ==
    \A a \in answers : call = "obs" /\ a.ok =>
        /\ a.obs.episode = robotEpisode /\ a.obs.step <= robotStep
        /\ a.obs.step + a.index - robotStep \in 0 .. Slack(a.obs.step) + attempt
        /\ a.index < Policy!AgeBound
        /\ executed.episode = robotEpisode => executed.obs.step <= a.obs.step
        /\ buffer # <<>> => plan = a.obs /\ delivered.index = a.index

ExecutedInv == executed.episode <= robotEpisode /\ SameEpisode /\ LagBound

IInv == Types /\ NetInv /\ BufferInv /\ EpisodeInv /\ AnswerInv /\ ExecutedInv
-----------------------------------------------------------------------------
LEMMA InvInit == Init => IInv
<1> SUFFICES ASSUME Init PROVE IInv
  OBVIOUS
<1>1. Types
  BY DEF Init, Types, Policy!Init, Policy!Nothing, Policy!NoObs, Action, Message, Reply, Obs, NoObs,
         Nothing, Kinds
<1>2. NetInv /\ EpisodeInv /\ AnswerInv
  BY DEF Init, NetInv, EpisodeInv, AnswerInv
<1>3. BufferInv
  BY DEF Init, BufferInv, Policy!Init
<1>4. ExecutedInv
  <2>1. /\ executed.episode = 0 /\ executed.step = 0 /\ executed.index = 0
        /\ executed.obs.episode = 0 /\ executed.obs.step = 0 /\ robotEpisode = 1
    BY DEF Init, Nothing, NoObs
  <2>2. 0 \in 0 .. IF once THEN 0 ELSE 1
    OBVIOUS
  <2>3. QED
    BY <2>1, <2>2 DEF ExecutedInv, SameEpisode, LagBound, Lag
<1>5. QED
  BY <1>1, <1>2, <1>3, <1>4 DEF IInv

(* A request is about to be made. *)
LEMMA StartStep ==
    ASSUME IInv, StartPing \/ StartReset \/ StartPredict
    PROVE  IInv'
<1>1. Types /\ NetInv /\ BufferInv /\ EpisodeInv /\ AnswerInv /\ ExecutedInv
  BY DEF IInv
<1>2. /\ UNCHANGED <<buffer, episode, served, delivered, plan, once, client, executed, socket,
                     opened, broken, wire, answers>>
      /\ pc = "idle" /\ pc' = "send" /\ attempt' = 0
  BY DEF StartPing, StartReset, StartPredict, policyVars, robotVars, netVars
<1>3. answers = {} /\ \A i \in DOMAIN wire : wire[i].conn # socket
  BY <1>1, <1>2 DEF NetInv
<1>4. BufferInv' /\ NetInv'
  BY <1>1, <1>2, <1>3 DEF BufferInv, NetInv
<1>5. AnswerInv'
  BY <1>2, <1>3 DEF AnswerInv
<1>6. CASE StartReset
  <2>1. call' = "reset" /\ robotEpisode' = robotEpisode + 1 /\ robotStep' = 0
    BY <1>6 DEF StartReset
  <2>2. Types'
    BY <1>1, <1>2, <2>1 DEF Types, Kinds
  <2>3. EpisodeInv'
    <3>1. executed.episode # robotEpisode + 1
      BY <1>1 DEF ExecutedInv, Types
    <3>2. QED
      BY <1>2, <1>3, <2>1, <3>1 DEF EpisodeInv
  <2>4. ExecutedInv'
    BY <1>1, <1>2, <2>1 DEF ExecutedInv, SameEpisode, LagBound, Lag, Types
  <2>5. QED
    BY <1>4, <1>5, <2>2, <2>3, <2>4 DEF IInv
<1>7. CASE StartPing \/ StartPredict
  <2>1. UNCHANGED <<call, robotEpisode, robotStep>> /\ call # "reset"
    BY <1>7 DEF StartPing, StartPredict, robotVars
  <2>2. Types'
    BY <1>1, <1>2, <2>1 DEF Types
  <2>3. Sent' = Sent /\ Slack(plan.step)' = Slack(plan.step) /\ NextLag' = NextLag
        /\ Current' = Current
    BY <1>2, <2>1 DEF Sent, Slack, NextLag, Current, Now
  <2>4. EpisodeInv'
    BY <1>1, <1>2, <1>3, <2>1, <2>3 DEF EpisodeInv
  <2>5. ExecutedInv'
    BY <1>1, <1>2, <2>1 DEF ExecutedInv, SameEpisode, LagBound, Lag
  <2>6. QED
    BY <1>4, <1>5, <2>2, <2>4, <2>5 DEF IInv
<1>8. QED
  BY <1>6, <1>7

(* The client process ends: its connection is closed with it. *)
LEMMA EndStep ==
    ASSUME IInv, ClientEnds, UNCHANGED <<policyVars, opened, wire>>
    PROVE  IInv'
<1>1. Types /\ NetInv /\ BufferInv /\ ExecutedInv
  BY DEF IInv
<1>2. /\ UNCHANGED <<buffer, episode, served, delivered, plan, opened, wire, once, robotEpisode,
                     robotStep, executed>>
      /\ call' = "ping" /\ attempt' = 0 /\ socket' = 0 /\ pc' \in {"idle", "gone"}
      /\ client' \in {client, client + 1}
      /\ broken' = IF socket = 0 THEN broken ELSE broken \cup {socket}
      /\ answers' = {a \in answers : a.conn # socket}
  BY DEF ClientEnds, policyVars
<1>3. answers' = {}
  BY <1>1, <1>2 DEF NetInv
<1>4. Types'
  BY <1>1, <1>2, <1>3 DEF Types, Kinds
<1>5. NetInv'
  <2>1. (1 .. opened) \ broken' \subseteq {0}
    BY <1>1, <1>2 DEF NetInv
  <2>2. \A i \in DOMAIN wire : wire[i].conn \in 1 .. opened /\ wire[i].conn # 0
    BY <1>1 DEF NetInv, Types
  <2>3. QED
    BY <1>2, <1>3, <2>1, <2>2 DEF NetInv
<1>6. BufferInv' /\ EpisodeInv' /\ AnswerInv'
  BY <1>1, <1>2, <1>3 DEF BufferInv, EpisodeInv, AnswerInv
<1>7. ExecutedInv'
  BY <1>1, <1>2 DEF ExecutedInv, SameEpisode, LagBound, Lag
<1>8. QED
  BY <1>4, <1>5, <1>6, <1>7 DEF IInv

(* The connection is given up and the request is sent again. *)
LEMMA RetryStep ==
    ASSUME IInv, pc \in {"send", "recv"}, socket # 0, GiveUp, UNCHANGED <<policyVars, opened, wire>>
    PROVE  IInv'
<1>1. CASE ClientEnds
  BY <1>1, EndStep
<1>2. CASE /\ attempt = 0 /\ Reconnects
           /\ attempt' = 1 /\ pc' = "send" /\ socket' = 0
           /\ broken' = broken \cup {socket}
           /\ answers' = {a \in answers : a.conn # socket}
           /\ UNCHANGED <<robotVars, call>>
  <2>1. Types /\ NetInv /\ BufferInv /\ EpisodeInv /\ ExecutedInv
    BY DEF IInv
  <2>2. UNCHANGED <<buffer, episode, served, delivered, plan, opened, wire, once, client,
                    robotEpisode, robotStep, executed, call>>
    BY <1>2 DEF policyVars, robotVars
  <2>3. answers' = {}
    BY <1>2, <2>1 DEF NetInv
  <2>4. Types'
    BY <1>2, <2>1, <2>2, <2>3 DEF Types
  <2>5. NetInv'
    <3>1. (1 .. opened) \ broken' \subseteq {0}
      BY <1>2, <2>1 DEF NetInv
    <3>2. \A i \in DOMAIN wire : wire[i].conn \in 1 .. opened /\ wire[i].conn # 0
      BY <2>1 DEF NetInv, Types
    <3>3. QED
      BY <1>2, <2>1, <2>2, <2>3, <3>1, <3>2 DEF NetInv
  <2>6. BufferInv' /\ AnswerInv'
    BY <2>1, <2>2, <2>3 DEF BufferInv, AnswerInv
  <2>7. EpisodeInv'
    <3>1. Sent' = 1 /\ Sent \in {0, 1}
      BY <1>2 DEF Sent
    <3>2. Slack(plan.step)' = Slack(plan.step) /\ NextLag' = NextLag /\ Current' = Current
      BY <2>2 DEF Slack, NextLag, Current, Now
    <3>3. Slack(plan.step) \in Int /\ NextLag \in Int /\ Len(wire) \in Nat
      BY <2>1, SMTT(30) DEF Slack, NextLag, Types, Obs
    <3>4. call = "obs" => ~once
      BY <1>2 DEF Reconnects
    <3>5. QED
      BY <2>1, <2>2, <2>3, <3>1, <3>2, <3>3, <3>4 DEF EpisodeInv
  <2>8. ExecutedInv'
    BY <2>1, <2>2 DEF ExecutedInv, SameEpisode, LagBound, Lag
  <2>9. QED
    BY <2>4, <2>5, <2>6, <2>7, <2>8 DEF IInv
<1>3. QED
  BY <1>1, <1>2 DEF GiveUp

(* A request goes out, on the connection there is or on a new one. *)
LEMMA SendStep ==
    ASSUME IInv, pc = "send", socket \notin broken,
           opened' = (IF socket = 0 THEN opened + 1 ELSE opened),
           socket' = (IF socket = 0 THEN opened' ELSE socket),
           wire' = Append(wire, [conn |-> socket', request |-> Current]),
           pc' = "recv",
           UNCHANGED <<robotVars, call, attempt, broken, answers, policyVars>>
    PROVE  IInv'
<1>1. Types /\ NetInv /\ BufferInv /\ EpisodeInv /\ ExecutedInv
  BY DEF IInv
<1>2. UNCHANGED <<buffer, episode, served, delivered, plan, broken, answers, once, client,
                  robotEpisode, robotStep, executed, call, attempt>>
  BY DEF policyVars, robotVars
<1>3. /\ answers = {} /\ \A i \in DOMAIN wire : wire[i].conn # socket
      /\ \A i \in DOMAIN wire : wire[i].conn \in 1 .. opened
  BY <1>1 DEF NetInv
<1> DEFINE m == [conn |-> socket', request |-> Current]
<1>4. /\ socket' \in 1 .. opened' /\ opened' \in Nat
      /\ \A c \in 1 .. opened : c \in 1 .. opened' /\ (socket = 0 => c # socket')
      /\ (1 .. opened') \ broken \subseteq {socket'}
  BY <1>1 DEF Types, NetInv
<1>5. m.conn = socket' /\ m.request = Current /\ m \in Message
  BY <1>1, <1>4 DEF Types, Message, Request, Current, Now, Obs
<1>6. /\ wire' \in Seq(Message) /\ Len(wire') = Len(wire) + 1 /\ Len(wire) \in Nat
      /\ \A i \in DOMAIN wire' :
            (i \in DOMAIN wire /\ wire'[i] = wire[i]) \/ (i = Len(wire') /\ wire'[i] = m)
  <2>1. wire' = Append(wire, m) /\ wire \in Seq(Message)
    BY <1>1 DEF Types
  <2> HIDE DEF m
  <2>2. QED
    BY <1>5, <2>1
<1> HIDE DEF m
<1>7. Current' = Current
  BY <1>2 DEF Current, Now
<1>8. Types'
  BY <1>1, <1>2, <1>4, <1>6 DEF Types
<1>9. NetInv'
  <2>1. \A i \in DOMAIN wire' :
           /\ wire'[i].conn \in 1 .. opened'
           /\ wire'[i].conn = socket' => i = Len(wire') /\ wire'[i].request = Current
    BY <1>3, <1>4, <1>5, <1>6
  <2>2. QED
    BY <1>2, <1>3, <1>4, <1>7, <2>1 DEF NetInv
<1>10. BufferInv' /\ AnswerInv'
  BY <1>1, <1>2, <1>3 DEF BufferInv, AnswerInv
<1>11. EpisodeInv'
  <2>1. Sent' = Sent + 1 /\ Sent \in Nat
    BY <1>1, <1>2 DEF Sent, Types
  <2>2. Slack(plan.step)' = Slack(plan.step) /\ NextLag' = NextLag
    BY <1>2 DEF Slack, NextLag
  <2>3. Slack(plan.step) \in Int /\ NextLag \in Int
    BY <1>1, SMTT(30) DEF Slack, NextLag, Types, Obs
  <2>4. \A i \in DOMAIN wire' : (i \in DOMAIN wire /\ wire'[i] = wire[i]) \/ wire'[i].request = Current
    BY <1>5, <1>6
  <2>5. Slack(plan.step)' + Sent' - Len(wire') = Slack(plan.step) + Sent - Len(wire)
    BY <1>6, <2>1, <2>2, <2>3
  <2>6. QED
    BY <1>1, <1>2, <1>3, <1>6, <1>7, <2>1, <2>2, <2>4, <2>5 DEF EpisodeInv
<1>12. ExecutedInv'
  BY <1>1, <1>2 DEF ExecutedInv, SameEpisode, LagBound, Lag
<1>13. QED
  BY <1>8, <1>9, <1>10, <1>11, <1>12 DEF IInv

(* The answer is taken: it is that of this request, planned in this        *)
(* episode, and no later than the retries explain.                         *)
LEMMA ReceiveStep ==
    ASSUME IInv, Receive
    PROVE  IInv'
<1>1. Types /\ NetInv /\ BufferInv /\ EpisodeInv /\ AnswerInv /\ ExecutedInv
  BY DEF IInv
<1>2. CASE ClientEnds
  BY <1>2, EndStep DEF Receive
<1>3. ASSUME NEW a \in answers, a.ok, answers' = answers \ {a}, pc' = "idle",
             call' = (IF call = "ping" THEN "reset" ELSE "obs"),
             IF call = "obs"
             THEN /\ executed' = [episode |-> robotEpisode, step |-> robotStep,
                                  obs |-> a.obs, index |-> a.index]
                  /\ robotStep' = robotStep + 1
             ELSE UNCHANGED <<executed, robotStep>>,
             UNCHANGED <<once, client, robotEpisode, attempt, socket, broken>>,
             UNCHANGED <<policyVars, opened, wire>>
      PROVE  IInv'
  <2>1. /\ pc = "recv" /\ wire = <<>> /\ answers' = {} /\ a \in Reply
    BY <1>1, <1>3 DEF NetInv, Types
  <2>2. UNCHANGED <<buffer, episode, served, delivered, plan, opened, wire, once, client,
                    robotEpisode, attempt, socket, broken>>
    BY <1>3 DEF policyVars
  <2>3. NetInv' /\ BufferInv' /\ AnswerInv'
    BY <1>1, <1>3, <2>1, <2>2 DEF NetInv, BufferInv, AnswerInv
  <2>4. Types'
    BY <1>1, <1>3, <2>1, <2>2, SMTT(30) DEF Types, Kinds, Reply
  <2>5. Sent' = 0 /\ Len(wire') = 0 /\ Sent = attempt + 1 /\ attempt \in {0, 1}
    BY <1>1, <1>3, <2>1, <2>2 DEF Sent, Types
  <2>6. CASE call # "obs"
    <3>1. UNCHANGED <<executed, robotStep>>
      BY <1>3, <2>6
    <3>2. EpisodeInv'
      <4>1. CASE call = "ping"
        BY <1>3, <2>1, <4>1 DEF EpisodeInv
      <4>2. CASE call = "reset"
        <5>1. buffer = <<>> /\ executed.episode # robotEpisode /\ call' = "obs"
          BY <1>1, <1>3, <2>1, <4>2 DEF EpisodeInv
        <5>2. QED
          BY <1>3, <2>1, <2>2, <2>5, <3>1, <5>1 DEF EpisodeInv
      <4>3. QED
        BY <1>1, <2>6, <4>1, <4>2 DEF Types, Kinds
    <3>3. ExecutedInv'
      BY <1>1, <2>2, <3>1 DEF ExecutedInv, SameEpisode, LagBound, Lag
    <3>4. QED
      BY <2>3, <2>4, <3>2, <3>3 DEF IInv
  <2>7. CASE call = "obs"
    <3>1. /\ executed' = [episode |-> robotEpisode, step |-> robotStep,
                          obs |-> a.obs, index |-> a.index]
          /\ robotStep' = robotStep + 1 /\ call' = "obs"
      BY <1>3, <2>7
    <3>2. /\ a.obs.episode = robotEpisode /\ a.obs.step <= robotStep
          /\ a.obs.step + a.index - robotStep \in 0 .. Slack(a.obs.step) + attempt
          /\ buffer # <<>> => plan = a.obs /\ delivered.index = a.index
          /\ a.obs.step \in Nat /\ a.index \in Nat /\ robotStep \in Nat /\ delivered.index \in Nat
      BY <1>1, <1>3, <2>1, <2>7 DEF AnswerInv, Types, Reply, Obs
    <3>3. once => attempt = 0
      BY <1>1, <2>1, <2>7 DEF EpisodeInv
    <3>4. ExecutedInv'
      <4>1. /\ executed'.obs = a.obs /\ executed'.index = a.index
            /\ executed'.episode = robotEpisode /\ executed'.step = robotStep
        BY <3>1
      <4>2. a.obs.step + a.index - robotStep
               \in 0 .. IF once THEN 0 ELSE robotStep - a.obs.step + 1
        BY <2>5, <3>2, <3>3 DEF Slack
      <4>3. robotEpisode' = robotEpisode /\ robotEpisode \in Nat /\ once' = once
        BY <1>1, <2>2 DEF Types
      <4>4. SameEpisode'
        BY <3>2, <4>1 DEF SameEpisode
      <4>5. LagBound'
        BY <4>1, <4>2, <4>3 DEF LagBound, Lag
      <4>6. QED
        BY <4>1, <4>3, <4>4, <4>5 DEF ExecutedInv
    <3>5. ASSUME buffer # <<>>
          PROVE  NextLag' \in 0 .. Slack(plan.step)'
      <4>1. a.obs.step + a.index - robotStep
               \in 0 .. IF once THEN 0 ELSE robotStep - a.obs.step + 1
        BY <2>5, <3>2, <3>3 DEF Slack
      <4>2. plan.step = a.obs.step /\ delivered.index = a.index
        BY <3>2, <3>5
      <4>3. /\ NextLag' = plan.step + delivered.index + 1 - (robotStep + 1)
            /\ Slack(plan.step)' = IF once THEN 0 ELSE (robotStep + 1) - plan.step
        BY <2>2, <3>1 DEF NextLag, Slack
      <4>4. QED
        BY <3>2, <4>1, <4>2, <4>3
    <3>6. EpisodeInv'
      BY <1>3, <2>1, <2>2, <2>4, <2>5, <3>1, <3>2, <3>5, SMTT(30) DEF EpisodeInv, Types, Slack
    <3>7. QED
      BY <2>3, <2>4, <3>4, <3>6 DEF IInv
  <2>8. QED
    BY <2>6, <2>7
<1>4. QED
  BY <1>2, <1>3 DEF Receive

(* Connections break, and requests on them are lost. *)
LEMMA BreakStep ==
    ASSUME IInv, Drop \/ Lose
    PROVE  IInv'
<1>1. Types /\ NetInv /\ BufferInv /\ EpisodeInv /\ AnswerInv /\ ExecutedInv
  BY DEF IInv
<1>2. UNCHANGED <<buffer, episode, served, delivered, plan, once, client, robotEpisode, robotStep,
                  executed, call, pc, attempt, socket, opened>>
  BY DEF Drop, Lose, policyVars, robotVars
<1>3. /\ answers' \subseteq answers /\ broken \subseteq broken' /\ broken' \subseteq 1 .. opened
  <2>1. CASE Drop
    <3>1. answers' = answers \/ answers' = {a \in answers : a.conn # socket}
      BY <2>1 DEF Drop
    <3>2. broken' = broken \cup {socket} /\ socket \in 1 .. opened
      BY <1>1, <2>1 DEF Drop, Types
    <3>3. QED
      BY <1>1, <3>1, <3>2 DEF Types
  <2>2. CASE Lose
    BY <1>1, <2>2 DEF Lose, Types
  <2>3. QED
    BY <2>1, <2>2
<1>4. /\ wire' \in Seq(Message) /\ Len(wire') <= Len(wire) /\ Len(wire) \in Nat
      /\ Len(wire') \in Nat
      /\ \A i \in DOMAIN wire' : \E k \in DOMAIN wire :
            wire'[i] = wire[k] /\ (k = Len(wire) => i = Len(wire'))
      /\ wire = <<>> => wire' = <<>>
  <2>1. CASE wire' = wire
    BY <1>1, <2>1 DEF Types
  <2>2. CASE wire # <<>> /\ wire' = Tail(wire)
    <3>1. wire \in Seq(Message) /\ wire' \in Seq(Message) /\ Len(wire') = Len(wire) - 1
      BY <1>1, <2>2 DEF Types
    <3>2. \A i \in DOMAIN wire' : i + 1 \in DOMAIN wire /\ wire'[i] = wire[i + 1] /\ i \in Nat
      BY <2>2, <3>1
    <3>3. QED
      BY <2>2, <3>1, <3>2
  <2>3. QED
    BY <2>1, <2>2 DEF Drop, Lose
<1>5. Types'
  BY <1>1, <1>2, <1>3, <1>4 DEF Types
<1>6. Current' = Current /\ Sent' = Sent /\ NextLag' = NextLag
  BY <1>2 DEF Current, Now, Sent, NextLag
<1>7. NetInv'
  <2>1. \A i \in DOMAIN wire' :
           /\ wire'[i].conn \in 1 .. opened
           /\ wire'[i].conn = socket =>
                 pc = "recv" /\ i = Len(wire') /\ wire'[i].request = Current /\ answers' = {}
    BY <1>1, <1>3, <1>4 DEF NetInv
  <2>2. QED
    BY <1>1, <1>2, <1>3, <1>4, <1>6, <2>1 DEF NetInv
<1>8. BufferInv' /\ ExecutedInv'
  BY <1>1, <1>2 DEF BufferInv, ExecutedInv, SameEpisode, LagBound, Lag
<1>9. AnswerInv'
  BY <1>1, <1>2, <1>3 DEF AnswerInv, Slack
<1>10. EpisodeInv'
  <2>1. Slack(plan.step)' = Slack(plan.step) /\ Slack(plan.step) \in Int /\ NextLag \in Int
        /\ Sent \in Nat
    BY <1>1, <1>2, SMTT(30) DEF Slack, NextLag, Sent, Types, Obs
  <2>2. NextLag \in 0 .. Slack(plan.step) + Sent - Len(wire)
           => NextLag \in 0 .. Slack(plan.step) + Sent - Len(wire')
    BY <1>4, <2>1
  <2>3. QED
    BY <1>1, <1>2, <1>3, <1>4, <1>6, <2>1, <2>2 DEF EpisodeInv
<1>11. QED
  BY <1>5, <1>7, <1>8, <1>9, <1>10 DEF IInv
-----------------------------------------------------------------------------
(* The server reads the first request; it answers on a connection that is  *)
(* not broken, which is that of the request in progress, the last one.     *)
LEMMA HeadFacts ==
    ASSUME Types, NetInv, wire # <<>>, wire' = Tail(wire)
    PROVE  /\ Head(wire) = wire[1] /\ Head(wire) \in Message /\ 1 \in DOMAIN wire
           /\ wire' \in Seq(Message) /\ Len(wire') = Len(wire) - 1 /\ Len(wire) \in Nat
           /\ \A i \in DOMAIN wire' : /\ i + 1 \in DOMAIN wire /\ wire'[i] = wire[i + 1] /\ i \in Nat
                                      /\ (i + 1 = Len(wire) => i = Len(wire'))
           /\ answers = {}
           /\ Head(wire).conn \notin broken =>
                 /\ Head(wire).conn = socket /\ pc = "recv" /\ Head(wire).request = Current
                 /\ wire' = <<>>
<1>1. wire \in Seq(Message)
  BY DEF Types
<1>2. /\ Head(wire) = wire[1] /\ Head(wire) \in Message /\ 1 \in DOMAIN wire
      /\ wire' \in Seq(Message) /\ Len(wire') = Len(wire) - 1 /\ Len(wire) \in Nat
  BY <1>1
<1>3. \A i \in DOMAIN wire' : /\ i + 1 \in DOMAIN wire /\ wire'[i] = wire[i + 1] /\ i \in Nat
                              /\ (i + 1 = Len(wire) => i = Len(wire'))
  BY <1>1, <1>2
<1>4. answers = {}
  BY DEF NetInv
<1>5. ASSUME Head(wire).conn \notin broken
      PROVE  /\ Head(wire).conn = socket /\ pc = "recv" /\ Head(wire).request = Current
             /\ wire' = <<>>
  <2>1. Head(wire).conn = socket /\ pc = "recv" /\ Head(wire).request = Current /\ Len(wire) = 1
    BY <1>2, <1>5 DEF NetInv
  <2>2. Len(wire') = 0
    BY <1>2, <2>1
  <2>3. QED
    BY <1>2, <2>1, <2>2
<1>6. QED
  BY <1>2, <1>3, <1>4, <1>5

(* What serving does to the network. *)
LEMMA ServeNet ==
    ASSUME IInv, wire # <<>>, wire' = Tail(wire), NEW ok \in BOOLEAN, NEW obs \in Obs,
           NEW index \in Nat, Answer(Head(wire), ok, obs, index),
           UNCHANGED <<robotVars, call, pc, attempt, socket, opened, broken>>
    PROVE  /\ NetInv' /\ wire' \in Seq(Message) /\ answers' \subseteq Reply
           /\ \A a \in answers' : a.ok = ok /\ a.obs = obs /\ a.index = index
           /\ answers' # {} => pc = "recv" /\ wire' = <<>> /\ Head(wire).request = Current
           /\ Current' = Current /\ Sent' = Sent
<1>1. Types /\ NetInv
  BY DEF IInv
<1> DEFINE m == Head(wire)
           a == [conn |-> m.conn, request |-> m.request, ok |-> ok, obs |-> obs, index |-> index]
<1>2. UNCHANGED <<once, client, robotEpisode, robotStep, executed, call, pc, attempt, socket,
                  opened, broken>>
  BY DEF robotVars
<1>3. Current' = Current /\ Sent' = Sent
  BY <1>2 DEF Current, Now, Sent
<1>4. /\ m = wire[1] /\ m \in Message
      /\ wire' \in Seq(Message) /\ Len(wire') = Len(wire) - 1
      /\ \A i \in DOMAIN wire' : /\ i + 1 \in DOMAIN wire /\ wire'[i] = wire[i + 1] /\ i \in Nat
                                 /\ (i + 1 = Len(wire) => i = Len(wire'))
      /\ answers = {}
      /\ m.conn \notin broken =>
            m.conn = socket /\ pc = "recv" /\ m.request = Current /\ wire' = <<>>
  BY <1>1, HeadFacts
<1>5. a \in Reply
  BY <1>4 DEF Message, Reply
<1>6. answers' = (IF m.conn \in broken THEN {} ELSE {a})
  BY <1>4 DEF Answer
<1>7. /\ a.conn = m.conn /\ a.request = m.request /\ a.ok = ok /\ a.obs = obs /\ a.index = index
  OBVIOUS
<1> HIDE DEF a, m
<1>8. \A b \in answers' : b = a /\ m.conn \notin broken
  BY <1>6
<1>9. \A i \in DOMAIN wire' :
         /\ wire'[i].conn \in 1 .. opened
         /\ wire'[i].conn = socket =>
               pc = "recv" /\ i = Len(wire') /\ wire'[i].request = Current /\ answers' = {}
  <2>1. SUFFICES ASSUME NEW i \in DOMAIN wire'
                 PROVE  /\ wire'[i].conn \in 1 .. opened
                        /\ wire'[i].conn = socket =>
                              /\ pc = "recv" /\ i = Len(wire') /\ wire'[i].request = Current
                              /\ answers' = {}
    OBVIOUS
  <2>2. wire' # <<>>
    BY <1>4
  <2>3. m.conn \in broken
    BY <1>4, <2>2
  <2>4. QED
    BY <1>1, <1>4, <1>6, <2>3 DEF NetInv
<1>10. NetInv'
  BY <1>1, <1>2, <1>3, <1>4, <1>7, <1>8, <1>9 DEF NetInv
<1>11. QED
  BY <1>3, <1>4, <1>5, <1>6, <1>7, <1>8, <1>10 DEF m

LEMMA ServeStep ==
    ASSUME Policy!ConfigAssumption, IInv, Serve
    PROVE  IInv'
<1> DEFINE m == Head(wire)
<1>1. Types /\ NetInv /\ BufferInv /\ EpisodeInv /\ AnswerInv /\ ExecutedInv
  BY DEF IInv
<1>2. /\ wire # <<>> /\ wire' = Tail(wire)
      /\ UNCHANGED <<robotVars, call, pc, attempt, socket, opened, broken>>
      /\ ServeReset(m) \/ ServePing(m) \/ ServePredict(m)
  BY DEF Serve
<1>3. UNCHANGED <<once, client, robotEpisode, robotStep, executed, call, pc, attempt, socket,
                  opened, broken>>
  BY <1>2 DEF robotVars
<1>4. /\ m = wire[1] /\ m \in Message /\ 1 \in DOMAIN wire /\ Len(wire') = Len(wire) - 1
      /\ \A i \in DOMAIN wire' : i + 1 \in DOMAIN wire /\ wire'[i] = wire[i + 1]
      /\ answers = {} /\ Len(wire) \in Nat
  BY <1>1, <1>2, HeadFacts
<1>5. m.request \in Request /\ m.request.obs \in Obs /\ m.request.kind \in Kinds
  BY <1>4 DEF Message, Request
<1>6. /\ call = "obs" => \A i \in DOMAIN wire' : wire'[i].request = Current
      /\ call = "obs" => m.request = Current
      /\ Current.kind = call /\ Current.obs = Now
  BY <1>1, <1>4 DEF EpisodeInv, Current
<1>7. /\ Sent \in Nat /\ Slack(plan.step) \in Int /\ NextLag \in Int
      /\ pc = "recv" => Sent = attempt + 1
      /\ attempt \in {0, 1} /\ robotStep \in Nat
  <2>1. Sent \in Nat
    BY <1>1 DEF Sent, Types
  <2>2. plan.step \in Nat /\ robotStep \in Nat /\ delivered.index \in Nat
    BY <1>1 DEF Types, Obs
  <2>3. Slack(plan.step) \in Int /\ NextLag \in Int
    BY <2>2 DEF Slack, NextLag
  <2>4. attempt \in {0, 1} /\ (pc = "recv" => Sent = attempt + 1)
    BY <1>1 DEF Sent, Types
  <2>5. QED
    BY <2>1, <2>2, <2>3, <2>4
<1>8. ExecutedInv'
  BY <1>1, <1>3 DEF ExecutedInv, SameEpisode, LagBound, Lag
<1> HIDE DEF m
(* What is answered without an action. *)
<1>9. ASSUME NEW ok \in BOOLEAN, Answer(m, ok, NoObs, 0),
             UNCHANGED <<buffer, episode, served, delivered, plan>>,
             call = "obs" => ~ok, call = "reset" => m.request # Current
      PROVE  IInv'
  <2>1. UNCHANGED <<buffer, episode, served, delivered, plan>>
    BY <1>9
  <2>2. NoObs \in Obs
    BY DEF NoObs, Obs
  <2>3. /\ NetInv' /\ wire' \in Seq(Message) /\ answers' \subseteq Reply
        /\ \A a \in answers' : a.ok = ok
        /\ answers' # {} => pc = "recv" /\ wire' = <<>> /\ m.request = Current
        /\ Current' = Current /\ Sent' = Sent
    BY <1>2, <1>9, <2>2, ServeNet DEF m
  <2>4. Types'
    BY <1>1, <1>3, <2>1, <2>3 DEF Types
  <2>5. BufferInv' /\ AnswerInv'
    BY <1>1, <1>3, <1>9, <2>1, <2>3 DEF BufferInv, AnswerInv
  <2>6. Slack(plan.step)' = Slack(plan.step) /\ NextLag' = NextLag
    BY <1>3, <2>1 DEF Slack, NextLag
  <2>7. NextLag \in 0 .. Slack(plan.step) + Sent - Len(wire)
           => NextLag \in 0 .. Slack(plan.step) + Sent - Len(wire')
    BY <1>4, <1>7
  <2>8. EpisodeInv'
    BY <1>1, <1>3, <1>4, <1>6, <1>7, <1>9, <2>1, <2>3, <2>6, <2>7 DEF EpisodeInv
  <2>9. QED
    BY <1>8, <2>3, <2>4, <2>5, <2>8 DEF IInv
<1>10. CASE ServePing(m)
  <2>1. Answer(m, TRUE, NoObs, 0) /\ UNCHANGED policyVars /\ m.request.kind = "ping"
    BY <1>10 DEF ServePing
  <2>2. call # "obs" /\ (call = "reset" => m.request # Current)
    BY <1>6, <2>1
  <2>3. QED
    BY <1>9, <2>1, <2>2 DEF policyVars
<1>11. CASE ServeReset(m)
  <2>1. /\ Answer(m, TRUE, NoObs, 0) /\ m.request.kind = "reset" /\ UNCHANGED plan
        /\ buffer' = <<>> /\ episode' = episode + 1 /\ served' = 0 /\ UNCHANGED delivered
    BY <1>11 DEF ServeReset, Policy!Reset
  <2>2. call # "obs"
    BY <1>6, <2>1
  <2>3. NoObs \in Obs
    BY DEF NoObs, Obs
  <2>4. NetInv' /\ wire' \in Seq(Message) /\ answers' \subseteq Reply
    BY <1>2, <2>1, <2>3, ServeNet DEF m
  <2>5. Types'
    BY <1>1, <1>3, <2>1, <2>4 DEF Types
  <2>6. BufferInv'
    BY <2>1 DEF BufferInv
  <2>7. EpisodeInv'
    BY <1>1, <1>3, <2>1, <2>2 DEF EpisodeInv
  <2>8. AnswerInv'
    BY <1>3, <2>2 DEF AnswerInv
  <2>9. QED
    BY <1>8, <2>4, <2>5, <2>6, <2>7, <2>8 DEF IInv
<1>12. CASE ServePredict(m)
  <2>1. m.request.kind = "obs" /\ (call = "reset" => m.request # Current)
    BY <1>6, <1>12 DEF ServePredict
  <2>2. CASE Policy!PredictBuffered /\ plan' = plan /\ Answer(m, TRUE, plan, delivered'.index)
    <3>1. /\ buffer # <<>> /\ buffer' = Tail(buffer)
          /\ delivered' = [episode |-> episode, step |-> served,
                           obs |-> Head(buffer).obs, index |-> Head(buffer).index]
          /\ served' = served + 1 /\ UNCHANGED episode /\ plan' = plan
      BY <2>2 DEF Policy!PredictBuffered, Policy!Pop
    <3>2. /\ Head(buffer) = buffer[1] /\ 1 \in DOMAIN buffer /\ buffer' \in Seq(Action)
          /\ \A i \in DOMAIN buffer' : i + 1 \in DOMAIN buffer /\ buffer'[i] = buffer[i + 1]
                                       /\ i \in Nat
      <4>1. buffer \in Seq(Action)
        BY <1>1 DEF Types
      <4>2. QED
        BY <3>1, <4>1
    <3>3. /\ buffer[1].index = delivered.index + 1 /\ delivered.index + 1 < Policy!AgeBound
          /\ delivered.index \in Nat
      BY <1>1, <3>2 DEF BufferInv, Types
    <3> DEFINE j == delivered.index + 1
    <3>4a. j \in Nat /\ j = delivered.index + 1 /\ j < Policy!AgeBound
      BY <3>3
    <3>4. delivered'.index = j
      BY <3>1, <3>2, <3>3
    <3> HIDE DEF j
    <3>5. BufferInv'
      <4>1. \A i \in DOMAIN buffer' :
               /\ buffer'[i].index = delivered.index + (i + 1)
               /\ buffer'[i].index < Policy!AgeBound
        BY <1>1, <3>2 DEF BufferInv
      <4>2. \A i \in Nat : delivered.index + (i + 1) = j + i
        BY <3>3, <3>4a
      <4>3. QED
        BY <3>2, <3>4, <4>1, <4>2 DEF BufferInv
    <3>6. plan \in Obs /\ plan.step \in Nat
      BY <1>1 DEF Types, Obs
    <3>7. Answer(m, TRUE, plan, j)
      BY <2>2, <3>4
    <3>8. /\ NetInv' /\ wire' \in Seq(Message) /\ answers' \subseteq Reply
          /\ \A a \in answers' : a.ok = TRUE /\ a.obs = plan /\ a.index = j
          /\ answers' # {} => pc = "recv" /\ wire' = <<>> /\ m.request = Current
          /\ Current' = Current /\ Sent' = Sent
      BY <1>2, <3>4a, <3>6, <3>7, ServeNet DEF m
    <3>9. Types'
      BY <1>1, <1>3, <3>1, <3>2, <3>4a, <3>4, <3>8, SMTT(30) DEF Types
    <3>10. NextLag = plan.step + j - robotStep
      BY <1>7, <3>3, <3>4a, <3>6 DEF NextLag
    <3>11. ASSUME call = "obs"
           PROVE  /\ plan.episode = robotEpisode /\ plan.step <= robotStep
                  /\ NextLag \in 0 .. Slack(plan.step) + Sent - Len(wire)
                  /\ executed.episode = robotEpisode => executed.obs.step <= plan.step
      BY <1>1, <3>1, <3>11 DEF EpisodeInv
    <3>12. AnswerInv'
      <4>1. ASSUME call = "obs", answers' # {}
            PROVE  plan.step + j - robotStep \in 0 .. Slack(plan.step) + attempt
        <5>1. Len(wire) = 1 /\ Sent = attempt + 1
          BY <1>4, <1>7, <3>8, <4>1
        <5>2. QED
          BY <1>7, <3>10, <3>11, <4>1, <5>1
      <4>2. \A s : Slack(s)' = Slack(s)
        BY <1>3 DEF Slack
      <4>3. QED
        BY <1>3, <3>1, <3>4a, <3>4, <3>8, <3>11, <4>1, <4>2 DEF AnswerInv
    <3>13. EpisodeInv'
      <4>1. NextLag' = NextLag + 1 /\ Slack(plan.step)' = Slack(plan.step)
        <5>1. plan' = plan /\ robotStep' = robotStep /\ once' = once
          BY <1>3, <3>1
        <5>2. NextLag' = plan.step + j + 1 - robotStep /\ Slack(plan.step)' = Slack(plan.step)
          BY <3>4, <5>1 DEF NextLag, Slack
        <5>3. QED
          BY <1>7, <3>4a, <3>6, <3>10, <5>2
      <4>2. NextLag \in 0 .. Slack(plan.step) + Sent - Len(wire)
               => NextLag + 1 \in 0 .. Slack(plan.step) + Sent - Len(wire')
        BY <1>4, <1>7
      <4>3. QED
        BY <1>1, <1>3, <1>4, <1>6, <1>7, <2>1, <3>1, <3>8, <3>11, <4>1, <4>2, SMTT(30) DEF EpisodeInv
    <3>14. QED
      BY <1>8, <3>5, <3>8, <3>9, <3>12, <3>13 DEF IInv
  <2>3. CASE Policy!PredictGenerate /\ plan' = m.request.obs /\ Answer(m, TRUE, plan', delivered'.index)
    <3>1. PICK len \in ChunkLengths :
             /\ buffer = <<>> /\ 0 < len /\ Policy!Horizon(len) <= len
             /\ Policy!Pop(Policy!Chunk(Policy!Now, len))
      BY <2>3 DEF Policy!PredictGenerate
    <3> DEFINE h == Policy!Horizon(len)
               c == Policy!Chunk(Policy!Now, len)
    <3>2. h \in Nat /\ 0 < h /\ h <= Policy!AgeBound /\ Policy!AgeBound \in Nat
      BY <3>1 DEF Policy!ConfigAssumption, Policy!Horizon, Policy!AgeBound
    <3>3. /\ buffer' = Tail(c) /\ served' = served + 1 /\ UNCHANGED episode
          /\ delivered' = [episode |-> episode, step |-> served,
                           obs |-> Head(c).obs, index |-> Head(c).index]
      BY <3>1 DEF Policy!Pop
    <3>4. Policy!Now \in Obs
      BY <1>1 DEF Types, Policy!Now, Obs
    <3>5. c \in Seq(Action) /\ Len(c) = h /\ \A i \in 1 .. h : c[i].index = i - 1
      <4>1. c = [i \in 1 .. h |-> [obs |-> Policy!Now, index |-> i - 1]]
        BY DEF Policy!Chunk
      <4> HIDE DEF h, c
      <4>2. \A i \in 1 .. h : [obs |-> Policy!Now, index |-> i - 1] \in Action
        BY <3>2, <3>4 DEF Action
      <4>3. QED
        BY <3>2, <4>1, <4>2
    <3> HIDE DEF h, c
    <3>6. /\ Head(c) = c[1] /\ buffer' \in Seq(Action)
          /\ \A i \in DOMAIN buffer' : i + 1 \in 1 .. h /\ buffer'[i] = c[i + 1] /\ i \in Nat
      BY <3>2, <3>3, <3>5
    <3>7. delivered'.index = 0
      BY <3>2, <3>3, <3>5, <3>6
    <3>8. BufferInv'
      <4>1. \A i \in DOMAIN buffer' : buffer'[i].index = i /\ i + 1 <= h /\ i \in Nat
        BY <3>2, <3>5, <3>6
      <4>2. \A i \in DOMAIN buffer' : buffer'[i].index = 0 + i /\ buffer'[i].index < Policy!AgeBound
        BY <3>2, <4>1
      <4>3. QED
        BY <3>7, <4>2 DEF BufferInv
    <3>9. Answer(m, TRUE, m.request.obs, 0) /\ plan' = m.request.obs
      <4>1. plan' = m.request.obs /\ Answer(m, TRUE, plan', delivered'.index)
        BY <2>3
      <4>2. QED
        BY <3>7, <4>1
    <3>10. /\ NetInv' /\ wire' \in Seq(Message) /\ answers' \subseteq Reply
           /\ \A a \in answers' : a.ok = TRUE /\ a.obs = m.request.obs /\ a.index = 0
           /\ answers' # {} => pc = "recv" /\ wire' = <<>> /\ m.request = Current
           /\ Current' = Current /\ Sent' = Sent
      BY <1>2, <1>5, <3>9, ServeNet DEF m
    <3>11. Types'
      BY <1>1, <1>3, <1>5, <3>3, <3>6, <3>7, <3>9, <3>10, SMTT(30) DEF Types
    <3>12. ASSUME call = "obs"
           PROVE  /\ m.request.obs.episode = robotEpisode /\ m.request.obs.step = robotStep
                  /\ executed.episode = robotEpisode => executed.obs.step <= robotStep
                  /\ Len(wire) <= Sent
      BY <1>1, <1>6, <3>12 DEF EpisodeInv, Now
    <3>13. \A s : Slack(s)' = Slack(s)
      BY <1>3 DEF Slack
    <3>14. Slack(robotStep) = 0
      BY <1>7 DEF Slack
    <3>15. AnswerInv'
      <4>1. robotStep + 0 - robotStep \in 0 .. Slack(robotStep) + attempt
        BY <1>7, <3>14
      <4>2. 0 < Policy!AgeBound
        BY <3>2
      <4>3. robotStep <= robotStep
        BY <1>7
      <4>4. QED
        BY <1>3, <3>7, <3>9, <3>10, <3>12, <3>13, <4>1, <4>2, <4>3 DEF AnswerInv
    <3>16. EpisodeInv'
      <4>1. ASSUME call = "obs"
            PROVE  NextLag' \in 0 .. Slack(plan.step)' + Sent' - Len(wire')
        <5>1. NextLag' = 1
          BY <1>3, <1>7, <3>7, <3>9, <3>12, <4>1 DEF NextLag
        <5>2. Slack(plan.step)' = 0
          BY <1>3, <1>7, <3>9, <3>12, <4>1 DEF Slack
        <5>3. 1 \in 0 .. Sent - Len(wire')
          BY <1>4, <1>7, <3>12, <4>1
        <5>4. QED
          BY <1>4, <1>7, <3>10, <5>1, <5>2, <5>3
      <4>2. robotStep <= robotStep
        BY <1>7
      <4>3. Len(wire') <= Len(wire) /\ Len(wire') \in Nat
        BY <1>2, <1>4, <3>10
      <4>4. QED
        BY <1>1, <1>3, <1>4, <1>6, <1>7, <2>1, <3>9, <3>10, <3>12, <4>1, <4>2, <4>3 DEF EpisodeInv
    <3>17. QED
      BY <1>8, <3>8, <3>10, <3>11, <3>15, <3>16 DEF IInv
  <2>4. CASE UNCHANGED policyVars /\ Answer(m, FALSE, NoObs, 0)
    BY <1>9, <2>1, <2>4 DEF policyVars
  <2>5. CASE Policy!PredictRaise /\ plan' = plan /\ Answer(m, FALSE, NoObs, 0)
    <3>1. UNCHANGED <<buffer, episode, served, delivered, plan>>
      BY <2>5 DEF Policy!PredictRaise
    <3>2. QED
      BY <1>9, <2>1, <2>5, <3>1
  <2>6. QED
    BY <1>12, <2>2, <2>3, <2>4, <2>5 DEF ServePredict
<1>13. QED
  BY <1>2, <1>10, <1>11, <1>12

LEMMA InvStep ==
    ASSUME Policy!ConfigAssumption, IInv, [Next]_vars
    PROVE  IInv'
<1>1. CASE Killed
  BY <1>1, EndStep DEF Killed
<1>2. CASE Send
  <2>1. pc = "send" /\ UNCHANGED policyVars
    BY <1>2 DEF Send
  <2>2. CASE socket = 0 /\ ClientEnds /\ UNCHANGED <<opened, wire>>
    BY <2>1, <2>2, EndStep
  <2>3. CASE socket \in broken /\ GiveUp /\ UNCHANGED <<opened, wire>>
    <3>1. socket # 0
      BY <2>3 DEF IInv, Types
    <3>2. QED
      BY <2>1, <2>3, <3>1, RetryStep
  <2>4. CASE /\ socket \notin broken
             /\ opened' = IF socket = 0 THEN opened + 1 ELSE opened
             /\ socket' = IF socket = 0 THEN opened' ELSE socket
             /\ wire' = Append(wire, [conn |-> socket', request |-> Current])
             /\ pc' = "recv"
             /\ UNCHANGED <<robotVars, call, attempt, broken, answers>>
    BY <2>1, <2>4, SendStep
  <2>5. QED
    BY <1>2, <2>2, <2>3, <2>4 DEF Send
<1>3. CASE Dropped \/ TimeOut
  <2>1. pc = "recv" /\ GiveUp /\ UNCHANGED <<policyVars, opened, wire>>
    BY <1>3 DEF Dropped, TimeOut
  <2>2. socket # 0
    BY <2>1 DEF IInv, NetInv
  <2>3. QED
    BY <2>1, <2>2, RetryStep
<1>4. CASE UNCHANGED vars
  <2>1. UNCHANGED <<buffer, episode, served, delivered, plan, once, client, robotEpisode, robotStep,
                    executed, call, pc, attempt, socket, opened, broken, wire, answers>>
    BY <1>4 DEF vars, policyVars, robotVars, netVars
  <2>2. Current' = Current /\ Sent' = Sent /\ NextLag' = NextLag /\ \A s : Slack(s)' = Slack(s)
    BY <2>1 DEF Current, Now, Sent, NextLag, Slack
  <2>3. Types' /\ NetInv' /\ BufferInv'
    BY <2>1, <2>2 DEF IInv, Types, NetInv, BufferInv
  <2>4. EpisodeInv' /\ AnswerInv'
    BY <2>1, <2>2 DEF IInv, EpisodeInv, AnswerInv, Slack
  <2>5. ExecutedInv'
    BY <2>1 DEF IInv, ExecutedInv, SameEpisode, LagBound, Lag
  <2>6. QED
    BY <2>3, <2>4, <2>5 DEF IInv
<1>5. QED
  BY <1>1, <1>2, <1>3, <1>4, StartStep, ReceiveStep, BreakStep, ServeStep DEF Next

(* The state of the server, the network and the robot stays consistent     *)
(* whatever is dropped, late, lost, retried or killed.                     *)
THEOREM TransportInvariance == Policy!ConfigAssumption => (Spec => []IInv)
<1> SUFFICES ASSUME Policy!ConfigAssumption PROVE Spec => []IInv
  OBVIOUS
<1>1. IInv /\ [Next]_vars => IInv'
  BY InvStep
<1>2. QED
  BY <1>1, InvInit, PTL DEF Spec

(* What recv returns is the answer to the request in progress, also after  *)
(* time-outs and retries, with any number of connections.                  *)
THEOREM AnswersBelong == Policy!ConfigAssumption => (Spec => []AnswersMatch)
<1> SUFFICES ASSUME Policy!ConfigAssumption PROVE Spec => []AnswersMatch
  OBVIOUS
<1>1. IInv => AnswersMatch
  BY DEF IInv, NetInv, AnswersMatch
<1>2. QED
  BY <1>1, TransportInvariance, PTL

(* A robot never executes an action planned in another episode, and a      *)
(* retried predict never makes it execute one too early, nor later than    *)
(* the steps since its chunk was generated and one more explain.           *)
THEOREM RetriesCostBoundedLag ==
    Policy!ConfigAssumption => (Spec => [](SameEpisode /\ LagBound))
<1> SUFFICES ASSUME Policy!ConfigAssumption PROVE Spec => [](SameEpisode /\ LagBound)
  OBVIOUS
<1>1. IInv => SameEpisode /\ LagBound
  BY DEF IInv, ExecutedInv
<1>2. QED
  BY <1>1, TransportInvariance, PTL

LEMMA StreamStep ==
    ASSUME IInv, [Next]_vars, once
    PROVE  Stream!Next \/ UNCHANGED <<robotEpisode, robotStep, executed>>
<1>1. CASE StartReset
  BY <1>1 DEF StartReset, Stream!Next, Stream!NewEpisode
<1>2. CASE Receive
  <2>1. CASE ClientEnds
    BY <2>1 DEF ClientEnds
  <2>2. ASSUME NEW a \in answers, a.ok, call = "obs",
               executed' = [episode |-> robotEpisode, step |-> robotStep,
                            obs |-> a.obs, index |-> a.index],
               robotStep' = robotStep + 1, UNCHANGED robotEpisode
        PROVE  Stream!Deliver
    <3>1. /\ a.obs.episode = robotEpisode /\ a.obs.step <= robotStep
          /\ a.obs.step + a.index - robotStep \in 0 .. Slack(a.obs.step) + attempt
          /\ a.index < Policy!AgeBound
          /\ executed.episode = robotEpisode => executed.obs.step <= a.obs.step
          /\ a.obs \in Obs /\ a.obs.step \in Nat /\ a.index \in Nat /\ robotStep \in Nat
          /\ executed.obs.step \in Nat
      BY <2>2 DEF IInv, AnswerInv, Types, Reply, Obs
    <3>2. Slack(a.obs.step) = 0 /\ attempt = 0
      <4>1. pc = "recv"
        BY <2>2 DEF IInv, NetInv
      <4>2. QED
        BY <2>2, <4>1 DEF IInv, EpisodeInv, Slack
    <3>3. a.index = robotStep - a.obs.step
      BY <3>1, <3>2
    <3>4. a.obs = [episode |-> robotEpisode, step |-> a.obs.step]
      BY <3>1 DEF Obs
    <3>5. a.obs.step \in Stream!LastPlan .. robotStep
      BY <3>1 DEF Stream!LastPlan
    <3>6. executed' = [episode |-> robotEpisode, step |-> robotStep,
                       obs |-> [episode |-> robotEpisode, step |-> a.obs.step],
                       index |-> robotStep - a.obs.step]
      BY <2>2, <3>3, <3>4
    <3>7. QED
      BY <2>2, <3>1, <3>3, <3>5, <3>6 DEF Stream!Deliver
  <2>3. QED
    BY <1>2, <2>1, <2>2 DEF Receive, Stream!Next
<1>3. CASE \/ StartPing \/ StartPredict \/ Drop \/ Serve \/ Lose \/ UNCHANGED vars
  BY <1>3 DEF StartPing, StartPredict, Drop, Serve, Lose, vars, robotVars
<1>4. CASE Killed \/ Send \/ Dropped \/ TimeOut
  BY <1>4 DEF Killed, Send, Dropped, TimeOut, GiveUp, ClientEnds, robotVars
<1>5. QED
  BY <1>1, <1>2, <1>3, <1>4 DEF Next

(* With predict_once every step of the system is, for the robot, a step of *)
(* ActionStream: the promise of the policy holds through the network.      *)
THEOREM StreamEndToEnd == Policy!ConfigAssumption => (Spec => EndToEnd)
<1> SUFFICES ASSUME Policy!ConfigAssumption PROVE Spec => EndToEnd
  OBVIOUS
<1>1. IInv /\ [Next]_vars => [once => Stream!Next \/ UNCHANGED <<robotEpisode, robotStep, executed>>]_vars
  BY StreamStep
<1>2. QED
  BY <1>1, TransportInvariance, PTL DEF Spec, EndToEnd
=============================================================================
