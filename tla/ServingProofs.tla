--------------------------- MODULE ServingProofs ----------------------------
(***************************************************************************)
(* What the run of MCServing checks of the executors and of the transport, *)
(* for every length of chunks, horizon and bound: the invariants of        *)
(* AsyncExecutorProofs and PolicyTransportProofs carried over, and that of *)
(* SyncExecutor, which has no module of proofs of its own.                 *)
(***************************************************************************)
EXTENDS MCServing, TLAPS

(* The chunk in the synchronous buffer follows the last action served. *)
SyncAction == [obs : Sync!Obs, index : Nat]
SyncTypes ==
    /\ sBuffer \in Seq(SyncAction) /\ sEpisode \in Nat \ {0} /\ sServed \in Nat
    /\ sDelivered \in [episode : Nat, step : Nat, obs : Sync!Obs, index : Nat]
SyncBuffer ==
    /\ \A i \in DOMAIN sBuffer :
          /\ sBuffer[i].obs = sDelivered.obs
          /\ sBuffer[i].index = sDelivered.index + i
          /\ sBuffer[i].index < Sync!AgeBound
    /\ sBuffer # <<>> =>
          /\ sDelivered.episode = sEpisode /\ sDelivered.obs.episode = sEpisode
          /\ sDelivered.obs.step + sDelivered.index + 1 = sServed
SyncPast ==
    /\ sDelivered.episode <= sEpisode
    /\ sDelivered.episode = sEpisode => sDelivered.obs.step <= sServed
SyncInv == SyncTypes /\ SyncBuffer /\ SyncPast
-----------------------------------------------------------------------------
(* The rest of a chunk generated from `obs`, from its k-th action on. *)
RestOf(buf, obs, k) ==
    /\ buf \in Seq(SyncAction) /\ buf # <<>>
    /\ \A i \in DOMAIN buf :
          buf[i].obs = obs /\ buf[i].index = k + i - 1 /\ buf[i].index < Sync!AgeBound

(* SyncExecutor: what serving the first of a buffer does, be it what was   *)
(* left of a chunk or a chunk generated just now.                          *)
LEMMA PopStep ==
    ASSUME SyncTypes, SyncPast, NEW buf, NEW k \in Nat, NEW obs \in Sync!Obs, RestOf(buf, obs, k),
           obs.episode = sEpisode, obs.step + k = sServed,
           sDelivered.episode = sEpisode => sDelivered.obs.step <= obs.step,
           Sync!Pop(buf)
    PROVE  /\ SyncInv' /\ Sync!Stream!Deliver
           /\ sServed' = sServed + 1 /\ sDelivered'.obs = obs /\ sDelivered'.index = k
<1>1. /\ sBuffer' = Tail(buf) /\ sServed' = sServed + 1 /\ sEpisode' = sEpisode
      /\ sDelivered' = [episode |-> sEpisode, step |-> sServed,
                        obs |-> Head(buf).obs, index |-> Head(buf).index]
  BY DEF Sync!Pop
<1>2. /\ sEpisode \in Nat \ {0} /\ sServed \in Nat /\ obs.step \in Nat
      /\ sDelivered.obs.step \in Nat
  BY DEF SyncTypes, Sync!Obs
<1>3. /\ Head(buf) = buf[1] /\ Len(buf) \in Nat /\ 1 \in DOMAIN buf
      /\ Tail(buf) \in Seq(SyncAction) /\ Len(Tail(buf)) = Len(buf) - 1
      /\ \A i \in DOMAIN Tail(buf) : i \in Nat /\ i + 1 \in DOMAIN buf /\ Tail(buf)[i] = buf[i + 1]
  BY DEF RestOf
<1>4. Head(buf).obs = obs /\ Head(buf).index = k /\ k < Sync!AgeBound
  BY <1>3 DEF RestOf
<1>5. sDelivered' = [episode |-> sEpisode, step |-> sServed, obs |-> obs, index |-> k]
  BY <1>1, <1>4
<1>6. SyncTypes'
  BY <1>1, <1>2, <1>3, <1>5, SMTT(30) DEF SyncTypes
<1>7. SyncBuffer'
  <2>1. ASSUME NEW i \in DOMAIN Tail(buf)
        PROVE  /\ Tail(buf)[i].obs = obs /\ Tail(buf)[i].index = k + i
               /\ Tail(buf)[i].index < Sync!AgeBound
    BY <1>3, <2>1 DEF RestOf
  <2>2. obs.step + k + 1 = sServed + 1
    BY <1>2
  <2>3. /\ sDelivered'.obs = obs /\ sDelivered'.index = k /\ sDelivered'.episode = sEpisode
        /\ sDelivered'.obs.step = obs.step /\ sDelivered'.obs.episode = sEpisode
    BY <1>5
  <2>4. \A i \in DOMAIN sBuffer' :
            /\ sBuffer'[i].obs = sDelivered'.obs
            /\ sBuffer'[i].index = sDelivered'.index + i
            /\ sBuffer'[i].index < Sync!AgeBound
    BY <1>1, <2>1, <2>3
  <2>5. QED
    BY <1>1, <2>2, <2>3, <2>4 DEF SyncBuffer
<1>8. SyncPast'
  BY <1>1, <1>2, <1>5 DEF SyncPast
<1>9. Sync!Stream!Deliver
  <2>1. obs = [episode |-> sEpisode, step |-> obs.step] /\ k = sServed - obs.step
    BY <1>2 DEF Sync!Obs
  <2>2. obs.step \in Sync!Stream!LastPlan .. sServed
    BY <1>2 DEF Sync!Stream!LastPlan
  <2>3. sDelivered' = [episode |-> sEpisode, step |-> sServed,
                       obs |-> [episode |-> sEpisode, step |-> obs.step],
                       index |-> sServed - obs.step]
    BY <1>5, <2>1
  <2>4. QED
    BY <1>1, <1>4, <2>1, <2>2, <2>3 DEF Sync!Stream!Deliver
<1>10. QED
  BY <1>1, <1>5, <1>6, <1>7, <1>8, <1>9 DEF SyncInv

SyncStream == Sync!Stream!Next \/ UNCHANGED <<sEpisode, sServed, sDelivered>>
SyncUnmixed ==
    sServed' = sServed + 1 =>
       \/ sDelivered'.index = 0 /\ sDelivered'.obs = Sync!Now
       \/ /\ sDelivered'.obs = sDelivered.obs
          /\ sDelivered'.index = sDelivered.index + 1
          /\ SyncHorizon # Unset => sDelivered'.index < SyncHorizon

(* A call of the synchronous executor is a step of ActionStream, and goes  *)
(* on with a chunk or starts one.                                          *)
LEMMA SyncStep ==
    ASSUME Sync!ConfigAssumption, SyncInv, Sync!Next
    PROVE  SyncInv' /\ SyncStream /\ SyncUnmixed
<1>1. /\ SyncTypes /\ SyncBuffer /\ SyncPast
      /\ sBuffer \in Seq(SyncAction) /\ sEpisode \in Nat \ {0} /\ sServed \in Nat
      /\ sDelivered.obs \in Sync!Obs /\ sDelivered.index \in Nat /\ sDelivered.obs.step \in Nat
      /\ sDelivered.episode \in Nat
  BY DEF SyncInv, SyncTypes, Sync!Obs
<1>2. CASE Sync!PredictBuffered
  <2> DEFINE k == sDelivered.index + 1
  <2>1. sBuffer # <<>> /\ Sync!Pop(sBuffer)
    BY <1>2 DEF Sync!PredictBuffered
  <2>2. /\ sDelivered.obs.episode = sEpisode /\ sDelivered.obs.step + k = sServed /\ k \in Nat
    BY <1>1, <2>1, SMTT(30) DEF SyncBuffer
  <2>3. RestOf(sBuffer, sDelivered.obs, k)
    BY <1>1, <2>1 DEF SyncBuffer, RestOf
  <2>4. 1 \in DOMAIN sBuffer /\ sBuffer[1].index = k + 1 - 1
    BY <1>1, <2>1, <2>3 DEF RestOf
  <2>5. k < Sync!AgeBound
    BY <2>2, <2>3, <2>4 DEF RestOf
  <2>6. sDelivered.obs.step <= sDelivered.obs.step
    BY <1>1
  <2> HIDE DEF k
  <2>7. SyncInv' /\ Sync!Stream!Deliver /\ sDelivered'.obs = sDelivered.obs /\ sDelivered'.index = k
    BY <1>1, <2>1, <2>2, <2>3, <2>6, PopStep
  <2>8. SyncUnmixed
    BY <2>5, <2>7 DEF SyncUnmixed, Sync!AgeBound, k
  <2>9. QED
    BY <2>7, <2>8 DEF SyncStream, Sync!Stream!Next
<1>3. CASE Sync!PredictGenerate
  <2>1. PICK len \in SyncChunks : 0 < len /\ Sync!Horizon(len) <= len /\ Sync!Pop(Sync!Chunk(Sync!Now, len))
    BY <1>3 DEF Sync!PredictGenerate
  <2> DEFINE n == Sync!Horizon(len)
             chunk == Sync!Chunk(Sync!Now, len)
  <2>2. /\ len \in Nat /\ len <= SyncActions /\ SyncActions \in Nat
        /\ n = IF SyncHorizon = Unset THEN len ELSE SyncHorizon
        /\ SyncHorizon \in (Nat \ {0}) \cup {Unset}
    BY <2>1 DEF Sync!ConfigAssumption, Sync!Horizon
  <2>3. n \in Nat /\ n > 0 /\ n <= Sync!AgeBound /\ Sync!AgeBound \in Nat
    BY <2>1, <2>2 DEF Sync!AgeBound
  <2>4. Sync!Now = [episode |-> sEpisode, step |-> sServed] /\ Sync!Now \in Sync!Obs
    BY <1>1 DEF Sync!Now, Sync!Obs
  <2>5. chunk = [i \in 1 .. n |-> [obs |-> Sync!Now, index |-> i - 1]]
    BY DEF Sync!Chunk
  <2>6. 0 \in Nat /\ sServed + 0 = sServed
    BY <1>1
  <2> HIDE DEF n, chunk
  <2>7. chunk \in Seq(SyncAction) /\ chunk # <<>> /\ DOMAIN chunk = 1 .. n
    <3>1. \A i \in 1 .. n : [obs |-> Sync!Now, index |-> i - 1] \in SyncAction
      BY <2>3, <2>4 DEF SyncAction
    <3>2. chunk \in Seq(SyncAction) /\ DOMAIN chunk = 1 .. n
      BY <2>3, <2>5, <3>1
    <3>3. Len(chunk) = n
      BY <2>3, <3>2
    <3>4. QED
      BY <2>3, <3>2, <3>3
  <2>8. RestOf(chunk, Sync!Now, 0)
    <3>1. ASSUME NEW i \in DOMAIN chunk
          PROVE  /\ chunk[i].obs = Sync!Now /\ chunk[i].index = 0 + i - 1
                 /\ chunk[i].index < Sync!AgeBound
      <4>1. i \in 1 .. n /\ 0 + i - 1 = i - 1 /\ i - 1 < Sync!AgeBound
        BY <2>3, <2>7
      <4>2. chunk[i] = [obs |-> Sync!Now, index |-> i - 1]
        BY <2>5, <4>1
      <4>3. QED
        BY <4>1, <4>2
    <3>2. QED
      BY <2>7, <3>1 DEF RestOf
  <2>9. sDelivered.episode = sEpisode => sDelivered.obs.step <= Sync!Now.step
    BY <1>1, <2>4 DEF SyncPast
  <2>10. Sync!Now.episode = sEpisode /\ Sync!Now.step + 0 = sServed
    BY <2>4, <2>6
  <2>11. Sync!Pop(chunk)
    BY <2>1 DEF chunk
  <2>12. SyncInv' /\ Sync!Stream!Deliver /\ sDelivered'.obs = Sync!Now /\ sDelivered'.index = 0
    BY <1>1, <2>4, <2>6, <2>8, <2>9, <2>10, <2>11, PopStep
  <2>13. QED
    BY <2>12 DEF SyncStream, SyncUnmixed, Sync!Stream!Next
<1>4. CASE Sync!PredictRaise
  <2>1. UNCHANGED <<sBuffer, sEpisode, sServed, sDelivered>>
    BY <1>4 DEF Sync!PredictRaise
  <2>2. SyncInv'
    BY <1>1, <2>1 DEF SyncInv, SyncTypes, SyncBuffer, SyncPast
  <2>3. sServed' # sServed + 1
    BY <1>1, <2>1
  <2>4. QED
    BY <2>1, <2>2, <2>3 DEF SyncStream, SyncUnmixed
<1>5. CASE Sync!Reset
  <2>1. sBuffer' = <<>> /\ sEpisode' = sEpisode + 1 /\ sServed' = 0 /\ sDelivered' = sDelivered
    BY <1>5 DEF Sync!Reset
  <2>2. SyncInv'
    BY <1>1, <2>1 DEF SyncInv, SyncTypes, SyncBuffer, SyncPast
  <2>3. sServed' # sServed + 1
    BY <1>1, <2>1
  <2>4. Sync!Stream!NewEpisode
    BY <2>1 DEF Sync!Stream!NewEpisode
  <2>5. QED
    BY <2>2, <2>3, <2>4 DEF SyncStream, SyncUnmixed, Sync!Stream!Next
<1>6. QED
  BY <1>2, <1>3, <1>4, <1>5 DEF Sync!Next
-----------------------------------------------------------------------------
(* The systems of the run, each with its invariant. *)
ServingInv ==
    /\ system = "lengths" => Lengths!IInv
    /\ system = "sync" => SyncInv
    /\ system = "transport" => Transport!IInv

LEMMA ServingInvInit == ServingInit => ServingInv
<1> SUFFICES ASSUME ServingInit PROVE ServingInv
  OBVIOUS
<1>1. ServingAssumption
  BY ServingAssumption
<1>2. system = "lengths" => Lengths!IInv
  BY <1>1, Lengths!InitInv DEF ServingInit
<1>3. system = "transport" => Transport!IInv
  BY Transport!InvInit DEF ServingInit
<1>4. Sync!Init => SyncInv
  <2> SUFFICES ASSUME Sync!Init PROVE SyncInv
    OBVIOUS
  <2>1. sBuffer = <<>> /\ sEpisode = 1 /\ sServed = 0
        /\ sDelivered = [episode |-> 0, step |-> 0, obs |-> [episode |-> 0, step |-> 0], index |-> 0]
    BY DEF Sync!Init, Sync!Nothing, Sync!NoObs
  <2>2. QED
    BY <2>1 DEF SyncInv, SyncTypes, SyncBuffer, SyncPast, Sync!Obs
<1>5. QED
  BY <1>2, <1>3, <1>4 DEF ServingInit, ServingInv

LEMMA ServingInvStep ==
    ASSUME ServingInv, [ServingNext]_servingVars
    PROVE  ServingInv'
<1>1. Lengths!ConfigAssumption /\ Sync!ConfigAssumption /\ Transport!Policy!ConfigAssumption
  BY ServingAssumption
<1>2. CASE ServingNext
  <2>1. system' = system
    BY <1>2 DEF ServingNext
  <2>2. system = "lengths" => Lengths!IInv'
    BY <1>1, <1>2, Lengths!StepInv DEF ServingNext, ServingInv
  <2>3. system = "sync" => SyncInv'
    BY <1>1, <1>2, SyncStep DEF ServingNext, ServingInv
  <2>4. system = "transport" => Transport!IInv'
    BY <1>1, <1>2, Transport!InvStep DEF ServingNext, ServingInv
  <2>5. QED
    BY <2>1, <2>2, <2>3, <2>4 DEF ServingInv
<1>3. CASE UNCHANGED servingVars
  <2>1. system' = system
    BY <1>3 DEF servingVars
  <2>2. UNCHANGED Lengths!vars
    BY <1>3 DEF servingVars, serverVars, lengthVars, Lengths!vars, Lengths!lockVars,
                Lengths!poolVars, Lengths!ghostVars
  <2>3. UNCHANGED <<sBuffer, sEpisode, sServed, sDelivered>>
    BY <1>3 DEF servingVars, serverVars
  <2>4. UNCHANGED Transport!vars
    BY <1>3 DEF servingVars, serverVars, clientVars, robotSide, Transport!vars,
                Transport!policyVars, Transport!robotVars, Transport!netVars
  <2>5. system = "lengths" => Lengths!IInv'
    BY <1>1, <2>2, Lengths!StepInv DEF ServingInv
  <2>6. system = "transport" => Transport!IInv'
    BY <1>1, <2>4, Transport!InvStep DEF ServingInv
  <2>7. SyncInv => SyncInv'
    BY <2>3 DEF SyncInv, SyncTypes, SyncBuffer, SyncPast
  <2>8. QED
    BY <2>1, <2>5, <2>6, <2>7 DEF ServingInv
<1>4. QED
  BY <1>2, <1>3

(* What the run checks of these systems follows.                           *)
THEOREM ServingInvariance == ServingSpec => []ServingInv
<1>1. ServingInv /\ [ServingNext]_servingVars => ServingInv'
  BY ServingInvStep
<1>2. QED
  BY <1>1, ServingInvInit, PTL DEF ServingSpec

(* No answer is taken for that to another request, a reset isolates the    *)
(* episodes, and a retry costs at most a bounded lag, whatever is lost.    *)
THEOREM AnswersBelong == ServingSpec => []AnswersMatch
<1>1. ServingInv => AnswersMatch
  BY DEF ServingInv, AnswersMatch, Transport!IInv, Transport!NetInv, Transport!AnswersMatch,
         Transport!ExecutedInv
<1>2. QED
  BY <1>1, ServingInvariance, PTL

(* With predict_once a robot sees through the network what ActionStream    *)
(* promises.                                                               *)
THEOREM PromiseKept == ServingSpec => EndToEnd
<1>1. ServingInv /\ [ServingNext]_servingVars =>
         [system = "transport" /\ once =>
            Transport!Stream!Next \/ UNCHANGED <<robotEpisode, robotStep, executed>>]_servingVars
  <2> SUFFICES ASSUME ServingInv, ServingNext, system = "transport", once
               PROVE  Transport!Stream!Next \/ UNCHANGED <<robotEpisode, robotStep, executed>>
    OBVIOUS
  <2>1. Transport!Next /\ Transport!IInv
    BY DEF ServingNext, ServingInv
  <2>2. QED
    BY <2>1, Transport!StreamStep
<1>2. QED
  BY <1>1, ServingInvariance, PTL DEF ServingSpec, EndToEnd

(* The synchronous executor implements ActionStream and mixes no chunks,   *)
(* and the asynchronous one with chunks of all lengths implements it too.  *)
THEOREM StreamsKept == ServingSpec => OtherStreams
<1> DEFINE LengthsStream == Lengths!Stream!Next \/ UNCHANGED <<sEpisode, sServed, sDelivered>>
<1>1. ServingInv => (system = "lengths" => Lengths!IInv)
  BY DEF ServingInv
<1>2. ServingInv /\ [ServingNext]_servingVars => [system = "lengths" => LengthsStream]_servingVars
  <2> SUFFICES ASSUME ServingInv, ServingNext, system = "lengths"
               PROVE  LengthsStream
    OBVIOUS
  <2>1. Lengths!Next /\ Lengths!IInv /\ Lengths!ConfigAssumption
    BY ServingAssumption DEF ServingNext, ServingInv
  <2>2. QED
    BY <2>1, Lengths!StepDelivers DEF Lengths!Stream!vars
<1>3. ServingInv /\ [ServingNext]_servingVars => [system = "sync" => SyncStream]_servingVars
  BY SyncStep, ServingAssumption DEF ServingNext, ServingInv
<1>4. ServingInv /\ [ServingNext]_servingVars =>
         [system = "sync" /\ sServed' = sServed + 1 =>
             \/ sDelivered'.index = 0 /\ sDelivered'.obs = Sync!Now
             \/ /\ sDelivered'.obs = sDelivered.obs
                /\ sDelivered'.index = sDelivered.index + 1
                /\ SyncHorizon # Unset => sDelivered'.index < SyncHorizon]_servingVars
  BY SyncStep, ServingAssumption DEF ServingNext, ServingInv, SyncUnmixed
<1>5. QED
  BY <1>1, <1>2, <1>3, <1>4, ServingInvariance, PTL DEF ServingSpec, OtherStreams, SyncStream
=============================================================================
