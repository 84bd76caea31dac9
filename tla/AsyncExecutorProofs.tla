------------------------ MODULE AsyncExecutorProofs -------------------------
(***************************************************************************)
(* AsyncExecutor for every engine, configuration and bound: its inductive  *)
(* invariant, the safety properties the runs check, and the refinement of  *)
(* ActionStream.                                                           *)
(***************************************************************************)
EXTENDS AsyncExecutor, TLAPS

(* The actions a chunk contributes, for a length that is not rejected and  *)
(* a skip inside the chunk (_unpack_result's slice).                       *)
LEMMA ChunkFacts ==
    ASSUME NEW obs \in Obs, NEW len \in ChunkLengths, NEW skip \in Nat,
           ~Rejects(len), skip < SliceEnd(len, skip)
    PROVE  /\ Chunk(obs, len, skip) \in Seq(Action)
           /\ Chunk(obs, len, skip) # <<>>
           /\ Len(Chunk(obs, len, skip)) = SliceEnd(len, skip) - skip
           /\ \A i \in DOMAIN Chunk(obs, len, skip) :
                 Chunk(obs, len, skip)[i] = [obs |-> obs, index |-> skip + i - 1]
           /\ Len(Chunk(obs, len, skip)) <= Horizon(len)
           /\ ResolvedDelay(len) \in Nat
           /\ ResolvedDelay(len) < Horizon(len)
           /\ Horizon(len) <= len
           /\ SliceEnd(len, skip) <= len
           /\ SliceEnd(len, skip) <= skip + Horizon(len)
<1> USE ConfigAssumption
<1>1. len \in Nat /\ Horizon(len) \in Nat /\ ResolvedDelay(len) \in Nat
  <2>1. len \in Nat
    OBVIOUS
  <2>2. Horizon(len) \in Nat
    BY <2>1 DEF Horizon
  <2>3. Horizon(len) \div 2 \in Nat
    BY <2>2
  <2>4. QED
    BY <2>1, <2>2, <2>3 DEF ResolvedDelay
<1>2. SliceEnd(len, skip) \in Nat
  BY <1>1 DEF SliceEnd
<1>3. \A i \in 1 .. SliceEnd(len, skip) - skip :
         [obs |-> obs, index |-> skip + i - 1] \in Action
  BY <1>2 DEF Action
<1>4. Chunk(obs, len, skip) \in Seq(Action)
  BY <1>2, <1>3 DEF Chunk
<1>5. /\ Len(Chunk(obs, len, skip)) = SliceEnd(len, skip) - skip
      /\ DOMAIN Chunk(obs, len, skip) = 1 .. SliceEnd(len, skip) - skip
  BY <1>2 DEF Chunk
<1>6. \A i \in DOMAIN Chunk(obs, len, skip) :
         Chunk(obs, len, skip)[i] = [obs |-> obs, index |-> skip + i - 1]
  BY DEF Chunk
<1>7. /\ SliceEnd(len, skip) <= len
      /\ SliceEnd(len, skip) <= skip + Horizon(len)
  BY <1>1 DEF SliceEnd
<1>8. ResolvedDelay(len) < Horizon(len) /\ Horizon(len) <= len
  BY <1>1 DEF Rejects
<1>9. Chunk(obs, len, skip) # <<>>
  BY <1>2, <1>4, <1>5
<1>10. QED
  BY <1>1, <1>2, <1>4, <1>5, <1>6, <1>7, <1>8, <1>9

-----------------------------------------------------------------------------
(* What predict_action knows when its buffer is filled: buf is a run of    *)
(* one chunk starting at this step, and a pending future, submitted at     *)
(* start, is newer and has at most d steps left before its turn.           *)
BufferReady(buf) ==
    /\ buf \in Seq(Action) /\ buf # <<>>
    /\ \A i \in DOMAIN buf :
        /\ buf[i].obs = buf[1].obs
        /\ buf[i].obs.episode = episode
        /\ LastPlan <= buf[i].obs.step /\ buf[i].obs.step <= served
        /\ buf[i].obs.step + buf[i].index = served + i - 1
        /\ buf[i].index < AgeBound

FutureReady(buf, fut, start, d) ==
    /\ fut \in Obs /\ start \in Nat \cup {NoStep}
    /\ d \in Nat
    /\ DelaySteps # Unset => d = DelaySteps
    /\ d = DelaySteps \/ \E len \in ChunkLengths : d = ResolvedDelay(len)
    /\ fut = NoObs => start = NoStep
    /\ fut # NoObs =>
        /\ fut = [episode |-> episode, step |-> start]
        /\ start < served
        /\ LastPlan <= start /\ buf[1].obs.step <= start
        /\ served - start + Len(buf) <= d

(* The pool after the step holds work for fut only. *)
PoolReady(fut) ==
    /\ running' \in Obs /\ results' \subseteq Result
    /\ \A c \in queued : c = fut /\ c # NoObs
    /\ running' # NoObs => running' = fut
    /\ \A r \in results' : r.obs = fut /\ r.obs # NoObs
    /\ running' # NoObs => queued = {} /\ results' = {}
    /\ queued # {} => results' = {}
    /\ \A r1, r2 \in results' : r1 = r2
    /\ fut # NoObs => queued # {} \/ running' # NoObs \/ results' # {}

LEMMA TailFacts ==
    ASSUME NEW buf \in Seq(Action), buf # <<>>
    PROVE  /\ Tail(buf) \in Seq(Action)
           /\ Len(buf) \in Nat /\ Len(buf) > 0
           /\ Len(Tail(buf)) = Len(buf) - 1
           /\ 1 \in DOMAIN buf
           /\ Head(buf) = buf[1] /\ buf[1] \in Action
           /\ \A i \in DOMAIN Tail(buf) : i \in Nat /\ i > 0 /\ i + 1 \in DOMAIN buf
                                         /\ Tail(buf)[i] = buf[i + 1]
           /\ Tail(buf) # <<>> => 1 \in DOMAIN Tail(buf)
           /\ \A i \in DOMAIN buf : buf[i] \in Action
OBVIOUS

(* The end of predict_action keeps the invariant: the popped action leaves *)
(* a run that starts one step later, and a future submitted here is filed  *)
(* under the step of the action that is popped after it.                   *)
LEMMA FinishStep ==
    ASSUME IInv, phase # "drain",
           NEW buf, NEW fut, NEW start, NEW d,
           BufferReady(buf), FutureReady(buf, fut, start, d), PoolReady(fut),
           Finish(buf, fut, start, d, Now),
           UNCHANGED <<draining, pool>>, conds' \in Obs
    PROVE  IInv'
<1> DEFINE newFut == pending' = Now /\ startStep' = step /\ queued' = queued \cup {Now}
                     /\ fut = NoObs /\ Len(buf) <= d
           oldFut == pending' = fut /\ startStep' = start /\ queued' = queued
<1>t. TypeOK /\ PhaseInv /\ DelayInv
  BY DEF IInv
<1>0. /\ Now \in Obs /\ Now # NoObs /\ NoObs \in Obs
      /\ Now.episode = episode /\ Now.step = served
      /\ step = served /\ draining = NoObs /\ pool # "resetting"
  BY <1>t DEF TypeOK, PhaseInv, Now, Obs, NoObs
<1>1. CASE Pop(buf) /\ (newFut \/ oldFut)
  <2>1. /\ buffer' = Tail(buf) /\ step' = step + 1 /\ served' = served + 1
        /\ episode' = episode /\ error' = error
        /\ delivered' = [episode |-> episode, step |-> served,
                         obs |-> buf[1].obs, index |-> buf[1].index]
        /\ phase' = "free" /\ delay' = d
    BY <1>1, TailFacts DEF Pop, Finish, BufferReady
  <2>2. buf[1].obs \in Obs /\ buf[1].index \in Nat
    BY TailFacts DEF BufferReady, Action
  <2>3. /\ buf[1].obs.episode = episode /\ buf[1].obs.step <= served
        /\ buf[1].obs.step \in Nat /\ LastPlan' = buf[1].obs.step
    BY <2>1, <2>2, TailFacts DEF BufferReady, LastPlan, Obs
  <2>4. TypeOK'
    BY <1>t, <1>0, <1>1, <2>1, <2>2, TailFacts, SMTT(30)
       DEF TypeOK, BufferReady, FutureReady, PoolReady
  <2>5. PhaseInv'
    BY <1>t, <1>0, <1>1, <2>1 DEF PhaseInv, FutureReady, TypeOK
  <2>6. PoolInv'
    BY <1>0, <1>1, <2>1 DEF PoolInv, PoolReady, Held
  <2>7. BufferInv'
    <3> SUFFICES ASSUME NEW i \in DOMAIN Tail(buf)
                 PROVE  /\ Tail(buf)[i].obs = Tail(buf)[1].obs
                        /\ Tail(buf)[i].obs.episode = episode
                        /\ buf[1].obs.step <= Tail(buf)[i].obs.step
                        /\ Tail(buf)[i].obs.step <= served + 1
                        /\ Tail(buf)[i].obs.step + Tail(buf)[i].index = served + 1 + i - 1
                        /\ Tail(buf)[i].index < AgeBound
      BY <2>1, <2>3 DEF BufferInv, AgeBound
    <3>1. /\ i \in Nat /\ i + 1 \in DOMAIN buf /\ Tail(buf)[i] = buf[i + 1]
          /\ 2 \in DOMAIN buf /\ Tail(buf)[1] = buf[2]
      BY TailFacts DEF BufferReady
    <3>2. buf[i + 1].obs = buf[1].obs /\ buf[2].obs = buf[1].obs
      BY <3>1 DEF BufferReady
    <3>3. buf[i + 1].index \in Nat
      BY <3>1, TailFacts DEF BufferReady, Action
    <3>4. /\ buf[i + 1].obs.step + buf[i + 1].index = served + (i + 1) - 1
          /\ buf[i + 1].index < AgeBound /\ served \in Nat
      BY <1>t, <3>1 DEF BufferReady, TypeOK
    <3>5. Tail(buf)[i].obs = buf[1].obs /\ Tail(buf)[1].obs = buf[1].obs
      BY <3>1, <3>2
    <3>6. buf[1].obs.step + Tail(buf)[i].index = served + 1 + i - 1
      BY <2>3, <3>1, <3>2, <3>3, <3>4
    <3>7. Tail(buf)[i].obs.step = buf[1].obs.step
      BY <3>5
    <3>8. Tail(buf)[i].index < AgeBound
      BY <3>1, <3>4
    <3>9. buf[1].obs.step <= served + 1 /\ buf[1].obs.step <= buf[1].obs.step
      BY <2>3, <3>4
    <3>10. QED
      BY <2>3, <3>5, <3>6, <3>7, <3>8, <3>9
  <2>8. PendingInv'
    <3> SUFFICES ASSUME pending' # NoObs PROVE PendingInv'
      BY DEF PendingInv
    <3>0. Tail(buf) # <<>> => Tail(buf)[1].obs.step = buf[1].obs.step
      <4> SUFFICES ASSUME Tail(buf) # <<>> PROVE Tail(buf)[1].obs = buf[1].obs
        OBVIOUS
      <4>1. Tail(buf)[1] = buf[2] /\ 2 \in DOMAIN buf
        BY TailFacts DEF BufferReady
      <4>2. QED
        BY <4>1 DEF BufferReady
    <3>1. Len(Tail(buf)) = Len(buf) - 1 /\ Len(buf) \in Nat
      BY TailFacts DEF BufferReady
    <3>2. d \in Nat /\ d # Unset /\ served \in Nat
      BY <1>t, ConfigAssumption DEF FutureReady, TypeOK
    <3>3. CASE newFut
      <4>1. pending' = [episode |-> episode, step |-> served] /\ startStep' = served
        BY <1>0, <3>3 DEF Now
      <4>2. Len(buf) <= d
        BY <3>3
      <4>3. QED
        BY <2>1, <2>3, <3>0, <3>1, <3>2, <4>1, <4>2, SMTT(30) DEF PendingInv
    <3>4. CASE oldFut
      <4>1. /\ pending' = [episode |-> episode, step |-> start]
            /\ startStep' = start /\ start < served /\ buf[1].obs.step <= start
            /\ served - start + Len(buf) <= d
        BY <3>4 DEF FutureReady
      <4>2. start \in Nat
        BY <2>3, <3>2, <4>1 DEF FutureReady, NoStep
      <4>3. (served + 1) - start + (Len(buf) - 1) <= d /\ start < served + 1
        BY <3>1, <3>2, <4>1, <4>2
      <4>4. QED
        BY <2>1, <2>3, <3>0, <3>1, <3>2, <4>1, <4>3 DEF PendingInv
    <3>5. QED
      BY <1>1, <3>3, <3>4
  <2>9. DelayInv'
    <3>1. d # Unset /\ d \in Nat
      BY ConfigAssumption DEF FutureReady
    <3>2. /\ DelaySteps # Unset => d = DelaySteps
          /\ d = DelaySteps \/ \E len \in ChunkLengths : d = ResolvedDelay(len)
      BY DEF FutureReady
    <3>3. buf[1].obs.step <= served + 1 /\ episode \in Nat
      BY <1>t, <2>3 DEF TypeOK
    <3>4. QED
      BY <2>1, <3>1, <3>2, <3>3 DEF DelayInv, ResolvedDelay, Horizon
  <2>10. QED
    BY <2>4, <2>5, <2>6, <2>7, <2>8, <2>9 DEF IInv
<1>2. CASE buffer' = buf /\ error' = "shutdown" /\ oldFut
           /\ UNCHANGED <<step, ghostVars>>
  <2>1. /\ phase' = "free" /\ delay' = d /\ LastPlan' = LastPlan
        /\ step' = step /\ served' = served /\ episode' = episode /\ delivered' = delivered
    BY <1>2 DEF Finish, ghostVars, LastPlan
  <2>2. TypeOK'
    BY <1>t, <1>0, <1>2, <2>1 DEF TypeOK, BufferReady, FutureReady, PoolReady
  <2>3. PhaseInv' /\ PoolInv'
    BY <1>0, <1>2, <2>1 DEF PhaseInv, PoolInv, PoolReady, FutureReady, Held
  <2>4. BufferInv'
    BY <1>2, <2>1 DEF BufferInv, BufferReady, AgeBound
  <2>5. PendingInv' /\ DelayInv'
    BY <1>t, <1>2, <2>1, ConfigAssumption
       DEF PendingInv, DelayInv, FutureReady, ResolvedDelay, Horizon
  <2>6. QED
    BY <2>2, <2>3, <2>4, <2>5 DEF IInv
<1>3. QED
  BY <1>1, <1>2 DEF Finish, WantsPrefetch, Pop

(* An exception leaves the invariant alone: no future, an empty buffer and *)
(* a resolved delay that some chunk of the engine justifies.               *)
LEMMA RaiseStep ==
    ASSUME IInv, phase # "drain", NEW why, NEW d,
           why \in {"engine", "rejected", "stale"},
           d = delay \/ \E len \in ChunkLengths : d = ResolvedDelay(len) /\ d \in Nat,
           PoolReady(NoObs), Raise(why, <<>>, d),
           UNCHANGED <<draining, pool>>, conds' \in Obs
    PROVE  IInv'
<1>1. TypeOK /\ PhaseInv /\ DelayInv
  BY DEF IInv
<1>2. /\ phase' = "free" /\ buffer' = <<>> /\ pending' = NoObs /\ startStep' = NoStep
      /\ delay' = d /\ error' = why /\ step' = step /\ queued' = queued
      /\ episode' = episode /\ served' = served /\ delivered' = delivered
      /\ draining' = draining /\ pool' = pool /\ NoObs \in Obs
  BY DEF Raise, ghostVars, NoObs, Obs
<1>3. d \in Nat \cup {Unset}
  BY <1>1 DEF TypeOK
<1>4. TypeOK'
  BY <1>1, <1>2, <1>3 DEF TypeOK, PoolReady
<1>5. PhaseInv' /\ BufferInv' /\ PendingInv'
  BY <1>1, <1>2 DEF PhaseInv, BufferInv, PendingInv
<1>6. PoolInv'
  BY <1>2 DEF PoolInv, PoolReady, Held
<1>7. DelayInv'
  BY <1>1, <1>2, ConfigAssumption DEF DelayInv, ResolvedDelay, Horizon
<1>8. QED
  BY <1>4, <1>5, <1>6, <1>7 DEF IInv

(* Under a configured horizon the resolved delay does not depend on the    *)
(* chunk.                                                                  *)
LEMMA DelayFacts ==
    ASSUME DelayInv, TypeOK, delay # Unset, InferenceHorizon # Unset
    PROVE  delay = ResolvedDelay(0)
BY DEF DelayInv, ResolvedDelay, Horizon

(* The slice _unpack_result keeps of a chunk whose observation belongs to  *)
(* this episode and is skip steps old can be served.                       *)
LEMMA ChunkReady ==
    ASSUME IInv, NEW obs \in Obs, NEW len \in ChunkLengths \cup {Failed}, NEW skip \in Nat,
           obs.episode = episode, obs.step + skip = served, LastPlan <= obs.step,
           InferenceHorizon # Unset => skip = 0 \/ skip <= ResolvedDelay(0),
           len # Failed, ~Rejects(len), skip < SliceEnd(len, skip)
    PROVE  BufferReady(Chunk(obs, len, skip)) /\ ResolvedDelay(len) \in Nat
<1> DEFINE buf == Chunk(obs, len, skip)
<1>0. len \in ChunkLengths /\ len \in Nat /\ len <= ActionHorizon
  BY ConfigAssumption
<1>1. /\ buf \in Seq(Action) /\ buf # <<>>
      /\ Len(buf) = SliceEnd(len, skip) - skip
      /\ \A i \in DOMAIN buf : buf[i] = [obs |-> obs, index |-> skip + i - 1]
      /\ ResolvedDelay(len) \in Nat
      /\ SliceEnd(len, skip) <= len
      /\ SliceEnd(len, skip) <= skip + Horizon(len)
  BY <1>0, ChunkFacts
<1>2. SliceEnd(len, skip) <= AgeBound
  <2>1. SliceEnd(len, skip) \in Nat
    BY <1>0, ConfigAssumption DEF SliceEnd, Horizon
  <2>2. InferenceHorizon # Unset => ResolvedDelay(0) = ResolvedDelay(len)
                                    /\ Horizon(len) = InferenceHorizon
    BY DEF ResolvedDelay, Horizon
  <2>3. QED
    BY <1>0, <1>1, <2>1, <2>2, ConfigAssumption DEF AgeBound
<1>3. \A i \in DOMAIN buf :
         /\ i \in Nat /\ i >= 1 /\ skip + i - 1 < AgeBound
         /\ obs.step + (skip + i - 1) = served + i - 1
  <2>0. Horizon(len) \in Nat
    BY <1>0, ConfigAssumption DEF Horizon
  <2>1. SliceEnd(len, skip) \in Nat
    BY <1>0, <2>0 DEF SliceEnd
  <2>2. ResolvedDelay(0) \in Nat \/ InferenceHorizon = Unset
    <3>1. InferenceHorizon # Unset => InferenceHorizon \div 2 \in Nat
      BY ConfigAssumption
    <3>2. QED
      BY <3>1, ConfigAssumption DEF ResolvedDelay, Horizon
  <2>3. AgeBound \in Nat
    BY <2>2, ConfigAssumption DEF AgeBound
  <2>4. DOMAIN buf = 1 .. SliceEnd(len, skip) - skip
    BY <2>1 DEF Chunk
  <2>5. SUFFICES ASSUME NEW i \in 1 .. SliceEnd(len, skip) - skip
                 PROVE  /\ i \in Nat /\ i >= 1 /\ skip + i - 1 < AgeBound
                        /\ obs.step + (skip + i - 1) = served + i - 1
    BY <2>4
  <2>6. obs.step \in Nat /\ served \in Nat
    BY DEF IInv, Obs, TypeOK
  <2>7. QED
    BY <1>2, <2>1, <2>3, <2>6
<1>4. 1 \in DOMAIN buf
  <2> HIDE DEF buf
  <2>1. QED
    BY <1>1, TailFacts
<1>5. obs.step <= served
  <2>1. obs.step \in Nat
    BY DEF Obs
  <2>2. QED
    BY <2>1
<1>6. BufferReady(buf)
  <2> HIDE DEF buf
  <2>1. \A i \in DOMAIN buf : buf[i].obs = obs /\ buf[i].index = skip + i - 1
    BY <1>1
  <2>2. buf[1].obs = obs
    BY <1>4, <2>1
  <2>3. QED
    BY <1>1, <1>3, <1>5, <2>1, <2>2 DEF BufferReady
<1>7. QED
  BY <1>1, <1>6

(* _unpack_result in a caller whose observation, or whose prefetched       *)
(* future, belongs to this episode and is skip steps old.                  *)
LEMMA UnpackStep ==
    ASSUME IInv, phase \in {"adopt", "generate"},
           NEW obs \in Obs, NEW len \in ChunkLengths \cup {Failed}, NEW skip \in Nat,
           obs.episode = episode, obs.step + skip = served, LastPlan <= obs.step,
           InferenceHorizon # Unset => skip = 0 \/ skip <= ResolvedDelay(0),
           PoolReady(NoObs), Unpack(obs, len, skip),
           UNCHANGED <<draining, pool>>, conds' \in Obs
    PROVE  IInv'
<1>0. TypeOK /\ PhaseInv /\ DelayInv /\ buffer = <<>> /\ conds = Now /\ phase # "drain"
  BY DEF IInv, PhaseInv
<1>1. CASE Raise("engine", buffer, delay) \/ Raise("rejected", buffer, delay)
  BY <1>0, <1>1, RaiseStep
<1>2. CASE /\ len # Failed /\ ~Rejects(len)
           /\ Raise("stale", <<>>, ResolvedDelay(len))
  <2>1. len \in ChunkLengths
    BY <1>2
  <2>2. Horizon(len) \in Nat
    BY <2>1, ConfigAssumption DEF Horizon
  <2>3. Horizon(len) \div 2 \in Nat
    BY <2>2
  <2>4. ResolvedDelay(len) \in Nat
    BY <2>3, ConfigAssumption DEF ResolvedDelay
  <2>5. QED
    BY <1>0, <1>2, <2>1, <2>4, RaiseStep
<1>3. CASE /\ len # Failed /\ ~Rejects(len) /\ skip < SliceEnd(len, skip)
           /\ Finish(Chunk(obs, len, skip), NoObs, NoStep, ResolvedDelay(len), conds)
  <2>1. len \in ChunkLengths
    BY <1>3
  <2>2. BufferReady(Chunk(obs, len, skip)) /\ ResolvedDelay(len) \in Nat
    BY <1>3, ChunkReady
  <2>3. FutureReady(Chunk(obs, len, skip), NoObs, NoStep, ResolvedDelay(len))
    BY <2>1, <2>2 DEF FutureReady, Obs, NoObs, ResolvedDelay
  <2>4. QED
    BY <1>0, <1>3, <2>2, <2>3, FinishStep
<1>4. QED
  BY <1>1, <1>2, <1>3 DEF Unpack

-----------------------------------------------------------------------------
(* The two ways a result reaches _unpack_result. *)
LEMMA AdoptReady ==
    ASSUME IInv, phase = "adopt", NEW r \in results
    PROVE  /\ r.obs = pending /\ pending \in Obs /\ r.length \in ChunkLengths \cup {Failed}
           /\ results \ {r} = {} /\ queued = {} /\ running = NoObs
           /\ SkipSteps \in Nat /\ SkipSteps <= delay /\ delay \in Nat
           /\ pending.episode = episode /\ pending.step + SkipSteps = served
           /\ LastPlan <= pending.step
           /\ InferenceHorizon # Unset => SkipSteps <= ResolvedDelay(0)
<1>1. TypeOK /\ PhaseInv /\ PoolInv /\ PendingInv /\ DelayInv
  BY DEF IInv
<1>2. pending # NoObs /\ step = served /\ Len(buffer) = 0
  BY <1>1 DEF PhaseInv
<1>3. r.obs = pending /\ results = {r} /\ queued = {} /\ running = NoObs
  BY <1>1 DEF PoolInv, Held
<1>4. /\ pending = [episode |-> episode, step |-> startStep] /\ startStep < served
      /\ LastPlan <= startStep /\ delay # Unset /\ served - startStep + 0 <= delay
  BY <1>1, <1>2 DEF PendingInv
<1>5. pending \in Obs /\ served \in Nat /\ delay \in Nat
  BY <1>1, <1>4 DEF TypeOK
<1>6. startStep \in Nat
  BY <1>4, <1>5 DEF Obs
<1>7. SkipSteps = served - startStep
  BY <1>2, <1>4, <1>5, <1>6 DEF SkipSteps, NoStep
<1>8. r.length \in ChunkLengths \cup {Failed}
  BY <1>1 DEF TypeOK, Result
<1>9. InferenceHorizon # Unset => delay = ResolvedDelay(0)
  BY <1>1, <1>4, DelayFacts
<1>10. SkipSteps \in Nat /\ SkipSteps <= delay /\ pending.step + SkipSteps = served
  BY <1>4, <1>5, <1>6, <1>7
<1>11. QED
  BY <1>3, <1>4, <1>5, <1>8, <1>9, <1>10

LEMMA GenerateReady ==
    ASSUME IInv, phase = "generate"
    PROVE  /\ conds = Now /\ Now \in Obs /\ Now.episode = episode /\ Now.step = served
           /\ served \in Nat /\ LastPlan <= served
           /\ queued = {} /\ running = NoObs /\ results = {}
<1>1. TypeOK /\ PhaseInv /\ PoolInv /\ DelayInv
  BY DEF IInv
<1>2. conds = Now /\ pending = NoObs
  BY <1>1 DEF PhaseInv
<1>3. queued = {} /\ running = NoObs /\ results = {}
  BY <1>1, <1>2 DEF PoolInv, Held
<1>4. Now \in Obs /\ Now.episode = episode /\ Now.step = served /\ served \in Nat
  BY <1>1 DEF TypeOK, Now, Obs
<1>5. LastPlan <= served
  BY <1>1, <1>4 DEF DelayInv, LastPlan
<1>6. QED
  BY <1>2, <1>3, <1>4, <1>5

LEMMA BufferedReady ==
    ASSUME IInv, phase = "free", buffer # <<>>
    PROVE  BufferReady(buffer) /\ FutureReady(buffer, pending, startStep, delay)
<1>1. TypeOK /\ PhaseInv /\ BufferInv /\ PendingInv /\ DelayInv
  BY DEF IInv
<1>2. BufferReady(buffer)
  BY <1>1 DEF BufferReady, BufferInv, TypeOK
<1>3. delay \in Nat
  BY <1>1 DEF TypeOK, DelayInv
<1>4. FutureReady(buffer, pending, startStep, delay)
  BY <1>1, <1>3, ConfigAssumption
     DEF FutureReady, PendingInv, DelayInv, PhaseInv, TypeOK, ResolvedDelay, Horizon
<1>5. QED
  BY <1>2, <1>4

-----------------------------------------------------------------------------
LEMMA InitInv == Init => IInv
<1> SUFFICES ASSUME Init PROVE IInv
  OBVIOUS
<1>1. NoObs \in Obs /\ Nothing \in [episode : Nat, step : Nat, obs : Obs, index : Nat]
  BY DEF NoObs, Obs, Nothing
<1>2. TypeOK
  BY <1>1, ConfigAssumption DEF Init, TypeOK
<1>3. PhaseInv /\ PoolInv /\ BufferInv /\ PendingInv
  BY DEF Init, PhaseInv, PoolInv, BufferInv, PendingInv, Held
<1>4. DelayInv
  BY DEF Init, DelayInv, Nothing
<1>5. QED
  BY <1>2, <1>3, <1>4 DEF IInv

LEMMA StepInv == IInv /\ [Next]_vars => IInv'
<1> SUFFICES ASSUME IInv, [Next]_vars PROVE IInv'
  OBVIOUS
<1>t. TypeOK /\ PhaseInv /\ PoolInv /\ BufferInv /\ PendingInv /\ DelayInv
  BY DEF IInv
<1>o. NoObs \in Obs
  BY DEF NoObs, Obs
<1>1. CASE PredictBuffered
  <2>1. /\ phase = "free" /\ buffer # <<>>
        /\ Finish(buffer, pending, startStep, delay, Now)
        /\ UNCHANGED <<draining, pool>> /\ conds' = conds
        /\ running' = running /\ results' = results
    BY <1>1 DEF PredictBuffered
  <2>2. PoolReady(pending)
    BY <1>t, <2>1 DEF PoolReady, PoolInv, Held, TypeOK
  <2>3. conds' \in Obs
    BY <1>t, <2>1 DEF TypeOK
  <2>4. QED
    BY <2>1, <2>2, <2>3, BufferedReady, FinishStep
<1>2. CASE PredictEmpty
  <2>1. Now \in Obs
    BY <1>t DEF Now, Obs, TypeOK
  <2>2. TypeOK' /\ PhaseInv'
    BY <1>t, <1>2, <2>1
       DEF PredictEmpty, TypeOK, PhaseInv, lockVars, poolVars, ghostVars, Now
  <2>3. PoolInv' /\ BufferInv' /\ PendingInv' /\ DelayInv'
    BY <1>t, <1>2
       DEF PredictEmpty, PoolInv, BufferInv, PendingInv, DelayInv, Held, AgeBound,
           LastPlan, lockVars, poolVars, ghostVars
  <2>4. QED
    BY <2>2, <2>3 DEF IInv
<1>3. CASE GenerateReturn
  <2>1. PICK len \in Outcomes : Unpack(conds, len, 0)
    BY <1>3 DEF GenerateReturn
  <2>2. /\ phase = "generate" /\ UNCHANGED <<draining, pool>> /\ conds' = NoObs
        /\ running' = running /\ results' = results
    BY <1>3 DEF GenerateReturn
  <2>3. PoolReady(NoObs)
    BY <1>o, <2>2, GenerateReady DEF PoolReady
  <2>4. Now.step + 0 = served
    BY <2>2, GenerateReady
  <2>5. len \in ChunkLengths \cup {Failed}
    BY DEF Outcomes
  <2>6. QED
    BY <1>o, <2>1, <2>2, <2>3, <2>4, <2>5, GenerateReady, UnpackStep
<1>4. CASE AdoptReturn
  <2>1. PICK r \in results : /\ r.obs = pending
                             /\ Unpack(r.obs, r.length, SkipSteps)
                             /\ results' = results \ {r}
    BY <1>4 DEF AdoptReturn
  <2>2. /\ phase = "adopt" /\ UNCHANGED <<draining, pool>> /\ conds' = NoObs
        /\ running' = running
    BY <1>4 DEF AdoptReturn
  <2>3. PoolReady(NoObs)
    BY <1>o, <2>1, <2>2, AdoptReady DEF PoolReady
  <2>4. QED
    BY <1>o, <2>1, <2>2, <2>3, AdoptReady, UnpackStep
<1>5. ASSUME NEW a, NEW b, ResetWith(a, b),
             a \in {"resetting", pool}, b \in {"closing", pool} PROVE IInv'
  <2>1. TypeOK'
    BY <1>t, <1>o, <1>5 DEF ResetWith, ResetState, TypeOK, NoStep
  <2>2. PhaseInv'
    BY <1>t, <1>5 DEF ResetWith, ResetState, PhaseInv
  <2>3. PoolInv'
    BY <1>t, <1>5 DEF ResetWith, ResetState, PoolInv, PhaseInv, Held
  <2>4. BufferInv' /\ PendingInv'
    BY <1>5 DEF ResetWith, BufferInv, PendingInv
  <2>5. DelayInv'
    BY <1>t, <1>5 DEF ResetWith, DelayInv, TypeOK, ResolvedDelay, Horizon
  <2>6. QED
    BY <2>1, <2>2, <2>3, <2>4, <2>5 DEF IInv
<1>6. CASE DrainReturn
  <2>1. TypeOK' /\ PhaseInv'
    BY <1>t, <1>o, <1>6 DEF DrainReturn, ResetState, TypeOK, PhaseInv, ghostVars, NoStep
  <2>2. PoolInv'
    BY <1>t, <1>6 DEF DrainReturn, PoolInv, PhaseInv, Held
  <2>3. BufferInv' /\ PendingInv'
    BY <1>t, <1>6 DEF DrainReturn, PhaseInv, BufferInv, PendingInv
  <2>4. DelayInv'
    BY <1>t, <1>6 DEF DrainReturn, DelayInv, ghostVars, ResolvedDelay, Horizon
  <2>5. QED
    BY <2>1, <2>2, <2>3, <2>4 DEF IInv
<1>7. CASE PoolShutdown \/ PoolJoin
  <2>1. /\ pool' \in {"shut", "joined"}
        /\ UNCHANGED <<lockVars, phase, conds, draining, poolVars, ghostVars, error>>
    BY <1>7 DEF PoolShutdown, PoolJoin
  <2>2. TypeOK' /\ PhaseInv'
    BY <1>t, <2>1 DEF TypeOK, PhaseInv, Now, lockVars, poolVars, ghostVars
  <2>3. PoolInv' /\ BufferInv' /\ PendingInv' /\ DelayInv'
    BY <1>t, <2>1
       DEF PoolInv, BufferInv, PendingInv, DelayInv, Held, AgeBound, LastPlan,
           lockVars, poolVars, ghostVars
  <2>4. QED
    BY <2>2, <2>3 DEF IInv
<1>8. CASE WorkerStart \/ WorkerFinish
  <2>1. TypeOK'
    BY <1>t, <1>o, <1>8
       DEF WorkerStart, WorkerFinish, TypeOK, Result, Outcomes, lockVars, ghostVars
  <2>2. PhaseInv' /\ BufferInv' /\ PendingInv' /\ DelayInv'
    BY <1>t, <1>8
       DEF WorkerStart, WorkerFinish, PhaseInv, BufferInv, PendingInv, DelayInv,
           AgeBound, LastPlan, Now, lockVars, ghostVars
  <2>3. Held' = Held
    BY <1>8 DEF WorkerStart, WorkerFinish, Held, lockVars
  <2>4. CASE WorkerStart
    <3>1. PICK c \in queued : running' = c /\ queued' = queued \ {c}
      BY <2>4 DEF WorkerStart
    <3>2. queued = {c} /\ c = Held /\ c # NoObs /\ results = {} /\ results' = results
      BY <1>t, <2>4, <3>1 DEF PoolInv, WorkerStart
    <3>3. PoolInv'
      BY <2>3, <3>1, <3>2 DEF PoolInv
    <3>4. QED
      BY <2>1, <2>2, <3>3 DEF IInv
  <2>5. CASE WorkerFinish
    <3>1. PICK len \in Outcomes : results' = results \cup {[obs |-> running, length |-> len]}
      BY <2>5 DEF WorkerFinish
    <3>2. /\ results = {} /\ queued = {} /\ queued' = queued /\ running' = NoObs
          /\ running = Held /\ running # NoObs
      BY <1>t, <2>5 DEF PoolInv, WorkerFinish
    <3>3. PoolInv'
      BY <2>3, <3>1, <3>2 DEF PoolInv
    <3>4. QED
      BY <2>1, <2>2, <3>3 DEF IInv
  <2>6. QED
    BY <1>8, <2>4, <2>5
<1>9. CASE UNCHANGED vars
  BY <1>t, <1>9, SMTT(30)
     DEF vars, IInv, TypeOK, PhaseInv, PoolInv, BufferInv, PendingInv, DelayInv, Held,
         AgeBound, LastPlan, Now, lockVars, poolVars, ghostVars
<1>10. QED
  BY <1>1, <1>2, <1>3, <1>4, <1>5, <1>6, <1>7, <1>8, <1>9 DEF Next, Reset, Shutdown

(* The invariant holds in every reachable state, whatever the lengths of   *)
(* the engine's chunks, the configuration and the interleaving.            *)
THEOREM Invariance == Spec => []IInv
<1>1. QED
  BY InitInv, StepInv, PTL DEF Spec

(* Every variable keeps its type. *)
THEOREM TypeCorrect == Spec => []TypeOK
<1>1. IInv => TypeOK
  BY DEF IInv
<1>2. QED
  BY <1>1, Invariance, PTL

(* The caller and the pool's worker are never inside the engine together. *)
THEOREM Exclusion == Spec => []EngineExclusive
<1>1. IInv => EngineExclusive
  BY GenerateReady DEF EngineExclusive
<1>2. QED
  BY <1>1, Invariance, PTL

(* An abandoned future leaves no work and no result in the pool. *)
THEOREM Quiet == Spec => []PoolQuiet
<1>1. IInv => PoolQuiet
  BY DEF IInv, PoolInv, Held, PoolQuiet
<1>2. QED
  BY <1>1, Invariance, PTL

-----------------------------------------------------------------------------
(* The refinement of ActionStream.  Serving a ready buffer delivers the    *)
(* element of one chunk meant for this step; every other step stutters or  *)
(* starts an episode.                                                      *)
LEMMA FinishDelivers ==
    ASSUME IInv, NEW buf, NEW fut, NEW start, NEW d, BufferReady(buf),
           Finish(buf, fut, start, d, Now)
    PROVE  Stream!Deliver \/ UNCHANGED Stream!vars
<1>1. CASE Pop(buf)
  <2> DEFINE s == buf[1].obs.step
  <2>1. /\ delivered' = [episode |-> episode, step |-> served,
                         obs |-> buf[1].obs, index |-> buf[1].index]
        /\ served' = served + 1 /\ episode' = episode
        /\ buf[1].obs \in Obs /\ buf[1].index \in Nat /\ 1 \in DOMAIN buf
    BY <1>1, TailFacts DEF Pop, BufferReady, Action
  <2>2. served \in Nat /\ LastPlan \in Nat
    BY DEF IInv, TypeOK, LastPlan, Obs
  <2>3. /\ buf[1].obs.episode = episode /\ LastPlan <= s /\ s <= served
        /\ s + buf[1].index = served + 1 - 1 /\ buf[1].index < AgeBound
    BY <2>1 DEF BufferReady
  <2>4. s \in Nat /\ buf[1].obs = [episode |-> episode, step |-> s]
    BY <2>1, <2>3 DEF Obs
  <2> HIDE DEF s
  <2>5. s \in LastPlan .. served /\ buf[1].index = served - s
    BY <2>1, <2>2, <2>3, <2>4
  <2>6. QED
    BY <2>1, <2>3, <2>4, <2>5 DEF Stream!Deliver, Stream!LastPlan, LastPlan
<1>2. CASE UNCHANGED ghostVars
  BY <1>2 DEF ghostVars, Stream!vars
<1>3. QED
  BY <1>1, <1>2 DEF Finish

LEMMA UnpackDelivers ==
    ASSUME IInv, phase \in {"adopt", "generate"},
           NEW obs \in Obs, NEW len \in ChunkLengths \cup {Failed}, NEW skip \in Nat,
           obs.episode = episode, obs.step + skip = served, LastPlan <= obs.step,
           InferenceHorizon # Unset => skip = 0 \/ skip <= ResolvedDelay(0),
           Unpack(obs, len, skip)
    PROVE  Stream!Deliver \/ UNCHANGED Stream!vars
<1>1. CASE \E why, buf, d : Raise(why, buf, d)
  BY <1>1 DEF Raise, ghostVars, Stream!vars
<1>2. CASE /\ len # Failed /\ ~Rejects(len) /\ skip < SliceEnd(len, skip)
           /\ Finish(Chunk(obs, len, skip), NoObs, NoStep, ResolvedDelay(len), conds)
  <2>1. conds = Now
    BY DEF IInv, PhaseInv
  <2>2. BufferReady(Chunk(obs, len, skip))
    BY <1>2, ChunkReady
  <2>3. QED
    BY <1>2, <2>1, <2>2, FinishDelivers
<1>3. QED
  BY <1>1, <1>2 DEF Unpack

LEMMA StepDelivers == IInv /\ [Next]_vars => [Stream!Next]_Stream!vars
<1> SUFFICES ASSUME IInv, [Next]_vars
             PROVE  Stream!Deliver \/ Stream!NewEpisode \/ UNCHANGED Stream!vars
  BY DEF Stream!Next
<1>1. CASE PredictBuffered
  BY <1>1, BufferedReady, FinishDelivers DEF PredictBuffered
<1>2. CASE GenerateReturn
  <2>1. PICK len \in Outcomes : Unpack(conds, len, 0)
    BY <1>2 DEF GenerateReturn
  <2>2. phase = "generate" /\ len \in ChunkLengths \cup {Failed}
    BY <1>2 DEF GenerateReturn, Outcomes
  <2>3. Now.step + 0 = served
    BY <2>2, GenerateReady
  <2>4. QED
    BY <2>1, <2>2, <2>3, GenerateReady, UnpackDelivers
<1>3. CASE AdoptReturn
  BY <1>3, AdoptReady, UnpackDelivers DEF AdoptReturn
<1>4. CASE Reset \/ Shutdown
  BY <1>4 DEF Reset, Shutdown, ResetWith, Stream!NewEpisode
<1>5. CASE PredictEmpty \/ DrainReturn \/ PoolShutdown \/ PoolJoin \/ WorkerStart \/ WorkerFinish
  BY <1>5 DEF PredictEmpty, DrainReturn, PoolShutdown, PoolJoin, WorkerStart, WorkerFinish,
              ghostVars, Stream!vars
<1>6. CASE UNCHANGED vars
  BY <1>6 DEF vars, ghostVars, Stream!vars
<1>7. QED
  BY <1>1, <1>2, <1>3, <1>4, <1>5, <1>6 DEF Next

(* The asynchronous executor keeps the promise of ActionStream. *)
THEOREM Refinement == Spec => StreamSpec
<1>1. Init => Stream!Init
  BY DEF Init, Stream!Init, Nothing, Stream!Nothing, NoObs, Stream!NoObs
<1>2. QED
  BY <1>1, StepDelivers, Invariance, PTL DEF Spec, StreamSpec, Stream!Spec

-----------------------------------------------------------------------------
(* With one chunk length a prefetch is never found stale: at most `delay`  *)
(* steps elapse before it is adopted, and the delay is below the horizon.  *)
THEOREM Timely == (\E len : ChunkLengths = {len}) => (Spec => []NeverStale)
<1> SUFFICES ASSUME NEW L, ChunkLengths = {L} PROVE Spec => []NeverStale
  OBVIOUS
<1>1. Init => NeverStale
  BY DEF Init, NeverStale
<1>2. ASSUME IInv, phase \in {"adopt", "generate"}, NeverStale,
             NEW obs, NEW len \in ChunkLengths \cup {Failed}, NEW skip \in Nat,
             phase = "adopt" => skip <= delay /\ delay \in Nat, phase = "generate" => skip = 0,
             Unpack(obs, len, skip)
      PROVE  NeverStale'
  <2>1. CASE /\ len # Failed /\ ~Rejects(len) /\ skip >= SliceEnd(len, skip)
    <3>1. len = L /\ len \in Nat /\ len \in ChunkLengths
      BY <2>1, ConfigAssumption
    <3>2. Horizon(len) \in Nat
      BY <3>1, ConfigAssumption DEF Horizon
    <3>3. Horizon(len) \div 2 \in Nat
      BY <3>2
    <3>4. /\ ResolvedDelay(len) \in Nat /\ ResolvedDelay(len) < Horizon(len)
          /\ Horizon(len) <= len /\ len > 0
      BY <2>1, <3>1, <3>2, <3>3, ConfigAssumption DEF Rejects, ResolvedDelay
    <3>5. phase = "adopt" => delay = ResolvedDelay(len)
      BY <1>2, <3>1, ConfigAssumption DEF IInv, DelayInv, ResolvedDelay, Horizon
    <3>6. skip <= ResolvedDelay(len)
      BY <1>2, <3>4, <3>5
    <3>7. skip < SliceEnd(len, skip)
      BY <3>1, <3>2, <3>4, <3>6 DEF SliceEnd
    <3>8. SliceEnd(len, skip) \in Nat
      BY <3>1, <3>2 DEF SliceEnd
    <3>9. QED
      BY <2>1, <3>7, <3>8
  <2>2. CASE Raise("engine", buffer, delay) \/ Raise("rejected", buffer, delay)
    BY <2>2 DEF Raise, NeverStale
  <2>3. CASE \E buf, fut, start, d, c : Finish(buf, fut, start, d, c)
    BY <1>2, <2>3 DEF Finish, Pop, NeverStale
  <2>4. QED
    BY <1>2, <2>1, <2>2, <2>3 DEF Unpack
<1>3. IInv /\ NeverStale /\ [Next]_vars => NeverStale'
  <2> SUFFICES ASSUME IInv, NeverStale, [Next]_vars PROVE NeverStale'
    OBVIOUS
  <2>1. CASE PredictBuffered
    BY <2>1 DEF PredictBuffered, Finish, Pop, NeverStale
  <2>2. CASE GenerateReturn
    BY <1>2, <2>2 DEF GenerateReturn, Outcomes
  <2>3. CASE AdoptReturn
    BY <1>2, <2>3, AdoptReady DEF AdoptReturn
  <2>4. CASE Reset \/ Shutdown
    BY <2>4 DEF Reset, Shutdown, ResetWith, NeverStale
  <2>5. CASE PredictEmpty \/ DrainReturn \/ PoolShutdown \/ PoolJoin \/ WorkerStart \/ WorkerFinish
    BY <2>5 DEF PredictEmpty, DrainReturn, PoolShutdown, PoolJoin, WorkerStart, WorkerFinish,
                NeverStale
  <2>6. CASE UNCHANGED vars
    BY <2>6 DEF vars, NeverStale
  <2>7. QED
    BY <2>1, <2>2, <2>3, <2>4, <2>5, <2>6 DEF Next
<1>4. QED
  BY <1>1, <1>3, Invariance, PTL DEF Spec

-----------------------------------------------------------------------------
(* The buffer runs dry without a prefetch under way only before the first  *)
(* action of an episode or after a call that failed.                       *)
StallInv ==
    /\ buffer # <<>> => delay > 0
    /\ buffer = <<>> /\ pending = NoObs /\ phase # "drain" => served = 0 \/ error # "none"

LEMMA FinishPrefetches ==
    ASSUME IInv, NEW buf, NEW fut, NEW start, NEW d, d \in Nat, d > 0,
           BufferReady(buf), Finish(buf, fut, start, d, Now)
    PROVE  StallInv'
<1>1. delay' = d /\ phase' = "free" /\ d # Unset
  BY ConfigAssumption DEF Finish
<1>2. CASE Pop(buf) /\ ~WantsPrefetch(buf, fut, d) /\ pending' = fut
  <2>1. fut = NoObs => Tail(buf) # <<>>
    <3> SUFFICES ASSUME fut = NoObs, Tail(buf) = <<>> PROVE FALSE
      OBVIOUS
    <3>1. Len(Tail(buf)) = 0 /\ Len(buf) \in Nat /\ Len(Tail(buf)) = Len(buf) - 1
      BY TailFacts DEF BufferReady
    <3>2. Len(buf) <= d
      <4>1. Len(buf) = 1
        BY <3>1
      <4>2. QED
        BY <4>1
    <3>3. QED
      BY <1>1, <1>2, <3>2 DEF WantsPrefetch
  <2>2. QED
    BY <1>1, <1>2, <2>1 DEF StallInv, Pop
<1>3. CASE Pop(buf) /\ pending' = Now
  <2>1. Now # NoObs
    BY DEF IInv, TypeOK, Now, NoObs
  <2>2. QED
    BY <1>1, <1>3, <2>1 DEF StallInv
<1>4. CASE error' = "shutdown"
  BY <1>1, <1>4 DEF StallInv
<1>5. QED
  BY <1>2, <1>3, <1>4 DEF Finish

(* With a delay of at least one step, the caller generates by itself only  *)
(* for the first action of an episode or after a failed call.              *)
THEOREM Prefetching ==
    (\A len \in ChunkLengths : ~Rejects(len) => ResolvedDelay(len) > 0)
        => (Spec => []NoStall)
<1> SUFFICES ASSUME \A len \in ChunkLengths : ~Rejects(len) => ResolvedDelay(len) > 0
             PROVE  Spec => []NoStall
  OBVIOUS
<1>1. Init => StallInv
  BY DEF Init, StallInv
<1>2. ASSUME IInv, StallInv, phase \in {"adopt", "generate"},
             NEW obs \in Obs, NEW len \in ChunkLengths \cup {Failed}, NEW skip \in Nat,
             obs.episode = episode, obs.step + skip = served, LastPlan <= obs.step,
             InferenceHorizon # Unset => skip = 0 \/ skip <= ResolvedDelay(0),
             Unpack(obs, len, skip)
      PROVE  StallInv'
  <2>1. buffer = <<>> /\ conds = Now
    BY <1>2 DEF IInv, PhaseInv
  <2>2. CASE \E why, d : Raise(why, <<>>, d) /\ why \in {"engine", "rejected", "stale"}
    BY <2>2 DEF Raise, StallInv
  <2>3. CASE /\ len # Failed /\ ~Rejects(len) /\ skip < SliceEnd(len, skip)
             /\ Finish(Chunk(obs, len, skip), NoObs, NoStep, ResolvedDelay(len), conds)
    <3>1. BufferReady(Chunk(obs, len, skip)) /\ ResolvedDelay(len) \in Nat
      BY <1>2, <2>3, ChunkReady
    <3>2. ResolvedDelay(len) > 0
      BY <2>3
    <3>3. QED
      BY <1>2, <2>1, <2>3, <3>1, <3>2, FinishPrefetches
  <2>4. QED
    BY <1>2, <2>1, <2>2, <2>3 DEF Unpack
<1>3. IInv /\ StallInv /\ [Next]_vars => StallInv'
  <2> SUFFICES ASSUME IInv, StallInv, [Next]_vars PROVE StallInv'
    OBVIOUS
  <2>1. CASE PredictBuffered
    <3>1. BufferReady(buffer) /\ delay \in Nat /\ delay > 0
      BY <2>1, BufferedReady DEF PredictBuffered, FutureReady, StallInv
    <3>2. Finish(buffer, pending, startStep, delay, Now)
      BY <2>1 DEF PredictBuffered
    <3>3. QED
      BY <3>1, <3>2, FinishPrefetches
  <2>2. CASE GenerateReturn
    <3>1. PICK len \in Outcomes : Unpack(conds, len, 0)
      BY <2>2 DEF GenerateReturn
    <3>2. phase = "generate" /\ len \in ChunkLengths \cup {Failed}
      BY <2>2 DEF GenerateReturn, Outcomes
    <3>3. conds \in Obs /\ conds.episode = episode /\ conds.step + 0 = served
          /\ LastPlan <= conds.step
      BY <3>2, GenerateReady
    <3>4. QED
      BY <1>2, <3>1, <3>2, <3>3
  <2>3. CASE AdoptReturn
    BY <1>2, <2>3, AdoptReady DEF AdoptReturn
  <2>4. CASE Reset \/ Shutdown
    BY <2>4 DEF Reset, Shutdown, ResetWith, StallInv
  <2>5. CASE DrainReturn
    BY <2>5 DEF DrainReturn, IInv, PhaseInv, StallInv, ghostVars
  <2>6. CASE PredictEmpty \/ PoolShutdown \/ PoolJoin \/ WorkerStart \/ WorkerFinish
    BY <2>6 DEF PredictEmpty, PoolShutdown, PoolJoin, WorkerStart, WorkerFinish,
                StallInv, lockVars, ghostVars
  <2>7. CASE UNCHANGED vars
    BY <2>7 DEF vars, StallInv, lockVars, ghostVars
  <2>8. QED
    BY <2>1, <2>2, <2>3, <2>4, <2>5, <2>6, <2>7 DEF Next
<1>4. IInv /\ StallInv => NoStall
  BY DEF IInv, PhaseInv, StallInv, NoStall
<1>5. QED
  BY <1>1, <1>3, <1>4, Invariance, PTL DEF Spec
=============================================================================
