---------------------------- MODULE AttentionFlow ----------------------------
(***************************************************************************)
(* Who sees whom in the attention layers of OpenWAM's world-action models: *)
(* the joint loop of the single, dual and tri systems, and the four passes *)
(* of the inverse-dynamics model (IDM): its training forward over three    *)
(* branches, and in deployment the video denoising step (stage 1), the     *)
(* prefill of the video's keys and values, and the action loop over them   *)
(* (stage 2).                                                              *)
(*                                                                         *)
(* All tokens of one video frame, all action tokens, and so on see the     *)
(* same keys, so each group is one token.  A token's value is the term it  *)
(* was computed by (two passes agree if their terms do) and the inputs     *)
(* that reached it.  One step is one layer of the running pass.            *)
(*                                                                         *)
(* Two backbones have ways around the masks.  VACE adds hints to the video *)
(* between its layers, made by blocks of its own that know no mask; the    *)
(* attention of CosmosPredict25 to the text takes none, nor has its text   *)
(* one.                                                                    *)
(***************************************************************************)
EXTENDS Naturals, Sequences

CONSTANTS
    Frames,    \* the latent video frames, 0 .. n with frame 0 the conditioning frame
    Layers     \* the depth of the backbones

FlowAssumption == Layers \in Nat \ {0} /\ Frames \in Nat \ {0}

VARIABLES
    setup,     \* the configured masks, the padding, and the kind of backbone:
               \*   fused     the conditioning frame is put into the latents
               \*   hints     VACE
               \*   unmasked  CosmosPredict25
    pass,      \* the running pass
    layer,     \* the layer it runs next
    hidden,    \* the value of every token of the pass
    cache,     \* kv_cache: the keys and values of the video, per layer
    compiled,  \* the action loop runs the compiled path
    results    \* the final values of the passes that have ended

vars == <<setup, pass, layer, hidden, cache, compiled, results>>

VideoModes == {"bidirectional", "per_frame_causal", "first_frame_causal"}
CrossModes == {"mutual", "action_sees_video", "video_sees_action", "isolated"}

\* Key-only text keys and read-only tails come in two tokens; the second may be padding.
Paddings == {"none", "full", "padded"}

FrameIds == 0 .. Frames - 1
Noisy    == {<<"noisy", f>> : f \in FrameIds}
Cond     == {<<"cond", f>> : f \in FrameIds}
Action   == <<"action", 0>>
Text     == IF setup.text = "none" THEN {} ELSE {<<"text", 1>>, <<"text", 2>>}
ReadOnly == IF setup.tail = "none" THEN {} ELSE {<<"tail", 1>>, <<"tail", 2>>}
Padded   == (IF setup.text = "padded" THEN {<<"text", 2>>} ELSE {})
              \cup (IF setup.tail = "padded" THEN {<<"tail", 2>>} ELSE {})

-----------------------------------------------------------------------------
(* The masks.                                                              *)

\* build_video_to_video_mask: the frames that frame f attends to.
VideoToVideo(f) ==
    CASE setup.video = "bidirectional"      -> FrameIds
      [] setup.video = "per_frame_causal"   -> 0 .. f
      [] setup.video = "first_frame_causal" -> IF f = 0 THEN {0} ELSE FrameIds

Branch(name, frames) == {<<name, f>> : f \in frames}

\* fill_cross_modal_va_blocks: action to video, and video to action.
ActionToVideo ==
    Branch("noisy", IF setup.cross \in {"action_sees_video", "mutual"} THEN FrameIds ELSE {0})
\* Fault: the first frame sees the action as well.
VideoToActionOnEveryRow(f) ==
    IF setup.cross \in {"mutual", "video_sees_action"} THEN {Action} ELSE {}
VideoToAction(f) ==
    IF setup.cross \in {"mutual", "video_sees_action"} /\ f # 0 THEN {Action} ELSE {}

\* widen_mask_for_prefix_kv and context_mask: every row sees the text keys that are not
\* padding, or all of them: Reason1LiveTextEncoder pads and calls every token real.
Prefix == IF setup.unmasked THEN Text ELSE Text \ Padded

\* build_cross_modal_attention_mask with its read-only tail, and _apply_und_padding_mask.
JointMask(q) ==
    CASE q[1] = "noisy"  -> Branch("noisy", VideoToVideo(q[2])) \cup VideoToAction(q[2]) \cup (ReadOnly \ Padded)
      [] q[1] = "action" -> ActionToVideo \cup {Action} \cup (ReadOnly \ Padded)
      [] q[1] = "tail"   -> IF q \in Padded THEN {q} ELSE ReadOnly \ Padded

\* _build_teacher_forcing_mask.
TeacherForcingMask(q) ==
    CASE q[1] = "noisy"  -> Branch("noisy", VideoToVideo(q[2]))
      [] q[1] = "cond"   -> Branch("cond", VideoToVideo(q[2]))
      [] q[1] = "action" -> Cond \cup {Action}

\* _run_video_only_backbone passes no mask to the blocks; the text is read as usual.
NoMask(q) == Noisy \cup Prefix

\* _build_video_only_attention_mask.
PrefillMask(q) == Branch("cond", VideoToVideo(q[2])) \cup Prefix

\* build_cached_action_mask: all cached frames and the action itself, the text through its gate.
CachedActionMask(q) == Cond \cup {Action} \cup Prefix

Mask(q) ==
    CASE pass = "joint"    -> JointMask(q) \cup Prefix
      [] pass = "training" -> TeacherForcingMask(q) \cup Prefix
      [] pass = "stage1"   -> NoMask(q)
      [] pass = "prefill"  -> PrefillMask(q)
      [] pass = "stage2"   -> CachedActionMask(q)

-----------------------------------------------------------------------------
(* The inputs of a pass.                                                   *)

\* build_time_modulation: fused backbones pin the conditioning frame to time 0; the
\* others have no first-frame latents, so their clean prefix is never zeroed.
TimeOf(f, t) == IF setup.fused /\ f = 0 THEN "zero" ELSE t

\* The first frame of a fused backbone is restored from its clean latents.
LatentsOf(f, l) == IF setup.fused /\ f = 0 THEN "clean" ELSE l

Video(f, l, t) == [stream |-> "video", frame |-> f, latents |-> LatentsOf(f, l), time |-> TimeOf(f, t)]

Input(p, q) ==
    [is |-> CASE q[1] = "noisy" -> Video(q[2], "noisy", "t")
              [] q[1] = "cond"  -> IF p = "training" /\ setup.noised THEN Video(q[2], "noised", "tc")
                                                                       ELSE Video(q[2], "clean", "zero")
              [] OTHER          -> [stream |-> q[1], index |-> q[2]],
     from |-> {q}]

\* The tokens that are queries: what prepare, prepare_state and merge_idm_video_branches put together.
Queries(p) ==
    CASE p = "joint"    -> Noisy \cup {Action} \cup ReadOnly
      [] p = "training" -> Noisy \cup Cond \cup {Action}
      [] p = "stage1"   -> Noisy
      [] p = "prefill"  -> Cond
      [] p = "stage2"   -> {Action}

-----------------------------------------------------------------------------
(* One layer.                                                              *)

\* The keys and values of a token as layer i sees them: a text key has its own per layer,
\* and in stage 2 the video's come from the cache.
KeyValue(k, i) ==
    CASE k[1] = "text"                       -> [is |-> [stream |-> "text", index |-> k[2], layer |-> i],
                                                 from |-> {k}]
      [] pass = "stage2" /\ k[1] = "cond"    -> cache[i + 1][k]
      [] OTHER                               -> hidden[k]

\* Both branches of the video carry the positions of their frames.
Position(k) == IF k[1] \in {"noisy", "cond"} THEN <<"video", k[2]>> ELSE k

\* The hint that VACE adds to a video token behind every second layer.  prepare makes them
\* once, from all tokens of the branch as they enter it and from all of the text.
Hint(p, q, i) ==
    IF setup.hints /\ q \in Noisy \cup Cond /\ i % 2 = 0
    THEN [is   |-> {<<Position(k), Input(p, k).is>> : k \in Branch(q[1], FrameIds)},
          from |-> Branch(q[1], FrameIds) \cup Text]
    ELSE [is |-> {}, from |-> {}]

\* pre_attn_at_layer, _mixed_attention and post_attn_at_layer for one query.
Mix(q, i) ==
    [is   |-> [own |-> hidden[q].is, sees |-> {<<Position(k), KeyValue(k, i).is>> : k \in Mask(q)},
               hint |-> Hint(pass, q, i).is],
     from |-> hidden[q].from \cup Hint(pass, q, i).from \cup UNION {KeyValue(k, i).from : k \in Mask(q)}]

\* What follows a pass: the caller's next one.
Following ==
    [joint |-> "end", training |-> "stage1", stage1 |-> "prefill", prefill |-> "stage2", stage2 |-> "end"]

Configured ==
    [system : {"joint"}, video : VideoModes, cross : CrossModes, text : Paddings, tail : Paddings,
     fused : BOOLEAN, hints : BOOLEAN, unmasked : BOOLEAN, noised : {FALSE}]
    \cup
    [system : {"idm"}, video : VideoModes, cross : {"action_sees_video"}, text : Paddings, tail : {"none"},
     fused : BOOLEAN, hints : BOOLEAN, unmasked : BOOLEAN, noised : BOOLEAN]

\* VACE has its condition in the hints and masks its own attention to the text.
Setups == {c \in Configured : c.hints => ~c.fused /\ ~c.unmasked}

Init ==
    /\ setup \in Setups
    /\ pass = IF setup.system = "idm" THEN "training" ELSE "joint"
    /\ layer = 0
    /\ hidden = [q \in Queries(pass) |-> Input(pass, q)]
    /\ cache = << >>
    /\ compiled = FALSE
    /\ results = << >>

\* One layer of the running pass; the prefill keeps what the layer's keys were made of.
RunLayer ==
    /\ pass # "end" /\ layer < Layers
    /\ hidden' = [q \in DOMAIN hidden |-> Mix(q, layer)]
    /\ cache' = IF pass = "prefill" THEN Append(cache, hidden) ELSE cache
    /\ layer' = layer + 1
    /\ UNCHANGED <<setup, pass, compiled, results>>

\* The last layer is done: the values go to the heads, and the next pass is prepared.
Finalize ==
    /\ pass # "end" /\ layer = Layers
    /\ results' = [p \in DOMAIN results \cup {pass} |-> IF p = pass THEN hidden ELSE results[p]]
    /\ pass' = Following[pass]
    /\ layer' = 0
    /\ hidden' = IF pass' = "end" THEN << >> ELSE [q \in Queries(pass') |-> Input(pass', q)]
    /\ compiled' \in (IF pass' = "stage2" THEN BOOLEAN ELSE {FALSE})
    /\ UNCHANGED <<setup, cache>>

\* Fault: the eager loop goes on from what the compiled one has made of the action.
CompiledFailsMidway ==
    /\ pass = "stage2" /\ compiled
    /\ compiled' = FALSE
    /\ layer' = 0
    /\ UNCHANGED <<setup, pass, hidden, cache, results>>

\* The compiled action loop raises at some layer; the eager loop prepares the state again.
CompiledFails ==
    /\ pass = "stage2" /\ compiled
    /\ compiled' = FALSE
    /\ layer' = 0
    /\ hidden' = [q \in Queries(pass) |-> Input(pass, q)]
    /\ UNCHANGED <<setup, pass, cache, results>>

Next == RunLayer \/ Finalize \/ CompiledFails

Spec == Init /\ [][Next]_vars

-----------------------------------------------------------------------------
(* Properties.                                                             *)

Ended == DOMAIN results

Reaching(p, q) == results[p][q].from

\* The contract of tests/test_train_deploy_consistency.py: for a clean condition video, the
\* action predicted in stage 2 from cached keys and values, compiled or after a fall-back,
\* is the one training computes beside the noisy branch.  And stage 1 computes for the video
\* what training computes for the noisy branch when the video is bidirectional.
TrainDeployAligned ==
    /\ {"training", "stage2"} \subseteq Ended /\ ~setup.noised =>
          results["stage2"][Action].is = results["training"][Action].is
    /\ {"training", "stage1"} \subseteq Ended /\ setup.video = "bidirectional" =>
          \A q \in Noisy : results["stage1"][q].is = results["training"][q].is

\* Through all layers nothing travels where the configuration closes the way: neither the
\* noisy video nor the action into the IDM's condition, nor the noisy video into its
\* action; not the action into a video that does not see it, nor ever into the conditioning
\* frame unless the video is bidirectional.  But for VACE's hints, which see all frames,
\* neither does a later frame into an action that sees the first frame only, or into an
\* earlier frame of a causal video.
ClosedWays ==
    /\ "training" \in Ended =>
          /\ \A q \in Cond : Reaching("training", q) \cap (Noisy \cup {Action}) = {}
          /\ \A q \in Noisy : Reaching("training", q) \cap (Cond \cup {Action}) = {}
          /\ Reaching("training", Action) \cap Noisy = {}
    /\ "joint" \in Ended =>
          /\ setup.cross \in {"action_sees_video", "isolated"} =>
                \A q \in Noisy : Action \notin Reaching("joint", q)
          /\ setup.video # "bidirectional" => Action \notin Reaching("joint", <<"noisy", 0>>)
    /\ "joint" \in Ended /\ ~setup.hints =>
          /\ setup.cross \in {"video_sees_action", "isolated"} /\ setup.video # "bidirectional" =>
                Reaching("joint", Action) \cap Noisy = {<<"noisy", 0>>}
          /\ setup.cross # "mutual" /\ setup.video = "per_frame_causal" =>
                \A q \in Noisy : \A k \in Reaching("joint", q) \cap Noisy : k[2] <= q[2]
          /\ setup.video # "bidirectional" =>
                Reaching("joint", <<"noisy", 0>>) \cap Noisy = {<<"noisy", 0>>}

\* The padding that some mask keeps out: understanding tokens always, and text unless VACE
\* or CosmosPredict25 reads it.
Inert == {k \in Padded : k[1] = "text" => ~setup.hints /\ ~setup.unmasked}

\* It reaches no other token, in any pass.
PaddingInert ==
    \A p \in Ended : \A q \in DOMAIN results[p] : Reaching(p, q) \cap Inert \subseteq {q}

\* configs/model/dual_system.yaml:30 configures the visibility between video frames; with
\* first_frame_causal nothing but itself reaches the conditioning frame in any pass, hints
\* apart.
VisibilityHonored ==
    setup.video = "first_frame_causal" /\ ~setup.hints =>
        \A p \in Ended : \A q \in DOMAIN results[p] :
            q[1] \in {"noisy", "cond"} /\ q[2] = 0 => Reaching(p, q) \cap (Noisy \cup Cond) = {q}
=============================================================================
