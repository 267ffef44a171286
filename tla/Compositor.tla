----------------------------- MODULE Compositor -----------------------------
(***************************************************************************)
(* One overlay under OverlayManagerHandle: the application's threads       *)
(* submit groups, text and effects; the host's render thread latches,      *)
(* draws the scene into its frame (render_primitives), and composites the  *)
(* overlay (composite_overlays or render_ui).  Every call runs under the   *)
(* manager's try_lock; one that finds it busy does nothing, which is a     *)
(* stuttering step.  Another overlay of the same manager, and the host's   *)
(* own drawing, are HostDraws: they change the bindings of the context.    *)
(***************************************************************************)
EXTENDS SceneDraw, OverlayEffects, Functions

CONSTANTS
  Budgets        \* bounds on the application's calls: records of BudgetType

\* calls about the scene, and about effects, time and visibility
BudgetType == [scene : Nat, effect : Nat]

ASSUME CompositorAssumption == Budgets \subseteq BudgetType

VARIABLES
  visible,       \* FlutterOverlay::visible
  first_frame,   \* has_first_frame
  budget         \* calls, and ticks of the clock, left

vars == <<sceneVars, effectsVars, timeVars, composited_at, quad, visible, first_frame, budget>>

Init == SceneInit /\ EffectsInit /\ visible = TRUE /\ first_frame = FALSE /\ budget \in Budgets

Call(kind) == budget[kind] > 0 /\ budget' = [budget EXCEPT ![kind] = @ - 1]
NoDraw == UNCHANGED <<composited_at, visible, first_frame>> /\ quad' = NoQuad
SceneCall == Call("scene") /\ NoDraw /\ UNCHANGED <<effectsVars, timeVars>>
EffectCall ==
  /\ Call("effect") /\ NoDraw /\ UNCHANGED <<timeVars, bufferVars, effectVars, textVars, ctx>>
  /\ drawn' = <<>>
Quiet == UNCHANGED <<bufferVars, effectVars, textVars>>

-----------------------------------------------------------------------------
(* The application's calls.                                                *)

SetPrimitives ==
  /\ SceneCall
  /\ \E g \in Groups, o \in Options, n \in Sizes, l \in PlainLists :
       set_primitives(g, n, l, o)

SetCustomPrimitives ==
  /\ SceneCall
  /\ \E g \in Groups, o \in Options, e \in Effects, n, m \in Sizes :
       set_custom_primitives(g, n, m, e, o)

ClearPrimitives == SceneCall /\ \E g \in Groups : clear_primitives(g)
ClearAllPrimitives == SceneCall /\ clear_all_primitives

RegisterCustomPixelShader ==
  SceneCall /\ \E e \in Effects : register_custom_pixel_shader(e)

SetCustomEffectTextureAtSlot ==
  /\ SceneCall
  /\ \E e \in Effects, s \in Slots, t \in Textures :
       set_custom_effect_texture_at_slot(e, s, t)

ClearCustomEffectTextureAtSlot ==
  SceneCall /\ \E e \in Effects, s \in Slots : clear_custom_effect_texture_at_slot(e, s)

SetCustomEffectTexturesBulk ==
  /\ SceneCall
  /\ \E e \in Effects, some \in SUBSET Slots, t \in Textures :
       set_custom_effect_textures_bulk(e, [s \in some |-> t])

RegisterFontAtlas == SceneCall /\ \E f \in Fonts : register_font_atlas(f)
UnregisterFontAtlas == SceneCall /\ \E f \in Fonts : unregister_font_atlas(f)

SetText ==
  /\ SceneCall
  /\ \E f \in Fonts, g \in Groups, n \in Sizes, o \in Options : set_text(f, g, n, o)

ClearText == SceneCall /\ \E f \in Fonts, g \in Groups : clear_text(f, g)
ClearFontText == SceneCall /\ \E f \in Fonts : clear_font_text(f)
ClearAllText == SceneCall /\ clear_all_text

SetFullscreenEffect == EffectCall /\ \E e \in AppEffects : set_fullscreen_effect(e)
SetWidgetEffect == EffectCall /\ \E e \in AppEffects : set_widget_effect(e)
UpdateEffectConfig ==
  /\ EffectCall
  /\ \E config \in [params : AppEffects, target : Targets] : update_effect_config(config)
ClearEffect == EffectCall /\ clear_effect
TriggerGlitchEffect ==
  EffectCall /\ \E frames \in GlitchFrames : trigger_glitch_effect(frames)

PauseOrResume ==
  /\ Call("effect") /\ NoDraw /\ Quiet /\ UNCHANGED <<ctx, effectsVars>> /\ drawn' = <<>>
  /\ pause_animations \/ resume_animations

set_visibility ==
  /\ Call("effect") /\ Quiet
  /\ visible' = ~visible
  /\ quad' = NoQuad /\ drawn' = <<>>
  /\ UNCHANGED <<ctx, effectsVars, timeVars, composited_at, first_frame>>

-----------------------------------------------------------------------------
(* The host's render thread.                                               *)

latch_all_queued_primitives ==
  /\ latch_buffers
  /\ NoDraw /\ UNCHANGED <<effectsVars, timeVars, budget>>

latch_all_queued_text ==
  /\ latch_text_buffers
  /\ NoDraw /\ UNCHANGED <<effectsVars, timeVars, budget>>

\* drawn whether or not the overlay is visible
render_primitives ==
  /\ \E hasView \in BOOLEAN : \E d \in SceneDraws(hasView) :
       drawn' = d.calls /\ ctx' = d.left
  /\ Quiet /\ NoDraw /\ UNCHANGED <<effectsVars, timeVars, budget>>

\* the quad restores the blend state only, and leaves its shaders and texture
AfterQuad(c) ==
  [raster |-> c.raster, blend |-> c.blend, depth |-> c.depth, dsv |-> c.dsv,
   topology |-> "strip", vs |-> "quad", ps |-> "quad",
   tex |-> [s \in Slots |-> IF s = 0 THEN "overlay" ELSE c.tex[s]]]

composite_overlays ==
  /\ visible
  /\ \E d \in SceneDraws(FALSE) : drawn' = d.calls /\ ctx' = AfterQuad(d.left)
  /\ quad' = QuadOf(effect_config, composite_time)
  /\ composited_at' = composite_time
  /\ Quiet
  /\ UNCHANGED <<effectsVars, timeVars, visible, first_frame, budget>>

render_ui ==
  /\ visible /\ first_frame
  /\ CountDown
  /\ quad' = QuadOf(effect_config', Elapsed)
  /\ ctx' = AfterQuad(ctx)
  /\ drawn' = <<>>
  /\ Quiet
  /\ UNCHANGED <<timeVars, composited_at, visible, first_frame, budget>>

FirstFrame ==
  /\ ~first_frame
  /\ first_frame' = TRUE
  /\ quad' = NoQuad /\ drawn' = <<>>
  /\ Quiet
  /\ UNCHANGED <<ctx, effectsVars, timeVars, composited_at, visible, budget>>

\* between the calls the host, or another overlay, binds what it draws with
HostDraws ==
  /\ ctx' = HostBindings
  /\ drawn' = <<>>
  /\ Quiet /\ NoDraw /\ UNCHANGED <<effectsVars, timeVars, budget>>

TimePasses ==
  /\ Call("effect") /\ ClockTicks
  /\ drawn' = <<>>
  /\ Quiet /\ NoDraw /\ UNCHANGED <<ctx, effectsVars>>

ScenePart ==
  \/ SetPrimitives \/ SetCustomPrimitives \/ ClearPrimitives \/ ClearAllPrimitives
  \/ RegisterCustomPixelShader \/ SetCustomEffectTextureAtSlot
  \/ ClearCustomEffectTextureAtSlot \/ SetCustomEffectTexturesBulk
  \/ RegisterFontAtlas \/ UnregisterFontAtlas
  \/ SetText \/ ClearText \/ ClearFontText \/ ClearAllText

EffectPart ==
  \/ SetFullscreenEffect \/ SetWidgetEffect \/ UpdateEffectConfig \/ ClearEffect
  \/ TriggerGlitchEffect \/ PauseOrResume \/ set_visibility \/ TimePasses

RenderPart ==
  \/ latch_all_queued_primitives \/ latch_all_queued_text
  \/ render_primitives \/ composite_overlays \/ render_ui
  \/ FirstFrame \/ HostDraws

Next == ScenePart \/ EffectPart \/ RenderPart

Spec == Init /\ [][Next]_vars

\* the host renders every frame; the engine's first frame arrives
FairSpec == Spec /\ WF_vars(render_ui /\ visible) /\ WF_vars(FirstFrame)

-----------------------------------------------------------------------------
(* Properties.                                                             *)

Vertices(taken) == FoldFunction(+, 0, taken)

\* A latched buffer never holds more vertices than the vertex buffer the draw
\* maps and copies it into (primitive_3d_renderer.rs, text_3d_renderer.rs).
WithinBuffer ==
  /\ \A l \in Lists : \A k \in DOMAIN latched[l] : Vertices(latched[l][k]) <= Capacity
  /\ \A f \in Fonts : text_latched[f] # None =>
       \A k \in DOMAIN text_latched[f] : Vertices(text_latched[f][k]) <= Capacity

\* a step that writes the buffers writes all that was submitted
TakesSnapshot ==
  latched' # latched => \A l \in Lists, g \in Groups :
    submitted[l][g] # None =>
      LET k == KeyOf(submitted[l][g])
      IN Vertices(latched'[l][k]) =
           AtMost(Vertices([h \in Groups |-> SizeUnder(submitted[l], k, h)]), Capacity)

\* A latch is a complete snapshot: every buffer it writes holds all that was
\* submitted under its key, up to the capacity; nothing else writes a buffer,
\* so all draws between two latches show the same groups
\* (latch_all_queued_primitives).
LatchIsSnapshot == [][TakesSnapshot]_vars

OwnDepth(o, view, list) ==
  IF o.ignore_depth_stencil \/ ~view THEN "disabled"
  ELSE IF o.write_to_depth /\ list # "text" THEN "write" ELSE "read"

SortedTogether(a, b) == a.list = b.list /\ (a.list = "text" => a.font = b.font)

\* a call has the depth, blend, shaders and textures of its own batch
BoundAsAsked(call) ==
  LET o == call.key.options
      e == call.key.effect
  IN /\ call.bound.depth = OwnDepth(o, call.view, call.list)
     /\ call.bound.blend =
          IF o.opaque \/ (call.list \in CustomLists /\ e \in OpaqueEffects)
          THEN "opaque" ELSE "transparent"
     /\ call.bound.topology =
          IF call.list \in {"lines", "lines_custom"} THEN "lines" ELSE "triangles"
     /\ call.bound.ps = IF call.list = "text" THEN "text" ELSE e
     /\ call.list \in PlainLists => call.bound.vs = "builtin"
     /\ call.list = "triangles_custom" =>
          call.bound.vs = IF e \in WithVertexShader THEN e ELSE "builtin"
     /\ call.list \in CustomLists => \A s \in Slots :
          textures[e][s] # None => call.bound.tex[s] = textures[e][s]
     /\ call.list = "text" /\ 0 \in Slots => call.bound.tex[0] = call.font

\* Whatever order the hash maps yield and whatever the host or another batch
\* left bound, each draw call runs with the depth, blend, pixel shader and
\* textures of its own group options and effect, a batch of triangles with
\* its own vertex shader and text with the atlas of its font; no two calls draw
\* one buffer, and the calls of a list, or of a font, go by priority
\* (Primitive3DRenderer::draw, Text3DRenderer::draw).
DrawnAsAsked ==
  \A i \in 1 .. Len(drawn) :
    /\ BoundAsAsked(drawn[i])
    /\ \A j \in 1 .. i - 1 : SortedTogether(drawn[j], drawn[i]) =>
         /\ drawn[j].key # drawn[i].key
         /\ drawn[j].key.options.render_priority <= drawn[i].key.options.render_priority

\* Whatever was drawn, the host finds the blend, depth and rasterizer states
\* and the render targets it left (the epilogues of both draws).
HostStateKept ==
  ctx.blend = "host" /\ ctx.depth = "host" /\ ctx.raster = "host" /\ ctx.dsv = "host"

\* The time composite_overlays gives the shaders never runs back, through any
\* sequence of pauses and resumes.
CompositeTimeSteady == [][composited_at' >= composited_at]_vars

\* A triggered glitch ends: while the overlay stays visible the frames run out
\* and the overlay is drawn without an effect, whatever was set meanwhile.
GlitchEnds ==
  effect_frames_remaining > 0 ~>
    (effect_frames_remaining = 0 /\ effect_config = DefaultEffect) \/ ~visible
=============================================================================
