-------------------------- MODULE CompositorProofs --------------------------
(***************************************************************************)
(* What the compositor promises its host and its shaders, for any groups,  *)
(* effects, fonts, options, buffers and bounds.                            *)
(* The host finds its own output states after every call, and the time of  *)
(* composite_overlays never runs back.                                     *)
(* A latch is complete and no buffer overflows: a fold over the groups is  *)
(* a sum that may be taken in any order (FoldSumsUp), so in the order of   *)
(* any hash map the fill of a buffer is the sum of what was submitted, cut *)
(* off at the capacity (LatchTakesAll).                                    *)
(* Each draw call has its own batch's bindings: one Bind sets all it needs *)
(* whatever it finds (BindRight, TextBindsRight), and the bindings of a    *)
(* draw follow their definition call by call (BindingsUnfold).             *)
(* Induction here is of a set of naturals (SetInduction), and a function   *)
(* defined by recursion has its equation because such a function exists.   *)
(***************************************************************************)
EXTENDS Compositor, FiniteSetTheorems, FunctionTheorems, SequenceTheorems,
        WellFoundedInduction, TLAPS

\* Primitive3DRenderer::draw leaves the four states its epilogue puts back
LEMMA PrimitivesKeepStates ==
  ASSUME NEW c, NEW hasView, NEW d \in PrimitiveDraws(c, hasView)
  PROVE  /\ d.left.blend = c.blend /\ d.left.depth = c.depth
         /\ d.left.raster = c.raster /\ d.left.dsv = c.dsv
<1>1. CASE \A l \in Lists : DOMAIN latched[l] = {}
  <2>1. d = [calls |-> <<>>, left |-> c]
    BY <1>1 DEF PrimitiveDraws
  <2> QED BY <2>1
<1>2. CASE ~(\A l \in Lists : DOMAIN latched[l] = {})
  <2>1. \E cc, x : d = [calls |-> cc, left |-> Restored(x, c)]
    BY <1>2 DEF PrimitiveDraws
  <2>2. PICK cc, x : d = [calls |-> cc, left |-> Restored(x, c)]
    BY <2>1
  <2> QED BY <2>2 DEF Restored
<1> QED BY <1>1, <1>2

\* and so does Text3DRenderer::draw
LEMMA TextKeepsStates ==
  ASSUME NEW c, NEW hasView, NEW d \in TextDraws(c, hasView)
  PROVE  /\ d.left.blend = c.blend /\ d.left.depth = c.depth
         /\ d.left.raster = c.raster /\ d.left.dsv = c.dsv
<1>1. CASE \A f \in Fonts : text_latched[f] = None
  <2>1. d = [calls |-> <<>>, left |-> c]
    BY <1>1 DEF TextDraws
  <2> QED BY <2>1
<1>2. CASE ~(\A f \in Fonts : text_latched[f] = None)
  <2>1. \E cc, x : d = [calls |-> cc, left |-> Restored(x, c)]
    BY <1>2 DEF TextDraws
  <2>2. PICK cc, x : d = [calls |-> cc, left |-> Restored(x, c)]
    BY <2>1
  <2> QED BY <2>2 DEF Restored
<1> QED BY <1>1, <1>2

LEMMA SceneKeepsStates ==
  ASSUME NEW hasView, NEW d \in SceneDraws(hasView)
  PROVE  /\ d.left.blend = ctx.blend /\ d.left.depth = ctx.depth
         /\ d.left.raster = ctx.raster /\ d.left.dsv = ctx.dsv
<1>1. PICK p \in PrimitiveDraws(ctx, hasView) : \E t \in TextDraws(p.left, hasView) :
        d = [calls |-> p.calls \o t.calls, left |-> t.left]
  BY DEF SceneDraws
<1>1a. PICK t \in TextDraws(p.left, hasView) :
        d = [calls |-> p.calls \o t.calls, left |-> t.left]
  BY <1>1
<1>2. d.left = t.left
  BY <1>1a
<1> QED BY <1>2, PrimitivesKeepStates, TextKeepsStates

\* Every call leaves the host's blend, depth and rasterizer states and its
\* render targets as they were.
THEOREM HostKeepsStates == Spec => []HostStateKept
<1>1. Init => HostStateKept
  BY DEF Init, SceneInit, HostStateKept, HostBindings
<1>2. HostStateKept /\ [Next]_vars => HostStateKept'
  <2> SUFFICES ASSUME HostStateKept, [Next]_vars PROVE HostStateKept'
    OBVIOUS
  <2>1. CASE ScenePart
    <3>1. ctx' = ctx
      BY <2>1 DEF ScenePart, SetPrimitives, SetCustomPrimitives, ClearPrimitives,
        ClearAllPrimitives, RegisterCustomPixelShader, SetCustomEffectTextureAtSlot,
        ClearCustomEffectTextureAtSlot, SetCustomEffectTexturesBulk, RegisterFontAtlas,
        UnregisterFontAtlas, SetText, ClearText, ClearFontText, ClearAllText,
        set_primitives, set_custom_primitives, clear_primitives, clear_all_primitives,
        register_custom_pixel_shader, set_custom_effect_texture_at_slot,
        clear_custom_effect_texture_at_slot, set_custom_effect_textures_bulk,
        register_font_atlas, unregister_font_atlas, set_text, clear_text,
        clear_font_text, clear_all_text
    <3> QED BY <3>1 DEF HostStateKept
  <2>2. CASE EffectPart
    <3>1. ctx' = ctx
      BY <2>2 DEF EffectPart, SetFullscreenEffect, SetWidgetEffect, UpdateEffectConfig,
        ClearEffect, TriggerGlitchEffect, PauseOrResume, set_visibility, TimePasses,
        EffectCall
    <3> QED BY <3>1 DEF HostStateKept
  <2>3. CASE latch_all_queued_primitives
    BY <2>3 DEF latch_all_queued_primitives, latch_buffers, HostStateKept
  <2>4. CASE latch_all_queued_text
    BY <2>4 DEF latch_all_queued_text, latch_text_buffers, HostStateKept
  <2>5. CASE render_primitives
    <3>1. PICK hasView \in BOOLEAN : \E d \in SceneDraws(hasView) : ctx' = d.left
      BY <2>5 DEF render_primitives
    <3>2. PICK d \in SceneDraws(hasView) : ctx' = d.left
      BY <3>1
    <3> QED BY <3>2, SceneKeepsStates DEF HostStateKept
  <2>6. CASE composite_overlays
    <3>1. PICK d \in SceneDraws(FALSE) : ctx' = AfterQuad(d.left)
      BY <2>6 DEF composite_overlays
    <3>2. /\ ctx'.blend = d.left.blend /\ ctx'.depth = d.left.depth
          /\ ctx'.raster = d.left.raster /\ ctx'.dsv = d.left.dsv
      BY <3>1 DEF AfterQuad
    <3> QED BY <3>2, SceneKeepsStates DEF HostStateKept
  <2>7. CASE render_ui
    BY <2>7 DEF render_ui, AfterQuad, HostStateKept
  <2>8. CASE FirstFrame
    BY <2>8 DEF FirstFrame, HostStateKept
  <2>9. CASE HostDraws
    BY <2>9 DEF HostDraws, HostBindings, HostStateKept
  <2>10. CASE UNCHANGED vars
    BY <2>10 DEF vars, sceneVars, HostStateKept
  <2> QED BY <2>1, <2>2, <2>3, <2>4, <2>5, <2>6, <2>7, <2>8, <2>9, <2>10 DEF Next, RenderPart
<1> QED BY <1>1, <1>2, PTL DEF Spec

-----------------------------------------------------------------------------
(* The shaders' clock.  The last time composited is never ahead of the time *)
(* the next composite would use, which a pause keeps and a resume goes on   *)
(* from.                                                                    *)

TimeInv ==
  /\ clock \in Nat /\ start_time \in Nat /\ time_at_pause \in Nat /\ composited_at \in Nat
  /\ is_paused \in BOOLEAN
  /\ start_time <= clock /\ time_at_pause <= clock
  /\ composited_at <= composite_time

LEMMA TimeInvInit == Init => TimeInv
<1> SUFFICES ASSUME Init PROVE TimeInv
  OBVIOUS
<1>1. /\ clock = 0 /\ start_time = 0 /\ time_at_pause = 0 /\ composited_at = 0
      /\ is_paused = FALSE
  BY DEF Init, EffectsInit
<1>2. composite_time = 0
  BY <1>1 DEF composite_time, Elapsed
<1>3. is_paused \in BOOLEAN
  BY <1>1
<1>4. /\ clock = 0 /\ start_time = 0 /\ time_at_pause = 0 /\ composited_at = 0
  BY <1>1
<1> QED BY <1>2, <1>3, <1>4 DEF TimeInv

LEMMA TimeInvNext == TimeInv /\ [Next]_vars => TimeInv' /\ composited_at' >= composited_at
<1> SUFFICES ASSUME TimeInv, [Next]_vars PROVE TimeInv' /\ composited_at' >= composited_at
  OBVIOUS
<1> USE DEF TimeInv, composite_time, Elapsed
<1>1. CASE UNCHANGED timeVars /\ UNCHANGED composited_at
  BY <1>1 DEF timeVars
<1>2. CASE ScenePart
  <2>1. UNCHANGED timeVars /\ UNCHANGED composited_at
    BY <1>2 DEF ScenePart, SetPrimitives, SetCustomPrimitives, ClearPrimitives,
      ClearAllPrimitives, RegisterCustomPixelShader, SetCustomEffectTextureAtSlot,
      ClearCustomEffectTextureAtSlot, SetCustomEffectTexturesBulk, RegisterFontAtlas,
      UnregisterFontAtlas, SetText, ClearText, ClearFontText, ClearAllText, SceneCall, NoDraw
  <2> QED BY <1>1, <2>1
<1>3. CASE EffectPart
  <2>1. CASE PauseOrResume
    <3>1. composited_at' = composited_at /\ clock' = clock
      BY <2>1 DEF PauseOrResume, pause_animations, resume_animations, NoDraw
    <3>2. CASE pause_animations /\ is_paused
      <4>1. time_at_pause' = time_at_pause /\ start_time' = start_time /\ is_paused' = TRUE
        BY <3>2 DEF pause_animations
      <4> QED BY <3>1, <3>2, <4>1
    <3>3. CASE pause_animations /\ ~is_paused
      <4>1. time_at_pause' = clock - start_time /\ start_time' = start_time /\ is_paused' = TRUE
        BY <3>3 DEF pause_animations
      <4> QED BY <3>1, <3>3, <4>1
    <3>4. CASE resume_animations /\ is_paused
      <4>1. time_at_pause' = time_at_pause /\ start_time' = clock - time_at_pause
            /\ is_paused' = FALSE
        BY <3>4 DEF resume_animations
      <4>2. is_paused' \in BOOLEAN /\ composite_time' = clock' - start_time'
        BY <4>1
      <4>3. composite_time = time_at_pause
        BY <3>4
      <4>4. time_at_pause' = time_at_pause /\ start_time' = clock - time_at_pause
        BY <4>1
      <4> HIDE DEF composite_time, Elapsed
      <4> QED BY <3>1, <4>2, <4>3, <4>4
    <3>5. CASE resume_animations /\ ~is_paused
      <4>1. time_at_pause' = time_at_pause /\ start_time' = start_time /\ is_paused' = FALSE
        BY <3>5 DEF resume_animations
      <4>2. is_paused' \in BOOLEAN /\ composite_time' = clock' - start_time'
        BY <4>1
      <4>3. composite_time = clock - start_time
        BY <3>5
      <4>4. time_at_pause' = time_at_pause /\ start_time' = start_time
        BY <4>1
      <4> HIDE DEF composite_time, Elapsed
      <4> QED BY <3>1, <4>2, <4>3, <4>4
    <3> QED BY <2>1, <3>2, <3>3, <3>4, <3>5 DEF PauseOrResume
  <2>2. CASE TimePasses
    BY <2>2 DEF TimePasses, ClockTicks, NoDraw
  <2>3. CASE ~PauseOrResume /\ ~TimePasses
    <3>1. UNCHANGED timeVars /\ UNCHANGED composited_at
      BY <1>3, <2>3 DEF EffectPart, SetFullscreenEffect, SetWidgetEffect,
        UpdateEffectConfig, ClearEffect, TriggerGlitchEffect, set_visibility,
        EffectCall, NoDraw
    <3> QED BY <1>1, <3>1
  <2> QED BY <2>1, <2>2, <2>3
<1>4. CASE RenderPart
  <2>1. CASE composite_overlays
    BY <2>1 DEF composite_overlays, timeVars
  <2>2. CASE ~composite_overlays
    <3>1. UNCHANGED timeVars /\ UNCHANGED composited_at
      BY <1>4, <2>2 DEF RenderPart, latch_all_queued_primitives, latch_all_queued_text,
        render_primitives, render_ui, FirstFrame, HostDraws, NoDraw
    <3> QED BY <1>1, <3>1
  <2> QED BY <2>1, <2>2
<1>5. CASE UNCHANGED vars
  BY <1>1, <1>5 DEF vars
<1> QED BY <1>2, <1>3, <1>4, <1>5 DEF Next

\* The time composite_overlays gives the shaders never runs back.
THEOREM TimeNeverBack == Spec => CompositeTimeSteady
<1>1. TimeInv /\ [Next]_vars => [composited_at' >= composited_at]_vars
  BY TimeInvNext
<1> QED BY <1>1, TimeInvInit, TimeInvNext, PTL DEF Spec, CompositeTimeSteady

-----------------------------------------------------------------------------
(* Sums over the groups, in any order.                                     *)

\* Induction over the naturals, of a set rather than of a predicate.
LEMMA SetInduction ==
  ASSUME NEW T, 0 \in T, \A n \in Nat : n \in T => n + 1 \in T
  PROVE  Nat \subseteq T
<1> DEFINE missed == Nat \ T
<1> SUFFICES ASSUME missed # {} PROVE FALSE
  OBVIOUS
<1>1. PICK x \in missed : \A y \in missed : ~ (<<y, x>> \in OpToRel(<, Nat))
  BY NatLessThanWellFounded, WFMin
<1>2. x # 0 /\ x - 1 \in Nat
  OBVIOUS
<1>3. <<x - 1, x>> \in OpToRel(<, Nat)
  BY <1>2 DEF OpToRel
<1>4. x - 1 \in T
  BY <1>1, <1>2, <1>3
<1> QED BY <1>2, <1>4

\* sum gives the sum of fun over every set of its arguments.
IsSum(fun, D, sum) ==
  sum = [s \in SUBSET D |->
          IF s = {} THEN 0
          ELSE fun[CHOOSE x \in s : TRUE] + sum[s \ {CHOOSE x \in s : TRUE}]]

\* A fold over the whole domain is such a sum.
LEMMA FoldIsSum ==
  ASSUME NEW fun, IsFiniteSet(DOMAIN fun)
  PROVE  \E sum : IsSum(fun, DOMAIN fun, sum) /\ FoldFunction(+, 0, fun) = sum[DOMAIN fun]
<1> DEFINE D == DOMAIN fun
           first(s) == CHOOSE x \in s : TRUE
           small(n) == {s \in SUBSET D : Cardinality(s) <= n}
           adds(g, n) == g = [s \in small(n) |->
                               IF s = {} THEN 0 ELSE fun[first(s)] + g[s \ {first(s)}]]
           T == {n \in Nat : \E g : adds(g, n)}
<1>0. ASSUME NEW s \in SUBSET D
      PROVE  /\ Cardinality(s) \in Nat /\ Cardinality(s) <= Cardinality(D)
             /\ (Cardinality(s) = 0) <=> (s = {})
             /\ s # {} => /\ s \ {first(s)} \in SUBSET D
                          /\ Cardinality(s \ {first(s)}) = Cardinality(s) - 1
  <2>1. IsFiniteSet(s) /\ Cardinality(s) <= Cardinality(D)
    BY FS_Subset
  <2>2. s # {} => first(s) \in s
    OBVIOUS
  <2> HIDE DEF first
  <2> QED BY <2>1, <2>2, FS_CardinalityType, FS_EmptySet, FS_RemoveElement
<1>0a. \A s \in SUBSET D : Cardinality(s) \in Nat /\ (Cardinality(s) = 0 => s = {})
  BY <1>0
<1>0b. Cardinality({}) = 0
  BY FS_EmptySet
<1> HIDE DEF first, D
<1>1. 0 \in T
  <2>1. ASSUME NEW s \in small(0) PROVE s = {}
    <3>1. s \in SUBSET D /\ Cardinality(s) <= 0
      OBVIOUS
    <3> QED BY <3>1, <1>0a
  <2>2. adds([s \in small(0) |-> 0], 0)
    BY <2>1
  <2> HIDE DEF adds
  <2> QED BY <2>2
<1>2. ASSUME NEW n \in Nat, n \in T PROVE n + 1 \in T
  <2>1. PICK g : adds(g, n)
    BY <1>2
  <2> DEFINE h == [s \in small(n + 1) |->
                    IF Cardinality(s) <= n THEN g[s] ELSE fun[first(s)] + g[s \ {first(s)}]]
  <2>2. \A s \in small(n + 1) : s # {} =>
          s \in small(n + 1) /\ s \ {first(s)} \in small(n) /\ s \ {first(s)} \in small(n + 1)
    BY <1>0
  <2>3. ASSUME NEW s \in small(n) PROVE s \in small(n + 1) /\ h[s] = g[s]
    <3>1. s \in SUBSET D /\ Cardinality(s) <= n /\ Cardinality(s) \in Nat
      BY <1>0
    <3>2. s \in small(n + 1)
      BY <3>1
    <3> QED BY <3>1, <3>2
  <2>4. \A s \in small(n + 1) :
          h[s] = IF s = {} THEN 0 ELSE fun[first(s)] + h[s \ {first(s)}]
    <3> SUFFICES ASSUME NEW s \in small(n + 1)
                 PROVE  h[s] = IF s = {} THEN 0 ELSE fun[first(s)] + h[s \ {first(s)}]
      OBVIOUS
    <3>1. CASE Cardinality(s) <= n
      <4>1. s \in small(n) /\ h[s] = g[s]
        BY <3>1
      <4>2. g[s] = IF s = {} THEN 0 ELSE fun[first(s)] + g[s \ {first(s)}]
        BY <2>1, <4>1
      <4> HIDE DEF h, small
      <4> QED BY <2>2, <2>3, <4>1, <4>2
    <3>2. CASE ~ (Cardinality(s) <= n)
      <4>1. s # {}
        BY <1>0b, <3>2
      <4>2. h[s] = fun[first(s)] + g[s \ {first(s)}]
        BY <3>2
      <4> HIDE DEF h, small
      <4> QED BY <2>2, <2>3, <4>1, <4>2
    <3> QED BY <3>1, <3>2
  <2>5. adds(h, n + 1)
    BY <2>4
  <2> HIDE DEF h, adds
  <2> QED BY <2>5
<1>3. Cardinality(D) \in T
  <2>1. Cardinality(D) \in Nat
    BY FS_CardinalityType DEF D
  <2> HIDE DEF T
  <2> QED BY <1>1, <1>2, <2>1, SetInduction
<1>4. PICK sum : adds(sum, Cardinality(D))
  BY <1>3
<1>5. small(Cardinality(D)) = SUBSET D
  BY <1>0
<1>6. \E g : IsSum(fun, D, g)
  <2>1. IsSum(fun, D, sum)
    BY <1>4, <1>5 DEF IsSum, first
  <2> QED BY <2>1
<1>7. IsSum(fun, D, CHOOSE g : IsSum(fun, D, g))
  BY <1>6
<1>8. FoldFunction(+, 0, fun) = (CHOOSE g : IsSum(fun, D, g))[D]
  BY DEF FoldFunction, FoldFunctionOnSet, MapThenFoldSet, IsSum, D
<1> QED BY <1>7, <1>8 DEF D

\* A sum may take its arguments in any order.
LEMMA SumTakesAny ==
  ASSUME NEW S, IsFiniteSet(S), NEW fun \in [S -> Nat], NEW sum, IsSum(fun, S, sum),
         NEW r \in SUBSET S
  PROVE  sum[r] \in Nat /\ \A x \in r : sum[r] = fun[x] + sum[r \ {x}]
<1> DEFINE good(s) == sum[s] \in Nat /\ \A x \in s : sum[s] = fun[x] + sum[s \ {x}]
           T == {n \in Nat : \A s \in SUBSET S : Cardinality(s) <= n => good(s)}
<1>0. ASSUME NEW s \in SUBSET S
      PROVE  Cardinality(s) \in Nat /\ Cardinality(s) <= Cardinality(S)
             /\ (Cardinality(s) = 0 => s = {})
             /\ \A x \in s : Cardinality(s \ {x}) = Cardinality(s) - 1
  <2>1. IsFiniteSet(s) /\ Cardinality(s) <= Cardinality(S)
    BY FS_Subset
  <2> QED BY <2>1, FS_CardinalityType, FS_EmptySet, FS_RemoveElement
<1>1. good({})
  BY DEF IsSum
<1>2. 0 \in T
  <2>1. ASSUME NEW s \in SUBSET S, Cardinality(s) <= 0 PROVE good(s)
    <3>1. s = {}
      BY <1>0, <2>1
    <3> HIDE DEF good
    <3> QED BY <1>1, <3>1
  <2> HIDE DEF good
  <2> QED BY <2>1
<1>3. ASSUME NEW n \in Nat, n \in T PROVE n + 1 \in T
  <2>1. ASSUME NEW s \in SUBSET S, Cardinality(s) <= n PROVE good(s)
    BY <1>3, <2>1
  <2>2. ASSUME NEW s \in SUBSET S, Cardinality(s) <= n + 1, s # {} PROVE good(s)
    <3> DEFINE c == CHOOSE x \in s : TRUE
    <3>1. c \in s
      BY <2>2
    <3>2. sum[s] = fun[c] + sum[s \ {c}]
      BY <2>2 DEF IsSum
    <3> HIDE DEF c
    <3>3. ASSUME NEW x \in s PROVE s \ {x} \in SUBSET S /\ good(s \ {x})
      <4>1. s \ {x} \in SUBSET S /\ Cardinality(s \ {x}) <= n
        BY <1>0, <2>2
      <4> HIDE DEF good
      <4> QED BY <2>1, <4>1
    <3>4. sum[s] \in Nat
      BY <3>1, <3>2, <3>3
    <3>5. ASSUME NEW x \in s, x # c PROVE sum[s] = fun[x] + sum[s \ {x}]
      <4>1. sum[s \ {c}] = fun[x] + sum[(s \ {c}) \ {x}]
        BY <3>1, <3>3, <3>5
      <4>2. sum[s \ {x}] = fun[c] + sum[(s \ {x}) \ {c}]
        BY <3>1, <3>3, <3>5
      <4>3. (s \ {c}) \ {x} = (s \ {x}) \ {c}
        OBVIOUS
      <4>4. (s \ {c}) \ {x} \in SUBSET S /\ Cardinality((s \ {c}) \ {x}) <= n
        <5>1. s \ {c} \in SUBSET S /\ x \in s \ {c} /\ Cardinality(s \ {c}) <= n
          BY <1>0, <2>2, <3>1, <3>5
        <5> QED BY <5>1, <1>0
      <4>5. sum[(s \ {c}) \ {x}] \in Nat
        BY <2>1, <4>4
      <4>6. fun[c] \in Nat /\ fun[x] \in Nat
        BY <3>1
      <4> DEFINE rest == sum[(s \ {c}) \ {x}]
      <4>7. sum[s \ {c}] = fun[x] + rest /\ sum[s \ {x}] = fun[c] + rest /\ rest \in Nat
        BY <4>1, <4>2, <4>3, <4>5
      <4> HIDE DEF rest
      <4> QED BY <3>2, <4>6, <4>7
    <3> QED BY <3>2, <3>4, <3>5
  <2> HIDE DEF good
  <2> QED BY <1>1, <2>2
<1>4. ASSUME NEW s \in SUBSET S PROVE good(s)
  <2>1. Cardinality(s) \in Nat
    BY <1>0
  <2>2. Nat \subseteq T
    <3> HIDE DEF T
    <3> QED BY <1>2, <1>3, SetInduction
  <2> HIDE DEF good
  <2> QED BY <2>1, <2>2
<1> QED BY <1>4

SumsUp(fun, S, sum) ==
  /\ FoldFunction(+, 0, fun) = sum[S]
  /\ sum[{}] = 0
  /\ \A s \in SUBSET S : sum[s] \in Nat /\ \A x \in s : sum[s] = fun[x] + sum[s \ {x}]

LEMMA FoldSumsUp ==
  ASSUME NEW S, IsFiniteSet(S), NEW fun \in [S -> Nat]
  PROVE  \E sum : SumsUp(fun, S, sum)
<1>1. DOMAIN fun = S
  OBVIOUS
<1>2. PICK sum : IsSum(fun, S, sum) /\ FoldFunction(+, 0, fun) = sum[S]
  BY <1>1, FoldIsSum
<1>3. IsSum(fun, S, sum)
  BY <1>2
<1>4. ASSUME NEW s \in SUBSET S
      PROVE  sum[s] \in Nat /\ \A x \in s : sum[s] = fun[x] + sum[s \ {x}]
  BY <1>3, SumTakesAny
<1>5. sum[{}] = 0
  BY <1>3 DEF IsSum
<1>6. SumsUp(fun, S, sum)
  BY <1>2, <1>4, <1>5 DEF SumsUp
<1> QED BY <1>6

\* An order of a finite set visits all of it, once.
LEMMA OrderVisitsAll ==
  ASSUME NEW S, IsFiniteSet(S), NEW order \in OrdersOf(S)
  PROVE  /\ Cardinality(S) \in Nat /\ Len(order) = Cardinality(S)
         /\ order \in Seq(S) /\ DOMAIN order = 1 .. Len(order)
         /\ \A i \in 1 .. Len(order) : order[i] \in S
         /\ \A i, j \in 1 .. Len(order) : order[i] = order[j] => i = j
         /\ \A x \in S : \E i \in 1 .. Len(order) : order[i] = x
<1> DEFINE n == Cardinality(S)
<1>1. n \in Nat
  BY FS_CardinalityType
<1>2. order \in [1 .. n -> S] /\ \A i, j \in 1 .. n : order[i] = order[j] => i = j
  BY DEF OrdersOf
<1>3. order \in Seq(S) /\ Len(order) = n
  BY <1>1, <1>2
<1>4. \A x \in S : \E i \in 1 .. n : order[i] = x
  <2>1. order \in Injection(1 .. n, S)
    BY <1>2, Fun_IsInj
  <2>2. IsFiniteSet(1 .. n) /\ Cardinality(1 .. n) = n
    BY <1>1, FS_Interval
  <2> HIDE DEF n
  <2>3. order \in Surjection(1 .. n, S)
    BY <2>1, <2>2, FS_Injection DEF n
  <2> QED BY <2>3 DEF Surjection
<1> QED BY <1>1, <1>2, <1>3, <1>4

\* What a fold adds up to is reached by adding its values along any order.
LEMMA SumAlongOrder ==
  ASSUME NEW S, IsFiniteSet(S), NEW fun \in [S -> Nat], NEW order \in OrdersOf(S)
  PROVE  \E p \in [0 .. Len(order) -> Nat] :
           /\ p[0] = 0
           /\ \A i \in 1 .. Len(order) : p[i] = p[i - 1] + fun[order[i]]
           /\ p[Len(order)] = FoldFunction(+, 0, fun)
<1> DEFINE n == Len(order)
           visited(i) == {order[j] : j \in 1 .. i}
<1>1. PICK sum : SumsUp(fun, S, sum)
  BY FoldSumsUp
<1>2. /\ n \in Nat /\ \A i \in 1 .. n : order[i] \in S
      /\ \A i, j \in 1 .. n : order[i] = order[j] => i = j
      /\ \A x \in S : \E i \in 1 .. n : order[i] = x
  BY OrderVisitsAll
<1> HIDE DEF n
<1>3. \A s \in SUBSET S : sum[s] \in Nat /\ \A x \in s : sum[s] = fun[x] + sum[s \ {x}]
  BY <1>1 DEF SumsUp
<1> DEFINE p == [i \in 0 .. n |-> sum[visited(i)]]
<1>4. \A i \in 0 .. n : visited(i) \in SUBSET S
  BY <1>2
<1>5. p \in [0 .. n -> Nat]
  <2> HIDE DEF visited
  <2> QED BY <1>3, <1>4
<1>6. p[0] = 0
  <2>1. visited(0) = {}
    OBVIOUS
  <2>2. sum[{}] = 0
    BY <1>1 DEF SumsUp
  <2> QED BY <1>2, <2>1, <2>2
<1>7. ASSUME NEW i \in 1 .. n PROVE p[i] = p[i - 1] + fun[order[i]]
  <2>1. order[i] \in visited(i) /\ visited(i) \ {order[i]} = visited(i - 1)
    <3>1. order[i] \notin visited(i - 1)
      BY <1>2
    <3>2. visited(i) = visited(i - 1) \cup {order[i]}
      BY <1>2
    <3> HIDE DEF visited
    <3> QED BY <3>1, <3>2
  <2>2. i \in 0 .. n /\ i - 1 \in 0 .. n
    BY <1>2
  <2>3. p[i] = sum[visited(i)] /\ p[i - 1] = sum[visited(i - 1)]
    <3> HIDE DEF visited
    <3> QED BY <2>2
  <2>4. visited(i) \in SUBSET S /\ visited(i - 1) \in SUBSET S
    BY <1>4, <2>2
  <2> HIDE DEF visited
  <2>5. sum[visited(i)] = fun[order[i]] + sum[visited(i - 1)]
    <3>1. \A x \in visited(i) : sum[visited(i)] = fun[x] + sum[visited(i) \ {x}]
      BY <1>3, <2>4
    <3>2. sum[visited(i)] = fun[order[i]] + sum[visited(i) \ {order[i]}]
      BY <2>1, <3>1
    <3> QED BY <2>1, <3>2
  <2>6. fun[order[i]] \in Nat /\ sum[visited(i - 1)] \in Nat
    BY <1>2, <1>3, <2>4
  <2> HIDE DEF p
  <2> QED BY <2>3, <2>5, <2>6
<1>8. p[n] = FoldFunction(+, 0, fun)
  <2>1. visited(n) = S
    BY <1>2
  <2>2. p[n] = sum[visited(n)]
    BY <1>2
  <2> QED BY <1>1, <2>1, <2>2 DEF SumsUp
<1> HIDE DEF p
<1> QED BY <1>5, <1>6, <1>7, <1>8 DEF n

-----------------------------------------------------------------------------
(* The latch.                                                              *)

\* The fill of a buffer follows its definition, for any order and any groups.
LEMMA FillUnfolds ==
  ASSUME NEW groups, NEW k, NEW order, Len(order) \in Nat
  PROVE  Fill(groups, k, order) =
           [i \in 0 .. Len(order) |->
              IF i = 0 THEN 0
              ELSE Fill(groups, k, order)[i - 1]
                   + AtMost(SizeUnder(groups, k, order[i]),
                            Capacity - Fill(groups, k, order)[i - 1])]
<1> DEFINE add(n, i) == n + AtMost(SizeUnder(groups, k, order[i]), Capacity - n)
           fills(f, n) == f = [i \in 0 .. n |-> IF i = 0 THEN 0 ELSE add(f[i - 1], i)]
           T == {n \in Nat : \E f : fills(f, n)}
<1> HIDE DEF add
<1>1. 0 \in T
  <2>1. [i \in 0 .. 0 |-> 0] =
          [i \in 0 .. 0 |-> IF i = 0 THEN 0 ELSE add([j \in 0 .. 0 |-> 0][i - 1], i)]
    OBVIOUS
  <2> QED BY <2>1
<1>2. ASSUME NEW n \in Nat, n \in T PROVE n + 1 \in T
  <2>1. PICK f : fills(f, n)
    BY <1>2
  <2> DEFINE g == [i \in 0 .. n + 1 |-> IF i <= n THEN f[i] ELSE add(f[n], n + 1)]
  <2>2. \A i \in 0 .. n + 1 : g[i] = IF i = 0 THEN 0 ELSE add(g[i - 1], i)
    BY <2>1
  <2>3. fills(g, n + 1)
    BY <2>2
  <2> HIDE DEF g, fills
  <2> QED BY <2>3
<1>3. Len(order) \in T
  BY <1>1, <1>2, SetInduction
<1>4. \E f : fills(f, Len(order))
  BY <1>3
<1>5. Fill(groups, k, order) = CHOOSE f : fills(f, Len(order))
  BY DEF Fill, add
<1> HIDE DEF fills
<1>6. fills(Fill(groups, k, order), Len(order))
  BY <1>4, <1>5
<1> QED BY <1>6 DEF fills, add

\* A buffer is filled up to its capacity and never beyond.
LEMMA FillSteps ==
  ASSUME NEW groups, NEW k, NEW order \in OrdersOf(Groups),
         \A g \in Groups : SizeUnder(groups, k, g) \in Nat
  PROVE  LET fill == Fill(groups, k, order)
         IN  /\ fill[0] = 0
             /\ \A i \in 0 .. Len(order) : fill[i] \in 0 .. Capacity
             /\ \A i \in 1 .. Len(order) :
                  /\ fill[i] = fill[i - 1] + AtMost(SizeUnder(groups, k, order[i]),
                                                    Capacity - fill[i - 1])
                  /\ fill[i] - fill[i - 1] \in Nat
<1> DEFINE fill == Fill(groups, k, order)
           size(i) == SizeUnder(groups, k, order[i])
           n == Len(order)
           T == {i \in Nat : i <= n => fill[i] \in 0 .. Capacity}
<1>1. n \in Nat /\ \A i \in 1 .. n : size(i) \in Nat
  BY OrderVisitsAll, SceneAssumption
<1>2. /\ fill[0] = 0
      /\ \A i \in 1 .. n : fill[i] = fill[i - 1] + AtMost(size(i), Capacity - fill[i - 1])
  BY <1>1, FillUnfolds
<1> HIDE DEF fill, size, n
<1>3. 0 \in T
  BY <1>2, SceneAssumption
<1>4. ASSUME NEW i \in Nat, i \in T PROVE i + 1 \in T
  <2> SUFFICES ASSUME i + 1 <= n PROVE fill[i + 1] \in 0 .. Capacity
    OBVIOUS
  <2>1. fill[i] \in 0 .. Capacity
    BY <1>1, <1>4
  <2>2. i + 1 \in 1 .. n /\ size(i + 1) \in Nat
    BY <1>1
  <2>3. fill[i + 1] = fill[i] + AtMost(size(i + 1), Capacity - fill[i])
    <3>1. fill[i + 1] = fill[(i + 1) - 1] + AtMost(size(i + 1), Capacity - fill[(i + 1) - 1])
      BY <1>2, <2>2
    <3> QED BY <3>1
  <2> QED BY <2>1, <2>2, <2>3, SceneAssumption DEF AtMost
<1>5. \A i \in 0 .. n : fill[i] \in 0 .. Capacity
  <2>1. Nat \subseteq T
    <3> HIDE DEF T
    <3> QED BY <1>3, <1>4, SetInduction
  <2> QED BY <1>1, <2>1
<1>6. ASSUME NEW i \in 1 .. n PROVE fill[i] - fill[i - 1] \in Nat
  <2>1. fill[i - 1] \in 0 .. Capacity /\ size(i) \in Nat
    BY <1>1, <1>5
  <2>2. fill[i] = fill[i - 1] + AtMost(size(i), Capacity - fill[i - 1])
    BY <1>2
  <2> QED BY <2>1, <2>2, SceneAssumption DEF AtMost
<1> QED BY <1>2, <1>5, <1>6 DEF fill, size, n

\* What a buffer takes of the groups adds up to its fill.
LEMMA TakenAddsUp ==
  ASSUME NEW groups, NEW k, NEW order \in OrdersOf(Groups),
         \A g \in Groups : SizeUnder(groups, k, g) \in Nat
  PROVE  Vertices(Taken(groups, k, order)) = Fill(groups, k, order)[Len(order)]
<1> DEFINE fill == Fill(groups, k, order)
           at(g) == CHOOSE i \in 1 .. Len(order) : order[i] = g
           taken == Taken(groups, k, order)
           n == Len(order)
<1>1. /\ n \in Nat /\ \A i \in 1 .. n : order[i] \in Groups
      /\ \A i, j \in 1 .. n : order[i] = order[j] => i = j
      /\ \A g \in Groups : \E i \in 1 .. n : order[i] = g
  BY OrderVisitsAll, SceneAssumption
<1>2. \A g \in Groups : at(g) \in 1 .. n /\ order[at(g)] = g
  BY <1>1
<1>3. \A i \in 1 .. n : at(order[i]) = i
  <2> HIDE DEF at
  <2> QED BY <1>1, <1>2
<1>4. taken = [g \in Groups |-> fill[at(g)] - fill[at(g) - 1]]
  BY DEF Taken
<1>5. /\ fill[0] = 0
      /\ \A i \in 1 .. n : fill[i] - fill[i - 1] \in Nat
      /\ \A i \in 0 .. n : fill[i] \in Nat
  <2>1. \A i \in 0 .. n : fill[i] \in 0 .. Capacity
    BY FillSteps
  <2> HIDE DEF fill, n
  <2> QED BY <2>1, FillSteps, SceneAssumption DEF fill, n
<1> HIDE DEF fill, at, taken, n
<1>6. taken \in [Groups -> Nat] /\ \A i \in 1 .. n : taken[order[i]] = fill[i] - fill[i - 1]
  BY <1>1, <1>2, <1>3, <1>4, <1>5
<1>7. PICK p \in [0 .. n -> Nat] :
        /\ p[0] = 0
        /\ \A i \in 1 .. n : p[i] = p[i - 1] + taken[order[i]]
        /\ p[n] = FoldFunction(+, 0, taken)
  BY <1>6, SumAlongOrder, SceneAssumption DEF n
<1> DEFINE T == {i \in Nat : i <= n => p[i] = fill[i]}
<1>8. 0 \in T
  BY <1>5, <1>7
<1>9. ASSUME NEW i \in Nat, i \in T PROVE i + 1 \in T
  <2> SUFFICES ASSUME i + 1 <= n PROVE p[i + 1] = fill[i + 1]
    OBVIOUS
  <2>1. p[i] = fill[i] /\ i + 1 \in 1 .. n /\ i \in 0 .. n /\ i + 1 \in 0 .. n
    BY <1>1, <1>9
  <2>2. p[i + 1] = p[(i + 1) - 1] + taken[order[i + 1]]
    BY <1>7, <2>1
  <2>3. taken[order[i + 1]] = fill[i + 1] - fill[(i + 1) - 1]
    BY <1>6, <2>1
  <2>4. (i + 1) - 1 = i
    OBVIOUS
  <2>5. fill[i] \in Nat /\ fill[i + 1] \in Nat
    BY <1>5, <2>1
  <2> QED BY <2>1, <2>2, <2>3, <2>4, <2>5
<1>10. p[n] = fill[n]
  <2>1. Nat \subseteq T
    <3> HIDE DEF T
    <3> QED BY <1>8, <1>9, SetInduction
  <2> QED BY <1>1, <2>1
<1>11. Vertices(taken) = FoldFunction(+, 0, taken)
  BY DEF Vertices
<1> QED BY <1>7, <1>10, <1>11 DEF fill, taken, n

\* A buffer holds all that was submitted under its key, up to its capacity.
LEMMA LatchTakesAll ==
  ASSUME NEW groups, NEW k, NEW order \in OrdersOf(Groups),
         \A g \in Groups : SizeUnder(groups, k, g) \in Nat
  PROVE  /\ Vertices(Taken(groups, k, order)) =
              AtMost(Vertices([g \in Groups |-> SizeUnder(groups, k, g)]), Capacity)
         /\ Vertices(Taken(groups, k, order)) <= Capacity
<1> DEFINE fill == Fill(groups, k, order)
           size == [g \in Groups |-> SizeUnder(groups, k, g)]
           n == Len(order)
<1>1. n \in Nat /\ \A i \in 1 .. n : order[i] \in Groups
  BY OrderVisitsAll, SceneAssumption
<1>2. size \in [Groups -> Nat]
  OBVIOUS
<1>3. /\ fill[0] = 0
      /\ \A i \in 0 .. n : fill[i] \in 0 .. Capacity
      /\ \A i \in 1 .. n : fill[i] = fill[i - 1] + AtMost(size[order[i]], Capacity - fill[i - 1])
  <2>1. /\ fill[0] = 0
        /\ \A i \in 0 .. n : fill[i] \in 0 .. Capacity
        /\ \A i \in 1 .. n : fill[i] = fill[i - 1] + AtMost(SizeUnder(groups, k, order[i]),
                                                            Capacity - fill[i - 1])
    BY FillSteps
  <2> HIDE DEF fill, n
  <2> QED BY <1>1, <2>1
<1>4. Vertices(Taken(groups, k, order)) = fill[n]
  BY TakenAddsUp
<1> HIDE DEF fill, size, n
<1>5. PICK p \in [0 .. n -> Nat] :
        /\ p[0] = 0
        /\ \A i \in 1 .. n : p[i] = p[i - 1] + size[order[i]]
        /\ p[n] = FoldFunction(+, 0, size)
  BY <1>2, SumAlongOrder, SceneAssumption DEF n
<1> DEFINE T == {i \in Nat : i <= n => fill[i] = AtMost(p[i], Capacity)}
<1>6. 0 \in T
  <2>1. p[0] = 0 /\ fill[0] = 0
    BY <1>3, <1>5
  <2> QED BY <2>1, SceneAssumption DEF AtMost
<1>7. ASSUME NEW i \in Nat, i \in T PROVE i + 1 \in T
  <2> SUFFICES ASSUME i + 1 <= n PROVE fill[i + 1] = AtMost(p[i + 1], Capacity)
    OBVIOUS
  <2>1. i + 1 \in 1 .. n /\ i \in 0 .. n /\ i + 1 \in 0 .. n /\ (i + 1) - 1 = i
    BY <1>1
  <2>2. fill[i] = AtMost(p[i], Capacity)
    BY <1>1, <1>7
  <2>3. p[i + 1] = p[i] + size[order[i + 1]]
    BY <1>5, <2>1
  <2>4. fill[i + 1] = fill[i] + AtMost(size[order[i + 1]], Capacity - fill[i])
    BY <1>3, <2>1
  <2>5. size[order[i + 1]] \in Nat /\ p[i] \in Nat
    BY <1>1, <1>2, <1>5, <2>1
  <2> QED BY <2>2, <2>3, <2>4, <2>5, SceneAssumption DEF AtMost
<1>8. fill[n] = AtMost(p[n], Capacity)
  <2>1. Nat \subseteq T
    <3> HIDE DEF T
    <3> QED BY <1>6, <1>7, SetInduction
  <2> QED BY <1>1, <2>1
<1>9. Vertices(size) = p[n] /\ p[n] \in Nat
  <2>1. Vertices(size) = FoldFunction(+, 0, size)
    BY DEF Vertices
  <2>2. p[n] \in Nat
    BY <1>1
  <2> QED BY <1>5, <2>1, <2>2
<1> QED BY <1>4, <1>8, <1>9, SceneAssumption DEF AtMost, size

-----------------------------------------------------------------------------
(* What the lists and buffers hold.                                        *)

ListEffect(l, e) == IF l \in PlainLists THEN e = "builtin" ELSE e \in Effects

MaybeEntries == [Groups -> Entries \cup {None}]

SubmitInv ==
  /\ submitted \in [Lists -> MaybeEntries]
  /\ \A l \in Lists, g \in Groups :
       submitted[l][g] # None => ListEffect(l, submitted[l][g].effect)
  /\ text_submitted \in [Fonts -> MaybeEntries \cup {None}]

EffectInv ==
  /\ registered \subseteq Effects /\ fonts \subseteq Fonts
  /\ textures \in [Effects -> [Slots -> Textures \cup {None}]]

GoodBuffers(buffers) ==
  /\ IsFiniteSet(DOMAIN buffers) /\ DOMAIN buffers \subseteq Keys
  /\ \A k \in DOMAIN buffers : Vertices(buffers[k]) <= Capacity

LatchInv ==
  /\ DOMAIN latched = Lists
  /\ \A l \in Lists : /\ GoodBuffers(latched[l])
                      /\ \A k \in DOMAIN latched[l] : ListEffect(l, k.effect)
  /\ \A f \in Fonts : text_latched[f] # None => GoodBuffers(text_latched[f])

LEMMA EntryTyped ==
  ASSUME NEW e \in Shaders, NEW o \in Options, NEW n \in Sizes
  PROVE  /\ Entry(e, o, n) \in Entries \cup {None}
         /\ Entry(e, o, n) # None => Entry(e, o, n).effect = e
BY DEF Entry, Entries

LEMMA StepSubmit ==
  ASSUME SubmitInv, [Next]_vars
  PROVE  SubmitInv'
<1> USE DEF SubmitInv, Lists, PlainLists, CustomLists, ListEffect
<1>1. CASE UNCHANGED <<submitted, text_submitted>>
  BY <1>1
<1>2. CASE SetPrimitives
  <2>1. PICK g \in Groups, o \in Options, n \in Sizes, l \in PlainLists :
          set_primitives(g, n, l, o)
    BY <1>2 DEF SetPrimitives
  <2>2. UNCHANGED text_submitted
    BY <2>1 DEF set_primitives, textVars
  <2>3. "builtin" \in Shaders
    BY DEF Shaders
  <2>4. PICK e1, e2 \in Entries \cup {None} :
          /\ e1 # None => e1.effect = "builtin"
          /\ e2 # None => e2.effect = "builtin"
          /\ submitted' = [submitted EXCEPT !["triangles"][g] = e1, !["lines"][g] = e2]
    <3>1. Entry("builtin", o, 0) = None
      BY DEF Entry
    <3>2. /\ Entry("builtin", o, n) \in Entries \cup {None}
          /\ Entry("builtin", o, n) # None => Entry("builtin", o, n).effect = "builtin"
      BY <2>3, EntryTyped, Zenon
    <3> QED BY <2>1, <3>1, <3>2 DEF set_primitives, SetPlain
  <2> QED BY <2>2, <2>4 DEF MaybeEntries
<1>3. CASE SetCustomPrimitives
  <2>1. PICK g \in Groups, o \in Options, e \in Effects, n, m \in Sizes :
          set_custom_primitives(g, n, m, e, o)
    BY <1>3 DEF SetCustomPrimitives
  <2>2. UNCHANGED text_submitted
    BY <2>1 DEF set_custom_primitives, textVars
  <2>3. /\ Entry(e, o, n) \in Entries \cup {None} /\ Entry(e, o, m) \in Entries \cup {None}
        /\ Entry(e, o, n) # None => Entry(e, o, n).effect = e
        /\ Entry(e, o, m) # None => Entry(e, o, m).effect = e
    BY EntryTyped DEF Shaders
  <2>4. submitted' = [submitted EXCEPT !["triangles_custom"][g] = Entry(e, o, n),
                                       !["lines_custom"][g] = Entry(e, o, m)]
    BY <2>1 DEF set_custom_primitives
  <2> QED BY <2>2, <2>3, <2>4 DEF MaybeEntries
<1>4. CASE ClearPrimitives
  <2>1. PICK g \in Groups : clear_primitives(g)
    BY <1>4 DEF ClearPrimitives
  <2> QED BY <2>1 DEF clear_primitives, textVars, MaybeEntries
<1>5. CASE ClearAllPrimitives
  BY <1>5 DEF ClearAllPrimitives, clear_all_primitives, textVars, MaybeEntries, NoGroups
<1>6. CASE UnregisterFontAtlas
  BY <1>6 DEF UnregisterFontAtlas, unregister_font_atlas, bufferVars
<1>7. CASE SetText
  <2>1. PICK f \in Fonts, g \in Groups, n \in Sizes, o \in Options : set_text(f, g, n, o)
    BY <1>7 DEF SetText
  <2>2. UNCHANGED submitted
    BY <2>1 DEF set_text, bufferVars
  <2>3. "builtin" \in Shaders
    BY DEF Shaders
  <2>4. Entry("builtin", o, n) \in Entries \cup {None}
    BY <2>3, EntryTyped, Zenon
  <2>5. NoGroups \in MaybeEntries
    BY DEF NoGroups, MaybeEntries
  <2>6. \A m \in MaybeEntries, x \in Entries \cup {None} : [m EXCEPT ![g] = x] \in MaybeEntries
    BY DEF MaybeEntries
  <2>7. CASE n = 0
    BY <2>1, <2>2, <2>6, <2>7 DEF set_text
  <2>8. CASE n # 0
    <3> DEFINE old == IF text_submitted[f] = None THEN NoGroups ELSE text_submitted[f]
               new == [old EXCEPT ![g] = Entry("builtin", o, n)]
    <3>1. old \in MaybeEntries
      BY <2>5
    <3>2. text_submitted' = [text_submitted EXCEPT ![f] = new]
      BY <2>1, <2>8 DEF set_text
    <3> HIDE DEF old
    <3>3. new \in MaybeEntries
      BY <2>4, <2>6, <3>1
    <3> HIDE DEF new
    <3> QED BY <2>2, <3>2, <3>3
  <2> QED BY <2>7, <2>8
<1>8. CASE ClearText
  <2>1. PICK f \in Fonts, g \in Groups : clear_text(f, g)
    BY <1>8 DEF ClearText
  <2>2. \A m \in MaybeEntries : [m EXCEPT ![g] = None] \in MaybeEntries
    BY DEF MaybeEntries
  <2> QED BY <2>1, <2>2 DEF clear_text, bufferVars
<1>9. CASE ClearFontText
  BY <1>9 DEF ClearFontText, clear_font_text, bufferVars
<1>10. CASE ClearAllText
  BY <1>10 DEF ClearAllText, clear_all_text, bufferVars
<1>11. CASE RegisterCustomPixelShader \/ SetCustomEffectTextureAtSlot
            \/ ClearCustomEffectTextureAtSlot \/ SetCustomEffectTexturesBulk
            \/ RegisterFontAtlas
  BY <1>1, <1>11 DEF RegisterCustomPixelShader, SetCustomEffectTextureAtSlot,
    ClearCustomEffectTextureAtSlot, SetCustomEffectTexturesBulk, RegisterFontAtlas,
    register_custom_pixel_shader, set_custom_effect_texture_at_slot,
    clear_custom_effect_texture_at_slot, set_custom_effect_textures_bulk,
    register_font_atlas, bufferVars, textVars
<1>12. CASE EffectPart
  BY <1>1, <1>12 DEF EffectPart, SetFullscreenEffect, SetWidgetEffect, UpdateEffectConfig,
    ClearEffect, TriggerGlitchEffect, PauseOrResume, set_visibility, TimePasses,
    EffectCall, Quiet, bufferVars, textVars
<1>13. CASE RenderPart
  BY <1>1, <1>13 DEF RenderPart, latch_all_queued_primitives, latch_all_queued_text,
    render_primitives, composite_overlays, render_ui, FirstFrame, HostDraws,
    latch_buffers, latch_text_buffers, Quiet, bufferVars, textVars
<1>14. CASE UNCHANGED vars
  BY <1>1, <1>14 DEF vars, sceneVars
<1> QED BY <1>2, <1>3, <1>4, <1>5, <1>6, <1>7, <1>8, <1>9, <1>10, <1>11, <1>12, <1>13,
  <1>14 DEF Next, ScenePart

\* Effects, atlases and textures stay among those the application has.
LEMMA StepEffect ==
  ASSUME EffectInv, [Next]_vars
  PROVE  EffectInv'
<1> USE DEF EffectInv
<1>1. CASE UNCHANGED <<registered, textures, fonts>>
  BY <1>1
<1>2. CASE RegisterCustomPixelShader
  BY <1>2 DEF RegisterCustomPixelShader, register_custom_pixel_shader, textVars
<1>3. CASE SetCustomEffectTextureAtSlot
  BY <1>3 DEF SetCustomEffectTextureAtSlot, set_custom_effect_texture_at_slot, textVars
<1>4. CASE ClearCustomEffectTextureAtSlot
  BY <1>4 DEF ClearCustomEffectTextureAtSlot, clear_custom_effect_texture_at_slot, textVars
<1>5. CASE SetCustomEffectTexturesBulk
  BY <1>5 DEF SetCustomEffectTexturesBulk, set_custom_effect_textures_bulk, textVars
<1>6. CASE RegisterFontAtlas
  BY <1>6 DEF RegisterFontAtlas, register_font_atlas, effectVars
<1>7. CASE UnregisterFontAtlas
  BY <1>7 DEF UnregisterFontAtlas, unregister_font_atlas, effectVars
<1>8. CASE SetPrimitives \/ SetCustomPrimitives \/ ClearPrimitives \/ ClearAllPrimitives
           \/ SetText \/ ClearText \/ ClearFontText \/ ClearAllText
  BY <1>1, <1>8 DEF SetPrimitives, SetCustomPrimitives, ClearPrimitives, ClearAllPrimitives,
    SetText, ClearText, ClearFontText, ClearAllText, set_primitives, set_custom_primitives,
    clear_primitives, clear_all_primitives, set_text, clear_text, clear_font_text,
    clear_all_text, effectVars, textVars
<1>9. CASE EffectPart
  BY <1>1, <1>9 DEF EffectPart, SetFullscreenEffect, SetWidgetEffect, UpdateEffectConfig,
    ClearEffect, TriggerGlitchEffect, PauseOrResume, set_visibility, TimePasses,
    EffectCall, Quiet, effectVars, textVars
<1>10. CASE RenderPart
  BY <1>1, <1>10 DEF RenderPart, latch_all_queued_primitives, latch_all_queued_text,
    render_primitives, composite_overlays, render_ui, FirstFrame, HostDraws,
    latch_buffers, latch_text_buffers, Quiet, effectVars, textVars
<1>11. CASE UNCHANGED vars
  BY <1>1, <1>11 DEF vars, sceneVars
<1> QED BY <1>2, <1>3, <1>4, <1>5, <1>6, <1>7, <1>8, <1>9, <1>10, <1>11 DEF Next, ScenePart

\* Only the two latches write a render buffer.
LEMMA OnlyLatchesWrite ==
  ASSUME [Next]_vars
  PROVE  /\ latched' = latched \/ latch_buffers
         /\ text_latched' = text_latched \/ latch_text_buffers
<1>1. CASE ScenePart
  BY <1>1 DEF ScenePart, SetPrimitives, SetCustomPrimitives, ClearPrimitives,
    ClearAllPrimitives, RegisterCustomPixelShader, SetCustomEffectTextureAtSlot,
    ClearCustomEffectTextureAtSlot, SetCustomEffectTexturesBulk, RegisterFontAtlas,
    UnregisterFontAtlas, SetText, ClearText, ClearFontText, ClearAllText,
    set_primitives, set_custom_primitives, clear_primitives, clear_all_primitives,
    register_custom_pixel_shader, set_custom_effect_texture_at_slot,
    clear_custom_effect_texture_at_slot, set_custom_effect_textures_bulk,
    register_font_atlas, unregister_font_atlas, set_text, clear_text,
    clear_font_text, clear_all_text, bufferVars, textVars
<1>2. CASE EffectPart
  BY <1>2 DEF EffectPart, SetFullscreenEffect, SetWidgetEffect, UpdateEffectConfig,
    ClearEffect, TriggerGlitchEffect, PauseOrResume, set_visibility, TimePasses,
    EffectCall, Quiet, bufferVars, textVars
<1>3. CASE RenderPart
  BY <1>3 DEF RenderPart, latch_all_queued_primitives, latch_all_queued_text,
    render_primitives, composite_overlays, render_ui, FirstFrame, HostDraws,
    latch_buffers, latch_text_buffers, Quiet, bufferVars, textVars
<1>4. CASE UNCHANGED vars
  BY <1>4 DEF vars, sceneVars
<1> QED BY <1>1, <1>2, <1>3, <1>4 DEF Next

LEMMA SizesTyped ==
  ASSUME NEW groups \in MaybeEntries, NEW k, NEW g \in Groups
  PROVE  SizeUnder(groups, k, g) \in Nat
BY SceneAssumption DEF MaybeEntries, Entries, SizeUnder

\* There are finitely many buffers, each within its bounds.
LEMMA BuffersGood ==
  ASSUME NEW groups \in MaybeEntries, NEW order \in OrdersOf(Groups)
  PROVE  /\ DOMAIN Buffers(groups, order) = KeysOf(groups)
         /\ GoodBuffers(Buffers(groups, order))
         /\ \A k \in KeysOf(groups) :
              Vertices(Buffers(groups, order)[k]) =
                AtMost(Vertices([g \in Groups |-> SizeUnder(groups, k, g)]), Capacity)
<1> DEFINE shown == {g \in Groups : groups[g] # None}
           toKey == [g \in shown |-> KeyOf(groups[g])]
<1>1. KeysOf(groups) \subseteq Keys
  BY DEF KeysOf, KeyOf, Keys, MaybeEntries, Entries
<1>2. IsFiniteSet(KeysOf(groups))
  <2>1. IsFiniteSet(shown)
    BY FS_Subset, SceneAssumption
  <2>2. toKey \in [shown -> KeysOf(groups)] /\ \A k \in KeysOf(groups) : \E g \in shown : toKey[g] = k
    BY DEF KeysOf
  <2> HIDE DEF shown, toKey
  <2>3. toKey \in Surjection(shown, KeysOf(groups))
    BY <2>2, Fun_IsSurj
  <2> QED BY <2>1, <2>3, FS_Surjection
<1>3. ASSUME NEW k \in KeysOf(groups)
      PROVE  /\ Vertices(Buffers(groups, order)[k]) =
                  AtMost(Vertices([g \in Groups |-> SizeUnder(groups, k, g)]), Capacity)
             /\ Vertices(Buffers(groups, order)[k]) <= Capacity
  <2>1. Buffers(groups, order)[k] = Taken(groups, k, order)
    BY DEF Buffers
  <2>2. \A g \in Groups : SizeUnder(groups, k, g) \in Nat
    BY SizesTyped
  <2>3. /\ Vertices(Taken(groups, k, order)) =
             AtMost(Vertices([g \in Groups |-> SizeUnder(groups, k, g)]), Capacity)
        /\ Vertices(Taken(groups, k, order)) <= Capacity
    BY <2>2, LatchTakesAll
  <2> QED BY <2>1, <2>3
<1>4. DOMAIN Buffers(groups, order) = KeysOf(groups)
  BY DEF Buffers
<1> QED BY <1>1, <1>2, <1>3, <1>4 DEF GoodBuffers

\* What latch_buffers leaves in a list.
LEMMA LatchedGood ==
  ASSUME SubmitInv, latch_buffers, NEW l \in Lists
  PROVE  /\ DOMAIN latched' = Lists
         /\ \E order \in OrdersOf(Groups) : latched'[l] = Buffers(submitted[l], order)
<1>1. PICK t \in Latchings("triangles"), n \in Latchings("lines"),
           tc \in Latchings("triangles_custom"), nc \in Latchings("lines_custom") :
        latched' = [triangles |-> t, lines |-> n, triangles_custom |-> tc, lines_custom |-> nc]
  BY DEF latch_buffers
<1>2. latched'[l] \in Latchings(l)
  BY <1>1 DEF Lists, PlainLists, CustomLists
<1>3. DOMAIN latched' = Lists
  BY <1>1 DEF Lists, PlainLists, CustomLists
<1> QED BY <1>2, <1>3 DEF Latchings

LEMMA StepLatch ==
  ASSUME SubmitInv, LatchInv, [Next]_vars
  PROVE  LatchInv'
<1>1. ASSUME NEW l \in Lists
      PROVE  /\ DOMAIN latched' = Lists /\ GoodBuffers(latched'[l])
             /\ \A k \in DOMAIN latched'[l] : ListEffect(l, k.effect)
  <2>1. CASE latched' = latched
    BY <2>1 DEF LatchInv
  <2>2. CASE latch_buffers
    <3>1. PICK order \in OrdersOf(Groups) : latched'[l] = Buffers(submitted[l], order)
      BY <2>2, LatchedGood
    <3>2. submitted[l] \in MaybeEntries
      BY DEF SubmitInv
    <3>3. ASSUME NEW k \in KeysOf(submitted[l]) PROVE ListEffect(l, k.effect)
      BY DEF KeysOf, KeyOf, SubmitInv
    <3> QED BY <2>2, <3>1, <3>2, <3>3, BuffersGood, LatchedGood
  <2> QED BY <2>1, <2>2, OnlyLatchesWrite
<1>2. ASSUME NEW f \in Fonts, text_latched'[f] # None PROVE GoodBuffers(text_latched'[f])
  <2>1. CASE text_latched' = text_latched
    BY <1>2, <2>1 DEF LatchInv
  <2>2. CASE latch_text_buffers
    <3>1. PICK orders \in [Fonts -> OrdersOf(Groups)] :
            text_latched' = [x \in Fonts |-> IF text_submitted[x] = None THEN None
                                             ELSE Buffers(text_submitted[x], orders[x])]
      BY <2>2 DEF latch_text_buffers
    <3>2. /\ text_submitted[f] \in MaybeEntries /\ orders[f] \in OrdersOf(Groups)
          /\ text_latched'[f] = Buffers(text_submitted[f], orders[f])
      BY <1>2, <3>1 DEF SubmitInv
    <3> QED BY <3>2, BuffersGood
  <2> QED BY <2>1, <2>2, OnlyLatchesWrite
<1>3. Lists # {}
  BY DEF Lists, PlainLists
<1> QED BY <1>1, <1>2, <1>3 DEF LatchInv, GoodBuffers

SceneInv == SubmitInv /\ EffectInv /\ LatchInv

LEMMA InitScene == Init => SceneInv
<1> SUFFICES ASSUME Init PROVE SceneInv
  OBVIOUS
<1> USE DEF Init, SceneInit
<1>1. SubmitInv
  BY DEF SubmitInv, MaybeEntries, NoGroups
<1>2. EffectInv
  <2>1. registered \subseteq Effects /\ fonts \subseteq Fonts
    OBVIOUS
  <2> QED BY <2>1 DEF EffectInv
<1>3. LatchInv
  <2>1. DOMAIN NoBuffers = {}
    BY DEF NoBuffers
  <2>2. GoodBuffers(NoBuffers)
    BY <2>1, FS_EmptySet DEF GoodBuffers
  <2>3. DOMAIN latched = Lists /\ \A l \in Lists : latched[l] = NoBuffers
    OBVIOUS
  <2>4. \A f \in Fonts : text_latched[f] = None
    OBVIOUS
  <2> QED BY <2>1, <2>2, <2>3, <2>4 DEF LatchInv
<1> QED BY <1>1, <1>2, <1>3 DEF SceneInv

LEMMA SceneCorrect == Spec => []SceneInv
<1>1. SceneInv /\ [Next]_vars => SceneInv'
  BY StepSubmit, StepEffect, StepLatch DEF SceneInv
<1> QED BY InitScene, <1>1, PTL DEF Spec

\* However many vertices the application submits, under whatever options, no draw copies
\* more of them into a vertex buffer than it holds.
THEOREM BuffersNeverOverflow == Spec => []WithinBuffer
<1>1. SceneInv => WithinBuffer
  BY DEF SceneInv, LatchInv, GoodBuffers, WithinBuffer
<1> QED BY SceneCorrect, <1>1, PTL

\* A latch takes every group that was submitted, up to the capacity, in whatever order
\* the hash map yields them, and between two latches the buffers stay as they are.
THEOREM LatchIsComplete == Spec => LatchIsSnapshot
<1>1. SceneInv /\ [Next]_vars => [TakesSnapshot]_vars
  <2> SUFFICES ASSUME SceneInv, [Next]_vars, latched' # latched,
                      NEW l \in Lists, NEW g \in Groups, submitted[l][g] # None
               PROVE  Vertices(latched'[l][KeyOf(submitted[l][g])]) =
                        AtMost(Vertices([h \in Groups |->
                          SizeUnder(submitted[l], KeyOf(submitted[l][g]), h)]), Capacity)
    BY DEF TakesSnapshot
  <2>1. latch_buffers /\ SubmitInv
    BY OnlyLatchesWrite DEF SceneInv
  <2>2. PICK order \in OrdersOf(Groups) : latched'[l] = Buffers(submitted[l], order)
    BY <2>1, LatchedGood
  <2>3. KeyOf(submitted[l][g]) \in KeysOf(submitted[l]) /\ submitted[l] \in MaybeEntries
    BY <2>1 DEF KeysOf, SubmitInv
  <2> QED BY <2>2, <2>3, BuffersGood
<1> QED BY SceneCorrect, <1>1, PTL DEF Spec, LatchIsSnapshot

-----------------------------------------------------------------------------
(* Drawing.                                                                *)

\* What one call binds, whatever it finds bound.
LEMMA BindRight ==
  ASSUME EffectInv, NEW c \in Bindings, NEW l \in Lists, NEW k \in Keys,
         ListEffect(l, k.effect), NEW hasView \in BOOLEAN
  PROVE  LET b == Bind(c, l, k, hasView)
             o == k.options
         IN  /\ b \in Bindings
             /\ b.depth = OwnDepth(o, hasView, l)
             /\ b.blend = IF o.opaque \/ (l \in CustomLists /\ k.effect \in OpaqueEffects)
                          THEN "opaque" ELSE "transparent"
             /\ b.topology = IF l \in {"lines", "lines_custom"} THEN "lines" ELSE "triangles"
             /\ b.ps = k.effect
             /\ b.vs = IF l # "triangles_custom" THEN c.vs
                       ELSE IF k.effect \in WithVertexShader THEN k.effect ELSE "builtin"
             /\ l \in CustomLists => \A s \in Slots :
                  textures[k.effect][s] # None => b.tex[s] = textures[k.effect][s]
<1> DEFINE b == Bind(c, l, k, hasView)
           depth == get_or_create_depth_stencil_state(k.options, hasView)
           raster == get_rasterizer_state(k.options)
<1>1. depth \in Depths /\ depth = OwnDepth(k.options, hasView, l)
  BY DEF get_or_create_depth_stencil_state, Depths, OwnDepth, Lists, PlainLists, CustomLists
<1>2. raster \in Rasters
  BY DEF get_rasterizer_state, Rasters
<1>3. k.effect \in Shaders
  BY DEF Keys
<1> HIDE DEF depth, raster
<1>4. CASE l = "triangles"
  <2>1. b = [c EXCEPT !.topology = "triangles", !.raster = raster,
                      !.blend = PlainBlend(k.options), !.depth = depth, !.ps = "builtin"]
    BY <1>4 DEF Bind, BindTriangles, depth, raster
  <2>2. k.effect = "builtin" /\ l \notin CustomLists
    BY <1>4 DEF ListEffect, PlainLists, CustomLists
  <2> HIDE DEF b
  <2> QED BY <1>1, <1>2, <1>4, <2>1, <2>2 DEF Bindings, PlainBlend, Blends, Shaders, b
<1>5. CASE l = "lines"
  <2>1. b = [c EXCEPT !.topology = "lines", !.raster = raster,
                      !.blend = PlainBlend(k.options), !.depth = depth, !.ps = "builtin"]
    BY <1>5 DEF Bind, BindTriangles, BindLines, Bindings, depth, raster
  <2>2. k.effect = "builtin" /\ l \notin CustomLists
    BY <1>5 DEF ListEffect, PlainLists, CustomLists
  <2> HIDE DEF b
  <2> QED BY <1>1, <1>2, <1>5, <2>1, <2>2 DEF Bindings, PlainBlend, Blends, Shaders, b
<1>6. CASE l \in CustomLists
  <2> DEFINE tex == BindEffectTextures(k.effect, c.tex)
             blend == CustomBlend(k.effect, k.options)
             lines == [c EXCEPT !.topology = "lines", !.raster = raster, !.blend = blend,
                                !.depth = depth, !.ps = k.effect, !.tex = tex]
  <2>1. k.effect \in Effects /\ l \notin PlainLists
    BY <1>6 DEF ListEffect, PlainLists, CustomLists
  <2>2. /\ tex \in [Slots -> Textures \cup Fonts \cup {"host", "overlay"}]
        /\ \A s \in Slots : textures[k.effect][s] # None => tex[s] = textures[k.effect][s]
    BY <2>1 DEF BindEffectTextures, Bindings, EffectInv
  <2>3. blend \in Blends /\ blend = IF k.options.opaque \/ (l \in CustomLists /\ k.effect \in OpaqueEffects)
                                    THEN "opaque" ELSE "transparent"
    BY <1>6 DEF CustomBlend, Blends
  <2>4. BindCustomLines(c, k, hasView) = lines
    BY DEF BindCustomLines, depth, raster
  <2> HIDE DEF tex, blend
  <2>5. /\ lines \in Bindings /\ lines.depth = depth /\ lines.blend = blend
        /\ lines.topology = "lines" /\ lines.ps = k.effect /\ lines.vs = c.vs /\ lines.tex = tex
    BY <1>1, <1>2, <1>3, <2>2, <2>3 DEF Bindings
  <2>6. CASE l = "lines_custom"
    <3>1. b = lines
      BY <2>4, <2>6 DEF Bind
    <3> HIDE DEF b, lines
    <3> QED BY <1>1, <2>2, <2>3, <2>5, <2>6, <3>1 DEF b
  <2>7. CASE l = "triangles_custom"
    <3> DEFINE vs == IF k.effect \in WithVertexShader THEN k.effect ELSE "builtin"
    <3>1. b = [lines EXCEPT !.topology = "triangles", !.vs = vs]
      BY <2>4, <2>7 DEF Bind, BindCustomTriangles
    <3>2. vs \in Shaders \cup {"host", "text", "quad"}
      BY <1>3 DEF Shaders
    <3> HIDE DEF b, lines, vs
    <3>3. /\ b \in Bindings /\ b.depth = depth /\ b.blend = blend /\ b.topology = "triangles"
          /\ b.ps = k.effect /\ b.vs = vs /\ b.tex = tex
      BY <2>5, <3>1, <3>2 DEF Bindings
    <3> QED BY <1>1, <2>2, <2>3, <2>7, <3>3 DEF b, vs
  <2> QED BY <1>6, <2>6, <2>7 DEF CustomLists
<1> QED BY <1>4, <1>5, <1>6 DEF Lists, PlainLists, CustomLists

\* Batches of the lists L, none twice, each list by priority, plain lists first.
InOrder(a, b) ==
  a.key # b.key /\ a.key.options.render_priority <= b.key.options.render_priority
GoodCalls(s, L) ==
  /\ s \in Seq([list : L, key : Keys])
  /\ \A i \in 1 .. Len(s) : s[i].key \in Batches(s[i].list)
  /\ \A i \in 1 .. Len(s) : \A j \in 1 .. i - 1 :
       /\ s[j].list = s[i].list => InOrder(s[j], s[i])
       /\ s[i].list \in PlainLists => s[j].list \in PlainLists

LEMMA PartGood ==
  ASSUME LatchInv, NEW l \in Lists, NEW order \in SortedOrders(Batches(l))
  PROVE  GoodCalls([i \in 1 .. Len(order) |-> OneCall(l, order[i])], {l})
<1> DEFINE n == Len(order)
           s == [i \in 1 .. n |-> OneCall(l, order[i])]
<1>1. Batches(l) \subseteq Keys /\ IsFiniteSet(Batches(l))
  <2>1. Batches(l) \subseteq DOMAIN latched[l]
    BY DEF Batches
  <2> QED BY <2>1, FS_Subset DEF LatchInv, GoodBuffers
<1>2. /\ order \in OrdersOf(Batches(l))
      /\ \A i, j \in 1 .. Cardinality(Batches(l)) :
           i < j => order[i].options.render_priority <= order[j].options.render_priority
  BY DEF SortedOrders
<1>3. /\ n \in Nat /\ n = Cardinality(Batches(l))
      /\ \A i \in 1 .. n : order[i] \in Batches(l)
      /\ \A i, j \in 1 .. n : order[i] = order[j] => i = j
  BY <1>1, <1>2, OrderVisitsAll
<1> HIDE DEF n
<1>4. \A i \in 1 .. n : s[i] = [list |-> l, key |-> order[i]]
  BY DEF OneCall
<1>5. s \in Seq([list : {l}, key : Keys]) /\ Len(s) = n
  <2> DEFINE C == [list : {l}, key : Keys]
  <2>1. s \in [1 .. n -> C]
    BY <1>1, <1>3 DEF OneCall
  <2> HIDE DEF s, C
  <2>2. s \in Seq(C) /\ Len(s) = n
    BY <1>3, <2>1
  <2> QED BY <2>2 DEF C
<1> HIDE DEF s
<1>5a. \A i \in 1 .. n : s[i].list = l /\ s[i].key = order[i]
  <2> SUFFICES ASSUME NEW i \in 1 .. n PROVE s[i].list = l /\ s[i].key = order[i]
    OBVIOUS
  <2>1. s[i] = [list |-> l, key |-> order[i]]
    BY <1>4
  <2> QED BY <2>1
<1>6. ASSUME NEW i \in 1 .. n, NEW j \in 1 .. i - 1 PROVE InOrder(s[j], s[i])
  <2>1. j \in 1 .. n /\ i \in 1 .. n /\ j < i
    BY <1>3
  <2>2. order[j] # order[i] /\ order[j].options.render_priority <= order[i].options.render_priority
    BY <1>2, <1>3, <2>1
  <2>3. s[i].key = order[i] /\ s[j].key = order[j]
    BY <1>5a, <2>1
  <2> QED BY <2>2, <2>3 DEF InOrder
<1>7. GoodCalls(s, {l})
  <2>1. \A i \in 1 .. n : s[i].list = l /\ s[i].key \in Batches(l)
    BY <1>3, <1>5a
  <2>2. \A i \in 1 .. n : \A j \in 1 .. i - 1 : j \in 1 .. n
    BY <1>3
  <2> QED BY <1>5, <1>6, <2>1, <2>2 DEF GoodCalls
<1> QED BY <1>7 DEF s, n

LEMMA JoinGood ==
  ASSUME NEW L1 \in SUBSET Lists, NEW L2 \in SUBSET Lists, L1 \cap L2 = {},
         L1 \subseteq PlainLists \/ L2 \subseteq CustomLists,
         NEW s, NEW t, GoodCalls(s, L1), GoodCalls(t, L2)
  PROVE  GoodCalls(s \o t, L1 \cup L2)
<1> DEFINE C == [list : L1 \cup L2, key : Keys]
           u == s \o t
<1>1. /\ s \in Seq([list : L1, key : Keys]) /\ t \in Seq([list : L2, key : Keys])
      /\ s \in Seq(C) /\ t \in Seq(C)
  <2>1. s \in Seq([list : L1, key : Keys]) /\ t \in Seq([list : L2, key : Keys])
    BY DEF GoodCalls
  <2> DEFINE S1 == [list : L1, key : Keys]
             S2 == [list : L2, key : Keys]
  <2>2. S1 \subseteq C /\ S2 \subseteq C
    OBVIOUS
  <2> HIDE DEF C, S1, S2
  <2>3. Seq(S1) \subseteq Seq(C)
    BY <2>2, SeqMonotonic
  <2>4. Seq(S2) \subseteq Seq(C)
    BY <2>2, SeqMonotonic
  <2>5. s \in Seq(S1) /\ t \in Seq(S2)
    BY <2>1 DEF S1, S2
  <2> QED BY <2>3, <2>4, <2>5 DEF S1, S2
<1>2. /\ Len(s) \in Nat /\ Len(t) \in Nat
      /\ \A i \in 1 .. Len(s) : s[i].list \in L1
      /\ \A i \in 1 .. Len(t) : t[i].list \in L2
  <2>1. \A i \in 1 .. Len(s) : s[i] \in [list : L1, key : Keys]
    BY <1>1, ElementOfSeq
  <2>2. \A i \in 1 .. Len(t) : t[i] \in [list : L2, key : Keys]
    BY <1>1, ElementOfSeq
  <2> QED BY <1>1, <2>1, <2>2, LenProperties
<1>3. /\ u \in Seq(C) /\ Len(u) = Len(s) + Len(t)
      /\ \A i \in 1 .. Len(u) : u[i] = IF i <= Len(s) THEN s[i] ELSE t[i - Len(s)]
  <2> HIDE DEF C
  <2> QED BY <1>1, ConcatProperties
<1> HIDE DEF C, u
<1>4. ASSUME NEW i \in 1 .. Len(u), NEW j \in 1 .. i - 1
      PROVE  /\ u[i].key \in Batches(u[i].list)
             /\ u[j].list = u[i].list => InOrder(u[j], u[i])
             /\ u[i].list \in PlainLists => u[j].list \in PlainLists
  <2>0. j \in 1 .. Len(u) /\ i \in Nat /\ j \in Nat /\ j < i
    BY <1>2, <1>3
  <2>1. CASE i <= Len(s)
    <3>1. i \in 1 .. Len(s) /\ u[i] = s[i] /\ u[j] = s[j]
      BY <1>2, <1>3, <2>0, <2>1
    <3> QED BY <3>1 DEF GoodCalls
  <2>2. CASE ~ (i <= Len(s))
    <3> DEFINE ii == i - Len(s)
               jj == j - Len(s)
    <3>1. ii \in 1 .. Len(t) /\ u[i] = t[ii]
      BY <1>2, <1>3, <2>0, <2>2
    <3>2. u[i].key \in Batches(u[i].list) /\ u[i].list \in L2
      BY <1>2, <3>1 DEF GoodCalls
    <3>3. CASE j <= Len(s)
      <4>1. j \in 1 .. Len(s) /\ u[j] = s[j]
        BY <1>2, <1>3, <2>0, <3>3
      <4>2. u[j].list \in L1
        BY <1>2, <4>1
      <4> QED BY <3>2, <4>2 DEF PlainLists, CustomLists
    <3>4. CASE ~ (j <= Len(s))
      <4>1. jj \in 1 .. ii - 1 /\ u[j] = t[jj]
        BY <1>2, <1>3, <2>0, <3>4
      <4> HIDE DEF ii, jj
      <4> QED BY <3>1, <3>2, <4>1 DEF GoodCalls
    <3> QED BY <3>3, <3>4
  <2> QED BY <2>1, <2>2
<1>5. ASSUME NEW i \in 1 .. Len(u) PROVE u[i].key \in Batches(u[i].list)
  <2>1. CASE i <= Len(s)
    BY <1>2, <1>3, <2>1 DEF GoodCalls
  <2>2. CASE ~ (i <= Len(s))
    <3>1. i - Len(s) \in 1 .. Len(t) /\ u[i] = t[i - Len(s)]
      BY <1>2, <1>3, <2>2
    <3> QED BY <3>1 DEF GoodCalls
  <2> QED BY <2>1, <2>2
<1> QED BY <1>3, <1>4, <1>5 DEF GoodCalls, C, u

LEMMA DrawOrderGood ==
  ASSUME LatchInv,
         NEW t \in SortedOrders(Batches("triangles")),
         NEW n \in SortedOrders(Batches("lines")),
         NEW tc \in SortedOrders(Batches("triangles_custom")),
         NEW nc \in SortedOrders(Batches("lines_custom"))
  PROVE  GoodCalls(DrawOrder(t, n, tc, nc), Lists)
<1> DEFINE s1 == [i \in 1 .. Len(t) |-> OneCall("triangles", t[i])]
           s2 == [i \in 1 .. Len(n) |-> OneCall("lines", n[i])]
           s3 == [i \in 1 .. Len(tc) |-> OneCall("triangles_custom", tc[i])]
           s4 == [i \in 1 .. Len(nc) |-> OneCall("lines_custom", nc[i])]
<1>1. /\ GoodCalls(s1, {"triangles"}) /\ GoodCalls(s2, {"lines"})
      /\ GoodCalls(s3, {"triangles_custom"}) /\ GoodCalls(s4, {"lines_custom"})
  <2>1. /\ "triangles" \in Lists /\ "lines" \in Lists
        /\ "triangles_custom" \in Lists /\ "lines_custom" \in Lists
    BY DEF Lists, PlainLists, CustomLists
  <2> HIDE DEF s1, s2, s3, s4
  <2>2. GoodCalls(s1, {"triangles"})
    BY <2>1, PartGood, Zenon DEF s1
  <2>3. GoodCalls(s2, {"lines"})
    BY <2>1, PartGood, Zenon DEF s2
  <2>4. GoodCalls(s3, {"triangles_custom"})
    BY <2>1, PartGood, Zenon DEF s3
  <2>5. GoodCalls(s4, {"lines_custom"})
    BY <2>1, PartGood, Zenon DEF s4
  <2> QED BY <2>2, <2>3, <2>4, <2>5
<1>2. DrawOrder(t, n, tc, nc) = ((s1 \o s2) \o s3) \o s4
  BY DEF DrawOrder
<1> HIDE DEF s1, s2, s3, s4
<1>3. GoodCalls(s1 \o s2, {"triangles"} \cup {"lines"})
  <2>1. {"triangles"} \in SUBSET Lists /\ {"lines"} \in SUBSET Lists
        /\ {"triangles"} \cap {"lines"} = {} /\ {"triangles"} \subseteq PlainLists
    BY DEF Lists, PlainLists
  <2> QED BY <1>1, <2>1, JoinGood, Zenon
<1>4. GoodCalls((s1 \o s2) \o s3, ({"triangles"} \cup {"lines"}) \cup {"triangles_custom"})
  <2>1. /\ {"triangles"} \cup {"lines"} \in SUBSET Lists /\ {"triangles_custom"} \in SUBSET Lists
        /\ ({"triangles"} \cup {"lines"}) \cap {"triangles_custom"} = {}
        /\ {"triangles_custom"} \subseteq CustomLists
    BY DEF Lists, PlainLists, CustomLists
  <2> QED BY <1>3, <1>1, <2>1, JoinGood, Zenon
<1>5. GoodCalls(((s1 \o s2) \o s3) \o s4,
                (({"triangles"} \cup {"lines"}) \cup {"triangles_custom"}) \cup {"lines_custom"})
  <2>1. /\ ({"triangles"} \cup {"lines"}) \cup {"triangles_custom"} \in SUBSET Lists
        /\ {"lines_custom"} \in SUBSET Lists
        /\ (({"triangles"} \cup {"lines"}) \cup {"triangles_custom"}) \cap {"lines_custom"} = {}
        /\ {"lines_custom"} \subseteq CustomLists
    BY DEF Lists, PlainLists, CustomLists
  <2> QED BY <1>4, <1>1, <2>1, JoinGood, Zenon
<1>6. (({"triangles"} \cup {"lines"}) \cup {"triangles_custom"}) \cup {"lines_custom"} = Lists
  BY DEF Lists, PlainLists, CustomLists
<1> QED BY <1>2, <1>5, <1>6

\* The bindings after each call follow their definition.
LEMMA BindingsUnfold ==
  ASSUME NEW c0, NEW calls, NEW hasView, Len(calls) \in Nat
  PROVE  BindingsAfter(c0, calls, hasView) =
           [i \in 0 .. Len(calls) |->
              IF i = 0 THEN c0
              ELSE Bind(BindingsAfter(c0, calls, hasView)[i - 1],
                        calls[i].list, calls[i].key, hasView)]
<1> DEFINE next(c, i) == Bind(c, calls[i].list, calls[i].key, hasView)
           binds(f, n) == f = [i \in 0 .. n |-> IF i = 0 THEN c0 ELSE next(f[i - 1], i)]
           T == {n \in Nat : \E f : binds(f, n)}
<1> HIDE DEF next
<1>1. 0 \in T
  <2>1. [i \in 0 .. 0 |-> c0] =
          [i \in 0 .. 0 |-> IF i = 0 THEN c0 ELSE next([j \in 0 .. 0 |-> c0][i - 1], i)]
    OBVIOUS
  <2> QED BY <2>1
<1>2. ASSUME NEW n \in Nat, n \in T PROVE n + 1 \in T
  <2>1. PICK f : binds(f, n)
    BY <1>2
  <2> DEFINE g == [i \in 0 .. n + 1 |-> IF i <= n THEN f[i] ELSE next(f[n], n + 1)]
  <2>2. \A i \in 0 .. n + 1 : g[i] = IF i = 0 THEN c0 ELSE next(g[i - 1], i)
    BY <2>1
  <2>3. binds(g, n + 1)
    BY <2>2
  <2> HIDE DEF g, binds
  <2> QED BY <2>3
<1>3. Len(calls) \in T
  BY <1>1, <1>2, SetInduction
<1>4. \E f : binds(f, Len(calls))
  BY <1>3
<1>5. BindingsAfter(c0, calls, hasView) = CHOOSE f : binds(f, Len(calls))
  BY DEF BindingsAfter, next
<1> HIDE DEF binds
<1>6. binds(BindingsAfter(c0, calls, hasView), Len(calls))
  BY <1>4, <1>5
<1> QED BY <1>6 DEF binds, next

\* The vertex shader stays the prologue's until an effect brings its own.
LEMMA BindingsTyped ==
  ASSUME LatchInv, EffectInv, NEW calls, GoodCalls(calls, Lists), NEW hasView \in BOOLEAN,
         NEW c0 \in Bindings, c0.vs = "builtin"
  PROVE  LET after == BindingsAfter(c0, calls, hasView)
         IN  /\ \A i \in 0 .. Len(calls) : after[i] \in Bindings
             /\ \A i \in 1 .. Len(calls) :
                  /\ after[i] = Bind(after[i - 1], calls[i].list, calls[i].key, hasView)
                  /\ calls[i].list \in PlainLists => after[i].vs = "builtin"
<1> DEFINE after == BindingsAfter(c0, calls, hasView)
           n == Len(calls)
           plain(i) == \A j \in 1 .. n : j <= i => calls[j].list \in PlainLists
           T == {i \in Nat : i <= n => after[i] \in Bindings
                                       /\ (plain(i) => after[i].vs = "builtin")}
<1>1. /\ n \in Nat
      /\ \A i \in 1 .. n : /\ calls[i].list \in Lists /\ calls[i].key \in Keys
                           /\ ListEffect(calls[i].list, calls[i].key.effect)
  <2>1. n \in Nat
    BY LenProperties DEF GoodCalls
  <2>2. ASSUME NEW i \in 1 .. n
        PROVE  /\ calls[i].list \in Lists /\ calls[i].key \in Keys
               /\ ListEffect(calls[i].list, calls[i].key.effect)
    <3>1. calls[i] \in [list : Lists, key : Keys]
      BY ElementOfSeq DEF GoodCalls
    <3>2. calls[i].key \in Batches(calls[i].list)
      BY DEF GoodCalls
    <3>3. calls[i].key \in DOMAIN latched[calls[i].list]
      BY <3>2 DEF Batches
    <3> QED BY <3>1, <3>3 DEF LatchInv
  <2> QED BY <2>1, <2>2
<1>2. /\ after[0] = c0
      /\ \A i \in 1 .. n : after[i] = Bind(after[i - 1], calls[i].list, calls[i].key, hasView)
  BY <1>1, BindingsUnfold
<1>3. \A i \in 1 .. n : calls[i].list \in PlainLists => plain(i)
  BY <1>1 DEF GoodCalls
<1> HIDE DEF after, n
<1>4. 0 \in T
  BY <1>2
<1>5. ASSUME NEW i \in Nat, i \in T PROVE i + 1 \in T
  <2> SUFFICES ASSUME i + 1 <= n
               PROVE  after[i + 1] \in Bindings
                      /\ (plain(i + 1) => after[i + 1].vs = "builtin")
    OBVIOUS
  <2> DEFINE l == calls[i + 1].list
             k == calls[i + 1].key
  <2>1. after[i] \in Bindings /\ (plain(i) => after[i].vs = "builtin")
    BY <1>1, <1>5
  <2>2. i + 1 \in 1 .. n
    BY <1>1
  <2>3. after[i + 1] = Bind(after[i], l, k, hasView)
    <3>1. after[i + 1] = Bind(after[(i + 1) - 1], l, k, hasView)
      BY <1>2, <2>2
    <3>2. (i + 1) - 1 = i
      OBVIOUS
    <3> QED BY <3>1, <3>2
  <2>4. l \in Lists /\ k \in Keys /\ ListEffect(l, k.effect)
    BY <1>1, <2>2
  <2> DEFINE b == Bind(after[i], l, k, hasView)
  <2>5. b \in Bindings /\ (l # "triangles_custom" => b.vs = after[i].vs)
    <3> HIDE DEF l, k
    <3> QED BY <2>1, <2>4, BindRight
  <2>6. plain(i + 1) => plain(i) /\ l \in PlainLists
    BY <2>2
  <2> HIDE DEF l, k, b, plain
  <2>7. l \in PlainLists => l # "triangles_custom"
    BY DEF PlainLists
  <2>8. after[i + 1] = b
    BY <2>3 DEF b
  <2> QED BY <2>1, <2>5, <2>6, <2>7, <2>8
<1>6. Nat \subseteq T
  <2> HIDE DEF T
  <2> QED BY <1>4, <1>5, SetInduction
<1>7. \A i \in 0 .. n : after[i] \in Bindings /\ (plain(i) => after[i].vs = "builtin")
  BY <1>1, <1>6
<1>8. \A i \in 1 .. n : i \in 0 .. n
  BY <1>1
<1> HIDE DEF plain
<1> QED BY <1>2, <1>3, <1>7, <1>8 DEF after, n

\* What DrawnAsAsked says of any calls.
DrawsRight(calls) ==
  \A i \in 1 .. Len(calls) :
    /\ BoundAsAsked(calls[i])
    /\ \A j \in 1 .. i - 1 : SortedTogether(calls[j], calls[i]) =>
         /\ calls[j].key # calls[i].key
         /\ calls[j].key.options.render_priority <= calls[i].key.options.render_priority
IsCalls(s) == \E n \in Nat : s = [i \in 1 .. n |-> s[i]]

LEMMA CallsAreSeq ==
  ASSUME NEW s, NEW n \in Nat, s = [i \in 1 .. n |-> s[i]]
  PROVE  Len(s) = n /\ s \in Seq({s[i] : i \in 1 .. n})
<1> DEFINE S == {s[i] : i \in 1 .. n}
<1>1. s \in [1 .. n -> S]
  OBVIOUS
<1> HIDE DEF S
<1>2. s \in Seq(S) /\ Len(s) = n
  BY <1>1
<1> QED BY <1>2 DEF S

LEMMA PrimitivesGood ==
  ASSUME LatchInv, EffectInv, NEW c \in Bindings, NEW hasView \in BOOLEAN,
         NEW d \in PrimitiveDraws(c, hasView)
  PROVE  /\ d.left \in Bindings
         /\ IsCalls(d.calls)
         /\ DrawsRight(d.calls)
         /\ \A i \in 1 .. Len(d.calls) : d.calls[i].list \in Lists
<1>1. CASE \A l \in Lists : DOMAIN latched[l] = {}
  <2>1. d = [calls |-> <<>>, left |-> c]
    BY <1>1 DEF PrimitiveDraws
  <2>2. d.calls = <<>> /\ d.left = c /\ Len(d.calls) = 0
    BY <2>1
  <2>3. d.calls = [i \in 1 .. 0 |-> d.calls[i]]
    BY <2>2
  <2> QED BY <2>2, <2>3 DEF IsCalls, DrawsRight
<1>2. CASE ~ \A l \in Lists : DOMAIN latched[l] = {}
  <2>1. PICK t \in SortedOrders(Batches("triangles")), n \in SortedOrders(Batches("lines")),
             tc \in SortedOrders(Batches("triangles_custom")),
             nc \in SortedOrders(Batches("lines_custom")) :
          LET calls == DrawOrder(t, n, tc, nc)
              after == BindingsAfter(Prologue(c, hasView), calls, hasView)
          IN d = [calls |-> [i \in 1 .. Len(calls) |->
                               [list |-> calls[i].list, key |-> calls[i].key,
                                view |-> hasView, bound |-> after[i]]],
                  left |-> Restored(after[Len(calls)], c)]
    BY <1>2 DEF PrimitiveDraws
  <2> DEFINE calls == DrawOrder(t, n, tc, nc)
             c0 == Prologue(c, hasView)
             after == BindingsAfter(c0, calls, hasView)
             m == Len(calls)
             call(i) == [list |-> calls[i].list, key |-> calls[i].key,
                         view |-> hasView, bound |-> after[i]]
  <2>2. GoodCalls(calls, Lists)
    BY DrawOrderGood
  <2>3. c0 \in Bindings /\ c0.vs = "builtin"
    BY DEF Prologue, Bindings, Shaders
  <2>4. /\ d.left = Restored(after[m], c)
        /\ d.calls = [i \in 1 .. m |-> call(i)]
    BY <2>1
  <2> HIDE DEF calls, c0
  <2>5. /\ \A i \in 0 .. m : after[i] \in Bindings
        /\ \A i \in 1 .. m :
             /\ after[i] = Bind(after[i - 1], calls[i].list, calls[i].key, hasView)
             /\ calls[i].list \in PlainLists => after[i].vs = "builtin"
    BY <2>2, <2>3, BindingsTyped
  <2>6. m \in Nat
    BY <2>2, LenProperties DEF GoodCalls
  <2> HIDE DEF after, m
  <2>7. d.left \in Bindings
    <3>1. after[m] \in Bindings
      BY <2>5, <2>6
    <3> QED BY <2>4, <3>1 DEF Restored, Bindings
  <2>8. \A i \in 1 .. m : d.calls[i] = call(i)
    BY <2>4
  <2>8a. IsCalls(d.calls) /\ Len(d.calls) = m
    <3>1. d.calls = [i \in 1 .. m |-> d.calls[i]]
      BY <2>4
    <3> QED BY <2>6, <3>1, CallsAreSeq DEF IsCalls
  <2>9. \A i \in 1 .. m : /\ d.calls[i].list = calls[i].list /\ d.calls[i].key = calls[i].key
                          /\ d.calls[i].view = hasView /\ d.calls[i].bound = after[i]
    <3> SUFFICES ASSUME NEW i \in 1 .. m
                 PROVE  /\ d.calls[i].list = calls[i].list /\ d.calls[i].key = calls[i].key
                        /\ d.calls[i].view = hasView /\ d.calls[i].bound = after[i]
      OBVIOUS
    <3>1. d.calls[i] = call(i)
      BY <2>8
    <3> QED BY <3>1
  <2>10. ASSUME NEW i \in 1 .. m
         PROVE  /\ calls[i].list \in Lists /\ calls[i].key \in Keys
                /\ ListEffect(calls[i].list, calls[i].key.effect)
    <3>1. calls[i] \in [list : Lists, key : Keys]
      BY <2>2, ElementOfSeq DEF GoodCalls, m
    <3>2. calls[i].key \in Batches(calls[i].list)
      BY <2>2 DEF GoodCalls, m
    <3>3. calls[i].key \in DOMAIN latched[calls[i].list]
      BY <3>2 DEF Batches
    <3> QED BY <3>1, <3>3 DEF LatchInv
  <2>11. ASSUME NEW i \in 1 .. m PROVE BoundAsAsked(d.calls[i])
    <3> DEFINE b == after[i]
               l == calls[i].list
               k == calls[i].key
               prev == after[i - 1]
    <3>1. b = Bind(prev, l, k, hasView) /\ (l \in PlainLists => b.vs = "builtin")
      BY <2>5
    <3>2. prev \in Bindings
      BY <2>5, <2>6
    <3>3. l \in Lists /\ k \in Keys /\ ListEffect(l, k.effect)
      BY <2>10
    <3>4. /\ d.calls[i].list = l /\ d.calls[i].key = k
          /\ d.calls[i].view = hasView /\ d.calls[i].bound = b
      BY <2>9
    <3> HIDE DEF b, l, k, prev
    <3>5. LET o == k.options
          IN  /\ b.depth = OwnDepth(o, hasView, l)
              /\ b.blend = IF o.opaque \/ (l \in CustomLists /\ k.effect \in OpaqueEffects)
                           THEN "opaque" ELSE "transparent"
              /\ b.topology = IF l \in {"lines", "lines_custom"} THEN "lines" ELSE "triangles"
              /\ b.ps = k.effect
              /\ b.vs = IF l # "triangles_custom" THEN prev.vs
                        ELSE IF k.effect \in WithVertexShader THEN k.effect ELSE "builtin"
              /\ l \in CustomLists => \A s \in Slots :
                   textures[k.effect][s] # None => b.tex[s] = textures[k.effect][s]
      BY <3>1, <3>2, <3>3, BindRight
    <3>6. l # "text"
      BY <3>3 DEF Lists, PlainLists, CustomLists
    <3> QED BY <3>1, <3>4, <3>5, <3>6 DEF BoundAsAsked
  <2>12. ASSUME NEW i \in 1 .. m, NEW j \in 1 .. i - 1, SortedTogether(d.calls[j], d.calls[i])
         PROVE  /\ d.calls[j].key # d.calls[i].key
                /\ d.calls[j].key.options.render_priority
                     <= d.calls[i].key.options.render_priority
    <3>1. j \in 1 .. m
      BY <2>6
    <3>2. calls[j].list = calls[i].list
      BY <2>9, <2>12, <3>1 DEF SortedTogether
    <3>3. InOrder(calls[j], calls[i])
      BY <2>2, <3>2 DEF GoodCalls, m
    <3> QED BY <2>9, <3>1, <3>3 DEF InOrder
  <2>13. \A i \in 1 .. m : d.calls[i].list \in Lists
    BY <2>9, <2>10
  <2> QED BY <2>7, <2>8a, <2>11, <2>12, <2>13 DEF DrawsRight
<1> QED BY <1>1, <1>2

\* There are finitely many text batches, each of a font and a key.
LEMMA TextBatchesFinite ==
  ASSUME LatchInv, EffectInv
  PROVE  IsFiniteSet(TextBatches) /\ TextBatches \subseteq Fonts \X Keys
<1> DEFINE F == {h \in fonts : text_latched[h] # None}
           part(f) == {f} \X DOMAIN text_latched[f]
           parts == {part(f) : f \in F}
<1>1. IsFiniteSet(F) /\ F \subseteq Fonts
  BY FS_Subset, SceneAssumption DEF EffectInv
<1>2. ASSUME NEW f \in F PROVE IsFiniteSet(part(f)) /\ part(f) \subseteq Fonts \X Keys
  <2>1. IsFiniteSet(DOMAIN text_latched[f]) /\ DOMAIN text_latched[f] \subseteq Keys
    BY <1>1 DEF LatchInv, GoodBuffers
  <2>2. IsFiniteSet({f})
    BY FS_Singleton
  <2> QED BY <1>1, <2>1, <2>2, FS_Product
<1> HIDE DEF F, part
<1>3. IsFiniteSet(parts)
  <2> DEFINE p == [f \in F |-> part(f)]
  <2>1. p \in [F -> parts] /\ \A q \in parts : \E f \in F : p[f] = q
    OBVIOUS
  <2> HIDE DEF p, parts
  <2>2. p \in Surjection(F, parts)
    BY <2>1, Fun_IsSurj
  <2> QED BY <1>1, <2>2, FS_Surjection
<1>4. \A q \in parts : IsFiniteSet(q) /\ q \subseteq Fonts \X Keys
  BY <1>2
<1> HIDE DEF parts
<1>5. IsFiniteSet(UNION parts) /\ UNION parts \subseteq Fonts \X Keys
  BY <1>3, <1>4, FS_UNION
<1>6. TextBatches = UNION parts
  BY DEF TextBatches, parts, part, F
<1> QED BY <1>5, <1>6

\* The bindings after each batch of text, as TextDraws has them.
TextBindings(c, order, hasView) ==
  LET after[i \in 0 .. Len(order)] ==
        IF i = 0 THEN [c EXCEPT !.topology = "triangles", !.vs = "text", !.ps = "text"]
        ELSE BindText(after[i - 1], order[i][1], order[i][2], hasView)
  IN after

LEMMA TextUnfolds ==
  ASSUME NEW c, NEW order, NEW hasView, Len(order) \in Nat
  PROVE  TextBindings(c, order, hasView) =
           [i \in 0 .. Len(order) |->
              IF i = 0 THEN [c EXCEPT !.topology = "triangles", !.vs = "text", !.ps = "text"]
              ELSE BindText(TextBindings(c, order, hasView)[i - 1],
                            order[i][1], order[i][2], hasView)]
<1> DEFINE c0 == [c EXCEPT !.topology = "triangles", !.vs = "text", !.ps = "text"]
           next(b, i) == BindText(b, order[i][1], order[i][2], hasView)
           binds(f, n) == f = [i \in 0 .. n |-> IF i = 0 THEN c0 ELSE next(f[i - 1], i)]
           T == {n \in Nat : \E f : binds(f, n)}
<1>5. TextBindings(c, order, hasView) = CHOOSE f : binds(f, Len(order))
  BY DEF TextBindings
<1> HIDE DEF next, c0
<1>1. 0 \in T
  <2>1. [i \in 0 .. 0 |-> c0] =
          [i \in 0 .. 0 |-> IF i = 0 THEN c0 ELSE next([j \in 0 .. 0 |-> c0][i - 1], i)]
    OBVIOUS
  <2> QED BY <2>1
<1>2. ASSUME NEW n \in Nat, n \in T PROVE n + 1 \in T
  <2>1. PICK f : binds(f, n)
    BY <1>2
  <2> DEFINE g == [i \in 0 .. n + 1 |-> IF i <= n THEN f[i] ELSE next(f[n], n + 1)]
  <2>2. \A i \in 0 .. n + 1 : g[i] = IF i = 0 THEN c0 ELSE next(g[i - 1], i)
    BY <2>1
  <2>3. binds(g, n + 1)
    BY <2>2
  <2> HIDE DEF g, binds
  <2> QED BY <2>3
<1>3. Len(order) \in T
  BY <1>1, <1>2, SetInduction
<1>4. \E f : binds(f, Len(order))
  BY <1>3
<1> HIDE DEF binds
<1>6. binds(TextBindings(c, order, hasView), Len(order))
  BY <1>4, <1>5
<1> QED BY <1>6 DEF binds, next, c0

\* What one batch of text binds.
LEMMA TextBindsRight ==
  ASSUME NEW c \in Bindings, NEW f \in Fonts, NEW k \in Keys, NEW hasView \in BOOLEAN
  PROVE  LET b == BindText(c, f, k, hasView)
         IN  /\ b \in Bindings
             /\ b.depth = OwnDepth(k.options, hasView, "text")
             /\ b.blend = IF k.options.opaque THEN "opaque" ELSE "transparent"
             /\ b.topology = c.topology /\ b.vs = c.vs /\ b.ps = c.ps
             /\ 0 \in Slots => b.tex[0] = f
<1> DEFINE depth == TextDepth(k.options, hasView)
           blend == PlainBlend(k.options)
           tex == [s \in Slots |-> IF s = 0 THEN f ELSE c.tex[s]]
           dsv == IF hasView THEN "given" ELSE "absent"
           b == BindText(c, f, k, hasView)
<1>1. depth \in Depths /\ depth = OwnDepth(k.options, hasView, "text")
  BY DEF TextDepth, Depths, OwnDepth
<1>2. blend \in Blends /\ blend = IF k.options.opaque THEN "opaque" ELSE "transparent"
  BY DEF PlainBlend, Blends
<1>3. tex \in [Slots -> Textures \cup Fonts \cup {"host", "overlay"}]
      /\ (0 \in Slots => tex[0] = f)
  BY DEF Bindings
<1>4. dsv \in {"host", "given", "absent"} /\ "none" \in Rasters
  BY DEF Rasters
<1>5. b = [c EXCEPT !.raster = "none", !.dsv = dsv, !.blend = blend, !.depth = depth,
                    !.tex = tex]
  BY DEF BindText, Bindings
<1> HIDE DEF depth, blend, tex, dsv, b
<1>6. /\ b \in Bindings /\ b.depth = depth /\ b.blend = blend /\ b.tex = tex
      /\ b.topology = c.topology /\ b.vs = c.vs /\ b.ps = c.ps
  BY <1>1, <1>2, <1>3, <1>4, <1>5 DEF Bindings
<1> QED BY <1>1, <1>2, <1>3, <1>6 DEF b

LEMMA TextGood ==
  ASSUME LatchInv, EffectInv, NEW c \in Bindings, NEW hasView \in BOOLEAN,
         NEW d \in TextDraws(c, hasView)
  PROVE  /\ d.left \in Bindings
         /\ IsCalls(d.calls)
         /\ DrawsRight(d.calls)
         /\ \A i \in 1 .. Len(d.calls) : d.calls[i].list = "text"
<1>1. CASE \A f \in Fonts : text_latched[f] = None
  <2>1. d = [calls |-> <<>>, left |-> c]
    BY <1>1 DEF TextDraws
  <2>2. d.calls = <<>> /\ d.left = c /\ Len(d.calls) = 0
    BY <2>1
  <2>3. d.calls = [i \in 1 .. 0 |-> d.calls[i]]
    BY <2>2
  <2> QED BY <2>2, <2>3 DEF IsCalls, DrawsRight
<1>2. CASE ~ \A f \in Fonts : text_latched[f] = None
  <2>1. PICK order \in TextOrders :
          d = [calls |-> [i \in 1 .. Len(order) |->
                            [list |-> "text", font |-> order[i][1], key |-> order[i][2],
                             view |-> hasView,
                             bound |-> TextBindings(c, order, hasView)[i]]],
               left |-> Restored(TextBindings(c, order, hasView)[Len(order)], c)]
    BY <1>2 DEF TextDraws, TextBindings
  <2> DEFINE after == TextBindings(c, order, hasView)
             m == Len(order)
             call(i) == [list |-> "text", font |-> order[i][1], key |-> order[i][2],
                         view |-> hasView, bound |-> after[i]]
             c0 == [c EXCEPT !.topology = "triangles", !.vs = "text", !.ps = "text"]
  <2>2. /\ IsFiniteSet(TextBatches) /\ TextBatches \subseteq Fonts \X Keys
        /\ order \in OrdersOf(TextBatches)
    BY TextBatchesFinite DEF TextOrders
  <2>3. /\ m \in Nat /\ DOMAIN order = 1 .. m
        /\ \A i \in 1 .. m : order[i] \in TextBatches
        /\ \A i, j \in 1 .. m : order[i] = order[j] => i = j
    BY <2>2, OrderVisitsAll
  <2>4. /\ d.left = Restored(after[m], c)
        /\ d.calls = [i \in 1 .. m |-> call(i)]
    BY <2>1
  <2>5. /\ after[0] = c0
        /\ \A i \in 1 .. m : after[i] = BindText(after[i - 1], order[i][1], order[i][2], hasView)
    <3>1. after = [i \in 0 .. m |->
                    IF i = 0 THEN c0
                    ELSE BindText(after[i - 1], order[i][1], order[i][2], hasView)]
      BY <2>3, TextUnfolds
    <3>2. 0 \in 0 .. m /\ \A i \in 1 .. m : i \in 0 .. m /\ i # 0
      BY <2>3
    <3> HIDE DEF after, m, c0
    <3> QED BY <3>1, <3>2
  <2>6. ASSUME NEW i \in 1 .. m
        PROVE  order[i][1] \in Fonts /\ order[i][2] \in Keys /\ order[i] = <<order[i][1], order[i][2]>>
    BY <2>2, <2>3
  <2>7. c0 \in Bindings /\ c0.vs = "text" /\ c0.ps = "text" /\ c0.topology = "triangles"
    BY DEF Bindings
  <2> HIDE DEF after, m, c0
  <2> DEFINE good(b) == b \in Bindings /\ b.vs = "text" /\ b.ps = "text"
                        /\ b.topology = "triangles"
             T == {i \in Nat : i <= m => good(after[i])}
  <2>8. 0 \in T
    BY <2>5, <2>7
  <2>9. ASSUME NEW i \in Nat, i \in T PROVE i + 1 \in T
    <3> SUFFICES ASSUME i + 1 <= m PROVE good(after[i + 1])
      OBVIOUS
    <3>1. good(after[i]) /\ i + 1 \in 1 .. m
      BY <2>3, <2>9
    <3> DEFINE f == order[i + 1][1]
               k == order[i + 1][2]
    <3>2. after[i + 1] = BindText(after[i], f, k, hasView)
      <4>1. after[i + 1] = BindText(after[(i + 1) - 1], f, k, hasView)
        BY <2>5, <3>1
      <4>2. (i + 1) - 1 = i
        OBVIOUS
      <4> QED BY <4>1, <4>2
    <3>3. f \in Fonts /\ k \in Keys
      BY <2>6, <3>1
    <3> HIDE DEF f, k
    <3> QED BY <3>1, <3>2, <3>3, TextBindsRight
  <2>10. \A i \in 0 .. m : good(after[i])
    <3>1. Nat \subseteq T
      <4> HIDE DEF T
      <4> QED BY <2>8, <2>9, SetInduction
    <3> QED BY <2>3, <3>1
  <2>11. d.left \in Bindings
    <3>1. after[m] \in Bindings
      BY <2>3, <2>10
    <3> QED BY <2>4, <3>1 DEF Restored, Bindings
  <2>12. IsCalls(d.calls) /\ Len(d.calls) = m
    <3>1. d.calls = [i \in 1 .. m |-> d.calls[i]]
      BY <2>4
    <3> QED BY <2>3, <3>1, CallsAreSeq DEF IsCalls
  <2>13. ASSUME NEW i \in 1 .. m
         PROVE  /\ d.calls[i].list = "text" /\ d.calls[i].font = order[i][1]
                /\ d.calls[i].key = order[i][2] /\ d.calls[i].view = hasView
                /\ d.calls[i].bound = after[i]
    <3>1. d.calls[i] = call(i)
      BY <2>4
    <3> QED BY <3>1
  <2>14. ASSUME NEW i \in 1 .. m PROVE BoundAsAsked(d.calls[i])
    <3> DEFINE f == order[i][1]
               k == order[i][2]
               b == after[i]
               prev == after[i - 1]
    <3>1. b = BindText(prev, f, k, hasView) /\ f \in Fonts /\ k \in Keys
      BY <2>5, <2>6
    <3>2. good(prev)
      BY <2>3, <2>10
    <3>3. /\ d.calls[i].list = "text" /\ d.calls[i].font = f /\ d.calls[i].key = k
          /\ d.calls[i].view = hasView /\ d.calls[i].bound = b
      BY <2>13
    <3> HIDE DEF f, k, b, prev
    <3>4. /\ b.depth = OwnDepth(k.options, hasView, "text")
          /\ b.blend = IF k.options.opaque THEN "opaque" ELSE "transparent"
          /\ b.topology = "triangles" /\ b.vs = "text" /\ b.ps = "text"
          /\ 0 \in Slots => b.tex[0] = f
      BY <3>1, <3>2, TextBindsRight
    <3>5. "text" \notin Lists /\ "text" \notin {"lines", "lines_custom", "triangles_custom"}
      BY DEF Lists, PlainLists, CustomLists
    <3> QED BY <3>3, <3>4, <3>5 DEF BoundAsAsked, Lists
  <2>15. ASSUME NEW i \in 1 .. m, NEW j \in 1 .. i - 1, SortedTogether(d.calls[j], d.calls[i])
         PROVE  /\ d.calls[j].key # d.calls[i].key
                /\ d.calls[j].key.options.render_priority
                     <= d.calls[i].key.options.render_priority
    <3>1. j \in 1 .. m /\ j < i /\ j # i
      BY <2>3
    <3>2. order[j][1] = order[i][1]
      BY <2>13, <2>15, <3>1 DEF SortedTogether
    <3>3. order[j][2].options.render_priority <= order[i][2].options.render_priority
      BY <2>3, <3>1, <3>2 DEF TextOrders
    <3>4. order[j][2] # order[i][2]
      <4>1. order[i] = <<order[i][1], order[i][2]>> /\ order[j] = <<order[j][1], order[j][2]>>
        BY <2>6, <3>1
      <4>2. order[i] # order[j]
        BY <2>3, <3>1
      <4> QED BY <3>2, <4>1, <4>2
    <3> QED BY <2>13, <3>1, <3>3, <3>4
  <2>16. \A i \in 1 .. m : d.calls[i].list = "text"
    BY <2>13
  <2> QED BY <2>11, <2>12, <2>14, <2>15, <2>16 DEF DrawsRight
<1> QED BY <1>1, <1>2

\* The primitives' calls and the text's after them.
LEMMA ThenText ==
  ASSUME NEW s, NEW t, IsCalls(s), IsCalls(t), DrawsRight(s), DrawsRight(t),
         \A i \in 1 .. Len(s) : s[i].list \in Lists,
         \A i \in 1 .. Len(t) : t[i].list = "text"
  PROVE  DrawsRight(s \o t)
<1>1. PICK m \in Nat : s = [i \in 1 .. m |-> s[i]]
  BY DEF IsCalls
<1>2. PICK n \in Nat : t = [i \in 1 .. n |-> t[i]]
  BY DEF IsCalls
<1> DEFINE A == {s[i] : i \in 1 .. m}
           B == {t[i] : i \in 1 .. n}
           C == A \cup B
           u == s \o t
<1>3. Len(s) = m /\ s \in Seq(A) /\ Len(t) = n /\ t \in Seq(B)
  BY <1>1, <1>2, CallsAreSeq
<1>4. /\ u \in Seq(C) /\ Len(u) = m + n
      /\ \A i \in 1 .. Len(u) : u[i] = IF i <= m THEN s[i] ELSE t[i - m]
  <2>1. A \subseteq C /\ B \subseteq C
    OBVIOUS
  <2> HIDE DEF A, B, C
  <2>2. s \in Seq(C) /\ t \in Seq(C)
    BY <1>3, <2>1, SeqMonotonic
  <2> QED BY <1>3, <2>2, ConcatProperties
<1> HIDE DEF A, B, C, u
<1>5. "text" \notin Lists
  BY DEF Lists, PlainLists, CustomLists
<1>6. ASSUME NEW i \in 1 .. Len(u)
      PROVE  /\ BoundAsAsked(u[i])
             /\ \A j \in 1 .. i - 1 : SortedTogether(u[j], u[i]) =>
                  /\ u[j].key # u[i].key
                  /\ u[j].key.options.render_priority <= u[i].key.options.render_priority
  <2>1. CASE i <= m
    <3>1. /\ i \in 1 .. Len(s) /\ u[i] = s[i]
          /\ \A j \in 1 .. i - 1 : u[j] = s[j]
      BY <1>3, <1>4, <2>1
    <3> QED BY <3>1 DEF DrawsRight
  <2>2. CASE ~ (i <= m)
    <3> DEFINE ii == i - m
    <3>1. ii \in 1 .. Len(t) /\ u[i] = t[ii]
      BY <1>3, <1>4, <2>2
    <3>2. BoundAsAsked(u[i])
      BY <3>1 DEF DrawsRight
    <3>3. ASSUME NEW j \in 1 .. i - 1, SortedTogether(u[j], u[i])
          PROVE  /\ u[j].key # u[i].key
                 /\ u[j].key.options.render_priority <= u[i].key.options.render_priority
      <4>1. CASE j <= m
        <5>1. j \in 1 .. Len(s) /\ u[j] = s[j]
          BY <1>3, <1>4, <4>1
        <5>2. u[j].list \in Lists /\ u[i].list = "text"
          BY <3>1, <5>1
        <5> QED BY <1>5, <3>3, <5>2 DEF SortedTogether
      <4>2. CASE ~ (j <= m)
        <5> DEFINE jj == j - m
        <5>1. jj \in 1 .. ii - 1 /\ u[j] = t[jj]
          BY <1>3, <1>4, <4>2
        <5> HIDE DEF ii, jj
        <5> QED BY <3>1, <3>3, <5>1 DEF DrawsRight
      <4> QED BY <4>1, <4>2
    <3> HIDE DEF ii
    <3> QED BY <3>2, <3>3
  <2> QED BY <2>1, <2>2
<1> QED BY <1>6 DEF DrawsRight, u

LEMMA SceneGood ==
  ASSUME LatchInv, EffectInv, ctx \in Bindings, NEW hasView \in BOOLEAN,
         NEW d \in SceneDraws(hasView)
  PROVE  d.left \in Bindings /\ DrawsRight(d.calls)
<1>1. PICK p \in PrimitiveDraws(ctx, hasView) :
        \E t \in TextDraws(p.left, hasView) :
          d = [calls |-> p.calls \o t.calls, left |-> t.left]
  BY DEF SceneDraws
<1>2. /\ p.left \in Bindings /\ IsCalls(p.calls) /\ DrawsRight(p.calls)
      /\ \A i \in 1 .. Len(p.calls) : p.calls[i].list \in Lists
  BY PrimitivesGood
<1>3. PICK t \in TextDraws(p.left, hasView) :
        d = [calls |-> p.calls \o t.calls, left |-> t.left]
  BY <1>1
<1>4. /\ t.left \in Bindings /\ IsCalls(t.calls) /\ DrawsRight(t.calls)
      /\ \A i \in 1 .. Len(t.calls) : t.calls[i].list = "text"
  BY <1>2, TextGood
<1>5. DrawsRight(p.calls \o t.calls)
  BY <1>2, <1>4, ThenText
<1>6. d.left = t.left /\ d.calls = p.calls \o t.calls
  BY <1>3
<1> QED BY <1>4, <1>5, <1>6

DrawInv == ctx \in Bindings /\ DrawnAsAsked

LEMMA HostTyped == HostBindings \in Bindings
BY DEF HostBindings, Bindings, Blends, Depths, Rasters

LEMMA QuadTyped == ASSUME NEW c \in Bindings PROVE AfterQuad(c) \in Bindings
BY DEF AfterQuad, Bindings

LEMMA NothingDrawn == ASSUME drawn' = <<>> PROVE DrawnAsAsked'
BY DEF DrawnAsAsked

\* Only the host's own drawing, the quad and the two draws touch the context.
LEMMA StepDraw ==
  ASSUME SceneInv, DrawInv, [Next]_vars
  PROVE  DrawInv'
<1>1. CASE ScenePart
  <2>1. drawn' = <<>> /\ ctx' = ctx
    BY <1>1 DEF ScenePart, SetPrimitives, SetCustomPrimitives, ClearPrimitives,
      ClearAllPrimitives, RegisterCustomPixelShader, SetCustomEffectTextureAtSlot,
      ClearCustomEffectTextureAtSlot, SetCustomEffectTexturesBulk, RegisterFontAtlas,
      UnregisterFontAtlas, SetText, ClearText, ClearFontText, ClearAllText,
      set_primitives, set_custom_primitives, clear_primitives, clear_all_primitives,
      register_custom_pixel_shader, set_custom_effect_texture_at_slot,
      clear_custom_effect_texture_at_slot, set_custom_effect_textures_bulk,
      register_font_atlas, unregister_font_atlas, set_text, clear_text,
      clear_font_text, clear_all_text
  <2> QED BY <2>1, NothingDrawn DEF DrawInv
<1>2. CASE EffectPart
  <2>1. drawn' = <<>> /\ ctx' = ctx
    BY <1>2 DEF EffectPart, SetFullscreenEffect, SetWidgetEffect, UpdateEffectConfig,
      ClearEffect, TriggerGlitchEffect, PauseOrResume, set_visibility, TimePasses, EffectCall
  <2> QED BY <2>1, NothingDrawn DEF DrawInv
<1>3. CASE latch_all_queued_primitives \/ latch_all_queued_text \/ FirstFrame
  <2>1. drawn' = <<>> /\ ctx' = ctx
    BY <1>3 DEF latch_all_queued_primitives, latch_all_queued_text, FirstFrame,
      latch_buffers, latch_text_buffers
  <2> QED BY <2>1, NothingDrawn DEF DrawInv
<1>4. CASE render_ui
  <2>1. drawn' = <<>> /\ ctx' = AfterQuad(ctx)
    BY <1>4 DEF render_ui
  <2> QED BY <2>1, NothingDrawn, QuadTyped DEF DrawInv
<1>5. CASE HostDraws
  <2>1. drawn' = <<>> /\ ctx' = HostBindings
    BY <1>5 DEF HostDraws
  <2> QED BY <2>1, NothingDrawn, HostTyped DEF DrawInv
<1>6. ASSUME NEW hasView \in BOOLEAN, NEW d \in SceneDraws(hasView), drawn' = d.calls,
             textures' = textures
      PROVE  d.left \in Bindings /\ DrawnAsAsked'
  <2>1. d.left \in Bindings /\ DrawsRight(d.calls)
    BY SceneGood DEF SceneInv, DrawInv
  <2> QED BY <2>1, <1>6 DEF DrawsRight, DrawnAsAsked, BoundAsAsked
<1>7. CASE render_primitives
  <2>1. PICK hasView \in BOOLEAN : \E d \in SceneDraws(hasView) : drawn' = d.calls /\ ctx' = d.left
    BY <1>7 DEF render_primitives
  <2>2. PICK d \in SceneDraws(hasView) : drawn' = d.calls /\ ctx' = d.left
    BY <2>1
  <2>3. textures' = textures
    BY <1>7 DEF render_primitives, Quiet, effectVars
  <2> QED BY <1>6, <2>2, <2>3 DEF DrawInv
<1>8. CASE composite_overlays
  <2>1. PICK d \in SceneDraws(FALSE) : drawn' = d.calls /\ ctx' = AfterQuad(d.left)
    BY <1>8 DEF composite_overlays
  <2>2. textures' = textures
    BY <1>8 DEF composite_overlays, Quiet, effectVars
  <2> QED BY <1>6, <2>1, <2>2, QuadTyped DEF DrawInv
<1>9. CASE UNCHANGED vars
  <2>1. drawn' = drawn /\ ctx' = ctx /\ textures' = textures
    BY <1>9 DEF vars, sceneVars
  <2> QED BY <2>1 DEF DrawInv, DrawnAsAsked, BoundAsAsked
<1> QED BY <1>1, <1>2, <1>3, <1>4, <1>5, <1>7, <1>8, <1>9 DEF Next, RenderPart

\* Whatever the hash maps' order and whatever the host or an earlier batch left bound,
\* every draw call runs with its own batch's states, shaders and textures, and the calls
\* of a list, or of a font, go by priority and draw each buffer once.
THEOREM CallsAreAsAsked == Spec => []DrawnAsAsked
<1>1. Init => DrawInv
  BY HostTyped DEF Init, SceneInit, DrawInv, DrawnAsAsked
<1>2. SceneInv /\ DrawInv /\ [Next]_vars => DrawInv'
  BY StepDraw
<1>3. DrawInv => DrawnAsAsked
  BY DEF DrawInv
<1> QED BY SceneCorrect, <1>1, <1>2, <1>3, PTL DEF Spec
=============================================================================
