----------------------------- MODULE SceneDraw -----------------------------
(***************************************************************************)
(* The 3D part of one overlay: Primitive3DRenderer and Text3DRenderer.     *)
(* The application submits groups of vertices under an id, a latch copies  *)
(* them into the render buffers, and a draw turns each buffer into draw    *)
(* calls on the host's D3D11 context, whose bindings persist from call to  *)
(* call.  This module has the state and the operations; Compositor says    *)
(* when the manager runs them.                                             *)
(***************************************************************************)
EXTENDS Naturals, Sequences, FiniteSets

CONSTANTS
  Groups,       \* group ids
  Effects,      \* ids of custom effects (register_custom_pixel_shader)
  Fonts,        \* ids of font atlases
  Options,      \* PrimitiveOptions the application uses: records of OptionType
  Slots,        \* shader resource slots
  Textures,     \* textures an effect may be given
  WithVertexShader,   \* the effects registered with vs_bytes
  OpaqueEffects,      \* the effects registered with BlendMode::Opaque
  Sizes,        \* lengths of the vertex slices the application passes
  Capacity,     \* vertices a vertex buffer holds (MAX_VERTEX_BUFFER_CAPACITY)
  None          \* no entry, no texture

OptionType == [ignore_depth_stencil : BOOLEAN, write_to_depth : BOOLEAN,
               cull_back : BOOLEAN, wireframe : BOOLEAN, opaque : BOOLEAN,
               render_priority : Nat]

ASSUME SceneAssumption ==
  /\ Options \subseteq OptionType
  /\ WithVertexShader \subseteq Effects
  /\ OpaqueEffects \subseteq Effects
  /\ Capacity \in Nat \ {0} /\ Sizes \subseteq Nat
  /\ None \notin Textures \cup Effects
  /\ Effects \cap {"builtin", "text", "host"} = {}
  /\ Slots \subseteq Nat
  /\ IsFiniteSet(Groups) /\ IsFiniteSet(Fonts)

(* The maps of Primitive3DRenderer: submit_groups_* and render_buffer_*.   *)
PlainLists == {"triangles", "lines"}
CustomLists == {"triangles_custom", "lines_custom"}
Lists == PlainLists \cup CustomLists
Shaders == Effects \cup {"builtin"}
Keys == [effect : Shaders, options : Options]
Entries == [effect : Shaders, options : Options, size : Sizes \ {0}]

VARIABLES
  submitted,      \* [Lists -> [Groups -> Entries \cup {None}]]
  latched,        \* by list, the vertices taken of each group under each key
  registered,     \* custom_effects: the effects that exist
  textures,       \* [Effects -> [Slots -> Textures \cup {None}]]
  fonts,          \* font_atlases
  text_submitted, \* submit_groups by font: None or [Groups -> entry or None]
  text_latched,   \* render_buffers by font: None or the entries latched
  ctx,            \* in Bindings: those of the host's device context
  drawn           \* the draw calls of the last step

sceneVars == <<submitted, latched, registered, textures, fonts,
               text_submitted, text_latched, ctx, drawn>>
bufferVars == <<submitted, latched>>
effectVars == <<registered, textures>>
textVars == <<fonts, text_submitted, text_latched>>

(* The bindings a draw reads or sets.  "host" is whatever the host bound.  *)
Blends == {"host", "transparent", "opaque"}
Depths == {"host", "disabled", "read", "write"}
Rasters == {"host", "none", "back", "wireframe", "back_wireframe"}
Bindings == [blend : Blends, depth : Depths, raster : Rasters,
             dsv : {"host", "given", "absent"},
             topology : {"host", "triangles", "lines", "strip"},
             vs : Shaders \cup {"host", "text", "quad"},
             ps : Shaders \cup {"host", "text", "quad"},
             tex : [Slots -> Textures \cup Fonts \cup {"host", "overlay"}]]
HostBindings == [blend |-> "host", depth |-> "host", raster |-> "host",
                 dsv |-> "host", topology |-> "host", vs |-> "host", ps |-> "host",
                 tex |-> [s \in Slots |-> "host"]]

NoGroups == [g \in Groups |-> None]
NoBuffers == [k \in {} |-> NoGroups]

\* a fresh overlay, or one whose application has registered its effects and
\* atlases and has given some effects their textures
SceneInit ==
  /\ submitted = [l \in Lists |-> NoGroups]
  /\ latched = [l \in Lists |-> NoBuffers]
  /\ registered \in {{}, Effects}
  /\ textures \in {[e \in Effects |-> IF e \in r THEN filled ELSE [s \in Slots |-> None]] :
                    r \in SUBSET registered, filled \in [Slots -> Textures]}
  /\ fonts = IF registered = {} THEN {} ELSE Fonts
  /\ text_submitted = [f \in Fonts |-> None]
  /\ text_latched = [f \in Fonts |-> None]
  /\ ctx = HostBindings
  /\ drawn = <<>>

-----------------------------------------------------------------------------
(* Submission.  An empty slice removes the group from that list.           *)

Entry(e, o, n) == IF n = 0 THEN None ELSE [effect |-> e, options |-> o, size |-> n]

\* set_primitives_ex of the renderer: both plain lists of a group at once
SetPlain(g, nTriangles, nLines, o) ==
  submitted' = [submitted EXCEPT !["triangles"][g] = Entry("builtin", o, nTriangles),
                                 !["lines"][g] = Entry("builtin", o, nLines)]

\* the overlay passes its vertices as one list and an empty one as the other,
\* so a group is triangles or lines
set_primitives(g, n, topology, o) ==
  /\ IF topology = "triangles" THEN SetPlain(g, n, 0, o) ELSE SetPlain(g, 0, n, o)
  /\ UNCHANGED <<latched, effectVars, textVars, ctx>>
  /\ drawn' = <<>>

set_custom_primitives(g, nTriangles, nLines, e, o) ==
  /\ submitted' = [submitted EXCEPT !["triangles_custom"][g] = Entry(e, o, nTriangles),
                                    !["lines_custom"][g] = Entry(e, o, nLines)]
  /\ UNCHANGED <<latched, effectVars, textVars, ctx>>
  /\ drawn' = <<>>

clear_primitives(g) ==
  /\ submitted' = [l \in Lists |-> [submitted[l] EXCEPT ![g] = None]]
  /\ UNCHANGED <<latched, effectVars, textVars, ctx>>
  /\ drawn' = <<>>

clear_all_primitives ==
  /\ submitted' = [l \in Lists |-> NoGroups]
  /\ UNCHANGED <<latched, effectVars, textVars, ctx>>
  /\ drawn' = <<>>

\* a second registration under the same id is ignored
register_custom_pixel_shader(e) ==
  /\ registered' = registered \cup {e}
  /\ UNCHANGED <<bufferVars, textures, textVars, ctx>>
  /\ drawn' = <<>>

set_custom_effect_texture_at_slot(e, s, t) ==
  /\ textures' = IF e \in registered THEN [textures EXCEPT ![e][s] = t] ELSE textures
  /\ UNCHANGED <<bufferVars, registered, textVars, ctx>>
  /\ drawn' = <<>>

set_custom_effect_textures_bulk(e, bulk) ==
  /\ textures' = IF e \in registered
                 THEN [textures EXCEPT ![e] =
                        [s \in Slots |-> IF s \in DOMAIN bulk THEN bulk[s] ELSE @[s]]]
                 ELSE textures
  /\ UNCHANGED <<bufferVars, registered, textVars, ctx>>
  /\ drawn' = <<>>

clear_custom_effect_texture_at_slot(e, s) ==
  /\ textures' = IF e \in registered THEN [textures EXCEPT ![e][s] = None] ELSE textures
  /\ UNCHANGED <<bufferVars, registered, textVars, ctx>>
  /\ drawn' = <<>>

-----------------------------------------------------------------------------
(* Text.  A font's map of groups stays, empty, when its last group goes.   *)

register_font_atlas(f) ==
  /\ fonts' = fonts \cup {f}
  /\ UNCHANGED <<bufferVars, effectVars, text_submitted, text_latched, ctx>>
  /\ drawn' = <<>>

unregister_font_atlas(f) ==
  /\ fonts' = fonts \ {f}
  /\ text_submitted' = [text_submitted EXCEPT ![f] = None]
  /\ UNCHANGED <<bufferVars, effectVars, text_latched, ctx>>
  /\ drawn' = <<>>

set_text(f, g, n, o) ==
  /\ text_submitted' =
       IF n = 0
       THEN IF text_submitted[f] = None THEN text_submitted
            ELSE [text_submitted EXCEPT ![f][g] = None]
       ELSE [text_submitted EXCEPT ![f] =
              [(IF @ = None THEN NoGroups ELSE @) EXCEPT ![g] = Entry("builtin", o, n)]]
  /\ UNCHANGED <<bufferVars, effectVars, fonts, text_latched, ctx>>
  /\ drawn' = <<>>

clear_text(f, g) ==
  /\ text_submitted' = IF text_submitted[f] = None THEN text_submitted
                       ELSE [text_submitted EXCEPT ![f][g] = None]
  /\ UNCHANGED <<bufferVars, effectVars, fonts, text_latched, ctx>>
  /\ drawn' = <<>>

clear_font_text(f) ==
  /\ text_submitted' = [text_submitted EXCEPT ![f] = None]
  /\ UNCHANGED <<bufferVars, effectVars, fonts, text_latched, ctx>>
  /\ drawn' = <<>>

clear_all_text ==
  /\ text_submitted' = [f \in Fonts |-> None]
  /\ UNCHANGED <<bufferVars, effectVars, fonts, text_latched, ctx>>
  /\ drawn' = <<>>

-----------------------------------------------------------------------------
(* The latch.  Groups are visited in the order of a hash map; each appends *)
(* what still fits to the buffer of its key.                               *)

\* the orders in which a hash map may yield the elements of S
OrdersOf(S) == {order \in [1 .. Cardinality(S) -> S] :
                  \A i, j \in 1 .. Cardinality(S) : order[i] = order[j] => i = j}

KeyOf(entry) == [effect |-> entry.effect, options |-> entry.options]

\* the keys groups are submitted under: each has a buffer
KeysOf(groups) == {KeyOf(groups[g]) : g \in {h \in Groups : groups[h] # None}}

\* what group g puts into the buffer of key k
SizeUnder(groups, k, g) ==
  IF groups[g] # None /\ KeyOf(groups[g]) = k THEN groups[g].size ELSE 0

AtMost(n, m) == IF n < m THEN n ELSE m

\* mutant: what does not fit is copied all the same
Fill_Unclamped(groups, k, order) ==
  LET fill[i \in 0 .. Len(order)] ==
        IF i = 0 THEN 0 ELSE fill[i - 1] + SizeUnder(groups, k, order[i])
  IN fill

\* mutant: a group that does not fit is left out whole
Fill_WholeGroups(groups, k, order) ==
  LET fill[i \in 0 .. Len(order)] ==
        IF i = 0 THEN 0
        ELSE IF fill[i - 1] + SizeUnder(groups, k, order[i]) > Capacity THEN fill[i - 1]
        ELSE fill[i - 1] + SizeUnder(groups, k, order[i])
  IN fill

\* the fill of the buffer after the first i groups of an order
Fill(groups, k, order) ==
  LET fill[i \in 0 .. Len(order)] ==
        IF i = 0 THEN 0
        ELSE fill[i - 1]
             + AtMost(SizeUnder(groups, k, order[i]), Capacity - fill[i - 1])
  IN fill

Taken(groups, k, order) ==
  LET fill == Fill(groups, k, order)
      at(g) == CHOOSE i \in 1 .. Len(order) : order[i] = g
  IN [g \in Groups |-> fill[at(g)] - fill[at(g) - 1]]

Buffers(groups, order) == [k \in KeysOf(groups) |-> Taken(groups, k, order)]

\* the render buffers a list may be latched into
Latchings(l) == {Buffers(submitted[l], order) : order \in OrdersOf(Groups)}

latch_buffers ==
  /\ \E t \in Latchings("triangles"), n \in Latchings("lines"),
        tc \in Latchings("triangles_custom"), nc \in Latchings("lines_custom") :
       latched' = [triangles |-> t, lines |-> n, triangles_custom |-> tc, lines_custom |-> nc]
  /\ UNCHANGED <<submitted, effectVars, textVars, ctx>>
  /\ drawn' = <<>>

\* text has a buffer for each font and options, of the same shape; the groups of
\* each font are a map of their own
latch_text_buffers ==
  /\ \E orders \in [Fonts -> OrdersOf(Groups)] :
       text_latched' = [f \in Fonts |->
         IF text_submitted[f] = None THEN None
         ELSE Buffers(text_submitted[f], orders[f])]
  /\ UNCHANGED <<bufferVars, effectVars, fonts, text_submitted, ctx>>
  /\ drawn' = <<>>

-----------------------------------------------------------------------------
(* Drawing.  Each batch binds what it needs and draws; what it does not    *)
(* bind is what the previous batch left.                                   *)

get_rasterizer_state(o) ==
  CASE o.cull_back /\ o.wireframe -> "back_wireframe"
    [] o.cull_back /\ ~o.wireframe -> "back"
    [] ~o.cull_back /\ o.wireframe -> "wireframe"
    [] OTHER -> "none"

get_or_create_depth_stencil_state(o, hasView) ==
  IF o.ignore_depth_stencil \/ ~hasView THEN "disabled"
  ELSE IF o.write_to_depth THEN "write" ELSE "read"

PlainBlend(o) == IF o.opaque THEN "opaque" ELSE "transparent"
CustomBlend(e, o) == IF o.opaque \/ e \in OpaqueEffects THEN "opaque" ELSE "transparent"

BindEffectTextures(e, tex) ==
  [s \in Slots |-> IF textures[e][s] = None THEN tex[s] ELSE textures[e][s]]

BindTriangles(c, k, hasView) ==
  [c EXCEPT !.topology = "triangles",
            !.raster = get_rasterizer_state(k.options),
            !.blend = PlainBlend(k.options),
            !.depth = get_or_create_depth_stencil_state(k.options, hasView),
            !.ps = "builtin"]

BindLines(c, k, hasView) ==
  [BindTriangles(c, k, hasView) EXCEPT !.topology = "lines"]

BindCustomLines(c, k, hasView) ==
  [c EXCEPT !.topology = "lines",
            !.raster = get_rasterizer_state(k.options),
            !.blend = CustomBlend(k.effect, k.options),
            !.depth = get_or_create_depth_stencil_state(k.options, hasView),
            !.ps = k.effect,
            !.tex = BindEffectTextures(k.effect, c.tex)]

\* mutant: an effect without a vertex shader binds none
BindCustomTriangles_NoDefault(c, k, hasView) ==
  IF k.effect \in WithVertexShader
  THEN [BindCustomLines(c, k, hasView) EXCEPT !.topology = "triangles", !.vs = k.effect]
  ELSE [BindCustomLines(c, k, hasView) EXCEPT !.topology = "triangles"]

BindCustomTriangles(c, k, hasView) ==
  [BindCustomLines(c, k, hasView) EXCEPT
     !.topology = "triangles",
     !.vs = IF k.effect \in WithVertexShader THEN k.effect ELSE "builtin"]

Bind(c, l, k, hasView) ==
  CASE l = "triangles" -> BindTriangles(c, k, hasView)
    [] l = "lines" -> BindLines(c, k, hasView)
    [] l = "triangles_custom" -> BindCustomTriangles(c, k, hasView)
    [] OTHER -> BindCustomLines(c, k, hasView)

\* the batches of a list: its buffers (none is empty, as no group is); a custom
\* one is skipped when its effect is not registered
Batches(l) == {k \in DOMAIN latched[l] : l \in CustomLists => k.effect \in registered}

\* sort_by_key on the priority is stable over the hash map's order
SortedOrders(S) ==
  {order \in OrdersOf(S) : \A i, j \in 1 .. Cardinality(S) :
     i < j => order[i].options.render_priority <= order[j].options.render_priority}

OneCall(l, k) == [list |-> l, key |-> k]

\* the calls of a draw, in the order of the four loops
DrawOrder(t, n, tc, nc) ==
  [i \in 1 .. Len(t) |-> OneCall("triangles", t[i])]
  \o [i \in 1 .. Len(n) |-> OneCall("lines", n[i])]
  \o [i \in 1 .. Len(tc) |-> OneCall("triangles_custom", tc[i])]
  \o [i \in 1 .. Len(nc) |-> OneCall("lines_custom", nc[i])]

\* the bindings after each call, from those of the prologue
BindingsAfter(c0, calls, hasView) ==
  LET after[i \in 0 .. Len(calls)] ==
        IF i = 0 THEN c0
        ELSE Bind(after[i - 1], calls[i].list, calls[i].key, hasView)
  IN after

\* mutant: the depth state is not put back
Restored_NoDepth(c, saved) ==
  [raster |-> saved.raster, blend |-> saved.blend, depth |-> c.depth, dsv |-> saved.dsv,
   topology |-> c.topology, vs |-> c.vs, ps |-> c.ps, tex |-> c.tex]

\* the epilogue puts back what the prologue saved; shaders and textures stay
Restored(c, saved) ==
  [raster |-> saved.raster, blend |-> saved.blend, depth |-> saved.depth, dsv |-> saved.dsv,
   topology |-> c.topology, vs |-> c.vs, ps |-> c.ps, tex |-> c.tex]

Prologue(c, hasView) ==
  [c EXCEPT !.dsv = IF hasView THEN "given" ELSE "absent", !.vs = "builtin"]

\* the outcomes of Primitive3DRenderer::draw: calls with their bindings, and
\* the bindings it leaves
PrimitiveDraws(c, hasView) ==
  IF \A l \in Lists : DOMAIN latched[l] = {}
  THEN {[calls |-> <<>>, left |-> c]}
  ELSE LET lists == {DrawOrder(t, n, tc, nc) :
                       t \in SortedOrders(Batches("triangles")),
                       n \in SortedOrders(Batches("lines")),
                       tc \in SortedOrders(Batches("triangles_custom")),
                       nc \in SortedOrders(Batches("lines_custom"))}
           outcome(calls) ==
             LET after == BindingsAfter(Prologue(c, hasView), calls, hasView)
             IN [calls |-> [i \in 1 .. Len(calls) |->
                              [list |-> calls[i].list, key |-> calls[i].key,
                               view |-> hasView, bound |-> after[i]]],
                 left |-> Restored(after[Len(calls)], c)]
       IN {outcome(calls) : calls \in lists}

TextDepth(o, hasView) == IF o.ignore_depth_stencil \/ ~hasView THEN "disabled" ELSE "read"

\* Text3DRenderer::draw binds its shaders once, the atlas of each font at slot
\* 0, and blend and depth for each batch; it ends by putting the same four back
TextBatches == UNION {{f} \X DOMAIN text_latched[f] :
                        f \in {h \in fonts : text_latched[h] # None}}
BindText(c, f, k, hasView) ==
  [c EXCEPT !.raster = "none", !.dsv = IF hasView THEN "given" ELSE "absent",
            !.blend = PlainBlend(k.options), !.depth = TextDepth(k.options, hasView),
            !.tex = [s \in Slots |-> IF s = 0 THEN f ELSE @[s]]]

\* fonts in the hash map's order, and each font's batches by priority
TextOrders ==
  {order \in OrdersOf(TextBatches) : \A i, j \in DOMAIN order :
     i < j /\ order[i][1] = order[j][1]
       => /\ order[i][2].options.render_priority <= order[j][2].options.render_priority
          /\ \A m \in i .. j : order[m][1] = order[i][1]}

TextDraws(c, hasView) ==
  IF \A f \in Fonts : text_latched[f] = None
  THEN {[calls |-> <<>>, left |-> c]}
  ELSE {LET after[i \in 0 .. Len(order)] ==
              IF i = 0 THEN [c EXCEPT !.topology = "triangles", !.vs = "text", !.ps = "text"]
              ELSE BindText(after[i - 1], order[i][1], order[i][2], hasView)
        IN [calls |-> [i \in 1 .. Len(order) |->
                         [list |-> "text", font |-> order[i][1], key |-> order[i][2],
                          view |-> hasView, bound |-> after[i]]],
            left |-> Restored(after[Len(order)], c)] : order \in TextOrders}

\* what render_primitives and composite_overlays do for one overlay: its
\* primitives, then its text
SceneDraws(hasView) ==
  UNION {{[calls |-> p.calls \o t.calls, left |-> t.left] :
            t \in TextDraws(p.left, hasView)} : p \in PrimitiveDraws(ctx, hasView)}
=============================================================================
