---------------------------- MODULE MCCompositor ----------------------------
(* The instance TLC checks: two groups whose vertices together overflow a   *)
(* vertex buffer, an effect with and one without a vertex shader.           *)
EXTENDS Compositor

CONSTANTS g1, g2, e1, e2

PlainOption == [ignore_depth_stencil |-> FALSE, write_to_depth |-> FALSE,
                cull_back |-> FALSE, wireframe |-> FALSE, opaque |-> FALSE,
                render_priority |-> 1]
MCOptions == {PlainOption,
              [PlainOption EXCEPT !.write_to_depth = TRUE, !.opaque = TRUE,
                                  !.render_priority = 0]}
MCWithVertexShader == {e1}
MCOpaqueEffects == {e2}
MCBudgets == {[scene |-> 2, effect |-> 0], [scene |-> 1, effect |-> 1],
              [scene |-> 0, effect |-> 4]}
=============================================================================
