--------------------------- MODULE OverlayEffects ---------------------------
(***************************************************************************)
(* The 2D part of one overlay: its effect configuration, the frames a      *)
(* triggered glitch still has, the clock its shaders see, and the quad the *)
(* post processor draws.  Compositor says when the manager draws it.       *)
(***************************************************************************)
EXTENDS Naturals, Sequences

CONSTANTS
  AppEffects,     \* the effects the application sets
  GlitchFrames,   \* the frame counts trigger_glitch_effect is called with
  MaxClock        \* bound on the time of the host's clock

PostEffects == {"Passthrough", "Hologram", "WarpField", "Glitch"}

ASSUME EffectsAssumption ==
  AppEffects \subseteq PostEffects /\ GlitchFrames \subseteq Nat /\ MaxClock \in Nat

Targets == {"Fullscreen", "Widget"}
EffectConfigs == [params : PostEffects, target : Targets]
DefaultEffect == [params |-> "Passthrough", target |-> "Fullscreen"]

VARIABLES
  effect_config,   \* in EffectConfigs
  effect_frames_remaining,
  effect_asked,    \* the call that set effect_config last
  clock,           \* the host's clock
  start_time,
  is_paused,
  time_at_pause,
  composited_at,   \* the time composite_overlays gave the shaders last
  quad             \* in Quads: what the last step drew, or NoQuad

effectsVars == <<effect_config, effect_frames_remaining, effect_asked>>
timeVars == <<clock, start_time, is_paused, time_at_pause>>

NoQuad == [shader |-> "none", portal |-> FALSE, time |-> 0]
Quads == [shader : PostEffects \cup {"none"}, portal : BOOLEAN, time : Nat]

EffectsInit ==
  /\ effect_config = DefaultEffect
  /\ effect_frames_remaining = 0
  /\ effect_asked = "none"
  /\ clock = 0 /\ start_time = 0
  /\ is_paused = FALSE /\ time_at_pause = 0
  /\ composited_at = 0
  /\ quad = NoQuad

-----------------------------------------------------------------------------
(* The effect.  Only a trigger writes the frame count, and only render_ui  *)
(* counts it down.                                                         *)

set_fullscreen_effect(e) ==
  /\ effect_config' = [params |-> e, target |-> "Fullscreen"]
  /\ effect_asked' = "set"
  /\ UNCHANGED effect_frames_remaining

set_widget_effect(e) ==
  /\ effect_config' = [params |-> e, target |-> "Widget"]
  /\ effect_asked' = "set"
  /\ UNCHANGED effect_frames_remaining

update_effect_config(config) ==
  /\ effect_config' = config
  /\ effect_asked' = "set"
  /\ UNCHANGED effect_frames_remaining

trigger_glitch_effect(frames) ==
  /\ effect_frames_remaining' = frames
  /\ effect_config' = [params |-> "Glitch", target |-> "Fullscreen"]
  /\ effect_asked' = "glitch"

clear_effect ==
  /\ effect_config' = DefaultEffect
  /\ effect_asked' = "clear"
  /\ UNCHANGED effect_frames_remaining

\* mutant: the last frame leaves the glitch in place
CountDown_KeepsGlitch ==
  /\ effect_frames_remaining' =
       IF effect_frames_remaining > 0 THEN effect_frames_remaining - 1 ELSE 0
  /\ effect_config' =
       IF effect_frames_remaining = 0 THEN effect_config
       ELSE [effect_config EXCEPT !.params = "Glitch"]
  /\ UNCHANGED effect_asked

\* the part of render_ui between the tick and the quad: the glitch is written
\* again with the strength that is left, over whatever was set meanwhile
CountDown ==
  /\ effect_frames_remaining' =
       IF effect_frames_remaining > 0 THEN effect_frames_remaining - 1 ELSE 0
  /\ effect_config' =
       IF effect_frames_remaining = 0 THEN effect_config
       ELSE IF effect_frames_remaining = 1 THEN DefaultEffect
       ELSE [effect_config EXCEPT !.params = "Glitch"]
  /\ UNCHANGED effect_asked

-----------------------------------------------------------------------------
(* The shaders' clock.                                                     *)

Elapsed == clock - start_time

pause_animations ==
  /\ time_at_pause' = IF is_paused THEN time_at_pause ELSE Elapsed
  /\ is_paused' = TRUE
  /\ UNCHANGED <<clock, start_time>>

\* start_time = now - time_at_pause, so the clock goes on from the pause
resume_animations ==
  /\ start_time' = IF is_paused THEN clock - time_at_pause ELSE start_time
  /\ is_paused' = FALSE
  /\ UNCHANGED <<clock, time_at_pause>>

ClockTicks ==
  /\ clock < MaxClock
  /\ clock' = clock + 1
  /\ UNCHANGED <<start_time, is_paused, time_at_pause>>

composite_time == IF is_paused THEN time_at_pause ELSE Elapsed

-----------------------------------------------------------------------------
(* PostProcessRenderer: one quad with the overlay's texture, the shader of *)
(* the effect, and the portal flag when it covers a widget only.           *)

effect_type(config) == config.params
is_portal_active(config) == config.target = "Widget"

\* queue_texture_render followed by draw: the queue holds this one quad
QuadOf(config, time) ==
  [shader |-> effect_type(config), portal |-> is_portal_active(config), time |-> time]
=============================================================================
