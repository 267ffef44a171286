-------------------------- MODULE MCRendererStart --------------------------
(* Instance of RendererStart for TLC: two overlays, so that one can find   *)
(* what the start of the other left behind.                                *)
EXTENDS RendererStart

(* A preference that attempts every renderer and one that begins at ANGLE. *)
MCPreferences == {"Auto", "OpenGL"}

(* An entry point every loader has and one of an extension.                *)
MCQueueCalls == {"vkQueueSubmit", "vkQueueSubmit2KHR"}
=============================================================================
