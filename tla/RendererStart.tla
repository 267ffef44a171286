--------------------------- MODULE RendererStart ---------------------------
(***************************************************************************)
(* How an overlay is brought up: the engine library, the first renderer of *)
(* the preference that works (Vulkan, OpenGL through ANGLE, or software),  *)
(* and the Flutter engine on top of it.  Every native call on the way may  *)
(* fail; what each constructor releases on each failure is what the module *)
(* is about, and what several overlays of a process share: the ANGLE slot, *)
(* the table of real Vulkan functions and the lock of the queues.          *)
(*                                                                         *)
(* A constructor is the sequence of its fallible calls, so a start is a    *)
(* sequence `todo` that the starting thread works off.  A call that fails  *)
(* unwinds: what the enclosing functions release then, in their order, is  *)
(* the sequence `unwinding`.  Starts are serial: they run under the        *)
(* overlay manager's mutex.                                                *)
(***************************************************************************)
EXTENDS Naturals, Sequences

CONSTANTS
    Overlays,       \* the overlays the host creates, each once
    Preferences,    \* the renderer preferences it may ask for
    QueueCalls,     \* the entry points through which an engine uses its queue
    EngineThreads,  \* the engine threads that submit work
    LoaderPinned,   \* whether something else in the process keeps vulkan-1.dll loaded
    NoOverlay       \* no overlay is being started

ASSUME NoOverlayAssumption == NoOverlay \notin Overlays
ASSUME PreferencesAssumption ==
    Preferences \subseteq {"Auto", "Vulkan", "OpenGL", "Software"}
ASSUME LoaderAssumption == LoaderPinned \in BOOLEAN
ASSUME ThreadsAssumption == "starter" \notin EngineThreads

(* The entry points the module queue_guard wraps.  The engine uses its     *)
(* queue through no other.                                                 *)
Guarded == {"vkQueueSubmit", "vkQueueSubmit2", "vkQueueSubmit2KHR", "vkQueueWaitIdle",
            "vkDeviceWaitIdle"}
ASSUME QueueCallsAssumption == QueueCalls \subseteq Guarded

VARIABLES
    stage,     \* [Overlays -> Stages]
    renderer,  \* the renderer an overlay ended up with, or "none"
    handoff,   \* how a Vulkan overlay hands its frames over
    delivers,  \* what shared_texture_works found out for an overlay
    live,      \* the native objects of each overlay that exist
    leaked,    \* those of them that a constructor gave up on purpose
    starting,  \* the overlay being started, or NoOverlay
    phase,     \* the function init_overlay is in
    attempts,  \* the renderers still to be attempted, in order
    todo,      \* the calls left in that function
    unwinding, \* the releases left after a call that failed
    starter,   \* what the starting thread does: "calls", "unwinds", or is inside a
               \* queue function for the one or the other: "queues", "drains"
    slot,      \* OPENGL_CONTEXT_CREATED
    cached,    \* the process-wide tables filled so far: "dll", "egl"
    loader,    \* generation of vulkan-1.dll in the process; 0: never loaded
    realFns,   \* the generation REAL_FNS points into; 0: empty
    lock,      \* holder of QUEUE_LOCK, or Free
    inQueue    \* the threads inside a queue function of the driver

overlayVars == <<stage, renderer, handoff, delivers>>
startVars == <<starting, phase, attempts, todo, unwinding, starter>>
processVars == <<slot, cached, loader, realFns>>
queueVars == <<lock, inQueue>>
vars == <<overlayVars, live, leaked, startVars, processVars, queueVars>>

Free == <<NoOverlay, "free">>
Stages == {"none", "starting", "running", "failed"}
Phases == {"init_overlay", "context", "check", "state", "angle", "software", "engine"}
Renderers == {"Vulkan", "OpenGL", "Software"}

-----------------------------------------------------------------------------
(* The native objects, by the constructor that makes them.                 *)

ContextObjects == {<<"context", x>> : x \in {"entry", "instance", "device"}}
CopyObjects == {<<"copy", x>> : x \in {"pool", "fence"}}
ImageObjects(role) == {<<role, x>> : x \in {"image", "memory"}}
SharedObjects(role) == ImageObjects(role) \cup {<<role, x>> : x \in {"texture", "handle"}}
ReadbackObjects == ImageObjects("first") \cup ImageObjects("second")
PatternObjects == {<<"pattern", x>> : x \in {"buffer", "memory", "pool", "fence", "staging"}}
AngleObjects == {<<"angle", x>> :
                    x \in {"display", "device", "texture", "pbuffer", "opened"}}
HostObjects == {<<"host", "texture">>}
EngineObjects == {<<"engine", x>> : x \in {"aot", "threads", "engine"}}

VulkanObjects == ContextObjects \cup CopyObjects \cup ImageObjects("render")
                    \cup SharedObjects("frame") \cup ReadbackObjects
CheckObjects == SharedObjects("check") \cup PatternObjects
Objects == VulkanObjects \cup CheckObjects \cup AngleObjects \cup HostObjects
              \cup EngineObjects

(* A fallible call: what it makes, what ends with it when it succeeds, and *)
(* undo, what the enclosing functions do when it fails, innermost first:   *)
(* a sequence of what each call of theirs releases.  The wait for an idle  *)
(* device releases nothing.                                                *)
WaitIdle == {}
Freed(releases) == UNION {releases[i] : i \in 1 .. Len(releases)}
Step(call, gives, ends, undo) == [call |-> call, gives |-> gives, ends |-> ends, undo |-> undo]
Try(call, gives, undo) == Step(call, gives, {}, undo)

-----------------------------------------------------------------------------
(* The engine library and the checks before a renderer is chosen.          *)

load == <<Try("LoadLibrary", {}, <<>>), Try("symbols", {}, <<>>)>>
get_for == IF "dll" \in cached THEN <<>> ELSE load
init_overlay_begins == get_for \o <<Try("non-zero size", {}, <<>>), Try("GetDesc", {}, <<>>)>>

(* The renderers of a preference, in the order they are attempted.         *)
attempt_order(preference) ==
    CASE preference \in {"Auto", "Vulkan"} -> <<"Vulkan", "OpenGL", "Software">>
      [] preference = "OpenGL" -> <<"OpenGL", "Software">>
      [] preference = "Software" -> <<"Software">>

-----------------------------------------------------------------------------
(* Vulkan.  The loader library (entry) belongs to with_instance, which     *)
(* drops it on its own way out, before `new` destroys the instance.        *)

find_physical_device(undo) == <<Try("vkEnumeratePhysicalDevices", {}, undo)>>
find_queue_family(undo) == <<Try("queue family", {}, undo)>>
init_real_fns(undo) == <<Try("real functions", {}, undo)>>

with_instance(undo) ==
    <<Try("adapter LUID", {}, undo)>>
    \o find_physical_device(undo)
    \o <<Try("device extensions", {}, undo)>>
    \o find_queue_family(undo)
    \o <<Try("vkCreateDevice", {<<"context", "device">>}, undo)>>
    \o init_real_fns(<<{<<"context", "device">>}>> \o undo)

VulkanContext_new_DropsEntry ==
    <<Try("Entry::load", {<<"context", "entry">>}, <<>>),
      Try("instance version", {}, <<{<<"context", "entry">>}>>),
      Step("vkCreateInstance", {<<"context", "instance">>}, {<<"context", "entry">>},
           <<{<<"context", "entry">>}>>)>>
    \o with_instance(<<{<<"context", "instance">>}>>)

VulkanContext_new ==
    <<Try("Entry::load", {<<"context", "entry">>}, <<>>),
      Try("instance version", {}, <<{<<"context", "entry">>}>>),
      Try("vkCreateInstance", {<<"context", "instance">>}, <<{<<"context", "entry">>}>>)>>
    \o with_instance(<<{<<"context", "entry">>}, {<<"context", "instance">>}>>)

VulkanContext_drop ==
    <<WaitIdle, {<<"context", "device">>}, {<<"context", "instance">>}, {<<"context", "entry">>}>>

(* An image or a buffer goes before its memory.                            *)
destroy(role) == <<{<<role, "image">>}, {<<role, "memory">>}>>

(* The shared texture on the host's device and its import into Vulkan, for *)
(* the check or for the frames.                                            *)
create_d3d_texture(role, undo) ==
    <<Try("CreateTexture2D", {<<role, "texture">>}, undo),
      Try("IDXGIKeyedMutex", {}, <<{<<role, "texture">>}>> \o undo),
      Try("CreateSharedHandle", {<<role, "handle">>}, <<{<<role, "texture">>}>> \o undo)>>

import_into_vulkan(role, undo) ==
    <<Try("vkCreateImage", {<<role, "image">>}, undo),
      Try("memory type", {}, <<{<<role, "image">>}>> \o undo),
      Try("vkAllocateMemory", {<<role, "memory">>}, <<{<<role, "image">>}>> \o undo),
      Step("vkBindImageMemory", {}, {<<role, "handle">>}, destroy(role) \o undo)>>

SharedFrameTarget_new(role, undo) ==
    create_d3d_texture(role, undo)
    \o import_into_vulkan(role, <<{<<role, "handle">>}, {<<role, "texture">>}>> \o undo)

SharedFrameTarget_drop(role) == destroy(role) \o <<{<<role, "texture">>}>>

(* The check of the shared texture.  An error before anything is submitted *)
(* releases all the check may have made; after it the Vulkan half is       *)
(* leaked, since the GPU may still use it, and only the texture is let go. *)
CheckObjects_release ==
    <<{<<"pattern", "fence">>}, {<<"pattern", "pool">>}, {<<"pattern", "buffer">>},
      {<<"pattern", "memory">>}>>
    \o SharedFrameTarget_drop("check")
NotSubmitted(call, gives) == Try(call, gives, CheckObjects_release)
Unfinished(call) == Try(call, {}, <<{<<"check", "texture">>}>>)

record_pattern_upload == <<NotSubmitted("record", {})>>

upload_pattern ==
    <<NotSubmitted("vkCreateBuffer", {<<"pattern", "buffer">>}),
      NotSubmitted("memory type", {}),
      NotSubmitted("vkAllocateMemory", {<<"pattern", "memory">>}),
      NotSubmitted("vkMapMemory", {}),
      NotSubmitted("vkCreateCommandPool", {<<"pattern", "pool">>}),
      NotSubmitted("vkAllocateCommandBuffers", {}),
      NotSubmitted("vkCreateFence", {<<"pattern", "fence">>})>>
    \o record_pattern_upload
    \o <<Unfinished("vkQueueSubmit"), Unfinished("vkWaitForFences")>>

(* The calls whose failure leaks what the GPU may still use.               *)
Leaks(call) == call \in {"vkQueueSubmit", "vkWaitForFences"}

create_staging_texture ==
    <<NotSubmitted("staging texture", {<<"pattern", "staging">>})>>

(* A check that succeeds releases the same, on a device that stays.        *)
host_reads_pattern ==
    LET reads(call, ends) ==
            Step(call, {}, ends, <<{<<"pattern", "staging">>}>> \o CheckObjects_release)
    IN  <<NotSubmitted("immediate context", {})>>
        \o create_staging_texture
        \o <<reads("AcquireSync", {}), reads("Map", {}), reads("compare", CheckObjects)>>

shared_texture_works ==
    SharedFrameTarget_new("check", <<>>) \o upload_pattern \o host_reads_pattern

(* The objects of the frame copy.  The context is dropped by its owner.    *)
create_copy_objects(undo) ==
    <<Try("vkCreateCommandPool", {<<"copy", "pool">>}, undo),
      Try("vkAllocateCommandBuffers", {}, <<{<<"copy", "pool">>}>> \o undo),
      Try("vkCreateFence", {<<"copy", "fence">>}, <<{<<"copy", "pool">>}>> \o undo)>>

create_render_image_KeepsImage(undo) ==
    <<Try("vkCreateImage", {<<"render", "image">>}, undo),
      Try("memory type", {}, undo),
      Try("vkAllocateMemory", {<<"render", "memory">>}, <<{<<"render", "image">>}>> \o undo),
      Try("vkBindImageMemory", {}, destroy("render") \o undo)>>

create_render_image(undo) ==
    <<Try("vkCreateImage", {<<"render", "image">>}, undo),
      Try("memory type", {}, <<{<<"render", "image">>}>> \o undo),
      Try("vkAllocateMemory", {<<"render", "memory">>}, <<{<<"render", "image">>}>> \o undo),
      Try("vkBindImageMemory", {}, destroy("render") \o undo)>>

create_buffer(role, undo) ==
    <<Try("vkCreateBuffer", {<<role, "image">>}, undo),
      Try("memory type", {}, <<{<<role, "image">>}>> \o undo),
      Try("vkAllocateMemory", {<<role, "memory">>}, <<{<<role, "image">>}>> \o undo),
      Try("vkMapMemory", {}, destroy(role) \o undo)>>

ReadbackTarget_new(undo) ==
    create_buffer("first", undo) \o create_buffer("second", destroy("first") \o undo)

FrameTarget_new(mode, undo) ==
    IF mode = "shared" THEN SharedFrameTarget_new("frame", undo)
                       ELSE ReadbackTarget_new(undo)

FrameTarget_drop(mode) ==
    IF mode = "shared" THEN SharedFrameTarget_drop("frame")
                       ELSE destroy("first") \o destroy("second")

(* What Drop and the fields after it release, with the render image and    *)
(* the target the state has at that time.                                  *)
VulkanInteropState_drop_ContextFirst(image, target) ==
    <<WaitIdle>> \o image \o <<{<<"copy", "fence">>}, {<<"copy", "pool">>}>>
    \o VulkanContext_drop \o target

VulkanInteropState_drop(image, target) ==
    <<WaitIdle>> \o image \o <<{<<"copy", "fence">>}, {<<"copy", "pool">>}>>
    \o target \o VulkanContext_drop

next_image(mode) ==
    <<Try("vkDeviceWaitIdle", {}, VulkanInteropState_drop(<<>>, <<>>))>>
    \o create_render_image(VulkanInteropState_drop(<<>>, <<>>))
    \o FrameTarget_new(mode, VulkanInteropState_drop(destroy("render"), <<>>))

(* The second half of with_handoff; the check stands between the halves.   *)
with_handoff(mode) == create_copy_objects(VulkanContext_drop) \o next_image(mode)

-----------------------------------------------------------------------------
(* OpenGL through ANGLE.  Nothing terminates a display that was            *)
(* initialised when a later call of `new` fails.                           *)

get_or_init_shared_egl ==
    IF "egl" \in cached THEN <<>> ELSE <<Try("libEGL and libGLESv2", {}, <<>>)>>

AngleInteropState_new ==
    get_or_init_shared_egl
    \o <<Try("eglGetPlatformDisplayEXT", {}, <<>>),
         Try("eglInitialize", {<<"angle", "display">>}, <<>>),
         Try("eglQueryDeviceAttribEXT", {<<"angle", "device">>}, <<>>),
         Try("eglChooseConfig", {}, <<{<<"angle", "device">>}>>)>>

(* The surfaces drop destroys are the old ones: it puts the current one    *)
(* with them after they are destroyed, so that one ends with its display,  *)
(* in eglTerminate.  The reference to the D3D device goes with the fields. *)
AngleInteropState_drop ==
    <<{<<"angle", "pbuffer">>, <<"angle", "display">>}, {<<"angle", "device">>}>>

create_shared_texture_and_get_handle(undo) ==
    <<Try("CreateTexture2D", {<<"angle", "texture">>}, undo),
      Try("GetSharedHandle", {}, <<{<<"angle", "texture">>}>> \o undo)>>

recreate_resources(undo) ==
    create_shared_texture_and_get_handle(undo)
    \o <<Try("eglCreatePbufferFromClientBuffer", {<<"angle", "pbuffer">>},
             <<{<<"angle", "texture">>}>> \o undo)>>

init_opengl_resources ==
    AngleInteropState_new
    \o recreate_resources(AngleInteropState_drop)
    \o <<Try("OpenSharedResource", {<<"angle", "opened">>},
             <<{<<"angle", "texture">>}>> \o AngleInteropState_drop)>>

-----------------------------------------------------------------------------
(* The engine.  Dropping the overlay drops its fields in their order; the  *)
(* threads of the task runner and the AOT data stay.  AOT data that cannot *)
(* be loaded only means a debug build.                                     *)

FlutterOverlay_drop(r, mode) ==
    <<HostObjects>>
    \o (CASE r = "OpenGL" ->
                AngleInteropState_drop \o <<{<<"angle", "texture">>}, {<<"angle", "opened">>}>>
          [] r = "Vulkan" -> VulkanInteropState_drop(destroy("render"), FrameTarget_drop(mode))
          [] OTHER -> <<>>)

run_engine(r, mode) ==
    <<Try("FlutterEngineInitialize", {<<"engine", "engine">>}, FlutterOverlay_drop(r, mode)),
      Try("FlutterEngineRunInitialized", {},
          <<{<<"engine", "engine">>}>> \o FlutterOverlay_drop(r, mode))>>

start_task_runner == <<Try("start_task_runner", {<<"engine", "threads">>}, <<>>)>>
CreateAOTData(aot) == IF aot THEN <<Try("FlutterEngineCreateAOTData", {<<"engine", "aot">>}, <<>>)>>
                             ELSE <<>>
init_overlay_runs(aot, r, mode) == start_task_runner \o CreateAOTData(aot) \o run_engine(r, mode)

-----------------------------------------------------------------------------
Init ==
    /\ stage = [o \in Overlays |-> "none"]
    /\ renderer = [o \in Overlays |-> "none"]
    /\ handoff = [o \in Overlays |-> "none"]
    /\ delivers = [o \in Overlays |-> "untested"]
    /\ live = [o \in Overlays |-> {}]
    /\ leaked = [o \in Overlays |-> {}]
    /\ starting = NoOverlay
    /\ phase = "init_overlay"
    /\ attempts = <<>>
    /\ todo = <<>>
    /\ unwinding = <<>>
    /\ starter = "calls"
    /\ slot = FALSE
    /\ cached = {}
    /\ loader = 0
    /\ realFns = 0
    /\ lock = Free
    /\ inQueue = {}

(* FlutterOverlay::create, with a preference.                              *)
create(o) ==
    /\ starting = NoOverlay
    /\ stage[o] = "none"
    /\ starting' = o
    /\ stage' = [stage EXCEPT ![o] = "starting"]
    /\ \E preference \in Preferences : attempts' = attempt_order(preference)
    /\ phase' = "init_overlay"
    /\ todo' = init_overlay_begins
    /\ UNCHANGED <<renderer, handoff, delivers, live, leaked, unwinding, starter, processVars,
                   queueVars>>

Current == Head(todo)
Calling == starting /= NoOverlay /\ todo /= <<>> /\ starter = "calls"

(* Whether the process-wide state leaves a call that outcome.              *)
MayFail(call) ==
    /\ call = "real functions" => realFns = 0
    /\ call \notin {"start_task_runner", "FlutterEngineCreateAOTData"}

(* Entry::load brings vulkan-1.dll in again when nothing holds it.         *)
LoaderHeld == LoaderPinned \/ \E o \in Overlays : <<"context", "entry">> \in live[o]
LoadEntry(call) ==
    loader' = IF call = "Entry::load" /\ (loader = 0 \/ ~LoaderHeld) THEN loader + 1 ELSE loader

(* The OnceCells: filled by the first call that succeeds, then kept.       *)
Remember(call) ==
    /\ realFns' = IF call = "real functions" /\ realFns = 0 THEN loader ELSE realFns
    /\ cached' = cached \cup (IF call = "symbols" THEN {"dll"} ELSE {})
                        \cup (IF call = "libEGL and libGLESv2" THEN {"egl"} ELSE {})

Succeed(step) ==
    /\ live' = [live EXCEPT ![starting] = (@ \cup step.gives) \ step.ends]
    /\ todo' = Tail(todo)
    /\ LoadEntry(step.call)
    /\ Remember(step.call)
    /\ UNCHANGED <<overlayVars, leaked, starting, phase, attempts, unwinding, slot>>

(* The constructors unwind.  What a check leaves out of it is given up.    *)
Fail(step) ==
    /\ unwinding' = step.undo
    /\ starter' = "unwinds"
    /\ todo' = <<>>
    /\ leaked' = IF Leaks(step.call) /\ phase = "check"
                 THEN [leaked EXCEPT ![starting] =
                           (live[starting] \ Freed(step.undo)) \cap CheckObjects]
                 ELSE leaked
    /\ UNCHANGED <<overlayVars, live, starting, phase, attempts, processVars>>

(* The calls of the starting thread that are made under the queue lock.    *)
QueueCall(call) == call \in {"vkQueueSubmit", "vkDeviceWaitIdle"}

CallSucceeds ==
    /\ Calling
    /\ ~QueueCall(Current.call)
    /\ Succeed(Current)
    /\ UNCHANGED <<starter, queueVars>>

CallFails ==
    /\ Calling
    /\ ~QueueCall(Current.call)
    /\ MayFail(Current.call)
    /\ Fail(Current)
    /\ UNCHANGED queueVars

Starter == <<starting, "starter">>
lock_queue(user) == lock = Free /\ lock' = user /\ inQueue' = inQueue \cup {user}
unlock_queue_Forgotten(user) == UNCHANGED lock /\ inQueue' = inQueue \ {user}

unlock_queue(user) == lock' = Free /\ inQueue' = inQueue \ {user}

EnterQueue(state) ==
    /\ lock_queue(Starter)
    /\ starter' = state
    /\ UNCHANGED <<overlayVars, live, leaked, starting, phase, attempts, todo, unwinding,
                   processVars>>

CallQueues == Calling /\ QueueCall(Current.call) /\ EnterQueue("queues")

QueueCallEnds ==
    /\ starter = "queues"
    /\ unlock_queue(Starter)
    /\ \/ Succeed(Current) /\ starter' = "calls"
       \/ Fail(Current)

(* One release after the other.                                            *)
Unwinding == starter = "unwinds" /\ unwinding # <<>>

Release ==
    /\ Unwinding
    /\ Head(unwinding) # WaitIdle
    /\ live' = [live EXCEPT ![starting] = @ \ Head(unwinding)]
    /\ unwinding' = Tail(unwinding)
    /\ UNCHANGED <<overlayVars, leaked, starting, phase, attempts, todo, starter, processVars,
                   queueVars>>

wait_idle == Unwinding /\ Head(unwinding) = WaitIdle /\ EnterQueue("drains")

DeviceIdle ==
    /\ starter = "drains"
    /\ unlock_queue(Starter)
    /\ unwinding' = Tail(unwinding)
    /\ starter' = "unwinds"
    /\ UNCHANGED <<overlayVars, live, leaked, starting, phase, attempts, todo, processVars>>

(* An attempt that has failed leads to the next, a check answers FALSE.    *)
GiveUp ==
    /\ starting' = NoOverlay
    /\ stage' = [stage EXCEPT ![starting] = "failed"]

Unwound ==
    /\ starter = "unwinds" /\ unwinding = <<>>
    /\ starter' = "calls"
    /\ delivers' = IF phase = "check" THEN [delivers EXCEPT ![starting] = "fails"]
                   ELSE delivers
    /\ phase' = IF phase \in {"context", "state", "angle"} THEN "init_overlay" ELSE phase
    /\ slot' = IF phase = "angle" THEN FALSE ELSE slot
    /\ IF phase \in {"init_overlay", "engine"} THEN GiveUp ELSE UNCHANGED <<starting, stage>>
    /\ UNCHANGED <<renderer, handoff, live, leaked, attempts, todo, unwinding, cached, loader,
                   realFns, queueVars>>

-----------------------------------------------------------------------------
(* What follows when a function has no calls left.                         *)

Returned(p) == starting /= NoOverlay /\ todo = <<>> /\ starter = "calls" /\ phase = p

Enter(p, calls) == phase' = p /\ todo' = calls

(* init_renderer: the next renderer of the preference.                     *)
try_init_vulkan ==
    /\ Returned("init_overlay")
    /\ Head(attempts) = "Vulkan"
    /\ attempts' = Tail(attempts)
    /\ Enter("context", VulkanContext_new)
    /\ UNCHANGED <<slot, live, overlayVars>>

try_init_opengl_AlwaysTakes ==
    /\ Returned("init_overlay")
    /\ Head(attempts) = "OpenGL"
    /\ attempts' = Tail(attempts)
    /\ Enter("angle", init_opengl_resources)
    /\ slot' = TRUE
    /\ UNCHANGED <<live, overlayVars>>

try_init_opengl ==
    /\ Returned("init_overlay")
    /\ Head(attempts) = "OpenGL"
    /\ attempts' = Tail(attempts)
    /\ IF slot THEN Enter("init_overlay", <<>>) /\ UNCHANGED slot
               ELSE Enter("angle", init_opengl_resources) /\ slot' = TRUE
    /\ UNCHANGED <<live, overlayVars>>

(* The renderer works: the texture the host samples, then the engine.      *)
RendererReady(r) ==
    /\ renderer' = [renderer EXCEPT ![starting] = r]
    /\ live' = [live EXCEPT ![starting] = @ \cup HostObjects]
    /\ \E aot \in BOOLEAN : Enter("engine", init_overlay_runs(aot, r, handoff[starting]))

build_software_renderer ==
    /\ Returned("init_overlay")
    /\ Head(attempts) = "Software"
    /\ attempts' = <<>>
    /\ RendererReady("Software")
    /\ UNCHANGED <<stage, handoff, delivers, slot>>

(* The hand-off depends on what the driver supports and on the override.   *)
PickHandoff ==
    /\ Returned("context")
    /\ \E mode \in {"shared", "readback"} :
          /\ handoff' = [handoff EXCEPT ![starting] = mode]
          /\ IF mode = "shared" THEN Enter("check", shared_texture_works)
                                ELSE Enter("state", with_handoff(mode))
    /\ UNCHANGED <<attempts, slot, live, stage, renderer, delivers>>

use_readback_Ignored == UNCHANGED handoff

use_readback == handoff' = [handoff EXCEPT ![starting] = "readback"]

TextureFails ==
    /\ Returned("check")
    /\ delivers[starting] = "fails"
    /\ use_readback
    /\ Enter("state", with_handoff("readback"))
    /\ UNCHANGED <<attempts, slot, live, stage, renderer, delivers>>

TextureDelivers ==
    /\ Returned("check")
    /\ delivers[starting] = "untested"
    /\ delivers' = [delivers EXCEPT ![starting] = "delivers"]
    /\ Enter("state", with_handoff("shared"))
    /\ UNCHANGED <<attempts, slot, live, stage, renderer, handoff>>

VulkanReady ==
    /\ Returned("state")
    /\ RendererReady("Vulkan")
    /\ UNCHANGED <<attempts, slot, stage, handoff, delivers>>

OpenGLReady ==
    /\ Returned("angle")
    /\ RendererReady("OpenGL")
    /\ UNCHANGED <<attempts, slot, stage, handoff, delivers>>

NextFunction ==
    /\ \/ try_init_vulkan \/ try_init_opengl \/ build_software_renderer
       \/ PickHandoff \/ TextureFails \/ TextureDelivers
       \/ VulkanReady \/ OpenGLReady
    /\ UNCHANGED <<leaked, starting, unwinding, starter, cached, loader, realFns, queueVars>>

(* init_overlay returns the overlay.                                       *)
Created ==
    /\ Returned("engine")
    /\ stage' = [stage EXCEPT ![starting] = "running"]
    /\ starting' = NoOverlay
    /\ UNCHANGED <<renderer, handoff, delivers, live, leaked, phase, attempts, todo,
                   unwinding, starter, processVars, queueVars>>

StarterStep ==
    \/ CallSucceeds \/ CallFails \/ CallQueues \/ QueueCallEnds
    \/ Release \/ wait_idle \/ DeviceIdle \/ Unwound
    \/ NextFunction \/ Created

-----------------------------------------------------------------------------
(* The engines' use of their queues, through the table of wrappers.        *)

wrapper_for_CoreOnly(name) == name \in {"vkQueueSubmit", "vkQueueWaitIdle", "vkDeviceWaitIdle"}

wrapper_for(name) == name \in Guarded

EngineUsesVulkan(o) == stage[o] = "running" /\ renderer[o] = "Vulkan"

guarded_call(o, t) == lock_queue(<<o, t>>)
unguarded_call(o, t) == inQueue' = inQueue \cup {<<o, t>>} /\ UNCHANGED lock

EngineCalls(o, t) ==
    /\ EngineUsesVulkan(o)
    /\ <<o, t>> \notin inQueue
    /\ realFns > 0
    /\ \E name \in QueueCalls :
          IF wrapper_for(name) THEN guarded_call(o, t) ELSE unguarded_call(o, t)
    /\ UNCHANGED <<overlayVars, live, leaked, startVars, processVars>>

CallReturns(o, t) ==
    /\ <<o, t>> \in inQueue
    /\ inQueue' = inQueue \ {<<o, t>>}
    /\ lock' = IF lock = <<o, t>> THEN Free ELSE lock
    /\ UNCHANGED <<overlayVars, live, leaked, startVars, processVars>>

Next ==
    \/ \E o \in Overlays : create(o)
    \/ StarterStep
    \/ \E o \in Overlays, t \in EngineThreads : EngineCalls(o, t) \/ CallReturns(o, t)

Spec == Init /\ [][Next]_vars

(* The starting thread runs and gets the queue lock in the end (the mutex  *)
(* is eventually fair); a queue function of the driver returns.            *)
Fairness ==
    /\ SF_vars(StarterStep)
    /\ \A o \in Overlays, t \in EngineThreads : WF_vars(CallReturns(o, t))

FairSpec == Spec /\ Fairness

-----------------------------------------------------------------------------
(* Types of the state.                                                     *)
TypeOK ==
    /\ stage \in [Overlays -> Stages]
    /\ renderer \in [Overlays -> Renderers \cup {"none"}]
    /\ handoff \in [Overlays -> {"none", "shared", "readback"}]
    /\ delivers \in [Overlays -> {"untested", "delivers", "fails"}]
    /\ live \in [Overlays -> SUBSET Objects]
    /\ leaked \in [Overlays -> SUBSET CheckObjects]
    /\ starting \in Overlays \cup {NoOverlay}
    /\ phase \in Phases
    /\ unwinding \in Seq(SUBSET Objects)
    /\ starter \in {"calls", "queues", "unwinds", "drains"}
    /\ slot \in BOOLEAN
    /\ cached \subseteq {"dll", "egl"}
    /\ loader \in Nat
    /\ realFns \in Nat

(* Outside the attempt under way and its unwinding, an overlay holds the   *)
(* objects of the renderer it has and of no other: whatever call an        *)
(* attempt failed at, its constructors released all they had made, and an  *)
(* engine that did not start takes its renderer along.  Left behind are    *)
(* what the check leaks on purpose and the display that                    *)
(* AngleInteropState::new does not terminate.                              *)
Working(o) == starting = o /\ (phase \notin {"init_overlay", "engine"} \/ starter # "calls")
ObjectsOf(r) ==
    CASE r = "Vulkan" -> VulkanObjects \cup HostObjects
      [] r = "OpenGL" -> AngleObjects \cup HostObjects
      [] r = "Software" -> HostObjects
      [] r = "none" -> {}
Holds(o) == IF stage[o] = "failed" THEN {} ELSE ObjectsOf(renderer[o])
FailuresLeaveNothing ==
    \A o \in Overlays :
        ~Working(o) => live[o] \ EngineObjects \subseteq
                           Holds(o) \cup leaked[o] \cup {<<"angle", "display">>}

(* A device is destroyed after everything made from it and before its      *)
(* instance, at every step of every unwinding: whichever call failed, and  *)
(* also when an engine does not start and its whole renderer is dropped.   *)
(* Only the leaked objects outlive it.                                     *)
DeviceObjects ==
    CopyObjects \cup ReadbackObjects
    \cup (UNION {ImageObjects(role) : role \in {"render", "frame", "check"}})
    \cup {<<"pattern", x>> : x \in {"buffer", "memory", "pool", "fence"}}
ChildrenDieFirst ==
    \A o \in Overlays :
        /\ (live[o] \ leaked[o]) \cap DeviceObjects # {} =>
               <<"context", "device">> \in live[o]
        /\ <<"context", "device">> \in live[o] => <<"context", "instance">> \in live[o]

(* A running engine borrows only what exists: the whole Vulkan context with *)
(* the target of its hand-off and the table of real functions, or the whole *)
(* ANGLE state, which no two running overlays have at once.                 *)
TargetOf(o) == IF handoff[o] = "shared" THEN SharedObjects("frame") \ {<<"frame", "handle">>}
                                        ELSE ReadbackObjects
BorrowedIsLive ==
    \A o \in Overlays : stage[o] = "running" =>
        /\ renderer[o] = "Vulkan" =>
              /\ ContextObjects \cup CopyObjects \cup ImageObjects("render") \cup TargetOf(o)
                     \subseteq live[o]
              /\ realFns > 0
        /\ renderer[o] = "OpenGL" =>
              /\ AngleObjects \subseteq live[o]
              /\ slot
              /\ \A p \in Overlays \ {o} :
                    stage[p] = "running" => live[p] \cap AngleObjects \subseteq
                                                {<<"angle", "display">>}

(* An overlay hands frames over through a shared texture only if that      *)
(* texture delivered the test pattern to the host.                         *)
HandoffProven ==
    \A o \in Overlays :
        EngineUsesVulkan(o) /\ handoff[o] = "shared" => delivers[o] = "delivers"

(* Two threads are never inside a queue function at once: the engines'     *)
(* calls through the wrappers, the pattern's submission and the wait of a  *)
(* start that failed all exclude each other.                               *)
QueueExclusive == \A a, b \in inQueue : a = b

(* Every start ends, however the engines that run compete for the lock.    *)
StartEnds == \A o \in Overlays : starting = o ~> starting # o

(* Under an engine that uses the table of real functions, the table stays  *)
(* as good as it was: no later start, and no start that fails, unloads the *)
(* loader it points into.  (It may be out of date before the engine starts:*)
(* it is filled once, by the first context that gets that far, and kept    *)
(* when the loader is unloaded with the last context and loaded again.)    *)
TableKeptInUse ==
    [][\A o \in Overlays : EngineUsesVulkan(o) /\ realFns = loader => realFns' = loader']_vars

=============================================================================
