----------------------------- MODULE HostFrames -----------------------------
(***************************************************************************)
(* How a frame of the implicit view gets into the texture of the host, for *)
(* the renderers other than OpenGL (ImplicitView).  With Vulkan the        *)
(* engine draws into a private image, present_image copies it into a       *)
(* texture shared with the host under a keyed mutex ("SharedTexture") or   *)
(* into one of two buffers in host memory ("Readback"); the host's tick    *)
(* takes it from there.  With "Software" the engine's thread copies the    *)
(* frame into pixel_buffer and the tick uploads it.                        *)
(*                                                                         *)
(* A frame is the number of the scene it shows, 0 for none.  A size is the *)
(* number of the resize that set it.                                       *)
(***************************************************************************)
EXTENDS Naturals, Sequences

CONSTANTS
  MaxScenes,    \* bound: scenes the application draws
  MaxResizes,   \* bound: resizes
  MaxProbes,    \* bound: changes of the memory state
  MaxFaults,    \* bound: failing GPU calls
  Mixed         \* content that is not one frame

ASSUME HostFramesAssumption ==
  /\ MaxScenes \in Nat /\ MaxResizes \in Nat /\ MaxProbes \in Nat /\ MaxFaults \in Nat
  /\ Mixed \notin Nat

VARIABLES
  handoff,     \* HandoffMode, or "Software"; chosen when the overlay starts
  \* the engine and the application
  scene,       \* the newest scene
  wants,       \* a frame is scheduled
  metrics,     \* the size the engine knows
  dart,        \* the lifecycle state of the application
  \* the raster thread
  rpc,         \* between its callbacks, or where in one
  drawn,       \* the scene and size of the frame in progress
  render,      \* the size of RasterState.render_image, 0 if there is none
  inFlight,    \* RasterState.copy_in_flight
  fence,       \* copy_fence is signalled
  \* SharedFrameState
  target,      \* the size of the frame target
  presented, consumed,
  front,       \* ReadbackTarget.front
  buf,         \* what the shared image (0), the two buffers, or pixel_buffer (0) hold
  key,         \* who may take the keyed mutex: "writer", "reader", or the "gpu" has it
  gpu,         \* copies submitted and not finished: the buffer and the scene
  \* the host
  hpc,         \* tick of the software renderer between its two accesses
  size,        \* width and height of the overlay
  texture,     \* what its texture shows
  fits,        \* the frame it shows has its size
  dirty,       \* software_frame_dirty
  lost,        \* device_lost
  exhausted,   \* budget_exhausted
  lifecycle,   \* lifecycle messages queued for the engine
  \* bounds and history
  probes, faults,
  newest,      \* the scene of the last frame published
  dropped,     \* the last frame was lost to a failing call
  late,        \* a read-back outlived its wait
  unread,      \* the last upload failed
  raced        \* pixel_buffer was resized under a copy into it

engineVars  == <<scene, wants, metrics, dart>>
rasterVars  == <<rpc, drawn, render, inFlight, fence>>
sharedVars  == <<target, presented, consumed, front, buf, key, gpu>>
hostVars    == <<hpc, size, texture, fits, dirty>>
memoryVars  == <<exhausted, lifecycle, probes>>
historyVars == <<newest, dropped, late, unread, raced>>
vars == <<handoff, engineVars, rasterVars, sharedVars, hostVars, memoryVars, historyVars,
          lost, faults>>

Vulkan == handoff \in {"SharedTexture", "Readback"}

\* State after VulkanInteropState::new, which allocates the first images itself.
Init ==
  /\ handoff \in {"SharedTexture", "Readback", "Software"}
  /\ scene = 1 /\ wants = TRUE /\ metrics = 1 /\ dart = "resumed"
  /\ rpc = "idle" /\ drawn = [scene |-> 0, size |-> 0]
  /\ render = 1 /\ inFlight = FALSE /\ fence = FALSE
  /\ target = 1 /\ presented = 0 /\ consumed = 0 /\ front = 0
  /\ buf = [b \in {0, 1} |-> 0] /\ key = "writer" /\ gpu = <<>>
  /\ hpc = "idle" /\ size = 1 /\ texture = 0 /\ fits = FALSE /\ dirty = FALSE
  /\ lost = FALSE /\ exhausted = FALSE /\ lifecycle = <<>>
  /\ probes = 0 /\ faults = 0
  /\ newest = 0 /\ dropped = FALSE /\ late = FALSE /\ unread = FALSE /\ raced = FALSE

\* A GPU call fails, with VK_ERROR_DEVICE_LOST (note_failure) or something else.
CallFails ==
  /\ faults < MaxFaults /\ faults' = faults + 1
  /\ lost' = TRUE \/ UNCHANGED lost

DropFrame == rpc' = "idle" /\ dropped' = TRUE

\* The frame in progress is the one the host takes next.
PublishFrame ==
  /\ presented' = presented + 1
  /\ newest' = drawn.scene /\ dropped' = FALSE

(***************************************************************************)
(* The engine                                                              *)
(***************************************************************************)
\* The application draws something new.
DrawScene ==
  /\ scene < MaxScenes
  /\ scene' = scene + 1 /\ wants' = TRUE
  /\ UNCHANGED <<handoff, metrics, dart, rasterVars, sharedVars, hostVars, memoryVars,
                 historyVars, lost, faults>>

\* The engine takes the metrics the host sent it and schedules a frame.
TakeMetrics ==
  /\ metrics # size
  /\ metrics' = size /\ wants' = TRUE
  /\ UNCHANGED <<handoff, scene, dart, rasterVars, sharedVars, hostVars, memoryVars,
                 historyVars, lost, faults>>

\* A lifecycle message arrives: no frames while hidden, one at once when resumed.
TakeLifecycle ==
  /\ lifecycle # <<>>
  /\ dart' = Head(lifecycle) /\ lifecycle' = Tail(lifecycle)
  /\ wants' = IF dart' = "resumed" THEN TRUE ELSE wants
  /\ UNCHANGED <<handoff, scene, metrics, rasterVars, sharedVars, hostVars, exhausted, probes,
                 historyVars, lost, faults>>

\* The rasteriser starts a frame of the newest scene.
StartsFrame ==
  /\ rpc = "idle" /\ wants /\ dart = "resumed"
  /\ wants' = FALSE
  /\ drawn' = [scene |-> scene, size |-> metrics]
  /\ UNCHANGED <<handoff, scene, metrics, dart, hostVars, memoryVars>>

(***************************************************************************)
(* get_next_image                                                          *)
(***************************************************************************)
\* NO_IMAGE: the frame is not drawn.
RefuseImage ==
  /\ StartsFrame /\ Vulkan /\ (lost \/ exhausted)
  /\ UNCHANGED <<rpc, render, inFlight, fence, sharedVars, historyVars, lost, faults>>

NeedsImage == StartsFrame /\ Vulkan /\ ~ lost /\ ~ exhausted

\* The render image has the size already.
ReuseImage ==
  /\ NeedsImage /\ render = metrics
  /\ rpc' = "drawing"
  /\ UNCHANGED <<render, inFlight, fence, sharedVars, historyVars, lost, faults>>

\* vkDeviceWaitIdle fails before anything was given up.
WaitIdleFails ==
  /\ NeedsImage /\ render # metrics
  /\ CallFails /\ DropFrame
  /\ UNCHANGED <<render, inFlight, fence, sharedVars, newest, late, unread, raced>>

\* The GPU is idle: the old render image goes and a new one is there ...
ReplaceImage ==
  /\ NeedsImage /\ render # metrics
  /\ gpu = <<>>
  /\ render' = metrics /\ inFlight' = FALSE
  /\ rpc' = "allocated"
  /\ UNCHANGED <<fence, sharedVars, historyVars, lost, faults>>

\* ... or could not be made: the next frame tries again.
ImageFails ==
  /\ NeedsImage /\ render # metrics
  /\ gpu = <<>>
  /\ faults < MaxFaults /\ faults' = faults + 1
  /\ render' = 0 /\ inFlight' = FALSE
  /\ DropFrame
  /\ UNCHANGED <<fence, sharedVars, newest, late, unread, raced, lost>>

\* Mutation: the counters are not brought into step with the new mutex.
ReplaceTarget_KeepsConsumed ==
  /\ rpc = "allocated"
  /\ rpc' = "drawing"
  /\ target' = render /\ front' = 0
  /\ buf' = [b \in {0, 1} |-> 0] /\ key' = "writer"
  /\ UNCHANGED <<handoff, engineVars, drawn, render, inFlight, fence, presented, consumed, gpu,
                 hostVars, memoryVars, historyVars, lost, faults>>

\* The frame target follows, under the frame lock: a frame the host has not
\* taken goes with the old one, and the new mutex is the writer's.
ReplaceTarget ==
  /\ rpc = "allocated"
  /\ rpc' = "drawing"
  /\ target' = render /\ consumed' = presented /\ front' = 0
  /\ buf' = [b \in {0, 1} |-> 0] /\ key' = "writer"
  /\ UNCHANGED <<handoff, engineVars, drawn, render, inFlight, fence, presented, gpu, hostVars,
                 memoryVars, historyVars, lost, faults>>

\* It could not be made: the render image of the new size stays nevertheless.
TargetFails ==
  /\ rpc = "allocated"
  /\ faults < MaxFaults /\ faults' = faults + 1
  /\ DropFrame
  /\ UNCHANGED <<handoff, engineVars, drawn, render, inFlight, fence, sharedVars, hostVars,
                 memoryVars, newest, late, unread, raced, lost>>

(***************************************************************************)
(* present_image                                                           *)
(***************************************************************************)
Presents(mode) ==
  /\ rpc = "drawing" /\ handoff = mode
  /\ UNCHANGED <<handoff, engineVars, drawn, render, hostVars, memoryVars>>

\* The previous copy's fence was waited for and is reset for this one.
FenceReady == inFlight => fence
ResetFence == fence' = FALSE

\* The copies recorded into the command buffer: to the shared image, to the back buffer.
record_frame_copy     == [buf |-> 0, scene |-> drawn.scene]
record_frame_readback == [buf |-> 1 - front, scene |-> drawn.scene]

writer_acquire_key(p, c) == IF p > c THEN "reader" ELSE "writer"

\* The copy is submitted; the mutex is the GPU's once its key is there.
SubmitSharedCopy ==
  /\ Presents("SharedTexture") /\ FenceReady /\ ResetFence
  /\ target = render
  /\ gpu' = Append(gpu, record_frame_copy)
  /\ buf' = [buf EXCEPT ![0] = Mixed]
  /\ key' = IF key = writer_acquire_key(presented, consumed) THEN "gpu" ELSE key
  /\ inFlight' = TRUE
  /\ PublishFrame /\ rpc' = "idle"
  /\ UNCHANGED <<target, consumed, front, late, unread, raced, lost, faults>>

\* The copy goes into the buffer that is not in front; the frame lock is free
\* again while the raster thread waits for it.
SubmitReadback ==
  /\ Presents("Readback") /\ FenceReady /\ ResetFence
  /\ target = render
  /\ gpu' = Append(gpu, record_frame_readback)
  /\ buf' = [buf EXCEPT ![1 - front] = Mixed]
  /\ rpc' = "readback"
  /\ UNCHANGED <<inFlight, target, presented, consumed, front, key, historyVars, lost, faults>>

\* The previous copy is late: the wait fails and the copy is still in flight.
PreviousCopyLate ==
  /\ Presents("SharedTexture") /\ ~ FenceReady
  /\ CallFails /\ DropFrame
  /\ UNCHANGED <<inFlight, fence, sharedVars, newest, late, unread, raced>>

\* Recording or submitting fails.
SubmitFails ==
  /\ \E mode \in {"SharedTexture", "Readback"} : Presents(mode)
  /\ FenceReady /\ ResetFence
  /\ target = render
  /\ CallFails /\ DropFrame
  /\ inFlight' = FALSE
  /\ UNCHANGED <<sharedVars, newest, late, unread, raced>>

\* The target is not of the render image's size.
PresentMismatch ==
  /\ \E mode \in {"SharedTexture", "Readback"} : Presents(mode)
  /\ FenceReady /\ ResetFence
  /\ target # render
  /\ DropFrame
  /\ inFlight' = FALSE
  /\ UNCHANGED <<sharedVars, newest, late, unread, raced, lost, faults>>

WaitsForReadback ==
  /\ rpc = "readback"
  /\ UNCHANGED <<handoff, engineVars, drawn, render, inFlight, fence, target, consumed, buf, key,
                 gpu, hostVars, memoryVars, unread, raced>>

\* Mutation: the buffer comes to the front without a wait for the GPU.
PublishReadback_NoWait ==
  /\ WaitsForReadback
  /\ front' = 1 - front
  /\ PublishFrame /\ rpc' = "idle"
  /\ UNCHANGED <<late, lost, faults>>

\* The fence is signalled: the buffer comes to the front, under the frame lock.
PublishReadback ==
  /\ WaitsForReadback /\ fence
  /\ front' = 1 - front
  /\ PublishFrame /\ rpc' = "idle"
  /\ UNCHANGED <<late, lost, faults>>

\* The GPU is late, or the buffer cannot be made visible to the host.
ReadbackFails ==
  /\ WaitsForReadback
  /\ CallFails /\ DropFrame
  /\ late' = IF fence THEN late ELSE TRUE
  /\ UNCHANGED <<presented, front, newest>>

(***************************************************************************)
(* The GPU (external): copies finish in the order they were submitted.     *)
(* With a shared texture the copy needs the mutex and leaves it with the   *)
(* reader.                                                                 *)
(***************************************************************************)
FinishCopy ==
  /\ ~ lost /\ gpu # <<>>
  /\ handoff = "SharedTexture" => key = "gpu"
  /\ gpu' = Tail(gpu) /\ fence' = TRUE
  /\ LET c == Head(gpu) IN
       buf' = [buf EXCEPT ![c.buf] =
                 IF \E i \in 2 .. Len(gpu) : gpu[i].buf = c.buf THEN Mixed ELSE c.scene]
  /\ key' = IF handoff = "SharedTexture" THEN "reader" ELSE key
  /\ UNCHANGED <<handoff, engineVars, rpc, drawn, render, inFlight, target, presented, consumed,
                 front, hostVars, memoryVars, historyVars, lost, faults>>

(***************************************************************************)
(* The host                                                                *)
(***************************************************************************)
\* The overlay is ticked once it has a first frame.
Ticks ==
  /\ presented > 0 /\ hpc = "idle"
  /\ UNCHANGED <<handoff, engineVars, rasterVars, target, presented, front, gpu, size,
                 memoryVars, newest, dropped, late, raced, lost, faults>>

\* Mutation: the host reads the shared texture without its key.
CopySharedFrame_NoAcquire ==
  /\ Ticks /\ handoff = "SharedTexture" /\ ~ lost
  /\ presented # consumed
  /\ texture' = buf[0] /\ fits' = (target = size)
  /\ key' = "writer"
  /\ consumed' = presented
  /\ UNCHANGED <<buf, hpc, dirty, unread>>

\* copy_latest_frame, under the frame lock; without the key in time nothing
\* happens and the next tick tries again.
CopySharedFrame ==
  /\ Ticks /\ handoff = "SharedTexture" /\ ~ lost
  /\ presented # consumed
  /\ key = "reader"
  /\ texture' = buf[0] /\ fits' = (target = size)
  /\ key' = "writer"
  /\ consumed' = presented
  /\ UNCHANGED <<buf, hpc, dirty, unread>>

UploadReadback ==
  /\ Ticks /\ handoff = "Readback" /\ ~ lost
  /\ presented # consumed
  /\ texture' = buf[front] /\ fits' = (target = size)
  /\ consumed' = presented
  /\ UNCHANGED <<buf, key, hpc, dirty, unread>>

\* A resize replaces the texture and tells the engine.  pixel_buffer keeps its
\* bytes, in rows of another length.
Resize ==
  /\ size <= MaxResizes /\ hpc = "idle"
  /\ size' = size + 1
  /\ texture' = 0 /\ fits' = FALSE
  /\ buf' = IF Vulkan \/ buf[0] = 0 THEN buf ELSE [buf EXCEPT ![0] = Mixed]
  /\ raced' = IF rpc = "writing" THEN TRUE ELSE raced
  /\ UNCHANGED <<handoff, engineVars, rasterVars, target, presented, consumed, front, key, gpu,
                 hpc, dirty, memoryVars, newest, dropped, late, unread, lost, faults>>

\* update_memory_state: within the headroom the state stays.  A change is queued
\* for the application (pause_frames_while_memory_exhausted).
ProbeMemory ==
  /\ Vulkan /\ probes < MaxProbes
  /\ \E free \in {"none", "within headroom", "enough"} :
       exhausted' = (free = "none" \/ (exhausted /\ free = "within headroom"))
  /\ exhausted' # exhausted
  /\ probes' = probes + 1
  /\ lifecycle' = Append(lifecycle, IF exhausted' THEN "hidden" ELSE "resumed")
  /\ UNCHANGED <<handoff, engineVars, rasterVars, sharedVars, hostVars, historyVars, lost, faults>>

(***************************************************************************)
(* The software renderer                                                   *)
(***************************************************************************)
StartSoftwareFrame ==
  /\ StartsFrame /\ handoff = "Software"
  /\ rpc' = "drawing"
  /\ UNCHANGED <<render, inFlight, fence, sharedVars, historyVars, lost, faults>>

\* on_present copies row by row, with no lock ...
on_present_Copy ==
  /\ Presents("Software")
  /\ rpc' = "writing"
  /\ buf' = [buf EXCEPT ![0] = Mixed]
  /\ UNCHANGED <<inFlight, fence, target, presented, consumed, front, key, gpu, historyVars,
                 lost, faults>>

\* ... and says so when it is done.  A frame of another size is cut to fit.
on_present_Done ==
  /\ rpc = "writing"
  /\ rpc' = "idle"
  /\ buf' = [buf EXCEPT ![0] = IF drawn.size = size THEN drawn.scene ELSE Mixed]
  /\ dirty' = TRUE
  /\ presented' = presented + 1 /\ newest' = drawn.scene
  /\ UNCHANGED <<handoff, engineVars, drawn, render, inFlight, fence, target, consumed, front,
                 key, gpu, hpc, size, texture, fits, memoryVars, dropped, late, unread, raced,
                 lost, faults>>

\* tick takes the mark first ...
tick_Take ==
  /\ Ticks /\ handoff = "Software" /\ dirty
  /\ dirty' = FALSE /\ hpc' = "uploading"
  /\ UNCHANGED <<buf, consumed, key, texture, fits, unread>>

\* Mutation: the mark is taken again after the upload.
tick_Upload_TakesMark ==
  /\ hpc = "uploading" /\ hpc' = "idle"
  /\ texture' \in {buf[0]} \cup (IF dirty THEN {Mixed} ELSE {})
  /\ fits' = TRUE /\ unread' = FALSE /\ dirty' = FALSE
  /\ UNCHANGED <<handoff, engineVars, rasterVars, sharedVars, size, memoryVars, newest,
                 dropped, late, raced, lost, faults>>

\* ... and reads pixel_buffer then, which a frame may be written into meanwhile.
tick_Upload ==
  /\ hpc = "uploading" /\ hpc' = "idle"
  /\ texture' \in {buf[0]} \cup (IF dirty THEN {Mixed} ELSE {})
  /\ fits' = TRUE /\ unread' = FALSE
  /\ UNCHANGED <<handoff, engineVars, rasterVars, sharedVars, size, dirty, memoryVars, newest,
                 dropped, late, raced, lost, faults>>

\* The texture cannot be mapped: the mark is gone all the same.
tick_MapFails ==
  /\ hpc = "uploading" /\ hpc' = "idle"
  /\ faults < MaxFaults /\ faults' = faults + 1
  /\ unread' = TRUE
  /\ UNCHANGED <<handoff, engineVars, rasterVars, sharedVars, size, texture, fits, dirty,
                 memoryVars, newest, dropped, late, raced, lost>>

Engine == DrawScene \/ TakeMetrics \/ TakeLifecycle
GetNextImage ==
  RefuseImage \/ ReuseImage \/ WaitIdleFails \/ ReplaceImage \/ ImageFails \/ ReplaceTarget
  \/ TargetFails
Present ==
  \/ SubmitSharedCopy \/ SubmitReadback \/ PreviousCopyLate \/ SubmitFails \/ PresentMismatch
  \/ PublishReadback \/ ReadbackFails
Software ==
  StartSoftwareFrame \/ on_present_Copy \/ on_present_Done \/ tick_Take \/ tick_Upload
  \/ tick_MapFails
Host == CopySharedFrame \/ UploadReadback \/ Resize \/ ProbeMemory

Next == Engine \/ GetNextImage \/ Present \/ FinishCopy \/ Host \/ Software

Spec == Init /\ [][Next]_vars

(***************************************************************************)
(* The engine's threads and the GPU get on, and the host ticks every       *)
(* frame.  Nothing says that the application draws, the host resizes or a  *)
(* call fails.                                                             *)
(***************************************************************************)
FairSpec ==
  /\ Spec
  /\ WF_vars(TakeMetrics) /\ WF_vars(TakeLifecycle)
  /\ WF_vars(RefuseImage \/ ReuseImage \/ ReplaceImage \/ StartSoftwareFrame)
  /\ WF_vars(ReplaceTarget)
  /\ WF_vars(SubmitSharedCopy \/ SubmitReadback \/ PresentMismatch \/ on_present_Copy)
  /\ WF_vars(PublishReadback) /\ WF_vars(on_present_Done) /\ WF_vars(FinishCopy)
  /\ WF_vars(CopySharedFrame \/ UploadReadback)
  /\ WF_vars(tick_Take) /\ WF_vars(tick_Upload)

(***************************************************************************)
(* Properties                                                              *)
(***************************************************************************)
Content == Nat \cup {Mixed}

EngineType ==
  /\ handoff \in {"SharedTexture", "Readback", "Software"}
  /\ scene \in Nat /\ wants \in BOOLEAN /\ metrics \in Nat /\ dart \in {"resumed", "hidden"}
  /\ lost \in BOOLEAN /\ faults \in Nat
RasterType ==
  /\ rpc \in {"idle", "allocated", "drawing", "readback", "writing"}
  /\ drawn \in [scene : Nat, size : Nat]
  /\ render \in Nat /\ inFlight \in BOOLEAN /\ fence \in BOOLEAN
CountType ==
  target \in Nat /\ presented \in Nat /\ consumed \in Nat /\ front \in {0, 1}
CopyType ==
  /\ buf \in [{0, 1} -> Content] /\ key \in {"writer", "reader", "gpu"}
  /\ gpu \in Seq([buf : {0, 1}, scene : Nat])
HostType ==
  /\ hpc \in {"idle", "uploading"} /\ size \in Nat /\ texture \in Content
  /\ fits \in BOOLEAN /\ dirty \in BOOLEAN
MemoryType ==
  /\ exhausted \in BOOLEAN /\ lifecycle \in Seq({"resumed", "hidden"}) /\ probes \in Nat
HistoryType ==
  /\ newest \in Nat /\ dropped \in BOOLEAN /\ late \in BOOLEAN
  /\ unread \in BOOLEAN /\ raced \in BOOLEAN

TypeOK ==
  EngineType /\ RasterType /\ CountType /\ CopyType /\ HostType /\ MemoryType /\ HistoryType

\* "Which key is the mutex on" is a fact the CPU knows, presented > consumed: so
\* no copy ever waits for a key the host does not release, and the host never
\* for one the GPU does not (SharedFrameState).
KeyAgrees ==
  handoff = "SharedTexture" =>
    key = IF gpu # <<>> THEN "gpu"
          ELSE IF presented > consumed THEN "reader" ELSE "writer"

\* The host never shows a buffer the GPU was writing, unless a read-back was
\* given up before it finished: the next frame then uses its fence and buffer.
HostReadsFinished == Vulkan /\ ~ late => texture # Mixed

\* After a software tick with nothing new to upload the texture shows what
\* pixel_buffer holds: no frame is overtaken by the mark that announced it.
UploadCurrent ==
  handoff = "Software" /\ ~ dirty /\ hpc = "idle" /\ rpc # "writing" /\ ~ unread =>
    texture \in {0, buf[0]}

\* Vulkan hands over a register of the newest frame, until a read-back is late.
Register == INSTANCE FrameRegister WITH
  latest <- newest,
  shown  <- texture,
  ok     <- Vulkan /\ ~ late

ImplementsRegister == Register!Spec

\* Why the host may be left with another frame than the newest scene: a call
\* failed since and nothing new was drawn, or the memory is exhausted.
Excused == lost \/ dropped \/ late \/ exhausted \/ unread \/ raced

\* In the end the host shows the newest scene in the overlay's size: a resize,
\* a frame never taken, a paused application lose nothing for good.
SettlesOnNewest == <>[](Excused \/ (texture = scene /\ fits))
=============================================================================
