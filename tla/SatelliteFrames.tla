--------------------------- MODULE SatelliteFrames ---------------------------
(***************************************************************************)
(* The life of a frame of one secondary view.  Three parties share the     *)
(* view's ViewSurface through the registry lock: the engine's raster       *)
(* thread (create_backing_store and present callbacks), the window thread  *)
(* that samples the shared texture into its swapchain (pump_frame), and    *)
(* the game's render thread that copies it into a host texture             *)
(* (tick_view).  No lock covers the pixels: the parties are ordered by the *)
(* frame counter and by the texture size only.                             *)
(*                                                                         *)
(* One acquisition of the registry lock is one action, so pump_frame is    *)
(* five.  Textures are numbered in the order they are allocated, and the   *)
(* pixels of a texture are the number of the last frame completed in it;   *)
(* per region for the texture the host copies damage from.                 *)
(***************************************************************************)
EXTENDS Naturals

CONSTANTS
  Sizes,          \* sizes a client area or a texture may have
  Regions,        \* parts of a texture that damage tells apart
  Kinds,          \* a view is sampled by a satellite "window" or is "offscreen"
  EmptyDamage,    \* may the engine present a frame without a paint region?
  Revisit,        \* may the view be resized back to a smaller size?
  MaxTextures,    \* bound: shared textures allocated
  MaxResizes,     \* bound: resizes by the user or the host
  MaxAppFrames,   \* bound: frames the Dart side schedules on its own
  MaxFails,       \* bound: failing GPU calls
  None            \* nothing opened, nothing drawn, or u64::MAX

ASSUME FramesAssumption ==
  /\ Sizes \subseteq Nat /\ Sizes # {}
  /\ Kinds \subseteq {"window", "offscreen"}
  /\ EmptyDamage \in BOOLEAN /\ Revisit \in BOOLEAN
  /\ MaxTextures \in Nat \ {0} /\ MaxResizes \in Nat
  /\ MaxAppFrames \in Nat /\ MaxFails \in Nat
  /\ None \notin Nat

Textures == 1 .. MaxTextures

VARIABLES
  \* ViewSurface, under the registry lock
  texture,      \* angle_internal_texture and the shared_handle to it
  textureSize,  \* texture_size
  gl,           \* the texture the GL framebuffer is bound to, or None
  shared,       \* angle_shared_texture: the texture open on the game device
  hostSize,     \* host_texture_size
  presented,    \* frame_presented
  copied,       \* frame_copied
  damage,       \* frame_damage_rects, as the regions they cover
  \* pixels
  content,      \* last frame completed in each texture, 0 if none
  region,       \* frame that last changed each region of the current texture
  hostCopy,     \* frame each region of the host texture shows, 0 if garbage
  \* engine
  metrics,      \* the last window metrics sent for the view
  frameWanted,  \* a frame is scheduled
  phase,        \* the raster thread: "idle", "begun" or "painting"
  frameSize,    \* size the frame in progress is laid out for
  cache,        \* size of the backing store the engine keeps, or None
  painting,     \* regions the frame in progress changes
  \* window thread
  client,       \* client size of the window
  iconic,       \* the window is minimised
  wpc,          \* next step of pump_frame
  target,       \* target_w, target_h
  cur,          \* cur_w, cur_h: size of the swapchain
  needOpen,     \* need_open
  srv,          \* shared_srv: the texture it samples, or None
  opened,       \* opened_w, opened_h, None after a reset
  lastFrame,    \* last_frame, None for u64::MAX
  frame,        \* the counter as read in this pump
  rtv,          \* is there a render target view to draw through?
  shown,        \* what the last draw put on the screen
  \* bounds
  resizes, appFrames, fails

surfaceVars == <<texture, textureSize, gl, shared, hostSize, presented, copied, damage>>
pixelVars   == <<content, region, hostCopy>>
engineVars  == <<metrics, frameWanted, phase, frameSize, cache, painting>>
pumpVars    == <<wpc, target, cur, needOpen, srv, opened, lastFrame, frame,
                 rtv, shown>>
windowVars  == <<client, iconic, pumpVars>>
boundVars   == <<resizes, appFrames, fails>>
vars == <<surfaceVars, pixelVars, engineVars, windowVars, boundVars>>

NoFrame == [texture |-> None, frame |-> 0]
Fresh == [r \in Regions |-> 0]
Windowed == wpc # "none"

\* The view as add_view_inner leaves it: the texture exists and is open on the
\* game device, no frame was rendered into it.  A window thread has tried to
\* open it once more on its own device before its loop begins.
Init ==
  /\ texture = 1 /\ gl = None /\ shared = 1
  /\ textureSize \in Sizes
  /\ hostSize = textureSize /\ metrics = textureSize
  /\ presented = 0 /\ copied = 0 /\ damage = {}
  /\ content = [t \in Textures |-> 0]
  /\ region = Fresh /\ hostCopy = Fresh
  /\ frameWanted = TRUE /\ phase = "idle" /\ frameSize = textureSize
  /\ cache = None /\ painting = {}
  /\ client = textureSize /\ iconic = FALSE
  /\ \/ "window" \in Kinds /\ wpc = "resize" /\ srv \in {1, None}
     \/ "offscreen" \in Kinds /\ wpc = "none" /\ srv = None
  /\ target = textureSize /\ cur = textureSize /\ opened = textureSize
  /\ needOpen = FALSE
  /\ lastFrame = None /\ frame = 0 /\ rtv = TRUE /\ shown = NoFrame
  /\ resizes = 0 /\ appFrames = 0 /\ fails = 0

(***************************************************************************)
(* GPU calls may fail; the cost of a failure is one unit of the bound.     *)
(***************************************************************************)
CallFails == fails < MaxFails /\ fails' = fails + 1
CallWorks == fails' = fails

(***************************************************************************)
(* The engine.  A frame lays out for the metrics it finds; the raster      *)
(* thread asks for a backing store unless it keeps one of that size.       *)
(***************************************************************************)
AppSchedulesFrame ==
  /\ appFrames < MaxAppFrames /\ ~ frameWanted
  /\ appFrames' = appFrames + 1
  /\ frameWanted' = TRUE
  /\ UNCHANGED <<surfaceVars, pixelVars, metrics, phase, frameSize, cache, painting,
                 windowVars, resizes, fails>>

BeginFrame ==
  /\ phase = "idle" /\ frameWanted
  /\ frameWanted' = FALSE
  /\ frameSize' = metrics
  /\ phase' = "begun"
  /\ UNCHANGED <<surfaceVars, pixelVars, metrics, cache, painting, windowVars, boundVars>>

\* A frame changes any part of a texture it finds rendered, all of a new one.
StartPainting(rendered) ==
  /\ painting' \in IF rendered THEN SUBSET Regions ELSE {Regions}
  /\ phase' = "painting"

ReuseBackingStore ==
  /\ phase = "begun" /\ cache = frameSize
  /\ StartPainting(content[texture] # 0)
  /\ UNCHANGED <<surfaceVars, pixelVars, metrics, frameWanted, frameSize, cache,
                 windowVars, boundVars>>

should_realloc_texture == frameSize # textureSize

\* realloc_satellite_gpu: a new texture, the GL objects and the game device's
\* view of the old one dropped.
Realloc ==
  /\ texture < MaxTextures
  /\ texture' = texture + 1
  /\ textureSize' = frameSize
  /\ shared' = None
  /\ region' = Fresh

Keep == UNCHANGED <<texture, textureSize, shared, region>>

\* Mutation: realloc_satellite_gpu forgets delete_gl.
GlAfterRealloc_NotDeleted == gl

\* Where the GL framebuffer is bound once realloc_satellite_gpu is done with it.
GlAfterRealloc == IF texture' = texture THEN gl ELSE None

\* build_satellite_gl succeeds, or there is nothing to build.
BackingStoreReady ==
  /\ gl' = IF GlAfterRealloc = None THEN texture' ELSE GlAfterRealloc
  /\ cache' = frameSize
  /\ StartPainting(content[texture'] # 0)

\* build_satellite_gl fails: the callback returns false, the frame is dropped.
BackingStoreRefused ==
  /\ GlAfterRealloc = None
  /\ gl' = None
  /\ cache' = None
  /\ phase' = "idle" /\ painting' = {}

\* create_backing_store_callback.  A failed reallocation is logged and the
\* callback carries on with the old texture.
CreateBackingStore ==
  /\ phase = "begun" /\ cache # frameSize
  /\ \/ /\ should_realloc_texture
        /\ Realloc
        /\ \/ BackingStoreReady /\ CallWorks
           \/ BackingStoreRefused /\ CallFails
     \/ /\ should_realloc_texture
        /\ Keep
        /\ BackingStoreReady \/ BackingStoreRefused
        /\ CallFails
     \/ /\ ~ should_realloc_texture
        /\ Keep
        /\ \/ BackingStoreReady /\ CallWorks
           \/ BackingStoreRefused /\ CallFails
  /\ UNCHANGED <<hostSize, presented, copied, damage, content, hostCopy, metrics,
                 frameWanted, frameSize, windowVars, resizes, appFrames>>

record_damage(rects) == damage' = damage \cup rects

\* present_view_callback: GL finished, damage recorded, counter bumped.
PresentView ==
  /\ phase = "painting"
  /\ \/ record_damage(painting)
     \/ EmptyDamage /\ record_damage({})
  /\ presented' = presented + 1
  /\ content' = [content EXCEPT ![gl] = presented + 1]
  /\ region' = [r \in Regions |-> IF r \in painting THEN presented + 1 ELSE region[r]]
  /\ painting' = {} /\ phase' = "idle"
  /\ UNCHANGED <<texture, textureSize, gl, shared, hostSize, copied, hostCopy,
                 metrics, frameWanted, frameSize, cache, windowVars, boundVars>>

(***************************************************************************)
(* The host.  tick_view runs whole under the registry lock, but nothing    *)
(* keeps the raster thread from painting into the texture meanwhile.       *)
(***************************************************************************)
should_copy_frame == presented > copied

needs_host_texture_recreate == textureSize # hostSize

\* What a copy of region r from the texture open on the game device yields.
Sampled(r) == IF shared' = texture /\ r \notin painting THEN region[r] ELSE 0

\* An empty list of rectangles means the whole texture.
CopiedRegions == IF damage = {} THEN Regions ELSE damage

\* Mutation: the damage is drained before the shared texture is opened.
TickView_DrainsFirst ==
  /\ should_copy_frame
  /\ hostSize' = textureSize
  /\ damage' = {}
  /\ LET kept(r) == IF needs_host_texture_recreate THEN 0 ELSE hostCopy[r]
     IN  \/ /\ shared' = IF shared = None THEN texture ELSE shared
            /\ hostCopy' = [r \in Regions |-> IF r \in CopiedRegions THEN Sampled(r) ELSE kept(r)]
            /\ copied' = presented
            /\ CallWorks
         \/ /\ shared = None
            /\ hostCopy' = [r \in Regions |-> kept(r)]
            /\ UNCHANGED <<shared, copied>>
            /\ CallFails
  /\ UNCHANGED <<texture, textureSize, gl, presented, content, region, engineVars,
                 windowVars, resizes, appFrames>>

\* A recreated host texture holds nothing until it is copied into.
TickView ==
  /\ should_copy_frame
  /\ hostSize' = textureSize
  /\ LET kept(r) == IF needs_host_texture_recreate THEN 0 ELSE hostCopy[r]
     IN  \/ /\ shared' = IF shared = None THEN texture ELSE shared
            /\ hostCopy' = [r \in Regions |-> IF r \in CopiedRegions THEN Sampled(r) ELSE kept(r)]
            /\ damage' = {}
            /\ copied' = presented
            /\ CallWorks
         \/ /\ shared = None   \* OpenSharedResource fails: nothing to copy from
            /\ hostCopy' = [r \in Regions |-> kept(r)]
            /\ UNCHANGED <<shared, damage, copied>>
            /\ CallFails
  /\ UNCHANGED <<texture, textureSize, gl, presented, content, region, engineVars,
                 windowVars, resizes, appFrames>>

\* resize_view, called with the size the view shall have.
resize_view(size) ==
  /\ metrics' = size
  /\ frameWanted' = TRUE

MayResize(from, to) ==
  /\ resizes < MaxResizes /\ resizes' = resizes + 1
  /\ to # from
  /\ Revisit \/ to > from

\* The host resizes an offscreen view.
HostResizes ==
  /\ ~ Windowed
  /\ \E size \in Sizes : MayResize(metrics, size) /\ resize_view(size)
  /\ UNCHANGED <<surfaceVars, pixelVars, phase, frameSize, cache, painting, windowVars,
                 appFrames, fails>>

(***************************************************************************)
(* The window: its user, and its thread going round pump_frame.            *)
(***************************************************************************)
UserResizes ==
  /\ Windowed /\ ~ iconic
  /\ \E size \in Sizes : MayResize(client, size) /\ client' = size
  /\ UNCHANGED <<surfaceVars, pixelVars, engineVars, iconic, pumpVars, appFrames, fails>>

UserMinimises ==
  /\ Windowed /\ ~ iconic
  /\ resizes < MaxResizes /\ resizes' = resizes + 1
  /\ iconic' = TRUE
  /\ UNCHANGED <<surfaceVars, pixelVars, engineVars, client, pumpVars, appFrames, fails>>

UserRestores ==
  /\ iconic
  /\ iconic' = FALSE
  /\ UNCHANGED <<surfaceVars, pixelVars, engineVars, client, pumpVars, boundVars>>

\* A minimised window skips the pump altogether.
PumpResize ==
  /\ wpc = "resize" /\ ~ iconic
  /\ target' = client
  /\ IF client # target
     THEN resize_view(client)
     ELSE UNCHANGED <<metrics, frameWanted>>
  /\ wpc' = "size"
  /\ UNCHANGED <<surfaceVars, pixelVars, phase, frameSize, cache, painting, client,
                 iconic, cur, needOpen, srv, opened, lastFrame, frame, rtv, shown,
                 boundVars>>

\* ResizeBuffers and rebuild_rtv after the old view is released.  When either
\* fails there is nothing to draw through, and nobody tries again.
ResizeSwapchain ==
  \/ rtv' = TRUE /\ CallWorks
  \/ rtv' = FALSE /\ CallFails

\* Mutation: the size is followed, the opened texture is kept.
PumpSize_KeepsOpened ==
  /\ wpc = "size"
  /\ cur' = textureSize
  /\ IF textureSize # cur
     THEN lastFrame' = None /\ opened' = textureSize /\ UNCHANGED srv /\ ResizeSwapchain
     ELSE UNCHANGED <<srv, opened, lastFrame, rtv, fails>>
  /\ needOpen' = (srv' = None \/ opened' # cur')
  /\ wpc' = "open"
  /\ UNCHANGED <<surfaceVars, pixelVars, engineVars, client, iconic, target, frame,
                 shown, resizes, appFrames>>

\* engine_grew: the swapchain follows the texture, what was opened is dropped.
\* The size is taken over whether or not the swapchain could be resized.
PumpSize ==
  /\ wpc = "size"
  /\ cur' = textureSize
  /\ IF textureSize # cur
     THEN srv' = None /\ opened' = None /\ lastFrame' = None /\ ResizeSwapchain
     ELSE UNCHANGED <<srv, opened, lastFrame, rtv, fails>>
  /\ needOpen' = (srv' = None \/ opened' # cur')
  /\ wpc' = "open"
  /\ UNCHANGED <<surfaceVars, pixelVars, engineVars, client, iconic, target, frame,
                 shown, resizes, appFrames>>

\* open_shared_view_texture reads the handle anew.  With nothing to sample the
\* pump asks for a frame.
PumpOpen ==
  /\ wpc = "open"
  /\ \/ needOpen /\ srv' = texture /\ opened' = cur /\ CallWorks
     \/ needOpen /\ UNCHANGED <<srv, opened>> /\ CallFails
     \/ ~ needOpen /\ UNCHANGED <<srv, opened>> /\ CallWorks
  /\ frameWanted' = (frameWanted \/ srv' = None)
  /\ wpc' = "counter"
  /\ UNCHANGED <<surfaceVars, pixelVars, metrics, phase, frameSize, cache, painting,
                 client, iconic, target, cur, needOpen, lastFrame, frame, rtv, shown,
                 resizes, appFrames>>

view_frame_counter ==
  /\ frame' = presented

\* Mutation: last_frame is assigned where the counter is read.
PumpCounter_EarlyLastFrame ==
  /\ wpc = "counter"
  /\ view_frame_counter
  /\ lastFrame' = frame'
  /\ wpc' = "draw"
  /\ UNCHANGED <<surfaceVars, pixelVars, engineVars, client, iconic, target, cur,
                 needOpen, srv, opened, rtv, shown, boundVars>>

PumpCounter ==
  /\ wpc = "counter"
  /\ view_frame_counter
  /\ wpc' = "draw"
  /\ UNCHANGED <<surfaceVars, pixelVars, engineVars, client, iconic, target, cur,
                 needOpen, srv, opened, lastFrame, rtv, shown, boundVars>>

new_frame == frame # lastFrame \/ needOpen

\* BlitPipeline::draw or clear, then Present.  Without a render target view they
\* return at once and Present shows a buffer nothing was drawn into: what is on
\* the screen already, or something older.
Presents(image) == shown' \in IF rtv THEN {image} ELSE {shown, NoFrame}

\* A frame is counted as shown before it is drawn.
PumpDraw ==
  /\ wpc = "draw"
  /\ IF srv = None
     THEN Presents(NoFrame) /\ UNCHANGED lastFrame     \* clear
     ELSE IF new_frame
          THEN /\ lastFrame' = frame
               /\ Presents([texture |-> srv, frame |-> content[srv]])
          ELSE UNCHANGED <<lastFrame, shown>>
  /\ wpc' = "resize"
  /\ UNCHANGED <<surfaceVars, pixelVars, engineVars, client, iconic, target, cur,
                 needOpen, srv, opened, frame, rtv, boundVars>>

Engine == BeginFrame \/ ReuseBackingStore \/ CreateBackingStore \/ PresentView
Pump == PumpResize \/ PumpSize \/ PumpOpen \/ PumpCounter \/ PumpDraw
User == UserResizes \/ UserMinimises \/ UserRestores

Next == Engine \/ Pump \/ User \/ TickView \/ HostResizes \/ AppSchedulesFrame

Spec == Init /\ [][Next]_vars

\* The raster thread and the window thread keep running, and a window is not
\* left minimised for ever.  Nothing is assumed of the host, of the Dart side or of the
\* calls that may fail.
FairSpec ==
  /\ Spec
  /\ WF_vars(Engine)
  /\ WF_vars(Pump)
  /\ WF_vars(UserRestores)

(***************************************************************************)
(* Properties                                                              *)
(***************************************************************************)
SurfaceType ==
  /\ texture \in Textures
  /\ textureSize \in Sizes /\ hostSize \in Sizes
  /\ gl \in Textures \cup {None} /\ shared \in Textures \cup {None}
  /\ presented \in Nat /\ copied \in Nat
  /\ damage \in SUBSET Regions
PixelType ==
  /\ content \in [Textures -> Nat]
  /\ region \in [Regions -> Nat]
  /\ hostCopy \in [Regions -> Nat]
EngineType ==
  /\ metrics \in Sizes /\ frameSize \in Sizes /\ cache \in Sizes \cup {None}
  /\ frameWanted \in BOOLEAN
  /\ phase \in {"idle", "begun", "painting"}
  /\ painting \in SUBSET Regions
WindowType ==
  /\ client \in Sizes /\ target \in Sizes /\ cur \in Sizes
  /\ iconic \in BOOLEAN /\ needOpen \in BOOLEAN /\ rtv \in BOOLEAN
  /\ wpc \in {"none", "resize", "size", "open", "counter", "draw"}
  /\ srv \in Textures \cup {None} /\ opened \in Sizes \cup {None}
  /\ lastFrame \in Nat \cup {None} /\ frame \in Nat
ShownType == shown \in [texture : Textures \cup {None}, frame : Nat]
BoundType == resizes \in Nat /\ appFrames \in Nat /\ fails \in Nat

TypeOK ==
  SurfaceType /\ PixelType /\ EngineType /\ WindowType /\ ShownType /\ BoundType

\* The resources of a view belong together: the GL framebuffer and the game
\* device's view are of the current texture or dropped, painting goes into the
\* current texture, and a texture not yet allocated holds nothing.  (compositor.rs
\* realloc_satellite_gpu and tick_view_surface, which run on different threads.)
SurfaceCoherent ==
  /\ gl \in {texture, None}
  /\ shared \in {texture, None}
  /\ phase = "painting" => gl = texture
  /\ cache # None => gl = texture
  /\ \A t \in Textures : t > texture => content[t] = 0

\* No frame is lost between the counter and the screen: when a window that can
\* draw is satisfied with the latest frame of the current texture (last_frame
\* equals the counter), that very frame is on the screen.  (pump_frame reads the
\* counter and samples the texture in separate steps while frames are being
\* presented; a failed swapchain resize leaves a window that counts the frames
\* without drawing them until the next size, which is why it must be able to draw.)
NoFrameLost ==
  rtv /\ srv = texture /\ content[texture] # 0 /\ lastFrame = presented
    => shown = [texture |-> texture, frame |-> presented]

\* The host texture is up to date except where work is pending: a region that
\* does not show the current texture's pixels is in the damage list, is being
\* painted now, or the texture holds no frame yet.  (tick_view copies damage only
\* and runs while the next frame is painted: a torn region is copied again.)
HostCopyCurrent ==
  content[texture] # 0 =>
    \A r \in Regions : hostCopy[r] = region[r] \/ r \in damage \/ r \in painting

\* Resizing converges: in the end the texture has the client size, the window
\* has the current texture open, and its latest frame is on the screen.
\* (pump_frame, create_backing_store and present, whatever their interleaving.)
Settled ==
  /\ target = client /\ textureSize = client /\ cur = client
  /\ srv = texture
  /\ presented # 0
  /\ shown = [texture |-> texture, frame |-> presented]
Converges == <>[]Settled

\* The strengthening that makes NoFrameLost inductive: what the counters bound,
\* and that a window without a texture claims no frame.
CounterBounds ==
  /\ content[texture] \in {0, presented}
  /\ frame <= presented
  /\ lastFrame # None => lastFrame <= presented
  /\ srv # None => srv <= texture
PumpCoherent ==
  /\ opened # cur => srv = None
  /\ srv = None => lastFrame = None
  /\ wpc = "open" /\ needOpen => srv = None
FrameInv == TypeOK /\ SurfaceCoherent /\ CounterBounds /\ PumpCoherent /\ NoFrameLost

\* The one for HostCopyCurrent: a host texture of the wrong size waits for a
\* copy of everything, and the first frame of a texture paints all of it.
HostPending ==
  /\ content[texture] # 0 /\ hostSize # textureSize => damage = Regions
  /\ content[texture] = 0 /\ phase = "painting" => painting = Regions
  /\ phase # "painting" => painting = {}
HostInv == TypeOK /\ SurfaceCoherent /\ HostPending /\ HostCopyCurrent
=============================================================================
