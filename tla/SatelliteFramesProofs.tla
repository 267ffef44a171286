------------------------ MODULE SatelliteFramesProofs ------------------------
(***************************************************************************)
(* Theorems about SatelliteFrames, for every set of sizes and regions and  *)
(* every bound.                                                            *)
(***************************************************************************)
EXTENDS SatelliteFrames, TLAPS

USE FramesAssumption

(***************************************************************************)
(* Which actions touch which group of variables.                           *)
(***************************************************************************)
LEMMA SurfaceFrame ==
  ASSUME [Next]_vars
  PROVE  UNCHANGED surfaceVars \/ CreateBackingStore \/ PresentView \/ TickView
BY DEF Next, Engine, Pump, User, vars, AppSchedulesFrame, BeginFrame, ReuseBackingStore,
  HostResizes, UserResizes, UserMinimises, UserRestores, PumpResize, PumpSize, PumpOpen,
  PumpCounter, PumpDraw

LEMMA PixelFrame ==
  ASSUME [Next]_vars
  PROVE  UNCHANGED pixelVars \/ CreateBackingStore \/ PresentView \/ TickView
BY DEF Next, Engine, Pump, User, vars, AppSchedulesFrame, BeginFrame, ReuseBackingStore,
  HostResizes, UserResizes, UserMinimises, UserRestores, PumpResize, PumpSize, PumpOpen,
  PumpCounter, PumpDraw

LEMMA EngineFrame ==
  ASSUME [Next]_vars
  PROVE  \/ UNCHANGED engineVars \/ CreateBackingStore \/ PresentView \/ ReuseBackingStore
         \/ AppSchedulesFrame \/ BeginFrame \/ HostResizes \/ PumpResize \/ PumpOpen
BY DEF Next, Engine, Pump, User, vars, TickView, UserResizes, UserMinimises, UserRestores,
  PumpSize, PumpCounter, PumpDraw

LEMMA WindowFrame ==
  ASSUME [Next]_vars
  PROVE  UNCHANGED windowVars \/ Pump \/ User
BY DEF Next, Engine, vars, TickView, AppSchedulesFrame, BeginFrame, ReuseBackingStore,
  CreateBackingStore, PresentView, HostResizes

LEMMA PaintingFrame ==
  ASSUME [Next]_vars
  PROVE  \/ UNCHANGED <<phase, painting>>
         \/ CreateBackingStore \/ PresentView \/ ReuseBackingStore \/ BeginFrame
BY DEF Next, Engine, Pump, User, vars, engineVars, TickView, AppSchedulesFrame, HostResizes,
  UserResizes, UserMinimises, UserRestores, PumpResize, PumpSize, PumpOpen, PumpCounter,
  PumpDraw

(***************************************************************************)
(* Types                                                                   *)
(***************************************************************************)
LEMMA InitType == Init => TypeOK
<1> SUFFICES ASSUME Init PROVE TypeOK
  OBVIOUS
<1>1. SurfaceType /\ EngineType
  BY DEF Init, SurfaceType, EngineType, Textures
<1>2. PixelType
  BY DEF Init, PixelType, Fresh
<1>3. WindowType /\ BoundType
  <2>1. srv \in Textures \cup {None}
    BY DEF Init, Textures
  <2>2. lastFrame \in Nat \cup {None} /\ frame \in Nat
    BY DEF Init
  <2>3. wpc \in {"none", "resize", "size", "open", "counter", "draw"}
    BY DEF Init
  <2>4. BoundType
    BY DEF Init, BoundType
  <2>. QED
    BY <2>1, <2>2, <2>3, <2>4 DEF Init, WindowType
<1>4. ShownType
  BY DEF Init, ShownType, NoFrame
<1>. QED
  BY <1>1, <1>2, <1>3, <1>4 DEF TypeOK

LEMMA SurfaceTypeStep ==
  ASSUME TypeOK, [Next]_vars
  PROVE  SurfaceType'
<1> USE DEF TypeOK, SurfaceType
<1>1. CASE UNCHANGED surfaceVars
  BY <1>1 DEF surfaceVars
<1>2. CASE CreateBackingStore
  BY <1>2 DEF CreateBackingStore, should_realloc_texture, Realloc, Keep, GlAfterRealloc,
     BackingStoreReady, BackingStoreRefused, EngineType, Textures
<1>3. CASE PresentView
  BY <1>3 DEF PresentView, record_damage, EngineType
<1>4. CASE TickView
  BY <1>4 DEF TickView
<1>. QED
  BY <1>1, <1>2, <1>3, <1>4, SurfaceFrame

LEMMA PixelTypeStep ==
  ASSUME TypeOK, [Next]_vars
  PROVE  PixelType'
<1> USE DEF TypeOK, PixelType
<1>1. CASE UNCHANGED pixelVars
  BY <1>1 DEF pixelVars
<1>2. CASE CreateBackingStore
  BY <1>2 DEF CreateBackingStore, Realloc, Keep, Fresh
<1>3. CASE PresentView
  <2>1. presented \in Nat
    BY DEF SurfaceType
  <2>2. content' \in [Textures -> Nat]
    <3>1. content' = [t \in Textures |-> IF t = gl THEN presented + 1 ELSE content[t]]
      BY <1>3 DEF PresentView
    <3>. QED
      BY <2>1, <3>1
  <2>3. region' \in [Regions -> Nat]
    BY <1>3, <2>1 DEF PresentView
  <2>. QED
    BY <1>3, <2>2, <2>3 DEF PresentView
<1>4. CASE TickView
  BY <1>4 DEF TickView, Sampled
<1>. QED
  BY <1>1, <1>2, <1>3, <1>4, PixelFrame

LEMMA EngineTypeStep ==
  ASSUME TypeOK, [Next]_vars
  PROVE  EngineType'
<1> USE DEF TypeOK, EngineType
<1>1. CASE UNCHANGED engineVars
  BY <1>1 DEF engineVars
<1>2. CASE CreateBackingStore
  BY <1>2 DEF CreateBackingStore, BackingStoreReady, BackingStoreRefused, StartPainting
<1>3. CASE PresentView \/ ReuseBackingStore
  BY <1>3 DEF PresentView, ReuseBackingStore, StartPainting
<1>4. CASE AppSchedulesFrame \/ BeginFrame
  BY <1>4 DEF AppSchedulesFrame, BeginFrame
<1>5. CASE HostResizes
  BY <1>5 DEF HostResizes, resize_view
<1>6. CASE PumpResize
  BY <1>6 DEF PumpResize, resize_view, WindowType
<1>7. CASE PumpOpen
  BY <1>7 DEF PumpOpen
<1>. QED
  BY <1>1, <1>2, <1>3, <1>4, <1>5, <1>6, <1>7, EngineFrame

LEMMA WindowTypeStep ==
  ASSUME TypeOK, [Next]_vars
  PROVE  WindowType' /\ ShownType'
<1> USE DEF TypeOK, WindowType, ShownType
<1>1. CASE UNCHANGED windowVars
  BY <1>1 DEF windowVars, pumpVars
<1>2. CASE User
  BY <1>2 DEF User, UserResizes, UserMinimises, UserRestores, pumpVars
<1>3. CASE PumpResize \/ PumpSize
  BY <1>3 DEF PumpResize, PumpSize, ResizeSwapchain, SurfaceType
<1>4. CASE PumpOpen \/ PumpCounter
  BY <1>4 DEF PumpOpen, PumpCounter, view_frame_counter, SurfaceType
<1>5. CASE PumpDraw
  <2>1. WindowType'
    BY <1>5 DEF PumpDraw
  <2>2. CASE srv = None
    BY <1>5, <2>1, <2>2 DEF PumpDraw, Presents, NoFrame
  <2>3. CASE srv # None
    <3>1. content[srv] \in Nat
      BY <2>3 DEF PixelType
    <3>. QED
      BY <1>5, <2>1, <2>3, <3>1 DEF PumpDraw, Presents, NoFrame
  <2>. QED
    BY <2>2, <2>3
<1>. QED
  BY <1>1, <1>2, <1>3, <1>4, <1>5, WindowFrame DEF Pump

LEMMA BoundTypeStep ==
  ASSUME TypeOK, [Next]_vars
  PROVE  BoundType'
<1> USE DEF TypeOK, BoundType, boundVars
<1>1. CASE AppSchedulesFrame \/ CreateBackingStore \/ TickView \/ PumpOpen \/ PumpSize
  BY <1>1 DEF AppSchedulesFrame, CreateBackingStore, TickView, PumpOpen, PumpSize,
     ResizeSwapchain, CallFails, CallWorks
<1>2. CASE HostResizes \/ UserResizes \/ UserMinimises
  BY <1>2 DEF HostResizes, UserResizes, UserMinimises, MayResize
<1>3. CASE UNCHANGED boundVars
  BY <1>3
<1>. QED
  BY <1>1, <1>2, <1>3 DEF Next, Engine, Pump, User, vars, BeginFrame, ReuseBackingStore,
     PresentView, UserRestores, PumpResize, PumpCounter, PumpDraw

\* Every variable keeps its type, whatever the sizes, the regions and the bounds.
THEOREM TypeCorrect == Spec => []TypeOK
<1>1. TypeOK /\ [Next]_vars => TypeOK'
  BY SurfaceTypeStep, PixelTypeStep, EngineTypeStep, WindowTypeStep, BoundTypeStep DEF TypeOK
<1>. QED
  BY <1>1, InitType, PTL DEF Spec

(***************************************************************************)
(* The resources of a view                                                 *)
(***************************************************************************)
LEMMA CoherentStep ==
  ASSUME TypeOK, SurfaceCoherent, [Next]_vars
  PROVE  SurfaceCoherent'
<1> USE DEF SurfaceCoherent
<1>1. texture \in Nat /\ None \notin Sizes
  <2>1. texture \in Nat
    BY DEF TypeOK, SurfaceType, Textures
  <2>2. None \notin Sizes
    OBVIOUS
  <2>. QED
    BY <2>1, <2>2
<1>2. CASE CreateBackingStore
  BY <1>1, <1>2 DEF CreateBackingStore, should_realloc_texture, Realloc, Keep, GlAfterRealloc,
     BackingStoreReady, BackingStoreRefused, Textures
<1>3. CASE PresentView
  <2>1. gl = texture /\ gl' = gl /\ texture' = texture /\ UNCHANGED <<shared, cache>>
    BY <1>3 DEF PresentView
  <2>2. ASSUME NEW t \in Textures, t > texture PROVE content'[t] = 0
    <3>1. content'[t] = content[t]
      BY <1>1, <1>3, <2>1, <2>2 DEF PresentView, TypeOK, PixelType, Textures
    <3>. QED
      BY <2>2, <3>1
  <2>. QED
    BY <1>3, <2>1, <2>2
<1>4. CASE ReuseBackingStore
  BY <1>1, <1>4 DEF ReuseBackingStore, StartPainting, surfaceVars, pixelVars, TypeOK, EngineType
<1>5. CASE TickView
  BY <1>5 DEF TickView, engineVars
<1>6. CASE BeginFrame
  BY <1>6 DEF BeginFrame, surfaceVars, pixelVars
<1>7. CASE UNCHANGED <<surfaceVars, pixelVars, phase, cache>>
  BY <1>7 DEF surfaceVars, pixelVars
<1>. QED
  BY <1>2, <1>3, <1>4, <1>5, <1>6, <1>7 DEF Next, Engine, Pump, User, vars, engineVars,
     AppSchedulesFrame, HostResizes, UserResizes, UserMinimises, UserRestores, PumpResize,
     PumpSize, PumpOpen, PumpCounter, PumpDraw

LEMMA InitCoherent == Init => SurfaceCoherent
  BY DEF Init, SurfaceCoherent

\* The GL framebuffer and the game device's view are always of the current
\* texture, whatever allocations, failures and copies come in between.
THEOREM ResourcesCoherent == Spec => []SurfaceCoherent
<1>1. TypeOK /\ SurfaceCoherent /\ [Next]_vars => SurfaceCoherent'
  BY CoherentStep
<1>. QED
  BY <1>1, InitCoherent, TypeCorrect, PTL DEF Spec

(***************************************************************************)
(* The window's frame                                                      *)
(***************************************************************************)
LEMMA CounterStep ==
  ASSUME TypeOK, SurfaceCoherent, CounterBounds, [Next]_vars
  PROVE  CounterBounds'
<1> USE DEF CounterBounds
<1>1. texture \in Textures /\ presented \in Nat /\ frame \in Nat /\ lastFrame \in Nat \cup {None}
      /\ srv \in Textures \cup {None} /\ content \in [Textures -> Nat]
  BY DEF TypeOK, SurfaceType, WindowType, PixelType
<1>2. CASE CreateBackingStore
  <2>1. texture' \in Textures /\ texture' >= texture /\ content' = content /\ presented' = presented
    BY <1>1, <1>2 DEF CreateBackingStore, Realloc, Keep, Textures
  <2>2. texture' # texture => content[texture'] = 0
    BY <1>1, <2>1 DEF SurfaceCoherent, Textures
  <2>3. UNCHANGED <<frame, lastFrame, srv>>
    BY <1>2 DEF CreateBackingStore, windowVars, pumpVars
  <2>. QED
    BY <1>1, <2>1, <2>2, <2>3 DEF Textures
<1>3. CASE PresentView
  <2>1. content'[texture] = presented + 1
    BY <1>1, <1>3 DEF PresentView, SurfaceCoherent
  <2>2. presented' = presented + 1 /\ UNCHANGED <<texture, frame, lastFrame, srv>>
    BY <1>3 DEF PresentView, windowVars, pumpVars
  <2>. QED
    BY <1>1, <2>1, <2>2
<1>4. CASE TickView
  BY <1>4 DEF TickView, windowVars, pumpVars
<1>5. CASE UNCHANGED surfaceVars /\ UNCHANGED pixelVars /\ (Pump \/ User)
  <2>1. UNCHANGED <<texture, presented, content>>
    BY <1>5 DEF surfaceVars, pixelVars
  <2>2. CASE User \/ PumpResize \/ PumpSize
    BY <2>1, <2>2 DEF User, UserResizes, UserMinimises, UserRestores, PumpResize, PumpSize, pumpVars
  <2>3. CASE PumpOpen
    BY <1>1, <2>1, <2>3 DEF PumpOpen, Textures
  <2>4. CASE PumpCounter
    BY <1>1, <2>1, <2>4 DEF PumpCounter, view_frame_counter
  <2>5. CASE PumpDraw
    BY <1>1, <2>1, <2>5 DEF PumpDraw
  <2>. QED
    BY <1>5, <2>2, <2>3, <2>4, <2>5 DEF Pump
<1>6. CASE UNCHANGED surfaceVars /\ UNCHANGED pixelVars /\ UNCHANGED windowVars
  BY <1>6 DEF surfaceVars, pixelVars, windowVars, pumpVars
<1>. QED
  BY <1>2, <1>3, <1>4, <1>5, <1>6, SurfaceFrame, PixelFrame, WindowFrame

LEMMA PumpCoherentStep ==
  ASSUME TypeOK, PumpCoherent, [Next]_vars
  PROVE  PumpCoherent'
<1> USE DEF PumpCoherent
<1>1. CASE UNCHANGED windowVars
  BY <1>1 DEF windowVars, pumpVars
<1>2. CASE User
  BY <1>2 DEF User, UserResizes, UserMinimises, UserRestores, pumpVars
<1>3. CASE PumpResize \/ PumpCounter
  BY <1>3 DEF PumpResize, PumpCounter
<1>4. CASE PumpSize
  BY <1>4 DEF PumpSize
<1>5. CASE PumpOpen
  <2>1. texture # None
    BY DEF TypeOK, SurfaceType, Textures
  <2>. QED
    BY <1>5, <2>1 DEF PumpOpen
<1>6. CASE PumpDraw
  BY <1>6 DEF PumpDraw
<1>. QED
  BY <1>1, <1>2, <1>3, <1>4, <1>5, <1>6, WindowFrame DEF Pump

LEMMA NoFrameLostStep ==
  ASSUME FrameInv, [Next]_vars
  PROVE  NoFrameLost'
<1> USE DEF NoFrameLost
<1>1. texture \in Textures /\ presented \in Nat /\ lastFrame \in Nat \cup {None}
      /\ srv \in Textures \cup {None} /\ content \in [Textures -> Nat] /\ NoFrameLost
  BY DEF FrameInv, TypeOK, SurfaceType, WindowType, PixelType
<1>2. CASE CreateBackingStore
  <2>1. \/ texture' = texture
        \/ texture' = texture + 1
    BY <1>2 DEF CreateBackingStore, Realloc, Keep
  <2>2. UNCHANGED <<srv, lastFrame, rtv, shown, content, presented>>
    BY <1>2 DEF CreateBackingStore, windowVars, pumpVars
  <2>3. srv # None => srv <= texture
    BY DEF FrameInv, CounterBounds
  <2>. QED
    BY <1>1, <2>1, <2>2, <2>3 DEF Textures
<1>3. CASE PresentView
  <2>1. lastFrame # None => lastFrame <= presented
    BY DEF FrameInv, CounterBounds
  <2>2. lastFrame' = lastFrame /\ presented' = presented + 1
    BY <1>3 DEF PresentView, windowVars, pumpVars
  <2>. QED
    BY <1>1, <2>1, <2>2
<1>4. CASE TickView
  BY <1>1, <1>4 DEF TickView, windowVars, pumpVars
<1>5. CASE UNCHANGED surfaceVars /\ UNCHANGED pixelVars /\ (Pump \/ User)
  <2>1. UNCHANGED <<texture, presented, content>>
    BY <1>5 DEF surfaceVars, pixelVars
  <2>2. CASE User \/ PumpResize \/ PumpCounter
    BY <1>1, <2>1, <2>2 DEF User, UserResizes, UserMinimises, UserRestores, PumpResize, PumpCounter,
       pumpVars
  <2>3. CASE PumpSize
    BY <1>1, <2>1, <2>3 DEF PumpSize, Textures
  <2>4. CASE PumpOpen
    <3>1. CASE UNCHANGED srv
      BY <1>1, <2>1, <2>4, <3>1 DEF PumpOpen
    <3>2. CASE srv' # srv
      <4>1. lastFrame = None /\ lastFrame' = lastFrame
        BY <2>4, <3>2 DEF PumpOpen, FrameInv, PumpCoherent
      <4>. QED
        BY <1>1, <2>1, <4>1
    <3>. QED
      BY <3>1, <3>2
  <2>5. CASE PumpDraw
    <3>1. content[texture] \in {0, presented}
      BY DEF FrameInv, CounterBounds
    <3>. QED
      BY <1>1, <2>1, <2>5, <3>1 DEF PumpDraw, Presents, FrameInv, PumpCoherent
  <2>. QED
    BY <1>5, <2>2, <2>3, <2>4, <2>5 DEF Pump
<1>6. CASE UNCHANGED surfaceVars /\ UNCHANGED pixelVars /\ UNCHANGED windowVars
  BY <1>1, <1>6 DEF surfaceVars, pixelVars, windowVars, pumpVars
<1>. QED
  BY <1>2, <1>3, <1>4, <1>5, <1>6, SurfaceFrame, PixelFrame, WindowFrame

LEMMA InitFrameInv == Init => FrameInv
<1> SUFFICES ASSUME Init PROVE FrameInv
  OBVIOUS
<1>1. CounterBounds
  BY DEF Init, CounterBounds, Textures
<1>2. PumpCoherent /\ NoFrameLost
  BY DEF Init, PumpCoherent, NoFrameLost
<1>. QED
  BY <1>1, <1>2, InitType, InitCoherent DEF FrameInv

\* For every size, bound and interleaving, and any failing call: a window that can
\* draw and is satisfied with the latest frame of the current texture has that
\* frame on the screen.
THEOREM WindowLosesNoFrame == Spec => []NoFrameLost
<1>1. FrameInv /\ [Next]_vars => FrameInv'
  <2> SUFFICES ASSUME FrameInv, [Next]_vars PROVE FrameInv'
    OBVIOUS
  <2>1. TypeOK'
    BY SurfaceTypeStep, PixelTypeStep, EngineTypeStep, WindowTypeStep, BoundTypeStep
    DEF FrameInv, TypeOK
  <2>. QED
    BY <2>1, CoherentStep, CounterStep, PumpCoherentStep, NoFrameLostStep DEF FrameInv
<1>2. FrameInv => NoFrameLost
  BY DEF FrameInv
<1>. QED
  BY <1>1, <1>2, InitFrameInv, PTL DEF Spec

(***************************************************************************)
(* The host's copy                                                         *)
(***************************************************************************)
LEMMA HostPendingStep ==
  ASSUME HostInv, [Next]_vars, EmptyDamage = FALSE
  PROVE  HostPending'
<1> USE DEF HostPending
<1>1. texture \in Textures /\ presented \in Nat /\ content \in [Textures -> Nat]
      /\ damage \in SUBSET Regions /\ painting \in SUBSET Regions /\ HostPending
  BY DEF HostInv, TypeOK, SurfaceType, PixelType, EngineType
<1>2. CASE CreateBackingStore
  <2>1. UNCHANGED <<content, damage, hostSize>>
    BY <1>2 DEF CreateBackingStore
  <2>2. CASE Keep
    BY <1>1, <1>2, <2>1, <2>2 DEF CreateBackingStore, Keep, BackingStoreReady,
       BackingStoreRefused, StartPainting
  <2>3. CASE Realloc
    <3>1. content[texture'] = 0
      BY <1>1, <2>3 DEF Realloc, HostInv, SurfaceCoherent, Textures
    <3>. QED
      BY <1>1, <1>2, <2>1, <2>3, <3>1 DEF CreateBackingStore, BackingStoreReady,
         BackingStoreRefused, StartPainting
  <2>. QED
    BY <1>2, <2>2, <2>3 DEF CreateBackingStore
<1>3. CASE PresentView
  <2>1. damage' = damage \cup painting
    BY <1>3 DEF PresentView, record_damage
  <2>2. content'[texture] = presented + 1 /\ UNCHANGED <<texture, textureSize, hostSize>>
    BY <1>1, <1>3 DEF PresentView, HostInv, SurfaceCoherent
  <2>3. painting' = {} /\ phase = "painting"
    BY <1>3 DEF PresentView
  <2>4. hostSize # textureSize => damage = Regions \/ painting = Regions
    BY <1>1, <2>3
  <2>. QED
    BY <1>1, <2>1, <2>2, <2>3, <2>4
<1>4. CASE ReuseBackingStore
  BY <1>1, <1>4 DEF ReuseBackingStore, StartPainting, surfaceVars, pixelVars
<1>5. CASE TickView
  BY <1>1, <1>5 DEF TickView, engineVars
<1>6. CASE BeginFrame
  BY <1>1, <1>6 DEF BeginFrame, surfaceVars, pixelVars
<1>7. CASE UNCHANGED <<surfaceVars, pixelVars, phase, painting>>
  BY <1>1, <1>7 DEF surfaceVars, pixelVars
<1>. QED
  BY <1>2, <1>3, <1>4, <1>5, <1>6, <1>7, SurfaceFrame, PixelFrame, PaintingFrame

LEMMA HostCopyStep ==
  ASSUME HostInv, [Next]_vars, EmptyDamage = FALSE
  PROVE  HostCopyCurrent'
<1> SUFFICES ASSUME content'[texture'] # 0, NEW r \in Regions
             PROVE  hostCopy'[r] = region'[r] \/ r \in damage' \/ r \in painting'
  BY DEF HostCopyCurrent
<1>1. /\ texture \in Textures /\ presented \in Nat /\ content \in [Textures -> Nat]
      /\ region \in [Regions -> Nat] /\ hostCopy \in [Regions -> Nat]
      /\ damage \in SUBSET Regions /\ painting \in SUBSET Regions
  BY DEF HostInv, TypeOK, SurfaceType, PixelType, EngineType
<1>2. content[texture] # 0 => hostCopy[r] = region[r] \/ r \in damage \/ r \in painting
  BY DEF HostInv, HostCopyCurrent
<1>3. phase # "painting" => painting = {}
  BY DEF HostInv, HostPending
<1>4. CASE CreateBackingStore
  <2>1. UNCHANGED <<content, damage, hostCopy>> /\ painting = {}
    BY <1>3, <1>4 DEF CreateBackingStore
  <2>2. CASE Keep
    BY <1>2, <2>1, <2>2 DEF Keep
  <2>3. CASE Realloc
    BY <1>1, <2>1, <2>3 DEF Realloc, HostInv, SurfaceCoherent, Textures
  <2>. QED
    BY <1>4, <2>2, <2>3 DEF CreateBackingStore
<1>5. CASE PresentView
  <2>1. damage' = damage \cup painting
    BY <1>5 DEF PresentView, record_damage
  <2>2. r \notin painting => region'[r] = region[r]
    BY <1>5 DEF PresentView
  <2>3. UNCHANGED hostCopy
    BY <1>5 DEF PresentView
  <2>4. content[texture] = 0 => painting = Regions
    BY <1>5 DEF PresentView, HostInv, HostPending
  <2>. QED
    BY <1>2, <2>1, <2>2, <2>3, <2>4
<1>6. CASE ReuseBackingStore
  BY <1>2, <1>3, <1>6 DEF ReuseBackingStore, surfaceVars, pixelVars
<1>7. CASE TickView
  <2>1. UNCHANGED <<texture, content, region, painting>>
    BY <1>7 DEF TickView, engineVars
  <2>2. textureSize # hostSize => damage = Regions
    BY <2>1 DEF HostInv, HostPending
  <2>3. CASE copied' = copied /\ damage' = damage
    BY <1>2, <1>7, <2>1, <2>2, <2>3 DEF TickView, needs_host_texture_recreate,
       should_copy_frame, HostInv, TypeOK, SurfaceType
  <2>4. CASE shared' = IF shared = None THEN texture ELSE shared
    <3>1. shared' = texture
      BY <2>4 DEF HostInv, SurfaceCoherent
    <3>2. CASE r \in CopiedRegions /\ r \notin painting
      BY <1>2, <1>7, <2>1, <2>2, <3>1, <3>2 DEF TickView, Sampled, needs_host_texture_recreate
    <3>3. CASE r \notin CopiedRegions
      BY <1>2, <1>7, <2>1, <2>2, <3>3 DEF TickView, CopiedRegions, needs_host_texture_recreate
    <3>. QED
      BY <2>1, <3>2, <3>3
  <2>. QED
    BY <1>7, <2>3, <2>4 DEF TickView
<1>8. CASE UNCHANGED <<surfaceVars, pixelVars, phase, painting>>
  BY <1>2, <1>8 DEF surfaceVars, pixelVars
<1>9. CASE BeginFrame
  BY <1>2, <1>9 DEF BeginFrame, surfaceVars, pixelVars
<1>. QED
  BY <1>4, <1>5, <1>6, <1>7, <1>8, <1>9, SurfaceFrame, PixelFrame, PaintingFrame

LEMMA InitHostInv == Init => HostInv
<1> SUFFICES ASSUME Init PROVE HostInv
  OBVIOUS
<1>1. content[texture] = 0
  BY DEF Init, Textures
<1>2. HostPending /\ HostCopyCurrent
  BY <1>1 DEF Init, HostPending, HostCopyCurrent
<1>. QED
  BY <1>2, InitType, InitCoherent DEF HostInv

\* When every frame reports what it paints, damage-only copies leave no region
\* of the host texture behind, whatever resizes, failed opens and torn copies
\* happen on the way.
THEOREM HostCopyStaysCurrent ==
  ASSUME EmptyDamage = FALSE
  PROVE  Spec => []HostCopyCurrent
<1>1. HostInv /\ [Next]_vars => HostInv'
  <2> SUFFICES ASSUME HostInv, [Next]_vars PROVE HostInv'
    OBVIOUS
  <2>1. TypeOK'
    BY SurfaceTypeStep, PixelTypeStep, EngineTypeStep, WindowTypeStep, BoundTypeStep
    DEF HostInv, TypeOK
  <2>. QED
    BY <2>1, CoherentStep, HostPendingStep, HostCopyStep DEF HostInv
<1>2. HostInv => HostCopyCurrent
  BY DEF HostInv
<1>. QED
  BY <1>1, <1>2, InitHostInv, PTL DEF Spec
=============================================================================
