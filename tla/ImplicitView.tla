----------------------------- MODULE ImplicitView -----------------------------
(***************************************************************************)
(* The hand-off of the implicit view between the engine, which renders on  *)
(* ANGLE's device, and the game, which copies the frame into a texture of  *)
(* its own (OpenGL renderer).  The shared texture has a keyed mutex: key 0 *)
(* is ANGLE's, key 1 the game's, and both sides wait for theirs without a  *)
(* time-out.  Two counters tell the game when a frame is there.            *)
(*                                                                         *)
(* A resize asks the engine to replace the shared texture at its next      *)
(* frame (pending_resize), a lost device makes the game replace it         *)
(* (attempt_device_recovery).  The fields of FlutterOverlay this touches   *)
(* are under no lock, so a step is one access that the other side can see. *)
(***************************************************************************)
EXTENDS Naturals

CONSTANTS
  Regions,      \* parts of the overlay that damage tells apart
  MaxFrames,    \* bound: frames begun without new metrics
  MaxResizes,   \* bound: resizes
  MaxTextures,  \* bound: shared textures allocated
  MaxLosses,    \* bound: lost devices
  MaxFails,     \* bound: failing GPU calls
  None          \* no texture, no mutex, no pending resize

ASSUME ImplicitAssumption ==
  /\ MaxFrames \in Nat /\ MaxResizes \in Nat /\ MaxTextures \in Nat \ {0}
  /\ MaxLosses \in Nat /\ MaxFails \in Nat
  /\ None \notin Nat

Textures == 1 .. MaxTextures

VARIABLES
  \* FlutterOverlay
  visible,     \* visible
  satellites,  \* the view registry is not empty
  size,        \* width and height, as the number of the resize that set them
  pending,     \* pending_resize
  angleMutex,  \* the texture of angle_keyed_mutex
  gameMutex,   \* the texture of game_keyed_mutex
  gameTex,     \* angle_shared_texture
  handle,      \* the texture of d3d11_shared_handle
  surface,     \* the texture behind the EGL surface
  lost,        \* device_lost
  presented, copied, damage,
  \* textures
  textures,    \* number allocated
  dead,        \* textures of a lost device
  texSize, content, key,
  host,        \* the game's texture: the frame each region shows, 0 if clear
  \* the engine
  epc,         \* the engine between its callbacks
  lockOn,      \* the texture whose key 0 it waits for
  painting,    \* the regions the frame in progress has content in
  metrics,     \* the new metrics: "sent" to the engine, "taken" into its frame, or "none"
  \* the game
  hpc,         \* how far tick has come
  seen,        \* the value of presented it read
  taken,       \* the damage it drained
  \* bounds and history
  losses, fails,
  skipped,     \* a frame was acknowledged with no mutex to hand back
  raced,       \* textures were replaced under a tick or a frame in progress
  failed       \* the last recovery failed

resourceVars == <<angleMutex, gameMutex, gameTex, handle, surface, lost>>
frameVars    == <<presented, copied, damage>>
textureVars  == <<textures, dead, texSize, content, key>>
engineVars   == <<epc, lockOn, painting, metrics>>
tickVars     == <<hpc, seen, taken>>
hostVars     == <<visible, satellites, size, host>>
historyVars  == <<skipped, raced, failed>>
boundVars    == <<losses, fails>>
vars == <<resourceVars, frameVars, textureVars, engineVars, tickVars, hostVars, historyVars,
          boundVars, pending>>

Clear == [r \in Regions |-> 0]

Init ==
  /\ visible = TRUE /\ satellites = FALSE /\ size = 0 /\ pending = None
  /\ angleMutex = 1 /\ gameMutex = 1 /\ gameTex = 1 /\ handle = 1 /\ surface = 1
  /\ lost = FALSE
  /\ presented = 0 /\ copied = 0 /\ damage = {}
  /\ textures = 1 /\ dead = {}
  /\ texSize = [t \in Textures |-> 0]
  /\ content = [t \in Textures |-> Clear]
  /\ key = [t \in Textures |-> "0"]
  /\ host = Clear
  /\ epc = "idle" /\ lockOn = None /\ painting = {} /\ metrics = "sent"
  /\ hpc = "idle" /\ seen = 0 /\ taken = {}
  /\ losses = 0 /\ fails = 0
  /\ skipped = FALSE /\ raced = FALSE /\ failed = FALSE

CallFails == fails < MaxFails /\ fails' = fails + 1

(***************************************************************************)
(* The keyed mutex.  It fails at once for a lost device and for the side   *)
(* that holds it already; the callers ignore its result.                   *)
(***************************************************************************)
\* AcquireSync(k) by a side returns, holding the mutex or not.
Usable(t) == t # None /\ t \notin dead
AcquireReturns(t, k, side) == Usable(t) => key[t] \in {k, side}
AcquireSync(t, k, side) ==
  /\ AcquireReturns(t, k, side)
  /\ key' = IF Usable(t) THEN [key EXCEPT ![t] = side] ELSE key

\* ReleaseSync(k) by a side that holds the mutex; no effect otherwise.
ReleaseSync(t, k, side) ==
  key' = IF Usable(t) /\ key[t] = side THEN [key EXCEPT ![t] = k] ELSE key

(***************************************************************************)
(* recreate_resources: the surface goes, then a texture with a fresh mutex *)
(* and a surface on it are made.                                           *)
(***************************************************************************)
Recreate ==
  /\ textures < MaxTextures
  /\ textures' = textures + 1
  /\ surface' = textures'

RecreateFails == surface' = None /\ UNCHANGED textures

\* Mutation: the game keeps the old texture and its mutex.
TakePendingResize_KeepsTexture ==
  /\ pending # None /\ ~ lost
  /\ pending' = None
  /\ Recreate
  /\ texSize' = [texSize EXCEPT ![textures'] = pending]
  /\ angleMutex' = textures' /\ handle' = textures'
  /\ UNCHANGED <<gameTex, gameMutex>>
  /\ copied' = presented
  /\ raced' = (raced \/ hpc # "idle")
  /\ UNCHANGED fails

\* The head of make_current_callback, with a resize to carry out.
TakePendingResize ==
  /\ pending # None /\ ~ lost
  /\ pending' = None
  /\ Recreate
  /\ texSize' = [texSize EXCEPT ![textures'] = pending]
  /\ angleMutex' = textures' /\ handle' = textures'
  /\ gameTex' = None /\ gameMutex' = None
  /\ copied' = presented
  /\ raced' = (raced \/ hpc # "idle")
  /\ UNCHANGED fails

\* On a lost device it fails for certain.
DeferredResizeFails ==
  /\ pending # None
  /\ pending' = None
  /\ CallFails \/ (lost /\ UNCHANGED fails)
  /\ RecreateFails
  /\ UNCHANGED <<texSize, angleMutex, handle, gameTex, gameMutex, copied, raced>>

NoResize ==
  /\ pending = None
  /\ UNCHANGED <<pending, textures, surface, texSize, angleMutex, handle, gameTex, gameMutex,
                 copied, raced, fails>>

(***************************************************************************)
(* The engine, on the platform thread                                      *)
(***************************************************************************)
\* make_current_callback up to AcquireSync(0).
BeginFrame ==
  /\ epc = "idle" /\ (metrics = "sent" \/ presented < MaxFrames)
  /\ metrics' = IF metrics = "sent" THEN "taken" ELSE "none"
  /\ TakePendingResize \/ DeferredResizeFails \/ NoResize
  /\ epc' = "waiting" /\ lockOn' = angleMutex'
  /\ UNCHANGED <<lost, presented, damage, dead, content, key, painting, tickVars, hostVars,
                 skipped, failed, losses>>

\* What the overlay shows does not shrink: see the README for frames that do.
Shown == {r \in Regions : \E t \in Textures : content[t][r] # 0}

\* Mutation: AcquireSync has a time-out and its result is ignored.
AcquireKey0_TimesOut ==
  /\ epc = "waiting"
  /\ IF AcquireReturns(lockOn, "0", "angle")
     THEN AcquireSync(lockOn, "0", "angle")
     ELSE UNCHANGED key
  /\ epc' = "drawing"
  /\ painting' \in {p \in SUBSET Regions : Shown \subseteq p}
  /\ UNCHANGED <<resourceVars, frameVars, textures, dead, texSize, content, lockOn, metrics,
                 tickVars, hostVars, historyVars, boundVars, pending>>

\* The rest of make_current_callback, which may give up the frame and keep the key.
\* Without a surface the frame may be drawn nowhere.
AcquireKey0 ==
  /\ epc = "waiting"
  /\ AcquireSync(lockOn, "0", "angle")
  /\ \/ /\ ~ lost
        /\ epc' = "drawing"
        /\ painting' \in {p \in SUBSET Regions : Shown \subseteq p}
        /\ UNCHANGED fails
     \/ /\ (UNCHANGED fails /\ (lost \/ surface = None)) \/ CallFails
        /\ epc' = "idle" /\ UNCHANGED painting
  /\ UNCHANGED <<resourceVars, frameVars, textures, dead, texSize, content, lockOn, metrics,
                 tickVars, hostVars, historyVars, losses, pending>>

\* A frame that has satellite views to draw only, of a view 0 without new metrics:
\* the key stays with ANGLE.
OtherViewsOnly ==
  /\ epc = "drawing" /\ satellites /\ metrics # "taken"
  /\ epc' = "idle"
  /\ UNCHANGED <<resourceVars, frameVars, textureVars, lockOn, painting, metrics, tickVars,
                 hostVars, historyVars, boundVars, pending>>

\* present_implicit_view: the flush and the damage.
PresentDamage ==
  /\ epc = "drawing"
  /\ content' = IF surface = None THEN content
                ELSE [content EXCEPT ![surface] =
                        [r \in Regions |-> IF r \in painting THEN presented + 1 ELSE 0]]
  /\ damage' = IF damage \cup painting = {} THEN Regions ELSE damage \cup painting
  /\ epc' = "flushed"
  /\ UNCHANGED <<resourceVars, presented, copied, textures, dead, texSize, key, lockOn, painting,
                 metrics, tickVars, hostVars, historyVars, boundVars, pending>>

ReleaseKey1 ==
  /\ epc = "flushed"
  /\ ReleaseSync(angleMutex, "1", "angle")
  /\ epc' = "released"
  /\ UNCHANGED <<resourceVars, frameVars, textures, dead, texSize, content, lockOn, painting,
                 metrics, tickVars, hostVars, historyVars, boundVars, pending>>

CountFrame ==
  /\ epc = "released"
  /\ presented' = presented + 1
  /\ epc' = "idle"
  /\ UNCHANGED <<resourceVars, copied, damage, textureVars, lockOn, painting, metrics, tickVars,
                 hostVars, historyVars, boundVars, pending>>

\* The device is removed and a callback of the engine notices: eglMakeCurrent or
\* the creation of a context fails, on the platform or on the resource thread.
LoseDevice ==
  /\ ~ lost /\ losses < MaxLosses
  /\ losses' = losses + 1
  /\ lost' = TRUE
  /\ dead' = 1 .. textures
  /\ UNCHANGED <<angleMutex, gameMutex, gameTex, handle, surface, frameVars, textures, texSize,
                 content, key, engineVars, tickVars, hostVars, historyVars, fails, pending>>

(***************************************************************************)
(* tick                                                                    *)
(***************************************************************************)
\* reopen_shared_texture_if_needed, and the head of tick: the device is not lost,
\* the texture is open, a frame is there.
StartTick ==
  /\ IF ~ lost /\ gameTex' # None /\ presented > copied
     THEN hpc' = "loaded" /\ seen' = presented
     ELSE UNCHANGED <<hpc, seen>>
  /\ UNCHANGED <<angleMutex, handle, surface, lost, frameVars, textureVars, engineVars, taken,
                 hostVars, historyVars, losses, pending>>

Rendered == hpc = "idle" /\ visible /\ presented > 0

Render ==
  /\ Rendered
  /\ IF gameTex = None
     THEN gameTex' = handle /\ gameMutex' = handle
     ELSE UNCHANGED <<gameTex, gameMutex>>
  /\ UNCHANGED fails
  /\ StartTick

RenderWithoutTexture ==
  /\ Rendered /\ gameTex = None
  /\ CallFails
  /\ UNCHANGED <<gameTex, gameMutex>>
  /\ StartTick

\* Mutation: the damage of a frame that is not copied is dropped.
RenderHidden_Drains ==
  /\ hpc = "idle" /\ ~ visible /\ satellites
  /\ presented > copied
  /\ hpc' = "acking" /\ seen' = presented
  /\ damage' = {}
  /\ UNCHANGED <<resourceVars, presented, copied, textureVars, engineVars, taken, hostVars,
                 historyVars, boundVars, pending>>

\* tick of a hidden overlay with satellite views: acknowledge, do not copy.
RenderHidden ==
  /\ hpc = "idle" /\ ~ visible /\ satellites
  /\ presented > copied
  /\ hpc' = "acking" /\ seen' = presented
  /\ UNCHANGED <<resourceVars, frameVars, textureVars, engineVars, taken, hostVars, historyVars,
                 boundVars, pending>>

TickDrain ==
  /\ hpc = "loaded"
  /\ taken' = damage /\ damage' = {}
  /\ hpc' = IF damage = {} THEN "acking" ELSE "taken"
  /\ UNCHANGED <<resourceVars, presented, copied, textureVars, engineVars, seen, hostVars,
                 historyVars, boundVars, pending>>

TickAcquire ==
  /\ hpc \in {"taken", "acking"}
  /\ AcquireSync(gameMutex, "1", "game")
  /\ hpc' = IF hpc = "taken" THEN "copying" ELSE "copied"
  /\ skipped' = (skipped \/ (gameMutex = None /\ angleMutex # None))
  /\ UNCHANGED <<resourceVars, frameVars, textures, dead, texSize, content, engineVars, seen,
                 taken, hostVars, raced, failed, boundVars, pending>>

\* CopySubresourceRegion for each rectangle.  The texture may be gone by now, or
\* have another size than the game's: then the copy may have no effect.
TickCopy ==
  /\ hpc = "copying"
  /\ \/ /\ gameTex # None
        /\ host' = [r \in Regions |-> IF r \in taken THEN content[gameTex][r] ELSE host[r]]
     \/ /\ gameTex # None => texSize[gameTex] # size
        /\ UNCHANGED host
  /\ hpc' = "copied"
  /\ UNCHANGED <<resourceVars, frameVars, textureVars, engineVars, seen, taken, visible,
                 satellites, size, historyVars, boundVars, pending>>

\* Mutation: the key is not handed back when nothing was copied.
TickRelease_CopiedOnly ==
  /\ hpc = "copied"
  /\ IF taken # {} THEN ReleaseSync(gameMutex, "0", "game") ELSE UNCHANGED key
  /\ hpc' = "storing"
  /\ UNCHANGED <<resourceVars, frameVars, textures, dead, texSize, content, engineVars, seen,
                 taken, hostVars, historyVars, boundVars, pending>>

TickRelease ==
  /\ hpc = "copied"
  /\ ReleaseSync(gameMutex, "0", "game")
  /\ hpc' = "storing"
  /\ UNCHANGED <<resourceVars, frameVars, textures, dead, texSize, content, engineVars, seen,
                 taken, hostVars, historyVars, boundVars, pending>>

TickStore ==
  /\ hpc = "storing"
  /\ copied' = seen
  /\ hpc' = "idle" /\ taken' = {}
  /\ UNCHANGED <<resourceVars, presented, damage, textureVars, engineVars, seen, hostVars,
                 historyVars, boundVars, pending>>

(***************************************************************************)
(* The other calls of the game                                             *)
(***************************************************************************)
set_visibility(b) ==
  /\ hpc = "idle" /\ visible # b
  /\ visible' = b
  /\ UNCHANGED <<resourceVars, frameVars, textureVars, engineVars, tickVars, satellites, size,
                 host, historyVars, boundVars, pending>>

\* The first satellite view is added or the last one removed.
ViewsChange ==
  /\ satellites' = ~ satellites
  /\ UNCHANGED <<resourceVars, frameVars, textureVars, engineVars, tickVars, visible, size, host,
                 historyVars, boundVars, pending>>

\* handle_window_resize: the game's texture is new, the shared one is replaced at
\* the engine's next frame, the engine is told.
handle_window_resize ==
  /\ hpc = "idle" /\ size < MaxResizes
  /\ size' = size + 1
  /\ pending' = size'
  /\ host' = Clear
  /\ metrics' = "sent"
  /\ UNCHANGED <<resourceVars, frameVars, textureVars, epc, lockOn, painting, tickVars, visible,
                 satellites, historyVars, boundVars>>

\* attempt_device_recovery.  full_reinitialize fails: the device stays lost.
ReinitializeFails ==
  /\ CallFails
  /\ surface' = None
  /\ failed' = TRUE
  /\ UNCHANGED <<angleMutex, gameMutex, gameTex, handle, lost, copied, textures, texSize, host,
                 raced>>

\* The device is reinitialised, its flag cleared, the mutexes dropped and the
\* counters brought into step, whatever comes next.
Reinitialized ==
  /\ lost' = FALSE
  /\ copied' = presented
  /\ raced' = (raced \/ epc # "idle")

RecoveryWithoutResources ==
  /\ Reinitialized
  /\ CallFails /\ RecreateFails
  /\ angleMutex' = None /\ gameMutex' = None
  /\ failed' = TRUE
  /\ UNCHANGED <<gameTex, handle, texSize, host>>

RecoveryWithoutShared ==
  /\ Reinitialized
  /\ CallFails /\ Recreate
  /\ texSize' = [texSize EXCEPT ![textures'] = size]
  /\ angleMutex' = None /\ gameMutex' = None
  /\ failed' = TRUE
  /\ UNCHANGED <<gameTex, handle, host>>

Recovered ==
  /\ Reinitialized
  /\ Recreate
  /\ texSize' = [texSize EXCEPT ![textures'] = size]
  /\ angleMutex' = textures' /\ gameMutex' = textures'
  /\ gameTex' = textures' /\ handle' = textures'
  /\ host' = Clear
  /\ failed' = FALSE
  /\ UNCHANGED fails

attempt_device_recovery ==
  /\ hpc = "idle" /\ lost
  /\ ReinitializeFails \/ RecoveryWithoutResources \/ RecoveryWithoutShared \/ Recovered
  /\ UNCHANGED <<presented, damage, dead, content, key, engineVars, tickVars, visible, satellites,
                 size, skipped, losses, pending>>

Engine == AcquireKey0 \/ PresentDamage \/ ReleaseKey1 \/ CountFrame
Tick == TickDrain \/ TickAcquire \/ TickCopy \/ TickRelease \/ TickStore
Game ==
  \/ Render \/ RenderWithoutTexture \/ RenderHidden
  \/ \E b \in BOOLEAN : set_visibility(b)
  \/ handle_window_resize \/ attempt_device_recovery

Next ==
  \/ BeginFrame \/ Engine \/ OtherViewsOnly \/ LoseDevice
  \/ Tick \/ Game \/ ViewsChange

Spec == Init /\ [][Next]_vars

\* The engine's thread runs, and begins a frame when it has new metrics; the game
\* keeps rendering.  A call to the mutex that can return does.
FairSpec ==
  /\ Spec
  /\ WF_vars(metrics = "sent" /\ BeginFrame) /\ WF_vars(Engine)
  /\ WF_vars(Tick) /\ SF_vars(Render)

(***************************************************************************)
(* Properties                                                              *)
(***************************************************************************)
MaybeTexture == Textures \cup {None}

ResourceType ==
  /\ angleMutex \in MaybeTexture /\ gameMutex \in MaybeTexture /\ gameTex \in MaybeTexture
  /\ handle \in Textures /\ surface \in MaybeTexture
  /\ textures \in Textures /\ dead \in SUBSET Textures
  /\ key \in [Textures -> {"0", "1", "angle", "game"}]
  /\ texSize \in [Textures -> Nat] /\ content \in [Textures -> [Regions -> Nat]]
  /\ lost \in BOOLEAN /\ skipped \in BOOLEAN /\ raced \in BOOLEAN /\ failed \in BOOLEAN
FrameType ==
  /\ presented \in Nat /\ copied \in Nat /\ seen \in Nat
  /\ damage \in SUBSET Regions /\ taken \in SUBSET Regions /\ painting \in SUBSET Regions
  /\ epc \in {"idle", "waiting", "drawing", "flushed", "released"}
  /\ hpc \in {"idle", "loaded", "taken", "acking", "copying", "copied", "storing"}
  /\ lockOn \in MaybeTexture /\ metrics \in {"none", "sent", "taken"}
HostType ==
  /\ visible \in BOOLEAN /\ satellites \in BOOLEAN
  /\ size \in Nat /\ pending \in Nat \cup {None}
  /\ host \in [Regions -> Nat]
  /\ losses \in Nat /\ fails \in Nat
TypeOK == ResourceType /\ FrameType /\ HostType

\* The game does not copy from the texture the engine draws into, unless its device
\* is lost.  (The keyed mutex
\* of make_current_callback and tick, a resize and a recovery between them included.)
NoTornCopy ==
  hpc = "copying" /\ Usable(gameTex) => ~ (epc = "drawing" /\ surface = gameTex)

\* The game's thread, which holds the manager's lock, does not wait for the engine:
\* when tick comes to AcquireSync(1), the key is there, or the mutex fails at once.
\* (The counters of present_implicit_view, make_current_callback and tick.)
TickNeverWaits ==
  hpc \in {"taken", "acking"} /\ ~ raced => AcquireReturns(gameMutex, "1", "game")

\* The engine waits for the game only while there is a frame to acknowledge that
\* the next tick finds.  (The same, from the engine's side.)
Blocked == epc = "waiting" /\ ~ AcquireReturns(lockOn, "0", "angle")
TickWillServe == presented > copied /\ gameMutex \in {lockOn, None}
WaitsForTick == Blocked /\ ~ raced => skipped \/ TickWillServe

\* "If we skip that handshake the whole engine -- including every satellite view --
\* stalls. So still acknowledge view 0's frame", of frames of a hidden overlay too.
NoHandshakeSkipped == Blocked /\ ~ raced => TickWillServe

\* What the game's texture does not show of the shared one is in the damage list.
\* (present_implicit_view, the partial copy of tick and the resize of the two
\* textures, which are not replaced together.)
SameSize == gameTex # None /\ gameTex = surface /\ texSize[gameTex] = size
FramePresent == gameTex # None /\ content[gameTex] # Clear
HostCopyCurrent ==
  SameSize /\ FramePresent /\ ~ raced =>
    \A r \in Regions : host[r] = content[gameTex][r] \/ r \in damage \cup taken

\* "Device recovery failed, will retry in {} frames": what a failed recovery
\* leaves is still marked as lost, or it is not tried again.
RecoveryRetried == failed => lost

\* While the overlay is rendered the engine does not wait for ever.
Undisturbed == visible /\ ~ lost /\ ~ skipped /\ ~ raced
EngineServed == <>[]Undisturbed => []<>(epc # "waiting")

\* After the last resize the game shows the texture of the new size.
ResizeSettles == <>[](Undisturbed /\ fails = 0) => <>[](gameTex # None /\ texSize[gameTex] = size)
=============================================================================
