-------------------------- MODULE ImplicitViewProofs --------------------------
(***************************************************************************)
(* The invariants of ImplicitView for any bounds and any parts of the      *)
(* overlay.  HolderInv says who may hold which texture at each stage of a  *)
(* frame; HandOff ties the key of the shared texture to the two counters,  *)
(* with the one tick that has released the key and not yet counted.        *)
(* HostInv accounts for every region the game's copy lacks, from the moment *)
(* the engine has a surface and not only once the game has opened it.       *)
(***************************************************************************)
EXTENDS ImplicitView, TLAPS

USE ImplicitAssumption

\* References go to textures that exist; those to come are untouched.
RefInv ==
  /\ \A t \in {angleMutex, gameMutex, gameTex, handle, surface, lockOn} :
       t # None => t <= textures
  /\ \A t \in Textures : t > textures => key[t] = "0"
  /\ dead \subseteq 1 .. textures
  /\ lost => dead = 1 .. textures

\* The references that are of a working device agree, or a failed recovery left
\* the engine a surface that nobody else knows.
LinkInv ==
  /\ Usable(handle) \/ Usable(angleMutex) => handle = angleMutex
  /\ Usable(gameMutex) \/ Usable(angleMutex) => gameMutex \in {None, angleMutex}
  /\ Usable(gameTex) => gameMutex = gameTex
  /\ Usable(surface) /\ surface # angleMutex =>
       key[surface] = "0" /\ surface \notin {lockOn, gameMutex, handle}

\* Who may hold a texture while the engine waits, draws, and the game copies.
HolderInv ==
  /\ epc = "waiting" /\ Usable(surface) /\ surface # lockOn => key[surface] = "0"
  /\ epc = "drawing" /\ Usable(surface) => key[surface] \in {"0", "angle"}
  /\ hpc = "copying" /\ Usable(gameTex) => key[gameTex] = "game"

\* The counter of the game, as if a tick counted when it releases the key.
Acknowledged == IF hpc = "storing" THEN seen ELSE copied

\* The shared texture is with the engine, offered, with the game, or was offered
\* to a game that acknowledged it without a mutex.
WithEngine ==
  /\ hpc \in {"idle", "storing"} /\ presented = Acknowledged
  /\ \/ key[angleMutex] = "0" /\ epc \in {"idle", "waiting"}
     \/ key[angleMutex] = "angle" /\ epc # "released"
     \/ key[angleMutex] = "1" /\ epc = "released"
Offered ==
  /\ key[angleMutex] = "1" /\ epc \in {"idle", "waiting"}
  /\ hpc \in {"idle", "loaded", "taken", "acking", "storing"} /\ presented > Acknowledged
WithGame ==
  /\ key[angleMutex] = "game" /\ epc \in {"idle", "waiting"}
  /\ hpc \in {"copying", "copied"} /\ gameMutex = angleMutex
Abandoned ==
  /\ key[angleMutex] = "1" /\ epc \in {"idle", "waiting"} /\ skipped
  /\ hpc \in {"copying", "copied"} => gameMutex = None

HandOff ==
  /\ hpc \in {"idle", "storing"} \/ seen = presented
  /\ hpc # "idle" => copied < seen
  /\ WithEngine \/ Offered \/ WithGame \/ Abandoned
HandOffInv ==
  ~ raced =>
    /\ epc # "idle" => lockOn = angleMutex
    /\ Usable(angleMutex) => HandOff

SafeInv == TypeOK /\ RefInv /\ LinkInv /\ HolderInv

\* No texture is of a size the window has not had, one to come shows nothing, and
\* what the game has open is the engine's surface exactly if its handle is.
TextureInv ==
  /\ \A t \in Textures : texSize[t] <= size
  /\ \A t \in Textures : t > textures => content[t] = Clear
  /\ pending \in {None, size}
  /\ handle = surface => gameTex \in {None, surface}
  /\ gameTex # None /\ gameTex = surface => handle = surface

\* What the game shows, some texture shows; a frame paints over all of it.
ShownInv ==
  /\ \A r \in Regions : host[r] # 0 => r \in Shown
  /\ epc = "drawing" => Shown \subseteq painting

\* The damage a tick has drained and not yet copied.
Draining == IF hpc \in {"taken", "copying"} THEN taken ELSE {}

\* HostCopyCurrent, said of the surface before the game has opened it.
Stale(r) == r \in damage \cup Draining
OpenSurface ==
  surface # None /\ handle = surface /\ texSize[surface] = size /\ content[surface] # Clear
HostInv ==
  ~ raced =>
    /\ hpc \in {"loaded", "taken", "copying"} => gameTex # None
    /\ OpenSurface => \A r \in Regions : host[r] = content[surface][r] \/ Stale(r)

ViewInv == TypeOK /\ RefInv /\ TextureInv /\ ShownInv /\ HostInv

LEMMA InitType == Init => TypeOK
<1> SUFFICES ASSUME Init PROVE TypeOK
  OBVIOUS
<1> USE DEF Init, MaybeTexture, Textures, Clear
<1>1. content \in [Textures -> [Regions -> Nat]]
  <2>1. [r \in Regions |-> 0] \in [Regions -> Nat]
    OBVIOUS
  <2> QED BY <2>1
<1>2. ResourceType
  <2>1. 1 \in Textures
    OBVIOUS
  <2>2. /\ key \in [Textures -> {"0", "1", "angle", "game"}]
        /\ texSize \in [Textures -> Nat]
    OBVIOUS
  <2> QED BY <1>1, <2>1, <2>2 DEF ResourceType
<1>3. FrameType
  BY DEF FrameType
<1>4. HostType
  BY DEF HostType
<1> QED BY <1>2, <1>3, <1>4 DEF TypeOK

\* Every variable keeps its type in every step.
LEMMA StepType ==
  ASSUME TypeOK, [Next]_vars
  PROVE  TypeOK'
<1> USE DEF TypeOK, ResourceType, FrameType, HostType, MaybeTexture, Textures, Clear,
        resourceVars, frameVars, textureVars, engineVars, tickVars, hostVars,
        historyVars, boundVars
<1>1. CASE BeginFrame
  <2>1. CASE TakePendingResize BY <1>1, <2>1 DEF BeginFrame, TakePendingResize, Recreate
  <2>2. CASE DeferredResizeFails BY <1>1, <2>2 DEF BeginFrame, DeferredResizeFails,
      CallFails, RecreateFails
  <2>3. CASE NoResize BY <1>1, <2>3 DEF BeginFrame, NoResize
  <2> QED BY <1>1, <2>1, <2>2, <2>3 DEF BeginFrame
<1>2. CASE AcquireKey0
  <2>1. ResourceType' BY <1>2 DEF AcquireKey0, AcquireSync, AcquireReturns, CallFails
  <2>2. FrameType' BY <1>2 DEF AcquireKey0, AcquireSync, AcquireReturns, CallFails
  <2>3. HostType' BY <1>2 DEF AcquireKey0, AcquireSync, AcquireReturns, CallFails
  <2> QED BY <2>1, <2>2, <2>3
<1>3. CASE OtherViewsOnly BY <1>3 DEF OtherViewsOnly
<1>4. CASE PresentDamage
  <2>1. ResourceType'
    <3> DEFINE frame == [r \in Regions |-> IF r \in painting THEN presented + 1 ELSE 0]
    <3>1. frame \in [Regions -> Nat]
      OBVIOUS
    <3>2. content' = IF surface = None THEN content ELSE [content EXCEPT ![surface] = frame]
      BY <1>4 DEF PresentDamage
    <3> HIDE DEF frame
    <3>3. content' \in [Textures -> [Regions -> Nat]]
      BY <3>1, <3>2
    <3> QED BY <1>4, <3>3 DEF PresentDamage
  <2>2. FrameType' BY <1>4 DEF PresentDamage
  <2>3. HostType' BY <1>4 DEF PresentDamage
  <2> QED BY <2>1, <2>2, <2>3
<1>5. CASE ReleaseKey1
  <2>1. ResourceType' BY <1>5 DEF ReleaseKey1, ReleaseSync
  <2>2. FrameType' BY <1>5 DEF ReleaseKey1, ReleaseSync
  <2>3. HostType' BY <1>5 DEF ReleaseKey1, ReleaseSync
  <2> QED BY <2>1, <2>2, <2>3
<1>6. CASE CountFrame BY <1>6 DEF CountFrame
<1>7. CASE LoseDevice BY <1>7 DEF LoseDevice
<1>8. CASE Render
  <2>1. ResourceType' BY <1>8 DEF Render, Rendered, StartTick
  <2>2. FrameType' BY <1>8 DEF Render, Rendered, StartTick
  <2>3. HostType' BY <1>8 DEF Render, Rendered, StartTick
  <2> QED BY <2>1, <2>2, <2>3
<1>9. CASE RenderWithoutTexture BY <1>9 DEF RenderWithoutTexture, Rendered, StartTick,
    CallFails
<1>10. CASE RenderHidden BY <1>10 DEF RenderHidden
<1>11. CASE TickDrain BY <1>11 DEF TickDrain
<1>12. CASE TickAcquire
  <2>1. ResourceType' BY <1>12 DEF TickAcquire, AcquireSync, AcquireReturns
  <2>2. FrameType' BY <1>12 DEF TickAcquire, AcquireSync, AcquireReturns
  <2>3. HostType' BY <1>12 DEF TickAcquire, AcquireSync, AcquireReturns
  <2> QED BY <2>1, <2>2, <2>3
<1>13. CASE TickCopy BY <1>13 DEF TickCopy
<1>14. CASE TickRelease
  <2>1. ResourceType' BY <1>14 DEF TickRelease, ReleaseSync
  <2>2. FrameType' BY <1>14 DEF TickRelease, ReleaseSync
  <2>3. HostType' BY <1>14 DEF TickRelease, ReleaseSync
  <2> QED BY <2>1, <2>2, <2>3
<1>15. CASE TickStore BY <1>15 DEF TickStore
<1>16. CASE \E b \in BOOLEAN : set_visibility(b) BY <1>16 DEF set_visibility
<1>17. CASE ViewsChange BY <1>17 DEF ViewsChange
<1>18. CASE handle_window_resize BY <1>18 DEF handle_window_resize
<1>19. CASE attempt_device_recovery
  <2>1. CASE ReinitializeFails BY <1>19, <2>1 DEF attempt_device_recovery,
      ReinitializeFails, CallFails
  <2>2. CASE RecoveryWithoutResources
    <3>1. ResourceType' BY <1>19, <2>2
      DEF attempt_device_recovery, RecoveryWithoutResources, Reinitialized, CallFails, RecreateFails
    <3>2. FrameType' BY <1>19, <2>2
      DEF attempt_device_recovery, RecoveryWithoutResources, Reinitialized, CallFails, RecreateFails
    <3>3. HostType' BY <1>19, <2>2
      DEF attempt_device_recovery, RecoveryWithoutResources, Reinitialized, CallFails, RecreateFails
    <3> QED BY <3>1, <3>2, <3>3
  <2>3. CASE RecoveryWithoutShared
    <3>1. ResourceType'
      <4>1. textures' \in Textures /\ texSize' \in [Textures -> Nat]
        BY <1>19, <2>3 DEF attempt_device_recovery, RecoveryWithoutShared, Reinitialized,
            CallFails, Recreate
      <4> QED BY <1>19, <2>3, <4>1
        DEF attempt_device_recovery, RecoveryWithoutShared, Reinitialized, CallFails, Recreate
    <3>2. FrameType' BY <1>19, <2>3
      DEF attempt_device_recovery, RecoveryWithoutShared, Reinitialized, CallFails, Recreate
    <3>3. HostType' BY <1>19, <2>3
      DEF attempt_device_recovery, RecoveryWithoutShared, Reinitialized, CallFails, Recreate
    <3> QED BY <3>1, <3>2, <3>3
  <2>4. CASE Recovered
    <3>1. ResourceType'
      <4>1. textures' \in Textures /\ texSize' \in [Textures -> Nat]
        BY <1>19, <2>4 DEF attempt_device_recovery, Recovered, Reinitialized, Recreate
      <4> QED BY <1>19, <2>4, <4>1 DEF attempt_device_recovery, Recovered, Reinitialized,
          Recreate
    <3>2. FrameType' BY <1>19, <2>4 DEF attempt_device_recovery, Recovered, Reinitialized,
        Recreate
    <3>3. HostType' BY <1>19, <2>4 DEF attempt_device_recovery, Recovered, Reinitialized,
        Recreate
    <3> QED BY <3>1, <3>2, <3>3
  <2> QED BY <1>19, <2>1, <2>2, <2>3, <2>4 DEF attempt_device_recovery
<1>20. CASE UNCHANGED vars BY <1>20 DEF vars
<1> QED BY <1>1, <1>2, <1>3, <1>4, <1>5, <1>6, <1>7, <1>8, <1>9, <1>10, <1>11, <1>12,
    <1>13, <1>14, <1>15, <1>16, <1>17, <1>18, <1>19, <1>20 DEF Next, Engine, Tick, Game

\* The variables of the hand-off stay in their ranges: textures that were allocated,
\* the four holders of a key, the stages of a frame and of a tick.
THEOREM TypeCorrect == Spec => []TypeOK
<1>1. TypeOK /\ [Next]_vars => TypeOK'
  BY StepType
<1> QED BY InitType, <1>1, PTL DEF Spec

\* References go to textures that exist.
LEMMA StepRef ==
  ASSUME TypeOK, RefInv, [Next]_vars
  PROVE  RefInv'
<1> USE DEF TypeOK, ResourceType, FrameType, MaybeTexture, Textures, Usable,
        resourceVars, frameVars, textureVars, engineVars, tickVars, historyVars, RefInv
<1>1. CASE BeginFrame
  <2>1. CASE TakePendingResize BY <1>1, <2>1 DEF BeginFrame, TakePendingResize, Recreate
  <2>2. CASE DeferredResizeFails BY <1>1, <2>2 DEF BeginFrame, DeferredResizeFails,
      CallFails, RecreateFails
  <2>3. CASE NoResize BY <1>1, <2>3 DEF BeginFrame, NoResize
  <2> QED BY <1>1, <2>1, <2>2, <2>3 DEF BeginFrame
<1>2. CASE AcquireKey0 BY <1>2 DEF AcquireKey0, AcquireSync, AcquireReturns, CallFails
<1>3. CASE OtherViewsOnly BY <1>3 DEF OtherViewsOnly
<1>4. CASE PresentDamage BY <1>4 DEF PresentDamage
<1>5. CASE ReleaseKey1 BY <1>5 DEF ReleaseKey1, ReleaseSync
<1>6. CASE CountFrame BY <1>6 DEF CountFrame
<1>7. CASE LoseDevice BY <1>7 DEF LoseDevice
<1>8. CASE Render BY <1>8 DEF Render, Rendered, StartTick
<1>9. CASE RenderWithoutTexture BY <1>9 DEF RenderWithoutTexture, Rendered, StartTick,
    CallFails
<1>10. CASE RenderHidden BY <1>10 DEF RenderHidden
<1>11. CASE TickDrain BY <1>11 DEF TickDrain
<1>12. CASE TickAcquire BY <1>12 DEF TickAcquire, AcquireSync, AcquireReturns
<1>13. CASE TickCopy BY <1>13 DEF TickCopy
<1>14. CASE TickRelease BY <1>14 DEF TickRelease, ReleaseSync
<1>15. CASE TickStore BY <1>15 DEF TickStore
<1>16. CASE \E b \in BOOLEAN : set_visibility(b) BY <1>16 DEF set_visibility
<1>17. CASE ViewsChange BY <1>17 DEF ViewsChange
<1>18. CASE handle_window_resize BY <1>18 DEF handle_window_resize
<1>19. CASE attempt_device_recovery
  <2>1. CASE ReinitializeFails BY <1>19, <2>1 DEF attempt_device_recovery,
      ReinitializeFails, CallFails
  <2>2. CASE RecoveryWithoutResources BY <1>19, <2>2 DEF attempt_device_recovery,
      RecoveryWithoutResources, Reinitialized, CallFails, RecreateFails
  <2>3. CASE RecoveryWithoutShared BY <1>19, <2>3 DEF attempt_device_recovery,
      RecoveryWithoutShared, Reinitialized, CallFails, Recreate
  <2>4. CASE Recovered BY <1>19, <2>4 DEF attempt_device_recovery, Recovered,
      Reinitialized, Recreate
  <2> QED BY <1>19, <2>1, <2>2, <2>3, <2>4 DEF attempt_device_recovery
<1>20. CASE UNCHANGED vars BY <1>20 DEF vars
<1> QED BY <1>1, <1>2, <1>3, <1>4, <1>5, <1>6, <1>7, <1>8, <1>9, <1>10, <1>11, <1>12,
    <1>13, <1>14, <1>15, <1>16, <1>17, <1>18, <1>19, <1>20 DEF Next, Engine, Tick, Game

\* The two sides' references keep agreeing.
LEMMA StepLink ==
  ASSUME TypeOK, RefInv, LinkInv, TypeOK', [Next]_vars
  PROVE  LinkInv'
<1> USE DEF TypeOK, ResourceType, FrameType, MaybeTexture, Textures, Usable,
        resourceVars, frameVars, textureVars, engineVars, tickVars, historyVars, RefInv,
        LinkInv
<1>1. CASE BeginFrame
  <2>1. CASE TakePendingResize BY <1>1, <2>1 DEF BeginFrame, TakePendingResize, Recreate
  <2>2. CASE DeferredResizeFails BY <1>1, <2>2 DEF BeginFrame, DeferredResizeFails,
      CallFails, RecreateFails
  <2>3. CASE NoResize BY <1>1, <2>3 DEF BeginFrame, NoResize
  <2> QED BY <1>1, <2>1, <2>2, <2>3 DEF BeginFrame
<1>2. CASE AcquireKey0 BY <1>2 DEF AcquireKey0, AcquireSync, AcquireReturns, CallFails
<1>3. CASE OtherViewsOnly BY <1>3 DEF OtherViewsOnly
<1>4. CASE PresentDamage BY <1>4 DEF PresentDamage
<1>5. CASE ReleaseKey1 BY <1>5 DEF ReleaseKey1, ReleaseSync
<1>6. CASE CountFrame BY <1>6 DEF CountFrame
<1>7. CASE LoseDevice BY <1>7 DEF LoseDevice
<1>8. CASE Render BY <1>8 DEF Render, Rendered, StartTick
<1>9. CASE RenderWithoutTexture BY <1>9 DEF RenderWithoutTexture, Rendered, StartTick,
    CallFails
<1>10. CASE RenderHidden BY <1>10 DEF RenderHidden
<1>11. CASE TickDrain BY <1>11 DEF TickDrain
<1>12. CASE TickAcquire BY <1>12 DEF TickAcquire, AcquireSync, AcquireReturns
<1>13. CASE TickCopy BY <1>13 DEF TickCopy
<1>14. CASE TickRelease BY <1>14 DEF TickRelease, ReleaseSync
<1>15. CASE TickStore BY <1>15 DEF TickStore
<1>16. CASE \E b \in BOOLEAN : set_visibility(b) BY <1>16 DEF set_visibility
<1>17. CASE ViewsChange BY <1>17 DEF ViewsChange
<1>18. CASE handle_window_resize BY <1>18 DEF handle_window_resize
<1>19. CASE attempt_device_recovery
  <2>1. CASE ReinitializeFails BY <1>19, <2>1 DEF attempt_device_recovery,
      ReinitializeFails, CallFails
  <2>2. CASE RecoveryWithoutResources BY <1>19, <2>2 DEF attempt_device_recovery,
      RecoveryWithoutResources, Reinitialized, CallFails, RecreateFails
  <2>3. CASE RecoveryWithoutShared BY <1>19, <2>3 DEF attempt_device_recovery,
      RecoveryWithoutShared, Reinitialized, CallFails, Recreate
  <2>4. CASE Recovered BY <1>19, <2>4 DEF attempt_device_recovery, Recovered,
      Reinitialized, Recreate
  <2> QED BY <1>19, <2>1, <2>2, <2>3, <2>4 DEF attempt_device_recovery
<1>20. CASE UNCHANGED vars BY <1>20 DEF vars
<1> QED BY <1>1, <1>2, <1>3, <1>4, <1>5, <1>6, <1>7, <1>8, <1>9, <1>10, <1>11, <1>12,
    <1>13, <1>14, <1>15, <1>16, <1>17, <1>18, <1>19, <1>20 DEF Next, Engine, Tick, Game

\* Nobody takes a texture from its holder.
LEMMA StepHolder ==
  ASSUME TypeOK, RefInv, LinkInv, HolderInv, TypeOK', [Next]_vars
  PROVE  HolderInv'
<1> USE DEF TypeOK, ResourceType, FrameType, MaybeTexture, Textures, Usable,
        resourceVars, frameVars, textureVars, engineVars, tickVars, historyVars, RefInv,
        LinkInv, HolderInv
<1>1. CASE BeginFrame
  <2>1. CASE TakePendingResize BY <1>1, <2>1 DEF BeginFrame, TakePendingResize, Recreate
  <2>2. CASE DeferredResizeFails BY <1>1, <2>2 DEF BeginFrame, DeferredResizeFails,
      CallFails, RecreateFails
  <2>3. CASE NoResize BY <1>1, <2>3 DEF BeginFrame, NoResize
  <2> QED BY <1>1, <2>1, <2>2, <2>3 DEF BeginFrame
<1>2. CASE AcquireKey0 BY <1>2 DEF AcquireKey0, AcquireSync, AcquireReturns, CallFails
<1>3. CASE OtherViewsOnly BY <1>3 DEF OtherViewsOnly
<1>4. CASE PresentDamage BY <1>4 DEF PresentDamage
<1>5. CASE ReleaseKey1 BY <1>5 DEF ReleaseKey1, ReleaseSync
<1>6. CASE CountFrame BY <1>6 DEF CountFrame
<1>7. CASE LoseDevice BY <1>7 DEF LoseDevice
<1>8. CASE Render BY <1>8 DEF Render, Rendered, StartTick
<1>9. CASE RenderWithoutTexture BY <1>9 DEF RenderWithoutTexture, Rendered, StartTick,
    CallFails
<1>10. CASE RenderHidden BY <1>10 DEF RenderHidden
<1>11. CASE TickDrain BY <1>11 DEF TickDrain
<1>12. CASE TickAcquire BY <1>12 DEF TickAcquire, AcquireSync, AcquireReturns
<1>13. CASE TickCopy BY <1>13 DEF TickCopy
<1>14. CASE TickRelease BY <1>14 DEF TickRelease, ReleaseSync
<1>15. CASE TickStore BY <1>15 DEF TickStore
<1>16. CASE \E b \in BOOLEAN : set_visibility(b) BY <1>16 DEF set_visibility
<1>17. CASE ViewsChange BY <1>17 DEF ViewsChange
<1>18. CASE handle_window_resize BY <1>18 DEF handle_window_resize
<1>19. CASE attempt_device_recovery
  <2>1. CASE ReinitializeFails BY <1>19, <2>1 DEF attempt_device_recovery,
      ReinitializeFails, CallFails
  <2>2. CASE RecoveryWithoutResources BY <1>19, <2>2 DEF attempt_device_recovery,
      RecoveryWithoutResources, Reinitialized, CallFails, RecreateFails
  <2>3. CASE RecoveryWithoutShared BY <1>19, <2>3 DEF attempt_device_recovery,
      RecoveryWithoutShared, Reinitialized, CallFails, Recreate
  <2>4. CASE Recovered BY <1>19, <2>4 DEF attempt_device_recovery, Recovered,
      Reinitialized, Recreate
  <2> QED BY <1>19, <2>1, <2>2, <2>3, <2>4 DEF attempt_device_recovery
<1>20. CASE UNCHANGED vars BY <1>20 DEF vars
<1> QED BY <1>1, <1>2, <1>3, <1>4, <1>5, <1>6, <1>7, <1>8, <1>9, <1>10, <1>11, <1>12,
    <1>13, <1>14, <1>15, <1>16, <1>17, <1>18, <1>19, <1>20 DEF Next, Engine, Tick, Game

\* Key and counters stay in step.
LEMMA StepHandOff ==
  ASSUME TypeOK, RefInv, LinkInv, HandOffInv, TypeOK', [Next]_vars
  PROVE  HandOffInv'
<1> USE DEF TypeOK, ResourceType, FrameType, MaybeTexture, Textures, Usable,
        resourceVars, frameVars, textureVars, engineVars, tickVars, historyVars, RefInv,
        LinkInv, HandOffInv, HandOff, Acknowledged, WithEngine, Offered, WithGame,
        Abandoned
<1>1. CASE BeginFrame
  <2>1. CASE TakePendingResize
    <3> SUFFICES ASSUME ~ raced' PROVE HandOffInv'
      BY DEF HandOffInv
    <3>1. hpc = "idle" /\ ~ raced
      BY <2>1 DEF TakePendingResize
    <3>2. key[textures + 1] = "0" /\ angleMutex' = textures + 1 /\ textures + 1 \in Textures
      BY <2>1 DEF TakePendingResize, Recreate
    <3>3. lockOn' = angleMutex'
      BY <1>1 DEF BeginFrame
    <3>4. WithEngine'
      BY <1>1, <2>1, <3>1, <3>2 DEF BeginFrame, TakePendingResize
    <3> QED BY <1>1, <3>1, <3>3, <3>4 DEF BeginFrame
  <2>2. CASE DeferredResizeFails BY <1>1, <2>2 DEF BeginFrame, DeferredResizeFails,
      CallFails, RecreateFails
  <2>3. CASE NoResize BY <1>1, <2>3 DEF BeginFrame, NoResize
  <2> QED BY <1>1, <2>1, <2>2, <2>3 DEF BeginFrame
<1>2. CASE AcquireKey0 BY <1>2 DEF AcquireKey0, AcquireSync, AcquireReturns, CallFails
<1>3. CASE OtherViewsOnly BY <1>3 DEF OtherViewsOnly
<1>4. CASE PresentDamage BY <1>4 DEF PresentDamage
<1>5. CASE ReleaseKey1 BY <1>5 DEF ReleaseKey1, ReleaseSync
<1>6. CASE CountFrame BY <1>6 DEF CountFrame
<1>7. CASE LoseDevice BY <1>7 DEF LoseDevice
<1>8. CASE Render BY <1>8 DEF Render, Rendered, StartTick
<1>9. CASE RenderWithoutTexture BY <1>9 DEF RenderWithoutTexture, Rendered, StartTick,
    CallFails
<1>10. CASE RenderHidden BY <1>10 DEF RenderHidden
<1>11. CASE TickDrain BY <1>11 DEF TickDrain
<1>12. CASE TickAcquire BY <1>12 DEF TickAcquire, AcquireSync, AcquireReturns
<1>13. CASE TickCopy BY <1>13 DEF TickCopy
<1>14. CASE TickRelease BY <1>14 DEF TickRelease, ReleaseSync
<1>15. CASE TickStore BY <1>15 DEF TickStore
<1>16. CASE \E b \in BOOLEAN : set_visibility(b) BY <1>16 DEF set_visibility
<1>17. CASE ViewsChange BY <1>17 DEF ViewsChange
<1>18. CASE handle_window_resize BY <1>18 DEF handle_window_resize
<1>19. CASE attempt_device_recovery
  <2>1. CASE ReinitializeFails BY <1>19, <2>1 DEF attempt_device_recovery,
      ReinitializeFails, CallFails
  <2>2. CASE RecoveryWithoutResources BY <1>19, <2>2 DEF attempt_device_recovery,
      RecoveryWithoutResources, Reinitialized, CallFails, RecreateFails
  <2>3. CASE RecoveryWithoutShared BY <1>19, <2>3 DEF attempt_device_recovery,
      RecoveryWithoutShared, Reinitialized, CallFails, Recreate
  <2>4. CASE Recovered
    <3> SUFFICES ASSUME ~ raced' PROVE HandOffInv'
      BY DEF HandOffInv
    <3>1. hpc = "idle" /\ epc = "idle"
      BY <1>19, <2>4 DEF attempt_device_recovery, Recovered, Reinitialized
    <3>2. key[textures + 1] = "0" /\ angleMutex' = textures + 1 /\ textures + 1 \in Textures
      BY <2>4 DEF Recovered, Recreate
    <3>3. WithEngine'
      BY <1>19, <2>4, <3>1, <3>2 DEF attempt_device_recovery, Recovered, Reinitialized
    <3> QED BY <1>19, <3>1, <3>3 DEF attempt_device_recovery
  <2> QED BY <1>19, <2>1, <2>2, <2>3, <2>4 DEF attempt_device_recovery
<1>20. CASE UNCHANGED vars BY <1>20 DEF vars
<1> QED BY <1>1, <1>2, <1>3, <1>4, <1>5, <1>6, <1>7, <1>8, <1>9, <1>10, <1>11, <1>12,
    <1>13, <1>14, <1>15, <1>16, <1>17, <1>18, <1>19, <1>20 DEF Next, Engine, Tick, Game

\* Sizes, fresh textures and the game's reference to the surface keep their shape.
LEMMA StepTexture ==
  ASSUME TypeOK, RefInv, TextureInv, TypeOK', [Next]_vars
  PROVE  TextureInv'
<1> USE DEF TypeOK, ResourceType, FrameType, HostType, MaybeTexture, Textures,
        resourceVars, frameVars, textureVars, engineVars, tickVars, hostVars, historyVars,
        boundVars, RefInv, TextureInv
<1>1. CASE BeginFrame
  <2>1. CASE TakePendingResize BY <1>1, <2>1 DEF BeginFrame, TakePendingResize, Recreate
  <2>2. CASE DeferredResizeFails BY <1>1, <2>2 DEF BeginFrame, DeferredResizeFails,
      CallFails, RecreateFails
  <2>3. CASE NoResize BY <1>1, <2>3 DEF BeginFrame, NoResize
  <2> QED BY <1>1, <2>1, <2>2, <2>3 DEF BeginFrame
<1>2. CASE AcquireKey0 BY <1>2 DEF AcquireKey0, AcquireSync, AcquireReturns, CallFails
<1>3. CASE OtherViewsOnly BY <1>3 DEF OtherViewsOnly
<1>4. CASE PresentDamage BY <1>4 DEF PresentDamage
<1>5. CASE ReleaseKey1 BY <1>5 DEF ReleaseKey1, ReleaseSync
<1>6. CASE CountFrame BY <1>6 DEF CountFrame
<1>7. CASE LoseDevice BY <1>7 DEF LoseDevice
<1>8. CASE Render BY <1>8 DEF Render, Rendered, StartTick
<1>9. CASE RenderWithoutTexture BY <1>9 DEF RenderWithoutTexture, Rendered, StartTick,
    CallFails
<1>10. CASE RenderHidden BY <1>10 DEF RenderHidden
<1>11. CASE TickDrain BY <1>11 DEF TickDrain
<1>12. CASE TickAcquire BY <1>12 DEF TickAcquire, AcquireSync, AcquireReturns
<1>13. CASE TickCopy BY <1>13 DEF TickCopy
<1>14. CASE TickRelease BY <1>14 DEF TickRelease, ReleaseSync
<1>15. CASE TickStore BY <1>15 DEF TickStore
<1>16. CASE \E b \in BOOLEAN : set_visibility(b) BY <1>16 DEF set_visibility
<1>17. CASE ViewsChange BY <1>17 DEF ViewsChange
<1>18. CASE handle_window_resize BY <1>18 DEF handle_window_resize
<1>19. CASE attempt_device_recovery
  <2>1. CASE ReinitializeFails BY <1>19, <2>1 DEF attempt_device_recovery,
      ReinitializeFails, CallFails
  <2>2. CASE RecoveryWithoutResources BY <1>19, <2>2 DEF attempt_device_recovery,
      RecoveryWithoutResources, Reinitialized, CallFails, RecreateFails
  <2>3. CASE RecoveryWithoutShared BY <1>19, <2>3 DEF attempt_device_recovery,
      RecoveryWithoutShared, Reinitialized, CallFails, Recreate
  <2>4. CASE Recovered BY <1>19, <2>4 DEF attempt_device_recovery, Recovered,
      Reinitialized, Recreate
  <2> QED BY <1>19, <2>1, <2>2, <2>3, <2>4 DEF attempt_device_recovery
<1>20. CASE UNCHANGED vars BY <1>20 DEF vars
<1> QED BY <1>1, <1>2, <1>3, <1>4, <1>5, <1>6, <1>7, <1>8, <1>9, <1>10, <1>11, <1>12,
    <1>13, <1>14, <1>15, <1>16, <1>17, <1>18, <1>19, <1>20 DEF Next, Engine, Tick, Game

\* A region that shows something is painted over by every frame.
LEMMA StepShown ==
  ASSUME TypeOK, RefInv, ShownInv, TypeOK', [Next]_vars
  PROVE  ShownInv'
<1> USE DEF TypeOK, ResourceType, FrameType, HostType, MaybeTexture, Textures,
        resourceVars, frameVars, textureVars, engineVars, tickVars, hostVars, historyVars,
        boundVars, RefInv, ShownInv, Shown, Clear
<1>1. CASE BeginFrame
  <2>1. CASE TakePendingResize BY <1>1, <2>1 DEF BeginFrame, TakePendingResize, Recreate
  <2>2. CASE DeferredResizeFails BY <1>1, <2>2 DEF BeginFrame, DeferredResizeFails,
      CallFails, RecreateFails
  <2>3. CASE NoResize BY <1>1, <2>3 DEF BeginFrame, NoResize
  <2> QED BY <1>1, <2>1, <2>2, <2>3 DEF BeginFrame
<1>2. CASE AcquireKey0 BY <1>2 DEF AcquireKey0, AcquireSync, AcquireReturns, CallFails
<1>3. CASE OtherViewsOnly BY <1>3 DEF OtherViewsOnly
<1>4. CASE PresentDamage BY <1>4 DEF PresentDamage
<1>5. CASE ReleaseKey1 BY <1>5 DEF ReleaseKey1, ReleaseSync
<1>6. CASE CountFrame BY <1>6 DEF CountFrame
<1>7. CASE LoseDevice BY <1>7 DEF LoseDevice
<1>8. CASE Render BY <1>8 DEF Render, Rendered, StartTick
<1>9. CASE RenderWithoutTexture BY <1>9 DEF RenderWithoutTexture, Rendered, StartTick,
    CallFails
<1>10. CASE RenderHidden BY <1>10 DEF RenderHidden
<1>11. CASE TickDrain BY <1>11 DEF TickDrain
<1>12. CASE TickAcquire BY <1>12 DEF TickAcquire, AcquireSync, AcquireReturns
<1>13. CASE TickCopy BY <1>13 DEF TickCopy
<1>14. CASE TickRelease BY <1>14 DEF TickRelease, ReleaseSync
<1>15. CASE TickStore BY <1>15 DEF TickStore
<1>16. CASE \E b \in BOOLEAN : set_visibility(b) BY <1>16 DEF set_visibility
<1>17. CASE ViewsChange BY <1>17 DEF ViewsChange
<1>18. CASE handle_window_resize BY <1>18 DEF handle_window_resize
<1>19. CASE attempt_device_recovery
  <2>1. CASE ReinitializeFails BY <1>19, <2>1 DEF attempt_device_recovery,
      ReinitializeFails, CallFails
  <2>2. CASE RecoveryWithoutResources BY <1>19, <2>2 DEF attempt_device_recovery,
      RecoveryWithoutResources, Reinitialized, CallFails, RecreateFails
  <2>3. CASE RecoveryWithoutShared BY <1>19, <2>3 DEF attempt_device_recovery,
      RecoveryWithoutShared, Reinitialized, CallFails, Recreate
  <2>4. CASE Recovered BY <1>19, <2>4 DEF attempt_device_recovery, Recovered,
      Reinitialized, Recreate
  <2> QED BY <1>19, <2>1, <2>2, <2>3, <2>4 DEF attempt_device_recovery
<1>20. CASE UNCHANGED vars BY <1>20 DEF vars
<1> QED BY <1>1, <1>2, <1>3, <1>4, <1>5, <1>6, <1>7, <1>8, <1>9, <1>10, <1>11, <1>12,
    <1>13, <1>14, <1>15, <1>16, <1>17, <1>18, <1>19, <1>20 DEF Next, Engine, Tick, Game

\* What the copy lacks of the surface stays in the damage list.
LEMMA StepHost ==
  ASSUME TypeOK, RefInv, TextureInv, ShownInv, HostInv, TypeOK', [Next]_vars
  PROVE  HostInv'
<1> USE DEF TypeOK, ResourceType, FrameType, HostType, MaybeTexture, Textures,
        resourceVars, frameVars, textureVars, engineVars, tickVars, hostVars, historyVars,
        boundVars, RefInv, TextureInv, HostInv, OpenSurface, Stale, Draining
<1>1. CASE BeginFrame
  <2>1. CASE TakePendingResize
    <3>1. surface' = textures + 1 /\ textures + 1 \in Textures /\ content' = content
      BY <1>1, <2>1 DEF BeginFrame, TakePendingResize, Recreate
    <3>2. ~ OpenSurface'
      BY <3>1
    <3>3. raced' \/ hpc' = "idle"
      BY <1>1, <2>1 DEF BeginFrame, TakePendingResize
    <3> QED BY <3>2, <3>3
  <2>2. CASE DeferredResizeFails BY <1>1, <2>2 DEF BeginFrame, DeferredResizeFails,
      CallFails, RecreateFails
  <2>3. CASE NoResize BY <1>1, <2>3 DEF BeginFrame, NoResize
  <2> QED BY <1>1, <2>1, <2>2, <2>3 DEF BeginFrame
<1>2. CASE AcquireKey0 BY <1>2 DEF AcquireKey0, AcquireSync, AcquireReturns, CallFails
<1>3. CASE OtherViewsOnly BY <1>3 DEF OtherViewsOnly
<1>4. CASE PresentDamage
  <2> SUFFICES ASSUME ~ raced', surface # None, NEW r \in Regions
               PROVE  host'[r] = content'[surface'][r] \/ Stale(r)'
    BY <1>4 DEF PresentDamage
  <2>1. CASE r \in painting
    BY <1>4, <2>1 DEF PresentDamage
  <2>2. CASE r \notin painting
    <3>1. content'[surface'][r] = 0
      BY <1>4, <2>2 DEF PresentDamage
    <3>2. host[r] = 0 /\ host' = host
      BY <1>4, <2>2 DEF PresentDamage, ShownInv
    <3> QED BY <3>1, <3>2
  <2> QED BY <2>1, <2>2
<1>5. CASE ReleaseKey1 BY <1>5 DEF ReleaseKey1, ReleaseSync
<1>6. CASE CountFrame BY <1>6 DEF CountFrame
<1>7. CASE LoseDevice BY <1>7 DEF LoseDevice
<1>8. CASE Render BY <1>8 DEF Render, Rendered, StartTick
<1>9. CASE RenderWithoutTexture BY <1>9 DEF RenderWithoutTexture, Rendered, StartTick,
    CallFails
<1>10. CASE RenderHidden BY <1>10 DEF RenderHidden
<1>11. CASE TickDrain BY <1>11 DEF TickDrain
<1>12. CASE TickAcquire BY <1>12 DEF TickAcquire, AcquireSync, AcquireReturns
<1>13. CASE TickCopy BY <1>13 DEF TickCopy
<1>14. CASE TickRelease BY <1>14 DEF TickRelease, ReleaseSync
<1>15. CASE TickStore BY <1>15 DEF TickStore
<1>16. CASE \E b \in BOOLEAN : set_visibility(b) BY <1>16 DEF set_visibility
<1>17. CASE ViewsChange BY <1>17 DEF ViewsChange
<1>18. CASE handle_window_resize BY <1>18 DEF handle_window_resize
<1>19. CASE attempt_device_recovery
  <2>1. CASE ReinitializeFails BY <1>19, <2>1 DEF attempt_device_recovery,
      ReinitializeFails, CallFails
  <2>2. CASE RecoveryWithoutResources BY <1>19, <2>2 DEF attempt_device_recovery,
      RecoveryWithoutResources, Reinitialized, CallFails, RecreateFails
  <2>3. CASE RecoveryWithoutShared BY <1>19, <2>3 DEF attempt_device_recovery,
      RecoveryWithoutShared, Reinitialized, CallFails, Recreate
  <2>4. CASE Recovered BY <1>19, <2>4 DEF attempt_device_recovery, Recovered,
      Reinitialized, Recreate
  <2> QED BY <1>19, <2>1, <2>2, <2>3, <2>4 DEF attempt_device_recovery
<1>20. CASE UNCHANGED vars BY <1>20 DEF vars
<1> QED BY <1>1, <1>2, <1>3, <1>4, <1>5, <1>6, <1>7, <1>8, <1>9, <1>10, <1>11, <1>12,
    <1>13, <1>14, <1>15, <1>16, <1>17, <1>18, <1>19, <1>20 DEF Next, Engine, Tick, Game

-----------------------------------------------------------------------------
(* The theorems.                                                           *)

LEMMA InitSafe == Init => SafeInv /\ HandOffInv
<1> SUFFICES ASSUME Init PROVE SafeInv /\ HandOffInv
  OBVIOUS
<1> USE DEF Init, Usable, Textures
<1>1. RefInv
  BY DEF RefInv
<1>2. LinkInv /\ HolderInv
  BY DEF LinkInv, HolderInv
<1>3. HandOffInv
  BY DEF HandOffInv, HandOff, WithEngine, Acknowledged
<1> QED BY InitType, <1>1, <1>2, <1>3 DEF SafeInv

LEMMA SafeCorrect == Spec => [](SafeInv /\ HandOffInv)
<1>1. SafeInv /\ HandOffInv /\ [Next]_vars => (SafeInv /\ HandOffInv)'
  <2> SUFFICES ASSUME SafeInv, HandOffInv, [Next]_vars PROVE (SafeInv /\ HandOffInv)'
    OBVIOUS
  <2>1. TypeOK'
    BY StepType DEF SafeInv
  <2>2. RefInv' /\ LinkInv'
    BY <2>1, StepRef, StepLink DEF SafeInv
  <2>3. HolderInv' /\ HandOffInv'
    BY <2>1, StepHolder, StepHandOff DEF SafeInv
  <2> QED BY <2>1, <2>2, <2>3 DEF SafeInv
<1> QED BY InitSafe, <1>1, PTL DEF Spec

\* The game never copies out of the texture the engine draws into, whatever resizes,
\* lost devices and half-done recoveries come between make_current_callback and tick.
THEOREM CopiesAreWhole == Spec => []NoTornCopy
<1>1. SafeInv => NoTornCopy
  <2> SUFFICES ASSUME SafeInv, hpc = "copying", Usable(gameTex),
                      epc = "drawing", surface = gameTex
               PROVE  FALSE
    BY DEF NoTornCopy
  <2>1. key[gameTex] = "game" /\ key[surface] \in {"0", "angle"}
    BY DEF SafeInv, HolderInv
  <2> QED BY <2>1
<1> QED BY SafeCorrect, <1>1, PTL

\* The game's thread finds its key whenever a tick comes to AcquireSync(1), as long as
\* no texture was replaced under a tick or a frame in progress.
THEOREM GameNeverWaits == Spec => []TickNeverWaits
<1>1. SafeInv /\ HandOffInv => TickNeverWaits
  <2> SUFFICES ASSUME SafeInv, HandOffInv, hpc \in {"taken", "acking"}, ~ raced,
                      Usable(gameMutex)
               PROVE  key[gameMutex] \in {"1", "game"}
    BY DEF TickNeverWaits, AcquireReturns
  <2>1. gameMutex = angleMutex
    BY DEF SafeInv, LinkInv, Usable
  <2>2. HandOff
    BY <2>1 DEF HandOffInv
  <2> QED BY <2>1, <2>2 DEF HandOff, WithEngine, Offered, WithGame, Abandoned
<1> QED BY SafeCorrect, <1>1, PTL

\* An engine that waits for key 0 waits for a frame that the next tick finds and hands
\* back, or for one that a hidden tick acknowledged without a mutex.
THEOREM EngineWaitsForTick == Spec => []WaitsForTick
<1>1. SafeInv /\ HandOffInv => WaitsForTick
  <2> SUFFICES ASSUME SafeInv, HandOffInv, Blocked, ~ raced, ~ skipped
               PROVE  TickWillServe
    BY DEF WaitsForTick
  <2>1. lockOn = angleMutex /\ Usable(angleMutex) /\ key[angleMutex] \notin {"0", "angle"}
    BY DEF HandOffInv, Blocked, AcquireReturns
  <2>2. HandOff /\ gameMutex \in {lockOn, None}
    BY <2>1 DEF HandOffInv, SafeInv, LinkInv
  <2>3. presented > copied
    BY <2>1, <2>2 DEF HandOff, WithEngine, Offered, WithGame, Abandoned, Acknowledged, Blocked,
      SafeInv, TypeOK, FrameType
  <2> QED BY <2>2, <2>3 DEF TickWillServe
<1> QED BY SafeCorrect, <1>1, PTL
LEMMA InitView == Init => ViewInv
<1> SUFFICES ASSUME Init PROVE ViewInv
  OBVIOUS
<1> USE DEF Init, Usable, Textures, Clear
<1>1. TypeOK /\ RefInv
  BY InitSafe DEF SafeInv
<1>2. TextureInv
  BY DEF TextureInv
<1>3. ShownInv
  BY DEF ShownInv, Shown
<1>4. HostInv
  BY DEF HostInv, OpenSurface
<1> QED BY <1>1, <1>2, <1>3, <1>4 DEF ViewInv

\* The game's copy lacks nothing of the shared texture that is not in the damage list
\* or on its way through the tick that drained it, resizes, hidden frames, lost
\* devices and half-done recoveries included.
THEOREM CopyStaysCurrent == Spec => []HostCopyCurrent
<1>1. ViewInv /\ [Next]_vars => ViewInv'
  <2> SUFFICES ASSUME ViewInv, [Next]_vars PROVE ViewInv'
    OBVIOUS
  <2>1. TypeOK'
    BY StepType DEF ViewInv
  <2>2. RefInv' /\ TextureInv' /\ ShownInv'
    BY <2>1, StepRef, StepTexture, StepShown DEF ViewInv
  <2>3. HostInv'
    BY <2>1, StepHost DEF ViewInv
  <2> QED BY <2>1, <2>2, <2>3 DEF ViewInv
<1>2. ViewInv => HostCopyCurrent
  BY DEF ViewInv, TextureInv, HostInv, OpenSurface, Stale, Draining, HostCopyCurrent,
     SameSize, FramePresent
<1> QED BY InitView, <1>1, <1>2, PTL DEF Spec
=============================================================================
