-------------------------- MODULE HostFramesProofs --------------------------
(***************************************************************************)
(* The invariants of HostFrames for any bounds, and that the Vulkan        *)
(* hand-off implements FrameRegister.  SharedInv ties the one copy in      *)
(* flight to the keyed mutex and the counters, ReadbackInv says which of   *)
(* the two buffers is whole while no read-back is late.                    *)
(***************************************************************************)
EXTENDS HostFrames, TLAPS, SequenceTheorems

USE HostFramesAssumption

Copies == [buf : {0, 1}, scene : Nat]

\* Scenes are drawn and published in order.
OrderInv ==
  /\ newest <= scene /\ drawn.scene <= scene
  /\ rpc # "idle" => newest <= drawn.scene
  /\ consumed <= presented
  /\ Vulkan => rpc # "writing" /\ hpc = "idle"
  /\ handoff # "Readback" => rpc # "readback"
  /\ ~ Vulkan => rpc # "allocated" /\ gpu = <<>>

\* Shared texture: a copy not finished is the only one, its fence guards the next,
\* and what the host may take is the newest frame.
SharedInv ==
  handoff = "SharedTexture" =>
    /\ KeyAgrees
    /\ rpc = "allocated" => gpu = <<>>
    /\ Len(gpu) <= 1
    /\ gpu # <<>> => inFlight /\ ~ fence /\ gpu[1] = [buf |-> 0, scene |-> newest]
                      /\ presented > consumed
    /\ gpu = <<>> /\ presented > consumed => buf[0] = newest

\* Read-back: only the frame being presented is in flight, into the back buffer,
\* and the front buffer is the newest frame.
ReadbackInv ==
  handoff = "Readback" /\ ~ late =>
    /\ ~ inFlight
    /\ rpc # "readback" => gpu = <<>>
    /\ Len(gpu) <= 1
    /\ gpu # <<>> => ~ fence /\ gpu[1] = [buf |-> 1 - front, scene |-> drawn.scene]
    /\ rpc = "readback" /\ gpu = <<>> => buf[1 - front] = drawn.scene
    /\ presented > consumed => buf[front] = newest

HandOffInv == TypeOK /\ OrderInv /\ SharedInv /\ ReadbackInv /\ HostReadsFinished

LEMMA InitType == Init => TypeOK
<1> SUFFICES ASSUME Init PROVE TypeOK
  OBVIOUS
<1>1. EngineType BY DEF Init, EngineType
<1>2. RasterType BY DEF Init, RasterType
<1>3. CountType BY DEF Init, CountType
<1>4. CopyType BY DEF Init, CopyType, Content
<1>5. HostType BY DEF Init, HostType, Content
<1>6. MemoryType BY EmptySeq DEF Init, MemoryType
<1>7. HistoryType BY DEF Init, HistoryType
<1> QED BY <1>1, <1>2, <1>3, <1>4, <1>5, <1>6, <1>7 DEF TypeOK

LEMMA InitInv == Init => HandOffInv /\ UploadCurrent
<1> SUFFICES ASSUME Init PROVE HandOffInv /\ UploadCurrent
  OBVIOUS
<1>1. OrderInv BY DEF Init, OrderInv, Vulkan
<1>2. SharedInv BY DEF Init, SharedInv, KeyAgrees
<1>3. ReadbackInv BY DEF Init, ReadbackInv
<1>4. HostReadsFinished /\ UploadCurrent
  BY HostFramesAssumption DEF Init, HostReadsFinished, UploadCurrent
<1> QED BY InitType, <1>1, <1>2, <1>3, <1>4 DEF HandOffInv

\* The queue of copies as it grows and shrinks.
LEMMA GrownQueue ==
  ASSUME NEW q \in Seq(Copies), NEW c \in Copies
  PROVE  /\ Append(q, c) \in Seq(Copies) /\ Len(Append(q, c)) = Len(q) + 1
         /\ q = <<>> => Append(q, c)[1] = c
         /\ Append(q, c) # <<>>
<1>1. Append(q, c) \in Seq(Copies) /\ Len(Append(q, c)) = Len(q) + 1 /\ Append(q, c) # <<>>
  BY AppendProperties, EmptySeq
<1>2. q = <<>> => Append(q, c)[1] = c
  BY AppendProperties, EmptySeq
<1> QED BY <1>1, <1>2

LEMMA ShrunkQueue ==
  ASSUME NEW q \in Seq(Copies), q # <<>>
  PROVE  /\ Tail(q) \in Seq(Copies) /\ Head(q) = q[1] /\ Head(q) \in Copies
         /\ Len(Tail(q)) = Len(q) - 1
         /\ Len(q) <= 1 => Tail(q) = <<>>
<1>1. /\ Tail(q) \in Seq(Copies) /\ Head(q) = q[1] /\ Head(q) \in Copies
      /\ Len(Tail(q)) = Len(q) - 1
  BY HeadTailProperties, ElementOfSeq, EmptySeq
<1>2. Len(q) <= 1 => Tail(q) = <<>>
  BY <1>1, EmptySeq
<1> QED BY <1>1, <1>2

\* A failing call loses the device or not.
LEMMA FailType == ASSUME EngineType, CallFails PROVE lost' \in BOOLEAN /\ faults' \in Nat
<1>1. lost' \in BOOLEAN
  BY DEF EngineType, CallFails
<1>2. faults' \in Nat
  BY DEF EngineType, CallFails
<1> QED BY <1>1, <1>2

LEMMA StepEngineType ==
  ASSUME EngineType, MemoryType, HostType, [Next]_vars
  PROVE  EngineType'
<1> USE DEF EngineType, engineVars
<1>1. CASE DrawScene BY <1>1
      DEF DrawScene
<1>2. CASE TakeMetrics BY <1>2
      DEF TakeMetrics, HostType
<1>3. CASE TakeLifecycle
  <2>1. dart' \in {"resumed", "hidden"}
    BY <1>3, HeadTailProperties DEF TakeLifecycle, MemoryType
  <2>2. wants' \in BOOLEAN
    BY <1>3 DEF TakeLifecycle
  <2> QED BY <1>3, <2>1, <2>2 DEF TakeLifecycle
<1>4. CASE RefuseImage BY <1>4
      DEF RefuseImage, StartsFrame
<1>5. CASE ReuseImage BY <1>5
      DEF ReuseImage, NeedsImage, StartsFrame
<1>6. CASE WaitIdleFails BY <1>6, FailType
      DEF WaitIdleFails, NeedsImage, StartsFrame
<1>7. CASE ReplaceImage BY <1>7
      DEF ReplaceImage, NeedsImage, StartsFrame
<1>8. CASE ImageFails
  <2>1. faults' \in Nat
    BY <1>8 DEF ImageFails
  <2> QED BY <1>8, <2>1 DEF ImageFails, NeedsImage, StartsFrame
<1>9. CASE ReplaceTarget BY <1>9
      DEF ReplaceTarget
<1>10. CASE TargetFails BY <1>10
      DEF TargetFails
<1>11. CASE SubmitSharedCopy BY <1>11
      DEF SubmitSharedCopy, Presents, record_frame_copy
<1>12. CASE SubmitReadback BY <1>12
      DEF SubmitReadback, record_frame_readback, Presents
<1>13. CASE PreviousCopyLate BY <1>13, FailType
      DEF PreviousCopyLate, Presents
<1>14. CASE SubmitFails BY <1>14, FailType
      DEF SubmitFails, Presents
<1>15. CASE PresentMismatch BY <1>15
      DEF PresentMismatch, Presents
<1>16. CASE PublishReadback BY <1>16
      DEF PublishReadback, WaitsForReadback
<1>17. CASE ReadbackFails BY <1>17, FailType
      DEF ReadbackFails, WaitsForReadback
<1>18. CASE FinishCopy BY <1>18
      DEF FinishCopy
<1>19. CASE CopySharedFrame BY <1>19
      DEF CopySharedFrame, Ticks
<1>20. CASE UploadReadback BY <1>20
      DEF UploadReadback, Ticks
<1>21. CASE Resize BY <1>21
      DEF Resize
<1>22. CASE ProbeMemory BY <1>22
      DEF ProbeMemory
<1>23. CASE StartSoftwareFrame BY <1>23
      DEF StartSoftwareFrame, StartsFrame
<1>24. CASE on_present_Copy BY <1>24
      DEF on_present_Copy, Presents
<1>25. CASE on_present_Done BY <1>25
      DEF on_present_Done
<1>26. CASE tick_Take BY <1>26
      DEF tick_Take, Ticks
<1>27. CASE tick_Upload BY <1>27
      DEF tick_Upload
<1>28. CASE tick_MapFails BY <1>28
      DEF tick_MapFails
<1>29. CASE UNCHANGED vars BY <1>29
      DEF vars
<1> QED BY <1>1, <1>2, <1>3, <1>4, <1>5, <1>6, <1>7, <1>8, <1>9, <1>10, <1>11, <1>12,
    <1>13, <1>14, <1>15, <1>16, <1>17, <1>18, <1>19, <1>20, <1>21, <1>22, <1>23, <1>24,
    <1>25, <1>26, <1>27, <1>28,
    <1>29 DEF Next, Engine, GetNextImage, Present, Host, Software

LEMMA StepRasterType ==
  ASSUME RasterType, EngineType, [Next]_vars
  PROVE  RasterType'
<1> USE DEF RasterType, rasterVars
<1>1. CASE DrawScene BY <1>1
      DEF DrawScene
<1>2. CASE TakeMetrics BY <1>2
      DEF TakeMetrics
<1>3. CASE TakeLifecycle BY <1>3
      DEF TakeLifecycle
<1>4. CASE RefuseImage BY <1>4
      DEF RefuseImage, StartsFrame, EngineType
<1>5. CASE ReuseImage BY <1>5
      DEF ReuseImage, NeedsImage, StartsFrame, EngineType
<1>6. CASE WaitIdleFails BY <1>6
      DEF WaitIdleFails, NeedsImage, StartsFrame, DropFrame, EngineType
<1>7. CASE ReplaceImage BY <1>7
      DEF ReplaceImage, NeedsImage, StartsFrame, EngineType
<1>8. CASE ImageFails BY <1>8
      DEF ImageFails, NeedsImage, StartsFrame, DropFrame, EngineType
<1>9. CASE ReplaceTarget BY <1>9
      DEF ReplaceTarget
<1>10. CASE TargetFails BY <1>10
      DEF TargetFails, DropFrame
<1>11. CASE SubmitSharedCopy BY <1>11
      DEF SubmitSharedCopy, Presents, FenceReady, ResetFence, PublishFrame,
          record_frame_copy
<1>12. CASE SubmitReadback BY <1>12
      DEF SubmitReadback, record_frame_readback, Presents, FenceReady, ResetFence
<1>13. CASE PreviousCopyLate BY <1>13
      DEF PreviousCopyLate, Presents, FenceReady, DropFrame
<1>14. CASE SubmitFails BY <1>14
      DEF SubmitFails, Presents, FenceReady, ResetFence, DropFrame
<1>15. CASE PresentMismatch BY <1>15
      DEF PresentMismatch, Presents, FenceReady, ResetFence, DropFrame
<1>16. CASE PublishReadback BY <1>16
      DEF PublishReadback, WaitsForReadback, PublishFrame
<1>17. CASE ReadbackFails BY <1>17
      DEF ReadbackFails, WaitsForReadback, DropFrame
<1>18. CASE FinishCopy BY <1>18
      DEF FinishCopy
<1>19. CASE CopySharedFrame BY <1>19
      DEF CopySharedFrame, Ticks
<1>20. CASE UploadReadback BY <1>20
      DEF UploadReadback, Ticks
<1>21. CASE Resize BY <1>21
      DEF Resize
<1>22. CASE ProbeMemory BY <1>22
      DEF ProbeMemory
<1>23. CASE StartSoftwareFrame BY <1>23
      DEF StartSoftwareFrame, StartsFrame, EngineType
<1>24. CASE on_present_Copy BY <1>24
      DEF on_present_Copy, Presents
<1>25. CASE on_present_Done BY <1>25
      DEF on_present_Done
<1>26. CASE tick_Take BY <1>26
      DEF tick_Take, Ticks
<1>27. CASE tick_Upload BY <1>27
      DEF tick_Upload
<1>28. CASE tick_MapFails BY <1>28
      DEF tick_MapFails
<1>29. CASE UNCHANGED vars BY <1>29
      DEF vars
<1> QED BY <1>1, <1>2, <1>3, <1>4, <1>5, <1>6, <1>7, <1>8, <1>9, <1>10, <1>11, <1>12,
    <1>13, <1>14, <1>15, <1>16, <1>17, <1>18, <1>19, <1>20, <1>21, <1>22, <1>23, <1>24,
    <1>25, <1>26, <1>27, <1>28,
    <1>29 DEF Next, Engine, GetNextImage, Present, Host, Software

LEMMA StepCountType ==
  ASSUME CountType, RasterType, [Next]_vars
  PROVE  CountType'
<1> USE DEF CountType, sharedVars
<1>1. CASE DrawScene BY <1>1
      DEF DrawScene
<1>2. CASE TakeMetrics BY <1>2
      DEF TakeMetrics
<1>3. CASE TakeLifecycle BY <1>3
      DEF TakeLifecycle
<1>4. CASE RefuseImage BY <1>4
      DEF RefuseImage, StartsFrame
<1>5. CASE ReuseImage BY <1>5
      DEF ReuseImage, NeedsImage, StartsFrame
<1>6. CASE WaitIdleFails BY <1>6
      DEF WaitIdleFails, NeedsImage, StartsFrame, DropFrame
<1>7. CASE ReplaceImage BY <1>7
      DEF ReplaceImage, NeedsImage, StartsFrame
<1>8. CASE ImageFails BY <1>8
      DEF ImageFails, NeedsImage, StartsFrame, DropFrame
<1>9. CASE ReplaceTarget BY <1>9
      DEF ReplaceTarget, RasterType
<1>10. CASE TargetFails BY <1>10
      DEF TargetFails, DropFrame
<1>11. CASE SubmitSharedCopy BY <1>11
      DEF SubmitSharedCopy, Presents, FenceReady, ResetFence, PublishFrame,
          writer_acquire_key, record_frame_copy
<1>12. CASE SubmitReadback BY <1>12
      DEF SubmitReadback, record_frame_readback, Presents, FenceReady, ResetFence
<1>13. CASE PreviousCopyLate BY <1>13
      DEF PreviousCopyLate, Presents, FenceReady, DropFrame
<1>14. CASE SubmitFails BY <1>14
      DEF SubmitFails, Presents, FenceReady, ResetFence, DropFrame
<1>15. CASE PresentMismatch BY <1>15
      DEF PresentMismatch, Presents, FenceReady, ResetFence, DropFrame
<1>16. CASE PublishReadback BY <1>16
      DEF PublishReadback, WaitsForReadback, PublishFrame
<1>17. CASE ReadbackFails BY <1>17
      DEF ReadbackFails, WaitsForReadback, DropFrame
<1>18. CASE FinishCopy BY <1>18
      DEF FinishCopy
<1>19. CASE CopySharedFrame BY <1>19
      DEF CopySharedFrame, Ticks
<1>20. CASE UploadReadback BY <1>20
      DEF UploadReadback, Ticks
<1>21. CASE Resize BY <1>21
      DEF Resize
<1>22. CASE ProbeMemory BY <1>22
      DEF ProbeMemory
<1>23. CASE StartSoftwareFrame BY <1>23
      DEF StartSoftwareFrame, StartsFrame
<1>24. CASE on_present_Copy BY <1>24
      DEF on_present_Copy, Presents
<1>25. CASE on_present_Done BY <1>25
      DEF on_present_Done
<1>26. CASE tick_Take BY <1>26
      DEF tick_Take, Ticks
<1>27. CASE tick_Upload BY <1>27
      DEF tick_Upload
<1>28. CASE tick_MapFails BY <1>28
      DEF tick_MapFails
<1>29. CASE UNCHANGED vars BY <1>29
      DEF vars
<1> QED BY <1>1, <1>2, <1>3, <1>4, <1>5, <1>6, <1>7, <1>8, <1>9, <1>10, <1>11, <1>12,
    <1>13, <1>14, <1>15, <1>16, <1>17, <1>18, <1>19, <1>20, <1>21, <1>22, <1>23, <1>24,
    <1>25, <1>26, <1>27, <1>28,
    <1>29 DEF Next, Engine, GetNextImage, Present, Host, Software

LEMMA StepCopyType ==
  ASSUME CopyType, RasterType, CountType, HostType, [Next]_vars
  PROVE  CopyType'
<1> USE DEF CopyType, sharedVars, Content
<1>1. CASE DrawScene BY <1>1
      DEF DrawScene, RasterType, CountType
<1>2. CASE TakeMetrics BY <1>2
      DEF TakeMetrics, RasterType, CountType
<1>3. CASE TakeLifecycle BY <1>3
      DEF TakeLifecycle, RasterType, CountType
<1>4. CASE RefuseImage BY <1>4
      DEF RefuseImage, StartsFrame, RasterType, CountType
<1>5. CASE ReuseImage BY <1>5
      DEF ReuseImage, NeedsImage, StartsFrame, RasterType, CountType
<1>6. CASE WaitIdleFails BY <1>6
      DEF WaitIdleFails, NeedsImage, StartsFrame, DropFrame, RasterType, CountType
<1>7. CASE ReplaceImage BY <1>7
      DEF ReplaceImage, NeedsImage, StartsFrame, RasterType, CountType
<1>8. CASE ImageFails BY <1>8
      DEF ImageFails, NeedsImage, StartsFrame, DropFrame, RasterType, CountType
<1>9. CASE ReplaceTarget BY <1>9
      DEF ReplaceTarget, RasterType, CountType
<1>10. CASE TargetFails BY <1>10
      DEF TargetFails, DropFrame, RasterType, CountType
<1>11. CASE SubmitSharedCopy BY <1>11, AppendProperties
      DEF SubmitSharedCopy, Presents, FenceReady, ResetFence, PublishFrame,
          writer_acquire_key, record_frame_copy, RasterType, CountType
<1>12. CASE SubmitReadback BY <1>12, AppendProperties
      DEF SubmitReadback, record_frame_readback, Presents, FenceReady, ResetFence,
          RasterType, CountType
<1>13. CASE PreviousCopyLate BY <1>13
      DEF PreviousCopyLate, Presents, FenceReady, DropFrame, RasterType, CountType
<1>14. CASE SubmitFails BY <1>14
      DEF SubmitFails, Presents, FenceReady, ResetFence, DropFrame, RasterType, CountType
<1>15. CASE PresentMismatch BY <1>15
      DEF PresentMismatch, Presents, FenceReady, ResetFence, DropFrame, RasterType,
          CountType
<1>16. CASE PublishReadback BY <1>16
      DEF PublishReadback, WaitsForReadback, PublishFrame, RasterType, CountType
<1>17. CASE ReadbackFails BY <1>17
      DEF ReadbackFails, WaitsForReadback, DropFrame, RasterType, CountType
<1>18. CASE FinishCopy
  <2>1. gpu' \in Seq(Copies) /\ Head(gpu) \in Copies
    BY <1>18, ShrunkQueue DEF FinishCopy, Copies
  <2>2. buf' \in [{0, 1} -> Content]
    BY <1>18, <2>1 DEF FinishCopy, Copies
  <2> QED BY <1>18, <2>1, <2>2 DEF FinishCopy, Copies
<1>19. CASE CopySharedFrame BY <1>19
      DEF CopySharedFrame, Ticks, RasterType, CountType
<1>20. CASE UploadReadback BY <1>20
      DEF UploadReadback, Ticks, RasterType, CountType
<1>21. CASE Resize BY <1>21
      DEF Resize, RasterType, CountType
<1>22. CASE ProbeMemory BY <1>22
      DEF ProbeMemory, RasterType, CountType
<1>23. CASE StartSoftwareFrame BY <1>23
      DEF StartSoftwareFrame, StartsFrame, RasterType, CountType
<1>24. CASE on_present_Copy BY <1>24
      DEF on_present_Copy, Presents, RasterType, CountType
<1>25. CASE on_present_Done BY <1>25
      DEF on_present_Done, RasterType, CountType
<1>26. CASE tick_Take BY <1>26
      DEF tick_Take, Ticks, RasterType, CountType
<1>27. CASE tick_Upload BY <1>27
      DEF tick_Upload, RasterType, CountType
<1>28. CASE tick_MapFails BY <1>28
      DEF tick_MapFails, RasterType, CountType
<1>29. CASE UNCHANGED vars BY <1>29
      DEF vars, RasterType, CountType
<1> QED BY <1>1, <1>2, <1>3, <1>4, <1>5, <1>6, <1>7, <1>8, <1>9, <1>10, <1>11, <1>12,
    <1>13, <1>14, <1>15, <1>16, <1>17, <1>18, <1>19, <1>20, <1>21, <1>22, <1>23, <1>24,
    <1>25, <1>26, <1>27, <1>28,
    <1>29 DEF Next, Engine, GetNextImage, Present, Host, Software

LEMMA StepHostType ==
  ASSUME HostType, CopyType, CountType, [Next]_vars
  PROVE  HostType'
<1> USE DEF HostType, hostVars, Content
<1>1. CASE DrawScene BY <1>1
      DEF DrawScene
<1>2. CASE TakeMetrics BY <1>2
      DEF TakeMetrics
<1>3. CASE TakeLifecycle BY <1>3
      DEF TakeLifecycle
<1>4. CASE RefuseImage BY <1>4
      DEF RefuseImage, StartsFrame
<1>5. CASE ReuseImage BY <1>5
      DEF ReuseImage, NeedsImage, StartsFrame
<1>6. CASE WaitIdleFails BY <1>6
      DEF WaitIdleFails, NeedsImage, StartsFrame, CallFails, DropFrame
<1>7. CASE ReplaceImage BY <1>7
      DEF ReplaceImage, NeedsImage, StartsFrame
<1>8. CASE ImageFails BY <1>8
      DEF ImageFails, NeedsImage, StartsFrame, DropFrame
<1>9. CASE ReplaceTarget BY <1>9
      DEF ReplaceTarget
<1>10. CASE TargetFails BY <1>10
      DEF TargetFails, DropFrame
<1>11. CASE SubmitSharedCopy BY <1>11
      DEF SubmitSharedCopy, Presents, FenceReady, ResetFence, PublishFrame,
          writer_acquire_key, record_frame_copy
<1>12. CASE SubmitReadback BY <1>12
      DEF SubmitReadback, record_frame_readback, Presents, FenceReady, ResetFence
<1>13. CASE PreviousCopyLate BY <1>13
      DEF PreviousCopyLate, Presents, FenceReady, CallFails, DropFrame
<1>14. CASE SubmitFails BY <1>14
      DEF SubmitFails, Presents, FenceReady, ResetFence, CallFails, DropFrame
<1>15. CASE PresentMismatch BY <1>15
      DEF PresentMismatch, Presents, FenceReady, ResetFence, DropFrame
<1>16. CASE PublishReadback BY <1>16
      DEF PublishReadback, WaitsForReadback, PublishFrame
<1>17. CASE ReadbackFails BY <1>17
      DEF ReadbackFails, WaitsForReadback, CallFails, DropFrame
<1>18. CASE FinishCopy BY <1>18
      DEF FinishCopy
<1>19. CASE CopySharedFrame BY <1>19
      DEF CopySharedFrame, Ticks, CopyType, CountType
<1>20. CASE UploadReadback BY <1>20
      DEF UploadReadback, Ticks, CopyType, CountType
<1>21. CASE Resize
  <2>1. size' \in Nat /\ texture' \in Content
    BY <1>21 DEF Resize
  <2>2. fits' \in BOOLEAN /\ UNCHANGED <<hpc, dirty>>
    BY <1>21 DEF Resize
  <2> QED BY <2>1, <2>2
<1>22. CASE ProbeMemory BY <1>22
      DEF ProbeMemory
<1>23. CASE StartSoftwareFrame BY <1>23
      DEF StartSoftwareFrame, StartsFrame
<1>24. CASE on_present_Copy BY <1>24
      DEF on_present_Copy, Presents
<1>25. CASE on_present_Done BY <1>25
      DEF on_present_Done
<1>26. CASE tick_Take BY <1>26
      DEF tick_Take, Ticks
<1>27. CASE tick_Upload BY <1>27
      DEF tick_Upload, CopyType, CountType
<1>28. CASE tick_MapFails BY <1>28
      DEF tick_MapFails
<1>29. CASE UNCHANGED vars BY <1>29
      DEF vars
<1> QED BY <1>1, <1>2, <1>3, <1>4, <1>5, <1>6, <1>7, <1>8, <1>9, <1>10, <1>11, <1>12,
    <1>13, <1>14, <1>15, <1>16, <1>17, <1>18, <1>19, <1>20, <1>21, <1>22, <1>23, <1>24,
    <1>25, <1>26, <1>27, <1>28,
    <1>29 DEF Next, Engine, GetNextImage, Present, Host, Software

LEMMA StepMemoryType ==
  ASSUME MemoryType, [Next]_vars
  PROVE  MemoryType'
<1> USE DEF MemoryType, memoryVars
<1>1. CASE DrawScene BY <1>1
      DEF DrawScene
<1>2. CASE TakeMetrics BY <1>2
      DEF TakeMetrics
<1>3. CASE TakeLifecycle BY <1>3, HeadTailProperties
      DEF TakeLifecycle
<1>4. CASE RefuseImage BY <1>4
      DEF RefuseImage, StartsFrame
<1>5. CASE ReuseImage BY <1>5
      DEF ReuseImage, NeedsImage, StartsFrame
<1>6. CASE WaitIdleFails BY <1>6
      DEF WaitIdleFails, NeedsImage, StartsFrame, CallFails, DropFrame
<1>7. CASE ReplaceImage BY <1>7
      DEF ReplaceImage, NeedsImage, StartsFrame
<1>8. CASE ImageFails BY <1>8
      DEF ImageFails, NeedsImage, StartsFrame, DropFrame
<1>9. CASE ReplaceTarget BY <1>9
      DEF ReplaceTarget
<1>10. CASE TargetFails BY <1>10
      DEF TargetFails, DropFrame
<1>11. CASE SubmitSharedCopy BY <1>11
      DEF SubmitSharedCopy, Presents, FenceReady, ResetFence, PublishFrame,
          writer_acquire_key, record_frame_copy
<1>12. CASE SubmitReadback BY <1>12
      DEF SubmitReadback, record_frame_readback, Presents, FenceReady, ResetFence
<1>13. CASE PreviousCopyLate BY <1>13
      DEF PreviousCopyLate, Presents, FenceReady, CallFails, DropFrame
<1>14. CASE SubmitFails BY <1>14
      DEF SubmitFails, Presents, FenceReady, ResetFence, CallFails, DropFrame
<1>15. CASE PresentMismatch BY <1>15
      DEF PresentMismatch, Presents, FenceReady, ResetFence, DropFrame
<1>16. CASE PublishReadback BY <1>16
      DEF PublishReadback, WaitsForReadback, PublishFrame
<1>17. CASE ReadbackFails BY <1>17
      DEF ReadbackFails, WaitsForReadback, CallFails, DropFrame
<1>18. CASE FinishCopy BY <1>18
      DEF FinishCopy
<1>19. CASE CopySharedFrame BY <1>19
      DEF CopySharedFrame, Ticks
<1>20. CASE UploadReadback BY <1>20
      DEF UploadReadback, Ticks
<1>21. CASE Resize BY <1>21
      DEF Resize
<1>22. CASE ProbeMemory
  <2>1. exhausted' \in BOOLEAN
    BY <1>22 DEF ProbeMemory
  <2>2. lifecycle' \in Seq({"resumed", "hidden"})
    BY <1>22, AppendProperties DEF ProbeMemory
  <2>3. probes' = probes + 1
    BY <1>22 DEF ProbeMemory
  <2> QED BY <2>1, <2>2, <2>3
<1>23. CASE StartSoftwareFrame BY <1>23
      DEF StartSoftwareFrame, StartsFrame
<1>24. CASE on_present_Copy BY <1>24
      DEF on_present_Copy, Presents
<1>25. CASE on_present_Done BY <1>25
      DEF on_present_Done
<1>26. CASE tick_Take BY <1>26
      DEF tick_Take, Ticks
<1>27. CASE tick_Upload BY <1>27
      DEF tick_Upload
<1>28. CASE tick_MapFails BY <1>28
      DEF tick_MapFails
<1>29. CASE UNCHANGED vars BY <1>29
      DEF vars
<1> QED BY <1>1, <1>2, <1>3, <1>4, <1>5, <1>6, <1>7, <1>8, <1>9, <1>10, <1>11, <1>12,
    <1>13, <1>14, <1>15, <1>16, <1>17, <1>18, <1>19, <1>20, <1>21, <1>22, <1>23, <1>24,
    <1>25, <1>26, <1>27, <1>28,
    <1>29 DEF Next, Engine, GetNextImage, Present, Host, Software

LEMMA StepHistoryType ==
  ASSUME HistoryType, RasterType, [Next]_vars
  PROVE  HistoryType'
<1> USE DEF HistoryType, historyVars
<1>1. CASE DrawScene BY <1>1
      DEF DrawScene
<1>2. CASE TakeMetrics BY <1>2
      DEF TakeMetrics
<1>3. CASE TakeLifecycle BY <1>3
      DEF TakeLifecycle
<1>4. CASE RefuseImage BY <1>4
      DEF RefuseImage, StartsFrame
<1>5. CASE ReuseImage BY <1>5
      DEF ReuseImage, NeedsImage, StartsFrame
<1>6. CASE WaitIdleFails BY <1>6
      DEF WaitIdleFails, NeedsImage, StartsFrame, DropFrame
<1>7. CASE ReplaceImage BY <1>7
      DEF ReplaceImage, NeedsImage, StartsFrame
<1>8. CASE ImageFails BY <1>8
      DEF ImageFails, NeedsImage, StartsFrame, DropFrame
<1>9. CASE ReplaceTarget BY <1>9
      DEF ReplaceTarget
<1>10. CASE TargetFails BY <1>10
      DEF TargetFails, DropFrame
<1>11. CASE SubmitSharedCopy BY <1>11
      DEF SubmitSharedCopy, Presents, FenceReady, ResetFence, PublishFrame,
          record_frame_copy, RasterType
<1>12. CASE SubmitReadback BY <1>12
      DEF SubmitReadback, record_frame_readback, Presents, FenceReady, ResetFence
<1>13. CASE PreviousCopyLate BY <1>13
      DEF PreviousCopyLate, Presents, FenceReady, DropFrame
<1>14. CASE SubmitFails BY <1>14
      DEF SubmitFails, Presents, FenceReady, ResetFence, DropFrame
<1>15. CASE PresentMismatch BY <1>15
      DEF PresentMismatch, Presents, FenceReady, ResetFence, DropFrame
<1>16. CASE PublishReadback BY <1>16
      DEF PublishReadback, WaitsForReadback, PublishFrame, RasterType
<1>17. CASE ReadbackFails BY <1>17
      DEF ReadbackFails, WaitsForReadback, DropFrame
<1>18. CASE FinishCopy BY <1>18
      DEF FinishCopy
<1>19. CASE CopySharedFrame BY <1>19
      DEF CopySharedFrame, Ticks
<1>20. CASE UploadReadback BY <1>20
      DEF UploadReadback, Ticks
<1>21. CASE Resize BY <1>21
      DEF Resize
<1>22. CASE ProbeMemory BY <1>22
      DEF ProbeMemory
<1>23. CASE StartSoftwareFrame BY <1>23
      DEF StartSoftwareFrame, StartsFrame
<1>24. CASE on_present_Copy BY <1>24
      DEF on_present_Copy, Presents
<1>25. CASE on_present_Done BY <1>25
      DEF on_present_Done, RasterType
<1>26. CASE tick_Take BY <1>26
      DEF tick_Take, Ticks
<1>27. CASE tick_Upload BY <1>27
      DEF tick_Upload
<1>28. CASE tick_MapFails BY <1>28
      DEF tick_MapFails
<1>29. CASE UNCHANGED vars BY <1>29
      DEF vars
<1> QED BY <1>1, <1>2, <1>3, <1>4, <1>5, <1>6, <1>7, <1>8, <1>9, <1>10, <1>11, <1>12,
    <1>13, <1>14, <1>15, <1>16, <1>17, <1>18, <1>19, <1>20, <1>21, <1>22, <1>23, <1>24,
    <1>25, <1>26, <1>27, <1>28,
    <1>29 DEF Next, Engine, GetNextImage, Present, Host, Software

\* Every variable keeps its type in every step.
LEMMA StepType == TypeOK /\ [Next]_vars => TypeOK'
BY StepEngineType, StepRasterType, StepCountType, StepCopyType, StepHostType, StepMemoryType,
    StepHistoryType DEF TypeOK

\* Scenes are drawn, published and consumed in order.
LEMMA StepOrder ==
  ASSUME TypeOK, OrderInv, [Next]_vars
  PROVE  OrderInv'
<1> USE DEF TypeOK, EngineType, RasterType, CountType, HistoryType, OrderInv, Vulkan, engineVars, rasterVars, sharedVars, hostVars, historyVars
<1>1. CASE DrawScene BY <1>1
      DEF DrawScene
<1>2. CASE TakeMetrics BY <1>2
      DEF TakeMetrics
<1>3. CASE TakeLifecycle BY <1>3
      DEF TakeLifecycle
<1>4. CASE RefuseImage BY <1>4
      DEF RefuseImage, StartsFrame
<1>5. CASE ReuseImage BY <1>5
      DEF ReuseImage, NeedsImage, StartsFrame
<1>6. CASE WaitIdleFails BY <1>6
      DEF WaitIdleFails, NeedsImage, StartsFrame, DropFrame
<1>7. CASE ReplaceImage BY <1>7
      DEF ReplaceImage, NeedsImage, StartsFrame
<1>8. CASE ImageFails BY <1>8
      DEF ImageFails, NeedsImage, StartsFrame, DropFrame
<1>9. CASE ReplaceTarget BY <1>9
      DEF ReplaceTarget
<1>10. CASE TargetFails BY <1>10
      DEF TargetFails, DropFrame
<1>11. CASE SubmitSharedCopy BY <1>11
      DEF SubmitSharedCopy, Presents, PublishFrame, record_frame_copy
<1>12. CASE SubmitReadback BY <1>12
      DEF SubmitReadback, record_frame_readback, Presents
<1>13. CASE PreviousCopyLate BY <1>13
      DEF PreviousCopyLate, Presents, DropFrame
<1>14. CASE SubmitFails BY <1>14
      DEF SubmitFails, Presents, DropFrame
<1>15. CASE PresentMismatch BY <1>15
      DEF PresentMismatch, Presents, DropFrame
<1>16. CASE PublishReadback BY <1>16
      DEF PublishReadback, WaitsForReadback, PublishFrame
<1>17. CASE ReadbackFails BY <1>17
      DEF ReadbackFails, WaitsForReadback, DropFrame
<1>18. CASE FinishCopy BY <1>18
      DEF FinishCopy
<1>19. CASE CopySharedFrame BY <1>19
      DEF CopySharedFrame, Ticks
<1>20. CASE UploadReadback BY <1>20
      DEF UploadReadback, Ticks
<1>21. CASE Resize BY <1>21
      DEF Resize
<1>22. CASE ProbeMemory BY <1>22
      DEF ProbeMemory
<1>23. CASE StartSoftwareFrame BY <1>23
      DEF StartSoftwareFrame, StartsFrame
<1>24. CASE on_present_Copy BY <1>24
      DEF on_present_Copy, Presents
<1>25. CASE on_present_Done BY <1>25
      DEF on_present_Done
<1>26. CASE tick_Take BY <1>26
      DEF tick_Take, Ticks
<1>27. CASE tick_Upload BY <1>27
      DEF tick_Upload
<1>28. CASE tick_MapFails BY <1>28
      DEF tick_MapFails
<1>29. CASE UNCHANGED vars BY <1>29
      DEF vars
<1> QED BY <1>1, <1>2, <1>3, <1>4, <1>5, <1>6, <1>7, <1>8, <1>9, <1>10, <1>11, <1>12,
    <1>13, <1>14, <1>15, <1>16, <1>17, <1>18, <1>19, <1>20, <1>21, <1>22, <1>23, <1>24,
    <1>25, <1>26, <1>27, <1>28,
    <1>29 DEF Next, Engine, GetNextImage, Present, Host, Software

\* The one copy in flight, the mutex and the counters stay tied.
LEMMA StepShared ==
  ASSUME TypeOK, OrderInv, SharedInv, [Next]_vars
  PROVE  SharedInv'
<1> USE DEF TypeOK, SharedInv, KeyAgrees, CountType, Copies, OrderInv, Vulkan, rasterVars, sharedVars, historyVars
<1>1. CASE DrawScene BY <1>1
      DEF DrawScene
<1>2. CASE TakeMetrics BY <1>2
      DEF TakeMetrics
<1>3. CASE TakeLifecycle BY <1>3
      DEF TakeLifecycle
<1>4. CASE RefuseImage BY <1>4
      DEF RefuseImage, StartsFrame
<1>5. CASE ReuseImage BY <1>5
      DEF ReuseImage, NeedsImage, StartsFrame
<1>6. CASE WaitIdleFails BY <1>6
      DEF WaitIdleFails, NeedsImage, StartsFrame, DropFrame
<1>7. CASE ReplaceImage BY <1>7
      DEF ReplaceImage, NeedsImage, StartsFrame
<1>8. CASE ImageFails BY <1>8
      DEF ImageFails, NeedsImage, StartsFrame, DropFrame
<1>9. CASE ReplaceTarget BY <1>9
      DEF ReplaceTarget
<1>10. CASE TargetFails BY <1>10
      DEF TargetFails, DropFrame
<1>11. CASE SubmitSharedCopy BY <1>11
      DEF SubmitSharedCopy, Presents, FenceReady, ResetFence, PublishFrame,
          writer_acquire_key, record_frame_copy
<1>12. CASE SubmitReadback BY <1>12
      DEF SubmitReadback, record_frame_readback, Presents, FenceReady, ResetFence
<1>13. CASE PreviousCopyLate BY <1>13
      DEF PreviousCopyLate, Presents, FenceReady, DropFrame
<1>14. CASE SubmitFails BY <1>14
      DEF SubmitFails, Presents, FenceReady, ResetFence, DropFrame
<1>15. CASE PresentMismatch BY <1>15
      DEF PresentMismatch, Presents, FenceReady, ResetFence, DropFrame
<1>16. CASE PublishReadback BY <1>16
      DEF PublishReadback, WaitsForReadback, PublishFrame
<1>17. CASE ReadbackFails BY <1>17
      DEF ReadbackFails, WaitsForReadback, DropFrame
<1>18. CASE FinishCopy
  <2>1. SUFFICES ASSUME handoff = "SharedTexture" PROVE SharedInv'
    BY <1>18 DEF FinishCopy
  <2>2. gpu \in Seq(Copies) /\ gpu # <<>> /\ Len(gpu) <= 1
    BY <1>18, <2>1 DEF FinishCopy, CopyType
  <2>3. gpu' = <<>> /\ Len(gpu') = 0 /\ Head(gpu) = gpu[1]
    BY <1>18, <2>2, ShrunkQueue, EmptySeq DEF FinishCopy
  <2>4. buf'[0] = newest /\ key' = "reader"
    BY <1>18, <2>1, <2>2, <2>3 DEF FinishCopy, CopyType, HistoryType, RasterType
  <2> QED BY <1>18, <2>1, <2>2, <2>3, <2>4 DEF FinishCopy
<1>19. CASE CopySharedFrame BY <1>19
      DEF CopySharedFrame, Ticks
<1>20. CASE UploadReadback BY <1>20
      DEF UploadReadback, Ticks
<1>21. CASE Resize BY <1>21
      DEF Resize
<1>22. CASE ProbeMemory BY <1>22
      DEF ProbeMemory
<1>23. CASE StartSoftwareFrame BY <1>23
      DEF StartSoftwareFrame, StartsFrame
<1>24. CASE on_present_Copy BY <1>24
      DEF on_present_Copy, Presents
<1>25. CASE on_present_Done BY <1>25
      DEF on_present_Done
<1>26. CASE tick_Take BY <1>26
      DEF tick_Take, Ticks
<1>27. CASE tick_Upload BY <1>27
      DEF tick_Upload
<1>28. CASE tick_MapFails BY <1>28
      DEF tick_MapFails
<1>29. CASE UNCHANGED vars BY <1>29
      DEF vars
<1> QED BY <1>1, <1>2, <1>3, <1>4, <1>5, <1>6, <1>7, <1>8, <1>9, <1>10, <1>11, <1>12,
    <1>13, <1>14, <1>15, <1>16, <1>17, <1>18, <1>19, <1>20, <1>21, <1>22, <1>23, <1>24,
    <1>25, <1>26, <1>27, <1>28,
    <1>29 DEF Next, Engine, GetNextImage, Present, Host, Software

\* The read-back in flight stays in the back buffer.
LEMMA StepReadback ==
  ASSUME TypeOK, OrderInv, ReadbackInv, [Next]_vars
  PROVE  ReadbackInv'
<1> USE DEF TypeOK, ReadbackInv, CountType, Copies, OrderInv, Vulkan, rasterVars, sharedVars, historyVars
<1>1. CASE DrawScene BY <1>1
      DEF DrawScene
<1>2. CASE TakeMetrics BY <1>2
      DEF TakeMetrics
<1>3. CASE TakeLifecycle BY <1>3
      DEF TakeLifecycle
<1>4. CASE RefuseImage BY <1>4
      DEF RefuseImage, StartsFrame
<1>5. CASE ReuseImage BY <1>5
      DEF ReuseImage, NeedsImage, StartsFrame
<1>6. CASE WaitIdleFails BY <1>6
      DEF WaitIdleFails, NeedsImage, StartsFrame, DropFrame
<1>7. CASE ReplaceImage BY <1>7
      DEF ReplaceImage, NeedsImage, StartsFrame
<1>8. CASE ImageFails BY <1>8
      DEF ImageFails, NeedsImage, StartsFrame, DropFrame
<1>9. CASE ReplaceTarget BY <1>9
      DEF ReplaceTarget
<1>10. CASE TargetFails BY <1>10
      DEF TargetFails, DropFrame
<1>11. CASE SubmitSharedCopy BY <1>11
      DEF SubmitSharedCopy, Presents, FenceReady, ResetFence, PublishFrame,
          writer_acquire_key, record_frame_copy
<1>12. CASE SubmitReadback BY <1>12
      DEF SubmitReadback, record_frame_readback, Presents, FenceReady, ResetFence
<1>13. CASE PreviousCopyLate BY <1>13
      DEF PreviousCopyLate, Presents, FenceReady, DropFrame
<1>14. CASE SubmitFails BY <1>14
      DEF SubmitFails, Presents, FenceReady, ResetFence, DropFrame
<1>15. CASE PresentMismatch BY <1>15
      DEF PresentMismatch, Presents, FenceReady, ResetFence, DropFrame
<1>16. CASE PublishReadback BY <1>16
      DEF PublishReadback, WaitsForReadback, PublishFrame
<1>17. CASE ReadbackFails BY <1>17
      DEF ReadbackFails, WaitsForReadback, DropFrame
<1>18. CASE FinishCopy
  <2>1. SUFFICES ASSUME handoff = "Readback", ~ late PROVE ReadbackInv'
    BY <1>18 DEF FinishCopy
  <2>2. gpu \in Seq(Copies) /\ gpu # <<>> /\ Len(gpu) <= 1
    BY <1>18, <2>1 DEF FinishCopy, CopyType
  <2>3. gpu' = <<>> /\ Len(gpu') = 0 /\ Head(gpu) = gpu[1]
    BY <1>18, <2>2, ShrunkQueue, EmptySeq DEF FinishCopy
  <2>4. /\ buf'[1 - front] = drawn.scene /\ buf'[front] = buf[front]
        /\ rpc = "readback"
    BY <1>18, <2>1, <2>2, <2>3 DEF FinishCopy, CopyType, HistoryType, RasterType
  <2> QED BY <1>18, <2>1, <2>2, <2>3, <2>4 DEF FinishCopy
<1>19. CASE CopySharedFrame BY <1>19
      DEF CopySharedFrame, Ticks
<1>20. CASE UploadReadback BY <1>20
      DEF UploadReadback, Ticks
<1>21. CASE Resize BY <1>21
      DEF Resize
<1>22. CASE ProbeMemory BY <1>22
      DEF ProbeMemory
<1>23. CASE StartSoftwareFrame BY <1>23
      DEF StartSoftwareFrame, StartsFrame
<1>24. CASE on_present_Copy BY <1>24
      DEF on_present_Copy, Presents
<1>25. CASE on_present_Done BY <1>25
      DEF on_present_Done
<1>26. CASE tick_Take BY <1>26
      DEF tick_Take, Ticks
<1>27. CASE tick_Upload BY <1>27
      DEF tick_Upload
<1>28. CASE tick_MapFails BY <1>28
      DEF tick_MapFails
<1>29. CASE UNCHANGED vars BY <1>29
      DEF vars
<1> QED BY <1>1, <1>2, <1>3, <1>4, <1>5, <1>6, <1>7, <1>8, <1>9, <1>10, <1>11, <1>12,
    <1>13, <1>14, <1>15, <1>16, <1>17, <1>18, <1>19, <1>20, <1>21, <1>22, <1>23, <1>24,
    <1>25, <1>26, <1>27, <1>28,
    <1>29 DEF Next, Engine, GetNextImage, Present, Host, Software

\* What the tick copies is whole.
LEMMA StepReads ==
  ASSUME HandOffInv, [Next]_vars
  PROVE  HostReadsFinished'
<1> USE DEF HandOffInv, TypeOK, HistoryType, CountType, OrderInv, SharedInv, KeyAgrees, ReadbackInv, HostReadsFinished, Vulkan, hostVars, historyVars
<1>1. CASE DrawScene BY <1>1
      DEF DrawScene
<1>2. CASE TakeMetrics BY <1>2
      DEF TakeMetrics
<1>3. CASE TakeLifecycle BY <1>3
      DEF TakeLifecycle
<1>4. CASE RefuseImage BY <1>4
      DEF RefuseImage, StartsFrame
<1>5. CASE ReuseImage BY <1>5
      DEF ReuseImage, NeedsImage, StartsFrame
<1>6. CASE WaitIdleFails BY <1>6
      DEF WaitIdleFails, NeedsImage, StartsFrame, DropFrame
<1>7. CASE ReplaceImage BY <1>7
      DEF ReplaceImage, NeedsImage, StartsFrame
<1>8. CASE ImageFails BY <1>8
      DEF ImageFails, NeedsImage, StartsFrame, DropFrame
<1>9. CASE ReplaceTarget BY <1>9
      DEF ReplaceTarget
<1>10. CASE TargetFails BY <1>10
      DEF TargetFails, DropFrame
<1>11. CASE SubmitSharedCopy BY <1>11
      DEF SubmitSharedCopy, Presents, FenceReady, ResetFence, PublishFrame,
          writer_acquire_key, record_frame_copy
<1>12. CASE SubmitReadback BY <1>12
      DEF SubmitReadback, record_frame_readback, Presents, FenceReady, ResetFence
<1>13. CASE PreviousCopyLate BY <1>13
      DEF PreviousCopyLate, Presents, FenceReady, DropFrame
<1>14. CASE SubmitFails BY <1>14
      DEF SubmitFails, Presents, FenceReady, ResetFence, DropFrame
<1>15. CASE PresentMismatch BY <1>15
      DEF PresentMismatch, Presents, FenceReady, ResetFence, DropFrame
<1>16. CASE PublishReadback BY <1>16
      DEF PublishReadback, WaitsForReadback, PublishFrame
<1>17. CASE ReadbackFails BY <1>17
      DEF ReadbackFails, WaitsForReadback, DropFrame
<1>18. CASE FinishCopy BY <1>18
      DEF FinishCopy
<1>19. CASE CopySharedFrame BY <1>19
      DEF CopySharedFrame, Ticks
<1>20. CASE UploadReadback BY <1>20
      DEF UploadReadback, Ticks
<1>21. CASE Resize BY <1>21
      DEF Resize
<1>22. CASE ProbeMemory BY <1>22
      DEF ProbeMemory
<1>23. CASE StartSoftwareFrame BY <1>23
      DEF StartSoftwareFrame, StartsFrame
<1>24. CASE on_present_Copy BY <1>24
      DEF on_present_Copy, Presents
<1>25. CASE on_present_Done BY <1>25
      DEF on_present_Done
<1>26. CASE tick_Take BY <1>26
      DEF tick_Take, Ticks
<1>27. CASE tick_Upload BY <1>27
      DEF tick_Upload
<1>28. CASE tick_MapFails BY <1>28
      DEF tick_MapFails
<1>29. CASE UNCHANGED vars BY <1>29
      DEF vars
<1> QED BY <1>1, <1>2, <1>3, <1>4, <1>5, <1>6, <1>7, <1>8, <1>9, <1>10, <1>11, <1>12,
    <1>13, <1>14, <1>15, <1>16, <1>17, <1>18, <1>19, <1>20, <1>21, <1>22, <1>23, <1>24,
    <1>25, <1>26, <1>27, <1>28,
    <1>29 DEF Next, Engine, GetNextImage, Present, Host, Software

\* The mark is set after the frame and taken before the upload.
LEMMA StepUpload ==
  ASSUME TypeOK, OrderInv, UploadCurrent, [Next]_vars
  PROVE  UploadCurrent'
<1> USE DEF UploadCurrent, OrderInv, Vulkan, rasterVars, sharedVars, hostVars, historyVars
<1>1. CASE DrawScene BY <1>1
      DEF DrawScene
<1>2. CASE TakeMetrics BY <1>2
      DEF TakeMetrics
<1>3. CASE TakeLifecycle BY <1>3
      DEF TakeLifecycle
<1>4. CASE RefuseImage BY <1>4
      DEF RefuseImage, StartsFrame
<1>5. CASE ReuseImage BY <1>5
      DEF ReuseImage, NeedsImage, StartsFrame
<1>6. CASE WaitIdleFails BY <1>6
      DEF WaitIdleFails, NeedsImage, StartsFrame, DropFrame
<1>7. CASE ReplaceImage BY <1>7
      DEF ReplaceImage, NeedsImage, StartsFrame
<1>8. CASE ImageFails BY <1>8
      DEF ImageFails, NeedsImage, StartsFrame, DropFrame
<1>9. CASE ReplaceTarget BY <1>9
      DEF ReplaceTarget
<1>10. CASE TargetFails BY <1>10
      DEF TargetFails, DropFrame
<1>11. CASE SubmitSharedCopy BY <1>11
      DEF SubmitSharedCopy, Presents, FenceReady, ResetFence, PublishFrame,
          writer_acquire_key, record_frame_copy
<1>12. CASE SubmitReadback BY <1>12
      DEF SubmitReadback, record_frame_readback, Presents, FenceReady, ResetFence
<1>13. CASE PreviousCopyLate BY <1>13
      DEF PreviousCopyLate, Presents, FenceReady, DropFrame
<1>14. CASE SubmitFails BY <1>14
      DEF SubmitFails, Presents, FenceReady, ResetFence, DropFrame
<1>15. CASE PresentMismatch BY <1>15
      DEF PresentMismatch, Presents, FenceReady, ResetFence, DropFrame
<1>16. CASE PublishReadback BY <1>16
      DEF PublishReadback, WaitsForReadback, PublishFrame
<1>17. CASE ReadbackFails BY <1>17
      DEF ReadbackFails, WaitsForReadback, DropFrame
<1>18. CASE FinishCopy BY <1>18
      DEF FinishCopy
<1>19. CASE CopySharedFrame BY <1>19
      DEF CopySharedFrame, Ticks
<1>20. CASE UploadReadback BY <1>20
      DEF UploadReadback, Ticks
<1>21. CASE Resize BY <1>21
      DEF Resize
<1>22. CASE ProbeMemory BY <1>22
      DEF ProbeMemory
<1>23. CASE StartSoftwareFrame BY <1>23
      DEF StartSoftwareFrame, StartsFrame
<1>24. CASE on_present_Copy BY <1>24
      DEF on_present_Copy, Presents
<1>25. CASE on_present_Done BY <1>25
      DEF on_present_Done
<1>26. CASE tick_Take BY <1>26
      DEF tick_Take, Ticks
<1>27. CASE tick_Upload BY <1>27
      DEF tick_Upload
<1>28. CASE tick_MapFails BY <1>28
      DEF tick_MapFails
<1>29. CASE UNCHANGED vars BY <1>29
      DEF vars
<1> QED BY <1>1, <1>2, <1>3, <1>4, <1>5, <1>6, <1>7, <1>8, <1>9, <1>10, <1>11, <1>12,
    <1>13, <1>14, <1>15, <1>16, <1>17, <1>18, <1>19, <1>20, <1>21, <1>22, <1>23, <1>24,
    <1>25, <1>26, <1>27, <1>28,
    <1>29 DEF Next, Engine, GetNextImage, Present, Host, Software

LEMMA StepInv == HandOffInv /\ [Next]_vars => HandOffInv'
BY StepType, StepOrder, StepShared, StepReadback, StepReads DEF HandOffInv

LEMMA SafeInvariant == Spec => [](HandOffInv /\ UploadCurrent)
<1>1. HandOffInv /\ UploadCurrent /\ [Next]_vars => (HandOffInv /\ UploadCurrent)'
  BY StepInv, StepUpload DEF HandOffInv
<1> QED BY InitInv, <1>1, PTL DEF Spec

\* Every variable of the hand-off keeps its type, a size, a scene, a stage of a
\* frame or a holder of the mutex.
THEOREM TypeCorrect == Spec => []TypeOK
BY SafeInvariant, PTL DEF HandOffInv

\* While no copy is in flight the keyed mutex is on the key the two counters say,
\* so the copy submitted next and the host's tick find theirs (writer_acquire_key).
THEOREM KeyCorrect == Spec => []KeyAgrees
<1>1. HandOffInv => KeyAgrees
  BY DEF HandOffInv, SharedInv, KeyAgrees
<1> QED BY SafeInvariant, <1>1, PTL

\* The host never copies from a buffer the GPU writes, until a read-back is late.
THEOREM ReadsFinished == Spec => []HostReadsFinished
BY SafeInvariant, PTL DEF HandOffInv

\* A software frame is never overtaken by the mark that announces it.
THEOREM UploadsCurrent == Spec => []UploadCurrent
BY SafeInvariant, PTL

\* What a step does to the register.
RegisterStep ==
  \/ newest' \in Nat /\ newest' >= newest /\ UNCHANGED texture
  \/ texture' = newest /\ UNCHANGED newest
  \/ texture' = 0 /\ UNCHANGED newest

LEMMA StepRegister ==
  ASSUME HandOffInv, [Next]_vars, Vulkan, ~ late
  PROVE  RegisterStep
<1> USE DEF HandOffInv, TypeOK, CountType, HistoryType, RasterType, OrderInv, SharedInv,
        ReadbackInv, KeyAgrees, Vulkan, RegisterStep, hostVars, historyVars
<1>1. CASE DrawScene BY <1>1
      DEF DrawScene
<1>2. CASE TakeMetrics BY <1>2
      DEF TakeMetrics
<1>3. CASE TakeLifecycle BY <1>3
      DEF TakeLifecycle
<1>4. CASE RefuseImage BY <1>4
      DEF RefuseImage, StartsFrame
<1>5. CASE ReuseImage BY <1>5
      DEF ReuseImage, NeedsImage, StartsFrame
<1>6. CASE WaitIdleFails BY <1>6
      DEF WaitIdleFails, NeedsImage, StartsFrame, DropFrame
<1>7. CASE ReplaceImage BY <1>7
      DEF ReplaceImage, NeedsImage, StartsFrame
<1>8. CASE ImageFails BY <1>8
      DEF ImageFails, NeedsImage, StartsFrame, DropFrame
<1>9. CASE ReplaceTarget BY <1>9
      DEF ReplaceTarget
<1>10. CASE TargetFails BY <1>10
      DEF TargetFails, DropFrame
<1>11. CASE SubmitSharedCopy BY <1>11
      DEF SubmitSharedCopy, Presents, PublishFrame, record_frame_copy
<1>12. CASE SubmitReadback BY <1>12
      DEF SubmitReadback, record_frame_readback, Presents
<1>13. CASE PreviousCopyLate BY <1>13
      DEF PreviousCopyLate, Presents, DropFrame
<1>14. CASE SubmitFails BY <1>14
      DEF SubmitFails, Presents, DropFrame
<1>15. CASE PresentMismatch BY <1>15
      DEF PresentMismatch, Presents, DropFrame
<1>16. CASE PublishReadback BY <1>16
      DEF PublishReadback, WaitsForReadback, PublishFrame
<1>17. CASE ReadbackFails BY <1>17
      DEF ReadbackFails, WaitsForReadback, DropFrame
<1>18. CASE FinishCopy BY <1>18
      DEF FinishCopy
<1>19. CASE CopySharedFrame BY <1>19
      DEF CopySharedFrame, Ticks
<1>20. CASE UploadReadback BY <1>20
      DEF UploadReadback, Ticks
<1>21. CASE Resize BY <1>21
      DEF Resize
<1>22. CASE ProbeMemory
  <2>1. UNCHANGED <<texture, newest>>
    BY <1>22 DEF ProbeMemory
  <2> QED BY <2>1
<1>23. CASE StartSoftwareFrame BY <1>23
      DEF StartSoftwareFrame, StartsFrame
<1>24. CASE on_present_Copy BY <1>24
      DEF on_present_Copy, Presents
<1>25. CASE on_present_Done BY <1>25
      DEF on_present_Done
<1>26. CASE tick_Take BY <1>26
      DEF tick_Take, Ticks
<1>27. CASE tick_Upload BY <1>27
      DEF tick_Upload
<1>28. CASE tick_MapFails BY <1>28
      DEF tick_MapFails
<1>29. CASE UNCHANGED vars BY <1>29
      DEF vars
<1> QED BY <1>1, <1>2, <1>3, <1>4, <1>5, <1>6, <1>7, <1>8, <1>9, <1>10, <1>11, <1>12,
    <1>13, <1>14, <1>15, <1>16, <1>17, <1>18, <1>19, <1>20, <1>21, <1>22, <1>23, <1>24,
    <1>25, <1>26, <1>27, <1>28,
    <1>29 DEF Next, Engine, GetNextImage, Present, Host, Software

\* No step takes a late read-back back, or changes the hand-off.
LEMMA StepLate ==
  ASSUME [Next]_vars, Vulkan', ~ late'
  PROVE  Vulkan /\ ~ late
<1> USE DEF Vulkan, historyVars
<1>1. CASE DrawScene BY <1>1
      DEF DrawScene
<1>2. CASE TakeMetrics BY <1>2
      DEF TakeMetrics
<1>3. CASE TakeLifecycle BY <1>3
      DEF TakeLifecycle
<1>4. CASE RefuseImage BY <1>4
      DEF RefuseImage, StartsFrame
<1>5. CASE ReuseImage BY <1>5
      DEF ReuseImage, NeedsImage, StartsFrame
<1>6. CASE WaitIdleFails BY <1>6
      DEF WaitIdleFails, NeedsImage, StartsFrame, DropFrame
<1>7. CASE ReplaceImage BY <1>7
      DEF ReplaceImage, NeedsImage, StartsFrame
<1>8. CASE ImageFails BY <1>8
      DEF ImageFails, NeedsImage, StartsFrame, DropFrame
<1>9. CASE ReplaceTarget BY <1>9
      DEF ReplaceTarget
<1>10. CASE TargetFails BY <1>10
      DEF TargetFails, DropFrame
<1>11. CASE SubmitSharedCopy BY <1>11
      DEF SubmitSharedCopy, Presents, PublishFrame, record_frame_copy
<1>12. CASE SubmitReadback BY <1>12
      DEF SubmitReadback, record_frame_readback, Presents
<1>13. CASE PreviousCopyLate BY <1>13
      DEF PreviousCopyLate, Presents, DropFrame
<1>14. CASE SubmitFails BY <1>14
      DEF SubmitFails, Presents, DropFrame
<1>15. CASE PresentMismatch BY <1>15
      DEF PresentMismatch, Presents, DropFrame
<1>16. CASE PublishReadback BY <1>16
      DEF PublishReadback, WaitsForReadback, PublishFrame
<1>17. CASE ReadbackFails BY <1>17
      DEF ReadbackFails, WaitsForReadback, DropFrame
<1>18. CASE FinishCopy BY <1>18
      DEF FinishCopy
<1>19. CASE CopySharedFrame BY <1>19
      DEF CopySharedFrame, Ticks
<1>20. CASE UploadReadback BY <1>20
      DEF UploadReadback, Ticks
<1>21. CASE Resize BY <1>21
      DEF Resize
<1>22. CASE ProbeMemory BY <1>22
      DEF ProbeMemory
<1>23. CASE StartSoftwareFrame BY <1>23
      DEF StartSoftwareFrame, StartsFrame
<1>24. CASE on_present_Copy BY <1>24
      DEF on_present_Copy, Presents
<1>25. CASE on_present_Done BY <1>25
      DEF on_present_Done
<1>26. CASE tick_Take BY <1>26
      DEF tick_Take, Ticks
<1>27. CASE tick_Upload BY <1>27
      DEF tick_Upload
<1>28. CASE tick_MapFails BY <1>28
      DEF tick_MapFails
<1>29. CASE UNCHANGED vars BY <1>29
      DEF vars
<1> QED BY <1>1, <1>2, <1>3, <1>4, <1>5, <1>6, <1>7, <1>8, <1>9, <1>10, <1>11, <1>12,
    <1>13, <1>14, <1>15, <1>16, <1>17, <1>18, <1>19, <1>20, <1>21, <1>22, <1>23, <1>24,
    <1>25, <1>26, <1>27, <1>28,
    <1>29 DEF Next, Engine, GetNextImage, Present, Host, Software

\* The Vulkan hand-off is a register of the newest frame: whatever the engine, the
\* GPU, the host and failing calls do, the host sees the newest frame published,
\* and never one older than it has shown (copy_latest_frame, present).
THEOREM RegisterImplemented == Spec => ImplementsRegister
<1>1. Init => Register!Init
  BY DEF Init, Register!Init
<1>2. ASSUME HandOffInv, [Next]_vars
      PROVE  [Register!Next]_(Register!vars)
  <2>1. CASE Vulkan' /\ ~ late'
    <3>1. Vulkan /\ ~ late
      BY <1>2, <2>1, StepLate
    <3>2. RegisterStep
      BY <1>2, <3>1, StepRegister
    <3> QED BY <2>1, <3>1, <3>2
        DEF RegisterStep, Register!Next, Register!Publish, Register!Show, Register!Blank
  <2>2. CASE ~ (Vulkan' /\ ~ late')
    BY <2>2 DEF Register!Next
  <2> QED BY <2>1, <2>2
<1> QED BY SafeInvariant, <1>1, <1>2, PTL DEF Spec, Register!Spec, ImplementsRegister

=============================================================================
