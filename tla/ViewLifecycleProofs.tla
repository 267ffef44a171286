------------------------- MODULE ViewLifecycleProofs -------------------------
(***************************************************************************)
(* The invariants of ViewLifecycle for any windows and offscreen views.    *)
(* Requested(v) records, for each stage of a view, which requests are with *)
(* the engine, what its box holds and whether the engine has the view; the *)
(* surface, input, answer and tear-down properties follow from it.  Those  *)
(* about surfaces and answers are of the views whose caller got its        *)
(* answer: SurfaceKeptUntilRemoved, which asks it of all, does not hold.   *)
(***************************************************************************)
EXTENDS ViewLifecycle, TLAPS

USE LifecycleAssumption

\* The steps of one window, of one offscreen view, and those of the engine.
WindowStep(w) == WindowCalls(w) \/ WindowThread(w)
ViewStep(v) ==
  \/ v \in Windows /\ WindowStep(v)
  \/ v \in Offscreen /\ OffscreenCalls(v)
  \/ EngineAnswers(v)

\* Every step is a step of one view, the return of a sent message, or a stutter.
LEMMA StepOfOneView ==
  ASSUME [Next]_vars
  PROVE  \/ \E v \in Views : ViewStep(v)
         \/ SendReturns
         \/ UNCHANGED vars
BY DEF Next, ViewStep, WindowStep, Views

LEMMA InitType == Init => TypeOK
<1> SUFFICES ASSUME Init PROVE TypeOK
  OBVIOUS
<1>1. SlotType
  BY DEF Init, SlotType
<1>2. ViewType
  BY DEF Init, ViewType, Stages, Boxes
<1> QED BY <1>1, <1>2 DEF TypeOK

\* Every variable keeps its type in every step.
LEMMA StepType ==
  ASSUME TypeOK, [Next]_vars
  PROVE  TypeOK'
<1> USE DEF TypeOK, SlotType, ViewType, Views, Stages, Boxes, At, SetBox, windowVars, engineVars, waitVars
<1>1. ASSUME NEW v \in Views, ViewStep(v) PROVE TypeOK'
  <2>1. ASSUME v \in Windows, WindowStep(v) PROVE TypeOK'
    <3>1. CASE spawn_window_view(v) BY <2>1, <3>1 DEF spawn_window_view
    <3>2. CASE close(v) BY <2>1, <3>2 DEF close
    <3>3. CASE CreateWindow(v) BY <2>1, <3>3 DEF CreateWindow
    <3>4. CASE WindowThreadFails(v) BY <2>1, <3>4 DEF WindowThreadFails
    <3>5. CASE add_window_view(v) BY <2>1, <3>5 DEF add_window_view, AskToAdd
    <3>6. CASE WindowAdded(v) BY <2>1, <3>6 DEF WindowAdded
    <3>7. CASE WindowNotAdded(v) BY <2>1, <3>7 DEF WindowNotAdded, WaitEnds
    <3>8. CASE LeaveLoop(v) BY <2>1, <3>8 DEF LeaveLoop
    <3>9. CASE LeaveLoopRefused(v) BY <2>1, <3>9 DEF LeaveLoopRefused
    <3>10. CASE ViewRemoved(v) BY <2>1, <3>10 DEF ViewRemoved, WaitEnds
    <3>11. CASE Unregister(v) BY <2>1, <3>11 DEF Unregister
    <3>12. CASE Destroy(v) BY <2>1, <3>12 DEF Destroy
    <3>13. CASE SendToWindow(v) BY <2>1, <3>13 DEF SendToWindow
    <3> QED BY <2>1, <3>1, <3>2, <3>3, <3>4, <3>5, <3>6, <3>7, <3>8, <3>9, <3>10, <3>11, <3>12,
               <3>13 DEF WindowStep, WindowCalls, WindowThread
  <2>2. ASSUME v \in Offscreen, OffscreenCalls(v) PROVE TypeOK'
    <3>1. CASE add_offscreen_view(v) BY <2>2, <3>1 DEF add_offscreen_view, AskToAdd
    <3>2. CASE remove_offscreen_view(v) BY <2>2, <3>2 DEF remove_offscreen_view
    <3>3. CASE ViewRemoved(v) BY <2>2, <3>3 DEF ViewRemoved, WaitEnds
    <3> QED BY <2>2, <3>1, <3>2, <3>3 DEF OffscreenCalls
  <2>3. CASE AnswerAdd(v) BY <2>3 DEF AnswerAdd, Answer
  <2>4. CASE AnswerRemove(v) BY <2>4 DEF AnswerRemove, Answer
  <2> QED BY <1>1, <2>1, <2>2, <2>3, <2>4 DEF ViewStep, EngineAnswers
<1>2. CASE SendReturns BY <1>2 DEF SendReturns
<1>3. CASE UNCHANGED vars BY <1>3 DEF vars
<1> QED BY <1>1, <1>2, <1>3, StepOfOneView

\* Every variable of the view life cycle stays in its range.
THEOREM TypeCorrect == Spec => []TypeOK
<1>1. TypeOK /\ [Next]_vars => TypeOK'
  BY StepType
<1> QED BY InitType, <1>1, PTL DEF Spec

-----------------------------------------------------------------------------
(* The request invariant.                                                  *)

\* Nothing that Requested looks at changes for view u.
Untouched(u) ==
  /\ stage'[u] = stage[u] /\ box'[u] = box[u]
  /\ u \in adds' <=> u \in adds
  /\ u \in removes' <=> u \in removes
  /\ u \in engineViews' <=> u \in engineViews

LEMMA UntouchedKeepsRequested ==
  ASSUME NEW u \in Views, Requested(u), Untouched(u)
  PROVE  Requested(u)'
BY DEF Requested, Untouched, BeforeAsked, WhileAdding, WhileAdded, WhileRemoving

\* A step of one view leaves the others' requests alone.
LEMMA OthersUntouched ==
  ASSUME TypeOK, NEW v \in Views, ViewStep(v), NEW u \in Views, u # v
  PROVE  Untouched(u)
<1> USE DEF TypeOK, ViewType, At, SetBox, windowVars, engineVars, Untouched
<1>1. ASSUME v \in Windows, WindowStep(v) PROVE Untouched(u)
  BY <1>1 DEF WindowStep, WindowCalls, WindowThread, spawn_window_view, close, CreateWindow,
    WindowThreadFails, add_window_view, AskToAdd, WindowAdded, WindowNotAdded, LeaveLoop,
    LeaveLoopRefused, ViewRemoved, Unregister, Destroy, SendToWindow
<1>2. ASSUME OffscreenCalls(v) PROVE Untouched(u)
  BY <1>2 DEF OffscreenCalls, add_offscreen_view, AskToAdd, remove_offscreen_view, ViewRemoved
<1>3. ASSUME EngineAnswers(v) PROVE Untouched(u)
  BY <1>3 DEF EngineAnswers, AnswerAdd, AnswerRemove, Answer
<1> QED BY <1>1, <1>2, <1>3 DEF ViewStep

\* A step of a view keeps what is known of its own request.
LEMMA OwnRequestKept ==
  ASSUME TypeOK, NEW v \in Views, ViewStep(v), Requested(v)
  PROVE  Requested(v)'
<1> USE DEF TypeOK, ViewType, At, SetBox, windowVars, engineVars, Requested, BeforeAsked,
        WhileAdding, WhileAdded, WhileRemoving, Views
<1>1. ASSUME v \in Windows, WindowStep(v) PROVE Requested(v)'
  <2>1. CASE spawn_window_view(v) BY <1>1, <2>1 DEF spawn_window_view
  <2>2. CASE close(v) BY <1>1, <2>2 DEF close
  <2>3. CASE CreateWindow(v) BY <1>1, <2>3 DEF CreateWindow
  <2>4. CASE WindowThreadFails(v) BY <1>1, <2>4 DEF WindowThreadFails
  <2>5. CASE add_window_view(v) BY <1>1, <2>5 DEF add_window_view, AskToAdd
  <2>6. CASE WindowAdded(v) BY <1>1, <2>6 DEF WindowAdded
  <2>7. CASE WindowNotAdded(v) BY <1>1, <2>7 DEF WindowNotAdded, WaitEnds, GivesUp
  <2>8. CASE LeaveLoop(v) BY <1>1, <2>8 DEF LeaveLoop
  <2>9. CASE LeaveLoopRefused(v) BY <1>1, <2>9 DEF LeaveLoopRefused
  <2>10. CASE ViewRemoved(v) BY <1>1, <2>10 DEF ViewRemoved, WaitEnds, GivesUp
  <2>11. CASE Unregister(v) BY <1>1, <2>11 DEF Unregister
  <2>12. CASE Destroy(v) BY <1>1, <2>12 DEF Destroy
  <2>13. CASE SendToWindow(v) BY <1>1, <2>13 DEF SendToWindow
  <2> QED BY <1>1, <2>1, <2>2, <2>3, <2>4, <2>5, <2>6, <2>7, <2>8, <2>9, <2>10, <2>11, <2>12,
             <2>13 DEF WindowStep, WindowCalls, WindowThread
<1>2. ASSUME v \in Offscreen, OffscreenCalls(v) PROVE Requested(v)'
  <2>1. CASE add_offscreen_view(v) BY <1>2, <2>1 DEF add_offscreen_view, AskToAdd
  <2>2. CASE remove_offscreen_view(v) BY <1>2, <2>2 DEF remove_offscreen_view
  <2>3. CASE ViewRemoved(v) BY <1>2, <2>3 DEF ViewRemoved, WaitEnds, GivesUp
  <2> QED BY <1>2, <2>1, <2>2, <2>3 DEF OffscreenCalls
<1>3. CASE AnswerAdd(v) BY <1>3 DEF AnswerAdd, Answer
<1>4. CASE AnswerRemove(v) BY <1>4 DEF AnswerRemove, Answer
<1> QED BY <1>1, <1>2, <1>3, <1>4 DEF ViewStep, EngineAnswers

LEMMA StepRequest ==
  ASSUME TypeOK, RequestInv, [Next]_vars
  PROVE  RequestInv'
<1>1. ASSUME NEW v \in Views, ViewStep(v), NEW u \in Views PROVE Requested(u)'
  <2>1. CASE u = v
    BY <1>1, <2>1, OwnRequestKept DEF RequestInv
  <2>2. CASE u # v
    BY <1>1, <2>2, OthersUntouched, UntouchedKeepsRequested DEF RequestInv
  <2> QED BY <2>1, <2>2
<1>2. ASSUME SendReturns \/ UNCHANGED vars, NEW u \in Views PROVE Requested(u)'
  <2>1. Untouched(u)
    BY <1>2 DEF SendReturns, Untouched, vars, engineVars
  <2> QED BY <2>1, UntouchedKeepsRequested DEF RequestInv
<1> QED BY <1>1, <1>2, StepOfOneView DEF RequestInv

\* What is known of the engine and the box at each stage of a view always holds.
THEOREM RequestsFollowed == Spec => []RequestInv
<1>1. Init => RequestInv
  BY DEF Init, RequestInv, Requested, BeforeAsked, WhileAdding, WhileAdded, WhileRemoving
<1>2. TypeOK /\ RequestInv /\ [Next]_vars => RequestInv'
  BY StepRequest
<1> QED BY <1>1, <1>2, TypeCorrect, PTL DEF Spec

\* A window is announced as added only while the engine has its view, whatever
\* fails or takes too long (add_view_inner, wait_for_add_view).
THEOREM AddedWindowsInEngine == Spec => []AddedIsInEngine
<1>1. RequestInv => AddedIsInEngine
  BY DEF RequestInv, Requested, WhileAdded, AddedIsInEngine, Views
<1> QED BY <1>1, RequestsFollowed, PTL

-----------------------------------------------------------------------------
(* Surfaces and answers, when the two seconds are enough.                  *)

LEMMA StepSurface ==
  ASSUME TypeOK, RequestInv, SurfaceInv, [Next]_vars
  PROVE  SurfaceInv'
<1> USE DEF SurfaceInv, waitVars
<1>1. ASSUME NEW v \in Views, ViewStep(v) PROVE SurfaceInv'
  <2>1. CASE v \in Windows /\ WindowNotAdded(v)
    BY <2>1 DEF WindowNotAdded, WaitEnds, GivesUp, At, RequestInv, Requested, WhileAdding, engineVars
  <2>2. CASE ViewRemoved(v)
    BY <2>2 DEF ViewRemoved, WaitEnds, GivesUp, At, RequestInv, Requested, WhileRemoving, engineVars
  <2>3. CASE v \in Windows /\ add_window_view(v)
    BY <2>3 DEF add_window_view, AskToAdd
  <2>4. CASE add_offscreen_view(v)
    BY <2>4 DEF add_offscreen_view, AskToAdd
  <2>5. CASE EngineAnswers(v)
    BY <2>5 DEF EngineAnswers, AnswerAdd, AnswerRemove
  <2>6. CASE UNCHANGED <<registry, adds, engineViews, timedOut>>
    BY <2>6
  <2>7. CASE v \in Offscreen /\ remove_offscreen_view(v)
    BY <2>7 DEF remove_offscreen_view
  <2> QED
    BY <1>1, <2>1, <2>2, <2>3, <2>4, <2>5, <2>6, <2>7 DEF ViewStep, WindowStep, WindowCalls, WindowThread,
      OffscreenCalls, spawn_window_view, close, CreateWindow, WindowThreadFails, WindowAdded,
      LeaveLoop, LeaveLoopRefused, Unregister, Destroy, SendToWindow, engineVars
<1>2. CASE SendReturns BY <1>2 DEF SendReturns, engineVars
<1>3. CASE UNCHANGED vars BY <1>3 DEF vars, engineVars
<1> QED BY <1>1, <1>2, <1>3, StepOfOneView

\* A view the engine answers for in time keeps its surface as long as the engine has
\* it, although requests may fail to start, be refused, and be slow for other views.
THEOREM SurfacesOutliveViews == Spec => []EngineViewHasSurface
<1>1. Init => SurfaceInv
  BY DEF Init, SurfaceInv
<1>2. TypeOK /\ RequestInv /\ SurfaceInv /\ [Next]_vars => SurfaceInv'
  BY StepSurface
<1>3. SurfaceInv => EngineViewHasSurface
  BY DEF SurfaceInv, EngineViewHasSurface
<1> QED BY <1>1, <1>2, <1>3, TypeCorrect, RequestsFollowed, PTL DEF Spec

LEMMA OwnWaitKept ==
  ASSUME TypeOK, NEW v \in Views, v \notin timedOut', ViewStep(v), Requested(v), CallerWaits(v)
  PROVE  CallerWaits(v)'
<1> USE DEF TypeOK, ViewType, At, SetBox, windowVars, engineVars, CallerWaits, Views
<1>1. ASSUME v \in Windows, WindowStep(v) PROVE CallerWaits(v)'
  <2>1. CASE spawn_window_view(v)
    BY <1>1, <2>1 DEF spawn_window_view
  <2>2. CASE close(v)
    BY <1>1, <2>2 DEF close
  <2>3. CASE CreateWindow(v)
    BY <1>1, <2>3 DEF CreateWindow
  <2>4. CASE WindowThreadFails(v)
    BY <1>1, <2>4 DEF WindowThreadFails, Requested, BeforeAsked
  <2>5. CASE add_window_view(v)
    BY <1>1, <2>5 DEF add_window_view, AskToAdd, Requested, BeforeAsked
  <2>6. CASE WindowAdded(v)
    BY <1>1, <2>6 DEF WindowAdded, Requested, WhileAdding
  <2>7. CASE WindowNotAdded(v)
    BY <1>1, <2>7 DEF WindowNotAdded, WaitEnds, GivesUp, Requested, WhileAdding
  <2>8. CASE LeaveLoop(v)
    BY <1>1, <2>8 DEF LeaveLoop, Requested, WhileAdded
  <2>9. CASE LeaveLoopRefused(v)
    BY <1>1, <2>9 DEF LeaveLoopRefused
  <2>10. CASE ViewRemoved(v)
    BY <1>1, <2>10 DEF ViewRemoved, WaitEnds, GivesUp, Requested, WhileRemoving
  <2>11. CASE Unregister(v)
    BY <1>1, <2>11 DEF Unregister
  <2>12. CASE Destroy(v)
    BY <1>1, <2>12 DEF Destroy
  <2>13. CASE SendToWindow(v)
    BY <1>1, <2>13 DEF SendToWindow
  <2> QED BY <1>1, <2>1, <2>2, <2>3, <2>4, <2>5, <2>6, <2>7, <2>8, <2>9, <2>10, <2>11, <2>12,
             <2>13 DEF WindowStep, WindowCalls, WindowThread
<1>2. ASSUME v \in Offscreen, OffscreenCalls(v) PROVE CallerWaits(v)'
  <2>1. CASE add_offscreen_view(v) BY <1>2, <2>1 DEF add_offscreen_view, AskToAdd
  <2>2. CASE remove_offscreen_view(v) BY <1>2, <2>2 DEF remove_offscreen_view
  <2>3. CASE ViewRemoved(v)
    BY <1>2, <2>3 DEF ViewRemoved, WaitEnds, GivesUp
  <2> QED BY <1>2, <2>1, <2>2, <2>3 DEF OffscreenCalls
<1>3. CASE AnswerAdd(v) BY <1>3 DEF AnswerAdd, Answer
<1>4. CASE AnswerRemove(v) BY <1>4 DEF AnswerRemove, Answer
<1> QED BY <1>1, <1>2, <1>3, <1>4 DEF ViewStep, EngineAnswers

\* Time-outs are never forgotten.
LEMMA TimedOutGrows ==
  ASSUME [Next]_vars
  PROVE  timedOut \subseteq timedOut'
<1> USE DEF waitVars
<1>1. ASSUME NEW v \in Views, ViewStep(v) PROVE timedOut \subseteq timedOut'
  BY <1>1 DEF ViewStep, WindowStep, WindowCalls, WindowThread, OffscreenCalls, EngineAnswers,
    spawn_window_view, close, CreateWindow, WindowThreadFails, add_window_view, WindowAdded,
    WindowNotAdded, WaitEnds, LeaveLoop, LeaveLoopRefused, ViewRemoved, Unregister, Destroy,
    SendToWindow, add_offscreen_view, remove_offscreen_view, AnswerAdd, AnswerRemove
<1> QED BY <1>1, StepOfOneView DEF SendReturns, vars

LEMMA StepWait ==
  ASSUME TypeOK, RequestInv, WaitInv, [Next]_vars
  PROVE  WaitInv'
<1>3. timedOut \subseteq timedOut'
  BY TimedOutGrows
<1>1. ASSUME NEW v \in Views, ViewStep(v), NEW u \in Views, u \notin timedOut' PROVE CallerWaits(u)'
  <2>1. CASE u = v
    BY <1>1, <1>3, <2>1, OwnWaitKept DEF RequestInv, WaitInv
  <2>2. CASE u # v
    BY <1>1, <1>3, <2>2, OthersUntouched DEF WaitInv, CallerWaits, Untouched
  <2> QED BY <2>1, <2>2
<1>2. ASSUME SendReturns \/ UNCHANGED vars, NEW u \in Views, u \notin timedOut' PROVE CallerWaits(u)'
  BY <1>2, <1>3 DEF SendReturns, WaitInv, CallerWaits, vars, engineVars, waitVars
<1> QED BY <1>1, <1>2, StepOfOneView DEF WaitInv

\* For a view it answers for in time the engine never answers into a freed box.
THEOREM AnswersMeetTheirBox == Spec => []AnswerHasBox
<1>1. Init => WaitInv
  BY DEF Init, WaitInv, CallerWaits
<1>2. TypeOK /\ RequestInv /\ WaitInv /\ [Next]_vars => WaitInv'
  BY StepWait
<1>3. TypeOK /\ WaitInv => AnswerHasBox
  BY DEF WaitInv, CallerWaits, AnswerHasBox, Views, TypeOK, ViewType
<1> QED BY <1>1, <1>2, <1>3, TypeCorrect, RequestsFollowed, PTL DEF Spec

-----------------------------------------------------------------------------
(* Input.                                                                  *)

LEMMA StepSlot ==
  ASSUME TypeOK, SlotInv, [Next]_vars
  PROVE  SlotInv'
<1> USE DEF TypeOK, ViewType, SlotType, SlotInv, At, windowVars, engineVars
<1>1. ASSUME NEW v \in Views, ViewStep(v) PROVE SlotInv'
  <2>1. CASE v \in Windows /\ WindowAdded(v)
    BY <2>1 DEF WindowAdded
  <2>2. CASE Unregister(v)
    BY <2>2 DEF Unregister
  <2>3. ASSUME WindowStep(v), v \in Windows PROVE SlotInv'
    <3>1. CASE LeaveLoop(v) BY <2>3, <3>1 DEF LeaveLoop
    <3>2. CASE LeaveLoopRefused(v) BY <2>3, <3>2 DEF LeaveLoopRefused
    <3>3. CASE ViewRemoved(v) BY <2>3, <3>3 DEF ViewRemoved
    <3>4. CASE close(v) \/ SendToWindow(v) BY <2>3, <3>4 DEF close, SendToWindow
    <3>5. CASE spawn_window_view(v) \/ CreateWindow(v) \/ WindowThreadFails(v)
               \/ add_window_view(v) \/ WindowNotAdded(v) \/ Destroy(v)
      <4>1. v \notin viewId /\ UNCHANGED viewId
        BY <3>5 DEF spawn_window_view, CreateWindow, WindowThreadFails, add_window_view,
          WindowNotAdded, Destroy
      <4>2. stage' = [stage EXCEPT ![v] = stage'[v]]
        BY <3>5 DEF spawn_window_view, CreateWindow, WindowThreadFails, add_window_view,
          WindowNotAdded, Destroy
      <4> QED BY <4>1, <4>2 DEF Views
    <3> QED BY <2>1, <2>2, <2>3, <3>1, <3>2, <3>3, <3>4, <3>5 DEF WindowStep, WindowCalls, WindowThread
  <2>4. ASSUME OffscreenCalls(v), v \in Offscreen PROVE SlotInv'
    <3>1. v \notin Windows /\ UNCHANGED viewId
      BY <2>4 DEF OffscreenCalls, add_offscreen_view, AskToAdd, remove_offscreen_view,
        ViewRemoved
    <3>2. stage' = [stage EXCEPT ![v] = stage'[v]]
      BY <2>4 DEF OffscreenCalls, add_offscreen_view, remove_offscreen_view, ViewRemoved
    <3> QED BY <3>1, <3>2 DEF Views
  <2>5. ASSUME EngineAnswers(v) PROVE SlotInv'
    BY <2>5 DEF EngineAnswers, AnswerAdd, AnswerRemove
  <2> QED BY <1>1, <2>3, <2>4, <2>5 DEF ViewStep
<1>2. CASE SendReturns BY <1>2 DEF SendReturns
<1>3. CASE UNCHANGED vars BY <1>3 DEF vars
<1> QED BY <1>1, <1>2, <1>3, StepOfOneView

\* What a window dispatches with its view id set goes to a view the engine has,
\* for any number of windows and whatever fails or takes too long.
THEOREM InputMeetsLiveView == Spec => []InputReachesLiveView
<1>1. Init => SlotInv
  BY DEF Init, SlotInv
<1>2. TypeOK /\ SlotInv /\ [Next]_vars => SlotInv'
  BY StepSlot
<1>3. RequestInv /\ SlotInv => InputReachesLiveView
  BY DEF RequestInv, Requested, WhileAdded, SlotInv, InputReachesLiveView, Dispatches, Views
<1> QED BY <1>1, <1>2, <1>3, TypeCorrect, RequestsFollowed, PTL DEF Spec
-----------------------------------------------------------------------------
(* The tear-down.                                                          *)

\* Nothing that Holds looks at changes for window w, but that it may lose its window.
LeftAsItWas(w) ==
  /\ stage'[w] = stage[w]
  /\ w \in controls' \cup keyboard' \cup viewId' => w \in controls \cup keyboard \cup viewId
  /\ w \in open' => w \in open
  /\ w \in registry' <=> w \in registry
  /\ w \in engineViews => w \in engineViews'

\* A step of one view leaves what the other windows hold alone.
LEMMA OthersLeftAlone ==
  ASSUME TypeOK, NEW v \in Views, ViewStep(v), NEW w \in Windows, w # v
  PROVE  LeftAsItWas(w)
<1> USE DEF TypeOK, ViewType, SlotType, At, SetBox, windowVars, engineVars, LeftAsItWas, Views
<1>1. ASSUME v \in Windows, WindowStep(v) PROVE LeftAsItWas(w)
  BY <1>1 DEF WindowStep, WindowCalls, WindowThread, spawn_window_view, close, CreateWindow,
    WindowThreadFails, add_window_view, AskToAdd, WindowAdded, WindowNotAdded, LeaveLoop,
    LeaveLoopRefused, ViewRemoved, Unregister, Destroy, SendToWindow
<1>2. ASSUME OffscreenCalls(v) PROVE LeftAsItWas(w)
  BY <1>2 DEF OffscreenCalls, add_offscreen_view, AskToAdd, remove_offscreen_view, ViewRemoved
<1>3. ASSUME EngineAnswers(v) PROVE LeftAsItWas(w)
  BY <1>3 DEF EngineAnswers, AnswerAdd, AnswerRemove
<1> QED BY <1>1, <1>2, <1>3 DEF ViewStep

\* What a window holds fits its stage after a step of its own thread, of the host or
\* of the engine: each way out of run_window_thread has a case here.
LEMMA OwnHoldsKept ==
  ASSUME TypeOK, NEW w \in Windows, ViewStep(w), Requested(w),
         w \notin timedOut => CallerWaits(w), Holds(w), timedOut \subseteq timedOut'
  PROVE  Holds(w)'
<1> USE DEF TypeOK, ViewType, SlotType, At, windowVars, engineVars, waitVars, Holds, Views
<1>1. CASE spawn_window_view(w) BY <1>1 DEF spawn_window_view
<1>2. CASE close(w) BY <1>2 DEF close
<1>3. CASE CreateWindow(w) BY <1>3 DEF CreateWindow
<1>4. CASE WindowThreadFails(w) BY <1>4 DEF WindowThreadFails
<1>5. CASE add_window_view(w) BY <1>5 DEF add_window_view, AskToAdd
<1>6. CASE WindowAdded(w) BY <1>6 DEF WindowAdded
<1>7. CASE WindowNotAdded(w) BY <1>7 DEF WindowNotAdded
<1>8. CASE LeaveLoop(w) BY <1>8 DEF LeaveLoop
<1>9. CASE LeaveLoopRefused(w) BY <1>9 DEF LeaveLoopRefused, Requested, WhileAdded
<1>10. CASE ViewRemoved(w) BY <1>10 DEF ViewRemoved
<1>11. CASE Unregister(w) BY <1>11 DEF Unregister
<1>12. CASE Destroy(w) BY <1>12 DEF Destroy
<1>13. CASE SendToWindow(w) BY <1>13 DEF SendToWindow
<1>14. CASE AnswerAdd(w) BY <1>14 DEF AnswerAdd
<1>15. CASE AnswerRemove(w)
  BY <1>15 DEF AnswerRemove, CallerWaits
<1> QED
  BY <1>1, <1>2, <1>3, <1>4, <1>5, <1>6, <1>7, <1>8, <1>9, <1>10, <1>11, <1>12, <1>13, <1>14, <1>15
  DEF ViewStep, WindowStep, WindowCalls, WindowThread, EngineAnswers

LEMMA StepTearDown ==
  ASSUME TypeOK, RequestInv, WaitInv, TearDownInv, [Next]_vars
  PROVE  TearDownInv'
<1>0. timedOut \subseteq timedOut'
  BY TimedOutGrows
<1>1. ASSUME NEW v \in Views, ViewStep(v), NEW w \in Windows PROVE Holds(w)'
  <2>1. CASE w = v
    BY <1>0, <1>1, <2>1, OwnHoldsKept DEF RequestInv, WaitInv, TearDownInv, Views
  <2>2. CASE w # v
    BY <1>0, <1>1, <2>2, OthersLeftAlone DEF LeftAsItWas, TearDownInv, Holds
  <2> QED BY <2>1, <2>2
<1>2. ASSUME SendReturns \/ UNCHANGED vars, NEW w \in Windows PROVE Holds(w)'
  BY <1>2 DEF SendReturns, vars, windowVars, engineVars, waitVars, TearDownInv, Holds
<1> QED BY <1>1, <1>2, StepOfOneView DEF TearDownInv

\* A window thread that ended left no controls, keyboard state, view id or window, and
\* a surface only of a view the engine still has: on every way out of it, for any
\* number of windows, whatever fails, and whenever close comes.
THEOREM ThreadsEndClean == Spec => []EndedLeavesNothing
<1>1. Init => WaitInv /\ TearDownInv
  BY DEF Init, WaitInv, CallerWaits, TearDownInv, Holds, Views
<1>2. TypeOK /\ RequestInv /\ WaitInv /\ TearDownInv /\ [Next]_vars => (WaitInv /\ TearDownInv)'
  BY StepWait, StepTearDown
<1>3. TearDownInv => EndedLeavesNothing
  BY DEF TearDownInv, Holds, EndedLeavesNothing
<1> QED BY <1>1, <1>2, <1>3, TypeCorrect, RequestsFollowed, PTL DEF Spec
=============================================================================
