-------------------------- MODULE TaskRunnerProofs --------------------------
(***************************************************************************)
(* Theorems about TaskRunner for every set of posters and every bound.     *)
(***************************************************************************)
EXTENDS TaskRunner, TLAPS

-----------------------------------------------------------------------------
(* Frames: the actions that can change each group of variables.            *)

LEMMA WakerFrame ==
  ASSUME Next
  PROVE  \/ UNCHANGED <<wakerVars, pc>>
         \/ \E c \in Callers : \/ post_task_callback(c)
                               \/ \E q \in Queues : QueueItem(c, q)
                               \/ wake_up_load(c) \/ wake_up_cas(c) \/ wake_up_post(c)
         \/ CreateWindow \/ GetMessage \/ clear_posted \/ NestedWmNull
         \/ TimerExpires \/ StoreEngine
BY DEF Next, WakeUp, RunnerThread, TimerThread, StarterThread, LoadEngine, DrainTasks,
  FlutterEngineRunTask, TasksDone, SendLocale, DrainQueue, TimerTop, TimerNotified,
  TimerSpurious, FlutterEngineInitialize, PublishEngine, RunInitializedFails,
  ClearEnginePtr, RunInitializedSucceeds, InitOverlayReturns, FlutterEngineShutdown,
  ShutdownRequested, Tick

LEMMA QueueFrame ==
  ASSUME Next
  PROVE  \/ UNCHANGED queueVars
         \/ \E c \in Callers : post_task_callback(c) \/ \E q \in Queues : QueueItem(c, q)
         \/ DrainTasks \/ SendLocale \/ (\E q \in Queues : DrainQueue(q))
         \/ RunInitializedSucceeds
BY DEF Next, WakeUp, RunnerThread, TimerThread, StarterThread, wake_up_load, wake_up_cas,
  wake_up_post, CreateWindow, GetMessage, clear_posted, LoadEngine, FlutterEngineRunTask,
  TasksDone, NestedWmNull, TimerTop, TimerNotified, TimerExpires, TimerSpurious,
  FlutterEngineInitialize, PublishEngine, RunInitializedFails, ClearEnginePtr, StoreEngine,
  InitOverlayReturns, FlutterEngineShutdown, ShutdownRequested, Tick

LEMMA RunnerFrame ==
  ASSUME Next
  PROVE  \/ UNCHANGED runnerVars
         \/ CreateWindow \/ GetMessage \/ clear_posted \/ LoadEngine \/ DrainTasks
         \/ FlutterEngineRunTask \/ TasksDone \/ SendLocale
         \/ \E q \in Queues : DrainQueue(q)
BY DEF Next, WakeUp, RunnerThread, TimerThread, StarterThread, post_task_callback,
  QueueItem, wake_up_load, wake_up_cas, wake_up_post, NestedWmNull, TimerTop,
  TimerNotified, TimerExpires, TimerSpurious, FlutterEngineInitialize, PublishEngine,
  RunInitializedFails, ClearEnginePtr, RunInitializedSucceeds, StoreEngine,
  InitOverlayReturns, FlutterEngineShutdown, ShutdownRequested, Tick

LEMMA TimerFrame ==
  ASSUME Next
  PROVE  \/ UNCHANGED timerVars
         \/ DrainTasks \/ TimerTop \/ TimerNotified \/ TimerExpires \/ TimerSpurious
BY DEF Next, WakeUp, RunnerThread, TimerThread, StarterThread, post_task_callback,
  QueueItem, wake_up_load, wake_up_cas, wake_up_post, CreateWindow, GetMessage,
  clear_posted, LoadEngine, FlutterEngineRunTask, TasksDone, SendLocale, DrainQueue,
  NestedWmNull, FlutterEngineInitialize, PublishEngine, RunInitializedFails,
  ClearEnginePtr, RunInitializedSucceeds, StoreEngine, InitOverlayReturns,
  FlutterEngineShutdown, ShutdownRequested, Tick

LEMMA EngineFrame ==
  ASSUME Next
  PROVE  \/ UNCHANGED <<engineVars, now>>
         \/ FlutterEngineInitialize \/ PublishEngine \/ RunInitializedFails
         \/ ClearEnginePtr \/ RunInitializedSucceeds \/ StoreEngine
         \/ InitOverlayReturns \/ FlutterEngineShutdown \/ ShutdownRequested
         \/ Tick
BY DEF Next, WakeUp, RunnerThread, TimerThread, StarterThread, post_task_callback,
  QueueItem, wake_up_load, wake_up_cas, wake_up_post, CreateWindow, GetMessage,
  clear_posted, LoadEngine, DrainTasks, FlutterEngineRunTask, TasksDone, SendLocale,
  DrainQueue, NestedWmNull, TimerTop, TimerNotified, TimerExpires, TimerSpurious

-----------------------------------------------------------------------------
(* Type correctness.                                                       *)

LEMMA WakerTypeStep ==
  ASSUME TypeOK, [Next]_vars
  PROVE  WakerType'
<1> USE DEF TypeOK, WakerType, wakerVars, Callers
<1>1. CASE UNCHANGED <<wakerVars, pc>>
  BY <1>1
<1>2. CASE UNCHANGED vars
  BY <1>2 DEF vars
<1>3. ASSUME NEW c \in Callers, post_task_callback(c) \/ \E q \in Queues : QueueItem(c, q)
      PROVE  WakerType'
  BY <1>3 DEF post_task_callback, QueueItem
<1>4. ASSUME NEW c \in Callers, wake_up_load(c) PROVE WakerType'
  BY <1>4 DEF wake_up_load
<1>5. ASSUME NEW c \in Callers, wake_up_cas(c) PROVE WakerType'
  BY <1>5 DEF wake_up_cas
<1>6. ASSUME NEW c \in Callers, wake_up_post(c) PROVE WakerType'
  BY <1>6 DEF wake_up_post
<1>7. CASE CreateWindow \/ clear_posted
  BY <1>7 DEF CreateWindow, clear_posted
<1>10. CASE GetMessage \/ NestedWmNull
  BY <1>10 DEF GetMessage, NestedWmNull
<1>8. CASE TimerExpires \/ StoreEngine
  BY <1>8 DEF TimerExpires, StoreEngine
<1>9. QED
  BY <1>1, <1>2, <1>3, <1>4, <1>5, <1>6, <1>7, <1>8, <1>10, WakerFrame

LEMMA QueueTypeStep ==
  ASSUME TypeOK, [Next]_vars
  PROVE  QueueType'
<1> USE RunnerAssumption DEF TypeOK, QueueType, queueVars
<1>1. CASE UNCHANGED queueVars
  BY <1>1
<1>2. CASE UNCHANGED vars
  BY <1>2 DEF vars
<1>3. ASSUME NEW c \in Callers, post_task_callback(c) PROVE QueueType'
  BY <1>3 DEF post_task_callback, Tasks
<1>4. ASSUME NEW c \in Callers, NEW q \in Queues, QueueItem(c, q) PROVE QueueType'
  BY <1>4 DEF QueueItem
<1>5. CASE DrainTasks \/ SendLocale \/ RunInitializedSucceeds
  BY <1>5 DEF DrainTasks, SendLocale, RunInitializedSucceeds
<1>6. ASSUME NEW q \in Queues, DrainQueue(q) PROVE QueueType'
  BY <1>6 DEF DrainQueue
<1>7. QED
  BY <1>1, <1>2, <1>3, <1>4, <1>5, <1>6, QueueFrame

LEMMA RunnerTypeStep ==
  ASSUME TypeOK, [Next]_vars
  PROVE  RunnerType'
<1> USE DEF TypeOK, RunnerType, runnerVars, RunnerPhases, RunnerStep
<1>1. CASE UNCHANGED runnerVars
  BY <1>1
<1>2. CASE UNCHANGED vars
  BY <1>2 DEF vars
<1>3. CASE CreateWindow \/ GetMessage \/ clear_posted \/ LoadEngine
  BY <1>3 DEF CreateWindow, GetMessage, clear_posted, LoadEngine
<1>4. CASE DrainTasks
  BY <1>4 DEF DrainTasks, Due, QueueType
<1>5. CASE FlutterEngineRunTask
  BY <1>5 DEF FlutterEngineRunTask, Tasks
<1>6. CASE TasksDone \/ SendLocale
  BY <1>6 DEF TasksDone, SendLocale
<1>7. ASSUME NEW q \in Queues, DrainQueue(q) PROVE RunnerType'
  BY <1>7 DEF DrainQueue, After, Queues
<1>8. QED
  BY <1>1, <1>2, <1>3, <1>4, <1>5, <1>6, <1>7, RunnerFrame

\* DrainTasks arms the timer exactly when a task is left for later.
LEMMA DrainArms ==
  ASSUME TypeOK, DrainTasks
  PROVE  /\ deadline' \in Nat \cup {None} /\ rearmed' \in BOOLEAN
         /\ heap' # {} => deadline' # None
<1> USE RunnerAssumption DEF TypeOK, TimerType
<1>1. CASE heap = Due
  BY <1>1 DEF DrainTasks
<1>2. CASE heap # Due
  <2>1. PICK t \in heap \ Due : schedule_in(t.at - now)
    BY <1>2 DEF DrainTasks, Due
  <2>2. t.at - now \in Nat
    BY <2>1 DEF Due, Tasks, QueueType, EngineType
  <2>3. QED
    BY <2>1, <2>2 DEF schedule_in
<1>3. QED
  BY <1>1, <1>2

LEMMA TimerTypeStep ==
  ASSUME TypeOK, [Next]_vars
  PROVE  TimerType'
<1> USE RunnerAssumption DEF TypeOK, TimerType, timerVars
<1>1. CASE UNCHANGED timerVars
  BY <1>1
<1>2. CASE UNCHANGED vars
  BY <1>2 DEF vars
<1>3. CASE DrainTasks
  BY <1>3, DrainArms DEF DrainTasks
<1>4. CASE TimerTop
  <2>1. CASE deadline = None
    BY <1>4, <2>1 DEF TimerTop
  <2>2. CASE deadline # None
    <3>1. deadline \in Nat /\ now \in Nat
      BY <2>2 DEF EngineType
    <3>2. until' = now + deadline /\ period' = deadline
      BY <1>4, <2>2 DEF TimerTop
    <3>3. until' \in Nat /\ period' \in Nat
      BY <3>1, <3>2
    <3>4. deadline' = None /\ rearmed' = FALSE /\ timer' = "waiting" /\ spurious' = spurious
      BY <1>4, <2>2 DEF TimerTop
    <3>5. QED
      BY <3>3, <3>4
  <2>3. QED
    BY <2>1, <2>2
<1>5. CASE TimerNotified \/ TimerExpires \/ TimerSpurious
  BY <1>5 DEF TimerNotified, TimerExpires, TimerSpurious
<1>6. QED
  BY <1>1, <1>2, <1>3, <1>4, <1>5, TimerFrame

LEMMA EngineTypeStep ==
  ASSUME TypeOK, [Next]_vars
  PROVE  EngineType'
<1> USE DEF TypeOK, EngineType, engineVars, StarterPhases, StarterStep
<1>1. CASE UNCHANGED <<engineVars, now>>
  BY <1>1
<1>2. CASE UNCHANGED vars
  BY <1>2 DEF vars
<1>3. CASE \/ FlutterEngineInitialize \/ PublishEngine \/ RunInitializedFails
           \/ ClearEnginePtr \/ RunInitializedSucceeds
  BY <1>3 DEF FlutterEngineInitialize, PublishEngine, RunInitializedFails, ClearEnginePtr,
    RunInitializedSucceeds
<1>4. CASE StoreEngine \/ InitOverlayReturns \/ FlutterEngineShutdown \/ ShutdownRequested
  BY <1>4 DEF StoreEngine, InitOverlayReturns, FlutterEngineShutdown, ShutdownRequested
<1>5. CASE Tick
  BY <1>5 DEF Tick
<1>6. QED
  BY <1>1, <1>2, <1>3, <1>4, <1>5, EngineFrame

\* Every reachable state of the runner, its timer and its queues is well typed.
THEOREM TypeCorrect == Spec => []TypeOK
<1>1. Init => TypeOK
  <2> SUFFICES ASSUME Init PROVE TypeOK
    OBVIOUS
  <2> USE RunnerAssumption DEF Init
  <2>1. WakerType /\ TimerType
    BY DEF WakerType, TimerType
  <2>2. QueueType
    <3>1. heap \subseteq Tasks /\ nextId \in 1 .. MaxTasks + 1
      OBVIOUS
    <3>4. pushes \in Nat /\ locale \in BOOLEAN
      OBVIOUS
    <3>2. pending \in [Queues -> Nat]
      OBVIOUS
    <3>3. QED
      BY <3>1, <3>2, <3>4 DEF QueueType
  <2>3. RunnerType /\ EngineType
    BY DEF RunnerType, EngineType, RunnerPhases, StarterPhases
  <2>4. QED
    BY <2>1, <2>2, <2>3 DEF TypeOK
<1>2. TypeOK /\ [Next]_vars => TypeOK'
  BY WakerTypeStep, QueueTypeStep, RunnerTypeStep, TimerTypeStep, EngineTypeStep DEF TypeOK
<1>3. QED
  BY <1>1, <1>2, PTL DEF Spec

-----------------------------------------------------------------------------
(* The flood guard.                                                        *)

LEMMA FloodStep ==
  ASSUME TypeOK, FloodInv, [Next]_vars
  PROVE  FloodInv'
<1> USE DEF TypeOK, WakerType, FloodInv, FloodGuard, WmNullOutstanding, wakerVars
<1>1. CASE UNCHANGED vars
  BY <1>1 DEF vars, runnerVars
<1>2. ASSUME NEW c \in Callers, wake_up_load(c) PROVE FloodInv'
  BY <1>2 DEF wake_up_load, runnerVars
<1>3. ASSUME NEW c \in Callers, wake_up_cas(c) PROVE FloodInv'
  BY <1>3 DEF wake_up_cas, runnerVars
<1>4. ASSUME NEW c \in Callers, wake_up_post(c) PROVE FloodInv'
  BY <1>4 DEF wake_up_post, runnerVars
<1>5. ASSUME NEW c \in Callers, post_task_callback(c) \/ \E q \in Queues : QueueItem(c, q)
      PROVE  FloodInv'
  BY <1>5 DEF post_task_callback, QueueItem, runnerVars
<1>6. CASE CreateWindow
  BY <1>6 DEF CreateWindow, RunnerStep
<1>7. CASE GetMessage
  BY <1>7 DEF GetMessage, RunnerStep
<1>8. CASE clear_posted
  BY <1>8 DEF clear_posted, RunnerStep
<1>9. CASE NestedWmNull
  BY <1>9 DEF NestedWmNull, runnerVars
<1>10. CASE TimerExpires \/ StoreEngine
  BY <1>10 DEF TimerExpires, StoreEngine, runnerVars, Callers
<1>11. CASE UNCHANGED <<wakerVars, pc>>
  <2>1. CASE UNCHANGED runner
    BY <1>11, <2>1
  <2>2. CASE runner # "clear" /\ runner' # "clear"
    BY <1>11, <2>2
  <2>3. Next => \/ UNCHANGED runner
                \/ runner # "clear" /\ runner' # "clear"
                \/ CreateWindow \/ GetMessage \/ clear_posted
    BY RunnerFrame DEF runnerVars, LoadEngine, DrainTasks, FlutterEngineRunTask,
       TasksDone, SendLocale, DrainQueue, After, RunnerStep, Queues
  <2>4. QED
    BY <1>1, <1>6, <1>7, <1>8, <2>1, <2>2, <2>3
<1>12. QED
  BY <1>1, <1>2, <1>3, <1>4, <1>5, <1>6, <1>7, <1>8, <1>9, <1>10, <1>11, WakerFrame

\* At most one WM_NULL is outstanding, however many threads call wake_up and
\* whatever a handler pumps.
THEOREM FloodGuardHolds == Spec => []FloodGuard
<1>1. Init => FloodInv
  BY DEF Init, FloodInv, FloodGuard, WmNullOutstanding
<1>2. TypeOK /\ FloodInv /\ [Next]_vars => FloodInv'
  BY FloodStep
<1>3. FloodInv => FloodGuard
  BY DEF FloodInv
<1>4. QED
  BY <1>1, <1>2, <1>3, TypeCorrect, PTL DEF Spec

-----------------------------------------------------------------------------
(* No wake-up is lost, when no handler pumps messages.                     *)

LEMMA GuardStep ==
  ASSUME TypeOK, FloodInv, GuardInv, EngineInv, NestedPump = FALSE, [Next]_vars
  PROVE  GuardInv'
<1> USE DEF TypeOK, WakerType, FloodInv, FloodGuard, GuardInv, WmNullOutstanding, wakerVars
<1>1. CASE UNCHANGED vars
  BY <1>1 DEF vars, runnerVars
<1>2. ASSUME NEW c \in Callers, wake_up_load(c) PROVE GuardInv'
  BY <1>2 DEF wake_up_load, runnerVars
<1>3. ASSUME NEW c \in Callers, wake_up_cas(c) PROVE GuardInv'
  BY <1>3 DEF wake_up_cas, runnerVars
<1>4. ASSUME NEW c \in Callers, wake_up_post(c) PROVE GuardInv'
  BY <1>4 DEF wake_up_post, runnerVars
<1>5. ASSUME NEW c \in Callers, post_task_callback(c) \/ \E q \in Queues : QueueItem(c, q)
      PROVE  GuardInv'
  BY <1>5 DEF post_task_callback, QueueItem, runnerVars
<1>6. CASE CreateWindow
  BY <1>6 DEF CreateWindow, RunnerStep
<1>7. CASE GetMessage
  BY <1>7 DEF GetMessage, RunnerStep
<1>8. CASE clear_posted
  BY <1>8 DEF clear_posted, RunnerStep
<1>9. CASE NestedWmNull
  BY <1>9 DEF NestedWmNull
<1>10. CASE TimerExpires \/ StoreEngine
  BY <1>10 DEF TimerExpires, TimerIdle, StoreEngine, StarterStep, EngineInv, runnerVars, Callers
<1>11. CASE UNCHANGED <<wakerVars, pc>>
  <2>1. CASE UNCHANGED runner
    BY <1>11, <2>1
  <2>2. CASE runner # "clear"
    BY <1>11, <2>2
  <2>3. Next => UNCHANGED runner \/ runner # "clear" \/ clear_posted
    BY RunnerFrame DEF runnerVars, CreateWindow, GetMessage, LoadEngine, DrainTasks,
       FlutterEngineRunTask, TasksDone, SendLocale, DrainQueue, RunnerStep, Queues
  <2>4. QED
    BY <1>1, <1>8, <2>1, <2>2, <2>3
<1>12. QED
  BY <1>1, <1>2, <1>3, <1>4, <1>5, <1>6, <1>7, <1>8, <1>9, <1>10, <1>11, WakerFrame

LEMMA EngineStep ==
  ASSUME TypeOK, EngineInv, [Next]_vars
  PROVE  EngineInv'
<1> USE DEF EngineInv
<1>1. (served => hwnd)' /\ (runner \notin {"starting", "exited"} => hwnd)'
  <2>1. CASE UNCHANGED vars
    BY <2>1 DEF vars, wakerVars, runnerVars
  <2>2. Next => hwnd' = hwnd \/ hwnd'
    BY WakerFrame DEF wakerVars, post_task_callback, QueueItem, wake_up_load, wake_up_cas,
       wake_up_post, CreateWindow, GetMessage, clear_posted, NestedWmNull, TimerExpires,
       StoreEngine
  <2>3. Next => \/ UNCHANGED <<runner, served>>
                \/ hwnd'
                \/ runner \notin {"starting", "exited"}
                \/ runner' = "exited" /\ UNCHANGED served
    BY RunnerFrame DEF runnerVars, CreateWindow, GetMessage, clear_posted, LoadEngine,
       DrainTasks, FlutterEngineRunTask, TasksDone, SendLocale, DrainQueue, RunnerStep, Queues
  <2>4. QED
    BY <2>1, <2>2, <2>3
<1>2. /\ (engine = "alive" => ptr \/ starter = "initialized")'
      /\ (starter = "deinit" => engine = "gone")'
  <2> USE DEF engineVars, StarterStep
  <2>1. CASE UNCHANGED vars
    BY <2>1 DEF vars
  <2>2. CASE UNCHANGED <<engineVars, now>>
    BY <2>2
  <2>3. CASE FlutterEngineInitialize \/ PublishEngine \/ RunInitializedFails \/ ClearEnginePtr
    BY <2>3 DEF FlutterEngineInitialize, PublishEngine, RunInitializedFails, ClearEnginePtr
  <2>4. CASE \/ RunInitializedSucceeds \/ StoreEngine \/ InitOverlayReturns
             \/ FlutterEngineShutdown \/ ShutdownRequested \/ Tick
    BY <2>4 DEF RunInitializedSucceeds, StoreEngine, InitOverlayReturns,
       FlutterEngineShutdown, ShutdownRequested, Tick
  <2>5. QED
    BY <2>1, <2>2, <2>3, <2>4, EngineFrame
<1>3. (pc["starter"] # "idle" => starter = "waking")'
  <2> USE DEF TypeOK, WakerType, engineVars, StarterStep
  <2>1. CASE UNCHANGED vars
    BY <2>1 DEF vars
  <2>2. ASSUME NEW c \in Callers, post_task_callback(c) \/ \E q \in Queues : QueueItem(c, q)
        PROVE  pc'["starter"] = pc["starter"] /\ starter' = starter
    BY <2>2, RunnerAssumption DEF post_task_callback, QueueItem, MayPush, Callers
  <2>3. ASSUME NEW c \in Callers, wake_up_load(c) \/ wake_up_cas(c) \/ wake_up_post(c)
        PROVE  (pc'["starter"] # "idle" => pc["starter"] # "idle") /\ starter' = starter
    BY <2>3 DEF wake_up_load, wake_up_cas, wake_up_post, Callers
  <2>4. CASE CreateWindow \/ GetMessage \/ clear_posted \/ NestedWmNull \/ TimerExpires
    BY <2>4 DEF CreateWindow, GetMessage, clear_posted, NestedWmNull, TimerExpires, Callers
  <2>5. CASE StoreEngine
    BY <2>5 DEF StoreEngine
  <2>6. CASE UNCHANGED <<wakerVars, pc>>
    BY <2>1, <2>6, EngineFrame DEF FlutterEngineInitialize, PublishEngine,
       RunInitializedFails, ClearEnginePtr, RunInitializedSucceeds, StoreEngine,
       InitOverlayReturns, FlutterEngineShutdown, ShutdownRequested, Tick
  <2>7. QED
    BY <2>1, <2>2, <2>3, <2>4, <2>5, <2>6, WakerFrame
<1>4. QED
  BY <1>1, <1>2, <1>3

\* A wake-up in flight stays in flight until the runner takes its message.
LEMMA WakePersists ==
  ASSUME TypeOK, GuardInv, EngineInv, NestedPump = FALSE, Next,
         served, WakeInFlight, engine' = "alive"
  PROVE  WakeInFlight' \/ runner' = "clear"
<1> USE DEF TypeOK, WakerType, EngineInv, WakeInFlight, wakerVars, Callers
<1>1. CASE UNCHANGED <<wakerVars, pc>>
  BY <1>1, EngineFrame DEF engineVars, FlutterEngineInitialize, PublishEngine,
     RunInitializedFails, ClearEnginePtr, RunInitializedSucceeds, StoreEngine,
     InitOverlayReturns, FlutterEngineShutdown, ShutdownRequested, Tick, StarterStep
<1>2. ASSUME NEW c \in Callers, post_task_callback(c) \/ \E q \in Queues : QueueItem(c, q)
      PROVE  WakeInFlight'
  BY <1>2 DEF post_task_callback, QueueItem
<1>3. ASSUME NEW c \in Callers, wake_up_load(c) PROVE WakeInFlight'
  BY <1>3 DEF wake_up_load
<1>4. ASSUME NEW c \in Callers, wake_up_cas(c) PROVE WakeInFlight' \/ runner' = "clear"
  <2>1. CASE posted
    <3>1. \/ wmNull' > 0 \/ runner' = "clear"
          \/ \E d \in Callers : d # c /\ pc[d] = "post"
      BY <1>4, <2>1 DEF wake_up_cas, GuardInv, WmNullOutstanding, runnerVars
    <3>2. \A d \in Callers : d # c => pc'[d] = pc[d]
      BY <1>4 DEF wake_up_cas
    <3>3. QED
      BY <3>1, <3>2
  <2>2. CASE ~posted
    BY <1>4, <2>2 DEF wake_up_cas
  <2>3. QED
    BY <2>1, <2>2
<1>5. ASSUME NEW c \in Callers, wake_up_post(c) PROVE WakeInFlight'
  BY <1>5 DEF wake_up_post
<1>6. CASE CreateWindow \/ GetMessage \/ clear_posted
  BY <1>6 DEF CreateWindow, GetMessage, clear_posted, RunnerStep, engineVars
<1>7. CASE NestedWmNull
  BY <1>7 DEF NestedWmNull
<1>8. CASE TimerExpires \/ StoreEngine
  BY <1>8 DEF TimerExpires, StoreEngine
<1>9. QED
  BY <1>1, <1>2, <1>3, <1>4, <1>5, <1>6, <1>7, <1>8, WakerFrame

LEMMA WorkStep ==
  ASSUME TypeOK, FloodInv, GuardInv, EngineInv, EngineInv', WorkInv, NestedPump = FALSE,
         [Next]_vars
  PROVE  WorkInv'
<1> SUFFICES ASSUME Next, served', engine' = "alive"
             PROVE  (\A q \in Queues : QueueWillDrain(q)') /\ LocaleWillBeSent' /\ HeapWillDrain'
  BY DEF WorkInv, QueueWillDrain, LocaleWillBeSent, HeapWillDrain, WakeInFlight, TimerArmed,
     vars, wakerVars, queueVars, runnerVars, timerVars, engineVars
<1>1. CASE DrainTasks
  <2>1. runner' = "run"
    BY <1>1 DEF DrainTasks, RunnerStep
  <2>2. HeapWillDrain'
    BY <1>1, DrainArms DEF HeapWillDrain, TimerArmed, TypeOK, TimerType
  <2>3. QED
    BY <2>1, <2>2 DEF QueueWillDrain, LocaleWillBeSent, UpTo, Queues
<1>2. CASE engine # "alive"
  <2>1. FlutterEngineInitialize
    BY <1>2, EngineFrame DEF engineVars, PublishEngine, RunInitializedFails, ClearEnginePtr,
       RunInitializedSucceeds, StoreEngine, InitOverlayReturns, FlutterEngineShutdown,
       ShutdownRequested, Tick
  <2>2. WakeInFlight'
    BY <1>2, <2>1 DEF FlutterEngineInitialize, StarterStep, WakeInFlight
  <2>3. QED
    BY <2>2 DEF QueueWillDrain, LocaleWillBeSent, HeapWillDrain
<1>3. CASE engine = "alive" /\ ~DrainTasks
  <2>1. served
    BY <1>3, RunnerFrame DEF runnerVars, CreateWindow, GetMessage, clear_posted, LoadEngine,
       FlutterEngineRunTask, TasksDone, SendLocale, DrainQueue
  <2>2. /\ \A q \in Queues : QueueWillDrain(q)
        /\ LocaleWillBeSent /\ HeapWillDrain
    BY <1>3, <2>1 DEF WorkInv
  <2>3. CASE WakeInFlight' \/ runner' = "clear"
    BY <2>3 DEF QueueWillDrain, LocaleWillBeSent, HeapWillDrain, UpTo, BeforeDrain
  <2>4. CASE ~WakeInFlight' /\ runner' # "clear"
    <3>1. ~WakeInFlight
      BY <1>3, <2>1, <2>4, WakePersists
    <3>2. /\ ~ \E c \in Callers : \/ post_task_callback(c)
                                  \/ \E q \in Queues : QueueItem(c, q)
          /\ ~RunInitializedSucceeds /\ ~TimerExpires
      BY <2>4 DEF post_task_callback, QueueItem, RunInitializedSucceeds, TimerExpires,
         StarterStep, WakeInFlight, Callers, TypeOK, WakerType
    \* The runner goes back to sleep only after the last queue, or from the
    \* engine check when there is no engine.
    <3>3. runner = "check" => runner' \in {"check", "drain"}
      BY <1>3, <3>1, RunnerFrame DEF runnerVars, CreateWindow, GetMessage, clear_posted,
         LoadEngine, FlutterEngineRunTask, TasksDone, SendLocale, DrainQueue, RunnerStep,
         EngineInv, WakeInFlight, Queues
    <3>4. ASSUME NEW q \in Queues PROVE QueueWillDrain(q)'
      <4>1. CASE UNCHANGED runner /\ UNCHANGED pending
        BY <2>2, <3>1, <4>1 DEF QueueWillDrain
      <4>2. CASE DrainQueue(q)
        BY <4>2 DEF DrainQueue, QueueWillDrain, TypeOK, QueueType
      <4>3. ASSUME NEW r \in Queues, r # q, DrainQueue(r)
            PROVE  QueueWillDrain(q)'
        BY <2>2, <3>1, <4>3 DEF DrainQueue, QueueWillDrain, TypeOK, QueueType, UpTo,
           BeforeDrain, After, RunnerStep, Queues
      <4>4. CASE UNCHANGED pending /\ ~UNCHANGED runner /\ ~\E r \in Queues : DrainQueue(r)
        BY <1>3, <2>2, <3>1, <3>3, <4>4, RunnerFrame DEF QueueWillDrain, runnerVars,
           CreateWindow, GetMessage, clear_posted, LoadEngine, FlutterEngineRunTask,
           TasksDone, SendLocale, RunnerStep, UpTo, BeforeDrain
      <4>5. pending' = pending \/ \E r \in Queues : DrainQueue(r)
        BY <1>3, <3>2, QueueFrame DEF queueVars, SendLocale
      <4>6. QED
        BY <4>1, <4>2, <4>3, <4>4, <4>5
    <3>5. LocaleWillBeSent'
      <4>1. CASE SendLocale
        BY <4>1 DEF SendLocale, LocaleWillBeSent
      <4>2. CASE ~SendLocale
        <5>1. locale' = locale
          BY <1>3, <3>2, <4>2, QueueFrame DEF queueVars, DrainQueue
        <5>2. QED
          BY <1>3, <2>2, <3>1, <3>3, <4>2, <5>1, RunnerFrame DEF LocaleWillBeSent, runnerVars,
             CreateWindow, GetMessage, clear_posted, LoadEngine, FlutterEngineRunTask,
             TasksDone, DrainQueue, RunnerStep, BeforeDrain, Queues
      <4>3. QED
        BY <4>1, <4>2
    <3>6. HeapWillDrain'
      <4>1. heap' = heap
        BY <1>3, <3>2, QueueFrame DEF queueVars, SendLocale, DrainQueue
      <4>2. TimerArmed => TimerArmed'
        BY <1>3, <3>2, TimerFrame, RunnerAssumption DEF timerVars, TimerArmed, TimerTop,
           TimerNotified, TimerSpurious, TypeOK, TimerType
      <4>3. runner \in BeforeDrain => runner' \in BeforeDrain
        BY <1>3, <3>3, RunnerFrame DEF BeforeDrain, runnerVars, CreateWindow, GetMessage,
           clear_posted, LoadEngine, FlutterEngineRunTask, TasksDone, SendLocale,
           DrainQueue, RunnerStep, Queues
      <4>4. QED
        BY <2>2, <3>1, <4>1, <4>2, <4>3 DEF HeapWillDrain
    <3>7. QED
      BY <3>4, <3>5, <3>6
  <2>5. QED
    BY <2>3, <2>4
<1>4. QED
  BY <1>1, <1>2, <1>3

\* Whatever the threads' interleaving, once the runner has served the engine
\* it never sleeps on queued work, as long as no handler pumps messages.
THEOREM NoLostWakeup ==
  ASSUME NestedPump = FALSE
  PROVE  Spec => []WakeupNotLost
<1> DEFINE Inv == FloodInv /\ GuardInv /\ EngineInv /\ WorkInv
<1>1. Init => Inv
  BY DEF Init, FloodInv, FloodGuard, WmNullOutstanding, GuardInv, EngineInv, WorkInv, Callers
<1>2. TypeOK /\ Inv /\ [Next]_vars => Inv'
  BY FloodStep, GuardStep, EngineStep, WorkStep
<1>3. TypeOK /\ Inv => WakeupNotLost
  <2> SUFFICES ASSUME TypeOK, Inv, served, engine = "alive", runner = "idle", ~WakeInFlight
               PROVE  /\ \A q \in Queues : pending[q] = 0
                      /\ ~locale
                      /\ heap # {} => TimerArmed
    BY DEF WakeupNotLost
  <2>1. /\ \A q \in Queues : QueueWillDrain(q)
        /\ LocaleWillBeSent /\ HeapWillDrain
    BY DEF WorkInv
  <2>2. \A q \in Queues : ~(pending[q] > 0)
    BY <2>1 DEF QueueWillDrain, UpTo, BeforeDrain
  <2>3. ~locale /\ (heap # {} => TimerArmed)
    BY <2>1 DEF LocaleWillBeSent, HeapWillDrain, BeforeDrain
  <2>4. QED
    BY <2>2, <2>3 DEF TypeOK, QueueType
<1>4. QED
  BY <1>1, <1>2, <1>3, TypeCorrect, PTL DEF Spec

-----------------------------------------------------------------------------
(* Each task is in one place and never runs early.                         *)

TaskInv == BatonInv /\ TaskInOnePlace /\ NeverEarly

LEMMA TaskStep ==
  ASSUME TypeOK, TaskInv, [Next]_vars
  PROVE  TaskInv'
<1> USE DEF TypeOK, QueueType, RunnerType, EngineType, Tasks, TaskInv, BatonInv,
        TaskInOnePlace, NeverEarly
<1>1. now' >= now /\ now' \in Nat
  <2>1. Next => now' = now \/ now' = now + 1
    BY EngineFrame DEF engineVars, FlutterEngineInitialize, PublishEngine,
       RunInitializedFails, ClearEnginePtr, RunInitializedSucceeds, StoreEngine,
       InitOverlayReturns, FlutterEngineShutdown, ShutdownRequested, Tick
  <2>2. QED
    BY <2>1 DEF vars
<1>2. ASSUME UNCHANGED <<heap, batch, ran, nextId>> PROVE TaskInv'
  BY <1>1, <1>2
<1>3. CASE UNCHANGED vars
  BY <1>2, <1>3 DEF vars, queueVars, runnerVars
<1>4. ASSUME NEW c \in Callers, post_task_callback(c) PROVE TaskInv'
  <2>1. PICK at \in 0 .. MaxTime : heap' = heap \cup {[id |-> nextId, at |-> at]}
    BY <1>4 DEF post_task_callback
  <2>2. UNCHANGED <<batch, ran, now>> /\ nextId' = nextId + 1
    BY <1>4 DEF post_task_callback, runnerVars
  <2>3. BatonInv' /\ NeverEarly'
    BY <2>1, <2>2
  <2>4. (\A t, u \in heap \cup batch : t.id = u.id => t = u)'
    BY <2>1, <2>2
  <2>5. (heap \cap batch = {})' /\ (\A t \in heap \cup batch : t.id \notin ran)'
    BY <2>1, <2>2
  <2>6. QED
    BY <2>3, <2>4, <2>5
<1>5. CASE DrainTasks
  <2>1. UNCHANGED <<ran, now, nextId>> /\ heap' = heap \ Due /\ batch' = Due
    BY <1>5 DEF DrainTasks
  <2>2. QED
    BY <2>1 DEF Due
<1>6. CASE FlutterEngineRunTask
  <2>1. PICK t \in batch : batch' = batch \ {t} /\ ran' = ran \cup {t.id}
    BY <1>6 DEF FlutterEngineRunTask
  <2>2. UNCHANGED <<heap, nextId, now>>
    BY <1>6 DEF FlutterEngineRunTask, queueVars
  <2>3. QED
    BY <2>1, <2>2
<1>7. CASE /\ ~DrainTasks /\ ~FlutterEngineRunTask /\ Next
           /\ ~\E c \in Callers : post_task_callback(c)
  <2>1. UNCHANGED <<heap, nextId>>
    BY <1>7, QueueFrame DEF queueVars, QueueItem, SendLocale, DrainQueue,
       RunInitializedSucceeds
  <2>2. UNCHANGED <<batch, ran>>
    BY <1>7, RunnerFrame DEF runnerVars, CreateWindow, GetMessage, clear_posted,
       LoadEngine, TasksDone, SendLocale, DrainQueue
  <2>3. QED
    BY <1>2, <2>1, <2>2
<1>8. QED
  BY <1>3, <1>4, <1>5, <1>6, <1>7

\* A task the engine posts is held in one place until it has been run, so it
\* is run at most once; and it is never taken before its target time.
THEOREM TasksRunOnceAndNotEarly == Spec => [](TaskInOnePlace /\ NeverEarly)
<1>1. Init => TaskInv
  BY DEF Init, TaskInv, BatonInv, TaskInOnePlace, NeverEarly
<1>2. TypeOK /\ TaskInv /\ [Next]_vars => TaskInv'
  BY TaskStep
<1>3. TaskInv => TaskInOnePlace /\ NeverEarly
  BY DEF TaskInv
<1>4. QED
  BY <1>1, <1>2, <1>3, TypeCorrect, PTL DEF Spec

-----------------------------------------------------------------------------
(* The two places a task passes through are the queue the engine sees.     *)

\* Between two passes the batch is empty; in a pass, what is left in the heap or comes to
\* it is for a later time than the batch, or was posted after it.
BatchInv ==
  /\ runner # "run" => batch = {}
  /\ \A t \in heap, u \in batch : t.id < u.id => u.at <= t.at

LEMMA BatchStep ==
  ASSUME TypeOK, TaskInv, BatchInv, [Next]_vars
  PROVE  BatchInv'
<1> USE DEF TypeOK, QueueType, RunnerType, EngineType, Tasks, BatchInv
<1>1. CASE UNCHANGED vars
  BY <1>1 DEF vars, queueVars, runnerVars
<1>2. ASSUME NEW c \in Callers, post_task_callback(c) PROVE BatchInv'
  <2>1. PICK at \in 0 .. MaxTime : heap' = heap \cup {[id |-> nextId, at |-> at]}
    BY <1>2 DEF post_task_callback
  <2>2. UNCHANGED <<batch, runner>>
    BY <1>2 DEF post_task_callback, runnerVars
  <2>3. \A u \in batch : u.id < nextId /\ u.id \in Nat
    BY DEF TaskInv, BatonInv
  <2> QED BY <2>1, <2>2, <2>3
<1>3. CASE DrainTasks
  <2>1. heap' = heap \ Due /\ batch' = Due /\ runner' = "run"
    BY <1>3 DEF DrainTasks, RunnerStep
  <2>2. \A t \in heap \ Due, u \in Due : u.at <= t.at
    BY DEF Due
  <2> QED BY <2>1, <2>2
<1>4. CASE FlutterEngineRunTask
  <2>1. batch' \subseteq batch /\ heap' = heap /\ runner' = runner
    BY <1>4 DEF FlutterEngineRunTask, queueVars
  <2> QED BY <2>1
<1>5. CASE TasksDone
  <2>1. batch' = {}
    BY <1>5 DEF TasksDone
  <2> QED BY <2>1
<1>6. CASE /\ ~DrainTasks /\ ~FlutterEngineRunTask /\ ~TasksDone /\ Next
           /\ ~\E c \in Callers : post_task_callback(c)
  <2>1. UNCHANGED heap
    BY <1>6, QueueFrame DEF queueVars, QueueItem, SendLocale, DrainQueue,
       RunInitializedSucceeds
  <2>2. UNCHANGED batch /\ (runner # "run" => runner' # "run")
    BY <1>6, RunnerFrame DEF runnerVars, CreateWindow, GetMessage, clear_posted,
       LoadEngine, SendLocale, DrainQueue, RunnerStep, After
  <2>3. runner = "run" => runner' = "run"
    BY <1>6, RunnerFrame DEF runnerVars, CreateWindow, GetMessage, clear_posted,
       LoadEngine, SendLocale, DrainQueue, RunnerStep, Queues
  <2> QED BY <2>1, <2>2, <2>3
<1> QED BY <1>1, <1>2, <1>3, <1>4, <1>5, <1>6

\* Every step is one of the queue's, or none.
LEMMA QueueRefined ==
  ASSUME TypeOK, TaskInv, BatchInv, [Next]_vars
  PROVE  [Queue!Next]_(Queue!vars)
<1> DEFINE waiting == heap \cup batch
<1> USE DEF TypeOK, QueueType, RunnerType, EngineType, Tasks, Queue!vars
<1>1. CASE UNCHANGED vars
  BY <1>1 DEF vars, queueVars, runnerVars
<1>2. ASSUME NEW c \in Callers, post_task_callback(c) PROVE Queue!Post
  <2>1. PICK at \in 0 .. MaxTime : heap' = heap \cup {[id |-> nextId, at |-> at]}
    BY <1>2 DEF post_task_callback
  <2> DEFINE new == [id |-> nextId, at |-> at]
  <2>2. UNCHANGED <<batch, ran, now>>
    BY <1>2 DEF post_task_callback, runnerVars
  <2>3. Queue!Newer(new.id)
    BY DEF Queue!Newer, TaskInv, BatonInv
  <2>4. new \notin waiting
    BY DEF TaskInv, BatonInv
  <2>5. waiting' = waiting \cup {new}
    BY <2>1, <2>2
  <2> QED BY <2>2, <2>3, <2>4, <2>5 DEF Queue!Post
<1>3. CASE DrainTasks
  <2>1. UNCHANGED <<ran, now>> /\ heap' = heap \ Due /\ batch' = Due /\ batch = {}
    BY <1>3 DEF DrainTasks, RunnerStep, BatchInv
  <2>2. Due \subseteq heap
    BY DEF Due
  <2> QED BY <2>1, <2>2
<1>4. CASE FlutterEngineRunTask
  <2>1. PICK t \in batch :
          /\ \A u \in batch \ {t} : Before(t, u)
          /\ batch' = batch \ {t}
          /\ ran' = ran \cup {t.id}
    BY <1>4 DEF FlutterEngineRunTask
  <2>2. UNCHANGED <<heap, now>>
    BY <1>4 DEF FlutterEngineRunTask, queueVars
  <2>3. t.at <= now /\ t \notin heap
    BY DEF TaskInv, NeverEarly, TaskInOnePlace
  <2>4. \A u \in waiting : u.id < t.id => t.at <= u.at
    <3>1. \A u \in heap : u.id < t.id => t.at <= u.at
      BY DEF BatchInv
    <3>2. \A u \in batch : u.id < t.id => t.at <= u.at
      BY <2>1 DEF Before
    <3> QED BY <3>1, <3>2
  <2>5. waiting' = waiting \ {t}
    BY <2>1, <2>2, <2>3
  <2>6. Queue!Run
    BY <2>1, <2>2, <2>3, <2>4, <2>5 DEF Queue!Run
  <2> QED BY <2>6 DEF Queue!Next
<1>5. CASE Tick
  <2>1. UNCHANGED <<heap, batch, ran>> /\ now' = now + 1
    BY <1>5 DEF Tick, queueVars, runnerVars
  <2>2. Queue!Pass
    BY <2>1 DEF Queue!Pass
  <2> QED BY <2>2 DEF Queue!Next
<1>6. CASE /\ ~DrainTasks /\ ~FlutterEngineRunTask /\ ~Tick /\ Next
           /\ ~\E c \in Callers : post_task_callback(c)
  <2>1. UNCHANGED heap
    BY <1>6, QueueFrame DEF queueVars, QueueItem, SendLocale, DrainQueue,
       RunInitializedSucceeds
  <2>2. UNCHANGED <<batch, ran>>
    BY <1>6, RunnerFrame DEF runnerVars, CreateWindow, GetMessage, clear_posted,
       LoadEngine, TasksDone, SendLocale, DrainQueue
  <2>3. UNCHANGED now
    BY <1>6, EngineFrame DEF engineVars, FlutterEngineInitialize, PublishEngine,
       RunInitializedFails, ClearEnginePtr, RunInitializedSucceeds, StoreEngine,
       InitOverlayReturns, FlutterEngineShutdown, ShutdownRequested
  <2> QED BY <2>1, <2>2, <2>3
<1>7. ASSUME NEW c \in Callers, post_task_callback(c) PROVE Queue!Next
  BY <1>2, <1>7 DEF Queue!Next
<1> QED BY <1>1, <1>3, <1>4, <1>5, <1>6, <1>7

\* To the engine the runner is a queue of tasks: each runs once, in time, and overtakes
\* none that was posted before it for an earlier time.
THEOREM QueueImplemented == Spec => ImplementsQueue
<1>1. Init => TaskInv /\ BatchInv /\ Queue!Init
  BY DEF Init, TaskInv, BatonInv, TaskInOnePlace, NeverEarly, BatchInv, Queue!Init
<1>2. TypeOK /\ TaskInv /\ BatchInv /\ [Next]_vars
        => TaskInv' /\ BatchInv' /\ [Queue!Next]_(Queue!vars)
  BY TaskStep, BatchStep, QueueRefined
<1> QED BY <1>1, <1>2, TypeCorrect, PTL DEF Spec, Queue!Spec, ImplementsQueue

=============================================================================
