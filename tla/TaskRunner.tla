----------------------------- MODULE TaskRunner -----------------------------
(***************************************************************************)
(* The platform task runner of one overlay: a thread that sleeps in        *)
(* GetMessage on a hidden window, the waker that posts WM_NULL to it, the  *)
(* timer thread that wakes it when the earliest delayed task is due, the   *)
(* work queues every other thread fills, and the start-up and shut-down of *)
(* the engine around them.                                                 *)
(*                                                                         *)
(* Waker::wake_up is three separate memory operations (load the handle,    *)
(* compare-and-swap the flood guard, PostMessage), so it is three actions  *)
(* of the calling thread.  Everything done under one mutex is one action.  *)
(***************************************************************************)
EXTENDS Naturals, FiniteSets

CONSTANTS
  Posters,      \* engine and window threads that queue work for the runner
  MaxTasks,     \* bound: tasks posted by the engine in one behaviour
  MaxItems,     \* bound: pushes onto the pending queues, all together
  MaxTime,      \* bound: latest target time of a task
  MaxSpurious,  \* bound: spurious condition-variable wake-ups of the timer
  NestedPump,   \* may a handler run by a task pump messages (a modal loop)?
  None          \* no deadline

Callers == Posters \cup {"starter", "timer", "runner"}

ASSUME RunnerAssumption ==
  /\ Posters \cap {"starter", "timer", "runner"} = {}
  /\ MaxTasks \in Nat /\ MaxItems \in Nat /\ MaxTime \in Nat /\ MaxSpurious \in Nat
  /\ NestedPump \in BOOLEAN
  /\ None \notin Nat

Queues == {"focus", "keys", "messages"}   \* drained in this order
Tasks == [id : 1 .. MaxTasks, at : 0 .. MaxTime]

VARIABLES
  \* Waker
  hwnd,      \* the runner's window handle has been stored
  posted,    \* the flood guard
  wmNull,    \* WM_NULL messages in the runner's message queue
  pc,        \* progress of each caller through push and wake_up
  \* work
  heap,      \* TaskQueueState::queue
  nextId,    \* the engine's next task baton
  pending,   \* lengths of the focus, key and platform-message queues
  pushes,    \* bound: pushes made on those queues
  locale,    \* pending_locale_update
  \* runner thread
  runner,    \* where the runner thread is
  batch,     \* the due tasks `process` took and has not run yet
  ran,       \* ids of the tasks run
  served,    \* process() has reached its drain with an engine at least once
  \* timer thread
  deadline,  \* TimerState::deadline (a delay) or None
  timer,     \* where the timer thread is
  until,     \* the instant its timed wait ends
  period,    \* the delay of that wait
  rearmed,   \* TimerState::generation moved on since the wait began
  spurious,  \* bound: spurious wake-ups so far
  \* engine
  now,       \* FlutterEngineGetCurrentTime
  ptr,       \* engine_atomic_ptr is not null
  engine,    \* "none", "alive" or "gone" (deinitialised or shut down)
  starter    \* the thread in init_overlay, later in shutdown

wakerVars   == <<hwnd, posted, wmNull>>
queueVars   == <<heap, nextId, pending, pushes, locale>>
runnerVars  == <<runner, batch, ran, served>>
timerVars   == <<deadline, timer, until, period, rearmed, spurious>>
engineVars  == <<ptr, engine, starter>>
vars == <<wakerVars, pc, queueVars, runnerVars, timerVars, engineVars, now>>

RunnerPhases == {"starting", "idle", "clear", "check", "drain", "run",
                 "locale", "focus", "keys", "messages", "exited"}
StarterPhases == {"created", "initialized", "initializing", "deinit", "failed", "storing",
                  "waking", "running", "joining", "down"}

WakerType ==
  /\ hwnd \in BOOLEAN /\ posted \in BOOLEAN /\ wmNull \in Nat
  /\ pc \in [Callers -> {"idle", "pushed", "cas", "post"}]

QueueType ==
  /\ heap \subseteq Tasks
  /\ nextId \in 1 .. MaxTasks + 1
  /\ pending \in [Queues -> Nat] /\ pushes \in Nat
  /\ locale \in BOOLEAN

RunnerType ==
  /\ runner \in RunnerPhases
  /\ batch \subseteq Tasks
  /\ ran \subseteq 1 .. MaxTasks
  /\ served \in BOOLEAN

TimerType ==
  /\ deadline \in Nat \cup {None}
  /\ timer \in {"top", "waiting", "parked"}
  /\ until \in Nat /\ period \in Nat /\ rearmed \in BOOLEAN /\ spurious \in Nat

EngineType ==
  /\ ptr \in BOOLEAN /\ engine \in {"none", "alive", "gone"}
  /\ starter \in StarterPhases
  /\ now \in Nat

\* The values of every variable.
TypeOK == WakerType /\ QueueType /\ RunnerType /\ TimerType /\ EngineType

Init ==
  /\ hwnd = FALSE /\ posted = FALSE /\ wmNull = 0
  /\ pc = [c \in Callers |-> "idle"]
  /\ heap = {} /\ nextId = 1 /\ locale = FALSE
  /\ pending = [q \in Queues |-> 0] /\ pushes = 0
  /\ runner = "starting" /\ batch = {} /\ ran = {} /\ served = FALSE
  /\ deadline = None /\ timer = "top" /\ until = 0 /\ period = 0
  /\ rearmed = FALSE /\ spurious = 0
  /\ now = 0
  /\ ptr = FALSE /\ engine = "none" /\ starter = "created"

-----------------------------------------------------------------------------
(* Pushing work.  A caller pushes under the queue's lock and calls wake_up *)
(* after the unlock; the key handler may push on two queues before it does.*)

\* Threads outside the runner call in at any time while the engine is alive;
\* the runner itself does so only from inside a task it is running.
MayPush(c) ==
  /\ engine = "alive"
  /\ c \in Posters \/ (c = "runner" /\ runner = "run")

post_task_callback(c) ==
  /\ MayPush(c)
  /\ pc[c] = "idle"
  /\ nextId <= MaxTasks
  /\ \E at \in 0 .. MaxTime : heap' = heap \cup {[id |-> nextId, at |-> at]}
  /\ nextId' = nextId + 1
  /\ pc' = [pc EXCEPT ![c] = "pushed"]
  /\ UNCHANGED <<wakerVars, pending, pushes, locale, runnerVars, timerVars, engineVars, now>>

QueueItem(c, q) ==
  /\ MayPush(c)
  /\ pc[c] \in {"idle", "pushed"}
  /\ pushes < MaxItems
  /\ pushes' = pushes + 1
  /\ pending' = [pending EXCEPT ![q] = @ + 1]
  /\ pc' = [pc EXCEPT ![c] = "pushed"]
  /\ UNCHANGED <<wakerVars, heap, nextId, locale, runnerVars, timerVars, engineVars, now>>

-----------------------------------------------------------------------------
(* Waker::wake_up, one action per memory operation.                        *)

wake_up_load(c) ==
  /\ pc[c] = "pushed"
  /\ pc' = [pc EXCEPT ![c] = IF hwnd THEN "cas" ELSE "idle"]
  /\ UNCHANGED <<wakerVars, queueVars, runnerVars, timerVars, engineVars, now>>

\* Mutation: a plain store instead of the compare-and-swap.
wake_up_cas_Store(c) ==
  /\ pc[c] = "cas"
  /\ pc' = [pc EXCEPT ![c] = "post"]
  /\ posted' = TRUE
  /\ UNCHANGED <<hwnd, wmNull, queueVars, runnerVars, timerVars, engineVars, now>>

wake_up_cas(c) ==
  /\ pc[c] = "cas"
  /\ pc' = [pc EXCEPT ![c] = IF posted THEN "idle" ELSE "post"]
  /\ posted' = TRUE
  /\ UNCHANGED <<hwnd, wmNull, queueVars, runnerVars, timerVars, engineVars, now>>

wake_up_post(c) ==
  /\ pc[c] = "post"
  /\ wmNull' = wmNull + 1
  /\ pc' = [pc EXCEPT ![c] = "idle"]
  /\ UNCHANGED <<hwnd, posted, queueVars, runnerVars, timerVars, engineVars, now>>

WakeUp(c) == wake_up_load(c) \/ wake_up_cas(c) \/ wake_up_post(c)

-----------------------------------------------------------------------------
(* The runner thread: run_message_loop and the process closure.            *)

RunnerStep(from, to) == runner = from /\ runner' = to

\* The window is created and its handle published, or CreateWindowExW fails
\* and the thread returns.
CreateWindow ==
  \/ /\ RunnerStep("starting", "idle")
     /\ hwnd' = TRUE
     /\ UNCHANGED <<posted, wmNull, pc, queueVars, batch, ran, served, timerVars, engineVars, now>>
  \/ /\ RunnerStep("starting", "exited")
     /\ UNCHANGED <<wakerVars, pc, queueVars, batch, ran, served, timerVars, engineVars, now>>

GetMessage ==
  /\ RunnerStep("idle", "clear")
  /\ wmNull > 0
  /\ wmNull' = wmNull - 1
  /\ UNCHANGED <<hwnd, posted, pc, queueVars, batch, ran, served, timerVars, engineVars, now>>

\* Mutation: process() leaves the flood guard set.
clear_posted_Missing ==
  /\ RunnerStep("clear", "check")
  /\ UNCHANGED <<wakerVars, pc, queueVars, batch, ran, served, timerVars, engineVars, now>>

clear_posted ==
  /\ RunnerStep("clear", "check")
  /\ posted' = FALSE
  /\ UNCHANGED <<hwnd, wmNull, pc, queueVars, batch, ran, served, timerVars, engineVars, now>>

LoadEngine ==
  /\ RunnerStep("check", IF ptr THEN "drain" ELSE "idle")
  /\ UNCHANGED <<wakerVars, pc, queueVars, batch, ran, served, timerVars, engineVars, now>>

\* Timer::schedule_in(delay)
schedule_in(delay) ==
  IF deadline # None /\ deadline <= delay
    THEN UNCHANGED <<deadline, rearmed>>
    ELSE deadline' = delay /\ rearmed' = TRUE

Due == {t \in heap : t.at <= now}

\* Mutation: the target times compared as they are, which a max-heap turns around.
Before_Unreversed(t, u) == t.at > u.at \/ (t.at = u.at /\ t.id > u.id)

\* The heap pops the earliest target time and, among equals, the larger id.
Before(t, u) == t.at < u.at \/ (t.at = u.at /\ t.id > u.id)

\* Take every due task and arm the timer for the earliest of the others.
DrainTasks ==
  /\ RunnerStep("drain", "run")
  /\ batch' = Due
  /\ heap' = heap \ Due
  /\ IF heap = Due
       THEN UNCHANGED <<deadline, rearmed>>
       ELSE \E t \in heap \ Due :
              /\ \A u \in heap \ Due : t.at <= u.at
              /\ schedule_in(t.at - now)
  /\ served' = TRUE
  /\ UNCHANGED <<wakerVars, pc, nextId, pending, pushes, locale, ran,
                 timer, until, period, spurious, engineVars, now>>

FlutterEngineRunTask ==
  /\ runner = "run" /\ pc["runner"] = "idle"
  /\ \E t \in batch :
       /\ \A u \in batch \ {t} : Before(t, u)
       /\ batch' = batch \ {t}
       /\ ran' = ran \cup {t.id}
  /\ UNCHANGED <<wakerVars, pc, queueVars, runner, served, timerVars, engineVars, now>>

\* A modal loop inside a task dispatches WM_NULL; PROCESS_FN is borrowed, so
\* runner_wnd_proc returns without clearing the flood guard.
NestedWmNull ==
  /\ NestedPump
  /\ runner = "run"
  /\ wmNull > 0
  /\ wmNull' = wmNull - 1
  /\ UNCHANGED <<hwnd, posted, pc, queueVars, runnerVars, timerVars, engineVars, now>>

TasksDone ==
  /\ RunnerStep("run", "locale")
  /\ batch = {} /\ pc["runner"] = "idle"
  /\ UNCHANGED <<wakerVars, pc, queueVars, batch, ran, served, timerVars, engineVars, now>>

SendLocale ==
  /\ RunnerStep("locale", "focus")
  /\ locale' = FALSE
  /\ UNCHANGED <<wakerVars, pc, heap, nextId, pending, pushes, batch, ran, served,
                 timerVars, engineVars, now>>

After(q) == IF q = "focus" THEN "keys" ELSE IF q = "keys" THEN "messages" ELSE "idle"

\* The lock is held while the whole queue is sent to the engine.
DrainQueue(q) ==
  /\ RunnerStep(q, After(q))
  /\ pending' = [pending EXCEPT ![q] = 0]
  /\ UNCHANGED <<wakerVars, pc, heap, nextId, pushes, locale, batch, ran, served,
                 timerVars, engineVars, now>>

RunnerThread ==
  \/ CreateWindow \/ GetMessage \/ clear_posted \/ LoadEngine
  \/ DrainTasks \/ FlutterEngineRunTask \/ TasksDone \/ SendLocale
  \/ \E q \in Queues : DrainQueue(q)

-----------------------------------------------------------------------------
(* Timer::run.                                                             *)

TimerIdle == pc["timer"] = "idle"

\* Top of the loop, under the timer's lock: start a timed wait or park.
TimerTop ==
  /\ TimerIdle /\ timer = "top"
  /\ IF deadline = None
       THEN /\ timer' = "parked"
            /\ UNCHANGED <<deadline, until, period, rearmed>>
       ELSE /\ timer' = "waiting"
            /\ until' = now + deadline
            /\ period' = deadline
            /\ deadline' = None
            /\ rearmed' = FALSE
  /\ UNCHANGED <<wakerVars, pc, queueVars, runnerVars, spurious, engineVars, now>>

\* schedule_in notified the condition variable.
TimerNotified ==
  /\ TimerIdle
  /\ \/ timer = "parked" /\ deadline # None
     \/ timer = "waiting" /\ rearmed
  /\ timer' = "top"
  /\ deadline' = IF timer = "waiting" /\ deadline = None THEN period ELSE deadline
  /\ UNCHANGED <<wakerVars, pc, queueVars, runnerVars, until, period, rearmed, spurious, engineVars, now>>

TimerExpires ==
  /\ TimerIdle /\ timer = "waiting"
  /\ now >= until /\ ~rearmed
  /\ timer' = "top"
  /\ pc' = [pc EXCEPT !["timer"] = "pushed"]
  /\ UNCHANGED <<wakerVars, queueVars, runnerVars, deadline, until, period, rearmed, spurious, engineVars, now>>

\* Mutation: the deadline taken at the start of the wait is not put back.
TimerSpurious_Forgets ==
  /\ TimerIdle /\ spurious < MaxSpurious
  /\ timer \in {"waiting", "parked"}
  /\ spurious' = spurious + 1
  /\ timer' = "top"
  /\ UNCHANGED <<wakerVars, pc, queueVars, runnerVars, deadline, until, period, rearmed, engineVars, now>>

\* A wake-up without notify: the wait starts again with the whole delay.
TimerSpurious ==
  /\ TimerIdle /\ spurious < MaxSpurious
  /\ timer \in {"waiting", "parked"}
  /\ spurious' = spurious + 1
  /\ timer' = "top"
  /\ deadline' = IF timer = "waiting" /\ deadline = None THEN period ELSE deadline
  /\ UNCHANGED <<wakerVars, pc, queueVars, runnerVars, until, period, rearmed, engineVars, now>>

TimerThread == TimerTop \/ TimerNotified \/ TimerExpires

-----------------------------------------------------------------------------
(* The thread that starts the engine and later shuts the overlay down.     *)

StarterStep(from, to) == starter = from /\ starter' = to

\* FlutterEngineInitialize succeeds, or fails and init_overlay returns None.
FlutterEngineInitialize ==
  /\ \/ StarterStep("created", "initialized") /\ engine' = "alive"
     \/ StarterStep("created", "failed") /\ UNCHANGED engine
  /\ UNCHANGED <<wakerVars, pc, queueVars, runnerVars, timerVars, ptr, now>>

\* run_engine publishes the handle before it runs the engine.
PublishEngine ==
  /\ StarterStep("initialized", "initializing")
  /\ ptr' = TRUE
  /\ UNCHANGED <<wakerVars, pc, queueVars, runnerVars, timerVars, engine, now>>

\* FlutterEngineRunInitialized fails: the engine is deinitialised first, the
\* published pointer cleared afterwards.
RunInitializedFails ==
  /\ StarterStep("initializing", "deinit")
  /\ engine' = "gone"
  /\ UNCHANGED <<wakerVars, pc, queueVars, runnerVars, timerVars, ptr, now>>

ClearEnginePtr ==
  /\ StarterStep("deinit", "failed")
  /\ ptr' = FALSE
  /\ UNCHANGED <<wakerVars, pc, queueVars, runnerVars, timerVars, engine, now>>

\* init_overlay: request the locale, publish the pointer again, wake the runner.
RunInitializedSucceeds ==
  /\ StarterStep("initializing", "storing")
  /\ locale' = TRUE
  /\ UNCHANGED <<wakerVars, pc, heap, nextId, pending, pushes, runnerVars, timerVars, ptr, engine, now>>

StoreEngine ==
  /\ StarterStep("storing", "waking")
  /\ ptr' = TRUE
  /\ pc' = [pc EXCEPT !["starter"] = "pushed"]
  /\ UNCHANGED <<wakerVars, queueVars, runnerVars, timerVars, engine, now>>

InitOverlayReturns ==
  /\ StarterStep("waking", "running")
  /\ pc["starter"] = "idle"
  /\ UNCHANGED <<wakerVars, pc, queueVars, runnerVars, timerVars, ptr, engine, now>>

\* FlutterOverlay::shutdown joins the runner thread before it shuts the
\* engine down.
ShutdownRequested ==
  /\ StarterStep("running", "joining")
  /\ UNCHANGED <<wakerVars, pc, queueVars, runnerVars, timerVars, ptr, engine, now>>

FlutterEngineShutdown ==
  /\ StarterStep("joining", "down")
  /\ runner = "exited"
  /\ engine' = "gone"
  /\ UNCHANGED <<wakerVars, pc, queueVars, runnerVars, timerVars, ptr, now>>

StarterThread ==
  \/ FlutterEngineInitialize \/ PublishEngine \/ RunInitializedFails \/ ClearEnginePtr
  \/ RunInitializedSucceeds \/ StoreEngine \/ InitOverlayReturns
  \/ FlutterEngineShutdown

-----------------------------------------------------------------------------
\* Time passes as long as it can matter: to a target time or a timed wait.
Tick ==
  /\ now < MaxTime \/ (timer = "waiting" /\ now < until)
  /\ now' = now + 1
  /\ UNCHANGED <<wakerVars, pc, queueVars, runnerVars, timerVars, engineVars>>

Next ==
  \/ \E c \in Callers : post_task_callback(c)
  \/ \E c \in Callers, q \in Queues : QueueItem(c, q)
  \/ \E c \in Callers : WakeUp(c)
  \/ RunnerThread
  \/ NestedWmNull
  \/ TimerThread \/ TimerSpurious
  \/ StarterThread \/ ShutdownRequested
  \/ Tick

Spec == Init /\ [][Next]_vars

\* The operating system runs every thread that can run, and time passes.
\* Nothing forces an engine to post, a handler to pump, or a shutdown.
Fairness ==
  /\ \A c \in Callers : WF_vars(WakeUp(c))
  /\ WF_vars(RunnerThread) /\ WF_vars(TimerThread) /\ WF_vars(StarterThread)
  /\ WF_vars(Tick)

FairSpec == Spec /\ Fairness

-----------------------------------------------------------------------------
(* Properties.                                                             *)

\* A wake-up is on its way: a message is queued, a caller is inside wake_up,
\* or the starting thread has still to wake the runner.
WakeInFlight ==
  \/ wmNull > 0
  \/ \E c \in Callers : pc[c] # "idle"
  \/ starter \in {"initialized", "initializing", "storing"}

TimerArmed == deadline # None \/ timer = "waiting"

\* Once the runner has served the engine, it never sleeps on work: when it is
\* idle and work is queued, a wake-up is in flight or, for tasks that are not
\* yet due, the timer is armed (Waker, Timer and the process closure).
WakeupNotLost ==
  (served /\ engine = "alive" /\ runner = "idle" /\ ~WakeInFlight) =>
    /\ \A q \in Queues : pending[q] = 0
    /\ ~locale
    /\ heap # {} => TimerArmed

\* The flood guard of Waker keeps at most one WM_NULL outstanding: queued,
\* being posted, or taken by a process() that has not cleared the guard.
FloodGuard ==
  /\ wmNull <= 1
  /\ \A c, d \in Callers : pc[c] = "post" /\ pc[d] = "post" => c = d
  /\ wmNull = 1 => \A c \in Callers : pc[c] # "post"
  /\ runner = "clear" => wmNull = 0 /\ \A c \in Callers : pc[c] # "post"

\* A task is run at most once and by then has left the queue: no task is in
\* two of the heap, the batch and the set of tasks run.
TaskInOnePlace ==
  /\ \A t, u \in heap \cup batch : t.id = u.id => t = u
  /\ heap \cap batch = {}
  /\ \A t \in heap \cup batch : t.id \notin ran

\* process() never runs a task before its target time, whatever the timer did
\* (the target time of post_task_callback in flutter_embedder.h).
NeverEarly == \A t \in batch : t.at <= now

\* The engine sees a queue of tasks, whatever the waker, the timer and the two places
\* a task passes through: run once, in time, and none before one posted earlier for an
\* earlier time, though the runner takes tasks in batches and new ones come meanwhile.
Queue == INSTANCE TaskQueue WITH waiting <- heap \cup batch, clock <- now
ImplementsQueue == Queue!Spec

\* For a served runner, every task queued is eventually run and every focus
\* change, key event and platform message queued is eventually sent to the
\* engine, unless the engine goes away: neither the flood guard nor a re-armed
\* or spuriously woken timer loses one.
QueuedIsServed ==
  /\ \A i \in 1 .. MaxTasks :
       (served /\ \E t \in heap : t.id = i) ~> (i \in ran \/ engine = "gone")
  /\ \A q \in Queues : (served /\ pending[q] > 0) ~> (pending[q] = 0 \/ engine = "gone")

-----------------------------------------------------------------------------
(* The inductive invariants behind WakeupNotLost and FloodGuard.           *)

\* A WM_NULL is outstanding: queued, being posted, or taken but not cleared.
WmNullOutstanding ==
  wmNull > 0 \/ runner = "clear" \/ \E c \in Callers : pc[c] = "post"

FloodInv == FloodGuard /\ (WmNullOutstanding => posted)

\* The guard is never left set without a WM_NULL behind it; a nested pump
\* breaks exactly this.
GuardInv == posted => WmNullOutstanding

EngineInv ==
  /\ served => hwnd
  /\ runner \notin {"starting", "exited"} => hwnd
  /\ engine = "alive" => ptr \/ starter = "initialized"
  /\ starter = "deinit" => engine = "gone"
  /\ pc["starter"] # "idle" => starter = "waking"

\* The runner has not yet reached the step of process() that drains q.
BeforeDrain == {"clear", "check", "drain"}
UpTo(q) == BeforeDrain \cup {"run", "locale", "focus"}
             \cup (IF q = "focus" THEN {} ELSE {"keys"})
             \cup (IF q = "messages" THEN {"messages"} ELSE {})

QueueWillDrain(q) == pending[q] > 0 => WakeInFlight \/ runner \in UpTo(q)
LocaleWillBeSent == locale => WakeInFlight \/ runner \in BeforeDrain \cup {"run", "locale"}
HeapWillDrain == heap # {} => WakeInFlight \/ runner \in BeforeDrain \/ TimerArmed

WorkInv ==
  (served /\ engine = "alive") =>
    (\A q \in Queues : QueueWillDrain(q)) /\ LocaleWillBeSent /\ HeapWillDrain

\* Batons are issued in increasing order, so a new task has no namesake.
BatonInv ==
  /\ \A t \in heap \cup batch : t.id < nextId
  /\ \A i \in ran : i < nextId

IInv == FloodInv /\ GuardInv /\ EngineInv /\ WorkInv /\ BatonInv

-----------------------------------------------------------------------------
(* What a comment in the code says and the code does not do.               *)

\* shutdown() promises "Ok(()) on successful shutdown": once asked for, the
\* engine is shut down.
ShutdownCompletes == (starter = "joining") ~> (starter = "down")

=============================================================================
