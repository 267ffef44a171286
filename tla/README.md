# Verification of flutter_overlay_d3d11

TLA+ specifications of the concurrent and stateful parts of this repository: a
Rust library that runs a Flutter engine inside another Windows process and hands
its frames to a Direct3D 11 game, or shows them in windows of its own. TLC checks
each specification on small instances; the TLA+ proof system proves the central
invariants for every value of the constants. `PROJECT.json` lists the components,
the runs, the source lines each definition stands for, the hazards and the
theorems.

Paths below are relative to `src/src/software_renderer/` unless they start with
`src/`.

## 1. The system

### Threads

| thread | code | what it does |
|---|---|---|
| host (the game's render thread, its window procedure) | `overlays_manager_api`, `api.rs` | calls `init_instance`, `render_ui`, `forward_input`, `resize` |
| platform task runner | `ticker/spawn.rs`, `ticker/task_runner_window.rs`; engine callbacks in `multiview/compositor.rs`, `gl_renderer/`, `ticker/present.rs` | sleeps on a message window, drains the queues, runs the engine's tasks: `overlay/init.rs:294-303` gives it the platform and the render tasks, so the raster callbacks run here too |
| timer | `ticker/task_scheduler.rs` | wakes the runner when the next delayed task is due |
| window thread, one per satellite window | `multiview/window.rs` | owns a top-level window, samples the view's texture, forwards input |
| engine resource thread | external; `make_resource_current_callback` | uploads with a GL context of its own, may notice a lost device |

### Components

Each entry gives the state it keeps, its operations, how it meets the others, what
is hard about it, and what makes it correct.

* **Task runner** (`ticker/`). *State*: window handle, flood guard, task heap, three
  pending queues, locale flag, timer deadline, engine pointer. *Operations*:
  `post_task_callback`, the queue pushes of the input and channel code,
  `Waker::wake_up`, the `process` closure, `Timer::run` and `schedule_in`, engine
  start and shut-down. *Meets*: every thread queues work and wakes it. *Hard*: three
  separate memory operations per wake-up, a timed wait that can be re-armed,
  expire or wake spuriously at once, message pumps nested in a handler.
  *Correct when*: no wake-up is lost, no task runs twice or early, queued work is
  eventually done.
* **Satellite frame hand-off** (`multiview/compositor.rs`, `view_surface.rs`,
  `resize_decision.rs`, `pump_frame` in `window.rs`, `tick_view` in `api.rs`).
  *State*: the `ViewSurface` of a view (texture, sizes, GL objects, frame counters,
  damage) and what each reader has opened and drawn. *Operations*: create a
  backing store, present, pump, tick, resize, minimise. *Hard*: three parties share
  a texture under no lock but the one around its description; it is reallocated
  while the others use it. *Correct when*: the resources belong together, a reader
  that is content shows the latest frame, and all settle on the client size.
* **Secondary view life cycle** (`multiview/window.rs`, `multiview/api.rs`).
  *State*: the stage of each view, its slots (`hwnd`, `view_id`), `WINDOW_CONTROLS`,
  the keyboard registry, the view registry, the sync boxes, what the engine was asked.
  *Operations*: spawn, add, announce, close, remove, destroy, offscreen add and
  remove. *Hard*: engine answers that come late or never, calls that fail half-way,
  a platform thread that waits for a window with a lock held. *Correct when*: the
  engine's views keep their surface, input goes to live views, nothing is left
  behind, every close completes.
* **Overlay manager** (`overlays_manager_api/`). *State*: the overlays by
  identifier, their order, the focused one, visibility toggles and key binds,
  screen size, the recovery cool-down; all behind one mutex most callers only try.
  *Operations*: init, shut down, bring to front, focus, set visibility, route an
  input message, resize, render, recover. *Hard*: input is delivered to a
  different overlay than the one that saw its beginning; callbacks under the lock;
  calls dropped when the lock is busy. *Correct when*: order, focus and the table of
  overlays agree, an overlay sees legal pointer and key sequences, the
  topmost is drawn on top.
* **Overlay instance API** (`api.rs`, `overlay/overlay_impl.rs`). *State*: dimensions,
  textures, keyed mutexes, the frame counters of the implicit view, visibility.
  *Operations*: create, tick, resize, device recovery, shut-down. *Hard*: the keyed
  mutex is handed back and forth between two devices, and a tick may wait for it
  without limit. *Correct when*: acquire and release alternate, a resize or recovery
  never loses the last frame.
* **Pointer and keyboard input** (`overlay/input.rs`, `overlay/keyevents.rs`,
  `overlay/semantics_handler.rs`). *State*: buttons, the added flag, pressed keys,
  hover. *Hard*: messages that start with one overlay and end with another.
  *Correct when*: what the engine sees follows `flutter_embedder.h`.
* **Text input model** (`overlay/textinput.rs`, the characters of `overlay/keyevents.rs`).
  *State*: one model per overlay (client, text, selection in UTF-8 bytes) behind a mutex;
  Flutter keeps the value it shows, in UTF-16. *Operations*: type, Return, `setClient`,
  `setEditingState`, `clearClient`. *Hard*: several windows' threads edit, messages cross
  on their way, the focus moves. *Correct when*: the selection ends between characters, a
  text stays with its field, both sides agree when nothing is under way.
* **Software present path** (`ticker/present.rs`, `ticker/ticker.rs`) and **Vulkan interop**
  (`vk_renderer/`). *State*: a pixel buffer and its dirty mark; the render image, the shared
  image with a keyed mutex or two read-back buffers, the counters `presented` and
  `consumed`, copies under way on the GPU, memory budget. *Operations*: next image,
  present, tick, resize, probe of the memory. *Hard*: GPU, raster thread and host run at
  their own pace; every call may fail or time out. *Correct when*: the host sees whole
  frames, never an older one after a newer, and settles on the newest.
* **OpenGL interop** (`gl_renderer/angle_interop.rs`). *State*: device, shared texture, keyed
  mutex, a resize latch. *Correct when*: a frame is read only after it is complete.
* **Overlay start-up** (`overlay/init.rs`, `overlay/engine.rs`, the constructors of both
  interops, `vk_renderer/queue_guard.rs`). Renderers are tried in turn, each a chain of
  fallible calls; process-wide are the one OpenGL slot, the engine and EGL libraries, the
  table of real Vulkan functions and the lock of the queues. *Correct when*: a failure
  releases what was made, in order; a running engine borrows only what exists.
* **D3D11 compositor** (`d3d11_compositor/`, the drawing part of `overlays_manager_api`).
  *State*: submitted groups, latched buffers, effects, the clock and the bindings of the
  host's device context. *Hard*: hash-map orders, bindings inherited from batch to batch,
  three entry points that draw. *Correct when*: a latch is a snapshot, every batch is drawn
  as asked, the host's state comes back.
* **Platform channels**, **DLL loader**, **host utilities**, **presets**, **NVIDIA
  Aftermath**, **generated bindings**, **build scripts**: see section 7.

## 2. Plan

In the order of importance; a module is written so that it can be proved about
(CONSTANTS with named assumptions, one action per operation, no RECURSIVE).

1. `TaskRunner`, with `TaskQueue`, the queue of tasks it implements, 2. `SatelliteFrames`, 3. `ViewLifecycle`, 4. `OverlayManager`,
5. `ImplicitView`: done, with proofs.
6. `HostFrames`, the Vulkan and software ways of handing a frame to `tick`, and
   `FrameRegister`, the abstract register they implement: done, with proofs and the refinement.
7. `SceneDraw`, `OverlayEffects` and `Compositor`, which composes the two: done, with proofs.
8. `RendererStart`, fall-backs, the OpenGL slot, the queue guard: done, with proofs.
9. `TextEditing`: done, with proofs (in `OverlayManagerProofs`, with the keys).

Left: the recovery cool-down over several overlays.

## 3. The modules

Each system comes with an `MC...` module that instantiates it for TLC and a `...Proofs` module;
`OverlayManagerProofs` has the two ends of the keyboard, `OverlayManager` and `TextEditing`,
which is why the latter's specification is named `TextSpec`. But for `Compositor`, the modules
share no variable: each keeps the part of the others' behaviour it depends on as an action of
its environment (the raster thread of `SatelliteFrames`, `ImplicitView` and `HostFrames` is the
runner of `TaskRunner` at work on one task). A definition named `X_Y` is a mutation of `X`: the change a plausible bug would make, used to see that a property
notices it; it is not part of any specification.

### TaskRunner

| code | model |
|---|---|
| `Waker::wake_up`: load the handle, compare-and-swap `posted`, `PostMessage` | `wake_up_load`, `wake_up_cas`, `wake_up_post`, three steps of any caller (`pc`) |
| `TaskQueueState`, the three pending queues, the locale flag | `heap`, `pending` (lengths), `locale` |
| `runner_wnd_proc` and the `process` closure | `clear_posted`, `LoadEngine`, `DrainTasks`, `FlutterEngineRunTask`, `TasksDone`, `SendLocale`, `DrainQueue`; the phase is `runner` |
| a handler that pumps messages | `NestedWmNull`, which finds `PROCESS_FN` borrowed |
| `Timer::run`, `schedule_in` | `TimerTop`, `TimerNotified`, `TimerExpires`, `TimerSpurious` over `deadline`, `until`, `rearmed` |
| `init_overlay`, `run_initialized`, `shutdown` | the steps of `starter`, with failure and de-initialisation |

Work done under one mutex is one action. A task is its baton and its target time; the
queued items have no content. Time is a counter that `Tick` advances.

`TaskQueue` is what the engine sees of it: a set of tasks of which one that is due is run next,
and none that would overtake a task posted before it for an earlier time. A task waits there
whether it is in the heap or in the batch a pass has taken (`ImplementsQueue`). Of tasks for the
same time the heap gives the one posted last first; the queue promises no order of those.

### SatelliteFrames

A frame is a number, a texture is the number of its allocation, and `content[t]` is
the last frame completed in texture `t`; `region` and `hostCopy` say the same for each
part of the current texture and of the host's copy, so that a copy of damage only can be
told from a full one. The registry lock makes `create_backing_store`, `present` and
`tick_view` one action each (`CreateBackingStore` or `ReuseBackingStore`,
`PresentView`, `TickView`). `pump_frame` takes the lock several times and is five
actions, `PumpResize` to `PumpDraw`, between which the raster thread may do anything.
The user resizes, minimises and restores; the host resizes an offscreen view. GPU calls
fail within a bound: an allocation, the opening of a texture, the swapchain's resize, after
which there is no render target view (`rtv`) and `PumpDraw` presents a buffer it has not drawn into.

### ViewLifecycle

`stage[v]` is how far a window thread, or the host for an offscreen view, has come;
`hwnd`, `viewId`, `controls`, `keyboard` and `registry` are the slots and tables, as sets of
the views they hold. `adds` and `removes` are the requests with the engine, `box` is the sync
box that `wait_for_add_view` polls. `platform` is the window the
platform thread waits for in `SendMessage`, with the handler table locked
(`HandlersUnlocked` guards what needs that table). The engine runs on that thread, so it
answers only while the thread waits for nobody (`EngineRuns`). `GivesUp` is the end of the
two-second wait: for a view of `Slow`, which the engine answers late or never, or when
the platform thread waits for a window that polls for its answer. `timedOut` records the
views it happened to.

### ImplicitView

A step is one access that the other side can see, since no lock covers the fields of
`FlutterOverlay` that both use. The engine's frame is `BeginFrame` (with the deferred
resize), `AcquireKey0`, `PresentDamage`, `ReleaseKey1`, `CountFrame`; `epc` is how far it
has come. The game's `tick` is `Render` or `RenderHidden` (the load of the counter, after
`reopen_shared_texture_if_needed` if the overlay is visible), `TickDrain`, `TickAcquire`,
`TickCopy`, `TickRelease`, `TickStore`; `hpc` is its stage. A texture is the number of its
allocation; `key[t]` is the state of its mutex, free for key 0 or 1 or held by a side;
`angleMutex`, `gameMutex`, `gameTex`, `handle`, `surface` say which texture each field
refers to. `content` and `host` give for each region the frame it shows.

`attempt_device_recovery` is one step with four outcomes, by what fails. A lost device
kills its textures, and a mutex of a dead texture returns at once with an error that the
callers ignore. `skipped`, `raced` and `failed` are history: a frame acknowledged without
a mutex, textures replaced under a tick or a frame in progress, the last recovery failed.

Assumed of the environment: an AcquireSync by the side that holds the mutex fails at
once; a frame drawn after new metrics includes view 0; what the overlay shows does not
shrink (`Shown`). The last hides a real effect: the engine calls the regions it
reports "the area of the backing store that contains Flutter contents", which tick and
the satellites' copies use as damage, so a region that becomes empty is not
copied and keeps its old pixels. The legacy path without the compositor, which is never
taken with OpenGL, is left out. So is the overlap of a recovery's own steps with a frame
that begins during it.

### OverlayManager

Every method runs under the manager's mutex and is one action. `active`, `order`,
`focused`, `visible`, `keepAlive`, `uiHidden` are the fields of the same names as sets;
`toggles` and `actions` are the binds. `handle_input_event` and the keyboard code it
calls are split by their outcome: `ToggleKey`, `BindConsumesKey`,
`TextFieldConsumesKey`, `SendKeyDown`, `KeyUp`, and, when the mutex is taken or the
message went to another window, `KeyDownMissed` and `KeyUpMissed`. `pressed` is the
overlay's `pressed_keys`; `record` is what the engine concludes from the events it was
sent; `missed` is history. The order is a sequence and `Vec::retain` is the removal of the
first place of an identifier, which is the same on sequences without repetition (an
assumption of `MCOverlayManager`, evaluated by TLC).

Abstracted: a key stands for a key with its modifiers, so two spellings of one bind
cannot coexist and one key has at most one action; the call of a host callback does
nothing to the manager; `shutdown` of an instance returns (section 6 says when it would
not); pointer messages appear only as the `bring_to_front` they may cause.

### HostFrames and FrameRegister

`handoff` says which of three ways is taken. Vulkan: `get_next_image` is split by its outcome
(`RefuseImage`, `ReuseImage`, `ReplaceImage` with `ReplaceTarget`, and the failures
`WaitIdleFails`, `ImageFails`, `TargetFails`), `present_image` into the submission
(`SubmitSharedCopy`, `SubmitReadback`), the wait (`PublishReadback`, `ReadbackFails`) and the
frames it drops; `FinishCopy` is the GPU. `CopySharedFrame` and `UploadReadback` are the
host's tick, `ProbeMemory` its look at the memory budget, which pauses and resumes the
application through the lifecycle channel. Software: `on_present_Copy` and `on_present_Done`
are the engine's copy into `pixel_buffer`; `tick_Take`, `tick_Upload` and `tick_MapFails` the
upload. A frame is the number of its scene; `Mixed` is content that is parts of two.

`FrameRegister` is the promise in three variables: a register that holds the newest frame and
is looked at now and then. `ImplementsRegister` maps `latest` to the last frame published,
`shown` to the host's texture and `ok` to "no read-back was late".

Assumed: an acquire of the keyed mutex on the GPU takes effect in the order of submission; a
hidden overlay does not tick; sizes are not zero. `late`, `dropped`, `unread` and `raced` are
history.

### SceneDraw, OverlayEffects, Compositor

`SceneDraw` has the state of the two 3D renderers and their operations: submitting and
clearing groups, registering effects and fonts, binding textures, the latch, and the draws as
sequences of draw calls, each with the bindings (`ctx`) it runs with. `submitted` is the
`submit_groups_*` maps, `latched` the `render_buffer_*` maps with the number of vertices taken
of each group. A hash map's order is any order. `OverlayEffects` has the post-processing
effect, the glitch countdown, the animation clock and the quad the overlay is composited with.
`Compositor` is both under the manager: which call of the host runs what (`render_ui`,
`composite_overlays`, `render_primitives`, the latch), first frame and visibility. Vertices are
counted, not looked at; a call that finds the manager's lock taken does nothing.

### RendererStart

A constructor is the sequence of its fallible calls; a call (`Step`) says what it makes, what it
ends, and what the enclosing functions release if it fails, innermost first: the sequence
`undo`, whose elements are what one call of theirs releases. The definitions named after the
constructors and the `drop`s build these sequences; `todo` is what is left of the one the start
is in (`phase`), `unwinding` what is left to release after a failure. `CallSucceeds` and
`CallFails` work the first off, `Release` the second, one release per step; `Unwound` gives the
start back to `init_renderer`, and `NextFunction` goes on with the next function, attempt or
engine start. `live` has the native objects of each overlay, `leaked` those a constructor gives
up on purpose. The queue lock is `lock`; `inQueue` has the threads inside the driver's queue
functions. The starting thread is one of them while it submits the test pattern or waits for
an idle device, in `next_image` (`CallQueues`, `QueueCallEnds`) or in the `drop` of the context
or of the interop state (`wait_idle`, `DeviceIdle`). Starts are serial (they run under the
manager's mutex); engines that run submit in between. Shut-down is not part of it, nor are the
panics of `expect`.

### TextEditing

`slot` is `active_text_input`, `value` and `conn` are Flutter's side, `outbox` and `inbox` the
messages on their way. `TypeChar` and `TypeReturn` edit under the lock; the message is made
then and queued by `send_to_flutter`, a step of its own. A text is a sequence of characters of
which only the two lengths matter; what Flutter does with its value is one of `Values`.

## 4. The runs

| run | question | bounds and why they are enough |
|---|---|---|
| `TaskRunnerNested` | is the flood guard one message wide, is the runner a queue of tasks to the engine? | Two posters, the timer, the runner and the starter race through `wake_up`; two tasks and two target times, so that one task could overtake the other, also from one pass to the next; one queued item; a handler pumps messages. Spurious wake-ups are in the next run. |
| `TaskRunnerLiveness` | is no wake-up lost, does everything queued get done? | One poster and the three fixed callers; a task due later, so that the timer is re-armed; one spurious wake-up. |
| `SatelliteViews` | do resources, screen and host copy stay in step? | Two sizes with resizes both ways (a texture replaced by one of the old size), three textures, two damage regions, one failing call anywhere: allocation, GL objects, opening, the swapchain's resize. |
| `SatelliteConverges` | does a resized window settle? | Three sizes, growing twice, so a resize overtakes the one before it; frames may report no damage. |
| `Views` | do surfaces, slots and answers fit, does every close end? | Two windows that wait for each other's locks, one of them with a silent engine, one offscreen view, any call failing. |
| `Overlays` | do an overlay's keys agree with its engine's? | Two overlays between which the focus moves, one key that is bound and one a text field takes, any message lost. |
| `ImplicitView` | does the game copy whole frames, and in the end everything that changed? | Two regions, so that a partial copy differs from a full one; two frames besides those after a resize; a resize, a lost device and a failing call, which is three textures. |
| `ImplicitServed` | does a waiting engine get its key, does the game see the new size? | The same with one region, since no liveness depends on damage. |
| `HostFrames` | does the host see whole frames, in order, and the newest in the end, by each of the three ways? | Three scenes and two resizes, so that a frame of an old size meets a newer one; two changes of the memory state; two failing calls, so that one follows another's clean-up. |
| `Compositor` | is a latch a snapshot, is each batch drawn as asked, does a glitch end? | Two groups that together overflow a buffer; two fonts; options of both priorities; effects with and without a vertex shader; two calls about the scene, four about effects, or one of each. |
| `RendererStart` | do failures leave nothing, in what order do they release, is what an engine borrows there, is the queue used by one thread at a time? | Two overlays, the second finding what the first left; every call fails in turn; two engine threads. |
| `TextEditing` | do the two sides of a text field agree? | Two threads, two fields in turn, two keys, one change by Flutter beside the fields' first values; characters of 1, 2 and 4 bytes, a selection inside a surrogate pair and one that is absent. |

The counters that would grow without end are bounded in the guards: `MaxTasks`,
`MaxItems`, `MaxTime`, `MaxSpurious`; `MaxTextures`, `MaxResizes`, `MaxAppFrames`,
`MaxFails`; in `ImplicitView` also `MaxFrames` and `MaxLosses`; in
`HostFrames` `MaxScenes`, `MaxResizes`, `MaxProbes`, `MaxFaults`; `Budgets` and `MaxClock` in
`Compositor`; `MaxClients`, `MaxKeys`, `MaxSets` in `TextEditing`. `ViewLifecycle`,
`OverlayManager` and `RendererStart` are finite as they stand. Deadlock is not checked: each of the
systems may stop, with no work queued, no window open and a host that calls nothing, or at a
bound.

### Fairness

* `TaskRunner.FairSpec`: the operating system runs each thread that can run, and time
  passes. Nothing forces the engine to post, a handler to pump or the host to shut down.
* `SatelliteFrames.FairSpec`: the raster thread (a scheduled frame is rendered) and the
  window thread (its loop pumps on a timer) keep running, and a minimised window is
  restored at some time. Nothing is assumed of the host, of Dart code, or of calls that
  fail; the run `SatelliteConverges` has no failing calls, since nothing in the
  code retries an allocation for ever, nor a swapchain's resize even once.
* `ViewLifecycle.FairSpec`: a window's thread runs (strongly: the handler table it needs
  is free again and again, and it is a fair lock); a message sent to a window that
  dispatches is answered (the modal loop of `startDrag` ends when the user lets go); the
  engine answers when its thread is free again and again, except for the views of
  `Slow`, for which it may stay silent.
* `ImplicitView.FairSpec`: the engine's thread runs and draws a frame after new metrics;
  a tick that has begun goes on; the game renders again and again while the overlay is
  visible. Neither frames without new metrics, nor recovery, nor showing a hidden overlay
  are assumed. The properties speak of an overlay that stays visible, with its device, and
  of executions without `skipped` and `raced`.
* `HostFrames.FairSpec`: engine threads and GPU get on and the host ticks every frame. That the
  application draws, the host resizes or a call fails is not assumed.
* `Compositor.FairSpec`: the host renders a visible overlay again and again, and the engine's
  first frame comes.
* `RendererStart.FairSpec`: a driver call returns, and the starting thread gets the queue lock
  if it is free again and again: `parking_lot`'s mutex is eventually fair.
* `OverlayManager` and `TextEditing` have no liveness property: each call stands alone.

## 5. What is proved

All theorems hold for every value of the constants that satisfies the module's
named assumptions; but for `QueueCallsAssumption` (below), those say no more than that names
differ, bounds are natural numbers, and characters and values are such.

* **TaskRunnerProofs**. `TypeCorrect`; `FloodGuardHolds`; `NoLostWakeup`;
  `TasksRunOnceAndNotEarly`. The flood guard alone is not inductive: a caller about to post
  must be the one that set `posted`, and `posted` must have a message behind it, in
  the queue, in the hands of a caller, or taken but not cleared (`FloodInv`,
  `GuardInv`). `WakeupNotLost` speaks of an idle runner; its strengthening `WorkInv` says of
  every phase of `process` that work queued is still ahead of it, announced, or
  covered by the timer. `QueueImplemented` is the refinement of `TaskQueue`: it rests on
  `TasksRunOnceAndNotEarly` and on `BatchInv`, that a pass finds the batch of the one before it
  empty, and that what the heap has during a pass is for a later time than the batch or was
  posted after it: this is why taking tasks in batches lets none overtake. `NoLostWakeup` assumes `NestedPump = FALSE`: section 6 says why.
* **SatelliteFramesProofs**. `TypeCorrect`; `ResourcesCoherent`; `WindowLosesNoFrame`, by
  `FrameInv` (counters bound each other, a window without a texture claims no frame; the
  render target view comes and goes only in a step that also drops `last_frame`);
  `HostCopyStaysCurrent`, by `HostInv` (a host texture of the wrong size waits for a copy
  of everything, and the first frame in a texture paints all of it). The last assumes
  that frames report their damage (`EmptyDamage = FALSE`).
* **ViewLifecycleProofs**. `TypeCorrect`; `RequestsFollowed` (`RequestInv`: at each stage,
  what is with the engine, what the box holds, whether the engine has the view), from
  which follow `AddedWindowsInEngine`, `SurfacesOutliveViews` (with `SurfaceInv`),
  `AnswersMeetTheirBox` (`WaitInv`) and `InputMeetsLiveView` (`SlotInv`). Surfaces and answers
  are claimed of the views outside `timedOut`: `CallerWaits` says that the caller of the
  others is still there. `ThreadsEndClean`, by `TearDownInv`: each way out of
  `run_window_thread` has given up, before the thread ends, whatever its stage can hold
  (`Holds`), and no other thread takes it up again.
* **OverlayManagerProofs**. `TypeCorrect` and `OrderCorrect` together, since the next focus is
  read from the order; they rest on lemmas about taking an identifier out of a sequence
  without repetition and putting it on top. `KeysCorrect`, `StuckCorrect` and
  `UpsCorrect` by `KeyInv`, which adds that nothing is left of the keys of an overlay that
  is gone: otherwise a release lost then would leave them stuck in a later one.
  Of `TextEditing`, `OffsetsStayAtCharacters`, `TextsStayWithTheirField` and `CopiesStayInStep`,
  for any texts, characters and values of Flutter's, selections absent, out of range or inside
  a surrogate pair included. Bytes and code units both grow with every character
  (`BytesGrow`, `UnitsGrow`), so an offset snaps to a boundary (`SnapsToBoundary`), inserting at
  two boundaries leaves one (`InsertGood`), and a model sent to Flutter and back is the same
  (`RoundTrip`). `TextInv` says that every model, in the slot or in a message, ends its
  selection at boundaries, and that a message goes to the field its copy came from. That the
  copies agree says nothing of messages under way and needs two invariants that do: the last
  call under way that names a field names the one with the focus (`FieldInv`); and when Flutter
  has nothing under way, either the texts agree, or the focused field's text is on its way, or
  the last message to arrive had been overtaken (`CopyInv`).
* **ImplicitViewProofs**. `TypeCorrect`. `CopiesAreWhole`, for any number of frames, resizes,
  losses and failures, races included: by `RefInv` (references go to textures that exist,
  a lost device has no living texture), `LinkInv` (the references of a working device
  agree, or a failed recovery left the engine a surface nobody else knows) and `HolderInv`
  (who may hold a texture while the engine draws or the game copies).
  `GameNeverWaits` and `EngineWaitsForTick` by `HandOffInv`: the shared texture is with the
  engine, offered, with the game, or abandoned, and the counters say which. It needs
  `Acknowledged`, since the key is released before the frame is counted and the engine
  may present the next frame in between. Both leave out executions with `raced`.
  `CopyStaysCurrent`: `HostInv` says that the game's texture and the shared one differ in
  damaged regions only, and says so of the engine's surface already before the game opens it;
  `TextureInv` and `ShownInv` say what a texture may show that no tick has drained.
* **HostFramesProofs**. `TypeCorrect`; `KeyCorrect`, `ReadsFinished`, `UploadsCurrent` by
  `HandOffInv`, which says for each hand-off what is in the buffers at every place of the
  raster thread: the copies under way are at most one, of the newest frame, and go to the buffer
  the host does not read. `RegisterImplemented` is the refinement: `StepRegister` maps every step
  to a `Publish`, `Show`, `Blank` or stutter of the register, `StepLate` says that the promise,
  once given up, is not taken back.
* **CompositorProofs**. `HostKeepsStates`: each draw's epilogue sets the four states back, whatever
  batches there were. `TimeNeverBack`, by `TimeInv`, which bounds the last composited time by
  the clock less `start_time`, or by `time_at_pause`. `BuffersNeverOverflow` and
  `LatchIsComplete`, by `SceneInv` (what is submitted, registered and latched is well formed):
  a fold over the groups is a sum that can be taken in any order (`FoldSumsUp`), so along
  whatever order a hash map has, the fill of a buffer is the sum of what was submitted under
  its key, cut off at the capacity (`LatchTakesAll`). `CallsAreAsAsked`, by `DrawInv`:
  a `Bind` sets all that its batch asks for, whatever the context was left with (`BindRight`,
  `TextBindsRight`); the vertex shader that plain lists do not set is still the prologue's
  (`BindingsTyped`); a list's order lists each of its batches once, by priority
  (`DrawOrderGood`, `TextGood`). The theorem is for any groups, effects, fonts and slots.
* **RendererStartProofs**. `QueueIsExclusive`, by `LockInv` (who is in the queue holds the lock);
  it rests on `QueueCallsAssumption`, that an engine reaches its queue through entry points the
  guard knows. `HandoffIsProven`, by `HandoffInv`: a shared hand-off is asked for only after the
  check delivered, through every fall-back. `TypesAreKept`, `FailedStartsLeaveNothing`,
  `ChildrenAreReleasedFirst`, `EnginesBorrowWhatIsLive` and `TableStaysGood` need to know what is
  live between two calls of a constructor. `Runs(P, s, Q, A, F)` says it of a sequence of calls
  `s`: started with the objects `P`, it ends with `Q`, has what each call
  asks for (`A`) on the way, and leaves one of `F` when a call fails and its unwinding is through;
  sequences put together run when their parts do, so each constructor is a lemma about its own
  calls. The order of the releases is a fact about every `undo` (`Unwindings`: no release of a
  device has a release of something made from it after it, none of an instance one of its
  device), proved of each `drop`'s sequence from the code's order, and kept when a
  constructor's own releases come before those of the functions around it. `StartInv` says that what is left in `todo` runs
  from what is live; that while a start unwinds, what it owns is in order (`Ordered`) now and
  will be when `unwinding` is empty, which with the order of the releases makes every state in
  between ordered (`UnwindOn`, `OrderlyOn`); and what the overlays outside an attempt, the
  table of functions and the OpenGL slot have meanwhile.

Proved but not part of a run: the `TypeCorrect` theorems and `TypesAreKept`, `TaskInOnePlace`,
`NeverEarly`, `AddedIsInEngine`, `OrderAgrees`, `TickNeverWaits`, `WaitsForTick`, `CompositeTimeSteady`.

Induction in these proofs is of a set of naturals (`SetInduction`, from the library's theorem
that they are well-founded): the library's induction theorems take a predicate, which the
provers cannot instantiate. A function defined by recursion has its equation because a function
with that equation exists on every initial segment of its domain (`FillUnfolds`,
`BindingsUnfold`, `FoldIsSum`).

Only model-checked: `QueuedIsServed`, `Converges`, `CloseCompletes`, `EngineServed`,
`ResizeSettles`, `SettlesOnNewest`, `GlitchEnds` and `StartEnds` (liveness under fairness is out of
the prover's reach). Every safety property that a run checks is a theorem.

What the proofs corrected: two batches of text in different fonts may have the same key, which a
run with one font could not show. A draw call of text therefore names its font, and
`DrawnAsAsked` compares text calls of one font; the run has two.

## 6. What the code does otherwise

Promises of comments and headers that a module states and its model refutes. They are in no
configuration; adding the named definition to one gives the counterexample:

* `ShutdownCompletes` (`TaskRunnerLiveness.cfg`). `shutdown` joins the runner thread, whose loop nothing
  ends (`api.rs:960`); the engine is never shut down.
* `SurfaceKeptUntilRemoved` (`Views.cfg`). `remove_view` drops the surface after two seconds whether or
  not the engine answered (`multiview/api.rs:264`; `flutter_embedder.h:1188-1189` forbids it). An
  engine willing to answer may be unable to: its thread waits in `setTitle` or `startDrag` for the
  very window that polls for the answer and dispatches no messages.
* `NoHandshakeSkipped` (`ImplicitView.cfg`). A hidden overlay with satellite views is resized. The
  engine's next frame replaces the texture and takes the game's mutex away; only visible overlays
  reopen it (`overlays_manager_api/mod.rs:1499`), so the hidden tick counts that frame without
  handing its key back (`api.rs:320`), and the engine waits for ever, also once the overlay is shown.
* `RecoveryRetried` (`ImplicitView.cfg`). `full_reinitialize` clears `device_lost` before the steps of a
  recovery that may still fail (`gl_renderer/angle_interop.rs:956`); the retry that the log
  announces (`overlays_manager_api/mod.rs:3033`) does not come.

In the models as steps, with no run of their own:

* A `WM_NULL` that a nested message loop dispatches is consumed while the flood
  guard stays set (`ticker/task_runner_window.rs:170`, `NestedWmNull`); no later wake-up
  posts, though line 181 says that every `WM_NULL` clears the guard.
* A window samples a new texture before a frame was rendered into it
  (`multiview/window.rs:556`, `PumpDraw`), the "present-hold" of `compositor.rs:246-253`
  notwithstanding.
* The toggle key of a kept-alive overlay that was hidden flips `ui_hidden` and does not
  show it (`overlays_manager_api/mod.rs:681`, `ToggleKey`).
* Repeats without a down and second downs are sent to engines (`overlay/keyevents.rs:222`,
  `SendKeyDown`), against `flutter_embedder.h:1422-1425`.
* `make_current_callback` replaces textures and counters under a tick in progress
  (`gl_renderer/angle_interop.rs:1084-1104`): the tick then stores a counter that is behind,
  the next one finds a frame that was never released to it and waits. A recovery during
  a frame has the same effect. The `~ raced` of the properties leaves these executions out.
* A wake-up before the runner's window exists is dropped (`ticker/task_runner_window.rs:31`).
  The first queued work is picked up because `init_overlay` wakes the runner at its end; the
  properties are claimed of a runner that has served its engine once (`served`).
* `process` loads the engine pointer once and uses it to the end, while a failing
  start may de-initialise that engine (`ticker/spawn.rs:53`).
* The window compares sizes, not textures: two reallocations that lead back to the old
  size leave it sampling a texture that is gone from the surface
  (`multiview/window.rs:507`). `NoFrameLost` is stated of the current texture for that reason.
* When `ResizeBuffers` or `rebuild_rtv` fails, `cur_w` and `cur_h` are the new size already and
  the render target view is gone (`multiview/window.rs:514-533`): until the texture changes its size
  again, each frame is counted (`last_frame`, `present_count`) and presented, but `draw` has returned
  early (`window.rs:1552`). `NoFrameLost` is false there, and is stated of a window with an `rtv`.
* The texture lags the window's size until the next frame, and the host may copy a
  texture nothing was rendered into; a frame without damage rectangles leaves the host copy
  as it was (`multiview/compositor.rs:407`).
* An offscreen view is handed out before the engine answered (`multiview/api.rs:177`;
  `flutter_embedder.h` asks to wait). `AddedIsInEngine` is stated of windows.

*Vulkan and software frames* (`HostFrames`):

* When `next_image` cannot allocate its target, the render image of the new size stays
  (`vk_renderer/interop.rs:350`): every present at that size fails until the size changes.
* A read-back whose fence times out is left in flight (`late`), and the next frame uses its fence
  and may meet its buffer (`vk_renderer/interop.rs:500`). A failed present is not retried.
* The software tick clears the dirty mark before `Map`: if that fails the frame is lost
  (`unread`, `ticker/ticker.rs:12`). `resize` replaces `pixel_buffer` while `on_present` may be copying
  into it (`raced`, `api.rs:230`).

*Starting* (`RendererStart`):

* `REAL_FNS` is filled once, by the first context that gets that far, and points into a loader that
  goes with the last context; `vk_renderer/queue_guard.rs:12-15` calls it valid for every device of the
  process. When that start fails later, the next one loads the library anew and uses the old
  table (`realFns # loader`). `TableKeptInUse` says that it does not happen under an engine.
* `with_instance` drops `entry`, and with it the loader, before `new` destroys the instance
  (`vk_renderer/context.rs:130`). An unfinished pattern upload is leaked on purpose, and the device
  destroyed under it. A display that `eglInitialize` opened is not terminated when a later call
  of `AngleInteropState::new` fails.
* `AngleInteropState::drop` destroys the old surfaces first and only then puts the current pbuffer
  with them (`gl_renderer/angle_interop.rs:1037-1040`, `967-972`): `eglDestroySurface` is never called on
  it, and it ends with its display, in `eglTerminate`. `AngleInteropState_drop` therefore releases the two in
  one step, and no property says that the surface goes first.
* `OPENGL_CONTEXT_CREATED` stays set when `run_engine` fails after it; the failed start also leaves
  the task-runner and timer threads and the AOT data.
* "Every choice degrades" (`api.rs:64-66`), but an engine that does not start with a Vulkan or OpenGL
  configuration is not tried with the next renderer. The engine library stays loaded when a
  symbol is missing. Every start registers its keyboard state as that of view 0 of the process.

*Compositor*:

* `clear_effect` leaves `effect_frames_remaining`: the countdown writes the glitch back, and any effect
  set meanwhile is overwritten and cleared at its end (`overlays_manager_api/mod.rs:1506`).
  `trigger_glitch_effect` with no frames, or on a host that composites without `render_ui`, stays.
* `pause_animations` freezes the time of `composite_overlays` only; `render_primitives` and `render_ui`
  use the elapsed time, which jumps back at a resume (`overlays_manager_api/mod.rs:1955`).
* `BlendMode::Opaque` says that it disables the depth test (`primitive_3d_renderer.rs:36-40`); the
  draw takes the depth state from the options alone. A batch of lines with a custom effect sets
  no vertex shader and uses the previous batch's (`primitive_3d_renderer.rs:967`).
* `render_primitives` draws hidden overlays too, against its comment ("for all visible overlays").
  Cleared texture slots stay bound. `stencil_test`, `stencil_write`, `depth_bias` and
  `scissor_enabled` are never read; text ignores `write_to_depth`. Text latched with a font is
  drawn with the atlas registered later. A busy lock drops a submission without a word.

*Text*:

* `setEditingState` overwrites what was typed since Flutter sent it, and two threads may queue their
  edits in the other order (`stale`): the sides then differ until the next edit.
* The surrogate halves of `WM_CHAR` are dropped, so no character beyond the BMP can be typed.

Seen while reading, in parts not modelled:

* `tick_overlays` passes over hidden overlays (`overlays_manager_api/mod.rs:1572`): a host that
  uses it instead of `render_ui` stalls the satellite views of a hidden overlay.
* A hidden overlay that has the focus still receives keys, though `set_visibility` is
  documented as cutting input off (`overlays_manager_api/mod.rs:2311`).
* `init` with an identifier in use brings the overlay to the front and keeps it; its
  documentation says it is shut down and replaced (`overlays_manager_api/mod.rs:1199`).
* *Pointers.* A press brings its overlay to the front, so the release may go to another. Each button
  sends its own down and up (`flutter_embedder.h:1268-1306` describes one for all), and moves or a
  wheel may come before the pointer's add. A secondary view gets the samples inside its rectangle
  only: a drag out of it has no end (`overlay/input.rs:354`). Satellites use device 0, as view 0 does.
* *Semantics.* An update replaces the whole tree and looks at no view id, so that of a satellite
  replaces view 0's; `flutter_embedder.h:1850-1865` describes a batch of changes.
* *Channels.* A custom channel's handler runs with the handler table locked.

## 7. Not modelled

* *Pointer input.* The embedder's pointer protocol is not kept by the code in the ways section 6 lists,
  each visible in a single call, and who is hit is decided by floating-point rectangles.
* *Semantics, platform channels*: trees and codecs; the handler table's lock is in `ViewLifecycle`.
* *The recovery cool-down*, a count of frames shared by the overlays.
* *The editing commands of `TextInputModel`* beside typing (backspace, the cursor): only its unit
  tests call them.
* *Generated code and build scripts*: bindings, key maps. The engine is modelled
  where the code calls it.
* *Pure numeric or GPU work*: geometry and text presets, shaders, the content of vertices. They
  keep no state between calls that another part reads, and TLC has no reals.
* *Windows plumbing*: hit-testing, dragging and maximising of satellite windows, the
  stand-alone runner window, clipboard, cursor, paths: sequential calls whose effect is
  outside the program.
* *NVIDIA Aftermath, Flutter's Windows loader and utilities*: diagnostics, symbol look-up, paths.
