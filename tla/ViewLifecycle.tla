---------------------------- MODULE ViewLifecycle ----------------------------
(***************************************************************************)
(* Adding and removing secondary views.  A satellite window has a thread   *)
(* that creates the window, adds its view, pumps messages, removes the     *)
(* view and destroys the window; an offscreen view is added and removed by *)
(* the host.  The engine answers both requests later, through a sync box   *)
(* the caller polls for two seconds and then frees.  The engine's UI and   *)
(* render tasks run on the platform thread (init_overlay gives it one task *)
(* runner for all three), and so does the handler of the window-control    *)
(* channel, which may wait for a window's thread: nothing is answered      *)
(* meanwhile.                                                              *)
(*                                                                         *)
(* A view id is used once (ViewRegistry::allocate_id), so a view is named  *)
(* by the window or the offscreen call it belongs to.                      *)
(***************************************************************************)
EXTENDS Naturals

CONSTANTS
  Windows,     \* satellite windows that may be spawned
  Offscreen,   \* offscreen views that may be added
  Slow,        \* views whose answers may come after the caller's wait, or never
  Refusals,    \* may a GPU or engine call fail to start?
  None         \* the platform thread waits for no window

ASSUME LifecycleAssumption ==
  /\ Windows \cap Offscreen = {}
  /\ Slow \subseteq Windows \cup Offscreen
  /\ Refusals \in BOOLEAN
  /\ None \notin Windows

Views == Windows \cup Offscreen

VARIABLES
  stage,        \* how far the thread or the host got with each view
  shouldClose,  \* should_close
  hwnd,         \* windows whose hwnd slot is set
  open,         \* windows that exist
  viewId,       \* windows whose view_id slot is set
  controls,     \* WINDOW_CONTROLS
  keyboard,     \* the per-view keyboard states
  registry,     \* ViewRegistry.views
  adds,         \* AddView requests the engine has not answered
  removes,      \* RemoveView requests the engine has not answered
  box,          \* the sync box of each view's request
  engineViews,  \* views the engine has
  platform,     \* the window the platform thread waits for in SendMessage, or None
  timedOut      \* history: views whose caller gave up waiting for an answer

windowVars == <<hwnd, open, viewId, controls, keyboard>>
engineVars == <<adds, removes, engineViews>>
waitVars == <<platform, timedOut>>
vars == <<stage, shouldClose, windowVars, registry, box, engineVars, waitVars>>

Stages == {"none", "spawned", "window", "adding", "added", "removing", "removed",
           "unregistered", "ended"}
Boxes == {"none", "waiting", "true", "false", "freed"}

Init ==
  /\ stage = [v \in Views |-> "none"]
  /\ shouldClose = [w \in Windows |-> FALSE]
  /\ hwnd = {} /\ open = {} /\ viewId = {} /\ controls = {} /\ keyboard = {}
  /\ registry = {} /\ adds = {} /\ removes = {} /\ engineViews = {}
  /\ box = [v \in Views |-> "none"]
  /\ platform = None /\ timedOut = {}

At(v, from, to) == stage[v] = from /\ stage' = [stage EXCEPT ![v] = to]
SetBox(v, value) == box' = [box EXCEPT ![v] = value]

(***************************************************************************)
(* The window thread                                                       *)
(***************************************************************************)
spawn_window_view(w) ==
  /\ At(w, "none", "spawned")
  /\ UNCHANGED <<shouldClose, windowVars, registry, box, engineVars, waitVars>>

\* create_satellite_window.
CreateWindow(w) ==
  /\ At(w, "spawned", "window")
  /\ open' = open \cup {w} /\ hwnd' = hwnd \cup {w}
  /\ UNCHANGED <<shouldClose, viewId, controls, keyboard, registry, box, engineVars, waitVars>>

\* An early return of run_window_thread, before or inside add_window_view: the
\* thread ends, the system destroys its window, the hwnd slot keeps its value.
WindowThreadFails(w) ==
  /\ Refusals
  /\ stage[w] \in {"spawned", "window"}
  /\ stage' = [stage EXCEPT ![w] = "ended"]
  /\ open' = open \ {w}
  /\ UNCHANGED <<shouldClose, hwnd, viewId, controls, keyboard, registry, box, engineVars,
                 waitVars>>

\* The surface is registered, then the engine is asked.
AskToAdd(v) ==
  /\ registry' = registry \cup {v}
  /\ adds' = adds \cup {v}
  /\ UNCHANGED <<removes, engineViews>>

\* register_channel_handler takes the lock the platform thread holds while a
\* handler of its runs.
HandlersUnlocked == platform = None

add_window_view(w) ==
  /\ At(w, "window", "adding")
  /\ HandlersUnlocked
  /\ AskToAdd(w)
  /\ SetBox(w, "waiting")
  /\ UNCHANGED <<shouldClose, windowVars, waitVars>>

\* The engine has answered: the box is read and freed, the window is announced.
WindowAdded(w) ==
  /\ box[w] = "true"
  /\ At(w, "adding", "added")
  /\ SetBox(w, "freed")
  /\ viewId' = viewId \cup {w}
  /\ keyboard' = keyboard \cup {w}
  /\ controls' = controls \cup {w}
  /\ UNCHANGED <<shouldClose, hwnd, open, registry, engineVars, waitVars>>

\* Mutation: the wait has no limit.
GivesUp_Never(v) == FALSE

\* The platform thread waits for a window that does not dispatch its messages.
Dispatching(w) == stage[w] = "added" \/ w \notin open
PlatformStuck == platform # None /\ ~ Dispatching(platform)

\* wait_for_add_view gives up after 2000 polls: the engine is slow, or the thread
\* that would answer is stuck itself.
GivesUp(v) == box[v] = "waiting" /\ (v \in Slow \/ PlatformStuck)

\* The wait for an answer ends with one of these answers, or without one.
WaitEnds(v, answers) ==
  \/ box[v] \in answers /\ UNCHANGED timedOut
  \/ GivesUp(v) /\ timedOut' = timedOut \cup {v}

\* The engine said no, or nothing in time: the surface goes, the thread ends.
WindowNotAdded(w) ==
  /\ WaitEnds(w, {"false"})
  /\ At(w, "adding", "ended")
  /\ SetBox(w, "freed")
  /\ registry' = registry \ {w}
  /\ open' = open \ {w}
  /\ UNCHANGED <<shouldClose, hwnd, viewId, controls, keyboard, engineVars, platform>>

\* Mutation: the surface is dropped before the engine is asked.
LeaveLoop_DropsSurface(w) ==
  /\ shouldClose[w]
  /\ At(w, "added", "removing")
  /\ SetBox(w, "waiting")
  /\ removes' = removes \cup {w}
  /\ registry' = registry \ {w}
  /\ UNCHANGED <<shouldClose, windowVars, adds, engineViews, waitVars>>

\* The loop leaves when should_close is set: remove_view asks the engine.
LeaveLoop(w) ==
  /\ shouldClose[w]
  /\ At(w, "added", "removing")
  /\ SetBox(w, "waiting")
  /\ removes' = removes \cup {w}
  /\ UNCHANGED <<shouldClose, windowVars, registry, adds, engineViews, waitVars>>

\* FlutterEngineRemoveView does not start: the surface stays registered.
LeaveLoopRefused(w) ==
  /\ Refusals /\ shouldClose[w]
  /\ At(w, "added", "removed")
  /\ UNCHANGED <<shouldClose, windowVars, registry, box, engineVars, waitVars>>

\* Mutation: the answer is not waited for.
ViewRemoved_AtOnce(v) ==
  /\ At(v, "removing", "removed")
  /\ SetBox(v, "freed")
  /\ registry' = registry \ {v}
  /\ UNCHANGED <<shouldClose, windowVars, engineVars, waitVars>>

\* Whatever the answer, and without one after two seconds, the surface goes.
ViewRemoved(v) ==
  /\ WaitEnds(v, {"true", "false"})
  /\ At(v, "removing", "removed")
  /\ SetBox(v, "freed")
  /\ registry' = registry \ {v}
  /\ UNCHANGED <<shouldClose, windowVars, engineVars, platform>>

\* Mutation: the view id slot is cleared after DestroyWindow.
Unregister_KeepsViewId(w) ==
  /\ w \in Windows
  /\ At(w, "removed", "unregistered")
  /\ keyboard' = keyboard \ {w}
  /\ controls' = controls \ {w}
  /\ hwnd' = hwnd \ {w}
  /\ UNCHANGED <<shouldClose, open, viewId, registry, box, engineVars, waitVars>>

\* Mutation: the keyboard state is not unregistered.
Unregister_KeepsKeyboard(w) ==
  /\ w \in Windows
  /\ At(w, "removed", "unregistered")
  /\ controls' = controls \ {w}
  /\ viewId' = viewId \ {w}
  /\ hwnd' = hwnd \ {w}
  /\ UNCHANGED <<shouldClose, open, keyboard, registry, box, engineVars, waitVars>>

Unregister(w) ==
  /\ w \in Windows
  /\ At(w, "removed", "unregistered")
  /\ keyboard' = keyboard \ {w}
  /\ controls' = controls \ {w}
  /\ viewId' = viewId \ {w}
  /\ hwnd' = hwnd \ {w}
  /\ UNCHANGED <<shouldClose, open, registry, box, engineVars, waitVars>>

Destroy(w) ==
  /\ At(w, "unregistered", "ended")
  /\ open' = open \ {w}
  /\ UNCHANGED <<shouldClose, hwnd, viewId, controls, keyboard, registry, box, engineVars,
                 waitVars>>

(***************************************************************************)
(* Closing: the title bar, Dart, or the host (WindowControls::close and    *)
(* the Drop of SatelliteWindow).  Each sets should_close; the message that *)
(* goes with it only wakes the loop, which polls anyway.                   *)
(***************************************************************************)
close(w) ==
  /\ stage[w] # "none"
  /\ shouldClose' = [shouldClose EXCEPT ![w] = TRUE]
  /\ UNCHANGED <<stage, windowVars, registry, box, engineVars, waitVars>>

(***************************************************************************)
(* Offscreen views                                                         *)
(***************************************************************************)
\* add_offscreen_view does not wait for the answer.
add_offscreen_view(v) ==
  /\ At(v, "none", "added")
  /\ AskToAdd(v)
  /\ UNCHANGED <<shouldClose, windowVars, box, waitVars>>

remove_offscreen_view(v) ==
  /\ v \in Offscreen
  /\ At(v, "added", "removing")
  /\ SetBox(v, "waiting")
  /\ removes' = removes \cup {v}
  /\ UNCHANGED <<shouldClose, windowVars, registry, adds, engineViews, waitVars>>

(***************************************************************************)
(* The engine.  Requests for a view are answered in the order they came.   *)
(***************************************************************************)
\* The platform thread runs the engine's tasks unless it waits for a window.
EngineRuns == platform = None

\* The callback writes the answer into the box; without a caller polling it
\* (add_view_noop_callback, or a box freed by then) nobody learns of it.
Answer(v, value) ==
  SetBox(v, IF box[v] = "waiting" THEN value ELSE box[v])

AnswerAdd(v) ==
  /\ EngineRuns
  /\ v \in adds
  /\ adds' = adds \ {v}
  /\ \/ engineViews' = engineViews \cup {v}
        /\ IF v \in Windows THEN Answer(v, "true") ELSE UNCHANGED box
     \/ engineViews' = engineViews
        /\ IF v \in Windows THEN Answer(v, "false") ELSE UNCHANGED box
  /\ UNCHANGED <<stage, shouldClose, windowVars, registry, removes, waitVars>>

AnswerRemove(v) ==
  /\ EngineRuns
  /\ v \in removes /\ v \notin adds
  /\ removes' = removes \ {v}
  /\ engineViews' = engineViews \ {v}
  /\ Answer(v, IF v \in engineViews THEN "true" ELSE "false")
  /\ UNCHANGED <<stage, shouldClose, windowVars, registry, adds, waitVars>>

(***************************************************************************)
(* The platform thread in handle_window_control_message: setTitle and      *)
(* startDrag send a message to the window's thread and wait for it, with   *)
(* the handler table locked.                                               *)
(***************************************************************************)
SendToWindow(w) ==
  /\ platform = None
  /\ w \in controls /\ w \in hwnd
  /\ platform' = w
  /\ UNCHANGED <<stage, shouldClose, windowVars, registry, box, engineVars, timedOut>>

\* The window's loop dispatches the message, or the window is gone.
SendReturns ==
  /\ platform # None /\ Dispatching(platform)
  /\ platform' = None
  /\ UNCHANGED <<stage, shouldClose, windowVars, registry, box, engineVars, timedOut>>

WindowThread(w) ==
  \/ CreateWindow(w) \/ add_window_view(w) \/ WindowAdded(w) \/ WindowNotAdded(w)
  \/ LeaveLoop(w) \/ ViewRemoved(w) \/ Unregister(w) \/ Destroy(w)

WindowCalls(w) ==
  \/ spawn_window_view(w) \/ close(w) \/ SendToWindow(w)
  \/ WindowThreadFails(w) \/ LeaveLoopRefused(w)

OffscreenCalls(v) ==
  add_offscreen_view(v) \/ remove_offscreen_view(v) \/ ViewRemoved(v)

EngineAnswers(v) == AnswerAdd(v) \/ AnswerRemove(v)

Next ==
  \/ \E w \in Windows : WindowCalls(w) \/ WindowThread(w)
  \/ \E v \in Offscreen : OffscreenCalls(v)
  \/ \E v \in Views : EngineAnswers(v)
  \/ SendReturns

Spec == Init /\ [][Next]_vars

\* A window's thread keeps running and gets a lock that is free again and again;
\* nothing has to fail.  A message sent to a window whose loop dispatches is answered
\* (the move loop that startDrag enters ends when the user lets go).  The engine's
\* tasks get their turn between the handlers, but for the slow views it may never answer.
FairSpec ==
  /\ Spec
  /\ \A w \in Windows : SF_vars(WindowThread(w))
  /\ \A v \in Views \ Slow : SF_vars(EngineAnswers(v))
  /\ WF_vars(SendReturns)

(***************************************************************************)
(* Properties                                                              *)
(***************************************************************************)
SlotType ==
  /\ shouldClose \in [Windows -> BOOLEAN]
  /\ hwnd \in SUBSET Windows /\ open \in SUBSET Windows /\ viewId \in SUBSET Windows
  /\ controls \in SUBSET Windows /\ keyboard \in SUBSET Windows
  /\ platform \in Windows \cup {None}
ViewType ==
  /\ stage \in [Views -> Stages]
  /\ box \in [Views -> Boxes]
  /\ registry \in SUBSET Views
  /\ adds \in SUBSET Views /\ removes \in SUBSET Views /\ engineViews \in SUBSET Views
  /\ timedOut \in SUBSET Views
TypeOK == SlotType /\ ViewType

\* A view the engine has, has its ViewSurface, unless the wait for an answer about
\* it ended without one.  (add_view_inner and remove_view against the engine's answers.)
EngineViewHasSurface == engineViews \ timedOut \subseteq registry

\* "The embedder must not destroy the underlying surface until the callback is
\* invoked with a `removed` value of `true`", time-outs included.
SurfaceKeptUntilRemoved == engineViews \subseteq registry

\* "The view should not be used until the |info.add_view_callback| is invoked
\* with an |added| value of true": a window announced as added, the engine has.
\* (add_view_inner and wait_for_add_view; add_offscreen_view does not wait.)
AddedIsInEngine == \A w \in Windows : stage[w] = "added" => w \in engineViews

\* A window that dispatches messages with its view id set forwards focus, keys
\* and pointers to a view the engine has, during the last messages that
\* DestroyWindow sends too.  (The order of the tear-down in run_window_thread.)
Dispatches(w) == stage[w] \in {"added", "unregistered"}
InputReachesLiveView ==
  \A w \in Windows : Dispatches(w) /\ w \in viewId => w \in engineViews

\* The engine answers into a sync box its caller still polls, never into a freed
\* one, time-outs aside.  (wait_for_add_view against add_view_callback and remove_view_callback; an
\* offscreen view's AddView request has no box.)
AnswerHasBox ==
  \A v \in (removes \cup (adds \cap Windows)) \ timedOut : box[v] = "waiting"

\* A window thread that ended leaves nothing behind: no controls, no keyboard
\* state, no view id, no window, and no surface but one of a view the engine still
\* has.  (Every way out of run_window_thread.  The hwnd slot is not among them: an
\* early return keeps it.)
EndedLeavesNothing ==
  \A w \in Windows : stage[w] = "ended" =>
    /\ w \notin controls \cup keyboard \cup viewId \cup open
    /\ w \in registry \ timedOut => w \in engineViews

\* The strengthening that makes the view invariants inductive: what is
\* known of the engine and the box at each stage of a view.
BeforeAsked(v) ==
  stage[v] \in {"none", "spawned", "window"} => v \notin engineViews \cup adds \cup removes
WhileAdding(v) ==
  stage[v] = "adding" =>
    /\ v \in Windows /\ v \notin removes
    /\ \/ box[v] = "waiting" /\ v \in adds
       \/ box[v] = "true" /\ v \notin adds /\ v \in engineViews
       \/ box[v] = "false" /\ v \notin adds \cup engineViews
WhileAdded(v) ==
  stage[v] = "added" => v \notin removes /\ (v \in Windows => v \in engineViews /\ v \notin adds)
WhileRemoving(v) ==
  stage[v] = "removing" =>
    \/ box[v] = "waiting" /\ v \in removes /\ (v \in Windows => v \notin adds)
    \/ box[v] \in {"true", "false"} /\ v \notin adds \cup engineViews
Requested(v) ==
  BeforeAsked(v) /\ WhileAdding(v) /\ WhileAdded(v) /\ WhileRemoving(v)
  /\ (v \in adds => v \notin engineViews)
RequestInv == \A v \in Views : Requested(v)

\* The engine's views, and those it is asked to add, have their surface, time-outs aside.
SurfaceInv == (engineViews \cup adds) \ timedOut \subseteq registry

\* Unless its caller gave up, a request is with the engine only while its caller polls.
CallerWaits(v) ==
  /\ v \in removes => stage[v] = "removing" /\ box[v] = "waiting"
  /\ v \in adds \cap Windows => stage[v] = "adding" /\ box[v] = "waiting"
WaitInv == \A v \in Views \ timedOut : CallerWaits(v)

\* The view id slot is set only from the announcement to the tear-down.
SlotInv == \A w \in viewId : stage[w] \in {"added", "removing", "removed"}

\* The strengthening of EndedLeavesNothing: what a window holds at each stage.  A
\* surface is left behind only by a RemoveView that did not start, and then the
\* engine keeps the view.
Holds(w) ==
  /\ w \in controls \cup keyboard \cup viewId => stage[w] \in {"added", "removing", "removed"}
  /\ w \in open => stage[w] \notin {"none", "spawned", "ended"}
  /\ stage[w] \in {"none", "spawned", "window"} => w \notin registry
  /\ stage[w] \in {"removed", "unregistered", "ended"} /\ w \in registry \ timedOut =>
         w \in engineViews
TearDownInv == \A w \in Windows : Holds(w)

\* A window asked to close ends, although its thread waits for the engine and
\* for the handler table, and the platform thread waits for windows.
CloseCompletes == \A w \in Windows : shouldClose[w] ~> (stage[w] = "ended")
=============================================================================
