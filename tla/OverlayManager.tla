--------------------------- MODULE OverlayManager ---------------------------
(***************************************************************************)
(* The overlay manager: which overlays exist, in which order they lie,     *)
(* which one has the keyboard, which are shown, and what the keys do.      *)
(*                                                                         *)
(* Every method of the manager runs whole under one mutex, so it is one    *)
(* action.  Nearly every caller only tries the mutex: a call that meets    *)
(* another thread inside does nothing, and an input message is then lost   *)
(* to Flutter.  A call the host makes in vain is a stutter; a key message  *)
(* lost is KeyDownMissed or KeyUpMissed.                                   *)
(*                                                                         *)
(* A key stands for a physical key with its modifiers.  Each overlay keeps *)
(* the set of keys it told its engine are pressed; the engine keeps its    *)
(* own record of the key events it was sent.  A key has at most one action *)
(* here.  Satellite windows, whose keys do not pass the manager, are left  *)
(* out.                                                                    *)
(***************************************************************************)
EXTENDS Naturals, FiniteSets, SequencesExt

CONSTANTS
  Ids,       \* identifiers the host gives its overlays
  Keys,      \* physical keys
  Bindable,  \* keys the host binds to toggles and actions
  Return,    \* the key an active text field takes for itself, or None
  KeepsUi,   \* overlays the host may keep alive while their UI is hidden
  None

ASSUME ManagerAssumption ==
  /\ None \notin Ids \cup Keys
  /\ Bindable \subseteq Keys
  /\ Return \in Keys \cup {None}
  /\ KeepsUi \subseteq Ids

VARIABLES
  active,     \* active_instances
  order,      \* overlay_order, the last is topmost
  focused,    \* focused_overlay_id
  toggles,    \* visibility_toggles: the overlay each key toggles, or None
  actions,    \* keybind_actions: keys that fire a callback
  visible,    \* FlutterOverlay::visible
  keepAlive,  \* FlutterOverlay::keep_alive
  uiHidden,   \* FlutterOverlay::ui_hidden
  text,       \* overlays with an active_text_input
  pressed,    \* pressed_keys of each overlay
  held,       \* keys the user holds down
  record,     \* keys each engine holds pressed, by the events it was sent
  event,      \* the key event the last step sent, or NoEvent
  missed      \* history: overlays not given the release of a key they were told of

overlayVars == <<visible, keepAlive, uiHidden>>
managerVars == <<active, order, focused>>
bindVars    == <<toggles, actions>>
keyVars     == <<pressed, held, record, event, missed>>
vars == <<managerVars, bindVars, overlayVars, text, keyVars>>

NoEvent == [type |-> "none", overlay |-> None, key |-> None]
Silent == event' = NoEvent

Init ==
  /\ active = {} /\ order = <<>> /\ focused = None
  /\ toggles = [k \in Bindable |-> None] /\ actions = {}
  /\ visible = {} /\ keepAlive = {} /\ uiHidden = {} /\ text = {}
  /\ pressed = [o \in Ids |-> {}] /\ record = [o \in Ids |-> {}]
  /\ held = {} /\ event = NoEvent
  /\ missed = [o \in Ids |-> {}]

(***************************************************************************)
(* Overlays come, move to the front, and go.                               *)
(***************************************************************************)
\* Vec::retain: an identifier lies in the order at most once (OrderAgrees).
Without(s, o) == RemoveFirst(s, o)
Raised(o) == Append(Without(order, o), o)

\* init for a new identifier, and add_overlay_instance.
init(o) ==
  /\ o \notin active
  /\ active' = active \cup {o}
  /\ order' = Append(order, o)
  /\ focused' = IF focused = None THEN o ELSE focused
  /\ visible' = visible \cup {o}
  /\ Silent
  /\ UNCHANGED <<bindVars, keepAlive, uiHidden, text, pressed, held, record, missed>>

\* bring_to_front; init for an identifier in use; and a pointer message that a
\* visible overlay consumes, its topmost interactive widget being hovered.
bring_to_front(o) ==
  /\ o \in active
  /\ order' = Raised(o)
  /\ Silent
  /\ UNCHANGED <<active, focused, bindVars, overlayVars, text, pressed, held, record, missed>>

set_keyboard_focus(o) ==
  /\ o \in active
  /\ focused' = o
  /\ order' = Raised(o)
  /\ Silent
  /\ UNCHANGED <<active, bindVars, overlayVars, text, pressed, held, record, missed>>

LastOf(s) == IF s = <<>> THEN None ELSE Last(s)

\* The instance is dropped with all its state; a new one starts afresh.
Dropped(o) ==
  /\ visible' = visible \ {o} /\ keepAlive' = keepAlive \ {o} /\ uiHidden' = uiHidden \ {o}
  /\ text' = text \ {o}
  /\ pressed' = [pressed EXCEPT ![o] = {}]
  /\ record' = [record EXCEPT ![o] = {}]
  /\ missed' = [missed EXCEPT ![o] = {}]

shutdown_instance(o) ==
  /\ o \in active
  /\ active' = active \ {o}
  /\ order' = Without(order, o)
  /\ focused' = IF focused = o THEN LastOf(Without(order, o)) ELSE focused
  /\ Dropped(o)
  /\ Silent
  /\ UNCHANGED <<bindVars, held>>

shutdown_all_instances ==
  /\ active' = {} /\ order' = <<>> /\ focused' = None
  /\ visible' = {} /\ keepAlive' = {} /\ uiHidden' = {} /\ text' = {}
  /\ pressed' = [o \in Ids |-> {}] /\ record' = [o \in Ids |-> {}]
  /\ missed' = [o \in Ids |-> {}]
  /\ Silent
  /\ UNCHANGED <<bindVars, held>>

(***************************************************************************)
(* What the host sets.                                                     *)
(***************************************************************************)
Switch(set, o, on) == IF on THEN set \cup {o} ELSE set \ {o}

set_visibility(o, on) ==
  /\ o \in active
  /\ visible' = Switch(visible, o, on)
  /\ Silent
  /\ UNCHANGED <<managerVars, bindVars, keepAlive, uiHidden, text, pressed, held, record, missed>>

\* Switching keep-alive on takes the UI as hidden when the overlay is.
set_keep_alive(o, on) ==
  /\ o \in active \cap KeepsUi
  /\ keepAlive' = Switch(keepAlive, o, on)
  /\ uiHidden' = IF on /\ o \notin keepAlive THEN Switch(uiHidden, o, o \notin visible)
                                             ELSE uiHidden
  /\ Silent
  /\ UNCHANGED <<managerVars, bindVars, visible, text, pressed, held, record, missed>>

set_ui_hidden(o, hidden) ==
  /\ o \in active \cap KeepsUi
  /\ uiHidden' = Switch(uiHidden, o, hidden)
  /\ Silent
  /\ UNCHANGED <<managerVars, bindVars, visible, keepAlive, text, pressed, held, record, missed>>

Bind(newToggles, newActions) ==
  /\ toggles' = newToggles /\ actions' = newActions
  /\ Silent
  /\ UNCHANGED <<managerVars, overlayVars, text, pressed, held, record, missed>>

\* The overlay need not exist.
register_visibility_toggle(k, o) == Bind([toggles EXCEPT ![k] = o], actions)
unregister_visibility_toggle(k)  == Bind([toggles EXCEPT ![k] = None], actions)
register_keybind_action(k)       == Bind(toggles, actions \cup {k})
unregister_keybind_action(k)     == Bind(toggles, actions \ {k})
rebind_keybind_action(k, to)     == k \in actions /\ Bind(toggles, (actions \ {k}) \cup {to})

\* Dart attaches a text field to its overlay or detaches it.
TextFieldFocus(o, on) ==
  /\ o \in active
  /\ text' = Switch(text, o, on)
  /\ Silent
  /\ UNCHANGED <<managerVars, bindVars, overlayVars, pressed, held, record, missed>>

(***************************************************************************)
(* A key goes down, or repeats while held: handle_input_event.             *)
(***************************************************************************)
Repeats(k) == k \in held
Toggle(k) == IF k \in Bindable THEN toggles[k] ELSE None

\* The mutex is taken, the game is not in front, or no overlay exists.
KeyDownMissed(k) ==
  /\ held' = held \cup {k}
  /\ Silent
  /\ UNCHANGED <<managerVars, bindVars, overlayVars, text, pressed, record, missed>>

\* A fresh press of the toggle key of an overlay that exists.  A kept-alive
\* overlay stays visible; only what its UI is taken for flips.
ToggleKey(k) ==
  /\ ~Repeats(k)
  /\ Toggle(k) \in active
  /\ LET o == Toggle(k)
     IN  IF o \in keepAlive
           THEN uiHidden' = Switch(uiHidden, o, o \notin uiHidden) /\ UNCHANGED visible
           ELSE visible' = Switch(visible, o, o \notin visible) /\ UNCHANGED uiHidden
  /\ held' = held \cup {k}
  /\ Silent
  /\ UNCHANGED <<managerVars, bindVars, keepAlive, text, pressed, record, missed>>

\* Neither a toggle nor an action takes the message from the focused overlay.
PassesBinds(k) ==
  /\ active # {}
  /\ Toggle(k) = None \/ (~Repeats(k) /\ Toggle(k) \notin active)
  /\ k \notin actions

\* A toggle that repeats, a key bound to an action: consumed by the manager.
BindConsumesKey(k) ==
  /\ active # {}
  /\ ~PassesBinds(k)
  /\ Repeats(k) \/ Toggle(k) \notin active
  /\ held' = held \cup {k}
  /\ Silent
  /\ UNCHANGED <<managerVars, bindVars, overlayVars, text, pressed, record, missed>>

TextTakesKey(k) == k = Return /\ focused \in text

\* An active text field inserts or performs its action; the press is not tracked.
TextFieldConsumesKey(k) ==
  /\ PassesBinds(k)
  /\ focused \in active /\ TextTakesKey(k)
  /\ held' = held \cup {k}
  /\ Silent
  /\ UNCHANGED <<managerVars, bindVars, overlayVars, text, pressed, record, missed>>

Sends(type, o, k) == event' = [type |-> type, overlay |-> o, key |-> k]

\* Mutation: repeats are not told from presses when they are tracked.
SendKeyDown_TracksRepeats(k) ==
  /\ PassesBinds(k)
  /\ focused \in active /\ ~TextTakesKey(k)
  /\ pressed' = [pressed EXCEPT ![focused] = @ \cup {k}]
  /\ IF Repeats(k)
       THEN Sends("repeat", focused, k) /\ UNCHANGED record
       ELSE /\ record' = [record EXCEPT ![focused] = @ \cup {k}]
            /\ Sends("down", focused, k)
  /\ held' = held \cup {k}
  /\ missed' = [missed EXCEPT ![focused] = @ \ {k}]
  /\ UNCHANGED <<managerVars, bindVars, overlayVars, text>>

\* The focused overlay, shown or not, tracks a fresh press and tells its engine.
SendKeyDown(k) ==
  /\ PassesBinds(k)
  /\ focused \in active /\ ~TextTakesKey(k)
  /\ IF Repeats(k)
       THEN Sends("repeat", focused, k) /\ UNCHANGED <<pressed, record, missed>>
       ELSE /\ pressed' = [pressed EXCEPT ![focused] = @ \cup {k}]
            /\ record' = [record EXCEPT ![focused] = @ \cup {k}]
            /\ missed' = [missed EXCEPT ![focused] = @ \ {k}]
            /\ Sends("down", focused, k)
  /\ held' = held \cup {k}
  /\ UNCHANGED <<managerVars, bindVars, overlayVars, text>>

(***************************************************************************)
(* A key goes up.                                                          *)
(***************************************************************************)
\* The release is not given to the overlays of `who`.
MissedBy(who, k) ==
  missed' = [o \in Ids |-> IF o \in who /\ k \in record[o] THEN missed[o] \cup {k} ELSE missed[o]]

KeyUpMissed(k) ==
  /\ k \in held /\ held' = held \ {k}
  /\ MissedBy(active, k)
  /\ Silent
  /\ UNCHANGED <<managerVars, bindVars, overlayVars, text, pressed, record>>

\* Mutation: a key-up is sent whether or not its press was tracked.
KeyUp_Untracked(k) ==
  /\ k \in held /\ held' = held \ {k}
  /\ focused \in active
  /\ MissedBy(active \ {focused}, k)
  /\ pressed' = [pressed EXCEPT ![focused] = @ \ {k}]
  /\ record' = [record EXCEPT ![focused] = @ \ {k}]
  /\ Sends("up", focused, k)
  /\ UNCHANGED <<managerVars, bindVars, overlayVars, text>>

\* Mutation: toggles take the release of their key as they take the press.
KeyUp_TogglesConsume(k) ==
  /\ k \in held /\ held' = held \ {k}
  /\ focused \in active
  /\ IF k \in pressed[focused] /\ Toggle(k) = None
       THEN /\ pressed' = [pressed EXCEPT ![focused] = @ \ {k}]
            /\ record' = [record EXCEPT ![focused] = @ \ {k}]
            /\ Sends("up", focused, k)
       ELSE Silent /\ UNCHANGED <<pressed, record>>
  /\ MissedBy(active \ {focused}, k)
  /\ UNCHANGED <<managerVars, bindVars, overlayVars, text>>

\* The focused overlay sends the release of a key whose press it sent.  Neither
\* binds nor text fields are asked.
KeyUp(k) ==
  /\ k \in held /\ held' = held \ {k}
  /\ focused \in active
  /\ IF k \in pressed[focused]
       THEN /\ pressed' = [pressed EXCEPT ![focused] = @ \ {k}]
            /\ record' = [record EXCEPT ![focused] = @ \ {k}]
            /\ Sends("up", focused, k)
       ELSE Silent /\ UNCHANGED <<pressed, record>>
  /\ MissedBy(active \ {focused}, k)
  /\ UNCHANGED <<managerVars, bindVars, overlayVars, text>>

-----------------------------------------------------------------------------
HostCall(o) ==
  \/ init(o) \/ bring_to_front(o) \/ set_keyboard_focus(o) \/ shutdown_instance(o)
  \/ \E on \in BOOLEAN :
       \/ set_visibility(o, on) \/ set_keep_alive(o, on) \/ set_ui_hidden(o, on)
       \/ TextFieldFocus(o, on)

BindCall(k) ==
  \/ \E o \in Ids : register_visibility_toggle(k, o)
  \/ unregister_visibility_toggle(k)
  \/ register_keybind_action(k) \/ unregister_keybind_action(k)
  \/ \E to \in Bindable : rebind_keybind_action(k, to)

KeyMessage(k) ==
  \/ KeyDownMissed(k) \/ ToggleKey(k) \/ BindConsumesKey(k)
  \/ TextFieldConsumesKey(k) \/ SendKeyDown(k)
  \/ KeyUpMissed(k) \/ KeyUp(k)

Next ==
  \/ \E o \in Ids : HostCall(o)
  \/ shutdown_all_instances
  \/ \E k \in Bindable : BindCall(k)
  \/ \E k \in Keys : KeyMessage(k)

Spec == Init /\ [][Next]_vars

(***************************************************************************)
(* Properties                                                              *)
(***************************************************************************)
Events ==
  {NoEvent} \cup [type : {"down", "repeat", "up"}, overlay : Ids, key : Keys]

ManagerType ==
  /\ active \in SUBSET Ids /\ order \in Seq(Ids) /\ focused \in Ids \cup {None}
  /\ toggles \in [Bindable -> Ids \cup {None}] /\ actions \in SUBSET Bindable
OverlayType ==
  /\ visible \in SUBSET active /\ keepAlive \in SUBSET active
  /\ uiHidden \in SUBSET active /\ text \in SUBSET active
KeyType ==
  /\ held \in SUBSET Keys /\ event \in Events
  /\ pressed \in [Ids -> SUBSET Keys] /\ record \in [Ids -> SUBSET Keys]
  /\ missed \in [Ids -> SUBSET Keys]
TypeOK == ManagerType /\ OverlayType /\ KeyType

\* The three views the manager keeps of its overlays agree: the order lists each
\* overlay once, and the focus is on one of them whenever there is one.
\* (add_overlay_instance, bring_to_front, shutdown_instance.)
OrderAgrees ==
  /\ Range(order) = active /\ IsInjective(order)
  /\ IF active = {} THEN focused = None ELSE focused \in active

\* What an overlay believes its engine holds pressed, the engine holds pressed,
\* across presses the manager or a text field took, moving focus and lost messages.
\* (pressed_keys in handle_keyboard_event_for_view_impl.)
KeysAgree == pressed = record

\* A release is sent only for a key whose press was sent: "zero or more repeat events,
\* and one key up event".
UpsAreRegular == [][event'.type = "up" => event'.key \in record[event'.overlay]]_vars

\* A key the user let go stays pressed in an engine only if its release never came
\* to that overlay: it was lost at the mutex or went where the focus had moved.
\* Binding the key or focusing a text field while it is held does no harm.
StuckOnlyIfMissed == \A o \in Ids : record[o] \subseteq held \cup missed[o]
=============================================================================
