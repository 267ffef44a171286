------------------------ MODULE OverlayManagerProofs ------------------------
(***************************************************************************)
(* The two ends of the keyboard: the invariants of OverlayManager for any  *)
(* overlays, keys and binds, and those of TextEditing for any windows,     *)
(* characters and values.                                                  *)
(*                                                                         *)
(* OverlayManager: first what taking an identifier out of the order and    *)
(* putting it on top do to a sequence that names each overlay once; then   *)
(* types and order together, since the next focus is read from the order;  *)
(* then the keys.  TextEditing follows, introduced where it starts.        *)
(***************************************************************************)
EXTENDS OverlayManager, TextEditing, SequenceTheorems, WellFoundedInduction, TLAPS

USE ManagerAssumption

\* A sequence of overlays that names each once.
Once(s) == s \in Seq(Ids) /\ IsInjective(s)

\* Taking out an overlay that is listed takes out one place.
LEMMA WithoutListed ==
  ASSUME NEW s, Once(s), NEW p \in 1 .. Len(s)
  PROVE  Without(s, s[p]) = RemoveAt(s, p)
<1> DEFINE I == {i \in 1 .. Len(s) : s[i] = s[p]}
<1>1. I = {p}
  BY DEF Once, IsInjective
<1>2. Min(I) = p
  BY <1>1 DEF Min
<1>3. SelectInSeq(s, LAMBDA v : v = s[p]) = Min(I)
  BY <1>1 DEF SelectInSeq
<1> QED BY <1>2, <1>3 DEF Without, RemoveFirst

\* What is left keeps its order, names each overlay once, and lacks only the one taken out.
LEMMA WithoutOnce ==
  ASSUME NEW s, Once(s), NEW o
  PROVE  Once(Without(s, o)) /\ Range(Without(s, o)) = Range(s) \ {o}
<1>1. CASE o \notin Range(s)
  <2>1. Without(s, o) = s
    BY <1>1 DEF Without, RemoveFirst, Range, Once
  <2> QED BY <1>1, <2>1
<1>2. CASE o \in Range(s)
  <2>1. PICK p \in 1 .. Len(s) : s[p] = o
    BY <1>2 DEF Range, Once
  <2> DEFINE n == Len(s)
             t == RemoveAt(s, p)
  <2>2. n \in Nat /\ p \in Int /\ \A i \in 1 .. n : s[i] \in Ids
    BY ElementOfSeq DEF Once
  <2>3. /\ SubSeq(s, 1, p - 1) \in Seq(Ids) /\ Len(SubSeq(s, 1, p - 1)) = p - 1
        /\ \A i \in 1 .. p - 1 : SubSeq(s, 1, p - 1)[i] = s[i]
    BY <2>2, SubSeqProperties
  <2>4. /\ SubSeq(s, p + 1, n) \in Seq(Ids) /\ Len(SubSeq(s, p + 1, n)) = n - p
        /\ \A i \in 1 .. n - p : SubSeq(s, p + 1, n)[i] = s[p + i]
    BY <2>2, SubSeqProperties
  <2>5. /\ t \in Seq(Ids) /\ Len(t) = n - 1
        /\ \A i \in 1 .. n - 1 : t[i] = IF i <= p - 1 THEN s[i] ELSE s[i + 1]
    <3> DEFINE u == SubSeq(s, 1, p - 1)
               v == SubSeq(s, p + 1, n)
    <3>1. t = u \o v
      BY DEF RemoveAt
    <3>2. /\ u \in Seq(Ids) /\ Len(u) = p - 1 /\ \A i \in 1 .. p - 1 : u[i] = s[i]
          /\ v \in Seq(Ids) /\ Len(v) = n - p /\ \A i \in 1 .. n - p : v[i] = s[p + i]
      BY <2>3, <2>4
    <3> HIDE DEF u, v, n
    <3>3. u \in Seq(Ids) /\ v \in Seq(Ids)
      BY <3>2
    <3>4. /\ u \o v \in Seq(Ids) /\ Len(u \o v) = Len(u) + Len(v)
          /\ \A i \in 1 .. Len(u) + Len(v) :
                (u \o v)[i] = IF i <= Len(u) THEN u[i] ELSE v[i - Len(u)]
      BY <3>3, ConcatProperties
    <3>5. Len(u) + Len(v) = n - 1 /\ p \in 1 .. n
      BY <2>2, <3>2 DEF n
    <3>6. /\ u \o v \in Seq(Ids) /\ Len(u \o v) = n - 1
          /\ \A i \in 1 .. n - 1 : (u \o v)[i] = IF i <= p - 1 THEN u[i] ELSE v[i - (p - 1)]
      BY <3>2, <3>4, <3>5
    <3>7. \A i \in 1 .. n - 1 : i > p - 1 => v[i - (p - 1)] = s[i + 1]
      BY <2>2, <3>2, <3>5
    <3> QED BY <2>2, <3>2, <3>1, <3>6, <3>7, <3>5 DEF t
  <2>6. DOMAIN t = 1 .. n - 1
    BY <2>2, <2>5
  <2> HIDE DEF t
  <2>7. IsInjective(t)
    <3>1. \A i, j \in 1 .. n : s[i] = s[j] => i = j
      BY DEF Once, IsInjective
    <3>2. \A i, j \in 1 .. n - 1 : t[i] = t[j] => i = j
      BY <2>2, <2>5, <3>1
    <3> QED BY <2>6, <3>2 DEF IsInjective
  <2>8. Range(t) = Range(s) \ {o}
    <3>1. \A i \in 1 .. n : i # p => s[i] # o
      BY <2>1 DEF Once, IsInjective
    <3>2. \A i \in 1 .. n - 1 : t[i] \in Range(s) \ {o}
      BY <2>2, <2>5, <3>1 DEF Range, Once
    <3>3. \A i \in 1 .. n : i < p => s[i] = t[i]
      BY <2>2, <2>5
    <3>4. \A i \in 1 .. n : i > p => s[i] = t[i - 1]
      BY <2>2, <2>5
    <3>5. ASSUME NEW x \in Range(s) \ {o} PROVE \E i \in 1 .. n - 1 : x = t[i]
      <4>1. PICK i \in 1 .. n : s[i] = x
        BY DEF Range, Once
      <4>2. CASE i < p BY <2>2, <3>3, <4>1, <4>2
      <4>3. CASE i > p
        <5>1. i - 1 \in 1 .. n - 1 BY <2>2, <4>3
        <5> QED BY <3>4, <4>1, <4>3, <5>1
      <4>4. i # p BY <2>1, <4>1
      <4> QED BY <2>2, <4>2, <4>3, <4>4
    <3>6. Range(t) = {t[i] : i \in 1 .. n - 1}
      BY <2>6 DEF Range
    <3>7. Range(t) \subseteq Range(s) \ {o}
      BY <3>2, <3>6
    <3>8. Range(s) \ {o} \subseteq Range(t)
      BY <3>5, <3>6
    <3> QED BY <3>7, <3>8
  <2>9. Without(s, o) = t
    BY <2>1, WithoutListed DEF t
  <2> QED BY <2>5, <2>7, <2>8, <2>9 DEF Once
<1> QED BY <1>1, <1>2

\* An overlay that is not listed is put on top.
LEMMA AppendOnce ==
  ASSUME NEW s, Once(s), NEW o \in Ids, o \notin Range(s)
  PROVE  Once(Append(s, o)) /\ Range(Append(s, o)) = Range(s) \cup {o}
<1>1. /\ Append(s, o) \in Seq(Ids) /\ Len(Append(s, o)) = Len(s) + 1 /\ Len(s) \in Nat
      /\ \A i \in 1 .. Len(s) : Append(s, o)[i] = s[i]
      /\ Append(s, o)[Len(s) + 1] = o
  BY AppendProperties DEF Once
<1>2. IsInjective(Append(s, o))
  BY <1>1 DEF Once, IsInjective, Range
<1>3. Range(Append(s, o)) = Range(s) \cup {o}
  BY <1>1 DEF Once, Range
<1> QED BY <1>1, <1>2, <1>3 DEF Once

\* The last of a sequence is listed, if anything is.
LEMMA LastListed ==
  ASSUME NEW s, Once(s)
  PROVE  IF Range(s) = {} THEN LastOf(s) = None ELSE LastOf(s) \in Range(s)
BY ElementOfSeq, EmptySeq DEF Once, Range, LastOf, Last

-----------------------------------------------------------------------------
(* Types, and the agreement of order, focus and table.                     *)

ManagerInv == TypeOK /\ OrderAgrees

\* What ManagerInv says of the order alone.
LEMMA OrderOnce ==
  ASSUME ManagerInv
  PROVE  Once(order) /\ Range(order) = active
BY DEF ManagerInv, OrderAgrees, TypeOK, ManagerType, Once

\* The order after an overlay was raised names the same overlays.
LEMMA RaisedOnce ==
  ASSUME ManagerInv, NEW o \in active
  PROVE  Once(Raised(o)) /\ Range(Raised(o)) = active
<1>1. o \in Ids
  BY DEF ManagerInv, TypeOK, ManagerType
<1>2. Once(Without(order, o)) /\ Range(Without(order, o)) = active \ {o}
  BY OrderOnce, WithoutOnce
<1>3. Once(Raised(o)) /\ Range(Raised(o)) = (active \ {o}) \cup {o}
  BY <1>1, <1>2, AppendOnce DEF Raised
<1> QED BY <1>3

LEMMA InitManager == Init => ManagerInv
<1> SUFFICES ASSUME Init PROVE ManagerInv
  OBVIOUS
<1>1. ManagerType /\ OrderAgrees
  BY EmptySeq DEF Init, ManagerType, OrderAgrees, Range, IsInjective
<1>2. OverlayType
  BY DEF Init, OverlayType
<1>3. KeyType
  BY DEF Init, KeyType, Events
<1> QED BY <1>1, <1>2, <1>3 DEF ManagerInv, TypeOK

\* Focus and order stay in agreement whatever the host calls.
LEMMA HostCallKeepsOrder ==
  ASSUME ManagerInv, NEW o \in Ids, HostCall(o)
  PROVE  active' \in SUBSET Ids /\ Once(order') /\ OrderAgrees' /\ focused' \in Ids \cup {None}
<1>0. /\ active \in SUBSET Ids /\ focused \in Ids \cup {None} /\ Once(order)
      /\ Range(order) = active /\ OrderAgrees
  BY OrderOnce DEF ManagerInv, TypeOK, ManagerType
<1>1. CASE init(o)
  <2>1. Once(order') /\ Range(order') = active'
    BY <1>0, <1>1, AppendOnce DEF init
  <2> QED BY <1>0, <1>1, <2>1 DEF init, OrderAgrees, Once
<1>2. CASE bring_to_front(o)
  <2>1. Once(order') /\ Range(order') = active'
    BY <1>2, RaisedOnce DEF bring_to_front
  <2> QED BY <1>0, <1>2, <2>1 DEF bring_to_front, OrderAgrees, Once
<1>3. CASE set_keyboard_focus(o)
  <2>1. Once(order') /\ Range(order') = active'
    BY <1>3, RaisedOnce DEF set_keyboard_focus
  <2> QED BY <1>0, <1>3, <2>1 DEF set_keyboard_focus, OrderAgrees, Once
<1>4. CASE shutdown_instance(o)
  <2>1. Once(order') /\ Range(order') = active'
    BY <1>0, <1>4, WithoutOnce DEF shutdown_instance
  <2>2. IF active' = {} THEN LastOf(order') = None ELSE LastOf(order') \in active'
    BY <2>1, LastListed
  <2> QED BY <1>0, <1>4, <2>1, <2>2 DEF shutdown_instance, OrderAgrees, Once
<1>5. CASE UNCHANGED managerVars
  BY <1>0, <1>5 DEF managerVars, OrderAgrees
<1> QED BY <1>1, <1>2, <1>3, <1>4, <1>5
    DEF HostCall, set_visibility, set_keep_alive, set_ui_hidden, TextFieldFocus

\* Binds, keys and stutters leave the manager's tables alone.
LEMMA OrderSteps ==
  ASSUME ManagerInv, [Next]_vars
  PROVE  \/ \E o \in Ids : HostCall(o)
         \/ shutdown_all_instances
         \/ UNCHANGED managerVars
<1> USE DEF managerVars, vars
<1>1. ASSUME NEW k \in Bindable, BindCall(k) PROVE UNCHANGED managerVars
  BY <1>1 DEF BindCall, Bind, register_visibility_toggle, unregister_visibility_toggle,
    register_keybind_action, unregister_keybind_action, rebind_keybind_action
<1>2. ASSUME NEW k \in Keys, KeyMessage(k) PROVE UNCHANGED managerVars
  BY <1>2 DEF KeyMessage, KeyDownMissed, ToggleKey, BindConsumesKey, TextFieldConsumesKey,
    SendKeyDown, KeyUpMissed, KeyUp
<1> QED BY <1>1, <1>2 DEF Next

LEMMA StepOrder ==
  ASSUME ManagerInv, [Next]_vars
  PROVE  active' \in SUBSET Ids /\ Once(order') /\ OrderAgrees' /\ focused' \in Ids \cup {None}
<1>1. CASE \E o \in Ids : HostCall(o)
  BY <1>1, HostCallKeepsOrder
<1>2. CASE shutdown_all_instances
  BY <1>2, EmptySeq DEF shutdown_all_instances, Once, OrderAgrees, Range, IsInjective
<1>3. CASE UNCHANGED managerVars
  BY <1>3 DEF managerVars, ManagerInv, TypeOK, ManagerType, Once, OrderAgrees
<1> QED BY <1>1, <1>2, <1>3, OrderSteps

LEMMA StepManager ==
  ASSUME ManagerInv, [Next]_vars
  PROVE  ManagerInv'
<1>0. active' \in SUBSET Ids /\ order' \in Seq(Ids) /\ focused' \in Ids \cup {None} /\ OrderAgrees'
  BY StepOrder DEF Once
<1> USE DEF ManagerInv, TypeOK, ManagerType, OverlayType, KeyType, Events, NoEvent, Silent,
        managerVars, bindVars, overlayVars, keyVars
<1>1. ASSUME NEW o \in Ids, HostCall(o) PROVE TypeOK'
  <2>1. CASE init(o) BY <1>0, <2>1 DEF init
  <2>2. CASE bring_to_front(o) BY <1>0, <2>2 DEF bring_to_front
  <2>3. CASE set_keyboard_focus(o) BY <1>0, <2>3 DEF set_keyboard_focus
  <2>4. CASE shutdown_instance(o) BY <1>0, <2>4 DEF shutdown_instance, Dropped
  <2>5. ASSUME NEW on \in BOOLEAN, set_visibility(o, on) PROVE TypeOK'
    BY <1>0, <2>5 DEF set_visibility, Switch
  <2>6. ASSUME NEW on \in BOOLEAN, set_keep_alive(o, on) PROVE TypeOK'
    BY <1>0, <2>6 DEF set_keep_alive, Switch
  <2>7. ASSUME NEW on \in BOOLEAN, set_ui_hidden(o, on) PROVE TypeOK'
    BY <1>0, <2>7 DEF set_ui_hidden, Switch
  <2>8. ASSUME NEW on \in BOOLEAN, TextFieldFocus(o, on) PROVE TypeOK'
    BY <1>0, <2>8 DEF TextFieldFocus, Switch
  <2> QED BY <1>1, <2>1, <2>2, <2>3, <2>4, <2>5, <2>6, <2>7, <2>8 DEF HostCall
<1>2. CASE shutdown_all_instances
  BY <1>0, <1>2 DEF shutdown_all_instances
<1>3. ASSUME NEW k \in Bindable, BindCall(k) PROVE TypeOK'
  BY <1>0, <1>3 DEF BindCall, Bind, register_visibility_toggle, unregister_visibility_toggle,
    register_keybind_action, unregister_keybind_action, rebind_keybind_action
<1>4. ASSUME NEW k \in Keys, KeyMessage(k) PROVE TypeOK'
  <2> USE DEF MissedBy, Sends
  <2>1. CASE KeyDownMissed(k) BY <1>0, <2>1 DEF KeyDownMissed
  <2>2. CASE ToggleKey(k) BY <1>0, <2>2 DEF ToggleKey, Switch
  <2>3. CASE BindConsumesKey(k) BY <1>0, <2>3 DEF BindConsumesKey
  <2>4. CASE TextFieldConsumesKey(k) BY <1>0, <2>4 DEF TextFieldConsumesKey
  <2>5. CASE SendKeyDown(k) BY <1>0, <2>5 DEF SendKeyDown
  <2>6. CASE KeyUpMissed(k) BY <1>0, <2>6 DEF KeyUpMissed
  <2>7. CASE KeyUp(k) BY <1>0, <2>7 DEF KeyUp
  <2> QED BY <1>4, <2>1, <2>2, <2>3, <2>4, <2>5, <2>6, <2>7 DEF KeyMessage
<1>5. CASE UNCHANGED vars
  <2>1. UNCHANGED <<toggles, actions, visible, active, keepAlive, uiHidden, text, held, event,
                    pressed, record, missed>>
    BY <1>5 DEF vars
  <2> QED BY <1>0, <2>1
<1> QED BY <1>0, <1>1, <1>2, <1>3, <1>4, <1>5 DEF Next

LEMMA ManagerInvariant == Spec => []ManagerInv
<1>1. ManagerInv /\ [Next]_vars => ManagerInv'
  BY StepManager
<1> QED BY InitManager, <1>1, PTL DEF Spec

\* Every variable of the manager stays in its range; nothing is kept of an overlay
\* that is not in the table.
THEOREM TypeCorrect == Spec => []TypeOK
<1>1. ManagerInv => TypeOK
  BY DEF ManagerInv
<1> QED BY ManagerInvariant, <1>1, PTL

\* Table, order and focus agree after any calls, for any number of overlays.
THEOREM OrderCorrect == Spec => []OrderAgrees
<1>1. ManagerInv => OrderAgrees
  BY DEF ManagerInv
<1> QED BY ManagerInvariant, <1>1, PTL

-----------------------------------------------------------------------------
(* Keys.                                                                   *)

\* Nothing is left of the keys of an overlay that is gone.
GoneForgotten == \A o \in Ids \ active : record[o] = {}
KeyInv == ManagerInv /\ KeysAgree /\ StuckOnlyIfMissed /\ GoneForgotten

\* Only keys and the end of an overlay touch what is known of the keys.
LEMMA KeySteps ==
  ASSUME [Next]_vars
  PROVE  \/ \E k \in Keys : KeyMessage(k)
         \/ \E o \in Ids : shutdown_instance(o)
         \/ shutdown_all_instances
         \/ UNCHANGED <<pressed, held, record, missed>> /\ (Silent \/ UNCHANGED event)
<1> USE DEF keyVars
<1>1. ASSUME NEW k \in Bindable, BindCall(k)
      PROVE  UNCHANGED <<pressed, held, record, missed>> /\ Silent
  BY <1>1 DEF BindCall, Bind, register_visibility_toggle, unregister_visibility_toggle,
    register_keybind_action, unregister_keybind_action, rebind_keybind_action
<1>2. ASSUME NEW o \in Ids, HostCall(o)
      PROVE  shutdown_instance(o) \/ (UNCHANGED <<pressed, held, record, missed>> /\ Silent)
  BY <1>2 DEF HostCall, init, bring_to_front, set_keyboard_focus, set_visibility,
    set_keep_alive, set_ui_hidden, TextFieldFocus
<1>3. CASE UNCHANGED vars
  BY <1>3 DEF vars
<1> QED BY <1>1, <1>2, <1>3 DEF Next

LEMMA StepKeys ==
  ASSUME KeyInv, [Next]_vars
  PROVE  (KeysAgree /\ StuckOnlyIfMissed)'
<1>1. /\ pressed \in [Ids -> SUBSET Keys] /\ record = pressed /\ missed \in [Ids -> SUBSET Keys]
      /\ \A o \in Ids : pressed[o] \subseteq held \cup missed[o]
      /\ \A o \in Ids \ active : pressed[o] = {}
  BY DEF KeyInv, ManagerInv, TypeOK, KeyType, KeysAgree, StuckOnlyIfMissed, GoneForgotten
<1> USE DEF KeysAgree, StuckOnlyIfMissed
<1>2. ASSUME NEW k \in Keys, KeyMessage(k) PROVE (KeysAgree /\ StuckOnlyIfMissed)'
  <2>1. CASE KeyDownMissed(k) BY <1>1, <2>1 DEF KeyDownMissed
  <2>2. CASE ToggleKey(k) BY <1>1, <2>2 DEF ToggleKey
  <2>3. CASE BindConsumesKey(k) BY <1>1, <2>3 DEF BindConsumesKey
  <2>4. CASE TextFieldConsumesKey(k) BY <1>1, <2>4 DEF TextFieldConsumesKey
  <2>5. CASE SendKeyDown(k)
    <3>1. KeysAgree' BY <1>1, <2>5 DEF SendKeyDown
    <3>2. held' = held \cup {k} BY <2>5 DEF SendKeyDown
    <3>3. ASSUME NEW o \in Ids PROVE record'[o] \subseteq held' \cup missed'[o]
      BY <1>1, <2>5, <3>2 DEF SendKeyDown
    <3> QED BY <3>1, <3>3
  <2>6. CASE KeyUpMissed(k)
    <3>1. held' = held \ {k} /\ UNCHANGED <<pressed, record>>
      BY <2>6 DEF KeyUpMissed
    <3>2. ASSUME NEW o \in Ids, NEW j \in record[o] PROVE j \in held' \cup missed'[o]
      <4>1. missed'[o] = IF o \in active /\ k \in record[o] THEN missed[o] \cup {k} ELSE missed[o]
        BY <2>6 DEF KeyUpMissed, MissedBy
      <4>2. o \in active
        BY <1>1, <3>2
      <4> QED BY <1>1, <3>1, <3>2, <4>1, <4>2
    <3> QED BY <1>1, <3>1, <3>2
  <2>7. CASE KeyUp(k)
    <3>1. held' = held \ {k} /\ focused \in active
      BY <2>7 DEF KeyUp
    <3>2. /\ KeysAgree'
          /\ \A o \in Ids : record'[o] \subseteq record[o]
          /\ k \notin record'[focused]
      <4>1. CASE k \in pressed[focused]
        <5>1. /\ pressed' = [pressed EXCEPT ![focused] = @ \ {k}]
              /\ record' = [record EXCEPT ![focused] = @ \ {k}]
          BY <2>7, <4>1 DEF KeyUp
        <5>2. focused \in Ids
          BY <3>1 DEF KeyInv, ManagerInv, TypeOK, ManagerType
        <5> QED BY <1>1, <5>1, <5>2
      <4>2. CASE k \notin pressed[focused]
        <5>1. UNCHANGED <<pressed, record>>
          BY <2>7, <4>2 DEF KeyUp
        <5> QED BY <1>1, <4>2, <5>1
      <4> QED BY <4>1, <4>2
    <3>3. ASSUME NEW o \in Ids, NEW j \in record'[o] PROVE j \in held' \cup missed'[o]
      <4>1. missed'[o] = IF o \in active \ {focused} /\ k \in record[o]
                           THEN missed[o] \cup {k} ELSE missed[o]
        BY <2>7 DEF KeyUp, MissedBy
      <4>2. o \in active /\ j \in record[o] /\ (o = focused => j # k)
        BY <1>1, <3>1, <3>2, <3>3
      <4> QED BY <1>1, <3>1, <4>1, <4>2
    <3> QED BY <3>2, <3>3
  <2> QED BY <1>2, <2>1, <2>2, <2>3, <2>4, <2>5, <2>6, <2>7 DEF KeyMessage
<1>3. ASSUME NEW o \in Ids, shutdown_instance(o) PROVE (KeysAgree /\ StuckOnlyIfMissed)'
  BY <1>1, <1>3 DEF shutdown_instance, Dropped
<1>4. ASSUME shutdown_all_instances PROVE (KeysAgree /\ StuckOnlyIfMissed)'
  BY <1>4 DEF shutdown_all_instances
<1>5. ASSUME UNCHANGED <<pressed, held, record, missed>> PROVE (KeysAgree /\ StuckOnlyIfMissed)'
  BY <1>1, <1>5
<1> QED BY <1>2, <1>3, <1>4, <1>5, KeySteps

LEMMA StepForgotten ==
  ASSUME KeyInv, [Next]_vars
  PROVE  GoneForgotten'
<1>1. /\ record \in [Ids -> SUBSET Keys]
      /\ \A o \in Ids \ active : record[o] = {}
  BY DEF KeyInv, ManagerInv, TypeOK, KeyType, GoneForgotten
<1> USE DEF GoneForgotten, managerVars
<1>2. ASSUME NEW k \in Keys, KeyMessage(k) PROVE GoneForgotten'
  BY <1>1, <1>2 DEF KeyMessage, KeyDownMissed, ToggleKey, BindConsumesKey,
    TextFieldConsumesKey, SendKeyDown, KeyUpMissed, KeyUp
<1>3. ASSUME NEW o \in Ids, shutdown_instance(o) PROVE GoneForgotten'
  BY <1>1, <1>3 DEF shutdown_instance, Dropped
<1>4. ASSUME shutdown_all_instances PROVE GoneForgotten'
  BY <1>4 DEF shutdown_all_instances
<1>5. ASSUME UNCHANGED record, active \subseteq active' PROVE GoneForgotten'
  BY <1>1, <1>5
<1>6. ASSUME NEW o \in Ids, HostCall(o) PROVE shutdown_instance(o) \/ active \subseteq active'
  BY <1>6 DEF HostCall, init, bring_to_front, set_keyboard_focus, set_visibility,
    set_keep_alive, set_ui_hidden, TextFieldFocus
<1>7. (\E o \in Ids : shutdown_instance(o)) \/ shutdown_all_instances \/ active \subseteq active'
  BY <1>6, OrderSteps DEF KeyInv
<1> QED BY <1>2, <1>3, <1>4, <1>5, <1>7, KeySteps

LEMMA KeyInvariant == Spec => []KeyInv
<1>1. Init => KeyInv
  BY InitManager DEF Init, KeyInv, KeysAgree, StuckOnlyIfMissed, GoneForgotten
<1>2. KeyInv /\ [Next]_vars => KeyInv'
  BY StepManager, StepKeys, StepForgotten DEF KeyInv
<1> QED BY <1>1, <1>2, PTL DEF Spec

\* An overlay and its engine agree on the pressed keys through lost messages, moving
\* focus, toggles, binds and text fields.
THEOREM KeysCorrect == Spec => []KeysAgree
<1>1. KeyInv => KeysAgree
  BY DEF KeyInv
<1> QED BY KeyInvariant, <1>1, PTL

\* A key is stuck in an engine only when its release never came to that overlay.
THEOREM StuckCorrect == Spec => []StuckOnlyIfMissed
<1>1. KeyInv => StuckOnlyIfMissed
  BY DEF KeyInv
<1> QED BY KeyInvariant, <1>1, PTL

\* No engine is sent the release of a key it does not hold pressed.
THEOREM UpsCorrect == Spec => UpsAreRegular
<1> DEFINE Regular == event'.type = "up" => event'.key \in record[event'.overlay]
<1>1. ASSUME KeyInv, Next PROVE Regular \/ UNCHANGED vars
  <2> USE DEF KeyInv, KeysAgree, Silent, NoEvent, Sends
  <2>1. ASSUME NEW k \in Keys, KeyMessage(k) PROVE Regular
    <3>1. CASE SendKeyDown(k) BY <3>1 DEF SendKeyDown
    <3>2. CASE KeyUp(k)
      <4>1. Silent \/ (Sends("up", focused, k) /\ k \in pressed[focused])
        BY <3>2 DEF KeyUp
      <4> QED BY <1>1, <4>1
    <3> QED BY <2>1, <3>1, <3>2 DEF KeyMessage, KeyDownMissed, ToggleKey, BindConsumesKey,
          TextFieldConsumesKey, KeyUpMissed
  <2>2. ASSUME ~\E k \in Keys : KeyMessage(k) PROVE Silent
    BY <1>1, <2>2 DEF Next, HostCall, BindCall, Bind, register_visibility_toggle,
      unregister_visibility_toggle, register_keybind_action, unregister_keybind_action,
      rebind_keybind_action, init, bring_to_front, set_keyboard_focus, shutdown_instance,
      shutdown_all_instances, set_visibility, set_keep_alive, set_ui_hidden, TextFieldFocus
  <2> QED BY <2>1, <2>2
<1>2. KeyInv /\ [Next]_vars => [Regular]_vars
  BY <1>1
<1> QED BY KeyInvariant, <1>2, PTL DEF Spec, UpsAreRegular

-----------------------------------------------------------------------------
(***************************************************************************)
(* TextEditing.  A text's bytes and its code units are sums over its       *)
(* characters.  Both grow with every character, so the two ways to count   *)
(* are inverse at the boundaries of characters: what Flutter is sent of a  *)
(* model comes back as that model (RoundTrip).  With that, TextInv types   *)
(* the state and keeps offsets at boundaries; FieldInv relates the slot to *)
(* the focus through the calls under way, CopyInv the model to Flutter's   *)
(* value through the messages under way.                                   *)
(***************************************************************************)

\* Induction over the naturals, of a set rather than of a predicate.
LEMMA SetInduction ==
  ASSUME NEW T, 0 \in T, \A n \in Nat : n \in T => n + 1 \in T
  PROVE  Nat \subseteq T
<1> DEFINE outside == Nat \ T
<1> SUFFICES ASSUME outside # {} PROVE FALSE
  OBVIOUS
<1>1. PICK x \in outside : \A y \in outside : ~ (<<y, x>> \in OpToRel(<, Nat))
  BY NatLessThanWellFounded, WFMin
<1>2. x # 0 /\ x - 1 \in Nat
  OBVIOUS
<1>3. <<x - 1, x>> \in OpToRel(<, Nat)
  BY <1>2 DEF OpToRel
<1>4. x - 1 \in T
  BY <1>1, <1>2, <1>3
<1> QED BY <1>2, <1>4

\* A set of naturals with a member has a least one.
LEMMA HasLeast ==
  ASSUME NEW s \in SUBSET Nat, s # {}
  PROVE  Min(s) \in s /\ \A y \in s : Min(s) <= y
<1>1. PICK x \in s : \A y \in s : ~ (<<y, x>> \in OpToRel(<, Nat))
  BY NatLessThanWellFounded, WFMin
<1>2. ASSUME NEW y \in s PROVE x <= y
  <2>1. x \in Nat /\ y \in Nat
    OBVIOUS
  <2>2. y < x => <<y, x>> \in OpToRel(<, Nat)
    BY <2>1 DEF OpToRel
  <2>3. ~ (y < x)
    BY <1>1, <2>2
  <2> QED BY <2>1, <2>3
<1>3. \E z \in s : \A y \in s : z <= y
  BY <1>2
<1> QED BY <1>3, Zenon DEF Min

\* A set of naturals with a bound has a greatest one.
LEMMA HasGreatest ==
  ASSUME NEW n \in Nat, NEW s \in SUBSET (0 .. n), s # {}
  PROVE  Max(s) \in s /\ \A y \in s : y <= Max(s)
<1> DEFINE above == {u \in Nat : \A y \in s : y <= u}
<1>1. above \in SUBSET Nat /\ n \in above
  OBVIOUS
<1> DEFINE x == Min(above)
<1>2. x \in above /\ \A u \in above : x <= u
  <2> HIDE DEF above
  <2> QED BY <1>1, HasLeast
<1> HIDE DEF x
<1>3. x \in s
  <2> SUFFICES ASSUME x \notin s PROVE FALSE
    OBVIOUS
  <2>1. \A y \in s : y < x /\ y \in Nat
    BY <1>2
  <2>2. x \in Nat /\ x # 0
    <3>1. x \in Nat
      BY <1>2
    <3>2. PICK y \in s : TRUE
      OBVIOUS
    <3>3. y < x /\ y \in Nat
      BY <2>1
    <3> QED BY <3>1, <3>3
  <2>3. x - 1 \in above
    BY <2>1, <2>2
  <2>4. x <= x - 1
    BY <1>2, <2>3
  <2> QED BY <2>2, <2>4
<1>4. \A y \in s : x >= y
  BY <1>2
<1>5. \E z \in s : \A y \in s : z >= y
  BY <1>3, <1>4
<1>6. Max(s) \in s /\ \A y \in s : Max(s) >= y
  BY <1>5, Zenon DEF Max
<1> QED BY <1>6

\* c sums the weights w over every set of places, from the last place down, as FoldLeft does.
IsCount(w, n, c) ==
  c = [s \in SUBSET (1 .. n) |-> IF s = {} THEN 0 ELSE c[s \ {Max(s)}] + w[Max(s)]]

\* Without its last place a set of places is one of fewer places.
LEMMA LastTaken ==
  ASSUME NEW n \in Nat, NEW s \in SUBSET (1 .. n + 1), s # {}
  PROVE  Max(s) \in 1 .. n + 1 /\ s \ {Max(s)} \in SUBSET (1 .. n)
<1>1. Max(s) \in s /\ \A y \in s : y <= Max(s)
  <2>1. s \in SUBSET (0 .. n + 1) /\ n + 1 \in Nat
    OBVIOUS
  <2> QED BY <2>1, HasGreatest
<1>2. ASSUME NEW y \in s \ {Max(s)} PROVE y \in 1 .. n
  <2>1. y \in 1 .. n + 1 /\ Max(s) \in 1 .. n + 1 /\ y <= Max(s) /\ y # Max(s)
    BY <1>1
  <2> HIDE <1>1
  <2> QED BY <2>1
<1> QED BY <1>1, <1>2

\* Such sums exist.
LEMMA CountExists ==
  ASSUME NEW n \in Nat, NEW w
  PROVE  \E c : IsCount(w, n, c)
<1> DEFINE T == {m \in Nat : \E c : IsCount(w, m, c)}
<1>1. 0 \in T
  <2>1. SUBSET (1 .. 0) = {{}}
    OBVIOUS
  <2>2. [s \in SUBSET (1 .. 0) |-> 0] =
          [s \in SUBSET (1 .. 0) |->
             IF s = {} THEN 0
             ELSE [r \in SUBSET (1 .. 0) |-> 0][s \ {Max(s)}] + w[Max(s)]]
    BY <2>1
  <2>3. IsCount(w, 0, [s \in SUBSET (1 .. 0) |-> 0])
    BY <2>2 DEF IsCount
  <2> QED BY <2>3
<1>2. ASSUME NEW m \in Nat, m \in T PROVE m + 1 \in T
  <2>1. PICK c : IsCount(w, m, c)
    BY <1>2
  <2> DEFINE d == [s \in SUBSET (1 .. m + 1) |->
                    IF s \in SUBSET (1 .. m) THEN c[s] ELSE c[s \ {Max(s)}] + w[Max(s)]]
  <2>2. \A s \in SUBSET (1 .. m) : c[s] = IF s = {} THEN 0 ELSE c[s \ {Max(s)}] + w[Max(s)]
    <3>1. c = [s \in SUBSET (1 .. m) |-> IF s = {} THEN 0 ELSE c[s \ {Max(s)}] + w[Max(s)]]
      BY <2>1 DEF IsCount
    <3> QED BY <3>1
  <2>3. ASSUME NEW s \in SUBSET (1 .. m + 1)
        PROVE  d[s] = IF s = {} THEN 0 ELSE d[s \ {Max(s)}] + w[Max(s)]
    <3>1. CASE s = {}
      <4>1. s \in SUBSET (1 .. m)
        BY <3>1
      <4>2. d[s] = c[s]
        BY <4>1
      <4> HIDE DEF d
      <4> QED BY <2>2, <3>1, <4>1, <4>2
    <3>2. CASE s # {}
      <4> DEFINE rest == s \ {Max(s)}
      <4>1. rest \in SUBSET (1 .. m) /\ rest \in SUBSET (1 .. m + 1)
        BY <3>2, LastTaken
      <4>2. d[rest] = c[rest]
        <5> HIDE DEF rest
        <5> QED BY <4>1
      <4>3. d[s] = c[rest] + w[Max(s)]
        <5>1. s \in SUBSET (1 .. m) => c[s] = c[rest] + w[Max(s)]
          BY <2>2, <3>2
        <5>2. d[s] = IF s \in SUBSET (1 .. m) THEN c[s] ELSE c[rest] + w[Max(s)]
          BY <2>3
        <5> HIDE DEF d, rest
        <5> QED BY <5>1, <5>2
      <4> HIDE DEF d
      <4> QED BY <3>2, <4>2, <4>3
    <3> QED BY <3>1, <3>2
  <2>4. IsCount(w, m + 1, d)
    <3>1. d = [s \in SUBSET (1 .. m + 1) |-> d[s]]
      OBVIOUS
    <3> HIDE DEF d
    <3> QED BY <2>3, <3>1, Zenon DEF IsCount
  <2> HIDE DEF d
  <2> QED BY <2>4
<1> HIDE DEF T
<1>3. Nat \subseteq T
  BY <1>1, <1>2, SetInduction
<1> QED BY <1>3 DEF T

\* Over the first m places it is the sum of their weights.
LEMMA CountSteps ==
  ASSUME NEW n \in Nat, NEW w, NEW c, IsCount(w, n, c)
  PROVE  c[1 .. 0] = 0 /\ \A m \in 0 .. n - 1 : c[1 .. m + 1] = c[1 .. m] + w[m + 1]
<1>1. \A s \in SUBSET (1 .. n) : c[s] = IF s = {} THEN 0 ELSE c[s \ {Max(s)}] + w[Max(s)]
  <2>1. c = [s \in SUBSET (1 .. n) |-> IF s = {} THEN 0 ELSE c[s \ {Max(s)}] + w[Max(s)]]
    BY DEF IsCount
  <2> QED BY <2>1
<1>2. 1 .. 0 = {} /\ 1 .. 0 \in SUBSET (1 .. n)
  OBVIOUS
<1>3. ASSUME NEW m \in 0 .. n - 1 PROVE c[1 .. m + 1] = c[1 .. m] + w[m + 1]
  <2> DEFINE s == 1 .. m + 1
  <2>1. s \in SUBSET (1 .. n) /\ s # {} /\ s \in SUBSET (0 .. n)
    OBVIOUS
  <2>2. Max(s) \in s /\ \A y \in s : y <= Max(s)
    <3> HIDE DEF s
    <3> QED BY <2>1, HasGreatest
  <2>3. Max(s) = m + 1
    <3>1. m + 1 \in s
      OBVIOUS
    <3>2. Max(s) \in 1 .. m + 1 /\ m + 1 <= Max(s)
      BY <2>2, <3>1
    <3> HIDE DEF s
    <3> QED BY <3>2
  <2>4. s \ {m + 1} = 1 .. m
    OBVIOUS
  <2>5. c[s] = c[s \ {Max(s)}] + w[Max(s)]
    <3> HIDE DEF s
    <3> QED BY <1>1, <2>1
  <2> HIDE DEF s
  <2>6. c[s] = c[1 .. m] + w[m + 1]
    BY <2>3, <2>4, <2>5
  <2> QED BY <2>6 DEF s
<1> QED BY <1>1, <1>2, <1>3

\* Sums over the first places depend on the weights of those places only.
LEMMA CountAgrees ==
  ASSUME NEW n \in Nat, NEW w, NEW c, IsCount(w, n, c),
         NEW m \in 0 .. n, NEW v, NEW d, IsCount(v, m, d),
         \A i \in 1 .. m : v[i] = w[i]
  PROVE  d[1 .. m] = c[1 .. m]
<1> DEFINE T == {k \in Nat : k <= m => d[1 .. k] = c[1 .. k]}
<1>0. m \in Nat
  OBVIOUS
<1>1. 0 \in T
  <2>1. c[1 .. 0] = 0 /\ d[1 .. 0] = 0
    BY <1>0, CountSteps
  <2> QED BY <2>1
<1>2. ASSUME NEW k \in Nat, k \in T PROVE k + 1 \in T
  <2> SUFFICES ASSUME k + 1 <= m PROVE d[1 .. k + 1] = c[1 .. k + 1]
    OBVIOUS
  <2>1. k \in 0 .. n - 1 /\ k \in 0 .. m - 1 /\ k <= m /\ k + 1 \in 1 .. m
    OBVIOUS
  <2>2. d[1 .. k] = c[1 .. k]
    BY <1>2, <2>1
  <2>3. c[1 .. k + 1] = c[1 .. k] + w[k + 1]
    BY <2>1, CountSteps
  <2>4. d[1 .. k + 1] = d[1 .. k] + v[k + 1]
    BY <1>0, <2>1, CountSteps
  <2> QED BY <2>1, <2>2, <2>3, <2>4
<1>3. Nat \subseteq T
  <2> HIDE DEF T
  <2> QED BY <1>1, <1>2, SetInduction
<1> QED BY <1>0, <1>3

Grows(p, n) ==
  /\ p \in [0 .. n -> Nat] /\ p[0] = 0
  /\ \A i \in 1 .. n : p[i - 1] < p[i]

\* A later value is a larger one.
LEMMA GrowsApart ==
  ASSUME NEW n \in Nat, NEW p, Grows(p, n), NEW i \in 0 .. n, NEW j \in 0 .. n, i < j
  PROVE  p[i] < p[j]
<1> DEFINE T == {k \in Nat : i + k + 1 <= n => p[i] < p[i + k + 1]}
<1>0. i \in Nat /\ j \in Nat /\ \A k \in 0 .. n : p[k] \in Nat
  BY DEF Grows
<1>1. 0 \in T
  <2>1. i + 1 <= n => p[(i + 1) - 1] < p[i + 1]
    BY <1>0 DEF Grows
  <2>2. (i + 1) - 1 = i /\ i + 0 + 1 = i + 1
    BY <1>0
  <2> QED BY <2>1, <2>2
<1>2. ASSUME NEW k \in Nat, k \in T PROVE k + 1 \in T
  <2> DEFINE a == i + k + 1
  <2> SUFFICES ASSUME a + 1 <= n PROVE p[i] < p[a + 1]
    BY <1>0
  <2>1. a \in 0 .. n /\ a + 1 \in 1 .. n /\ a + 1 \in 0 .. n
    BY <1>0
  <2>2. p[i] < p[a]
    BY <1>2, <2>1
  <2>3. p[(a + 1) - 1] < p[a + 1]
    BY <2>1 DEF Grows
  <2>4. (a + 1) - 1 = a
    BY <2>1
  <2>5. p[i] \in Nat /\ p[a] \in Nat /\ p[a + 1] \in Nat
    BY <1>0, <2>1
  <2> HIDE DEF a
  <2> QED BY <2>2, <2>3, <2>4, <2>5
<1>3. Nat \subseteq T
  <2> HIDE DEF T
  <2> QED BY <1>1, <1>2, SetInduction
<1>4. (j - i) - 1 \in Nat /\ i + ((j - i) - 1) + 1 = j
  BY <1>0
<1> QED BY <1>3, <1>4

\* The weights of a text's characters, added up.
LEMMA CountGrows ==
  ASSUME NEW n \in Nat, NEW w \in [1 .. n -> Nat], \A i \in 1 .. n : w[i] > 0,
         NEW c, IsCount(w, n, c)
  PROVE  Grows([i \in 0 .. n |-> c[1 .. i]], n)
<1> DEFINE p == [i \in 0 .. n |-> c[1 .. i]]
           T == {k \in Nat : k <= n => p[k] \in Nat}
<1>1. p[0] = 0 /\ \A k \in 0 .. n - 1 : p[k + 1] = p[k] + w[k + 1]
  <2>1. c[1 .. 0] = 0 /\ \A k \in 0 .. n - 1 : c[1 .. k + 1] = c[1 .. k] + w[k + 1]
    BY CountSteps
  <2>2. p[0] = c[1 .. 0]
    OBVIOUS
  <2>3. ASSUME NEW k \in 0 .. n - 1 PROVE p[k + 1] = c[1 .. k + 1] /\ p[k] = c[1 .. k]
    OBVIOUS
  <2> HIDE DEF p
  <2> QED BY <2>1, <2>2, <2>3
<1>2. p = [i \in 0 .. n |-> p[i]]
  OBVIOUS
<1> HIDE DEF p
<1>3. 0 \in T
  BY <1>1
<1>4. ASSUME NEW k \in Nat, k \in T PROVE k + 1 \in T
  <2> SUFFICES ASSUME k + 1 <= n PROVE p[k + 1] \in Nat
    OBVIOUS
  <2>1. p[k] \in Nat /\ k \in 0 .. n - 1 /\ k + 1 \in 1 .. n
    BY <1>4
  <2>2. w[k + 1] \in Nat /\ p[k + 1] = p[k] + w[k + 1]
    BY <1>1, <2>1
  <2> QED BY <2>1, <2>2
<1>5. Nat \subseteq T
  <2> HIDE DEF T
  <2> QED BY <1>3, <1>4, SetInduction
<1>6. \A k \in 0 .. n : p[k] \in Nat
  BY <1>5
<1>7. ASSUME NEW i \in 1 .. n PROVE p[i - 1] < p[i]
  <2> DEFINE k == i - 1
  <2>1. k \in 0 .. n - 1 /\ k \in 0 .. n /\ i \in 0 .. n /\ k + 1 = i
    OBVIOUS
  <2>2. p[k + 1] = p[k] + w[k + 1]
    BY <1>1, <2>1
  <2>3. p[k] \in Nat /\ p[i] \in Nat /\ w[i] \in Nat /\ w[i] > 0
    BY <1>6, <2>1
  <2> HIDE DEF k
  <2>4. p[i] = p[k] + w[i]
    BY <2>1, <2>2
  <2> QED BY <2>3, <2>4 DEF k
<1>8. p \in [0 .. n -> Nat]
  BY <1>2, <1>6
<1> QED BY <1>1, <1>7, <1>8 DEF Grows, p

\* FoldLeft over the first n characters is such a count.
LEMMA FoldsBytes ==
  ASSUME NEW s, NEW n \in Nat, DOMAIN s = 1 .. n
  PROVE  \E c : /\ IsCount([i \in 1 .. n |-> Utf8(s[i])], n, c)
                /\ FoldLeft(LAMBDA sum, ch : sum + Utf8(ch), 0, s) = c[1 .. n]
<1> DEFINE w == [i \in 1 .. n |-> Utf8(s[i])]
           adds(c) == c = [r \in SUBSET (DOMAIN s) |->
                            IF r = {} THEN 0 ELSE c[r \ {Max(r)}] + Utf8(s[Max(r)])]
<1>1. ASSUME NEW c PROVE adds(c) <=> IsCount(w, n, c)
  <2>1. ASSUME NEW r \in SUBSET (1 .. n), r # {} PROVE w[Max(r)] = Utf8(s[Max(r)])
    <3>1. r \in SUBSET (0 .. n)
      OBVIOUS
    <3>2. Max(r) \in r
      BY <2>1, <3>1, HasGreatest
    <3>3. Max(r) \in 1 .. n
      BY <3>2
    <3> QED BY <3>3
  <2>2. [r \in SUBSET (1 .. n) |-> IF r = {} THEN 0 ELSE c[r \ {Max(r)}] + w[Max(r)]]
          = [r \in SUBSET (1 .. n) |-> IF r = {} THEN 0 ELSE c[r \ {Max(r)}] + Utf8(s[Max(r)])]
    <3> HIDE DEF w
    <3> QED BY <2>1
  <2> HIDE DEF w
  <2> QED BY <2>2 DEF IsCount
<1>2. \E c : adds(c)
  <2>1. \E c : IsCount(w, n, c)
    BY CountExists
  <2> HIDE DEF adds, w
  <2> QED BY <1>1, <2>1
<1> DEFINE fold == CHOOSE c : adds(c)
<1>3. FoldLeft(LAMBDA sum, ch : sum + Utf8(ch), 0, s) = fold[DOMAIN s]
  BY DEF FoldLeft, MapThenFoldSet
<1>4. adds(fold)
  <2> HIDE DEF adds
  <2> QED BY <1>2
<1> HIDE DEF fold, adds
<1> QED BY <1>1, <1>3, <1>4

\* The bytes of the first n characters grow with n.
LEMMA BytesGrow ==
  ASSUME NEW txt \in Seq(Characters)
  PROVE  \E p : Grows(p, Len(txt)) /\ \A n \in 0 .. Len(txt) : Bytes(txt, n) = p[n]
<1> DEFINE N == Len(txt)
           w == [i \in 1 .. N |-> Utf8(txt[i])]
<1>1. N \in Nat /\ \A i \in 1 .. N : txt[i] \in Characters
  BY ElementOfSeq, LenProperties
<1>2. w \in [1 .. N -> Nat] /\ \A i \in 1 .. N : w[i] > 0
  <2>1. \A ch : Utf8(ch) \in Nat /\ Utf8(ch) > 0
    BY DEF Utf8
  <2> QED BY <2>1
<1>3. PICK c : IsCount(w, N, c)
  BY <1>1, CountExists
<1> DEFINE p == [i \in 0 .. N |-> c[1 .. i]]
<1>4. Grows(p, N)
  <2> HIDE DEF w, N
  <2> QED BY <1>1, <1>2, <1>3, CountGrows
<1>5. ASSUME NEW n \in 0 .. N PROVE Bytes(txt, n) = p[n]
  <2> DEFINE s == SubSeq(txt, 1, n)
             v == [i \in 1 .. n |-> Utf8(s[i])]
  <2>1. n \in Nat /\ DOMAIN s = 1 .. n /\ \A i \in 1 .. n : s[i] = txt[i]
    <3>1. n \in Nat /\ 1 \in 1 .. N + 1 /\ n \in 1 - 1 .. N
      BY <1>1
    <3>2. /\ s \in Seq(Characters)
          /\ Len(s) = IF 1 <= n THEN n - 1 + 1 ELSE 0
          /\ \A i \in 1 .. n - 1 + 1 : s[i] = txt[1 + i - 1]
      <4> HIDE DEF s
      <4> QED BY <3>1, SubSeqProperties DEF s
    <3>3. DOMAIN s = 1 .. Len(s)
      BY <3>2
    <3>4. n - 1 + 1 = n /\ \A i \in 1 .. n : 1 + i - 1 = i
      BY <3>1
    <3> HIDE DEF s
    <3> QED BY <3>1, <3>2, <3>3, <3>4
  <2>2. PICK d : /\ IsCount(v, n, d)
                 /\ FoldLeft(LAMBDA sum, ch : sum + Utf8(ch), 0, s) = d[1 .. n]
    <3> HIDE DEF s
    <3> QED BY <2>1, FoldsBytes
  <2>3. \A i \in 1 .. n : v[i] = w[i]
    <3>1. \A i \in 1 .. n : i \in 1 .. N
      BY <1>1
    <3> HIDE DEF s
    <3> QED BY <2>1, <3>1
  <2>4. d[1 .. n] = c[1 .. n]
    <3>1. IsCount(v, n, d)
      BY <2>2
    <3> HIDE DEF v, w, s, N
    <3> QED BY <1>1, <1>3, <3>1, <2>3, CountAgrees
  <2>5. Bytes(txt, n) = d[1 .. n]
    BY <2>2 DEF Bytes
  <2> HIDE DEF s, v
  <2> QED BY <2>4, <2>5
<1> HIDE DEF p
<1> QED BY <1>4, <1>5

\* The same of code units.
LEMMA FoldsUnits ==
  ASSUME NEW s, NEW n \in Nat, DOMAIN s = 1 .. n
  PROVE  \E c : /\ IsCount([i \in 1 .. n |-> Utf16(s[i])], n, c)
                /\ FoldLeft(LAMBDA sum, ch : sum + Utf16(ch), 0, s) = c[1 .. n]
<1> DEFINE w == [i \in 1 .. n |-> Utf16(s[i])]
           adds(c) == c = [r \in SUBSET (DOMAIN s) |->
                            IF r = {} THEN 0 ELSE c[r \ {Max(r)}] + Utf16(s[Max(r)])]
<1>1. ASSUME NEW c PROVE adds(c) <=> IsCount(w, n, c)
  <2>1. ASSUME NEW r \in SUBSET (1 .. n), r # {} PROVE w[Max(r)] = Utf16(s[Max(r)])
    <3>1. r \in SUBSET (0 .. n)
      OBVIOUS
    <3>2. Max(r) \in r
      BY <2>1, <3>1, HasGreatest
    <3>3. Max(r) \in 1 .. n
      BY <3>2
    <3> QED BY <3>3
  <2>2. [r \in SUBSET (1 .. n) |-> IF r = {} THEN 0 ELSE c[r \ {Max(r)}] + w[Max(r)]]
          = [r \in SUBSET (1 .. n) |-> IF r = {} THEN 0 ELSE c[r \ {Max(r)}] + Utf16(s[Max(r)])]
    <3> HIDE DEF w
    <3> QED BY <2>1
  <2> HIDE DEF w
  <2> QED BY <2>2 DEF IsCount
<1>2. \E c : adds(c)
  <2>1. \E c : IsCount(w, n, c)
    BY CountExists
  <2> HIDE DEF adds, w
  <2> QED BY <1>1, <2>1
<1> DEFINE fold == CHOOSE c : adds(c)
<1>3. FoldLeft(LAMBDA sum, ch : sum + Utf16(ch), 0, s) = fold[DOMAIN s]
  BY DEF FoldLeft, MapThenFoldSet
<1>4. adds(fold)
  <2> HIDE DEF adds
  <2> QED BY <1>2
<1> HIDE DEF fold, adds
<1> QED BY <1>1, <1>3, <1>4

\* The same of code units.
LEMMA UnitsGrow ==
  ASSUME NEW txt \in Seq(Characters)
  PROVE  \E p : Grows(p, Len(txt)) /\ \A n \in 0 .. Len(txt) : Units(txt, n) = p[n]
<1> DEFINE N == Len(txt)
           w == [i \in 1 .. N |-> Utf16(txt[i])]
<1>1. N \in Nat /\ \A i \in 1 .. N : txt[i] \in Characters
  BY ElementOfSeq, LenProperties
<1>2. w \in [1 .. N -> Nat] /\ \A i \in 1 .. N : w[i] > 0
  <2>1. \A ch : Utf16(ch) \in Nat /\ Utf16(ch) > 0
    BY DEF Utf16
  <2> QED BY <2>1
<1>3. PICK c : IsCount(w, N, c)
  BY <1>1, CountExists
<1> DEFINE p == [i \in 0 .. N |-> c[1 .. i]]
<1>4. Grows(p, N)
  <2> HIDE DEF w, N
  <2> QED BY <1>1, <1>2, <1>3, CountGrows
<1>5. ASSUME NEW n \in 0 .. N PROVE Units(txt, n) = p[n]
  <2> DEFINE s == SubSeq(txt, 1, n)
             v == [i \in 1 .. n |-> Utf16(s[i])]
  <2>1. n \in Nat /\ DOMAIN s = 1 .. n /\ \A i \in 1 .. n : s[i] = txt[i]
    <3>1. n \in Nat /\ 1 \in 1 .. N + 1 /\ n \in 1 - 1 .. N
      BY <1>1
    <3>2. /\ s \in Seq(Characters)
          /\ Len(s) = IF 1 <= n THEN n - 1 + 1 ELSE 0
          /\ \A i \in 1 .. n - 1 + 1 : s[i] = txt[1 + i - 1]
      <4> HIDE DEF s
      <4> QED BY <3>1, SubSeqProperties DEF s
    <3>3. DOMAIN s = 1 .. Len(s)
      BY <3>2
    <3>4. n - 1 + 1 = n /\ \A i \in 1 .. n : 1 + i - 1 = i
      BY <3>1
    <3> HIDE DEF s
    <3> QED BY <3>1, <3>2, <3>3, <3>4
  <2>2. PICK d : /\ IsCount(v, n, d)
                 /\ FoldLeft(LAMBDA sum, ch : sum + Utf16(ch), 0, s) = d[1 .. n]
    <3> HIDE DEF s
    <3> QED BY <2>1, FoldsUnits
  <2>3. \A i \in 1 .. n : v[i] = w[i]
    <3>1. \A i \in 1 .. n : i \in 1 .. N
      BY <1>1
    <3> HIDE DEF s
    <3> QED BY <2>1, <3>1
  <2>4. d[1 .. n] = c[1 .. n]
    <3>1. IsCount(v, n, d)
      BY <2>2
    <3> HIDE DEF v, w, s, N
    <3> QED BY <1>1, <1>3, <3>1, <2>3, CountAgrees
  <2>5. Units(txt, n) = d[1 .. n]
    BY <2>2 DEF Units
  <2> HIDE DEF s, v
  <2> QED BY <2>4, <2>5
<1> HIDE DEF p
<1> QED BY <1>4, <1>5

\* Both lengths grow with every character.
LEMMA BytesApart ==
  ASSUME NEW txt \in Seq(Characters)
  PROVE  /\ Bytes(txt, 0) = 0
         /\ \A n \in 0 .. Len(txt) : Bytes(txt, n) \in Nat
         /\ \A n, m \in 0 .. Len(txt) : n < m => Bytes(txt, n) < Bytes(txt, m)
<1>1. PICK p : Grows(p, Len(txt)) /\ \A n \in 0 .. Len(txt) : Bytes(txt, n) = p[n]
  BY BytesGrow
<1>2. Len(txt) \in Nat
  BY LenProperties
<1>3. ASSUME NEW n \in 0 .. Len(txt), NEW m \in 0 .. Len(txt), n < m
      PROVE  Bytes(txt, n) < Bytes(txt, m)
  BY <1>1, <1>2, <1>3, GrowsApart
<1>4. 0 \in 0 .. Len(txt)
  BY <1>2
<1> QED BY <1>1, <1>3, <1>4 DEF Grows

\* So do the code units.
LEMMA UnitsApart ==
  ASSUME NEW txt \in Seq(Characters)
  PROVE  /\ Units(txt, 0) = 0
         /\ \A n \in 0 .. Len(txt) : Units(txt, n) \in Nat
         /\ \A n, m \in 0 .. Len(txt) : n < m => Units(txt, n) < Units(txt, m)
<1>1. PICK p : Grows(p, Len(txt)) /\ \A n \in 0 .. Len(txt) : Units(txt, n) = p[n]
  BY UnitsGrow
<1>2. Len(txt) \in Nat
  BY LenProperties
<1>3. ASSUME NEW n \in 0 .. Len(txt), NEW m \in 0 .. Len(txt), n < m
      PROVE  Units(txt, n) < Units(txt, m)
  BY <1>1, <1>2, <1>3, GrowsApart
<1>4. 0 \in 0 .. Len(txt)
  BY <1>2
<1> QED BY <1>1, <1>3, <1>4 DEF Grows

\* The boundaries of a text are offsets, the start among them.
LEMMA BoundariesTyped ==
  ASSUME NEW txt \in Seq(Characters)
  PROVE  0 \in Boundaries(txt) /\ Boundaries(txt) \subseteq Nat
<1>1. 0 \in 0 .. Len(txt)
  BY LenProperties
<1>2. \A n \in 0 .. Len(txt) : Bytes(txt, n) \in Nat
  BY BytesApart
<1>3. Bytes(txt, 0) = 0
  BY BytesApart
<1> QED BY <1>1, <1>2, <1>3 DEF Boundaries

\* Offsets are moved back to the character they are in, and no further.
LEMMA SnapsToBoundary ==
  ASSUME NEW txt \in Seq(Characters), NEW b \in Nat
  PROVE  /\ snap_to_char_boundary(txt, b) \in Boundaries(txt)
         /\ b \in Boundaries(txt) => snap_to_char_boundary(txt, b) = b
<1> DEFINE s == {x \in Boundaries(txt) : x <= b}
<1>1. 0 \in Boundaries(txt) /\ Boundaries(txt) \subseteq Nat
  BY BoundariesTyped
<1>2. s \in SUBSET (0 .. b) /\ 0 \in s
  BY <1>1
<1>3. b \in Boundaries(txt) => b \in s
  OBVIOUS
<1>4. snap_to_char_boundary(txt, b) = Max(s)
  BY DEF snap_to_char_boundary
<1>5. s \subseteq Boundaries(txt)
  OBVIOUS
<1> HIDE DEF s
<1>6. Max(s) \in s /\ \A y \in s : y <= Max(s)
  BY <1>2, HasGreatest
<1>7. Max(s) \in 0 .. b
  BY <1>2, <1>6
<1> QED BY <1>3, <1>4, <1>5, <1>6, <1>7

\* How many characters an offset is in: all of them if it lies beyond the end.
LEMMA CharsToTyped ==
  ASSUME NEW txt \in Seq(Characters), NEW offset \in Nat
  PROVE  /\ CharsTo(txt, offset, Bytes) \in 0 .. Len(txt)
         /\ CharsTo(txt, offset, Units) \in 0 .. Len(txt)
<1>1. Len(txt) \in Nat
  BY LenProperties
<1> DEFINE B == {n \in 0 .. Len(txt) : Bytes(txt, n) >= offset}
           U == {n \in 0 .. Len(txt) : Units(txt, n) >= offset}
<1>2. CharsTo(txt, offset, Bytes) = IF B # {} THEN Min(B) ELSE Len(txt)
  BY DEF CharsTo
<1>3. CharsTo(txt, offset, Units) = IF U # {} THEN Min(U) ELSE Len(txt)
  BY DEF CharsTo
<1>4. B \in SUBSET Nat /\ U \in SUBSET Nat /\ B \subseteq 0 .. Len(txt) /\ U \subseteq 0 .. Len(txt)
  BY <1>1
<1> HIDE DEF B, U
<1>5. B # {} => Min(B) \in B
  BY <1>4, HasLeast
<1>6. U # {} => Min(U) \in U
  BY <1>4, HasLeast
<1>7. Len(txt) \in 0 .. Len(txt)
  BY <1>1
<1> QED BY <1>2, <1>3, <1>4, <1>5, <1>6, <1>7

\* At the end of the first n characters both conversions find those n.
LEMMA CharsToBoundary ==
  ASSUME NEW txt \in Seq(Characters), NEW n \in 0 .. Len(txt)
  PROVE  /\ CharsTo(txt, Bytes(txt, n), Bytes) = n
         /\ CharsTo(txt, Units(txt, n), Units) = n
<1>1. Len(txt) \in Nat /\ n \in Nat
  BY LenProperties
<1> DEFINE B == {m \in 0 .. Len(txt) : Bytes(txt, m) >= Bytes(txt, n)}
           U == {m \in 0 .. Len(txt) : Units(txt, m) >= Units(txt, n)}
<1>2. n \in B
  <2>1. Bytes(txt, n) \in Nat
    BY BytesApart
  <2> QED BY <2>1
<1>3. n \in U
  <2>1. Units(txt, n) \in Nat
    BY UnitsApart
  <2> QED BY <2>1
<1>4. ASSUME NEW m \in B PROVE n <= m /\ m \in Nat
  <2>1. m \in 0 .. Len(txt) /\ m \in Nat
    BY <1>1
  <2>2. m < n => Bytes(txt, m) < Bytes(txt, n)
    BY <2>1, BytesApart
  <2>3. Bytes(txt, m) \in Nat /\ Bytes(txt, n) \in Nat
    BY <2>1, BytesApart
  <2>4. Bytes(txt, m) >= Bytes(txt, n)
    OBVIOUS
  <2> QED BY <1>1, <2>1, <2>2, <2>3, <2>4
<1>5. ASSUME NEW m \in U PROVE n <= m /\ m \in Nat
  <2>1. m \in 0 .. Len(txt) /\ m \in Nat
    BY <1>1
  <2>2. m < n => Units(txt, m) < Units(txt, n)
    BY <2>1, UnitsApart
  <2>3. Units(txt, m) \in Nat /\ Units(txt, n) \in Nat
    BY <2>1, UnitsApart
  <2>4. Units(txt, m) >= Units(txt, n)
    OBVIOUS
  <2> QED BY <1>1, <2>1, <2>2, <2>3, <2>4
<1>6. CharsTo(txt, Bytes(txt, n), Bytes) = Min(B)
  BY <1>2 DEF CharsTo
<1>7. CharsTo(txt, Units(txt, n), Units) = Min(U)
  BY <1>3 DEF CharsTo
<1> HIDE DEF B, U
<1>8. Min(B) \in B /\ \A y \in B : Min(B) <= y
  BY <1>2, <1>4, HasLeast
<1>9. Min(U) \in U /\ \A y \in U : Min(U) <= y
  BY <1>3, <1>5, HasLeast
<1>10. Min(B) = n
  <2>1. Min(B) <= n /\ n <= Min(B) /\ Min(B) \in Nat
    BY <1>2, <1>4, <1>8
  <2> QED BY <1>1, <2>1
<1>11. Min(U) = n
  <2>1. Min(U) <= n /\ n <= Min(U) /\ Min(U) \in Nat
    BY <1>3, <1>5, <1>9
  <2> QED BY <1>1, <2>1
<1> QED BY <1>6, <1>7, <1>10, <1>11

Clients == Nat \cup {NoClient}
GoodModel(m) ==
  /\ m = Model(m.text, m.base, m.extent) /\ m.text \in Seq(Characters)
  /\ m.base \in Boundaries(m.text) /\ m.extent \in Boundaries(m.text)

\* Offsets at boundaries make a good model.
LEMMA ModelGood ==
  ASSUME NEW txt \in Seq(Characters), NEW base \in Boundaries(txt), NEW extent \in Boundaries(txt)
  PROVE  GoodModel(Model(txt, base, extent))
BY DEF GoodModel, Model

\* The model of a new field is good.
LEMMA EmptyGood == GoodModel(EmptyModel)
<1>1. <<>> \in Seq(Characters)
  OBVIOUS
<1>2. 0 \in Boundaries(<<>>)
  BY <1>1, BoundariesTyped
<1> QED BY <1>1, <1>2, ModelGood DEF EmptyModel

\* sanitize_offsets makes a model good and leaves a good one alone.
LEMMA SanitizeGood ==
  ASSUME NEW txt \in Seq(Characters), NEW base \in Nat, NEW extent \in Nat
  PROVE  /\ GoodModel(sanitize_offsets(Model(txt, base, extent)))
         /\ base \in Boundaries(txt) /\ extent \in Boundaries(txt) =>
              sanitize_offsets(Model(txt, base, extent)) = Model(txt, base, extent)
<1>1. sanitize_offsets(Model(txt, base, extent)) =
        Model(txt, snap_to_char_boundary(txt, base), snap_to_char_boundary(txt, extent))
  BY DEF sanitize_offsets, Model
<1> QED BY <1>1, SnapsToBoundary, ModelGood

\* The conversions, at any offset and at the end of a character.
LEMMA ToUtf8 ==
  ASSUME NEW txt \in Seq(Characters), NEW unit \in Nat
  PROVE  utf16_to_utf8(txt, unit) \in Boundaries(txt)
<1>1. CharsTo(txt, unit, Units) \in 0 .. Len(txt)
  BY CharsToTyped
<1> QED BY <1>1 DEF utf16_to_utf8, Boundaries

\* From bytes to code units and back is no change at a boundary.
LEMMA ToUtf16 ==
  ASSUME NEW txt \in Seq(Characters), NEW byte \in Boundaries(txt)
  PROVE  /\ utf8_to_utf16(txt, byte) \in Nat
         /\ utf16_to_utf8(txt, utf8_to_utf16(txt, byte)) = byte
<1>1. PICK n \in 0 .. Len(txt) : byte = Bytes(txt, n)
  BY DEF Boundaries
<1>2. utf8_to_utf16(txt, byte) = Units(txt, n)
  BY <1>1, CharsToBoundary DEF utf8_to_utf16
<1>3. utf16_to_utf8(txt, Units(txt, n)) = Bytes(txt, n)
  BY CharsToBoundary DEF utf16_to_utf8
<1>4. Units(txt, n) \in Nat
  BY UnitsApart
<1> QED BY <1>1, <1>2, <1>3, <1>4

\* Whatever value Flutter sends makes a good model.
LEMMA FromFlutterGood ==
  ASSUME NEW v \in FlutterValues
  PROVE  GoodModel(from_flutter_editing_state(v))
<1> DEFINE base == utf16_to_utf8(v.text, AtLeast0(v.base))
           extent == utf16_to_utf8(v.text, AtLeast0(v.extent))
<1>1. v.text \in Seq(Characters) /\ v.base \in Int /\ v.extent \in Int
  BY DEF FlutterValues
<1>2. AtLeast0(v.base) \in Nat /\ AtLeast0(v.extent) \in Nat
  BY <1>1 DEF AtLeast0
<1>3. base \in Boundaries(v.text) /\ extent \in Boundaries(v.text)
  BY <1>1, <1>2, ToUtf8
<1>4. base \in Nat /\ extent \in Nat
  BY <1>1, <1>3, BoundariesTyped
<1>5. from_flutter_editing_state(v) = sanitize_offsets(Model(v.text, base, extent))
  BY DEF from_flutter_editing_state
<1> HIDE DEF base, extent
<1> QED BY <1>1, <1>4, <1>5, SanitizeGood

\* What Flutter gets of a model and sends back is the same model.
LEMMA RoundTrip ==
  ASSUME NEW m, GoodModel(m)
  PROVE  /\ to_flutter_editing_state(m) \in FlutterValues
         /\ from_flutter_editing_state(to_flutter_editing_state(m)) = m
<1> DEFINE v == to_flutter_editing_state(m)
           base == utf8_to_utf16(m.text, m.base)
           extent == utf8_to_utf16(m.text, m.extent)
<1>1. /\ m.text \in Seq(Characters) /\ m.base \in Boundaries(m.text)
      /\ m.extent \in Boundaries(m.text) /\ m = Model(m.text, m.base, m.extent)
  BY DEF GoodModel
<1>2. v = [text |-> m.text, base |-> base, extent |-> extent]
  BY DEF to_flutter_editing_state
<1>3. /\ base \in Nat /\ extent \in Nat
      /\ utf16_to_utf8(m.text, base) = m.base /\ utf16_to_utf8(m.text, extent) = m.extent
  BY <1>1, ToUtf16
<1> HIDE DEF v, base, extent
<1>4. v.text = m.text /\ v.base = base /\ v.extent = extent
  BY <1>2
<1>5. v \in FlutterValues
  BY <1>1, <1>2, <1>3 DEF FlutterValues
<1>6. AtLeast0(base) = base /\ AtLeast0(extent) = extent
  BY <1>3 DEF AtLeast0
<1>7. from_flutter_editing_state(v) = sanitize_offsets(Model(m.text, m.base, m.extent))
  BY <1>3, <1>4, <1>6 DEF from_flutter_editing_state
<1>8. m.base \in Nat /\ m.extent \in Nat
  BY <1>1, BoundariesTyped
<1>9. sanitize_offsets(Model(m.text, m.base, m.extent)) = Model(m.text, m.base, m.extent)
  BY <1>1, <1>8, SanitizeGood
<1> QED BY <1>1, <1>5, <1>7, <1>9 DEF v

\* The character typed replaces the selection, which ends between characters.
LEMMA InsertGood ==
  ASSUME NEW m, GoodModel(m), NEW ch \in Characters
  PROVE  GoodModel(insert_char(m, ch))
<1> DEFINE start == Min({m.base, m.extent})
           end == Max({m.base, m.extent})
           cursor == start + Utf8(ch)
           before == SubSeq(m.text, 1, CharsIn(m.text, start))
           after == SubSeq(m.text, CharsIn(m.text, end) + 1, Len(m.text))
           txt == before \o <<ch>> \o after
<1>1. /\ m.text \in Seq(Characters) /\ m.base \in Boundaries(m.text)
      /\ m.extent \in Boundaries(m.text) /\ m.base \in Nat /\ m.extent \in Nat
  BY BoundariesTyped DEF GoodModel
<1>2. start \in {m.base, m.extent}
  <2>1. {m.base, m.extent} \in SUBSET Nat /\ {m.base, m.extent} # {}
    BY <1>1
  <2> QED BY <2>1, HasLeast
<1>3. end \in {m.base, m.extent}
  <2> DEFINE n == m.base + m.extent
  <2>1. n \in Nat /\ {m.base, m.extent} \in SUBSET (0 .. n) /\ {m.base, m.extent} # {}
    BY <1>1
  <2> HIDE DEF n
  <2> QED BY <2>1, HasGreatest
<1>4. start \in Boundaries(m.text) /\ end \in Boundaries(m.text) /\ start \in Nat
  BY <1>1, <1>2, <1>3
<1>5. CharsIn(m.text, start) \in 0 .. Len(m.text) /\ CharsIn(m.text, end) \in 0 .. Len(m.text)
  <2>1. \A byte \in Boundaries(m.text) : \E n \in 0 .. Len(m.text) : Bytes(m.text, n) = byte
    BY DEF Boundaries
  <2>2. \A byte \in Boundaries(m.text) : CharsIn(m.text, byte) \in 0 .. Len(m.text)
    BY <2>1 DEF CharsIn
  <2> QED BY <1>4, <2>2
<1>6. cursor \in Nat
  <2>1. Utf8(ch) \in Nat
    BY DEF Utf8
  <2> HIDE DEF start
  <2> QED BY <1>4, <2>1
<1> HIDE DEF start, end, cursor
<1>7. txt \in Seq(Characters)
  <2>1. Len(m.text) \in Nat
    BY <1>1, LenProperties
  <2> DEFINE k == CharsIn(m.text, start)
             l == CharsIn(m.text, end)
  <2>2. k \in Int /\ l + 1 \in Int /\ k <= Len(m.text) /\ 1 <= l + 1
    BY <1>5, <2>1
  <2>3. \A i \in 1 .. Len(m.text) : m.text[i] \in Characters
    BY <1>1, ElementOfSeq
  <2> HIDE DEF k, l
  <2>4. before \in Seq(Characters)
    <3>1. \A i \in 1 .. k : m.text[i] \in Characters
      BY <2>1, <2>2, <2>3
    <3> QED BY <2>2, <3>1, SubSeqProperties DEF k
  <2>5. after \in Seq(Characters)
    <3>1. \A i \in l + 1 .. Len(m.text) : m.text[i] \in Characters
      BY <2>1, <2>2, <2>3
    <3> QED BY <2>1, <2>2, <3>1, SubSeqProperties DEF l
  <2>6. <<ch>> \in Seq(Characters)
    OBVIOUS
  <2> HIDE DEF before, after
  <2> QED BY <2>4, <2>5, <2>6, ConcatProperties
<1>8. insert_char(m, ch) = sanitize_offsets(Model(txt, cursor, cursor))
  BY DEF insert_char, start, end, cursor
<1> HIDE DEF txt
<1> QED BY <1>6, <1>7, <1>8, SanitizeGood

Models == {m \in [text : Seq(Characters), base : Nat, extent : Nat] : GoodModel(m)}
Messages ==
  {msg \in [method : {"updateEditingState", "performAction"}, client : Clients,
            model : Models, owner : Clients] : msg.owner = msg.client}
Calls ==
  {call \in [method : {"setClient", "clearClient", "setEditingState"}, client : Clients,
             newline : BOOLEAN, value : FlutterValues] :
     call.method = "clearClient" => call.client = NoClient}

TextInv ==
  /\ slot \in [client : Clients, newline : BOOLEAN, model : Models]
  /\ edits \in [Threads -> Seq(Messages)] /\ outbox \in Seq(Messages)
  /\ inbox \in Seq(Calls)
  /\ conn \in Clients /\ value \in FlutterValues /\ clients \in Nat

\* Good models are typed ...
LEMMA GoodIsModel == ASSUME NEW m, GoodModel(m) PROVE m \in Models
<1>1. /\ m = Model(m.text, m.base, m.extent) /\ m.text \in Seq(Characters)
      /\ m.base \in Nat /\ m.extent \in Nat
  BY BoundariesTyped DEF GoodModel
<1>2. m = [text |-> m.text, base |-> m.base, extent |-> m.extent]
  BY <1>1 DEF Model
<1>3. m \in [text : Seq(Characters), base : Nat, extent : Nat]
  BY <1>1, <1>2
<1> QED BY <1>3 DEF Models

\* ... and the typed ones are those.
LEMMA ModelIsGood == ASSUME NEW m \in Models PROVE GoodModel(m)
BY DEF Models

\* The messages a key makes are of the field in the slot.
LEMMA MessagesMade ==
  ASSUME TextInv, NEW m \in Models
  PROVE  Update(m) \in Messages /\ Perform \in Messages
<1>1. slot.client \in Clients
  BY DEF TextInv
<1>2. EmptyModel \in Models
  BY EmptyGood, GoodIsModel
<1> QED BY <1>1, <1>2 DEF Update, Perform, Messages

\* Flutter's calls are typed.
LEMMA CallsMade ==
  ASSUME NEW v \in FlutterValues, NEW client \in Clients, NEW newline \in BOOLEAN
  PROVE  /\ SetState(v) \in Calls
         /\ Call("setClient", client, newline, v) \in Calls
         /\ Call("clearClient", NoClient, newline, v) \in Calls
BY DEF SetState, Call, Calls, Clients

\* No field has the focus at first.
LEMMA TextStart == TextInit => TextInv
<1> SUFFICES ASSUME TextInit PROVE TextInv
  OBVIOUS
<1>1. EmptyModel \in Models
  BY EmptyGood, GoodIsModel
<1>2. value \in FlutterValues
  BY EmptyGood, RoundTrip DEF TextInit
<1>3. <<>> \in Seq(Messages) /\ <<>> \in Seq(Calls)
  OBVIOUS
<1> QED BY <1>1, <1>2, <1>3 DEF TextInit, TextInv, NoField, Clients

\* A character is typed into the slot, or Return.
LEMMA TextTyped ==
  ASSUME TextInv, NEW t \in Threads, TypeChar(t) \/ TypeReturn(t)
  PROVE  TextInv'
<1>1. slot.model \in Models /\ GoodModel(slot.model)
  BY ModelIsGood DEF TextInv
<1>2. \A ch \in Characters : insert_char(slot.model, ch) \in Models
  BY <1>1, InsertGood, GoodIsModel
<1>3. CASE TypeChar(t)
  <2>1. PICK ch \in Typed :
          /\ slot' = [slot EXCEPT !.model = insert_char(slot.model, ch)]
          /\ edits' = [edits EXCEPT ![t] = <<Update(insert_char(slot.model, ch))>>]
    BY <1>3 DEF TypeChar
  <2> DEFINE m == insert_char(slot.model, ch)
  <2>2. m \in Models
    BY <1>2, TextAssumption
  <2> HIDE DEF m
  <2>3. <<Update(m)>> \in Seq(Messages)
    BY <2>2, MessagesMade
  <2>4. slot' \in [client : Clients, newline : BOOLEAN, model : Models]
    BY <2>1, <2>2 DEF TextInv, m
  <2>5. edits' \in [Threads -> Seq(Messages)]
    BY <2>1, <2>3 DEF TextInv, m
  <2> QED BY <1>3, <2>4, <2>5 DEF TextInv, TypeChar, flutterVars
<1>4. CASE TypeReturn(t)
  <2> DEFINE m == insert_char(slot.model, "newline")
  <2>1. m \in Models
    BY <1>2 DEF Characters
  <2>2. \/ /\ slot' = [slot EXCEPT !.model = m]
           /\ edits' = [edits EXCEPT ![t] = <<Update(m), Perform>>]
        \/ edits' = [edits EXCEPT ![t] = <<Perform>>] /\ slot' = slot
    BY <1>4 DEF TypeReturn
  <2> HIDE DEF m
  <2>3. <<Update(m), Perform>> \in Seq(Messages) /\ <<Perform>> \in Seq(Messages)
    BY <2>1, MessagesMade
  <2>4. slot' \in [client : Clients, newline : BOOLEAN, model : Models]
    BY <2>1, <2>2 DEF TextInv
  <2>5. edits' \in [Threads -> Seq(Messages)]
    BY <2>2, <2>3 DEF TextInv
  <2> QED BY <1>4, <2>4, <2>5 DEF TextInv, TypeReturn, flutterVars
<1> QED BY <1>3, <1>4

\* A message is queued as it was made.
LEMMA TextSent ==
  ASSUME TextInv, NEW t \in Threads, send_to_flutter(t)
  PROVE  TextInv'
<1>1. /\ edits[t] # <<>> /\ edits[t] \in Seq(Messages)
      /\ outbox' = Append(outbox, Head(edits[t]))
      /\ edits' = [edits EXCEPT ![t] = Tail(edits[t])]
  BY DEF send_to_flutter, TextInv
<1>2. Head(edits[t]) \in Messages /\ Tail(edits[t]) \in Seq(Messages)
  BY <1>1, HeadTailProperties
<1>3. outbox' \in Seq(Messages)
  BY <1>1, <1>2, AppendProperties DEF TextInv
<1>4. edits' \in [Threads -> Seq(Messages)]
  BY <1>1, <1>2 DEF TextInv
<1> QED BY <1>3, <1>4 DEF TextInv, send_to_flutter, flutterVars

\* The platform thread applies one of Flutter's calls.
LEMMA TextApplied ==
  ASSUME TextInv, apply_text_input_method
  PROVE  TextInv'
<1> DEFINE call == Head(inbox)
<1>1. inbox # <<>> /\ inbox' = Tail(inbox) /\ inbox \in Seq(Calls)
  BY DEF apply_text_input_method, TextInv
<1>2. call \in Calls /\ inbox' \in Seq(Calls)
  BY <1>1, HeadTailProperties
<1>3. slot' = CASE call.method = "setClient" ->
                     [client |-> call.client, newline |-> call.newline, model |-> EmptyModel]
                [] call.method = "clearClient" -> NoField
                [] call.method = "setEditingState" ->
                     IF slot.client = NoClient THEN slot
                     ELSE [slot EXCEPT !.model = from_flutter_editing_state(call.value)]
  BY DEF apply_text_input_method
<1> HIDE DEF call
<1>4. /\ call.method \in {"setClient", "clearClient", "setEditingState"}
      /\ call.client \in Clients /\ call.newline \in BOOLEAN /\ call.value \in FlutterValues
  BY <1>2 DEF Calls
<1>5. from_flutter_editing_state(call.value) \in Models /\ EmptyModel \in Models
  BY <1>4, FromFlutterGood, EmptyGood, GoodIsModel
<1>6. slot' \in [client : Clients, newline : BOOLEAN, model : Models]
  <2>1. CASE call.method = "setClient"
    BY <1>3, <1>4, <1>5, <2>1
  <2>2. CASE call.method = "clearClient"
    BY <1>3, <1>5, <2>2 DEF NoField, Clients
  <2>3. CASE call.method = "setEditingState"
    BY <1>3, <1>5, <2>3 DEF TextInv
  <2> QED BY <1>4, <2>1, <2>2, <2>3
<1> QED BY <1>2, <1>6 DEF TextInv, apply_text_input_method, flutterVars

\* Flutter moves the focus, changes the text or takes a message.
LEMMA TextFlutter ==
  ASSUME TextInv, Focus \/ Unfocus \/ ChangesText \/ ReceiveMessage
  PROVE  TextInv'
<1>1. CASE Focus
  <2>1. PICK v \in Values, newline \in BOOLEAN :
          /\ value' = v
          /\ inbox' = inbox \o <<Call("setClient", clients + 1, newline, v), SetState(v)>>
    BY <1>1 DEF Focus
  <2>2. v \in FlutterValues /\ clients + 1 \in Clients
    BY TextAssumption DEF TextInv, Clients
  <2>3. <<Call("setClient", clients + 1, newline, v), SetState(v)>> \in Seq(Calls)
    BY <2>2, CallsMade
  <2>4. inbox' \in Seq(Calls)
    BY <2>1, <2>3, ConcatProperties DEF TextInv
  <2> QED BY <1>1, <2>1, <2>2, <2>4 DEF TextInv, Focus
<1>2. CASE Unfocus
  <2>1. Call("clearClient", NoClient, FALSE, value) \in Calls
    BY CallsMade DEF TextInv, Clients
  <2>2. inbox' \in Seq(Calls)
    BY <1>2, <2>1, AppendProperties DEF TextInv, Unfocus
  <2> QED BY <1>2, <2>2 DEF TextInv, Unfocus, Clients
<1>3. CASE ChangesText
  <2>1. PICK v \in Values : value' = v /\ inbox' = Append(inbox, SetState(v))
    BY <1>3 DEF ChangesText
  <2>2. v \in FlutterValues /\ SetState(v) \in Calls
    BY CallsMade, TextAssumption DEF Clients
  <2>3. inbox' \in Seq(Calls)
    BY <2>1, <2>2, AppendProperties DEF TextInv
  <2> QED BY <1>3, <2>1, <2>2, <2>3 DEF TextInv, ChangesText
<1>4. CASE ReceiveMessage
  <2>1. outbox # <<>> /\ outbox' = Tail(outbox) /\ outbox \in Seq(Messages)
    BY <1>4 DEF ReceiveMessage, TextInv
  <2>2. Head(outbox) \in Messages /\ outbox' \in Seq(Messages)
    BY <2>1, HeadTailProperties
  <2>3. Head(outbox).model \in Models
    BY <2>2 DEF Messages
  <2>4. to_flutter_editing_state(Head(outbox).model) \in FlutterValues
    BY <2>3, ModelIsGood, RoundTrip
  <2>5. value' \in FlutterValues
    BY <1>4, <2>4 DEF ReceiveMessage, TextInv
  <2> QED BY <1>4, <2>2, <2>5 DEF TextInv, ReceiveMessage
<1> QED BY <1>1, <1>2, <1>3, <1>4

\* Every step keeps TextInv.
LEMMA TextStep == TextInv /\ [TextNext]_textVars => TextInv'
<1> SUFFICES ASSUME TextInv, [TextNext]_textVars PROVE TextInv'
  OBVIOUS
<1>1. CASE UNCHANGED textVars
  BY <1>1 DEF TextInv, textVars, flutterVars
<1> QED BY <1>1, TextTyped, TextSent, TextApplied, TextFlutter DEF TextNext

\* TextInv is an invariant.
LEMMA TextCorrect == TextSpec => []TextInv
BY TextStart, TextStep, PTL DEF TextSpec

\* Whatever Flutter sets and the user types, the selection ends between characters.
THEOREM OffsetsStayAtCharacters == TextSpec => []OffsetsAtCharacters
<1>1. TextInv => OffsetsAtCharacters
  <2> SUFFICES ASSUME TextInv PROVE OffsetsAtCharacters
    OBVIOUS
  <2>1. GoodModel(slot.model)
    BY ModelIsGood DEF TextInv
  <2> QED BY <2>1 DEF OffsetsAtCharacters, GoodModel
<1> QED BY TextCorrect, <1>1, PTL

\* A message goes to the field its copy was taken from, however the focus moves meanwhile.
THEOREM TextsStayWithTheirField == TextSpec => []TextsKeepTheirField
<1>1. TextInv => TextsKeepTheirField
  <2> SUFFICES ASSUME TextInv, NEW i \in DOMAIN outbox PROVE outbox[i].client = outbox[i].owner
    BY DEF TextsKeepTheirField
  <2>1. outbox[i] \in Messages
    BY ElementOfSeq DEF TextInv
  <2> QED BY <2>1 DEF Messages
<1> QED BY TextCorrect, <1>1, PTL

\* Of Flutter's calls that name a field, the last one under way names the field with the
\* focus; when none is under way, the slot holds that field.
Names(call) == call.method # "setEditingState"
NoneNamesAfter(k) == \A j \in k + 1 .. Len(inbox) : ~ Names(inbox[j])
FieldInv ==
  /\ NoneNamesAfter(0) => slot.client = conn
  /\ \A k \in 1 .. Len(inbox) : Names(inbox[k]) /\ NoneNamesAfter(k) => inbox[k].client = conn
  /\ Len(inbox) > 0 => inbox[Len(inbox)].method # "setClient"

\* When Flutter has nothing under way and no text is on its way to it, the copies agree.
IsNews(msg) == msg.method = "updateEditingState" /\ msg.client = conn
NewsUnderWay ==
  \/ \E i \in 1 .. Len(outbox) : IsNews(outbox[i])
  \/ \E t \in Threads : \E i \in 1 .. Len(edits[t]) : IsNews(edits[t][i])
CopyInv ==
  inbox = <<>> /\ conn # NoClient /\ ~ stale /\ ~ NewsUnderWay
    => slot.model = from_flutter_editing_state(value)

\* No field has the focus at first, and none is announced.
LEMMA FieldStart == TextInit => FieldInv /\ CopyInv
BY DEF TextInit, FieldInv, CopyInv, NoneNamesAfter, NoField

\* Nothing but Flutter and the platform thread disturbs FieldInv.
LEMMA FieldKept ==
  ASSUME FieldInv, UNCHANGED <<inbox, conn>>, slot'.client = slot.client
  PROVE  FieldInv'
BY DEF FieldInv, NoneNamesAfter, Names

\* Applying one of Flutter's calls: the slot follows the field it names.
LEMMA FieldApplied ==
  ASSUME TextInv, FieldInv, CopyInv, apply_text_input_method
  PROVE  FieldInv' /\ CopyInv'
<1> DEFINE call == Head(inbox)
<1>1. inbox # <<>> /\ inbox' = Tail(inbox) /\ inbox \in Seq(Calls) /\ conn' = conn /\ value' = value
  BY DEF apply_text_input_method, TextInv, flutterVars
<1>2. /\ call = inbox[1] /\ call \in Calls /\ Len(inbox) \in Nat /\ Len(inbox) > 0
      /\ Len(inbox') = Len(inbox) - 1
      /\ \A j \in 1 .. Len(inbox') : inbox'[j] = inbox[j + 1]
  BY <1>1, HeadTailProperties
<1>3. slot' = CASE call.method = "setClient" ->
                     [client |-> call.client, newline |-> call.newline, model |-> EmptyModel]
                [] call.method = "clearClient" -> NoField
                [] call.method = "setEditingState" ->
                     IF slot.client = NoClient THEN slot
                     ELSE [slot EXCEPT !.model = from_flutter_editing_state(call.value)]
  BY DEF apply_text_input_method
<1>4. stale' = IF call.method = "setEditingState" THEN call.value # value ELSE stale
  BY DEF apply_text_input_method
<1> HIDE DEF call
<1>5. /\ call.method \in {"setClient", "clearClient", "setEditingState"}
      /\ call.method = "clearClient" => call.client = NoClient
  BY <1>2 DEF Calls
<1>6. slot'.client = IF Names(call) THEN call.client ELSE slot.client
  <2>1. slot \in [client : Clients, newline : BOOLEAN, model : Models]
    BY DEF TextInv
  <2>2. CASE call.method = "setClient"
    BY <1>3, <2>2 DEF Names
  <2>3. CASE call.method = "clearClient"
    BY <1>3, <1>5, <2>3 DEF Names, NoField
  <2>4. CASE call.method = "setEditingState"
    BY <1>3, <2>1, <2>4 DEF Names
  <2> QED BY <1>5, <2>2, <2>3, <2>4
<1>7. \A k \in 0 .. Len(inbox') : NoneNamesAfter(k)' => NoneNamesAfter(k + 1)
  <2> SUFFICES ASSUME NEW k \in 0 .. Len(inbox'), NoneNamesAfter(k)',
                      NEW j \in (k + 1) + 1 .. Len(inbox)
               PROVE  ~ Names(inbox[j])
    BY <1>2 DEF NoneNamesAfter
  <2>1. j - 1 \in k + 1 .. Len(inbox') /\ j - 1 \in 1 .. Len(inbox') /\ (j - 1) + 1 = j
    BY <1>2
  <2>2. inbox'[j - 1] = inbox[j]
    BY <1>2, <2>1
  <2>3. ~ Names(inbox'[j - 1])
    BY <2>1 DEF NoneNamesAfter, Names
  <2> QED BY <2>2, <2>3
<1>8. NoneNamesAfter(0)' => slot'.client = conn
  <2> SUFFICES ASSUME NoneNamesAfter(0)' PROVE slot'.client = conn
    OBVIOUS
  <2>1. NoneNamesAfter(1)
    BY <1>2, <1>7
  <2>2. CASE Names(call)
    BY <1>2, <1>6, <2>1, <2>2 DEF FieldInv
  <2>3. CASE ~ Names(call)
    <3>1. NoneNamesAfter(0)
      BY <1>2, <2>1, <2>3 DEF NoneNamesAfter
    <3> QED BY <1>6, <2>3, <3>1 DEF FieldInv
  <2> QED BY <2>2, <2>3
<1>9. \A k \in 1 .. Len(inbox') :
        Names(inbox'[k]) /\ NoneNamesAfter(k)' => inbox'[k].client = conn
  <2> SUFFICES ASSUME NEW k \in 1 .. Len(inbox'), Names(inbox'[k]), NoneNamesAfter(k)'
               PROVE  inbox'[k].client = conn
    OBVIOUS
  <2>1. inbox'[k] = inbox[k + 1] /\ k + 1 \in 1 .. Len(inbox) /\ NoneNamesAfter(k + 1)
    BY <1>2, <1>7
  <2> QED BY <2>1 DEF FieldInv
<1>10. Len(inbox') > 0 => inbox'[Len(inbox')].method # "setClient"
  <2> SUFFICES ASSUME Len(inbox') > 0 PROVE inbox'[Len(inbox')].method # "setClient"
    OBVIOUS
  <2>1. inbox'[Len(inbox')] = inbox[Len(inbox)]
    BY <1>2
  <2> QED BY <1>2, <2>1 DEF FieldInv
<1>11. FieldInv'
  BY <1>1, <1>8, <1>9, <1>10 DEF FieldInv, Names
<1>12. CopyInv'
  <2> SUFFICES ASSUME inbox' = <<>>, conn # NoClient, ~ stale'
               PROVE  slot'.model = from_flutter_editing_state(value)
    BY <1>1 DEF CopyInv
  <2>1. Len(inbox) = 1
    BY <1>2
  <2>2. slot'.client = conn
    BY <1>8, <2>1, <1>2 DEF NoneNamesAfter
  <2>3. call.method # "setClient"
    BY <1>2, <2>1 DEF FieldInv
  <2>4. call.method # "clearClient"
    BY <1>5, <1>6, <2>2 DEF Names
  <2>5. call.method = "setEditingState" /\ call.value = value
    BY <1>4, <1>5, <2>3, <2>4
  <2>6. slot.client = conn
    BY <1>6, <2>2, <2>5 DEF Names
  <2>7. slot' = [slot EXCEPT !.model = from_flutter_editing_state(value)]
    BY <1>3, <2>5, <2>6
  <2> QED BY <2>7 DEF TextInv
<1> QED BY <1>11, <1>12

\* Flutter announces the field it moves the focus to, or a new value.
LEMMA FieldFlutter ==
  ASSUME TextInv, FieldInv, Focus \/ Unfocus \/ ChangesText
  PROVE  FieldInv' /\ CopyInv'
<1>0. inbox \in Seq(Calls)
  BY DEF TextInv
<1>1. Len(inbox) \in Nat /\ slot' = slot
  <2>1. Len(inbox) \in Nat
    BY <1>0
  <2>2. slot' = slot
    BY DEF Focus, Unfocus, ChangesText
  <2> QED BY <2>1, <2>2
<1>2. CASE Focus
  <2>1. PICK v \in Values, newline \in BOOLEAN :
          inbox' = inbox \o <<Call("setClient", clients + 1, newline, v), SetState(v)>>
    BY <1>2 DEF Focus
  <2> DEFINE c == Call("setClient", clients + 1, newline, v)  s == SetState(v)
  <2>2. /\ c.method = "setClient" /\ c.client = clients + 1 /\ s.method = "setEditingState"
    BY DEF Call, SetState
  <2>3. c \in Calls /\ s \in Calls
    BY CallsMade, TextAssumption DEF TextInv, Clients
  <2>4. conn' = clients + 1
    BY <1>2 DEF Focus
  <2> HIDE DEF c, s
  <2>5. <<c, s>> \in Seq(Calls) /\ Len(<<c, s>>) = 2 /\ <<c, s>>[1] = c /\ <<c, s>>[2] = s
    BY <2>3
  <2>6. /\ Len(inbox') = Len(inbox) + 2
        /\ inbox'[Len(inbox) + 1] = c /\ inbox'[Len(inbox) + 2] = s
    BY <1>0, <1>1, <2>1, <2>5, ConcatProperties DEF c, s
  <2> QED BY <1>0, <1>1, <2>2, <2>4, <2>6 DEF FieldInv, CopyInv, NoneNamesAfter, Names
<1>3. CASE Unfocus
  <2> DEFINE c == Call("clearClient", NoClient, FALSE, value)
  <2>1. c.method = "clearClient" /\ c.client = NoClient
    BY DEF Call
  <2>2. inbox' = Append(inbox, c) /\ conn' = NoClient
    BY <1>3 DEF Unfocus
  <2>3. c \in Calls
    BY CallsMade DEF TextInv, Clients
  <2> HIDE DEF c
  <2>4. Len(inbox') = Len(inbox) + 1 /\ inbox'[Len(inbox) + 1] = c
    BY <1>0, <1>1, <2>2, <2>3, AppendProperties
  <2> QED BY <1>0, <1>1, <2>1, <2>2, <2>4 DEF FieldInv, CopyInv, NoneNamesAfter, Names
<1>4. CASE ChangesText
  <2>1. PICK v \in Values : inbox' = Append(inbox, SetState(v))
    BY <1>4 DEF ChangesText
  <2> DEFINE s == SetState(v)
  <2>2. s.method = "setEditingState"
    BY DEF Call, SetState
  <2>3. s \in Calls /\ conn' = conn
    BY <1>4, CallsMade, TextAssumption DEF Clients, ChangesText
  <2>4. inbox' = Append(inbox, s)
    BY <2>1
  <2> HIDE DEF s
  <2>5. /\ Len(inbox') = Len(inbox) + 1 /\ inbox'[Len(inbox) + 1] = s
        /\ \A j \in 1 .. Len(inbox) : inbox'[j] = inbox[j]
    BY <1>0, <1>1, <2>3, <2>4, AppendProperties
  <2>6. \A k \in 0 .. Len(inbox) : NoneNamesAfter(k)' => NoneNamesAfter(k)
    <3> SUFFICES ASSUME NEW k \in 0 .. Len(inbox), NoneNamesAfter(k)',
                        NEW j \in k + 1 .. Len(inbox)
                 PROVE  ~ Names(inbox[j])
      BY DEF NoneNamesAfter
    <3>1. j \in k + 1 .. Len(inbox') /\ inbox'[j] = inbox[j]
      BY <1>0, <1>1, <2>5
    <3> QED BY <3>1 DEF NoneNamesAfter, Names
  <2>7. NoneNamesAfter(0)' => slot'.client = conn'
    BY <1>0, <1>1, <2>3, <2>6 DEF FieldInv
  <2>8. \A k \in 1 .. Len(inbox') :
          Names(inbox'[k]) /\ NoneNamesAfter(k)' => inbox'[k].client = conn'
    <3> SUFFICES ASSUME NEW k \in 1 .. Len(inbox'), Names(inbox'[k]), NoneNamesAfter(k)'
                 PROVE  inbox'[k].client = conn'
      OBVIOUS
    <3>1. k # Len(inbox) + 1
      BY <2>2, <2>5 DEF Names
    <3>2. k \in 1 .. Len(inbox) /\ inbox'[k] = inbox[k] /\ NoneNamesAfter(k)
      BY <1>0, <1>1, <2>5, <2>6, <3>1
    <3> QED BY <2>3, <3>2 DEF FieldInv
  <2>9. inbox'[Len(inbox')].method # "setClient" /\ inbox' # <<>>
    BY <1>0, <1>1, <2>2, <2>5
  <2> QED BY <2>7, <2>8, <2>9 DEF FieldInv, CopyInv, Names
<1> QED BY <1>2, <1>3, <1>4

\* With nothing of Flutter's under way, the slot holds the field with the focus.
LEMMA FieldSame == FieldInv /\ inbox = <<>> => slot.client = conn
BY DEF FieldInv, NoneNamesAfter

\* A thread's own text is news, made from the model it leaves in the slot.
LEMMA CopyTyped ==
  ASSUME TextInv, FieldInv, CopyInv, NEW t \in Threads, TypeChar(t) \/ TypeReturn(t)
  PROVE  FieldInv' /\ CopyInv'
<1>0. slot \in [client : Clients, newline : BOOLEAN, model : Models] /\ DOMAIN edits = Threads
  BY DEF TextInv
<1>1. inbox' = inbox /\ conn' = conn /\ value' = value /\ stale' = stale /\ outbox' = outbox
  BY DEF TypeChar, TypeReturn, flutterVars
<1>2. slot'.client = slot.client
  BY <1>0 DEF TypeChar, TypeReturn
<1>3. FieldInv'
  BY <1>1, <1>2, FieldKept
<1>4. \/ slot' = slot /\ edits' = [edits EXCEPT ![t] = <<Perform>>] /\ edits[t] = <<>>
      \/ \E m : edits'[t] \in {<<Update(m)>>, <<Update(m), Perform>>}
  BY <1>0 DEF TypeChar, TypeReturn, FieldKey
<1>5. SUFFICES ASSUME inbox = <<>>, conn # NoClient, ~ stale, ~ NewsUnderWay'
               PROVE  slot'.model = from_flutter_editing_state(value)
  BY <1>1, <1>3 DEF CopyInv
<1>6. CASE \E m : edits'[t] \in {<<Update(m)>>, <<Update(m), Perform>>}
  <2>1. PICK m : edits'[t] \in {<<Update(m)>>, <<Update(m), Perform>>}
    BY <1>6
  <2>2. Len(edits'[t]) >= 1 /\ Len(edits'[t]) \in Nat /\ edits'[t][1] = Update(m)
    BY <2>1
  <2>3. Update(m).method = "updateEditingState" /\ Update(m).client = conn
    BY <1>5, FieldSame DEF Update
  <2>4. 1 \in 1 .. Len(edits'[t])
    BY <2>2
  <2> QED BY <1>1, <1>5, <2>2, <2>3, <2>4 DEF NewsUnderWay, IsNews
<1>7. CASE slot' = slot /\ edits' = [edits EXCEPT ![t] = <<Perform>>] /\ edits[t] = <<>>
  <2>1. ~ NewsUnderWay
    <3> SUFFICES ASSUME NewsUnderWay PROVE FALSE
      OBVIOUS
    <3>1. CASE \E i \in 1 .. Len(outbox) : IsNews(outbox[i])
      BY <1>1, <1>5, <3>1 DEF NewsUnderWay, IsNews
    <3>2. CASE \E u \in Threads : \E i \in 1 .. Len(edits[u]) : IsNews(edits[u][i])
      <4>1. PICK u \in Threads : \E i \in 1 .. Len(edits[u]) : IsNews(edits[u][i])
        BY <3>2
      <4>2. u # t
        BY <1>7, <4>1
      <4>3. edits'[u] = edits[u]
        BY <1>0, <1>7, <4>2
      <4> QED BY <1>1, <1>5, <4>1, <4>3 DEF NewsUnderWay, IsNews
    <3> QED BY <3>1, <3>2 DEF NewsUnderWay
  <2> QED BY <1>5, <1>7, <2>1 DEF CopyInv
<1> QED BY <1>4, <1>6, <1>7

\* Queueing a message leaves it under way.
LEMMA CopySent ==
  ASSUME TextInv, FieldInv, CopyInv, NEW t \in Threads, send_to_flutter(t)
  PROVE  FieldInv' /\ CopyInv'
<1> DEFINE msg == Head(edits[t])
<1>1. inbox' = inbox /\ conn' = conn /\ value' = value /\ stale' = stale /\ slot' = slot
  BY DEF send_to_flutter, flutterVars
<1>2. /\ edits[t] # <<>> /\ edits[t] \in Seq(Messages) /\ outbox \in Seq(Messages)
      /\ outbox' = Append(outbox, msg)
      /\ edits' = [edits EXCEPT ![t] = Tail(edits[t])] /\ DOMAIN edits = Threads
  BY DEF send_to_flutter, TextInv
<1>3. /\ msg = edits[t][1] /\ msg \in Messages
      /\ Len(Tail(edits[t])) = Len(edits[t]) - 1
      /\ \A i \in 1 .. Len(Tail(edits[t])) : Tail(edits[t])[i] = edits[t][i + 1]
  BY <1>2, HeadTailProperties
<1> HIDE DEF msg
<1>4. /\ Len(outbox') = Len(outbox) + 1 /\ outbox'[Len(outbox) + 1] = msg
      /\ \A i \in 1 .. Len(outbox) : outbox'[i] = outbox[i]
  BY <1>2, <1>3, AppendProperties
<1>5. Len(outbox) \in Nat /\ Len(edits[t]) \in Nat
  BY <1>2
<1>6. NewsUnderWay => NewsUnderWay'
  <2>1. ASSUME NEW i \in 1 .. Len(outbox), IsNews(outbox[i]) PROVE NewsUnderWay'
    <3>1. i \in 1 .. Len(outbox') /\ outbox'[i] = outbox[i]
      BY <1>4, <1>5
    <3> QED BY <1>1, <2>1, <3>1 DEF NewsUnderWay, IsNews
  <2>2. ASSUME IsNews(msg) PROVE NewsUnderWay'
    <3>1. Len(outbox) + 1 \in 1 .. Len(outbox')
      BY <1>4, <1>5
    <3> QED BY <1>1, <1>4, <2>2, <3>1 DEF NewsUnderWay, IsNews
  <2>3. ASSUME NEW u \in Threads, NEW i \in 1 .. Len(edits[u]), IsNews(edits[u][i])
        PROVE  NewsUnderWay'
    <3>1. CASE u # t
      <4>1. edits'[u] = edits[u]
        BY <1>2, <3>1
      <4> QED BY <1>1, <2>3, <4>1 DEF NewsUnderWay, IsNews
    <3>2. CASE u = t /\ i = 1
      BY <1>3, <2>2, <2>3, <3>2
    <3>3. CASE u = t /\ i # 1
      <4>1. edits'[t] = Tail(edits[t])
        BY <1>2
      <4>2. i - 1 \in 1 .. Len(edits'[t]) /\ (i - 1) + 1 = i
        BY <1>3, <1>5, <3>3, <4>1
      <4>3. edits'[t][i - 1] = edits[t][i]
        BY <1>3, <4>1, <4>2
      <4>4. IsNews(edits'[t][i - 1])
        BY <1>1, <2>3, <3>3, <4>3 DEF IsNews
      <4> QED BY <1>1, <4>2, <4>4 DEF NewsUnderWay, IsNews
    <3> QED BY <3>1, <3>2, <3>3
  <2> QED BY <2>1, <2>3 DEF NewsUnderWay
<1>7. FieldInv'
  BY <1>1, FieldKept
<1>8. CopyInv'
  BY <1>1, <1>6 DEF CopyInv
<1> QED BY <1>7, <1>8

\* Flutter takes the slot's own text, unless the slot has changed since; RoundTrip does the rest.
LEMMA CopyReceived ==
  ASSUME TextInv, FieldInv, CopyInv, ReceiveMessage
  PROVE  FieldInv' /\ CopyInv'
<1> DEFINE msg == Head(outbox)
<1>1. inbox' = inbox /\ conn' = conn /\ edits' = edits /\ slot' = slot
  BY DEF ReceiveMessage
<1>2. outbox # <<>> /\ outbox' = Tail(outbox) /\ outbox \in Seq(Messages)
  BY DEF ReceiveMessage, TextInv
<1>3. /\ msg = outbox[1] /\ msg \in Messages
      /\ Len(outbox') = Len(outbox) - 1 /\ Len(outbox) \in Nat
      /\ \A i \in 1 .. Len(outbox') : outbox'[i] = outbox[i + 1]
  BY <1>2, HeadTailProperties
<1>4. IF IsNews(msg)
      THEN /\ value' = to_flutter_editing_state(msg.model)
           /\ stale' = (slot.client = conn /\ msg.model # slot.model)
      ELSE value' = value /\ stale' = stale
  BY DEF ReceiveMessage, IsNews
<1> HIDE DEF msg
<1>5. FieldInv'
  BY <1>1, FieldKept
<1>6. CopyInv'
  <2> SUFFICES ASSUME inbox = <<>>, conn # NoClient, ~ stale', ~ NewsUnderWay'
               PROVE  slot.model = from_flutter_editing_state(value')
    BY <1>1 DEF CopyInv
  <2>1. CASE IsNews(msg)
    <3>1. msg.model = slot.model
      BY <1>4, <2>1, FieldSame
    <3>2. GoodModel(slot.model)
      BY ModelIsGood DEF TextInv
    <3> QED BY <1>4, <2>1, <3>1, <3>2, RoundTrip
  <2>2. CASE ~ IsNews(msg)
    <3>1. ASSUME NEW i \in 1 .. Len(outbox), IsNews(outbox[i]) PROVE FALSE
      <4>1. i # 1
        BY <1>3, <2>2, <3>1
      <4>2. i - 1 \in 1 .. Len(outbox') /\ (i - 1) + 1 = i
        BY <1>3, <4>1
      <4>3. outbox'[i - 1] = outbox[i]
        BY <1>3, <4>2
      <4>4. IsNews(outbox'[i - 1])
        BY <1>1, <3>1, <4>3 DEF IsNews
      <4> QED BY <1>1, <4>2, <4>4 DEF NewsUnderWay, IsNews
    <3>2. ASSUME NEW u \in Threads, NEW i \in 1 .. Len(edits[u]), IsNews(edits[u][i])
          PROVE  FALSE
      BY <1>1, <3>2 DEF NewsUnderWay, IsNews
    <3>3. ~ NewsUnderWay
      BY <3>1, <3>2 DEF NewsUnderWay
    <3> QED BY <1>4, <2>2, <3>3 DEF CopyInv
  <2> QED BY <2>1, <2>2
<1> QED BY <1>5, <1>6

\* Every step keeps the fields and the copies in step.
LEMMA CopyStep ==
  TextInv /\ FieldInv /\ CopyInv /\ [TextNext]_textVars => (FieldInv /\ CopyInv)'
<1> SUFFICES ASSUME TextInv, FieldInv, CopyInv, [TextNext]_textVars PROVE (FieldInv /\ CopyInv)'
  OBVIOUS
<1>1. CASE UNCHANGED textVars
  <2>1. /\ inbox' = inbox /\ conn' = conn /\ slot' = slot /\ value' = value /\ stale' = stale
        /\ outbox' = outbox /\ edits' = edits
    BY <1>1 DEF textVars, flutterVars
  <2> QED BY <2>1 DEF FieldInv, CopyInv, NoneNamesAfter, Names, NewsUnderWay, IsNews
<1> QED BY <1>1, FieldApplied, FieldFlutter, CopyTyped, CopySent, CopyReceived DEF TextNext

\* When nothing is under way, Flutter and the model have the same field and, unless the
\* message that arrived last had been overtaken, the same text and selection.
THEOREM CopiesStayInStep == TextSpec => []CopiesAgree
<1>1. FieldInv /\ CopyInv => CopiesAgree
  <2> SUFFICES ASSUME FieldInv, CopyInv, Quiet
               PROVE  /\ slot.client = conn
                      /\ conn # NoClient /\ ~ stale
                           => slot.model = from_flutter_editing_state(value)
    BY DEF CopiesAgree
  <2>1. inbox = <<>> /\ ~ NewsUnderWay
    BY DEF Quiet, NewsUnderWay
  <2> QED BY <2>1, FieldSame DEF CopyInv
<1> QED BY TextCorrect, FieldStart, CopyStep, <1>1, PTL DEF TextSpec

=============================================================================
