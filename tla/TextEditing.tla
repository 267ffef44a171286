---------------------------- MODULE TextEditing ----------------------------
(***************************************************************************)
(* The text field being edited.  The embedder keeps one model of it per    *)
(* overlay, which the threads of the overlay's windows edit as characters  *)
(* are typed; Flutter keeps the value it shows.  Each side sends the other *)
(* what it changed: updateEditingState and performAction through the queue *)
(* of platform messages, setClient, setEditingState and clearClient        *)
(* through the platform thread.                                            *)
(*                                                                         *)
(* The model counts in UTF-8 bytes, Flutter in UTF-16 code units.  A text  *)
(* is a sequence of characters of which only those two lengths matter.     *)
(* What Flutter does with the text itself (arrow keys, backspace, paste,   *)
(* formatters) is its own business: any new value it comes to.             *)
(***************************************************************************)
EXTENDS Integers, SequencesExt

CONSTANTS
    Threads,     \* the window threads that deliver key messages
    Typed,       \* the characters the user types
    Values,      \* the values Flutter comes to on its own: text, base and extent
    MaxClients,  \* bound: text fields that get the focus, in turn
    MaxKeys,     \* bound: key messages
    MaxSets,     \* bound: changes Flutter makes on its own
    NoClient     \* no text field

(* The kinds of characters, by their lengths.                              *)
Characters == {"letter", "newline", "accent", "kana", "emoji"}
FlutterValues == [text : Seq(Characters), base : Int, extent : Int]

ASSUME BoundsAssumption == MaxClients \in Nat /\ MaxKeys \in Nat /\ MaxSets \in Nat
ASSUME TextAssumption == Typed \subseteq Characters /\ Values \subseteq FlutterValues
ASSUME NoClientAssumption == NoClient \notin Nat

VARIABLES
    slot,    \* active_text_input: client, whether Return makes a line, and model
    edits,   \* [Threads -> the messages a thread has made and not yet queued]
    outbox,  \* messages on their way to Flutter
    inbox,   \* Flutter's messages on their way to the platform thread
    conn,    \* Flutter: the client that has the focus
    value,   \* Flutter: its text and selection
    stale,   \* history: the last message to arrive had been overtaken by a change
    clients, keys, sets  \* bounds: how many there were so far

flutterVars == <<conn, value, clients, sets>>
textVars == <<slot, edits, outbox, inbox, flutterVars, stale, keys>>

-----------------------------------------------------------------------------
(* Characters and the two ways to count them.                              *)

Utf8(ch) ==
    CASE ch = "accent" -> 2 [] ch = "kana" -> 3 [] ch = "emoji" -> 4 [] OTHER -> 1
Utf16(ch) == IF ch = "emoji" THEN 2 ELSE 1

(* The first n characters of a text, in bytes and in code units.           *)
Bytes(text, n) == FoldLeft(LAMBDA sum, ch : sum + Utf8(ch), 0, SubSeq(text, 1, n))
Units(text, n) == FoldLeft(LAMBDA sum, ch : sum + Utf16(ch), 0, SubSeq(text, 1, n))
Boundaries(text) == {Bytes(text, n) : n \in 0 .. Len(text)}

snap_to_char_boundary(text, byte) == Max({b \in Boundaries(text) : b <= byte})

(* Both conversions go on to the end of a character they are inside of.    *)
CharsTo(text, offset, Count(_, _)) ==
    IF \E n \in 0 .. Len(text) : Count(text, n) >= offset
    THEN Min({n \in 0 .. Len(text) : Count(text, n) >= offset})
    ELSE Len(text)
utf8_to_utf16(text, byte) == Units(text, CharsTo(text, byte, Bytes))

utf16_to_utf8(text, unit) == Bytes(text, CharsTo(text, unit, Units))

Model(text, base, extent) == [text |-> text, base |-> base, extent |-> extent]
EmptyModel == Model(<<>>, 0, 0)

sanitize_offsets(m) ==
    Model(m.text, snap_to_char_boundary(m.text, m.base), snap_to_char_boundary(m.text, m.extent))

to_flutter_editing_state(m) ==
    [text |-> m.text, base |-> utf8_to_utf16(m.text, m.base),
     extent |-> utf8_to_utf16(m.text, m.extent)]

AtLeast0(n) == IF n < 0 THEN 0 ELSE n
from_flutter_editing_state_Raw(v) ==
    LET Clamp(n) == Min({AtLeast0(n), Bytes(v.text, Len(v.text))})
    IN Model(v.text, Clamp(v.base), Clamp(v.extent))

from_flutter_editing_state(v) ==
    sanitize_offsets(Model(v.text, utf16_to_utf8(v.text, AtLeast0(v.base)),
                                   utf16_to_utf8(v.text, AtLeast0(v.extent))))

(* The character replaces the selection; replace_range panics when an end  *)
(* of it is inside a character, which OffsetsAtCharacters excludes.        *)
CharsIn(text, byte) == CHOOSE n \in 0 .. Len(text) : Bytes(text, n) = byte
insert_char(m, ch) ==
    LET start == Min({m.base, m.extent})
        end == Max({m.base, m.extent})
        cursor == start + Utf8(ch)
        text == SubSeq(m.text, 1, CharsIn(m.text, start)) \o <<ch>>
                   \o SubSeq(m.text, CharsIn(m.text, end) + 1, Len(m.text))
    IN sanitize_offsets(Model(text, cursor, cursor))

-----------------------------------------------------------------------------
NoField == [client |-> NoClient, newline |-> FALSE, model |-> EmptyModel]

TextInit ==
    /\ slot = NoField
    /\ edits = [t \in Threads |-> <<>>]
    /\ outbox = <<>>
    /\ inbox = <<>>
    /\ conn = NoClient
    /\ value = to_flutter_editing_state(EmptyModel)
    /\ stale = FALSE
    /\ clients = 0 /\ keys = 0 /\ sets = 0

(* Key messages.  The model is edited under the lock of active_text_input; *)
(* the messages about it, made of copies, are queued after the lock is     *)
(* released.  `owner` is history: the field the copy was taken from.       *)
Update(m) ==
    [method |-> "updateEditingState", client |-> slot.client, model |-> m, owner |-> slot.client]
Perform == [method |-> "performAction", client |-> slot.client, model |-> EmptyModel,
            owner |-> slot.client]

FieldKey(t) == keys < MaxKeys /\ keys' = keys + 1 /\ edits[t] = <<>> /\ slot.client # NoClient

TypeChar(t) ==
    /\ FieldKey(t)
    /\ \E ch \in Typed :
          LET m == insert_char(slot.model, ch)
          IN /\ slot' = [slot EXCEPT !.model = m]
             /\ edits' = [edits EXCEPT ![t] = <<Update(m)>>]
    /\ UNCHANGED <<outbox, inbox, flutterVars, stale>>

(* A field of one line leaves the text alone.                              *)
TypeReturn_SendsAction(t) ==
    /\ FieldKey(t)
    /\ IF slot.newline
       THEN slot' = [slot EXCEPT !.model = insert_char(@, "newline")]
       ELSE UNCHANGED slot
    /\ edits' = [edits EXCEPT ![t] = <<Perform>>]
    /\ UNCHANGED <<outbox, inbox, flutterVars, stale>>

TypeReturn(t) ==
    /\ FieldKey(t)
    /\ IF slot.newline
       THEN LET m == insert_char(slot.model, "newline")
            IN /\ slot' = [slot EXCEPT !.model = m]
               /\ edits' = [edits EXCEPT ![t] = <<Update(m), Perform>>]
       ELSE edits' = [edits EXCEPT ![t] = <<Perform>>] /\ UNCHANGED slot
    /\ UNCHANGED <<outbox, inbox, flutterVars, stale>>

send_to_flutter_ReadsClient(t) ==
    /\ edits[t] # <<>>
    /\ outbox' = Append(outbox, [Head(edits[t]) EXCEPT !.client = slot.client])
    /\ edits' = [edits EXCEPT ![t] = Tail(@)]
    /\ UNCHANGED <<slot, inbox, flutterVars, stale, keys>>

send_to_flutter(t) ==
    /\ edits[t] # <<>>
    /\ outbox' = Append(outbox, Head(edits[t]))
    /\ edits' = [edits EXCEPT ![t] = Tail(@)]
    /\ UNCHANGED <<slot, inbox, flutterVars, stale, keys>>

(* The platform thread: TextInput's method calls, in the order sent.  A    *)
(* state is applied to whichever field the slot holds, or to none.         *)
apply_text_input_method ==
    /\ inbox # <<>>
    /\ LET call == Head(inbox)
       IN slot' = CASE call.method = "setClient" ->
                         [client |-> call.client, newline |-> call.newline, model |-> EmptyModel]
                    [] call.method = "clearClient" -> NoField
                    [] call.method = "setEditingState" ->
                         IF slot.client = NoClient THEN slot
                         ELSE [slot EXCEPT !.model = from_flutter_editing_state(call.value)]
    /\ stale' = IF Head(inbox).method = "setEditingState" THEN Head(inbox).value # value
                ELSE stale
    /\ inbox' = Tail(inbox)
    /\ UNCHANGED <<edits, outbox, flutterVars, keys>>

-----------------------------------------------------------------------------
(* Flutter's text input.  A field that gets the focus is announced with    *)
(* its value; a selection may be absent (-1), or end inside a character.   *)
Call(method, client, newline, v) ==
    [method |-> method, client |-> client, newline |-> newline, value |-> v]
SetState(v) == Call("setEditingState", NoClient, FALSE, v)

Focus ==
    /\ clients < MaxClients /\ clients' = clients + 1
    /\ conn' = clients + 1
    /\ \E v \in Values, newline \in BOOLEAN :
          /\ value' = v
          /\ inbox' = inbox \o <<Call("setClient", clients + 1, newline, v), SetState(v)>>
    /\ UNCHANGED <<slot, edits, outbox, stale, keys, sets>>

Unfocus ==
    /\ conn # NoClient
    /\ conn' = NoClient
    /\ inbox' = Append(inbox, Call("clearClient", NoClient, FALSE, value))
    /\ UNCHANGED <<slot, edits, outbox, value, stale, clients, keys, sets>>

ChangesText ==
    /\ conn # NoClient
    /\ sets < MaxSets /\ sets' = sets + 1
    /\ \E v \in Values :
          /\ value' = v
          /\ inbox' = Append(inbox, SetState(v))
    /\ UNCHANGED <<slot, edits, outbox, conn, stale, clients, keys>>

(* A message for another field than the focused one is ignored.            *)
ReceiveMessage ==
    /\ outbox # <<>>
    /\ outbox' = Tail(outbox)
    /\ IF Head(outbox).method = "updateEditingState" /\ Head(outbox).client = conn
       THEN /\ value' = to_flutter_editing_state(Head(outbox).model)
            /\ stale' = (slot.client = conn /\ Head(outbox).model # slot.model)
       ELSE UNCHANGED <<value, stale>>
    /\ UNCHANGED <<slot, edits, inbox, conn, clients, keys, sets>>

TextNext ==
    \/ \E t \in Threads : TypeChar(t) \/ TypeReturn(t) \/ send_to_flutter(t)
    \/ apply_text_input_method
    \/ Focus \/ Unfocus \/ ChangesText \/ ReceiveMessage

TextSpec == TextInit /\ [][TextNext]_textVars

-----------------------------------------------------------------------------
(* The selection always ends between characters, whatever Flutter sets and *)
(* the user types: inserting a character at it cannot panic.               *)
OffsetsAtCharacters ==
    {slot.model.base, slot.model.extent} \subseteq Boundaries(slot.model.text)

(* A text is never sent as the text of another field: Flutter, which knows *)
(* a field by its client number, never shows in one field what was typed   *)
(* into another, even when the focus moves between an edit and its message.*)
TextsKeepTheirField == \A i \in DOMAIN outbox : outbox[i].client = outbox[i].owner

(* When nothing is under way, Flutter and the model have the same field    *)
(* and the same text and selection, unless the message that arrived last   *)
(* had been overtaken: sent before a change its receiver's side did not    *)
(* know of.                                                                *)
Quiet == inbox = <<>> /\ outbox = <<>> /\ \A t \in Threads : edits[t] = <<>>
CopiesAgree ==
    Quiet => /\ slot.client = conn
             /\ conn # NoClient /\ ~stale => slot.model = from_flutter_editing_state(value)

=============================================================================
