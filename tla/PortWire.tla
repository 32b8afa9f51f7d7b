------------------------------ MODULE PortWire ------------------------------
(***************************************************************************)
(* The input events on the pipe between the native helper and the BEAM:    *)
(* protocol.rs encodes them, wire.ex decodes them, and each side has its   *)
(* own tables of keys, phases, modifiers and directions.  A payload is the *)
(* sequence of its fields; a text or a paste is carried as one field.      *)
(***************************************************************************)
EXTENDS InputParser

Position(table, name) == CHOOSE i \in DOMAIN table : table[i] = name

-----------------------------------------------------------------------------
(* The helper's side (protocol.rs).                                        *)

PhaseCode(phase) == Position(<<"press", "repeat", "release">>, phase) - 1

\* The keys in the order of their codes; F1 to F12 follow from 32.
CodedKeys ==
    <<"backspace", "enter", "left", "right", "up", "down", "home", "end", "page_up", "page_down", "tab", "back_tab",
      "delete", "insert", "escape", "null", "caps_lock", "scroll_lock", "num_lock", "print_screen", "pause", "menu",
      "keypad_begin">>
KeyCode(key) ==
    IF key \in ToSet(FunctionKeys) THEN 31 + Position(FunctionKeys, key) ELSE Position(CodedKeys, key) - 1

\* The bits of the Modifier enum: Shift, Control, Alt, Super, Hyper, Meta.
ModifierCode(mods) ==
    FoldSet(LAMBDA m, n : n + 2^(Position(<<"shift", "control", "alt", "super", "hyper", "meta">>, m) - 1), 0, mods)

\* encode_event: the payload, or none for an event that breaks a bound.
Encode(event) ==
    CASE event.kind = "key" ->
            Only(<<0, PhaseCode(event.phase), KeyCode(event.key), ModifierCode(event.mods)>>)
      [] event.kind = "text" ->
            Only(<<1, PhaseCode(event.phase), ModifierCode(event.mods), event.text>>)
      [] event.kind = "paste" ->
            IF Len(event.text) > MaxPaste THEN None ELSE Only(<<2, event.text>>)
      [] event.kind = "rejected" ->
            Only(<<3, Position(<<"invalid_utf8", "text_fragment_too_large", "paste_too_large">>, event.why) - 1>>)
      [] event.kind = "focus_gained" -> Only(<<4>>)
      [] event.kind = "focus_lost" -> Only(<<5>>)
      [] event.kind = "wheel" ->
            Only(<<6, IF event.up THEN 0 ELSE 1, ModifierCode(event.mods), event.column, event.row>>)
      [] event.kind = "scroll" ->
            IF event.count \notin 1..MaxScroll THEN None ELSE Only(<<7, IF event.up THEN 1 ELSE 0, event.count>>)

-----------------------------------------------------------------------------
(* The BEAM's side (wire.ex).                                              *)

WireKeys ==
    <<"backspace", "enter", "left", "right", "up", "down", "home", "end", "page_up", "page_down", "tab", "back_tab",
      "delete", "insert", "escape", "null", "caps_lock", "scroll_lock", "num_lock", "print_screen", "pause", "menu",
      "keypad_begin">>
WirePhases == <<"press", "repeat", "release">>
WireRejections == <<"invalid_utf8", "text_fragment_too_large", "paste_too_large">>
WireModifiers(code) ==
    LET names == <<"shift", "control", "alt", "super", "hyper", "meta">>
    IN {names[i] : i \in BitsOf(code)}

\* payload, then Input.validate: the input event, or none for a record that is refused.
Decode(payload) ==
    LET field(i) == payload[i + 1]
        tag == payload[1]
    IN CASE tag = 0 /\ field(1) <= 2 /\ field(3) < 64 /\ (field(2) <= 22 \/ field(2) \in 32..43) ->
                Only(KeyEvent(IF field(2) <= 22 THEN WireKeys[field(2) + 1] ELSE FunctionKeys[field(2) - 31],
                              WirePhases[field(1) + 1], WireModifiers(field(3))))
         [] tag = 1 /\ field(1) <= 2 /\ field(2) < 64 ->
                Only(TextEvent(field(3), WirePhases[field(1) + 1], WireModifiers(field(2))))
         [] tag = 2 /\ Len(field(1)) <= MaxPaste /\ ValidUtf8(field(1)) -> Only(PasteEvent(field(1)))
         [] tag = 3 /\ field(1) <= 2 -> Only(Rejected(WireRejections[field(1) + 1]))
         [] tag = 4 -> Only([kind |-> "focus_gained"])
         [] tag = 5 -> Only([kind |-> "focus_lost"])
         [] tag = 6 /\ field(1) \in {0, 1} /\ field(2) < 64 ->
                Only(Wheel(field(1) = 0, field(3), field(4), WireModifiers(field(2))))
         [] tag = 7 /\ field(1) \in {0, 1} /\ field(2) \in 1..32 -> Only(Scroll(field(1) = 1, field(2)))
         [] OTHER -> None
=============================================================================
