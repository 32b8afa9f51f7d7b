---------------------------- MODULE InputParser ----------------------------
(***************************************************************************)
(* The incremental parser that turns the bytes of a terminal into input    *)
(* events: src/native/terminal_port/src/input.rs.  It keeps a state and    *)
(* the paste it collects, has no clock and does no IO, and answers with at *)
(* most one event at a time, so that each event can wait for a credit.     *)
(*                                                                         *)
(* A byte is a number.  What the code calls Option is a sequence of at     *)
(* most one element, and an event is a record; the text of a scalar is its *)
(* code point and a set of modifiers is a set of names.                    *)
(***************************************************************************)
EXTENDS Integers, SequencesExt

CONSTANTS
    MaxPaste,       \* input.rs MAX_PASTE_BYTES (262144)
    MaxSequence,    \* input.rs MAX_SEQUENCE_BYTES (64)
    MaxScroll       \* input.rs MAX_SCROLL_COUNT (32)

ASSUME ParserAssumption == {MaxPaste, MaxSequence, MaxScroll} \subseteq Nat \ {0}

Byte == 0..255
Esc == 27
Digits == 48..57
Semicolon == 59
Colon == 58
PasteEnd == <<27, 91, 50, 48, 49, 126>>           \* ESC [ 2 0 1 ~

Only(x) == <<x>>
None == <<>>

KeyEvent(key, phase, mods) == [kind |-> "key", key |-> key, phase |-> phase, mods |-> mods]
TextEvent(scalar, phase, mods) == [kind |-> "text", text |-> scalar, phase |-> phase, mods |-> mods]
PasteEvent(bytes) == [kind |-> "paste", text |-> bytes]
Rejected(why) == [kind |-> "rejected", why |-> why]
Wheel(up, column, row, mods) == [kind |-> "wheel", up |-> up, column |-> column, row |-> row, mods |-> mods]
Scroll(up, count) == [kind |-> "scroll", up |-> up, count |-> count]
Press(key) == KeyEvent(key, "press", {})

-----------------------------------------------------------------------------
(* Numbers, modifiers and the fields of a sequence.                        *)

\* split: the fields of bytes between the separators.
Fields(bytes, separator) ==
    LET cuts == SetToSortSeq({0, Len(bytes) + 1} \cup {i \in DOMAIN bytes : bytes[i] = separator}, <)
    IN [i \in 1..Len(cuts) - 1 |-> SubSeq(bytes, cuts[i] + 1, cuts[i + 1] - 1)]

\* No field that is read here may be above the last scalar: every number
\* beyond it is refused by its reader, as one that overflows u32 is.
LastScalar == 1114111

Decimal(bytes) ==
    LET Add(n, b) == IF n < 0 \/ b \notin Digits \/ n * 10 + b - 48 > LastScalar THEN -1 ELSE n * 10 + b - 48
        n == FoldLeft(Add, 0, bytes)
    IN IF bytes = <<>> \/ n < 0 THEN None ELSE Only(n)

\* The names of the modifier bits, in the order of the terminal's encoding.
ModifierBits == <<"shift", "alt", "control", "super", "hyper", "meta">>

BitsOf(n) == {i \in 1..6 : (n \div 2^(i - 1)) % 2 = 1}

ModifiersOf(n) ==
    IF n = None \/ n[1] \notin 1..256 THEN None ELSE Only({ModifierBits[i] : i \in BitsOf(n[1] - 1)})
Modifiers(parameter) == ModifiersOf(Decimal(parameter))

\* from_utf8 of the bytes of one scalar: its code point, or none.
Scalar(bytes) ==
    LET n == Len(bytes)
        lead == bytes[1] % (CASE n = 2 -> 32 [] n = 3 -> 16 [] n = 4 -> 8)
        code == FoldLeft(LAMBDA c, b : c * 64 + (b % 64), lead, Tail(bytes))
        least == <<0, 128, 2048, 65536>>[n]
    IN IF code < least \/ code > LastScalar \/ code \in 55296..57343 THEN None ELSE Only(code)

Continuation(byte) == byte \in 128..191

\* The length a lead byte announces, 0 if it is none.
Announced(byte) == CASE byte \in 192..223 -> 2 [] byte \in 224..239 -> 3 [] byte \in 240..247 -> 4 [] OTHER -> 0

\* from_utf8 of a whole paste.
ValidUtf8(bytes) ==
    LET Ok[i \in 1..Len(bytes) + 1] ==
            \/ i > Len(bytes)
            \/ bytes[i] < 128 /\ Ok[i + 1]
            \/ LET n == Announced(bytes[i]) IN
               /\ n > 0
               /\ i + n - 1 <= Len(bytes)
               /\ \A j \in i + 1..i + n - 1 : Continuation(bytes[j])
               /\ Scalar(SubSeq(bytes, i, i + n - 1)) # None
               /\ Ok[i + n]
    IN Ok[1]

-----------------------------------------------------------------------------
(* What a complete control sequence means.                                 *)

FunctionKeys == <<"f1", "f2", "f3", "f4", "f5", "f6", "f7", "f8", "f9", "f10", "f11", "f12">>

\* CSI n ~ and CSI letter (or SS3 letter): the key of each.
TildeKeys ==
    (1 :> "home") @@ (7 :> "home") @@ (2 :> "insert") @@ (3 :> "delete") @@ (4 :> "end") @@ (8 :> "end")
    @@ (5 :> "page_up") @@ (6 :> "page_down")
    @@ [n \in 11..15 |-> FunctionKeys[n - 10]] @@ [n \in 17..21 |-> FunctionKeys[n - 11]]
    @@ [n \in 23..24 |-> FunctionKeys[n - 12]]
LetterKeys ==
    (65 :> "up") @@ (66 :> "down") @@ (67 :> "right") @@ (68 :> "left") @@ (72 :> "home") @@ (70 :> "end")
    @@ (69 :> "keypad_begin") @@ (90 :> "back_tab") @@ [n \in 80..83 |-> FunctionKeys[n - 79]]

\* Kitty's CSI n u: the keys with a code of their own, those of the private
\* range in order, and the range that is kept from the editor.
KittyRange ==
    <<"escape", "enter", "tab", "backspace", "insert", "delete", "left", "right", "up", "down", "page_up",
      "page_down", "home", "end", "caps_lock", "scroll_lock", "num_lock", "print_screen", "pause", "menu">>
      \o FunctionKeys
KittyKeys ==
    (0 :> "null") @@ (8 :> "backspace") @@ (127 :> "backspace") @@ (9 :> "tab") @@ (10 :> "enter")
    @@ (13 :> "enter") @@ (27 :> "escape") @@ (57427 :> "keypad_begin")
    @@ [n \in 57344..57375 |-> KittyRange[n - 57343]]
Functional == 57344..63743
ControlScalar(n) == n \in 0..31 \cup 127..159
Surrogate(n) == n \in 55296..57343
Phases == <<"press", "repeat", "release">>

\* A key or a scalar, the modifiers and the phase, each unless it could not be read.
KittyEvent(code, mods, nth) ==
    IF None \in {code, mods, nth} \/ nth[1] \notin DOMAIN Phases THEN None
    ELSE IF code[1] \in DOMAIN KittyKeys THEN Only(KeyEvent(KittyKeys[code[1]], Phases[nth[1]], mods[1]))
    ELSE IF ControlScalar(code[1]) \/ Surrogate(code[1]) \/ code[1] \in Functional THEN None
    ELSE Only(TextEvent(code[1], Phases[nth[1]], mods[1]))
KittyFields(fields, pieces) ==
    IF Len(fields) > 2 \/ Len(pieces) > 2 THEN None
    ELSE KittyEvent(Decimal(fields[1]),
                    IF pieces = None THEN Only({}) ELSE Modifiers(pieces[1]),
                    IF Len(pieces) > 1 THEN Decimal(pieces[2]) ELSE Only(1))
WithPieces(fields) == KittyFields(fields, IF Len(fields) > 1 THEN Fields(fields[2], Colon) ELSE None)
DecodeCsiU(params) == WithPieces(Fields(params, Semicolon))

\* Only a press of the wheel (64 up, 65 down, plus the modifiers' bits) is an event.
WheelBits == [shift |-> 4, alt |-> 8, control |-> 16]
WheelEvent(button, column, row) ==
    IF \/ None \in {button, column, row}
       \/ column[1] \notin 1..65535 \/ row[1] \notin 1..65535
       \/ button[1] \notin 64..95 \/ button[1] % 4 \notin {0, 1}
    THEN None
    ELSE Only(Wheel(button[1] % 4 = 0, column[1] - 1, row[1] - 1,
                    {m \in DOMAIN WheelBits : (button[1] \div WheelBits[m]) % 2 = 1}))
MouseFields(fields, final) ==
    IF Len(fields) # 3 \/ final # 77 THEN None
    ELSE WheelEvent(Decimal(fields[1]), Decimal(fields[2]), Decimal(fields[3]))
DecodeSgrMouse(params, final) == MouseFields(Fields(params, Semicolon), final)

NamedKey(code, mods, final, tilde) ==
    IF \/ None \in {code, mods}
       \/ tilde /\ code[1] \notin DOMAIN TildeKeys
       \/ ~tilde /\ (code[1] # 1 \/ final \notin DOMAIN LetterKeys)
    THEN None
    ELSE Only(KeyEvent(IF tilde THEN TildeKeys[code[1]] ELSE LetterKeys[final], "press", mods[1]))
KeyFields(fields, final, tilde) ==
    IF Len(fields) > 2 THEN None
    ELSE NamedKey(IF fields[1] = <<>> THEN Only(1) ELSE Decimal(fields[1]),
                  IF Len(fields) = 2 THEN Modifiers(fields[2]) ELSE Only({}), final, tilde)
DecodeKey(params, final, ss3) == KeyFields(Fields(params, Semicolon), final, final = 126 /\ ~ss3)

DecodeSequence(params, final, ss3) ==
    CASE ~ss3 /\ final = 117 -> DecodeCsiU(params)
      [] ~ss3 /\ final \in {77, 109} /\ params # <<>> /\ Head(params) = 60 -> DecodeSgrMouse(Tail(params), final)
      [] ~ss3 /\ params = <<>> /\ final = 73 -> Only([kind |-> "focus_gained"])
      [] ~ss3 /\ params = <<>> /\ final = 79 -> Only([kind |-> "focus_lost"])
      [] OTHER -> DecodeKey(params, final, ss3)

-----------------------------------------------------------------------------
(* One byte.  A parser is [state, paste]; the state is taken before the    *)
(* byte is looked at, so that whatever does not set another ends in Ground.*)

Ground == [at |-> "ground"]
Escape == [at |-> "escape"]
Sequence(bytes, ss3) == [at |-> "sequence", bytes |-> bytes, ss3 |-> ss3]
ControlString(osc, escape) == [at |-> "control", osc |-> osc, escape |-> escape]
Paste(matched, discard) == [at |-> "paste", matched |-> matched, discard |-> discard]
Utf8(bytes, mods) == [at |-> "utf8", bytes |-> bytes, mods |-> mods]
Simple(name) == [at |-> name]

NewParser == [state |-> Ground, paste |-> <<>>]

\* What reading a byte does: the next state, the paste kept and the event, if any.
To(state, paste) == [parser |-> [state |-> state, paste |-> paste], event |-> None]
Say(state, paste, event) == [parser |-> [state |-> state, paste |-> paste], event |-> event]

\* A byte outside any sequence: a key, a control letter, a printable, a UTF-8 lead.
Ordinary(byte, mods, paste) ==
    LET keys == (0 :> "null") @@ (13 :> "enter") @@ (9 :> "tab") @@ (8 :> "backspace") @@ (127 :> "backspace")
        Text(scalar, with) == Say(Ground, paste, Only(TextEvent(scalar, "press", mods \cup with)))
    IN CASE byte \in DOMAIN keys -> Say(Ground, paste, Only(KeyEvent(keys[byte], "press", mods)))
         [] byte = Esc -> To(Escape, paste)
         [] byte \in 1..26 \ DOMAIN keys -> Text(byte + 96, {"control"})
         [] byte \in 28..31 -> Text(byte + 64, {"control"})
         [] byte \in 32..126 -> Text(byte, {})
         [] Announced(byte) > 0 -> To(Utf8(<<byte>>, mods), paste)
         [] OTHER -> Say(Simple("invalid_continuations"), paste, Only(Rejected("invalid_utf8")))

InEscape(byte, paste) ==
    CASE byte = 91 -> To(Sequence(<<>>, FALSE), paste)
      [] byte = 79 -> To(Sequence(<<>>, TRUE), paste)
      [] byte = 93 -> To(ControlString(TRUE, FALSE), paste)
      [] byte \in {80, 88, 95, 94} -> To(ControlString(FALSE, FALSE), paste)
      [] byte = Esc -> Say(Escape, paste, Only(Press("escape")))
      [] byte \in 33..47 -> To(Simple("escape_intermediate"), paste)
      [] OTHER -> Ordinary(byte, {"alt"}, paste)

\* Mutant: a sequence is kept whole however long it is.
InSequenceUnbounded(state, byte, paste) ==
    CASE byte \in 64..126 -> Say(Ground, paste, DecodeSequence(state.bytes, byte, state.ss3))
      [] byte \in 32..63 -> To(Sequence(Append(state.bytes, byte), state.ss3), paste)
      [] OTHER -> To(Simple("discard_sequence"), paste)

InSequence(state, byte, paste) ==
    LET kept == Len(state.bytes) < MaxSequence
    IN CASE byte \in 64..126 /\ kept /\ ~state.ss3 /\ byte = 126 /\ state.bytes = <<50, 48, 48>> ->
                To(Paste(0, FALSE), paste)
         [] byte \in 64..126 /\ kept -> Say(Ground, paste, DecodeSequence(state.bytes, byte, state.ss3))
         [] byte \in 64..126 /\ ~kept -> To(Ground, paste)
         [] byte \in 32..63 /\ kept -> To(Sequence(Append(state.bytes, byte), state.ss3), paste)
         [] OTHER -> To(Simple("discard_sequence"), paste)

InPaste(state, byte, paste) ==
    LET again == IF byte = PasteEnd[1] THEN 1 ELSE 0
        more == SubSeq(PasteEnd, 1, state.matched) \o (IF again = 0 THEN <<byte>> ELSE <<>>)
    IN CASE byte = PasteEnd[state.matched + 1] /\ state.matched + 1 < Len(PasteEnd) ->
                To(Paste(state.matched + 1, state.discard), paste)
         [] byte = PasteEnd[state.matched + 1] /\ state.matched + 1 = Len(PasteEnd) ->
                IF state.discard THEN To(Ground, paste)
                ELSE Say(Ground, <<>>, Only(IF ValidUtf8(paste) THEN PasteEvent(paste) ELSE Rejected("invalid_utf8")))
         [] OTHER ->
                IF state.discard THEN To(Paste(again, TRUE), paste)
                ELSE IF Len(more) > MaxPaste - Len(paste)
                THEN Say(Paste(again, TRUE), <<>>, Only(Rejected("paste_too_large")))
                ELSE To(Paste(again, FALSE), paste \o more)

\* A byte in the other states, the UTF-8 continuation included.
InOther(state, byte, paste) ==
    CASE state.at = "ground" -> Ordinary(byte, {}, paste)
      [] state.at = "escape_intermediate" -> To(IF byte \in 48..126 THEN Ground ELSE state, paste)
      [] state.at = "invalid_continuations" -> IF Continuation(byte) THEN To(state, paste) ELSE Ordinary(byte, {}, paste)
      [] state.at = "discard_sequence" -> To(IF byte \in 64..126 THEN Ground ELSE state, paste)
      [] state.at = "control" ->
            To(IF (state.osc /\ byte = 7) \/ (state.escape /\ byte = 92) THEN Ground
               ELSE ControlString(state.osc, byte = Esc), paste)
      [] state.at = "utf8" ->
            LET bytes == Append(state.bytes, byte) IN
            IF Len(bytes) < Announced(bytes[1]) THEN To(Utf8(bytes, state.mods), paste)
            ELSE Say(Ground, paste, Only(IF Scalar(bytes) = None THEN Rejected("invalid_utf8")
                                         ELSE TextEvent(Scalar(bytes)[1], "press", state.mods)))

ReadByte(parser, byte) ==
    CASE parser.state.at = "escape" -> InEscape(byte, parser.paste)
      [] parser.state.at = "sequence" -> InSequence(parser.state, byte, parser.paste)
      [] parser.state.at = "paste" -> InPaste(parser.state, byte, parser.paste)
      [] OTHER -> InOther(parser.state, byte, parser.paste)

\* A scalar that ends too early is rejected before its byte is consumed.
Torn(parser, byte) == parser.state.at = "utf8" /\ ~Continuation(byte)

\* advance: bytes are read until one of them completes an event.
Counted(read, consumed) == [parser |-> read.parser, event |-> read.event, consumed |-> consumed]
Advance(parser, bytes) ==
    LET Read(step, byte) ==
            IF step.event # None THEN step
            ELSE IF Torn(step.parser, byte)
            THEN [step EXCEPT !.parser.state = Ground, !.event = Only(Rejected("invalid_utf8"))]
            ELSE Counted(ReadByte(step.parser, byte), step.consumed + 1)
    IN FoldLeft(Read, [parser |-> parser, event |-> None, consumed |-> 0], bytes)

IsGround(parser) == parser.state = Ground
PendingEscape(parser) == parser.state = Escape

\* expire_escape: the 40 ms of the owner are over.
ExpireEscape(parser) ==
    IF PendingEscape(parser) THEN [parser |-> [parser EXCEPT !.state = Ground], event |-> Only(Press("escape"))]
    ELSE [parser |-> parser, event |-> None]

\* finish: the terminal hung up; what is incomplete never becomes text.
Finish(parser) ==
    CASE PendingEscape(parser) -> Only(Press("escape"))
      [] parser.state.at = "utf8" -> Only(Rejected("invalid_utf8"))
      [] OTHER -> None

\* retained_bytes: the content kept between two calls.
RetainedBytes(parser) ==
    LET state == parser.state
    IN Len(parser.paste)
       + CASE state.at \in {"utf8", "sequence"} -> Len(state.bytes)
           [] state.at = "paste" -> state.matched
           [] state.at = "escape" -> 1
           [] state.at = "control" -> IF state.escape THEN 1 ELSE 0
           [] OTHER -> 0

-----------------------------------------------------------------------------
(* What the session does with the bytes of one read before it parses them. *)

\* typeahead_enter: a LF among the first `cooked` bytes was Enter.
TypeaheadEnter(bytes, cooked) ==
    [i \in DOMAIN bytes |-> IF i <= cooked /\ bytes[i] = 10 THEN 13 ELSE bytes[i]]
StillCooked(bytes, cooked) == IF Len(bytes) < cooked THEN cooked - Len(bytes) ELSE 0

\* arrow_burst: nothing but two or more of the same arrow is the wheel.
ArrowBurst(bytes) ==
    LET chunk == SubSeq(bytes, 1, 3)
        count == Len(bytes) \div 3
    IN IF /\ Len(bytes) >= 6 /\ Len(bytes) % 3 = 0
          /\ chunk[1] = Esc /\ chunk[2] \in {91, 79} /\ chunk[3] \in {65, 66}
          /\ \A i \in DOMAIN bytes : bytes[i] = chunk[1 + ((i - 1) % 3)]
       THEN Only(Scroll(chunk[3] = 65, IF count < MaxScroll THEN count ELSE MaxScroll))
       ELSE None

\* probe_reply: the length of an answer to the probe at the head of bytes, 0
\* if there is none: ESC [ ? then digits, ; and : then u or c.
ProbeReply(bytes) ==
    LET last == IF Len(bytes) < MaxSequence + 3 THEN Len(bytes) ELSE MaxSequence + 3
        ends == {i \in 4..last : bytes[i] \notin Digits \cup {Semicolon, Colon}}
        i == CHOOSE j \in ends : \A k \in ends : j <= k
    IN IF ends # {} /\ SubSeq(bytes, 1, 3) = <<Esc, 91, 63>> /\ bytes[i] \in {117, 99} THEN i ELSE 0

\* take_probe_replies: the bytes without the answers, and which answers came.
TakeProbeReplies(bytes) ==
    LET From[i \in 1..Len(bytes) + 1] ==
            IF i > Len(bytes) THEN [bytes |-> <<>>, kitty |-> FALSE, attributes |-> FALSE]
            ELSE LET n == ProbeReply(SubSeq(bytes, i, Len(bytes)))
                     rest == From[i + (IF n = 0 THEN 1 ELSE n)]
                 IN IF n = 0 THEN [rest EXCEPT !.bytes = <<bytes[i]>> \o @]
                    ELSE IF bytes[i + n - 1] = 117 THEN [rest EXCEPT !.kitty = TRUE]
                    ELSE [rest EXCEPT !.attributes = TRUE]
    IN From[1]
=============================================================================
