------------------------- MODULE MCTerminalSession -------------------------
(* The gestures, frames and scenarios TLC checks TerminalSession on.       *)
EXTENDS TerminalSession

-----------------------------------------------------------------------------
(* Gestures: the bytes a terminal sends for them, with legacy keys and with*)
(* kitty's disambiguated ones, and the events they mean.                   *)

Both(bytes, means) == [legacy |-> bytes, kitty |-> bytes, means |-> means]
Text(scalar) == TextEvent(scalar, "press", {})
Csi(params, final) == <<27, 91>> \o params \o <<final>>
PasteOf(content, means) == Both(Csi(<<50, 48, 48>>, 126) \o content \o PasteEnd, means)

KeyA == Both(<<97>>, <<Text(97)>>)
Enter == Both(<<13>>, <<Press("enter")>>)
EscKey == [legacy |-> <<27>>, kitty |-> Csi(<<50, 55>>, 117), means |-> <<Press("escape")>>]
AltK == [legacy |-> <<27, 107>>, kitty |-> Csi(<<49, 48, 55, 59, 51>>, 117), means |-> <<TextEvent(107, "press", {"alt"})>>]
CtrlJ == [legacy |-> <<10>>, kitty |-> Csi(<<49, 48, 54, 59, 53>>, 117), means |-> <<TextEvent(106, "press", {"control"})>>]
CtrlRight == Both(Csi(<<49, 59, 53>>, 67), <<KeyEvent("right", "press", {"control"})>>)
F5 == Both(Csi(<<49, 53>>, 126), <<Press("f5")>>)
WheelUp == Both(Csi(<<>>, 65) \o Csi(<<>>, 65), <<Arrow(TRUE), Arrow(TRUE)>>)
WheelSpin == Both(Csi(<<>>, 65) \o Csi(<<>>, 65) \o Csi(<<>>, 65) \o Csi(<<>>, 65) \o Csi(<<>>, 65), [i \in 1..5 |-> Arrow(TRUE)])
WheelSgr == Both(Csi(<<60, 54, 57, 59, 50, 59, 49>>, 77), <<Wheel(FALSE, 1, 0, {"shift"})>>)
EAcute == Both(<<195, 169>>, <<Text(233)>>)
TornText == Both(<<195, 97>>, <<Rejected("invalid_utf8"), Text(97)>>)
Garbage == Both(<<255, 128>>, <<Rejected("invalid_utf8")>>)
TooLong == Both(Csi([i \in 1..MaxSequence + 1 |-> 49], 65), <<>>)
ArrowPaste == PasteOf(Csi(<<>>, 66) \o Csi(<<>>, 66), <<PasteEvent(Csi(<<>>, 66) \o Csi(<<>>, 66))>>)
LinePaste == PasteOf(<<97, 10, 27>>, <<PasteEvent(<<97, 10, 27>>)>>)
BigPaste == PasteOf([i \in 1..MaxPaste + 1 |-> 97], <<Rejected("paste_too_large")>>)

KittyReply == Csi(<<63, 49>>, 117)
AttributesReply == Csi(<<63, 54, 59, 52>>, 99)

-----------------------------------------------------------------------------
(* Frames of 4 x 1 and 3 x 2 cells: wide glyphs at several columns, glyphs *)
(* of uncertain width, styles and cursors, and three that must be refused. *)

Ascii(s) == [ascii |-> TRUE, symbol |-> s, columns |-> Len(s), safe |-> TRUE]
Cluster(name, n) == [ascii |-> FALSE, symbol |-> <<name>>, columns |-> n, safe |-> TRUE]
Glyph(width, palette, text) == [width |-> width, palette |-> palette, text |-> text]
Styles == <<DefaultPen, Pen(Default, Default, {"bold"}), Pen(Color(1, 1), Color(1, 4), {"bold", "reversed"})>>
At(x, y) == <<[x |-> x, y |-> y, shape |-> 1, visible |-> TRUE]>>
FrameOf(columns, rows, glyphs, cursor) ==
    [columns |-> columns, rows |-> rows, mode |-> 1, palette |-> Styles, cursor |-> cursor, glyphs |-> glyphs]

Letters == Glyph(2, 1, Ascii(<<"a", "b">>))
BoldLetters == Glyph(2, 2, Ascii(<<"a", "b">>))
WideGlyph == Glyph(2, 3, Cluster("wide", 2))
NarrowGlyph == Glyph(2, 1, Cluster("narrow", 1))
Space == Glyph(1, 1, Blank)
Rows4 == { <<Letters, Space, Space>>, <<BoldLetters, NarrowGlyph>>, <<WideGlyph, Letters>>, <<Space, WideGlyph, Space>>,
           <<Glyph(1, 2, Cluster("e", 1)), NarrowGlyph, Space>> }
Frames4 == {FrameOf(4, 1, row, cursor) : row \in Rows4, cursor \in {<<>>, At(1, 0)}}
Frames3 == {FrameOf(3, 2, <<Space, WideGlyph, NarrowGlyph, Space>>, At(0, 1)), FrameOf(3, 2, <<Letters, Space, Space, Letters>>, <<>>)}
Frames2 == {FrameOf(2, 1, <<WideGlyph>>, <<>>)}
RefusedFrames ==
    {FrameOf(4, 1, <<Letters, Space, WideGlyph>>, <<>>), FrameOf(4, 1, <<Letters, Letters>>, At(4, 0)),
     FrameOf(4, 1, <<Letters, Glyph(2, 1, [Ascii(<<"a", "b">>) EXCEPT !.safe = FALSE])>>, <<>>)}

-----------------------------------------------------------------------------
(* Scenarios.                                                              *)

Idle == [typed |-> <<>>, ahead |-> 0, answers |-> <<>>, sizes |-> << <<1, 1>> >>, closes |-> FALSE, mouse |-> FALSE,
         draws |-> 0, extras |-> {}, frames |-> {}]

Short == {KeyA, EscKey, AltK, WheelUp, EAcute, TornText, Garbage, CtrlRight}
MCScenarios ==
    \* any two short gestures, but for bytes that are no text right after an
    \* Escape: there Alt would be part of what is rejected
    {[Idle EXCEPT !.typed = <<p[1], p[2]>>] : p \in (Short \X Short) \ ({EscKey} \X {TornText, Garbage})}
    \* pastes, long sequences and the wheel beside another gesture
    \cup {[Idle EXCEPT !.typed = typed] : typed \in
            {<<ArrowPaste, KeyA>>, <<EscKey, LinePaste>>, <<BigPaste, WheelUp>>, <<TooLong, KeyA>>, <<F5, CtrlJ>>}}
    \cup {[Idle EXCEPT !.typed = <<WheelSgr, EscKey>>, !.mouse = TRUE], [Idle EXCEPT !.typed = <<WheelUp, KeyA>>, !.mouse = TRUE]}
    \* more arrows in one read than a burst counts (MaxScroll is 4 here), alone and beside another gesture
    \cup {[Idle EXCEPT !.typed = typed] : typed \in {<<WheelSpin>>, <<WheelSpin, KeyA>>, <<KeyA, WheelSpin>>, <<WheelSpin, WheelUp>>}}
    \* typed before and during the probe, and after a terminal that knows kitty's keys
    \cup {[Idle EXCEPT !.typed = <<KeyA, Enter, b>>, !.ahead = 2, !.answers = replies] :
            b \in {EscKey, AltK, CtrlJ}, replies \in {<<>>, <<AttributesReply>>, <<KittyReply, AttributesReply>>}}
    \* the terminal hangs up
    \cup {[Idle EXCEPT !.typed = typed, !.closes = TRUE] : typed \in {<<KeyA, EscKey>>, <<EAcute, WheelUp>>}}
    \* frames, at most two of them unprompted, with a redraw and a failed write
    \cup {[Idle EXCEPT !.draws = 2, !.sizes = << <<4, 1>> >>, !.frames = Frames4, !.extras = {"redraw", "failed_write"}]}
    \cup {[Idle EXCEPT !.draws = 1, !.sizes = << <<4, 1>> >>, !.frames = RefusedFrames]}
    \* resizes while typing and drawing
    \cup {[Idle EXCEPT !.draws = 1, !.sizes = << <<4, 1>>, <<3, 2>>, <<2, 1>> >>, !.typed = <<KeyA>>,
                       !.frames = {FrameOf(4, 1, <<WideGlyph, Letters>>, At(1, 0))} \cup Frames3 \cup Frames2]}
=============================================================================
