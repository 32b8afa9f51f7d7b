---------------------------- MODULE FramePainter ----------------------------
(***************************************************************************)
(* How the native helper turns a draw frame into terminal output: the      *)
(* checks of frame.rs, the projection to a grid of cells and the painter of*)
(* output.rs, which writes only what changed since the frame before.  The  *)
(* output is a sequence of terminal commands; what they do to a screen is  *)
(* modelled below as that of an external terminal.                         *)
(*                                                                         *)
(* Columns and rows count from 0.  A text is [ascii, symbol, columns, safe]:*)
(* its characters if it is ASCII, one cluster otherwise; columns is what   *)
(* the terminal advances for it, which the painter never looks at unless   *)
(* the text is ASCII; safe says that it has no control characters.         *)
(***************************************************************************)
EXTENDS Integers, SequencesExt

CONSTANTS MaxColumns, MaxRows   \* frame.rs: 500 columns, 200 rows

ASSUME PainterAssumption == {MaxColumns, MaxRows} \subseteq Nat \ {0}

Color(class, value) == [class |-> class, value |-> value]
Default == Color(0, 0)
Pen(fg, bg, mods) == [fg |-> fg, bg |-> bg, mods |-> mods]
DefaultPen == Pen(Default, Default, {})
Attributes == {"bold", "dim", "italic", "underlined", "reversed"}
Blank == [ascii |-> TRUE, symbol |-> <<" ">>, columns |-> 1, safe |-> TRUE]

-----------------------------------------------------------------------------
(* The frame: DrawFrame::decode accepts it only if its glyphs tile the grid*)
(* row by row, nothing sticks out and no text can steer the terminal.      *)

\* The position of a glyph: the columns of all the glyphs before it.
Start(frame, i) == FoldLeft(LAMBDA n, g : n + g.width, 0, SubSeq(frame.glyphs, 1, i - 1))

\* The color of a palette entry needs its color mode (1 ANSI, 2 indexed, 3 RGB).
ColorAllowed(color, mode) == color.class <= mode /\ (color.class = 1 => color.value < 16)

Decodes(frame) ==
    LET cells == frame.columns * frame.rows
        cursor == frame.cursor
    IN /\ frame.columns \in 1..MaxColumns /\ frame.rows \in 1..MaxRows
       /\ frame.mode \in 0..3
       /\ Len(frame.palette) \in 1..4096
       /\ cursor # <<>> => /\ cursor[1].x < frame.columns /\ cursor[1].y < frame.rows
                           /\ cursor[1].shape \in 0..2
       /\ Len(frame.glyphs) \in 1..cells
       /\ \A i \in DOMAIN frame.palette :
            /\ ColorAllowed(frame.palette[i].fg, frame.mode) /\ ColorAllowed(frame.palette[i].bg, frame.mode)
            /\ frame.palette[i].mods \subseteq Attributes
       /\ \A i \in DOMAIN frame.glyphs :
            LET glyph == frame.glyphs[i] IN
            /\ glyph.width \in 1..MaxColumns
            /\ (Start(frame, i) % frame.columns) + glyph.width <= frame.columns
            /\ Start(frame, i) < cells
            /\ glyph.palette \in DOMAIN frame.palette
            /\ glyph.text.symbol # <<>> /\ glyph.text.safe
       /\ Start(frame, Len(frame.glyphs) + 1) = cells

\* project: the grid of cells.  Only the lead of a glyph has its text and width.
Project(frame) ==
    [y \in 0..frame.rows - 1 |-> [x \in 0..frame.columns - 1 |->
        LET at == y * frame.columns + x
            i == CHOOSE i \in DOMAIN frame.glyphs :
                    Start(frame, i) <= at /\ at < Start(frame, i) + frame.glyphs[i].width
            glyph == frame.glyphs[i]
            lead == at = Start(frame, i)
        IN [pen |-> frame.palette[glyph.palette], lead |-> IF lead THEN glyph.width ELSE 0,
            text |-> IF lead THEN glyph.text ELSE Blank]]]

-----------------------------------------------------------------------------
(* The painter.  A pencil is what it knows of the terminal while it writes *)
(* one frame: its pen and its cursor, if known, whether it wrote a cell,   *)
(* and the commands written so far.                                        *)

NewPencil == [pen |-> <<>>, at |-> <<>>, painted |-> FALSE, out |-> <<>>]
Write(pencil, commands) == [pencil EXCEPT !.out = @ \o commands]
Command(name) == [op |-> name]
If(condition, commands) == IF condition THEN commands ELSE <<>>

Colored(name, color) == <<[op |-> name, color |-> color]>>
WithAttributes(set) == If(set # {}, <<[op |-> "attributes", set |-> set]>>)

\* set_pen: the difference if no modifier has to go, else from a reset.
SetPen(pencil, pen) ==
    LET now == pencil.pen[1]
        set == [pencil EXCEPT !.pen = <<pen>>]
    IN IF pencil.pen = <<pen>> THEN pencil
       ELSE IF pencil.pen # <<>> /\ now.mods \subseteq pen.mods
       THEN Write(set, If(now.fg # pen.fg, Colored("fg", pen.fg)) \o If(now.bg # pen.bg, Colored("bg", pen.bg))
                       \o WithAttributes(pen.mods \ now.mods))
       ELSE Write(set, <<Command("reset")>> \o If(pen.fg # Default, Colored("fg", pen.fg))
                       \o If(pen.bg # Default, Colored("bg", pen.bg)) \o WithAttributes(pen.mods))

MoveTo(pencil, x, y) ==
    IF pencil.at = << <<x, y>> >> THEN pencil
    ELSE Write([pencil EXCEPT !.at = << <<x, y>> >>], <<[op |-> "move", x |-> x, y |-> y]>>)

LeadWidth(cell) == IF cell.lead > 0 THEN cell.lead ELSE 1

\* A glyph whose advance is certain: ASCII, as long as its declared width.
Exact(cell) == cell.lead > 0 => cell.text.ascii /\ Len(cell.text.symbol) = cell.lead

\* The columns to repaint: from the first to the last changed cell, widened
\* until both frames have a glyph boundary at each end; nothing if none changed.
Span(row, old) ==
    LET columns == DOMAIN row
        changed == {x \in columns : row[x] # old[1][x]}
        Continues(x) == x \in columns /\ 0 \in {row[x].lead, old[1][x].lead}
        first == CHOOSE x \in changed : \A z \in changed : x <= z
        last == CHOOSE x \in changed : \A z \in changed : x >= z
        from == CHOOSE x \in 0..first : /\ x = 0 \/ ~Continues(x)
                                        /\ \A z \in x + 1..first : Continues(z)
        to == CHOOSE x \in last + 1..Cardinality(columns) : ~Continues(x) /\ \A z \in last + 1..x - 1 : Continues(z)
    IN IF old = <<>> THEN <<[from |-> 0, to |-> Cardinality(columns)]>>
       ELSE IF changed = {} THEN <<>>
       ELSE <<[from |-> from, to |-> to]>>

\* Mutant: the cursor is taken to stand after the declared width of any glyph.
PaintGlyphTrusting(pencil, cell, x, y, columns) ==
    LET width == LeadWidth(cell)
        placed == MoveTo(SetPen(pencil, cell.pen), x, y)
    IN Write([placed EXCEPT !.at = If(x + width < columns, << <<x + width, y>> >>)], <<[op |-> "print", text |-> cell.text]>>)

\* glyph: an uncertain glyph first reserves its columns with spaces, and
\* leaves the cursor unknown.
PaintGlyph(pencil, cell, x, y, columns) ==
    LET width == LeadWidth(cell)
        placed == MoveTo(SetPen(pencil, cell.pen), x, y)
        reserved == Write([placed EXCEPT !.at = <<>>], [i \in 1..width |-> [op |-> "print", text |-> Blank]])
        ready == IF ~Exact(cell) /\ width > 1 THEN MoveTo(reserved, x, y) ELSE placed
        known == Exact(cell) /\ x + width < columns
    IN Write([ready EXCEPT !.at = If(known, << <<x + width, y>> >>)], <<[op |-> "print", text |-> cell.text]>>)

\* The columns at which the glyphs of a span begin.
Leads(row, span) ==
    LET From[x \in Nat] == IF x >= span.to THEN <<>> ELSE <<x>> \o From[x + LeadWidth(row[x])]
    IN From[span.from]

PaintRow(pencil, y, row, old) ==
    LET span == Span(row, old)
        columns == Cardinality(DOMAIN row)
        begun == IF pencil.painted THEN pencil
                 ELSE Write([pencil EXCEPT !.painted = TRUE], <<[op |-> "sync", on |-> TRUE], Command("hide")>>)
        cleared ==
            IF old = <<>> THEN Write(MoveTo(SetPen(begun, DefaultPen), 0, y), <<Command("erase_line")>>)
            ELSE IF \E x \in span[1].from..span[1].to - 1 : ~Exact(old[1][x])
            THEN Write(MoveTo(begun, span[1].from, y), <<[op |-> "erase", count |-> span[1].to - span[1].from]>>)
            ELSE begun
    IN IF span = <<>> THEN pencil
       ELSE FoldLeft(LAMBDA p, x : PaintGlyph(p, row[x], x, y, columns), cleared, Leads(row, span[1]))

PlaceCursor(cursor) ==
    IF cursor = <<>> THEN <<Command("hide")>>
    ELSE <<[op |-> "shape", shape |-> cursor[1].shape], [op |-> "move", x |-> cursor[1].x, y |-> cursor[1].y],
           Command(IF cursor[1].visible THEN "show" ELSE "hide")>>

\* paint: previous is the frame on the screen, if it is known, and frame the next.
Paint(previous, frame) ==
    LET rows == Project(frame)
        same == previous # <<>> /\ previous[1].columns = frame.columns /\ previous[1].rows = frame.rows
        before == IF same THEN Project(previous[1]) ELSE <<>>
        cells == FoldLeft(LAMBDA p, y : PaintRow(p, y, rows[y], IF same THEN <<before[y]>> ELSE <<>>),
                          NewPencil, [i \in 1..frame.rows |-> i - 1])
        reset == If(cells.painted /\ cells.pen # <<DefaultPen>>, <<Command("reset")>>)
        moved == previous = <<>> \/ previous[1].cursor # frame.cursor
    IN cells.out \o reset \o If(cells.painted \/ moved, PlaceCursor(frame.cursor))
       \o If(cells.painted, <<[op |-> "sync", on |-> FALSE]>>)

-----------------------------------------------------------------------------
(* The terminal (external): a grid of cells, a cursor that never wraps, a  *)
(* pen, and glyphs that vanish as a whole when one of their cells is hit.  *)

Cell(symbol, pen, start, span) == [symbol |-> symbol, pen |-> pen, start |-> start, span |-> span]
Erased(pen, x) == Cell(" ", Pen(Default, pen.bg, {}), x, 1)

\* What a terminal shows when it is taken over, or after its size changed.
UnknownScreen(columns, rows) ==
    [columns |-> columns, rows |-> rows, x |-> 0, y |-> 0, pen |-> DefaultPen, visible |-> TRUE, shape |-> 0, sync |-> FALSE,
     cells |-> [y \in 0..rows - 1 |-> [x \in 0..columns - 1 |-> Cell("?", DefaultPen, x, 1)]]]

\* The row after new cells took the columns of `taken`.
Overwrite(row, taken, new) ==
    LET hit == {x \in DOMAIN row : \E z \in taken : row[x].start <= z /\ z < row[x].start + row[x].span}
    IN [x \in DOMAIN row |-> IF x \in taken THEN new[x]
                             ELSE IF x \in hit THEN Cell(" ", row[x].pen, x, 1) ELSE row[x]]

PrintCluster(screen, symbol, width) ==
    LET last == screen.columns - 1
        taken == screen.x..(IF screen.x + width - 1 < last THEN screen.x + width - 1 ELSE last)
        new == [x \in taken |-> Cell(symbol, screen.pen, screen.x, Cardinality(taken))]
    IN [screen EXCEPT !.cells[screen.y] = Overwrite(@, taken, new),
                      !.x = IF @ + width <= last THEN @ + width ELSE last]

Erase(screen, count) ==
    LET last == screen.columns - 1
        taken == screen.x..(IF screen.x + count - 1 < last THEN screen.x + count - 1 ELSE last)
    IN [screen EXCEPT !.cells[screen.y] = Overwrite(@, taken, [x \in taken |-> Erased(screen.pen, x)])]

Obey(screen, command) ==
    CASE command.op = "reset" -> [screen EXCEPT !.pen = DefaultPen]
      [] command.op = "fg" -> [screen EXCEPT !.pen.fg = command.color]
      [] command.op = "bg" -> [screen EXCEPT !.pen.bg = command.color]
      [] command.op = "attributes" -> [screen EXCEPT !.pen.mods = @ \cup command.set]
      [] command.op = "move" -> [screen EXCEPT !.x = command.x, !.y = command.y]
      [] command.op = "print" ->
            IF command.text.ascii THEN FoldLeft(LAMBDA s, c : PrintCluster(s, c, 1), screen, command.text.symbol)
            ELSE PrintCluster(screen, command.text.symbol[1], command.text.columns)
      [] command.op = "erase_line" -> Erase(screen, screen.columns)
      [] command.op = "erase" -> Erase(screen, command.count)
      [] command.op \in {"hide", "show"} -> [screen EXCEPT !.visible = command.op = "show"]
      [] command.op = "shape" -> [screen EXCEPT !.shape = command.shape]
      [] command.op = "sync" -> [screen EXCEPT !.sync = command.on]

After(screen, commands) == FoldLeft(Obey, screen, commands)

-----------------------------------------------------------------------------
(* What a frame should look like: every glyph at its place, in its style,  *)
(* followed by blanks of its style up to its declared width.               *)

ShownCell(frame, x, y) ==
    LET at == y * frame.columns + x
        i == CHOOSE i \in DOMAIN frame.glyphs : Start(frame, i) <= at /\ at < Start(frame, i) + frame.glyphs[i].width
        glyph == frame.glyphs[i]
        pen == frame.palette[glyph.palette]
        k == at - Start(frame, i)
    IN IF k >= glyph.text.columns THEN Cell(" ", pen, x, 1)
       ELSE IF glyph.text.ascii THEN Cell(glyph.text.symbol[k + 1], pen, x, 1)
       ELSE Cell(glyph.text.symbol[1], pen, x - k, glyph.text.columns)

Shows(screen, frame) ==
    /\ screen.columns = frame.columns /\ screen.rows = frame.rows
    /\ \A y \in 0..frame.rows - 1, x \in 0..frame.columns - 1 : screen.cells[y][x] = ShownCell(frame, x, y)
    /\ screen.visible = (frame.cursor # <<>> /\ frame.cursor[1].visible)
    /\ frame.cursor # <<>> => /\ screen.x = frame.cursor[1].x /\ screen.y = frame.cursor[1].y
                              /\ screen.shape = frame.cursor[1].shape
    /\ screen.pen = DefaultPen /\ ~screen.sync
=============================================================================
