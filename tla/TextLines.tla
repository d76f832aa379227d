------------------------------ MODULE TextLines ------------------------------
(***************************************************************************)
(* tui/editor/cursor.rs and wrap.rs: where the cursor of the prompt is and *)
(* where a key takes it.                                                   *)
(*                                                                         *)
(* A text is a sequence of characters; a position is, as in the code, a    *)
(* number of BYTES, so it may be inside a character.  "e" stands for a     *)
(* letter of two bytes, "w" for one of three bytes that is two columns     *)
(* wide, "nl" for a line break; every other character is one byte and one  *)
(* column.  A segment of a soft-wrapped line, and a visual line, name      *)
(* characters: start and end count those before them.                      *)
(***************************************************************************)
EXTENDS Naturals, Sequences, SequencesExt, FiniteSetsExt

Bytes(c) == CASE c = "e" -> 2 [] c = "w" -> 3 [] OTHER -> 1
Columns(c) == IF c = "w" THEN 2 ELSE 1

Size(t) == FoldSeq(LAMBDA c, n : n + Bytes(c), 0, t)
Width(t) == FoldSeq(LAMBDA c, n : n + Columns(c), 0, t)

(* The position after n characters, and the characters that end at or      *)
(* before a position (last_char_boundary_at_or_before).                    *)
At(t, n) == Size(SubSeq(t, 1, n))
CharsBefore(t, p) == Max({n \in 0..Len(t) : At(t, n) <= p})
OnBoundary(t, p) == \E n \in 0..Len(t) : At(t, n) = p

(* The character that starts at p, if one does.                            *)
StartsAt(t, p, c) == \E n \in DOMAIN t : At(t, n - 1) = p /\ t[n] = c

Inserted(t, p, c) == InsertAt(t, CharsBefore(t, p) + 1, c)
Removed(t, p) == RemoveAt(t, CharsBefore(t, p) + 1)

(* The lines of a text, and the position its line i (from 1) starts at.    *)
Breaks(t) == SelectSeq([i \in DOMAIN t |-> i], LAMBDA i : t[i] = "nl")
Lines(t) ==
    LET b == <<0>> \o Breaks(t) \o <<Len(t) + 1>>
    IN  [i \in 1..(Len(b) - 1) |-> SubSeq(t, b[i] + 1, b[i + 1] - 1)]
LineStart(t, i) == FoldSeq(LAMBDA l, n : n + Size(l) + 1, 0, SubSeq(Lines(t), 1, i - 1))

(* cursor_line_col: a position on a line break belongs to the line before. *)
LineOf(t, p) == Max({i \in DOMAIN Lines(t) : LineStart(t, i) <= p})
ColumnOf(t, p) == p - LineStart(t, LineOf(t, p))

-----------------------------------------------------------------------------
(* The keys that move by characters and lines.                             *)

CursorLeft(t, p) == LET n == CharsBefore(t, p) IN IF n = 0 THEN 0 ELSE At(t, n - 1)

(* char_width_at rounds down, the addition does not: from inside a         *)
(* character the cursor lands inside the next one, or past the end.        *)
CursorRight(t, p) == IF p >= Size(t) THEN p ELSE p + Bytes(t[CharsBefore(t, p) + 1])

CursorHome(t, p) == LineStart(t, LineOf(t, p))
CursorEnd(t, p) == LineStart(t, LineOf(t, p)) + Size(Lines(t)[LineOf(t, p)])

(* cursor_backspace.  On a line break it removes that break, the character *)
(* AT the cursor, and steps one byte back.                                 *)
Backspace(t, p) ==
    LET n == CharsBefore(t, p)
    IN  CASE p = 0 \/ t = <<>> -> [text |-> t, pos |-> p]
          [] p > 0 /\ StartsAt(t, p, "nl") -> [text |-> Removed(t, p), pos |-> p - 1]
          [] OTHER -> IF n = 0 THEN [text |-> t, pos |-> p]
                      ELSE [text |-> RemoveAt(t, n), pos |-> p - Bytes(t[n])]

-----------------------------------------------------------------------------
(* Soft wrapping.                                                          *)

(* wrap_line: a segment is closed before the character that does not fit.  *)
WrapLine(line, width) ==
    LET Step(s, i) ==
            IF s.width > 0 /\ s.width + Columns(line[i]) > width
            THEN [done |-> Append(s.done, [start |-> s.start, end |-> i - 1]),
                  start |-> i - 1, width |-> Columns(line[i])]
            ELSE [s EXCEPT !.width = @ + Columns(line[i])]
        last == FoldLeft(Step, [done |-> <<>>, start |-> 0, width |-> 0], [i \in DOMAIN line |-> i])
    IN  Append(last.done, [start |-> last.start, end |-> Len(line)])

(* build_visual_lines.                                                     *)
VisualLines(t, width) ==
    FlattenSeq([i \in DOMAIN Lines(t) |->
        LET w == WrapLine(Lines(t)[i], width)
        IN  [k \in DOMAIN w |-> [line |-> i, start |-> w[k].start, end |-> w[k].end]]])
Segment(t, v) == SubSeq(Lines(t)[v.line], v.start + 1, v.end)

(* cursor_visual_pos: the first segment that ends at or after the cursor,  *)
(* so a position between two segments is shown at the end of the first.    *)
VisualPos(t, p, width) ==
    LET Within(line, chars, n, vs) ==
            LET row == Min({i \in DOMAIN vs : vs[i].line = line /\ n <= vs[i].end})
            IN  [row |-> row, col |-> Width(SubSeq(chars, vs[row].start + 1, n))]
        On(line) ==
            LET chars == Lines(t)[line]
            IN  Within(line, chars, CharsBefore(chars, p - LineStart(t, line)), VisualLines(t, width))
    IN  On(LineOf(t, p))

(* display_width_to_byte_offset: the characters of a segment that fit in a *)
(* number of columns.                                                      *)
Fitting(seg, cols) == Max({n \in 0..Len(seg) : Width(SubSeq(seg, 1, n)) <= cols})

(* cursor_up_visual and cursor_down_visual: the same column of another     *)
(* visual line, or its end.                                                *)
ToVisual(t, v, cols) ==
    LET seg == Segment(t, v)
    IN  LineStart(t, v.line)
          + At(Lines(t)[v.line], v.start + Fitting(seg, Min({cols, Width(seg)})))
CursorUpVisual(t, p, width) ==
    LET From(at, vs) == IF t = <<>> \/ at.row = 1 THEN p ELSE ToVisual(t, vs[at.row - 1], at.col)
    IN  From(VisualPos(t, p, width), VisualLines(t, width))
(* A fault: the row it is on instead of the one below.                     *)
FaultCursorDownVisual(t, p, width) ==
    LET From(at, vs) == IF t = <<>> \/ at.row = Len(vs) THEN p ELSE ToVisual(t, vs[at.row], at.col)
    IN  From(VisualPos(t, p, width), VisualLines(t, width))
CursorDownVisual(t, p, width) ==
    LET From(at, vs) == IF t = <<>> \/ at.row = Len(vs) THEN p ELSE ToVisual(t, vs[at.row + 1], at.col)
    IN  From(VisualPos(t, p, width), VisualLines(t, width))

(* A fault: the window follows the cursor a row late.                      *)
FaultWindowStart(row, total, rows) ==
    LET visible == Min({total, rows})
    IN  Min({IF row > visible THEN row - visible ELSE 0, total - visible})
(* renderer.rs: the first of the visual lines that a prompt of some rows   *)
(* shows, centred on the row of the cursor and clamped to the end.         *)
WindowStart(row, total, rows) ==
    LET visible == Min({total, rows})
    IN  Min({IF row > visible \div 2 THEN row - (visible \div 2) ELSE 0, total - visible})

(* layout.rs: the rows of the prompt, counted at the width of the terminal *)
(* though the text is wrapped two columns sooner.                          *)
InputHeight(t, terminal, maxRows) == Min({Len(VisualLines(t, terminal)), maxRows})
=============================================================================
