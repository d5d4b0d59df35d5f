------------------------------ MODULE Terminal ------------------------------
(***************************************************************************)
(* The terminal: ScreenModel of terminal-model/src/screen_model.rs, fed by *)
(* the escape-sequence parser, the scroll keys and the scroll setting, and *)
(* the painter of src/screen.rs that copies what changed to the display.   *)
(*                                                                         *)
(* Rows and columns count from 0, as in the code.  A cell is a character;  *)
(* its attributes, and the overlay (see Ptt), are left out.  A parameter p *)
(* of a sequence is what the parser delivers: 0 when it is absent.         *)
(***************************************************************************)
EXTENDS Integers, Sequences

CONSTANTS Rows, Cols,      \* the screen's size in cells
          MaxSafe,         \* max_safe_scrollback
          Glyphs,          \* what the host prints
          Params           \* parameters of escape sequences and settings

ASSUME TerminalAssumption ==
    /\ Rows \in Nat \ {0} /\ Cols \in Nat \ {0} /\ MaxSafe \in Nat \ {0}
    /\ " " \notin Glyphs
    /\ Params \subseteq Nat

VARIABLES lines, scrollback, viewport_offset, max_scrollback,
          cursor_x, cursor_y,
          scroll_top, scroll_bottom,
          full_repaint,
          panicked          \* an index ran past the end of a row

view   == <<viewport_offset, full_repaint>>
cursor == <<cursor_x, cursor_y>>
region == <<scroll_top, scroll_bottom>>
vars   == <<lines, scrollback, max_scrollback, view, cursor, region, panicked>>

ScreenRows == 0..(Rows - 1)
Columns    == 0..(Cols - 1)
Least(a, b)    == IF a < b THEN a ELSE b
Greatest(a, b) == IF a > b THEN a ELSE b

\* ScreenLine::new
NewLine == [chars |-> [x \in Columns |-> " "], dirty |-> TRUE]

\* ScreenLine::erase: blanks the columns from start up to, not with, end.
Erased(line, start, end) ==
    [chars |-> [x \in Columns |-> IF start <= x /\ x < end THEN " " ELSE line.chars[x]],
     dirty |-> TRUE]

\* The last n of a sequence, or all of it.
LastOf(s, n) == IF Len(s) <= n THEN s ELSE SubSeq(s, Len(s) - n + 1, Len(s))

\* scrollback after rows were pushed, each push followed by the trim.
Pushed(rows) == LastOf(scrollback \o rows, max_scrollback)

\* lines after the rows top..bottom have moved up by n.
Shifted(top, bottom, n) ==
    [y \in ScreenRows |-> IF y < top \/ y > bottom THEN lines[y]
                          ELSE IF y + n <= bottom THEN lines[y + n] ELSE NewLine]

Top(n) == [y \in 1..n |-> lines[y - 1]]

\* Mutant of Index: an absent position is not the first one.
IndexFromZero(p) == p - 1

\* cursor_move_count and cursor_pos_index
Count(p) == Greatest(p, 1)
Index(p) == Greatest(p, 1) - 1

\* reset_view
ResetView ==
    /\ viewport_offset' = 0
    /\ full_repaint' = (full_repaint \/ viewport_offset # 0)

Init ==
    /\ lines = [y \in ScreenRows |-> NewLine]
    /\ scrollback = <<>> /\ max_scrollback = MaxSafe
    /\ viewport_offset = 0 /\ full_repaint = TRUE
    /\ cursor_x = 0 /\ cursor_y = 0
    /\ scroll_top = 0 /\ scroll_bottom = Rows - 1
    /\ panicked = FALSE

-----------------------------------------------------------------------------
(* Printing and control characters.                                        *)

\* A character after the last column goes to the next row, scrolled in if
\* need be; after a character the cursor may stand past the last column.
PrintChar(c) ==
    LET wraps   == cursor_x >= Cols
        scrolls == wraps /\ cursor_y = Rows - 1
        x       == IF wraps THEN 0 ELSE cursor_x
        y       == IF wraps /\ ~scrolls THEN cursor_y + 1 ELSE cursor_y
        under   == IF scrolls THEN Shifted(0, Rows - 1, 1) ELSE lines
    IN /\ lines' = [under EXCEPT ![y] = [chars |-> [@.chars EXCEPT ![x] = c],
                                         dirty |-> TRUE]]
       /\ scrollback' = IF scrolls THEN Pushed(Top(1)) ELSE scrollback
       /\ cursor_x' = x + 1 /\ cursor_y' = y
       /\ viewport_offset' = 0
       /\ full_repaint' = (full_repaint \/ viewport_offset # 0 \/ scrolls)
       /\ UNCHANGED <<max_scrollback, region, panicked>>

LineFeed ==
    IF cursor_y = Rows - 1
    THEN /\ scrollback' = Pushed(Top(1))
         /\ lines' = Shifted(0, Rows - 1, 1)
         /\ viewport_offset' = 0 /\ full_repaint' = TRUE
         /\ UNCHANGED <<max_scrollback, cursor, region, panicked>>
    ELSE /\ cursor_y' = cursor_y + 1
         /\ ResetView
         /\ UNCHANGED <<lines, scrollback, max_scrollback, cursor_x, region,
                        panicked>>

\* Carriage return, backspace, and the control characters that do nothing.
Control ==
    /\ \/ cursor_x' = 0
       \/ cursor_x > 0 /\ cursor_x' = cursor_x - 1
       \/ UNCHANGED cursor_x
    /\ ResetView
    /\ UNCHANGED <<lines, scrollback, max_scrollback, cursor_y, region, panicked>>

-----------------------------------------------------------------------------
(* Escape sequences; none of them resets the view.                         *)

\* CSI A, B, C, D, H, f and d.
MoveCursor(p, q) ==
    /\ \/ cursor_y' = Greatest(cursor_y - Count(p), 0) /\ UNCHANGED cursor_x
       \/ cursor_y' = Least(cursor_y + Count(p), Rows - 1) /\ UNCHANGED cursor_x
       \/ cursor_x' = Least(cursor_x + Count(p), Cols - 1) /\ UNCHANGED cursor_y
       \/ cursor_x' = Greatest(cursor_x - Count(p), 0) /\ UNCHANGED cursor_y
       \/ /\ cursor_y' = Least(Index(p), Rows - 1)
          /\ cursor_x' = Least(Index(q), Cols - 1)
       \/ cursor_y' = Least(Index(p), Rows - 1) /\ UNCHANGED cursor_x
    /\ UNCHANGED <<lines, scrollback, max_scrollback, view, region, panicked>>

\* Erasing up to the cursor indexes the cell under it: there is none when it
\* stands past the last column.
ErasesPastEnd == cursor_x >= Cols

Panics == /\ panicked' = TRUE
          /\ UNCHANGED <<lines, scrollback, max_scrollback, view, cursor, region>>

\* ScreenModel::clear, for CSI 2J and the shell's cls.
Clear ==
    /\ lines' = [y \in ScreenRows |-> NewLine]
    /\ cursor_x' = 0 /\ cursor_y' = 0
    /\ viewport_offset' = 0 /\ full_repaint' = TRUE
    /\ UNCHANGED <<scrollback, max_scrollback, region, panicked>>

\* CSI J: below the cursor, above it, everything.
EraseDisplay(p) ==
    \/ /\ p = 0
       /\ lines' = [y \in ScreenRows |->
                        IF y < cursor_y THEN lines[y]
                        ELSE IF y > cursor_y THEN NewLine
                        ELSE Erased(lines[y], cursor_x, Cols)]
       /\ UNCHANGED <<scrollback, max_scrollback, view, cursor, region, panicked>>
    \/ /\ p = 1
       /\ IF ErasesPastEnd THEN Panics
          ELSE /\ lines' = [y \in ScreenRows |->
                               IF y < cursor_y THEN NewLine
                               ELSE IF y > cursor_y THEN lines[y]
                               ELSE Erased(lines[y], 0, cursor_x + 1)]
               /\ UNCHANGED <<scrollback, max_scrollback, view, cursor, region, panicked>>
    \/ p = 2 /\ Clear

\* The columns CSI K p erases, from the first up to the second; the row is
\* marked dirty whatever p is.
EraseLine(p) ==
    LET from == IF p = 0 THEN cursor_x ELSE 0
        to   == CASE p = 0 \/ p = 2 -> Cols [] p = 1 -> cursor_x + 1 [] OTHER -> 0
    IN IF p = 1 /\ ErasesPastEnd THEN Panics
       ELSE /\ lines' = [lines EXCEPT ![cursor_y] = Erased(@, from, to)]
            /\ UNCHANGED <<scrollback, max_scrollback, view, cursor, region, panicked>>

\* CSI X
EraseChars(p) ==
    /\ lines' = [lines EXCEPT ![cursor_y] =
                     Erased(@, cursor_x, Least(cursor_x + Count(p), Cols))]
    /\ UNCHANGED <<scrollback, max_scrollback, view, cursor, region, panicked>>

\* CSI r; one that asks for less than two rows changes nothing.
SetRegion(p, q) ==
    LET top    == Least(Index(p), Rows - 1)
        bottom == IF q = 0 THEN Rows - 1 ELSE Least(q - 1, Rows - 1)
    IN /\ top < bottom
       /\ scroll_top' = top /\ scroll_bottom' = bottom
       /\ UNCHANGED <<lines, scrollback, max_scrollback, view, cursor, panicked>>

\* Mutant of ScrollUp: the rows a region discards go to the scrollback too.
ScrollUpKeepsAll(p) ==
    LET n == Least(Count(p), scroll_bottom - scroll_top + 1)
    IN /\ scroll_top < scroll_bottom
       /\ lines' = Shifted(scroll_top, scroll_bottom, n)
       /\ scrollback' = Pushed([y \in 1..n |-> lines[scroll_top + y - 1]])
       /\ full_repaint' = TRUE
       /\ UNCHANGED <<max_scrollback, viewport_offset, cursor, region, panicked>>

\* CSI S: the region moves up by p rows; what leaves the top of the screen
\* goes to the scrollback, what leaves a region further down is discarded.
ScrollUp(p) ==
    LET n == Least(Count(p), scroll_bottom - scroll_top + 1)
    IN /\ scroll_top < scroll_bottom
       /\ lines' = Shifted(scroll_top, scroll_bottom, n)
       /\ scrollback' = IF scroll_top = 0 THEN Pushed(Top(n)) ELSE scrollback
       /\ full_repaint' = TRUE
       /\ UNCHANGED <<max_scrollback, viewport_offset, cursor, region, panicked>>

-----------------------------------------------------------------------------
(* The keys, the setting and the painter.                                  *)

\* Mutant of ScrollView: no repaint.
ScrollViewQuiet ==
    /\ \/ viewport_offset' = Least(viewport_offset + 1, Len(scrollback))
       \/ viewport_offset' = Greatest(viewport_offset - 1, 0)
    /\ UNCHANGED <<lines, scrollback, max_scrollback, full_repaint, cursor, region, panicked>>

\* scroll_view_up(1) and scroll_view_down(1)
ScrollView ==
    /\ \/ viewport_offset' = Least(viewport_offset + 1, Len(scrollback))
       \/ viewport_offset' = Greatest(viewport_offset - 1, 0)
    /\ full_repaint' = TRUE
    /\ UNCHANGED <<lines, scrollback, max_scrollback, cursor, region, panicked>>

\* Mutant of SetMaxScrollback: the view is not brought back.
SetMaxKeepsView(max) ==
    /\ max_scrollback' = Least(max, MaxSafe)
    /\ scrollback' = LastOf(scrollback, max_scrollback')
    /\ UNCHANGED <<lines, view, cursor, region, panicked>>

\* set_max_scrollback
SetMaxScrollback(max) ==
    /\ max_scrollback' = Least(max, MaxSafe)
    /\ scrollback' = LastOf(scrollback, max_scrollback')
    /\ viewport_offset' = Least(viewport_offset, Len(scrollback'))
    /\ UNCHANGED <<lines, full_repaint, cursor, region, panicked>>

\* Row y of the display shows this row of scrollback \o lines.
RowIndex(y) == Len(scrollback) - viewport_offset + y
ViewRow(y) == IF RowIndex(y) < Len(scrollback) THEN scrollback[RowIndex(y) + 1]
              ELSE lines[RowIndex(y) - Len(scrollback)]

\* Is row y repainted by the next frame?
Repainted(y) == full_repaint \/ ViewRow(y).dirty

\* Every row the view shows is brought up to date, and is then clean.
Paint ==
    LET first   == Len(scrollback) - viewport_offset
        Clean(l) == [l EXCEPT !.dirty = FALSE]
    IN /\ scrollback' = [i \in 1..Len(scrollback) |->
                            IF i - 1 >= first /\ i - 1 < first + Rows THEN Clean(scrollback[i])
                            ELSE scrollback[i]]
       /\ lines' = [y \in ScreenRows |->
                       IF y + viewport_offset < Rows THEN Clean(lines[y]) ELSE lines[y]]
       /\ full_repaint' = FALSE
       /\ UNCHANGED <<viewport_offset, max_scrollback, cursor, region, panicked>>

Host == \/ \E c \in Glyphs : PrintChar(c)
        \/ LineFeed \/ Control
        \/ \E p, q \in Params : MoveCursor(p, q) \/ SetRegion(p, q)
        \/ \E p \in Params : \/ EraseDisplay(p) \/ EraseLine(p) \/ EraseChars(p)
                             \/ ScrollUp(p)

User == ScrollView \/ Clear \/ \E max \in Params : SetMaxScrollback(max)

Next == ~panicked /\ (Host \/ User \/ Paint)

Spec == Init /\ [][Next]_vars

-----------------------------------------------------------------------------
Line == [chars : [Columns -> Glyphs \cup {" "}], dirty : BOOLEAN]

TypeText == lines \in [ScreenRows -> Line] /\ scrollback \in Seq(Line)
TypePlaces == /\ max_scrollback \in 0..MaxSafe
              /\ viewport_offset \in Nat
              /\ cursor_x \in 0..Cols /\ cursor_y \in ScreenRows
              /\ scroll_top \in ScreenRows /\ scroll_bottom \in ScreenRows
TypeFlags == full_repaint \in BOOLEAN /\ panicked \in BOOLEAN

\* Every variable stays in its range: the cursor may stand one past the last
\* column, nothing else leaves the screen.
TypeOK == TypeText /\ TypePlaces /\ TypeFlags

(* Whatever the order of output, scroll keys, regions and settings, the    *)
(* scrollback stays within its limit, the limit within the heap's budget,  *)
(* and the view within the scrollback (screen_model.rs:232-247, 370-385,   *)
(* 461-477).                                                               *)
HistoryBounded == /\ Len(scrollback) <= max_scrollback
                  /\ viewport_offset <= Len(scrollback)

(* A step that changes what a row of the view shows leaves the row to be   *)
(* repainted, and only the painter takes a row off that list: the display  *)
(* shows what the model holds (screen.rs:186-188, 273-275).  Cutting the   *)
(* scrollback under a view that shows it is not covered.                   *)
DisplayFollows ==
    [][\/ Paint
       \/ viewport_offset' # viewport_offset /\ max_scrollback' # max_scrollback
       \/ \A y \in ScreenRows : Repainted(y) \/ ViewRow(y)' # ViewRow(y) => Repainted(y)']_vars

Text(s) == [i \in 1..Len(s) |-> s[i].chars]

(* Text is never lost or doubled on its way up.  A step moves one range of *)
(* rows, the whole screen or the region, up by n: every row of the range   *)
(* shows what the one n below it showed, the last n go blank, the others   *)
(* stay.  What leaves the screen at its top becomes the newest history, in *)
(* order, and the oldest gives way; what leaves a region further down is   *)
(* discarded.  Nothing else goes blank unless nothing moves; the row the   *)
(* cursor is left in may be written (screen_model.rs:300-352).             *)
TextMovesUp ==
    [][\E range \in {<<0, Rows - 1>>, region} :
       LET top    == range[1]
           bottom == range[2]
       IN \E n \in 0..(bottom - top + 1) :
          /\ Text(scrollback') =
                 LastOf(Text(scrollback \o Top(IF top = 0 THEN n ELSE 0)), max_scrollback')
          /\ \A y \in ScreenRows :
                \/ y = cursor_y'
                \/ n = 0 /\ lines'[y].chars = NewLine.chars
                \/ lines'[y].chars = IF y < top \/ y > bottom THEN lines[y].chars
                                     ELSE IF y + n <= bottom THEN lines[y + n].chars
                                     ELSE NewLine.chars]_vars

(* Erasing blanks cells of a row: [start, end) is within it                *)
(* (screen_model.rs:176).                                                  *)
EraseStaysInRow == ~panicked
=============================================================================
