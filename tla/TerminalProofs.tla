--------------------------- MODULE TerminalProofs ---------------------------
(***************************************************************************)
(* Proofs about Terminal: for every screen size and scrollback limit the   *)
(* cursor and the region stay on the screen, the scrollback within its     *)
(* limit and the view within the scrollback; what changes on the view is   *)
(* repainted, and text moves up without being lost or doubled.             *)
(***************************************************************************)
EXTENDS Terminal, TLAPS

Safe == TypeOK /\ HistoryBounded

-----------------------------------------------------------------------------
\* The constants are numbers.
LEMMA Sizes ==
    /\ Rows \in Nat /\ Rows > 0 /\ Cols \in Nat /\ Cols > 0
    /\ MaxSafe \in Nat /\ MaxSafe > 0
    /\ Params \subseteq Nat
<1>1. /\ Rows \in Nat \ {0} /\ Cols \in Nat \ {0} /\ MaxSafe \in Nat \ {0}
      /\ Params \subseteq Nat
  BY TerminalAssumption, Zenon DEF TerminalAssumption
<1> QED
  BY <1>1

(* What the helpers return.                                                *)

\* The last n of a sequence are at most n, and all of it if it is shorter.
LEMMA LastOfBounds ==
    ASSUME NEW S, NEW s \in Seq(S), NEW n \in Nat
    PROVE  /\ LastOf(s, n) \in Seq(S)
           /\ Len(LastOf(s, n)) = Least(Len(s), n)
<1>1. CASE Len(s) <= n
  BY <1>1 DEF LastOf, Least
<1>2. CASE ~(Len(s) <= n)
  <2>1. Len(s) - n + 1 \in 1..(Len(s) + 1)
    BY <1>2
  <2>2. LastOf(s, n) = SubSeq(s, Len(s) - n + 1, Len(s))
    BY <1>2 DEF LastOf
  <2> QED
    BY <1>2, <2>1, <2>2 DEF Least
<1> QED
  BY <1>1, <1>2

\* Lines and cells are what the model calls them.
LEMMA LineTypes ==
    /\ NewLine \in Line
    /\ \A line \in Line, a, b \in Int : Erased(line, a, b) \in Line
    /\ \A line \in Line : [line EXCEPT !.dirty = FALSE] \in Line
  BY DEF NewLine, Erased, Line

\* Moving rows up leaves a screen of lines.
LEMMA ShiftedType ==
    ASSUME lines \in [ScreenRows -> Line],
           NEW top \in ScreenRows, NEW bottom \in ScreenRows, NEW n \in Nat
    PROVE  Shifted(top, bottom, n) \in [ScreenRows -> Line]
<1>1. NewLine \in Line
  BY LineTypes
<1> SUFFICES ASSUME NEW y \in ScreenRows
             PROVE  (IF y < top \/ y > bottom THEN lines[y]
                     ELSE IF y + n <= bottom THEN lines[y + n] ELSE NewLine) \in Line
  BY DEF Shifted
<1>2. lines[y] \in Line
  OBVIOUS
<1>3. ASSUME y + n <= bottom
      PROVE  lines[y + n] \in Line
  <2>1. y + n \in ScreenRows
    BY <1>3, Sizes DEF ScreenRows
  <2> QED
    BY <2>1
<1> QED
  BY <1>1, <1>2, <1>3

\* What leaves the top of the screen is a sequence of lines.
LEMMA TopType ==
    ASSUME lines \in [ScreenRows -> Line], NEW n \in 0..Rows
    PROVE  Top(n) \in Seq(Line) /\ Len(Top(n)) = n
<1>1. ASSUME NEW y \in 1..n
      PROVE  lines[y - 1] \in Line
  <2>1. y - 1 \in ScreenRows
    BY Sizes DEF ScreenRows
  <2> QED
    BY <2>1
<1>2. n \in Nat
  BY Sizes
<1>3. Top(n) \in [1..n -> Line]
  BY <1>1 DEF Top
<1> QED
  BY <1>2, <1>3

\* Rows pushed on the scrollback stay within its limit, and never make it
\* shorter.
LEMMA PushedBounds ==
    ASSUME TypeText, TypePlaces, HistoryBounded, NEW n \in 0..Rows
    PROVE  /\ Pushed(Top(n)) \in Seq(Line)
           /\ Len(Pushed(Top(n))) <= max_scrollback
           /\ Len(Pushed(Top(n))) >= Len(scrollback)
<1>1. Top(n) \in Seq(Line) /\ Len(Top(n)) = n
  BY TopType DEF TypeText
<1>2. /\ scrollback \in Seq(Line) /\ Len(scrollback) <= max_scrollback
      /\ max_scrollback \in Nat
  BY Sizes DEF TypeText, TypePlaces, HistoryBounded
<1>3. /\ scrollback \o Top(n) \in Seq(Line)
      /\ Len(scrollback \o Top(n)) = Len(scrollback) + n
  BY <1>1, <1>2
<1>4. /\ Pushed(Top(n)) \in Seq(Line)
      /\ Len(Pushed(Top(n))) = Least(Len(scrollback) + n, max_scrollback)
  BY <1>2, <1>3, LastOfBounds DEF Pushed
<1>5. n \in Nat /\ Len(scrollback) \in Nat
  BY <1>2, Sizes
<1> QED
  BY <1>2, <1>4, <1>5 DEF Least

-----------------------------------------------------------------------------
\* A new terminal is empty, with its cursor in the corner.
LEMMA InitSafe == Init => Safe
<1> SUFFICES ASSUME Init PROVE Safe
  OBVIOUS
<1>1. TypeText
  BY LineTypes DEF Init, TypeText
<1>2. TypePlaces
  BY Sizes DEF Init, TypePlaces, ScreenRows
<1>3. TypeFlags
  BY DEF Init, TypeFlags
<1>4. HistoryBounded
  BY Sizes DEF Init, HistoryBounded
<1> QED
  BY <1>1, <1>2, <1>3, <1>4 DEF Safe, TypeOK

\* No step leads out of the ranges.
LEMMA StepSafe == Safe /\ [Next]_vars => Safe'
<1> SUFFICES ASSUME TypeText, TypePlaces, TypeFlags, HistoryBounded, [Next]_vars
             PROVE  Safe'
  BY DEF Safe, TypeOK
<1>0. /\ Rows \in Nat /\ Cols \in Nat /\ Rows > 0 /\ Cols > 0
      /\ ScreenRows = 0..(Rows - 1) /\ Rows - 1 \in ScreenRows
      /\ 0 \in ScreenRows /\ 1 \in 0..Rows
  BY Sizes DEF ScreenRows
<1>1. ASSUME NEW c \in Glyphs, PrintChar(c)
      PROVE  Safe'
  <2> DEFINE wraps   == cursor_x >= Cols
             scrolls == wraps /\ cursor_y = Rows - 1
             x       == IF wraps THEN 0 ELSE cursor_x
             y       == IF wraps /\ ~scrolls THEN cursor_y + 1 ELSE cursor_y
             under   == IF scrolls THEN Shifted(0, Rows - 1, 1) ELSE lines
             written == [chars |-> [under[y].chars EXCEPT ![x] = c], dirty |-> TRUE]
  <2>1. x \in Columns /\ y \in ScreenRows
    BY <1>0 DEF TypePlaces, Columns
  <2>2. under \in [ScreenRows -> Line]
    BY <1>0, ShiftedType DEF TypeText
  <2>3. written \in Line
    BY <2>1, <2>2 DEF Line
  <2>4. lines' = [under EXCEPT ![y] = written]
    BY <1>1, <2>2 DEF PrintChar
  <2>5. scrollback' = IF scrolls THEN Pushed(Top(1)) ELSE scrollback
    BY <1>1 DEF PrintChar
  <2>6. TypeText'
    BY <1>0, <2>1, <2>2, <2>3, <2>4, <2>5, PushedBounds DEF TypeText
  <2>7. cursor_x' = x + 1 /\ cursor_y' = y /\ viewport_offset' = 0
    BY <1>1 DEF PrintChar
  <2>8. TypePlaces'
    <3>1. max_scrollback' = max_scrollback /\ scroll_top' = scroll_top
          /\ scroll_bottom' = scroll_bottom
      BY <1>1 DEF PrintChar, region
    <3>2. cursor_x' \in 0..Cols /\ cursor_y' \in ScreenRows
      BY <1>0, <2>1, <2>7 DEF Columns
    <3> QED
      BY <2>7, <3>1, <3>2 DEF TypePlaces
  <2>9. TypeFlags'
    BY <1>1 DEF PrintChar, TypeFlags
  <2>10. HistoryBounded'
    <3>1. max_scrollback' = max_scrollback
      BY <1>1 DEF PrintChar
    <3>2. CASE scrolls
      BY <1>0, <2>5, <2>7, <3>1, <3>2, PushedBounds DEF HistoryBounded
    <3>3. CASE ~scrolls
      BY <2>5, <2>7, <3>1, <3>3 DEF HistoryBounded, TypeText
    <3> QED
      BY <3>2, <3>3
  <2> QED
    BY <2>6, <2>8, <2>9, <2>10 DEF Safe, TypeOK
<1>2. CASE LineFeed
  <2>1. CASE cursor_y = Rows - 1
    <3>1. TypeText'
      BY <1>0, <1>2, <2>1, PushedBounds, ShiftedType DEF LineFeed, TypeText
    <3>2. TypePlaces'
      BY <1>2, <2>1 DEF LineFeed, TypePlaces, cursor, region
    <3>3. TypeFlags'
      BY <1>2, <2>1 DEF LineFeed, TypeFlags
    <3>4. HistoryBounded'
      BY <1>0, <1>2, <2>1, PushedBounds DEF LineFeed, HistoryBounded
    <3> QED
      BY <3>1, <3>2, <3>3, <3>4 DEF Safe, TypeOK
  <2>2. CASE cursor_y # Rows - 1
    <3>1. TypeText'
      BY <1>2, <2>2 DEF LineFeed, TypeText
    <3>2. TypePlaces'
      BY <1>0, <1>2, <2>2 DEF LineFeed, ResetView, TypePlaces, region
    <3>3. TypeFlags'
      BY <1>2, <2>2 DEF LineFeed, ResetView, TypeFlags
    <3>4. HistoryBounded'
      BY <1>2, <2>2 DEF LineFeed, ResetView, HistoryBounded, TypeText, TypePlaces
    <3> QED
      BY <3>1, <3>2, <3>3, <3>4 DEF Safe, TypeOK
  <2> QED
    BY <2>1, <2>2
<1>3. CASE Control
  <2>1. TypeText' /\ HistoryBounded'
    BY <1>3 DEF Control, ResetView, TypeText, HistoryBounded
  <2>2. TypePlaces'
    BY <1>0, <1>3 DEF Control, ResetView, TypePlaces, region
  <2>3. TypeFlags'
    BY <1>3 DEF Control, ResetView, TypeFlags
  <2> QED
    BY <2>1, <2>2, <2>3 DEF Safe, TypeOK
<1>4. ASSUME NEW p \in Params, NEW q \in Params, MoveCursor(p, q)
      PROVE  Safe'
  <2>1. TypeText' /\ HistoryBounded' /\ TypeFlags'
    BY <1>4 DEF MoveCursor, TypeText, HistoryBounded, TypeFlags, view
  <2>2. p \in Nat /\ q \in Nat
    BY Sizes
  <2>3. TypePlaces'
    <3>1. cursor_x' \in 0..Cols /\ cursor_y' \in ScreenRows
      BY <1>0, <1>4, <2>2
      DEF MoveCursor, TypePlaces, Least, Greatest, Count, Index
    <3> QED
      BY <1>4, <3>1 DEF MoveCursor, TypePlaces, view, region
  <2> QED
    BY <2>1, <2>3 DEF Safe, TypeOK
<1>5. ASSUME NEW p \in Params, NEW q \in Params, SetRegion(p, q)
      PROVE  Safe'
  <2>1. TypeText' /\ HistoryBounded' /\ TypeFlags'
    BY <1>5 DEF SetRegion, TypeText, HistoryBounded, TypeFlags, view
  <2>2. p \in Nat /\ q \in Nat
    BY Sizes
  <2>3. TypePlaces'
    <3>1. scroll_top' \in ScreenRows /\ scroll_bottom' \in ScreenRows
      BY <1>0, <1>5, <2>2 DEF SetRegion, Least, Greatest, Index
    <3> QED
      BY <1>5, <3>1 DEF SetRegion, TypePlaces, view, cursor
  <2> QED
    BY <2>1, <2>3 DEF Safe, TypeOK
<1>6. CASE Clear
  <2>1. TypeText'
    BY <1>6, LineTypes DEF Clear, TypeText
  <2>2. TypePlaces'
    BY <1>0, <1>6 DEF Clear, TypePlaces, region
  <2>3. TypeFlags'
    BY <1>6 DEF Clear, TypeFlags
  <2>4. HistoryBounded'
    BY <1>6 DEF Clear, HistoryBounded, TypeText
  <2> QED
    BY <2>1, <2>2, <2>3, <2>4 DEF Safe, TypeOK
<1>7. CASE Panics
  BY <1>7 DEF Panics, Safe, TypeOK, TypeText, TypePlaces, TypeFlags,
              HistoryBounded, view, cursor, region
<1>8. ASSUME lines' \in [ScreenRows -> Line],
             UNCHANGED <<scrollback, max_scrollback, view, cursor, region, panicked>>
      PROVE  Safe'
  <2>1. TypeText'
    BY <1>8 DEF TypeText
  <2>2. TypePlaces' /\ TypeFlags' /\ HistoryBounded'
    BY <1>8 DEF TypePlaces, TypeFlags, HistoryBounded, view, cursor, region
  <2> QED
    BY <2>1, <2>2 DEF Safe, TypeOK
<1>9. ASSUME NEW p \in Params, EraseDisplay(p)
      PROVE  Safe'
  <2>1. CASE p = 0
    <3>1. cursor_x \in Int /\ Cols \in Int
      BY <1>0 DEF TypePlaces
    <3>2. lines' \in [ScreenRows -> Line]
      BY <1>9, <2>1, <3>1, LineTypes DEF EraseDisplay, TypeText
    <3> QED
      BY <1>8, <1>9, <2>1, <3>2 DEF EraseDisplay
  <2>2. CASE p = 1 /\ ~ErasesPastEnd
    <3>1. 0 \in Int /\ cursor_x + 1 \in Int
      BY <1>0 DEF TypePlaces
    <3>2. lines' = [y \in ScreenRows |->
                      IF y < cursor_y THEN NewLine
                      ELSE IF y > cursor_y THEN lines[y]
                      ELSE Erased(lines[y], 0, cursor_x + 1)]
      BY <1>9, <2>2 DEF EraseDisplay
    <3>3. \A y \in ScreenRows : lines[y] \in Line
      BY DEF TypeText
    <3>4. lines' \in [ScreenRows -> Line]
      BY <3>1, <3>2, <3>3, LineTypes
    <3> QED
      BY <1>8, <1>9, <2>2, <3>4 DEF EraseDisplay
  <2> QED
    BY <1>6, <1>7, <1>9, <2>1, <2>2 DEF EraseDisplay
<1>10. ASSUME NEW p \in Params, EraseLine(p)
       PROVE  Safe'
  <2> DEFINE from == IF p = 0 THEN cursor_x ELSE 0
             to   == CASE p = 0 \/ p = 2 -> Cols [] p = 1 -> cursor_x + 1 [] OTHER -> 0
  <2>1. CASE p = 1 /\ ErasesPastEnd
    BY <1>7, <1>10, <2>1 DEF EraseLine
  <2>2. CASE ~(p = 1 /\ ErasesPastEnd)
    <3>1. from \in Int /\ to \in Int
      BY <1>0 DEF TypePlaces
    <3>2. Erased(lines[cursor_y], from, to) \in Line
      BY <3>1, LineTypes DEF TypeText, TypePlaces
    <3>3. lines' = [lines EXCEPT ![cursor_y] = Erased(lines[cursor_y], from, to)]
      BY <1>10, <2>2 DEF EraseLine
    <3>4. lines' \in [ScreenRows -> Line]
      BY <3>2, <3>3 DEF TypeText
    <3> QED
      BY <1>8, <1>10, <2>2, <3>4 DEF EraseLine
  <2> QED
    BY <2>1, <2>2
<1>11. ASSUME NEW p \in Params, EraseChars(p)
       PROVE  Safe'
  <2> DEFINE to == Least(cursor_x + Count(p), Cols)
  <2>1. p \in Nat
    BY Sizes
  <2>2. cursor_x \in Int /\ to \in Int
    BY <1>0, <2>1 DEF TypePlaces, Least, Greatest, Count
  <2>3. Erased(lines[cursor_y], cursor_x, to) \in Line
    BY <2>2, LineTypes DEF TypeText, TypePlaces
  <2>4. lines' = [lines EXCEPT ![cursor_y] = Erased(lines[cursor_y], cursor_x, to)]
    BY <1>11 DEF EraseChars
  <2>5. lines' \in [ScreenRows -> Line]
    BY <2>3, <2>4 DEF TypeText
  <2> QED
    BY <1>8, <1>11, <2>5 DEF EraseChars
<1>12. ASSUME NEW p \in Params, ScrollUp(p)
       PROVE  Safe'
  <2> DEFINE n == Least(Count(p), scroll_bottom - scroll_top + 1)
  <2>1. p \in Nat
    BY Sizes
  <2>2. n \in 0..Rows /\ n \in Nat
    BY <1>0, <1>12, <2>1 DEF ScrollUp, TypePlaces, Least, Greatest, Count
  <2>3. lines' \in [ScreenRows -> Line]
    BY <1>12, <2>2, ShiftedType DEF ScrollUp, TypeText, TypePlaces
  <2>4. /\ Pushed(Top(n)) \in Seq(Line)
        /\ Len(Pushed(Top(n))) <= max_scrollback
        /\ Len(Pushed(Top(n))) >= Len(scrollback)
    BY <2>2, PushedBounds
  <2>5. scrollback' = IF scroll_top = 0 THEN Pushed(Top(n)) ELSE scrollback
    BY <1>12 DEF ScrollUp
  <2>6. TypeText'
    BY <2>3, <2>4, <2>5 DEF TypeText
  <2>7. max_scrollback' = max_scrollback /\ viewport_offset' = viewport_offset
    BY <1>12 DEF ScrollUp
  <2>8. TypePlaces'
    BY <1>12 DEF ScrollUp, TypePlaces, cursor, region
  <2>9. TypeFlags'
    BY <1>12 DEF ScrollUp, TypeFlags
  <2>10. HistoryBounded'
    <3>1. CASE scroll_top = 0
      <4>1. Len(scrollback) \in Nat /\ Len(Pushed(Top(n))) \in Nat
        BY <2>4 DEF TypeText
      <4> QED
        BY <2>4, <2>5, <2>7, <3>1, <4>1 DEF HistoryBounded, TypePlaces
    <3>2. CASE scroll_top # 0
      BY <2>5, <2>7, <3>2 DEF HistoryBounded
    <3> QED
      BY <3>1, <3>2
  <2> QED
    BY <2>6, <2>8, <2>9, <2>10 DEF Safe, TypeOK
<1>13. CASE ScrollView
  <2>1. Len(scrollback) \in Nat
    BY DEF TypeText
  <2>2. TypeText'
    BY <1>13 DEF ScrollView, TypeText
  <2>3. TypePlaces'
    BY <1>13, <2>1 DEF ScrollView, TypePlaces, Least, Greatest, cursor, region
  <2>4. TypeFlags'
    BY <1>13 DEF ScrollView, TypeFlags
  <2>5. HistoryBounded'
    BY <1>13, <2>1 DEF ScrollView, HistoryBounded, TypePlaces, Least, Greatest
  <2> QED
    BY <2>2, <2>3, <2>4, <2>5 DEF Safe, TypeOK
<1>14. ASSUME NEW max \in Params, SetMaxScrollback(max)
       PROVE  Safe'
  <2>1. max \in Nat
    BY Sizes
  <2>2. max_scrollback' = Least(max, MaxSafe) /\ max_scrollback' \in 0..MaxSafe
    BY <1>14, <2>1, Sizes DEF SetMaxScrollback, Least
  <2>3. /\ scrollback' \in Seq(Line)
        /\ Len(scrollback') = Least(Len(scrollback), max_scrollback')
    <3>1. max_scrollback' \in Nat
      BY <2>2, Sizes
    <3> QED
      BY <1>14, <3>1, LastOfBounds DEF SetMaxScrollback, TypeText
  <2>4. Len(scrollback) \in Nat /\ Len(scrollback') \in Nat
    BY <2>3 DEF TypeText
  <2>5. viewport_offset' = Least(viewport_offset, Len(scrollback'))
    BY <1>14 DEF SetMaxScrollback
  <2>6. TypeText'
    BY <1>14, <2>3 DEF SetMaxScrollback, TypeText
  <2>7. TypePlaces'
    BY <1>14, <2>2, <2>4, <2>5 DEF SetMaxScrollback, TypePlaces, Least, cursor, region
  <2>8. TypeFlags'
    BY <1>14 DEF SetMaxScrollback, TypeFlags
  <2>9. HistoryBounded'
    BY <2>2, <2>3, <2>4, <2>5, Sizes DEF HistoryBounded, TypePlaces, Least
  <2> QED
    BY <2>6, <2>7, <2>8, <2>9 DEF Safe, TypeOK
<1>15. CASE Paint
  <2> DEFINE first    == Len(scrollback) - viewport_offset
             Clean(l) == [l EXCEPT !.dirty = FALSE]
  <2>1. Len(scrollback) \in Nat
    BY DEF TypeText
  <2>2. /\ scrollback' = [i \in 1..Len(scrollback) |->
                             IF i - 1 >= first /\ i - 1 < first + Rows
                             THEN Clean(scrollback[i]) ELSE scrollback[i]]
        /\ lines' = [y \in ScreenRows |->
                        IF y + viewport_offset < Rows THEN Clean(lines[y]) ELSE lines[y]]
    BY <1>15 DEF Paint
  <2>3. \A i \in 1..Len(scrollback) : /\ scrollback[i] \in Line
                                      /\ Clean(scrollback[i]) \in Line
    BY LineTypes DEF TypeText
  <2>4. scrollback' \in [1..Len(scrollback) -> Line]
    BY <2>2, <2>3
  <2>5. scrollback' \in Seq(Line) /\ Len(scrollback') = Len(scrollback)
    BY <2>1, <2>2, <2>4
  <2>6. lines' \in [ScreenRows -> Line]
    BY <2>2, LineTypes DEF TypeText
  <2>7. TypeText'
    BY <2>5, <2>6 DEF TypeText
  <2>8. TypePlaces' /\ TypeFlags'
    BY <1>15 DEF Paint, TypePlaces, TypeFlags, cursor, region
  <2>9. HistoryBounded'
    BY <1>15, <2>5 DEF Paint, HistoryBounded
  <2> QED
    BY <2>7, <2>8, <2>9 DEF Safe, TypeOK
<1>16. CASE UNCHANGED vars
  BY <1>16 DEF vars, Safe, TypeOK, TypeText, TypePlaces, TypeFlags,
               HistoryBounded, view, cursor, region
<1> QED
  BY <1>1, <1>2, <1>3, <1>4, <1>5, <1>6, <1>9, <1>10, <1>11, <1>12, <1>13,
     <1>14, <1>15, <1>16, Zenon DEF Next, Host, User

(* For every size of the screen and every limit of the scrollback, whatever *)
(* the host prints and the user scrolls or sets: the cursor and the region  *)
(* stay on the screen (screen_model.rs:579-737).                            *)
THEOREM TypeCorrect == Spec => []TypeOK
<1>1. Safe => TypeOK
  BY DEF Safe
<1> QED
  BY InitSafe, StepSafe, <1>1, PTL DEF Spec

(* The scrollback never outgrows its limit and the view never leaves the    *)
(* scrollback, so no index the painter computes is out of range             *)
(* (screen_model.rs:370-385, 461-477; screen.rs:159-184).                   *)
THEOREM StaysBounded == Spec => []HistoryBounded
<1>1. Safe => HistoryBounded
  BY DEF Safe
<1> QED
  BY InitSafe, StepSafe, <1>1, PTL DEF Spec

-----------------------------------------------------------------------------
(* What the display shows.                                                 *)

\* What a step does to row y of the view that the painter must hear of.
Told(y) == Repainted(y) \/ ViewRow(y)' # ViewRow(y) => Repainted(y)'

\* With the scrollback and the view where they were, it is enough that each
\* row of the screen is as it was or marked dirty.
LEMMA RowsTold ==
    ASSUME TypeText, TypePlaces, HistoryBounded,
           scrollback' = scrollback, viewport_offset' = viewport_offset,
           full_repaint => full_repaint',
           \A z \in ScreenRows : lines'[z] = lines[z] \/ lines'[z].dirty = TRUE
    PROVE  \A y \in ScreenRows : Told(y)
<1> SUFFICES ASSUME NEW y \in ScreenRows PROVE Told(y)
  OBVIOUS
<1>1. RowIndex(y)' = RowIndex(y)
  BY DEF RowIndex
<1>2. CASE RowIndex(y) < Len(scrollback)
  <2>1. ViewRow(y)' = ViewRow(y)
    BY <1>1, <1>2 DEF ViewRow
  <2> QED
    BY <2>1 DEF Told, Repainted
<1>3. CASE ~(RowIndex(y) < Len(scrollback))
  <2> DEFINE z == RowIndex(y) - Len(scrollback)
  <2>1. z \in ScreenRows
    BY <1>3, Sizes DEF RowIndex, ScreenRows, TypeText, TypePlaces
  <2>2. ViewRow(y) = lines[z] /\ ViewRow(y)' = lines'[z]
    BY <1>1, <1>3 DEF ViewRow
  <2>3. ViewRow(y)' = ViewRow(y) \/ ViewRow(y)'.dirty = TRUE
    BY <2>1, <2>2
  <2> QED
    BY <2>3 DEF Told, Repainted
<1> QED
  BY <1>2, <1>3

\* Where everything is repainted, every row is.
LEMMA AllTold ==
    ASSUME full_repaint'
    PROVE  \A y \in ScreenRows : Told(y)
  BY DEF Told, Repainted

\* A screen that is only scrolled away from is repainted as a whole.
LEMMA ResetTold ==
    ASSUME TypeText, TypePlaces, TypeFlags, HistoryBounded, ResetView,
           lines' = lines, scrollback' = scrollback
    PROVE  \A y \in ScreenRows : Told(y)
<1>1. CASE viewport_offset # 0
  BY <1>1, AllTold DEF ResetView
<1>2. CASE viewport_offset = 0
  BY <1>2, RowsTold DEF ResetView
<1> QED
  BY <1>1, <1>2

\* Setting the limit to what it was changes nothing; cutting the scrollback
\* leaves the rows in a view that stays.
LEMMA LimitTold ==
    ASSUME TypeOK, HistoryBounded, NEW max \in Params, SetMaxScrollback(max),
           ~(viewport_offset' # viewport_offset /\ max_scrollback' # max_scrollback)
    PROVE  \A y \in ScreenRows : Told(y)
<1> DEFINE n == Len(scrollback)
           m == Len(scrollback')
<1>0. /\ scrollback \in Seq(Line) /\ n \in Nat /\ viewport_offset \in Nat
      /\ max_scrollback \in Nat /\ max \in Nat
      /\ n <= max_scrollback /\ viewport_offset <= n
  BY Sizes DEF TypeOK, TypeText, TypePlaces, HistoryBounded
<1>1. /\ max_scrollback' = Least(max, MaxSafe)
      /\ scrollback' = LastOf(scrollback, max_scrollback')
      /\ viewport_offset' = Least(viewport_offset, m)
      /\ lines' = lines /\ full_repaint' = full_repaint
  BY DEF SetMaxScrollback
<1>2. max_scrollback' \in Nat
  BY <1>0, <1>1, Sizes DEF Least
<1>3. scrollback' \in Seq(Line) /\ m = Least(n, max_scrollback') /\ m \in Nat
  BY <1>0, <1>1, <1>2, LastOfBounds DEF Least
<1>4. viewport_offset' = viewport_offset
  <2>1. CASE max_scrollback' = max_scrollback
    <3>1. m = n
      BY <1>0, <1>3, <2>1 DEF Least
    <3> QED
      BY <1>0, <1>1, <3>1 DEF Least
  <2> QED
    BY <2>1
<1>5. viewport_offset <= m /\ m <= n
  BY <1>0, <1>1, <1>2, <1>3, <1>4 DEF Least
<1>6. ASSUME NEW i \in 1..m
      PROVE  scrollback'[i] = scrollback[n - m + i]
  <2>1. CASE n <= max_scrollback'
    BY <1>0, <1>1, <1>3, <2>1 DEF LastOf, Least
  <2>2. CASE ~(n <= max_scrollback')
    <3>1. m = max_scrollback'
      BY <1>0, <1>2, <1>3, <2>2 DEF Least
    <3>2. scrollback' = SubSeq(scrollback, n - m + 1, n)
      BY <1>1, <2>2, <3>1 DEF LastOf
    <3>3. n - m + 1 \in 1..(n + 1)
      BY <1>0, <1>3, <1>5
    <3> QED
      BY <1>0, <1>3, <1>5, <3>2, <3>3
  <2> QED
    BY <2>1, <2>2
<1> SUFFICES ASSUME NEW y \in ScreenRows PROVE Told(y)
  OBVIOUS
<1>7. y \in Nat
  BY Sizes DEF ScreenRows
<1>8. RowIndex(y) = n - viewport_offset + y /\ RowIndex(y)' = m - viewport_offset + y
  BY <1>4 DEF RowIndex
<1>9. ViewRow(y)' = ViewRow(y)
  <2>1. CASE y < viewport_offset
    <3> DEFINE i == m - viewport_offset + y + 1
    <3>1. i \in 1..m /\ n - m + i = n - viewport_offset + y + 1
      BY <1>0, <1>3, <1>5, <1>7, <2>1
    <3>2. scrollback'[i] = scrollback[n - viewport_offset + y + 1]
      BY <1>6, <3>1
    <3>3. ViewRow(y)' = scrollback'[i]
      BY <1>0, <1>3, <1>7, <1>8, <2>1 DEF ViewRow
    <3>4. ViewRow(y) = scrollback[n - viewport_offset + y + 1]
      BY <1>0, <1>7, <1>8, <2>1 DEF ViewRow
    <3> QED
      BY <3>2, <3>3, <3>4
  <2>2. CASE ~(y < viewport_offset)
    <3>1. ViewRow(y) = lines[y - viewport_offset]
      <4>1. ~(RowIndex(y) < n) /\ RowIndex(y) - n = y - viewport_offset
        BY <1>0, <1>7, <1>8, <2>2
      <4> QED
        BY <4>1 DEF ViewRow
    <3>2. ViewRow(y)' = lines'[y - viewport_offset]
      <4>1. ~(RowIndex(y)' < m) /\ RowIndex(y)' - m = y - viewport_offset
        BY <1>0, <1>3, <1>7, <1>8, <2>2
      <4> QED
        BY <4>1 DEF ViewRow
    <3> QED
      BY <1>1, <3>1, <3>2
  <2> QED
    BY <2>1, <2>2
<1> QED
  BY <1>1, <1>9 DEF Told, Repainted

\* A printed character marks its row, and a scrolled screen is repainted.
LEMMA PrintTold ==
    ASSUME TypeText, TypePlaces, TypeFlags, HistoryBounded,
           NEW c \in Glyphs, PrintChar(c)
    PROVE  \A y \in ScreenRows : Told(y)
<1> DEFINE wraps   == cursor_x >= Cols
           scrolls == wraps /\ cursor_y = Rows - 1
           x       == IF wraps THEN 0 ELSE cursor_x
           at      == IF wraps /\ ~scrolls THEN cursor_y + 1 ELSE cursor_y
<1>1. full_repaint' = (full_repaint \/ viewport_offset # 0 \/ scrolls)
  BY DEF PrintChar
<1>2. CASE viewport_offset # 0 \/ scrolls
  BY <1>1, <1>2, AllTold
<1>3. CASE viewport_offset = 0 /\ ~scrolls
  <2>1. lines' = [lines EXCEPT ![at] = [chars |-> [lines[at].chars EXCEPT ![x] = c],
                                        dirty |-> TRUE]]
    <3>1. at \in ScreenRows
      BY <1>3, Sizes DEF TypePlaces, ScreenRows
    <3> QED
      BY <1>3, <3>1 DEF PrintChar, TypeText
  <2>2. \A z \in ScreenRows : lines'[z] = lines[z] \/ lines'[z].dirty = TRUE
    BY <2>1 DEF TypeText
  <2>3. scrollback' = scrollback /\ viewport_offset' = viewport_offset
    BY <1>3 DEF PrintChar
  <2> QED
    BY <1>1, <2>2, <2>3, RowsTold
<1> QED
  BY <1>2, <1>3

\* An erased row is marked.
LEMMA EraseTold ==
    ASSUME TypeText, TypePlaces, TypeFlags, HistoryBounded, NEW p \in Params,
           EraseDisplay(p) \/ EraseLine(p) \/ EraseChars(p)
    PROVE  \A y \in ScreenRows : Told(y)
<1>1. ASSUME Panics PROVE \A y \in ScreenRows : Told(y)
  BY <1>1, RowsTold DEF Panics, view
<1>2. NewLine.dirty = TRUE /\ \A line, a, b : Erased(line, a, b).dirty = TRUE
  BY DEF NewLine, Erased
<1>3. ASSUME \A z \in ScreenRows : lines'[z] = lines[z] \/ lines'[z].dirty = TRUE,
             UNCHANGED <<scrollback, view>>
      PROVE  \A y \in ScreenRows : Told(y)
  BY <1>3, RowsTold DEF view
<1>4. CASE EraseDisplay(p)
  <2>1. CASE p = 0
    <3>1. UNCHANGED <<scrollback, view>>
      BY <1>4, <2>1 DEF EraseDisplay
    <3>2. \A z \in ScreenRows : lines'[z] = lines[z] \/ lines'[z].dirty = TRUE
      BY <1>2, <1>4, <2>1 DEF EraseDisplay
    <3> QED
      BY <1>3, <3>1, <3>2
  <2>2. CASE p = 1 /\ ~ErasesPastEnd
    <3>1. UNCHANGED <<scrollback, view>>
      BY <1>4, <2>2 DEF EraseDisplay
    <3>2. \A z \in ScreenRows : lines'[z] = lines[z] \/ lines'[z].dirty = TRUE
      BY <1>2, <1>4, <2>2 DEF EraseDisplay
    <3> QED
      BY <1>3, <3>1, <3>2
  <2>3. CASE p = 1 /\ ErasesPastEnd
    BY <1>1, <1>4, <2>3 DEF EraseDisplay
  <2>4. CASE p = 2
    BY <1>4, <2>4, AllTold DEF EraseDisplay, Clear
  <2> QED
    BY <1>4, <2>1, <2>2, <2>3, <2>4 DEF EraseDisplay
<1>5. CASE EraseLine(p)
  <2> DEFINE from == IF p = 0 THEN cursor_x ELSE 0
             to   == CASE p = 0 \/ p = 2 -> Cols [] p = 1 -> cursor_x + 1 [] OTHER -> 0
  <2>1. CASE p = 1 /\ ErasesPastEnd
    BY <1>1, <1>5, <2>1 DEF EraseLine
  <2>2. CASE ~(p = 1 /\ ErasesPastEnd)
    <3>1. /\ lines' = [lines EXCEPT ![cursor_y] = Erased(lines[cursor_y], from, to)]
          /\ UNCHANGED <<scrollback, view>>
      BY <1>5, <2>2 DEF EraseLine
    <3>2. \A z \in ScreenRows : lines'[z] = lines[z] \/ lines'[z].dirty = TRUE
      BY <1>2, <3>1 DEF TypeText
    <3> QED
      BY <1>3, <3>1, <3>2
  <2> QED
    BY <2>1, <2>2
<1>6. CASE EraseChars(p)
  <2> DEFINE to == Least(cursor_x + Count(p), Cols)
  <2>1. /\ lines' = [lines EXCEPT ![cursor_y] = Erased(lines[cursor_y], cursor_x, to)]
        /\ UNCHANGED <<scrollback, view>>
    BY <1>6 DEF EraseChars
  <2>2. \A z \in ScreenRows : lines'[z] = lines[z] \/ lines'[z].dirty = TRUE
    BY <1>2, <2>1 DEF TypeText
  <2> QED
    BY <1>3, <2>1, <2>2
<1> QED
  BY <1>4, <1>5, <1>6

(* Whatever the host prints, erases or scrolls and the user scrolls or      *)
(* sets, for every size of the screen: a step that changes what a row of    *)
(* the view shows leaves the row to be repainted, and only the painter      *)
(* takes a row off that list (screen.rs:186-188, 273-275).                  *)
THEOREM DisplayIsTold == Spec => DisplayFollows
<1> DEFINE Step == \/ Paint
                   \/ viewport_offset' # viewport_offset /\ max_scrollback' # max_scrollback
                   \/ \A y \in ScreenRows :
                         Repainted(y) \/ ViewRow(y)' # ViewRow(y) => Repainted(y)'
<1>1. Safe /\ [Next]_vars => [Step]_vars
  <2> SUFFICES ASSUME Safe, Next
               PROVE  Step
    OBVIOUS
  <2>0. TypeOK /\ TypeText /\ TypePlaces /\ TypeFlags /\ HistoryBounded
    BY DEF Safe, TypeOK
  <2>1. ASSUME \A y \in ScreenRows : Told(y) PROVE Step
    BY <2>1 DEF Told
  <2>2. ASSUME NEW c \in Glyphs, PrintChar(c) PROVE Step
    BY <2>0, <2>1, <2>2, PrintTold
  <2>3. CASE LineFeed
    <3>1. CASE cursor_y = Rows - 1
      BY <2>1, <2>3, <3>1, AllTold DEF LineFeed
    <3>2. CASE cursor_y # Rows - 1
      BY <2>0, <2>1, <2>3, <3>2, ResetTold DEF LineFeed
    <3> QED
      BY <3>1, <3>2
  <2>4. CASE Control
    BY <2>0, <2>1, <2>4, ResetTold DEF Control
  <2>5. ASSUME NEW p \in Params, NEW q \in Params, MoveCursor(p, q) \/ SetRegion(p, q)
        PROVE  Step
    <3>1. lines' = lines /\ scrollback' = scrollback /\ view' = view
      BY <2>5 DEF MoveCursor, SetRegion
    <3> QED
      BY <2>0, <2>1, <3>1, RowsTold DEF view
  <2>6. ASSUME NEW p \in Params, EraseDisplay(p) \/ EraseLine(p) \/ EraseChars(p)
        PROVE  Step
    BY <2>0, <2>1, <2>6, EraseTold
  <2>7. ASSUME NEW p \in Params, ScrollUp(p) PROVE Step
    BY <2>1, <2>7, AllTold DEF ScrollUp
  <2>8. CASE ScrollView \/ Clear
    BY <2>1, <2>8, AllTold DEF ScrollView, Clear
  <2>9. ASSUME NEW max \in Params, SetMaxScrollback(max) PROVE Step
    BY <2>0, <2>1, <2>9, LimitTold
  <2> QED
    BY <2>2, <2>3, <2>4, <2>5, <2>6, <2>7, <2>8, <2>9, Zenon DEF Next, Host, User
<1> QED
  BY <1>1, InitSafe, StepSafe, PTL DEF Spec, DisplayFollows

-----------------------------------------------------------------------------
(* Where the text goes.                                                    *)

\* The characters of the last n rows are the last n of the characters.
LEMMA TextOfLast ==
    ASSUME NEW s \in Seq(Line), NEW n \in Nat
    PROVE  Text(LastOf(s, n)) = LastOf(Text(s), n)
<1>1. Len(Text(s)) = Len(s) /\ \A i \in 1..Len(s) : Text(s)[i] = s[i].chars
  BY DEF Text
<1>2. CASE Len(s) <= n
  BY <1>1, <1>2 DEF LastOf
<1>3. CASE ~(Len(s) <= n)
  <2> DEFINE from == Len(s) - n + 1
  <2>1. from \in Nat /\ from >= 1 /\ Len(s) \in Nat
    BY <1>3
  <2>2. LastOf(s, n) = SubSeq(s, from, Len(s)) /\ LastOf(Text(s), n) = SubSeq(Text(s), from, Len(s))
    BY <1>1, <1>3 DEF LastOf
  <2>3. /\ Len(SubSeq(s, from, Len(s))) = n
        /\ \A i \in 1..n : SubSeq(s, from, Len(s))[i] = s[from + i - 1]
    BY <1>3, <2>1
  <2>4. Text(s) = [i \in 1..Len(s) |-> s[i].chars]
    BY DEF Text
  <2>5. SubSeq(Text(s), from, Len(s)) = [i \in 1..n |-> s[from + i - 1].chars]
    <3>1. SubSeq(Text(s), from, Len(s)) = [i \in 1..(Len(s) - from + 1) |-> Text(s)[from + i - 1]]
      BY <2>1
    <3>2. Len(s) - from + 1 = n
      BY <2>1
    <3>3. \A i \in 1..n : from + i - 1 \in 1..Len(s)
      BY <1>3, <2>1
    <3> QED
      BY <1>1, <3>1, <3>2, <3>3
  <2>6. Text(LastOf(s, n)) = [i \in 1..n |-> s[from + i - 1].chars]
    BY <2>2, <2>3 DEF Text
  <2> QED
    BY <2>2, <2>5, <2>6
<1> QED
  BY <1>2, <1>3

\* What the scrollback is to hold when k rows leave the screen at its top.
TextKept(k) == Text(scrollback') = LastOf(Text(scrollback \o Top(k)), max_scrollback')

\* What row y of the screen may show when the rows top..bottom move up by n.
RowMoved(top, bottom, n, y) ==
    \/ y = cursor_y'
    \/ n = 0 /\ lines'[y].chars = NewLine.chars
    \/ lines'[y].chars = IF y < top \/ y > bottom THEN lines[y].chars
                         ELSE IF y + n <= bottom THEN lines[y + n].chars
                         ELSE NewLine.chars

Moves(top, bottom, n) ==
    /\ TextKept(IF top = 0 THEN n ELSE 0)
    /\ \A y \in ScreenRows : RowMoved(top, bottom, n, y)

\* Nothing moves: every row stays, goes blank or is being written.
LEMMA StandsStill ==
    ASSUME TypePlaces, TextKept(0),
           \A y \in ScreenRows : \/ lines'[y].chars = lines[y].chars
                                 \/ lines'[y].chars = NewLine.chars
                                 \/ y = cursor_y'
    PROVE  Moves(0, Rows - 1, 0)
<1>1. ASSUME NEW y \in ScreenRows PROVE y + 0 = y /\ ~(y < 0) /\ y <= Rows - 1
  BY Sizes DEF ScreenRows
<1>2. ASSUME NEW y \in ScreenRows PROVE RowMoved(0, Rows - 1, 0, y)
  <2>1. CASE lines'[y].chars = lines[y].chars
    BY <1>1, <2>1 DEF RowMoved
  <2>2. CASE lines'[y].chars = NewLine.chars
    BY <2>2 DEF RowMoved
  <2>3. CASE y = cursor_y'
    BY <2>3 DEF RowMoved
  <2> QED
    BY <2>1, <2>2, <2>3
<1> QED
  BY <1>2 DEF Moves

\* A scrollback with its text and a limit that leaves it alone: no row left.
LEMMA TextStays ==
    ASSUME TypeText, TypePlaces, HistoryBounded,
           Text(scrollback') = Text(scrollback), max_scrollback' = max_scrollback
    PROVE  TextKept(0)
<1>1. /\ scrollback \in Seq(Line) /\ max_scrollback \in Nat
      /\ Len(scrollback) <= max_scrollback
  BY Sizes DEF TypeText, TypePlaces, HistoryBounded
<1>2. scrollback \o Top(0) = scrollback
  <2>1. Top(0) \in Seq(Line) /\ Len(Top(0)) = 0
    BY Sizes, TopType DEF TypeText
  <2> QED
    BY <1>1, <2>1
<1>3. Len(Text(scrollback)) = Len(scrollback)
  BY <1>1 DEF Text
<1> QED
  BY <1>1, <1>2, <1>3 DEF TextKept, LastOf

\* The scrollback cut to a limit: the oldest rows give way.
LEMMA TextCut ==
    ASSUME TypeText, TypePlaces, NEW k \in 0..Rows, max_scrollback' \in Nat,
           scrollback' = LastOf(scrollback \o Top(k), max_scrollback')
    PROVE  TextKept(k)
<1>1. scrollback \o Top(k) \in Seq(Line)
  BY TopType DEF TypeText
<1> QED
  BY <1>1, TextOfLast DEF TextKept

\* Rows pushed on the scrollback are the newest history.
LEMMA TextPushed ==
    ASSUME TypeText, TypePlaces, NEW k \in 0..Rows,
           scrollback' = Pushed(Top(k)), max_scrollback' = max_scrollback
    PROVE  TextKept(k)
<1>1. max_scrollback' \in Nat
  BY Sizes DEF TypePlaces
<1> QED
  BY <1>1, TextCut DEF Pushed

\* A step that writes at most the cursor's row.
LEMMA RowWritten ==
    ASSUME TypeText, TypePlaces, HistoryBounded,
           scrollback' = scrollback, max_scrollback' = max_scrollback,
           \A y \in ScreenRows : \/ lines'[y] = lines[y] \/ lines'[y] = NewLine
                                 \/ y = cursor_y'
    PROVE  Moves(0, Rows - 1, 0)
<1>1. Text(scrollback') = Text(scrollback)
  OBVIOUS
<1>2. TextKept(0)
  BY <1>1, TextStays
<1> QED
  BY <1>2, StandsStill

\* The whole screen moved up by one row.
LEMMA ScreenMoved ==
    ASSUME TypeText, TypePlaces,
           scrollback' = Pushed(Top(1)), max_scrollback' = max_scrollback,
           \A y \in ScreenRows : \/ lines'[y] = Shifted(0, Rows - 1, 1)[y]
                                 \/ y = cursor_y'
    PROVE  Moves(0, Rows - 1, 1)
<1>1. Rows \in Nat /\ Rows > 0 /\ 1 \in 0..Rows
  BY Sizes
<1>2. TextKept(1)
  BY <1>1, TextPushed
<1>3. ASSUME NEW y \in ScreenRows PROVE RowMoved(0, Rows - 1, 1, y)
  <2>1. CASE lines'[y] = Shifted(0, Rows - 1, 1)[y]
    <3>1. y \in Nat /\ y <= Rows - 1
      BY <1>1 DEF ScreenRows
    <3>2. lines'[y] = IF y + 1 <= Rows - 1 THEN lines[y + 1] ELSE NewLine
      BY <1>1, <2>1, <3>1 DEF Shifted
    <3> QED
      BY <1>1, <3>1, <3>2 DEF RowMoved
  <2> QED
    BY <1>3, <2>1 DEF RowMoved
<1> QED
  BY <1>2, <1>3 DEF Moves

\* A region of the screen moved up by any number of rows.
LEMMA RegionMoved ==
    ASSUME TypeText, TypePlaces, HistoryBounded, NEW p \in Params, ScrollUp(p)
    PROVE  \E n \in 0..(scroll_bottom - scroll_top + 1) :
               Moves(scroll_top, scroll_bottom, n)
<1> DEFINE n == Least(Count(p), scroll_bottom - scroll_top + 1)
<1>1. p \in Nat /\ Rows \in Nat /\ Rows > 0 /\ ScreenRows = 0..(Rows - 1)
  BY Sizes DEF ScreenRows
<1>2. /\ scroll_top \in 0..(Rows - 1) /\ scroll_bottom \in 0..(Rows - 1)
      /\ scroll_top < scroll_bottom
  BY <1>1 DEF TypePlaces, ScrollUp
<1>3. n \in 0..(scroll_bottom - scroll_top + 1) /\ n \in 0..Rows
  BY <1>1, <1>2 DEF Least, Greatest, Count
<1>4. /\ lines' = Shifted(scroll_top, scroll_bottom, n)
      /\ scrollback' = IF scroll_top = 0 THEN Pushed(Top(n)) ELSE scrollback
      /\ max_scrollback' = max_scrollback
  BY DEF ScrollUp
<1>5. \A y \in ScreenRows :
         lines'[y] = IF y < scroll_top \/ y > scroll_bottom THEN lines[y]
                     ELSE IF y + n <= scroll_bottom THEN lines[y + n] ELSE NewLine
  BY <1>4 DEF Shifted
<1>6. TextKept(IF scroll_top = 0 THEN n ELSE 0)
  <2>1. CASE scroll_top = 0
    BY <1>3, <1>4, <2>1, TextPushed
  <2>2. CASE scroll_top # 0
    BY <1>4, <2>2, TextStays
  <2> QED
    BY <2>1, <2>2
<1> HIDE DEF n
<1>7. \A y \in ScreenRows : RowMoved(scroll_top, scroll_bottom, n, y)
  BY <1>5 DEF RowMoved
<1> QED
  BY <1>3, <1>6, <1>7 DEF Moves

\* The painter changes no text.
LEMMA PaintMovesNothing ==
    ASSUME TypeText, TypePlaces, HistoryBounded, Paint
    PROVE  Moves(0, Rows - 1, 0)
<1> DEFINE first    == Len(scrollback) - viewport_offset
           Clean(l) == [l EXCEPT !.dirty = FALSE]
<1>1. \A l \in Line : Clean(l).chars = l.chars
  BY DEF Line
<1>2. /\ scrollback' = [i \in 1..Len(scrollback) |->
                           IF i - 1 >= first /\ i - 1 < first + Rows
                           THEN Clean(scrollback[i]) ELSE scrollback[i]]
      /\ lines' = [y \in ScreenRows |->
                      IF y + viewport_offset < Rows THEN Clean(lines[y]) ELSE lines[y]]
      /\ max_scrollback' = max_scrollback
  BY DEF Paint
<1>3. Text(scrollback') = Text(scrollback)
  <2>1. Len(scrollback) \in Nat
    BY DEF TypeText
  <2>2. Len(scrollback') = Len(scrollback)
    BY <1>2, <2>1
  <2>3. \A i \in 1..Len(scrollback) : scrollback'[i].chars = scrollback[i].chars
    BY <1>1, <1>2 DEF TypeText
  <2> QED
    BY <2>2, <2>3 DEF Text
<1>4. \A y \in ScreenRows : lines'[y].chars = lines[y].chars
  BY <1>1, <1>2 DEF TypeText
<1>5. TextKept(0)
  BY <1>2, <1>3, TextStays
<1> QED
  BY <1>4, <1>5, StandsStill

(* For every size of the screen and every limit: a step moves the rows of   *)
(* the screen or of the region up together, what leaves the screen at its   *)
(* top is the newest history, oldest first out, and no row is lost, doubled *)
(* or reordered on the way (screen_model.rs:316-352).                       *)
THEOREM TextOnlyMovesUp == Spec => TextMovesUp
<1> DEFINE Moved == \E range \in {<<0, Rows - 1>>, <<scroll_top, scroll_bottom>>} :
                    \E n \in 0..(range[2] - range[1] + 1) :
                       Moves(range[1], range[2], n)
<1>0. /\ Rows \in Nat /\ Rows > 0 /\ 0 \in 0..Rows
      /\ 0 \in 0..(Rows - 1 - 0 + 1) /\ 1 \in 0..(Rows - 1 - 0 + 1)
  BY Sizes
<1>10. \A n \in {0, 1} : Moves(0, Rows - 1, n) => Moved
  BY <1>0
<1>1. Safe /\ Next => Moved
  <2> SUFFICES ASSUME Safe, Next PROVE Moved
    OBVIOUS
  <2>0. TypeText /\ TypePlaces /\ HistoryBounded
    BY DEF Safe, TypeOK
  <2>1. ASSUME scrollback' = scrollback, max_scrollback' = max_scrollback,
               \A y \in ScreenRows : \/ lines'[y] = lines[y] \/ lines'[y] = NewLine
                                     \/ y = cursor_y'
        PROVE  Moved
    BY <1>10, <2>0, <2>1, RowWritten
  <2>2. ASSUME scrollback' = Pushed(Top(1)), max_scrollback' = max_scrollback,
               \A y \in ScreenRows : \/ lines'[y] = Shifted(0, Rows - 1, 1)[y]
                                     \/ y = cursor_y'
        PROVE  Moved
    BY <1>10, <2>0, <2>2, ScreenMoved
  <2>3. ASSUME NEW c \in Glyphs, PrintChar(c) PROVE Moved
    <3> DEFINE wraps   == cursor_x >= Cols
               scrolls == wraps /\ cursor_y = Rows - 1
               x       == IF wraps THEN 0 ELSE cursor_x
               at      == IF wraps /\ ~scrolls THEN cursor_y + 1 ELSE cursor_y
               under   == IF scrolls THEN Shifted(0, Rows - 1, 1) ELSE lines
               written == [chars |-> [under[at].chars EXCEPT ![x] = c], dirty |-> TRUE]
    <3>1. under \in [ScreenRows -> Line]
      BY <1>0, <2>0, ShiftedType DEF TypeText, ScreenRows
    <3>2. /\ lines' = [under EXCEPT ![at] = written]
          /\ scrollback' = IF scrolls THEN Pushed(Top(1)) ELSE scrollback
          /\ max_scrollback' = max_scrollback /\ cursor_y' = at
      BY <2>3, <3>1 DEF PrintChar
    <3>3. \A y \in ScreenRows : lines'[y] = under[y] \/ y = cursor_y'
      BY <3>1, <3>2
    <3>4. CASE scrolls
      BY <2>2, <3>2, <3>3, <3>4
    <3>5. CASE ~scrolls
      BY <2>1, <3>2, <3>3, <3>5
    <3> QED
      BY <3>4, <3>5
  <2>4. CASE LineFeed
    <3>1. CASE cursor_y = Rows - 1
      BY <2>2, <2>4, <3>1 DEF LineFeed
    <3>2. CASE cursor_y # Rows - 1
      BY <2>1, <2>4, <3>2 DEF LineFeed
    <3> QED
      BY <3>1, <3>2
  <2>5. CASE Control \/ ScrollView
    BY <2>1, <2>5 DEF Control, ScrollView
  <2>6. ASSUME NEW p \in Params, NEW q \in Params, MoveCursor(p, q) \/ SetRegion(p, q)
        PROVE  Moved
    <3>1. lines' = lines /\ scrollback' = scrollback /\ max_scrollback' = max_scrollback
      BY <2>6 DEF MoveCursor, SetRegion
    <3> QED
      BY <2>1, <3>1
  <2>7. CASE Clear
    <3>1. \A y \in ScreenRows : lines'[y] = NewLine
      BY <2>7 DEF Clear
    <3> QED
      BY <2>1, <2>7, <3>1 DEF Clear
  <2>8. CASE Panics
    BY <2>1, <2>8 DEF Panics
  <2>9. ASSUME NEW p \in Params, EraseDisplay(p) PROVE Moved
    <3>1. CASE p = 0 \/ (p = 1 /\ ~ErasesPastEnd)
      <4>1. /\ scrollback' = scrollback /\ max_scrollback' = max_scrollback
            /\ cursor_y' = cursor_y
        BY <2>9, <3>1 DEF EraseDisplay, cursor
      <4>2. \A y \in ScreenRows : \/ lines'[y] = lines[y] \/ lines'[y] = NewLine
                                  \/ ~(y < cursor_y) /\ ~(y > cursor_y)
        BY <2>9, <3>1 DEF EraseDisplay
      <4>3. \A y \in ScreenRows : ~(y < cursor_y) /\ ~(y > cursor_y) => y = cursor_y'
        BY <1>0, <2>0, <4>1 DEF TypePlaces, ScreenRows
      <4> QED
        BY <2>1, <4>1, <4>2, <4>3
    <3>2. CASE p = 1 /\ ErasesPastEnd
      BY <2>8, <2>9, <3>2 DEF EraseDisplay
    <3>3. CASE p = 2
      BY <2>7, <2>9, <3>3 DEF EraseDisplay
    <3>4. p = 0 \/ p = 1 \/ p = 2
      BY <2>9 DEF EraseDisplay
    <3> QED
      BY <3>1, <3>2, <3>3, <3>4
  <2>10. ASSUME NEW l, lines' = [lines EXCEPT ![cursor_y] = l],
                UNCHANGED <<scrollback, max_scrollback, cursor>>
         PROVE  Moved
    <3>1. \A y \in ScreenRows : lines'[y] = lines[y] \/ y = cursor_y'
      BY <2>0, <2>10 DEF TypeText, cursor
    <3> QED
      BY <2>1, <2>10, <3>1
  <2>11. ASSUME NEW p \in Params, EraseLine(p) PROVE Moved
    <3> DEFINE from == IF p = 0 THEN cursor_x ELSE 0
               to   == CASE p = 0 \/ p = 2 -> Cols [] p = 1 -> cursor_x + 1 [] OTHER -> 0
    <3>1. CASE p = 1 /\ ErasesPastEnd
      BY <2>8, <2>11, <3>1 DEF EraseLine
    <3>2. CASE ~(p = 1 /\ ErasesPastEnd)
      <4>1. /\ lines' = [lines EXCEPT ![cursor_y] = Erased(lines[cursor_y], from, to)]
            /\ UNCHANGED <<scrollback, max_scrollback, cursor>>
        BY <2>11, <3>2 DEF EraseLine
      <4> QED
        BY <2>10, <4>1
    <3> QED
      BY <3>1, <3>2
  <2>12. ASSUME NEW p \in Params, EraseChars(p) PROVE Moved
    <3> DEFINE to == Least(cursor_x + Count(p), Cols)
    <3>1. /\ lines' = [lines EXCEPT ![cursor_y] = Erased(lines[cursor_y], cursor_x, to)]
          /\ UNCHANGED <<scrollback, max_scrollback, cursor>>
      BY <2>12 DEF EraseChars
    <3> QED
      BY <2>10, <3>1
  <2>13. ASSUME NEW p \in Params, ScrollUp(p) PROVE Moved
    BY <2>0, <2>13, RegionMoved
  <2>14. ASSUME NEW max \in Params, SetMaxScrollback(max) PROVE Moved
    <3>1. max_scrollback' \in Nat
      BY <2>14, Sizes DEF SetMaxScrollback, Least
    <3>2. scrollback \o Top(0) = scrollback
      <4>1. Top(0) \in Seq(Line) /\ Len(Top(0)) = 0
        BY <1>0, <2>0, TopType DEF TypeText
      <4> QED
        BY <2>0, <4>1 DEF TypeText
    <3>3. TextKept(0)
      BY <1>0, <2>0, <2>14, <3>1, <3>2, TextCut DEF SetMaxScrollback
    <3>4. \A y \in ScreenRows : lines'[y].chars = lines[y].chars
      BY <2>14 DEF SetMaxScrollback
    <3> QED
      BY <1>10, <2>0, <3>3, <3>4, StandsStill
  <2>15. CASE Paint
    BY <1>10, <2>0, <2>15, PaintMovesNothing
  <2> QED
    BY <2>3, <2>4, <2>5, <2>6, <2>7, <2>9, <2>11, <2>12, <2>13, <2>14, <2>15, Zenon
    DEF Next, Host, User
<1> DEFINE Step ==
       \E range \in {<<0, Rows - 1>>, region} :
       LET top    == range[1]
           bottom == range[2]
       IN \E n \in 0..(bottom - top + 1) :
          /\ Text(scrollback') =
                 LastOf(Text(scrollback \o Top(IF top = 0 THEN n ELSE 0)), max_scrollback')
          /\ \A y \in ScreenRows :
                \/ y = cursor_y'
                \/ n = 0 /\ lines'[y].chars = NewLine.chars
                \/ lines'[y].chars = IF y < top \/ y > bottom THEN lines[y].chars
                                     ELSE IF y + n <= bottom THEN lines[y + n].chars
                                     ELSE NewLine.chars
<1>2. Safe /\ [Next]_vars => [Step]_vars
  BY <1>1 DEF TextKept, RowMoved, Moves, region
<1> QED
  BY <1>2, InitSafe, StepSafe, PTL DEF Spec, TextMovesUp
=============================================================================
