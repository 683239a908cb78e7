--------------------------- MODULE ConsoleProofs ----------------------------
(***************************************************************************)
(* Proofs about Console for every screen size and every set of messages,   *)
(* wherever the handlers preempt the task.                                 *)
(***************************************************************************)
EXTENDS Console, WellFoundedInduction, TLAPS

----------------------------------------------------------------------------
(* The grid.                                                               *)

\* What put_char may be given, and the states of the grid it is given it in.
Cell == {Blank} \cup Characters
Grid == [screen : [Rows -> [Columns -> Cell]], col : 0..WIDTH, row : Rows]

LEMMA BlankScreenType == BlankScreen \in [Rows -> [Columns -> Cell]]
BY DEF BlankScreen, BlankRow, Cell

\* A glyph that is drawn left of the right margin lands in the grid.
LEMMA DrawnType ==
    ASSUME NEW g \in Grid, g.col < WIDTH, NEW ch \in Cell
    PROVE  /\ Drawn(g, ch) \in Grid
           /\ Drawn(g, ch).col = g.col
<1>1. g.screen \in [Rows -> [Columns -> Cell]] /\ g.row \in Rows /\ g.col \in 0..WIDTH
  BY DEF Grid
<1>2. g.col \in Columns
  BY <1>1, ConsoleAssumption DEF Columns
<1>3. [g.screen EXCEPT ![g.row][g.col] = ch] \in [Rows -> [Columns -> Cell]]
  BY <1>1, <1>2
<1>4. Drawn(g, ch) = [g EXCEPT !.screen = [g.screen EXCEPT ![g.row][g.col] = ch]]
  BY DEF Drawn
<1>5. g = [screen |-> g.screen, col |-> g.col, row |-> g.row]
  BY DEF Grid
<1>6. Drawn(g, ch) = [screen |-> [g.screen EXCEPT ![g.row][g.col] = ch], col |-> g.col, row |-> g.row]
  <2> DEFINE s == [g.screen EXCEPT ![g.row][g.col] = ch]
  <2> HIDE DEF s
  <2> SUFFICES [g EXCEPT !.screen = s] = [screen |-> s, col |-> g.col, row |-> g.row]
    BY <1>4 DEF s
  <2> QED
    BY <1>5
<1> QED
  BY <1>1, <1>3, <1>6 DEF Grid

\* newline scrolls at the bottom, so the cursor stays on the screen.
LEMMA NewlineType == ASSUME NEW g \in Grid PROVE Newline(g) \in Grid /\ Newline(g).col = 0
<1>1. g.screen \in [Rows -> [Columns -> Cell]] /\ g.row \in Rows /\ g.col \in 0..WIDTH
  BY DEF Grid
<1>2. 0 \in 0..WIDTH /\ HEIGHT - 1 \in Rows
  BY ConsoleAssumption DEF Rows
<1>3. CASE g.row + 1 >= HEIGHT
  <2>1. BlankRow \in [Columns -> Cell]
    BY DEF BlankRow, Cell
  <2>2. [r \in Rows |-> IF r + 1 \in Rows THEN g.screen[r + 1] ELSE BlankRow]
            \in [Rows -> [Columns -> Cell]]
    BY <1>1, <2>1
  <2> QED
    BY <1>2, <1>3, <2>2 DEF Newline, Grid
<1>4. CASE ~(g.row + 1 >= HEIGHT)
  <2>1. g.row + 1 \in Rows
    BY <1>1, <1>4, ConsoleAssumption DEF Rows
  <2>2. Newline(g) = [screen |-> g.screen, col |-> 0, row |-> g.row + 1]
    BY <1>4 DEF Newline, Grid
  <2> QED
    BY <1>1, <1>2, <2>1, <2>2 DEF Grid
<1> QED
  BY <1>3, <1>4

\* put_char keeps the grid a grid, whatever character it is given.
LEMMA PutCharType ==
    ASSUME NEW g \in Grid, NEW ch \in Characters
    PROVE  PutChar(g, ch) \in Grid
<1>0. 0 \in 0..WIDTH /\ g.col \in 0..WIDTH
  BY ConsoleAssumption DEF Grid
<1>1. [g EXCEPT !.col = 0] \in Grid
  BY <1>0 DEF Grid
<1>2. Backspace(g) \in Grid
  <2>1. CASE g.col > 0
    <3>1. [g EXCEPT !.col = @ - 1] \in Grid /\ [g EXCEPT !.col = @ - 1].col < WIDTH
      BY <1>0, <2>1, ConsoleAssumption DEF Grid
    <3> QED
      BY <2>1, <3>1, DrawnType DEF Backspace, Cell
  <2> QED
    BY <2>1 DEF Backspace
<1>3. Glyph(Wrapped(g), ch) \in Grid
  <2>1. Wrapped(g) \in Grid /\ Wrapped(g).col < WIDTH
    BY <1>0, NewlineType, ConsoleAssumption DEF Wrapped
  <2>2. Drawn(Wrapped(g), ch) \in Grid /\ Drawn(Wrapped(g), ch).col < WIDTH
    BY <2>1, DrawnType DEF Cell
  <2>3. [Drawn(Wrapped(g), ch) EXCEPT !.col = @ + 1] \in Grid
    BY <2>2, ConsoleAssumption DEF Grid
  <2> QED
    BY <2>3 DEF Glyph
<1> QED
  BY <1>1, <1>2, <1>3, NewlineType DEF PutChar

----------------------------------------------------------------------------
(* The screen is the end of the sheet, one character after the other.      *)

Row == [Columns -> Cell]

IsSheet(s) == s.lines \in Seq(Row) /\ Len(s.lines) >= 1 /\ s.at \in 0..WIDTH

\* The grid is the end of the sheet, and its cursor stands where the pen does.
Shows(g, s) ==
    /\ g.screen = EndOf(s.lines)
    /\ g.col = s.at
    /\ g.row = Len(s.lines) - Gone(s.lines) - 1

\* newline and scroll are a new line on the sheet.
LEMMA NewlineShows ==
    ASSUME NEW g \in Grid, NEW s, IsSheet(s), Shows(g, s)
    PROVE  Shows(Newline(g), NextLine(s)) /\ IsSheet(NextLine(s))
<1> DEFINE lines == s.lines
<1> DEFINE new == Append(lines, BlankRow)
<1>1. BlankRow \in Row /\ lines \in Seq(Row) /\ Len(lines) \in Nat /\ Len(lines) >= 1 /\ HEIGHT \in Nat \ {0}
      /\ DOMAIN lines = 1..Len(lines)
  BY ConsoleAssumption DEF BlankRow, Row, Cell, IsSheet
<1>2. /\ new \in Seq(Row) /\ Len(new) = Len(lines) + 1 /\ DOMAIN new = 1..(Len(lines) + 1)
      /\ new[Len(lines) + 1] = BlankRow /\ \A i \in 1..Len(lines) : new[i] = lines[i]
  BY <1>1
<1>3. NextLine(s).lines = new /\ NextLine(s).at = 0
  BY DEF NextLine
<1>4. IsSheet(NextLine(s))
  <2>1. 0 \in 0..WIDTH
    BY ConsoleAssumption
  <2>2. Len(new) >= 1
    BY <1>1, <1>2
  <2> HIDE DEF new
  <2> QED
    BY <1>2, <1>3, <2>1, <2>2 DEF IsSheet
<1>5. g.screen = EndOf(lines) /\ g.row = Len(lines) - Gone(lines) - 1
  BY DEF Shows
<1> HIDE DEF new, lines
<1>6. CASE Len(lines) >= HEIGHT
  <2>1. Gone(lines) = Len(lines) - HEIGHT /\ Gone(new) = Len(lines) - HEIGHT + 1
    BY <1>1, <1>2, <1>6 DEF Gone
  <2>2. g.row + 1 >= HEIGHT
    BY <1>1, <1>5, <2>1
  <2>3. Newline(g).screen = [r \in Rows |-> IF r + 1 \in Rows THEN g.screen[r + 1] ELSE BlankRow]
        /\ Newline(g).row = HEIGHT - 1 /\ Newline(g).col = 0
    BY <2>2 DEF Newline
  <2>4. ASSUME NEW r \in Rows
        PROVE  (IF r + 1 \in Rows THEN g.screen[r + 1] ELSE BlankRow) = EndOf(new)[r]
    <3>1. r \in Nat /\ r <= HEIGHT - 1 /\ Gone(new) + r + 1 \in 1..(Len(lines) + 1)
      BY <1>1, <1>6, <2>1 DEF Rows
    <3>2. EndOf(new)[r] = new[Gone(new) + r + 1]
      BY <1>2, <3>1 DEF EndOf
    <3>3. CASE r + 1 \in Rows
      <4>1. Gone(lines) + (r + 1) + 1 \in 1..Len(lines)
        BY <1>1, <1>6, <2>1, <3>1, <3>3 DEF Rows
      <4>2. g.screen[r + 1] = lines[Gone(lines) + (r + 1) + 1]
        BY <1>1, <1>5, <3>3, <4>1 DEF EndOf
      <4>3. Gone(new) + r + 1 = Gone(lines) + (r + 1) + 1
        BY <1>1, <2>1, <3>1
      <4> QED
        BY <1>2, <3>2, <3>3, <4>1, <4>2, <4>3
    <3>4. CASE r + 1 \notin Rows
      <4>1. Gone(new) + r + 1 = Len(lines) + 1
        BY <1>1, <2>1, <3>1, <3>4 DEF Rows
      <4> QED
        BY <1>2, <3>2, <3>4, <4>1
    <3> QED
      BY <3>3, <3>4
  <2>5. Newline(g).screen = EndOf(new)
    BY <2>3, <2>4 DEF EndOf
  <2>6. Newline(g).row = Len(new) - Gone(new) - 1
    BY <1>1, <1>2, <2>1, <2>3
  <2> QED
    BY <1>3, <1>4, <2>3, <2>5, <2>6 DEF Shows
<1>7. CASE Len(lines) < HEIGHT
  <2>0. Len(lines) <= HEIGHT /\ Len(new) <= HEIGHT /\ Len(new) \in Nat
    BY <1>1, <1>2, <1>7
  <2>1. Gone(lines) = 0 /\ Gone(new) = 0
    <3>1. ~(Len(lines) > HEIGHT) /\ ~(Len(new) > HEIGHT)
      BY <1>1, <2>0
    <3> QED
      BY <3>1 DEF Gone
  <2>2. ~(g.row + 1 >= HEIGHT)
    BY <1>1, <1>5, <1>7, <2>1
  <2>3. Newline(g).screen = g.screen /\ Newline(g).row = g.row + 1 /\ Newline(g).col = 0
    BY <2>2 DEF Newline, Grid
  <2>4. ASSUME NEW r \in Rows PROVE EndOf(lines)[r] = EndOf(new)[r]
    <3>1. r \in Nat
      BY DEF Rows
    <3>2. EndOf(lines)[r] = IF r + 1 \in 1..Len(lines) THEN lines[r + 1] ELSE BlankRow
      BY <1>1, <2>1, <3>1 DEF EndOf
    <3>3. EndOf(new)[r] = IF r + 1 \in 1..(Len(lines) + 1) THEN new[r + 1] ELSE BlankRow
      BY <1>2, <2>1, <3>1 DEF EndOf
    <3>4. CASE r + 1 \in 1..Len(lines)
      BY <1>1, <1>2, <3>1, <3>2, <3>3, <3>4
    <3>5. CASE r + 1 = Len(lines) + 1
      BY <1>1, <1>2, <3>1, <3>2, <3>3, <3>5
    <3>6. CASE r + 1 > Len(lines) + 1
      BY <1>1, <3>1, <3>2, <3>3, <3>6
    <3> QED
      BY <1>1, <3>1, <3>4, <3>5, <3>6
  <2>5. Newline(g).screen = EndOf(new)
    BY <1>5, <2>3, <2>4 DEF EndOf
  <2>6. Newline(g).row = Len(new) - Gone(new) - 1
    BY <1>1, <1>2, <1>5, <2>1, <2>3
  <2> QED
    BY <1>3, <1>4, <2>3, <2>5, <2>6 DEF Shows
<1> QED
  BY <1>1, <1>6, <1>7

\* A glyph that is drawn on the screen is drawn on the last line of the sheet.
LEMMA StruckShows ==
    ASSUME NEW s, IsSheet(s), NEW c \in Columns, NEW ch \in Cell,
           NEW scr, scr = EndOf(s.lines), NEW r, r = Len(s.lines) - Gone(s.lines) - 1
    PROVE  /\ [scr EXCEPT ![r][c] = ch] = EndOf(Struck(s, c, ch))
           /\ r = Len(Struck(s, c, ch)) - Gone(Struck(s, c, ch)) - 1
           /\ Struck(s, c, ch) \in Seq(Row) /\ Len(Struck(s, c, ch)) >= 1
<1> DEFINE lines == s.lines
<1> DEFINE last == [lines[Len(lines)] EXCEPT ![c] = ch]
<1> DEFINE new == [lines EXCEPT ![Len(lines)] = last]
<1>1. lines \in Seq(Row) /\ Len(lines) \in Nat /\ Len(lines) >= 1 /\ HEIGHT \in Nat \ {0}
      /\ DOMAIN lines = 1..Len(lines)
  BY ConsoleAssumption DEF IsSheet
<1>2. lines[Len(lines)] \in Row
  BY <1>1
<1>3. last \in Row
  BY <1>2 DEF Row
<1>4. Struck(s, c, ch) = new
  BY DEF Struck
<1>5. /\ new \in Seq(Row) /\ Len(new) = Len(lines) /\ DOMAIN new = 1..Len(lines)
      /\ new[Len(lines)] = last /\ \A i \in 1..Len(lines) : i # Len(lines) => new[i] = lines[i]
  <2> HIDE DEF last
  <2> QED
    BY <1>1, <1>3
<1>6. scr = EndOf(lines) /\ r = Len(lines) - Gone(lines) - 1
  OBVIOUS
<1> HIDE DEF new, lines
<1>7. Gone(new) = Gone(lines) /\ Gone(lines) \in Nat /\ r \in Rows /\ Gone(lines) + r + 1 = Len(lines)
  <2>1. Gone(new) = Gone(lines)
    BY <1>5 DEF Gone
  <2>2. CASE Len(lines) > HEIGHT
    <3>1. Gone(lines) = Len(lines) - HEIGHT
      BY <2>2 DEF Gone
    <3> QED
      BY <1>1, <1>6, <2>1, <2>2, <3>1 DEF Rows
  <2>3. CASE ~(Len(lines) > HEIGHT)
    <3>1. Gone(lines) = 0
      BY <2>3 DEF Gone
    <3> QED
      BY <1>1, <1>6, <2>1, <2>3, <3>1 DEF Rows
  <2> QED
    BY <2>2, <2>3
<1>8. scr[r] = lines[Len(lines)]
  BY <1>1, <1>6, <1>7 DEF EndOf
<1>9. DOMAIN scr = Rows
  BY <1>6 DEF EndOf
<1>10. ASSUME NEW q \in Rows PROVE [scr EXCEPT ![r][c] = ch][q] = EndOf(new)[q]
  <2>1. EndOf(new)[q] = IF Gone(lines) + q + 1 \in 1..Len(lines) THEN new[Gone(lines) + q + 1] ELSE BlankRow
    BY <1>5, <1>7 DEF EndOf
  <2>2. CASE q = r
    <3>1. EndOf(new)[q] = last
      <4>1. Gone(lines) + q + 1 = Len(lines) /\ Len(lines) \in 1..Len(lines)
        BY <1>1, <1>7, <2>2
      <4> HIDE DEF last
      <4> QED
        BY <1>5, <2>1, <4>1
    <3>2. [scr EXCEPT ![r][c] = ch][q] = [scr[r] EXCEPT ![c] = ch]
      BY <1>7, <1>9, <2>2
    <3> QED
      BY <1>8, <3>1, <3>2
  <2>3. CASE q # r
    <3>1. [scr EXCEPT ![r][c] = ch][q] = scr[q]
      BY <1>9, <2>3
    <3>2. scr[q] = IF Gone(lines) + q + 1 \in 1..Len(lines) THEN lines[Gone(lines) + q + 1] ELSE BlankRow
      BY <1>1, <1>6 DEF EndOf
    <3>3. Gone(lines) + q + 1 # Len(lines)
      BY <1>1, <1>7, <2>3 DEF Rows
    <3> QED
      BY <1>5, <2>1, <3>1, <3>2, <3>3
  <2> QED
    BY <2>2, <2>3
<1>11. [scr EXCEPT ![r][c] = ch] = EndOf(new)
  BY <1>9, <1>10 DEF EndOf
<1> QED
  BY <1>1, <1>4, <1>5, <1>6, <1>7, <1>11

\* put_char does to the screen what ink does to the sheet.
LEMMA PutCharShows ==
    ASSUME NEW g \in Grid, NEW s, IsSheet(s), Shows(g, s), NEW ch \in Characters
    PROVE  Shows(PutChar(g, ch), Inked(s, ch)) /\ IsSheet(Inked(s, ch))
<1>0. /\ WIDTH \in Nat \ {0} /\ s.at \in 0..WIDTH /\ g.col = s.at
      /\ g = [screen |-> g.screen, col |-> g.col, row |-> g.row]
  BY ConsoleAssumption DEF IsSheet, Shows, Grid
<1>1. CASE ch = "NL"
  BY <1>1, NewlineShows DEF PutChar, Inked
<1>2. CASE ch = "CR"
  <2>1. PutChar(g, ch) = [screen |-> g.screen, col |-> 0, row |-> g.row]
    BY <1>0, <1>2 DEF PutChar
  <2>2. Inked(s, ch).lines = s.lines /\ Inked(s, ch).at = 0
    BY <1>2 DEF Inked
  <2> QED
    BY <1>0, <2>1, <2>2 DEF Shows, IsSheet
<1>3. CASE ch = "BS"
  <2>1. PutChar(g, ch) = Backspace(g)
    BY <1>3 DEF PutChar
  <2>2. CASE s.at = 0
    <3>1. Inked(s, ch) = s /\ Backspace(g) = g
      BY <1>0, <1>3, <2>2 DEF Inked, Backspace
    <3> QED
      BY <2>1, <3>1
  <2>3. CASE s.at # 0
    <3> DEFINE c == s.at - 1
    <3>1. c \in Columns /\ c \in 0..WIDTH /\ Blank \in Cell
      BY <1>0, <2>3 DEF Columns, Cell
    <3>2. Inked(s, ch).lines = Struck(s, c, Blank) /\ Inked(s, ch).at = c
      BY <1>3, <2>3 DEF Inked
    <3>3. Backspace(g).screen = [g.screen EXCEPT ![g.row][c] = Blank] /\ Backspace(g).col = c
          /\ Backspace(g).row = g.row
      <4>1. Backspace(g) = Drawn([g EXCEPT !.col = c], Blank)
        BY <1>0, <2>3 DEF Backspace
      <4>2. [g EXCEPT !.col = c] = [screen |-> g.screen, col |-> c, row |-> g.row]
        BY <1>0
      <4> QED
        BY <4>1, <4>2 DEF Drawn
    <3> HIDE DEF c
    <3>4. /\ Backspace(g).screen = EndOf(Struck(s, c, Blank))
          /\ g.row = Len(Struck(s, c, Blank)) - Gone(Struck(s, c, Blank)) - 1
          /\ Struck(s, c, Blank) \in Seq(Row) /\ Len(Struck(s, c, Blank)) >= 1
      <4> DEFINE scr == g.screen
      <4> DEFINE r == g.row
      <4>1. scr = EndOf(s.lines) /\ r = Len(s.lines) - Gone(s.lines) - 1
        BY DEF Shows
      <4>2. Backspace(g).screen = [scr EXCEPT ![r][c] = Blank]
        BY <3>3
      <4> HIDE DEF scr
      <4>3. /\ [scr EXCEPT ![r][c] = Blank] = EndOf(Struck(s, c, Blank))
            /\ r = Len(Struck(s, c, Blank)) - Gone(Struck(s, c, Blank)) - 1
            /\ Struck(s, c, Blank) \in Seq(Row) /\ Len(Struck(s, c, Blank)) >= 1
        <5> HIDE DEF r
        <5> QED
          BY <3>1, <4>1, StruckShows
      <4> QED
        BY <4>2, <4>3
    <3> QED
      BY <2>1, <3>1, <3>2, <3>3, <3>4 DEF Shows, IsSheet
  <2> QED
    BY <2>2, <2>3
<1>4. CASE ch \notin {"NL", "CR", "BS"}
  <2> DEFINE t == IF s.at = WIDTH THEN NextLine(s) ELSE s
  <2> DEFINE h == Wrapped(g)
  <2>1. PutChar(g, ch) = Glyph(h, ch) /\ Inked(s, ch) = Typed(t, ch)
    BY <1>4 DEF PutChar, Inked
  <2>2. Shows(h, t) /\ IsSheet(t) /\ h \in Grid /\ t.at \in Columns
    <3>1. CASE s.at = WIDTH
      <4>1. h = Newline(g) /\ t = NextLine(s)
        BY <1>0, <3>1 DEF Wrapped
      <4>2. t.at = 0
        BY <4>1 DEF NextLine
      <4> QED
        BY <1>0, <4>1, <4>2, NewlineShows, NewlineType DEF Columns
    <3>2. CASE s.at # WIDTH
      <4>1. h = g /\ t = s
        BY <1>0, <3>2 DEF Wrapped
      <4> QED
        BY <1>0, <3>2, <4>1 DEF Columns
    <3> QED
      BY <3>1, <3>2
  <2> HIDE DEF t, h
  <2>3. h = [screen |-> h.screen, col |-> h.col, row |-> h.row] /\ h.col = t.at
    BY <2>2 DEF Grid, Shows
  <2>4. Typed(t, ch).lines = Struck(t, t.at, ch) /\ Typed(t, ch).at = t.at + 1
    BY DEF Typed
  <2>5. Glyph(h, ch).screen = [h.screen EXCEPT ![h.row][t.at] = ch] /\ Glyph(h, ch).col = t.at + 1
        /\ Glyph(h, ch).row = h.row
    <3>1. Drawn(h, ch) = [screen |-> [h.screen EXCEPT ![h.row][t.at] = ch], col |-> t.at, row |-> h.row]
      BY <2>3 DEF Drawn
    <3> QED
      BY <3>1 DEF Glyph
  <2>6. /\ Glyph(h, ch).screen = EndOf(Struck(t, t.at, ch))
        /\ h.row = Len(Struck(t, t.at, ch)) - Gone(Struck(t, t.at, ch)) - 1
        /\ Struck(t, t.at, ch) \in Seq(Row) /\ Len(Struck(t, t.at, ch)) >= 1
    <3> DEFINE scr == h.screen
    <3> DEFINE r == h.row
    <3> DEFINE c == t.at
    <3>1. scr = EndOf(t.lines) /\ r = Len(t.lines) - Gone(t.lines) - 1 /\ c \in Columns /\ ch \in Cell
      BY <2>2 DEF Shows, Cell
    <3>2. Glyph(h, ch).screen = [scr EXCEPT ![r][c] = ch]
      BY <2>5
    <3> HIDE DEF scr
    <3>3. /\ [scr EXCEPT ![r][c] = ch] = EndOf(Struck(t, c, ch))
          /\ r = Len(Struck(t, c, ch)) - Gone(Struck(t, c, ch)) - 1
          /\ Struck(t, c, ch) \in Seq(Row) /\ Len(Struck(t, c, ch)) >= 1
      <4> HIDE DEF r, c
      <4> QED
        BY <2>2, <3>1, StruckShows
    <3> QED
      BY <3>2, <3>3
  <2>7. t.at + 1 \in 0..WIDTH
    BY <1>0, <2>2 DEF Columns
  <2> QED
    BY <2>1, <2>4, <2>5, <2>6, <2>7 DEF Shows, IsSheet
<1> QED
  BY <1>1, <1>2, <1>3, <1>4

----------------------------------------------------------------------------
(* The sheets of a text, by induction along it.                            *)

\* A set of naturals has a least element: what fails somewhere along a text
\* fails somewhere for the first time.
LEMMA LeastNat ==
    ASSUME NEW S \in SUBSET Nat, S # {}
    PROVE  \E m \in S : \A y \in S : m <= y
<1>1. PICK m \in S : \A y \in S : ~(<<y, m>> \in OpToRel(<, Nat))
  BY NatLessThanWellFounded, WFMin
<1>2. ASSUME NEW y \in S PROVE m <= y
  <2>1. y \in Nat /\ m \in Nat /\ ~(y < m)
    BY <1>1 DEF OpToRel
  <2> QED
    BY <2>1
<1> QED
  BY <1>2

\* f holds the sheets after the first n characters of p.
IsSheets(f, p, n) == f = [i \in 0..n |-> IF i = 0 THEN EmptySheet ELSE Inked(f[i - 1], p[i])]

\* There are such sheets, as far as the text goes.
LEMMA SheetsExist ==
    ASSUME NEW p, NEW len \in Nat
    PROVE  \A n \in 0..len : \E f : IsSheets(f, p, n)
<1> DEFINE Bad == {n \in 0..len : ~\E f : IsSheets(f, p, n)}
<1> SUFFICES ASSUME Bad # {} PROVE FALSE
  OBVIOUS
<1>1. PICK m \in Bad : \A y \in Bad : m <= y
  <2>1. Bad \in SUBSET Nat
    OBVIOUS
  <2> HIDE DEF Bad
  <2> QED
    BY <2>1, LeastNat
<1>2. m \in Nat /\ m \in 0..len /\ ~\E f : IsSheets(f, p, m)
  OBVIOUS
<1>3. CASE m = 0
  <2> DEFINE f == [i \in 0..0 |-> EmptySheet]
  <2>1. f = [i \in 0..0 |-> IF i = 0 THEN EmptySheet ELSE Inked(f[i - 1], p[i])]
    OBVIOUS
  <2>2. IsSheets(f, p, 0)
    BY <2>1 DEF IsSheets
  <2> QED
    BY <1>2, <1>3, <2>2
<1>4. CASE m > 0
  <2>1. m - 1 \in 0..len /\ m - 1 \notin Bad
    BY <1>1, <1>2, <1>4
  <2>2. PICK g : IsSheets(g, p, m - 1)
    BY <2>1
  <2> DEFINE f == [i \in 0..m |-> IF i = m THEN Inked(g[m - 1], p[m]) ELSE g[i]]
  <2>3. ASSUME NEW i \in 0..m
        PROVE  f[i] = IF i = 0 THEN EmptySheet ELSE Inked(f[i - 1], p[i])
    <3>1. CASE i = m
      BY <1>2, <1>4, <3>1
    <3>2. CASE i # m
      <4>1. i \in 0..(m - 1)
        BY <1>2, <3>2
      <4>2. g[i] = IF i = 0 THEN EmptySheet ELSE Inked(g[i - 1], p[i])
        BY <2>2, <4>1 DEF IsSheets
      <4>3. i # 0 => f[i - 1] = g[i - 1]
        BY <1>2, <4>1
      <4> QED
        BY <3>2, <4>2, <4>3
    <3> QED
      BY <3>1, <3>2
  <2>4. f = [i \in 0..m |-> IF i = 0 THEN EmptySheet ELSE Inked(f[i - 1], p[i])]
    BY <2>3
  <2>5. IsSheets(f, p, m)
    BY <2>4 DEF IsSheets
  <2> QED
    BY <1>2, <2>5
<1> QED
  BY <1>2, <1>3, <1>4

\* So the sheets are what their recursive definition says.
LEMMA SheetsUnfold ==
    ASSUME NEW p, Len(p) \in Nat, NEW n \in 0..Len(p)
    PROVE  Sheets(p)[n] = IF n = 0 THEN EmptySheet ELSE Inked(Sheets(p)[n - 1], p[n])
<1> DEFINE len == Len(p)
<1>1. \E f : IsSheets(f, p, len)
  <2>1. len \in Nat /\ len \in 0..len
    OBVIOUS
  <2> HIDE DEF len
  <2> QED
    BY <2>1, SheetsExist
<1>2. Sheets(p) = CHOOSE f : IsSheets(f, p, Len(p))
  BY DEF Sheets, IsSheets
<1>3. IsSheets(Sheets(p), p, Len(p))
  BY <1>1, <1>2
<1> QED
  BY <1>3 DEF IsSheets

\* What is printed later leaves the sheets before it as they were.
LEMMA SheetsPrefix ==
    ASSUME NEW p, NEW q, Len(p) \in Nat, Len(q) \in Nat, Len(p) <= Len(q),
           \A i \in 1..Len(p) : q[i] = p[i]
    PROVE  \A n \in 0..Len(p) : Sheets(q)[n] = Sheets(p)[n]
<1> DEFINE Bad == {n \in 0..Len(p) : Sheets(q)[n] # Sheets(p)[n]}
<1> SUFFICES ASSUME Bad # {} PROVE FALSE
  OBVIOUS
<1>1. PICK m \in Bad : \A y \in Bad : m <= y
  <2>1. Bad \in SUBSET Nat
    OBVIOUS
  <2> HIDE DEF Bad
  <2> QED
    BY <2>1, LeastNat
<1>2. m \in Nat /\ m \in 0..Len(p) /\ m \in 0..Len(q) /\ Sheets(q)[m] # Sheets(p)[m]
  OBVIOUS
<1>3. /\ Sheets(p)[m] = IF m = 0 THEN EmptySheet ELSE Inked(Sheets(p)[m - 1], p[m])
      /\ Sheets(q)[m] = IF m = 0 THEN EmptySheet ELSE Inked(Sheets(q)[m - 1], q[m])
  BY <1>2, SheetsUnfold
<1>4. m # 0
  BY <1>2, <1>3
<1>5. m - 1 \in 0..Len(p) /\ m - 1 \notin Bad /\ q[m] = p[m]
  BY <1>1, <1>2, <1>4
<1>6. Sheets(q)[m - 1] = Sheets(p)[m - 1]
  BY <1>5
<1> QED
  BY <1>2, <1>3, <1>4, <1>5, <1>6

----------------------------------------------------------------------------
(* The inductive invariant.                                                *)

\* What is left to print are characters of the messages, or a clear.
TextOK == text \in [Context -> Seq(Characters \cup {Clear})]

\* Between without_interrupts and its end.
Masked == {"lock", "write", "enable"}

\* Who holds the lock is writing, who is past without_interrupts runs with
\* interrupts off, and a handler found them off.
LockInv ==
    /\ \A x \in Context : CONSOLE = x <=> pc[x] = "write"
    /\ pc["task"] \in Masked => ~enabled /\ ~irq
    /\ irq => ~enabled
    /\ ~irq => pc["irq"] = "out"
    /\ pc["irq"] \in Masked => ~saved["irq"]

IInv == TypeOK /\ TextOK /\ LockInv

LEMMA IInvInit == Init => IInv
<1> SUFFICES ASSUME Init PROVE IInv
  OBVIOUS
<1>1. TypeOK
  <2>1. screen \in [Rows -> [Columns -> {Blank} \cup Characters]]
    BY BlankScreenType DEF Init, Cell
  <2>2. 0 \in 0..WIDTH /\ 0 \in Rows
    BY ConsoleAssumption DEF Rows
  <2> QED
    BY <2>1, <2>2 DEF Init, TypeOK, Context
<1>2. TextOK
  BY DEF Init, TextOK
<1>3. LockInv
  BY DEF Init, LockInv, Context, Masked
<1> QED
  BY <1>1, <1>2, <1>3 DEF IInv

\* A message is a sequence of characters, and so is a clear.
LEMMA MessageType ==
    ASSUME NEW msg \in Messages \cup {<<Clear>>}
    PROVE  msg \in Seq(Characters \cup {Clear})
<1>1. CASE msg \in Messages
  <2>1. msg \in Seq(STRING)
    BY <1>1, ConsoleAssumption
  <2>2. \A i \in 1..Len(msg) : msg[i] \in Characters \cup {Clear}
    BY <1>1, <2>1 DEF Characters
  <2> QED
    BY <2>1, <2>2
<1>2. CASE msg = <<Clear>>
  BY <1>2
<1> QED
  BY <1>1, <1>2

\* Entering and leaving without_interrupts.
LEMMA IInvCall ==
    ASSUME IInv, NEW x \in Context, NEW msg \in Messages \cup {<<Clear>>}, Call(x, msg)
    PROVE  IInv'
<1>1. TextOK'
  BY MessageType DEF IInv, TextOK, Call
<1>2. TypeOK'
  BY DEF IInv, TypeOK, Call, grid, Context
<1>3. LockInv'
  BY DEF IInv, TypeOK, LockInv, Call, Runs, Context, Masked
<1> QED
  BY <1>1, <1>2, <1>3 DEF IInv

LEMMA IInvFlag ==
    ASSUME IInv, NEW x \in Context, Disable(x) \/ Enable(x)
    PROVE  IInv'
<1>1. TextOK'
  BY DEF IInv, TextOK, Disable, Enable
<1>2. TypeOK'
  BY DEF IInv, TypeOK, Disable, Disabled, Enable, Restored, grid, Context
<1>3. LockInv'
  BY DEF IInv, TypeOK, LockInv, Disable, Disabled, Enable, Restored, Runs, Context, Masked
<1> QED
  BY <1>1, <1>2, <1>3 DEF IInv

\* Taking and releasing the spinlock.
LEMMA IInvLock ==
    ASSUME IInv, NEW x \in Context, Lock(x) \/ Unlock(x)
    PROVE  IInv'
<1>1. TextOK'
  BY DEF IInv, TextOK, Lock, Unlock, vars
<1>2. TypeOK'
  BY DEF IInv, TypeOK, Lock, Unlock, vars, grid, Context
<1>3. LockInv'
  BY DEF IInv, TypeOK, LockInv, Lock, Unlock, vars, Runs, Context, Masked
<1> QED
  BY <1>1, <1>2, <1>3 DEF IInv

\* One character goes to the grid.
LEMMA IInvWrite == ASSUME IInv, NEW x \in Context, Write(x) PROVE IInv'
<1>0. text[x] \in Seq(Characters \cup {Clear}) /\ text[x] # <<>>
  BY DEF IInv, TextOK, Write
<1>1. Head(text[x]) \in Characters \cup {Clear} /\ Tail(text[x]) \in Seq(Characters \cup {Clear})
  BY <1>0
<1>2. TextOK'
  BY <1>1 DEF IInv, TextOK, Write
<1>3. [screen |-> screen, col |-> col, row |-> row] \in Grid
  BY DEF IInv, TypeOK, Grid, Cell
<1>4. screen' \in [Rows -> [Columns -> Cell]] /\ col' \in 0..WIDTH /\ row' \in Rows
  <2>1. CASE Head(text[x]) = Clear
    <3>1. 0 \in 0..WIDTH /\ 0 \in Rows
      BY ConsoleAssumption DEF Rows
    <3> QED
      BY <2>1, <3>1, BlankScreenType DEF Write
  <2>2. CASE Head(text[x]) # Clear
    <3> DEFINE g == [screen |-> screen, col |-> col, row |-> row]
    <3>1. PutChar(g, Head(text[x])) \in Grid
      BY <1>1, <1>3, <2>2, PutCharType
    <3>2. /\ screen' = PutChar(g, Head(text[x])).screen
          /\ col' = PutChar(g, Head(text[x])).col
          /\ row' = PutChar(g, Head(text[x])).row
      BY <2>2 DEF Write
    <3> QED
      BY <3>1, <3>2 DEF Grid
  <2> QED
    BY <2>1, <2>2
<1>5. TypeOK'
  BY <1>4 DEF IInv, TypeOK, Write, Cell
<1>6. LockInv'
  BY DEF IInv, LockInv, Write
<1> QED
  BY <1>2, <1>5, <1>6 DEF IInv

\* A handler comes and goes.
LEMMA IInvInterrupt == ASSUME IInv, Interrupt \/ Iret PROVE IInv'
<1>1. TextOK'
  BY DEF IInv, TextOK, Interrupt, Iret
<1>2. TypeOK'
  BY DEF IInv, TypeOK, Interrupt, Iret, grid
<1>3. LockInv'
  BY DEF IInv, TypeOK, LockInv, Interrupt, Iret, Context, Masked
<1> QED
  BY <1>1, <1>2, <1>3 DEF IInv

\* The inductive invariant of the console.
THEOREM InductiveInvariant == Spec => []IInv
<1>1. IInv /\ [Next]_vars => IInv'
  <2> SUFFICES ASSUME IInv, [Next]_vars PROVE IInv'
    OBVIOUS
  <2>1. ASSUME NEW x \in Context, Step(x) PROVE IInv'
    BY <2>1, IInvFlag, IInvLock, IInvWrite DEF Step
  <2>2. ASSUME NEW x \in Context, NEW msg \in Messages \cup {<<Clear>>}, Call(x, msg) PROVE IInv'
    BY <2>2, IInvCall
  <2>3. CASE Interrupt \/ Iret
    BY <2>3, IInvInterrupt
  <2>4. CASE UNCHANGED vars
    BY <2>4 DEF vars, grid, IInv, TypeOK, TextOK, LockInv
  <2> QED
    BY <2>1, <2>2, <2>3, <2>4 DEF Next
<1> QED
  BY <1>1, IInvInit, PTL DEF Spec

\* The cursor stays on the screen for every screen size and every text:
\* put_char never draws outside the framebuffer.
THEOREM ConsoleTypeCorrect == Spec => []TypeOK
BY InductiveInvariant, PTL DEF IInv

\* A handler that prints finds the lock free, and its print lets no further
\* interrupt in: print! deadlocks neither a task nor a handler.
THEOREM PrintsDoNotDeadlock == Spec => []LockIsSafe
<1>1. IInv => LockIsSafe
  BY DEF IInv, TypeOK, LockInv, LockIsSafe, HandlerFindsTheLockFree, HandlersAreNotPreempted,
         Context, Masked
<1> QED
  BY <1>1, InductiveInvariant, PTL

----------------------------------------------------------------------------
(* The screen shows the end of what was printed.                           *)

\* A context prints a message or clears the screen.
MessagesOK ==
    /\ \A x \in Context : text[x] \in Seq(Characters) \/ text[x] = <<Clear>>
    /\ printed \in Seq(Characters)

\* What the holder of the lock has still to write.
Left == IF CONSOLE = "free" THEN <<>> ELSE text[CONSOLE]

\* The grid g shows the sheet of p but for l, which p ends with.
Behind(p, l, g) ==
    LET n == Len(p) - Len(l)
    IN /\ Len(l) <= Len(p)
       /\ \A i \in 1..Len(l) : p[n + i] = l[i]
       /\ IsSheet(Sheets(p)[n]) /\ Shows(g, Sheets(p)[n])

Screen == [screen |-> screen, col |-> col, row |-> row]

\* The screen is behind what was printed by what is left to write, unless it
\* is about to be cleared.
ShowInv ==
    /\ MessagesOK
    /\ IF Left = <<Clear>> THEN printed = <<>> ELSE Behind(printed, Left, Screen)

\* An empty screen shows the empty sheet.
LEMMA BlankShows ==
    ASSUME NEW g, g = [screen |-> BlankScreen, col |-> 0, row |-> 0]
    PROVE  Behind(<<>>, <<>>, g)
<1>1. HEIGHT \in Nat \ {0} /\ WIDTH \in Nat \ {0} /\ Len(<<>>) = 0
  BY ConsoleAssumption
<1>2. Sheets(<<>>)[0] = EmptySheet
  <2>1. Len(<<>>) \in Nat /\ 0 \in 0..Len(<<>>)
    BY <1>1
  <2> QED
    BY <2>1, SheetsUnfold
<1> DEFINE lines == EmptySheet.lines
<1>3. lines = <<BlankRow>> /\ EmptySheet.at = 0
  BY DEF EmptySheet
<1>4. lines \in Seq(Row) /\ Len(lines) = 1 /\ DOMAIN lines = {1} /\ lines[1] = BlankRow
  <2>1. BlankRow \in Row
    BY DEF BlankRow, Row, Cell
  <2> QED
    BY <1>3, <2>1
<1> HIDE DEF lines
<1>5. Gone(lines) = 0
  BY <1>1, <1>4 DEF Gone
<1>6. \A r \in Rows : (IF Gone(lines) + r + 1 \in DOMAIN lines THEN lines[Gone(lines) + r + 1] ELSE BlankRow) = BlankRow
  BY <1>4, <1>5 DEF Rows
<1>7. EndOf(lines) = BlankScreen
  BY <1>6 DEF EndOf, BlankScreen
<1>8. g.screen = BlankScreen /\ g.col = 0 /\ g.row = 0
  OBVIOUS
<1>9. IsSheet(EmptySheet)
  BY <1>1, <1>3, <1>4 DEF IsSheet, lines
<1>10. Shows(g, EmptySheet)
  BY <1>1, <1>3, <1>4, <1>5, <1>7, <1>8 DEF Shows, lines
<1> QED
  BY <1>1, <1>2, <1>9, <1>10 DEF Behind

\* A message is printed as a whole when the lock is taken, and written later.
LEMMA TakenBehind ==
    ASSUME NEW p \in Seq(Characters), NEW l \in Seq(Characters), NEW g, Behind(p, <<>>, g)
    PROVE  Behind(p \o l, l, g)
<1> DEFINE q == p \o l
<1>1. /\ Len(p) \in Nat /\ Len(l) \in Nat /\ Len(q) = Len(p) + Len(l) /\ Len(<<>>) = 0
      /\ \A i \in 1..Len(p) : q[i] = p[i]
      /\ \A i \in 1..Len(l) : q[Len(p) + i] = l[i]
  OBVIOUS
<1> HIDE DEF q
<1>2. Len(q) - Len(l) = Len(p) /\ Len(l) <= Len(q) /\ Len(p) <= Len(q) /\ Len(q) \in Nat
      /\ Len(p) - Len(<<>>) = Len(p) /\ Len(p) \in 0..Len(p)
  BY <1>1
<1>3. Sheets(q)[Len(p)] = Sheets(p)[Len(p)]
  BY <1>1, <1>2, SheetsPrefix
<1>4. IsSheet(Sheets(p)[Len(p)]) /\ Shows(g, Sheets(p)[Len(p)])
  BY <1>2 DEF Behind
<1>5. Behind(q, l, g)
  BY <1>1, <1>2, <1>3, <1>4 DEF Behind
<1> QED
  BY <1>5 DEF q

\* A character is written.
LEMMA WrittenBehind ==
    ASSUME NEW p \in Seq(Characters), NEW l \in Seq(Characters), l # <<>>,
           NEW g \in Grid, Behind(p, l, g)
    PROVE  Behind(p, Tail(l), PutChar(g, Head(l)))
<1> DEFINE n == Len(p) - Len(l)
<1> DEFINE t == Tail(l)
<1> DEFINE h == Head(l)
<1>1. /\ Len(p) \in Nat /\ Len(l) \in Nat /\ Len(l) >= 1 /\ Len(t) = Len(l) - 1
      /\ h = l[1] /\ h \in Characters /\ \A i \in 1..Len(t) : t[i] = l[i + 1]
  OBVIOUS
<1>2. /\ Len(l) <= Len(p) /\ \A i \in 1..Len(l) : p[n + i] = l[i]
      /\ IsSheet(Sheets(p)[n]) /\ Shows(g, Sheets(p)[n])
  BY DEF Behind
<1> HIDE DEF t, h
<1>3. n \in 0..Len(p) /\ n + 1 \in 0..Len(p) /\ n + 1 # 0 /\ Len(p) - Len(t) = n + 1 /\ Len(t) <= Len(p)
      /\ (n + 1) - 1 = n /\ 1 \in 1..Len(l)
  BY <1>1, <1>2
<1>4. p[n + 1] = h
  BY <1>1, <1>2, <1>3
<1>5. ASSUME NEW i \in 1..Len(t) PROVE p[n + 1 + i] = t[i]
  <2>1. i + 1 \in 1..Len(l) /\ n + (i + 1) = n + 1 + i
    BY <1>1, <1>3
  <2> HIDE DEF n
  <2> QED
    BY <1>1, <1>2, <2>1
<1>6. Sheets(p)[n + 1] = Inked(Sheets(p)[n], h)
  <2> HIDE DEF n
  <2> QED
    BY <1>1, <1>3, <1>4, SheetsUnfold
<1>7. Shows(PutChar(g, h), Sheets(p)[n + 1]) /\ IsSheet(Sheets(p)[n + 1])
  <2> HIDE DEF n
  <2> QED
    BY <1>1, <1>2, <1>6, PutCharShows
<1>8. Behind(p, t, PutChar(g, h))
  <2> HIDE DEF n
  <2> QED
    BY <1>3, <1>5, <1>7 DEF Behind
<1> QED
  BY <1>8 DEF t, h

LEMMA ShowInit == Init => ShowInv
<1> SUFFICES ASSUME Init PROVE ShowInv
  OBVIOUS
<1>1. MessagesOK
  BY DEF Init, MessagesOK
<1>2. Left = <<>> /\ printed = <<>> /\ Screen = [screen |-> BlankScreen, col |-> 0, row |-> 0]
  BY DEF Init, Left, Screen
<1>3. <<>> # <<Clear>>
  OBVIOUS
<1> QED
  BY <1>1, <1>2, <1>3, BlankShows DEF ShowInv

\* Nothing but taking the lock and writing moves the screen against the text.
LEMMA ShowIdle ==
    ASSUME ShowInv, MessagesOK', UNCHANGED <<grid, printed>>, Left' = Left
    PROVE  ShowInv'
<1>1. Screen' = Screen
  BY DEF Screen, grid
<1> QED
  BY <1>1 DEF ShowInv

\* Clear is no character.
LEMMA ClearIsNone == Clear \notin Characters
BY ConsoleAssumption DEF Clear, Characters

LEMMA ShowStep == IInv /\ ShowInv /\ [Next]_vars => ShowInv'
<1> SUFFICES ASSUME IInv, ShowInv, [Next]_vars PROVE ShowInv'
  OBVIOUS
<1>0. /\ \A y \in Context : CONSOLE = y <=> pc[y] = "write"
      /\ CONSOLE \in Context \cup {"free"} /\ "free" \notin Context
      /\ text \in [Context -> Seq(Characters \cup {Clear})]
  BY DEF IInv, LockInv, TypeOK, TextOK, Context
<1>1. /\ \A x \in Context : text[x] \in Seq(Characters) \/ text[x] = <<Clear>>
      /\ printed \in Seq(Characters)
  BY DEF ShowInv, MessagesOK
<1>2. ASSUME NEW x \in Context, NEW msg \in Messages \cup {<<Clear>>}, Call(x, msg) PROVE ShowInv'
  <2>1. msg \in Seq(Characters) \/ msg = <<Clear>>
    <3>1. CASE msg \in Messages
      <4>1. msg \in Seq(STRING)
        BY <3>1, ConsoleAssumption
      <4>2. \A i \in 1..Len(msg) : msg[i] \in Characters
        BY <3>1, <4>1 DEF Characters
      <4> QED
        BY <4>1, <4>2
    <3> QED
      BY <3>1
  <2>2. text' = [text EXCEPT ![x] = msg] /\ CONSOLE' = CONSOLE /\ CONSOLE # x /\ printed' = printed
        /\ UNCHANGED grid
    BY <1>0, <1>2 DEF Call
  <2>3. \A y \in Context : text'[y] = IF y = x THEN msg ELSE text[y]
    BY <1>0, <2>2
  <2>4. MessagesOK'
    BY <1>1, <2>1, <2>2, <2>3 DEF MessagesOK
  <2>5. Left' = Left
    BY <1>0, <2>2, <2>3 DEF Left
  <2> QED
    BY <2>2, <2>4, <2>5, ShowIdle
<1>3. ASSUME UNCHANGED <<grid, CONSOLE, text, printed>> PROVE ShowInv'
  BY <1>1, <1>3, ShowIdle DEF MessagesOK, Left
<1>4. ASSUME NEW x \in Context, Lock(x) PROVE ShowInv'
  <2>1. CASE CONSOLE # "free"
    BY <1>3, <1>4, <2>1 DEF Lock, vars
  <2>2. CASE CONSOLE = "free"
    <3>1. /\ CONSOLE' = x /\ UNCHANGED <<grid, text>>
          /\ printed' = IF text[x] = <<Clear>> THEN <<>> ELSE printed \o text[x]
      BY <1>4, <2>2 DEF Lock
    <3>2. Left = <<>> /\ Left' = text[x] /\ Screen' = Screen /\ <<>> # <<Clear>>
      BY <1>0, <2>2, <3>1 DEF Left, Screen, grid
    <3>3. Behind(printed, <<>>, Screen)
      BY <3>2 DEF ShowInv
    <3>4. CASE text[x] = <<Clear>>
      BY <1>1, <3>1, <3>2, <3>4 DEF ShowInv, MessagesOK
    <3>5. CASE text[x] # <<Clear>>
      <4>1. text[x] \in Seq(Characters)
        BY <1>1, <3>5
      <4>2. printed' = printed \o text[x] /\ printed' \in Seq(Characters)
        BY <1>1, <3>1, <3>5, <4>1
      <4>3. Behind(printed', Left', Screen')
        BY <1>1, <3>2, <3>3, <4>1, <4>2, TakenBehind
      <4>4. MessagesOK'
        BY <1>1, <3>1, <4>2 DEF MessagesOK
      <4> QED
        BY <3>2, <3>5, <4>3, <4>4 DEF ShowInv
    <3> QED
      BY <3>4, <3>5
  <2> QED
    BY <2>1, <2>2
<1>5. ASSUME NEW x \in Context, Write(x) PROVE ShowInv'
  <2>1. /\ CONSOLE = x /\ CONSOLE' = CONSOLE /\ printed' = printed /\ text[x] # <<>>
        /\ text' = [text EXCEPT ![x] = Tail(text[x])]
    BY <1>0, <1>5 DEF Write
  <2>2. Left = text[x] /\ Left' = Tail(text[x]) /\ \A y \in Context : y # x => text'[y] = text[y]
    BY <1>0, <2>1 DEF Left
  <2>3. text'[x] = Tail(text[x])
    BY <1>0, <2>1
  <2>4. CASE text[x] = <<Clear>>
    <3>1. Head(text[x]) = Clear /\ Tail(text[x]) = <<>> /\ <<>> # <<Clear>> /\ <<>> \in Seq(Characters)
      BY <2>4
    <3>2. screen' = BlankScreen /\ col' = 0 /\ row' = 0
      BY <1>5, <3>1 DEF Write
    <3>3. Screen' = [screen |-> BlankScreen, col |-> 0, row |-> 0]
      BY <3>2 DEF Screen
    <3>4. printed' = <<>> /\ Left' = <<>>
      BY <2>1, <2>2, <2>4, <3>1 DEF ShowInv
    <3>5. Behind(printed', Left', Screen')
      BY <3>3, <3>4, BlankShows
    <3>6. MessagesOK'
      BY <1>1, <2>1, <2>2, <2>3, <3>1 DEF MessagesOK
    <3> QED
      BY <3>1, <3>4, <3>5, <3>6 DEF ShowInv
  <2>5. CASE text[x] # <<Clear>>
    <3>1. text[x] \in Seq(Characters) /\ Behind(printed, text[x], Screen)
      BY <1>1, <2>2, <2>5 DEF ShowInv
    <3>2. Head(text[x]) \in Characters /\ Tail(text[x]) \in Seq(Characters)
      BY <2>1, <3>1
    <3>3. Head(text[x]) # Clear
      BY <3>2, ClearIsNone
    <3> DEFINE after == PutChar(Screen, Head(text[x]))
    <3>4. screen' = after.screen /\ col' = after.col /\ row' = after.row
      BY <1>5, <3>3 DEF Write, Screen
    <3>5. Screen \in Grid
      BY DEF IInv, TypeOK, Grid, Cell, Screen
    <3>6. after \in Grid
      BY <3>2, <3>5, PutCharType
    <3>7. after = [screen |-> after.screen, col |-> after.col, row |-> after.row]
      <4> HIDE DEF after
      <4> QED
        BY <3>6 DEF Grid
    <3>8. Screen' = after
      <4> HIDE DEF after
      <4> QED
        BY <3>4, <3>7 DEF Screen
    <3>9. Behind(printed, Tail(text[x]), after)
      BY <1>1, <2>1, <3>1, <3>5, WrittenBehind
    <3>10. Tail(text[x]) # <<Clear>>
      <4>1. \A l \in Seq(Characters) : l # <<Clear>>
        <5> SUFFICES ASSUME <<Clear>> \in Seq(Characters) PROVE FALSE
          OBVIOUS
        <5>1. <<Clear>>[1] \in Characters
          OBVIOUS
        <5> QED
          BY <5>1, ClearIsNone
      <4> QED
        BY <3>2, <4>1
    <3>11. MessagesOK'
      BY <1>1, <2>1, <2>2, <2>3, <3>2 DEF MessagesOK
    <3> HIDE DEF after
    <3> QED
      BY <2>1, <2>2, <3>8, <3>9, <3>10, <3>11 DEF ShowInv
  <2> QED
    BY <2>4, <2>5
<1>6. ASSUME NEW x \in Context, Unlock(x) PROVE ShowInv'
  <2>1. CONSOLE = x /\ CONSOLE' = "free" /\ text[x] = <<>> /\ UNCHANGED <<grid, text, printed>>
    BY <1>0, <1>6 DEF Unlock
  <2>2. Left' = Left
    BY <1>0, <2>1 DEF Left
  <2>3. MessagesOK'
    BY <1>1, <2>1 DEF MessagesOK
  <2> QED
    BY <2>1, <2>2, <2>3, ShowIdle
<1>7. ASSUME NEW x \in Context, Disable(x) \/ Enable(x) PROVE ShowInv'
  BY <1>3, <1>7 DEF Disable, Enable
<1>8. CASE Interrupt \/ Iret
  BY <1>3, <1>8 DEF Interrupt, Iret
<1>9. CASE UNCHANGED vars
  BY <1>3, <1>9 DEF vars
<1> QED
  BY <1>2, <1>4, <1>5, <1>6, <1>7, <1>8, <1>9 DEF Next, Step

\* For every screen size and every text: whenever nobody holds the console,
\* the screen shows the end of all that was printed since it was cleared, each
\* message whole and in the order in which the lock was taken (_print,
\* put_char, newline and scroll of console.rs).
THEOREM ScreenShowsTheEnd == Spec => []ShowsTheEnd
<1>1. IInv /\ ShowInv => ShowsTheEnd
  <2> SUFFICES ASSUME ShowInv, CONSOLE = "free"
               PROVE  screen = EndOf(Sheets(printed)[Len(printed)].lines)
    BY DEF ShowsTheEnd
  <2>1. Left = <<>> /\ <<>> # <<Clear>> /\ Len(<<>>) = 0 /\ Len(printed) \in Nat
    BY DEF Left, ShowInv, MessagesOK
  <2>2. Behind(printed, <<>>, Screen)
    BY <2>1 DEF ShowInv
  <2>3. Shows(Screen, Sheets(printed)[Len(printed)])
    BY <2>1, <2>2 DEF Behind
  <2> QED
    BY <2>3 DEF Shows, Screen
<1> QED
  BY <1>1, InductiveInvariant, ShowInit, ShowStep, PTL DEF Spec

=============================================================================
