------------------------------- MODULE VgaTxt -------------------------------
(***************************************************************************)
(* The text screen, boot/vga_txt/vga_txt.c: the cells, the position the     *)
(* next character goes to, the colour it gets.  Characters are records with *)
(* a field ch; the operators map a screen to the screen after them.         *)
(***************************************************************************)
EXTENDS Integers, Sequences, SequencesExt

CONSTANTS SCREEN_WIDTH, SCREEN_HEIGHT   \* 80 and 25

ASSUME ScreenAssumption == SCREEN_WIDTH \in Nat \ {0} /\ SCREEN_HEIGHT \in Nat \ {0}

tabSize == 4

Columns == 0 .. SCREEN_WIDTH - 1
Rows == 0 .. SCREEN_HEIGHT - 1

None == [ch |-> ""]
Space == [ch |-> " "]
Blank(v) == [glyph |-> None, color |-> v.currentColor]

\* shown is a history variable: the characters written since the screen was
\* cleared, a tab as the blanks it is written as.
Unlit ==
  [screen |-> [y \in Rows |-> [x \in Columns |-> [glyph |-> None, color |-> 0]]],
   screenX |-> 0, screenY |-> 0, currentColor |-> 15, shown |-> << >>]

vgatxt_scroll_up(v, lines) ==
  [v EXCEPT !.screen =
     [y \in Rows |-> IF y < SCREEN_HEIGHT - lines THEN v.screen[y + lines]
                     ELSE [x \in Columns |-> Blank(v)]]]

vgatxt_clr_screen(v) ==
  [v EXCEPT !.screen = [y \in Rows |-> [x \in Columns |-> Blank(v)]],
            !.screenX = 0, !.screenY = 0, !.shown = << >>]

\* The background is the high half of the colour.
vgatxt_set_txt_color(v, color) ==
  [v EXCEPT !.currentColor = ((@ \div 16) * 16) + (color % 16)]

\* The end of vgatxt_putc: past the last column the next line, past the last
\* line scroll.
NextLine(v) ==
  IF v.screenX >= SCREEN_WIDTH THEN [v EXCEPT !.screenX = 0, !.screenY = @ + 1] ELSE v

Seed_Limits(v) ==  \* seeded fault: the cursor is not taken back before the scroll
  LET n == NextLine(v) IN
    IF n.screenY >= SCREEN_HEIGHT THEN [vgatxt_scroll_up(n, 1) EXCEPT !.screenX = n.screenX, !.screenY = 0] ELSE n

Limits(v) ==
  LET n == NextLine(v) IN
    IF n.screenY >= SCREEN_HEIGHT
    THEN vgatxt_scroll_up([n EXCEPT !.screenY = SCREEN_HEIGHT - 1], 1) ELSE n

Cell(v, g) == [v.screen EXCEPT ![v.screenY][v.screenX] = [glyph |-> g, color |-> v.currentColor]]

\* The default case.
Put(v, g) ==
  Limits([v EXCEPT !.screen = Cell(v, g), !.screenX = @ + 1, !.shown = Append(@, g)])

\* The loop of a tab, of at most tabSize rounds, looks at the column it has come
\* to, not at the one it began in.
Tab(v) ==
  LET again(s, i) ==
        IF s.on /\ i < tabSize - (s.v.screenX % tabSize) THEN [s EXCEPT !.v = Put(s.v, Space)]
        ELSE [s EXCEPT !.on = FALSE]
  IN  again(again(again(again([v |-> v, on |-> TRUE], 0), 1), 2), 3).v

vgatxt_putc(v, g) ==
  CASE g.ch = "newline" -> Limits([v EXCEPT !.screenX = 0, !.screenY = @ + 1, !.shown = Append(@, g)])
    [] g.ch = "tab" -> Limits(Tab(v))
    [] g.ch = "return" -> [v EXCEPT !.screenX = 0]
    [] g.ch = "backspace" -> IF v.screenX = 0 THEN v
                      ELSE LET b == [v EXCEPT !.screenX = @ - 1] IN [b EXCEPT !.screen = Cell(b, None)]
    [] OTHER -> Put(v, g)

vgatxt_write(v, text_color, buffer) ==
  LET after[i \in 0 .. Len(buffer)] ==
        IF i = 0 THEN vgatxt_set_txt_color(v, text_color) ELSE vgatxt_putc(after[i - 1], buffer[i])
  IN  after[Len(buffer)]

vga_txt_get_earlyconsole(v) == [v EXCEPT !.screenX = 0, !.screenY = 0]

-----------------------------------------------------------------------------
\* What the screen should show (no message moves back): the characters in lines that end after
\* SCREEN_WIDTH of them or with a newline; the last SCREEN_HEIGHT of the lines.
WithGlyph(lines, g) ==
  LET line == Append(Last(lines), g)
      full == [lines EXCEPT ![Len(lines)] = line]
  IN  CASE g.ch = "newline" -> Append(lines, << >>)
        [] g.ch # "newline" /\ Len(line) = SCREEN_WIDTH -> Append(full, << >>)
        [] OTHER -> full

Lines(shown) ==
  LET upTo[i \in 0 .. Len(shown)] ==
        IF i = 0 THEN << << >> >> ELSE WithGlyph(upTo[i - 1], shown[i])
  IN  upTo[Len(shown)]

ShowsTail(v) ==
  LET lines == Lines(v.shown)
      above == IF Len(lines) > SCREEN_HEIGHT THEN Len(lines) - SCREEN_HEIGHT ELSE 0
      glyph(y, x) ==
        IF above + y + 1 \in DOMAIN lines /\ x + 1 \in DOMAIN lines[above + y + 1]
        THEN lines[above + y + 1][x + 1] ELSE None
  IN  /\ v.screenY = Len(lines) - above - 1
      /\ v.screenX = Len(Last(lines))
      /\ \A y \in Rows, x \in Columns : v.screen[y][x].glyph = glyph(y, x)
=============================================================================
