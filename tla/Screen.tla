------------------------------- MODULE Screen -------------------------------
(***************************************************************************)
(* The screen of one pane (wslterm-core/src/screen.rs): the two grids, the *)
(* cursor, pen, scroll region and modes, the ring of scrollback lines and  *)
(* the prompt marks.  A screen is a record whose fields are those of       *)
(* struct Screen; one operator per method, from a screen to a screen.      *)
(*                                                                         *)
(* A cell keeps its glyph, one of " " (never written), "x" (a word         *)
(* character), "o" (a space or other ASCII), "b" (one column, not ASCII),  *)
(* "W" (two columns) and "t" (the second column of a wide glyph), and the  *)
(* number of its combining marks' string; its colours and flags are left   *)
(* out, the pen they are taken from is not.                                *)
(*                                                                         *)
(* Rust's release build wraps: an i32 has I32Range values here, a usize    *)
(* UsizeRange, and a negative i32 cast to usize is a huge number.          *)
(***************************************************************************)
EXTENDS Integers, Sequences, SequencesExt

CONSTANTS
    Cap,            \* lines the scrollback holds (5000 in the code)
    PromptCap,      \* prompt marks kept (2000 in the code)
    I32Range,       \* values of the integers CSI parameters are held in (2^32)
    UsizeRange      \* values of the integers counts and columns are held in (2^64)

ASSUME ScreenAssumption ==
    /\ Cap \in Nat \ {0} /\ PromptCap \in Nat \ {0}
    /\ I32Range \in Nat \ {0} /\ UsizeRange \in Nat \ {0}

Least(a, b) == IF a < b THEN a ELSE b
Most(a, b) == IF a < b THEN b ELSE a
Clamp(x, lo, hi) == IF x < lo THEN lo ELSE IF x > hi THEN hi ELSE x
AsUsize(n) == n % UsizeRange
AsI32(n) == ((n + I32Range \div 2) % I32Range) - I32Range \div 2

\* The elements of a sequence that are in S, in their order.
Keep(S, seq, x) == IF x \in S THEN Append(seq, x) ELSE seq
Retained(seq, S) == FoldLeft(LAMBDA out, x : Keep(S, out, x), <<>>, seq)

---------------------------------------------------------------------------
(* Cells, lines and grids.                                                 *)

Unwritten == " "
Glyphs == {Unwritten, "x", "o", "b", "W", "t"}
Width(g) == CASE g = "W" -> 2 [] g \in {"t", "m"} -> 0 [] OTHER -> 1

Cell(g) == [g |-> g, combo |-> 0]
Blank == Cell(Unwritten)
Columns(s) == 0 .. s.cols - 1
RowsOf(s) == 0 .. s.rows - 1
BlankLine(s) == [c \in Columns(s) |-> Blank]

Buf(s) == IF s.buf_alt THEN s.alt ELSE s.primary
WithBuf(s, g) == IF s.buf_alt THEN [s EXCEPT !.alt = g] ELSE [s EXCEPT !.primary = g]
WithRow(s, r, line) == WithBuf(s, [Buf(s) EXCEPT ![r] = line])

\* The given visible cells become blank.
EraseWhere(s, cells) ==
    WithBuf(s, [r \in RowsOf(s) |-> [c \in Columns(s) |->
                   IF <<r, c>> \in cells THEN Blank ELSE Buf(s)[r][c]]])

---------------------------------------------------------------------------
(* The ring of scrollback lines.                                           *)

NoLine == <<>>
NewScrollback == [ring |-> [i \in 0 .. Cap - 1 |-> NoLine], start |-> 0, count |-> 0]
SbGet(sb, i) == sb.ring[(sb.start + i) % Cap]
SbPushStuck(sb, line) ==
    IF sb.count < Cap
    THEN [sb EXCEPT !.ring[(sb.start + sb.count) % Cap] = line, !.count = @ + 1]
    ELSE [sb EXCEPT !.ring[sb.start] = line]
SbPush(sb, line) ==
    IF sb.count < Cap
    THEN [sb EXCEPT !.ring[(sb.start + sb.count) % Cap] = line, !.count = @ + 1]
    ELSE [sb EXCEPT !.ring[sb.start] = line, !.start = (@ + 1) % Cap]
History(s) == [i \in 1 .. s.sb.count |-> SbGet(s.sb, i - 1)]

---------------------------------------------------------------------------
(* Size.                                                                   *)

NoColor == <<>>
DefaultPen == [fg |-> NoColor, bg |-> NoColor, flags |-> {}]
NewSaved == [cx |-> 0, cy |-> 0, pen |-> DefaultPen, origin |-> FALSE]

Rebuild(old, cols, rows) ==
    [r \in 0 .. rows - 1 |-> [c \in 0 .. cols - 1 |->
        IF r \in DOMAIN old /\ c \in DOMAIN old[0] THEN old[r][c] ELSE Blank]]

Resize(s, cols0, rows0) ==
    LET cols == Most(cols0, 1)
        rows == Most(rows0, 1)
    IN  [s EXCEPT !.primary = Rebuild(@, cols, rows), !.alt = Rebuild(@, cols, rows),
                  !.cols = cols, !.rows = rows, !.top = 0, !.bot = rows - 1,
                  !.cx = Least(@, cols - 1), !.cy = Least(@, rows - 1),
                  !.wrap_pending = FALSE, !.tabs = {c \in 0 .. cols - 1 : c % 8 = 0}]

DefaultModes == [auto_wrap |-> TRUE, origin |-> FALSE, cursor_visible |-> TRUE,
                 app_cursor_keys |-> FALSE, app_keypad |-> FALSE, bracketed_paste |-> FALSE,
                 insert |-> FALSE, mouse |-> "None", mouse_sgr |-> FALSE]

NewScreen(cols, rows) ==
    Resize([cols |-> 0, rows |-> 0, buf_alt |-> FALSE, primary |-> <<>>, alt |-> <<>>,
            cx |-> 0, cy |-> 0, wrap_pending |-> FALSE, pen |-> DefaultPen,
            top |-> 0, bot |-> 0, saved |-> NewSaved, tabs |-> {},
            sb |-> NewScrollback, scrolled_total |-> 0, combo_pool |-> 0,
            prompts |-> <<>>, last_base |-> <<-1, -1>>, modes |-> DefaultModes], cols, rows)

---------------------------------------------------------------------------
(* Scrolling.                                                              *)

\* Rows a..b move up (down) by k; blank rows come in.
ShiftUp(s, a, b, k) ==
    WithBuf(s, [r \in RowsOf(s) |-> IF r \notin a .. b THEN Buf(s)[r]
                                    ELSE IF r + k <= b THEN Buf(s)[r + k] ELSE BlankLine(s)])
ShiftDown(s, a, b, k) ==
    WithBuf(s, [r \in RowsOf(s) |-> IF r \notin a .. b THEN Buf(s)[r]
                                    ELSE IF r - k >= a THEN Buf(s)[r - k] ELSE BlankLine(s)])

\* The lines that leave the top of the primary screen enter the scrollback.
PushTop(s, k) ==
    [s EXCEPT !.sb = FoldLeft(SbPush, @, [i \in 1 .. k |-> s.primary[i - 1]]),
              !.scrolled_total = @ + k]
ScrollUpAlways(s, n) ==
    LET k == Least(n, s.bot - s.top + 1)
    IN  ShiftUp(IF s.top = 0 THEN PushTop(s, k) ELSE s, s.top, s.bot, k)
ScrollUp(s, n) ==
    LET k == Least(n, s.bot - s.top + 1)
    IN  ShiftUp(IF ~s.buf_alt /\ s.top = 0 THEN PushTop(s, k) ELSE s, s.top, s.bot, k)
ScrollDown(s, n) == ShiftDown(s, s.top, s.bot, Least(n, s.bot - s.top + 1))

NoWrap(s) == [s EXCEPT !.wrap_pending = FALSE]
Index(s) == NoWrap(IF s.cy = s.bot THEN ScrollUp(s, 1)
                   ELSE IF s.cy < s.rows - 1 THEN [s EXCEPT !.cy = @ + 1] ELSE s)
ReverseIndex(s) == NoWrap(IF s.cy = s.top THEN ScrollDown(s, 1)
                          ELSE IF s.cy > 0 THEN [s EXCEPT !.cy = @ - 1] ELSE s)

---------------------------------------------------------------------------
(* Writing.                                                                *)

\* A combining mark goes to the cell written last, wherever that cell is now.
Combine(s) ==
    LET bx == s.last_base[1]
        by == s.last_base[2]
    IN  IF /\ by \in RowsOf(s) /\ bx \in Columns(s)
           /\ Buf(s)[by][bx].g \notin {Unwritten, "t"} /\ Buf(s)[by][bx].combo = 0
        THEN [WithBuf(s, [Buf(s) EXCEPT ![by][bx].combo = s.combo_pool + 1])
                 EXCEPT !.combo_pool = @ + 1]
        ELSE s

CarriageReturn(s) == NoWrap([s EXCEPT !.cx = 0])
NextLine(s) == Index(CarriageReturn(s))

\* One glyph of width w at the cursor: what precedes it has been wrapped.
Place(s, g) ==
    LET w == Width(g)
        row == Buf(s)[s.cy]
        line == [c \in Columns(s) |->
                    IF c = s.cx THEN Cell(g)
                    ELSE IF w = 2 /\ c = s.cx + 1 THEN Cell("t")
                    ELSE IF s.modes.insert /\ c >= s.cx + w THEN row[c - w] ELSE row[c]]
    IN  [WithRow(s, s.cy, line)
            EXCEPT !.last_base = <<s.cx, s.cy>>,
                   !.cx = Least(s.cx + w, s.cols - 1),
                   !.wrap_pending = s.cx + w >= s.cols /\ s.modes.auto_wrap]

PutRune(s, g) ==
    IF Width(g) = 0 THEN Combine(s)
    ELSE LET s1 == IF s.wrap_pending THEN NextLine(s) ELSE s
             s2 == IF Width(g) = 2 /\ s1.cx = s1.cols - 1 /\ s1.modes.auto_wrap
                   THEN Index([s1 EXCEPT !.cx = 0]) ELSE s1
         IN  Place(s2, g)

Backspace(s) == NoWrap([s EXCEPT !.cx = Most(@ - 1, 0)])
Tab(s) ==
    NoWrap([s EXCEPT !.cx =
        IF @ >= s.cols - 1 THEN @
        ELSE CHOOSE c \in @ + 1 .. s.cols - 1 :
                /\ c = s.cols - 1 \/ c \in s.tabs
                /\ \A d \in s.cx + 1 .. c - 1 : d \notin s.tabs])
SetTabStop(s) == [s EXCEPT !.tabs = @ \cup {s.cx}]
ClearTabStop(s) == [s EXCEPT !.tabs = @ \ {s.cx}]
ClearAllTabs(s) == [s EXCEPT !.tabs = {}]

---------------------------------------------------------------------------
(* Moving the cursor.  n is a usize, and cy + n wraps around.              *)

RegionTop(s) == IF s.modes.origin THEN s.top ELSE 0
RegionBot(s) == IF s.modes.origin THEN s.bot ELSE s.rows - 1

CursorUp(s, n) == NoWrap([s EXCEPT !.cy = Most(Most(@ - Most(n, 1), 0), RegionTop(s))])
CursorDown(s, n) == NoWrap([s EXCEPT !.cy = Least(AsUsize(@ + Most(n, 1)), RegionBot(s))])
CursorFwd(s, n) == NoWrap([s EXCEPT !.cx = Least(AsUsize(@ + Most(n, 1)), s.cols - 1)])
CursorBack(s, n) == NoWrap([s EXCEPT !.cx = Most(@ - Most(n, 1), 0)])
CursorCol(s, col) == NoWrap([s EXCEPT !.cx = Clamp(col, 0, s.cols - 1)])
CursorRow(s, row) == NoWrap([s EXCEPT !.cy = Clamp(RegionTop(s) + row, 0, s.rows - 1)])
CursorTo(s, row, col) ==
    NoWrap([s EXCEPT !.cy = Clamp(RegionTop(s) + row, RegionTop(s), RegionBot(s)),
                     !.cx = Clamp(col, 0, s.cols - 1)])

SetScrollRegion(s, top, bottom) ==
    LET t == IF top <= 0 THEN 1 ELSE top
        b == IF bottom <= 0 \/ bottom > s.rows THEN s.rows ELSE bottom
    IN  CursorTo([s EXCEPT !.top = IF t >= b THEN 0 ELSE t - 1,
                           !.bot = IF t >= b THEN s.rows - 1 ELSE b - 1], 0, 0)

SaveCursor(s) ==
    [s EXCEPT !.saved = [cx |-> s.cx, cy |-> s.cy, pen |-> s.pen, origin |-> s.modes.origin]]
RestoreCursorUnclamped(s) ==
    NoWrap([s EXCEPT !.cx = s.saved.cx, !.cy = s.saved.cy, !.pen = s.saved.pen])
RestoreCursor(s) ==
    NoWrap([s EXCEPT !.cx = Least(s.saved.cx, s.cols - 1), !.cy = Least(s.saved.cy, s.rows - 1),
                     !.pen = s.saved.pen, !.modes.origin = s.saved.origin])

---------------------------------------------------------------------------
(* Erasing, inserting and deleting.                                        *)

EraseInLine(s, mode) ==
    NoWrap(CASE mode = 0 -> EraseWhere(s, {s.cy} \X (s.cx .. s.cols - 1))
             [] mode = 1 -> EraseWhere(s, {s.cy} \X (0 .. s.cx))
             [] mode = 2 -> EraseWhere(s, {s.cy} \X Columns(s))
             [] OTHER -> s)
ClearHistory(s) ==
    [s EXCEPT !.sb.ring = [i \in DOMAIN @ |-> NoLine], !.sb.start = 0, !.sb.count = 0,
              !.prompts = <<>>]
EraseInDisplay(s, mode) ==
    NoWrap(CASE mode = 0 -> EraseWhere(s, ((s.cy + 1 .. s.rows - 1) \X Columns(s))
                                               \union ({s.cy} \X (s.cx .. s.cols - 1)))
             [] mode = 1 -> EraseWhere(s, ((0 .. s.cy - 1) \X Columns(s))
                                               \union ({s.cy} \X (0 .. s.cx)))
             [] mode = 2 -> EraseWhere(s, RowsOf(s) \X Columns(s))
             [] mode = 3 -> ClearHistory(s)
             [] OTHER -> s)
EraseChars(s, n) ==
    EraseWhere(s, {s.cy} \X (s.cx .. AsUsize(s.cx + Most(n, 1)) - 1))

InsertChars(s, n) ==
    LET k == Clamp(n, 1, s.cols - s.cx)
        row == Buf(s)[s.cy]
    IN  WithRow(s, s.cy, [c \in Columns(s) |-> IF c < s.cx THEN row[c]
                                               ELSE IF c < s.cx + k THEN Blank ELSE row[c - k]])
DeleteChars(s, n) ==
    LET k == Clamp(n, 1, s.cols - s.cx)
        row == Buf(s)[s.cy]
    IN  WithRow(s, s.cy, [c \in Columns(s) |-> IF c < s.cx THEN row[c]
                                               ELSE IF c + k < s.cols THEN row[c + k] ELSE Blank])
InRegion(s) == s.cy \in s.top .. s.bot
InsertLines(s, n) ==
    IF InRegion(s) THEN ShiftDown(s, s.cy, s.bot, Clamp(n, 1, s.bot - s.cy + 1)) ELSE s
DeleteLines(s, n) ==
    IF InRegion(s) THEN ShiftUp(s, s.cy, s.bot, Clamp(n, 1, s.bot - s.cy + 1)) ELSE s

---------------------------------------------------------------------------
(* The alternate screen and the reset.                                     *)

SetAltScreen(s, on) ==
    IF on = s.buf_alt THEN s
    ELSE IF on THEN NoWrap([EraseInDisplay([SaveCursor(s) EXCEPT !.buf_alt = TRUE], 2)
                               EXCEPT !.cx = 0, !.cy = 0])
    ELSE RestoreCursor([s EXCEPT !.buf_alt = FALSE])

\* Leaving the alternate screen restores the cursor and pen just reset.
FullResetKeepsHistory(s) ==
    LET home == [s EXCEPT !.pen = DefaultPen, !.modes = DefaultModes, !.top = 0,
                          !.bot = s.rows - 1, !.cx = 0, !.cy = 0, !.wrap_pending = FALSE]
    IN  [EraseInDisplay(SetAltScreen(home, FALSE), 2) EXCEPT !.combo_pool = 0]
FullReset(s) ==
    LET home == [s EXCEPT !.pen = DefaultPen, !.modes = DefaultModes, !.top = 0,
                          !.bot = s.rows - 1, !.cx = 0, !.cy = 0, !.wrap_pending = FALSE]
    IN  [ClearHistory(EraseInDisplay(SetAltScreen(home, FALSE), 2)) EXCEPT !.combo_pool = 0]

---------------------------------------------------------------------------
(* Select Graphic Rendition.  colon[i]: parameter i follows a ':'.         *)

FlagOf == 1 :> "bold" @@ 2 :> "faint" @@ 3 :> "italic" @@ 4 :> "underline" @@ 5 :> "blink"
          @@ 6 :> "blink" @@ 7 :> "reverse" @@ 8 :> "hidden" @@ 9 :> "strike"
FlagsOff == 21 :> {"bold", "faint"} @@ 22 :> {"bold", "faint"} @@ 23 :> {"italic"}
            @@ 24 :> {"underline"} @@ 25 :> {"blink"} @@ 27 :> {"reverse"}
            @@ 28 :> {"hidden"} @@ 29 :> {"strike"}
Rgb(r, g, b) == <<r % 256, g % 256, b % 256>>

\* An extended colour at p[i]: the colour (or the old one) and the last index read.
ExtColor(p, i, old) ==
    IF i >= Len(p) THEN [color |-> old, last |-> i]
    ELSE IF p[i + 1] = 5 /\ i + 2 <= Len(p) THEN [color |-> <<p[i + 2] % 256>>, last |-> i + 2]
    ELSE IF p[i + 1] = 2 /\ i + 4 <= Len(p)
         THEN [color |-> Rgb(p[i + 2], p[i + 3], p[i + 4]), last |-> i + 4]
    ELSE [color |-> old, last |-> i + 1]

PlainCode(pen, n) ==
    CASE n = 0 -> DefaultPen
      [] n \in DOMAIN FlagOf -> [pen EXCEPT !.flags = @ \cup {FlagOf[n]}]
      [] n \in DOMAIN FlagsOff -> [pen EXCEPT !.flags = @ \ FlagsOff[n]]
      [] n = 39 -> [pen EXCEPT !.fg = NoColor]
      [] n = 49 -> [pen EXCEPT !.bg = NoColor]
      [] n \in 30 .. 37 -> [pen EXCEPT !.fg = <<n - 30>>]
      [] n \in 40 .. 47 -> [pen EXCEPT !.bg = <<n - 40>>]
      [] n \in 90 .. 97 -> [pen EXCEPT !.fg = <<n - 82>>]
      [] n \in 100 .. 107 -> [pen EXCEPT !.bg = <<n - 92>>]
      [] OTHER -> pen

\* The codes from left to right; skip: the last index an extended colour took.
SetGraphics(s, p, colon) ==
    LET Code(acc, i) ==
            IF i <= acc.skip \/ colon[i] THEN acc
            ELSE CASE p[i] = 38 -> LET x == ExtColor(p, i, acc.pen.fg)
                                   IN  [pen |-> [acc.pen EXCEPT !.fg = x.color], skip |-> x.last]
                   [] p[i] = 48 -> LET x == ExtColor(p, i, acc.pen.bg)
                                   IN  [pen |-> [acc.pen EXCEPT !.bg = x.color], skip |-> x.last]
                   [] p[i] = 4 /\ i < Len(p) /\ colon[i + 1] /\ p[i + 1] = 0 ->
                                   [acc EXCEPT !.pen.flags = @ \ {"underline"}]
                   [] OTHER -> [acc EXCEPT !.pen = PlainCode(@, p[i])]
    IN  [s EXCEPT !.pen = FoldLeft(Code, [pen |-> @, skip |-> 0], [i \in 1 .. Len(p) |-> i]).pen]

---------------------------------------------------------------------------
(* Prompt marks: <<line number counted from the first ever, exit>>.        *)

NoExit == <<>>
MarkPrompt(s) ==
    LET gid == s.scrolled_total + s.cy
        new == IF s.prompts # <<>> /\ Last(s.prompts)[1] = gid
               THEN s.prompts ELSE Append(s.prompts, <<gid, NoExit>>)
        kept == Retained(new, {m \in Range(new) : m[1] >= s.scrolled_total - s.sb.count})
    IN  IF s.buf_alt THEN s
        ELSE [s EXCEPT !.prompts = SubSeq(kept, Most(Len(kept) - PromptCap, 0) + 1, Len(kept))]
MarkCmdExit(s, exit) ==
    IF s.buf_alt \/ s.prompts = <<>> \/ Last(s.prompts)[2] # NoExit THEN s
    ELSE [s EXCEPT !.prompts[Len(s.prompts)][2] = <<exit>>]
PromptMarksFromFirst(s) ==
    SelectSeq(s.prompts, LAMBDA m : m[1] \in 0 .. s.sb.count + s.rows - 1)
PromptMarks(s) ==
    LET base == s.scrolled_total - s.sb.count
        onGrid == Retained(s.prompts, {m \in Range(s.prompts) :
                               m[1] - base \in 0 .. s.sb.count + s.rows - 1})
    IN  [i \in DOMAIN onGrid |-> <<onGrid[i][1] - base, onGrid[i][2]>>]

---------------------------------------------------------------------------
(* What the window reads: rows are counted from the oldest history line.   *)

TotalRows(s) == s.sb.count + s.rows
AbsLine(s, abs) == IF abs < s.sb.count THEN SbGet(s.sb, abs) ELSE Buf(s)[abs - s.sb.count]

CopyViewport(s, off) ==
    [r \in RowsOf(s) |-> AbsLine(s, s.sb.count - Least(off, s.sb.count) + r)]

\* The columns of a line that hold text: the tails of wide glyphs are left out.
TextColumns(s, line) ==
    Retained([i \in 1 .. s.cols |-> i - 1], {c \in Columns(s) : line[c].g # "t"})

\* Occurrences of a needle of n "x" on the columns cs of a line, from the left and
\* not overlapping; the scan goes on behind the last one found.
Hit(line, cs, n, i) == \A k \in i .. i + n - 1 : line[cs[k]].g = "x"
MatchesOverlapping(s, line, n) ==
    LET cs == TextColumns(s, line)
    IN  SelectSeq([i \in 1 .. Len(cs) - n + 1 |-> <<cs[i], cs[i + n - 1]>>],
                  LAMBDA m : \E i \in 1 .. Len(cs) - n + 1 : m[1] = cs[i] /\ Hit(line, cs, n, i))
Scan(line, cs, n, acc, i) ==
    IF i >= acc.next /\ Hit(line, cs, n, i)
    THEN [out |-> Append(acc.out, <<cs[i], cs[i + n - 1]>>), next |-> i + n] ELSE acc
Matches(s, line, n) ==
    LET cs == TextColumns(s, line)
    IN  FoldLeft(LAMBDA acc, i : Scan(line, cs, n, acc, i),
                 [out |-> <<>>, next |-> 1], [i \in 1 .. Len(cs) - n + 1 |-> i]).out

\* The word that covers col: ASCII word characters and everything beyond ASCII.
WordSpan(s, abs, col) ==
    LET line == AbsLine(s, abs)
        Word(c) == line[c].g \in {"x", "b", "W"}
        Whole(a, b) == \A c \in a .. b : Word(c)
    IN  IF ~Word(col) THEN <<col, col>>
        ELSE <<CHOOSE a \in 0 .. col : Whole(a, col) /\ (a = 0 \/ ~Word(a - 1)),
               CHOOSE b \in col .. s.cols - 1 : Whole(col, b) /\ (b = s.cols - 1 \/ ~Word(b + 1))>>
=============================================================================
