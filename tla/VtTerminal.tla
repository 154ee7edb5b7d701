----------------------------- MODULE VtTerminal -----------------------------
(***************************************************************************)
(* The terminal of one pane: the incremental parser (parser.rs) over the   *)
(* screen, behind the front end that the owner feeds with the chunks of    *)
(* output it receives (terminal.rs).                                       *)
(*                                                                         *)
(* A byte is one of: the ASCII character itself, a name for a control      *)
(* character, "L2" and "L3" (the lead byte of a combining mark of two and  *)
(* of a wide glyph of three bytes), "CC" (a continuation byte) and "BAD"   *)
(* (0xF8 and above).  The scheme of a file URI is shortened to "f", and    *)
(* "G" stands for its synonym, the backquote, too.                         *)
(***************************************************************************)
EXTENDS Screen, FiniteSets

CONSTANTS
    Cols, Rows,     \* size of the new pane
    Chunks,         \* what a program may write: sequences of bytes
    Prologues,      \* sequences of chunks written before the run starts
    Sizes,          \* <<cols, rows>> a window may ask for, zero included
    MaxSteps        \* bound on the chunks and resizes of a run

IsOutput(c) == c \in Seq(Range(c)) /\ "none" \notin Range(c)
ASSUME VtAssumption ==
    /\ Cols \in Nat /\ Rows \in Nat /\ MaxSteps \in Nat
    /\ Sizes \subseteq Nat \X Nat
    /\ \A c \in Chunks : IsOutput(c)
    /\ \A p \in Prologues : p \in Seq(Range(p)) /\ \A c \in Range(p) : IsOutput(c)

VARIABLES
    term,           \* the Terminal: screen, parser and sinks
    input,          \* the last chunk, or <<>> after a resize
    steps           \* chunks and resizes so far

vars == <<term, input, steps>>

---------------------------------------------------------------------------
(* Parser state.                                                           *)

None == <<"none">>
Nul == "nul"
NoSinks == [respond |-> <<>>, title |-> None, cwd |-> None, clipboard |-> None]

NewTerminal ==
    [scr |-> NewScreen(Cols, Rows), state |-> "Ground", cp |-> Nul, need |-> 0,
     params |-> <<>>, colon |-> <<>>, pending_colon |-> FALSE, cur |-> 0, cur_has |-> FALSE,
     priv |-> Nul, inter |-> Nul, esc_inter |-> Nul, osc |-> <<>>,
     g0_special |-> FALSE, g1_special |-> FALSE, shift_out |-> FALSE,
     sinks |-> NoSinks, respond |-> <<>>, title |-> None, cwd |-> None, clipboard |-> None]

ParserStates == {"Ground", "Esc", "EscInt", "Csi", "CsiInt", "Osc", "OscEsc", "Str"}
C0Codes == {"ESC", "BEL", "BS", "HT", "LF", "CR", "SO", "SI"}
Printable(b) == b \notin C0Codes \cup {"L2", "L3", "CC", "BAD"}
Digits == <<"0", "1", "2", "3", "4", "5", "6", "7", "8", "9">>
DigitOf == [d \in Range(Digits) |-> CHOOSE n \in 0 .. 9 : Digits[n + 1] = d]
Letters == {"A", "B", "C", "D", "E", "H", "J", "K", "L", "M", "P", "S", "T", "X",
            "c", "d", "f", "g", "h", "l", "m", "n", "q", "r", "s", "u", "x"}
DecSpecial == {"c", "d", "f", "g", "h", "l", "m", "n", "q", "r", "s", "u", "x"}
Space == " "
Semicolon == ";"
Bracket == "]"
AtSign == "@"
Intermediate == {Space, "!", "\"", "#", "$", "%", "&", "'", "(", ")", "*", "+", ",", "-", ".", "/"}

On(t, s) == [t EXCEPT !.scr = s]                    \* the screen becomes s
Goto(t, st) == [t EXCEPT !.state = st]

---------------------------------------------------------------------------
(* Text and control characters.                                            *)

\* The glyph of an ASCII character.
GlyphOf(b) == IF b \in Letters \cup DOMAIN DigitOf \cup {":", "/"} THEN "x" ELSE "o"
PrintAscii(t, b) ==
    LET special == IF t.shift_out THEN t.g1_special ELSE t.g0_special
    IN  On(t, PutRune(t.scr, IF special /\ b \in DecSpecial THEN "b" ELSE GlyphOf(b)))

C0(t, b) ==
    CASE b = "BS" -> On(t, Backspace(t.scr))
      [] b = "HT" -> On(t, Tab(t.scr))
      [] b = "LF" -> On(t, Index(t.scr))
      [] b = "CR" -> On(t, CarriageReturn(t.scr))
      [] b = "SO" -> [t EXCEPT !.shift_out = TRUE]
      [] b = "SI" -> [t EXCEPT !.shift_out = FALSE]
      [] b = "ESC" -> Goto(t, "Esc")
      [] OTHER -> t

Ground(t, b) ==
    IF t.need > 0 /\ b = "CC"
    THEN LET u == [t EXCEPT !.need = @ - 1]
         IN  IF u.need = 0 THEN On(u, PutRune(u.scr, u.cp)) ELSE u
    ELSE LET u == [t EXCEPT !.need = 0]
         IN  CASE b \in C0Codes -> C0(u, b)
               [] b = "L2" -> [u EXCEPT !.cp = "m", !.need = 1]
               [] b = "L3" -> [u EXCEPT !.cp = "W", !.need = 2]
               [] b \in {"CC", "BAD"} -> On(u, PutRune(u.scr, "b"))
               [] OTHER -> PrintAscii(u, b)

---------------------------------------------------------------------------
(* Escape sequences.                                                       *)

ResetCsi(t) == [t EXCEPT !.params = <<>>, !.colon = <<>>, !.pending_colon = FALSE,
                         !.cur = 0, !.cur_has = FALSE, !.priv = Nul, !.inter = Nul]

Escape(t, b) ==
    LET Then(s) == On(Goto(t, "Ground"), s)
    IN  CASE b = "[" -> Goto(ResetCsi(t), "Csi")
          [] b = Bracket -> [Goto(t, "Osc") EXCEPT !.osc = <<>>]
          [] b \in {"P", "X", "^", "_"} -> Goto(t, "Str")
          [] b \in {"(", ")", "*", "+"} -> [Goto(t, "EscInt") EXCEPT !.esc_inter = b]
          [] b = "M" -> Then(ReverseIndex(t.scr))
          [] b = "D" -> Then(Index(t.scr))
          [] b = "E" -> Then(NextLine(t.scr))
          [] b = "7" -> Then(SaveCursor(t.scr))
          [] b = "8" -> Then(RestoreCursor(t.scr))
          [] b = "c" -> Then(FullReset(t.scr))
          [] b = "=" -> Then([t.scr EXCEPT !.modes.app_keypad = TRUE])
          [] b = ">" -> Then([t.scr EXCEPT !.modes.app_keypad = FALSE])
          [] b = "H" -> Then(SetTabStop(t.scr))
          [] OTHER -> Goto(t, "Ground")

EscapeIntermediate(t, b) ==
    LET set == IF b = "0" THEN TRUE ELSE FALSE
    IN  IF b \notin {"0", "A", "B"} THEN Goto(t, "Ground")
        ELSE CASE t.esc_inter = "(" -> [Goto(t, "Ground") EXCEPT !.g0_special = set]
               [] t.esc_inter = ")" -> [Goto(t, "Ground") EXCEPT !.g1_special = set]
               [] OTHER -> Goto(t, "Ground")

---------------------------------------------------------------------------
(* Control sequences.                                                      *)

FlushParam(t, colonNext) ==
    [t EXCEPT !.params = Append(@, IF t.cur_has THEN t.cur ELSE 0),
              !.colon = Append(@, t.pending_colon),
              !.pending_colon = colonNext, !.cur = 0, !.cur_has = FALSE]

\* Parameter i, counted from 1.
P(t, i, def) ==
    IF i > Len(t.params) \/ (t.params[i] = 0 /\ def # 0) THEN def ELSE t.params[i]
Times(t) == AsUsize(P(t, 1, 1))

Mode(on, kind) == IF on THEN kind ELSE "None"
SetDecMode(s, n, on) ==
    CASE n = 1 -> [s EXCEPT !.modes.app_cursor_keys = on]
      [] n = 6 -> CursorTo([s EXCEPT !.modes.origin = on], 0, 0)
      [] n = 7 -> [s EXCEPT !.modes.auto_wrap = on]
      [] n = 25 -> [s EXCEPT !.modes.cursor_visible = on]
      [] n = 9 -> [s EXCEPT !.modes.mouse = Mode(on, "X10")]
      [] n = 1000 -> [s EXCEPT !.modes.mouse = Mode(on, "Normal")]
      [] n = 1002 -> [s EXCEPT !.modes.mouse = Mode(on, "ButtonEvent")]
      [] n = 1003 -> [s EXCEPT !.modes.mouse = Mode(on, "AnyEvent")]
      [] n = 1006 -> [s EXCEPT !.modes.mouse_sgr = on]
      [] n \in {47, 1047, 1049} -> SetAltScreen(s, on)
      [] n = 2004 -> [s EXCEPT !.modes.bracketed_paste = on]
      [] OTHER -> s
DecMode(t, f) ==
    IF f \notin {"h", "l"} THEN t
    ELSE On(t, FoldLeft(LAMBDA s, n : SetDecMode(s, n, f = "h"), t.scr, t.params))
StdMode(t, on) ==
    On(t, IF \E i \in DOMAIN t.params : t.params[i] = 4
          THEN [t.scr EXCEPT !.modes.insert = on] ELSE t.scr)

Respond(t, reply) == [t EXCEPT !.sinks.respond = Append(@, reply)]
DeviceStatus(t, n) ==
    CASE n = 5 -> Respond(t, <<"ok">>)
      [] n = 6 -> Respond(t, <<"at", t.scr.cy + 1, t.scr.cx + 1>>)
      [] OTHER -> t
PrimaryDa(t) == Respond(t, IF t.priv = ">" THEN <<"secondary">> ELSE <<"primary">>)

\* The final byte of a sequence without a private marker.
Standard(t, f) ==
    LET s == t.scr
        n == Times(t)
    IN  CASE f = "A" -> On(t, CursorUp(s, n))
          [] f \in {"B", "e"} -> On(t, CursorDown(s, n))
          [] f \in {"C", "a"} -> On(t, CursorFwd(s, n))
          [] f = "D" -> On(t, CursorBack(s, n))
          [] f = "E" -> On(t, CursorDown(CarriageReturn(s), n))
          [] f = "F" -> On(t, CursorUp(CarriageReturn(s), n))
          [] f = "G" -> On(t, CursorCol(s, P(t, 1, 1) - 1))
          [] f = "d" -> On(t, CursorRow(s, P(t, 1, 1) - 1))
          [] f \in {"H", "f"} -> On(t, CursorTo(s, P(t, 1, 1) - 1, P(t, 2, 1) - 1))
          [] f = "J" -> On(t, EraseInDisplay(s, P(t, 1, 0)))
          [] f = "K" -> On(t, EraseInLine(s, P(t, 1, 0)))
          [] f = "L" -> On(t, InsertLines(s, n))
          [] f = "M" -> On(t, DeleteLines(s, n))
          [] f = "P" -> On(t, DeleteChars(s, n))
          [] f = AtSign -> On(t, InsertChars(s, n))
          [] f = "X" -> On(t, EraseChars(s, n))
          [] f = "S" -> On(t, ScrollUp(s, n))
          [] f = "T" -> On(t, ScrollDown(s, n))
          [] f = "r" -> On(t, SetScrollRegion(s, P(t, 1, 0), P(t, 2, 0)))
          [] f = "m" -> On(t, SetGraphics(s, t.params, t.colon))
          [] f \in {"h", "l"} -> StdMode(t, f = "h")
          [] f = "n" -> DeviceStatus(t, P(t, 1, 0))
          [] f = "c" -> PrimaryDa(t)
          [] f = "g" -> On(t, IF P(t, 1, 0) = 3 THEN ClearAllTabs(s) ELSE ClearTabStop(s))
          [] f = "s" -> On(t, SaveCursor(s))
          [] f = "u" -> On(t, RestoreCursor(s))
          [] OTHER -> t

DispatchCsiAnyPrivate(t, f) == IF t.priv = "?" THEN DecMode(t, f) ELSE Standard(t, f)
DispatchCsi(t, f) ==
    CASE t.priv = "?" -> DecMode(t, f)
      [] t.priv \in {">", "<", "="} -> IF f = "c" THEN PrimaryDa(t) ELSE t
      [] OTHER -> Standard(t, f)
Finish(t, f) == Goto(DispatchCsi(FlushParam(t, FALSE), f), "Ground")

Csi(t, b) ==
    CASE b \in C0Codes -> C0(t, b)
      [] b \in {"?", "<", "=", ">"} -> [t EXCEPT !.priv = b]
      [] b \in DOMAIN DigitOf -> [t EXCEPT !.cur = AsI32(@ * 10 + DigitOf[b]), !.cur_has = TRUE]
      [] b = Semicolon -> FlushParam(t, FALSE)
      [] b = ":" -> FlushParam(t, TRUE)
      [] b \in Intermediate -> [Goto(t, "CsiInt") EXCEPT !.inter = b]
      [] OTHER -> Finish(t, b)
CsiIntermediate(t, b) ==
    IF b \in Intermediate THEN [t EXCEPT !.inter = b] ELSE Finish(t, b)

---------------------------------------------------------------------------
(* Operating system commands and strings.                                  *)

\* What precedes and what follows the first c of a sequence.
Before(seq, c) == SubSeq(seq, 1, SelectInSeq(seq, LAMBDA b : b = c) - 1)
After(seq, c) == SubSeq(seq, SelectInSeq(seq, LAMBDA b : b = c) + 1, Len(seq))
Part(seq) == IF Contains(seq, Semicolon) THEN Before(seq, Semicolon) ELSE seq
Rest(seq) == IF Contains(seq, Semicolon) THEN After(seq, Semicolon) ELSE <<>>

\* Base64 data stands for the text it decodes to; padding does not count.
DecodesTo(data) == Retained(data, Range(data) \ {"="})
Valid64(data) == \A i \in DOMAIN data : data[i] \in Letters \cup DOMAIN DigitOf \cup {"+", "/", "="}
ExitOf(part) ==
    IF part # <<>> /\ \A i \in DOMAIN part : part[i] \in DOMAIN DigitOf
    THEN FoldLeft(LAMBDA n, d : n * 10 + DigitOf[d], 0, part) ELSE 0

OscDone(t0) ==
    LET t == [Goto(t0, "Ground") EXCEPT !.osc = <<>>]
        num == Part(t0.osc)
        text == Rest(t0.osc)
        data == Rest(text)
    IN  CASE num \in {<<"0">>, <<"1">>, <<"2">>} -> [t EXCEPT !.sinks.title = text]
          [] num = <<"7">> /\ text # <<>> /\ text[1] = "f" /\ Contains(text, "/") ->
                 [t EXCEPT !.sinks.cwd = After(text, "/")]
          [] num = <<"5", "2">> /\ Contains(text, Semicolon) /\ data # <<"?">> /\ Valid64(data) ->
                 [t EXCEPT !.sinks.clipboard = DecodesTo(data)]
          [] num = <<"1", "3", "3">> /\ Part(text) = <<"A">> -> On(t, MarkPrompt(t.scr))
          [] num = <<"1", "3", "3">> /\ Part(text) = <<"D">> ->
                 On(t, MarkCmdExit(t.scr, ExitOf(Part(data))))
          [] OTHER -> t

Osc(t, b) ==
    CASE b = "BEL" -> OscDone(t)
      [] b = "ESC" -> Goto(t, "OscEsc")
      [] OTHER -> [t EXCEPT !.osc = Append(@, b)]
\* A byte that does not end the string abandons it and starts a sequence.
OscEsc(t, b) == IF b = "\\" THEN OscDone(t) ELSE Escape(Goto(t, "Esc"), b)
StrConsumeDeaf(t, b) == IF b = "BEL" THEN Goto(t, "Ground") ELSE t
StrConsume(t, b) ==
    CASE b = "BEL" -> Goto(t, "Ground")
      [] b = "ESC" -> [Goto(t, "OscEsc") EXCEPT !.osc = <<>>]
      [] OTHER -> t

---------------------------------------------------------------------------
(* parse and feed.                                                         *)

Step(t, b) ==
    CASE t.state = "Ground" -> Ground(t, b)
      [] t.state = "Esc" -> Escape(t, b)
      [] t.state = "EscInt" -> EscapeIntermediate(t, b)
      [] t.state = "Csi" -> Csi(t, b)
      [] t.state = "CsiInt" -> CsiIntermediate(t, b)
      [] t.state = "Osc" -> Osc(t, b)
      [] t.state = "OscEsc" -> OscEsc(t, b)
      [] t.state = "Str" -> StrConsume(t, b)

ParseFromGround(t, data) == FoldLeft(Step, Goto(t, "Ground"), data)
ParseByte(t, b) == IF t.state = "Ground" /\ t.need = 0 /\ Printable(b)
                   THEN PrintAscii(t, b) ELSE Step(t, b)
Parse(t, data) == FoldLeft(ParseByte, t, data)

TermFeed(t, data) ==
    LET u == Parse([t EXCEPT !.sinks = NoSinks], data)
        Newer(new, old) == IF new = None THEN old ELSE new
    IN  [u EXCEPT !.respond = @ \o u.sinks.respond,
                  !.title = Newer(u.sinks.title, @), !.cwd = Newer(u.sinks.cwd, @),
                  !.clipboard = Newer(u.sinks.clipboard, @),
                  !.sinks = [u.sinks EXCEPT !.title = None, !.cwd = None, !.clipboard = None]]

---------------------------------------------------------------------------
(* The owner feeds output and drains the replies, the window resizes.      *)

Drained(t) == [t EXCEPT !.respond = <<>>, !.clipboard = None]

Init ==
    /\ \E p \in Prologues : term = Drained(FoldLeft(TermFeed, NewTerminal, p))
    /\ input = <<>>
    /\ steps = 0

Feed(c) ==
    /\ term' = TermFeed(Drained(term), c)
    /\ input' = c

ResizeTo(size) ==
    /\ term' = On(Drained(term), Resize(term.scr, size[1], size[2]))
    /\ input' = <<>>

Next ==
    /\ steps < MaxSteps
    /\ steps' = steps + 1
    /\ \/ \E c \in Chunks : Feed(c)
       \/ \E size \in Sizes : ResizeTo(size)

Spec == Init /\ [][Next]_vars

---------------------------------------------------------------------------
(* Properties.                                                             *)

GridOK(s, g) ==
    /\ DOMAIN g = RowsOf(s)
    /\ \A r \in RowsOf(s) : DOMAIN g[r] = Columns(s) /\ \A c \in Columns(s) : g[r][c].g \in Glyphs
ScreenOK(s) ==
    /\ s.cols > 0 /\ s.rows > 0 /\ GridOK(s, s.primary) /\ GridOK(s, s.alt)
    /\ s.cx \in Columns(s) /\ s.cy \in RowsOf(s)
    /\ s.wrap_pending => s.cx = s.cols - 1
    /\ s.top \in RowsOf(s) /\ s.bot \in s.top .. s.rows - 1
    /\ s.tabs \subseteq Columns(s)
    /\ s.sb.count \in 0 .. Cap /\ s.sb.start \in 0 .. Cap - 1
    /\ s.sb.count <= s.scrolled_total
    /\ \A i \in 0 .. s.sb.count - 1 : SbGet(s.sb, i) # NoLine
    /\ Len(s.prompts) <= PromptCap
\* Whatever a program writes, with whatever numbers in its sequences and cut
\* wherever the chunks end, every index the next byte or frame uses is inside
\* the grid it indexes (the release build aborts otherwise): cursor and scroll
\* region stay on the screen, a pending wrap is at the margin, and every slot
\* of the scrollback that is counted holds a line.
TerminalTypeOK ==
    /\ ScreenOK(term.scr)
    /\ term.state \in ParserStates
    /\ term.need \in 0 .. 2
    /\ Len(term.params) = Len(term.colon)
    /\ steps \in 0 .. MaxSteps

\* After any output an application leaves behind, a string terminator brings
\* the parser back to plain text: no prefix of bytes makes it swallow all that
\* follows (the Str and Osc states of parser.rs).
Resyncs == TermFeed(term, <<"ESC", "\\">>).state = "Ground"

\* The cells with a combining mark that are shown, under the alternate screen,
\* or in the history.
LiveCells(s) ==
    LET In(g) == {k \in RowsOf(s) \X Columns(s) : g[k[1]][k[2]].combo # 0}
        Marked(line) == {c \in DOMAIN line : line[c].combo # 0}
    IN  ({"grid"} \X In(Buf(s))) \union ({"under"} \X (IF s.buf_alt THEN In(s.primary) ELSE {}))
        \union ({"past"} \X UNION {{i} \X Marked(History(s)[i]) : i \in 1 .. s.sb.count})
ComboAt(s, k) ==
    LET lines == CASE k[1] = "grid" -> Buf(s) [] k[1] = "under" -> s.primary
                   [] k[1] = "past" -> History(s)
    IN  lines[k[2][1]][k[2][2]].combo
\* A string of combining marks belongs to one live cell: full_reset empties the
\* pool and numbers start again, and no cell that is or can again be shown may
\* still hold an old number ("no live cell references a combo after a reset").
CombosOwned ==
    LET s == term.scr
    IN  /\ \A k \in LiveCells(s) : ComboAt(s, k) \in 1 .. s.combo_pool
        /\ \A j, k \in LiveCells(s) : ComboAt(s, j) = ComboAt(s, k) => j = k

LinesOfWidth(s) ==
    {line \in {AbsLine(s, abs) : abs \in 0 .. TotalRows(s) - 1} : DOMAIN line = Columns(s)}
\* Search over scrollback and screen reports the matches of a line from left to
\* right without overlap, each of them is one, and none is missed: wherever the
\* needle is on the line, a reported match covers part of it. This is said of the
\* lines of the screen's width. A history line of another width, left by a
\* resize, is read by the columns of the screen all the same (screen.rs 912-913):
\* search indexes past the end of a narrower one and aborts, and does not see what
\* a wider one holds beyond them. ViewportIsGrid fails on these very lines.
SearchExact ==
    LET s == term.scr
    IN  \A line \in LinesOfWidth(s), n \in 1 .. 2 :
           LET found == Matches(s, line, n)
               text(a, b) == {c \in a .. b : line[c].g # "t"}
               hit(a, b) == Cardinality(text(a, b)) = n /\ \A c \in text(a, b) : line[c].g = "x"
           IN  /\ \A i \in DOMAIN found : hit(found[i][1], found[i][2])
               /\ \A i, j \in DOMAIN found : i < j => found[i][2] < found[j][1]
               /\ \A a, b \in Columns(s) : (a <= b /\ hit(a, b)) =>
                     \E i \in DOMAIN found : found[i][1] <= b /\ a <= found[i][2]

\* The terminal when the first k bytes of the chunk are parsed.
Parsed(k) == Parse([Drained(term) EXCEPT !.sinks = NoSinks], SubSeq(input', 1, k))

\* Row r of the primary screen as it leaves the top, rows below the region blank:
\* a byte may scroll more often than the region has rows.
Leaving(s, r) == IF r <= s.bot THEN s.primary[r] ELSE BlankLine(s)
Grown(s, u) ==
    LET pushed == u.scrolled_total - s.scrolled_total
        log == History(s) \o [i \in 1 .. pushed |-> Leaving(s, i - 1)]
    IN  /\ pushed >= 0
        /\ \/ History(u) = SubSeq(log, Most(Len(log) - Cap, 0) + 1, Len(log))
           \/ History(u) = <<>> /\ pushed = 0
\* Lines enter the scrollback in the order they left the screen, each once and
\* as it was, and only the oldest give way: with every byte the ring is the end
\* of the log of all lines that scrolled off, except after a program cleared it.
HistoryGrows ==
    [][/\ \A k \in 1 .. Len(input') : Grown(Parsed(k - 1).scr, Parsed(k).scr)
       /\ input' = <<>> => Grown(term.scr, term'.scr)]_vars

Isolated(s, u) ==
    /\ s.buf_alt /\ u.buf_alt => /\ u.primary = s.primary
                                 /\ u.scrolled_total = s.scrolled_total
                                 /\ History(u) \in {History(s), <<>>}
    /\ s.buf_alt # u.buf_alt /\ u # FullReset(s) =>
           u.primary = s.primary /\ u.scrolled_total = s.scrolled_total /\ u.sb = s.sb
    /\ ~s.buf_alt /\ u.buf_alt => \A r \in RowsOf(u), c \in Columns(u) : u.alt[r][c] = Blank
\* What a full-screen program draws on the alternate screen, scrolls there
\* included, never reaches the primary screen, the line count the window pins
\* its view by, or (unless it clears it) the history; the primary screen is as
\* it was when the program leaves, and the alternate one blank when it is taken.
AltIsolated ==
    [][\A k \in 1 .. Len(input') : Isolated(Parsed(k - 1).scr, Parsed(k).scr)]_vars

EndsCsi(t) == t.state \in {"Csi", "CsiInt"}
\* The byte b ends a plain SGR, restores the cursor, resets, or ends a sequence
\* that leaves the alternate screen for u.
SetsPen(t, b, u) ==
    \/ EndsCsi(t) /\ t.priv \notin {"?", ">", "<", "="} /\ b \in {"m", "u"}
    \/ t.state \in {"Esc", "OscEsc"} /\ b \in {"8", "c"}
    \/ EndsCsi(t) /\ t.priv = "?" /\ b = "l" /\ t.scr.buf_alt /\ ~u.scr.buf_alt
\* Only plain SGR, a reset, a restored cursor and leaving the alternate screen
\* change the pen; sequences with a private marker do not ("\e[>4m must NOT
\* fall through to SGR (underline bleed bug)").
PenIsSgr ==
    [][\A k \in 1 .. Len(input') :
          \/ Parsed(k).scr.pen = Parsed(k - 1).scr.pen
          \/ SetsPen(Parsed(k - 1), input'[k], Parsed(k))]_vars

\* Where a chunk ends does not matter: a chunk cut anywhere, in the middle of a
\* sequence, a number or a character, leaves the same terminal and the same
\* replies as the whole ("State persists across parse calls so split sequences
\* work").
ChunksDoNotMatter ==
    [][\A k \in 1 .. Len(input') - 1 :
          [TermFeed(TermFeed(Drained(term), SubSeq(input', 1, k)),
                    SubSeq(input', k + 1, Len(input'))) EXCEPT !.sinks = NoSinks]
          = [term' EXCEPT !.sinks = NoSinks]]_vars

Writes(t, b) == t.state = "Ground" /\ b # "LF"
\* The marks of s are in u, gone lines higher up, and so are their lines.
Follow(s, u, gone, writes) ==
    \A i \in DOMAIN PromptMarks(s) :
       LET at == PromptMarks(s)[i][1] - gone
       IN  at >= 0 => /\ \E j \in DOMAIN PromptMarks(u) :
                             PromptMarks(u)[j] = <<at, PromptMarks(s)[i][2]>>
                      /\ \/ AbsLine(u, at) = AbsLine(s, at + gone)
                         \/ writes /\ at = u.sb.count + u.cy
\* A prompt mark stays with its line while the whole primary screen scrolls and
\* old lines fall out of a full history ("they survive scrolling"); only the line
\* that text is written on changes.
PromptFollowsLine ==
    [][\A k \in 1 .. Len(input') :
          LET s == Parsed(k - 1).scr
              u == Parsed(k).scr
          IN  (u.scrolled_total > s.scrolled_total /\ s.top = 0 /\ s.bot = s.rows - 1) =>
                 Follow(s, u, (u.scrolled_total - u.sb.count) - (s.scrolled_total - s.sb.count),
                        Writes(Parsed(k - 1), input'[k]))]_vars

\* Every viewport is a rows x cols grid ("Copy the visible viewport (scrolled
\* back by off lines) into dest (rows x cols). dest is resized to match").
ViewportIsGrid ==
    \A off \in 0 .. term.scr.sb.count + 1 :
       LET v == CopyViewport(term.scr, off)
       IN  \A r \in RowsOf(term.scr) : DOMAIN v[r] = Columns(term.scr)
=============================================================================
