-------------------------- MODULE VtTerminalProofs --------------------------
(***************************************************************************)
(* The terminal, for every size, every output and every way it is cut into *)
(* chunks, the chunks of any length: its inductive invariant, that no two  *)
(* cells share a string of combining marks, that a string terminator ends  *)
(* whatever was begun, that where a chunk ends does not matter, and that a *)
(* search is exact; and byte by byte, that the history only grows, that    *)
(* the screens stay apart, what sets the pen, and that prompt marks follow *)
(* their lines.                                                            *)
(***************************************************************************)
EXTENDS VtTerminal, ScreenProofs, FiniteSetTheorems, FunctionTheorems

TermFields == {"scr", "state", "cp", "need", "params", "colon", "pending_colon", "cur", "cur_has",
               "priv", "inter", "esc_inter", "osc", "g0_special", "g1_special", "shift_out", "sinks",
               "respond", "title", "cwd", "clipboard"}
IsTerm(t) == Map(t) /\ DOMAIN t = TermFields
\* The parser is in one of its states, and a character it is in the middle of is
\* one it knows.
Reading(t) ==
  /\ t.state \in ParserStates /\ t.need \in 0 .. 2
  /\ t.need > 0 => t.cp \in {"m", "W"}
\* The parameters read so far, and for each whether a colon precedes it.
Numbers(t) ==
  t.params \in Seq(Int) /\ Listed(t.colon) /\ Len(t.params) = Len(t.colon) /\ t.cur \in Int
Sound(s) == ScreenGood(s) /\ Owned(s)
\* The inductive invariant of the terminal.
Well(t) == IsTerm(t) /\ Reading(t) /\ Numbers(t) /\ Sound(t.scr)

\* u is a terminal that differs from t at most in the fields F.
Apart(t, u, F) == IsTerm(u) /\ \A f \in TermFields \ F : u[f] = t[f]
IdleFields == TermFields \ {"scr", "state", "cp", "need", "params", "colon", "cur"}
Stays(t, u) == Well(u) /\ u.state = t.state

\* Fields no index depends on may become anything.
LEMMA IdleWell ==
  ASSUME NEW t, Well(t), NEW u, Apart(t, u, IdleFields) PROVE Stays(t, u) /\ u.scr = t.scr
<1>1. /\ u.scr = t.scr /\ u.state = t.state /\ u.cp = t.cp /\ u.need = t.need
      /\ u.params = t.params /\ u.colon = t.colon /\ u.cur = t.cur
  BY DEF Apart, IdleFields, TermFields
<1> QED BY <1>1 DEF Well, Apart, Reading, Numbers, Stays

\* The screen may become any sound one,
LEMMA OnWell ==
  ASSUME NEW t, Well(t), NEW s, Sound(s) PROVE Stays(t, On(t, s)) /\ On(t, s).scr = s
<1> DEFINE u == On(t, s)
<1>1. /\ IsTerm(u) /\ u.scr = s /\ u.state = t.state /\ u.cp = t.cp /\ u.need = t.need
      /\ u.params = t.params /\ u.colon = t.colon /\ u.cur = t.cur
  BY DEF Well, IsTerm, Map, TermFields, On
<1> HIDE DEF u
<1>2. Well(u) /\ u.state = t.state /\ u.scr = s
  BY <1>1 DEF Well, Reading, Numbers
<1> QED BY <1>2 DEF Stays, u

\* any that keeps the marks of the screen owned,
LEMMA OnFine ==
  ASSUME NEW t, Well(t), NEW s, Fine(t.scr, s) PROVE Stays(t, On(t, s)) /\ On(t, s).scr = s
  BY OnWell DEF Well, Sound, Fine

\* and any with the cells of the screen.
LEMMA OnKept ==
  ASSUME NEW t, Well(t), NEW s, Kept(t.scr, s) PROVE Stays(t, On(t, s)) /\ On(t, s).scr = s
  BY OnFine, KeptFine

\* The parser may enter any of its states.
LEMMA GotoWell ==
  ASSUME NEW t, Well(t), NEW st \in ParserStates
  PROVE  Well(Goto(t, st)) /\ Goto(t, st).state = st /\ Apart(t, Goto(t, st), {"state"})
         /\ Goto(t, st).scr = t.scr
<1> DEFINE u == Goto(t, st)
<1>1. /\ IsTerm(u) /\ u.scr = t.scr /\ u.state = st /\ u.cp = t.cp /\ u.need = t.need
      /\ u.params = t.params /\ u.colon = t.colon /\ u.cur = t.cur
      /\ \A f \in TermFields \ {"state"} : u[f] = t[f]
  BY DEF Well, IsTerm, Map, TermFields, Goto
<1> HIDE DEF u
<1>2. Well(u)
  BY <1>1 DEF Well, Reading, Numbers
<1> QED BY <1>1, <1>2 DEF Apart, u

\* What a well terminal is, in part.
LEMMA WellFacts ==
  ASSUME NEW t, Well(t)
  PROVE  IsTerm(t) /\ ScreenGood(t.scr) /\ t.state \in ParserStates
  BY DEF Well, Sound, Reading

---------------------------------------------------------------------------
(* Text and control characters.                                            *)

\* An ASCII character is printed.
LEMMA PrintAsciiWell == ASSUME NEW t, Well(t), NEW b PROVE Stays(t, PrintAscii(t, b))
<1>1. PICK g \in {"x", "o", "b", "W", "m"} : PrintAscii(t, b) = On(t, PutRune(t.scr, g))
  <2> DEFINE special == IF t.shift_out THEN t.g1_special ELSE t.g0_special
             g == IF special /\ b \in DecSpecial THEN "b" ELSE GlyphOf(b)
  <2>1. GlyphOf(b) \in {"x", "o"}
    BY Zenon DEF GlyphOf
  <2>2. g \in {"x", "o", "b", "W", "m"}
    BY <2>1
  <2>3. PrintAscii(t, b) = On(t, PutRune(t.scr, g))
    BY DEF PrintAscii
  <2> HIDE DEF g
  <2> QED BY <2>2, <2>3
<1> QED BY <1>1, PutRuneFine, OnFine, WellFacts

\* A control character is executed; ESC starts a sequence.
LEMMA C0Well ==
  ASSUME NEW t, Well(t), NEW b
  PROVE  Well(C0(t, b)) /\ C0(t, b).state = IF b = "ESC" THEN "Esc" ELSE t.state
<1>1. Stays(t, On(t, Backspace(t.scr))) /\ Stays(t, On(t, Tab(t.scr)))
      /\ Stays(t, On(t, CarriageReturn(t.scr)))
  BY WellFacts, BackspaceGood, TabGood, CarriageReturnGood, OnKept
<1>2. Stays(t, On(t, Index(t.scr)))
  BY WellFacts, IndexFine, OnFine
<1>3. Stays(t, [t EXCEPT !.shift_out = TRUE]) /\ Stays(t, [t EXCEPT !.shift_out = FALSE])
  <2>1. Apart(t, [t EXCEPT !.shift_out = TRUE], IdleFields)
        /\ Apart(t, [t EXCEPT !.shift_out = FALSE], IdleFields)
    BY WellFacts DEF Apart, IdleFields, TermFields, IsTerm, Map
  <2> QED BY <2>1, IdleWell
<1>4. Well(Goto(t, "Esc")) /\ Goto(t, "Esc").state = "Esc"
  BY GotoWell DEF ParserStates
<1>5. CASE b = "ESC"
  BY <1>4, <1>5 DEF C0
<1>6. CASE b # "ESC"
  BY <1>1, <1>2, <1>3, <1>6 DEF C0, Stays
<1> QED BY <1>5, <1>6

\* A byte of text, whatever it is and whatever character it continues or breaks
\* off.
LEMMA GroundWell ==
  ASSUME NEW t, Well(t), NEW b
  PROVE  Well(Ground(t, b)) /\ Ground(t, b).state = IF b = "ESC" THEN "Esc" ELSE t.state
<1>1. ASSUME t.need > 0, b = "CC" PROVE Stays(t, Ground(t, b))
  <2> DEFINE u == [t EXCEPT !.need = @ - 1]
  <2>1. Apart(t, u, {"need"}) /\ u.need = t.need - 1
    BY WellFacts DEF Apart, TermFields, IsTerm, Map
  <2>2. Ground(t, b) = IF u.need = 0 THEN On(u, PutRune(u.scr, u.cp)) ELSE u
    BY <1>1 DEF Ground
  <2> HIDE DEF u
  <2>3. u.scr = t.scr /\ u.state = t.state /\ u.cp = t.cp /\ u.params = t.params
        /\ u.colon = t.colon /\ u.cur = t.cur
    BY <2>1 DEF Apart, TermFields
  <2>4. t.need \in 0 .. 2 /\ t.cp \in {"m", "W"}
    BY <1>1 DEF Well, Reading
  <2>5. Well(u)
    <3>1. t.need - 1 \in 0 .. 2
      BY <1>1, <2>4
    <3>2. Reading(u)
      BY <2>1, <2>3, <2>4, <3>1 DEF Well, Reading
    <3> QED BY <2>1, <2>3, <3>2 DEF Well, Numbers, Apart
  <2>6. Stays(u, On(u, PutRune(u.scr, u.cp)))
    BY <2>3, <2>4, <2>5, PutRuneFine, OnFine, WellFacts
  <2> QED BY <2>2, <2>3, <2>5, <2>6 DEF Stays
<1>2. ASSUME ~(t.need > 0 /\ b = "CC")
      PROVE  Well(Ground(t, b)) /\ Ground(t, b).state = IF b = "ESC" THEN "Esc" ELSE t.state
  <2> DEFINE u == [t EXCEPT !.need = 0]
  <2>1. Apart(t, u, {"need"}) /\ u.need = 0
    BY WellFacts DEF Apart, TermFields, IsTerm, Map
  <2>2. Ground(t, b) = CASE b \in C0Codes -> C0(u, b)
               [] b = "L2" -> [u EXCEPT !.cp = "m", !.need = 1]
               [] b = "L3" -> [u EXCEPT !.cp = "W", !.need = 2]
               [] b \in {"CC", "BAD"} -> On(u, PutRune(u.scr, "b"))
               [] OTHER -> PrintAscii(u, b)
    BY <1>2 DEF Ground
  <2> HIDE DEF u
  <2>3. u.scr = t.scr /\ u.state = t.state /\ u.cp = t.cp /\ u.params = t.params
        /\ u.colon = t.colon /\ u.cur = t.cur
    BY <2>1 DEF Apart, TermFields
  <2>4. Well(u)
    BY <2>1, <2>3 DEF Well, Reading, Numbers, Apart
  <2>5. Well(C0(u, b)) /\ C0(u, b).state = IF b = "ESC" THEN "Esc" ELSE t.state
    BY <2>3, <2>4, C0Well
  <2>6. ASSUME NEW g \in {"m", "W"}, NEW n \in 1 .. 2
        PROVE  Stays(t, [u EXCEPT !.cp = g, !.need = n])
    <3> DEFINE v == [u EXCEPT !.cp = g, !.need = n]
    <3>1. /\ IsTerm(v) /\ v.cp = g /\ v.need = n /\ v.scr = t.scr /\ v.state = t.state
          /\ v.params = t.params /\ v.colon = t.colon /\ v.cur = t.cur
      BY <2>3, <2>4, WellFacts DEF TermFields, IsTerm, Map
    <3> HIDE DEF v
    <3>2. Well(v)
      BY <3>1 DEF Well, Reading, Numbers
    <3> QED BY <3>1, <3>2 DEF Stays, v
  <2>7. Stays(t, [u EXCEPT !.cp = "m", !.need = 1]) /\ Stays(t, [u EXCEPT !.cp = "W", !.need = 2])
    BY <2>6
  <2>8. Stays(u, On(u, PutRune(u.scr, "b"))) /\ Stays(u, PrintAscii(u, b))
    BY <2>4, PutRuneFine, OnFine, WellFacts, PrintAsciiWell
  <2>9. CASE b = "ESC"
    BY <2>2, <2>5, <2>9 DEF C0Codes
  <2>10. CASE b # "ESC"
    BY <2>2, <2>3, <2>5, <2>7, <2>8, <2>10 DEF Stays
  <2> QED BY <2>9, <2>10
<1> QED BY <1>1, <1>2 DEF Stays

---------------------------------------------------------------------------
(* Escape sequences.                                                       *)

\* A handler that ends a sequence.
Ends(u) == Well(u) /\ u.state = "Ground"

\* A sequence may end at any time,
LEMMA ToGround == ASSUME NEW t, Well(t) PROVE Ends(Goto(t, "Ground"))
  BY GotoWell DEF ParserStates, Ends

\* and change the screen as it does.
LEMMA GroundOn ==
  ASSUME NEW t, Well(t), NEW s, Fine(t.scr, s)
  PROVE  Ends(On(Goto(t, "Ground"), s))
<1>1. Well(Goto(t, "Ground")) /\ Goto(t, "Ground").state = "Ground"
      /\ Goto(t, "Ground").scr = t.scr
  BY GotoWell DEF ParserStates
<1> QED BY <1>1, OnFine DEF Stays, Ends

\* A control sequence starts without parameters.
LEMMA ResetCsiWell ==
  ASSUME NEW t, Well(t)
  PROVE  Well(ResetCsi(t))
         /\ Apart(t, ResetCsi(t), {"params", "colon", "pending_colon", "cur", "cur_has", "priv", "inter"})
<1> DEFINE u == ResetCsi(t)
<1>1. /\ Apart(t, u, {"params", "colon", "pending_colon", "cur", "cur_has", "priv", "inter"})
      /\ u.params = <<>> /\ u.colon = <<>> /\ u.cur = 0
  BY WellFacts DEF ResetCsi, Apart, TermFields, IsTerm, Map
<1> HIDE DEF u
<1>2. u.scr = t.scr /\ u.state = t.state /\ u.cp = t.cp /\ u.need = t.need
  BY <1>1 DEF Apart, TermFields
<1>3. <<>> \in Seq(Int) /\ <<>> \in Seq({})
  OBVIOUS
<1>4. Numbers(u)
  BY <1>1, <1>3 DEF Numbers, Listed
<1> QED BY <1>1, <1>2, <1>4 DEF Well, Reading, Apart, u

\* The byte after ESC; another ESC, and a backslash, end the sequence.
LEMMA EscapeWell ==
  ASSUME NEW t, Well(t), NEW b
  PROVE  Well(Escape(t, b)) /\ (b \in {"ESC", "\\"} => Escape(t, b).state = "Ground")
<1>1. Well(Goto(ResetCsi(t), "Csi"))
  BY ResetCsiWell, GotoWell DEF ParserStates
<1>2. ASSUME NEW st \in ParserStates PROVE Well(Goto(t, st))
  BY GotoWell
<1>3. Well([Goto(t, "Osc") EXCEPT !.osc = <<>>])
  <2> DEFINE v == Goto(t, "Osc")
  <2>1. Well(v)
    BY <1>2 DEF ParserStates
  <2> HIDE DEF v
  <2>2. Apart(v, [v EXCEPT !.osc = <<>>], IdleFields)
    BY <2>1, WellFacts DEF Apart, IdleFields, TermFields, IsTerm, Map
  <2>3. Well([v EXCEPT !.osc = <<>>])
    BY <2>1, <2>2, IdleWell DEF Stays
  <2> QED BY <2>3 DEF v
<1>4. Well([Goto(t, "EscInt") EXCEPT !.esc_inter = b])
  <2> DEFINE v == Goto(t, "EscInt")
  <2>1. Well(v)
    BY <1>2 DEF ParserStates
  <2> HIDE DEF v
  <2>2. Apart(v, [v EXCEPT !.esc_inter = b], IdleFields)
    BY <2>1, WellFacts DEF Apart, IdleFields, TermFields, IsTerm, Map
  <2>3. Well([v EXCEPT !.esc_inter = b])
    BY <2>1, <2>2, IdleWell DEF Stays
  <2> QED BY <2>3 DEF v
<1>5. Well(Goto(t, "Str")) /\ Well(Goto(t, "Ground")) /\ Goto(t, "Ground").state = "Ground"
  BY GotoWell DEF ParserStates
<1> DEFINE Then(s) == On(Goto(t, "Ground"), s)
<1>6. /\ Well(Then(ReverseIndex(t.scr))) /\ Well(Then(Index(t.scr)))
      /\ Well(Then(NextLine(t.scr)))
      /\ Well(Then(FullReset(t.scr)))
  BY WellFacts, GroundOn, ReverseIndexFine, IndexFine, NextLineFine, FullResetFine DEF Ends
<1>7. /\ Well(Then(SaveCursor(t.scr))) /\ Well(Then(RestoreCursor(t.scr)))
      /\ Well(Then(SetTabStop(t.scr)))
  BY WellFacts, GroundOn, SaveCursorGood, RestoreCursorGood, TabStopsGood, KeptFine DEF Ends
<1>8. ASSUME NEW on PROVE Well(Then([t.scr EXCEPT !.modes.app_keypad = on]))
  <2>1. PICK m : [t.scr EXCEPT !.modes.app_keypad = on] = SetModes(t.scr, m)
    BY DEF SetModes
  <2> QED BY <2>1, WellFacts, GroundOn, ModesGood, KeptFine DEF Ends
<1>9. Well(Then([t.scr EXCEPT !.modes.app_keypad = TRUE]))
      /\ Well(Then([t.scr EXCEPT !.modes.app_keypad = FALSE]))
  BY <1>8
<1>10. Well(Escape(t, b))
  BY <1>1, <1>3, <1>4, <1>5, <1>6, <1>7, <1>9 DEF Escape
<1>11. b \in {"ESC", "\\"} => Escape(t, b) = Goto(t, "Ground")
  BY Zenon DEF Escape, Bracket
<1> QED BY <1>5, <1>10, <1>11

\* A character set is selected, or the byte is ignored.
LEMMA EscapeIntermediateWell ==
  ASSUME NEW t, Well(t), NEW b PROVE Ends(EscapeIntermediate(t, b))
<1> DEFINE v == Goto(t, "Ground")
           set == IF b = "0" THEN TRUE ELSE FALSE
<1>1. Ends(v)
  BY ToGround
<1> HIDE DEF v
<1>2. Apart(v, [v EXCEPT !.g0_special = set], IdleFields)
      /\ Apart(v, [v EXCEPT !.g1_special = set], IdleFields)
  BY <1>1, WellFacts DEF Ends, Apart, IdleFields, TermFields, IsTerm, Map
<1>3. Ends([v EXCEPT !.g0_special = set]) /\ Ends([v EXCEPT !.g1_special = set])
  BY <1>1, <1>2, IdleWell DEF Ends, Stays
<1> QED BY <1>1, <1>3 DEF EscapeIntermediate, v

---------------------------------------------------------------------------
(* Control sequences.                                                      *)

\* A parameter is complete: numbers and colon flags stay as many.
LEMMA FlushParamWell ==
  ASSUME NEW t, Well(t), NEW next
  PROVE  /\ Well(FlushParam(t, next)) /\ FlushParam(t, next).state = t.state
         /\ FlushParam(t, next).scr = t.scr
<1> DEFINE u == FlushParam(t, next)
           x == IF t.cur_has THEN t.cur ELSE 0
<1>1. /\ Apart(t, u, {"params", "colon", "pending_colon", "cur", "cur_has"})
      /\ u.params = Append(t.params, x) /\ u.colon = Append(t.colon, t.pending_colon) /\ u.cur = 0
  BY WellFacts DEF FlushParam, Apart, TermFields, IsTerm, Map
<1>2. t.params \in Seq(Int) /\ x \in Int /\ Listed(t.colon) /\ Len(t.params) = Len(t.colon)
  BY DEF Well, Numbers
<1> HIDE DEF u, x
<1>3. u.scr = t.scr /\ u.state = t.state /\ u.cp = t.cp /\ u.need = t.need
  BY <1>1 DEF Apart, TermFields
<1>4. Append(t.params, x) \in Seq(Int) /\ Len(Append(t.params, x)) = Len(t.params) + 1
  BY <1>2
<1>5. Listed(u.colon) /\ Len(u.colon) = Len(t.colon) + 1
  BY <1>1, <1>2, AppendListed
<1>6. Numbers(u)
  BY <1>1, <1>2, <1>4, <1>5 DEF Numbers
<1> QED BY <1>1, <1>3, <1>6 DEF Well, Reading, Apart, u

\* A parameter is a number, whatever was or was not written,
LEMMA PInt ==
  ASSUME NEW t, Well(t), NEW i \in Nat \ {0}, NEW def \in Int PROVE P(t, i, def) \in Int
<1>1. t.params \in Seq(Int)
  BY DEF Well, Numbers
<1>2. CASE i > Len(t.params)
  BY <1>2 DEF P
<1>3. CASE i <= Len(t.params)
  <2>1. t.params[i] \in Int
    BY <1>1, <1>3
  <2> QED BY <2>1 DEF P
<1> QED BY <1>1, <1>2, <1>3

\* and a count is one that is not negative.
LEMMA TimesNat == ASSUME NEW t, Well(t) PROVE Times(t) \in Nat /\ Times(t) \in Int
<1>1. P(t, 1, 1) \in Int
  BY PInt
<1> QED BY <1>1, UsizeNat DEF Times

\* What leaves the cells alone keeps a screen sound.
LEMMA KeptSound == ASSUME NEW s, Sound(s), NEW u, Kept(s, u) PROVE Sound(u)
  BY KeptFine DEF Sound, Fine

\* Any private mode may be set or reset,
LEMMA SetDecModeSound ==
  ASSUME NEW s, Sound(s), NEW n, NEW on \in BOOLEAN PROVE Sound(SetDecMode(s, n, on))
<1>1. ScreenGood(s)
  BY DEF Sound
<1>2. ASSUME NEW m PROVE Sound(SetModes(s, m)) /\ Sound(CursorTo(SetModes(s, m), 0, 0))
  <2>1. Kept(s, SetModes(s, m))
    BY <1>1, ModesGood
  <2>2. Kept(SetModes(s, m), CursorTo(SetModes(s, m), 0, 0))
    BY <2>1, CursorToGood DEF Kept
  <2> QED BY <2>1, <2>2, KeptSound
<1>3. Sound(SetAltScreen(s, on))
  BY <1>1, SetAltScreenFine DEF Fine, Sound
<1>4. Sound([s EXCEPT !.modes.app_cursor_keys = on])
  BY <1>2 DEF SetModes
<1>5. Sound(CursorTo([s EXCEPT !.modes.origin = on], 0, 0))
  BY <1>2 DEF SetModes
<1>6. Sound([s EXCEPT !.modes.auto_wrap = on])
  BY <1>2 DEF SetModes
<1>7. Sound([s EXCEPT !.modes.cursor_visible = on])
  BY <1>2 DEF SetModes
<1>8. ASSUME NEW m PROVE Sound([s EXCEPT !.modes.mouse = m])
  BY <1>2 DEF SetModes
<1>9. /\ Sound([s EXCEPT !.modes.mouse = Mode(on, "X10")])
      /\ Sound([s EXCEPT !.modes.mouse = Mode(on, "Normal")])
      /\ Sound([s EXCEPT !.modes.mouse = Mode(on, "ButtonEvent")])
      /\ Sound([s EXCEPT !.modes.mouse = Mode(on, "AnyEvent")])
  BY <1>8
<1>10. Sound([s EXCEPT !.modes.mouse_sgr = on])
  BY <1>2 DEF SetModes
<1>11. Sound([s EXCEPT !.modes.bracketed_paste = on])
  BY <1>2 DEF SetModes
<1> QED BY <1>3, <1>4, <1>5, <1>6, <1>7, <1>9, <1>10, <1>11 DEF SetDecMode

\* The modes that one sequence sets or resets, from left to right.
ModeOp(c, v, x) == SetDecMode(v, x, c)
ModeInv(c, k, v) == Sound(v)
Switching == INSTANCE FoldLaw WITH Op <- ModeOp, Inv <- ModeInv

\* and any number of them in one sequence.
LEMMA DecModeWell == ASSUME NEW t, Well(t), NEW f PROVE Stays(t, DecMode(t, f))
<1>1. CASE f \notin {"h", "l"}
  BY <1>1 DEF DecMode, Stays
<1>2. CASE f \in {"h", "l"}
  <2> DEFINE on == f = "h"
             s == Switching!Fold(on, t.scr, t.params)
  <2>1. DecMode(t, f) = On(t, s)
    BY <1>2 DEF DecMode, Switching!Fold, ModeOp, FoldLeft, Switching!FoldLeft, MapThenFoldSet,
       Switching!MapThenFoldSet, Max, Switching!Max
  <2>2. on \in BOOLEAN /\ Len(t.params) \in Nat /\ DOMAIN t.params = 1 .. Len(t.params)
        /\ ModeInv(on, 0, t.scr)
    BY DEF Well, Numbers, ModeInv
  <2> HIDE DEF on
  <2>3. ASSUME NEW v, NEW k \in 1 .. Len(t.params), ModeInv(on, k - 1, v)
        PROVE  ModeInv(on, k, ModeOp(on, v, t.params[k]))
    BY <2>2, <2>3, SetDecModeSound DEF ModeInv, ModeOp
  <2>4. ModeInv(on, Len(t.params), s)
    <3> HIDE DEF s
    <3> QED BY <2>2, <2>3, Switching!FoldKeeps DEF s
  <2> HIDE DEF s
  <2> QED BY <2>1, <2>4, OnWell DEF ModeInv
<1> QED BY <1>1, <1>2

\* The insert mode may be set or reset.
LEMMA StdModeWell == ASSUME NEW t, Well(t), NEW on PROVE Stays(t, StdMode(t, on))
<1>1. PICK m : [t.scr EXCEPT !.modes.insert = on] = SetModes(t.scr, m)
  BY DEF SetModes
<1>2. Kept(t.scr, t.scr) /\ Kept(t.scr, SetModes(t.scr, m))
  BY WellFacts, KeptSelf, ModesGood
<1>3. StdMode(t, on) = On(t, SetModes(t.scr, m)) \/ StdMode(t, on) = On(t, t.scr)
  BY <1>1 DEF StdMode
<1> QED BY <1>2, <1>3, OnKept

\* A reply changes no screen.
LEMMA ReplyWell ==
  ASSUME NEW t, Well(t)
  PROVE  Stays(t, PrimaryDa(t)) /\ \A n : Stays(t, DeviceStatus(t, n))
<1>1. ASSUME NEW reply PROVE Stays(t, Respond(t, reply))
  <2>1. Apart(t, Respond(t, reply), IdleFields)
    BY WellFacts DEF Apart, IdleFields, TermFields, IsTerm, Map, Respond
  <2> QED BY <2>1, IdleWell
<1>2. Stays(t, t)
  BY DEF Stays
<1> QED BY <1>1, <1>2 DEF PrimaryDa, DeviceStatus

\* Every final byte with every parameter is safe to dispatch.
LEMMA StandardWell == ASSUME NEW t, Well(t), NEW f PROVE Stays(t, Standard(t, f))
<1> DEFINE s == t.scr
           n == Times(t)
           S(u) == Stays(t, On(t, u))
<1>0. ScreenGood(s) /\ n \in Nat /\ n \in Int
  BY WellFacts, TimesNat
<1>1. P(t, 1, 1) - 1 \in Int /\ P(t, 2, 1) - 1 \in Int /\ P(t, 1, 0) \in Int /\ P(t, 2, 0) \in Int
  BY PInt
<1>2. ASSUME NEW u, Kept(s, u) PROVE S(u)
  BY <1>2, OnKept
<1>3. ASSUME NEW u, Fine(s, u) PROVE S(u)
  BY <1>3, OnFine
<1>4. /\ S(CursorUp(s, n)) /\ S(CursorDown(s, n)) /\ S(CursorFwd(s, n)) /\ S(CursorBack(s, n))
  <2> HIDE DEF s, n, S
  <2> QED BY <1>0, <1>2, CursorUpGood, CursorDownGood, CursorFwdGood, CursorBackGood
<1>5. S(CursorDown(CarriageReturn(s), n)) /\ S(CursorUp(CarriageReturn(s), n))
  <2> HIDE DEF s, n, S
  <2> DEFINE r == CarriageReturn(s)
  <2>1. Kept(s, r) /\ ScreenGood(r)
    BY <1>0, CarriageReturnGood DEF Kept
  <2> HIDE DEF r
  <2>2. Kept(r, CursorDown(r, n)) /\ Kept(r, CursorUp(r, n))
    BY <1>0, <2>1, CursorUpGood, CursorDownGood
  <2>3. Kept(s, CursorDown(r, n)) /\ Kept(s, CursorUp(r, n))
    BY <2>1, <2>2, KeptTwice
  <2> QED BY <1>2, <2>3 DEF r
<1>6. /\ S(CursorCol(s, P(t, 1, 1) - 1)) /\ S(CursorRow(s, P(t, 1, 1) - 1))
      /\ S(CursorTo(s, P(t, 1, 1) - 1, P(t, 2, 1) - 1))
  <2> HIDE DEF s, n, S
  <2> QED BY <1>0, <1>1, <1>2, CursorColGood, CursorRowGood, CursorToGood
<1>7. /\ S(EraseInDisplay(s, P(t, 1, 0))) /\ S(EraseInLine(s, P(t, 1, 0))) /\ S(EraseChars(s, n))
  <2> HIDE DEF s, n, S
  <2> QED BY <1>0, <1>3, EraseInDisplayFine, EraseInLineFine, EraseCharsFine
<1>8. /\ S(InsertLines(s, n)) /\ S(DeleteLines(s, n)) /\ S(DeleteChars(s, n))
      /\ S(InsertChars(s, n))
  <2> HIDE DEF s, n, S
  <2> QED BY <1>0, <1>3, LinesFine, DeleteCharsFine, InsertCharsFine
<1>9. S(ScrollUp(s, n)) /\ S(ScrollDown(s, n))
  <2> HIDE DEF s, n, S
  <2> QED BY <1>0, <1>3, ScrollUpFine, ScrollDownFine
<1>10. S(SetScrollRegion(s, P(t, 1, 0), P(t, 2, 0))) /\ S(SetGraphics(s, t.params, t.colon))
  <2> HIDE DEF s, n, S
  <2> QED BY <1>0, <1>1, <1>2, SetScrollRegionGood, GraphicsGood
<1>11. /\ S(IF P(t, 1, 0) = 3 THEN ClearAllTabs(s) ELSE ClearTabStop(s))
       /\ S(SaveCursor(s)) /\ S(RestoreCursor(s))
  <2> HIDE DEF s, n, S
  <2> QED BY <1>0, <1>2, TabStopsGood, SaveCursorGood, RestoreCursorGood
<1>12. Stays(t, StdMode(t, f = "h")) /\ Stays(t, DeviceStatus(t, P(t, 1, 0)))
       /\ Stays(t, PrimaryDa(t))
  BY StdModeWell, ReplyWell
<1>13. Stays(t, t)
  BY DEF Stays
<1> QED BY <1>4, <1>5, <1>6, <1>7, <1>8, <1>9, <1>10, <1>11, <1>12, <1>13 DEF Standard

\* A control sequence ends in plain text.
LEMMA FinishWell == ASSUME NEW t, Well(t), NEW f PROVE Ends(Finish(t, f))
<1> DEFINE u == FlushParam(t, FALSE)
<1>1. Well(u)
  BY FlushParamWell
<1> HIDE DEF u
<1>2. Well(DispatchCsi(u, f))
  <2>1. Stays(u, DecMode(u, f)) /\ Stays(u, PrimaryDa(u)) /\ Stays(u, u)
        /\ Stays(u, Standard(u, f))
    BY <1>1, DecModeWell, ReplyWell, StandardWell DEF Stays
  <2>2. Stays(u, DispatchCsi(u, f))
    BY <2>1 DEF DispatchCsi
  <2> QED BY <2>2 DEF Stays
<1> QED BY <1>2, ToGround DEF Finish, u

\* A digit has its value.
LEMMA DigitFacts == \A d \in DOMAIN DigitOf : DigitOf[d] \in 0 .. 9
<1> TAKE d \in DOMAIN DigitOf
<1>1. d \in Range(Digits)
  BY DEF DigitOf
<1>2. DigitOf[d] = CHOOSE n \in 0 .. 9 : Digits[n + 1] = d
  BY <1>1 DEF DigitOf
<1>3. PICK i \in 1 .. 10 : Digits[i] = d
  BY <1>1 DEF Range, Digits
<1>4. i - 1 \in 0 .. 9 /\ Digits[(i - 1) + 1] = d
  BY <1>3
<1> QED BY <1>2, <1>4

\* A wrapped number is a number.
LEMMA I32Int == \A n \in Int : AsI32(n) \in Int
<1> TAKE n \in Int
<1>1. I32Range \in Nat /\ I32Range > 0 /\ I32Range \div 2 \in Int
  BY ScreenAssumption
<1> QED BY <1>1 DEF AsI32

\* A byte of a control sequence; ESC breaks it off.
LEMMA CsiWell ==
  ASSUME NEW t, Well(t), NEW b
  PROVE  Well(Csi(t, b)) /\ (b = "ESC" => Csi(t, b).state = "Esc")
<1>1. Well(C0(t, b)) /\ (b = "ESC" => C0(t, b).state = "Esc")
  BY C0Well
<1>2. Well([t EXCEPT !.priv = b])
  <2>1. Apart(t, [t EXCEPT !.priv = b], IdleFields)
    BY WellFacts DEF Apart, IdleFields, TermFields, IsTerm, Map
  <2> QED BY <2>1, IdleWell DEF Stays
<1>3. ASSUME b \in DOMAIN DigitOf
      PROVE  Well([t EXCEPT !.cur = AsI32(@ * 10 + DigitOf[b]), !.cur_has = TRUE])
  <2> DEFINE x == AsI32(t.cur * 10 + DigitOf[b])
             u == [t EXCEPT !.cur = x, !.cur_has = TRUE]
  <2>1. t.cur \in Int /\ DigitOf[b] \in Int
    BY <1>3, DigitFacts DEF Well, Numbers
  <2>2. x \in Int
    BY <2>1, I32Int
  <2> HIDE DEF x
  <2>3. Apart(t, u, {"cur", "cur_has"}) /\ u.cur = x
    BY WellFacts DEF Apart, TermFields, IsTerm, Map
  <2> HIDE DEF u
  <2>4. /\ u.scr = t.scr /\ u.state = t.state /\ u.cp = t.cp /\ u.need = t.need
        /\ u.params = t.params /\ u.colon = t.colon
    BY <2>3 DEF Apart, TermFields
  <2>5. Well(u)
    BY <2>2, <2>3, <2>4 DEF Well, Reading, Numbers, Apart
  <2> QED BY <2>5 DEF u, x
<1>4. Well(FlushParam(t, FALSE)) /\ Well(FlushParam(t, TRUE)) /\ Well(Finish(t, b))
  BY FlushParamWell, FinishWell DEF Ends
<1>5. Well([Goto(t, "CsiInt") EXCEPT !.inter = b])
  <2> DEFINE v == Goto(t, "CsiInt")
  <2>1. Well(v)
    BY GotoWell DEF ParserStates
  <2> HIDE DEF v
  <2>2. Apart(v, [v EXCEPT !.inter = b], IdleFields)
    BY <2>1, WellFacts DEF Apart, IdleFields, TermFields, IsTerm, Map
  <2>3. Well([v EXCEPT !.inter = b])
    BY <2>1, <2>2, IdleWell DEF Stays
  <2> QED BY <2>3 DEF v
<1>6. Well(Csi(t, b))
  BY <1>1, <1>2, <1>3, <1>4, <1>5 DEF Csi
<1>7. b = "ESC" => Csi(t, b) = C0(t, b)
  <2>1. "ESC" \notin Range(Digits)
    BY DEF Range, Digits
  <2>2. "ESC" \notin DOMAIN DigitOf
    BY <2>1 DEF DigitOf
  <2>3. "ESC" # Semicolon /\ "ESC" \notin Intermediate
    BY Zenon DEF Semicolon, Intermediate, Space
  <2> QED BY <2>2, <2>3 DEF Csi, C0Codes
<1> QED BY <1>1, <1>6, <1>7

\* A byte after an intermediate one; ESC ends the sequence as its final byte.
LEMMA CsiIntermediateWell ==
  ASSUME NEW t, Well(t), NEW b
  PROVE  Well(CsiIntermediate(t, b)) /\ (b = "ESC" => CsiIntermediate(t, b).state = "Ground")
<1>1. Apart(t, [t EXCEPT !.inter = b], IdleFields)
  BY WellFacts DEF Apart, IdleFields, TermFields, IsTerm, Map
<1>2. Well([t EXCEPT !.inter = b])
  BY <1>1, IdleWell DEF Stays
<1>3. Ends(Finish(t, b))
  BY FinishWell
<1>4. "ESC" \notin Intermediate
  BY Zenon DEF Intermediate, Space
<1> QED BY <1>2, <1>3, <1>4 DEF CsiIntermediate, Ends

---------------------------------------------------------------------------
(* Operating system commands and strings.                                  *)

\* A complete operating system command: whatever it is, plain text follows.
LEMMA OscDoneWell == ASSUME NEW t, Well(t) PROVE Ends(OscDone(t))
<1> DEFINE g == Goto(t, "Ground")
           v == [g EXCEPT !.osc = <<>>]
<1>1. Ends(g)
  BY ToGround
<1> HIDE DEF g
<1>2. Ends(v)
  <2>1. Apart(g, v, IdleFields)
    BY <1>1, WellFacts DEF Ends, Apart, IdleFields, TermFields, IsTerm, Map
  <2> QED BY <1>1, <2>1, IdleWell DEF Ends, Stays
<1>3. ASSUME NEW x
      PROVE  /\ Ends([v EXCEPT !.sinks.title = x]) /\ Ends([v EXCEPT !.sinks.cwd = x])
             /\ Ends([v EXCEPT !.sinks.clipboard = x])
  <2> HIDE DEF v
  <2>1. /\ Apart(v, [v EXCEPT !.sinks.title = x], IdleFields)
        /\ Apart(v, [v EXCEPT !.sinks.cwd = x], IdleFields)
        /\ Apart(v, [v EXCEPT !.sinks.clipboard = x], IdleFields)
    BY <1>2, WellFacts DEF Ends, Apart, IdleFields, TermFields, IsTerm, Map
  <2> QED BY <1>2, <2>1, IdleWell DEF Ends, Stays
<1>4. Ends(On(v, MarkPrompt(v.scr))) /\ \A exit : Ends(On(v, MarkCmdExit(v.scr, exit)))
  <2> HIDE DEF v
  <2>1. ScreenGood(v.scr)
    BY <1>2, WellFacts DEF Ends
  <2>2. Kept(v.scr, MarkPrompt(v.scr)) /\ \A exit : Kept(v.scr, MarkCmdExit(v.scr, exit))
    BY <2>1, MarkPromptGood, MarkCmdExitGood
  <2> QED BY <1>2, <2>2, OnKept DEF Ends, Stays
<1>5. OscDone(t) \in {v, On(v, MarkPrompt(v.scr))}
                     \cup {On(v, MarkCmdExit(v.scr, exit)) : exit \in {ExitOf(Part(Rest(Rest(t.osc))))}}
                     \cup {[v EXCEPT !.sinks.title = x] : x \in {Rest(t.osc)}}
                     \cup {[v EXCEPT !.sinks.cwd = x] : x \in {After(Rest(t.osc), "/")}}
                     \cup {[v EXCEPT !.sinks.clipboard = x] : x \in {DecodesTo(Rest(Rest(t.osc)))}}
  <2> HIDE DEF v
  <2> QED BY DEF OscDone, v, g
<1> HIDE DEF v
<1> QED BY <1>2, <1>3, <1>4, <1>5

\* A byte of an operating system command; ESC may end it.
LEMMA OscWell ==
  ASSUME NEW t, Well(t), NEW b
  PROVE  Well(Osc(t, b)) /\ (b = "ESC" => Osc(t, b).state = "OscEsc")
<1>1. Apart(t, [t EXCEPT !.osc = Append(@, b)], IdleFields)
  BY WellFacts DEF Apart, IdleFields, TermFields, IsTerm, Map
<1>2. Well([t EXCEPT !.osc = Append(@, b)])
  BY <1>1, IdleWell DEF Stays
<1>3. Well(OscDone(t)) /\ Well(Goto(t, "OscEsc")) /\ Goto(t, "OscEsc").state = "OscEsc"
  BY OscDoneWell, GotoWell DEF Ends, ParserStates
<1> QED BY <1>2, <1>3 DEF Osc

\* The byte after ESC in a string: the string ends, or is abandoned for a
\* sequence.
LEMMA OscEscWell ==
  ASSUME NEW t, Well(t), NEW b
  PROVE  Well(OscEsc(t, b)) /\ (b \in {"ESC", "\\"} => OscEsc(t, b).state = "Ground")
<1>1. Well(Goto(t, "Esc"))
  BY GotoWell DEF ParserStates
<1>2. Well(Escape(Goto(t, "Esc"), b)) /\ (b = "ESC" => Escape(Goto(t, "Esc"), b).state = "Ground")
  BY <1>1, EscapeWell
<1>3. Ends(OscDone(t))
  BY OscDoneWell
<1> QED BY <1>2, <1>3 DEF OscEsc, Ends

\* A byte of a string that is skipped; ESC may end it.
LEMMA StrConsumeWell ==
  ASSUME NEW t, Well(t), NEW b
  PROVE  Well(StrConsume(t, b)) /\ (b = "ESC" => StrConsume(t, b).state = "OscEsc")
<1> DEFINE v == Goto(t, "OscEsc")
<1>1. Well(v) /\ v.state = "OscEsc" /\ Well(Goto(t, "Ground"))
  BY GotoWell DEF ParserStates
<1> HIDE DEF v
<1>2. Apart(v, [v EXCEPT !.osc = <<>>], IdleFields)
  BY <1>1, WellFacts DEF Apart, IdleFields, TermFields, IsTerm, Map
<1>3. Stays(v, [v EXCEPT !.osc = <<>>])
  BY <1>1, <1>2, IdleWell
<1> QED BY <1>1, <1>3 DEF StrConsume, Stays, v

---------------------------------------------------------------------------
(* parse and feed.                                                         *)

\* The parser takes any byte in any state,
LEMMA StepWell == ASSUME NEW t, Well(t), NEW b PROVE Well(Step(t, b))
<1>1. /\ Well(Ground(t, b)) /\ Well(Escape(t, b)) /\ Well(EscapeIntermediate(t, b))
      /\ Well(Csi(t, b))
      /\ Well(CsiIntermediate(t, b)) /\ Well(Osc(t, b)) /\ Well(OscEsc(t, b))
      /\ Well(StrConsume(t, b))
  BY GroundWell, EscapeWell, EscapeIntermediateWell, CsiWell, CsiIntermediateWell, OscWell,
     OscEscWell, StrConsumeWell DEF Ends
<1>2. t.state \in ParserStates
  BY WellFacts
<1> QED BY <1>1, <1>2 DEF Step, ParserStates

\* on the short way for plain text too,
LEMMA ParseByteWell == ASSUME NEW t, Well(t), NEW b PROVE Well(ParseByte(t, b))
  BY StepWell, PrintAsciiWell DEF ParseByte, Stays

ByteOp(c, v, x) == ParseByte(v, x)
ByteInv(c, k, v) == Well(v)
Parsing == INSTANCE FoldLaw WITH Op <- ByteOp, Inv <- ByteInv
\* Parsing is a fold over the bytes.
LEMMA ParseIsFold == ASSUME NEW t, NEW data PROVE Parse(t, data) = Parsing!Fold(0, t, data)
  BY DEF Parse, ByteOp, Parsing!Fold, FoldLeft, Parsing!FoldLeft, MapThenFoldSet,
     Parsing!MapThenFoldSet, Max, Parsing!Max

\* and any number of them.
LEMMA ParseWell == ASSUME NEW t, Well(t), NEW data, Listed(data) PROVE Well(Parse(t, data))
<1>1. Len(data) \in Nat /\ DOMAIN data = 1 .. Len(data)
  BY ListedLen
<1>2. ByteInv(0, 0, t)
  BY DEF ByteInv
<1>3. ASSUME NEW v, NEW k \in 1 .. Len(data), ByteInv(0, k - 1, v)
      PROVE  ByteInv(0, k, ByteOp(0, v, data[k]))
  BY <1>3, ParseByteWell DEF ByteInv, ByteOp
<1>4. ByteInv(0, Len(data), Parsing!Fold(0, t, data))
  BY <1>1, <1>2, <1>3, Parsing!FoldKeeps
<1> QED BY <1>4, ParseIsFold DEF ByteInv

\* A chunk leaves a well terminal; it is in the state the parser is in.
LEMMA TermFeedWell ==
  ASSUME NEW t, Well(t), NEW data, Listed(data)
  PROVE  Well(TermFeed(t, data))
         /\ TermFeed(t, data).state = Parse([t EXCEPT !.sinks = NoSinks], data).state
<1> DEFINE v == [t EXCEPT !.sinks = NoSinks]
           u == Parse(v, data)
<1>1. Well(v)
  <2>1. Apart(t, v, IdleFields)
    BY WellFacts DEF Apart, IdleFields, TermFields, IsTerm, Map
  <2> QED BY <2>1, IdleWell DEF Stays
<1> HIDE DEF v
<1>2. Well(u)
  BY <1>1, ParseWell
<1> HIDE DEF u
<1>3. PICK r, ti, cw, cl, si :
        TermFeed(t, data) = [u EXCEPT !.respond = r, !.title = ti, !.cwd = cw, !.clipboard = cl, !.sinks = si]
  BY ZenonT(40) DEF TermFeed, u, v
<1>4. Apart(u, TermFeed(t, data), IdleFields)
  BY <1>2, <1>3, WellFacts DEF Apart, IdleFields, TermFields, IsTerm, Map
<1>5. Stays(u, TermFeed(t, data))
  BY <1>2, <1>4, IdleWell
<1> QED BY <1>5 DEF Stays, u, v

---------------------------------------------------------------------------
(* The inductive invariant of the run.                                     *)

\* Draining the replies changes no screen and no state of the parser.
LEMMA DrainedWell == ASSUME NEW t, Well(t) PROVE Stays(t, Drained(t)) /\ Drained(t).scr = t.scr
<1>1. Apart(t, Drained(t), IdleFields)
  BY WellFacts DEF Apart, IdleFields, TermFields, IsTerm, Map, Drained
<1> QED BY <1>1, IdleWell

\* A new terminal, of any size, is well.
LEMMA NewTerminalWell == Well(NewTerminal)
<1> DEFINE t == NewTerminal
<1>1. IsTerm(t)
  BY DEF IsTerm, Map, TermFields, NewTerminal
<1>2. /\ t.state = "Ground" /\ t.need = 0 /\ t.params = <<>> /\ t.colon = <<>> /\ t.cur = 0
      /\ t.scr = NewScreen(Cols, Rows)
  BY DEF NewTerminal
<1> HIDE DEF t
<1>3. Reading(t)
  BY <1>2 DEF Reading, ParserStates
<1>4. <<>> \in Seq(Int) /\ <<>> \in Seq({})
  OBVIOUS
<1>5. Numbers(t)
  BY <1>2, <1>4 DEF Numbers, Listed
<1>6. Sound(t.scr)
  BY <1>2, NewScreenFine, VtAssumption DEF Sound
<1> QED BY <1>1, <1>3, <1>5, <1>6 DEF Well, t

FeedOp(c, v, x) == TermFeed(v, x)
FeedInv(c, k, v) == Well(v)
Feeding == INSTANCE FoldLaw WITH Op <- FeedOp, Inv <- FeedInv

\* Output is a sequence.
LEMMA OutputListed == ASSUME NEW c, IsOutput(c) PROVE Listed(c)
  BY DEF IsOutput, Listed

VtInv == Well(term) /\ steps \in 0 .. MaxSteps

\* The terminal is well after any prologue.
LEMMA VtInit == ASSUME Init PROVE VtInv
<1>1. PICK p \in Prologues : term = Drained(FoldLeft(TermFeed, NewTerminal, p))
  BY DEF Init
<1>2. p \in Seq(Range(p)) /\ \A c \in Range(p) : Listed(c)
  BY VtAssumption, OutputListed
<1>3. Len(p) \in Nat /\ DOMAIN p = 1 .. Len(p)
  BY <1>2
<1>4. FoldLeft(TermFeed, NewTerminal, p) = Feeding!Fold(0, NewTerminal, p)
  BY DEF FeedOp, Feeding!Fold, FoldLeft, Feeding!FoldLeft, MapThenFoldSet,
     Feeding!MapThenFoldSet, Max, Feeding!Max
<1>5. FeedInv(0, 0, NewTerminal)
  BY NewTerminalWell DEF FeedInv
<1>6. ASSUME NEW v, NEW k \in 1 .. Len(p), FeedInv(0, k - 1, v)
      PROVE  FeedInv(0, k, FeedOp(0, v, p[k]))
  <2>1. p[k] \in Range(p)
    BY <1>3 DEF Range
  <2> QED BY <1>2, <1>6, <2>1, TermFeedWell DEF FeedInv, FeedOp
<1>7. FeedInv(0, Len(p), Feeding!Fold(0, NewTerminal, p))
  BY <1>3, <1>5, <1>6, Feeding!FoldKeeps
<1>8. Well(term)
  BY <1>1, <1>4, <1>7, DrainedWell DEF FeedInv, Stays
<1>9. steps \in 0 .. MaxSteps
  BY VtAssumption DEF Init
<1> QED BY <1>8, <1>9 DEF VtInv

\* A chunk, and a resize to any size, keep it well.
LEMMA VtNext == ASSUME VtInv, [Next]_vars PROVE VtInv'
<1>1. CASE UNCHANGED vars
  BY <1>1 DEF VtInv, vars
<1>2. CASE Next
  <2>1. steps' \in 0 .. MaxSteps
    BY <1>2, VtAssumption DEF Next, VtInv
  <2>2. Well(Drained(term)) /\ Drained(term).scr = term.scr /\ ScreenGood(term.scr)
        /\ Sound(term.scr)
    BY DrainedWell, WellFacts DEF VtInv, Stays, Well
  <2>3. ASSUME NEW c \in Chunks, Feed(c) PROVE Well(term')
    <3>1. Listed(c)
      BY VtAssumption, OutputListed
    <3> QED BY <2>2, <2>3, <3>1, TermFeedWell DEF Feed
  <2>4. ASSUME NEW size \in Sizes, ResizeTo(size) PROVE Well(term')
    <3>1. size[1] \in Nat /\ size[2] \in Nat
      BY VtAssumption
    <3>2. Fine(term.scr, Resize(term.scr, size[1], size[2]))
      BY <2>2, <3>1, ResizeFine
    <3> QED BY <2>2, <2>4, <3>2, OnFine DEF ResizeTo, Stays
  <2> QED BY <1>2, <2>1, <2>3, <2>4 DEF Next, VtInv
<1> QED BY <1>1, <1>2

\* The inductive invariant: whatever a program writes, however it is cut, and
\* however the window is resized, the terminal stays well.
THEOREM VtInvHolds == Spec => []VtInv
  BY VtInit, VtNext, PTL DEF Spec

\* A good screen satisfies every bound of the type invariant.
LEMMA GoodScreenOK == ASSUME NEW s, ScreenGood(s) PROVE ScreenOK(s)
<1>1. ASSUME NEW g, IsGrid(g, s.cols, s.rows) PROVE GridOK(s, g)
  BY <1>1 DEF IsGrid, GridOK, RowsOf, Columns, Cells
<1>2. s.cols > 0 /\ s.rows > 0 /\ GridOK(s, s.primary) /\ GridOK(s, s.alt)
  BY <1>1, SizeFacts DEF ScreenGood, Grids
<1>3. /\ s.cx \in Columns(s) /\ s.cy \in RowsOf(s) /\ (s.wrap_pending => s.cx = s.cols - 1)
      /\ s.top \in RowsOf(s) /\ s.bot \in s.top .. s.rows - 1 /\ s.tabs \subseteq Columns(s)
  BY DEF ScreenGood, Cursor, Region, Stops, RowsOf, Columns
<1>4. /\ s.sb.count \in 0 .. Cap /\ s.sb.start \in 0 .. Cap - 1 /\ s.sb.count <= s.scrolled_total
      /\ \A i \in 0 .. s.sb.count - 1 : SbGet(s.sb, i) # NoLine
      /\ Len(s.prompts) <= PromptCap
  BY DEF ScreenGood, Rings, IsRing, RingShape, Marks
<1> QED BY <1>2, <1>3, <1>4 DEF ScreenOK

\* So does a well terminal.
LEMMA VtTyped == ASSUME VtInv PROVE TerminalTypeOK
<1>1. ScreenOK(term.scr)
  BY GoodScreenOK, WellFacts DEF VtInv
<1> QED BY <1>1 DEF VtInv, Well, Reading, Numbers, TerminalTypeOK

\* Cursor, region, tab stops, scrollback and prompt marks stay in bounds and
\* the parser in its states, for every size of screen and every output.
THEOREM TerminalTyped == Spec => []TerminalTypeOK
  BY VtInvHolds, VtTyped, PTL

\* Owned places are what the property says of live cells.
LEMMA OwnedCombos == ASSUME NEW s, ScreenGood(s), Owned(s), s = term.scr PROVE CombosOwned
<1> DEFINE place(k) == <<k[1], IF k[1] = "past" THEN k[2][1] - 1 ELSE k[2][1], k[2][2]>>
<1>1. ASSUME NEW k \in LiveCells(s)
      PROVE  /\ place(k) \in Places(s) /\ At(s, place(k)) = ComboAt(s, k) /\ ComboAt(s, k) # 0
             /\ \E x, c : \E i \in Int : k = <<x, <<i, c>>>>
  <2>1. CASE \E r \in RowsOf(s), c \in Columns(s) : k = <<"grid", <<r, c>>>> /\ Buf(s)[r][c].combo # 0
    <3>1. PICK r \in RowsOf(s), c \in Columns(s) : k = <<"grid", <<r, c>>>> /\ Buf(s)[r][c].combo # 0
      BY <2>1
    <3>2. place(k) = <<"grid", r, c>> /\ ComboAt(s, k) = Buf(s)[r][c].combo
      BY <3>1 DEF ComboAt
    <3> QED BY <3>1, <3>2, AtGrid, PlaceIn, SizeFacts DEF RowsOf, Columns
  <2>2. CASE s.buf_alt /\ \E r \in RowsOf(s), c \in Columns(s) : k = <<"under", <<r, c>>>> /\ s.primary[r][c].combo # 0
    <3>1. PICK r \in RowsOf(s), c \in Columns(s) : k = <<"under", <<r, c>>>> /\ s.primary[r][c].combo # 0
      BY <2>2
    <3>2. place(k) = <<"under", r, c>> /\ ComboAt(s, k) = s.primary[r][c].combo
      BY <3>1 DEF ComboAt
    <3>3. <<"under", r, c>> \in Places(s) /\ At(s, <<"under", r, c>>) = s.primary[r][c].combo
      BY <2>2 DEF Places, At
    <3> QED BY <3>1, <3>2, <3>3, SizeFacts DEF RowsOf, Columns
  <2>3. CASE \E i \in 1 .. s.sb.count : \E c \in DOMAIN History(s)[i] :
              k = <<"past", <<i, c>>>> /\ History(s)[i][c].combo # 0
    <3>1. PICK i \in 1 .. s.sb.count : \E c \in DOMAIN History(s)[i] :
                k = <<"past", <<i, c>>>> /\ History(s)[i][c].combo # 0
      BY <2>3
    <3>2. PICK c \in DOMAIN History(s)[i] : k = <<"past", <<i, c>>>> /\ History(s)[i][c].combo # 0
      BY <3>1
    <3>3. History(s)[i] = SbGet(s.sb, i - 1)
      BY DEF History
    <3>4. place(k) = <<"past", i - 1, c>> /\ ComboAt(s, k) = SbGet(s.sb, i - 1)[c].combo
      BY <3>2, <3>3 DEF ComboAt
    <3>5. i - 1 \in 0 .. s.sb.count - 1
      BY DEF ScreenGood, Rings, IsRing, RingShape
    <3>6. place(k) \in Places(s)
      BY <3>2, <3>3, <3>4, <3>5, PlaceIn
    <3> QED BY <3>2, <3>3, <3>4, <3>6, AtPast
  <2> QED BY <2>1, <2>2, <2>3 DEF LiveCells
<1>2. ASSUME NEW k \in LiveCells(s) PROVE ComboAt(s, k) \in 1 .. s.combo_pool
  <2>1. At(s, place(k)) \in 0 .. s.combo_pool /\ At(s, place(k)) # 0
    BY <1>1 DEF Owned
  <2>2. s.combo_pool \in Nat
    BY DEF ScreenGood, Others
  <2> QED BY <1>1, <2>1, <2>2
<1>3. ASSUME NEW j \in LiveCells(s), NEW k \in LiveCells(s), ComboAt(s, j) = ComboAt(s, k)
      PROVE  j = k
  <2>1. place(j) = place(k)
    <3> HIDE DEF place
    <3>1. place(j) \in Places(s) /\ At(s, place(j)) # 0 /\ place(k) \in Places(s)
          /\ At(s, place(j)) = At(s, place(k))
      BY <1>1, <1>3
    <3> QED BY <3>1 DEF Owned
  <2>2. PICK x, c : \E i \in Int : j = <<x, <<i, c>>>>
    BY <1>1
  <2>3. PICK i \in Int : j = <<x, <<i, c>>>>
    BY <2>2
  <2>4. PICK y, d : \E h \in Int : k = <<y, <<h, d>>>>
    BY <1>1
  <2>5. PICK h \in Int : k = <<y, <<h, d>>>>
    BY <2>4
  <2>6. x = y /\ c = d
    BY <2>1, <2>3, <2>5
  <2>7. i = h
    BY <2>1, <2>3, <2>5, <2>6
  <2> QED BY <2>3, <2>5, <2>6, <2>7
<1> QED BY <1>2, <1>3 DEF CombosOwned

\* A well terminal has every string of combining marks at one live cell.
LEMMA VtOwned == ASSUME VtInv PROVE CombosOwned
  BY OwnedCombos DEF VtInv, Well, Sound

\* No two live cells share a string of combining marks and none holds a number
\* the pool does not have, whatever was reset, cleared, scrolled or resized
\* between.
THEOREM CombosStayOwned == Spec => []CombosOwned
  BY VtInvHolds, VtOwned, PTL

---------------------------------------------------------------------------
(* The string terminator.                                                  *)

\* ESC and a backslash bring a well terminal back to plain text, from any
\* state.
LEMMA EscThenTerminator ==
  ASSUME NEW t, Well(t)
  PROVE  ParseByte(ParseByte(t, "ESC"), "\\").state = "Ground"
<1> DEFINE u == ParseByte(t, "ESC")
<1>1. u = Step(t, "ESC")
  BY DEF ParseByte, Printable, C0Codes
<1>2. Well(u)
  BY ParseByteWell
<1>3. u.state \in {"Ground", "Esc", "OscEsc"}
  <2>1. /\ Ground(t, "ESC").state = "Esc" /\ Escape(t, "ESC").state = "Ground"
        /\ EscapeIntermediate(t, "ESC").state = "Ground" /\ Csi(t, "ESC").state = "Esc"
        /\ CsiIntermediate(t, "ESC").state = "Ground" /\ Osc(t, "ESC").state = "OscEsc"
        /\ OscEsc(t, "ESC").state = "Ground" /\ StrConsume(t, "ESC").state = "OscEsc"
    BY GroundWell, EscapeWell, EscapeIntermediateWell, CsiWell, CsiIntermediateWell, OscWell,
       OscEscWell, StrConsumeWell DEF Ends
  <2>2. t.state \in ParserStates
    BY WellFacts
  <2> QED BY <1>1, <2>1, <2>2 DEF Step, ParserStates
<1> HIDE DEF u
<1>4. CASE u.state = "Ground"
  <2>1. PrintAscii(u, "\\").state = "Ground"
    BY <1>2, <1>4, PrintAsciiWell DEF Stays
  <2>2. Ground(u, "\\").state = "Ground" /\ Step(u, "\\") = Ground(u, "\\")
    BY <1>2, <1>4, GroundWell DEF Step
  <2> QED BY <2>1, <2>2 DEF ParseByte, u
<1>5. CASE u.state \in {"Esc", "OscEsc"}
  <2>1. ParseByte(u, "\\") = Step(u, "\\")
    BY <1>5 DEF ParseByte
  <2>2. Escape(u, "\\").state = "Ground" /\ OscEsc(u, "\\").state = "Ground"
    BY <1>2, EscapeWell, OscEscWell
  <2> QED BY <1>5, <2>1, <2>2 DEF Step, u
<1> QED BY <1>3, <1>4, <1>5

\* So they do as a chunk.
LEMMA VtResyncs == ASSUME VtInv PROVE Resyncs
<1> DEFINE st == <<"ESC", "\\">>
           t == [term EXCEPT !.sinks = NoSinks]
<1>1. Len(st) = 2 /\ DOMAIN st = 1 .. 2 /\ st[1] = "ESC" /\ st[2] = "\\" /\ Listed(st)
  <2>1. st \in Seq({"ESC", "\\"})
    OBVIOUS
  <2>2. Listed(st)
    BY <2>1 DEF Listed
  <2> QED BY <2>2
<1>2. Well(term) /\ Well(t)
  <2>1. Apart(term, t, IdleFields)
    BY WellFacts DEF VtInv, Apart, IdleFields, TermFields, IsTerm, Map
  <2> QED BY <2>1, IdleWell DEF Stays, VtInv
<1>3. TermFeed(term, st).state = Parse(t, st).state
  BY <1>1, <1>2, TermFeedWell
<1> HIDE DEF t, st
<1>4. PICK f : Parsing!Trace(0, f, t, st) /\ Parse(t, st) = f[2]
  <2>1. Len(st) \in Nat /\ DOMAIN st = 1 .. Len(st)
    BY <1>1
  <2>2. PICK g : Parsing!Trace(0, g, t, st) /\ Parsing!Fold(0, t, st) = g[Len(st)]
    BY <2>1, Parsing!FoldTrace
  <2>3. Parse(t, st) = g[2]
    BY <1>1, <2>2, ParseIsFold
  <2> QED BY <2>2, <2>3
<1>5. f[0] = t /\ f[1] = ParseByte(f[0], st[1]) /\ f[2] = ParseByte(f[1], st[2])
  BY <1>1, <1>4 DEF Parsing!Trace, ByteOp
<1>6. Parse(t, st).state = "Ground"
  BY <1>1, <1>2, <1>4, <1>5, EscThenTerminator
<1> QED BY <1>3, <1>6 DEF Resyncs, st

\* Whatever was written before, a string terminator ends it.
THEOREM TerminatorResyncs == Spec => []Resyncs
  BY VtInvHolds, VtResyncs, PTL

---------------------------------------------------------------------------
(* Where a chunk ends.  Two terminals that parse the same bytes, and differ *)
(* only in what they have reported before, report the same from there on.  *)

SinkFields == {"respond", "title", "cwd", "clipboard"}
Outside == {"respond", "title", "cwd", "clipboard"}
Core == TermFields \ (Outside \cup {"sinks"})
IsSinks(r) == Map(r) /\ DOMAIN r = SinkFields /\ Listed(r.respond)
Newest(new, old) == IF new = None THEN old ELSE new
\* What was reported as p and then as r.
Join(p, r) == [respond |-> p.respond \o r.respond, title |-> Newest(r.title, p.title),
               cwd |-> Newest(r.cwd, p.cwd), clipboard |-> Newest(r.clipboard, p.clipboard)]
\* A sequence of bytes.
Pure(q) == \E T : q \in Seq(T) /\ "none" \notin T

\* t is the terminal u with c[1] reported before; outside they are c[2] and c[3].
Alike(t, u) == IsTerm(t) /\ IsTerm(u) /\ \A f \in Core : t[f] = u[f]
Outer(c, t, u) == \A f \in Outside : t[f] = c[2][f] /\ u[f] = c[3][f]
Echo(c, t, u) ==
  /\ Alike(t, u) /\ Outer(c, t, u) /\ Pure(t.osc)
  /\ IsSinks(u.sinks) /\ t.sinks = Join(c[1], u.sinks) /\ Listed(c[1].respond)

\* Terminals alike agree in everything the parser reads.
LEMMA EchoFields ==
  ASSUME NEW c, NEW t, NEW u, Echo(c, t, u)
  PROVE  /\ t.scr = u.scr /\ t.state = u.state /\ t.cp = u.cp /\ t.need = u.need
         /\ t.params = u.params /\ t.colon = u.colon /\ t.pending_colon = u.pending_colon
         /\ t.cur = u.cur /\ t.cur_has = u.cur_has /\ t.priv = u.priv /\ t.inter = u.inter
         /\ t.esc_inter = u.esc_inter /\ t.osc = u.osc /\ t.g0_special = u.g0_special
         /\ t.g1_special = u.g1_special /\ t.shift_out = u.shift_out
         /\ IsTerm(t) /\ IsTerm(u)
  BY DEF Echo, Alike, Core, TermFields, Outside
\* Changing the same core fields in the same way keeps two terminals alike.
LEMMA EchoFrame ==
  ASSUME NEW c, NEW t, NEW u, Echo(c, t, u), NEW F \in SUBSET Core, NEW v, NEW w,
         Apart(t, v, F), Apart(u, w, F), \A f \in F : v[f] = w[f], Pure(v.osc)
  PROVE  Echo(c, v, w)
<1>1. ASSUME NEW f \in Core PROVE v[f] = w[f]
  <2>1. CASE f \in F
    BY <2>1
  <2>2. CASE f \notin F
    BY <1>1, <2>2 DEF Echo, Alike, Apart, Core
  <2> QED BY <2>1, <2>2
<1>2. /\ \A f \in Outside : v[f] = t[f] /\ w[f] = u[f]
      /\ v.sinks = t.sinks /\ w.sinks = u.sinks
  BY DEF Apart, Core, TermFields, Outside
<1>3. Outer(c, v, w)
  BY <1>2 DEF Echo, Outer
<1>4. Alike(v, w)
  BY <1>1 DEF Alike, Apart
<1> QED BY <1>2, <1>3, <1>4 DEF Echo

\* So does changing fields other than the collected string.
LEMMA EchoQuiet ==
  ASSUME NEW c, NEW t, NEW u, Echo(c, t, u), NEW F \in SUBSET (Core \ {"osc"}), NEW v, NEW w,
         Apart(t, v, F), Apart(u, w, F), \A f \in F : v[f] = w[f]
  PROVE  Echo(c, v, w)
<1>1. v.osc = t.osc
  BY DEF Apart, TermFields, Core
<1>2. F \in SUBSET Core /\ Pure(v.osc)
  BY <1>1 DEF Echo
<1> QED BY <1>2, EchoFrame

\* The same screen for both,
LEMMA EchoOn ==
  ASSUME NEW c, NEW t, NEW u, Echo(c, t, u), NEW s, NEW s2, s = s2
  PROVE  Echo(c, On(t, s), On(u, s2))
<1>1. /\ Apart(t, On(t, s), {"scr"}) /\ Apart(u, On(u, s), {"scr"})
      /\ On(t, s).scr = s /\ On(u, s).scr = s
  BY EchoFields DEF On, Apart, TermFields, IsTerm, Map
<1>2. {"scr"} \in SUBSET (Core \ {"osc"})
  BY DEF Core, TermFields, Outside
<1>3. \A f \in {"scr"} : On(t, s)[f] = On(u, s)[f]
  BY <1>1
<1> QED BY <1>1, <1>2, <1>3, EchoQuiet

\* and the same state, keep them alike.
LEMMA EchoGoto ==
  ASSUME NEW c, NEW t, NEW u, Echo(c, t, u), NEW st PROVE Echo(c, Goto(t, st), Goto(u, st))
<1>1. /\ Apart(t, Goto(t, st), {"state"}) /\ Apart(u, Goto(u, st), {"state"})
      /\ Goto(t, st).state = st /\ Goto(u, st).state = st
  BY EchoFields DEF Goto, Apart, TermFields, IsTerm, Map
<1>2. {"state"} \in SUBSET (Core \ {"osc"})
  BY DEF Core, TermFields, Outside
<1>3. \A f \in {"state"} : Goto(t, st)[f] = Goto(u, st)[f]
  BY <1>1
<1> QED BY <1>1, <1>2, <1>3, EchoQuiet

\* One more byte keeps a string pure.
LEMMA PureAppend == ASSUME NEW q, Pure(q), NEW b, b # "none" PROVE Pure(Append(q, b))
<1>1. PICK T : q \in Seq(T) /\ "none" \notin T
  BY DEF Pure
<1>2. q \in Seq(T \cup {b})
  BY <1>1
<1>3. Append(q, b) \in Seq(T \cup {b}) /\ "none" \notin T \cup {b}
  BY <1>1, <1>2
<1> QED BY <1>3 DEF Pure

\* The empty string is pure.
LEMMA PureEmpty == Pure(<<>>)
<1> DEFINE T == {}
<1>1. <<>> \in Seq(T) /\ "none" \notin T
  OBVIOUS
<1> HIDE DEF T
<1> QED BY <1>1 DEF Pure

\* No pure string is the mark for an empty sink.
LEMMA PureNotNone == ASSUME NEW q, Pure(q) PROVE q # None
<1>1. PICK T : q \in Seq(T) /\ "none" \notin T
  BY DEF Pure
<1>2. None \notin Seq(T)
  <2> SUFFICES ASSUME None \in Seq(T) PROVE FALSE
    OBVIOUS
  <2>1. Len(None) = 1 /\ None[1] = "none"
    BY DEF None
  <2>2. None[1] \in T
    BY <2>1
  <2> QED BY <1>1, <2>1, <2>2
<1> QED BY <1>1, <1>2

\* A part of a pure string is pure.
LEMMA PureCut ==
  ASSUME NEW q, Pure(q), NEW m \in Nat \ {0}, NEW n \in Nat, n <= Len(q)
  PROVE  Pure(SubSeq(q, m, n))
<1>1. PICK T : q \in Seq(T) /\ "none" \notin T
  BY DEF Pure
<1>2. SubSeq(q, m, n) \in Seq(T)
  <2>1. \A i \in m .. n : q[i] \in T
    BY <1>1
  <2> QED BY <2>1, SubSeqProperties
<1> QED BY <1>1, <1>2 DEF Pure

\* Setting a field that only the parser reads keeps two terminals alike.
LEMMA EchoSet ==
  ASSUME NEW c, NEW t, NEW u, Echo(c, t, u), NEW x
  PROVE  /\ Echo(c, [t EXCEPT !.shift_out = x], [u EXCEPT !.shift_out = x])
         /\ Echo(c, [t EXCEPT !.need = x], [u EXCEPT !.need = x])
         /\ Echo(c, [t EXCEPT !.esc_inter = x], [u EXCEPT !.esc_inter = x])
         /\ Echo(c, [t EXCEPT !.g0_special = x], [u EXCEPT !.g0_special = x])
         /\ Echo(c, [t EXCEPT !.g1_special = x], [u EXCEPT !.g1_special = x])
         /\ Echo(c, [t EXCEPT !.priv = x], [u EXCEPT !.priv = x])
         /\ Echo(c, [t EXCEPT !.inter = x], [u EXCEPT !.inter = x])
<1>1. /\ {"shift_out"} \in SUBSET (Core \ {"osc"}) /\ {"need"} \in SUBSET (Core \ {"osc"})
      /\ {"esc_inter"} \in SUBSET (Core \ {"osc"}) /\ {"g0_special"} \in SUBSET (Core \ {"osc"})
      /\ {"g1_special"} \in SUBSET (Core \ {"osc"}) /\ {"priv"} \in SUBSET (Core \ {"osc"})
      /\ {"inter"} \in SUBSET (Core \ {"osc"})
  BY DEF Core, TermFields, Outside
<1>2. ASSUME NEW v, IsTerm(v)
      PROVE  /\ Apart(v, [v EXCEPT !.shift_out = x], {"shift_out"})
             /\ [v EXCEPT !.shift_out = x].shift_out = x
             /\ Apart(v, [v EXCEPT !.need = x], {"need"}) /\ [v EXCEPT !.need = x].need = x
             /\ Apart(v, [v EXCEPT !.esc_inter = x], {"esc_inter"})
             /\ [v EXCEPT !.esc_inter = x].esc_inter = x
             /\ Apart(v, [v EXCEPT !.g0_special = x], {"g0_special"})
             /\ [v EXCEPT !.g0_special = x].g0_special = x
             /\ Apart(v, [v EXCEPT !.g1_special = x], {"g1_special"})
             /\ [v EXCEPT !.g1_special = x].g1_special = x
             /\ Apart(v, [v EXCEPT !.priv = x], {"priv"}) /\ [v EXCEPT !.priv = x].priv = x
             /\ Apart(v, [v EXCEPT !.inter = x], {"inter"}) /\ [v EXCEPT !.inter = x].inter = x
  BY <1>2 DEF Apart, TermFields, IsTerm, Map
<1>3. ASSUME NEW f, {f} \in SUBSET (Core \ {"osc"}), NEW v, NEW w, Apart(t, v, {f}),
             Apart(u, w, {f}), v[f] = w[f]
      PROVE  Echo(c, v, w)
  BY <1>3, EchoQuiet
<1>4. IsTerm(t) /\ IsTerm(u)
  BY EchoFields
<1>5. Echo(c, [t EXCEPT !.shift_out = x], [u EXCEPT !.shift_out = x])
  BY <1>1, <1>2, <1>3, <1>4
<1>6. Echo(c, [t EXCEPT !.need = x], [u EXCEPT !.need = x])
  BY <1>1, <1>2, <1>3, <1>4
<1>7. Echo(c, [t EXCEPT !.esc_inter = x], [u EXCEPT !.esc_inter = x])
  BY <1>1, <1>2, <1>3, <1>4
<1>8. Echo(c, [t EXCEPT !.g0_special = x], [u EXCEPT !.g0_special = x])
  BY <1>1, <1>2, <1>3, <1>4
<1>9. Echo(c, [t EXCEPT !.g1_special = x], [u EXCEPT !.g1_special = x])
  BY <1>1, <1>2, <1>3, <1>4
<1>10. Echo(c, [t EXCEPT !.priv = x], [u EXCEPT !.priv = x])
  BY <1>1, <1>2, <1>3, <1>4
<1>11. Echo(c, [t EXCEPT !.inter = x], [u EXCEPT !.inter = x])
  BY <1>1, <1>2, <1>3, <1>4
<1> QED BY <1>5, <1>6, <1>7, <1>8, <1>9, <1>10, <1>11

\* The operations of the parser, one by one: a character,
LEMMA PrintAsciiEcho ==
  ASSUME NEW c, NEW t, NEW u, Echo(c, t, u), NEW b
  PROVE  Echo(c, PrintAscii(t, b), PrintAscii(u, b))
<1>1. t.scr = u.scr /\ t.shift_out = u.shift_out /\ t.g0_special = u.g0_special
      /\ t.g1_special = u.g1_special
  BY EchoFields
<1>2. PICK s : PrintAscii(t, b) = On(t, s) /\ PrintAscii(u, b) = On(u, s)
  BY <1>1 DEF PrintAscii
<1> QED BY <1>2, EchoOn

\* a control character,
LEMMA C0Echo ==
  ASSUME NEW c, NEW t, NEW u, Echo(c, t, u), NEW b PROVE Echo(c, C0(t, b), C0(u, b))
<1>1. t.scr = u.scr
  BY EchoFields
<1>2. ASSUME NEW s PROVE Echo(c, On(t, s), On(u, s))
  BY EchoOn
<1>3. \/ \E s : C0(t, b) = On(t, s) /\ C0(u, b) = On(u, s)
      \/ \E x : C0(t, b) = [t EXCEPT !.shift_out = x] /\ C0(u, b) = [u EXCEPT !.shift_out = x]
      \/ C0(t, b) = Goto(t, "Esc") /\ C0(u, b) = Goto(u, "Esc")
      \/ C0(t, b) = t /\ C0(u, b) = u
  BY <1>1 DEF C0
<1>4. ASSUME NEW x PROVE Echo(c, [t EXCEPT !.shift_out = x], [u EXCEPT !.shift_out = x])
  BY EchoSet
<1>5. Echo(c, Goto(t, "Esc"), Goto(u, "Esc"))
  BY EchoGoto
<1> QED BY <1>2, <1>3, <1>4, <1>5

\* a byte of text.
LEMMA GroundEcho ==
  ASSUME NEW c, NEW t, NEW u, Echo(c, t, u), NEW b PROVE Echo(c, Ground(t, b), Ground(u, b))
<1>1. t.need = u.need /\ t.cp = u.cp
  BY EchoFields
<1>2. CASE t.need > 0 /\ b = "CC"
  <2> DEFINE v == [t EXCEPT !.need = @ - 1]
             w == [u EXCEPT !.need = @ - 1]
  <2>1. Echo(c, v, w)
    BY <1>1, EchoSet
  <2>2. /\ Ground(t, b) = IF v.need = 0 THEN On(v, PutRune(v.scr, v.cp)) ELSE v
        /\ Ground(u, b) = IF w.need = 0 THEN On(w, PutRune(w.scr, w.cp)) ELSE w
    BY <1>1, <1>2 DEF Ground
  <2> HIDE DEF v, w
  <2>3. v.need = w.need /\ v.scr = w.scr /\ v.cp = w.cp
    BY <2>1, EchoFields
  <2>4. Echo(c, On(v, PutRune(v.scr, v.cp)), On(w, PutRune(w.scr, w.cp)))
    BY <2>1, <2>3, EchoOn
  <2> QED BY <2>1, <2>2, <2>3, <2>4
<1>3. CASE ~(t.need > 0 /\ b = "CC")
  <2> DEFINE v == [t EXCEPT !.need = 0]
             w == [u EXCEPT !.need = 0]
             Rest1(x) == CASE b \in C0Codes -> C0(x, b)
               [] b = "L2" -> [x EXCEPT !.cp = "m", !.need = 1]
               [] b = "L3" -> [x EXCEPT !.cp = "W", !.need = 2]
               [] b \in {"CC", "BAD"} -> On(x, PutRune(x.scr, "b"))
               [] OTHER -> PrintAscii(x, b)
  <2>1. Echo(c, v, w)
    BY EchoSet
  <2>2. Ground(t, b) = Rest1(v) /\ Ground(u, b) = Rest1(w)
    BY <1>1, <1>3 DEF Ground
  <2> HIDE DEF v, w
  <2>3. Echo(c, C0(v, b), C0(w, b)) /\ Echo(c, PrintAscii(v, b), PrintAscii(w, b))
    BY <2>1, C0Echo, PrintAsciiEcho
  <2>4. Echo(c, On(v, PutRune(v.scr, "b")), On(w, PutRune(w.scr, "b")))
    BY <2>1, EchoFields, EchoOn
  <2>5. ASSUME NEW g, NEW n
        PROVE  Echo(c, [v EXCEPT !.cp = g, !.need = n], [w EXCEPT !.cp = g, !.need = n])
    <3>1. {"cp", "need"} \in SUBSET (Core \ {"osc"})
      BY DEF Core, TermFields, Outside
    <3> DEFINE y == [v EXCEPT !.cp = g, !.need = n]
               z == [w EXCEPT !.cp = g, !.need = n]
    <3>4. IsTerm(v) /\ IsTerm(w)
      BY <2>1, EchoFields
    <3>5. Apart(v, y, {"cp", "need"}) /\ y.cp = g /\ y.need = n
      BY <3>4 DEF Apart, TermFields, IsTerm, Map
    <3>6. Apart(w, z, {"cp", "need"}) /\ z.cp = g /\ z.need = n
      BY <3>4 DEF Apart, TermFields, IsTerm, Map
    <3>2. Apart(v, y, {"cp", "need"}) /\ Apart(w, z, {"cp", "need"}) /\ \A f \in {"cp", "need"} : y[f] = z[f]
      BY <3>5, <3>6
    <3> HIDE DEF y, z
    <3>3. Echo(c, y, z)
      BY <2>1, <3>1, <3>2, EchoQuiet
    <3> QED BY <3>3 DEF y, z
  <2>6. Echo(c, Rest1(v), Rest1(w))
    BY <2>3, <2>4, <2>5 DEF C0Codes
  <2> QED BY <2>2, <2>6
<1> QED BY <1>2, <1>3

---------------------------------------------------------------------------

\* The bytes named in the model are none of those written out.
LEMMA OtherBytes ==
  /\ Bracket \notin {"[", "P", "X", "^", "_", "(", ")", "*", "+", "M", "D", "E", "7", "8", "c", "=", ">", "H"}
  /\ AtSign \notin {"A", "B", "e", "C", "a", "D", "E", "F", "G", "d", "H", "f", "J", "K", "L", "M", "P", "X",
                    "S", "T", "r", "m", "h", "l", "n", "c", "g", "s", "u"}
  /\ Semicolon \notin C0Codes \cup {"?", "<", "=", ">", ":"} \cup Intermediate
  /\ Space \notin C0Codes \cup {"?", "<", "=", ">", ":"}
<1>1. Bracket \notin {"[", "P", "X", "^", "_", "(", ")", "*", "+", "M", "D", "E", "7", "8", "c", "=", ">", "H"}
  BY Zenon DEF Bracket
<1>2. AtSign \notin {"A", "B", "e", "C", "a", "D", "E", "F", "G", "d", "H", "f", "J", "K", "L", "M", "P", "X",
                    "S", "T", "r", "m", "h", "l", "n", "c", "g", "s", "u"}
  BY Zenon DEF AtSign
<1>3. Semicolon \notin C0Codes \cup {"?", "<", "=", ">", ":"} \cup Intermediate
  BY Zenon DEF Semicolon, C0Codes, Intermediate, Space
<1>4. Space \notin C0Codes \cup {"?", "<", "=", ">", ":"}
  BY Zenon DEF Space, C0Codes
<1> QED BY <1>1, <1>2, <1>3, <1>4

\* The digits, written out.
LEMMA DigitBytes ==
  DOMAIN DigitOf = {"0", "1", "2", "3", "4", "5", "6", "7", "8", "9"}
<1>1. DOMAIN Digits = 1 .. 10
  BY DEF Digits
<1>2. Range(Digits) = {Digits[i] : i \in 1 .. 10}
  BY <1>1 DEF Range
<1>3. /\ Digits[1] = "0" /\ Digits[2] = "1" /\ Digits[3] = "2" /\ Digits[4] = "3"
      /\ Digits[5] = "4"
      /\ Digits[6] = "5" /\ Digits[7] = "6" /\ Digits[8] = "7" /\ Digits[9] = "8"
      /\ Digits[10] = "9"
  BY DEF Digits
<1>4. \A i \in 1 .. 10 : i \in {1, 2, 3, 4, 5, 6, 7, 8, 9, 10}
  OBVIOUS
<1>5. Range(Digits) = {"0", "1", "2", "3", "4", "5", "6", "7", "8", "9"}
  BY <1>2, <1>3, <1>4
<1> QED BY <1>5 DEF DigitOf

\* No digit is another byte of a control sequence.
LEMMA DigitsApart == DOMAIN DigitOf \cap (C0Codes \cup {"?", "<", "=", ">", ":", Semicolon} \cup Intermediate) = {}
<1>1. \A d \in DOMAIN DigitOf : d # Space /\ d # Semicolon
  BY DigitBytes, Zenon DEF Space, Semicolon
<1> QED BY <1>1, DigitBytes DEF C0Codes, Intermediate

\* A control sequence starts alike.
LEMMA ResetCsiEcho ==
  ASSUME NEW c, NEW t, NEW u, Echo(c, t, u) PROVE Echo(c, ResetCsi(t), ResetCsi(u))
<1> DEFINE F == {"params", "colon", "pending_colon", "cur", "cur_has", "priv", "inter"}
           v == ResetCsi(t)
           w == ResetCsi(u)
<1>1. F \in SUBSET (Core \ {"osc"})
  BY DEF Core, TermFields, Outside
<1>2. ASSUME NEW x, IsTerm(x)
      PROVE  /\ Apart(x, ResetCsi(x), F)
             /\ ResetCsi(x).params = <<>> /\ ResetCsi(x).colon = <<>>
             /\ ResetCsi(x).pending_colon = FALSE
             /\ ResetCsi(x).cur = 0 /\ ResetCsi(x).cur_has = FALSE /\ ResetCsi(x).priv = Nul
             /\ ResetCsi(x).inter = Nul
  BY <1>2 DEF Apart, TermFields, IsTerm, Map, ResetCsi
<1>3. IsTerm(t) /\ IsTerm(u)
  BY EchoFields
<1>4. Apart(t, v, F) /\ Apart(u, w, F)
  BY <1>2, <1>3
<1>5. \A f \in F : v[f] = w[f]
  BY <1>2, <1>3
<1> QED BY <1>1, <1>4, <1>5, EchoQuiet

\* The same string collected keeps two terminals alike.
LEMMA EchoOsc ==
  ASSUME NEW c, NEW t, NEW u, Echo(c, t, u), NEW q, Pure(q)
  PROVE  Echo(c, [t EXCEPT !.osc = q], [u EXCEPT !.osc = q])
<1> DEFINE v == [t EXCEPT !.osc = q]
           w == [u EXCEPT !.osc = q]
<1>1. Apart(t, v, {"osc"}) /\ Apart(u, w, {"osc"}) /\ v.osc = q /\ w.osc = q
  BY EchoFields DEF Apart, TermFields, IsTerm, Map
<1>2. {"osc"} \in SUBSET Core
  BY DEF Core, TermFields, Outside
<1> HIDE DEF v, w
<1>3. Echo(c, v, w)
  BY <1>1, <1>2, EchoFrame
<1> QED BY <1>3 DEF v, w

\* The byte after ESC,
LEMMA EscapeEcho ==
  ASSUME NEW c, NEW t, NEW u, Echo(c, t, u), NEW b PROVE Echo(c, Escape(t, b), Escape(u, b))
<1>1. t.scr = u.scr
  BY EchoFields
<1>2. ASSUME NEW st PROVE Echo(c, Goto(t, st), Goto(u, st))
  BY EchoGoto
<1>3. ASSUME NEW s PROVE Echo(c, On(Goto(t, "Ground"), s), On(Goto(u, "Ground"), s))
  BY <1>2, EchoOn
<1>4. Echo(c, Goto(ResetCsi(t), "Csi"), Goto(ResetCsi(u), "Csi"))
  BY ResetCsiEcho, EchoGoto
<1>5. Echo(c, [Goto(t, "Osc") EXCEPT !.osc = <<>>], [Goto(u, "Osc") EXCEPT !.osc = <<>>])
  BY <1>2, EchoOsc, PureEmpty
<1>6. Echo(c, [Goto(t, "EscInt") EXCEPT !.esc_inter = b], [Goto(u, "EscInt") EXCEPT !.esc_inter = b])
  BY <1>2, EchoSet
<1> DEFINE Seven(x, y) == \/ x = Goto(ResetCsi(t), "Csi") /\ y = Goto(ResetCsi(u), "Csi")
                          \/ x = [Goto(t, "Osc") EXCEPT !.osc = <<>>] /\ y = [Goto(u, "Osc") EXCEPT !.osc = <<>>]
                          \/ x = [Goto(t, "EscInt") EXCEPT !.esc_inter = b] /\ y = [Goto(u, "EscInt") EXCEPT !.esc_inter = b]
                          \/ \E st : x = Goto(t, st) /\ y = Goto(u, st)
                          \/ \E s : x = On(Goto(t, "Ground"), s) /\ y = On(Goto(u, "Ground"), s)
<1>7. Seven(Escape(t, b), Escape(u, b))
  BY <1>1, OtherBytes DEF Escape
<1> QED BY <1>2, <1>3, <1>4, <1>5, <1>6, <1>7

\* and the one that selects a character set.
LEMMA EscapeIntermediateEcho ==
  ASSUME NEW c, NEW t, NEW u, Echo(c, t, u), NEW b
  PROVE  Echo(c, EscapeIntermediate(t, b), EscapeIntermediate(u, b))
<1> DEFINE v == Goto(t, "Ground")
           w == Goto(u, "Ground")
<1>1. Echo(c, v, w)
  BY EchoGoto
<1>2. t.esc_inter = u.esc_inter
  BY EchoFields
<1> HIDE DEF v, w
<1>3. ASSUME NEW x
      PROVE  /\ Echo(c, [v EXCEPT !.g0_special = x], [w EXCEPT !.g0_special = x])
             /\ Echo(c, [v EXCEPT !.g1_special = x], [w EXCEPT !.g1_special = x])
  BY <1>1, EchoSet
<1>4. \/ EscapeIntermediate(t, b) = v /\ EscapeIntermediate(u, b) = w
      \/ \E x : /\ EscapeIntermediate(t, b) = [v EXCEPT !.g0_special = x]
                /\ EscapeIntermediate(u, b) = [w EXCEPT !.g0_special = x]
      \/ \E x : /\ EscapeIntermediate(t, b) = [v EXCEPT !.g1_special = x]
                /\ EscapeIntermediate(u, b) = [w EXCEPT !.g1_special = x]
  BY <1>2 DEF EscapeIntermediate, v, w
<1> QED BY <1>1, <1>3, <1>4

\* A parameter is complete.
LEMMA FlushParamEcho ==
  ASSUME NEW c, NEW t, NEW u, Echo(c, t, u), NEW next
  PROVE  Echo(c, FlushParam(t, next), FlushParam(u, next))
<1> DEFINE F == {"params", "colon", "pending_colon", "cur", "cur_has"}
           v == FlushParam(t, next)
           w == FlushParam(u, next)
<1>1. F \in SUBSET (Core \ {"osc"})
  BY DEF Core, TermFields, Outside
<1>2. ASSUME NEW x, IsTerm(x)
      PROVE  /\ Apart(x, FlushParam(x, next), F)
             /\ FlushParam(x, next).params = Append(x.params, IF x.cur_has THEN x.cur ELSE 0)
             /\ FlushParam(x, next).colon = Append(x.colon, x.pending_colon)
             /\ FlushParam(x, next).pending_colon = next
             /\ FlushParam(x, next).cur = 0 /\ FlushParam(x, next).cur_has = FALSE
  BY <1>2 DEF Apart, TermFields, IsTerm, Map, FlushParam
<1>3. /\ IsTerm(t) /\ IsTerm(u) /\ t.params = u.params /\ t.colon = u.colon
      /\ t.pending_colon = u.pending_colon /\ t.cur = u.cur /\ t.cur_has = u.cur_has
  BY EchoFields
<1>4. Apart(t, v, F) /\ Apart(u, w, F)
  BY <1>2, <1>3
<1>5. \A f \in F : v[f] = w[f]
  <2>1. v.params = w.params /\ v.colon = w.colon /\ v.pending_colon = w.pending_colon
        /\ v.cur = w.cur
        /\ v.cur_has = w.cur_has
    BY <1>2, <1>3
  <2> QED BY <2>1
<1> QED BY <1>1, <1>4, <1>5, EchoQuiet

\* Modes are set and reset alike.
LEMMA ModesEcho ==
  ASSUME NEW c, NEW t, NEW u, Echo(c, t, u), NEW f
  PROVE  Echo(c, DecMode(t, f), DecMode(u, f))
         /\ Echo(c, StdMode(t, f = "h"), StdMode(u, f = "h"))
<1>1. t.scr = u.scr /\ t.params = u.params
  BY EchoFields
<1>2. ASSUME NEW s PROVE Echo(c, On(t, s), On(u, s))
  BY EchoOn
<1>3. Echo(c, DecMode(t, f), DecMode(u, f))
  <2>1. CASE f \notin {"h", "l"}
    BY <2>1 DEF DecMode
  <2>2. CASE f \in {"h", "l"}
    BY <1>1, <1>2, <2>2 DEF DecMode
  <2> QED BY <2>1, <2>2
<1>4. Echo(c, StdMode(t, f = "h"), StdMode(u, f = "h"))
  BY <1>1, <1>2 DEF StdMode
<1> QED BY <1>3, <1>4

\* Appending to a concatenation appends to its second part.
LEMMA AppendConcat ==
  ASSUME NEW p, Listed(p), NEW r, Listed(r), NEW x
  PROVE  Append(p \o r, x) = p \o Append(r, x)
<1>1. PICK T : p \in Seq(T)
  BY DEF Listed
<1>2. PICK S : r \in Seq(S)
  BY DEF Listed
<1> DEFINE U == T \cup S \cup {x}
<1>3. p \in Seq(U) /\ r \in Seq(U) /\ <<x>> \in Seq(U) /\ x \in U
  BY <1>1, <1>2
<1> HIDE DEF U
<1>4. p \o r \in Seq(U)
  BY <1>3
<1>5. Append(p \o r, x) = (p \o r) \o <<x>> /\ Append(r, x) = r \o <<x>>
  BY <1>3, <1>4, AppendIsConcat
<1>6. (p \o r) \o <<x>> = p \o (r \o <<x>>)
  BY <1>3, ConcatAssociative
<1> QED BY <1>5, <1>6

\* The fields of what was reported before and after.
LEMMA JoinFields ==
  ASSUME NEW p, NEW r
  PROVE  /\ Join(p, r).respond = p.respond \o r.respond
         /\ Join(p, r).title = Newest(r.title, p.title) /\ Join(p, r).cwd = Newest(r.cwd, p.cwd)
         /\ Join(p, r).clipboard = Newest(r.clipboard, p.clipboard)
         /\ Map(Join(p, r)) /\ DOMAIN Join(p, r) = SinkFields
  BY DEF Join, Map, SinkFields

\* Sinks are equal when their fields are.
LEMMA SameSinks ==
  ASSUME NEW p, NEW r, Map(p), Map(r), DOMAIN p = SinkFields, DOMAIN r = SinkFields,
         p.respond = r.respond, p.title = r.title, p.cwd = r.cwd, p.clipboard = r.clipboard
  PROVE  p = r
  BY DEF Map, SinkFields

\* A reply added after is added to the whole,
LEMMA JoinRespond ==
  ASSUME NEW p, NEW r, IsSinks(r), NEW y
  PROVE  [Join(p, r) EXCEPT !.respond = p.respond \o y] = Join(p, [r EXCEPT !.respond = y])
<1> DEFINE j == Join(p, r)
           z == p.respond \o y
           s == [r EXCEPT !.respond = y]
           v == [j EXCEPT !.respond = z]
<1>1. s.respond = y /\ s.title = r.title /\ s.cwd = r.cwd /\ s.clipboard = r.clipboard
  BY DEF IsSinks, Map, SinkFields
<1>2. Map(j) /\ DOMAIN j = SinkFields
  BY JoinFields
<1>3. j.title = Newest(r.title, p.title) /\ j.cwd = Newest(r.cwd, p.cwd)
      /\ j.clipboard = Newest(r.clipboard, p.clipboard)
  BY JoinFields
<1> HIDE DEF j, s, z
<1>4. /\ Map(v) /\ DOMAIN v = SinkFields /\ v.respond = z /\ v.title = j.title /\ v.cwd = j.cwd
      /\ v.clipboard = j.clipboard
  BY <1>2 DEF Map, SinkFields
<1> HIDE DEF v
<1> DEFINE k == Join(p, s)
<1>6. /\ Map(k) /\ DOMAIN k = SinkFields /\ k.respond = p.respond \o s.respond
      /\ k.title = Newest(s.title, p.title) /\ k.cwd = Newest(s.cwd, p.cwd)
      /\ k.clipboard = Newest(s.clipboard, p.clipboard)
  BY JoinFields
<1>7. k.respond = z
  BY <1>1, <1>6 DEF z
<1> HIDE DEF k
<1>5. v = k
  BY <1>1, <1>3, <1>4, <1>6, <1>7, SameSinks
<1> QED BY <1>5 DEF v, j, s, z, k

\* and what is reported after hides what was before.
LEMMA JoinReport ==
  ASSUME NEW p, NEW r, IsSinks(r), NEW x, x # None
  PROVE  /\ [Join(p, r) EXCEPT !.title = x] = Join(p, [r EXCEPT !.title = x])
         /\ [Join(p, r) EXCEPT !.cwd = x] = Join(p, [r EXCEPT !.cwd = x])
         /\ [Join(p, r) EXCEPT !.clipboard = x] = Join(p, [r EXCEPT !.clipboard = x])
<1> DEFINE j == Join(p, r)
<1>0. /\ Map(j) /\ DOMAIN j = SinkFields /\ j.respond = p.respond \o r.respond
      /\ j.title = Newest(r.title, p.title) /\ j.cwd = Newest(r.cwd, p.cwd)
      /\ j.clipboard = Newest(r.clipboard, p.clipboard)
  BY JoinFields
<1> HIDE DEF j
<1>4. \A y : Newest(x, y) = x
  BY DEF Newest
<1>1. [j EXCEPT !.title = x] = Join(p, [r EXCEPT !.title = x])
  <2> DEFINE s == [r EXCEPT !.title = x]
             v == [j EXCEPT !.title = x]
  <2>1. s.respond = r.respond /\ s.title = x /\ s.cwd = r.cwd /\ s.clipboard = r.clipboard
    BY DEF IsSinks, Map, SinkFields
  <2>2. /\ Map(v) /\ DOMAIN v = SinkFields /\ v.respond = j.respond /\ v.title = x
        /\ v.cwd = j.cwd
        /\ v.clipboard = j.clipboard
    BY <1>0 DEF Map, SinkFields
  <2> HIDE DEF s, v
  <2> DEFINE k == Join(p, s)
  <2>4. /\ Map(k) /\ DOMAIN k = SinkFields /\ k.respond = p.respond \o s.respond
        /\ k.title = Newest(s.title, p.title) /\ k.cwd = Newest(s.cwd, p.cwd)
        /\ k.clipboard = Newest(s.clipboard, p.clipboard)
    BY JoinFields
  <2> HIDE DEF k
  <2>3. v = k
    BY <1>0, <1>4, <2>1, <2>2, <2>4, SameSinks
  <2> QED BY <2>3 DEF s, v, k
<1>2. [j EXCEPT !.cwd = x] = Join(p, [r EXCEPT !.cwd = x])
  <2> DEFINE s == [r EXCEPT !.cwd = x]
             v == [j EXCEPT !.cwd = x]
  <2>1. s.respond = r.respond /\ s.title = r.title /\ s.cwd = x /\ s.clipboard = r.clipboard
    BY DEF IsSinks, Map, SinkFields
  <2>2. /\ Map(v) /\ DOMAIN v = SinkFields /\ v.respond = j.respond /\ v.title = j.title
        /\ v.cwd = x
        /\ v.clipboard = j.clipboard
    BY <1>0 DEF Map, SinkFields
  <2> HIDE DEF s, v
  <2> DEFINE k == Join(p, s)
  <2>4. /\ Map(k) /\ DOMAIN k = SinkFields /\ k.respond = p.respond \o s.respond
        /\ k.title = Newest(s.title, p.title) /\ k.cwd = Newest(s.cwd, p.cwd)
        /\ k.clipboard = Newest(s.clipboard, p.clipboard)
    BY JoinFields
  <2> HIDE DEF k
  <2>3. v = k
    BY <1>0, <1>4, <2>1, <2>2, <2>4, SameSinks
  <2> QED BY <2>3 DEF s, v, k
<1>3. [j EXCEPT !.clipboard = x] = Join(p, [r EXCEPT !.clipboard = x])
  <2> DEFINE s == [r EXCEPT !.clipboard = x]
             v == [j EXCEPT !.clipboard = x]
  <2>1. s.respond = r.respond /\ s.title = r.title /\ s.cwd = r.cwd /\ s.clipboard = x
    BY DEF IsSinks, Map, SinkFields
  <2>2. /\ Map(v) /\ DOMAIN v = SinkFields /\ v.respond = j.respond /\ v.title = j.title
        /\ v.cwd = j.cwd
        /\ v.clipboard = x
    BY <1>0 DEF Map, SinkFields
  <2> HIDE DEF s, v
  <2> DEFINE k == Join(p, s)
  <2>4. /\ Map(k) /\ DOMAIN k = SinkFields /\ k.respond = p.respond \o s.respond
        /\ k.title = Newest(s.title, p.title) /\ k.cwd = Newest(s.cwd, p.cwd)
        /\ k.clipboard = Newest(s.clipboard, p.clipboard)
    BY JoinFields
  <2> HIDE DEF k
  <2>3. v = k
    BY <1>0, <1>4, <2>1, <2>2, <2>4, SameSinks
  <2> QED BY <2>3 DEF s, v, k
<1> QED BY <1>1, <1>2, <1>3 DEF j

SetSinks(t, r) == [t EXCEPT !.sinks = r]

\* Terminals alike may report the same.
LEMMA EchoSinks ==
  ASSUME NEW c, NEW t, NEW u, Echo(c, t, u), NEW r, IsSinks(r)
  PROVE  Echo(c, SetSinks(t, Join(c[1], r)), SetSinks(u, r))
<1> DEFINE q == Join(c[1], r)
           v == SetSinks(t, q)
           w == SetSinks(u, r)
<1> HIDE DEF q
<1>1. Apart(t, v, {"sinks"}) /\ v.sinks = q
  BY EchoFields DEF SetSinks, Apart, TermFields, IsTerm, Map
<1>2. Apart(u, w, {"sinks"}) /\ w.sinks = r
  BY EchoFields DEF SetSinks, Apart, TermFields, IsTerm, Map
<1> HIDE DEF v, w
<1>3. /\ \A f \in Core : v[f] = t[f] /\ w[f] = u[f]
      /\ \A f \in Outside : v[f] = t[f] /\ w[f] = u[f]
      /\ v.osc = t.osc
  BY <1>1, <1>2 DEF Apart, Core, Outside, TermFields
<1>4. Alike(v, w)
  BY <1>1, <1>2, <1>3 DEF Echo, Alike, Apart
<1>5. Outer(c, v, w)
  BY <1>3 DEF Echo, Outer
<1>6. Echo(c, v, w)
  BY <1>1, <1>2, <1>3, <1>4, <1>5 DEF Echo, q
<1> QED BY <1>6 DEF v, w, q

\* A reply,
LEMMA RespondEcho ==
  ASSUME NEW c, NEW t, NEW u, Echo(c, t, u), NEW reply
  PROVE  Echo(c, Respond(t, reply), Respond(u, reply))
<1> DEFINE p == c[1]
           us == u.sinks
           ts == t.sinks
           y == Append(us.respond, reply)
           r == [us EXCEPT !.respond = y]
<1>1. IsSinks(us) /\ ts = Join(p, us) /\ Listed(p.respond)
  BY DEF Echo
<1>6. /\ Respond(t, reply) = SetSinks(t, [ts EXCEPT !.respond = Append(ts.respond, reply)])
      /\ Respond(u, reply) = SetSinks(u, r)
  BY DEF Respond, SetSinks
<1>9. ASSUME NEW q, IsSinks(q) PROVE Echo(c, SetSinks(t, Join(p, q)), SetSinks(u, q))
  BY <1>9, EchoSinks
<1> HIDE DEF p, us, ts
<1>2. Listed(y) /\ Listed(us.respond)
  BY <1>1, AppendListed DEF IsSinks
<1>3. ts.respond = p.respond \o us.respond
  BY <1>1, JoinFields
<1>4. Append(ts.respond, reply) = p.respond \o y
  <2> DEFINE a == p.respond
             b == us.respond
  <2>1. Listed(a)
    BY <1>1
  <2>3. Listed(b)
    BY <1>2
  <2>4. ts.respond = a \o b /\ y = Append(b, reply)
    BY <1>3
  <2> HIDE DEF a, b, y
  <2>2. Append(a \o b, reply) = a \o Append(b, reply)
    BY <2>1, <2>3, AppendConcat
  <2> QED BY <2>2, <2>4 DEF a
<1> HIDE DEF y
<1>5. IsSinks(r)
  BY <1>1, <1>2 DEF IsSinks, SinkFields, Map
<1>7. [ts EXCEPT !.respond = Append(ts.respond, reply)] = Join(p, r)
  <2>1. [Join(p, us) EXCEPT !.respond = p.respond \o y] = Join(p, r)
    BY SMTT(20), <1>1, JoinRespond
  <2> QED BY <1>1, <1>4, <2>1
<1> HIDE DEF r
<1> QED BY <1>5, <1>6, <1>7, <1>9

\* and a title, a directory or a clipboard text, are reported alike.
LEMMA ReportEcho ==
  ASSUME NEW c, NEW t, NEW u, Echo(c, t, u), NEW x, x # None
  PROVE  /\ Echo(c, [t EXCEPT !.sinks.title = x], [u EXCEPT !.sinks.title = x])
         /\ Echo(c, [t EXCEPT !.sinks.cwd = x], [u EXCEPT !.sinks.cwd = x])
         /\ Echo(c, [t EXCEPT !.sinks.clipboard = x], [u EXCEPT !.sinks.clipboard = x])
<1> DEFINE p == c[1]
           us == u.sinks
           ts == t.sinks
           r1 == [us EXCEPT !.title = x]
           r2 == [us EXCEPT !.cwd = x]
           r3 == [us EXCEPT !.clipboard = x]
<1>1. IsSinks(us) /\ ts = Join(p, us)
  BY DEF Echo
<1>4. /\ [t EXCEPT !.sinks.title = x] = SetSinks(t, [ts EXCEPT !.title = x])
      /\ [u EXCEPT !.sinks.title = x] = SetSinks(u, r1)
      /\ [t EXCEPT !.sinks.cwd = x] = SetSinks(t, [ts EXCEPT !.cwd = x])
      /\ [u EXCEPT !.sinks.cwd = x] = SetSinks(u, r2)
      /\ [t EXCEPT !.sinks.clipboard = x] = SetSinks(t, [ts EXCEPT !.clipboard = x])
      /\ [u EXCEPT !.sinks.clipboard = x] = SetSinks(u, r3)
  BY DEF SetSinks
<1>8. ASSUME NEW q, IsSinks(q) PROVE Echo(c, SetSinks(t, Join(p, q)), SetSinks(u, q))
  BY <1>8, EchoSinks
<1> HIDE DEF p, us, ts
<1>2. IsSinks(r1) /\ IsSinks(r2) /\ IsSinks(r3)
  BY <1>1 DEF IsSinks, SinkFields, Map
<1>3. /\ [ts EXCEPT !.title = x] = Join(p, r1)
      /\ [ts EXCEPT !.cwd = x] = Join(p, r2)
      /\ [ts EXCEPT !.clipboard = x] = Join(p, r3)
  BY SMTT(20), <1>1, JoinReport
<1> HIDE DEF r1, r2, r3
<1> QED BY <1>2, <1>3, <1>4, <1>8

\* Status reports and device attributes.
LEMMA ReplyEcho ==
  ASSUME NEW c, NEW t, NEW u, Echo(c, t, u)
  PROVE  Echo(c, PrimaryDa(t), PrimaryDa(u)) /\ \A n : Echo(c, DeviceStatus(t, n), DeviceStatus(u, n))
<1>1. t.scr = u.scr /\ t.priv = u.priv
  BY EchoFields
<1>2. ASSUME NEW reply PROVE Echo(c, Respond(t, reply), Respond(u, reply))
  BY RespondEcho
<1>3. Echo(c, PrimaryDa(t), PrimaryDa(u))
  BY <1>1, <1>2 DEF PrimaryDa
<1>4. ASSUME NEW n PROVE Echo(c, DeviceStatus(t, n), DeviceStatus(u, n))
  BY <1>1, <1>2 DEF DeviceStatus
<1> QED BY <1>3, <1>4

\* Every final byte acts alike.
LEMMA StandardEcho ==
  ASSUME NEW c, NEW t, NEW u, Echo(c, t, u), NEW f PROVE Echo(c, Standard(t, f), Standard(u, f))
<1>1. t.scr = u.scr /\ t.params = u.params /\ t.colon = u.colon
  BY EchoFields
<1>2. /\ Times(t) = Times(u) /\ P(t, 1, 1) = P(u, 1, 1) /\ P(t, 2, 1) = P(u, 2, 1)
      /\ P(t, 1, 0) = P(u, 1, 0) /\ P(t, 2, 0) = P(u, 2, 0)
  BY <1>1 DEF Times, P
<1>3. /\ Echo(c, StdMode(t, f = "h"), StdMode(u, f = "h")) /\ Echo(c, PrimaryDa(t), PrimaryDa(u))
      /\ Echo(c, DeviceStatus(t, P(t, 1, 0)), DeviceStatus(u, P(u, 1, 0)))
  BY <1>2, ModesEcho, ReplyEcho
<1>4. ASSUME NEW s PROVE Echo(c, On(t, s), On(u, s))
  BY EchoOn
<1>6. CASE f \in {"A"}
  BY <1>1, <1>2, <1>3, <1>4, <1>6, OtherBytes DEF Standard
<1>7. CASE f \in {"B", "e"}
  BY <1>1, <1>2, <1>3, <1>4, <1>7, OtherBytes DEF Standard
<1>8. CASE f \in {"C", "a"}
  BY <1>1, <1>2, <1>3, <1>4, <1>8, OtherBytes DEF Standard
<1>9. CASE f \in {"D", "E"}
  BY <1>1, <1>2, <1>3, <1>4, <1>9, OtherBytes DEF Standard
<1>10. CASE f \in {"F", "G"}
  BY <1>1, <1>2, <1>3, <1>4, <1>10, OtherBytes DEF Standard
<1>11. CASE f \in {"d"}
  BY <1>1, <1>2, <1>3, <1>4, <1>11, OtherBytes DEF Standard
<1>12. CASE f \in {"H", "f"}
  BY <1>1, <1>2, <1>3, <1>4, <1>12, OtherBytes DEF Standard
<1>13. CASE f \in {"J", "K"}
  BY <1>1, <1>2, <1>3, <1>4, <1>13, OtherBytes DEF Standard
<1>14. CASE f \in {"L", "M"}
  BY <1>1, <1>2, <1>3, <1>4, <1>14, OtherBytes DEF Standard
<1>15. CASE f \in {"P", "X"}
  BY <1>1, <1>2, <1>3, <1>4, <1>15, OtherBytes DEF Standard
<1>16. CASE f \in {"S", "T"}
  BY <1>1, <1>2, <1>3, <1>4, <1>16, OtherBytes DEF Standard
<1>17. CASE f \in {"r", "m"}
  BY <1>1, <1>2, <1>3, <1>4, <1>17, OtherBytes DEF Standard
<1>18. CASE f \in {"h", "l"}
  BY <1>1, <1>2, <1>3, <1>4, <1>18, OtherBytes DEF Standard
<1>19. CASE f \in {"n", "c"}
  BY <1>1, <1>2, <1>3, <1>4, <1>19, OtherBytes DEF Standard
<1>20. CASE f \in {"g"}
  BY <1>1, <1>2, <1>3, <1>4, <1>20, OtherBytes DEF Standard
<1>21. CASE f \in {"s", "u"}
  BY <1>1, <1>2, <1>3, <1>4, <1>21, OtherBytes DEF Standard
<1>22. CASE f = AtSign
  BY <1>1, <1>2, <1>4, <1>22, OtherBytes DEF Standard
<1>23. CASE f # AtSign /\ f \notin
                {"A", "B", "e", "C", "a", "D", "E", "F", "G", "d", "H", "f", "J", "K", "L", "M", "P", "X",
                 "S", "T", "r", "m", "h", "l", "n", "c", "g", "s", "u"}
  BY <1>23 DEF Standard
<1> QED BY <1>6, <1>7, <1>8, <1>9, <1>10, <1>11, <1>12, <1>13, <1>14, <1>15, <1>16, <1>17,
           <1>18, <1>19, <1>20, <1>21, <1>22, <1>23

\* A control sequence ends alike,
LEMMA FinishEcho ==
  ASSUME NEW c, NEW t, NEW u, Echo(c, t, u), NEW f PROVE Echo(c, Finish(t, f), Finish(u, f))
<1> DEFINE v == FlushParam(t, FALSE)
           w == FlushParam(u, FALSE)
<1>1. Echo(c, v, w)
  BY FlushParamEcho
<1> HIDE DEF v, w
<1>2. v.priv = w.priv
  BY <1>1, EchoFields
<1>3. Echo(c, DecMode(v, f), DecMode(w, f)) /\ Echo(c, PrimaryDa(v), PrimaryDa(w))
      /\ Echo(c, Standard(v, f), Standard(w, f))
  BY <1>1, ModesEcho, ReplyEcho, StandardEcho
<1>4. Echo(c, DispatchCsi(v, f), DispatchCsi(w, f))
  BY <1>1, <1>2, <1>3 DEF DispatchCsi
<1> QED BY <1>4, EchoGoto DEF Finish, v, w

\* whatever byte of it comes,
LEMMA CsiEcho ==
  ASSUME NEW c, NEW t, NEW u, Echo(c, t, u), NEW b PROVE Echo(c, Csi(t, b), Csi(u, b))
<1>1. CASE b \in C0Codes
  <2>1. Csi(t, b) = C0(t, b) /\ Csi(u, b) = C0(u, b)
    BY <1>1, OtherBytes, DigitsApart DEF Csi, Intermediate, C0Codes
  <2> QED BY <2>1, C0Echo
<1>2. CASE b \in {"?", "<", "=", ">"}
  <2>1. Csi(t, b) = [t EXCEPT !.priv = b] /\ Csi(u, b) = [u EXCEPT !.priv = b]
    BY <1>2, OtherBytes, DigitsApart DEF Csi, Intermediate, C0Codes
  <2>2. Echo(c, [t EXCEPT !.priv = b], [u EXCEPT !.priv = b])
    BY EchoSet
  <2> QED BY <2>1, <2>2
<1>3. CASE b \in DOMAIN DigitOf
  <2> DEFINE x == AsI32(t.cur * 10 + DigitOf[b])
             v == [t EXCEPT !.cur = x, !.cur_has = TRUE]
             w == [u EXCEPT !.cur = x, !.cur_has = TRUE]
  <2>1. t.cur = u.cur /\ IsTerm(t) /\ IsTerm(u)
    BY EchoFields
  <2>2. Csi(t, b) = v /\ Csi(u, b) = w
    BY <1>3, <2>1, OtherBytes, DigitsApart DEF Csi, Intermediate
  <2> HIDE DEF x
  <2>3. Apart(t, v, {"cur", "cur_has"}) /\ v.cur = x /\ v.cur_has = TRUE
    BY <2>1 DEF Apart, TermFields, IsTerm, Map
  <2>4. Apart(u, w, {"cur", "cur_has"}) /\ w.cur = x /\ w.cur_has = TRUE
    BY <2>1 DEF Apart, TermFields, IsTerm, Map
  <2>5. {"cur", "cur_has"} \in SUBSET (Core \ {"osc"})
    BY DEF Core, TermFields, Outside
  <2> HIDE DEF v, w
  <2>6. \A f \in {"cur", "cur_has"} : v[f] = w[f]
    BY <2>3, <2>4
  <2>7. Echo(c, v, w)
    BY <2>3, <2>4, <2>5, <2>6, EchoQuiet
  <2> QED BY <2>2, <2>7
<1>4. CASE b = Semicolon
  <2>1. Csi(t, b) = FlushParam(t, FALSE) /\ Csi(u, b) = FlushParam(u, FALSE)
    BY <1>4, OtherBytes, DigitsApart DEF Csi, Intermediate
  <2> QED BY <2>1, FlushParamEcho
<1>5. CASE b = ":"
  <2>1. Csi(t, b) = FlushParam(t, TRUE) /\ Csi(u, b) = FlushParam(u, TRUE)
    BY <1>5, OtherBytes, DigitsApart DEF Csi, Intermediate, C0Codes
  <2> QED BY <2>1, FlushParamEcho
<1>6. CASE b \in Intermediate
  <2>1. /\ Csi(t, b) = [Goto(t, "CsiInt") EXCEPT !.inter = b]
        /\ Csi(u, b) = [Goto(u, "CsiInt") EXCEPT !.inter = b]
    BY <1>6, OtherBytes, DigitsApart DEF Csi, Intermediate, C0Codes
  <2>2. Echo(c, Goto(t, "CsiInt"), Goto(u, "CsiInt"))
    BY EchoGoto
  <2>3. Echo(c, [Goto(t, "CsiInt") EXCEPT !.inter = b], [Goto(u, "CsiInt") EXCEPT !.inter = b])
    BY <2>2, EchoSet
  <2> QED BY <2>1, <2>3
<1>7. CASE b \notin C0Codes \cup {"?", "<", "=", ">"} \cup DOMAIN DigitOf \cup {Semicolon, ":"} \cup Intermediate
  <2>1. Csi(t, b) = Finish(t, b) /\ Csi(u, b) = Finish(u, b)
    BY <1>7 DEF Csi
  <2> QED BY <2>1, FinishEcho
<1> QED BY <1>1, <1>2, <1>3, <1>4, <1>5, <1>6, <1>7

\* after an intermediate byte too.
LEMMA CsiIntermediateEcho ==
  ASSUME NEW c, NEW t, NEW u, Echo(c, t, u), NEW b
  PROVE  Echo(c, CsiIntermediate(t, b), CsiIntermediate(u, b))
<1>1. Echo(c, [t EXCEPT !.inter = b], [u EXCEPT !.inter = b])
  BY EchoSet
<1> QED BY <1>1, FinishEcho DEF CsiIntermediate

\* What follows a byte of a pure string is pure,
LEMMA PureAfter == ASSUME NEW q, Pure(q), NEW x PROVE Pure(After(q, x))
<1> DEFINE n == SelectInSeq(q, LAMBDA b : b = x)
<1>1. Len(q) \in Nat /\ DOMAIN q = 1 .. Len(q)
  BY DEF Pure
<1>2. n \in Nat
  <2> DEFINE I == {i \in 1 .. Len(q) : q[i] = x}
  <2>1. n = IF I # {} THEN Min(I) ELSE 0
    BY DEF SelectInSeq
  <2>2. I \in SUBSET Nat
    BY <1>1
  <2> HIDE DEF I, n
  <2>3. ASSUME I # {} PROVE Min(I) \in Nat
    <3>1. \E i \in I : \A j \in I : i <= j
      BY <2>2, <2>3, Parsing!NatMin
    <3>2. Min(I) \in I
      BY <3>1 DEF Min
    <3> QED BY <2>2, <3>2
  <2> QED BY <2>1, <2>3
<1>3. After(q, x) = SubSeq(q, n + 1, Len(q))
  BY DEF After
<1> HIDE DEF n
<1>4. n + 1 \in Nat \ {0}
  BY <1>2
<1>5. Pure(SubSeq(q, n + 1, Len(q)))
  <2> DEFINE m == n + 1
             l == Len(q)
  <2>1. m \in Nat \ {0} /\ l \in Nat /\ l <= Len(q)
    BY <1>1, <1>4
  <2> HIDE DEF m, l
  <2>2. Pure(SubSeq(q, m, l))
    BY <2>1, PureCut
  <2> QED BY <2>2 DEF m, l
<1> QED BY <1>3, <1>5

\* so is what follows a semicolon,
LEMMA PureRest == ASSUME NEW q, Pure(q) PROVE Pure(Rest(q))
  BY PureAfter, PureEmpty DEF Rest

\* and what clipboard data decode to.
LEMMA PureDecodes == ASSUME NEW q, Pure(q) PROVE Pure(DecodesTo(q))
<1>1. PICK T : q \in Seq(T) /\ "none" \notin T
  BY DEF Pure
<1>2. Retained(q, Range(q) \ {"="}) \in Seq(T)
  BY <1>1, RetainedIn
<1> QED BY <1>1, <1>2 DEF Pure, DecodesTo

\* A complete operating system command acts alike.
LEMMA OscDoneEcho ==
  ASSUME NEW c, NEW t, NEW u, Echo(c, t, u) PROVE Echo(c, OscDone(t), OscDone(u))
<1> DEFINE v == [Goto(t, "Ground") EXCEPT !.osc = <<>>]
           w == [Goto(u, "Ground") EXCEPT !.osc = <<>>]
           text == Rest(t.osc)
           path == After(text, "/")
           data == DecodesTo(Rest(text))
<1>1. Echo(c, v, w)
  <2>1. Echo(c, Goto(t, "Ground"), Goto(u, "Ground"))
    BY EchoGoto
  <2> QED BY <2>1, PureEmpty, EchoOsc
<1>2. t.osc = u.osc /\ Pure(t.osc)
  BY EchoFields DEF Echo
<1>3. Pure(text)
  BY <1>2, PureRest
<1>4. Pure(path) /\ Pure(data)
  <2> HIDE DEF text
  <2>1. Pure(path)
    BY <1>3, PureAfter
  <2>2. Pure(Rest(text))
    BY <1>3, PureRest
  <2> QED BY <2>1, <2>2, PureDecodes
<1>5. text # None /\ path # None /\ data # None
  <2> HIDE DEF text, path, data
  <2> QED BY <1>3, <1>4, PureNotNone
<1> DEFINE Arms(x, y) ==
    \/ x = [v EXCEPT !.sinks.title = text] /\ y = [w EXCEPT !.sinks.title = text]
    \/ x = [v EXCEPT !.sinks.cwd = path] /\ y = [w EXCEPT !.sinks.cwd = path]
    \/ x = [v EXCEPT !.sinks.clipboard = data] /\ y = [w EXCEPT !.sinks.clipboard = data]
    \/ x = On(v, MarkPrompt(v.scr)) /\ y = On(w, MarkPrompt(w.scr))
    \/ \E exit : x = On(v, MarkCmdExit(v.scr, exit)) /\ y = On(w, MarkCmdExit(w.scr, exit))
    \/ x = v /\ y = w
<1>6. Arms(OscDone(t), OscDone(u))
  <2> DEFINE num == Part(t.osc)
             exit == ExitOf(Part(Rest(text)))
             n7 == num = <<"7">> /\ text # <<>> /\ text[1] = "f" /\ Contains(text, "/")
             n52 == num = <<"5", "2">> /\ Contains(text, Semicolon) /\ Rest(text) # <<"?">> /\ Valid64(Rest(text))
             nA == num = <<"1", "3", "3">> /\ Part(text) = <<"A">>
             nD == num = <<"1", "3", "3">> /\ Part(text) = <<"D">>
  <2>1. OscDone(t) = CASE num \in {<<"0">>, <<"1">>, <<"2">>} -> [v EXCEPT !.sinks.title = text]
                       [] n7 -> [v EXCEPT !.sinks.cwd = path]
                       [] n52 -> [v EXCEPT !.sinks.clipboard = data]
                       [] nA -> On(v, MarkPrompt(v.scr))
                       [] nD -> On(v, MarkCmdExit(v.scr, exit))
                       [] OTHER -> v
    BY DEF OscDone
  <2>2. OscDone(u) = CASE num \in {<<"0">>, <<"1">>, <<"2">>} -> [w EXCEPT !.sinks.title = text]
                       [] n7 -> [w EXCEPT !.sinks.cwd = path]
                       [] n52 -> [w EXCEPT !.sinks.clipboard = data]
                       [] nA -> On(w, MarkPrompt(w.scr))
                       [] nD -> On(w, MarkCmdExit(w.scr, exit))
                       [] OTHER -> w
    BY <1>2 DEF OscDone
  <2>3. num \in {<<"0">>, <<"1">>, <<"2">>} => ~n7 /\ ~n52 /\ ~nA /\ ~nD
    OBVIOUS
  <2>4. /\ n7 => ~n52 /\ ~nA /\ ~nD
        /\ n52 => ~nA /\ ~nD
    OBVIOUS
  <2>5. nA => ~nD
    OBVIOUS
  <2> HIDE DEF v, w, text, path, data, num, exit, n7, n52, nA, nD
  <2> QED BY <2>1, <2>2, <2>3, <2>4, <2>5
<1> HIDE DEF v, w, text, path, data
<1>7. v.scr = w.scr
  BY <1>1, EchoFields
<1>8. /\ Echo(c, [v EXCEPT !.sinks.title = text], [w EXCEPT !.sinks.title = text])
      /\ Echo(c, [v EXCEPT !.sinks.cwd = path], [w EXCEPT !.sinks.cwd = path])
      /\ Echo(c, [v EXCEPT !.sinks.clipboard = data], [w EXCEPT !.sinks.clipboard = data])
  BY <1>1, <1>5, ReportEcho
<1>9. ASSUME NEW s PROVE Echo(c, On(v, s), On(w, s))
  BY <1>1, EchoOn
<1> QED BY <1>1, <1>6, <1>7, <1>8, <1>9

\* A byte of one,
LEMMA OscEcho ==
  ASSUME NEW c, NEW t, NEW u, Echo(c, t, u), NEW b, b # "none" PROVE Echo(c, Osc(t, b), Osc(u, b))
<1>1. CASE b \in {"BEL", "ESC"}
  BY <1>1, OscDoneEcho, EchoGoto DEF Osc
<1>2. CASE b \notin {"BEL", "ESC"}
  <2> DEFINE q == Append(t.osc, b)
  <2>1. t.osc = u.osc /\ Pure(t.osc)
    BY EchoFields DEF Echo
  <2>2. Osc(t, b) = [t EXCEPT !.osc = q] /\ Osc(u, b) = [u EXCEPT !.osc = q]
    BY <1>2, <2>1 DEF Osc
  <2>3. Pure(q)
    BY <2>1, PureAppend
  <2> HIDE DEF q
  <2>4. Echo(c, [t EXCEPT !.osc = q], [u EXCEPT !.osc = q])
    BY <2>3, EchoOsc
  <2> QED BY <2>2, <2>4
<1> QED BY <1>1, <1>2

\* the byte after ESC in it,
LEMMA OscEscEcho ==
  ASSUME NEW c, NEW t, NEW u, Echo(c, t, u), NEW b PROVE Echo(c, OscEsc(t, b), OscEsc(u, b))
<1> DEFINE v == Goto(t, "Esc")
           w == Goto(u, "Esc")
<1>1. Echo(c, v, w)
  BY EchoGoto
<1> HIDE DEF v, w
<1>2. Echo(c, Escape(v, b), Escape(w, b))
  BY <1>1, EscapeEcho
<1>3. Echo(c, OscDone(t), OscDone(u))
  BY OscDoneEcho
<1> QED BY <1>2, <1>3 DEF OscEsc, v, w

\* and a byte of a string that is skipped.
LEMMA StrConsumeEcho ==
  ASSUME NEW c, NEW t, NEW u, Echo(c, t, u), NEW b
  PROVE  Echo(c, StrConsume(t, b), StrConsume(u, b))
<1>1. ASSUME NEW st PROVE Echo(c, Goto(t, st), Goto(u, st))
  BY EchoGoto
<1>2. Echo(c, [Goto(t, "OscEsc") EXCEPT !.osc = <<>>], [Goto(u, "OscEsc") EXCEPT !.osc = <<>>])
  BY <1>1, PureEmpty, EchoOsc
<1> QED BY <1>1, <1>2 DEF StrConsume

\* Terminals alike stay so at every byte,
LEMMA StepEcho ==
  ASSUME NEW c, NEW t, NEW u, Echo(c, t, u), t.state \in ParserStates, NEW b, b # "none"
  PROVE  Echo(c, Step(t, b), Step(u, b))
<1>1. t.state = u.state
  BY EchoFields
<1>2. /\ Echo(c, Ground(t, b), Ground(u, b)) /\ Echo(c, Escape(t, b), Escape(u, b))
      /\ Echo(c, EscapeIntermediate(t, b), EscapeIntermediate(u, b))
      /\ Echo(c, Csi(t, b), Csi(u, b)) /\ Echo(c, CsiIntermediate(t, b), CsiIntermediate(u, b))
  BY GroundEcho, EscapeEcho, EscapeIntermediateEcho, CsiEcho, CsiIntermediateEcho
<1>3. /\ Echo(c, Osc(t, b), Osc(u, b)) /\ Echo(c, OscEsc(t, b), OscEsc(u, b))
      /\ Echo(c, StrConsume(t, b), StrConsume(u, b))
  BY OscEcho, OscEscEcho, StrConsumeEcho
<1> QED BY <1>1, <1>2, <1>3 DEF Step, ParserStates

\* on the short way for plain text too.
LEMMA ParseByteEcho ==
  ASSUME NEW c, NEW t, NEW u, Echo(c, t, u), t.state \in ParserStates, NEW b, b # "none"
  PROVE  Echo(c, ParseByte(t, b), ParseByte(u, b))
<1>1. t.state = u.state /\ t.need = u.need
  BY EchoFields
<1>2. Echo(c, PrintAscii(t, b), PrintAscii(u, b)) /\ Echo(c, Step(t, b), Step(u, b))
  BY PrintAsciiEcho, StepEcho
<1> QED BY <1>1, <1>2 DEF ParseByte

---------------------------------------------------------------------------
(* One chunk, and a chunk cut in two.                                      *)

Fresh(t) == [t EXCEPT !.sinks = NoSinks]
Report(u) ==
  [u EXCEPT !.respond = u.respond \o u.sinks.respond, !.title = Newest(u.sinks.title, u.title),
            !.cwd = Newest(u.sinks.cwd, u.cwd), !.clipboard = Newest(u.sinks.clipboard, u.clipboard),
            !.sinks = [u.sinks EXCEPT !.title = None, !.cwd = None, !.clipboard = None]]

\* A chunk is parsed and then reported.
LEMMA FeedReports ==
  ASSUME NEW t, NEW data PROVE TermFeed(t, data) = Report(Parse(Fresh(t), data))
  BY DEF TermFeed, Report, Fresh, Newest

\* What a report does to the fields of a terminal.
LEMMA ReportFields ==
  ASSUME NEW u, IsTerm(u)
  PROVE  /\ IsTerm(Report(u)) /\ \A f \in Core : Report(u)[f] = u[f]
         /\ Report(u).respond = u.respond \o u.sinks.respond
         /\ Report(u).title = Newest(u.sinks.title, u.title)
         /\ Report(u).cwd = Newest(u.sinks.cwd, u.cwd)
         /\ Report(u).clipboard = Newest(u.sinks.clipboard, u.clipboard)
<1> DEFINE r == u.respond \o u.sinks.respond
           ti == Newest(u.sinks.title, u.title)
           cw == Newest(u.sinks.cwd, u.cwd)
           cl == Newest(u.sinks.clipboard, u.clipboard)
           si == [u.sinks EXCEPT !.title = None, !.cwd = None, !.clipboard = None]
           v == [u EXCEPT !.respond = r, !.title = ti, !.cwd = cw, !.clipboard = cl, !.sinks = si]
<1>1. Report(u) = v
  BY DEF Report
<1> HIDE DEF r, ti, cw, cl, si
<1>2. IsTerm(v) /\ v.respond = r /\ v.title = ti /\ v.cwd = cw /\ v.clipboard = cl
  BY DEF IsTerm, Map, TermFields
<1>3. \A f \in Core : v[f] = u[f]
  BY DEF IsTerm, Map, TermFields, Core, Outside
<1> HIDE DEF v
<1> QED BY <1>1, <1>2, <1>3 DEF r, ti, cw, cl

\* Emptied sinks change nothing else.
LEMMA FreshFields ==
  ASSUME NEW t, IsTerm(t)
  PROVE  IsTerm(Fresh(t)) /\ Fresh(t).sinks = NoSinks /\ \A f \in TermFields \ {"sinks"} : Fresh(t)[f] = t[f]
  BY DEF Fresh, IsTerm, Map, TermFields

\* Empty sinks.
LEMMA NoSinksFields ==
  /\ IsSinks(NoSinks) /\ NoSinks.respond = <<>> /\ NoSinks.title = None /\ NoSinks.cwd = None
  /\ NoSinks.clipboard = None
<1>1. /\ NoSinks.respond = <<>> /\ NoSinks.title = None /\ NoSinks.cwd = None
      /\ NoSinks.clipboard = None /\ Map(NoSinks) /\ DOMAIN NoSinks = SinkFields
  BY DEF NoSinks, Map, SinkFields
<1>2. <<>> \in Seq({})
  OBVIOUS
<1> QED BY <1>1, <1>2 DEF IsSinks, Listed

\* Nothing added to a sequence is that sequence.
LEMMA NoListing == ASSUME NEW q, Listed(q) PROVE <<>> \o q = q /\ q \o <<>> = q
<1>1. PICK T : q \in Seq(T)
  BY DEF Listed
<1> QED BY <1>1

\* Nothing reported before or after is what was reported.
LEMMA JoinNothing ==
  ASSUME NEW r, IsSinks(r) PROVE Join(NoSinks, r) = r /\ Join(r, NoSinks) = r
<1> DEFINE j == Join(NoSinks, r)
           k == Join(r, NoSinks)
           no == NoSinks
           q == r.respond
<1>1. /\ j.respond = no.respond \o r.respond /\ j.title = Newest(r.title, no.title)
      /\ j.cwd = Newest(r.cwd, no.cwd) /\ j.clipboard = Newest(r.clipboard, no.clipboard)
      /\ Map(j) /\ DOMAIN j = SinkFields
  BY JoinFields
<1>2. /\ k.respond = r.respond \o no.respond /\ k.title = Newest(no.title, r.title)
      /\ k.cwd = Newest(no.cwd, r.cwd) /\ k.clipboard = Newest(no.clipboard, r.clipboard)
      /\ Map(k) /\ DOMAIN k = SinkFields
  BY JoinFields
<1>3. no.respond = <<>> /\ no.title = None /\ no.cwd = None /\ no.clipboard = None
  BY NoSinksFields
<1> HIDE DEF j, k, no
<1>4. <<>> \o q = q /\ q \o <<>> = q
  <2>1. Listed(q)
    BY DEF IsSinks
  <2> HIDE DEF q
  <2> QED BY <2>1, NoListing
<1>5. Map(r) /\ DOMAIN r = SinkFields
  BY DEF IsSinks
<1>6. j = r
  BY <1>1, <1>3, <1>4, <1>5, SameSinks DEF Newest
<1>7. k = r
  BY <1>2, <1>3, <1>4, <1>5, SameSinks DEF Newest
<1> QED BY <1>6, <1>7 DEF j, k, no

\* What was reported before a chunk, by a terminal that is v outside and one that is w.
After3(p, v, w) == <<p, v, w>>

\* The parts of that.
LEMMA After3Fields ==
  ASSUME NEW p, NEW v, NEW w
  PROVE  After3(p, v, w)[1] = p /\ After3(p, v, w)[2] = v /\ After3(p, v, w)[3] = w
  BY DEF After3

\* A terminal before a chunk is like itself.
LEMMA FreshEcho ==
  ASSUME NEW t, IsTerm(t), Pure(t.osc) PROVE Echo(After3(NoSinks, t, t), Fresh(t), Fresh(t))
<1> DEFINE c == After3(NoSinks, t, t)
           u == Fresh(t)
<1>1. c[1] = NoSinks /\ c[2] = t /\ c[3] = t
  BY After3Fields
<1>2. IsTerm(u) /\ u.sinks = NoSinks /\ \A f \in TermFields \ {"sinks"} : u[f] = t[f]
  BY FreshFields
<1> HIDE DEF c, u
<1>3. Outer(c, u, u)
  BY <1>1, <1>2 DEF Outer, Outside, TermFields
<1>4. Alike(u, u)
  BY <1>2 DEF Alike
<1>5. u.osc = t.osc
  BY <1>2 DEF TermFields
<1>6. IsSinks(NoSinks) /\ Join(NoSinks, NoSinks) = NoSinks /\ Listed(NoSinks.respond)
  BY NoSinksFields, JoinNothing DEF IsSinks
<1>7. Echo(c, u, u)
  BY <1>1, <1>2, <1>3, <1>4, <1>5, <1>6 DEF Echo
<1> QED BY <1>7 DEF c, u

\* A pure string is a sequence, and none of its elements is the mark for an
\* empty sink.
LEMMA PureBytes ==
  ASSUME NEW q, Pure(q)
  PROVE  Listed(q) /\ Len(q) \in Nat /\ DOMAIN q = 1 .. Len(q) /\ \A i \in 1 .. Len(q) : q[i] # "none"
  BY DEF Pure, Listed

\* Output is pure.
LEMMA OutputPure == ASSUME NEW q, IsOutput(q) PROVE Pure(q)
  BY DEF IsOutput, Pure

\* Emptied sinks leave a terminal well.
LEMMA FreshWell == ASSUME NEW t, Well(t) PROVE Well(Fresh(t))
<1>1. Apart(t, Fresh(t), IdleFields)
  BY WellFacts DEF Apart, IdleFields, TermFields, IsTerm, Map, Fresh
<1> QED BY <1>1, IdleWell DEF Stays

\* Two terminals alike are so after any bytes.
LEMMA ParseEcho ==
  ASSUME NEW c, NEW t, NEW u, Echo(c, t, u), Well(t), NEW q, Pure(q)
  PROVE  Well(Parse(t, q)) /\ Echo(c, Parse(t, q), Parse(u, q))
<1>1. Len(q) \in Nat /\ DOMAIN q = 1 .. Len(q) /\ \A i \in 1 .. Len(q) : q[i] # "none"
  BY PureBytes
<1>2. PICK f : Parsing!Trace(0, f, t, q) /\ Parsing!Fold(0, t, q) = f[Len(q)]
  BY <1>1, Parsing!FoldTrace
<1>3. PICK h : Parsing!Trace(0, h, u, q) /\ Parsing!Fold(0, u, q) = h[Len(q)]
  BY <1>1, Parsing!FoldTrace
<1> DEFINE S == {k \in Nat : k <= Len(q) => Well(f[k]) /\ Echo(c, f[k], h[k])}
<1>4. 0 \in S
  BY <1>2, <1>3 DEF Parsing!Trace
<1>5. ASSUME NEW k \in Nat, k \in S PROVE k + 1 \in S
  <2> SUFFICES ASSUME k + 1 <= Len(q) PROVE Well(f[k + 1]) /\ Echo(c, f[k + 1], h[k + 1])
    OBVIOUS
  <2>1. k + 1 \in 1 .. Len(q) /\ k <= Len(q) /\ (k + 1) - 1 = k
    BY <1>1
  <2> DEFINE v == f[k]
             w == h[k]
             b == q[k + 1]
  <2>2. Well(v) /\ Echo(c, v, w)
    BY <1>5, <2>1
  <2>3. f[k + 1] = ParseByte(v, b) /\ h[k + 1] = ParseByte(w, b)
    BY <1>2, <1>3, <2>1 DEF Parsing!Trace, ByteOp
  <2>4. b # "none"
    BY <1>1, <2>1
  <2> HIDE DEF v, w, b
  <2>5. v.state \in ParserStates
    BY <2>2, WellFacts
  <2>6. Well(ParseByte(v, b)) /\ Echo(c, ParseByte(v, b), ParseByte(w, b))
    BY <2>2, <2>4, <2>5, ParseByteWell, ParseByteEcho
  <2> QED BY <2>3, <2>6
<1>6. Nat \subseteq S
  <2> HIDE DEF S
  <2> QED BY <1>4, <1>5, Parsing!SetInduction
<1>7. Well(f[Len(q)]) /\ Echo(c, f[Len(q)], h[Len(q)])
  BY <1>1, <1>6
<1> QED BY <1>2, <1>3, <1>7, ParseIsFold

\* To parse a chunk is to parse its beginning and then its end.
LEMMA ParseCut ==
  ASSUME NEW t, NEW q, Pure(q), NEW k \in 1 .. Len(q) - 1
  PROVE  /\ Parse(t, q) = Parse(Parse(t, SubSeq(q, 1, k)), SubSeq(q, k + 1, Len(q)))
         /\ Pure(SubSeq(q, 1, k)) /\ Pure(SubSeq(q, k + 1, Len(q)))
<1>1. PICK T : q \in Seq(T) /\ "none" \notin T
  BY DEF Pure
<1>2. k \in 0 .. Len(q) /\ Len(q) \in Nat /\ k + 1 \in Nat \ {0} /\ k \in Nat /\ k <= Len(q)
  BY <1>1
<1> DEFINE n == Len(q)
           a == SubSeq(q, 1, k)
           m == k + 1
           b == SubSeq(q, m, n)
           u == Parsing!Fold(0, t, a)
<1>3. Parsing!Fold(0, t, q) = Parsing!Fold(0, Parsing!Fold(0, t, a), SubSeq(q, k + 1, Len(q)))
  BY <1>1, <1>2, Parsing!FoldCut
<1>4. Parse(t, q) = Parsing!Fold(0, t, q) /\ Parse(t, a) = Parsing!Fold(0, t, a)
  BY ParseIsFold
<1>5. Parse(u, b) = Parsing!Fold(0, u, b)
  BY ParseIsFold
<1>6. Pure(a) /\ Pure(b)
  <2>1. Pure(SubSeq(q, 1, k))
    BY <1>2, PureCut
  <2>2. m \in Nat \ {0} /\ n \in Nat /\ n <= Len(q)
    BY <1>2
  <2> HIDE DEF m, n
  <2>3. Pure(SubSeq(q, m, n))
    BY <2>2, PureCut
  <2> QED BY <2>1, <2>3
<1> QED BY <1>3, <1>4, <1>5, <1>6

\* What a chunk leaves in the parser before it is reported.
LEMMA FeedAlone ==
  ASSUME NEW t, Well(t), Pure(t.osc), NEW q, Pure(q), NEW m, m = Parse(Fresh(t), q)
  PROVE  Well(m) /\ IsSinks(m.sinks) /\ Pure(m.osc) /\ \A f \in Outside : m[f] = t[f]
<1> DEFINE c == After3(NoSinks, t, t)
           v == Fresh(t)
<1>1. Echo(c, v, v) /\ Well(v)
  BY WellFacts, FreshEcho, FreshWell
<1>2. c[2] = t
  BY After3Fields
<1> HIDE DEF c, v
<1>3. Well(Parse(v, q)) /\ Echo(c, Parse(v, q), Parse(v, q))
  BY <1>1, ParseEcho
<1>4. Well(m) /\ Echo(c, m, m)
  BY <1>3 DEF v
<1> QED BY <1>2, <1>4 DEF Echo, Outer

\* The newest of three.
LEMMA NewestTwice == \A x, y, z : Newest(Newest(x, y), z) = Newest(x, Newest(y, z))
  BY DEF Newest

\* Concatenation is associative.
LEMMA ListedConcat ==
  ASSUME NEW p, Listed(p), NEW q, Listed(q), NEW r, Listed(r) PROVE p \o (q \o r) = (p \o q) \o r
<1>1. PICK A, B, C : p \in Seq(A) /\ q \in Seq(B) /\ r \in Seq(C)
  BY DEF Listed
<1> DEFINE U == A \cup B \cup C
<1>2. p \in Seq(U) /\ q \in Seq(U) /\ r \in Seq(U)
  BY <1>1
<1> HIDE DEF U
<1> QED BY <1>2, ConcatAssociative

\* Terminals are equal up to the sinks when all their other fields are.
LEMMA SameTerm ==
  ASSUME NEW v, NEW w, IsTerm(v), IsTerm(w), \A f \in Core : v[f] = w[f], \A f \in Outside : v[f] = w[f]
  PROVE  Fresh(v) = Fresh(w)
<1> DEFINE x == Fresh(v)
           y == Fresh(w)
<1>1. /\ IsTerm(x) /\ x.sinks = NoSinks /\ \A f \in TermFields \ {"sinks"} : x[f] = v[f]
      /\ IsTerm(y) /\ y.sinks = NoSinks /\ \A f \in TermFields \ {"sinks"} : y[f] = w[f]
  BY FreshFields
<1> HIDE DEF x, y
<1>2. \A f \in TermFields : x[f] = y[f]
  <2> TAKE f \in TermFields
  <2>1. f \in Core \/ f \in Outside \/ f = "sinks"
    BY DEF Core
  <2>2. f # "sinks" => x[f] = v[f] /\ y[f] = w[f]
    BY <1>1
  <2> QED BY <1>1, <2>1, <2>2
<1>3. x = y
  BY <1>1, <1>2 DEF IsTerm, Map
<1> QED BY <1>3 DEF x, y

\* A chunk fed in two parts leaves what the whole leaves.
LEMMA CutFeed ==
  ASSUME NEW d, Well(d), Pure(d.osc), d.respond = <<>>, NEW q, Pure(q), NEW k \in 1 .. Len(q) - 1
  PROVE  Fresh(TermFeed(TermFeed(d, SubSeq(q, 1, k)), SubSeq(q, k + 1, Len(q)))) = Fresh(TermFeed(d, q))
<1> DEFINE a == SubSeq(q, 1, k)
           b == SubSeq(q, k + 1, Len(q))
           s == Fresh(d)
           m == Parse(s, a)
           m1 == Report(m)
           s1 == Fresh(m1)
           u == Parse(m, b)
           v == Parse(s1, b)
           ms == m.sinks
           c == After3(ms, d, m1)
<1>1. Pure(a) /\ Pure(b) /\ Parse(s, q) = u
  BY ParseCut
<1> HIDE DEF a, b
<1>2. /\ TermFeed(d, q) = Report(u) /\ TermFeed(d, a) = m1 /\ TermFeed(m1, b) = Report(v)
  BY <1>1, FeedReports
<1>3. Well(m) /\ IsSinks(ms) /\ Pure(m.osc) /\ \A f \in Outside : m[f] = d[f]
  BY <1>1, FeedAlone
<1> HIDE DEF s, m
<1>4. /\ IsTerm(m1) /\ \A f \in Core : m1[f] = m[f]
      /\ m1.respond = m.respond \o m.sinks.respond /\ m1.title = Newest(m.sinks.title, m.title)
      /\ m1.cwd = Newest(m.sinks.cwd, m.cwd)
      /\ m1.clipboard = Newest(m.sinks.clipboard, m.clipboard)
  BY <1>3, WellFacts, ReportFields
<1> HIDE DEF m1
<1>5. IsTerm(s1) /\ s1.sinks = NoSinks /\ \A f \in TermFields \ {"sinks"} : s1[f] = m1[f]
  BY <1>4, FreshFields
<1>6. c[1] = ms /\ c[2] = d /\ c[3] = m1
  BY After3Fields
<1> HIDE DEF s1, c
<1>7. Echo(c, m, s1)
  <2>1. Alike(m, s1)
    BY <1>3, <1>4, <1>5, WellFacts DEF Alike, Core
  <2>2. Outer(c, m, s1)
    BY <1>3, <1>5, <1>6 DEF Outer, Outside, TermFields
  <2>3. IsSinks(NoSinks) /\ Join(ms, NoSinks) = ms /\ Listed(ms.respond)
    BY <1>3, NoSinksFields, JoinNothing DEF IsSinks
  <2> HIDE DEF ms
  <2>4. IsSinks(s1.sinks) /\ ms = Join(c[1], s1.sinks) /\ Listed(c[1].respond)
    BY <1>5, <1>6, <2>3
  <2> QED BY <1>3, <2>1, <2>2, <2>4 DEF Echo, ms
<1>8. Echo(c, u, v)
  BY <1>1, <1>3, <1>7, ParseEcho
<1> HIDE DEF u, v
<1> DEFINE us == u.sinks
           vs == v.sinks
           x == Report(u)
           y == Report(v)
<1>9. /\ IsTerm(x) /\ \A f \in Core : x[f] = u[f]
      /\ x.respond = u.respond \o us.respond /\ x.title = Newest(us.title, u.title)
      /\ x.cwd = Newest(us.cwd, u.cwd) /\ x.clipboard = Newest(us.clipboard, u.clipboard)
  BY <1>8, EchoFields, ReportFields
<1>10. /\ IsTerm(y) /\ \A f \in Core : y[f] = v[f]
       /\ y.respond = v.respond \o vs.respond /\ y.title = Newest(vs.title, v.title)
       /\ y.cwd = Newest(vs.cwd, v.cwd) /\ y.clipboard = Newest(vs.clipboard, v.clipboard)
  BY <1>8, EchoFields, ReportFields
<1>11. /\ us = Join(ms, vs) /\ IsSinks(vs) /\ Listed(ms.respond)
       /\ \A f \in Outside : u[f] = d[f] /\ v[f] = m1[f]
       /\ \A f \in Core : u[f] = v[f]
  BY <1>6, <1>8 DEF Echo, Outer, Alike
<1> HIDE DEF us, vs, x, y
<1>12. /\ us.respond = ms.respond \o vs.respond /\ us.title = Newest(vs.title, ms.title)
       /\ us.cwd = Newest(vs.cwd, ms.cwd) /\ us.clipboard = Newest(vs.clipboard, ms.clipboard)
  BY <1>11, JoinFields
<1>13. /\ u.respond = <<>> /\ u.title = d.title /\ u.cwd = d.cwd /\ u.clipboard = d.clipboard
       /\ v.respond = m1.respond /\ v.title = m1.title /\ v.cwd = m1.cwd
       /\ v.clipboard = m1.clipboard
       /\ m.respond = <<>> /\ m.title = d.title /\ m.cwd = d.cwd /\ m.clipboard = d.clipboard
  BY <1>3, <1>11 DEF Outside
<1>14. x.respond = y.respond
  <2> DEFINE p == ms.respond
             r == vs.respond
  <2>1. Listed(p) /\ Listed(r)
    BY <1>11 DEF IsSinks
  <2>2. x.respond = <<>> \o (p \o r) /\ y.respond = (<<>> \o p) \o r
    BY <1>4, <1>9, <1>10, <1>12, <1>13
  <2> HIDE DEF p, r
  <2>3. Listed(<<>>)
    BY NoSinksFields DEF IsSinks
  <2>4. <<>> \o (p \o r) = (<<>> \o p) \o r
    BY <2>1, <2>3, ListedConcat
  <2> QED BY <2>2, <2>4
<1>15. x.title = y.title /\ x.cwd = y.cwd /\ x.clipboard = y.clipboard
  <2>1. /\ x.title = Newest(Newest(vs.title, ms.title), d.title)
        /\ y.title = Newest(vs.title, Newest(ms.title, d.title))
    BY <1>4, <1>9, <1>10, <1>12, <1>13
  <2>2. /\ x.cwd = Newest(Newest(vs.cwd, ms.cwd), d.cwd)
        /\ y.cwd = Newest(vs.cwd, Newest(ms.cwd, d.cwd))
    BY <1>4, <1>9, <1>10, <1>12, <1>13
  <2>3. /\ x.clipboard = Newest(Newest(vs.clipboard, ms.clipboard), d.clipboard)
        /\ y.clipboard = Newest(vs.clipboard, Newest(ms.clipboard, d.clipboard))
    BY <1>4, <1>9, <1>10, <1>12, <1>13
  <2> QED BY <2>1, <2>2, <2>3, NewestTwice
<1>16. \A f \in Outside : x[f] = y[f]
  BY <1>14, <1>15 DEF Outside
<1>17. \A f \in Core : x[f] = y[f]
  BY <1>9, <1>10, <1>11
<1>18. Fresh(y) = Fresh(x)
  BY <1>9, <1>10, <1>16, <1>17, SameTerm
<1> QED BY <1>2, <1>18 DEF x, y, a, b

---------------------------------------------------------------------------
(* The collected string is always a sequence of bytes.                     *)

Clean(t) == Well(t) /\ Pure(t.osc)

\* A chunk keeps the collected string pure,
LEMMA FeedClean == ASSUME NEW t, Clean(t), NEW q, Pure(q) PROVE Clean(TermFeed(t, q))
<1> DEFINE m == Parse(Fresh(t), q)
<1>1. Well(m) /\ Pure(m.osc)
  BY FeedAlone DEF Clean
<1> HIDE DEF m
<1>2. Report(m).osc = m.osc
  <2>1. "osc" \in Core
    BY DEF Core, TermFields, Outside
  <2> QED BY <1>1, <2>1, WellFacts, ReportFields
<1>3. TermFeed(t, q) = Report(m)
  BY FeedReports DEF m
<1>4. Well(TermFeed(t, q))
  BY PureBytes, TermFeedWell DEF Clean
<1> QED BY <1>1, <1>2, <1>3, <1>4 DEF Clean

\* and so does draining the replies.
LEMMA DrainedClean ==
  ASSUME NEW t, Clean(t) PROVE Clean(Drained(t)) /\ Drained(t).respond = <<>>
<1>1. Drained(t).osc = t.osc /\ Drained(t).respond = <<>>
  BY WellFacts DEF Clean, Drained, IsTerm, Map, TermFields
<1> QED BY <1>1, DrainedWell DEF Clean, Stays
CleanInv(c, k, v) == Clean(v)
Cleaning == INSTANCE FoldLaw WITH Op <- FeedOp, Inv <- CleanInv
VtClean == Clean(term)

\* It is pure after any prologue,
LEMMA CleanInit == ASSUME Init PROVE VtClean
<1>1. PICK p \in Prologues : term = Drained(FoldLeft(TermFeed, NewTerminal, p))
  BY DEF Init
<1>2. p \in Seq(Range(p)) /\ \A c \in Range(p) : Pure(c)
  BY VtAssumption, OutputPure
<1>3. Len(p) \in Nat /\ DOMAIN p = 1 .. Len(p)
  BY <1>2
<1>4. FoldLeft(TermFeed, NewTerminal, p) = Cleaning!Fold(0, NewTerminal, p)
  BY DEF FeedOp, Cleaning!Fold, FoldLeft, Cleaning!FoldLeft, MapThenFoldSet,
     Cleaning!MapThenFoldSet,
         Max, Cleaning!Max
<1>5. CleanInv(0, 0, NewTerminal)
  BY NewTerminalWell, PureEmpty DEF CleanInv, Clean, NewTerminal
<1>6. ASSUME NEW v, NEW k \in 1 .. Len(p), CleanInv(0, k - 1, v)
      PROVE  CleanInv(0, k, FeedOp(0, v, p[k]))
  <2>1. p[k] \in Range(p)
    BY <1>3 DEF Range
  <2> QED BY <1>2, <1>6, <2>1, FeedClean DEF CleanInv, FeedOp
<1>7. CleanInv(0, Len(p), Cleaning!Fold(0, NewTerminal, p))
  BY <1>3, <1>5, <1>6, Cleaning!FoldKeeps
<1> QED BY <1>1, <1>4, <1>7, DrainedClean DEF CleanInv, VtClean

\* and stays so.
LEMMA CleanNext == ASSUME VtInv, VtClean, [Next]_vars PROVE VtClean'
<1>1. CASE UNCHANGED vars
  BY <1>1 DEF VtClean, vars
<1>2. CASE Next
  <2>1. Clean(Drained(term)) /\ IsTerm(Drained(term))
    BY DrainedClean, WellFacts DEF VtClean, Clean
  <2>2. ASSUME NEW c \in Chunks, Feed(c) PROVE Clean(term')
    BY <2>1, <2>2, VtAssumption, OutputPure, FeedClean DEF Feed
  <2>3. ASSUME NEW size \in Sizes, ResizeTo(size) PROVE Clean(term')
    <3>1. VtInv'
      BY <1>2, VtNext
    <3>2. term'.osc = Drained(term).osc
      BY <2>1, <2>3 DEF ResizeTo, On, IsTerm, Map, TermFields
    <3> QED BY <2>1, <3>1, <3>2 DEF VtInv, Clean
  <2> QED BY <1>2, <2>2, <2>3 DEF Next, VtClean
<1> QED BY <1>1, <1>2

\* So no step depends on where its chunk is cut.
LEMMA VtCut == ASSUME VtClean, [Next]_vars PROVE [\A k \in 1 .. Len(input') - 1 :
          [TermFeed(TermFeed(Drained(term), SubSeq(input', 1, k)),
                    SubSeq(input', k + 1, Len(input'))) EXCEPT !.sinks = NoSinks]
          = [term' EXCEPT !.sinks = NoSinks]]_vars
<1> SUFFICES ASSUME Next, NEW k \in 1 .. Len(input') - 1
             PROVE  Fresh(TermFeed(TermFeed(Drained(term), SubSeq(input', 1, k)),
                                   SubSeq(input', k + 1, Len(input')))) = Fresh(term')
  BY DEF Fresh
<1>1. Well(Drained(term)) /\ Pure(Drained(term).osc) /\ Drained(term).respond = <<>>
  BY DrainedClean DEF VtClean, Clean
<1>2. ASSUME NEW size \in Sizes, ResizeTo(size) PROVE FALSE
  BY <1>2 DEF ResizeTo
<1>3. PICK c \in Chunks : Feed(c)
  BY <1>2 DEF Next
<1> DEFINE d == Drained(term)
<1>4. Pure(c) /\ input' = c /\ term' = TermFeed(d, c)
  BY <1>3, VtAssumption, OutputPure DEF Feed
<1> HIDE DEF d
<1>5. k \in 1 .. Len(c) - 1
  BY <1>4
<1>6. Fresh(TermFeed(TermFeed(d, SubSeq(c, 1, k)), SubSeq(c, k + 1, Len(c)))) = Fresh(TermFeed(d, c))
  BY <1>1, <1>4, <1>5, CutFeed DEF d
<1> QED BY <1>4, <1>6 DEF d

\* Wherever a chunk is cut, in a sequence, a number, a string or a character,
\* the terminal, its replies and its reports are those of the whole chunk.
THEOREM CutsDoNotMatter == Spec => ChunksDoNotMatter
<1>1. Init => VtInv /\ VtClean
  BY VtInit, CleanInit
<1>2. VtInv /\ VtClean /\ [Next]_vars => (VtInv /\ VtClean)'
  BY VtNext, CleanNext
<1> QED BY <1>1, <1>2, VtCut, PTL DEF Spec, ChunksDoNotMatter

---------------------------------------------------------------------------
(* Search.                                                                 *)

\* Numbers in ascending order, and whether one is among them.
Rising(v) == \A i, j \in 1 .. Len(v) : i < j => v[i] < v[j]
Among(v, c) == \E i \in 1 .. Len(v) : v[i] = c
ColOp(c, v, x) == Keep(c, v, x)
\* After k columns the sequence v has those of them that are in c.
ColInv(c, k, v) ==
  /\ v \in Seq(0 .. k - 1) /\ Rising(v)
  /\ \A x \in 0 .. k - 1 : x \in c <=> Among(v, x)
Listing == INSTANCE FoldLaw WITH Op <- ColOp, Inv <- ColInv

\* The columns of a set in ascending order.
Ordered(v, S, n) == v \in Seq(0 .. n - 1) /\ Rising(v) /\ \A x \in 0 .. n - 1 : x \in S <=> Among(v, x)

\* One more column keeps the sequence so.
LEMMA OneColumn ==
  ASSUME NEW S, NEW k \in Nat \ {0}, NEW v, Ordered(v, S, k - 1)
  PROVE  Ordered(Keep(S, v, k - 1), S, k)
<1>1. v \in Seq(0 .. k - 1) /\ Rising(v) /\ Len(v) \in Nat
      /\ \A i \in 1 .. Len(v) : v[i] \in 0 .. k - 2
  BY DEF Ordered
<1>2. CASE k - 1 \notin S
  <2>1. Keep(S, v, k - 1) = v
    BY <1>2 DEF Keep
  <2>2. \A x \in 0 .. k - 1 : x \in S <=> Among(v, x)
    BY SMTT(20), <1>1, <1>2 DEF Ordered, Among
  <2> QED BY <1>1, <2>1, <2>2 DEF Ordered
<1>3. CASE k - 1 \in S
  <2> DEFINE w == Append(v, k - 1)
  <2>1. Keep(S, v, k - 1) = w
    BY <1>3 DEF Keep
  <2>2. w \in Seq(0 .. k - 1) /\ Len(w) = Len(v) + 1 /\ w[Len(v) + 1] = k - 1
        /\ \A i \in 1 .. Len(v) : w[i] = v[i]
    BY <1>1
  <2> HIDE DEF w
  <2>a. Len(v) \in Nat /\ Len(w) = Len(v) + 1
    BY <1>1, <2>2
  <2>b. ASSUME NEW i \in 1 .. Len(w), i # Len(v) + 1 PROVE i \in 1 .. Len(v)
    BY <2>a, <2>b
  <2>3. Rising(w)
    <3> SUFFICES ASSUME NEW i \in 1 .. Len(w), NEW j \in 1 .. Len(w), i < j PROVE w[i] < w[j]
      BY DEF Rising
    <3>1. CASE j = Len(v) + 1
      <4>1. i \in 1 .. Len(v)
        BY <1>1, <2>2, <3>1
      <4> QED BY SMTT(20), <1>1, <2>2, <3>1, <4>1
    <3>2. CASE j # Len(v) + 1
      <4>1. i \in 1 .. Len(v) /\ j \in 1 .. Len(v)
        <5>1. i # Len(v) + 1
          BY <2>a
        <5> QED BY <2>b, <3>2, <5>1
      <4> QED BY <1>1, <2>2, <4>1 DEF Rising
    <3> QED BY <3>1, <3>2
  <2>4. ASSUME NEW x \in 0 .. k - 1 PROVE x \in S <=> Among(w, x)
    <3>1. CASE x = k - 1
      BY <1>1, <1>3, <2>2, <3>1 DEF Among
    <3>2. CASE x # k - 1
      <4>1. x \in S <=> Among(v, x)
        BY <3>2 DEF Ordered
      <4>2. ASSUME Among(v, x) PROVE Among(w, x)
        <5>1. PICK i \in 1 .. Len(v) : v[i] = x
          BY <4>2 DEF Among
        <5>2. i \in 1 .. Len(w) /\ w[i] = x
          BY <2>2, <2>a, <5>1
        <5> QED BY <5>2 DEF Among
      <4>3. ASSUME Among(w, x) PROVE Among(v, x)
        <5>1. PICK i \in 1 .. Len(w) : w[i] = x
          BY <4>3 DEF Among
        <5>2. i # Len(v) + 1
          BY <2>2, <3>2, <5>1
        <5>3. i \in 1 .. Len(v)
          BY <2>b, <5>2
        <5>4. v[i] = x
          BY <2>2, <5>1, <5>3
        <5> QED BY <5>3, <5>4 DEF Among
      <4> QED BY <4>1, <4>2, <4>3
    <3> QED BY <3>1, <3>2
  <2> QED BY <2>1, <2>2, <2>3, <2>4 DEF Ordered
<1> QED BY <1>2, <1>3

\* The columns of a line that hold text are listed from left to right.
LEMMA TextInOrder ==
  ASSUME NEW s, s.cols \in Nat, NEW line
  PROVE  Ordered(TextColumns(s, line), {c \in Columns(s) : line[c].g # "t"}, s.cols)
<1> DEFINE S == {c \in Columns(s) : line[c].g # "t"}
           all == [i \in 1 .. s.cols |-> i - 1]
<1>1. TextColumns(s, line) = Listing!Fold(S, <<>>, all)
  BY DEF TextColumns, Retained, Listing!Fold, ColOp, FoldLeft, Listing!FoldLeft, MapThenFoldSet,
         Listing!MapThenFoldSet, Max, Listing!Max
<1> HIDE DEF S
<1>2. Len(all) = s.cols /\ DOMAIN all = 1 .. s.cols /\ \A k \in 1 .. s.cols : all[k] = k - 1
  OBVIOUS
<1> HIDE DEF all
<1>3. ColInv(S, 0, <<>>)
  BY DEF ColInv, Rising
<1>4. ASSUME NEW v, NEW k \in 1 .. Len(all), ColInv(S, k - 1, v)
      PROVE  ColInv(S, k, ColOp(S, v, all[k]))
  <2>1. k \in Nat \ {0} /\ all[k] = k - 1
    BY <1>2, <1>4
  <2>2. Ordered(v, S, k - 1)
    BY <1>4 DEF ColInv, Ordered
  <2>3. Ordered(Keep(S, v, k - 1), S, k)
    BY <2>1, <2>2, OneColumn
  <2> QED BY <2>1, <2>3 DEF ColInv, ColOp, Ordered
<1>5. ColInv(S, Len(all), Listing!Fold(S, <<>>, all))
  BY <1>2, <1>3, <1>4, Listing!FoldKeeps
<1> QED BY <1>1, <1>2, <1>5 DEF ColInv, Ordered, S

---------------------------------------------------------------------------
(* The scan.                                                               *)

ScanOp(c, v, x) == Scan(c[1], c[2], c[3], v, x)
\* A find is where the needle is, at one of the first k positions.
Found(line, cs, n, m, k) ==
  \E i \in 1 .. k : Hit(line, cs, n, i) /\ m = <<cs[i], cs[i + n - 1]>>
\* m covers part of the needle at i.
Covers(cs, n, m, i) == m[1] <= cs[i + n - 1] /\ cs[i] <= m[2]
\* After k positions all finds are real, do not overlap, cover what is there, and
\* lie before the position the scan goes on from, the last one directly.
Scanned(line, cs, n, k, v) ==
  /\ Listed(v.out) /\ v.next \in 1 .. k + n
  /\ \A j \in 1 .. Len(v.out) : Found(line, cs, n, v.out[j], Least(k, v.next - n))
  /\ \A i, j \in 1 .. Len(v.out) : i < j => v.out[i][2] < v.out[j][1]
  /\ \A i \in 1 .. k : Hit(line, cs, n, i) =>
        \E j \in 1 .. Len(v.out) : Covers(cs, n, v.out[j], i)
  /\ v.next > 1 => Len(v.out) > 0 /\ v.next > n
                   /\ v.out[Len(v.out)] = <<cs[v.next - n], cs[v.next - 1]>>
ScanInv(c, k, v) == Scanned(c[1], c[2], c[3], k, v)
Scanning == INSTANCE FoldLaw WITH Op <- ScanOp, Inv <- ScanInv

\* Columns of a line, from left to right, and the length of a needle.
Line(cs, n) == cs \in Seq(Nat) /\ Rising(cs) /\ n \in Nat \ {0}

\* One position more keeps them so.
LEMMA OnePosition ==
  ASSUME NEW line, NEW cs, NEW n, Line(cs, n), NEW k \in 1 .. Len(cs) - n + 1, NEW v,
         Scanned(line, cs, n, k - 1, v)
  PROVE  Scanned(line, cs, n, k, Scan(line, cs, n, v, k))
<1> DEFINE q == v.out
           m == <<cs[k], cs[k + n - 1]>>
           w == Append(q, m)
<1>0. /\ Len(cs) \in Nat /\ \A i \in 1 .. Len(cs) : cs[i] \in Nat
      /\ \A i, j \in 1 .. Len(cs) : i < j => cs[i] < cs[j]
      /\ n \in Nat \ {0} /\ k \in Nat \ {0} /\ k + n - 1 \in 1 .. Len(cs)
  BY DEF Line, Rising
<1>1. Listed(q) /\ Len(q) \in Nat /\ v.next \in 1 .. k + n - 1
  BY <1>0, ListedLen DEF Scanned
<1>2. ASSUME NEW j \in 1 .. Len(q) PROVE \E i \in 1 .. k - 1 : i + n <= v.next
                                           /\ Hit(line, cs, n, i) /\ q[j] = <<cs[i], cs[i + n - 1]>>
  <2>1. Found(line, cs, n, q[j], Least(k - 1, v.next - n))
    BY <1>2 DEF Scanned
  <2>2. PICK i \in 1 .. Least(k - 1, v.next - n) :
             Hit(line, cs, n, i) /\ q[j] = <<cs[i], cs[i + n - 1]>>
    BY <2>1 DEF Found
  <2>3. v.next \in Nat /\ i \in 1 .. k - 1 /\ i + n <= v.next
    <3>1. CASE k - 1 < v.next - n
      <4>1. Least(k - 1, v.next - n) = k - 1
        BY <3>1 DEF Least
      <4> QED BY <1>0, <1>1, <2>2, <3>1, <4>1
    <3>2. CASE ~(k - 1 < v.next - n)
      <4>1. Least(k - 1, v.next - n) = v.next - n
        BY <3>2 DEF Least
      <4> QED BY SMTT(20), <1>0, <1>1, <2>2, <3>2, <4>1
    <3> QED BY <3>1, <3>2
  <2> QED BY <2>2, <2>3
<1>3. CASE k >= v.next /\ Hit(line, cs, n, k)
  <2>1. Scan(line, cs, n, v, k) = [out |-> w, next |-> k + n]
    BY <1>3 DEF Scan
  <2>2. Listed(w) /\ Len(w) = Len(q) + 1 /\ w[Len(q) + 1] = m /\ \A j \in 1 .. Len(q) : w[j] = q[j]
    <3>1. PICK T : q \in Seq(T)
      BY <1>1 DEF Listed
    <3> DEFINE U == T \cup {m}
    <3> HIDE DEF m
    <3>2. q \in Seq(U) /\ m \in U
      BY <3>1
    <3> HIDE DEF U
    <3>3. w \in Seq(U) /\ Len(w) = Len(q) + 1 /\ w[Len(q) + 1] = m /\ \A j \in 1 .. Len(q) : w[j] = q[j]
      BY <3>2
    <3> QED BY <3>3 DEF Listed
  <2> HIDE DEF w
  <2>3. ASSUME NEW j \in 1 .. Len(w) PROVE Found(line, cs, n, w[j], Least(k, (k + n) - n))
    <3>1. Least(k, (k + n) - n) = k
      BY <1>0 DEF Least
    <3>2. CASE j = Len(q) + 1
      BY <1>0, <1>3, <2>2, <3>1, <3>2 DEF Found
    <3>3. CASE j # Len(q) + 1
      <4>1. j \in 1 .. Len(q)
        BY <1>1, <2>2, <3>3
      <4>2. PICK i \in 1 .. k - 1 : Hit(line, cs, n, i) /\ q[j] = <<cs[i], cs[i + n - 1]>>
        BY <1>2, <4>1
      <4>3. i \in 1 .. k
        BY <1>0
      <4> QED BY <2>2, <3>1, <4>1, <4>2, <4>3 DEF Found
    <3> QED BY <3>2, <3>3
  <2>4. ASSUME NEW i \in 1 .. Len(w), NEW j \in 1 .. Len(w), i < j PROVE w[i][2] < w[j][1]
    <3>0. i \in 1 .. Len(q)
      BY <1>1, <2>2, <2>4
    <3>1. CASE j = Len(q) + 1
      <4>1. PICK a \in 1 .. k - 1 : a + n <= v.next /\ q[i] = <<cs[a], cs[a + n - 1]>>
        BY <1>2, <3>0
      <4>2. a + n - 1 \in 1 .. Len(cs) /\ k \in 1 .. Len(cs) /\ a + n - 1 < k
        BY SMTT(20), <1>0, <1>1, <1>3, <4>1
      <4>3. cs[a + n - 1] < cs[k]
        BY <1>0, <4>2
      <4> QED BY <2>2, <3>0, <3>1, <4>1, <4>3
    <3>2. CASE j # Len(q) + 1
      <4>1. j \in 1 .. Len(q)
        BY <1>1, <2>2, <3>2
      <4> QED BY <2>2, <2>4, <3>0, <4>1 DEF Scanned
    <3> QED BY <3>1, <3>2
  <2>5. ASSUME NEW i \in 1 .. k, Hit(line, cs, n, i) PROVE \E j \in 1 .. Len(w) : Covers(cs, n, w[j], i)
    <3>1. CASE i = k
      <4>1. cs[k] <= cs[k + n - 1]
        <5>1. CASE n = 1
          BY <1>0, <5>1
        <5>2. CASE n # 1
          <6>1. k < k + n - 1 /\ k \in 1 .. Len(cs)
            BY <1>0, <5>2
          <6>2. cs[k] < cs[k + n - 1]
            BY <1>0, <6>1
          <6> QED BY <1>0, <6>1, <6>2
        <5> QED BY <5>1, <5>2
      <4>2. Covers(cs, n, w[Len(q) + 1], i)
        BY <2>2, <3>1, <4>1 DEF Covers
      <4> QED BY SMTT(20), <1>1, <2>2, <4>2
    <3>2. CASE i # k
      <4>1. i \in 1 .. k - 1
        BY <1>0, <3>2
      <4>2. PICK j \in 1 .. Len(q) : Covers(cs, n, q[j], i)
        BY <2>5, <4>1 DEF Scanned
      <4>3. j \in 1 .. Len(w) /\ w[j] = q[j]
        BY <1>1, <2>2
      <4> QED BY <4>2, <4>3
    <3> QED BY <3>1, <3>2
  <2>6. k + n \in 1 .. k + n /\ k + n > n /\ Len(w) > 0 /\ w[Len(w)] = <<cs[k + n - n], cs[k + n - 1]>>
    <3>1. k + n - n = k /\ k + n \in 1 .. k + n /\ k + n > n
      BY <1>0
    <3>2. Len(w) > 0 /\ w[Len(w)] = m
      <4>1. Len(q) \in Nat
        BY <1>1
      <4> QED BY <2>2, <4>1
    <3> QED BY <3>1, <3>2
  <2> DEFINE u == [out |-> w, next |-> k + n]
  <2>7. u.out = w /\ u.next = k + n /\ u.next - n = k + n - n /\ u.next - 1 = k + n - 1
    BY <1>0
  <2> HIDE DEF u, q, m
  <2>8. Scanned(line, cs, n, k, u)
    BY <2>2, <2>3, <2>4, <2>5, <2>6, <2>7 DEF Scanned
  <2> QED BY <2>1, <2>8 DEF u
<1>4. CASE ~(k >= v.next /\ Hit(line, cs, n, k))
  <2>1. Scan(line, cs, n, v, k) = v
    BY <1>4 DEF Scan
  <2>2. ASSUME NEW j \in 1 .. Len(q) PROVE Found(line, cs, n, q[j], Least(k, v.next - n))
    <3>1. PICK i \in 1 .. k - 1 : i + n <= v.next
                                /\ Hit(line, cs, n, i) /\ q[j] = <<cs[i], cs[i + n - 1]>>
      BY <1>2
    <3>2. i \in 1 .. Least(k, v.next - n)
      BY <1>0, <1>1, <3>1 DEF Least
    <3> QED BY <3>1, <3>2 DEF Found
  <2>3. ASSUME NEW i \in 1 .. k, Hit(line, cs, n, i) PROVE \E j \in 1 .. Len(q) : Covers(cs, n, q[j], i)
    <3>1. CASE i # k
      <4>1. i \in 1 .. k - 1
        BY <1>0, <3>1
      <4> QED BY <2>3, <4>1 DEF Scanned
    <3>2. CASE i = k
      <4>1. k < v.next
        BY <1>0, <1>1, <1>4, <2>3, <3>2
      <4>2. v.next > 1 /\ v.next - n \in 1 .. k - 1 /\ v.next - 1 \in k .. k + n - 1
        BY SMTT(20), <1>0, <1>1, <4>1 DEF Scanned
      <4>3. Len(q) > 0 /\ q[Len(q)] = <<cs[v.next - n], cs[v.next - 1]>>
        BY <4>2 DEF Scanned
      <4>4. cs[v.next - n] <= cs[k + n - 1]
        <5>1. v.next - n \in 1 .. Len(cs) /\ v.next - n < k + n - 1
          BY <1>0, <4>2
        <5> QED BY <1>0, <5>1
      <4>5. cs[k] <= cs[v.next - 1]
        <5>1. k \in 1 .. Len(cs) /\ v.next - 1 \in 1 .. Len(cs) /\ (k < v.next - 1 \/ k = v.next - 1)
          BY <1>0, <4>2
        <5>2. CASE k < v.next - 1
          <6>1. cs[k] < cs[v.next - 1] /\ cs[k] \in Nat /\ cs[v.next - 1] \in Nat
            BY <1>0, <5>1, <5>2
          <6> QED BY <6>1
        <5>3. CASE k = v.next - 1
          <6>1. cs[k] \in Nat
            BY <1>0, <5>1
          <6> QED BY <5>3, <6>1
        <5> QED BY <5>1, <5>2, <5>3
      <4> QED BY SMTT(20), <1>1, <3>2, <4>3, <4>4, <4>5 DEF Covers
    <3> QED BY <3>1, <3>2
  <2>4. v.next \in 1 .. k + n
    BY <1>0, <1>1
  <2>5. Scanned(line, cs, n, k, v)
    BY <1>1, <2>2, <2>3, <2>4 DEF Scanned
  <2> QED BY <2>1, <2>5
<1> QED BY <1>3, <1>4

\* What a search reports of a line.
LEMMA MatchesFound ==
  ASSUME NEW s, s.cols \in Nat, NEW line, NEW n \in Nat \ {0}, NEW cs, cs = TextColumns(s, line)
  PROVE  /\ Line(cs, n)
         /\ \E v : Matches(s, line, n) = v.out /\ Scanned(line, cs, n, Most(Len(cs) - n + 1, 0), v)
<1> DEFINE c == <<line, cs, n>>
           all == [i \in 1 .. Len(cs) - n + 1 |-> i]
           v0 == [out |-> <<>>, next |-> 1]
           v == Scanning!Fold(c, v0, all)
           top == Most(Len(cs) - n + 1, 0)
<1>1. Line(cs, n)
  <2>1. cs \in Seq(0 .. s.cols - 1) /\ Rising(cs)
    BY TextInOrder DEF Ordered
  <2> QED BY <2>1 DEF Line
<1>2. Matches(s, line, n) = v.out
  <2>1. \A u, i : Scan(line, cs, n, u, i) = ScanOp(c, u, i)
    BY DEF ScanOp
  <2> QED BY DEF Matches, Scanning!Fold, ScanOp, FoldLeft, Scanning!FoldLeft, MapThenFoldSet,
         Scanning!MapThenFoldSet, Max, Scanning!Max
<1>3. top \in Nat /\ Len(all) = top /\ DOMAIN all = 1 .. top /\ \A k \in 1 .. top : all[k] = k
      /\ (top > 0 => top = Len(cs) - n + 1)
  <2>1. Len(cs) \in Nat
    BY <1>1 DEF Line
  <2>2. top \in Nat /\ 1 .. top = 1 .. Len(cs) - n + 1 /\ (top > 0 => top = Len(cs) - n + 1)
    BY <2>1 DEF Most
  <2> HIDE DEF top
  <2>3. all = [i \in 1 .. top |-> i]
    BY <2>2
  <2> HIDE DEF all
  <2>4. DOMAIN all = 1 .. top /\ all \in Seq(Nat)
    BY <2>2, <2>3
  <2>5. Len(all) = top
    BY <2>2, <2>4
  <2>6. \A k \in 1 .. top : all[k] = k
    BY <2>3
  <2> QED BY <2>2, <2>4, <2>5, <2>6
<1> HIDE DEF all, top
<1>4. ScanInv(c, 0, v0)
  <2>1. Listed(v0.out) /\ Len(v0.out) = 0 /\ v0.next = 1
    BY DEF Listed
  <2> HIDE DEF v0
  <2>2. Scanned(line, cs, n, 0, v0)
    BY <2>1 DEF Scanned
  <2> QED BY <2>2 DEF ScanInv
<1>5. ASSUME NEW u, NEW k \in 1 .. Len(all), ScanInv(c, k - 1, u) PROVE ScanInv(c, k, ScanOp(c, u, all[k]))
  <2>1. k \in 1 .. Len(cs) - n + 1 /\ all[k] = k
    BY <1>3, <1>5
  <2>2. Scanned(line, cs, n, k - 1, u)
    BY <1>5 DEF ScanInv
  <2>3. Scanned(line, cs, n, k, Scan(line, cs, n, u, k))
    BY <1>1, <2>1, <2>2, OnePosition
  <2> QED BY <2>1, <2>3 DEF ScanInv, ScanOp
<1> HIDE DEF c, v0
<1>6. ScanInv(c, Len(all), v)
  BY <1>3, <1>4, <1>5, Scanning!FoldKeeps
<1> HIDE DEF v
<1>7. Scanned(line, cs, n, top, v)
  BY <1>3, <1>6 DEF ScanInv, c
<1> QED BY <1>1, <1>2, <1>7 DEF top

---------------------------------------------------------------------------
(* What the property says of a line.                                       *)

\* The columns with text from a to b, and whether they hold a needle of length n.
Text(line, a, b) == {c \in a .. b : line[c].g # "t"}
Whole(line, n, a, b) == Cardinality(Text(line, a, b)) = n /\ \A c \in Text(line, a, b) : line[c].g = "x"

\* The listed columns from a to b are those from the i-th to the j-th.
Bounds(cs, i, j, a, b) == \A k \in 1 .. Len(cs) : cs[k] \in a .. b <=> k \in i .. j
\* The text between two listed columns is what is listed between them.
LEMMA TextBetween ==
  ASSUME NEW s, s.cols \in Nat, NEW line, NEW cs, cs = TextColumns(s, line),
         NEW i \in 1 .. Len(cs), NEW j \in i .. Len(cs), NEW a \in 0 .. s.cols - 1, NEW b \in a .. s.cols - 1,
         Bounds(cs, i, j, a, b)
  PROVE  /\ Text(line, a, b) = {cs[k] : k \in i .. j}
         /\ Cardinality(Text(line, a, b)) = j - i + 1
<1>1. Ordered(cs, {c \in Columns(s) : line[c].g # "t"}, s.cols)
  BY TextInOrder
<1>2. Len(cs) \in Nat /\ Rising(cs) /\ \A k \in 1 .. Len(cs) : cs[k] \in 0 .. s.cols - 1
  BY <1>1 DEF Ordered
<1>3. \A c \in 0 .. s.cols - 1 : line[c].g # "t" <=> Among(cs, c)
  BY <1>1 DEF Ordered, Columns
<1>4. ASSUME NEW c PROVE c \in Text(line, a, b) <=> \E k \in i .. j : cs[k] = c
  <2>1. ASSUME c \in Text(line, a, b) PROVE \E k \in i .. j : cs[k] = c
    <3>1. c \in a .. b /\ c \in 0 .. s.cols - 1 /\ line[c].g # "t"
      BY <2>1 DEF Text
    <3>2. PICK k \in 1 .. Len(cs) : cs[k] = c
      BY <1>3, <3>1 DEF Among
    <3> QED BY <3>1, <3>2 DEF Bounds
  <2>2. ASSUME NEW k \in i .. j, cs[k] = c PROVE c \in Text(line, a, b)
    <3>1. k \in 1 .. Len(cs)
      BY <1>2
    <3>2. c \in a .. b /\ c \in 0 .. s.cols - 1 /\ Among(cs, c)
      BY <1>2, <2>2, <3>1 DEF Among, Bounds
    <3> QED BY <1>3, <3>2 DEF Text
  <2> QED BY <2>1, <2>2
<1>5. Text(line, a, b) = {cs[k] : k \in i .. j}
  BY <1>4
<1>6. Cardinality(Text(line, a, b)) = j - i + 1
  <2> DEFINE f == [k \in i .. j |-> cs[k]]
             T == Text(line, a, b)
  <2>1. i \in Int /\ j \in Int /\ i <= j
    BY <1>2
  <2>2. IsFiniteSet(i .. j) /\ Cardinality(i .. j) = j - i + 1
    BY <2>1, FS_Interval
  <2>3. f \in Bijection(i .. j, T)
    <3>1. f \in [i .. j -> T]
      BY <1>5
    <3>2. \A k, l \in i .. j : f[k] = f[l] => k = l
      <4> SUFFICES ASSUME NEW k \in i .. j, NEW l \in i .. j, k < l PROVE cs[k] # cs[l]
        BY <2>1
      <4>1. k \in 1 .. Len(cs) /\ l \in 1 .. Len(cs)
        BY <1>2
      <4>2. cs[k] < cs[l] /\ cs[k] \in Int
        BY <1>2, <4>1 DEF Rising
      <4> QED BY <4>2
    <3>3. \A c \in T : \E k \in i .. j : f[k] = c
      BY <1>5
    <3> QED BY <3>1, <3>2, <3>3, Fun_IsBij
  <2>4. ExistsBijection(i .. j, T)
    BY <2>3 DEF ExistsBijection
  <2> QED BY <2>2, <2>4, FS_Bijection
<1> QED BY <1>5, <1>6

\* A find is the needle.
LEMMA FoundIsWhole ==
  ASSUME NEW s, s.cols \in Nat, NEW line, NEW cs, cs = TextColumns(s, line), NEW n, Line(cs, n),
         NEW i \in 1 .. Len(cs) - n + 1, Hit(line, cs, n, i)
  PROVE  Whole(line, n, cs[i], cs[i + n - 1])
<1>1. Ordered(cs, {c \in Columns(s) : line[c].g # "t"}, s.cols)
  BY TextInOrder
<1>0. Len(cs) \in Nat /\ Rising(cs) /\ n \in Nat \ {0} /\ \A k \in 1 .. Len(cs) : cs[k] \in 0 .. s.cols - 1
  <2>1. cs \in Seq(0 .. s.cols - 1) /\ Rising(cs)
    BY <1>1 DEF Ordered
  <2>2. n \in Nat \ {0}
    BY DEF Line
  <2> QED BY SMTT(20), <2>1, <2>2
<1>2. /\ Len(cs) \in Nat /\ Rising(cs) /\ n \in Nat \ {0} /\ i \in 1 .. Len(cs) /\ i + n - 1 \in i .. Len(cs)
      /\ \A k \in 1 .. Len(cs) : cs[k] \in 0 .. s.cols - 1
  BY <1>0
<1> DEFINE j == i + n - 1
<1>3. j - i + 1 = n /\ j \in i .. Len(cs) /\ j \in 1 .. Len(cs) /\ i <= j /\ j \in Nat
  BY <1>2
<1> HIDE DEF j
<1>4. \A k, l \in 1 .. Len(cs) : k <= l <=> cs[k] <= cs[l]
  <2> SUFFICES ASSUME NEW k \in 1 .. Len(cs), NEW l \in 1 .. Len(cs) PROVE k <= l <=> cs[k] <= cs[l]
    OBVIOUS
  <2>1. k < l => cs[k] < cs[l]
    BY <1>2 DEF Rising
  <2>2. l < k => cs[l] < cs[k]
    BY <1>2 DEF Rising
  <2>3. cs[k] \in Nat /\ cs[l] \in Nat /\ k \in Nat /\ l \in Nat
    BY <1>2
  <2>4. k = l => cs[k] = cs[l]
    OBVIOUS
  <2> QED BY <2>1, <2>2, <2>3, <2>4
<1> DEFINE a == cs[i]
           b == cs[j]
<1>5. a \in 0 .. s.cols - 1 /\ b \in a .. s.cols - 1
  BY <1>2, <1>3, <1>4
<1>6. ASSUME NEW k \in 1 .. Len(cs) PROVE cs[k] \in a .. b <=> k \in i .. j
  <2>1. cs[k] \in Int /\ a \in Int /\ b \in Int
    BY <1>2, <1>5
  <2>2. cs[k] \in a .. b <=> cs[i] <= cs[k] /\ cs[k] <= cs[j]
    BY <2>1
  <2>3. cs[i] <= cs[k] <=> i <= k
    BY <1>2, <1>4
  <2>4. cs[k] <= cs[j] <=> k <= j
    BY <1>3, <1>4
  <2>5. k \in i .. j <=> i <= k /\ k <= j
    BY <1>2, <1>3
  <2> QED BY <2>2, <2>3, <2>4, <2>5
<1> HIDE DEF a, b
<1>a. Bounds(cs, i, j, a, b)
  BY <1>6 DEF Bounds
<1>b. i \in 1 .. Len(cs)
  BY <1>2
<1>c. j \in i .. Len(cs)
  BY <1>3
<1>7. Text(line, a, b) = {cs[k] : k \in i .. j} /\ Cardinality(Text(line, a, b)) = j - i + 1
  BY SMTT(20), <1>a, <1>b, <1>c, <1>5, TextBetween
<1>8. \A c \in Text(line, a, b) : line[c].g = "x"
  BY <1>7 DEF Hit, j
<1>9. Whole(line, n, a, b)
  BY <1>3, <1>7, <1>8 DEF Whole
<1> QED BY <1>9 DEF a, b, j

\* Wherever the needle is on a line, it is at listed columns.
LEMMA WholeIsHit ==
  ASSUME NEW s, s.cols \in Nat, NEW line, NEW cs, cs = TextColumns(s, line), NEW n, Line(cs, n),
         NEW a \in 0 .. s.cols - 1, NEW b \in 0 .. s.cols - 1, a <= b, Whole(line, n, a, b)
  PROVE  \E i \in 1 .. Len(cs) - n + 1 :
            Hit(line, cs, n, i) /\ a <= cs[i] /\ cs[i + n - 1] <= b
<1>1. Ordered(cs, {c \in Columns(s) : line[c].g # "t"}, s.cols)
  BY TextInOrder
<1>2. Len(cs) \in Nat /\ Rising(cs) /\ n \in Nat \ {0} /\ \A k \in 1 .. Len(cs) : cs[k] \in 0 .. s.cols - 1
  BY SMTT(20), <1>1 DEF Ordered, Line
<1>3. \A c \in 0 .. s.cols - 1 : line[c].g # "t" <=> Among(cs, c)
  BY <1>1 DEF Ordered, Columns
<1> DEFINE T == {k \in 1 .. Len(cs) : cs[k] \in a .. b}
<1>4. T # {}
  <2> SUFFICES ASSUME T = {} PROVE FALSE
    OBVIOUS
  <2>1. Text(line, a, b) = {}
    <3> SUFFICES ASSUME NEW c \in Text(line, a, b) PROVE FALSE
      OBVIOUS
    <3>1. c \in a .. b /\ c \in 0 .. s.cols - 1 /\ line[c].g # "t"
      BY DEF Text
    <3>2. PICK k \in 1 .. Len(cs) : cs[k] = c
      BY <1>3, <3>1 DEF Among
    <3> QED BY <3>1, <3>2
  <2>2. Cardinality({}) = 0
    BY FS_EmptySet
  <2> QED BY <1>2, <2>1, <2>2 DEF Whole
<1>5. T \subseteq Nat
  BY <1>2
<1>6. PICK i \in T : \A k \in T : i <= k
  BY <1>4, <1>5, Listing!NatMin
<1>7. PICK j \in T : \A k \in T : k <= j
  <2> DEFINE U == {Len(cs) - k : k \in T}
  <2>1. U \in SUBSET Nat /\ U # {}
    BY <1>2, <1>4
  <2> HIDE DEF U
  <2>2. PICK u \in U : \A w \in U : u <= w
    BY <2>1, Listing!NatMin
  <2>3. PICK j \in T : u = Len(cs) - j
    BY DEF U
  <2>4. ASSUME NEW k \in T PROVE k <= j
    <3>1. Len(cs) - k \in U
      BY DEF U
    <3>2. Len(cs) - j <= Len(cs) - k
      BY <2>2, <2>3, <3>1
    <3> QED BY <1>2, <1>5, <3>2
  <2> QED BY <2>4
<1>8. i \in 1 .. Len(cs) /\ j \in i .. Len(cs) /\ cs[i] \in a .. b /\ cs[j] \in a .. b
  BY <1>2, <1>6, <1>7
<1>9. ASSUME NEW k \in 1 .. Len(cs) PROVE cs[k] \in a .. b <=> k \in i .. j
  <2>1. ASSUME cs[k] \in a .. b PROVE k \in i .. j
    BY <1>6, <1>7, <1>8, <2>1
  <2>2. ASSUME k \in i .. j PROVE cs[k] \in a .. b
    <3>1. k = i \/ cs[i] < cs[k]
      BY <1>2, <1>8, <2>2 DEF Rising
    <3>2. k = j \/ cs[k] < cs[j]
      BY <1>2, <1>8, <2>2 DEF Rising
    <3>3. cs[k] \in Nat /\ cs[i] \in Nat /\ cs[j] \in Nat
      BY <1>2, <1>8
    <3> QED BY <1>8, <3>1, <3>2, <3>3
  <2> QED BY <2>1, <2>2
<1> HIDE DEF T
<1>10. b \in a .. s.cols - 1
  OBVIOUS
<1>a. Bounds(cs, i, j, a, b)
  BY <1>9 DEF Bounds
<1>b. i \in 1 .. Len(cs)
  BY <1>8
<1>c. j \in i .. Len(cs)
  BY <1>8
<1>11. Text(line, a, b) = {cs[k] : k \in i .. j} /\ Cardinality(Text(line, a, b)) = j - i + 1
  BY <1>a, <1>b, <1>c, <1>10, TextBetween
<1>d. n = j - i + 1
  BY <1>11 DEF Whole
<1>12. j = i + n - 1 /\ i \in 1 .. Len(cs) - n + 1
  <2>1. i \in Nat /\ j \in Nat
    BY <1>2, <1>b, <1>c
  <2> QED BY <1>2, <1>b, <1>c, <1>d, <2>1
<1>13. Hit(line, cs, n, i)
  BY <1>11, <1>12 DEF Whole, Hit
<1> QED BY <1>8, <1>12, <1>13

\* A search of any line for any needle is exact.
Exact(s, line, n) ==
  LET found == Matches(s, line, n)
  IN  /\ \A i \in DOMAIN found : Whole(line, n, found[i][1], found[i][2])
      /\ \A i, j \in DOMAIN found : i < j => found[i][2] < found[j][1]
      /\ \A a, b \in Columns(s) : (a <= b /\ Whole(line, n, a, b)) =>
            \E i \in DOMAIN found : found[i][1] <= b /\ a <= found[i][2]
\* The matches reported of a line are exact.
LEMMA MatchesExact ==
  ASSUME NEW s, s.cols \in Nat, NEW line, NEW n \in Nat \ {0} PROVE Exact(s, line, n)
<1> DEFINE cs == TextColumns(s, line)
           found == Matches(s, line, n)
           top == Most(Len(cs) - n + 1, 0)
<1>1. PICK v : Line(cs, n) /\ found = v.out /\ Scanned(line, cs, n, top, v)
  BY MatchesFound
<1>2. Ordered(cs, {c \in Columns(s) : line[c].g # "t"}, s.cols)
  BY TextInOrder
<1> HIDE DEF cs, found
<1>3. /\ Len(cs) \in Nat /\ top \in Nat /\ 1 .. top = 1 .. Len(cs) - n + 1
      /\ \A k \in 1 .. Len(cs) : cs[k] \in 0 .. s.cols - 1
  BY <1>1, <1>2 DEF Line, Most, Ordered
<1> HIDE DEF top
<1>4. Listed(found) /\ Len(found) \in Nat /\ DOMAIN found = 1 .. Len(found)
  BY <1>1, ListedLen DEF Scanned
<1>5. ASSUME NEW i \in DOMAIN found PROVE Whole(line, n, found[i][1], found[i][2])
  <2>1. Found(line, cs, n, found[i], Least(top, v.next - n)) /\ v.next \in 1 .. top + n
    BY <1>1, <1>4 DEF Scanned
  <2>2. PICK k \in 1 .. Least(top, v.next - n) : Hit(line, cs, n, k) /\ found[i] = <<cs[k], cs[k + n - 1]>>
    BY <2>1 DEF Found
  <2>3. k \in 1 .. top
    BY <1>3, <2>1, <2>2 DEF Least
  <2>4. Whole(line, n, cs[k], cs[k + n - 1])
    BY <1>1, <1>3, <2>2, <2>3, FoundIsWhole DEF cs
  <2> QED BY <2>2, <2>4
<1>6. ASSUME NEW a \in Columns(s), NEW b \in Columns(s), a <= b, Whole(line, n, a, b)
      PROVE  \E i \in DOMAIN found : found[i][1] <= b /\ a <= found[i][2]
  <2>1. a \in 0 .. s.cols - 1 /\ b \in 0 .. s.cols - 1
    BY DEF Columns
  <2>2. PICK k \in 1 .. Len(cs) - n + 1 : Hit(line, cs, n, k) /\ a <= cs[k] /\ cs[k + n - 1] <= b
    BY <1>1, <1>6, <2>1, WholeIsHit DEF cs
  <2>3. PICK i \in 1 .. Len(found) : Covers(cs, n, found[i], k)
    BY <1>1, <1>3, <2>2 DEF Scanned
  <2>4. Found(line, cs, n, found[i], Least(top, v.next - n)) /\ v.next \in 1 .. top + n
    BY <1>1 DEF Scanned
  <2>5. PICK l \in 1 .. top : found[i] = <<cs[l], cs[l + n - 1]>>
    BY <1>3, <2>4 DEF Found, Least
  <2>6. /\ l \in 1 .. Len(cs) /\ l + n - 1 \in 1 .. Len(cs) /\ k \in 1 .. Len(cs)
        /\ k + n - 1 \in 1 .. Len(cs)
    <3>1. l \in 1 .. Len(cs) - n + 1
      BY <1>3
    <3> QED BY <1>3, <3>1
  <2>7. found[i][1] \in Int /\ found[i][2] \in Int /\ cs[k] \in Int /\ cs[k + n - 1] \in Int
    <3>1. cs[l] \in Int /\ cs[l + n - 1] \in Int /\ cs[k] \in Int /\ cs[k + n - 1] \in Int
      BY <1>3, <2>6
    <3> QED BY <2>5, <3>1
  <2>8. found[i][1] <= b /\ a <= found[i][2]
    <3>1. found[i][1] <= cs[k + n - 1] /\ cs[k] <= found[i][2]
      BY <2>3 DEF Covers
    <3>2. a \in Int /\ b \in Int /\ a <= cs[k] /\ cs[k + n - 1] <= b
      BY <2>1, <2>2
    <3> DEFINE x == found[i][1]
               y == found[i][2]
               p == cs[k]
               q == cs[k + n - 1]
    <3>3. x \in Int /\ y \in Int /\ p \in Int /\ q \in Int /\ x <= q /\ p <= y /\ a <= p /\ q <= b
      BY <2>7, <3>1, <3>2
    <3> HIDE DEF x, y, p, q
    <3>4. x <= b /\ a <= y
      BY <3>2, <3>3
    <3> QED BY <3>4 DEF x, y
  <2> QED BY <1>4, <2>8
<1>7. \A i, j \in DOMAIN found : i < j => found[i][2] < found[j][1]
  BY <1>1, <1>4 DEF Scanned
<1> QED BY <1>5, <1>6, <1>7 DEF Exact, found

\* so a search of the lines of the screen's width for a needle of one or two is.
LEMMA VtSearchExact == ASSUME VtInv PROVE SearchExact
<1> DEFINE s == term.scr
<1>1. s.cols \in Nat
  BY DEF VtInv, Well, Sound, ScreenGood, Sized
<1> SUFFICES ASSUME NEW line \in LinesOfWidth(s), NEW n \in 1 .. 2
             PROVE  Exact(s, line, n)
  BY DEF SearchExact, Exact, Whole, Text
<1> HIDE DEF s
<1> QED BY <1>1, MatchesExact

\* On every line of the width of a reachable screen, in the history or on it, a search
\* reports occurrences of the needle from left to right without overlap, and misses none.
THEOREM SearchStaysExact == Spec => []SearchExact
<1>1. VtInv => SearchExact
  BY VtSearchExact
<1> QED BY <1>1, VtInvHolds, PTL

---------------------------------------------------------------------------
(* What one operation does to history, grids and pen.                      *)

\* The history and the screen in use stay, and under the alternate screen the
\* primary one; all but the last of it and the pen: calm.
Quiet(s, u) ==
  /\ u.buf_alt = s.buf_alt /\ u.sb = s.sb /\ u.scrolled_total = s.scrolled_total
  /\ s.buf_alt => u.primary = s.primary
Calm(s, u) == Quiet(s, u) /\ u.pen = s.pen

\* What is quiet twice is quiet, and likewise what is calm.
LEMMA QuietTwice ==
  ASSUME NEW s, NEW u, NEW v
  PROVE  /\ Quiet(s, u) /\ Quiet(u, v) => Quiet(s, v)
         /\ Calm(s, u) /\ Calm(u, v) => Calm(s, v)
  BY DEF Quiet, Calm

\* Other fields may become anything.
LooseFields == {"cx", "cy", "wrap_pending", "modes", "last_base", "tabs", "saved", "top", "bot",
                "prompts", "combo_pool"}
\* What differs only in them is calm.
LEMMA LooseCalm == ASSUME NEW s, NEW u, Differ(s, u, LooseFields) PROVE Calm(s, u)
  BY DEF Differ, LooseFields, ScreenFields, Calm, Quiet

\* Drawing on the screen in use,
LEMMA DrawCalm ==
  ASSUME NEW s, ScreenGood(s), NEW g PROVE Calm(s, WithBuf(s, g)) /\ IsScreen(WithBuf(s, g))
  BY DEF WithBuf, Calm, Quiet, ScreenGood, IsScreen, Map, ScreenFields

\* or dropping a pending wrap is calm,
LEMMA NoWrapCalm == ASSUME NEW s, IsScreen(s) PROVE Calm(s, NoWrap(s)) /\ IsScreen(NoWrap(s))
  BY DEF NoWrap, Calm, Quiet, IsScreen, Map, ScreenFields

\* so is drawing and dropping one,
LEMMA DrawnCalm == ASSUME NEW s, ScreenGood(s), NEW g PROVE Calm(s, NoWrap(WithBuf(s, g)))
<1> DEFINE u == WithBuf(s, g)
<1>1. Calm(s, u) /\ IsScreen(u)
  BY DrawCalm
<1> HIDE DEF u
<1> QED BY <1>1, NoWrapCalm, QuietTwice DEF u

\* moving the cursor,
LEMMA CursorCalm ==
  ASSUME NEW s, ScreenGood(s), NEW n, NEW m
  PROVE  /\ Calm(s, CursorUp(s, n)) /\ Calm(s, CursorDown(s, n)) /\ Calm(s, CursorFwd(s, n))
         /\ Calm(s, CursorBack(s, n)) /\ Calm(s, CursorCol(s, n)) /\ Calm(s, CursorRow(s, n))
         /\ Calm(s, CursorTo(s, n, m)) /\ Calm(s, Backspace(s)) /\ Calm(s, Tab(s))
         /\ Calm(s, CarriageReturn(s))
<1>1. ASSUME NEW x PROVE Calm(s, ToX(s, x))
  BY DEF ToX, NoWrap, Calm, Quiet, ScreenGood, IsScreen, Map, ScreenFields
<1>2. ASSUME NEW y PROVE Calm(s, ToY(s, y))
  BY DEF ToY, NoWrap, Calm, Quiet, ScreenGood, IsScreen, Map, ScreenFields
<1>3. ASSUME NEW x, NEW y PROVE Calm(s, ToXY(s, x, y))
  BY DEF ToXY, NoWrap, Calm, Quiet, ScreenGood, IsScreen, Map, ScreenFields
<1>4. Calm(s, CursorUp(s, n)) /\ Calm(s, CursorDown(s, n)) /\ Calm(s, CursorRow(s, n))
  BY <1>2 DEF CursorUp, CursorDown, CursorRow, ToY
<1>5. Calm(s, CursorFwd(s, n)) /\ Calm(s, CursorBack(s, n)) /\ Calm(s, CursorCol(s, n))
      /\ Calm(s, Backspace(s)) /\ Calm(s, CarriageReturn(s))
  BY <1>1 DEF CursorFwd, CursorBack, CursorCol, Backspace, CarriageReturn, ToX
<1>6. Calm(s, CursorTo(s, n, m))
  BY <1>3 DEF CursorTo, ToXY
<1>7. Tab(s) = ToX(s, StopAt(s))
  BY DEF Tab, ToX, StopAt, IsStop
<1>8. Calm(s, Tab(s))
  BY <1>1, <1>7
<1> QED BY <1>4, <1>5, <1>6, <1>8

\* tab stops, modes, marks, the saved cursor and the scroll region.
LEMMA SettingCalm ==
  ASSUME NEW s, ScreenGood(s), NEW n, NEW m
  PROVE  /\ Calm(s, SetTabStop(s)) /\ Calm(s, ClearTabStop(s)) /\ Calm(s, ClearAllTabs(s))
         /\ Calm(s, SaveCursor(s)) /\ Calm(s, SetModes(s, n)) /\ Calm(s, MarkPrompt(s))
         /\ Calm(s, MarkCmdExit(s, n)) /\ Calm(s, SetScrollRegion(s, n, m))
<1>1. Calm(s, SetTabStop(s)) /\ Calm(s, ClearTabStop(s)) /\ Calm(s, ClearAllTabs(s))
      /\ Calm(s, SaveCursor(s)) /\ Calm(s, SetModes(s, n)) /\ Calm(s, s)
  BY DEF SetTabStop, ClearTabStop, ClearAllTabs, SaveCursor, SetModes, Calm, Quiet, ScreenGood,
         IsScreen, Map, ScreenFields
<1>2. ASSUME NEW q PROVE Calm(s, SetPrompts(s, q))
  BY DEF SetPrompts, Calm, Quiet, ScreenGood, IsScreen, Map, ScreenFields
<1>3. Calm(s, MarkPrompt(s))
  BY <1>1, <1>2 DEF MarkPrompt, SetPrompts
<1>4. Calm(s, MarkCmdExit(s, n))
  BY <1>1, <1>2 DEF MarkCmdExit, SetPrompts
<1>5. PICK a, b : SetScrollRegion(s, n, m) = CursorTo(SetRegion(s, a, b), 0, 0)
  BY DEF SetScrollRegion, SetRegion
<1>6. Calm(s, CursorTo(SetRegion(s, a, b), 0, 0))
  BY DEF CursorTo, NoWrap, SetRegion, Calm, Quiet, ScreenGood, IsScreen, Map, ScreenFields
<1> QED BY <1>1, <1>3, <1>4, <1>5, <1>6

\* Restoring the cursor and graphic rendition change the pen.
LEMMA PenQuiet ==
  ASSUME NEW s, ScreenGood(s), NEW p, NEW colon
  PROVE  Quiet(s, RestoreCursor(s)) /\ Quiet(s, SetGraphics(s, p, colon))
<1>1. Quiet(s, RestoreCursor(s))
  BY DEF RestoreCursor, NoWrap, Quiet, ScreenGood, IsScreen, Map, ScreenFields
<1>2. PICK pen : SetGraphics(s, p, colon) = SetPen(s, pen)
  BY DEF SetGraphics, SetPen
<1>3. Quiet(s, SetPen(s, pen))
  BY DEF SetPen, Quiet, ScreenGood, IsScreen, Map, ScreenFields
<1> QED BY <1>1, <1>2, <1>3

\* Erasing, inserting and deleting on the screen in use are calm,
LEMMA EditCalm ==
  ASSUME NEW s, ScreenGood(s), NEW n
  PROVE  /\ Calm(s, EraseInLine(s, n)) /\ Calm(s, EraseChars(s, n)) /\ Calm(s, InsertChars(s, n))
         /\ Calm(s, DeleteChars(s, n)) /\ Calm(s, InsertLines(s, n)) /\ Calm(s, DeleteLines(s, n))
         /\ Calm(s, ScrollDown(s, n)) /\ Calm(s, ReverseIndex(s))
<1>1. ASSUME NEW g PROVE Calm(s, WithBuf(s, g)) /\ Calm(s, NoWrap(WithBuf(s, g)))
  BY DrawCalm, DrawnCalm
<1>2. Calm(s, s) /\ Calm(s, NoWrap(s))
  BY NoWrapCalm DEF ScreenGood, Calm, Quiet
<1>3. ASSUME NEW cells PROVE Calm(s, EraseWhere(s, cells)) /\ Calm(s, NoWrap(EraseWhere(s, cells)))
  BY <1>1 DEF EraseWhere
<1>4. Calm(s, EraseInLine(s, n)) /\ Calm(s, EraseChars(s, n))
  BY <1>2, <1>3 DEF EraseInLine, EraseChars
<1>5. Calm(s, InsertChars(s, n)) /\ Calm(s, DeleteChars(s, n))
  BY <1>1 DEF InsertChars, DeleteChars, WithRow
<1>6. Calm(s, InsertLines(s, n)) /\ Calm(s, DeleteLines(s, n)) /\ Calm(s, ScrollDown(s, n))
  BY <1>1, <1>2 DEF InsertLines, DeleteLines, ScrollDown, ShiftUp, ShiftDown
<1>7. Calm(s, ReverseIndex(s))
  <2>1. Calm(s, NoWrap(ScrollDown(s, 1)))
    BY <1>1 DEF ScrollDown, ShiftDown
  <2>2. Calm(s, ToY(s, s.cy - 1))
    BY DEF ToY, NoWrap, Calm, Quiet, ScreenGood, IsScreen, Map, ScreenFields
  <2> QED BY <1>2, <2>1, <2>2 DEF ReverseIndex, ToY
<1> QED BY <1>4, <1>5, <1>6, <1>7

\* and so is a combining mark, and a glyph where the cursor is.
LEMMA WriteCalm ==
  ASSUME NEW s, ScreenGood(s), NEW g PROVE Calm(s, Combine(s)) /\ Calm(s, Place(s, g))
<1>1. ASSUME NEW h, NEW n PROVE Calm(s, [WithBuf(s, h) EXCEPT !.combo_pool = n])
  <2> DEFINE u == WithBuf(s, h)
  <2>1. Calm(s, u) /\ IsScreen(u)
    BY DrawCalm
  <2> HIDE DEF u
  <2>2. Calm(u, [u EXCEPT !.combo_pool = n])
    BY <2>1 DEF Calm, Quiet, IsScreen, Map, ScreenFields
  <2> QED BY <2>1, <2>2, QuietTwice DEF u
<1>2. Calm(s, s)
  BY DEF Calm, Quiet
<1>3. Calm(s, Combine(s))
  <2>1. Combine(s) = s \/ \E h, n : Combine(s) = [WithBuf(s, h) EXCEPT !.combo_pool = n]
    BY DEF Combine
  <2> QED BY <1>1, <1>2, <2>1
<1>4. PICK h, b, x, w : Place(s, g) = [WithBuf(s, h) EXCEPT !.last_base = b, !.cx = x, !.wrap_pending = w]
  BY DEF Place, WithRow
<1> DEFINE u == WithBuf(s, h)
<1>5. Calm(s, u) /\ IsScreen(u)
  BY DrawCalm
<1> HIDE DEF u
<1>6. Calm(u, [u EXCEPT !.last_base = b, !.cx = x, !.wrap_pending = w])
  BY <1>5 DEF Calm, Quiet, IsScreen, Map, ScreenFields
<1> QED BY <1>3, <1>4, <1>5, <1>6, QuietTwice DEF u

---------------------------------------------------------------------------
(* Scrolling.                                                              *)

\* Line j of the history of s and the lines that leave its screen after it.
Logged(s, j) == IF j < s.sb.count THEN SbGet(s.sb, j) ELSE Leaving(s, j - s.sb.count)
\* The ring of u is the end of the log when k lines have left the screen of s.
LogEnd(s, u, k) ==
  /\ u.scrolled_total = s.scrolled_total + k /\ u.sb.count = Least(s.sb.count + k, Cap)
  /\ \A i \in 0 .. u.sb.count - 1 : SbGet(u.sb, i) = Logged(s, i + (s.sb.count + k - u.sb.count))
Framed(s, u) ==
  /\ u.rows = s.rows /\ u.cols = s.cols /\ u.top = s.top /\ u.bot = s.bot
  /\ u.buf_alt = s.buf_alt /\ u.prompts = s.prompts /\ u.pen = s.pen
\* The lines of the region are k rows further up, but for the one that is drawn.
Raised(s, u, k, drawn) ==
  \A r \in 0 .. s.bot : u.primary[r] = Leaving(s, r + k) \/ (drawn /\ r = u.cy)
Rolled(s, u, k, drawn) ==
  /\ ~s.buf_alt /\ s.top = 0 /\ k \in Nat
  /\ Framed(s, u) /\ LogEnd(s, u, k) /\ Raised(s, u, k, drawn)

\* Sizes and counts in the form arithmetic needs them.
LEMMA CountFacts ==
  ASSUME NEW s, ScreenGood(s)
  PROVE  /\ s.sb.count \in Nat /\ s.sb.count <= Cap /\ Cap \in Nat /\ Cap > 0
         /\ s.scrolled_total \in Nat
  BY ScreenAssumption DEF ScreenGood, Rings, IsRing, RingShape

\* Scrolled by j lines and then by k is scrolled by both.
LEMMA RolledTwice ==
  ASSUME NEW s, NEW v, NEW u, ScreenGood(s), ScreenGood(v), ScreenGood(u),
         NEW j, NEW k, NEW drawn, Rolled(s, v, j, FALSE), Rolled(v, u, k, drawn)
  PROVE  Rolled(s, u, j + k, drawn)
<1>1. /\ j \in Nat /\ k \in Nat /\ s.bot \in Nat /\ v.bot = s.bot /\ Columns(v) = Columns(s)
      /\ Framed(s, v) /\ LogEnd(s, v, j) /\ Raised(s, v, j, FALSE)
      /\ Framed(v, u) /\ LogEnd(v, u, k) /\ Raised(v, u, k, drawn)
      /\ ~s.buf_alt /\ s.top = 0
  BY SizeFacts DEF Rolled, Framed, Columns
<1>2. Framed(s, u)
  BY <1>1 DEF Framed
<1>3. ASSUME NEW r \in Nat PROVE Leaving(v, r) = Leaving(s, r + j)
  <2>1. CASE r <= s.bot
    <3>1. r \in 0 .. s.bot
      BY <1>1, <2>1
    <3> QED BY <1>1, <2>1, <3>1 DEF Raised, Leaving
  <2>2. CASE ~(r <= s.bot)
    <3>1. ~(r + j <= s.bot)
      BY <1>1, <2>2
    <3> QED BY <1>1, <2>2, <3>1 DEF Leaving, BlankLine
  <2> QED BY <2>1, <2>2
<1>4. Raised(s, u, j + k, drawn)
  <2> SUFFICES ASSUME NEW r \in 0 .. s.bot, ~(drawn /\ r = u.cy)
               PROVE  u.primary[r] = Leaving(s, r + (j + k))
    BY DEF Raised
  <2>1. u.primary[r] = Leaving(v, r + k)
    BY <1>1 DEF Raised
  <2>2. r + k \in Nat /\ (r + k) + j = r + (j + k)
    BY <1>1
  <2>3. Leaving(v, r + k) = Leaving(s, (r + k) + j)
    BY <1>3, <2>2
  <2> QED BY <2>1, <2>2, <2>3
<1> DEFINE a == s.sb.count
           b == v.sb.count
           c == u.sb.count
<1>5. /\ a \in Nat /\ b \in Nat /\ c \in Nat /\ Cap \in Nat /\ a <= Cap
      /\ s.scrolled_total \in Nat
  BY CountFacts
<1>6. b = Least(a + j, Cap) /\ c = Least(b + k, Cap)
  BY <1>1 DEF LogEnd
<1>7. u.scrolled_total = s.scrolled_total + (j + k)
  BY <1>1, <1>5 DEF LogEnd
<1>8. ASSUME NEW x \in Nat PROVE Logged(v, x) = Logged(s, x + (a + j - b))
                                 \/ ~(x < b + k)
  <2>1. CASE x < b
    <3>1. x \in 0 .. b - 1
      BY <1>5, <2>1
    <3>2. SbGet(v.sb, x) = Logged(s, x + (a + j - b))
      BY <1>1, <3>1 DEF LogEnd
    <3> QED BY <2>1, <3>2 DEF Logged
  <2>2. CASE ~(x < b)
    <3>1. x - b \in Nat
      BY <1>5, <2>2
    <3>2. Logged(v, x) = Leaving(s, (x - b) + j)
      BY <1>3, <2>2, <3>1 DEF Logged
    <3> DEFINE y == x + (a + j - b)
    <3>3. ~(y < a) /\ y - a = (x - b) + j
      BY <1>1, <1>5, <2>2
    <3> HIDE DEF y
    <3>4. Logged(s, y) = Leaving(s, (x - b) + j)
      BY <3>3 DEF Logged
    <3> QED BY <3>2, <3>4 DEF y
  <2> QED BY <2>1, <2>2
<1>9. ASSUME NEW i \in 0 .. c - 1 PROVE SbGet(u.sb, i) = Logged(s, i + (a + (j + k) - c))
  <2> DEFINE x == i + (b + k - c)
  <2>1. x \in Nat /\ x < b + k /\ x + (a + j - b) = i + (a + (j + k) - c)
    BY SMTT(20), <1>1, <1>5, <1>6 DEF Least
  <2>2. SbGet(u.sb, i) = Logged(v, x)
    BY <1>1 DEF LogEnd
  <2> HIDE DEF x
  <2> QED BY <1>8, <2>1, <2>2
<1>10. c = Least(a + (j + k), Cap)
  BY <1>1, <1>5, <1>6 DEF Least
<1>11. LogEnd(s, u, j + k)
  BY <1>7, <1>9, <1>10 DEF LogEnd
<1>12. j + k \in Nat
  BY <1>1
<1> QED BY <1>1, <1>2, <1>4, <1>11, <1>12 DEF Rolled

\* A screen with the history and the lines of s has not been scrolled.
LEMMA RolledNot ==
  ASSUME NEW s, ScreenGood(s), ~s.buf_alt, s.top = 0, NEW u, NEW drawn, Framed(s, u),
         u.sb = s.sb, u.scrolled_total = s.scrolled_total,
         \A r \in 0 .. s.bot : u.primary[r] = s.primary[r] \/ (drawn /\ r = u.cy)
  PROVE  Rolled(s, u, 0, drawn)
<1>1. s.sb.count \in Nat /\ s.sb.count <= Cap /\ Cap \in Nat /\ s.scrolled_total \in Nat
      /\ s.bot \in Nat
  BY CountFacts, SizeFacts
<1>2. LogEnd(s, u, 0)
  <2>1. \A i \in 0 .. s.sb.count - 1 : i + (s.sb.count + 0 - s.sb.count) = i /\ i < s.sb.count
    BY <1>1
  <2>2. s.sb.count = Least(s.sb.count + 0, Cap) /\ s.scrolled_total = s.scrolled_total + 0
    BY <1>1 DEF Least
  <2> QED BY <2>1, <2>2 DEF LogEnd, Logged
<1>3. \A r \in 0 .. s.bot : Leaving(s, r + 0) = s.primary[r]
  BY <1>1 DEF Leaving
<1>4. Raised(s, u, 0, drawn)
  BY <1>3 DEF Raised
<1> QED BY <1>2, <1>4 DEF Rolled

\* The full region of the primary screen scrolls into the history.
LEMMA PushRolls ==
  ASSUME NEW s, ScreenGood(s), ~s.buf_alt, s.top = 0, NEW k \in 0 .. s.bot + 1
  PROVE  Rolled(s, ShiftUp(PushTop(s, k), 0, s.bot, k), k, FALSE)
<1> DEFINE p == PushTop(s, k)
           u == ShiftUp(p, 0, s.bot, k)
           L == TopLines(s, k)
<1>1. k \in Nat /\ k \in 0 .. s.rows /\ s.bot \in Nat /\ s.bot < s.rows /\ s.rows \in Nat
  BY SizeFacts
<1>2. Pushed(s, p, k) /\ p.scrolled_total = s.scrolled_total + k
  BY <1>1, PushTopGood DEF PushTop, ScreenGood, IsScreen, Map, ScreenFields
<1> HIDE DEF p
<1>3. /\ ScreenGood(p) /\ p.cols = s.cols /\ p.rows = s.rows /\ p.buf_alt = s.buf_alt
      /\ Buf(p) = s.primary /\ p.top = s.top /\ p.bot = s.bot /\ p.prompts = s.prompts
      /\ p.pen = s.pen
  BY <1>2 DEF Pushed, Differ, ScreenFields, Buf
<1> DEFINE g == LiftedUp(p, 0, s.bot, k)
<1>4. Drawn(p, u, g)
  <2>1. 0 \in Nat /\ s.bot \in 0 - 1 .. p.rows - 1
    BY <1>1, <1>3
  <2> QED BY <1>1, <1>3, <2>1, ShiftGood
<1> HIDE DEF u
<1>5. Framed(s, u) /\ u.sb = p.sb /\ u.scrolled_total = s.scrolled_total + k /\ u.primary = g
  BY <1>2, <1>3, <1>4 DEF Drawn, Differ, ScreenFields, Framed, Buf
<1>6. Raised(s, u, k, FALSE)
  <2>1. \A r \in 0 .. s.bot : r \in RowsOf(p) /\ r \in 0 .. s.bot
    BY <1>1, <1>3 DEF RowsOf
  <2>2. \A r \in 0 .. s.bot : g[r] = IF r + k <= s.bot THEN s.primary[r + k] ELSE BlankLine(p)
    BY <1>3, <2>1 DEF LiftedUp
  <2>3. BlankLine(p) = BlankLine(s)
    BY <1>3 DEF BlankLine, Columns
  <2> QED BY <1>5, <2>2, <2>3 DEF Raised, Leaving
<1>7. LogEnd(s, u, k)
  <2> DEFINE c == <<s.sb, L>>
  <2>1. c[1] = s.sb /\ c[2] = L
    OBVIOUS
  <2>2. PushInv(c, k, p.sb)
    BY <1>2 DEF Pushed
  <2> HIDE DEF c
  <2>3. /\ p.sb.count = Least(s.sb.count + k, Cap)
        /\ \A i \in 0 .. p.sb.count - 1 : SbGet(p.sb, i) = LogLine(c, i + (s.sb.count + k - p.sb.count))
    BY <2>1, <2>2 DEF PushInv
  <2>4. s.sb.count \in Nat /\ Cap \in Nat /\ p.sb.count \in Nat
    BY <1>3, CountFacts
  <2>5. ASSUME NEW i \in 0 .. p.sb.count - 1
        PROVE  LogLine(c, i + (s.sb.count + k - p.sb.count)) = Logged(s, i + (s.sb.count + k - p.sb.count))
    <3> DEFINE n == s.sb.count
               j == i + (n + k - p.sb.count)
    <3>1. j \in Nat /\ j < n + k
      BY <1>1, <2>3, <2>4 DEF Least
    <3> HIDE DEF j
    <3>2. LogLine(c, j) = Logged(s, j)
      <4>1. CASE j < n
        BY <2>1, <4>1 DEF LogLine, Logged
      <4>2. CASE ~(j < n)
        <5>1. j - n + 1 \in 1 .. k /\ (j - n + 1) - 1 = j - n /\ j - n <= s.bot
          BY <1>1, <2>4, <3>1, <4>2
        <5>2. L[j - n + 1] = s.primary[(j - n + 1) - 1]
          BY <5>1 DEF TopLines
        <5> HIDE DEF L
        <5> QED BY <2>1, <4>2, <5>1, <5>2 DEF LogLine, Logged, Leaving
      <4> QED BY <4>1, <4>2
    <3> QED BY <3>2 DEF j
  <2> QED BY <1>5, <2>3, <2>5 DEF LogEnd
<1> QED BY <1>1, <1>5, <1>6, <1>7 DEF Rolled, u, p

\* u is s, scrolled from the top of the primary screen or calm.
Stirred(s, u, drawn) ==
  IF ~s.buf_alt /\ s.top = 0 THEN \E k \in Nat : Rolled(s, u, k, drawn)
  ELSE Calm(s, u) /\ u.top = s.top

\* Stirred twice, drawn at the end only, is stirred.
LEMMA StirredTwice ==
  ASSUME NEW s, NEW v, NEW u, ScreenGood(s), ScreenGood(v), ScreenGood(u), NEW drawn,
         Stirred(s, v, FALSE), Stirred(v, u, drawn)
  PROVE  Stirred(s, u, drawn)
<1>1. CASE ~s.buf_alt /\ s.top = 0
  <2>1. PICK j \in Nat : Rolled(s, v, j, FALSE)
    BY <1>1 DEF Stirred
  <2>2. ~v.buf_alt /\ v.top = 0
    BY <1>1, <2>1 DEF Rolled, Framed
  <2>3. PICK k \in Nat : Rolled(v, u, k, drawn)
    BY <2>2 DEF Stirred
  <2>4. Rolled(s, u, j + k, drawn)
    BY <2>1, <2>3, RolledTwice
  <2>5. j + k \in Nat
    OBVIOUS
  <2> QED BY <1>1, <2>4, <2>5 DEF Stirred
<1>2. CASE ~(~s.buf_alt /\ s.top = 0)
  <2>1. Calm(s, v) /\ v.top = s.top
    BY <1>2 DEF Stirred
  <2>2. ~(~v.buf_alt /\ v.top = 0)
    BY <1>2, <2>1 DEF Calm, Quiet
  <2>3. Calm(v, u) /\ u.top = v.top
    BY <2>2 DEF Stirred
  <2> QED BY <1>2, <2>1, <2>3, QuietTwice DEF Stirred
<1> QED BY <1>1, <1>2

\* A screen in its frame, with its history and at most one row drawn, is stirred.
LEMMA FramedStirred ==
  ASSUME NEW s, ScreenGood(s), NEW u, NEW drawn, Framed(s, u), Calm(s, u),
         \A r \in 0 .. s.bot : s.buf_alt \/ u.primary[r] = s.primary[r] \/ (drawn /\ r = u.cy)
  PROVE  Stirred(s, u, drawn)
<1>1. CASE ~s.buf_alt /\ s.top = 0
  <2>1. Rolled(s, u, 0, drawn)
    BY <1>1, RolledNot DEF Calm, Quiet
  <2> QED BY <1>1, <2>1 DEF Stirred
<1>2. CASE ~(~s.buf_alt /\ s.top = 0)
  BY <1>2 DEF Stirred, Framed
<1> QED BY <1>1, <1>2

MoveFields == {"cx", "cy", "wrap_pending", "modes", "last_base"}

\* Moving the cursor scrolls nothing.
LEMMA MovedStirred ==
  ASSUME NEW s, ScreenGood(s), NEW u, Differ(s, u, MoveFields) PROVE Stirred(s, u, FALSE)
<1>1. Framed(s, u) /\ Calm(s, u) /\ u.primary = s.primary
  BY DEF Differ, MoveFields, ScreenFields, Framed, Calm, Quiet
<1> QED BY <1>1, FramedStirred

\* Drawing keeps the frame.
LEMMA DrawFramed ==
  ASSUME NEW s, ScreenGood(s), NEW g
  PROVE  /\ Framed(s, WithBuf(s, g)) /\ WithBuf(s, g).cy = s.cy
         /\ ~s.buf_alt => WithBuf(s, g).primary = g
  BY DEF WithBuf, Framed, ScreenGood, IsScreen, Map, ScreenFields

\* Scrolling up is pushing lines, or calm.
LEMMA ScrollUpStirred ==
  ASSUME NEW s, ScreenGood(s), NEW n \in Nat PROVE Stirred(s, ScrollUp(s, n), FALSE)
<1> DEFINE k == Least(n, s.bot - s.top + 1)
<1>1. k \in Nat /\ (s.top = 0 => k \in 0 .. s.bot + 1)
  BY SizeFacts DEF Least
<1>2. ScrollUp(s, n) = ShiftUp(IF ~s.buf_alt /\ s.top = 0 THEN PushTop(s, k) ELSE s, s.top, s.bot, k)
  BY DEF ScrollUp
<1> HIDE DEF k
<1>3. CASE ~s.buf_alt /\ s.top = 0
  <2>1. Rolled(s, ShiftUp(PushTop(s, k), 0, s.bot, k), k, FALSE)
    BY <1>1, <1>3, PushRolls
  <2> QED BY <1>1, <1>2, <1>3, <2>1 DEF Stirred
<1>4. CASE ~(~s.buf_alt /\ s.top = 0)
  <2>1. PICK g : ShiftUp(s, s.top, s.bot, k) = WithBuf(s, g)
    BY DEF ShiftUp
  <2>2. Calm(s, WithBuf(s, g)) /\ Framed(s, WithBuf(s, g))
    BY DrawCalm, DrawFramed
  <2> QED BY <1>2, <1>4, <2>1, <2>2 DEF Stirred, Framed
<1> QED BY <1>3, <1>4

\* So are index,
LEMMA IndexStirred == ASSUME NEW s, ScreenGood(s) PROVE Stirred(s, Index(s), FALSE)
<1>1. ASSUME NEW v, ScreenGood(v) PROVE Stirred(v, NoWrap(v), FALSE) /\ ScreenGood(NoWrap(v))
  <2>1. Differ(v, NoWrap(v), MoveFields)
    BY <1>1 DEF Differ, MoveFields, ScreenGood, IsScreen, Map, ScreenFields, NoWrap
  <2> QED BY <1>1, <2>1, MovedStirred, NoWrapGood DEF Kept
<1>2. CASE s.cy = s.bot
  <2> DEFINE v == ScrollUp(s, 1)
  <2>1. ScreenGood(v) /\ Stirred(s, v, FALSE) /\ Index(s) = NoWrap(v)
    BY <1>2, ScrollUpFine, ScrollUpStirred DEF Fine, Index
  <2> HIDE DEF v
  <2> QED BY <1>1, <2>1, StirredTwice
<1>3. CASE s.cy # s.bot /\ s.cy < s.rows - 1
  <2>1. Index(s) = ToY(s, s.cy + 1)
    BY <1>3 DEF Index, ToY
  <2>2. Differ(s, ToY(s, s.cy + 1), MoveFields)
    BY DEF Differ, MoveFields, ScreenGood, IsScreen, Map, ScreenFields, ToY, NoWrap
  <2> QED BY <2>1, <2>2, MovedStirred
<1>4. CASE s.cy # s.bot /\ ~(s.cy < s.rows - 1)
  <2>1. Index(s) = NoWrap(s)
    BY <1>4 DEF Index
  <2> QED BY <1>1, <2>1
<1> QED BY <1>2, <1>3, <1>4

\* next line,
LEMMA NextLineStirred == ASSUME NEW s, ScreenGood(s) PROVE Stirred(s, NextLine(s), FALSE)
<1> DEFINE v == CarriageReturn(s)
<1>1. ScreenGood(v)
  BY CarriageReturnGood DEF Kept
<1>2. Differ(s, v, MoveFields)
  BY DEF Differ, MoveFields, ScreenGood, IsScreen, Map, ScreenFields, CarriageReturn, NoWrap
<1>3. NextLine(s) = Index(v)
  BY DEF NextLine
<1> HIDE DEF v
<1>4. ScreenGood(Index(v)) /\ Stirred(v, Index(v), FALSE)
  BY <1>1, IndexFine, IndexStirred DEF Fine
<1> QED BY <1>1, <1>2, <1>3, <1>4, MovedStirred, StirredTwice

\* a glyph where the cursor is, which draws on its row,
LEMMA PlaceStirred == ASSUME NEW s, ScreenGood(s), NEW g PROVE Stirred(s, Place(s, g), TRUE)
<1>1. PICK line, b, x, w :
        Place(s, g) = [WithRow(s, s.cy, line) EXCEPT !.last_base = b, !.cx = x, !.wrap_pending = w]
  BY DEF Place
<1> DEFINE h == [Buf(s) EXCEPT ![s.cy] = line]
           v == WithBuf(s, h)
           u == [v EXCEPT !.last_base = b, !.cx = x, !.wrap_pending = w]
<1>2. Place(s, g) = u
  BY <1>1 DEF WithRow
<1>3. Framed(s, v) /\ Calm(s, v) /\ v.cy = s.cy /\ (~s.buf_alt => v.primary = h) /\ IsScreen(v)
  BY DrawFramed, DrawCalm
<1>4. ~s.buf_alt => \A r \in 0 .. s.bot : h[r] = s.primary[r] \/ r = s.cy
  BY DEF Buf
<1> HIDE DEF v, h
<1>5. Framed(v, u) /\ Calm(v, u) /\ u.cy = v.cy /\ u.primary = v.primary
  BY <1>3 DEF Framed, Calm, Quiet, IsScreen, Map, ScreenFields
<1> HIDE DEF u
<1>6. Framed(s, u)
  BY <1>3, <1>5 DEF Framed
<1>7. Calm(s, u)
  BY <1>3, <1>5, QuietTwice
<1>8. \A r \in 0 .. s.bot : s.buf_alt \/ u.primary[r] = s.primary[r] \/ (TRUE /\ r = u.cy)
  BY <1>3, <1>4, <1>5
<1> QED BY <1>2, <1>6, <1>7, <1>8, FramedStirred

\* and a glyph after wrapping, twice if need be.
LEMMA PutRuneStirred ==
  ASSUME NEW s, ScreenGood(s), NEW g \in {"x", "o", "b", "W", "m"}
  PROVE  Calm(s, PutRune(s, g)) \/ Stirred(s, PutRune(s, g), TRUE)
<1>1. CASE Width(g) = 0
  BY <1>1, WriteCalm DEF PutRune
<1>2. CASE Width(g) # 0
  <2> DEFINE s1 == IF s.wrap_pending THEN NextLine(s) ELSE s
             s0 == [s1 EXCEPT !.cx = 0]
             s2 == IF Width(g) = 2 /\ s1.cx = s1.cols - 1 /\ s1.modes.auto_wrap
                   THEN Index(s0) ELSE s1
  <2>1. PutRune(s, g) = Place(s2, g)
    BY <1>2 DEF PutRune
  <2>0. ASSUME NEW v, ScreenGood(v) PROVE Stirred(v, v, FALSE)
    <3>1. Differ(v, v, MoveFields)
      BY <2>0 DEF Differ, ScreenGood
    <3> QED BY <2>0, <3>1, MovedStirred
  <2>2. Stirred(s, s1, FALSE) /\ ScreenGood(s1) /\ ~s1.wrap_pending
    BY <2>0, NextLineFine, NextLineStirred, NextLineUnwraps DEF Fine
  <2> HIDE DEF s1
  <2>3. Stirred(s1, s2, FALSE) /\ ScreenGood(s2)
    <3>1. CASE s2 = s1
      BY <2>0, <2>2, <3>1
    <3>2. CASE s2 # s1
      <4>1. s2 = Index(s0)
        BY <3>2
      <4>2. Differ(s1, s0, CursorFields) /\ Differ(s1, s0, MoveFields) /\ s0.cx = 0 /\ s0.cy = s1.cy
            /\ s0.wrap_pending = s1.wrap_pending /\ s0.cols = s1.cols /\ s0.rows = s1.rows
        BY <2>2 DEF Differ, CursorFields, MoveFields, ScreenGood, IsScreen, Map, ScreenFields
      <4> HIDE DEF s0
      <4>3. Cursor(s0)
        BY <2>2, <4>2, SizeFacts DEF Cursor
      <4>4. ScreenGood(s0)
        BY <2>2, <4>2, <4>3, MovedGood DEF Kept
      <4>5. Stirred(s1, s0, FALSE)
        BY <2>2, <4>2, MovedStirred
      <4>6. ScreenGood(Index(s0)) /\ Stirred(s0, Index(s0), FALSE)
        BY <4>4, IndexFine, IndexStirred DEF Fine
      <4> QED BY <2>2, <4>1, <4>4, <4>5, <4>6, StirredTwice
    <3> QED BY <3>1, <3>2
  <2> HIDE DEF s2
  <2>4. g \in {"x", "o", "b", "W"}
    BY <1>2 DEF Width
  <2>5. Stirred(s2, Place(s2, g), TRUE) /\ ScreenGood(Place(s2, g))
    BY <2>3, <2>4, PlaceStirred, PlaceFine DEF Fine
  <2>6. Stirred(s, s2, FALSE)
    BY <2>2, <2>3, StirredTwice
  <2> QED BY <2>1, <2>3, <2>5, <2>6, StirredTwice
<1> QED BY <1>1, <1>2

---------------------------------------------------------------------------
(* Clearing the history, switching the screen, the reset.                  *)

\* The history is empty, all else is quiet.
Cleared(s, u) ==
  /\ u.buf_alt = s.buf_alt /\ u.sb.count = 0 /\ u.scrolled_total = s.scrolled_total
  /\ s.buf_alt => u.primary = s.primary
\* The other screen is in use; the alternate one is blank when it is taken.
Switched(s, u) ==
  /\ u.primary = s.primary /\ u.sb = s.sb /\ u.scrolled_total = s.scrolled_total
  /\ ~s.buf_alt /\ u.buf_alt =>
       u.pen = s.pen /\ \A r \in RowsOf(u), c \in Columns(u) : u.alt[r][c] = Blank
WasReset(s, u) ==
  u = FullReset(s) /\ ~u.buf_alt /\ u.sb.count = 0 /\ u.scrolled_total = s.scrolled_total

\* Clearing the history leaves it empty, and screens and pen alone.
LEMMA ClearedFields ==
  ASSUME NEW s, ScreenGood(s)
  PROVE  /\ ClearHistory(s).buf_alt = s.buf_alt /\ ClearHistory(s).scrolled_total = s.scrolled_total
         /\ ClearHistory(s).primary = s.primary /\ ClearHistory(s).pen = s.pen
         /\ ClearHistory(s).sb.count = 0 /\ IsScreen(ClearHistory(s))
<1> DEFINE sb == [[[s.sb EXCEPT !.ring = [i \in DOMAIN @ |-> NoLine]] EXCEPT !.start = 0] EXCEPT !.count = 0]
           v == [[s EXCEPT !.sb = sb] EXCEPT !.prompts = <<>>]
<1>1. sb.count = 0
  BY DEF ScreenGood, Rings, IsRing, RingShape
<1>2. ClearHistory(s) = v
  BY DEF ClearHistory
<1> HIDE DEF sb
<1>3. /\ v.buf_alt = s.buf_alt /\ v.scrolled_total = s.scrolled_total /\ v.primary = s.primary
      /\ v.pen = s.pen /\ v.sb = sb
  BY DEF ScreenGood, IsScreen, Map, ScreenFields
<1>4. IsScreen(v)
  BY DEF ScreenGood, IsScreen, Map, ScreenFields
<1> QED BY <1>1, <1>2, <1>3, <1>4

\* Erasing in display is calm or clears the history.
LEMMA EraseInDisplayEffect ==
  ASSUME NEW s, ScreenGood(s), NEW n
  PROVE  /\ Calm(s, EraseInDisplay(s, n)) \/ Cleared(s, EraseInDisplay(s, n))
         /\ EraseInDisplay(s, n).pen = s.pen
<1>1. ASSUME NEW g PROVE Calm(s, NoWrap(WithBuf(s, g)))
  BY DrawnCalm
<1>2. Calm(s, NoWrap(s))
  BY NoWrapCalm DEF ScreenGood
<1>3. ASSUME NEW cells PROVE Calm(s, NoWrap(EraseWhere(s, cells)))
  BY <1>1 DEF EraseWhere
<1> DEFINE v == ClearHistory(s)
<1>4. Cleared(s, v) /\ v.pen = s.pen /\ IsScreen(v)
  BY ClearedFields DEF Cleared, v
<1> HIDE DEF v
<1>5. Calm(v, NoWrap(v))
  BY <1>4, NoWrapCalm
<1>6. Cleared(s, NoWrap(v)) /\ NoWrap(v).pen = s.pen
  BY <1>4, <1>5 DEF Cleared, Calm, Quiet
<1>7. CASE n = 3
  BY <1>6, <1>7 DEF EraseInDisplay, v
<1>8. CASE n # 3
  <2>1. Calm(s, EraseInDisplay(s, n))
    BY <1>2, <1>3, <1>8 DEF EraseInDisplay
  <2> QED BY <2>1 DEF Calm
<1> QED BY <1>7, <1>8

\* Taking the alternate screen blanks it, leaving it touches nothing.
LEMMA SetAltEffect ==
  ASSUME NEW s, ScreenGood(s), NEW on \in BOOLEAN
  PROVE  /\ SetAltScreen(s, on).buf_alt = on
         /\ \/ SetAltScreen(s, on) = s
            \/ Switched(s, SetAltScreen(s, on)) /\ s.buf_alt # on
<1>0. s.buf_alt \in BOOLEAN
  BY DEF ScreenGood, Others
<1>1. CASE on = s.buf_alt
  <2>1. SetAltScreen(s, on) = s
    BY <1>1, Zenon DEF SetAltScreen
  <2>2. s.buf_alt = on
    BY <1>1
  <2> QED BY <2>1, <2>2, Zenon
<1>2. CASE on /\ ~s.buf_alt
  <2> DEFINE a == SetAlt(SaveCursor(s), TRUE)
             all == RowsOf(a) \X Columns(a)
             g == Erased(a, all)
             v == EraseWhere(a, all)
             e == EraseInDisplay(a, 2)
             u == NoWrap([e EXCEPT !.cx = 0, !.cy = 0])
  <2>1. SetAltScreen(s, on) = u
    BY <1>2 DEF SetAltScreen, SetAlt
  <2>2. ScreenGood(a) /\ a.buf_alt = TRUE
    BY SaveCursorGood, SetAltGood DEF Kept
  <2>3. a.primary = s.primary /\ a.sb = s.sb /\ a.scrolled_total = s.scrolled_total /\ a.pen = s.pen
    BY DEF SetAlt, SaveCursor, ScreenGood, IsScreen, Map, ScreenFields
  <2> HIDE DEF a
  <2>4. e = NoWrap(v)
    BY DEF EraseInDisplay
  <2>5. v = WithBuf(a, g) /\ Drawn(a, v, g)
    BY <2>2, EraseGood
  <2>6. ScreenGood(v) /\ v.alt = g /\ Calm(a, v) /\ v.rows = a.rows /\ v.cols = a.cols
        /\ v.buf_alt = TRUE
    BY <2>2, <2>5, DrawCalm DEF Drawn, Differ, ScreenFields, Buf, Calm, Quiet
  <2>7. \A r \in RowsOf(a), c \in Columns(a) : g[r][c] = Blank
    BY DEF Erased
  <2> HIDE DEF v, g, e
  <2>8. Calm(v, u) /\ u.alt = v.alt /\ u.rows = v.rows /\ u.cols = v.cols
    BY <2>4, <2>6 DEF NoWrap, Calm, Quiet, ScreenGood, IsScreen, Map, ScreenFields
  <2> HIDE DEF u
  <2>9. Calm(a, u) /\ u.buf_alt = TRUE
    BY <2>2, <2>6, <2>8, QuietTwice DEF Calm, Quiet
  <2>10. \A r \in RowsOf(u), c \in Columns(u) : u.alt[r][c] = Blank
    BY <2>6, <2>7, <2>8 DEF RowsOf, Columns
  <2>11. Switched(s, u)
    BY <2>2, <2>3, <2>9, <2>10 DEF Switched, Calm, Quiet
  <2> QED BY <1>2, <2>1, <2>9, <2>11
<1>3. CASE ~on /\ s.buf_alt
  <2> DEFINE u == RestoreCursor(SetAlt(s, FALSE))
  <2>1. SetAltScreen(s, on) = u
    BY <1>3 DEF SetAltScreen, SetAlt
  <2>2. /\ u.primary = s.primary /\ u.sb = s.sb /\ u.scrolled_total = s.scrolled_total
        /\ u.buf_alt = FALSE
    BY DEF SetAlt, RestoreCursor, NoWrap, ScreenGood, IsScreen, Map, ScreenFields
  <2> HIDE DEF u
  <2> QED BY <1>3, <2>1, <2>2 DEF Switched
<1> QED BY <1>0, <1>1, <1>2, <1>3

\* A reset leaves the primary screen in use, without history.
LEMMA FullResetEffect == ASSUME NEW s, ScreenGood(s) PROVE WasReset(s, FullReset(s))
<1> DEFINE home == [s EXCEPT !.pen = DefaultPen, !.modes = DefaultModes, !.top = 0,
                             !.bot = s.rows - 1, !.cx = 0, !.cy = 0, !.wrap_pending = FALSE]
           v == SetAltScreen(home, FALSE)
           e == EraseInDisplay(v, 2)
           h == ClearHistory(e)
           u == [h EXCEPT !.combo_pool = 0]
<1>1. FullReset(s) = u
  BY DEF FullReset
<1>2. ScreenGood(home) /\ home.scrolled_total = s.scrolled_total
  <2>1. /\ Differ(s, home, {"pen", "modes", "top", "bot", "cx", "cy", "wrap_pending"})
        /\ home.top = 0 /\ home.bot = s.rows - 1 /\ home.cx = 0 /\ home.cy = 0
        /\ home.wrap_pending = FALSE
    BY DEF Differ, ScreenGood, IsScreen, Map, ScreenFields
  <2> HIDE DEF home
  <2>2. /\ home.cols = s.cols /\ home.rows = s.rows /\ home.buf_alt = s.buf_alt
        /\ home.primary = s.primary /\ home.alt = s.alt /\ home.saved = s.saved
        /\ home.tabs = s.tabs /\ home.sb = s.sb /\ home.combo_pool = s.combo_pool
        /\ home.scrolled_total = s.scrolled_total /\ home.prompts = s.prompts /\ IsScreen(home)
    BY <2>1 DEF Differ, ScreenFields
  <2>3. Cursor(home) /\ Region(home)
    BY <2>1, <2>2, SizeFacts DEF Cursor, Region
  <2> QED BY <2>2, <2>3 DEF ScreenGood, Sized, Grids, Saved, Stops, Rings, Marks, Others
<1> HIDE DEF home
<1>3. ScreenGood(v) /\ v.buf_alt = FALSE /\ v.scrolled_total = home.scrolled_total
  BY <1>2, SetAltScreenFine, SetAltEffect DEF Fine, Switched
<1> HIDE DEF v
<1>4. ScreenGood(e) /\ e.buf_alt = FALSE /\ e.scrolled_total = v.scrolled_total
  BY <1>3, WipeGood, EraseInDisplayEffect DEF Wiped, Calm, Quiet, Cleared
<1> HIDE DEF e
<1>5. h.buf_alt = e.buf_alt /\ h.scrolled_total = e.scrolled_total /\ h.sb.count = 0 /\ IsScreen(h)
  BY <1>4, ClearedFields
<1> HIDE DEF h
<1>6. u.buf_alt = h.buf_alt /\ u.scrolled_total = h.scrolled_total /\ u.sb = h.sb
  BY <1>5 DEF IsScreen, Map, ScreenFields
<1> HIDE DEF u
<1> QED BY <1>1, <1>2, <1>3, <1>4, <1>5, <1>6 DEF WasReset

---------------------------------------------------------------------------
(* What one byte may do.                                                   *)

Effect(s, u, drawn) ==
  \/ Quiet(s, u) \/ Cleared(s, u) \/ (Switched(s, u) /\ s.buf_alt # u.buf_alt) \/ WasReset(s, u)
  \/ \E k \in Nat : Rolled(s, u, k, drawn)

\* Where nothing is drawn, something might have been.
LEMMA EffectWeak ==
  ASSUME NEW s, NEW u, NEW drawn, Effect(s, u, FALSE) PROVE Effect(s, u, drawn)
  BY DEF Effect, Rolled, Raised

\* A stirred screen is one effect, the same pen with it.
LEMMA StirredEffect ==
  ASSUME NEW s, NEW u, NEW drawn, Stirred(s, u, drawn) PROVE Effect(s, u, drawn) /\ u.pen = s.pen
  BY DEF Stirred, Effect, Calm, Rolled, Framed

\* The history is a sequence; its line i is the ring's line i - 1.
LEMMA HistoryLines ==
  ASSUME NEW s, ScreenGood(s)
  PROVE  /\ \E T : History(s) \in Seq(T)
         /\ Len(History(s)) = s.sb.count
         /\ \A i \in 1 .. s.sb.count : History(s)[i] = SbGet(s.sb, i - 1)
<1>1. s.sb.count \in Nat
  BY CountFacts
<1> DEFINE T == {SbGet(s.sb, i - 1) : i \in 1 .. s.sb.count}
<1>2. History(s) \in [1 .. s.sb.count -> T]
  BY DEF History
<1>3. History(s) \in Seq(T)
  BY <1>1, <1>2, SMT
<1>4. Len(History(s)) = s.sb.count
  BY <1>1, <1>2, SMT
<1>5. \A i \in 1 .. s.sb.count : History(s)[i] = SbGet(s.sb, i - 1)
  BY DEF History
<1> HIDE DEF T
<1> QED BY <1>3, <1>4, <1>5

\* The log of lines that left the screen.
LogOf(s, k) == History(s) \o [i \in 1 .. k |-> Leaving(s, i - 1)]

\* Its length, and its lines.
LEMMA LogLines ==
  ASSUME NEW s, ScreenGood(s), NEW k \in Nat
  PROVE  /\ Listed(LogOf(s, k)) /\ Len(LogOf(s, k)) = s.sb.count + k
         /\ \A j \in 0 .. s.sb.count + k - 1 : LogOf(s, k)[j + 1] = Logged(s, j)
<1> DEFINE n == s.sb.count
           H == History(s)
           L == [i \in 1 .. k |-> Leaving(s, i - 1)]
<1>1. n \in Nat /\ Listed(H) /\ Len(H) = n /\ \A i \in 1 .. n : H[i] = SbGet(s.sb, i - 1)
  BY CountFacts, HistoryLines DEF Listed
<1> DEFINE T == {Leaving(s, i - 1) : i \in 1 .. k}
<1>2. L \in [1 .. k -> T] /\ \A i \in 1 .. k : L[i] = Leaving(s, i - 1)
  OBVIOUS
<1> HIDE DEF n, H, L, T
<1>3. L \in Seq(T) /\ Len(L) = k
  BY <1>2, SMT
<1>4. PICK A : H \in Seq(A)
  BY <1>1 DEF Listed
<1>6. H \in Seq(A \cup T) /\ L \in Seq(A \cup T)
  BY <1>3, <1>4
<1>7. /\ H \o L \in Seq(A \cup T) /\ Len(H \o L) = n + k
      /\ \A i \in 1 .. n + k : (H \o L)[i] = IF i <= n THEN H[i] ELSE L[i - n]
  BY <1>1, <1>3, <1>6, ConcatProperties
<1>8. ASSUME NEW j \in 0 .. n + k - 1 PROVE (H \o L)[j + 1] = Logged(s, j)
  <2>1. j \in Nat /\ j + 1 \in 1 .. n + k
    BY <1>1
  <2>2. CASE j < n
    <3>1. j + 1 \in 1 .. n /\ (j + 1) - 1 = j /\ j + 1 <= n
      BY <1>1, <2>1, <2>2
    <3>2. (H \o L)[j + 1] = SbGet(s.sb, j)
      BY <1>1, <1>7, <2>1, <3>1
    <3> QED BY <2>2, <3>2 DEF Logged, n
  <2>3. CASE ~(j < n)
    <3>1. (j + 1) - n \in 1 .. k /\ ((j + 1) - n) - 1 = j - n /\ ~(j + 1 <= n)
      BY <1>1, <2>1, <2>3
    <3>2. (H \o L)[j + 1] = L[(j + 1) - n]
      BY <1>7, <2>1, <3>1
    <3>3. (H \o L)[j + 1] = Leaving(s, j - n)
      BY <1>2, <3>1, <3>2
    <3> QED BY <2>3, <3>3 DEF Logged, n
  <2> QED BY <2>2, <2>3
<1>9. LogOf(s, k) = H \o L
  BY DEF LogOf, H, L
<1> QED BY <1>7, <1>8, <1>9 DEF Listed, n

\* The end of the log in the ring is the end of the log in the history.
LEMMA LogEndGrown ==
  ASSUME NEW s, ScreenGood(s), NEW u, ScreenGood(u), NEW k \in Nat, LogEnd(s, u, k)
  PROVE  Grown(s, u)
<1> DEFINE n == s.sb.count
           c == u.sb.count
           log == LogOf(s, k)
           l == Len(log)
           m == Most(l - Cap, 0) + 1
<1>1. /\ n \in Nat /\ c \in Nat /\ Cap \in Nat /\ n <= Cap /\ s.scrolled_total \in Nat
      /\ c = Least(n + k, Cap) /\ u.scrolled_total = s.scrolled_total + k
  BY CountFacts DEF LogEnd
<1>2. Listed(log) /\ Len(log) = n + k /\ \A j \in 0 .. n + k - 1 : log[j + 1] = Logged(s, j)
  BY LogLines
<1> HIDE DEF log
<1>3. PICK A : log \in Seq(A)
  BY <1>2 DEF Listed
<1>12. l = Len(log) /\ l = n + k
  BY <1>2
<1> HIDE DEF l
<1>4. m \in 1 .. l + 1 /\ m = n + k - c + 1
  BY <1>1, <1>12 DEF Most, Least
<1>13. m = Most(Len(log) - Cap, 0) + 1
  BY <1>12
<1> HIDE DEF m
<1> DEFINE q == SubSeq(log, m, l)
<1>14. m \in Int /\ l \in Int /\ \A i \in m .. l : log[i] \in A
  <2>1. \A i \in 1 .. Len(log) : log[i] \in A
    BY <1>3
  <2>2. m \in Int /\ l \in Int /\ \A i \in m .. l : i \in 1 .. Len(log)
    BY <1>1, <1>4, <1>12
  <2> QED BY <2>1, <2>2
<1>5. /\ q \in Seq(A) /\ Len(q) = IF m <= l THEN l - m + 1 ELSE 0
      /\ \A i \in 1 .. l - m + 1 : q[i] = log[m + i - 1]
  BY <1>14, SubSeqProperties
<1> HIDE DEF q
<1>6. PICK B : History(u) \in Seq(B)
  BY HistoryLines
<1>7. Len(History(u)) = c /\ \A i \in 1 .. c : History(u)[i] = SbGet(u.sb, i - 1)
  BY HistoryLines
<1>8. Len(q) = c /\ \A i \in 1 .. c : q[i] = log[m + i - 1]
  <2>1. l - m + 1 = c /\ (m <= l \/ c = 0)
    BY <1>1, <1>4, <1>12 DEF Least
  <2> QED BY <1>5, <2>1, <1>4, <1>12
<1>9. ASSUME NEW i \in 1 .. c PROVE History(u)[i] = q[i]
  <2> DEFINE j == (i - 1) + (n + k - c)
  <2>3. c <= n + k
    BY <1>1 DEF Least
  <2>1. i - 1 \in 0 .. c - 1 /\ j \in 0 .. n + k - 1 /\ j + 1 = m + i - 1
    BY <1>1, <1>4, <2>3
  <2>2. SbGet(u.sb, i - 1) = Logged(s, j)
    BY <2>1 DEF LogEnd
  <2> HIDE DEF j
  <2>4. log[j + 1] = Logged(s, j)
    BY <1>2, <2>1
  <2> QED BY <1>7, <1>8, <2>1, <2>2, <2>4
<1>10. History(u) = q
  <2>1. q \in Seq(A \cup B) /\ History(u) \in Seq(A \cup B)
    BY <1>5, <1>6
  <2> QED BY <1>7, <1>8, <1>9, <2>1, SeqEqual
<1>11. u.scrolled_total - s.scrolled_total = k
  BY <1>1
<1>15. u.scrolled_total - s.scrolled_total >= 0
  BY <1>11
<1> QED BY <1>10, <1>11, <1>12, <1>13, <1>15 DEF Grown, LogOf, q, log

\* The history that stays has grown,
LEMMA SameGrown ==
  ASSUME NEW s, ScreenGood(s), NEW u, ScreenGood(u), u.sb = s.sb, u.scrolled_total = s.scrolled_total
  PROVE  Grown(s, u)
<1>1. /\ s.sb.count \in Nat /\ s.sb.count <= Cap /\ Cap \in Nat /\ s.scrolled_total \in Nat
  BY CountFacts
<1>2. \A i \in 0 .. s.sb.count - 1 : i + (s.sb.count + 0 - s.sb.count) = i /\ i < s.sb.count
  BY <1>1
<1>3. s.sb.count = Least(s.sb.count + 0, Cap) /\ s.scrolled_total = s.scrolled_total + 0
  BY <1>1 DEF Least
<1>4. LogEnd(s, u, 0)
  BY <1>2, <1>3 DEF LogEnd, Logged
<1> QED BY <1>4, LogEndGrown

\* and so it has with every effect.
LEMMA EffectGrown ==
  ASSUME NEW s, ScreenGood(s), NEW u, ScreenGood(u), NEW drawn, Effect(s, u, drawn)
  PROVE  Grown(s, u)
<1>1. s.scrolled_total \in Nat
  BY CountFacts
<1>2. CASE u.sb = s.sb /\ u.scrolled_total = s.scrolled_total
  BY <1>2, SameGrown
<1>3. CASE u.sb.count = 0 /\ u.scrolled_total = s.scrolled_total
  <2>1. History(u) = <<>>
    BY <1>3 DEF History
  <2>2. u.scrolled_total - s.scrolled_total = 0
    BY <1>1, <1>3
  <2> QED BY <2>1, <2>2 DEF Grown
<1>4. CASE \E k \in Nat : Rolled(s, u, k, drawn)
  BY <1>4, LogEndGrown DEF Rolled
<1> QED BY <1>2, <1>3, <1>4 DEF Effect, Quiet, Cleared, Switched, WasReset

\* Every effect leaves the two screens apart.
LEMMA EffectIsolated ==
  ASSUME NEW s, ScreenGood(s), NEW u, ScreenGood(u), NEW drawn, Effect(s, u, drawn)
  PROVE  Isolated(s, u)
<1>1. s.buf_alt \in BOOLEAN /\ u.buf_alt \in BOOLEAN
  BY DEF ScreenGood, Others
<1>2. u.sb = s.sb => History(u) = History(s)
  BY DEF History
<1>3. u.sb.count = 0 => History(u) = <<>>
  BY DEF History
<1>4. CASE Quiet(s, u)
  BY <1>1, <1>2, <1>4 DEF Quiet, Isolated
<1>5. CASE Cleared(s, u)
  BY <1>1, <1>3, <1>5 DEF Cleared, Isolated
<1>6. CASE Switched(s, u) /\ s.buf_alt # u.buf_alt
  BY <1>1, <1>6 DEF Switched, Isolated
<1>7. CASE WasReset(s, u)
  BY <1>1, <1>7 DEF WasReset, Isolated
<1>8. CASE \E k \in Nat : Rolled(s, u, k, drawn)
  BY <1>1, <1>8 DEF Rolled, Framed, Isolated
<1> QED BY <1>4, <1>5, <1>6, <1>7, <1>8 DEF Effect

\* The effect of a byte that draws nothing and leaves the pen alone.
Gentle(s, u) == Effect(s, u, FALSE) /\ u.pen = s.pen

\* What is calm, stirred or cleared is gentle.
LEMMA GentleWays ==
  ASSUME NEW s, NEW u
  PROVE  /\ Gentle(s, s) /\ (Calm(s, u) => Gentle(s, u)) /\ (Stirred(s, u, FALSE) => Gentle(s, u))
         /\ (Cleared(s, u) /\ u.pen = s.pen => Gentle(s, u))
  BY StirredEffect DEF Gentle, Calm, Quiet, Effect

\* What may be gentle or draw: an effect all the same.
LEMMA GentleEffect ==
  ASSUME NEW s, NEW u, NEW drawn, Gentle(s, u) PROVE Effect(s, u, drawn) /\ u.pen = s.pen
  BY EffectWeak DEF Gentle

\* The screen of a terminal that is given one, or another state, or other fields.
LEMMA ScrFields ==
  ASSUME NEW t, IsTerm(t)
  PROVE  /\ \A s : On(t, s).scr = s /\ IsTerm(On(t, s))
         /\ \A st : Goto(t, st).scr = t.scr /\ Goto(t, st).priv = t.priv /\ IsTerm(Goto(t, st))
  BY DEF On, Goto, IsTerm, Map, TermFields

\* A glyph is drawn, after any wrapping.
LEMMA PutRuneEffect ==
  ASSUME NEW s, ScreenGood(s), NEW g \in {"x", "o", "b", "W", "m"}
  PROVE  Effect(s, PutRune(s, g), TRUE) /\ PutRune(s, g).pen = s.pen
  BY PutRuneStirred, StirredEffect, GentleWays, GentleEffect

\* So is an ASCII character,
LEMMA PrintAsciiEffect ==
  ASSUME NEW t, Well(t), NEW b
  PROVE  Effect(t.scr, PrintAscii(t, b).scr, TRUE) /\ PrintAscii(t, b).scr.pen = t.scr.pen
<1>1. PICK g \in {"x", "o", "b", "W", "m"} : PrintAscii(t, b) = On(t, PutRune(t.scr, g))
  <2> DEFINE special == IF t.shift_out THEN t.g1_special ELSE t.g0_special
             g == IF special /\ b \in DecSpecial THEN "b" ELSE GlyphOf(b)
  <2>1. GlyphOf(b) \in {"x", "o"}
    BY Zenon DEF GlyphOf
  <2>2. g \in {"x", "o", "b", "W", "m"}
    BY <2>1
  <2>3. PrintAscii(t, b) = On(t, PutRune(t.scr, g))
    BY DEF PrintAscii
  <2> HIDE DEF g
  <2> QED BY <2>2, <2>3
<1>2. PrintAscii(t, b).scr = PutRune(t.scr, g)
  BY <1>1, WellFacts, ScrFields
<1> QED BY <1>2, WellFacts, PutRuneEffect

\* and a control character draws nothing.
LEMMA C0Gentle == ASSUME NEW t, Well(t), NEW b PROVE Gentle(t.scr, C0(t, b).scr)
<1>1. /\ Gentle(t.scr, Backspace(t.scr)) /\ Gentle(t.scr, Tab(t.scr))
      /\ Gentle(t.scr, CarriageReturn(t.scr)) /\ Gentle(t.scr, Index(t.scr)) /\ Gentle(t.scr, t.scr)
  BY WellFacts, CursorCalm, IndexStirred, GentleWays
<1>2. /\ [t EXCEPT !.shift_out = TRUE].scr = t.scr /\ [t EXCEPT !.shift_out = FALSE].scr = t.scr
  BY WellFacts DEF IsTerm, Map, TermFields
<1>3. /\ \A s : On(t, s).scr = s
      /\ Goto(t, "Esc").scr = t.scr
  BY WellFacts, ScrFields
<1> QED BY <1>1, <1>2, <1>3 DEF C0

\* A byte of text draws, unless it is a line feed.
LEMMA GroundEffect ==
  ASSUME NEW t, Well(t), NEW b
  PROVE  Effect(t.scr, Ground(t, b).scr, b # "LF") /\ Ground(t, b).scr.pen = t.scr.pen
<1>0. ScreenGood(t.scr) /\ IsTerm(t) /\ Gentle(t.scr, t.scr)
  BY WellFacts, GentleWays
<1>1. ASSUME t.need > 0, b = "CC"
      PROVE  Effect(t.scr, Ground(t, b).scr, b # "LF") /\ Ground(t, b).scr.pen = t.scr.pen
  <2> DEFINE u == [t EXCEPT !.need = @ - 1]
  <2>1. IsTerm(u) /\ u.scr = t.scr /\ u.cp = t.cp
    BY <1>0 DEF TermFields, IsTerm, Map
  <2>2. Ground(t, b) = IF u.need = 0 THEN On(u, PutRune(u.scr, u.cp)) ELSE u
    BY <1>1 DEF Ground
  <2> HIDE DEF u
  <2>3. t.cp \in {"m", "W"}
    BY <1>1 DEF Well, Reading
  <2>4. Effect(t.scr, PutRune(u.scr, u.cp), TRUE) /\ PutRune(u.scr, u.cp).pen = t.scr.pen
    BY <1>0, <2>1, <2>3, PutRuneEffect
  <2>5. Effect(t.scr, u.scr, TRUE) /\ u.scr.pen = t.scr.pen
    BY <1>0, <2>1, GentleEffect
  <2>6. On(u, PutRune(u.scr, u.cp)).scr = PutRune(u.scr, u.cp)
    BY <2>1, ScrFields
  <2>7. Effect(t.scr, Ground(t, b).scr, TRUE) /\ Ground(t, b).scr.pen = t.scr.pen
    BY <2>2, <2>4, <2>5, <2>6
  <2>8. (b # "LF") = TRUE
    BY <1>1
  <2> QED BY <2>7, <2>8
<1>2. ASSUME ~(t.need > 0 /\ b = "CC")
      PROVE  Effect(t.scr, Ground(t, b).scr, b # "LF") /\ Ground(t, b).scr.pen = t.scr.pen
  <2> DEFINE u == [t EXCEPT !.need = 0]
  <2>1. Apart(t, u, {"need"}) /\ u.need = 0
    BY <1>0 DEF Apart, TermFields, IsTerm, Map
  <2>2. Ground(t, b) = CASE b \in C0Codes -> C0(u, b)
               [] b = "L2" -> [u EXCEPT !.cp = "m", !.need = 1]
               [] b = "L3" -> [u EXCEPT !.cp = "W", !.need = 2]
               [] b \in {"CC", "BAD"} -> On(u, PutRune(u.scr, "b"))
               [] OTHER -> PrintAscii(u, b)
    BY <1>2 DEF Ground
  <2> HIDE DEF u
  <2>3. u.scr = t.scr /\ u.state = t.state /\ u.cp = t.cp /\ u.params = t.params
        /\ u.colon = t.colon /\ u.cur = t.cur /\ IsTerm(u)
    BY <2>1 DEF Apart, TermFields
  <2>4. Well(u)
    BY <2>1, <2>3 DEF Well, Reading, Numbers
  <2>5. Gentle(t.scr, C0(u, b).scr)
    BY <2>3, <2>4, C0Gentle
  <2>6. [u EXCEPT !.cp = "m", !.need = 1].scr = t.scr /\ [u EXCEPT !.cp = "W", !.need = 2].scr = t.scr
    BY <2>3 DEF IsTerm, Map, TermFields
  <2>7. Effect(t.scr, On(u, PutRune(u.scr, "b")).scr, TRUE)
        /\ On(u, PutRune(u.scr, "b")).scr.pen = t.scr.pen
    <3>1. On(u, PutRune(u.scr, "b")).scr = PutRune(t.scr, "b")
      BY <2>3, ScrFields
    <3> QED BY <1>0, <3>1, PutRuneEffect
  <2>8. Effect(t.scr, PrintAscii(u, b).scr, TRUE) /\ PrintAscii(u, b).scr.pen = t.scr.pen
    BY <2>3, <2>4, PrintAsciiEffect
  <2>9. Gentle(t.scr, Ground(t, b).scr)
        \/ (b # "LF" /\ Effect(t.scr, Ground(t, b).scr, TRUE) /\ Ground(t, b).scr.pen = t.scr.pen)
    BY <1>0, <2>2, <2>5, <2>6, <2>7, <2>8 DEF C0Codes
  <2>10. CASE Gentle(t.scr, Ground(t, b).scr)
    <3> DEFINE drawn == b # "LF"
    <3> HIDE DEF drawn
    <3>1. Effect(t.scr, Ground(t, b).scr, drawn) /\ Ground(t, b).scr.pen = t.scr.pen
      BY <2>10, GentleEffect
    <3> QED BY <3>1 DEF drawn
  <2>11. CASE b # "LF" /\ Effect(t.scr, Ground(t, b).scr, TRUE) /\ Ground(t, b).scr.pen = t.scr.pen
    <3>1. (b # "LF") = TRUE
      BY <2>11
    <3> QED BY <2>11, <3>1
  <2> QED BY <2>9, <2>10, <2>11
<1> QED BY <1>1, <1>2

\* The byte after ESC: only restoring the cursor and the reset touch the pen.
LEMMA EscapeEffect ==
  ASSUME NEW t, Well(t), NEW b
  PROVE  /\ Effect(t.scr, Escape(t, b).scr, FALSE)
         /\ b \notin {"8", "c"} => Escape(t, b).scr.pen = t.scr.pen
<1> DEFINE s == t.scr
           Then(u) == On(Goto(t, "Ground"), u)
           Fits(v) == Effect(s, v.scr, FALSE) /\ (b \notin {"8", "c"} => v.scr.pen = s.pen)
<1>0. ScreenGood(s) /\ IsTerm(t)
  BY WellFacts
<1>1. ASSUME NEW u, Gentle(s, u) PROVE Fits(Then(u))
  <2>1. Then(u).scr = u
    BY <1>0, ScrFields
  <2> QED BY <1>1, <2>1 DEF Gentle
<1>2. ASSUME NEW v, v.scr = s PROVE Fits(v)
  BY <1>2, GentleWays DEF Gentle
<1>3. /\ Fits(Then(ReverseIndex(s))) /\ Fits(Then(Index(s))) /\ Fits(Then(NextLine(s)))
      /\ Fits(Then(SaveCursor(s))) /\ Fits(Then(SetTabStop(s)))
  <2>1. /\ Gentle(s, ReverseIndex(s)) /\ Gentle(s, Index(s)) /\ Gentle(s, NextLine(s))
        /\ Gentle(s, SaveCursor(s)) /\ Gentle(s, SetTabStop(s))
    BY <1>0, EditCalm, IndexStirred, NextLineStirred, SettingCalm, GentleWays
  <2> HIDE DEF Then, Fits, s
  <2> QED BY <1>1, <2>1
<1>4. ASSUME NEW on PROVE Fits(Then([s EXCEPT !.modes.app_keypad = on]))
  <2>1. PICK m : [s EXCEPT !.modes.app_keypad = on] = SetModes(s, m)
    BY DEF SetModes
  <2>2. Gentle(s, SetModes(s, m))
    BY <1>0, SettingCalm, GentleWays
  <2> HIDE DEF Then, Fits, s
  <2> QED BY <1>1, <2>1, <2>2
<1>5. Fits(Then([s EXCEPT !.modes.app_keypad = TRUE])) /\ Fits(Then([s EXCEPT !.modes.app_keypad = FALSE]))
  BY <1>4
<1>6. b = "8" => Fits(Then(RestoreCursor(s)))
  <2>1. Then(RestoreCursor(s)).scr = RestoreCursor(s) /\ Quiet(s, RestoreCursor(s))
    BY <1>0, ScrFields, PenQuiet
  <2> QED BY <2>1 DEF Effect
<1>7. b = "c" => Fits(Then(FullReset(s)))
  <2>1. Then(FullReset(s)).scr = FullReset(s) /\ WasReset(s, FullReset(s))
    BY <1>0, ScrFields, FullResetEffect
  <2> QED BY <2>1 DEF Effect
<1>8. /\ Goto(ResetCsi(t), "Csi").scr = s /\ [Goto(t, "Osc") EXCEPT !.osc = <<>>].scr = s
      /\ [Goto(t, "EscInt") EXCEPT !.esc_inter = b].scr = s
      /\ Goto(t, "Str").scr = s /\ Goto(t, "Ground").scr = s
  BY <1>0 DEF Goto, ResetCsi, IsTerm, Map, TermFields
<1>9. /\ Fits(Goto(ResetCsi(t), "Csi")) /\ Fits([Goto(t, "Osc") EXCEPT !.osc = <<>>])
      /\ Fits([Goto(t, "EscInt") EXCEPT !.esc_inter = b])
      /\ Fits(Goto(t, "Str")) /\ Fits(Goto(t, "Ground"))
  <2> HIDE DEF Fits
  <2> QED BY <1>2, <1>8
<1> HIDE DEF Fits
<1>10. Fits(Escape(t, b))
  BY <1>3, <1>5, <1>6, <1>7, <1>9 DEF Escape
<1> QED BY <1>10 DEF Fits

\* A character set is selected: the screen stays.
LEMMA EscapeIntermediateScr ==
  ASSUME NEW t, Well(t), NEW b PROVE EscapeIntermediate(t, b).scr = t.scr
<1> DEFINE v == Goto(t, "Ground")
           set == IF b = "0" THEN TRUE ELSE FALSE
<1>1. v.scr = t.scr /\ IsTerm(v)
  BY WellFacts, ScrFields
<1> HIDE DEF v, set
<1>2. [v EXCEPT !.g0_special = set].scr = t.scr /\ [v EXCEPT !.g1_special = set].scr = t.scr
  BY <1>1 DEF IsTerm, Map, TermFields
<1> QED BY <1>1, <1>2 DEF EscapeIntermediate, v, set

\* A complete parameter changes neither screen nor marker.
LEMMA FlushParamScr ==
  ASSUME NEW t, Well(t), NEW next
  PROVE  FlushParam(t, next).scr = t.scr /\ FlushParam(t, next).priv = t.priv
  BY WellFacts DEF FlushParam, IsTerm, Map, TermFields

---------------------------------------------------------------------------
(* The private modes.                                                      *)

\* One mode keeps the cells and the pen, or switches the screen.
Modest(s, u) == SameCells(s, u) /\ u.pen = s.pen
Moded(s, on, u) ==
  ScreenGood(u) /\ (Modest(s, u) \/ (Switched(s, u) /\ s.buf_alt # on /\ u.buf_alt = on))
\* So does every private mode that is set or reset.
LEMMA OneMode ==
  ASSUME NEW s, Sound(s), NEW n, NEW on \in BOOLEAN PROVE Moded(s, on, SetDecMode(s, n, on))
<1>0. ScreenGood(s)
  BY DEF Sound
<1>1. ASSUME NEW m PROVE Modest(s, SetModes(s, m)) /\ Modest(s, CursorTo(SetModes(s, m), 0, 0))
  <2> DEFINE v == SetModes(s, m)
  <2>1. Kept(s, v) /\ Calm(s, v)
    BY <1>0, ModesGood, SettingCalm
  <2> HIDE DEF v
  <2>2. Kept(v, CursorTo(v, 0, 0)) /\ Calm(v, CursorTo(v, 0, 0))
    BY <2>1, CursorToGood, CursorCalm DEF Kept
  <2>3. Modest(s, v) /\ Modest(s, CursorTo(v, 0, 0))
    BY <2>1, <2>2, KeptTwice, QuietTwice DEF Kept, Calm, Modest
  <2> QED BY <2>3 DEF v
<1> DEFINE Fits(u) == Modest(s, u) \/ (Switched(s, u) /\ s.buf_alt # on /\ u.buf_alt = on)
<1>2. Fits(s)
  BY DEF Modest, SameCells
<1>3. Fits(SetAltScreen(s, on))
  BY <1>0, <1>2, SetAltEffect
<1>4. Fits([s EXCEPT !.modes.app_cursor_keys = on])
  BY <1>1 DEF SetModes
<1>5. Fits(CursorTo([s EXCEPT !.modes.origin = on], 0, 0))
  BY <1>1 DEF SetModes
<1>6. Fits([s EXCEPT !.modes.auto_wrap = on])
  BY <1>1 DEF SetModes
<1>7. Fits([s EXCEPT !.modes.cursor_visible = on])
  BY <1>1 DEF SetModes
<1>8. ASSUME NEW m PROVE Fits([s EXCEPT !.modes.mouse = m])
  BY <1>1 DEF SetModes
<1>9. /\ Fits([s EXCEPT !.modes.mouse = Mode(on, "X10")])
      /\ Fits([s EXCEPT !.modes.mouse = Mode(on, "Normal")])
      /\ Fits([s EXCEPT !.modes.mouse = Mode(on, "ButtonEvent")])
      /\ Fits([s EXCEPT !.modes.mouse = Mode(on, "AnyEvent")])
  <2> HIDE DEF Fits
  <2> QED BY <1>8
<1>10. Fits([s EXCEPT !.modes.mouse_sgr = on])
  BY <1>1 DEF SetModes
<1>11. Fits([s EXCEPT !.modes.bracketed_paste = on])
  BY <1>1 DEF SetModes
<1> HIDE DEF Fits
<1>12. Fits(SetDecMode(s, n, on))
  BY <1>2, <1>3, <1>4, <1>5, <1>6, <1>7, <1>9, <1>10, <1>11 DEF SetDecMode
<1>13. ScreenGood(SetDecMode(s, n, on))
  BY SetDecModeSound DEF Sound
<1> QED BY <1>12, <1>13 DEF Moded, Fits

ModedOp(c, v, x) == SetDecMode(v, x, c[1])
ModedInv(c, k, v) == Sound(v) /\ Moded(c[2], c[1], v)
Moding == INSTANCE FoldLaw WITH Op <- ModedOp, Inv <- ModedInv
\* So do any number of them.
LEMMA ModedTwice ==
  ASSUME NEW s, NEW on \in BOOLEAN, NEW v, NEW u, Moded(s, on, v), Moded(v, on, u)
  PROVE  Moded(s, on, u)
<1>1. CASE Modest(s, v)
  BY <1>1 DEF Moded, Modest, SameCells, Switched
<1>2. CASE Switched(s, v) /\ s.buf_alt # on /\ v.buf_alt = on
  <2>1. Modest(v, u)
    BY <1>2 DEF Moded
  <2>2. Switched(s, u)
    BY <1>2, <2>1 DEF Switched, Modest, SameCells, RowsOf, Columns
  <2> QED BY <1>2, <2>1, <2>2 DEF Moded, Modest, SameCells
<1> QED BY <1>1, <1>2 DEF Moded

\* Only leaving the alternate screen touches the pen.
LEMMA DecModeEffect ==
  ASSUME NEW t, Well(t), NEW f
  PROVE  /\ Effect(t.scr, DecMode(t, f).scr, FALSE)
         /\ \/ DecMode(t, f).scr.pen = t.scr.pen
            \/ f = "l" /\ t.scr.buf_alt /\ ~DecMode(t, f).scr.buf_alt
<1>1. CASE f \notin {"h", "l"}
  BY <1>1, GentleWays DEF DecMode, Gentle
<1>2. CASE f \in {"h", "l"}
  <2> DEFINE on == f = "h"
             c == <<on, t.scr>>
             s == Moding!Fold(c, t.scr, t.params)
  <2>0. c[1] = on /\ c[2] = t.scr
    OBVIOUS
  <2>1. DecMode(t, f) = On(t, s)
    BY <1>2 DEF DecMode, Moding!Fold, ModedOp, FoldLeft, Moding!FoldLeft, MapThenFoldSet,
       Moding!MapThenFoldSet, Max, Moding!Max
  <2>2. on \in BOOLEAN /\ Len(t.params) \in Nat /\ DOMAIN t.params = 1 .. Len(t.params)
        /\ Sound(t.scr)
    BY DEF Well, Numbers
  <2>3. (on = TRUE /\ f = "h") \/ (on = FALSE /\ f = "l")
    BY <1>2
  <2> HIDE DEF on, c
  <2>4. ModedInv(c, 0, t.scr)
    BY <2>0, <2>2 DEF ModedInv, Moded, Modest, SameCells, Sound
  <2>5. ASSUME NEW v, NEW k \in 1 .. Len(t.params), ModedInv(c, k - 1, v)
        PROVE  ModedInv(c, k, ModedOp(c, v, t.params[k]))
    <3> DEFINE u == SetDecMode(v, t.params[k], on)
    <3>1. Sound(v) /\ Moded(t.scr, on, v)
      BY <2>0, <2>5 DEF ModedInv
    <3>2. Sound(u) /\ Moded(v, on, u)
      BY <2>2, <3>1, SetDecModeSound, OneMode
    <3> HIDE DEF u
    <3>3. Moded(t.scr, on, u)
      BY <2>2, <3>1, <3>2, ModedTwice
    <3> QED BY <2>0, <3>2, <3>3 DEF ModedInv, ModedOp, u
  <2>6. ModedInv(c, Len(t.params), s)
    <3> HIDE DEF s
    <3> QED BY <2>2, <2>4, <2>5, Moding!FoldKeeps DEF s
  <2> HIDE DEF s
  <2>7. DecMode(t, f).scr = s /\ Moded(t.scr, on, s)
    BY <2>0, <2>1, <2>6, WellFacts, ScrFields DEF ModedInv
  <2>8. CASE Modest(t.scr, s)
    BY <2>7, <2>8 DEF Modest, SameCells, Effect, Quiet
  <2>9. CASE Switched(t.scr, s) /\ t.scr.buf_alt # on /\ s.buf_alt = on
    <3>1. t.scr.buf_alt \in BOOLEAN
      BY WellFacts DEF ScreenGood, Others
    <3>2. Effect(t.scr, s, FALSE)
      BY <2>9 DEF Effect
    <3>3. CASE on = TRUE /\ f = "h"
      BY <2>7, <2>9, <3>1, <3>2, <3>3 DEF Switched
    <3>4. CASE on = FALSE /\ f = "l"
      <4>1. t.scr.buf_alt /\ ~s.buf_alt
        BY <2>9, <3>1, <3>4
      <4> QED BY <2>7, <3>2, <3>4, <4>1
    <3> QED BY <2>3, <3>3, <3>4
  <2> QED BY <2>7, <2>8, <2>9 DEF Moded
<1> QED BY <1>1, <1>2

\* The insert mode and replies leave screen and pen alone.
LEMMA ReplyGentle ==
  ASSUME NEW t, Well(t), NEW n, NEW on
  PROVE  /\ Gentle(t.scr, StdMode(t, on).scr) /\ Gentle(t.scr, DeviceStatus(t, n).scr)
         /\ Gentle(t.scr, PrimaryDa(t).scr)
<1>0. IsTerm(t) /\ ScreenGood(t.scr) /\ Gentle(t.scr, t.scr)
  BY WellFacts, GentleWays
<1>1. ASSUME NEW reply PROVE Respond(t, reply).scr = t.scr
  BY <1>0 DEF Respond, IsTerm, Map, TermFields
<1>2. PICK m : [t.scr EXCEPT !.modes.insert = on] = SetModes(t.scr, m)
  BY DEF SetModes
<1>3. StdMode(t, on).scr \in {t.scr, SetModes(t.scr, m)}
  BY <1>0, <1>2, ScrFields DEF StdMode
<1>4. Gentle(t.scr, SetModes(t.scr, m))
  BY <1>0, SettingCalm, GentleWays
<1>5. DeviceStatus(t, n).scr = t.scr /\ PrimaryDa(t).scr = t.scr
  BY <1>1 DEF DeviceStatus, PrimaryDa
<1> QED BY <1>0, <1>3, <1>4, <1>5

\* A sequence without a marker: only graphic rendition and restoring the cursor
\* touch the pen.
LEMMA StandardEffect ==
  ASSUME NEW t, Well(t), NEW f
  PROVE  /\ Effect(t.scr, Standard(t, f).scr, FALSE)
         /\ f \notin {"m", "u"} => Standard(t, f).scr.pen = t.scr.pen
<1> DEFINE s == t.scr
           n == Times(t)
           Fits(v) == Effect(s, v.scr, FALSE) /\ (f \notin {"m", "u"} => v.scr.pen = s.pen)
           S(u) == Fits(On(t, u))
<1>0. ScreenGood(s) /\ n \in Nat /\ n \in Int /\ IsTerm(t)
  BY WellFacts, TimesNat
<1>1. ASSUME NEW v, Gentle(s, v.scr) PROVE Fits(v)
  BY <1>1 DEF Gentle
<1>2. ASSUME NEW u, Gentle(s, u) PROVE S(u)
  <2>1. On(t, u).scr = u
    BY <1>0, ScrFields
  <2> QED BY <1>2, <2>1 DEF Gentle
<1>3. ASSUME NEW u, Calm(s, u) PROVE S(u)
  <2> HIDE DEF S, s
  <2> QED BY <1>2, <1>3, GentleWays
<1> HIDE DEF Fits
<1>4. /\ S(CursorUp(s, n)) /\ S(CursorDown(s, n)) /\ S(CursorFwd(s, n)) /\ S(CursorBack(s, n))
  <2> HIDE DEF s, n, S
  <2> QED BY <1>0, <1>3, CursorCalm
<1>5. S(CursorDown(CarriageReturn(s), n)) /\ S(CursorUp(CarriageReturn(s), n))
  <2> HIDE DEF s, n, S
  <2> DEFINE r == CarriageReturn(s)
  <2>1. Calm(s, r) /\ ScreenGood(r)
    BY <1>0, CarriageReturnGood, CursorCalm DEF Kept
  <2> HIDE DEF r
  <2>2. Calm(r, CursorDown(r, n)) /\ Calm(r, CursorUp(r, n))
    BY <2>1, CursorCalm
  <2>3. Calm(s, CursorDown(r, n)) /\ Calm(s, CursorUp(r, n))
    BY <2>1, <2>2, QuietTwice
  <2> QED BY <1>3, <2>3 DEF r
<1>6. /\ S(CursorCol(s, P(t, 1, 1) - 1)) /\ S(CursorRow(s, P(t, 1, 1) - 1))
      /\ S(CursorTo(s, P(t, 1, 1) - 1, P(t, 2, 1) - 1))
  <2> HIDE DEF s, n, S
  <2> QED BY <1>0, <1>3, CursorCalm
<1>7. /\ S(EraseInDisplay(s, P(t, 1, 0))) /\ S(EraseInLine(s, P(t, 1, 0))) /\ S(EraseChars(s, n))
  <2> HIDE DEF s, n, S
  <2> QED BY <1>0, <1>2, <1>3, EraseInDisplayEffect, EditCalm, GentleWays
<1>8. /\ S(InsertLines(s, n)) /\ S(DeleteLines(s, n)) /\ S(DeleteChars(s, n))
      /\ S(InsertChars(s, n)) /\ S(ScrollDown(s, n))
  <2> HIDE DEF s, n, S
  <2> QED BY <1>0, <1>3, EditCalm
<1>9. S(ScrollUp(s, n))
  <2> HIDE DEF s, n, S
  <2> QED BY <1>0, <1>2, ScrollUpStirred, GentleWays
<1>10. S(SetScrollRegion(s, P(t, 1, 0), P(t, 2, 0)))
  <2> HIDE DEF s, n, S
  <2> QED BY <1>0, <1>3, SettingCalm
<1>11. /\ S(IF P(t, 1, 0) = 3 THEN ClearAllTabs(s) ELSE ClearTabStop(s)) /\ S(SaveCursor(s))
  <2> HIDE DEF s, n, S
  <2> QED BY <1>0, <1>3, SettingCalm
<1>12. f = "m" => S(SetGraphics(s, t.params, t.colon))
  <2>1. On(t, SetGraphics(s, t.params, t.colon)).scr = SetGraphics(s, t.params, t.colon)
        /\ Quiet(s, SetGraphics(s, t.params, t.colon))
    BY <1>0, ScrFields, PenQuiet
  <2> QED BY <2>1 DEF Effect, Fits
<1>13. f = "u" => S(RestoreCursor(s))
  <2>1. On(t, RestoreCursor(s)).scr = RestoreCursor(s) /\ Quiet(s, RestoreCursor(s))
    BY <1>0, ScrFields, PenQuiet
  <2> QED BY <2>1 DEF Effect, Fits
<1>14. Fits(StdMode(t, f = "h")) /\ Fits(DeviceStatus(t, P(t, 1, 0))) /\ Fits(PrimaryDa(t)) /\ Fits(t)
  <2> DEFINE on == f = "h"
  <2>1. Gentle(s, StdMode(t, on).scr) /\ Gentle(s, DeviceStatus(t, P(t, 1, 0)).scr)
        /\ Gentle(s, PrimaryDa(t).scr) /\ Gentle(s, t.scr)
    <3> HIDE DEF on
    <3> QED BY ReplyGentle, GentleWays
  <2> HIDE DEF on, s
  <2>2. Fits(StdMode(t, on)) /\ Fits(DeviceStatus(t, P(t, 1, 0))) /\ Fits(PrimaryDa(t)) /\ Fits(t)
    BY <1>1, <2>1
  <2> QED BY <2>2 DEF on
<1>15. Fits(Standard(t, f))
  BY <1>4, <1>5, <1>6, <1>7, <1>8, <1>9, <1>10, <1>11, <1>12, <1>13, <1>14 DEF Standard
<1> QED BY <1>15 DEF Fits

\* A sequence ends, with its effect.
LEMMA FinishEffect ==
  ASSUME NEW t, Well(t), NEW f
  PROVE  /\ Effect(t.scr, Finish(t, f).scr, FALSE)
         /\ \/ Finish(t, f).scr.pen = t.scr.pen
            \/ t.priv \notin {"?", ">", "<", "="} /\ f \in {"m", "u"}
            \/ t.priv = "?" /\ f = "l" /\ t.scr.buf_alt /\ ~Finish(t, f).scr.buf_alt
<1> DEFINE u == FlushParam(t, FALSE)
           v == DispatchCsi(u, f)
<1>1. Well(u) /\ u.scr = t.scr /\ u.priv = t.priv
  BY FlushParamWell, FlushParamScr
<1> HIDE DEF u
<1>2. IsTerm(v)
  <2>1. Stays(u, DecMode(u, f)) /\ Stays(u, PrimaryDa(u)) /\ Stays(u, u)
        /\ Stays(u, Standard(u, f))
    BY <1>1, DecModeWell, ReplyWell, StandardWell DEF Stays
  <2>2. Stays(u, v)
    BY <2>1 DEF DispatchCsi
  <2> QED BY <2>2, WellFacts DEF Stays
<1>3. Finish(t, f).scr = v.scr
  <2> HIDE DEF v
  <2> QED BY <1>2, ScrFields DEF Finish, v, u
<1>4. /\ Effect(t.scr, v.scr, FALSE)
      /\ \/ v.scr.pen = t.scr.pen
         \/ t.priv \notin {"?", ">", "<", "="} /\ f \in {"m", "u"}
         \/ t.priv = "?" /\ f = "l" /\ t.scr.buf_alt /\ ~v.scr.buf_alt
  <2>1. Gentle(t.scr, t.scr) /\ Gentle(t.scr, PrimaryDa(u).scr)
    BY <1>1, GentleWays, ReplyGentle
  <2>2. /\ Effect(t.scr, DecMode(u, f).scr, FALSE)
        /\ \/ DecMode(u, f).scr.pen = t.scr.pen
           \/ f = "l" /\ t.scr.buf_alt /\ ~DecMode(u, f).scr.buf_alt
    BY <1>1, DecModeEffect
  <2>3. /\ Effect(t.scr, Standard(u, f).scr, FALSE)
        /\ f \notin {"m", "u"} => Standard(u, f).scr.pen = t.scr.pen
    BY <1>1, StandardEffect
  <2>4. CASE t.priv = "?"
    <3>1. v = DecMode(u, f)
      BY <1>1, <2>4 DEF DispatchCsi
    <3> QED BY <2>2, <2>4, <3>1
  <2>5. CASE t.priv \in {">", "<", "="}
    <3>1. v \in {PrimaryDa(u), u}
      BY <1>1, <2>5 DEF DispatchCsi
    <3> QED BY <1>1, <2>1, <3>1 DEF Gentle
  <2>6. CASE t.priv \notin {"?", ">", "<", "="}
    <3>1. v = Standard(u, f)
      BY <1>1, <2>6 DEF DispatchCsi
    <3> QED BY <2>3, <2>6, <3>1
  <2> QED BY <2>4, <2>5, <2>6
<1> QED BY <1>3, <1>4

---------------------------------------------------------------------------
(* A byte.                                                                 *)

\* The effect of the byte b, and what may have changed the pen.
Does(t, b, v) ==
  Effect(t.scr, v.scr, Writes(t, b)) /\ (v.scr.pen = t.scr.pen \/ SetsPen(t, b, v))

\* A gentle byte does no more than it may.
LEMMA GentleDoes == ASSUME NEW t, NEW b, NEW v, Gentle(t.scr, v.scr) PROVE Does(t, b, v)
  BY GentleEffect DEF Does

\* A byte of a control sequence,
LEMMA CsiDoes == ASSUME NEW t, Well(t), t.state = "Csi", NEW b PROVE Does(t, b, Csi(t, b))
<1>1. Gentle(t.scr, t.scr) /\ IsTerm(t)
  BY GentleWays, WellFacts
<1>2. Does(t, b, C0(t, b))
  BY C0Gentle, GentleDoes
<1>3. ASSUME NEW v, v.scr = t.scr PROVE Does(t, b, v)
  BY <1>1, <1>3, GentleDoes
<1>4. /\ [t EXCEPT !.priv = b].scr = t.scr
      /\ [t EXCEPT !.cur = AsI32(@ * 10 + DigitOf[b]), !.cur_has = TRUE].scr = t.scr
      /\ [Goto(t, "CsiInt") EXCEPT !.inter = b].scr = t.scr
  BY <1>1 DEF Goto, IsTerm, Map, TermFields
<1>5. FlushParam(t, FALSE).scr = t.scr /\ FlushParam(t, TRUE).scr = t.scr
  BY FlushParamScr
<1>6. /\ Does(t, b, [t EXCEPT !.priv = b])
      /\ Does(t, b, [t EXCEPT !.cur = AsI32(@ * 10 + DigitOf[b]), !.cur_has = TRUE])
      /\ Does(t, b, [Goto(t, "CsiInt") EXCEPT !.inter = b])
      /\ Does(t, b, FlushParam(t, FALSE)) /\ Does(t, b, FlushParam(t, TRUE))
  BY <1>3, <1>4, <1>5
<1>7. Does(t, b, Finish(t, b))
  <2> DEFINE v == Finish(t, b)
             drawn == Writes(t, b)
  <2>1. Effect(t.scr, v.scr, FALSE) /\ (v.scr.pen = t.scr.pen \/ SetsPen(t, b, v))
    BY FinishEffect DEF SetsPen, EndsCsi
  <2> HIDE DEF v, drawn
  <2>2. Effect(t.scr, v.scr, drawn)
    BY <2>1, EffectWeak
  <2> QED BY <2>1, <2>2 DEF Does, v, drawn
<1> QED BY <1>2, <1>6, <1>7 DEF Csi

\* after an intermediate one too,
LEMMA CsiIntermediateDoes ==
  ASSUME NEW t, Well(t), t.state = "CsiInt", NEW b PROVE Does(t, b, CsiIntermediate(t, b))
<1>1. Does(t, b, [t EXCEPT !.inter = b])
  <2>1. [t EXCEPT !.inter = b].scr = t.scr
    BY WellFacts DEF IsTerm, Map, TermFields
  <2> QED BY <2>1, GentleWays, GentleDoes
<1>2. Does(t, b, Finish(t, b))
  <2> DEFINE v == Finish(t, b)
             drawn == Writes(t, b)
  <2>1. Effect(t.scr, v.scr, FALSE) /\ (v.scr.pen = t.scr.pen \/ SetsPen(t, b, v))
    BY FinishEffect DEF SetsPen, EndsCsi
  <2> HIDE DEF v, drawn
  <2>2. Effect(t.scr, v.scr, drawn)
    BY <2>1, EffectWeak
  <2> QED BY <2>1, <2>2 DEF Does, v, drawn
<1> QED BY <1>1, <1>2 DEF CsiIntermediate

\* A command that is complete marks a prompt at most.
LEMMA OscDoneGentle == ASSUME NEW t, Well(t) PROVE Gentle(t.scr, OscDone(t).scr)
<1> DEFINE g == Goto(t, "Ground")
           v == [g EXCEPT !.osc = <<>>]
<1>1. g.scr = t.scr /\ IsTerm(g)
  BY WellFacts, ScrFields
<1> HIDE DEF g
<1>2. v.scr = t.scr /\ IsTerm(v) /\ ScreenGood(v.scr)
  BY <1>1, WellFacts DEF IsTerm, Map, TermFields
<1>3. ASSUME NEW x
      PROVE  /\ [v EXCEPT !.sinks.title = x].scr = t.scr /\ [v EXCEPT !.sinks.cwd = x].scr = t.scr
             /\ [v EXCEPT !.sinks.clipboard = x].scr = t.scr
  <2> HIDE DEF v
  <2> QED BY <1>2 DEF IsTerm, Map, TermFields
<1>4. Gentle(t.scr, On(v, MarkPrompt(v.scr)).scr)
      /\ \A exit : Gentle(t.scr, On(v, MarkCmdExit(v.scr, exit)).scr)
  <2> HIDE DEF v
  <2>1. Gentle(t.scr, MarkPrompt(v.scr))
    BY <1>2, SettingCalm, GentleWays
  <2>2. ASSUME NEW exit PROVE Gentle(t.scr, MarkCmdExit(v.scr, exit))
    BY <1>2, SettingCalm, GentleWays
  <2>3. \A s : On(v, s).scr = s
    BY <1>2, ScrFields
  <2> QED BY <2>1, <2>2, <2>3
<1>5. OscDone(t) \in {v, On(v, MarkPrompt(v.scr))}
                     \cup {On(v, MarkCmdExit(v.scr, exit)) : exit \in {ExitOf(Part(Rest(Rest(t.osc))))}}
                     \cup {[v EXCEPT !.sinks.title = x] : x \in {Rest(t.osc)}}
                     \cup {[v EXCEPT !.sinks.cwd = x] : x \in {After(Rest(t.osc), "/")}}
                     \cup {[v EXCEPT !.sinks.clipboard = x] : x \in {DecodesTo(Rest(Rest(t.osc)))}}
  <2> HIDE DEF v
  <2> QED BY DEF OscDone, v, g
<1>6. Gentle(t.scr, t.scr)
  BY GentleWays
<1> HIDE DEF v
<1> QED BY <1>2, <1>3, <1>4, <1>5, <1>6

\* and any byte in any state does what it may.
LEMMA ParseByteDoes == ASSUME NEW t, Well(t), NEW b PROVE Does(t, b, ParseByte(t, b))
<1>1. Gentle(t.scr, t.scr) /\ IsTerm(t) /\ t.state \in ParserStates
  BY GentleWays, WellFacts
<1>2. CASE t.state = "Ground"
  <2> DEFINE drawn == b # "LF"
  <2>1. Writes(t, b) = drawn
    BY <1>2 DEF Writes
  <2>2. Effect(t.scr, Ground(t, b).scr, drawn) /\ Ground(t, b).scr.pen = t.scr.pen
    BY GroundEffect
  <2>3. CASE t.need = 0 /\ Printable(b)
    <3>1. ParseByte(t, b) = PrintAscii(t, b)
      BY <1>2, <2>3 DEF ParseByte
    <3>2. drawn = TRUE
      BY <2>3 DEF Printable, C0Codes
    <3> QED BY <2>1, <3>1, <3>2, PrintAsciiEffect DEF Does
  <2>4. CASE ~(t.need = 0 /\ Printable(b))
    <3>1. ParseByte(t, b) = Ground(t, b)
      BY <1>2, <2>4 DEF ParseByte, Step
    <3> QED BY <2>1, <2>2, <3>1 DEF Does
  <2> QED BY <2>3, <2>4
<1>3. CASE t.state # "Ground"
  <2>1. ParseByte(t, b) = Step(t, b)
    BY <1>3 DEF ParseByte
  <2>2. CASE t.state = "Esc"
    <3> DEFINE drawn == Writes(t, b)
    <3>1. Effect(t.scr, Escape(t, b).scr, FALSE)
          /\ (Escape(t, b).scr.pen = t.scr.pen \/ SetsPen(t, b, Escape(t, b)))
      BY <2>2, EscapeEffect DEF SetsPen
    <3> HIDE DEF drawn
    <3>2. Effect(t.scr, Escape(t, b).scr, drawn)
      BY <3>1, EffectWeak
    <3> QED BY <2>1, <2>2, <3>1, <3>2 DEF Does, drawn, Step
  <2>3. CASE t.state = "EscInt"
    BY <1>1, <2>1, <2>3, EscapeIntermediateScr, GentleDoes DEF Step
  <2>4. CASE t.state = "Csi"
    BY <2>1, <2>4, CsiDoes DEF Step
  <2>5. CASE t.state = "CsiInt"
    BY <2>1, <2>5, CsiIntermediateDoes DEF Step
  <2>6. CASE t.state = "Osc"
    <3>1. Gentle(t.scr, OscDone(t).scr)
      BY OscDoneGentle
    <3>2. Goto(t, "OscEsc").scr = t.scr /\ [t EXCEPT !.osc = Append(@, b)].scr = t.scr
      BY <1>1 DEF Goto, IsTerm, Map, TermFields
    <3>3. Gentle(t.scr, Osc(t, b).scr)
      BY <1>1, <3>1, <3>2 DEF Osc
    <3> QED BY <2>1, <2>6, <3>3, GentleDoes DEF Step
  <2>7. CASE t.state = "OscEsc"
    <3> DEFINE g == Goto(t, "Esc")
               drawn == Writes(t, b)
    <3>1. Well(g) /\ g.scr = t.scr
      BY GotoWell DEF ParserStates
    <3> HIDE DEF g
    <3>2. CASE b = "\\"
      <4>1. Does(t, b, OscDone(t))
        BY OscDoneGentle, GentleDoes
      <4> QED BY <2>1, <2>7, <3>2, <4>1 DEF Step, OscEsc
    <3>3. CASE b # "\\"
      <4> DEFINE v == Escape(g, b)
      <4>1. Step(t, b) = v
        BY <2>7, <3>3 DEF Step, OscEsc, g
      <4>2. Effect(t.scr, v.scr, FALSE) /\ (v.scr.pen = t.scr.pen \/ SetsPen(t, b, v))
        BY <2>7, <3>1, EscapeEffect DEF SetsPen
      <4> HIDE DEF v, drawn
      <4>3. Effect(t.scr, v.scr, drawn)
        BY <4>2, EffectWeak
      <4> QED BY <2>1, <4>1, <4>2, <4>3 DEF Does, drawn
    <3> QED BY <3>2, <3>3
  <2>8. CASE t.state = "Str"
    <3>1. Goto(t, "Ground").scr = t.scr /\ [Goto(t, "OscEsc") EXCEPT !.osc = <<>>].scr = t.scr
      BY <1>1 DEF Goto, IsTerm, Map, TermFields
    <3>2. StrConsume(t, b).scr = t.scr
      BY <3>1 DEF StrConsume
    <3> QED BY <1>1, <2>1, <2>8, <3>2, GentleDoes DEF Step
  <2> QED BY <1>1, <1>3, <2>2, <2>3, <2>4, <2>5, <2>6, <2>7, <2>8 DEF ParserStates
<1> QED BY <1>2, <1>3

---------------------------------------------------------------------------
(* Byte by byte.                                                           *)

\* Bytes parsed one more are one more step of the parser.
LEMMA ParseStep ==
  ASSUME NEW t, Well(t), NEW q, Listed(q), NEW k \in 1 .. Len(q)
  PROVE  /\ Well(Parse(t, SubSeq(q, 1, k - 1)))
         /\ Parse(t, SubSeq(q, 1, k)) = ParseByte(Parse(t, SubSeq(q, 1, k - 1)), q[k])
<1>1. PICK T : q \in Seq(T)
  BY DEF Listed
<1> DEFINE j == k - 1
           a == SubSeq(q, 1, j)
<1>2. Parsing!Fold(0, t, SubSeq(q, 1, k)) = ByteOp(0, Parsing!Fold(0, t, SubSeq(q, 1, k - 1)), q[k])
  BY <1>1, Parsing!FoldStep
<1>3. Parse(t, SubSeq(q, 1, k)) = Parsing!Fold(0, t, SubSeq(q, 1, k)) /\ Parse(t, a) = Parsing!Fold(0, t, a)
  BY ParseIsFold
<1>4. Listed(a)
  <2>1. j \in 0 .. Len(q) /\ Len(q) \in Nat
    BY <1>1
  <2> HIDE DEF j
  <2>2. a \in Seq(T)
    BY <1>1, <2>1
  <2> QED BY <2>2 DEF Listed
<1>5. Well(Parse(t, a))
  <2> HIDE DEF a
  <2> QED BY <1>4, ParseWell
<1> QED BY <1>2, <1>3, <1>5 DEF ByteOp

\* No bytes are no step.
LEMMA ParseNothing == ASSUME NEW t PROVE Parse(t, <<>>) = t
<1>1. Len(<<>>) = 0 /\ DOMAIN <<>> = 1 .. Len(<<>>)
  OBVIOUS
<1>2. PICK f : Parsing!Trace(0, f, t, <<>>) /\ Parsing!Fold(0, t, <<>>) = f[Len(<<>>)]
  BY <1>1, Parsing!FoldTrace
<1>3. f[0] = t
  BY <1>2 DEF Parsing!Trace
<1> QED BY <1>1, <1>2, <1>3, ParseIsFold
\* A chunk leaves the screen the parser leaves.
LEMMA FeedScr ==
  ASSUME NEW t, Well(t), NEW q, Listed(q) PROVE TermFeed(t, q).scr = Parse(Fresh(t), q).scr
<1> DEFINE u == Parse(Fresh(t), q)
<1>1. Well(u)
  BY FreshWell, ParseWell
<1>2. PICK r, ti, cw, cl, si :
        TermFeed(t, q) = [u EXCEPT !.respond = r, !.title = ti, !.cwd = cw, !.clipboard = cl, !.sinks = si]
  BY DEF TermFeed, Fresh
<1> HIDE DEF u
<1> QED BY <1>1, <1>2, WellFacts DEF IsTerm, Map, TermFields, u

\* The parser does what it may at byte k.
Byte(k) == Does(Parsed(k - 1), input'[k], Parsed(k)) /\ Well(Parsed(k - 1)) /\ Well(Parsed(k))
\* Whatever the chunk, it does so at each of its bytes.
LEMMA VtBytes == ASSUME VtInv, Next PROVE \A k \in 1 .. Len(input') : Byte(k)
<1> SUFFICES ASSUME NEW k \in 1 .. Len(input') PROVE Byte(k)
  OBVIOUS
<1>1. ASSUME NEW size \in Sizes, ResizeTo(size) PROVE FALSE
  BY <1>1 DEF ResizeTo
<1>2. PICK c \in Chunks : Feed(c)
  BY <1>1 DEF Next
<1>3. Listed(c) /\ input' = c
  BY <1>2, VtAssumption, OutputListed DEF Feed
<1> DEFINE t == Fresh(Drained(term))
           v == Parse(t, SubSeq(c, 1, k - 1))
           u == Parse(t, SubSeq(c, 1, k))
<1>4. Well(t)
  BY DrainedWell, FreshWell DEF VtInv, Stays
<1>5. Parsed(k - 1) = v /\ Parsed(k) = u
  BY <1>3 DEF Parsed, Fresh
<1> HIDE DEF t
<1>6. Well(v) /\ u = ParseByte(v, c[k])
  BY <1>3, <1>4, ParseStep
<1> HIDE DEF v, u
<1>7. Well(u) /\ Does(v, c[k], u)
  BY <1>6, ParseByteWell, ParseByteDoes
<1> QED BY <1>3, <1>5, <1>6, <1>7 DEF Byte

\* So the history grows with every byte, and a resize leaves it alone,
LEMMA VtGrows == ASSUME VtInv, Next
                 PROVE  /\ \A k \in 1 .. Len(input') : Grown(Parsed(k - 1).scr, Parsed(k).scr)
                        /\ input' = <<>> => Grown(term.scr, term'.scr)
<1>1. ASSUME NEW k \in 1 .. Len(input') PROVE Grown(Parsed(k - 1).scr, Parsed(k).scr)
  <2>1. Byte(k)
    BY VtBytes
  <2> QED BY <2>1, WellFacts, EffectGrown DEF Byte, Does
<1>2. ASSUME input' = <<>> PROVE Grown(term.scr, term'.scr)
  <2> DEFINE d == Drained(term)
  <2>1. Well(d) /\ d.scr = term.scr /\ ScreenGood(term.scr)
    BY DrainedWell, WellFacts DEF VtInv, Stays
  <2>2. VtInv'
    BY VtNext
  <2>3. ScreenGood(term'.scr)
    BY <2>2, WellFacts DEF VtInv
  <2>4. ASSUME NEW c \in Chunks, Feed(c) PROVE term'.scr = term.scr
    <3>1. c = <<>> /\ Listed(c) /\ term' = TermFeed(d, c)
      BY <1>2, <2>4, VtAssumption, OutputListed DEF Feed
    <3> HIDE DEF d
    <3>2. term'.scr = Parse(Fresh(d), c).scr
      BY <2>1, <3>1, FeedScr
    <3>3. Parse(Fresh(d), c) = Fresh(d)
      BY <3>1, ParseNothing
    <3>4. Fresh(d).scr = d.scr
      BY <2>1, WellFacts DEF Fresh, IsTerm, Map, TermFields
    <3> QED BY <2>1, <3>2, <3>3, <3>4
  <2>5. ASSUME NEW size \in Sizes, ResizeTo(size)
        PROVE  term'.scr.sb = term.scr.sb /\ term'.scr.scrolled_total = term.scr.scrolled_total
    <3> DEFINE u == Resize(term.scr, size[1], size[2])
    <3>1. u.sb = term.scr.sb /\ u.scrolled_total = term.scr.scrolled_total
      BY <2>1 DEF Resize, ScreenGood, IsScreen, Map, ScreenFields
    <3>2. term' = On(d, u)
      BY <2>5 DEF ResizeTo
    <3> HIDE DEF u, d
    <3>3. On(d, u).scr = u
      BY <2>1, WellFacts, ScrFields
    <3> QED BY <3>1, <3>2, <3>3
  <2>6. term'.scr.sb = term.scr.sb /\ term'.scr.scrolled_total = term.scr.scrolled_total
    BY <2>4, <2>5 DEF Next
  <2> QED BY <2>1, <2>3, <2>6, SameGrown
<1> QED BY <1>1, <1>2

\* the alternate screen is apart from the primary one,
LEMMA VtIsolated ==
  ASSUME VtInv, Next PROVE \A k \in 1 .. Len(input') : Isolated(Parsed(k - 1).scr, Parsed(k).scr)
<1> SUFFICES ASSUME NEW k \in 1 .. Len(input') PROVE Isolated(Parsed(k - 1).scr, Parsed(k).scr)
  OBVIOUS
<1>1. Byte(k)
  BY VtBytes
<1> QED BY <1>1, WellFacts, EffectIsolated DEF Byte, Does

\* and the pen is what graphic rendition and restoring made it.
LEMMA VtPen ==
  ASSUME VtInv, Next
  PROVE  \A k \in 1 .. Len(input') : \/ Parsed(k).scr.pen = Parsed(k - 1).scr.pen
                                     \/ SetsPen(Parsed(k - 1), input'[k], Parsed(k))
  BY VtBytes DEF Byte, Does

\* The history only grows at its end and gives way at its beginning: whatever
\* bytes a program writes in whatever state, with every one of them the ring of
\* scrollback is the end of the log of all lines that scrolled off, or was cleared.
THEOREM HistoryAlwaysGrows == Spec => HistoryGrows
<1>1. VtInv /\ [Next]_vars =>
        [/\ \A k \in 1 .. Len(input') : Grown(Parsed(k - 1).scr, Parsed(k).scr)
         /\ input' = <<>> => Grown(term.scr, term'.scr)]_vars
  BY VtGrows
<1> QED BY VtInit, VtNext, <1>1, PTL DEF Spec, HistoryGrows

\* Whatever an application writes on the alternate screen, the primary screen and
\* its history are as before when it leaves, and the alternate one starts blank.
THEOREM AltAlwaysIsolated == Spec => AltIsolated
<1>1. VtInv /\ [Next]_vars =>
        [\A k \in 1 .. Len(input') : Isolated(Parsed(k - 1).scr, Parsed(k).scr)]_vars
  BY VtIsolated
<1> QED BY VtInit, VtNext, <1>1, PTL DEF Spec, AltIsolated

\* No byte changes the pen but the end of a plain SGR, of a cursor restore, of a
\* reset or of leaving the alternate screen, however the sequences are cut.
THEOREM PenOnlySgr == Spec => PenIsSgr
<1>1. VtInv /\ [Next]_vars =>
        [\A k \in 1 .. Len(input') :
            \/ Parsed(k).scr.pen = Parsed(k - 1).scr.pen
            \/ SetsPen(Parsed(k - 1), input'[k], Parsed(k))]_vars
  BY VtPen
<1> QED BY VtInit, VtNext, <1>1, PTL DEF Spec, PenIsSgr

---------------------------------------------------------------------------
(* Prompt marks and the lines they are on.                                 *)

\* x is one of the first k elements.
AmongFirst(q, k, x) == \E i \in 1 .. k : q[i] = x
\* One element more: it and what was there before are there.
LEMMA AppendAmong ==
  ASSUME NEW v, Listed(v), NEW y, NEW x PROVE Among(Append(v, y), x) <=> x = y \/ Among(v, x)
<1> DEFINE w == Append(v, y)
<1>1. PICK T : v \in Seq(T)
  BY DEF Listed
<1>2. Len(v) \in Nat /\ Len(w) = Len(v) + 1 /\ w[Len(v) + 1] = y /\ \A i \in 1 .. Len(v) : w[i] = v[i]
  BY <1>1
<1> HIDE DEF w
<1>3. \A i : i \in 1 .. Len(w) <=> i \in 1 .. Len(v) \/ i = Len(v) + 1
  BY <1>2
<1>4. Among(w, x) <=> x = y \/ Among(v, x)
  BY <1>2, <1>3 DEF Among
<1> QED BY <1>4 DEF w

HaveOp(c, v, x) == Keep(c[1], v, x)
HaveInv(c, k, v) == Listed(v) /\ \A x : Among(v, x) <=> x \in c[1] /\ AmongFirst(c[2], k, x)
Having == INSTANCE FoldLaw WITH Op <- HaveOp, Inv <- HaveInv
\* What is retained of a sequence is what is in it and in the set.
LEMMA RetainedHas ==
  ASSUME NEW q, Listed(q), NEW S, NEW x PROVE Among(Retained(q, S), x) <=> x \in S /\ Among(q, x)
<1> DEFINE c == <<S, q>>
<1>1. Retained(q, S) = Having!Fold(c, <<>>, q)
  BY DEF Retained, Having!Fold, HaveOp, FoldLeft, Having!FoldLeft, MapThenFoldSet,
         Having!MapThenFoldSet, Max, Having!Max
<1>2. c[1] = S /\ c[2] = q /\ Len(q) \in Nat /\ DOMAIN q = 1 .. Len(q)
  BY ListedLen
<1> HIDE DEF c
<1>3. HaveInv(c, 0, <<>>)
  <2>1. <<>> \in Seq({}) /\ Len(<<>>) = 0
    OBVIOUS
  <2> QED BY <2>1 DEF HaveInv, Listed, Among, AmongFirst
<1>4. ASSUME NEW v, NEW k \in 1 .. Len(q), HaveInv(c, k - 1, v)
      PROVE  HaveInv(c, k, HaveOp(c, v, q[k]))
  <2>1. Listed(v) /\ \A y : Among(v, y) <=> y \in S /\ AmongFirst(q, k - 1, y)
    BY <1>2, <1>4 DEF HaveInv
  <2>2. \A i : i \in 1 .. k <=> i \in 1 .. k - 1 \/ i = k
    BY <1>2
  <2>3. \A y : AmongFirst(q, k, y) <=> AmongFirst(q, k - 1, y) \/ y = q[k]
    BY <2>2 DEF AmongFirst
  <2>4. CASE q[k] \notin S
    BY <1>2, <2>1, <2>3, <2>4 DEF HaveInv, HaveOp, Keep
  <2>5. CASE q[k] \in S
    <3>1. HaveOp(c, v, q[k]) = Append(v, q[k]) /\ Listed(Append(v, q[k]))
      BY <1>2, <2>1, <2>5, AppendListed DEF HaveOp, Keep
    <3>2. \A y : Among(Append(v, q[k]), y) <=> y = q[k] \/ Among(v, y)
      BY <2>1, AppendAmong
    <3> QED BY <1>2, <2>1, <2>3, <2>5, <3>1, <3>2 DEF HaveInv
  <2> QED BY <2>4, <2>5
<1>5. HaveInv(c, Len(q), Having!Fold(c, <<>>, q))
  BY <1>2, <1>3, <1>4, Having!FoldKeeps
<1> QED BY <1>1, <1>2, <1>5 DEF HaveInv, AmongFirst, Among

\* The number of the oldest line that is held.
Base(s) == s.scrolled_total - s.sb.count
\* The marks a window is told of are those whose lines are held.
LEMMA MarksHeld ==
  ASSUME NEW s, ScreenGood(s), NEW at, NEW exit
  PROVE  (\E j \in DOMAIN PromptMarks(s) : PromptMarks(s)[j] = <<at, exit>>)
           <=> \E m : /\ Among(s.prompts, m) /\ m[1] - Base(s) = at /\ m[2] = exit
                      /\ at \in 0 .. TotalRows(s) - 1
<1> DEFINE S == {m \in Range(s.prompts) : m[1] - Base(s) \in 0 .. s.sb.count + s.rows - 1}
           held == Retained(s.prompts, S)
<1>1. Listed(s.prompts) /\ DOMAIN s.prompts = 1 .. Len(s.prompts)
  BY NumberedListed, ListedLen DEF ScreenGood, Marks
<1>2. \A m : m \in S <=> Among(s.prompts, m) /\ m[1] - Base(s) \in 0 .. TotalRows(s) - 1
  <2>1. \A m : m \in Range(s.prompts) <=> Among(s.prompts, m)
    BY <1>1 DEF Range, Among
  <2>2. TotalRows(s) - 1 = s.sb.count + s.rows - 1
    BY CountFacts, SizeFacts DEF TotalRows
  <2> SUFFICES ASSUME NEW m
               PROVE  m \in S <=> Among(s.prompts, m) /\ m[1] - Base(s) \in 0 .. TotalRows(s) - 1
    OBVIOUS
  <2>3. m \in S <=> m \in Range(s.prompts) /\ m[1] - Base(s) \in 0 .. s.sb.count + s.rows - 1
    OBVIOUS
  <2> HIDE DEF S
  <2> QED BY <2>1, <2>2, <2>3
<1>3. PromptMarks(s) = [i \in DOMAIN held |-> <<held[i][1] - Base(s), held[i][2]>>]
  BY DEF PromptMarks, Base
<1> HIDE DEF S
<1>4. Listed(held) /\ \A m : Among(held, m) <=> m \in S /\ Among(s.prompts, m)
  BY <1>1, RetainedListed, RetainedHas
<1> HIDE DEF held
<1>5. DOMAIN held = 1 .. Len(held)
  BY <1>4, ListedLen
<1>6. DOMAIN PromptMarks(s) = 1 .. Len(held)
      /\ \A j \in 1 .. Len(held) : PromptMarks(s)[j] = <<held[j][1] - Base(s), held[j][2]>>
  BY <1>3, <1>5
<1>7. ASSUME NEW j \in DOMAIN PromptMarks(s), PromptMarks(s)[j] = <<at, exit>>
      PROVE  \E m : /\ Among(s.prompts, m) /\ m[1] - Base(s) = at /\ m[2] = exit
                    /\ at \in 0 .. TotalRows(s) - 1
  <2>1. Among(held, held[j]) /\ held[j][1] - Base(s) = at /\ held[j][2] = exit
    BY <1>6, <1>7 DEF Among
  <2> QED BY <1>2, <1>4, <2>1
<1>8. ASSUME NEW m, Among(s.prompts, m), m[1] - Base(s) = at, m[2] = exit, at \in 0 .. TotalRows(s) - 1
      PROVE  \E j \in DOMAIN PromptMarks(s) : PromptMarks(s)[j] = <<at, exit>>
  <2>1. Among(held, m)
    BY <1>2, <1>4, <1>8
  <2>2. PICK j \in 1 .. Len(held) : held[j] = m
    BY <2>1 DEF Among
  <2> QED BY <1>6, <1>8, <2>2
<1> QED BY <1>7, <1>8

\* When lines leave a screen whose region is all of it, the line that is now at
\* a place is the one that was further down, but for the one that is drawn.
LEMMA RolledLines ==
  ASSUME NEW s, ScreenGood(s), NEW u, ScreenGood(u), NEW k \in Nat, NEW drawn,
         Rolled(s, u, k, drawn), s.bot = s.rows - 1, NEW at \in Nat,
         at + (Base(u) - Base(s)) < TotalRows(s)
  PROVE  /\ at < TotalRows(u)
         /\ \/ AbsLine(u, at) = AbsLine(s, at + (Base(u) - Base(s)))
            \/ drawn /\ at = u.sb.count + u.cy
<1> DEFINE n == s.sb.count
           c == u.sb.count
           gone == Base(u) - Base(s)
           x == at + gone
<1>1. /\ n \in Nat /\ c \in Nat /\ s.scrolled_total \in Nat /\ s.rows \in Nat /\ s.rows > 0
      /\ c = Least(n + k, Cap) /\ u.scrolled_total = s.scrolled_total + k /\ Cap \in Nat /\ n <= Cap
      /\ u.rows = s.rows /\ ~s.buf_alt /\ ~u.buf_alt
  BY CountFacts, SizeFacts DEF Rolled, LogEnd, Framed
<1>2. gone = n + k - c /\ gone \in Nat
  BY <1>1 DEF Base, Least
<1>3. x \in Nat /\ x < n + s.rows /\ x = at + (n + k - c)
  BY <1>1, <1>2 DEF TotalRows
<1>4. at < TotalRows(u)
  BY <1>1, <1>3 DEF TotalRows
<1>5. AbsLine(s, x) = Logged(s, x)
  <2>1. CASE x < n
    BY <2>1 DEF AbsLine, Logged
  <2>2. CASE ~(x < n)
    <3>1. x - n \in 0 .. s.rows - 1 /\ x - n <= s.bot
      BY <1>1, <1>3, <2>2
    <3>2. AbsLine(s, x) = s.primary[x - n]
      BY <1>1, <2>2 DEF AbsLine, Buf
    <3> QED BY <2>2, <3>1, <3>2 DEF Logged, Leaving
  <2> QED BY <2>1, <2>2
<1>6. CASE at < c
  <2>1. at \in 0 .. c - 1
    BY <1>1, <1>6
  <2>2. AbsLine(u, at) = SbGet(u.sb, at)
    BY <1>6 DEF AbsLine
  <2>3. SbGet(u.sb, at) = Logged(s, at + (n + k - c))
    BY <2>1 DEF Rolled, LogEnd
  <2> QED BY <1>3, <1>4, <1>5, <2>2, <2>3
<1>7. CASE ~(at < c)
  <2> DEFINE r == at - c
  <2>1. r \in 0 .. s.bot /\ at = c + r /\ r + k = x - n /\ ~(x < n)
    BY <1>1, <1>3, <1>7
  <2>2. AbsLine(u, at) = u.primary[r]
    BY <1>1, <1>7 DEF AbsLine, Buf
  <2> HIDE DEF r
  <2>3. u.primary[r] = Leaving(s, r + k) \/ (drawn /\ r = u.cy)
    BY <2>1 DEF Rolled, Raised
  <2>4. Logged(s, x) = Leaving(s, r + k)
    BY <2>1 DEF Logged
  <2> QED BY <1>4, <1>5, <2>1, <2>2, <2>3, <2>4
<1> QED BY <1>6, <1>7

\* So every mark whose line is still held follows it.
LEMMA EffectFollows ==
  ASSUME NEW s, ScreenGood(s), NEW u, ScreenGood(u), NEW drawn, Effect(s, u, drawn),
         u.scrolled_total > s.scrolled_total, s.bot = s.rows - 1
  PROVE  Follow(s, u, Base(u) - Base(s), drawn)
<1>1. s.scrolled_total \in Nat /\ s.sb.count \in Nat /\ u.scrolled_total \in Nat /\ u.sb.count \in Nat
  BY CountFacts
<1>2. PICK k \in Nat : Rolled(s, u, k, drawn)
  BY <1>1 DEF Effect, Quiet, Cleared, Switched, WasReset
<1> DEFINE gone == Base(u) - Base(s)
<1>3. u.prompts = s.prompts /\ Base(s) \in Int /\ Base(u) \in Int /\ gone \in Int
  BY <1>1, <1>2 DEF Rolled, Framed, Base
<1> SUFFICES ASSUME NEW i \in DOMAIN PromptMarks(s), PromptMarks(s)[i][1] - gone >= 0
             PROVE  LET at == PromptMarks(s)[i][1] - gone
                    IN  /\ \E j \in DOMAIN PromptMarks(u) : PromptMarks(u)[j] = <<at, PromptMarks(s)[i][2]>>
                        /\ \/ AbsLine(u, at) = AbsLine(s, at + gone)
                           \/ drawn /\ at = u.sb.count + u.cy
  BY DEF Follow
<1> DEFINE old == PromptMarks(s)[i][1]
           exit == PromptMarks(s)[i][2]
           at == old - gone
<1>4. PromptMarks(s)[i] = <<old, exit>>
  BY DEF PromptMarks
<1> HIDE DEF old, exit
<1>5. PICK m : /\ Among(s.prompts, m) /\ m[1] - Base(s) = old /\ m[2] = exit
               /\ old \in 0 .. TotalRows(s) - 1
  BY <1>4, MarksHeld
<1>6. m[1] \in Int
  <2>1. PICK T : s.prompts \in Seq(T) /\ \A y \in T : y[1] \in Int
    BY DEF ScreenGood, Marks, Numbered
  <2> QED BY <1>5, <2>1 DEF Among
<1>7. TotalRows(s) \in Nat /\ TotalRows(u) \in Nat
  BY <1>1, SizeFacts DEF TotalRows
<1>8. at \in Nat /\ at + gone = old /\ at + gone < TotalRows(s) /\ m[1] - Base(u) = at
  BY <1>3, <1>5, <1>6, <1>7 DEF old
<1> HIDE DEF at, gone
<1>9. /\ at < TotalRows(u)
      /\ AbsLine(u, at) = AbsLine(s, at + gone) \/ (drawn /\ at = u.sb.count + u.cy)
  BY <1>2, <1>8, RolledLines DEF gone
<1>10. \E j \in DOMAIN PromptMarks(u) : PromptMarks(u)[j] = <<at, exit>>
  <2>1. at \in 0 .. TotalRows(u) - 1
    BY <1>7, <1>8, <1>9
  <2>2. Among(u.prompts, m) /\ m[1] - Base(u) = at /\ m[2] = exit
    BY <1>3, <1>5, <1>8
  <2>3. \E y : /\ Among(u.prompts, y) /\ y[1] - Base(u) = at /\ y[2] = exit
               /\ at \in 0 .. TotalRows(u) - 1
    BY <2>1, <2>2
  <2> QED BY <2>3, MarksHeld
<1> QED BY <1>9, <1>10 DEF at, old, exit

\* Whatever the bytes of a run.
LEMMA VtFollows ==
  ASSUME VtInv, Next
  PROVE  \A k \in 1 .. Len(input') :
           LET s == Parsed(k - 1).scr
               u == Parsed(k).scr
           IN  (u.scrolled_total > s.scrolled_total /\ s.top = 0 /\ s.bot = s.rows - 1) =>
                  Follow(s, u, (u.scrolled_total - u.sb.count) - (s.scrolled_total - s.sb.count),
                         Writes(Parsed(k - 1), input'[k]))
<1> SUFFICES ASSUME NEW k \in 1 .. Len(input'),
                    Parsed(k).scr.scrolled_total > Parsed(k - 1).scr.scrolled_total,
                    Parsed(k - 1).scr.bot = Parsed(k - 1).scr.rows - 1
             PROVE  LET s == Parsed(k - 1).scr
                        u == Parsed(k).scr
                    IN  Follow(s, u, (u.scrolled_total - u.sb.count) - (s.scrolled_total - s.sb.count),
                               Writes(Parsed(k - 1), input'[k]))
  OBVIOUS
<1> DEFINE s == Parsed(k - 1).scr
           u == Parsed(k).scr
           drawn == Writes(Parsed(k - 1), input'[k])
<1>1. Byte(k)
  BY VtBytes
<1>2. ScreenGood(s) /\ ScreenGood(u) /\ Effect(s, u, drawn)
  BY <1>1, WellFacts DEF Byte, Does
<1>3. u.scrolled_total > s.scrolled_total /\ s.bot = s.rows - 1
  OBVIOUS
<1> HIDE DEF s, u, drawn
<1>4. Follow(s, u, Base(u) - Base(s), drawn)
  BY <1>2, <1>3, EffectFollows
<1> QED BY <1>4 DEF Base, s, u, drawn

\* Prompt marks stay on the lines they were set on while those scroll off the
\* screen, through the history and as old lines fall out of it.
THEOREM PromptsAlwaysFollow == Spec => PromptFollowsLine
<1>1. VtInv /\ [Next]_vars =>
        [\A k \in 1 .. Len(input') :
            LET s == Parsed(k - 1).scr
                u == Parsed(k).scr
            IN  (u.scrolled_total > s.scrolled_total /\ s.top = 0 /\ s.bot = s.rows - 1) =>
                   Follow(s, u, (u.scrolled_total - u.sb.count) - (s.scrolled_total - s.sb.count),
                          Writes(Parsed(k - 1), input'[k]))]_vars
  BY VtFollows
<1> QED BY VtInit, VtNext, <1>1, PTL DEF Spec, PromptFollowsLine
=============================================================================
