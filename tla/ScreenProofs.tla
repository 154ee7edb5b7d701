---------------------------- MODULE ScreenProofs ----------------------------
(***************************************************************************)
(* What every operation of the screen keeps, for every size of the screen, *)
(* of the scrollback and of the numbers a program may write.               *)
(*                                                                         *)
(* Two things are kept.  The screen is good: whatever is used as an index  *)
(* is in the range it indexes.  And its combining marks are owned: each    *)
(* string of marks belongs to one cell.  The second is shown by a map from *)
(* the places of the new screen to places of the old one, which says where *)
(* each marked cell came from.                                             *)
(***************************************************************************)
EXTENDS Screen, SequenceTheorems, TLAPS

\* A function or a record: something that its fields determine.
Map(f) == f = [x \in DOMAIN f |-> f[x]]
ScreenFields == {"cols", "rows", "buf_alt", "primary", "alt", "cx", "cy", "wrap_pending", "pen",
                 "top", "bot", "saved", "tabs", "sb", "scrolled_total", "combo_pool", "prompts",
                 "last_base", "modes"}
IsScreen(s) == Map(s) /\ DOMAIN s = ScreenFields

Cells == [g : Glyphs, combo : Nat]
IsGrid(g, cols, rows) == g \in [0 .. rows - 1 -> [0 .. cols - 1 -> Cells]]
Sized(s) == s.cols \in Nat \ {0} /\ s.rows \in Nat \ {0}
Grids(s) == IsGrid(s.primary, s.cols, s.rows) /\ IsGrid(s.alt, s.cols, s.rows)
Cursor(s) ==
  /\ s.cx \in 0 .. s.cols - 1 /\ s.cy \in 0 .. s.rows - 1
  /\ s.wrap_pending => s.cx = s.cols - 1
Region(s) == s.top \in 0 .. s.rows - 1 /\ s.bot \in s.top .. s.rows - 1
Saved(s) == s.saved.cx \in Nat /\ s.saved.cy \in Nat
Stops(s) == s.tabs \subseteq 0 .. s.cols - 1
\* A ring of slots, the counted ones holding lines.
RingShape(sb) ==
  /\ Map(sb) /\ DOMAIN sb = {"ring", "start", "count"}
  /\ Map(sb.ring) /\ DOMAIN sb.ring = 0 .. Cap - 1
  /\ sb.start \in 0 .. Cap - 1 /\ sb.count \in 0 .. Cap
IsRing(sb) ==
  RingShape(sb) /\ \A i \in 0 .. sb.count - 1 : SbGet(sb, i) # NoLine
Rings(s) == IsRing(s.sb) /\ s.scrolled_total \in Nat /\ s.sb.count <= s.scrolled_total
\* A sequence of whatever.
Listed(q) == \E T : q \in Seq(T)
\* A sequence of marks: each tells the number of a line first.
Numbered(q) == \E T : q \in Seq(T) /\ \A m \in T : m[1] \in Int
Marks(s) == Numbered(s.prompts) /\ Len(s.prompts) <= PromptCap
Others(s) == s.buf_alt \in BOOLEAN /\ s.combo_pool \in Nat
\* Everything an index of the next operation depends on is in its range.
ScreenGood(s) ==
  /\ IsScreen(s) /\ Sized(s) /\ Grids(s) /\ Cursor(s) /\ Region(s) /\ Saved(s) /\ Stops(s)
  /\ Rings(s) /\ Marks(s) /\ Others(s)

---------------------------------------------------------------------------
(* The folds of the screen.                                                *)

KeepOp(c, v, x) == Keep(c[1], v, x)
KeepInv(c, k, v) == v \in Seq(c[2])
Keeping == INSTANCE FoldLaw WITH Op <- KeepOp, Inv <- KeepInv
PushOp(c, v, x) == SbPush(v, x)
\* After k of the lines c[2] were pushed onto the ring c[1], the ring v holds the
\* end of the log of both.
LogLine(c, j) == IF j < c[1].count THEN SbGet(c[1], j) ELSE c[2][j - c[1].count + 1]
PushInv(c, k, v) ==
  /\ RingShape(v) /\ v.count = Least(c[1].count + k, Cap)
  /\ \A i \in 0 .. v.count - 1 : SbGet(v, i) = LogLine(c, i + (c[1].count + k - v.count))
Pushing == INSTANCE FoldLaw WITH Op <- PushOp, Inv <- PushInv

---------------------------------------------------------------------------
(* Operations that leave every cell alone.                                 *)

SameCells(s, u) ==
  /\ u.cols = s.cols /\ u.rows = s.rows /\ u.buf_alt = s.buf_alt
  /\ u.primary = s.primary /\ u.alt = s.alt /\ u.sb = s.sb
  /\ u.scrolled_total = s.scrolled_total /\ u.combo_pool = s.combo_pool
\* A good screen with the cells of s.
Kept(s, u) == ScreenGood(u) /\ SameCells(s, u)

\* Keeping the cells twice keeps them.
LEMMA KeptTwice == ASSUME NEW s, NEW u, NEW v, Kept(s, u), Kept(u, v) PROVE Kept(s, v)
  BY DEF Kept, SameCells

\* A good screen is one with its own cells.
LEMMA KeptSelf == ASSUME NEW s, ScreenGood(s) PROVE Kept(s, s)
  BY DEF Kept, SameCells

\* u is a screen that differs from s at most in the fields F.
Differ(s, u, F) == IsScreen(u) /\ \A f \in ScreenFields \ F : u[f] = s[f]

CursorFields == {"cx", "cy", "wrap_pending", "pen", "modes", "last_base"}

\* A screen with only its cursor moved, to a place on it, has its cells and is
\* good.
LEMMA MovedGood ==
  ASSUME NEW s, NEW u, ScreenGood(s), Differ(s, u, CursorFields), Cursor(u) PROVE Kept(s, u)
<1>1. /\ SameCells(s, u)
      /\ u.top = s.top /\ u.bot = s.bot /\ u.saved = s.saved /\ u.tabs = s.tabs
      /\ u.prompts = s.prompts
  BY DEF Differ, CursorFields, ScreenFields, SameCells
<1> QED BY <1>1 DEF Kept, SameCells, ScreenGood, Differ, Sized, Grids, Region, Saved, Stops,
           Rings, Marks, Others

InertFields == {"pen", "modes", "last_base"}

\* Pen, modes and the last base cell may become anything.
LEMMA InertGood ==
  ASSUME NEW s, NEW u, ScreenGood(s), Differ(s, u, InertFields) PROVE Kept(s, u)
<1>1. Differ(s, u, CursorFields)
  BY DEF Differ, CursorFields, InertFields
<1>2. u.cols = s.cols /\ u.rows = s.rows /\ u.cx = s.cx /\ u.cy = s.cy
      /\ u.wrap_pending = s.wrap_pending
  BY DEF Differ, InertFields, ScreenFields
<1>3. Cursor(u)
  BY <1>2 DEF ScreenGood, Cursor
<1> QED BY <1>1, <1>3, MovedGood

ToX(s, x) == NoWrap([s EXCEPT !.cx = x])
ToY(s, y) == NoWrap([s EXCEPT !.cy = y])
ToXY(s, x, y) == NoWrap([s EXCEPT !.cy = y, !.cx = x])

\* The cursor may go to any column,
LEMMA ToXGood == ASSUME NEW s, ScreenGood(s), NEW x \in 0 .. s.cols - 1 PROVE Kept(s, ToX(s, x))
<1>1. Differ(s, ToX(s, x), CursorFields)
  BY DEF Differ, CursorFields, ScreenGood, IsScreen, Map, ScreenFields, ToX, NoWrap
<1>2. Cursor(ToX(s, x))
  BY DEF ScreenGood, IsScreen, Map, ScreenFields, ToX, NoWrap, Cursor
<1> QED BY <1>1, <1>2, MovedGood

\* to any row,
LEMMA ToYGood == ASSUME NEW s, ScreenGood(s), NEW x \in 0 .. s.rows - 1 PROVE Kept(s, ToY(s, x))
<1>1. Differ(s, ToY(s, x), CursorFields)
  BY DEF Differ, CursorFields, ScreenGood, IsScreen, Map, ScreenFields, ToY, NoWrap
<1>2. Cursor(ToY(s, x))
  BY DEF ScreenGood, IsScreen, Map, ScreenFields, ToY, NoWrap, Cursor
<1> QED BY <1>1, <1>2, MovedGood

\* and to any cell of the screen.
LEMMA ToXYGood ==
  ASSUME NEW s, ScreenGood(s), NEW x \in 0 .. s.cols - 1, NEW y \in 0 .. s.rows - 1
  PROVE  Kept(s, ToXY(s, x, y))
<1>1. Differ(s, ToXY(s, x, y), CursorFields)
  BY DEF Differ, CursorFields, ScreenGood, IsScreen, Map, ScreenFields, ToXY, NoWrap
<1>2. Cursor(ToXY(s, x, y))
  BY DEF ScreenGood, IsScreen, Map, ScreenFields, ToXY, NoWrap, Cursor
<1> QED BY <1>1, <1>2, MovedGood

\* A pending wrap may be dropped.
LEMMA NoWrapGood == ASSUME NEW s, ScreenGood(s) PROVE Kept(s, NoWrap(s))
<1>1. Differ(s, NoWrap(s), CursorFields)
  BY DEF Differ, CursorFields, ScreenGood, IsScreen, Map, ScreenFields, NoWrap
<1>2. Cursor(NoWrap(s))
  BY DEF ScreenGood, IsScreen, Map, ScreenFields, NoWrap, Cursor
<1> QED BY <1>1, <1>2, MovedGood

\* A conversion to usize gives a number that is not negative.
LEMMA UsizeNat == \A n \in Int : AsUsize(n) \in Nat
  BY ScreenAssumption DEF AsUsize

\* The bounds of size, cursor and scroll region in the form arithmetic needs
\* them.
LEMMA SizeFacts ==
  ASSUME NEW s, ScreenGood(s)
  PROVE  /\ s.cols \in Nat /\ s.cols > 0 /\ s.rows \in Nat /\ s.rows > 0
         /\ s.cx \in Nat /\ s.cx < s.cols /\ s.cy \in Nat /\ s.cy < s.rows
         /\ s.top \in Nat /\ s.bot \in Nat /\ s.top <= s.bot /\ s.bot < s.rows
  BY DEF ScreenGood, Sized, Cursor, Region

\* Cursor up, by any number, stops at the top of the region or of the screen.
LEMMA CursorUpGood == ASSUME NEW s, ScreenGood(s), NEW n \in Int PROVE Kept(s, CursorUp(s, n))
<1>1. CursorUp(s, n) = ToY(s, Most(Most(s.cy - Most(n, 1), 0), RegionTop(s)))
  BY DEF CursorUp, ToY
<1>2. Most(Most(s.cy - Most(n, 1), 0), RegionTop(s)) \in 0 .. s.rows - 1
  BY SizeFacts DEF Most, RegionTop
<1> QED BY <1>1, <1>2, ToYGood

\* Cursor down, by any number, stops at the bottom of the region or of the
\* screen.
LEMMA CursorDownGood ==
  ASSUME NEW s, ScreenGood(s), NEW n \in Int PROVE Kept(s, CursorDown(s, n))
<1>1. CursorDown(s, n) = ToY(s, Least(AsUsize(s.cy + Most(n, 1)), RegionBot(s)))
  BY DEF CursorDown, ToY
<1>2. Least(AsUsize(s.cy + Most(n, 1)), RegionBot(s)) \in 0 .. s.rows - 1
  BY SizeFacts, UsizeNat DEF Most, Least, RegionBot
<1> QED BY <1>1, <1>2, ToYGood

\* Cursor forward, by any number, stops at the right margin.
LEMMA CursorFwdGood == ASSUME NEW s, ScreenGood(s), NEW n \in Int PROVE Kept(s, CursorFwd(s, n))
<1>1. CursorFwd(s, n) = ToX(s, Least(AsUsize(s.cx + Most(n, 1)), s.cols - 1))
  BY DEF CursorFwd, ToX
<1>2. Least(AsUsize(s.cx + Most(n, 1)), s.cols - 1) \in 0 .. s.cols - 1
  BY SizeFacts, UsizeNat DEF Most, Least
<1> QED BY <1>1, <1>2, ToXGood

\* Cursor back, by any number, stops at the left margin.
LEMMA CursorBackGood ==
  ASSUME NEW s, ScreenGood(s), NEW n \in Int PROVE Kept(s, CursorBack(s, n))
<1>1. CursorBack(s, n) = ToX(s, Most(s.cx - Most(n, 1), 0))
  BY DEF CursorBack, ToX
<1>2. Most(s.cx - Most(n, 1), 0) \in 0 .. s.cols - 1
  BY SizeFacts DEF Most
<1> QED BY <1>1, <1>2, ToXGood

\* A column given by the program is clamped to the screen.
LEMMA CursorColGood == ASSUME NEW s, ScreenGood(s), NEW n \in Int PROVE Kept(s, CursorCol(s, n))
<1>1. CursorCol(s, n) = ToX(s, Clamp(n, 0, s.cols - 1))
  BY DEF CursorCol, ToX
<1>2. Clamp(n, 0, s.cols - 1) \in 0 .. s.cols - 1
  BY SizeFacts DEF Clamp
<1> QED BY <1>1, <1>2, ToXGood

\* A row given by the program is clamped to the screen or the region.
LEMMA CursorRowGood == ASSUME NEW s, ScreenGood(s), NEW n \in Int PROVE Kept(s, CursorRow(s, n))
<1>1. CursorRow(s, n) = ToY(s, Clamp(RegionTop(s) + n, 0, s.rows - 1))
  BY DEF CursorRow, ToY
<1>2. Clamp(RegionTop(s) + n, 0, s.rows - 1) \in 0 .. s.rows - 1
  BY SizeFacts DEF Clamp, RegionTop
<1> QED BY <1>1, <1>2, ToYGood

\* A position given by the program, origin mode or not, is clamped to the
\* screen.
LEMMA CursorToGood ==
  ASSUME NEW s, ScreenGood(s), NEW r \in Int, NEW c \in Int PROVE Kept(s, CursorTo(s, r, c))
<1>1. CursorTo(s, r, c) = ToXY(s, Clamp(c, 0, s.cols - 1),
                               Clamp(RegionTop(s) + r, RegionTop(s), RegionBot(s)))
  BY DEF CursorTo, ToXY
<1>2. Clamp(c, 0, s.cols - 1) \in 0 .. s.cols - 1
  BY SizeFacts DEF Clamp
<1>3. Clamp(RegionTop(s) + r, RegionTop(s), RegionBot(s)) \in 0 .. s.rows - 1
  BY SizeFacts DEF Clamp, RegionTop, RegionBot
<1> QED BY <1>1, <1>2, <1>3, ToXYGood

\* Backspace stays on the screen.
LEMMA BackspaceGood == ASSUME NEW s, ScreenGood(s) PROVE Kept(s, Backspace(s))
<1>1. Backspace(s) = ToX(s, Most(s.cx - 1, 0))
  BY DEF Backspace, ToX
<1>2. Most(s.cx - 1, 0) \in 0 .. s.cols - 1
  BY SizeFacts DEF Most
<1> QED BY <1>1, <1>2, ToXGood

\* Carriage return stays on the screen.
LEMMA CarriageReturnGood == ASSUME NEW s, ScreenGood(s) PROVE Kept(s, CarriageReturn(s))
<1>1. CarriageReturn(s) = ToX(s, 0)
  BY DEF CarriageReturn, ToX
<1>2. 0 \in 0 .. s.cols - 1
  BY SizeFacts
<1> QED BY <1>1, <1>2, ToXGood

NextStop(s) == {c \in s.cx + 1 .. s.cols - 1 : c = s.cols - 1 \/ c \in s.tabs}
IsStop(s, c) == /\ c = s.cols - 1 \/ c \in s.tabs
                /\ \A d \in s.cx + 1 .. c - 1 : d \notin s.tabs
StopAt(s) == IF s.cx >= s.cols - 1 THEN s.cx
             ELSE CHOOSE c \in s.cx + 1 .. s.cols - 1 : IsStop(s, c)

\* A tab goes to the next stop, which is on the screen, or to the last column.
LEMMA TabGood == ASSUME NEW s, ScreenGood(s) PROVE Kept(s, Tab(s))
<1>1. Tab(s) = ToX(s, StopAt(s))
  BY DEF Tab, ToX, StopAt, IsStop
<1>2. StopAt(s) \in 0 .. s.cols - 1
  <2>1. CASE s.cx >= s.cols - 1
    BY <2>1, SizeFacts DEF StopAt
  <2>2. CASE ~(s.cx >= s.cols - 1)
    <3>1. NextStop(s) \in SUBSET Nat /\ NextStop(s) # {}
      <4>1. s.cols - 1 \in NextStop(s)
        BY <2>2, SizeFacts DEF NextStop
      <4> QED BY <4>1, SizeFacts DEF NextStop
    <3>2. PICK c \in NextStop(s) : \A d \in NextStop(s) : c <= d
      BY <3>1, Keeping!NatMin
    <3>3. c \in s.cx + 1 .. s.cols - 1 /\ c \in Nat
      BY <3>1, <3>2 DEF NextStop
    <3>4. IsStop(s, c)
      <4>1. ASSUME NEW d \in s.cx + 1 .. c - 1, d \in s.tabs PROVE FALSE
        <5>1. d \in NextStop(s) /\ d < c /\ d \in Nat
          BY <4>1, <3>3, SizeFacts DEF NextStop
        <5> QED BY <5>1, <3>2, <3>3
      <4> QED BY <4>1, <3>2 DEF IsStop, NextStop
    <3>5. (CHOOSE x \in s.cx + 1 .. s.cols - 1 : IsStop(s, x)) \in s.cx + 1 .. s.cols - 1
      BY <3>3, <3>4
    <3>6. StopAt(s) \in s.cx + 1 .. s.cols - 1
      BY <2>2, <3>5 DEF StopAt
    <3> QED BY <3>6, SizeFacts
  <2> QED BY <2>1, <2>2
<1> QED BY <1>1, <1>2, ToXGood

---------------------------------------------------------------------------
(* Pen, modes, tab stops, scroll region, saved cursor.                     *)

SetPen(s, p) == [s EXCEPT !.pen = p]
SetModes(s, m) == [s EXCEPT !.modes = m]
SetTabs(s, T) == [s EXCEPT !.tabs = T]
SetSaved(s, v) == [s EXCEPT !.saved = v]
SetRegion(s, t, b) == [s EXCEPT !.top = t, !.bot = b]

\* The pen may become anything.
LEMMA PenGood == ASSUME NEW s, ScreenGood(s), NEW p PROVE Kept(s, SetPen(s, p))
<1>1. Differ(s, SetPen(s, p), InertFields)
  BY DEF Differ, InertFields, ScreenGood, IsScreen, Map, ScreenFields, SetPen
<1> QED BY <1>1, InertGood

\* The modes may become anything.
LEMMA ModesGood == ASSUME NEW s, ScreenGood(s), NEW m PROVE Kept(s, SetModes(s, m))
<1>1. Differ(s, SetModes(s, m), InertFields)
  BY DEF Differ, InertFields, ScreenGood, IsScreen, Map, ScreenFields, SetModes
<1> QED BY <1>1, InertGood

\* Select graphic rendition, whatever its parameters, changes the pen only.
LEMMA GraphicsGood ==
  ASSUME NEW s, ScreenGood(s), NEW p, NEW colon PROVE Kept(s, SetGraphics(s, p, colon))
<1>1. PICK pen : SetGraphics(s, p, colon) = SetPen(s, pen)
  BY DEF SetGraphics, SetPen
<1> QED BY <1>1, PenGood

PlainFields == {"pen", "modes", "last_base", "tabs", "saved", "top", "bot", "prompts"}

\* Tab stops, the saved cursor, the region and the marks may change to legal
\* ones.
LEMMA PlainGood ==
  ASSUME NEW s, NEW u, ScreenGood(s), Differ(s, u, PlainFields),
         Stops(u), Saved(u), Region(u), Marks(u)
  PROVE  Kept(s, u)
<1>1. SameCells(s, u) /\ u.cx = s.cx /\ u.cy = s.cy /\ u.wrap_pending = s.wrap_pending
  BY DEF Differ, PlainFields, ScreenFields, SameCells
<1> QED BY <1>1 DEF Kept, SameCells, ScreenGood, Differ, Sized, Grids, Cursor, Rings, Others

\* Any set of columns may be the tab stops.
LEMMA TabsGood ==
  ASSUME NEW s, ScreenGood(s), NEW T \in SUBSET (0 .. s.cols - 1) PROVE Kept(s, SetTabs(s, T))
<1>1. Differ(s, SetTabs(s, T), PlainFields) /\ Stops(SetTabs(s, T))
  BY DEF Differ, PlainFields, ScreenGood, IsScreen, Map, ScreenFields, SetTabs, Stops
<1>2. Saved(SetTabs(s, T)) /\ Region(SetTabs(s, T)) /\ Marks(SetTabs(s, T))
  BY DEF ScreenGood, IsScreen, Map, ScreenFields, SetTabs, Saved, Region, Marks
<1> QED BY <1>1, <1>2, PlainGood

\* Setting and clearing tab stops keeps them on the screen.
LEMMA TabStopsGood ==
  ASSUME NEW s, ScreenGood(s)
  PROVE  Kept(s, SetTabStop(s)) /\ Kept(s, ClearTabStop(s)) /\ Kept(s, ClearAllTabs(s))
<1>1. s.tabs \subseteq 0 .. s.cols - 1 /\ s.cx \in 0 .. s.cols - 1
  BY DEF ScreenGood, Stops, Cursor
<1>2. /\ SetTabStop(s) = SetTabs(s, s.tabs \cup {s.cx})
      /\ ClearTabStop(s) = SetTabs(s, s.tabs \ {s.cx})
      /\ ClearAllTabs(s) = SetTabs(s, {})
  BY DEF SetTabStop, ClearTabStop, ClearAllTabs, SetTabs
<1> QED BY <1>1, <1>2, TabsGood

\* Any position may be saved: it is clamped when it is restored.
LEMMA SavedGood ==
  ASSUME NEW s, ScreenGood(s), NEW v, v.cx \in Nat, v.cy \in Nat PROVE Kept(s, SetSaved(s, v))
<1>1. Differ(s, SetSaved(s, v), PlainFields) /\ Saved(SetSaved(s, v))
  BY DEF Differ, PlainFields, ScreenGood, IsScreen, Map, ScreenFields, SetSaved, Saved
<1>2. Stops(SetSaved(s, v)) /\ Region(SetSaved(s, v)) /\ Marks(SetSaved(s, v))
  BY DEF ScreenGood, IsScreen, Map, ScreenFields, SetSaved, Stops, Region, Marks
<1> QED BY <1>1, <1>2, PlainGood

\* The cursor can be saved at any time.
LEMMA SaveCursorGood == ASSUME NEW s, ScreenGood(s) PROVE Kept(s, SaveCursor(s))
<1> DEFINE v == [cx |-> s.cx, cy |-> s.cy, pen |-> s.pen, origin |-> s.modes.origin]
<1>1. v.cx \in Nat /\ v.cy \in Nat
  BY SizeFacts
<1>2. SaveCursor(s) = SetSaved(s, v)
  BY DEF SaveCursor, SetSaved
<1> HIDE DEF v
<1> QED BY <1>1, <1>2, SavedGood

\* A restored cursor is on the screen, whatever size the screen had when it was
\* saved.
LEMMA RestoreCursorGood == ASSUME NEW s, ScreenGood(s) PROVE Kept(s, RestoreCursor(s))
<1>1. Differ(s, RestoreCursor(s), CursorFields)
  BY DEF Differ, CursorFields, ScreenGood, IsScreen, Map, ScreenFields, RestoreCursor, NoWrap
<1>2. /\ RestoreCursor(s).cx = Least(s.saved.cx, s.cols - 1)
      /\ RestoreCursor(s).cy = Least(s.saved.cy, s.rows - 1)
      /\ RestoreCursor(s).wrap_pending = FALSE
      /\ RestoreCursor(s).cols = s.cols /\ RestoreCursor(s).rows = s.rows
  BY DEF ScreenGood, IsScreen, Map, ScreenFields, RestoreCursor, NoWrap
<1>3. Least(s.saved.cx, s.cols - 1) \in 0 .. s.cols - 1
      /\ Least(s.saved.cy, s.rows - 1) \in 0 .. s.rows - 1
  BY SizeFacts DEF Least, ScreenGood, Saved
<1>4. Cursor(RestoreCursor(s))
  BY <1>2, <1>3 DEF Cursor
<1> QED BY <1>1, <1>4, MovedGood

\* Any rows of the screen, top above bottom, may be the scroll region.
LEMMA RegionGood ==
  ASSUME NEW s, ScreenGood(s), NEW t \in 0 .. s.rows - 1, NEW b \in t .. s.rows - 1
  PROVE  Kept(s, SetRegion(s, t, b))
<1>1. Differ(s, SetRegion(s, t, b), PlainFields) /\ Region(SetRegion(s, t, b))
  BY DEF Differ, PlainFields, ScreenGood, IsScreen, Map, ScreenFields, SetRegion, Region
<1>2. Stops(SetRegion(s, t, b)) /\ Saved(SetRegion(s, t, b)) /\ Marks(SetRegion(s, t, b))
  BY DEF ScreenGood, IsScreen, Map, ScreenFields, SetRegion, Stops, Saved, Marks
<1> QED BY <1>1, <1>2, PlainGood

\* A region given by the program is one of the screen, or is refused.
LEMMA SetScrollRegionGood ==
  ASSUME NEW s, ScreenGood(s), NEW top \in Int, NEW bottom \in Int
  PROVE  Kept(s, SetScrollRegion(s, top, bottom))
<1> DEFINE t == IF top <= 0 THEN 1 ELSE top
           b == IF bottom <= 0 \/ bottom > s.rows THEN s.rows ELSE bottom
           lo == IF t >= b THEN 0 ELSE t - 1
           hi == IF t >= b THEN s.rows - 1 ELSE b - 1
<1>1. SetScrollRegion(s, top, bottom) = CursorTo(SetRegion(s, lo, hi), 0, 0)
  BY DEF SetScrollRegion, SetRegion
<1>2. lo \in 0 .. s.rows - 1 /\ hi \in lo .. s.rows - 1
  BY SizeFacts
<1> HIDE DEF lo, hi
<1>3. Kept(s, SetRegion(s, lo, hi))
  BY <1>2, RegionGood
<1>4. Kept(SetRegion(s, lo, hi), CursorTo(SetRegion(s, lo, hi), 0, 0))
  BY <1>3, CursorToGood DEF Kept
<1> QED BY <1>1, <1>3, <1>4, KeptTwice

---------------------------------------------------------------------------
(* Prompt marks.                                                           *)

\* A sequence has a length, and its indices run up to it.
LEMMA ListedLen == ASSUME NEW q, Listed(q) PROVE Len(q) \in Nat /\ DOMAIN q = 1 .. Len(q)
  BY DEF Listed

\* One more element makes a sequence one longer.
LEMMA AppendListed ==
  ASSUME NEW q, Listed(q), NEW x PROVE Listed(Append(q, x)) /\ Len(Append(q, x)) = Len(q) + 1
<1>1. PICK T : q \in Seq(T)
  BY DEF Listed
<1>2. q \in Seq(T \cup {x})
  BY <1>1
<1>3. Append(q, x) \in Seq(T \cup {x}) /\ Len(Append(q, x)) = Len(q) + 1
  BY <1>2
<1> QED BY <1>3 DEF Listed

\* Marks are a sequence, and so is one mark more,
LEMMA NumberedListed == ASSUME NEW q, Numbered(q) PROVE Listed(q)
  BY DEF Numbered, Listed
LEMMA NumberedNone == Numbered(<<>>)
<1> DEFINE T == {}
<1>1. <<>> \in Seq(T)
  OBVIOUS
<1>2. \A m \in T : m[1] \in Int
  OBVIOUS
<1> HIDE DEF T
<1> QED BY <1>1, <1>2 DEF Numbered
LEMMA AppendNumbered ==
  ASSUME NEW q, Numbered(q), NEW x, x[1] \in Int PROVE Numbered(Append(q, x))
<1>1. PICK T : q \in Seq(T) /\ \A m \in T : m[1] \in Int
  BY DEF Numbered
<1> DEFINE U == T \cup {x}
<1>2. \A m \in U : m[1] \in Int
  BY <1>1
<1>3. Append(q, x) \in Seq(U)
  BY <1>1
<1> HIDE DEF U
<1> QED BY <1>2, <1>3 DEF Numbered

\* the end of the marks,
LEMMA TailNumbered ==
  ASSUME NEW q, Numbered(q), NEW m \in 1 .. Len(q) + 1
  PROVE  Numbered(SubSeq(q, m, Len(q))) /\ Len(SubSeq(q, m, Len(q))) = Len(q) - m + 1
<1>1. PICK T : q \in Seq(T) /\ \A x \in T : x[1] \in Int
  BY DEF Numbered
<1>2. SubSeq(q, m, Len(q)) \in Seq(T)
  BY <1>1
<1>3. Len(SubSeq(q, m, Len(q))) = Len(q) - m + 1
  BY <1>1
<1> QED BY <1>1, <1>2, <1>3 DEF Numbered

\* and the marks with another last one.
LEMMA ExceptNumbered ==
  ASSUME NEW q, Numbered(q), q # <<>>, NEW x
  PROVE  LET m == [q[Len(q)] EXCEPT ![2] = x]
         IN  Numbered([q EXCEPT ![Len(q)] = m]) /\ Len([q EXCEPT ![Len(q)] = m]) = Len(q)
<1> DEFINE i == Len(q)
           m == [q[i] EXCEPT ![2] = x]
<1>1. PICK T : q \in Seq(T) /\ \A y \in T : y[1] \in Int
  BY DEF Numbered
<1>2. i \in 1 .. Len(q) /\ q[i] \in T
  BY <1>1
<1>3. m[1] = q[i][1]
  OBVIOUS
<1> DEFINE U == T \cup {m}
<1> HIDE DEF i, m
<1>4. \A y \in U : y[1] \in Int
  BY <1>1, <1>2, <1>3
<1>5. q \in Seq(U) /\ m \in U
  BY <1>1
<1> HIDE DEF U
<1>6. [q EXCEPT ![i] = m] \in Seq(U) /\ Len([q EXCEPT ![i] = m]) = Len(q)
  BY <1>2, <1>5, ExceptSeq
<1>7. Numbered([q EXCEPT ![i] = m]) /\ Len([q EXCEPT ![i] = m]) = Len(q)
  BY <1>4, <1>6 DEF Numbered
<1> QED BY <1>7 DEF i, m

\* What is retained of a sequence is a sequence of elements of the same set,
LEMMA RetainedIn == ASSUME NEW T, NEW q \in Seq(T), NEW S PROVE Retained(q, S) \in Seq(T)
<1> DEFINE c == <<S, T>>
<1>1. Retained(q, S) = Keeping!Fold(c, <<>>, q)
  BY DEF Retained, Keeping!Fold, KeepOp, FoldLeft, Keeping!FoldLeft, MapThenFoldSet,
         Keeping!MapThenFoldSet, Max, Keeping!Max
<1>0. c[1] = S /\ c[2] = T
  OBVIOUS
<1> HIDE DEF c
<1>2. KeepInv(c, 0, <<>>)
  BY DEF KeepInv
<1>3. ASSUME NEW v, NEW k \in 1 .. Len(q), KeepInv(c, k - 1, v)
      PROVE  KeepInv(c, k, KeepOp(c, v, q[k]))
  BY <1>0, <1>3 DEF KeepInv, KeepOp, Keep
<1>4. KeepInv(c, Len(q), Keeping!Fold(c, <<>>, q))
  BY <1>2, <1>3, ListedLen, Keeping!FoldKeeps DEF Listed
<1> QED BY <1>0, <1>1, <1>4 DEF KeepInv

\* and a sequence if that was one.
LEMMA RetainedListed ==
  ASSUME NEW q, NEW S
  PROVE  /\ Listed(q) => Listed(Retained(q, S))
         /\ Numbered(q) => Numbered(Retained(q, S))
  BY RetainedIn DEF Listed, Numbered
SetPrompts(s, q) == [s EXCEPT !.prompts = q]

\* The marks may become any sequence that is not too long.
LEMMA PromptsGood ==
  ASSUME NEW s, ScreenGood(s), NEW q, Numbered(q), Len(q) <= PromptCap
  PROVE  Kept(s, SetPrompts(s, q))
<1>1. Differ(s, SetPrompts(s, q), PlainFields) /\ Marks(SetPrompts(s, q))
  BY DEF Differ, PlainFields, ScreenGood, IsScreen, Map, ScreenFields, SetPrompts, Marks
<1>2. Stops(SetPrompts(s, q)) /\ Saved(SetPrompts(s, q)) /\ Region(SetPrompts(s, q))
  BY DEF ScreenGood, IsScreen, Map, ScreenFields, SetPrompts, Stops, Saved, Region
<1> QED BY <1>1, <1>2, PlainGood

\* A new prompt mark: the oldest gives way at the cap (mark_prompt).
LEMMA MarkPromptGood == ASSUME NEW s, ScreenGood(s) PROVE Kept(s, MarkPrompt(s))
<1> DEFINE gid == s.scrolled_total + s.cy
           new == IF s.prompts # <<>> /\ Last(s.prompts)[1] = gid
                  THEN s.prompts ELSE Append(s.prompts, <<gid, NoExit>>)
           S == {m \in Range(new) : m[1] >= s.scrolled_total - s.sb.count}
           kept == Retained(new, S)
           from == Most(Len(kept) - PromptCap, 0) + 1
<1>1. CASE s.buf_alt
  BY <1>1, KeptSelf DEF MarkPrompt
<1>2. CASE ~s.buf_alt
  <2>1. MarkPrompt(s) = SetPrompts(s, SubSeq(kept, from, Len(kept)))
    BY <1>2 DEF MarkPrompt, SetPrompts
  <2>2. Numbered(new)
    <3> DEFINE m == <<gid, NoExit>>
    <3>1. gid \in Int /\ Numbered(s.prompts)
      BY SizeFacts DEF ScreenGood, Marks, Cursor, Rings
    <3>2. m[1] = gid
      OBVIOUS
    <3> HIDE DEF m, gid
    <3>3. Numbered(Append(s.prompts, m))
      BY <3>1, <3>2, AppendNumbered
    <3> QED BY <3>1, <3>3 DEF m
  <2> HIDE DEF new, S
  <2>3. Numbered(kept) /\ Listed(kept)
    BY <2>2, RetainedListed, NumberedListed
  <2> HIDE DEF kept
  <2>4. Numbered(SubSeq(kept, from, Len(kept))) /\ Len(SubSeq(kept, from, Len(kept))) <= PromptCap
    <3>1. from \in 1 .. Len(kept) + 1 /\ Len(kept) - from + 1 <= PromptCap
      BY <2>3, ListedLen, ScreenAssumption DEF Most
    <3> HIDE DEF from
    <3> QED BY <2>3, <3>1, TailNumbered
  <2> HIDE DEF from
  <2> QED BY <2>1, <2>4, PromptsGood
<1> QED BY <1>1, <1>2

\* An exit code goes to the last mark, if there is one.
LEMMA MarkCmdExitGood ==
  ASSUME NEW s, ScreenGood(s), NEW exit PROVE Kept(s, MarkCmdExit(s, exit))
<1>1. CASE s.buf_alt \/ s.prompts = <<>> \/ Last(s.prompts)[2] # NoExit
  BY <1>1, KeptSelf DEF MarkCmdExit
<1>2. CASE ~(s.buf_alt \/ s.prompts = <<>> \/ Last(s.prompts)[2] # NoExit)
  <2> DEFINE q == [s.prompts EXCEPT ![Len(s.prompts)][2] = <<exit>>]
  <2>1. MarkCmdExit(s, exit) = SetPrompts(s, q)
    BY <1>2 DEF MarkCmdExit, SetPrompts
  <2>2. Numbered(q) /\ Len(q) <= PromptCap
    <3> DEFINE p == s.prompts
               x == <<exit>>
               m == [p[Len(p)] EXCEPT ![2] = x]
    <3>1. Numbered(p) /\ Len(p) <= PromptCap /\ p # <<>>
      BY <1>2 DEF ScreenGood, Marks
    <3>2. q = [p EXCEPT ![Len(p)] = m]
      OBVIOUS
    <3> HIDE DEF p, x, q
    <3> QED BY <3>1, <3>2, ExceptNumbered
  <2> HIDE DEF q
  <2> QED BY <2>1, <2>2, PromptsGood
<1> QED BY <1>1, <1>2

---------------------------------------------------------------------------
(* The ring of scrollback lines.                                           *)

SlotOf(a, i) == (a + i) % Cap

\* The slot of a line, without the remainder.
LEMMA Slot ==
  ASSUME NEW a \in 0 .. Cap - 1, NEW i \in 0 .. Cap
  PROVE  SlotOf(a, i) = IF a + i < Cap THEN a + i ELSE a + i - Cap
<1> DEFINE n == a + i
<1>1. Cap \in Nat \ {0} /\ n \in Nat /\ n < 2 * Cap
  BY ScreenAssumption
<1> HIDE DEF n
<1>2. n < Cap => n % Cap = n
  BY <1>1
<1>3. Cap <= n => n % Cap = n - Cap
  BY <1>1
<1>4. n % Cap = IF n < Cap THEN n ELSE n - Cap
  BY <1>1, <1>2, <1>3
<1> QED BY <1>1, <1>4 DEF n, SlotOf

\* A line pushed onto a ring is its last, and the oldest gives way when it was
\* full.
LEMMA SbPushSteps ==
  ASSUME NEW v, RingShape(v), NEW line
  PROVE  /\ RingShape(SbPush(v, line)) /\ SbPush(v, line).count = Least(v.count + 1, Cap)
         /\ \A i \in 0 .. SbPush(v, line).count - 1 :
              SbGet(SbPush(v, line), i) =
                IF i = SbPush(v, line).count - 1 THEN line
                ELSE SbGet(v, i + (v.count + 1 - SbPush(v, line).count))
<1> DEFINE u == SbPush(v, line)
<1>0. Cap \in Nat \ {0} /\ v.start \in 0 .. Cap - 1 /\ v.count \in 0 .. Cap
  BY ScreenAssumption DEF RingShape
<1>1. CASE v.count < Cap
  <2> DEFINE at == SlotOf(v.start, v.count)
  <2>1. at \in 0 .. Cap - 1
    BY <1>0, <1>1, Slot
  <2>2. /\ u.start = v.start /\ u.count = v.count + 1 /\ Map(u) /\ DOMAIN u = DOMAIN v
        /\ u.ring = [v.ring EXCEPT ![at] = line]
    BY <1>1 DEF SbPush, RingShape, Map, SlotOf
  <2>3. Map(u.ring) /\ DOMAIN u.ring = 0 .. Cap - 1 /\ u.ring[at] = line
        /\ \A j \in 0 .. Cap - 1 : j # at => u.ring[j] = v.ring[j]
    BY <2>1, <2>2 DEF RingShape, Map
  <2>4. RingShape(u)
    BY <1>0, <1>1, <2>2, <2>3 DEF RingShape
  <2>5. ASSUME NEW i \in 0 .. u.count - 1
        PROVE  SbGet(u, i) = IF i = u.count - 1 THEN line ELSE SbGet(v, i)
    <3>1. i \in 0 .. Cap /\ i \in Nat /\ i <= v.count
      BY <1>0, <1>1, <2>2
    <3>2. CASE i = v.count
      BY <3>2, <2>2, <2>3, <1>0 DEF SbGet, SlotOf
    <3>3. CASE i # v.count
      <4>1. SlotOf(v.start, i) \in 0 .. Cap - 1 /\ SlotOf(v.start, i) # at
        <5>1. SlotOf(v.start, i) = IF v.start + i < Cap THEN v.start + i ELSE v.start + i - Cap
          BY <1>0, <3>1, Slot
        <5>2. at = IF v.start + v.count < Cap THEN v.start + v.count ELSE v.start + v.count - Cap
          BY <1>0, Slot
        <5>3. i < v.count
          BY <1>0, <3>1, <3>3
        <5> HIDE DEF at
        <5> QED BY <1>0, <1>1, <3>1, <5>1, <5>2, <5>3
      <4> QED BY <4>1, <2>2, <2>3, <3>3, <1>0, <3>1 DEF SbGet, SlotOf
    <3> QED BY <3>2, <3>3
  <2>6. \A i \in 0 .. u.count - 1 : i + (v.count + 1 - u.count) = i
    BY <2>2, <1>0
  <2>7. u.count = Least(v.count + 1, Cap)
    BY <2>2, <1>0, <1>1 DEF Least
  <2> HIDE DEF u
  <2> QED BY <2>4, <2>5, <2>6, <2>7 DEF u
<1>2. CASE ~(v.count < Cap)
  <2>1. v.count = Cap
    BY <1>0, <1>2
  <2> DEFINE next == SlotOf(v.start, 1)
  <2>2. next = IF v.start + 1 < Cap THEN v.start + 1 ELSE v.start + 1 - Cap
    BY <1>0, Slot
  <2>3. next \in 0 .. Cap - 1
    BY <2>2, <1>0
  <2>4. /\ u.start = next /\ u.count = v.count /\ Map(u) /\ DOMAIN u = DOMAIN v
        /\ u.ring = [v.ring EXCEPT ![v.start] = line]
    BY <1>2 DEF SbPush, RingShape, Map, SlotOf
  <2>5. Map(u.ring) /\ DOMAIN u.ring = 0 .. Cap - 1 /\ u.ring[v.start] = line
        /\ \A j \in 0 .. Cap - 1 : j # v.start => u.ring[j] = v.ring[j]
    BY <1>0, <2>4 DEF RingShape, Map
  <2>6. RingShape(u)
    BY <1>0, <2>3, <2>4, <2>5 DEF RingShape
  <2> HIDE DEF next
  <2>7. ASSUME NEW i \in 0 .. u.count - 1
        PROVE  SbGet(u, i) = IF i = u.count - 1 THEN line ELSE SbGet(v, i + 1)
    <3>1. i \in 0 .. Cap /\ i \in Nat /\ i < Cap
      BY <1>0, <2>4
    <3>2. SlotOf(next, i) = IF next + i < Cap THEN next + i ELSE next + i - Cap
      BY <2>3, <3>1, Slot
    <3>3. CASE i = Cap - 1
      <4>1. SlotOf(next, i) = v.start
        BY <3>2, <3>3, <2>2, <1>0
      <4> QED BY <4>1, <3>3, <2>4, <2>5, <2>1 DEF SbGet, SlotOf
    <3>4. CASE i # Cap - 1
      <4>1. SlotOf(v.start, i + 1) = IF v.start + (i + 1) < Cap THEN v.start + (i + 1) ELSE v.start + (i + 1) - Cap
        BY <1>0, <3>1, Slot
      <4>2. SlotOf(next, i) = SlotOf(v.start, i + 1)
        BY <3>1, <3>4, <3>2, <4>1, <2>2, <1>0
      <4>3. SlotOf(v.start, i + 1) \in 0 .. Cap - 1 /\ SlotOf(v.start, i + 1) # v.start
        BY <3>1, <3>4, <4>1, <1>0
      <4> QED BY <4>2, <4>3, <3>4, <2>4, <2>5, <2>1 DEF SbGet, SlotOf
    <3> QED BY <3>3, <3>4
  <2>8. \A i \in 0 .. u.count - 1 : i + (v.count + 1 - u.count) = i + 1
    BY <2>4, <1>0
  <2>9. u.count = Least(v.count + 1, Cap)
    BY <2>1, <2>4, <1>0 DEF Least
  <2> HIDE DEF u
  <2> QED BY <2>6, <2>7, <2>8, <2>9 DEF u
<1> QED BY <1>1, <1>2

\* Lines pushed one after the other: the ring is the end of the log.
LEMMA PushedRing ==
  ASSUME NEW sb, RingShape(sb), NEW L, Listed(L)
  PROVE  PushInv(<<sb, L>>, Len(L), FoldLeft(SbPush, sb, L))
<1> DEFINE c == <<sb, L>>
<1>1. FoldLeft(SbPush, sb, L) = Pushing!Fold(c, sb, L)
  BY DEF Pushing!Fold, PushOp, FoldLeft, Pushing!FoldLeft, MapThenFoldSet,
         Pushing!MapThenFoldSet, Max, Pushing!Max
<1>2. c[1] = sb /\ c[2] = L
  OBVIOUS
<1> HIDE DEF c
<1>3. PushInv(c, 0, sb)
  <2>1. sb.count \in 0 .. Cap /\ Cap \in Nat
    BY ScreenAssumption DEF RingShape
  <2>2. sb.count = Least(sb.count + 0, Cap)
    BY <2>1 DEF Least
  <2>3. \A i \in 0 .. sb.count - 1 : i + (sb.count + 0 - sb.count) = i /\ i < sb.count
    BY <2>1
  <2> QED BY <1>2, <2>2, <2>3 DEF PushInv, LogLine
<1>4. ASSUME NEW v, NEW k \in 1 .. Len(L), PushInv(c, k - 1, v)
      PROVE  PushInv(c, k, PushOp(c, v, L[k]))
  <2> DEFINE u == SbPush(v, L[k])
             n == sb.count
  <2>1. RingShape(v) /\ v.count = Least(n + (k - 1), Cap)
        /\ \A i \in 0 .. v.count - 1 : SbGet(v, i) = LogLine(c, i + (n + (k - 1) - v.count))
    BY <1>4, <1>2 DEF PushInv
  <2>2. RingShape(u) /\ u.count = Least(v.count + 1, Cap)
        /\ \A i \in 0 .. u.count - 1 :
             SbGet(u, i) = IF i = u.count - 1 THEN L[k] ELSE SbGet(v, i + (v.count + 1 - u.count))
    BY <2>1, SbPushSteps
  <2> HIDE DEF u
  <2>3. k \in Nat /\ k >= 1 /\ n \in 0 .. Cap /\ Cap \in Nat \ {0} /\ v.count \in Nat
        /\ u.count \in Nat
    BY <2>1, <2>2, ListedLen, ScreenAssumption DEF RingShape
  <2> HIDE DEF n
  <2>4. u.count = Least(n + k, Cap)
    BY <2>1, <2>2, <2>3 DEF Least
  <2>5. ASSUME NEW i \in 0 .. u.count - 1 PROVE SbGet(u, i) = LogLine(c, i + (n + k - u.count))
    <3>1. CASE i = u.count - 1
      <4> DEFINE j == i + (n + k - u.count)
      <4>1. j = n + k - 1 /\ ~(j < n) /\ j - n + 1 = k
        BY <3>1, <2>3
      <4>2. SbGet(u, i) = L[k]
        BY <3>1, <2>2
      <4> HIDE DEF j
      <4>3. LogLine(c, j) = L[k]
        BY <1>2, <4>1 DEF LogLine, n
      <4> QED BY <4>2, <4>3 DEF j
    <3>2. CASE i # u.count - 1
      <4> DEFINE h == i + (v.count + 1 - u.count)
      <4>1. h \in 0 .. v.count - 1
        BY <3>2, <2>1, <2>2, <2>3 DEF Least
      <4>2. h + (n + (k - 1) - v.count) = i + (n + k - u.count)
        BY <2>3
      <4>3. SbGet(u, i) = SbGet(v, h)
        BY <3>2, <2>2
      <4> HIDE DEF h
      <4> QED BY <4>1, <4>2, <4>3, <2>1
    <3> QED BY <3>1, <3>2
  <2>6. PushInv(c, k, u)
    BY <1>2, <2>2, <2>4, <2>5 DEF PushInv, n
  <2> QED BY <2>6 DEF PushOp, u
<1>5. PushInv(c, Len(L), Pushing!Fold(c, sb, L))
  BY <1>3, <1>4, ListedLen, Pushing!FoldKeeps
<1> QED BY <1>1, <1>5 DEF c

TopLines(s, k) == [i \in 1 .. k |-> s.primary[i - 1]]
Pushed(s, u, k) ==
  /\ ScreenGood(u) /\ Differ(s, u, {"sb", "scrolled_total"})
  /\ PushInv(<<s.sb, TopLines(s, k)>>, k, u.sb)

\* The top lines of the primary screen are pushed in order.
LEMMA PushTopGood ==
  ASSUME NEW s, ScreenGood(s), NEW k \in 0 .. s.rows PROVE Pushed(s, PushTop(s, k), k)
<1> DEFINE L == TopLines(s, k)
           u == PushTop(s, k)
           ring == FoldLeft(SbPush, s.sb, L)
           c == <<s.sb, L>>
<1>1. k \in Nat /\ s.rows \in Nat /\ \A i \in 1 .. k : i - 1 \in 0 .. s.rows - 1
  BY SizeFacts
<1>2. Listed(L) /\ Len(L) = k /\ \A i \in 1 .. k : L[i] \in [0 .. s.cols - 1 -> Cells]
  <2>1. \A i \in 1 .. k : s.primary[i - 1] \in [0 .. s.cols - 1 -> Cells]
    BY <1>1 DEF ScreenGood, Grids, IsGrid
  <2>2. L \in Seq([0 .. s.cols - 1 -> Cells]) /\ Len(L) = k
    BY <1>1, <2>1 DEF TopLines
  <2> QED BY <2>1, <2>2 DEF Listed, TopLines
<1>3. /\ u.sb = ring /\ u.scrolled_total = s.scrolled_total + k
      /\ Differ(s, u, {"sb", "scrolled_total"})
  BY DEF PushTop, TopLines, Differ, ScreenGood, IsScreen, Map, ScreenFields
<1>4. RingShape(s.sb) /\ s.sb.count \in 0 .. Cap /\ Cap \in Nat \ {0}
      /\ s.scrolled_total \in Nat /\ s.sb.count <= s.scrolled_total
      /\ \A i \in 0 .. s.sb.count - 1 : SbGet(s.sb, i) # NoLine
  BY ScreenAssumption DEF ScreenGood, Rings, IsRing, RingShape
<1> HIDE DEF L
<1>5. PushInv(c, k, ring)
  BY <1>2, <1>4, PushedRing
<1>6. c[1] = s.sb /\ c[2] = L
  OBVIOUS
<1> HIDE DEF c, u, ring
<1>7. IsRing(ring) /\ ring.count <= s.scrolled_total + k
  <2>1. RingShape(ring) /\ ring.count = Least(s.sb.count + k, Cap)
        /\ \A i \in 0 .. ring.count - 1 : SbGet(ring, i) = LogLine(c, i + (s.sb.count + k - ring.count))
    BY <1>5, <1>6 DEF PushInv
  <2>2. ASSUME NEW i \in 1 .. k PROVE L[i] # NoLine
    <3>1. 0 \in DOMAIN L[i]
      BY <1>2, SizeFacts
    <3> QED BY <3>1 DEF NoLine
  <2>3. ASSUME NEW i \in 0 .. ring.count - 1 PROVE SbGet(ring, i) # NoLine
    <3> DEFINE j == i + (s.sb.count + k - ring.count)
    <3>1. j \in 0 .. s.sb.count + k - 1
      BY <1>1, <1>4, <2>1 DEF Least
    <3> HIDE DEF j
    <3>2. LogLine(c, j) # NoLine
      <4>1. CASE j < s.sb.count
        <5>1. j \in 0 .. s.sb.count - 1
          BY <3>1, <4>1, <1>1, <1>4
        <5> QED BY <4>1, <5>1, <1>4, <1>6 DEF LogLine
      <4>2. CASE ~(j < s.sb.count)
        <5>1. j - s.sb.count + 1 \in 1 .. k
          BY <3>1, <4>2, <1>1, <1>4
        <5> QED BY <4>2, <5>1, <2>2, <1>6 DEF LogLine
      <4> QED BY <4>1, <4>2
    <3> QED BY <3>2, <2>1 DEF j
  <2>4. ring.count <= s.scrolled_total + k
    BY <2>1, <1>1, <1>4 DEF Least
  <2> QED BY <2>1, <2>3, <2>4 DEF IsRing
<1>8. ScreenGood(u)
  <2>1. /\ u.cols = s.cols /\ u.rows = s.rows /\ u.buf_alt = s.buf_alt /\ u.primary = s.primary
        /\ u.alt = s.alt /\ u.top = s.top /\ u.bot = s.bot /\ u.saved = s.saved /\ u.tabs = s.tabs
        /\ u.cx = s.cx /\ u.cy = s.cy /\ u.wrap_pending = s.wrap_pending
        /\ u.combo_pool = s.combo_pool /\ u.prompts = s.prompts
    BY <1>3 DEF Differ, ScreenFields
  <2>2. Rings(u)
    BY <1>1, <1>3, <1>4, <1>7 DEF Rings
  <2>3. IsScreen(u)
    BY <1>3 DEF Differ
  <2> QED BY <2>1, <2>2, <2>3 DEF ScreenGood, Sized, Grids, Cursor, Region, Saved, Stops,
             Marks, Others
<1> QED BY <1>3, <1>5, <1>8 DEF Pushed, u, ring, c, L

---------------------------------------------------------------------------
(* Drawing: the grid in use becomes g, everything else stays.              *)

Drawn(s, u, g) ==
  /\ ScreenGood(u) /\ Differ(s, u, {"primary", "alt"})
  /\ Buf(u) = g /\ IF s.buf_alt THEN u.primary = s.primary ELSE u.alt = s.alt
GridOf(s, g) == IsGrid(g, s.cols, s.rows)

\* The grid in use has the size of the screen.
LEMMA BufIsGrid == ASSUME NEW s, ScreenGood(s) PROVE GridOf(s, Buf(s))
  BY DEF ScreenGood, Grids, Buf, GridOf

\* Its cells are cells.
LEMMA BufCell ==
  ASSUME NEW s, ScreenGood(s), NEW r \in RowsOf(s)
  PROVE  Buf(s)[r] \in [Columns(s) -> Cells] /\ \A c \in Columns(s) : Buf(s)[r][c] \in Cells
  BY BufIsGrid DEF GridOf, IsGrid, RowsOf, Columns

\* Another grid of the same size may be drawn.
LEMMA WithBufGood ==
  ASSUME NEW s, ScreenGood(s), NEW g, GridOf(s, g) PROVE Drawn(s, WithBuf(s, g), g)
<1> DEFINE u == WithBuf(s, g)
<1>1. /\ Differ(s, u, {"primary", "alt"}) /\ Buf(u) = g
      /\ u.primary = IF s.buf_alt THEN s.primary ELSE g
      /\ u.alt = IF s.buf_alt THEN g ELSE s.alt
  BY DEF WithBuf, Buf, Differ, ScreenGood, IsScreen, Map, ScreenFields
<1> HIDE DEF u
<1>2. /\ u.cols = s.cols /\ u.rows = s.rows /\ u.buf_alt = s.buf_alt /\ u.sb = s.sb
      /\ u.top = s.top /\ u.bot = s.bot /\ u.saved = s.saved /\ u.tabs = s.tabs
      /\ u.cx = s.cx /\ u.cy = s.cy /\ u.wrap_pending = s.wrap_pending
      /\ u.scrolled_total = s.scrolled_total /\ u.combo_pool = s.combo_pool
      /\ u.prompts = s.prompts
  BY <1>1 DEF Differ, ScreenFields
<1>3. Grids(u)
  BY <1>1, <1>2 DEF Grids, GridOf, ScreenGood
<1>4. IsScreen(u)
  BY <1>1 DEF Differ
<1>5. ScreenGood(u)
  BY <1>2, <1>3, <1>4 DEF ScreenGood, Sized, Cursor, Region, Saved, Stops, Rings, Marks, Others
<1> QED BY <1>1, <1>5 DEF Drawn, u

\* The blank cell has no combining mark.
LEMMA BlankCell == Blank \in Cells /\ Blank.combo = 0
  BY DEF Blank, Cell, Cells, Glyphs
Erased(s, cells) ==
  [r \in RowsOf(s) |-> [c \in Columns(s) |-> IF <<r, c>> \in cells THEN Blank ELSE Buf(s)[r][c]]]

\* Erasing draws the grid with those cells blank.
LEMMA EraseGood ==
  ASSUME NEW s, ScreenGood(s), NEW cells
  PROVE  EraseWhere(s, cells) = WithBuf(s, Erased(s, cells))
         /\ Drawn(s, EraseWhere(s, cells), Erased(s, cells))
<1>1. EraseWhere(s, cells) = WithBuf(s, Erased(s, cells))
  BY DEF EraseWhere, Erased
<1>2. GridOf(s, Erased(s, cells))
  BY BlankCell, BufCell DEF Erased, GridOf, IsGrid, RowsOf, Columns
<1> QED BY <1>1, <1>2, WithBufGood

LiftedUp(s, a, b, k) ==
  [r \in RowsOf(s) |-> IF r \notin a .. b THEN Buf(s)[r]
                       ELSE IF r + k <= b THEN Buf(s)[r + k] ELSE BlankLine(s)]
LiftedDown(s, a, b, k) ==
  [r \in RowsOf(s) |-> IF r \notin a .. b THEN Buf(s)[r]
                       ELSE IF r - k >= a THEN Buf(s)[r - k] ELSE BlankLine(s)]

\* Shifting rows draws the grid with its rows moved and blank rows let in.
LEMMA ShiftGood ==
  ASSUME NEW s, ScreenGood(s), NEW a \in Nat, NEW b \in a - 1 .. s.rows - 1, NEW k \in Nat
  PROVE  /\ Drawn(s, ShiftUp(s, a, b, k), LiftedUp(s, a, b, k))
         /\ Drawn(s, ShiftDown(s, a, b, k), LiftedDown(s, a, b, k))
<1>0. BlankLine(s) \in [Columns(s) -> Cells]
  BY BlankCell DEF BlankLine
<1>1. GridOf(s, LiftedUp(s, a, b, k))
  <2>1. ASSUME NEW r \in RowsOf(s) PROVE LiftedUp(s, a, b, k)[r] \in [Columns(s) -> Cells]
    <3>1. r + k <= b => r + k \in RowsOf(s)
      BY SizeFacts DEF RowsOf
    <3> QED BY <3>1, <1>0, BufCell DEF LiftedUp
  <2> QED BY <2>1 DEF LiftedUp, GridOf, IsGrid, RowsOf, Columns
<1>2. GridOf(s, LiftedDown(s, a, b, k))
  <2>1. ASSUME NEW r \in RowsOf(s) PROVE LiftedDown(s, a, b, k)[r] \in [Columns(s) -> Cells]
    <3>1. r - k >= a => r - k \in RowsOf(s)
      BY SizeFacts DEF RowsOf
    <3> QED BY <3>1, <1>0, BufCell DEF LiftedDown
  <2> QED BY <2>1 DEF LiftedDown, GridOf, IsGrid, RowsOf, Columns
<1>3. ShiftUp(s, a, b, k) = WithBuf(s, LiftedUp(s, a, b, k))
      /\ ShiftDown(s, a, b, k) = WithBuf(s, LiftedDown(s, a, b, k))
  BY DEF ShiftUp, LiftedUp, ShiftDown, LiftedDown
<1> QED BY <1>1, <1>2, <1>3, WithBufGood

WithLine(s, r, line) == [Buf(s) EXCEPT ![r] = line]

\* Replacing a row draws the grid with that row.
LEMMA WithRowGood ==
  ASSUME NEW s, ScreenGood(s), NEW r \in RowsOf(s), NEW line \in [Columns(s) -> Cells]
  PROVE  Drawn(s, WithRow(s, r, line), WithLine(s, r, line))
<1>1. GridOf(s, WithLine(s, r, line))
  BY BufIsGrid DEF GridOf, IsGrid, WithLine, RowsOf, Columns
<1>2. WithRow(s, r, line) = WithBuf(s, WithLine(s, r, line))
  BY DEF WithRow, WithLine
<1> QED BY <1>1, <1>2, WithBufGood

---------------------------------------------------------------------------
(* Combining marks: the cells that are shown or can be shown again, and    *)
(* the numbers of their strings.                                           *)

PastPlaces(s) == UNION {{<<"past", i, c>> : c \in DOMAIN SbGet(s.sb, i)} : i \in 0 .. s.sb.count - 1}
Places(s) == ({"grid"} \X RowsOf(s) \X Columns(s))
             \cup (IF s.buf_alt THEN {"under"} \X RowsOf(s) \X Columns(s) ELSE {})
             \cup PastPlaces(s)
At(s, p) == CASE p[1] = "grid" -> Buf(s)[p[2]][p[3]].combo
              [] p[1] = "under" -> s.primary[p[2]][p[3]].combo
              [] p[1] = "past" -> SbGet(s.sb, p[2])[p[3]].combo

\* The mark at a cell of the grid in use.
LEMMA AtGrid == ASSUME NEW s, NEW r, NEW c PROVE At(s, <<"grid", r, c>>) = Buf(s)[r][c].combo
  BY DEF At
\* Every number is one of the pool and belongs to one cell.
Owned(s) ==
  /\ \A p \in Places(s) : At(s, p) \in 0 .. s.combo_pool
  /\ \A p, q \in Places(s) : At(s, p) # 0 /\ At(s, p) = At(s, q) => p = q

\* m says where each numbered cell of u was in s.
Carried(s, u, m) ==
  /\ \A p \in Places(u) : At(u, p) # 0 => m[p] \in Places(s) /\ At(s, m[p]) = At(u, p)
  /\ \A p, q \in Places(u) : At(u, p) # 0 /\ At(u, q) # 0 /\ m[p] = m[q] => p = q

\* Marks that are only carried from place to place stay owned.
LEMMA CarriedOwned ==
  ASSUME NEW s, NEW u, NEW m, Carried(s, u, m), u.combo_pool = s.combo_pool, s.combo_pool \in Nat,
         Owned(s)
  PROVE  Owned(u)
<1>1. ASSUME NEW p \in Places(u) PROVE At(u, p) \in 0 .. u.combo_pool
  BY DEF Carried, Owned
<1>2. ASSUME NEW p \in Places(u), NEW q \in Places(u), At(u, p) # 0, At(u, p) = At(u, q)
      PROVE  p = q
  BY <1>2 DEF Carried, Owned
<1> QED BY <1>1, <1>2 DEF Owned

Fine(s, u) == ScreenGood(u) /\ (Owned(s) => Owned(u))

\* Two operations that keep marks owned keep them owned.
LEMMA FineTwice == ASSUME NEW s, NEW u, NEW v, Fine(s, u), Fine(u, v) PROVE Fine(s, v)
  BY DEF Fine

\* What leaves the cells alone leaves the marks alone.
LEMMA KeptFine == ASSUME NEW s, NEW u, Kept(s, u) PROVE Fine(s, u)
<1>1. Places(u) = Places(s)
  BY DEF Kept, SameCells, Places, PastPlaces, RowsOf, Columns
<1>2. \A p : At(u, p) = At(s, p)
  BY DEF Kept, SameCells, At, Buf
<1>3. u.combo_pool = s.combo_pool
  BY DEF Kept, SameCells
<1> QED BY <1>1, <1>2, <1>3 DEF Fine, Kept, Owned

\* n says where each numbered cell of the grid g was in the grid of s.
Rearranged(s, g, n) ==
  /\ \A r \in RowsOf(s), c \in Columns(s) :
        g[r][c].combo # 0 => /\ n[<<r, c>>] \in RowsOf(s) \X Columns(s)
                             /\ Buf(s)[n[<<r, c>>][1]][n[<<r, c>>][2]].combo = g[r][c].combo
  /\ \A r, r2 \in RowsOf(s), c, c2 \in Columns(s) :
        g[r][c].combo # 0 /\ g[r2][c2].combo # 0 /\ n[<<r, c>>] = n[<<r2, c2>>] => r = r2 /\ c = c2

\* A grid whose marks all come from the grid it replaces, each from a cell of
\* its own, keeps them owned.
LEMMA DrawnFine ==
  ASSUME NEW s, NEW u, NEW g, NEW n, ScreenGood(s), Drawn(s, u, g), Rearranged(s, g, n)
  PROVE  Fine(s, u)
<1>1. /\ u.cols = s.cols /\ u.rows = s.rows /\ u.buf_alt = s.buf_alt /\ u.sb = s.sb
      /\ u.combo_pool = s.combo_pool /\ Buf(u) = g /\ (s.buf_alt => u.primary = s.primary)
  BY DEF Drawn, Differ, ScreenFields
<1>2. Places(u) = Places(s)
  BY <1>1 DEF Places, PastPlaces, RowsOf, Columns
<1> DEFINE m == [p \in Places(u) |->
                   IF p[1] = "grid" THEN <<"grid", n[<<p[2], p[3]>>][1], n[<<p[2], p[3]>>][2]>> ELSE p]
<1>3. \A p \in Places(u) : p[1] \in {"grid", "under", "past"}
      /\ (p[1] = "grid" => p[2] \in RowsOf(s) /\ p[3] \in Columns(s) /\ p = <<"grid", p[2], p[3]>>)
      /\ (p[1] = "under" => s.buf_alt)
  BY <1>1 DEF Places, PastPlaces, RowsOf, Columns
<1>4. \A p \in Places(u) : p[1] # "grid" => m[p] = p /\ At(u, p) = At(s, p)
  BY <1>1, <1>3 DEF At
<1>5. \A p \in Places(u) : p[1] = "grid" =>
         m[p] = <<"grid", n[<<p[2], p[3]>>][1], n[<<p[2], p[3]>>][2]>> /\ At(u, p) = g[p[2]][p[3]].combo
  BY <1>1, <1>3 DEF At
<1> HIDE DEF m
<1>6. ASSUME NEW p \in Places(u), At(u, p) # 0, p[1] = "grid"
      PROVE  m[p] \in Places(s) /\ At(s, m[p]) = At(u, p) /\ m[p][1] = "grid"
  <2>1. n[<<p[2], p[3]>>] \in RowsOf(s) \X Columns(s)
        /\ Buf(s)[n[<<p[2], p[3]>>][1]][n[<<p[2], p[3]>>][2]].combo = At(u, p)
    BY <1>3, <1>5, <1>6 DEF Rearranged
  <2>2. PICK r \in RowsOf(s), c \in Columns(s) : n[<<p[2], p[3]>>] = <<r, c>>
    BY <2>1
  <2>3. m[p] = <<"grid", r, c>> /\ Buf(s)[r][c].combo = At(u, p)
    BY <1>5, <1>6, <2>1, <2>2
  <2>4. <<"grid", r, c>> \in Places(s)
    BY DEF Places
  <2> QED BY <2>3, <2>4, AtGrid
<1>7. ASSUME NEW p \in Places(u), NEW q \in Places(u), At(u, p) # 0, At(u, q) # 0, m[p] = m[q]
      PROVE  p = q
  <2>1. CASE p[1] = "grid" /\ q[1] = "grid"
    <3>1. n[<<p[2], p[3]>>] \in RowsOf(s) \X Columns(s)
          /\ n[<<q[2], q[3]>>] \in RowsOf(s) \X Columns(s)
      BY <1>3, <1>5, <1>7, <2>1 DEF Rearranged
    <3>2. n[<<p[2], p[3]>>] = n[<<q[2], q[3]>>]
      BY <3>1, <1>5, <1>7, <2>1
    <3>3. p[2] = q[2] /\ p[3] = q[3]
      BY SMTT(20), <3>2, <1>3, <1>5, <1>7, <2>1 DEF Rearranged
    <3> QED BY <3>3, <1>3, <2>1
  <2>2. CASE p[1] # "grid" \/ q[1] # "grid"
    BY <2>2, <1>4, <1>6, <1>7
  <2> QED BY <2>1, <2>2
<1>8. Carried(s, u, m)
  BY <1>2, <1>4, <1>6, <1>7 DEF Carried
<1> QED BY <1>1, <1>8, CarriedOwned DEF Fine, Drawn, ScreenGood, Others

---------------------------------------------------------------------------
(* Erasing, inserting and deleting.                                        *)

Here(s) == [k \in RowsOf(s) \X Columns(s) |-> k]

\* Erasing keeps marks owned.
LEMMA EraseFine == ASSUME NEW s, ScreenGood(s), NEW cells PROVE Fine(s, EraseWhere(s, cells))
<1>1. Rearranged(s, Erased(s, cells), Here(s))
  BY BlankCell DEF Rearranged, Erased, Here
<1> QED BY <1>1, EraseGood, DrawnFine

\* Dropping a pending wrap does not touch marks.
LEMMA NoWrapFine == ASSUME NEW s, NEW u, Fine(s, u) PROVE Fine(s, NoWrap(u))
<1>1. Fine(u, NoWrap(u))
  BY NoWrapGood, KeptFine DEF Fine
<1> QED BY <1>1, FineTwice

\* Doing nothing keeps marks owned.
LEMMA FineSelf == ASSUME NEW s, ScreenGood(s) PROVE Fine(s, s)
  BY DEF Fine

\* Erase in line keeps marks owned.
LEMMA EraseInLineFine ==
  ASSUME NEW s, ScreenGood(s), NEW mode PROVE Fine(s, EraseInLine(s, mode))
<1> DEFINE u == CASE mode = 0 -> EraseWhere(s, {s.cy} \X (s.cx .. s.cols - 1))
                  [] mode = 1 -> EraseWhere(s, {s.cy} \X (0 .. s.cx))
                  [] mode = 2 -> EraseWhere(s, {s.cy} \X Columns(s))
                  [] OTHER -> s
<1>1. EraseInLine(s, mode) = NoWrap(u)
  BY DEF EraseInLine
<1>2. Fine(s, u)
  BY EraseFine, FineSelf
<1> QED BY <1>1, <1>2, NoWrapFine

\* Erase characters keeps marks owned.
LEMMA EraseCharsFine == ASSUME NEW s, ScreenGood(s), NEW n PROVE Fine(s, EraseChars(s, n))
  BY EraseFine DEF EraseChars

\* Clearing the scrollback keeps marks owned: lines only go.
LEMMA ClearHistoryFine == ASSUME NEW s, ScreenGood(s) PROVE Fine(s, ClearHistory(s))
<1> DEFINE u == ClearHistory(s)
           e == [[s.sb EXCEPT !.ring = [i \in DOMAIN @ |-> NoLine]] EXCEPT !.start = 0, !.count = 0]
<1>1. u.sb = e /\ u.prompts = <<>> /\ Differ(s, u, {"sb", "prompts"})
  BY DEF ClearHistory, Differ, ScreenGood, IsScreen, Map, ScreenFields
<1>2. /\ e.start = 0 /\ e.count = 0 /\ e.ring = [i \in DOMAIN s.sb.ring |-> NoLine]
      /\ Map(e) /\ DOMAIN e = {"ring", "start", "count"}
  BY ZenonT(40) DEF ScreenGood, Rings, IsRing, RingShape, Map
<1> HIDE DEF e
<1>3. IsRing(e)
  BY <1>2, ScreenAssumption DEF IsRing, RingShape, Map, ScreenGood, Rings
<1> HIDE DEF u
<1>4. /\ u.cols = s.cols /\ u.rows = s.rows /\ u.buf_alt = s.buf_alt /\ u.primary = s.primary
      /\ u.alt = s.alt /\ u.top = s.top /\ u.bot = s.bot /\ u.saved = s.saved /\ u.tabs = s.tabs
      /\ u.cx = s.cx /\ u.cy = s.cy /\ u.wrap_pending = s.wrap_pending
      /\ u.scrolled_total = s.scrolled_total /\ u.combo_pool = s.combo_pool
  BY <1>1 DEF Differ, ScreenFields
<1>5. Rings(u)
  BY <1>1, <1>2, <1>3, <1>4 DEF Rings, ScreenGood
<1>6. Marks(u)
  <2>1. Len(<<>>) = 0
    OBVIOUS
  <2>2. Numbered(<<>>) /\ Len(<<>>) <= PromptCap
    BY <2>1, NumberedNone, ScreenAssumption
  <2>3. u.prompts = <<>>
    BY <1>1
  <2> QED BY <2>2, <2>3 DEF Marks
<1>7. IsScreen(u)
  BY <1>1 DEF Differ
<1>8. ScreenGood(u)
  BY <1>4, <1>5, <1>6, <1>7 DEF ScreenGood, Sized, Grids, Cursor, Region, Saved, Stops, Others
<1>9. Places(u) \subseteq Places(s)
  BY <1>1, <1>2, <1>4 DEF Places, PastPlaces, RowsOf, Columns
<1>10. \A p \in Places(u) : At(u, p) = At(s, p)
  <2>1. PastPlaces(u) = {}
    BY <1>1, <1>2 DEF PastPlaces
  <2> QED BY <2>1, <1>4 DEF Places, At, Buf
<1> QED BY <1>4, <1>8, <1>9, <1>10 DEF Fine, Owned, u

\* Erase in display keeps marks owned.
LEMMA EraseInDisplayFine ==
  ASSUME NEW s, ScreenGood(s), NEW mode PROVE Fine(s, EraseInDisplay(s, mode))
<1> DEFINE u == CASE mode = 0 -> EraseWhere(s, ((s.cy + 1 .. s.rows - 1) \X Columns(s))
                                               \union ({s.cy} \X (s.cx .. s.cols - 1)))
                  [] mode = 1 -> EraseWhere(s, ((0 .. s.cy - 1) \X Columns(s))
                                               \union ({s.cy} \X (0 .. s.cx)))
                  [] mode = 2 -> EraseWhere(s, RowsOf(s) \X Columns(s))
                  [] mode = 3 -> ClearHistory(s)
                  [] OTHER -> s
<1>1. EraseInDisplay(s, mode) = NoWrap(u)
  BY DEF EraseInDisplay
<1>2. Fine(s, u)
  BY EraseFine, ClearHistoryFine, FineSelf
<1> QED BY <1>1, <1>2, NoWrapFine

\* A line of the grid becomes a rearrangement of itself.
LineMoved(s, r, line, n) ==
  /\ \A c \in Columns(s) : line[c].combo # 0 => n[c] \in Columns(s) /\ Buf(s)[r][n[c]].combo = line[c].combo
  /\ \A c, d \in Columns(s) : line[c].combo # 0 /\ line[d].combo # 0 /\ n[c] = n[d] => c = d

\* A line that is a rearrangement of itself keeps marks owned.
LEMMA LineFine ==
  ASSUME NEW s, ScreenGood(s), NEW r \in RowsOf(s), NEW line \in [Columns(s) -> Cells], NEW n,
         LineMoved(s, r, line, n)
  PROVE  Fine(s, WithRow(s, r, line))
<1> DEFINE g == WithLine(s, r, line)
           m == [k \in RowsOf(s) \X Columns(s) |-> IF k[1] = r THEN <<r, n[k[2]]>> ELSE k]
<1>1. Drawn(s, WithRow(s, r, line), g)
  BY WithRowGood
<1>2. \A q \in RowsOf(s) : g[q] = IF q = r THEN line ELSE Buf(s)[q]
  BY BufIsGrid DEF GridOf, IsGrid, WithLine, RowsOf
<1>3. \A q \in RowsOf(s), c \in Columns(s) : m[<<q, c>>] = IF q = r THEN <<r, n[c]>> ELSE <<q, c>>
  OBVIOUS
<1> HIDE DEF g, m
<1>4. Rearranged(s, g, m)
  <2>1. ASSUME NEW q \in RowsOf(s), NEW c \in Columns(s), g[q][c].combo # 0
        PROVE  /\ m[<<q, c>>] \in RowsOf(s) \X Columns(s)
               /\ Buf(s)[m[<<q, c>>][1]][m[<<q, c>>][2]].combo = g[q][c].combo
    <3>1. CASE q = r
      <4>1. g[q][c] = line[c] /\ m[<<q, c>>] = <<r, n[c]>>
        BY <1>2, <1>3, <3>1
      <4>2. n[c] \in Columns(s) /\ Buf(s)[r][n[c]].combo = line[c].combo
        BY <2>1, <4>1 DEF LineMoved
      <4> QED BY <4>1, <4>2
    <3>2. CASE q # r
      <4>1. g[q][c] = Buf(s)[q][c] /\ m[<<q, c>>] = <<q, c>>
        BY <1>2, <1>3, <3>2
      <4> QED BY <4>1
    <3> QED BY <3>1, <3>2
  <2>2. ASSUME NEW q \in RowsOf(s), NEW q2 \in RowsOf(s), NEW c \in Columns(s), NEW d \in Columns(s),
               g[q][c].combo # 0, g[q2][d].combo # 0, m[<<q, c>>] = m[<<q2, d>>]
        PROVE  q = q2 /\ c = d
    <3>1. \A x \in RowsOf(s), y \in Columns(s) :
            m[<<x, y>>][1] = x /\ m[<<x, y>>][2] = IF x = r THEN n[y] ELSE y
      <4> TAKE x \in RowsOf(s), y \in Columns(s)
      <4>1. CASE x = r
        <5>1. m[<<x, y>>] = <<r, n[y]>>
          BY <1>3, <4>1
        <5> QED BY <4>1, <5>1
      <4>2. CASE x # r
        <5>1. m[<<x, y>>] = <<x, y>>
          BY <1>3, <4>2
        <5> QED BY <4>2, <5>1
      <4> QED BY <4>1, <4>2
    <3>2. m[<<q, c>>][1] = m[<<q2, d>>][1] /\ m[<<q, c>>][2] = m[<<q2, d>>][2]
      BY <2>2
    <3>3. q = q2 /\ (IF q = r THEN n[c] = n[d] ELSE c = d)
      BY <3>1, <3>2
    <3>4. CASE q = r
      <4>1. g[q][c] = line[c] /\ g[q2][d] = line[d] /\ n[c] = n[d]
        BY <1>2, <3>3, <3>4
      <4> QED BY <2>2, <3>3, <4>1 DEF LineMoved
    <3> QED BY <3>3, <3>4
  <2> QED BY <2>1, <2>2 DEF Rearranged
<1> QED BY <1>1, <1>4, DrawnFine

\* Insert characters moves the rest of the line right.
LEMMA InsertCharsFine ==
  ASSUME NEW s, ScreenGood(s), NEW n \in Int PROVE Fine(s, InsertChars(s, n))
<1> DEFINE k == Clamp(n, 1, s.cols - s.cx)
           line == [c \in Columns(s) |-> IF c < s.cx THEN Buf(s)[s.cy][c]
                                         ELSE IF c < s.cx + k THEN Blank ELSE Buf(s)[s.cy][c - k]]
           m == [c \in Columns(s) |-> IF c < s.cx THEN c ELSE c - k]
<1>1. InsertChars(s, n) = WithRow(s, s.cy, line)
  BY DEF InsertChars
<1>2. k \in Nat /\ k >= 1 /\ s.cy \in RowsOf(s)
  BY SizeFacts DEF Clamp, RowsOf
<1> HIDE DEF k
<1>3. \A c \in Columns(s) : c >= s.cx + k => c - k \in Columns(s) /\ c - k >= s.cx
  BY <1>2, SizeFacts DEF Columns
<1>4. line \in [Columns(s) -> Cells]
  BY <1>2, <1>3, SizeFacts, BufCell, BlankCell DEF Columns
<1>5. LineMoved(s, s.cy, line, m)
  BY <1>2, <1>3, SizeFacts, BlankCell DEF LineMoved, Columns
<1> HIDE DEF line, m
<1> QED BY <1>1, <1>2, <1>4, <1>5, LineFine

\* Delete characters moves the rest of the line left.
LEMMA DeleteCharsFine ==
  ASSUME NEW s, ScreenGood(s), NEW n \in Int PROVE Fine(s, DeleteChars(s, n))
<1> DEFINE k == Clamp(n, 1, s.cols - s.cx)
           line == [c \in Columns(s) |-> IF c < s.cx THEN Buf(s)[s.cy][c]
                                         ELSE IF c + k < s.cols THEN Buf(s)[s.cy][c + k] ELSE Blank]
           m == [c \in Columns(s) |-> IF c < s.cx THEN c ELSE c + k]
<1>1. DeleteChars(s, n) = WithRow(s, s.cy, line)
  BY DEF DeleteChars
<1>2. k \in Nat /\ k >= 1 /\ s.cy \in RowsOf(s)
  BY SizeFacts DEF Clamp, RowsOf
<1> HIDE DEF k
<1>3. \A c \in Columns(s) : c + k < s.cols => c + k \in Columns(s)
  BY <1>2, SizeFacts DEF Columns
<1>4. line \in [Columns(s) -> Cells]
  BY <1>2, <1>3, SizeFacts, BufCell, BlankCell DEF Columns
<1>5. LineMoved(s, s.cy, line, m)
  BY <1>2, <1>3, SizeFacts, BlankCell DEF LineMoved, Columns
<1> HIDE DEF line, m
<1> QED BY <1>1, <1>2, <1>4, <1>5, LineFine

---------------------------------------------------------------------------
(* Scrolling.                                                              *)

\* Rows shifted up take their marks along.
LEMMA ShiftUpFine ==
  ASSUME NEW s, ScreenGood(s), NEW a \in Nat, NEW b \in a - 1 .. s.rows - 1, NEW k \in Nat
  PROVE  Fine(s, ShiftUp(s, a, b, k))
<1> DEFINE g == LiftedUp(s, a, b, k)
           m == [p \in RowsOf(s) \X Columns(s) |-> IF p[1] \in a .. b THEN <<p[1] + k, p[2]>> ELSE p]
<1>1. \A r \in RowsOf(s), c \in Columns(s) :
         g[r][c].combo # 0 => /\ g[r] = (IF r \in a .. b THEN Buf(s)[r + k] ELSE Buf(s)[r])
                              /\ r \in a .. b => r + k <= b
  BY BlankCell DEF LiftedUp, BlankLine
<1>2. \A r \in RowsOf(s), c \in Columns(s) : m[<<r, c>>] = IF r \in a .. b THEN <<r + k, c>> ELSE <<r, c>>
  OBVIOUS
<1>3. \A r \in RowsOf(s) : r \in Nat /\ (r + k <= b => r + k \in RowsOf(s))
  BY SizeFacts DEF RowsOf
<1> HIDE DEF g, m
<1>4. ASSUME NEW r \in RowsOf(s), NEW c \in Columns(s), g[r][c].combo # 0
      PROVE  /\ m[<<r, c>>] \in RowsOf(s) \X Columns(s)
             /\ Buf(s)[m[<<r, c>>][1]][m[<<r, c>>][2]].combo = g[r][c].combo
  <2>1. CASE r \in a .. b
    <3>1. m[<<r, c>>] = <<r + k, c>> /\ g[r] = Buf(s)[r + k] /\ r + k \in RowsOf(s)
      BY <1>1, <1>2, <1>3, <1>4, <2>1
    <3> QED BY <3>1
  <2>2. CASE r \notin a .. b
    <3>1. m[<<r, c>>] = <<r, c>> /\ g[r] = Buf(s)[r]
      BY <1>1, <1>2, <1>4, <2>2
    <3> QED BY <3>1
  <2> QED BY <2>1, <2>2
<1>5. ASSUME NEW r \in RowsOf(s), NEW r2 \in RowsOf(s), NEW c \in Columns(s), NEW d \in Columns(s),
             g[r][c].combo # 0, g[r2][d].combo # 0, m[<<r, c>>] = m[<<r2, d>>]
      PROVE  r = r2 /\ c = d
  <2>1. /\ r \in a .. b => r + k <= b
        /\ r2 \in a .. b => r2 + k <= b
    BY <1>1, <1>5
  <2>2. \A x \in RowsOf(s), y \in Columns(s) :
          m[<<x, y>>][2] = y /\ m[<<x, y>>][1] = IF x \in a .. b THEN x + k ELSE x
    <3> TAKE x \in RowsOf(s), y \in Columns(s)
    <3>1. CASE x \in a .. b
      <4>1. m[<<x, y>>] = <<x + k, y>>
        BY <1>2, <3>1
      <4> QED BY <3>1, <4>1
    <3>2. CASE x \notin a .. b
      <4>1. m[<<x, y>>] = <<x, y>>
        BY <1>2, <3>2
      <4> QED BY <3>2, <4>1
    <3> QED BY <3>1, <3>2
  <2>3. c = d /\ (IF r \in a .. b THEN r + k ELSE r) = (IF r2 \in a .. b THEN r2 + k ELSE r2)
    BY <1>5, <2>2
  <2> QED BY <1>3, <2>1, <2>3
<1>6. Rearranged(s, g, m)
  BY <1>4, <1>5 DEF Rearranged
<1> QED BY <1>6, ShiftGood, DrawnFine DEF g

\* Rows shifted down take their marks along.
LEMMA ShiftDownFine ==
  ASSUME NEW s, ScreenGood(s), NEW a \in Nat, NEW b \in a - 1 .. s.rows - 1, NEW k \in Nat
  PROVE  Fine(s, ShiftDown(s, a, b, k))
<1> DEFINE g == LiftedDown(s, a, b, k)
           m == [p \in RowsOf(s) \X Columns(s) |-> IF p[1] \in a .. b THEN <<p[1] - k, p[2]>> ELSE p]
<1>1. \A r \in RowsOf(s), c \in Columns(s) :
         g[r][c].combo # 0 => /\ g[r] = (IF r \in a .. b THEN Buf(s)[r - k] ELSE Buf(s)[r])
                              /\ r \in a .. b => r - k >= a
  BY BlankCell DEF LiftedDown, BlankLine
<1>2. \A r \in RowsOf(s), c \in Columns(s) : m[<<r, c>>] = IF r \in a .. b THEN <<r - k, c>> ELSE <<r, c>>
  OBVIOUS
<1>3. \A r \in RowsOf(s) : r \in Nat /\ (r - k >= a => r - k \in RowsOf(s))
  BY SizeFacts DEF RowsOf
<1> HIDE DEF g, m
<1>4. ASSUME NEW r \in RowsOf(s), NEW c \in Columns(s), g[r][c].combo # 0
      PROVE  /\ m[<<r, c>>] \in RowsOf(s) \X Columns(s)
             /\ Buf(s)[m[<<r, c>>][1]][m[<<r, c>>][2]].combo = g[r][c].combo
  <2>1. CASE r \in a .. b
    <3>1. m[<<r, c>>] = <<r - k, c>> /\ g[r] = Buf(s)[r - k] /\ r - k \in RowsOf(s)
      BY <1>1, <1>2, <1>3, <1>4, <2>1
    <3> QED BY <3>1
  <2>2. CASE r \notin a .. b
    <3>1. m[<<r, c>>] = <<r, c>> /\ g[r] = Buf(s)[r]
      BY <1>1, <1>2, <1>4, <2>2
    <3> QED BY <3>1
  <2> QED BY <2>1, <2>2
<1>5. ASSUME NEW r \in RowsOf(s), NEW r2 \in RowsOf(s), NEW c \in Columns(s), NEW d \in Columns(s),
             g[r][c].combo # 0, g[r2][d].combo # 0, m[<<r, c>>] = m[<<r2, d>>]
      PROVE  r = r2 /\ c = d
  <2>1. /\ r \in a .. b => r - k >= a
        /\ r2 \in a .. b => r2 - k >= a
    BY <1>1, <1>5
  <2>2. \A x \in RowsOf(s), y \in Columns(s) :
          m[<<x, y>>][2] = y /\ m[<<x, y>>][1] = IF x \in a .. b THEN x - k ELSE x
    <3> TAKE x \in RowsOf(s), y \in Columns(s)
    <3>1. CASE x \in a .. b
      <4>1. m[<<x, y>>] = <<x - k, y>>
        BY <1>2, <3>1
      <4> QED BY <3>1, <4>1
    <3>2. CASE x \notin a .. b
      <4>1. m[<<x, y>>] = <<x, y>>
        BY <1>2, <3>2
      <4> QED BY <3>2, <4>1
    <3> QED BY <3>1, <3>2
  <2>3. c = d /\ (IF r \in a .. b THEN r - k ELSE r) = (IF r2 \in a .. b THEN r2 - k ELSE r2)
    BY <1>5, <2>2
  <2> QED BY <1>3, <2>1, <2>3
<1>6. Rearranged(s, g, m)
  BY <1>4, <1>5 DEF Rearranged
<1> QED BY <1>6, ShiftGood, DrawnFine DEF g

\* Insert and delete lines keep marks owned.
LEMMA LinesFine ==
  ASSUME NEW s, ScreenGood(s), NEW n \in Int
  PROVE  Fine(s, InsertLines(s, n)) /\ Fine(s, DeleteLines(s, n))
<1>1. CASE ~InRegion(s)
  BY <1>1, FineSelf DEF InsertLines, DeleteLines
<1>2. CASE InRegion(s)
  <2>1. s.cy \in Nat /\ s.bot \in s.cy - 1 .. s.rows - 1 /\ Clamp(n, 1, s.bot - s.cy + 1) \in Nat
    BY <1>2, SizeFacts DEF InRegion, Clamp
  <2> QED BY <1>2, <2>1, ShiftUpFine, ShiftDownFine DEF InsertLines, DeleteLines
<1> QED BY <1>1, <1>2

\* Scrolling down keeps marks owned.
LEMMA ScrollDownFine ==
  ASSUME NEW s, ScreenGood(s), NEW n \in Nat PROVE Fine(s, ScrollDown(s, n))
<1>1. s.top \in Nat /\ s.bot \in s.top - 1 .. s.rows - 1 /\ Least(n, s.bot - s.top + 1) \in Nat
  BY SizeFacts DEF Least
<1> QED BY <1>1, ShiftDownFine DEF ScrollDown

\* The mark at a cell of a line of the scrollback.
LEMMA AtPast ==
  ASSUME NEW s, NEW i, NEW c PROVE At(s, <<"past", i, c>>) = SbGet(s.sb, i)[c].combo
  BY DEF At

\* A place is a cell of the grid in use, of the grid under the alternate one,
\* or of the scrollback.
LEMMA PlaceKinds ==
  ASSUME NEW s, NEW p \in Places(s)
  PROVE  \/ \E r \in RowsOf(s), c \in Columns(s) : p = <<"grid", r, c>>
         \/ s.buf_alt /\ \E r \in RowsOf(s), c \in Columns(s) : p = <<"under", r, c>>
         \/ \E i \in 0 .. s.sb.count - 1 : \E c \in DOMAIN SbGet(s.sb, i) : p = <<"past", i, c>>
  BY DEF Places, PastPlaces

\* Cells of the grid in use and of the scrollback are places.
LEMMA PlaceIn ==
  ASSUME NEW s
  PROVE  /\ \A r \in RowsOf(s), c \in Columns(s) : <<"grid", r, c>> \in Places(s)
         /\ \A i \in 0 .. s.sb.count - 1 : \A c \in DOMAIN SbGet(s.sb, i) : <<"past", i, c>> \in Places(s)
  BY DEF Places, PastPlaces

\* Lines that leave the top of the primary screen take their marks along.
LEMMA ScrollPushFine ==
  ASSUME NEW s, ScreenGood(s), ~s.buf_alt, NEW k \in 0 .. s.bot + 1
  PROVE  Fine(s, ShiftUp(PushTop(s, k), 0, s.bot, k))
<1> DEFINE p == PushTop(s, k)
           u == ShiftUp(p, 0, s.bot, k)
           g == LiftedUp(p, 0, s.bot, k)
           n0 == s.sb.count
           L == TopLines(s, k)
<1>1. k \in Nat /\ k \in 0 .. s.rows /\ s.bot \in Nat /\ s.bot < s.rows /\ s.rows \in Nat
  BY SizeFacts
<1>2. Pushed(s, p, k)
  BY <1>1, PushTopGood
<1> HIDE DEF p
<1>3. /\ p.cols = s.cols /\ p.rows = s.rows /\ p.buf_alt = s.buf_alt /\ Buf(p) = s.primary
      /\ Buf(s) = s.primary /\ p.combo_pool = s.combo_pool /\ p.bot = s.bot
  BY <1>2 DEF Pushed, Differ, ScreenFields, Buf
<1>4. Drawn(p, u, g)
  <2>1. ScreenGood(p) /\ 0 \in Nat /\ s.bot \in 0 - 1 .. p.rows - 1
    BY <1>1, <1>2, <1>3 DEF Pushed
  <2> QED BY <1>1, <2>1, ShiftGood
<1> HIDE DEF u
<1>5. /\ u.cols = s.cols /\ u.rows = s.rows /\ u.buf_alt = s.buf_alt /\ u.sb = p.sb
      /\ u.combo_pool = s.combo_pool /\ Buf(u) = g /\ ScreenGood(u)
  BY <1>3, <1>4 DEF Drawn, Differ, ScreenFields
<1>6. RowsOf(u) = RowsOf(s) /\ Columns(u) = Columns(s) /\ RowsOf(p) = RowsOf(s)
      /\ Columns(p) = Columns(s)
  BY <1>3, <1>5 DEF RowsOf, Columns
<1>7. \A r \in RowsOf(s) : r \in Nat /\ (r + k <= s.bot => r + k \in RowsOf(s))
  BY <1>1 DEF RowsOf
<1>8. \A r \in RowsOf(s), c \in Columns(s) :
        g[r][c].combo # 0 => /\ g[r] = (IF r <= s.bot THEN s.primary[r + k] ELSE s.primary[r])
                             /\ r <= s.bot => r + k <= s.bot
  BY <1>1, <1>3, <1>6, <1>7, BlankCell DEF LiftedUp, BlankLine
<1> HIDE DEF g
<1> DEFINE off == n0 + k - u.sb.count
<1>9. /\ n0 \in Nat /\ u.sb.count \in Nat /\ off \in Nat
      /\ \A i \in 0 .. u.sb.count - 1 :
            /\ i \in Nat /\ i + off < n0 + k
            /\ SbGet(u.sb, i) = IF i + off < n0 THEN SbGet(s.sb, i + off) ELSE s.primary[i + off - n0]
  <2> DEFINE c == <<s.sb, L>>
  <2>1. c[1] = s.sb /\ c[2] = L
    OBVIOUS
  <2>2. PushInv(c, k, u.sb)
    BY <1>2, <1>5 DEF Pushed
  <2>3. n0 \in 0 .. Cap /\ Cap \in Nat
    BY ScreenAssumption DEF ScreenGood, Rings, IsRing, RingShape
  <2> HIDE DEF c, n0
  <2>4. /\ u.sb.count = Least(n0 + k, Cap)
        /\ \A i \in 0 .. u.sb.count - 1 : SbGet(u.sb, i) = LogLine(c, i + (n0 + k - u.sb.count))
    BY <2>1, <2>2 DEF PushInv, n0
  <2>5. u.sb.count \in Nat /\ off \in Nat
    BY <1>1, <2>3, <2>4 DEF Least
  <2>6. ASSUME NEW i \in 0 .. u.sb.count - 1
        PROVE  /\ i \in Nat /\ i + off < n0 + k
               /\ SbGet(u.sb, i) = IF i + off < n0 THEN SbGet(s.sb, i + off) ELSE s.primary[i + off - n0]
    <3>1. i \in Nat /\ i + off < n0 + k /\ i + off \in Nat
      BY <1>1, <2>3, <2>5
    <3> DEFINE j == i + off
    <3>2. SbGet(u.sb, i) = LogLine(c, j)
      BY <2>4
    <3>3. j \in Nat /\ j < n0 + k
      BY <3>1
    <3> HIDE DEF j
    <3>4. CASE j < n0
      BY <3>2, <3>4, <2>1, <3>1 DEF LogLine, n0, j
    <3>5. CASE ~(j < n0)
      <4>1. j - n0 + 1 \in 1 .. k /\ (j - n0 + 1) - 1 = j - n0
        BY <3>3, <3>5, <1>1, <2>3
      <4>2. LogLine(c, j) = L[j - n0 + 1]
        BY <2>1, <3>5 DEF LogLine, n0
      <4>3. L[j - n0 + 1] = s.primary[j - n0]
        BY <4>1 DEF TopLines
      <4>4. SbGet(u.sb, i) = s.primary[j - n0]
        BY <3>2, <4>2, <4>3
      <4> QED BY <2>3, <2>5, <3>1, <3>5, <4>4 DEF j
    <3> QED BY <3>4, <3>5
  <2> QED BY <2>3, <2>5, <2>6
<1> HIDE DEF off, n0, L
<1> DEFINE from(x) == IF x[1] = "grid" THEN <<"grid", IF x[2] <= s.bot THEN x[2] + k ELSE x[2], x[3]>>
                      ELSE IF x[2] + off < n0 THEN <<"past", x[2] + off, x[3]>>
                      ELSE <<"grid", x[2] + off - n0, x[3]>>
           m == [x \in Places(u) |-> from(x)]
           Grid(x) == \E r \in RowsOf(s), c \in Columns(s) : x = <<"grid", r, c>>
           Past(x) == \E i \in 0 .. u.sb.count - 1 : \E c \in DOMAIN SbGet(u.sb, i) : x = <<"past", i, c>>
<1>10. \A x \in Places(u) : Grid(x) \/ Past(x)
  BY <1>5, <1>6, PlaceKinds
<1>11. ASSUME NEW x \in Places(u), At(u, x) # 0, Grid(x)
       PROVE  /\ m[x] \in Places(s) /\ At(s, m[x]) = At(u, x)
              /\ x[1] = "grid" /\ x = <<"grid", x[2], x[3]>> /\ x[2] \in RowsOf(s)
              /\ m[x][1] = "grid" /\ m[x][3] = x[3]
              /\ m[x][2] = IF x[2] <= s.bot THEN x[2] + k ELSE x[2]
              /\ (x[2] <= s.bot => x[2] + k <= s.bot)
  <2>1. PICK r \in RowsOf(s), c \in Columns(s) : x = <<"grid", r, c>>
    BY <1>11
  <2> DEFINE q == IF r <= s.bot THEN r + k ELSE r
  <2>2. m[x] = <<"grid", q, c>> /\ x[2] = r /\ x[3] = c /\ x[1] = "grid"
    BY <2>1
  <2>3. g[r][c].combo # 0 /\ At(u, x) = g[r][c].combo
    BY <1>5, <1>11, <2>1, AtGrid
  <2>4. g[r] = s.primary[q] /\ (r <= s.bot => r + k <= s.bot)
    BY <1>8, <2>3
  <2>5. q \in RowsOf(s)
    BY <1>7, <2>4
  <2>6. <<"grid", q, c>> \in Places(s) /\ At(s, <<"grid", q, c>>) = s.primary[q][c].combo
    BY <1>3, <2>5, PlaceIn, AtGrid
  <2> QED BY <2>1, <2>2, <2>3, <2>4, <2>6
<1>12. ASSUME NEW x \in Places(u), At(u, x) # 0, Past(x)
       PROVE  /\ m[x] \in Places(s) /\ At(s, m[x]) = At(u, x)
              /\ x[1] = "past" /\ x = <<"past", x[2], x[3]>> /\ x[2] \in Nat
              /\ m[x][1] = (IF x[2] + off < n0 THEN "past" ELSE "grid") /\ m[x][3] = x[3]
              /\ m[x][2] = (IF x[2] + off < n0 THEN x[2] + off ELSE x[2] + off - n0)
              /\ x[2] + off - n0 < k
  <2>1. PICK i \in 0 .. u.sb.count - 1 : \E c \in DOMAIN SbGet(u.sb, i) : x = <<"past", i, c>>
    BY <1>12
  <2>2. PICK c \in DOMAIN SbGet(u.sb, i) : x = <<"past", i, c>>
    BY <2>1
  <2>3. x[1] = "past" /\ x[2] = i /\ x[3] = c /\ i \in Nat /\ i + off < n0 + k /\ i + off - n0 < k
    BY <1>1, <1>9, <2>2
  <2>4. m[x] = IF i + off < n0 THEN <<"past", i + off, c>> ELSE <<"grid", i + off - n0, c>>
    BY <2>3
  <2>5. At(u, x) = SbGet(u.sb, i)[c].combo
    BY <2>2, AtPast
  <2>6. CASE i + off < n0
    <3>1. i + off \in 0 .. s.sb.count - 1 /\ SbGet(u.sb, i) = SbGet(s.sb, i + off)
      BY <1>9, <2>6, <2>3 DEF n0
    <3>2. <<"past", i + off, c>> \in Places(s)
          /\ At(s, <<"past", i + off, c>>) = SbGet(s.sb, i + off)[c].combo
      BY <3>1, PlaceIn, AtPast
    <3> QED BY <2>2, <2>3, <2>4, <2>5, <2>6, <3>1, <3>2
  <2>7. CASE ~(i + off < n0)
    <3>1. SbGet(u.sb, i) = s.primary[i + off - n0] /\ i + off - n0 \in RowsOf(s)
      BY <1>1, <1>9, <2>7, <2>3 DEF RowsOf
    <3>2. s.primary[i + off - n0] \in [Columns(s) -> Cells]
      BY <1>3, <3>1, BufCell
    <3>3. c \in Columns(s)
      BY <3>1, <3>2
    <3>4. <<"grid", i + off - n0, c>> \in Places(s)
          /\ At(s, <<"grid", i + off - n0, c>>) = s.primary[i + off - n0][c].combo
      BY <1>3, <3>1, <3>3, PlaceIn, AtGrid
    <3> QED BY <2>2, <2>3, <2>4, <2>5, <2>7, <3>1, <3>4
  <2> QED BY <2>6, <2>7
<1> HIDE DEF m, Grid, Past
<1>13. ASSUME NEW x \in Places(u), NEW y \in Places(u), At(u, x) # 0, At(u, y) # 0, Grid(x), Past(y)
       PROVE  m[x] # m[y]
  <2>1. /\ x[2] \in RowsOf(s) /\ m[x][1] = "grid"
        /\ m[x][2] = IF x[2] <= s.bot THEN x[2] + k ELSE x[2]
    BY <1>11, <1>13
  <2>2. /\ y[2] \in Nat /\ y[2] + off - n0 < k
        /\ m[y][1] = (IF y[2] + off < n0 THEN "past" ELSE "grid")
        /\ m[y][2] = (IF y[2] + off < n0 THEN y[2] + off ELSE y[2] + off - n0)
    BY <1>12, <1>13
  <2>3. m[x][2] >= k
    BY <1>1, <1>7, <2>1
  <2>4. m[y][1] = "grid" => m[y][2] < k
    BY <2>2
  <2> QED BY <2>1, <2>3, <2>4, <1>1, <1>7
<1>14. ASSUME NEW x \in Places(u), NEW y \in Places(u), At(u, x) # 0, At(u, y) # 0, m[x] = m[y]
       PROVE  x = y
  <2>0. m[x][1] = m[y][1] /\ m[x][2] = m[y][2] /\ m[x][3] = m[y][3]
    BY <1>14
  <2>1. CASE Grid(x) /\ Grid(y)
    <3>1. x[2] = y[2] /\ x[3] = y[3]
      BY <1>1, <1>7, <1>11, <1>14, <2>0, <2>1
    <3> QED BY <3>1, <1>11, <1>14, <2>1
  <2>2. CASE Past(x) /\ Past(y)
    <3>1. x[2] = y[2] /\ x[3] = y[3]
      <4>1. /\ x[2] \in Nat /\ y[2] \in Nat
            /\ m[x][1] = (IF x[2] + off < n0 THEN "past" ELSE "grid") /\ m[x][3] = x[3]
            /\ m[x][2] = (IF x[2] + off < n0 THEN x[2] + off ELSE x[2] + off - n0)
            /\ m[y][1] = (IF y[2] + off < n0 THEN "past" ELSE "grid") /\ m[y][3] = y[3]
            /\ m[y][2] = (IF y[2] + off < n0 THEN y[2] + off ELSE y[2] + off - n0)
        BY <1>12, <1>14, <2>2
      <4>2. CASE x[2] + off < n0
        <5>1. m[y][1] = "past"
          BY <2>0, <4>1, <4>2
        <5>2. y[2] + off < n0
          BY <4>1, <5>1
        <5>3. x[2] + off = y[2] + off
          BY <2>0, <4>1, <4>2, <5>2
        <5>4. n0 \in Nat /\ off \in Nat /\ x[2] \in Nat /\ y[2] \in Nat
          BY <1>9, <4>1
        <5>5. x[2] = y[2]
          BY <5>3, <5>4
        <5>6. x[3] = y[3]
          BY <2>0, <4>1
        <5> QED BY <5>5, <5>6
      <4>3. CASE ~(x[2] + off < n0)
        <5>1. m[y][1] = "grid"
          BY <2>0, <4>1, <4>3
        <5>2. ~(y[2] + off < n0)
          BY <4>1, <5>1
        <5>3. x[2] + off - n0 = y[2] + off - n0
          BY <2>0, <4>1, <4>3, <5>2
        <5>4. n0 \in Nat /\ off \in Nat /\ x[2] \in Nat /\ y[2] \in Nat
          BY <1>9, <4>1
        <5>5. x[2] = y[2]
          BY <5>3, <5>4
        <5>6. x[3] = y[3]
          BY <2>0, <4>1
        <5> QED BY <5>5, <5>6
      <4> QED BY <4>2, <4>3
    <3> QED BY <3>1, <1>12, <1>14, <2>2
  <2>3. CASE Grid(x) /\ Past(y)
    BY <1>14, <1>13, <2>3
  <2>4. CASE Past(x) /\ Grid(y)
    BY <1>14, <1>13, <2>4
  <2> QED BY <1>10, <2>1, <2>2, <2>3, <2>4
<1>15. Carried(s, u, m)
  BY <1>10, <1>11, <1>12, <1>14 DEF Carried
<1>16. Owned(s) => Owned(u)
  BY <1>5, <1>15, CarriedOwned DEF ScreenGood, Others
<1> QED BY <1>5, <1>16 DEF Fine, u, p

\* Scrolling up, into the scrollback or not, keeps marks owned.
LEMMA ScrollUpFine == ASSUME NEW s, ScreenGood(s), NEW n \in Nat PROVE Fine(s, ScrollUp(s, n))
<1> DEFINE k == Least(n, s.bot - s.top + 1)
<1>1. s.top \in Nat /\ s.bot \in s.top - 1 .. s.rows - 1 /\ k \in Nat /\ (s.top = 0 => k \in 0 .. s.bot + 1)
  BY SizeFacts DEF Least
<1>2. ScrollUp(s, n) = ShiftUp(IF ~s.buf_alt /\ s.top = 0 THEN PushTop(s, k) ELSE s, s.top, s.bot, k)
  BY DEF ScrollUp
<1> HIDE DEF k
<1>3. CASE ~s.buf_alt /\ s.top = 0
  BY <1>1, <1>2, <1>3, ScrollPushFine
<1>4. CASE ~(~s.buf_alt /\ s.top = 0)
  BY <1>1, <1>2, <1>4, ShiftUpFine
<1> QED BY <1>3, <1>4

\* Index moves down or scrolls up.
LEMMA IndexFine == ASSUME NEW s, ScreenGood(s) PROVE Fine(s, Index(s))
<1>1. CASE s.cy = s.bot
  <2>1. Index(s) = NoWrap(ScrollUp(s, 1))
    BY <1>1 DEF Index
  <2> QED BY <2>1, ScrollUpFine, NoWrapFine
<1>2. CASE s.cy # s.bot /\ s.cy < s.rows - 1
  <2>1. Index(s) = ToY(s, s.cy + 1) /\ s.cy + 1 \in 0 .. s.rows - 1
    BY <1>2, SizeFacts DEF Index, ToY
  <2> QED BY <2>1, ToYGood, KeptFine
<1>3. CASE s.cy # s.bot /\ ~(s.cy < s.rows - 1)
  <2>1. Index(s) = NoWrap(s)
    BY <1>3 DEF Index
  <2> QED BY <2>1, FineSelf, NoWrapFine
<1> QED BY <1>1, <1>2, <1>3

\* Reverse index moves up or scrolls down.
LEMMA ReverseIndexFine == ASSUME NEW s, ScreenGood(s) PROVE Fine(s, ReverseIndex(s))
<1>1. CASE s.cy = s.top
  <2>1. ReverseIndex(s) = NoWrap(ScrollDown(s, 1))
    BY <1>1 DEF ReverseIndex
  <2> QED BY <2>1, ScrollDownFine, NoWrapFine
<1>2. CASE s.cy # s.top /\ s.cy > 0
  <2>1. ReverseIndex(s) = ToY(s, s.cy - 1) /\ s.cy - 1 \in 0 .. s.rows - 1
    BY <1>2, SizeFacts DEF ReverseIndex, ToY
  <2> QED BY <2>1, ToYGood, KeptFine
<1>3. CASE s.cy # s.top /\ ~(s.cy > 0)
  <2>1. ReverseIndex(s) = NoWrap(s)
    BY <1>3 DEF ReverseIndex
  <2> QED BY <2>1, FineSelf, NoWrapFine
<1> QED BY <1>1, <1>2, <1>3

\* Next line keeps marks owned,
LEMMA NextLineFine == ASSUME NEW s, ScreenGood(s) PROVE Fine(s, NextLine(s))
<1>1. Kept(s, CarriageReturn(s)) /\ ScreenGood(CarriageReturn(s))
  BY CarriageReturnGood DEF Kept
<1>2. Fine(CarriageReturn(s), NextLine(s))
  BY <1>1, IndexFine DEF NextLine
<1> QED BY <1>1, <1>2, KeptFine, FineTwice

\* and leaves no wrap pending.
LEMMA NextLineUnwraps == ASSUME NEW s, ScreenGood(s) PROVE ~NextLine(s).wrap_pending
<1> DEFINE r == CarriageReturn(s)
           x == IF r.cy = r.bot THEN ScrollUp(r, 1)
                ELSE IF r.cy < r.rows - 1 THEN [r EXCEPT !.cy = @ + 1] ELSE r
<1>1. ScreenGood(r)
  BY CarriageReturnGood DEF Kept
<1> HIDE DEF r
<1>2. "wrap_pending" \in DOMAIN ScrollUp(r, 1) /\ "wrap_pending" \in DOMAIN r
  BY <1>1, ScrollUpFine DEF Fine, ScreenGood, IsScreen, ScreenFields
<1>3. "wrap_pending" \in DOMAIN x
  BY <1>2
<1>4. NextLine(s) = NoWrap(x)
  BY DEF NextLine, Index, r
<1> HIDE DEF x
<1> QED BY <1>3, <1>4 DEF NoWrap

---------------------------------------------------------------------------
(* Writing.                                                                *)

\* A combining mark gets a number of its own, or extends the string of its
\* cell.
LEMMA CombineFine == ASSUME NEW s, ScreenGood(s) PROVE Fine(s, Combine(s))
<1> DEFINE bx == s.last_base[1]
           by == s.last_base[2]
           there == /\ by \in RowsOf(s) /\ bx \in Columns(s)
                    /\ Buf(s)[by][bx].g \notin {Unwritten, "t"} /\ Buf(s)[by][bx].combo = 0
           g == [Buf(s) EXCEPT ![by][bx].combo = s.combo_pool + 1]
           d == WithBuf(s, g)
           u == [d EXCEPT !.combo_pool = @ + 1]
<1>1. CASE ~there
  BY <1>1, FineSelf DEF Combine
<1>2. CASE there
  <2>1. Combine(s) = u
    BY <1>2 DEF Combine
  <2>2. by \in RowsOf(s) /\ bx \in Columns(s) /\ Buf(s)[by][bx].combo = 0
    BY <1>2
  <2>3. s.combo_pool \in Nat
    BY DEF ScreenGood, Others
  <2> HIDE DEF by, bx
  <2> DEFINE cell == [Buf(s)[by][bx] EXCEPT !.combo = s.combo_pool + 1]
             line == [Buf(s)[by] EXCEPT ![bx] = cell]
  <2>4. cell \in Cells /\ cell.combo = s.combo_pool + 1
    BY <2>2, <2>3, BufCell DEF Cells
  <2>5. g = [Buf(s) EXCEPT ![by] = line]
    OBVIOUS
  <2> HIDE DEF cell
  <2>6. line \in [Columns(s) -> Cells] /\ \A c \in Columns(s) : line[c] = IF c = bx THEN cell ELSE Buf(s)[by][c]
    BY <2>2, <2>4, BufCell
  <2> HIDE DEF line, g
  <2>7. /\ \A r \in RowsOf(s) : g[r] = IF r = by THEN line ELSE Buf(s)[r]
        /\ GridOf(s, g)
    BY <2>2, <2>5, <2>6, BufIsGrid DEF GridOf, IsGrid, RowsOf, Columns
  <2>8. Drawn(s, d, g)
    BY <2>7, WithBufGood
  <2> HIDE DEF d
  <2>9. d.combo_pool = s.combo_pool /\ ScreenGood(d)
    BY <2>8 DEF Drawn, Differ, ScreenFields
  <2>10. Differ(d, u, {"combo_pool"}) /\ u.combo_pool = s.combo_pool + 1
    BY <2>9 DEF Differ, ScreenGood, IsScreen, Map, ScreenFields
  <2> HIDE DEF u
  <2>11. /\ u.cols = d.cols /\ u.rows = d.rows /\ u.buf_alt = d.buf_alt /\ u.primary = d.primary
         /\ u.alt = d.alt /\ u.top = d.top /\ u.bot = d.bot /\ u.saved = d.saved
         /\ u.tabs = d.tabs
         /\ u.cx = d.cx /\ u.cy = d.cy /\ u.wrap_pending = d.wrap_pending /\ u.sb = d.sb
         /\ u.scrolled_total = d.scrolled_total /\ u.prompts = d.prompts /\ IsScreen(u)
    BY <2>10 DEF Differ, ScreenFields
  <2>12. ScreenGood(u)
    <3>1. Others(u)
      BY <2>3, <2>9, <2>10, <2>11 DEF ScreenGood, Others
    <3> QED BY <2>9, <2>11, <3>1 DEF ScreenGood, Sized, Grids, Cursor, Region, Saved, Stops,
               Rings, Marks
  <2>13. /\ u.cols = s.cols /\ u.rows = s.rows /\ u.buf_alt = s.buf_alt /\ u.sb = s.sb
         /\ Buf(u) = g /\ (s.buf_alt => u.primary = s.primary)
    BY <2>8, <2>11 DEF Drawn, Differ, ScreenFields, Buf
  <2>14. Places(u) = Places(s) /\ <<"grid", by, bx>> \in Places(s)
    BY <2>2, <2>13 DEF Places, PastPlaces, RowsOf, Columns
  <2>15. \A p \in Places(s) : At(u, p) = IF p = <<"grid", by, bx>> THEN s.combo_pool + 1 ELSE At(s, p)
    <3> TAKE p \in Places(s)
    <3>1. CASE \E r \in RowsOf(s), c \in Columns(s) : p = <<"grid", r, c>>
      <4>1. PICK r \in RowsOf(s), c \in Columns(s) : p = <<"grid", r, c>>
        BY <3>1
      <4>2. At(u, p) = g[r][c].combo /\ At(s, p) = Buf(s)[r][c].combo
        BY <2>13, <4>1, AtGrid
      <4>3. g[r][c] = IF r = by /\ c = bx THEN cell ELSE Buf(s)[r][c]
        BY <2>6, <2>7
      <4> QED BY <2>4, <4>1, <4>2, <4>3
    <3>2. CASE p[1] # "grid"
      BY <2>13, <3>2, PlaceKinds DEF At
    <3> QED BY <3>1, <3>2, PlaceKinds
  <2>16. ASSUME Owned(s) PROVE Owned(u)
    <3>1. \A p \in Places(s) : At(s, p) \in 0 .. s.combo_pool
      BY <2>16 DEF Owned
    <3>2. \A p, q \in Places(s) : At(s, p) # 0 /\ At(s, p) = At(s, q) => p = q
      BY <2>16 DEF Owned
    <3>3. \A p \in Places(s) : At(u, p) \in 0 .. u.combo_pool
      BY <2>3, <2>10, <2>15, <3>1
    <3>4. ASSUME NEW p \in Places(s), NEW q \in Places(s), At(u, p) # 0, At(u, p) = At(u, q)
          PROVE  p = q
      BY <2>3, <2>15, <3>1, <3>2, <3>4
    <3> QED BY <2>14, <3>3, <3>4 DEF Owned
  <2> QED BY <2>1, <2>12, <2>16 DEF Fine, u
<1> QED BY <1>1, <1>2

\* A glyph is written over one cell or two, which lose their marks.
LEMMA PlaceFine ==
  ASSUME NEW s, ScreenGood(s), NEW g \in {"x", "o", "b", "W"} PROVE Fine(s, Place(s, g))
<1> DEFINE w == Width(g)
           row == Buf(s)[s.cy]
           line == [c \in Columns(s) |->
                       IF c = s.cx THEN Cell(g)
                       ELSE IF w = 2 /\ c = s.cx + 1 THEN Cell("t")
                       ELSE IF s.modes.insert /\ c >= s.cx + w THEN row[c - w] ELSE row[c]]
           m == [c \in Columns(s) |-> IF s.modes.insert /\ c >= s.cx + w THEN c - w ELSE c]
           d == WithRow(s, s.cy, line)
           u == [d EXCEPT !.last_base = <<s.cx, s.cy>>, !.cx = Least(s.cx + w, s.cols - 1),
                          !.wrap_pending = s.cx + w >= s.cols /\ s.modes.auto_wrap]
<1>1. Place(s, g) = u
  BY DEF Place
<1>2. w \in 1 .. 2 /\ s.cy \in RowsOf(s)
  BY SizeFacts DEF Width, RowsOf
<1>3. Cell(g) \in Cells /\ Cell(g).combo = 0 /\ Cell("t") \in Cells /\ Cell("t").combo = 0
  BY DEF Cell, Cells, Glyphs
<1> HIDE DEF w
<1>4. \A c \in Columns(s) : c \in Nat /\ (c >= s.cx + w => c - w \in Columns(s) /\ c - w >= s.cx)
  BY <1>2, SizeFacts DEF Columns
<1>5. line \in [Columns(s) -> Cells]
  BY <1>2, <1>3, <1>4, BufCell
<1>6. LineMoved(s, s.cy, line, m)
  <2>1. ASSUME NEW c \in Columns(s), line[c].combo # 0
        PROVE  /\ m[c] \in Columns(s) /\ row[m[c]].combo = line[c].combo /\ c # s.cx
               /\ ~(w = 2 /\ c = s.cx + 1)
    BY <1>2, <1>3, <1>4, <2>1
  <2>2. ASSUME NEW c \in Columns(s), NEW e \in Columns(s), line[c].combo # 0, line[e].combo # 0, m[c] = m[e]
        PROVE  c = e
    <3>1. c # s.cx /\ e # s.cx /\ ~(w = 2 /\ c = s.cx + 1) /\ ~(w = 2 /\ e = s.cx + 1)
      BY <2>1, <2>2
    <3>2. /\ m[c] = IF s.modes.insert /\ c >= s.cx + w THEN c - w ELSE c
          /\ m[e] = IF s.modes.insert /\ e >= s.cx + w THEN e - w ELSE e
      OBVIOUS
    <3> HIDE DEF m, line
    <3>3. c \in Nat /\ e \in Nat /\ s.cx \in Nat /\ w \in Nat
      BY <1>2, <1>4, SizeFacts
    <3>4. c < s.cx + w => c < s.cx
      BY <1>2, <3>1, <3>3
    <3>5. e < s.cx + w => e < s.cx
      BY <1>2, <3>1, <3>3
    <3>6. CASE ~s.modes.insert
      BY <2>2, <3>2, <3>6
    <3>7. CASE s.modes.insert
      <4>1. (IF c >= s.cx + w THEN c - w ELSE c) = (IF e >= s.cx + w THEN e - w ELSE e)
        BY <2>2, <3>2, <3>7
      <4> QED BY <3>3, <3>4, <3>5, <4>1
    <3> QED BY <3>6, <3>7
  <2> HIDE DEF m, line
  <2> QED BY <2>1, <2>2 DEF LineMoved
<1> HIDE DEF line, m
<1>7. Fine(s, d)
  BY <1>2, <1>5, <1>6, LineFine
<1>8. Drawn(s, d, WithLine(s, s.cy, line))
  BY <1>2, <1>5, WithRowGood
<1> HIDE DEF d
<1>9. ScreenGood(d) /\ d.cols = s.cols /\ d.rows = s.rows /\ d.cy = s.cy
  BY <1>8 DEF Drawn, Differ, ScreenFields
<1>10. /\ Differ(d, u, CursorFields) /\ u.cx = Least(s.cx + w, s.cols - 1) /\ u.cy = d.cy
       /\ u.wrap_pending = (s.cx + w >= s.cols /\ s.modes.auto_wrap)
       /\ u.cols = d.cols /\ u.rows = d.rows
  BY <1>9 DEF Differ, CursorFields, ScreenGood, IsScreen, Map, ScreenFields
<1> HIDE DEF u
<1>11. Cursor(u)
  <2>1. /\ Least(s.cx + w, s.cols - 1) \in 0 .. s.cols - 1
        /\ s.cx + w >= s.cols => Least(s.cx + w, s.cols - 1) = s.cols - 1
    BY <1>2, SizeFacts DEF Least
  <2>2. u.cx \in 0 .. u.cols - 1 /\ u.cy \in 0 .. u.rows - 1
    BY <1>9, <1>10, <2>1, SizeFacts
  <2>3. u.wrap_pending => u.cx = u.cols - 1
    BY <1>9, <1>10, <2>1
  <2> QED BY <2>2, <2>3 DEF Cursor
<1>12. Fine(d, u)
  BY <1>9, <1>10, <1>11, MovedGood, KeptFine
<1> QED BY <1>1, <1>7, <1>12, FineTwice

\* Whatever glyph is put, wide or combining, at the margin or not, marks stay
\* owned.
LEMMA PutRuneFine ==
  ASSUME NEW s, ScreenGood(s), NEW g \in {"x", "o", "b", "W", "m"} PROVE Fine(s, PutRune(s, g))
<1>1. CASE Width(g) = 0
  BY <1>1, CombineFine DEF PutRune
<1>2. CASE Width(g) # 0
  <2> DEFINE s1 == IF s.wrap_pending THEN NextLine(s) ELSE s
             s2 == IF Width(g) = 2 /\ s1.cx = s1.cols - 1 /\ s1.modes.auto_wrap
                   THEN Index([s1 EXCEPT !.cx = 0]) ELSE s1
             s0 == [s1 EXCEPT !.cx = 0]
  <2>1. PutRune(s, g) = Place(s2, g)
    BY <1>2 DEF PutRune
  <2>2. Fine(s, s1)
    BY NextLineFine, FineSelf
  <2> HIDE DEF s1
  <2>3. Fine(s1, s2)
    <3>1. CASE s2 = s1
      BY <2>2, <3>1, FineSelf DEF Fine
    <3>2. CASE s2 # s1
      <4>1. s2 = Index(s0)
        BY <3>2
      <4>2. ScreenGood(s1) /\ ~s1.wrap_pending
        BY <2>2, NextLineUnwraps DEF Fine, s1
      <4>3. Differ(s1, s0, CursorFields) /\ s0.cx = 0 /\ s0.cy = s1.cy
            /\ s0.wrap_pending = s1.wrap_pending /\ s0.cols = s1.cols /\ s0.rows = s1.rows
        BY <4>2 DEF Differ, CursorFields, ScreenGood, IsScreen, Map, ScreenFields
      <4> HIDE DEF s0
      <4>4. Cursor(s0)
        BY <4>2, <4>3, SizeFacts DEF Cursor
      <4>5. Fine(s1, s0)
        BY <4>2, <4>3, <4>4, MovedGood, KeptFine
      <4>6. Fine(s0, Index(s0))
        BY <4>5, IndexFine DEF Fine
      <4> QED BY <4>1, <4>5, <4>6, FineTwice
    <3> QED BY <3>1, <3>2
  <2> HIDE DEF s2
  <2>4. g \in {"x", "o", "b", "W"}
    BY <1>2 DEF Width
  <2>5. Fine(s2, Place(s2, g))
    BY <2>3, <2>4, PlaceFine DEF Fine
  <2> QED BY <2>1, <2>2, <2>3, <2>5, FineTwice
<1> QED BY <1>1, <1>2

---------------------------------------------------------------------------
(* The alternate screen, the reset, the size.                              *)

Wiped(s, u) ==
  /\ ScreenGood(u) /\ u.cols = s.cols /\ u.rows = s.rows /\ u.buf_alt = s.buf_alt /\ u.sb = s.sb
  /\ u.combo_pool = s.combo_pool /\ (s.buf_alt => u.primary = s.primary)
  /\ \A r \in RowsOf(s), c \in Columns(s) : Buf(u)[r][c].combo = 0

\* Erasing everything leaves a blank grid.
LEMMA WipeGood == ASSUME NEW s, ScreenGood(s) PROVE Wiped(s, EraseInDisplay(s, 2))
<1> DEFINE all == RowsOf(s) \X Columns(s)
           e == EraseWhere(s, all)
           u == EraseInDisplay(s, 2)
<1>1. u = NoWrap(e)
  BY DEF EraseInDisplay
<1>2. Drawn(s, e, Erased(s, all))
  BY EraseGood
<1>3. \A r \in RowsOf(s), c \in Columns(s) : Erased(s, all)[r][c].combo = 0
  BY BlankCell DEF Erased
<1> HIDE DEF e, u
<1>4. /\ ScreenGood(e) /\ e.cols = s.cols /\ e.rows = s.rows /\ e.buf_alt = s.buf_alt
      /\ e.sb = s.sb
      /\ e.combo_pool = s.combo_pool /\ (s.buf_alt => e.primary = s.primary) /\ Buf(e) = Erased(s, all)
  BY <1>2 DEF Drawn, Differ, ScreenFields
<1>5. Kept(e, u)
  BY <1>1, <1>4, NoWrapGood
<1>6. Buf(u) = Buf(e)
  BY <1>5 DEF Kept, SameCells, Buf
<1> QED BY <1>3, <1>4, <1>5, <1>6 DEF Wiped, Kept, SameCells, u

SetAlt(s, on) == [s EXCEPT !.buf_alt = on]

\* Switching the buffers only says which is in use.
LEMMA SetAltGood ==
  ASSUME NEW s, ScreenGood(s), NEW on \in BOOLEAN
  PROVE  ScreenGood(SetAlt(s, on)) /\ Differ(s, SetAlt(s, on), {"buf_alt"})
         /\ SetAlt(s, on).buf_alt = on
<1> DEFINE u == SetAlt(s, on)
<1>1. Differ(s, u, {"buf_alt"}) /\ u.buf_alt = on
  BY DEF SetAlt, Differ, ScreenGood, IsScreen, Map, ScreenFields
<1> HIDE DEF u
<1>2. /\ u.cols = s.cols /\ u.rows = s.rows /\ u.primary = s.primary
      /\ u.alt = s.alt /\ u.top = s.top /\ u.bot = s.bot /\ u.saved = s.saved /\ u.tabs = s.tabs
      /\ u.cx = s.cx /\ u.cy = s.cy /\ u.wrap_pending = s.wrap_pending /\ u.sb = s.sb
      /\ u.scrolled_total = s.scrolled_total /\ u.prompts = s.prompts /\ IsScreen(u)
      /\ u.combo_pool = s.combo_pool
  BY <1>1 DEF Differ, ScreenFields
<1>3. Others(u)
  BY <1>1, <1>2 DEF ScreenGood, Others
<1>4. ScreenGood(u)
  BY <1>2, <1>3 DEF ScreenGood, Sized, Grids, Cursor, Region, Saved, Stops, Rings, Marks
<1> QED BY <1>1, <1>4 DEF u
Enter(s) == ToXY(EraseInDisplay(SetAlt(SaveCursor(s), TRUE), 2), 0, 0)

\* Entering the alternate screen: the primary grid is under it, the alternate
\* one blank.
LEMMA EnterFine ==
  ASSUME NEW s, ScreenGood(s), ~s.buf_alt PROVE Fine(s, Enter(s)) /\ Enter(s).buf_alt
<1> DEFINE k == SaveCursor(s)
           a == SetAlt(k, TRUE)
           e == EraseInDisplay(a, 2)
           u == Enter(s)
<1>1. Kept(s, k)
  BY SaveCursorGood
<1>2. ScreenGood(a) /\ Differ(k, a, {"buf_alt"}) /\ a.buf_alt = TRUE
  BY <1>1, SetAltGood DEF Kept
<1>3. Wiped(a, e)
  BY <1>2, WipeGood
<1>15. u = ToXY(e, 0, 0)
  BY DEF Enter
<1> HIDE DEF k, a, e, u
<1>4. Kept(e, u)
  <2>1. ScreenGood(e)
    BY <1>3 DEF Wiped
  <2>2. 0 \in 0 .. e.cols - 1 /\ 0 \in 0 .. e.rows - 1
    BY <2>1, SizeFacts
  <2> QED BY <1>15, <2>1, <2>2, ToXYGood
<1>5. /\ a.cols = s.cols /\ a.rows = s.rows /\ a.sb = s.sb /\ a.primary = s.primary
      /\ a.combo_pool = s.combo_pool
  BY <1>1, <1>2 DEF Kept, SameCells, Differ, ScreenFields
<1>6. /\ ScreenGood(u) /\ u.cols = s.cols /\ u.rows = s.rows /\ u.sb = s.sb
      /\ u.primary = s.primary
      /\ u.combo_pool = s.combo_pool /\ u.buf_alt /\ Buf(u) = Buf(e)
  BY <1>2, <1>3, <1>4, <1>5 DEF Kept, SameCells, Wiped, Buf
<1>7. RowsOf(u) = RowsOf(s) /\ Columns(u) = Columns(s) /\ RowsOf(a) = RowsOf(s)
      /\ Columns(a) = Columns(s)
  BY <1>5, <1>6 DEF RowsOf, Columns
<1>8. \A r \in RowsOf(s), c \in Columns(s) : At(u, <<"grid", r, c>>) = 0
  <2> TAKE r \in RowsOf(s), c \in Columns(s)
  <2>1. Buf(e)[r][c].combo = 0
    BY <1>3, <1>7 DEF Wiped
  <2> QED BY <1>6, <2>1, AtGrid
<1> DEFINE m == [p \in Places(u) |-> IF p[1] = "under" THEN <<"grid", p[2], p[3]>> ELSE p]
           Under(p) == \E r \in RowsOf(s), c \in Columns(s) : p = <<"under", r, c>>
           Past(p) == \E i \in 0 .. s.sb.count - 1 : \E c \in DOMAIN SbGet(s.sb, i) : p = <<"past", i, c>>
<1>9. \A p \in Places(u) : At(u, p) # 0 => Under(p) \/ Past(p)
  BY <1>6, <1>7, <1>8, PlaceKinds
<1>10. ASSUME NEW p \in Places(u), Under(p)
       PROVE  /\ m[p] \in Places(s) /\ At(s, m[p]) = At(u, p) /\ m[p] = <<"grid", p[2], p[3]>>
              /\ p = <<"under", p[2], p[3]>>
  <2>1. PICK r \in RowsOf(s), c \in Columns(s) : p = <<"under", r, c>>
    BY <1>10
  <2>2. m[p] = <<"grid", r, c>> /\ p[2] = r /\ p[3] = c
    BY <2>1
  <2>3. At(u, p) = s.primary[r][c].combo /\ Buf(s) = s.primary
    BY <1>6, <2>1 DEF At, Buf
  <2> QED BY <2>1, <2>2, <2>3, PlaceIn, AtGrid
<1>11. ASSUME NEW p \in Places(u), Past(p)
       PROVE  /\ m[p] \in Places(s) /\ At(s, m[p]) = At(u, p) /\ m[p] = p /\ p[1] = "past"
  <2>1. PICK i \in 0 .. s.sb.count - 1 : \E c \in DOMAIN SbGet(s.sb, i) : p = <<"past", i, c>>
    BY <1>11
  <2>2. PICK c \in DOMAIN SbGet(s.sb, i) : p = <<"past", i, c>>
    BY <2>1
  <2>3. m[p] = p /\ p[1] = "past"
    BY <2>2
  <2> QED BY <1>6, <2>2, <2>3, PlaceIn, AtPast
<1> HIDE DEF m, Under, Past
<1>12. ASSUME NEW p \in Places(u), NEW q \in Places(u), At(u, p) # 0, At(u, q) # 0, m[p] = m[q]
       PROVE  p = q
  <2>1. CASE Under(p) /\ Under(q)
    BY <1>10, <1>12, <2>1
  <2>2. CASE Past(p) /\ Past(q)
    BY <1>11, <1>12, <2>2
  <2>3. CASE Under(p) /\ Past(q)
    BY <1>10, <1>11, <1>12, <2>3
  <2>4. CASE Past(p) /\ Under(q)
    BY <1>10, <1>11, <1>12, <2>4
  <2> QED BY <1>9, <1>12, <2>1, <2>2, <2>3, <2>4
<1>13. Carried(s, u, m)
  BY <1>9, <1>10, <1>11, <1>12 DEF Carried
<1>14. Owned(s) => Owned(u)
  BY <1>6, <1>13, CarriedOwned DEF ScreenGood, Others
<1> QED BY <1>6, <1>14 DEF Fine, u

\* Leaving the alternate screen: the primary grid is in use again, the other
\* one gone.
LEMMA LeaveFine ==
  ASSUME NEW s, ScreenGood(s), s.buf_alt
  PROVE  Fine(s, SetAlt(s, FALSE)) /\ ~SetAlt(s, FALSE).buf_alt
<1> DEFINE u == SetAlt(s, FALSE)
<1>1. ScreenGood(u) /\ Differ(s, u, {"buf_alt"}) /\ u.buf_alt = FALSE
  BY SetAltGood
<1> HIDE DEF u
<1>2. u.cols = s.cols /\ u.rows = s.rows /\ u.sb = s.sb /\ Buf(u) = s.primary
      /\ u.combo_pool = s.combo_pool
  BY <1>1 DEF Differ, ScreenFields, Buf
<1>3. RowsOf(u) = RowsOf(s) /\ Columns(u) = Columns(s)
  BY <1>2 DEF RowsOf, Columns
<1> DEFINE m == [p \in Places(u) |-> IF p[1] = "grid" THEN <<"under", p[2], p[3]>> ELSE p]
           Grid(p) == \E r \in RowsOf(s), c \in Columns(s) : p = <<"grid", r, c>>
           Past(p) == \E i \in 0 .. s.sb.count - 1 : \E c \in DOMAIN SbGet(s.sb, i) : p = <<"past", i, c>>
<1>4. \A p \in Places(u) : Grid(p) \/ Past(p)
  BY <1>1, <1>2, <1>3, PlaceKinds
<1>5. ASSUME NEW p \in Places(u), Grid(p)
      PROVE  /\ m[p] \in Places(s) /\ At(s, m[p]) = At(u, p) /\ m[p] = <<"under", p[2], p[3]>>
             /\ p = <<"grid", p[2], p[3]>>
  <2>1. PICK r \in RowsOf(s), c \in Columns(s) : p = <<"grid", r, c>>
    BY <1>5
  <2>2. m[p] = <<"under", r, c>> /\ p[2] = r /\ p[3] = c
    BY <2>1
  <2>3. At(s, <<"under", r, c>>) = s.primary[r][c].combo
    BY DEF At
  <2>4. At(u, p) = s.primary[r][c].combo
    BY <1>2, <2>1, AtGrid
  <2>5. <<"under", r, c>> \in Places(s)
    BY DEF Places
  <2> QED BY <2>1, <2>2, <2>3, <2>4, <2>5
<1>6. ASSUME NEW p \in Places(u), Past(p)
      PROVE  /\ m[p] \in Places(s) /\ At(s, m[p]) = At(u, p) /\ m[p] = p /\ p[1] = "past"
  <2>1. PICK i \in 0 .. s.sb.count - 1 : \E c \in DOMAIN SbGet(s.sb, i) : p = <<"past", i, c>>
    BY <1>6
  <2>2. PICK c \in DOMAIN SbGet(s.sb, i) : p = <<"past", i, c>>
    BY <2>1
  <2>3. m[p] = p /\ p[1] = "past"
    BY <2>2
  <2> QED BY <1>2, <2>2, <2>3, PlaceIn, AtPast
<1> HIDE DEF m, Grid, Past
<1>7. ASSUME NEW p \in Places(u), NEW q \in Places(u), m[p] = m[q] PROVE p = q
  <2>1. CASE Grid(p) /\ Grid(q)
    BY <1>5, <1>7, <2>1
  <2>2. CASE Past(p) /\ Past(q)
    BY <1>6, <1>7, <2>2
  <2>3. CASE Grid(p) /\ Past(q)
    BY <1>5, <1>6, <1>7, <2>3
  <2>4. CASE Past(p) /\ Grid(q)
    BY <1>5, <1>6, <1>7, <2>4
  <2> QED BY <1>4, <2>1, <2>2, <2>3, <2>4
<1>8. Carried(s, u, m)
  BY <1>4, <1>5, <1>6, <1>7 DEF Carried
<1>9. Owned(s) => Owned(u)
  BY <1>2, <1>8, CarriedOwned DEF ScreenGood, Others
<1> QED BY <1>1, <1>9 DEF Fine, u

\* Switching screens, or asking for the one in use, keeps marks owned.
LEMMA SetAltScreenFine ==
  ASSUME NEW s, ScreenGood(s), NEW on \in BOOLEAN
  PROVE  Fine(s, SetAltScreen(s, on)) /\ SetAltScreen(s, on).buf_alt = on
<1>0. s.buf_alt \in BOOLEAN
  BY DEF ScreenGood, Others
<1>1. CASE on = s.buf_alt
  BY <1>1, FineSelf DEF SetAltScreen
<1>2. CASE on # s.buf_alt /\ on
  <2>1. SetAltScreen(s, on) = Enter(s)
    <3>1. SetAltScreen(s, on)
            = NoWrap([EraseInDisplay([SaveCursor(s) EXCEPT !.buf_alt = TRUE], 2) EXCEPT !.cx = 0, !.cy = 0])
      BY <1>2 DEF SetAltScreen
    <3> DEFINE e == EraseInDisplay(SetAlt(SaveCursor(s), TRUE), 2)
    <3>2. SetAltScreen(s, on) = NoWrap([e EXCEPT !.cx = 0, !.cy = 0])
      BY <3>1 DEF SetAlt
    <3>3. [e EXCEPT !.cx = 0, !.cy = 0] = [e EXCEPT !.cy = 0, !.cx = 0]
      <4> HIDE DEF e
      <4> QED OBVIOUS
    <3> QED BY <3>2, <3>3 DEF Enter, ToXY
  <2> QED BY <1>0, <1>2, <2>1, EnterFine
<1>3. CASE on # s.buf_alt /\ ~on
  <2> DEFINE u == SetAlt(s, FALSE)
  <2>1. SetAltScreen(s, on) = RestoreCursor(u)
    BY <1>3 DEF SetAltScreen, SetAlt
  <2>2. Fine(s, u) /\ ~u.buf_alt
    BY <1>0, <1>3, LeaveFine
  <2> HIDE DEF u
  <2>3. Kept(u, RestoreCursor(u))
    BY <2>2, RestoreCursorGood DEF Fine
  <2>4. RestoreCursor(u).buf_alt = u.buf_alt /\ u.buf_alt = FALSE
    BY <2>2, <2>3 DEF Kept, SameCells, Fine, ScreenGood, Others
  <2> QED BY <1>3, <2>1, <2>2, <2>3, <2>4, KeptFine, FineTwice
<1> QED BY <1>1, <1>2, <1>3

\* A full reset empties grids, scrollback and pool together.
LEMMA FullResetFine == ASSUME NEW s, ScreenGood(s) PROVE Fine(s, FullReset(s))
<1> DEFINE home == [s EXCEPT !.pen = DefaultPen, !.modes = DefaultModes, !.top = 0,
                             !.bot = s.rows - 1, !.cx = 0, !.cy = 0, !.wrap_pending = FALSE]
           v == SetAltScreen(home, FALSE)
           e == EraseInDisplay(v, 2)
           h == ClearHistory(e)
           u == [h EXCEPT !.combo_pool = 0]
<1>1. FullReset(s) = u
  BY DEF FullReset
<1>2. ScreenGood(home)
  <2>1. /\ Differ(s, home, {"pen", "modes", "top", "bot", "cx", "cy", "wrap_pending"})
        /\ home.top = 0 /\ home.bot = s.rows - 1 /\ home.cx = 0 /\ home.cy = 0
        /\ home.wrap_pending = FALSE
    BY DEF Differ, ScreenGood, IsScreen, Map, ScreenFields
  <2> HIDE DEF home
  <2>2. /\ home.cols = s.cols /\ home.rows = s.rows /\ home.buf_alt = s.buf_alt
        /\ home.primary = s.primary /\ home.alt = s.alt /\ home.saved = s.saved
        /\ home.tabs = s.tabs /\ home.sb = s.sb /\ home.combo_pool = s.combo_pool
        /\ home.scrolled_total = s.scrolled_total /\ home.prompts = s.prompts /\ IsScreen(home)
    BY <2>1 DEF Differ, ScreenFields
  <2>3. Cursor(home) /\ Region(home)
    BY <2>1, <2>2, SizeFacts DEF Cursor, Region
  <2> QED BY <2>2, <2>3 DEF ScreenGood, Sized, Grids, Saved, Stops, Rings, Marks, Others
<1> HIDE DEF home
<1>3. ScreenGood(v) /\ v.buf_alt = FALSE
  BY <1>2, SetAltScreenFine DEF Fine
<1> HIDE DEF v
<1>4. Wiped(v, e)
  BY <1>3, WipeGood
<1> HIDE DEF e
<1>5. ScreenGood(h) /\ h.sb.count = 0 /\ h.buf_alt = FALSE /\ h.cols = v.cols /\ h.rows = v.rows
      /\ Buf(h) = Buf(e)
  <2>1. ScreenGood(e) /\ e.buf_alt = FALSE /\ e.cols = v.cols /\ e.rows = v.rows
    BY <1>3, <1>4 DEF Wiped
  <2>2. ScreenGood(h)
    BY <2>1, ClearHistoryFine DEF Fine
  <2>3. /\ h.sb.count = 0 /\ h.buf_alt = e.buf_alt /\ h.cols = e.cols /\ h.rows = e.rows
        /\ h.primary = e.primary /\ h.alt = e.alt
    BY <2>1 DEF ClearHistory, ScreenGood, IsScreen, Map, ScreenFields, Rings, IsRing, RingShape
  <2> QED BY <2>1, <2>2, <2>3 DEF Buf
<1> HIDE DEF h
<1>6. Differ(h, u, {"combo_pool"}) /\ u.combo_pool = 0
  BY <1>5 DEF Differ, ScreenGood, IsScreen, Map, ScreenFields
<1> HIDE DEF u
<1>7. /\ u.cols = h.cols /\ u.rows = h.rows /\ u.buf_alt = h.buf_alt /\ u.primary = h.primary
      /\ u.alt = h.alt /\ u.top = h.top /\ u.bot = h.bot /\ u.saved = h.saved /\ u.tabs = h.tabs
      /\ u.cx = h.cx /\ u.cy = h.cy /\ u.wrap_pending = h.wrap_pending /\ u.sb = h.sb
      /\ u.scrolled_total = h.scrolled_total /\ u.prompts = h.prompts /\ IsScreen(u)
  BY <1>6 DEF Differ, ScreenFields
<1>8. ScreenGood(u)
  <2>1. Others(u)
    BY <1>5, <1>6, <1>7 DEF ScreenGood, Others
  <2> QED BY <1>5, <1>7, <2>1 DEF ScreenGood, Sized, Grids, Cursor, Region, Saved, Stops,
             Rings, Marks
<1>9. \A p \in Places(u) : At(u, p) = 0
  <2> TAKE p \in Places(u)
  <2>1. ~u.buf_alt /\ u.sb.count = 0 /\ RowsOf(u) = RowsOf(v) /\ Columns(u) = Columns(v)
        /\ Buf(u) = Buf(e)
    BY <1>5, <1>7 DEF RowsOf, Columns, Buf
  <2>2. 0 .. u.sb.count - 1 = {}
    BY <2>1
  <2>3. PICK r \in RowsOf(v), c \in Columns(v) : p = <<"grid", r, c>>
    BY <2>1, <2>2, PlaceKinds
  <2>4. Buf(e)[r][c].combo = 0
    BY <1>4 DEF Wiped
  <2> QED BY <2>1, <2>3, <2>4, AtGrid
<1> QED BY <1>1, <1>6, <1>8, <1>9 DEF Fine, Owned

---------------------------------------------------------------------------
(* Resizing.                                                               *)

Rebuildable(g) == \A r \in DOMAIN g : \A c \in DOMAIN g[0] : g[r][c] \in Cells
Resizable(s) ==
  /\ IsScreen(s) /\ Rebuildable(s.primary) /\ Rebuildable(s.alt) /\ s.cx \in Nat /\ s.cy \in Nat
  /\ Saved(s) /\ Rings(s) /\ Marks(s) /\ Others(s)
ResizedFields == {"primary", "alt", "cols", "rows", "top", "bot", "cx", "cy", "wrap_pending", "tabs"}

\* A rebuilt grid has the new size.
LEMMA RebuildGrid ==
  ASSUME NEW g, Rebuildable(g), NEW c \in Nat, NEW r \in Nat PROVE IsGrid(Rebuild(g, c, r), c, r)
  BY BlankCell DEF Rebuildable, IsGrid, Rebuild
ResizedTo(s, u, cols, rows) ==
  /\ Differ(s, u, ResizedFields) /\ u.cols = cols /\ u.rows = rows
  /\ u.primary = Rebuild(s.primary, cols, rows) /\ u.alt = Rebuild(s.alt, cols, rows)
  /\ u.top = 0 /\ u.bot = rows - 1 /\ u.cx = Least(s.cx, cols - 1)
  /\ u.cy = Least(s.cy, rows - 1) /\ u.wrap_pending = FALSE
  /\ u.tabs = {c \in 0 .. cols - 1 : c % 8 = 0}

\* What a resize does to the fields of a screen.
LEMMA ResizeFields ==
  ASSUME NEW s, IsScreen(s), NEW cols0, NEW rows0
  PROVE  ResizedTo(s, Resize(s, cols0, rows0), Most(cols0, 1), Most(rows0, 1))
<1> DEFINE cols == Most(cols0, 1)
           rows == Most(rows0, 1)
           pr == Rebuild(s.primary, cols, rows)
           al == Rebuild(s.alt, cols, rows)
           tb == {c \in 0 .. cols - 1 : c % 8 = 0}
           cx == Least(s.cx, cols - 1)
           cy == Least(s.cy, rows - 1)
           b == rows - 1
           u == [s EXCEPT !.primary = pr, !.alt = al, !.cols = cols, !.rows = rows, !.top = 0,
                          !.bot = b, !.cx = cx, !.cy = cy, !.wrap_pending = FALSE, !.tabs = tb]
<1>1. Resize(s, cols0, rows0) = u
  BY DEF Resize
<1> HIDE DEF cols, rows, pr, al, tb, cx, cy, b
<1>2. /\ Differ(s, u, ResizedFields) /\ u.cols = cols /\ u.rows = rows
      /\ u.primary = pr /\ u.alt = al
      /\ u.top = 0 /\ u.bot = b /\ u.cx = cx
      /\ u.cy = cy /\ u.wrap_pending = FALSE
      /\ u.tabs = tb
  BY ZenonT(40) DEF Differ, ResizedFields, IsScreen, Map, ScreenFields
<1> QED BY <1>1, <1>2 DEF cols, rows, pr, al, tb, cx, cy, b, ResizedTo

\* A screen of any size becomes a good one of any other; a size of zero becomes
\* one.
LEMMA ResizeGood ==
  ASSUME NEW s, Resizable(s), NEW cols0 \in Nat, NEW rows0 \in Nat
  PROVE  ScreenGood(Resize(s, cols0, rows0))
<1> DEFINE cols == Most(cols0, 1)
           rows == Most(rows0, 1)
           u == Resize(s, cols0, rows0)
<1>1. cols \in Nat \ {0} /\ rows \in Nat \ {0}
  BY DEF Most
<1>2. /\ Differ(s, u, ResizedFields) /\ u.cols = cols /\ u.rows = rows
      /\ u.primary = Rebuild(s.primary, cols, rows) /\ u.alt = Rebuild(s.alt, cols, rows)
      /\ u.top = 0 /\ u.bot = rows - 1 /\ u.cx = Least(s.cx, cols - 1)
      /\ u.cy = Least(s.cy, rows - 1) /\ u.wrap_pending = FALSE
      /\ u.tabs = {c \in 0 .. cols - 1 : c % 8 = 0}
  <2>1. ResizedTo(s, u, cols, rows)
    BY ResizeFields DEF Resizable
  <2> HIDE DEF u, cols, rows
  <2> QED BY <2>1 DEF ResizedTo
<1> HIDE DEF cols, rows, u
<1>3. IsScreen(u) /\ Sized(u) /\ Grids(u)
  BY <1>1, <1>2, RebuildGrid DEF Differ, Sized, Grids, Resizable
<1>4. s.cx \in Nat /\ s.cy \in Nat
  BY DEF Resizable
<1>5. Least(s.cx, cols - 1) \in 0 .. cols - 1 /\ Least(s.cy, rows - 1) \in 0 .. rows - 1
  BY <1>1, <1>4 DEF Least
<1>6. Cursor(u) /\ Region(u) /\ Stops(u)
  BY <1>1, <1>2, <1>5 DEF Cursor, Region, Stops
<1>7. /\ u.saved = s.saved /\ u.sb = s.sb /\ u.scrolled_total = s.scrolled_total
      /\ u.prompts = s.prompts /\ u.buf_alt = s.buf_alt /\ u.combo_pool = s.combo_pool
  BY <1>2 DEF Differ, ScreenFields, ResizedFields
<1>8. Saved(u) /\ Rings(u) /\ Marks(u) /\ Others(u)
  BY <1>7 DEF Resizable, Saved, Rings, Marks, Others
<1> QED BY <1>3, <1>6, <1>8 DEF ScreenGood, u

\* Every good screen can be resized.
LEMMA GoodResizable == ASSUME NEW s, ScreenGood(s) PROVE Resizable(s)
<1>1. Rebuildable(s.primary) /\ Rebuildable(s.alt)
  <2>1. 0 \in 0 .. s.rows - 1
    BY SizeFacts
  <2>2. ASSUME NEW g, IsGrid(g, s.cols, s.rows) PROVE Rebuildable(g)
    BY <2>1, <2>2 DEF IsGrid, Rebuildable
  <2> QED BY <2>2 DEF ScreenGood, Grids
<1> QED BY <1>1, SizeFacts DEF ScreenGood, Resizable
\* A resize keeps the cells that still fit where they were.
LEMMA ResizeFine ==
  ASSUME NEW s, ScreenGood(s), NEW cols0 \in Nat, NEW rows0 \in Nat
  PROVE  Fine(s, Resize(s, cols0, rows0))
<1> DEFINE cols == Most(cols0, 1)
           rows == Most(rows0, 1)
           u == Resize(s, cols0, rows0)
<1>1. ScreenGood(u)
  BY GoodResizable, ResizeGood
<1>2. /\ Differ(s, u, ResizedFields) /\ u.cols = cols /\ u.rows = rows
      /\ u.primary = Rebuild(s.primary, cols, rows) /\ u.alt = Rebuild(s.alt, cols, rows)
  <2>1. ResizedTo(s, u, cols, rows)
    BY ResizeFields DEF ScreenGood
  <2> HIDE DEF u, cols, rows
  <2> QED BY <2>1 DEF ResizedTo
<1>3. u.sb = s.sb /\ u.buf_alt = s.buf_alt /\ u.combo_pool = s.combo_pool
  BY <1>2 DEF Differ, ScreenFields, ResizedFields
<1> HIDE DEF cols, rows, u
<1>4. ASSUME NEW g, IsGrid(g, s.cols, s.rows), NEW r \in RowsOf(u), NEW c \in Columns(u),
             Rebuild(g, cols, rows)[r][c].combo # 0
      PROVE  r \in RowsOf(s) /\ c \in Columns(s) /\ Rebuild(g, cols, rows)[r][c] = g[r][c]
  <2>1. Rebuild(g, cols, rows)[r][c] = IF r \in DOMAIN g /\ c \in DOMAIN g[0] THEN g[r][c] ELSE Blank
    BY <1>2 DEF Rebuild, RowsOf, Columns
  <2>2. DOMAIN g = RowsOf(s) /\ DOMAIN g[0] = Columns(s)
    BY <1>4, SizeFacts DEF IsGrid, RowsOf, Columns
  <2> QED BY <1>4, <2>1, <2>2, BlankCell
<1> DEFINE m == [p \in Places(u) |-> p]
<1>5. ASSUME NEW p \in Places(u), At(u, p) # 0 PROVE p \in Places(s) /\ At(s, p) = At(u, p)
  <2>1. CASE \E r \in RowsOf(u), c \in Columns(u) : p = <<"grid", r, c>>
    <3>1. PICK r \in RowsOf(u), c \in Columns(u) : p = <<"grid", r, c>>
      BY <2>1
    <3>2. Buf(u) = Rebuild(Buf(s), cols, rows) /\ IsGrid(Buf(s), s.cols, s.rows)
      BY <1>2, <1>3 DEF Buf, ScreenGood, Grids
    <3>3. Buf(u)[r][c].combo # 0
      BY <1>5, <3>1, AtGrid
    <3>4. r \in RowsOf(s) /\ c \in Columns(s) /\ Buf(u)[r][c] = Buf(s)[r][c]
      BY <1>4, <3>2, <3>3
    <3> QED BY <3>1, <3>4, AtGrid, PlaceIn
  <2>2. CASE u.buf_alt /\ \E r \in RowsOf(u), c \in Columns(u) : p = <<"under", r, c>>
    <3>1. PICK r \in RowsOf(u), c \in Columns(u) : p = <<"under", r, c>>
      BY <2>2
    <3>2. IsGrid(s.primary, s.cols, s.rows)
      BY DEF ScreenGood, Grids
    <3>3. \A v : At(v, p) = v.primary[r][c].combo
      BY <3>1 DEF At
    <3>4. u.primary[r][c].combo # 0
      BY <1>5, <3>3
    <3>5. r \in RowsOf(s) /\ c \in Columns(s) /\ u.primary[r][c] = s.primary[r][c]
      BY <1>2, <1>4, <3>2, <3>4
    <3>6. p \in Places(s)
      BY <1>3, <2>2, <3>1, <3>5 DEF Places
    <3> QED BY <3>3, <3>5, <3>6
  <2>3. CASE \E i \in 0 .. u.sb.count - 1 : \E c \in DOMAIN SbGet(u.sb, i) : p = <<"past", i, c>>
    <3>1. PICK i \in 0 .. s.sb.count - 1 : \E c \in DOMAIN SbGet(s.sb, i) : p = <<"past", i, c>>
      BY <1>3, <2>3
    <3> QED BY <1>3, <3>1, AtPast, PlaceIn
  <2> QED BY <2>1, <2>2, <2>3, PlaceKinds
<1>6. Carried(s, u, m)
  BY <1>5 DEF Carried
<1> HIDE DEF m
<1>7. Owned(s) => Owned(u)
  BY <1>3, <1>6, CarriedOwned DEF ScreenGood, Others
<1> QED BY <1>1, <1>7 DEF Fine, u

\* A new scrollback is a ring without lines.
LEMMA NewRing == IsRing(NewScrollback) /\ NewScrollback.count = 0
<1>1. NewScrollback.count = 0 /\ NewScrollback.start = 0
      /\ NewScrollback.ring = [i \in 0 .. Cap - 1 |-> NoLine]
      /\ DOMAIN NewScrollback = {"ring", "start", "count"} /\ Map(NewScrollback)
  BY DEF NewScrollback, Map
<1>2. Map([i \in 0 .. Cap - 1 |-> NoLine]) /\ DOMAIN [i \in 0 .. Cap - 1 |-> NoLine] = 0 .. Cap - 1
  BY DEF Map
<1> QED BY <1>1, <1>2, ScreenAssumption DEF IsRing, RingShape
\* A new screen is a good one without a single combining mark.
LEMMA NewScreenFine ==
  ASSUME NEW cols0 \in Nat, NEW rows0 \in Nat
  PROVE  ScreenGood(NewScreen(cols0, rows0)) /\ Owned(NewScreen(cols0, rows0))
<1> DEFINE s == [cols |-> 0, rows |-> 0, buf_alt |-> FALSE, primary |-> <<>>, alt |-> <<>>,
                 cx |-> 0, cy |-> 0, wrap_pending |-> FALSE, pen |-> DefaultPen,
                 top |-> 0, bot |-> 0, saved |-> NewSaved, tabs |-> {},
                 sb |-> NewScrollback, scrolled_total |-> 0, combo_pool |-> 0,
                 prompts |-> <<>>, last_base |-> <<-1, -1>>, modes |-> DefaultModes]
           u == Resize(s, cols0, rows0)
           cols == Most(cols0, 1)
           rows == Most(rows0, 1)
<1>1. NewScreen(cols0, rows0) = u
  BY DEF NewScreen
<1>2. /\ IsScreen(s) /\ s.primary = <<>> /\ s.alt = <<>> /\ s.cx = 0 /\ s.cy = 0
      /\ s.saved = NewSaved
      /\ s.sb = NewScrollback /\ s.scrolled_total = 0 /\ s.combo_pool = 0 /\ s.prompts = <<>>
      /\ s.buf_alt = FALSE
  BY DEF IsScreen, Map, ScreenFields
<1> HIDE DEF s
<1>3. Rebuildable(s.primary) /\ Rebuildable(s.alt)
  BY <1>2 DEF Rebuildable
<1>4. Saved(s) /\ Rings(s) /\ Others(s)
  <2>1. NewSaved.cx = 0 /\ NewSaved.cy = 0
    BY DEF NewSaved
  <2>2. Saved(s)
    BY <1>2, <2>1 DEF Saved
  <2>3. Rings(s)
    BY <1>2, NewRing DEF Rings
  <2>4. s.buf_alt \in BOOLEAN
    BY <1>2
  <2>5. s.combo_pool \in Nat
    BY <1>2
  <2> QED BY <2>2, <2>3, <2>4, <2>5 DEF Others
<1>5. Marks(s)
  <2>1. Len(<<>>) = 0
    OBVIOUS
  <2>2. Numbered(<<>>) /\ Len(<<>>) <= PromptCap
    BY <2>1, NumberedNone, ScreenAssumption
  <2>3. s.prompts = <<>>
    BY <1>2
  <2> QED BY <2>2, <2>3 DEF Marks
<1>6. ScreenGood(u)
  <2>1. s.cx \in Nat /\ s.cy \in Nat
    BY <1>2
  <2>2. Resizable(s)
    BY <1>2, <1>3, <1>4, <1>5, <2>1 DEF Resizable
  <2> QED BY <2>2, ResizeGood
<1>7. /\ Differ(s, u, ResizedFields) /\ u.cols = cols /\ u.rows = rows
      /\ u.primary = Rebuild(s.primary, cols, rows)
  <2>1. ResizedTo(s, u, cols, rows)
    BY <1>2, ResizeFields
  <2> HIDE DEF u, cols, rows
  <2> QED BY <2>1 DEF ResizedTo
<1> HIDE DEF u, cols, rows
<1>8. u.sb = s.sb /\ u.buf_alt = FALSE /\ u.combo_pool = 0
  BY <1>2, <1>7 DEF Differ, ScreenFields, ResizedFields
<1>9. \A p \in Places(u) : At(u, p) = 0
  <2> TAKE p \in Places(u)
  <2>1. u.sb.count = 0
    BY <1>2, <1>8, NewRing
  <2>2. PICK r \in RowsOf(u), c \in Columns(u) : p = <<"grid", r, c>>
    BY <1>8, <2>1, PlaceKinds
  <2>3. Buf(u)[r][c] = Blank
    BY <1>2, <1>7, <1>8, <2>2 DEF Buf, Rebuild, RowsOf, Columns
  <2> QED BY <2>2, <2>3, AtGrid, BlankCell
<1> QED BY <1>1, <1>6, <1>8, <1>9 DEF Owned
=============================================================================
