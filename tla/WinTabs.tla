------------------------------ MODULE WinTabs ------------------------------
(***************************************************************************)
(* The windows, tabs and panes of one process of wslterm (App and Win of   *)
(* wslterm/src/main.rs) over the sessions of the shared mux and the shared *)
(* registry of terminals.                                                  *)
(*                                                                         *)
(* An action is one event of the UI thread's loop, its handler followed by *)
(* reconcile().  What a frame leaves behind for the clicks after it (chip  *)
(* targets, pane rectangles) is as old as the last Render.  An index out   *)
(* of range aborts the process (panic = "abort").                          *)
(*                                                                         *)
(* Document tabs are left out: nothing creates one.                        *)
(***************************************************************************)
EXTENDS PaneLayout

CONSTANTS
    MaxSession,     \* bound of the model: sessions opened
    MaxWin,         \* bound of the model: windows opened
    MaxDraws,       \* bound of the model: frames drawn, and as many changes of geometry
    Sizes,          \* <<width, height>> a window may be given
    NewSize,        \* the one it is created with
    Cells,          \* sizes of a character cell a user may choose
    BaseCell,       \* the one of the settings
    Bar, BottomPad, SidebarW    \* heights of tab bar and lower margin, width of the sidebar

Session == 1 .. MaxSession
Window == 1 .. MaxWin
NoSession == 0
NoTab == 0

ASSUME WinTabsAssumption ==
    /\ MaxSession \in Nat \ {0} /\ MaxWin \in Nat \ {0} /\ MaxDraws \in Nat
    /\ Sizes \subseteq Nat \X Nat /\ NewSize \in Sizes
    /\ Cells \subseteq Nat \ {0} /\ BaseCell \in Cells
    /\ Bar \in Nat /\ BottomPad \in Nat /\ SidebarW \in Nat

VARIABLES
    app,            \* wins, registry (session to grid), live, pty (session to grid), next
    opened,         \* windows created so far
    exits,          \* SessionExit events posted and not handled
    draws,          \* frames and changes of geometry so far
    fate            \* "run", "exit" of the event loop, "aborted"

vars == <<app, opened, exits, draws, fate>>

---------------------------------------------------------------------------
(* One window.                                                             *)

Wins == DOMAIN app.wins
Tab(s) == [root |-> Leaf(s), focus |-> s]
NewWin ==
    [tabs |-> <<>>, active |-> 1, chips |-> 0, menu |-> NoTab, hits |-> {},
     settings |-> NoSession, size |-> NewSize, cell |-> BaseCell, sidebar |-> FALSE,
     detached |-> <<>>, closing |-> FALSE]

TerminalArea(win) ==
    LET sb == IF win.sidebar THEN SidebarW ELSE 0
    IN  [x |-> sb, y |-> Bar, w |-> Minus(win.size[1], sb),
         h |-> Minus(Minus(win.size[2], Bar), BottomPad)]
Grid(win, rect) == GridOf(rect, win.size[1], win.cell)
TabSessions(win) == UNION {Sessions(win.tabs[i].root) : i \in DOMAIN win.tabs}

\* The tabs[active_term] of the code aborts where this is false.
InRange(win) == win.active \in DOMAIN win.tabs
ActiveTab(win) == win.tabs[win.active]
FocusedSession(win) ==
    LET tab == ActiveTab(win)
    IN  IF tab.focus \in Sessions(tab.root) THEN tab.focus ELSE FirstSession(tab.root)

\* resize_surface(): every pane of every tab gets the grid of its rectangle.
TabOf(win, s) == win.tabs[CHOOSE i \in DOMAIN win.tabs : s \in Sessions(win.tabs[i].root)]
Refit(a, win, S) ==
    LET fit == [s \in S |-> Grid(win, LeafRect(TabOf(win, s).root, s, TerminalArea(win)))]
        To(g) == [s \in DOMAIN g |-> IF s \in S THEN fit[s] ELSE g[s]]
    IN  [a EXCEPT !.registry = To(@), !.pty = To(@)]
ReflowActive(a, w) == Refit(a, a.wins[w], Sessions(ActiveTab(a.wins[w]).root))
Reflow(a, w) == Refit(a, a.wins[w], TabSessions(a.wins[w]))

OpenSession(a, grid) ==
    LET id == a.next
    IN  [a EXCEPT !.next = @ + 1, !.live = @ \cup {id},
                  !.registry = [s \in DOMAIN @ \cup {id} |-> IF s = id THEN grid ELSE @[s]],
                  !.pty = [s \in DOMAIN @ \cup {id} |-> IF s = id THEN grid ELSE @[s]]]
Forget(a, S) == [a EXCEPT !.registry = [s \in DOMAIN @ \ S |-> @[s]],
                          !.pty = [s \in DOMAIN @ \ S |-> @[s]]]
Close(a, S) == [Forget(a, S) EXCEPT !.live = @ \ S]

DropTabStays(a, w, ti) ==
    LET left == RemoveAt(a.wins[w].tabs, ti)
    IN  [a EXCEPT !.wins[w].tabs = left, !.wins[w].active = MostOf(LeastOf(@, Len(left)), 1)]
\* What close_session, close_whole_tab and move_tab do after tabs.remove(ti).
DropTab(a, w, ti) ==
    LET left == RemoveAt(a.wins[w].tabs, ti)
        b == [a EXCEPT !.wins[w].tabs = left]
    IN  IF left = <<>> THEN [b EXCEPT !.wins[w].closing = TRUE]
        ELSE Reflow([b EXCEPT !.wins[w].active = LeastOf(@, Len(left))], w)

ApplySettings(a, w) == Reflow([a EXCEPT !.wins[w].cell = BaseCell], w)

SettingsClosed(a, w, s) ==
    IF a.wins[w].settings # s THEN a
    ELSE ApplySettings([a EXCEPT !.wins[w].settings = NoSession], w)

PaneClosed(a, w, s, exited) ==
    LET at == {i \in DOMAIN a.wins[w].tabs : s \in Sessions(a.wins[w].tabs[i].root)}
        ti == CHOOSE i \in at : \A j \in at : i <= j
        b == IF exited THEN Forget(a, {s}) ELSE Close(a, {s})
        tab == a.wins[w].tabs[ti]
        root == RemoveLayout(tab.root, s)
        focus == IF tab.focus = s THEN FirstSession(root) ELSE tab.focus
    IN  IF at = {} THEN a
        ELSE IF Sessions(tab.root) = {s} THEN DropTab(b, w, ti)
        ELSE Reflow([b EXCEPT !.wins[w].tabs[ti] = [root |-> root, focus |-> focus]], w)

CloseSession(a, w, s, exited) == PaneClosed(SettingsClosed(a, w, s), w, s, exited)

CloseWholeTabFirst(a, w, ti) ==
    DropTab(Close(a, {FirstSession(a.wins[w].tabs[ti].root)}), w, ti)
CloseWholeTab(a, w, ti) ==
    IF ti \notin DOMAIN a.wins[w].tabs THEN a
    ELSE DropTab(Close(a, Sessions(a.wins[w].tabs[ti].root)), w, ti)

MoveTab(a, w, ti) ==
    IF ti \notin DOMAIN a.wins[w].tabs THEN a
    ELSE DropTab([a EXCEPT !.wins[w].detached = <<a.wins[w].tabs[ti]>>], w, ti)

---------------------------------------------------------------------------
(* All windows.                                                            *)

AdoptTab(a, w, tab) ==
    LET b == [a EXCEPT !.wins = [v \in DOMAIN @ \cup {w} |->
                                   IF v = w THEN [NewWin EXCEPT !.tabs = <<tab>>] ELSE @[v]]]
    IN  Reflow(b, w)

\* Moved tabs first get windows of their own; then the windows that asked to
\* close go, with the sessions they still have.
AdoptMoved(a) ==
    LET from == {w \in DOMAIN a.wins : a.wins[w].detached # <<>>}
        moved(w) == a.wins[w].detached[1]
        taken == [a EXCEPT !.wins = [w \in DOMAIN @ |-> [@[w] EXCEPT !.detached = <<>>]]]
    IN  IF from = {} THEN taken
        ELSE AdoptTab(taken, opened + 1, moved(CHOOSE w \in from : TRUE))
Sweep(a) ==
    LET gone == {w \in DOMAIN a.wins : a.wins[w].closing}
        b == Close(a, UNION {TabSessions(a.wins[w]) : w \in gone})
    IN  [b EXCEPT !.wins = [w \in DOMAIN @ \ gone |-> @[w]]]
Reconcile(a) == Sweep(AdoptMoved(a))

Handled(a) ==
    /\ app' = Reconcile(a)
    /\ opened' = IF \E w \in DOMAIN a.wins : a.wins[w].detached # <<>> THEN opened + 1 ELSE opened
    /\ fate' = IF DOMAIN app'.wins = {} THEN "exit" ELSE "run"

\* The first window and its first tab.
Init ==
    /\ LET win == [NewWin EXCEPT !.tabs = <<Tab(1)>>]
           none == [wins |-> [w \in {1} |-> win], registry |-> [s \in {} |-> 0], live |-> {},
                    pty |-> [s \in {} |-> 0], next |-> 1]
       IN  app = OpenSession(none, Grid(win, TerminalArea(win)))
    /\ opened = 1
    /\ exits = {}
    /\ draws = [frames |-> 0, changes |-> 0]
    /\ fate = "run"

---------------------------------------------------------------------------
(* Keys and commands of the focused window.                                *)

\* The focused pane's directory is asked for first: tabs[active_term].
AddTab(w) ==
    /\ InRange(app.wins[w]) /\ app.next \in Session
    /\ LET win == app.wins[w]
           a == OpenSession(app, Grid(win, TerminalArea(win)))
           b == [a EXCEPT !.wins[w].tabs = Append(@, Tab(app.next)),
                          !.wins[w].active = Len(win.tabs) + 1]
       IN  Handled(Reflow(b, w))
    /\ UNCHANGED <<exits, draws>>

\* An editor's tab; the one of the settings is remembered.
OpenEditorTab(w, forSettings) ==
    /\ app.next \in Session
    /\ LET win == app.wins[w]
           a == OpenSession(app, Grid(win, TerminalArea(win)))
           b == [a EXCEPT !.wins[w].tabs = Append(@, Tab(app.next)),
                          !.wins[w].active = Len(win.tabs) + 1,
                          !.wins[w].settings = IF forSettings THEN app.next ELSE @]
       IN  Handled(Reflow(b, w))
    /\ UNCHANGED <<exits, draws>>

\* The new session starts with the grid of the pane it halves.
SplitFocused(w, sbs) ==
    /\ InRange(app.wins[w]) /\ app.next \in Session
    /\ LET win == app.wins[w]
           target == FocusedSession(win)
           a == OpenSession(app, IF target \in DOMAIN app.registry
                                 THEN app.registry[target] ELSE <<1, 1>>)
           root == SplitLayout(ActiveTab(win).root, target, sbs, app.next)
           b == [a EXCEPT !.wins[w].tabs[win.active] = [root |-> root, focus |-> app.next]]
       IN  Handled(Reflow(b, w))
    /\ UNCHANGED <<exits, draws>>

ResizeFocused(w, sbs, delta) ==
    /\ InRange(app.wins[w]) /\ draws.changes < MaxDraws
    /\ LET win == app.wins[w]
           root == ResizeSplit(ActiveTab(win).root, FocusedSession(win), sbs, delta)
       IN  /\ Around(ActiveTab(win).root, FocusedSession(win), sbs) # {}
           /\ Handled(Reflow([app EXCEPT !.wins[w].tabs[win.active].root = root], w))
    /\ draws' = [draws EXCEPT !.changes = @ + 1]
    /\ UNCHANGED exits

ClosePane(w) ==
    /\ InRange(app.wins[w])
    /\ Handled(CloseSession(app, w, FocusedSession(app.wins[w]), FALSE))
    /\ UNCHANGED <<exits, draws>>

SwitchTab(w, delta) ==
    /\ LET n == Len(app.wins[w].tabs)
       IN  Handled([app EXCEPT !.wins[w].active = ((LeastOf(@, n) - 1 + delta) % n) + 1])
    /\ UNCHANGED <<exits, draws>>

---------------------------------------------------------------------------
(* The mouse, over what the last frame has left.                           *)

ClickChip(w, i) ==
    /\ app.wins[w].menu = NoTab /\ i <= app.wins[w].chips
    /\ Handled([app EXCEPT !.wins[w].active = i])
    /\ UNCHANGED <<exits, draws>>

MiddleClickChip(w, i) ==
    /\ i <= app.wins[w].chips
    /\ Handled(CloseWholeTab(app, w, i))
    /\ UNCHANGED <<exits, draws>>

OpenTabMenu(w, i) ==
    /\ i <= app.wins[w].chips /\ i \in DOMAIN app.wins[w].tabs
    /\ Handled([app EXCEPT !.wins[w].menu = i])
    /\ UNCHANGED <<exits, draws>>

\* The menu keeps the index its tab had when it was opened.
TabMenuClick(w, item) ==
    /\ app.wins[w].menu # NoTab
    /\ item = "move" => opened < MaxWin
    /\ LET ti == app.wins[w].menu
           a == [app EXCEPT !.wins[w].menu = NoTab]
       IN  Handled(CASE item = "move" -> MoveTab(a, w, ti)
                     [] item = "close" -> CloseWholeTab(a, w, ti)
                     [] item = "outside" -> a)
    /\ UNCHANGED <<exits, draws>>

\* A selection, a scrollbar or a reported click focuses the pane under it.
PressPane(w, s) ==
    /\ app.wins[w].menu = NoTab /\ s \in app.wins[w].hits /\ InRange(app.wins[w])
    /\ Handled([app EXCEPT !.wins[w].tabs[app.wins[w].active].focus = s])
    /\ UNCHANGED <<exits, draws>>

---------------------------------------------------------------------------
(* The window system.                                                      *)

Render(w) ==
    /\ LET win == app.wins[w]
           active == LeastOf(win.active, Len(win.tabs))
       IN  Handled([app EXCEPT !.wins[w].active = active, !.wins[w].chips = Len(win.tabs),
                               !.wins[w].hits = Sessions(win.tabs[active].root)])
    /\ draws.frames < MaxDraws /\ draws' = [draws EXCEPT !.frames = @ + 1]
    /\ UNCHANGED exits

CloseRequested(w) ==
    /\ Handled([app EXCEPT !.wins[w].closing = TRUE])
    /\ UNCHANGED <<exits, draws>>

Reshape(w, change) ==
    /\ draws.changes < MaxDraws
    /\ Handled(Reflow([app EXCEPT !.wins[w] = change], w))
    /\ draws' = [draws EXCEPT !.changes = @ + 1]
    /\ UNCHANGED exits
Resized(w, size) == Reshape(w, [app.wins[w] EXCEPT !.size = size])
ZoomFont(w, cell) == Reshape(w, [app.wins[w] EXCEPT !.cell = cell])
ToggleSidebar(w) ==
    /\ InRange(app.wins[w]) \/ app.wins[w].sidebar
    /\ Reshape(w, [app.wins[w] EXCEPT !.sidebar = ~@])

\* Every window is asked to close the session. One at most has its pane
\* (RegistryIsPanes), one at most remembers it as its settings' editor, and what
\* the two do does not meet.
SessionExit(s) ==
    /\ s \in exits
    /\ exits' = exits \ {s}
    /\ LET keeper == {w \in Wins : app.wins[w].settings = s}
           owner == {w \in Wins : s \in TabSessions(app.wins[w])}
           a == IF keeper = {} THEN app ELSE SettingsClosed(app, CHOOSE w \in keeper : TRUE, s)
           b == IF owner = {} THEN a ELSE PaneClosed(a, CHOOSE w \in owner : TRUE, s, TRUE)
       IN  Handled(b)
    /\ UNCHANGED draws

\* A redraw tick, a key or a button's release asks for the focused pane of a
\* window whose active_term is past its tabs.
Abort(w) ==
    /\ ~InRange(app.wins[w])
    /\ fate' = "aborted"
    /\ UNCHANGED <<app, opened, exits, draws>>

\* A shell ends; the feed thread posts the event.
ShellEnds(s) ==
    /\ s \in app.live
    /\ app' = [app EXCEPT !.live = @ \ {s}]
    /\ exits' = exits \cup {s}
    /\ UNCHANGED <<opened, draws, fate>>

Key(w) ==
    \/ AddTab(w) \/ ClosePane(w)
    \/ \E b \in BOOLEAN : OpenEditorTab(w, b) \/ SplitFocused(w, b)
    \/ \E sbs \in BOOLEAN, delta \in {-RatioStep, RatioStep} : ResizeFocused(w, sbs, delta)
    \/ \E delta \in {-1, 1} : SwitchTab(w, delta)
Mouse(w) ==
    \/ \E i \in 1 .. app.wins[w].chips : ClickChip(w, i) \/ MiddleClickChip(w, i) \/ OpenTabMenu(w, i)
    \/ \E item \in {"move", "close", "outside"} : TabMenuClick(w, item)
    \/ \E s \in app.wins[w].hits : PressPane(w, s)
System(w) ==
    \/ Render(w) \/ CloseRequested(w) \/ ToggleSidebar(w) \/ Abort(w)
    \/ \E size \in Sizes \ {app.wins[w].size} : Resized(w, size)
    \/ \E cell \in Cells \ {app.wins[w].cell} : ZoomFont(w, cell)

Next ==
    /\ fate = "run"
    /\ \/ \E w \in Wins : Key(w) \/ Mouse(w) \/ System(w)
       \/ \E s \in Session : SessionExit(s) \/ ShellEnds(s)

Spec == Init /\ [][Next]_vars

---------------------------------------------------------------------------
(* Properties.                                                             *)

TabOK(tab) == IsTree(tab.root) /\ tab.focus \in Session
WinOK(win) ==
    /\ win.tabs # <<>> /\ \A i \in DOMAIN win.tabs : TabOK(win.tabs[i])
    /\ win.active >= 1 /\ win.chips \in 0 .. MaxSession /\ win.menu \in 0 .. MaxSession
    /\ win.hits \subseteq Session /\ win.settings \in {NoSession} \cup Session
    /\ win.size \in Sizes /\ win.cell \in Cells /\ win.sidebar \in BOOLEAN
    /\ win.detached = <<>> /\ ~win.closing

\* Between two events every window has a tab, every tab a well-formed tree of
\* splits with as many panes as leaves, and no moved tab or closing window is
\* left over.
TabsTypeOK ==
    /\ \A w \in Wins : w <= opened /\ WinOK(app.wins[w])
    /\ opened \in Window /\ exits \subseteq Session /\ draws \in [frames : 0 .. MaxDraws, changes : 0 .. MaxDraws]
    /\ app.live \subseteq Session /\ fate \in {"run", "exit", "aborted"}

\* Whatever is split, moved, closed or ends in whichever order, and however old
\* the frame a click refers to: the registry has exactly the sessions that have
\* a pane, each has one pane in one window, no session runs without a pane, and
\* a pane's session runs or its end is on its way.
RegistryIsPanes ==
    LET panes == UNION {TabSessions(app.wins[w]) : w \in Wins}
    IN  /\ DOMAIN app.registry = panes
        /\ app.live \subseteq panes
        /\ panes \subseteq app.live \cup exits
        /\ \A v, w \in Wins : \A i \in DOMAIN app.wins[v].tabs, j \in DOMAIN app.wins[w].tabs :
              <<v, i>> # <<w, j>> =>
                 Sessions(app.wins[v].tabs[i].root) \cap Sessions(app.wins[w].tabs[j].root) = {}

\* Terminal and PTY of every pane, of hidden tabs and of moved ones too, have
\* the grid of the pane's rectangle in the window that has it.
PanesFit ==
    \A w \in Wins : \A i \in DOMAIN app.wins[w].tabs :
       LET win == app.wins[w]
           rects == LeafRects(win.tabs[i].root, TerminalArea(win))
       IN  \A s \in DOMAIN rects :
              /\ app.registry[s] = Grid(win, rects[s])
              /\ app.pty[s] = Grid(win, rects[s])

\* The panes of a tab share its area, however often it was split, its dividers
\* moved and panes closed.
PanesTile ==
    \A w \in Wins : \A i \in DOMAIN app.wins[w].tabs :
       Tiles(app.wins[w].tabs[i].root, TerminalArea(app.wins[w]))

\* No event finds active_term past the tabs ("Keep active_term in range
\* defensively").
NeverAborts == fate # "aborted"
=============================================================================
