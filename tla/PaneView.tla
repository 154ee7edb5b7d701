------------------------------ MODULE PaneView ------------------------------
(***************************************************************************)
(* What the user sees of the panes of one tab and does to them (Win of     *)
(* wslterm/src/main.rs): scrolled-back views, selection, mouse reports,    *)
(* scrollbars, the search bar and the command palette, while the feed      *)
(* thread moves the terminals under them (FeedUi).                         *)
(*                                                                         *)
(* An event handler is one action.  Texts are left out: a query is what it *)
(* finds.  What a frame measured (the scrollbars) is as old as the frame.  *)
(***************************************************************************)
EXTENDS FeedUi, Integers

CONSTANTS
    NoPane,
    Rows,       \* rows of a pane
    Step,       \* lines a notch of the wheel scrolls
    MaxHits,    \* bound of the model: matches of a query
    Commands,   \* the commands of the palette, in their order
    Keys,       \* keys a user may press
    MaxActs     \* bound of the model: what the user does

ASSUME PaneViewAssumption ==
    /\ NoPane \notin Pane /\ Rows \in Nat \ {0} /\ Step \in Nat \ {0} /\ MaxHits \in Nat
    /\ Commands \in Seq(STRING) /\ MaxActs \in Nat

VARIABLES
    win,        \* pane (off, last, selecting, sel), focus, held, drag, bars, search, palette
    top,        \* history: the line a view that is scrolled back has on top
    acts        \* what the user has done so far

vars == <<feedVars, win, top, acts>>

NoLine == -1
NoButton == <<>>
Closed == <<>>
Button == {"left", "middle", "right"}
Most(a, b) == IF a >= b THEN a ELSE b

PaneViewInit ==
    /\ \E p \in Pane :
         win = [pane |-> [q \in Pane |-> [off |-> 0, last |-> 0, selecting |-> FALSE, sel |-> FALSE]],
                focus |-> p, held |-> NoButton, drag |-> NoPane, bars |-> [q \in Pane |-> 0],
                search |-> Closed, palette |-> Closed]
    /\ top = [p \in Pane |-> NoLine] /\ acts = 0

Init == FeedInit /\ PaneViewInit

---------------------------------------------------------------------------
(* Views.                                                                  *)

\* A view is promised to keep its top line once it shows what its owner chose
\* from, every line the terminal has scrolled included.
Promised(w, p) ==
    LET off == w.pane[p].off
    IN  IF off = win.pane[p].off THEN top[p]
        ELSE IF off \in 1 .. term[p].sbc /\ win.pane[p].last = term[p].total
             THEN term[p].total - off ELSE NoLine

\* The end of a handler that leaves the window w.
Handled(w, redraw) ==
    /\ ui = "idle" /\ acts < MaxActs /\ acts' = acts + 1
    /\ win' = w /\ top' = [p \in Pane |-> Promised(w, p)]
    /\ frame' = (frame \/ redraw)
    /\ UNCHANGED <<term, chan, made, feed, resp, outbox, pending, posted, ui, sent, drawn>>

ScrollByUnclamped(w, lines) ==
    [w EXCEPT !.pane[w.focus].off = Most(@ + lines, 0)]
ScrollBy(w, lines) ==
    [w EXCEPT !.pane[w.focus].off = Most(0, Least(@ + lines, term[w.focus].sbc))]
Scroll(w, lines) == Handled(ScrollBy(w, lines), ScrollBy(w, lines) # w)
Snap(w) == [w EXCEPT !.pane[w.focus].off = 0]

\* on_redraw_tick(): a scrolled-back view follows the lines that went by.
TickByOne(p, v) ==
    [v EXCEPT !.off = IF @ > 0 /\ term[p].total > v.last THEN Least(@ + 1, term[p].sbc) ELSE @,
              !.last = term[p].total,
              !.sel = @ /\ (p # win.focus \/ v.selecting)]
Tick(p, v) ==
    LET delta == term[p].total - v.last
    IN  [v EXCEPT !.off = IF @ > 0 /\ delta > 0 THEN Least(@ + delta, term[p].sbc) ELSE @,
                  !.last = term[p].total,
                  !.sel = @ /\ (p # win.focus \/ v.selecting)]

Redraw ==
    /\ RedrawFlush
    /\ win' = [win EXCEPT !.pane = [p \in Pane |-> Tick(p, @[p])]]
    /\ top' = [p \in Pane |-> IF top[p] = NoLine THEN NoLine
                              ELSE Most(top[p], term[p].total - term[p].sbc)]
    /\ UNCHANGED acts

\* A pane on its primary screen with history has a scrollbar.
Render ==
    /\ Present
    /\ win' = [win EXCEPT !.bars = [p \in Pane |-> IF term[p].alt THEN 0 ELSE term[p].sbc]]
    /\ UNCHANGED <<top, acts>>

\* A cleared history leaves no promise.
Take ==
    /\ FeedTake /\ UNCHANGED <<win, acts>>
    /\ top' = [p \in Pane |-> IF Head(chan) = <<p, "clear">> THEN NoLine ELSE top[p]]

---------------------------------------------------------------------------
(* Mouse.                                                                  *)

Tracked(p, shift) == term[p].mouse # "None" /\ ~shift

\* report_mouse_press() sends the press and remembers it.
Reported(p, b) == [win EXCEPT !.focus = p, !.held = <<b, p>>]

Wheel(p, up, shift) ==
    IF Tracked(p, shift) THEN Handled(win, FALSE)
    ELSE Scroll(win, IF up THEN Step ELSE -Step)

BeginSelection(p) ==
    [win EXCEPT !.focus = p, !.pane[p].sel = TRUE, !.pane[p].selecting = TRUE]

PressText(p, shift) ==
    Handled(IF Tracked(p, shift) THEN Reported(p, "left") ELSE BeginSelection(p), TRUE)

\* A press on the scrollbar of the last frame: its thumb, or the track around it.
PressThumb(p, shift) ==
    /\ win.bars[p] > 0
    /\ Handled(IF Tracked(p, shift) THEN Reported(p, "left")
               ELSE [win EXCEPT !.focus = p, !.drag = p], TRUE)
PressTrack(p, up, shift) ==
    /\ win.bars[p] > 0
    /\ Handled(IF Tracked(p, shift) THEN Reported(p, "left")
               ELSE ScrollBy([win EXCEPT !.focus = p], IF up THEN Rows ELSE -Rows), TRUE)

\* Middle pastes and right does nothing where no application takes the press.
PressOther(p, b, shift) ==
    Handled(IF Tracked(p, shift) THEN Reported(p, b) ELSE win, FALSE)

\* off_for_thumb_top() counts from the history of the last frame.
DragThumb ==
    /\ win.drag # NoPane
    /\ \E off \in 0 .. win.bars[win.drag] :
         Handled(IF win.bars[win.drag] > 0 THEN [win EXCEPT !.pane[win.drag].off = off] ELSE win,
                 win.bars[win.drag] > 0)

ReportsMotion(p, shift) ==
    ~shift /\ \/ term[p].mouse = "AnyEvent"
              \/ term[p].mouse = "ButtonEvent" /\ win.held # NoButton
Motion(p, shift) ==
    /\ win.drag = NoPane
    /\ LET v == win.pane[win.focus]
       IN  IF ReportsMotion(p, shift) \/ ~v.selecting THEN Handled(win, FALSE)
           ELSE Handled([win EXCEPT !.pane[win.focus].sel = TRUE], TRUE)

\* Any release takes the press that was reported last, of whatever button.
Release(b) ==
    LET let_go == IF win.held # NoButton THEN [win EXCEPT !.held = NoButton]
                  ELSE IF b = "left" THEN [win EXCEPT !.pane[win.focus].selecting = FALSE]
                  ELSE win
    IN  Handled(IF b = "left" THEN [let_go EXCEPT !.drag = NoPane] ELSE let_go,
                b = "left" /\ win.drag # NoPane)

---------------------------------------------------------------------------
(* Keys.  The palette takes them all, then the search bar.                 *)

NoOverlay == win.palette = Closed /\ win.search = Closed

\* input::encode() has bytes for it, or the key typed a text; a chord of the
\* settings that sends input always counts, one with Super never does.
Encodes(k) ==
    \/ k.kind \in {"named", "function"}
    \/ k.kind = "Space" /\ k.ctrl
    \/ k.kind = "letter" /\ (k.ctrl \/ k.alt)
    \/ k.kind = "bracket" /\ k.ctrl
SendsInput(k) == k.bound \/ (~k.super /\ (Encodes(k) \/ k.text))

TypeKey(k) ==
    /\ NoOverlay
    /\ LET w == IF SendsInput(k) THEN Snap(win) ELSE win
       IN  Handled(w, w # win)

PageKey(up) == NoOverlay /\ Scroll(win, IF up THEN Rows ELSE -Rows)

SearchBar(n) == [n |-> n, current |-> Most(n, 1), session |-> win.focus]
OpenSearchIn(w) == [w EXCEPT !.search = SearchBar(0)]
OpenPaletteIn(w) == [w EXCEPT !.palette = [items |-> Commands, current |-> 1]]
OpenSearch == NoOverlay /\ Handled(OpenSearchIn(win), TRUE)
OpenPalette == NoOverlay /\ Handled(OpenPaletteIn(win), TRUE)
CloseSearch ==
    win.palette = Closed /\ win.search # Closed /\ Handled([win EXCEPT !.search = Closed], TRUE)
ClosePalette == win.palette # Closed /\ Handled([win EXCEPT !.palette = Closed], TRUE)

\* scroll_to_match() centers the match, wherever in the history it is.
ScrollToMatch(w) ==
    IF w.search.n = 0 THEN {w}
    ELSE {[w EXCEPT !.pane[w.search.session].off = off] : off \in 0 .. term[w.search.session].sbc}

\* search_run() after the query changed.
SearchRun(n) ==
    /\ win.palette = Closed /\ win.search # Closed
    /\ \E w \in ScrollToMatch([win EXCEPT !.search = [@ EXCEPT !.n = n, !.current = Most(n, 1)]]) :
         Handled(w, TRUE)

\* current is a position in a list of n, from 1; dir is 1 or -1.
Cycle(current, n, dir) == ((Least(current, n) - 1 + dir) % n) + 1

SearchStep(dir) ==
    /\ win.palette = Closed /\ win.search # Closed /\ win.search.n > 0
    /\ \E w \in ScrollToMatch([win EXCEPT !.search.current = Cycle(@, win.search.n, dir)]) :
         Handled(w, TRUE)

\* The commands that a query leaves, in their order.
Sublists ==
    UNION {{[k \in 1 .. n |-> Commands[at[k]]] :
              at \in {f \in [1 .. n -> DOMAIN Commands] :
                        \A j, k \in 1 .. n : j < k => f[j] < f[k]}} : n \in 0 .. Len(Commands)}
PaletteFilter(items) ==
    /\ win.palette # Closed
    /\ Handled([win EXCEPT !.palette = [items |-> items, current |-> 1]], TRUE)

PaletteMove(dir) ==
    /\ win.palette # Closed /\ win.palette.items # <<>>
    /\ Handled([win EXCEPT !.palette.current = Cycle(@, Len(win.palette.items), dir)], TRUE)

\* Enter closes the palette and runs the command; Find is the one that changes
\* this window's panes and overlays.
PaletteRun ==
    /\ win.palette # Closed
    /\ LET pal == win.palette
           w == [win EXCEPT !.palette = Closed]
       IN  Handled(IF pal.items # <<>> /\ pal.items[pal.current] = "Find" THEN OpenSearchIn(w) ELSE w,
                   TRUE)

---------------------------------------------------------------------------
Mouse ==
    \/ \E p \in Pane, shift \in BOOLEAN :
         \/ \E up \in BOOLEAN : Wheel(p, up, shift)
         \/ PressText(p, shift)
         \/ PressThumb(p, shift)
         \/ \E up \in BOOLEAN : PressTrack(p, up, shift)
         \/ \E b \in {"middle", "right"} : PressOther(p, b, shift)
         \/ Motion(p, shift)
    \/ DragThumb
    \/ \E b \in Button : Release(b)

Key ==
    \/ \E k \in Keys : TypeKey(k)
    \/ \E up \in BOOLEAN : PageKey(up)
    \/ OpenSearch
    \/ OpenPalette
    \/ CloseSearch
    \/ ClosePalette
    \/ \E n \in 0 .. MaxHits : SearchRun(n)
    \/ \E dir \in {1, -1} : SearchStep(dir)
    \/ \E items \in Sublists : PaletteFilter(items)
    \/ \E dir \in {1, -1} : PaletteMove(dir)
    \/ PaletteRun

Other == UNCHANGED <<win, top, acts>>
Next ==
    \/ \E c \in Chunks : Output(c) /\ Other
    \/ Take
    \/ FeedFlush /\ Other
    \/ FeedPoke /\ Other
    \/ RedrawStart /\ Other
    \/ Redraw
    \/ Render
    \/ Mouse
    \/ Key

\* The feed thread runs, and the event loop handles its events and its timers.
Spec ==
    /\ Init /\ [][Next]_vars
    /\ WF_vars(Take) /\ WF_vars(FeedFlush /\ Other) /\ WF_vars(FeedPoke /\ Other)
    /\ WF_vars(RedrawStart /\ Other) /\ WF_vars(Redraw) /\ WF_vars(Render)

---------------------------------------------------------------------------
(* Properties.                                                             *)

\* Types; the selected entry of the search bar and of the palette is one of
\* its list, a view is within what its ring can hold, and a selection that
\* is being made exists.
ViewTypeOK ==
    /\ FeedTypeOK
    /\ \A p \in Pane :
         LET v == win.pane[p]
         IN  /\ v.off \in 0 .. Ring /\ v.last \in 0 .. term[p].total
             /\ v.selecting \in BOOLEAN /\ v.sel \in BOOLEAN /\ (v.selecting => v.sel)
             /\ win.bars[p] \in 0 .. Ring /\ top[p] \in NoLine .. 2 * MaxOut
    /\ win.focus \in Pane /\ win.drag \in Pane \cup {NoPane}
    /\ win.held = NoButton \/ win.held \in Button \X Pane
    /\ win.search = Closed \/ /\ win.search.session \in Pane
                              /\ win.search.current \in 1 .. Most(win.search.n, 1)
    /\ win.palette = Closed \/ win.palette.current \in 1 .. Most(Len(win.palette.items), 1)
    /\ acts \in 0 .. MaxActs

\* A view the user scrolled back keeps its top line, however much output went
\* by between two frames, until the ring drops that line (on_redraw_tick and
\* the field it is about: "diffed to keep a scrolled-back viewport pinned").
PinnedView ==
    \A p \in Pane :
        top[p] # NoLine /\ win.pane[p].last = term[p].total =>
            win.pane[p].off > 0 /\ term[p].total - win.pane[p].off = top[p]

\* Every reply is sent and every line is shown in the end: the one pending flag
\* loses no wake-up between the feed thread and the UI thread.
OutputServed ==
    \A p \in Pane :
        /\ (term[p].asked # sent[p]) ~> (term[p].asked = sent[p])
        /\ (term[p].total # drawn[p]) ~> (term[p].total = drawn[p])

=============================================================================
