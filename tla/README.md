# Verification of wslterm

wslterm is a Windows terminal for WSL. One Windows process draws every window,
tab and pane; it talks over one connection (vsock, or the pipes of `wslg.exe`)
to `wslptyd`, a small C daemon inside the distro that owns the PTYs and the
shells. This directory holds TLA+ models of the program, the TLC
configurations that check them on small instances, and TLAPS proofs for
instances of every size. `PROJECT.json` maps each definition to the source
lines it stands for.

## 1. Inventory

| component | source | state | operations | models |
|---|---|---|---|---|
| wire protocol | `wslterm-pty/src/protocol.rs`, `native/wslptyd.c` | two byte streams of frames | write and read a frame | `MuxWire` |
| session multiplexer | `wslterm-pty/src/mux.rs` | `next_id`, `live`, `dead`, bounded channel | open, send, close, drop; the reader thread and its drain | `WslMux` |
| pane owner | `wslterm/src/main.rs` (`Win`, `App`, `spawn_feed_thread`) | panes, registry, event queue | open, close, quit, user events; the feed thread | `PaneHost` (one window) |
| connection child | `native/wslptyd.c` 45-342 | slots, poll set, frame buffer, PTYs, children | the poll loop, five frame handlers, `end_sess`, `forward_master`, teardown | `Wslptyd` |
| listener | `native/wslptyd.c` 346-414 | `g_active`, listening socket, staged binary | accept and fork, `SIGCHLD` handler, exit | `WslptydListener`; `bind` and the staged binary in `BringUp` |
| backend bring-up | `main.rs` 4278-4356, `bootstrap.rs`, `vsock.rs`, `process.rs` | ports, distro names | probe, connect, bootstrap, fall back | `BringUp` |
| redraw hand-off | `main.rs` 1017-1049, 3425-3437, 3742-3820 | `redraw_pending`, outbox, wanted frame | batch, post, flush, tick, frame | `FeedUi`, `PaneView` |
| search, palette, selection, mouse | `main.rs` (`Win`) | scroll offsets, selections, pressed button, lists with a selected entry | wheel, press, drag, release, keys, search, palette | `PaneView` |
| windows, tabs, splits | `main.rs` (`Win`, `App`, `Layout`) | tab lists, layout trees, focus, chips, menu, settings session | open, split, close, move, click, resize, reconcile | `PaneLayout`, `WinTabs` |
| screen | `wslterm-core/src/screen.rs` | grids, cursor, pen, region, scrollback, marks | some 40 operations | `Screen` |
| parser, terminal front | `wslterm-core/src/parser.rs`, `terminal.rs` | state, parameters, OSC buffer, sinks | parse a chunk, dispatch, feed, resize | `VtTerminal` |
| input encoding | `wslterm-core/src/input.rs` | none | key to bytes | `Encodes` of `PaneView`: which keys have bytes |
| sidebar | `main.rs` | shown or not, a listing | toggle, list | its width in `WinTabs`; the listing is left out |
| rendering, settings, scripts, `wslpty`, `Doc` | the rest | | | left out, see section 8 |

How they interact. The UI thread calls the mux directly (it is an `Rc`, so no
other thread can). The mux's reader thread blocks on the connection and puts
events on a channel of `MUX_CHANNEL_BOUND`; the feed thread takes them, feeds
the terminal it finds in the shared registry and posts user events to the UI
thread's event loop. In the distro each accepted connection is a forked child
with one thread: `poll` over the control stream and the PTY masters, then
every ready descriptor in slot order, with blocking reads, writes and
`waitpid`.

What is hard here: five parties run concurrently (UI, feed and reader threads,
the daemon child, the shells); every queue between them is bounded and every
write blocks; the ends of a session (shell exit, pane closed, window closed,
daemon killed) race with each other and with the opening of the session; slots
are reused within a poll pass. In the user interface a click refers to the last
frame although tabs, panes and sessions may have changed since, and output moves
the terminals under every view, selection and search. The terminal is fed by
programs that write anything, in chunks that end anywhere. `PROJECT.json` lists these hazards line by
line, with the properties that watch them.

What makes each component correct:

* mux: an id is reported ended exactly once, nothing is reported after the
  end, an id it counts live has something that will end it, drop returns;
* daemon: slots and children correspond, all output is sent before the exit,
  every session is reaped after a CLOSE or a disconnect;
* owner: a pane goes when its session ends and a session goes when its pane
  is closed; losing the daemon or closing the window ends the process;
* listener: the automatic exit comes when no connection is left, and only then;
* bring-up: a window reaches the daemon of its own distro;
* redraw hand-off: every reply is sent and every line drawn; no wake-up is lost;
* views: a scrolled-back view keeps its line, lists keep their selection in
  range;
* windows: registry, panes and sessions agree, indices stay in range, panes
  share their tab's area and have its grid, a moved tab keeps its sessions;
* screen and parser: cursor and region stay within the grid, rows have the
  grid's width, history and marks keep their order, the alternate screen is
  isolated, chunking does not matter, no output makes the parser deaf.

## 2. Modules

| module | role |
|---|---|
| `MuxWire` | the connection: `toSrv`, `toHost`, how much of `toSrv` the daemon has read (`taken`), which ends are open |
| `WslMux` | `mux.rs`: the calls of the UI thread step by step, the reader thread |
| `PaneHost` | `main.rs`: the UI thread's panes, registry and event queue; the feed thread |
| `Wslptyd` | `wslptyd.c`: the poll loop and the shells behind it (external) |
| `PtySystem` | the composition, its fairness, the properties, the refinement mapping |
| `SessionService` | what the back end promises its owner, without threads or connections |
| `PtySystemInv` | the inductive invariant |
| `MCPtySystem` | the module TLC runs |
| `PtySystemProofs` | the proofs: types, ends of sessions, panes and shells, output and refinement |
| `WslptydListener` | the listening process of `wslptyd.c`: accept loop, children, signal handlers |
| `MCWslptydListener`, `WslptydListenerProofs` | its module for TLC, its proofs |
| `BringUp` | processes of wslterm that look for a daemon, their start scripts, the ports of the VM with their listeners |
| `MCBringUp`, `BringUpProofs` | its module for TLC, its proofs |
| `FeedUi` | the feed thread and the UI thread's `Redraw` and frames, over the panes' terminals |
| `PaneView` | on top of `FeedUi`: what the user sees of the panes of a tab and does to them |
| `PaneViewProofs` | its proofs |
| `PaneLayout` | the split tree of a tab: rectangles, grids, split, remove, resize |
| `WinTabs` | windows, tabs, panes, registry and sessions of one process |
| `WinTabsProofs` | the proofs about both |
| `Screen` | the screen: one operator per method of `struct Screen` |
| `VtTerminal` | parser and front end over `Screen`; feeds and resizes |
| `FoldLaw` | what a fold over a sequence computes, for any operator |
| `ScreenProofs`, `VtTerminalProofs` | the proofs about the screen's operations, about the terminal |
| `MCPaneView`, `MCWinTabs`, `MCVtTerminal` | their modules for TLC |

The six models that are run (`PtySystem`, `WslptydListener`, `BringUp`,
`PaneView`, `WinTabs`, `VtTerminal`) meet where the code has a narrow interface.
`PtySystem` opens and closes panes of one window; `WinTabs` has all windows and
takes of the sessions only that a shell may end and its event is handled later.
`PaneView` takes of a terminal what its owner reads (lines scrolled, lines held,
alternate screen, mouse mode, replies); `VtTerminal` is the terminal itself.

How actions correspond to the code:

* An action runs from one point where another party can observe or interfere
  to the next. `open()` is `OpenInsert` (id into `live`) then `OpenWrite`;
  `open_session` adds `UiRegister`; `close()` is `CloseWrite` then
  `CloseRemove`, and `UiUnregister` takes pane and registry entry away. A
  handler of the UI thread runs to its end before the next: the variable
  `call` holds the call in progress, and other UI actions need it idle.
* An operation that blocks in the code is an action that is not enabled: a
  full stream (`WireCap`), a full channel (`ChanBound`), a full PTY (`InCap`),
  a read of a silent master, `waitpid` of a process that runs on. The daemon
  has one thread, so while `pc` rests there nothing else of it happens.
* `feed_stdin` handles the frames one `read` returned, one action each;
  `taken` says how many are left. `poll`'s snapshot is `ready`; `Forward`
  takes the slots in order and looks at what the slot holds *now*, as
  `pmap[k]` does.
* In `reader_loop` a T_EXIT leaves `live` just before its event is sent. The
  two are one action: while the send blocks, the reader alone would change
  `live` for this id, and the frame is then still counted on the stream.
* `HandleOpen` may refuse although a slot is free: `forkpty` can fail.
* `DaemonDies` is a kill of the connection child or of the VM: the frames it
  wrote may be cut anywhere, its children become orphans.
* Data is a count of chunks: a frame has a type and a session, no payload.
  Malformed frames are left out, no peer in the repository sends them; resize
  and signal payloads change nothing the properties see except that a signal
  may end the process.
* `nData`, `nExit`, `nGone`, `fed`, `wrote`, `eof` are history variables.
* In `BringUp` a host is a process of wslterm up to its first window: one
  action per `connect`, per answer to a probe, per script it starts. A script
  runs in its distro on its own (`rm`, `cp`, running the copy, `bind`), and
  what it becomes is a listener on a port (`owner`, `queue`, `kids`). The
  listener is seen from outside: `ChildReaped` is the round trip of
  `WslptydListener` that ends in its exit, `CountLost` the one whose decrement a
  count of the accept loop overwrites, after which the listener stays for good
  (`staying`, which also has the ports of systemd's units). A host may be started
  for the default distro without a name, for any distro by its name, and for
  either with any `--port`, the base port included. `calm` is history: the hosts
  whose bring-up overlapped no other and no start script of another, and none of
  whose connects ran out of time. The staged file
  is a name that can be missing, being written, or run: `cp` cannot overwrite a
  program that runs and `exec` cannot run one being written (`ETXTBSY`).
* Time limits (500 ms to connect, 800 ms for INFO, 15 s for a bootstrap) have
  no clock: with `Slow` each may run out at any moment, without it they are
  long enough. A name is a model value, compared as the code does up to case.
* In `WslptydListener` the accept loop stands between two actions (`lpc`) and
  the handler `on_chld` may run there: `g_active++` and `g_active--` are a load
  and a store each, the variable being `volatile`. While the handler runs
  (`chld`) the loop stands still, children may end and connections come; a
  `SIGCHLD` that comes meanwhile is delivered after it (`sig`). A child is only
  the life of its connection there; what it does is `Wslptyd`.

In the user interface (`WinTabs`, `PaneView`):

* An event of the loop is one action: the handler, everything it calls, and
  `reconcile()` after it. Handlers read nothing that another thread changes
  twice, but for `Redraw`, which clears the flag (`RedrawStart`) before it takes
  the outbox (`RedrawFlush`): the feed thread may run in between.
* What a frame leaves behind is as old as the last `Render`: `chips` (how many
  tab chips it drew), `hits` (which panes), `bars` (the history a scrollbar
  stands for). `menu` is the tab number a context menu was opened on. Clicks use
  those, as `chip_targets`, `pane_hits`, `bar_hits` and `tab_menu` are used.
* `Abort` is an index past the tabs: the release profile has `panic = "abort"`.
  It is a step of its own, of every event that asks for the focused pane.
* A layout tree is a pair of functions on paths (0 is the left or upper child),
  from the leaves to sessions and from the splits to orientation and ratio. A
  ratio is a number of fiftieths; what `f32` rounds is left out. Rectangles are
  in pixels, with the saturating subtractions of the code.
* Texts are left out: a query is the number of its matches, a match may be
  anywhere in the history, a palette query is the sublist it leaves.
* `made`, `sent`, `drawn`, `top` are history variables: chunks printed, replies
  sent, lines on the screen, and the line a scrolled-back view shows on top.

In the terminal (`Screen`, `VtTerminal`):

* A screen is a record with the fields of `struct Screen`, a method an operator
  from screens to screens. A cell keeps a class of glyph and the number of its
  string of combining marks, not its colours.
* A byte is itself or a name. UTF-8 is a lead byte and continuation bytes, and a
  text that is base64 or percent encoded stands for what it decodes to.
* Integers wrap as in the release build: `I32Range` values for CSI parameters,
  `UsizeRange` for counts and columns, a negative number cast becoming huge.
* `Prologues` are outputs written before the run starts; a run then goes on with
  any chunks and resizes. The actions are `Feed`, which is `Terminal::feed` and
  the owner's drain of the sinks, and `ResizeTo`.

## 3. Properties

Safety of `PtySystem`:

* `ExitOnce`: at most one end per session (exit, close, kill and drain may
  cross).
* `DataBeforeExit` (action property): no output after the end.
* `CompleteOutput`: a session that ended by itself was shown in full.
* `LiveIsBacked`: a live id has an OPEN on its way, a slot, or an EXIT on its
  way back, unless the connection is lost.
* `NoDeadPane`: a pane's session is live or its end is on its way to the UI.
* `NoLeakedShell`: a session of the daemon has a pane, or is being opened,
  closed or ended.
* `ProcessHasSlot`: children and slots correspond.
* `ServiceSpec`: `PtySystem` implements `SessionService` under the mapping
  that makes a session open from the moment it has an id, and ended or lost
  from the moment the owner was told.

Liveness under `Fairness`: `QuitEnds`, `LossEnds`, `CloseReaps`,
`ExitClosesPane`.

Of `WslptydListener`:

* `CountCovers`: `g_active` is never below the number of children, whatever
  updates cross. Updates of the loop and of the handler do get lost; the
  property says they can only make the count too high.
* `ExitsIdle` (action property): the automatic exit leaves no child behind, and
  no accepted connection but the one whose `g_active++` is not stored yet.
* `KeepsAccepted` (action property): it leaves no accepted connection at all,
  which is what "count before fork (SIGCHLD race)" is there for; it fails
  (section 7).
* `Answered` (liveness): no connection waits in the backlog, or accepted,
  forever.

`HostGoneTearsDown` of `PtySystem` and `NothingLingers` of `WslptydListener`
state promises of comments that the code breaks in rare orders (section 7); no
run checks them.

Of `BringUp`:

* `RightDistro`: the daemon that has a host's connection runs its distro. It
  fails when two bring-ups cross (section 7), and holds when one distro is asked
  for by name beside the default one (theorem `OneNamedRoutes`).
* `CalmRoutes`: the same for a host whose own bring-up met no other and no time
  limit, in a system where all others may cross, fail, quit and leave. Two ports
  are taken without asking who answers, and are left out: the one past the scan,
  and the base port while a distro is there that a unit or a `--port` put there.
* `OwnerUndisturbed` (action property): a port changes hands only when no
  connection is left.
* `ComesUp` (liveness): a host started comes up over one transport, or ends.

`NothingStays` (no listener outlives the hosts), `BaseIsDefault` (no other distro
ever listens on the base port) and `LeavesNobody` (a daemon does not leave under
the host that started it) state what comments promise. They fail (section 7), and
no run checks them.

Of `VtTerminal`:

* `TerminalTypeOK`: every index the next byte or frame uses is in range,
  whatever numbers the sequences have; the release build aborts otherwise.
* `Resyncs`: after any output a string terminator brings the parser back to
  plain text.
* `CombosOwned`: a string of combining marks belongs to one live cell, also
  across resets, which empty the pool.
* `SearchExact`: on every line of the screen's width, in the history or on the
  screen, matches are matches, from left to right, without overlap, and none is
  missed. Lines of the history that a resize left with another width are the
  matter of `ViewportIsGrid`: a search indexes past the end of a narrower one and
  does not see the end of a wider one.
* `HistoryGrows` (action property): with every byte the ring is the end of the
  log of all lines that scrolled off, or was cleared.
* `AltIsolated` (action property): no byte drawn on the alternate screen reaches
  the primary one.
* `PenIsSgr` (action property): only a byte that ends a plain SGR, restores the
  cursor, resets or leaves the alternate screen changes the pen.
* `ChunksDoNotMatter` (action property): a chunk cut anywhere gives the same
  terminal and the same replies.
* `PromptFollowsLine` (action property): a prompt mark stays with its line while
  lines scroll and fall out of a full history, whichever byte scrolls them.
* `ViewportIsGrid` fails (section 7).

Of `WinTabs`:

* `TabsTypeOK`: trees are trees, windows have tabs, nothing is left half moved.
* `RegistryIsPanes`: the registry has exactly the sessions with a pane, each has
  one, no session runs without, and a pane's session runs or its end is on its
  way.
* `PanesFit`: terminal and PTY of every pane, hidden or moved, have the grid of
  its rectangle.
* `PanesTile`: panes do not overlap and share all of the tab's area but the
  dividers.
* `NeverAborts` fails (section 7).

Of `PaneView`:

* `ViewTypeOK`: types; what the lists have selected is in them, offsets are
  within the ring.
* `PinnedView`: a scrolled-back view keeps its top line, until the ring drops
  it. A history that a program clears ends the promise, and so does a scroll by
  the user between output and its tick (section 7).
* `OutputServed` (liveness): every reply is sent and every line is drawn.

Fairness and why the code justifies it. The operating systems schedule
threads, so a thread that can take a step takes one: weak fairness of the UI
thread's own work (not of what a user may do), the reader, the feed thread and
the daemon. Of the programs it is assumed that they read their input, that a
login shell prints something, that a process told to die dies and that the
terminal of a dead one is released. These are assumptions about programs, not
about this code; the safety runs drop them (`Stubborn = TRUE`). Nothing makes a
user act, a shell exit or a daemon die. Likewise for the listener: its loop
runs and its signals are delivered; nobody has to connect, disconnect or stop
it. In `BringUp` every process is scheduled; nobody has to start a host or quit
one. In `PaneView` the feed thread is scheduled (`Take`, `FeedFlush`,
`FeedPoke`), the event loop handles its events (`RedrawStart`, `Redraw`) and its
timer for the wanted frame (`Render`: `about_to_wait` sets `WaitUntil`). Nothing
makes a session print or a user act. The feed thread's fairness is worth
something only because output is finite there (section 7, the flood).

## 4. Runs

| run | instance | what it shows |
|---|---|---|
| `safety` | 2 sessions, 1 slot, 1 typed frame, stubborn programs | all safety properties, the inductive invariant and the refinement |
| `sessions` | 2 sessions, 1 slot, fair | `CloseReaps`, `ExitClosesPane`, `QuitEnds`, `LossEnds` |
| `fed` | 1 session | violation: section 7 |
| `listener` | 4 connections, backlog 2, `fork` may fail, fair | `CountCovers`, `ExitsIdle`, `Answered` |
| `listener_accepted` | 3 connections | violation: section 7 |
| `bringup_crossing` | 2 hosts, 2 distros asked for with or without a name, the base port picked for either, slow, fair | `CalmRoutes`, `ComesUp`, `OwnerUndisturbed` |
| `bringup_route` | 2 hosts, 2 named distros at once | violation: section 7 |
| `terminal` | 3 x 3 screen, history of 2, 16 prologues, 2 more chunks (of 90) or resizes | the properties of `VtTerminal` |
| `rows` | the same | violation: section 7 |
| `tabs` | 3 sessions, 2 windows, a frame, a change of geometry | the properties of `WinTabs` |
| `range` | the same with 2 sessions | violation: section 7 |
| `view` | 2 panes, ring of 3, 2 chunks of output, 3 user actions, fair | `ViewTypeOK`, `PinnedView`, `OutputServed` |

Why the bounds are enough. Two sessions are the fewest that can compete for a
slot and cross on the streams; one slot makes refusal and reuse within a pass
happen. What more slots could do to slots and children is left to the proofs,
which cover every number of them. Capacities of 1 make every queue fill and
every writer block; `WireCap = 2` lets frames of two sessions stand in one
stream. One chunk per program suffices to tell output before the end from
output lost or late. The proofs cover every other size for the properties they
state. Four connections let one child end while a second is counted, a third
served and a fourth waits, which is every role a connection has. Two hosts have
four connections and four scripts between them: one quits, leaves a script or a
daemon behind, or is half way up, while the other probes or bootstraps. A range
of one port already has a base, a scanned port that two distros want, and one
past the range. What a third host, further ports and units could do to
routing and to owners is left to the proofs, which cover every number of them.

A screen of 3 x 3 has a region that is neither the whole screen nor one row, a
wide glyph that fits and one the margin cuts, and a history of 2 turns after
three lines. What takes long to set up (a pending wrap, a turned ring, a region
with origin mode, the alternate screen over a primary one with marks, an open
string or sequence) is a prologue, so that two chunks reach what is hard about
it; the second one sees what the first did. A parameter of 9999 wraps to a
negative number in a type of 4096 values. Three sessions make a tree of two levels with a split
inside a split, or three tabs, or a tab of two panes that moves; cells of one
and two pixels and windows of 12 x 9 and 7 x 4 bring rectangles to zero; a step
of 25 fiftieths brings a ratio to either end. One frame and one change of
geometry, anywhere in a run, suffice for a frame that tabs, panes or the
window's size have left behind. In `view` one chunk scrolls one or two lines of a
ring of three, the palette has two commands, a search up to two matches; three
user actions scroll a view, disturb it and look again. Only one pane prints
everything, the other a line: panes meet in the focus, the outbox and the
flag. Typed input is in `safety` only: with it `sessions` is too large, and the
liveness it would show there fails for a program that takes no input
(`HostGoneTearsDown`, section 7).

Deadlock is not checked: the process exits, and the daemon with it, so
the system really stops; that it does not stop elsewhere is what the liveness
properties say.

Each property has a mutant in the module it guards (`ReadFrameKeepsLive`,
`HandleCloseEarly`, `SbPushStuck`, `StrConsumeDeaf`, `DropTabStays`,
`RedrawStartKeepsPending`, ...), a definition with the bug the
property is there to catch.

## 5. Proofs

In `PtySystemProofs`, `TypeCorrect` proves `TypeOK` for every number of sessions and slots and all
capacities, from the named assumptions on the constants. `TypeOK` alone is not
inductive: `Reap` frees `slot[reap]`, which must hold a session, so `TypeInv`
adds that conjunct.

`SessionsConsistent` proves `TypeInv /\ SessionInv`, from which follow
`ExitAtMostOnce`, `ChildrenHaveSlots` and `NoDataAfterExit`. Why the
invariant looks as it does:

* `ExitOnce` needs that no second EXIT can reach the reader (`ExitInv`: EXIT is
  the last frame of its session on the stream, and none comes after a reported
  end) and that the drain reports none that was reported (`LiveInv`).
* that EXIT is the last frame needs that the daemon never speaks of the
  session again: its process is reaped or refused (`ExitInv`), only an active
  slot sends DATA or EXIT, and an active slot has an unreaped child
  (`SlotInv`).
* that a reaped session never gets a slot again needs that its OPEN is handled
  only once (`OpenInv`: at most one OPEN per id is ever written, and until it
  is handled the session has no process).

The step lemmas have one case per group of actions: `OpenHost`/`OpenDaemon`,
`SlotStep`, `ExitHost`/`ExitDaemon`, `LiveStep`. `NoDataAfterExit` is an action
property: a step that delivers output for `i` takes a DATA frame of `i` off the
stream, which `ExitInv` and `LiveInv` exclude after the end.

The part on panes adds `OwnerInv` (`OwnerConsistent`), from which follow
`LiveIsBacked` (`LiveAlwaysBacked`), `NoDeadPane` (`PanesGo`) and
`NoLeakedShell` (`ShellsOwned`). Each of the three is a disjunction over the
places where a session's fate can be at the moment, and is not inductive: a step
that takes a frame or an event off its queue must know where the session turns
up next. So `ToldInv` says that an end under way was counted by the reader,
`PaneInv` that a pane is live or its end is under way also while `open()` is in
progress, and `ShellInv` that a session nobody owns has a CLOSE behind its OPEN,
is being waited for, or has no shell and will get none.

The part on output adds `OutputInv` (`SystemConsistent` proves the whole invariant,
`SystemInv`, which run `safety` checks): of every session, the chunks delivered
and those queued on the way are never more than were written, and all of them
if the session ended by itself. `CompleteOutput` follows (`NothingCutOff`), and
so does the refinement: `ImplementsService` proves `ServiceSpec` step by step. Only a few actions are steps of `SessionService` (an
id taken, a chunk or an end reported, a connection lost); each of the others
must leave the mapped state alone, and that is where the invariant is needed, as
an EXIT at the reader counts as the session's end only while it is live.

`WslptydListenerProofs` proves `CountCovers` (`CountAlwaysCovers`) and
`ExitsIdle` (`NeverLeavesAChild`) for every finite set of connections. The latter
needs `OneInHand` besides: an accepted connection is in the hands of the loop,
and there is one at most, so when the count is zero it is not yet stored.
`CountCovers` is inductive together with `ListenerTypeOK`: besides the count it
bounds the value an update has loaded, which is why a store cannot go below
the children even when the handler reaped some in between, and the type needs
the bound in turn, as a decrement must not store -1.

`BringUpProofs` proves `OwnerUndisturbed` (`NeverDisturbed`), `CalmRoutes`
(`CalmReachesItsDistro`) and the type invariant for every instance, and
`RightDistro` under `OneNamed` (one distro asked for by name, no picked ports, no
unit in another's place). The invariant `PortInv` says that a port without a
listener has no connections, that at the base port are hosts that picked it and
hosts of the default distro, and that no daemon is there but the default distro's
and those put there by hand. `RouteInv` adds that no other port ever has the
default distro. What `RightDistro` needs beyond is that two distros asked for by
name do not meet, which is what the code does not ensure.

`CalmRoutes` needs no hypothesis on the instance. The invariant `CalmInv` carries
what a scan saw to the moment the script binds: while a calm host is busy no other
is, and no script but its own may still bind (`CalmAlone`), so the port it has come
to is free or its distro's from the probe to the bind (`CalmOffered`), and once it
is connected there the owner stays as long as the connection (`CalmScans`). That
the calm hosts are alone is kept by what `Begins` takes out of `calm`. Both
exceptions are needed: without one of them TLC finds a host with another distro's
daemon.

`PaneViewProofs` proves `ViewTypeOK` (`ViewTypeCorrect`), `PinnedView`
(`ViewsStayPinned`) and that no wake-up is lost (`NoWakeUpLost`), for any
number of panes and any bounds. The invariant `ViewInv` (`ViewsConsistent`) has
three parts: replies asked for by programs are with the feed thread's batch, in
the outbox or sent; what lists and views hold lies within the ring; a promised
line lies where the last tick left the view. `Awaited` is the safety half of
`OutputServed`: while a reply is in an outbox or a line is not drawn, a
`Redraw` is posted, its handler is at work or the feed thread has yet to poke
(for a line, a batch or a wanted frame will do).

`WinTabsProofs` proves `TabsTypeOK` (`TabsTypeCorrect`), `RegistryIsPanes`
(`RegistryCorrect`), `PanesFit` (`GridsCorrect`) and `PanesTile`
(`PanesAlwaysTile`), for any number of windows and sessions and windows and
cells of any size. An event is a chain of calls
(`CloseSession` removes, drops and reflows, then `reconcile` adopts and closes),
and between two of them the three properties do not hold: a pane has gone whose
session is still registered, a moved tab is in no window. So the invariant is stated
of a record of windows and sessions and of what is under way: `World(a, X, Z, E)`
says that layouts are trees, that no session is in two tabs, and that the registry
has the sessions of the panes, those of a tab on its way (`X`) and those whose
pane has gone (`Z`), each running or with its exit in `E`. `Good` is `World` with
nothing under way, every pane with its grid (`Fit`) and no window left without
tabs that is not closing (`Tidy`). One lemma per operator says how it carries
`World` to `World` or `Good` (`Shed`, `Dropped`, `Settled`, `PaneGone`, `Adopted`,
`Swept`, `Reconciled`, ...), one per event that it ends in `TabsInv`, which is
`Good` with every window open and in use (`TabsInvariant`). Below them are the
lemmas about trees: `SplitIsTree`, `ResizeIsTree` and `RemoveIsTree`, which needs
that raising the sibling's subtree can be undone (`LoweredRaised`) and leaves
every other node where it is (`RaisedOut`).

`PanesTile` needs of the invariant that a tree has finitely many splits with
ratios in range (`Splits`, part of `Tree`); the rest is about one tree and one area
(`TreeTiles`). The rectangle of a node is a fold along its path, a child's one half
of its parent's (`NodeRects`), and the halves of a split are apart, with a divider
between them (`HalvesApart`). Two leaves part at some split (`LeavesPart`),
so they do not overlap (`LeavesApart`). A pixel in no leaf is in the divider of
some split (`PaneOrDivider`): else the tree would have a node of every length
that holds it, and there are finitely many (`NotEveryLength`). The pixels lost are
then at most those of all dividers together (`GapBound`, `UnionBound`).

`SessionExit` asks the windows that have the session. The code asks all of them
in turn; by `TabsInv` at most one of them has the pane and one the settings, so
the loop does the same. The model states it without the loop, as one step.

`FoldLaw` is about folds in general, since the parser is a fold over bytes and
the screen folds over lines and codes. The operator is a constant of the module
and a proof about one fold instantiates it; induction is over a set of numbers
that has 0 and every successor, from the well-foundedness of `<`. `FoldTrace`
says that a fold has a trace of values, the first the base, each next one the
operator's, the last the fold; `FoldKeeps` that what the base has and each step
keeps, the fold has; `FoldCut` that a sequence folded is its beginning folded,
then its end; `FoldPrefix` and `FoldStep` that the trace is the fold of every
beginning, each one step of the operator after the last. They are lemmas: they
say nothing of this program, the proofs about the terminal do.

`VtTerminalProofs` proves `TerminalTypeOK` (`TerminalTyped`), `CombosOwned`
(`CombosStayOwned`), `Resyncs` (`TerminatorResyncs`), `SearchExact`
(`SearchStaysExact`), `ChunksDoNotMatter` (`CutsDoNotMatter`), `HistoryGrows`
(`HistoryAlwaysGrows`), `AltIsolated` (`AltAlwaysIsolated`), `PenIsSgr`
(`PenOnlySgr`) and `PromptFollowsLine` (`PromptsAlwaysFollow`), for every size of screen, history and integers, any set of
chunks of any length, any prologues and any sizes of window; `VtAssumption` and
`ScreenAssumption` say only that these are what their names say. The invariant is
`Well` (`VtInvHolds`), which the prologues reach and every byte and resize keeps:

* `TerminalTypeOK` is not inductive. The next byte needs that cells have a number
  for their marks, that the saved cursor has numbers, that lists are lists and
  records have their fields (`ScreenGood`), and that of a character begun the
  model knows what it will be (`Reading`). A saved cursor need not be on the
  screen: restoring clamps it, and after a resize it may be outside.
* `CombosOwned` needs of `Well` the bounds, and is kept by operations that move
  cells for different reasons. Only `Combine` makes a mark and only a reset empties
  the pool, which is safe because the reset has left the alternate screen and
  blanks grid and history; marks left on the alternate grid under the primary one
  are no live cells, and are erased when that screen is taken. Every other
  operation moves cells, copies none twice and drops some: `Fine` is proved of
  each by a map from the places of the new screen (`Places`) to those of the old
  one, injective on the marked cells (`Carried`); the rows that `PushTop` puts in
  the ring are those `ShiftUp` takes off the grid. `ScreenProofs` has one lemma
  per operation.
* `Resyncs` follows state by state from `Well` and what ESC and the backslash do
  in each of the eight.
* `ChunksDoNotMatter` is about two terminals: the one that got the whole chunk and
  the one whose sinks were drained at the cut. They agree in everything but what
  the sinks have collected (`Echo`), each byte keeps that, and so what both hold
  after the last drain is the same; `FoldCut` puts the two halves together. That the
  strings being read are bytes (`Pure`), none of them the model's mark for "nothing
  reported" (`IsOutput`), is part of what is kept.

* `SearchExact` has two folds, and what is shown of them holds of a line wherever
  it is kept. The columns with text are listed in order, each
  once (`Ordered`), so what a match covers has as many characters as the needle,
  counted by a bijection (`FoundIsWhole`, `WholeIsHit`). The scan keeps `Scanned`: what
  was found is the needle, nothing found overlaps, whatever begins before the next
  position to be tried is covered by a find, and the last find ends just before it.
* `HistoryGrows`, `AltIsolated`, `PenIsSgr` and `PromptFollowsLine` compare the
  terminal before a byte with the one after it. A chunk is a fold, so by
  `FoldStep` every byte is one step from a terminal that has `Well` (`VtBytes`). Each
  operation of the screen has one of a few effects (`Effect`): it leaves history
  and the covered grid alone (`Quiet`), pushes lines off the top in order (`Rolled`,
  which composes: `RolledTwice`), clears the history, switches the screen or resets.
  Every handler of the parser has an `Effect`, and touches the pen only as `SetsPen`
  allows (`Does`, `ParseByteDoes`). What the properties say then follows of an
  effect, whatever the byte: `EffectGrown`, with the ring as the end of the log
  (`LogEndGrown`); `EffectIsolated`; and `EffectFollows`, which needs that marks
  have numbers of lines (`Numbered`, part of `Marks`) and that pruning them keeps
  those that are still there (`RetainedHas`, `MarksHeld`).

The four properties are stated of every byte, not of the chunk as a whole: between
the ends of a chunk a program may take the alternate screen, draw, and leave it,
and only the bytes say what it did there.

Every invariant and every action property of a passing run is proved, and
`RightDistro` under `OneNamed`. Model-checked only: the liveness properties
(`CloseReaps`, `ExitClosesPane`, `QuitEnds`, `LossEnds`, `Answered`, `ComesUp`,
`OutputServed`), which are outside the reach of the prover.

## 6. Plan

1. *(done)* the session core above.
2. *(done)* the listener and the bring-up.
3. *(done)* `FeedUi` and `PaneView`: redraw hand-off and views.
4. *(done)* `PaneLayout` and `WinTabs`: windows, tabs and splits.
5. *(done)* `Screen` and `VtTerminal`: the terminal.
6. *(done)* proofs about the core: panes, shells, output, the refinement.
7. *(done)* proofs about `PaneView`: types, pinned views, wake-ups.
8. *(done)* proofs about `WinTabs`: trees, registry, grids.
9. *(done)* `FoldLaw`, and proofs about the terminal: bounds, combining marks,
   terminators, chunks.
10. *(done)* `SearchExact` and `PanesTile` by invariants of their folds.
11. *(done)* what every byte does to history, screens, pen and marks.
12. *(done)* the routing of a host whose bring-up meets no other.

## 7. Findings

* `fed`: `open_session` registers a terminal only after `mux.open` wrote the
  OPEN; the feed thread silently drops output it cannot route. In the model the
  shell's first chunk can be lost that way. The window is short in practice (a
  fork and a login shell against one mutex), nothing in the code closes it.
* `bringup_route`: two processes for different named distros find the same port
  free. Both start a daemon on it, one binds, and `connect_or_bootstrap` polls
  the port without looking at the name again: a window of one distro shows the
  other. The comment at `main.rs` 4283 rules that out.
* `rows`: lines in the history keep the width they were written with. After a
  resize `copy_viewport` returns rows of that width (its comment at `screen.rs`
  743 says rows x cols), and the queries that take the columns from `cols`
  (`search`, `word_span`, `url_at`, `get_text`) index past the end of a line
  that is shorter, which aborts.
* `range`: `tab_bar_click` stores the number of a chip of the last frame in
  `active_term`. When tabs have closed since, the next event that asks for the
  focused pane before a frame aborts. `render` repairs the index
  "defensively" (`main.rs` 2684), too late for that.
* `listener_accepted`: the comment at `wslptyd.c` 394 says the count comes before
  the fork because of the race with `SIGCHLD`; the race is still there between
  `accept` and the count. When the last child is reaped there, the listener exits
  and the connection it has just accepted is closed.

Consequences the models contain and no run checks. Of the back end:

* `feed_stdin` writes to a PTY master with blocking writes. When a program
  answers what it reads and its output is not being taken, both queues of the
  PTY are full, the child blocks in `writen` and does not notice any more that
  its host has gone (`HostGoneTearsDown`: one session, `Filter = TRUE`,
  `MaxIn = 3`). `wslptyd.c` 333 and `native/README.md` 94 promise that nothing
  lingers.
* `g_active++` loads and stores. A child reaped in between is counted down in
  vain, the count stays one too high, and the listener never sees zero again
  (`NothingLingers`, three connections; `NothingStays` of `BringUp`, three hosts
  that come up one at a time). `native/README.md` 94 promises the opposite.
* A daemon leaves when its first connection ends, also when that was another
  host's probe, while the host that started it is polling for it
  (`LeavesNobody`, two hosts at once). That host then waits for 15 seconds and
  falls back to the pipe.
* When the whole range answers for others, the scan ends one past it
  (`main.rs` 4323) and that port is used without a probe, so a fourth distro
  can be shown the daemon of another.
* A listener leaves only when it reaps a child. One that binds after its host
  was served by another daemon and has gone is never connected to, and stays
  (`NothingStays` again); this needs two bring-ups that cross.
* `--port` takes any number, 5523 too, and with a `--distro` beside it the daemon of
  that distro is started on the base port, which `main.rs` 4286 says is reserved
  for the default one (`BaseIsDefault`); a window of the default distro then shows
  the other.
* `cleanup_and_exit` closes the port before it unlinks the staged binary, so a
  bootstrap can lose its copy between `cp` and `exec` to a listener that is
  leaving (`CleanUp`); the host then falls back to the pipe, which `ComesUp`
  allows.

Of the windows:

* The reload of the settings hangs on `settings_session` of one window. It is
  missed in three ways: the editor's tab is closed whole (chip or menu), its tab
  was moved to another window, or the settings were opened twice, which forgets
  the first editor.
* A tab menu keeps the number of its tab, a middle click takes that of an old
  chip: after another tab closed, either acts on the tab that has the number
  now.
* When a tab before the active one goes, `active_term` keeps its number, so the
  window shows the next tab.

Of the views:

* The feed thread's inner loop ends only when the channel is empty. Output that
  never pauses (a flood faster than the terminal) keeps replies and redraws
  back.
* A scroll by the user between output and the tick of that output counts from
  the new end of the history; the tick then moves the view by that output
  again, and a frame in between shows it jump.
* Any button's release takes the press that was reported last. With two buttons
  held the first release ends both, and a left release then goes to the
  selection.
* A selection being made in a pane that loses the focus keeps `selecting`, as
  the release clears it in the pane that has the focus then.
* Matches of a search are line numbers of the history; when the ring drops
  lines they point further down.
* ED 3 empties the history and leaves a view's offset beyond it until the next
  scroll or output clamps it.

Of the terminal:

* `full_reset` in the alternate screen homes the cursor and resets the pen
  before it leaves that screen, and leaving restores those saved on entry.
* A cell written over, inserted before or erased through one half of a wide
  glyph leaves the other half behind.

## 8. Not modelled

Rendering (`gpu.rs`, `layered.rs`, `background.rs`, fonts and glyph caches) is
output only; what a frame leaves for later events is in `WinTabs` and
`PaneView`. Settings are parsed into a record without interaction; that their
reload reflows a window is in `WinTabs`. The file sidebar and `wslfiles.rs` are
directory listings; only the sidebar's width matters to the rest. The clipboard
is a call to the system. Of the screen, `get_text` and `url_at` are queries for
text, and colours and flags of cells are copied from the pen, which is
modelled. The byte sequences of keys and mouse reports (`input.rs`) are tables.
`wslpty.c` is a diagnostics helper the terminal does not start. How `wslptyd`
finds its distro's name (`detect_distro_name`) is left out: a daemon that fails
to is to a scan like one of another distro. Build scripts, the registry file and
the shell integration script are outside the program. The `Doc` editor of
`main.rs` is dead code: nothing creates a `Doc`, and document tabs are left out
with it.
