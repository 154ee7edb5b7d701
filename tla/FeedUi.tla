------------------------------- MODULE FeedUi -------------------------------
(***************************************************************************)
(* The feed thread and the UI thread of wslterm over the panes' terminals  *)
(* (spawn_feed_thread, user_event and about_to_wait of wslterm/src/main.rs)*)
(*                                                                         *)
(* The feed thread drains its channel into the terminals, hands the        *)
(* replies they made to the outbox and posts one Redraw for many batches.  *)
(* A terminal is what its owner reads of it: how many lines it has ever    *)
(* scrolled, how many of them its ring holds, its screen, its mouse mode   *)
(* and how many replies it was asked for.                                  *)
(***************************************************************************)
EXTENDS Naturals, Sequences

CONSTANTS
    Pane,
    Ring,       \* capacity of the scrollback ring
    Chunks,     \* <<pane, kind>> the sessions may print
    MaxOut      \* bound of the model: chunks printed

Tracking == {"X10", "Normal", "ButtonEvent", "AnyEvent"}
Scrolls == [line |-> 1, lines |-> 2]   \* lines a chunk scrolls
Kinds == DOMAIN Scrolls \cup {"clear", "query", "alt", "main", "None"} \cup Tracking

ASSUME FeedUiAssumption ==
    Ring \in Nat \ {0} /\ MaxOut \in Nat /\ Chunks \subseteq Pane \X Kinds

VARIABLES
    term,       \* the shared terminals
    chan,       \* MuxEvents the feed thread has not received
    made,       \* chunks printed so far
    feed,       \* "recv", "batch" or "poke": where the feed thread is
    resp,       \* replies of the batch, per pane
    outbox,     \* replies handed over
    pending,    \* redraw_pending
    posted,     \* Redraw events in the UI thread's queue
    ui,         \* "idle" between events, "redraw" inside the Redraw handler
    sent,       \* replies sent to the session
    frame,      \* a frame is wanted or was requested
    drawn       \* scrolled_total of the frame on the screen

feedVars == <<term, chan, made, feed, resp, outbox, pending, posted, ui, sent, frame, drawn>>

FeedTypeOK ==
    /\ term \in [Pane -> [total : 0 .. 2 * MaxOut, sbc : 0 .. Ring, alt : BOOLEAN,
                          mouse : Tracking \cup {"None"}, asked : 0 .. MaxOut]]
    /\ chan \in Seq(Chunks) /\ made \in 0 .. MaxOut /\ Len(chan) <= made
    /\ feed \in {"recv", "batch", "poke"} /\ ui \in {"idle", "redraw"}
    /\ \A f \in {resp, outbox, sent, drawn} : f \in [Pane -> 0 .. 2 * MaxOut]
    /\ pending \in BOOLEAN /\ frame \in BOOLEAN /\ posted \in 0 .. 1

FeedInit ==
    /\ term = [p \in Pane |-> [total |-> 0, sbc |-> 0, alt |-> FALSE,
                               mouse |-> "None", asked |-> 0]]
    /\ chan = <<>> /\ made = 0 /\ feed = "recv"
    /\ resp = [p \in Pane |-> 0] /\ outbox = resp /\ sent = resp /\ drawn = resp
    /\ pending = FALSE /\ posted = 0 /\ ui = "idle" /\ frame = FALSE

---------------------------------------------------------------------------
Least(a, b) == IF a <= b THEN a ELSE b

\* What Terminal::feed makes of a chunk: the alternate screen keeps no history,
\* ED 3 empties the ring and leaves scrolled_total alone.
Fed(t, kind) ==
    CASE kind \in DOMAIN Scrolls /\ ~t.alt ->
             [t EXCEPT !.total = @ + Scrolls[kind], !.sbc = Least(@ + Scrolls[kind], Ring)]
      [] kind \in DOMAIN Scrolls /\ t.alt -> t
      [] kind = "clear" -> [t EXCEPT !.sbc = 0]
      [] kind = "query" -> [t EXCEPT !.asked = @ + 1]
      [] kind \in {"alt", "main"} -> [t EXCEPT !.alt = (kind = "alt")]
      [] OTHER -> [t EXCEPT !.mouse = kind]

\* The mux reader queues what a session printed.
Output(c) ==
    /\ made < MaxOut
    /\ made' = made + 1 /\ chan' = Append(chan, c)
    /\ UNCHANGED <<term, feed, resp, outbox, pending, posted, ui, sent, frame, drawn>>

\* recv() for the first event of a batch, try_recv() for the others.
FeedTake ==
    /\ feed \in {"recv", "batch"} /\ chan # <<>>
    /\ LET p == Head(chan)[1]  kind == Head(chan)[2]
       IN  /\ term' = [term EXCEPT ![p] = Fed(@, kind)]
           /\ resp' = IF kind = "query" THEN [resp EXCEPT ![p] = @ + 1] ELSE resp
    /\ chan' = Tail(chan) /\ feed' = "batch"
    /\ UNCHANGED <<made, outbox, pending, posted, ui, sent, frame, drawn>>

\* try_recv() found the channel empty.
FeedFlush ==
    /\ feed = "batch" /\ chan = <<>>
    /\ outbox' = [p \in Pane |-> outbox[p] + resp[p]]
    /\ resp' = [p \in Pane |-> 0] /\ feed' = "poke"
    /\ UNCHANGED <<term, chan, made, pending, posted, ui, sent, frame, drawn>>

\* One Redraw is posted while pending is clear.
FeedPoke ==
    /\ feed = "poke"
    /\ pending' = TRUE /\ posted' = IF pending THEN posted ELSE posted + 1
    /\ feed' = "recv"
    /\ UNCHANGED <<term, chan, made, resp, outbox, ui, sent, frame, drawn>>

RedrawStartKeepsPending ==
    /\ ui = "idle" /\ posted > 0
    /\ posted' = posted - 1 /\ ui' = "redraw"
    /\ UNCHANGED <<term, chan, made, feed, resp, outbox, pending, sent, frame, drawn>>
\* The Redraw handler first clears the flag, ...
RedrawStart ==
    /\ ui = "idle" /\ posted > 0
    /\ posted' = posted - 1 /\ pending' = FALSE /\ ui' = "redraw"
    /\ UNCHANGED <<term, chan, made, feed, resp, outbox, sent, frame, drawn>>

\* ... then takes the outbox, sends it and ticks the windows, which want a frame.
RedrawFlush ==
    /\ ui = "redraw" /\ ui' = "idle"
    /\ sent' = [p \in Pane |-> sent[p] + outbox[p]]
    /\ outbox' = [p \in Pane |-> 0] /\ frame' = TRUE
    /\ UNCHANGED <<term, chan, made, feed, resp, pending, posted, drawn>>

\* about_to_wait() asks for the frame when its time has come.
Present ==
    /\ ui = "idle" /\ frame /\ frame' = FALSE
    /\ drawn' = [p \in Pane |-> term[p].total]
    /\ UNCHANGED <<term, chan, made, feed, resp, outbox, pending, posted, ui, sent>>

=============================================================================
