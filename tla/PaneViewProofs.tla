--------------------------- MODULE PaneViewProofs ---------------------------
(***************************************************************************)
(* Proofs about PaneView: the bounds of the views and of what the feed     *)
(* thread hands over, and that a scrolled-back view keeps its line.        *)
(***************************************************************************)
EXTENDS PaneView, TLAPS

Terms == [total : Nat, sbc : 0 .. Ring, alt : BOOLEAN,
          mouse : Tracking \cup {"None"}, asked : Nat]

(* A chunk that is queued has scrolled and asked nothing yet; a reply asked *)
(* for is with the batch, in the outbox or sent.                            *)
Balanced(p) ==
  /\ term[p].total <= 2 * (made - Len(chan)) /\ term[p].sbc <= term[p].total
  /\ term[p].asked = resp[p] + outbox[p] + sent[p] /\ term[p].asked <= made - Len(chan)
  /\ drawn[p] <= term[p].total

(* What the feed thread and the UI thread share; a Redraw in the queue has  *)
(* the flag set.                                                            *)
FeedInv ==
  /\ term \in [Pane -> Terms] /\ chan \in Seq(Chunks)
  /\ made \in 0 .. MaxOut /\ Len(chan) <= made
  /\ feed \in {"recv", "batch", "poke"} /\ ui \in {"idle", "redraw"}
  /\ resp \in [Pane -> Nat] /\ outbox \in [Pane -> Nat]
  /\ sent \in [Pane -> Nat] /\ drawn \in [Pane -> Nat]
  /\ pending \in BOOLEAN /\ frame \in BOOLEAN
  /\ posted \in 0 .. 1 /\ (posted = 1 => pending)
  /\ \A p \in Pane : Balanced(p)

Views == [off : 0 .. Ring, last : Nat, selecting : BOOLEAN, sel : BOOLEAN]
Searches == [n : Nat, current : Nat \ {0}, session : Pane]
Palettes == [items : Seq(STRING), current : Nat \ {0}]
Windows ==
  [pane : [Pane -> Views], focus : Pane, held : {NoButton} \cup (Button \X Pane),
   drag : Pane \cup {NoPane}, bars : [Pane -> 0 .. Ring],
   search : {Closed} \cup Searches, palette : {Closed} \cup Palettes]

(* A window whose selections exist and whose lists select one of theirs. *)
Sound(w) ==
  /\ w \in Windows
  /\ \A p \in Pane : w.pane[p].selecting => w.pane[p].sel
  /\ w.search # Closed => w.search.current \in 1 .. Most(w.search.n, 1)
  /\ w.palette # Closed => w.palette.current \in 1 .. Most(Len(w.palette.items), 1)

(* The last tick saw what the terminal had scrolled by then.  A promised    *)
(* top line lies where that tick left the view, and the ring holds all the  *)
(* view is scrolled back by.                                                *)
Pinned ==
  \A p \in Pane :
    /\ win.pane[p].last <= term[p].total
    /\ top[p] # NoLine =>
         /\ win.pane[p].off \in 1 .. term[p].sbc
         /\ top[p] = win.pane[p].last - win.pane[p].off

(* What is not served yet is on its way: a reply in the outbox or a line not *)
(* drawn has a Redraw posted or in progress, or a feed thread about to post  *)
(* one, and the flag is set exactly while a Redraw is in the queue.  A line  *)
(* may also wait for a frame already asked for.                              *)
Coming == feed = "poke" \/ posted = 1 \/ ui = "redraw"
Awaited ==
  /\ pending <=> posted = 1
  /\ \A p \in Pane :
       /\ resp[p] > 0 => feed = "batch"
       /\ outbox[p] > 0 => Coming
       /\ term[p].total # drawn[p] => Coming \/ feed = "batch" \/ frame

ViewInv ==
  /\ FeedInv /\ Sound(win) /\ Pinned
  /\ top \in [Pane -> Int] /\ \A p \in Pane : top[p] \in NoLine .. term[p].total
  /\ acts \in 0 .. MaxActs

(* A window a handler may leave: it is sound, and only a tick looks at what *)
(* the terminals have scrolled.                                             *)
Leaves(w) == Sound(w) /\ \A p \in Pane : w.pane[p].last = win.pane[p].last

\* The constants are numbers.
LEMMA Numbers ==
  /\ Ring \in Nat \ {0} /\ MaxOut \in Nat /\ Rows \in Nat \ {0} /\ Step \in Nat \ {0}
  /\ MaxHits \in Nat /\ MaxActs \in Nat
BY FeedUiAssumption, PaneViewAssumption

------------------------------------------------------------------------------
(* The feed thread and the UI thread. *)

\* What a chunk makes of a terminal: lines are only added, the ring holds no
\* more than was scrolled, and only a clear makes it hold less.
LEMMA FedBounds ==
  ASSUME NEW t \in Terms, NEW kind \in Kinds
  PROVE  /\ Fed(t, kind) \in Terms
         /\ Fed(t, kind).total \in t.total .. t.total + 2
         /\ t.sbc <= t.total => Fed(t, kind).sbc <= Fed(t, kind).total
         /\ kind # "clear" => t.sbc <= Fed(t, kind).sbc
         /\ Fed(t, kind).asked = IF kind = "query" THEN t.asked + 1 ELSE t.asked
<1>1. /\ t.total \in Nat /\ t.sbc \in 0 .. Ring /\ t.asked \in Nat /\ t.alt \in BOOLEAN
      /\ t.mouse \in Tracking \cup {"None"}
  BY DEF Terms
<1>2. DOMAIN Scrolls = {"line", "lines"} /\ Scrolls["line"] = 1 /\ Scrolls["lines"] = 2
  BY DEF Scrolls
<1>3. CASE kind \in DOMAIN Scrolls /\ ~t.alt
  <2> DEFINE n == Scrolls[kind]
  <2>1. n \in {1, 2} /\ kind # "clear" /\ kind # "query"
    BY <1>2, <1>3
  <2>2. Fed(t, kind) = [t EXCEPT !.total = @ + n, !.sbc = Least(@ + n, Ring)]
    BY <1>2, <1>3 DEF Fed
  <2> HIDE DEF n
  <2>3. Least(t.sbc + n, Ring) \in 0 .. Ring /\ t.total + n \in Nat
    BY <1>1, <2>1, Numbers DEF Least
  <2>4. Fed(t, kind) \in Terms
    BY <2>2, <2>3 DEF Terms
  <2>5. /\ Fed(t, kind).total = t.total + n /\ Fed(t, kind).sbc = Least(t.sbc + n, Ring)
        /\ Fed(t, kind).asked = t.asked
    BY <2>2 DEF Terms
  <2> QED BY <1>1, <2>1, <2>4, <2>5, Numbers DEF Least
<1>4. CASE kind \in DOMAIN Scrolls /\ t.alt
  <2>1. Fed(t, kind) = t /\ kind # "query"
    BY <1>2, <1>4 DEF Fed
  <2> QED BY <1>1, <2>1
<1>5. CASE kind = "clear"
  <2>1. Fed(t, kind) = [t EXCEPT !.sbc = 0]
    BY <1>2, <1>5 DEF Fed
  <2>2. Fed(t, kind) \in Terms /\ Fed(t, kind).total = t.total /\ Fed(t, kind).sbc = 0
        /\ Fed(t, kind).asked = t.asked
    <3>1. 0 \in 0 .. Ring
      BY Numbers
    <3> QED BY <2>1, <3>1 DEF Terms
  <2> QED BY <1>1, <1>5, <2>2
<1>6. CASE kind = "query"
  <2>1. Fed(t, kind) = [t EXCEPT !.asked = @ + 1]
    BY <1>2, <1>6 DEF Fed
  <2>2. Fed(t, kind) \in Terms /\ Fed(t, kind).total = t.total /\ Fed(t, kind).sbc = t.sbc
        /\ Fed(t, kind).asked = t.asked + 1
    BY <2>1, <1>1 DEF Terms
  <2> QED BY <1>1, <1>6, <2>2
<1>7. CASE kind \in {"alt", "main"}
  <2>1. Fed(t, kind) = [t EXCEPT !.alt = (kind = "alt")]
    BY <1>2, <1>7 DEF Fed
  <2>2. Fed(t, kind) \in Terms /\ Fed(t, kind).total = t.total /\ Fed(t, kind).sbc = t.sbc
        /\ Fed(t, kind).asked = t.asked
    BY <2>1, <1>1 DEF Terms
  <2> QED BY <1>1, <1>7, <2>2
<1>8. CASE kind \in Tracking \cup {"None"}
  <2>1. Fed(t, kind) = [t EXCEPT !.mouse = kind] /\ kind # "query"
    BY <1>2, <1>8 DEF Fed, Tracking
  <2>2. Fed(t, kind) \in Terms /\ Fed(t, kind).total = t.total /\ Fed(t, kind).sbc = t.sbc
        /\ Fed(t, kind).asked = t.asked
    BY <2>1, <1>1, <1>8 DEF Terms
  <2> QED BY <1>1, <2>1, <2>2
<1> QED BY <1>2, <1>3, <1>4, <1>5, <1>6, <1>7, <1>8 DEF Kinds

\* The counters of FeedInv as numbers, in one place.
LEMMA FeedTypes ==
  ASSUME FeedInv
  PROVE  /\ made \in Nat /\ Len(chan) \in Nat
         /\ \A p \in Pane :
              /\ term[p] \in Terms /\ term[p].total \in Nat /\ term[p].sbc \in 0 .. Ring
              /\ term[p].asked \in Nat
              /\ resp[p] \in Nat /\ outbox[p] \in Nat /\ sent[p] \in Nat /\ drawn[p] \in Nat
<1>1. \A p \in Pane : term[p] \in Terms
  BY DEF FeedInv
<1> QED BY <1>1 DEF FeedInv, Terms

\* The bounds of FeedTypeOK follow from what the counters have in common.
LEMMA FeedTyped == ASSUME FeedInv PROVE FeedTypeOK
<1>1. \A p \in Pane :
        /\ term[p].total \in 0 .. 2 * MaxOut /\ term[p].asked \in 0 .. MaxOut
        /\ resp[p] \in 0 .. 2 * MaxOut /\ outbox[p] \in 0 .. 2 * MaxOut
        /\ sent[p] \in 0 .. 2 * MaxOut /\ drawn[p] \in 0 .. 2 * MaxOut
  <2> TAKE p \in Pane
  <2>1. made \in 0 .. MaxOut /\ Len(chan) <= made /\ Balanced(p)
    BY DEF FeedInv
  <2>2. /\ Len(chan) \in Nat /\ term[p].total \in Nat /\ term[p].asked \in Nat
        /\ resp[p] \in Nat /\ outbox[p] \in Nat /\ sent[p] \in Nat /\ drawn[p] \in Nat
    BY FeedTypes
  <2>3. 2 * (made - Len(chan)) <= 2 * MaxOut /\ made - Len(chan) <= MaxOut
        /\ made - Len(chan) \in Int
    BY <2>1, <2>2, Numbers
  <2>4. term[p].total <= 2 * MaxOut /\ term[p].asked <= MaxOut
    BY <2>1, <2>2, <2>3, Numbers DEF Balanced
  <2>5. resp[p] <= MaxOut /\ outbox[p] <= MaxOut /\ sent[p] <= MaxOut /\ drawn[p] <= 2 * MaxOut
    BY SMTT(20), <2>1, <2>2, <2>4, Numbers DEF Balanced
  <2> QED BY <2>2, <2>4, <2>5, Numbers
<1>2. \A p \in Pane : term[p] \in [total : 0 .. 2 * MaxOut, sbc : 0 .. Ring, alt : BOOLEAN,
                                   mouse : Tracking \cup {"None"}, asked : 0 .. MaxOut]
  BY <1>1, FeedTypes DEF Terms
<1>3. /\ resp \in [Pane -> 0 .. 2 * MaxOut] /\ outbox \in [Pane -> 0 .. 2 * MaxOut]
      /\ sent \in [Pane -> 0 .. 2 * MaxOut] /\ drawn \in [Pane -> 0 .. 2 * MaxOut]
  BY <1>1 DEF FeedInv
<1> QED BY <1>2, <1>3 DEF FeedInv, FeedTypeOK

\* What the feed thread and the UI thread share is consistent at the start ...
LEMMA FeedStart == ASSUME FeedInit PROVE FeedInv
<1>1. chan \in Seq(Chunks) /\ Len(chan) = 0 /\ made = 0 /\ made \in 0 .. MaxOut
  BY Numbers DEF FeedInit
<1>2. /\ term \in [Pane -> Terms] /\ resp \in [Pane -> Nat] /\ outbox \in [Pane -> Nat]
      /\ sent \in [Pane -> Nat] /\ drawn \in [Pane -> Nat]
  BY Numbers DEF FeedInit, Terms
<1>3. \A p \in Pane : /\ term[p].total = 0 /\ term[p].sbc = 0 /\ term[p].asked = 0
                      /\ resp[p] = 0 /\ outbox[p] = 0 /\ sent[p] = 0 /\ drawn[p] = 0
  BY DEF FeedInit
<1>4. /\ feed = "recv" /\ ui = "idle" /\ pending = FALSE /\ frame = FALSE /\ posted = 0
  BY DEF FeedInit
<1>5. \A p \in Pane : Balanced(p)
  <2>1. 0 <= 2 * (made - Len(chan)) /\ 0 <= made - Len(chan)
    BY <1>1
  <2> TAKE p \in Pane
  <2>2. /\ term[p].total = 0 /\ term[p].sbc = 0 /\ term[p].asked = 0
        /\ resp[p] = 0 /\ outbox[p] = 0 /\ sent[p] = 0 /\ drawn[p] = 0
    BY <1>3
  <2> QED BY <2>1, <2>2 DEF Balanced
<1>6. posted \in 0 .. 1 /\ posted # 1
  BY <1>4
<1>7. pending \in BOOLEAN /\ frame \in BOOLEAN
  BY <1>4, Zenon
<1> QED BY <1>1, <1>2, <1>4, <1>5, <1>6, <1>7 DEF FeedInv

\* ... and after every step of the feed thread, a session's output and the
\* UI thread's Redraw and frames.
LEMMA FeedStep ==
  ASSUME FeedInv,
         \/ \E c \in Chunks : Output(c)
         \/ FeedTake \/ FeedFlush \/ FeedPoke
         \/ RedrawStart \/ RedrawFlush \/ Present
  PROVE  FeedInv'
<1>t. /\ term \in [Pane -> Terms] /\ made \in Nat /\ chan \in Seq(Chunks)
      /\ Len(chan) \in Nat /\ Len(chan) <= made /\ made <= MaxOut
      /\ resp \in [Pane -> Nat] /\ outbox \in [Pane -> Nat]
      /\ sent \in [Pane -> Nat] /\ drawn \in [Pane -> Nat]
  BY FeedTypes, Numbers DEF FeedInv
<1>p. \A p \in Pane :
        /\ term[p] \in Terms /\ term[p].total \in Nat /\ term[p].sbc \in 0 .. Ring
        /\ term[p].asked \in Nat
        /\ resp[p] \in Nat /\ outbox[p] \in Nat /\ sent[p] \in Nat /\ drawn[p] \in Nat
  BY FeedTypes
<1>f. /\ feed \in {"recv", "batch", "poke"} /\ ui \in {"idle", "redraw"}
      /\ pending \in BOOLEAN /\ frame \in BOOLEAN /\ posted \in 0 .. 1
      /\ posted = 1 => pending
  BY DEF FeedInv
<1>c. \A p \in Pane : Balanced(p)
  BY DEF FeedInv
<1>1. CASE \E c \in Chunks : Output(c)
  <2> PICK c \in Chunks : Output(c)
    BY <1>1
  <2>1. /\ made < MaxOut /\ made' = made + 1 /\ chan' = Append(chan, c)
        /\ UNCHANGED <<term, feed, resp, outbox, pending, posted, ui, sent, frame, drawn>>
    BY DEF Output
  <2>2. chan' \in Seq(Chunks) /\ Len(chan') = Len(chan) + 1
    BY <1>t, <2>1
  <2>3. \A p \in Pane : Balanced(p)'
    BY <1>t, <1>c, <2>1, <2>2 DEF Balanced
  <2>4. made' \in 0 .. MaxOut /\ Len(chan') <= made'
    BY <1>t, <2>1, <2>2, Numbers
  <2> QED BY <1>t, <1>f, <2>1, <2>2, <2>3, <2>4 DEF FeedInv
<1>2. CASE FeedTake
  <2>0. chan # <<>> /\ chan' = Tail(chan)
    BY <1>2 DEF FeedTake
  <2>1. Head(chan) \in Chunks /\ chan' \in Seq(Chunks) /\ Len(chan') = Len(chan) - 1
    BY <1>t, <2>0
  <2>b. PICK p \in Pane, kind \in Kinds : p = Head(chan)[1] /\ kind = Head(chan)[2]
    BY <2>1, FeedUiAssumption
  <2>2. p \in Pane /\ kind \in Kinds
    OBVIOUS
  <2>3. /\ term' = [term EXCEPT ![p] = Fed(@, kind)]
        /\ resp' = (IF kind = "query" THEN [resp EXCEPT ![p] = @ + 1] ELSE resp)
        /\ feed' = "batch"
        /\ UNCHANGED <<made, outbox, pending, posted, ui, sent, frame, drawn>>
    BY <1>2, <2>b DEF FeedTake
  <2> DEFINE t == Fed(term[p], kind)
  <2>a. term[p].sbc <= term[p].total
    BY <1>c, <2>2 DEF Balanced
  <2>4. /\ t \in Terms /\ t.total \in term[p].total .. term[p].total + 2
        /\ t.sbc <= t.total
        /\ t.asked = IF kind = "query" THEN term[p].asked + 1 ELSE term[p].asked
    BY <1>p, <2>2, <2>a, FedBounds
  <2>6. \A q \in Pane : q # p => term'[q] = term[q] /\ resp'[q] = resp[q]
    BY <1>t, <2>3
  <2>7. /\ term'[p] = t
        /\ resp'[p] = IF kind = "query" THEN resp[p] + 1 ELSE resp[p]
    BY <1>t, <2>2, <2>3
  <2>5. term' \in [Pane -> Terms] /\ resp' \in [Pane -> Nat]
    <3> HIDE DEF t
    <3>1. term' = [term EXCEPT ![p] = t]
      BY <2>3 DEF t
    <3>2. resp[p] + 1 \in Nat
      BY <1>p, <2>2
    <3> QED BY <1>t, <2>2, <2>3, <2>4, <3>1, <3>2
  <2> HIDE DEF t
  <2>8. Balanced(p)'
    <3>1. Balanced(p) /\ term[p].total \in Nat /\ term[p].asked \in Nat
          /\ resp[p] \in Nat /\ outbox[p] \in Nat /\ sent[p] \in Nat /\ drawn[p] \in Nat
      BY <1>p, <1>c, <2>2
    <3>2. /\ t.total <= 2 * (made - Len(chan')) /\ t.asked <= made - Len(chan')
          /\ drawn[p] <= t.total
      <4> DEFINE a == made - Len(chan)
                 b == made - Len(chan')
                 u == term[p].total
                 v == term[p].asked
      <4>1. a \in Int /\ b = a + 1
        BY <1>t, <2>1
      <4>2. /\ t.total \in Nat /\ t.asked \in Nat /\ u \in Nat /\ v \in Nat
        BY <2>4, <3>1 DEF Terms
      <4>3. u <= 2 * a /\ v <= a /\ drawn[p] <= u
        BY <3>1 DEF Balanced
      <4>4. t.total <= u + 2 /\ u <= t.total /\ t.asked <= v + 1
        BY <2>4, <4>2
      <4> HIDE DEF a, b, u, v
      <4>5. t.total <= 2 * b /\ t.asked <= b /\ drawn[p] <= t.total
        BY <3>1, <4>1, <4>2, <4>3, <4>4
      <4> QED BY <4>5 DEF b
    <3>3. t.asked = resp'[p] + outbox[p] + sent[p]
      <4>1. term[p].asked = resp[p] + outbox[p] + sent[p]
        BY <3>1 DEF Balanced
      <4> QED BY <2>4, <2>7, <3>1, <4>1
    <3>4. /\ made' = made /\ outbox' = outbox /\ sent' = sent /\ drawn' = drawn
      BY <2>3
    <3> QED BY <2>4, <2>7, <3>2, <3>3, <3>4 DEF Balanced
  <2>9. \A q \in Pane : q # p => Balanced(q)'
    <3> SUFFICES ASSUME NEW q \in Pane, q # p PROVE Balanced(q)'
      OBVIOUS
    <3>1. term[q].total \in Nat /\ term[q].asked \in Nat /\ Balanced(q)
      BY <1>p, <1>c
    <3>2. 2 * (made - Len(chan)) <= 2 * (made - Len(chan'))
          /\ made - Len(chan) <= made - Len(chan')
          /\ made - Len(chan) \in Int /\ made - Len(chan') \in Int
      BY <1>t, <2>1
    <3>3. term[q].total <= 2 * (made - Len(chan')) /\ term[q].asked <= made - Len(chan')
      BY <3>1, <3>2 DEF Balanced
    <3> QED BY <2>3, <2>6, <3>1, <3>3 DEF Balanced
  <2>10. \A q \in Pane : Balanced(q)'
    <3> SUFFICES ASSUME NEW q \in Pane PROVE Balanced(q)'
      OBVIOUS
    <3>1. CASE q = p
      BY <2>8, <3>1 DEF Balanced
    <3> QED BY <2>9, <3>1
  <2>11. made' \in 0 .. MaxOut /\ Len(chan') <= made'
    BY <1>t, <2>1, <2>3, Numbers
  <2> QED BY <1>t, <1>f, <2>1, <2>3, <2>5, <2>10, <2>11 DEF FeedInv
<1>m. made \in 0 .. MaxOut
  BY DEF FeedInv
<1>3. CASE FeedFlush
  <2>1. /\ outbox' = [p \in Pane |-> outbox[p] + resp[p]] /\ resp' = [p \in Pane |-> 0]
        /\ feed' = "poke"
        /\ UNCHANGED <<term, chan, made, pending, posted, ui, sent, frame, drawn>>
    BY <1>3 DEF FeedFlush
  <2>2. outbox' \in [Pane -> Nat] /\ resp' \in [Pane -> Nat]
    BY <1>p, <2>1
  <2>3. \A p \in Pane : Balanced(p)'
    <3> TAKE p \in Pane
    <3>1. outbox'[p] = outbox[p] + resp[p] /\ resp'[p] = 0 /\ Balanced(p)
          /\ resp[p] \in Nat /\ outbox[p] \in Nat /\ sent[p] \in Nat
      BY <1>p, <1>c, <2>1
    <3> QED BY <2>1, <3>1 DEF Balanced
  <2> QED BY <1>t, <1>f, <1>m, <2>1, <2>2, <2>3 DEF FeedInv
<1>4. CASE FeedPoke
  <2>1. /\ pending' = TRUE /\ posted' = (IF pending THEN posted ELSE posted + 1)
        /\ feed' = "recv"
        /\ UNCHANGED <<term, chan, made, resp, outbox, ui, sent, frame, drawn>>
    BY <1>4 DEF FeedPoke
  <2>2. posted' \in 0 .. 1
    BY <1>f, <2>1
  <2>3. \A p \in Pane : Balanced(p)'
    BY <1>c, <2>1 DEF Balanced
  <2> QED BY <1>t, <1>f, <1>m, <2>1, <2>2, <2>3 DEF FeedInv
<1>5. CASE RedrawStart
  <2>1. /\ posted > 0 /\ posted' = posted - 1 /\ pending' = FALSE /\ ui' = "redraw"
        /\ UNCHANGED <<term, chan, made, feed, resp, outbox, sent, frame, drawn>>
    BY <1>5 DEF RedrawStart
  <2>2. posted' \in 0 .. 1 /\ posted' # 1
    BY <1>f, <2>1
  <2>4. pending' \in BOOLEAN
    BY <2>1, Zenon
  <2>3. \A p \in Pane : Balanced(p)'
    BY <1>c, <2>1 DEF Balanced
  <2> QED BY <1>t, <1>f, <1>m, <2>1, <2>2, <2>3, <2>4 DEF FeedInv
<1>6. CASE RedrawFlush
  <2>1. /\ sent' = [p \in Pane |-> sent[p] + outbox[p]] /\ outbox' = [p \in Pane |-> 0]
        /\ frame' = TRUE /\ ui' = "idle"
        /\ UNCHANGED <<term, chan, made, feed, resp, pending, posted, drawn>>
    BY <1>6 DEF RedrawFlush
  <2>2. sent' \in [Pane -> Nat] /\ outbox' \in [Pane -> Nat]
    BY <1>p, <2>1
  <2>3. \A p \in Pane : Balanced(p)'
    <3> TAKE p \in Pane
    <3>1. sent'[p] = sent[p] + outbox[p] /\ outbox'[p] = 0 /\ Balanced(p)
          /\ resp[p] \in Nat /\ outbox[p] \in Nat /\ sent[p] \in Nat
      BY <1>p, <1>c, <2>1
    <3> QED BY <2>1, <3>1 DEF Balanced
  <2> QED BY <1>t, <1>f, <1>m, <2>1, <2>2, <2>3 DEF FeedInv
<1>7. CASE Present
  <2>1. /\ drawn' = [p \in Pane |-> term[p].total] /\ frame' = FALSE
        /\ UNCHANGED <<term, chan, made, feed, resp, outbox, pending, posted, ui, sent>>
    BY <1>7 DEF Present
  <2>2. drawn' \in [Pane -> Nat] /\ \A p \in Pane : drawn'[p] = term[p].total
    BY <1>p, <2>1
  <2>3. \A p \in Pane : Balanced(p)'
    <3> TAKE p \in Pane
    <3>1. drawn'[p] = term[p].total /\ Balanced(p) /\ term[p].total \in Nat
      BY <1>p, <1>c, <2>1
    <3> QED BY <2>1, <3>1 DEF Balanced
  <2> QED BY <1>t, <1>f, <1>m, <2>1, <2>2, <2>3 DEF FeedInv
<1> QED BY <1>1, <1>2, <1>3, <1>4, <1>5, <1>6, <1>7

------------------------------------------------------------------------------
(* Handlers. *)

\* A step that leaves the terminals and the queues between the threads alone
\* leaves what they share consistent.
LEMMA FeedSame ==
  ASSUME FeedInv, frame' \in BOOLEAN,
         UNCHANGED <<term, chan, made, feed, resp, outbox, pending, posted, ui, sent, drawn>>
  PROVE  FeedInv'
<1>1. \A p \in Pane : Balanced(p)'
  BY DEF FeedInv, Balanced
<1> QED BY <1>1 DEF FeedInv

\* The fields of a sound window.
LEMMA Fields ==
  ASSUME NEW w, Sound(w)
  PROVE  /\ w.pane \in [Pane -> Views] /\ w.focus \in Pane
         /\ w.held \in {NoButton} \cup (Button \X Pane) /\ w.drag \in Pane \cup {NoPane}
         /\ w.bars \in [Pane -> 0 .. Ring]
         /\ w.search \in {Closed} \cup Searches /\ w.palette \in {Closed} \cup Palettes
         /\ \A p \in Pane : /\ w.pane[p] \in Views /\ w.pane[p].off \in 0 .. Ring
                            /\ w.pane[p].last \in Nat
                            /\ w.pane[p].selecting \in BOOLEAN /\ w.pane[p].sel \in BOOLEAN
                            /\ w.bars[p] \in 0 .. Ring
<1>1. /\ w.pane \in [Pane -> Views] /\ w.focus \in Pane
      /\ w.held \in {NoButton} \cup (Button \X Pane) /\ w.drag \in Pane \cup {NoPane}
      /\ w.bars \in [Pane -> 0 .. Ring]
      /\ w.search \in {Closed} \cup Searches /\ w.palette \in {Closed} \cup Palettes
  BY DEF Sound, Windows
<1>2. \A p \in Pane : w.pane[p] \in Views
  BY <1>1
<1> QED BY <1>1, <1>2 DEF Views

\* A handler that leaves such a window keeps the invariant: where it moved a
\* view, the new promise is made from what the last tick saw.
LEMMA HandledStep ==
  ASSUME ViewInv, NEW w, Leaves(w), NEW redraw, Handled(w, redraw)
  PROVE  ViewInv'
<1>1. /\ acts < MaxActs /\ acts' = acts + 1 /\ win' = w
      /\ top' = [p \in Pane |-> Promised(w, p)]
      /\ frame' = (frame \/ redraw)
      /\ UNCHANGED <<term, chan, made, feed, resp, outbox, pending, posted, ui, sent, drawn>>
  BY DEF Handled
<1>2. frame' \in BOOLEAN
  BY <1>1, Zenon
<1>3. FeedInv'
  BY <1>1, <1>2, FeedSame DEF ViewInv
<1>4. Sound(win)'
  BY <1>1 DEF Leaves, Sound
<1>5. \A p \in Pane :
        /\ Promised(w, p) \in NoLine .. term[p].total
        /\ w.pane[p].last <= term[p].total
        /\ Promised(w, p) # NoLine =>
             /\ w.pane[p].off \in 1 .. term[p].sbc
             /\ Promised(w, p) = w.pane[p].last - w.pane[p].off
  <2> TAKE p \in Pane
  <2>1. /\ term[p].total \in Nat /\ term[p].sbc \in 0 .. Ring /\ term[p].sbc <= term[p].total
    BY FeedTypes DEF ViewInv, FeedInv, Balanced
  <2>2. /\ w.pane[p].last = win.pane[p].last /\ win.pane[p].last \in Nat
        /\ w.pane[p].off \in 0 .. Ring /\ win.pane[p].off \in 0 .. Ring
    BY Fields DEF Leaves, ViewInv
  <2>3. /\ win.pane[p].last <= term[p].total
        /\ top[p] # NoLine =>
             /\ win.pane[p].off \in 1 .. term[p].sbc
             /\ top[p] = win.pane[p].last - win.pane[p].off
        /\ top[p] \in NoLine .. term[p].total
    BY DEF ViewInv, Pinned
  <2>4. CASE w.pane[p].off = win.pane[p].off
    <3>1. Promised(w, p) = top[p]
      BY <2>4 DEF Promised
    <3> QED BY <2>2, <2>3, <2>4, <3>1
  <2>5. CASE /\ w.pane[p].off # win.pane[p].off
             /\ w.pane[p].off \in 1 .. term[p].sbc /\ win.pane[p].last = term[p].total
    <3>1. Promised(w, p) = term[p].total - w.pane[p].off
      BY <2>5 DEF Promised
    <3> QED BY <2>1, <2>2, <2>5, <3>1, Numbers DEF NoLine
  <2>6. CASE /\ w.pane[p].off # win.pane[p].off
             /\ ~(w.pane[p].off \in 1 .. term[p].sbc /\ win.pane[p].last = term[p].total)
    <3>1. Promised(w, p) = NoLine
      BY <2>6 DEF Promised
    <3> QED BY <2>1, <2>2, <2>3, <3>1 DEF NoLine
  <2> QED BY <2>4, <2>5, <2>6
<1>6. /\ top' \in [Pane -> Int] /\ \A p \in Pane : top'[p] = Promised(w, p)
  <2>1. \A p \in Pane : Promised(w, p) \in Int
    <3> TAKE p \in Pane
    <3>1. Promised(w, p) \in NoLine .. term[p].total
      BY <1>5
    <3> QED BY <3>1 DEF NoLine
  <2> HIDE DEF Promised
  <2> QED BY <1>1, <2>1
<1>7. Pinned'
  BY <1>1, <1>5, <1>6 DEF Pinned
<1>8. \A p \in Pane : top'[p] \in NoLine .. term'[p].total
  BY <1>1, <1>5, <1>6
<1>9. acts' \in 0 .. MaxActs
  BY <1>1, Numbers DEF ViewInv
<1> QED BY <1>3, <1>4, <1>6, <1>7, <1>8, <1>9 DEF ViewInv, NoLine

\* The window as it is may be left as it is.
LEMMA LeavesWin == ASSUME ViewInv PROVE Leaves(win)
BY DEF ViewInv, Leaves

\* Scrolling a view anywhere in the ring ...
LEMMA SetOff ==
  ASSUME NEW w, Leaves(w), NEW p \in Pane, NEW off \in 0 .. Ring
  PROVE  Leaves([w EXCEPT !.pane[p].off = off])
<1> DEFINE x == [w EXCEPT !.pane[p].off = off]
<1>1. Sound(w)
  BY DEF Leaves
<1>2. x.pane = [w.pane EXCEPT ![p].off = off]
  BY <1>1 DEF Sound, Windows
<1>3. x.pane \in [Pane -> Views]
  BY <1>1, <1>2, Fields DEF Views
<1>4. x \in Windows
  BY <1>1, <1>3 DEF Sound, Windows
<1>5. \A q \in Pane : /\ x.pane[q].last = w.pane[q].last
                      /\ x.pane[q].selecting = w.pane[q].selecting
                      /\ x.pane[q].sel = w.pane[q].sel
  BY <1>1, <1>2, Fields DEF Views
<1>6. x.search = w.search /\ x.palette = w.palette
  BY <1>1 DEF Sound, Windows
<1> QED BY <1>4, <1>5, <1>6 DEF Leaves, Sound

\* ... selecting in it, or letting go of the selection, ...
LEMMA SetSelection ==
  ASSUME NEW w, Leaves(w), NEW p \in Pane, NEW b \in BOOLEAN, NEW c \in BOOLEAN, b => c
  PROVE  Leaves([w EXCEPT !.pane[p].selecting = b, !.pane[p].sel = c])
<1> DEFINE x == [w EXCEPT !.pane[p].selecting = b, !.pane[p].sel = c]
<1>1. Sound(w)
  BY DEF Leaves
<1>2. x.pane = [w.pane EXCEPT ![p].selecting = b, ![p].sel = c]
  BY <1>1 DEF Sound, Windows
<1>3. x.pane \in [Pane -> Views]
  BY <1>1, <1>2, Fields DEF Views
<1>4. x \in Windows
  BY <1>1, <1>3 DEF Sound, Windows
<1>5. \A q \in Pane : /\ x.pane[q].last = w.pane[q].last
                      /\ x.pane[q].selecting => x.pane[q].sel
  BY <1>1, <1>2, Fields DEF Views, Sound
<1>6. x.search = w.search /\ x.palette = w.palette
  BY <1>1 DEF Sound, Windows
<1> QED BY <1>4, <1>5, <1>6 DEF Leaves, Sound

\* ... moving the focus, a press or a drag, ...
LEMMA SetPointer ==
  ASSUME NEW w, Leaves(w), NEW p \in Pane, NEW held \in {NoButton} \cup (Button \X Pane),
         NEW drag \in Pane \cup {NoPane}
  PROVE  /\ Leaves([w EXCEPT !.focus = p]) /\ Leaves([w EXCEPT !.held = held])
         /\ Leaves([w EXCEPT !.drag = drag])
<1>1. Sound(w)
  BY DEF Leaves
<1>2. Leaves([w EXCEPT !.focus = p])
  BY <1>1 DEF Leaves, Sound, Windows
<1>3. Leaves([w EXCEPT !.held = held])
  BY <1>1 DEF Leaves, Sound, Windows
<1>4. Leaves([w EXCEPT !.drag = drag])
  BY <1>1 DEF Leaves, Sound, Windows
<1> QED BY <1>2, <1>3, <1>4

\* ... and opening or closing an overlay or moving in it leave such a window.
LEMMA SetOverlay ==
  ASSUME NEW w, Leaves(w)
  PROVE  /\ \A s \in {Closed} \cup Searches :
              (s # Closed => s.current \in 1 .. Most(s.n, 1)) => Leaves([w EXCEPT !.search = s])
         /\ \A a \in {Closed} \cup Palettes :
              (a # Closed => a.current \in 1 .. Most(Len(a.items), 1)) =>
                Leaves([w EXCEPT !.palette = a])
<1>1. Sound(w)
  BY DEF Leaves
<1>2. ASSUME NEW s \in {Closed} \cup Searches, s # Closed => s.current \in 1 .. Most(s.n, 1)
      PROVE  Leaves([w EXCEPT !.search = s])
  BY <1>1, <1>2 DEF Leaves, Sound, Windows
<1>3. ASSUME NEW a \in {Closed} \cup Palettes,
             a # Closed => a.current \in 1 .. Most(Len(a.items), 1)
      PROVE  Leaves([w EXCEPT !.palette = a])
  BY <1>1, <1>3 DEF Leaves, Sound, Windows
<1> QED BY <1>2, <1>3

\* Scrolling by lines stays within the ring, whichever pane has the focus.
LEMMA ScrollLeaves ==
  ASSUME FeedInv, NEW w, Leaves(w), NEW lines \in Int
  PROVE  Leaves(ScrollBy(w, lines))
<1> DEFINE p == w.focus
           off == Most(0, Least(w.pane[p].off + lines, term[p].sbc))
<1>1. p \in Pane /\ w.pane[p].off \in 0 .. Ring
  BY Fields DEF Leaves
<1>2. term[p].sbc \in 0 .. Ring
  BY <1>1, FeedTypes
<1>3. off \in 0 .. Ring
  BY <1>1, <1>2, Numbers DEF Most, Least
<1>4. ScrollBy(w, lines) = [w EXCEPT !.pane[p].off = off]
  BY DEF ScrollBy
<1> HIDE DEF p, off
<1> QED BY <1>1, <1>3, <1>4, SetOff

\* Scrolling to a match stays within what the ring holds.
LEMMA MatchLeaves ==
  ASSUME FeedInv, NEW w, Leaves(w), w.search \in Searches, NEW v \in ScrollToMatch(w)
  PROVE  Leaves(v)
<1>1. w.search.session \in Pane
  BY DEF Searches
<1>2. CASE w.search.n = 0
  BY <1>2 DEF ScrollToMatch
<1>3. CASE w.search.n # 0
  <2>1. PICK off \in 0 .. term[w.search.session].sbc :
          v = [w EXCEPT !.pane[w.search.session].off = off]
    BY <1>3 DEF ScrollToMatch
  <2>2. off \in 0 .. Ring
    BY <1>1, FeedTypes, Numbers
  <2> QED BY <1>1, <2>1, <2>2, SetOff
<1> QED BY <1>2, <1>3

\* Cycling through a list selects one of its entries.
LEMMA CycleIn ==
  ASSUME NEW n \in Nat \ {0}, NEW current \in Nat, NEW dir \in {1, -1}
  PROVE  Cycle(current, n, dir) \in 1 .. n
<1>1. Least(current, n) - 1 + dir \in Int
  BY DEF Least
<1>2. \A a \in Int : a % n \in 0 .. n - 1
  OBVIOUS
<1> DEFINE a == Least(current, n) - 1 + dir
<1>3. a % n \in 0 .. n - 1
  BY <1>1, <1>2
<1> HIDE DEF a
<1>4. (a % n) + 1 \in 1 .. n
  BY <1>3
<1> QED BY <1>4 DEF Cycle, a

\* The handlers of the mouse.
LEMMA MouseStep == ASSUME ViewInv, Mouse PROVE ViewInv'
<1>w. Leaves(win) /\ FeedInv
  BY LeavesWin DEF ViewInv
<1>f. win.focus \in Pane /\ win.held \in {NoButton} \cup (Button \X Pane)
      /\ win.drag \in Pane \cup {NoPane}
  BY Fields DEF ViewInv
<1>n. /\ Step \in Int /\ -Step \in Int /\ Rows \in Int /\ -Rows \in Int
  BY Numbers
<1>r. ASSUME NEW p \in Pane, NEW b \in Button PROVE Leaves(Reported(p, b))
  <2>1. Leaves([win EXCEPT !.focus = p])
    BY <1>w, SetPointer
  <2>2. <<b, p>> \in {NoButton} \cup (Button \X Pane)
    OBVIOUS
  <2>3. Leaves([[win EXCEPT !.focus = p] EXCEPT !.held = <<b, p>>])
    BY <2>1, <2>2, SetPointer
  <2>4. Reported(p, b) = [[win EXCEPT !.focus = p] EXCEPT !.held = <<b, p>>]
    BY DEF Reported
  <2> QED BY <2>3, <2>4
<1>1. ASSUME NEW p \in Pane, NEW shift \in BOOLEAN, NEW up \in BOOLEAN, Wheel(p, up, shift)
      PROVE  ViewInv'
  <2>1. CASE Tracked(p, shift)
    BY <1>1, <1>w, <2>1, HandledStep DEF Wheel
  <2>2. CASE ~Tracked(p, shift)
    <3> DEFINE l == IF up THEN Step ELSE -Step
    <3>1. l \in Int /\ Handled(ScrollBy(win, l), ScrollBy(win, l) # win)
      BY <1>1, <1>n, <2>2 DEF Wheel, Scroll
    <3> HIDE DEF l
    <3> QED BY <1>w, <3>1, ScrollLeaves, HandledStep
  <2> QED BY <2>1, <2>2
<1>2. ASSUME NEW p \in Pane, NEW shift \in BOOLEAN, PressText(p, shift)
      PROVE  ViewInv'
  <2>1. CASE Tracked(p, shift)
    BY <1>2, <1>r, <2>1, HandledStep DEF PressText, Button
  <2>2. CASE ~Tracked(p, shift)
    <3> DEFINE v == [win EXCEPT !.focus = p]
    <3>1. Leaves(v)
      BY <1>w, SetPointer
    <3>2. BeginSelection(p) = [v EXCEPT !.pane[p].selecting = TRUE, !.pane[p].sel = TRUE]
      BY <1>w DEF BeginSelection, Leaves, Sound, Windows
    <3> HIDE DEF v
    <3>3. Leaves([v EXCEPT !.pane[p].selecting = TRUE, !.pane[p].sel = TRUE])
      BY <3>1, SetSelection
    <3>4. Leaves(BeginSelection(p))
      BY <3>2, <3>3
    <3> QED BY <1>2, <2>2, <3>4, HandledStep DEF PressText
  <2> QED BY <2>1, <2>2
<1>3. ASSUME NEW p \in Pane, NEW shift \in BOOLEAN, PressThumb(p, shift)
      PROVE  ViewInv'
  <2>1. CASE Tracked(p, shift)
    BY <1>3, <1>r, <2>1, HandledStep DEF PressThumb, Button
  <2>2. CASE ~Tracked(p, shift)
    <3>1. Leaves([win EXCEPT !.focus = p])
      BY <1>w, SetPointer
    <3>2. Leaves([[win EXCEPT !.focus = p] EXCEPT !.drag = p])
      BY <3>1, SetPointer
    <3>3. Leaves([win EXCEPT !.focus = p, !.drag = p])
      BY <3>2
    <3> QED BY <1>3, <2>2, <3>3, HandledStep DEF PressThumb
  <2> QED BY <2>1, <2>2
<1>4. ASSUME NEW p \in Pane, NEW shift \in BOOLEAN, NEW up \in BOOLEAN,
             PressTrack(p, up, shift)
      PROVE  ViewInv'
  <2>1. CASE Tracked(p, shift)
    BY <1>4, <1>r, <2>1, HandledStep DEF PressTrack, Button
  <2>2. CASE ~Tracked(p, shift)
    <3> DEFINE l == IF up THEN Rows ELSE -Rows
               v == [win EXCEPT !.focus = p]
    <3>1. l \in Int /\ Handled(ScrollBy(v, l), TRUE)
      BY <1>4, <1>n, <2>2 DEF PressTrack
    <3>2. Leaves(v)
      BY <1>w, SetPointer
    <3> HIDE DEF l, v
    <3> QED BY <1>w, <3>1, <3>2, ScrollLeaves, HandledStep
  <2> QED BY <2>1, <2>2
<1>5. ASSUME NEW p \in Pane, NEW shift \in BOOLEAN, NEW b \in {"middle", "right"},
             PressOther(p, b, shift)
      PROVE  ViewInv'
  <2>1. b \in Button
    BY DEF Button
  <2>2. CASE Tracked(p, shift)
    BY <1>5, <1>r, <2>1, <2>2, HandledStep DEF PressOther
  <2>3. CASE ~Tracked(p, shift)
    BY <1>5, <1>w, <2>3, HandledStep DEF PressOther
  <2> QED BY <2>2, <2>3
<1>6. ASSUME NEW p \in Pane, NEW shift \in BOOLEAN, Motion(p, shift)
      PROVE  ViewInv'
  <2> DEFINE q == win.focus
  <2>1. CASE ReportsMotion(p, shift) \/ ~win.pane[q].selecting
    BY <1>6, <1>w, <2>1, HandledStep DEF Motion
  <2>2. CASE ~(ReportsMotion(p, shift) \/ ~win.pane[q].selecting)
    <3>1. Handled([win EXCEPT !.pane[q].sel = TRUE], TRUE)
      BY <1>6, <2>2 DEF Motion
    <3>2. win.pane[q].selecting = TRUE
      BY <1>f, <2>2, Fields DEF ViewInv
    <3>3. [win EXCEPT !.pane[q].sel = TRUE]
            = [win EXCEPT !.pane[q].selecting = TRUE, !.pane[q].sel = TRUE]
      BY <1>f, <1>w, <3>2 DEF Leaves, Sound, Windows, Views
    <3>4. Leaves([win EXCEPT !.pane[q].selecting = TRUE, !.pane[q].sel = TRUE])
      BY <1>f, <1>w, SetSelection
    <3> QED BY <3>1, <3>3, <3>4, HandledStep
  <2> QED BY <2>1, <2>2
<1>7. ASSUME DragThumb PROVE ViewInv'
  <2>1. PICK off \in 0 .. win.bars[win.drag] :
          Handled(IF win.bars[win.drag] > 0 THEN [win EXCEPT !.pane[win.drag].off = off] ELSE win,
                  win.bars[win.drag] > 0)
    BY <1>7 DEF DragThumb
  <2>2. win.drag \in Pane
    BY <1>7, <1>f DEF DragThumb
  <2>3. off \in 0 .. Ring
    BY <2>2, Fields, Numbers DEF ViewInv
  <2>4. Leaves([win EXCEPT !.pane[win.drag].off = off])
    BY <1>w, <2>2, <2>3, SetOff
  <2>5. CASE win.bars[win.drag] > 0
    BY <2>1, <2>4, <2>5, HandledStep
  <2>6. CASE ~(win.bars[win.drag] > 0)
    BY <1>w, <2>1, <2>6, HandledStep
  <2> QED BY <2>5, <2>6
<1>8. ASSUME NEW b \in Button, Release(b) PROVE ViewInv'
  <2> DEFINE let_go == IF win.held # NoButton THEN [win EXCEPT !.held = NoButton]
                       ELSE IF b = "left" THEN [win EXCEPT !.pane[win.focus].selecting = FALSE]
                       ELSE win
             left == IF b = "left" THEN [let_go EXCEPT !.drag = NoPane] ELSE let_go
  <2>1. Handled(left, b = "left" /\ win.drag # NoPane)
    BY <1>8 DEF Release
  <2>2. Leaves([win EXCEPT !.held = NoButton])
    BY <1>f, <1>w, SetPointer
  <2>3. Leaves([win EXCEPT !.pane[win.focus].selecting = FALSE])
    <3> DEFINE q == win.focus
    <3>1. win.pane[q].sel \in BOOLEAN
      BY <1>f, Fields DEF ViewInv
    <3>2. [win EXCEPT !.pane[q].selecting = FALSE]
            = [win EXCEPT !.pane[q].selecting = FALSE, !.pane[q].sel = win.pane[q].sel]
      BY <1>f, <1>w DEF Leaves, Sound, Windows, Views
    <3>3. Leaves([win EXCEPT !.pane[q].selecting = FALSE, !.pane[q].sel = win.pane[q].sel])
      BY <1>f, <1>w, <3>1, SetSelection
    <3> QED BY <3>2, <3>3
  <2>4. Leaves(let_go)
    BY <1>w, <2>2, <2>3
  <2> HIDE DEF let_go
  <2>5. Leaves([let_go EXCEPT !.drag = NoPane])
    BY <1>f, <2>4, SetPointer
  <2>6. Leaves(left)
    BY <2>4, <2>5
  <2> HIDE DEF left
  <2> QED BY <2>1, <2>6, HandledStep
<1> QED BY <1>1, <1>2, <1>3, <1>4, <1>5, <1>6, <1>7, <1>8 DEF Mouse

\* What the filter leaves of the palette's commands is a list of commands.
LEMMA SublistsAreLists == ASSUME NEW items \in Sublists PROVE items \in Seq(STRING)
<1>0. PICK n \in 0 .. Len(Commands) : \E at \in [1 .. n -> DOMAIN Commands] :
        items = [k \in 1 .. n |-> Commands[at[k]]]
  BY DEF Sublists
<1>1. PICK at \in [1 .. n -> DOMAIN Commands] : items = [k \in 1 .. n |-> Commands[at[k]]]
  BY <1>0
<1>2. \A k \in 1 .. n : Commands[at[k]] \in STRING
  BY <1>1, PaneViewAssumption
<1>3. n \in Nat
  BY PaneViewAssumption
<1> QED BY <1>1, <1>2, <1>3

\* The handlers of the keyboard, the search bar and the palette.
LEMMA KeyStep == ASSUME ViewInv, Key PROVE ViewInv'
<1>w. Leaves(win) /\ FeedInv
  BY LeavesWin DEF ViewInv
<1>f. win.focus \in Pane /\ win.search \in {Closed} \cup Searches
      /\ win.palette \in {Closed} \cup Palettes
  BY Fields DEF ViewInv
<1>p. ASSUME NEW w, Leaves(w), NEW items \in Seq(STRING)
      PROVE  Leaves([w EXCEPT !.palette = [items |-> items, current |-> 1]])
  <2> DEFINE a == [items |-> items, current |-> 1]
  <2>1. a \in Palettes /\ a.current = 1 /\ a.items = items
    BY DEF Palettes
  <2>2. Len(items) \in Nat
    OBVIOUS
  <2>3. a.current \in 1 .. Most(Len(a.items), 1)
    BY <2>1, <2>2 DEF Most
  <2> HIDE DEF a
  <2> QED BY <1>p, <2>1, <2>3, SetOverlay DEF a
<1>s. ASSUME NEW w, Leaves(w), w.focus = win.focus PROVE Leaves(OpenSearchIn(w))
  <2>1. SearchBar(0) \in Searches /\ SearchBar(0).current = 1 /\ SearchBar(0).n = 0
    BY <1>f DEF SearchBar, Searches, Most
  <2>2. SearchBar(0).current \in 1 .. Most(SearchBar(0).n, 1)
    BY <2>1 DEF Most
  <2> QED BY <1>s, <2>1, <2>2, SetOverlay DEF OpenSearchIn
<1>c. ASSUME NEW w, Leaves(w)
      PROVE  Leaves([w EXCEPT !.search = Closed]) /\ Leaves([w EXCEPT !.palette = Closed])
  BY <1>c, SetOverlay
<1>l. ASSUME win.search # Closed, NEW n \in Nat, NEW current \in 1 .. Most(n, 1),
             NEW x, x = [win EXCEPT !.search = [win.search EXCEPT !.n = n, !.current = current]],
             NEW v \in ScrollToMatch(x)
      PROVE  Leaves(v)
  <2> DEFINE s == [win.search EXCEPT !.n = n, !.current = current]
  <2>1. current \in Nat \ {0}
    BY <1>l DEF Most
  <2>2. s \in Searches /\ s.current = current /\ s.n = n
    BY <1>f, <1>l, <2>1 DEF Searches
  <2> HIDE DEF s
  <2>3. x = [win EXCEPT !.search = s]
    BY <1>l DEF s
  <2>4. Leaves(x)
    BY <1>w, <1>l, <2>2, <2>3, SetOverlay
  <2>5. x.search = s
    BY <1>w, <2>3 DEF Leaves, Sound, Windows
  <2> QED BY <1>w, <1>l, <2>2, <2>4, <2>5, MatchLeaves
<1>1. ASSUME NEW k \in Keys, TypeKey(k) PROVE ViewInv'
  <2>1. Leaves(Snap(win))
    <3>1. 0 \in 0 .. Ring
      BY Numbers
    <3> QED BY <1>f, <1>w, <3>1, SetOff DEF Snap
  <2>2. \/ Handled(Snap(win), Snap(win) # win)
        \/ Handled(win, win # win)
    BY <1>1 DEF TypeKey
  <2> QED BY <1>w, <2>1, <2>2, HandledStep
<1>2. ASSUME NEW up \in BOOLEAN, PageKey(up) PROVE ViewInv'
  <2> DEFINE l == IF up THEN Rows ELSE -Rows
  <2>1. l \in Int
    BY Numbers
  <2>2. Handled(ScrollBy(win, l), ScrollBy(win, l) # win)
    BY <1>2 DEF PageKey, Scroll
  <2> HIDE DEF l
  <2> QED BY <1>w, <2>1, <2>2, ScrollLeaves, HandledStep
<1>3. CASE OpenSearch
  BY <1>3, <1>s, <1>w, HandledStep DEF OpenSearch
<1>4. CASE OpenPalette
  <2>1. Leaves(OpenPaletteIn(win))
    BY <1>p, <1>w, PaneViewAssumption DEF OpenPaletteIn
  <2> QED BY <1>4, <2>1, HandledStep DEF OpenPalette
<1>5. CASE CloseSearch
  BY <1>5, <1>c, <1>w, HandledStep DEF CloseSearch
<1>6. CASE ClosePalette
  BY <1>6, <1>c, <1>w, HandledStep DEF ClosePalette
<1>7. ASSUME NEW n \in 0 .. MaxHits, SearchRun(n) PROVE ViewInv'
  <2> DEFINE x == [win EXCEPT !.search = [@ EXCEPT !.n = n, !.current = Most(n, 1)]]
  <2>1. PICK v \in ScrollToMatch(x) : Handled(v, TRUE)
    BY <1>7 DEF SearchRun
  <2>2. win.search # Closed
    BY <1>7 DEF SearchRun
  <2>3. n \in Nat /\ Most(n, 1) \in 1 .. Most(n, 1)
    BY Numbers DEF Most
  <2>4. x = [win EXCEPT !.search = [win.search EXCEPT !.n = n, !.current = Most(n, 1)]]
    OBVIOUS
  <2> HIDE DEF x
  <2>5. Leaves(v)
    BY <1>l, <2>1, <2>2, <2>3, <2>4
  <2> QED BY <2>1, <2>5, HandledStep
<1>8. ASSUME NEW dir \in {1, -1}, SearchStep(dir) PROVE ViewInv'
  <2> DEFINE c == Cycle(win.search.current, win.search.n, dir)
             x == [win EXCEPT !.search.current = Cycle(@, win.search.n, dir)]
  <2>1. PICK v \in ScrollToMatch(x) : Handled(v, TRUE)
    BY <1>8 DEF SearchStep
  <2>2. win.search # Closed /\ win.search \in Searches /\ win.search.n > 0
    BY <1>8, <1>f DEF SearchStep
  <2>3. win.search.n \in Nat \ {0} /\ win.search.current \in Nat
    BY <2>2 DEF Searches
  <2>4. c \in 1 .. win.search.n
    BY <2>3, CycleIn
  <2>5. c \in 1 .. Most(win.search.n, 1)
    BY <2>3, <2>4 DEF Most
  <2>6. x = [win EXCEPT !.search = [win.search EXCEPT !.current = c]]
    BY DEF Cycle
  <2> HIDE DEF c, x
  <2>7. [win.search EXCEPT !.current = c] = [win.search EXCEPT !.n = win.search.n, !.current = c]
    BY <2>2 DEF Searches
  <2>8. Leaves(v)
    BY <1>l, <2>1, <2>2, <2>3, <2>5, <2>6, <2>7
  <2> QED BY <2>1, <2>8, HandledStep
<1>9. ASSUME NEW items \in Sublists, PaletteFilter(items) PROVE ViewInv'
  <2>1. Leaves([win EXCEPT !.palette = [items |-> items, current |-> 1]])
    BY <1>p, <1>w, SublistsAreLists
  <2> QED BY <1>9, <2>1, HandledStep DEF PaletteFilter
<1>10. ASSUME NEW dir \in {1, -1}, PaletteMove(dir) PROVE ViewInv'
  <2> DEFINE n == Len(win.palette.items)
             c == Cycle(win.palette.current, n, dir)
             a == [win.palette EXCEPT !.current = c]
  <2>1. win.palette # Closed /\ win.palette \in Palettes /\ win.palette.items # <<>>
    BY <1>10, <1>f DEF PaletteMove
  <2>2. win.palette.items \in Seq(STRING) /\ win.palette.current \in Nat
    BY <2>1 DEF Palettes
  <2>3. n \in Nat \ {0}
    BY <2>1, <2>2
  <2>4. Handled([win EXCEPT !.palette = a], TRUE)
    BY <1>10 DEF PaletteMove, Cycle
  <2> HIDE DEF n
  <2>5. c \in 1 .. n
    BY <2>2, <2>3, CycleIn
  <2>6. c \in 1 .. Most(n, 1) /\ c \in Nat \ {0}
    BY <2>3, <2>5 DEF Most
  <2> HIDE DEF c
  <2>7. a \in Palettes /\ a.current = c /\ a.items = win.palette.items
    BY <2>1, <2>6 DEF Palettes
  <2> HIDE DEF a
  <2>8. Leaves([win EXCEPT !.palette = a])
    BY <1>w, <2>6, <2>7, SetOverlay DEF n
  <2> QED BY <2>4, <2>8, HandledStep
<1>11. CASE PaletteRun
  <2> DEFINE w == [win EXCEPT !.palette = Closed]
  <2>1. Leaves(w) /\ w.focus = win.focus
    BY <1>c, <1>w DEF Leaves, Sound, Windows
  <2>2. Handled(OpenSearchIn(w), TRUE) \/ Handled(w, TRUE)
    BY <1>11 DEF PaletteRun
  <2> HIDE DEF w
  <2> QED BY <1>s, <2>1, <2>2, HandledStep
<1> QED BY <1>1, <1>2, <1>3, <1>4, <1>5, <1>6, <1>7, <1>8, <1>9, <1>10, <1>11 DEF Key

------------------------------------------------------------------------------
(* The feed thread, Redraw and frames under the views. *)

\* A batch only adds lines to a terminal, and shortens its history by a clear only.
LEMMA TakeAdds ==
  ASSUME FeedInv, FeedTake, NEW p \in Pane
  PROVE  /\ term[p].total <= term'[p].total
         /\ Head(chan) # <<p, "clear">> => term[p].sbc <= term'[p].sbc
<1>1. chan # <<>> /\ chan \in Seq(Chunks) /\ term \in [Pane -> Terms]
  BY DEF FeedTake, FeedInv
<1>2. PICK q \in Pane, kind \in Kinds :
        Head(chan) = <<q, kind>> /\ q = Head(chan)[1] /\ kind = Head(chan)[2]
  BY <1>1, FeedUiAssumption
<1>3. term' = [term EXCEPT ![q] = Fed(@, kind)]
  BY <1>2 DEF FeedTake
<1>4. term[p] \in Terms /\ term[p].total \in Nat /\ term[p].sbc \in 0 .. Ring
  BY FeedTypes
<1>5. CASE p = q
  <2>1. term'[p] = Fed(term[p], kind)
    BY <1>1, <1>3, <1>5
  <2>2. /\ Fed(term[p], kind).total \in term[p].total .. term[p].total + 2
        /\ kind # "clear" => term[p].sbc <= Fed(term[p], kind).sbc
    BY <1>4, FedBounds
  <2> QED BY <1>2, <1>4, <1>5, <2>1, <2>2
<1>6. CASE p # q
  <2>1. term'[p] = term[p]
    BY <1>1, <1>3, <1>6
  <2> QED BY <1>4, <2>1, Numbers
<1> QED BY <1>5, <1>6

\* Lines go by under a promise; a clear ends it.
LEMMA TakeStep == ASSUME ViewInv, Take PROVE ViewInv'
<1>1. /\ FeedTake /\ UNCHANGED <<win, acts>>
      /\ top' = [p \in Pane |-> IF Head(chan) = <<p, "clear">> THEN NoLine ELSE top[p]]
  BY DEF Take
<1>2. FeedInv /\ FeedInv'
  BY <1>1, FeedStep DEF ViewInv
<1>3. \A p \in Pane :
        /\ win.pane[p].last <= term'[p].total
        /\ top'[p] # NoLine =>
             /\ win.pane[p].off \in 1 .. term'[p].sbc
             /\ top'[p] = win.pane[p].last - win.pane[p].off
        /\ top'[p] \in NoLine .. term'[p].total
  <2> TAKE p \in Pane
  <2>1. /\ term[p].total <= term'[p].total
        /\ Head(chan) # <<p, "clear">> => term[p].sbc <= term'[p].sbc
    BY <1>1, <1>2, TakeAdds
  <2>2. /\ term[p].total \in Nat /\ term[p].sbc \in 0 .. Ring
        /\ term'[p].total \in Nat /\ term'[p].sbc \in 0 .. Ring
    <3>1. \A q \in Pane : term'[q] \in Terms
      BY <1>2 DEF FeedInv
    <3>2. term'[p] \in Terms
      BY <3>1
    <3> QED BY <1>2, <3>2, FeedTypes DEF Terms
  <2>3. win.pane[p].last \in Nat /\ win.pane[p].off \in 0 .. Ring
    BY Fields DEF ViewInv
  <2>4. /\ win.pane[p].last <= term[p].total
        /\ top[p] # NoLine =>
             /\ win.pane[p].off \in 1 .. term[p].sbc
             /\ top[p] = win.pane[p].last - win.pane[p].off
        /\ top[p] \in NoLine .. term[p].total
    BY DEF ViewInv, Pinned
  <2>5. CASE Head(chan) = <<p, "clear">>
    <3>1. top'[p] = NoLine
      BY <1>1, <2>5
    <3> QED BY <2>1, <2>2, <2>3, <2>4, <3>1 DEF NoLine
  <2>6. CASE Head(chan) # <<p, "clear">>
    <3>1. top'[p] = top[p]
      BY <1>1, <2>6
    <3> QED BY <2>1, <2>2, <2>3, <2>4, <2>6, <3>1, Numbers DEF NoLine
  <2> QED BY <2>5, <2>6
<1>4. top' \in [Pane -> Int]
  BY <1>1 DEF ViewInv, NoLine
<1>5. Pinned'
  BY <1>1, <1>3 DEF Pinned
<1>6. Sound(win)'
  BY <1>1 DEF ViewInv, Sound
<1> QED BY <1>1, <1>2, <1>3, <1>4, <1>5, <1>6 DEF ViewInv, NoLine

\* The tick moves a scrolled-back view by the lines that went by, as far as the
\* ring reaches; the promise moves with the oldest line the ring has left.
LEMMA RedrawStep == ASSUME ViewInv, Redraw PROVE ViewInv'
<1>1. /\ RedrawFlush /\ acts' = acts /\ term' = term
      /\ win' = [win EXCEPT !.pane = [p \in Pane |-> Tick(p, @[p])]]
      /\ top' = [p \in Pane |-> IF top[p] = NoLine THEN NoLine
                                ELSE Most(top[p], term[p].total - term[p].sbc)]
  BY DEF Redraw, RedrawFlush
<1>2. FeedInv /\ FeedInv'
  BY <1>1, FeedStep DEF ViewInv
<1> DEFINE T(p) == Tick(p, win.pane[p])
<1>3. \A p \in Pane :
        /\ T(p) \in Views /\ (T(p).selecting => T(p).sel)
        /\ T(p).last = term[p].total
        /\ top'[p] # NoLine =>
             /\ T(p).off \in 1 .. term[p].sbc
             /\ top'[p] = T(p).last - T(p).off
        /\ top'[p] \in NoLine .. term[p].total
  <2> TAKE p \in Pane
  <2> DEFINE v == win.pane[p]
             delta == term[p].total - v.last
             off == IF v.off > 0 /\ delta > 0 THEN Least(v.off + delta, term[p].sbc) ELSE v.off
             sel == v.sel /\ (p # win.focus \/ v.selecting)
  <2>1. /\ v \in Views /\ v.off \in 0 .. Ring /\ v.last \in Nat
        /\ v.selecting \in BOOLEAN /\ v.sel \in BOOLEAN
    BY Fields DEF ViewInv
  <2>2. term[p].total \in Nat /\ term[p].sbc \in 0 .. Ring /\ term[p].sbc <= term[p].total
    BY <1>2, FeedTypes DEF FeedInv, Balanced
  <2>3. /\ v.last <= term[p].total
        /\ top[p] # NoLine =>
             /\ v.off \in 1 .. term[p].sbc
             /\ top[p] = v.last - v.off
        /\ top[p] \in NoLine .. term[p].total
        /\ v.selecting => v.sel
    BY DEF ViewInv, Pinned, Sound
  <2>4. T(p) = [v EXCEPT !.off = off, !.last = term[p].total, !.sel = sel]
    BY DEF Tick
  <2>5. off \in 0 .. Ring
    BY <2>1, <2>2, Numbers DEF Least
  <2>6. sel \in BOOLEAN
    OBVIOUS
  <2> HIDE DEF off, sel
  <2>7. /\ T(p) \in Views /\ T(p).off = off /\ T(p).last = term[p].total
        /\ T(p).sel = sel /\ T(p).selecting = v.selecting
    BY <2>1, <2>2, <2>4, <2>5, <2>6 DEF Views
  <2>8. T(p).selecting => T(p).sel
    BY <2>3, <2>7 DEF sel
  <2>9. top'[p] = IF top[p] = NoLine THEN NoLine ELSE Most(top[p], term[p].total - term[p].sbc)
    BY <1>1
  <2>10. CASE top[p] = NoLine
    BY <2>2, <2>7, <2>8, <2>9, <2>10 DEF NoLine
  <2>11. CASE top[p] # NoLine
    <3>1. top'[p] = Most(top[p], term[p].total - term[p].sbc)
      BY <2>9, <2>11
    <3>2. /\ off \in 1 .. term[p].sbc
          /\ Most(top[p], term[p].total - term[p].sbc) = term[p].total - off
      <4>1. off = Least(v.off + delta, term[p].sbc)
        BY <2>1, <2>2, <2>3, <2>11 DEF off, Least
      <4> QED BY <2>1, <2>2, <2>3, <2>11, <4>1 DEF Least, Most
    <3>3. term[p].total - off \in NoLine .. term[p].total
      BY <2>2, <3>2 DEF NoLine
    <3> QED BY <2>7, <2>8, <3>1, <3>2, <3>3
  <2> QED BY <2>10, <2>11
<1>4. top' \in [Pane -> Int]
  <2>1. \A p \in Pane : top'[p] \in Int
    <3> TAKE p \in Pane
    <3>1. top'[p] \in NoLine .. term[p].total
      BY <1>3
    <3> QED BY <3>1 DEF NoLine
  <2> QED BY <1>1, <2>1
<1>5. /\ win'.pane = [p \in Pane |-> T(p)]
      /\ win' = [win EXCEPT !.pane = [p \in Pane |-> T(p)]]
  BY <1>1 DEF ViewInv, Sound, Windows
<1> HIDE DEF T
<1>6. win'.pane \in [Pane -> Views] /\ \A p \in Pane : win'.pane[p] = T(p)
  BY <1>3, <1>5
<1>7. win' \in Windows /\ win'.search = win.search /\ win'.palette = win.palette
  BY <1>5, <1>6 DEF ViewInv, Sound, Windows
<1>8. Sound(win)'
  BY <1>3, <1>6, <1>7 DEF ViewInv, Sound
<1>9. Pinned'
  <2> SUFFICES ASSUME NEW p \in Pane
               PROVE  /\ win'.pane[p].last <= term'[p].total
                      /\ top'[p] # NoLine =>
                           /\ win'.pane[p].off \in 1 .. term'[p].sbc
                           /\ top'[p] = win'.pane[p].last - win'.pane[p].off
    BY DEF Pinned
  <2>1. term[p].total \in Nat
    BY <1>2, FeedTypes
  <2> QED BY <1>1, <1>3, <1>6, <2>1
<1> QED BY <1>1, <1>2, <1>3, <1>4, <1>8, <1>9 DEF ViewInv, NoLine

\* A frame leaves scrollbars that stand for what the rings held.
LEMMA RenderStep == ASSUME ViewInv, Render PROVE ViewInv'
<1>1. /\ Present /\ UNCHANGED <<top, acts, term>>
      /\ win' = [win EXCEPT !.bars = [p \in Pane |-> IF term[p].alt THEN 0 ELSE term[p].sbc]]
  BY DEF Render, Present
<1>2. FeedInv /\ FeedInv'
  BY <1>1, FeedStep DEF ViewInv
<1> DEFINE bars == [p \in Pane |-> IF term[p].alt THEN 0 ELSE term[p].sbc]
<1>3. bars \in [Pane -> 0 .. Ring]
  BY <1>2, FeedTypes, Numbers
<1> HIDE DEF bars
<1>4. win' = [win EXCEPT !.bars = bars]
  BY <1>1 DEF bars
<1>5. /\ win' \in Windows /\ win'.pane = win.pane /\ win'.search = win.search
      /\ win'.palette = win.palette
  BY <1>3, <1>4 DEF ViewInv, Sound, Windows
<1>6. Sound(win)'
  BY <1>5 DEF ViewInv, Sound
<1>7. Pinned'
  BY <1>1, <1>5 DEF ViewInv, Pinned
<1> QED BY <1>1, <1>2, <1>6, <1>7 DEF ViewInv

\* The invariant holds at the start ...
LEMMA ViewStart == ASSUME Init PROVE ViewInv
<1>1. FeedInit /\ PaneViewInit
  BY DEF Init
<1>2. FeedInv
  BY <1>1, FeedStart
<1> DEFINE view == [off |-> 0, last |-> 0, selecting |-> FALSE, sel |-> FALSE]
<1>3. PICK p \in Pane :
        win = [pane |-> [q \in Pane |-> view], focus |-> p, held |-> NoButton, drag |-> NoPane,
               bars |-> [q \in Pane |-> 0], search |-> Closed, palette |-> Closed]
  BY <1>1 DEF PaneViewInit
<1>4. 0 \in 0 .. Ring /\ acts = 0 /\ top = [q \in Pane |-> NoLine]
  BY <1>1, Numbers DEF PaneViewInit
<1>5. view \in Views /\ view.off = 0 /\ view.last = 0 /\ view.selecting = FALSE
  BY <1>4 DEF Views
<1> HIDE DEF view
<1>6. win \in Windows /\ win.search = Closed /\ win.palette = Closed
      /\ \A q \in Pane : win.pane[q] = view
  BY <1>3, <1>4, <1>5 DEF Windows
<1>7. Sound(win)
  BY <1>5, <1>6 DEF Sound
<1>8. \A q \in Pane : term[q].total \in Nat /\ top[q] = NoLine
  BY <1>2, <1>4, FeedTypes
<1>9. Pinned
  BY <1>5, <1>6, <1>8 DEF Pinned
<1>10. top \in [Pane -> Int] /\ \A q \in Pane : top[q] \in NoLine .. term[q].total
  BY <1>4, <1>8 DEF NoLine
<1>11. acts \in 0 .. MaxActs
  BY <1>4, Numbers
<1> QED BY <1>2, <1>7, <1>9, <1>10, <1>11 DEF ViewInv

\* ... and after every step.
LEMMA ViewStep == ASSUME ViewInv, [Next]_vars PROVE ViewInv'
<1>o. ASSUME FeedInv', UNCHANGED <<term, win, top, acts>> PROVE ViewInv'
  BY <1>o DEF ViewInv, Sound, Pinned
<1>1. CASE (\E c \in Chunks : Output(c)) /\ Other
  <2>1. FeedInv'
    BY <1>1, FeedStep DEF ViewInv
  <2>2. term' = term
    BY <1>1 DEF Output
  <2> QED BY <1>1, <1>o, <2>1, <2>2 DEF Other
<1>2. CASE Take
  BY <1>2, TakeStep
<1>3. CASE FeedFlush /\ Other
  <2>1. FeedInv'
    BY <1>3, FeedStep DEF ViewInv
  <2> QED BY <1>3, <1>o, <2>1 DEF Other, FeedFlush
<1>4. CASE FeedPoke /\ Other
  <2>1. FeedInv'
    BY <1>4, FeedStep DEF ViewInv
  <2> QED BY <1>4, <1>o, <2>1 DEF Other, FeedPoke
<1>5. CASE RedrawStart /\ Other
  <2>1. FeedInv'
    BY <1>5, FeedStep DEF ViewInv
  <2> QED BY <1>5, <1>o, <2>1 DEF Other, RedrawStart
<1>6. CASE Redraw
  BY <1>6, RedrawStep
<1>7. CASE Render
  BY <1>7, RenderStep
<1>8. CASE Mouse
  BY <1>8, MouseStep
<1>9. CASE Key
  BY <1>9, KeyStep
<1>10. CASE UNCHANGED vars
  <2>1. FeedInv'
    BY <1>10 DEF ViewInv, FeedInv, Balanced, vars, feedVars
  <2> QED BY <1>10, <1>o, <2>1 DEF vars, feedVars
<1> QED BY <1>1, <1>2, <1>3, <1>4, <1>5, <1>6, <1>7, <1>8, <1>9, <1>10 DEF Next

\* The views and what the threads share stay consistent, for any number of
\* panes, any ring, any output and anything the user does.
THEOREM ViewsConsistent == Spec => []ViewInv
<1>1. Init => ViewInv
  BY ViewStart
<1>2. ViewInv /\ [Next]_vars => ViewInv'
  BY ViewStep
<1> QED BY <1>1, <1>2, PTL DEF Spec

\* Views stay within their rings, lists keep their selection in range, every
\* queue and counter within what was printed (update_selection, search_run,
\* palette_move, off_for_thumb_top).
THEOREM ViewTypeCorrect == Spec => []ViewTypeOK
<1>1. ASSUME ViewInv PROVE ViewTypeOK
  <2>1. FeedTypeOK
    BY <1>1, FeedTyped DEF ViewInv
  <2>2. Sound(win)
    BY <1>1 DEF ViewInv
  <2>3. ASSUME NEW p \in Pane
        PROVE  LET v == win.pane[p]
               IN  /\ v.off \in 0 .. Ring /\ v.last \in 0 .. term[p].total
                   /\ v.selecting \in BOOLEAN /\ v.sel \in BOOLEAN /\ (v.selecting => v.sel)
                   /\ win.bars[p] \in 0 .. Ring /\ top[p] \in NoLine .. 2 * MaxOut
    <3>1. /\ term[p].total \in Nat /\ term[p].total <= 2 * MaxOut /\ 2 * MaxOut \in Nat
      <4>1. term[p].total \in Nat
        BY <1>1, FeedTypes DEF ViewInv
      <4>2. term[p].total \in 0 .. 2 * MaxOut
        BY <2>1 DEF FeedTypeOK
      <4> QED BY <4>1, <4>2, Numbers
    <3>2. top[p] \in NoLine .. term[p].total /\ win.pane[p].last <= term[p].total
      BY <1>1 DEF ViewInv, Pinned
    <3>3. win.pane[p].selecting => win.pane[p].sel
      BY <2>2 DEF Sound
    <3> QED BY <2>2, <3>1, <3>2, <3>3, Fields DEF NoLine
  <2>4. win.held = NoButton \/ win.held \in Button \X Pane
    BY <2>2, Fields
  <2>5. win.search = Closed \/ /\ win.search.session \in Pane
                               /\ win.search.current \in 1 .. Most(win.search.n, 1)
    BY <2>2, Fields DEF Sound, Searches
  <2> QED BY <1>1, <2>1, <2>2, <2>3, <2>4, <2>5, Fields DEF ViewTypeOK, ViewInv, Sound
<1> QED BY <1>1, ViewsConsistent, PTL

\* A scrolled-back view keeps its top line however much output goes by between
\* two frames, until the ring drops that line (on_redraw_tick).
THEOREM ViewsStayPinned == Spec => []PinnedView
<1>1. ASSUME ViewInv PROVE PinnedView
  <2> SUFFICES ASSUME NEW p \in Pane, top[p] # NoLine, win.pane[p].last = term[p].total
               PROVE  win.pane[p].off > 0 /\ term[p].total - win.pane[p].off = top[p]
    BY DEF PinnedView
  <2>1. win.pane[p].off \in 1 .. term[p].sbc /\ top[p] = win.pane[p].last - win.pane[p].off
    BY <1>1 DEF ViewInv, Pinned
  <2>2. term[p].sbc \in 0 .. Ring
    BY <1>1, FeedTypes DEF ViewInv
  <2> QED BY <2>1, <2>2, Numbers
<1> QED BY <1>1, ViewsConsistent, PTL

------------------------------------------------------------------------------
(* No wake-up is lost. *)

\* What a handler of the user's events leaves to the two threads: all but a
\* wish for a frame is as it was.
LEMMA HandlersKeep ==
  ASSUME Mouse \/ Key
  PROVE  /\ UNCHANGED <<term, feed, resp, outbox, pending, posted, ui, drawn>>
         /\ frame => frame'
<1>1. ASSUME NEW w, NEW redraw, Handled(w, redraw)
      PROVE  /\ UNCHANGED <<term, feed, resp, outbox, pending, posted, ui, drawn>>
             /\ frame => frame'
  BY <1>1, Zenon DEF Handled
<1>2. Mouse => \E w, redraw : Handled(w, redraw)
  BY DEF Mouse, Wheel, Scroll, PressText, PressThumb, PressTrack, PressOther, Motion, DragThumb,
         Release
<1>3. Key => \E w, redraw : Handled(w, redraw)
  BY DEF Key, TypeKey, PageKey, Scroll, OpenSearch, OpenPalette, CloseSearch, ClosePalette,
         SearchRun, SearchStep, PaletteFilter, PaletteMove, PaletteRun
<1> QED BY <1>1, <1>2, <1>3

\* Every step leaves something coming for what is not served.
LEMMA AwaitedStep == ASSUME FeedInv, Awaited, [Next]_vars PROVE Awaited'
<1>t. \A p \in Pane : /\ resp[p] \in Nat /\ outbox[p] \in Nat
                      /\ term[p].total \in Nat /\ drawn[p] \in Nat
  BY FeedTypes
<1>f. /\ feed \in {"recv", "batch", "poke"} /\ ui \in {"idle", "redraw"}
      /\ pending \in BOOLEAN /\ frame \in BOOLEAN /\ posted \in {0, 1}
  BY DEF FeedInv
<1>a. /\ pending <=> posted = 1
      /\ \A p \in Pane :
           /\ resp[p] > 0 => feed = "batch"
           /\ outbox[p] > 0 => Coming
           /\ term[p].total # drawn[p] => Coming \/ feed = "batch" \/ frame
  BY DEF Awaited
<1>1. ASSUME UNCHANGED <<term, feed, resp, outbox, pending, posted, ui, drawn>>, frame => frame'
      PROVE  Awaited'
  BY <1>1, <1>a DEF Awaited, Coming
<1>2. CASE (\E c \in Chunks : Output(c)) /\ Other
  BY <1>1, <1>2 DEF Output
<1>3. CASE Take
  <2>1. /\ feed' = "batch" /\ feed # "poke" /\ chan # <<>>
        /\ UNCHANGED <<outbox, pending, posted, ui, frame, drawn>>
    BY <1>3 DEF Take, FeedTake
  <2> QED BY <1>a, <1>f, <2>1 DEF Awaited, Coming
<1>4. CASE FeedFlush /\ Other
  <2>1. /\ outbox' = [p \in Pane |-> outbox[p] + resp[p]] /\ resp' = [p \in Pane |-> 0]
        /\ feed' = "poke" /\ UNCHANGED <<term, pending, posted, ui, frame, drawn>>
    BY <1>4 DEF FeedFlush
  <2>2. \A p \in Pane : resp'[p] = 0
    BY <2>1
  <2> QED BY <1>a, <2>1, <2>2 DEF Awaited, Coming
<1>5. CASE FeedPoke /\ Other
  <2>1. /\ feed = "poke" /\ pending' /\ posted' = (IF pending THEN posted ELSE posted + 1)
        /\ UNCHANGED <<term, resp, outbox, ui, frame, drawn>>
    BY <1>5 DEF FeedPoke
  <2>2. posted' = 1
    BY <1>a, <1>f, <2>1
  <2> QED BY <1>a, <1>t, <2>1, <2>2 DEF Awaited, Coming
<1>6. CASE RedrawStart /\ Other
  <2>1. /\ ~pending' /\ posted' = posted - 1 /\ posted > 0 /\ ui' = "redraw"
        /\ UNCHANGED <<term, feed, resp, outbox, frame, drawn>>
    BY <1>6 DEF RedrawStart
  <2>2. posted' # 1
    BY <1>f, <2>1
  <2> QED BY <1>a, <2>1, <2>2 DEF Awaited, Coming
<1>7. CASE Redraw
  <2>1. /\ outbox' = [p \in Pane |-> 0] /\ frame'
        /\ UNCHANGED <<term, feed, resp, pending, posted, drawn>>
    BY <1>7 DEF Redraw, RedrawFlush
  <2>2. \A p \in Pane : outbox'[p] = 0
    BY <2>1
  <2> QED BY <1>a, <2>1, <2>2 DEF Awaited, Coming
<1>8. CASE Render
  <2>1. /\ drawn' = [p \in Pane |-> term[p].total]
        /\ UNCHANGED <<term, feed, resp, outbox, pending, posted, ui>>
    BY <1>8 DEF Render, Present
  <2>2. \A p \in Pane : term'[p].total = drawn'[p]
    BY <2>1
  <2> QED BY <1>a, <2>1, <2>2 DEF Awaited, Coming
<1>9. CASE Mouse \/ Key
  BY <1>1, <1>9, HandlersKeep
<1>10. CASE UNCHANGED vars
  BY <1>1, <1>10 DEF vars, feedVars
<1> QED BY <1>2, <1>3, <1>4, <1>5, <1>6, <1>7, <1>8, <1>9, <1>10 DEF Next

\* The one pending flag loses no wake-up: whatever the order in which the feed
\* thread and the UI thread read and write it, a reply or a line that is not
\* served has something coming that will serve it (user_event clears the flag
\* before it takes the outbox).  This is the safety half of OutputServed.
THEOREM NoWakeUpLost == Spec => []Awaited
<1>1. ASSUME Init PROVE Awaited
  <2>1. /\ pending = FALSE /\ posted = 0
        /\ \A p \in Pane : resp[p] = 0 /\ outbox[p] = 0 /\ term[p].total = drawn[p]
    BY <1>1 DEF Init, FeedInit
  <2> QED BY <2>1 DEF Awaited
<1>2. ASSUME ViewInv, Awaited, [Next]_vars PROVE Awaited'
  BY <1>2, AwaitedStep DEF ViewInv
<1> QED BY <1>1, <1>2, ViewsConsistent, PTL DEF Spec

=============================================================================
