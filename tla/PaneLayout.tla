----------------------------- MODULE PaneLayout -----------------------------
(***************************************************************************)
(* The split tree of a tab (enum Layout of wslterm/src/main.rs).           *)
(*                                                                         *)
(* A node is named by the path to it from the root, 0 for the left or      *)
(* upper child and 1 for the other; a tree is the function from the paths  *)
(* of its leaves to their sessions and the one from the paths of its       *)
(* splits to their orientation and ratio.  Lengths are pixels; a ratio is  *)
(* in fiftieths (what f32 rounds is left out).                             *)
(***************************************************************************)
EXTENDS Integers, Sequences, SequencesExt, FiniteSets

CONSTANTS
    RatioStep,      \* what a key moves a divider by (0.04, two fiftieths, in the code)
    BarW,           \* width of a scrollbar
    EdgeGutter      \* margin beside it at the window's right edge

ASSUME LayoutAssumption == RatioStep \in 1 .. 50 /\ BarW \in Nat /\ EdgeGutter \in Nat

Divider == 1
Unit == 50
LeastOf(a, b) == IF a < b THEN a ELSE b
MostOf(a, b) == IF a < b THEN b ELSE a
Minus(a, b) == MostOf(a - b, 0)                     \* saturating_sub

Paths(l) == DOMAIN l.leaf
Sessions(l) == {l.leaf[p] : p \in Paths(l)}
Leaf(s) == [leaf |-> [p \in {<<>>} |-> s], split |-> [p \in {} |-> 0]]
PathOf(l, s) == CHOOSE p \in Paths(l) : l.leaf[p] = s
FirstSession(l) == l.leaf[CHOOSE p \in Paths(l) : \A i \in DOMAIN p : p[i] = 0]

\* Every split has two children, and nothing else is a node.
IsTree(l) ==
    LET nodes == Paths(l) \cup DOMAIN l.split
    IN  /\ Paths(l) \cap DOMAIN l.split = {} /\ <<>> \in nodes
        /\ \A p \in DOMAIN l.split : {Append(p, 0), Append(p, 1)} \subseteq nodes
        /\ \A p \in nodes \ {<<>>} : Front(p) \in DOMAIN l.split
        /\ \A p, q \in Paths(l) : l.leaf[p] = l.leaf[q] => p = q

---------------------------------------------------------------------------
(* Pixels.                                                                 *)

\* The two halves of a rectangle; the first gives up the divider.
ChildRectTouching(r, split, side) ==
    LET wa == (r.w * split.ratio) \div Unit
        ha == (r.h * split.ratio) \div Unit
    IN  CASE split.sbs /\ side = 0  -> [r EXCEPT !.w = wa]
          [] split.sbs /\ side = 1  -> [r EXCEPT !.x = @ + wa - Divider, !.w = Minus(@, wa)]
          [] ~split.sbs /\ side = 0 -> [r EXCEPT !.h = Minus(ha, Divider)]
          [] ~split.sbs /\ side = 1 -> [r EXCEPT !.y = @ + ha, !.h = Minus(@, ha)]
ChildRect(r, split, side) ==
    LET wa == (r.w * split.ratio) \div Unit
        ha == (r.h * split.ratio) \div Unit
    IN  CASE split.sbs /\ side = 0  -> [r EXCEPT !.w = Minus(wa, Divider)]
          [] split.sbs /\ side = 1  -> [r EXCEPT !.x = @ + wa, !.w = Minus(@, wa)]
          [] ~split.sbs /\ side = 0 -> [r EXCEPT !.h = Minus(ha, Divider)]
          [] ~split.sbs /\ side = 1 -> [r EXCEPT !.y = @ + ha, !.h = Minus(@, ha)]

\* The k-th step down to the node p, and the rectangle of a pane.
Into(l, p, r, k) == ChildRect(r, l.split[SubSeq(p, 1, k - 1)], p[k])
LeafRect(l, s, area) ==
    LET p == PathOf(l, s)
    IN  FoldLeft(LAMBDA r, k : Into(l, p, r, k), area, [k \in 1 .. Len(p) |-> k])
LeafRects(l, area) == [s \in Sessions(l) |-> LeafRect(l, s, area)]

\* The columns and rows of a pane: its scrollbar and the gutter are not text.
GridOf(rect, winW, cell) ==
    LET gutter == IF rect.x + rect.w >= winW THEN EdgeGutter ELSE Divider
        textW == MostOf(Minus(rect.w, BarW + gutter), cell)
    IN  <<MostOf(textW \div cell, 1), MostOf(rect.h \div cell, 1)>>

---------------------------------------------------------------------------
(* Changing the tree.                                                      *)

SplitLayout(l, target, sbs, new) ==
    LET p == PathOf(l, target)
    IN  IF target \notin Sessions(l) THEN l
        ELSE [leaf |-> [q \in (Paths(l) \ {p}) \cup {Append(p, 0), Append(p, 1)} |->
                           IF q = Append(p, 0) THEN target
                           ELSE IF q = Append(p, 1) THEN new ELSE l.leaf[q]],
              split |-> [q \in DOMAIN l.split \cup {p} |->
                           IF q = p THEN [sbs |-> sbs, ratio |-> Unit \div 2] ELSE l.split[q]]]

\* Where a node is after, and was before, the sibling of the removed leaf p has
\* taken the place of their parent.
Sibling(p) == Append(Front(p), 1 - Last(p))
Raised(p, q) ==
    IF IsPrefix(Sibling(p), q) THEN Front(p) \o SubSeq(q, Len(p) + 1, Len(q)) ELSE q
Lowered(p, q) ==
    IF IsPrefix(Front(p), q) THEN Sibling(p) \o SubSeq(q, Len(p), Len(q)) ELSE q
RemoveLayout(l, s) ==
    LET p == PathOf(l, s)
    IN  [leaf |-> [q \in {Raised(p, r) : r \in Paths(l) \ {p}} |-> l.leaf[Lowered(p, q)]],
         split |-> [q \in {Raised(p, r) : r \in DOMAIN l.split \ {Front(p)}} |->
                       l.split[Lowered(p, q)]]]

\* The nearest split around s of the orientation asked for, if there is one.
Around(l, s, sbs) ==
    {q \in DOMAIN l.split : IsStrictPrefix(q, PathOf(l, s)) /\ l.split[q].sbs = sbs}
ResizeSplit(l, s, sbs, delta) ==
    LET around == Around(l, s, sbs)
        nearest == CHOOSE q \in around : \A r \in around : Len(r) <= Len(q)
    IN  IF around = {} THEN l
        ELSE [l EXCEPT !.split[nearest].ratio =
                 MostOf(Unit \div 10, LeastOf(@ + delta, 9 * (Unit \div 10)))]

---------------------------------------------------------------------------
(* What a layout must do for the user.                                     *)

Pixels(r) == (r.x .. r.x + r.w - 1) \X (r.y .. r.y + r.h - 1)
\* Panes do not overlap, stay inside the area, and share all of it but the
\* dividers, each of which is no longer than the area.
Tiles(l, area) ==
    LET rects == LeafRects(l, area)
        covered == UNION {Pixels(rects[s]) : s \in DOMAIN rects}
    IN  /\ \A s, t \in DOMAIN rects : s # t => Pixels(rects[s]) \cap Pixels(rects[t]) = {}
        /\ covered \subseteq Pixels(area)
        /\ Cardinality(Pixels(area) \ covered)
              <= Cardinality(DOMAIN l.split) * Divider * MostOf(area.w, area.h)
=============================================================================
