--------------------------- MODULE WinTabsProofs ---------------------------
(***************************************************************************)
(* Proofs about WinTabs: layout trees stay trees, and after every event    *)
(* registry, panes and sessions agree, every pane has its grid, and the    *)
(* panes of a tab tile its area.                                           *)
(***************************************************************************)
EXTENDS WinTabs, SequenceTheorems, FiniteSetTheorems, TLAPS

---------------------------------------------------------------------------
(* Paths.                                                                  *)

Path == Seq({0, 1})
Above(q, r) == Len(q) <= Len(r) /\ \A i \in 1 .. Len(q) : q[i] = r[i]

\* Paths are equal when their elements are.
LEMMA SamePath ==
  ASSUME NEW q \in Path, NEW r \in Path, Len(q) = Len(r), \A i \in 1 .. Len(q) : q[i] = r[i]
  PROVE  q = r
  BY SeqEqual DEF Path

\* A path has a length and zeros and ones.
LEMMA PathType ==
  ASSUME NEW q \in Path
  PROVE  Len(q) \in Nat /\ \A i \in 1 .. Len(q) : q[i] \in {0, 1}
  BY LenProperties, ElementOfSeq DEF Path

\* A part of a path is a path.
LEMMA PathPart ==
  ASSUME NEW q \in Path, NEW m \in Nat \ {0}, NEW n \in 0 .. Len(q)
  PROVE  /\ SubSeq(q, m, n) \in Path
         /\ Len(SubSeq(q, m, n)) = IF m <= n THEN n - m + 1 ELSE 0
         /\ \A i \in 1 .. n - m + 1 : SubSeq(q, m, n)[i] = q[m + i - 1]
<1>1. \A i \in m .. n : q[i] \in {0, 1}
  BY PathType
<1> QED BY <1>1, PathType, SubSeqProperties DEF Path

\* The beginning of a path.
LEMMA PathStart ==
  ASSUME NEW q \in Path, NEW n \in 0 .. Len(q)
  PROVE  /\ SubSeq(q, 1, n) \in Path /\ Len(SubSeq(q, 1, n)) = n
         /\ \A i \in 1 .. n : SubSeq(q, 1, n)[i] = q[i]
<1>1. n \in Nat /\ 1 \in Nat \ {0}
  BY PathType
<1>2. /\ SubSeq(q, 1, n) \in Path
      /\ Len(SubSeq(q, 1, n)) = IF 1 <= n THEN n - 1 + 1 ELSE 0
      /\ \A i \in 1 .. n - 1 + 1 : SubSeq(q, 1, n)[i] = q[1 + i - 1]
  BY <1>1, PathPart
<1>3. (IF 1 <= n THEN n - 1 + 1 ELSE 0) = n
  BY <1>1
<1>4. ASSUME NEW i \in 1 .. n PROVE SubSeq(q, 1, n)[i] = q[i]
  <2>1. i \in 1 .. n - 1 + 1 /\ 1 + i - 1 = i
    BY <1>1
  <2> QED BY <1>2, <2>1
<1> QED BY <1>2, <1>3, <1>4

\* A child's path.
LEMMA PathChild ==
  ASSUME NEW q \in Path, NEW c \in {0, 1}
  PROVE  /\ Append(q, c) \in Path /\ Len(Append(q, c)) = Len(q) + 1
         /\ \A i \in 1 .. Len(q) : Append(q, c)[i] = q[i]
         /\ Append(q, c)[Len(q) + 1] = c
         /\ Above(q, Append(q, c))
<1>1. /\ Append(q, c) \in Path /\ Len(Append(q, c)) = Len(q) + 1
      /\ \A i \in 1 .. Len(q) : Append(q, c)[i] = q[i]
      /\ Append(q, c)[Len(q) + 1] = c
  BY AppendProperties DEF Path
<1> QED BY <1>1, PathType DEF Above

\* The library's prefixes are the nodes above.
LEMMA Prefix ==
  ASSUME NEW q \in Path, NEW r \in Path
  PROVE  IsPrefix(q, r) <=> Above(q, r)
<1>1. Len(q) \in Nat /\ Len(r) \in Nat
  BY PathType
<1>2. SubSeq(q, 1, Len(q)) = q
  BY SubSeqFull DEF Path
<1>3. CASE Len(q) <= Len(r)
  <2>1. /\ SubSeq(r, 1, Len(q)) \in Path /\ Len(SubSeq(r, 1, Len(q))) = Len(q)
        /\ \A i \in 1 .. Len(q) : SubSeq(r, 1, Len(q))[i] = r[i]
    BY <1>1, <1>3, PathPart
  <2>2. q = SubSeq(r, 1, Len(q)) <=> \A i \in 1 .. Len(q) : q[i] = r[i]
    BY <2>1, SamePath
  <2> QED BY <1>2, <1>3, <2>2 DEF IsPrefix, Above
<1> QED BY <1>1, <1>3 DEF IsPrefix, Above

\* What is above a node is above all below it.
LEMMA AboveChain ==
  ASSUME NEW q \in Path, NEW r \in Path, NEW t \in Path, Above(q, r), Above(r, t)
  PROVE  Above(q, t)
  BY PathType DEF Above

\* Nodes above each other are one.
LEMMA AboveBoth ==
  ASSUME NEW q \in Path, NEW r \in Path, Above(q, r), Len(r) <= Len(q)
  PROVE  q = r
  BY PathType, SamePath DEF Above

\* The parent of a node and its other child.
LEMMA Family ==
  ASSUME NEW p \in Path, p # <<>>
  PROVE  /\ Len(p) \in Nat \ {0}
         /\ Front(p) \in Path /\ Len(Front(p)) = Len(p) - 1
         /\ \A i \in 1 .. Len(p) - 1 : Front(p)[i] = p[i]
         /\ Sibling(p) \in Path /\ Len(Sibling(p)) = Len(p)
         /\ \A i \in 1 .. Len(p) - 1 : Sibling(p)[i] = p[i]
         /\ Sibling(p)[Len(p)] = 1 - p[Len(p)]
         /\ Sibling(p) = Append(Front(p), 1 - p[Len(p)])
<1>1. Len(p) \in Nat \ {0} /\ p[Len(p)] \in {0, 1}
  <2>1. Len(p) \in Nat \ {0}
    BY EmptySeq DEF Path
  <2> QED BY <2>1, PathType
<1>2. /\ Front(p) \in Path /\ Len(Front(p)) = Len(p) - 1
      /\ \A i \in 1 .. Len(p) - 1 : Front(p)[i] = p[i]
  <2>1. Len(p) - 1 \in 0 .. Len(p)
    BY <1>1
  <2> QED BY <2>1, PathStart DEF Front
<1>3. 1 - p[Len(p)] \in {0, 1}
  BY <1>1
<1>4. Sibling(p) = Append(Front(p), 1 - p[Len(p)])
  BY DEF Sibling, Last
<1> QED BY <1>1, <1>2, <1>3, <1>4, PathChild

\* A node at or below the sibling loses the step from parent to sibling.
LEMMA RaisedIn ==
  ASSUME NEW p \in Path, p # <<>>, NEW q \in Path, Above(Sibling(p), q)
  PROVE  /\ Raised(p, q) \in Path /\ Len(Raised(p, q)) = Len(q) - 1 /\ Len(q) >= Len(p)
         /\ \A i \in 1 .. Len(q) - 1 :
               Raised(p, q)[i] = IF i < Len(p) THEN q[i] ELSE q[i + 1]
         /\ Above(Front(p), Raised(p, q))
<1> DEFINE n == Len(p)
           f == Front(p)
           t == SubSeq(q, n + 1, Len(q))
<1>1. /\ n \in Nat \ {0} /\ f \in Path /\ Len(f) = n - 1
      /\ \A i \in 1 .. n - 1 : f[i] = p[i]
      /\ Sibling(p) \in Path /\ Len(Sibling(p)) = n
      /\ \A i \in 1 .. n - 1 : Sibling(p)[i] = p[i]
  BY Family
<1>2. Len(q) \in Nat /\ n <= Len(q) /\ \A i \in 1 .. n - 1 : q[i] = p[i]
  BY <1>1, PathType DEF Above
<1>3. t \in Path /\ Len(t) = Len(q) - n /\ \A i \in 1 .. Len(q) - n : t[i] = q[n + i]
  <2>1. n + 1 \in Nat \ {0} /\ Len(q) \in 0 .. Len(q)
    BY <1>1, <1>2
  <2>2. /\ t \in Path
        /\ Len(t) = IF n + 1 <= Len(q) THEN Len(q) - (n + 1) + 1 ELSE 0
        /\ \A i \in 1 .. Len(q) - (n + 1) + 1 : t[i] = q[n + 1 + i - 1]
    BY <2>1, PathPart
  <2>3. (IF n + 1 <= Len(q) THEN Len(q) - (n + 1) + 1 ELSE 0) = Len(q) - n
    BY <1>1, <1>2
  <2>4. ASSUME NEW i \in 1 .. Len(q) - n PROVE t[i] = q[n + i]
    <3>1. i \in 1 .. Len(q) - (n + 1) + 1 /\ n + 1 + i - 1 = n + i
      BY <1>1, <1>2
    <3> QED BY <2>2, <3>1
  <2> QED BY <2>2, <2>3, <2>4
<1>4. Raised(p, q) = f \o t
  BY <1>1, Prefix DEF Raised
<1> HIDE DEF n, f, t
<1>5. /\ f \o t \in Path /\ Len(f \o t) = Len(f) + Len(t)
      /\ \A i \in 1 .. Len(f) + Len(t) : (f \o t)[i] = IF i <= Len(f) THEN f[i] ELSE t[i - Len(f)]
  BY <1>1, <1>3, ConcatProperties DEF Path
<1>6. Len(f \o t) = Len(q) - 1
  BY <1>1, <1>2, <1>3, <1>5
<1>7. ASSUME NEW i \in 1 .. Len(q) - 1
      PROVE  (f \o t)[i] = IF i < n THEN q[i] ELSE q[i + 1]
  <2>1. (f \o t)[i] = IF i <= n - 1 THEN f[i] ELSE t[i - (n - 1)]
    BY <1>1, <1>2, <1>3, <1>5
  <2>2. CASE i < n
    <3>1. i \in 1 .. n - 1 /\ i <= n - 1
      BY <1>1, <2>2
    <3> QED BY <1>1, <1>2, <2>1, <2>2, <3>1
  <2>3. CASE ~(i < n)
    <3>1. i - (n - 1) \in 1 .. Len(q) - n /\ n + (i - (n - 1)) = i + 1 /\ ~(i <= n - 1)
      BY <1>1, <1>2, <2>3
    <3> QED BY <1>3, <2>1, <2>3, <3>1
  <2> QED BY <2>2, <2>3
<1>8. Above(f, f \o t)
  <2>1. \A i \in 1 .. Len(f) : (f \o t)[i] = f[i]
    BY <1>1, <1>2, <1>3, <1>5
  <2> QED BY <1>1, <1>2, <1>6, <2>1 DEF Above
<1> QED BY <1>2, <1>4, <1>5, <1>6, <1>7, <1>8 DEF n, f

\* Any other node stays.
LEMMA RaisedOut ==
  ASSUME NEW p \in Path, p # <<>>, NEW q \in Path, ~Above(Sibling(p), q)
  PROVE  Raised(p, q) = q
  BY Family, Prefix DEF Raised

\* A node below the parent gets a step from parent to sibling.
LEMMA LoweredIn ==
  ASSUME NEW p \in Path, p # <<>>, NEW q \in Path, Above(Front(p), q)
  PROVE  /\ Lowered(p, q) \in Path /\ Len(Lowered(p, q)) = Len(q) + 1
         /\ \A i \in 1 .. Len(q) + 1 :
               Lowered(p, q)[i] = IF i <= Len(p) THEN Sibling(p)[i] ELSE q[i - 1]
<1> DEFINE n == Len(p)
           f == Sibling(p)
           t == SubSeq(q, n, Len(q))
<1>1. /\ n \in Nat \ {0} /\ f \in Path /\ Len(f) = n
      /\ Front(p) \in Path /\ Len(Front(p)) = n - 1
  BY Family
<1>2. Len(q) \in Nat /\ n - 1 <= Len(q)
  BY <1>1, PathType DEF Above
<1>3. t \in Path /\ Len(t) = Len(q) + 1 - n /\ \A i \in 1 .. Len(q) + 1 - n : t[i] = q[n + i - 1]
  <2>1. Len(q) \in 0 .. Len(q)
    BY <1>2
  <2>2. /\ t \in Path
        /\ Len(t) = IF n <= Len(q) THEN Len(q) - n + 1 ELSE 0
        /\ \A i \in 1 .. Len(q) - n + 1 : t[i] = q[n + i - 1]
    BY <1>1, <2>1, PathPart
  <2>3. (IF n <= Len(q) THEN Len(q) - n + 1 ELSE 0) = Len(q) + 1 - n
    BY <1>1, <1>2
  <2>4. Len(q) - n + 1 = Len(q) + 1 - n
    BY <1>1, <1>2
  <2> QED BY <2>2, <2>3, <2>4
<1>4. Lowered(p, q) = f \o t
  BY <1>1, Prefix DEF Lowered
<1> HIDE DEF n, f, t
<1>5. /\ f \o t \in Path /\ Len(f \o t) = Len(f) + Len(t)
      /\ \A i \in 1 .. Len(f) + Len(t) : (f \o t)[i] = IF i <= Len(f) THEN f[i] ELSE t[i - Len(f)]
  BY <1>1, <1>3, ConcatProperties DEF Path
<1>6. Len(f) + Len(t) = Len(q) + 1
  BY <1>1, <1>2, <1>3
<1>7. ASSUME NEW i \in 1 .. Len(q) + 1
      PROVE  (f \o t)[i] = IF i <= n THEN f[i] ELSE q[i - 1]
  <2>1. (f \o t)[i] = IF i <= n THEN f[i] ELSE t[i - n]
    BY <1>1, <1>5, <1>6
  <2>2. CASE ~(i <= n)
    <3>1. i - n \in 1 .. Len(q) + 1 - n /\ n + (i - n) - 1 = i - 1
      BY <1>1, <1>2, <2>2
    <3> QED BY <1>3, <2>1, <2>2, <3>1
  <2> QED BY <2>1, <2>2
<1> QED BY <1>4, <1>5, <1>6, <1>7 DEF n, f

\* Raising a node, then lowering it, leads back to it.
LEMMA LoweredRaised ==
  ASSUME NEW p \in Path, p # <<>>, NEW q \in Path,
         Above(Sibling(p), q) \/ ~Above(Front(p), q)
  PROVE  Lowered(p, Raised(p, q)) = q
<1>1. /\ Len(p) \in Nat \ {0} /\ Front(p) \in Path /\ Sibling(p) \in Path
      /\ Len(Sibling(p)) = Len(p) /\ Above(Front(p), Sibling(p))
  BY Family DEF Above
<1>2. Len(q) \in Nat
  BY PathType
<1>3. CASE Above(Sibling(p), q)
  <2> DEFINE r == Raised(p, q)
  <2>1. /\ r \in Path /\ Len(r) = Len(q) - 1 /\ Len(q) >= Len(p)
        /\ \A i \in 1 .. Len(q) - 1 : r[i] = IF i < Len(p) THEN q[i] ELSE q[i + 1]
        /\ Above(Front(p), r)
    BY <1>3, RaisedIn
  <2> HIDE DEF r
  <2>2. /\ Lowered(p, r) \in Path /\ Len(Lowered(p, r)) = Len(r) + 1
        /\ \A i \in 1 .. Len(r) + 1 :
               Lowered(p, r)[i] = IF i <= Len(p) THEN Sibling(p)[i] ELSE r[i - 1]
    BY <2>1, LoweredIn
  <2>3. Len(r) + 1 = Len(q)
    BY <1>2, <2>1
  <2>4. ASSUME NEW i \in 1 .. Len(q) PROVE Lowered(p, r)[i] = q[i]
    <3>1. CASE i <= Len(p)
      <4>1. Sibling(p)[i] = q[i]
        BY <1>1, <1>2, <1>3, <3>1 DEF Above
      <4> QED BY <2>2, <2>3, <3>1, <4>1
    <3>2. CASE ~(i <= Len(p))
      <4>1. i - 1 \in 1 .. Len(q) - 1 /\ ~(i - 1 < Len(p)) /\ i - 1 + 1 = i
        BY <1>1, <1>2, <3>2
      <4>2. r[i - 1] = q[i]
        BY <2>1, <4>1
      <4> QED BY <2>2, <2>3, <3>2, <4>2
    <3> QED BY <3>1, <3>2
  <2>5. Lowered(p, r) = q
    BY <2>2, <2>3, <2>4, SamePath
  <2> QED BY <2>5 DEF r
<1>4. CASE ~Above(Front(p), q)
  <2>1. ~Above(Sibling(p), q)
    BY <1>1, <1>4, AboveChain
  <2>2. Raised(p, q) = q
    BY <2>1, RaisedOut
  <2>3. ~IsPrefix(Front(p), q)
    BY <1>1, <1>4, Prefix
  <2> QED BY <2>2, <2>3 DEF Lowered
<1> QED BY <1>3, <1>4

---------------------------------------------------------------------------
(* Trees.                                                                  *)

Nodes(l) == Paths(l) \cup DOMAIN l.split

\* w is the leaf one gets to from n by the left or upper child each time.
Leftmost(n, w) == Above(n, w) /\ \A i \in Len(n) + 1 .. Len(w) : w[i] = 0

\* There are finitely many splits, and each gives either half a share of it.
Splits(l) ==
  /\ IsFiniteSet(DOMAIN l.split)
  /\ \A q \in DOMAIN l.split : l.split[q].sbs \in BOOLEAN /\ l.split[q].ratio \in 0 .. Unit

\* IsTree, with what splitting and removing must know of the nodes further up
\* and down.
Tree(l) ==
  /\ Splits(l)
  /\ l = [leaf |-> l.leaf, split |-> l.split]
  /\ Nodes(l) \subseteq Path /\ <<>> \in Nodes(l)
  /\ Paths(l) \cap DOMAIN l.split = {}
  /\ \A q \in DOMAIN l.split, c \in {0, 1} : Append(q, c) \in Nodes(l)
  /\ \A q \in Path, r \in Nodes(l) : Above(q, r) /\ q # r => q \in DOMAIN l.split
  /\ \A q \in Nodes(l) : \E w \in Paths(l) : Leftmost(q, w)
  /\ \A q, r \in Paths(l) : l.leaf[q] = l.leaf[r] => q = r

\* Trees are trees.
LEMMA TreeIsTree ==
  ASSUME NEW l, Tree(l)
  PROVE  IsTree(l)
<1>1. /\ Paths(l) \cap DOMAIN l.split = {} /\ <<>> \in Nodes(l)
      /\ \A q \in DOMAIN l.split, c \in {0, 1} : Append(q, c) \in Nodes(l)
      /\ \A q, r \in Paths(l) : l.leaf[q] = l.leaf[r] => q = r
  BY DEF Tree
<1>2. ASSUME NEW p \in Nodes(l) \ {<<>>} PROVE Front(p) \in DOMAIN l.split
  <2>1. p \in Path /\ p # <<>>
    BY DEF Tree
  <2>2. /\ Front(p) \in Path /\ Len(Front(p)) = Len(p) - 1 /\ Len(p) \in Nat \ {0}
        /\ \A i \in 1 .. Len(p) - 1 : Front(p)[i] = p[i]
    BY <2>1, Family
  <2>3. Above(Front(p), p) /\ Front(p) # p
    BY <2>2 DEF Above
  <2> QED BY <2>2, <2>3 DEF Tree
<1> QED BY <1>1, <1>2 DEF IsTree, Nodes

\* A session of a tree has one path.
LEMMA PathOfLeaf ==
  ASSUME NEW l, NEW s \in Sessions(l)
  PROVE  PathOf(l, s) \in Paths(l) /\ l.leaf[PathOf(l, s)] = s
  BY DEF PathOf, Sessions

\* A tree has a first session.
LEMMA FirstIsSession ==
  ASSUME NEW l, Tree(l)
  PROVE  FirstSession(l) \in Sessions(l)
<1>1. PICK w \in Paths(l) : Leftmost(<<>>, w)
  BY DEF Tree
<1>2. Len(<<>>) = 0
  OBVIOUS
<1>3. w \in Path
  BY DEF Tree, Nodes
<1>4. DOMAIN w = 1 .. Len(w)
  BY <1>3, LenProperties DEF Path
<1>5. \A i \in DOMAIN w : w[i] = 0
  BY <1>1, <1>2, <1>4 DEF Leftmost
<1>6. (CHOOSE q \in Paths(l) : \A i \in DOMAIN q : q[i] = 0) \in Paths(l)
  BY <1>5
<1> QED BY <1>6 DEF FirstSession, Sessions

\* The tree of a new tab.
LEMMA LeafIsTree ==
  ASSUME NEW s
  PROVE  Tree(Leaf(s)) /\ Sessions(Leaf(s)) = {s}
<1> DEFINE l == Leaf(s)
<1>1. /\ l = [leaf |-> l.leaf, split |-> l.split]
      /\ Paths(l) = {<<>>} /\ DOMAIN l.split = {} /\ l.leaf[<<>>] = s
  BY DEF Leaf, Paths
<1>2. Sessions(l) = {s}
  BY <1>1 DEF Sessions
<1> HIDE DEF l
<1>3. <<>> \in Path /\ Len(<<>>) = 0
  BY EmptySeq DEF Path
<1>4. Leftmost(<<>>, <<>>)
  BY <1>3 DEF Leftmost, Above
<1>5. ASSUME NEW q \in Path, Above(q, <<>>) PROVE q = <<>>
  <2>1. Len(q) \in Nat
    BY PathType
  <2>2. Len(q) = 0
    BY <1>3, <1>5, <2>1 DEF Above
  <2> QED BY <1>3, <1>5, <2>2, AboveBoth
<1>6. Splits(l)
  BY <1>1, FS_EmptySet DEF Splits
<1>7. Tree(l)
  BY <1>1, <1>3, <1>4, <1>5, <1>6 DEF Tree, Nodes
<1> QED BY <1>2, <1>7 DEF l

\* Only the ratio of a split changes when its divider moves.
LEMMA ResizeIsTree ==
  ASSUME NEW l, Tree(l), NEW s, NEW sbs, NEW delta \in Int
  PROVE  /\ Tree(ResizeSplit(l, s, sbs, delta))
         /\ Sessions(ResizeSplit(l, s, sbs, delta)) = Sessions(l)
<1> DEFINE r == ResizeSplit(l, s, sbs, delta)
<1>1. l = [leaf |-> l.leaf, split |-> l.split]
  BY DEF Tree
<1>2. r = [leaf |-> r.leaf, split |-> r.split] /\ r.leaf = l.leaf /\ DOMAIN r.split = DOMAIN l.split
  BY <1>1 DEF ResizeSplit
<1>3. Splits(l)
  BY DEF Tree
<1>4. ASSUME NEW q \in DOMAIN l.split
      PROVE  r.split[q].sbs \in BOOLEAN /\ r.split[q].ratio \in 0 .. Unit
  <2> DEFINE around == Around(l, s, sbs)
             Ratio(n) == MostOf(Unit \div 10, LeastOf(n + delta, 9 * (Unit \div 10)))
  <2>1. PICK x : around # {} => r = [l EXCEPT !.split[x].ratio = Ratio(@)]
    BY DEF ResizeSplit
  <2> DEFINE ratio == Ratio(l.split[x].ratio)
  <2>2. l.split[q].sbs \in BOOLEAN /\ l.split[q].ratio \in 0 .. Unit
    BY <1>3 DEF Splits
  <2>3. CASE around = {}
    BY <2>2, <2>3 DEF ResizeSplit
  <2>4. \A n \in Int : Ratio(n) \in 0 .. Unit
    BY DEF MostOf, LeastOf, Unit
  <2> HIDE DEF r, around, Ratio
  <2>5. CASE around # {} /\ q # x
    <3>1. r.split[q] = l.split[q]
      BY <1>1, <2>1, <2>5
    <3> QED BY <2>2, <3>1
  <2>6. CASE around # {} /\ q = x
    <3>1. r.split[q] = [l.split[q] EXCEPT !.ratio = ratio]
      <4>1. r.split = [l.split EXCEPT ![x] = [l.split[x] EXCEPT !.ratio = ratio]]
        BY <1>1, <2>1, <2>6
      <4> QED BY <2>6, <4>1
    <3>2. r.split[q].sbs = l.split[q].sbs
      BY <3>1
    <3>3. r.split[q].ratio = ratio \/ r.split[q].ratio = l.split[q].ratio
      BY <3>1
    <3>4. ratio \in 0 .. Unit
      BY <2>2, <2>6, <2>4
    <3> QED BY <2>2, <3>2, <3>3, <3>4
  <2> QED BY <2>3, <2>5, <2>6
<1> HIDE DEF r
<1>5. Splits(r)
  BY <1>2, <1>3, <1>4 DEF Splits
<1>6. Paths(r) = Paths(l) /\ Nodes(r) = Nodes(l) /\ Sessions(r) = Sessions(l)
  BY <1>2 DEF Paths, Nodes, Sessions
<1>7. Tree(r)
  BY <1>2, <1>5, <1>6 DEF Tree
<1> QED BY <1>6, <1>7 DEF r

\* Splitting a pane adds the new session beside the old one.
LEMMA SplitIsTree ==
  ASSUME NEW l, Tree(l), NEW s \in Sessions(l), NEW sbs \in BOOLEAN, NEW new, new \notin Sessions(l)
  PROVE  /\ Tree(SplitLayout(l, s, sbs, new))
         /\ Sessions(SplitLayout(l, s, sbs, new)) = Sessions(l) \cup {new}
<1> DEFINE r == SplitLayout(l, s, sbs, new)
           p == PathOf(l, s)
           a == Append(p, 0)
           b == Append(p, 1)
<1>1. p \in Paths(l) /\ l.leaf[p] = s
  BY PathOfLeaf
<1>2. p \in Path
  BY <1>1 DEF Tree, Nodes
<1>3. /\ a \in Path /\ Len(a) = Len(p) + 1 /\ \A i \in 1 .. Len(p) : a[i] = p[i]
      /\ a[Len(p) + 1] = 0 /\ Above(p, a)
  BY <1>2, PathChild
<1>4. /\ b \in Path /\ Len(b) = Len(p) + 1 /\ \A i \in 1 .. Len(p) : b[i] = p[i]
      /\ b[Len(p) + 1] = 1 /\ Above(p, b)
  BY <1>2, PathChild
<1>5. /\ r = [leaf |-> r.leaf, split |-> r.split]
      /\ DOMAIN r.leaf = (Paths(l) \ {p}) \cup {a, b}
      /\ \A q \in DOMAIN r.leaf : r.leaf[q] = IF q = a THEN s ELSE IF q = b THEN new ELSE l.leaf[q]
      /\ DOMAIN r.split = DOMAIN l.split \cup {p}
      /\ \A q \in DOMAIN r.split :
           r.split[q] = IF q = p THEN [sbs |-> sbs, ratio |-> Unit \div 2] ELSE l.split[q]
  BY DEF SplitLayout
<1> HIDE DEF r, p, a, b
<1>6. Len(p) \in Nat /\ p # a /\ p # b /\ a # b
  BY <1>2, <1>3, <1>4, PathType
<1>7. p \notin DOMAIN l.split
  BY <1>1 DEF Tree
<1>8. a \notin Nodes(l) /\ b \notin Nodes(l)
  BY <1>2, <1>3, <1>4, <1>6, <1>7 DEF Tree
<1>9. Nodes(r) = Nodes(l) \cup {a, b}
  BY <1>1, <1>5 DEF Nodes, Paths
<1>10. Paths(r) = (Paths(l) \ {p}) \cup {a, b}
  BY <1>5 DEF Paths
<1>11. Nodes(r) \subseteq Path /\ <<>> \in Nodes(r)
  BY <1>3, <1>4, <1>9 DEF Tree
<1>12. Paths(r) \cap DOMAIN r.split = {}
  BY <1>5, <1>6, <1>8, <1>10 DEF Tree, Nodes
<1>13. ASSUME NEW q \in DOMAIN r.split, NEW c \in {0, 1} PROVE Append(q, c) \in Nodes(r)
  BY <1>5, <1>9 DEF Tree, a, b
<1>14. ASSUME NEW q \in Path, NEW n \in Nodes(r), Above(q, n), q # n
       PROVE  q \in DOMAIN r.split
  <2>1. CASE n \in Nodes(l)
    BY <1>5, <1>14, <2>1 DEF Tree
  <2>2. CASE n = a \/ n = b
    <3>1. Len(q) \in Nat /\ Len(q) <= Len(n) /\ Len(n) = Len(p) + 1
      BY <1>3, <1>4, <1>14, <2>2, PathType DEF Above
    <3>2. Len(q) # Len(n)
      BY <1>3, <1>4, <1>14, <2>2, <3>1, AboveBoth
    <3>3. Len(q) <= Len(p)
      BY <1>6, <3>1, <3>2
    <3>4. \A i \in 1 .. Len(q) : q[i] = n[i] /\ n[i] = p[i]
      BY <1>3, <1>4, <1>6, <1>14, <2>2, <3>1, <3>3 DEF Above
    <3>5. Above(q, p)
      BY <3>3, <3>4 DEF Above
    <3>6. p \in Nodes(l)
      BY <1>1 DEF Nodes
    <3> QED BY <1>5, <3>5, <3>6 DEF Tree
  <2> QED BY <1>9, <2>1, <2>2
<1>15. ASSUME NEW q \in Nodes(r) PROVE \E w \in Paths(r) : Leftmost(q, w)
  <2>1. Leftmost(a, a) /\ Leftmost(b, b)
    BY <1>3, <1>4, <1>6 DEF Leftmost, Above
  <2>2. CASE q \in Nodes(l)
    <3>1. PICK w \in Paths(l) : Leftmost(q, w)
      BY <2>2 DEF Tree
    <3>2. CASE w = p
      <4>1. q \in Path
        BY <2>2 DEF Tree
      <4>2. Above(q, p) /\ \A i \in Len(q) + 1 .. Len(p) : p[i] = 0
        BY <3>1, <3>2 DEF Leftmost
      <4>3. Above(q, a)
        BY <1>2, <1>3, <4>1, <4>2, AboveChain
      <4>4. Len(q) \in Nat
        BY <4>1, PathType
      <4>5. \A i \in Len(q) + 1 .. Len(a) : a[i] = 0
        BY <1>3, <1>6, <4>2, <4>4
      <4> QED BY <1>10, <4>3, <4>5 DEF Leftmost
    <3> QED BY <1>10, <3>1, <3>2
  <2> QED BY <1>9, <1>10, <2>1, <2>2
<1>16. \A q \in Paths(l) : l.leaf[q] \in Sessions(l)
  BY DEF Sessions
<1>17. /\ r.leaf[a] = s /\ r.leaf[b] = new
       /\ \A q \in Paths(l) \ {p} : r.leaf[q] = l.leaf[q]
  BY <1>5, <1>6, <1>8 DEF Nodes
<1>18. ASSUME NEW q \in Paths(r), NEW t \in Paths(r), r.leaf[q] = r.leaf[t] PROVE q = t
  BY <1>1, <1>10, <1>16, <1>17, <1>18 DEF Tree
<1>19. Sessions(r) = Sessions(l) \cup {new}
  <2>1. ASSUME NEW x \in Sessions(r) PROVE x \in Sessions(l) \cup {new}
    BY <1>10, <1>16, <1>17, <2>1 DEF Sessions
  <2>2. ASSUME NEW x \in Sessions(l) PROVE x \in Sessions(r)
    <3>1. PICK q \in Paths(l) : x = l.leaf[q]
      BY <2>2 DEF Sessions
    <3> QED BY <1>1, <1>10, <1>17, <3>1 DEF Sessions
  <2>3. new \in Sessions(r)
    BY <1>10, <1>17 DEF Sessions
  <2> QED BY <2>1, <2>2, <2>3
<1>20. Splits(r)
  <2>1. Splits(l)
    BY DEF Tree
  <2>2. IsFiniteSet(DOMAIN r.split)
    BY <1>5, <2>1, FS_AddElement DEF Splits
  <2>3. ASSUME NEW q \in DOMAIN r.split
        PROVE  r.split[q].sbs \in BOOLEAN /\ r.split[q].ratio \in 0 .. Unit
    <3>1. CASE q = p
      BY <1>5, <3>1 DEF Unit
    <3>2. CASE q # p
      BY <1>5, <2>1, <3>2 DEF Splits
    <3> QED BY <3>1, <3>2
  <2> QED BY <2>2, <2>3 DEF Splits
<1>21. Tree(r)
  BY <1>5, <1>11, <1>12, <1>13, <1>14, <1>15, <1>18, <1>20 DEF Tree
<1> QED BY <1>19, <1>21 DEF r

\* Closing a pane of several: its sibling takes the place of their parent, with
\* all that is below it, and nothing else changes.
LEMMA RemoveIsTree ==
  ASSUME NEW l, Tree(l), NEW s \in Sessions(l), Sessions(l) # {s}
  PROVE  /\ Tree(RemoveLayout(l, s))
         /\ Sessions(RemoveLayout(l, s)) = Sessions(l) \ {s}
<1> DEFINE r == RemoveLayout(l, s)
           p == PathOf(l, s)
           par == Front(p)
           sib == Sibling(p)
           n == Len(p)
<1>1. p \in Paths(l) /\ l.leaf[p] = s
  BY PathOfLeaf
<1>2. p \in Path /\ p \in Nodes(l)
  BY <1>1 DEF Tree, Nodes
<1>3. p # <<>>
  <2> SUFFICES ASSUME p = <<>> PROVE FALSE
    OBVIOUS
  <2>1. PICK t \in Sessions(l) : t # s
    OBVIOUS
  <2>2. PICK q \in Paths(l) : l.leaf[q] = t
    BY <2>1 DEF Sessions
  <2>3. q # p /\ q \in Path /\ q \in Nodes(l)
    BY <1>1, <2>1, <2>2 DEF Tree, Nodes
  <2>4. Above(p, q)
    BY <2>3, PathType DEF Above
  <2>5. p \in DOMAIN l.split
    BY <1>2, <2>3, <2>4 DEF Tree
  <2> QED BY <1>1, <2>5 DEF Tree
<1>4. /\ n \in Nat \ {0}
      /\ par \in Path /\ Len(par) = n - 1 /\ \A i \in 1 .. n - 1 : par[i] = p[i]
      /\ sib \in Path /\ Len(sib) = n /\ \A i \in 1 .. n - 1 : sib[i] = p[i]
      /\ sib[n] = 1 - p[n] /\ sib = Append(par, 1 - p[n])
  BY <1>2, <1>3, Family
<1>5. p[n] \in {0, 1} /\ 1 - p[n] \in {0, 1} /\ p[n] # 1 - p[n]
  BY <1>2, <1>4, PathType
<1>6. /\ r = [leaf |-> r.leaf, split |-> r.split]
      /\ DOMAIN r.leaf = {Raised(p, q) : q \in Paths(l) \ {p}}
      /\ \A q \in DOMAIN r.leaf : r.leaf[q] = l.leaf[Lowered(p, q)]
      /\ DOMAIN r.split = {Raised(p, q) : q \in DOMAIN l.split \ {par}}
      /\ \A q \in DOMAIN r.split : r.split[q] = l.split[Lowered(p, q)]
  BY DEF RemoveLayout
<1> HIDE DEF r, p, par, sib, n
<1>7. Above(par, p) /\ par # p /\ Above(par, sib) /\ par # sib
  BY <1>4 DEF Above, n
<1>8. par \in DOMAIN l.split
  BY <1>2, <1>4, <1>7 DEF Tree
<1>9. sib \in Nodes(l)
  BY <1>4, <1>5, <1>8 DEF Tree
<1>10. sib # p /\ ~Above(sib, p) /\ ~Above(p, sib)
  <2>1. n \in 1 .. n
    BY <1>4
  <2> QED BY <1>4, <1>5, <2>1 DEF Above, n
\* Below the parent are the leaf that goes and what is below its sibling.
<1>11. ASSUME NEW q \in Nodes(l) \ {p, par}, Above(par, q) PROVE Above(sib, q)
  <2>1. q \in Path /\ Len(q) \in Nat
    BY PathType DEF Tree
  <2>2. Len(q) >= n
    <3> SUFFICES ASSUME Len(q) <= Len(par) PROVE FALSE
      BY <1>4, <2>1
    <3> QED BY <1>4, <1>11, <2>1, AboveBoth
  <2>3. q[n] \in {0, 1} /\ (q[n] = p[n] => Above(p, q))
    <3>1. n \in 1 .. Len(q)
      BY <1>4, <2>1, <2>2
    <3>2. q[n] \in {0, 1}
      BY <2>1, <3>1, PathType
    <3>3. ASSUME q[n] = p[n], NEW i \in 1 .. n PROVE p[i] = q[i]
      <4>1. i \in 1 .. n - 1 \/ i = n
        BY <1>4
      <4> QED BY <1>4, <1>11, <3>3, <4>1 DEF Above
    <3> QED BY <2>2, <3>2, <3>3 DEF Above, n
  <2>4. ~Above(p, q)
    <3> SUFFICES ASSUME Above(p, q) PROVE FALSE
      OBVIOUS
    <3>1. p \in DOMAIN l.split
      BY <1>2 DEF Tree
    <3> QED BY <1>1, <3>1 DEF Tree
  <2>5. q[n] = 1 - p[n]
    BY <1>5, <2>3, <2>4
  <2>6. ASSUME NEW i \in 1 .. n PROVE sib[i] = q[i]
    <3>1. i \in 1 .. n - 1 \/ i = n
      BY <1>4
    <3> QED BY <1>4, <1>11, <2>5, <3>1 DEF Above
  <2> QED BY <1>4, <2>2, <2>6 DEF Above
<1>12. \A q \in Nodes(l) \ {p, par} : Above(sib, q) \/ ~Above(par, q)
  BY <1>11
<1>13. ASSUME NEW q \in Nodes(l) \ {p, par} PROVE Lowered(p, Raised(p, q)) = q
  <2>1. q \in Path
    BY DEF Tree
  <2> QED BY <1>2, <1>3, <1>12, <2>1, LoweredRaised DEF par, sib
<1>14. ASSUME NEW q \in Nodes(l) \ {p, par}, NEW t \in Nodes(l) \ {p, par},
              Raised(p, q) = Raised(p, t)
       PROVE  q = t
  BY <1>13, <1>14
<1>15. ASSUME NEW q \in Path, Above(sib, q)
       PROVE  /\ Raised(p, q) \in Path /\ Len(Raised(p, q)) = Len(q) - 1 /\ Len(q) >= n
              /\ \A i \in 1 .. Len(q) - 1 : Raised(p, q)[i] = IF i < n THEN q[i] ELSE q[i + 1]
              /\ Above(par, Raised(p, q))
  BY <1>2, <1>3, <1>15, RaisedIn DEF par, sib, n
<1>16. ASSUME NEW q \in Path, ~Above(sib, q) PROVE Raised(p, q) = q
  BY <1>2, <1>3, <1>16, RaisedOut DEF sib
<1>17. ASSUME NEW q \in Path, Above(sib, q) PROVE Above(par, q)
  BY <1>4, <1>7, <1>17, AboveChain
<1>18. Paths(r) = {Raised(p, q) : q \in Paths(l) \ {p}}
  BY <1>6 DEF Paths
<1>19. par \notin Paths(l)
  BY <1>8 DEF Tree
<1>20. p \notin DOMAIN l.split
  BY <1>1 DEF Tree
<1>21. Nodes(r) = {Raised(p, q) : q \in Nodes(l) \ {p, par}}
  BY <1>6, <1>18, <1>19, <1>20 DEF Nodes
<1>22. Paths(l) \subseteq Nodes(l) /\ DOMAIN l.split \subseteq Nodes(l)
  BY DEF Nodes
<1>23. Nodes(r) \subseteq Path
  <2> SUFFICES ASSUME NEW q \in Nodes(l) \ {p, par} PROVE Raised(p, q) \in Path
    BY <1>21
  <2>1. q \in Path
    BY DEF Tree
  <2> QED BY <1>15, <1>16, <2>1
\* The sibling is raised to where the parent was.
<1>24. Raised(p, sib) = par
  <2>1. Above(sib, sib)
    BY <1>4 DEF Above
  <2>2. /\ Raised(p, sib) \in Path /\ Len(Raised(p, sib)) = Len(sib) - 1
        /\ Above(par, Raised(p, sib))
    BY <1>4, <1>15, <2>1
  <2>3. Len(Raised(p, sib)) <= Len(par)
    BY <1>4, <2>2
  <2> QED BY <1>4, <2>2, <2>3, AboveBoth
<1>25. sib \in Nodes(l) \ {p, par}
  BY <1>7, <1>9, <1>10
<1>26. par \in Nodes(r)
  BY <1>21, <1>24, <1>25
<1>27. <<>> \in Nodes(r)
  <2>1. CASE par = <<>>
    BY <1>26, <2>1
  <2>2. CASE par # <<>>
    <3>1. <<>> \in Nodes(l) \ {p, par} /\ <<>> \in Path
      BY <1>3, <2>2 DEF Tree
    <3>2. Len(<<>>) = 0
      OBVIOUS
    <3>3. ~Above(sib, <<>>)
      BY <1>4, <3>2 DEF Above
    <3>4. Raised(p, <<>>) = <<>>
      BY <1>16, <3>1, <3>3
    <3> QED BY <1>21, <3>1, <3>4
  <2> QED BY <2>1, <2>2
<1>28. Paths(r) \cap DOMAIN r.split = {}
  <2> SUFFICES ASSUME NEW q \in Paths(l) \ {p}, NEW t \in DOMAIN l.split \ {par},
                      Raised(p, q) = Raised(p, t)
               PROVE  FALSE
    BY <1>6, <1>18
  <2>1. q \in Nodes(l) \ {p, par} /\ t \in Nodes(l) \ {p, par}
    BY <1>19, <1>20, <1>22
  <2>2. q = t
    BY <1>14, <2>1
  <2> QED BY <2>2 DEF Tree
<1>29. ASSUME NEW q \in Nodes(l) PROVE q \in Path /\ Len(q) \in Nat
  BY PathType DEF Tree
\* Every split has its two children.
<1>30. ASSUME NEW m \in DOMAIN r.split, NEW c \in {0, 1} PROVE Append(m, c) \in Nodes(r)
  <2>1. PICK q \in DOMAIN l.split \ {par} : m = Raised(p, q)
    BY <1>6
  <2> DEFINE t == Append(q, c)
  <2>2. q \in Nodes(l) \ {p, par} /\ q \in Path /\ Len(q) \in Nat
    BY <1>20, <1>22, <1>29
  <2>3. /\ t \in Path /\ Len(t) = Len(q) + 1 /\ \A i \in 1 .. Len(q) : t[i] = q[i]
        /\ t[Len(q) + 1] = c /\ Above(q, t)
    BY <2>2, PathChild
  <2>4. t \in Nodes(l)
    BY DEF Tree
  <2>5. CASE Above(sib, q)
    <3>1. Above(sib, t) /\ Len(q) >= n
      BY <1>4, <1>15, <2>2, <2>3, <2>5, AboveChain
    <3>2. t # p /\ t # par
      <4>1. t # p
        BY <1>10, <3>1
      <4>2. Len(t) # Len(par)
        BY <1>4, <2>2, <2>3, <3>1
      <4> QED BY <4>1, <4>2
    <3>3. /\ Raised(p, t) \in Path /\ Len(Raised(p, t)) = Len(q)
          /\ \A i \in 1 .. Len(q) : Raised(p, t)[i] = IF i < n THEN t[i] ELSE t[i + 1]
      <4>1. /\ Raised(p, t) \in Path /\ Len(Raised(p, t)) = Len(t) - 1
            /\ \A i \in 1 .. Len(t) - 1 : Raised(p, t)[i] = IF i < n THEN t[i] ELSE t[i + 1]
        BY <1>15, <2>3, <3>1
      <4>2. Len(t) - 1 = Len(q)
        BY <2>2, <2>3
      <4> QED BY <4>1, <4>2
    <3>4. /\ m \in Path /\ Len(m) = Len(q) - 1
          /\ \A i \in 1 .. Len(q) - 1 : m[i] = IF i < n THEN q[i] ELSE q[i + 1]
      BY <1>15, <2>1, <2>2, <2>5
    <3>5. /\ Append(m, c) \in Path /\ Len(Append(m, c)) = Len(m) + 1
          /\ \A i \in 1 .. Len(m) : Append(m, c)[i] = m[i]
          /\ Append(m, c)[Len(m) + 1] = c
      BY <3>4, PathChild
    <3>6. Len(m) + 1 = Len(q)
      BY <2>2, <3>4
    <3> HIDE DEF t
    <3>7. ASSUME NEW i \in 1 .. Len(q) PROVE Append(m, c)[i] = Raised(p, t)[i]
      <4>1. CASE i = Len(q)
        <5>1. ~(i < n) /\ i + 1 = Len(q) + 1
          BY <1>4, <2>2, <3>1, <4>1
        <5> QED BY <2>3, <3>3, <3>5, <3>6, <4>1, <5>1
      <4>2. CASE i # Len(q)
        <5>1. i \in 1 .. Len(q) - 1 /\ i + 1 \in 1 .. Len(q) /\ i \in 1 .. Len(m)
          BY <2>2, <3>6, <4>2
        <5>2. Append(m, c)[i] = IF i < n THEN q[i] ELSE q[i + 1]
          BY <3>4, <3>5, <5>1
        <5>3. t[i] = q[i] /\ t[i + 1] = q[i + 1]
          BY <2>3, <5>1
        <5> QED BY <3>3, <5>2, <5>3
      <4> QED BY <4>1, <4>2
    <3>8. Append(m, c) = Raised(p, t)
      BY <3>3, <3>5, <3>6, <3>7, SamePath
    <3> QED BY <1>21, <2>4, <3>2, <3>8
  <2>6. CASE ~Above(sib, q)
    <3>1. m = q /\ Append(m, c) = t
      BY <1>16, <2>1, <2>2, <2>6
    <3>2. CASE t = par
      BY <1>26, <3>1, <3>2
    <3>3. CASE t # par
      <4> HIDE DEF t
      <4>1. \A i \in 1 .. n - 1 : par[i] = p[i] /\ par[i] = sib[i]
        BY <1>4
      <4>2. ASSUME Len(q) = n - 1, \A i \in 1 .. n - 1 : q[i] = par[i] PROVE FALSE
        BY <1>4, <2>2, <4>2, SamePath
      <4>3. t # p
        <5> SUFFICES ASSUME t = p PROVE FALSE
          OBVIOUS
        <5>1. Len(q) = n - 1 /\ \A i \in 1 .. n - 1 : q[i] = p[i]
          BY <1>4, <2>2, <2>3 DEF n
        <5> QED BY <4>1, <4>2, <5>1
      <4>4. ~Above(sib, t)
        <5> SUFFICES ASSUME Above(sib, t) PROVE FALSE
          OBVIOUS
        <5>1. n <= Len(q) + 1 /\ \A i \in 1 .. n : sib[i] = t[i]
          BY <1>4, <2>3 DEF Above
        <5>2. CASE n <= Len(q)
          <6>1. \A i \in 1 .. n : i \in 1 .. Len(q)
            BY <1>4, <2>2, <5>2
          <6>2. \A i \in 1 .. n : sib[i] = q[i]
            BY <2>3, <5>1, <6>1
          <6> QED BY <1>4, <2>6, <5>2, <6>2 DEF Above
        <5>3. CASE ~(n <= Len(q))
          <6>1. Len(q) = n - 1
            BY <1>4, <2>2, <5>1, <5>3
          <6>2. \A i \in 1 .. n - 1 : i \in 1 .. n /\ i \in 1 .. Len(q)
            BY <1>4, <6>1
          <6>3. \A i \in 1 .. n - 1 : q[i] = par[i]
            BY <2>3, <4>1, <5>1, <6>2
          <6> QED BY <4>2, <6>1, <6>3
        <5> QED BY <5>2, <5>3
      <4>5. Raised(p, t) = t
        BY <1>16, <2>3, <4>4
      <4> QED BY <1>21, <2>4, <3>1, <3>3, <4>3, <4>5 DEF t
    <3> QED BY <3>2, <3>3
  <2> QED BY <2>5, <2>6
\* What is above a node is a split.
<1>31. ASSUME NEW q \in Path, NEW m \in Nodes(r), Above(q, m), q # m
       PROVE  q \in DOMAIN r.split
  <2>1. PICK t \in Nodes(l) \ {p, par} : m = Raised(p, t)
    BY <1>21
  <2>2. t \in Path /\ Len(t) \in Nat /\ Len(q) \in Nat /\ m \in Path /\ Len(m) \in Nat
    BY <1>23, <1>29, PathType
  <2>3. Len(q) < Len(m) /\ \A i \in 1 .. Len(q) : q[i] = m[i]
    <3>1. Len(q) <= Len(m) /\ \A i \in 1 .. Len(q) : q[i] = m[i]
      BY <1>31 DEF Above
    <3>2. ~(Len(m) <= Len(q))
      BY <1>31, <2>2, AboveBoth
    <3> QED BY <2>2, <3>1, <3>2
  <2>4. CASE Above(sib, t)
    <3>1. /\ Len(m) = Len(t) - 1 /\ Len(t) >= n
          /\ \A i \in 1 .. Len(t) - 1 : m[i] = IF i < n THEN t[i] ELSE t[i + 1]
      BY <1>15, <2>1, <2>2, <2>4
    <3>2. CASE Len(q) < n - 1
      <4>1. \A i \in 1 .. Len(q) : i \in 1 .. Len(t) - 1 /\ i < n
        BY <1>4, <2>2, <2>3, <3>1, <3>2
      <4>2. \A i \in 1 .. Len(q) : q[i] = t[i]
        BY <2>3, <3>1, <4>1
      <4>3. Len(q) <= Len(t) /\ q # t /\ q # par /\ ~Above(sib, q)
        BY <1>4, <2>2, <2>3, <3>1, <3>2 DEF Above
      <4>4. q \in DOMAIN l.split
        BY <4>2, <4>3 DEF Above, Tree
      <4>5. Raised(p, q) = q
        BY <1>16, <4>3
      <4> QED BY <1>6, <4>3, <4>4, <4>5
    <3>3. CASE ~(Len(q) < n - 1)
      <4> DEFINE u == SubSeq(t, 1, Len(q) + 1)
      <4>1. Len(q) + 1 \in 0 .. Len(t) /\ Len(q) + 1 < Len(t) /\ Len(q) + 1 >= n
        BY <1>4, <2>2, <2>3, <3>1, <3>3
      <4>2. u \in Path /\ Len(u) = Len(q) + 1 /\ \A i \in 1 .. Len(q) + 1 : u[i] = t[i]
        BY <2>2, <4>1, PathStart
      <4> HIDE DEF u
      <4>3. Above(u, t) /\ u # t /\ u # par
        BY <1>4, <2>2, <4>1, <4>2 DEF Above
      <4>4. u \in DOMAIN l.split
        BY <4>2, <4>3 DEF Tree
      <4>5. Above(sib, u)
        <5>1. \A i \in 1 .. n : i \in 1 .. Len(q) + 1
          BY <1>4, <2>2, <4>1
        <5> QED BY <1>4, <2>4, <4>1, <4>2, <5>1 DEF Above
      <4>6. /\ Raised(p, u) \in Path /\ Len(Raised(p, u)) = Len(u) - 1
            /\ \A i \in 1 .. Len(u) - 1 : Raised(p, u)[i] = IF i < n THEN u[i] ELSE u[i + 1]
        BY <1>15, <4>2, <4>5
      <4>7. Len(u) - 1 = Len(q)
        BY <2>2, <4>2
      <4>8. ASSUME NEW i \in 1 .. Len(q) PROVE Raised(p, u)[i] = q[i]
        <5>1. i \in 1 .. Len(t) - 1 /\ i \in 1 .. Len(q) + 1 /\ i + 1 \in 1 .. Len(q) + 1
          BY <2>2, <4>1
        <5>2. q[i] = IF i < n THEN t[i] ELSE t[i + 1]
          BY <2>3, <3>1, <5>1
        <5>3. u[i] = t[i] /\ u[i + 1] = t[i + 1]
          BY <4>2, <5>1
        <5> QED BY <4>6, <4>7, <5>2, <5>3
      <4>9. Raised(p, u) = q
        BY <4>6, <4>7, <4>8, SamePath
      <4> QED BY <1>6, <4>3, <4>4, <4>9
    <3> QED BY <3>2, <3>3
  <2>5. CASE ~Above(sib, t)
    <3>1. m = t /\ ~Above(par, t)
      BY <1>12, <1>16, <2>1, <2>2, <2>5
    <3>2. q \in DOMAIN l.split
      BY <1>31, <2>1, <3>1 DEF Tree
    <3>3. q # par /\ ~Above(par, q)
      BY <1>4, <1>31, <2>2, <3>1, AboveChain
    <3>4. Raised(p, q) = q
      BY <1>16, <1>17, <3>3
    <3> QED BY <1>6, <3>2, <3>3, <3>4
  <2> QED BY <2>4, <2>5
\* Every node has a leftmost leaf.
<1>32. ASSUME NEW m \in Nodes(r) PROVE \E w \in Paths(r) : Leftmost(m, w)
  <2>1. PICK t \in Nodes(l) \ {p, par} : m = Raised(p, t)
    BY <1>21
  <2>2. t \in Path /\ Len(t) \in Nat
    BY <1>29
  <2>3. PICK w \in Paths(l) : Leftmost(t, w)
    BY DEF Tree
  <2>4. w \in Path /\ Len(w) \in Nat /\ w \in Nodes(l) /\ w # par
    BY <1>19, <1>22, <1>29
  <2>5. /\ Above(t, w) /\ Len(t) <= Len(w) /\ \A i \in 1 .. Len(t) : t[i] = w[i]
        /\ \A i \in Len(t) + 1 .. Len(w) : w[i] = 0
    BY <2>3 DEF Leftmost, Above
  <2>6. CASE Above(sib, t)
    <3>1. Above(sib, w) /\ w # p
      BY <1>4, <1>10, <2>2, <2>4, <2>5, <2>6, AboveChain
    <3>2. /\ Len(m) = Len(t) - 1 /\ Len(t) >= n
          /\ \A i \in 1 .. Len(t) - 1 : m[i] = IF i < n THEN t[i] ELSE t[i + 1]
      BY <1>15, <2>1, <2>2, <2>6
    <3> DEFINE v == Raised(p, w)
    <3>3. /\ v \in Path /\ Len(v) = Len(w) - 1
          /\ \A i \in 1 .. Len(w) - 1 : v[i] = IF i < n THEN w[i] ELSE w[i + 1]
      BY <1>15, <2>4, <3>1
    <3>4. v \in Paths(r)
      BY <1>18, <3>1
    <3> HIDE DEF v
    <3>5. ASSUME NEW i \in 1 .. Len(m) PROVE m[i] = v[i]
      <4>1. i \in 1 .. Len(t) - 1 /\ i \in 1 .. Len(w) - 1 /\ i \in 1 .. Len(t) /\ i + 1 \in 1 .. Len(t)
        BY <2>2, <2>4, <2>5, <3>2
      <4> QED BY <2>5, <3>2, <3>3, <4>1
    <3>6. ASSUME NEW i \in Len(m) + 1 .. Len(v) PROVE v[i] = 0
      <4>1. ~(i < n) /\ i \in 1 .. Len(w) - 1 /\ i + 1 \in Len(t) + 1 .. Len(w)
        BY <1>4, <2>2, <2>4, <3>2, <3>3
      <4> QED BY <2>5, <3>3, <4>1
    <3>7. Len(m) <= Len(v)
      BY <2>2, <2>4, <2>5, <3>2, <3>3
    <3> QED BY <3>4, <3>5, <3>6, <3>7 DEF Leftmost, Above
  <2>7. CASE ~Above(sib, t)
    <3>1. m = t /\ ~Above(par, t)
      BY <1>12, <1>16, <2>1, <2>2, <2>7
    <3>2. CASE ~Above(par, w)
      <4>1. w # p /\ Raised(p, w) = w
        BY <1>7, <1>16, <1>17, <2>4, <3>2
      <4>2. w \in Paths(r)
        BY <1>18, <4>1
      <4> QED BY <2>3, <3>1, <4>2
    <3>3. CASE Above(par, w)
      <4>1. Len(t) < n - 1
        <5> SUFFICES ASSUME n - 1 <= Len(t) PROVE FALSE
          BY <1>4, <2>2
        <5>1. \A i \in 1 .. n - 1 : i \in 1 .. Len(t)
          BY <1>4, <2>2
        <5>2. \A i \in 1 .. n - 1 : par[i] = t[i]
          BY <1>4, <2>5, <3>3, <5>1 DEF Above
        <5> QED BY <1>4, <3>1, <5>2 DEF Above
      \* The leaf down from the sibling, or from the node itself.
      <4>2. \E v \in Paths(l) \ {p} :
               /\ Above(sib, v) /\ \A i \in 1 .. Len(t) : t[i] = v[i]
               /\ \A i \in Len(t) + 1 .. Len(v) : i # n => v[i] = 0
        <5>1. CASE w = p
          <6>1. PICK v \in Paths(l) : Leftmost(sib, v)
            BY <1>9 DEF Tree
          <6>2. /\ Above(sib, v) /\ Len(sib) <= Len(v) /\ \A i \in 1 .. Len(sib) : sib[i] = v[i]
                /\ \A i \in Len(sib) + 1 .. Len(v) : v[i] = 0
            BY <6>1 DEF Leftmost, Above
          <6>3. v \in Path /\ Len(v) \in Nat /\ v # p
            BY <1>10, <1>22, <1>29, <6>2
          <6>4. ASSUME NEW i \in 1 .. n - 1 PROVE v[i] = w[i]
            <7>1. i \in 1 .. Len(sib)
              BY <1>4
            <7> QED BY <1>4, <5>1, <6>2, <7>1
          <6>5. ASSUME NEW i \in 1 .. Len(t) PROVE t[i] = v[i]
            <7>1. i \in 1 .. n - 1
              BY <1>4, <2>2, <4>1
            <7> QED BY <2>5, <6>4, <7>1
          <6>6. ASSUME NEW i \in Len(t) + 1 .. Len(v), i # n PROVE v[i] = 0
            <7>1. CASE i < n
              <8>1. i \in 1 .. n - 1 /\ i \in Len(t) + 1 .. Len(w)
                BY <1>4, <2>2, <4>1, <5>1, <6>6, <7>1 DEF n
              <8> QED BY <2>5, <6>4, <8>1
            <7>2. CASE ~(i < n)
              <8>1. i \in Len(sib) + 1 .. Len(v)
                BY <1>4, <2>2, <6>3, <6>6, <7>2
              <8> QED BY <6>2, <8>1
            <7> QED BY <7>1, <7>2
          <6> QED BY <6>2, <6>3, <6>5, <6>6
        <5>2. CASE w # p
          <6>1. Above(sib, w)
            BY <1>11, <2>4, <3>3, <5>2
          <6> QED BY <2>5, <5>2, <6>1
        <5> QED BY <5>1, <5>2
      <4>3. PICK v \in Paths(l) \ {p} :
               /\ Above(sib, v) /\ \A i \in 1 .. Len(t) : t[i] = v[i]
               /\ \A i \in Len(t) + 1 .. Len(v) : i # n => v[i] = 0
        BY <4>2
      <4> DEFINE x == Raised(p, v)
      <4>4. v \in Path /\ Len(v) \in Nat
        BY <1>22, <1>29
      <4>5. /\ x \in Path /\ Len(x) = Len(v) - 1 /\ Len(v) >= n
            /\ \A i \in 1 .. Len(v) - 1 : x[i] = IF i < n THEN v[i] ELSE v[i + 1]
        BY <1>15, <4>3, <4>4
      <4>6. x \in Paths(r)
        BY <1>18
      <4> HIDE DEF x
      <4>7. ASSUME NEW i \in 1 .. Len(t) PROVE t[i] = x[i]
        <5>1. i < n /\ i \in 1 .. Len(v) - 1
          BY <1>4, <2>2, <4>1, <4>4, <4>5
        <5> QED BY <4>3, <4>5, <5>1
      <4>8. ASSUME NEW i \in Len(t) + 1 .. Len(x) PROVE x[i] = 0
        <5>1. i \in 1 .. Len(v) - 1 /\ i \in Len(t) + 1 .. Len(v) /\ i + 1 \in Len(t) + 1 .. Len(v)
          BY <2>2, <4>4, <4>5
        <5>2. (i < n => i # n) /\ (~(i < n) => i + 1 # n)
          BY <1>4, <2>2
        <5> QED BY <4>3, <4>5, <5>1, <5>2
      <4>9. Len(t) <= Len(x)
        BY <1>4, <2>2, <4>1, <4>4, <4>5
      <4> QED BY <3>1, <4>6, <4>7, <4>8, <4>9 DEF Leftmost, Above
    <3> QED BY <3>2, <3>3
  <2> QED BY <2>6, <2>7
<1>33. ASSUME NEW q \in Paths(l) \ {p}
       PROVE  Raised(p, q) \in Paths(r) /\ r.leaf[Raised(p, q)] = l.leaf[q]
  <2>1. q \in Nodes(l) \ {p, par}
    BY <1>19, <1>22
  <2> QED BY <1>6, <1>13, <1>18, <2>1
<1>34. ASSUME NEW q \in Paths(r), NEW t \in Paths(r), r.leaf[q] = r.leaf[t] PROVE q = t
  <2>1. PICK q1 \in Paths(l) \ {p} : q = Raised(p, q1)
    BY <1>18
  <2>2. PICK t1 \in Paths(l) \ {p} : t = Raised(p, t1)
    BY <1>18
  <2>3. l.leaf[q1] = l.leaf[t1]
    BY <1>33, <1>34, <2>1, <2>2
  <2>4. q1 = t1
    BY <2>3 DEF Tree
  <2> QED BY <2>1, <2>2, <2>4
<1>35. Sessions(r) = Sessions(l) \ {s}
  <2>1. ASSUME NEW x \in Sessions(r) PROVE x \in Sessions(l) \ {s}
    <3>1. PICK q \in Paths(r) : x = r.leaf[q]
      BY DEF Sessions
    <3>2. PICK q1 \in Paths(l) \ {p} : q = Raised(p, q1)
      BY <1>18
    <3>3. x = l.leaf[q1]
      BY <1>33, <3>1, <3>2
    <3>4. x # s
      BY <1>1, <3>3 DEF Tree
    <3> QED BY <3>3, <3>4 DEF Sessions
  <2>2. ASSUME NEW x \in Sessions(l) \ {s} PROVE x \in Sessions(r)
    <3>1. PICK q \in Paths(l) : x = l.leaf[q]
      BY DEF Sessions
    <3>2. q # p
      BY <1>1, <3>1
    <3>3. Raised(p, q) \in Paths(r) /\ r.leaf[Raised(p, q)] = x
      BY <1>33, <3>1, <3>2
    <3> QED BY <3>3 DEF Sessions
  <2> QED BY <2>1, <2>2
<1>36. Splits(r)
  <2> DEFINE S == DOMAIN l.split \ {par}
             f == [q \in S |-> Raised(p, q)]
  <2>1. Splits(l)
    BY DEF Tree
  <2>2. IsFiniteSet(S)
    BY <2>1, FS_RemoveElement DEF Splits
  <2>3. \A q \in DOMAIN r.split : \E t \in S : q = Raised(p, t)
    BY <1>6
  <2>4. f \in Surjection(S, DOMAIN r.split)
    BY <1>6, <2>3 DEF Surjection
  <2>5. IsFiniteSet(DOMAIN r.split)
    BY <2>2, <2>4, FS_Surjection
  <2>6. ASSUME NEW q \in DOMAIN r.split
        PROVE  r.split[q].sbs \in BOOLEAN /\ r.split[q].ratio \in 0 .. Unit
    <3>1. PICK t \in S : q = Raised(p, t)
      BY <2>3
    <3>2. t \in Nodes(l) \ {p, par}
      BY <1>20, <1>22
    <3>3. r.split[q] = l.split[t]
      BY <1>6, <1>13, <3>1, <3>2
    <3> QED BY <2>1, <3>3 DEF Splits
  <2> QED BY <2>5, <2>6 DEF Splits
<1>37. Tree(r)
  BY <1>6, <1>23, <1>27, <1>28, <1>30, <1>31, <1>32, <1>34, <1>36 DEF Tree
<1> QED BY <1>35, <1>37 DEF r

---------------------------------------------------------------------------
(* Lists of tabs.                                                          *)

Listed(T) == Len(T) \in Nat /\ T = [i \in 1 .. Len(T) |-> T[i]]

TabGood(tab) ==
  /\ tab = [root |-> tab.root, focus |-> tab.focus]
  /\ Tree(tab.root) /\ Sessions(tab.root) \subseteq Session /\ tab.focus \in Session

SessionsOf(T) == UNION {Sessions(T[i].root) : i \in DOMAIN T}

TabsGood(T) ==
  /\ Listed(T)
  /\ \A i \in DOMAIN T : TabGood(T[i])
  /\ \A i, j \in DOMAIN T : i # j => Sessions(T[i].root) \cap Sessions(T[j].root) = {}

\* A list is a sequence of its elements, and a sequence is a list.
LEMMA ListedSeq ==
  ASSUME NEW T, Listed(T)
  PROVE  DOMAIN T = 1 .. Len(T) /\ T \in Seq({T[i] : i \in 1 .. Len(T)})
<1>1. DOMAIN T = 1 .. Len(T)
  BY DEF Listed
<1>2. T \in [1 .. Len(T) -> {T[i] : i \in 1 .. Len(T)}]
  BY DEF Listed
<1>3. Len(T) \in Nat
  BY DEF Listed
<1> QED BY <1>1, <1>2, <1>3, SeqDef

\* See ListedSeq.
LEMMA SeqListed ==
  ASSUME NEW S, NEW T \in Seq(S)
  PROVE  Listed(T) /\ DOMAIN T = 1 .. Len(T)
  BY LenProperties DEF Listed

\* Every tab of a list has a session of its own, so there are no more tabs
\* than sessions.
LEMMA TabCount ==
  ASSUME NEW T, TabsGood(T)
  PROVE  Len(T) \in 0 .. MaxSession
<1>1. Listed(T) /\ DOMAIN T = 1 .. Len(T) /\ Len(T) \in Nat
  BY ListedSeq DEF TabsGood, Listed
<1> DEFINE f == [i \in 1 .. Len(T) |-> FirstSession(T[i].root)]
<1>2. ASSUME NEW i \in 1 .. Len(T)
      PROVE  FirstSession(T[i].root) \in Sessions(T[i].root) /\ Sessions(T[i].root) \subseteq Session
  BY <1>1, FirstIsSession DEF TabsGood, TabGood
<1>3. f \in Injection(1 .. Len(T), Session)
  <2>1. f \in [1 .. Len(T) -> Session]
    BY <1>2
  <2>2. ASSUME NEW i \in 1 .. Len(T), NEW j \in 1 .. Len(T), f[i] = f[j] PROVE i = j
    BY ZenonT(40), <1>1, <1>2, <2>2 DEF TabsGood
  <2> QED BY <2>1, <2>2 DEF Injection, IsInjective
<1>4. MaxSession \in Nat
  BY WinTabsAssumption
<1>5. IsFiniteSet(Session) /\ Cardinality(Session) = MaxSession
  <2>1. /\ IsFiniteSet(1 .. MaxSession)
        /\ Cardinality(1 .. MaxSession) = IF 1 > MaxSession THEN 0 ELSE MaxSession - 1 + 1
    BY <1>4, FS_Interval
  <2> QED BY <1>4, <2>1 DEF Session
<1>6. Cardinality(1 .. Len(T)) = Len(T)
  <2>1. Cardinality(1 .. Len(T)) = IF 1 > Len(T) THEN 0 ELSE Len(T) - 1 + 1
    BY <1>1, FS_Interval
  <2> QED BY <1>1, <2>1
<1>7. Cardinality(1 .. Len(T)) <= Cardinality(Session)
  BY <1>3, <1>5, FS_Injection
<1> QED BY <1>1, <1>4, <1>5, <1>6, <1>7

\* A tab is added at the end.
LEMMA TabAdded ==
  ASSUME NEW T, TabsGood(T), NEW tab, TabGood(tab),
         Sessions(tab.root) \cap SessionsOf(T) = {}
  PROVE  /\ TabsGood(Append(T, tab)) /\ Append(T, tab) # <<>>
         /\ SessionsOf(Append(T, tab)) = SessionsOf(T) \cup Sessions(tab.root)
<1> DEFINE U == Append(T, tab)
           S == {T[i] : i \in 1 .. Len(T)} \cup {tab}
<1>1. Listed(T) /\ DOMAIN T = 1 .. Len(T) /\ Len(T) \in Nat /\ T \in Seq(S)
  <2>1. Listed(T) /\ T \in Seq({T[i] : i \in 1 .. Len(T)}) /\ DOMAIN T = 1 .. Len(T)
    BY ListedSeq DEF TabsGood
  <2>2. T \in Seq(S)
    BY <2>1, SeqMonotonic
  <2> QED BY <2>1, <2>2 DEF Listed
<1>2. /\ U \in Seq(S) /\ U # <<>> /\ Len(U) = Len(T) + 1
      /\ \A i \in 1 .. Len(T) : U[i] = T[i]
      /\ U[Len(T) + 1] = tab
  <2>1. tab \in S
    OBVIOUS
  <2> QED BY <1>1, <2>1, AppendProperties
<1>3. Listed(U) /\ DOMAIN U = 1 .. Len(T) + 1
  BY <1>2, SeqListed
<1> HIDE DEF U
<1>4. 1 .. Len(T) + 1 = DOMAIN T \cup {Len(T) + 1} /\ Len(T) + 1 \notin DOMAIN T
  BY <1>1
<1>5. SessionsOf(U) = SessionsOf(T) \cup Sessions(tab.root)
  BY <1>1, <1>2, <1>3, <1>4 DEF SessionsOf
<1>6. \A i \in DOMAIN U : TabGood(U[i])
  BY <1>1, <1>2, <1>3, <1>4 DEF TabsGood
<1>7. \A i \in DOMAIN T : Sessions(T[i].root) \cap Sessions(tab.root) = {}
  BY DEF SessionsOf
<1>8. ASSUME NEW i \in DOMAIN U, NEW j \in DOMAIN U, i # j
      PROVE  Sessions(U[i].root) \cap Sessions(U[j].root) = {}
  <2>1. CASE i \in DOMAIN T /\ j \in DOMAIN T
    BY <1>1, <1>2, <1>8, <2>1 DEF TabsGood
  <2>2. CASE i \in DOMAIN T /\ j = Len(T) + 1
    BY <1>1, <1>2, <1>7, <2>2
  <2>3. CASE i = Len(T) + 1 /\ j \in DOMAIN T
    BY <1>1, <1>2, <1>7, <2>3
  <2> QED BY <1>3, <1>4, <1>8, <2>1, <2>2, <2>3
<1> QED BY <1>2, <1>3, <1>5, <1>6, <1>8 DEF TabsGood, U

\* The first n elements of a sequence.
LEMMA SeqStart ==
  ASSUME NEW S, NEW T \in Seq(S), NEW n \in 0 .. Len(T)
  PROVE  /\ SubSeq(T, 1, n) \in Seq(S) /\ Len(SubSeq(T, 1, n)) = n
         /\ \A i \in 1 .. n : SubSeq(T, 1, n)[i] = T[i]
<1>1. n \in Nat /\ Len(T) \in Nat
  BY LenProperties
<1>2. 1 \in Int /\ n \in Int /\ \A i \in 1 .. n : T[i] \in S
  BY <1>1, ElementOfSeq
<1>3. /\ SubSeq(T, 1, n) \in Seq(S) /\ Len(SubSeq(T, 1, n)) = IF 1 <= n THEN n - 1 + 1 ELSE 0
      /\ \A i \in 1 .. n - 1 + 1 : SubSeq(T, 1, n)[i] = T[1 + i - 1]
  BY <1>2, SubSeqProperties
<1>4. (IF 1 <= n THEN n - 1 + 1 ELSE 0) = n
  BY <1>1
<1>5. ASSUME NEW i \in 1 .. n PROVE SubSeq(T, 1, n)[i] = T[i]
  <2>1. i \in 1 .. n - 1 + 1 /\ 1 + i - 1 = i
    BY <1>1
  <2> QED BY <1>3, <2>1
<1> QED BY <1>3, <1>4, <1>5

\* And the others.
LEMMA SeqRest ==
  ASSUME NEW S, NEW T \in Seq(S), NEW n \in 0 .. Len(T)
  PROVE  /\ SubSeq(T, n + 1, Len(T)) \in Seq(S) /\ Len(SubSeq(T, n + 1, Len(T))) = Len(T) - n
         /\ \A i \in 1 .. Len(T) - n : SubSeq(T, n + 1, Len(T))[i] = T[n + i]
<1>1. n \in Nat /\ Len(T) \in Nat
  BY LenProperties
<1>2. n + 1 \in Int /\ Len(T) \in Int /\ \A i \in n + 1 .. Len(T) : T[i] \in S
  BY <1>1, ElementOfSeq
<1>3. /\ SubSeq(T, n + 1, Len(T)) \in Seq(S)
      /\ Len(SubSeq(T, n + 1, Len(T))) = IF n + 1 <= Len(T) THEN Len(T) - (n + 1) + 1 ELSE 0
      /\ \A i \in 1 .. Len(T) - (n + 1) + 1 : SubSeq(T, n + 1, Len(T))[i] = T[n + 1 + i - 1]
  BY <1>2, SubSeqProperties
<1>4. (IF n + 1 <= Len(T) THEN Len(T) - (n + 1) + 1 ELSE 0) = Len(T) - n
  BY <1>1
<1>5. ASSUME NEW i \in 1 .. Len(T) - n PROVE SubSeq(T, n + 1, Len(T))[i] = T[n + i]
  <2>1. i \in 1 .. Len(T) - (n + 1) + 1 /\ n + 1 + i - 1 = n + i
    BY <1>1
  <2> QED BY <1>3, <2>1
<1> QED BY <1>3, <1>4, <1>5

\* A tab is taken out.
LEMMA TabRemoved ==
  ASSUME NEW T, TabsGood(T), NEW ti \in DOMAIN T
  PROVE  /\ TabsGood(RemoveAt(T, ti)) /\ Len(RemoveAt(T, ti)) = Len(T) - 1
         /\ SessionsOf(RemoveAt(T, ti)) = SessionsOf(T) \ Sessions(T[ti].root)
<1> DEFINE U == RemoveAt(T, ti)
           S == {T[i] : i \in 1 .. Len(T)}
           A == SubSeq(T, 1, ti - 1)
           B == SubSeq(T, ti + 1, Len(T))
<1>1. Listed(T) /\ DOMAIN T = 1 .. Len(T) /\ Len(T) \in Nat /\ T \in Seq(S) /\ ti \in 1 .. Len(T)
  BY ListedSeq DEF TabsGood, Listed
<1>2. A \in Seq(S) /\ Len(A) = ti - 1 /\ \A i \in 1 .. ti - 1 : A[i] = T[i]
  <2>1. ti - 1 \in 0 .. Len(T)
    BY <1>1
  <2> QED BY <1>1, <2>1, SeqStart
<1>3. B \in Seq(S) /\ Len(B) = Len(T) - ti /\ \A i \in 1 .. Len(T) - ti : B[i] = T[ti + i]
  <2>1. ti \in 0 .. Len(T)
    BY <1>1
  <2> QED BY <1>1, <2>1, SeqRest
<1>4. U = A \o B
  BY DEF RemoveAt
<1> HIDE DEF A, B, U
<1>5. /\ U \in Seq(S) /\ Len(U) = Len(T) - 1
      /\ \A i \in 1 .. Len(T) - 1 : U[i] = IF i < ti THEN T[i] ELSE T[i + 1]
  <2>1. /\ U \in Seq(S) /\ Len(U) = Len(A) + Len(B)
        /\ \A i \in 1 .. Len(A) + Len(B) : U[i] = IF i <= Len(A) THEN A[i] ELSE B[i - Len(A)]
    BY <1>2, <1>3, <1>4, ConcatProperties
  <2>2. Len(A) + Len(B) = Len(T) - 1
    BY <1>1, <1>2, <1>3
  <2>3. ASSUME NEW i \in 1 .. Len(T) - 1 PROVE U[i] = IF i < ti THEN T[i] ELSE T[i + 1]
    <3>1. CASE i < ti
      <4>1. i \in 1 .. ti - 1 /\ i <= ti - 1
        BY <1>1, <3>1
      <4> QED BY <1>2, <2>1, <2>2, <3>1, <4>1
    <3>2. CASE ~(i < ti)
      <4>1. i - (ti - 1) \in 1 .. Len(T) - ti /\ ti + (i - (ti - 1)) = i + 1 /\ ~(i <= ti - 1)
        BY <1>1, <3>2
      <4>2. U[i] = B[i - (ti - 1)]
        BY <1>2, <2>1, <2>2, <4>1
      <4> QED BY <1>3, <3>2, <4>1, <4>2
    <3> QED BY <3>1, <3>2
  <2> QED BY <2>1, <2>2, <2>3
<1>6. Listed(U) /\ DOMAIN U = 1 .. Len(T) - 1
  BY <1>5, SeqListed
\* Where a tab that stays comes from.
<1> DEFINE From(i) == IF i < ti THEN i ELSE i + 1
<1>7. ASSUME NEW i \in DOMAIN U PROVE From(i) \in DOMAIN T /\ From(i) # ti /\ U[i] = T[From(i)]
  BY SMTT(20), <1>1, <1>5, <1>6
<1>8. \A i, j \in DOMAIN U : i # j => From(i) # From(j)
  BY <1>1, <1>6
<1>9. ASSUME NEW k \in DOMAIN T, k # ti PROVE \E i \in DOMAIN U : From(i) = k
  <2>1. CASE k < ti
    BY <1>1, <1>6, <2>1
  <2>2. CASE k > ti
    <3>1. k - 1 \in DOMAIN U /\ From(k - 1) = k
      BY <1>1, <1>6, <2>2
    <3> QED BY <3>1
  <2> QED BY <1>1, <1>9, <2>1, <2>2
<1> HIDE DEF From
<1>10. ASSUME NEW x \in SessionsOf(U) PROVE x \in SessionsOf(T) \ Sessions(T[ti].root)
  <2>1. PICK i \in DOMAIN U : x \in Sessions(U[i].root)
    BY <1>10 DEF SessionsOf
  <2> QED BY <1>7, <2>1 DEF SessionsOf, TabsGood
<1>11. ASSUME NEW x \in SessionsOf(T) \ Sessions(T[ti].root) PROVE x \in SessionsOf(U)
  <2>1. PICK k \in DOMAIN T : x \in Sessions(T[k].root)
    BY DEF SessionsOf
  <2>2. PICK i \in DOMAIN U : From(i) = k
    BY <1>9, <2>1
  <2> QED BY <1>7, <2>1, <2>2 DEF SessionsOf
<1>12. \A i \in DOMAIN U : TabGood(U[i])
  BY <1>7 DEF TabsGood
<1>13. \A i, j \in DOMAIN U : i # j => Sessions(U[i].root) \cap Sessions(U[j].root) = {}
  BY <1>7, <1>8 DEF TabsGood
<1> QED BY <1>5, <1>6, <1>10, <1>11, <1>12, <1>13 DEF TabsGood, U

\* A tab is replaced.
LEMMA TabReplaced ==
  ASSUME NEW T, TabsGood(T), NEW ti \in DOMAIN T, NEW tab, TabGood(tab),
         \A j \in DOMAIN T : j # ti => Sessions(tab.root) \cap Sessions(T[j].root) = {}
  PROVE  /\ TabsGood([T EXCEPT ![ti] = tab]) /\ Len([T EXCEPT ![ti] = tab]) = Len(T)
         /\ DOMAIN [T EXCEPT ![ti] = tab] = DOMAIN T
         /\ \A j \in DOMAIN T : [T EXCEPT ![ti] = tab][j] = IF j = ti THEN tab ELSE T[j]
         /\ SessionsOf([T EXCEPT ![ti] = tab])
               = (SessionsOf(T) \ Sessions(T[ti].root)) \cup Sessions(tab.root)
<1> DEFINE U == [T EXCEPT ![ti] = tab]
           S == {T[i] : i \in 1 .. Len(T)} \cup {tab}
<1>1. Listed(T) /\ DOMAIN T = 1 .. Len(T) /\ T \in Seq(S)
  <2>1. Listed(T) /\ T \in Seq({T[i] : i \in 1 .. Len(T)}) /\ DOMAIN T = 1 .. Len(T)
    BY ListedSeq DEF TabsGood
  <2>2. T \in Seq(S)
    BY <2>1, SeqMonotonic
  <2> QED BY <2>1, <2>2
<1>2. /\ U \in Seq(S) /\ Len(U) = Len(T)
      /\ \A j \in DOMAIN T : U[j] = IF j = ti THEN tab ELSE T[j]
  <2>1. tab \in S
    OBVIOUS
  <2> QED BY <1>1, <2>1, ExceptSeq
<1>3. Listed(U) /\ DOMAIN U = DOMAIN T
  BY <1>1, <1>2, SeqListed
<1> HIDE DEF U
<1>4. SessionsOf(U) = (SessionsOf(T) \ Sessions(T[ti].root)) \cup Sessions(tab.root)
  <2>1. ASSUME NEW x \in SessionsOf(U)
        PROVE  x \in (SessionsOf(T) \ Sessions(T[ti].root)) \cup Sessions(tab.root)
    <3>1. PICK i \in DOMAIN T : x \in Sessions(U[i].root)
      BY <1>3, <2>1 DEF SessionsOf
    <3> QED BY <1>2, <3>1 DEF SessionsOf, TabsGood
  <2>2. ASSUME NEW x \in SessionsOf(T) \ Sessions(T[ti].root) PROVE x \in SessionsOf(U)
    <3>1. PICK i \in DOMAIN T : x \in Sessions(T[i].root)
      BY DEF SessionsOf
    <3> QED BY <1>2, <1>3, <3>1 DEF SessionsOf
  <2>3. Sessions(tab.root) \subseteq SessionsOf(U)
    BY <1>2, <1>3 DEF SessionsOf
  <2> QED BY <2>1, <2>2, <2>3
<1>5. \A i \in DOMAIN U : TabGood(U[i])
  BY <1>2, <1>3 DEF TabsGood
<1>6. \A i, j \in DOMAIN U : i # j => Sessions(U[i].root) \cap Sessions(U[j].root) = {}
  BY <1>2, <1>3 DEF TabsGood
<1> QED BY <1>2, <1>3, <1>4, <1>5, <1>6 DEF TabsGood, U

---------------------------------------------------------------------------
(* Windows.                                                                *)

Map(f) == f = [x \in DOMAIN f |-> f[x]]
WinFields == {"tabs", "active", "chips", "menu", "hits", "settings", "size", "cell", "sidebar",
              "detached", "closing"}
AppFields == {"wins", "registry", "live", "pty", "next"}

WinGood(win) ==
  /\ Map(win) /\ DOMAIN win = WinFields
  /\ TabsGood(win.tabs)
  /\ win.active \in Nat \ {0} /\ win.chips \in 0 .. MaxSession /\ win.menu \in 0 .. MaxSession
  /\ win.hits \subseteq Session /\ win.settings \in {NoSession} \cup Session
  /\ win.size \in Sizes /\ win.cell \in Cells /\ win.sidebar \in BOOLEAN
  /\ win.closing \in BOOLEAN

AllPanes(a) == UNION {TabSessions(a.wins[w]) : w \in DOMAIN a.wins}
Record(a) ==
  /\ Map(a) /\ DOMAIN a = AppFields
  /\ Map(a.wins) /\ Map(a.registry) /\ Map(a.pty)

(* Between two steps of a handler: X are registered sessions no tab has at *)
(* the moment (a new one, or a moved tab's), Z are sessions still in a tab *)
(* that are not registered any more.  E are the ends that have been posted.*)
Held(a, X, Z) == (AllPanes(a) \ Z) \cup X
World(a, X, Z, E) ==
  /\ Record(a)
  /\ \A w \in DOMAIN a.wins : WinGood(a.wins[w]) /\ TabSessions(a.wins[w]) \cap X = {}
  /\ \A v, w \in DOMAIN a.wins : v # w => TabSessions(a.wins[v]) \cap TabSessions(a.wins[w]) = {}
  /\ DOMAIN a.registry = Held(a, X, Z) /\ DOMAIN a.pty = Held(a, X, Z)
  /\ a.live \subseteq Held(a, X, Z) /\ Held(a, X, Z) \subseteq a.live \cup E /\ a.live \cap E = {}
  /\ a.next \in 1 .. MaxSession + 1 /\ E \subseteq Session /\ X \subseteq Session
  /\ \A s \in AllPanes(a) \cup X \cup E : s < a.next
  /\ \A w \in DOMAIN a.wins : a.wins[w].settings < a.next
  /\ \A v, w \in DOMAIN a.wins :
        v # w /\ a.wins[v].settings = a.wins[w].settings => a.wins[v].settings = NoSession

\* The grid a session of tab i is to have.
Wanted(win, i, s) == Grid(win, LeafRect(win.tabs[i].root, s, TerminalArea(win)))
Fit(a, w) ==
  \A i \in DOMAIN a.wins[w].tabs : \A s \in Sessions(a.wins[w].tabs[i].root) :
     a.registry[s] = Wanted(a.wins[w], i, s) /\ a.pty[s] = Wanted(a.wins[w], i, s)

\* The sessions of a window are those of its tabs.
LEMMA SessionsOfWin ==
  ASSUME NEW win
  PROVE  TabSessions(win) = SessionsOf(win.tabs)
  BY DEF TabSessions, SessionsOf

\* They are sessions.
LEMMA WinSessions ==
  ASSUME NEW win, WinGood(win)
  PROVE  TabSessions(win) \subseteq Session
<1> SUFFICES ASSUME NEW i \in DOMAIN win.tabs PROVE Sessions(win.tabs[i].root) \subseteq Session
  BY DEF TabSessions
<1> QED BY DEF WinGood, TabsGood, TabGood

SetWin(a, w, win) == [a EXCEPT !.wins = [a.wins EXCEPT ![w] = win]]
MayBecome(a, X, Z, E, w, win, X2) ==
  /\ World(a, X, Z, E) /\ w \in DOMAIN a.wins /\ WinGood(win)
  /\ Z \subseteq TabSessions(a.wins[w])
  /\ (TabSessions(a.wins[w]) \ Z) \cup X = TabSessions(win) \cup X2
  /\ X2 \cap TabSessions(win) = {}
  /\ win.settings = NoSession
       \/ (win.settings < a.next /\ \A v \in DOMAIN a.wins \ {w} : a.wins[v].settings # win.settings)
Became(a, b, w, win) ==
  /\ DOMAIN b.wins = DOMAIN a.wins /\ b.wins[w] = win
  /\ \A v \in DOMAIN a.wins \ {w} : b.wins[v] = a.wins[v]
SameSessions(a, b) == b.registry = a.registry /\ b.pty = a.pty /\ b.live = a.live /\ b.next = a.next

\* A window whose tabs, or what is remembered of them, change.
LEMMA ChangeWindow ==
  ASSUME NEW a, NEW X, NEW Z, NEW E, NEW w, NEW win, NEW X2, MayBecome(a, X, Z, E, w, win, X2)
  PROVE  /\ World(SetWin(a, w, win), X2, {}, E)
         /\ Became(a, SetWin(a, w, win), w, win) /\ SameSessions(a, SetWin(a, w, win))
<1> DEFINE b == SetWin(a, w, win)
<1> b = [a EXCEPT !.wins = [a.wins EXCEPT ![w] = win]]
  BY DEF SetWin
<1> /\ World(a, X, Z, E) /\ w \in DOMAIN a.wins /\ WinGood(win)
    /\ Z \subseteq TabSessions(a.wins[w])
    /\ (TabSessions(a.wins[w]) \ Z) \cup X = TabSessions(win) \cup X2
    /\ X2 \cap TabSessions(win) = {}
    /\ win.settings = NoSession
         \/ (win.settings < a.next /\ \A v \in DOMAIN a.wins \ {w} : a.wins[v].settings # win.settings)
  BY DEF MayBecome
<1> HIDE DEF b
<1>1. /\ Map(b) /\ DOMAIN b = AppFields
      /\ b.wins = [a.wins EXCEPT ![w] = win]
      /\ b.registry = a.registry /\ b.pty = a.pty /\ b.live = a.live /\ b.next = a.next
  <2>1. Map(a) /\ DOMAIN a = AppFields
    BY DEF World, Record
  <2> QED BY <2>1 DEF Map, AppFields
<1>2. /\ DOMAIN b.wins = DOMAIN a.wins /\ b.wins[w] = win /\ Map(b.wins)
      /\ \A v \in DOMAIN a.wins \ {w} : b.wins[v] = a.wins[v]
  BY <1>1 DEF World, Record, Map
<1>3. Record(b)
  BY <1>1, <1>2 DEF World, Record
<1> DEFINE old == TabSessions(a.wins[w])
           new == TabSessions(win)
           others == UNION {TabSessions(a.wins[v]) : v \in DOMAIN a.wins \ {w}}
<1>4. AllPanes(a) = others \cup old
  BY DEF AllPanes
<1>5. AllPanes(b) = others \cup new
  BY <1>2 DEF AllPanes
<1>6. others \cap old = {} /\ others \cap X = {}
  BY DEF World
<1>7. new \subseteq old \cup X /\ X2 \subseteq old \cup X
  OBVIOUS
<1>8. Held(b, X2, {}) = Held(a, X, Z)
  BY <1>4, <1>5, <1>6 DEF Held
<1>o. \A v \in DOMAIN a.wins \ {w} : TabSessions(a.wins[v]) \cap (old \cup X) = {}
  BY DEF World
<1>9. ASSUME NEW v \in DOMAIN b.wins
      PROVE  WinGood(b.wins[v]) /\ TabSessions(b.wins[v]) \cap X2 = {}
  <2>1. CASE v = w
    BY <1>2, <2>1
  <2>2. CASE v # w
    <3>1. WinGood(b.wins[v])
      BY <1>2, <2>2 DEF World
    <3>2. TabSessions(b.wins[v]) \cap (old \cup X) = {}
      BY <1>2, <1>o, <2>2
    <3> QED BY <1>7, <3>1, <3>2
  <2> QED BY <2>1, <2>2
<1>10. ASSUME NEW u \in DOMAIN b.wins, NEW v \in DOMAIN b.wins, u # v
       PROVE  TabSessions(b.wins[u]) \cap TabSessions(b.wins[v]) = {}
  <2>1. \A x \in DOMAIN a.wins \ {w} : TabSessions(a.wins[x]) \cap new = {}
    BY <1>7, <1>o
  <2>2. CASE u = w
    BY <1>2, <1>10, <2>1, <2>2
  <2>3. CASE v = w
    BY <1>2, <1>10, <2>1, <2>3
  <2>4. CASE u # w /\ v # w
    <3>1. b.wins[u] = a.wins[u] /\ b.wins[v] = a.wins[v]
      BY <1>2, <2>4
    <3> QED BY <1>2, <1>10, <3>1 DEF World
  <2> QED BY <2>2, <2>3, <2>4
<1>11. AllPanes(b) \cup X2 \subseteq AllPanes(a) \cup X
  BY <1>4, <1>5, <1>7
<1>12. X2 \subseteq Session
  <2>1. old \subseteq Session
    BY WinSessions DEF World
  <2> QED BY <1>7, <2>1 DEF World
<1>13. NoSession < a.next
  BY DEF World, NoSession
<1>14. \A v \in DOMAIN b.wins : b.wins[v].settings < b.next
  BY <1>1, <1>2, <1>13 DEF World
<1>15. \A u, v \in DOMAIN b.wins :
        u # v /\ b.wins[u].settings = b.wins[v].settings => b.wins[u].settings = NoSession
  BY <1>2 DEF World
<1> HIDE DEF old, new, others
<1>16. World(b, X2, {}, E)
  BY <1>1, <1>3, <1>8, <1>9, <1>10, <1>11, <1>12, <1>14, <1>15 DEF World
<1> QED BY <1>1, <1>2, <1>16 DEF b, Became, SameSessions

\* resize_surface() gives every pane of the window its grid and leaves all else.
LEMMA Reflowed ==
  ASSUME NEW a, NEW X, NEW E, World(a, X, {}, E), NEW w \in DOMAIN a.wins
  PROVE  /\ World(Reflow(a, w), X, {}, E) /\ Reflow(a, w).wins = a.wins
         /\ Reflow(a, w).live = a.live
         /\ Fit(Reflow(a, w), w)
         /\ \A v \in DOMAIN a.wins \ {w} : Fit(a, v) => Fit(Reflow(a, w), v)
<1> DEFINE b == Reflow(a, w)
           win == a.wins[w]
           S == TabSessions(win)
           fit == [s \in S |-> Grid(win, LeafRect(TabOf(win, s).root, s, TerminalArea(win)))]
<1>1. /\ Map(b) /\ DOMAIN b = AppFields
      /\ b.wins = a.wins /\ b.live = a.live /\ b.next = a.next
      /\ b.registry = [s \in DOMAIN a.registry |-> IF s \in S THEN fit[s] ELSE a.registry[s]]
      /\ b.pty = [s \in DOMAIN a.pty |-> IF s \in S THEN fit[s] ELSE a.pty[s]]
  <2> DEFINE To(g) == [s \in DOMAIN g |-> IF s \in S THEN fit[s] ELSE g[s]]
  <2>1. b = [a EXCEPT !.registry = To(@), !.pty = To(@)]
    BY DEF Reflow, Refit
  <2>2. Map(a) /\ DOMAIN a = AppFields
    BY DEF World, Record
  <2> HIDE DEF b, To
  <2>3. /\ Map(b) /\ DOMAIN b = AppFields
        /\ b.wins = a.wins /\ b.live = a.live /\ b.next = a.next
        /\ b.registry = To(a.registry) /\ b.pty = To(a.pty)
    BY <2>1, <2>2 DEF Map, AppFields
  <2> QED BY <2>3 DEF To
<1> HIDE DEF b
<1>2. b.wins = a.wins /\ b.live = a.live /\ b.next = a.next
  BY <1>1
<1>3. DOMAIN b.registry = DOMAIN a.registry /\ DOMAIN b.pty = DOMAIN a.pty
  BY <1>1
<1>4. Record(b)
  BY <1>1, <1>2, <1>3 DEF World, Record, Map
<1>5. AllPanes(b) = AllPanes(a) /\ Held(b, X, {}) = Held(a, X, {})
  BY <1>2 DEF AllPanes, Held
<1>6. World(b, X, {}, E)
  BY <1>2, <1>3, <1>4, <1>5 DEF World
<1>7. S \subseteq DOMAIN a.registry /\ S \subseteq DOMAIN a.pty
  BY DEF World, Held, AllPanes
<1>8. ASSUME NEW i \in DOMAIN win.tabs, NEW s \in Sessions(win.tabs[i].root)
      PROVE  b.registry[s] = Wanted(win, i, s) /\ b.pty[s] = Wanted(win, i, s)
  <2>1. s \in S
    BY DEF TabSessions
  <2>2. \A j \in DOMAIN win.tabs : s \in Sessions(win.tabs[j].root) => j = i
    BY DEF World, WinGood, TabsGood
  <2>3. TabOf(win, s) = win.tabs[i]
    BY <2>2 DEF TabOf
  <2>4. fit[s] = Wanted(win, i, s)
    BY <2>1, <2>3 DEF Wanted
  <2> HIDE DEF fit
  <2> QED BY <1>1, <1>7, <2>1, <2>4
<1>9. Fit(b, w)
  BY <1>2, <1>8 DEF Fit
<1>10. ASSUME NEW v \in DOMAIN a.wins \ {w}, Fit(a, v) PROVE Fit(b, v)
  <2>1. TabSessions(a.wins[v]) \cap S = {}
    BY DEF World
  <2>2. TabSessions(a.wins[v]) \subseteq DOMAIN a.registry /\ TabSessions(a.wins[v]) \subseteq DOMAIN a.pty
    BY DEF World, Held, AllPanes
  <2>3. \A s \in TabSessions(a.wins[v]) : b.registry[s] = a.registry[s] /\ b.pty[s] = a.pty[s]
    BY <1>1, <2>1, <2>2
  <2>4. \A i \in DOMAIN a.wins[v].tabs : Sessions(a.wins[v].tabs[i].root) \subseteq TabSessions(a.wins[v])
    BY DEF TabSessions
  <2> QED BY <1>2, <1>10, <2>3, <2>4 DEF Fit
<1> QED BY <1>2, <1>6, <1>9, <1>10 DEF b

---------------------------------------------------------------------------
(* Sessions that are opened and closed.                                    *)

\* A new session belongs to no window yet.
LEMMA Opened ==
  ASSUME NEW a, NEW E, World(a, {}, {}, E), a.next \in Session, NEW grid
  PROVE  /\ World(OpenSession(a, grid), {a.next}, {}, E)
         /\ OpenSession(a, grid).wins = a.wins /\ OpenSession(a, grid).next = a.next + 1
         /\ a.next \notin AllPanes(a)
         /\ \A v \in DOMAIN a.wins : Fit(a, v) => Fit(OpenSession(a, grid), v)
<1> DEFINE b == OpenSession(a, grid)
           id == a.next
<1>1. /\ Map(b) /\ DOMAIN b = AppFields
      /\ b.wins = a.wins /\ b.live = a.live \cup {id} /\ b.next = a.next + 1
      /\ b.registry = [s \in DOMAIN a.registry \cup {id} |-> IF s = id THEN grid ELSE a.registry[s]]
      /\ b.pty = [s \in DOMAIN a.pty \cup {id} |-> IF s = id THEN grid ELSE a.pty[s]]
  <2> DEFINE R(g) == [s \in DOMAIN g \cup {id} |-> IF s = id THEN grid ELSE g[s]]
  <2>1. Map(a) /\ DOMAIN a = AppFields
    BY DEF World, Record
  <2>2. b = [a EXCEPT !.next = @ + 1, !.live = @ \cup {id}, !.registry = R(@), !.pty = R(@)]
    BY DEF OpenSession
  <2> HIDE DEF R, b, id
  <2>3. /\ Map(b) /\ DOMAIN b = AppFields
        /\ b.wins = a.wins /\ b.live = a.live \cup {id} /\ b.next = a.next + 1
        /\ b.registry = R(a.registry) /\ b.pty = R(a.pty)
    BY <2>1, <2>2 DEF Map, AppFields
  <2> QED BY <2>3 DEF R
<1> HIDE DEF b
<1>2. /\ b.wins = a.wins /\ b.live = a.live \cup {id} /\ b.next = a.next + 1
      /\ DOMAIN b.registry = DOMAIN a.registry \cup {id} /\ DOMAIN b.pty = DOMAIN a.pty \cup {id}
  BY <1>1
<1>3. Record(b)
  BY <1>1, <1>2 DEF World, Record, Map
<1>4. AllPanes(b) = AllPanes(a) /\ Held(b, {id}, {}) = Held(a, {}, {}) \cup {id}
      /\ Held(a, {}, {}) = AllPanes(a)
  BY <1>2 DEF AllPanes, Held
<1>5. a.next \in Int /\ E \subseteq Int /\ MaxSession \in Nat
  BY WinTabsAssumption DEF World, Session
<1>6. id \notin AllPanes(a) /\ id \notin E
  BY <1>5 DEF World
<1>7. b.next \in 1 .. MaxSession + 1
  BY <1>2, <1>5 DEF Session
<1>8. ASSUME NEW s \in AllPanes(b) \cup {id} \cup E PROVE s < b.next
  <2>1. AllPanes(a) \subseteq Int
    <3> SUFFICES ASSUME NEW v \in DOMAIN a.wins PROVE TabSessions(a.wins[v]) \subseteq Int
      BY DEF AllPanes
    <3> QED BY WinSessions DEF World, Session
  <2>2. s \in AllPanes(a) \cup E \/ s = id
    BY <1>4
  <2>3. CASE s = id
    BY <1>2, <1>5, <2>3
  <2>4. CASE s \in AllPanes(a) \cup E
    <3>1. s < a.next
      BY <2>4 DEF World
    <3>2. s \in Int
      BY <1>5, <2>1, <2>4
    <3> HIDE DEF id
    <3> QED BY <1>2, <1>5, <3>1, <3>2
  <2> QED BY <2>2, <2>3, <2>4
<1>9. ASSUME NEW v \in DOMAIN b.wins PROVE b.wins[v].settings < b.next
  <2>1. a.wins[v].settings \in Int
    <3>1. a.wins[v].settings \in {NoSession} \cup Session
      BY <1>2 DEF World, WinGood
    <3> QED BY <3>1, <1>5 DEF Session, NoSession
  <2> QED BY <1>2, <1>5, <2>1 DEF World
<1>10. \A v \in DOMAIN a.wins : TabSessions(a.wins[v]) \subseteq AllPanes(a)
  BY DEF AllPanes
<1>11. World(b, {id}, {}, E)
  <2>1. \A v \in DOMAIN b.wins : WinGood(b.wins[v]) /\ TabSessions(b.wins[v]) \cap {id} = {}
    BY <1>2, <1>6, <1>10 DEF World
  <2>2. /\ DOMAIN b.registry = Held(b, {id}, {}) /\ DOMAIN b.pty = Held(b, {id}, {})
        /\ b.live \subseteq Held(b, {id}, {}) /\ Held(b, {id}, {}) \subseteq b.live \cup E
        /\ b.live \cap E = {}
    BY <1>2, <1>4, <1>6 DEF World
  <2> QED BY <1>2, <1>3, <1>7, <1>8, <1>9, <2>1, <2>2 DEF World
<1>12. ASSUME NEW v \in DOMAIN a.wins, Fit(a, v) PROVE Fit(b, v)
  <2>1. \A s \in TabSessions(a.wins[v]) : b.registry[s] = a.registry[s] /\ b.pty[s] = a.pty[s]
    <3>1. \A s \in TabSessions(a.wins[v]) : s # id /\ s \in DOMAIN a.registry /\ s \in DOMAIN a.pty
      BY <1>4, <1>6, <1>10 DEF World
    <3> QED BY <1>1, <3>1
  <2>2. \A i \in DOMAIN a.wins[v].tabs : Sessions(a.wins[v].tabs[i].root) \subseteq TabSessions(a.wins[v])
    BY DEF TabSessions
  <2> QED BY <1>2, <1>12, <2>1, <2>2 DEF Fit
<1> QED BY <1>2, <1>6, <1>11, <1>12 DEF b

\* Sessions that are closed, or that have ended, leave the registry before
\* their panes go.
LEMMA Shed ==
  ASSUME NEW a, NEW E, World(a, {}, {}, E), NEW S, S \subseteq AllPanes(a), NEW c,
         c = Close(a, S) \/ (c = Forget(a, S) /\ S \cap a.live = {})
  PROVE  /\ World(c, {}, S, E) /\ c.wins = a.wins /\ c.next = a.next
         /\ \A v \in DOMAIN a.wins :
               Fit(a, v) /\ TabSessions(a.wins[v]) \cap S = {} => Fit(c, v)
<1>r. Map(a) /\ DOMAIN a = AppFields
  BY DEF World, Record
<1> DEFINE R(g) == [s \in DOMAIN g \ S |-> g[s]]
<1>1. Forget(a, S) = [a EXCEPT !.registry = R(@), !.pty = R(@)]
  BY DEF Forget
<1>2. /\ Map(c) /\ DOMAIN c = AppFields
      /\ c.wins = a.wins /\ c.next = a.next /\ c.live = a.live \ S
      /\ c.registry = [s \in DOMAIN a.registry \ S |-> a.registry[s]]
      /\ c.pty = [s \in DOMAIN a.pty \ S |-> a.pty[s]]
  <2> HIDE DEF R
  <2>0. /\ Map(c) /\ DOMAIN c = AppFields
        /\ c.wins = a.wins /\ c.next = a.next /\ c.live = a.live \ S
        /\ c.registry = R(a.registry) /\ c.pty = R(a.pty)
    <3>1. CASE c = Close(a, S)
      <4>1. c = [Forget(a, S) EXCEPT !.live = @ \ S]
        BY <3>1 DEF Close
      <4> QED BY <1>r, <1>1, <4>1 DEF Map, AppFields
    <3>2. CASE c = Forget(a, S) /\ S \cap a.live = {}
      <4>1. a.live = a.live \ S
        BY <3>2
      <4> QED BY <1>r, <1>1, <3>2, <4>1 DEF Map, AppFields
    <3> QED BY <3>1, <3>2
  <2> QED BY <2>0 DEF R
<1>3. /\ c.wins = a.wins /\ c.next = a.next
      /\ DOMAIN c.registry = DOMAIN a.registry \ S /\ DOMAIN c.pty = DOMAIN a.pty \ S
  BY <1>2
<1>4. Record(c)
  BY <1>2, <1>3 DEF World, Record, Map
<1>5. AllPanes(c) = AllPanes(a) /\ Held(c, {}, S) = Held(a, {}, {}) \ S
  BY <1>3 DEF AllPanes, Held
<1>6. World(c, {}, S, E)
  <2>1. /\ DOMAIN c.registry = Held(c, {}, S) /\ DOMAIN c.pty = Held(c, {}, S)
        /\ c.live \subseteq Held(c, {}, S) /\ Held(c, {}, S) \subseteq c.live \cup E
        /\ c.live \cap E = {}
    BY <1>2, <1>3, <1>5 DEF World
  <2> QED BY <1>3, <1>4, <1>5, <2>1 DEF World
<1>7. ASSUME NEW v \in DOMAIN a.wins, Fit(a, v), TabSessions(a.wins[v]) \cap S = {}
      PROVE  Fit(c, v)
  <2>1. TabSessions(a.wins[v]) \subseteq DOMAIN a.registry \ S
        /\ TabSessions(a.wins[v]) \subseteq DOMAIN a.pty \ S
    BY <1>7 DEF World, Held, AllPanes
  <2>2. \A s \in TabSessions(a.wins[v]) : c.registry[s] = a.registry[s] /\ c.pty[s] = a.pty[s]
    BY <1>2, <2>1
  <2>3. \A i \in DOMAIN a.wins[v].tabs : Sessions(a.wins[v].tabs[i].root) \subseteq TabSessions(a.wins[v])
    BY DEF TabSessions
  <2> QED BY <1>3, <1>7, <2>2, <2>3 DEF Fit
<1> QED BY <1>3, <1>6, <1>7

---------------------------------------------------------------------------
(* What handlers do to a window.                                           *)

\* A handler leaves every window with its grids, and with a tab unless it is
\* to close.
Tidy(win) == win.detached = <<>> /\ (win.tabs = <<>> => win.closing)
Good(a, E) ==
  /\ World(a, {}, {}, E)
  /\ \A v \in DOMAIN a.wins : Fit(a, v) /\ Tidy(a.wins[v])

\* Tab ti of window w is taken out; Z of its sessions are not registered any
\* more.
Dropping(c, Z, E, w, ti) ==
  /\ World(c, {}, Z, E) /\ w \in DOMAIN c.wins /\ ti \in DOMAIN c.wins[w].tabs
  /\ Z \subseteq Sessions(c.wins[w].tabs[ti].root)
  /\ \A v \in DOMAIN c.wins \ {w} : Fit(c, v)

TabDropped(c, d, Z, E, w, ti) ==
  /\ World(d, Sessions(c.wins[w].tabs[ti].root) \ Z, {}, E)
  /\ DOMAIN d.wins = DOMAIN c.wins
  /\ \A v \in DOMAIN c.wins : Fit(d, v)
  /\ \A v \in DOMAIN c.wins \ {w} : d.wins[v] = c.wins[v]
  /\ d.wins[w].detached = c.wins[w].detached
  /\ TabSessions(d.wins[w]) = TabSessions(c.wins[w]) \ Sessions(c.wins[w].tabs[ti].root)
  /\ d.wins[w].tabs = <<>> => d.wins[w].closing

\* tabs.remove(ti) and what follows it.
LEMMA Dropped ==
  ASSUME NEW c, NEW Z, NEW E, NEW w, NEW ti, Dropping(c, Z, E, w, ti)
  PROVE  TabDropped(c, DropTab(c, w, ti), Z, E, w, ti)
<1> DEFINE win == c.wins[w]
           left == RemoveAt(win.tabs, ti)
           S == Sessions(win.tabs[ti].root)
           empty == [win EXCEPT !.tabs = left, !.closing = TRUE]
           fewer == [win EXCEPT !.tabs = left, !.active = LeastOf(@, Len(left))]
           new == IF left = <<>> THEN empty ELSE fewer
           b == SetWin(c, w, new)
<1> /\ World(c, {}, Z, E) /\ w \in DOMAIN c.wins /\ ti \in DOMAIN win.tabs /\ Z \subseteq S
    /\ \A v \in DOMAIN c.wins \ {w} : Fit(c, v)
  BY DEF Dropping
<1>1. WinGood(win) /\ TabsGood(win.tabs)
  BY DEF World, WinGood
<1>2. /\ TabsGood(left) /\ Len(left) = Len(win.tabs) - 1
      /\ SessionsOf(left) = SessionsOf(win.tabs) \ S
  BY <1>1, TabRemoved
<1>3. S \subseteq SessionsOf(win.tabs)
  BY DEF SessionsOf
<1>4. DropTab(c, w, ti) = IF left = <<>> THEN b ELSE Reflow(b, w)
  <2>1. Map(c) /\ DOMAIN c = AppFields /\ Map(c.wins)
    BY DEF World, Record
  <2>2. Map(win) /\ DOMAIN win = WinFields
    BY <1>1 DEF WinGood
  <2> DEFINE d == [c EXCEPT !.wins[w].tabs = left]
             e == [d EXCEPT !.wins[w].closing = TRUE]
             f == [d EXCEPT !.wins[w].active = LeastOf(@, Len(left))]
  <2>3. DropTab(c, w, ti) = IF left = <<>> THEN e ELSE Reflow(f, w)
    BY DEF DropTab
  <2> HIDE DEF left
  <2>4. /\ Map(d) /\ DOMAIN d = AppFields /\ DOMAIN d.wins = DOMAIN c.wins
        /\ d.wins = [c.wins EXCEPT ![w] = [win EXCEPT !.tabs = left]]
        /\ d.wins[w] = [win EXCEPT !.tabs = left]
        /\ d.registry = c.registry /\ d.live = c.live /\ d.pty = c.pty /\ d.next = c.next
    BY <2>1 DEF Map, AppFields
  <2> DEFINE some == [win EXCEPT !.tabs = left]
  <2>5. [some EXCEPT !.closing = TRUE] = empty
        /\ [some EXCEPT !.active = LeastOf(@, Len(left))] = fewer
    <3> HIDE DEF win
    <3> QED BY <2>2 DEF Map, WinFields
  <2> HIDE DEF some, empty, fewer, d, win
  <2>6. e = [c EXCEPT !.wins = [c.wins EXCEPT ![w] = empty]]
    <3>1. e = [d EXCEPT !.wins = [d.wins EXCEPT ![w] = [some EXCEPT !.closing = TRUE]]]
      BY <2>4 DEF some
    <3>2. [d.wins EXCEPT ![w] = [some EXCEPT !.closing = TRUE]] = [c.wins EXCEPT ![w] = empty]
      BY <2>4, <2>5
    <3> QED BY <2>1, <2>4, <3>1, <3>2 DEF Map, AppFields
  <2>7. f = [c EXCEPT !.wins = [c.wins EXCEPT ![w] = fewer]]
    <3>1. f = [d EXCEPT !.wins = [d.wins EXCEPT ![w] = [some EXCEPT !.active = LeastOf(@, Len(left))]]]
      BY <2>4 DEF some
    <3>2. [d.wins EXCEPT ![w] = [some EXCEPT !.active = LeastOf(@, Len(left))]]
             = [c.wins EXCEPT ![w] = fewer]
      BY <2>4, <2>5
    <3> QED BY <2>1, <2>4, <3>1, <3>2 DEF Map, AppFields
  <2> HIDE DEF e, f
  <2> QED BY <2>3, <2>6, <2>7 DEF b, new, SetWin
<1> HIDE DEF left, b
<1>5. left # <<>> => Len(left) \in Nat \ {0}
  <2>1. left \in Seq({left[i] : i \in 1 .. Len(left)})
    BY <1>2, ListedSeq DEF TabsGood
  <2> QED BY <2>1, EmptySeq
<1>6. WinGood(new) /\ new.tabs = left /\ new.settings = win.settings /\ new.detached = win.detached
      /\ (left = <<>> => new.closing)
  <2>1. WinGood(empty) /\ empty.tabs = left /\ empty.settings = win.settings
        /\ empty.detached = win.detached /\ empty.closing
    <3>1. Map(win) /\ DOMAIN win = WinFields
      BY <1>1 DEF WinGood
    <3>2. /\ Map(empty) /\ DOMAIN empty = WinFields
          /\ empty.tabs = left /\ empty.closing = TRUE /\ empty.active = win.active
          /\ empty.chips = win.chips /\ empty.menu = win.menu /\ empty.hits = win.hits
          /\ empty.settings = win.settings /\ empty.size = win.size /\ empty.cell = win.cell
          /\ empty.sidebar = win.sidebar /\ empty.detached = win.detached
      BY <3>1 DEF Map, WinFields
    <3> HIDE DEF empty
    <3> QED BY <1>1, <1>2, <3>2 DEF WinGood
  <2>2. ASSUME left # <<>> PROVE LeastOf(win.active, Len(left)) \in Nat \ {0}
    BY <1>1, <1>5, <2>2 DEF WinGood, LeastOf
  <2>3. left # <<>> => WinGood(fewer) /\ fewer.tabs = left /\ fewer.settings = win.settings
                       /\ fewer.detached = win.detached
    <3>1. Map(win) /\ DOMAIN win = WinFields
      BY <1>1 DEF WinGood
    <3>2. /\ Map(fewer) /\ DOMAIN fewer = WinFields
          /\ fewer.tabs = left /\ fewer.closing = win.closing /\ fewer.active = LeastOf(win.active, Len(left))
          /\ fewer.chips = win.chips /\ fewer.menu = win.menu /\ fewer.hits = win.hits
          /\ fewer.settings = win.settings /\ fewer.size = win.size /\ fewer.cell = win.cell
          /\ fewer.sidebar = win.sidebar /\ fewer.detached = win.detached
      BY <3>1 DEF Map, WinFields
    <3> HIDE DEF fewer
    <3> QED BY <1>1, <1>2, <2>2, <3>2 DEF WinGood
  <2> QED BY <2>1, <2>3
<1> HIDE DEF new
<1>7. TabSessions(new) = TabSessions(win) \ S
  BY <1>2, <1>6, SessionsOfWin
<1>8. S \subseteq TabSessions(win)
  BY <1>3, SessionsOfWin
<1>9. /\ World(b, S \ Z, {}, E) /\ Became(c, b, w, new) /\ SameSessions(c, b)
  <2>1. (TabSessions(c.wins[w]) \ Z) \cup {} = TabSessions(new) \cup (S \ Z)
    BY <1>7, <1>8
  <2>2. (S \ Z) \cap TabSessions(new) = {}
    BY <1>7
  <2>3. new.settings = NoSession
           \/ (new.settings < c.next /\ \A v \in DOMAIN c.wins \ {w} : c.wins[v].settings # new.settings)
    BY <1>6 DEF World
  <2>4. Z \subseteq TabSessions(c.wins[w])
    BY <1>8
  <2>5. MayBecome(c, {}, Z, E, w, new, S \ Z)
    BY <1>6, <2>1, <2>2, <2>3, <2>4 DEF MayBecome
  <2> QED BY <2>5, ChangeWindow DEF b
<1>10. /\ DOMAIN b.wins = DOMAIN c.wins /\ b.wins[w] = new
       /\ \A v \in DOMAIN c.wins \ {w} : b.wins[v] = c.wins[v]
       /\ \A v \in DOMAIN c.wins \ {w} : Fit(b, v)
  BY <1>9 DEF Fit, Became, SameSessions
<1>11. CASE left = <<>>
  <2>1. Fit(b, w)
    BY <1>6, <1>10, <1>11 DEF Fit
  <2>2. DropTab(c, w, ti) = b
    BY <1>4, <1>11
  <2>3. TabDropped(c, b, Z, E, w, ti)
    BY <1>6, <1>7, <1>9, <1>10, <1>11, <2>1 DEF TabDropped
  <2> QED BY <2>2, <2>3
<1>12. CASE left # <<>>
  <2>1. World(b, S \ Z, {}, E) /\ w \in DOMAIN b.wins
    BY <1>9, <1>10
  <2>2. /\ World(Reflow(b, w), S \ Z, {}, E) /\ Reflow(b, w).wins = b.wins
        /\ Fit(Reflow(b, w), w)
        /\ \A v \in DOMAIN b.wins \ {w} : Fit(b, v) => Fit(Reflow(b, w), v)
    BY <2>1, Reflowed
  <2> DEFINE d == Reflow(b, w)
  <2>3. DropTab(c, w, ti) = d
    BY <1>4, <1>12
  <2>4. TabDropped(c, d, Z, E, w, ti)
    <3> HIDE DEF d
    <3> QED BY <1>6, <1>7, <1>10, <1>12, <2>2 DEF TabDropped, d
  <2> QED BY <2>3, <2>4
<1> QED BY <1>11, <1>12

\* What a handler may do to window w of a: X are the sessions that are to be in
\* its tabs now, Z those that are not any more.
Settling(a, X, Z, E, w, win) ==
  /\ World(a, X, Z, E) /\ w \in DOMAIN a.wins /\ WinGood(win) /\ Tidy(win)
  /\ \A v \in DOMAIN a.wins \ {w} : Fit(a, v) /\ Tidy(a.wins[v])
  /\ Z \subseteq TabSessions(a.wins[w])
  /\ TabSessions(win) = (TabSessions(a.wins[w]) \ Z) \cup X
  /\ win.settings = NoSession
       \/ (win.settings < a.next /\ \A v \in DOMAIN a.wins \ {w} : a.wins[v].settings # win.settings)

\* Its tabs are complete again, and it is laid out anew.
LEMMA Settled ==
  ASSUME NEW a, NEW X, NEW Z, NEW E, NEW w, NEW win, Settling(a, X, Z, E, w, win),
         NEW b, b = SetWin(a, w, win)
  PROVE  /\ Good(Reflow(b, w), E) /\ Became(a, Reflow(b, w), w, win)
         /\ Reflow(b, w).live = a.live
<1>1. MayBecome(a, X, Z, E, w, win, {})
  BY DEF Settling, MayBecome
<1>2. World(b, {}, {}, E) /\ Became(a, b, w, win) /\ SameSessions(a, b)
  BY <1>1, ChangeWindow
<1>3. World(b, {}, {}, E) /\ w \in DOMAIN b.wins
  BY <1>2 DEF Became, Settling
<1>4. /\ World(Reflow(b, w), {}, {}, E) /\ Reflow(b, w).wins = b.wins
      /\ Reflow(b, w).live = b.live /\ Fit(Reflow(b, w), w)
      /\ \A v \in DOMAIN b.wins \ {w} : Fit(b, v) => Fit(Reflow(b, w), v)
  BY <1>3, Reflowed
<1>5. \A v \in DOMAIN a.wins \ {w} : Fit(b, v)
  BY <1>2 DEF Fit, Became, SameSessions, Settling
<1>6. Became(a, Reflow(b, w), w, win) /\ Reflow(b, w).live = a.live
  BY <1>2, <1>4 DEF Became, SameSessions
<1>7. \A v \in DOMAIN Reflow(b, w).wins : Fit(Reflow(b, w), v)
  BY <1>2, <1>4, <1>5 DEF Became
<1>8. \A v \in DOMAIN Reflow(b, w).wins : Tidy(Reflow(b, w).wins[v])
  BY <1>6 DEF Became, Settling
<1> QED BY <1>4, <1>6, <1>7, <1>8 DEF Good, Tidy

\* What a handler may remember of window w: its panes and its geometry are as
\* they were.
Noting(a, E, w, win) ==
  /\ Good(a, E) /\ w \in DOMAIN a.wins /\ WinGood(win) /\ Tidy(win)
  /\ DOMAIN win.tabs = DOMAIN a.wins[w].tabs
  /\ \A i \in DOMAIN win.tabs : win.tabs[i].root = a.wins[w].tabs[i].root
  /\ win.size = a.wins[w].size /\ win.cell = a.wins[w].cell /\ win.sidebar = a.wins[w].sidebar
  /\ win.settings = a.wins[w].settings

\* It does that, and nothing has to be laid out.
LEMMA Remembered ==
  ASSUME NEW a, NEW E, NEW w, NEW win, Noting(a, E, w, win)
  PROVE  Good(SetWin(a, w, win), E) /\ Became(a, SetWin(a, w, win), w, win)
<1> DEFINE b == SetWin(a, w, win)
<1>1. TabSessions(win) = TabSessions(a.wins[w])
  BY DEF TabSessions, Noting
<1>2. World(a, {}, {}, E) /\ Fit(a, w)
  BY DEF Good, Noting
<1>3. win.settings = NoSession
        \/ (win.settings < a.next /\ \A v \in DOMAIN a.wins \ {w} : a.wins[v].settings # win.settings)
  BY <1>2 DEF World, Noting
<1>4. MayBecome(a, {}, {}, E, w, win, {})
  BY <1>1, <1>2, <1>3 DEF MayBecome, Noting
<1>5. World(b, {}, {}, E) /\ Became(a, b, w, win) /\ SameSessions(a, b)
  BY <1>4, ChangeWindow
<1> HIDE DEF b
<1>6. \A v \in DOMAIN a.wins \ {w} : Fit(b, v)
  BY <1>5 DEF Fit, Good, Became, SameSessions, Noting
<1>7. ASSUME NEW i \in DOMAIN win.tabs, NEW s PROVE Wanted(win, i, s) = Wanted(a.wins[w], i, s)
  BY DEF Wanted, Grid, TerminalArea, Noting
<1>8. ASSUME NEW i \in DOMAIN win.tabs, NEW s \in Sessions(win.tabs[i].root)
      PROVE  b.registry[s] = Wanted(win, i, s) /\ b.pty[s] = Wanted(win, i, s)
  <2>1. i \in DOMAIN a.wins[w].tabs /\ s \in Sessions(a.wins[w].tabs[i].root)
    BY DEF Noting
  <2>2. a.registry[s] = Wanted(a.wins[w], i, s) /\ a.pty[s] = Wanted(a.wins[w], i, s)
    BY <1>2, <2>1 DEF Fit
  <2> QED BY <1>5, <1>7, <2>2 DEF SameSessions
<1>9. Fit(b, w)
  BY <1>5, <1>8 DEF Fit, Became
<1>10. \A v \in DOMAIN b.wins : Fit(b, v)
  BY <1>5, <1>6, <1>9 DEF Became
<1>11. \A v \in DOMAIN b.wins : Tidy(b.wins[v])
  BY <1>5 DEF Became, Good, Tidy, Noting
<1> QED BY <1>5, <1>10, <1>11 DEF Good, Tidy, b

\* The settings' editor has ended: the window forgets it and takes the settings.
LEMMA Reloaded ==
  ASSUME NEW a, NEW E, Good(a, E), NEW w \in DOMAIN a.wins, NEW s
  PROVE  /\ Good(SettingsClosed(a, w, s), E)
         /\ DOMAIN SettingsClosed(a, w, s).wins = DOMAIN a.wins
         /\ SettingsClosed(a, w, s).live = a.live
         /\ \A v \in DOMAIN a.wins : SettingsClosed(a, w, s).wins[v].tabs = a.wins[v].tabs
<1>1. CASE a.wins[w].settings # s
  BY <1>1 DEF SettingsClosed
<1>2. CASE a.wins[w].settings = s
  <2> DEFINE win == [a.wins[w] EXCEPT !.settings = NoSession, !.cell = BaseCell]
             b == [a EXCEPT !.wins = [a.wins EXCEPT ![w] = win]]
             O == {}
  <2>1. Map(a) /\ DOMAIN a = AppFields /\ Map(a.wins) /\ WinGood(a.wins[w])
    BY DEF Good, World, Record
  <2>2. Map(a.wins[w]) /\ DOMAIN a.wins[w] = WinFields
    BY <2>1 DEF WinGood
  <2>3. SettingsClosed(a, w, s) = Reflow(b, w)
    <3> DEFINE none == [a.wins[w] EXCEPT !.settings = NoSession]
               d == [a EXCEPT !.wins[w].settings = NoSession]
               e == [d EXCEPT !.wins[w].cell = BaseCell]
    <3>1. /\ Map(d) /\ DOMAIN d = AppFields /\ d.wins = [a.wins EXCEPT ![w] = none] /\ d.wins[w] = none
          /\ d.registry = a.registry /\ d.live = a.live /\ d.pty = a.pty /\ d.next = a.next
      BY <2>1 DEF Map, AppFields
    <3>2. [none EXCEPT !.cell = BaseCell] = win
      BY <2>2 DEF Map, WinFields
    <3>3. SettingsClosed(a, w, s) = Reflow(e, w)
      BY <1>2 DEF SettingsClosed, ApplySettings
    <3> HIDE DEF none, d, win
    <3>4. e = [d EXCEPT !.wins = [d.wins EXCEPT ![w] = [none EXCEPT !.cell = BaseCell]]]
      BY <3>1
    <3>5. [d.wins EXCEPT ![w] = win] = [a.wins EXCEPT ![w] = win]
      BY <3>1
    <3>6. e = b
      BY <2>1, <3>1, <3>2, <3>4, <3>5 DEF Map, AppFields
    <3> QED BY <3>3, <3>6
  <2>4. /\ Map(win) /\ DOMAIN win = WinFields
        /\ win.tabs = a.wins[w].tabs /\ win.closing = a.wins[w].closing /\ win.active = a.wins[w].active
        /\ win.chips = a.wins[w].chips /\ win.menu = a.wins[w].menu /\ win.hits = a.wins[w].hits
        /\ win.settings = NoSession /\ win.size = a.wins[w].size /\ win.cell = BaseCell
        /\ win.sidebar = a.wins[w].sidebar /\ win.detached = a.wins[w].detached
    BY <2>2 DEF Map, WinFields
  <2> HIDE DEF win
  <2>5. WinGood(win) /\ TabSessions(win) = TabSessions(a.wins[w])
    BY <2>1, <2>4, WinTabsAssumption DEF WinGood, TabSessions
  <2>6. Settling(a, {}, {}, E, w, win)
    BY <2>4, <2>5 DEF Good, Settling, Tidy
  <2> HIDE DEF b
  <2>7. b = SetWin(a, w, win)
    BY DEF b, SetWin
  <2>8. /\ Good(Reflow(b, w), E) /\ Became(a, Reflow(b, w), w, win)
        /\ Reflow(b, w).live = a.live
    BY <2>6, <2>7, Settled
  <2> QED BY <2>3, <2>4, <2>8 DEF Became
<1> QED BY <1>1, <1>2

\* A window written twice.
LEMMA SetTwice ==
  ASSUME NEW a, Record(a), NEW w \in DOMAIN a.wins, NEW u, NEW v
  PROVE  /\ SetWin(SetWin(a, w, u), w, v) = SetWin(a, w, v)
         /\ SetWin(a, w, u).wins[w] = u
         /\ SetWin(a, w, a.wins[w]) = a
<1> DEFINE b == SetWin(a, w, u)
<1>1. Map(a) /\ DOMAIN a = AppFields /\ Map(a.wins)
  BY DEF Record
<1>2. /\ Map(b) /\ DOMAIN b = AppFields /\ b.wins = [a.wins EXCEPT ![w] = u] /\ b.wins[w] = u
      /\ b.registry = a.registry /\ b.live = a.live /\ b.pty = a.pty /\ b.next = a.next
  BY <1>1 DEF Map, AppFields, SetWin
<1> HIDE DEF b
<1>3. [b.wins EXCEPT ![w] = v] = [a.wins EXCEPT ![w] = v]
  BY <1>2
<1>4. SetWin(b, w, v) = SetWin(a, w, v)
  BY <1>1, <1>2, <1>3 DEF Map, AppFields, SetWin
<1>5. [a.wins EXCEPT ![w] = a.wins[w]] = a.wins
  BY <1>1 DEF Map
<1>6. SetWin(a, w, a.wins[w]) = a
  BY <1>1, <1>5 DEF Map, AppFields, SetWin
<1> QED BY <1>2, <1>4, <1>6 DEF b

\* An end that has been posted is needed no more when no pane is its session's.
LEMMA Unposted ==
  ASSUME NEW a, NEW E, Good(a, E), NEW s, s \notin AllPanes(a)
  PROVE  Good(a, E \ {s})
<1>1. World(a, {}, {}, E)
  BY DEF Good
<1>2. /\ Record(a)
      /\ \A w \in DOMAIN a.wins : WinGood(a.wins[w]) /\ TabSessions(a.wins[w]) \cap {} = {}
      /\ \A v, w \in DOMAIN a.wins : v # w => TabSessions(a.wins[v]) \cap TabSessions(a.wins[w]) = {}
      /\ DOMAIN a.registry = Held(a, {}, {}) /\ DOMAIN a.pty = Held(a, {}, {})
      /\ a.next \in 1 .. MaxSession + 1
      /\ \A w \in DOMAIN a.wins : a.wins[w].settings < a.next
      /\ \A v, w \in DOMAIN a.wins :
            v # w /\ a.wins[v].settings = a.wins[w].settings => a.wins[v].settings = NoSession
  BY <1>1 DEF World
<1>3. /\ a.live \subseteq Held(a, {}, {}) /\ Held(a, {}, {}) \subseteq a.live \cup (E \ {s})
      /\ a.live \cap (E \ {s}) = {} /\ E \ {s} \subseteq Session
      /\ \A x \in AllPanes(a) \cup {} \cup (E \ {s}) : x < a.next
  <2>1. Held(a, {}, {}) = AllPanes(a)
    BY DEF Held
  <2> QED BY <1>1, <2>1 DEF World
<1>4. World(a, {}, {}, E \ {s})
  BY <1>2, <1>3 DEF World
<1> QED BY <1>4 DEF Good

\* What a handler may do to tab ti of window w: its tree loses the sessions Z
\* and takes in the sessions X.
Relaying(a, X, Z, E, w, ti, new) ==
  /\ World(a, X, Z, E) /\ w \in DOMAIN a.wins /\ Tidy(a.wins[w])
  /\ \A v \in DOMAIN a.wins \ {w} : Fit(a, v) /\ Tidy(a.wins[v])
  /\ ti \in DOMAIN a.wins[w].tabs /\ TabGood(new)
  /\ Z \subseteq Sessions(a.wins[w].tabs[ti].root)
  /\ Sessions(new.root) = (Sessions(a.wins[w].tabs[ti].root) \ Z) \cup X

SetTab(a, w, ti, new) == [a EXCEPT !.wins[w].tabs[ti] = new]

\* It does that, and the window is laid out anew.
LEMMA Relaid ==
  ASSUME NEW a, NEW X, NEW Z, NEW E, NEW w, NEW ti, NEW new, Relaying(a, X, Z, E, w, ti, new),
         NEW b, b = SetTab(a, w, ti, new)
  PROVE  /\ Good(Reflow(b, w), E) /\ DOMAIN Reflow(b, w).wins = DOMAIN a.wins
         /\ \A v \in DOMAIN a.wins \ {w} : Reflow(b, w).wins[v] = a.wins[v]
         /\ TabSessions(Reflow(b, w).wins[w]) = (TabSessions(a.wins[w]) \ Z) \cup X
<1> DEFINE win == a.wins[w]
           tab == win.tabs[ti]
           U == [win.tabs EXCEPT ![ti] = new]
           new2 == [win EXCEPT !.tabs = U]
<1>1. /\ World(a, X, Z, E) /\ WinGood(win) /\ TabsGood(win.tabs) /\ Tidy(win)
      /\ ti \in DOMAIN win.tabs /\ TabGood(new) /\ Z \subseteq Sessions(tab.root)
      /\ Sessions(new.root) = (Sessions(tab.root) \ Z) \cup X
  BY DEF Relaying, World, WinGood
<1>2. X \cap TabSessions(win) = {}
  BY DEF Relaying, World
<1>3. /\ \A j \in DOMAIN win.tabs : Sessions(win.tabs[j].root) \subseteq TabSessions(win)
      /\ \A j \in DOMAIN win.tabs : j # ti => Sessions(tab.root) \cap Sessions(win.tabs[j].root) = {}
  BY <1>1 DEF TabSessions, TabsGood
<1>4. \A j \in DOMAIN win.tabs : j # ti => Sessions(new.root) \cap Sessions(win.tabs[j].root) = {}
  BY <1>1, <1>2, <1>3
<1>5. /\ TabsGood(U) /\ DOMAIN U = DOMAIN win.tabs
      /\ SessionsOf(U) = (SessionsOf(win.tabs) \ Sessions(tab.root)) \cup Sessions(new.root)
  BY <1>1, <1>4, TabReplaced
<1>6. b = SetWin(a, w, new2)
  BY DEF SetWin, SetTab
<1> HIDE DEF U
<1>7. /\ Map(new2) /\ DOMAIN new2 = WinFields /\ new2.tabs = U
      /\ new2.active = win.active /\ new2.chips = win.chips /\ new2.menu = win.menu
      /\ new2.hits = win.hits /\ new2.settings = win.settings /\ new2.size = win.size
      /\ new2.cell = win.cell /\ new2.sidebar = win.sidebar /\ new2.detached = win.detached
      /\ new2.closing = win.closing
  <2>1. Map(win) /\ DOMAIN win = WinFields
    BY <1>1 DEF WinGood
  <2> HIDE DEF win
  <2> QED BY <2>1 DEF Map, WinFields
<1> HIDE DEF new2
<1>8. WinGood(new2)
  BY <1>1, <1>5, <1>7 DEF WinGood
<1>9. TabSessions(new2) = (TabSessions(win) \ Z) \cup X
  <2>1. TabSessions(new2) = SessionsOf(U) /\ TabSessions(win) = SessionsOf(win.tabs)
    BY <1>7, SessionsOfWin
  <2>2. Sessions(tab.root) \subseteq TabSessions(win)
    BY <1>1, <1>3
  <2> QED BY <1>1, <1>5, <2>1, <2>2
<1>10. Tidy(new2)
  <2>1. U # <<>>
    BY <1>1, <1>5
  <2> QED BY <1>1, <1>7, <2>1 DEF Tidy
<1>11. new2.settings = NoSession
       \/ (new2.settings < a.next /\ \A v \in DOMAIN a.wins \ {w} : a.wins[v].settings # new2.settings)
  BY <1>7 DEF World, Relaying
<1>12. Z \subseteq TabSessions(win)
  BY <1>1, <1>3
<1>13. Settling(a, X, Z, E, w, new2)
  BY <1>8, <1>9, <1>10, <1>11, <1>12 DEF Relaying, Settling
<1>14. Good(Reflow(b, w), E) /\ Became(a, Reflow(b, w), w, new2)
  BY <1>6, <1>13, Settled
<1> QED BY <1>9, <1>14 DEF Became

\* Only a session that does not run has ended.
MayGo(a, s, exited) == exited \in BOOLEAN /\ (exited => s \notin a.live)
PaneOut(a, c, E, w, s) ==
  /\ Good(c, E) /\ DOMAIN c.wins = DOMAIN a.wins
  /\ \A v \in DOMAIN a.wins \ {w} : c.wins[v] = a.wins[v]
  /\ s \notin TabSessions(c.wins[w])

\* A pane closes, or its session has ended: its tab is laid out without it, or
\* goes with it.
LEMMA PaneGone ==
  ASSUME NEW a, NEW E, Good(a, E), NEW w \in DOMAIN a.wins, NEW s,
         NEW exited, MayGo(a, s, exited)
  PROVE  PaneOut(a, PaneClosed(a, w, s, exited), E, w, s)
<1> DEFINE win == a.wins[w]
           at == {i \in DOMAIN win.tabs : s \in Sessions(win.tabs[i].root)}
           ti == CHOOSE i \in at : \A j \in at : i <= j
           c == IF exited THEN Forget(a, {s}) ELSE Close(a, {s})
           tab == win.tabs[ti]
           root == RemoveLayout(tab.root, s)
           new == [root |-> root, focus |-> IF tab.focus = s THEN FirstSession(root) ELSE tab.focus]
           after == PaneClosed(a, w, s, exited)
<1> exited \in BOOLEAN /\ (exited => s \notin a.live)
  BY DEF MayGo
<1>1. CASE at = {}
  <2>1. after = a
    BY <1>1 DEF PaneClosed
  <2>2. s \notin TabSessions(win)
    BY <1>1 DEF TabSessions
  <2> QED BY <2>1, <2>2 DEF PaneOut
<1>2. CASE at # {}
  <2>0. World(a, {}, {}, E) /\ WinGood(win) /\ TabsGood(win.tabs) /\ Tidy(win)
    BY DEF Good, World, WinGood
  <2>1. ti \in DOMAIN win.tabs /\ s \in Sessions(tab.root)
    <3>1. \A i, j \in at : i = j /\ i <= j
      <4>1. \A i, j \in at : i = j
        BY <2>0 DEF TabsGood
      <4>2. DOMAIN win.tabs = 1 .. Len(win.tabs) /\ Len(win.tabs) \in Nat
        BY <2>0 DEF TabsGood, Listed
      <4>3. \A i \in at : i <= i
        BY <4>2
      <4> QED BY <4>1, <4>3
    <3>2. \E i \in at : \A j \in at : i <= j
      BY <1>2, <3>1
    <3>3. ti \in at
      BY <3>2
    <3> QED BY <3>3
  <2>2. after = IF Sessions(tab.root) = {s} THEN DropTab(c, w, ti)
                ELSE Reflow([c EXCEPT !.wins[w].tabs[ti] = new], w)
    BY <1>2 DEF PaneClosed
  <2> HIDE DEF at, ti, after
  <2>3. World(a, {}, {}, E) /\ WinGood(win) /\ TabsGood(win.tabs) /\ Tidy(win)
    BY <2>0
  <2>4. s \in TabSessions(win) /\ {s} \subseteq AllPanes(a)
    BY <2>1 DEF TabSessions, AllPanes
  <2>5. \A v \in DOMAIN a.wins \ {w} : TabSessions(a.wins[v]) \cap {s} = {}
    BY <2>3, <2>4 DEF World
  <2>6. c = Close(a, {s}) \/ (c = Forget(a, {s}) /\ {s} \cap a.live = {})
    OBVIOUS
  <2> HIDE DEF c
  <2>7. /\ World(c, {}, {s}, E) /\ c.wins = a.wins
        /\ \A v \in DOMAIN a.wins :
              Fit(a, v) /\ TabSessions(a.wins[v]) \cap {s} = {} => Fit(c, v)
    BY <2>3, <2>4, <2>6, Shed
  <2>8. \A v \in DOMAIN c.wins \ {w} : Fit(c, v) /\ Tidy(c.wins[v])
    BY <2>5, <2>7 DEF Good
  <2>9. w \in DOMAIN c.wins /\ c.wins[w] = win
    BY <2>7
  <2>10. CASE Sessions(tab.root) = {s}
    <3>1. ti \in DOMAIN c.wins[w].tabs /\ {s} \subseteq Sessions(c.wins[w].tabs[ti].root)
      BY <2>1, <2>9
    <3> DEFINE d == DropTab(c, w, ti)
    <3>2. /\ World(d, Sessions(c.wins[w].tabs[ti].root) \ {s}, {}, E)
          /\ DOMAIN d.wins = DOMAIN c.wins
          /\ \A v \in DOMAIN c.wins : Fit(d, v)
          /\ \A v \in DOMAIN c.wins \ {w} : d.wins[v] = c.wins[v]
          /\ d.wins[w].detached = c.wins[w].detached
          /\ TabSessions(d.wins[w]) = TabSessions(c.wins[w]) \ Sessions(c.wins[w].tabs[ti].root)
          /\ d.wins[w].tabs = <<>> => d.wins[w].closing
      <4>1. Dropping(c, {s}, E, w, ti)
        BY <2>7, <2>8, <2>9, <3>1 DEF Dropping
      <4>2. TabDropped(c, d, {s}, E, w, ti)
        BY <4>1, Dropped
      <4> HIDE DEF tab, d
      <4> QED BY <4>2 DEF TabDropped
    <3>3. after = d
      BY <2>2, <2>10
    <3> HIDE DEF d
    <3>4. Sessions(c.wins[w].tabs[ti].root) \ {s} = {}
      BY <2>9, <2>10
    <3>5. \A v \in DOMAIN d.wins : Tidy(d.wins[v])
      BY <2>3, <2>8, <2>9, <3>2 DEF Tidy
    <3>6. World(d, {}, {}, E)
      BY <3>2, <3>4
    <3>7. Good(d, E)
      BY <3>2, <3>5, <3>6 DEF Good
    <3> QED BY <2>1, <2>7, <2>9, <3>2, <3>3, <3>7 DEF after, PaneOut
  <2>11. CASE Sessions(tab.root) # {s}
    <3>1. Tree(tab.root) /\ Sessions(tab.root) \subseteq Session /\ tab.focus \in Session
      BY <2>1, <2>3 DEF TabsGood, TabGood
    <3>2. Tree(root) /\ Sessions(root) = Sessions(tab.root) \ {s}
      BY <2>1, <2>11, <3>1, RemoveIsTree
    <3> HIDE DEF root
    <3>3. FirstSession(root) \in Sessions(root)
      BY <3>2, FirstIsSession
    <3>4. new.root = root /\ TabGood(new)
      BY <3>1, <3>2, <3>3 DEF TabGood
    <3> HIDE DEF new
    <3>5. Relaying(c, {}, {s}, E, w, ti, new)
      <4>1. {s} \subseteq Sessions(tab.root) /\ Sessions(new.root) = (Sessions(tab.root) \ {s}) \cup {}
        BY <2>1, <3>2, <3>4
      <4> QED BY <2>1, <2>3, <2>7, <2>8, <2>9, <3>4, <4>1 DEF Relaying
    <3> DEFINE d == SetTab(c, w, ti, new)
    <3>6. after = Reflow(d, w)
      BY <2>2, <2>11 DEF SetTab
    <3> HIDE DEF d
    <3>7. d = SetTab(c, w, ti, new)
      BY DEF d
    <3>8. /\ Good(Reflow(d, w), E) /\ DOMAIN Reflow(d, w).wins = DOMAIN c.wins
          /\ \A v \in DOMAIN c.wins \ {w} : Reflow(d, w).wins[v] = c.wins[v]
          /\ TabSessions(Reflow(d, w).wins[w]) = (TabSessions(c.wins[w]) \ {s}) \cup {}
      BY <3>5, <3>7, Relaid
    <3> QED BY <2>7, <3>6, <3>8 DEF after, PaneOut
  <2> QED BY <2>10, <2>11
<1> QED BY <1>1, <1>2

\* close_session() of a pane whose session may still run, or of one that has
\* ended.
LEMMA SessionClosed ==
  ASSUME NEW a, NEW E, Good(a, E), NEW w \in DOMAIN a.wins, NEW s,
         NEW exited, MayGo(a, s, exited)
  PROVE  /\ Good(CloseSession(a, w, s, exited), E)
         /\ DOMAIN CloseSession(a, w, s, exited).wins = DOMAIN a.wins
<1> DEFINE c == SettingsClosed(a, w, s)
<1>1. Good(c, E) /\ DOMAIN c.wins = DOMAIN a.wins /\ c.live = a.live
  BY Reloaded
<1>2. CloseSession(a, w, s, exited) = PaneClosed(c, w, s, exited)
  BY DEF CloseSession
<1> HIDE DEF c
<1>3. w \in DOMAIN c.wins /\ MayGo(c, s, exited)
  BY <1>1 DEF MayGo
<1>4. PaneOut(c, PaneClosed(c, w, s, exited), E, w, s)
  BY <1>1, <1>3, PaneGone
<1> QED BY <1>1, <1>2, <1>4 DEF PaneOut

\* close_whole_tab() closes every session of the tab.
LEMMA WholeTabClosed ==
  ASSUME NEW a, NEW E, Good(a, E), NEW w \in DOMAIN a.wins, NEW ti
  PROVE  Good(CloseWholeTab(a, w, ti), E) /\ DOMAIN CloseWholeTab(a, w, ti).wins = DOMAIN a.wins
<1>1. CASE ti \notin DOMAIN a.wins[w].tabs
  BY <1>1 DEF CloseWholeTab
<1>2. CASE ti \in DOMAIN a.wins[w].tabs
  <2> DEFINE S == Sessions(a.wins[w].tabs[ti].root)
             c == Close(a, S)
             d == DropTab(c, w, ti)
  <2>1. CloseWholeTab(a, w, ti) = d
    BY <1>2 DEF CloseWholeTab
  <2>2. World(a, {}, {}, E)
    BY DEF Good
  <2>3. S \subseteq TabSessions(a.wins[w]) /\ S \subseteq AllPanes(a)
    BY <1>2 DEF TabSessions, AllPanes
  <2>4. \A v \in DOMAIN a.wins \ {w} : TabSessions(a.wins[v]) \cap S = {}
    BY <2>2, <2>3 DEF World
  <2> HIDE DEF S
  <2>5. /\ World(c, {}, S, E) /\ c.wins = a.wins
        /\ \A v \in DOMAIN a.wins :
              Fit(a, v) /\ TabSessions(a.wins[v]) \cap S = {} => Fit(c, v)
    <3>1. c = Close(a, S) \/ (c = Forget(a, S) /\ S \cap a.live = {})
      OBVIOUS
    <3> HIDE DEF c
    <3> QED BY <2>2, <2>3, <3>1, Shed
  <2> HIDE DEF c
  <2>6. \A v \in DOMAIN c.wins \ {w} : Fit(c, v)
    BY <2>4, <2>5 DEF Good
  <2>7. /\ w \in DOMAIN c.wins /\ ti \in DOMAIN c.wins[w].tabs
        /\ Sessions(c.wins[w].tabs[ti].root) = S
    BY <1>2, <2>5 DEF S
  <2>8. S \subseteq Sessions(c.wins[w].tabs[ti].root)
    BY <2>7
  <2>9. /\ World(d, Sessions(c.wins[w].tabs[ti].root) \ S, {}, E)
        /\ DOMAIN d.wins = DOMAIN c.wins
        /\ \A v \in DOMAIN c.wins : Fit(d, v)
        /\ \A v \in DOMAIN c.wins \ {w} : d.wins[v] = c.wins[v]
        /\ d.wins[w].detached = c.wins[w].detached
        /\ d.wins[w].tabs = <<>> => d.wins[w].closing
    <3>1. Dropping(c, S, E, w, ti)
      BY <2>5, <2>6, <2>7, <2>8 DEF Dropping
    <3>2. TabDropped(c, d, S, E, w, ti)
      BY <3>1, Dropped
    <3> HIDE DEF d
    <3> QED BY <3>2 DEF TabDropped
  <2> HIDE DEF d
  <2>10. Sessions(c.wins[w].tabs[ti].root) \ S = {}
    BY <2>7
  <2>11. World(d, {}, {}, E)
    BY <2>9, <2>10
  <2>12. \A v \in DOMAIN d.wins : Tidy(d.wins[v])
    BY <2>5, <2>7, <2>9 DEF Tidy, Good
  <2> QED BY <2>1, <2>5, <2>9, <2>11, <2>12 DEF Good
<1> QED BY <1>1, <1>2

\* Window w has a tab that is to get a window of its own.
Torn(a, E, w, tab) ==
  /\ World(a, Sessions(tab.root), {}, E) /\ TabGood(tab) /\ w \in DOMAIN a.wins
  /\ \A v \in DOMAIN a.wins : Fit(a, v)
  /\ \A v \in DOMAIN a.wins \ {w} : Tidy(a.wins[v])
  /\ a.wins[w].detached = <<tab>> /\ (a.wins[w].tabs = <<>> => a.wins[w].closing)

\* move_tab() takes a tab out of its window, if there is one at the index.
LEMMA TabMoved ==
  ASSUME NEW a, NEW E, Good(a, E), NEW w \in DOMAIN a.wins, NEW ti
  PROVE  /\ DOMAIN MoveTab(a, w, ti).wins = DOMAIN a.wins
         /\ \/ Good(MoveTab(a, w, ti), E)
            \/ \E tab : Torn(MoveTab(a, w, ti), E, w, tab)
<1>1. CASE ti \notin DOMAIN a.wins[w].tabs
  BY <1>1 DEF MoveTab
<1>2. CASE ti \in DOMAIN a.wins[w].tabs
  <2> DEFINE win == a.wins[w]
             tab == win.tabs[ti]
             X == Sessions(tab.root)
             new == [win EXCEPT !.detached = <<tab>>]
             c == SetWin(a, w, new)
             d == DropTab(c, w, ti)
  <2>1. MoveTab(a, w, ti) = d
    BY <1>2 DEF MoveTab, SetWin
  <2>2. World(a, {}, {}, E) /\ WinGood(win) /\ TabsGood(win.tabs)
    BY DEF Good, World, WinGood
  <2>3. /\ Map(new) /\ DOMAIN new = WinFields /\ new.tabs = win.tabs
        /\ new.active = win.active /\ new.chips = win.chips /\ new.menu = win.menu
        /\ new.hits = win.hits /\ new.settings = win.settings /\ new.size = win.size
        /\ new.cell = win.cell /\ new.sidebar = win.sidebar /\ new.detached = <<tab>>
        /\ new.closing = win.closing
    <3>1. Map(win) /\ DOMAIN win = WinFields
      BY <2>2 DEF WinGood
    <3> HIDE DEF win, tab
    <3> QED BY <3>1 DEF Map, WinFields
  <2> HIDE DEF new
  <2>4. WinGood(new) /\ TabSessions(new) = TabSessions(win)
    BY <2>2, <2>3 DEF WinGood, TabSessions
  <2>5. new.settings = NoSession
         \/ (new.settings < a.next /\ \A v \in DOMAIN a.wins \ {w} : a.wins[v].settings # new.settings)
    BY <2>2, <2>3 DEF World
  <2>6. MayBecome(a, {}, {}, E, w, new, {})
    BY <2>2, <2>4, <2>5 DEF MayBecome
  <2>7. World(c, {}, {}, E) /\ Became(a, c, w, new) /\ SameSessions(a, c)
    BY <2>6, ChangeWindow
  <2> HIDE DEF c
  <2>8. /\ DOMAIN c.wins = DOMAIN a.wins /\ c.wins[w] = new
        /\ \A v \in DOMAIN c.wins \ {w} : Fit(c, v) /\ Tidy(c.wins[v])
    BY <2>7 DEF Became, SameSessions, Fit, Good
  <2>9. /\ ti \in DOMAIN c.wins[w].tabs /\ Sessions(c.wins[w].tabs[ti].root) = X
        /\ {} \subseteq Sessions(c.wins[w].tabs[ti].root) /\ w \in DOMAIN c.wins
    BY <1>2, <2>3, <2>8
  <2>10. /\ World(d, Sessions(c.wins[w].tabs[ti].root) \ {}, {}, E)
         /\ DOMAIN d.wins = DOMAIN c.wins
         /\ \A v \in DOMAIN c.wins : Fit(d, v)
         /\ \A v \in DOMAIN c.wins \ {w} : d.wins[v] = c.wins[v]
         /\ d.wins[w].detached = c.wins[w].detached
         /\ d.wins[w].tabs = <<>> => d.wins[w].closing
    <3>1. Dropping(c, {}, E, w, ti)
      BY <2>7, <2>8, <2>9 DEF Dropping
    <3>2. TabDropped(c, d, {}, E, w, ti)
      BY <3>1, Dropped
    <3> HIDE DEF d
    <3> QED BY <3>2 DEF TabDropped
  <2> HIDE DEF d
  <2>11. X \ {} = X
    OBVIOUS
  <2>12. TabGood(tab)
    BY <1>2, <2>2 DEF TabsGood
  <2>13. World(d, Sessions(tab.root), {}, E)
    BY <2>9, <2>10, <2>11
  <2> HIDE DEF tab
  <2>14. Torn(d, E, w, tab)
    BY <2>3, <2>8, <2>9, <2>10, <2>12, <2>13 DEF Torn
  <2> QED BY <2>1, <2>8, <2>10, <2>14
<1> QED BY <1>1, <1>2

---------------------------------------------------------------------------
(* reconcile().                                                            *)

\* Forgetting the moved tabs changes a window that had one, and no other.
LEMMA Taken ==
  ASSUME NEW a, Record(a), NEW w \in DOMAIN a.wins,
         \A v \in DOMAIN a.wins : WinGood(a.wins[v]),
         \A v \in DOMAIN a.wins \ {w} : a.wins[v].detached = <<>>
  PROVE  [a EXCEPT !.wins = [v \in DOMAIN @ |-> [@[v] EXCEPT !.detached = <<>>]]]
            = SetWin(a, w, [a.wins[w] EXCEPT !.detached = <<>>])
<1> DEFINE new == [a.wins[w] EXCEPT !.detached = <<>>]
           all == [v \in DOMAIN a.wins |-> [a.wins[v] EXCEPT !.detached = <<>>]]
<1>1. ASSUME NEW v \in DOMAIN a.wins \ {w} PROVE [a.wins[v] EXCEPT !.detached = <<>>] = a.wins[v]
  <2> DEFINE win == a.wins[v]
  <2>1. Map(win) /\ win.detached = <<>>
    BY DEF WinGood
  <2> HIDE DEF win
  <2>2. [win EXCEPT !.detached = <<>>] = win
    BY <2>1 DEF Map
  <2> QED BY <2>2 DEF win
<1> HIDE DEF new
<1>2. all = [a.wins EXCEPT ![w] = new]
  <2>1. all[w] = new
    BY DEF new
  <2>2. \A v \in DOMAIN a.wins \ {w} : all[v] = a.wins[v]
    BY <1>1
  <2>3. Map(a.wins) /\ Map(all) /\ DOMAIN all = DOMAIN a.wins
    BY DEF Record, Map
  <2> HIDE DEF all
  <2> QED BY <2>1, <2>2, <2>3 DEF Map
<1> HIDE DEF all
<1>3. [a EXCEPT !.wins = [v \in DOMAIN @ |-> [@[v] EXCEPT !.detached = <<>>]]] = [a EXCEPT !.wins = all]
  BY DEF all
<1> QED BY <1>2, <1>3 DEF SetWin, new

\* A moved tab, and the number of its window.
Adopting(a, E, tab, n) ==
  /\ World(a, Sessions(tab.root), {}, E) /\ TabGood(tab) /\ n \notin DOMAIN a.wins
  /\ \A v \in DOMAIN a.wins : Fit(a, v) /\ Tidy(a.wins[v])

\* A moved tab gets a window of its own, whose grids its panes are given.
LEMMA Adopted ==
  ASSUME NEW a, NEW E, NEW tab, NEW n, Adopting(a, E, tab, n)
  PROVE  Good(AdoptTab(a, n, tab), E) /\ DOMAIN AdoptTab(a, n, tab).wins = DOMAIN a.wins \cup {n}
<1> DEFINE X == Sessions(tab.root)
           new == [NewWin EXCEPT !.tabs = <<tab>>]
           b == [a EXCEPT !.wins = [v \in DOMAIN @ \cup {n} |-> IF v = n THEN new ELSE @[v]]]
<1> /\ World(a, X, {}, E) /\ TabGood(tab) /\ n \notin DOMAIN a.wins
    /\ \A v \in DOMAIN a.wins : Fit(a, v) /\ Tidy(a.wins[v])
  BY DEF Adopting
<1>1. Map(a) /\ DOMAIN a = AppFields /\ Map(a.wins)
  BY DEF World, Record
<1>2. AdoptTab(a, n, tab) = Reflow(b, n)
  BY DEF AdoptTab
<1> HIDE DEF new
<1>3. /\ Map(b) /\ DOMAIN b = AppFields
      /\ b.wins = [v \in DOMAIN a.wins \cup {n} |-> IF v = n THEN new ELSE a.wins[v]]
      /\ b.registry = a.registry /\ b.pty = a.pty /\ b.live = a.live /\ b.next = a.next
  BY <1>1 DEF Map, AppFields
<1> HIDE DEF b
<1>4. /\ DOMAIN b.wins = DOMAIN a.wins \cup {n} /\ b.wins[n] = new /\ Map(b.wins)
      /\ \A v \in DOMAIN a.wins : b.wins[v] = a.wins[v]
  BY <1>3 DEF Map
<1>5. Record(b)
  BY <1>3, <1>4 DEF World, Record
<1>6. WinGood(new) /\ TabSessions(new) = X /\ new.settings = NoSession /\ Tidy(new)
  <2>1. /\ Map(new) /\ DOMAIN new = WinFields /\ new.tabs = <<tab>> /\ new.active = 1
        /\ new.chips = 0 /\ new.menu = NoTab /\ new.hits = {} /\ new.settings = NoSession
        /\ new.size = NewSize /\ new.cell = BaseCell /\ new.sidebar = FALSE
        /\ new.detached = <<>> /\ new.closing = FALSE
    BY DEF new, NewWin, Map, WinFields
  <2>2. TabsGood(<<tab>>) /\ SessionsOf(<<tab>>) = X
    <3>1. Listed(<<tab>>) /\ DOMAIN <<tab>> = {1} /\ <<tab>>[1] = tab
      <4>1. <<tab>> \in Seq({tab}) /\ Len(<<tab>>) = 1 /\ <<tab>>[1] = tab
        OBVIOUS
      <4>2. Listed(<<tab>>) /\ DOMAIN <<tab>> = 1 .. Len(<<tab>>)
        BY <4>1, SeqListed
      <4> QED BY <4>1, <4>2
    <3> QED BY <3>1 DEF TabsGood, SessionsOf
  <2>3. <<tab>> # <<>>
    OBVIOUS
  <2>4. new.menu \in 0 .. MaxSession /\ new.chips \in 0 .. MaxSession /\ new.active \in Nat \ {0}
    BY <2>1, WinTabsAssumption DEF NoTab
  <2> QED BY <2>1, <2>2, <2>3, <2>4, SessionsOfWin, WinTabsAssumption DEF WinGood, Tidy
<1>7. AllPanes(b) = AllPanes(a) \cup X
  BY <1>4, <1>6 DEF AllPanes
<1>8. Held(b, {}, {}) = Held(a, X, {})
  BY <1>7 DEF Held
<1>9. /\ Record(a)
      /\ \A v \in DOMAIN a.wins : WinGood(a.wins[v]) /\ TabSessions(a.wins[v]) \cap X = {}
      /\ \A u, v \in DOMAIN a.wins : u # v => TabSessions(a.wins[u]) \cap TabSessions(a.wins[v]) = {}
      /\ DOMAIN a.registry = Held(a, X, {}) /\ DOMAIN a.pty = Held(a, X, {})
      /\ a.live \subseteq Held(a, X, {}) /\ Held(a, X, {}) \subseteq a.live \cup E /\ a.live \cap E = {}
      /\ a.next \in 1 .. MaxSession + 1 /\ E \subseteq Session /\ X \subseteq Session
      /\ \A s \in AllPanes(a) \cup X \cup E : s < a.next
      /\ \A v \in DOMAIN a.wins : a.wins[v].settings < a.next
      /\ \A u, v \in DOMAIN a.wins :
            u # v /\ a.wins[u].settings = a.wins[v].settings => a.wins[u].settings = NoSession
  BY DEF World
<1> HIDE DEF X
<1>10. World(b, {}, {}, E)
  <2>1. \A v \in DOMAIN b.wins : WinGood(b.wins[v]) /\ TabSessions(b.wins[v]) \cap {} = {}
    BY <1>4, <1>6, <1>9
  <2>2. ASSUME NEW u \in DOMAIN b.wins, NEW v \in DOMAIN b.wins, u # v
        PROVE  TabSessions(b.wins[u]) \cap TabSessions(b.wins[v]) = {}
    <3>1. CASE u = n
      BY <1>4, <1>6, <1>9, <2>2, <3>1
    <3>2. CASE v = n
      BY <1>4, <1>6, <1>9, <2>2, <3>2
    <3>3. CASE u # n /\ v # n
      BY <1>4, <1>9, <2>2, <3>3
    <3> QED BY <3>1, <3>2, <3>3
  <2>3. \A v \in DOMAIN b.wins : b.wins[v].settings < b.next
    <3>1. NoSession < b.next
      BY <1>3, <1>9, WinTabsAssumption DEF NoSession
    <3> QED BY <1>3, <1>4, <1>6, <1>9, <3>1
  <2>4. \A u, v \in DOMAIN b.wins :
            u # v /\ b.wins[u].settings = b.wins[v].settings => b.wins[u].settings = NoSession
    BY <1>4, <1>6, <1>9
  <2>5. /\ DOMAIN b.registry = Held(b, {}, {}) /\ DOMAIN b.pty = Held(b, {}, {})
        /\ b.live \subseteq Held(b, {}, {}) /\ Held(b, {}, {}) \subseteq b.live \cup E /\ b.live \cap E = {}
    BY <1>3, <1>8, <1>9
  <2>6. b.next \in 1 .. MaxSession + 1 /\ \A s \in AllPanes(b) \cup {} \cup E : s < b.next
    BY <1>3, <1>7, <1>9
  <2> QED BY <1>5, <1>9, <2>1, <2>2, <2>3, <2>4, <2>5, <2>6 DEF World
<1>11. n \in DOMAIN b.wins
  BY <1>4
<1>12. /\ World(Reflow(b, n), {}, {}, E) /\ Reflow(b, n).wins = b.wins
       /\ Fit(Reflow(b, n), n)
       /\ \A v \in DOMAIN b.wins \ {n} : Fit(b, v) => Fit(Reflow(b, n), v)
  BY <1>10, <1>11, Reflowed
<1>13. \A v \in DOMAIN a.wins : Fit(b, v)
  BY <1>3, <1>4 DEF Fit
<1>14. \A v \in DOMAIN b.wins : Fit(Reflow(b, n), v) /\ Tidy(b.wins[v])
  BY <1>4, <1>6, <1>12, <1>13
<1> QED BY <1>2, <1>4, <1>12, <1>14 DEF Good

\* The windows that asked to close go, with their sessions.
LEMMA Swept ==
  ASSUME NEW a, NEW E, Good(a, E)
  PROVE  /\ Good(Sweep(a), E) /\ DOMAIN Sweep(a).wins \subseteq DOMAIN a.wins
         /\ \A v \in DOMAIN Sweep(a).wins :
               Sweep(a).wins[v].tabs # <<>> /\ ~Sweep(a).wins[v].closing
<1> DEFINE gone == {v \in DOMAIN a.wins : a.wins[v].closing}
           S == UNION {TabSessions(a.wins[v]) : v \in gone}
           c == Close(a, S)
           b == [c EXCEPT !.wins = [v \in DOMAIN @ \ gone |-> @[v]]]
<1>1. Sweep(a) = b
  BY DEF Sweep
<1>2. World(a, {}, {}, E)
  BY DEF Good
<1>3. S \subseteq AllPanes(a)
  BY DEF AllPanes
<1>4. \A v \in DOMAIN a.wins \ gone : TabSessions(a.wins[v]) \cap S = {}
  BY <1>2 DEF World
<1>5. AllPanes(a) \ S = UNION {TabSessions(a.wins[v]) : v \in DOMAIN a.wins \ gone}
  BY <1>4 DEF AllPanes
<1>k. \A v \in DOMAIN a.wins \ gone : ~a.wins[v].closing
  OBVIOUS
<1> HIDE DEF S
<1>6. /\ World(c, {}, S, E) /\ c.wins = a.wins /\ c.next = a.next
      /\ \A v \in DOMAIN a.wins :
            Fit(a, v) /\ TabSessions(a.wins[v]) \cap S = {} => Fit(c, v)
  <2>1. c = Close(a, S) \/ (c = Forget(a, S) /\ S \cap a.live = {})
    OBVIOUS
  <2> HIDE DEF c
  <2> QED BY <1>2, <1>3, <2>1, Shed
<1> HIDE DEF c, gone
<1>7. Map(c) /\ DOMAIN c = AppFields /\ Map(c.wins)
  BY <1>6 DEF World, Record
<1>8. /\ Map(b) /\ DOMAIN b = AppFields
      /\ b.wins = [v \in DOMAIN c.wins \ gone |-> c.wins[v]]
      /\ b.registry = c.registry /\ b.pty = c.pty /\ b.live = c.live /\ b.next = c.next
  BY <1>7 DEF Map, AppFields
<1> HIDE DEF b
<1>9. /\ DOMAIN b.wins = DOMAIN a.wins \ gone /\ Map(b.wins)
      /\ \A v \in DOMAIN a.wins \ gone : b.wins[v] = a.wins[v]
  BY <1>6, <1>8 DEF Map
<1>10. Record(b)
  BY <1>6, <1>8, <1>9 DEF World, Record
<1>11. AllPanes(b) = AllPanes(a) \ S
  BY <1>5, <1>9 DEF AllPanes
<1>12. Held(b, {}, {}) = Held(c, {}, S)
  BY <1>6, <1>11 DEF Held, AllPanes
<1>13. World(b, {}, {}, E)
  <2>1. \A v \in DOMAIN b.wins : WinGood(b.wins[v]) /\ TabSessions(b.wins[v]) \cap {} = {}
    BY <1>2, <1>9 DEF World
  <2>2. \A u, v \in DOMAIN b.wins : u # v => TabSessions(b.wins[u]) \cap TabSessions(b.wins[v]) = {}
    BY <1>2, <1>9 DEF World
  <2>3. \A v \in DOMAIN b.wins : b.wins[v].settings < b.next
    BY <1>2, <1>6, <1>8, <1>9 DEF World
  <2>4. \A u, v \in DOMAIN b.wins :
            u # v /\ b.wins[u].settings = b.wins[v].settings => b.wins[u].settings = NoSession
    BY <1>2, <1>9 DEF World
  <2>5. /\ DOMAIN b.registry = Held(b, {}, {}) /\ DOMAIN b.pty = Held(b, {}, {})
        /\ b.live \subseteq Held(b, {}, {}) /\ Held(b, {}, {}) \subseteq b.live \cup E /\ b.live \cap E = {}
    BY <1>6, <1>8, <1>12 DEF World
  <2>6. b.next \in 1 .. MaxSession + 1 /\ \A s \in AllPanes(b) \cup {} \cup E : s < b.next
    BY <1>2, <1>6, <1>8, <1>11 DEF World
  <2>7. E \subseteq Session
    BY <1>2 DEF World
  <2> QED BY <1>10, <2>1, <2>2, <2>3, <2>4, <2>5, <2>6, <2>7 DEF World
<1>14. ASSUME NEW v \in DOMAIN b.wins
       PROVE  /\ Fit(b, v) /\ Tidy(b.wins[v])
              /\ b.wins[v].tabs # <<>> /\ ~b.wins[v].closing
  <2>1. b.wins[v] = a.wins[v] /\ v \in DOMAIN a.wins \ gone
    BY <1>9
  <2>2. Tidy(b.wins[v]) /\ ~b.wins[v].closing
    BY <1>k, <2>1 DEF Good
  <2>3. Fit(c, v)
    BY <1>4, <1>6, <2>1 DEF Good
  <2>4. Fit(b, v)
    BY <1>6, <1>8, <2>1, <2>3 DEF Fit
  <2> QED BY <2>2, <2>4 DEF Tidy
<1> QED BY <1>1, <1>9, <1>13, <1>14 DEF Good

\* Without a moved tab no window changes before the sweep.
LEMMA NoneMoved ==
  ASSUME NEW a, NEW E, Good(a, E)
  PROVE  AdoptMoved(a) = a
<1> DEFINE all == [v \in DOMAIN a.wins |-> [a.wins[v] EXCEPT !.detached = <<>>]]
<1>1. Map(a) /\ Map(a.wins) /\ \A v \in DOMAIN a.wins : Map(a.wins[v]) /\ a.wins[v].detached = <<>>
  BY DEF Good, World, Record, WinGood, Tidy
<1>2. AdoptMoved(a) = [a EXCEPT !.wins = all]
  BY <1>1 DEF AdoptMoved
<1>3. ASSUME NEW v \in DOMAIN a.wins PROVE [a.wins[v] EXCEPT !.detached = <<>>] = a.wins[v]
  <2> DEFINE win == a.wins[v]
  <2>1. Map(win) /\ win.detached = <<>>
    BY <1>1
  <2> HIDE DEF win
  <2>2. [win EXCEPT !.detached = <<>>] = win
    BY <2>1 DEF Map
  <2> QED BY <2>2 DEF win
<1>4. all = [v \in DOMAIN a.wins |-> a.wins[v]]
  BY <1>3
<1>5. all = a.wins
  BY <1>1, <1>4 DEF Map
<1> HIDE DEF all
<1>6. [a EXCEPT !.wins = all] = a
  BY <1>1, <1>5 DEF Map
<1> QED BY <1>2, <1>6

\* One moved tab gets the next number a window can have.
LEMMA OneMoved ==
  ASSUME NEW a, NEW E, NEW w, NEW tab, Torn(a, E, w, tab), opened + 1 \notin DOMAIN a.wins
  PROVE  Good(AdoptMoved(a), E) /\ DOMAIN AdoptMoved(a).wins = DOMAIN a.wins \cup {opened + 1}
<1> DEFINE win == a.wins[w]
           new == [win EXCEPT !.detached = <<>>]
           X == Sessions(tab.root)
           c == SetWin(a, w, new)
<1>1. /\ World(a, X, {}, E) /\ TabGood(tab) /\ w \in DOMAIN a.wins /\ Record(a)
      /\ \A v \in DOMAIN a.wins : WinGood(a.wins[v])
      /\ \A v \in DOMAIN a.wins \ {w} : a.wins[v].detached = <<>>
      /\ win.detached = <<tab>>
  BY DEF Torn, World, Tidy
<1>2. [a EXCEPT !.wins = [v \in DOMAIN @ |-> [@[v] EXCEPT !.detached = <<>>]]] = c
  BY <1>1, Taken
<1>3. AdoptMoved(a) = AdoptTab(c, opened + 1, tab)
  <2> DEFINE from == {v \in DOMAIN a.wins : a.wins[v].detached # <<>>}
             moved(v) == a.wins[v].detached[1]
             taken == [a EXCEPT !.wins = [v \in DOMAIN @ |-> [@[v] EXCEPT !.detached = <<>>]]]
  <2>1. <<tab>> # <<>> /\ <<tab>>[1] = tab
    OBVIOUS
  <2>2. from = {w}
    BY <1>1, <2>1
  <2>3. AdoptMoved(a) = IF from = {} THEN taken
                        ELSE AdoptTab(taken, opened + 1, moved(CHOOSE v \in from : TRUE))
    BY DEF AdoptMoved
  <2>4. taken = c
    BY <1>2
  <2> HIDE DEF taken, c, from
  <2>5. (CHOOSE v \in from : TRUE) = w
    BY <2>2
  <2>6. moved(w) = tab
    BY <1>1, <2>1
  <2> QED BY <2>2, <2>3, <2>4, <2>5, <2>6
<1>4. /\ Map(new) /\ DOMAIN new = WinFields /\ new.tabs = win.tabs
      /\ new.active = win.active /\ new.chips = win.chips /\ new.menu = win.menu
      /\ new.hits = win.hits /\ new.settings = win.settings /\ new.size = win.size
      /\ new.cell = win.cell /\ new.sidebar = win.sidebar /\ new.detached = <<>>
      /\ new.closing = win.closing
  <2>1. Map(win) /\ DOMAIN win = WinFields
    BY <1>1 DEF WinGood
  <2> HIDE DEF win
  <2> QED BY <2>1 DEF Map, WinFields
<1> HIDE DEF new
<1>5. WinGood(new) /\ TabSessions(new) = TabSessions(win)
  BY <1>1, <1>4 DEF WinGood, TabSessions
<1>6. new.settings = NoSession
       \/ (new.settings < a.next /\ \A v \in DOMAIN a.wins \ {w} : a.wins[v].settings # new.settings)
  BY <1>1, <1>4 DEF World
<1>7. X \cap TabSessions(new) = {}
  BY <1>1, <1>5 DEF World
<1> HIDE DEF X
<1>8. MayBecome(a, X, {}, E, w, new, X)
  BY <1>1, <1>5, <1>6, <1>7 DEF MayBecome
<1>9. World(c, X, {}, E) /\ Became(a, c, w, new) /\ SameSessions(a, c)
  BY <1>8, ChangeWindow
<1> HIDE DEF c
<1>10. DOMAIN c.wins = DOMAIN a.wins
  BY <1>9 DEF Became
<1>11. ASSUME NEW v \in DOMAIN c.wins PROVE Fit(c, v) /\ Tidy(c.wins[v])
  <2>1. CASE v = w
    <3>1. c.wins[v] = new /\ Fit(a, w)
      BY <1>9, <2>1 DEF Became, Torn
    <3>2. \A i \in DOMAIN new.tabs, s \in Session : Wanted(new, i, s) = Wanted(win, i, s)
      BY <1>4 DEF Wanted, Grid, TerminalArea
    <3>3. \A i \in DOMAIN new.tabs : Sessions(new.tabs[i].root) \subseteq Session
      BY <1>5 DEF WinGood, TabsGood, TabGood
    <3>4. Fit(c, v)
      <4> SUFFICES ASSUME NEW i \in DOMAIN new.tabs, NEW s \in Sessions(new.tabs[i].root)
                   PROVE  c.registry[s] = Wanted(new, i, s) /\ c.pty[s] = Wanted(new, i, s)
        BY <3>1 DEF Fit
      <4>1. a.registry[s] = Wanted(win, i, s) /\ a.pty[s] = Wanted(win, i, s)
        BY <1>4, <3>1 DEF Fit
      <4> QED BY <1>9, <3>2, <3>3, <4>1 DEF SameSessions
    <3>5. Tidy(new)
      BY <1>4 DEF Tidy, Torn
    <3> QED BY <3>1, <3>4, <3>5
  <2>2. CASE v # w
    BY <1>9, <2>2 DEF Became, SameSessions, Fit, Torn
  <2> QED BY <2>1, <2>2
<1>12. /\ Good(AdoptTab(c, opened + 1, tab), E)
       /\ DOMAIN AdoptTab(c, opened + 1, tab).wins = DOMAIN c.wins \cup {opened + 1}
  <2>1. opened + 1 \notin DOMAIN c.wins
    BY <1>10
  <2>2. World(c, Sessions(tab.root), {}, E) /\ TabGood(tab)
    BY <1>1, <1>9 DEF X
  <2>3. Adopting(c, E, tab, opened + 1)
    BY <1>11, <2>1, <2>2 DEF Adopting
  <2> QED BY <2>3, Adopted
<1> QED BY <1>3, <1>10, <1>12

\* What the handler of an event may leave to reconcile().
ToReconcile(a, E) ==
  /\ DOMAIN a.wins \subseteq 1 .. opened
  /\ \/ Good(a, E)
     \/ opened < MaxWin /\ \E w, tab : Torn(a, E, w, tab)

\* After it every window has its tabs, and no number was given twice.
LEMMA Reconciled ==
  ASSUME opened \in Window, NEW a, NEW E, ToReconcile(a, E), Handled(a)
  PROVE  /\ Good(app', E) /\ opened' \in Window /\ fate' \in {"run", "exit"}
         /\ \A w \in DOMAIN app'.wins :
               w \in 1 .. opened' /\ app'.wins[w].tabs # <<>> /\ ~app'.wins[w].closing
<1> DEFINE b == AdoptMoved(a)
<1>1. app' = Sweep(b) /\ fate' \in {"run", "exit"}
  BY DEF Handled, Reconcile
<1>2. opened \in Nat /\ MaxWin \in Nat
  BY WinTabsAssumption DEF Window
<1>3. Good(b, E) /\ DOMAIN b.wins \subseteq 1 .. opened' /\ opened' \in Window
  <2>1. CASE Good(a, E)
    <3>1. \A w \in DOMAIN a.wins : a.wins[w].detached = <<>>
      BY <2>1 DEF Good, Tidy
    <3>2. opened' = opened
      BY <3>1 DEF Handled
    <3> QED BY <2>1, <3>2, NoneMoved DEF ToReconcile
  <2>2. CASE opened < MaxWin /\ \E w, tab : Torn(a, E, w, tab)
    <3>1. PICK w, tab : Torn(a, E, w, tab)
      BY <2>2
    <3>2. opened' = opened + 1
      <4>1. w \in DOMAIN a.wins /\ a.wins[w].detached = <<tab>>
        BY <3>1 DEF Torn
      <4>2. <<tab>> # <<>>
        OBVIOUS
      <4> QED BY <4>1, <4>2 DEF Handled
    <3>3. opened + 1 \notin DOMAIN a.wins
      BY <1>2 DEF ToReconcile
    <3>4. Good(b, E) /\ DOMAIN b.wins = DOMAIN a.wins \cup {opened + 1}
      BY <3>1, <3>3, OneMoved
    <3> HIDE DEF b
    <3> QED BY <1>2, <2>2, <3>2, <3>4 DEF ToReconcile, Window
  <2> QED BY <2>1, <2>2 DEF ToReconcile
<1> HIDE DEF b
<1>4. /\ Good(Sweep(b), E) /\ DOMAIN Sweep(b).wins \subseteq DOMAIN b.wins
      /\ \A v \in DOMAIN Sweep(b).wins :
            Sweep(b).wins[v].tabs # <<>> /\ ~Sweep(b).wins[v].closing
  BY <1>3, Swept
<1> QED BY <1>1, <1>3, <1>4

---------------------------------------------------------------------------
(* Keys.                                                                   *)

\* A window with a new tab for session id, which may be the settings' editor.
Extended(win, id, kept) ==
  [win EXCEPT !.tabs = Append(@, Tab(id)), !.active = Len(win.tabs) + 1, !.settings = kept]
Extending(a, E, w, kept) ==
  Good(a, E) /\ w \in DOMAIN a.wins /\ a.next \in Session /\ kept \in {a.wins[w].settings, a.next}

\* A tab is opened with a new session.
LEMMA TabOpened ==
  ASSUME NEW a, NEW E, NEW w, NEW kept, Extending(a, E, w, kept), NEW grid,
         NEW b, b = SetWin(OpenSession(a, grid), w, Extended(a.wins[w], a.next, kept))
  PROVE  Good(Reflow(b, w), E) /\ DOMAIN Reflow(b, w).wins = DOMAIN a.wins
<1> DEFINE win == a.wins[w]
           id == a.next
           c == OpenSession(a, grid)
           U == Append(win.tabs, Tab(id))
           new == Extended(win, id, kept)
<1> Good(a, E) /\ w \in DOMAIN a.wins /\ id \in Session /\ kept \in {win.settings, id}
  BY DEF Extending
<1>1. World(a, {}, {}, E) /\ WinGood(win) /\ TabsGood(win.tabs) /\ Tidy(win)
  BY DEF Good, World, WinGood
<1>2. /\ World(c, {id}, {}, E) /\ c.wins = a.wins /\ c.next = id + 1 /\ id \notin AllPanes(a)
      /\ \A v \in DOMAIN a.wins : Fit(a, v) => Fit(c, v)
  BY <1>1, Opened
<1>3. TabGood(Tab(id)) /\ Sessions(Tab(id).root) = {id}
  <2>1. Tree(Leaf(id)) /\ Sessions(Leaf(id)) = {id}
    BY LeafIsTree
  <2>2. Tab(id) = [root |-> Tab(id).root, focus |-> Tab(id).focus]
        /\ Tab(id).root = Leaf(id) /\ Tab(id).focus = id
    BY DEF Tab
  <2> QED BY <2>1, <2>2 DEF TabGood
<1>4. SessionsOf(win.tabs) = TabSessions(win) /\ id \notin TabSessions(win)
  BY <1>2, SessionsOfWin DEF AllPanes
<1>5. /\ TabsGood(U) /\ U # <<>>
      /\ SessionsOf(U) = SessionsOf(win.tabs) \cup {id}
  <2>1. Sessions(Tab(id).root) \cap SessionsOf(win.tabs) = {}
    BY <1>3, <1>4
  <2> QED BY <1>1, <1>3, <2>1, TabAdded
<1>6. /\ Map(new) /\ DOMAIN new = WinFields /\ new.tabs = U
      /\ new.active = Len(win.tabs) + 1 /\ new.chips = win.chips /\ new.menu = win.menu
      /\ new.hits = win.hits /\ new.settings = kept /\ new.size = win.size
      /\ new.cell = win.cell /\ new.sidebar = win.sidebar /\ new.detached = win.detached
      /\ new.closing = win.closing
  <2>1. Map(win) /\ DOMAIN win = WinFields
    BY <1>1 DEF WinGood
  <2> HIDE DEF win
  <2> QED BY <2>1 DEF Map, WinFields, Extended
<1> HIDE DEF U, c
<1>7. b = SetWin(c, w, new)
  BY DEF c
<1> HIDE DEF new
<1>8. WinGood(new)
  <2>1. Len(win.tabs) + 1 \in Nat \ {0}
    <3>1. Len(win.tabs) \in Nat
      BY <1>1 DEF TabsGood, Listed
    <3> QED BY <3>1
  <2>2. kept \in {NoSession} \cup Session
    BY <1>1 DEF WinGood
  <2> QED BY <1>1, <1>5, <1>6, <2>1, <2>2 DEF WinGood
<1>9. TabSessions(new) = (TabSessions(c.wins[w]) \ {}) \cup {id}
  <2>1. TabSessions(new) = SessionsOf(U)
    BY <1>6, SessionsOfWin
  <2> QED BY <1>2, <1>4, <1>5, <2>1
<1>10. Tidy(new)
  BY <1>1, <1>5, <1>6 DEF Tidy
<1>11. new.settings = NoSession
       \/ (new.settings < c.next /\ \A v \in DOMAIN c.wins \ {w} : c.wins[v].settings # new.settings)
  <2>1. CASE kept = win.settings
    BY <1>2, <1>6, <2>1 DEF World
  <2>2. CASE kept = id
    <3>1. id \in Int /\ id < id + 1 /\ ~(id < id)
      BY WinTabsAssumption DEF Session
    <3>2. \A v \in DOMAIN a.wins : a.wins[v].settings < id
      BY <1>1 DEF World
    <3>3. \A v \in DOMAIN a.wins : a.wins[v].settings # id
      BY <3>1, <3>2
    <3> HIDE DEF id
    <3> QED BY <1>2, <1>6, <2>2, <3>1, <3>3
  <2> QED BY <2>1, <2>2
<1>12. \A v \in DOMAIN c.wins : Fit(c, v) /\ Tidy(c.wins[v])
  BY <1>2 DEF Good
<1> HIDE DEF id, win
<1>13. Settling(c, {id}, {}, E, w, new)
  BY <1>2, <1>8, <1>9, <1>10, <1>11, <1>12 DEF Settling
<1>14. Good(Reflow(b, w), E) /\ Became(c, Reflow(b, w), w, new)
  BY <1>7, <1>13, Settled
<1> QED BY <1>2, <1>14 DEF Became

\* The focused pane is one of the active tab.
LEMMA FocusInTab ==
  ASSUME NEW win, WinGood(win), InRange(win)
  PROVE  /\ win.active \in DOMAIN win.tabs /\ TabGood(ActiveTab(win))
         /\ FocusedSession(win) \in Sessions(ActiveTab(win).root)
<1>1. win.active \in DOMAIN win.tabs /\ TabGood(ActiveTab(win))
  BY DEF WinGood, TabsGood, InRange, ActiveTab
<1>2. FirstSession(ActiveTab(win).root) \in Sessions(ActiveTab(win).root)
  BY <1>1, FirstIsSession DEF TabGood
<1> QED BY <1>1, <1>2 DEF FocusedSession

WithSplit(a, w, grid, sbs) ==
  [OpenSession(a, grid) EXCEPT !.wins[w].tabs[a.wins[w].active] =
     [root |-> SplitLayout(ActiveTab(a.wins[w]).root, FocusedSession(a.wins[w]), sbs, a.next),
      focus |-> a.next]]

\* The focused pane is split.
LEMMA PaneSplit ==
  ASSUME NEW a, NEW E, Good(a, E), NEW w \in DOMAIN a.wins, InRange(a.wins[w]),
         a.next \in Session, NEW grid, NEW sbs \in BOOLEAN, NEW b, b = WithSplit(a, w, grid, sbs)
  PROVE  Good(Reflow(b, w), E) /\ DOMAIN Reflow(b, w).wins = DOMAIN a.wins
<1> DEFINE win == a.wins[w]
           id == a.next
           c == OpenSession(a, grid)
           ti == win.active
           tab == ActiveTab(win)
           root == SplitLayout(tab.root, FocusedSession(win), sbs, id)
           new == [root |-> root, focus |-> id]
<1>1. World(a, {}, {}, E) /\ WinGood(win)
  BY DEF Good, World
<1>2. /\ World(c, {id}, {}, E) /\ c.wins = a.wins /\ id \notin AllPanes(a)
      /\ \A v \in DOMAIN a.wins : Fit(a, v) => Fit(c, v)
  BY <1>1, Opened
<1>3. /\ ti \in DOMAIN win.tabs /\ TabGood(tab) /\ FocusedSession(win) \in Sessions(tab.root)
      /\ tab = win.tabs[ti]
  BY <1>1, FocusInTab DEF ActiveTab
<1>4. id \notin Sessions(tab.root)
  BY <1>2, <1>3 DEF AllPanes, TabSessions
<1> HIDE DEF tab, ti
<1>5. Tree(root) /\ Sessions(root) = Sessions(tab.root) \cup {id}
  BY <1>3, <1>4, SplitIsTree DEF TabGood
<1>6. TabGood(new) /\ new.root = root
  <2> HIDE DEF root
  <2> QED BY <1>3, <1>5 DEF TabGood
<1> HIDE DEF c, new
<1>7. \A v \in DOMAIN c.wins : Fit(c, v) /\ Tidy(c.wins[v])
  BY <1>2 DEF Good
<1>8. /\ ti \in DOMAIN c.wins[w].tabs /\ {} \subseteq Sessions(c.wins[w].tabs[ti].root)
      /\ Sessions(new.root) = (Sessions(c.wins[w].tabs[ti].root) \ {}) \cup {id}
  BY <1>2, <1>3, <1>5, <1>6
<1>9. Relaying(c, {id}, {}, E, w, ti, new)
  BY <1>2, <1>6, <1>7, <1>8 DEF Relaying
<1>10. b = SetTab(c, w, ti, new)
  BY DEF c, new, ti, tab, SetTab, WithSplit
<1>11. Good(Reflow(b, w), E) /\ DOMAIN Reflow(b, w).wins = DOMAIN c.wins
  BY <1>9, <1>10, Relaid
<1> QED BY <1>2, <1>11

WithDivider(a, w, s, sbs, delta) ==
  [a EXCEPT !.wins[w].tabs[a.wins[w].active].root =
     ResizeSplit(ActiveTab(a.wins[w]).root, s, sbs, delta)]

\* A divider of the active tab moves.
LEMMA DividerMoved ==
  ASSUME NEW a, NEW E, Good(a, E), NEW w \in DOMAIN a.wins, InRange(a.wins[w]), NEW s, NEW sbs,
         NEW delta \in Int, NEW b, b = WithDivider(a, w, s, sbs, delta)
  PROVE  Good(Reflow(b, w), E) /\ DOMAIN Reflow(b, w).wins = DOMAIN a.wins
<1> DEFINE win == a.wins[w]
           ti == win.active
           tab == ActiveTab(win)
           root == ResizeSplit(tab.root, s, sbs, delta)
           new == [tab EXCEPT !.root = root]
<1>1. World(a, {}, {}, E) /\ WinGood(win) /\ \A v \in DOMAIN a.wins : Fit(a, v) /\ Tidy(a.wins[v])
  BY DEF Good, World
<1>2. ti \in DOMAIN win.tabs /\ TabGood(tab) /\ tab = win.tabs[ti]
  BY <1>1, FocusInTab DEF ActiveTab
<1>3. b = SetTab(a, w, ti, new)
  BY <1>2 DEF SetTab, WithDivider
<1> HIDE DEF tab, ti
<1>4. Tree(root) /\ Sessions(root) = Sessions(tab.root)
  BY <1>2, ResizeIsTree DEF TabGood
<1>5. TabGood(new) /\ new.root = root
  <2> HIDE DEF root
  <2>1. new.root = root /\ new.focus = tab.focus /\ new = [root |-> root, focus |-> tab.focus]
    BY <1>2 DEF TabGood
  <2> QED BY <1>2, <1>4, <2>1 DEF TabGood
<1> HIDE DEF new
<1>6. /\ {} \subseteq Sessions(win.tabs[ti].root)
      /\ Sessions(new.root) = (Sessions(win.tabs[ti].root) \ {}) \cup {}
  BY <1>2, <1>4, <1>5
<1>7. Relaying(a, {}, {}, E, w, ti, new)
  BY <1>1, <1>2, <1>5, <1>6 DEF Relaying
<1> QED BY <1>3, <1>7, Relaid

---------------------------------------------------------------------------
(* What changes no pane.                                                   *)

Remark(win, active, chips, menu, hits, closing) ==
  [win EXCEPT !.active = active, !.chips = chips, !.menu = menu, !.hits = hits, !.closing = closing]
Remarking(a, E, w, active, chips, menu, hits, closing) ==
  /\ Good(a, E) /\ w \in DOMAIN a.wins
  /\ active \in Nat \ {0} /\ chips \in 0 .. MaxSession /\ menu \in 0 .. MaxSession
  /\ hits \subseteq Session /\ closing \in BOOLEAN /\ (a.wins[w].closing => closing)

\* The active tab, the targets of the last frame, the menu and the wish to close
\* are remembered.
LEMMA Noted ==
  ASSUME NEW a, NEW E, NEW w, NEW active, NEW chips, NEW menu, NEW hits, NEW closing,
         Remarking(a, E, w, active, chips, menu, hits, closing),
         NEW b, b = SetWin(a, w, Remark(a.wins[w], active, chips, menu, hits, closing))
  PROVE  Good(b, E) /\ DOMAIN b.wins = DOMAIN a.wins
<1> DEFINE win == a.wins[w]
           new == Remark(win, active, chips, menu, hits, closing)
<1> /\ Good(a, E) /\ w \in DOMAIN a.wins
    /\ active \in Nat \ {0} /\ chips \in 0 .. MaxSession /\ menu \in 0 .. MaxSession
    /\ hits \subseteq Session /\ closing \in BOOLEAN /\ (win.closing => closing)
  BY DEF Remarking
<1>1. WinGood(win) /\ Tidy(win)
  BY DEF Good, World
<1>2. /\ Map(new) /\ DOMAIN new = WinFields /\ new.tabs = win.tabs
      /\ new.active = active /\ new.chips = chips /\ new.menu = menu
      /\ new.hits = hits /\ new.settings = win.settings /\ new.size = win.size
      /\ new.cell = win.cell /\ new.sidebar = win.sidebar /\ new.detached = win.detached
      /\ new.closing = closing
  <2>1. Map(win) /\ DOMAIN win = WinFields
    BY <1>1 DEF WinGood
  <2> HIDE DEF win
  <2> QED BY <2>1 DEF Map, WinFields, Remark
<1>3. b = SetWin(a, w, new)
  OBVIOUS
<1> HIDE DEF new
<1>4. WinGood(new)
  BY <1>1, <1>2 DEF WinGood
<1>5. Tidy(new)
  BY <1>1, <1>2 DEF Tidy
<1>6. Noting(a, E, w, new)
  BY <1>2, <1>4, <1>5 DEF Noting
<1>7. Good(SetWin(a, w, new), E) /\ Became(a, SetWin(a, w, new), w, new)
  BY <1>6, Remembered
<1> QED BY <1>3, <1>7 DEF Became

WithActive(a, w, x) == [a EXCEPT !.wins[w].active = x]
WithMenu(a, w, x) == [a EXCEPT !.wins[w].menu = x]
ToClose(a, w) == [a EXCEPT !.wins[w].closing = TRUE]

\* Any of them alone.
LEMMA OneNoted ==
  ASSUME NEW a, NEW E, Good(a, E), NEW w \in DOMAIN a.wins
  PROVE  /\ \A x \in Nat \ {0} :
               /\ Good(WithActive(a, w, x), E)
               /\ DOMAIN WithActive(a, w, x).wins = DOMAIN a.wins
         /\ \A x \in 0 .. MaxSession :
               /\ Good(WithMenu(a, w, x), E)
               /\ DOMAIN WithMenu(a, w, x).wins = DOMAIN a.wins
         /\ /\ Good(ToClose(a, w), E)
            /\ DOMAIN ToClose(a, w).wins = DOMAIN a.wins
<1> DEFINE win == a.wins[w]
           With(active, menu, closing) == Remark(win, active, win.chips, menu, win.hits, closing)
<1>1. WinGood(win)
  BY DEF Good, World
<1>2. /\ win.active \in Nat \ {0} /\ win.menu \in 0 .. MaxSession /\ win.closing \in BOOLEAN
      /\ win.chips \in 0 .. MaxSession /\ win.hits \in SUBSET Session
      /\ Map(win) /\ DOMAIN win = WinFields
  BY <1>1 DEF WinGood
<1> HIDE DEF win
<1>3. ASSUME NEW x \in Nat \ {0}
      PROVE  /\ Good(WithActive(a, w, x), E)
             /\ DOMAIN WithActive(a, w, x).wins = DOMAIN a.wins
  <2> DEFINE b == WithActive(a, w, x)
  <2>1. [win EXCEPT !.active = x] = With(x, win.menu, win.closing)
    BY <1>2 DEF Map, WinFields, Remark
  <2>2. b = SetWin(a, w, [win EXCEPT !.active = x])
    BY DEF SetWin, win, WithActive
  <2> HIDE DEF b
  <2>3. b = SetWin(a, w, With(x, win.menu, win.closing))
    BY <2>1, <2>2
  <2>4. Good(b, E) /\ DOMAIN b.wins = DOMAIN a.wins
    <3>1. Remarking(a, E, w, x, win.chips, win.menu, win.hits, win.closing)
      BY <1>2 DEF Remarking, win
    <3> QED BY <2>3, <3>1, Noted DEF win
  <2> QED BY <2>4 DEF b
<1>4. ASSUME NEW x \in 0 .. MaxSession
      PROVE  /\ Good(WithMenu(a, w, x), E)
             /\ DOMAIN WithMenu(a, w, x).wins = DOMAIN a.wins
  <2> DEFINE b == WithMenu(a, w, x)
  <2>1. [win EXCEPT !.menu = x] = With(win.active, x, win.closing)
    BY <1>2 DEF Map, WinFields, Remark
  <2>2. b = SetWin(a, w, [win EXCEPT !.menu = x])
    BY DEF SetWin, win, WithMenu
  <2> HIDE DEF b
  <2>3. b = SetWin(a, w, With(win.active, x, win.closing))
    BY <2>1, <2>2
  <2>4. Good(b, E) /\ DOMAIN b.wins = DOMAIN a.wins
    <3>1. Remarking(a, E, w, win.active, win.chips, x, win.hits, win.closing)
      BY <1>2 DEF Remarking, win
    <3> QED BY <2>3, <3>1, Noted DEF win
  <2> QED BY <2>4 DEF b
<1>5. /\ Good(ToClose(a, w), E)
      /\ DOMAIN ToClose(a, w).wins = DOMAIN a.wins
  <2> DEFINE yes == TRUE
             b == ToClose(a, w)
  <2>1. [win EXCEPT !.closing = yes] = With(win.active, win.menu, yes)
    BY <1>2 DEF Map, WinFields, Remark
  <2>2. b = SetWin(a, w, [win EXCEPT !.closing = yes])
    BY DEF SetWin, win, ToClose
  <2> HIDE DEF b
  <2>3. b = SetWin(a, w, With(win.active, win.menu, yes))
    BY <2>1, <2>2
  <2>4. Good(b, E) /\ DOMAIN b.wins = DOMAIN a.wins
    <3>1. Remarking(a, E, w, win.active, win.chips, win.menu, win.hits, yes)
      BY <1>2 DEF Remarking, win
    <3> HIDE DEF yes
    <3> QED BY <2>3, <3>1, Noted DEF win
  <2> QED BY <2>4 DEF b
<1> QED BY <1>3, <1>4, <1>5

WithFrame(a, w, active) ==
  [a EXCEPT !.wins[w].active = active, !.wins[w].chips = Len(a.wins[w].tabs),
            !.wins[w].hits = Sessions(a.wins[w].tabs[active].root)]

\* A frame leaves the targets of its tabs and panes, and takes the active tab
\* back into their range.
LEMMA Drawn ==
  ASSUME NEW a, NEW E, Good(a, E), NEW w \in DOMAIN a.wins, a.wins[w].tabs # <<>>,
         NEW active, active = LeastOf(a.wins[w].active, Len(a.wins[w].tabs)),
         NEW b, b = WithFrame(a, w, active)
  PROVE  Good(b, E) /\ DOMAIN b.wins = DOMAIN a.wins
<1> DEFINE win == a.wins[w]
           n == Len(win.tabs)
           hits == Sessions(win.tabs[active].root)
           new == Remark(win, active, n, win.menu, hits, win.closing)
<1>1. WinGood(win) /\ Record(a)
  BY DEF Good, World
<1>2. /\ win.active \in Nat \ {0} /\ win.menu \in 0 .. MaxSession /\ win.closing \in BOOLEAN
      /\ Map(win) /\ DOMAIN win = WinFields /\ TabsGood(win.tabs)
  BY <1>1 DEF WinGood
<1>3. n \in 0 .. MaxSession /\ n # 0 /\ DOMAIN win.tabs = 1 .. n
  <2>1. n \in 0 .. MaxSession
    BY <1>2, TabCount
  <2>2. DOMAIN win.tabs = 1 .. n /\ win.tabs \in Seq({win.tabs[i] : i \in 1 .. n})
    BY <1>2, ListedSeq DEF TabsGood
  <2> QED BY <2>1, <2>2, EmptySeq
<1>4. active \in Nat \ {0} /\ active \in DOMAIN win.tabs
  <2>1. win.active \in Nat \ {0}
    BY <1>2
  <2>2. active = LeastOf(win.active, n)
    OBVIOUS
  <2>3. n \in Nat
    BY <1>3, WinTabsAssumption
  <2> HIDE DEF n, win
  <2> QED BY <1>3, <2>1, <2>2, <2>3 DEF LeastOf
<1>5. hits \in SUBSET Session
  BY <1>2, <1>4 DEF TabsGood, TabGood
<1>6. b = SetWin(a, w, new)
  <2> DEFINE u == [win EXCEPT !.active = active]
             v == [u EXCEPT !.chips = n]
             x == [v EXCEPT !.hits = hits]
  <2>1. /\ SetWin(a, w, u).wins[w] = u
        /\ SetWin(SetWin(a, w, u), w, v) = SetWin(a, w, v)
        /\ SetWin(a, w, v).wins[w] = v
        /\ SetWin(SetWin(a, w, v), w, x) = SetWin(a, w, x)
    <3> HIDE DEF u, v, x
    <3> QED BY <1>1, SetTwice
  <2>2. x = new
    <3> HIDE DEF win, n, hits
    <3> QED BY <1>2 DEF Map, WinFields, Remark
  <2> DEFINE d == SetWin(a, w, u)
             e == SetWin(a, w, v)
  <2>3. b = [[[a EXCEPT !.wins[w].active = active] EXCEPT !.wins[w].chips = n] EXCEPT !.wins[w].hits = hits]
    BY DEF WithFrame
  <2>4. [a EXCEPT !.wins[w].active = active] = d
    BY DEF SetWin
  <2> HIDE DEF n, hits, new, x
  <2>5. [d EXCEPT !.wins[w].chips = n] = e
    <3>1. [d EXCEPT !.wins[w].chips = n] = SetWin(d, w, [d.wins[w] EXCEPT !.chips = n])
      BY DEF SetWin
    <3> HIDE DEF u
    <3> QED BY <2>1, <3>1
  <2>6. [e EXCEPT !.wins[w].hits = hits] = SetWin(e, w, x)
    <3>1. [e EXCEPT !.wins[w].hits = hits] = SetWin(e, w, [e.wins[w] EXCEPT !.hits = hits])
      BY DEF SetWin
    <3> HIDE DEF v
    <3> QED BY <2>1, <3>1 DEF x
  <2> HIDE DEF d, e
  <2>7. SetWin(e, w, x) = SetWin(a, w, x)
    BY <2>1 DEF e
  <2> QED BY <2>2, <2>3, <2>4, <2>5, <2>6, <2>7
<1>7. Remarking(a, E, w, active, n, win.menu, hits, win.closing)
  BY <1>2, <1>3, <1>4, <1>5 DEF Remarking
<1> HIDE DEF n, hits
<1> QED BY <1>6, <1>7, Noted

WithFocus(a, w, s) == [a EXCEPT !.wins[w].tabs[a.wins[w].active].focus = s]

\* A press on a pane of the last frame focuses it in the tab that is active now.
LEMMA PaneFocused ==
  ASSUME NEW a, NEW E, Good(a, E), NEW w \in DOMAIN a.wins, InRange(a.wins[w]),
         NEW s \in a.wins[w].hits,
         NEW b, b = WithFocus(a, w, s)
  PROVE  Good(b, E) /\ DOMAIN b.wins = DOMAIN a.wins
<1> DEFINE win == a.wins[w]
           ti == win.active
           tab == win.tabs[ti]
           new == [tab EXCEPT !.focus = s]
           U == [win.tabs EXCEPT ![ti] = new]
           new2 == [win EXCEPT !.tabs = U]
<1>1. WinGood(win) /\ Tidy(win) /\ TabsGood(win.tabs) /\ s \in Session
  BY DEF Good, World, WinGood
<1>2. ti \in DOMAIN win.tabs /\ TabGood(tab)
  BY <1>1 DEF InRange, TabsGood
<1>3. TabGood(new) /\ new.root = tab.root
  <2> HIDE DEF tab
  <2>1. new.root = tab.root /\ new.focus = s /\ new = [root |-> tab.root, focus |-> s]
    BY <1>2 DEF TabGood
  <2> QED BY <1>1, <1>2, <2>1 DEF TabGood
<1>4. b = SetWin(a, w, new2)
  BY DEF SetWin, WithFocus
<1>5. \A j \in DOMAIN win.tabs : j # ti => Sessions(tab.root) \cap Sessions(win.tabs[j].root) = {}
  BY <1>1, <1>2 DEF TabsGood
<1> HIDE DEF new, ti
<1>6. \A j \in DOMAIN win.tabs : j # ti => Sessions(new.root) \cap Sessions(win.tabs[j].root) = {}
  BY <1>3, <1>5
<1>7. /\ TabsGood(U) /\ DOMAIN U = DOMAIN win.tabs
      /\ \A j \in DOMAIN win.tabs : U[j] = IF j = ti THEN new ELSE win.tabs[j]
  BY <1>1, <1>2, <1>3, <1>6, TabReplaced
<1>8. \A j \in DOMAIN U : U[j].root = win.tabs[j].root
  BY <1>3, <1>7
<1> HIDE DEF U
<1>9. /\ Map(new2) /\ DOMAIN new2 = WinFields /\ new2.tabs = U
      /\ new2.active = win.active /\ new2.chips = win.chips /\ new2.menu = win.menu
      /\ new2.hits = win.hits /\ new2.settings = win.settings /\ new2.size = win.size
      /\ new2.cell = win.cell /\ new2.sidebar = win.sidebar /\ new2.detached = win.detached
      /\ new2.closing = win.closing
  <2>1. Map(win) /\ DOMAIN win = WinFields
    BY <1>1 DEF WinGood
  <2> HIDE DEF win
  <2> QED BY <2>1 DEF Map, WinFields
<1> HIDE DEF new2
<1>10. WinGood(new2)
  BY <1>1, <1>7, <1>9 DEF WinGood
<1>11. Tidy(new2)
  <2>1. U # <<>>
    BY <1>2, <1>7
  <2> QED BY <1>1, <1>9, <2>1 DEF Tidy
<1>12. Noting(a, E, w, new2)
  BY <1>7, <1>8, <1>9, <1>10, <1>11 DEF Noting
<1>13. Good(SetWin(a, w, new2), E) /\ Became(a, SetWin(a, w, new2), w, new2)
  BY <1>12, Remembered
<1> QED BY <1>4, <1>13 DEF Became

WithTab(a, w, id, active) ==
  [a EXCEPT !.wins[w].tabs = Append(@, Tab(id)), !.wins[w].active = active]
WithEditor(a, w, id, active, kept) ==
  [a EXCEPT !.wins[w].tabs = Append(@, Tab(id)), !.wins[w].active = active,
            !.wins[w].settings = kept]

\* The window a new tab is added to, as one record.
LEMMA TabWritten ==
  ASSUME NEW a, Record(a), NEW w \in DOMAIN a.wins, WinGood(a.wins[w]), NEW id, NEW kept,
         NEW active, active = Len(a.wins[w].tabs) + 1
  PROVE  /\ WithTab(a, w, id, active) = SetWin(a, w, Extended(a.wins[w], id, a.wins[w].settings))
         /\ WithEditor(a, w, id, active, kept) = SetWin(a, w, Extended(a.wins[w], id, kept))
<1> DEFINE win == a.wins[w]
           tab == Tab(id)
           U == Append(win.tabs, tab)
           u == [win EXCEPT !.tabs = U]
           v == [u EXCEPT !.active = active]
           x == [v EXCEPT !.settings = kept]
           d == SetWin(a, w, u)
           e == SetWin(a, w, v)
           two == [a EXCEPT !.wins[w].tabs = Append(@, tab), !.wins[w].active = active]
           three == [a EXCEPT !.wins[w].tabs = Append(@, tab), !.wins[w].active = active,
                              !.wins[w].settings = kept]
<1>1. Map(win) /\ DOMAIN win = WinFields
  BY DEF WinGood
<1>2. /\ SetWin(a, w, u).wins[w] = u
      /\ SetWin(SetWin(a, w, u), w, v) = SetWin(a, w, v)
      /\ SetWin(a, w, v).wins[w] = v
      /\ SetWin(SetWin(a, w, v), w, x) = SetWin(a, w, x)
  <2> HIDE DEF u, v, x
  <2> QED BY SetTwice
<1>3. v = Extended(win, id, win.settings)
  <2> HIDE DEF U, win
  <2>1. v = [win EXCEPT !.tabs = U, !.active = active, !.settings = win.settings]
    BY <1>1 DEF Map, WinFields
  <2> QED BY <2>1 DEF U, win, Extended
<1>4. x = Extended(win, id, kept)
  BY DEF Extended
<1>5. [a EXCEPT !.wins[w].tabs = Append(@, tab)] = d
  BY DEF SetWin
<1>6. two = [[a EXCEPT !.wins[w].tabs = Append(@, tab)] EXCEPT !.wins[w].active = active]
  OBVIOUS
<1>7. three = [two EXCEPT !.wins[w].settings = kept]
  OBVIOUS
<1>8. [d EXCEPT !.wins[w].active = active] = e
  <2>1. [d EXCEPT !.wins[w].active = active] = SetWin(d, w, [d.wins[w] EXCEPT !.active = active])
    BY DEF SetWin
  <2> HIDE DEF u
  <2> QED BY <1>2, <2>1
<1>9. [e EXCEPT !.wins[w].settings = kept] = SetWin(a, w, x)
  <2>1. [e EXCEPT !.wins[w].settings = kept] = SetWin(e, w, [e.wins[w] EXCEPT !.settings = kept])
    BY DEF SetWin
  <2> HIDE DEF v
  <2> QED BY <1>2, <2>1
<1>10. two = e /\ three = SetWin(a, w, x)
  <2> HIDE DEF d, e, two, three
  <2> QED BY <1>5, <1>6, <1>7, <1>8, <1>9
<1> QED BY <1>3, <1>4, <1>10 DEF WithTab, WithEditor

\* A tab is added to a window, with the new session as its settings' editor or
\* not.
LEMMA TabOpens ==
  ASSUME NEW a, NEW E, Good(a, E), NEW w \in DOMAIN a.wins, a.next \in Session, NEW grid,
         NEW c, c = OpenSession(a, grid), NEW n, n = Len(a.wins[w].tabs) + 1,
         NEW kept \in {a.wins[w].settings, a.next}
  PROVE  LET two == WithTab(c, w, a.next, n)
             three == WithEditor(c, w, a.next, n, kept)
         IN  /\ Good(Reflow(two, w), E) /\ DOMAIN Reflow(two, w).wins = DOMAIN a.wins
             /\ Good(Reflow(three, w), E) /\ DOMAIN Reflow(three, w).wins = DOMAIN a.wins
<1> DEFINE win == a.wins[w]
           two == WithTab(c, w, a.next, n)
           three == WithEditor(c, w, a.next, n, kept)
<1>1. World(a, {}, {}, E) /\ WinGood(win)
  BY DEF Good, World
<1>2. World(c, {a.next}, {}, E) /\ c.wins = a.wins
  BY <1>1, Opened
<1>3. Record(c) /\ w \in DOMAIN c.wins /\ win = c.wins[w]
  BY <1>2 DEF World
<1>4. /\ two = SetWin(c, w, Extended(win, a.next, win.settings))
      /\ three = SetWin(c, w, Extended(win, a.next, kept))
  <2> HIDE DEF win
  <2>1. WinGood(c.wins[w]) /\ n = Len(c.wins[w].tabs) + 1
    BY <1>1, <1>3 DEF win
  <2>2. /\ two = SetWin(c, w, Extended(c.wins[w], a.next, c.wins[w].settings))
        /\ three = SetWin(c, w, Extended(c.wins[w], a.next, kept))
    BY <1>3, <2>1, TabWritten
  <2> QED BY <1>3, <2>2
<1> HIDE DEF two, three
<1>5. Extending(a, E, w, win.settings) /\ Extending(a, E, w, kept)
  BY DEF Extending
<1>6. Good(Reflow(two, w), E) /\ DOMAIN Reflow(two, w).wins = DOMAIN a.wins
  BY <1>4, <1>5, TabOpened
<1>7. Good(Reflow(three, w), E) /\ DOMAIN Reflow(three, w).wins = DOMAIN a.wins
  BY <1>4, <1>5, TabOpened
<1> QED BY <1>6, <1>7 DEF two, three

---------------------------------------------------------------------------
(* The window system and the shells.                                       *)

Shaped(win, size, cell, sidebar) ==
  [win EXCEPT !.size = size, !.cell = cell, !.sidebar = sidebar]

\* A window's geometry changes.
LEMMA Reshaped ==
  ASSUME NEW a, NEW E, Good(a, E), NEW w \in DOMAIN a.wins,
         NEW size \in Sizes, NEW cell \in Cells, NEW sidebar, sidebar \in BOOLEAN,
         NEW new, new = Shaped(a.wins[w], size, cell, sidebar)
  PROVE  /\ Good(Reflow([a EXCEPT !.wins[w] = new], w), E)
         /\ DOMAIN Reflow([a EXCEPT !.wins[w] = new], w).wins = DOMAIN a.wins
<1> DEFINE win == a.wins[w]
           b == [a EXCEPT !.wins[w] = new]
<1>1. WinGood(win) /\ Tidy(win) /\ World(a, {}, {}, E)
  BY DEF Good, World
<1>2. /\ Map(new) /\ DOMAIN new = WinFields /\ new.tabs = win.tabs
      /\ new.active = win.active /\ new.chips = win.chips /\ new.menu = win.menu
      /\ new.hits = win.hits /\ new.settings = win.settings /\ new.size = size
      /\ new.cell = cell /\ new.sidebar = sidebar /\ new.detached = win.detached
      /\ new.closing = win.closing
  <2>1. Map(win) /\ DOMAIN win = WinFields /\ new = [win EXCEPT !.size = size, !.cell = cell, !.sidebar = sidebar]
    BY <1>1 DEF WinGood, Shaped
  <2> HIDE DEF win
  <2> QED BY <2>1 DEF Map, WinFields
<1>3. WinGood(new) /\ Tidy(new) /\ TabSessions(new) = (TabSessions(win) \ {}) \cup {}
  BY <1>1, <1>2 DEF WinGood, Tidy, TabSessions
<1>4. new.settings = NoSession
       \/ (new.settings < a.next /\ \A v \in DOMAIN a.wins \ {w} : a.wins[v].settings # new.settings)
  BY <1>1, <1>2 DEF World
<1>5. Settling(a, {}, {}, E, w, new)
  BY <1>1, <1>3, <1>4 DEF Settling, Good
<1>6. b = SetWin(a, w, new)
  BY DEF SetWin
<1> HIDE DEF b
<1>7. Good(Reflow(b, w), E) /\ Became(a, Reflow(b, w), w, new)
  BY <1>5, <1>6, Settled
<1> QED BY <1>7 DEF Became, b

\* A shell ends, and the event that says so is on its way.
LEMMA Ended ==
  ASSUME NEW a, NEW E, Good(a, E), NEW s \in a.live,
         NEW b, b = [a EXCEPT !.live = @ \ {s}]
  PROVE  Good(b, E \cup {s}) /\ b.wins = a.wins
<1>1. World(a, {}, {}, E) /\ Map(a) /\ DOMAIN a = AppFields
  BY DEF Good, World, Record
<1>2. /\ Map(b) /\ DOMAIN b = AppFields /\ b.wins = a.wins /\ b.registry = a.registry
      /\ b.pty = a.pty /\ b.live = a.live \ {s} /\ b.next = a.next
  BY <1>1 DEF Map, AppFields
<1>3. Record(b) /\ AllPanes(b) = AllPanes(a) /\ Held(b, {}, {}) = Held(a, {}, {})
      /\ Held(a, {}, {}) = AllPanes(a)
  BY <1>1, <1>2 DEF World, Record, AllPanes, Held
<1>4. s \in AllPanes(a)
  BY <1>1, <1>3 DEF World
<1>5. s \in Session
  BY <1>1, <1>4, WinSessions DEF AllPanes, World
<1>6. World(b, {}, {}, E \cup {s})
  <2>1. /\ b.live \subseteq Held(b, {}, {}) /\ Held(b, {}, {}) \subseteq b.live \cup (E \cup {s})
        /\ b.live \cap (E \cup {s}) = {} /\ E \cup {s} \subseteq Session
        /\ \A x \in AllPanes(b) \cup {} \cup (E \cup {s}) : x < b.next
    BY <1>1, <1>2, <1>3, <1>4, <1>5 DEF World
  <2>2. /\ \A v \in DOMAIN b.wins : WinGood(b.wins[v]) /\ TabSessions(b.wins[v]) \cap {} = {}
        /\ \A u, v \in DOMAIN b.wins : u # v => TabSessions(b.wins[u]) \cap TabSessions(b.wins[v]) = {}
        /\ DOMAIN b.registry = Held(b, {}, {}) /\ DOMAIN b.pty = Held(b, {}, {})
        /\ b.next \in 1 .. MaxSession + 1
        /\ \A v \in DOMAIN b.wins : b.wins[v].settings < b.next
        /\ \A u, v \in DOMAIN b.wins :
              u # v /\ b.wins[u].settings = b.wins[v].settings => b.wins[u].settings = NoSession
    BY <1>1, <1>2, <1>3 DEF World
  <2> QED BY <1>3, <2>1, <2>2 DEF World
<1>7. \A v \in DOMAIN b.wins : Fit(b, v) /\ Tidy(b.wins[v])
  BY <1>2 DEF Good, Fit
<1> QED BY <1>2, <1>6, <1>7 DEF Good

AfterExit(s) ==
  LET keeper == {w \in Wins : app.wins[w].settings = s}
      owner == {w \in Wins : s \in TabSessions(app.wins[w])}
      a == IF keeper = {} THEN app ELSE SettingsClosed(app, CHOOSE w \in keeper : TRUE, s)
  IN  IF owner = {} THEN a ELSE PaneClosed(a, CHOOSE w \in owner : TRUE, s, TRUE)

\* The event is handled: no pane is the session's any more, whichever window
\* had it and whether or not it was the settings' editor.
LEMMA ExitHandled ==
  ASSUME Good(app, exits), NEW s \in exits
  PROVE  Good(AfterExit(s), exits \ {s}) /\ DOMAIN AfterExit(s).wins = Wins
<1> DEFINE keeper == {w \in Wins : app.wins[w].settings = s}
           owner == {w \in Wins : s \in TabSessions(app.wins[w])}
           a == IF keeper = {} THEN app ELSE SettingsClosed(app, CHOOSE w \in keeper : TRUE, s)
           b == AfterExit(s)
<1>o. b = IF owner = {} THEN a ELSE PaneClosed(a, CHOOSE w \in owner : TRUE, s, TRUE)
  BY DEF AfterExit
<1>k. keeper \subseteq Wins
  OBVIOUS
<1> HIDE DEF b, keeper
<1>1. /\ Good(a, exits) /\ DOMAIN a.wins = Wins /\ a.live = app.live
      /\ \A v \in Wins : a.wins[v].tabs = app.wins[v].tabs
  <2>1. CASE keeper = {}
    BY <2>1 DEF Wins
  <2>2. CASE keeper # {}
    <3> DEFINE k == CHOOSE w \in keeper : TRUE
    <3>1. k \in DOMAIN app.wins /\ a = SettingsClosed(app, k, s)
      BY <1>k, <2>2 DEF Wins
    <3> HIDE DEF k, a
    <3>2. k \in DOMAIN app.wins
      BY <3>1
    <3>3. /\ Good(SettingsClosed(app, k, s), exits)
          /\ DOMAIN SettingsClosed(app, k, s).wins = DOMAIN app.wins
          /\ SettingsClosed(app, k, s).live = app.live
          /\ \A v \in DOMAIN app.wins : SettingsClosed(app, k, s).wins[v].tabs = app.wins[v].tabs
      BY <3>2, Reloaded
    <3> QED BY <3>1, <3>3 DEF Wins
  <2> QED BY <2>1, <2>2
<1> HIDE DEF a
<1>2. s \notin a.live
  BY <1>1 DEF Good, World
<1>3. \A v \in Wins : TabSessions(a.wins[v]) = TabSessions(app.wins[v])
  BY <1>1 DEF TabSessions
<1>4. Good(b, exits) /\ DOMAIN b.wins = Wins /\ s \notin AllPanes(b)
  <2>1. CASE owner = {}
    <3>1. b = a
      BY <1>o, <2>1
    <3>2. \A v \in Wins : s \notin TabSessions(a.wins[v])
      BY <1>3, <2>1
    <3> QED BY <1>1, <3>1, <3>2 DEF AllPanes
  <2>2. CASE owner # {}
    <3> DEFINE o == CHOOSE w \in owner : TRUE
    <3>1. o \in DOMAIN a.wins /\ s \in TabSessions(a.wins[o]) /\ b = PaneClosed(a, o, s, TRUE)
      BY <1>o, <1>1, <1>3, <2>2
    <3> HIDE DEF o
    <3> DEFINE c == PaneClosed(a, o, s, TRUE)
    <3>2. MayGo(a, s, TRUE)
      BY <1>2 DEF MayGo
    <3>3. b = c
      BY <3>1
    <3>4. PaneOut(a, c, exits, o, s)
      BY <1>1, <3>1, <3>2, PaneGone
    <3> HIDE DEF c
    <3>5. \A v \in DOMAIN a.wins \ {o} : s \notin TabSessions(a.wins[v])
      BY <1>1, <3>1 DEF Good, World
    <3>6. \A v \in DOMAIN c.wins : s \notin TabSessions(c.wins[v])
      BY <3>4, <3>5 DEF PaneOut
    <3>7. s \notin AllPanes(c)
      BY <3>6 DEF AllPanes
    <3> QED BY <1>1, <3>3, <3>4, <3>7 DEF PaneOut
  <2> QED BY <2>1, <2>2
<1> QED BY <1>4, Unposted DEF b

---------------------------------------------------------------------------
(* Between two events.                                                     *)

DrawsOK == draws \in [frames : 0 .. MaxDraws, changes : 0 .. MaxDraws]

\* Every window has tabs and none is to close; each session with a pane is
\* registered, runs or has its end on its way, and has the grid of its pane.
TabsInv ==
  /\ Good(app, exits) /\ opened \in Window /\ DrawsOK
  /\ fate \in {"run", "exit", "aborted"}
  /\ \A w \in Wins : w \in 1 .. opened /\ app.wins[w].tabs # <<>> /\ ~app.wins[w].closing

\* The rectangle of the only pane of a tab is the whole area.
LEMMA OnePane ==
  ASSUME NEW s, NEW area
  PROVE  LeafRect(Leaf(s), s, area) = area
<1> DEFINE l == Leaf(s)
           p == PathOf(l, s)
<1>1. Paths(l) = {<<>>} /\ l.leaf[<<>>] = s
  BY DEF Leaf, Paths
<1>2. p = <<>>
  BY <1>1 DEF PathOf
<1>3. DOMAIN [k \in 1 .. Len(p) |-> k] = {}
  BY <1>2
<1>4. LeafRect(l, s, area) = FoldLeft(LAMBDA r, k : Into(l, p, r, k), area, [k \in 1 .. Len(p) |-> k])
  BY DEF LeafRect
<1> HIDE DEF l, p
<1>5. FoldLeft(LAMBDA r, k : Into(l, p, r, k), area, [k \in 1 .. Len(p) |-> k]) = area
  BY <1>3 DEF FoldLeft, MapThenFoldSet
<1> QED BY <1>4, <1>5 DEF l

\* The first window, its tab and its session.
LEMMA InitTabs ==
  ASSUME Init
  PROVE  TabsInv
<1> DEFINE win == [NewWin EXCEPT !.tabs = <<Tab(1)>>]
           none == [wins |-> [w \in {1} |-> win], registry |-> [s \in {} |-> 0], live |-> {},
                    pty |-> [s \in {} |-> 0], next |-> 1]
           grid == Grid(win, TerminalArea(win))
<1>1. /\ Map(app) /\ DOMAIN app = AppFields /\ app.wins = [w \in {1} |-> win]
      /\ DOMAIN app.registry = {1} /\ app.registry[1] = grid /\ Map(app.registry)
      /\ DOMAIN app.pty = {1} /\ app.pty[1] = grid /\ Map(app.pty)
      /\ app.live = {1} /\ app.next = 2
  <2>1. app = OpenSession(none, grid)
    BY DEF Init
  <2> HIDE DEF win, grid
  <2>2. /\ Map(none) /\ DOMAIN none = AppFields /\ none.wins = [w \in {1} |-> win]
        /\ DOMAIN none.registry = {} /\ DOMAIN none.pty = {} /\ none.live = {} /\ none.next = 1
    BY DEF Map, AppFields
  <2> HIDE DEF none
  <2> DEFINE R(g) == [s \in DOMAIN g \cup {1} |-> IF s = 1 THEN grid ELSE g[s]]
  <2>3. app = [none EXCEPT !.next = 1 + 1, !.live = none.live \cup {1}, !.registry = R(none.registry),
                           !.pty = R(none.pty)]
    BY <2>1, <2>2 DEF OpenSession
  <2>4. \A g : DOMAIN g = {} => DOMAIN R(g) = {1} /\ R(g)[1] = grid /\ Map(R(g))
    BY DEF Map
  <2> HIDE DEF R
  <2>5. /\ Map(app) /\ DOMAIN app = AppFields /\ app.wins = [w \in {1} |-> win]
        /\ app.registry = R(none.registry) /\ app.pty = R(none.pty)
        /\ app.live = none.live \cup {1} /\ app.next = 1 + 1
    BY <2>2, <2>3 DEF Map, AppFields
  <2>6. DOMAIN R(none.registry) = {1} /\ R(none.registry)[1] = grid /\ Map(R(none.registry))
    BY <2>2, <2>4
  <2>7. DOMAIN R(none.pty) = {1} /\ R(none.pty)[1] = grid /\ Map(R(none.pty))
    BY <2>2, <2>4
  <2>8. app.live = {1} /\ app.next = 2
    BY <2>2, <2>5
  <2> QED BY <2>5, <2>6, <2>7, <2>8
<1>2. /\ Map(win) /\ DOMAIN win = WinFields /\ win.tabs = <<Tab(1)>> /\ win.active = 1
      /\ win.chips = 0 /\ win.menu = NoTab /\ win.hits = {} /\ win.settings = NoSession
      /\ win.size = NewSize /\ win.cell = BaseCell /\ win.sidebar = FALSE
      /\ win.detached = <<>> /\ win.closing = FALSE
  BY DEF NewWin, Map, WinFields
<1> HIDE DEF win, grid
<1>3. DOMAIN app.wins = {1} /\ app.wins[1] = win /\ Record(app)
  BY <1>1 DEF Record, Map
<1>4. Listed(<<Tab(1)>>) /\ DOMAIN <<Tab(1)>> = {1} /\ <<Tab(1)>>[1] = Tab(1) /\ <<Tab(1)>> # <<>>
  <2>1. <<Tab(1)>> \in Seq({Tab(1)}) /\ Len(<<Tab(1)>>) = 1 /\ <<Tab(1)>>[1] = Tab(1) /\ <<Tab(1)>> # <<>>
    OBVIOUS
  <2>2. Listed(<<Tab(1)>>) /\ DOMAIN <<Tab(1)>> = 1 .. Len(<<Tab(1)>>)
    BY <2>1, SeqListed
  <2> QED BY <2>1, <2>2
<1>5. 1 \in Session /\ MaxSession \in Nat \ {0} /\ MaxWin \in Nat \ {0} /\ MaxDraws \in Nat
  BY WinTabsAssumption DEF Session
<1>6. /\ Tab(1) = [root |-> Tab(1).root, focus |-> Tab(1).focus]
      /\ Tab(1).root = Leaf(1) /\ Tab(1).focus = 1
  BY DEF Tab
<1>7. TabGood(Tab(1)) /\ Sessions(Tab(1).root) = {1}
  BY <1>5, <1>6, LeafIsTree DEF TabGood
<1> DEFINE T == <<Tab(1)>>
<1> HIDE DEF T
<1>8. Listed(T) /\ DOMAIN T = {1} /\ T[1] = Tab(1) /\ T # <<>> /\ win.tabs = T
  BY <1>2, <1>4 DEF T
<1>9. TabsGood(T) /\ SessionsOf(T) = {1}
  BY <1>7, <1>8 DEF TabsGood, SessionsOf
<1>10. WinGood(win)
  <2>1. win.menu \in 0 .. MaxSession /\ win.chips \in 0 .. MaxSession /\ win.active \in Nat \ {0}
    BY <1>2, <1>5 DEF NoTab
  <2> QED BY <1>2, <1>8, <1>9, <2>1, WinTabsAssumption DEF WinGood
<1>11. TabSessions(win) = {1} /\ AllPanes(app) = {1} /\ Held(app, {}, {}) = {1}
  <2>1. TabSessions(win) = {1}
    BY <1>8, <1>9, SessionsOfWin
  <2>2. AllPanes(app) = {1}
    BY <1>3, <2>1 DEF AllPanes
  <2> QED BY <2>1, <2>2 DEF Held
<1>12. World(app, {}, {}, {})
  <2>1. app.next \in 1 .. MaxSession + 1 /\ win.settings < app.next
    BY <1>1, <1>2, <1>5 DEF NoSession
  <2>2. \A s \in AllPanes(app) \cup {} \cup {} : s < app.next
    BY <1>1, <1>11
  <2>3. /\ DOMAIN app.registry = Held(app, {}, {}) /\ DOMAIN app.pty = Held(app, {}, {})
        /\ app.live \subseteq Held(app, {}, {}) /\ Held(app, {}, {}) \subseteq app.live \cup {}
        /\ app.live \cap {} = {}
    BY <1>1, <1>11
  <2> QED BY <1>3, <1>10, <2>1, <2>2, <2>3 DEF World
<1>13. Fit(app, 1)
  <2>1. Wanted(win, 1, 1) = grid
    BY <1>6, <1>8, OnePane DEF Wanted, grid
  <2> QED BY <1>1, <1>3, <1>7, <1>8, <2>1 DEF Fit
<1>14. Tidy(win)
  BY <1>2, <1>8 DEF Tidy
<1>15. Good(app, {})
  BY <1>3, <1>12, <1>13, <1>14 DEF Good
<1>16. opened = 1 /\ exits = {} /\ draws = [frames |-> 0, changes |-> 0] /\ fate = "run"
  BY DEF Init
<1>17. opened \in Window /\ DrawsOK
  BY <1>5, <1>16 DEF Window, DrawsOK
<1> QED BY <1>2, <1>3, <1>8, <1>15, <1>16, <1>17 DEF TabsInv, Wins

\* What a step has to leave.
LEMMA TabsAfter ==
  ASSUME Good(app', exits'), opened' \in Window, DrawsOK', fate' \in {"run", "exit", "aborted"},
         \A w \in DOMAIN app'.wins :
            w \in 1 .. opened' /\ app'.wins[w].tabs # <<>> /\ ~app'.wins[w].closing
  PROVE  TabsInv'
<1>1. Good(app, exits)'
  BY DEF Good, World, Record, Held, AllPanes, Fit
<1> QED BY <1>1 DEF TabsInv, Wins

\* And a step that leaves the tabs as they are.
LEMMA TabsStay ==
  ASSUME TabsInv, UNCHANGED <<app, opened, exits, draws>>, fate' \in {"run", "exit", "aborted"}
  PROVE  TabsInv'
<1>1. Good(app', exits') /\ opened' \in Window
  BY DEF TabsInv
<1>2. \A w \in DOMAIN app'.wins :
        w \in 1 .. opened' /\ app'.wins[w].tabs # <<>> /\ ~app'.wins[w].closing
  BY DEF TabsInv, Wins
<1>3. DrawsOK'
  BY DEF TabsInv, DrawsOK
<1> QED BY <1>1, <1>2, <1>3, TabsAfter

\* The handler of an event, and reconcile() after it, keep the invariant.
LEMMA HandledTabs ==
  ASSUME TabsInv, NEW a, ToReconcile(a, exits'), Handled(a), DrawsOK'
  PROVE  TabsInv'
<1>1. opened \in Window
  BY DEF TabsInv
<1>2. /\ Good(app', exits') /\ opened' \in Window /\ fate' \in {"run", "exit"}
      /\ \A w \in DOMAIN app'.wins :
            w \in 1 .. opened' /\ app'.wins[w].tabs # <<>> /\ ~app'.wins[w].closing
  BY <1>1, Reconciled
<1> QED BY <1>2, TabsAfter

\* What the handler of an event reads of the invariant.
LEMMA AtRest ==
  ASSUME TabsInv, NEW w \in Wins
  PROVE  /\ Good(app, exits) /\ w \in DOMAIN app.wins /\ DOMAIN app.wins \subseteq 1 .. opened
         /\ WinGood(app.wins[w]) /\ app.wins[w].tabs # <<>>
  BY DEF TabsInv, Wins, Good, World

\* A handler that needs no new window.
LEMMA Handles ==
  ASSUME TabsInv, NEW b, Good(b, exits), DOMAIN b.wins = DOMAIN app.wins, Handled(b),
         exits' = exits, DrawsOK'
  PROVE  TabsInv'
<1>1. ToReconcile(b, exits)
  BY DEF ToReconcile, TabsInv, Wins
<1> QED BY <1>1, HandledTabs

\* Keys and commands.
LEMMA KeyTabs ==
  ASSUME TabsInv, NEW w \in Wins, Key(w)
  PROVE  TabsInv'
<1>1. /\ Good(app, exits) /\ w \in DOMAIN app.wins /\ WinGood(app.wins[w])
      /\ app.wins[w].tabs # <<>>
  BY AtRest
<1>2. DrawsOK
  BY DEF TabsInv
<1> DEFINE win == app.wins[w]
<1>3. ASSUME AddTab(w) PROVE TabsInv'
  <2> DEFINE c == OpenSession(app, Grid(win, TerminalArea(win)))
             n == Len(win.tabs) + 1
             b == Reflow(WithTab(c, w, app.next, n), w)
  <2>1. Handled(b) /\ app.next \in Session /\ exits' = exits /\ draws' = draws
    BY <1>3 DEF AddTab, WithTab
  <2>2. Good(b, exits) /\ DOMAIN b.wins = DOMAIN app.wins
    <3> DEFINE grid == Grid(win, TerminalArea(win))
               kept == app.next
    <3>1. kept \in {app.wins[w].settings, app.next}
      OBVIOUS
    <3> HIDE DEF grid, kept
    <3>2. LET two == WithTab(OpenSession(app, grid), w, app.next, n)
              three == WithEditor(OpenSession(app, grid), w, app.next, n, kept)
          IN  /\ Good(Reflow(two, w), exits) /\ DOMAIN Reflow(two, w).wins = DOMAIN app.wins
              /\ Good(Reflow(three, w), exits) /\ DOMAIN Reflow(three, w).wins = DOMAIN app.wins
      BY <1>1, <2>1, <3>1, TabOpens
    <3> QED BY <3>2 DEF grid
  <2> HIDE DEF b
  <2>3. DrawsOK'
    BY <1>2, <2>1 DEF DrawsOK
  <2> QED BY <2>1, <2>2, <2>3, Handles
<1>4. ASSUME NEW forSettings \in BOOLEAN, OpenEditorTab(w, forSettings) PROVE TabsInv'
  <2> DEFINE c == OpenSession(app, Grid(win, TerminalArea(win)))
             n == Len(win.tabs) + 1
             kept == IF forSettings THEN app.next ELSE win.settings
             b == Reflow(WithEditor(c, w, app.next, n, kept), w)
  <2>1. Handled(b) /\ app.next \in Session /\ exits' = exits /\ draws' = draws
    <3>1. c.wins = app.wins
      BY <1>1, <1>4, Opened DEF Good, OpenEditorTab
    <3>2. Handled(Reflow([c EXCEPT !.wins[w].tabs = Append(@, Tab(app.next)),
                                   !.wins[w].active = n,
                                   !.wins[w].settings = IF forSettings THEN app.next ELSE @], w))
      BY <1>4 DEF OpenEditorTab
    <3> QED BY <1>4, <3>1, <3>2 DEF OpenEditorTab, WithEditor
  <2>2. Good(b, exits) /\ DOMAIN b.wins = DOMAIN app.wins
    <3> DEFINE grid == Grid(win, TerminalArea(win))
    <3>1. kept \in {app.wins[w].settings, app.next}
      OBVIOUS
    <3> HIDE DEF grid, kept
    <3>2. LET two == WithTab(OpenSession(app, grid), w, app.next, n)
              three == WithEditor(OpenSession(app, grid), w, app.next, n, kept)
          IN  /\ Good(Reflow(two, w), exits) /\ DOMAIN Reflow(two, w).wins = DOMAIN app.wins
              /\ Good(Reflow(three, w), exits) /\ DOMAIN Reflow(three, w).wins = DOMAIN app.wins
      BY <1>1, <2>1, <3>1, TabOpens
    <3> QED BY <3>2 DEF grid
  <2> HIDE DEF b
  <2>3. DrawsOK'
    BY <1>2, <2>1 DEF DrawsOK
  <2> QED BY <2>1, <2>2, <2>3, Handles
<1>5. ASSUME NEW sbs \in BOOLEAN, SplitFocused(w, sbs) PROVE TabsInv'
  <2> DEFINE target == FocusedSession(win)
             grid == IF target \in DOMAIN app.registry THEN app.registry[target] ELSE <<1, 1>>
             d == WithSplit(app, w, grid, sbs)
             b == Reflow(d, w)
  <2>1. Handled(b) /\ InRange(win) /\ app.next \in Session /\ exits' = exits /\ draws' = draws
    BY <1>5 DEF SplitFocused, WithSplit
  <2> HIDE DEF grid
  <2>2. Good(b, exits) /\ DOMAIN b.wins = DOMAIN app.wins
    BY <1>1, <2>1, PaneSplit
  <2> HIDE DEF b
  <2>3. DrawsOK'
    BY <1>2, <2>1 DEF DrawsOK
  <2> QED BY <2>1, <2>2, <2>3, Handles
<1>6. ASSUME NEW sbs \in BOOLEAN, NEW delta \in {-RatioStep, RatioStep}, ResizeFocused(w, sbs, delta)
      PROVE  TabsInv'
  <2> DEFINE s == FocusedSession(win)
             d == WithDivider(app, w, s, sbs, delta)
             b == Reflow(d, w)
  <2>1. /\ Handled(b) /\ InRange(win) /\ exits' = exits
        /\ draws.changes < MaxDraws /\ draws' = [draws EXCEPT !.changes = @ + 1]
    BY <1>6 DEF ResizeFocused, WithDivider
  <2> HIDE DEF s
  <2>0. delta \in Int
    BY LayoutAssumption
  <2>2. Good(b, exits) /\ DOMAIN b.wins = DOMAIN app.wins
    BY <1>1, <2>0, <2>1, DividerMoved
  <2> HIDE DEF b
  <2>3. DrawsOK'
    BY <1>2, <2>1, WinTabsAssumption DEF DrawsOK
  <2> QED BY <2>1, <2>2, <2>3, Handles
<1>7. ASSUME ClosePane(w) PROVE TabsInv'
  <2> DEFINE s == FocusedSession(win)
             b == CloseSession(app, w, s, FALSE)
  <2>1. Handled(b) /\ exits' = exits /\ draws' = draws
    BY <1>7 DEF ClosePane
  <2>2. MayGo(app, s, FALSE)
    BY DEF MayGo
  <2> HIDE DEF s
  <2>3. Good(b, exits) /\ DOMAIN b.wins = DOMAIN app.wins
    BY <1>1, <2>2, SessionClosed
  <2> HIDE DEF b
  <2>4. DrawsOK'
    BY <1>2, <2>1 DEF DrawsOK
  <2> QED BY <2>1, <2>3, <2>4, Handles
<1>8. ASSUME NEW delta \in {-1, 1}, SwitchTab(w, delta) PROVE TabsInv'
  <2> DEFINE n == Len(win.tabs)
             x == ((LeastOf(win.active, n) - 1 + delta) % n) + 1
             b == WithActive(app, w, x)
  <2>1. Handled(b) /\ exits' = exits /\ draws' = draws
    BY <1>8 DEF SwitchTab, WithActive
  <2>2. n \in Nat \ {0} /\ win.active \in Nat
    <3>1. TabsGood(win.tabs)
      BY <1>1 DEF WinGood
    <3>2. n \in Nat /\ win.tabs \in Seq({win.tabs[i] : i \in 1 .. n})
      BY <3>1, ListedSeq DEF TabsGood, Listed
    <3>3. n # 0
      BY <1>1, <3>2, EmptySeq
    <3> QED BY <1>1, <3>2, <3>3 DEF WinGood
  <2>3. x \in Nat \ {0}
    <3> DEFINE k == LeastOf(win.active, n) - 1 + delta
    <3>1. k \in Int
      BY <2>2 DEF LeastOf
    <3> HIDE DEF k, n
    <3>2. k % n \in Nat
      BY <2>2, <3>1
    <3> QED BY <3>2 DEF k
  <2> HIDE DEF x
  <2>4. Good(b, exits) /\ DOMAIN b.wins = DOMAIN app.wins
    BY <1>1, <2>3, OneNoted
  <2> HIDE DEF b
  <2>5. DrawsOK'
    BY <1>2, <2>1 DEF DrawsOK
  <2> QED BY <2>1, <2>4, <2>5, Handles
<1> QED BY <1>3, <1>4, <1>5, <1>6, <1>7, <1>8 DEF Key

\* The mouse.
LEMMA MouseTabs ==
  ASSUME TabsInv, NEW w \in Wins, Mouse(w)
  PROVE  TabsInv'
<1>1. /\ Good(app, exits) /\ w \in DOMAIN app.wins /\ WinGood(app.wins[w])
      /\ DOMAIN app.wins \subseteq 1 .. opened
  BY AtRest
<1>2. DrawsOK
  BY DEF TabsInv
<1>3. MaxSession \in Nat /\ app.wins[w].chips \in 0 .. MaxSession
  BY <1>1, WinTabsAssumption DEF WinGood
<1>4. ASSUME NEW i \in 1 .. app.wins[w].chips, ClickChip(w, i) PROVE TabsInv'
  <2> DEFINE b == WithActive(app, w, i)
  <2>1. Handled(b) /\ exits' = exits /\ draws' = draws
    BY <1>4 DEF ClickChip, WithActive
  <2>2. i \in Nat \ {0}
    BY <1>3
  <2>3. Good(b, exits) /\ DOMAIN b.wins = DOMAIN app.wins
    BY <1>1, <2>2, OneNoted
  <2> HIDE DEF b
  <2>4. DrawsOK'
    BY <1>2, <2>1 DEF DrawsOK
  <2> QED BY <2>1, <2>3, <2>4, Handles
<1>5. ASSUME NEW i \in 1 .. app.wins[w].chips, MiddleClickChip(w, i) PROVE TabsInv'
  <2> DEFINE b == CloseWholeTab(app, w, i)
  <2>1. Handled(b) /\ exits' = exits /\ draws' = draws
    BY <1>5 DEF MiddleClickChip
  <2>2. Good(b, exits) /\ DOMAIN b.wins = DOMAIN app.wins
    BY <1>1, WholeTabClosed
  <2> HIDE DEF b
  <2>3. DrawsOK'
    BY <1>2, <2>1 DEF DrawsOK
  <2> QED BY <2>1, <2>2, <2>3, Handles
<1>6. ASSUME NEW i \in 1 .. app.wins[w].chips, OpenTabMenu(w, i) PROVE TabsInv'
  <2> DEFINE b == WithMenu(app, w, i)
  <2>1. Handled(b) /\ exits' = exits /\ draws' = draws
    BY <1>6 DEF OpenTabMenu, WithMenu
  <2>2. i \in 0 .. MaxSession
    BY <1>3
  <2>3. Good(b, exits) /\ DOMAIN b.wins = DOMAIN app.wins
    BY <1>1, <2>2, OneNoted
  <2> HIDE DEF b
  <2>4. DrawsOK'
    BY <1>2, <2>1 DEF DrawsOK
  <2> QED BY <2>1, <2>3, <2>4, Handles
<1>7. ASSUME NEW item \in {"move", "close", "outside"}, TabMenuClick(w, item) PROVE TabsInv'
  <2> DEFINE ti == app.wins[w].menu
             a == WithMenu(app, w, NoTab)
  <2>1. /\ item = "move" => Handled(MoveTab(a, w, ti)) /\ opened < MaxWin
        /\ item = "close" => Handled(CloseWholeTab(a, w, ti))
        /\ item = "outside" => Handled(a)
        /\ exits' = exits /\ draws' = draws
    BY <1>7 DEF TabMenuClick, WithMenu
  <2>2. NoTab \in 0 .. MaxSession
    BY <1>3 DEF NoTab
  <2>3. Good(a, exits) /\ DOMAIN a.wins = DOMAIN app.wins
    BY <1>1, <2>2, OneNoted
  <2> HIDE DEF a, ti
  <2>4. DrawsOK'
    BY <1>2, <2>1 DEF DrawsOK
  <2>5. CASE item = "move"
    <3> DEFINE b == MoveTab(a, w, ti)
    <3>1. /\ DOMAIN b.wins = DOMAIN a.wins
          /\ Good(b, exits) \/ \E tab : Torn(b, exits, w, tab)
      BY <1>1, <2>3, TabMoved
    <3>2. Handled(b) /\ opened < MaxWin
      BY <2>1, <2>5
    <3> HIDE DEF b
    <3>3. ToReconcile(b, exits)
      BY <1>1, <2>3, <3>1, <3>2 DEF ToReconcile
    <3> QED BY <2>1, <2>4, <3>2, <3>3, HandledTabs
  <2>6. CASE item = "close"
    <3> DEFINE b == CloseWholeTab(a, w, ti)
    <3>1. Good(b, exits) /\ DOMAIN b.wins = DOMAIN a.wins
      BY <1>1, <2>3, WholeTabClosed
    <3>2. Handled(b)
      BY <2>1, <2>6
    <3> HIDE DEF b
    <3> QED BY <2>1, <2>3, <2>4, <3>1, <3>2, Handles
  <2>7. CASE item = "outside"
    BY <2>1, <2>3, <2>4, <2>7, Handles
  <2> QED BY <2>5, <2>6, <2>7
<1>8. ASSUME NEW s \in app.wins[w].hits, PressPane(w, s) PROVE TabsInv'
  <2> DEFINE b == WithFocus(app, w, s)
  <2>1. Handled(b) /\ InRange(app.wins[w]) /\ exits' = exits /\ draws' = draws
    BY <1>8 DEF PressPane, WithFocus
  <2>2. Good(b, exits) /\ DOMAIN b.wins = DOMAIN app.wins
    BY <1>1, <2>1, PaneFocused
  <2> HIDE DEF b
  <2>3. DrawsOK'
    BY <1>2, <2>1 DEF DrawsOK
  <2> QED BY <2>1, <2>2, <2>3, Handles
<1> QED BY <1>4, <1>5, <1>6, <1>7, <1>8 DEF Mouse

\* A window given another shape.
LEMMA ReshapeTabs ==
  ASSUME TabsInv, NEW w \in Wins, NEW size \in Sizes, NEW cell \in Cells, NEW sidebar, sidebar \in BOOLEAN,
         NEW change, change = Shaped(app.wins[w], size, cell, sidebar), Reshape(w, change)
  PROVE  TabsInv'
<1>1. Good(app, exits) /\ w \in DOMAIN app.wins
  BY AtRest
<1> DEFINE b == Reflow([app EXCEPT !.wins[w] = change], w)
<1>2. /\ Handled(b) /\ exits' = exits
      /\ draws.changes < MaxDraws /\ draws' = [draws EXCEPT !.changes = @ + 1]
  BY DEF Reshape
<1>3. Good(b, exits) /\ DOMAIN b.wins = DOMAIN app.wins
  BY <1>1, Reshaped
<1> HIDE DEF b
<1>4. DrawsOK'
  <2>1. draws \in [frames : 0 .. MaxDraws, changes : 0 .. MaxDraws]
    BY DEF TabsInv, DrawsOK
  <2>2. draws' \in [frames : 0 .. MaxDraws, changes : 0 .. MaxDraws]
    BY <1>2, <2>1, WinTabsAssumption
  <2> QED BY <2>2 DEF DrawsOK
<1> QED BY <1>2, <1>3, <1>4, Handles

\* The window system.
LEMMA SystemTabs ==
  ASSUME TabsInv, NEW w \in Wins, System(w)
  PROVE  TabsInv'
<1> DEFINE win == app.wins[w]
<1>1. /\ Good(app, exits) /\ w \in DOMAIN app.wins /\ WinGood(win) /\ win.tabs # <<>>
  BY AtRest
<1>2. DrawsOK
  BY DEF TabsInv
<1>3. ASSUME Render(w) PROVE TabsInv'
  <2> DEFINE active == LeastOf(win.active, Len(win.tabs))
             b == WithFrame(app, w, active)
  <2>1. /\ Handled(b) /\ exits' = exits
        /\ draws.frames < MaxDraws /\ draws' = [draws EXCEPT !.frames = @ + 1]
    BY <1>3 DEF Render, WithFrame
  <2>2. active = LeastOf(app.wins[w].active, Len(app.wins[w].tabs))
    OBVIOUS
  <2> HIDE DEF active
  <2>3. Good(b, exits) /\ DOMAIN b.wins = DOMAIN app.wins
    BY <1>1, <2>2, Drawn
  <2> HIDE DEF b
  <2>4. DrawsOK'
    BY <1>2, <2>1, WinTabsAssumption DEF DrawsOK
  <2> QED BY <2>1, <2>3, <2>4, Handles
<1>4. ASSUME CloseRequested(w) PROVE TabsInv'
  <2> DEFINE b == ToClose(app, w)
  <2>1. Handled(b) /\ exits' = exits /\ draws' = draws
    BY <1>4 DEF CloseRequested, ToClose
  <2>2. Good(b, exits) /\ DOMAIN b.wins = DOMAIN app.wins
    BY <1>1, OneNoted
  <2> HIDE DEF b
  <2>3. DrawsOK'
    BY <1>2, <2>1 DEF DrawsOK
  <2> QED BY <2>1, <2>2, <2>3, Handles
<1>5. /\ win.size \in Sizes /\ win.cell \in Cells /\ win.sidebar \in BOOLEAN
      /\ Map(win) /\ DOMAIN win = WinFields
  BY <1>1 DEF WinGood
<1>6. /\ \A size : [win EXCEPT !.size = size] = Shaped(win, size, win.cell, win.sidebar)
      /\ \A cell : [win EXCEPT !.cell = cell] = Shaped(win, win.size, cell, win.sidebar)
      /\ [win EXCEPT !.sidebar = ~@] = Shaped(win, win.size, win.cell, ~win.sidebar)
  <2> HIDE DEF win
  <2>1. ASSUME NEW size PROVE [win EXCEPT !.size = size] = Shaped(win, size, win.cell, win.sidebar)
    BY <1>5 DEF Shaped, Map, WinFields
  <2>2. ASSUME NEW cell PROVE [win EXCEPT !.cell = cell] = Shaped(win, win.size, cell, win.sidebar)
    BY <1>5 DEF Shaped, Map, WinFields
  <2>3. [win EXCEPT !.sidebar = ~@] = Shaped(win, win.size, win.cell, ~win.sidebar)
    BY <1>5 DEF Shaped, Map, WinFields
  <2> QED BY <2>1, <2>2, <2>3
<1>7. ASSUME NEW size \in Sizes, Resized(w, size) PROVE TabsInv'
  <2> DEFINE change == [win EXCEPT !.size = size]
  <2>1. Reshape(w, change) /\ change = Shaped(app.wins[w], size, win.cell, win.sidebar)
    BY <1>6, <1>7 DEF Resized
  <2> HIDE DEF change
  <2> QED BY <1>5, <2>1, ReshapeTabs
<1>8. ASSUME NEW cell \in Cells, ZoomFont(w, cell) PROVE TabsInv'
  <2> DEFINE change == [win EXCEPT !.cell = cell]
  <2>1. Reshape(w, change) /\ change = Shaped(app.wins[w], win.size, cell, win.sidebar)
    BY <1>6, <1>8 DEF ZoomFont
  <2> HIDE DEF change
  <2> QED BY <1>5, <2>1, ReshapeTabs
<1>9. ASSUME ToggleSidebar(w) PROVE TabsInv'
  <2> DEFINE change == [win EXCEPT !.sidebar = ~@]
             other == ~win.sidebar
  <2>1. Reshape(w, change) /\ change = Shaped(app.wins[w], win.size, win.cell, other)
    BY <1>6, <1>9 DEF ToggleSidebar
  <2>2. other \in BOOLEAN
    OBVIOUS
  <2> HIDE DEF change, other
  <2> QED BY <1>5, <2>1, <2>2, ReshapeTabs
<1>10. ASSUME Abort(w) PROVE TabsInv'
  <2>1. UNCHANGED <<app, opened, exits, draws>> /\ fate' = "aborted"
    BY <1>10 DEF Abort
  <2> QED BY <2>1, TabsStay
<1> QED BY <1>3, <1>4, <1>7, <1>8, <1>9, <1>10 DEF System

\* A shell's end, and its event.
LEMMA EndTabs ==
  ASSUME TabsInv, NEW s, SessionExit(s) \/ ShellEnds(s)
  PROVE  TabsInv'
<1>1. Good(app, exits) /\ DrawsOK
  BY DEF TabsInv
<1>2. ASSUME SessionExit(s) PROVE TabsInv'
  <2> DEFINE b == AfterExit(s)
  <2>1. s \in exits /\ exits' = exits \ {s} /\ Handled(b) /\ draws' = draws
    BY <1>2 DEF SessionExit, AfterExit
  <2>2. Good(b, exits \ {s}) /\ DOMAIN b.wins = Wins
    BY <1>1, <2>1, ExitHandled
  <2> HIDE DEF b
  <2>3. ToReconcile(b, exits')
    BY <2>1, <2>2 DEF ToReconcile, TabsInv
  <2>4. DrawsOK'
    BY <1>1, <2>1 DEF DrawsOK
  <2> QED BY <2>1, <2>3, <2>4, HandledTabs
<1>3. ASSUME ShellEnds(s) PROVE TabsInv'
  <2> DEFINE b == [app EXCEPT !.live = @ \ {s}]
  <2>1. /\ s \in app.live /\ app' = b /\ exits' = exits \cup {s}
        /\ UNCHANGED <<opened, draws, fate>>
    BY <1>3 DEF ShellEnds
  <2>2. Good(b, exits \cup {s}) /\ b.wins = app.wins
    BY <1>1, <2>1, Ended
  <2> HIDE DEF b
  <2>3. Good(app', exits') /\ opened' \in Window /\ fate' \in {"run", "exit", "aborted"}
    BY <2>1, <2>2 DEF TabsInv
  <2>4. \A w \in DOMAIN app'.wins :
          w \in 1 .. opened' /\ app'.wins[w].tabs # <<>> /\ ~app'.wins[w].closing
    BY <2>1, <2>2 DEF TabsInv, Wins
  <2>5. DrawsOK'
    BY <1>1, <2>1 DEF DrawsOK
  <2> QED BY <2>3, <2>4, <2>5, TabsAfter
<1> QED BY <1>2, <1>3

\* The invariant is inductive.
THEOREM TabsInvariant == Spec => []TabsInv
<1>1. Init => TabsInv
  BY InitTabs
<1>2. TabsInv /\ [Next]_vars => TabsInv'
  <2> SUFFICES ASSUME TabsInv, [Next]_vars PROVE TabsInv'
    OBVIOUS
  <2>1. ASSUME NEW w \in Wins, Key(w) \/ Mouse(w) \/ System(w) PROVE TabsInv'
    BY <2>1, KeyTabs, MouseTabs, SystemTabs
  <2>2. ASSUME NEW s \in Session, SessionExit(s) \/ ShellEnds(s) PROVE TabsInv'
    BY <2>2, EndTabs
  <2>3. CASE UNCHANGED vars
    <3>1. UNCHANGED <<app, opened, exits, draws, fate>>
      BY <2>3 DEF vars
    <3>2. fate' \in {"run", "exit", "aborted"}
      BY <3>1 DEF TabsInv
    <3> QED BY <3>1, <3>2, TabsStay
  <2> QED BY <2>1, <2>2, <2>3 DEF Next
<1> QED BY <1>1, <1>2, PTL DEF Spec

\* Between two events every window has well-formed tabs and everything is of its
\* type.
THEOREM TabsTypeCorrect == Spec => []TabsTypeOK
<1>1. TabsInv => TabsTypeOK
  <2> SUFFICES ASSUME TabsInv PROVE TabsTypeOK
    OBVIOUS
  <2>1. Good(app, exits) /\ World(app, {}, {}, exits)
    BY DEF TabsInv, Good
  <2>2. ASSUME NEW w \in Wins PROVE w <= opened /\ WinOK(app.wins[w])
    <3> DEFINE win == app.wins[w]
    <3>1. /\ WinGood(win) /\ win.tabs # <<>> /\ w \in 1 .. opened
      BY AtRest DEF TabsInv
    <3>2. win.detached = <<>> /\ ~win.closing
      BY <2>1 DEF TabsInv, Good, Tidy, Wins
    <3> HIDE DEF win
    <3>3. w <= opened
      BY <3>1 DEF TabsInv, Window
    <3>4. \A i \in DOMAIN win.tabs : TabOK(win.tabs[i])
      <4> SUFFICES ASSUME NEW i \in DOMAIN win.tabs PROVE TabOK(win.tabs[i])
        OBVIOUS
      <4>1. TabGood(win.tabs[i])
        BY <3>1 DEF WinGood, TabsGood
      <4> QED BY <4>1, TreeIsTree DEF TabOK, TabGood
    <3>5. win.active >= 1
      BY <3>1 DEF WinGood
    <3>6. WinOK(win)
      BY <3>1, <3>2, <3>4, <3>5 DEF WinOK, WinGood
    <3> QED BY <3>3, <3>6 DEF win
  <2>3. app.live \subseteq Session
    <3>1. app.live \subseteq AllPanes(app)
      BY <2>1 DEF World, Held
    <3>2. AllPanes(app) \subseteq Session
      BY <2>1, WinSessions DEF World, AllPanes
    <3> QED BY <3>1, <3>2
  <2>4. exits \subseteq Session
    BY <2>1 DEF World
  <2> QED BY <2>2, <2>3, <2>4 DEF TabsInv, TabsTypeOK, DrawsOK
<1> QED BY <1>1, TabsInvariant, PTL

\* The registry has exactly the sessions that have a pane, each has one pane in
\* one window, and it runs or its end is on its way, however the tabs were
\* split, moved and closed.
THEOREM RegistryCorrect == Spec => []RegistryIsPanes
<1>1. TabsInv => RegistryIsPanes
  <2> SUFFICES ASSUME TabsInv PROVE RegistryIsPanes
    OBVIOUS
  <2>1. World(app, {}, {}, exits)
    BY DEF TabsInv, Good
  <2> DEFINE panes == UNION {TabSessions(app.wins[w]) : w \in Wins}
  <2>2. Held(app, {}, {}) = panes
    BY DEF Held, AllPanes, Wins
  <2> HIDE DEF panes
  <2>3. DOMAIN app.registry = panes /\ app.live \subseteq panes /\ panes \subseteq app.live \cup exits
    BY <2>1, <2>2 DEF World
  <2>4. ASSUME NEW v \in Wins, NEW w \in Wins, NEW i \in DOMAIN app.wins[v].tabs,
               NEW j \in DOMAIN app.wins[w].tabs, <<v, i>> # <<w, j>>
        PROVE  Sessions(app.wins[v].tabs[i].root) \cap Sessions(app.wins[w].tabs[j].root) = {}
    <3>1. CASE v = w
      <4>1. i # j
        BY <2>4, <3>1
      <4>2. TabsGood(app.wins[v].tabs)
        BY <2>1 DEF World, WinGood, Wins
      <4> QED BY <3>1, <4>1, <4>2 DEF TabsGood
    <3>2. CASE v # w
      <4>1. TabSessions(app.wins[v]) \cap TabSessions(app.wins[w]) = {}
        BY <2>1, <3>2 DEF World, Wins
      <4>2. /\ Sessions(app.wins[v].tabs[i].root) \subseteq TabSessions(app.wins[v])
            /\ Sessions(app.wins[w].tabs[j].root) \subseteq TabSessions(app.wins[w])
        BY DEF TabSessions
      <4> QED BY <4>1, <4>2
    <3> QED BY <3>1, <3>2
  <2> QED BY <2>3, <2>4 DEF RegistryIsPanes, panes
<1> QED BY <1>1, TabsInvariant, PTL

\* Terminal and PTY of every pane have the grid of the pane's rectangle in the
\* window that has it.
THEOREM GridsCorrect == Spec => []PanesFit
<1>1. TabsInv => PanesFit
  <2> SUFFICES ASSUME TabsInv, NEW w \in Wins, NEW i \in DOMAIN app.wins[w].tabs,
                      NEW s \in Sessions(app.wins[w].tabs[i].root)
               PROVE  LET win == app.wins[w]
                          rects == LeafRects(win.tabs[i].root, TerminalArea(win))
                      IN  app.registry[s] = Grid(win, rects[s]) /\ app.pty[s] = Grid(win, rects[s])
    BY DEF PanesFit, LeafRects
  <2>1. Fit(app, w)
    BY DEF TabsInv, Good, Wins
  <2> QED BY <2>1 DEF Fit, Wanted, LeafRects
<1> QED BY <1>1, TabsInvariant, PTL


---------------------------------------------------------------------------
(* The rectangle of a node.                                                *)

\* The fold from the area down to a node, for the laws of folds.
IntoOp(c, r, k) == Into(c[1], c[2], r, k)
AnyInv(c, k, r) == TRUE
Boxing == INSTANCE FoldLaw WITH Op <- IntoOp, Inv <- AnyInv

Steps(p) == [k \in 1 .. Len(p) |-> k]
RectAt(l, area, p) == Boxing!Fold(<<l, p>>, area, Steps(p))

\* A pane has the rectangle of its node.
LEMMA LeafRectAt ==
  ASSUME NEW l, NEW s, NEW area
  PROVE  LeafRect(l, s, area) = RectAt(l, area, PathOf(l, s))
  BY DEF LeafRect, RectAt, Steps, IntoOp, Boxing!Fold, FoldLeft, Boxing!FoldLeft,
         MapThenFoldSet, Boxing!MapThenFoldSet, Max, Boxing!Max

\* The steps to a node are as many as its path is long.
LEMMA StepsType ==
  ASSUME NEW p \in Path
  PROVE  /\ Len(p) \in Nat /\ Len(Steps(p)) = Len(p) /\ DOMAIN Steps(p) = 1 .. Len(p)
         /\ \A k \in 1 .. Len(p) : Steps(p)[k] = k
<1>1. Len(p) \in Nat
  BY PathType
<1>2. DOMAIN Steps(p) = 1 .. Len(p) /\ \A k \in 1 .. Len(p) : Steps(p)[k] = k
  BY DEF Steps
<1>3. Steps(p) \in Seq(Nat)
  <2>1. Steps(p) \in [1 .. Len(p) -> Nat]
    BY <1>1 DEF Steps
  <2> QED BY <1>1, <2>1, IsASeq DEF Steps
<1>4. Len(Steps(p)) = Len(p)
  BY <1>1, <1>2, <1>3
<1> QED BY <1>1, <1>2, <1>4

\* The root has the whole area.
LEMMA RectRoot ==
  ASSUME NEW l, NEW area
  PROVE  RectAt(l, area, <<>>) = area
<1>1. <<>> \in Path /\ Len(<<>>) = 0
  BY EmptySeq DEF Path
<1>2. Len(Steps(<<>>)) = 0 /\ DOMAIN Steps(<<>>) = 1 .. Len(Steps(<<>>))
  BY <1>1, StepsType
<1>3. Len(Steps(<<>>)) \in Nat
  BY <1>2
<1>4. PICK f : /\ Boxing!Trace(<<l, <<>>>>, f, area, Steps(<<>>))
               /\ RectAt(l, area, <<>>) = f[Len(Steps(<<>>))]
  BY <1>2, <1>3, Boxing!FoldTrace DEF RectAt
<1> QED BY <1>2, <1>4 DEF Boxing!Trace

\* A child has its half of the rectangle of its parent.
LEMMA RectChild ==
  ASSUME NEW l, NEW area, NEW p \in Path, NEW c \in {0, 1}
  PROVE  RectAt(l, area, Append(p, c)) = ChildRect(RectAt(l, area, p), l.split[p], c)
<1> DEFINE q == Append(p, c)
           n == Len(p)
<1>1. /\ q \in Path /\ Len(q) = n + 1 /\ \A i \in 1 .. n : q[i] = p[i]
      /\ q[n + 1] = c
  BY PathChild
<1>2. /\ n \in Nat /\ Len(Steps(p)) = n /\ DOMAIN Steps(p) = 1 .. Len(Steps(p))
      /\ \A k \in 1 .. n : Steps(p)[k] = k
  BY StepsType
<1> HIDE DEF q
<1>3. /\ Len(Steps(q)) = n + 1 /\ DOMAIN Steps(q) = 1 .. Len(Steps(q))
      /\ \A k \in 1 .. n + 1 : Steps(q)[k] = k
  BY <1>1, StepsType
<1> HIDE DEF n
<1>4. PICK f : /\ Boxing!Trace(<<l, p>>, f, area, Steps(p))
               /\ RectAt(l, area, p) = f[Len(Steps(p))]
  BY <1>2, Boxing!FoldTrace DEF RectAt
<1>5. Len(Steps(q)) \in Nat
  BY <1>2, <1>3
<1>6. PICK g : /\ Boxing!Trace(<<l, q>>, g, area, Steps(q))
               /\ RectAt(l, area, q) = g[Len(Steps(q))]
  BY <1>3, <1>5, Boxing!FoldTrace DEF RectAt
<1>7. ASSUME NEW k \in 1 .. n + 1 PROVE g[k] = ChildRect(g[k - 1], l.split[SubSeq(q, 1, k - 1)], q[k])
  <2>1. g[k] = IntoOp(<<l, q>>, g[k - 1], Steps(q)[k])
    BY <1>3, <1>6 DEF Boxing!Trace
  <2>2. Steps(q)[k] = k
    BY <1>3
  <2> QED BY <2>1, <2>2 DEF IntoOp, Into
<1>8. ASSUME NEW k \in 1 .. n + 1 PROVE SubSeq(q, 1, k - 1) = SubSeq(p, 1, k - 1)
  <2>1. k - 1 \in 0 .. Len(p) /\ k - 1 \in 0 .. Len(q)
    BY <1>1, <1>2 DEF n
  <2>2. /\ SubSeq(p, 1, k - 1) \in Path /\ Len(SubSeq(p, 1, k - 1)) = k - 1
        /\ \A i \in 1 .. k - 1 : SubSeq(p, 1, k - 1)[i] = p[i]
    BY <2>1, PathStart
  <2>3. /\ SubSeq(q, 1, k - 1) \in Path /\ Len(SubSeq(q, 1, k - 1)) = k - 1
        /\ \A i \in 1 .. k - 1 : SubSeq(q, 1, k - 1)[i] = q[i]
    BY <1>1, <2>1, PathStart
  <2>4. \A i \in 1 .. k - 1 : q[i] = p[i]
    BY <1>1, <1>2
  <2> HIDE DEF n
  <2>5. \A i \in 1 .. Len(SubSeq(q, 1, k - 1)) : SubSeq(q, 1, k - 1)[i] = SubSeq(p, 1, k - 1)[i]
    BY <2>2, <2>3, <2>4
  <2> QED BY <2>2, <2>3, <2>5, SamePath
<1> DEFINE h == [k \in 0 .. n |-> g[k]]
<1>9. Boxing!Trace(<<l, p>>, h, area, Steps(p))
  <2>1. h = [k \in 0 .. Len(Steps(p)) |-> h[k]] /\ h[0] = area
    BY <1>2, <1>6 DEF Boxing!Trace
  <2>2. ASSUME NEW k \in 1 .. Len(Steps(p)) PROVE h[k] = IntoOp(<<l, p>>, h[k - 1], Steps(p)[k])
    <3>1. k \in 1 .. n + 1 /\ k \in 1 .. n /\ k \in 0 .. n /\ k - 1 \in 0 .. n
      BY <1>2
    <3>2. h[k] = g[k] /\ h[k - 1] = g[k - 1] /\ q[k] = p[k] /\ Steps(p)[k] = k
      BY <1>1, <1>2, <3>1
    <3>3. h[k] = ChildRect(h[k - 1], l.split[SubSeq(p, 1, k - 1)], p[k])
      BY <1>7, <1>8, <3>1, <3>2
    <3> QED BY <3>2, <3>3 DEF IntoOp, Into
  <2> HIDE DEF h
  <2> QED BY <2>1, <2>2 DEF Boxing!Trace
<1>10. h[n] = g[n]
  BY <1>2
<1> HIDE DEF h
<1>11. f[Len(Steps(p))] = h[Len(Steps(p))]
  BY <1>2, <1>4, <1>9, Boxing!OneTrace
<1>12. n + 1 \in 1 .. n + 1 /\ (n + 1) - 1 = n
  BY <1>2
<1>13. SubSeq(q, 1, n) = p
  <2>1. SubSeq(p, 1, n) = p
    BY SubSeqFull DEF Path, n
  <2> QED BY <1>8, <1>12, <2>1
<1>14. g[n + 1] = ChildRect(g[n], l.split[p], c)
  BY <1>1, <1>7, <1>12, <1>13
<1>15. RectAt(l, area, q) = g[n + 1] /\ RectAt(l, area, p) = g[n]
  BY <1>2, <1>3, <1>4, <1>6, <1>10, <1>11
<1> QED BY <1>14, <1>15 DEF q

---------------------------------------------------------------------------
(* Rectangles.                                                             *)

Rect(r) ==
  r = [x |-> r.x, y |-> r.y, w |-> r.w, h |-> r.h] /\ r.x \in Nat /\ r.y \in Nat /\ r.w \in Nat /\ r.h \in Nat
Inside(r, a) ==
  a.x <= r.x /\ r.x + r.w <= a.x + a.w /\ a.y <= r.y /\ r.y + r.h <= a.y + a.h
Halves(split) == split.sbs \in BOOLEAN /\ split.ratio \in 0 .. Unit

\* A pixel is in a rectangle when both its coordinates are.
LEMMA InPixels ==
  ASSUME NEW r, Rect(r), NEW px
  PROVE  px \in Pixels(r) <=> /\ px = <<px[1], px[2]>> /\ px[1] \in Int /\ px[2] \in Int
                              /\ r.x <= px[1] /\ px[1] < r.x + r.w
                              /\ r.y <= px[2] /\ px[2] < r.y + r.h
<1>1. r.x \in Nat /\ r.y \in Nat /\ r.w \in Nat /\ r.h \in Nat
  BY DEF Rect
<1>2. \A i : i \in r.x .. r.x + r.w - 1 <=> i \in Int /\ r.x <= i /\ i < r.x + r.w
  BY <1>1
<1>3. \A i : i \in r.y .. r.y + r.h - 1 <=> i \in Int /\ r.y <= i /\ i < r.y + r.h
  BY <1>1
<1> DEFINE A == r.x .. r.x + r.w - 1
           B == r.y .. r.y + r.h - 1
<1> HIDE DEF A, B
<1>4. px \in A \X B <=> px = <<px[1], px[2]>> /\ px[1] \in A /\ px[2] \in B
  OBVIOUS
<1> QED BY <1>2, <1>3, <1>4 DEF Pixels, A, B

\* What is inside a rectangle has no pixel outside it.
LEMMA InsidePixels ==
  ASSUME NEW r, Rect(r), NEW a, Rect(a), Inside(r, a)
  PROVE  Pixels(r) \subseteq Pixels(a)
<1> SUFFICES ASSUME NEW px \in Pixels(r) PROVE px \in Pixels(a)
  OBVIOUS
<1>1. /\ px = <<px[1], px[2]>> /\ px[1] \in Int /\ px[2] \in Int
      /\ r.x <= px[1] /\ px[1] < r.x + r.w /\ r.y <= px[2] /\ px[2] < r.y + r.h
  BY InPixels
<1>2. /\ r.x \in Nat /\ r.y \in Nat /\ r.w \in Nat /\ r.h \in Nat
      /\ a.x \in Nat /\ a.y \in Nat /\ a.w \in Nat /\ a.h \in Nat
  BY DEF Rect
<1>3. /\ a.x <= px[1] /\ px[1] < a.x + a.w /\ a.y <= px[2] /\ px[2] < a.y + a.h
  BY <1>1, <1>2 DEF Inside
<1> QED BY <1>1, <1>3, InPixels

\* The inside of what is inside is inside.
LEMMA InsideChain ==
  ASSUME NEW r, Rect(r), NEW a, Rect(a), NEW b, Rect(b), Inside(r, a), Inside(a, b)
  PROVE  Inside(r, b)
  BY DEF Rect, Inside

\* A share of a length is no longer than the length.
LEMMA Share ==
  ASSUME NEW n \in Nat, NEW ratio \in 0 .. Unit
  PROVE  (n * ratio) \div Unit \in 0 .. n
<1> DEFINE m == n * ratio
<1>1. m \in Nat /\ m <= n * 50
  BY DEF Unit
<1> HIDE DEF m
<1>2. m \div 50 \in 0 .. n
  BY <1>1
<1> QED BY <1>2 DEF m, Unit

\* The halves of a rectangle divided side by side: the left one gives up the
\* divider.
LEMMA Beside ==
  ASSUME NEW r, Rect(r), NEW split, Halves(split), split.sbs
  PROVE  \E wa \in 0 .. r.w :
           /\ ChildRect(r, split, 0) = [x |-> r.x, y |-> r.y, w |-> Minus(wa, 1), h |-> r.h]
           /\ ChildRect(r, split, 1) = [x |-> r.x + wa, y |-> r.y, w |-> r.w - wa, h |-> r.h]
<1> DEFINE wa == (r.w * split.ratio) \div Unit
<1>1. wa \in 0 .. r.w
  BY Share DEF Rect, Halves
<1>2. r = [x |-> r.x, y |-> r.y, w |-> r.w, h |-> r.h] /\ r.x \in Nat /\ r.w \in Nat
  BY DEF Rect
<1>3. ChildRect(r, split, 0) = [r EXCEPT !.w = Minus(wa, 1)]
  BY DEF ChildRect, Divider
<1>4. ChildRect(r, split, 1) = [r EXCEPT !.x = r.x + wa, !.w = Minus(r.w, wa)]
  BY DEF ChildRect
<1> HIDE DEF wa
<1>5. Minus(r.w, wa) = r.w - wa
  BY <1>1, <1>2 DEF Minus, MostOf
<1>6. ChildRect(r, split, 0) = [x |-> r.x, y |-> r.y, w |-> Minus(wa, 1), h |-> r.h]
  BY <1>2, <1>3
<1>7. ChildRect(r, split, 1) = [x |-> r.x + wa, y |-> r.y, w |-> r.w - wa, h |-> r.h]
  <2> DEFINE left == [r EXCEPT !.x = r.x + wa]
  <2>1. left = [x |-> r.x + wa, y |-> r.y, w |-> r.w, h |-> r.h]
    BY <1>2
  <2>2. ChildRect(r, split, 1) = [left EXCEPT !.w = r.w - wa]
    BY <1>4, <1>5
  <2> HIDE DEF left
  <2> QED BY <2>1, <2>2
<1> QED BY <1>1, <1>6, <1>7

\* The halves of one divided into an upper and a lower one.
LEMMA Beneath ==
  ASSUME NEW r, Rect(r), NEW split, Halves(split), ~split.sbs
  PROVE  \E ha \in 0 .. r.h :
           /\ ChildRect(r, split, 0) = [x |-> r.x, y |-> r.y, w |-> r.w, h |-> Minus(ha, 1)]
           /\ ChildRect(r, split, 1) = [x |-> r.x, y |-> r.y + ha, w |-> r.w, h |-> r.h - ha]
<1> DEFINE ha == (r.h * split.ratio) \div Unit
<1>1. ha \in 0 .. r.h
  BY Share DEF Rect, Halves
<1>2. r = [x |-> r.x, y |-> r.y, w |-> r.w, h |-> r.h] /\ r.y \in Nat /\ r.h \in Nat
  BY DEF Rect
<1>3. ChildRect(r, split, 0) = [r EXCEPT !.h = Minus(ha, 1)]
  BY DEF ChildRect, Divider
<1>4. ChildRect(r, split, 1) = [r EXCEPT !.y = r.y + ha, !.h = Minus(r.h, ha)]
  BY DEF ChildRect
<1> HIDE DEF ha
<1>5. Minus(r.h, ha) = r.h - ha
  BY <1>1, <1>2 DEF Minus, MostOf
<1>6. ChildRect(r, split, 0) = [x |-> r.x, y |-> r.y, w |-> r.w, h |-> Minus(ha, 1)]
  BY <1>2, <1>3
<1>7. ChildRect(r, split, 1) = [x |-> r.x, y |-> r.y + ha, w |-> r.w, h |-> r.h - ha]
  BY <1>2, <1>4, <1>5
<1> QED BY <1>1, <1>6, <1>7

\* What neither half has is the divider.
Gap(r, split) == Pixels(r) \ (Pixels(ChildRect(r, split, 0)) \cup Pixels(ChildRect(r, split, 1)))

\* The halves are rectangles inside the divided one and apart from each other.
LEMMA HalvesApart ==
  ASSUME NEW r, Rect(r), NEW split, Halves(split)
  PROVE  /\ \A c \in {0, 1} : Rect(ChildRect(r, split, c)) /\ Inside(ChildRect(r, split, c), r)
         /\ Pixels(ChildRect(r, split, 0)) \cap Pixels(ChildRect(r, split, 1)) = {}
<1> DEFINE a == ChildRect(r, split, 0)
           b == ChildRect(r, split, 1)
<1>1. r.x \in Nat /\ r.y \in Nat /\ r.w \in Nat /\ r.h \in Nat
  BY DEF Rect
<1>2. \A m \in Nat : Minus(m, 1) \in Nat /\ Minus(m, 1) <= m /\ (m = 0 \/ Minus(m, 1) < m)
  BY DEF Minus, MostOf
<1>3. CASE split.sbs
  <2>1. PICK wa \in 0 .. r.w : /\ a = [x |-> r.x, y |-> r.y, w |-> Minus(wa, 1), h |-> r.h]
                               /\ b = [x |-> r.x + wa, y |-> r.y, w |-> r.w - wa, h |-> r.h]
    BY <1>3, Beside
  <2> HIDE DEF a, b
  <2>2. Rect(a) /\ Rect(b) /\ Inside(a, r) /\ Inside(b, r)
    BY <1>1, <1>2, <2>1 DEF Rect, Inside
  <2>3. ASSUME NEW px \in Pixels(a), px \in Pixels(b) PROVE FALSE
    <3>1. px[1] \in Int /\ px[1] < a.x + a.w /\ b.x <= px[1]
      BY <2>2, <2>3, InPixels
    <3> QED BY <1>1, <1>2, <2>1, <3>1
  <2> QED BY <2>2, <2>3 DEF a, b
<1>4. CASE ~split.sbs
  <2>1. PICK ha \in 0 .. r.h : /\ a = [x |-> r.x, y |-> r.y, w |-> r.w, h |-> Minus(ha, 1)]
                               /\ b = [x |-> r.x, y |-> r.y + ha, w |-> r.w, h |-> r.h - ha]
    BY <1>4, Beneath
  <2> HIDE DEF a, b
  <2>2. Rect(a) /\ Rect(b) /\ Inside(a, r) /\ Inside(b, r)
    BY <1>1, <1>2, <2>1 DEF Rect, Inside
  <2>3. ASSUME NEW px \in Pixels(a), px \in Pixels(b) PROVE FALSE
    <3>1. px[2] \in Int /\ px[2] < a.y + a.h /\ b.y <= px[2]
      BY <2>2, <2>3, InPixels
    <3> QED BY <1>1, <1>2, <2>1, <3>1
  <2> QED BY <2>2, <2>3 DEF a, b
<1> QED BY <1>3, <1>4

Upright(x, y, n) == {x} \X (y .. y + n - 1)
Level(x, y, n) == (x .. x + n - 1) \X {y}

\* A column or row of pixels has as many as it is long.
LEMMA Strip ==
  ASSUME NEW i, NEW lo \in Nat, NEW n \in Nat
  PROVE  /\ IsFiniteSet(Upright(i, lo, n)) /\ Cardinality(Upright(i, lo, n)) = n
         /\ IsFiniteSet(Level(lo, i, n)) /\ Cardinality(Level(lo, i, n)) = n
<1> DEFINE S == lo .. lo + n - 1
<1>1. IsFiniteSet(S) /\ Cardinality(S) = n
  <2>1. lo + n - 1 \in Int
    OBVIOUS
  <2>2. IsFiniteSet(S) /\ Cardinality(S) = IF lo > lo + n - 1 THEN 0 ELSE (lo + n - 1) - lo + 1
    BY <2>1, FS_Interval
  <2>3. (IF lo > lo + n - 1 THEN 0 ELSE (lo + n - 1) - lo + 1) = n
    OBVIOUS
  <2> QED BY <2>2, <2>3
<1>2. IsFiniteSet({i}) /\ Cardinality({i}) = 1
  BY FS_Singleton
<1> HIDE DEF S
<1>3. IsFiniteSet({i} \X S) /\ Cardinality({i} \X S) = 1 * n
  BY <1>1, <1>2, FS_Product
<1>4. IsFiniteSet(S \X {i}) /\ Cardinality(S \X {i}) = n * 1
  BY <1>1, <1>2, FS_Product
<1>5. 1 * n = n /\ n * 1 = n
  OBVIOUS
<1> QED BY <1>3, <1>4, <1>5 DEF S, Upright, Level

\* A divider is no longer than the longer side of what it divides.
LEMMA GapBound ==
  ASSUME NEW r, Rect(r), NEW split, Halves(split)
  PROVE  /\ IsFiniteSet(Gap(r, split)) /\ Cardinality(Gap(r, split)) \in Nat
         /\ Cardinality(Gap(r, split)) <= MostOf(r.w, r.h)
<1> DEFINE a == ChildRect(r, split, 0)
           b == ChildRect(r, split, 1)
           G == Gap(r, split)
<1>1. r.x \in Nat /\ r.y \in Nat /\ r.w \in Nat /\ r.h \in Nat
  BY DEF Rect
<1>2. \A m \in Nat : Minus(m, 1) = m - 1 \/ (m = 0 /\ Minus(m, 1) = 0)
  BY DEF Minus, MostOf
<1>3. Rect(a) /\ Rect(b)
  BY HalvesApart
<1>4. G = Pixels(r) \ (Pixels(a) \cup Pixels(b))
  BY DEF Gap
<1>5. r.w <= MostOf(r.w, r.h) /\ r.h <= MostOf(r.w, r.h)
  BY <1>1 DEF MostOf
<1>6. ASSUME NEW T, G \subseteq T, IsFiniteSet(T), Cardinality(T) = r.w \/ Cardinality(T) = r.h
      PROVE  /\ IsFiniteSet(G) /\ Cardinality(G) \in Nat /\ Cardinality(G) <= MostOf(r.w, r.h)
  <2> HIDE DEF G
  <2>1. IsFiniteSet(G) /\ Cardinality(G) <= Cardinality(T)
    BY <1>6, FS_Subset
  <2>2. Cardinality(G) \in Nat
    BY <2>1, FS_CardinalityType
  <2>3. MostOf(r.w, r.h) \in Nat
    BY <1>1 DEF MostOf
  <2> QED BY <1>1, <1>5, <1>6, <2>1, <2>2, <2>3
<1>7. CASE split.sbs
  <2>1. PICK wa \in 0 .. r.w : /\ a = [x |-> r.x, y |-> r.y, w |-> Minus(wa, 1), h |-> r.h]
                               /\ b = [x |-> r.x + wa, y |-> r.y, w |-> r.w - wa, h |-> r.h]
    BY <1>7, Beside
  <2> HIDE DEF a, b
  <2> DEFINE T == Upright(r.x + wa - 1, r.y, r.h)
  <2>2. ASSUME NEW px \in G PROVE px \in T
    <3>1. /\ px = <<px[1], px[2]>> /\ px[1] \in Int /\ px[2] \in Int
          /\ r.x <= px[1] /\ px[1] < r.x + r.w /\ r.y <= px[2] /\ px[2] < r.y + r.h
      BY <1>4, <2>2, InPixels
    <3>2. ~(a.x <= px[1] /\ px[1] < a.x + a.w /\ a.y <= px[2] /\ px[2] < a.y + a.h)
      BY <1>3, <1>4, <2>2, <3>1, InPixels
    <3>3. ~(b.x <= px[1] /\ px[1] < b.x + b.w /\ b.y <= px[2] /\ px[2] < b.y + b.h)
      BY <1>3, <1>4, <2>2, <3>1, InPixels
    <3>4. px[1] = r.x + wa - 1
      BY <1>1, <1>2, <2>1, <3>1, <3>2, <3>3
    <3>5. px[2] \in r.y .. r.y + r.h - 1
      BY <1>1, <3>1
    <3> QED BY <3>1, <3>4, <3>5 DEF Upright
  <2>3. IsFiniteSet(T) /\ Cardinality(T) = r.h
    BY <1>1, Strip
  <2> HIDE DEF T, G
  <2> QED BY <1>6, <2>2, <2>3 DEF G
<1>8. CASE ~split.sbs
  <2>1. PICK ha \in 0 .. r.h : /\ a = [x |-> r.x, y |-> r.y, w |-> r.w, h |-> Minus(ha, 1)]
                               /\ b = [x |-> r.x, y |-> r.y + ha, w |-> r.w, h |-> r.h - ha]
    BY <1>8, Beneath
  <2> HIDE DEF a, b
  <2> DEFINE T == Level(r.x, r.y + ha - 1, r.w)
  <2>2. ASSUME NEW px \in G PROVE px \in T
    <3>1. /\ px = <<px[1], px[2]>> /\ px[1] \in Int /\ px[2] \in Int
          /\ r.x <= px[1] /\ px[1] < r.x + r.w /\ r.y <= px[2] /\ px[2] < r.y + r.h
      BY <1>4, <2>2, InPixels
    <3>2. ~(a.x <= px[1] /\ px[1] < a.x + a.w /\ a.y <= px[2] /\ px[2] < a.y + a.h)
      BY <1>3, <1>4, <2>2, <3>1, InPixels
    <3>3. ~(b.x <= px[1] /\ px[1] < b.x + b.w /\ b.y <= px[2] /\ px[2] < b.y + b.h)
      BY <1>3, <1>4, <2>2, <3>1, InPixels
    <3>4. px[2] = r.y + ha - 1
      BY <1>1, <1>2, <2>1, <3>1, <3>2, <3>3
    <3>5. px[1] \in r.x .. r.x + r.w - 1
      BY <1>1, <3>1
    <3> QED BY <3>1, <3>4, <3>5 DEF Level
  <2>3. IsFiniteSet(T) /\ Cardinality(T) = r.w
    BY <1>1, Strip
  <2> HIDE DEF T, G
  <2> QED BY <1>6, <2>2, <2>3 DEF G
<1> QED BY <1>7, <1>8

---------------------------------------------------------------------------
(* Rectangles of a tree.                                                   *)

\* A node is its parent's child.
LEMMA LastStep ==
  ASSUME NEW p \in Path, p # <<>>
  PROVE  /\ p[Len(p)] \in {0, 1} /\ p = Append(Front(p), p[Len(p)])
         /\ Front(p) \in Path /\ Len(Front(p)) = Len(p) - 1 /\ Len(p) \in Nat \ {0}
         /\ Above(Front(p), p) /\ Front(p) # p
<1> DEFINE n == Len(p)
           f == Front(p)
           c == p[n]
<1>1. n \in Nat \ {0} /\ f \in Path /\ Len(f) = n - 1 /\ \A i \in 1 .. n - 1 : f[i] = p[i]
  BY Family
<1>2. c \in {0, 1}
  BY <1>1, PathType
<1> HIDE DEF f, c
<1>3. /\ Append(f, c) \in Path /\ Len(Append(f, c)) = Len(f) + 1
      /\ \A i \in 1 .. Len(f) : Append(f, c)[i] = f[i]
      /\ Append(f, c)[Len(f) + 1] = c
  BY <1>1, <1>2, PathChild
<1>4. ASSUME NEW i \in 1 .. n PROVE p[i] = Append(f, c)[i]
  <2>1. CASE i = n
    BY <1>1, <1>3, <2>1 DEF c
  <2>2. CASE i # n
    <3>1. i \in 1 .. n - 1
      BY <1>1, <2>2
    <3> QED BY <1>1, <1>3, <3>1
  <2> QED BY <2>1, <2>2
<1>5. p = Append(f, c)
  <2> DEFINE a == Append(f, c)
  <2>1. a \in Path /\ Len(p) = Len(a) /\ \A i \in 1 .. Len(p) : p[i] = a[i]
    BY <1>1, <1>3, <1>4
  <2> HIDE DEF a
  <2>2. p = a
    BY <2>1, SamePath
  <2> QED BY <2>2 DEF a
<1>6. Above(f, p) /\ f # p
  BY <1>1 DEF Above
<1> QED BY <1>1, <1>2, <1>5, <1>6 DEF f, c

\* What holds of a split and its halves: the rectangles of its children.
LEMMA SplitHalves ==
  ASSUME NEW l, Tree(l), NEW q \in DOMAIN l.split
  PROVE  q \in Path /\ q \in Nodes(l) /\ Halves(l.split[q])
  BY DEF Tree, Splits, Halves, Nodes

\* Every node has a rectangle, inside that of every node above it.
LEMMA NodeRects ==
  ASSUME NEW l, Tree(l), NEW area, Rect(area), NEW t \in Nodes(l)
  PROVE  /\ Rect(RectAt(l, area, t))
         /\ \A q \in Nodes(l) : Above(q, t) => Inside(RectAt(l, area, t), RectAt(l, area, q))
<1> DEFINE R(q) == RectAt(l, area, q)
           Fine(n) == Rect(R(n)) /\ \A q \in Nodes(l) : Above(q, n) => Inside(R(n), R(q))
           S == {k \in Nat : \A n \in Nodes(l) : Len(n) <= k => Fine(n)}
<1>1. \A n \in Nodes(l) : n \in Path /\ Len(n) \in Nat
  BY PathType DEF Tree
<1>2. R(<<>>) = area
  BY RectRoot
<1>3. \A q \in Path, c \in {0, 1} : R(Append(q, c)) = ChildRect(R(q), l.split[q], c)
  BY RectChild
<1> HIDE DEF R
<1>4. \A n : Rect(R(n)) => Inside(R(n), R(n))
  BY DEF Rect, Inside
<1>5. ASSUME NEW n \in Nodes(l), Rect(R(n)), NEW q \in Nodes(l), q = n PROVE Inside(R(n), R(q))
  BY <1>4, <1>5
<1>6. 0 \in S
  <2> SUFFICES ASSUME NEW n \in Nodes(l), Len(n) = 0 PROVE Fine(n)
    BY <1>1
  <2>1. n = <<>>
    BY <1>1, EmptySeq DEF Path
  <2>2. Rect(R(n))
    BY <1>2, <2>1
  <2>3. ASSUME NEW q \in Nodes(l), Above(q, n) PROVE q = n
    <3>1. Len(q) <= Len(n) /\ Len(q) \in Nat /\ q \in Path /\ n \in Path
      BY <1>1, <2>3 DEF Above
    <3>2. Len(n) <= Len(q)
      BY <3>1
    <3> QED BY <2>3, <3>1, <3>2, AboveBoth
  <2> QED BY <1>5, <2>2, <2>3
<1>7. ASSUME NEW k \in Nat, k \in S PROVE k + 1 \in S
  <2> SUFFICES ASSUME NEW n \in Nodes(l), Len(n) = k + 1 PROVE Fine(n)
    BY <1>1, <1>7
  <2> DEFINE f == Front(n)
             c == n[Len(n)]
  <2>1. n \in Path /\ n # <<>>
    BY <1>1
  <2>2. /\ c \in {0, 1} /\ n = Append(f, c) /\ f \in Path /\ Len(f) = k
        /\ Above(f, n) /\ f # n
    BY <2>1, LastStep
  <2> HIDE DEF f, c
  <2>3. f \in DOMAIN l.split
    BY <2>2 DEF Tree
  <2>4. f \in Nodes(l) /\ Halves(l.split[f])
    BY <2>3, SplitHalves
  <2>5. Fine(f)
    BY <1>7, <2>2, <2>4
  <2>6. R(n) = ChildRect(R(f), l.split[f], c)
    BY <1>3, <2>2
  <2>7. Rect(R(n)) /\ Inside(R(n), R(f))
    <3>1. Rect(ChildRect(R(f), l.split[f], c)) /\ Inside(ChildRect(R(f), l.split[f], c), R(f))
      BY <2>2, <2>4, <2>5, HalvesApart
    <3> QED BY <2>6, <3>1
  <2>8. ASSUME NEW q \in Nodes(l), Above(q, n) PROVE Inside(R(n), R(q))
    <3>1. CASE q = n
      BY <1>5, <2>7, <3>1
    <3>2. CASE q # n
      <4>1. q \in Path /\ Len(q) \in Nat
        BY <1>1
      <4>2. Len(q) # Len(n)
        BY <2>1, <2>8, <3>2, <4>1, AboveBoth
      <4>3. Len(q) <= Len(f)
        BY <2>2, <2>8, <4>1, <4>2 DEF Above
      <4>4. Above(q, f)
        BY <2>2, <2>8, <4>1, <4>3, PathType DEF Above
      <4>5. Inside(R(f), R(q)) /\ q \in DOMAIN l.split
        BY <2>5, <2>8, <3>2, <4>1, <4>4 DEF Tree
      <4>6. Len(q) <= k
        BY <2>2, <4>3
      <4>7. Rect(R(q)) /\ Rect(R(f))
        BY <1>7, <2>5, <4>6
      <4> QED BY <2>7, <4>5, <4>7, InsideChain
    <3> QED BY <3>1, <3>2
  <2> QED BY <2>7, <2>8
<1>8. Nat \subseteq S
  <2> HIDE DEF S
  <2> QED BY <1>6, <1>7, Boxing!SetInduction
<1> QED BY <1>1, <1>8 DEF R

\* Two leaves part at a split, each on its side of it.
LEMMA LeavesPart ==
  ASSUME NEW l, Tree(l), NEW p \in Paths(l), NEW q \in Paths(l), p # q
  PROVE  \E u \in DOMAIN l.split, c \in {0, 1} :
           /\ Append(u, c) \in Nodes(l) /\ Append(u, 1 - c) \in Nodes(l)
           /\ Above(Append(u, c), p) /\ Above(Append(u, 1 - c), q)
<1>1. /\ p \in Path /\ q \in Path /\ p \in Nodes(l) /\ q \in Nodes(l)
      /\ Len(p) \in Nat /\ Len(q) \in Nat
      /\ p \notin DOMAIN l.split /\ q \notin DOMAIN l.split
  BY PathType DEF Tree, Nodes
<1>2. ~Above(p, q) /\ ~Above(q, p)
  BY <1>1 DEF Tree
<1> DEFINE T == {i \in Nat : i \in 1 .. Len(p) /\ i \in 1 .. Len(q) /\ p[i] # q[i]}
<1>3. T # {}
  <2>1. CASE Len(p) <= Len(q)
    <3>1. \E i \in 1 .. Len(p) : p[i] # q[i]
      BY <1>2, <2>1 DEF Above
    <3> QED BY <1>1, <2>1, <3>1
  <2>2. CASE Len(q) <= Len(p)
    <3>1. \E i \in 1 .. Len(q) : p[i] # q[i]
      BY <1>2, <2>2 DEF Above
    <3> QED BY <1>1, <2>2, <3>1
  <2> QED BY <1>1, <2>1, <2>2
<1>4. PICK k \in T : \A i \in T : k <= i
  <2>1. T \in SUBSET Nat
    OBVIOUS
  <2> HIDE DEF T
  <2> QED BY <1>3, <2>1, Boxing!NatMin
<1>5. /\ k \in Nat \ {0} /\ k <= Len(p) /\ k <= Len(q) /\ p[k] # q[k]
      /\ \A i \in 1 .. k - 1 : p[i] = q[i]
  <2>1. k \in 1 .. Len(p) /\ k \in 1 .. Len(q) /\ p[k] # q[k]
    BY <1>4
  <2>2. ASSUME NEW i \in 1 .. k - 1 PROVE p[i] = q[i]
    <3>1. i \in Nat /\ i \in 1 .. Len(p) /\ i \in 1 .. Len(q) /\ ~(k <= i)
      BY <1>1, <2>1
    <3> QED BY <1>4, <3>1
  <2> QED BY <1>1, <2>1, <2>2
<1>6. p[k] \in {0, 1} /\ q[k] \in {0, 1}
  BY <1>1, <1>5, PathType
<1> HIDE DEF T
<1> DEFINE u == SubSeq(p, 1, k - 1)
           c == p[k]
<1>7. u \in Path /\ Len(u) = k - 1 /\ \A i \in 1 .. k - 1 : u[i] = p[i]
  <2>1. k - 1 \in 0 .. Len(p)
    BY <1>1, <1>5
  <2> QED BY <1>1, <2>1, PathStart
<1> HIDE DEF u
<1>8. u \in DOMAIN l.split
  <2>1. Above(u, p) /\ u # p
    BY <1>1, <1>5, <1>7 DEF Above
  <2> QED BY <1>1, <1>7, <2>1 DEF Tree
<1>9. c \in {0, 1} /\ 1 - c \in {0, 1} /\ q[k] = 1 - c
  BY <1>5, <1>6
<1>10. Append(u, c) \in Nodes(l) /\ Append(u, 1 - c) \in Nodes(l)
  BY <1>8, <1>9 DEF Tree
<1>11. Above(Append(u, c), p)
  <2> DEFINE a == Append(u, c)
  <2>1. Len(a) = k /\ (\A i \in 1 .. k - 1 : a[i] = u[i]) /\ a[k] = c
    BY <1>5, <1>7, <1>9, PathChild
  <2> HIDE DEF a
  <2>2. \A i \in 1 .. k : i = k \/ i \in 1 .. k - 1
    BY <1>5
  <2>3. \A i \in 1 .. k : a[i] = p[i]
    BY <1>7, <2>1, <2>2
  <2>4. Above(a, p)
    BY <1>5, <2>1, <2>3 DEF Above
  <2> QED BY <2>4 DEF a
<1>12. Above(Append(u, 1 - c), q)
  <2> DEFINE a == Append(u, 1 - c)
  <2> HIDE DEF c
  <2>1. Len(a) = k /\ (\A i \in 1 .. k - 1 : a[i] = u[i]) /\ a[k] = 1 - c
    BY <1>5, <1>7, <1>9, PathChild
  <2> HIDE DEF a
  <2>2. \A i \in 1 .. k : i = k \/ i \in 1 .. k - 1
    BY <1>5
  <2>3. \A i \in 1 .. k : a[i] = q[i]
    BY <1>5, <1>7, <1>9, <2>1, <2>2
  <2>4. Above(a, q)
    BY <1>5, <2>1, <2>3 DEF Above
  <2> QED BY <2>4 DEF a
<1> HIDE DEF c
<1> QED BY <1>8, <1>9, <1>10, <1>11, <1>12

\* Two leaves share no pixel.
LEMMA LeavesApart ==
  ASSUME NEW l, Tree(l), NEW area, Rect(area), NEW p \in Paths(l), NEW q \in Paths(l), p # q
  PROVE  Pixels(RectAt(l, area, p)) \cap Pixels(RectAt(l, area, q)) = {}
<1> DEFINE R(n) == RectAt(l, area, n)
<1>1. PICK u \in DOMAIN l.split, c \in {0, 1} :
        /\ Append(u, c) \in Nodes(l) /\ Append(u, 1 - c) \in Nodes(l)
        /\ Above(Append(u, c), p) /\ Above(Append(u, 1 - c), q)
  BY LeavesPart
<1>2. u \in Path /\ u \in Nodes(l) /\ Halves(l.split[u])
  BY SplitHalves
<1>3. p \in Nodes(l) /\ q \in Nodes(l)
  BY DEF Nodes
<1> DEFINE a == Append(u, c)
           b == Append(u, 1 - c)
<1>4. R(a) = ChildRect(R(u), l.split[u], c) /\ R(b) = ChildRect(R(u), l.split[u], 1 - c)
  <2>1. 1 - c \in {0, 1}
    OBVIOUS
  <2> QED BY <1>2, <2>1, RectChild
<1>5. a \in Nodes(l) /\ b \in Nodes(l) /\ Above(a, p) /\ Above(b, q)
  BY <1>1
<1> HIDE DEF a, b
<1>6. Rect(R(u)) /\ Rect(R(a)) /\ Rect(R(b)) /\ Rect(R(p)) /\ Rect(R(q))
  BY <1>2, <1>3, <1>5, NodeRects
<1>7. Inside(R(p), R(a)) /\ Inside(R(q), R(b))
  BY <1>3, <1>5, NodeRects
<1> HIDE DEF R
<1>8. Pixels(ChildRect(R(u), l.split[u], 0)) \cap Pixels(ChildRect(R(u), l.split[u], 1)) = {}
  BY <1>2, <1>6, HalvesApart
<1>9. Pixels(R(a)) \cap Pixels(R(b)) = {}
  <2>1. c = 0 \/ c = 1
    OBVIOUS
  <2>2. CASE c = 0
    <3>1. 1 - c = 1
      BY <2>2
    <3> QED BY <1>4, <1>8, <2>2, <3>1
  <2>3. CASE c = 1
    <3>1. 1 - c = 0
      BY <2>3
    <3> QED BY <1>4, <1>8, <2>3, <3>1
  <2> QED BY <2>1, <2>2, <2>3
<1>10. Pixels(R(p)) \subseteq Pixels(R(a)) /\ Pixels(R(q)) \subseteq Pixels(R(b))
  BY <1>6, <1>7, InsidePixels
<1>11. Pixels(R(p)) \cap Pixels(R(q)) = {}
  BY <1>9, <1>10
<1> QED BY <1>11 DEF R

\* No finite set of paths has one of every length.
LEMMA NotEveryLength ==
  ASSUME NEW D, IsFiniteSet(D), D \subseteq Path
  PROVE  \E k \in Nat : \A q \in D : Len(q) # k
<1> DEFINE n == Cardinality(D)
           g == [k \in 0 .. n |-> CHOOSE q \in D : Len(q) = k]
<1> SUFFICES ASSUME \A k \in Nat : \E q \in D : Len(q) = k PROVE FALSE
  OBVIOUS
<1>1. n \in Nat
  BY FS_CardinalityType
<1> HIDE DEF n
<1>2. \A k \in 0 .. n : g[k] \in D /\ Len(g[k]) = k
  BY <1>1
<1>3. g \in [0 .. n -> D]
  BY <1>2
<1> HIDE DEF g
<1>4. g \in Injection(0 .. n, D)
  BY <1>2, <1>3 DEF Injection, IsInjective
<1>5. Cardinality(0 .. n) <= Cardinality(D)
  BY <1>4, FS_Injection
<1>6. Cardinality(0 .. n) = n + 1
  <2>1. Cardinality(0 .. n) = IF 0 > n THEN 0 ELSE n - 0 + 1
    BY <1>1, FS_Interval
  <2> QED BY <1>1, <2>1
<1> QED BY <1>1, <1>5, <1>6 DEF n

\* A pixel of the area is a pane's or lies on a divider.
LEMMA PaneOrDivider ==
  ASSUME NEW l, Tree(l), NEW area, Rect(area), NEW px \in Pixels(area)
  PROVE  \/ \E p \in Paths(l) : px \in Pixels(RectAt(l, area, p))
         \/ \E q \in DOMAIN l.split : px \in Gap(RectAt(l, area, q), l.split[q])
<1> DEFINE R(n) == RectAt(l, area, n)
           S == {k \in Nat : \E n \in Nodes(l) : Len(n) = k /\ px \in Pixels(R(n))}
<1> SUFFICES ASSUME \A p \in Paths(l) : px \notin Pixels(R(p)),
                    \A q \in DOMAIN l.split : px \notin Gap(R(q), l.split[q])
             PROVE  FALSE
  OBVIOUS
<1>1. 0 \in S
  <2>1. <<>> \in Nodes(l) /\ Len(<<>>) = 0 /\ R(<<>>) = area
    BY RectRoot DEF Tree
  <2> HIDE DEF R
  <2> QED BY <2>1
<1>2. ASSUME NEW k \in Nat, k \in S PROVE k + 1 \in S
  <2>1. PICK n \in Nodes(l) : Len(n) = k /\ px \in Pixels(R(n))
    BY <1>2
  <2>2. n \in DOMAIN l.split
    BY <2>1 DEF Nodes
  <2>3. px \notin Gap(R(n), l.split[n])
    BY <2>2
  <2>4. n \in Path
    BY DEF Tree
  <2>5. \A c \in {0, 1} : /\ R(Append(n, c)) = ChildRect(R(n), l.split[n], c)
                          /\ Append(n, c) \in Nodes(l) /\ Len(Append(n, c)) = k + 1
    <3>1. \A c \in {0, 1} : R(Append(n, c)) = ChildRect(R(n), l.split[n], c)
      BY <2>4, RectChild
    <3>2. \A c \in {0, 1} : Append(n, c) \in Nodes(l)
      BY <2>2 DEF Tree
    <3>3. \A c \in {0, 1} : Len(Append(n, c)) = Len(n) + 1
      BY <2>4, PathChild
    <3> QED BY <2>1, <3>1, <3>2, <3>3
  <2> HIDE DEF R
  <2>6. PICK c \in {0, 1} : px \in Pixels(ChildRect(R(n), l.split[n], c))
    BY <2>1, <2>3 DEF Gap
  <2> DEFINE t == Append(n, c)
  <2>7. t \in Nodes(l) /\ Len(t) = k + 1 /\ R(t) = ChildRect(R(n), l.split[n], c)
    BY <2>5
  <2> HIDE DEF t
  <2>8. px \in Pixels(R(t))
    BY <2>6, <2>7
  <2> QED BY <2>7, <2>8
<1>3. Nat \subseteq S
  <2> HIDE DEF S
  <2> QED BY <1>1, <1>2, Boxing!SetInduction
<1>4. ASSUME NEW k \in Nat PROVE \E q \in DOMAIN l.split : Len(q) = k
  <2>1. PICK n \in Nodes(l) : Len(n) = k /\ px \in Pixels(R(n))
    BY <1>3
  <2>2. n \in DOMAIN l.split
    BY <2>1 DEF Nodes
  <2> QED BY <2>1, <2>2
<1>5. IsFiniteSet(DOMAIN l.split) /\ DOMAIN l.split \subseteq Path
  BY DEF Tree, Splits, Nodes
<1> QED BY <1>4, <1>5, NotEveryLength

\* The pixels of finitely many sets of at most m.
LEMMA UnionBound ==
  ASSUME NEW D, IsFiniteSet(D), NEW G, NEW m \in Nat,
         \A q \in D : IsFiniteSet(G[q]) /\ Cardinality(G[q]) <= m
  PROVE  /\ IsFiniteSet(UNION {G[q] : q \in D})
         /\ Cardinality(UNION {G[q] : q \in D}) <= Cardinality(D) * m
<1> DEFINE U(E) == UNION {G[q] : q \in E}
           Bounded(E) == IsFiniteSet(U(E)) /\ Cardinality(U(E)) <= Cardinality(E) * m
           S == {k \in Nat : \A E \in SUBSET D : IsFiniteSet(E) /\ Cardinality(E) = k => Bounded(E)}
<1>1. 0 \in S
  <2> SUFFICES ASSUME NEW E \in SUBSET D, IsFiniteSet(E), Cardinality(E) = 0 PROVE Bounded(E)
    OBVIOUS
  <2>1. E = {}
    BY FS_EmptySet
  <2>2. U(E) = {}
    BY <2>1
  <2> HIDE DEF U
  <2>3. IsFiniteSet(U(E)) /\ Cardinality(U(E)) = 0
    BY <2>2, FS_EmptySet
  <2>4. 0 <= 0 * m
    OBVIOUS
  <2> QED BY <2>3, <2>4
<1>2. ASSUME NEW k \in Nat, k \in S PROVE k + 1 \in S
  <2> SUFFICES ASSUME NEW E \in SUBSET D, IsFiniteSet(E), Cardinality(E) = k + 1 PROVE Bounded(E)
    OBVIOUS
  <2>1. E # {}
    BY FS_EmptySet
  <2>2. PICK x \in E : TRUE
    BY <2>1
  <2> DEFINE F == E \ {x}
  <2>3. IsFiniteSet(F) /\ Cardinality(F) = (k + 1) - 1
    BY <2>2, FS_RemoveElement
  <2>4. Cardinality(F) = k /\ F \in SUBSET D
    BY <2>3
  <2>5. U(E) = U(F) \cup G[x]
    BY <2>2
  <2> HIDE DEF U, F
  <2>6. IsFiniteSet(U(F)) /\ Cardinality(U(F)) <= k * m
    BY <1>2, <2>3, <2>4
  <2>7. IsFiniteSet(G[x]) /\ Cardinality(G[x]) <= m
    BY <2>2
  <2> DEFINE A == U(F)
             B == G[x]
             AB == A \cap B
  <2> HIDE DEF A, B
  <2>8. IsFiniteSet(A) /\ IsFiniteSet(B)
    BY <2>6, <2>7 DEF A, B
  <2>9. /\ IsFiniteSet(A \cup B)
        /\ Cardinality(A \cup B) = Cardinality(A) + Cardinality(B) - Cardinality(AB)
    BY <2>8, FS_Union
  <2>10. IsFiniteSet(AB)
    BY <2>8, FS_Intersection
  <2> HIDE DEF AB
  <2>11. Cardinality(A) \in Nat /\ Cardinality(B) \in Nat /\ Cardinality(AB) \in Nat
    BY <2>8, <2>10, FS_CardinalityType
  <2>12. Cardinality(A \cup B) <= k * m + m
    <3>1. k * m \in Nat /\ Cardinality(A) <= k * m /\ Cardinality(B) <= m
      BY <2>6, <2>7 DEF A, B
    <3> QED BY <2>9, <2>11, <3>1
  <2>13. (k + 1) * m = k * m + m
    OBVIOUS
  <2>14. U(E) = A \cup B
    BY <2>5 DEF A, B
  <2> QED BY <2>9, <2>12, <2>13, <2>14
<1>3. Nat \subseteq S
  <2> HIDE DEF S
  <2> QED BY <1>1, <1>2, Boxing!SetInduction
<1>4. Cardinality(D) \in Nat
  BY FS_CardinalityType
<1>5. Bounded(D)
  <2> HIDE DEF Bounded
  <2> QED BY <1>3, <1>4
<1> QED BY <1>5

\* The panes of a tree share an area: they do not overlap, stay inside it, and
\* leave no more of it than the dividers.
LEMMA TreeTiles ==
  ASSUME NEW l, Tree(l), NEW area, Rect(area)
  PROVE  Tiles(l, area)
<1> DEFINE rects == LeafRects(l, area)
           covered == UNION {Pixels(rects[s]) : s \in DOMAIN rects}
           m == MostOf(area.w, area.h)
           D == DOMAIN l.split
           G == [q \in D |-> Gap(RectAt(l, area, q), l.split[q])]
<1>1. DOMAIN rects = Sessions(l) /\ \A s \in Sessions(l) : rects[s] = RectAt(l, area, PathOf(l, s))
  BY LeafRectAt DEF LeafRects
<1> HIDE DEF rects
<1>2. \A s \in Sessions(l) : PathOf(l, s) \in Paths(l) /\ l.leaf[PathOf(l, s)] = s
  BY PathOfLeaf
<1>3. ASSUME NEW s \in DOMAIN rects, NEW t \in DOMAIN rects, s # t
      PROVE  Pixels(rects[s]) \cap Pixels(rects[t]) = {}
  <2> DEFINE p == PathOf(l, s)
             q == PathOf(l, t)
  <2>1. p \in Paths(l) /\ q \in Paths(l) /\ p # q
    BY <1>1, <1>2, <1>3
  <2>2. rects[s] = RectAt(l, area, p) /\ rects[t] = RectAt(l, area, q)
    BY <1>1
  <2> HIDE DEF p, q
  <2> QED BY <2>1, <2>2, LeavesApart
<1>4. <<>> \in Nodes(l) /\ <<>> \in Path /\ RectAt(l, area, <<>>) = area /\ Len(<<>>) = 0
  BY RectRoot DEF Tree
<1>5. \A t \in Nodes(l) : Rect(RectAt(l, area, t)) /\ Inside(RectAt(l, area, t), area)
  <2> SUFFICES ASSUME NEW t \in Nodes(l)
               PROVE  Rect(RectAt(l, area, t)) /\ Inside(RectAt(l, area, t), area)
    OBVIOUS
  <2>1. t \in Path /\ Len(t) \in Nat
    BY PathType DEF Tree
  <2> DEFINE root == <<>>
  <2>2. root \in Nodes(l) /\ RectAt(l, area, root) = area /\ Above(root, t)
    BY <1>4, <2>1 DEF Above
  <2> HIDE DEF root
  <2>3. Rect(RectAt(l, area, t)) /\ Inside(RectAt(l, area, t), RectAt(l, area, root))
    BY <2>2, NodeRects
  <2> QED BY <2>2, <2>3
<1>6. covered \subseteq Pixels(area)
  <2> SUFFICES ASSUME NEW s \in DOMAIN rects PROVE Pixels(rects[s]) \subseteq Pixels(area)
    OBVIOUS
  <2> DEFINE r == rects[s]
  <2>1. Rect(r) /\ Inside(r, area)
    BY <1>1, <1>2, <1>5 DEF Nodes
  <2> HIDE DEF r
  <2>2. Pixels(r) \subseteq Pixels(area)
    BY <2>1, InsidePixels
  <2> QED BY <2>2 DEF r
<1>7. \A q \in D : IsFiniteSet(G[q]) /\ Cardinality(G[q]) <= m
  <2> SUFFICES ASSUME NEW q \in D PROVE IsFiniteSet(G[q]) /\ Cardinality(G[q]) <= m
    OBVIOUS
  <2> DEFINE r == RectAt(l, area, q)
             split == l.split[q]
  <2>1. q \in Nodes(l) /\ Halves(split)
    BY SplitHalves
  <2>2. Rect(r) /\ Inside(r, area)
    BY <1>5, <2>1
  <2>3. G[q] = Gap(r, split)
    OBVIOUS
  <2> HIDE DEF r, split, G
  <2>4. /\ IsFiniteSet(Gap(r, split)) /\ Cardinality(Gap(r, split)) \in Nat
        /\ Cardinality(Gap(r, split)) <= MostOf(r.w, r.h)
    BY <2>1, <2>2, GapBound
  <2>5. MostOf(r.w, r.h) <= m /\ MostOf(r.w, r.h) \in Nat /\ m \in Nat
    BY <2>2 DEF Rect, Inside, MostOf
  <2> QED BY <2>3, <2>4, <2>5
<1>8. Pixels(area) \ covered \subseteq UNION {G[q] : q \in D}
  <2> SUFFICES ASSUME NEW px \in Pixels(area), px \notin covered
               PROVE  \E q \in D : px \in G[q]
    OBVIOUS
  <2>1. ASSUME NEW p \in Paths(l) PROVE px \notin Pixels(RectAt(l, area, p))
    <3> DEFINE s == l.leaf[p]
    <3>1. s \in Sessions(l)
      BY DEF Sessions
    <3>2. PathOf(l, s) = p
      BY <1>2, <3>1 DEF Tree
    <3>3. rects[s] = RectAt(l, area, p) /\ s \in DOMAIN rects
      BY <1>1, <3>1, <3>2
    <3> QED BY <3>3
  <2>2. \E q \in DOMAIN l.split : px \in Gap(RectAt(l, area, q), l.split[q])
    BY <2>1, PaneOrDivider
  <2> QED BY <2>2
<1>9. IsFiniteSet(D) /\ m \in Nat
  BY DEF Tree, Splits, Rect, MostOf
<1> HIDE DEF covered, D, G, m
<1> DEFINE U == UNION {G[q] : q \in D}
<1>10. IsFiniteSet(U) /\ Cardinality(U) <= Cardinality(D) * m
  BY <1>7, <1>9, UnionBound
<1> HIDE DEF U
<1>11. /\ IsFiniteSet(Pixels(area) \ covered)
       /\ Cardinality(Pixels(area) \ covered) <= Cardinality(U)
  BY <1>8, <1>10, FS_Subset DEF U
<1>12. Cardinality(D) \in Nat /\ Cardinality(U) \in Nat /\ Cardinality(Pixels(area) \ covered) \in Nat
  BY <1>9, <1>10, <1>11, FS_CardinalityType
<1>13. Cardinality(Pixels(area) \ covered) <= Cardinality(D) * Divider * m
  <2>1. Cardinality(D) * Divider * m = Cardinality(D) * m
    BY <1>12 DEF Divider
  <2>2. Cardinality(D) * m \in Nat
    BY <1>9, <1>12
  <2> QED BY <1>10, <1>11, <1>12, <2>1, <2>2
<1> QED BY <1>3, <1>6, <1>13 DEF Tiles, rects, covered, D, m

\* The panes of every tab tile the area of the window that has it, however often
\* it was split, its dividers moved and panes closed.
THEOREM PanesAlwaysTile == Spec => []PanesTile
<1>1. TabsInv => PanesTile
  <2> SUFFICES ASSUME TabsInv, NEW w \in Wins, NEW i \in DOMAIN app.wins[w].tabs
               PROVE  Tiles(app.wins[w].tabs[i].root, TerminalArea(app.wins[w]))
    BY DEF PanesTile
  <2> DEFINE win == app.wins[w]
             root == win.tabs[i].root
             area == TerminalArea(win)
  <2>1. WinGood(win)
    BY AtRest
  <2> HIDE DEF win
  <2>2. Tree(root)
    BY <2>1 DEF WinGood, TabsGood, TabGood, win
  <2>3. Rect(area)
    <3>1. win.size \in Nat \X Nat /\ Bar \in Nat /\ BottomPad \in Nat /\ SidebarW \in Nat
      BY <2>1, WinTabsAssumption DEF WinGood
    <3>2. win.size[1] \in Nat /\ win.size[2] \in Nat
      BY <3>1
    <3>3. \A a, b \in Nat : Minus(a, b) \in Nat
      BY DEF Minus, MostOf
    <3> QED BY <3>1, <3>2, <3>3 DEF Rect, TerminalArea
  <2> HIDE DEF root, area
  <2>4. Tiles(root, area)
    BY <2>2, <2>3, TreeTiles
  <2> QED BY <2>4 DEF root, area, win
<1> QED BY <1>1, TabsInvariant, PTL
=============================================================================
