------------------------------ MODULE FoldLaw ------------------------------
(***************************************************************************)
(* What a fold over a sequence computes, for any operator.  A module that  *)
(* proves something about a fold instantiates this one: Op is what the     *)
(* fold does at an element, Inv what it keeps; c is what both may depend   *)
(* on besides.                                                             *)
(***************************************************************************)
EXTENDS Integers, Sequences, SequencesExt, SequenceTheorems,
        WellFoundedInduction, TLAPS

CONSTANTS
    Op(_, _, _),    \* Op(c, v, x): the value after element x, v being the one before
    Inv(_, _, _)    \* Inv(c, k, v): what holds of the value after k elements

\* Every non-empty set of numbers has a least one.
LEMMA NatMin == ASSUME NEW T \in SUBSET Nat, T # {} PROVE \E x \in T : \A y \in T : x <= y
<1> DEFINE R == OpToRel(<, Nat)
<1>1. IsWellFoundedOn(R, Nat)
  BY NatLessThanWellFounded
<1>2. \A x, y \in Nat : <<x, y>> \in R <=> x < y
  BY DEF OpToRel
<1> HIDE DEF R
<1>3. \E x \in T : \A y \in T : ~(<<y, x>> \in R)
  BY <1>1, WFMin
<1>4. PICK x \in T : \A y \in T : ~(<<y, x>> \in R)
  BY <1>3
<1>5. \A y \in T : ~(y < x)
  BY <1>2, <1>4
<1>6. \A y \in T : x <= y
  BY <1>5
<1> QED BY <1>6

\* Induction: a set that has 0 and every successor of its numbers has them all.
LEMMA SetInduction == ASSUME NEW S, 0 \in S, \A n \in Nat : n \in S => n + 1 \in S PROVE Nat \subseteq S
<1> SUFFICES ASSUME Nat \ S # {} PROVE FALSE
  OBVIOUS
<1>1. PICK x \in Nat \ S : \A y \in Nat \ S : x <= y
  BY NatMin
<1>2. x # 0 /\ x - 1 \in Nat
  BY <1>1
<1>3. x - 1 \in S
  BY <1>1, <1>2
<1>4. (x - 1) + 1 \in S
  BY <1>2, <1>3
<1> QED BY <1>1, <1>4

Fold(c, base, seq) == FoldLeft(LAMBDA v, x : Op(c, v, x), base, seq)

\* The function by which folds are defined, on the subsets of the first n indices.
Node(c, g, base, seq, s) == IF s = {} THEN base ELSE Op(c, g[s \ {Max(s)}], seq[Max(s)])
IsIter(c, g, base, seq, n) == g = [s \in SUBSET (1 .. n) |-> Node(c, g, base, seq, s)]

\* There is one, for every n.
LEMMA IterExists ==
  ASSUME NEW c, NEW base, NEW seq, NEW n \in Nat PROVE \E g : IsIter(c, g, base, seq, n)
<1> DEFINE S == {k \in Nat : \E g : IsIter(c, g, base, seq, k)}
<1>1. 0 \in S
  <2> DEFINE g == [s \in SUBSET (1 .. 0) |-> base]
  <2>1. SUBSET (1 .. 0) = {{}}
    OBVIOUS
  <2>2. IsIter(c, g, base, seq, 0)
    BY <2>1 DEF IsIter, Node
  <2> HIDE DEF g
  <2> QED BY <2>2
<1>2. ASSUME NEW k \in Nat, k \in S PROVE k + 1 \in S
  <2>1. PICK g : IsIter(c, g, base, seq, k)
    BY <1>2
  <2> DEFINE h == [s \in SUBSET (1 .. k + 1) |-> IF s \in SUBSET (1 .. k) THEN g[s] ELSE Node(c, g, base, seq, s)]
  <2>2. ASSUME NEW s \in SUBSET (1 .. k + 1) PROVE h[s] = Node(c, h, base, seq, s)
    <3>1. CASE s \in SUBSET (1 .. k)
      <4>1. h[s] = g[s]
        BY <3>1
      <4>2. g[s] = Node(c, g, base, seq, s)
        BY <2>1, <3>1 DEF IsIter
      <4>3. s \ {Max(s)} \in SUBSET (1 .. k) /\ s \ {Max(s)} \in SUBSET (1 .. k + 1)
        BY <3>1
      <4>4. h[s \ {Max(s)}] = g[s \ {Max(s)}]
        BY <4>3
      <4> HIDE DEF h
      <4> QED BY <4>1, <4>2, <4>4 DEF Node
    <3>2. CASE s \notin SUBSET (1 .. k)
      <4>1. h[s] = Node(c, g, base, seq, s)
        BY <3>2
      <4>2. k + 1 \in s /\ \A y \in s : y \in Nat /\ k + 1 >= y
        BY <3>2
      <4>3. Max(s) = k + 1
        <5>1. \A x \in s : (\A y \in s : x >= y) => x = k + 1
          BY <4>2
        <5> QED BY <4>2, <5>1 DEF Max
      <4>4. s \ {Max(s)} \in SUBSET (1 .. k) /\ s \ {Max(s)} \in SUBSET (1 .. k + 1)
        BY <4>3
      <4>5. h[s \ {Max(s)}] = g[s \ {Max(s)}]
        BY <4>4
      <4> HIDE DEF h
      <4> QED BY <4>1, <4>5 DEF Node
    <3> QED BY <3>1, <3>2
  <2>3. IsIter(c, h, base, seq, k + 1)
    <3>1. h = [s \in SUBSET (1 .. k + 1) |-> h[s]]
      OBVIOUS
    <3> HIDE DEF h
    <3> QED BY <2>2, <3>1 DEF IsIter
  <2> HIDE DEF h
  <2> QED BY <2>3
<1>3. Nat \subseteq S
  <2> HIDE DEF S
  <2> QED BY <1>1, <1>2, SetInduction
<1> QED BY <1>3

---------------------------------------------------------------------------

\* The values a fold goes through.
Trace(c, f, base, seq) ==
  /\ f = [k \in 0 .. Len(seq) |-> f[k]] /\ f[0] = base
  /\ \A k \in 1 .. Len(seq) : f[k] = Op(c, f[k - 1], seq[k])

\* A fold is the last of the values it goes through.
LEMMA FoldTrace ==
  ASSUME NEW c, NEW base, NEW seq, Len(seq) \in Nat, DOMAIN seq = 1 .. Len(seq)
  PROVE  \E f : Trace(c, f, base, seq) /\ Fold(c, base, seq) = f[Len(seq)]
<1> DEFINE n == Len(seq)
           it == CHOOSE g : IsIter(c, g, base, seq, n)
<1>1. IsIter(c, it, base, seq, n)
  BY IterExists
<1>2. Fold(c, base, seq) = it[1 .. n]
  BY DEF Fold, FoldLeft, MapThenFoldSet, IsIter, Node
<1> HIDE DEF it
<1> DEFINE f == [k \in 0 .. n |-> it[1 .. k]]
<1>3. f[0] = base
  BY <1>1 DEF IsIter, Node
<1>4. ASSUME NEW k \in 1 .. n PROVE f[k] = Op(c, f[k - 1], seq[k])
  <2>1. Max(1 .. k) = k
    <3>1. k \in 1 .. k /\ \A y \in 1 .. k : k >= y
      OBVIOUS
    <3>2. \A x \in 1 .. k : (\A y \in 1 .. k : x >= y) => x = k
      BY <3>1
    <3> QED BY <3>1, <3>2 DEF Max
  <2>2. 1 .. k \in SUBSET (1 .. n) /\ 1 .. k # {} /\ (1 .. k) \ {k} = 1 .. k - 1
    BY SMTT(20)
  <2>3. it[1 .. k] = Op(c, it[1 .. k - 1], seq[k])
    BY <1>1, <2>1, <2>2 DEF IsIter, Node
  <2> QED BY <2>3
<1> HIDE DEF f
<1>5. f = [k \in 0 .. n |-> f[k]] /\ f[n] = it[1 .. n]
  BY DEF f
<1>6. Trace(c, f, base, seq)
  BY <1>3, <1>4, <1>5 DEF Trace
<1> QED BY <1>2, <1>5, <1>6

\* What the first value has and every step keeps, the result has.
LEMMA FoldKeeps ==
  ASSUME NEW c, NEW base, NEW seq, Len(seq) \in Nat, DOMAIN seq = 1 .. Len(seq),
         Inv(c, 0, base),
         ASSUME NEW v, NEW k \in 1 .. Len(seq), Inv(c, k - 1, v) PROVE Inv(c, k, Op(c, v, seq[k]))
  PROVE  Inv(c, Len(seq), Fold(c, base, seq))
<1>1. PICK f : Trace(c, f, base, seq) /\ Fold(c, base, seq) = f[Len(seq)]
  BY FoldTrace
<1> DEFINE S == {k \in Nat : k <= Len(seq) => Inv(c, k, f[k])}
<1>2. 0 \in S
  BY <1>1 DEF Trace
<1>3. ASSUME NEW k \in Nat, k \in S PROVE k + 1 \in S
  <2> SUFFICES ASSUME k + 1 <= Len(seq) PROVE Inv(c, k + 1, f[k + 1])
    OBVIOUS
  <2>1. k + 1 \in 1 .. Len(seq) /\ k <= Len(seq) /\ (k + 1) - 1 = k
    OBVIOUS
  <2>2. Inv(c, k, f[k])
    BY <1>3, <2>1
  <2>3. f[k + 1] = Op(c, f[k], seq[k + 1])
    BY <1>1, <2>1 DEF Trace
  <2> QED BY <2>1, <2>2, <2>3
<1>4. Nat \subseteq S
  <2> HIDE DEF S
  <2> QED BY <1>2, <1>3, SetInduction
<1> QED BY <1>1, <1>4

---------------------------------------------------------------------------

\* A fold goes through one trace only.
LEMMA OneTrace ==
  ASSUME NEW c, NEW base, NEW seq, Len(seq) \in Nat, NEW f, NEW g,
         Trace(c, f, base, seq), Trace(c, g, base, seq)
  PROVE  f[Len(seq)] = g[Len(seq)]
<1> DEFINE S == {k \in Nat : k <= Len(seq) => f[k] = g[k]}
<1>1. 0 \in S
  BY DEF Trace
<1>2. ASSUME NEW k \in Nat, k \in S PROVE k + 1 \in S
  <2> SUFFICES ASSUME k + 1 <= Len(seq) PROVE f[k + 1] = g[k + 1]
    OBVIOUS
  <2>1. k + 1 \in 1 .. Len(seq) /\ k <= Len(seq) /\ (k + 1) - 1 = k
    OBVIOUS
  <2>2. f[k] = g[k]
    BY <1>2, <2>1
  <2>3. f[k + 1] = Op(c, f[k], seq[k + 1]) /\ g[k + 1] = Op(c, g[k], seq[k + 1])
    BY <2>1 DEF Trace
  <2> QED BY <2>2, <2>3
<1>3. Nat \subseteq S
  <2> HIDE DEF S
  <2> QED BY <1>1, <1>2, SetInduction
<1> QED BY <1>3

\* A fold of its beginning is the value it goes through there.
LEMMA FoldPrefix ==
  ASSUME NEW c, NEW base, NEW T, NEW seq \in Seq(T), NEW k \in 0 .. Len(seq),
         NEW f, Trace(c, f, base, seq)
  PROVE  Fold(c, base, SubSeq(seq, 1, k)) = f[k]
<1> DEFINE n == Len(seq)
           a == SubSeq(seq, 1, k)
           mid == Fold(c, base, a)
           g == [j \in 0 .. k |-> f[j]]
<1>1. n \in Nat /\ DOMAIN seq = 1 .. n /\ k \in Nat /\ k <= n
  OBVIOUS
<1>2. Len(a) = k /\ DOMAIN a = 1 .. k /\ \A i \in 1 .. k : a[i] = seq[i]
  BY <1>1
<1> HIDE DEF n, a
<1>3. PICK h : Trace(c, h, base, a) /\ mid = h[Len(a)]
  BY <1>1, <1>2, FoldTrace
<1>4. Trace(c, g, base, a)
  <2>1. g = [j \in 0 .. Len(a) |-> g[j]] /\ g[0] = base
    BY <1>1, <1>2 DEF Trace
  <2>2. ASSUME NEW j \in 1 .. Len(a) PROVE g[j] = Op(c, g[j - 1], a[j])
    <3>1. j \in 1 .. Len(seq) /\ j \in 0 .. k /\ j - 1 \in 0 .. k /\ a[j] = seq[j]
      BY <1>1, <1>2 DEF n
    <3>2. f[j] = Op(c, f[j - 1], seq[j])
      BY <3>1 DEF Trace
    <3> QED BY <3>1, <3>2
  <2> HIDE DEF g
  <2> QED BY <2>1, <2>2 DEF Trace
<1>5. g[k] = f[k]
  BY <1>1
<1> HIDE DEF g, mid
<1>6. g[Len(a)] = h[Len(a)]
  BY <1>1, <1>2, <1>3, <1>4, OneTrace
<1>7. mid = f[k]
  BY <1>2, <1>3, <1>5, <1>6
<1> QED BY <1>7 DEF mid, a

\* One element more is one step more.
LEMMA FoldStep ==
  ASSUME NEW c, NEW base, NEW T, NEW seq \in Seq(T), NEW k \in 1 .. Len(seq)
  PROVE  Fold(c, base, SubSeq(seq, 1, k)) = Op(c, Fold(c, base, SubSeq(seq, 1, k - 1)), seq[k])
<1>1. Len(seq) \in Nat /\ DOMAIN seq = 1 .. Len(seq) /\ k \in 0 .. Len(seq) /\ k - 1 \in 0 .. Len(seq)
  OBVIOUS
<1>2. PICK f : Trace(c, f, base, seq)
  BY <1>1, FoldTrace
<1> DEFINE j == k - 1
<1>3. Fold(c, base, SubSeq(seq, 1, k)) = f[k]
  BY <1>1, <1>2, FoldPrefix
<1>4. Fold(c, base, SubSeq(seq, 1, j)) = f[j]
  <2> HIDE DEF j
  <2>1. j \in 0 .. Len(seq)
    BY <1>1 DEF j
  <2> QED BY <1>2, <2>1, FoldPrefix
<1>5. f[k] = Op(c, f[j], seq[k])
  BY <1>2 DEF Trace
<1> QED BY <1>3, <1>4, <1>5

\* To fold a sequence is to fold its beginning, and then from there its end.
LEMMA FoldCut ==
  ASSUME NEW c, NEW base, NEW T, NEW seq \in Seq(T), NEW k \in 0 .. Len(seq)
  PROVE  Fold(c, base, seq)
           = Fold(c, Fold(c, base, SubSeq(seq, 1, k)), SubSeq(seq, k + 1, Len(seq)))
<1> DEFINE n == Len(seq)
           a == SubSeq(seq, 1, k)
           b == SubSeq(seq, k + 1, n)
           mid == Fold(c, base, a)
<1>1. n \in Nat /\ DOMAIN seq = 1 .. n /\ k \in Nat /\ k <= n
  OBVIOUS
<1>2. Len(a) = k /\ DOMAIN a = 1 .. k /\ \A i \in 1 .. k : a[i] = seq[i]
  BY <1>1
<1>3. Len(b) = n - k /\ DOMAIN b = 1 .. n - k /\ \A i \in 1 .. n - k : b[i] = seq[k + i]
  <2>1. k + 1 \in Int /\ n \in Int /\ \A i \in k + 1 .. n : seq[i] \in T
    BY <1>1
  <2>2. /\ b \in Seq(T) /\ Len(b) = (IF k + 1 <= n THEN n - (k + 1) + 1 ELSE 0)
        /\ \A i \in 1 .. n - (k + 1) + 1 : b[i] = seq[(k + 1) + i - 1]
    BY <2>1, SubSeqProperties
  <2> HIDE DEF b, n
  <2>3. n - (k + 1) + 1 = n - k /\ \A i \in 1 .. n - k : (k + 1) + i - 1 = k + i
    BY <1>1
  <2> QED BY <1>1, <2>2, <2>3
<1>4. PICK f : Trace(c, f, base, seq) /\ Fold(c, base, seq) = f[n]
  BY <1>1, FoldTrace
<1>5. mid = f[k]
  BY <1>1, <1>4, FoldPrefix
<1> HIDE DEF n, a, b
<1> HIDE DEF mid
<1>6. Fold(c, mid, b) = f[n]
  <2> DEFINE g == [j \in 0 .. n - k |-> f[k + j]]
             m == n - k
  <2>0. m \in Nat /\ k + m = n
    BY <1>1
  <2>1. PICK h : Trace(c, h, mid, b) /\ Fold(c, mid, b) = h[Len(b)]
    BY <1>1, <1>3, <2>0, FoldTrace
  <2>2. Trace(c, g, mid, b)
    <3>1. g = [j \in 0 .. Len(b) |-> g[j]] /\ g[0] = mid
      BY <1>1, <1>3, <1>5, <2>0
    <3>2. ASSUME NEW j \in 1 .. Len(b) PROVE g[j] = Op(c, g[j - 1], b[j])
      <4>1. /\ k + j \in 1 .. Len(seq) /\ j \in 0 .. m /\ j - 1 \in 0 .. m /\ b[j] = seq[k + j]
            /\ (k + j) - 1 = k + (j - 1)
        BY <1>1, <1>3, <2>0 DEF n
      <4>2. f[k + j] = Op(c, f[k + (j - 1)], seq[k + j])
        BY <1>4, <4>1 DEF Trace
      <4> QED BY <4>1, <4>2
    <3> HIDE DEF g
    <3> QED BY <3>1, <3>2 DEF Trace
  <2>3. g[m] = f[n]
    BY <2>0
  <2> HIDE DEF g
  <2>4. g[Len(b)] = h[Len(b)]
    BY SMTT(20), <1>1, <1>3, <2>0, <2>1, <2>2, OneTrace
  <2> QED BY <1>3, <2>1, <2>3, <2>4
<1> QED BY <1>4, <1>6 DEF n, a, b, mid
=============================================================================
