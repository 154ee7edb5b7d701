------------------------ MODULE WslptydListenerProofs ------------------------
(***************************************************************************)
(* The count of the listener covers its children, for every number of      *)
(* connections and whether or not fork() fails, and so the automatic exit  *)
(* finds no child and no counted connection: what it can abandon is the    *)
(* one connection that was accepted and is not counted yet.                *)
(***************************************************************************)
EXTENDS WslptydListener, FiniteSetTheorems, TLAPS

(* The type of g_active rests on the count: a decrement that loaded 0      *)
(* would store -1.                                                         *)
CountInv == ListenerTypeOK /\ CountCovers

(* The children are finitely many, so counting them makes sense.           *)
LEMMA ChildrenFinite ==
  IsFiniteSet(Children) /\ Cardinality(Children) \in Nat
<1>1. Children \subseteq Conns
  BY DEF Children, Having
<1> QED
  BY <1>1, ListenerAssumption, FS_Subset, FS_CardinalityType

(* A forked child adds one. *)
LEMMA ChildForked ==
  ASSUME ListenerTypeOK, NEW c \in Conns, conn[c] = "accepted",
         conn' = [conn EXCEPT ![c] = "served"]
  PROVE  Cardinality(Children') = Cardinality(Children) + 1
<1>1. Children' = Children \cup {c}
  BY DEF ListenerTypeOK, Children, Having
<1>2. c \notin Children
  BY DEF Children, Having
<1> QED
  BY <1>1, <1>2, ChildrenFinite, FS_AddElement

(* waitpid() takes one away. *)
LEMMA ChildReaped ==
  ASSUME ListenerTypeOK, NEW c \in Conns, conn[c] = "zombie",
         conn' = [conn EXCEPT ![c] = "over"]
  PROVE  Cardinality(Children) >= 1
         /\ Cardinality(Children') = Cardinality(Children) - 1
<1>1. Children' = Children \ {c}
  BY DEF ListenerTypeOK, Children, Having
<1>2. c \in Children
  BY DEF Children, Having
<1>3. Cardinality(Children') = Cardinality(Children) - 1
  BY <1>1, <1>2, ChildrenFinite, FS_RemoveElement
<1>4. IsFiniteSet(Children') /\ Cardinality(Children') \in Nat
  BY <1>1, ChildrenFinite, FS_RemoveElement, FS_CardinalityType
<1> QED
  BY <1>3, <1>4, ChildrenFinite

(* There is no child and none is counted.                                  *)
LEMMA CountInvInit == Init => CountInv
<1> SUFFICES ASSUME Init PROVE CountInv
  OBVIOUS
<1>1. ListenerTypeOK
  BY DEF Init, ListenerTypeOK, ConnStates, Ended
<1>2. Children = {}
  BY DEF Init, Children, Having
<1>3. CountCovers
  BY <1>2, FS_EmptySet DEF Init, CountCovers, Counted
<1> QED
  BY <1>1, <1>3 DEF CountInv

(* A step that leaves the loop, the counters and the set of children as    *)
(* they are keeps the invariant.                                           *)
LEMMA CountInvKept ==
  ASSUME CountInv, ListenerTypeOK', Children' = Children,
         lpc' = lpc, active' = active, reg' = reg
  PROVE  CountInv'
BY DEF CountInv, CountCovers, Counted, Up

(* A listener that ended counts nothing any more.                          *)
LEMMA EndedKeeps ==
  ASSUME ListenerTypeOK', lpc' \in Ended
  PROVE  CountInv'
BY DEF CountInv, CountCovers, Up

(* However the listener leaves, CountInv holds after it.                   *)
LEMMA LeaveKeeps ==
  ASSUME CountInv, NEW how \in Ended, Leave(how)
  PROVE  CountInv'
<1>1. ListenerTypeOK'
  BY DEF CountInv, ListenerTypeOK, Leave, ConnStates
<1> QED
  BY <1>1, EndedKeeps DEF Leave

(* Every step of a listener, a child and a client keeps CountInv.          *)
LEMMA CountInvNext == CountInv /\ [Next]_lvars => CountInv'
<1> SUFFICES ASSUME CountInv, [Next]_lvars PROVE CountInv'
  OBVIOUS
<1>a. ListenerTypeOK /\ CountCovers
  BY DEF CountInv
<1>b. Cardinality(Children) \in Nat
  BY ChildrenFinite
<1>1. ASSUME NEW c \in Conns, Connect(c) PROVE CountInv'
  <2>1. ListenerTypeOK'
    BY <1>1, <1>a DEF ListenerTypeOK, Connect, ConnStates
  <2>2. Children' = Children
    BY <1>1, <1>a DEF ListenerTypeOK, Connect, Children, Having
  <2> QED
    BY <1>1, <2>1, <2>2, CountInvKept DEF Connect
<1>2. ASSUME NEW c \in Conns, ChildEnds(c) PROVE CountInv'
  <2>1. ListenerTypeOK'
    BY <1>2, <1>a DEF ListenerTypeOK, ChildEnds, ConnStates, Up
  <2>2. CASE Up
    <3>1. Children' = Children
      BY <1>2, <1>a, <2>2 DEF ListenerTypeOK, ChildEnds, Children, Having
    <3> QED
      BY <1>2, <2>1, <3>1, CountInvKept DEF ChildEnds
  <2>3. CASE ~Up
    BY <1>2, <2>1, <2>3, EndedKeeps DEF ChildEnds, Up
  <2> QED
    BY <2>2, <2>3
<1>3. ASSUME NEW c \in Conns, Accept(c) PROVE CountInv'
  <2>1. ListenerTypeOK'
    BY <1>3, <1>a DEF ListenerTypeOK, Accept, ConnStates
  <2>2. Children' = Children
    BY <1>3, <1>a DEF ListenerTypeOK, Accept, Children, Having
  <2> QED
    BY <1>3, <1>a, <2>1, <2>2
    DEF Accept, Running, CountInv, CountCovers, Counted, Up, Ended
<1>4. CASE Load
  <2>1. ListenerTypeOK'
    BY <1>4, <1>a DEF ListenerTypeOK, Load
  <2>2. Children' = Children
    BY <1>4 DEF Load, Children, Having
  <2> QED
    BY <1>4, <1>a, <1>b, <2>1, <2>2
    DEF Load, Running, CountInv, CountCovers, Counted, Up, Ended,
        ListenerTypeOK
<1>5. CASE Store
  <2>1. ListenerTypeOK'
    BY <1>5, <1>a DEF ListenerTypeOK, Store
  <2>2. Children' = Children
    BY <1>5 DEF Store, Children, Having
  <2> QED
    BY <1>5, <1>a, <1>b, <2>1, <2>2
    DEF Store, Running, CountInv, CountCovers, Counted, Up, Ended, ListenerTypeOK
<1>6. ASSUME NEW c \in Conns, Fork(c) PROVE CountInv'
  <2>1. ListenerTypeOK'
    BY <1>6, <1>a DEF ListenerTypeOK, Fork, ConnStates
  <2>2. active >= Cardinality(Children) + 1 /\ active' = active
    BY <1>6, <1>a DEF Fork, Running, CountCovers, Counted, Up, Ended
  <2>3. CASE conn' = [conn EXCEPT ![c] = "served"] /\ lpc' = "accept"
    <3>1. Cardinality(Children') = Cardinality(Children) + 1
      BY <1>6, <1>a, <2>3, ChildForked DEF Fork
    <3> QED
      BY <1>b, <2>1, <2>2, <2>3, <3>1
      DEF CountInv, CountCovers, Counted, ListenerTypeOK
  <2>4. CASE lpc' = "decload" /\ conn' = conn
    <3>1. Children' = Children
      BY <2>4 DEF Children, Having
    <3> QED
      BY <2>1, <2>2, <2>4, <3>1 DEF CountInv, CountCovers, Counted
  <2> QED
    BY <1>6, <2>3, <2>4 DEF Fork
<1>7. CASE DecLoad
  <2>1. ListenerTypeOK'
    BY <1>7, <1>a DEF ListenerTypeOK, DecLoad
  <2>2. Children' = Children
    BY <1>7 DEF DecLoad, Children, Having
  <2> QED
    BY <1>7, <1>a, <2>1, <2>2
    DEF DecLoad, Running, CountInv, CountCovers, Counted, Up, Ended
<1>8. ASSUME NEW c \in Conns, DecStore(c) PROVE CountInv'
  <2>1. reg >= Cardinality(Children) + 1
    BY <1>8, <1>a DEF DecStore, Running, CountCovers, Up, Ended
  <2>2. active' = reg - 1 /\ active' \in Nat
    BY <1>8, <1>a, <1>b, <2>1 DEF DecStore, ListenerTypeOK
  <2>3. ListenerTypeOK'
    BY <1>8, <1>a, <2>2 DEF ListenerTypeOK, DecStore, ConnStates
  <2>4. Children' = Children
    BY <1>8, <1>a DEF ListenerTypeOK, DecStore, Children, Having
  <2> QED
    BY <1>8, <1>a, <1>b, <2>1, <2>2, <2>3, <2>4
    DEF DecStore, CountInv, CountCovers, Counted, ListenerTypeOK
<1>9. CASE AcceptFails
  BY <1>9, LeaveKeeps DEF AcceptFails, Ended
<1>10. CASE HandlerEnter
  <2>1. ListenerTypeOK'
    BY <1>10, <1>a DEF ListenerTypeOK, HandlerEnter
  <2>2. Children' = Children
    BY <1>10 DEF HandlerEnter, Children, Having
  <2> QED
    BY <1>10, <2>1, <2>2, CountInvKept DEF HandlerEnter
<1>11. ASSUME NEW c \in Conns, HandlerReap(c) PROVE CountInv'
  <2>1. /\ Cardinality(Children) >= 1
        /\ Cardinality(Children') = Cardinality(Children) - 1
    BY <1>11, <1>a, ChildReaped DEF HandlerReap
  <2>2. active' = active - 1 /\ active' \in Nat
    BY <1>11, <1>a, <1>b, <2>1 DEF HandlerReap, CountCovers, Counted, ListenerTypeOK
  <2>3. ListenerTypeOK'
    BY <1>11, <1>a, <2>2 DEF ListenerTypeOK, HandlerReap, ConnStates
  <2> QED
    BY <1>11, <1>a, <1>b, <2>1, <2>2, <2>3
    DEF HandlerReap, CountInv, CountCovers, Counted, Up, ListenerTypeOK
<1>12. CASE HandlerReaped
  <2>1. ListenerTypeOK'
    BY <1>12, <1>a DEF ListenerTypeOK, HandlerReaped
  <2>2. Children' = Children
    BY <1>12 DEF HandlerReaped, Children, Having
  <2> QED
    BY <1>12, <2>1, <2>2, CountInvKept DEF HandlerReaped
<1>13. CASE HandlerLeave
  <2>1. CASE Leave("idle")
    BY <2>1, LeaveKeeps DEF Ended
  <2>2. CASE chld' = "out" /\ UNCHANGED <<lpc, sig, active, reg, conn>>
    <3>1. ListenerTypeOK'
      BY <2>2, <1>a DEF ListenerTypeOK
    <3>2. Children' = Children
      BY <2>2 DEF Children, Having
    <3> QED
      BY <2>2, <3>1, <3>2, CountInvKept
  <2> QED
    BY <1>13, <2>1, <2>2 DEF HandlerLeave
<1>14. CASE Term
  BY <1>14, LeaveKeeps DEF Term, Ended
<1>15. CASE UNCHANGED lvars
  BY <1>15, <1>a
  DEF lvars, CountInv, ListenerTypeOK, CountCovers, Counted, Up, Children, Having
<1> QED
  BY <1>1, <1>2, <1>3, <1>4, <1>5, <1>6, <1>7, <1>8, <1>9, <1>10, <1>11,
     <1>12, <1>13, <1>14, <1>15 DEF Next

(* g_active covers the children in every reachable state, whatever updates *)
(* the SIGCHLD handler crosses.                                            *)
THEOREM CountAlwaysCovers == Spec => []CountCovers
<1>1. CountInv => CountCovers
  BY DEF CountInv
<1> QED
  BY <1>1, CountInvInit, CountInvNext, PTL DEF Spec

------------------------------------------------------------------------------
(* The accept loop has one connection in its hands, from accept() to the   *)
(* fork or the close().                                                    *)
InHand == {"load", "store", "fork", "decload", "decstore"}
OneInHand ==
  /\ \A c, d \in Having("accepted") : c = d
  /\ Having("accepted") # {} => lpc \in InHand

(* No connection is in hand at first.                                      *)
LEMMA OneInHandInit == Init => OneInHand
BY DEF Init, OneInHand, Having

(* Every step of the loop, a child, a client and the handler keeps it.     *)
LEMMA OneInHandNext == ListenerTypeOK /\ OneInHand /\ [Next]_lvars => OneInHand'
<1> SUFFICES ASSUME ListenerTypeOK, OneInHand, [Next]_lvars PROVE OneInHand'
  OBVIOUS
<1>1. ASSUME NEW c \in Conns, Connect(c) \/ ChildEnds(c) \/ HandlerReap(c) PROVE OneInHand'
  <2>1. Having("accepted")' = Having("accepted") /\ lpc' = lpc
    BY <1>1 DEF Connect, ChildEnds, HandlerReap, Having, ListenerTypeOK
  <2> QED
    BY <2>1 DEF OneInHand
<1>2. ASSUME NEW c \in Conns, Accept(c) PROVE OneInHand'
  <2>1. Having("accepted") = {}
    BY <1>2 DEF Accept, Running, OneInHand, InHand
  <2>2. Having("accepted")' = {c} /\ lpc' = "load"
    BY <1>2, <2>1 DEF Accept, Having, ListenerTypeOK
  <2> QED
    BY <2>2 DEF OneInHand, InHand
<1>3. CASE Load \/ Store \/ DecLoad
  <2>1. Having("accepted")' = Having("accepted") /\ lpc' \in InHand
    BY <1>3 DEF Load, Store, DecLoad, Having, InHand
  <2> QED
    BY <2>1 DEF OneInHand
<1>4. ASSUME NEW c \in Conns, Fork(c) PROVE OneInHand'
  <2>1. CASE conn' = [conn EXCEPT ![c] = "served"] /\ lpc' = "accept"
    <3>1. Having("accepted")' = Having("accepted") \ {c}
      BY <2>1 DEF Having, ListenerTypeOK
    <3>2. c \in Having("accepted")
      BY <1>4 DEF Fork, Having
    <3> QED
      BY <3>1, <3>2 DEF OneInHand
  <2>2. CASE lpc' = "decload" /\ conn' = conn
    BY <2>2 DEF OneInHand, Having, InHand
  <2> QED
    BY <1>4, <2>1, <2>2 DEF Fork
<1>5. ASSUME NEW c \in Conns, DecStore(c) PROVE OneInHand'
  <2>1. Having("accepted")' = Having("accepted") \ {c}
    BY <1>5 DEF DecStore, Having, ListenerTypeOK
  <2>2. c \in Having("accepted")
    BY <1>5 DEF DecStore, Having
  <2> QED
    BY <2>1, <2>2 DEF OneInHand
<1>6. ASSUME NEW how \in Ended, Leave(how) PROVE OneInHand'
  <2>1. Having("accepted")' = {}
    BY <1>6 DEF Leave, Having
  <2> QED
    BY <2>1 DEF OneInHand
<1>7. CASE UNCHANGED <<lpc, conn>>
  BY <1>7 DEF OneInHand, Having
<1>8. \/ \E c \in Conns : \/ Connect(c) \/ ChildEnds(c) \/ HandlerReap(c) \/ Accept(c)
                         \/ Fork(c) \/ DecStore(c)
      \/ Load \/ Store \/ DecLoad
      \/ \E how \in Ended : Leave(how)
      \/ UNCHANGED <<lpc, conn>>
  BY DEF Next, lvars, AcceptFails, HandlerEnter, HandlerReaped, HandlerLeave, Term, Ended
<1> QED
  BY <1>1, <1>2, <1>3, <1>4, <1>5, <1>6, <1>7, <1>8

(* The automatic exit leaves no child behind and no counted connection: if *)
(* it leaves one in hand, its g_active++ was not stored.                   *)
THEOREM NeverLeavesAChild == Spec => ExitsIdle
<1>1. ASSUME CountInv, OneInHand, [Next]_lvars, lpc' = "idle", Up
      PROVE  /\ Children = {}
             /\ Having("accepted") # {} => lpc \in {"load", "store"}
  <2>1. Cardinality(Children) \in Nat
    BY ChildrenFinite
  <2>2. active = 0
    BY <1>1
    DEF Next, lvars, Connect, ChildEnds, Accept, Load, Store, Fork, DecLoad,
        DecStore, AcceptFails, HandlerEnter, HandlerReap, HandlerReaped,
        HandlerLeave, Term, Leave, Up, Ended
  <2>3. Cardinality(Children) = 0 /\ ~Counted
    BY <1>1, <2>1, <2>2 DEF CountInv, CountCovers
  <2>4. Children = {}
    BY <2>3, ChildrenFinite, FS_EmptySet
  <2>5. Having("accepted") # {} => lpc \in {"load", "store"}
    BY <1>1, <2>3 DEF OneInHand, InHand, Counted
  <2> QED
    BY <2>4, <2>5
<1>2. CountInv /\ OneInHand /\ [Next]_lvars
      => [lpc' = "idle" /\ Up =>
            /\ Children = {}
            /\ Having("accepted") # {} => lpc \in {"load", "store"}]_lvars
  BY <1>1
<1>3. CountInv /\ OneInHand /\ [Next]_lvars => OneInHand'
  BY OneInHandNext DEF CountInv
<1> QED
  BY <1>2, <1>3, CountInvInit, CountInvNext, OneInHandInit, PTL DEF Spec, ExitsIdle

(* The variables of the accept loop keep their types; that g_active is     *)
(* never negative needs the count: a decrement happens only for a child.   *)
THEOREM ListenerTypeCorrect == Spec => []ListenerTypeOK
<1>1. CountInv => ListenerTypeOK
  BY DEF CountInv
<1> QED
  BY <1>1, CountInvInit, CountInvNext, PTL DEF Spec
==============================================================================
