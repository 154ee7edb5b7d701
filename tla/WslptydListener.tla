--------------------------- MODULE WslptydListener ---------------------------
(***************************************************************************)
(* The listening process of wslptyd (vsock_serve and its signal handlers): *)
(* it accepts connections, forks a child for each, counts the children in  *)
(* g_active and leaves when the count is back at zero.                     *)
(*                                                                         *)
(* The handlers run between any two instructions of the accept loop, so    *)
(* g_active++ is a load and a store (the variable is volatile).  While     *)
(* on_chld runs, the accept loop stands still and SIGCHLD is only noted.   *)
(***************************************************************************)
EXTENDS Naturals, FiniteSets

CONSTANTS
  Conns,        (* bound of the model: the connections that are ever made  *)
  Backlog,      (* connections that may wait in listen()'s queue           *)
  Persist,      (* --persist                                               *)
  ForkMayFail   (* fork() and accept() can run out of resources            *)

ASSUME ListenerAssumption ==
  /\ IsFiniteSet(Conns)
  /\ Backlog \in Nat \ {0}
  /\ Persist \in BOOLEAN
  /\ ForkMayFail \in BOOLEAN

VARIABLES
  lpc,      (* where the accept loop is, or how the process ended          *)
  chld,     (* on_chld: not running, reaping, or past its loop             *)
  sig,      (* a SIGCHLD is pending                                        *)
  active,   (* g_active                                                    *)
  reg,      (* the value of g_active an update has loaded                  *)
  conn      (* state of a connection                                       *)

lvars == <<lpc, chld, sig, active, reg, conn>>

(* "idle": left by on_chld, "killed": by on_term, "failed": by accept().   *)
Ended == {"idle", "killed", "failed"}
Up    == lpc \notin Ended

(* A connection not made yet, waiting in the backlog, accepted but without *)
(* a child, served by its child, its child exited and not reaped, over,    *)
(* closed because fork failed, or lost with the listener.                  *)
ConnStates ==
  {"new", "queued", "accepted", "served", "zombie", "over", "refused", "lost"}

Having(state) == {c \in Conns : conn[c] = state}

Children == Having("served") \cup Having("zombie")

(* Every variable holds a value of its type. *)
ListenerTypeOK ==
  /\ lpc \in {"accept", "load", "store", "fork", "decload", "decstore"} \cup Ended
  /\ chld \in {"out", "reap", "check"}
  /\ sig \in BOOLEAN
  /\ active \in Nat
  /\ reg \in Nat
  /\ conn \in [Conns -> ConnStates]

Init ==
  /\ lpc = "accept"
  /\ chld = "out"
  /\ sig = FALSE
  /\ active = 0
  /\ reg = 0
  /\ conn = [c \in Conns |-> "new"]

------------------------------------------------------------------------------
(* The hosts and the children. *)

Connect(c) ==
  /\ conn[c] = "new"
  /\ IF Up THEN Cardinality(Having("queued")) < Backlog ELSE TRUE
  /\ conn' = [conn EXCEPT ![c] = IF Up THEN "queued" ELSE "lost"]
  /\ UNCHANGED <<lpc, chld, sig, active, reg>>

(* run_session_loop() returned in the child; an orphan is reaped by init. *)
ChildEnds(c) ==
  /\ conn[c] = "served"
  /\ conn' = [conn EXCEPT ![c] = IF Up THEN "zombie" ELSE "over"]
  /\ sig' = Up
  /\ UNCHANGED <<lpc, chld, active, reg>>

------------------------------------------------------------------------------
(* The accept loop. *)

Running(at) == lpc = at /\ chld = "out"

Accept(c) ==
  /\ Running("accept")
  /\ conn[c] = "queued"
  /\ conn' = [conn EXCEPT ![c] = "accepted"]
  /\ lpc' = "load"
  /\ UNCHANGED <<chld, sig, active, reg>>

(* g_active++ *)
Load ==
  /\ Running("load")
  /\ reg' = active
  /\ lpc' = "store"
  /\ UNCHANGED <<chld, sig, active, conn>>

(* Mutant: the connection is not counted. *)
StoreForgets ==
  /\ Running("store")
  /\ active' = reg
  /\ lpc' = "fork"
  /\ UNCHANGED <<chld, sig, reg, conn>>

Store ==
  /\ Running("store")
  /\ active' = reg + 1
  /\ lpc' = "fork"
  /\ UNCHANGED <<chld, sig, reg, conn>>

Fork(c) ==
  /\ Running("fork")
  /\ conn[c] = "accepted"
  /\ \/ /\ conn' = [conn EXCEPT ![c] = "served"]
        /\ lpc' = "accept"
     \/ /\ ForkMayFail
        /\ lpc' = "decload"
        /\ UNCHANGED conn
  /\ UNCHANGED <<chld, sig, active, reg>>

(* g_active-- after a failed fork, and close(c). *)
DecLoad ==
  /\ Running("decload")
  /\ reg' = active
  /\ lpc' = "decstore"
  /\ UNCHANGED <<chld, sig, active, conn>>

(* Mutant: the connection is not closed after a failed fork. *)
DecStoreLeaks(c) ==
  /\ Running("decstore")
  /\ conn[c] = "accepted"
  /\ active' = reg - 1
  /\ lpc' = "accept"
  /\ UNCHANGED <<chld, sig, reg, conn>>

DecStore(c) ==
  /\ Running("decstore")
  /\ conn[c] = "accepted"
  /\ active' = reg - 1
  /\ conn' = [conn EXCEPT ![c] = "refused"]
  /\ lpc' = "accept"
  /\ UNCHANGED <<chld, sig, reg>>

(* The process ends: what was not handed to a child is lost with it, the   *)
(* children run on without a parent.                                       *)
Leave(how) ==
  /\ lpc' = how
  /\ chld' = "out"
  /\ sig' = FALSE
  /\ conn' = [c \in Conns |->
                CASE conn[c] \in {"queued", "accepted"} -> "lost"
                  [] conn[c] = "zombie" -> "over"
                  [] OTHER -> conn[c]]
  /\ UNCHANGED <<active, reg>>

(* accept() fails for another reason than a signal. *)
AcceptFails ==
  /\ ForkMayFail
  /\ Running("accept")
  /\ Leave("failed")

------------------------------------------------------------------------------
(* on_chld() and on_term(). *)

HandlerEnter ==
  /\ Up /\ chld = "out" /\ sig
  /\ chld' = "reap"
  /\ sig' = FALSE
  /\ UNCHANGED <<lpc, active, reg, conn>>

HandlerReap(c) ==
  /\ Up /\ chld = "reap"
  /\ conn[c] = "zombie"
  /\ conn' = [conn EXCEPT ![c] = "over"]
  /\ active' = IF active > 0 THEN active - 1 ELSE active
  /\ UNCHANGED <<lpc, chld, sig, reg>>

(* waitpid(-1, WNOHANG) finds nobody; a child may still end before the     *)
(* count is looked at.                                                     *)
HandlerReaped ==
  /\ Up /\ chld = "reap"
  /\ Having("zombie") = {}
  /\ chld' = "check"
  /\ UNCHANGED <<lpc, sig, active, reg, conn>>

(* Mutant: the handler leaves with the last child but one. *)
HandlerLeaveEager ==
  /\ Up /\ chld = "check"
  /\ IF active <= 1 /\ ~Persist
       THEN Leave("idle")
       ELSE chld' = "out" /\ UNCHANGED <<lpc, sig, active, reg, conn>>

HandlerLeave ==
  /\ Up /\ chld = "check"
  /\ IF active = 0 /\ ~Persist
       THEN Leave("idle")
       ELSE chld' = "out" /\ UNCHANGED <<lpc, sig, active, reg, conn>>

Term == Up /\ Leave("killed")

------------------------------------------------------------------------------
Loop ==
  \/ \E c \in Conns : Accept(c) \/ Fork(c) \/ DecStore(c)
  \/ Load \/ Store \/ DecLoad

Handler == HandlerEnter \/ (\E c \in Conns : HandlerReap(c))
           \/ HandlerReaped \/ HandlerLeave

Next ==
  \/ \E c \in Conns : Connect(c)
  \/ \E c \in Conns : ChildEnds(c)
  \/ \E c \in Conns : Accept(c)
  \/ Load
  \/ Store
  \/ \E c \in Conns : Fork(c)
  \/ DecLoad
  \/ \E c \in Conns : DecStore(c)
  \/ AcceptFails
  \/ HandlerEnter
  \/ \E c \in Conns : HandlerReap(c)
  \/ HandlerReaped
  \/ HandlerLeave
  \/ Term

Spec == Init /\ [][Next]_lvars

(* The process is scheduled, and its signals are delivered.  Nobody is     *)
(* made to connect, to disconnect or to stop the daemon.                   *)
Fairness == WF_lvars(Loop) /\ WF_lvars(Handler)

FairSpec == Spec /\ Fairness

------------------------------------------------------------------------------
(* g_active is never below the number of children, not even while an       *)
(* update has loaded it and the handler changes it underneath ("count      *)
(* before fork (SIGCHLD race)"): updates that cross only ever count too    *)
(* many.                                                                   *)
Counted == lpc \in {"fork", "decload", "decstore"}
CountCovers ==
  Up =>
    /\ active >= Cardinality(Children) + (IF Counted THEN 1 ELSE 0)
    /\ lpc = "store" => reg >= Cardinality(Children)
    /\ lpc = "decstore" => reg >= Cardinality(Children) + 1

(* The automatic exit never takes the listener from under a child that     *)
(* still serves its host, and it abandons no connection that was counted:  *)
(* at most the one whose g_active++ is not stored yet (KeepsAccepted).     *)
ExitsIdle ==
  [][lpc' = "idle" /\ Up =>
       /\ Children = {}
       /\ Having("accepted") # {} => lpc \in {"load", "store"}]_lvars

(* A connection does not wait in the backlog, or accepted, forever: it is  *)
(* served, closed, or lost with the listener.                              *)
Answered ==
  \A c \in Conns :
    conn[c] = "queued" ~> conn[c] \notin {"queued", "accepted"}

(* "when the last connection closes the listener exits, so nothing         *)
(* lingers" (native/README.md): once connections were made and all are     *)
(* over, the listener leaves, unless a new one comes.  It fails: a store   *)
(* that overwrites a decrement leaves the count too high for good.         *)
Quiet ==
  /\ Having("over") # {}
  /\ \A c \in Conns : conn[c] \in {"new", "over"}
NothingLingers == (Quiet /\ ~Persist) ~> (~Up \/ ~Quiet)

(* "count before fork (SIGCHLD race)": a connection the listener has       *)
(* accepted keeps it from leaving by itself.  It fails: between accept()   *)
(* and the store the last child may be reaped, the count is zero, and the  *)
(* listener leaves with the connection in its hands.                       *)
KeepsAccepted ==
  [][lpc' = "idle" /\ Up => Having("accepted") = {}]_lvars
==============================================================================
