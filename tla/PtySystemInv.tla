---------------------------- MODULE PtySystemInv ----------------------------
(***************************************************************************)
(* The inductive invariant behind the safety of sessions: what the two     *)
(* streams, the daemon's slots, the shells and the mux's sets say about a  *)
(* session never contradict each other.                                    *)
(***************************************************************************)
EXTENDS PtySystem

Told(i) == nExit[i] + nGone[i] > 0

(* An id is handed out before anything mentions it; its OPEN is written at *)
(* most once, and until the daemon handles it the session has no process.  *)
OpenInv ==
  /\ \A i \in Ids : i > nextId => shell[i] = "none"
  /\ call.op = "openWrite" => call.id = nextId /\ shell[nextId] = "none"
  /\ \A k \in 1..Len(toSrv) : toSrv[k].type = "OPEN" =>
       /\ toSrv[k].id <= nextId
       /\ shell[toSrv[k].id] = "none"
       /\ call.op = "openWrite" => call.id # toSrv[k].id
       /\ \A m \in 1..Len(toSrv) :
            toSrv[m].type = "OPEN" /\ m # k => toSrv[m].id # toSrv[k].id

(* A session's process exists exactly while it has its one slot; end_sess  *)
(* waits for the process of an occupied slot.                              *)
SlotInv ==
  /\ ProcessHasSlot
  /\ pc = "reap" => slot[reap] # 0

(* EXIT is the last frame of its session, sent once the process is gone.   *)
ExitInv ==
  /\ \A k \in 1..Len(toHost) :
       toHost[k].type = "EXIT" => shell[toHost[k].id] \in {"reaped", "refused"}
  /\ \A k, m \in 1..Len(toHost) :
       toHost[k].type = "EXIT" /\ k < m => toHost[m].id # toHost[k].id
  /\ \A i \in Ids : nExit[i] > 0 =>
       /\ shell[i] \in {"reaped", "refused"}
       /\ \A k \in 1..Len(toHost) : toHost[k].id # i

(* A session is live, or waiting for the drain to report it, or reported;  *)
(* the drain reports nothing while the reader still reads.                 *)
LiveInv ==
  /\ live \cup left \subseteq 1..nextId
  /\ live \cap left = {}
  /\ rdr \in {"read", "drain"} => left = {}
  /\ \A i \in Ids :
       /\ Told(i) => i <= nextId /\ i \notin live \cup left
       /\ rdr = "read" => nGone[i] = 0
       /\ nExit[i] + nGone[i] <= 1

SessionInv == OpenInv /\ SlotInv /\ ExitInv /\ LiveInv

------------------------------------------------------------------------------
(* Panes, live sessions and shells. *)

(* The host's end of the line is closed, and the reader leaves its loop,   *)
(* only once the mux is dead; while the event loop runs, the channel loses *)
(* its receiver only after the reader is done.                             *)
LineInv ==
  /\ hostUp \/ dead
  /\ rdr # "read" => dead
  /\ app \in {"run", "closing"} => rxUp \/ rdr = "done"

(* An end on its way to the UI thread is one the reader counted.           *)
EndComing(i) ==
  \/ On(chan, "EXIT", i) \/ On(chan, "GONE", i)
  \/ On(evq, "SessionExit", i)

ToldInv == \A i \in Ids : EndComing(i) => Told(i)

(* A session being opened already has what NoDeadPane asks of a pane.      *)
Opening(i) == call.op \in {"openWrite", "opened"} /\ call.id = i

PaneInv ==
  app = "run" =>
    \A i \in Ids :
      Opening(i) \/ (i \in panes /\ call.id # i) =>
        i \in live \cup left \/ EndComing(i)

(* A session whose pane the user closed: its CLOSE is behind its OPEN, or  *)
(* its shell is being waited for, or it has none and will get none.        *)
Closing(i) == call.op \in {"closeRemove", "closed"} /\ call.id = i

CloseComing(i) ==
  \E m \in 1..Len(toSrv) :
    /\ toSrv[m] = Frame("CLOSE", i)
    /\ \A k \in 1..Len(toSrv) : toSrv[k] = Frame("OPEN", i) => k < m

Owned(i) ==
  \/ i \in panes /\ ~Closing(i)
  \/ Opening(i)
  \/ CloseComing(i)
  \/ pc = "reap" /\ slot[reap] = i
  \/ ~Active(i) /\ ~On(toSrv, "OPEN", i)

ShellInv == ~dead /\ srvUp => \A i \in Ids : Owned(i)

OwnerInv == LineInv /\ ToldInv /\ LiveIsBacked /\ PaneInv /\ ShellInv

------------------------------------------------------------------------------
(* Output. *)

Queued(i) == Cardinality({k \in 1..Len(toHost) : toHost[k] = Frame("DATA", i)})

(* What was delivered and what is on its way, out of what was written.     *)
Accounted(i) == nData[i] + Queued(i) + outq[i]

(* The line has lost nothing yet: the daemon was not killed, its writes    *)
(* reach the reader, which reads and delivers.                             *)
Intact == hostUp /\ rxUp /\ rdr = "read" /\ pc # "dead"

(* A terminal belongs to a child and holds output only while it is open;   *)
(* end_sess closes it before it waits.                                     *)
TtyInv ==
  /\ pc = "reap" => tty[slot[reap]] = "none"
  /\ \A i \in Ids :
       /\ tty[i] # "none" => shell[i] \in {"run", "doomed", "zombie"}
       /\ outq[i] > 0 => tty[i] # "none"
       /\ shell[i] = "none" => wrote[i] = 0
       /\ i \in eof => tty[i] = "none" /\ shell[i] # "none"

(* Nothing is delivered that was not written; while the line is intact     *)
(* nothing of a session that holds its terminal or ended by itself is      *)
(* missing; an EXIT that arrives has all of the output before it.          *)
OutputOf(i) ==
  /\ Accounted(i) <= wrote[i]
  /\ Intact /\ (tty[i] # "none" \/ i \in eof) => Accounted(i) = wrote[i]
  /\ rxUp /\ rdr = "read" /\ i \in eof /\ On(toHost, "EXIT", i) =>
       Accounted(i) = wrote[i]

OutputInv == \A i \in Ids : OutputOf(i)

SystemInv ==
  SessionInv /\ OwnerInv /\ TtyInv /\ OutputInv /\ CompleteOutput
=============================================================================
