------------------------------ MODULE PtySystem ------------------------------
(***************************************************************************)
(* A terminal process and its wslptyd connection child, joined by the      *)
(* wire: the UI thread, the feed thread and the mux reader on the host,    *)
(* the poll loop and the shells in the distro, either end failing at any   *)
(* time.                                                                   *)
(***************************************************************************)
EXTENDS PaneHost, Wslptyd

vars == <<wireVars, hostVars, daemonVars>>

(* Every variable holds a value of its type; "taken" never runs ahead of   *)
(* the frames the host wrote, queues never exceed their capacity.          *)
TypeOK == WireTypeOK /\ MuxTypeOK /\ OwnerTypeOK /\ DaemonTypeOK

Init == WireInit /\ MuxInit /\ OwnerInit /\ DaemonInit

HostNext ==
  \/ UiOpen /\ UNCHANGED daemonVars
  \/ UiOpenWrite /\ UNCHANGED daemonVars
  \/ UiRegister /\ UNCHANGED daemonVars
  \/ \E i \in Ids, type \in {"DATA", "RESIZE", "SIGNAL"} :
       UiSend(type, i) /\ UNCHANGED daemonVars
  \/ \E i \in Ids : UiClose(i) /\ UNCHANGED daemonVars
  \/ UiCloseRemove /\ UNCHANGED daemonVars
  \/ UiUnregister /\ UNCHANGED daemonVars
  \/ UiQuit /\ UNCHANGED daemonVars
  \/ UiEvent /\ UNCHANGED daemonVars
  \/ UiDrop /\ UNCHANGED daemonVars
  \/ UiDropped /\ UNCHANGED daemonVars
  \/ FeedTake /\ UNCHANGED daemonVars
  \/ FeedEnd /\ UNCHANGED daemonVars
  \/ ReadFrame /\ UNCHANGED <<ownerVars, daemonVars>>
  \/ ReadEnd /\ UNCHANGED <<ownerVars, daemonVars>>
  \/ DrainLive /\ UNCHANGED <<ownerVars, daemonVars>>
  \/ \E i \in Ids : NotifyGone(i) /\ UNCHANGED <<ownerVars, daemonVars>>
  \/ ReaderDone /\ UNCHANGED <<ownerVars, daemonVars>>

DaemonNext ==
  \/ Start /\ UNCHANGED hostVars
  \/ Poll /\ UNCHANGED hostVars
  \/ ReadControl /\ UNCHANGED hostVars
  \/ HandleOpen /\ UNCHANGED hostVars
  \/ HandleData /\ UNCHANGED hostVars
  \/ HandleResize /\ UNCHANGED hostVars
  \/ HandleSignal /\ UNCHANGED hostVars
  \/ HandleClose /\ UNCHANGED hostVars
  \/ FeedDone /\ UNCHANGED hostVars
  \/ \E s \in Slots : Forward(s) /\ UNCHANGED hostVars
  \/ Reap /\ UNCHANGED hostVars
  \/ PassDone /\ UNCHANGED hostVars
  \/ TearDown /\ UNCHANGED hostVars
  \/ DaemonDies /\ UNCHANGED hostVars
  \/ \E i \in Ids : ShellWrite(i) /\ UNCHANGED hostVars
  \/ \E i \in Ids : ShellRead(i) /\ UNCHANGED hostVars
  \/ \E i \in Ids : ShellExit(i) /\ UNCHANGED hostVars
  \/ \E i \in Ids : TtyHang(i) /\ UNCHANGED hostVars

Next == HostNext \/ DaemonNext

Spec == Init /\ [][Next]_vars

(* Threads that can take a step take one: the UI thread finishes what it   *)
(* is doing and serves its events, the reader, the feed thread and the     *)
(* daemon are never starved by the schedulers.  Programs read their input, *)
(* a login shell prints its first prompt, a process that was told to die   *)
(* dies and releases its terminal.  Nothing makes the user act, a program  *)
(* exit or a daemon die.                                                   *)
Fairness ==
  /\ WF_vars(Ui /\ UNCHANGED daemonVars)
  /\ WF_vars(Reader /\ UNCHANGED <<ownerVars, daemonVars>>)
  /\ WF_vars(Feed /\ UNCHANGED daemonVars)
  /\ WF_vars(Daemon /\ UNCHANGED hostVars)
  /\ \A i \in Ids :
       /\ WF_vars(ShellRead(i) /\ UNCHANGED hostVars)
       /\ WF_vars(wrote[i] = 0 /\ ShellWrite(i) /\ UNCHANGED hostVars)
       /\ WF_vars(shell[i] = "doomed" /\ ShellExit(i) /\ UNCHANGED hostVars)
       /\ WF_vars(~Alive(i) /\ TtyHang(i) /\ UNCHANGED hostVars)

FairSpec == Spec /\ Fairness

------------------------------------------------------------------------------
(* Each session is reported ended at most once, whether its shell exits,   *)
(* its pane is closed, the daemon dies, or several of these cross on the   *)
(* wire (T_EXIT removes the id from "live" before the event, the drain     *)
(* reports what is left in "live").                                        *)
ExitOnce == \A i \in Ids : nExit[i] + nGone[i] <= 1

(* A session reported ended produces no more Data: the frames a daemon     *)
(* sends, the reader's drain and a close in flight never put output after  *)
(* the end.                                                                *)
DataBeforeExit ==
  [][\A i \in Ids : nExit[i] + nGone[i] > 0 => nData'[i] = nData[i]]_vars

(* A session that ended by itself was shown completely: when its Exit      *)
(* arrives, every chunk its programs wrote before letting go of the        *)
(* terminal has been delivered (poll reports hang-up and data together,    *)
(* forward_master empties the master before it ends the session).          *)
CompleteOutput ==
  \A i \in eof : nExit[i] > 0 => nData[i] = wrote[i]

(* While the mux is not dead, every session it counts as live has          *)
(* something that will end it: an OPEN on its way, a slot of the daemon,   *)
(* or an EXIT on its way back.  A refused OPEN (no slot, forkpty failure)  *)
(* is answered as well.                                                    *)
LiveIsBacked ==
  \A i \in live :
    \/ dead
    \/ call = [op |-> "openWrite", id |-> i]
    \/ On(toSrv, "OPEN", i)
    \/ Active(i)
    \/ On(toHost, "EXIT", i)
    \/ ~srvUp

(* A pane never outlives its session unnoticed: a pane's session is live,  *)
(* or about to be reported by the drain, or its end is on the channel or   *)
(* in the event queue, or the UI thread is closing it.                     *)
NoDeadPane ==
  app = "run" =>
    \A i \in panes :
      \/ i \in live \cup left
      \/ call.id = i
      \/ On(chan, "EXIT", i) \/ On(chan, "GONE", i)
      \/ On(evq, "SessionExit", i)

(* No shell runs on without a pane: while the connection is up, a session  *)
(* of the daemon has its pane, is being opened or closed by the UI thread, *)
(* has a CLOSE on its way, or is being ended.                              *)
NoLeakedShell ==
  (~dead /\ srvUp) =>
    \A i \in Ids : Active(i) =>
      \/ i \in panes
      \/ call.id = i
      \/ On(toSrv, "CLOSE", i)
      \/ pc = "reap" /\ slot[reap] = i

(* Slots and processes correspond: a session has at most one slot, and a   *)
(* child exists (running or zombie) exactly while its session has one.     *)
ProcessHasSlot ==
  /\ \A s, t \in Slots : slot[s] = slot[t] /\ slot[s] # 0 => s = t
  /\ \A i \in Ids : Active(i) <=> shell[i] \in {"run", "doomed", "zombie"}

------------------------------------------------------------------------------
(* Closing the window ends the process: the UI thread's writes, the drop   *)
(* of the mux and its join of the reader never wait forever.               *)
QuitEnds == (app \in {"closing", "exit"}) ~> (app = "gone")

(* The loss of the daemon reaches the user: once a session was opened, the *)
(* panes close and the process ends.                                       *)
LossEnds == (~srvUp /\ nextId > 0) ~> (app = "gone")

(* A pane the user closed does not leave its shell behind: the CLOSE is    *)
(* carried out and the shell reaped.                                       *)
CloseReaps ==
  \A i \in Ids :
    On(toSrv, "CLOSE", i) ~>
      (shell[i] \in {"reaped", "refused", "orphan"} \/ ~srvUp)

(* When a session's programs have let go of the terminal, its pane goes.   *)
ExitClosesPane ==
  \A i \in Ids :
    (shell[i] = "zombie" /\ tty[i] = "hung") ~> (i \notin panes)

------------------------------------------------------------------------------
(* What the sources say and the code does not do.                          *)

(* "route daemon frames to the shared registry's terminals" (main.rs,      *)
(* spawn_feed_thread): the Data events of a registered session that left   *)
(* the channel were all fed to its terminal.                               *)
FedComplete ==
  \A i \in reg :
    fed[i] + Cardinality({k \in 1..Len(chan) : chan[k] = Frame("DATA", i)})
      = nData[i]

(* "host disconnected: tear down" (wslptyd.c) and "when the last           *)
(* connection closes the listener exits, so nothing lingers"               *)
(* (native/README.md): a connection child whose host is gone ends its      *)
(* sessions and exits.                                                     *)
HostGoneTearsDown == ~hostUp ~> ~srvUp

------------------------------------------------------------------------------
(* The mux implements the back end's promise: a session is open from the   *)
(* moment it has an id, ended or lost from the moment the owner was told.  *)
Phase ==
  [i \in Ids |-> IF nGone[i] > 0 THEN "lost"
                 ELSE IF nExit[i] > 0 THEN "ended"
                 ELSE IF i <= nextId THEN "open" ELSE "new"]

Service == INSTANCE SessionService WITH phase <- Phase, shown <- nData

ServiceSpec == Service!Spec
==============================================================================
