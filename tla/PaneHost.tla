------------------------------- MODULE PaneHost -------------------------------
(***************************************************************************)
(* The owner of the mux (rust/wslterm/src/main.rs): the UI thread, which   *)
(* opens and closes panes, and the feed thread, which routes mux events to *)
(* the terminals in the registry and posts user events to the UI thread.   *)
(*                                                                         *)
(* One window whose panes are a set; windows, tabs and split trees are the *)
(* subject of modules of their own, and so are the redraw flag and the     *)
(* outbox of terminal responses.                                           *)
(***************************************************************************)
EXTENDS WslMux

CONSTANT MaxIn   (* bound of the model: DATA, RESIZE and SIGNAL frames sent *)

ASSUME HostAssumption == MaxIn \in Nat

VARIABLES
  app,      (* event loop: "run", "closing" its window, "exit"ed, "gone"    *)
  panes,    (* sessions that have a pane                                    *)
  reg,      (* registry: sessions with a terminal the feed thread can find  *)
  evq,      (* user events posted and not yet handled                       *)
  typed,    (* DATA, RESIZE and SIGNAL frames sent so far                   *)
  fed       (* history: Data events fed to the session's terminal           *)

ownerVars == <<app, panes, reg, evq, typed, fed>>
hostVars  == <<muxVars, ownerVars>>

UserEvents == [type: {"SessionExit"}, id: Ids] \cup
              [type: {"Distro", "Closed"}, id: {0}]

OwnerTypeOK ==
  /\ app \in {"run", "closing", "exit", "gone"}
  /\ panes \subseteq Ids
  /\ reg \subseteq Ids
  /\ evq \in Seq(UserEvents)
  /\ typed \in 0..MaxIn
  /\ fed \in [Ids -> Nat]

OwnerInit ==
  /\ app = "run"
  /\ panes = {}
  /\ reg = {}
  /\ evq = <<>>
  /\ typed = 0
  /\ fed = [i \in Ids |-> 0]

------------------------------------------------------------------------------
(* The UI thread.  A handler runs to its end before the next event. *)

(* open_session() and the pane it is for: the first tab, a tab, a split. *)
UiOpen ==
  /\ app = "run"
  /\ nextId = 0 \/ panes # {}
  /\ OpenInsert
  /\ UNCHANGED ownerVars

UiOpenWrite == OpenWrite /\ UNCHANGED ownerVars

(* The terminal is registered after mux.open() returned. *)
UiRegister ==
  /\ call.op = "opened"
  /\ reg' = reg \cup {call.id}
  /\ panes' = panes \cup {call.id}
  /\ call' = Idle
  /\ UNCHANGED <<nextId, live, dead, readerVars>>
  /\ UNCHANGED <<app, evq, typed, fed, wireVars>>

(* Keys, pastes, mouse reports and reflow go to a pane's session; the      *)
(* responses its terminal left in the outbox also after the pane is gone.  *)
(* SIGNAL is offered by the mux and sent by nobody yet.                    *)
UiSend(type, i) ==
  /\ app = "run"
  /\ i \in panes \/ (type = "DATA" /\ fed[i] > 0)
  /\ typed < MaxIn
  /\ SendFrame(type, i)
  /\ typed' = typed + 1
  /\ UNCHANGED <<app, panes, reg, evq, fed>>

(* close_session(i, exited = false), close_whole_tab(), and, once the      *)
(* window is closing, close_all_sessions().                                *)
UiClose(i) ==
  /\ app \in {"run", "closing"}
  /\ i \in panes
  /\ CloseWrite(i)
  /\ UNCHANGED ownerVars

UiCloseRemove == CloseRemove /\ UNCHANGED ownerVars

(* The pane leaves the window; the window goes with its last pane, and     *)
(* reconcile() ends the event loop with the last window.                   *)
RemovePane(i) ==
  /\ reg' = reg \ {i}
  /\ panes' = panes \ {i}
  /\ app' = IF panes \subseteq {i} THEN "exit" ELSE app

UiUnregister ==
  /\ call.op = "closed"
  /\ RemovePane(call.id)
  /\ call' = Idle
  /\ UNCHANGED <<nextId, live, dead, readerVars>>
  /\ UNCHANGED <<evq, typed, fed, wireVars>>

(* CloseRequested: close every session, then drop the window. *)
UiQuit ==
  /\ app = "run"
  /\ call = Idle
  /\ panes # {}
  /\ app' = "closing"
  /\ UNCHANGED <<panes, reg, evq, typed, fed, muxVars, wireVars>>

(* user_event(): SessionExit closes the pane the session still has. *)
UiEvent ==
  /\ app = "run"
  /\ call = Idle
  /\ evq # <<>>
  /\ evq' = Tail(evq)
  /\ \/ /\ Head(evq).type = "SessionExit"
        /\ IF Head(evq).id \in panes
             THEN RemovePane(Head(evq).id)
             ELSE UNCHANGED <<app, panes, reg>>
     \/ /\ Head(evq).type = "Distro"
        /\ UNCHANGED <<app, panes, reg>>
     \/ /\ Head(evq).type = "Closed"
        /\ app' = "exit"
        /\ UNCHANGED <<panes, reg>>
  /\ UNCHANGED <<typed, fed, muxVars, wireVars>>

(* run_app() has returned and with it the event loop and its queue;        *)
(* dropping App drops the last Rc of the mux.                              *)
UiDrop ==
  /\ app = "exit"
  /\ DropTeardown
  /\ evq' = <<>>
  /\ UNCHANGED <<app, panes, reg, typed, fed>>

UiDropped ==
  /\ DropJoin
  /\ app' = "gone"
  /\ UNCHANGED <<panes, reg, evq, typed, fed>>

------------------------------------------------------------------------------
(* The feed thread. *)

(* send_event() fails once the event loop is gone. *)
Post(type, i) ==
  evq' = IF app \in {"run", "closing"} THEN Append(evq, Frame(type, i))
                                       ELSE evq

(* Data of a session that is not in the registry is dropped.  When the     *)
(* event loop is gone the thread gives up after the batch.                 *)
FeedTake ==
  LET ev == Head(chan) IN
  /\ rxUp
  /\ app # "gone"
  /\ chan # <<>>
  /\ \/ /\ ev.type = "DATA"
        /\ fed' = IF ev.id \in reg THEN [fed EXCEPT ![ev.id] = @ + 1] ELSE fed
        /\ UNCHANGED evq
     \/ /\ ev.type \in {"EXIT", "GONE"}
        /\ Post("SessionExit", ev.id)
        /\ UNCHANGED fed
     \/ /\ ev.type = "INFO"
        /\ Post("Distro", 0)
        /\ UNCHANGED fed
  /\ \/ chan' = Tail(chan) /\ rxUp' = TRUE
     \/ app = "exit" /\ chan' = <<>> /\ rxUp' = FALSE
  /\ UNCHANGED <<nextId, live, dead, call, rdr, left, seen, wireVars>>
  /\ UNCHANGED <<app, panes, reg, typed>>

(* recv() fails once the reader is done and the channel is empty. *)
FeedEnd ==
  /\ rxUp
  /\ app # "gone"
  /\ rdr = "done"
  /\ chan = <<>>
  /\ rxUp' = FALSE
  /\ Post("Closed", 0)
  /\ UNCHANGED <<nextId, live, dead, call, rdr, left, chan, seen>>
  /\ UNCHANGED <<app, panes, reg, typed, fed, wireVars>>

(* What the UI thread does without the user. *)
Ui ==
  \/ UiOpenWrite \/ UiRegister \/ UiCloseRemove \/ UiUnregister
  \/ UiEvent \/ UiDrop \/ UiDropped
  \/ app = "closing" /\ \E i \in Ids : UiClose(i)

Feed == FeedTake \/ FeedEnd
==============================================================================
