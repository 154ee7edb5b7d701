-------------------------------- MODULE WslMux --------------------------------
(***************************************************************************)
(* The host's session multiplexer (rust/wslterm-pty/src/mux.rs).           *)
(*                                                                         *)
(* Two threads touch it.  The UI thread, the only caller (the mux is an    *)
(* Rc), opens, writes to, closes and finally drops it; "call" says how far *)
(* its current call has come.  The reader thread turns daemon frames into  *)
(* events on a bounded channel until the stream ends, then reports every   *)
(* session still live as ended.                                            *)
(***************************************************************************)
EXTENDS MuxWire, FiniteSets

CONSTANT ChanBound    (* MUX_CHANNEL_BOUND *)

ASSUME MuxAssumption == ChanBound \in Nat \ {0}

VARIABLES
  nextId,   (* last id handed out                                          *)
  live,     (* Shared.live                                                 *)
  dead,     (* Shared.dead                                                 *)
  call,     (* the UI thread's mux call: its next step and its session     *)
  rdr,      (* reader_loop: "read", "drain", "notify" or "done"            *)
  left,     (* drained sessions not yet reported                           *)
  chan,     (* events in the channel                                       *)
  rxUp,     (* the owner still holds the Receiver                          *)
  nData,    (* history: Data events the owner was sent, per session        *)
  nExit,    (* history: Exit events with the daemon's code, per session    *)
  nGone     (* history: Exit events with code -1, per session              *)

seen       == <<nData, nExit, nGone>>
readerVars == <<rdr, left, chan, rxUp, seen>>
muxVars    == <<nextId, live, dead, call, readerVars>>

(* Exit carries the daemon's exit code, or -1 ("GONE") from the drain. *)
Events == [type: {"DATA", "EXIT", "GONE"}, id: Ids] \cup {Info}

Idle == [op |-> "idle", id |-> 0]

Calls ==
  {Idle} \cup
  [op: {"openWrite", "opened", "closeRemove", "closed"}, id: Ids] \cup
  [op: {"join", "dropped"}, id: {0}]

MuxTypeOK ==
  /\ nextId \in 0..MaxId
  /\ live \subseteq Ids
  /\ dead \in BOOLEAN
  /\ call \in Calls
  /\ rdr \in {"read", "drain", "notify", "done"}
  /\ left \subseteq Ids
  /\ chan \in Seq(Events)
  /\ rxUp \in BOOLEAN
  /\ nData \in [Ids -> Nat]
  /\ nExit \in [Ids -> Nat]
  /\ nGone \in [Ids -> Nat]

MuxInit ==
  /\ nextId = 0
  /\ live = {}
  /\ dead = FALSE
  /\ call = Idle
  /\ rdr = "read"
  /\ left = {}
  /\ chan = <<>>
  /\ rxUp = TRUE
  /\ nData = [i \in Ids |-> 0]
  /\ nExit = [i \in Ids |-> 0]
  /\ nGone = [i \in Ids |-> 0]

------------------------------------------------------------------------------
(* Calls of the UI thread. *)

(* Nothing on a dead mux; a full stream blocks the caller; a write to a    *)
(* daemon that is gone may still be swallowed by the transport before one  *)
(* fails and marks the mux dead.                                           *)
WriteFrame(f) ==
  \/ /\ dead
     /\ UNCHANGED <<toSrv, dead>>
  \/ /\ ~dead
     /\ srvUp
     /\ Len(toSrv) - taken < WireCap
     /\ toSrv' = Append(toSrv, f)
     /\ UNCHANGED dead
  \/ /\ ~dead
     /\ ~srvUp
     /\ dead' \in BOOLEAN
     /\ UNCHANGED toSrv

(* open(): the id is live before its OPEN is written. *)
OpenInsert ==
  /\ call = Idle
  /\ nextId < MaxId
  /\ nextId' = nextId + 1
  /\ live' = live \cup {nextId + 1}
  /\ call' = [op |-> "openWrite", id |-> nextId + 1]
  /\ UNCHANGED <<dead, readerVars, wireVars>>

OpenWrite ==
  /\ call.op = "openWrite"
  /\ WriteFrame(Frame("OPEN", call.id))
  /\ call' = [call EXCEPT !.op = "opened"]
  /\ UNCHANGED <<nextId, live, readerVars, taken, toHost, hostUp, srvUp>>

(* send_data(), send_resize() and send_signal(). *)
SendFrame(type, i) ==
  /\ call = Idle
  /\ WriteFrame(Frame(type, i))
  /\ UNCHANGED <<nextId, live, call, readerVars>>
  /\ UNCHANGED <<taken, toHost, hostUp, srvUp>>

(* Mutant: the id is forgotten without telling the daemon. *)
CloseWriteForgets(i) ==
  /\ call = Idle
  /\ call' = [op |-> "closeRemove", id |-> i]
  /\ UNCHANGED <<nextId, live, dead, readerVars, wireVars>>

(* close(): CLOSE is written, then the id stops being live. *)
CloseWrite(i) ==
  /\ call = Idle
  /\ WriteFrame(Frame("CLOSE", i))
  /\ call' = [op |-> "closeRemove", id |-> i]
  /\ UNCHANGED <<nextId, live, readerVars, taken, toHost, hostUp, srvUp>>

CloseRemove ==
  /\ call.op = "closeRemove"
  /\ live' = live \ {call.id}
  /\ call' = [call EXCEPT !.op = "closed"]
  /\ UNCHANGED <<nextId, dead, readerVars, wireVars>>

(* Mutant: the join waits for a reader nobody wakes. *)
DropTeardownKeepsLine ==
  /\ call = Idle
  /\ dead' = TRUE
  /\ call' = [op |-> "join", id |-> 0]
  /\ UNCHANGED <<nextId, live, readerVars, wireVars>>

(* drop(): mark dead, tear the transport down, join the reader. *)
DropTeardown ==
  /\ call = Idle
  /\ dead' = TRUE
  /\ hostUp' = FALSE
  /\ call' = [op |-> "join", id |-> 0]
  /\ UNCHANGED <<nextId, live, readerVars>>
  /\ UNCHANGED <<toSrv, taken, toHost, srvUp>>

DropJoin ==
  /\ call.op = "join"
  /\ rdr = "done"
  /\ call' = [call EXCEPT !.op = "dropped"]
  /\ UNCHANGED <<nextId, live, dead, readerVars, wireVars>>

------------------------------------------------------------------------------
(* The reader thread. *)

(* tx.send blocks while the channel is full and fails once the owner has   *)
(* dropped the Receiver.                                                   *)
CanSend == Len(chan) < ChanBound \/ ~rxUp

Counted(n, type, ev) ==
  IF rxUp /\ ev.type = type THEN [n EXCEPT ![ev.id] = @ + 1] ELSE n

TxSend(ev) ==
  /\ CanSend
  /\ chan' = IF rxUp THEN Append(chan, ev) ELSE chan
  /\ nData' = Counted(nData, "DATA", ev)
  /\ nExit' = Counted(nExit, "EXIT", ev)
  /\ nGone' = Counted(nGone, "GONE", ev)

(* Mutant: an EXIT does not take its session out of "live". *)
ReadFrameKeepsLive ==
  /\ rdr = "read"
  /\ toHost # <<>>
  /\ toHost' = Tail(toHost)
  /\ TxSend(Head(toHost))
  /\ UNCHANGED <<nextId, live, dead, call, rdr, left, rxUp>>
  /\ UNCHANGED <<toSrv, taken, hostUp, srvUp>>

(* A DATA or INFO frame nobody can receive ends the loop; after an EXIT    *)
(* the result of the send is ignored.                                      *)
ReadFrame ==
  /\ rdr = "read"
  /\ toHost # <<>>
  /\ toHost' = Tail(toHost)
  /\ TxSend(Head(toHost))
  /\ IF Head(toHost).type = "EXIT"
       THEN /\ live' = live \ {Head(toHost).id}
            /\ UNCHANGED <<rdr, dead>>
       ELSE /\ IF rxUp THEN UNCHANGED <<rdr, dead>>
                       ELSE rdr' = "drain" /\ dead' = TRUE
            /\ UNCHANGED live
  /\ UNCHANGED <<nextId, call, left, rxUp, toSrv, taken, hostUp, srvUp>>

(* Mutant: end of file from the daemon is taken for "no data yet". *)
ReadEndOnDrop ==
  /\ rdr = "read"
  /\ ~hostUp
  /\ dead' = TRUE
  /\ rdr' = "drain"
  /\ toHost' = <<>>
  /\ UNCHANGED <<nextId, live, call, left, chan, rxUp, seen>>
  /\ UNCHANGED <<toSrv, taken, hostUp, srvUp>>

(* End of file once the daemon's frames are read, or a read error at any   *)
(* time after either end closed the connection.                            *)
ReadEnd ==
  /\ rdr = "read"
  /\ ~hostUp \/ ~srvUp
  /\ dead' = TRUE
  /\ rdr' = "drain"
  /\ toHost' = <<>>
  /\ UNCHANGED <<nextId, live, call, left, chan, rxUp, seen>>
  /\ UNCHANGED <<toSrv, taken, hostUp, srvUp>>

(* Mutant: the sessions still live are dropped without a word. *)
DrainLiveForgets ==
  /\ rdr = "drain"
  /\ live' = {}
  /\ rdr' = "notify"
  /\ UNCHANGED <<nextId, dead, call, left, chan, rxUp, seen, wireVars>>

(* The ids still live are taken out of "live" in one step. *)
DrainLive ==
  /\ rdr = "drain"
  /\ left' = live
  /\ live' = {}
  /\ rdr' = "notify"
  /\ UNCHANGED <<nextId, dead, call, chan, rxUp, seen, wireVars>>

NotifyGone(i) ==
  /\ rdr = "notify"
  /\ i \in left
  /\ TxSend(Frame("GONE", i))
  /\ left' = left \ {i}
  /\ UNCHANGED <<nextId, live, dead, call, rdr, rxUp, wireVars>>

ReaderDone ==
  /\ rdr = "notify"
  /\ left = {}
  /\ rdr' = "done"
  /\ UNCHANGED <<nextId, live, dead, call, left, chan, rxUp, seen, wireVars>>

Reader ==
  \/ ReadFrame
  \/ ReadEnd
  \/ DrainLive
  \/ \E i \in Ids : NotifyGone(i)
  \/ ReaderDone
==============================================================================
