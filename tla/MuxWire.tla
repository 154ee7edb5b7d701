------------------------------- MODULE MuxWire -------------------------------
(***************************************************************************)
(* The connection between a terminal process and its wslptyd connection    *)
(* child: two byte streams of length-prefixed frames                       *)
(* [u32 session][u8 type][u32 len][payload]  (protocol.rs, wslptyd.c).     *)
(*                                                                         *)
(* A stream is the sequence of the frames written to it and not yet        *)
(* handled.  A frame keeps its type and its session; its payload is left   *)
(* out (a DATA frame is one chunk of terminal bytes).  A reader that finds *)
(* only part of a frame keeps the part and reads on (feed_stdin, read_full *)
(* of protocol.rs), so a stream moves by whole frames; a frame cut by a    *)
(* broken connection is a frame lost.                                      *)
(***************************************************************************)
EXTENDS Naturals, Sequences

CONSTANTS
  MaxId,    (* bound of the model: the sessions a run opens are 1..MaxId   *)
  WireCap   (* frames a stream buffers before its writer blocks            *)

ASSUME WireAssumption ==
  /\ MaxId \in Nat \ {0}
  /\ WireCap \in Nat \ {0}

VARIABLES
  toSrv,    (* host -> daemon frames the daemon has not handled            *)
  taken,    (* how many of them the daemon has already read into g_buf     *)
  toHost,   (* daemon -> host frames the mux reader has not handled        *)
  hostUp,   (* the host's end of the connection is open                    *)
  srvUp     (* the daemon's end is open (its process runs)                 *)

wireVars == <<toSrv, taken, toHost, hostUp, srvUp>>

Ids == 1..MaxId

(* Session 0 carries the INFO frame only. *)
Info == [type |-> "INFO", id |-> 0]

HostFrames == [type: {"OPEN", "DATA", "RESIZE", "SIGNAL", "CLOSE"}, id: Ids]
SrvFrames  == [type: {"DATA", "EXIT"}, id: Ids] \cup {Info}

Frame(type, id) == [type |-> type, id |-> id]

WireTypeOK ==
  /\ toSrv \in Seq(HostFrames)
  /\ taken \in 0..Len(toSrv)
  /\ toHost \in Seq(SrvFrames)
  /\ hostUp \in BOOLEAN
  /\ srvUp \in BOOLEAN

WireInit ==
  /\ toSrv = <<>>
  /\ taken = 0
  /\ toHost = <<>>
  /\ hostUp = TRUE
  /\ srvUp = TRUE

(* The frames of session i that are on a stream. *)
On(stream, type, i) == \E k \in 1..Len(stream) : stream[k] = Frame(type, i)
==============================================================================
