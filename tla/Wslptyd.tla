------------------------------- MODULE Wslptyd -------------------------------
(***************************************************************************)
(* One connection child of the PTY server (native/wslptyd.c): the poll     *)
(* loop of run_session_loop over the control stream and the PTY masters,   *)
(* and the shells behind the masters.                                      *)
(*                                                                         *)
(* The process has one thread.  A call that would block (writing to a full *)
(* PTY or a full connection, reading a master with nothing to read, waitpid*)
(* for a process that runs on) is an action that stays disabled: nothing   *)
(* else of the daemon happens until it is enabled.                         *)
(***************************************************************************)
EXTENDS MuxWire

CONSTANTS
  MaxSess,  (* MAX_SESS: slots of g_sess                                   *)
  InCap,    (* chunks a PTY's input queue holds                            *)
  OutCap,   (* chunks a PTY's output queue holds                           *)
  MaxOut,   (* bound of the model: chunks one session's programs write     *)
  Named,    (* the distro's name is known (g_distro)                       *)
  Filter,   (* programs answer each chunk they read before reading the next*)
  Stubborn  (* programs may ignore SIGHUP or drop the terminal and run on  *)

ASSUME DaemonAssumption ==
  /\ MaxSess \in Nat \ {0}
  /\ InCap \in Nat \ {0}
  /\ OutCap \in Nat \ {0}
  /\ MaxOut \in Nat
  /\ Named \in BOOLEAN
  /\ Filter \in BOOLEAN
  /\ Stubborn \in BOOLEAN

VARIABLES
  pc,       (* where the loop is                                           *)
  slot,     (* g_sess: session of an active slot, 0 for a free one         *)
  ctl,      (* poll reported the control stream                            *)
  ready,    (* slots poll reported and the pass has not reached            *)
  gone,     (* host_gone                                                   *)
  reap,     (* slot whose end_sess is in waitpid                           *)
  back,     (* where end_sess returns to                                   *)
  shell,    (* the process of a session                                    *)
  tty,      (* the PTY: none, slave held open by a program, or hung up     *)
  inq,      (* input chunks queued in the PTY                              *)
  outq,     (* output chunks queued in the PTY                             *)
  wrote,    (* history: output chunks written by the session's programs    *)
  eof       (* history: sessions that ended because their output ended     *)

daemonVars == <<pc, slot, ctl, ready, gone, reap, back, shell, tty, inq, outq,
                wrote, eof>>
ptyVars    == <<shell, tty, inq, outq, wrote>>

Slots == 1..MaxSess

(* A session's process: not forked, running, told to hang up and about to  *)
(* exit, exited but not waited for, waited for, never forked because the   *)
(* daemon refused the session, or outliving a daemon that was killed.      *)
Procs == {"none", "run", "doomed", "zombie", "reaped", "refused", "orphan"}

DaemonTypeOK ==
  /\ pc \in {"start", "poll", "ctl", "feed", "scan", "reap", "teardown",
             "done", "dead"}
  /\ slot \in [Slots -> 0..MaxId]
  /\ ctl \in BOOLEAN
  /\ ready \subseteq Slots
  /\ gone \in BOOLEAN
  /\ reap \in Slots
  /\ back \in {"feed", "scan", "teardown"}
  /\ shell \in [Ids -> Procs]
  /\ tty \in [Ids -> {"none", "open", "hung"}]
  /\ inq \in [Ids -> 0..InCap]
  /\ outq \in [Ids -> 0..OutCap]
  /\ wrote \in [Ids -> Nat]
  /\ eof \subseteq Ids

DaemonInit ==
  /\ pc = "start"
  /\ slot = [s \in Slots |-> 0]
  /\ ctl = FALSE
  /\ ready = {}
  /\ gone = FALSE
  /\ reap = 1
  /\ back = "feed"
  /\ shell = [i \in Ids |-> "none"]
  /\ tty = [i \in Ids |-> "none"]
  /\ inq = [i \in Ids |-> 0]
  /\ outq = [i \in Ids |-> 0]
  /\ wrote = [i \in Ids |-> 0]
  /\ eof = {}

Active(i) == \E s \in Slots : slot[s] = i
FreeSlots == {s \in Slots : slot[s] = 0}
Lowest(s, S) == s \in S /\ \A r \in S : s <= r

------------------------------------------------------------------------------
(* send_frame() blocks while the stream is full; after the host closed the *)
(* connection the write fails and the frame is lost.                       *)
Send(f) ==
  \/ /\ hostUp
     /\ Len(toHost) < WireCap
     /\ toHost' = Append(toHost, f)
  \/ /\ ~hostUp
     /\ UNCHANGED toHost

(* INFO goes out first when the distro's name is known. *)
Start ==
  /\ pc = "start"
  /\ IF Named THEN Send(Info) ELSE UNCHANGED toHost
  /\ pc' = "poll"
  /\ UNCHANGED <<slot, ctl, ready, gone, reap, back, eof, ptyVars>>
  /\ UNCHANGED <<toSrv, taken, hostUp, srvUp>>

(* What poll() reports: host data or hang-up, and every active master with *)
(* output queued or its slave side closed.                                 *)
CtlReady == toSrv # <<>> \/ ~hostUp
(* Mutant: only POLLIN counts, a hang-up does not. *)
MasterReadyDataOnly(s) == slot[s] # 0 /\ outq[slot[s]] > 0

MasterReady(s) == slot[s] # 0 /\ (outq[slot[s]] > 0 \/ tty[slot[s]] = "hung")

Poll ==
  /\ pc = "poll"
  /\ CtlReady \/ \E s \in Slots : MasterReady(s)
  /\ ctl' = CtlReady
  /\ ready' = {s \in Slots : MasterReady(s)}
  /\ pc' = IF CtlReady THEN "ctl" ELSE "scan"
  /\ UNCHANGED <<slot, gone, reap, back, eof, ptyVars, wireVars>>

(* read() of the control stream returns what is there, up to its buffer;   *)
(* it returns 0 once the host has closed and everything was read.          *)
ReadControl ==
  /\ pc = "ctl"
  /\ IF toSrv # <<>>
       THEN /\ taken' \in 1..Len(toSrv)
            /\ pc' = "feed"
            /\ UNCHANGED gone
       ELSE /\ gone' = TRUE
            /\ pc' = "scan"
            /\ UNCHANGED taken
  /\ ctl' = FALSE
  /\ UNCHANGED <<slot, ready, reap, back, eof, ptyVars>>
  /\ UNCHANGED <<toSrv, toHost, hostUp, srvUp>>

------------------------------------------------------------------------------
(* feed_stdin(): the frames read are handled in order, one action each. *)

Next1(type) == pc = "feed" /\ taken > 0 /\ Head(toSrv).type = type

(* Mutant: the frame is dropped from g_buf but not from its length. *)
ConsumeKeepsTaken ==
  /\ toSrv' = Tail(toSrv)
  /\ UNCHANGED taken

Consume ==
  /\ toSrv' = Tail(toSrv)
  /\ taken' = taken - 1

(* Mutant: a session that cannot be opened is refused without an EXIT. *)
HandleOpenSilent ==
  LET i == Head(toSrv).id IN
  /\ Next1("OPEN")
  /\ Consume
  /\ \/ /\ ~Active(i)
        /\ shell' = [shell EXCEPT ![i] = "refused"]
        /\ UNCHANGED <<slot, tty, inq, outq, wrote>>
     \/ /\ ~Active(i)
        /\ \E s \in Slots : /\ Lowest(s, FreeSlots)
                           /\ slot' = [slot EXCEPT ![s] = i]
        /\ shell' = [shell EXCEPT ![i] = "run"]
        /\ tty' = [tty EXCEPT ![i] = "open"]
        /\ UNCHANGED <<inq, outq, wrote>>
  /\ UNCHANGED <<pc, ctl, ready, gone, reap, back, eof>>
  /\ UNCHANGED <<toHost, hostUp, srvUp>>

(* open_sess(): the first free slot takes the new session's PTY. *)
HandleOpen ==
  LET i == Head(toSrv).id IN
  /\ Next1("OPEN")
  /\ Consume
  /\ \/ /\ Active(i)                            \* duplicate id
        /\ UNCHANGED <<slot, toHost, ptyVars>>
     \/ /\ ~Active(i)                           \* no slot, or forkpty fails
        /\ Send(Frame("EXIT", i))
        /\ shell' = [shell EXCEPT ![i] = "refused"]
        /\ UNCHANGED <<slot, tty, inq, outq, wrote>>
     \/ /\ ~Active(i)
        /\ \E s \in Slots : /\ Lowest(s, FreeSlots)
                           /\ slot' = [slot EXCEPT ![s] = i]
        /\ shell' = [shell EXCEPT ![i] = "run"]
        /\ tty' = [tty EXCEPT ![i] = "open"]
        /\ UNCHANGED <<toHost, inq, outq, wrote>>
  /\ UNCHANGED <<pc, ctl, ready, gone, reap, back, eof, hostUp, srvUp>>

(* writen() to the master: blocks while the input queue is full; an error  *)
(* (nobody holds the slave) drops the chunk.                               *)
HandleData ==
  LET i == Head(toSrv).id IN
  /\ Next1("DATA")
  /\ Consume
  /\ \/ /\ Active(i) /\ tty[i] = "open"
        /\ inq[i] < InCap
        /\ inq' = [inq EXCEPT ![i] = @ + 1]
     \/ /\ ~Active(i) \/ tty[i] # "open"
        /\ UNCHANGED inq
  /\ UNCHANGED <<pc, slot, ctl, ready, gone, reap, back, shell, tty, outq,
                 wrote, eof, toHost, hostUp, srvUp>>

(* TIOCSWINSZ changes only the window size the programs read. *)
HandleResize ==
  /\ Next1("RESIZE")
  /\ Consume
  /\ UNCHANGED <<pc, slot, ctl, ready, gone, reap, back, eof, ptyVars>>
  /\ UNCHANGED <<toHost, hostUp, srvUp>>

(* kill(pid, signo): the signal may end the process or not. *)
HandleSignal ==
  LET i == Head(toSrv).id IN
  /\ Next1("SIGNAL")
  /\ Consume
  /\ \/ /\ Active(i) /\ shell[i] = "run"
        /\ shell' = [shell EXCEPT ![i] = "doomed"]
     \/ UNCHANGED shell
  /\ UNCHANGED <<pc, slot, ctl, ready, gone, reap, back, tty, inq, outq,
                 wrote, eof, toHost, hostUp, srvUp>>

------------------------------------------------------------------------------
(* end_sess(s, killit): SIGHUP, close the master (its queues go with it),  *)
(* waitpid, free the slot, send EXIT.  EndSess is the part before waitpid  *)
(* returns.                                                                *)

(* Mutant: the master is closed but the process is not signalled. *)
HupSkipped(i) == UNCHANGED shell

(* kill(pid, SIGHUP). *)
Hup(i) ==
  \/ shell[i] = "run" /\ shell' = [shell EXCEPT ![i] = "doomed"]
  \/ shell[i] # "run" /\ UNCHANGED shell
  \/ Stubborn /\ UNCHANGED shell                \* SIGHUP ignored

EndSess(s, killit, ret) ==
  /\ IF killit THEN Hup(slot[s]) ELSE UNCHANGED shell
  /\ tty' = [tty EXCEPT ![slot[s]] = "none"]
  /\ inq' = [inq EXCEPT ![slot[s]] = 0]
  /\ outq' = [outq EXCEPT ![slot[s]] = 0]
  /\ reap' = s
  /\ back' = ret
  /\ pc' = "reap"

(* Mutant: the slot is freed without waiting for the process. *)
ReapUnwaited ==
  LET i == slot[reap] IN
  /\ pc = "reap"
  /\ slot' = [slot EXCEPT ![reap] = 0]
  /\ Send(Frame("EXIT", i))
  /\ pc' = back
  /\ reap' = 1
  /\ back' = "feed"
  /\ UNCHANGED <<ctl, ready, gone, ptyVars, eof, toSrv, taken, hostUp, srvUp>>

(* waitpid() returns: the rest of end_sess. *)
Reap ==
  LET i == slot[reap] IN
  /\ pc = "reap"
  /\ shell[i] = "zombie"
  /\ shell' = [shell EXCEPT ![i] = "reaped"]
  /\ slot' = [slot EXCEPT ![reap] = 0]
  /\ Send(Frame("EXIT", i))
  /\ pc' = back
  /\ reap' = 1
  /\ back' = "feed"
  /\ UNCHANGED <<ctl, ready, gone, tty, inq, outq, wrote, eof>>
  /\ UNCHANGED <<toSrv, taken, hostUp, srvUp>>

(* Mutant: CLOSE answers at once and leaves the session to end by itself. *)
HandleCloseEarly ==
  LET i == Head(toSrv).id IN
  /\ Next1("CLOSE")
  /\ Consume
  /\ \/ Active(i) /\ Hup(i) /\ Send(Frame("EXIT", i))
     \/ ~Active(i) /\ UNCHANGED <<shell, toHost>>
  /\ UNCHANGED <<pc, slot, ctl, ready, gone, reap, back, tty, inq, outq,
                 wrote, eof, hostUp, srvUp>>

(* A CLOSE of a session that already ended finds no slot. *)
HandleClose ==
  LET i == Head(toSrv).id IN
  /\ Next1("CLOSE")
  /\ Consume
  /\ \/ \E s \in Slots : slot[s] = i /\ EndSess(s, TRUE, "feed")
     \/ ~Active(i) /\ UNCHANGED <<shell, tty, inq, outq, reap, back, pc>>
  /\ UNCHANGED <<slot, ctl, ready, gone, wrote, eof>>
  /\ UNCHANGED <<toHost, hostUp, srvUp>>

FeedDone ==
  /\ pc = "feed"
  /\ taken = 0
  /\ pc' = "scan"
  /\ UNCHANGED <<slot, ctl, ready, gone, reap, back, eof, ptyVars, wireVars>>

------------------------------------------------------------------------------
(* Mutant: a hung-up master is ended before its output is read. *)
ForwardHangFirst(s) ==
  LET i == slot[s] IN
  /\ pc = "scan"
  /\ Lowest(s, ready)
  /\ ready' = ready \ {s}
  /\ \/ /\ i = 0
        /\ UNCHANGED <<pc, reap, back, shell, tty, inq, outq, eof, toHost>>
     \/ /\ i # 0 /\ outq[i] > 0 /\ tty[i] # "hung"
        /\ Send(Frame("DATA", i))
        /\ outq' = [outq EXCEPT ![i] = @ - 1]
        /\ UNCHANGED <<pc, reap, back, shell, tty, inq, eof>>
     \/ /\ i # 0 /\ tty[i] = "hung"
        /\ EndSess(s, FALSE, "scan")
        /\ eof' = eof \cup {i}
        /\ UNCHANGED toHost
  /\ UNCHANGED <<slot, ctl, gone, wrote, toSrv, taken, hostUp, srvUp>>

(* The rest of the pass: forward_master() on the slots poll reported, in   *)
(* slot order.  A slot freed since is skipped (its master is -1); one that *)
(* was freed and opened again is read although poll never reported the new *)
(* master, and the read blocks while that PTY has nothing to say.          *)
Forward(s) ==
  LET i == slot[s] IN
  /\ pc = "scan"
  /\ Lowest(s, ready)
  /\ ready' = ready \ {s}
  /\ \/ /\ i = 0
        /\ UNCHANGED <<pc, reap, back, shell, tty, inq, outq, eof, toHost>>
     \/ /\ i # 0 /\ outq[i] > 0
        /\ Send(Frame("DATA", i))
        /\ outq' = [outq EXCEPT ![i] = @ - 1]
        /\ UNCHANGED <<pc, reap, back, shell, tty, inq, eof>>
     \/ /\ i # 0 /\ outq[i] = 0 /\ tty[i] = "hung"
        /\ EndSess(s, FALSE, "scan")
        /\ eof' = eof \cup {i}
        /\ UNCHANGED toHost
  /\ UNCHANGED <<slot, ctl, gone, wrote, toSrv, taken, hostUp, srvUp>>

PassDone ==
  /\ pc = "scan"
  /\ ready = {}
  /\ pc' = IF gone THEN "teardown" ELSE "poll"
  /\ UNCHANGED <<slot, ctl, ready, gone, reap, back, eof, ptyVars, wireVars>>

(* The host disconnected: end every session, then leave the loop and exit. *)
TearDown ==
  /\ pc = "teardown"
  /\ \/ \E s \in Slots : /\ Lowest(s, Slots \ FreeSlots)
                        /\ EndSess(s, TRUE, "teardown")
                        /\ UNCHANGED srvUp
     \/ /\ FreeSlots = Slots
        /\ pc' = "done"
        /\ srvUp' = FALSE
        /\ UNCHANGED <<shell, tty, inq, outq, reap, back>>
  /\ UNCHANGED <<slot, ctl, ready, gone, wrote, eof>>
  /\ UNCHANGED <<toSrv, taken, toHost, hostUp>>

Daemon ==
  \/ Start \/ Poll \/ ReadControl
  \/ HandleOpen \/ HandleData \/ HandleResize \/ HandleSignal \/ HandleClose
  \/ FeedDone \/ (\E s \in Slots : Forward(s)) \/ Reap \/ PassDone \/ TearDown

(* The process is killed (wsl --shutdown, the VM dies).  Frames it had     *)
(* written may be cut off anywhere; its memory and its masters are gone,   *)
(* and its shells are no longer its children.                              *)
DaemonDies ==
  /\ srvUp
  /\ pc' = "dead"
  /\ srvUp' = FALSE
  /\ \E k \in 0..Len(toHost) : toHost' = SubSeq(toHost, 1, k)
  /\ toSrv' = <<>>
  /\ taken' = 0
  /\ slot' = [s \in Slots |-> 0]
  /\ ctl' = FALSE
  /\ ready' = {}
  /\ gone' = FALSE
  /\ reap' = 1
  /\ back' = "feed"
  /\ shell' = [i \in Ids |-> IF Active(i) THEN "orphan" ELSE shell[i]]
  /\ tty' = [i \in Ids |-> "none"]
  /\ inq' = [i \in Ids |-> 0]
  /\ outq' = [i \in Ids |-> 0]
  /\ UNCHANGED <<wrote, eof, hostUp>>

------------------------------------------------------------------------------
(* The programs on the PTYs: external, but for the queues they share. *)

Alive(i) == shell[i] \in {"run", "doomed"}

ShellWrite(i) ==
  /\ tty[i] = "open"
  /\ outq[i] < OutCap
  /\ wrote[i] < MaxOut
  /\ outq' = [outq EXCEPT ![i] = @ + 1]
  /\ wrote' = [wrote EXCEPT ![i] = @ + 1]
  /\ UNCHANGED <<pc, slot, ctl, ready, gone, reap, back, shell, tty, inq, eof>>
  /\ UNCHANGED wireVars

ShellRead(i) ==
  /\ tty[i] = "open"
  /\ inq[i] > 0
  /\ inq' = [inq EXCEPT ![i] = @ - 1]
  /\ IF Filter
       THEN /\ outq[i] < OutCap
            /\ outq' = [outq EXCEPT ![i] = @ + 1]
            /\ wrote' = [wrote EXCEPT ![i] = @ + 1]
       ELSE UNCHANGED <<outq, wrote>>
  /\ UNCHANGED <<pc, slot, ctl, ready, gone, reap, back, shell, tty, eof>>
  /\ UNCHANGED wireVars

ShellExit(i) ==
  /\ Alive(i)
  /\ shell' = [shell EXCEPT ![i] = "zombie"]
  /\ UNCHANGED <<pc, slot, ctl, ready, gone, reap, back, tty, inq, outq,
                 wrote, eof>>
  /\ UNCHANGED wireVars

(* The last program lets go of the terminal; background jobs may hold it   *)
(* longer than the shell lives.                                            *)
TtyHang(i) ==
  /\ tty[i] = "open"
  /\ Alive(i) => Stubborn
  /\ tty' = [tty EXCEPT ![i] = "hung"]
  /\ UNCHANGED <<pc, slot, ctl, ready, gone, reap, back, shell, inq, outq,
                 wrote, eof>>
  /\ UNCHANGED wireVars
==============================================================================
