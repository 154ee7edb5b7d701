------------------------------- MODULE BringUp -------------------------------
(***************************************************************************)
(* How the processes of wslterm (hosts) find or start a wslptyd for their  *)
(* distro (bring_up_mux, connect_or_bootstrap, probe_distro), with the     *)
(* start scripts they run in the distros and the listeners these become.   *)
(* All distros share one VM, so they share the ports.                      *)
(*                                                                         *)
(* A listener is seen from outside: it accepts, hands each connection to a *)
(* child, and leaves when the last child is reaped, or never, once it has  *)
(* counted one too many (WslptydListener has the inside).                  *)
(***************************************************************************)
EXTENDS Integers, FiniteSets

CONSTANTS
  Hosts,        (* bound of the model: processes of wslterm ever started   *)
  Distros,      (* the installed distros                                   *)
  Default,      (* WSL's default distro, which a host asks for by ""       *)
  Named,        (* the distros hosts are started for by name               *)
  Span,         (* VSOCK_SCAN_SPAN                                         *)
  Pins,         (* the ports a user may pass as --port                     *)
  Resident,     (* the distros whose systemd unit owns a port (--persist)  *)
  Slow,         (* connects, reads and scripts may exceed their time limits *)
  Nobody

Base  == 0                 (* VSOCK_PORT *)
Ports == Base .. Span + 1

ASSUME BringUpAssumption ==
  /\ Default \in Distros
  /\ Named \subseteq Distros
  /\ Nobody \notin Distros
  /\ Span \in Nat \ {0}
  /\ Pins \subseteq Ports
  /\ Resident \in [Ports -> Distros \cup {Nobody}]
  /\ Slow \in BOOLEAN

VARIABLES
  step,     (* how far a host has come                                     *)
  want,     (* the distro it was started for                               *)
  pinned,   (* the hosts started with --port                               *)
  port,     (* the port it is at                                           *)
  job,      (* the scripts hosts have started in their distros             *)
  staged,   (* the file /tmp/wslptyd of a distro                           *)
  owner,    (* the distro whose listener has bound a port                  *)
  queue,    (* connections in the backlog of a port                        *)
  kids,     (* connections served by a child of a port's listener          *)
  open,     (* connections whose host has not closed its end               *)
  leaving,  (* listeners that have closed their port but not exited        *)
  staying,  (* ports whose listener does not leave: --persist, or its      *)
            (* count is too high for good                                  *)
  calm      (* history: hosts whose bring-up overlapped no other and no    *)
            (* script of another, and none of whose connects ran out of    *)
            (* time                                                        *)

hostVars   == <<step, want, pinned, port>>
scriptVars == <<job, staged>>
netVars    == <<owner, queue, kids, leaving, staying>>
bvars      == <<hostVars, scriptVars, netVars, open, calm>>

Steps == {"new", "probe", "info", "attach", "connect", "spawn", "poll",
          "fall", "piped", "vsock", "pipe", "gone"}

Scripts == Hosts \X {"vsock", "pipe"}
Conns   == Hosts \X {"probe", "mux"}

(* A script that copies writes the file with the name ("copy") or one that *)
(* has lost it ("stray"); then it is to run the program, which binds.      *)
Stages == {"none", "rm", "cp", "copy", "stray", "exec", "bind", "done"}

(* No file, one that nothing runs, one that was run.                       *)
Files == {"none", "idle", "busy"}

(* Every variable holds a value of its type. *)
BringUpTypeOK ==
  /\ step \in [Hosts -> Steps]
  /\ want \in [Hosts -> Distros]
  /\ pinned \subseteq Hosts
  /\ port \in [Hosts -> Ports]
  /\ \A h \in Hosts :
       step[h] \in {"probe", "info", "attach"} => port[h] \in Base + 1 .. Base + Span
  /\ job \in [Scripts -> Stages]
  /\ staged \in [Distros -> Files]
  /\ owner \in [Ports -> Distros \cup {Nobody}]
  /\ queue \in [Ports -> SUBSET Conns]
  /\ kids \in [Ports -> SUBSET Conns]
  /\ open \subseteq Conns
  /\ leaving \subseteq Distros
  /\ staying \subseteq Ports
  /\ calm \subseteq Hosts

Init ==
  /\ step = [h \in Hosts |-> "new"]
  /\ want = [h \in Hosts |-> Default]
  /\ pinned = {}
  /\ port = [h \in Hosts |-> Base]
  /\ job = [s \in Scripts |-> "none"]
  /\ staged = [d \in Distros |-> "none"]
  /\ owner = Resident
  /\ queue = [p \in Ports |-> {}]
  /\ kids = [p \in Ports |-> {}]
  /\ open = {}
  /\ leaving = {}
  /\ staying = {p \in Ports : Resident[p] # Nobody}
  /\ calm = {}

------------------------------------------------------------------------------
(* The hosts. *)

Up(h) == step[h] \in {"vsock", "pipe"}

(* Mutant: the scan includes the base port. *)
ScanFromBase == Base

ScanFrom == Base + 1

(* On its way up. *)
Busy(h) == ~Up(h) /\ step[h] \notin {"new", "gone"}

(* What a script that has not ended may still do. *)
Running(s) == job[s] \notin {"none", "done"}

(* A bring-up begins: it is a calm one if nothing else goes on, and it     *)
(* disturbs whatever does.                                                 *)
Begins(h) ==
  calm' = {g \in calm : ~Busy(g)}
          \cup (IF \E g \in Hosts : Busy(g) \/ Running(<<g, "vsock">>)
                 THEN {} ELSE {h})

(* bring_up_mux: an explicit port, whatever the distro is; the base port   *)
(* for the default distro; the scan for a distro asked for by its name,    *)
(* the default one too.                                                    *)
Start(h) ==
  /\ step[h] = "new"
  /\ \/ \E d \in Named \cup {Default}, p \in Pins :
            /\ want' = [want EXCEPT ![h] = d]
            /\ port' = [port EXCEPT ![h] = p]
            /\ step' = [step EXCEPT ![h] = "connect"]
            /\ pinned' = pinned \cup {h}
     \/ /\ want' = [want EXCEPT ![h] = Default]
        /\ step' = [step EXCEPT ![h] = "connect"]
        /\ UNCHANGED <<port, pinned>>
     \/ \E d \in Named :
            /\ want' = [want EXCEPT ![h] = d]
            /\ port' = [port EXCEPT ![h] = ScanFrom]
            /\ step' = [step EXCEPT ![h] = "probe"]
            /\ UNCHANGED pinned
  /\ Begins(h)
  /\ UNCHANGED <<scriptVars, netVars, open>>

Move(h, next) ==
  step' = [step EXCEPT ![h] = next] /\ UNCHANGED <<want, pinned, port>>

Hang(h, kind) == open' = open \ {<<h, kind>>}

(* connect(): into the backlog, or refused by a port nobody listens on, or *)
(* past CONNECT_TIMEOUT_MS.                                                *)
Reach(h, kind, next) ==
  /\ owner[port[h]] # Nobody
  /\ queue' = [queue EXCEPT ![port[h]] = @ \cup {<<h, kind>>}]
  /\ open' = open \cup {<<h, kind>>}
  /\ Move(h, next)
  /\ UNCHANGED <<scriptVars, owner, kids, leaving, staying, calm>>

Refused(h, next) ==
  /\ owner[port[h]] = Nobody \/ Slow
  /\ Move(h, next)
  /\ calm' = IF owner[port[h]] = Nobody THEN calm ELSE calm \ {h}
  /\ UNCHANGED <<scriptVars, netVars, open>>

Probe(h) ==
  step[h] = "probe" /\ (Reach(h, "probe", "info") \/ Refused(h, "connect"))

(* The INFO frame is the first thing a child sends.  No answer in time, or *)
(* a listener that leaves, is like another distro.                         *)
Announced(h) ==
  IF <<h, "probe">> \in kids[port[h]] THEN owner[port[h]] ELSE Nobody

(* Mutant: whoever answers is taken. *)
InfoMineAny(h) ==
  /\ step[h] = "info" /\ Announced(h) # Nobody
  /\ Move(h, "attach") /\ Hang(h, "probe")
  /\ UNCHANGED <<scriptVars, netVars, calm>>

InfoMine(h) ==
  /\ step[h] = "info" /\ Announced(h) = want[h]
  /\ Move(h, "attach") /\ Hang(h, "probe")
  /\ UNCHANGED <<scriptVars, netVars, calm>>

NotMine(h) ==
  /\ step[h] = "info"
  /\ Slow \/ (Announced(h) # want[h] /\ <<h, "probe">> \notin queue[port[h]])

(* Mutant: the scan does not go on. *)
InfoOtherStays(h) ==
  /\ NotMine(h)
  /\ Move(h, "probe") /\ Hang(h, "probe")
  /\ UNCHANGED <<scriptVars, netVars, calm>>

InfoOther(h) ==
  /\ NotMine(h)
  /\ port' = [port EXCEPT ![h] = @ + 1]
  /\ step' = [step EXCEPT ![h] =
                IF port[h] + 1 <= Base + Span THEN "probe" ELSE "connect"]
  /\ Hang(h, "probe")
  /\ UNCHANGED <<want, pinned, scriptVars, netVars, calm>>

Attach(h) ==
  step[h] = "attach" /\ (Reach(h, "mux", "vsock") \/ Refused(h, "connect"))

Connect(h) ==
  step[h] = "connect" /\ (Reach(h, "mux", "vsock") \/ Refused(h, "spawn"))

Run(h, kind) == job' = [job EXCEPT ![<<h, kind>>] = "rm"]

(* spawn_bootstrap; CreateProcess may fail. *)
Spawn(h) ==
  /\ step[h] = "spawn"
  /\ \/ Run(h, "vsock") /\ Move(h, "poll")
     \/ Slow /\ UNCHANGED job /\ Move(h, "fall")
  /\ UNCHANGED <<staged, netVars, open, calm>>

Poll(h) == step[h] = "poll" /\ Reach(h, "mux", "vsock")

(* 15 seconds are over.  Unless things are slow they are enough for the    *)
(* script and for a connection.                                            *)
Deadline(h) ==
  /\ step[h] = "poll"
  /\ Slow \/ (job[<<h, "vsock">>] = "done" /\ owner[port[h]] = Nobody)
  /\ Move(h, "fall")
  /\ UNCHANGED <<scriptVars, netVars, open, calm>>

Fallback(h) ==
  /\ step[h] = "fall"
  /\ Run(h, "pipe") /\ Move(h, "piped")
  /\ UNCHANGED <<staged, netVars, open, calm>>

End(h) ==
  Move(h, "gone") /\ Hang(h, "mux") /\ UNCHANGED <<scriptVars, netVars, calm>>

(* The stream ends: the reader drains and the process ends (PtySystem).    *)
Lost(h) ==
  /\ step[h] = "vsock"
  /\ <<h, "mux">> \notin queue[port[h]] \cup kids[port[h]]
  /\ End(h)

(* The last window is closed. *)
Quit(h) == Up(h) /\ End(h)

------------------------------------------------------------------------------
(* The scripts: rm -f; cp; chmod +x; then run the copy. *)

Writing(d) ==
  {s \in Scripts : job[s] = "copy" /\ want[s[1]] = d}

(* Whoever is writing the file goes on writing one without a name. *)
Unlinked(d) ==
  [s \in Scripts |-> IF s \in Writing(d) THEN "stray" ELSE job[s]]

Rm(s) ==
  /\ job[s] = "rm"
  /\ staged' = [staged EXCEPT ![want[s[1]]] = "none"]
  /\ job' = [Unlinked(want[s[1]]) EXCEPT ![s] = "cp"]
  /\ UNCHANGED <<hostVars, netVars, open, calm>>

(* cp cannot write to a program that is being run (ETXTBSY). *)
Cp(s) ==
  LET d == want[s[1]] IN
  /\ job[s] = "cp"
  /\ IF staged[d] = "busy"
       THEN job' = [job EXCEPT ![s] = "exec"] /\ UNCHANGED staged
       ELSE /\ job' = [job EXCEPT ![s] = "copy"]
            /\ staged' = [staged EXCEPT ![d] = "idle"]
  /\ UNCHANGED <<hostVars, netVars, open, calm>>

Copied(s) ==
  /\ job[s] \in {"copy", "stray"}
  /\ job' = [job EXCEPT ![s] = "exec"]
  /\ UNCHANGED <<hostVars, staged, netVars, open, calm>>

(* A program that is missing or being written (ETXTBSY) does not run.  The *)
(* host of a pipe finds its stream at the end then, and ends.              *)
Runnable(d) == staged[d] # "none" /\ Writing(d) = {}

Exec(s) ==
  LET d == want[s[1]]  h == s[1] IN
  /\ job[s] = "exec"
  /\ staged' = IF Runnable(d) THEN [staged EXCEPT ![d] = "busy"] ELSE staged
  /\ job' = [job EXCEPT ![s] =
               IF Runnable(d) /\ s[2] = "vsock" THEN "bind" ELSE "done"]
  /\ step' = IF s[2] = "pipe"
               THEN [step EXCEPT ![h] = IF Runnable(d) THEN "pipe" ELSE "gone"]
               ELSE step
  /\ UNCHANGED <<want, pinned, port, netVars, open, calm>>

(* Mutant: the daemon does not look whether the port is taken. *)
BindAnyway(s) ==
  LET p == port[s[1]] IN
  /\ job[s] = "bind"
  /\ job' = [job EXCEPT ![s] = "done"]
  /\ owner' = [owner EXCEPT ![p] = want[s[1]]]
  /\ UNCHANGED <<hostVars, staged, queue, kids, leaving, staying, open, calm>>

(* vsock_serve: the port, or EADDRINUSE and a quiet exit. *)
Bind(s) ==
  LET p == port[s[1]] IN
  /\ job[s] = "bind"
  /\ job' = [job EXCEPT ![s] = "done"]
  /\ owner' = IF owner[p] = Nobody
                THEN [owner EXCEPT ![p] = want[s[1]]] ELSE owner
  /\ UNCHANGED <<hostVars, staged, queue, kids, leaving, staying, open, calm>>

------------------------------------------------------------------------------
(* The listeners. *)

Serve(p, c) ==
  /\ c \in queue[p]
  /\ queue' = [queue EXCEPT ![p] = @ \ {c}]
  /\ kids' = [kids EXCEPT ![p] = @ \cup {c}]
  /\ UNCHANGED <<hostVars, scriptVars, owner, leaving, staying, open, calm>>

Last(p, c) == kids[p] = {c} /\ p \notin staying

(* The host's end is closed, the child ends and is reaped; with the last   *)
(* one the listener leaves, and the backlog with it.                       *)
ChildReaped(p, c) ==
  /\ c \in kids[p] \ open
  /\ kids' = [kids EXCEPT ![p] = @ \ {c}]
  /\ IF Last(p, c)
       THEN /\ owner' = [owner EXCEPT ![p] = Nobody]
            /\ queue' = [queue EXCEPT ![p] = {}]
            /\ leaving' = leaving \cup {owner[p]}
       ELSE UNCHANGED <<owner, queue, leaving>>
  /\ UNCHANGED <<hostVars, scriptVars, staying, open, calm>>

(* The child is not the last one, and a connection is being counted        *)
(* meanwhile: its g_active++ overwrites the handler's g_active--, and the  *)
(* count does not come back to zero.                                       *)
CountLost(p, c) ==
  /\ c \in kids[p] \ open
  /\ kids[p] # {c} /\ queue[p] # {}
  /\ kids' = [kids EXCEPT ![p] = @ \ {c}]
  /\ staying' = staying \cup {p}
  /\ UNCHANGED <<hostVars, scriptVars, owner, queue, leaving, open, calm>>

(* cleanup_and_exit: the staged binary goes after the port. *)
CleanUp(d) ==
  /\ d \in leaving
  /\ leaving' = leaving \ {d}
  /\ staged' = [staged EXCEPT ![d] = "none"]
  /\ job' = Unlinked(d)
  /\ UNCHANGED <<hostVars, owner, queue, kids, staying, open, calm>>

------------------------------------------------------------------------------
HostStep(h) ==
  \/ Probe(h) \/ InfoMine(h) \/ InfoOther(h) \/ Attach(h) \/ Connect(h)
  \/ Spawn(h) \/ Poll(h) \/ Deadline(h) \/ Fallback(h) \/ Lost(h)

ScriptStep(s) == Rm(s) \/ Cp(s) \/ Copied(s) \/ Exec(s) \/ Bind(s)

Next ==
  \/ \E h \in Hosts : Start(h)
  \/ \E h \in Hosts : Probe(h)
  \/ \E h \in Hosts : InfoMine(h)
  \/ \E h \in Hosts : InfoOther(h)
  \/ \E h \in Hosts : Attach(h)
  \/ \E h \in Hosts : Connect(h)
  \/ \E h \in Hosts : Spawn(h)
  \/ \E h \in Hosts : Poll(h)
  \/ \E h \in Hosts : Deadline(h)
  \/ \E h \in Hosts : Fallback(h)
  \/ \E h \in Hosts : Lost(h)
  \/ \E h \in Hosts : Quit(h)
  \/ \E s \in Scripts : Rm(s)
  \/ \E s \in Scripts : Cp(s)
  \/ \E s \in Scripts : Copied(s)
  \/ \E s \in Scripts : Exec(s)
  \/ \E s \in Scripts : Bind(s)
  \/ \E p \in Ports, c \in Conns : Serve(p, c)
  \/ \E p \in Ports, c \in Conns : ChildReaped(p, c)
  \/ \E p \in Ports, c \in Conns : CountLost(p, c)
  \/ \E d \in Distros : CleanUp(d)

Spec == Init /\ [][Next]_bvars

(* Processes are scheduled.  Nobody has to start a host or to quit one.    *)
Fairness ==
  /\ \A h \in Hosts : WF_bvars(HostStep(h))
  /\ \A s \in Scripts : WF_bvars(ScriptStep(s))
  /\ \A p \in Ports, c \in Conns : WF_bvars(Serve(p, c)) /\ WF_bvars(ChildReaped(p, c))
  /\ \A d \in Distros : WF_bvars(CleanUp(d))

FairSpec == Spec /\ Fairness

------------------------------------------------------------------------------
(* "a window must reach the daemon actually running ITS distro": the       *)
(* daemon that holds a host's connection runs the distro it was started    *)
(* for, unless the user picked the port.                                   *)
Held(h) ==
  step[h] = "vsock" /\ <<h, "mux">> \in queue[port[h]] \cup kids[port[h]]
RightDistro ==
  \A h \in Hosts \ pinned : Held(h) => owner[port[h]] = want[h]

(* The same sentence, for every host brought up while no other was, with   *)
(* no start script of an earlier one left, and in time: whatever crossed   *)
(* and failed before, quits or leaves meanwhile, or comes once it is up.   *)
(* Two ports are taken by hosts that do not ask who answers: the one past  *)
(* the scan, and the base port ("whatever answers there is the default's   *)
(* daemon"), where a unit or a host that picked it may have put another.   *)
PastScan  == Base + Span + 1
PutAtBase == {Resident[Base]} \cup {want[g] : g \in {f \in pinned : port[f] = Base}}
Unasked(h) == port[h] = PastScan \/ (port[h] = Base /\ owner[Base] \in PutAtBase)
CalmRoutes ==
  \A h \in calm \ pinned : Held(h) /\ ~Unasked(h) => owner[port[h]] = want[h]

(* A port never changes hands while it serves: a second bootstrap exits    *)
(* "without disturbing the owner".                                         *)
OwnerUndisturbed ==
  [][\A p \in Ports :
       owner'[p] # owner[p] => kids'[p] = {} /\ queue'[p] = {}]_bvars

(* A host started comes up, over vsock or the pipe, or ends.               *)
ComesUp ==
  \A h \in Hosts : step[h] # "new" ~> step[h] \in {"vsock", "pipe", "gone"}

(* "the app's ephemeral bootstrap relies on this": when every host has     *)
(* gone, no listener stays that systemd does not own.  It fails as         *)
(* NothingLingers of WslptydListener does: CountLost.                      *)
AllGone == \A h \in Hosts : step[h] = "gone"
NothingStays == AllGone ~> \A p \in Ports : owner[p] = Resident[p]

(* "the base port is reserved for it": no distro but the default one ever  *)
(* listens there.  It fails when a user picks that port for another one.   *)
BaseIsDefault == owner[Base] \in {Default, Nobody}

(* "when the last one is gone there are no windows left to serve, so the   *)
(* listener exits": a listener that leaves has no host of its distro       *)
(* waiting for it.                                                         *)
LeavesNobody ==
  [][\A p \in Ports, h \in Hosts :
       owner[p] # Nobody /\ owner'[p] = Nobody
         => ~(step[h] = "poll" /\ port[h] = p /\ want[h] = owner[p])]_bvars
==============================================================================
