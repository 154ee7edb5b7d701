---------------------------- MODULE BringUpProofs ----------------------------
(***************************************************************************)
(* What bring-ups that cross cannot spoil, for every number of hosts,      *)
(* distros and ports, and when a host meets a daemon of its distro: with   *)
(* one named distro, or when nothing crosses its own bring-up.             *)
(***************************************************************************)
EXTENDS BringUp, TLAPS

USE DEF Base, Stages, Files

(* A port without a listener has no connections. *)
IdlePorts ==
  \A p \in Ports : owner[p] = Nobody => kids[p] = {} /\ queue[p] = {}

(* Nobody is at the base port but a host that picked it and those that ask *)
(* for the default distro, and nobody but they and a unit puts a daemon    *)
(* there.                                                                  *)
NewAtBase   == \A h \in Hosts : step[h] = "new" => port[h] = Base
PinnedHosts == \A h \in pinned : step[h] \notin {"new", "probe", "info", "attach"}
BaseHosts   == \A h \in Hosts \ pinned : port[h] = Base => want[h] = Default
BaseOwner   == owner[Base] \in {Default, Nobody} \cup PutAtBase

(* A start script of a pipe binds no port. *)
PipesBindNot == \A h \in Hosts : job[<<h, "pipe">>] # "bind"

HostPorts == NewAtBase /\ PinnedHosts /\ BaseHosts
PortInv == BringUpTypeOK /\ IdlePorts /\ HostPorts /\ BaseOwner

(* A step of a host that leaves its port alone. *)
LEMMA MoveType ==
  ASSUME BringUpTypeOK, NEW h \in Hosts, NEW next \in Steps, Move(h, next),
         next \in {"info", "attach"} => step[h] \in {"probe", "info"},
         next # "probe"
  PROVE  /\ step' \in [Hosts -> Steps]
         /\ want' \in [Hosts -> Distros]
         /\ pinned' \subseteq Hosts
         /\ port' \in [Hosts -> Ports]
         /\ \A g \in Hosts :
              step'[g] \in {"probe", "info", "attach"}
                => port'[g] \in Base + 1 .. Base + Span
BY DEF Move, BringUpTypeOK

(* PortInv holds before the first process starts.                          *)
LEMMA PortInvInit == Init => PortInv
<1> SUFFICES ASSUME Init PROVE PortInv
  OBVIOUS
<1>1. BringUpTypeOK
  BY BringUpAssumption DEF Init, BringUpTypeOK, Ports, Steps
<1>2. IdlePorts /\ HostPorts
  BY DEF Init, IdlePorts, HostPorts, NewAtBase, PinnedHosts, BaseHosts
<1>3. BaseOwner
  BY DEF Init, BaseOwner, PutAtBase, Ports
<1> QED
  BY <1>1, <1>2, <1>3 DEF PortInv

(* Who has put a daemon at the base port depends on the picked ports only. *)
LEMMA PutKept ==
  ASSUME UNCHANGED <<want, pinned, port>>
  PROVE  PutAtBase' = PutAtBase
BY DEF PutAtBase

(* A host at a port goes on there.  One that picked it does not scan.      *)
LEMMA HostPortsKept ==
  ASSUME HostPorts, UNCHANGED <<want, pinned, port>>,
         \A g \in Hosts :
           \/ step'[g] = step[g]
           \/ /\ step'[g] # "new"
              /\ g \in pinned => step'[g] \notin {"probe", "info", "attach"},
         pinned \subseteq Hosts
  PROVE  HostPorts'
<1>1. NewAtBase'
  BY DEF HostPorts, NewAtBase
<1>2. PinnedHosts'
  BY DEF HostPorts, PinnedHosts
<1>3. BaseHosts'
  BY DEF HostPorts, BaseHosts
<1> QED
  BY <1>1, <1>2, <1>3 DEF HostPorts

(* What connect() does to the invariant. *)
LEMMA ReachKeeps ==
  ASSUME PortInv, NEW h \in Hosts, NEW kind \in {"probe", "mux"},
         NEW next \in Steps \ {"probe", "new"}, Reach(h, kind, next),
         next \in {"info", "attach"} => step[h] \in {"probe", "info"}
  PROVE  PortInv'
<1>1. BringUpTypeOK /\ <<h, kind>> \in Conns /\ port[h] \in Ports
  BY DEF PortInv, BringUpTypeOK, Conns
<1>2. queue' \in [Ports -> SUBSET Conns] /\ open' \subseteq Conns
  BY <1>1 DEF Reach, BringUpTypeOK
<1>3. BringUpTypeOK'
  BY <1>1, <1>2, MoveType DEF Reach, BringUpTypeOK, scriptVars
<1>4. IdlePorts'
  BY <1>1 DEF PortInv, Reach, Move, IdlePorts, BringUpTypeOK
<1>5. UNCHANGED <<want, pinned, port, owner>> /\ step' = [step EXCEPT ![h] = next]
  BY DEF Reach, Move
<1>6. BaseOwner'
  BY <1>5, PutKept DEF PortInv, BaseOwner
<1>7. \A g \in Hosts :
           \/ step'[g] = step[g]
           \/ /\ step'[g] # "new"
              /\ g \in pinned => step'[g] \notin {"probe", "info", "attach"}
  BY <1>1, <1>5 DEF PortInv, HostPorts, PinnedHosts, BringUpTypeOK
<1>8. HostPorts'
  BY <1>1, <1>5, <1>7, HostPortsKept DEF PortInv, BringUpTypeOK
<1> QED
  BY <1>3, <1>4, <1>6, <1>8 DEF PortInv

(* A step of a host that touches no connection but its own end of one. *)
LEMMA HostKeeps ==
  ASSUME PortInv, NEW h \in Hosts, NEW next \in Steps \ {"probe", "new"}, Move(h, next),
         next \in {"info", "attach"} => step[h] \in {"probe", "info"},
         open' \subseteq open, calm' \subseteq calm, UNCHANGED netVars,
         job' \in [Scripts -> Stages],
         staged' \in [Distros -> Files]
  PROVE  PortInv'
<1>0. BringUpTypeOK
  BY DEF PortInv
<1>1. BringUpTypeOK'
  BY <1>0, MoveType DEF BringUpTypeOK, netVars
<1>2. UNCHANGED <<want, pinned, port, owner, kids, queue>> /\ step' = [step EXCEPT ![h] = next]
  BY DEF Move, netVars
<1>3. IdlePorts'
  BY <1>2 DEF PortInv, IdlePorts
<1>4. BaseOwner'
  BY <1>2, PutKept DEF PortInv, BaseOwner
<1>5. \A g \in Hosts :
           \/ step'[g] = step[g]
           \/ /\ step'[g] # "new"
              /\ g \in pinned => step'[g] \notin {"probe", "info", "attach"}
  BY <1>0, <1>2 DEF PortInv, HostPorts, PinnedHosts, BringUpTypeOK
<1>6. HostPorts'
  BY <1>0, <1>2, <1>5, HostPortsKept DEF PortInv, BringUpTypeOK
<1> QED
  BY <1>1, <1>3, <1>4, <1>6 DEF PortInv

(* A step of a script or a listener that takes and frees no port. *)
LEMMA ScriptKeeps ==
  ASSUME PortInv, UNCHANGED <<hostVars, open, calm>>, UNCHANGED <<owner, queue, kids, staying>>,
         leaving' \subseteq leaving,
         job' \in [Scripts -> Stages],
         staged' \in [Distros -> Files]
  PROVE  PortInv'
<1>0. BringUpTypeOK /\ UNCHANGED <<step, want, pinned, port>>
  BY DEF PortInv, hostVars
<1>1. BringUpTypeOK'
  BY <1>0 DEF BringUpTypeOK
<1>2. IdlePorts' /\ HostPorts'
  BY <1>0 DEF PortInv, IdlePorts, HostPorts, NewAtBase, PinnedHosts, BaseHosts
<1>3. BaseOwner'
  BY <1>0, PutKept DEF PortInv, BaseOwner
<1> QED
  BY <1>1, <1>2, <1>3 DEF PortInv

(* Every step of a host, a script, a listener and a failure keeps          *)
(* PortInv.                                                                *)
LEMMA PortInvNext == PortInv /\ [Next]_bvars => PortInv'
<1> SUFFICES ASSUME PortInv, [Next]_bvars PROVE PortInv'
  OBVIOUS
<1>t. BringUpTypeOK
  BY DEF PortInv
<1>1. ASSUME NEW h \in Hosts, Start(h) PROVE PortInv'
  <2>1. PICK d \in Distros, p \in Ports, next \in {"connect", "probe"} :
          /\ want' = [want EXCEPT ![h] = d]
          /\ port' = [port EXCEPT ![h] = p]
          /\ step' = [step EXCEPT ![h] = next]
          /\ pinned' \in {pinned, pinned \cup {h}}
          /\ next = "probe" => p = Base + 1 /\ pinned' = pinned
          /\ pinned' # pinned \cup {h} /\ next = "connect" => d = Default
    <3>1. port[h] = Base /\ Base + 1 \in Ports /\ Base \in Ports
      BY <1>1, BringUpAssumption DEF Start, PortInv, HostPorts, NewAtBase, Ports
    <3>2. port' = port => port' = [port EXCEPT ![h] = Base]
      BY <1>t, <3>1 DEF BringUpTypeOK
    <3>3. CASE \E d \in Named \cup {Default}, p \in Pins :
                 /\ want' = [want EXCEPT ![h] = d]
                 /\ port' = [port EXCEPT ![h] = p]
                 /\ step' = [step EXCEPT ![h] = "connect"]
                 /\ pinned' = pinned \cup {h}
      BY <3>3, BringUpAssumption
    <3>4. CASE /\ want' = [want EXCEPT ![h] = Default]
               /\ step' = [step EXCEPT ![h] = "connect"]
               /\ UNCHANGED <<port, pinned>>
      BY <3>1, <3>2, <3>4, BringUpAssumption
    <3>5. CASE \E d \in Named :
                 /\ want' = [want EXCEPT ![h] = d]
                 /\ port' = [port EXCEPT ![h] = ScanFrom]
                 /\ step' = [step EXCEPT ![h] = "probe"]
                 /\ UNCHANGED pinned
      BY <3>1, <3>5, BringUpAssumption DEF ScanFrom
    <3> QED
      BY <1>1, <3>3, <3>4, <3>5 DEF Start
  <2>2. h \notin pinned /\ step[h] = "new" /\ pinned \subseteq Hosts
    BY <1>1, <1>t DEF Start, PortInv, HostPorts, PinnedHosts, BringUpTypeOK
  <2>3. /\ want'[h] = d /\ port'[h] = p /\ step'[h] = next
        /\ \A g \in Hosts \ {h} : /\ want'[g] = want[g] /\ port'[g] = port[g]
                                  /\ step'[g] = step[g] /\ (g \in pinned' <=> g \in pinned)
        /\ pinned' \subseteq Hosts
    BY <1>t, <2>1, <2>2 DEF BringUpTypeOK
  <2>4. /\ want' \in [Hosts -> Distros] /\ port' \in [Hosts -> Ports]
        /\ step' \in [Hosts -> Steps]
    BY <1>t, <2>1 DEF BringUpTypeOK, Steps
  <2>5. \A g \in Hosts :
           step'[g] \in {"probe", "info", "attach"}
             => port'[g] \in Base + 1 .. Base + Span
    BY <1>t, <2>1, <2>3, BringUpAssumption DEF BringUpTypeOK
  <2>6. calm' \subseteq Hosts
    BY <1>1, <1>t DEF Start, Begins, BringUpTypeOK
  <2>7. BringUpTypeOK'
    BY <1>1, <1>t, <2>3, <2>4, <2>5, <2>6 DEF Start, BringUpTypeOK, scriptVars, netVars
  <2>8. NewAtBase' /\ PinnedHosts'
    BY <2>1, <2>2, <2>3 DEF PortInv, HostPorts, NewAtBase, PinnedHosts
  <2>9. BaseHosts'
    BY <2>1, <2>2, <2>3 DEF PortInv, HostPorts, BaseHosts
  <2>10. PutAtBase \subseteq PutAtBase'
    BY <2>1, <2>2, <2>3 DEF PutAtBase
  <2>11. IdlePorts' /\ BaseOwner'
    BY <1>1, <2>10 DEF Start, PortInv, IdlePorts, BaseOwner, netVars
  <2> QED
    BY <2>7, <2>8, <2>9, <2>11 DEF PortInv, HostPorts
<1>2. ASSUME NEW h \in Hosts, Probe(h) PROVE PortInv'
  <2>1. CASE Reach(h, "probe", "info")
    BY <1>2, <2>1, ReachKeeps DEF Probe, Steps
  <2>2. CASE Refused(h, "connect")
    BY <1>t, <2>2, HostKeeps DEF Refused, Steps, scriptVars, BringUpTypeOK
  <2> QED
    BY <1>2, <2>1, <2>2 DEF Probe
<1>3. ASSUME NEW h \in Hosts, InfoMine(h) PROVE PortInv'
  BY <1>t, <1>3, HostKeeps DEF InfoMine, Hang, Steps, scriptVars, BringUpTypeOK
<1>4. ASSUME NEW h \in Hosts, InfoOther(h) PROVE PortInv'
  <2>1. port[h] \in Base + 1 .. Base + Span
    BY <1>4, <1>t DEF InfoOther, NotMine, BringUpTypeOK
  <2>2. BringUpTypeOK'
    BY <1>4, <1>t, <2>1, BringUpAssumption
    DEF InfoOther, Hang, BringUpTypeOK, Steps, Ports, scriptVars, netVars
  <2>3. /\ UNCHANGED <<want, pinned, owner, queue, kids>> /\ h \notin pinned
        /\ port'[h] # Base /\ port[h] # Base /\ step'[h] # "new"
        /\ \A g \in Hosts \ {h} : port'[g] = port[g] /\ step'[g] = step[g]
    BY <1>4, <1>t, <2>1, BringUpAssumption
    DEF InfoOther, NotMine, PortInv, HostPorts, PinnedHosts, BringUpTypeOK, netVars
  <2>4. HostPorts'
    BY <1>t, <2>3 DEF PortInv, HostPorts, NewAtBase, PinnedHosts, BaseHosts, BringUpTypeOK
  <2>5. PutAtBase \subseteq PutAtBase'
    BY <1>t, <2>3 DEF PutAtBase, BringUpTypeOK
  <2>6. IdlePorts' /\ BaseOwner'
    BY <2>3, <2>5 DEF PortInv, IdlePorts, BaseOwner
  <2> QED
    BY <2>2, <2>4, <2>6 DEF PortInv
<1>5. ASSUME NEW h \in Hosts, Attach(h) PROVE PortInv'
  <2>1. CASE Reach(h, "mux", "vsock")
    BY <2>1, ReachKeeps DEF Steps
  <2>2. CASE Refused(h, "connect")
    BY <1>t, <2>2, HostKeeps DEF Refused, Steps, scriptVars, BringUpTypeOK
  <2> QED
    BY <1>5, <2>1, <2>2 DEF Attach
<1>6. ASSUME NEW h \in Hosts, Connect(h) PROVE PortInv'
  <2>1. CASE Reach(h, "mux", "vsock")
    BY <2>1, ReachKeeps DEF Steps
  <2>2. CASE Refused(h, "spawn")
    BY <1>t, <2>2, HostKeeps DEF Refused, Steps, scriptVars, BringUpTypeOK
  <2> QED
    BY <1>6, <2>1, <2>2 DEF Connect
<1>7. ASSUME NEW h \in Hosts, Spawn(h) PROVE PortInv'
  <2>1. <<h, "vsock">> \in Scripts
    BY DEF Scripts
  <2>2. job' \in [Scripts -> Stages]
    BY <1>7, <1>t, <2>1 DEF Spawn, Run, BringUpTypeOK
  <2> QED
    BY <1>7, <1>t, <2>2, HostKeeps DEF Spawn, Steps, BringUpTypeOK
<1>8. ASSUME NEW h \in Hosts, Poll(h) PROVE PortInv'
  BY <1>8, ReachKeeps DEF Poll, Steps
<1>9. ASSUME NEW h \in Hosts, Deadline(h) PROVE PortInv'
  BY <1>t, <1>9, HostKeeps DEF Deadline, Steps, scriptVars, BringUpTypeOK
<1>10. ASSUME NEW h \in Hosts, Fallback(h) PROVE PortInv'
  <2>1. <<h, "pipe">> \in Scripts
    BY DEF Scripts
  <2>2. job' \in [Scripts -> Stages]
    BY <1>10, <1>t, <2>1 DEF Fallback, Run, BringUpTypeOK
  <2> QED
    BY <1>10, <1>t, <2>2, HostKeeps DEF Fallback, Steps, BringUpTypeOK
<1>11. ASSUME NEW h \in Hosts, Lost(h) \/ Quit(h) PROVE PortInv'
  BY <1>t, <1>11, HostKeeps DEF Lost, Quit, End, Hang, Steps, scriptVars, BringUpTypeOK
<1>12. ASSUME NEW s \in Scripts, Rm(s) PROVE PortInv'
  <2>1. job' \in [Scripts -> Stages]
    BY <1>12, <1>t DEF Rm, Unlinked, BringUpTypeOK
  <2>2. staged' \in [Distros -> Files]
    BY <1>12, <1>t DEF Rm, BringUpTypeOK
  <2> QED
    BY <1>12, <2>1, <2>2, ScriptKeeps DEF Rm, netVars
<1>13. ASSUME NEW s \in Scripts, Cp(s) PROVE PortInv'
  <2>1. /\ job' \in [Scripts -> Stages]
        /\ staged' \in [Distros -> Files]
    BY <1>13, <1>t DEF Cp, BringUpTypeOK
  <2> QED
    BY <1>13, <2>1, ScriptKeeps DEF Cp, netVars
<1>14. ASSUME NEW s \in Scripts, Copied(s) PROVE PortInv'
  <2>1. /\ job' \in [Scripts -> Stages]
        /\ staged' \in [Distros -> Files]
    BY <1>14, <1>t DEF Copied, BringUpTypeOK
  <2> QED
    BY <1>14, <2>1, ScriptKeeps DEF Copied, netVars
<1>15. ASSUME NEW s \in Scripts, Exec(s) PROVE PortInv'
  <2>1. /\ job' \in [Scripts -> Stages]
        /\ staged' \in [Distros -> Files]
    BY <1>15, <1>t DEF Exec, BringUpTypeOK
  <2>2. /\ step' \in [Hosts -> Steps]
        /\ \A h \in Hosts : step'[h] = step[h] \/ step'[h] \in {"pipe", "gone"}
    BY <1>15, <1>t DEF Exec, BringUpTypeOK, Steps
  <2>3. BringUpTypeOK'
    BY <1>15, <1>t, <2>1, <2>2 DEF Exec, BringUpTypeOK, netVars
  <2>4. UNCHANGED <<want, pinned, port, owner, queue, kids>>
    BY <1>15 DEF Exec, netVars
  <2>5. HostPorts'
    BY <1>t, <2>2, <2>4, HostPortsKept DEF PortInv, BringUpTypeOK
  <2>6. IdlePorts' /\ BaseOwner'
    BY <2>4, PutKept DEF PortInv, IdlePorts, BaseOwner
  <2> QED
    BY <2>3, <2>5, <2>6 DEF PortInv
<1>16. ASSUME NEW s \in Scripts, Bind(s) PROVE PortInv'
  <2>1. s[1] \in Hosts /\ port[s[1]] \in Ports /\ want[s[1]] \in Distros
    BY <1>t DEF Scripts, BringUpTypeOK
  <2>2. BringUpTypeOK'
    BY <1>16, <1>t, <2>1 DEF Bind, BringUpTypeOK, hostVars
  <2>3. IdlePorts'
    BY <1>16, <1>t, <2>1, BringUpAssumption
    DEF Bind, PortInv, IdlePorts, BringUpTypeOK
  <2>4. UNCHANGED <<step, want, pinned, port>>
    BY <1>16 DEF Bind, hostVars
  <2>5. HostPorts'
    BY <1>t, <2>4, HostPortsKept DEF PortInv, BringUpTypeOK
  <2>6. port[s[1]] = Base => want[s[1]] \in {Default} \cup PutAtBase
    BY <2>1 DEF PortInv, HostPorts, BaseHosts, PutAtBase
  <2>7. owner'[Base] = owner[Base] \/ (port[s[1]] = Base /\ owner'[Base] = want[s[1]])
    BY <1>16, <1>t, <2>1 DEF Bind, BringUpTypeOK
  <2>8. BaseOwner'
    BY <2>4, <2>6, <2>7, PutKept DEF PortInv, BaseOwner
  <2> QED
    BY <2>2, <2>3, <2>5, <2>8 DEF PortInv
<1>17. ASSUME NEW p \in Ports, NEW c \in Conns, Serve(p, c) PROVE PortInv'
  <2>1. BringUpTypeOK'
    BY <1>17, <1>t DEF Serve, BringUpTypeOK, hostVars, scriptVars
  <2>2. IdlePorts'
    BY <1>17, <1>t DEF Serve, PortInv, IdlePorts, BringUpTypeOK
  <2>3. UNCHANGED <<step, want, pinned, port, owner>>
    BY <1>17 DEF Serve, hostVars
  <2>4. HostPorts' /\ BaseOwner'
    BY <1>t, <2>3, HostPortsKept, PutKept DEF PortInv, BaseOwner, BringUpTypeOK
  <2> QED
    BY <2>1, <2>2, <2>4 DEF PortInv
<1>18. ASSUME NEW p \in Ports, NEW c \in Conns, ChildReaped(p, c) PROVE PortInv'
  <2>1. owner[p] \in Distros
    BY <1>18, <1>t DEF ChildReaped, PortInv, IdlePorts, BringUpTypeOK
  <2>2. BringUpTypeOK'
    BY <1>18, <1>t, <2>1 DEF ChildReaped, BringUpTypeOK, hostVars, scriptVars
  <2>3. IdlePorts'
    BY <1>18, <1>t, <2>1, BringUpAssumption
    DEF ChildReaped, Last, PortInv, IdlePorts, BringUpTypeOK
  <2>4. UNCHANGED <<step, want, pinned, port>> /\ owner'[Base] \in {owner[Base], Nobody}
    BY <1>18, <1>t, BringUpAssumption DEF ChildReaped, BringUpTypeOK, hostVars, Ports
  <2>5. HostPorts'
    BY <1>t, <2>4, HostPortsKept DEF PortInv, BringUpTypeOK
  <2>6. BaseOwner'
    BY <2>4, PutKept DEF PortInv, BaseOwner
  <2> QED
    BY <2>2, <2>3, <2>5, <2>6 DEF PortInv
<1>19. ASSUME NEW d \in Distros, CleanUp(d) PROVE PortInv'
  <2>1. job' \in [Scripts -> Stages]
    BY <1>19, <1>t DEF CleanUp, Unlinked, BringUpTypeOK
  <2>2. staged' \in [Distros -> Files]
    BY <1>19, <1>t DEF CleanUp, BringUpTypeOK
  <2> QED
    BY <1>19, <2>1, <2>2, ScriptKeeps DEF CleanUp
<1>20. ASSUME NEW p \in Ports, NEW c \in Conns, CountLost(p, c) PROVE PortInv'
  <2>1. BringUpTypeOK'
    BY <1>20, <1>t DEF CountLost, BringUpTypeOK, hostVars, scriptVars
  <2>2. IdlePorts'
    BY <1>20, <1>t DEF CountLost, PortInv, IdlePorts, BringUpTypeOK
  <2>3. UNCHANGED <<step, want, pinned, port, owner>>
    BY <1>20 DEF CountLost, hostVars
  <2>4. HostPorts' /\ BaseOwner'
    BY <1>t, <2>3, HostPortsKept, PutKept DEF PortInv, BaseOwner, BringUpTypeOK
  <2> QED
    BY <2>1, <2>2, <2>4 DEF PortInv
<1>21. CASE UNCHANGED bvars
  BY <1>21, <1>t, ScriptKeeps DEF bvars, hostVars, scriptVars, netVars, BringUpTypeOK
<1> QED
  BY <1>1, <1>2, <1>3, <1>4, <1>5, <1>6, <1>7, <1>8, <1>9, <1>10, <1>11, <1>12,
     <1>13, <1>14, <1>15, <1>16, <1>17, <1>18, <1>19, <1>20, <1>21 DEF Next

(* PortInv holds in every reachable state.                                 *)
THEOREM PortsConsistent == Spec => []PortInv
BY PortInvInit, PortInvNext, PTL DEF Spec

(* Every variable keeps its type, and the scan stays within its ports. *)
THEOREM BringUpTypeCorrect == Spec => []BringUpTypeOK
<1>1. PortInv => BringUpTypeOK
  BY DEF PortInv
<1> QED
  BY <1>1, PortsConsistent, PTL

(* A daemon that is served has its port to itself: it changes hands only   *)
(* when no connection is left, whoever bootstraps.                         *)
THEOREM NeverDisturbed == Spec => OwnerUndisturbed
<1>1. ASSUME PortInv, PortInv', [Next]_bvars, NEW p \in Ports, owner'[p] # owner[p]
      PROVE  kids'[p] = {} /\ queue'[p] = {}
  <2>0. BringUpTypeOK
    BY <1>1 DEF PortInv
  <2>1. CASE \E s \in Scripts : Bind(s)
    <3>1. owner[p] = Nobody /\ UNCHANGED <<queue, kids>>
      BY <1>1, <2>0, <2>1 DEF Bind, BringUpTypeOK
    <3> QED
      BY <1>1, <3>1 DEF PortInv, IdlePorts
  <2>2. CASE \E q \in Ports, c \in Conns : ChildReaped(q, c)
    <3>1. owner'[p] = Nobody
      BY <1>1, <2>0, <2>2 DEF ChildReaped, BringUpTypeOK
    <3> QED
      BY <1>1, <3>1 DEF PortInv, IdlePorts
  <2>3. CASE ~(\E s \in Scripts : Bind(s)) /\ ~(\E q \in Ports, c \in Conns : ChildReaped(q, c))
    <3>1. owner' = owner
      BY <1>1, <2>3
      DEF Next, Start, Probe, InfoMine, InfoOther, Attach, Connect, Spawn, Poll, Deadline,
          Fallback, Lost, Quit, End, Reach, Refused, Rm, Cp, Copied, Exec, Serve, CountLost,
          CleanUp,
          netVars, bvars
    <3> QED
      BY <1>1, <3>1
  <2> QED
    BY <2>1, <2>2, <2>3
<1>2. PortInv /\ PortInv' /\ [Next]_bvars
      => [\A p \in Ports : owner'[p] # owner[p] => kids'[p] = {} /\ queue'[p] = {}]_bvars
  BY <1>1
<1> QED
  BY <1>2, PortsConsistent, PTL DEF Spec, OwnerUndisturbed

------------------------------------------------------------------------------
(* With one distro asked for by name beside the default one, which is      *)
(* asked for by none, and no port picked by hand, the routing is right     *)
(* however many hosts cross.                                               *)
OneNamed ==
  /\ \A d, e \in Named : d = e
  /\ Pins = {}
  /\ Resident[Base] \in {Default, Nobody}
  /\ \A p \in Ports \ {Base} : Resident[p] \in Named \cup {Nobody}

(* The default distro has the base port and the named one all others.      *)
RouteInv ==
  /\ pinned = {}
  /\ \A h \in Hosts : port[h] # Base => want[h] \in Named
  /\ \A p \in Ports \ {Base} : owner[p] \in Named \cup {Nobody}

(* RouteInv holds before the first process starts.                         *)
LEMMA RouteInvInit == OneNamed /\ Init => RouteInv
BY DEF OneNamed, Init, RouteInv

(* Every step of a bring-up, and every failure, keeps RouteInv.            *)
LEMMA RouteInvNext == OneNamed /\ PortInv /\ RouteInv /\ [Next]_bvars => RouteInv'
<1> SUFFICES ASSUME OneNamed, PortInv, RouteInv, [Next]_bvars PROVE RouteInv'
  OBVIOUS
<1>0. BringUpTypeOK
  BY DEF PortInv
<1>1. ASSUME NEW h \in Hosts, Start(h) PROVE RouteInv'
  <2>1. port[h] = Base
    BY <1>1 DEF Start, PortInv, HostPorts, NewAtBase
  <2>2. /\ owner' = owner /\ pinned' = pinned
        /\ \A g \in Hosts \ {h} : want'[g] = want[g] /\ port'[g] = port[g]
        /\ port'[h] = port[h] \/ want'[h] \in Named
    BY <1>0, <1>1 DEF Start, OneNamed, netVars, BringUpTypeOK
  <2> QED
    BY <2>1, <2>2 DEF RouteInv
<1>2. ASSUME NEW h \in Hosts, InfoOther(h) PROVE RouteInv'
  <2>1. port[h] # Base
    BY <1>0, <1>2 DEF InfoOther, NotMine, BringUpTypeOK
  <2> QED
    BY <1>0, <1>2, <2>1 DEF InfoOther, RouteInv, BringUpTypeOK, netVars
<1>3. ASSUME NEW s \in Scripts, Bind(s) PROVE RouteInv'
  <2>1. s[1] \in Hosts
    BY DEF Scripts
  <2> QED
    BY <1>0, <1>3, <2>1 DEF Bind, RouteInv, BringUpTypeOK, hostVars
<1>4. ASSUME NEW p \in Ports, NEW c \in Conns, ChildReaped(p, c) PROVE RouteInv'
  BY <1>0, <1>4 DEF ChildReaped, RouteInv, BringUpTypeOK, hostVars
<1>5. CASE UNCHANGED <<want, pinned, port, owner>>
  BY <1>5 DEF RouteInv
<1>6. \/ UNCHANGED <<want, pinned, port, owner>>
      \/ \E h \in Hosts : Start(h) \/ InfoOther(h)
      \/ \E s \in Scripts : Bind(s)
      \/ \E p \in Ports, c \in Conns : ChildReaped(p, c)
  BY ZenonT(40)
  DEF Next, Probe, InfoMine, Attach, Connect, Spawn, Poll, Deadline, Fallback,
      Lost, Quit, End, Reach, Refused, Move, Rm, Cp, Copied, Exec, Serve, CountLost, CleanUp,
      hostVars, netVars, bvars
<1> QED
  BY <1>1, <1>2, <1>3, <1>4, <1>5, <1>6

(* A host whose daemon has its connection is with a daemon of its distro.  *)
THEOREM OneNamedRoutes == OneNamed /\ Spec => []RightDistro
<1>1. ASSUME OneNamed, PortInv, RouteInv PROVE RightDistro
  <2> SUFFICES ASSUME NEW h \in Hosts \ pinned,
                      <<h, "mux">> \in queue[port[h]] \cup kids[port[h]]
               PROVE  owner[port[h]] = want[h]
    BY DEF RightDistro, Held
  <2>1. port[h] \in Ports /\ want[h] \in Distros /\ owner[port[h]] \in Distros
    BY <1>1 DEF PortInv, BringUpTypeOK, IdlePorts
  <2>2. CASE port[h] = Base
    <3>1. PutAtBase = {Resident[Base]}
      BY <1>1 DEF RouteInv, PutAtBase
    <3> QED
      BY <1>1, <2>1, <2>2, <3>1, BringUpAssumption
      DEF PortInv, HostPorts, BaseHosts, BaseOwner, OneNamed
  <2>3. CASE port[h] # Base
    <3>1. owner[port[h]] \in Named /\ want[h] \in Named
      BY <1>1, <2>1, <2>3, BringUpAssumption DEF RouteInv
    <3> QED
      BY <1>1, <3>1 DEF OneNamed
  <2> QED
    BY <2>2, <2>3
<1>2. OneNamed /\ Spec => []RouteInv
  <2>1. ASSUME OneNamed PROVE Spec => []RouteInv
    <3>1. PortInv /\ RouteInv /\ [Next]_bvars => RouteInv'
      BY <2>1, RouteInvNext
    <3>2. Init => RouteInv
      BY <2>1, RouteInvInit
    <3> QED
      BY <3>1, <3>2, PortsConsistent, PTL DEF Spec
  <2> QED
    BY <2>1
<1>3. ASSUME OneNamed PROVE Spec => []RightDistro
  <2>1. PortInv /\ RouteInv => RightDistro
    BY <1>1, <1>3
  <2>2. Spec => []RouteInv
    BY <1>2, <1>3
  <2> QED
    BY <2>1, <2>2, PortsConsistent, PTL
<1> QED
  BY <1>3

------------------------------------------------------------------------------
(* A bring-up nothing crosses meets the right daemon on every port it      *)
(* scans, however many distros there are, whatever crossed before and      *)
(* whatever hosts of any distro do once they are up.                       *)
InScan(h) == port[h] \in Base + 1 .. Base + Span

(* Nothing else is under way that could take a port. *)
Alone(h) ==
  \A g \in Hosts : Busy(g) \/ Running(<<g, "vsock">>) => g = h

(* The port h has come to is free or its distro's. *)
Offered(h) ==
  InScan(h) /\ step[h] \in {"attach", "connect", "spawn", "poll"} /\ h \notin pinned
    => owner[port[h]] \in {want[h], Nobody}

CalmAlone   == \A h \in calm : Busy(h) => Alone(h)
CalmOffered == \A h \in calm : Busy(h) => Offered(h)
CalmOld     == \A h \in calm : step[h] # "new"
CalmScans   == \A h \in calm \ pinned : Held(h) /\ InScan(h) => owner[port[h]] = want[h]

CalmInv == CalmAlone /\ CalmOffered /\ CalmOld /\ CalmScans /\ PipesBindNot

(* CalmInv holds before the first process starts. *)
LEMMA CalmInvInit == Init => CalmInv
<1> SUFFICES ASSUME Init PROVE CalmInv
  OBVIOUS
<1>1. calm = {} /\ PipesBindNot
  BY DEF Init, PipesBindNot, Scripts
<1> QED
  BY <1>1 DEF CalmInv, CalmAlone, CalmOffered, CalmOld, CalmScans

(* No connection to a listener is new, so none is a wrong one. *)
LEMMA ScansKept ==
  ASSUME CalmScans, UNCHANGED <<want, pinned, port>>, calm' \subseteq calm, calm \subseteq Hosts,
         \A h \in Hosts : step'[h] = "vsock" => step[h] = "vsock",
         \A h \in Hosts : <<h, "mux">> \in queue'[port[h]] \cup kids'[port[h]]
           => <<h, "mux">> \in queue[port[h]] \cup kids[port[h]] /\ owner'[port[h]] = owner[port[h]]
  PROVE  CalmScans'
BY DEF CalmScans, Held, InScan

(* A step of a host that was busy, to somewhere else. *)
LEMMA CalmMove ==
  ASSUME BringUpTypeOK, CalmInv, NEW h \in Hosts, NEW next \in Steps \ {"new"},
         Busy(h) \/ (Up(h) /\ next = "gone"),
         Move(h, next), owner' = owner, calm' \subseteq calm,
         \A s \in Scripts : job'[s] = job[s] \/ (Busy(h) /\ s[1] = h /\ job'[s] # "bind"),
         h \in calm' /\ Busy(h) => Offered(h)',
         CalmScans'
  PROVE  CalmInv'
<1>1. /\ step'[h] = next /\ UNCHANGED <<want, port, pinned>>
      /\ \A g \in Hosts \ {h} : step'[g] = step[g]
      /\ calm \subseteq Hosts
  BY DEF Move, BringUpTypeOK
<1>2. \A g \in Hosts : Busy(g)' => Busy(g)
  BY <1>1 DEF Busy, Up
<1>3. \A g \in Hosts : Running(<<g, "vsock">>)' => Running(<<g, "vsock">>) \/ (g = h /\ Busy(h))
  BY DEF Running, Scripts
<1>4. CalmAlone'
  BY <1>1, <1>2, <1>3 DEF CalmInv, CalmAlone, Alone
<1>5. CalmOffered'
  <2> SUFFICES ASSUME NEW g \in calm', Busy(g)' PROVE Offered(g)'
    BY DEF CalmOffered
  <2>1. g \in calm /\ g \in Hosts /\ Busy(g) /\ Offered(g)
    BY <1>1, <1>2 DEF CalmInv, CalmOffered
  <2>2. CASE g # h
    BY <1>1, <2>1, <2>2 DEF Offered, InScan
  <2>3. CASE g = h
    BY <2>1, <2>3
  <2> QED
    BY <2>2, <2>3
<1>6. CalmOld'
  BY <1>1 DEF CalmInv, CalmOld
<1>7. PipesBindNot'
  BY DEF CalmInv, PipesBindNot, Scripts
<1> QED
  BY <1>4, <1>5, <1>6, <1>7 DEF CalmInv

(* A host that was not connected by a step keeps CalmInv. *)
LEMMA CalmIdle ==
  ASSUME BringUpTypeOK, CalmInv, NEW h \in Hosts, NEW next \in Steps \ {"new", "vsock"},
         Busy(h) \/ (Up(h) /\ next = "gone"),
         Move(h, next), UNCHANGED netVars, calm' \subseteq calm,
         \A s \in Scripts : job'[s] = job[s] \/ (Busy(h) /\ s[1] = h /\ job'[s] # "bind"),
         h \in calm' /\ Busy(h) => Offered(h)'
  PROVE  CalmInv'
<1>1. /\ step'[h] = next /\ UNCHANGED <<want, port, pinned, owner, queue, kids>>
      /\ \A g \in Hosts \ {h} : step'[g] = step[g]
      /\ calm \subseteq Hosts
  BY DEF Move, BringUpTypeOK, netVars
<1>2. CalmScans'
  BY <1>1, ScansKept DEF CalmInv
<1> QED
  BY <1>1, <1>2, CalmMove

(* connect() to a port, for a probe or for good. *)
LEMMA CalmReach ==
  ASSUME PortInv, CalmInv, NEW h \in Hosts, NEW kind \in {"probe", "mux"},
         NEW next \in {"info", "vsock"}, Busy(h), Reach(h, kind, next),
         kind = "mux" => next = "vsock" /\ step[h] \in {"attach", "connect", "poll"},
         kind = "probe" => next = "info"
  PROVE  CalmInv'
<1>1. BringUpTypeOK /\ port[h] \in Ports /\ calm \subseteq Hosts
  BY DEF PortInv, BringUpTypeOK
<1>2. /\ step'[h] = next /\ UNCHANGED <<want, port, pinned, owner, job, kids, calm>>
      /\ \A g \in Hosts \ {h} : step'[g] = step[g]
      /\ owner[port[h]] # Nobody
      /\ queue' = [queue EXCEPT ![port[h]] = @ \cup {<<h, kind>>}]
  BY <1>1 DEF Reach, Move, BringUpTypeOK, scriptVars
<1>3. \A g \in Hosts \ {h} : <<g, "mux">> \in queue'[port[g]] => <<g, "mux">> \in queue[port[g]]
  BY <1>1, <1>2 DEF BringUpTypeOK
<1>4. h \in calm \ pinned /\ InScan(h) /\ next = "vsock" => owner[port[h]] = want[h]
  BY <1>2 DEF CalmInv, CalmOffered, Offered
<1>5. CalmScans'
  <2> SUFFICES ASSUME NEW g \in calm \ pinned, Held(g)', InScan(g)
               PROVE  owner[port[g]] = want[g]
    BY <1>2 DEF CalmScans, InScan
  <2>1. CASE g = h
    BY <1>2, <1>4, <2>1 DEF Held
  <2>2. CASE g # h
    BY <1>1, <1>2, <1>3, <2>2 DEF Held, CalmInv, CalmScans
  <2> QED
    BY <2>1, <2>2
<1>6. Offered(h)'
  BY <1>2 DEF Offered
<1>7. Move(h, next)
  BY DEF Reach
<1> QED
  BY <1>1, <1>2, <1>5, <1>6, <1>7, CalmMove DEF Steps

(* A step of a script or a listener that starts none and takes no port     *)
(* from a calm host.                                                       *)
LEMMA CalmKept ==
  ASSUME BringUpTypeOK, CalmInv, UNCHANGED <<want, pinned, port, calm>>,
         \A h \in Hosts : Busy(h)' => Busy(h) /\ step'[h] = step[h],
         \A h \in calm : step'[h] # "new",
         \A s \in Scripts : Running(s)' => Running(s),
         PipesBindNot',
         \A h \in calm : Busy(h) /\ Offered(h) => owner'[port[h]] \in {owner[port[h]], Nobody, want[h]},
         CalmScans'
  PROVE  CalmInv'
<1>1. \A g \in Hosts : <<g, "vsock">> \in Scripts
  BY DEF Scripts
<1>2. calm \subseteq Hosts
  BY DEF BringUpTypeOK
<1>3. CalmAlone'
  BY <1>1, <1>2 DEF CalmInv, CalmAlone, Alone
<1>4. CalmOffered'
  BY <1>2 DEF CalmInv, CalmOffered, Offered, InScan
<1>5. CalmOld'
  BY DEF CalmOld
<1> QED
  BY <1>3, <1>4, <1>5 DEF CalmInv

(* Every step of a host, a script, a listener and a failure keeps CalmInv. *)
LEMMA CalmInvNext == PortInv /\ CalmInv /\ [Next]_bvars => CalmInv'
<1> SUFFICES ASSUME PortInv, CalmInv, [Next]_bvars PROVE CalmInv'
  OBVIOUS
<1>0. BringUpTypeOK /\ calm \subseteq Hosts
  BY DEF PortInv, BringUpTypeOK
<1>p. \A h \in Hosts : <<h, "vsock">> \in Scripts /\ <<h, "pipe">> \in Scripts
  BY DEF Scripts
<1>q. \A h \in Hosts : port[h] \in Ports
  BY <1>0 DEF BringUpTypeOK
<1>1. ASSUME NEW h \in Hosts, Start(h) PROVE CalmInv'
  <2>1. /\ step[h] = "new" /\ step'[h] \in {"connect", "probe"}
        /\ UNCHANGED <<owner, queue, kids, job>>
        /\ \A g \in Hosts \ {h} : /\ step'[g] = step[g] /\ port'[g] = port[g] /\ want'[g] = want[g]
                                  /\ g \in pinned <=> g \in pinned'
        /\ step'[h] = "connect" /\ h \notin pinned' => port'[h] = port[h]
    BY <1>0, <1>1 DEF Start, BringUpTypeOK, scriptVars, netVars
  <2>2. /\ Begins(h) /\ port[h] = Base
    BY <1>1 DEF Start, PortInv, HostPorts, NewAtBase
  <2>3. /\ \A g \in calm' \ {h} : g \in calm /\ ~Busy(g)
        /\ h \in calm' => \A g \in Hosts : ~Busy(g) /\ ~Running(<<g, "vsock">>)
    BY <2>1, <2>2 DEF Begins, CalmInv, CalmOld
  <2>4. \A g \in calm' \ {h} : ~Busy(g)'
    BY <1>0, <2>1, <2>3 DEF Busy, Up
  <2>5. CalmAlone'
    BY <1>0, <2>1, <2>3, <2>4 DEF CalmAlone, Alone, Busy, Up, Running
  <2>6. ~InScan(h)' \/ step'[h] # "connect" \/ h \in pinned'
    BY <2>1, <2>2 DEF InScan
  <2>7. CalmOffered'
    BY <2>1, <2>4, <2>6 DEF CalmOffered, Offered
  <2>8. CalmOld'
    BY <1>0, <2>1, <2>3 DEF CalmOld, CalmInv
  <2>9. CalmScans'
    BY <1>0, <2>1, <2>3 DEF CalmScans, CalmInv, Held, InScan
  <2>10. PipesBindNot'
    BY <2>1 DEF CalmInv, PipesBindNot
  <2> QED
    BY <2>5, <2>7, <2>8, <2>9, <2>10 DEF CalmInv
<1>2. ASSUME NEW h \in Hosts, Probe(h) PROVE CalmInv'
  <2>0. Busy(h) /\ step[h] = "probe"
    BY <1>2 DEF Probe, Busy, Up
  <2>1. CASE Reach(h, "probe", "info")
    BY <2>0, <2>1, CalmReach
  <2>2. CASE Refused(h, "connect")
    <3>1. h \in calm' => Offered(h)'
      BY <1>0, <2>2 DEF Refused, Move, Offered, netVars, BringUpTypeOK
    <3>2. calm' \subseteq calm /\ UNCHANGED netVars /\ job' = job /\ Move(h, "connect")
      BY <2>2 DEF Refused, scriptVars
    <3> QED
      BY <1>0, <2>0, <3>1, <3>2, CalmIdle DEF Steps
  <2> QED
    BY <1>2, <2>1, <2>2 DEF Probe
<1>3. ASSUME NEW h \in Hosts, InfoMine(h) PROVE CalmInv'
  <2>0. Busy(h) /\ UNCHANGED <<netVars, calm>> /\ job' = job /\ Move(h, "attach")
    BY <1>3 DEF InfoMine, Busy, Up, scriptVars
  <2>1. owner[port[h]] = want[h]
    BY <1>0, <1>3, BringUpAssumption DEF InfoMine, Announced, BringUpTypeOK
  <2>2. Offered(h)'
    BY <2>0, <2>1 DEF Move, Offered, netVars
  <2> QED
    BY <1>0, <2>0, <2>2, CalmIdle DEF Steps
<1>4. ASSUME NEW h \in Hosts, InfoOther(h) PROVE CalmInv'
  <2>1. /\ step[h] = "info" /\ step'[h] \in {"probe", "connect"}
        /\ UNCHANGED <<want, pinned, job, owner, queue, kids, calm>>
        /\ \A g \in Hosts \ {h} : step'[g] = step[g] /\ port'[g] = port[g]
    BY <1>0, <1>4 DEF InfoOther, NotMine, BringUpTypeOK, scriptVars, netVars
  <2>2. step'[h] = "connect" => ~InScan(h)'
    <3>1. port[h] \in Base + 1 .. Base + Span /\ port'[h] = port[h] + 1
      BY <1>0, <1>4 DEF InfoOther, NotMine, BringUpTypeOK
    <3>2. step'[h] = IF port[h] + 1 <= Base + Span THEN "probe" ELSE "connect"
      BY <1>0, <1>4 DEF InfoOther, BringUpTypeOK
    <3> QED
      BY <3>1, <3>2, BringUpAssumption DEF InScan
  <2>3. CalmAlone'
    BY <1>0, <2>1 DEF CalmInv, CalmAlone, Alone, Busy, Up, Running
  <2>4. CalmOffered'
    <3> SUFFICES ASSUME NEW g \in calm, Busy(g)' PROVE Offered(g)'
      BY <2>1 DEF CalmOffered
    <3>1. CASE g = h
      BY <2>1, <2>2, <3>1 DEF Offered
    <3>2. CASE g # h
      BY <1>0, <2>1, <3>2 DEF CalmInv, CalmOffered, Offered, InScan, Busy, Up
    <3> QED
      BY <3>1, <3>2
  <2>5. CalmScans'
    BY <1>0, <2>1 DEF CalmInv, CalmScans, Held, InScan
  <2>6. CalmOld' /\ PipesBindNot'
    BY <1>0, <2>1 DEF CalmInv, CalmOld, PipesBindNot
  <2> QED
    BY <2>3, <2>4, <2>5, <2>6 DEF CalmInv
<1>5. ASSUME NEW h \in Hosts, Attach(h) PROVE CalmInv'
  <2>0. Busy(h) /\ step[h] = "attach"
    BY <1>5 DEF Attach, Busy, Up
  <2>1. CASE Reach(h, "mux", "vsock")
    BY <2>0, <2>1, CalmReach
  <2>2. CASE Refused(h, "connect")
    <3>1. h \in calm' => Offered(h)'
      BY <1>0, <2>2 DEF Refused, Move, Offered, netVars, BringUpTypeOK
    <3>2. calm' \subseteq calm /\ UNCHANGED netVars /\ job' = job /\ Move(h, "connect")
      BY <2>2 DEF Refused, scriptVars
    <3> QED
      BY <1>0, <2>0, <3>1, <3>2, CalmIdle DEF Steps
  <2> QED
    BY <1>5, <2>1, <2>2 DEF Attach
<1>6. ASSUME NEW h \in Hosts, Connect(h) PROVE CalmInv'
  <2>0. Busy(h) /\ step[h] = "connect"
    BY <1>6 DEF Connect, Busy, Up
  <2>1. CASE Reach(h, "mux", "vsock")
    BY <2>0, <2>1, CalmReach
  <2>2. CASE Refused(h, "spawn")
    <3>1. h \in calm' => Offered(h)'
      BY <1>0, <2>2 DEF Refused, Move, Offered, netVars, BringUpTypeOK
    <3>2. calm' \subseteq calm /\ UNCHANGED netVars /\ job' = job /\ Move(h, "spawn")
      BY <2>2 DEF Refused, scriptVars
    <3> QED
      BY <1>0, <2>0, <3>1, <3>2, CalmIdle DEF Steps
  <2> QED
    BY <1>6, <2>1, <2>2 DEF Connect
<1>7. ASSUME NEW h \in Hosts, Spawn(h) PROVE CalmInv'
  <2>1. PICK next \in {"poll", "fall"} : Move(h, next)
    BY <1>7 DEF Spawn
  <2>2. Busy(h) /\ step[h] = "spawn" /\ UNCHANGED <<netVars, calm>>
    BY <1>7 DEF Spawn, Busy, Up
  <2>3. \A s \in Scripts : job'[s] = job[s] \/ (s[1] = h /\ job'[s] # "bind")
    <3>1. \A s \in Scripts : s = <<h, "vsock">> => s[1] = h
      OBVIOUS
    <3> QED
      BY <1>0, <1>7, <1>p, <3>1 DEF Spawn, Run, BringUpTypeOK
  <2>4. h \in calm => Offered(h)'
    <3>1. h \in calm => Offered(h)
      BY <2>2 DEF CalmInv, CalmOffered
    <3>2. UNCHANGED <<want, pinned, port, owner>>
      BY <2>1, <2>2 DEF Move, netVars
    <3> QED
      BY <2>2, <3>1, <3>2 DEF Offered, InScan
  <2> QED
    BY <1>0, <2>1, <2>2, <2>3, <2>4, CalmIdle DEF Steps
<1>8. ASSUME NEW h \in Hosts, Poll(h) PROVE CalmInv'
  BY <1>8, CalmReach DEF Poll, Busy, Up
<1>9. ASSUME NEW h \in Hosts, Deadline(h) PROVE CalmInv'
  <2>0. Busy(h) /\ Move(h, "fall") /\ UNCHANGED <<netVars, calm>> /\ job' = job
    BY <1>9 DEF Deadline, Busy, Up, scriptVars
  <2>1. Offered(h)'
    BY <1>0, <2>0 DEF Move, Offered, BringUpTypeOK
  <2> QED
    BY <1>0, <2>0, <2>1, CalmIdle DEF Steps
<1>10. ASSUME NEW h \in Hosts, Fallback(h) PROVE CalmInv'
  <2>0. Busy(h) /\ Move(h, "piped") /\ UNCHANGED <<netVars, calm>>
    BY <1>10 DEF Fallback, Busy, Up
  <2>1. Offered(h)'
    BY <1>0, <2>0 DEF Move, Offered, BringUpTypeOK
  <2>2. \A s \in Scripts : job'[s] = job[s] \/ (s[1] = h /\ job'[s] # "bind")
    <3>1. \A s \in Scripts : s = <<h, "pipe">> => s[1] = h
      OBVIOUS
    <3> QED
      BY <1>0, <1>10, <1>p, <3>1 DEF Fallback, Run, BringUpTypeOK
  <2> QED
    BY <1>0, <2>0, <2>1, <2>2, CalmIdle DEF Steps
<1>11. ASSUME NEW h \in Hosts, Lost(h) \/ Quit(h) PROVE CalmInv'
  <2>0. Up(h) /\ ~Busy(h) /\ Move(h, "gone") /\ UNCHANGED <<netVars, calm>> /\ job' = job
    BY <1>11 DEF Lost, Quit, End, Up, Busy, scriptVars
  <2> QED
    BY <1>0, <2>0, CalmIdle DEF Steps
<1>12. ASSUME NEW s \in Scripts, Rm(s) \/ Cp(s) \/ Copied(s) PROVE CalmInv'
  <2>1. UNCHANGED <<step, want, pinned, port, owner, queue, kids, calm>>
    BY <1>12 DEF Rm, Cp, Copied, netVars, hostVars
  <2>2. /\ \A r \in Scripts : Running(r)' => Running(r)
        /\ \A r \in Scripts : job'[r] = "bind" => job[r] = "bind"
    BY <1>0, <1>12 DEF Rm, Cp, Copied, Unlinked, Writing, Running, BringUpTypeOK
  <2>3. PipesBindNot'
    BY <1>p, <2>2 DEF CalmInv, PipesBindNot
  <2>4. CalmScans'
    BY <1>0, <2>1, ScansKept DEF CalmInv
  <2> QED
    BY <1>0, <2>1, <2>2, <2>3, <2>4, CalmKept DEF Busy, Up, CalmInv, CalmOld
<1>13. ASSUME NEW s \in Scripts, Exec(s) PROVE CalmInv'
  <2>1. PICK h \in Hosts, kind \in {"vsock", "pipe"} : s = <<h, kind>>
    BY DEF Scripts
  <2>2. s[1] = h /\ s[2] = kind
    BY <2>1
  <2>3. /\ job[s] = "exec" /\ UNCHANGED <<want, pinned, port, owner, queue, kids, calm>>
        /\ \A r \in Scripts \ {s} : job'[r] = job[r]
        /\ job'[s] = "done" \/ (kind = "vsock" /\ job'[s] = "bind")
    <3>1. job[s] = "exec" /\ UNCHANGED <<want, pinned, port, owner, queue, kids, calm>>
      BY <1>13 DEF Exec, netVars
    <3>2. PICK next \in {"bind", "done"} :
            job' = [job EXCEPT ![s] = next] /\ (next = "bind" => s[2] = "vsock")
      BY <1>13 DEF Exec
    <3> QED
      BY <1>0, <2>2, <3>1, <3>2 DEF BringUpTypeOK
  <2>4. /\ \A r \in Scripts : Running(r)' => Running(r)
        /\ \A r \in Scripts : job'[r] = "bind" => job[r] = "bind" \/ r = <<h, "vsock">>
    BY <2>1, <2>3 DEF Running
  <2>5. PipesBindNot'
    BY <1>p, <2>4 DEF CalmInv, PipesBindNot
  <2>6. \A g \in Hosts : step'[g] = step[g] \/ step'[g] \in {"pipe", "gone"}
    BY <1>0, <1>13 DEF Exec, BringUpTypeOK
  <2>7. CalmScans'
    BY <1>0, <2>3, <2>6, ScansKept DEF CalmInv
  <2>8. \A g \in Hosts : Busy(g)' => Busy(g) /\ step'[g] = step[g]
    BY <2>6 DEF Busy, Up
  <2>9. \A g \in calm : step'[g] # "new"
    BY <1>0, <2>6 DEF CalmInv, CalmOld
  <2> QED
    BY <1>0, <2>3, <2>4, <2>5, <2>7, <2>8, <2>9, CalmKept
<1>14. ASSUME NEW s \in Scripts, Bind(s) PROVE CalmInv'
  <2>1. PICK h \in Hosts, kind \in {"vsock", "pipe"} : s = <<h, kind>>
    BY DEF Scripts
  <2>2. s[1] = h /\ s[2] = kind
    BY <2>1
  <2>3. job[s] = "bind" /\ kind = "vsock" /\ Running(<<h, "vsock">>)
    BY <1>14, <2>1 DEF Bind, CalmInv, PipesBindNot, Running
  <2>4. /\ UNCHANGED <<step, want, pinned, port, queue, kids, calm>>
        /\ job' = [job EXCEPT ![s] = "done"]
        /\ owner' = IF owner[port[h]] = Nobody
                      THEN [owner EXCEPT ![port[h]] = want[h]] ELSE owner
    BY <1>14, <2>2 DEF Bind, hostVars
  <2>5. /\ \A r \in Scripts \ {s} : job'[r] = job[r]
        /\ job'[s] = "done"
    BY <1>0, <2>4 DEF BringUpTypeOK
  <2>6. PipesBindNot' /\ \A r \in Scripts : Running(r)' => Running(r)
    BY <1>p, <2>3, <2>5 DEF CalmInv, PipesBindNot, Running
  <2>7. \A g \in calm : Busy(g) => g = h
    BY <1>0, <2>3 DEF CalmInv, CalmAlone, Alone
  <2>8. \A g \in calm : Busy(g) => owner'[port[g]] \in {owner[port[g]], Nobody, want[g]}
    BY <1>0, <1>q, <2>4, <2>7 DEF BringUpTypeOK
  <2>9. \A p \in Ports : owner'[p] = owner[p] \/ (queue[p] = {} /\ kids[p] = {})
    BY <1>0, <1>q, <2>4 DEF PortInv, IdlePorts, BringUpTypeOK
  <2>10. CalmScans'
    BY <1>0, <1>q, <2>4, <2>9, ScansKept DEF CalmInv
  <2> QED
    BY <1>0, <2>4, <2>6, <2>8, <2>10, CalmKept DEF Busy, Up, CalmInv, CalmOld
<1>15. ASSUME NEW p \in Ports, NEW c \in Conns, Serve(p, c) PROVE CalmInv'
  <2>1. UNCHANGED <<step, want, pinned, port, job, owner, calm>>
    BY <1>15 DEF Serve, hostVars, scriptVars
  <2>2. \A q \in Ports : queue'[q] \cup kids'[q] = queue[q] \cup kids[q]
    BY <1>0, <1>15 DEF Serve, BringUpTypeOK
  <2>3. CalmScans'
    BY <1>0, <1>q, <2>1, <2>2, ScansKept DEF CalmInv
  <2>4. PipesBindNot'
    BY <2>1 DEF CalmInv, PipesBindNot
  <2> QED
    BY <1>0, <2>1, <2>3, <2>4, CalmKept DEF Busy, Up, Running, CalmInv, CalmOld
<1>16. ASSUME NEW p \in Ports, NEW c \in Conns, ChildReaped(p, c) \/ CountLost(p, c)
       PROVE  CalmInv'
  <2>1. UNCHANGED <<step, want, pinned, port, job, calm>>
    BY <1>16 DEF ChildReaped, CountLost, hostVars, scriptVars
  <2>2. \A q \in Ports : /\ owner'[q] \in {owner[q], Nobody}
                         /\ queue'[q] \subseteq queue[q] /\ kids'[q] \subseteq kids[q]
                         /\ owner'[q] # owner[q] => queue'[q] = {} /\ kids'[q] = {}
    BY <1>0, <1>16 DEF ChildReaped, CountLost, Last, BringUpTypeOK
  <2>3. CalmScans'
    BY <1>0, <1>q, <2>1, <2>2, ScansKept DEF CalmInv
  <2>4. PipesBindNot'
    BY <2>1 DEF CalmInv, PipesBindNot
  <2>5. \A h \in calm : owner'[port[h]] \in {owner[port[h]], Nobody, want[h]}
    BY <1>0, <1>q, <2>2
  <2> QED
    BY <1>0, <2>1, <2>3, <2>4, <2>5, CalmKept DEF Busy, Up, Running, CalmInv, CalmOld
<1>17. ASSUME NEW d \in Distros, CleanUp(d) PROVE CalmInv'
  <2>1. UNCHANGED <<step, want, pinned, port, owner, queue, kids, calm>>
    BY <1>17 DEF CleanUp, hostVars
  <2>2. /\ \A r \in Scripts : Running(r)' => Running(r)
        /\ \A r \in Scripts : job'[r] = "bind" => job[r] = "bind"
    BY <1>0, <1>17 DEF CleanUp, Unlinked, Writing, Running, BringUpTypeOK
  <2>3. PipesBindNot'
    BY <1>p, <2>2 DEF CalmInv, PipesBindNot
  <2>4. CalmScans'
    BY <1>0, <2>1, ScansKept DEF CalmInv
  <2> QED
    BY <1>0, <2>1, <2>2, <2>3, <2>4, CalmKept DEF Busy, Up, CalmInv, CalmOld
<1>18. CASE UNCHANGED bvars
  <2>1. UNCHANGED <<step, want, pinned, port, job, owner, queue, kids, calm>>
    BY <1>18 DEF bvars, hostVars, scriptVars, netVars
  <2>2. CalmScans'
    BY <1>0, <2>1, ScansKept DEF CalmInv
  <2>3. PipesBindNot'
    BY <2>1 DEF CalmInv, PipesBindNot
  <2> QED
    BY <1>0, <2>1, <2>2, <2>3, CalmKept DEF Busy, Up, Running, CalmInv, CalmOld
<1> QED
  BY <1>1, <1>2, <1>3, <1>4, <1>5, <1>6, <1>7, <1>8, <1>9, <1>10, <1>11, <1>12,
     <1>13, <1>14, <1>15, <1>16, <1>17, <1>18 DEF Next

(* "a window must reach the daemon actually running ITS distro": brought   *)
(* up while nothing crosses it, and in time, every host does, on the base  *)
(* port and on every port it scans, for any number of hosts, distros,      *)
(* units and picked ports; but not where it does not ask who answers.      *)
THEOREM CalmReachesItsDistro == Spec => []CalmRoutes
<1>1. ASSUME PortInv, CalmInv PROVE CalmRoutes
  <2> SUFFICES ASSUME NEW h \in calm \ pinned, Held(h), ~Unasked(h)
               PROVE  owner[port[h]] = want[h]
    BY DEF CalmRoutes
  <2>1. h \in Hosts /\ port[h] \in Ports /\ owner[port[h]] \in Distros
    BY <1>1 DEF PortInv, BringUpTypeOK, IdlePorts, Held
  <2>2. CASE port[h] = Base
    <3>1. want[h] = Default
      BY <1>1, <2>1, <2>2 DEF PortInv, HostPorts, BaseHosts
    <3>2. owner[Base] \notin PutAtBase
      BY <2>2 DEF Unasked
    <3> QED
      BY <1>1, <2>1, <2>2, <3>1, <3>2, BringUpAssumption DEF PortInv, BaseOwner
  <2>3. CASE port[h] # Base
    <3>1. InScan(h)
      BY <2>1, <2>3, BringUpAssumption DEF Unasked, PastScan, InScan, Ports
    <3> QED
      BY <1>1, <3>1 DEF CalmInv, CalmScans
  <2> QED
    BY <2>2, <2>3
<1>2. PortInv /\ CalmInv /\ [Next]_bvars => CalmInv'
  BY CalmInvNext
<1> QED
  BY <1>1, <1>2, CalmInvInit, PortsConsistent, PTL DEF Spec
==============================================================================
