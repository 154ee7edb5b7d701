---------------------------- MODULE SessionService ----------------------------
(***************************************************************************)
(* What the PTY back end promises the program that owns the panes, whatever*)
(* threads, processes and connections are behind it: sessions open one     *)
(* after another under fresh ids; an open session shows the chunks its     *)
(* programs wrote, in order and none twice; it ends exactly once, either   *)
(* with an exit code or because the back end was lost; an ended session    *)
(* shows nothing more.                                                     *)
(***************************************************************************)
EXTENDS Naturals

CONSTANT MaxId   (* sessions opened, at most *)

VARIABLES
  phase,   (* of a session: "new", "open", "ended" or "lost"               *)
  wrote,   (* chunks the session's programs wrote                          *)
  shown    (* chunks the owner was given                                   *)

svars == <<phase, wrote, shown>>

Sessions == 1..MaxId

Init ==
  /\ phase = [i \in Sessions |-> "new"]
  /\ wrote = [i \in Sessions |-> 0]
  /\ shown = [i \in Sessions |-> 0]

Open(i) ==
  /\ phase[i] = "new"
  /\ \A j \in Sessions : j < i => phase[j] # "new"
  /\ phase' = [phase EXCEPT ![i] = "open"]
  /\ UNCHANGED <<wrote, shown>>

(* The programs of a lost session may run on unseen. *)
Write(i) ==
  /\ phase[i] \in {"open", "lost"}
  /\ wrote' = [wrote EXCEPT ![i] = @ + 1]
  /\ UNCHANGED <<phase, shown>>

Show(i) ==
  /\ phase[i] = "open"
  /\ shown[i] < wrote[i]
  /\ shown' = [shown EXCEPT ![i] = @ + 1]
  /\ UNCHANGED <<phase, wrote>>

End(i, how) ==
  /\ phase[i] = "open"
  /\ phase' = [phase EXCEPT ![i] = how]
  /\ UNCHANGED <<wrote, shown>>

Next ==
  \E i \in Sessions :
    Open(i) \/ Write(i) \/ Show(i) \/ End(i, "ended") \/ End(i, "lost")

Spec == Init /\ [][Next]_svars
==============================================================================
