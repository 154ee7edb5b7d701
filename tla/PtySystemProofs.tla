--------------------------- MODULE PtySystemProofs ---------------------------
(***************************************************************************)
(* Proofs about PtySystem, for every number of sessions, slots and every   *)
(* buffer size: the types, then the parts of the inductive invariant of    *)
(* PtySystemInv one after the other, and last that the system implements   *)
(* SessionService.                                                         *)
(***************************************************************************)
EXTENDS PtySystemInv, SequenceTheorems, FiniteSetTheorems, TLAPS

(* The typing of the whole state and of the one slot end_sess works on.    *)
TypeInv == TypeOK /\ (pc = "reap" => slot[reap] # 0)

USE DEF Ids, Slots, wireVars, seen, readerVars, muxVars, ownerVars, hostVars,
        ptyVars, daemonVars, vars

------------------------------------------------------------------------------
(* What is read off a stream has the stream's type, and so has the rest.   *)
LEMMA Pop ==
  ASSUME NEW S, NEW s \in Seq(S), s # <<>>
  PROVE  /\ Head(s) \in S
         /\ Tail(s) \in Seq(S)
         /\ Len(s) \in Nat \ {0}
         /\ Len(Tail(s)) = Len(s) - 1
         /\ Head(s) = s[1]
         /\ \A k \in 1..Len(Tail(s)) : Tail(s)[k] = s[k + 1]
  BY HeadTailProperties, EmptySeq

(* A frame of the type put at the end of a stream keeps its type.          *)
LEMMA Push ==
  ASSUME NEW S, NEW s \in Seq(S), NEW e \in S
  PROVE  /\ Append(s, e) \in Seq(S)
         /\ Len(Append(s, e)) = Len(s) + 1
         /\ Append(s, e)[Len(s) + 1] = e
         /\ \A k \in 1..Len(s) : Append(s, e)[k] = s[k]
  OBVIOUS

(* What is left of a stream cut off anywhere is its beginning.             *)
LEMMA Cut ==
  ASSUME NEW S, NEW s \in Seq(S), NEW n \in 0..Len(s)
  PROVE  /\ SubSeq(s, 1, n) \in Seq(S)
         /\ Len(SubSeq(s, 1, n)) = n
         /\ \A k \in 1..n : SubSeq(s, 1, n)[k] = s[k]
<1>1. \A k \in 1..n : s[k] \in S
  BY ElementOfSeq, LenProperties
<1> QED BY <1>1, SubSeqProperties, LenProperties

(* A queue's count stays within its capacity.                              *)
LEMMA Count ==
  ASSUME NEW n \in Nat, NEW f \in [Ids -> 0..n], NEW i \in Ids
  PROVE  /\ f[i] < n => [f EXCEPT ![i] = @ + 1] \in [Ids -> 0..n]
         /\ f[i] > 0 => [f EXCEPT ![i] = @ - 1] \in [Ids -> 0..n]
  OBVIOUS

(* A call in progress is about a session until it becomes the drop.        *)
LEMMA CallStep ==
  ASSUME NEW c \in Calls, NEW op,
         \/ /\ c.op \in {"openWrite", "opened", "closeRemove", "closed"}
            /\ op \in {"openWrite", "opened", "closeRemove", "closed"}
         \/ c.op \in {"join", "dropped"} /\ op \in {"join", "dropped"}
  PROVE  /\ c.op \notin {"join", "dropped"} => c.id \in Ids
         /\ [c EXCEPT !.op = op] \in Calls
         /\ [c EXCEPT !.op = op].op = op
         /\ [c EXCEPT !.op = op].id = c.id
  BY DEF Calls, Idle

(* A frame the host writes goes to the end of its stream, or nowhere.      *)
LEMMA WriteType ==
  ASSUME WireTypeOK, NEW f \in HostFrames, WriteFrame(f)
  PROVE  /\ toSrv' \in Seq(HostFrames)
         /\ taken \in 0..Len(toSrv')
<1>1. CASE UNCHANGED toSrv
  BY <1>1 DEF WireTypeOK
<1>2. CASE toSrv' = Append(toSrv, f)
  BY <1>2, Push, LenProperties DEF WireTypeOK
<1> QED BY <1>1, <1>2 DEF WriteFrame

(* What the reader sends is an event, and its counts stay numbers.         *)
LEMMA TxType ==
  ASSUME MuxTypeOK, NEW ev \in Events, TxSend(ev)
  PROVE  /\ chan' \in Seq(Events)
         /\ nData' \in [Ids -> Nat]
         /\ nExit' \in [Ids -> Nat]
         /\ nGone' \in [Ids -> Nat]
<1>1. chan' \in Seq(Events)
  BY Push DEF TxSend, MuxTypeOK
<1>2. ASSUME NEW n \in [Ids -> Nat], NEW type \in {"DATA", "EXIT", "GONE"}
      PROVE  Counted(n, type, ev) \in [Ids -> Nat]
  BY DEF Counted, Events, Info
<1> QED BY <1>1, <1>2 DEF TxSend, MuxTypeOK

(* What the feed thread posts is a user event.                             *)
LEMMA PostType ==
  ASSUME OwnerTypeOK, NEW type, NEW i,
         Frame(type, i) \in UserEvents, Post(type, i)
  PROVE  evq' \in Seq(UserEvents)
  BY Push DEF OwnerTypeOK, Post

(* What the daemon sends is a frame of its stream.                         *)
LEMMA SendType ==
  ASSUME WireTypeOK, NEW f \in SrvFrames, Send(f)
  PROVE  toHost' \in Seq(SrvFrames)
  BY Push DEF WireTypeOK, Send

(* A frame the daemon has read is there to be handled.                     *)
LEMMA ConsumeType ==
  ASSUME WireTypeOK, taken > 0
  PROVE  /\ toSrv # <<>>
         /\ Head(toSrv) \in HostFrames
         /\ Head(toSrv).id \in Ids
         /\ Consume => /\ toSrv' \in Seq(HostFrames)
                       /\ taken' \in 0..Len(toSrv')
<1>1. Len(toSrv) \in Nat \ {0}
  BY LenProperties DEF WireTypeOK
<1>2. toSrv # <<>>
  BY <1>1, EmptySeq
<1>3. /\ Head(toSrv) \in HostFrames
      /\ Tail(toSrv) \in Seq(HostFrames)
      /\ Len(Tail(toSrv)) = Len(toSrv) - 1
  BY <1>2, Pop DEF WireTypeOK
<1>4. Head(toSrv).id \in Ids
  BY <1>3 DEF HostFrames
<1> QED BY SMTT(20), <1>1, <1>2, <1>3, <1>4 DEF WireTypeOK, Consume

(* end_sess leaves every part of the daemon of its type.                   *)
LEMMA EndSessType ==
  ASSUME DaemonTypeOK, NEW s \in Slots, slot[s] # 0,
         NEW killit \in BOOLEAN, NEW ret \in {"feed", "scan", "teardown"},
         EndSess(s, killit, ret)
  PROVE  /\ shell' \in [Ids -> Procs]
         /\ tty' \in [Ids -> {"none", "open", "hung"}]
         /\ inq' \in [Ids -> 0..InCap]
         /\ outq' \in [Ids -> 0..OutCap]
         /\ reap' = s
         /\ back' = ret
         /\ pc' = "reap"
<1> USE DaemonAssumption, WireAssumption DEF DaemonTypeOK, EndSess
<1>0. slot[s] \in Ids
  OBVIOUS
<1>1. shell' \in [Ids -> Procs]
  <2>1. CASE UNCHANGED shell
    BY <2>1
  <2>2. CASE shell' = [shell EXCEPT ![slot[s]] = "doomed"]
    BY <2>2 DEF Procs
  <2> QED BY <2>1, <2>2 DEF Hup
<1>2. inq' \in [Ids -> 0..InCap]
  <2>1. inq \in [Ids -> 0..InCap] /\ 0 \in 0..InCap
    OBVIOUS
  <2> HIDE DEF DaemonTypeOK
  <2> QED BY <2>1
<1>3. outq' \in [Ids -> 0..OutCap]
  <2>1. outq \in [Ids -> 0..OutCap] /\ 0 \in 0..OutCap
    BY SMTT(20)
  <2> HIDE DEF DaemonTypeOK
  <2> QED BY <2>1
<1> QED BY <1>1, <1>2, <1>3

------------------------------------------------------------------------------
(* The initial state is well typed.                                        *)
LEMMA TypeInit == Init => TypeInv
<1> SUFFICES ASSUME Init PROVE TypeInv
  OBVIOUS
<1> USE WireAssumption, MuxAssumption, HostAssumption, DaemonAssumption DEF Init
<1>1. WireTypeOK
  BY EmptySeq DEF WireInit, WireTypeOK
<1>2. MuxTypeOK
  <2> USE DEF MuxInit
  <2>1. call \in Calls
    BY DEF Calls
  <2>2. chan \in Seq(Events)
    BY EmptySeq
  <2>3. nextId \in 0..MaxId
    OBVIOUS
  <2> QED BY <2>1, <2>2, <2>3 DEF MuxTypeOK
<1>3. OwnerTypeOK
  BY EmptySeq DEF OwnerInit, OwnerTypeOK
<1>4. DaemonTypeOK /\ pc # "reap"
  <2> USE DEF DaemonInit
  <2>1. shell \in [Ids -> Procs]
    BY DEF Procs
  <2>2. /\ slot \in [Slots -> 0..MaxId]
        /\ reap \in Slots
        /\ inq \in [Ids -> 0..InCap]
        /\ outq \in [Ids -> 0..OutCap]
    OBVIOUS
  <2> QED BY <2>1, <2>2 DEF DaemonTypeOK
<1> QED BY <1>1, <1>2, <1>3, <1>4 DEF TypeInv, TypeOK

(* A step of the host keeps the types, and does not touch the daemon. *)
LEMMA HostType ==
  ASSUME TypeInv, HostNext
  PROVE  TypeInv'
<1> USE WireAssumption, MuxAssumption, HostAssumption DEF TypeInv, TypeOK
<1>0. DaemonTypeOK' /\ (pc = "reap" => slot[reap] # 0)'
  BY ZenonT(40) DEF HostNext, DaemonTypeOK
<1>1. CASE UiOpen /\ UNCHANGED daemonVars
  <2>1. WireTypeOK'
    BY <1>1 DEF UiOpen, OpenInsert, WireTypeOK
  <2>2. MuxTypeOK'
    BY SMTT(20), <1>1 DEF UiOpen, OpenInsert, MuxTypeOK, Calls
  <2>3. OwnerTypeOK'
    BY <1>1 DEF UiOpen, OwnerTypeOK
  <2> QED BY <1>0, <2>1, <2>2, <2>3
<1>2. CASE UiOpenWrite /\ UNCHANGED daemonVars
  <2>0. Frame("OPEN", call.id) \in HostFrames /\ [call EXCEPT !.op = "opened"] \in Calls
    BY <1>2, CallStep DEF UiOpenWrite, OpenWrite, MuxTypeOK, Frame, HostFrames
  <2>1. WireTypeOK'
    BY <1>2, <2>0, WriteType DEF UiOpenWrite, OpenWrite, WireTypeOK
  <2>2. MuxTypeOK'
    BY <1>2, <2>0 DEF UiOpenWrite, OpenWrite, WriteFrame, MuxTypeOK
  <2>3. OwnerTypeOK'
    BY <1>2 DEF UiOpenWrite, OwnerTypeOK
  <2> QED BY <1>0, <2>1, <2>2, <2>3
<1>3. CASE UiRegister /\ UNCHANGED daemonVars
  <2>1. WireTypeOK'
    BY <1>3 DEF UiRegister, WireTypeOK
  <2>2. MuxTypeOK'
    BY <1>3 DEF UiRegister, MuxTypeOK, Calls
  <2>3. OwnerTypeOK'
    BY ZenonT(40), <1>3, CallStep DEF UiRegister, MuxTypeOK, OwnerTypeOK
  <2> QED BY <1>0, <2>1, <2>2, <2>3
<1>4. ASSUME NEW i \in Ids, NEW type \in {"DATA", "RESIZE", "SIGNAL"},
             UiSend(type, i) /\ UNCHANGED daemonVars
      PROVE  TypeInv'
  <2>0. Frame(type, i) \in HostFrames
    BY DEF Frame, HostFrames
  <2>1. WireTypeOK'
    BY <1>4, <2>0, WriteType DEF UiSend, SendFrame, WireTypeOK
  <2>2. MuxTypeOK'
    BY <1>4 DEF UiSend, SendFrame, WriteFrame, MuxTypeOK
  <2>3. OwnerTypeOK'
    BY <1>4 DEF UiSend, OwnerTypeOK
  <2> QED BY <1>0, <2>1, <2>2, <2>3
<1>5. ASSUME NEW i \in Ids,
             UiClose(i) /\ UNCHANGED daemonVars
      PROVE  TypeInv'
  <2>0. Frame("CLOSE", i) \in HostFrames
    BY DEF Frame, HostFrames
  <2>1. WireTypeOK'
    BY <1>5, <2>0, WriteType DEF UiClose, CloseWrite, WireTypeOK
  <2>2. MuxTypeOK'
    BY <1>5 DEF UiClose, CloseWrite, WriteFrame, MuxTypeOK, Calls
  <2>3. OwnerTypeOK'
    BY <1>5 DEF UiClose, OwnerTypeOK
  <2> QED BY <1>0, <2>1, <2>2, <2>3
<1>6. CASE UiCloseRemove /\ UNCHANGED daemonVars
  <2>1. WireTypeOK'
    BY <1>6 DEF UiCloseRemove, CloseRemove, WireTypeOK
  <2>2. MuxTypeOK'
    BY <1>6, CallStep DEF UiCloseRemove, CloseRemove, MuxTypeOK
  <2>3. OwnerTypeOK'
    BY <1>6 DEF UiCloseRemove, OwnerTypeOK
  <2> QED BY <1>0, <2>1, <2>2, <2>3
<1>7. CASE UiUnregister /\ UNCHANGED daemonVars
  <2>1. WireTypeOK'
    BY <1>7 DEF UiUnregister, WireTypeOK
  <2>2. MuxTypeOK'
    BY <1>7 DEF UiUnregister, MuxTypeOK, Calls
  <2>3. OwnerTypeOK'
    BY <1>7 DEF UiUnregister, RemovePane, OwnerTypeOK
  <2> QED BY <1>0, <2>1, <2>2, <2>3
<1>8. CASE UiQuit /\ UNCHANGED daemonVars
  <2>1. WireTypeOK'
    BY <1>8 DEF UiQuit, WireTypeOK
  <2>2. MuxTypeOK'
    BY <1>8 DEF UiQuit, MuxTypeOK
  <2>3. OwnerTypeOK'
    BY <1>8 DEF UiQuit, OwnerTypeOK
  <2> QED BY <1>0, <2>1, <2>2, <2>3
<1>9. CASE UiEvent /\ UNCHANGED daemonVars
  <2>1. WireTypeOK'
    BY <1>9 DEF UiEvent, WireTypeOK
  <2>2. MuxTypeOK'
    BY <1>9 DEF UiEvent, MuxTypeOK
  <2>3. OwnerTypeOK'
    BY <1>9, Pop DEF UiEvent, RemovePane, OwnerTypeOK
  <2> QED BY <1>0, <2>1, <2>2, <2>3
<1>10. CASE UiDrop /\ UNCHANGED daemonVars
  <2>1. WireTypeOK'
    BY <1>10 DEF UiDrop, DropTeardown, WireTypeOK
  <2>2. MuxTypeOK'
    BY <1>10 DEF UiDrop, DropTeardown, MuxTypeOK, Calls
  <2>3. OwnerTypeOK'
    BY <1>10, EmptySeq DEF UiDrop, OwnerTypeOK
  <2> QED BY <1>0, <2>1, <2>2, <2>3
<1>11. CASE UiDropped /\ UNCHANGED daemonVars
  <2>1. WireTypeOK'
    BY <1>11 DEF UiDropped, DropJoin, WireTypeOK
  <2>2. MuxTypeOK'
    BY <1>11, CallStep DEF UiDropped, DropJoin, MuxTypeOK
  <2>3. OwnerTypeOK'
    BY <1>11 DEF UiDropped, OwnerTypeOK
  <2> QED BY <1>0, <2>1, <2>2, <2>3
<1>12. CASE FeedTake /\ UNCHANGED daemonVars
  <2>0. /\ <<>> \in Seq(Events) /\ Tail(chan) \in Seq(Events)
        /\ Head(chan) \in Events
    BY <1>12, EmptySeq, Pop DEF FeedTake, MuxTypeOK
  <2>1. WireTypeOK'
    BY <1>12 DEF FeedTake, WireTypeOK
  <2>2. MuxTypeOK'
    BY <1>12, <2>0 DEF FeedTake, MuxTypeOK
  <2>3. OwnerTypeOK'
    <3>1. /\ Frame("Distro", 0) \in UserEvents
          /\ Head(chan).type \in {"EXIT", "GONE"} =>
               Frame("SessionExit", Head(chan).id) \in UserEvents
      BY <2>0 DEF Frame, UserEvents, Events, Info
    <3>2. evq' \in Seq(UserEvents)
      <4>1. CASE UNCHANGED evq
        BY <4>1 DEF OwnerTypeOK
      <4>2. CASE /\ Head(chan).type \in {"EXIT", "GONE"}
                 /\ Post("SessionExit", Head(chan).id)
        BY <3>1, <4>2, PostType
      <4>3. CASE Post("Distro", 0)
        BY <3>1, <4>3, PostType
      <4> QED BY <1>12, <4>1, <4>2, <4>3 DEF FeedTake
    <3>3. fed' \in [Ids -> Nat]
      BY <1>12 DEF FeedTake, OwnerTypeOK
    <3> QED BY <1>12, <3>2, <3>3 DEF FeedTake, OwnerTypeOK
  <2> QED BY <1>0, <2>1, <2>2, <2>3
<1>13. CASE FeedEnd /\ UNCHANGED daemonVars
  <2>1. WireTypeOK'
    BY <1>13 DEF FeedEnd, WireTypeOK
  <2>2. MuxTypeOK'
    BY <1>13 DEF FeedEnd, MuxTypeOK
  <2>3. OwnerTypeOK'
    BY <1>13, Push DEF FeedEnd, Post, Frame, UserEvents, OwnerTypeOK
  <2> QED BY <1>0, <2>1, <2>2, <2>3
<1>14. CASE ReadFrame /\ UNCHANGED <<ownerVars, daemonVars>>
  <2>0. /\ Tail(toHost) \in Seq(SrvFrames)
        /\ Head(toHost) \in Events
        /\ Head(toHost).type \in {"DATA", "EXIT", "GONE"} => Head(toHost).id \in Ids
    BY <1>14, Pop DEF ReadFrame, WireTypeOK, SrvFrames, Events, Info
  <2>1. WireTypeOK'
    BY <1>14, <2>0 DEF ReadFrame, WireTypeOK
  <2>2. MuxTypeOK'
    BY <1>14, <2>0, TxType DEF ReadFrame, MuxTypeOK
  <2>3. OwnerTypeOK'
    BY <1>14 DEF OwnerTypeOK
  <2> QED BY <1>0, <2>1, <2>2, <2>3
<1>15. CASE ReadEnd /\ UNCHANGED <<ownerVars, daemonVars>>
  <2>1. WireTypeOK'
    BY <1>15, EmptySeq DEF ReadEnd, WireTypeOK
  <2>2. MuxTypeOK'
    BY <1>15 DEF ReadEnd, MuxTypeOK
  <2>3. OwnerTypeOK'
    BY <1>15 DEF OwnerTypeOK
  <2> QED BY <1>0, <2>1, <2>2, <2>3
<1>16. CASE DrainLive /\ UNCHANGED <<ownerVars, daemonVars>>
  <2>1. WireTypeOK'
    BY <1>16 DEF DrainLive, WireTypeOK
  <2>2. MuxTypeOK'
    BY <1>16 DEF DrainLive, MuxTypeOK
  <2>3. OwnerTypeOK'
    BY <1>16 DEF OwnerTypeOK
  <2> QED BY <1>0, <2>1, <2>2, <2>3
<1>17. ASSUME NEW i \in Ids,
             NotifyGone(i) /\ UNCHANGED <<ownerVars, daemonVars>>
      PROVE  TypeInv'
  <2>0. Frame("GONE", i) \in Events /\ Frame("GONE", i).id = i
    BY DEF Frame, Events
  <2>1. WireTypeOK'
    BY <1>17 DEF NotifyGone, WireTypeOK
  <2>2. MuxTypeOK'
    BY <1>17, <2>0, TxType DEF NotifyGone, MuxTypeOK
  <2>3. OwnerTypeOK'
    BY <1>17 DEF OwnerTypeOK
  <2> QED BY <1>0, <2>1, <2>2, <2>3
<1>18. CASE ReaderDone /\ UNCHANGED <<ownerVars, daemonVars>>
  <2>1. WireTypeOK'
    BY <1>18 DEF ReaderDone, WireTypeOK
  <2>2. MuxTypeOK'
    BY <1>18 DEF ReaderDone, MuxTypeOK
  <2>3. OwnerTypeOK'
    BY <1>18 DEF OwnerTypeOK
  <2> QED BY <1>0, <2>1, <2>2, <2>3
<1> QED BY <1>1, <1>2, <1>3, <1>4, <1>5, <1>6, <1>7, <1>8, <1>9, <1>10, <1>11,
           <1>12, <1>13, <1>14, <1>15, <1>16, <1>17, <1>18 DEF HostNext

(* A step of the daemon or of a program keeps the types, and does not      *)
(* touch the host.                                                         *)
LEMMA DaemonType ==
  ASSUME TypeInv, DaemonNext
  PROVE  TypeInv'
<1> USE WireAssumption, DaemonAssumption DEF TypeInv, TypeOK
<1>0. MuxTypeOK' /\ OwnerTypeOK'
  BY DEF DaemonNext, MuxTypeOK, OwnerTypeOK
<1>slot. slot \in [Slots -> 0..MaxId] /\ reap \in Slots
  BY DEF DaemonTypeOK
<1>inq. inq \in [Ids -> 0..InCap]
  BY DEF DaemonTypeOK
<1>outq. outq \in [Ids -> 0..OutCap]
  BY DEF DaemonTypeOK
<1>wrote. wrote \in [Ids -> Nat]
  BY DEF DaemonTypeOK
<1>tty. tty \in [Ids -> {"none", "open", "hung"}]
  BY DEF DaemonTypeOK
<1>1. CASE Start /\ UNCHANGED hostVars
  <2>0. Info \in SrvFrames
    BY DEF SrvFrames
  <2>1. WireTypeOK'
    BY <1>1, <2>0, SendType DEF Start, WireTypeOK
  <2>2. DaemonTypeOK'
    BY <1>1 DEF Start, DaemonTypeOK
  <2>3. (pc = "reap" => slot[reap] # 0)'
    BY <1>1 DEF Start
  <2> QED BY <1>0, <2>1, <2>2, <2>3
<1>2. CASE Poll /\ UNCHANGED hostVars
  <2>1. WireTypeOK'
    BY <1>2 DEF Poll, WireTypeOK
  <2>2. DaemonTypeOK'
    <3>1. ready' \subseteq Slots /\ ctl' \in BOOLEAN
      BY <1>2 DEF Poll, CtlReady
    <3> QED BY <1>2, <3>1 DEF Poll, DaemonTypeOK
  <2>3. (pc = "reap" => slot[reap] # 0)'
    BY <1>2 DEF Poll
  <2> QED BY <1>0, <2>1, <2>2, <2>3
<1>3. CASE ReadControl /\ UNCHANGED hostVars
  <2>1. WireTypeOK'
    BY <1>3, LenProperties DEF ReadControl, WireTypeOK
  <2>2. DaemonTypeOK'
    BY <1>3 DEF ReadControl, DaemonTypeOK
  <2>3. (pc = "reap" => slot[reap] # 0)'
    BY <1>3 DEF ReadControl
  <2> QED BY <1>0, <2>1, <2>2, <2>3
<1>4. CASE HandleOpen /\ UNCHANGED hostVars
  <2>0. /\ Head(toSrv).id \in Ids
        /\ toSrv' \in Seq(HostFrames)
        /\ taken' \in 0..Len(toSrv')
    BY <1>4, ConsumeType DEF HandleOpen, Next1
  <2>4. Frame("EXIT", Head(toSrv).id) \in SrvFrames
    BY <2>0 DEF Frame, SrvFrames
  <2>1. WireTypeOK'
    BY <1>4, <2>0, <2>4, SendType DEF HandleOpen, WireTypeOK
  <2>2. DaemonTypeOK'
    <3>1. shell' \in [Ids -> Procs]
      BY <1>4, <2>0 DEF HandleOpen, DaemonTypeOK, Procs
    <3>2. tty' \in [Ids -> {"none", "open", "hung"}]
      BY <1>4, <2>0, <1>tty DEF HandleOpen
    <3>3. slot' \in [Slots -> 0..MaxId]
      BY <1>4, <2>0, <1>slot DEF HandleOpen
    <3> QED BY <1>4, <3>1, <3>2, <3>3 DEF HandleOpen, DaemonTypeOK
  <2>3. (pc = "reap" => slot[reap] # 0)'
    BY <1>4 DEF HandleOpen, Next1
  <2> QED BY <1>0, <2>1, <2>2, <2>3
<1>5. CASE HandleData /\ UNCHANGED hostVars
  <2>0. /\ Head(toSrv).id \in Ids
        /\ toSrv' \in Seq(HostFrames)
        /\ taken' \in 0..Len(toSrv')
    BY <1>5, ConsumeType DEF HandleData, Next1
  <2>1. WireTypeOK'
    BY <1>5, <2>0 DEF HandleData, WireTypeOK
  <2>2. DaemonTypeOK'
    <3>0. PICK i \in Ids : i = Head(toSrv).id
      BY <2>0
    <3>1. \/ UNCHANGED inq
          \/ inq[i] < InCap /\ inq' = [inq EXCEPT ![i] = @ + 1]
      BY <1>5, <3>0 DEF HandleData
    <3>2. inq' \in [Ids -> 0..InCap]
      BY <3>1, <1>inq, Count, DaemonAssumption
    <3> QED BY <1>5, <3>2 DEF HandleData, DaemonTypeOK
  <2>3. (pc = "reap" => slot[reap] # 0)'
    BY <1>5 DEF HandleData, Next1
  <2> QED BY <1>0, <2>1, <2>2, <2>3
<1>6. CASE HandleResize /\ UNCHANGED hostVars
  <2>0. /\ Head(toSrv).id \in Ids
        /\ toSrv' \in Seq(HostFrames)
        /\ taken' \in 0..Len(toSrv')
    BY <1>6, ConsumeType DEF HandleResize, Next1
  <2>1. WireTypeOK'
    BY <1>6, <2>0 DEF HandleResize, WireTypeOK
  <2>2. DaemonTypeOK'
    BY <1>6, <2>0 DEF HandleResize, DaemonTypeOK
  <2>3. (pc = "reap" => slot[reap] # 0)'
    BY <1>6 DEF HandleResize, Next1
  <2> QED BY <1>0, <2>1, <2>2, <2>3
<1>7. CASE HandleSignal /\ UNCHANGED hostVars
  <2>0. /\ Head(toSrv).id \in Ids
        /\ toSrv' \in Seq(HostFrames)
        /\ taken' \in 0..Len(toSrv')
    BY <1>7, ConsumeType DEF HandleSignal, Next1
  <2>1. WireTypeOK'
    BY <1>7, <2>0 DEF HandleSignal, WireTypeOK
  <2>2. DaemonTypeOK'
    BY <1>7, <2>0 DEF HandleSignal, DaemonTypeOK, Procs
  <2>3. (pc = "reap" => slot[reap] # 0)'
    BY <1>7 DEF HandleSignal, Next1
  <2> QED BY <1>0, <2>1, <2>2, <2>3
<1>8. CASE HandleClose /\ UNCHANGED hostVars
  <2>0. /\ Head(toSrv).id \in Ids
        /\ toSrv' \in Seq(HostFrames)
        /\ taken' \in 0..Len(toSrv')
    BY <1>8, ConsumeType DEF HandleClose, Next1
  <2>1. WireTypeOK'
    BY <1>8, <2>0 DEF HandleClose, WireTypeOK
  <2>2. DaemonTypeOK'
    <3>1. ASSUME NEW s \in Slots, slot[s] = Head(toSrv).id,
                 EndSess(s, TRUE, "feed")
          PROVE  DaemonTypeOK' /\ (pc = "reap" => slot[reap] # 0)'
      <4>1. slot[s] # 0
        BY <2>0, <3>1
      <4>2. /\ shell' \in [Ids -> Procs]
            /\ tty' \in [Ids -> {"none", "open", "hung"}]
            /\ inq' \in [Ids -> 0..InCap]
            /\ outq' \in [Ids -> 0..OutCap]
            /\ reap' = s
            /\ back' = "feed"
            /\ pc' = "reap"
        BY <3>1, <4>1, EndSessType
      <4> QED BY <1>8, <4>1, <4>2 DEF HandleClose, DaemonTypeOK
    <3>2. CASE UNCHANGED <<shell, tty, inq, outq, reap, back, pc>>
      BY <1>8, <3>2 DEF HandleClose, DaemonTypeOK
    <3> QED BY <1>8, <3>1, <3>2 DEF HandleClose
  <2>3. (pc = "reap" => slot[reap] # 0)'
    <3>1. ASSUME NEW s \in Slots, slot[s] = Head(toSrv).id,
                 EndSess(s, TRUE, "feed")
          PROVE  (pc = "reap" => slot[reap] # 0)'
      BY <1>8, <2>0, <3>1 DEF HandleClose, EndSess
    <3> QED BY <1>8, <3>1 DEF HandleClose
  <2> QED BY <1>0, <2>1, <2>2, <2>3
<1>9. CASE FeedDone /\ UNCHANGED hostVars
  <2>1. WireTypeOK'
    BY <1>9 DEF FeedDone, WireTypeOK
  <2>2. DaemonTypeOK'
    BY <1>9 DEF FeedDone, DaemonTypeOK
  <2>3. (pc = "reap" => slot[reap] # 0)'
    BY <1>9 DEF FeedDone
  <2> QED BY <1>0, <2>1, <2>2, <2>3
<1>10. ASSUME NEW s \in Slots, Forward(s) /\ UNCHANGED hostVars
      PROVE  TypeInv'
  <2>1. WireTypeOK'
    <3>1. slot[s] # 0 => Frame("DATA", slot[s]) \in SrvFrames
      BY DEF Frame, SrvFrames, DaemonTypeOK
    <3> QED BY <1>10, <3>1, SendType DEF Forward, WireTypeOK
  <2>2. DaemonTypeOK' /\ (pc = "reap" => slot[reap] # 0)'
    <3>0. ready' \subseteq Slots
      BY <1>10 DEF Forward, DaemonTypeOK
    <3>1. CASE /\ UNCHANGED <<pc, reap, back, shell, tty, inq, eof>>
               /\ \/ UNCHANGED outq
                  \/ /\ slot[s] # 0 /\ outq[slot[s]] > 0
                     /\ outq' = [outq EXCEPT ![slot[s]] = @ - 1]
      <4>0. slot[s] # 0 => slot[s] \in Ids
        BY <1>slot
      <4>1. outq' \in [Ids -> 0..OutCap]
        BY SMTT(20), <3>1, <4>0, <1>outq, Count, DaemonAssumption
      <4> QED BY <1>10, <3>0, <3>1, <4>1 DEF Forward, DaemonTypeOK
    <3>2. CASE /\ slot[s] # 0
               /\ EndSess(s, FALSE, "scan")
               /\ eof' = eof \cup {slot[s]}
      <4>1. /\ shell' \in [Ids -> Procs]
            /\ tty' \in [Ids -> {"none", "open", "hung"}]
            /\ inq' \in [Ids -> 0..InCap]
            /\ outq' \in [Ids -> 0..OutCap]
            /\ reap' = s
            /\ back' = "scan"
            /\ pc' = "reap"
        BY <3>2, EndSessType
      <4>0. slot[s] \in Ids
        BY <1>slot, <3>2
      <4>2. eof' \subseteq Ids
        BY <3>2, <4>0 DEF DaemonTypeOK
      <4> QED BY <1>10, <3>0, <3>2, <4>1, <4>2 DEF Forward, DaemonTypeOK
    <3> QED BY <1>10, <3>1, <3>2 DEF Forward
  <2> QED BY <1>0, <2>1, <2>2
<1>11. CASE Reap /\ UNCHANGED hostVars
  <2>0. slot[reap] \in Ids /\ Frame("EXIT", slot[reap]) \in SrvFrames
    BY <1>11 DEF Reap, DaemonTypeOK, Frame, SrvFrames
  <2>1. WireTypeOK'
    BY <1>11, <2>0, SendType DEF Reap, WireTypeOK
  <2>2. DaemonTypeOK'
    <3>1. shell' \in [Ids -> Procs]
      BY <1>11, <2>0 DEF Reap, DaemonTypeOK, Procs
    <3>2. slot' \in [Slots -> 0..MaxId] /\ reap' \in Slots
      BY <1>11, <1>slot DEF Reap
    <3> QED BY <1>11, <3>1, <3>2 DEF Reap, DaemonTypeOK
  <2>3. (pc = "reap" => slot[reap] # 0)'
    BY <1>11 DEF Reap, DaemonTypeOK
  <2> QED BY <1>0, <2>1, <2>2, <2>3
<1>12. CASE PassDone /\ UNCHANGED hostVars
  <2>1. WireTypeOK'
    BY <1>12 DEF PassDone, WireTypeOK
  <2>2. DaemonTypeOK'
    BY <1>12 DEF PassDone, DaemonTypeOK
  <2>3. (pc = "reap" => slot[reap] # 0)'
    BY <1>12 DEF PassDone
  <2> QED BY <1>0, <2>1, <2>2, <2>3
<1>13. CASE TearDown /\ UNCHANGED hostVars
  <2>1. WireTypeOK'
    BY <1>13 DEF TearDown, WireTypeOK
  <2>2. DaemonTypeOK'
    <3>1. ASSUME NEW s \in Slots, Lowest(s, Slots \ FreeSlots),
                 EndSess(s, TRUE, "teardown")
          PROVE  DaemonTypeOK'
      BY <1>13, <3>1, EndSessType DEF TearDown, DaemonTypeOK, Lowest, FreeSlots
    <3>2. CASE UNCHANGED <<shell, tty, inq, outq, reap, back>> /\ pc' = "done"
      BY <1>13, <3>2 DEF TearDown, DaemonTypeOK
    <3> QED BY <1>13, <3>1, <3>2 DEF TearDown
  <2>3. (pc = "reap" => slot[reap] # 0)'
    <3>1. ASSUME NEW s \in Slots, Lowest(s, Slots \ FreeSlots),
                 EndSess(s, TRUE, "teardown")
          PROVE  (pc = "reap" => slot[reap] # 0)'
      BY <1>13, <3>1 DEF TearDown, EndSess, Lowest, FreeSlots
    <3> QED BY <1>13, <3>1 DEF TearDown
  <2> QED BY <1>0, <2>1, <2>2, <2>3
<1>14. CASE DaemonDies /\ UNCHANGED hostVars
  <2>1. WireTypeOK'
    <3>1. toHost' \in Seq(SrvFrames)
      BY <1>14, Cut DEF DaemonDies, WireTypeOK
    <3>2. toSrv' \in Seq(HostFrames) /\ taken' \in 0..Len(toSrv')
      BY <1>14, EmptySeq DEF DaemonDies
    <3> QED BY <1>14, <3>1, <3>2 DEF DaemonDies, WireTypeOK
  <2>2. DaemonTypeOK'
    <3>1. shell' \in [Ids -> Procs]
      BY <1>14 DEF DaemonDies, DaemonTypeOK, Procs
    <3>2. /\ slot' \in [Slots -> 0..MaxId]
          /\ reap' \in Slots
          /\ tty' \in [Ids -> {"none", "open", "hung"}]
          /\ inq' \in [Ids -> 0..InCap]
          /\ outq' \in [Ids -> 0..OutCap]
      BY <1>14 DEF DaemonDies
    <3> QED BY <1>14, <3>1, <3>2 DEF DaemonDies, DaemonTypeOK
  <2>3. (pc = "reap" => slot[reap] # 0)'
    BY <1>14 DEF DaemonDies
  <2> QED BY <1>0, <2>1, <2>2, <2>3
<1>15. ASSUME NEW i \in Ids,
             ShellWrite(i) /\ UNCHANGED hostVars
      PROVE  TypeInv'
  <2>1. WireTypeOK'
    BY <1>15 DEF ShellWrite, WireTypeOK
  <2>2. DaemonTypeOK'
    <3>1. outq' \in [Ids -> 0..OutCap]
      BY <1>15, <1>outq DEF ShellWrite
    <3>2. wrote' \in [Ids -> Nat]
      BY <1>15, <1>wrote DEF ShellWrite
    <3> QED BY <1>15, <3>1, <3>2 DEF ShellWrite, DaemonTypeOK
  <2>3. (pc = "reap" => slot[reap] # 0)'
    BY <1>15 DEF ShellWrite
  <2> QED BY <1>0, <2>1, <2>2, <2>3
<1>16. ASSUME NEW i \in Ids,
             ShellRead(i) /\ UNCHANGED hostVars
      PROVE  TypeInv'
  <2>1. WireTypeOK'
    BY <1>16 DEF ShellRead, WireTypeOK
  <2>2. DaemonTypeOK'
    <3>1. inq' \in [Ids -> 0..InCap]
      BY <1>16, <1>inq DEF ShellRead
    <3>2. outq' \in [Ids -> 0..OutCap]
      BY <1>16, <1>outq DEF ShellRead
    <3>3. wrote' \in [Ids -> Nat]
      BY <1>16, <1>wrote DEF ShellRead
    <3> QED BY <1>16, <3>1, <3>2, <3>3 DEF ShellRead, DaemonTypeOK
  <2>3. (pc = "reap" => slot[reap] # 0)'
    BY <1>16 DEF ShellRead
  <2> QED BY <1>0, <2>1, <2>2, <2>3
<1>17. ASSUME NEW i \in Ids,
             ShellExit(i) /\ UNCHANGED hostVars
      PROVE  TypeInv'
  <2>1. WireTypeOK'
    BY <1>17 DEF ShellExit, WireTypeOK
  <2>2. DaemonTypeOK'
    BY <1>17 DEF ShellExit, DaemonTypeOK, Procs
  <2>3. (pc = "reap" => slot[reap] # 0)'
    BY <1>17 DEF ShellExit
  <2> QED BY <1>0, <2>1, <2>2, <2>3
<1>18. ASSUME NEW i \in Ids,
             TtyHang(i) /\ UNCHANGED hostVars
      PROVE  TypeInv'
  <2>1. WireTypeOK'
    BY <1>18 DEF TtyHang, WireTypeOK
  <2>2. DaemonTypeOK'
    BY <1>18 DEF TtyHang, DaemonTypeOK, Procs
  <2>3. (pc = "reap" => slot[reap] # 0)'
    BY <1>18 DEF TtyHang
  <2> QED BY <1>0, <2>1, <2>2, <2>3
<1> QED BY <1>1, <1>2, <1>3, <1>4, <1>5, <1>6, <1>7, <1>8, <1>9, <1>10, <1>11,
           <1>12, <1>13, <1>14, <1>15, <1>16, <1>17, <1>18 DEF DaemonNext

(* Every step keeps the types.                                             *)
LEMMA TypeStep ==
  ASSUME TypeInv, [Next]_vars
  PROVE  TypeInv'
<1>1. CASE UNCHANGED vars
  <2> USE <1>1 DEF TypeInv, TypeOK
  <2>1. WireTypeOK'
    BY DEF WireTypeOK
  <2>2. MuxTypeOK'
    BY DEF MuxTypeOK
  <2>3. OwnerTypeOK'
    BY DEF OwnerTypeOK
  <2>4. DaemonTypeOK' /\ (pc = "reap" => slot[reap] # 0)'
    BY DEF DaemonTypeOK
  <2> QED BY <2>1, <2>2, <2>3, <2>4
<1> QED BY <1>1, HostType, DaemonType DEF Next

(* In every reachable state every variable has its type: the daemon never  *)
(* takes more frames than were written, its queues never overflow, it ends *)
(* only occupied slots, and every frame and event names a session.         *)
THEOREM TypeCorrect == Spec => []TypeOK
<1>1. Init => TypeInv
  BY TypeInit
<1>2. TypeInv /\ [Next]_vars => TypeInv'
  BY TypeStep
<1>3. TypeInv => TypeOK
  BY DEF TypeInv
<1> QED BY <1>1, <1>2, <1>3, PTL DEF Spec

------------------------------------------------------------------------------
(* Ends of sessions: SessionInv and what follows from it.                  *)
(*                                                                         *)
(* Each part of the invariant reads few variables.  Its proof first sorts  *)
(* the actions by what they do to those variables, then shows that each    *)
(* sort of step keeps the part.                                            *)

Child == {"run", "doomed", "zombie"}
Over  == {"reaped", "refused"}

(* No session was opened: SessionInv holds initially.                      *)
LEMMA SessionInit == Init => SessionInv
<1> SUFFICES ASSUME Init PROVE SessionInv
  OBVIOUS
<1>1. OpenInv
  BY EmptySeq DEF Init, WireInit, MuxInit, DaemonInit, Idle, OpenInv
<1>2. SlotInv
  BY WireAssumption DEF Init, DaemonInit, SlotInv, ProcessHasSlot, Active
<1>3. ExitInv
  BY EmptySeq DEF Init, WireInit, MuxInit, ExitInv
<1>4. LiveInv
  BY DEF Init, MuxInit, LiveInv, Told
<1> QED BY <1>1, <1>2, <1>3, <1>4 DEF SessionInv

(* Every frame and every call about a session names one.                   *)
LEMMA FrameIds ==
  ASSUME WireTypeOK
  PROVE  \A k \in 1..Len(toSrv) : toSrv[k].id \in Ids
<1>1. \A k \in 1..Len(toSrv) : toSrv[k] \in HostFrames
  BY ElementOfSeq DEF WireTypeOK
<1> QED BY <1>1 DEF HostFrames

(* A call that writes an OPEN is about a session.                          *)
LEMMA CallIds ==
  ASSUME call \in Calls
  PROVE  call.op = "openWrite" => call.id \in Ids
  BY DEF Calls, Idle

------------------------------------------------------------------------------
(* The daemon's actions, by what they do to shells, slots and streams. *)

(* Telling a process to hang up, or letting it exit, leaves a child a      *)
(* child and every other session alone.                                    *)
LEMMA EndSessKeepsShell ==
  ASSUME DaemonTypeOK, NEW s \in Slots, slot[s] # 0, NEW killit, NEW ret,
         EndSess(s, killit, ret)
  PROVE  /\ \A i \in Ids : shell[i] \in Child <=> shell'[i] \in Child
         /\ \A i \in Ids : shell[i] \notin Child => shell'[i] = shell[i]
         /\ pc' = "reap" /\ reap' = s
<1>0. slot[s] \in 0..MaxId
  BY DEF DaemonTypeOK
<1>1. slot[s] \in Ids
  BY <1>0, WireAssumption
<1>2. \/ UNCHANGED shell
      \/ shell[slot[s]] = "run" /\ shell' = [shell EXCEPT ![slot[s]] = "doomed"]
  BY DEF EndSess, Hup
<1>3. shell \in [Ids -> Procs]
  BY DEF DaemonTypeOK
<1> QED BY <1>1, <1>2, <1>3 DEF EndSess, Child

(* Neither opens, reaps nor kills: a frame it takes off the control stream *)
(* is not an OPEN, and a CLOSE it takes finds no slot or starts end_sess.  *)
Quiet ==
  /\ UNCHANGED slot
  /\ \A i \in Ids : shell[i] \in Child <=> shell'[i] \in Child
  /\ \A i \in Ids : shell[i] \notin Child => shell'[i] = shell[i]
  /\ pc' = "reap" => slot[reap'] # 0
  /\ pc = "reap" => UNCHANGED <<pc, reap>>
  /\ UNCHANGED srvUp \/ ~srvUp'
  /\ \/ UNCHANGED toSrv
     \/ /\ toSrv # <<>> /\ toSrv' = Tail(toSrv)
        /\ Head(toSrv).type # "OPEN"
        /\ Head(toSrv).type = "CLOSE" =>
             \/ ~Active(Head(toSrv).id)
             \/ pc' = "reap" /\ slot[reap'] = Head(toSrv).id
  /\ \/ UNCHANGED toHost
     \/ \E s \in Slots :
          slot[s] # 0 /\ toHost' = Append(toHost, Frame("DATA", slot[s]))
     \/ toHost' = Append(toHost, Info)

(* All but opening a session, reaping one and dying are quiet. *)
LEMMA DaemonSorts ==
  ASSUME TypeInv, SlotInv, DaemonNext
  PROVE  Quiet \/ HandleOpen \/ Reap \/ DaemonDies
<1>t. WireTypeOK /\ DaemonTypeOK
  BY DEF TypeInv, TypeOK
<1>p. (pc = "reap" => slot[reap] # 0)
  BY DEF TypeInv
<1>0. ASSUME taken > 0 PROVE toSrv # <<>> /\ Head(toSrv).id \in Ids
  BY <1>0, <1>t, ConsumeType
<1>1. CASE Start /\ UNCHANGED hostVars
  BY <1>1 DEF Start, Send, Quiet
<1>2. CASE Poll /\ UNCHANGED hostVars
  BY <1>2 DEF Poll, Quiet
<1>3. CASE ReadControl /\ UNCHANGED hostVars
  BY <1>3 DEF ReadControl, Quiet
<1>4. CASE HandleData /\ UNCHANGED hostVars
  BY <1>0, <1>4 DEF HandleData, Next1, Consume, Quiet
<1>5. CASE HandleResize /\ UNCHANGED hostVars
  BY <1>0, <1>5 DEF HandleResize, Next1, Consume, Quiet
<1>6. CASE HandleSignal /\ UNCHANGED hostVars
  <2>1. /\ \A i \in Ids : shell[i] \in Child <=> shell'[i] \in Child
        /\ \A i \in Ids : shell[i] \notin Child => shell'[i] = shell[i]
    BY <1>6, <1>t DEF HandleSignal, DaemonTypeOK, Child
  <2> QED BY <1>0, <1>6, <2>1 DEF HandleSignal, Next1, Consume, Quiet
<1>7. CASE HandleClose /\ UNCHANGED hostVars
  <2>0. toSrv # <<>> /\ toSrv' = Tail(toSrv) /\ Head(toSrv).id \in Ids
    BY <1>0, <1>7 DEF HandleClose, Next1, Consume
  <2>1. CASE \E s \in Slots : /\ slot[s] = Head(toSrv).id
                              /\ EndSess(s, TRUE, "feed")
    <3>1. PICK s \in Slots : slot[s] = Head(toSrv).id /\ EndSess(s, TRUE, "feed")
      BY <2>1
    <3>2. slot[s] # 0
      BY <2>0, <3>1
    <3> QED BY <1>t, <1>7, <2>0, <3>1, <3>2, EndSessKeepsShell
            DEF HandleClose, Next1, Quiet
  <2>2. CASE UNCHANGED <<shell, reap, pc>> /\ ~Active(Head(toSrv).id)
    BY <1>7, <2>0, <2>2 DEF HandleClose, Next1, Quiet
  <2> QED BY <1>7, <2>1, <2>2 DEF HandleClose
<1>8. CASE FeedDone /\ UNCHANGED hostVars
  BY <1>8 DEF FeedDone, Quiet
<1>9. ASSUME NEW s \in Slots, Forward(s) /\ UNCHANGED hostVars
      PROVE  Quiet
  <2>1. CASE UNCHANGED <<shell, pc>> /\ UNCHANGED toHost
    BY <1>9, <2>1 DEF Forward, Quiet
  <2>2. CASE /\ UNCHANGED <<shell, pc>> /\ slot[s] # 0
             /\ Send(Frame("DATA", slot[s]))
    BY <1>9, <2>2 DEF Forward, Send, Quiet
  <2>3. CASE slot[s] # 0 /\ EndSess(s, FALSE, "scan") /\ UNCHANGED toHost
    BY <1>t, <1>9, <2>3, EndSessKeepsShell DEF Forward, Quiet
  <2> QED BY <1>9, <2>1, <2>2, <2>3 DEF Forward
<1>10. CASE PassDone /\ UNCHANGED hostVars
  BY <1>10 DEF PassDone, Quiet
<1>11. CASE TearDown /\ UNCHANGED hostVars
  <2>1. CASE \E s \in Slots : /\ Lowest(s, Slots \ FreeSlots)
                              /\ EndSess(s, TRUE, "teardown")
    <3>1. PICK s \in Slots : /\ Lowest(s, Slots \ FreeSlots)
                             /\ EndSess(s, TRUE, "teardown")
      BY <2>1
    <3>2. slot[s] # 0
      BY <3>1 DEF Lowest, FreeSlots
    <3> QED BY <1>t, <1>11, <3>1, <3>2, EndSessKeepsShell DEF TearDown, Quiet
  <2>2. CASE UNCHANGED shell /\ pc' = "done"
    BY <1>11, <2>2 DEF TearDown, Quiet
  <2> QED BY <1>11, <2>1, <2>2 DEF TearDown
<1>12. ASSUME NEW i \in Ids, ShellWrite(i) PROVE Quiet
  BY <1>p, <1>12 DEF ShellWrite, Quiet
<1>13. ASSUME NEW i \in Ids, ShellRead(i) PROVE Quiet
  BY <1>p, <1>13 DEF ShellRead, Quiet
<1>14. ASSUME NEW i \in Ids, ShellExit(i) PROVE Quiet
  <2>1. /\ \A j \in Ids : shell[j] \in Child <=> shell'[j] \in Child
        /\ \A j \in Ids : shell[j] \notin Child => shell'[j] = shell[j]
    BY <1>14, <1>t DEF ShellExit, Alive, DaemonTypeOK, Child
  <2> QED BY <1>p, <1>14, <2>1 DEF ShellExit, Quiet
<1>15. ASSUME NEW i \in Ids, TtyHang(i) PROVE Quiet
  BY <1>p, <1>15 DEF TtyHang, Quiet
<1> QED BY <1>1, <1>2, <1>3, <1>4, <1>5, <1>6, <1>7, <1>8, <1>9, <1>10, <1>11,
           <1>12, <1>13, <1>14, <1>15 DEF DaemonNext

(* What opening a session does once the duplicate case is excluded. *)
LEMMA OpenSorts ==
  ASSUME TypeInv, OpenInv, SlotInv, HandleOpen
  PROVE  \E i \in Ids :
           /\ toSrv # <<>> /\ Head(toSrv) = toSrv[1]
           /\ toSrv[1].type = "OPEN" /\ toSrv[1].id = i
           /\ toSrv' = Tail(toSrv)
           /\ shell[i] = "none"
           /\ \/ /\ UNCHANGED slot
                 /\ shell' = [shell EXCEPT ![i] = "refused"]
                 /\ \/ UNCHANGED toHost
                    \/ toHost' = Append(toHost, Frame("EXIT", i))
              \/ /\ \E s \in Slots :
                      slot[s] = 0 /\ slot' = [slot EXCEPT ![s] = i]
                 /\ shell' = [shell EXCEPT ![i] = "run"]
                 /\ UNCHANGED toHost
           /\ pc' # "reap"
<1>1. /\ toSrv # <<>> /\ Head(toSrv) = toSrv[1] /\ 1 \in 1..Len(toSrv)
      /\ Head(toSrv).id \in Ids
  BY ConsumeType, Pop DEF TypeInv, TypeOK, WireTypeOK, HandleOpen, Next1
<1>2. PICK i \in Ids : i = Head(toSrv).id
  BY <1>1
<1>3. toSrv[1].type = "OPEN" /\ toSrv' = Tail(toSrv) /\ pc' # "reap"
  BY <1>1 DEF HandleOpen, Next1, Consume
<1>4. shell[i] = "none"
  BY <1>1, <1>2, <1>3 DEF OpenInv
<1>5. ~Active(i)
  BY <1>4 DEF SlotInv, ProcessHasSlot
<1>6. CASE /\ Send(Frame("EXIT", i))
           /\ shell' = [shell EXCEPT ![i] = "refused"]
           /\ UNCHANGED slot
  BY <1>1, <1>2, <1>3, <1>4, <1>6 DEF Send
<1>7. CASE /\ \E s \in Slots : /\ Lowest(s, FreeSlots)
                              /\ slot' = [slot EXCEPT ![s] = i]
           /\ shell' = [shell EXCEPT ![i] = "run"]
           /\ UNCHANGED toHost
  BY <1>1, <1>2, <1>3, <1>4, <1>7 DEF Lowest, FreeSlots
<1> QED BY <1>2, <1>5, <1>6, <1>7 DEF HandleOpen

------------------------------------------------------------------------------
(* OpenInv. *)

(* A stream that lost its first frame, or all of them, keeps what held of  *)
(* every pair of its frames.                                               *)
LEMMA OpenAfterTail ==
  ASSUME TypeInv, OpenInv, UNCHANGED <<nextId, call>>,
         \A i \in Ids : shell[i] = "none" => shell'[i] = "none",
         \/ UNCHANGED toSrv
         \/ toSrv # <<>> /\ toSrv' = Tail(toSrv)
         \/ toSrv' = <<>>
  PROVE  OpenInv'
<1>t. toSrv \in Seq(HostFrames) /\ nextId \in 0..MaxId /\ call \in Calls
  BY DEF TypeInv, TypeOK, WireTypeOK, MuxTypeOK
<1>0. \A k \in 1..Len(toSrv) : toSrv[k].id \in Ids
  BY FrameIds DEF TypeInv, TypeOK
<1>1. call.op = "openWrite" => call.id \in Ids
  BY <1>t, CallStep
<1>2. CASE UNCHANGED toSrv
  BY <1>0, <1>1, <1>2 DEF OpenInv
<1>3. CASE toSrv # <<>> /\ toSrv' = Tail(toSrv)
  <2>1. /\ Len(toSrv) \in Nat /\ Len(toSrv') = Len(toSrv) - 1
        /\ \A k \in 1..Len(toSrv') : toSrv'[k] = toSrv[k + 1]
    BY <1>t, <1>3, Pop
  <2>2. ASSUME NEW k \in 1..Len(toSrv'), toSrv'[k].type = "OPEN"
        PROVE  /\ toSrv'[k].id <= nextId'
               /\ shell'[toSrv'[k].id] = "none"
               /\ call'.op = "openWrite" => call'.id # toSrv'[k].id
               /\ \A m \in 1..Len(toSrv') :
                    toSrv'[m].type = "OPEN" /\ m # k
                      => toSrv'[m].id # toSrv'[k].id
    <3>1. k + 1 \in 1..Len(toSrv) /\ toSrv'[k] = toSrv[k + 1]
      BY <2>1, <2>2
    <3>2. \A m \in 1..Len(toSrv') :
            m + 1 \in 1..Len(toSrv) /\ toSrv'[m] = toSrv[m + 1]
      BY <2>1
    <3>3. toSrv[k + 1].type = "OPEN" /\ toSrv[k + 1].id \in Ids
      BY <1>0, <2>2, <3>1
    <3>4. /\ toSrv[k + 1].id <= nextId
          /\ shell[toSrv[k + 1].id] = "none"
          /\ call.op = "openWrite" => call.id # toSrv[k + 1].id
      BY <3>1, <3>3 DEF OpenInv
    <3>5. ASSUME NEW m \in 1..Len(toSrv'), toSrv'[m].type = "OPEN", m # k
          PROVE  toSrv'[m].id # toSrv'[k].id
      <4>1. m + 1 # k + 1
        BY <3>5
      <4> QED BY <3>1, <3>2, <3>3, <3>5, <4>1 DEF OpenInv
    <3> QED BY <3>1, <3>3, <3>4, <3>5
  <2> QED BY <1>1, <2>2 DEF OpenInv
<1>4. CASE toSrv' = <<>>
  BY <1>1, <1>4, EmptySeq DEF OpenInv
<1> QED BY <1>2, <1>3, <1>4

(* The daemon forks a process only for the OPEN it takes off the stream.   *)
LEMMA OpenDaemon ==
  ASSUME TypeInv, OpenInv, SlotInv, DaemonNext
  PROVE  OpenInv'
<1>0. UNCHANGED <<nextId, call>>
  BY DEF DaemonNext
<1>t. /\ toSrv \in Seq(HostFrames) /\ call \in Calls
      /\ shell \in [Ids -> Procs] /\ nextId \in 0..MaxId
  BY DEF TypeInv, TypeOK, WireTypeOK, MuxTypeOK, DaemonTypeOK
<1>1. CASE Quiet
  BY <1>0, <1>1, OpenAfterTail DEF Quiet, Child
<1>2. CASE HandleOpen
  <2>1. PICK i \in Ids :
          /\ toSrv # <<>> /\ toSrv' = Tail(toSrv)
          /\ toSrv[1].type = "OPEN" /\ toSrv[1].id = i
          /\ \A j \in Ids \ {i} : shell'[j] = shell[j]
    BY <1>t, <1>2, OpenSorts
  <2>2. /\ Len(toSrv) \in Nat \ {0} /\ Len(toSrv') = Len(toSrv) - 1
        /\ \A k \in 1..Len(toSrv') : toSrv'[k] = toSrv[k + 1]
    BY <1>t, <2>1, Pop
  <2>3. \A k \in 1..Len(toSrv) : toSrv[k].id \in Ids
    BY FrameIds DEF TypeInv, TypeOK
  <2>4. call.op = "openWrite" => call.id \in Ids
    BY <1>t, CallStep
  <2> QED BY <1>0, <1>t, <2>1, <2>2, <2>3, <2>4 DEF OpenInv
<1>3. CASE Reap
  BY <1>0, <1>t, <1>3, OpenAfterTail DEF Reap
<1>4. CASE DaemonDies
  <2>1. \A i \in Ids : shell[i] = "none" => shell'[i] = "none"
    BY <1>4 DEF DaemonDies, SlotInv, ProcessHasSlot
  <2> QED BY <1>0, <1>4, <2>1, OpenAfterTail DEF DaemonDies
<1> QED BY <1>1, <1>2, <1>3, <1>4, DaemonSorts

(* The host writes one OPEN for the id it just handed out.                 *)
LEMMA OpenHost ==
  ASSUME TypeInv, OpenInv, HostNext
  PROVE  OpenInv'
<1>0. UNCHANGED shell
  BY DEF HostNext
<1>t. /\ toSrv \in Seq(HostFrames) /\ call \in Calls /\ nextId \in 0..MaxId
  BY DEF TypeInv, TypeOK, WireTypeOK, MuxTypeOK
<1>i. \A k \in 1..Len(toSrv) : toSrv[k].id \in Ids
  BY FrameIds DEF TypeInv, TypeOK
<1>1. CASE UiOpen
  <2>1. /\ nextId < MaxId /\ nextId' = nextId + 1 /\ UNCHANGED toSrv
        /\ call' = [op |-> "openWrite", id |-> nextId + 1]
    BY <1>1 DEF UiOpen, OpenInsert
  <2>2. nextId + 1 \in Ids
    BY <1>t, <2>1, WireAssumption
  <2>3. shell[nextId + 1] = "none"
    BY <1>t, <2>2 DEF OpenInv
  <2> QED BY <1>0, <1>t, <1>i, <2>1, <2>2, <2>3 DEF OpenInv
<1>2. CASE UiOpenWrite
  <2>1. /\ nextId' = nextId /\ call.op = "openWrite" /\ call'.op = "opened"
        /\ call.id \in Ids
    BY <1>2, <1>t, CallStep DEF UiOpenWrite, OpenWrite
  <2>2. CASE UNCHANGED toSrv
    BY <1>0, <2>1, <2>2 DEF OpenInv
  <2>3. CASE toSrv' = Append(toSrv, Frame("OPEN", call.id))
    <3>1. /\ Len(toSrv) \in Nat /\ Len(toSrv') = Len(toSrv) + 1
          /\ toSrv'[Len(toSrv) + 1] = Frame("OPEN", call.id)
          /\ \A k \in 1..Len(toSrv) : toSrv'[k] = toSrv[k]
      BY <1>t, <2>1, <2>3, Push, LenProperties DEF Frame, HostFrames
    <3> QED BY <1>0, <1>i, <2>1, <3>1 DEF OpenInv, Frame
  <2> QED BY <1>2, <2>2, <2>3 DEF UiOpenWrite, OpenWrite, WriteFrame
<1>3. ASSUME NEW f \in HostFrames, f.type # "OPEN", WriteFrame(f),
             nextId' = nextId, call = Idle, call'.op # "openWrite"
      PROVE  OpenInv'
  <2>1. CASE UNCHANGED toSrv
    BY <1>0, <1>3, <2>1 DEF OpenInv
  <2>2. CASE toSrv' = Append(toSrv, f)
    <3>1. /\ Len(toSrv) \in Nat /\ Len(toSrv') = Len(toSrv) + 1
          /\ toSrv'[Len(toSrv) + 1] = f
          /\ \A k \in 1..Len(toSrv) : toSrv'[k] = toSrv[k]
      BY <1>t, <2>2, Push, LenProperties
    <3> QED BY <1>0, <1>3, <3>1 DEF OpenInv
  <2> QED BY <1>3, <2>1, <2>2 DEF WriteFrame
<1>4. ASSUME NEW i \in Ids, NEW type \in {"DATA", "RESIZE", "SIGNAL"},
             UiSend(type, i)
      PROVE  OpenInv'
  BY <1>3, <1>4 DEF UiSend, SendFrame, Frame, HostFrames, Idle
<1>5. ASSUME NEW i \in Ids, UiClose(i)
      PROVE  OpenInv'
  BY <1>3, <1>5 DEF UiClose, CloseWrite, Frame, HostFrames, Idle
<1>6. ASSUME UNCHANGED <<nextId, toSrv>>, call'.op # "openWrite" \/ call' = call
      PROVE  OpenInv'
  BY <1>0, <1>6 DEF OpenInv
<1>7. CASE UiRegister \/ UiUnregister \/ UiCloseRemove
  <2>1. call' = Idle \/ call' = [call EXCEPT !.op = "closed"]
    BY <1>7 DEF UiRegister, UiUnregister, UiCloseRemove, CloseRemove
  <2>3. call'.op # "openWrite"
    BY <2>1, <1>t DEF Calls, Idle
  <2>2. UNCHANGED <<nextId, toSrv>>
    BY <1>7 DEF UiRegister, UiUnregister, UiCloseRemove, CloseRemove
  <2> QED BY <1>6, <2>2, <2>3
<1>8. CASE UiDrop \/ UiDropped
  <2>1. \/ call' = [op |-> "join", id |-> 0]
        \/ call' = [call EXCEPT !.op = "dropped"]
    BY <1>8 DEF UiDrop, DropTeardown, UiDropped, DropJoin
  <2>3. call'.op # "openWrite"
    BY <2>1, <1>t DEF Calls, Idle
  <2>2. UNCHANGED <<nextId, toSrv>>
    BY <1>8 DEF UiDrop, DropTeardown, UiDropped, DropJoin
  <2> QED BY <1>6, <2>2, <2>3
<1>9. CASE UNCHANGED <<nextId, toSrv, call>>
  BY <1>6, <1>9
<1> QED BY <1>1, <1>2, <1>4, <1>5, <1>7, <1>8, <1>9
        DEF HostNext, UiQuit, UiEvent, FeedTake, FeedEnd, ReadFrame, ReadEnd,
            DrainLive, NotifyGone, ReaderDone

------------------------------------------------------------------------------
(* SlotInv. *)

\* Slots and child processes go together through every step (handle_open,
\* end_sess and the death of the daemon).
LEMMA SlotStep ==
  ASSUME TypeInv, OpenInv, SlotInv, Next
  PROVE  SlotInv'
<1>t. /\ slot \in [Slots -> 0..MaxId] /\ reap \in Slots
      /\ shell \in [Ids -> Procs]
  BY DEF TypeInv, TypeOK, DaemonTypeOK
<1>1. CASE HostNext
  <2>1. UNCHANGED <<slot, shell, pc, reap>>
    BY <1>1 DEF HostNext
  <2> QED BY <2>1 DEF SlotInv, ProcessHasSlot, Active
<1>2. CASE Quiet
  BY <1>2 DEF Quiet, SlotInv, ProcessHasSlot, Active, Child
<1>3. CASE HandleOpen
  <2>1. PICK i \in Ids :
          /\ shell[i] = "none" /\ pc' # "reap"
          /\ \/ UNCHANGED slot /\ shell' = [shell EXCEPT ![i] = "refused"]
             \/ /\ \E s \in Slots :
                     slot[s] = 0 /\ slot' = [slot EXCEPT ![s] = i]
                /\ shell' = [shell EXCEPT ![i] = "run"]
    BY <1>3, OpenSorts
  <2>2. ~Active(i)
    BY <2>1 DEF SlotInv, ProcessHasSlot
  <2>3. CASE UNCHANGED slot /\ shell' = [shell EXCEPT ![i] = "refused"]
    BY <1>t, <2>1, <2>2, <2>3 DEF SlotInv, ProcessHasSlot, Active
  <2>4. ASSUME NEW s \in Slots, slot[s] = 0, slot' = [slot EXCEPT ![s] = i],
               shell' = [shell EXCEPT ![i] = "run"]
        PROVE  SlotInv'
    <3>1. \A r \in Slots : slot'[r] = IF r = s THEN i ELSE slot[r]
      BY <1>t, <2>4
    <3>2. \A j \in Ids : shell'[j] = IF j = i THEN "run" ELSE shell[j]
      BY <1>t, <2>4
    <3>3. \A r \in Slots : slot[r] # i
      BY <2>2 DEF Active
    <3>4. \A r, q \in Slots : slot'[r] = slot'[q] /\ slot'[r] # 0 => r = q
      BY <3>1, <3>3 DEF SlotInv, ProcessHasSlot
    <3>5. \A j \in Ids : Active(j)' <=> (Active(j) \/ j = i)
      BY <2>4, <3>1 DEF Active
    <3>6. \A j \in Ids : Active(j)' <=> shell'[j] \in {"run", "doomed", "zombie"}
      BY <3>2, <3>5 DEF SlotInv, ProcessHasSlot
    <3> QED BY <2>1, <3>4, <3>6 DEF SlotInv, ProcessHasSlot
  <2> QED BY <2>1, <2>3, <2>4
<1>4. CASE Reap
  <2> DEFINE i == slot[reap]
  <2>1. i \in Ids
    BY <1>t, <1>4, WireAssumption DEF SlotInv, Reap
  <2>2. \A r \in Slots : slot'[r] = IF r = reap THEN 0 ELSE slot[r]
    BY <1>t, <1>4 DEF Reap
  <2>3. \A j \in Ids : shell'[j] = IF j = i THEN "reaped" ELSE shell[j]
    BY <1>t, <1>4 DEF Reap
  <2>4. pc' # "reap"
    BY <1>4 DEF Reap, TypeInv, TypeOK, DaemonTypeOK
  <2>5. \A r \in Slots : slot[r] = i => r = reap
    BY <1>t, <2>1 DEF SlotInv, ProcessHasSlot
  <2>6. \A r, q \in Slots : slot'[r] = slot'[q] /\ slot'[r] # 0 => r = q
    BY <2>2 DEF SlotInv, ProcessHasSlot
  <2>7. \A j \in Ids : Active(j)' <=> (Active(j) /\ j # i)
    BY <1>t, <2>2, <2>5 DEF Active
  <2>8. \A j \in Ids : Active(j)' <=> shell'[j] \in {"run", "doomed", "zombie"}
    BY <2>3, <2>7 DEF SlotInv, ProcessHasSlot
  <2> QED BY <2>4, <2>6, <2>8 DEF SlotInv, ProcessHasSlot
<1>5. CASE DaemonDies
  <2>1. /\ \A r \in Slots : slot'[r] = 0
        /\ \A j \in Ids :
             shell'[j] = IF Active(j) THEN "orphan" ELSE shell[j]
        /\ pc' = "dead"
    BY <1>5 DEF DaemonDies
  <2> QED BY <2>1 DEF SlotInv, ProcessHasSlot, Active
<1> QED BY <1>1, <1>2, <1>3, <1>4, <1>5, DaemonSorts DEF Next

------------------------------------------------------------------------------
(* ExitInv. *)

\* What the daemon wrote names sessions, as far as it speaks of an exit.
LEMMA EventIds ==
  ASSUME TypeInv
  PROVE  \A k \in 1..Len(toHost) :
           /\ toHost[k].type = "EXIT" => toHost[k].id \in Ids
           /\ toHost[k].id \in Nat
<1>1. \A k \in 1..Len(toHost) : toHost[k] \in SrvFrames
  BY ElementOfSeq DEF TypeInv, TypeOK, WireTypeOK
<1> QED BY <1>1, WireAssumption DEF SrvFrames, Info

(* Frames taken off either end of the stream, or left on it. *)
LEMMA ExitFewer ==
  ASSUME TypeInv, ExitInv, UNCHANGED nExit,
         \A i \in Ids : shell[i] \in Over => shell'[i] \in Over,
         Len(toHost') \in Nat, Len(toHost') <= Len(toHost),
         \A k \in 1..Len(toHost') : toHost'[k] = toHost[k]
  PROVE  ExitInv'
<1>1. Len(toHost) \in Nat
  BY LenProperties DEF TypeInv, TypeOK, WireTypeOK
<1>2. \A k \in 1..Len(toHost') : k \in 1..Len(toHost)
  BY <1>1
<1> QED BY SMTT(20), <1>2, EventIds DEF ExitInv, Over

(* A frame put behind those of an unfinished session. *)
LEMMA ExitMore ==
  ASSUME TypeInv, ExitInv, UNCHANGED nExit,
         \A i \in Ids : shell[i] \in Over => shell'[i] \in Over,
         NEW f \in SrvFrames, toHost' = Append(toHost, f),
         f.id \in Ids => shell[f.id] \notin Over,
         f.type = "EXIT" => shell'[f.id] \in Over
  PROVE  ExitInv'
<1>1. /\ Len(toHost) \in Nat /\ Len(toHost') = Len(toHost) + 1
      /\ toHost'[Len(toHost) + 1] = f
      /\ \A k \in 1..Len(toHost) : toHost'[k] = toHost[k]
  BY Push, LenProperties DEF TypeInv, TypeOK, WireTypeOK
<1>2. \A k \in 1..Len(toHost) :
        toHost[k].type = "EXIT" => toHost[k].id \in Ids /\ toHost[k].id # f.id
  BY EventIds DEF ExitInv, Over
<1>3. (\A k \in 1..Len(toHost) : toHost[k].type = "EXIT" =>
         shell[toHost[k].id] \in {"reaped", "refused"})'
  BY <1>1, <1>2 DEF ExitInv, Over
<1>4. (\A k, m \in 1..Len(toHost) :
         toHost[k].type = "EXIT" /\ k < m => toHost[m].id # toHost[k].id)'
  <2> SUFFICES ASSUME NEW k \in 1..Len(toHost'), NEW m \in 1..Len(toHost'),
                      toHost'[k].type = "EXIT", k < m
               PROVE  toHost'[m].id # toHost'[k].id
    OBVIOUS
  <2>1. k \in 1..Len(toHost)
    BY <1>1
  <2>2. CASE m \in 1..Len(toHost)
    BY <1>1, <2>1, <2>2 DEF ExitInv
  <2>3. CASE m = Len(toHost) + 1
    BY <1>1, <1>2, <2>1, <2>3
  <2> QED BY <1>1, <2>2, <2>3
<1>5. (\A i \in Ids : nExit[i] > 0 =>
         /\ shell[i] \in {"reaped", "refused"}
         /\ \A k \in 1..Len(toHost) : toHost[k].id # i)'
  BY <1>1 DEF ExitInv, Over
<1> QED BY <1>3, <1>4, <1>5 DEF ExitInv

(* The daemon sends EXIT for a session that is over, and nothing behind    *)
(* it.                                                                     *)
LEMMA ExitDaemon ==
  ASSUME TypeInv, OpenInv, SlotInv, ExitInv, DaemonNext
  PROVE  ExitInv'
<1>0. UNCHANGED nExit
  BY DEF DaemonNext
<1>t. /\ slot \in [Slots -> 0..MaxId] /\ reap \in Slots
      /\ shell \in [Ids -> Procs] /\ Len(toHost) \in Nat
  BY LenProperties DEF TypeInv, TypeOK, WireTypeOK, DaemonTypeOK
<1>1. CASE Quiet
  <2>1. \A i \in Ids : shell[i] \in Over => shell'[i] \in Over
    BY <1>1 DEF Quiet, Child, Over
  <2>2. CASE UNCHANGED toHost
    BY <1>0, <1>t, <2>1, <2>2, ExitFewer
  <2>3. ASSUME NEW s \in Slots, slot[s] # 0,
               toHost' = Append(toHost, Frame("DATA", slot[s]))
        PROVE  ExitInv'
    <3>1. slot[s] \in Ids
      BY <1>t, <2>3, WireAssumption
    <3>2. shell[slot[s]] \notin Over
      BY <3>1 DEF SlotInv, ProcessHasSlot, Active, Over
    <3>3. /\ Frame("DATA", slot[s]) \in SrvFrames
          /\ Frame("DATA", slot[s]).id = slot[s]
          /\ Frame("DATA", slot[s]).type = "DATA"
      BY <3>1 DEF Frame, SrvFrames
    <3> HIDE DEF Ids
    <3> QED BY <1>0, <2>1, <2>3, <3>2, <3>3, ExitMore
  <2>4. CASE toHost' = Append(toHost, Info)
    <3>1. Info \in SrvFrames /\ Info.id \notin Ids /\ Info.type # "EXIT"
      BY DEF Info, SrvFrames
    <3> QED BY <1>0, <2>1, <2>4, <3>1, ExitMore
  <2> QED BY <1>1, <2>2, <2>3, <2>4 DEF Quiet
<1>2. CASE HandleOpen
  <2>1. PICK i \in Ids :
          /\ shell[i] = "none"
          /\ \/ /\ shell' = [shell EXCEPT ![i] = "refused"]
                /\ \/ UNCHANGED toHost
                   \/ toHost' = Append(toHost, Frame("EXIT", i))
             \/ shell' = [shell EXCEPT ![i] = "run"] /\ UNCHANGED toHost
    BY <1>2, OpenSorts
  <2>2. \A j \in Ids : shell[j] \in Over => shell'[j] \in Over
    BY <1>t, <2>1 DEF Over
  <2>3. CASE UNCHANGED toHost
    BY <1>0, <1>t, <2>2, <2>3, ExitFewer
  <2>4. CASE /\ toHost' = Append(toHost, Frame("EXIT", i))
             /\ shell' = [shell EXCEPT ![i] = "refused"]
    <3>1. /\ Frame("EXIT", i) \in SrvFrames
          /\ Frame("EXIT", i).id = i
      BY DEF Frame, SrvFrames
    <3>2. shell[i] \notin Over /\ shell'[i] \in Over
      BY <1>t, <2>1, <2>4 DEF Over
    <3> QED BY <1>0, <2>2, <2>4, <3>1, <3>2, ExitMore
  <2> QED BY <2>1, <2>3, <2>4
<1>3. CASE Reap
  <2>1. PICK i \in Ids : i = slot[reap]
    BY <1>t, <1>3, WireAssumption DEF SlotInv, Reap
  <2>2. /\ shell[i] = "zombie" /\ shell' = [shell EXCEPT ![i] = "reaped"]
        /\ Send(Frame("EXIT", i))
    BY <1>3, <2>1 DEF Reap
  <2>3. \A j \in Ids : shell[j] \in Over => shell'[j] \in Over
    BY <1>t, <2>2 DEF Over
  <2>4. /\ Frame("EXIT", i) \in SrvFrames
        /\ Frame("EXIT", i).id = i
    BY DEF Frame, SrvFrames
  <2>5. shell[i] \notin Over /\ shell'[i] \in Over
    BY <1>t, <2>2 DEF Over
  <2>6. CASE UNCHANGED toHost
    BY <1>0, <1>t, <2>3, <2>6, ExitFewer
  <2>7. CASE toHost' = Append(toHost, Frame("EXIT", i))
    BY <1>0, <2>3, <2>4, <2>5, <2>7, ExitMore
  <2> QED BY <2>2, <2>6, <2>7 DEF Send
<1>4. CASE DaemonDies
  <2>1. \A j \in Ids : shell[j] \in Over => shell'[j] \in Over
    BY <1>4 DEF DaemonDies, SlotInv, ProcessHasSlot, Over
  <2>2. PICK n \in 0..Len(toHost) : toHost' = SubSeq(toHost, 1, n)
    BY <1>4 DEF DaemonDies
  <2>3. /\ Len(toHost') = n
        /\ \A k \in 1..n : toHost'[k] = toHost[k]
    BY <2>2, Cut DEF TypeInv, TypeOK, WireTypeOK
  <2> QED BY <1>0, <1>t, <2>1, <2>3, ExitFewer
<1> QED BY <1>1, <1>2, <1>3, <1>4, DaemonSorts

(* What the reader does with the next frame. *)
LEMMA ReadSorts ==
  ASSUME TypeInv, ReadFrame
  PROVE  \E f \in SrvFrames :
           /\ toHost # <<>> /\ f = toHost[1] /\ f = Head(toHost)
           /\ Len(toHost) \in Nat \ {0} /\ Len(toHost') = Len(toHost) - 1
           /\ \A k \in 1..Len(toHost') : toHost'[k] = toHost[k + 1]
           /\ f.type = "EXIT" => live' = live \ {f.id}
           /\ f.type # "EXIT" => live' = live
           /\ UNCHANGED <<left, nextId, nGone>>
           /\ rdr = "read" /\ rdr' \in {"read", "drain"}
           /\ \A i \in Ids :
                /\ nExit'[i] = nExit[i] \/ nExit'[i] = nExit[i] + 1
                /\ nExit'[i] # nExit[i] => f.type = "EXIT" /\ f.id = i
                /\ nData'[i] # nData[i] => f.type = "DATA" /\ f.id = i
<1>1. /\ Head(toHost) \in SrvFrames /\ Head(toHost) = toHost[1]
      /\ Len(toHost) \in Nat \ {0} /\ Len(toHost') = Len(toHost) - 1
      /\ \A k \in 1..Len(toHost') : toHost'[k] = toHost[k + 1]
      /\ toHost # <<>>
  BY Pop DEF TypeInv, TypeOK, WireTypeOK, ReadFrame
<1>2. PICK f \in SrvFrames : f = Head(toHost)
  BY <1>1
<1>3. f.type \in {"DATA", "EXIT", "INFO"}
  BY DEF SrvFrames, Info
<1>4. nData \in [Ids -> Nat] /\ nExit \in [Ids -> Nat]
  BY DEF TypeInv, TypeOK, MuxTypeOK
<1>5. TxSend(f)
  BY <1>2 DEF ReadFrame
<1>6. \A i \in Ids :
        /\ nExit'[i] = nExit[i] \/ nExit'[i] = nExit[i] + 1
        /\ nExit'[i] # nExit[i] => f.type = "EXIT" /\ f.id = i
  BY <1>4, <1>5 DEF TxSend, Counted
<1>7. \A i \in Ids : nData'[i] # nData[i] => f.type = "DATA" /\ f.id = i
  BY <1>4, <1>5 DEF TxSend, Counted
<1>8. UNCHANGED nGone
  BY <1>3, <1>5 DEF TxSend, Counted
<1>9. /\ f.type = "EXIT" => live' = live \ {f.id}
      /\ f.type # "EXIT" => live' = live
      /\ UNCHANGED <<left, nextId>>
      /\ rdr = "read" /\ rdr' \in {"read", "drain"}
  BY <1>2 DEF ReadFrame
<1> QED BY <1>1, <1>2, <1>6, <1>7, <1>8, <1>9

(* The reader counts an EXIT it took off the stream, after which no frame  *)
(* of its session is left.                                                 *)
LEMMA ExitHost ==
  ASSUME TypeInv, ExitInv, HostNext
  PROVE  ExitInv'
<1>0. UNCHANGED shell
  BY DEF HostNext
<1>t. Len(toHost) \in Nat /\ nExit \in [Ids -> Nat]
  BY LenProperties DEF TypeInv, TypeOK, WireTypeOK, MuxTypeOK
<1>1. CASE ReadFrame
  <2>1. PICK f \in SrvFrames :
          /\ f = toHost[1]
          /\ Len(toHost) \in Nat \ {0} /\ Len(toHost') = Len(toHost) - 1
          /\ \A k \in 1..Len(toHost') : toHost'[k] = toHost[k + 1]
          /\ \A i \in Ids :
               nExit'[i] # nExit[i] => f.type = "EXIT" /\ f.id = i
    BY <1>1, ReadSorts
  <2>2. \A k \in 1..Len(toHost') : k + 1 \in 1..Len(toHost) /\ 1 < k + 1
    BY <2>1
  <2>3. 1 \in 1..Len(toHost)
    BY <2>1
  <2>4. (\A k \in 1..Len(toHost) : toHost[k].type = "EXIT" =>
           shell[toHost[k].id] \in {"reaped", "refused"})'
    BY <1>0, <2>1, <2>2 DEF ExitInv
  <2>5. (\A k, m \in 1..Len(toHost) :
           toHost[k].type = "EXIT" /\ k < m => toHost[m].id # toHost[k].id)'
    <3> SUFFICES ASSUME NEW k \in 1..Len(toHost'), NEW m \in 1..Len(toHost'),
                        toHost'[k].type = "EXIT", k < m
                 PROVE  toHost'[m].id # toHost'[k].id
      OBVIOUS
    <3>1. k + 1 < m + 1
      OBVIOUS
    <3> QED BY <2>1, <2>2, <3>1 DEF ExitInv
  <2>6. ASSUME NEW i \in Ids, nExit'[i] > 0
        PROVE  /\ shell'[i] \in {"reaped", "refused"}
               /\ \A k \in 1..Len(toHost') : toHost'[k].id # i
    <3>1. CASE nExit'[i] = nExit[i]
      BY <1>0, <2>1, <2>2, <2>6, <3>1 DEF ExitInv
    <3>2. CASE f.type = "EXIT" /\ f.id = i
      BY <1>0, <2>1, <2>2, <2>3, <3>2 DEF ExitInv
    <3> QED BY <2>1, <3>1, <3>2
  <2> QED BY <2>4, <2>5, <2>6 DEF ExitInv
<1>2. CASE UNCHANGED nExit /\ toHost' = <<>>
  BY <1>0, <1>t, <1>2, ExitFewer, EmptySeq
<1>3. CASE UNCHANGED <<toHost, nExit>>
  BY <1>0, <1>3 DEF ExitInv
<1>4. ASSUME NEW i \in Ids, NotifyGone(i)
      PROVE  UNCHANGED <<toHost, nExit>>
  BY <1>4 DEF NotifyGone, TxSend, Counted, Frame
<1> QED BY <1>1, <1>2, <1>3, <1>4
        DEF HostNext, UiOpen, OpenInsert, UiOpenWrite, OpenWrite, UiRegister,
            UiSend, SendFrame, UiClose, CloseWrite, UiCloseRemove, CloseRemove,
            UiUnregister, UiQuit, UiEvent, UiDrop, DropTeardown, UiDropped,
            DropJoin, FeedTake, FeedEnd, ReadEnd, DrainLive, ReaderDone

------------------------------------------------------------------------------
(* LiveInv. *)

\* The live set and the drain never name a session whose end was reported.
LEMMA LiveStep ==
  ASSUME TypeInv, OpenInv, ExitInv, LiveInv, Next
  PROVE  LiveInv'
<1>t. /\ nExit \in [Ids -> Nat] /\ nGone \in [Ids -> Nat]
      /\ nextId \in 0..MaxId /\ live \subseteq Ids /\ left \subseteq Ids
  BY DEF TypeInv, TypeOK, MuxTypeOK
<1>1. CASE UiOpen
  <2>1. /\ nextId < MaxId /\ nextId' = nextId + 1
        /\ live' = live \cup {nextId + 1}
        /\ UNCHANGED <<left, rdr, nExit, nGone>>
    BY <1>1 DEF UiOpen, OpenInsert
  <2>2. \A i \in Ids : Told(i) => i # nextId + 1
    BY <1>t DEF LiveInv
  <2>3. (live \cup left \subseteq 1..nextId)'
    BY <1>t, <2>1 DEF LiveInv
  <2>4. (live \cap left = {})'
    BY <1>t, <2>1 DEF LiveInv
  <2> QED BY <1>t, <2>1, <2>2, <2>3, <2>4 DEF LiveInv, Told
<1>2. CASE UiCloseRemove
  BY <1>2 DEF UiCloseRemove, CloseRemove, LiveInv, Told
<1>3. CASE ReadFrame
  <2>1. PICK f \in SrvFrames :
          /\ toHost # <<>> /\ f = toHost[1]
          /\ Len(toHost) \in Nat \ {0}
          /\ f.type = "EXIT" => live' = live \ {f.id}
          /\ f.type # "EXIT" => live' = live
          /\ UNCHANGED <<left, nextId, nGone>>
          /\ rdr = "read" /\ rdr' \in {"read", "drain"}
          /\ \A i \in Ids :
               /\ nExit'[i] = nExit[i] \/ nExit'[i] = nExit[i] + 1
               /\ nExit'[i] # nExit[i] => f.type = "EXIT" /\ f.id = i
    BY <1>3, ReadSorts
  <2>2. left = {} /\ \A i \in Ids : nGone[i] = 0
    BY <2>1 DEF LiveInv
  <2>3. f.type = "EXIT" => /\ f.id \in Ids /\ f.id <= nextId
                          /\ nExit[f.id] = 0
    <3>1. 1 \in 1..Len(toHost)
      BY <2>1
    <3>2. f.type = "EXIT" => f.id \in Ids
      BY <2>1, <3>1, EventIds
    <3>3. f.type = "EXIT" => ~(nExit[f.id] > 0)
      BY <2>1, <3>1, <3>2 DEF ExitInv
    <3>4. f.type = "EXIT" => f.id <= nextId
      <4>1. f.type = "EXIT" => shell[f.id] # "none"
        BY <2>1, <3>1 DEF ExitInv
      <4> QED BY <1>t, <3>2, <4>1 DEF OpenInv
    <3> QED BY <1>t, <3>2, <3>3, <3>4
  <2>4. (live \cup left \subseteq 1..nextId)' /\ (live \cap left = {})'
    BY <2>1, <2>2 DEF LiveInv
  <2>5. ASSUME NEW i \in Ids
        PROVE  /\ (Told(i) => i <= nextId /\ i \notin live \cup left)'
               /\ (nExit[i] + nGone[i] <= 1)'
    <3>1. CASE nExit'[i] = nExit[i]
      BY <1>t, <2>1, <2>2, <3>1 DEF LiveInv, Told
    <3>2. CASE f.type = "EXIT" /\ f.id = i
      BY <1>t, <2>1, <2>2, <2>3, <3>2 DEF Told
    <3> QED BY <2>1, <3>1, <3>2
  <2> QED BY <2>1, <2>2, <2>4, <2>5 DEF LiveInv
<1>4. CASE ReadEnd
  BY <1>4 DEF ReadEnd, LiveInv, Told
<1>5. CASE DrainLive
  BY <1>5 DEF DrainLive, LiveInv, Told
<1>6. ASSUME NEW i \in Ids, NotifyGone(i)
      PROVE  LiveInv'
  <2>1. /\ rdr = "notify" /\ i \in left /\ left' = left \ {i}
        /\ UNCHANGED <<live, rdr, nextId>>
    BY <1>6 DEF NotifyGone
  <2>2. UNCHANGED nExit
    BY <1>6 DEF NotifyGone, TxSend, Counted, Frame
  <2>3. \A j \in Ids : \/ nGone'[j] = nGone[j]
                       \/ j = i /\ nGone'[j] = nGone[j] + 1
    BY <1>6, <1>t DEF NotifyGone, TxSend, Counted, Frame
  <2>4. nExit[i] = 0 /\ nGone[i] = 0 /\ i <= nextId /\ i \notin live
    BY <1>t, <2>1 DEF LiveInv, Told
  <2>5. \A j \in Ids : /\ (Told(j) => j <= nextId /\ j \notin live \cup left)'
                      /\ (nExit[j] + nGone[j] <= 1)'
    BY <1>t, <2>1, <2>2, <2>3, <2>4 DEF LiveInv, Told
  <2> QED BY <2>1, <2>5 DEF LiveInv
<1>7. CASE ReaderDone
  BY <1>7 DEF ReaderDone, LiveInv, Told
<1>8. CASE UNCHANGED <<live, left, nextId, rdr, nExit, nGone>>
  BY <1>8 DEF LiveInv, Told
<1>9. CASE DaemonNext
  BY <1>8, <1>9 DEF DaemonNext
<1> QED BY <1>1, <1>2, <1>3, <1>4, <1>5, <1>6, <1>7, <1>8, <1>9
        DEF Next, HostNext, UiOpenWrite, OpenWrite, UiRegister, UiSend,
            SendFrame, UiClose, CloseWrite, UiUnregister, UiQuit, UiEvent,
            UiDrop, DropTeardown, UiDropped, DropJoin, FeedTake, FeedEnd

------------------------------------------------------------------------------
(* The parts together are inductive. *)
THEOREM SessionsConsistent == Spec => [](TypeInv /\ SessionInv)
<1>1. Init => TypeInv /\ SessionInv
  BY TypeInit, SessionInit
<1>2. TypeInv /\ SessionInv /\ [Next]_vars => TypeInv' /\ SessionInv'
  <2> SUFFICES ASSUME TypeInv, SessionInv, [Next]_vars
               PROVE  TypeInv' /\ SessionInv'
    OBVIOUS
  <2>1. TypeInv'
    BY TypeStep
  <2>2. CASE Next
    <3>1. OpenInv'
      BY <2>2, OpenHost, OpenDaemon DEF Next, SessionInv
    <3>2. SlotInv'
      BY <2>2, SlotStep DEF SessionInv
    <3>3. ExitInv'
      BY <2>2, ExitHost, ExitDaemon DEF Next, SessionInv
    <3>4. LiveInv'
      BY <2>2, LiveStep DEF SessionInv
    <3> QED BY <2>1, <3>1, <3>2, <3>3, <3>4 DEF SessionInv
  <2>3. CASE UNCHANGED vars
    <3>1. OpenInv' /\ SlotInv'
      BY <2>3 DEF SessionInv, OpenInv, SlotInv, ProcessHasSlot, Active
    <3>2. ExitInv' /\ LiveInv'
      BY <2>3 DEF SessionInv, ExitInv, LiveInv, Told
    <3> QED BY <2>1, <3>1, <3>2 DEF SessionInv
  <2> QED BY <2>2, <2>3
<1> QED BY <1>1, <1>2, PTL DEF Spec

(* No session is reported ended twice, whatever crosses on the wire: the   *)
(* shell's exit, the user's close, a refused open, the death of the daemon *)
(* (reader_loop's remove and drain of "live", end_sess).                   *)
THEOREM ExitAtMostOnce == Spec => []ExitOnce
<1>1. TypeInv /\ SessionInv => ExitOnce
  BY DEF SessionInv, LiveInv, ExitOnce
<1> QED BY <1>1, SessionsConsistent, PTL

(* A session has at most one slot of g_sess, and a child process exists    *)
(* exactly while its session has one: none is leaked, none reaped twice.   *)
THEOREM ChildrenHaveSlots == Spec => []ProcessHasSlot
<1>1. TypeInv /\ SessionInv => ProcessHasSlot
  BY DEF SessionInv, SlotInv
<1> QED BY <1>1, SessionsConsistent, PTL

(* Nothing of a session is shown after its end was reported: EXIT is the   *)
(* last frame of its session, and the drain reports after the last read.   *)
THEOREM NoDataAfterExit == Spec => DataBeforeExit
<1>1. TypeInv /\ SessionInv /\ [Next]_vars
        => [\A i \in Ids : nExit[i] + nGone[i] > 0 => nData'[i] = nData[i]]_vars
  <2> SUFFICES ASSUME TypeInv, SessionInv, Next, NEW i \in Ids,
                      nExit[i] + nGone[i] > 0
               PROVE  nData'[i] = nData[i]
    OBVIOUS
  <2>t. nExit \in [Ids -> Nat] /\ nGone \in [Ids -> Nat]
    BY DEF TypeInv, TypeOK, MuxTypeOK
  <2>1. CASE ReadFrame
    <3>1. PICK f \in SrvFrames :
            /\ f = toHost[1] /\ Len(toHost) \in Nat \ {0} /\ rdr = "read"
            /\ nData'[i] # nData[i] => f.type = "DATA" /\ f.id = i
      BY <2>1, ReadSorts
    <3>2. nExit[i] > 0
      BY <2>t, <3>1 DEF SessionInv, LiveInv
    <3>3. toHost[1].id # i
      BY <3>1, <3>2 DEF SessionInv, ExitInv
    <3> QED BY <3>1, <3>3
  <2>2. ASSUME NEW j \in Ids, NotifyGone(j)
        PROVE  UNCHANGED nData
    BY <2>2 DEF NotifyGone, TxSend, Counted, Frame
  <2>3. CASE DaemonNext
    BY <2>3 DEF DaemonNext
  <2> QED BY <2>1, <2>2, <2>3
          DEF Next, HostNext, UiOpen, OpenInsert, UiOpenWrite, OpenWrite,
              UiRegister, UiSend, SendFrame, UiClose, CloseWrite,
              UiCloseRemove, CloseRemove, UiUnregister, UiQuit, UiEvent,
              UiDrop, DropTeardown, UiDropped, DropJoin, FeedTake, FeedEnd,
              ReadEnd, DrainLive, ReaderDone
<1> QED BY <1>1, SessionsConsistent, PTL DEF Spec, DataBeforeExit
------------------------------------------------------------------------------
(* Panes, live sessions and shells: OwnerInv and what follows from it.     *)

(* No pane, no session and no shell: OwnerInv holds initially.             *)
LEMMA OwnerInit1 == Init => OwnerInv
<1> SUFFICES ASSUME Init PROVE OwnerInv
  OBVIOUS
<1>1. LineInv
  BY DEF Init, WireInit, MuxInit, OwnerInit, LineInv
<1>2. ToldInv
  BY EmptySeq DEF Init, MuxInit, OwnerInit, ToldInv, EndComing, On
<1>3. LiveIsBacked
  BY DEF Init, MuxInit, LiveIsBacked
<1>4. PaneInv
  BY DEF Init, MuxInit, OwnerInit, Idle, PaneInv, Opening
<1>5. ShellInv
  <2>1. \A i \in Ids : ~Active(i) /\ ~On(toSrv, "OPEN", i)
    BY EmptySeq DEF Init, WireInit, DaemonInit, Active, On
  <2> QED BY <2>1 DEF ShellInv, Owned
<1> QED BY <1>1, <1>2, <1>3, <1>4, <1>5 DEF OwnerInv

------------------------------------------------------------------------------
(* A frame is on a stream it was put on, and on one it was taken off if it *)
(* was not the first.                                                      *)
LEMMA OnPush ==
  ASSUME NEW S, NEW s \in Seq(S), NEW e \in S, NEW type, NEW i
  PROVE  On(Append(s, e), type, i) <=> On(s, type, i) \/ e = Frame(type, i)
<1>1. /\ Len(s) \in Nat /\ Len(Append(s, e)) = Len(s) + 1
      /\ Append(s, e)[Len(s) + 1] = e
      /\ \A k \in 1..Len(s) : Append(s, e)[k] = s[k]
  BY Push, LenProperties
<1> QED BY <1>1 DEF On

(* A frame of a stream is its first or behind it.                          *)
LEMMA OnPop ==
  ASSUME NEW S, NEW s \in Seq(S), s # <<>>, NEW type, NEW i
  PROVE  On(s, type, i) <=> Head(s) = Frame(type, i) \/ On(Tail(s), type, i)
<1>1. /\ Len(s) \in Nat \ {0} /\ Len(Tail(s)) = Len(s) - 1
      /\ Head(s) = s[1]
      /\ \A k \in 1..Len(Tail(s)) : Tail(s)[k] = s[k + 1]
  BY Pop
<1>2. ASSUME On(s, type, i), Head(s) # Frame(type, i)
      PROVE  On(Tail(s), type, i)
  <2>1. PICK k \in 1..Len(s) : s[k] = Frame(type, i)
    BY <1>2 DEF On
  <2>2. k - 1 \in 1..Len(Tail(s)) /\ Tail(s)[k - 1] = s[k]
    BY <1>1, <1>2, <2>1
  <2> QED BY <2>1, <2>2 DEF On
<1>3. On(Tail(s), type, i) => On(s, type, i)
  <2>1. \A k \in 1..Len(Tail(s)) : k + 1 \in 1..Len(s)
    BY <1>1
  <2> QED BY <1>1, <2>1 DEF On
<1>4. Head(s) = Frame(type, i) => On(s, type, i)
  BY <1>1 DEF On
<1> QED BY <1>2, <1>3, <1>4

(* An empty stream holds no frame.                                         *)
LEMMA OnNone == ASSUME NEW type, NEW i PROVE ~On(<<>>, type, i)
  BY EmptySeq DEF On

(* What a write of the host does to the frames on the stream.              *)
LEMMA OnWrite ==
  ASSUME TypeInv, NEW f \in HostFrames, WriteFrame(f), NEW type, NEW i
  PROVE  /\ On(toSrv, type, i) => On(toSrv', type, i)
         /\ On(toSrv', type, i) => On(toSrv, type, i) \/ f = Frame(type, i)
<1>1. toSrv \in Seq(HostFrames)
  BY DEF TypeInv, TypeOK, WireTypeOK
<1>2. CASE UNCHANGED toSrv
  BY <1>2
<1>3. CASE toSrv' = Append(toSrv, f)
  BY <1>1, <1>3, OnPush
<1> QED BY <1>2, <1>3 DEF WriteFrame

(* The daemon never touches the host's end, and only ever closes its own.  *)
LEMMA DaemonLine ==
  ASSUME DaemonNext
  PROVE  UNCHANGED hostUp /\ (UNCHANGED srvUp \/ srvUp' = FALSE)
<1>1. CASE \/ HandleOpen \/ HandleData \/ HandleResize \/ HandleSignal
           \/ HandleClose
  BY <1>1 DEF HandleOpen, HandleData, HandleResize, HandleSignal, HandleClose
<1>2. CASE Start \/ Poll \/ ReadControl \/ FeedDone \/ PassDone
  BY <1>2 DEF Start, Poll, ReadControl, FeedDone, PassDone
<1>3. CASE Reap \/ TearDown \/ DaemonDies
  BY <1>3 DEF Reap, TearDown, DaemonDies
<1>4. ASSUME NEW s \in Slots, Forward(s)
      PROVE  UNCHANGED <<hostUp, srvUp>>
  BY <1>4 DEF Forward
<1>5. ASSUME NEW i \in Ids, ShellWrite(i) \/ ShellRead(i) \/ ShellExit(i) \/ TtyHang(i)
      PROVE  UNCHANGED <<hostUp, srvUp>>
  BY <1>5 DEF ShellWrite, ShellRead, ShellExit, TtyHang
<1> QED BY <1>1, <1>2, <1>3, <1>4, <1>5 DEF DaemonNext

(* A dead mux stays dead, a daemon that left does not come back, and a     *)
(* connection the host closed stays closed.                                *)
LEMMA UpStays ==
  ASSUME TypeInv, Next
  PROVE  /\ dead => dead'
         /\ srvUp' => srvUp
         /\ hostUp' => hostUp
<1>t. dead \in BOOLEAN /\ srvUp \in BOOLEAN /\ hostUp \in BOOLEAN
  BY DEF TypeInv, TypeOK, MuxTypeOK, WireTypeOK
<1>0. ASSUME NEW f, WriteFrame(f)
      PROVE  dead => dead'
  BY <1>0 DEF WriteFrame
<1>3. ASSUME ReadFrame
      PROVE  (dead => dead') /\ UNCHANGED <<srvUp, hostUp>>
  BY <1>3 DEF ReadFrame
<1>1. CASE HostNext
  BY <1>t, <1>0, <1>1, <1>3
     DEF HostNext, UiOpen, OpenInsert, UiOpenWrite, OpenWrite, UiRegister,
         UiSend, SendFrame, UiClose, CloseWrite, UiCloseRemove,
         CloseRemove, UiUnregister, UiQuit, UiEvent, UiDrop, DropTeardown,
         UiDropped, DropJoin, FeedTake, FeedEnd, ReadEnd,
         DrainLive, NotifyGone, ReaderDone
<1>2. CASE DaemonNext
  <2>1. UNCHANGED dead
    BY <1>2 DEF DaemonNext
  <2>2. UNCHANGED hostUp /\ (UNCHANGED srvUp \/ srvUp' = FALSE)
    BY <1>2, DaemonLine
  <2>3. (dead => dead') /\ (hostUp' => hostUp)
    BY <2>1, <2>2
  <2>4. srvUp' => srvUp
    BY <2>2
  <2> QED BY <2>3, <2>4
<1> QED BY <1>1, <1>2 DEF Next

(* An end that was counted stays counted.                                  *)
LEMMA ToldStays ==
  ASSUME TypeInv, Next
  PROVE  \A i \in Ids : Told(i) => Told(i)'
<1>t. /\ nData \in [Ids -> Nat] /\ nExit \in [Ids -> Nat] /\ nGone \in [Ids -> Nat]
  BY DEF TypeInv, TypeOK, MuxTypeOK
<1>1. ASSUME NEW ev, TxSend(ev)
      PROVE  \A i \in Ids : Told(i) => Told(i)'
  BY <1>t, <1>1 DEF TxSend, Counted, Told
<1>2. CASE UNCHANGED <<nExit, nGone>>
  BY <1>2 DEF Told
<1>3. CASE DaemonNext
  BY <1>2, <1>3 DEF DaemonNext
<1> QED BY <1>1, <1>2, <1>3
        DEF Next, HostNext, UiOpen, OpenInsert, UiOpenWrite, OpenWrite,
            UiRegister, UiSend, SendFrame, UiClose, CloseWrite,
            UiCloseRemove, CloseRemove, UiUnregister, UiQuit, UiEvent,
            UiDrop, DropTeardown, UiDropped, DropJoin, FeedTake, FeedEnd,
            ReadFrame, ReadEnd, DrainLive, NotifyGone, ReaderDone

------------------------------------------------------------------------------
(* LineInv. *)

\* The host's ends of line and channel close in the order the code tears them
\* down: the mux is dead first, the reader out of its loop before the receiver
\* goes.
LEMMA LineStep ==
  ASSUME TypeInv, LineInv, Next
  PROVE  LineInv'
<1>t. /\ dead \in BOOLEAN /\ hostUp \in BOOLEAN /\ rxUp \in BOOLEAN
      /\ rdr \in {"read", "drain", "notify", "done"}
      /\ app \in {"run", "closing", "exit", "gone"}
  BY DEF TypeInv, TypeOK, MuxTypeOK, WireTypeOK, OwnerTypeOK
<1>0. dead => dead'
  BY UpStays
<1>1. CASE UNCHANGED <<hostUp, rdr, app, rxUp>>
  BY <1>0, <1>1 DEF LineInv
<1>2. CASE UiUnregister \/ UiQuit \/ UiEvent
  BY <1>t, <1>2 DEF UiUnregister, UiQuit, UiEvent, RemovePane, LineInv
<1>3. CASE UiDrop \/ UiDropped
  BY <1>t, <1>3 DEF UiDrop, UiDropped, DropTeardown, DropJoin, LineInv
<1>4. CASE FeedTake
  <2>1. (rxUp' = TRUE \/ app = "exit") /\ UNCHANGED <<hostUp, dead, rdr, app>>
    BY <1>4 DEF FeedTake
  <2> QED BY <2>1 DEF LineInv
<1>5. CASE FeedEnd
  BY <1>t, <1>5 DEF FeedEnd, LineInv
<1>6. CASE ReadFrame /\ UNCHANGED ownerVars
  <2>1. /\ rdr = "read" /\ UNCHANGED <<hostUp, app, rxUp>>
        /\ UNCHANGED rdr \/ (~rxUp /\ dead')
    BY <1>6 DEF ReadFrame
  <2> QED BY <1>t, <1>0, <2>1 DEF LineInv
<1>7. CASE (ReadEnd \/ DrainLive \/ ReaderDone) /\ UNCHANGED ownerVars
  BY <1>t, <1>7 DEF ReadEnd, DrainLive, ReaderDone, LineInv
<1>8. CASE HostNext
  BY <1>1, <1>2, <1>3, <1>4, <1>5, <1>6, <1>7, <1>8
     DEF HostNext, UiOpen, OpenInsert, UiOpenWrite, OpenWrite, UiRegister,
         UiSend, SendFrame, UiClose, CloseWrite, UiCloseRemove, CloseRemove,
         NotifyGone
<1>9. CASE DaemonNext
  <2>1. UNCHANGED hostUp
    BY <1>9, DaemonLine
  <2> QED BY <1>1, <1>9, <2>1 DEF DaemonNext
<1> QED BY <1>8, <1>9 DEF Next

------------------------------------------------------------------------------
(* Ends on their way. *)

\* A send to the mux channel adds its event, if the channel still has a
\* receiver, and nothing else.
LEMMA TxOn ==
  ASSUME TypeInv, NEW ev \in Events, TxSend(ev), NEW type, NEW i
  PROVE  On(chan', type, i) <=>
           On(chan, type, i) \/ (rxUp /\ ev = Frame(type, i))
<1>1. chan \in Seq(Events)
  BY DEF TypeInv, TypeOK, MuxTypeOK
<1>2. CASE rxUp
  <2>1. chan' = Append(chan, ev)
    BY <1>2 DEF TxSend
  <2> QED BY <1>1, <1>2, <2>1, OnPush
<1>3. CASE ~rxUp
  BY <1>3 DEF TxSend
<1> QED BY <1>2, <1>3

(* A user event is posted while the event loop runs, and lost after.       *)
LEMMA PostOn ==
  ASSUME TypeInv, NEW type, NEW j, Frame(type, j) \in UserEvents,
         Post(type, j), NEW i
  PROVE  On(evq', "SessionExit", i) <=>
           \/ On(evq, "SessionExit", i)
           \/ app \in {"run", "closing"} /\ Frame(type, j) = Frame("SessionExit", i)
<1>1. evq \in Seq(UserEvents)
  BY DEF TypeInv, TypeOK, OwnerTypeOK
<1>2. CASE app \in {"run", "closing"}
  <2>1. evq' = Append(evq, Frame(type, j))
    BY <1>2 DEF Post
  <2> QED BY <1>1, <1>2, <2>1, OnPush
<1>3. CASE app \notin {"run", "closing"}
  BY <1>3 DEF Post
<1> QED BY <1>2, <1>3

(* The feed thread moves an end from the channel to the event queue.       *)
LEMMA FeedEnds ==
  ASSUME TypeInv, FeedTake \/ FeedEnd, NEW i \in Ids
  PROVE  /\ EndComing(i)' => EndComing(i)
         /\ app = "run" /\ EndComing(i) => EndComing(i)'
<1>t. chan \in Seq(Events) /\ evq \in Seq(UserEvents)
  BY DEF TypeInv, TypeOK, MuxTypeOK, OwnerTypeOK
<1>0. /\ Frame("Distro", 0) \in UserEvents /\ Frame("Closed", 0) \in UserEvents
      /\ Frame("Distro", 0) # Frame("SessionExit", i)
      /\ Frame("Closed", 0) # Frame("SessionExit", i)
  BY DEF Frame, UserEvents
<1>1. CASE FeedTake
  <2>1. PICK ev \in Events : chan # <<>> /\ ev = Head(chan)
    BY <1>t, <1>1, Pop DEF FeedTake
  <2>2. \A type : On(chan, type, i) <=> ev = Frame(type, i) \/ On(Tail(chan), type, i)
    BY <1>t, <2>1, OnPop
  <2>3. \/ chan' = Tail(chan)
        \/ app = "exit" /\ chan' = <<>>
    BY <1>1 DEF FeedTake
  <2>4. \A type : ~On(<<>>, type, i)
    BY OnNone
  <2>5. CASE ev.type \in {"EXIT", "GONE"} /\ Post("SessionExit", ev.id)
    <3>1. ev.id \in Ids /\ ev = Frame(ev.type, ev.id)
      BY <2>5 DEF Events, Info, Frame
    <3>2. Frame("SessionExit", ev.id) \in UserEvents
      BY <3>1 DEF Frame, UserEvents
    <3>3. On(evq', "SessionExit", i) <=>
            \/ On(evq, "SessionExit", i)
            \/ /\ app \in {"run", "closing"}
               /\ Frame("SessionExit", ev.id) = Frame("SessionExit", i)
      BY <2>5, <3>2, PostOn
    <3>4. Frame("SessionExit", ev.id) = Frame("SessionExit", i) <=> ev.id = i
      BY DEF Frame
    <3>5. (ev = Frame("EXIT", i) \/ ev = Frame("GONE", i)) <=> ev.id = i
      BY <2>5, <3>1 DEF Frame
    <3> QED BY <2>2, <2>3, <2>4, <3>3, <3>4, <3>5 DEF EndComing
  <2>6. CASE /\ ev.type \notin {"EXIT", "GONE"}
             /\ UNCHANGED evq \/ Post("Distro", 0)
    <3>1. ev # Frame("EXIT", i) /\ ev # Frame("GONE", i)
      BY <2>6 DEF Frame
    <3>2. On(evq', "SessionExit", i) <=> On(evq, "SessionExit", i)
      BY <1>0, <2>6, PostOn
    <3> QED BY <2>2, <2>3, <2>4, <3>1, <3>2 DEF EndComing
  <2> QED BY <1>1, <2>1, <2>5, <2>6 DEF FeedTake
<1>2. CASE FeedEnd
  <2>1. UNCHANGED chan /\ Post("Closed", 0)
    BY <1>2 DEF FeedEnd
  <2>2. On(evq', "SessionExit", i) <=> On(evq, "SessionExit", i)
    BY <1>0, <2>1, PostOn
  <2> QED BY <2>1, <2>2 DEF EndComing
<1> QED BY <1>1, <1>2

(* The UI thread takes an end off the event queue by handling it.          *)
LEMMA EventEnds ==
  ASSUME TypeInv, UiEvent, NEW i \in Ids
  PROVE  /\ EndComing(i)' => EndComing(i)
         /\ EndComing(i) => EndComing(i)' \/ Head(evq) = Frame("SessionExit", i)
<1>1. evq \in Seq(UserEvents) /\ evq # <<>> /\ evq' = Tail(evq) /\ UNCHANGED chan
  BY DEF TypeInv, TypeOK, OwnerTypeOK, UiEvent
<1>2. On(evq, "SessionExit", i) <=>
        Head(evq) = Frame("SessionExit", i) \/ On(Tail(evq), "SessionExit", i)
  BY <1>1, OnPop
<1> QED BY <1>1, <1>2 DEF EndComing

(* An EXIT frame read becomes an end on its way, and is counted.           *)
LEMMA ReadEnds ==
  ASSUME TypeInv, ReadFrame, UNCHANGED ownerVars, NEW i \in Ids
  PROVE  /\ EndComing(i)' <=>
              EndComing(i) \/ (rxUp /\ Head(toHost) = Frame("EXIT", i))
         /\ rxUp /\ Head(toHost) = Frame("EXIT", i) => Told(i)'
<1>1. PICK f \in SrvFrames : f = Head(toHost)
  BY ReadSorts
<1>2. TxSend(f)
  BY <1>1 DEF ReadFrame
<1>3. f \in Events /\ f # Frame("GONE", i)
  BY DEF SrvFrames, Events, Info, Frame
<1>4. \A type : On(chan', type, i) <=>
                  On(chan, type, i) \/ (rxUp /\ f = Frame(type, i))
  BY <1>2, <1>3, TxOn
<1>5. On(evq', "SessionExit", i) <=> On(evq, "SessionExit", i)
  OBVIOUS
<1>6. ASSUME rxUp, f = Frame("EXIT", i) PROVE Told(i)'
  <2>1. /\ nExit \in [Ids -> Nat] /\ nGone \in [Ids -> Nat]
        /\ f.type = "EXIT" /\ f.id = i
    BY <1>6 DEF TypeInv, TypeOK, MuxTypeOK, Frame
  <2> QED BY <1>2, <1>6, <2>1 DEF TxSend, Counted, Told
<1> QED BY <1>1, <1>3, <1>4, <1>5, <1>6 DEF EndComing

(* The drain puts the end of one session on the channel, and counts it.    *)
LEMMA NotifyEnds ==
  ASSUME TypeInv, NEW j \in Ids, NotifyGone(j), UNCHANGED ownerVars, NEW i \in Ids
  PROVE  /\ EndComing(i)' <=> EndComing(i) \/ (rxUp /\ i = j)
         /\ rxUp => Told(j)'
<1>1. /\ Frame("GONE", j) \in Events /\ TxSend(Frame("GONE", j))
      /\ Frame("GONE", j) # Frame("EXIT", i)
      /\ Frame("GONE", j) = Frame("GONE", i) <=> i = j
  BY DEF NotifyGone, Events, Frame
<1>2. \A type : On(chan', type, i) <=>
                  On(chan, type, i) \/ (rxUp /\ Frame("GONE", j) = Frame(type, i))
  BY <1>1, TxOn
<1>3. On(evq', "SessionExit", i) <=> On(evq, "SessionExit", i)
  OBVIOUS
<1>4. rxUp => Told(j)'
  <2>1. /\ nExit \in [Ids -> Nat] /\ nGone \in [Ids -> Nat]
        /\ Frame("GONE", j).type = "GONE" /\ Frame("GONE", j).id = j
    BY DEF TypeInv, TypeOK, MuxTypeOK, Frame
  <2> QED BY <1>1, <2>1 DEF TxSend, Counted, Told
<1> QED BY <1>1, <1>2, <1>3, <1>4 DEF EndComing

(* Nothing else of the host brings an end on its way or takes one off it.  *)
LEMMA OtherEnds ==
  ASSUME Next
  PROVE  \/ FeedTake \/ FeedEnd \/ UiEvent \/ UiDrop
         \/ ReadFrame /\ UNCHANGED ownerVars
         \/ \E j \in Ids : NotifyGone(j) /\ UNCHANGED ownerVars
         \/ UNCHANGED <<chan, evq>>
<1>1. CASE DaemonNext
  BY <1>1 DEF DaemonNext
<1>2. CASE HostNext
  BY <1>2
     DEF HostNext, UiOpen, OpenInsert, UiOpenWrite, OpenWrite, UiRegister,
         UiSend, SendFrame, UiClose, CloseWrite, UiCloseRemove, CloseRemove,
         UiUnregister, UiQuit, UiDropped, DropJoin, ReadEnd, DrainLive,
         ReaderDone
<1> QED BY <1>1, <1>2 DEF Next

(* Every end on its way stays one the reader counted.                      *)
LEMMA ToldStep ==
  ASSUME TypeInv, ToldInv, Next
  PROVE  ToldInv'
<1> SUFFICES ASSUME NEW i \in Ids, EndComing(i)' PROVE Told(i)'
  BY DEF ToldInv
<1>0. EndComing(i) => Told(i)'
  BY ToldStays DEF ToldInv
<1>1. CASE FeedTake \/ FeedEnd
  BY <1>0, <1>1, FeedEnds
<1>2. CASE UiEvent
  BY <1>0, <1>2, EventEnds
<1>3. CASE UiDrop
  <2>1. evq' = <<>> /\ UNCHANGED chan
    BY <1>3 DEF UiDrop, DropTeardown
  <2> QED BY <1>0, <2>1, OnNone DEF EndComing
<1>4. CASE ReadFrame /\ UNCHANGED ownerVars
  BY <1>0, <1>4, ReadEnds
<1>5. ASSUME NEW j \in Ids, NotifyGone(j) /\ UNCHANGED ownerVars
      PROVE  Told(i)'
  BY <1>0, <1>5, NotifyEnds
<1>6. CASE UNCHANGED <<chan, evq>>
  BY <1>0, <1>6 DEF EndComing
<1> QED BY <1>1, <1>2, <1>3, <1>4, <1>5, <1>6, OtherEnds

------------------------------------------------------------------------------
(* LiveIsBacked. *)

Backed(i) ==
  \/ dead
  \/ call = [op |-> "openWrite", id |-> i]
  \/ On(toSrv, "OPEN", i)
  \/ Active(i)
  \/ On(toHost, "EXIT", i)
  \/ ~srvUp

(* A frame the daemon sends is on the stream, unless the host has closed   *)
(* the connection, and then the mux is dead.                               *)
LEMMA SentOrDead ==
  ASSUME TypeInv, LineInv, NEW f \in SrvFrames, Send(f)
  PROVE  /\ dead \/ On(toHost', f.type, f.id)
         /\ \A type, i : On(toHost, type, i) => On(toHost', type, i)
<1>1. toHost \in Seq(SrvFrames)
  BY DEF TypeInv, TypeOK, WireTypeOK
<1>2. CASE ~hostUp /\ UNCHANGED toHost
  BY <1>2 DEF LineInv
<1>3. CASE toHost' = Append(toHost, f)
  <2>1. f = Frame(f.type, f.id)
    BY DEF SrvFrames, Info, Frame
  <2>2. \A type, i : On(toHost', type, i) <=> On(toHost, type, i) \/ f = Frame(type, i)
    BY <1>1, <1>3, OnPush
  <2> QED BY <2>1, <2>2
<1> QED BY <1>2, <1>3 DEF Send

(* The host inserts a session with its OPEN to write, and removes it with  *)
(* its EXIT.                                                               *)
LEMMA BackedHost ==
  ASSUME TypeInv, LineInv, LiveIsBacked, HostNext
  PROVE  LiveIsBacked'
<1> SUFFICES ASSUME NEW i \in live' PROVE Backed(i)'
  BY DEF LiveIsBacked, Backed
<1>t. /\ live \subseteq Ids /\ nextId \in 0..MaxId /\ call \in Calls
      /\ toHost \in Seq(SrvFrames)
  BY DEF TypeInv, TypeOK, MuxTypeOK, WireTypeOK
<1>n. Next
  BY DEF Next
<1>0. i \in live => Backed(i)
  BY DEF LiveIsBacked, Backed
<1>d. UNCHANGED slot /\ (dead => dead') /\ (srvUp' => srvUp)
  BY <1>n, UpStays DEF HostNext
<1>1. CASE UNCHANGED <<live, call, toSrv, toHost>>
  BY <1>0, <1>1, <1>d DEF Backed, Active
<1>2. CASE UiOpen
  <2>1. /\ live' = live \cup {nextId + 1}
        /\ call' = [op |-> "openWrite", id |-> nextId + 1]
        /\ UNCHANGED <<toSrv, toHost>> /\ call = Idle
    BY <1>2 DEF UiOpen, OpenInsert
  <2>2. call # [op |-> "openWrite", id |-> i]
    BY <2>1 DEF Idle
  <2> QED BY <1>0, <1>d, <2>1, <2>2 DEF Backed, Active
<1>3. CASE UiOpenWrite
  <2>1. /\ call.op = "openWrite" /\ WriteFrame(Frame("OPEN", call.id))
        /\ UNCHANGED <<live, toHost, srvUp>>
    BY <1>3 DEF UiOpenWrite, OpenWrite
  <2>2. call.id \in Ids
    BY <1>t, <2>1, CallIds
  <2>3. Frame("OPEN", call.id) \in HostFrames
    BY <2>2 DEF Frame, HostFrames
  <2>4. On(toSrv, "OPEN", i) => On(toSrv', "OPEN", i)
    BY <2>1, <2>3, OnWrite
  <2>5. \/ dead \/ ~srvUp
        \/ toSrv' = Append(toSrv, Frame("OPEN", call.id))
    BY <2>1 DEF WriteFrame
  <2>6. ASSUME toSrv' = Append(toSrv, Frame("OPEN", call.id)), call.id = i
        PROVE  On(toSrv', "OPEN", i)
    BY <2>3, <2>6, OnPush DEF TypeInv, TypeOK, WireTypeOK
  <2>7. call = [op |-> "openWrite", id |-> i] => call.id = i
    OBVIOUS
  <2> QED BY <1>0, <1>d, <2>1, <2>4, <2>5, <2>6, <2>7 DEF Backed, Active
<1>4. ASSUME NEW f \in HostFrames, WriteFrame(f), call = Idle,
             UNCHANGED <<live, toHost>>
      PROVE  Backed(i)'
  <2>1. On(toSrv, "OPEN", i) => On(toSrv', "OPEN", i)
    BY <1>4, OnWrite
  <2>2. call # [op |-> "openWrite", id |-> i]
    BY <1>4 DEF Idle
  <2> QED BY <1>0, <1>4, <1>d, <2>1, <2>2 DEF Backed, Active
<1>5. ASSUME NEW j \in Ids, NEW type \in {"DATA", "RESIZE", "SIGNAL"}, UiSend(type, j)
      PROVE  Backed(i)'
  <2>1. Frame(type, j) \in HostFrames
    BY DEF Frame, HostFrames
  <2> QED BY <1>4, <1>5, <2>1 DEF UiSend, SendFrame
<1>6. ASSUME NEW j \in Ids, UiClose(j)
      PROVE  Backed(i)'
  <2>1. Frame("CLOSE", j) \in HostFrames
    BY DEF Frame, HostFrames
  <2> QED BY <1>4, <1>6, <2>1 DEF UiClose, CloseWrite
<1>7. CASE UiRegister \/ UiCloseRemove \/ UiUnregister \/ UiDropped
  <2>1. call.op # "openWrite" /\ live' \subseteq live /\ UNCHANGED <<toSrv, toHost>>
    BY <1>7
       DEF UiRegister, UiCloseRemove, CloseRemove, UiUnregister, UiDropped, DropJoin
  <2>2. call # [op |-> "openWrite", id |-> i]
    BY <2>1
  <2> QED BY <1>0, <1>d, <2>1, <2>2 DEF Backed, Active
<1>8. CASE UiDrop \/ ReadEnd
  <2>1. dead' = TRUE
    BY <1>8 DEF UiDrop, DropTeardown, ReadEnd
  <2> QED BY <2>1 DEF Backed
<1>9. CASE ReadFrame
  <2>1. PICK f \in SrvFrames :
          /\ toHost # <<>> /\ f = Head(toHost)
          /\ f.type = "EXIT" => live' = live \ {f.id}
          /\ f.type # "EXIT" => live' = live
    BY <1>9, ReadSorts
  <2>2. toHost' = Tail(toHost) /\ UNCHANGED <<call, toSrv>>
    BY <1>9 DEF ReadFrame
  <2>3. On(toHost, "EXIT", i) <=> f = Frame("EXIT", i) \/ On(toHost', "EXIT", i)
    BY <1>t, <2>1, <2>2, OnPop
  <2>4. i \in live /\ f # Frame("EXIT", i)
    BY <2>1 DEF Frame
  <2> QED BY <1>0, <1>d, <2>2, <2>3, <2>4 DEF Backed, Active
<1>10. CASE DrainLive
  BY <1>10 DEF DrainLive
<1> QED BY <1>1, <1>2, <1>3, <1>5, <1>6, <1>7, <1>8, <1>9, <1>10
        DEF HostNext, UiQuit, UiEvent, FeedTake, FeedEnd, NotifyGone, ReaderDone

(* The daemon turns an OPEN into a slot or an EXIT, and a slot into an     *)
(* EXIT.                                                                   *)
LEMMA BackedDaemon ==
  ASSUME TypeInv, SessionInv, LineInv, LiveIsBacked, DaemonNext
  PROVE  LiveIsBacked'
<1> SUFFICES ASSUME NEW i \in live' PROVE Backed(i)'
  BY DEF LiveIsBacked, Backed
<1>t. /\ live \subseteq Ids /\ toHost \in Seq(SrvFrames) /\ toSrv \in Seq(HostFrames)
      /\ slot \in [Slots -> 0..MaxId] /\ reap \in Slots
  BY DEF TypeInv, TypeOK, MuxTypeOK, WireTypeOK, DaemonTypeOK
<1>s. OpenInv /\ SlotInv
  BY DEF SessionInv
<1>d. UNCHANGED <<live, call, dead>> /\ (srvUp' => srvUp)
  <2>1. Next
    BY DEF Next
  <2> QED BY <2>1, UpStays DEF DaemonNext
<1>0. Backed(i) /\ i \in Ids
  BY <1>t, <1>d DEF LiveIsBacked, Backed
<1>1. CASE Quiet
  <2>1. UNCHANGED slot
    BY <1>1 DEF Quiet
  <2>2. On(toSrv, "OPEN", i) => On(toSrv', "OPEN", i)
    <3>1. CASE toSrv # <<>> /\ toSrv' = Tail(toSrv) /\ Head(toSrv).type # "OPEN"
      <4>1. Head(toSrv) # Frame("OPEN", i)
        BY <3>1 DEF Frame
      <4> QED BY <1>t, <3>1, <4>1, OnPop
    <3> QED BY <1>1, <3>1 DEF Quiet
  <2>3. On(toHost, "EXIT", i) => On(toHost', "EXIT", i)
    <3>1. ASSUME NEW f \in SrvFrames, toHost' = Append(toHost, f)
          PROVE  On(toHost, "EXIT", i) => On(toHost', "EXIT", i)
      BY <1>t, <3>1, OnPush
    <3>2. Info \in SrvFrames
      BY DEF SrvFrames
    <3>3. \A s \in Slots : slot[s] # 0 => Frame("DATA", slot[s]) \in SrvFrames
      BY <1>t DEF SrvFrames, Frame
    <3> QED BY <1>1, <3>1, <3>2, <3>3 DEF Quiet
  <2> QED BY <1>0, <1>d, <2>1, <2>2, <2>3 DEF Backed, Active
<1>2. CASE HandleOpen
  <2>1. PICK j \in Ids :
          /\ toSrv # <<>> /\ Head(toSrv) = toSrv[1]
          /\ toSrv[1].type = "OPEN" /\ toSrv[1].id = j
          /\ toSrv' = Tail(toSrv) /\ shell[j] = "none"
          /\ \/ /\ UNCHANGED slot
                /\ \/ UNCHANGED toHost
                   \/ toHost' = Append(toHost, Frame("EXIT", j))
             \/ /\ \E s \in Slots :
                     slot[s] = 0 /\ slot' = [slot EXCEPT ![s] = j]
                /\ UNCHANGED toHost
    BY <1>2, <1>s, OpenSorts
  <2>2. Frame("EXIT", j) \in SrvFrames
    BY DEF Frame, SrvFrames
  <2>3. On(toHost, "EXIT", i) => On(toHost', "EXIT", i)
    <3>1. CASE toHost' = Append(toHost, Frame("EXIT", j))
      BY <1>t, <2>2, <3>1, OnPush
    <3> QED BY <2>1, <3>1
  <2>4. Active(i) => Active(i)'
    <3>1. ASSUME NEW s \in Slots, slot[s] = 0, slot' = [slot EXCEPT ![s] = j],
                 NEW r \in Slots, slot[r] = i
          PROVE  slot'[r] = i
      BY <1>0, <1>t, <3>1
    <3> QED BY <2>1, <3>1 DEF Active
  <2>5. CASE i # j
    <3>1. Head(toSrv) # Frame("OPEN", i)
      BY <2>1, <2>5 DEF Frame
    <3>2. On(toSrv, "OPEN", i) => On(toSrv', "OPEN", i)
      BY <1>t, <2>1, <3>1, OnPop
    <3> QED BY <1>0, <1>d, <2>3, <2>4, <3>2 DEF Backed
  <2>6. CASE i = j
    <3>2. ~Active(i)
      BY <1>s, <2>1, <2>6 DEF SlotInv, ProcessHasSlot
    <3>3. \/ Send(Frame("EXIT", i))
          \/ \E s \in Slots : s \in FreeSlots /\ slot' = [slot EXCEPT ![s] = i]
      BY <1>2, <2>1, <2>6, <3>2 DEF HandleOpen, Lowest
    <3>4. CASE Send(Frame("EXIT", i))
      <4>1. dead \/ On(toHost', "EXIT", i)
        BY <2>2, <2>6, <3>4, SentOrDead DEF Frame
      <4> QED BY <1>d, <4>1 DEF Backed
    <3>5. CASE \E s \in Slots : s \in FreeSlots /\ slot' = [slot EXCEPT ![s] = i]
      BY <1>t, <3>5 DEF Backed, Active, FreeSlots
    <3> QED BY <3>3, <3>4, <3>5
  <2> QED BY <2>5, <2>6
<1>3. CASE Reap
  <2>1. slot[reap] \in Ids
    BY <1>t, <1>s, <1>3, WireAssumption DEF SlotInv, Reap
  <2>2. Frame("EXIT", slot[reap]) \in SrvFrames /\ Send(Frame("EXIT", slot[reap]))
    BY <1>3, <2>1 DEF Reap, Frame, SrvFrames
  <2>3. /\ dead \/ On(toHost', "EXIT", slot[reap])
        /\ On(toHost, "EXIT", i) => On(toHost', "EXIT", i)
    BY <2>2, SentOrDead DEF Frame
  <2>4. Active(i) => Active(i)' \/ i = slot[reap]
    BY <1>t, <1>3 DEF Active, Reap
  <2>5. UNCHANGED <<toSrv, srvUp>>
    BY <1>3 DEF Reap
  <2> QED BY <1>0, <1>d, <2>3, <2>4, <2>5 DEF Backed
<1>4. CASE DaemonDies
  BY <1>4 DEF DaemonDies, Backed
<1> QED BY <1>s, <1>1, <1>2, <1>3, <1>4, DaemonSorts

------------------------------------------------------------------------------
(* PaneInv. *)

\* Every pane keeps a live session or an end on its way to the UI thread.
LEMMA PaneStep ==
  ASSUME TypeInv, SessionInv, LineInv, PaneInv, Next
  PROVE  PaneInv'
<1> SUFFICES ASSUME app' = "run", NEW i \in Ids,
                    Opening(i)' \/ (i \in panes' /\ call'.id # i)
             PROVE  i \in live' \cup left' \/ EndComing(i)'
  BY DEF PaneInv
<1> DEFINE Kept == i \in live \cup left \/ EndComing(i)
<1>t. /\ call \in Calls /\ live \subseteq Ids /\ left \subseteq Ids
      /\ evq \in Seq(UserEvents)
      /\ app \in {"run", "closing", "exit", "gone"}
  BY DEF TypeInv, TypeOK, MuxTypeOK, OwnerTypeOK
<1>r. app = "run"
  <2>1. CASE HostNext
    BY <2>1
       DEF HostNext, UiOpen, OpenInsert, UiOpenWrite, OpenWrite, UiRegister,
           UiSend, SendFrame, UiClose, CloseWrite, UiCloseRemove, CloseRemove,
           UiUnregister, UiQuit, UiEvent, UiDrop, UiDropped, RemovePane,
           FeedTake, FeedEnd, ReadFrame, ReadEnd, DrainLive, NotifyGone,
           ReaderDone
  <2>2. CASE DaemonNext
    BY <2>2 DEF DaemonNext
  <2> QED BY <2>1, <2>2 DEF Next
<1>0. Opening(i) \/ (i \in panes /\ call.id # i) => Kept
  BY <1>r DEF PaneInv
<1>1. CASE DaemonNext \/ ((ReaderDone \/ ReadEnd) /\ UNCHANGED ownerVars)
  <2>1. UNCHANGED <<call, panes, live, left, chan, evq>>
    BY <1>1 DEF DaemonNext, ReaderDone, ReadEnd
  <2> QED BY <1>0, <2>1 DEF Opening, EndComing
<1>2. CASE UiOpen
  <2>1. /\ call = Idle /\ call' = [op |-> "openWrite", id |-> nextId + 1]
        /\ live' = live \cup {nextId + 1}
        /\ UNCHANGED <<panes, left, chan, evq>>
    BY <1>2 DEF UiOpen, OpenInsert
  <2>2. call.id # i
    BY <2>1 DEF Idle
  <2>3. CASE i = nextId + 1
    BY <2>1, <2>3
  <2>4. CASE i # nextId + 1
    BY <1>0, <2>1, <2>2, <2>4 DEF Opening, EndComing
  <2> QED BY <2>3, <2>4
<1>4. CASE UiOpenWrite
  <2>1. /\ call.op = "openWrite" /\ call' = [call EXCEPT !.op = "opened"]
        /\ UNCHANGED <<panes, live, left, chan, evq>>
    BY <1>4 DEF UiOpenWrite, OpenWrite
  <2>2. call'.op = "opened" /\ call'.id = call.id
    BY <1>t, <2>1, CallStep
  <2> QED BY <1>0, <2>1, <2>2 DEF Opening, EndComing
<1>5. CASE UiRegister
  <2>1. /\ call.op = "opened" /\ call' = Idle /\ panes' = panes \cup {call.id}
        /\ UNCHANGED <<live, left, chan, evq>>
    BY <1>5 DEF UiRegister
  <2>2. ~Opening(i)'
    BY <2>1 DEF Opening, Idle
  <2>3. Opening(i) \/ (i \in panes /\ call.id # i)
    BY <2>1, <2>2 DEF Opening
  <2> QED BY <1>0, <2>1, <2>3 DEF EndComing
<1>6. ASSUME NEW j \in Ids, NEW type, UiSend(type, j) \/ UiClose(j)
      PROVE  i \in live' \cup left' \/ EndComing(i)'
  <2>1. /\ call = Idle /\ UNCHANGED <<panes, live, left, chan, evq>>
        /\ call' = Idle \/ call' = [op |-> "closeRemove", id |-> j]
    BY <1>6 DEF UiSend, SendFrame, UiClose, CloseWrite
  <2>2. ~Opening(i)' /\ call.id # i
    BY <2>1 DEF Opening, Idle
  <2> QED BY <1>0, <2>1, <2>2 DEF EndComing
<1>7. CASE UiCloseRemove
  <2>1. /\ call.op = "closeRemove" /\ call' = [call EXCEPT !.op = "closed"]
        /\ live' = live \ {call.id}
        /\ UNCHANGED <<panes, left, chan, evq>>
    BY <1>7 DEF UiCloseRemove, CloseRemove
  <2>2. call'.op = "closed" /\ call'.id = call.id
    BY <1>t, <2>1, CallStep
  <2>3. ~Opening(i)' /\ call.id # i /\ i \in panes
    BY <2>1, <2>2 DEF Opening
  <2> QED BY <1>0, <2>1, <2>3 DEF EndComing
<1>8. CASE UiUnregister
  <2>1. /\ call.op = "closed" /\ call' = Idle /\ panes' = panes \ {call.id}
        /\ UNCHANGED <<live, left, chan, evq>>
    BY <1>8 DEF UiUnregister, RemovePane
  <2>2. i \in panes /\ call.id # i
    BY <2>1 DEF Opening, Idle
  <2> QED BY <1>0, <2>1, <2>2 DEF EndComing
<1>9. CASE UiEvent
  <2>1. /\ UNCHANGED <<live, left, call>> /\ call = Idle /\ panes' \subseteq panes
        /\ Head(evq).type = "SessionExit" => Head(evq).id \notin panes'
    BY <1>9 DEF UiEvent, RemovePane
  <2>2. i \in panes' /\ call.id # i
    BY <2>1 DEF Opening, Idle
  <2>3. Kept
    BY <1>0, <2>1, <2>2
  <2>4. Head(evq) # Frame("SessionExit", i)
    <3>1. Frame("SessionExit", i).type = "SessionExit" /\ Frame("SessionExit", i).id = i
      BY DEF Frame
    <3> QED BY <2>1, <2>2, <3>1
  <2> QED BY <1>9, <2>1, <2>3, <2>4, EventEnds
<1>10. CASE FeedTake \/ FeedEnd
  <2>1. UNCHANGED <<live, left, call, panes>>
    BY <1>10 DEF FeedTake, FeedEnd
  <2>2. Kept
    BY <1>0, <2>1 DEF Opening
  <2> QED BY <1>r, <1>10, <2>1, <2>2, FeedEnds
<1>11. CASE ReadFrame /\ UNCHANGED ownerVars
  <2>1. PICK f \in SrvFrames :
          /\ f = Head(toHost)
          /\ f.type = "EXIT" => live' = live \ {f.id}
          /\ f.type # "EXIT" => live' = live
          /\ UNCHANGED left
          /\ rdr = "read"
    BY <1>11, ReadSorts
  <2>2. rxUp
    BY <1>r, <2>1 DEF LineInv
  <2>3. UNCHANGED <<call, panes>>
    BY <1>11 DEF ReadFrame
  <2>4. Kept
    BY <1>0, <2>3 DEF Opening
  <2>5. CASE f = Frame("EXIT", i)
    BY <1>11, <2>1, <2>2, <2>5, ReadEnds
  <2>6. CASE f # Frame("EXIT", i)
    <3>1. i \in live => i \in live'
      <4>1. f.type = "EXIT" => f.id # i
        <5>1. f.type = "EXIT" => f = Frame("EXIT", f.id)
          BY DEF SrvFrames, Info, Frame
        <5> QED BY <2>6, <5>1
      <4> QED BY <2>1, <4>1
    <3> QED BY <1>11, <2>1, <2>4, <3>1, ReadEnds
  <2> QED BY <2>5, <2>6
<1>12. CASE DrainLive /\ UNCHANGED ownerVars
  <2>1. /\ left' = live /\ rdr = "drain" /\ UNCHANGED <<call, panes, chan, evq>>
    BY <1>12 DEF DrainLive
  <2>2. Kept /\ left = {}
    BY <1>0, <2>1 DEF Opening, SessionInv, LiveInv
  <2> QED BY <2>1, <2>2 DEF EndComing
<1>13. ASSUME NEW j \in Ids, NotifyGone(j), UNCHANGED ownerVars
       PROVE  i \in live' \cup left' \/ EndComing(i)'
  <2>1. /\ left' = left \ {j} /\ rdr = "notify" /\ UNCHANGED <<call, panes, live>>
    BY <1>13 DEF NotifyGone
  <2>2. Kept /\ rxUp
    BY <1>r, <1>0, <2>1 DEF Opening, LineInv
  <2> QED BY <1>13, <2>1, <2>2, NotifyEnds
<1>14. ~UiQuit /\ ~UiDrop /\ ~UiDropped
  BY <1>r DEF UiQuit, UiDrop, UiDropped
<1> QED BY <1>1, <1>2, <1>4, <1>5, <1>6, <1>7, <1>8, <1>9, <1>10, <1>11,
           <1>12, <1>13, <1>14
        DEF Next, HostNext

------------------------------------------------------------------------------
(* ShellInv. *)

(* A CLOSE behind its OPEN stays so when other frames are put on the       *)
(* stream or the first one is taken off; once it is itself taken off, no   *)
(* OPEN of its session is left.                                            *)
LEMMA ClosePush ==
  ASSUME TypeInv, NEW f \in HostFrames, toSrv' = Append(toSrv, f), NEW i \in Ids
  PROVE  /\ CloseComing(i) /\ f # Frame("OPEN", i) => CloseComing(i)'
         /\ f = Frame("CLOSE", i) => CloseComing(i)'
<1>1. /\ Len(toSrv) \in Nat /\ Len(toSrv') = Len(toSrv) + 1
      /\ toSrv'[Len(toSrv) + 1] = f
      /\ \A k \in 1..Len(toSrv) : toSrv'[k] = toSrv[k]
  BY Push, LenProperties DEF TypeInv, TypeOK, WireTypeOK
<1>2. ASSUME CloseComing(i), f # Frame("OPEN", i)
      PROVE  CloseComing(i)'
  <2>1. PICK m \in 1..Len(toSrv) :
          /\ toSrv[m] = Frame("CLOSE", i)
          /\ \A k \in 1..Len(toSrv) : toSrv[k] = Frame("OPEN", i) => k < m
    BY <1>2 DEF CloseComing
  <2>2. m \in 1..Len(toSrv') /\ toSrv'[m] = Frame("CLOSE", i)
    BY <1>1, <2>1
  <2>3. \A k \in 1..Len(toSrv') : toSrv'[k] = Frame("OPEN", i) => k < m
    BY <1>1, <1>2, <2>1
  <2> QED BY <2>2, <2>3 DEF CloseComing
<1>3. ASSUME f = Frame("CLOSE", i)
      PROVE  CloseComing(i)'
  <2>1. f # Frame("OPEN", i)
    BY <1>3 DEF Frame
  <2>2. \A k \in 1..Len(toSrv') :
          toSrv'[k] = Frame("OPEN", i) => k < Len(toSrv) + 1
    BY <1>1, <2>1
  <2>3. Len(toSrv) + 1 \in 1..Len(toSrv')
    BY <1>1
  <2> QED BY <1>1, <1>3, <2>2, <2>3 DEF CloseComing
<1> QED BY <1>2, <1>3

(* A CLOSE stays behind its OPEN until it is the frame handled.            *)
LEMMA ClosePop ==
  ASSUME TypeInv, toSrv # <<>>, toSrv' = Tail(toSrv), NEW i \in Ids, CloseComing(i)
  PROVE  \/ CloseComing(i)'
         \/ Head(toSrv) = Frame("CLOSE", i) /\ ~On(toSrv', "OPEN", i)
<1>1. /\ Len(toSrv) \in Nat \ {0} /\ Len(toSrv') = Len(toSrv) - 1
      /\ Head(toSrv) = toSrv[1]
      /\ \A k \in 1..Len(toSrv') : toSrv'[k] = toSrv[k + 1]
  BY Pop DEF TypeInv, TypeOK, WireTypeOK
<1>2. PICK m \in 1..Len(toSrv) :
        /\ toSrv[m] = Frame("CLOSE", i)
        /\ \A k \in 1..Len(toSrv) : toSrv[k] = Frame("OPEN", i) => k < m
  BY DEF CloseComing
<1>3. CASE m = 1
  <2>1. \A k \in 1..Len(toSrv') : k + 1 \in 1..Len(toSrv) /\ ~(k + 1 < m)
    BY <1>1, <1>3
  <2> QED BY <1>1, <1>2, <1>3, <2>1 DEF On
<1>4. CASE m # 1
  <2>1. m - 1 \in 1..Len(toSrv') /\ toSrv'[m - 1] = Frame("CLOSE", i)
    BY <1>1, <1>2, <1>4
  <2>2. ASSUME NEW k \in 1..Len(toSrv'), toSrv'[k] = Frame("OPEN", i)
        PROVE  k < m - 1
    <3>1. k + 1 \in 1..Len(toSrv) /\ toSrv[k + 1] = Frame("OPEN", i)
      BY <1>1, <2>2
    <3>2. k + 1 < m
      BY <1>2, <3>1
    <3> QED BY <3>2
  <2> QED BY <2>1, <2>2 DEF CloseComing
<1> QED BY <1>3, <1>4

(* The host writes a frame on a connection that is up. *)
LEMMA OwnedWrite ==
  ASSUME TypeInv, NEW f \in HostFrames, WriteFrame(f), ~dead, srvUp,
         NEW i \in Ids, f # Frame("OPEN", i)
  PROVE  /\ CloseComing(i) => CloseComing(i)'
         /\ f = Frame("CLOSE", i) => CloseComing(i)'
         /\ ~On(toSrv, "OPEN", i) => ~On(toSrv', "OPEN", i)
<1>1. toSrv' = Append(toSrv, f)
  BY DEF WriteFrame
<1> QED BY <1>1, ClosePush, OnWrite

(* A pane leaves its window with a CLOSE written, or with its session      *)
(* over.                                                                   *)
LEMMA ShellHost ==
  ASSUME TypeInv, SessionInv, LineInv, ToldInv, ShellInv, HostNext
  PROVE  ShellInv'
<1>n. Next
  BY DEF Next
<1> SUFFICES ASSUME ~dead', srvUp', NEW i \in Ids
             PROVE  Owned(i)'
  BY DEF ShellInv
<1>u. ~dead /\ srvUp
  BY <1>n, UpStays
<1>0. Owned(i)
  BY <1>u DEF ShellInv
<1>t. call \in Calls /\ evq \in Seq(UserEvents)
  BY DEF TypeInv, TypeOK, MuxTypeOK, OwnerTypeOK
<1>d. UNCHANGED <<pc, slot, reap, shell>> /\ Active(i)' = Active(i)
  BY DEF HostNext, Active
<1>1. CASE UNCHANGED <<panes, call, toSrv>>
  BY <1>0, <1>1, <1>d DEF Owned, Opening, Closing, CloseComing
<1>2. CASE UiOpen
  <2>1. /\ call = Idle /\ call' = [op |-> "openWrite", id |-> nextId + 1]
        /\ UNCHANGED <<panes, toSrv>>
    BY <1>2 DEF UiOpen, OpenInsert
  <2>2. ~Opening(i) /\ ~Closing(i)'
    BY <2>1 DEF Idle, Opening, Closing
  <2> QED BY <1>0, <1>d, <2>1, <2>2 DEF Owned, CloseComing
<1>3. CASE UiOpenWrite
  <2>1. /\ call.op = "openWrite" /\ call' = [call EXCEPT !.op = "opened"]
        /\ WriteFrame(Frame("OPEN", call.id)) /\ UNCHANGED panes
    BY <1>3 DEF UiOpenWrite, OpenWrite
  <2>2. call'.op = "opened" /\ call'.id = call.id /\ call.id \in Ids
    BY <1>t, <2>1, CallStep
  <2>3. Frame("OPEN", call.id) \in HostFrames
    BY <2>2 DEF Frame, HostFrames
  <2>4. CASE call.id = i
    BY <2>2, <2>4 DEF Owned, Opening
  <2>5. CASE call.id # i
    <3>1. Frame("OPEN", call.id) # Frame("OPEN", i)
      BY <2>5 DEF Frame
    <3>2. ~Opening(i) /\ ~Closing(i)'
      BY <2>2, <2>5 DEF Opening, Closing
    <3> QED BY <1>0, <1>u, <1>d, <2>1, <2>3, <3>1, <3>2, OwnedWrite DEF Owned
  <2> QED BY <2>4, <2>5
<1>4. CASE UiRegister
  <2>1. /\ call.op = "opened" /\ call' = Idle /\ panes' = panes \cup {call.id}
        /\ UNCHANGED toSrv
    BY <1>4 DEF UiRegister
  <2>2. ~Closing(i)'
    BY <2>1 DEF Closing, Idle
  <2> QED BY <1>0, <1>d, <2>1, <2>2 DEF Owned, Opening, CloseComing
<1>5. ASSUME NEW j \in Ids, NEW type \in {"DATA", "RESIZE", "SIGNAL"}, UiSend(type, j)
      PROVE  Owned(i)'
  <2>1. Frame(type, j) \in HostFrames /\ Frame(type, j) # Frame("OPEN", i)
    BY DEF Frame, HostFrames
  <2>2. /\ call = Idle /\ call' = Idle /\ WriteFrame(Frame(type, j)) /\ UNCHANGED panes
    BY <1>5 DEF UiSend, SendFrame
  <2>3. ~Closing(i)' /\ ~Opening(i)
    BY <2>2 DEF Closing, Opening, Idle
  <2> QED BY <1>0, <1>u, <1>d, <2>1, <2>2, <2>3, OwnedWrite DEF Owned
<1>6. ASSUME NEW j \in Ids, UiClose(j)
      PROVE  Owned(i)'
  <2>1. Frame("CLOSE", j) \in HostFrames /\ Frame("CLOSE", j) # Frame("OPEN", i)
    BY DEF Frame, HostFrames
  <2>2. /\ call = Idle /\ call' = [op |-> "closeRemove", id |-> j]
        /\ WriteFrame(Frame("CLOSE", j)) /\ UNCHANGED panes
    BY <1>6 DEF UiClose, CloseWrite
  <2>3. CASE i = j
    <3>1. CloseComing(i)'
      BY <1>u, <2>1, <2>2, <2>3, OwnedWrite
    <3> QED BY <3>1 DEF Owned
  <2>4. CASE i # j
    <3>1. ~Opening(i) /\ ~Closing(i)'
      BY <2>2, <2>4 DEF Opening, Closing, Idle
    <3> QED BY <1>0, <1>u, <1>d, <2>1, <2>2, <3>1, OwnedWrite DEF Owned
  <2> QED BY <2>3, <2>4
<1>7. CASE UiCloseRemove
  <2>1. /\ call.op = "closeRemove" /\ call' = [call EXCEPT !.op = "closed"]
        /\ UNCHANGED <<panes, toSrv>>
    BY <1>7 DEF UiCloseRemove, CloseRemove
  <2>2. call'.op = "closed" /\ call'.id = call.id
    BY <1>t, <2>1, CallStep
  <2>3. ~Opening(i) /\ (Closing(i)' => Closing(i))
    BY <2>1, <2>2 DEF Opening, Closing
  <2> QED BY <1>0, <1>d, <2>1, <2>3 DEF Owned, CloseComing
<1>8. CASE UiUnregister
  <2>1. /\ call.op = "closed" /\ call' = Idle /\ panes' = panes \ {call.id}
        /\ UNCHANGED toSrv
    BY <1>8 DEF UiUnregister, RemovePane
  <2>2. ~Closing(i)' /\ ~Opening(i) /\ (call.id = i => Closing(i))
    BY <2>1 DEF Closing, Opening, Idle
  <2> QED BY <1>0, <1>d, <2>1, <2>2 DEF Owned, CloseComing
<1>9. CASE UiEvent
  <2>1. /\ call = Idle /\ UNCHANGED <<call, toSrv>>
        /\ evq # <<>>
        /\ \/ UNCHANGED panes
           \/ /\ Head(evq).type = "SessionExit"
              /\ panes' = panes \ {Head(evq).id}
    BY <1>9 DEF UiEvent, RemovePane
  <2>2. ~Closing(i)' /\ ~Opening(i)
    BY <2>1 DEF Closing, Opening, Idle
  <2>3. CASE i \in panes' \/ i \notin panes
    BY <1>0, <1>d, <2>1, <2>2, <2>3 DEF Owned, CloseComing
  <2>4. CASE i \in panes /\ i \notin panes'
    <3>1. Head(evq).type = "SessionExit" /\ Head(evq).id = i
      BY <2>1, <2>4
    <3>2. Head(evq) = Frame("SessionExit", i)
      <4>1. Head(evq) \in UserEvents
        BY <1>t, <2>1, Pop
      <4> QED BY <3>1, <4>1 DEF UserEvents, Frame
    <3>3. On(evq, "SessionExit", i)
      BY <1>t, <2>1, <3>2, OnPop
    <3>4. Told(i)
      BY <3>3 DEF ToldInv, EndComing
    <3>5. /\ nExit[i] > 0 \/ nGone[i] > 0
      BY <3>4 DEF Told, TypeInv, TypeOK, MuxTypeOK
    <3>6. nGone[i] = 0
      BY <1>u DEF SessionInv, LiveInv, LineInv
    <3>7. shell[i] \in {"reaped", "refused"}
      BY <3>5, <3>6 DEF SessionInv, ExitInv
    <3>8. ~Active(i)
      BY <3>7 DEF SessionInv, SlotInv, ProcessHasSlot
    <3>9. ~On(toSrv, "OPEN", i)
      <4>1. Frame("OPEN", i).type = "OPEN" /\ Frame("OPEN", i).id = i
        BY DEF Frame
      <4> QED BY <3>7, <4>1 DEF SessionInv, OpenInv, On
    <3> QED BY <1>d, <2>1, <3>8, <3>9 DEF Owned
  <2> QED BY <2>3, <2>4
<1>10. CASE UiDropped
  <2>1. /\ call.op = "join" /\ call' = [call EXCEPT !.op = "dropped"]
        /\ UNCHANGED <<panes, toSrv>>
    BY <1>10 DEF UiDropped, DropJoin
  <2>2. call'.op = "dropped"
    BY <1>t, <2>1, CallStep
  <2>3. ~Closing(i)' /\ ~Opening(i)
    BY <2>1, <2>2 DEF Closing, Opening
  <2> QED BY <1>0, <1>d, <2>1, <2>3 DEF Owned, CloseComing
<1>11. CASE UiDrop
  BY <1>11 DEF UiDrop, DropTeardown
<1>12. CASE UiQuit \/ FeedTake \/ FeedEnd
  BY <1>1, <1>12 DEF UiQuit, FeedTake, FeedEnd
<1>13. ASSUME UNCHANGED ownerVars,
              \/ ReadFrame \/ ReadEnd \/ DrainLive \/ ReaderDone
              \/ \E j \in Ids : NotifyGone(j)
       PROVE  Owned(i)'
  BY <1>1, <1>13 DEF ReadFrame, ReadEnd, DrainLive, ReaderDone, NotifyGone
<1> QED BY <1>2, <1>3, <1>4, <1>5, <1>6, <1>7, <1>8, <1>9, <1>10, <1>11, <1>12, <1>13
        DEF HostNext

(* A CLOSE handled finds no slot or starts end_sess; a session opens only  *)
(* from its OPEN.                                                          *)
LEMMA ShellDaemon ==
  ASSUME TypeInv, SessionInv, ShellInv, DaemonNext
  PROVE  ShellInv'
<1>n. Next
  BY DEF Next
<1> SUFFICES ASSUME ~dead', srvUp', NEW i \in Ids
             PROVE  Owned(i)'
  BY DEF ShellInv
<1>u. ~dead /\ srvUp
  BY <1>n, UpStays
<1>0. Owned(i)
  BY <1>u DEF ShellInv
<1>t. /\ toSrv \in Seq(HostFrames) /\ slot \in [Slots -> 0..MaxId] /\ reap \in Slots
      /\ pc \in {"start", "poll", "ctl", "feed", "scan", "reap", "teardown",
                 "done", "dead"}
  BY DEF TypeInv, TypeOK, WireTypeOK, DaemonTypeOK
<1>s. OpenInv /\ SlotInv
  BY DEF SessionInv
<1>h. UNCHANGED <<panes, call>>
  BY DEF DaemonNext
<1>c. Opening(i)' = Opening(i) /\ Closing(i)' = Closing(i)
  BY <1>h DEF Opening, Closing
<1>o. Frame("OPEN", i).type = "OPEN" /\ Frame("OPEN", i).id = i
  BY DEF Frame
<1>e. Frame("CLOSE", i).type = "CLOSE" /\ Frame("CLOSE", i).id = i
  BY DEF Frame
<1>1. CASE Quiet
  <2>1. /\ UNCHANGED slot /\ Active(i)' = Active(i)
        /\ pc = "reap" => UNCHANGED <<pc, reap>>
    BY <1>1 DEF Quiet, Active
  <2>2. CASE UNCHANGED toSrv
    BY <1>0, <1>h, <1>c, <2>1, <2>2 DEF Owned, CloseComing
  <2>3. CASE /\ toSrv # <<>> /\ toSrv' = Tail(toSrv)
             /\ Head(toSrv).type # "OPEN"
             /\ Head(toSrv).type = "CLOSE" =>
                  \/ ~Active(Head(toSrv).id)
                  \/ pc' = "reap" /\ slot[reap'] = Head(toSrv).id
    <3>1. CASE CloseComing(i)
      <4>1. CASE CloseComing(i)'
        BY <4>1 DEF Owned
      <4>2. CASE Head(toSrv) = Frame("CLOSE", i) /\ ~On(toSrv', "OPEN", i)
        <5>1. ~Active(i) \/ (pc' = "reap" /\ slot[reap'] = i)
          BY <1>e, <2>3, <4>2
        <5> QED BY <2>1, <4>2, <5>1 DEF Owned
      <4> QED BY <2>3, <3>1, <4>1, <4>2, ClosePop
    <3>2. CASE ~On(toSrv, "OPEN", i)
      <4>1. ~On(toSrv', "OPEN", i)
        BY <1>t, <2>3, <3>2, OnPop
      <4> QED BY <1>0, <1>h, <1>c, <2>1, <3>1, <4>1 DEF Owned
    <3>3. CASE ~CloseComing(i) /\ On(toSrv, "OPEN", i)
      BY <1>0, <1>h, <1>c, <2>1, <3>3 DEF Owned
    <3> QED BY <3>1, <3>2, <3>3
  <2> QED BY <1>1, <2>2, <2>3 DEF Quiet
<1>2. CASE HandleOpen
  <2>1. PICK j \in Ids :
          /\ toSrv # <<>> /\ Head(toSrv) = toSrv[1]
          /\ toSrv[1].type = "OPEN" /\ toSrv[1].id = j
          /\ toSrv' = Tail(toSrv)
          /\ \/ UNCHANGED slot
             \/ \E s \in Slots : slot[s] = 0 /\ slot' = [slot EXCEPT ![s] = j]
    BY <1>2, <1>s, OpenSorts
  <2>2. pc # "reap"
    BY <1>2 DEF HandleOpen, Next1
  <2>3. CloseComing(i) => CloseComing(i)'
    <3>1. Head(toSrv) # Frame("CLOSE", i)
      BY <1>e, <2>1
    <3> QED BY <2>1, <3>1, ClosePop
  <2>4. ASSUME ~Active(i), ~On(toSrv, "OPEN", i)
        PROVE  ~Active(i)' /\ ~On(toSrv', "OPEN", i)
    <3>1. ~On(toSrv', "OPEN", i) /\ Head(toSrv) # Frame("OPEN", i)
      BY <1>t, <2>1, <2>4, OnPop
    <3>2. i # j
      <4>1. Head(toSrv) \in HostFrames
        BY <1>t, <2>1, Pop
      <4>2. Head(toSrv) = Frame("OPEN", j)
        BY <2>1, <4>1 DEF HostFrames, Frame
      <4> QED BY <3>1, <4>2
    <3>3. ~Active(i)'
      <4>1. ASSUME NEW s \in Slots, slot' = [slot EXCEPT ![s] = j],
                   NEW r \in Slots, slot'[r] = i
            PROVE  slot[r] = i
        BY <1>t, <3>2, <4>1
      <4> QED BY <2>1, <2>4, <4>1 DEF Active
    <3> QED BY <3>1, <3>3
  <2> QED BY <1>0, <1>h, <1>c, <2>2, <2>3, <2>4 DEF Owned
<1>3. CASE Reap
  <2>1. UNCHANGED toSrv /\ slot' = [slot EXCEPT ![reap] = 0] /\ pc = "reap"
    BY <1>3 DEF Reap
  <2>2. Active(i)' => Active(i) /\ slot[reap] # i
    <3>1. ASSUME NEW r \in Slots, slot'[r] = i
          PROVE  slot[r] = i /\ slot[reap] # i
      <4>1. r # reap /\ slot[r] = i
        BY <1>t, <2>1, <3>1
      <4> QED BY <1>s, <1>t, <4>1 DEF SlotInv, ProcessHasSlot
    <3> QED BY <3>1 DEF Active
  <2>3. CASE slot[reap] = i
    <3>1. shell[i] = "zombie"
      BY <1>3, <2>3 DEF Reap
    <3>2. ~On(toSrv, "OPEN", i)
      BY <1>s, <1>o, <3>1 DEF OpenInv, On
    <3> QED BY <2>1, <2>2, <2>3, <3>2 DEF Owned
  <2>4. CASE slot[reap] # i
    BY <1>0, <1>h, <1>c, <2>1, <2>2, <2>4 DEF Owned, CloseComing
  <2> QED BY <2>3, <2>4
<1>4. CASE DaemonDies
  BY <1>4 DEF DaemonDies
<1> QED BY <1>s, <1>1, <1>2, <1>3, <1>4, DaemonSorts

------------------------------------------------------------------------------
(* The parts together are inductive. *)
THEOREM OwnerConsistent == Spec => [](TypeInv /\ SessionInv /\ OwnerInv)
<1>1. Init => OwnerInv
  BY OwnerInit1
<1>2. TypeInv /\ SessionInv /\ OwnerInv /\ [Next]_vars => OwnerInv'
  <2> SUFFICES ASSUME TypeInv, SessionInv, OwnerInv, [Next]_vars
               PROVE  OwnerInv'
    OBVIOUS
  <2>1. CASE Next
    <3>1. LineInv' /\ ToldInv'
      BY <2>1, LineStep, ToldStep DEF OwnerInv
    <3>2. LiveIsBacked'
      BY <2>1, BackedHost, BackedDaemon DEF OwnerInv, Next
    <3>3. PaneInv'
      BY <2>1, PaneStep DEF OwnerInv
    <3>4. ShellInv'
      BY <2>1, ShellHost, ShellDaemon DEF OwnerInv, Next
    <3> QED BY <3>1, <3>2, <3>3, <3>4 DEF OwnerInv
  <2>2. CASE UNCHANGED vars
    <3>1. LineInv' /\ ToldInv' /\ PaneInv'
      BY <2>2 DEF OwnerInv, LineInv, ToldInv, PaneInv, EndComing, Opening, Told
    <3>2. LiveIsBacked'
      BY <2>2 DEF OwnerInv, LiveIsBacked, Active
    <3>3. ShellInv'
      BY <2>2 DEF OwnerInv, ShellInv, Owned, Opening, Closing, CloseComing, Active
    <3> QED BY <3>1, <3>2, <3>3 DEF OwnerInv
  <2> QED BY <2>1, <2>2
<1> QED BY <1>1, <1>2, SessionsConsistent, PTL DEF Spec

(* While the mux lives, every session it counts as live has something that *)
(* will end it (open, end_sess, reader_loop): no pane waits for an end     *)
(* that nobody will send.                                                  *)
THEOREM LiveAlwaysBacked == Spec => []LiveIsBacked
<1>1. TypeInv /\ SessionInv /\ OwnerInv => LiveIsBacked
  BY DEF OwnerInv
<1> QED BY <1>1, OwnerConsistent, PTL

(* No pane stays behind for a session that is over: its end is still to be *)
(* reported, or on the channel, or in the event queue, or the UI thread is *)
(* closing it (reader_loop, spawn_feed_thread, user_event).                *)
THEOREM PanesGo == Spec => []NoDeadPane
<1>1. TypeInv /\ SessionInv /\ OwnerInv => NoDeadPane
  <2> SUFFICES ASSUME TypeInv, OwnerInv, app = "run", NEW i \in panes, call.id # i
               PROVE  i \in live \cup left \/ EndComing(i)
    BY DEF NoDeadPane, EndComing
  <2>1. i \in Ids
    BY DEF TypeInv, TypeOK, OwnerTypeOK
  <2> QED BY <2>1 DEF OwnerInv, PaneInv
<1> QED BY <1>1, OwnerConsistent, PTL

(* No shell runs on behind a closed pane: while the connection is up every *)
(* session of the daemon has its pane, or is being opened or closed, or    *)
(* its CLOSE is on the wire, or end_sess waits for it (close_session,      *)
(* feed_stdin, end_sess).                                                  *)
THEOREM ShellsOwned == Spec => []NoLeakedShell
<1>1. TypeInv /\ SessionInv /\ OwnerInv => NoLeakedShell
  <2> SUFFICES ASSUME OwnerInv, ~dead, srvUp, NEW i \in Ids, Active(i)
               PROVE  \/ i \in panes
                      \/ call.id = i
                      \/ On(toSrv, "CLOSE", i)
                      \/ pc = "reap" /\ slot[reap] = i
    BY DEF NoLeakedShell
  <2>1. Owned(i)
    BY DEF OwnerInv, ShellInv
  <2> QED BY <2>1 DEF Owned, Opening, CloseComing, On
<1> QED BY <1>1, OwnerConsistent, PTL
------------------------------------------------------------------------------
(* Output: no chunk a program writes is delivered twice, and a session     *)
(* that ended by itself was shown completely; with it, that the system     *)
(* implements SessionService.                                              *)

------------------------------------------------------------------------------
(* Counting a frame on a stream. *)

Marks(s, f) == {k \in 1..Len(s) : s[k] = f}

(* The positions of a frame on a stream are finitely many.                 *)
LEMMA MarksFinite ==
  ASSUME NEW S, NEW s \in Seq(S), NEW f
  PROVE  IsFiniteSet(Marks(s, f)) /\ Cardinality(Marks(s, f)) \in Nat
<1>1. Len(s) \in Nat /\ 1 \in Int /\ Len(s) \in Int
  BY LenProperties
<1>2. IsFiniteSet(1..Len(s))
  BY <1>1, FS_Interval
<1>3. Marks(s, f) \in SUBSET (1..Len(s))
  BY DEF Marks
<1>4. IsFiniteSet(Marks(s, f))
  BY <1>2, <1>3, FS_Subset
<1> QED BY <1>4, FS_CardinalityType

(* A frame on a stream counts for at least one.                            *)
LEMMA MarksSome ==
  ASSUME NEW S, NEW s \in Seq(S), NEW f
  PROVE  /\ (\E k \in 1..Len(s) : s[k] = f) => Cardinality(Marks(s, f)) > 0
         /\ (\A k \in 1..Len(s) : s[k] # f) => Cardinality(Marks(s, f)) = 0
<1>1. IsFiniteSet(Marks(s, f)) /\ Cardinality(Marks(s, f)) \in Nat
  BY MarksFinite
<1>2. Cardinality(Marks(s, f)) = 0 <=> Marks(s, f) = {}
  BY <1>1, FS_EmptySet
<1>3. Marks(s, f) = {} <=> \A k \in 1..Len(s) : s[k] # f
  BY DEF Marks
<1> QED BY <1>1, <1>2, <1>3

(* Writing a frame adds one to its own count only.                         *)
LEMMA MarksPush ==
  ASSUME NEW S, NEW s \in Seq(S), NEW e \in S, NEW f
  PROVE  Cardinality(Marks(Append(s, e), f)) =
           Cardinality(Marks(s, f)) + (IF e = f THEN 1 ELSE 0)
<1>1. /\ Len(s) \in Nat /\ Len(Append(s, e)) = Len(s) + 1
      /\ Append(s, e)[Len(s) + 1] = e
      /\ \A k \in 1..Len(s) : Append(s, e)[k] = s[k]
  BY Push, LenProperties
<1>2. IsFiniteSet(Marks(s, f)) /\ Cardinality(Marks(s, f)) \in Nat
  BY MarksFinite
<1>3. Len(s) + 1 \notin Marks(s, f)
  BY <1>1 DEF Marks
<1>4. CASE e = f
  <2>1. Marks(Append(s, e), f) = Marks(s, f) \cup {Len(s) + 1}
    BY <1>1, <1>4 DEF Marks
  <2>2. Cardinality(Marks(s, f) \cup {Len(s) + 1}) = Cardinality(Marks(s, f)) + 1
    BY <1>2, <1>3, FS_AddElement
  <2> QED BY <1>4, <2>1, <2>2
<1>5. CASE e # f
  <2>1. Marks(Append(s, e), f) = Marks(s, f)
    BY <1>1, <1>5 DEF Marks
  <2> QED BY <1>2, <1>5, <2>1
<1> QED BY <1>4, <1>5

(* Taking the first frame off takes one from its own count only.           *)
LEMMA MarksPop ==
  ASSUME NEW S, NEW s \in Seq(S), s # <<>>, NEW f
  PROVE  Cardinality(Marks(s, f)) =
           Cardinality(Marks(Tail(s), f)) + (IF Head(s) = f THEN 1 ELSE 0)
<1> DEFINE R == Marks(s, f) \ {1}
           M == Marks(Tail(s), f)
           shift == [k \in M |-> k + 1]
<1>1. /\ Len(s) \in Nat \ {0} /\ Len(Tail(s)) = Len(s) - 1
      /\ Tail(s) \in Seq(S) /\ Head(s) = s[1]
      /\ \A k \in 1..Len(Tail(s)) : Tail(s)[k] = s[k + 1]
  BY Pop
<1>2. /\ IsFiniteSet(Marks(s, f)) /\ Cardinality(Marks(s, f)) \in Nat
      /\ IsFiniteSet(M) /\ Cardinality(M) \in Nat
  BY <1>1, MarksFinite
<1>3. Cardinality(R) = IF Head(s) = f THEN Cardinality(Marks(s, f)) - 1
                                      ELSE Cardinality(Marks(s, f))
  <2>1. 1 \in Marks(s, f) <=> Head(s) = f
    BY <1>1 DEF Marks
  <2> QED BY <1>2, <2>1, FS_RemoveElement
<1>4. \A k \in M : k \in Nat /\ k + 1 \in R
  BY <1>1 DEF Marks
<1>5. \A m \in R : m - 1 \in M /\ (m - 1) + 1 = m
  BY <1>1 DEF Marks
<1>6. shift \in [M -> R]
  BY <1>4
<1>7. \A a, b \in M : shift[a] = shift[b] => a = b
  BY <1>4
<1>8. \A m \in R : \E k \in M : shift[k] = m
  BY <1>5
<1>9. shift \in Bijection(M, R)
  BY <1>6, <1>7, <1>8 DEF Bijection, Injection, Surjection, IsInjective
<1>10. Cardinality(R) = Cardinality(M)
  BY <1>2, <1>9, FS_Bijection DEF ExistsBijection
<1> QED BY <1>2, <1>3, <1>10

(* Cutting the end off a stream adds to no count, and keeps that of a      *)
(* frame none of which is cut off.                                         *)
LEMMA MarksCut ==
  ASSUME NEW S, NEW s \in Seq(S), NEW n \in 0..Len(s), NEW f
  PROVE  /\ Cardinality(Marks(SubSeq(s, 1, n), f)) <= Cardinality(Marks(s, f))
         /\ (\A k \in 1..Len(s) : s[k] = f => k <= n) =>
              Marks(SubSeq(s, 1, n), f) = Marks(s, f)
<1>1. /\ Len(SubSeq(s, 1, n)) = n /\ Len(s) \in Nat
      /\ \A k \in 1..n : SubSeq(s, 1, n)[k] = s[k]
  BY Cut, LenProperties
<1>2. Marks(SubSeq(s, 1, n), f) \in SUBSET Marks(s, f)
  BY <1>1 DEF Marks
<1>3. IsFiniteSet(Marks(s, f))
  BY MarksFinite
<1>4. (\A k \in 1..Len(s) : s[k] = f => k <= n) =>
        Marks(SubSeq(s, 1, n), f) = Marks(s, f)
  BY <1>1 DEF Marks
<1> QED BY <1>2, <1>3, <1>4, FS_Subset

------------------------------------------------------------------------------
(* TtyInv. *)

(* end_sess closes the master of its slot and of no other.                 *)
LEMMA EndSessCloses ==
  ASSUME TypeInv, NEW s \in Slots, slot[s] # 0, NEW killit, NEW ret,
         EndSess(s, killit, ret), NEW i \in Ids
  PROVE  /\ i = slot[s] => tty'[i] = "none" /\ outq'[i] = 0
         /\ i # slot[s] => tty'[i] = tty[i] /\ outq'[i] = outq[i]
         /\ pc' = "reap" /\ reap' = s /\ slot[s] \in Ids
         /\ shell[i] \in Child <=> shell'[i] \in Child
         /\ shell[i] \notin Child => shell'[i] = shell[i]
<1>1. /\ tty \in [Ids -> {"none", "open", "hung"}] /\ outq \in [Ids -> 0..OutCap]
      /\ DaemonTypeOK
  BY DEF TypeInv, TypeOK, DaemonTypeOK
<1>2. slot[s] \in Ids
  BY <1>1, WireAssumption DEF DaemonTypeOK
<1>3. /\ shell[i] \in Child <=> shell'[i] \in Child
      /\ shell[i] \notin Child => shell'[i] = shell[i]
  BY <1>1, EndSessKeepsShell
<1> QED BY <1>1, <1>2, <1>3 DEF EndSess

(* No terminal is open and nothing was written.                            *)
LEMMA TtyInit == Init => TtyInv
  BY DEF Init, DaemonInit, TtyInv

(* Ending a session keeps the rest of TtyInv.                              *)
LEMMA TtyEnd ==
  ASSUME TypeInv, TtyInv, UNCHANGED <<slot, wrote>>,
         NEW s \in Slots, slot[s] # 0, NEW killit, NEW ret,
         EndSess(s, killit, ret),
         UNCHANGED eof \/ (eof' = eof \cup {slot[s]} /\ shell[slot[s]] \in Child)
  PROVE  TtyInv'
<1>1. \A i \in Ids :
        /\ i = slot[s] => tty'[i] = "none" /\ outq'[i] = 0
        /\ i # slot[s] => tty'[i] = tty[i] /\ outq'[i] = outq[i]
        /\ pc' = "reap" /\ reap' = s /\ slot[s] \in Ids
        /\ shell[i] \in Child <=> shell'[i] \in Child
        /\ shell[i] \notin Child => shell'[i] = shell[i]
  BY EndSessCloses
<1>2. pc' = "reap" /\ reap' = s /\ slot[s] \in Ids
  BY <1>1, WireAssumption
<1>3. tty'[slot'[reap']] = "none"
  BY <1>1, <1>2
<1>4. ASSUME NEW i \in Ids
      PROVE  /\ tty'[i] # "none" => shell'[i] \in Child
             /\ outq'[i] > 0 => tty'[i] # "none"
             /\ shell'[i] = "none" => wrote'[i] = 0
             /\ i \in eof' => tty'[i] = "none" /\ shell'[i] # "none"
  <2>1. /\ tty[i] # "none" => shell[i] \in Child
        /\ outq[i] > 0 => tty[i] # "none"
        /\ shell[i] = "none" => wrote[i] = 0
        /\ i \in eof => tty[i] = "none" /\ shell[i] # "none"
    BY DEF TtyInv, Child
  <2> QED BY <1>1, <1>2, <2>1 DEF Child
<1> QED BY <1>3, <1>4 DEF TtyInv, Child

(* Opening, ending, reaping, dying and what programs do keep TtyInv.       *)
LEMMA TtyStep ==
  ASSUME TypeInv, SessionInv, TtyInv, Next
  PROVE  TtyInv'
<1>t. /\ tty \in [Ids -> {"none", "open", "hung"}] /\ outq \in [Ids -> 0..OutCap]
      /\ shell \in [Ids -> Procs] /\ wrote \in [Ids -> Nat]
      /\ slot \in [Slots -> 0..MaxId] /\ reap \in Slots
      /\ back \in {"feed", "scan", "teardown"}
      /\ eof \subseteq Ids
  BY DEF TypeInv, TypeOK, DaemonTypeOK
<1>s. OpenInv /\ SlotInv
  BY DEF SessionInv
<1>p. pc = "reap" => slot[reap] # 0
  BY DEF TypeInv
<1>1. ASSUME UNCHANGED <<shell, tty, outq, wrote, eof>>,
             pc' # "reap" \/ UNCHANGED <<pc, slot, reap>>
      PROVE  TtyInv'
  BY <1>1 DEF TtyInv
<1>2. CASE HostNext
  BY <1>1, <1>2 DEF HostNext
<1>3. CASE Start \/ Poll \/ ReadControl \/ FeedDone \/ PassDone
  BY <1>1, <1>3 DEF Start, Poll, ReadControl, FeedDone, PassDone
<1>4. CASE HandleData \/ HandleResize
  BY <1>1, <1>4 DEF HandleData, HandleResize, Next1
<1>5. CASE HandleSignal
  <2>1. /\ UNCHANGED <<tty, outq, wrote, eof>> /\ pc' # "reap"
        /\ \/ UNCHANGED shell
           \/ \E i \in Ids : shell[i] = "run" /\ shell' = [shell EXCEPT ![i] = "doomed"]
    BY <1>5, <1>t, WireAssumption, ConsumeType
       DEF HandleSignal, Next1, TypeInv, TypeOK
  <2> QED BY <1>t, <2>1 DEF TtyInv
<1>6. CASE HandleOpen
  <2>1. PICK i \in Ids :
          /\ toSrv[1].id = i /\ Head(toSrv) = toSrv[1]
          /\ shell[i] = "none" /\ pc' # "reap"
    BY <1>6, <1>s, OpenSorts
  <2>2. ~Active(i)
    BY <1>s, <2>1 DEF SlotInv, ProcessHasSlot
  <2>3. /\ UNCHANGED <<outq, wrote, eof>>
        /\ \/ shell' = [shell EXCEPT ![i] = "refused"] /\ UNCHANGED tty
           \/ shell' = [shell EXCEPT ![i] = "run"] /\ tty' = [tty EXCEPT ![i] = "open"]
    BY <1>6, <2>1, <2>2 DEF HandleOpen
  <2> QED BY <1>t, <2>1, <2>3 DEF TtyInv
<1>7. CASE HandleClose
  <2>0. Head(toSrv).id \in Ids
    BY <1>7, ConsumeType DEF HandleClose, Next1, TypeInv, TypeOK
  <2>1. ASSUME NEW s \in Slots, slot[s] = Head(toSrv).id, EndSess(s, TRUE, "feed")
        PROVE  TtyInv'
    <3>1. slot[s] # 0 /\ UNCHANGED <<slot, wrote, eof>>
      BY <1>7, <2>0, <2>1 DEF HandleClose
    <3> HIDE DEF Ids
    <3> QED BY <2>1, <3>1, TtyEnd
  <2>2. CASE UNCHANGED <<shell, tty, inq, outq, reap, back, pc>>
    BY <1>1, <1>7, <2>2 DEF HandleClose, Next1
  <2> QED BY <1>7, <2>1, <2>2 DEF HandleClose
<1>8. ASSUME NEW s \in Slots, Forward(s)
      PROVE  TtyInv'
  <2>1. CASE slot[s] = 0
    BY <1>1, <1>8, <2>1 DEF Forward
  <2>2. CASE /\ slot[s] # 0 /\ outq[slot[s]] > 0
             /\ outq' = [outq EXCEPT ![slot[s]] = @ - 1]
             /\ UNCHANGED <<pc, reap, back, shell, tty, inq, eof>>
    <3>1. /\ slot[s] \in Ids /\ UNCHANGED wrote /\ pc' # "reap"
      BY <1>t, <1>8, <2>2 DEF Forward
    <3>2. \A i \in Ids : outq'[i] > 0 => outq[i] > 0
      BY <1>t, <2>2, <3>1, DaemonAssumption
    <3> QED BY <2>2, <3>1, <3>2 DEF TtyInv
  <2>3. CASE slot[s] # 0 /\ EndSess(s, FALSE, "scan") /\ eof' = eof \cup {slot[s]}
    <3>1. slot[s] \in Ids
      BY <1>t, <2>3
    <3>2. shell[slot[s]] \in Child
      BY <1>s, <3>1 DEF SlotInv, ProcessHasSlot, Active, Child
    <3>3. UNCHANGED <<slot, wrote>>
      BY <1>8 DEF Forward
    <3> QED BY <2>3, <3>2, <3>3, TtyEnd
  <2> QED BY <1>8, <2>1, <2>2, <2>3 DEF Forward
<1>9. CASE Reap
  <2>1. /\ slot[reap] \in Ids /\ shell[slot[reap]] = "zombie"
        /\ shell' = [shell EXCEPT ![slot[reap]] = "reaped"]
        /\ tty[slot[reap]] = "none" /\ pc' # "reap"
        /\ UNCHANGED <<tty, outq, wrote, eof>>
    BY <1>t, <1>p, <1>9 DEF Reap, TtyInv
  <2> QED BY <1>t, <2>1 DEF TtyInv
<1>10. CASE TearDown
  <2>1. ASSUME NEW s \in Slots, Lowest(s, Slots \ FreeSlots),
               EndSess(s, TRUE, "teardown")
        PROVE  TtyInv'
    <3>1. slot[s] # 0
      BY <2>1 DEF Lowest, FreeSlots
    <3> QED BY <1>10, <2>1, <3>1, TtyEnd DEF TearDown
  <2>2. CASE UNCHANGED <<shell, tty, inq, outq, reap, back>> /\ pc' = "done"
    BY <1>1, <1>10, <2>2 DEF TearDown
  <2> QED BY <1>10, <2>1, <2>2 DEF TearDown
<1>11. CASE DaemonDies
  <2>1. /\ \A i \in Ids : tty'[i] = "none" /\ outq'[i] = 0
        /\ \A i \in Ids : shell'[i] = "none" <=> shell[i] = "none"
        /\ pc' = "dead" /\ UNCHANGED <<wrote, eof>>
    <3>1. \A i \in Ids : Active(i) => shell[i] # "none"
      BY <1>s DEF SlotInv, ProcessHasSlot
    <3> QED BY <1>11, <3>1 DEF DaemonDies
  <2> QED BY <2>1 DEF TtyInv
<1>12. ASSUME NEW i \in Ids, ShellWrite(i) \/ ShellRead(i)
       PROVE  TtyInv'
  <2>1. /\ tty[i] = "open" /\ UNCHANGED <<pc, slot, reap, shell, tty, eof>>
        /\ \A j \in Ids \ {i} : wrote'[j] = wrote[j] /\ outq'[j] = outq[j]
    BY <1>t, <1>12 DEF ShellWrite, ShellRead
  <2> QED BY <2>1 DEF TtyInv
<1>13. ASSUME NEW i \in Ids, ShellExit(i)
       PROVE  TtyInv'
  <2>1. /\ UNCHANGED <<pc, slot, reap, tty, outq, wrote, eof>>
        /\ shell[i] \in {"run", "doomed"} /\ shell' = [shell EXCEPT ![i] = "zombie"]
    BY <1>13 DEF ShellExit, Alive
  <2> QED BY <1>t, <2>1 DEF TtyInv
<1>14. ASSUME NEW i \in Ids, TtyHang(i)
       PROVE  TtyInv'
  <2>1. /\ UNCHANGED <<pc, slot, reap, shell, outq, wrote, eof>>
        /\ tty[i] = "open" /\ tty' = [tty EXCEPT ![i] = "hung"]
    BY <1>14 DEF TtyHang
  <2>2. pc = "reap" => slot[reap] # i
    BY <2>1 DEF TtyInv
  <2> QED BY <1>t, <1>p, <2>1, <2>2 DEF TtyInv
<1> QED BY <1>2, <1>3, <1>4, <1>5, <1>6, <1>7, <1>8, <1>9, <1>10, <1>11, <1>12,
           <1>13, <1>14 DEF Next, DaemonNext

------------------------------------------------------------------------------
(* OutputInv. *)

(* What a line that is intact after a step was before it.                  *)
LEMMA IntactBefore ==
  ASSUME TypeInv, Next
  PROVE  /\ Intact' => Intact
         /\ rxUp' /\ rdr' = "read" => rxUp /\ rdr = "read"
<1>1. hostUp' => hostUp
  BY UpStays
<1>2. rxUp' => rxUp
  <2>1. rxUp \in BOOLEAN
    BY DEF TypeInv, TypeOK, MuxTypeOK
  <2>2. ASSUME ReadFrame PROVE UNCHANGED rxUp
    BY <2>2 DEF ReadFrame
  <2> QED BY <2>1, <2>2
     DEF Next, HostNext, DaemonNext, UiOpen, OpenInsert, UiOpenWrite, OpenWrite,
         UiRegister, UiSend, SendFrame, UiClose, CloseWrite, UiCloseRemove,
         CloseRemove, UiUnregister, UiQuit, UiEvent, UiDrop, DropTeardown,
         UiDropped, DropJoin, FeedTake, FeedEnd, ReadEnd, DrainLive, NotifyGone,
         ReaderDone
<1>3. rdr' = "read" => rdr = "read"
  <2>1. ASSUME ReadFrame PROVE rdr = "read"
    BY <2>1 DEF ReadFrame
  <2> QED BY <2>1
     DEF Next, HostNext, DaemonNext, UiOpen, OpenInsert, UiOpenWrite, OpenWrite,
         UiRegister, UiSend, SendFrame, UiClose, CloseWrite, UiCloseRemove,
         CloseRemove, UiUnregister, UiQuit, UiEvent, UiDrop, DropTeardown,
         UiDropped, DropJoin, FeedTake, FeedEnd, ReadEnd, DrainLive, NotifyGone,
         ReaderDone
<1>4. pc = "dead" => pc' = "dead"
  BY DEF Next, HostNext, DaemonNext, Start, Poll, ReadControl, HandleOpen,
         HandleData, HandleResize, HandleSignal, HandleClose, Next1, FeedDone,
         Forward, Reap, PassDone, TearDown, DaemonDies, ShellWrite, ShellRead,
         ShellExit, TtyHang
<1> QED BY <1>1, <1>2, <1>3, <1>4 DEF Intact

(* The count of the chunks on the way is a number.                         *)
LEMMA QueuedType ==
  ASSUME TypeInv, NEW i \in Ids
  PROVE  /\ Queued(i) = Cardinality(Marks(toHost, Frame("DATA", i)))
         /\ Queued(i)' = Cardinality(Marks(toHost', Frame("DATA", i)))
         /\ Queued(i) \in Nat /\ nData[i] \in Nat /\ outq[i] \in Nat
         /\ wrote[i] \in Nat
<1>1. toHost \in Seq(SrvFrames)
  BY DEF TypeInv, TypeOK, WireTypeOK
<1>2. Queued(i) = Cardinality(Marks(toHost, Frame("DATA", i)))
  BY DEF Queued, Marks
<1>3. Queued(i)' = Cardinality(Marks(toHost', Frame("DATA", i)))
  BY DEF Queued, Marks
<1>4. Queued(i) \in Nat
  BY <1>1, <1>2, MarksFinite
<1>5. outq[i] \in 0..OutCap /\ wrote[i] \in Nat
  BY DEF TypeInv, TypeOK, DaemonTypeOK
<1>6. nData[i] \in Nat
  BY DEF TypeInv, TypeOK, MuxTypeOK
<1>7. outq[i] \in Nat
  BY <1>5, DaemonAssumption
<1> QED BY <1>2, <1>3, <1>4, <1>5, <1>6, <1>7

(* What a frame the daemon sends adds.                                     *)
LEMMA SendAdds ==
  ASSUME TypeInv, NEW f \in SrvFrames, Send(f), NEW i \in Ids
  PROVE  /\ Queued(i)' = Queued(i) +
                           (IF hostUp /\ f = Frame("DATA", i) THEN 1 ELSE 0)
         /\ On(toHost', "EXIT", i) <=>
               On(toHost, "EXIT", i) \/ (hostUp /\ f = Frame("EXIT", i))
<1>1. toHost \in Seq(SrvFrames)
  BY DEF TypeInv, TypeOK, WireTypeOK
<1>2. CASE hostUp /\ toHost' = Append(toHost, f)
  BY <1>1, <1>2, QueuedType, MarksPush, OnPush
<1>3. CASE ~hostUp /\ UNCHANGED toHost
  BY <1>3, QueuedType
<1> QED BY <1>2, <1>3 DEF Send

(* A step that moves nothing of a session.                                 *)
LEMMA NothingMoves ==
  ASSUME TypeInv, Next, NEW i \in Ids, OutputOf(i),
         Accounted(i)' = Accounted(i), wrote'[i] = wrote[i], tty'[i] # "none" => tty[i] # "none",
         i \in eof' => i \in eof,
         On(toHost', "EXIT", i) => On(toHost, "EXIT", i)
  PROVE  OutputOf(i)'
  BY IntactBefore DEF OutputOf

(* A step that loses some of it where it may.                              *)
LEMMA SomeLost ==
  ASSUME TypeInv, NEW i \in Ids, OutputOf(i),
         Accounted(i)' <= Accounted(i), Accounted(i) \in Nat, Accounted(i)' \in Nat,
         wrote'[i] = wrote[i], ~Intact', ~(rxUp' /\ rdr' = "read")
  PROVE  OutputOf(i)'
  BY QueuedType DEF OutputOf

(* No frame of a session is behind its EXIT.                               *)
LEMMA ExitLast ==
  ASSUME TypeInv, ExitInv, NEW i \in Ids, toHost # <<>>, Head(toHost) = Frame("EXIT", i)
  PROVE  Queued(i) = 0 /\ ~On(Tail(toHost), "EXIT", i)
<1>1. /\ toHost \in Seq(SrvFrames) /\ Len(toHost) \in Nat \ {0}
      /\ Len(Tail(toHost)) = Len(toHost) - 1
      /\ toHost[1] = Frame("EXIT", i)
      /\ \A k \in 1..Len(Tail(toHost)) : Tail(toHost)[k] = toHost[k + 1]
  BY Pop DEF TypeInv, TypeOK, WireTypeOK
<1>2. /\ Frame("EXIT", i).type = "EXIT" /\ Frame("EXIT", i).id = i
      /\ Frame("DATA", i).type = "DATA" /\ Frame("DATA", i).id = i
  BY DEF Frame
<1>3. \A m \in 1..Len(toHost) : m # 1 => toHost[m].id # i
  BY <1>1, <1>2 DEF ExitInv
<1>4. \A m \in 1..Len(toHost) : toHost[m] # Frame("DATA", i)
  BY <1>1, <1>2, <1>3
<1>5. ~On(Tail(toHost), "EXIT", i)
  BY <1>1, <1>2, <1>3 DEF On
<1> QED BY <1>1, <1>4, <1>5, MarksSome, QueuedType

(* A session with a slot has not ended.                                    *)
LEMMA ActiveNotOver ==
  ASSUME TypeInv, SessionInv, NEW i \in Ids, shell[i] \notin Over
  PROVE  nExit[i] = 0 /\ ~On(toHost, "EXIT", i)
<1>1. nExit[i] \in Nat
  BY DEF TypeInv, TypeOK, MuxTypeOK
<1>2. Frame("EXIT", i).type = "EXIT" /\ Frame("EXIT", i).id = i
  BY DEF Frame
<1> QED BY <1>1, <1>2 DEF SessionInv, ExitInv, On, Over

(* What end_sess throws away was complete, or was not asked for.           *)
LEMMA OutputEnd ==
  ASSUME TypeInv, TypeInv', SessionInv, TtyInv, Next,
         UNCHANGED <<nData, toHost, wrote, slot>>,
         NEW s \in Slots, slot[s] # 0, NEW killit, NEW ret,
         EndSess(s, killit, ret),
         \/ UNCHANGED eof
         \/ /\ eof' = eof \cup {slot[s]}
            /\ outq[slot[s]] = 0 /\ tty[slot[s]] = "hung",
         NEW i \in Ids, OutputOf(i)
  PROVE  OutputOf(i)'
<1>1. /\ i = slot[s] => tty'[i] = "none" /\ outq'[i] = 0
      /\ i # slot[s] => tty'[i] = tty[i] /\ outq'[i] = outq[i]
  BY EndSessCloses
<1>2. Queued(i)' = Queued(i) /\ (On(toHost', "EXIT", i) <=> On(toHost, "EXIT", i))
  BY QueuedType
<1>3. Queued(i) \in Nat /\ nData[i] \in Nat /\ outq[i] \in Nat /\ wrote[i] \in Nat
  BY QueuedType
<1>4. CASE i # slot[s] \/ (UNCHANGED eof /\ outq[i] = 0)
  <2>1. Accounted(i)' = Accounted(i)
    BY <1>1, <1>2, <1>4 DEF Accounted
  <2>2. (tty'[i] # "none" => tty[i] # "none") /\ (i \in eof' => i \in eof)
    BY <1>1, <1>4
  <2> QED BY <1>2, <2>1, <2>2, NothingMoves
<1>5. CASE i = slot[s] /\ UNCHANGED eof /\ outq[i] # 0
  <2>1. Accounted(i)' <= Accounted(i) /\ Accounted(i) <= wrote[i]
    BY <1>1, <1>2, <1>3, <1>5 DEF Accounted, OutputOf
  <2>2. Accounted(i)' <= wrote'[i]
    BY <1>1, <1>2, <1>3, <1>5, <2>1 DEF Accounted
  <2>3. tty'[i] = "none" /\ i \notin eof'
    BY <1>1, <1>3, <1>5 DEF TtyInv
  <2> QED BY <2>2, <2>3 DEF OutputOf
<1>6. CASE i = slot[s] /\ outq[i] = 0 /\ tty[i] = "hung"
  <2>1. Accounted(i)' = Accounted(i)
    BY <1>1, <1>2, <1>6 DEF Accounted
  <2>2. ~On(toHost', "EXIT", i)
    <3>1. shell[i] \notin Over
      BY <1>6 DEF TtyInv, Over
    <3> QED BY <1>2, <3>1, ActiveNotOver
  <2> QED BY <1>6, <2>1, <2>2, IntactBefore DEF OutputOf
<1> QED BY <1>4, <1>5, <1>6

(* The reader moves chunks from the wire to the count, or loses them with  *)
(* the line.                                                               *)
LEMMA OutputHost ==
  ASSUME TypeInv, TypeInv', SessionInv, OutputInv, HostNext
  PROVE  OutputInv'
<1>n. Next
  BY DEF Next
<1> SUFFICES ASSUME NEW i \in Ids
             PROVE  OutputOf(i)'
  BY DEF OutputInv
<1>0. OutputOf(i)
  BY DEF OutputInv
<1>d. UNCHANGED <<tty, outq, wrote, eof>>
  BY DEF HostNext
<1>t. /\ Queued(i) \in Nat /\ nData[i] \in Nat /\ outq[i] \in Nat /\ wrote[i] \in Nat
      /\ Queued(i) = Cardinality(Marks(toHost, Frame("DATA", i)))
      /\ Queued(i)' = Cardinality(Marks(toHost', Frame("DATA", i)))
  BY QueuedType
<1>t2. toHost \in Seq(SrvFrames) /\ toHost' \in Seq(SrvFrames) /\ nData \in [Ids -> Nat]
  BY DEF TypeInv, TypeOK, WireTypeOK, MuxTypeOK
<1>t3. Queued(i)' \in Nat
  BY <1>t, <1>t2, MarksFinite
<1>1. CASE UNCHANGED <<toHost, nData>>
  <2>1. Accounted(i)' = Accounted(i)
    BY <1>d, <1>1, <1>t DEF Accounted
  <2> QED BY <1>0, <1>n, <1>d, <1>1, <2>1, NothingMoves
<1>2. CASE ReadFrame
  <2>1. PICK f \in SrvFrames :
          /\ toHost # <<>> /\ f = Head(toHost) /\ toHost' = Tail(toHost)
          /\ TxSend(f) /\ UNCHANGED rxUp
    BY <1>2, ReadSorts DEF ReadFrame
  <2>2. /\ Queued(i) = Queued(i)' + (IF f = Frame("DATA", i) THEN 1 ELSE 0)
        /\ On(toHost', "EXIT", i) => On(toHost, "EXIT", i)
    BY <1>t, <1>t2, <2>1, MarksPop, OnPop
  <2>3. nData'[i] = nData[i] + (IF rxUp /\ f = Frame("DATA", i) THEN 1 ELSE 0)
    <3>1. nData' = Counted(nData, "DATA", f)
      BY <2>1 DEF TxSend
    <3>2. f.type = "DATA" => f.id \in Ids /\ (f = Frame("DATA", i) <=> f.id = i)
      BY DEF SrvFrames, Info, Frame
    <3>3. f.type # "DATA" => f # Frame("DATA", i)
      BY DEF Frame
    <3> QED BY <1>t, <1>t2, <3>1, <3>2, <3>3 DEF Counted
  <2>4. CASE rxUp
    <3>1. Accounted(i)' = Accounted(i)
      BY <1>t, <1>t3, <1>d, <2>2, <2>3, <2>4 DEF Accounted
    <3> QED BY <1>0, <1>n, <1>d, <2>2, <3>1, NothingMoves
  <2>5. CASE ~rxUp
    <3>1. Accounted(i)' <= Accounted(i) /\ Accounted(i) \in Nat /\ Accounted(i)' \in Nat
      BY <1>t, <1>t3, <1>d, <2>2, <2>3, <2>5 DEF Accounted
    <3> QED BY <1>0, <1>d, <2>1, <2>5, <3>1, SomeLost DEF Intact
  <2> QED BY <2>4, <2>5
<1>3. CASE ReadEnd
  <2>1. toHost' = <<>> /\ rdr' = "drain" /\ UNCHANGED nData
    BY <1>3 DEF ReadEnd
  <2>2. Queued(i)' = 0
    <3>1. Len(toHost') = 0
      BY <2>1, EmptySeq
    <3>2. Marks(toHost', Frame("DATA", i)) = {}
      BY <3>1 DEF Marks
    <3> QED BY <1>t, <3>2, FS_EmptySet
  <2>3. Accounted(i)' <= Accounted(i) /\ Accounted(i) \in Nat /\ Accounted(i)' \in Nat
    BY <1>t, <1>d, <2>1, <2>2 DEF Accounted
  <2> QED BY <1>0, <1>d, <2>1, <2>3, SomeLost DEF Intact
<1>4. ASSUME NEW j \in Ids, NotifyGone(j)
      PROVE  UNCHANGED <<toHost, nData>>
  BY <1>4 DEF NotifyGone, TxSend, Counted, Frame
<1> QED BY <1>1, <1>2, <1>3, <1>4
        DEF HostNext, UiOpen, OpenInsert, UiOpenWrite, OpenWrite, UiRegister,
            UiSend, SendFrame, UiClose, CloseWrite, UiCloseRemove, CloseRemove,
            UiUnregister, UiQuit, UiEvent, UiDrop, DropTeardown, UiDropped,
            DropJoin, FeedTake, FeedEnd, DrainLive, ReaderDone

(* A program writes a chunk: it waits in the PTY.                          *)
LEMMA OutputWrite ==
  ASSUME TypeInv, TypeInv', TtyInv, Next, UNCHANGED <<toHost, nData, tty, eof>>,
         NEW j \in Ids, tty[j] = "open",
         \/ UNCHANGED <<outq, wrote>>
         \/ /\ outq' = [outq EXCEPT ![j] = @ + 1]
            /\ wrote' = [wrote EXCEPT ![j] = @ + 1],
         NEW i \in Ids, OutputOf(i)
  PROVE  OutputOf(i)'
<1>1. /\ Queued(i)' = Queued(i)
      /\ Queued(i) \in Nat /\ nData[i] \in Nat /\ outq[i] \in Nat /\ wrote[i] \in Nat
  BY QueuedType
<1>2. outq \in [Ids -> 0..OutCap] /\ wrote \in [Ids -> Nat]
  BY DEF TypeInv, TypeOK, DaemonTypeOK
<1>3. CASE UNCHANGED <<outq, wrote>> \/ i # j
  <2>1. outq'[i] = outq[i] /\ wrote'[i] = wrote[i]
    BY <1>2, <1>3
  <2>2. Accounted(i)' = Accounted(i)
    BY <1>1, <2>1 DEF Accounted
  <2> QED BY <2>1, <2>2, NothingMoves
<1>4. CASE i = j /\ ~UNCHANGED <<outq, wrote>>
  <2>1. outq'[i] = outq[i] + 1 /\ wrote'[i] = wrote[i] + 1
    BY <1>2, <1>4
  <2>2. Accounted(i)' = Accounted(i) + 1 /\ Accounted(i) \in Nat
    BY <1>1, <2>1 DEF Accounted
  <2>3. i \notin eof'
    BY <1>4 DEF TtyInv
  <2> QED BY <1>1, <1>4, <2>1, <2>2, <2>3, IntactBefore DEF OutputOf
<1> QED BY <1>3, <1>4

(* The daemon is killed: frames of a session before its EXIT are cut off   *)
(* only with the EXIT.                                                     *)
LEMMA OutputCut ==
  ASSUME TypeInv, TypeInv', SessionInv, TtyInv, Next, DaemonDies,
         UNCHANGED <<nData, rxUp, rdr>>, NEW i \in Ids, OutputOf(i)
  PROVE  OutputOf(i)'
<1>1. PICK n \in 0..Len(toHost) : toHost' = SubSeq(toHost, 1, n)
  BY DEF DaemonDies
<1>2. toHost \in Seq(SrvFrames) /\ Len(toHost) \in Nat /\ Len(toHost') = n
  BY <1>1, Cut, LenProperties DEF TypeInv, TypeOK, WireTypeOK
<1>3. /\ Queued(i) = Cardinality(Marks(toHost, Frame("DATA", i)))
      /\ Queued(i)' = Cardinality(Marks(toHost', Frame("DATA", i)))
      /\ Queued(i) \in Nat /\ nData[i] \in Nat /\ outq[i] \in Nat /\ wrote[i] \in Nat
  BY QueuedType
<1>4. Queued(i)' \in Nat
  <2>1. toHost' \in Seq(SrvFrames)
    BY DEF TypeInv, TypeOK, WireTypeOK
  <2> QED BY <1>3, <2>1, MarksFinite
<1>5. Queued(i)' <= Queued(i)
  BY <1>1, <1>2, <1>3, MarksCut
<1>6. outq'[i] = 0 /\ tty'[i] = "none" /\ pc' = "dead" /\ UNCHANGED <<wrote, eof>>
  BY DEF DaemonDies
<1>7. Accounted(i)' <= Accounted(i)
  BY <1>3, <1>4, <1>5, <1>6 DEF Accounted
<1>8. Accounted(i)' <= wrote'[i]
  BY <1>3, <1>4, <1>6, <1>7 DEF Accounted, OutputOf
<1>9. ASSUME rxUp, rdr = "read", i \in eof, On(toHost', "EXIT", i)
      PROVE  Accounted(i)' = wrote'[i]
  <2>1. PICK x \in 1..n : toHost[x] = Frame("EXIT", i)
    BY <1>1, <1>2, <1>9, Cut DEF On
  <2>2. x \in 1..Len(toHost) /\ On(toHost, "EXIT", i)
    BY <1>2, <2>1 DEF On
  <2>3. \A k \in 1..Len(toHost) : toHost[k] = Frame("DATA", i) => k <= n
    <3>1. /\ Frame("EXIT", i).type = "EXIT" /\ Frame("EXIT", i).id = i
          /\ Frame("DATA", i).id = i
      BY DEF Frame
    <3>2. ASSUME NEW k \in 1..Len(toHost), toHost[k] = Frame("DATA", i)
          PROVE  ~(x < k)
      BY <2>1, <2>2, <3>1, <3>2 DEF SessionInv, ExitInv
    <3> QED BY <1>2, <2>1, <2>2, <3>2
  <2>4. Queued(i)' = Queued(i)
    BY <1>1, <1>2, <1>3, <2>3, MarksCut
  <2>5. outq[i] = 0
    BY <1>3, <1>9 DEF TtyInv
  <2>6. Accounted(i)' = Accounted(i)
    BY <1>6, <2>4, <2>5 DEF Accounted
  <2> QED BY <1>6, <1>9, <2>2, <2>6 DEF OutputOf
<1> QED BY <1>6, <1>8, <1>9 DEF OutputOf, Intact

(* The daemon moves chunks from a PTY to the wire, and ends a session by   *)
(* itself only when its PTY is empty.                                      *)
LEMMA OutputDaemon ==
  ASSUME TypeInv, TypeInv', SessionInv, TtyInv, OutputInv, DaemonNext
  PROVE  OutputInv'
<1>n. Next
  BY DEF Next
<1> SUFFICES ASSUME NEW i \in Ids
             PROVE  OutputOf(i)'
  BY DEF OutputInv
<1>0. OutputOf(i)
  BY DEF OutputInv
<1>d. UNCHANGED <<nData, rxUp, rdr>>
  BY DEF DaemonNext
<1>s. OpenInv /\ SlotInv
  BY DEF SessionInv
<1>t. /\ Queued(i) \in Nat /\ nData[i] \in Nat /\ outq[i] \in Nat /\ wrote[i] \in Nat
  BY QueuedType
<1>t2. /\ tty \in [Ids -> {"none", "open", "hung"}] /\ outq \in [Ids -> 0..OutCap]
       /\ slot \in [Slots -> 0..MaxId] /\ reap \in Slots
       /\ pc = "reap" => slot[reap] # 0
  BY DEF TypeInv, TypeOK, DaemonTypeOK
<1>1. ASSUME UNCHANGED <<outq, wrote, eof>>, tty'[i] # "none" => tty[i] # "none",
             Queued(i)' = Queued(i), On(toHost', "EXIT", i) => On(toHost, "EXIT", i)
      PROVE  OutputOf(i)'
  <2>1. Accounted(i)' = Accounted(i)
    BY <1>d, <1>1 DEF Accounted
  <2> QED BY <1>0, <1>n, <1>1, <2>1, NothingMoves
<1>2. ASSUME UNCHANGED <<toHost, outq, wrote, eof>>, tty'[i] # "none" => tty[i] # "none"
      PROVE  OutputOf(i)'
  <2>1. Queued(i)' = Queued(i)
    BY <1>2, QueuedType
  <2> QED BY <1>1, <1>2, <2>1
<1>3. CASE Start
  <2>1. UNCHANGED <<outq, wrote, eof, tty>>
    BY <1>3 DEF Start
  <2>2. /\ Info \in SrvFrames /\ Info # Frame("DATA", i) /\ Info # Frame("EXIT", i)
    BY DEF Info, SrvFrames, Frame
  <2>3. CASE Send(Info)
    <3>1. Queued(i)' = Queued(i) /\ (On(toHost', "EXIT", i) => On(toHost, "EXIT", i))
      BY <1>t, <2>2, <2>3, SendAdds
    <3> QED BY <1>1, <2>1, <3>1
  <2> QED BY <1>2, <1>3, <2>1, <2>3 DEF Start
<1>4. CASE Poll \/ ReadControl \/ HandleData \/ HandleResize \/ HandleSignal
           \/ FeedDone \/ PassDone
  BY <1>2, <1>4 DEF Poll, ReadControl, HandleData, HandleResize, HandleSignal,
                    FeedDone, PassDone
<1>5. CASE HandleOpen
  <2>1. PICK j \in Ids :
          Head(toSrv) = toSrv[1] /\ toSrv[1].id = j /\ shell[j] = "none"
    BY <1>5, <1>s, OpenSorts
  <2>2. ~Active(j)
    BY <1>s, <2>1 DEF SlotInv, ProcessHasSlot
  <2>3. tty[j] = "none" /\ outq[j] = 0 /\ wrote[j] = 0 /\ j \notin eof
    <3>1. outq[j] \in Nat
      BY QueuedType
    <3> QED BY <2>1, <3>1 DEF TtyInv
  <2>4. UNCHANGED <<outq, wrote, eof>>
    BY <1>5, <2>1, <2>2 DEF HandleOpen
  <2>5. CASE Send(Frame("EXIT", j)) /\ UNCHANGED tty
    <3>1. Frame("EXIT", j) \in SrvFrames /\ Frame("EXIT", j) # Frame("DATA", i)
      BY DEF SrvFrames, Frame
    <3>2. /\ Queued(i)' = Queued(i)
          /\ On(toHost', "EXIT", i) <=>
                On(toHost, "EXIT", i) \/ (hostUp /\ Frame("EXIT", j) = Frame("EXIT", i))
      BY <1>t, <2>5, <3>1, SendAdds
    <3>3. CASE i = j
      <4>1. Accounted(i)' = Accounted(i)
        BY <1>d, <2>4, <3>2 DEF Accounted
      <4> QED BY <1>0, <2>3, <2>4, <2>5, <3>3, <4>1 DEF OutputOf
    <3>4. CASE i # j
      <4>1. Frame("EXIT", j) # Frame("EXIT", i)
        BY <3>4 DEF Frame
      <4> QED BY <1>1, <2>4, <2>5, <3>2, <4>1
    <3> QED BY <3>3, <3>4
  <2>6. CASE tty' = [tty EXCEPT ![j] = "open"] /\ UNCHANGED toHost
    <3>1. CASE i = j
      <4>1. Accounted(i) = 0
        BY <1>0, <1>t, <2>3, <3>1 DEF OutputOf, Accounted
      <4>2. Queued(i)' = Queued(i)
        BY <2>6, QueuedType
      <4>3. Accounted(i)' = 0 /\ wrote'[i] = 0
        BY <1>d, <2>3, <2>4, <3>1, <4>1, <4>2 DEF Accounted
      <4> QED BY <4>3 DEF OutputOf
    <3>2. CASE i # j
      BY <1>2, <1>t2, <2>4, <2>6, <3>2
    <3> QED BY <3>1, <3>2
  <2> QED BY <1>5, <2>1, <2>2, <2>5, <2>6 DEF HandleOpen
<1>6. CASE HandleClose
  <2>0. Head(toSrv).id \in Ids
    BY <1>6, ConsumeType DEF HandleClose, Next1, TypeInv, TypeOK
  <2>1. ASSUME NEW s \in Slots, slot[s] = Head(toSrv).id, EndSess(s, TRUE, "feed")
        PROVE  OutputOf(i)'
    <3>1. slot[s] # 0 /\ UNCHANGED <<nData, toHost, slot, wrote, eof>>
      BY <1>d, <1>6, <2>0, <2>1 DEF HandleClose
    <3> HIDE DEF Ids
    <3> QED BY <1>0, <1>n, <2>1, <3>1, OutputEnd
  <2>2. CASE UNCHANGED <<shell, tty, inq, outq, reap, back, pc>>
    BY <1>2, <1>6, <2>2 DEF HandleClose
  <2> QED BY <1>6, <2>1, <2>2 DEF HandleClose
<1>7. ASSUME NEW s \in Slots, Forward(s)
      PROVE  OutputOf(i)'
  <2>1. CASE UNCHANGED <<pc, reap, back, shell, tty, inq, outq, eof, toHost>>
    BY <1>2, <1>7, <2>1 DEF Forward
  <2>2. CASE /\ slot[s] # 0 /\ outq[slot[s]] > 0
             /\ Send(Frame("DATA", slot[s]))
             /\ outq' = [outq EXCEPT ![slot[s]] = @ - 1]
             /\ UNCHANGED <<pc, reap, back, shell, tty, inq, eof>>
    <3>0. slot[s] \in Ids
      BY <1>t2, <2>2
    <3>1. PICK j \in Ids : j = slot[s]
      BY <3>0
    <3>2. /\ Frame("DATA", j) \in SrvFrames /\ Frame("DATA", j) # Frame("EXIT", i)
          /\ Frame("DATA", j) = Frame("DATA", i) <=> i = j
      BY DEF SrvFrames, Frame
    <3>3. /\ Queued(i)' = Queued(i) + (IF hostUp /\ i = j THEN 1 ELSE 0)
          /\ On(toHost', "EXIT", i) <=> On(toHost, "EXIT", i)
      BY <1>t, <2>2, <3>1, <3>2, SendAdds
    <3>4. UNCHANGED <<wrote, hostUp>>
      BY <1>7 DEF Forward
    <3>5. outq'[i] = outq[i] - (IF i = j THEN 1 ELSE 0)
      BY <1>t, <1>t2, <2>2, <3>1
    <3>6. CASE hostUp \/ i # j
      <4>1. Accounted(i)' = Accounted(i)
        BY <1>d, <1>t, <3>3, <3>5, <3>6 DEF Accounted
      <4> QED BY <1>0, <1>n, <2>2, <3>3, <3>4, <4>1, NothingMoves
    <3>7. CASE ~hostUp /\ i = j
      <4>1. Accounted(i)' = Accounted(i) - 1 /\ Accounted(i) \in Nat
        BY <1>d, <1>t, <3>3, <3>5, <3>7 DEF Accounted
      <4>2. i \notin eof
        BY <2>2, <3>1, <3>7 DEF TtyInv
      <4> QED BY <1>0, <1>t, <2>2, <3>4, <3>7, <4>1, <4>2 DEF OutputOf, Intact
    <3> QED BY <3>6, <3>7
  <2>3. CASE /\ slot[s] # 0 /\ outq[slot[s]] = 0 /\ tty[slot[s]] = "hung"
             /\ EndSess(s, FALSE, "scan") /\ eof' = eof \cup {slot[s]}
             /\ UNCHANGED toHost
    <3>1. UNCHANGED <<nData, toHost, slot, wrote>>
      BY <1>d, <1>7, <2>3 DEF Forward
    <3> HIDE DEF Ids
    <3> QED BY <1>0, <1>n, <2>3, <3>1, OutputEnd
  <2> QED BY <1>7, <2>1, <2>2, <2>3 DEF Forward
<1>8. CASE Reap
  <2>0. slot[reap] \in Ids
    BY <1>t2, <1>8 DEF Reap
  <2>1. PICK j \in Ids : j = slot[reap]
    BY <2>0
  <2>2. /\ Send(Frame("EXIT", j)) /\ UNCHANGED <<tty, outq, wrote, eof, hostUp>>
        /\ pc = "reap"
    BY <1>8, <2>1 DEF Reap
  <2>3. Frame("EXIT", j) \in SrvFrames /\ Frame("EXIT", j) # Frame("DATA", i)
    BY DEF SrvFrames, Frame
  <2>4. /\ Queued(i)' = Queued(i)
        /\ On(toHost', "EXIT", i) => On(toHost, "EXIT", i) \/ hostUp
    BY <1>t, <2>2, <2>3, SendAdds
  <2>5. Accounted(i)' = Accounted(i)
    BY <1>d, <2>2, <2>4 DEF Accounted
  <2> QED BY <1>0, <1>n, <1>d, <2>2, <2>4, <2>5, IntactBefore DEF OutputOf, Intact
<1>9. CASE TearDown
  <2>1. ASSUME NEW s \in Slots, Lowest(s, Slots \ FreeSlots),
               EndSess(s, TRUE, "teardown")
        PROVE  OutputOf(i)'
    <3>1. slot[s] # 0 /\ UNCHANGED <<nData, toHost, slot, wrote, eof>>
      BY <1>d, <1>9, <2>1 DEF TearDown, Lowest, FreeSlots
    <3> HIDE DEF Ids
    <3> QED BY <1>0, <1>n, <2>1, <3>1, OutputEnd
  <2>2. CASE UNCHANGED <<shell, tty, inq, outq, reap, back>> /\ pc' = "done"
    BY <1>2, <1>9, <2>2 DEF TearDown
  <2> QED BY <1>9, <2>1, <2>2 DEF TearDown
<1>10. CASE DaemonDies
  BY <1>0, <1>n, <1>d, <1>10, OutputCut
<1>11. ASSUME NEW j \in Ids, ShellWrite(j) \/ ShellRead(j)
       PROVE  OutputOf(i)'
  <2>1. /\ UNCHANGED <<toHost, tty, eof>> /\ tty[j] = "open"
        /\ \/ UNCHANGED <<outq, wrote>>
           \/ /\ outq' = [outq EXCEPT ![j] = @ + 1]
              /\ wrote' = [wrote EXCEPT ![j] = @ + 1]
    BY <1>11 DEF ShellWrite, ShellRead
  <2> QED BY <1>0, <1>n, <1>d, <2>1, OutputWrite
<1>12. ASSUME NEW j \in Ids, ShellExit(j)
       PROVE  OutputOf(i)'
  BY <1>2, <1>12 DEF ShellExit
<1>13. ASSUME NEW j \in Ids, TtyHang(j)
       PROVE  OutputOf(i)'
  BY <1>2, <1>13, <1>t2 DEF TtyHang
<1> QED BY <1>3, <1>4, <1>5, <1>6, <1>7, <1>8, <1>9, <1>10, <1>11, <1>12, <1>13
        DEF DaemonNext

------------------------------------------------------------------------------
(* CompleteOutput. *)

(* A program writes only while its terminal is open, in a step in which    *)
(* the host does nothing and nothing else of the session changes.          *)
LEMMA WriteSorts ==
  ASSUME Next
  PROVE  \/ UNCHANGED wrote
         \/ /\ \E j \in Ids :
                 tty[j] = "open" /\ wrote' = [wrote EXCEPT ![j] = @ + 1]
            /\ UNCHANGED <<nextId, nData, nExit, nGone, eof, shell>>
<1>1. CASE HostNext
  BY <1>1 DEF HostNext
<1>2. CASE \/ Start \/ Poll \/ ReadControl \/ HandleOpen \/ HandleData
           \/ HandleResize \/ HandleSignal \/ HandleClose \/ FeedDone \/ Reap
           \/ PassDone \/ TearDown \/ DaemonDies
  BY <1>2 DEF Start, Poll, ReadControl, HandleOpen, HandleData, HandleResize,
              HandleSignal, HandleClose, FeedDone, Reap, PassDone, TearDown,
              DaemonDies
<1>3. ASSUME NEW s \in Slots, Forward(s) PROVE UNCHANGED wrote
  BY <1>3 DEF Forward
<1>4. ASSUME NEW j \in Ids, ShellExit(j) \/ TtyHang(j) PROVE UNCHANGED wrote
  BY <1>4 DEF ShellExit, TtyHang
<1>5. ASSUME NEW j \in Ids, ShellWrite(j) \/ ShellRead(j), UNCHANGED hostVars
      PROVE  \/ UNCHANGED wrote
             \/ /\ tty[j] = "open" /\ wrote' = [wrote EXCEPT ![j] = @ + 1]
                /\ UNCHANGED <<nextId, nData, nExit, nGone, eof, shell>>
  BY <1>5 DEF ShellWrite, ShellRead
<1> QED BY <1>1, <1>2, <1>3, <1>4, <1>5 DEF Next, DaemonNext

(* A session's output ends only while it has a slot, and by the daemon.    *)
LEMMA EofSorts ==
  ASSUME TypeInv, Next
  PROVE  \/ UNCHANGED eof
         \/ /\ \E s \in Slots : slot[s] \in Ids /\ eof' = eof \cup {slot[s]}
            /\ UNCHANGED <<nData, nExit, nGone>>
<1>1. CASE HostNext
  BY <1>1 DEF HostNext
<1>2. CASE \/ Start \/ Poll \/ ReadControl \/ HandleOpen \/ HandleData
           \/ HandleResize \/ HandleSignal \/ HandleClose \/ FeedDone \/ Reap
           \/ PassDone \/ TearDown \/ DaemonDies
  BY <1>2 DEF Start, Poll, ReadControl, HandleOpen, HandleData, HandleResize,
              HandleSignal, HandleClose, FeedDone, Reap, PassDone, TearDown,
              DaemonDies
<1>3. ASSUME NEW s \in Slots, Forward(s)
      PROVE  UNCHANGED eof \/ (slot[s] \in Ids /\ eof' = eof \cup {slot[s]})
  <2>1. slot[s] \in 0..MaxId
    BY DEF TypeInv, TypeOK, DaemonTypeOK
  <2>2. slot[s] # 0 => slot[s] \in Ids
    BY <2>1, WireAssumption
  <2> QED BY <1>3, <2>2 DEF Forward
<1>4. ASSUME NEW j \in Ids, ShellWrite(j) \/ ShellRead(j) \/ ShellExit(j) \/ TtyHang(j)
      PROVE  UNCHANGED eof
  BY <1>4 DEF ShellWrite, ShellRead, ShellExit, TtyHang
<1>5. DaemonNext => UNCHANGED <<nData, nExit, nGone>>
  BY DEF DaemonNext
<1> QED BY <1>1, <1>2, <1>3, <1>4, <1>5 DEF Next, DaemonNext

(* What the reader counts: a chunk, an end, or nothing.                    *)
LEMMA SeenSorts ==
  ASSUME TypeInv, Next
  PROVE  \/ UNCHANGED <<nData, nExit, nGone>>
         \/ /\ UNCHANGED <<nextId, wrote, eof, shell>> /\ rxUp
            /\ \E i \in Ids :
                 \/ /\ rdr = "read" /\ toHost # <<>> /\ Head(toHost) = Frame("DATA", i)
                    /\ nData' = [nData EXCEPT ![i] = @ + 1]
                    /\ UNCHANGED <<nExit, nGone>>
                 \/ /\ rdr = "read" /\ toHost # <<>> /\ Head(toHost) = Frame("EXIT", i)
                    /\ nExit' = [nExit EXCEPT ![i] = @ + 1]
                    /\ UNCHANGED <<nData, nGone>>
                 \/ /\ i \in left
                    /\ nGone' = [nGone EXCEPT ![i] = @ + 1]
                    /\ UNCHANGED <<nData, nExit>>
<1>1. CASE ReadFrame /\ UNCHANGED daemonVars
  <2>1. PICK f \in SrvFrames : f = Head(toHost) /\ toHost # <<>> /\ rdr = "read"
    BY <1>1, ReadSorts
  <2>2. TxSend(f) /\ UNCHANGED nextId
    BY <1>1, <2>1 DEF ReadFrame
  <2>3. \/ f = Info
        \/ \E i \in Ids : f = Frame("DATA", i) \/ f = Frame("EXIT", i)
    BY DEF SrvFrames, Frame
  <2>4. CASE f = Info
    BY <2>2, <2>4 DEF TxSend, Counted, Info
  <2>5. ASSUME NEW i \in Ids, f = Frame("DATA", i)
        PROVE  \/ UNCHANGED <<nData, nExit, nGone>>
               \/ /\ rxUp /\ nData' = [nData EXCEPT ![i] = @ + 1]
                  /\ UNCHANGED <<nExit, nGone>>
    BY <2>2, <2>5 DEF TxSend, Counted, Frame
  <2>6. ASSUME NEW i \in Ids, f = Frame("EXIT", i)
        PROVE  \/ UNCHANGED <<nData, nExit, nGone>>
               \/ /\ rxUp /\ nExit' = [nExit EXCEPT ![i] = @ + 1]
                  /\ UNCHANGED <<nData, nGone>>
    BY <2>2, <2>6 DEF TxSend, Counted, Frame
  <2> QED BY <1>1, <2>1, <2>2, <2>3, <2>4, <2>5, <2>6
<1>2. ASSUME NEW i \in Ids, NotifyGone(i), UNCHANGED daemonVars
      PROVE  \/ UNCHANGED <<nData, nExit, nGone>>
             \/ /\ UNCHANGED <<nextId, wrote, eof, shell, nData, nExit>>
                /\ rxUp /\ i \in left
                /\ nGone' = [nGone EXCEPT ![i] = @ + 1]
  BY <1>2 DEF NotifyGone, TxSend, Counted, Frame
<1>3. CASE DaemonNext
  BY <1>3 DEF DaemonNext
<1> QED BY <1>1, <1>2, <1>3
        DEF Next, HostNext, UiOpen, OpenInsert, UiOpenWrite, OpenWrite,
            UiRegister, UiSend, SendFrame, UiClose, CloseWrite, UiCloseRemove,
            CloseRemove, UiUnregister, UiQuit, UiEvent, UiDrop, DropTeardown,
            UiDropped, DropJoin, FeedTake, FeedEnd, ReadEnd, DrainLive,
            ReaderDone

(* When the reader counts the EXIT of a session that ended by itself,      *)
(* nothing of it is left on the way.                                       *)
LEMMA CompleteStep ==
  ASSUME TypeInv, SessionInv, TtyInv, OutputInv, CompleteOutput, Next
  PROVE  CompleteOutput'
<1> SUFFICES ASSUME NEW i \in Ids, i \in eof', nExit'[i] > 0
             PROVE  nData'[i] = wrote'[i]
  <2>1. eof' \subseteq Ids
    BY TypeStep DEF TypeInv, TypeOK, DaemonTypeOK
  <2> QED BY <2>1 DEF CompleteOutput
<1>t. /\ Queued(i) \in Nat /\ nData[i] \in Nat /\ outq[i] \in Nat /\ wrote[i] \in Nat
      /\ nData \in [Ids -> Nat] /\ nExit \in [Ids -> Nat] /\ wrote \in [Ids -> Nat]
  BY QueuedType DEF TypeInv, TypeOK, MuxTypeOK, DaemonTypeOK
<1>1. CASE ~UNCHANGED eof
  <2>1. PICK s \in Slots : slot[s] \in Ids /\ eof' = eof \cup {slot[s]}
    BY <1>1, EofSorts
  <2>2. UNCHANGED <<nData, nExit>>
    BY <1>1, EofSorts
  <2>3. slot[s] # i
    <3>1. slot[s] = i => shell[i] \notin Over
      BY <2>1 DEF SessionInv, SlotInv, ProcessHasSlot, Active, Over
    <3> QED BY <1>t, <2>2, <3>1, ActiveNotOver
  <2>4. i \in eof /\ nExit[i] > 0
    BY <2>1, <2>2, <2>3
  <2>5. UNCHANGED wrote
    BY <1>1, WriteSorts
  <2> QED BY <2>2, <2>4, <2>5 DEF CompleteOutput
<1>2. CASE UNCHANGED eof /\ UNCHANGED <<nData, nExit, nGone>>
  <2>1. i \in eof /\ nExit[i] > 0 /\ nData[i] = wrote[i] /\ tty[i] # "open"
    BY <1>2 DEF CompleteOutput, TtyInv
  <2>2. wrote'[i] = wrote[i]
    BY <1>t, <2>1, WriteSorts
  <2> QED BY <1>2, <2>1, <2>2
<1>3. CASE ~UNCHANGED <<nData, nExit, nGone>>
  <2>1. PICK j \in Ids :
          \/ /\ rdr = "read" /\ toHost # <<>> /\ Head(toHost) = Frame("DATA", j)
             /\ nData' = [nData EXCEPT ![j] = @ + 1]
             /\ UNCHANGED nExit
          \/ /\ rdr = "read" /\ toHost # <<>> /\ Head(toHost) = Frame("EXIT", j)
             /\ nExit' = [nExit EXCEPT ![j] = @ + 1]
             /\ UNCHANGED nData
          \/ UNCHANGED <<nData, nExit>>
    BY <1>3, SeenSorts
  <2>2. UNCHANGED <<wrote, eof>> /\ rxUp
    BY <1>3, SeenSorts
  <2>h. toHost # <<>> => /\ 1 \in 1..Len(toHost) /\ Head(toHost) = toHost[1]
    BY Pop DEF TypeInv, TypeOK, WireTypeOK
  <2>3. CASE i = j /\ rdr = "read" /\ toHost # <<>> /\ Head(toHost) = Frame("DATA", j)
             /\ UNCHANGED nExit
    <3>1. toHost[1].id = i
      BY <2>h, <2>3 DEF Frame
    <3> QED BY <2>h, <2>3, <3>1 DEF SessionInv, ExitInv
  <2>4. CASE i = j /\ rdr = "read" /\ toHost # <<>> /\ Head(toHost) = Frame("EXIT", j)
             /\ UNCHANGED nData
    <3>1. On(toHost, "EXIT", i)
      BY <2>h, <2>4 DEF On
    <3>2. Accounted(i) = wrote[i]
      BY <2>2, <2>4, <3>1 DEF OutputInv, OutputOf
    <3>3. Queued(i) = 0
      BY <2>4, ExitLast DEF SessionInv
    <3>4. outq[i] = 0
      BY <1>t, <2>2 DEF TtyInv
    <3> QED BY <1>t, <2>2, <2>4, <3>2, <3>3, <3>4 DEF Accounted
  <2>5. CASE nData'[i] = nData[i] /\ nExit'[i] = nExit[i]
    BY <2>2, <2>5 DEF CompleteOutput
  <2> QED BY <1>t, <2>1, <2>3, <2>4, <2>5
<1> QED BY <1>1, <1>2, <1>3

------------------------------------------------------------------------------
(* The whole invariant, and the theorems it was built for. *)

(* Nothing of the whole invariant depends on the bounds of a run: it holds *)
(* initially and every step of every thread, program and failure keeps it. *)
THEOREM SystemConsistent == Spec => []SystemInv
<1> DEFINE Strong == TypeInv /\ SessionInv /\ OwnerInv
<1>1. Init => TtyInv /\ OutputInv /\ CompleteOutput
  <2> SUFFICES ASSUME Init PROVE TtyInv /\ OutputInv /\ CompleteOutput
    OBVIOUS
  <2>1. TtyInv
    BY TtyInit
  <2>2. ASSUME NEW i \in Ids PROVE OutputOf(i)
    <3>1. toHost = <<>> /\ Len(toHost) = 0
      BY EmptySeq DEF Init, WireInit
    <3>2. Queued(i) = 0
      <4>1. Marks(toHost, Frame("DATA", i)) = {}
        BY <3>1 DEF Marks
      <4> QED BY <4>1, TypeInit, QueuedType, FS_EmptySet
    <3>3. Accounted(i) = 0 /\ wrote[i] = 0
      BY <3>2 DEF Init, MuxInit, DaemonInit, Accounted
    <3> QED BY <3>3 DEF OutputOf
  <2>3. CompleteOutput
    BY DEF Init, DaemonInit, CompleteOutput
  <2> QED BY <2>1, <2>2, <2>3 DEF OutputInv
<1>2. /\ Strong /\ Strong' /\ TtyInv /\ OutputInv /\ CompleteOutput /\ [Next]_vars
      => TtyInv' /\ OutputInv' /\ CompleteOutput'
  <2> SUFFICES ASSUME TypeInv, TypeInv', SessionInv, TtyInv, OutputInv,
                      CompleteOutput, [Next]_vars
               PROVE  TtyInv' /\ OutputInv' /\ CompleteOutput'
    OBVIOUS
  <2>1. CASE Next
    <3>1. OutputInv'
      BY <2>1, OutputHost, OutputDaemon DEF Next
    <3> QED BY <2>1, <3>1, TtyStep, CompleteStep
  <2>2. CASE UNCHANGED vars
    BY <2>2 DEF TtyInv, OutputInv, OutputOf, Accounted, Queued, Intact, CompleteOutput
  <2> QED BY <2>1, <2>2
<1>3. Strong /\ TtyInv /\ OutputInv /\ CompleteOutput => SystemInv
  BY DEF SystemInv
<1>4. Spec => []Strong
  BY OwnerConsistent
<1> HIDE DEF Strong
<1> QED BY <1>1, <1>2, <1>3, <1>4, PTL DEF Spec

(* A session that ended by itself was shown completely: every chunk its    *)
(* programs wrote before they let go of the terminal is delivered before   *)
(* its Exit event (forward_master reads a hung-up master until it is       *)
(* empty; EXIT is the session's last frame; the reader keeps the order).   *)
THEOREM NothingCutOff == Spec => []CompleteOutput
<1>1. SystemInv => CompleteOutput
  BY DEF SystemInv
<1> QED BY <1>1, SystemConsistent, PTL

------------------------------------------------------------------------------
(* The refinement of SessionService. *)

(* The service's state before and after a step, session by session.        *)
LEMMA PhaseValue ==
  ASSUME NEW i \in Ids
  PROVE  /\ Phase[i] = IF nGone[i] > 0 THEN "lost"
                       ELSE IF nExit[i] > 0 THEN "ended"
                       ELSE IF i <= nextId THEN "open" ELSE "new"
         /\ Phase'[i] = IF nGone'[i] > 0 THEN "lost"
                        ELSE IF nExit'[i] > 0 THEN "ended"
                        ELSE IF i <= nextId' THEN "open" ELSE "new"
  BY DEF Phase

(* One session's phase changes, the others keep theirs.                    *)
LEMMA PhaseExcept ==
  ASSUME NEW i \in Ids, NEW p, Phase'[i] = p,
         \A j \in Ids \ {i} : Phase'[j] = Phase[j]
  PROVE  Phase' = [Phase EXCEPT ![i] = p]
  BY DEF Phase

(* A step that opens and ends nothing keeps every phase.                   *)
LEMMA PhaseKept ==
  ASSUME UNCHANGED <<nextId, nExit, nGone>>
  PROVE  Phase' = Phase
  BY DEF Phase

(* A session is open as long as its shell is a child of the daemon, or     *)
(* lost; a frame of it, or its place in the drain, shows that it is open.  *)
LEMMA OpenPhases ==
  ASSUME TypeInv, SystemInv, NEW i \in Ids
  PROVE  /\ shell[i] \in Child => Phase[i] \in {"open", "lost"}
         /\ rdr = "read" /\ toHost # <<>>
            /\ (Head(toHost) = Frame("DATA", i) \/ Head(toHost) = Frame("EXIT", i))
              => Phase[i] = "open" /\ nExit[i] = 0 /\ nGone[i] = 0
         /\ i \in left => Phase[i] = "open" /\ nExit[i] = 0 /\ nGone[i] = 0
         /\ i > nextId => Phase[i] = "new" /\ nExit[i] = 0 /\ nGone[i] = 0
<1>t. /\ nExit[i] \in Nat /\ nGone[i] \in Nat /\ nextId \in Nat /\ i \in Nat
  BY DEF TypeInv, TypeOK, MuxTypeOK
<1>i. OpenInv /\ ExitInv /\ LiveInv /\ TtyInv /\ OutputOf(i)
  BY DEF SystemInv, SessionInv, OutputInv
<1>1. shell[i] \in Child => Phase[i] \in {"open", "lost"}
  <2>1. shell[i] \in Child => nExit[i] = 0 /\ i <= nextId
    BY <1>t, <1>i DEF Child, ExitInv, OpenInv
  <2> QED BY <1>t, <2>1, PhaseValue
<1>2. ASSUME rdr = "read", toHost # <<>>,
             Head(toHost) = Frame("DATA", i) \/ Head(toHost) = Frame("EXIT", i)
      PROVE  Phase[i] = "open" /\ nExit[i] = 0 /\ nGone[i] = 0
  <2>1. 1 \in 1..Len(toHost) /\ Head(toHost) = toHost[1]
    BY <1>2, Pop DEF TypeInv, TypeOK, WireTypeOK
  <2>2. /\ toHost[1].id = i
        /\ toHost[1] = Frame("DATA", i) \/ toHost[1].type = "EXIT"
    BY <1>2, <2>1 DEF Frame
  <2>3. nGone[i] = 0 /\ ~(nExit[i] > 0)
    BY <1>2, <1>i, <2>1, <2>2 DEF LiveInv, ExitInv
  <2>4. shell[i] # "none"
    <3>1. CASE toHost[1].type = "EXIT"
      BY <1>i, <2>1, <2>2, <3>1 DEF ExitInv
    <3>2. CASE toHost[1] = Frame("DATA", i)
      <4>1. toHost \in Seq(SrvFrames)
        BY DEF TypeInv, TypeOK, WireTypeOK
      <4>2. Queued(i) > 0
        BY <2>1, <3>2, <4>1, MarksSome, QueuedType
      <4>3. wrote[i] > 0
        BY <1>i, <4>2, QueuedType DEF OutputOf, Accounted
      <4> QED BY <1>i, <4>3 DEF TtyInv
    <3> QED BY <2>2, <3>1, <3>2
  <2>5. i <= nextId
    BY <1>t, <1>i, <2>4 DEF OpenInv
  <2> QED BY <1>t, <2>3, <2>5, PhaseValue
<1>3. i \in left => Phase[i] = "open" /\ nExit[i] = 0 /\ nGone[i] = 0
  <2>1. i \in left => ~Told(i) /\ i <= nextId
    BY <1>t, <1>i DEF LiveInv
  <2> QED BY <1>t, <2>1, PhaseValue DEF Told
<1>4. i > nextId => Phase[i] = "new" /\ nExit[i] = 0 /\ nGone[i] = 0
  <2>1. i > nextId => ~Told(i)
    BY <1>t, <1>i DEF LiveInv
  <2> QED BY <1>t, <2>1, PhaseValue DEF Told
<1> QED BY <1>1, <1>2, <1>3, <1>4

(* Every step of the system is a step of the service or none.              *)
LEMMA ServiceStep ==
  ASSUME TypeInv, SystemInv, Next
  PROVE  [Service!Next]_(Service!svars)
<1> USE DEF Service!Sessions
<1>t. /\ nData \in [Ids -> Nat] /\ nExit \in [Ids -> Nat] /\ nGone \in [Ids -> Nat]
      /\ wrote \in [Ids -> Nat] /\ nextId \in 0..MaxId
  BY DEF TypeInv, TypeOK, MuxTypeOK, DaemonTypeOK
<1>1. CASE ~UNCHANGED <<nData, nExit, nGone>>
  <2>0. UNCHANGED <<nextId, wrote>>
    BY <1>1, SeenSorts
  <2>1. PICK i \in Ids :
          \/ /\ rdr = "read" /\ toHost # <<>> /\ Head(toHost) = Frame("DATA", i)
             /\ nData' = [nData EXCEPT ![i] = @ + 1]
             /\ UNCHANGED <<nExit, nGone>>
          \/ /\ rdr = "read" /\ toHost # <<>> /\ Head(toHost) = Frame("EXIT", i)
             /\ nExit' = [nExit EXCEPT ![i] = @ + 1]
             /\ UNCHANGED <<nData, nGone>>
          \/ /\ i \in left
             /\ nGone' = [nGone EXCEPT ![i] = @ + 1]
             /\ UNCHANGED <<nData, nExit>>
    BY <1>1, SeenSorts
  <2>2. CASE /\ rdr = "read" /\ toHost # <<>> /\ Head(toHost) = Frame("DATA", i)
             /\ nData' = [nData EXCEPT ![i] = @ + 1]
             /\ UNCHANGED <<nExit, nGone>>
    <3>1. Phase[i] = "open" /\ Phase' = Phase
      BY <2>0, <2>2, OpenPhases, PhaseKept
    <3>2. nData[i] < wrote[i]
      <4>1. toHost \in Seq(SrvFrames)
        BY DEF TypeInv, TypeOK, WireTypeOK
      <4>2. 1 \in 1..Len(toHost) /\ toHost[1] = Frame("DATA", i)
        BY <2>2, <4>1, Pop
      <4>3. Queued(i) > 0
        BY <4>1, <4>2, MarksSome, QueuedType
      <4> QED BY <4>3, QueuedType DEF SystemInv, OutputInv, OutputOf, Accounted
    <3>3. Service!Show(i)
      BY <2>0, <2>2, <3>1, <3>2 DEF Service!Show
    <3> QED BY <3>3 DEF Service!Next
  <2>3. CASE /\ rdr = "read" /\ toHost # <<>> /\ Head(toHost) = Frame("EXIT", i)
             /\ nExit' = [nExit EXCEPT ![i] = @ + 1]
             /\ UNCHANGED <<nData, nGone>>
    <3>1. Phase[i] = "open" /\ nExit[i] = 0 /\ nGone[i] = 0
      BY <2>3, OpenPhases
    <3>2. Phase'[i] = "ended" /\ \A j \in Ids \ {i} : Phase'[j] = Phase[j]
      BY <1>t, <2>0, <2>3, <3>1, PhaseValue
    <3>3. Phase' = [Phase EXCEPT ![i] = "ended"]
      BY <3>2, PhaseExcept
    <3>4. Service!End(i, "ended")
      BY <2>0, <2>3, <3>1, <3>3 DEF Service!End
    <3> QED BY <3>4 DEF Service!Next
  <2>4. CASE /\ i \in left
             /\ nGone' = [nGone EXCEPT ![i] = @ + 1]
             /\ UNCHANGED <<nData, nExit>>
    <3>1. Phase[i] = "open" /\ nExit[i] = 0 /\ nGone[i] = 0
      BY <2>4, OpenPhases
    <3>2. Phase'[i] = "lost" /\ \A j \in Ids \ {i} : Phase'[j] = Phase[j]
      BY <1>t, <2>0, <2>4, <3>1, PhaseValue
    <3>3. Phase' = [Phase EXCEPT ![i] = "lost"]
      BY <3>2, PhaseExcept
    <3>4. Service!End(i, "lost")
      BY <2>0, <2>4, <3>1, <3>3 DEF Service!End
    <3> QED BY <3>4 DEF Service!Next
  <2> QED BY <2>1, <2>2, <2>3, <2>4
<1>2. CASE ~UNCHANGED wrote
  <2>1. PICK j \in Ids : tty[j] = "open" /\ wrote' = [wrote EXCEPT ![j] = @ + 1]
    BY <1>2, WriteSorts
  <2>2. UNCHANGED <<nextId, nData, nExit, nGone>>
    BY <1>2, WriteSorts
  <2>3. shell[j] \in Child
    BY <2>1 DEF SystemInv, TtyInv, Child
  <2>4. Phase[j] \in {"open", "lost"} /\ Phase' = Phase
    BY <2>2, <2>3, OpenPhases, PhaseKept
  <2>5. Service!Write(j)
    BY <2>1, <2>2, <2>4 DEF Service!Write
  <2> QED BY <2>5 DEF Service!Next
<1>3. CASE UNCHANGED <<nData, nExit, nGone, wrote>> /\ ~UNCHANGED nextId
  <2>1. UiOpen
    <3>1. ASSUME ReadFrame PROVE UNCHANGED nextId
      BY <3>1 DEF ReadFrame
    <3> QED BY <1>3, <3>1
        DEF Next, HostNext, DaemonNext, UiOpenWrite, OpenWrite, UiRegister,
            UiSend, SendFrame, UiClose, CloseWrite, UiCloseRemove, CloseRemove,
            UiUnregister, UiQuit, UiEvent, UiDrop, DropTeardown, UiDropped,
            DropJoin, FeedTake, FeedEnd, ReadEnd, DrainLive, NotifyGone,
            ReaderDone
  <2>2. nextId < MaxId /\ nextId' = nextId + 1
    BY <2>1 DEF UiOpen, OpenInsert
  <2>3. PICK i \in Ids : i = nextId + 1
    BY <1>t, <2>2, WireAssumption
  <2>4. Phase[i] = "new" /\ nExit[i] = 0 /\ nGone[i] = 0
    BY <1>t, <2>3, OpenPhases
  <2>5. \A j \in Ids : j < i => Phase[j] # "new"
    BY <1>t, <2>3, PhaseValue
  <2>6. Phase'[i] = "open" /\ \A j \in Ids \ {i} : Phase'[j] = Phase[j]
    BY <1>t, <1>3, <2>2, <2>3, <2>4, PhaseValue
  <2>7. Phase' = [Phase EXCEPT ![i] = "open"]
    BY <2>6, PhaseExcept
  <2>8. Service!Open(i)
    BY <1>3, <2>4, <2>5, <2>7 DEF Service!Open
  <2> QED BY <2>8 DEF Service!Next
<1>4. CASE UNCHANGED <<nData, nExit, nGone, wrote, nextId>>
  BY <1>4, PhaseKept DEF Service!svars
<1> QED BY <1>1, <1>2, <1>3, <1>4

(* The mux, its wire and the daemon implement the service they promise the *)
(* owner of the panes, whatever fails (SessionMux of mux.rs): fresh ids in *)
(* order, chunks in order and none twice, one end each, nothing after it.  *)
THEOREM ImplementsService == Spec => ServiceSpec
<1>1. Init => Service!Init
  <2> SUFFICES ASSUME Init PROVE Service!Init
    OBVIOUS
  <2>1. Phase = [i \in Ids |-> "new"]
    <3>1. \A i \in Ids : Phase[i] = "new"
      BY PhaseValue DEF Init, MuxInit
    <3> QED BY <3>1 DEF Phase
  <2> QED BY <2>1 DEF Init, MuxInit, DaemonInit, Service!Init, Service!Sessions
<1>2. TypeInv /\ SystemInv /\ [Next]_vars => [Service!Next]_(Service!svars)
  <2>1. UNCHANGED vars => UNCHANGED (Service!svars)
    BY PhaseKept DEF Service!svars
  <2> QED BY <2>1, ServiceStep
<1>3. Spec => []TypeInv
  BY OwnerConsistent, PTL
<1> QED BY <1>1, <1>2, <1>3, SystemConsistent, PTL DEF Spec, ServiceSpec, Service!Spec
==============================================================================
