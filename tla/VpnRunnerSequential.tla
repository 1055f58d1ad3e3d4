------------------------- MODULE VpnRunnerSequential -------------------------
(***************************************************************************)
(* What holds of VpnRunner when no thread enters the runner while another  *)
(* is inside, for any number of sessions, stops and kills of the process,  *)
(* and whatever fails in between: no thread meets what another has done,   *)
(* the state is stuck by an unwritable file or a missing app only, STOPPED *)
(* means down, and CONNECTED up as far as the daemons came up.             *)
(***************************************************************************)
EXTENDS VpnRunnerProofs

\* One thread at most is inside the runner.
Alone == \A t, u \in Thread : pc[t] \notin AtRest /\ pc[u] \notin AtRest => t = u

\* Steps at which a session needs the config it was given.
NeedsConfig ==
  (CallerSteps \ {"config"}) \cup
  (WorkerSteps \ {"unsetConfig", "recheck", "torn", "connected"})

\* Steps after killProcesses in a start, and after establish.
Cleared  == {"resolve", "resolving", "proxy"}
Proxied  == {"establish", "illegalState", "noConn", "connCheck", "getFd", "tun2socks"}
Attached == {"getFd", "tun2socks", "connected"}

\* Steps of a session that has written no pid file, and of one that has posted
\* CONNECTING and nothing after it.
Begun == {"address", "fetch", "fetching", "check", "kill", "resolve", "resolving", "proxy",
          "establish"}
Unstarted == {"idle"} \cup CallerSteps \cup (Begun \ {"establish"})

\* What session s finds at each step of its start.
AtStart(s) ==
  /\ pc[s] \in NeedsConfig => config # NULL
  /\ pc[s] = "recheck" => config = NULL
  /\ pc[s] = "register" => receiver = s
  /\ pc[s] \in Cleared => live = {}
  /\ pc[s] \in Unstarted => pidFile["proxy"] # s /\ pidFile["tun2socks"] # s
  /\ pc[s] \in Begun => Pending = CONNECTING
  /\ pc[s] \in Proxied =>
       live \subseteq {<<"proxy", s>>} /\ CameUp(s, "proxy") /\ pidFile["tun2socks"] # s
  /\ pc[s] = "connected" =>
       /\ live \subseteq {<<"proxy", s>>, <<"tun2socks", s>>}
       /\ CameUp(s, "proxy") /\ CameUp(s, "tun2socks")
  /\ pc[s] = "connCheck" => conn = NULL \/ (conn = s /\ tunnel = s)
  /\ pc[s] \in Attached => conn = s /\ tunnel = s
  /\ pc[s] = "torn" => conn = NULL

\* Steps of stopRunner after killProcesses, and after the interface is closed.
Killed == StopSteps \ {"stop", "stopKill"}
Closed == {"unregisterCheck", "unregister", "unsetReceiver", "stopped"}

\* What thread t finds at each step of stopRunner and of killProcesses.
AtStop(t) ==
  /\ pc[t] \in Killed => live = {}
  /\ pc[t] = "close" => conn # NULL
  /\ pc[t] \in Closed => conn = NULL
  /\ pc[t] = "unregister" => receiver # NULL
  /\ pc[t] \in StopSteps =>
       ret[t] \in IF t \in Session THEN {"unsetConfig", "torn", "done"} ELSE {"idle"}
  /\ k[t] # 0 => pc[t] \in {"kill", "stopKill"} /\ \A d \in live : d[1] # "proxy"

\* The receiver of the field is registered, but for the moments in between.
ReceiverHeld ==
  \/ receiver = NULL \/ receiver \in registered
  \/ \E t \in Thread : pc[t] \in {"register", "unsetReceiver"}

\* A session that dropped an interface it could not replace.
Drops(s) ==
  \/ pc[s] = "connCheck" /\ conn = NULL
  \/ pc[s] = "torn"
  \/ pc[s] \in StopSteps /\ ret[s] = "torn"
  \/ pc[s] = "tornDown"

\* The interface that is open is the one of the field.
TunnelHeld ==
  \/ tunnel = NULL
  \/ tunnel = conn /\ \A t \in Thread : pc[t] # "unsetConn"
  \/ \E s \in Session : Drops(s)

\* No thread has posted since the last terminal state.
Outside == CallerSteps \cup AtRest \cup {"unsetConfig", "recheck"}

\* What the last terminal state says is true as long as nobody is at work.
Truthful ==
  (\A t \in Thread : pc[t] \in Outside) =>
    /\ Pending = STOPPED => live = {} /\ conn = NULL /\ (tunnel = NULL \/ TornDown)
    /\ Pending = CONNECTED =>
         IF conn = NULL THEN TornDown
         ELSE /\ tunnel = conn /\ live \subseteq Task \X {conn}
              /\ \A task \in Task : CameUp(conn, task)

SInv ==
  /\ TypeOK /\ TerminalStateOwed /\ Alone /\ NoneDisturbed
  /\ \A s \in Session : AtStart(s)
  /\ \A t \in Thread : AtStop(t)
  /\ ReceiverHeld /\ TunnelHeld /\ PidFilesNameDaemons /\ Truthful

-----------------------------------------------------------------------------
(* A step of the one thread that is inside                                 *)

\* The threads other than t rest.
OthersRest(t) == \A u \in Thread : u # t => pc[u] \in AtRest

LEMMA InsideIsAlone ==
  ASSUME SInv, NEW t \in Thread, pc[t] \notin AtRest
  PROVE  OthersRest(t)
BY DEF SInv, Alone, OthersRest

LEMMA OutsideAllRest ==
  ASSUME ~Overlap, MayEnter
  PROVE  \A t \in Thread : pc[t] \in AtRest
BY DEF MayEnter, Busy

\* A thread at rest finds nothing, so only the thread that moves is to be looked at.
LEMMA OneMoves ==
  ASSUME SInv, TypeOK', TerminalStateOwed', NEW t \in Thread, OthersRest(t),
         NEW step \in Step, step \notin Disturbed, pc' = [pc EXCEPT ![t] = step],
         \A u \in Thread : u # t => k'[u] = k[u], UNCHANGED crashed,
         \/ pidFile' = pidFile
         \/ \E task \in Task : pidFile' = [pidFile EXCEPT ![task] = t],
         t \in Session => AtStart(t)', AtStop(t)',
         ReceiverHeld', TunnelHeld', PidFilesNameDaemons', Truthful'
  PROVE  SInv'
<1>1. /\ pc'[t] = step /\ \A u \in Thread : u # t => pc'[u] = pc[u] /\ pc'[u] \in AtRest
      /\ Session \subseteq Thread
  BY DEF SInv, TypeOK, OthersRest, Thread
<1>2. Alone'
  BY <1>1 DEF Alone
<1>3. NoneDisturbed'
  BY <1>1 DEF SInv, NoneDisturbed
<1>4. ASSUME NEW u \in Session, u # t PROVE AtStart(u)'
  <2>1. pc'[u] \in AtRest /\ AtStart(u) /\ pc'[u] = pc[u]
    BY <1>1, <1>4 DEF SInv
  <2>2. pidFile \in [Task -> Session \cup {NULL}]
    BY ZenonT(60) DEF SInv, TypeOK
  <2>3. pc[u] = "idle" => pidFile["proxy"] # u /\ pidFile["tun2socks"] # u
    BY ZenonT(60), <2>1 DEF AtStart, Unstarted
  <2>4. pc[u] = "idle" => pidFile'["proxy"] # u /\ pidFile'["tun2socks"] # u
    BY <1>4, <2>2, <2>3 DEF Task
  <2> QED
    BY <2>1, <2>4 DEF AtStart, AtRest, NeedsConfig, CallerSteps, WorkerSteps, Cleared, Proxied,
                      Attached, Begun, Unstarted
<1>5. ASSUME NEW u \in Thread, u # t PROVE AtStop(u)'
  <2>1. k'[u] = 0 /\ pc'[u] \in AtRest
    BY <1>1, <1>5 DEF SInv, AtStop, AtRest
  <2> QED
    BY <2>1 DEF AtStop, AtRest, StopSteps, Killed, Closed
<1> QED
  BY <1>2, <1>3, <1>4, <1>5 DEF SInv

\* What a step that leaves the fields alone keeps.
LEMMA KeepsReceiver ==
  ASSUME SInv, NEW t \in Thread, OthersRest(t), pc[t] \notin {"register", "unsetReceiver"},
         UNCHANGED <<receiver, registered>>
  PROVE  ReceiverHeld'
BY DEF SInv, ReceiverHeld, OthersRest, AtRest

LEMMA KeepsTunnel ==
  ASSUME SInv, NEW t \in Thread, OthersRest(t), NEW step, pc' = [pc EXCEPT ![t] = step],
         step # "unsetConn", UNCHANGED <<conn, tunnel>>,
         t \in Session /\ Drops(t) => Drops(t)',
         pc[t] = "unsetConn" => conn = NULL
  PROVE  TunnelHeld'
<1>1. /\ pc'[t] = step /\ \A u \in Thread : u # t => pc'[u] = pc[u]
      /\ Session \subseteq Thread
  BY DEF SInv, TypeOK, Thread
<1>2. \A u \in Thread : u # t => pc'[u] \in AtRest
  BY <1>1 DEF OthersRest
<1>3. \A u \in Session : Drops(u) /\ u # t => Drops(u)'
  BY <1>1, <1>2 DEF Drops, AtRest, StopSteps
<1>4. \A u \in Thread : pc'[u] # "unsetConn"
  BY <1>1, <1>2 DEF AtRest
<1> QED
  BY <1>3, <1>4 DEF SInv, TunnelHeld

LEMMA KeepsPidFiles ==
  ASSUME SInv, live' \subseteq live, UNCHANGED pidFile
  PROVE  PidFilesNameDaemons'
BY DEF SInv, PidFilesNameDaemons

\* A thread at work owes the state its last word.
LEMMA AtWork ==
  ASSUME SInv, NEW t \in Thread, NEW step, pc' = [pc EXCEPT ![t] = step], step \notin Outside
  PROVE  Truthful'
<1>1. pc'[t] = step
  BY DEF SInv, TypeOK
<1> QED
  BY <1>1 DEF Truthful

-----------------------------------------------------------------------------
(* stopRunner                                                              *)

\* killProcesses: what is alive is in the pid files, so a round ends with nothing.
LEMMA KillStep ==
  ASSUME SInv, NEW t \in Thread, NEW from \in {"kill", "stopKill"}, NEW to,
         killProcesses(t, from, to)
  PROVE  /\ live' \subseteq live
         /\ \/ k[t] = 0 /\ k'[t] = 1 /\ pc' = pc /\ \A d \in live' : d[1] # "proxy"
            \/ k[t] = 1 /\ k'[t] = 0 /\ pc' = [pc EXCEPT ![t] = to] /\ live' = {}
<1>1. k[t] \in {0, 1} /\ k \in [Thread -> 0..1] /\ live \subseteq Task \X Session
  BY DEF SInv, TypeOK
<1>2. \A d \in live : d \in Task \X Session /\ d = <<d[1], d[2]>> /\ pidFile[d[1]] = d[2]
  BY <1>1 DEF SInv, PidFilesNameDaemons
<1>3. CASE k[t] = 0
  <2>1. live' = live \ {<<"proxy", pidFile["proxy"]>>} /\ k' = [k EXCEPT ![t] = 1] /\ pc' = pc
    BY <1>3, <1>1 DEF killProcesses, Tasks
  <2>2. \A d \in live' : d[1] # "proxy"
    BY <2>1, <1>2
  <2> QED
    BY <1>1, <1>3, <2>1, <2>2
<1>4. CASE k[t] = 1
  <2>1. /\ live' = live \ {<<"tun2socks", pidFile["tun2socks"]>>}
        /\ k' = [k EXCEPT ![t] = 0] /\ pc' = [pc EXCEPT ![t] = to]
    BY <1>4, <1>1 DEF killProcesses, Tasks
  <2>2. \A d \in live : d[1] # "proxy"
    BY <1>4 DEF SInv, AtStop
  <2>3. \A d \in live : d[1] = "tun2socks"
    BY <1>2, <2>2 DEF Task
  <2>4. live' = {}
    BY <1>2, <2>1, <2>3
  <2> QED
    BY <1>1, <1>4, <2>1, <2>4
<1> QED
  BY <1>1, <1>3, <1>4

\* A step inside stopRunner.
LEMMA InStop ==
  ASSUME SInv, TypeOK', TerminalStateOwed', NEW t \in Thread, NEW step \in StopSteps,
         pc[t] \in StopSteps, pc' = [pc EXCEPT ![t] = step], UNCHANGED <<ret, crashed>>,
         \A u \in Thread : u # t => k'[u] = k[u],
         live' \subseteq live, UNCHANGED pidFile,
         AtStop(t)', ReceiverHeld', TunnelHeld'
  PROVE  SInv'
<1>1. OthersRest(t)
  BY InsideIsAlone DEF StopSteps, AtRest
<1>2. step \in Step /\ step \notin Disturbed /\ step \notin Outside
  BY DEF Step, StopSteps, Disturbed, Outside, CallerSteps, AtRest
<1>3. pc'[t] = step
  BY DEF SInv, TypeOK
<1>4. t \in Session => AtStart(t)'
  BY <1>3 DEF AtStart, StopSteps, NeedsConfig, CallerSteps, WorkerSteps, Cleared, Proxied,
              Attached, Begun, Unstarted
<1>5. PidFilesNameDaemons' /\ Truthful'
  BY ZenonT(60), <1>2, KeepsPidFiles, AtWork
<1> QED
  BY ZenonT(60), <1>1, <1>2, <1>4, <1>5, OneMoves

LEMMA StopRunnerSequential ==
  ASSUME SInv, NEW t \in Thread, stopRunner(t)
  PROVE  SInv'
<1>1. TypeOK' /\ TerminalStateOwed'
  BY StopRunnerPreservesType, StopRunnerKeepsOwed DEF SInv
<1>2. /\ pc \in [Thread -> Step] /\ ret \in [Thread -> Step] /\ k \in [Thread -> 0..1]
      /\ AtStop(t) /\ ReceiverHeld /\ NULL \notin Session /\ registered \subseteq Session
      /\ conn \in Session \cup {NULL}
  BY ThreadsDistinct DEF SInv, TypeOK
<1>3. pc[t] \in StopSteps
  BY DEF stopRunner, StopPost, StopKill, killProcesses, CloseCheck, Close, UnsetConn,
         UnregisterCheck, Unregister, UnsetReceiver, StoppedPost, StopSteps
<1>4. OthersRest(t)
  BY <1>3, InsideIsAlone DEF StopSteps, AtRest
<1>5. ASSUME NEW step \in StopSteps, pc' = [pc EXCEPT ![t] = step], step # "unsetConn",
             pc[t] # "unsetConn", UNCHANGED <<ret, conn, tunnel>>
      PROVE  TunnelHeld'
  <2>1. pc'[t] = step /\ ret'[t] = ret[t]
    BY <1>2, <1>5
  <2>2. Drops(t) => Drops(t)'
    BY <1>3, <1>5, <2>1 DEF Drops, StopSteps
  <2> QED
    BY ZenonT(60), <1>4, <1>5, <2>2, KeepsTunnel
<1>6. CASE StopPost(t)
  <2>1. /\ pc[t] = "stop" /\ pc' = [pc EXCEPT ![t] = "stopKill"]
        /\ UNCHANGED <<ret, k, crashed, live, pidFile, conn, tunnel, receiver, registered>>
    BY <1>6 DEF StopPost, changeState, Goto, procs, env
  <2>2. AtStop(t)'
    BY <1>2, <2>1 DEF AtStop, StopSteps, Killed, Closed
  <2>3. ReceiverHeld' /\ TunnelHeld'
    BY <1>4, <1>5, <2>1, KeepsReceiver DEF StopSteps
  <2> QED
    BY ZenonT(60), <1>1, <1>3, <2>1, <2>2, <2>3, InStop DEF StopSteps
<1>7. CASE StopKill(t)
  <2>1. /\ pc[t] = "stopKill" /\ \A u \in Thread : u # t => k'[u] = k[u]
        /\ UNCHANGED <<ret, crashed, pidFile, conn, tunnel, receiver, registered>>
    BY <1>2, <1>7 DEF StopKill, killProcesses, env
  <2>2. /\ live' \subseteq live
        /\ \/ k[t] = 0 /\ k'[t] = 1 /\ pc' = pc /\ \A d \in live' : d[1] # "proxy"
           \/ k[t] = 1 /\ k'[t] = 0 /\ pc' = [pc EXCEPT ![t] = "closeCheck"] /\ live' = {}
    BY <1>7, KillStep DEF StopKill
  <2>3. PICK step \in {"stopKill", "closeCheck"} : pc' = [pc EXCEPT ![t] = step]
    BY <1>2, <2>1, <2>2
  <2>4. AtStop(t)'
    BY <1>2, <2>1, <2>2, <2>3 DEF AtStop, StopSteps, Killed, Closed
  <2>5. ReceiverHeld' /\ TunnelHeld'
    BY ZenonT(60), <1>4, <1>5, <2>1, <2>3, KeepsReceiver DEF StopSteps
  <2> QED
    BY ZenonT(60), <1>1, <1>3, <2>1, <2>2, <2>3, <2>4, <2>5, InStop DEF StopSteps
<1>8. CASE CloseCheck(t) \/ UnregisterCheck(t)
  <2>1. PICK step \in {"close", "unregisterCheck", "unregister", "stopped"} :
          /\ pc' = [pc EXCEPT ![t] = step]
          /\ \/ pc[t] = "closeCheck" /\ step = "close" /\ conn # NULL
             \/ pc[t] = "closeCheck" /\ step = "unregisterCheck" /\ conn = NULL
             \/ pc[t] = "unregisterCheck" /\ step = "unregister" /\ receiver # NULL
             \/ pc[t] = "unregisterCheck" /\ step = "stopped"
    BY <1>8 DEF CloseCheck, UnregisterCheck, Moves, Goto
  <2>2. UNCHANGED <<ret, k, crashed, live, pidFile, conn, tunnel, receiver, registered>>
    BY <1>8 DEF CloseCheck, UnregisterCheck, Moves, Goto, procs, env
  <2>3. AtStop(t)'
    BY <1>2, <2>1, <2>2 DEF AtStop, StopSteps, Killed, Closed
  <2>4. ReceiverHeld' /\ TunnelHeld'
    BY ZenonT(60), <1>4, <1>5, <2>1, <2>2, KeepsReceiver DEF StopSteps
  <2> QED
    BY ZenonT(60), <1>1, <1>3, <2>1, <2>2, <2>3, <2>4, InStop DEF StopSteps
<1>9. CASE Close(t)
  <2>1. /\ pc[t] = "close" /\ pc' = [pc EXCEPT ![t] = "unsetConn"]
        /\ tunnel' = (IF tunnel = conn THEN NULL ELSE tunnel)
        /\ UNCHANGED <<ret, k, crashed, live, pidFile, conn, receiver, registered>>
    BY <1>2, <1>9 DEF Close, AtStop, Goto, procs, env
  <2>2. AtStop(t)'
    BY <1>2, <2>1 DEF AtStop, StopSteps, Killed, Closed
  <2>3. ReceiverHeld'
    BY <1>4, <2>1, KeepsReceiver
  <2>4. TunnelHeld'
    <3>1. tunnel = NULL \/ tunnel = conn \/ \E s \in Session : Drops(s)
      BY DEF SInv, TunnelHeld
    <3>2. \A s \in Session : Drops(s) => Drops(s)'
      BY <1>2, <1>4, <2>1 DEF Drops, OthersRest, StopSteps, AtRest, Thread
    <3> QED
      BY <2>1, <3>1, <3>2 DEF TunnelHeld
  <2> QED
    BY ZenonT(60), <1>1, <1>3, <2>1, <2>2, <2>3, <2>4, InStop DEF StopSteps
<1>10. CASE UnsetConn(t)
  <2>1. /\ pc[t] = "unsetConn" /\ pc' = [pc EXCEPT ![t] = "unregisterCheck"] /\ conn' = NULL
        /\ UNCHANGED <<ret, k, crashed, live, pidFile, tunnel, receiver, registered>>
    BY <1>10 DEF UnsetConn, SetsConn, Goto, procs, env
  <2>2. AtStop(t)'
    BY <1>2, <2>1 DEF AtStop, StopSteps, Killed, Closed
  <2>3. ReceiverHeld'
    BY <1>4, <2>1, KeepsReceiver
  <2>4. TunnelHeld'
    <3>1. tunnel = NULL \/ \E s \in Session : Drops(s)
      BY <2>1 DEF SInv, TunnelHeld
    <3>2. \A s \in Session : Drops(s) => Drops(s)'
      BY <1>2, <1>4, <2>1 DEF Drops, OthersRest, StopSteps, AtRest, Thread
    <3> QED
      BY <2>1, <3>1, <3>2 DEF TunnelHeld
  <2> QED
    BY ZenonT(60), <1>1, <1>3, <2>1, <2>2, <2>3, <2>4, InStop DEF StopSteps
<1>11. CASE Unregister(t)
  <2>1. receiver \in registered
    BY <1>2, <1>4, <1>11 DEF Unregister, AtStop, ReceiverHeld, OthersRest, AtRest
  <2>2. /\ pc[t] = "unregister" /\ pc' = [pc EXCEPT ![t] = "unsetReceiver"]
        /\ UNCHANGED <<ret, k, crashed, live, pidFile, conn, tunnel, receiver>>
    BY <1>11, <2>1 DEF Unregister, SetsRegistered, Goto, procs, env
  <2>3. AtStop(t)'
    BY <1>2, <2>2 DEF AtStop, StopSteps, Killed, Closed
  <2>4. ReceiverHeld'
    BY <1>2, <2>2 DEF ReceiverHeld
  <2>5. TunnelHeld'
    BY <1>5, <2>2 DEF StopSteps
  <2> QED
    BY ZenonT(60), <1>1, <1>3, <2>2, <2>3, <2>4, <2>5, InStop DEF StopSteps
<1>12. CASE UnsetReceiver(t)
  <2>1. /\ pc[t] = "unsetReceiver" /\ pc' = [pc EXCEPT ![t] = "stopped"] /\ receiver' = NULL
        /\ UNCHANGED <<ret, k, crashed, live, pidFile, conn, tunnel, registered>>
    BY <1>12 DEF UnsetReceiver, SetsReceiver, Goto, procs, env
  <2>2. AtStop(t)'
    BY <1>2, <2>1 DEF AtStop, StopSteps, Killed, Closed
  <2>3. ReceiverHeld' /\ TunnelHeld'
    BY <1>5, <2>1 DEF StopSteps, ReceiverHeld
  <2> QED
    BY ZenonT(60), <1>1, <1>3, <2>1, <2>2, <2>3, InStop DEF StopSteps
<1>13. CASE StoppedPost(t)
  <2>1. /\ pc[t] = "stopped" /\ pc' = [pc EXCEPT ![t] = ret[t]]
        /\ ret' = [ret EXCEPT ![t] = "idle"]
        /\ UNCHANGED <<k, crashed, live, pidFile, conn, tunnel, receiver, registered>>
    BY <1>13 DEF StoppedPost, changeState, procs, env
  <2>2. Pending' = STOPPED
    BY <1>13, PendingAfterPost, StatesAreStates DEF StoppedPost, SInv
  <2>3. PICK step \in {"unsetConfig", "torn", "done", "idle"} :
          step = ret[t] /\ (t \notin Session => step = "idle")
                        /\ (t \in Session => step # "idle")
    BY <1>2, <2>1 DEF AtStop, StopSteps
  <2>4. pc'[t] = step /\ pc' = [pc EXCEPT ![t] = step] /\ live = {} /\ conn = NULL /\ k[t] = 0
    BY <1>2, <2>1, <2>3 DEF AtStop, Killed, Closed, StopSteps
  <2>5. t \in Session => AtStart(t)'
    BY <2>1, <2>3, <2>4
    DEF AtStart, NeedsConfig, CallerSteps, WorkerSteps, Cleared, Proxied, Attached, Begun,
        Unstarted
  <2>6. AtStop(t)'
    BY <2>1, <2>4 DEF AtStop, Killed, Closed, StopSteps
  <2>7. ReceiverHeld'
    BY <1>4, <2>1, KeepsReceiver
  <2>8. t \in Session /\ Drops(t) => Drops(t)' /\ step = "torn"
    BY <2>1, <2>3, <2>4 DEF Drops
  <2>9. TunnelHeld'
    BY ZenonT(60), <1>4, <2>1, <2>4, <2>8, KeepsTunnel
  <2>10. PidFilesNameDaemons'
    BY <2>1, KeepsPidFiles
  <2>11. Truthful'
    <3>1. CASE step = "torn"
      BY ZenonT(60), <2>4, <3>1, AtWork DEF Outside, CallerSteps, AtRest
    <3>2. CASE step # "torn"
      <4>1. tunnel = NULL \/ \E s \in Session : Drops(s) /\ s # t
        BY <2>4, <2>8, <3>2, <1>2 DEF SInv, TunnelHeld
      <4>2. \A s \in Session : s # t /\ Drops(s) => pc'[s] = "tornDown"
        BY <1>2, <1>4, <2>1 DEF Drops, OthersRest, AtRest, StopSteps, Thread
      <4>3. tunnel' = NULL \/ TornDown'
        BY <2>1, <4>1, <4>2 DEF TornDown
      <4> QED
        BY <2>1, <2>2, <2>4, <4>3 DEF Truthful, STOPPED, CONNECTED
    <3> QED
      BY <3>1, <3>2
  <2> QED
    BY ZenonT(60), <1>1, <1>4, <2>1, <2>4, <2>5, <2>6, <2>7, <2>9, <2>10, <2>11, OneMoves
    DEF Step, WorkerSteps, AtRest, Disturbed
<1> QED
  BY <1>6, <1>7, <1>8, <1>9, <1>10, <1>11, <1>12, <1>13 DEF stopRunner

-----------------------------------------------------------------------------
(* startRunner and its thread                                              *)

\* The caller of start changes nothing of what the last terminal state says.
LEMMA KeepsTruthful ==
  ASSUME SInv, NEW t \in Thread, OthersRest(t), NEW step, pc' = [pc EXCEPT ![t] = step],
         pc[t] \in Outside \ {"tornDown"}, UNCHANGED <<state, looper, live, pidFile, conn, tunnel>>
  PROVE  Truthful'
<1>1. \A u \in Thread : pc[u] \in Outside
  BY DEF OthersRest, Outside
<1>2. Pending' = Pending
  BY DEF Pending
<1>3. TornDown => TornDown'
  BY DEF SInv, TypeOK, TornDown, Thread
<1> QED
  BY <1>1, <1>2, <1>3 DEF SInv, Truthful, CameUp

\* A step of a start outside stopRunner and killProcesses.
LEMMA InStart ==
  ASSUME SInv, TypeOK', TerminalStateOwed', NEW s \in Session, OthersRest(s),
         NEW step \in Step, step \notin Disturbed \cup StopSteps,
         pc[s] \notin {"kill", "stopKill"}, pc' = [pc EXCEPT ![s] = step],
         UNCHANGED <<ret, k, crashed>>, AtStart(s)',
         \/ pidFile' = pidFile
         \/ \E task \in Task : pidFile' = [pidFile EXCEPT ![task] = s],
         ReceiverHeld', TunnelHeld', PidFilesNameDaemons', Truthful'
  PROVE  SInv'
<1>1. s \in Thread
  BY DEF Thread
<1>2. pc'[s] = step /\ k'[s] = 0
  BY <1>1 DEF SInv, TypeOK, AtStop
<1>3. AtStop(s)'
  BY <1>2 DEF AtStop, StopSteps, Killed, Closed
<1> QED
  BY ZenonT(60), <1>1, <1>3, OneMoves

\* One that leaves the interface, the receiver and the daemons alone.
LEMMA InStartQuietly ==
  ASSUME SInv, TypeOK', TerminalStateOwed', NEW s \in Session, OthersRest(s),
         NEW step \in Step, step \notin Disturbed \cup StopSteps,
         pc[s] \notin StopSteps \cup {"kill", "register"}, pc' = [pc EXCEPT ![s] = step],
         UNCHANGED <<ret, k, crashed, live, pidFile, conn, tunnel, receiver, registered>>,
         ~Drops(s), AtStart(s)',
         step \in Outside => \/ pc[s] \in Outside /\ UNCHANGED <<state, looper>>
                            \/ Pending' = CONNECTING
  PROVE  SInv'
<1>1. s \in Thread /\ step # "unsetConn"
  BY DEF Thread, StopSteps
<1>2. ReceiverHeld' /\ TunnelHeld'
  BY ZenonT(60), <1>1, KeepsReceiver, KeepsTunnel DEF StopSteps
<1>3. PidFilesNameDaemons'
  BY KeepsPidFiles
<1>4. Truthful'
  <2>1. pc[s] # "tornDown"
    BY DEF Drops
  <2>2. Pending' = CONNECTING => Truthful'
    BY DEF Truthful, CONNECTING, STOPPED, CONNECTED
  <2> QED
    BY ZenonT(60), <1>1, <2>1, <2>2, KeepsTruthful, AtWork
<1> QED
  BY ZenonT(60), <1>2, <1>3, <1>4, InStart DEF StopSteps

\* stopRunner is entered by a thread that was outside of it.
LEMMA EntersStop ==
  ASSUME SInv, TypeOK', TerminalStateOwed', NEW t \in Thread, OthersRest(t),
         pc[t] \notin StopSteps \cup {"kill", "register"},
         NEW r \in IF t \in Session THEN {"unsetConfig", "torn", "done"} ELSE {"idle"},
         CallStopRunner(t, r), t \in Session /\ Drops(t) => r = "torn",
         UNCHANGED <<crashed, live, pidFile, conn, tunnel, receiver, registered>>
  PROVE  SInv'
<1>1. /\ pc' = [pc EXCEPT ![t] = "stop"] /\ ret' = [ret EXCEPT ![t] = r] /\ UNCHANGED k
      /\ pc'[t] = "stop" /\ ret'[t] = r
  BY SMTT(60) DEF CallStopRunner, SInv, TypeOK
<1>2. k[t] = 0
  BY DEF SInv, AtStop, StopSteps, TypeOK
<1>3. AtStop(t)'
  BY <1>1, <1>2 DEF AtStop, Killed, Closed, StopSteps
<1>4. t \in Session => AtStart(t)'
  BY <1>1 DEF AtStart, NeedsConfig, CallerSteps, WorkerSteps, Cleared, Proxied, Attached,
        Begun, Unstarted
<1>5. t \in Session /\ Drops(t) => Drops(t)'
  BY <1>1 DEF Drops, StopSteps
<1>6. ReceiverHeld' /\ TunnelHeld'
  BY ZenonT(60), <1>1, <1>5, KeepsReceiver, KeepsTunnel DEF StopSteps
<1>7. PidFilesNameDaemons' /\ Truthful'
  BY ZenonT(60), <1>1, KeepsPidFiles, AtWork DEF Outside, CallerSteps, AtRest
<1>8. "stop" \in Step /\ "stop" \notin Disturbed
  BY DEF Step, StopSteps, Disturbed
<1> QED
  BY ZenonT(60), <1>1, <1>3, <1>4, <1>6, <1>7, <1>8, OneMoves

LEMMA StartRunnerSequential ==
  ASSUME ~Overlap, SInv, NEW s \in Session, startRunner(s)
  PROVE  SInv'
<1>1. TypeOK' /\ TerminalStateOwed'
  BY SMTT(60), StartRunnerPreservesType, StartRunnerKeepsOwed DEF SInv
<1>2. /\ pc \in [Thread -> Step] /\ s \in Thread /\ AtStart(s)
      /\ NULL \notin Session \cup {"public", "plain"}
  BY ZenonT(60), ThreadsDistinct DEF SInv, TypeOK, Thread
<1>3. pc[s] \in CallerSteps \cup {"idle"} /\ ~Drops(s)
  BY DEF startRunner, Start, AssignConfig, NewReceiver, Register, Spawn, CallerSteps, Drops,
         StopSteps
<1>4. OthersRest(s)
  <2>1. CASE pc[s] = "idle"
    <3>1. MayEnter
      BY <2>1 DEF startRunner, Start, AssignConfig, NewReceiver, Register, Spawn
    <3> QED
      BY <3>1, OutsideAllRest DEF OthersRest
  <2>2. CASE pc[s] # "idle"
    BY <1>2, <1>3, <2>2, InsideIsAlone DEF CallerSteps, AtRest
  <2> QED
    BY <2>1, <2>2
<1>5. CASE Start(s) \/ AssignConfig(s) \/ Spawn(s)
  <2>1. PICK step \in {"config", "done", "receiver", "address"} :
          /\ pc' = [pc EXCEPT ![s] = step] /\ pc[s] \in {"idle", "config", "connecting"}
          /\ step \in {"receiver", "address"} => config' # NULL
          /\ step = "address" \/ UNCHANGED <<state, looper>>
    BY <1>2, <1>5, ProxiesAreKnown
    DEF Start, AssignConfig, Spawn, Moves, SetsConfig, Goto, posts, changeState, AtStart,
        NeedsConfig, CallerSteps
  <2>2. UNCHANGED <<ret, k, crashed, live, pidFile, conn, tunnel, receiver, registered>>
    BY <1>5 DEF Start, AssignConfig, Spawn, Moves, SetsConfig, Goto, changeState, procs, env
  <2>3. /\ pc'[s] = step /\ pc[s] \in Unstarted
        /\ pidFile["proxy"] # s /\ pidFile["tun2socks"] # s
    BY <1>2, <1>3, <2>1 DEF AtStart, Unstarted, Begun, CallerSteps
  <2>4. step = "address" => Pending' = CONNECTING
    <3>1. step = "address" => changeState(s, CONNECTING)
      BY <1>5, <2>3 DEF Start, AssignConfig, Spawn, Moves, SetsConfig, Goto, SInv, TypeOK, Thread
    <3> QED
      BY <3>1, PendingAfterPost, StatesAreStates DEF SInv
  <2>5. AtStart(s)'
    BY <2>4, <2>1, <2>2, <2>3
    DEF AtStart, NeedsConfig, CallerSteps, WorkerSteps, Cleared, Proxied, Attached, Begun,
        Unstarted
  <2>6. /\ step \in Step /\ step \notin Disturbed \cup StopSteps
        /\ pc[s] \notin StopSteps \cup {"kill", "register"}
        /\ step \in Outside => pc[s] \in Outside /\ UNCHANGED <<state, looper>>
    BY <2>1 DEF Step, Disturbed, StopSteps, Outside, CallerSteps, WorkerSteps, AtRest
  <2> QED
    BY ZenonT(60), <1>1, <1>3, <1>4, <2>1, <2>2, <2>5, <2>6, InStartQuietly
<1>6. CASE NewReceiver(s) \/ Register(s)
  <2>1. PICK step \in {"register", "connecting"} :
          /\ pc' = [pc EXCEPT ![s] = step] /\ pc[s] \in {"receiver", "register"}
          /\ step = "register" => receiver' = s
          /\ step = "connecting" => receiver' = s /\ receiver' \in registered'
    BY <1>2, <1>6 DEF NewReceiver, Register, SetsReceiver, SetsRegistered, Goto, AtStart
  <2>2. UNCHANGED <<ret, k, crashed, live, pidFile, conn, tunnel, config, state, looper>>
    BY <1>6 DEF NewReceiver, Register, SetsReceiver, SetsRegistered, Goto, procs, env, posts
  <2>3. pc'[s] = step
    BY <1>2, <2>1
  <2>4. AtStart(s)'
    BY <1>2, <1>3, <2>1, <2>2, <2>3
    DEF AtStart, NeedsConfig, CallerSteps, WorkerSteps, Cleared, Proxied, Attached,
        Begun, Unstarted
  <2>5. ReceiverHeld'
    BY <1>2, <2>1, <2>3 DEF ReceiverHeld
  <2>6. TunnelHeld'
    BY ZenonT(60), <1>2, <1>3, <1>4, <2>1, <2>2, KeepsTunnel
  <2>7. PidFilesNameDaemons'
    BY <2>2, KeepsPidFiles
  <2>8. Truthful'
    BY ZenonT(60), <1>2, <1>4, <2>1, <2>2, KeepsTruthful DEF Outside, CallerSteps
  <2>9. step \in Step /\ step \notin Disturbed \cup StopSteps /\ pc[s] \notin {"kill", "stopKill"}
    BY <2>1 DEF Step, Disturbed, StopSteps, CallerSteps
  <2> QED
    BY ZenonT(60), <1>1, <1>4, <2>1, <2>2, <2>4, <2>5, <2>6, <2>7, <2>8, <2>9, InStart
<1> QED
  BY <1>5, <1>6 DEF startRunner

\* What a step that only looks, or sets config, leaves alone.
LEMMA MovesKeep ==
  ASSUME NEW t, NEW step, Moves(t, step)
  PROVE  UNCHANGED <<ret, k, crashed, live, pidFile, conn, tunnel, receiver, registered>>
BY DEF Moves, Goto, procs, env

LEMMA SetsConfigKeeps ==
  ASSUME NEW t, NEW c, NEW step, SetsConfig(t, c, step)
  PROVE  UNCHANGED <<ret, k, crashed, live, pidFile, conn, tunnel, receiver, registered>>
BY DEF SetsConfig, Goto, procs, env

LEMMA ThrowsKeeps ==
  ASSUME NEW s \in Session, Throws(s)
  PROVE  UNCHANGED <<ret, k, crashed, live, pidFile, conn, tunnel, receiver, registered>>
BY MovesKeep, ThreadsDistinct DEF Throws

LEMMA DerefKeeps ==
  ASSUME NEW s \in Session, NEW step, Deref(s, step)
  PROVE  UNCHANGED <<ret, k, crashed, live, pidFile, conn, tunnel, receiver, registered>>
BY MovesKeep, ThrowsKeeps DEF Deref

\* Steps of the spawned thread that look, or set config.
LEMMA LooksSequential ==
  ASSUME SInv, TypeOK', TerminalStateOwed', NEW s \in Session, OthersRest(s),
         \/ ReadProxy(s) \/ UnsetConfig(s) \/ CheckConfig(s) \/ Resolve(s)
         \/ GetFd(s) \/ IllegalState(s)
         \/ (Fetch(s) \/ Fetched(s) \/ Resolved(s) \/ ConnCheck(s)) /\ pc'[s] # "stop"
         \/ Establish(s) /\ UNCHANGED conn /\ pc'[s] # "connCheck"
  PROVE  SInv'
<1>1. /\ pc \in [Thread -> Step] /\ s \in Thread /\ AtStart(s)
      /\ NULL \notin Session \cup {"public", "plain"}
  BY ZenonT(60), ThreadsDistinct DEF SInv, TypeOK, Thread
<1>2. PICK step \in {"fetch", "fetching", "check", "recheck", "done", "kill", "resolving",
                     "proxy", "tun2socks", "noConn", "illegalState", "getFd", "threw"} :
        /\ pc' = [pc EXCEPT ![s] = step]
        /\ pc[s] \in {"address", "unsetConfig", "check", "recheck", "resolve", "getFd",
                      "illegalState", "fetch", "fetching", "resolving", "connCheck",
                      "establish"}
        /\ step \in {"fetch", "fetching", "check", "kill", "resolving", "proxy", "tun2socks",
                     "noConn", "illegalState", "getFd"} => config' # NULL
        /\ step = "recheck" => config' = NULL
        /\ step \in {"resolving", "proxy"} => pc[s] \in Cleared
        /\ step \in {"noConn", "illegalState", "getFd", "tun2socks"} => pc[s] \in Proxied
        /\ step \in {"getFd", "tun2socks"} => conn = s /\ tunnel = s
        /\ step \in {"recheck", "done"} =>
             pc[s] \in {"unsetConfig", "recheck"} /\ UNCHANGED <<state, looper>>
        /\ pc[s] = "connCheck" => conn # NULL
        /\ step \in {"fetch", "fetching", "check", "kill"} =>
             pc[s] \in {"address", "fetch", "fetching", "check"}
        /\ step = "threw" => pc[s] = "establish"
        /\ step # "noConn" => UNCHANGED <<state, looper>>
  <2> USE <1>1 DEF AtStart, NeedsConfig, CallerSteps, WorkerSteps, Moves, Goto, posts
  <2>1. CASE ReadProxy(s)
    BY ZenonT(60), <2>1 DEF ReadProxy, Deref
  <2>2. CASE UnsetConfig(s)
    BY ZenonT(60), <2>2 DEF UnsetConfig, SetsConfig
  <2>3. CASE CheckConfig(s)
    BY ZenonT(60), <2>3 DEF CheckConfig
  <2>4. CASE Resolve(s)
    BY ZenonT(60), <2>4 DEF Resolve, Deref, Cleared
  <2>5. CASE GetFd(s)
    BY ZenonT(60), <2>5 DEF GetFd, Attached, Proxied
  <2>6. CASE IllegalState(s)
    BY ZenonT(60), <2>6 DEF IllegalState, changeState, Proxied
  <2>7. CASE Fetch(s) /\ pc'[s] # "stop"
    BY ZenonT(60), <2>7 DEF Fetch, Fail, CallStopRunner
  <2>8. CASE Fetched(s) /\ pc'[s] # "stop"
    BY ZenonT(60), <2>8 DEF Fetched, Fail, CallStopRunner, SetsConfig
  <2>9. CASE Resolved(s) /\ pc'[s] # "stop"
    BY ZenonT(60), <2>9 DEF Resolved, Deref, Fail, CallStopRunner, Cleared
  <2>10. CASE ConnCheck(s) /\ pc'[s] # "stop"
    BY ZenonT(60), <2>10 DEF ConnCheck, CallStopRunner, Proxied
  <2>11. CASE Establish(s) /\ UNCHANGED conn /\ pc'[s] # "connCheck"
    BY ZenonT(60), <2>11 DEF Establish, Proxied
  <2> QED
    BY ZenonT(60), <2>1, <2>2, <2>3, <2>4, <2>5, <2>6, <2>7, <2>8, <2>9, <2>10, <2>11
<1>3. UNCHANGED <<ret, k, crashed, live, pidFile, conn, tunnel, receiver, registered>>
  <2>1. CASE ReadProxy(s) \/ Resolve(s)
    BY ZenonT(60), <2>1, DerefKeeps DEF ReadProxy, Resolve
  <2>2. CASE UnsetConfig(s)
    BY ZenonT(60), <2>2, SetsConfigKeeps DEF UnsetConfig
  <2>3. CASE CheckConfig(s)
    BY ZenonT(60), <2>3, MovesKeep DEF CheckConfig
  <2>4. CASE GetFd(s)
    BY ZenonT(60), <2>4, MovesKeep, ThrowsKeeps DEF GetFd
  <2>5. CASE IllegalState(s)
    BY <2>5 DEF IllegalState, changeState, Goto, procs, env
  <2>6. CASE Fetch(s) /\ pc'[s] # "stop"
    BY ZenonT(60), <1>1, <2>6, MovesKeep DEF Fetch, Fail, CallStopRunner
  <2>7. CASE Fetched(s) /\ pc'[s] # "stop"
    BY ZenonT(60), <1>1, <2>7, SetsConfigKeeps DEF Fetched, Fail, CallStopRunner
  <2>8. CASE Resolved(s) /\ pc'[s] # "stop"
    BY ZenonT(60), <1>1, <2>8, DerefKeeps DEF Resolved, Fail, CallStopRunner
  <2>9. CASE ConnCheck(s) /\ pc'[s] # "stop"
    BY ZenonT(60), <1>1, <2>9 DEF ConnCheck, CallStopRunner, Goto, procs, env
  <2>10. CASE Establish(s) /\ UNCHANGED conn /\ pc'[s] # "connCheck"
    BY ZenonT(60), <1>1, <2>10, MovesKeep, ThrowsKeeps DEF Establish, Goto
  <2> QED
    BY ZenonT(60), <2>1, <2>2, <2>3, <2>4, <2>5, <2>6, <2>7, <2>8, <2>9, <2>10
<1>4. pc'[s] = step
  BY SMTT(60), <1>1, <1>2
<1>5. step \in Begun \cup {"threw"} => Pending' = CONNECTING
  BY <1>1, <1>2 DEF AtStart, Begun, Cleared, Proxied, Pending
<1>6. step \in Unstarted => pidFile'["proxy"] # s /\ pidFile'["tun2socks"] # s
  BY <1>1, <1>2, <1>3 DEF AtStart, Unstarted, Begun, CallerSteps, Cleared
<1>7. step \in Proxied =>
         live' \subseteq {<<"proxy", s>>} /\ CameUp(s, "proxy")' /\ pidFile'["tun2socks"] # s
  BY <1>1, <1>2, <1>3 DEF AtStart, Proxied, CameUp
<1>8. AtStart(s)'
  BY <1>1, <1>2, <1>3, <1>4, <1>5, <1>6, <1>7
  DEF AtStart, NeedsConfig, CallerSteps, WorkerSteps, Cleared, Attached
<1>9. ~Drops(s)
  BY <1>2 DEF Drops, StopSteps
<1>10. /\ step \in Step /\ step \notin Disturbed \cup StopSteps
       /\ pc[s] \notin StopSteps \cup {"kill", "register"}
       /\ step \in Outside => \/ pc[s] \in Outside /\ UNCHANGED <<state, looper>>
                             \/ Pending' = CONNECTING
  <2>1. step = "threw" => Pending' = CONNECTING
    BY <1>5
  <2> QED
    BY <1>2, <2>1 DEF Step, Disturbed, StopSteps, Outside, CallerSteps, WorkerSteps, AtRest
<1> QED
  BY ZenonT(60), <1>2, <1>3, <1>8, <1>9, <1>10, InStartQuietly

\* A failure enters stopRunner.
LEMMA FailsSequential ==
  ASSUME SInv, TypeOK', TerminalStateOwed', NEW s \in Session, OthersRest(s),
         Fetch(s) \/ Fetched(s) \/ Resolved(s) \/ ConnCheck(s), pc'[s] = "stop"
  PROVE  SInv'
<1>1. pc \in [Thread -> Step] /\ s \in Thread
  BY ZenonT(60) DEF SInv, TypeOK, Thread
<1>2. PICK r \in {"unsetConfig", "torn", "done"} :
        /\ CallStopRunner(s, r) /\ pc[s] \in {"fetch", "fetching", "resolving", "connCheck"}
        /\ pc[s] = "connCheck" => r = "torn"
  BY ZenonT(60), <1>1 DEF Fetch, Fetched, Resolved, ConnCheck, Fail, Deref, Moves,
              SetsConfig, Goto, Throws, ProcessEnds
<1>3. UNCHANGED <<crashed, live, pidFile, conn, tunnel, receiver, registered>>
  <2>1. ASSUME NEW r0, Fail(s, r0)
        PROVE  UNCHANGED <<crashed, live, pidFile, conn, tunnel, receiver, registered>>
    BY ZenonT(60), <2>1 DEF Fail, changeState, procs, env
  <2>2. CASE Fetch(s)
    BY ZenonT(60), <2>1, <2>2, MovesKeep DEF Fetch
  <2>3. CASE Fetched(s)
    BY ZenonT(60), <2>1, <2>3, SetsConfigKeeps DEF Fetched
  <2>4. CASE Resolved(s)
    BY ZenonT(60), <2>1, <2>4, DerefKeeps DEF Resolved
  <2>5. CASE ConnCheck(s)
    BY ZenonT(60), <2>5 DEF ConnCheck, procs, env
  <2> QED
    BY <2>2, <2>3, <2>4, <2>5
<1>4. Drops(s) => r = "torn"
  BY ZenonT(60), <1>2 DEF Drops, StopSteps
<1>5. pc[s] \notin StopSteps \cup {"kill", "register"}
  BY <1>2 DEF StopSteps
<1> QED
  BY SMTT(60), <1>1, <1>2, <1>3, <1>4, <1>5, EntersStop

\* The context is reset before the daemons are started.
LEMMA KillSequential ==
  ASSUME SInv, TypeOK', TerminalStateOwed', NEW s \in Session, OthersRest(s), Kill(s)
  PROVE  SInv'
<1>1. /\ pc \in [Thread -> Step] /\ k \in [Thread -> 0..1] /\ s \in Thread /\ AtStart(s)
  BY DEF SInv, TypeOK, Thread
<1>2. /\ pc[s] = "kill" /\ \A u \in Thread : u # s => k'[u] = k[u]
      /\ UNCHANGED <<ret, crashed, pidFile, conn, tunnel, receiver, registered, config>>
      /\ Pending' = Pending
  BY ZenonT(60), <1>1 DEF Kill, killProcesses, env, posts, Pending
<1>3. /\ live' \subseteq live
      /\ \/ k[s] = 0 /\ k'[s] = 1 /\ pc' = pc /\ \A d \in live' : d[1] # "proxy"
         \/ k[s] = 1 /\ k'[s] = 0 /\ pc' = [pc EXCEPT ![s] = "resolve"] /\ live' = {}
  BY <1>1, KillStep DEF Kill
<1>4. PICK step \in {"kill", "resolve"} : pc' = [pc EXCEPT ![s] = step]
  BY SMTT(60), <1>1, <1>2, <1>3
<1>5. AtStart(s)'
  BY ZenonT(60), <1>1, <1>2, <1>3, <1>4
  DEF AtStart, NeedsConfig, CallerSteps, WorkerSteps, Cleared, Proxied, Attached,
        Begun, Unstarted
<1>6. AtStop(s)'
  BY ZenonT(60), <1>1, <1>2, <1>3, <1>4 DEF AtStop, StopSteps, Killed, Closed
<1>7. ReceiverHeld'
  BY <1>1, <1>2, KeepsReceiver
<1>8. TunnelHeld'
  <2>1. ~Drops(s)
    BY <1>2 DEF Drops, StopSteps
  <2> QED
    BY ZenonT(60), <1>1, <1>2, <1>4, <2>1, KeepsTunnel
<1>9. PidFilesNameDaemons' /\ Truthful'
  BY ZenonT(60), <1>1, <1>2, <1>3, <1>4, KeepsPidFiles, AtWork DEF Outside, CallerSteps, AtRest
<1>10. step \in Step /\ step \notin Disturbed
  BY DEF Step, WorkerSteps, Disturbed
<1> QED
  BY ZenonT(60), <1>1, <1>2, <1>4, <1>5, <1>6, <1>7, <1>8, <1>9, <1>10, OneMoves

\* A daemon is started when none of its task is alive, and comes up or not.
LEMMA DaemonSequential ==
  ASSUME SInv, TypeOK', TerminalStateOwed', NEW s \in Session, OthersRest(s),
         StartProxy(s) \/ ExecTun2socks(s)
  PROVE  SInv'
<1>1. /\ pc \in [Thread -> Step] /\ s \in Thread /\ AtStart(s) /\ PidFilesNameDaemons
      /\ pidFile \in [Task -> Session \cup {NULL}] /\ NULL # s
  BY ZenonT(60), ThreadsDistinct DEF SInv, TypeOK, Thread
<1>2. PICK task \in Task, step \in {"establish", "threw", "connected"} :
        /\ pc[s] = task /\ pc' = [pc EXCEPT ![s] = step]
        /\ step = "connected" <=> task = "tun2socks"
        /\ \/ live' = live \cup {<<task, s>>} /\ pidFile' = [pidFile EXCEPT ![task] = s]
           \/ live' = live /\ pidFile' = pidFile
  BY <1>1
  DEF StartProxy, ExecTun2socks, StartDaemon, Goto, AtStart, NeedsConfig, WorkerSteps, procs, Task
<1>3. /\ UNCHANGED <<ret, k, crashed, conn, tunnel, receiver, registered, config>>
      /\ UNCHANGED <<state, looper>>
  BY <1>1
  DEF StartProxy, ExecTun2socks, StartDaemon, Goto, AtStart, NeedsConfig, WorkerSteps, env, posts
<1>4. pc'[s] = step
  BY <1>1, <1>2
<1>5. ASSUME task = "proxy"
      PROVE  AtStart(s)' /\ PidFilesNameDaemons' /\ Truthful'
  <2>1. live = {} /\ pidFile["tun2socks"] # s /\ Pending = CONNECTING
    BY <1>1, <1>2, <1>5 DEF AtStart, Cleared, Unstarted, Begun
  <2>2. pidFile["proxy"] # s
    BY <1>1, <1>2, <1>5 DEF AtStart, Unstarted, Begun
  <2>3. /\ live' \subseteq {<<"proxy", s>>} /\ CameUp(s, "proxy")'
        /\ pidFile'["tun2socks"] # s
    BY <1>1, <1>2, <1>5, <2>1, <2>2 DEF CameUp, Task
  <2>4. Pending' = CONNECTING
    BY <1>3, <2>1 DEF Pending
  <2>5. AtStart(s)'
    BY <1>1, <1>2, <1>3, <1>4, <1>5, <2>3, <2>4
    DEF AtStart, NeedsConfig, CallerSteps, WorkerSteps, Cleared, Proxied, Attached, Begun, Unstarted
  <2>6. PidFilesNameDaemons'
    BY <1>1, <1>2, <1>5, <2>1 DEF PidFilesNameDaemons, Task
  <2>7. Truthful'
    BY <2>4 DEF Truthful, CONNECTING, STOPPED, CONNECTED
  <2> QED
    BY <2>5, <2>6, <2>7
<1>6. ASSUME task = "tun2socks"
      PROVE  AtStart(s)' /\ PidFilesNameDaemons' /\ Truthful'
  <2>1. live \subseteq {<<"proxy", s>>} /\ CameUp(s, "proxy") /\ pidFile["tun2socks"] # s
    BY <1>1, <1>2, <1>6 DEF AtStart, Proxied
  <2>2. pidFile'["proxy"] = pidFile["proxy"]
    BY <1>1, <1>2, <1>6 DEF Task
  <2>3. /\ live' \subseteq {<<"proxy", s>>, <<"tun2socks", s>>}
        /\ CameUp(s, "proxy")' /\ CameUp(s, "tun2socks")'
    BY <1>1, <1>2, <1>6, <2>1, <2>2 DEF CameUp, Task
  <2>4. AtStart(s)'
    BY <1>1, <1>2, <1>3, <1>4, <1>6, <2>3
    DEF AtStart, NeedsConfig, CallerSteps, WorkerSteps, Cleared, Proxied, Attached, Begun, Unstarted
  <2>5. \A d \in live : d = <<"proxy", s>> /\ pidFile["proxy"] = s
    <3> SUFFICES ASSUME NEW d \in live PROVE d = <<"proxy", s>> /\ pidFile["proxy"] = s
      OBVIOUS
    <3>1. d = <<"proxy", s>> /\ pidFile[d[1]] = d[2]
      BY <1>1, <2>1 DEF PidFilesNameDaemons
    <3> QED
      BY <3>1
  <2>6. PidFilesNameDaemons'
    <3> SUFFICES ASSUME NEW d \in live' PROVE pidFile'[d[1]] = d[2]
      BY DEF PidFilesNameDaemons
    <3>1. CASE d \in live
      BY <2>2, <2>5, <3>1
    <3>2. CASE d \notin live
      BY <1>1, <1>2, <1>6, <3>2
    <3> QED
      BY <3>1, <3>2
  <2>7. Truthful'
    BY ZenonT(60), <1>1, <1>2, <1>6, AtWork DEF Outside, CallerSteps, AtRest
  <2> QED
    BY <2>4, <2>6, <2>7
<1>7. AtStart(s)' /\ PidFilesNameDaemons' /\ Truthful'
  BY <1>5, <1>6 DEF Task
<1>8. ReceiverHeld'
  BY <1>1, <1>2, <1>3, KeepsReceiver DEF Task
<1>9. TunnelHeld'
  <2>1. ~Drops(s)
    BY <1>2 DEF Drops, StopSteps, Task
  <2>2. pc[s] # "unsetConn"
    BY <1>2 DEF Task
  <2> QED
    BY ZenonT(60), <1>1, <1>2, <1>3, <2>1, <2>2, KeepsTunnel
<1>10. /\ step \in Step /\ step \notin Disturbed \cup StopSteps
       /\ pc[s] \notin {"kill", "stopKill"}
  BY <1>2 DEF Step, WorkerSteps, Disturbed, StopSteps, AtRest, Task
<1> QED
  BY ZenonT(60), <1>2, <1>3, <1>7, <1>8, <1>9, <1>10, InStart

\* The field conn follows the interface, or drops it.
LEMMA ConnSequential ==
  ASSUME SInv, TypeOK', TerminalStateOwed', NEW s \in Session, OthersRest(s),
         NoConn(s) \/ Establish(s), pc'[s] = "connCheck"
  PROVE  SInv'
<1>1. pc \in [Thread -> Step] /\ s \in Thread /\ AtStart(s)
  BY ZenonT(60) DEF SInv, TypeOK, Thread
<1>2. /\ pc[s] \in {"noConn", "establish"} /\ pc' = [pc EXCEPT ![s] = "connCheck"]
      /\ conn' = NULL \/ (conn' = s /\ tunnel' = s)
      /\ UNCHANGED <<ret, k, crashed, live, pidFile, receiver, registered, config>>
  BY <1>1 DEF NoConn, SetsConn, Establish, Goto, Moves, AtStart, NeedsConfig, WorkerSteps, procs,
              env
<1>3. AtStart(s)'
  BY <1>1, <1>2
  DEF AtStart, NeedsConfig, CallerSteps, WorkerSteps, Cleared, Proxied, Attached, Begun,
      Unstarted, CameUp
<1>4. ReceiverHeld' /\ PidFilesNameDaemons' /\ Truthful'
  BY ZenonT(60), <1>1, <1>2, KeepsReceiver, KeepsPidFiles, AtWork DEF Outside, CallerSteps, AtRest
<1>5. TunnelHeld'
  <2>1. CASE conn' = NULL
    BY <1>1, <1>2, <2>1 DEF TunnelHeld, Drops
  <2>2. CASE conn' = s /\ tunnel' = s
    BY <1>1, <1>2, <2>2 DEF TunnelHeld, OthersRest, AtRest
  <2> QED
    BY <1>2, <2>1, <2>2
<1>6. /\ "connCheck" \in Step /\ "connCheck" \notin Disturbed \cup StopSteps
      /\ pc[s] \notin {"kill", "stopKill"}
  BY <1>2 DEF Step, WorkerSteps, Disturbed, StopSteps
<1> QED
  BY ZenonT(60), <1>2, <1>3, <1>4, <1>5, <1>6, InStart

\* CONNECTED is posted with the interface and the daemons up, or after startVpn has
\* torn everything down.
LEMMA ConnectedSequential ==
  ASSUME SInv, TypeOK', TerminalStateOwed', NEW s \in Session, OthersRest(s),
         ConnectedPost(s)
  PROVE  SInv'
<1>1. /\ pc \in [Thread -> Step] /\ s \in Thread /\ AtStart(s)
      /\ NULL \notin Session
  BY ThreadsDistinct DEF SInv, TypeOK, Thread
<1>2. PICK step \in {"done", "tornDown"} :
        /\ pc' = [pc EXCEPT ![s] = step]
        /\ \/ pc[s] = "connected" /\ step = "done"
           \/ pc[s] = "torn" /\ step = "tornDown"
  BY ZenonT(60) DEF ConnectedPost, Goto
<1>3. UNCHANGED <<ret, k, crashed, live, pidFile, conn, tunnel, receiver, registered>>
  BY DEF ConnectedPost, Goto, changeState, procs, env
<1>4. Pending' = CONNECTED
  BY PendingAfterPost, StatesAreStates DEF ConnectedPost, SInv
<1>5. pc'[s] = step
  BY <1>1, <1>2
<1>6. AtStart(s)'
  BY <1>5 DEF AtStart, NeedsConfig, CallerSteps, WorkerSteps, Cleared, Proxied, Attached,
        Begun, Unstarted
<1>7. ReceiverHeld' /\ PidFilesNameDaemons'
  BY <1>1, <1>2, <1>3, KeepsReceiver, KeepsPidFiles
<1>8. TunnelHeld'
  <2>1. Drops(s) => Drops(s)'
    BY <1>2, <1>5 DEF Drops, StopSteps
  <2> QED
    BY ZenonT(60), <1>1, <1>2, <1>3, <2>1, KeepsTunnel
<1>9. Truthful'
  <2>1. CASE step = "done"
    <3>1. /\ conn = s /\ tunnel = s /\ live \subseteq {<<"proxy", s>>, <<"tun2socks", s>>}
          /\ CameUp(s, "proxy") /\ CameUp(s, "tun2socks")
      BY <1>1, <1>2, <2>1 DEF AtStart, Attached
    <3>2. conn' = s /\ tunnel' = s /\ live' \subseteq Task \X {s}
      BY <1>3, <3>1 DEF Task
    <3>3. \A task \in Task : CameUp(s, task)'
      BY <1>3, <3>1 DEF Task, CameUp
    <3> QED
      BY <1>1, <1>4, <3>2, <3>3 DEF Truthful, STOPPED, CONNECTED, CameUp
  <2>2. CASE step = "tornDown"
    <3>1. conn = NULL /\ TornDown'
      BY <1>1, <1>2, <1>5, <2>2 DEF AtStart, TornDown
    <3> QED
      BY <1>3, <1>4, <3>1 DEF Truthful, STOPPED, CONNECTED
  <2> QED
    BY <2>1, <2>2
<1>10. step \in Step /\ step \notin Disturbed \cup StopSteps /\ pc[s] \notin {"kill", "stopKill"}
  BY <1>2 DEF Step, AtRest, Disturbed, StopSteps
<1> QED
  BY ZenonT(60), <1>2, <1>3, <1>6, <1>7, <1>8, <1>9, <1>10, InStart

LEMMA WorkerSequential ==
  ASSUME SInv, NEW s \in Session, Worker(s)
  PROVE  SInv'
<1>1. TypeOK' /\ TerminalStateOwed'
  BY SMTT(60), WorkerPreservesType, WorkerKeepsOwed DEF SInv
<1>2. pc[s] \in WorkerSteps
  BY DEF Worker, handleConnection, startVpn, ReadProxy, Fetch, Fetched, UnsetConfig, CheckConfig,
         Kill, killProcesses, Resolve, Resolved, StartProxy, ExecTun2socks, StartDaemon, Establish,
         IllegalState, NoConn, ConnCheck, GetFd, ConnectedPost, WorkerSteps
<1>3. OthersRest(s)
  BY <1>2, InsideIsAlone DEF WorkerSteps, AtRest, Thread
<1>4. CASE Establish(s)
  <2>1. CASE pc'[s] = "connCheck"
    BY <1>1, <1>3, <1>4, <2>1, ConnSequential
  <2>2. CASE pc'[s] # "connCheck"
    <3>1. pc \in [Thread -> Step] /\ s \in Thread /\ AtStart(s)
      BY SMTT(60) DEF SInv, TypeOK, Thread
    <3>2. UNCHANGED conn
      BY <1>4, <2>2, <3>1
      DEF Establish, Moves, Goto, AtStart, NeedsConfig, CallerSteps, WorkerSteps
    <3> QED
      BY SMTT(60), <1>1, <1>3, <1>4, <2>2, <3>2, LooksSequential
  <2> QED
    BY <2>1, <2>2
<1>5. CASE NoConn(s)
  <2>1. pc'[s] = "connCheck"
    BY <1>5 DEF NoConn, SetsConn, Goto, SInv, TypeOK, Thread
  <2> QED
    BY SMTT(60), <1>1, <1>3, <1>5, <2>1, ConnSequential
<1>6. CASE Fetch(s) \/ Fetched(s) \/ Resolved(s) \/ ConnCheck(s)
  BY <1>1, <1>3, <1>6, LooksSequential, FailsSequential
<1>7. CASE \/ ReadProxy(s) \/ UnsetConfig(s) \/ CheckConfig(s) \/ Resolve(s)
           \/ GetFd(s) \/ IllegalState(s)
  BY <1>1, <1>3, <1>7, LooksSequential
<1>8. CASE Kill(s) \/ StartProxy(s) \/ ExecTun2socks(s) \/ ConnectedPost(s)
  BY <1>1, <1>3, <1>8, KillSequential, DaemonSequential, ConnectedSequential
<1> QED
  BY <1>4, <1>5, <1>6, <1>7, <1>8 DEF Worker, handleConnection, startVpn

-----------------------------------------------------------------------------
(* The looper, the system, and the theorems                                *)

LEMMA EnvironmentSequential ==
  ASSUME ~Overlap, SInv,
         RunPosted \/ CloseReceived \/ ShutdownReceived \/ onRevoke \/ ProcessKilled
  PROVE  SInv'
<1>1. TypeOK' /\ TerminalStateOwed'
  BY EnvironmentPreservesType, EnvironmentKeepsOwed DEF SInv
<1>2. ASSUME NEW t \in {Main, Binder}, AskStop(t) PROVE SInv'
  <2>1. t \in Thread /\ t \notin Session
    BY ThreadsDistinct DEF Thread
  <2>2. OthersRest(t)
    BY <1>2, OutsideAllRest DEF AskStop, OthersRest
  <2>3. /\ CallStopRunner(t, "idle") /\ pc[t] \notin StopSteps \cup {"kill", "register"}
        /\ UNCHANGED <<crashed, live, pidFile, conn, tunnel, receiver, registered>>
    BY <1>2 DEF AskStop, procs, StopSteps
  <2> QED
    BY <1>1, <2>1, <2>2, <2>3, EntersStop
<1>3. CASE RunPosted
  <2>1. Pending' = Pending
    BY <1>3, PendingAfterRun DEF SInv
  <2>2. UNCHANGED <<config, conn, tunnel, receiver, registered, pc, ret, k, live, pidFile, crashed>>
    BY SMTT(60), <1>3 DEF RunPosted, threads, procs, env
  <2>3. /\ Alone /\ NoneDisturbed /\ ReceiverHeld /\ TunnelHeld /\ PidFilesNameDaemons /\ Truthful
        /\ (\A s \in Session : AtStart(s)) /\ (\A t \in Thread : AtStop(t))
    BY DEF SInv
  <2> HIDE <1>3 DEF SInv
  <2>4. Alone' /\ NoneDisturbed'
    BY ZenonT(60), <2>2, <2>3 DEF Alone, NoneDisturbed
  <2>5. ReceiverHeld' /\ PidFilesNameDaemons'
    BY ZenonT(60), <2>2, <2>3 DEF ReceiverHeld, PidFilesNameDaemons
  <2>6. TunnelHeld'
    BY ZenonT(60), <2>2, <2>3 DEF TunnelHeld, Drops
  <2>7. Truthful'
    BY ZenonT(60), <2>1, <2>2, <2>3 DEF Truthful, TornDown, CameUp
  <2>8. (\A s \in Session : AtStart(s)') /\ (\A t \in Thread : AtStop(t)')
    BY <2>1, <2>2, <2>3 DEF AtStart, AtStop, CameUp
  <2> QED
    BY <1>1, <2>4, <2>5, <2>6, <2>7, <2>8 DEF SInv
<1>4. CASE ProcessKilled
  <2>1. /\ \A t \in Thread : pc'[t] \in {"idle", "dead"} /\ k'[t] = 0
        /\ receiver' = NULL /\ tunnel' = NULL /\ UNCHANGED <<live, pidFile, crashed>>
        /\ Session \subseteq Thread
    BY <1>4 DEF ProcessKilled, ProcessEnds, procs, Thread
  <2>2. Pending' = INIT
    BY SMTT(60), <1>4 DEF ProcessKilled, ProcessEnds, Pending
  <2>3. Alone' /\ NoneDisturbed' /\ ReceiverHeld' /\ TunnelHeld' /\ PidFilesNameDaemons'
    BY <2>1
    DEF SInv, Alone, AtRest, NoneDisturbed, Disturbed, ReceiverHeld, TunnelHeld, PidFilesNameDaemons
  <2>4. Truthful'
    BY SMTT(60), <2>2 DEF Truthful, INIT, STOPPED, CONNECTED
  <2>5. \A s \in Session : pc'[s] = "idle" => pc[s] = "idle"
    BY <1>4 DEF ProcessKilled, ProcessEnds, Thread
  <2>6. \A s \in Session : pc'[s] = "idle" => pidFile'["proxy"] # s /\ pidFile'["tun2socks"] # s
    BY <2>5, <2>1 DEF SInv, AtStart, Unstarted
  <2>7. \A s \in Session : AtStart(s)'
    BY ZenonT(60), <2>1, <2>6
    DEF AtStart, NeedsConfig, CallerSteps, WorkerSteps, Cleared, Proxied, Attached, Begun,
        Unstarted
  <2>8. \A t \in Thread : AtStop(t)'
    BY <2>1 DEF AtStop, Killed, Closed, StopSteps
  <2> QED
    BY SMTT(60), <1>1, <2>3, <2>4, <2>7, <2>8 DEF SInv
<1> QED
  BY <1>2, <1>3, <1>4 DEF CloseReceived, ShutdownReceived, onRevoke

LEMMA StutterSequential ==
  ASSUME SInv, UNCHANGED vars
  PROVE  SInv'
<1>1. UNCHANGED <<state, looper, last, config, conn, tunnel, receiver, registered, pc, ret, k,
                  live, pidFile, stops, kills, crashed>>
  BY SMTT(60) DEF vars, posts, threads, procs, env
<1>2. TypeOK' /\ TerminalStateOwed'
  BY ZenonT(60), <1>1 DEF SInv, TypeOK, TerminalStateOwed, Pending
<1>3. Alone' /\ NoneDisturbed' /\ ReceiverHeld' /\ PidFilesNameDaemons'
  BY ZenonT(60), <1>1 DEF SInv, Alone, NoneDisturbed, ReceiverHeld, PidFilesNameDaemons
<1>4. TunnelHeld' /\ Truthful'
  BY ZenonT(60), <1>1 DEF SInv, TunnelHeld, Drops, Truthful, TornDown, CameUp, Pending
<1>5. (\A s \in Session : AtStart(s)') /\ (\A t \in Thread : AtStop(t)')
  BY <1>1 DEF SInv, AtStart, AtStop, CameUp, Pending
<1> QED
  BY <1>2, <1>3, <1>4, <1>5 DEF SInv

LEMMA InitSequential ==
  ASSUME TypeOK, TerminalStateOwed, Init
  PROVE  SInv
<1>1. /\ \A t \in Thread : pc[t] = "idle" /\ k[t] = 0
      /\ receiver = NULL /\ tunnel = NULL /\ live = {} /\ ~crashed /\ Session \subseteq Thread
  BY DEF Init, Thread
<1>2. Pending = INIT
  BY DEF Init, Pending
<1>3. Alone /\ NoneDisturbed /\ ReceiverHeld /\ TunnelHeld /\ PidFilesNameDaemons
  BY <1>1 DEF Alone, AtRest, NoneDisturbed, Disturbed, ReceiverHeld, TunnelHeld, PidFilesNameDaemons
<1>4. Truthful
  BY SMTT(60), <1>2 DEF Truthful, INIT, STOPPED, CONNECTED
<1>5. \A s \in Session : pidFile["proxy"] # s /\ pidFile["tun2socks"] # s
  BY ThreadsDistinct DEF Init, Task
<1>6. ASSUME NEW s \in Session PROVE AtStart(s)
  <2>1. pc[s] = "idle" /\ pidFile["proxy"] # s /\ pidFile["tun2socks"] # s
    BY <1>1, <1>5
  <2> QED
    BY ZenonT(60), <2>1
    DEF AtStart, NeedsConfig, CallerSteps, WorkerSteps, Cleared, Proxied, Attached, Begun,
        Unstarted
<1>7. \A t \in Thread : AtStop(t)
  BY <1>1 DEF AtStop, Killed, Closed, StopSteps
<1> QED
  BY <1>3, <1>4, <1>6, <1>7 DEF SInv

LEMMA SequentialInvariant ==
  ASSUME ~Overlap
  PROVE  Spec => []SInv
<1>1. SInv /\ [Next]_vars => SInv'
  BY StopRunnerSequential, StartRunnerSequential, WorkerSequential, EnvironmentSequential,
     StutterSequential DEF Next
<1>2. TypeOK /\ TerminalStateOwed /\ Init => SInv
  BY InitSequential
<1> QED
  BY <1>1, <1>2, TypeCorrect, TerminalStateAlwaysOwed, PTL DEF Spec

\* When no two threads are in startRunner, its thread or stopRunner at a time, no thread
\* meets what another has done to config, conn or receiver: the checks for null that the
\* code makes are enough.
THEOREM SequentialNoneDisturbed ==
  ASSUME ~Overlap
  PROVE  Spec => []NoneDisturbed
<1>1. SInv => NoneDisturbed
  BY DEF SInv
<1> QED
  BY <1>1, SequentialInvariant, PTL

\* Then killProcesses can find every daemon that is alive, across deaths of the
\* process too.
THEOREM SequentialFindsDaemons ==
  ASSUME ~Overlap
  PROVE  Spec => []PidFilesNameDaemons
<1>1. SInv => PidFilesNameDaemons
  BY DEF SInv
<1> QED
  BY <1>1, SequentialInvariant, PTL

\* Then the service never rests in STOPPING, and in CONNECTING only after an exception of
\* printToFile or addDisallowedApplication, which spawn swallows.
THEOREM SequentialStuckByFailureOnly ==
  ASSUME ~Overlap
  PROVE  Spec => []StuckByFailureOnly
<1>1. SInv => StuckByFailureOnly
  <2> SUFFICES ASSUME SInv, Quiet, state \in {CONNECTING, STOPPING}
               PROVE  state = CONNECTING /\ pc[last] = "threw"
    BY DEF StuckByFailureOnly
  <2>1. Pending = state /\ \A t \in Thread : pc[t] \in AtRest
    BY DEF Pending, Quiet, Busy
  <2>2. TerminalStateOwed /\ \A t \in Thread : pc[t] \notin Disturbed
    BY DEF SInv, NoneDisturbed
  <2>3. state # STOPPING
    BY <2>1, <2>2 DEF TerminalStateOwed, Disturbed, StopSteps, AtRest
  <2>4. last \in Thread /\ pc[last] \in Owing \cup Silent
    BY <2>1, <2>2, <2>3 DEF TerminalStateOwed, Thread
  <2> QED
    BY <2>1, <2>2, <2>3, <2>4 DEF Owing, Silent, Disturbed, StopSteps, WorkerSteps, AtRest
<1> QED
  BY <1>1, SequentialInvariant, PTL

\* What it rests in is true, STOPPED and CONNECTED, but for what a failed startVpn
\* hides.
LEMMA RestIsTrue == SInv => QuietStoppedIsDown /\ QuietConnectedIsUp
<1> SUFFICES ASSUME SInv, Quiet
             PROVE  /\ state = STOPPED =>
                         live = {} /\ conn = NULL /\ (tunnel = NULL \/ TornDown)
                    /\ state = CONNECTED =>
                         IF conn = NULL THEN TornDown
                         ELSE /\ tunnel = conn /\ live \subseteq Task \X {conn}
                              /\ \A task \in Task : CameUp(conn, task)
  BY DEF QuietStoppedIsDown, QuietConnectedIsUp
<1>1. Pending = state /\ \A t \in Thread : pc[t] \in Outside
  BY DEF Pending, Quiet, Busy, Outside
<1> QED
  BY <1>1 DEF SInv, Truthful

\* STOPPED and at rest: no daemon and no interface is left.
THEOREM SequentialStoppedIsDown ==
  ASSUME ~Overlap
  PROVE  Spec => []QuietStoppedIsDown
<1> QED
  BY RestIsTrue, SequentialInvariant, PTL

\* CONNECTED and at rest: the interface is there, and every daemon of its session that
\* came up, and no other, but for what a failed startVpn hides.
THEOREM SequentialConnectedIsUp ==
  ASSUME ~Overlap
  PROVE  Spec => []QuietConnectedIsUp
<1> QED
  BY RestIsTrue, SequentialInvariant, PTL

=============================================================================
