-------------------------- MODULE VpnRunnerProofs --------------------------
(***************************************************************************)
(* Proofs about VpnRunner, for any set of sessions and any bounds.         *)
(***************************************************************************)
EXTENDS VpnRunner, TLAPS

\* The five states are states.
LEMMA StatesAreStates ==
  INIT \in State /\ CONNECTING \in State /\ CONNECTED \in State
  /\ STOPPING \in State /\ STOPPED \in State
BY DEF State

\* What a changeState does to the looper keeps its type.
LEMMA PostPreservesType ==
  ASSUME looper \in Seq(State), NEW t \in Thread, NEW s \in State, changeState(t, s)
  PROVE  looper' \in Seq(State) /\ last' \in Thread
BY DEF changeState

\* The end of the process leaves well-typed memory behind.
LEMMA ProcessEndPreservesType ==
  ASSUME TypeOK, ProcessEnds, crashed' \in BOOLEAN, kills' \in 0..MaxKills
  PROVE  TypeOK'
BY StatesAreStates, ThreadsDistinct
   DEF TypeOK, ProcessEnds, procs, Step, AtRest

\* So does an exception on any thread.
LEMMA ThrowPreservesType ==
  ASSUME TypeOK, NEW t \in Thread, Throws(t) PROVE TypeOK'
<1>1. CASE t = Main
  <2>1. ProcessEnds /\ crashed' = TRUE /\ kills' = kills
    BY <1>1 DEF Throws
  <2>2. crashed' \in BOOLEAN
    BY <2>1
  <2>3. kills' \in 0..MaxKills
    BY <2>1 DEF TypeOK
  <2> QED
    BY <2>1, <2>2, <2>3, ProcessEndPreservesType
<1>2. CASE t # Main
  BY SMTT(60), <1>2 DEF Throws, Moves, Goto, TypeOK, Step, AtRest, posts, procs, env
<1> QED
  BY <1>1, <1>2

LEMMA StopRunnerPreservesType ==
  ASSUME TypeOK, NEW t \in Thread, stopRunner(t) PROVE TypeOK'
<1> USE DEF TypeOK, Step, StopSteps, posts, procs, env, Goto, Moves
<1>1. CASE StopPost(t)
  BY <1>1, StatesAreStates, PostPreservesType DEF StopPost, changeState
<1>2. CASE StopKill(t)
  BY SMTT(60), <1>2 DEF StopKill, killProcesses, Tasks, Task
<1>3. CASE CloseCheck(t)
  BY <1>3 DEF CloseCheck
<1>4. CASE Close(t)
  BY <1>4, ThrowPreservesType DEF Close
<1>5. CASE UnsetConn(t)
  BY <1>5 DEF UnsetConn, SetsConn
<1>6. CASE UnregisterCheck(t)
  BY <1>6 DEF UnregisterCheck
<1>7. CASE Unregister(t)
  BY <1>7, ThrowPreservesType DEF Unregister, SetsRegistered
<1>8. CASE UnsetReceiver(t)
  BY <1>8 DEF UnsetReceiver, SetsReceiver
<1>9. CASE StoppedPost(t)
  BY SMTT(60), <1>9, StatesAreStates, PostPreservesType DEF StoppedPost, changeState, AtRest
<1> QED
  BY <1>1, <1>2, <1>3, <1>4, <1>5, <1>6, <1>7, <1>8, <1>9 DEF stopRunner

LEMMA StartRunnerPreservesType ==
  ASSUME TypeOK, NEW s \in Session, startRunner(s) PROVE TypeOK'
<1> s \in Thread  BY DEF Thread
<1> USE DEF TypeOK, Step, CallerSteps, AtRest, posts, procs, env, Goto, Moves
<1>1. CASE Start(s)
  BY <1>1 DEF Start
<1>2. CASE AssignConfig(s)
  BY <1>2, ProxiesAreKnown DEF AssignConfig, SetsConfig
<1>3. CASE NewReceiver(s)
  BY <1>3 DEF NewReceiver, SetsReceiver
<1>4. CASE Register(s)
  BY <1>4 DEF Register, SetsRegistered
<1>5. CASE Spawn(s)
  BY SMTT(60), <1>5, StatesAreStates, PostPreservesType DEF Spawn, changeState, WorkerSteps
<1> QED
  BY <1>1, <1>2, <1>3, <1>4, <1>5 DEF startRunner

LEMMA WorkerPreservesType ==
  ASSUME TypeOK, NEW s \in Session, Worker(s) PROVE TypeOK'
<1> s \in Thread  BY DEF Thread
<1> USE DEF TypeOK, Step, WorkerSteps, posts, procs, env, Goto, Moves
<1>a. ASSUME Throws(s) PROVE TypeOK'
  BY <1>a, ThrowPreservesType
<1>b. ASSUME NEW step \in Step, Deref(s, step) PROVE TypeOK'
  BY <1>a, <1>b DEF Deref
<1>c. ASSUME NEW r \in Step, Fail(s, r) PROVE TypeOK'
  BY <1>c, StatesAreStates, PostPreservesType
     DEF Fail, changeState, CallStopRunner, StopSteps
<1>d. ASSUME NEW task \in Task, NEW next \in Step, StartDaemon(s, task, next)
      PROVE TypeOK'
  BY <1>a, <1>d DEF StartDaemon
<1>1. CASE ReadProxy(s)
  BY <1>1, <1>b DEF ReadProxy
<1>2. CASE Fetch(s)
  BY SMTT(60), <1>2, <1>c DEF Fetch
<1>3. CASE Fetched(s)
  BY <1>3, <1>c DEF Fetched, SetsConfig
<1>4. CASE UnsetConfig(s)
  BY <1>4 DEF UnsetConfig, SetsConfig
<1>5. CASE CheckConfig(s)
  BY <1>5 DEF CheckConfig, AtRest
<1>6. CASE Kill(s)
  BY <1>6 DEF Kill, killProcesses, Tasks, Task
<1>7. CASE Resolve(s)
  BY <1>7, <1>b DEF Resolve
<1>8. CASE Resolved(s)
  BY <1>8, <1>b, <1>c DEF Resolved, AtRest
<1>9. CASE StartProxy(s)
  BY <1>9, <1>d DEF StartProxy, Task, AtRest
<1>10. CASE Establish(s)
  BY <1>10, <1>a DEF Establish, AtRest
<1>11. CASE IllegalState(s)
  BY <1>11, StatesAreStates, PostPreservesType DEF IllegalState, changeState
<1>12. CASE NoConn(s)
  BY <1>12 DEF NoConn, SetsConn
<1>13. CASE ConnCheck(s)
  BY <1>13 DEF ConnCheck, CallStopRunner, StopSteps
<1>14. CASE GetFd(s)
  BY <1>14, <1>a DEF GetFd
<1>15. CASE ExecTun2socks(s)
  BY <1>15, <1>d DEF ExecTun2socks, Task
<1>16. CASE ConnectedPost(s)
  BY <1>16, StatesAreStates, PostPreservesType DEF ConnectedPost, changeState, AtRest
<1> QED
  BY ZenonT(60), <1>1, <1>2, <1>3, <1>4, <1>5, <1>6, <1>7, <1>8, <1>9, <1>10, <1>11, <1>12,
     <1>13, <1>14, <1>15, <1>16 DEF Worker, handleConnection, startVpn

LEMMA EnvironmentPreservesType ==
  ASSUME TypeOK,
         RunPosted \/ CloseReceived \/ ShutdownReceived \/ onRevoke \/ ProcessKilled
  PROVE  TypeOK'
<1>1. ASSUME NEW t \in Thread, AskStop(t) PROVE TypeOK'
  BY <1>1, BoundsAreNaturals
     DEF AskStop, CallStopRunner, TypeOK, Step, StopSteps, AtRest, posts, procs
<1>2. CASE RunPosted
  <2>1. Head(looper) \in State /\ Tail(looper) \in Seq(State)
    BY <1>2 DEF RunPosted, TypeOK
  <2> QED
    BY <1>2, <2>1 DEF RunPosted, TypeOK, threads, procs, env
<1>3. CASE ProcessKilled
  BY <1>3, ProcessEndPreservesType, BoundsAreNaturals DEF ProcessKilled, TypeOK
<1> QED
  BY <1>1, <1>2, <1>3 DEF CloseReceived, ShutdownReceived, onRevoke, Thread

\* Type correctness: every field, the looper, the pid files and the place of
\* every thread stay in their ranges.
THEOREM TypeCorrect == Spec => []TypeOK
<1>1. Init => TypeOK
  <2> SUFFICES ASSUME Init PROVE TypeOK
    OBVIOUS
  <2>1. state \in State /\ looper \in Seq(State)
    BY StatesAreStates DEF Init
  <2>4. crashed \in BOOLEAN
    BY ZenonT(60) DEF Init
  <2>2. stops \in 0..MaxStops /\ kills \in 0..MaxKills
    BY BoundsAreNaturals DEF Init
  <2>3. /\ pc \in [Thread -> Step] /\ ret \in [Thread -> Step]
        /\ k \in [Thread -> 0..1]
    BY DEF Init, Step, AtRest
  <2> QED
    BY <2>1, <2>2, <2>3, <2>4 DEF Init, TypeOK
<1>2. TypeOK /\ [Next]_vars => TypeOK'
  <2> SUFFICES ASSUME TypeOK, [Next]_vars PROVE TypeOK'
    OBVIOUS
  <2>1. CASE UNCHANGED vars
    BY <2>1 DEF vars, posts, threads, procs, env, TypeOK
  <2> QED
    BY <2>1, StopRunnerPreservesType, StartRunnerPreservesType, WorkerPreservesType,
       EnvironmentPreservesType DEF Next
<1> QED
  BY <1>1, <1>2, PTL DEF Spec

-----------------------------------------------------------------------------
(* No transitional state is the last word                                  *)

\* What the looper will end in after a post is what was posted.
LEMMA PendingAfterPost ==
  ASSUME TypeOK, NEW t, NEW s \in State, changeState(t, s)
  PROVE  Pending' = s /\ last' = t
BY DEF TypeOK, changeState, Pending

\* Running the first Runnable does not change what the looper will end in.
LEMMA PendingAfterRun ==
  ASSUME TypeOK, RunPosted
  PROVE  Pending' = Pending
<1>1. looper \in Seq(State) /\ looper # <<>> /\ looper' = Tail(looper)
      /\ state' = Head(looper)
  BY DEF TypeOK, RunPosted
<1>2. CASE Len(looper) = 1
  BY <1>1, <1>2 DEF Pending
<1>3. CASE Len(looper) > 1
  <2>1. looper' # <<>> /\ Len(looper') = Len(looper) - 1
    BY <1>1, <1>3
  <2>2. looper'[Len(looper')] = looper[Len(looper)]
    BY <1>1, <1>3, <2>1
  <2> QED
    BY <1>1, <2>1, <2>2 DEF Pending
<1>4. Len(looper) = 1 \/ Len(looper) > 1
  BY <1>1
<1> QED
  BY <1>2, <1>3, <1>4

\* Once something terminal is posted, nothing is owed.
LEMMA TerminalPost ==
  ASSUME TypeOK, NEW t, changeState(t, STOPPED) \/ changeState(t, CONNECTED)
  PROVE  TerminalStateOwed'
<1>1. Pending' \in {STOPPED, CONNECTED}
  BY PendingAfterPost, StatesAreStates
<1> QED
  BY <1>1 DEF TerminalStateOwed, CONNECTING, CONNECTED, STOPPING, STOPPED

\* The end of the process leaves INIT and an empty looper.
LEMMA ProcessEndOwesNothing ==
  ASSUME ProcessEnds PROVE TerminalStateOwed'
BY DEF ProcessEnds, TerminalStateOwed, Pending, INIT, CONNECTING, STOPPING

\* A step of thread t that posts nothing keeps what is owed, provided t does not
\* walk away from a debt.
LEMMA SilentStep ==
  ASSUME TypeOK, TerminalStateOwed, NEW t \in Thread, NEW step,
         pc' = [pc EXCEPT ![t] = step], UNCHANGED <<state, looper, last>>,
         pc[t] \in Owing \cup Silent => step \in Owing \cup Silent,
         pc[t] \in StopSteps \cup {"died"} => step \in StopSteps \cup {"died"}
  PROVE  TerminalStateOwed'
<1>1. Pending' = Pending
  BY DEF Pending
<1>2. \A u \in Thread : u # t => pc'[u] = pc[u]
  BY DEF TypeOK
<1>3. pc'[t] = step
  BY DEF TypeOK
<1>4. Session \subseteq Thread
  BY DEF Thread
<1> QED
  BY <1>1, <1>2, <1>3, <1>4 DEF TerminalStateOwed

\* An exception leaves nothing owed but what the dead thread owed.
LEMMA ThrowKeepsOwed ==
  ASSUME TypeOK, TerminalStateOwed, NEW t \in Thread, Throws(t)
  PROVE  TerminalStateOwed'
<1>1. CASE t = Main
  BY <1>1, ProcessEndOwesNothing DEF Throws
<1>2. CASE t # Main
  BY <1>2, SilentStep DEF Throws, Moves, Goto, posts, Silent
<1> QED
  BY <1>1, <1>2

LEMMA StopRunnerKeepsOwed ==
  ASSUME TypeOK, TerminalStateOwed, NEW t \in Thread, stopRunner(t)
  PROVE  TerminalStateOwed'
<1> USE DEF Owing, Silent, StopSteps, WorkerSteps, posts, Goto, Moves
<1>1. CASE StopPost(t)
  <2>1. Pending' = STOPPING /\ last' = t
    BY <1>1, PendingAfterPost, StatesAreStates DEF StopPost
  <2>2. pc'[t] \in StopSteps
    BY <1>1 DEF StopPost, TypeOK
  <2> QED
    BY <2>1, <2>2 DEF TerminalStateOwed, CONNECTING, STOPPING
<1>2. CASE StopKill(t)
  <2>1. CASE pc' = pc
    BY <1>2, <2>1 DEF StopKill, killProcesses, TerminalStateOwed, Pending
  <2>2. CASE pc' = [pc EXCEPT ![t] = "closeCheck"]
    BY ZenonT(60), <1>2, <2>2, SilentStep DEF StopKill, killProcesses
  <2> QED
    BY <1>2, <2>1, <2>2 DEF StopKill, killProcesses
<1>3. CASE CloseCheck(t)
  BY ZenonT(60), <1>3, SilentStep DEF CloseCheck
<1>4. CASE Close(t)
  BY <1>4, SilentStep, ThrowKeepsOwed DEF Close
<1>5. CASE UnsetConn(t)
  BY ZenonT(60), <1>5, SilentStep DEF UnsetConn, SetsConn
<1>6. CASE UnregisterCheck(t)
  BY ZenonT(60), <1>6, SilentStep DEF UnregisterCheck
<1>7. CASE Unregister(t)
  BY <1>7, SilentStep, ThrowKeepsOwed DEF Unregister, SetsRegistered
<1>8. CASE UnsetReceiver(t)
  BY ZenonT(60), <1>8, SilentStep DEF UnsetReceiver, SetsReceiver
<1>9. CASE StoppedPost(t)
  BY <1>9, TerminalPost DEF StoppedPost
<1> QED
  BY <1>1, <1>2, <1>3, <1>4, <1>5, <1>6, <1>7, <1>8, <1>9 DEF stopRunner

LEMMA StartRunnerKeepsOwed ==
  ASSUME TypeOK, TerminalStateOwed, NEW s \in Session, startRunner(s)
  PROVE  TerminalStateOwed'
<1> s \in Thread  BY DEF Thread
<1> USE DEF Owing, Silent, StopSteps, WorkerSteps, posts, Goto, Moves
<1>1. CASE Start(s)
  BY ZenonT(60), <1>1, SilentStep DEF Start
<1>2. CASE AssignConfig(s)
  BY ZenonT(60), <1>2, SilentStep DEF AssignConfig, SetsConfig
<1>3. CASE NewReceiver(s)
  BY ZenonT(60), <1>3, SilentStep DEF NewReceiver, SetsReceiver
<1>4. CASE Register(s)
  BY ZenonT(60), <1>4, SilentStep DEF Register, SetsRegistered
<1>5. CASE Spawn(s)
  <2>1. Pending' = CONNECTING /\ last' = s
    BY <1>5, PendingAfterPost, StatesAreStates DEF Spawn
  <2>2. pc'[s] \in Owing
    BY <1>5 DEF Spawn, TypeOK
  <2> QED
    BY <2>1, <2>2 DEF TerminalStateOwed, CONNECTING, STOPPING
<1> QED
  BY <1>1, <1>2, <1>3, <1>4, <1>5 DEF startRunner

LEMMA WorkerKeepsOwed ==
  ASSUME TypeOK, TerminalStateOwed, NEW s \in Session, Worker(s)
  PROVE  TerminalStateOwed'
<1> s \in Thread  BY DEF Thread
<1> USE DEF Owing, Silent, StopSteps, WorkerSteps, posts, Goto, Moves
<1>a. ASSUME Throws(s) PROVE TerminalStateOwed'
  BY <1>a, ThrowKeepsOwed
<1>b. ASSUME NEW step \in Owing, Deref(s, step), pc[s] \notin StopSteps \cup {"died"}
      PROVE  TerminalStateOwed'
  BY <1>a, <1>b, SilentStep DEF Deref
<1>c. ASSUME NEW r, Fail(s, r) PROVE TerminalStateOwed'
  BY <1>c, TerminalPost DEF Fail
<1>d. ASSUME NEW task \in Task, NEW next \in Owing \cup {"threw"}, StartDaemon(s, task, next)
      PROVE  TerminalStateOwed'
  BY <1>a, <1>d, SilentStep DEF StartDaemon, Task
<1>1. CASE ReadProxy(s)
  BY <1>1, <1>b DEF ReadProxy
<1>2. CASE Fetch(s)
  BY <1>2, <1>c, SilentStep DEF Fetch
<1>3. CASE Fetched(s)
  BY <1>3, <1>c, SilentStep DEF Fetched, SetsConfig
<1>4. CASE UnsetConfig(s)
  BY ZenonT(60), <1>4, SilentStep DEF UnsetConfig, SetsConfig
<1>5. CASE CheckConfig(s)
  BY ZenonT(60), <1>5, SilentStep DEF CheckConfig
<1>6. CASE Kill(s)
  <2>1. CASE pc' = pc
    BY <1>6, <2>1 DEF Kill, killProcesses, TerminalStateOwed, Pending
  <2>2. CASE pc' = [pc EXCEPT ![s] = "resolve"]
    BY ZenonT(60), <1>6, <2>2, SilentStep DEF Kill, killProcesses
  <2> QED
    BY <1>6, <2>1, <2>2 DEF Kill, killProcesses
<1>7. CASE Resolve(s)
  BY <1>7, <1>b DEF Resolve
<1>8. CASE Resolved(s)
  BY <1>8, <1>b, <1>c DEF Resolved
<1>9. CASE StartProxy(s)
  BY <1>9, <1>d DEF StartProxy, Task
<1>10. CASE Establish(s)
  BY <1>10, <1>a, SilentStep DEF Establish
<1>11. CASE IllegalState(s)
  BY <1>11, TerminalPost DEF IllegalState
<1>12. CASE NoConn(s)
  BY ZenonT(60), <1>12, SilentStep DEF NoConn, SetsConn
<1>13. CASE ConnCheck(s)
  BY <1>13, SilentStep DEF ConnCheck, CallStopRunner
<1>14. CASE GetFd(s)
  BY <1>14, <1>a, SilentStep DEF GetFd
<1>15. CASE ExecTun2socks(s)
  BY <1>15, <1>d DEF ExecTun2socks, Task
<1>16. CASE ConnectedPost(s)
  BY <1>16, TerminalPost DEF ConnectedPost
<1> QED
  BY <1>1, <1>2, <1>3, <1>4, <1>5, <1>6, <1>7, <1>8, <1>9, <1>10, <1>11, <1>12,
     <1>13, <1>14, <1>15, <1>16 DEF Worker, handleConnection, startVpn

LEMMA EnvironmentKeepsOwed ==
  ASSUME TypeOK, TerminalStateOwed,
         RunPosted \/ CloseReceived \/ ShutdownReceived \/ onRevoke \/ ProcessKilled
  PROVE  TerminalStateOwed'
<1>1. ASSUME NEW t \in Thread, AskStop(t) PROVE TerminalStateOwed'
  BY ZenonT(60), <1>1, SilentStep
     DEF AskStop, CallStopRunner, Owing, Silent, StopSteps, WorkerSteps, posts
<1>2. CASE RunPosted
  BY <1>2, PendingAfterRun DEF RunPosted, threads, TerminalStateOwed
<1>3. CASE ProcessKilled
  BY <1>3, ProcessEndOwesNothing DEF ProcessKilled
<1> QED
  BY <1>1, <1>2, <1>3 DEF CloseReceived, ShutdownReceived, onRevoke, Thread

\* Whatever threads start and stop the service, in whatever order, a CONNECTING
\* or STOPPING that changeState posted is followed by STOPPED or CONNECTED.
THEOREM TerminalStateAlwaysOwed == Spec => []TerminalStateOwed
<1>1. Init => TerminalStateOwed
  BY DEF Init, TerminalStateOwed, Pending, INIT, CONNECTING, STOPPING
<1>2. TypeOK /\ TerminalStateOwed /\ [Next]_vars => TerminalStateOwed'
  <2> SUFFICES ASSUME TypeOK, TerminalStateOwed, [Next]_vars PROVE TerminalStateOwed'
    OBVIOUS
  <2>1. CASE UNCHANGED vars
    BY <2>1 DEF vars, posts, threads, TerminalStateOwed, Pending
  <2> QED
    BY <2>1, StopRunnerKeepsOwed, StartRunnerKeepsOwed, WorkerKeepsOwed,
       EnvironmentKeepsOwed DEF Next
<1> QED
  BY <1>1, <1>2, TypeCorrect, PTL DEF Spec

\* So the service is never left for good in a state in which start is ignored,
\* unless the thread that posted that state ended silently.
THEOREM NeverStuck == Spec => []NoStuckState
<1>1. TerminalStateOwed => NoStuckState
  <2> SUFFICES ASSUME TerminalStateOwed, Quiet, state \in {CONNECTING, STOPPING}
               PROVE  pc[last] \in Silent
    BY DEF NoStuckState
  <2>1. Pending = state
    BY DEF Pending, Quiet
  <2>2. \A t \in Thread : pc[t] \in AtRest
    BY DEF Quiet, Busy
  <2>3. AtRest \cap Owing = {} /\ AtRest \cap StopSteps = {}
    BY DEF AtRest, Owing, StopSteps, WorkerSteps
  <2> QED
    BY <2>1, <2>2, <2>3 DEF TerminalStateOwed, Thread, Silent
<1> QED
  BY <1>1, TerminalStateAlwaysOwed, PTL

-----------------------------------------------------------------------------
(* The runner implements BaseService: every step of it is a step there on  *)
(* state, looper and phase, or leaves the three unchanged.                 *)

\* Moving one thread moves its phase.
LEMMA PhaseMoves ==
  ASSUME TypeOK, NEW t \in Thread, NEW step \in Step, pc' = [pc EXCEPT ![t] = step]
  PROVE  /\ phase[t] = PhaseAt(t, pc[t])
         /\ phase' = [phase EXCEPT ![t] = PhaseAt(t, step)]
BY ZenonT(60) DEF phase, TypeOK

\* The phase of each step.
LEMMA Phases ==
  ASSUME NEW t
  PROVE  /\ \A st \in Silent : PhaseAt(t, st) = "silent"
         /\ \A st \in StopSteps \ {"stop"} : PhaseAt(t, st) = "stopping"
         /\ \A st \in {"unsetConfig", "recheck"} : PhaseAt(t, st) = "failed"
         /\ \A st \in {"idle"} \cup CallerSteps : PhaseAt(t, st) = "rest"
         /\ \A st \in WorkerSteps \ {"unsetConfig", "recheck"} :
              PhaseAt(t, st) = "starting"
         /\ PhaseAt(t, "stop") = IF t \in Session THEN "starting" ELSE "rest"
         /\ \A st \in {"done", "tornDown", "dead"} : PhaseAt(t, st) = "over"
BY DEF PhaseAt, Silent, StopSteps, CallerSteps, WorkerSteps

\* Where a stopRunner on thread t returns to.
ReturnsOf(t) == IF t \in Session THEN {"unsetConfig", "done", "torn"} ELSE {"idle"}

\* A thread inside stopRunner knows where to return to.
ReturnOK == \A t \in Thread : pc[t] \in StopSteps => ret[t] \in ReturnsOf(t)

\* A step that BaseService allows.
Allowed == BS!StateNext \/ UNCHANGED BS!stateVars

\* A silent step within one phase.
LEMMA StaysInPhase ==
  ASSUME TypeOK, NEW t \in Thread, NEW step \in Step, pc' = [pc EXCEPT ![t] = step],
         UNCHANGED <<state, looper>>, PhaseAt(t, step) = PhaseAt(t, pc[t])
  PROVE  Allowed
<1>1. phase' = phase
  BY PhaseMoves DEF phase
<1> QED
  BY <1>1 DEF Allowed, BS!stateVars

\* A silent step from one phase to the next.
LEMMA PassesQuietly ==
  ASSUME TypeOK, NEW t \in Thread, NEW step \in Step, pc' = [pc EXCEPT ![t] = step],
         UNCHANGED <<state, looper>>
  PROVE  BS!Quietly(t, PhaseAt(t, pc[t]), PhaseAt(t, step))
BY ZenonT(60), PhaseMoves DEF BS!Quietly, BS!Passes

\* A step that posts.
LEMMA Posts ==
  ASSUME TypeOK, NEW t \in Thread, NEW step \in Step, pc' = [pc EXCEPT ![t] = step],
         NEW st, changeState(t, st)
  PROVE  /\ BS!changeState(st) /\ BS!lastWord(st)
         /\ BS!Passes(t, PhaseAt(t, pc[t]), PhaseAt(t, step))
BY ZenonT(60), PhaseMoves DEF changeState, BS!changeState, BS!lastWord, BS!Passes

\* The end of the process.
LEMMA ProcessEndAllowed ==
  ASSUME TypeOK, ProcessEnds PROVE Allowed
<1>1. \A t \in Thread : /\ phase'[t] = IF t \in Session /\ pc[t] # "idle"
                                      THEN "over" ELSE "rest"
                        /\ pc[t] = "idle" => phase[t] = "rest"
  BY Phases DEF ProcessEnds, phase
<1>2. phase' \in [Thread -> {"rest", "over"}]
  BY <1>1 DEF phase
<1>3. BS!Restart
  BY <1>1, <1>2 DEF ProcessEnds, BS!Restart, BS!Thread, Thread, INIT, BS!INIT
<1> QED
  BY <1>3 DEF Allowed, BS!StateNext

\* An exception, on a thread that is in a start or in a stopRunner.
LEMMA ThrowAllowed ==
  ASSUME TypeOK, NEW t \in Thread, Throws(t),
         PhaseAt(t, pc[t]) \in {"starting", "stopping"}
  PROVE  Allowed
<1>1. CASE t = Main
  BY <1>1, ProcessEndAllowed DEF Throws
<1>2. CASE t # Main
  <2>1. PhaseAt(t, "died") = "silent" /\ "died" \in Step
    BY Phases DEF Silent, Step, AtRest
  <2>2. BS!Quietly(t, PhaseAt(t, pc[t]), "silent")
    BY <1>2, <2>1, PassesQuietly DEF Throws, Moves, Goto, posts
  <2>3. BS!EndsSilently(t)
    BY <1>2, <2>2 DEF BS!EndsSilently
  <2> QED
    BY <2>3 DEF Allowed, BS!StateNext, BS!Thread, Thread
<1> QED
  BY <1>1, <1>2

LEMMA StopRunnerAllowed ==
  ASSUME TypeOK, NEW t \in Thread, stopRunner(t), ret[t] \in ReturnsOf(t)
  PROVE  Allowed
<1> USE DEF Goto, Moves, posts
<1>0. StopSteps \subseteq Step
  BY DEF Step
<1>p. \A st \in StopSteps \ {"stop"} : PhaseAt(t, st) = "stopping"
  BY Phases
<1>a. ASSUME NEW step \in StopSteps \ {"stop"}, pc[t] \in StopSteps \ {"stop"},
             pc' = [pc EXCEPT ![t] = step], UNCHANGED <<state, looper>>
      PROVE  Allowed
  BY ZenonT(60), <1>0, <1>a, <1>p, StaysInPhase
<1>1. CASE StopPost(t)
  <2>1. /\ PhaseAt(t, pc[t]) = IF t \in Session THEN "starting" ELSE "rest"
        /\ PhaseAt(t, "stopKill") = "stopping" /\ "stopKill" \in Step
    BY <1>0, <1>1, Phases DEF StopPost, StopSteps
  <2>2. BS!BeginStop(t)
    BY ZenonT(60), <1>1, <2>1, Posts DEF StopPost, BS!BeginStop, STOPPING, BS!STOPPING
  <2> QED
    BY <2>2 DEF Allowed, BS!StateNext, BS!Thread, Thread
<1>2. CASE StopKill(t)
  <2>1. CASE pc' = pc
    BY <1>2, <2>1 DEF StopKill, killProcesses, Allowed, BS!stateVars, phase
  <2>2. CASE pc' = [pc EXCEPT ![t] = "closeCheck"]
    BY ZenonT(60), <1>2, <2>2, <1>a DEF StopKill, killProcesses, StopSteps
  <2> QED
    BY <1>2, <2>1, <2>2 DEF StopKill, killProcesses
<1>3. CASE CloseCheck(t)
  BY ZenonT(60), <1>3, <1>a DEF CloseCheck, StopSteps
<1>4. CASE Close(t)
  BY <1>4, <1>a, Phases, ThrowAllowed DEF Close, StopSteps
<1>5. CASE UnsetConn(t)
  BY ZenonT(60), <1>5, <1>a DEF UnsetConn, SetsConn, StopSteps
<1>6. CASE UnregisterCheck(t)
  BY ZenonT(60), <1>6, <1>a DEF UnregisterCheck, StopSteps
<1>7. CASE Unregister(t)
  BY <1>7, <1>a, Phases, ThrowAllowed
     DEF Unregister, SetsRegistered, StopSteps
<1>8. CASE UnsetReceiver(t)
  BY ZenonT(60), <1>8, <1>a DEF UnsetReceiver, SetsReceiver, StopSteps
<1>9. CASE StoppedPost(t)
  <2>1. /\ PhaseAt(t, pc[t]) = "stopping" /\ ret[t] \in Step
        /\ PhaseAt(t, ret[t]) \in IF t \in Session THEN {"starting", "failed", "over"}
                                  ELSE {"rest"}
    BY <1>9, Phases
       DEF StoppedPost, StopSteps, ReturnsOf, Step, WorkerSteps, AtRest
  <2>2. BS!EndStop(t)
    BY ZenonT(60), <1>9, <2>1, Posts DEF StoppedPost, BS!EndStop, STOPPED, BS!STOPPED
  <2> QED
    BY <2>2 DEF Allowed, BS!StateNext, BS!Thread, Thread
<1> QED
  BY <1>1, <1>2, <1>3, <1>4, <1>5, <1>6, <1>7, <1>8, <1>9 DEF stopRunner

LEMMA StartRunnerAllowed ==
  ASSUME TypeOK, NEW s \in Session, startRunner(s) PROVE Allowed
<1> USE DEF Goto, Moves, posts
<1>0. s \in Thread
  BY DEF Thread
<1>p. \A st \in {"idle"} \cup CallerSteps : PhaseAt(s, st) = "rest" /\ st \in Step
  BY Phases DEF Step, AtRest
<1>a. ASSUME NEW step \in {"idle"} \cup CallerSteps, pc[s] \in {"idle"} \cup CallerSteps,
             pc' = [pc EXCEPT ![s] = step], UNCHANGED <<state, looper>>
      PROVE  Allowed
  BY ZenonT(60), <1>0, <1>a, <1>p, StaysInPhase
<1>b. ASSUME pc[s] \in {"idle"} \cup CallerSteps, pc' = [pc EXCEPT ![s] = "done"],
             UNCHANGED <<state, looper>>
      PROVE  Allowed
  <2>1. PhaseAt(s, "done") = "over" /\ PhaseAt(s, pc[s]) = "rest" /\ "done" \in Step
    BY ZenonT(60), <1>b, Phases DEF Step, AtRest
  <2>2. BS!Ignored(s)
    BY ZenonT(60), <1>0, <1>b, <2>1, PassesQuietly DEF BS!Ignored
  <2> QED
    BY <2>2 DEF Allowed, BS!StateNext
<1>1. CASE Start(s)
  BY ZenonT(60), <1>1, <1>a, <1>b DEF Start, CallerSteps
<1>2. CASE AssignConfig(s)
  BY ZenonT(60), <1>2, <1>a, <1>b DEF AssignConfig, SetsConfig, CallerSteps
<1>3. CASE NewReceiver(s)
  BY <1>3, <1>a DEF NewReceiver, SetsReceiver, CallerSteps
<1>4. CASE Register(s)
  BY <1>4, <1>a DEF Register, SetsRegistered, CallerSteps
<1>5. CASE Spawn(s)
  <2>1. /\ PhaseAt(s, pc[s]) = "rest" /\ PhaseAt(s, "address") = "starting"
        /\ "address" \in Step
    BY <1>5, Phases DEF Spawn, CallerSteps, WorkerSteps, Step
  <2>2. BS!Connecting(s)
    BY ZenonT(60), <1>0, <1>5, <2>1, Posts DEF Spawn, BS!Connecting, CONNECTING, BS!CONNECTING
  <2> QED
    BY <2>2 DEF Allowed, BS!StateNext
<1> QED
  BY <1>1, <1>2, <1>3, <1>4, <1>5 DEF startRunner

LEMMA WorkerAllowed ==
  ASSUME TypeOK, NEW s \in Session, Worker(s) PROVE Allowed
<1> DEFINE Starting == (WorkerSteps \ {"unsetConfig", "recheck"}) \cup {"stop"}
<1> USE DEF Goto, Moves, posts
<1>0. s \in Thread /\ Starting \subseteq Step
  BY DEF Thread, Step, StopSteps
<1>p. \A st \in Starting : PhaseAt(s, st) = "starting"
  BY Phases
<1>a. ASSUME NEW step \in Starting, pc[s] \in Starting,
             pc' = [pc EXCEPT ![s] = step], UNCHANGED <<state, looper>>
      PROVE  Allowed
  BY ZenonT(60), <1>0, <1>a, <1>p, StaysInPhase
<1>b. ASSUME pc[s] \in Starting, Throws(s) PROVE Allowed
  BY <1>0, <1>b, <1>p, ThrowAllowed
<1>c. ASSUME pc[s] \in Starting, NEW step \in Starting, Deref(s, step) PROVE Allowed
  BY <1>a, <1>b, <1>c DEF Deref
<1>d. ASSUME pc[s] \in Starting, NEW step \in Starting,
             pc' = [pc EXCEPT ![s] = step], changeState(s, STOPPED)
      PROVE  Allowed
  <2>1. BS!Report(s)
    BY ZenonT(60), <1>0, <1>d, <1>p, Posts DEF BS!Report, STOPPED, BS!STOPPED
  <2> QED
    BY <2>1 DEF Allowed, BS!StateNext
<1>e. ASSUME pc[s] \in Starting, NEW r, Fail(s, r) PROVE Allowed
  BY ZenonT(60), <1>d, <1>e DEF Fail, CallStopRunner
<1>g. ASSUME pc[s] \in Starting, NEW step \in {"skipped", "threw"},
             pc' = [pc EXCEPT ![s] = step], UNCHANGED <<state, looper>>
      PROVE  Allowed
  <2>1. PhaseAt(s, pc[s]) = "starting" /\ PhaseAt(s, step) = "silent" /\ step \in Step
    BY <1>g, <1>p, Phases DEF Silent, Step, AtRest
  <2>2. BS!EndsSilently(s)
    BY ZenonT(60), <1>0, <1>g, <2>1, PassesQuietly, ThreadsDistinct DEF BS!EndsSilently
  <2> QED
    BY <1>0, <2>2 DEF Allowed, BS!StateNext, BS!Thread, Thread
<1>f. ASSUME NEW task \in Task, pc[s] \in Starting, NEW next \in Starting \cup {"threw"},
             StartDaemon(s, task, next)
      PROVE  Allowed
  BY <1>a, <1>b, <1>f, <1>g DEF StartDaemon
<1>1. CASE ReadProxy(s)
  BY <1>1, <1>c DEF ReadProxy, WorkerSteps
<1>2. CASE Fetch(s)
  BY <1>2, <1>a, <1>e DEF Fetch, WorkerSteps
<1>3. CASE Fetched(s)
  BY <1>3, <1>a, <1>e DEF Fetched, SetsConfig, WorkerSteps
<1>4. CASE UnsetConfig(s)
  <2>1. /\ PhaseAt(s, "recheck") = PhaseAt(s, pc[s]) /\ "recheck" \in Step
    BY <1>4, Phases DEF UnsetConfig, Step, WorkerSteps
  <2> QED
    BY ZenonT(60), <1>0, <1>4, <2>1, StaysInPhase DEF UnsetConfig, SetsConfig
<1>5. CASE CheckConfig(s)
  <2>1. CASE pc[s] = "check" /\ config # NULL
    BY ZenonT(60), <1>5, <2>1, <1>a DEF CheckConfig, WorkerSteps
  <2>2. CASE pc[s] = "check" /\ config = NULL
    BY ZenonT(60), <1>5, <2>2, <1>g DEF CheckConfig, WorkerSteps
  <2>3. CASE pc[s] = "recheck"
    <3>1. /\ PhaseAt(s, pc[s]) = "failed" /\ PhaseAt(s, "kill") = "starting"
          /\ PhaseAt(s, "done") = "over" /\ "kill" \in Step /\ "done" \in Step
      BY <2>3, Phases DEF WorkerSteps, Step, AtRest
    <3>2. BS!GoOn(s)
      BY ZenonT(60), <1>0, <1>5, <2>3, <3>1, PassesQuietly DEF CheckConfig, BS!GoOn
    <3> QED
      BY <3>2 DEF Allowed, BS!StateNext
  <2> QED
    BY <1>5, <2>1, <2>2, <2>3 DEF CheckConfig
<1>6. CASE Kill(s)
  <2>1. CASE pc' = pc
    BY <1>6, <2>1 DEF Kill, killProcesses, Allowed, BS!stateVars, phase
  <2>2. CASE pc' = [pc EXCEPT ![s] = "resolve"]
    BY ZenonT(60), <1>6, <2>2, <1>a DEF Kill, killProcesses, WorkerSteps
  <2> QED
    BY <1>6, <2>1, <2>2 DEF Kill, killProcesses
<1>7. CASE Resolve(s)
  BY <1>7, <1>c DEF Resolve, WorkerSteps
<1>8. CASE Resolved(s)
  BY <1>8, <1>c, <1>e DEF Resolved, WorkerSteps
<1>9. CASE StartProxy(s)
  BY <1>9, <1>f DEF StartProxy, StartDaemon, Task, WorkerSteps
<1>10. CASE Establish(s)
  BY <1>10, <1>a, <1>b, <1>g DEF Establish, WorkerSteps
<1>11. CASE IllegalState(s)
  BY ZenonT(60), <1>11, <1>d DEF IllegalState, WorkerSteps
<1>12. CASE NoConn(s)
  BY ZenonT(60), <1>12, <1>a DEF NoConn, SetsConn, WorkerSteps
<1>13. CASE ConnCheck(s)
  BY <1>13, <1>a DEF ConnCheck, CallStopRunner, WorkerSteps
<1>14. CASE GetFd(s)
  BY <1>14, <1>a, <1>b DEF GetFd, WorkerSteps
<1>15. CASE ExecTun2socks(s)
  BY <1>15, <1>f DEF ExecTun2socks, StartDaemon, Task, WorkerSteps
<1>16. CASE ConnectedPost(s)
  <2>1. /\ PhaseAt(s, pc[s]) = "starting"
        /\ \A st \in {"done", "tornDown"} : PhaseAt(s, st) = "over" /\ st \in Step
    BY <1>16, Phases DEF ConnectedPost, WorkerSteps, Step, AtRest
  <2>2. BS!Connected(s)
    BY ZenonT(60), <1>0, <1>16, <2>1, Posts DEF ConnectedPost, BS!Connected, CONNECTED, BS!CONNECTED
  <2> QED
    BY <2>2 DEF Allowed, BS!StateNext
<1> QED
  BY <1>1, <1>2, <1>3, <1>4, <1>5, <1>6, <1>7, <1>8, <1>9, <1>10, <1>11, <1>12,
     <1>13, <1>14, <1>15, <1>16 DEF Worker, handleConnection, startVpn

LEMMA EnvironmentAllowed ==
  ASSUME TypeOK,
         RunPosted \/ CloseReceived \/ ShutdownReceived \/ onRevoke \/ ProcessKilled
  PROVE  Allowed
<1>0. Main \in Thread /\ Binder \in Thread /\ "stop" \in Step
  BY DEF Thread, Step, StopSteps
<1>1. ASSUME NEW t \in {Main, Binder}, AskStop(t) PROVE Allowed
  <2>1. /\ PhaseAt(t, "stop") = "rest" /\ PhaseAt(t, "idle") = "rest"
        /\ PhaseAt(t, "died") = "silent"
    BY Phases, ThreadsDistinct DEF Silent
  <2>2. pc' = [pc EXCEPT ![t] = "stop"] /\ UNCHANGED <<state, looper>>
    BY <1>1 DEF AskStop, CallStopRunner, posts
  <2>3. CASE pc[t] = "idle"
    BY ZenonT(60), <1>0, <2>1, <2>2, <2>3, StaysInPhase
  <2>4. CASE pc[t] = "died"
    <3>1. BS!Revive(t)
      BY ZenonT(60), <1>0, <2>1, <2>2, <2>4, PassesQuietly, ThreadsDistinct DEF BS!Revive
    <3> QED
      BY <3>1 DEF Allowed, BS!StateNext, BS!Thread
  <2> QED
    BY <1>1, <2>3, <2>4 DEF AskStop
<1>2. CASE RunPosted
  <2>1. phase[Main] = "rest" /\ phase' = phase
    BY ZenonT(60), <1>0, <1>2, Phases DEF RunPosted, threads, phase
  <2>2. BS!RunPosted
    BY <1>2, <2>1 DEF RunPosted, BS!RunPosted
  <2> QED
    BY <2>2 DEF Allowed, BS!StateNext
<1>3. CASE ProcessKilled
  BY <1>3, ProcessEndAllowed DEF ProcessKilled
<1> QED
  BY <1>1, <1>2, <1>3 DEF CloseReceived, ShutdownReceived, onRevoke

\* Only a thread that has entered stopRunner is in it, and it entered from a
\* place it can return to.
LEMMA ReturnsPreserved ==
  ASSUME TypeOK, ReturnOK, [Next]_vars PROVE ReturnOK'
<1> USE DEF Goto, Moves, posts
<1>a. ASSUME NEW t \in Thread, NEW step \in Step, pc' = [pc EXCEPT ![t] = step],
             ret' = ret, step \in StopSteps => pc[t] \in StopSteps
      PROVE  ReturnOK'
  BY <1>a DEF ReturnOK, TypeOK, ReturnsOf
<1>b. ASSUME NEW t \in Thread, NEW r \in ReturnsOf(t), CallStopRunner(t, r)
      PROVE  ReturnOK'
  BY <1>b DEF CallStopRunner, ReturnOK, TypeOK, ReturnsOf
<1>c. ASSUME ProcessEnds PROVE ReturnOK'
  BY <1>c DEF ProcessEnds, ReturnOK, StopSteps
<1>d. ASSUME NEW t \in Thread, Throws(t) PROVE ReturnOK'
  <2>1. "died" \in Step /\ "died" \notin StopSteps
    BY DEF Step, AtRest, StopSteps
  <2> QED
    BY <1>a, <1>c, <1>d, <2>1 DEF Throws
<1>1. ASSUME NEW t \in Thread, stopRunner(t) PROVE ReturnOK'
  <2>0. StopSteps \subseteq Step
    BY DEF Step
  <2>1. ASSUME NEW step \in StopSteps, pc[t] \in StopSteps,
               pc' = [pc EXCEPT ![t] = step], ret' = ret
        PROVE  ReturnOK'
    BY ZenonT(60), <1>a, <2>0, <2>1
  <2>2. CASE StopKill(t)
    <3>1. CASE pc' = pc
      BY <2>2, <3>1 DEF StopKill, killProcesses, ReturnOK, ReturnsOf
    <3> QED
      BY ZenonT(60), <2>1, <2>2, <3>1 DEF StopKill, killProcesses, StopSteps
  <2>3. CASE StoppedPost(t)
    <3>1. ret[t] \in ReturnsOf(t)
      BY <2>3 DEF StoppedPost, ReturnOK, StopSteps
    <3>2. ret[t] \notin StopSteps
      BY <3>1 DEF ReturnsOf, StopSteps
    <3> QED
      BY <2>3, <3>2 DEF StoppedPost, ReturnOK, TypeOK, ReturnsOf
  <2> QED
    BY <1>1, <1>d, <2>1, <2>2, <2>3
       DEF stopRunner, StopPost, CloseCheck, Close, UnsetConn, SetsConn,
           UnregisterCheck, Unregister, SetsRegistered, UnsetReceiver, SetsReceiver,
           StopSteps
<1>2. ASSUME NEW s \in Session, startRunner(s) PROVE ReturnOK'
  <2>0. s \in Thread /\ CallerSteps \subseteq Step /\ {"done", "address"} \subseteq Step
        /\ StopSteps \cap (CallerSteps \cup {"done", "address"}) = {}
    BY DEF Thread, Step, AtRest, WorkerSteps, CallerSteps, StopSteps
  <2>1. ASSUME NEW step \in CallerSteps \cup {"done", "address"},
               pc' = [pc EXCEPT ![s] = step], ret' = ret
        PROVE  ReturnOK'
    BY ZenonT(60), <1>a, <2>0, <2>1
  <2> QED
    BY <1>2, <2>1
       DEF startRunner, Start, AssignConfig, SetsConfig, NewReceiver, SetsReceiver,
           Register, SetsRegistered, Spawn, CallerSteps
<1>3. ASSUME NEW s \in Session, Worker(s) PROVE ReturnOK'
  <2> DEFINE Away == WorkerSteps \cup AtRest
  <2>0. s \in Thread /\ Away \subseteq Step /\ StopSteps \cap Away = {}
    BY DEF Thread, Step, WorkerSteps, AtRest, StopSteps
  <2>1. ASSUME NEW step \in Away, pc' = [pc EXCEPT ![s] = step], ret' = ret
        PROVE  ReturnOK'
    BY ZenonT(60), <1>a, <2>0, <2>1
  <2>2. ASSUME NEW step \in Away, Deref(s, step) PROVE ReturnOK'
    BY <1>d, <2>0, <2>1, <2>2 DEF Deref
  <2>3. ASSUME NEW r \in {"unsetConfig", "done", "torn"}, CallStopRunner(s, r)
        PROVE  ReturnOK'
    BY <1>b, <2>0, <2>3 DEF ReturnsOf
  <2>4. ASSUME NEW r \in {"unsetConfig", "done", "torn"}, Fail(s, r) PROVE ReturnOK'
    BY <2>3, <2>4 DEF Fail
  <2>5. ASSUME NEW task, NEW next \in Away, StartDaemon(s, task, next) PROVE ReturnOK'
    BY <1>d, <2>0, <2>1, <2>5 DEF StartDaemon
  <2>6. CASE Kill(s)
    <3>1. CASE pc' = pc
      BY ZenonT(60), <2>6, <3>1 DEF Kill, killProcesses, ReturnOK, ReturnsOf
    <3> QED
      BY <2>1, <2>6, <3>1 DEF Kill, killProcesses, WorkerSteps
  <2>7. CASE ReadProxy(s) \/ Fetch(s) \/ Fetched(s) \/ UnsetConfig(s) \/ CheckConfig(s)
    BY <2>1, <2>2, <2>4, <2>7
       DEF ReadProxy, Fetch, Fetched, UnsetConfig, SetsConfig, CheckConfig,
           WorkerSteps, AtRest
  <2>8. CASE Resolve(s) \/ Resolved(s) \/ StartProxy(s) \/ ExecTun2socks(s)
    BY SMTT(60), <2>2, <2>4, <2>5, <2>8
       DEF Resolve, Resolved, StartProxy, ExecTun2socks, WorkerSteps, AtRest
  <2>9. CASE Establish(s) \/ IllegalState(s) \/ NoConn(s) \/ GetFd(s) \/ ConnectedPost(s)
    BY <1>d, <2>0, <2>1, <2>9
       DEF Establish, IllegalState, NoConn, SetsConn, GetFd, ConnectedPost,
           WorkerSteps, AtRest
  <2>10. CASE ConnCheck(s)
    BY <2>1, <2>3, <2>10 DEF ConnCheck, WorkerSteps
  <2> QED
    BY <1>3, <2>6, <2>7, <2>8, <2>9, <2>10 DEF Worker, handleConnection, startVpn
<1>4. ASSUME NEW t \in {Main, Binder}, AskStop(t) PROVE ReturnOK'
  BY <1>b, <1>4, ThreadsDistinct DEF AskStop, ReturnsOf, Thread
<1>5. CASE RunPosted \/ UNCHANGED vars
  BY <1>5 DEF RunPosted, vars, threads, ReturnOK, ReturnsOf
<1> QED
  BY <1>1, <1>2, <1>3, <1>4, <1>5, <1>c
     DEF Next, CloseReceived, ShutdownReceived, onRevoke, ProcessKilled

\* The runner implements BaseService: whatever threads start and stop it, and
\* wherever an exception or a kill strikes, state, looper and the phases of the
\* threads change only as BaseService says.
THEOREM RunnerImplementsBaseService == Spec => ImplementsBaseService
<1>1. Init => BS!StateInit /\ ReturnOK
  <2> SUFFICES ASSUME Init PROVE BS!StateInit /\ ReturnOK
    OBVIOUS
  <2>1. \A t \in Thread : pc[t] = "idle"
    BY DEF Init
  <2>a. ASSUME NEW t PROVE PhaseAt(t, "idle") = "rest"
    <3>1. "idle" \in {"idle"} \cup CallerSteps
      OBVIOUS
    <3> QED
      BY <3>1, Phases
  <2>2. phase = [t \in Thread |-> "rest"]
    BY <2>1, <2>a DEF phase
  <2>3. ReturnOK
    BY <2>1 DEF ReturnOK, StopSteps
  <2> QED
    BY <2>2, <2>3 DEF Init, BS!StateInit, BS!Thread, Thread, INIT, BS!INIT
<1>2. TypeOK /\ ReturnOK /\ [Next]_vars => ReturnOK'
  BY ReturnsPreserved
<1>3. TypeOK /\ ReturnOK /\ [Next]_vars => [BS!StateNext]_BS!stateVars
  <2> SUFFICES ASSUME TypeOK, ReturnOK, [Next]_vars PROVE Allowed
    BY DEF Allowed
  <2>1. ASSUME NEW t \in Thread, stopRunner(t) PROVE Allowed
    <3>1. pc[t] \in StopSteps
      BY <2>1 DEF stopRunner, StopPost, StopKill, killProcesses, CloseCheck, Close,
                  UnsetConn, UnregisterCheck, Unregister, UnsetReceiver, StoppedPost,
                  StopSteps
    <3> QED
      BY SMTT(60), <2>1, <3>1, StopRunnerAllowed DEF ReturnOK
  <2>2. CASE UNCHANGED vars
    BY <2>2 DEF vars, posts, threads, phase, Allowed, BS!stateVars
  <2> QED
    BY <2>1, <2>2, StartRunnerAllowed, WorkerAllowed, EnvironmentAllowed DEF Next
<1> QED
  BY <1>1, <1>2, <1>3, TypeCorrect, PTL DEF Spec, ImplementsBaseService, BS!StateSpec
=============================================================================
