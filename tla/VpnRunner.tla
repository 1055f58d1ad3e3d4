------------------------------ MODULE VpnRunner ------------------------------
(***************************************************************************)
(* ShadowsocksVpnService: startRunner, the thread it spawns, stopRunner,   *)
(* and the state machine of BaseService that they drive.                   *)
(*                                                                         *)
(* Nothing in this code takes a lock.  Three kinds of threads run it:      *)
(*   - Main, the main looper: it runs the Runnables changeState posts, in  *)
(*     order, and the broadcast receivers; while a receiver is inside      *)
(*     stopRunner nothing else runs on it;                                 *)
(*   - Binder, on which the system calls onRevoke;                         *)
(*   - one thread per session: the caller of start(config), followed from  *)
(*     the spawn on by the thread it spawned.                              *)
(* A read or a write of a field that several threads use is a step of its  *)
(* own.  The service runs in the app's process: a call on the binder is a  *)
(* plain call on the caller's thread.  An exception ends the process when  *)
(* it escapes on Main, while the native daemons and their pid files live   *)
(* on; scala.concurrent.ops.spawn and the binder's dispatcher swallow it,  *)
(* so on those threads it ends only what the thread was doing: "died" when *)
(* another thread's doing was the cause, "threw" when a file could not be  *)
(* written or an app that bypasses the VPN is not installed.               *)
(* The service's lifecycle and its timers are in ReindeerVpnService.       *)
(***************************************************************************)
EXTENDS Integers, Sequences

CONSTANTS Session,    \* one per call of start(config)
          Main, Binder,
          NULL,
          Proxies,    \* kinds of proxy a config may name: "public", "plain"
          Overlap,    \* may a thread enter the runner while another is inside?
          MaxPosts,   \* bound on the Runnables the looper holds
          MaxStops,   \* bound on external stop requests
          MaxKills    \* bound on kills of the process by the system

ASSUME ThreadsDistinct ==
  /\ Main \notin Session /\ Binder \notin Session /\ Main # Binder
  /\ NULL \notin Session \cup {"public", "plain"}
ASSUME ProxiesAreKnown == Proxies \in SUBSET {"public", "plain"}
ASSUME OverlapIsBoolean == Overlap \in BOOLEAN
ASSUME BoundsAreNaturals == MaxPosts \in Nat /\ MaxStops \in Nat /\ MaxKills \in Nat

VARIABLES
  state,      \* BaseService.state
  looper,     \* Runnables posted by changeState, by the state they carry
  last,       \* history: the thread that posted last
  config,     \* the config field: NULL, or the kind of its proxy
  conn,       \* the conn field: NULL, or the session that established it
  tunnel,     \* the established interface whose descriptor is open
  receiver,   \* the receiver field: NULL, or the session that created it
  registered, \* SHUTDOWN receivers registered with the system
  pc, ret, k, \* per thread: next step, where stopRunner returns, kill index
  live,       \* daemons alive, as <<task, session that started it>>
  pidFile,    \* contents of the pid file of each task
  stops, kills,
  crashed     \* history: an exception on Main ended the process

posts   == <<looper, last>>
threads == <<pc, ret, k>>
procs   == <<live, pidFile>>
env     == <<stops, kills, crashed>>
vars    == <<state, posts, config, conn, tunnel, receiver, registered,
             threads, procs, env>>

INIT       == "INIT"
CONNECTING == "CONNECTING"
CONNECTED  == "CONNECTED"
STOPPING   == "STOPPING"
STOPPED    == "STOPPED"
State == {INIT, CONNECTING, CONNECTED, STOPPING, STOPPED}

\* The tasks in the order killProcesses goes through them.  "proxy" stands for
\* ss-local, pdnsd and ss-tunnel, which one thread starts in a row: it is alive
\* while any of them is.
Tasks == <<"proxy", "tun2socks">>
Task  == {"proxy", "tun2socks"}

Thread == Session \cup {Main, Binder}

\* The steps of stopRunner; of start(config) on its caller's thread; of the
\* spawned thread outside stopRunner; and the places where a thread rests.
StopSteps == {"stop", "stopKill", "closeCheck", "close", "unsetConn",
              "unregisterCheck", "unregister", "unsetReceiver", "stopped"}
CallerSteps == {"config", "receiver", "register", "connecting"}
WorkerSteps == {"address", "fetch", "fetching", "unsetConfig", "check", "recheck",
                "kill", "resolve", "resolving", "proxy", "establish", "illegalState",
                "noConn", "connCheck", "torn", "getFd", "tun2socks", "connected"}
AtRest == {"idle", "done", "tornDown", "skipped", "died", "threw", "dead"}
Step == StopSteps \cup CallerSteps \cup WorkerSteps \cup AtRest

Busy == {t \in Thread : pc[t] \notin AtRest}

MayEnter == Overlap \/ Busy = {}

TypeOK ==
  /\ state \in State /\ looper \in Seq(State) /\ last \in Thread \cup {NULL}
  /\ config \in {NULL, "public", "plain"}
  /\ conn \in Session \cup {NULL} /\ tunnel \in Session \cup {NULL}
  /\ receiver \in Session \cup {NULL}
  /\ registered \subseteq Session
  /\ pc \in [Thread -> Step] /\ ret \in [Thread -> Step]
  /\ k \in [Thread -> 0..1]
  /\ live \subseteq Task \X Session
  /\ pidFile \in [Task -> Session \cup {NULL}]
  /\ stops \in 0..MaxStops /\ kills \in 0..MaxKills
  /\ crashed \in BOOLEAN

\* The memory of a process that has just begun.
Init ==
  /\ state = INIT /\ looper = <<>> /\ last = NULL
  /\ config = NULL /\ conn = NULL /\ tunnel = NULL
  /\ receiver = NULL /\ registered = {}
  /\ pc = [t \in Thread |-> "idle"]
  /\ ret = [t \in Thread |-> "idle"] /\ k = [t \in Thread |-> 0]
  /\ live = {} /\ pidFile = [t \in Task |-> NULL]
  /\ stops = 0 /\ kills = 0 /\ crashed = FALSE

-----------------------------------------------------------------------------
(* Steps of a thread, by the one field they change                         *)

Goto(t, step) == pc' = [pc EXCEPT ![t] = step] /\ UNCHANGED <<ret, k>>

Moves(t, step) ==
  /\ Goto(t, step)
  /\ UNCHANGED <<state, posts, config, conn, tunnel, receiver, registered, procs, env>>

\* changeState(s), called on thread t: a Runnable for the main looper.
changeState(t, s) ==
  /\ Len(looper) < MaxPosts /\ looper' = Append(looper, s) /\ last' = t
  /\ UNCHANGED <<state, config, conn, tunnel, receiver, registered, procs, env>>

SetsConfig(t, c, step) ==
  /\ config' = c /\ Goto(t, step)
  /\ UNCHANGED <<state, posts, conn, tunnel, receiver, registered, procs, env>>

SetsConn(t, c, step) ==
  /\ conn' = c /\ Goto(t, step)
  /\ UNCHANGED <<state, posts, config, tunnel, receiver, registered, procs, env>>

SetsReceiver(t, r, step) ==
  /\ receiver' = r /\ Goto(t, step)
  /\ UNCHANGED <<state, posts, config, conn, tunnel, registered, procs, env>>

SetsRegistered(t, rs, step) ==
  /\ registered' = rs /\ Goto(t, step)
  /\ UNCHANGED <<state, posts, config, conn, tunnel, receiver, procs, env>>

\* Thread t enters stopRunner and goes on at r when it returns.
CallStopRunner(t, r) ==
  /\ pc' = [pc EXCEPT ![t] = "stop"]
  /\ ret' = [ret EXCEPT ![t] = r]
  /\ UNCHANGED k

\* The process ends, and the next one begins with nothing but what lives
\* outside it: the daemons and their pid files.
ProcessEnds ==
  /\ state' = INIT /\ looper' = <<>> /\ last' = NULL
  /\ config' = NULL /\ conn' = NULL /\ tunnel' = NULL
  /\ receiver' = NULL /\ registered' = {}
  /\ pc' = [t \in Thread |-> IF t \in Session /\ pc[t] # "idle" THEN "dead" ELSE "idle"]
  /\ ret' = [t \in Thread |-> "idle"] /\ k' = [t \in Thread |-> 0]
  /\ UNCHANGED <<procs, stops>>

\* An exception escapes on thread t.
Throws(t) ==
  IF t = Main THEN ProcessEnds /\ crashed' = TRUE /\ UNCHANGED kills
  ELSE Moves(t, "died")

\* Mutant: the loop goes one task too far.
KillTooFar(t, from, to) ==
  /\ pc[t] = from
  /\ LET task == Tasks[k[t] + 1] IN live' = live \ {<<task, pidFile[task]>>}
  /\ IF k[t] + 1 <= Len(Tasks)
     THEN k' = [k EXCEPT ![t] = @ + 1] /\ UNCHANGED pc
     ELSE k' = [k EXCEPT ![t] = 0] /\ pc' = [pc EXCEPT ![t] = to]
  /\ UNCHANGED <<state, posts, config, conn, tunnel, receiver, registered, ret,
                 pidFile, env>>

\* killProcesses, one task per step: read the pid file, kill that process.
\* The file stays where it is.
killProcesses(t, from, to) ==
  /\ pc[t] = from
  /\ LET task == Tasks[k[t] + 1] IN live' = live \ {<<task, pidFile[task]>>}
  /\ IF k[t] + 1 < Len(Tasks)
     THEN k' = [k EXCEPT ![t] = @ + 1] /\ UNCHANGED pc
     ELSE k' = [k EXCEPT ![t] = 0] /\ pc' = [pc EXCEPT ![t] = to]
  /\ UNCHANGED <<state, posts, config, conn, tunnel, receiver, registered, ret,
                 pidFile, env>>

-----------------------------------------------------------------------------
(* stopRunner                                                              *)

StopPost(t) == pc[t] = "stop" /\ changeState(t, STOPPING) /\ Goto(t, "stopKill")

\* Mutant: stopRunner without killProcesses.
StopKillNothing(t) == pc[t] = "stopKill" /\ Moves(t, "closeCheck")

StopKill(t) == killProcesses(t, "stopKill", "closeCheck")

CloseCheck(t) ==
  /\ pc[t] = "closeCheck"
  /\ Moves(t, IF conn # NULL THEN "close" ELSE "unregisterCheck")

\* conn.close() reads the field again: another thread may have cleared it.
Close(t) ==
  /\ pc[t] = "close"
  /\ \/ conn = NULL /\ Throws(t)
     \/ /\ conn # NULL
        /\ tunnel' = IF tunnel = conn THEN NULL ELSE tunnel
        /\ Goto(t, "unsetConn")
        /\ UNCHANGED <<state, posts, config, conn, receiver, registered, procs, env>>

UnsetConn(t) == pc[t] = "unsetConn" /\ SetsConn(t, NULL, "unregisterCheck")

UnregisterCheck(t) ==
  /\ pc[t] = "unregisterCheck"
  /\ Moves(t, IF receiver # NULL THEN "unregister" ELSE "stopped")

\* unregisterReceiver throws for null and for a receiver that is not registered.
Unregister(t) ==
  /\ pc[t] = "unregister"
  /\ \/ receiver \notin registered /\ Throws(t)
     \/ receiver \in registered
        /\ SetsRegistered(t, registered \ {receiver}, "unsetReceiver")

\* Mutant: the field keeps the receiver that was unregistered.
KeepReceiver(t) == pc[t] = "unsetReceiver" /\ Moves(t, "stopped")

UnsetReceiver(t) == pc[t] = "unsetReceiver" /\ SetsReceiver(t, NULL, "stopped")

\* Mutant: stopRunner ends without changeState(STOPPED).
ForgetStopped(t) ==
  /\ pc[t] = "stopped"
  /\ pc' = [pc EXCEPT ![t] = ret[t]] /\ ret' = [ret EXCEPT ![t] = "idle"]
  /\ UNCHANGED <<state, posts, config, conn, tunnel, receiver, registered, k, procs, env>>

StoppedPost(t) ==
  /\ pc[t] = "stopped"
  /\ changeState(t, STOPPED)
  /\ pc' = [pc EXCEPT ![t] = ret[t]]
  /\ ret' = [ret EXCEPT ![t] = "idle"]
  /\ UNCHANGED k

stopRunner(t) ==
  \/ StopPost(t) \/ StopKill(t) \/ CloseCheck(t) \/ Close(t) \/ UnsetConn(t)
  \/ UnregisterCheck(t) \/ Unregister(t) \/ UnsetReceiver(t) \/ StoppedPost(t)

-----------------------------------------------------------------------------
(* start(config) and startRunner, on the thread of the caller              *)

\* BaseService.start: ignored while the state is CONNECTING or STOPPING.
Start(s) ==
  /\ pc[s] = "idle" /\ MayEnter
  /\ Moves(s, IF state \notin {CONNECTING, STOPPING} THEN "config" ELSE "done")

\* config = c.  Without the VPN permission the runner activity is shown and
\* startRunner returns.
AssignConfig(s) ==
  /\ pc[s] = "config"
  /\ \E c \in Proxies, next \in {"receiver", "done"} : SetsConfig(s, c, next)

\* A new SHUTDOWN receiver replaces what the field held.
NewReceiver(s) == pc[s] = "receiver" /\ SetsReceiver(s, s, "register")

\* registerReceiver reads the field again; null registers nothing.
Register(s) ==
  /\ pc[s] = "register"
  /\ SetsRegistered(s, registered \cup ({receiver} \ {NULL}), "connecting")

Spawn(s) == pc[s] = "connecting" /\ changeState(s, CONNECTING) /\ Goto(s, "address")

startRunner(s) ==
  Start(s) \/ AssignConfig(s) \/ NewReceiver(s) \/ Register(s) \/ Spawn(s)

-----------------------------------------------------------------------------
(* The spawned thread                                                      *)

\* Reading a member of config throws when another thread has cleared it.
Deref(s, step) == IF config = NULL THEN Throws(s) ELSE Moves(s, step)

ReadProxy(s) ==
  pc[s] = "address" /\ Deref(s, IF config = "public" THEN "fetch" ELSE "check")

\* changeState(STOPPED, message), then stopRunner.
Fail(s, r) == changeState(s, STOPPED) /\ CallStopRunner(s, r)

\* getPublicConfig is called with the config of this moment, inside a try:
\* null is a failure like any other.
Fetch(s) ==
  /\ pc[s] = "fetch"
  /\ IF config = NULL THEN Fail(s, "unsetConfig") ELSE Moves(s, "fetching")

Fetched(s) ==
  /\ pc[s] = "fetching"
  /\ SetsConfig(s, "plain", "check") \/ Fail(s, "unsetConfig")

UnsetConfig(s) == pc[s] = "unsetConfig" /\ SetsConfig(s, NULL, "recheck")

\* if (config != null).  A thread that finds null has either failed and posted
\* STOPPED itself ("done"), or never posts anything ("skipped").
CheckConfig(s) ==
  /\ pc[s] \in {"check", "recheck"}
  /\ Moves(s, IF config # NULL THEN "kill"
              ELSE IF pc[s] = "check" THEN "skipped" ELSE "done")

\* Mutant: the context is not reset before the daemons are started.
SkipKill(s) == pc[s] = "kill" /\ Moves(s, "resolve")

Kill(s) == killProcesses(s, "kill", "resolve")

\* Mutant: nothing is done when the lookup has no answer.
ResolvedOrQuiet(s) == pc[s] = "resolving" /\ (Deref(s, "proxy") \/ Moves(s, "done"))

\* A numeric address needs no lookup.  A lookup has an answer, which is stored
\* in config.proxy, or has none.
Resolve(s) == pc[s] = "resolve" /\ (Deref(s, "resolving") \/ Deref(s, "proxy"))

Resolved(s) == pc[s] = "resolving" /\ (Deref(s, "proxy") \/ Fail(s, "done"))

\* A command is run.  The daemon comes up, and has written its pid file when the
\* command returns; or the command fails, and nobody looks.
StartDaemon(s, task, next) ==
  /\ pc[s] = task
  /\ \/ config = NULL /\ Throws(s)
     \/ /\ config # NULL /\ Goto(s, next)
        /\ \/ live' = live \cup {<<task, s>>} /\ pidFile' = [pidFile EXCEPT ![task] = s]
           \/ UNCHANGED procs
        /\ UNCHANGED <<state, posts, config, conn, tunnel, receiver, registered, env>>

\* startShadowsocksDaemon, startDnsDaemon, startDnsTunnel.  printToFile throws when a
\* file cannot be written, with some of the daemons started already or none.
StartProxy(s) ==
  StartDaemon(s, "proxy", "establish") \/ StartDaemon(s, "proxy", "threw")

\* addDisallowedApplication throws for an app that is not installed, outside the try.
\* builder.establish: a connection, which becomes the system's interface; or
\* IllegalStateException, or another exception or null.
Establish(s) ==
  /\ pc[s] = "establish"
  /\ \/ config = NULL /\ Throws(s)
     \/ /\ config # NULL
        /\ conn' = s /\ tunnel' = s /\ Goto(s, "connCheck")
        /\ UNCHANGED <<state, posts, config, receiver, registered, procs, env>>
     \/ /\ config # NULL
        /\ Moves(s, "threw") \/ Moves(s, "illegalState") \/ Moves(s, "noConn")

IllegalState(s) == pc[s] = "illegalState" /\ changeState(s, STOPPED) /\ Goto(s, "noConn")

NoConn(s) == pc[s] = "noConn" /\ SetsConn(s, NULL, "connCheck")

\* Without a connection startVpn calls stopRunner and returns; handleConnection
\* answers true all the same.
ConnCheck(s) ==
  /\ pc[s] = "connCheck"
  /\ IF conn = NULL THEN CallStopRunner(s, "torn") ELSE Goto(s, "getFd")
  /\ UNCHANGED <<state, posts, config, conn, tunnel, receiver, registered, procs, env>>

\* conn.getFd throws when another thread has cleared or closed conn.
GetFd(s) ==
  /\ pc[s] = "getFd"
  /\ IF conn = NULL \/ conn # tunnel THEN Throws(s) ELSE Moves(s, "tun2socks")

ExecTun2socks(s) == StartDaemon(s, "tun2socks", "connected")

startVpn(s) ==
  Establish(s) \/ IllegalState(s) \/ NoConn(s) \/ ConnCheck(s) \/ GetFd(s)
  \/ ExecTun2socks(s)

handleConnection(s) == StartProxy(s) \/ startVpn(s)

\* "torn": the same step, after the stopRunner of ConnCheck.
ConnectedPost(s) ==
  /\ pc[s] \in {"connected", "torn"}
  /\ changeState(s, CONNECTED)
  /\ Goto(s, IF pc[s] = "connected" THEN "done" ELSE "tornDown")

Worker(s) ==
  \/ ReadProxy(s) \/ Fetch(s) \/ Fetched(s) \/ UnsetConfig(s) \/ CheckConfig(s)
  \/ Kill(s) \/ Resolve(s) \/ Resolved(s) \/ handleConnection(s) \/ ConnectedPost(s)

-----------------------------------------------------------------------------
(* The main looper, the system, and what is asked from outside             *)

\* The Runnable of changeState.
RunPosted ==
  /\ pc[Main] = "idle" /\ looper # <<>>
  /\ state' = Head(looper) /\ looper' = Tail(looper)
  /\ UNCHANGED <<last, config, conn, tunnel, receiver, registered, threads, procs, env>>

\* A stop is asked from outside on thread t.
AskStop(t) ==
  /\ pc[t] \in {"idle", "died"} /\ MayEnter /\ stops < MaxStops
  /\ stops' = stops + 1
  /\ CallStopRunner(t, "idle")
  /\ UNCHANGED <<state, posts, config, conn, tunnel, receiver, registered, procs,
                 kills, crashed>>

\* The CLOSE broadcast; the SHUTDOWN broadcast, for a receiver still registered;
\* and the system revoking an interface that is up.
CloseReceived == AskStop(Main)
ShutdownReceived == registered # {} /\ AskStop(Main)
onRevoke == tunnel # NULL /\ AskStop(Binder)

\* The system kills the process.
ProcessKilled ==
  /\ kills < MaxKills /\ kills' = kills + 1
  /\ ProcessEnds /\ UNCHANGED crashed

Next ==
  \/ \E t \in Thread : stopRunner(t)
  \/ \E s \in Session : startRunner(s) \/ Worker(s)
  \/ RunPosted \/ CloseReceived \/ ShutdownReceived \/ onRevoke \/ ProcessKilled

Spec == Init /\ [][Next]_vars

\* Threads that are inside the runner go on, and the looper runs what it holds.
\* Whether start is called, and whether a stop is asked, is up to the outside.
Fairness ==
  /\ WF_vars(RunPosted)
  /\ \A t \in Thread : WF_vars(stopRunner(t))
  /\ \A s \in Session : WF_vars(pc[s] # "idle" /\ (startRunner(s) \/ Worker(s)))

FairSpec == Spec /\ Fairness

-----------------------------------------------------------------------------
(* Properties                                                              *)

\* The state the service is in once the looper has run all it holds.
Pending == IF looper = <<>> THEN state ELSE looper[Len(looper)]

\* Steps of a thread that has posted CONNECTING and will post again.
Owing == StopSteps \cup (WorkerSteps \ {"unsetConfig", "recheck"})

\* A thread that ended without its last word: it found config cleared by another
\* thread, or an exception that was swallowed ended it, caused by another thread or not.
Disturbed == {"skipped", "died"}
Silent == {"skipped", "died", "threw"}

\* A transitional state is never the last word: the thread that posted CONNECTING
\* or STOPPING last is on its way to post CONNECTED or STOPPED, however starts and
\* stops interleave, unless it ended silently.
TerminalStateOwed ==
  /\ Pending = CONNECTING => last \in Session /\ pc[last] \in Owing \cup Silent
  /\ Pending = STOPPING => last \in Thread /\ pc[last] \in StopSteps \cup {"died"}

Quiet == Busy = {} /\ looper = <<>>

\* When every thread is at rest and the looper is empty, the service is not left
\* in CONNECTING or STOPPING, where start is ignored for good, unless the thread
\* that posted that state ended silently.
NoStuckState == Quiet /\ state \in {CONNECTING, STOPPING} => pc[last] \in Silent

\* When uses do not overlap, the service is never left in STOPPING, and in CONNECTING only
\* by a thread that could not write a file or exclude an app: spawn swallows what
\* printToFile and addDisallowedApplication throw, and nothing then posts STOPPED.
StuckByFailureOnly ==
  Quiet /\ state \in {CONNECTING, STOPPING} => state = CONNECTING /\ pc[last] = "threw"

\* When uses do not overlap, no thread in startRunner, its thread or stopRunner meets what
\* another has done to config, conn or receiver: none finds config cleared under it, and
\* none throws for it, whatever failed on its own in between.
NoneDisturbed == ~crashed /\ \A t \in Thread : pc[t] \notin Disturbed

\* When uses do not overlap, killProcesses can find every daemon that is alive, whatever
\* was started over what, and even after the process was killed half way.
PidFilesNameDaemons == \A d \in live : pidFile[d[1]] = d[2]

TornDown == \E s \in Session : pc[s] = "tornDown"

\* When uses do not overlap, STOPPED means that no daemon runs and the interface is closed
\* (one that a failed establish dropped from conn is never closed).
QuietStoppedIsDown ==
  Quiet /\ state = STOPPED => live = {} /\ conn = NULL /\ (tunnel = NULL \/ TornDown)

\* The daemon is alive if it came up in session s, and so wrote its pid file.
CameUp(s, task) == pidFile[task] = s => <<task, s>> \in live

\* When uses do not overlap, CONNECTED means that the interface is open, the daemons of its
\* session run that came up when they were started (whether they did is not looked at),
\* and those of no other session, unless startVpn failed, for handleConnection hides that.
QuietConnectedIsUp ==
  Quiet /\ state = CONNECTED =>
    IF conn = NULL THEN TornDown
    ELSE /\ tunnel = conn /\ live \subseteq Task \X {conn}
         /\ \A task \in Task : CameUp(conn, task)

\* CONNECTING and STOPPING are always left, however starts and stops overlap,
\* unless a thread ended silently.
Settles ==
  state \in {CONNECTING, STOPPING} ~>
    state \notin {CONNECTING, STOPPING} \/ \E t \in Thread : pc[t] \in Silent

\* A stopRunner that has begun makes the service STOPPED at some time, unless an
\* exception ends it or the process.
StopReachesStopped ==
  \A t \in Thread : pc[t] = "stop" ~> state = STOPPED \/ pc[t] = "died" \/ crashed

-----------------------------------------------------------------------------
(* Refinement of BaseService                                               *)

\* The phase thread t is in when it is at a step.
PhaseAt(t, step) ==
  CASE step \in Silent                     -> "silent"
    [] step \in StopSteps \ {"stop"}       -> "stopping"
    [] step \in {"unsetConfig", "recheck"} -> "failed"
    [] step \in {"idle"} \cup CallerSteps  -> "rest"
    [] step \in WorkerSteps \ {"unsetConfig", "recheck"} -> "starting"
    [] step = "stop" -> IF t \in Session THEN "starting" ELSE "rest"
    [] OTHER -> "over"

phase == [t \in Thread |-> PhaseAt(t, pc[t])]

BS == INSTANCE BaseService WITH state <- state, looper <- looper, phase <- phase

\* The threads of the runner change the state only as BaseService says.
ImplementsBaseService == BS!StateSpec

=============================================================================
