------------------------- MODULE ReindeerVpnService -------------------------
(***************************************************************************)
(* The life of the service: the clients bound to it, its started flag, its *)
(* expiration and simultaneous-use timers, the CLOSE broadcasts they and   *)
(* the user send.  The runner is taken as BaseService describes it.        *)
(* onCreate, onStartCommand, onDestroy, the receivers and the clients'     *)
(* bind and unbind run on Main, so none of them runs while Main is         *)
(* inside stopRunner.  A thread that startRunner spawned outlives the      *)
(* object: nothing in onDestroy ends it.                                   *)
(***************************************************************************)
EXTENDS BaseService

CONSTANTS Client,     \* connectors that may bind the service
          Users,      \* the users to consider
          Overlap,    \* may a thread enter the runner while another is inside?
          MaxKills    \* bound on kills of the process by the system

ASSUME LifeAssumption ==
  /\ Overlap \in BOOLEAN /\ MaxPosts \in Nat /\ MaxKills \in Nat
  /\ Main \notin Session /\ Binder \notin Session /\ Main # Binder

VARIABLES
  created,    \* the service object exists, with its CLOSE receiver
  started,    \* startService was called and stopSelf was not since
  callbacks,  \* clients with a registered callback; callbackCount is their number
  up,         \* "no", or an interface is established, and the system binds the
              \* service: "held" by conn, or "lost", out of reach of stopRunner
  caller,     \* per session, where the doConnect that calls start is
  orphans,    \* sessions whose thread is in the runner of an object that is gone
  startCmds,  \* onStartCommand calls under way
  timers,     \* the timers that are scheduled
  closing,    \* Main is in the CLOSE receiver
  closeSent,  \* a CLOSE broadcast is under way
  user,       \* the current user, as Tools.getCurrentUser finds it
  kills

svcVars  == <<created, started, callbacks, up, caller, orphans,
              startCmds, timers>>
vars     == <<stateVars, svcVars, closing, closeSent, user, kills>>

\* A user is signed out, a VIP, within the paid time, past it, or has
\* disconnect_when_expire switched off.
User == {"none", "vip", "paid", "lapsed", "kept"}

ASSUME UsersAreKnown == Users \in SUBSET User

TypeOK ==
  /\ StateTypeOK
  /\ created \in BOOLEAN /\ started \in BOOLEAN /\ up \in {"no", "held", "lost"}
  /\ closing \in BOOLEAN /\ closeSent \in BOOLEAN
  /\ callbacks \subseteq Client
  /\ caller \in [Session -> {"idle", "inStart", "returned", "done"}]
  /\ orphans \subseteq Session /\ startCmds \in Nat
  /\ timers \subseteq {"expiration", "simuse"}
  /\ user \in User /\ kills \in 0..MaxKills

Init ==
  /\ StateInit
  /\ created = FALSE /\ started = FALSE /\ up = "no" /\ orphans = {}
  /\ closing = FALSE /\ closeSent = FALSE
  /\ callbacks = {} /\ timers = {} /\ startCmds = 0 /\ kills = 0
  /\ caller = [s \in Session |-> "idle"]
  /\ user \in Users

MainFree == phase[Main] = "rest"
MayEnter ==
  Overlap \/ (InRunner = {} /\ \A s \in Session : caller[s] # "inStart")

-----------------------------------------------------------------------------
(* Clients                                                                 *)

\* bindService creates the service if need be; onServiceConnected registers.
registerCallback(c) ==
  /\ MainFree /\ c \notin callbacks
  /\ created' = TRUE /\ callbacks' = callbacks \cup {c}
  /\ UNCHANGED <<stateVars, started, up, caller, orphans, startCmds, timers, closing,
                 closeSent, user, kills>>

\* The last client to leave stops the service unless it is in use.
unregisterCallback(c) ==
  /\ MainFree /\ c \in callbacks
  /\ callbacks' = callbacks \ {c}
  /\ started' = (started /\ (callbacks' # {} \/ state \in {CONNECTING, CONNECTED}))
  /\ UNCHANGED <<stateVars, created, up, caller, orphans, startCmds, timers, closing,
                 closeSent, user, kills>>

Calls(s, from, to) == caller[s] = from /\ caller' = [caller EXCEPT ![s] = to]

\* bgService.start(config): taken up, or ignored in a transitional state.
start(s) ==
  /\ callbacks # {} /\ MayEnter
  /\ IF state \notin {CONNECTING, STOPPING}
     THEN Calls(s, "idle", "inStart") /\ UNCHANGED stateVars
     ELSE Calls(s, "idle", "returned") /\ Ignored(s)
  /\ UNCHANGED <<created, started, callbacks, up, orphans, startCmds, timers, closing,
                 closeSent, user, kills>>

\* startRunner: CONNECTING is posted, or there is no VPN permission.
startRunner(s) ==
  /\ Calls(s, "inStart", "returned") /\ (Connecting(s) \/ Ignored(s))
  /\ UNCHANGED <<created, started, callbacks, up, orphans, startCmds, timers, closing,
                 closeSent, user, kills>>

\* After start has returned, whatever it did, doConnect calls startService.
startService(s) ==
  /\ Calls(s, "returned", "done")
  /\ started' = TRUE /\ startCmds' = startCmds + 1
  /\ UNCHANGED <<stateVars, created, callbacks, up, orphans, timers, closing, closeSent,
                 user, kills>>

\* The switch is turned off, or the alarm that setProfileFromConfiguration set
\* goes off.
disconnect ==
  /\ ~closeSent /\ closeSent' = TRUE
  /\ UNCHANGED <<stateVars, svcVars, closing, user, kills>>

-----------------------------------------------------------------------------
(* The runner                                                              *)

\* stopRunner: the interface that conn holds is closed; with no callback registered,
\* stopSelf.  The CLOSE receiver stops the timers when stopRunner returns.
Teardown(t) ==
  /\ EndStop(t)
  /\ up' = (IF up = "held" THEN "no" ELSE up) /\ started' = (started /\ callbacks # {})
  /\ timers' = IF t = Main /\ closing THEN {} ELSE timers
  /\ closing' = (closing /\ t # Main)
  /\ UNCHANGED <<created, callbacks, caller, orphans, startCmds, closeSent, user, kills>>

\* The interface takes the place of one that is up.
Establish(s) ==
  /\ phase[s] = "starting" /\ up # "held" /\ up' = "held"
  /\ UNCHANGED <<stateVars, created, started, callbacks, caller, orphans, startCmds, timers,
                 closing, closeSent, user, kills>>

\* Steps of a session that touch only the state.
Progress(s) ==
  /\ Connected(s) \/ Report(s) \/ GoOn(s)
  /\ UNCHANGED <<svcVars, closing, closeSent, user, kills>>

\* A start that failed enters stopRunner.  If it was establish that failed, conn is
\* null by now, and an interface of the session before is lost.
Fails(s) ==
  /\ BeginStop(s) /\ (up' = up \/ (up = "held" /\ up' = "lost"))
  /\ UNCHANGED <<created, started, callbacks, caller, orphans, startCmds, timers,
                 closing, closeSent, user, kills>>

\* The state once Main has run what is posted.
Pending == IF looper = <<>> THEN state ELSE looper[Len(looper)]

\* A thread ends silently when another is in the runner with it, and a start also when
\* a file cannot be written or an app is not installed, before it has posted anything
\* but CONNECTING.  A later revoke finds a binder thread all the same.
Silent(t) ==
  /\ \/ Overlap /\ (EndsSilently(t) \/ Revive(t))
     \/ t \in Session /\ phase[t] = "starting" /\ Pending = CONNECTING /\ EndsSilently(t)
  /\ UNCHANGED <<svcVars, closing, closeSent, user, kills>>

Run == RunPosted /\ UNCHANGED <<svcVars, closing, closeSent, user, kills>>

\* The system has taken the interface down.
onRevoke ==
  /\ up # "no" /\ up' = "no" /\ MayEnter /\ BeginStop(Binder)
  /\ UNCHANGED <<created, started, callbacks, caller, orphans, startCmds, timers,
                 closing, closeSent, user, kills>>

\* The thread of an object that is gone establishes its interface all the same, in a
\* conn that no stopRunner of the next object sees.  The system binds the service, which
\* creates it.
OrphanEstablishes(s) ==
  /\ s \in orphans /\ orphans' = orphans \ {s}
  /\ up' = "lost" /\ created' = TRUE
  /\ UNCHANGED <<stateVars, started, callbacks, caller, startCmds, timers, closing,
                 closeSent, user, kills>>

\* The descriptor of an interface that is lost is garbage; its finalizer closes it.
Finalized ==
  /\ up = "lost" /\ up' = "no"
  /\ UNCHANGED <<stateVars, created, started, callbacks, caller, orphans, startCmds, timers,
                 closing, closeSent, user, kills>>

-----------------------------------------------------------------------------
(* Timers and lifecycle                                                    *)

\* What the expiration timer finds: a user is let be only as a VIP or when the
\* paid time is not over and disconnect_when_expire is on.
needClose(u) == u \notin {"vip", "paid"}

ExpirationRun ==
  /\ "expiration" \in timers /\ needClose(user)
  /\ ~closeSent /\ closeSent' = TRUE
  /\ UNCHANGED <<stateVars, svcVars, closing, user, kills>>

\* The server answers that another device uses the account.
SimuseRun ==
  /\ "simuse" \in timers
  /\ ~closeSent /\ closeSent' = TRUE
  /\ UNCHANGED <<stateVars, svcVars, closing, user, kills>>

\* Mutant: onStartCommand starts the simultaneous-use timer only.
SkipCheckExpiration ==
  /\ MainFree /\ startCmds > 0 /\ startCmds' = startCmds - 1
  /\ created' = TRUE /\ timers' = timers \cup {"simuse"}
  /\ UNCHANGED <<stateVars, started, callbacks, up, caller, orphans, closing,
                 closeSent, user, kills>>

\* A started service is created if need be.  checkExpiration restarts its timer;
\* the other one is restarted if the intent asks for it, and left alone if not.
onStartCommand ==
  /\ MainFree /\ startCmds > 0 /\ startCmds' = startCmds - 1
  /\ created' = TRUE
  /\ \E simuse \in SUBSET {"simuse"} : timers' = timers \cup {"expiration"} \cup simuse
  /\ UNCHANGED <<stateVars, started, callbacks, up, caller, orphans, closing,
                 closeSent, user, kills>>

\* Mutant: the receiver calls stop, which does nothing in a transitional state.
CloseCallsStop ==
  /\ MainFree /\ closeSent /\ closeSent' = FALSE
  /\ IF created /\ state \notin {CONNECTING, STOPPING}
     THEN MayEnter /\ BeginStop(Main) /\ closing' = TRUE
     ELSE UNCHANGED <<stateVars, closing>>
  /\ UNCHANGED <<svcVars, user, kills>>

\* The CLOSE receiver; without a service the broadcast is lost.
CloseReceived ==
  /\ MainFree /\ closeSent /\ closeSent' = FALSE
  /\ IF created THEN MayEnter /\ BeginStop(Main) /\ closing' = TRUE
     ELSE UNCHANGED <<stateVars, closing>>
  /\ UNCHANGED <<svcVars, user, kills>>

\* The next service object begins with its own state.
NewObject ==
  /\ phase' = [t \in Thread |->
                 IF t \in Session /\ caller[t] # "idle" THEN "over" ELSE "rest"]
  /\ Restart

\* Sessions that may yet establish an interface; one that has failed does so only if
\* another has set config again.
Unfinished ==
  {s \in Session : \/ caller[s] = "inStart" \/ phase[s] = "starting"
                   \/ Overlap /\ phase[s] \in {"stopping", "failed"}}

\* Neither started nor bound, the service is destroyed, and its timers stop.  Its threads
\* go on, and post to a state that nobody reads; a start that is under way returns.
onDestroy ==
  /\ MainFree /\ created /\ ~started /\ callbacks = {} /\ up = "no" /\ startCmds = 0
  /\ created' = FALSE /\ timers' = {} /\ NewObject
  /\ orphans' = orphans \cup Unfinished
  /\ caller' = [s \in Session |->
                  IF caller[s] = "inStart" THEN "returned" ELSE caller[s]]
  /\ UNCHANGED <<started, callbacks, up, startCmds, closing, closeSent, user, kills>>

\* The system kills the process.  A started service is sticky: it is created
\* again, with a null intent.
ProcessKilled ==
  /\ kills < MaxKills /\ kills' = kills + 1
  /\ NewObject
  /\ created' = FALSE /\ callbacks' = {} /\ up' = "no" /\ orphans' = {} /\ timers' = {}
  /\ caller' = [s \in Session |-> IF caller[s] = "idle" THEN "idle" ELSE "done"]
  /\ startCmds' = IF started THEN 1 ELSE 0
  /\ closing' = FALSE
  /\ UNCHANGED <<started, closeSent, user>>

\* The user signs in or out, pays, lapses.
UserChanges ==
  /\ user' \in Users \ {user}
  /\ UNCHANGED <<stateVars, svcVars, closing, closeSent, kills>>

Next ==
  \/ \E c \in Client : registerCallback(c) \/ unregisterCallback(c)
  \/ \E s \in Session : \/ start(s) \/ startRunner(s) \/ startService(s)
                        \/ Establish(s) \/ Progress(s) \/ Fails(s) \/ OrphanEstablishes(s)
  \/ \E t \in Thread : Teardown(t) \/ Silent(t)
  \/ disconnect \/ Run \/ onRevoke \/ Finalized \/ ExpirationRun \/ SimuseRun
  \/ onStartCommand \/ CloseReceived \/ onDestroy \/ ProcessKilled \/ UserChanges

Spec == Init /\ [][Next]_vars

\* Threads inside the runner or doConnect go on; Main runs what is queued for it;
\* a scheduled timer fires; broadcasts arrive; the system destroys what nothing
\* holds.  What the user, the network and the clients do is up to them.
Fairness ==
  /\ WF_vars(Run) /\ WF_vars(onStartCommand) /\ WF_vars(CloseReceived)
  /\ WF_vars(ExpirationRun) /\ WF_vars(onDestroy)
  /\ \A t \in Thread : WF_vars(Teardown(t))
  /\ \A s \in Session : /\ WF_vars(startRunner(s)) /\ WF_vars(startService(s))
                        /\ WF_vars((Progress(s) \/ Fails(s)) /\ phase'[s] # phase[s])

FairSpec == Spec /\ Fairness

-----------------------------------------------------------------------------
(* Properties                                                              *)

\* When uses of the runner do not overlap, a session that is CONNECTED or holds an interface,
\* with nothing under way, is watched by the expiration timer, whatever CLOSE, revoke, failure
\* and restart came before.  An interface that is lost is not: the timer of its service object
\* may be gone, and no CLOSE would reach it.
ConnectedIsWatched ==
  /\ state = CONNECTED \/ up = "held"
  /\ looper = <<>> /\ InRunner = {} /\ startCmds = 0
  /\ \A s \in Session : caller[s] \in {"idle", "done"}
  => "expiration" \in timers

\* When uses of the runner do not overlap, the expiration timer ends every session and closes
\* every interface but a lost one, when the user stays one it does not let be.
HeldExpires == ~<>[]((state = CONNECTED \/ up = "held") /\ needClose(user))

\* A CLOSE broadcast closes the interface that conn holds, at whatever point of a start, of a
\* stop or of a revoke it arrives: unlike stop, its receiver does not look at the state.
CloseClosesInterface == closeSent /\ up = "held" ~> up # "held"

\* checkExpiration: "make sure expiration works".  A session does not stay
\* CONNECTED, its interface open, for good when the user is none the timer lets be.
ExpirationWorks == ~<>[](state = CONNECTED /\ up = "held" /\ needClose(user))

\* stopRunner: "stop the service if no callback registered".  A service that is
\* STOPPED and that no client is bound to does not live on for good.
UnusedServiceStops == ~<>[](created /\ callbacks = {} /\ state = STOPPED)

=============================================================================
