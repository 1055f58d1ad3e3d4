------------------------------ MODULE Switcher ------------------------------
(***************************************************************************)
(* The switch of the main screen and what stands between it and the        *)
(* service: SwitcherFragment, VpnConnector.connect, ShadowsocksConnector.  *)
(* The switch learns of the service's state only by UPDATE_STATE           *)
(* broadcasts: those of the service's callback, those the connector sends  *)
(* on its own account, and those of a timer that runs while the fragment   *)
(* is resumed.  The service is taken as BaseService describes it, with     *)
(* starts and stops that may overlap; which root server a connect() asks   *)
(* is in RootIp.  The screen may be recreated at any moment: what was      *)
(* begun on the old one goes on, with the old connector.                   *)
(***************************************************************************)
EXTENDS BaseService

CONSTANTS MaxUpdates,   \* bound on the broadcasts under way
          MaxUses       \* bound on the clicks that turn it on and the new screens

ASSUME SwitcherAssumption ==
  /\ MaxUpdates \in Nat /\ MaxPosts \in Nat /\ MaxUses \in Nat
  /\ Main \notin Session /\ Binder \notin Session /\ Main # Binder

VARIABLES
  bgService,  \* the service is bound and its callback registered
  conn,       \* per click that turns the switch on, where its connect() is
  updates,    \* UPDATE_STATE broadcasts under way, by the state they carry
  checked,    \* the switch shows "on"
  working,    \* the switch shows that it works, and is disabled
  resumed,    \* the fragment is in the foreground and its timer runs
  closeSent,  \* a CLOSE broadcast is under way
  stale,      \* the clicks whose connector belongs to an earlier screen
  profile,    \* the connector of this screen has a profile
  uses        \* clicks that turn it on and new screens so far

screenVars == <<stale, profile, uses>>
switch == <<checked, working>>
uiVars == <<bgService, conn, updates, switch, resumed, closeSent, screenVars>>
vars   == <<stateVars, uiVars>>

Step == {"idle", "prompt", "begin", "fetch", "catch", "prepare", "asking",
         "doConnect", "start", "startRunner"}
End  == {"over", "refused"}

\* A connect() that has called start is over, whatever the runner then does.
TypeOK ==
  /\ StateTypeOK
  /\ bgService \in BOOLEAN /\ checked \in BOOLEAN /\ working \in BOOLEAN
  /\ resumed \in BOOLEAN /\ closeSent \in BOOLEAN
  /\ conn \in [Session -> Step \cup End]
  /\ stale \subseteq Session /\ profile \in BOOLEAN /\ uses \in 0..MaxUses
  /\ updates \in Seq(State)
  /\ \A s \in Session : conn[s] \in Step => phase[s] = "rest"

Init ==
  /\ StateInit
  /\ bgService = FALSE /\ checked = FALSE /\ working = FALSE
  /\ resumed = TRUE /\ closeSent = FALSE
  /\ conn = [s \in Session |-> "idle"]
  /\ updates = <<>>
  /\ stale = {} /\ profile = FALSE /\ uses = 0

MainFree == phase[Main] = "rest"

Goes(s, from, to) == conn[s] = from /\ conn' = [conn EXCEPT ![s] = to]

sendBroadcast(s) == Len(updates) < MaxUpdates /\ updates' = Append(updates, s)

-----------------------------------------------------------------------------
(* The switch                                                              *)

\* ShadowsocksConnector.translateState and SwitcherFragment.stateChanged: LOADING
\* leaves what the switch shows, anything but CONNECTED turns it off.
stateChanged(s) ==
  IF s = CONNECTING THEN working' = TRUE /\ UNCHANGED checked
  ELSE working' = FALSE /\ checked' = (s = CONNECTED)

onReceive ==
  /\ MainFree /\ updates # <<>> /\ updates' = Tail(updates)
  /\ stateChanged(Head(updates))
  /\ UNCHANGED <<stateVars, bgService, conn, resumed, closeSent, screenVars>>

\* The switch is turned on; the first time the user is asked to test the servers.
TurnOn(s) ==
  /\ MainFree /\ ~working /\ ~checked /\ uses < MaxUses /\ uses' = uses + 1
  /\ \A c \in Session : conn[c] # "prompt"
  /\ Goes(s, "idle", "begin") \/ Goes(s, "idle", "prompt")
  /\ UNCHANGED <<stateVars, bgService, updates, switch, resumed, closeSent, stale, profile>>

\* Test later, or test now, in NasFragment.
Prompted(s) ==
  /\ MainFree
  /\ Goes(s, "prompt", "begin") \/ Goes(s, "prompt", "over")
  /\ UNCHANGED <<stateVars, bgService, updates, switch, resumed, closeSent, screenVars>>

\* ShadowsocksConnector.disconnect
disconnect ==
  /\ MainFree /\ ~working /\ checked
  /\ sendBroadcast(CONNECTING) /\ closeSent' = TRUE
  /\ UNCHANGED <<stateVars, bgService, conn, switch, resumed, screenVars>>

\* CLOSE is also sent by the bypass box, the server list, the timers of the
\* service and the expiration alarm.
CloseElsewhere ==
  /\ ~closeSent /\ closeSent' = TRUE
  /\ UNCHANGED <<stateVars, bgService, conn, updates, switch, resumed, screenVars>>

\* Mutant: only CONNECTED is told again.
TellConnectedOnly ==
  /\ MainFree /\ resumed /\ bgService
  /\ state = CONNECTED /\ sendBroadcast(state)
  /\ UNCHANGED <<stateVars, bgService, conn, switch, resumed, closeSent, screenVars>>

\* ShadowsocksConnector.broadcastStatus, by the timer of onResume when no update
\* has come for a second; some may be under way.
broadcastStatus ==
  /\ MainFree /\ resumed /\ bgService
  /\ state \in {CONNECTED, STOPPED} /\ sendBroadcast(state)
  /\ UNCHANGED <<stateVars, bgService, conn, switch, resumed, closeSent, screenVars>>

onPauseOrResume ==
  /\ MainFree /\ resumed' = ~resumed
  /\ UNCHANGED <<stateVars, bgService, conn, updates, switch, closeSent, screenVars>>

onServiceConnected ==
  /\ MainFree /\ ~bgService /\ bgService' = TRUE
  /\ UNCHANGED <<stateVars, conn, updates, switch, resumed, closeSent, screenVars>>

-----------------------------------------------------------------------------
(* VpnConnector.connect                                                    *)

sendBroadcastConnecting(s) ==
  /\ Goes(s, "begin", "fetch") /\ sendBroadcast(CONNECTING)
  /\ UNCHANGED <<stateVars, bgService, switch, resumed, closeSent, screenVars>>

\* 200, which gives the connector its profile, or an exception.
getConfiguration(s) ==
  /\ \/ Goes(s, "fetch", "prepare") /\ profile' = (profile \/ s \notin stale)
     \/ Goes(s, "fetch", "catch") /\ UNCHANGED profile
  /\ UNCHANGED <<stateVars, bgService, updates, switch, resumed, closeSent, stale, uses>>

\* Mutant: connect() ends without telling the switch.
EndUntold(s) ==
  /\ Goes(s, "fetch", "over") \/ Goes(s, "catch", "over")
  /\ UNCHANGED <<stateVars, bgService, updates, switch, resumed, closeSent, screenVars>>

\* 402 and 403, or an exception and no other root server.
sendBroadcastUnusable(s) ==
  /\ Goes(s, "fetch", "over") \/ Goes(s, "catch", "over")
  /\ sendBroadcast(INIT)
  /\ UNCHANGED <<stateVars, bgService, switch, resumed, closeSent, screenVars>>

\* checkDns has found another root server: connect() again.
Retry(s) ==
  /\ MainFree /\ Goes(s, "catch", "begin")
  /\ UNCHANGED <<stateVars, bgService, updates, switch, resumed, closeSent, screenVars>>

-----------------------------------------------------------------------------
(* ShadowsocksConnector.doConnect                                          *)

\* connectProfile: the system asks the user, or has done so before.
connectProfile(s) ==
  /\ Goes(s, "prepare", "doConnect") \/ Goes(s, "prepare", "asking")
  /\ UNCHANGED <<stateVars, bgService, updates, switch, resumed, closeSent, screenVars>>

\* Mutant: without a service the exception is not caught.
UncaughtDoConnect(s) ==
  /\ Goes(s, "doConnect", IF bgService /\ s \notin stale THEN "start" ELSE "over")
  /\ sendBroadcast(CONNECTING)
  /\ UNCHANGED <<stateVars, bgService, switch, resumed, closeSent, screenVars>>

\* Called by the thread of connect(): without a service the exception is caught.
doConnect(s) ==
  /\ Goes(s, "doConnect", IF bgService /\ s \notin stale THEN "start" ELSE "catch")
  /\ sendBroadcast(CONNECTING)
  /\ UNCHANGED <<stateVars, bgService, switch, resumed, closeSent, screenVars>>

Accepts == state \notin {CONNECTING, STOPPING}

start(s) ==
  /\ IF Accepts THEN Goes(s, "start", "startRunner") /\ UNCHANGED stateVars
     ELSE Goes(s, "start", "over") /\ Ignored(s)
  /\ UNCHANGED <<bgService, updates, switch, resumed, closeSent, screenVars>>

\* Mutant: what fails after start is taken for a failure of the root server.
CatchAfterStart(s) ==
  /\ \/ Connecting(s) /\ Goes(s, "startRunner", "catch")
     \/ Ignored(s) /\ Goes(s, "startRunner", "refused")
  /\ UNCHANGED <<bgService, updates, switch, resumed, closeSent, screenVars>>

\* startRunner posts CONNECTING, or finds the permission gone.
startRunner(s) ==
  /\ \/ Connecting(s) /\ Goes(s, "startRunner", "over")
     \/ Ignored(s) /\ Goes(s, "startRunner", "refused")
  /\ UNCHANGED <<bgService, updates, switch, resumed, closeSent, screenVars>>

\* onActivityResult of the screen that is there now: consent leads to doConnect on
\* Main, with nothing between its steps; a refusal is not told to anyone.
onActivityResult(s) ==
  /\ MainFree
  /\ \/ /\ bgService /\ profile /\ Goes(s, "asking", "over") /\ sendBroadcast(CONNECTING)
        /\ IF Accepts THEN Connecting(s) ELSE Ignored(s)
     \/ Goes(s, "asking", "refused") /\ UNCHANGED <<stateVars, updates>>
  /\ UNCHANGED <<bgService, switch, resumed, closeSent, screenVars>>

\* The next service object, and the threads in the runner of the old one.
NewObject ==
  /\ phase' = [t \in Thread |->
                 IF t \in Session /\ phase[t] # "rest" THEN "over" ELSE "rest"]
  /\ Restart

Dismiss(steps) ==
  conn' = [s \in Session |-> IF conn[s] \in steps THEN "over" ELSE conn[s]]

\* A new fragment, with a new connector; the broadcasts under way went to the old.
NewScreen ==
  /\ bgService' = FALSE /\ profile' = FALSE /\ resumed' = TRUE
  /\ checked' = FALSE /\ working' = FALSE /\ updates' = <<>>

\* Consent without a profile or a service: the exception on Main ends the process,
\* and the user opens the app again.
NullPointer ==
  /\ MainFree /\ ~(bgService /\ profile)
  /\ \E s \in Session : conn[s] = "asking"
  /\ NewObject /\ Dismiss(Step \ {"idle"}) /\ NewScreen
  /\ closeSent' = FALSE /\ stale' = {}
  /\ UNCHANGED uses

\* The activity is recreated, or left and opened again.  The old fragment unbinds
\* the service, which lives on if it was started; its connect() threads go on with
\* its connector.
Recreate ==
  /\ MainFree /\ uses < MaxUses /\ uses' = uses + 1
  /\ \/ UNCHANGED stateVars /\ Dismiss({"prompt"})
     \/ state # CONNECTED /\ NewObject /\ Dismiss({"prompt", "start", "startRunner"})
  /\ NewScreen
  /\ stale' = {s \in Session : conn'[s] \in Step \ {"idle", "asking"}}
  /\ UNCHANGED closeSent

-----------------------------------------------------------------------------
(* The service                                                             *)

\* Mutant: the service counts a single callback as none.
RunUntold == RunPosted /\ UNCHANGED uiVars

\* The Runnable of changeState tells the callback, which sends the broadcast.
Run ==
  /\ RunPosted
  /\ IF Head(looper) # state /\ bgService THEN sendBroadcast(Head(looper))
     ELSE UNCHANGED updates
  /\ UNCHANGED <<bgService, conn, switch, resumed, closeSent, screenVars>>

Progress(s) ==
  /\ Connected(s) \/ Report(s) \/ BeginStop(s) \/ GoOn(s)
  /\ UNCHANGED uiVars

Teardown(t) == EndStop(t) /\ UNCHANGED uiVars

Silent(s) == EndsSilently(s) /\ UNCHANGED uiVars

\* The service is there: it is bound, or in use since an earlier screen.
created == bgService \/ state # INIT \/ looper # <<>>

\* The CLOSE receiver of the service; without a service the broadcast is lost.
CloseReceived ==
  /\ MainFree /\ closeSent /\ closeSent' = FALSE
  /\ IF created THEN BeginStop(Main) ELSE UNCHANGED stateVars
  /\ UNCHANGED <<bgService, conn, updates, switch, resumed, screenVars>>

Next ==
  \/ \E s \in Session :
       \/ TurnOn(s) \/ Prompted(s) \/ sendBroadcastConnecting(s) \/ getConfiguration(s)
       \/ sendBroadcastUnusable(s) \/ Retry(s) \/ connectProfile(s) \/ doConnect(s)
       \/ start(s) \/ startRunner(s) \/ onActivityResult(s) \/ Progress(s) \/ Silent(s)
  \/ \E t \in Session \cup {Main} : Teardown(t)
  \/ disconnect \/ CloseElsewhere \/ onReceive \/ broadcastStatus \/ onPauseOrResume
  \/ onServiceConnected \/ Run \/ CloseReceived \/ NullPointer \/ Recreate

Spec == Init /\ [][Next]_vars

\* Waiting for the root server, or for the page that checkDns reads: Api.get sets a
\* timeout for the connection and none for the answer.
Requests == {"fetch", "catch"}

\* Threads go on, Main runs what is queued for it, broadcasts arrive and, when no
\* update comes, the timer fires.  A request may never be answered; what the user does
\* is up to the user.  A chain retries finitely often, which RootIp shows (RetriesEnd).
\* Fairness is strong where a step waits for room under MaxUpdates or MaxPosts, for in
\* the code the queues have no bound and nothing waits, and where it waits for Main,
\* whose queue is first in, first out: CLOSE after CLOSE delays what is queued there
\* and cannot stop it.
Fairness ==
  /\ SF_vars(onReceive \/ onServiceConnected) /\ SF_vars(Run) /\ SF_vars(CloseReceived)
  /\ WF_vars(updates = <<>> /\ broadcastStatus)
  /\ WF_vars(Teardown(Main))
  /\ \A s \in Session :
       /\ SF_vars(\/ sendBroadcastConnecting(s) \/ connectProfile(s) \/ doConnect(s)
                  \/ start(s) \/ startRunner(s) \/ Teardown(s)
                  \/ Progress(s) /\ phase'[s] # phase[s])
       /\ <>[][~Retry(s)]_vars

FairSpec == Spec /\ Fairness

-----------------------------------------------------------------------------
(* Properties                                                              *)

\* SwitcherFragment.stateChanged: with every broadcast delivered, the switch is
\* not left on for a service that is stopping or has stopped, whatever updates
\* the service, the connector and the timer have mixed.
OnIsTrue == checked /\ updates = <<>> => state \in {CONNECTING, CONNECTED}

\* With every broadcast delivered the switch is disabled only while a connect() is on
\* its way, or the user or the system has withheld the permission, or the service has
\* run: each way out of VpnConnector.connect and ShadowsocksConnector.doConnect tells
\* the switch, or leaves it to the service, of whatever screen it was begun on.
WorkingIsOwed ==
  working /\ updates = <<>> =>
    \/ state # INIT \/ looper # <<>>
    \/ \E s \in Session : conn[s] \in (Step \ {"idle", "prompt"}) \cup {"refused"}

\* Whatever a failed connect() or an ignored one has told the switch, while the
\* service stays CONNECTED, or STOPPED, and the fragment in the foreground, the
\* switch comes to show it and to be enabled.
SwitchFollows ==
  /\ <>[](resumed /\ state = CONNECTED) => <>[](checked /\ ~working)
  /\ <>[](resumed /\ state = STOPPED) => <>[](~checked /\ ~working)

\* In the foreground the switch does not stay disabled for good, unless the
\* service stays on its way, or has never run and the user has not given the
\* permission, the system has taken it back, or one request is never answered.
WorkingEnds ==
  <>[](resumed /\ working) =>
     \/ <>[](state \in {CONNECTING, STOPPING})
     \/ <>[](state = INIT /\ \E s \in Session : conn[s] \in {"asking", "refused"})
     \/ \E s \in Session : <>[](state = INIT /\ conn[s] \in Requests)

=============================================================================
