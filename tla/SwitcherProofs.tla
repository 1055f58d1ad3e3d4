--------------------------- MODULE SwitcherProofs ---------------------------
(***************************************************************************)
(* Proofs about Switcher, for any number of clicks and any bounds.         *)
(***************************************************************************)
EXTENDS Switcher, TLAPS

\* What the switch will show once the broadcasts u are delivered, if it shows c now:
\* the last one that is not LOADING decides.
WillBeOn(u, c) ==
  \/ c /\ \A j \in 1..Len(u) : u[j] = CONNECTING
  \/ \E i \in 1..Len(u) :
       u[i] = CONNECTED /\ \A j \in 1..Len(u) : j > i => u[j] = CONNECTING

\* Only a bound service turns the switch on, and only as its state says.
OnInv ==
  WillBeOn(updates, checked) => bgService /\ state \in {CONNECTING, CONNECTED}

\* TypeOK in parts.
Flags ==
  /\ bgService \in BOOLEAN /\ checked \in BOOLEAN /\ working \in BOOLEAN
  /\ resumed \in BOOLEAN /\ closeSent \in BOOLEAN
Tied ==
  /\ conn \in [Session -> Step \cup End]
  /\ \A s \in Session : conn[s] \in Step => phase[s] = "rest"
SwitchType == StateTypeOK /\ Flags /\ Tied /\ updates \in Seq(State)
ScreenType == stale \subseteq Session /\ profile \in BOOLEAN /\ uses \in 0..MaxUses

Inv == SwitchType /\ ScreenType /\ OnInv

LEMMA InvType == Inv => TypeOK
BY DEF Inv, SwitchType, Flags, Tied, ScreenType, TypeOK

LEMMA SameScreen == ASSUME ScreenType, UNCHANGED screenVars PROVE ScreenType'
BY DEF ScreenType, screenVars

-----------------------------------------------------------------------------
(* WillBeOn and the two ends of the queue                                  *)

\* LOADING at the end changes nothing, CONNECTED turns on, anything else off.
LEMMA AppendOn ==
  ASSUME NEW u \in Seq(State), NEW c \in BOOLEAN, NEW s \in State
  PROVE  WillBeOn(Append(u, s), c) =>
           s = CONNECTED \/ (s = CONNECTING /\ WillBeOn(u, c))
<1>1. Len(Append(u, s)) = Len(u) + 1 /\ Append(u, s)[Len(u) + 1] = s /\ Len(u) \in Nat
  OBVIOUS
<1>2. \A j \in 1..Len(u) : Append(u, s)[j] = u[j]
  OBVIOUS
<1> HAVE WillBeOn(Append(u, s), c)
<1>3. CASE c /\ \A j \in 1..Len(Append(u, s)) : Append(u, s)[j] = CONNECTING
  BY <1>1, <1>2, <1>3 DEF WillBeOn
<1>4. CASE \E i \in 1..Len(Append(u, s)) :
             /\ Append(u, s)[i] = CONNECTED
             /\ \A j \in 1..Len(Append(u, s)) : j > i => Append(u, s)[j] = CONNECTING
  <2> PICK i \in 1..Len(u) + 1 :
             /\ Append(u, s)[i] = CONNECTED
             /\ \A j \in 1..Len(u) + 1 : j > i => Append(u, s)[j] = CONNECTING
    BY <1>1, <1>4
  <2>1. CASE i = Len(u) + 1
    BY <1>1, <2>1
  <2>2. CASE i \in 1..Len(u)
    <3>1. s = CONNECTING
      BY <1>1, <2>2
    <3>2. u[i] = CONNECTED /\ \A j \in 1..Len(u) : j > i => u[j] = CONNECTING
      BY <1>1, <1>2, <2>2
    <3> QED BY <2>2, <3>1, <3>2 DEF WillBeOn
  <2> QED BY <1>1, <2>1, <2>2
<1> QED BY <1>3, <1>4 DEF WillBeOn

\* SwitcherFragment.stateChanged keeps what the queue will lead to.
LEMMA DeliverOn ==
  ASSUME NEW u \in Seq(State), u # <<>>, NEW c \in BOOLEAN
  PROVE  WillBeOn(Tail(u), IF Head(u) = CONNECTING THEN c ELSE Head(u) = CONNECTED)
           => WillBeOn(u, c)
<1> DEFINE d == IF Head(u) = CONNECTING THEN c ELSE Head(u) = CONNECTED
<1>1. /\ Len(u) \in Nat /\ Len(u) > 0 /\ Head(u) = u[1] /\ Len(Tail(u)) = Len(u) - 1
      /\ \A j \in 1..Len(u) - 1 : Tail(u)[j] = u[j + 1]
  <2>1. Len(u) \in Nat /\ Len(u) # 0
    OBVIOUS
  <2>2. Head(u) = u[1] /\ Len(Tail(u)) = Len(u) - 1
    BY <2>1
  <2>3. \A j \in 1..Len(u) - 1 : Tail(u)[j] = u[j + 1]
    BY <2>1
  <2> QED BY <2>1, <2>2, <2>3
<1>2. \A j \in 1..Len(u) : j = 1 \/ (j - 1 \in 1..Len(u) - 1 /\ u[j] = Tail(u)[j - 1])
  BY <1>1
<1> HAVE WillBeOn(Tail(u), d)
<1>3. CASE d /\ \A j \in 1..Len(Tail(u)) : Tail(u)[j] = CONNECTING
  <2>1. \A j \in 1..Len(u) : j > 1 => u[j] = CONNECTING
    <3>1. \A j \in 1..Len(u) - 1 : Tail(u)[j] = CONNECTING
      BY <1>1, <1>3
    <3> TAKE j \in 1..Len(u)
    <3> HAVE j > 1
    <3>2. j - 1 \in 1..Len(u) - 1 /\ u[j] = Tail(u)[j - 1]
      BY <1>2
    <3> QED BY <3>1, <3>2
  <2>2. CASE u[1] = CONNECTING
    BY <1>1, <1>3, <2>1, <2>2 DEF WillBeOn
  <2>3. CASE u[1] # CONNECTING
    <3>1. u[1] = CONNECTED /\ 1 \in 1..Len(u)
      BY <1>1, <1>3, <2>3
    <3> QED BY <2>1, <3>1 DEF WillBeOn
  <2> QED BY <2>2, <2>3
<1>4. CASE \E i \in 1..Len(Tail(u)) :
             /\ Tail(u)[i] = CONNECTED
             /\ \A j \in 1..Len(Tail(u)) : j > i => Tail(u)[j] = CONNECTING
  <2> PICK i \in 1..Len(u) - 1 :
             /\ Tail(u)[i] = CONNECTED
             /\ \A j \in 1..Len(u) - 1 : j > i => Tail(u)[j] = CONNECTING
    BY ZenonT(60), <1>1, <1>4
  <2>1. i + 1 \in 1..Len(u) /\ u[i + 1] = CONNECTED
    BY <1>1
  <2>2. \A j \in 1..Len(u) : j > i + 1 => u[j] = CONNECTING
    BY <1>1, <1>2
  <2> QED BY <2>1, <2>2 DEF WillBeOn
<1> QED BY <1>3, <1>4 DEF WillBeOn

\* An empty queue: the switch shows what it shows.
LEMMA EmptyOn == ASSUME NEW c \in BOOLEAN PROVE WillBeOn(<<>>, c) <=> c
BY DEF WillBeOn

-----------------------------------------------------------------------------
(* The invariant                                                           *)

LEMMA InitInv == Init => Inv
<1> SUFFICES ASSUME Init PROVE Inv
  OBVIOUS
<1>1. SwitchType
  <2>1. StateTypeOK
    BY DEF Init, StateInit, StateTypeOK, State, Phase
  <2>2. Flags
    BY DEF Init, Flags
  <2>3. Tied
    BY DEF Init, StateInit, Tied, Thread, Step, End
  <2>4. updates \in Seq(State)
    BY DEF Init
  <2> QED BY <2>1, <2>2, <2>3, <2>4 DEF SwitchType
<1>2. OnInv
  BY EmptyOn DEF Init, OnInv
<1>3. ScreenType
  <2>1. uses \in 0..MaxUses
    BY SwitcherAssumption DEF Init
  <2> QED BY <2>1 DEF Init, ScreenType
<1> QED BY <1>1, <1>2, <1>3 DEF Inv

\* A step that leaves the switch, its broadcasts and the state alone keeps OnInv.
LEMMA QuietStep ==
  ASSUME OnInv, UNCHANGED <<updates, checked, state>>, bgService => bgService'
  PROVE  OnInv'
BY DEF OnInv

\* A step that sends s keeps OnInv, if the service is then as s says.
LEMMA SendStep ==
  ASSUME SwitchType, OnInv, NEW s \in State, sendBroadcast(s), UNCHANGED checked,
         bgService => bgService', s = CONNECTED => bgService' /\ state' = CONNECTED,
         s = CONNECTING => state' = state \/ state' = CONNECTING
  PROVE  OnInv'
<1>1. updates \in Seq(State) /\ checked \in BOOLEAN /\ updates' = Append(updates, s)
  BY DEF SwitchType, Flags, sendBroadcast
<1>2. WillBeOn(updates', checked) => s = CONNECTED \/ (s = CONNECTING /\ WillBeOn(updates, checked))
  BY <1>1, AppendOn
<1> QED BY <1>2 DEF OnInv

LEMMA RunOn == ASSUME SwitchType, OnInv, Run PROVE OnInv'
<1>1. looper # <<>> /\ state' = Head(looper) /\ Head(looper) \in State
      /\ UNCHANGED <<checked, bgService>>
  BY DEF Run, RunPosted, SwitchType, StateTypeOK, switch
<1>2. CASE Head(looper) # state /\ bgService
  <2>1. sendBroadcast(Head(looper))
    BY <1>1, <1>2 DEF Run
  <2> QED BY <1>1, <1>2, <2>1, SendStep
<1>3. CASE Head(looper) = state
  BY <1>1, <1>3, QuietStep DEF Run
<1>4. CASE ~bgService
  BY <1>1, <1>4 DEF Run, OnInv
<1> QED BY <1>2, <1>3, <1>4

LEMMA ReceiveOn == ASSUME SwitchType, OnInv, onReceive PROVE OnInv'
<1>1. /\ updates \in Seq(State) /\ updates # <<>> /\ checked \in BOOLEAN
      /\ updates' = Tail(updates) /\ state' = state /\ bgService' = bgService
  BY DEF SwitchType, Flags, onReceive, stateVars
<1>2. checked' = IF Head(updates) = CONNECTING THEN checked ELSE Head(updates) = CONNECTED
  BY DEF onReceive, stateChanged
<1>3. WillBeOn(updates', checked') => WillBeOn(updates, checked)
  BY <1>1, <1>2, DeliverOn
<1> QED BY <1>1, <1>3 DEF OnInv

\* The steps of connect() that tell nobody.
LEMMA ConnStep ==
  ASSUME Inv, NEW s \in Session,
         TurnOn(s) \/ Prompted(s) \/ getConfiguration(s) \/ Retry(s) \/ connectProfile(s)
  PROVE  Inv'
<1>1. /\ UNCHANGED <<stateVars, bgService, updates, switch, resumed, closeSent>>
      /\ conn[s] \in Step
      /\ \E to \in Step \cup End : conn' = [conn EXCEPT ![s] = to]
  BY DEF TurnOn, Prompted, getConfiguration, Retry, connectProfile, Goes, Step, End
<1>2. ScreenType'
  <2>1. CASE TurnOn(s)
    BY <2>1, SwitcherAssumption DEF TurnOn, Inv, ScreenType
  <2>2. CASE getConfiguration(s)
    BY <2>2 DEF getConfiguration, Inv, ScreenType
  <2>3. CASE Prompted(s) \/ Retry(s) \/ connectProfile(s)
    BY <2>3 DEF Prompted, Retry, connectProfile, screenVars, Inv, ScreenType
  <2> QED BY <2>1, <2>2, <2>3
<1>3. SwitchType'
  <2>1. StateTypeOK' /\ Flags' /\ updates' \in Seq(State)
    BY <1>1 DEF Inv, SwitchType, StateTypeOK, Flags, stateVars, switch
  <2>2. Tied'
    BY <1>1 DEF Inv, SwitchType, Tied, stateVars
  <2> QED BY <2>1, <2>2 DEF SwitchType
<1>4. OnInv'
  BY <1>1, QuietStep DEF Inv, stateVars, switch
<1> QED BY <1>2, <1>3, <1>4 DEF Inv

\* The steps of connect() that tell the switch.
LEMMA TellStep ==
  ASSUME Inv, NEW s \in Session,
         sendBroadcastConnecting(s) \/ sendBroadcastUnusable(s) \/ doConnect(s)
  PROVE  Inv'
<1>1. PICK m \in {CONNECTING, INIT}, to \in Step \cup End :
         /\ UNCHANGED <<stateVars, bgService, switch, resumed, closeSent, screenVars>>
         /\ conn[s] \in Step /\ conn' = [conn EXCEPT ![s] = to]
         /\ sendBroadcast(m)
  BY DEF sendBroadcastConnecting, sendBroadcastUnusable, doConnect, Goes, Step, End
<1>2. m \in State /\ m # CONNECTED
  BY DEF State, CONNECTING, INIT, CONNECTED
<1>3. SwitchType'
  <2>1. StateTypeOK' /\ Flags'
    BY <1>1 DEF Inv, SwitchType, StateTypeOK, Flags, stateVars, switch
  <2>2. Tied'
    BY <1>1 DEF Inv, SwitchType, Tied, stateVars
  <2>3. updates' \in Seq(State)
    BY <1>1, <1>2 DEF Inv, SwitchType, sendBroadcast
  <2> QED BY <2>1, <2>2, <2>3 DEF SwitchType
<1>4. OnInv'
  BY <1>1, <1>2, SendStep DEF Inv, stateVars, switch
<1> QED BY <1>1, <1>3, <1>4, SameScreen DEF Inv

\* Thread t moves in the runner and may post one Runnable.
Moves(t, to, posts) ==
  /\ phase' = [phase EXCEPT ![t] = to] /\ to \in Phase
  /\ state' = state /\ (looper' = looper \/ \E m \in posts : looper' = Append(looper, m))

LEMMA MovesType ==
  ASSUME StateTypeOK, NEW t \in Thread, NEW to, Moves(t, to, State)
  PROVE  StateTypeOK'
BY DEF StateTypeOK, Moves

\* start, and what it does when it posts CONNECTING.
LEMMA StartStep ==
  ASSUME Inv, NEW s \in Session, start(s) \/ startRunner(s) \/ onActivityResult(s)
  PROVE  Inv'
<1>1. /\ UNCHANGED <<bgService, switch, resumed, closeSent, screenVars>>
      /\ \E to \in {"startRunner", "over", "refused"} : conn' = [conn EXCEPT ![s] = to]
      /\ state' = state /\ conn[s] \in Step
  BY DEF start, startRunner, onActivityResult, Goes, Connecting, Ignored, changeState,
         lastWord, Quietly, stateVars, Step
<1>2. updates' = updates \/ sendBroadcast(CONNECTING)
  BY DEF start, startRunner, onActivityResult
<1>3. \/ phase' = phase /\ looper' = looper
      \/ Moves(s, "over", {}) \/ Moves(s, "starting", State)
  BY DEF start, startRunner, onActivityResult, Connecting, Ignored, Quietly, Passes,
         changeState, lastWord, Moves, Phase, stateVars, State
<1>4. conn'[s] \in Step => phase' = phase
  BY DEF start, startRunner, onActivityResult, Goes, Step, Inv, SwitchType, Tied, stateVars
<1>5. SwitchType'
  <2>1. s \in Thread
    BY DEF Thread
  <2>2. \/ phase' = phase /\ looper' = looper
        \/ \E to \in Phase : Moves(s, to, State)
    BY <1>3 DEF Moves, Phase
  <2>3. StateTypeOK'
    BY <1>1, <2>1, <2>2, MovesType DEF Inv, SwitchType, StateTypeOK
  <2>4. Flags'
    BY <1>1 DEF Inv, SwitchType, Flags, switch
  <2>5. \A u \in Session : u # s => phase'[u] = phase[u]
    BY <2>1, <2>2 DEF Inv, SwitchType, StateTypeOK, Moves, Thread
  <2>6. Tied'
    <3>1. conn' \in [Session -> Step \cup End] /\ \A u \in Session : u # s => conn'[u] = conn[u]
      BY <1>1 DEF Inv, SwitchType, Tied, Step, End
    <3>2. conn'[s] \in Step => phase'[s] = "rest"
      BY <1>1, <1>4 DEF Inv, SwitchType, Tied
    <3> QED BY <2>5, <3>1, <3>2 DEF Inv, SwitchType, Tied
  <2>7. updates' \in Seq(State)
    BY <1>2 DEF Inv, SwitchType, sendBroadcast, State
  <2> QED BY <2>3, <2>4, <2>6, <2>7 DEF SwitchType
<1>6. OnInv'
  BY <1>1, <1>2, QuietStep, SendStep DEF Inv, switch, State, CONNECTING, CONNECTED
<1> QED BY <1>1, <1>5, <1>6, SameScreen DEF Inv

\* A thread moves in the runner; the switch learns of it only by the Runnables.
LEMMA InsideStep ==
  ASSUME Inv, NEW t \in Thread, NEW to,
         phase[t] \notin {"rest", "over"}, Moves(t, to, State), UNCHANGED uiVars
  PROVE  Inv'
<1>1. SwitchType'
  <2>1. StateTypeOK'
    BY MovesType DEF Inv, SwitchType
  <2>2. Flags' /\ updates' \in Seq(State)
    BY DEF Inv, SwitchType, Flags, uiVars, switch
  <2>3. Tied'
    BY DEF Inv, SwitchType, StateTypeOK, Tied, Moves, uiVars, Thread
  <2> QED BY <2>1, <2>2, <2>3 DEF SwitchType
<1>2. OnInv'
  BY QuietStep DEF Inv, Moves, uiVars, switch
<1> QED BY <1>1, <1>2, SameScreen DEF Inv, uiVars

LEMMA WorkerStep ==
  ASSUME Inv, NEW s \in Session, Progress(s) \/ Silent(s)
  PROVE  Inv'
<1>1. UNCHANGED uiVars /\ phase[s] \notin {"rest", "over"} /\ s \in Thread
  BY DEF Progress, Silent, Connected, Report, BeginStop, GoOn, EndsSilently, Passes,
         Quietly, Thread
<1>2. \E to \in Phase : Moves(s, to, State)
  BY DEF Progress, Silent, Connected, Report, BeginStop, GoOn, EndsSilently, Passes,
         Quietly, changeState, lastWord, Moves, Phase, State
<1> QED BY <1>1, <1>2, InsideStep

LEMMA TeardownStep ==
  ASSUME Inv, NEW t \in Session \cup {Main}, Teardown(t)
  PROVE  Inv'
<1>1. UNCHANGED uiVars /\ phase[t] \notin {"rest", "over"} /\ t \in Thread
  BY DEF Teardown, EndStop, Passes, Thread
<1>2. \E to \in Phase : Moves(t, to, State)
  BY DEF Teardown, EndStop, Passes, lastWord, Moves, Phase, State
<1> QED BY <1>1, <1>2, InsideStep

\* What happens on the screen.
LEMMA ScreenStep ==
  ASSUME Inv,
         disconnect \/ CloseElsewhere \/ broadcastStatus \/ onPauseOrResume
           \/ onServiceConnected
  PROVE  Inv'
<1>1. /\ UNCHANGED <<stateVars, conn, switch, screenVars>>
      /\ bgService' = bgService \/ bgService' = TRUE
  BY DEF disconnect, CloseElsewhere, broadcastStatus, onPauseOrResume, onServiceConnected
<1>2. resumed' \in BOOLEAN /\ closeSent' \in BOOLEAN
  BY DEF disconnect, CloseElsewhere, broadcastStatus, onPauseOrResume, onServiceConnected,
         Inv, SwitchType, Flags
<1>3. \/ updates' = updates
      \/ \E m \in State :
           sendBroadcast(m) /\ (m = CONNECTED => state = CONNECTED /\ bgService)
  BY DEF disconnect, CloseElsewhere, broadcastStatus, onPauseOrResume, onServiceConnected,
         State, CONNECTING, CONNECTED
<1>4. SwitchType'
  <2>1. StateTypeOK' /\ Tied'
    BY <1>1 DEF Inv, SwitchType, StateTypeOK, Tied, stateVars
  <2>2. Flags'
    BY <1>1, <1>2 DEF Inv, SwitchType, Flags, switch
  <2>3. updates' \in Seq(State)
    BY <1>3 DEF Inv, SwitchType, sendBroadcast
  <2> QED BY <2>1, <2>2, <2>3 DEF SwitchType
<1>5. OnInv'
  BY <1>1, <1>3, QuietStep, SendStep DEF Inv, stateVars, switch
<1> QED BY <1>1, <1>4, <1>5, SameScreen DEF Inv

\* What Main does for the switch and for the service.
LEMMA MainStep ==
  ASSUME Inv, onReceive \/ Run \/ CloseReceived
  PROVE  Inv'
<1>1. CASE onReceive
  <2>1. SwitchType'
    <3>1. StateTypeOK' /\ Tied'
      BY <1>1 DEF onReceive, Inv, SwitchType, StateTypeOK, Tied, stateVars
    <3>2. working' \in BOOLEAN /\ checked' \in BOOLEAN
      BY <1>1 DEF onReceive, stateChanged, Inv, SwitchType, Flags
    <3>3. Flags'
      BY <1>1, <3>2 DEF onReceive, Inv, SwitchType, Flags
    <3>4. updates' \in Seq(State)
      BY <1>1 DEF onReceive, Inv, SwitchType
    <3> QED BY <3>1, <3>3, <3>4 DEF SwitchType
  <2>2. UNCHANGED screenVars
    BY <1>1 DEF onReceive
  <2> QED BY <1>1, <2>1, <2>2, ReceiveOn, SameScreen DEF Inv
<1>2. CASE Run
  <2>1. SwitchType'
    <3>1. looper \in Seq(State) /\ looper # <<>> /\ updates \in Seq(State)
      BY <1>2 DEF Run, RunPosted, Inv, SwitchType, StateTypeOK
    <3>2. Head(looper) \in State /\ Tail(looper) \in Seq(State)
      BY <3>1
    <3>3. StateTypeOK'
      BY <1>2, <3>2 DEF Run, RunPosted, Inv, SwitchType, StateTypeOK
    <3>4. Tied'
      BY <1>2 DEF Run, RunPosted, Inv, SwitchType, Tied
    <3>5. Flags'
      BY <1>2 DEF Run, Inv, SwitchType, Flags, switch
    <3>6. updates' = updates \/ updates' = Append(updates, Head(looper))
      BY <1>2 DEF Run, sendBroadcast
    <3>7. updates' \in Seq(State)
      BY <3>1, <3>2, <3>6
    <3> QED BY <3>3, <3>4, <3>5, <3>7 DEF SwitchType
  <2>2. UNCHANGED screenVars
    BY <1>2 DEF Run
  <2> QED BY <1>2, <2>1, <2>2, RunOn, SameScreen DEF Inv
<1>3. CASE CloseReceived
  <2>1. /\ UNCHANGED <<state, bgService, conn, updates, switch, resumed, screenVars>>
        /\ closeSent' = FALSE
        /\ \/ phase' = phase /\ looper' = looper
           \/ Moves(Main, "stopping", State)
    BY <1>3 DEF CloseReceived, BeginStop, Passes, changeState, lastWord, Moves, Phase, State,
                stateVars
  <2>2. SwitchType'
    <3>1. Main \in Thread /\ Main \notin Session
      BY SwitcherAssumption DEF Thread
    <3>2. StateTypeOK'
      BY <2>1, <3>1, MovesType DEF Inv, SwitchType, StateTypeOK
    <3>3. \A u \in Session : phase'[u] = phase[u]
      BY <2>1, <3>1 DEF Inv, SwitchType, StateTypeOK, Moves, Thread
    <3>4. Tied' /\ updates' \in Seq(State)
      BY <2>1, <3>3 DEF Inv, SwitchType, Tied
    <3>5. Flags'
      BY <2>1 DEF Inv, SwitchType, Flags, switch
    <3> QED BY <3>2, <3>4, <3>5 DEF SwitchType
  <2>3. OnInv'
    BY <2>1, QuietStep DEF Inv, switch
  <2> QED BY <2>1, <2>2, <2>3, SameScreen DEF Inv
<1> QED BY <1>1, <1>2, <1>3

\* A new screen shows "off" and has no broadcast under way; its service object is
\* the old one or a new one.
LEMMA NewScreenStep ==
  ASSUME Inv, NullPointer \/ Recreate
  PROVE  Inv'
<1>1. NewScreen
  BY DEF NullPointer, Recreate
<1>2. UNCHANGED stateVars \/ NewObject
  BY DEF NullPointer, Recreate
<1>3. StateTypeOK'
  <2>1. CASE UNCHANGED stateVars
    BY <2>1 DEF Inv, SwitchType, StateTypeOK, stateVars
  <2>2. CASE NewObject
    <3>1. looper' = <<>> /\ looper' \in Seq(State)
      BY <2>2 DEF NewObject, Restart
    <3>2. state' \in State /\ phase' \in [Thread -> Phase]
      BY <2>2 DEF NewObject, Restart, State, Phase
    <3> QED BY <3>1, <3>2 DEF StateTypeOK
  <2> QED BY <1>2, <2>1, <2>2
<1>4. PICK steps : Dismiss(steps)
  BY DEF NullPointer, Recreate
<1>5. /\ conn' \in [Session -> Step \cup End]
      /\ \A s \in Session : conn'[s] \in Step => conn[s] \in Step
  BY <1>4 DEF Dismiss, Inv, SwitchType, Tied, Step, End
<1>6. \A s \in Session : phase[s] = "rest" => phase'[s] = "rest"
  BY <1>2 DEF NewObject, Thread, stateVars
<1>7. ScreenType'
  <2>1. CASE NullPointer
    BY <1>1, <2>1 DEF NullPointer, NewScreen, Inv, ScreenType
  <2>2. CASE Recreate
    <3>1. stale' \subseteq Session
      BY <2>2 DEF Recreate
    <3>2. uses' \in 0..MaxUses
      BY <2>2, SwitcherAssumption DEF Recreate, Inv, ScreenType
    <3>3. profile' \in BOOLEAN
      BY <1>1 DEF NewScreen
    <3> QED BY <3>1, <3>2, <3>3 DEF ScreenType
  <2> QED BY <2>1, <2>2
<1>8. closeSent' \in BOOLEAN
  BY DEF NullPointer, Recreate, Inv, SwitchType, Flags
<1>9. updates' = <<>> /\ updates' \in Seq(State)
  BY <1>1 DEF NewScreen
<1>10. SwitchType'
  <2>1. Flags'
    BY <1>1, <1>8 DEF NewScreen, Flags
  <2>2. Tied'
    BY <1>5, <1>6 DEF Inv, SwitchType, Tied
  <2> QED BY <1>3, <1>9, <2>1, <2>2 DEF SwitchType
<1>11. OnInv'
  BY <1>1, EmptyOn DEF NewScreen, OnInv
<1> QED BY <1>7, <1>10, <1>11 DEF Inv

LEMMA NextInv == ASSUME Inv, [Next]_vars PROVE Inv'
<1>1. CASE UNCHANGED vars
  <2>1. StateTypeOK' /\ Flags' /\ Tied' /\ updates' \in Seq(State)
    BY <1>1 DEF vars, stateVars, uiVars, switch, Inv, SwitchType, StateTypeOK, Flags, Tied
  <2>2. ScreenType' /\ OnInv'
    BY <1>1 DEF vars, stateVars, uiVars, switch, screenVars, Inv, ScreenType, OnInv
  <2> QED BY <2>1, <2>2 DEF Inv, SwitchType
<1>2. CASE \E s \in Session :
       \/ TurnOn(s) \/ Prompted(s) \/ sendBroadcastConnecting(s) \/ getConfiguration(s)
       \/ sendBroadcastUnusable(s) \/ Retry(s) \/ connectProfile(s) \/ doConnect(s)
       \/ start(s) \/ startRunner(s) \/ onActivityResult(s) \/ Progress(s) \/ Silent(s)
  <2> PICK s \in Session :
       \/ TurnOn(s) \/ Prompted(s) \/ sendBroadcastConnecting(s) \/ getConfiguration(s)
       \/ sendBroadcastUnusable(s) \/ Retry(s) \/ connectProfile(s) \/ doConnect(s)
       \/ start(s) \/ startRunner(s) \/ onActivityResult(s) \/ Progress(s) \/ Silent(s)
    BY <1>2
  <2>1. CASE TurnOn(s) \/ Prompted(s) \/ getConfiguration(s) \/ Retry(s) \/ connectProfile(s)
    BY <2>1, ConnStep
  <2>2. CASE sendBroadcastConnecting(s) \/ sendBroadcastUnusable(s) \/ doConnect(s)
    BY <2>2, TellStep
  <2>3. CASE start(s) \/ startRunner(s) \/ onActivityResult(s)
    BY <2>3, StartStep
  <2>4. CASE Progress(s) \/ Silent(s)
    BY <2>4, WorkerStep
  <2> QED BY <2>1, <2>2, <2>3, <2>4
<1>3. CASE \E t \in Session \cup {Main} : Teardown(t)
  BY <1>3, TeardownStep
<1>4. CASE disconnect \/ CloseElsewhere \/ broadcastStatus \/ onPauseOrResume \/ onServiceConnected
  BY <1>4, ScreenStep
<1>5. CASE onReceive \/ Run \/ CloseReceived
  BY <1>5, MainStep
<1>6. CASE NullPointer \/ Recreate
  BY <1>6, NewScreenStep
<1> QED BY <1>1, <1>2, <1>3, <1>4, <1>5, <1>6 DEF Next

\* Type correctness, and the tie between a connect() and the runner it has started,
\* for any number of clicks.
THEOREM TypeCorrect == Spec => []TypeOK
<1> QED BY InitInv, NextInv, InvType, PTL DEF Spec

\* SwitcherFragment.stateChanged: with every broadcast delivered the switch is not
\* left on for a service that is stopping or has stopped, for any number of
\* overlapping connect() calls, stops, updates and new screens.
THEOREM OnAlwaysTrue == Spec => []OnIsTrue
<1>1. Inv => OnIsTrue
  BY EmptyOn DEF Inv, OnInv, OnIsTrue, SwitchType
<1> QED BY InitInv, NextInv, <1>1, PTL DEF Spec

-----------------------------------------------------------------------------
(* A switch that is disabled                                               *)

\* Whether the switch will be disabled once the broadcasts u are delivered, if it is
\* w now: the last one decides.
EndsWorking(u, w) == IF u = <<>> THEN w ELSE u[Len(u)] = CONNECTING

\* Where a connect() has still to tell the switch, or has left it for want of permission.
Ways == (Step \ {"idle", "prompt"}) \cup {"refused"}

Owed == state # INIT \/ looper # <<>> \/ \E s \in Session : conn[s] \in Ways

\* The looper never leads back to INIT, and what is on, or will be on its way to
\* "off", is a service that has run: disconnect() leaves the rest to it.
NoInit == \A i \in 1..Len(looper) : looper[i] # INIT
HasRun == checked \/ (\E i \in 1..Len(updates) : updates[i] = CONNECTED) => state # INIT

OwedInv == (EndsWorking(updates, working) => Owed) /\ NoInit /\ HasRun

LEMMA LastAppended ==
  ASSUME NEW u \in Seq(State), NEW w, NEW m \in State
  PROVE  /\ EndsWorking(Append(u, m), w) <=> m = CONNECTING
         /\ \A i \in 1..Len(Append(u, m)) : \/ i \in 1..Len(u) /\ Append(u, m)[i] = u[i]
                                            \/ Append(u, m)[i] = m
<1>1. Append(u, m) # <<>> /\ Len(Append(u, m)) = Len(u) + 1 /\ Append(u, m)[Len(u) + 1] = m
  OBVIOUS
<1>2. \A i \in 1..Len(u) : Append(u, m)[i] = u[i]
  OBVIOUS
<1>3. Len(u) \in Nat
  OBVIOUS
<1> QED BY <1>1, <1>2, <1>3 DEF EndsWorking

LEMMA FirstTaken ==
  ASSUME NEW u \in Seq(State), u # <<>>
  PROVE  /\ Head(u) = u[1] /\ 1 \in 1..Len(u)
         /\ \A i \in 1..Len(Tail(u)) : i + 1 \in 1..Len(u) /\ Tail(u)[i] = u[i + 1]
         /\ Tail(u) = <<>> => Len(u) = 1
         /\ Tail(u) # <<>> => Tail(u)[Len(Tail(u))] = u[Len(u)]
<1>1. Len(u) \in Nat /\ Len(u) # 0 /\ Head(u) = u[1] /\ Len(Tail(u)) = Len(u) - 1
  OBVIOUS
<1>2. \A i \in 1..Len(u) - 1 : Tail(u)[i] = u[i + 1]
  BY <1>1
<1>3. Tail(u) # <<>> => Len(Tail(u)) # 0
  <2>1. Tail(u) \in Seq(State)
    OBVIOUS
  <2>2. \A v \in Seq(State) : v # <<>> => Len(v) # 0
    OBVIOUS
  <2> QED BY <2>1, <2>2
<1>4. Tail(u) = <<>> => Len(u) = 1
  BY <1>1
<1>5. ASSUME Tail(u) # <<>> PROVE Tail(u)[Len(Tail(u))] = u[Len(u)]
  <2>1. Len(u) - 1 \in 1..Len(u) - 1
    BY <1>1, <1>3, <1>5
  <2> QED BY <1>1, <1>2, <2>1
<1> QED BY <1>1, <1>2, <1>4, <1>5

\* A step that leaves the switch and its broadcasts alone, and the service at least as
\* busy as it was.
LEMMA OwedKept ==
  ASSUME OwedInv, UNCHANGED <<updates, working, checked, state>>, NoInit', Owed => Owed'
  PROVE  OwedInv'
BY DEF OwedInv, HasRun

\* A step that sends m.
LEMMA OwedSent ==
  ASSUME SwitchType, OwedInv, NEW m \in State, sendBroadcast(m), UNCHANGED <<checked, state>>,
         NoInit', m = CONNECTING => Owed', m = CONNECTED => state # INIT
  PROVE  OwedInv'
<1>1. updates \in Seq(State) /\ updates' = Append(updates, m)
  BY DEF SwitchType, sendBroadcast
<1>2. EndsWorking(updates', working') => Owed'
  BY <1>1, LastAppended
<1>3. HasRun'
  <2>1. \A i \in 1..Len(updates') : \/ i \in 1..Len(updates) /\ updates'[i] = updates[i]
                                    \/ updates'[i] = m
    BY <1>1, LastAppended
  <2> QED BY <2>1 DEF OwedInv, HasRun
<1> QED BY <1>2, <1>3 DEF OwedInv

\* What a thread of the runner posts is not INIT.
LEMMA PostedKeeps ==
  ASSUME looper \in Seq(State), NoInit,
         looper' = looper \/ \E m \in State \ {INIT} : looper' = Append(looper, m)
  PROVE  NoInit' /\ (looper # <<>> => looper' # <<>>)
<1>1. CASE looper' = looper
  BY <1>1 DEF NoInit
<1>2. CASE \E m \in State \ {INIT} : looper' = Append(looper, m)
  <2> PICK m \in State \ {INIT} : looper' = Append(looper, m)
    BY <1>2
  <2>1. looper' # <<>>
    OBVIOUS
  <2>2. NoInit'
    BY LastAppended DEF NoInit
  <2> QED BY <2>1, <2>2
<1> QED BY <1>1, <1>2

LEMMA ConnOwed ==
  ASSUME Inv, OwedInv, NEW s \in Session,
         TurnOn(s) \/ Prompted(s) \/ getConfiguration(s) \/ Retry(s) \/ connectProfile(s)
  PROVE  OwedInv'
<1>1. UNCHANGED <<state, looper, updates, working, checked>>
  BY DEF TurnOn, Prompted, getConfiguration, Retry, connectProfile, stateVars, switch
<1>2. \E to \in Step \cup End :
        conn' = [conn EXCEPT ![s] = to] /\ (conn[s] \in Ways => to \in Ways)
  BY DEF TurnOn, Prompted, getConfiguration, Retry, connectProfile, Goes, Ways, Step, End
<1>3. \A u \in Session : conn[u] \in Ways => conn'[u] \in Ways
  BY <1>2 DEF Inv, SwitchType, Tied
<1>4. Owed => Owed'
  BY <1>1, <1>3 DEF Owed
<1>5. NoInit'
  BY <1>1 DEF OwedInv, NoInit
<1> QED BY <1>1, <1>4, <1>5, OwedKept

LEMMA TellOwed ==
  ASSUME Inv, OwedInv, NEW s \in Session,
         sendBroadcastConnecting(s) \/ sendBroadcastUnusable(s) \/ doConnect(s)
  PROVE  OwedInv'
<1>1. UNCHANGED <<state, looper, checked>>
  BY DEF sendBroadcastConnecting, sendBroadcastUnusable, doConnect, stateVars, switch
<1>2. NoInit'
  BY <1>1 DEF OwedInv, NoInit
<1>3. CASE sendBroadcastUnusable(s)
  <2>1. sendBroadcast(INIT) /\ INIT \in State /\ INIT # CONNECTING /\ INIT # CONNECTED
    BY <1>3 DEF sendBroadcastUnusable, State, INIT, CONNECTING, CONNECTED
  <2> QED BY <1>1, <1>2, <2>1, OwedSent DEF Inv
<1>4. CASE sendBroadcastConnecting(s) \/ doConnect(s)
  <2>1. sendBroadcast(CONNECTING) /\ CONNECTING \in State /\ CONNECTING # CONNECTED
    BY <1>4 DEF sendBroadcastConnecting, doConnect, State, CONNECTING, CONNECTED
  <2>2. conn'[s] \in Ways
    BY <1>4 DEF sendBroadcastConnecting, doConnect, Goes, Ways, Step, Inv, SwitchType, Tied
  <2> QED BY <1>1, <1>2, <2>1, <2>2, OwedSent DEF Inv, Owed
<1> QED BY <1>3, <1>4

\* An ignored start leaves the switch to a service that is on its way, a refused one to
\* the user.
LEMMA StartOwed ==
  ASSUME Inv, OwedInv, NEW s \in Session, start(s) \/ startRunner(s) \/ onActivityResult(s)
  PROVE  OwedInv'
<1>1. UNCHANGED <<state, checked, working>>
  BY DEF start, startRunner, onActivityResult, Connecting, Ignored, changeState,
         lastWord, Quietly, stateVars, switch
<1>2. looper' = looper \/ looper' = Append(looper, CONNECTING)
  BY DEF start, startRunner, onActivityResult, Connecting, Ignored, changeState,
         lastWord, Quietly, stateVars
<1>3. NoInit'
  BY <1>2, PostedKeeps DEF Inv, SwitchType, StateTypeOK, OwedInv, State, INIT, CONNECTING
<1>4. state # INIT \/ looper' = Append(looper, CONNECTING) \/ conn'[s] \in Ways
  BY DEF start, startRunner, onActivityResult, Connecting, Ignored, changeState, lastWord,
         Accepts, Goes, Ways, Step, Inv, SwitchType, Tied, INIT, CONNECTING, STOPPING
<1>5. Append(looper, CONNECTING) # <<>>
  BY DEF Inv, SwitchType, StateTypeOK
<1>6. Owed'
  BY <1>1, <1>4, <1>5 DEF Owed
<1>7. updates' = updates \/ sendBroadcast(CONNECTING)
  BY DEF start, startRunner, onActivityResult
<1> QED BY <1>1, <1>3, <1>6, <1>7, OwedKept, OwedSent DEF Inv, State, CONNECTING, CONNECTED

\* A thread of the runner, and Main when it begins or ends a stop.
LEMMA RunnerOwed ==
  ASSUME Inv, OwedInv,
         \/ \E s \in Session : Progress(s) \/ Silent(s)
         \/ \E t \in Session \cup {Main} : Teardown(t)
         \/ CloseReceived
  PROVE  OwedInv'
<1>1. UNCHANGED <<state, conn, updates, working, checked>>
  BY DEF Progress, Silent, Teardown, CloseReceived, Connected, Report, BeginStop, GoOn,
         EndsSilently, EndStop, Quietly, changeState, lastWord, uiVars, switch, stateVars
<1>2. looper' = looper \/ \E m \in State \ {INIT} : looper' = Append(looper, m)
  BY DEF Progress, Silent, Teardown, CloseReceived, Connected, Report, BeginStop, GoOn,
         EndsSilently, EndStop, Quietly, changeState, lastWord, stateVars, State, INIT,
         CONNECTED, STOPPING, STOPPED
<1>3. NoInit' /\ (looper # <<>> => looper' # <<>>)
  BY <1>2, PostedKeeps DEF Inv, SwitchType, StateTypeOK, OwedInv
<1> QED BY <1>1, <1>3, OwedKept DEF Owed

LEMMA ScreenOwed ==
  ASSUME Inv, OwedInv,
         disconnect \/ CloseElsewhere \/ broadcastStatus \/ onPauseOrResume
           \/ onServiceConnected
  PROVE  OwedInv'
<1>1. UNCHANGED <<state, looper, conn, working, checked>>
  BY DEF disconnect, CloseElsewhere, broadcastStatus, onPauseOrResume, onServiceConnected,
         stateVars, switch
<1>2. NoInit'
  BY <1>1 DEF OwedInv, NoInit
<1>3. \/ updates' = updates
      \/ \E m \in State \ {INIT} : sendBroadcast(m) /\ state # INIT
  BY DEF disconnect, CloseElsewhere, broadcastStatus, onPauseOrResume, onServiceConnected,
         OwedInv, HasRun, State, INIT, CONNECTING, CONNECTED, STOPPED
<1> QED BY <1>1, <1>2, <1>3, OwedKept, OwedSent DEF Inv, Owed

LEMMA ReceiveOwed == ASSUME Inv, OwedInv, onReceive PROVE OwedInv'
<1>1. /\ updates \in Seq(State) /\ updates # <<>> /\ updates' = Tail(updates)
      /\ UNCHANGED <<state, looper, conn>>
  BY DEF onReceive, stateVars, Inv, SwitchType
<1>2. /\ working' <=> Head(updates) = CONNECTING
      /\ checked' => checked \/ Head(updates) = CONNECTED
  BY DEF onReceive, stateChanged
<1>3. EndsWorking(updates', working') => EndsWorking(updates, working)
  BY <1>1, <1>2, FirstTaken DEF EndsWorking
<1>4. HasRun'
  <2>1. \A i \in 1..Len(updates') : \E j \in 1..Len(updates) : updates'[i] = updates[j]
    BY <1>1, FirstTaken
  <2>2. Head(updates) = updates[1] /\ 1 \in 1..Len(updates)
    BY <1>1, FirstTaken
  <2> QED BY <1>1, <1>2, <2>1, <2>2 DEF OwedInv, HasRun
<1> QED BY <1>1, <1>3, <1>4 DEF OwedInv, NoInit, Owed

LEMMA RunOwed == ASSUME Inv, OwedInv, Run PROVE OwedInv'
<1>1. looper \in Seq(State) /\ looper # <<>> /\ looper' = Tail(looper) /\ state' = Head(looper)
  BY DEF Run, RunPosted, Inv, SwitchType, StateTypeOK
<1>2. state' # INIT
  BY <1>1, FirstTaken DEF OwedInv, NoInit
<1>3. NoInit'
  BY <1>1, FirstTaken DEF OwedInv, NoInit
<1> QED BY <1>2, <1>3 DEF OwedInv, Owed, HasRun

LEMMA NewScreenOwed == ASSUME Inv, OwedInv, NullPointer \/ Recreate PROVE OwedInv'
<1>1. updates' = <<>> /\ working' = FALSE /\ checked' = FALSE
  BY DEF NullPointer, Recreate, NewScreen
<1>2. looper' = looper \/ looper' = <<>>
  BY DEF NullPointer, Recreate, NewObject, Restart, stateVars
<1>3. NoInit'
  BY <1>2 DEF OwedInv, NoInit
<1> QED BY <1>1, <1>3 DEF OwedInv, EndsWorking, HasRun

LEMMA NextOwed == ASSUME Inv, OwedInv, [Next]_vars PROVE OwedInv'
<1>1. CASE UNCHANGED vars
  BY <1>1 DEF vars, stateVars, uiVars, switch, OwedInv, Owed, NoInit, HasRun
<1>2. ASSUME NEW s \in Session,
             \/ TurnOn(s) \/ Prompted(s) \/ sendBroadcastConnecting(s) \/ getConfiguration(s)
             \/ sendBroadcastUnusable(s) \/ Retry(s) \/ connectProfile(s) \/ doConnect(s)
             \/ start(s) \/ startRunner(s) \/ onActivityResult(s)
      PROVE  OwedInv'
  BY <1>2, ConnOwed, TellOwed, StartOwed
<1>3. CASE \/ \E s \in Session : Progress(s) \/ Silent(s)
           \/ \E t \in Session \cup {Main} : Teardown(t)
           \/ CloseReceived
  BY <1>3, RunnerOwed
<1>4. CASE disconnect \/ CloseElsewhere \/ broadcastStatus \/ onPauseOrResume \/ onServiceConnected
  BY <1>4, ScreenOwed
<1>5. CASE onReceive \/ Run
  BY <1>5, ReceiveOwed, RunOwed
<1>6. CASE NullPointer \/ Recreate
  BY <1>6, NewScreenOwed
<1> QED BY <1>1, <1>2, <1>3, <1>4, <1>5, <1>6 DEF Next

\* VpnConnector.connect, ShadowsocksConnector.doConnect: with every broadcast delivered
\* the switch is disabled only while a connect() has still to tell it, permission was
\* withheld, or the service has run, for any number of overlapping connect() calls,
\* stops, updates and new screens.
THEOREM WorkingAlwaysOwed == Spec => []WorkingIsOwed
<1>1. Init => OwedInv
  BY DEF Init, StateInit, OwedInv, EndsWorking, NoInit, HasRun
<1>2. OwedInv => WorkingIsOwed
  BY DEF OwedInv, EndsWorking, Owed, Ways, WorkingIsOwed
<1> QED BY InitInv, NextInv, NextOwed, <1>1, <1>2, PTL DEF Spec

=============================================================================
