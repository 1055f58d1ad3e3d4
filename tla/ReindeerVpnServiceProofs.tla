---------------------- MODULE ReindeerVpnServiceProofs ----------------------
(***************************************************************************)
(* Proofs about the life of the service, for any sessions, clients, users  *)
(* and bounds: type correctness; and when uses of the runner do not        *)
(* overlap, a session that is CONNECTED or holds an interface is watched   *)
(* by the expiration timer.                                                *)
(***************************************************************************)
EXTENDS ReindeerVpnService, TLAPS

\* TypeOK in parts.
SvcType ==
  /\ created \in BOOLEAN /\ started \in BOOLEAN /\ up \in {"no", "held", "lost"}
  /\ callbacks \subseteq Client
  /\ caller \in [Session -> {"idle", "inStart", "returned", "done"}]
  /\ orphans \subseteq Session /\ startCmds \in Nat /\ timers \subseteq {"expiration", "simuse"}

RestType ==
  /\ closing \in BOOLEAN /\ closeSent \in BOOLEAN
  /\ user \in User /\ kills \in 0..MaxKills

LEMMA TypeParts == TypeOK <=> StateTypeOK /\ SvcType /\ RestType
BY DEF TypeOK, SvcType, RestType

LEMMA StatesAreStates ==
  /\ INIT \in State /\ CONNECTING \in State /\ CONNECTED \in State
  /\ STOPPING \in State /\ STOPPED \in State
BY DEF State

LEMMA PassesType ==
  ASSUME StateTypeOK, NEW t \in Thread, NEW from, NEW to \in Phase, Passes(t, from, to)
  PROVE  phase' \in [Thread -> Phase]
BY DEF StateTypeOK, Passes

LEMMA LastWordType ==
  ASSUME StateTypeOK, NEW s \in State, lastWord(s)
  PROVE  state' \in State /\ looper' \in Seq(State)
BY DEF StateTypeOK, lastWord

LEMMA QuietlyType ==
  ASSUME StateTypeOK, NEW t \in Thread, NEW from, NEW to \in Phase, Quietly(t, from, to)
  PROVE  StateTypeOK'
<1>1. phase' \in [Thread -> Phase]
  BY PassesType DEF Quietly
<1> QED
  BY <1>1 DEF StateTypeOK, Quietly

\* Every operation of BaseService keeps the type of the state.
LEMMA SessionStateType ==
  ASSUME StateTypeOK, NEW s \in Session,
         \/ Connecting(s) \/ Ignored(s) \/ Connected(s) \/ Report(s) \/ GoOn(s)
  PROVE  StateTypeOK'
<1>1. s \in Thread
  BY DEF Thread
<1>2. CASE Connecting(s) \/ Connected(s) \/ Report(s)
  <2>1. phase' \in [Thread -> Phase]
    BY <1>1, <1>2, PassesType DEF Connecting, Connected, Report, Phase
  <2>2. state' \in State /\ looper' \in Seq(State)
    BY <1>2, LastWordType, StatesAreStates DEF Connecting, Connected, Report, changeState
  <2> QED
    BY <2>1, <2>2 DEF StateTypeOK
<1>3. CASE Ignored(s) \/ GoOn(s)
  BY <1>1, <1>3, QuietlyType DEF Ignored, GoOn, Phase
<1> QED
  BY <1>2, <1>3

LEMMA ThreadStateType ==
  ASSUME StateTypeOK, NEW t \in Thread,
         BeginStop(t) \/ EndStop(t) \/ EndsSilently(t) \/ Revive(t)
  PROVE  StateTypeOK'
<1>1. CASE BeginStop(t) \/ EndStop(t)
  <2>1. phase' \in [Thread -> Phase]
    BY <1>1, PassesType DEF BeginStop, EndStop, Phase
  <2>2. state' \in State /\ looper' \in Seq(State)
    BY <1>1, LastWordType, StatesAreStates DEF BeginStop, EndStop, changeState
  <2> QED
    BY <2>1, <2>2 DEF StateTypeOK
<1>2. CASE EndsSilently(t) \/ Revive(t)
  BY <1>2, QuietlyType DEF EndsSilently, Revive, Phase
<1> QED
  BY <1>1, <1>2

LEMMA OtherStateType ==
  ASSUME StateTypeOK, RunPosted \/ NewObject \/ UNCHANGED stateVars
  PROVE  StateTypeOK'
<1>1. CASE RunPosted
  BY <1>1 DEF RunPosted, StateTypeOK
<1>2. CASE NewObject
  <2>1. phase' \in [Thread -> Phase]
    BY <1>2 DEF NewObject, Phase
  <2>2. looper' \in Seq(State)
    BY <1>2 DEF NewObject, Restart
  <2>3. state' \in State
    BY <1>2, StatesAreStates DEF NewObject, Restart
  <2> QED
    BY <2>1, <2>2, <2>3 DEF StateTypeOK
<1>3. CASE UNCHANGED stateVars
  BY <1>3 DEF StateTypeOK, stateVars
<1> QED
  BY <1>1, <1>2, <1>3

\* The actions by what they do to the runner.
OfClient(c) == registerCallback(c) \/ unregisterCallback(c)
OfCaller(s) == start(s) \/ startRunner(s) \/ startService(s) \/ Establish(s) \/ Progress(s)
               \/ Fails(s) \/ OrphanEstablishes(s)
OfRunner(t) == Teardown(t) \/ Silent(t)
Elsewhere   == disconnect \/ Run \/ onRevoke \/ Finalized \/ ExpirationRun \/ SimuseRun
               \/ onStartCommand \/ CloseReceived \/ onDestroy \/ ProcessKilled \/ UserChanges

LEMMA NextIsOneOf ==
  Next <=> \/ \E c \in Client : OfClient(c)
           \/ \E s \in Session : OfCaller(s)
           \/ \E t \in Thread : OfRunner(t)
           \/ Elsewhere
BY DEF Next, OfClient, OfCaller, OfRunner, Elsewhere

-----------------------------------------------------------------------------
(* Types                                                                   *)

LEMMA NextStateType ==
  ASSUME StateTypeOK, [Next]_vars
  PROVE  StateTypeOK'
<1>1. CASE \E c \in Client : OfClient(c)
  BY <1>1, OtherStateType DEF OfClient, registerCallback, unregisterCallback
<1>2. ASSUME NEW s \in Session, OfCaller(s) PROVE StateTypeOK'
  <2>1. s \in Thread
    BY DEF Thread
  <2>2. \/ Connecting(s) \/ Ignored(s) \/ Connected(s) \/ Report(s) \/ GoOn(s)
        \/ BeginStop(s) \/ UNCHANGED stateVars
    BY <1>2 DEF OfCaller, start, startRunner, startService, Establish, Progress, Fails,
           OrphanEstablishes
  <2> QED
    BY <2>1, <2>2, SessionStateType, ThreadStateType, OtherStateType
<1>3. ASSUME NEW t \in Thread, OfRunner(t) PROVE StateTypeOK'
  BY <1>3, ThreadStateType DEF OfRunner, Teardown, Silent
<1>4. CASE Elsewhere
  <2>1. Main \in Thread /\ Binder \in Thread
    BY DEF Thread
  <2>2. \/ RunPosted \/ NewObject \/ UNCHANGED stateVars
        \/ BeginStop(Main) \/ BeginStop(Binder)
    BY <1>4 DEF Elsewhere, disconnect, Run, onRevoke, Finalized, ExpirationRun, SimuseRun, onStartCommand,
                CloseReceived, onDestroy, ProcessKilled, UserChanges, stateVars
  <2> QED
    BY <2>1, <2>2, ThreadStateType, OtherStateType
<1>5. CASE UNCHANGED vars
  BY <1>5, OtherStateType DEF vars
<1> QED
  BY <1>1, <1>2, <1>3, <1>4, <1>5, NextIsOneOf

LEMMA NextSvcType ==
  ASSUME TypeOK, [Next]_vars
  PROVE  SvcType'
<1>0. SvcType
  BY TypeParts
<1>1. ASSUME UNCHANGED svcVars PROVE SvcType'
  BY <1>0, <1>1 DEF SvcType, svcVars
<1>2. ASSUME NEW c \in Client, OfClient(c) PROVE SvcType'
  BY ZenonT(60), <1>0, <1>2 DEF SvcType, OfClient, registerCallback, unregisterCallback
<1>3. ASSUME NEW s \in Session, OfCaller(s) PROVE SvcType'
  <2>1. CASE start(s) \/ startRunner(s)
    BY ZenonT(60), <1>0, <2>1 DEF SvcType, start, startRunner, Calls
  <2>2. CASE startService(s)
    BY <1>0, <2>2 DEF SvcType, startService, Calls
  <2>3. CASE Establish(s) \/ Progress(s)
    BY ZenonT(60), <1>0, <1>1, <2>3 DEF SvcType, Establish, Progress
  <2>4. CASE Fails(s)
    BY ZenonT(60), <1>0, <2>4 DEF SvcType, Fails
  <2>5. CASE OrphanEstablishes(s)
    BY ZenonT(60), <1>0, <2>5 DEF SvcType, OrphanEstablishes
  <2> QED
    BY <1>3, <2>1, <2>2, <2>3, <2>4, <2>5 DEF OfCaller
<1>4. ASSUME NEW t \in Thread, OfRunner(t) PROVE SvcType'
  BY ZenonT(60), <1>0, <1>1, <1>4 DEF SvcType, OfRunner, Teardown, Silent
<1>5. CASE Elsewhere
  <2>1. CASE onStartCommand
    BY <1>0, <2>1 DEF SvcType, onStartCommand
  <2>2. CASE onDestroy
    BY ZenonT(60), <1>0, <2>2 DEF SvcType, onDestroy, Unfinished
  <2>3. CASE ProcessKilled
    BY ZenonT(60), <1>0, <2>3 DEF SvcType, ProcessKilled
  <2>5. CASE onRevoke \/ Finalized
    BY ZenonT(60), <1>0, <2>5 DEF SvcType, onRevoke, Finalized
  <2>4. CASE ~(onStartCommand \/ onDestroy \/ ProcessKilled \/ onRevoke \/ Finalized)
    BY <1>1, <1>5, <2>4 DEF Elsewhere, disconnect, Run, onRevoke, Finalized, ExpirationRun, SimuseRun,
                            CloseReceived, UserChanges
  <2> QED
    BY <2>1, <2>2, <2>3, <2>4, <2>5
<1>6. CASE UNCHANGED vars
  BY <1>1, <1>6 DEF vars
<1> QED
  BY <1>2, <1>3, <1>4, <1>5, <1>6, NextIsOneOf

LEMMA NextRestType ==
  ASSUME TypeOK, [Next]_vars
  PROVE  RestType'
<1>0. RestType
  BY TypeParts
<1>1. ASSUME UNCHANGED <<closing, closeSent, user, kills>> PROVE RestType'
  BY <1>0, <1>1 DEF RestType
<1>2. ASSUME NEW c \in Client, OfClient(c) PROVE RestType'
  BY <1>1, <1>2 DEF OfClient, registerCallback, unregisterCallback
<1>3. ASSUME NEW s \in Session, OfCaller(s) PROVE RestType'
  BY <1>1, <1>3 DEF OfCaller, start, startRunner, startService, Establish, Progress, Fails,
           OrphanEstablishes
<1>4. ASSUME NEW t \in Thread, OfRunner(t) PROVE RestType'
  BY ZenonT(60), <1>0, <1>1, <1>4 DEF RestType, OfRunner, Teardown, Silent
<1>5. CASE Elsewhere
  <2>1. CASE disconnect \/ ExpirationRun \/ SimuseRun
    BY ZenonT(60), <1>0, <2>1 DEF RestType, disconnect, ExpirationRun, SimuseRun
  <2>5. CASE CloseReceived
    <3>1. closing' = TRUE \/ closing' = closing
      BY <2>5 DEF CloseReceived
    <3>2. closeSent' = FALSE /\ UNCHANGED <<user, kills>>
      BY <2>5 DEF CloseReceived
    <3> QED
      BY ZenonT(60), <1>0, <3>1, <3>2 DEF RestType
  <2>2. CASE ProcessKilled
    <3>1. closing' = FALSE /\ UNCHANGED <<closeSent, user>>
      BY <2>2 DEF ProcessKilled
    <3>2. kills' \in 0..MaxKills
      BY <1>0, <2>2, LifeAssumption DEF RestType, ProcessKilled
    <3> QED
      BY ZenonT(60), <1>0, <3>1, <3>2 DEF RestType
  <2>3. CASE UserChanges
    BY <1>0, <2>3, UsersAreKnown DEF RestType, UserChanges
  <2>4. CASE Run \/ onRevoke \/ Finalized \/ onStartCommand \/ onDestroy
    BY <1>1, <2>4 DEF Run, onRevoke, Finalized, onStartCommand, onDestroy
  <2> QED
    BY <1>5, <2>1, <2>2, <2>3, <2>4, <2>5 DEF Elsewhere
<1>6. CASE UNCHANGED vars
  BY <1>1, <1>6 DEF vars
<1> QED
  BY <1>2, <1>3, <1>4, <1>5, <1>6, NextIsOneOf

\* Every callback, receiver and timer of the service keeps the types.
THEOREM TypeCorrect == Spec => []TypeOK
<1>1. Init => TypeOK
  <2> SUFFICES ASSUME Init PROVE TypeOK
    OBVIOUS
  <2>1. StateTypeOK
    BY StatesAreStates DEF Init, StateInit, StateTypeOK, Phase
  <2>2. SvcType
    BY ZenonT(60) DEF Init, SvcType
  <2>3. user \in User /\ kills \in 0..MaxKills
    BY LifeAssumption, UsersAreKnown DEF Init
  <2>4. RestType
    BY ZenonT(60), <2>3 DEF Init, RestType
  <2> QED
    BY <2>1, <2>2, <2>4, TypeParts
<1>2. TypeOK /\ [Next]_vars => TypeOK'
  BY NextStateType, NextSvcType, NextRestType DEF TypeOK, SvcType, RestType
<1> QED
  BY <1>1, <1>2, PTL DEF Spec

-----------------------------------------------------------------------------
(* The expiration timer, when uses of the runner do not overlap            *)

\* The threads in the runner or about to enter it; no two at a time.
Using     == InRunner \cup {s \in Session : caller[s] = "inStart"}
Exclusive == \A t, u \in Using : t = u

\* The timer runs, or a call that starts it is still to come.
Watched == \/ "expiration" \in timers \/ startCmds > 0
           \/ \E s \in Session : caller[s] = "returned"

\* A session is watched from the moment it is in the runner until it is stopped and has
\* closed what it holds.
SessionWatched ==
  Pending = CONNECTED \/ up = "held" \/ (\E s \in Session : s \in InRunner) => Watched

WInv == TypeOK /\ Exclusive /\ SessionWatched

LEMMA PendingPosted ==
  ASSUME StateTypeOK, NEW s \in State, lastWord(s)
  PROVE  Pending' = s
BY DEF StateTypeOK, lastWord, Pending

LEMMA PendingRun ==
  ASSUME StateTypeOK, RunPosted
  PROVE  Pending' = Pending
<1>1. looper \in Seq(State) /\ looper # <<>> /\ looper' = Tail(looper)
      /\ state' = Head(looper)
  BY DEF StateTypeOK, RunPosted
<1>2. CASE Len(looper) = 1
  BY <1>1, <1>2 DEF Pending
<1>3. CASE Len(looper) > 1
  <2>1. looper' # <<>> /\ Len(looper') = Len(looper) - 1
    BY <1>1, <1>3
  <2>2. looper'[Len(looper')] = looper[Len(looper)]
    BY <1>1, <1>3, <2>1
  <2> QED
    BY <1>1, <2>1, <2>2 DEF Pending
<1>4. Len(looper) = 1 \/ Len(looper) > 1
  <2>1. Len(looper) \in Nat
    BY <1>1
  <2>2. Len(looper) # 0
    BY <1>1
  <2>3. \A n \in Nat : n = 0 \/ n = 1 \/ n > 1
    OBVIOUS
  <2> QED
    BY ZenonT(60), <2>1, <2>2, <2>3
<1> QED
  BY <1>2, <1>3, <1>4

LEMMA PassesRunner ==
  ASSUME StateTypeOK, NEW t \in Thread, NEW from, NEW to, Passes(t, from, to)
  PROVE  /\ \A u \in InRunner' : u # t => u \in InRunner
         /\ t \in InRunner' => to \in {"starting", "stopping", "failed"}
         /\ from \in {"starting", "stopping", "failed"} => t \in InRunner
BY DEF StateTypeOK, Passes, InRunner

\* A step of a thread in the runner alone that only posts: it stays alone.
LEMMA StepAlone ==
  ASSUME WInv, UNCHANGED caller, NEW t \in InRunner, NEW from, NEW to,
         Passes(t, from, to)
  PROVE  Exclusive'
<1>1. t \in Thread /\ t \in Using
  BY DEF InRunner, Using
<1>2. \A u \in InRunner' : u # t => u \in InRunner
  BY <1>1, PassesRunner DEF WInv, TypeOK
<1>3. \A u \in Using' : u = t
  BY <1>1, <1>2 DEF Using, WInv, Exclusive
<1> QED
  BY <1>3 DEF Exclusive

\* A thread that enters when nothing is in the runner is there alone.
LEMMA EnterAlone ==
  ASSUME WInv, UNCHANGED caller, MayEnter, ~Overlap, NEW t \in Thread, NEW from, NEW to,
         Passes(t, from, to)
  PROVE  Exclusive' /\ \A u \in InRunner' : u = t
<1>1. \A u \in InRunner' : u = t
  BY PassesRunner DEF WInv, TypeOK, MayEnter
<1>2. \A u \in Using' : u = t
  BY <1>1 DEF Using, MayEnter
<1> QED
  BY <1>1, <1>2 DEF Exclusive

LEMMA CallerWatched ==
  ASSUME WInv, ~Overlap, NEW s \in Session, OfCaller(s)
  PROVE  Exclusive' /\ SessionWatched'
<1>0. StateTypeOK /\ SvcType /\ s \in Thread /\ Exclusive /\ SessionWatched
  BY TypeParts DEF WInv, Thread
<1>1. CASE start(s)
  <2>1. InRunner = {} /\ \A u \in Session : caller[u] # "inStart"
    BY <1>1 DEF start, MayEnter
  <2>2. InRunner' = {}
    <3>1. CASE UNCHANGED stateVars
      BY <2>1, <3>1 DEF InRunner, stateVars
    <3>2. CASE Ignored(s)
      BY <2>1, <3>2, <1>0, PassesRunner DEF Ignored, Quietly
    <3> QED
      BY <1>1, <3>1, <3>2 DEF start
  <2>3. /\ caller[s] = "idle"
        /\ caller' \in {[caller EXCEPT ![s] = "inStart"], [caller EXCEPT ![s] = "returned"]}
    BY <1>1 DEF start, Calls
  <2>4. \A u \in Using' : u = s
    BY <1>0, <2>1, <2>2, <2>3 DEF Using, SvcType
  <2>5. \A u \in Session : caller[u] = "returned" => caller'[u] = "returned"
    BY <1>0, <2>3 DEF SvcType
  <2>6. Watched => Watched'
    BY <1>1, <2>5 DEF Watched, start
  <2>7. Pending' = Pending
    BY <1>1 DEF start, Ignored, Quietly, Pending, stateVars
  <2> QED
    BY <1>0, <1>1, <2>2, <2>4, <2>6, <2>7 DEF Exclusive, SessionWatched, start
<1>2. CASE startRunner(s)
  <2>1. caller[s] = "inStart" /\ caller' = [caller EXCEPT ![s] = "returned"]
    BY <1>2 DEF startRunner, Calls
  <2>2. s \in Using
    BY <2>1 DEF Using
  <2>3. \A u \in InRunner' : u # s => u \in InRunner
    BY <1>0, <1>2, PassesRunner DEF startRunner, Connecting, Ignored, Quietly
  <2>4. \A u \in Using' : u = s
    BY <1>0, <2>1, <2>2, <2>3 DEF Using, Exclusive, SvcType
  <2>5. caller'[s] = "returned"
    BY <1>0, <2>1 DEF SvcType
  <2> QED
    BY <2>4, <2>5 DEF Exclusive, SessionWatched, Watched
<1>3. CASE startService(s)
  <2>1. caller' = [caller EXCEPT ![s] = "done"] /\ UNCHANGED stateVars
    BY <1>3 DEF startService, Calls
  <2>2. \A u \in Using' : u \in Using
    BY <1>0, <2>1 DEF Using, InRunner, stateVars, SvcType
  <2>3. startCmds' > 0
    BY <1>0, <1>3 DEF startService, SvcType
  <2> QED
    BY <1>0, <2>2, <2>3 DEF Exclusive, SessionWatched, Watched
<1>4. CASE Establish(s)
  <2>1. UNCHANGED <<stateVars, caller, startCmds, timers>> /\ s \in InRunner
    BY <1>0, <1>4 DEF Establish, InRunner
  <2>2. Watched'
    BY <1>0, <2>1 DEF SessionWatched, Watched
  <2> QED
    BY <1>0, <2>1, <2>2 DEF Exclusive, SessionWatched, Using, InRunner, stateVars
<1>5. CASE Progress(s) \/ Fails(s)
  <2>1. PICK from \in {"starting", "failed"}, to \in Phase : Passes(s, from, to)
    BY <1>5 DEF Progress, Fails, Connected, Report, BeginStop, GoOn, Quietly, Phase
  <2>2. s \in InRunner
    BY <1>0, <2>1, PassesRunner
  <2>3. UNCHANGED <<caller, startCmds, timers>>
    BY <1>5 DEF Progress, Fails, svcVars
  <2>4. Exclusive'
    BY <2>1, <2>2, <2>3, StepAlone
  <2>5. Watched'
    BY <1>0, <2>2, <2>3 DEF SessionWatched, Watched
  <2> QED
    BY <2>4, <2>5 DEF SessionWatched
<1>6. CASE OrphanEstablishes(s)
  <2>1. UNCHANGED <<stateVars, caller, startCmds, timers>> /\ up' = "lost"
    BY <1>6 DEF OrphanEstablishes
  <2> QED
    BY <1>0, <2>1 DEF Exclusive, SessionWatched, Watched, Using, InRunner, Pending, stateVars
<1> QED
  BY <1>1, <1>2, <1>3, <1>4, <1>5, <1>6 DEF OfCaller

LEMMA TeardownWatched ==
  ASSUME WInv, NEW t \in Thread, Teardown(t)
  PROVE  Exclusive' /\ SessionWatched'
<1>0. StateTypeOK /\ SvcType /\ Exclusive /\ SessionWatched
  BY TypeParts DEF WInv
<1>1. PICK to \in IF t \in Session THEN {"starting", "failed", "over"} ELSE {"rest"} :
        Passes(t, "stopping", to)
  BY DEF Teardown, EndStop
<1>2. t \in InRunner /\ (\A u \in InRunner' : u # t => u \in InRunner)
  BY <1>0, <1>1, PassesRunner
<1>3. caller' = caller /\ startCmds' = startCmds
  BY DEF Teardown
<1>4. \A u \in Using' : u = t
  BY <1>0, <1>2, <1>3 DEF Using, Exclusive
<1>5. Pending' = STOPPED
  BY <1>0, PendingPosted, StatesAreStates DEF Teardown, EndStop
<1>6. CASE t \in Session
  <2>1. timers' = timers
    BY <1>6, LifeAssumption DEF Teardown
  <2>2. Watched'
    BY <1>0, <1>2, <1>3, <1>6, <2>1 DEF SessionWatched, Watched
  <2> QED
    BY <1>4, <2>2 DEF Exclusive, SessionWatched
<1>7. CASE t \notin Session
  <2>1. up' # "held"
    BY DEF Teardown
  <2> QED
    BY <1>4, <1>5, <1>7, <2>1 DEF Exclusive, SessionWatched, Using, STOPPED, CONNECTED
<1> QED
  BY <1>6, <1>7

\* A start that ends silently has posted CONNECTING last.
LEMMA SilentWatched ==
  ASSUME WInv, ~Overlap, NEW t \in Thread, Silent(t)
  PROVE  Exclusive' /\ SessionWatched'
<1>0. StateTypeOK /\ SessionWatched
  BY DEF WInv, TypeOK
<1>1. t \in Session /\ t \in InRunner /\ UNCHANGED svcVars
  BY DEF Silent, InRunner
<1>2. PICK from : Passes(t, from, "silent")
  BY DEF Silent, EndsSilently, Quietly
<1>3. Exclusive'
  BY <1>1, <1>2, StepAlone DEF svcVars
<1>4. Watched'
  BY <1>0, <1>1 DEF SessionWatched, Watched, svcVars
<1> QED
  BY <1>3, <1>4 DEF SessionWatched

LEMMA NewObjectWatched ==
  ASSUME WInv, NewObject, up' = "no", \A s \in Session : caller'[s] # "inStart"
  PROVE  Exclusive' /\ SessionWatched'
<1>1. \A t \in Thread : phase'[t] \in {"rest", "over"}
  BY DEF NewObject
<1>2. InRunner' = {} /\ Using' = {}
  BY <1>1 DEF InRunner, Using
<1>3. Pending' = INIT
  BY DEF NewObject, Restart, Pending
<1> QED
  BY <1>2, <1>3 DEF Exclusive, SessionWatched, INIT, CONNECTED

LEMMA ElsewhereWatched ==
  ASSUME WInv, ~Overlap, Elsewhere
  PROVE  Exclusive' /\ SessionWatched'
<1>0. StateTypeOK /\ SvcType /\ Exclusive /\ SessionWatched
  BY TypeParts DEF WInv
<1>1. ASSUME UNCHANGED <<phase, caller, startCmds, timers>>, Pending' = Pending,
             up' = up \/ up' = "no"
      PROVE  Exclusive' /\ SessionWatched'
  BY <1>0, <1>1 DEF Exclusive, SessionWatched, Watched, Using, InRunner
<1>2. ASSUME NEW t \in Thread, t \notin Session, MayEnter, BeginStop(t),
             UNCHANGED <<caller, startCmds, timers>>, up' = up \/ up' = "no"
      PROVE  Exclusive' /\ SessionWatched'
  <2>1. Passes(t, "rest", "stopping") /\ lastWord(STOPPING)
    BY <1>2 DEF BeginStop, changeState
  <2>2. Exclusive' /\ \A u \in InRunner' : u = t
    BY <1>2, <2>1, EnterAlone
  <2>3. Pending' = STOPPING
    BY <1>0, <2>1, PendingPosted, StatesAreStates
  <2> QED
    BY <1>0, <1>2, <2>2, <2>3 DEF SessionWatched, Watched, STOPPING, CONNECTED
<1>3. /\ Main \in Thread /\ Binder \in Thread
      /\ Main \notin Session /\ Binder \notin Session
  BY LifeAssumption DEF Thread
<1>4. CASE onRevoke
  BY <1>2, <1>3, <1>4 DEF onRevoke
<1>5. CASE CloseReceived
  <2>1. CASE created
    BY <1>2, <1>3, <1>5, <2>1 DEF CloseReceived, svcVars
  <2>2. CASE ~created
    BY <1>1, <1>5, <2>2 DEF CloseReceived, svcVars, stateVars, Pending
  <2> QED
    BY <2>1, <2>2
<1>6. CASE onStartCommand
  <2>1. "expiration" \in timers' /\ UNCHANGED <<stateVars, caller>>
    BY <1>6 DEF onStartCommand
  <2> QED
    BY <1>0, <2>1 DEF Exclusive, SessionWatched, Watched, Using, InRunner, stateVars
<1>7. CASE onDestroy
  BY <1>0, <1>7, NewObjectWatched DEF onDestroy, SvcType
<1>8. CASE ProcessKilled
  BY <1>0, <1>8, NewObjectWatched DEF ProcessKilled, SvcType
<1>9. CASE Run
  BY <1>0, <1>1, <1>9, PendingRun DEF Run, RunPosted, svcVars
<1>10. CASE disconnect \/ ExpirationRun \/ SimuseRun \/ UserChanges
  BY <1>1, <1>10 DEF disconnect, ExpirationRun, SimuseRun, UserChanges, svcVars, stateVars, Pending
<1>11. CASE Finalized
  BY <1>1, <1>11 DEF Finalized, stateVars, Pending
<1> QED
  BY <1>4, <1>5, <1>6, <1>7, <1>8, <1>9, <1>10, <1>11 DEF Elsewhere

\* checkExpiration: when uses of the runner do not overlap, a session that is
\* CONNECTED or holds an interface, with nothing under way, has its expiration timer,
\* for any number of sessions, clients and kills of the process, and although the
\* threads of an object that was destroyed go on.
THEOREM SequentialIsWatched ==
  ASSUME ~Overlap
  PROVE  Spec => []ConnectedIsWatched
<1>1. Init => Exclusive /\ SessionWatched
  <2> SUFFICES ASSUME Init PROVE Exclusive /\ SessionWatched
    OBVIOUS
  <2>1. InRunner = {} /\ Using = {}
    BY DEF Init, StateInit, InRunner, Using
  <2>2. Pending = INIT
    BY DEF Init, StateInit, Pending
  <2> QED
    BY <2>1, <2>2 DEF Exclusive, SessionWatched, Init, INIT, CONNECTED
<1>2. TypeOK /\ Exclusive /\ SessionWatched /\ [Next]_vars => Exclusive' /\ SessionWatched'
  <2> SUFFICES ASSUME WInv, [Next]_vars PROVE Exclusive' /\ SessionWatched'
    BY DEF WInv
  <2>1. ASSUME UNCHANGED <<stateVars, up, caller, startCmds, timers>>
        PROVE  Exclusive' /\ SessionWatched'
    BY <2>1 DEF WInv, Exclusive, SessionWatched, Watched, Using, InRunner, Pending, stateVars
  <2>2. ASSUME NEW c \in Client, OfClient(c) PROVE Exclusive' /\ SessionWatched'
    BY <2>1, <2>2 DEF OfClient, registerCallback, unregisterCallback
  <2>3. ASSUME NEW s \in Session, OfCaller(s) PROVE Exclusive' /\ SessionWatched'
    BY <2>3, CallerWatched
  <2>4. ASSUME NEW t \in Thread, OfRunner(t) PROVE Exclusive' /\ SessionWatched'
    BY <2>4, TeardownWatched, SilentWatched DEF OfRunner
  <2>5. CASE Elsewhere
    BY <2>5, ElsewhereWatched
  <2>6. CASE UNCHANGED vars
    BY <2>1, <2>6 DEF vars, svcVars
  <2> QED
    BY <2>2, <2>3, <2>4, <2>5, <2>6, NextIsOneOf
<1>3. TypeOK /\ Exclusive /\ SessionWatched => ConnectedIsWatched
  <2> SUFFICES ASSUME TypeOK, SessionWatched PROVE ConnectedIsWatched
    OBVIOUS
  <2>1. startCmds \in Nat
    BY DEF TypeOK
  <2> QED
    BY <2>1 DEF ConnectedIsWatched, SessionWatched, Watched, Pending
<1> QED
  BY <1>1, <1>2, <1>3, TypeCorrect, PTL DEF Spec

=============================================================================
