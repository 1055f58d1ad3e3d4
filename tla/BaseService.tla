----------------------------- MODULE BaseService -----------------------------
(***************************************************************************)
(* What the runner does to the state of BaseService, seen from outside:    *)
(* the state only changes by Runnables that changeState posts on the main  *)
(* looper, and every thread that uses the runner goes through the phases   *)
(* below.  VpnRunner implements this specification; ReindeerVpnService     *)
(* builds the lifecycle of the service on it.                              *)
(***************************************************************************)
EXTENDS Integers, Sequences

CONSTANTS Session,    \* one per call of start(config)
          Main, Binder,
          MaxPosts    \* bound on the Runnables the looper holds

VARIABLES
  state,      \* BaseService.state
  looper,     \* Runnables posted by changeState, by the state they carry
  phase       \* per thread, where it is

stateVars == <<state, looper, phase>>

INIT       == "INIT"
CONNECTING == "CONNECTING"
CONNECTED  == "CONNECTED"
STOPPING   == "STOPPING"
STOPPED    == "STOPPED"
State == {INIT, CONNECTING, CONNECTED, STOPPING, STOPPED}

Thread == Session \cup {Main, Binder}

\* At rest; in a start that has posted CONNECTING; in a stopRunner that has posted
\* STOPPING; after a failed start has posted STOPPED; ended without its last
\* word; over.
Phase == {"rest", "starting", "stopping", "failed", "silent", "over"}

InRunner == {t \in Thread : phase[t] \in {"starting", "stopping", "failed"}}

StateTypeOK ==
  state \in State /\ looper \in Seq(State) /\ phase \in [Thread -> Phase]

StateInit ==
  state = INIT /\ looper = <<>> /\ phase = [t \in Thread |-> "rest"]

\* The bound is not put on a thread's last word: it holds no thread inside.
lastWord(s) == looper' = Append(looper, s) /\ UNCHANGED state
changeState(s) == Len(looper) < MaxPosts /\ lastWord(s)

Passes(t, from, to) == phase[t] = from /\ phase' = [phase EXCEPT ![t] = to]

Quietly(t, from, to) == Passes(t, from, to) /\ UNCHANGED <<state, looper>>

RunPosted ==
  /\ phase[Main] = "rest" /\ looper # <<>>
  /\ state' = Head(looper) /\ looper' = Tail(looper) /\ UNCHANGED phase

\* startRunner returns early without the VPN permission, and is not even called
\* when the start is ignored.
Connecting(s) == Passes(s, "rest", "starting") /\ changeState(CONNECTING)
Ignored(s) == Quietly(s, "rest", "over")

\* A start ends with CONNECTED, or reports its failure and goes on to stopRunner.
Connected(s) == Passes(s, "starting", "over") /\ lastWord(CONNECTED)
Report(s) == Passes(s, "starting", "starting") /\ changeState(STOPPED)

BeginStop(t) ==
  /\ Passes(t, IF t \in Session THEN "starting" ELSE "rest", "stopping")
  /\ changeState(STOPPING)

EndStop(t) ==
  /\ \E to \in IF t \in Session THEN {"starting", "failed", "over"} ELSE {"rest"} :
       Passes(t, "stopping", to)
  /\ lastWord(STOPPED)

\* A failed start clears config; it goes on if another start has set it again.
GoOn(s) == \E to \in {"starting", "over"} : Quietly(s, "failed", to)

\* A thread other than Main ends without a word: it finds config cleared, or an
\* exception ends it.  The binder's thread can be used again.
EndsSilently(t) ==
  t # Main /\ \E from \in {"starting", "stopping"} : Quietly(t, from, "silent")
Revive(t) == t \notin Session /\ Quietly(t, "silent", "rest")

\* The process ends, and its successor begins; no session lives twice.
Restart ==
  /\ state' = INIT /\ looper' = <<>>
  /\ phase' \in [Thread -> {"rest", "over"}]
  /\ \A t \in Thread : phase'[t] = "rest" => t \notin Session \/ phase[t] = "rest"

StateNext ==
  \/ RunPosted \/ Restart
  \/ \E s \in Session :
       Connecting(s) \/ Ignored(s) \/ Connected(s) \/ Report(s) \/ GoOn(s)
  \/ \E t \in Thread : BeginStop(t) \/ EndStop(t) \/ EndsSilently(t) \/ Revive(t)

StateSpec == StateInit /\ [][StateNext]_stateVars

=============================================================================
