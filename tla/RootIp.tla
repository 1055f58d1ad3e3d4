------------------------------- MODULE RootIp -------------------------------
(***************************************************************************)
(* Which root server the app talks to: the stored address, the history of  *)
(* the addresses taken since the switch was last turned on, Api.checkDns,  *)
(* which takes the next one from a published page, and                     *)
(* VpnConnector.connect, which asks the root server for a configuration    *)
(* and tries the next one when that fails.                                 *)
(*                                                                         *)
(* Each chain of connect() calls is a thread, and so is the check that     *)
(* MainActivity makes when it opens.  They share two preferences and take  *)
(* no lock: a read or a write of one is a step of its own.                 *)
(***************************************************************************)
EXTENDS Integers, Sequences

CONSTANTS Ip, NoIp,
          Pages,      \* lists of addresses the page may show; <<>> when unreadable
          Inside,     \* pairs <<a, b>>: the text of a is a part of the text of b
          Chain,      \* chains of connect() calls
          Opener,     \* openings of MainActivity
          MaxClicks   \* bound on the times the switch is turned on

ASSUME RootIpAssumption ==
  /\ NoIp \notin Ip /\ Pages \subseteq Seq(Ip) /\ Inside \subseteq Ip \X Ip
  /\ Chain \cap Opener = {} /\ MaxClicks \in Nat

VARIABLES
  rootIp,     \* preference root_ip_<version>
  history,    \* preference root_ip_<version>history, as the set of its entries
  pc, caller, \* per thread: the next step, and what called checkDns
  page,       \* per thread: the list it has read
  ip,         \* per thread: the address checkDns has picked
  seen,       \* per thread: the history it read to append to it
  lookups,    \* per thread: calls of checkDns by Const.getRootIp
  tried,      \* per chain: how often each address was asked since the click
  first,      \* per chain: the address it asked first
  alone,      \* the chain that nothing else has run beside since its click
  clicks

prefs == <<rootIp, history>>
local == <<page, ip, seen>>
asked == <<tried, first, alone>>
vars  == <<prefs, pc, caller, local, lookups, asked, clicks>>

Thread == Chain \cup Opener

\* String.contains on the comma-separated history.
Contains(h, a) == \E b \in h : a = b \/ <<a, b>> \in Inside

Steps == {"idle", "root", "get", "fetch", "pick", "setIp", "readHistory", "setHistory"}

TypeOK ==
  /\ rootIp \in Ip \cup {NoIp} /\ history \subseteq Ip
  /\ pc \in [Thread -> Steps] /\ caller \in [Thread -> {"open", "root", "catch"}]
  /\ page \in [Thread -> Pages \cup {<<>>}] /\ ip \in [Thread -> Ip \cup {NoIp}]
  /\ seen \in [Thread -> SUBSET Ip] /\ lookups \in [Thread -> 0..3]
  /\ tried \in [Chain -> [Ip -> 0..3]] /\ first \in [Chain -> Ip \cup {NoIp}]
  /\ alone \subseteq Chain /\ clicks \in 0..MaxClicks

Init ==
  /\ rootIp = NoIp /\ history = {}
  /\ pc = [t \in Thread |-> "idle"] /\ caller = [t \in Thread |-> "open"]
  /\ page = [t \in Thread |-> <<>>] /\ ip = [t \in Thread |-> NoIp]
  /\ seen = [t \in Thread |-> {}] /\ lookups = [t \in Thread |-> 0]
  /\ tried = [c \in Chain |-> [a \in Ip |-> 0]] /\ first = [c \in Chain |-> NoIp]
  /\ alone = {} /\ clicks = 0

Goes(t, from, to) == pc[t] = from /\ pc' = [pc EXCEPT ![t] = to]

-----------------------------------------------------------------------------
(* Api.checkDns and Api.getRootIp                                          *)

CallCheckDns(t, from, by) ==
  Goes(t, from, "fetch") /\ caller' = [caller EXCEPT ![t] = by]

\* With a new address connect() is posted again; without one the chain gives up.
\* An opening goes on to ensureUser, and getRootIp reads the preference again.
CheckDnsReturns(t, from, changed) ==
  /\ Goes(t, from, IF caller[t] = "catch" /\ ~changed THEN "idle" ELSE "root")
  /\ lookups' = [lookups EXCEPT ![t] = IF caller[t] = "catch" THEN 0 ELSE @]
  /\ page' = [page EXCEPT ![t] = <<>>] /\ ip' = [ip EXCEPT ![t] = NoIp]
  /\ seen' = [seen EXCEPT ![t] = {}]
  /\ UNCHANGED <<caller, asked, clicks>>

Fetch(t) ==
  /\ Goes(t, "fetch", "pick")
  /\ \E p \in Pages : page' = [page EXCEPT ![t] = p]
  /\ UNCHANGED <<prefs, caller, ip, seen, lookups, asked, clicks>>

\* Places of the list whose address the history does not contain.
Fresh(p) == {i \in DOMAIN p : ~Contains(history, p[i])}

Pick(t) ==
  \/ /\ \E i \in Fresh(page[t]) :
          /\ \A j \in Fresh(page[t]) : i <= j
          /\ ip' = [ip EXCEPT ![t] = page[t][i]]
     /\ Goes(t, "pick", "setIp")
     /\ UNCHANGED <<prefs, caller, page, seen, lookups, asked, clicks>>
  \/ /\ Fresh(page[t]) = {} /\ CheckDnsReturns(t, "pick", FALSE)
     /\ UNCHANGED prefs

SetIp(t) ==
  /\ Goes(t, "setIp", "readHistory") /\ rootIp' = ip[t]
  /\ UNCHANGED <<history, caller, local, lookups, asked, clicks>>

ReadHistory(t) ==
  /\ Goes(t, "readHistory", "setHistory") /\ seen' = [seen EXCEPT ![t] = history]
  /\ UNCHANGED <<prefs, caller, page, ip, lookups, asked, clicks>>

\* Mutant: the history is replaced by the last address instead of extended.
LastOnly(t) ==
  /\ CheckDnsReturns(t, "setHistory", TRUE) /\ history' = {ip[t]}
  /\ UNCHANGED rootIp

SetHistory(t) ==
  /\ CheckDnsReturns(t, "setHistory", TRUE) /\ history' = seen[t] \cup {ip[t]}
  /\ UNCHANGED rootIp

-----------------------------------------------------------------------------
(* Const.getRootIp, Api.getConfiguration, VpnConnector.connect, callers    *)

\* getConfiguration asks for the address three times, twice for the log;
\* ensureUser asks once.
Calls(t) == IF t \in Chain THEN 3 ELSE 1

\* Mutant: the page is asked again and again until it shows an address.
LookupUntilFound(t) ==
  /\ rootIp = NoIp /\ lookups' = [lookups EXCEPT ![t] = @ + 1]
  /\ CallCheckDns(t, "root", "root")
  /\ UNCHANGED <<prefs, local, asked, clicks>>

\* Const.getRootIp: with no address stored, checkDns is called.
Lookup(t) ==
  /\ rootIp = NoIp /\ lookups[t] < Calls(t)
  /\ lookups' = [lookups EXCEPT ![t] = @ + 1]
  /\ CallCheckDns(t, "root", "root")
  /\ UNCHANGED <<prefs, local, asked, clicks>>

\* A history variable: it stops at 3, more than a chain alone may reach, so that
\* a chain that never ends would be a cycle.
Counted(n) == IF n < 3 THEN n + 1 ELSE n

\* The request goes to the address stored, if any; an opening ends here.
Ask(t) ==
  /\ rootIp # NoIp \/ lookups[t] = Calls(t)
  /\ IF t \in Chain /\ rootIp # NoIp
     THEN /\ tried' = [tried EXCEPT ![t][rootIp] = Counted(@)]
          /\ first' = [first EXCEPT ![t] = IF @ = NoIp THEN rootIp ELSE @]
     ELSE UNCHANGED <<tried, first>>
  /\ Goes(t, "root", IF t \in Chain THEN "get" ELSE "idle")
  /\ UNCHANGED <<prefs, caller, local, lookups, alone, clicks>>

\* 200 leads to doConnect; 402 and 403 end the chain with a message.
Answered(c) ==
  /\ first[c] # NoIp /\ Goes(c, "get", "idle")
  /\ UNCHANGED <<prefs, caller, local, lookups, asked, clicks>>

\* Any other answer, and any exception, doConnect's included.
Fails(c) ==
  /\ CallCheckDns(c, "get", "catch")
  /\ UNCHANGED <<prefs, local, lookups, asked, clicks>>

BeginsAlone(c) ==
  alone' = IF \A t \in Thread \ {c} : pc[t] = "idle" THEN {c} ELSE {}

\* Mutant: the history is not cleared when the switch is turned on.
ClickKeepsHistory(c) ==
  /\ clicks < MaxClicks /\ clicks' = clicks + 1 /\ Goes(c, "idle", "root")
  /\ lookups' = [lookups EXCEPT ![c] = 0]
  /\ tried' = [tried EXCEPT ![c] = [a \in Ip |-> 0]]
  /\ first' = [first EXCEPT ![c] = NoIp] /\ BeginsAlone(c)
  /\ UNCHANGED <<prefs, caller, local>>

\* The switch is turned on: the history is cleared and connect() called.
Click(c) ==
  /\ clicks < MaxClicks /\ clicks' = clicks + 1 /\ Goes(c, "idle", "root")
  /\ history' = {} /\ lookups' = [lookups EXCEPT ![c] = 0]
  /\ tried' = [tried EXCEPT ![c] = [a \in Ip |-> 0]]
  /\ first' = [first EXCEPT ![c] = NoIp] /\ BeginsAlone(c)
  /\ UNCHANGED <<rootIp, caller, local>>

Open(o) ==
  /\ CallCheckDns(o, "idle", "open") /\ lookups' = [lookups EXCEPT ![o] = 0]
  /\ alone' = {}
  /\ UNCHANGED <<prefs, local, tried, first, clicks>>

\* The process is killed; the preferences stay.
Killed ==
  /\ pc' = [t \in Thread |-> "idle"] /\ lookups' = [t \in Thread |-> 0]
  /\ page' = [t \in Thread |-> <<>>] /\ ip' = [t \in Thread |-> NoIp]
  /\ seen' = [t \in Thread |-> {}]
  /\ UNCHANGED <<prefs, caller, asked, clicks>>

ThreadStep(t) ==
  \/ Fetch(t) \/ Pick(t) \/ SetIp(t) \/ ReadHistory(t) \/ SetHistory(t)
  \/ Lookup(t) \/ Ask(t)

Next ==
  \/ \E t \in Thread : ThreadStep(t)
  \/ \E c \in Chain : Click(c) \/ Answered(c) \/ Fails(c)
  \/ \E o \in Opener : Open(o)
  \/ Killed

Spec == Init /\ [][Next]_vars

\* Waiting for the answer to a request.  It may take for ever: Api.get has a timeout for
\* the connection and none for the answer, and initHttpClient waits for the lock that a
\* post holds until it is answered.
Requests == {"fetch", "get"}

\* A thread that runs goes on, unless it waits for an answer.
Fairness == \A t \in Thread : WF_vars(pc[t] \notin Requests /\ ThreadStep(t))

FairSpec == Spec /\ Fairness

-----------------------------------------------------------------------------
(* Properties                                                              *)

\* VpnConnector.connect calls itself on failure, with nothing that counts the
\* attempts.  Every chain ends all the same, even when chains and openings
\* overwrite one another's history; the exception is a request that is never
\* answered, which holds its chain for good.
RetriesEnd == \A c \in Chain : []<>(pc[c] = "idle") \/ <>[](pc[c] \in Requests)

\* VpnConnector.connect: a chain beside which nothing has run since its click asks
\* no root server twice, except that checkDns may offer it the one it began with,
\* which the cleared history does not contain.
EachServerOnce ==
  \A c \in alone, a \in Ip : tried[c][a] <= IF a = first[c] THEN 2 ELSE 1

\* Such a chain gives up only when it has asked every server on the list that
\* checkDns read last, or one whose text contains that server's.
GivesUpAfterAll ==
  \A c \in alone :
    pc[c] = "pick" /\ caller[c] = "catch" /\ Fresh(page[c]) = {} =>
      \A i \in DOMAIN page[c] :
        \E a \in Ip : tried[c][a] > 0 /\ Contains({a}, page[c][i])

=============================================================================
