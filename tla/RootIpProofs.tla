---------------------------- MODULE RootIpProofs ----------------------------
(***************************************************************************)
(* A chain of connect() calls beside which no other chain and no opening   *)
(* of the app has run since its click: what it asks, for any set of        *)
(* addresses, any pages, and however the texts of the addresses overlap.   *)
(***************************************************************************)
EXTENDS RootIp, TLAPS

\* An address may be asked once for its entry in the history, and once more if
\* the chain began with it.
Allowed(c, a) ==
  (IF a \in history THEN 1 ELSE 0) + (IF a = first[c] THEN 1 ELSE 0)

Holding == {"setIp", "readHistory", "setHistory"}
InCheckDns == {"fetch", "pick"} \cup Holding

\* What the chain owes to the order of its steps: what it holds is not in the
\* history yet, and what is in the history it has asked or is about to ask.
ChainOK(c) ==
  /\ \A a \in Ip : tried[c][a] <= Allowed(c, a)
  /\ first[c] = NoIp => \A a \in Ip : tried[c][a] = 0
  /\ pc[c] \notin {"idle", "root"} => \A a \in history : tried[c][a] > 0
  /\ pc[c] = "root" => \A a \in history : tried[c][a] > 0 \/ a = rootIp
  /\ pc[c] = "root" /\ first[c] # NoIp =>
       rootIp \in history /\ tried[c][rootIp] < Allowed(c, rootIp)
  /\ pc[c] \in InCheckDns /\ caller[c] # "catch" => first[c] = NoIp
  /\ pc[c] \in Holding => ip[c] \in Ip /\ ip[c] \notin history
  /\ pc[c] \in {"readHistory", "setHistory"} => rootIp = ip[c]
  /\ pc[c] = "setHistory" => seen[c] = history

\* A thread that has picked an address holds one.
HoldsOne == \A t \in Thread : pc[t] \in Holding => ip[t] # NoIp

TypeInv == TypeOK /\ HoldsOne

OthersIdle(c) == \A t \in Thread \ {c} : pc[t] = "idle"

AloneInv == TypeInv /\ \A c \in alone : OthersIdle(c) /\ ChainOK(c)

-----------------------------------------------------------------------------

\* What a step of any thread does to the types.
LEMMA TypeStep == TypeInv /\ [Next]_vars => TypeInv'
<1> SUFFICES ASSUME TypeInv, [Next]_vars PROVE TypeInv'
  OBVIOUS
<1> Chain \subseteq Thread /\ Opener \subseteq Thread
  BY DEF Thread
<1> USE RootIpAssumption DEF TypeInv, TypeOK, HoldsOne, Holding, Steps, prefs, local, asked, Goes, BeginsAlone
<1>1. ASSUME NEW t \in Thread, Fetch(t) PROVE TypeInv'
  BY <1>1 DEF Fetch
<1>2. ASSUME NEW t \in Thread, Pick(t) PROVE TypeInv'
  <2>1. ASSUME NEW i \in Fresh(page[t]) PROVE page[t][i] \in Ip
    <3>1. page[t] \in Pages \cup {<<>>} /\ <<>> \in Seq(Ip)
      OBVIOUS
    <3>2. page[t] \in Seq(Ip)
      BY ZenonT(60), <3>1
    <3> QED BY <2>1, <3>2 DEF Fresh
  <2>2. ASSUME NEW i \in Fresh(page[t]), ip' = [ip EXCEPT ![t] = page[t][i]],
               Goes(t, "pick", "setIp"),
               UNCHANGED <<prefs, caller, page, seen, lookups, asked, clicks>>
        PROVE TypeInv'
    <3>1. ip' \in [Thread -> Ip \cup {NoIp}] /\ ip'[t] # NoIp
      BY <2>1, <2>2
    <3> QED BY <2>2, <3>1
  <2>3. CASE CheckDnsReturns(t, "pick", FALSE) /\ UNCHANGED prefs
    BY <2>3 DEF CheckDnsReturns
  <2> QED BY ZenonT(60), <1>2, <2>2, <2>3 DEF Pick
<1>3. ASSUME NEW t \in Thread, SetIp(t) PROVE TypeInv'
  BY <1>3 DEF SetIp
<1>4. ASSUME NEW t \in Thread, ReadHistory(t) PROVE TypeInv'
  BY <1>4 DEF ReadHistory
<1>5. ASSUME NEW t \in Thread, SetHistory(t) PROVE TypeInv'
  <2>1. history' \subseteq Ip
    BY <1>5 DEF SetHistory, CheckDnsReturns
  <2> QED BY <1>5, <2>1 DEF SetHistory, CheckDnsReturns
<1>6. ASSUME NEW t \in Thread, Lookup(t) PROVE TypeInv'
  <2>1. lookups[t] \in 0..3 /\ lookups[t] < 3
    BY <1>6 DEF Lookup, Calls
  <2>2. lookups[t] + 1 \in 0..3
    BY <2>1
  <2> QED BY <1>6, <2>2 DEF Lookup, CallCheckDns
<1>7. ASSUME NEW t \in Thread, Ask(t) PROVE TypeInv'
  <2>1. CASE t \in Chain /\ rootIp # NoIp
    <3>1. tried[t] \in [Ip -> 0..3] /\ rootIp \in Ip
      BY <2>1
    <3>2. [tried[t] EXCEPT ![rootIp] = Counted(@)] \in [Ip -> 0..3]
      BY <3>1 DEF Counted
    <3>3. tried' = [tried EXCEPT ![t] = [tried[t] EXCEPT ![rootIp] = Counted(@)]]
      BY <1>7, <2>1 DEF Ask
    <3>4. tried' \in [Chain -> [Ip -> 0..3]]
      BY <2>1, <3>2, <3>3
    <3>5. first' \in [Chain -> Ip \cup {NoIp}]
      BY <1>7, <2>1, <3>1 DEF Ask
    <3> QED BY <1>7, <2>1, <3>4, <3>5 DEF Ask
  <2>2. CASE ~(t \in Chain /\ rootIp # NoIp)
    BY <1>7, <2>2 DEF Ask
  <2> QED BY <2>1, <2>2
<1>8. ASSUME NEW c \in Chain, Click(c) PROVE TypeInv'
  BY <1>8 DEF Click
<1>9. ASSUME NEW c \in Chain, Answered(c) \/ Fails(c) PROVE TypeInv'
  BY SMTT(60), <1>9 DEF Answered, Fails, CallCheckDns
<1>10. ASSUME NEW o \in Opener, Open(o) PROVE TypeInv'
  BY <1>10 DEF Open, CallCheckDns
<1>11. CASE Killed
  BY <1>11 DEF Killed
<1>12. CASE UNCHANGED vars
  BY <1>12 DEF vars
<1> QED
  BY <1>1, <1>2, <1>3, <1>4, <1>5, <1>6, <1>7, <1>8, <1>9, <1>10, <1>11, <1>12
  DEF Next, ThreadStep

\* TypeOK: every variable keeps its type, whatever the threads' interleaving; in
\* particular checkDns never stores the absence of an address.
THEOREM TypeCorrect == Spec => []TypeOK
<1>1. Init => TypeInv
  BY RootIpAssumption DEF Init, TypeInv, TypeOK, HoldsOne, Holding, Thread, Steps
<1>2. TypeInv => TypeOK
  BY DEF TypeInv
<1> QED BY <1>1, <1>2, TypeStep, PTL DEF Spec

\* A step that leaves a chain alone is its own, for the others are idle.
LEMMA OwnStep ==
  ASSUME AloneInv, [Next]_vars, NEW c \in alone, c \in alone'
  PROVE \/ Fetch(c) \/ Pick(c) \/ SetIp(c) \/ ReadHistory(c) \/ SetHistory(c)
        \/ Lookup(c) \/ Ask(c) \/ Click(c) \/ (Answered(c) \/ Fails(c)) \/ Killed
        \/ UNCHANGED vars
<1>1. \A t \in Thread : t # c => pc[t] = "idle"
  BY DEF AloneInv, OthersIdle
<1>2. ASSUME NEW t \in Thread, ThreadStep(t) PROVE t = c
  BY <1>1, <1>2 DEF ThreadStep, Fetch, Pick, SetIp, ReadHistory, SetHistory,
     CheckDnsReturns, Lookup, Ask, CallCheckDns, Goes
<1>3. ASSUME NEW d \in Chain, Click(d) PROVE d = c
  BY <1>3 DEF Click, BeginsAlone
<1>4. ASSUME NEW d \in Chain, Answered(d) \/ Fails(d) PROVE d = c
  BY <1>1, <1>4 DEF Answered, Fails, CallCheckDns, Goes, Thread
<1>5. ASSUME NEW o \in Opener, Open(o) PROVE FALSE
  BY <1>5 DEF Open
<1>6. CASE \E t \in Thread : ThreadStep(t)
  BY <1>2, <1>6 DEF ThreadStep
<1>7. CASE \E d \in Chain : Click(d) \/ Answered(d) \/ Fails(d)
  BY <1>3, <1>4, <1>7
<1> QED BY <1>5, <1>6, <1>7 DEF Next

\* Such a step keeps ChainOK.
LEMMA ChainStep ==
  ASSUME AloneInv, [Next]_vars, NEW c \in alone, c \in alone' PROVE ChainOK(c)'
<1>1. TypeOK /\ ChainOK(c) /\ TypeOK' /\ HoldsOne /\ c \in Chain /\ c \in Thread
  BY TypeStep DEF AloneInv, TypeInv, TypeOK, Thread
<1>a. \/ Fetch(c) \/ Pick(c) \/ SetIp(c) \/ ReadHistory(c) \/ SetHistory(c)
      \/ Lookup(c) \/ Ask(c) \/ Click(c) \/ (Answered(c) \/ Fails(c)) \/ Killed
      \/ UNCHANGED vars
  BY OwnStep
<1> USE RootIpAssumption, <1>1 DEF TypeOK, ChainOK, Allowed, Holding, InCheckDns, Goes,
        prefs, local, asked
<1>2. CASE Fetch(c)
  BY <1>2 DEF Fetch
<1>3. CASE Pick(c)
  <2>1. ASSUME NEW i \in Fresh(page[c]), ip' = [ip EXCEPT ![c] = page[c][i]],
               Goes(c, "pick", "setIp"),
               UNCHANGED <<prefs, caller, page, seen, lookups, asked, clicks>>
        PROVE ChainOK(c)'
    <3>1. ip'[c] = page[c][i] /\ ip'[c] \notin history
      BY SMTT(60), <2>1 DEF Fresh, Contains
    <3>2. ip'[c] \in Ip
      BY <2>1, TypeStep DEF AloneInv, TypeInv, HoldsOne
    <3> QED BY <2>1, <3>1, <3>2
  <2>2. CASE CheckDnsReturns(c, "pick", FALSE) /\ UNCHANGED prefs
    BY <2>2 DEF CheckDnsReturns
  <2> QED BY ZenonT(60), <1>3, <2>1, <2>2 DEF Pick
<1>4. CASE SetIp(c)
  BY <1>4 DEF SetIp
<1>5. CASE ReadHistory(c)
  BY <1>5 DEF ReadHistory
<1>6. CASE SetHistory(c)
  <2>1. /\ pc[c] = "setHistory" /\ pc'[c] \in {"idle", "root"}
        /\ history' = history \cup {ip[c]}
        /\ UNCHANGED <<rootIp, tried, first, caller>>
    BY <1>6 DEF SetHistory, CheckDnsReturns
  <2>2. ip[c] \in Ip /\ ip[c] \notin history /\ rootIp = ip[c]
    BY <2>1
  <2>3. tried[c] \in [Ip -> 0..3]
    OBVIOUS
  <2>4. \A a \in history : tried[c][a] > 0
    BY <2>1
  <2>r. PICK r \in Ip : r = ip[c]
    BY <2>2
  <2>5. ASSUME NEW a \in Ip
        PROVE /\ tried'[c][a] = tried[c][a] /\ tried[c][a] \in Int
              /\ tried[c][a] <= Allowed(c, a) /\ Allowed(c, a) \in Int
              /\ Allowed(c, a)' = Allowed(c, a) + IF a = r THEN 1 ELSE 0
    BY <2>1, <2>2, <2>3, <2>r
  <2>6. ASSUME NEW a \in Ip
        PROVE tried'[c][a] <= Allowed(c, a)' /\ (a = r => tried'[c][a] < Allowed(c, a)')
    <3> HIDE DEF Allowed, ChainOK
    <3> QED BY <2>5
  <2>7. rootIp' = r /\ r \in history'
    BY <2>1, <2>2, <2>r
  <2>8. (tried[c][rootIp] < Allowed(c, rootIp))'
    BY <2>6, <2>7, <2>r
  <2> HIDE DEF Allowed
  <2> QED BY <2>1, <2>2, <2>4, <2>6, <2>7, <2>8
<1>7. CASE Lookup(c)
  BY <1>7 DEF Lookup, CallCheckDns
<1>8. CASE Ask(c)
  <2>1. CASE rootIp = NoIp
    BY <1>8, <2>1 DEF Ask
  <2>2. CASE rootIp # NoIp
    <3>1. /\ rootIp \in Ip /\ pc[c] = "root" /\ pc'[c] = "get"
          /\ UNCHANGED <<rootIp, history>>
          /\ tried'[c] = [tried[c] EXCEPT ![rootIp] = Counted(@)]
          /\ first'[c] = IF first[c] = NoIp THEN rootIp ELSE first[c]
      BY <1>8, <2>2 DEF Ask
    <3>2. tried[c] \in [Ip -> 0..3]
      OBVIOUS
    <3>3. \A a \in Ip : a # rootIp => tried'[c][a] = tried[c][a]
      BY <3>1, <3>2
    <3>a. tried[c][rootIp] \in 0..3 /\ tried'[c][rootIp] = Counted(tried[c][rootIp])
      BY <3>1, <3>2
    <3>b. /\ tried'[c][rootIp] \in 1..3
          /\ tried'[c][rootIp] <= tried[c][rootIp] + 1
      BY <3>a DEF Counted
    <3>c. \A a \in Ip : tried[c][a] \in 0..3
      BY <3>2
    <3>4. ASSUME NEW a \in Ip PROVE tried'[c][a] <= Allowed(c, a)'
      <4>1. CASE first[c] = NoIp
        BY <3>1, <3>3, <3>a, <3>b, <3>c, <4>1
      <4>2. CASE first[c] # NoIp
        BY <3>1, <3>3, <3>a, <3>b, <3>c, <4>2
      <4> QED BY <4>1, <4>2
    <3>5. \A a \in history' : tried'[c][a] > 0
      BY <3>1, <3>3, <3>a, <3>b, <3>c
    <3> QED BY <2>2, <3>1, <3>4, <3>5
  <2> QED BY <2>1, <2>2
<1>9. CASE Click(c)
  BY <1>9 DEF Click
<1>10. CASE Answered(c) \/ Fails(c)
  BY <1>10 DEF Answered, Fails, CallCheckDns
<1>11. CASE Killed
  BY <1>11 DEF Killed
<1>12. CASE UNCHANGED vars
  BY <1>12 DEF vars
<1> HIDE DEF ChainOK
<1> QED BY <1>a, <1>2, <1>3, <1>4, <1>5, <1>6, <1>7, <1>8, <1>9, <1>10, <1>11, <1>12

\* A chain that is alone after a step was so before it, or has just begun.
LEMMA AloneStep == AloneInv /\ [Next]_vars => AloneInv'
<1> SUFFICES ASSUME AloneInv, [Next]_vars, NEW c \in alone'
             PROVE OthersIdle(c)' /\ ChainOK(c)'
  BY TypeStep DEF AloneInv
<1>1. TypeOK /\ TypeOK' /\ c \in Chain /\ c \in Thread
  BY TypeStep DEF AloneInv, TypeInv, TypeOK, Thread
<1>2. CASE \E d \in Chain : Click(d)
  <2>1. Click(c) /\ \A t \in Thread \ {c} : pc[t] = "idle"
    BY ZenonT(60), <1>2 DEF Click, BeginsAlone
  <2>2. OthersIdle(c)'
    BY <1>1, <2>1 DEF Click, Goes, OthersIdle, TypeOK
  <2>3. /\ pc'[c] = "root" /\ history' = {} /\ first'[c] = NoIp
        /\ tried'[c] = [a \in Ip |-> 0]
    BY <1>1, <2>1 DEF Click, Goes, TypeOK
  <2>4. ChainOK(c)'
    BY RootIpAssumption, <2>3 DEF ChainOK, Allowed, Holding, InCheckDns
  <2> QED BY <2>2, <2>4
<1>3. CASE ~\E d \in Chain : Click(d)
  <2>1. c \in alone
    BY <1>3 DEF Next, ThreadStep, Fetch, Pick, SetIp, ReadHistory, SetHistory,
       CheckDnsReturns, Lookup, Ask, Answered, Fails, Open, Killed, vars, asked
  <2>2. ChainOK(c)'
    BY <2>1, ChainStep
  <2>3. OthersIdle(c)
    BY SMTT(60), <2>1 DEF AloneInv
  <2>4. \A t \in Thread \ {c} : pc'[t] = "idle"
    <3> SUFFICES ASSUME NEW t \in Thread, t # c
                 PROVE  pc'[t] = "idle"
      OBVIOUS
    <3>1. pc[t] = "idle" /\ pc \in [Thread -> Steps]
      BY <1>1, <2>3 DEF OthersIdle, TypeOK
    <3>2. CASE Fetch(c) \/ Pick(c) \/ SetIp(c)
      BY <3>1, <3>2 DEF Fetch, Pick, SetIp, CheckDnsReturns, CallCheckDns, Goes
    <3>3. CASE ReadHistory(c) \/ SetHistory(c) \/ Lookup(c) \/ Ask(c)
      BY <3>1, <3>3
      DEF ReadHistory, SetHistory, Lookup, Ask, CheckDnsReturns, CallCheckDns, Goes
    <3>4. CASE Click(c) \/ Answered(c) \/ Fails(c)
      BY <3>1, <3>4 DEF Click, Answered, Fails, CallCheckDns, Goes
    <3>5. CASE Killed \/ UNCHANGED vars
      BY <3>1, <3>5 DEF Killed, vars
    <3> QED
      BY ZenonT(60), <2>1, <3>2, <3>3, <3>4, <3>5, OwnStep
  <2> QED BY <2>2, <2>4 DEF OthersIdle
<1> QED BY <1>2, <1>3

\* What ChainOK says of the servers asked.
LEMMA AloneMeans == AloneInv => EachServerOnce /\ GivesUpAfterAll
<1> SUFFICES ASSUME AloneInv, NEW c \in alone
             PROVE /\ \A a \in Ip : tried[c][a] <= IF a = first[c] THEN 2 ELSE 1
                   /\ pc[c] = "pick" /\ Fresh(page[c]) = {} =>
                        \A i \in DOMAIN page[c] :
                          \E a \in Ip : tried[c][a] > 0 /\ Contains({a}, page[c][i])
  BY ZenonT(60) DEF EachServerOnce, GivesUpAfterAll
<1>1. TypeOK /\ ChainOK(c) /\ c \in Chain
  BY DEF AloneInv, TypeInv, TypeOK
<1>2. ASSUME NEW a \in Ip PROVE tried[c][a] <= IF a = first[c] THEN 2 ELSE 1
  BY SMTT(60), <1>1 DEF TypeOK, ChainOK, Allowed
<1>3. ASSUME pc[c] = "pick", Fresh(page[c]) = {}, NEW i \in DOMAIN page[c]
      PROVE \E a \in Ip : tried[c][a] > 0 /\ Contains({a}, page[c][i])
  <2>1. PICK a \in history : page[c][i] = a \/ <<page[c][i], a>> \in Inside
    BY <1>3 DEF Fresh, Contains
  <2>2. a \in Ip /\ tried[c][a] > 0
    BY <1>1, <1>3 DEF TypeOK, ChainOK
  <2> QED BY SMTT(60), <2>1, <2>2 DEF Contains
<1> QED BY ZenonT(60), <1>2, <1>3

LEMMA AloneInvariant == Spec => []AloneInv
<1>1. Init => AloneInv
  <2> SUFFICES ASSUME Init PROVE AloneInv
    OBVIOUS
  <2>1. TypeInv
    BY RootIpAssumption DEF Init, TypeInv, TypeOK, HoldsOne, Holding, Thread, Steps
  <2> QED BY <2>1 DEF AloneInv, Init
<1>2. AloneInv /\ [Next]_vars => AloneInv'
  BY AloneStep
<1> QED BY <1>1, <1>2, PTL DEF Spec

\* The retries of VpnConnector.connect, while nothing else touches the history:
\* no server is asked twice but the one the chain began with.
THEOREM AloneAsksEachOnce == Spec => []EachServerOnce
<1> QED BY AloneInvariant, AloneMeans, PTL

\* And none on the list of getRootIp is left out when the chain gives up, up to
\* addresses whose text contains it.
THEOREM AloneAsksAll == Spec => []GivesUpAfterAll
<1> QED BY AloneInvariant, AloneMeans, PTL

=============================================================================
