-------------------------- MODULE DownloaderProofs --------------------------
(***************************************************************************)
(* Type correctness of the speed test, that every entry that keeps a       *)
(* server from being tested is accounted for, and that no row is left as   *)
(* being tested, for any servers, speeds and any number of tests and       *)
(* visits.                                                                 *)
(***************************************************************************)
EXTENDS Downloader, TLAPS

Task == [nas : Nas, object : Nat, at : At, cancelled : BOOLEAN, speed : Speed]
Row  == [started : BOOLEAN, finished : BOOLEAN, speed : Speed]

\* Main is idle, or in the middle of a call.
MainState ==
  {Idle} \cup [at : {"put"}, task : Nat] \cup [at : {"cancel"}, i : 1..Len(Routes)]
  \cup [at : {"destroy"}, todo : SUBSET Nas, dirty : BOOLEAN]
  \cup [at : {"get"}, nas : Nas, todo : SUBSET Nas, dirty : BOOLEAN]

\* TypeOK in parts, one per group of variables.
ScreenType ==
  /\ screen \in {"shown", "leaving", "stopped", "closed"} /\ btn \in {"start", "stop"}
  /\ row \in [Nas -> Row]
  /\ current \in Nas \cup {NoNas} /\ route \in -1..Len(Routes) - 1 /\ uses \in 0..MaxUses

UpdatesType == updates \in Seq(Update)

ServiceType ==
  /\ connection \in {"none", "binding", "bound"}
  /\ leaked \in BOOLEAN /\ started \in BOOLEAN /\ created \in BOOLEAN
  /\ cmds \in Seq(Nas) /\ object \in Nat

MapType ==
  /\ tasks \in Seq(Task) /\ mTasks \in [Nas -> 0..Len(tasks)]
  /\ \A n \in Nas : mTasks[n] # 0 =>
       tasks[mTasks[n]].nas = n /\ tasks[mTasks[n]].object = object
  /\ early \subseteq DOMAIN tasks

MainType == main \in MainState

CheckType == check \in Iteration /\ late \in {"no", "yes", "dirty"} /\ crashed \in BOOLEAN

Typed ==
  /\ ScreenType /\ UpdatesType /\ ServiceType /\ MapType /\ MainType /\ CheckType

LEMMA TypedIsTypeOK == Typed => TypeOK
<1>1. MainType => main.at \in {"idle", "put", "cancel", "destroy", "get"}
  BY DEF MainType, MainState, Idle
<1> QED
  BY <1>1 DEF Typed, ScreenType, UpdatesType, ServiceType, MapType, CheckType, TypeOK, Task,
              Row

\* What an action leaves alone keeps its type.
LEMMA Frame ==
  ASSUME Typed
  PROVE  /\ UNCHANGED screenVars => ScreenType'
         /\ UNCHANGED updates => UpdatesType'
         /\ UNCHANGED serviceVars => ServiceType'
         /\ UNCHANGED <<tasks, mTasks, early, object>> => MapType'
         /\ UNCHANGED main => MainType'
         /\ UNCHANGED <<check, late, crashed>> => CheckType'
<1>1. UNCHANGED screenVars => ScreenType'
  BY DEF Typed, ScreenType, screenVars
<1>2. UNCHANGED updates => UpdatesType'
  BY DEF Typed, UpdatesType
<1>3. UNCHANGED serviceVars => ServiceType'
  BY DEF Typed, ServiceType, serviceVars
<1>4. UNCHANGED <<tasks, mTasks, early, object>> => MapType'
  BY DEF Typed, MapType
<1>5. UNCHANGED main => MainType'
  BY DEF Typed, MainType
<1>6. UNCHANGED <<check, late, crashed>> => CheckType'
  BY DEF Typed, CheckType
<1> QED
  BY <1>1, <1>2, <1>3, <1>4, <1>5, <1>6

-----------------------------------------------------------------------------
(* What the steps are made of                                              *)

\* The list starts at a server, wherever it is rotated to.
LEMMA RotatedType ==
  ASSUME Typed
  PROVE  Rotated \in Seq(Nas)
<1> DEFINE N == Len(Routes)
<1>1. Routes \in Seq(Nas) /\ N \in Nat
  BY DownloaderAssumption
<1>2. route \in Int
  BY <1>1 DEF Typed, ScreenType
<1>3. ASSUME NEW i \in 1..N
      PROVE  Routes[((i - 1 + route + 1) % N) + 1] \in Nas
  <2>1. N > 0 /\ (i - 1 + route + 1) \in Int
    BY <1>1, <1>2, <1>3
  <2>2. (i - 1 + route + 1) % N \in 0..(N - 1)
    BY <1>1, <2>1
  <2> QED
    BY <1>1, <2>2
<1>4. Rotated \in [1..N -> Nas]
  BY <1>3 DEF Rotated
<1> QED
  BY <1>1, <1>4

LEMMA SentType ==
  ASSUME Typed, NEW u \in Update, sendBroadcast(u)
  PROVE  UpdatesType'
BY DEF Typed, UpdatesType, sendBroadcast

LEMMA AboutType ==
  ASSUME Typed, NEW k \in DOMAIN tasks, NEW s \in Speed, NEW kind \in Kind
  PROVE  About(kind, k, s) \in Update
<1>1. tasks[k] \in Task
  BY DEF Typed, MapType
<1>2. tasks[k].nas \in Nas
  BY <1>1 DEF Task
<1> QED
  BY <1>2 DEF About, Update

LEMMA DirtiedType ==
  ASSUME Typed
  PROVE  Dirtied(check) \in Iteration
BY ZenonT(60) DEF Typed, CheckType, Dirtied, Iteration

LEMMA SpeedZero == 0 \in Speed
BY DownloaderAssumption DEF Speed

LEMMA NoRowType == [n \in Nas |-> NoRow] \in [Nas -> Row]
BY SpeedZero DEF NoRow, Row

\* What a step makes of one task leaves it for its server and its object.
LEMMA TaskStep ==
  ASSUME Typed, NEW k \in DOMAIN tasks, NEW t \in Task,
         t.nas = tasks[k].nas, t.object = tasks[k].object,
         tasks' = [tasks EXCEPT ![k] = t], mTasks' \in [Nas -> Nat],
         \A n \in Nas : mTasks'[n] \in {mTasks[n], 0}, UNCHANGED <<early, object>>
  PROVE  MapType'
<1>1. tasks' \in Seq(Task) /\ Len(tasks') = Len(tasks) /\ DOMAIN tasks' = DOMAIN tasks
  BY DEF Typed, MapType
<1>2. \A j \in DOMAIN tasks : tasks'[j].nas = tasks[j].nas /\ tasks'[j].object = tasks[j].object
  BY DEF Typed, MapType
<1>3. mTasks \in [Nas -> 0..Len(tasks)] /\ Len(tasks) \in Nat /\ DOMAIN tasks = 1..Len(tasks)
  BY DEF Typed, MapType
<1>4. mTasks' \in [Nas -> 0..Len(tasks')]
  BY SMTT(60), <1>1, <1>3
<1>5. ASSUME NEW n \in Nas, mTasks'[n] # 0
      PROVE  tasks'[mTasks'[n]].nas = n /\ tasks'[mTasks'[n]].object = object'
  <2>1. mTasks'[n] = mTasks[n] /\ mTasks[n] \in DOMAIN tasks
    BY <1>3, <1>5
  <2> QED
    BY <1>2, <2>1, <1>5 DEF Typed, MapType
<1>6. early' \subseteq DOMAIN tasks'
  BY <1>1 DEF Typed, MapType
<1> QED
  BY <1>1, <1>4, <1>5, <1>6 DEF MapType

\* The task after a step of it is one task's step.
LEMMA CancelledOne ==
  ASSUME Typed, NEW k \in DOMAIN tasks
  PROVE  \E t \in Task : /\ t.nas = tasks[k].nas /\ t.object = tasks[k].object
                         /\ Cancelled(k) = [tasks EXCEPT ![k] = t]
<1>1. tasks[k] \in Task /\ tasks \in Seq(Task)
  BY DEF Typed, MapType
<1>2. CASE tasks[k].at = "queued"
  <2> DEFINE t == [tasks[k] EXCEPT !.at = "over"]
  <2>1. t \in Task /\ t.nas = tasks[k].nas /\ t.object = tasks[k].object
    BY <1>1 DEF Task, At
  <2>2. Cancelled(k) = [tasks EXCEPT ![k] = t]
    BY <1>1, <1>2 DEF Cancelled, Running
  <2> QED
    BY ZenonT(60), <2>1, <2>2
<1>3. CASE tasks[k].at \in Running
  <2> DEFINE t == [tasks[k] EXCEPT !.cancelled = TRUE]
  <2>1. t \in Task /\ t.nas = tasks[k].nas /\ t.object = tasks[k].object
    BY ZenonT(60), <1>1 DEF Task
  <2>2. Cancelled(k) = [tasks EXCEPT ![k] = t]
    BY <1>1, <1>3 DEF Cancelled, Running
  <2> QED
    BY ZenonT(60), <2>1, <2>2
<1>4. CASE tasks[k].at \notin Running \cup {"queued"}
  <2>1. Cancelled(k) = [tasks EXCEPT ![k] = tasks[k]]
    BY ZenonT(60), <1>1, <1>4 DEF Cancelled
  <2> QED
    BY ZenonT(60), <1>1, <2>1
<1> QED
  BY <1>2, <1>3, <1>4

LEMMA GoesOne ==
  ASSUME Typed, NEW k \in DOMAIN tasks, NEW from, NEW to \in At, Goes(k, from, to)
  PROVE  \E t \in Task : /\ t.nas = tasks[k].nas /\ t.object = tasks[k].object
                         /\ t.at = to /\ (t.cancelled => tasks[k].cancelled)
                         /\ tasks' = [tasks EXCEPT ![k] = t]
<1>1. tasks[k] \in Task /\ tasks \in Seq(Task)
  BY DEF Typed, MapType
<1>2. CASE to \in Running
  <2> DEFINE t == [tasks[k] EXCEPT !.at = to]
  <2>1. /\ t \in Task /\ t.nas = tasks[k].nas /\ t.object = tasks[k].object
        /\ t.at = to /\ t.cancelled = tasks[k].cancelled
    BY <1>1 DEF Task
  <2>2. tasks' = [tasks EXCEPT ![k] = t]
    BY <1>1, <1>2 DEF Goes
  <2> QED
    BY ZenonT(60), <2>1, <2>2
<1>3. CASE to \notin Running
  <2> DEFINE t == [tasks[k] EXCEPT !.at = to, !.speed = 0, !.cancelled = FALSE]
  <2>1. /\ t \in Task /\ t.nas = tasks[k].nas /\ t.object = tasks[k].object
        /\ t.at = to /\ t.cancelled = FALSE
    BY ZenonT(60), <1>1, SpeedZero DEF Task
  <2>2. tasks' = [tasks EXCEPT ![k] = t]
    BY <1>1, <1>3 DEF Goes
  <2> QED
    BY ZenonT(60), <2>1, <2>2
<1> QED
  BY <1>2, <1>3

-----------------------------------------------------------------------------
(* Entries that are accounted for                                          *)

\* A task that has removed its entry has none, unless it was put later.
Settled(k) == ~tasks[k].cancelled /\ (tasks[k].at \in {"report", "over"} => k \in early)

\* What is cancelled is taken out in the same call, but for the end of the service.
Accounted ==
  created /\ main.at \notin {"destroy", "get"} =>
    \A n \in Nas : mTasks[n] # 0 => Settled(mTasks[n])

\* Nobody can cancel a task that is not put yet.
ToPut ==
  main.at = "put" =>
    /\ created /\ main.task \in DOMAIN tasks
    /\ tasks[main.task].object = object /\ ~tasks[main.task].cancelled

Inv == Typed /\ Accounted /\ ToPut

LEMMA InvAccounts == Inv => LeftoverAccounted
<1> SUFFICES ASSUME Inv, created, main = Idle, NEW n \in Entries, Done(mTasks[n])
             PROVE  tasks[mTasks[n]].at \in {"failed", "mute"} \/ mTasks[n] \in early
  BY DEF LeftoverAccounted
<1>1. Settled(mTasks[n])
  BY DEF Inv, Accounted, Idle, Entries
<1> QED
  BY <1>1 DEF Settled, Done

LEMMA AccountFrame ==
  ASSUME Inv, UNCHANGED <<tasks, mTasks, early, object, created, main>>
  PROVE  Accounted' /\ ToPut'
BY DEF Inv, Accounted, ToPut, Settled

\* A step of the pool's thread.
LEMMA AccountStep ==
  ASSUME Inv, NEW k \in DOMAIN tasks, NEW t \in Task,
         t.object = tasks[k].object, t.cancelled => tasks[k].cancelled,
         tasks' = [tasks EXCEPT ![k] = t],
         \A n \in Nas : mTasks'[n] \in {mTasks[n], 0},
         created /\ t.at \in {"report", "over"} =>
           tasks[k].at \in {"report", "over"} \/ \A n \in Nas : mTasks'[n] # k,
         UNCHANGED <<early, object, created>>,
         main'.at = main.at, main.at = "put" => main' = main
  PROVE  Accounted' /\ ToPut'
<1>1. tasks \in Seq(Task) /\ DOMAIN tasks' = DOMAIN tasks /\ DOMAIN tasks = 1..Len(tasks)
      /\ mTasks \in [Nas -> 0..Len(tasks)] /\ Len(tasks) \in Nat
  BY DEF Inv, Typed, MapType
<1>2. Accounted'
  <2> SUFFICES ASSUME created, main.at \notin {"destroy", "get"}, NEW n \in Nas,
                      mTasks'[n] # 0
               PROVE  Settled(mTasks[n])'
    BY DEF Accounted
  <2>1. mTasks'[n] = mTasks[n] /\ mTasks[n] \in DOMAIN tasks /\ Settled(mTasks[n])
    BY <1>1 DEF Inv, Accounted
  <2>2. CASE mTasks[n] = k
    <3>1. tasks'[k] = t
      BY <1>1
    <3> QED
      BY <2>1, <2>2, <3>1 DEF Settled
  <2>3. CASE mTasks[n] # k
    <3>1. tasks'[mTasks[n]] = tasks[mTasks[n]]
      BY <1>1, <2>1, <2>3
    <3> QED
      BY <2>1, <3>1 DEF Settled
  <2> QED
    BY <2>2, <2>3
<1>3. ToPut'
  <2> SUFFICES ASSUME main.at = "put", main' = main
               PROVE  /\ created /\ main.task \in DOMAIN tasks
                      /\ tasks'[main.task].object = object
                      /\ ~tasks'[main.task].cancelled
    BY <1>1 DEF ToPut
  <2>1. main.task \in DOMAIN tasks /\ created /\ tasks[main.task].object = object
        /\ ~tasks[main.task].cancelled
    BY DEF Inv, ToPut
  <2> QED
    BY <1>1, <2>1
<1> QED
  BY <1>2, <1>3

LEMMA NoUpdates == updates' = <<>> => UpdatesType'
BY DEF UpdatesType

LEMMA CrashInv ==
  ASSUME Inv, Crash
  PROVE  Inv'
<1>1. ScreenType'
  BY NoRowType DEF Inv, Typed, ScreenType, Crash
<1>2. UpdatesType' /\ ServiceType'
  <2>1. UpdatesType'
    BY NoUpdates DEF Crash
  <2>2. cmds' \in Seq(Nas)
    BY DEF Crash
  <2>3. object' \in Nat /\ connection' = "none" /\ ~leaked' /\ ~started' /\ ~created'
    BY DEF Inv, Typed, ServiceType, Crash
  <2>4. leaked' = FALSE /\ started' = FALSE /\ created' = FALSE
    BY DEF Crash
  <2> QED
    BY ZenonT(60), <2>1, <2>2, <2>3, <2>4 DEF ServiceType
<1>3. MapType'
  BY DEF MapType, Crash
<1>4. MainType' /\ CheckType'
  BY DEF MainType, CheckType, MainState, Crash, Iteration, NoIteration
<1>5. Accounted' /\ ToPut'
  BY DEF Accounted, ToPut, Crash, Idle
<1> QED
  BY <1>1, <1>2, <1>3, <1>4, <1>5 DEF Inv, Typed

-----------------------------------------------------------------------------
(* The steps of NasFragment                                                *)

LEMMA ShowsInv ==
  ASSUME Inv, onStart \/ onStop \/ onDestroyFragment \/ startTest
  PROVE  Inv'
<1>1. ScreenType'
  BY NoRowType, DownloaderAssumption
  DEF Inv, Typed, ScreenType, onStart, onStop, onDestroyFragment, startTest
<1>2. UpdatesType'
  BY Frame, NoUpdates DEF Inv, onStart, onStop, onDestroyFragment, startTest
<1>3. ServiceType'
  <2>1. CASE startTest
    <3>1. Rotated \in Seq(Nas)
      BY RotatedType DEF Inv
    <3> QED
      BY <2>1, <3>1 DEF Inv, Typed, ServiceType, startTest
  <2>2. CASE onStart \/ onStop \/ onDestroyFragment
    BY ZenonT(60), <2>2 DEF Inv, Typed, ServiceType, onStart, onStop, onDestroyFragment, serviceVars
  <2> QED
    BY <2>1, <2>2
<1>4. UNCHANGED <<mapVars, object, created, crashed>>
  BY DEF onStart, onStop, onDestroyFragment, startTest, serviceVars
<1>5. MapType' /\ MainType' /\ CheckType'
  BY <1>4, Frame DEF Inv, mapVars
<1>6. Accounted' /\ ToPut'
  BY <1>4, AccountFrame DEF mapVars
<1> QED
  BY <1>1, <1>2, <1>3, <1>5, <1>6 DEF Inv, Typed

LEMMA ClickInv ==
  ASSUME Inv, NEW n \in Nas, onClickItem(n)
  PROVE  Inv'
<1>1. ScreenType'
  BY DEF Inv, Typed, ScreenType, onClickItem
<1>2. UNCHANGED <<updates, serviceVars, mapVars, crashed>>
  BY DEF onClickItem
<1>3. UpdatesType' /\ ServiceType' /\ MapType' /\ MainType' /\ CheckType'
  BY <1>2, Frame DEF Inv, mapVars, serviceVars
<1>4. Accounted' /\ ToPut'
  BY <1>2, AccountFrame DEF mapVars, serviceVars
<1> QED
  BY <1>1, <1>3, <1>4 DEF Inv, Typed

\* Accounted and ToPut say nothing of Main between two servers it cancels.
LEMMA StopTestInv ==
  ASSUME Inv, stopTest
  PROVE  Inv'
<1>1. ScreenType'
  BY DEF Inv, Typed, ScreenType, stopTest
<1>2. UNCHANGED <<updates, serviceVars, mTasks, tasks, check, late, early, crashed>>
  BY DEF stopTest
<1>3. UpdatesType' /\ ServiceType' /\ MapType' /\ CheckType'
  BY <1>2, Frame DEF Inv, serviceVars
<1>4. MainType'
  <2>1. Routes # <<>> => 1 \in 1..Len(Routes)
    BY DownloaderAssumption
  <2> QED
    BY <2>1 DEF MainType, MainState, stopTest
<1>5. Accounted' /\ ToPut'
  BY <1>2 DEF Inv, Accounted, ToPut, Settled, stopTest, MainFree, Idle, serviceVars
<1> QED
  BY <1>1, <1>3, <1>4, <1>5 DEF Inv, Typed

LEMMA CancelInv ==
  ASSUME Inv, cancel
  PROVE  Inv'
<1>1. UNCHANGED <<screenVars, updates, serviceVars, late, early, crashed>>
  BY DEF cancel
<1>2. ScreenType' /\ UpdatesType' /\ ServiceType'
  BY <1>1, Frame DEF Inv
<1>3. main \in [at : {"cancel"}, i : 1..Len(Routes)]
  BY DEF Inv, Typed, MainType, MainState, cancel, Idle
<1>4. MainType' /\ main'.at \in {"cancel", "idle"}
  BY <1>3, DownloaderAssumption DEF MainType, MainState, cancel, Idle
<1>5. CheckType'
  BY <1>1, DirtiedType DEF Inv, Typed, CheckType, cancel
<1> DEFINE n == Routes[main.i]
<1>6. n \in Nas
  BY <1>3, DownloaderAssumption
<1>7. MapType' /\ Accounted'
  <2>1. CASE mTasks[n] = 0
    <3>1. UNCHANGED <<tasks, mTasks, early, object, created>>
      BY <1>1, <2>1 DEF cancel, serviceVars
    <3>2. MapType'
      BY <3>1, Frame DEF Inv
    <3>3. Accounted'
      BY <1>3, <3>1 DEF Inv, Accounted, Settled
    <3> QED
      BY <3>2, <3>3
  <2>2. CASE mTasks[n] # 0
    <3>1. /\ tasks \in Seq(Task) /\ DOMAIN tasks = 1..Len(tasks) /\ Len(tasks) \in Nat
          /\ mTasks \in [Nas -> 0..Len(tasks)]
      BY DEF Inv, Typed, MapType
    <3>2. PICK k \in DOMAIN tasks : k = mTasks[n]
      BY <3>1, <2>2, <1>6
    <3>3. PICK t \in Task : /\ t.nas = tasks[k].nas /\ t.object = tasks[k].object
                           /\ Cancelled(k) = [tasks EXCEPT ![k] = t]
      BY CancelledOne DEF Inv
    <3>4. /\ tasks' = [tasks EXCEPT ![k] = t] /\ mTasks' = [mTasks EXCEPT ![n] = 0]
          /\ UNCHANGED <<early, object, created>>
      BY <1>1, <2>2, <3>2, <3>3 DEF cancel, serviceVars
    <3>5. mTasks' \in [Nas -> Nat] /\ \A m \in Nas : mTasks'[m] \in {mTasks[m], 0}
      BY <3>1, <3>4, <1>6
    <3>6. MapType'
      BY ZenonT(60), <3>3, <3>4, <3>5, TaskStep DEF Inv
    <3>7. ASSUME NEW m \in Nas, mTasks'[m] # 0, created
          PROVE  Settled(mTasks[m])'
      <4>1. m # n /\ mTasks'[m] = mTasks[m] /\ mTasks[m] \in DOMAIN tasks
        BY <3>1, <3>4, <3>7, <1>6
      <4>2. mTasks[m] # k
        BY <4>1, <3>2, <1>6, <2>2 DEF Inv, Typed, MapType
      <4>3. tasks'[mTasks[m]] = tasks[mTasks[m]]
        BY <4>1, <4>2, <3>1, <3>4
      <4>4. Settled(mTasks[m])
        BY <1>3, <3>7, <4>1, <3>1 DEF Inv, Accounted
      <4> QED
        BY <4>1, <4>3, <4>4, <3>4 DEF Settled
    <3>8. Accounted'
      BY <3>4, <3>7 DEF Accounted
    <3> QED
      BY <3>6, <3>8
  <2> QED
    BY <2>1, <2>2
<1>8. ToPut'
  BY <1>4 DEF ToPut
<1> QED
  BY <1>2, <1>4, <1>5, <1>7, <1>8 DEF Inv, Typed

\* What is told of a download is written into its server's row.
LEMMA ReceiveInv ==
  ASSUME Inv, onReceive
  PROVE  Inv'
<1>1. UNCHANGED <<screen, uses, serviceVars, mapVars, crashed>>
  BY DEF onReceive
<1>2. ServiceType' /\ MapType' /\ MainType' /\ CheckType'
  BY <1>1, Frame DEF Inv, serviceVars, mapVars
<1>3. Accounted' /\ ToPut'
  BY <1>1, AccountFrame DEF serviceVars, mapVars
<1>4. UpdatesType' /\ Head(updates) \in Update
  BY DEF Inv, Typed, UpdatesType, onReceive
<1>5. ScreenType'
  <2>1. CASE Head(updates).kind = "ALL"
    BY <1>1, <2>1 DEF Inv, Typed, ScreenType, onReceive
  <2>2. CASE Head(updates).kind # "ALL"
    <3> DEFINE u == Head(updates)
    <3>1. u.kind \in Kind /\ u.nas \in Nas /\ u.speed \in Speed
      BY <1>4, <2>2 DEF Update
    <3>2. setProgressData(u) /\ UNCHANGED btn
          /\ route' = IF u.kind = "STARTED"
                      THEN (CHOOSE i \in 1..Len(Routes) : Routes[i] = u.nas) - 1 ELSE route
      BY <2>2 DEF onReceive
    <3>3. row' \in [Nas -> Row]
      <4>1. row \in [Nas -> Row] /\ row[u.nas] \in Row
        BY <3>1 DEF Inv, Typed, ScreenType
      <4> DEFINE r == [row[u.nas] EXCEPT !.speed = u.speed]
      <4>2. /\ r \in Row /\ [r EXCEPT !.started = TRUE, !.finished = FALSE] \in Row
            /\ [r EXCEPT !.finished = TRUE] \in Row
        BY ZenonT(60), <3>1, <4>1 DEF Row
      <4> DEFINE w == CASE u.kind = "STARTED" ->
                             [r EXCEPT !.started = TRUE, !.finished = FALSE]
                        [] u.kind \in {"FAILED", "FINISHED"} -> [r EXCEPT !.finished = TRUE]
                        [] OTHER -> r
      <4>3. w \in Row
        <5> HIDE DEF r
        <5> QED
          BY <4>2
      <4>4. row' = [row EXCEPT ![u.nas] = w]
        BY <3>2 DEF setProgressData
      <4> QED
        BY ZenonT(60), <4>1, <4>3, <4>4
    <3>4. current' \in Nas \cup {NoNas}
      BY <3>2, DownloaderAssumption DEF Inv, Typed, ScreenType, setProgressData
    <3>5. route' \in -1..Len(Routes) - 1
      <4>1. \E i \in 1..Len(Routes) : Routes[i] = u.nas
        BY <3>1, DownloaderAssumption DEF Range
      <4>2. (CHOOSE i \in 1..Len(Routes) : Routes[i] = u.nas) \in 1..Len(Routes)
        BY <4>1
      <4>3. Len(Routes) \in Nat
        BY DownloaderAssumption
      <4> QED
        BY <3>2, <4>2, <4>3 DEF Inv, Typed, ScreenType
    <3> QED
      BY <1>1, <3>2, <3>3, <3>4, <3>5 DEF Inv, Typed, ScreenType
  <2> QED
    BY <2>1, <2>2
<1> QED
  BY <1>2, <1>3, <1>4, <1>5 DEF Inv, Typed

-----------------------------------------------------------------------------
(* The steps of DownloaderEx on Main                                       *)

LEMMA CreateInv ==
  ASSUME Inv, onCreate
  PROVE  Inv'
<1>1. ScreenType' /\ UpdatesType' /\ MainType'
  BY Frame DEF Inv, onCreate
<1>2. ServiceType'
  BY DEF Inv, Typed, ServiceType, onCreate
<1>3. MapType'
  BY DEF Inv, Typed, MapType, onCreate
<1>4. CheckType'
  BY DEF Inv, Typed, CheckType, Iteration, NoIteration, onCreate
<1>5. Accounted' /\ ToPut'
  BY DEF Accounted, ToPut, onCreate, MainFree, Idle
<1> QED
  BY <1>1, <1>2, <1>3, <1>4, <1>5 DEF Inv, Typed

LEMMA ConnectedInv ==
  ASSUME Inv, onServiceConnected
  PROVE  Inv'
<1>1. ServiceType'
  BY DEF Inv, Typed, ServiceType, onServiceConnected
<1>2. UNCHANGED <<screenVars, updates, object, created, mapVars, crashed>>
  BY DEF onServiceConnected
<1>3. ScreenType' /\ UpdatesType' /\ MapType' /\ MainType' /\ CheckType'
  BY <1>2, Frame DEF Inv, mapVars
<1>4. Accounted' /\ ToPut'
  BY <1>2, AccountFrame DEF mapVars
<1> QED
  BY <1>1, <1>3, <1>4 DEF Inv, Typed

\* A task that is submitted is not in the map yet.
LEMMA CommandInv ==
  ASSUME Inv, onStartCommand
  PROVE  Inv'
<1>1. UNCHANGED <<screenVars, updates, connection, leaked, started, object, created,
                  mTasks, check, late, early, crashed>> /\ cmds' = Tail(cmds) /\ cmds # <<>>
  BY DEF onStartCommand
<1>2. ScreenType' /\ UpdatesType' /\ CheckType'
  BY <1>1, Frame DEF Inv
<1>3. ServiceType' /\ Head(cmds) \in Nas
  BY <1>1 DEF Inv, Typed, ServiceType
<1> DEFINE n == Head(cmds)
<1>4. CASE mTasks[n] # 0
  <2>1. UNCHANGED <<tasks, main>>
    BY <1>4 DEF onStartCommand
  <2> QED
    BY <1>1, <1>2, <1>3, <2>1, Frame, AccountFrame DEF Inv, Typed
<1>5. CASE mTasks[n] = 0
  <2> DEFINE t == [nas |-> n, object |-> object, at |-> "queued", cancelled |-> FALSE,
                   speed |-> 0]
  <2>1. t \in Task
    BY <1>3, SpeedZero DEF Task, At, Inv, Typed, ServiceType
  <2>2. tasks' = Append(tasks, t) /\ main' = [at |-> "put", task |-> Len(tasks) + 1]
    BY <1>5 DEF onStartCommand
  <2>3. /\ tasks \in Seq(Task) /\ DOMAIN tasks = 1..Len(tasks) /\ Len(tasks) \in Nat
        /\ mTasks \in [Nas -> 0..Len(tasks)] /\ early \subseteq DOMAIN tasks
    BY DEF Inv, Typed, MapType
  <2>4. t.object = object /\ t.cancelled = FALSE
    OBVIOUS
  <2> HIDE DEF t
  <2>5. /\ tasks' \in Seq(Task) /\ Len(tasks') = Len(tasks) + 1
        /\ DOMAIN tasks' = 1..Len(tasks) + 1
        /\ tasks'[Len(tasks) + 1] = t
        /\ \A j \in 1..Len(tasks) : tasks'[j] = tasks[j]
    BY <2>1, <2>2, <2>3
  <2>6. MapType'
    <3>1. mTasks' \in [Nas -> 0..Len(tasks')] /\ early' \subseteq DOMAIN tasks'
      BY <1>1, <2>3, <2>5
    <3>2. ASSUME NEW m \in Nas, mTasks'[m] # 0
          PROVE  tasks'[mTasks'[m]].nas = m /\ tasks'[mTasks'[m]].object = object'
      <4>1. mTasks[m] \in 1..Len(tasks) /\ mTasks'[m] = mTasks[m]
        BY <1>1, <2>3, <3>2
      <4> QED
        BY <1>1, <4>1, <2>5, <3>2 DEF Inv, Typed, MapType
    <3> QED
      BY <2>5, <3>1, <3>2 DEF MapType
  <2>7. MainType'
    BY <2>2, <2>3 DEF MainType, MainState
  <2>8. Accounted'
    <3> SUFFICES ASSUME NEW m \in Nas, mTasks[m] # 0
                 PROVE  Settled(mTasks[m])'
      BY SMTT(60), <1>1 DEF Accounted
    <3>1. mTasks[m] \in 1..Len(tasks) /\ Settled(mTasks[m])
      BY <2>3 DEF Inv, Accounted, onStartCommand, MainFree, Idle
    <3> QED
      BY <1>1, <3>1, <2>5 DEF Settled
  <2>9. ToPut'
    <3>1. main'.task = Len(tasks) + 1 /\ created'
      BY <1>1, <2>2 DEF onStartCommand
    <3> QED
      BY <1>1, <3>1, <2>3, <2>4, <2>5 DEF ToPut
  <2> QED
    BY <1>2, <1>3, <2>6, <2>7, <2>8, <2>9 DEF Inv, Typed
<1> QED
  BY <1>4, <1>5

\* A task that is over before it is put is an early one.
LEMMA PutInv ==
  ASSUME Inv, put
  PROVE  Inv'
<1>1. UNCHANGED <<screenVars, updates, serviceVars, tasks, late, crashed>> /\ main' = Idle
  BY DEF put
<1>2. ScreenType' /\ UpdatesType' /\ ServiceType'
  BY <1>1, Frame DEF Inv
<1>3. MainType' /\ ToPut'
  BY <1>1 DEF MainType, MainState, ToPut, Idle
<1>4. CheckType'
  BY <1>1, DirtiedType DEF Inv, Typed, CheckType, put
<1>5. PICK k \in DOMAIN tasks : k = main.task
  BY DEF Inv, ToPut, put
<1>6. created /\ tasks[k].object = object /\ ~tasks[k].cancelled /\ main.at = "put"
  BY <1>5 DEF Inv, ToPut, put
<1>7. /\ tasks \in Seq(Task) /\ DOMAIN tasks = 1..Len(tasks) /\ Len(tasks) \in Nat
      /\ mTasks \in [Nas -> 0..Len(tasks)] /\ early \subseteq DOMAIN tasks
      /\ tasks[k].nas \in Nas
  <2>1. tasks[k] \in Task
    BY DEF Inv, Typed, MapType
  <2> QED
    BY <2>1 DEF Inv, Typed, MapType, Task
<1>8. /\ mTasks' = [mTasks EXCEPT ![tasks[k].nas] = k]
      /\ early' = IF tasks[k].at \in {"report", "over"} THEN early \cup {k} ELSE early
      /\ UNCHANGED <<tasks, object, created>>
  BY <1>1, <1>5 DEF put, serviceVars
<1>9. MapType'
  BY <1>6, <1>7, <1>8 DEF Inv, Typed, MapType
<1>10. ASSUME NEW n \in Nas, mTasks'[n] # 0
       PROVE  Settled(mTasks[n])'
  <2>1. CASE n = tasks[k].nas
    BY <2>1, <1>6, <1>7, <1>8 DEF Settled
  <2>2. CASE n # tasks[k].nas
    <3>1. mTasks'[n] = mTasks[n]
      BY <2>2, <1>7, <1>8
    <3>2. Settled(mTasks[n])
      BY <3>1, <1>6, <1>10 DEF Inv, Accounted
    <3> QED
      BY <3>1, <3>2, <1>8 DEF Settled
  <2> QED
    BY <2>1, <2>2
<1>11. Accounted'
  BY <1>10 DEF Accounted
<1> QED
  BY <1>2, <1>3, <1>4, <1>9, <1>11 DEF Inv, Typed

\* The end of the service: what it cancels it leaves in a map that is not used again.
LEMMA DestroyInv ==
  ASSUME Inv, onDestroy \/ destroyNext \/ destroyGet \/ destroyed
  PROVE  Inv'
<1>1. CASE onDestroy
  <2>1. UNCHANGED <<screenVars, updates, serviceVars, mTasks, tasks, check, late, early,
                    crashed>>
    BY <1>1 DEF onDestroy
  <2>2. ScreenType' /\ UpdatesType' /\ ServiceType' /\ MapType' /\ CheckType'
    BY SMTT(60), <2>1, Frame DEF Inv, serviceVars
  <2>3. MainType' /\ Accounted' /\ ToPut'
    BY <1>1 DEF onDestroy, MainType, MainState, Entries, Accounted, ToPut
  <2> QED
    BY <2>2, <2>3 DEF Inv, Typed
<1>2. CASE destroyNext
  <2>1. CASE Crash
    BY <2>1, CrashInv
  <2>2. CASE ~Crash
    <3>1. UNCHANGED <<screenVars, updates, serviceVars, mTasks, tasks, check, late, early,
                      crashed>>
      BY ZenonT(60), <1>2, <2>2 DEF destroyNext
    <3>2. ScreenType' /\ UpdatesType' /\ ServiceType' /\ MapType' /\ CheckType'
      BY SMTT(60), <3>1, Frame DEF Inv, serviceVars
    <3>3. main.todo \subseteq Nas
      BY SMTT(60), <1>2 DEF destroyNext, Inv, Typed, MainType, MainState, Idle
    <3>4. PICK n \in main.todo :
            main' = [at |-> "get", nas |-> n, todo |-> main.todo \ {n}, dirty |-> FALSE]
      BY SMTT(60), <1>2, <2>2 DEF destroyNext
    <3>5. MainType' /\ Accounted' /\ ToPut'
      BY <3>3, <3>4 DEF MainType, MainState, Accounted, ToPut
    <3> QED
      BY SMTT(60), <3>2, <3>5 DEF Inv, Typed
  <2> QED
    BY <2>1, <2>2
<1>3. CASE destroyGet
  <2>1. CASE Crash
    BY <2>1, CrashInv
  <2>2. CASE ~Crash
    <3>1. UNCHANGED <<screenVars, updates, serviceVars, mTasks, check, late, early, crashed>>
          /\ mTasks[main.nas] # 0 /\ tasks' = Cancelled(mTasks[main.nas])
          /\ main' = [at |-> "destroy", todo |-> main.todo, dirty |-> main.dirty]
      BY <1>3, <2>2 DEF destroyGet
    <3>2. ScreenType' /\ UpdatesType' /\ ServiceType' /\ CheckType'
      BY SMTT(60), <3>1, Frame DEF Inv, serviceVars
    <3>3. main.nas \in Nas /\ main.todo \subseteq Nas /\ main.dirty \in BOOLEAN
      <4>1. main.at = "get" /\ main \in MainState
        BY ZenonT(60), <1>3 DEF destroyGet, Inv, Typed, MainType
      <4> QED
        BY <4>1 DEF MainState, Idle
    <3>4. MainType' /\ Accounted' /\ ToPut'
      BY <3>1, <3>3 DEF MainType, MainState, Accounted, ToPut
    <3>5. mTasks \in [Nas -> 0..Len(tasks)] /\ DOMAIN tasks = 1..Len(tasks)
          /\ Len(tasks) \in Nat
      BY DEF Inv, Typed, MapType
    <3>6. PICK k \in DOMAIN tasks : k = mTasks[main.nas]
      BY <3>1, <3>3, <3>5
    <3>7. PICK t \in Task : /\ t.nas = tasks[k].nas /\ t.object = tasks[k].object
                           /\ Cancelled(k) = [tasks EXCEPT ![k] = t]
      BY SMTT(60), CancelledOne DEF Inv
    <3>8. /\ tasks' = [tasks EXCEPT ![k] = t] /\ UNCHANGED <<early, object>>
          /\ mTasks' \in [Nas -> Nat] /\ \A m \in Nas : mTasks'[m] \in {mTasks[m], 0}
      BY <3>1, <3>5, <3>6, <3>7 DEF serviceVars
    <3>9. MapType'
      BY ZenonT(60), <3>7, <3>8, TaskStep DEF Inv
    <3> QED
      BY SMTT(60), <3>2, <3>4, <3>9 DEF Inv, Typed
  <2> QED
    BY <2>1, <2>2
<1>4. CASE destroyed
  <2>1. ScreenType' /\ UpdatesType' /\ MapType'
    BY <1>4, Frame DEF Inv, destroyed
  <2>2. ServiceType'
    BY ZenonT(60), <1>4 DEF Inv, Typed, ServiceType, destroyed
  <2>3. CheckType'
    BY <1>4 DEF Inv, Typed, CheckType, Iteration, NoIteration, destroyed
  <2>4. MainType' /\ Accounted' /\ ToPut'
    BY <1>4 DEF MainType, MainState, Accounted, ToPut, destroyed, Idle
  <2> QED
    BY SMTT(60), <2>1, <2>2, <2>3, <2>4 DEF Inv, Typed
<1> QED
  BY <1>1, <1>2, <1>3, <1>4

-----------------------------------------------------------------------------
(* The steps of the checker and of the pool's thread                       *)

LEMMA CheckInv ==
  ASSUME Inv, checkTask \/ checkNext \/ allDone \/ lastRound
  PROVE  Inv'
<1>1. CASE Crash
  BY <1>1, CrashInv
<1>2. CASE ~Crash
  <2>1. UNCHANGED <<screenVars, connection, leaked, cmds, object, created, mTasks, tasks,
                    main, early, crashed>>
    BY <1>2 DEF checkTask, checkNext, allDone, lastRound, serviceVars
  <2>2. ScreenType' /\ MapType' /\ MainType'
    BY <2>1, Frame DEF Inv
  <2>3. Accounted' /\ ToPut'
    BY <2>1, AccountFrame
  <2>4. ServiceType'
    BY ZenonT(60), <1>2, <2>1
    DEF Inv, Typed, ServiceType, checkTask, checkNext, allDone, lastRound, serviceVars
  <2>5. UpdatesType'
    <3>1. [kind |-> "ALL"] \in Update
      BY DEF Update
    <3>2. UNCHANGED updates \/ sendBroadcast([kind |-> "ALL"])
      BY <1>2 DEF checkTask, checkNext, allDone, lastRound
    <3> QED
      BY <3>1, <3>2, Frame, SentType DEF Inv
  <2>6. CheckType'
    <3>1. check' \in Iteration
      <4>1. check \in Iteration /\ NoIteration \in Iteration
        BY DEF Inv, Typed, CheckType, Iteration, NoIteration
      <4>2. CASE checkTask
        BY <4>2 DEF checkTask, Iteration, Entries
      <4>3. CASE checkNext
        <5>1. PICK n \in check.todo : check' = IF Done(mTasks[n])
                                              THEN [check EXCEPT !.todo = @ \ {n}]
                                              ELSE NoIteration
          BY <1>2, <4>3 DEF checkNext
        <5>2. [check EXCEPT !.todo = @ \ {n}] \in Iteration
          BY SMTT(60), <4>1 DEF Iteration
        <5> QED
          BY <4>1, <5>1, <5>2
      <4>4. CASE allDone \/ lastRound
        BY <1>2, <4>1, <4>4 DEF allDone, lastRound
      <4> QED
        BY <4>2, <4>3, <4>4
    <3>2. late' \in {"no", "yes", "dirty"} /\ crashed' \in BOOLEAN
      BY <1>2, <2>1 DEF Inv, Typed, CheckType, checkTask, checkNext, allDone, lastRound
    <3> QED
      BY <3>1, <3>2 DEF CheckType
  <2> QED
    BY <2>2, <2>3, <2>4, <2>5, <2>6 DEF Inv, Typed
<1> QED
  BY <1>1, <1>2

\* A step of a task that tells of it and leaves the map alone.
LEMMA TellsInv ==
  ASSUME Inv, NEW k \in DOMAIN tasks, NEW t \in Task,
         t.nas = tasks[k].nas, t.object = tasks[k].object,
         t.cancelled => tasks[k].cancelled,
         t.at \in {"report", "over"} => tasks[k].at \in {"report", "over"},
         tasks' = [tasks EXCEPT ![k] = t], UpdatesType',
         UNCHANGED <<screenVars, serviceVars, mTasks, main, check, late, early, crashed>>
  PROVE  Inv'
<1>1. ScreenType' /\ ServiceType' /\ MainType' /\ CheckType'
  BY Frame DEF Inv
<1>2. mTasks' \in [Nas -> Nat] /\ \A n \in Nas : mTasks'[n] \in {mTasks[n], 0}
  BY DEF Inv, Typed, MapType
<1>3. UNCHANGED <<early, object, created, main>>
  BY DEF serviceVars
<1>4. MapType'
  BY ZenonT(60), <1>2, <1>3, TaskStep DEF Inv
<1>5. Accounted' /\ ToPut'
  BY ZenonT(60), <1>2, <1>3, AccountStep
<1> QED
  BY <1>1, <1>4, <1>5 DEF Inv, Typed

LEMMA PoolInv ==
  ASSUME Inv, NEW k \in DOMAIN tasks, begin(k) \/ leaveLoop(k) \/ report(k) \/ fail(k)
  PROVE  Inv'
<1>1. UNCHANGED <<screenVars, serviceVars, mTasks, main, check, late, early, crashed>>
  BY DEF begin, leaveLoop, report, fail
<1>2. UpdatesType'
  <2>1. tasks[k].speed \in Speed
    <3>1. tasks[k] \in Task
      BY DEF Inv, Typed, MapType
    <3> QED
      BY <3>1 DEF Task
  <2>2. \A kind \in Kind : About(kind, k, 0) \in Update
    BY SpeedZero, AboutType DEF Inv
  <2>3. About("FINISHED", k, tasks[k].speed) \in Update
    BY SMTT(60), <2>1, AboutType DEF Inv, Kind
  <2>4. \/ UNCHANGED updates \/ \E kind \in Kind : sendBroadcast(About(kind, k, 0))
        \/ sendBroadcast(About("FINISHED", k, tasks[k].speed))
    BY ZenonT(60) DEF begin, leaveLoop, report, fail, Kind
  <2> QED
    BY ZenonT(60), <2>2, <2>3, <2>4, Frame, SentType DEF Inv
<1>3. PICK to \in {"read", "close", "over", "failed", "mute"} :
        \E from \in At : Goes(k, from, to) /\ (to = "over" => from = "report")
  BY DEF begin, leaveLoop, report, fail, At
<1>4. PICK from \in At : Goes(k, from, to) /\ (to = "over" => from = "report")
  BY <1>3
<1>5. PICK t \in Task : /\ t.nas = tasks[k].nas /\ t.object = tasks[k].object
                       /\ t.at = to /\ (t.cancelled => tasks[k].cancelled)
                       /\ tasks' = [tasks EXCEPT ![k] = t]
  BY <1>4, GoesOne DEF Inv, At
<1>6. t.at \in {"report", "over"} => tasks[k].at \in {"report", "over"}
  BY <1>4, <1>5 DEF Goes
<1> QED
  BY ZenonT(60), <1>1, <1>2, <1>5, <1>6, TellsInv

LEMMA ReadInv ==
  ASSUME Inv, NEW k \in DOMAIN tasks, NEW speed \in Speed, read(k, speed)
  PROVE  Inv'
<1>1. tasks[k] \in Task /\ tasks \in Seq(Task)
  BY DEF Inv, Typed, MapType
<1>2. PICK t \in Task : t = [tasks[k] EXCEPT !.speed = speed]
  BY ZenonT(60), <1>1 DEF Task
<1>3. /\ t.nas = tasks[k].nas /\ t.object = tasks[k].object
      /\ t.cancelled = tasks[k].cancelled /\ t.at = tasks[k].at
  BY <1>1, <1>2 DEF Task
<1>4. tasks' = [tasks EXCEPT ![k] = t]
  BY <1>1, <1>2 DEF read
<1>5. UpdatesType'
  BY AboutType, SentType DEF Inv, read, Kind
<1>6. UNCHANGED <<screenVars, serviceVars, mTasks, main, check, late, early, crashed>>
  BY DEF read
<1> QED
  BY ZenonT(60), <1>3, <1>4, <1>5, <1>6, TellsInv

\* An entry a task has at the end of its loop is its own or a later one's; either
\* goes.
LEMMA RemoveInv ==
  ASSUME Inv, NEW k \in DOMAIN tasks, remove(k)
  PROVE  Inv'
<1>1. UNCHANGED <<screenVars, updates, serviceVars, early, crashed>>
  BY DEF remove
<1>2. ScreenType' /\ UpdatesType' /\ ServiceType'
  BY <1>1, Frame DEF Inv
<1>3. CheckType'
  BY <1>1, DirtiedType DEF Inv, Typed, CheckType, remove
<1>4. MainType' /\ main'.at = main.at /\ (main.at = "put" => main' = main)
  BY ZenonT(60) DEF Inv, Typed, MainType, MainState, Idle, remove
<1>5. PICK t \in Task : /\ t.nas = tasks[k].nas /\ t.object = tasks[k].object
                       /\ t.at = "report" /\ (t.cancelled => tasks[k].cancelled)
                       /\ tasks' = [tasks EXCEPT ![k] = t]
  BY GoesOne DEF Inv, At, remove
<1>6. tasks[k].nas \in Nas /\ mTasks \in [Nas -> Nat]
  <2>1. tasks[k] \in Task
    BY DEF Inv, Typed, MapType
  <2> QED
    BY <2>1 DEF Inv, Typed, MapType, Task
<1>7. mTasks' \in [Nas -> Nat] /\ \A n \in Nas : mTasks'[n] \in {mTasks[n], 0}
  BY <1>6 DEF remove
<1>8. UNCHANGED <<early, object, created>>
  BY <1>1 DEF serviceVars
<1>9. MapType'
  BY ZenonT(60), <1>5, <1>7, <1>8, TaskStep DEF Inv
<1>10. ASSUME created, NEW n \in Nas, mTasks'[n] = k
       PROVE  FALSE
  <2>1. mTasks[n] = k /\ k # 0
    BY <1>7, <1>10 DEF Inv, Typed, MapType
  <2>2. tasks[k].nas = n /\ tasks[k].object = object
    BY SMTT(60), <2>1 DEF Inv, Typed, MapType
  <2>3. Entry(k) = k
    BY <1>10, <2>1, <2>2 DEF Entry
  <2> QED
    BY <1>6, <1>10, <2>1, <2>2, <2>3 DEF remove
<1>11. Accounted' /\ ToPut'
  BY ZenonT(60), <1>4, <1>5, <1>7, <1>8, <1>10, AccountStep
<1> QED
  BY <1>2, <1>3, <1>4, <1>9, <1>11 DEF Inv, Typed

-----------------------------------------------------------------------------
(* The theorems                                                            *)

LEMMA InitInv == Init => Inv
<1> SUFFICES ASSUME Init PROVE Inv
  OBVIOUS
<1>1. ScreenType
  BY NoRowType, DownloaderAssumption DEF Init, ScreenType
<1>2. UpdatesType /\ CheckType
  <2>1. updates \in Seq(Update)
    BY DEF Init
  <2> QED
    BY ZenonT(60), <2>1 DEF Init, UpdatesType, CheckType, Iteration, NoIteration
<1>3. ServiceType
  <2>1. cmds \in Seq(Nas)
    BY DEF Init
  <2>2. connection = "none" /\ leaked = FALSE /\ started = FALSE /\ created = FALSE
        /\ object = 0
    BY DEF Init
  <2> QED
    BY ZenonT(60), <2>1, <2>2 DEF ServiceType
<1>4. MapType /\ MainType
  BY DEF Init, MapType, MainType, MainState
<1>5. Accounted /\ ToPut
  BY DEF Init, Accounted, ToPut, Idle
<1> QED
  BY <1>1, <1>2, <1>3, <1>4, <1>5 DEF Inv, Typed

LEMMA NextInv == Inv /\ [Next]_vars => Inv'
<1> SUFFICES ASSUME Inv, [Next]_vars PROVE Inv'
  BY SMTT(60)
<1>1. CASE UNCHANGED vars
  <2>1. UNCHANGED <<screenVars, updates, serviceVars, mapVars, crashed>>
    BY <1>1 DEF vars
  <2> QED
    BY <2>1, Frame, AccountFrame DEF Inv, Typed, serviceVars, mapVars
<1>2. CASE onStart \/ onStop \/ onDestroyFragment \/ startTest
  BY <1>2, ShowsInv
<1>3. CASE stopTest \/ cancel \/ onReceive \/ onCreate \/ onServiceConnected
  BY <1>3, StopTestInv, CancelInv, ReceiveInv, CreateInv, ConnectedInv
<1>4. CASE \E n \in Nas : onClickItem(n)
  BY <1>4, ClickInv
<1>5. CASE onStartCommand \/ put
  BY <1>5, CommandInv, PutInv
<1>6. CASE onDestroy \/ destroyNext \/ destroyGet \/ destroyed
  BY <1>6, DestroyInv
<1>7. CASE checkTask \/ checkNext \/ allDone \/ lastRound
  BY <1>7, CheckInv
<1>8. CASE \E k \in DOMAIN tasks : begin(k) \/ leaveLoop(k) \/ report(k) \/ fail(k)
  BY <1>8, PoolInv
<1>9. CASE \E k \in DOMAIN tasks : remove(k) \/ \E speed \in Speed : read(k, speed)
  BY <1>9, RemoveInv, ReadInv
<1> QED
  BY <1>1, <1>2, <1>3, <1>4, <1>5, <1>6, <1>7, <1>8, <1>9 DEF Next

\* Every step of NasFragment, DownloaderEx and its threads keeps the types.
THEOREM TypeCorrect == Spec => []TypeOK
<1>1. Spec => []Inv
  BY InitInv, NextInv, PTL DEF Spec
<1>2. Inv => TypeOK
  BY TypedIsTypeOK DEF Inv
<1> QED
  BY <1>1, <1>2, PTL

\* DownloaderEx.onStartCommand: an entry that nothing works for any more is left by
\* a failure or by a task that was over before it was put, for any number of
\* servers, tests and visits of the screen.
THEOREM LeftoversAccounted == Spec => []LeftoverAccounted
<1>1. Spec => []Inv
  BY InitInv, NextInv, PTL DEF Spec
<1> QED
  BY <1>1, InvAccounts, PTL

-----------------------------------------------------------------------------
(* Rows that are left as being tested                                      *)

Tested(n) == row[n].started /\ ~row[n].finished
Opens(u, n) == u.kind = "STARTED" /\ u.nas = n
Closes(u, n) == u.kind \in {"FINISHED", "FAILED"} /\ u.nas = n

\* The row is being tested when all that is under way has come.
WillWork(n) ==
  \/ Tested(n) /\ \A j \in 1..Len(updates) : ~Closes(updates[j], n)
  \/ \E i \in 1..Len(updates) :
       Opens(updates[i], n) /\ \A j \in 1..Len(updates) : j > i => ~Closes(updates[j], n)

Works(k) == tasks[k].at \in Running \cup {"mute"}
AtWork(n) == \E k \in DOMAIN tasks : tasks[k].nas = n /\ Works(k)

\* Such a row has a task at work, or one that has failed without a message.
RowsInv ==
  IF screen = "closed" THEN updates = <<>> ELSE \A n \in Nas : WillWork(n) => AtWork(n)

LEMMA RowsInvSettles == RowsInv => RowsSettle
<1> SUFFICES ASSUME RowsInv, Rest, screen = "shown", NEW n \in Nas, Tested(n)
             PROVE  \E k \in DOMAIN tasks : tasks[k].nas = n /\ tasks[k].at = "mute"
  BY DEF RowsSettle, Tested
<1>1. Len(updates) = 0
  BY DEF Rest
<1>2. AtWork(n)
  BY <1>1 DEF RowsInv, WillWork
<1> QED
  BY <1>2 DEF AtWork, Works, Rest

LEMMA RowsKept ==
  ASSUME RowsInv, UNCHANGED <<row, updates>>, screen' = "closed" <=> screen = "closed",
         \A n \in Nas : AtWork(n) => AtWork(n)'
  PROVE  RowsInv'
BY DEF RowsInv, WillWork, Tested

\* What an update tells of is at work from now on, or the update closes its row.
LEMMA SentRows ==
  ASSUME Typed, RowsInv, NEW u, sendBroadcast(u), UNCHANGED <<screen, row>>,
         \A n \in Nas : AtWork(n)' \/ Closes(u, n) \/ (~Opens(u, n) /\ ~AtWork(n))
  PROVE  RowsInv'
<1>1. CASE screen = "closed"
  BY <1>1 DEF sendBroadcast, RowsInv
<1>2. CASE screen # "closed"
  <2>1. updates' = Append(updates, u)
    BY <1>2 DEF sendBroadcast
  <2>2. Len(updates) \in Nat /\ Len(updates') = Len(updates) + 1 /\ updates'[Len(updates) + 1] = u
    BY <2>1 DEF Typed, UpdatesType
  <2>3. \A i \in 1..Len(updates) : updates'[i] = updates[i]
    BY <2>1 DEF Typed, UpdatesType
  <2> SUFFICES ASSUME NEW n \in Nas, WillWork(n)', ~AtWork(n)'
               PROVE  FALSE
    BY <1>2 DEF RowsInv
  <2>4. ~Closes(u, n)
    <3>1. Len(updates) + 1 \in 1..Len(updates')
      BY <2>2
    <3>2. \A i \in 1..Len(updates') : Opens(updates'[i], n) /\ Closes(u, n) => Len(updates) + 1 > i
      BY <2>2 DEF Opens, Closes
    <3> QED
      BY <2>2, <3>1, <3>2 DEF WillWork
  <2>5. ~Opens(u, n) /\ ~AtWork(n)
    BY <2>4
  <2>6. WillWork(n)
    <3>1. CASE Tested(n)' /\ \A j \in 1..Len(updates') : ~Closes(updates'[j], n)
      <4>1. Tested(n)
        BY <3>1 DEF Tested
      <4>2. ASSUME NEW j \in 1..Len(updates) PROVE ~Closes(updates[j], n)
        <5>1. j \in 1..Len(updates')
          BY <2>2
        <5> QED
          BY ZenonT(60), <2>3, <3>1, <5>1
      <4> QED
        BY ZenonT(60), <4>1, <4>2 DEF WillWork
    <3>2. CASE ~(Tested(n)' /\ \A j \in 1..Len(updates') : ~Closes(updates'[j], n))
      <4>1. PICK i \in 1..Len(updates') :
              /\ Opens(updates'[i], n)
              /\ \A j \in 1..Len(updates') : j > i => ~Closes(updates'[j], n)
        BY <3>2 DEF WillWork
      <4>2. i \in 1..Len(updates)
        BY <2>2, <2>5, <4>1
      <4>3. Opens(updates[i], n)
        BY <2>3, <4>1, <4>2
      <4>4. ASSUME NEW j \in 1..Len(updates), j > i PROVE ~Closes(updates[j], n)
        <5>1. j \in 1..Len(updates')
          BY <2>2
        <5> QED
          BY ZenonT(60), <2>3, <4>1, <4>4, <5>1
      <4> QED
        BY <4>2, <4>3, <4>4 DEF WillWork
    <3> QED
      BY SMTT(60), <3>1, <3>2
  <2> QED
    BY <1>2, <2>5, <2>6 DEF RowsInv
<1> QED
  BY <1>1, <1>2

\* A step of one task that keeps it at work, or of another server's.
LEMMA StaysAtWork ==
  ASSUME Typed, NEW k \in DOMAIN tasks, NEW t \in Task, tasks' = [tasks EXCEPT ![k] = t],
         t.nas = tasks[k].nas, NEW n, AtWork(n),
         n = tasks[k].nas /\ Works(k) => t.at \in Running \cup {"mute"}
  PROVE  AtWork(n)'
<1>1. /\ DOMAIN tasks' = DOMAIN tasks /\ tasks'[k] = t
      /\ \A j \in DOMAIN tasks : j # k => tasks'[j] = tasks[j]
  BY DEF Typed, MapType
<1>2. PICK j \in DOMAIN tasks : tasks[j].nas = n /\ Works(j)
  BY DEF AtWork
<1> QED
  BY <1>1, <1>2 DEF AtWork, Works

LEMMA CancelKeeps ==
  ASSUME Typed, NEW k \in DOMAIN tasks, tasks' = Cancelled(k), NEW n \in Nas, AtWork(n)
  PROVE  AtWork(n)'
<1>1. tasks[k] \in Task /\ tasks \in Seq(Task)
  BY DEF Typed, MapType
<1>2. CASE tasks[k].at = "queued"
  <2> DEFINE t == [tasks[k] EXCEPT !.at = "over"]
  <2>1. t \in Task /\ t.nas = tasks[k].nas /\ ~Works(k)
    BY <1>1, <1>2 DEF Task, At, Works, Running
  <2>2. tasks' = [tasks EXCEPT ![k] = t]
    BY <1>1, <1>2 DEF Cancelled, Running
  <2> HIDE DEF t
  <2> QED
    BY ZenonT(60), <2>1, <2>2, StaysAtWork
<1>3. CASE tasks[k].at \in Running
  <2> DEFINE t == [tasks[k] EXCEPT !.cancelled = TRUE]
  <2>1. t \in Task /\ t.nas = tasks[k].nas /\ t.at = tasks[k].at
    BY ZenonT(60), <1>1 DEF Task
  <2>2. tasks' = [tasks EXCEPT ![k] = t]
    BY <1>1, <1>3 DEF Cancelled, Running
  <2> HIDE DEF t
  <2> QED
    BY ZenonT(60), <1>3, <2>1, <2>2, StaysAtWork
<1>4. CASE tasks[k].at \notin Running \cup {"queued"}
  <2>1. tasks' = [tasks EXCEPT ![k] = tasks[k]]
    BY ZenonT(60), <1>1, <1>4 DEF Cancelled
  <2> QED
    BY ZenonT(60), <1>1, <2>1, StaysAtWork DEF Works
<1> QED
  BY <1>2, <1>3, <1>4


\* The row follows the first of what is under way.
LEMMA ReceiveRows ==
  ASSUME Inv, RowsInv, onReceive
  PROVE  RowsInv'
<1> DEFINE u == Head(updates)
<1>1. /\ updates \in Seq(Update) /\ updates # <<>> /\ updates' = Tail(updates)
      /\ UNCHANGED <<screen, tasks>>
  BY DEF onReceive, Inv, Typed, UpdatesType, mapVars
<1>2. /\ u = updates[1] /\ 1 \in 1..Len(updates) /\ u \in Update
      /\ Len(updates) \in Nat /\ Len(updates') = Len(updates) - 1
  BY <1>1
<1>3. \A i \in 1..Len(updates) - 1 : updates'[i] = updates[i + 1] /\ i + 1 \in 1..Len(updates)
  BY <1>1, <1>2
<1>4. screen # "closed"
  BY <1>1 DEF RowsInv
<1> HIDE DEF u
<1>5. ASSUME NEW n \in Nas, Tested(n)', ~Opens(u, n)
      PROVE  Tested(n) /\ ~Closes(u, n)
  <2>1. CASE u.kind = "ALL"
    BY <1>5, <2>1 DEF onReceive, u, Tested, Closes
  <2>2. CASE u.kind # "ALL"
    <3>1. setProgressData(u)
      BY <2>2 DEF onReceive, u
    <3>2. u.nas \in Nas /\ row \in [Nas -> Row]
      BY <1>2, <2>2 DEF Update, Inv, Typed, ScreenType
    <3>3. CASE u.nas # n
      BY <1>5, <3>1, <3>2, <3>3 DEF setProgressData, Tested, Closes
    <3>4. CASE u.nas = n
      <4>1. row[n] \in Row /\ u.kind # "STARTED"
        BY <1>5, <3>2, <3>4 DEF Opens
      <4>2. CASE u.kind \in {"FAILED", "FINISHED"}
        <5>1. row'[n] = [row[n] EXCEPT !.speed = u.speed, !.finished = TRUE]
          BY <3>1, <3>2, <3>4, <4>1, <4>2 DEF setProgressData, Row
        <5>2. row'[n].finished
          BY <4>1, <5>1 DEF Row
        <5> QED
          BY <1>5, <5>2 DEF Tested
      <4>3. CASE u.kind \notin {"FAILED", "FINISHED"}
        <5>1. row'[n] = [row[n] EXCEPT !.speed = u.speed]
          BY <3>1, <3>2, <3>4, <4>1, <4>3 DEF setProgressData
        <5>2. row'[n].started = row[n].started /\ row'[n].finished = row[n].finished
          BY SMTT(60), <4>1, <5>1 DEF Row
        <5> QED
          BY <1>5, <4>3, <5>2 DEF Tested, Closes
      <4> QED
        BY <4>2, <4>3
    <3> QED
      BY <3>3, <3>4
  <2> QED
    BY <2>1, <2>2
<1>6. ASSUME NEW n \in Nas, WillWork(n)'
      PROVE  WillWork(n)
  <2>1. CASE Tested(n)' /\ \A j \in 1..Len(updates') : ~Closes(updates'[j], n)
    <3>1. ASSUME NEW j \in 1..Len(updates), j > 1 PROVE ~Closes(updates[j], n)
      <4>1. j - 1 \in 1..Len(updates) - 1 /\ (j - 1) + 1 = j
        BY <1>2, <3>1
      <4> QED
        BY <1>2, <1>3, <2>1, <4>1
    <3>2. CASE Opens(u, n)
      BY <1>2, <3>1, <3>2 DEF WillWork
    <3>3. CASE ~Opens(u, n)
      <4>1. Tested(n) /\ ~Closes(updates[1], n)
        BY <1>2, <1>5, <2>1, <3>3
      <4>2. \A j \in 1..Len(updates) : j = 1 \/ j > 1
        BY <1>2
      <4> QED
        BY <3>1, <4>1, <4>2 DEF WillWork
    <3> QED
      BY SMTT(60), <3>2, <3>3
  <2>2. CASE \E i \in 1..Len(updates') :
               /\ Opens(updates'[i], n)
               /\ \A j \in 1..Len(updates') : j > i => ~Closes(updates'[j], n)
    <3>1. PICK i \in 1..Len(updates') :
            /\ Opens(updates'[i], n)
            /\ \A j \in 1..Len(updates') : j > i => ~Closes(updates'[j], n)
      BY <2>2
    <3>2. i + 1 \in 1..Len(updates) /\ Opens(updates[i + 1], n)
      BY <1>2, <1>3, <3>1
    <3>3. ASSUME NEW j \in 1..Len(updates), j > i + 1 PROVE ~Closes(updates[j], n)
      <4>1. j - 1 \in 1..Len(updates) - 1 /\ (j - 1) + 1 = j /\ j - 1 > i
        BY <1>2, <3>1, <3>3
      <4> QED
        BY ZenonT(60), <1>2, <1>3, <3>1, <4>1
    <3> QED
      BY <3>2, <3>3 DEF WillWork
  <2> QED
    BY <1>6, <2>1, <2>2 DEF WillWork
<1>7. \A n \in Nas : AtWork(n)' = AtWork(n)
  BY <1>1 DEF AtWork, Works
<1> QED
  BY <1>1, <1>4, <1>6, <1>7 DEF RowsInv

LEMMA ScreenRows ==
  ASSUME Inv, RowsInv, onStart \/ onDestroyFragment
  PROVE  RowsInv'
<1>1. CASE onDestroyFragment
  BY <1>1 DEF onDestroyFragment, RowsInv
<1>2. CASE onStart
  <2>1. /\ screen' = "shown" /\ UNCHANGED <<updates, tasks>>
        /\ (screen = "stopped" /\ UNCHANGED row) \/ row' = [n \in Nas |-> NoRow]
    BY <1>2 DEF onStart, mapVars
  <2>2. \A n \in Nas : AtWork(n)' = AtWork(n)
    BY <2>1 DEF AtWork, Works
  <2>3. CASE screen = "stopped" /\ UNCHANGED row
    BY <2>1, <2>2, <2>3 DEF RowsInv, WillWork, Tested
  <2>4. CASE row' = [n \in Nas |-> NoRow]
    <3>1. \A n \in Nas : ~Tested(n)'
      BY <2>4 DEF Tested, NoRow
    <3>2. CASE screen = "closed"
      <4>1. Len(updates') = 0
        BY <2>1, <3>2 DEF RowsInv
      <4> QED
        BY <2>1, <3>1, <4>1 DEF RowsInv, WillWork
    <3>3. CASE screen # "closed"
      BY <2>1, <2>2, <3>1, <3>3 DEF RowsInv, WillWork
    <3> QED
      BY <3>2, <3>3
  <2> QED
    BY <2>1, <2>3, <2>4
<1> QED
  BY <1>1, <1>2


LEMMA CrashRows == Crash => RowsInv'
BY DEF Crash, RowsInv

\* Steps that neither tell nor touch a task.
LEMMA QuietRows ==
  ASSUME RowsInv, \/ onStop \/ startTest \/ stopTest \/ (\E n \in Nas : onClickItem(n))
                  \/ onCreate \/ onServiceConnected \/ put \/ onDestroy \/ destroyNext
                  \/ destroyed \/ checkTask \/ checkNext \/ UNCHANGED vars
  PROVE  RowsInv'
<1>1. CASE Crash
  BY <1>1, CrashRows
<1>2. CASE ~Crash
  <2>1. UNCHANGED <<row, updates, tasks>> /\ (screen' = "closed" <=> screen = "closed")
    <3>1. CASE onStop \/ startTest \/ stopTest \/ \E n \in Nas : onClickItem(n)
      BY ZenonT(60), <3>1 DEF onStop, startTest, stopTest, onClickItem, mapVars
    <3>2. CASE onCreate \/ onServiceConnected \/ put \/ onDestroy \/ destroyed \/ checkTask
      BY ZenonT(60), <3>2 DEF onCreate, onServiceConnected, put, onDestroy, destroyed, checkTask, screenVars,
                  mapVars
    <3>3. CASE destroyNext \/ checkNext \/ UNCHANGED vars
      BY <1>2, <3>3 DEF destroyNext, checkNext, vars, screenVars, mapVars
    <3> QED
      BY SMTT(60), <3>1, <3>2, <3>3
  <2>2. \A n \in Nas : AtWork(n) => AtWork(n)'
    BY <2>1 DEF AtWork, Works
  <2> QED
    BY <2>1, <2>2, RowsKept
<1> QED
  BY <1>1, <1>2

LEMMA DoneRows ==
  ASSUME Inv, RowsInv, allDone \/ lastRound
  PROVE  RowsInv'
<1> DEFINE all == [kind |-> "ALL"]
<1>1. CASE Crash
  BY <1>1, CrashRows
<1>2. CASE ~Crash
  <2>1. UNCHANGED <<screen, row, tasks>> /\ (UNCHANGED updates \/ sendBroadcast(all))
    BY ZenonT(60), <1>2 DEF allDone, lastRound, screenVars
  <2>2. \A n \in Nas : /\ AtWork(n)' = AtWork(n)
                       /\ ~Opens(all, n)
    BY <2>1 DEF AtWork, Works, Opens
  <2> HIDE DEF all
  <2>3. CASE UNCHANGED updates
    BY <2>1, <2>2, <2>3, RowsKept
  <2>4. CASE sendBroadcast(all)
    BY <2>1, <2>2, <2>4, SentRows DEF Inv
  <2> QED
    BY SMTT(60), <2>1, <2>3, <2>4
<1> QED
  BY <1>1, <1>2

\* Cancelling leaves a task at work to tell its end.
LEMMA CancelRows ==
  ASSUME Inv, RowsInv, cancel \/ destroyGet
  PROVE  RowsInv'
<1>1. CASE Crash
  BY <1>1, CrashRows
<1>2. CASE ~Crash
  <2>1. /\ UNCHANGED <<screen, row, updates>>
        /\ UNCHANGED tasks \/ \E n \in Nas : mTasks[n] # 0 /\ tasks' = Cancelled(mTasks[n])
    <3>1. CASE cancel
      <4>1. main \in [at : {"cancel"}, i : 1..Len(Routes)]
        BY <3>1 DEF Inv, Typed, MainType, MainState, cancel, Idle
      <4>2. Routes[main.i] \in Nas
        BY SMTT(60), <4>1, DownloaderAssumption
      <4> QED
        BY <3>1, <4>2 DEF cancel, screenVars
    <3>2. CASE destroyGet
      <4>1. main.nas \in Nas
        <5>1. main.at = "get" /\ main \in MainState
          BY ZenonT(60), <3>2 DEF destroyGet, Inv, Typed, MainType
        <5> QED
          BY <5>1 DEF MainState, Idle
      <4> QED
        BY ZenonT(60), <1>2, <3>2, <4>1 DEF destroyGet, screenVars
    <3> QED
      BY <3>1, <3>2
  <2>2. CASE UNCHANGED tasks
    BY <2>1, <2>2, RowsKept DEF AtWork, Works
  <2>3. CASE \E n \in Nas : mTasks[n] # 0 /\ tasks' = Cancelled(mTasks[n])
    <3>1. PICK k \in DOMAIN tasks : tasks' = Cancelled(k)
      BY <2>3 DEF Inv, Typed, MapType
    <3>2. \A n \in Nas : AtWork(n) => AtWork(n)'
      BY <3>1, CancelKeeps DEF Inv
    <3> QED
      BY <2>1, <3>2, RowsKept
  <2> QED
    BY <2>1, <2>2, <2>3
<1> QED
  BY <1>1, <1>2

LEMMA CommandRows ==
  ASSUME Inv, RowsInv, onStartCommand
  PROVE  RowsInv'
<1>1. UNCHANGED <<screen, row, updates>> /\ (UNCHANGED tasks \/ \E t : tasks' = Append(tasks, t))
  BY DEF onStartCommand, screenVars
<1>2. \A k \in DOMAIN tasks : k \in DOMAIN tasks' /\ tasks'[k] = tasks[k]
  <2>1. tasks \in Seq(Task) /\ Len(tasks) \in Nat /\ DOMAIN tasks = 1..Len(tasks)
    BY DEF Inv, Typed, MapType
  <2>2. CASE UNCHANGED tasks
    BY <2>2
  <2>3. CASE ~UNCHANGED tasks
    <3>1. PICK t : tasks' = Append(tasks, t)
      BY <1>1, <2>3
    <3> QED
      BY <2>1, <3>1
  <2> QED
    BY <2>2, <2>3
<1>3. \A n \in Nas : AtWork(n) => AtWork(n)'
  BY <1>2 DEF AtWork, Works
<1> QED
  BY <1>1, <1>3, RowsKept


\* A task begins, goes on, or ends; it tells of its end unless that has no message.
LEMMA PoolRows ==
  ASSUME Inv, RowsInv, NEW k \in DOMAIN tasks,
         begin(k) \/ leaveLoop(k) \/ remove(k) \/ report(k) \/ fail(k)
  PROVE  RowsInv'
<1>0. Typed /\ UNCHANGED <<screen, row>>
  BY DEF Inv, begin, leaveLoop, remove, report, fail, screenVars
<1>1. PICK to \in At, kind \in Kind \cup {"none"}, s \in Speed :
        /\ \E from \in At : Goes(k, from, to)
        /\ (kind = "none" /\ UNCHANGED updates) \/ sendBroadcast(About(kind, k, s))
        /\ to \notin Running \cup {"mute"} => kind \in {"FINISHED", "FAILED"}
        /\ kind = "STARTED" => to = "read"
  <2>1. tasks[k].speed \in Speed
    <3>1. tasks[k] \in Task
      BY <1>0 DEF Typed, MapType
    <3> QED
      BY <3>1 DEF Task
  <2>2. CASE begin(k)
    BY <2>2, SpeedZero DEF begin, At, Kind, Running
  <2>3. CASE leaveLoop(k)
    BY <2>3, SpeedZero DEF leaveLoop, At, Running
  <2>4. CASE remove(k)
    BY <2>4, SpeedZero DEF remove, At, Running
  <2>5. CASE report(k)
    BY <2>1, <2>5 DEF report, At, Kind
  <2>6. CASE fail(k)
    BY <2>6, SpeedZero DEF fail, At, Kind
  <2> QED
    BY <2>2, <2>3, <2>4, <2>5, <2>6
<1>2. PICK t \in Task : t.nas = tasks[k].nas /\ t.at = to /\ tasks' = [tasks EXCEPT ![k] = t]
  BY <1>0, <1>1, GoesOne
<1>3. DOMAIN tasks' = DOMAIN tasks /\ tasks'[k] = t
  BY <1>0, <1>2 DEF Typed, MapType
<1>4. \A n \in Nas : n = tasks[k].nas /\ to \in Running \cup {"mute"} => AtWork(n)'
  BY <1>2, <1>3 DEF AtWork, Works
<1>5. \A n \in Nas : AtWork(n) => AtWork(n)' \/ (n = tasks[k].nas /\ to \notin Running \cup {"mute"})
  BY ZenonT(60), <1>0, <1>2, StaysAtWork
<1>6. CASE kind = "none" /\ UNCHANGED updates
  BY <1>0, <1>1, <1>5, <1>6, RowsKept
<1>7. CASE sendBroadcast(About(kind, k, s))
  <2> DEFINE u == About(kind, k, s)
  <2>1. \A n \in Nas : /\ Opens(u, n) <=> kind = "STARTED" /\ n = tasks[k].nas
                       /\ Closes(u, n) <=> kind \in {"FINISHED", "FAILED"} /\ n = tasks[k].nas
    BY DEF About, Opens, Closes
  <2> HIDE DEF u
  <2>2. \A n \in Nas : AtWork(n)' \/ Closes(u, n) \/ (~Opens(u, n) /\ ~AtWork(n))
    <3> TAKE n \in Nas
    <3>1. CASE n # tasks[k].nas
      BY <1>5, <2>1, <3>1
    <3>2. CASE n = tasks[k].nas /\ to \in Running \cup {"mute"}
      BY <1>4, <3>2
    <3>3. CASE n = tasks[k].nas /\ to \notin Running \cup {"mute"}
      BY <1>1, <2>1, <3>3
    <3> QED
      BY <3>1, <3>2, <3>3
  <2>3. sendBroadcast(u)
    BY <1>7 DEF u
  <2> QED
    BY <1>0, <2>2, <2>3, SentRows
<1> QED
  BY <1>1, <1>6, <1>7

LEMMA ReadRows ==
  ASSUME Inv, RowsInv, NEW k \in DOMAIN tasks, NEW speed \in Speed, read(k, speed)
  PROVE  RowsInv'
<1>0. Typed /\ UNCHANGED <<screen, row>>
  BY DEF Inv, read, screenVars
<1>1. tasks[k] \in Task /\ tasks \in Seq(Task)
  BY <1>0 DEF Typed, MapType
<1>2. PICK t \in Task : t = [tasks[k] EXCEPT !.speed = speed]
  BY ZenonT(60), <1>1 DEF Task
<1>3. t.nas = tasks[k].nas /\ t.at = "read" /\ tasks' = [tasks EXCEPT ![k] = t]
  BY <1>1, <1>2 DEF Task, read
<1>4. \A n \in Nas : AtWork(n) => AtWork(n)'
  BY ZenonT(60), <1>0, <1>3, StaysAtWork DEF Running
<1> DEFINE u == About("PROGRESS", k, speed)
<1>5. sendBroadcast(u) /\ \A n \in Nas : ~Opens(u, n)
  BY DEF read, About, Opens
<1> HIDE DEF u
<1> QED
  BY <1>0, <1>4, <1>5, SentRows

LEMMA NextRows ==
  ASSUME Inv, RowsInv, [Next]_vars
  PROVE  RowsInv'
<1>1. CASE \/ onStop \/ startTest \/ stopTest \/ (\E n \in Nas : onClickItem(n))
           \/ onCreate \/ onServiceConnected \/ put \/ onDestroy \/ destroyNext
           \/ destroyed \/ checkTask \/ checkNext \/ UNCHANGED vars
  BY ZenonT(60), <1>1, QuietRows
<1>2. CASE onStart \/ onDestroyFragment \/ onReceive \/ onStartCommand
  BY <1>2, ScreenRows, ReceiveRows, CommandRows
<1>3. CASE cancel \/ destroyGet \/ allDone \/ lastRound
  BY <1>3, CancelRows, DoneRows
<1>4. CASE \E k \in DOMAIN tasks :
             begin(k) \/ leaveLoop(k) \/ remove(k) \/ report(k) \/ fail(k)
  BY <1>4, PoolRows
<1>5. CASE \E k \in DOMAIN tasks : \E speed \in Speed : read(k, speed)
  BY <1>5, ReadRows
<1> QED
  BY <1>1, <1>2, <1>3, <1>4, <1>5 DEF Next

\* NasFragment.setProgressData: a row that still shows a test when nothing works and
\* nothing is under way is one whose download failed without a message, for any number
\* of servers, tests, cancellations and visits, whatever is still queued or overtaken.
THEOREM RowsAreSettled == Spec => []RowsSettle
<1>1. Init => RowsInv
  BY DEF Init, RowsInv
<1>2. Init => Inv
  BY InitInv
<1>3. Inv /\ RowsInv /\ [Next]_vars => (Inv /\ RowsInv)'
  BY NextInv, NextRows
<1> QED
  BY <1>1, <1>2, <1>3, RowsInvSettles, PTL DEF Spec

=============================================================================
