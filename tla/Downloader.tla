----------------------------- MODULE Downloader -----------------------------
(***************************************************************************)
(* The speed test: NasFragment, which asks for one download per server and *)
(* shows what comes of it, and the service DownloaderEx with its map of    *)
(* tasks, its pool of one thread, and the thread that looks once a second  *)
(* whether all is done.  The map is not synchronized: Main puts and        *)
(* cancels, the pool's thread looks up and removes, the checker iterates.  *)
(* Each call on the map is a step here, an iterator that is used after a   *)
(* change throws, and an exception on Main or in the checker ends the      *)
(* process.  The time of a download is left out, its speed is a choice.    *)
(***************************************************************************)
EXTENDS Integers, Sequences, Functions

CONSTANTS
  Nas,        \* the servers, by their addresses
  Routes,     \* the list on the screen
  Available,  \* the servers nasIsAvailable allows the user
  MaxSpeed,   \* bound on the speeds
  MaxUses,    \* bound on the times the screen is shown or Start is clicked
  MaxUpdates  \* bound on the broadcasts under way

ASSUME DownloaderAssumption ==
  /\ Routes \in Seq(Nas) /\ Range(Routes) = Nas /\ IsInjective(Routes)
  /\ Available \subseteq Nas
  /\ MaxSpeed \in Nat /\ MaxUses \in Nat /\ MaxUpdates \in Nat

VARIABLES
  screen,     \* the fragment: "shown", "leaving", "stopped" or "closed"
  btn,        \* the button that is visible, "start" or "stop"
  row,        \* per server, what its JSON object says of the test
  current,    \* the preference currentNas, NoNas at first
  route,      \* the preference testingRouteIndex
  updates,    \* BROADCAST_DOWNLOAD_PROGRESS intents under way
  connection, \* mConnection: "none", "binding" or "bound"
  leaked,     \* a binding was given up before it was made
  started,    \* the service is started
  cmds,       \* start commands not yet delivered, by server
  object,     \* number of the last service object
  created,    \* it is alive
  mTasks,     \* its map, 0 where there is no entry
  tasks,      \* all tasks ever submitted
  main,       \* where Main is
  check,      \* the iteration of the checker
  late,       \* the checker of an earlier object has still to end
  early,      \* history: tasks put after they had removed their entry
  crashed,    \* an exception has ended the process
  uses        \* times the screen was shown or Start clicked

screenVars  == <<screen, btn, row, current, route, uses>>
serviceVars == <<connection, leaked, started, cmds, object, created>>
mapVars     == <<mTasks, tasks, main, check, late, early>>
vars == <<screenVars, updates, serviceVars, mapVars, crashed>>

NoNas == "none"
Speed == 0..MaxSpeed

\* A task waits; opens and reads its connection; has left the loop; has removed its
\* entry; is over; has told of its failure, or has told it with no message.
At == {"queued", "read", "close", "report", "over", "failed", "mute"}

Running == {"read", "close", "report"}

Kind == {"STARTED", "PROGRESS", "FINISHED", "FAILED", "MUTE"}
Update == [kind : Kind, nas : Nas, speed : Speed] \cup {[kind |-> "ALL"]}

Iteration == [on : BOOLEAN, todo : SUBSET Nas, dirty : BOOLEAN]
NoIteration == [on |-> FALSE, todo |-> {}, dirty |-> FALSE]

TypeOK ==
  /\ screen \in {"shown", "leaving", "stopped", "closed"} /\ btn \in {"start", "stop"}
  /\ row \in [Nas -> [started : BOOLEAN, finished : BOOLEAN, speed : Speed]]
  /\ current \in Nas \cup {NoNas} /\ route \in -1..Len(Routes) - 1
  /\ updates \in Seq(Update)
  /\ connection \in {"none", "binding", "bound"}
  /\ leaked \in BOOLEAN /\ started \in BOOLEAN /\ created \in BOOLEAN
  /\ cmds \in Seq(Nas) /\ object \in Nat
  /\ tasks \in Seq([nas : Nas, object : Nat, at : At, cancelled : BOOLEAN, speed : Speed])
  /\ mTasks \in [Nas -> 0..Len(tasks)]
  /\ \A n \in Nas : mTasks[n] # 0 =>
       tasks[mTasks[n]].nas = n /\ tasks[mTasks[n]].object = object
  /\ main.at \in {"idle", "put", "cancel", "destroy", "get"}
  /\ check \in Iteration /\ late \in {"no", "yes", "dirty"}
  /\ early \subseteq DOMAIN tasks
  /\ crashed \in BOOLEAN /\ uses \in 0..MaxUses

Idle == [at |-> "idle"]
NoRow == [started |-> FALSE, finished |-> FALSE, speed |-> 0]

Init ==
  /\ screen = "closed" /\ btn = "start" /\ row = [n \in Nas |-> NoRow]
  /\ current = NoNas /\ route = -1 /\ uses = 0
  /\ updates = <<>>
  /\ connection = "none" /\ leaked = FALSE /\ started = FALSE
  /\ cmds = <<>> /\ object = 0 /\ created = FALSE
  /\ mTasks = [n \in Nas |-> 0] /\ tasks = <<>>
  /\ main = Idle /\ check = NoIteration /\ late = "no" /\ early = {}
  /\ crashed = FALSE

MainFree == main = Idle /\ ~crashed

Entries == {n \in Nas : mTasks[n] # 0}

\* FutureTask.cancel: a task that has not begun never will.
Cancelled(k) ==
  [tasks EXCEPT ![k] = CASE tasks[k].at = "queued"   -> [@ EXCEPT !.at = "over"]
                         [] tasks[k].at \in Running -> [@ EXCEPT !.cancelled = TRUE]
                         [] OTHER                   -> @]

\* FutureTask.isDone: cancelled, or run to its end.
Done(k) == tasks[k].cancelled \/ tasks[k].at \in {"over", "failed", "mute"}

\* sendBroadcast; the receiver is registered from onCreate to onDestroy.
sendBroadcast(u) ==
  IF screen = "closed" THEN UNCHANGED updates
  ELSE Len(updates) < MaxUpdates /\ updates' = Append(updates, u)

About(kind, k, speed) == [kind |-> kind, nas |-> tasks[k].nas, speed |-> speed]

Dirtied(i) == IF i.on THEN [i EXCEPT !.dirty = TRUE] ELSE i

\* An uncaught exception ends the process; only the preferences are left.
Crash ==
  /\ crashed' = TRUE
  /\ screen' = "closed" /\ btn' = "start" /\ row' = [n \in Nas |-> NoRow]
  /\ updates' = <<>> /\ connection' = "none" /\ leaked' = FALSE /\ started' = FALSE
  /\ cmds' = <<>> /\ created' = FALSE /\ mTasks' = [n \in Nas |-> 0] /\ tasks' = <<>>
  /\ main' = Idle /\ check' = NoIteration /\ late' = "no" /\ early' = {}
  /\ UNCHANGED <<current, route, uses, object>>

-----------------------------------------------------------------------------
(* NasFragment                                                             *)

\* The fragment comes back as it was, or with a view and a list of its own.
onStart ==
  /\ MainFree /\ screen \in {"stopped", "closed"} /\ uses < MaxUses
  /\ screen' = "shown" /\ uses' = uses + 1 /\ connection' = "binding"
  /\ \/ screen = "stopped" /\ UNCHANGED <<btn, row>>
     \/ btn' = "start" /\ row' = [n \in Nas |-> NoRow]
  /\ UNCHANGED <<current, route, updates, leaked, started, cmds, object, created,
                 mapVars, crashed>>

\* Mutant: the service is left to stop itself.
UnbindOnly ==
  /\ MainFree /\ screen \in {"shown", "leaving"} /\ screen' = "stopped"
  /\ connection' = "none" /\ leaked' = (leaked \/ connection = "binding")
  /\ UNCHANGED <<btn, row, current, route, uses, updates, started, cmds, object,
                 created, mapVars, crashed>>

\* Without a service the binding is not undone.
onStop ==
  /\ MainFree /\ screen \in {"shown", "leaving"} /\ screen' = "stopped"
  /\ connection' = "none" /\ leaked' = (leaked \/ connection = "binding")
  /\ started' = FALSE
  /\ UNCHANGED <<btn, row, current, route, uses, updates, cmds, object, created,
                 mapVars, crashed>>

onDestroyFragment ==
  /\ MainFree /\ screen = "stopped" /\ screen' = "closed" /\ updates' = <<>>
  /\ UNCHANGED <<btn, row, current, route, uses, serviceVars, mapVars, crashed>>

\* The servers from the one after the last that was tested.
Rotated ==
  [i \in 1..Len(Routes) |-> Routes[((i - 1 + route + 1) % Len(Routes)) + 1]]

startTest ==
  /\ MainFree /\ screen = "shown" /\ btn = "start" /\ uses < MaxUses
  /\ uses' = uses + 1 /\ btn' = "stop"
  /\ cmds' = cmds \o Rotated /\ started' = TRUE
  /\ UNCHANGED <<screen, row, current, route, updates, connection, leaked, object,
                 created, mapVars, crashed>>

\* The Stop button: each server of the list is cancelled, if the service is there.
stopTest ==
  /\ MainFree /\ screen = "shown" /\ btn = "stop" /\ btn' = "start"
  /\ main' = IF connection = "bound" /\ Routes # <<>> THEN [at |-> "cancel", i |-> 1]
             ELSE Idle
  /\ UNCHANGED <<screen, row, current, route, uses, updates, serviceVars, mTasks, tasks,
                 check, late, early, crashed>>

\* DownloaderEx.cancel
cancel ==
  /\ main.at = "cancel" /\ ~crashed
  /\ LET n == Routes[main.i] IN
       IF mTasks[n] # 0
       THEN /\ tasks' = Cancelled(mTasks[n])
            /\ mTasks' = [mTasks EXCEPT ![n] = 0] /\ check' = Dirtied(check)
       ELSE UNCHANGED <<tasks, mTasks, check>>
  /\ main' = IF main.i < Len(Routes) THEN [main EXCEPT !.i = @ + 1] ELSE Idle
  /\ UNCHANGED <<screenVars, updates, serviceVars, late, early, crashed>>

\* A click on a server the user may use; the fragment is then replaced (onStop).
onClickItem(n) ==
  /\ MainFree /\ screen = "shown" /\ n \in Available /\ current' = n
  /\ screen' = "leaving"
  /\ UNCHANGED <<btn, row, route, uses, updates, serviceVars, mapVars, crashed>>

\* The first of the fastest, NoNas if no speed is positive.
fastestNas(rows) ==
  LET speed(i) == rows[Routes[i]].speed
      best == {i \in 1..Len(Routes) :
                 speed(i) > 0 /\ \A j \in 1..Len(Routes) : speed(j) <= speed(i)}
  IN  IF best = {} THEN NoNas ELSE Routes[CHOOSE i \in best : \A j \in best : i <= j]

\* ProgressBroadcastReceiver.setProgressData.  A failure that comes without a
\* message is not known as one.
setProgressData(u) ==
  LET r == [row[u.nas] EXCEPT !.speed = u.speed]
      rows == [row EXCEPT ![u.nas] =
                CASE u.kind = "STARTED" -> [r EXCEPT !.started = TRUE, !.finished = FALSE]
                  [] u.kind \in {"FAILED", "FINISHED"} -> [r EXCEPT !.finished = TRUE]
                  [] OTHER -> r]
  IN  /\ row' = rows
      /\ current' = IF u.kind = "FINISHED" /\ fastestNas(rows) \in Available
                    THEN fastestNas(rows) ELSE current

onReceive ==
  /\ MainFree /\ updates # <<>> /\ updates' = Tail(updates)
  /\ LET u == Head(updates) IN
       \/ /\ u.kind = "ALL" /\ btn' = "start" /\ UNCHANGED <<row, current, route>>
       \/ /\ u.kind # "ALL" /\ setProgressData(u) /\ UNCHANGED btn
          /\ route' = IF u.kind = "STARTED"
                      THEN (CHOOSE i \in 1..Len(Routes) : Routes[i] = u.nas) - 1 ELSE route
  /\ UNCHANGED <<screen, uses, serviceVars, mapVars, crashed>>

-----------------------------------------------------------------------------
(* DownloaderEx on Main                                                    *)

Needed == started \/ leaked \/ connection # "none"

\* Mutant: the map is static.
CreateKeepsMap ==
  /\ MainFree /\ ~created /\ (Needed \/ cmds # <<>>)
  /\ created' = TRUE /\ object' = object + 1 /\ check' = NoIteration
  /\ UNCHANGED <<screenVars, updates, connection, leaked, started, cmds, mTasks, tasks,
                 main, late, early, crashed>>

onCreate ==
  /\ MainFree /\ ~created /\ (Needed \/ cmds # <<>>)
  /\ created' = TRUE /\ object' = object + 1
  /\ mTasks' = [n \in Nas |-> 0] /\ check' = NoIteration
  /\ UNCHANGED <<screenVars, updates, connection, leaked, started, cmds, tasks, main,
                 late, early, crashed>>

onServiceConnected ==
  /\ MainFree /\ created /\ connection = "binding" /\ connection' = "bound"
  /\ UNCHANGED <<screenVars, updates, leaked, started, cmds, object, created, mapVars,
                 crashed>>

\* A server that has an entry is not tested.  The task is submitted, and can run,
\* before it is put.
onStartCommand ==
  /\ MainFree /\ created /\ cmds # <<>> /\ cmds' = Tail(cmds)
  /\ LET n == Head(cmds) IN
       IF mTasks[n] # 0 THEN UNCHANGED <<tasks, main>>
       ELSE /\ tasks' = Append(tasks, [nas |-> n, object |-> object, at |-> "queued",
                                       cancelled |-> FALSE, speed |-> 0])
            /\ main' = [at |-> "put", task |-> Len(tasks) + 1]
  /\ UNCHANGED <<screenVars, updates, connection, leaked, started, object, created,
                 mTasks, check, late, early, crashed>>

put ==
  /\ main.at = "put" /\ ~crashed /\ main' = Idle
  /\ LET k == main.task IN
       /\ mTasks' = [mTasks EXCEPT ![tasks[k].nas] = k] /\ check' = Dirtied(check)
       /\ early' = IF tasks[k].at \in {"report", "over"} THEN early \cup {k} ELSE early
  /\ UNCHANGED <<screenVars, updates, serviceVars, tasks, late, crashed>>

\* The system destroys the service when nobody needs it any more and all its
\* commands are delivered.  onDestroy iterates the keys.
onDestroy ==
  /\ MainFree /\ created /\ ~Needed /\ cmds = <<>>
  /\ main' = [at |-> "destroy", todo |-> Entries, dirty |-> FALSE]
  /\ UNCHANGED <<screenVars, updates, serviceVars, mTasks, tasks, check, late, early,
                 crashed>>

\* The iterator's next
destroyNext ==
  /\ main.at = "destroy" /\ ~crashed /\ main.todo # {}
  /\ \/ main.dirty /\ Crash
     \/ /\ ~main.dirty
        /\ \E n \in main.todo :
             main' = [at |-> "get", nas |-> n, todo |-> main.todo \ {n}, dirty |-> FALSE]
        /\ UNCHANGED <<screenVars, updates, serviceVars, mTasks, tasks, check, late,
                       early, crashed>>

\* mTasks.get(id).cancel(true)
destroyGet ==
  /\ main.at = "get" /\ ~crashed
  /\ \/ mTasks[main.nas] = 0 /\ Crash
     \/ /\ mTasks[main.nas] # 0
        /\ tasks' = Cancelled(mTasks[main.nas])
        /\ main' = [at |-> "destroy", todo |-> main.todo, dirty |-> main.dirty]
        /\ UNCHANGED <<screenVars, updates, serviceVars, mTasks, check, late, early,
                       crashed>>

\* The object is left to its pool and its checker, which may be in a round.
destroyed ==
  /\ main.at = "destroy" /\ ~crashed /\ main.todo = {}
  /\ main' = Idle /\ created' = FALSE /\ check' = NoIteration
  /\ late' = IF check.on /\ check.dirty THEN "dirty" ELSE "yes"
  /\ UNCHANGED <<screenVars, updates, connection, leaked, started, cmds, object, mTasks,
                 tasks, early, crashed>>

-----------------------------------------------------------------------------
(* The checker                                                             *)

\* Mutant: a round with nothing in the map is none.
CheckEntries ==
  /\ created /\ ~crashed /\ ~check.on /\ Entries # {}
  /\ check' = [on |-> TRUE, todo |-> Entries, dirty |-> FALSE]
  /\ UNCHANGED <<screenVars, updates, serviceVars, mTasks, tasks, main, late, early,
                 crashed>>

checkTask ==
  /\ created /\ ~crashed /\ ~check.on
  /\ check' = [on |-> TRUE, todo |-> Entries, dirty |-> FALSE]
  /\ UNCHANGED <<screenVars, updates, serviceVars, mTasks, tasks, main, late, early,
                 crashed>>

checkNext ==
  /\ check.on /\ ~crashed /\ check.todo # {}
  /\ \/ check.dirty /\ Crash
     \/ /\ ~check.dirty
        /\ \E n \in check.todo :
             check' = IF Done(mTasks[n])
                      THEN [check EXCEPT !.todo = @ \ {n}] ELSE NoIteration
        /\ UNCHANGED <<screenVars, updates, serviceVars, mTasks, tasks, main, late,
                       early, crashed>>

\* The intent that all is finished, and stopSelf.
allDone ==
  /\ check.on /\ ~crashed /\ check.todo = {}
  /\ check' = NoIteration /\ started' = FALSE /\ sendBroadcast([kind |-> "ALL"])
  /\ UNCHANGED <<screenVars, connection, leaked, cmds, object, created, mTasks, tasks,
                 main, late, early, crashed>>

\* The last round of the checker of a destroyed object, whose tasks are all
\* cancelled or done; it may have begun before, or not begin at all.
lastRound ==
  /\ late # "no" /\ ~crashed
  /\ \/ /\ late' = "no" /\ (UNCHANGED updates \/ sendBroadcast([kind |-> "ALL"]))
        /\ UNCHANGED <<screenVars, serviceVars, mTasks, tasks, main, check, early,
                       crashed>>
     \/ late = "dirty" /\ Crash

-----------------------------------------------------------------------------
(* download, on the pool's thread                                          *)

\* The pool of k's object has one thread.
NextTask(k) ==
  \A j \in DOMAIN tasks : tasks[j].object = tasks[k].object =>
    tasks[j].at \notin Running /\ (j < k => tasks[j].at # "queued")

\* What is over is done, cancelled or not, and its speed is told.
Goes(k, from, to) ==
  /\ ~crashed /\ tasks[k].at = from
  /\ tasks' = [tasks EXCEPT ![k] =
                 IF to \in Running THEN [@ EXCEPT !.at = to]
                 ELSE [@ EXCEPT !.at = to, !.speed = 0, !.cancelled = FALSE]]

begin(k) ==
  /\ NextTask(k) /\ Goes(k, "queued", "read") /\ sendBroadcast(About("STARTED", k, 0))
  /\ UNCHANGED <<screenVars, serviceVars, mTasks, main, check, late, early, crashed>>

\* The task goes by its server's entry, whichever task that is.  In the map of a
\* destroyed object there is none that is not cancelled.
Entry(k) ==
  IF created /\ tasks[k].object = object THEN mTasks[tasks[k].nas] ELSE 0
GoesOn(k) == Entry(k) # 0 /\ ~tasks[Entry(k)].cancelled

\* A chunk, and an update, which is sent when 300 ms have passed.
read(k, speed) ==
  /\ tasks[k].at = "read" /\ ~crashed /\ GoesOn(k)
  /\ tasks' = [tasks EXCEPT ![k].speed = speed]
  /\ sendBroadcast(About("PROGRESS", k, speed))
  /\ UNCHANGED <<screenVars, serviceVars, mTasks, main, check, late, early, crashed>>

\* The end of the file, of the bytes or of the time; or the task is to stop.
leaveLoop(k) ==
  /\ Goes(k, "read", "close")
  /\ UNCHANGED <<screenVars, updates, serviceVars, mTasks, main, check, late, early,
                 crashed>>

\* Mutant: the entry of a finished task stays.
KeepEntry(k) ==
  /\ Goes(k, "close", "report")
  /\ UNCHANGED <<screenVars, updates, serviceVars, mTasks, main, check, late, early,
                 crashed>>

\* mTasks.remove(id), whichever task the entry is for.
remove(k) ==
  /\ Goes(k, "close", "report")
  /\ IF Entry(k) # 0
     THEN /\ mTasks' = [mTasks EXCEPT ![tasks[k].nas] = 0] /\ check' = Dirtied(check)
          /\ main' = IF main.at \in {"destroy", "get"} THEN [main EXCEPT !.dirty = TRUE]
                     ELSE main
          /\ UNCHANGED late
     ELSE /\ late' = IF late = "yes" /\ tasks[k].object # object THEN "dirty" ELSE late
          /\ UNCHANGED <<mTasks, check, main>>
  /\ UNCHANGED <<screenVars, updates, serviceVars, early, crashed>>

\* Mutant: a task that was stopped does not tell that it finished.
ReportUnlessStopped(k) ==
  /\ Goes(k, "report", "over")
  /\ IF tasks[k].cancelled THEN UNCHANGED updates
     ELSE sendBroadcast(About("FINISHED", k, tasks[k].speed))
  /\ UNCHANGED <<screenVars, serviceVars, mTasks, main, check, late, early, crashed>>

report(k) ==
  /\ Goes(k, "report", "over") /\ sendBroadcast(About("FINISHED", k, tasks[k].speed))
  /\ UNCHANGED <<screenVars, serviceVars, mTasks, main, check, late, early, crashed>>

\* An exception: its message is told and may be null; the entry stays.
fail(k) ==
  /\ \E from \in {"read", "close"} :
       \/ Goes(k, from, "failed") /\ sendBroadcast(About("FAILED", k, 0))
       \/ Goes(k, from, "mute") /\ sendBroadcast(About("MUTE", k, 0))
  /\ UNCHANGED <<screenVars, serviceVars, mTasks, main, check, late, early, crashed>>

Next ==
  \/ onStart \/ onStop \/ onDestroyFragment \/ startTest \/ stopTest \/ cancel
  \/ \E n \in Nas : onClickItem(n)
  \/ onReceive \/ onCreate \/ onServiceConnected \/ onStartCommand \/ put
  \/ onDestroy \/ destroyNext \/ destroyGet \/ destroyed
  \/ checkTask \/ checkNext \/ allDone \/ lastRound
  \/ \E k \in DOMAIN tasks :
       \/ begin(k) \/ leaveLoop(k) \/ remove(k) \/ report(k) \/ fail(k)
       \/ \E speed \in Speed : read(k, speed)

Spec == Init /\ [][Next]_vars

\* Main runs what is queued for it, the threads of the service go on, broadcasts
\* arrive.  Nothing is said of the network, which may keep a download waiting for
\* ever: no timeout is set.  Fairness is strong where a step waits for Main or for
\* room under MaxUpdates, which in the code has no bound.
Fairness ==
  /\ WF_vars(onReceive \/ put \/ cancel \/ destroyNext \/ destroyGet \/ destroyed)
  /\ SF_vars(onStartCommand \/ onCreate \/ onServiceConnected \/ onDestroy)
  /\ SF_vars(checkTask \/ checkNext \/ allDone)
  /\ SF_vars(\E k \in DOMAIN tasks : begin(k) \/ remove(k) \/ report(k))

FairSpec == Spec /\ Fairness

-----------------------------------------------------------------------------
(* Properties                                                              *)

\* DownloaderEx.onStartCommand ignores a server that has an entry.  An entry that
\* nothing works for any more, and that so keeps a server from being tested, is
\* left by a download that failed or that was over before it was put, never by one
\* that finished or was cancelled later.
LeftoverAccounted ==
  created /\ main = Idle =>
    \A n \in Entries : Done(mTasks[n]) =>
      tasks[mTasks[n]].at \in {"failed", "mute"} \/ mTasks[n] \in early

\* No task works or waits to, and nothing is on its way to the screen.
Rest ==
  /\ MainFree /\ updates = <<>> /\ cmds = <<>>
  /\ \A k \in DOMAIN tasks :
       tasks[k].at \notin Running \cup {"queued"}

\* NasFragment.setProgressData: when all is over a row is left as being tested only
\* by a failure that came without a message, however tasks were cancelled, put
\* again and overtaken.
RowsSettle ==
  Rest /\ screen = "shown" =>
    \A n \in Nas : row[n].started /\ ~row[n].finished =>
      \E k \in DOMAIN tasks : tasks[k].nas = n /\ tasks[k].at = "mute"

\* The button of a screen that stays does not stay at Stop for good, unless one
\* download waits for the network for good, or an exception has ended the process.
TestEnds ==
  <>[](screen = "shown" /\ btn = "stop" /\ ~crashed) =>
    <>[](\E k \in DOMAIN tasks : tasks[k].at = "read")

\* NasFragment.onStop: once the screen is left the service ends, unless its binding
\* was given up too early.
ServiceEnds ==
  <>[](screen \in {"stopped", "closed"}) => <>[](~created \/ leaked \/ crashed)

\* The best of the rows of a test that is over.
Fastest == {n \in Nas : row[n].speed > 0 /\ \A m \in Nas : row[m].speed <= row[n].speed}

\* NasFragment.setProgressData: when the last result of a test is in, the server
\* that is selected is a fastest one (res/values/re_strings.xml).
SelectsFastest ==
  [][/\ updates # <<>> /\ Head(updates).kind \in {"FINISHED", "FAILED"}
     /\ Rest' /\ screen' = "shown" /\ Fastest' # {}
     => current' \in Fastest']_vars

=============================================================================
