# Verification of the Reindeer VPN client

TLA+ models of the Android client in this repository: a VPN app ("Reindeer")
built on Shadowsocks. A switch on the main screen connects and disconnects; a
VPN service starts native daemons, owns the tunnel interface and enforces the
user's paid time; around them are the choice of a root server, a speed test, the
shop and account screens.

Sources are under `src/src/main/`; `SC` stands for
`scala/com/github/shadowsocks/`, `JV` for `java/com/biganiseed/reindeer/`.

## 1. The system and its parts

| part | source | state | operations | module |
|---|---|---|---|---|
| VPN runner | `SC/ShadowsocksVpnService.scala` | fields `config`, `conn`, `receiver`; daemons and pid files | `startRunner` and its thread, `startVpn`, `stopRunner`, `killProcesses`, `onRevoke` | `VpnRunner` |
| state machine | `SC/BaseService.scala` | `state`, the Runnables posted to the main looper | `changeState`, `start` | `BaseService` |
| lifecycle, timers | `JV/ReindeerVpnService.java`, `SC/BaseService.scala` | callbacks, started flag, two timers | `onStartCommand`, CLOSE receiver, timer tasks, `onDestroy`, `register`/`unregisterCallback` | `ReindeerVpnService` |
| root server | `JV/Api.java`, `JV/Const.java`, `JV/VpnConnector.java` | two preferences: address and history | `checkDns`, `getRootIp`, retries of `connect()` | `RootIp` |
| connector, switch | `JV/ShadowsocksConnector.java`, `JV/fragment/SwitcherFragment.java`, `JV/ReindeerSwitcher.java` | binding, broadcasts, what the switch shows | `connect`, `doConnect`, `disconnect`, `broadcastStatus`, `stateChanged` | `Switcher` |
| speed test | `JV/DownloaderEx.java`, `JV/fragment/NasFragment.java` | task map, pool, checker, rows of the list | start, stop, finish, fail, choose, create, destroy | `Downloader` |
| purchases | `JV/googlebilling/`, `JV/fragment/AccountFragment.java`, `JV/fragment/OrderFragment.java` | helper, inventory, order; the store's and the backend's books | set up, buy, confirm, consume | `Billing`, `Ledger` |

How they interact. The switch calls `connect()`, which asks the root server for
a configuration on a thread of its own, and then `bgService.start(config)`. The
service runs in the app's process, so this is a plain call on that thread.
`startRunner` spawns the worker that starts the daemons and the interface. The
state changes only in Runnables on the main looper, which tell the connector's
callback, which broadcasts UPDATE_STATE to the switch. Everything that
disconnects sends the CLOSE broadcast: the switch, the bypass box, the server
list, two timers of the service and an alarm. `startService`, called after
`start`, makes the service start its timers.

The speed test is a screen and a started and bound service that talk by
broadcasts; it sets the server the next `connect()` asks for. Purchases go through
the store's billing service on two pages, each with a helper of its own; they
extend the time that the expiration timer enforces.

What makes it hard: the code takes no lock. Main, the binder's thread, the
workers, the `connect()` threads and those of the test and the shop share fields,
maps and preferences, guards read a state that a queued Runnable is about to
change, exceptions end the process on Main and are swallowed elsewhere, daemons and
purchases outlive the process, and Android creates, destroys and restarts screens
and services as it sees fit. `PROJECT.json` lists the places where this bites.

## 2. Modules

**`VpnRunner`.** One thread of control per session (the caller of `start`, followed
by the thread it spawns), plus Main and Binder, each with a program counter. Every
read or write of a shared field is a step. `live` is the set of daemons that run and
`pidFile` what the pid files say; both survive `ProcessEnds`. ss-local, pdnsd and
ss-tunnel are one task, "proxy": one thread starts them in a row. An exception is
`Throws`: on Main it ends the process; the `spawn` of Scala 2.10 and the binder's
dispatcher swallow it, so there the thread just ends: "died" when another thread
caused it, "threw" when a configuration file could not be written (`printToFile`) or
an app that bypasses the VPN is not installed (`addDisallowedApplication`). A
daemon's command may fail unnoticed: `Console.runCommand` looks at no result. The
constant `Overlap` says whether a thread may enter the runner while another is
inside: `TRUE` is what the code allows, `FALSE` the use its authors had in mind, for
properties that only hold then.

**`BaseService`.** The abstract specification: state, looper, and a phase per
thread (at rest, starting, stopping, failed, silent, over). It says which states
may be posted in which phase and nothing of fields, daemons or interfaces.
`VpnRunner` maps its program counters to phases with `PhaseAt` and implements it
(`ImplementsBaseService`).

**`ReindeerVpnService`.** Extends `BaseService` with what keeps the service
alive and what the timers do. The runner's steps are the actions of
`BaseService`, conjoined with what they do here: `Teardown` closes the interface
and calls `stopSelf` when no callback is registered. `onDestroy` does not end the
thread of `startRunner`: a session that is still on its way becomes an orphan, which
may establish its interface in an object that is gone. Such an interface, and one
whose `conn` a failed `establish` has overwritten, is "lost": no `stopRunner` closes
it, only a revoke, the death of the process or the finalizer of its descriptor. The
SHUTDOWN receiver is left out (the device is going down), and closing the interface,
`stopSelf` and the STOPPED post are one step.

**`RootIp`.** A thread per chain of `connect()` calls and one per opening of
`MainActivity`. The two preferences are read and written in separate steps, as
`checkDns` does. The history string is the set of its entries; `String.contains` is
equality or membership of the pair in `Inside`, the constant that says which address
is a part of the text of which other. `tried`, which stops at 3, and `first` are
history variables. The loop of `getRootIp` over the list is one step.

**`Switcher`.** Extends `BaseService` with the connector and the switch.
UPDATE_STATE broadcasts are a queue, as Android delivers them to one receiver.
`broadcastStatus` may run at any time, for "no update for a second" says nothing of
those under way; that it does run is assumed only when none comes. When `doConnect`
runs on Main, after the consent dialog, its steps are one action. `Recreate` is a
new screen at any moment: the connector, its binding, its profile and what the
switch shows are new, broadcasts under way went to the old receiver, and `connect()`
threads go on with the old connector, which has no service (`stale`). The service
object lives on if it was started, and may else be a new one. Consent that comes
back to a connector without profile or service throws on Main (`NullPointer`); the
process starts again. After a recreation `MainActivity.onCreate` adds a second
`SwitcherFragment` beside the restored one; both repeat the same broadcasts and only
the topmost is modelled. A binding that `deattachService` does not undo is removed
by Android with its activity.

**`Downloader`.** The fragment, the service's callbacks on Main, the checker and
the thread of the pool. Every call on the task map is a step; an iterator used
after a change throws, and on Main or in the checker that ends the process. Other
outcomes of unsynchronized access to a `HashMap` are not modelled. Opening the
connection is part of reading it; speeds are choices. A destroyed service object is
kept as what its pool still runs (`tasks`) and whether its checker has a round to
go (`late`). The system's decision to destroy a service and `onDestroy` are one
step. After a crash nothing more happens: the redelivery of intents to a new
process is left out, and so are the report of the speeds and the dialogs. The CLOSE
that `startTest` sends is `CloseElsewhere` of `Switcher`.

**`Billing`.** An order page and account pages, each with a `GoogleBilling` and an
`IabHelper`: how far it is set up, its one operation in progress, the threads that
go through an inventory, and the Runnables posted to Main. The store's books
(`owned`, `consumed`) and the backend's (`credited`) survive the process. What
fails, what the system does and what the user does to a page at work counts as a
fault (`Fault`): an answer lost before or after the request was carried out, a
refusal, a service that is missing or lost, a page that is left, a kill, another
user. Telling the backend again changes nothing there, and the user it answers
with is the one the order names. Skus are gone through in any order; a page's name
is used again when nothing of the page is left; the check of the user and the
store of the answer are one step; `onConsumeFinished` only logs.

**`Ledger`.** The abstract specification of buying: the books of the store and of the
backend and nothing of pages, helpers or threads. A purchase is bought once, and not
while another of its kind is owned; only what was bought is credited; only what is
owned and credited is consumed, the order of the last two being lost once two threads
have shared a callback's field (`Mix`). `Billing` implements it (`ImplementsLedger`).

The `MC*` modules instantiate these for TLC; sessions are symmetric
where only safety is checked. Definitions commented "Mutant" change an action
the way a bug would; they are part of no specification, and each shows that a
property can fail.

## 3. Runs

| run | instance | what it shows |
|---|---|---|
| `runner_overlap` | 1 session, both kinds of proxy, 2 stops, any overlap, fair | whoever posted CONNECTING or STOPPING last still owes a terminal state, unless it ended silently; these states are left and a stop reaches STOPPED |
| `runner_sequential` | 2 sessions, 2 stops, 2 kills, no overlap | no thread meets what another has done, a transitional state is left behind only by a failure of the start itself, every live daemon is named by its pid file, STOPPED and CONNECTED tell the truth; implements `BaseService` |
| `service_close` | 1 session, 1 client, 1 kill, any overlap, fair | after a CLOSE the interface that the service holds does not stay |
| `service_live` | 2 sessions, 1 client, no overlap, fair | a settled session that is CONNECTED or holds an interface has its expiration timer; no interface is held for good for somebody whose time is over |
| `service_expiration` | 1 session, overlap, fair | **violated**, see below |
| `service_unused` | 1 session, fair | **violated**, see below |
| `rootip_retries` | 1 chain and an opening of the app, 3 addresses, 4 pages, fair | undisturbed, no server is asked twice but the first and none is left out; retries end although the opening overwrites the history, if requests do |
| `switcher_switch` | 2 clicks or new screens, fair | the switch is not left on for a stopped service, is disabled only while something is owed to it, comes to show the service and does not stay disabled |
| `downloader_test` | 1 server, 3 uses of the screen, fair | which entries block a server, no row stays as being tested, the button gets back to Start, the service ends |
| `downloader_fastest` | 2 servers, 2 tests, nothing stopped or left | **violated**, see below |
| `billing_purchase` | 1 purchase, 2 users, 2 faults, fair | nothing is consumed that was not credited, the books are kept as in `Ledger`, only faults crash, a purchase is consumed in the end if the backend answers |
| `billing_two` | 2 purchases, no fault | **violated**, see below |

Exceptions that the properties name are behaviours of the code: a thread that finds
`config` cleared ends without a word; a `startVpn` that could not establish the
interface is still reported as CONNECTED, because `handleConnection` answers true; a
file that cannot be written, or a bypassing app that is not installed, ends the
start without a word, in CONNECTING; a daemon that did not come up is not noticed,
and CONNECTED says nothing of it; a request that is never answered holds its
`connect()`, the switch of a service that has never run, and, with the lock that
`Api.post` holds, every confirmation of a purchase; a refused consent dialog leaves
the switch disabled while the service has never run; an address that is a part of
another's text is skipped; a download that fails, or is over before it is in the
map, blocks its server until the service ends; a failure without a message leaves
its row as being tested; a service whose screen was left before it was bound lives
on; two threads of one account page, after a reconnect, mix up their answers; a
second `consumeAsync` ends the process without any fault, perhaps at every opening
of the account page, so that neither purchase is consumed, and if the store's screen
was up its answer then finds no order page and may end the next process too. TLC
finds each of these when the property is checked without its exception, the first
with two sessions, the crashes by a second `consumeAsync` with two purchases and the
one of the next process with three.

### Disagreements with the repository's own words

* `ExpirationWorks`. `JV/ReindeerVpnService.java:85`: "make sure expiration
  works". CLOSE during CONNECTING runs `stopRunner` and cancels the timers, but
  the worker goes on, establishes the interface and posts CONNECTED: a session with
  no timer. (`HeldExpires` says more, and holds without overlap.)
* `UnusedServiceStops`. `SC/ShadowsocksVpnService.scala:492`: "stop the service
  if no callback registered". `startService` may come after the last `stopSelf`,
  or the last client may leave while STOPPED is still queued; the service then
  lives on, STOPPED and unbound.
* `SelectsFastest`. `res/values/re_strings.xml:6`: "easy to select the fastest
  route with One Tap Speed Test©". The choice is made when a download finishes,
  from rows that still hold speeds of an earlier test; when the server chosen so
  then fails, nothing is chosen again.
* `OneAtATime`. `JV/googlebilling/util/IabHelper.java:65`: "notice that you can
  only call one asynchronous operation at a time". The loop over the inventory
  posts a `consumeAsync` per purchase; with two purchases left over the second one
  throws on Main.

### Bounds

`MaxPosts` bounds the Runnables in the looper and `MaxUpdates` the broadcasts under
way; a step that would exceed one waits, which removes behaviours in which Main is
slower still. A session with two stops has Main, Binder and a worker in the runner
together. The failures of a start (files, apps, daemons, lookups) are not bounded.
Two sessions in the runner at once, beside a stop, are more than fifteen million states:
there the proofs, which cover any number of sessions, stand alone, and `Settles` and
`StopReachesStopped` are checked for one session only. `MaxStops`, `MaxKills`,
`MaxClicks`, `MaxUses` and `MaxFaults` bound what comes from outside. Three
addresses allow a page that changes, one that leaves an address out, and an address
inside another; a chain with one opening of the app has the race for the history.
Two uses of the switch are a `connect()` that the screen leaves behind, or two that
overlap. One server and three uses of the test screen allow a test, its stop and a
new one that meets what the first has left, and a service destroyed and created
again; the choice among servers has a run with two. Two faults allow a lost answer
and a failed retry, or a page that is left and a kill. `billing_purchase` has one
purchase, for which the crash by a second `consumeAsync` cannot repeat; with two
purchases, one user and one fault its properties hold as well (617,382 states), too
long for a run beside the others. The same is so for two updates under way in
`switcher_switch` (283,938 states). `CHECK_DEADLOCK FALSE` is set where the bounds
on the user's actions let everything come to rest.

### Fairness

Threads inside the code go on; Main runs what is queued; broadcasts arrive;
timers that are scheduled fire; Android destroys a service that is neither started
nor bound. Of requests nothing is assumed: `Api.get` and `Api.post` set a timeout for
the connection and none for the answer (`JV/Api.java:271-286`), and one unanswered
`post` holds the lock that all others need; `RetriesEnd`, `WorkingEnds` and
`PurchaseSettles` name the request that is never answered as their exception. Nor is
anything assumed of a download, which has no timeout at all. `getPublicConfig` alone
has both timeouts, so the runner's threads go on past it. In `Switcher` a chain
retries finitely often (`<>[][~Retry(s)]_vars`), which `RetriesEnd` of `RootIp` shows:
it ends, or one of its requests does not. Fairness is weak,
but strong where a step waits for room under a bound or for Main: in the code
nothing waits for room, and Main's queue is first in, first out. Nothing is assumed
of the user, the network's answers, the clients or the system's kills, with one
exception: `PurchaseSettles` is about a user who opens the account page again and
again and leaves it when it is idle, for only that page retries.

## 4. Proofs

TLAPS proves these for every value of the constants, from the named assumptions
of the modules (threads and pages are distinct, bounds are naturals, lists list
their elements). Every invariant below was first checked with TLC.

* `VpnRunnerProofs`: `TypeCorrect`, `TerminalStateAlwaysOwed`, `NeverStuck` and
  `RunnerImplementsBaseService`. The invariant is `TerminalStateOwed` strengthened by
  where `ret`, the step after `stopRunner`, may lead: without it the return could go to
  a step that owes nothing while STOPPING is the last post. For the refinement, initial
  states map to initial states, and each step of each thread to a step of `BaseService`
  or a stutter, one lemma for the steps of `stopRunner`, of `startRunner`, of the worker
  and of the environment. It needs the same fact about `ret`.
* `VpnRunnerSequential`: under the assumption `~Overlap`, `SequentialNoneDisturbed`,
  `SequentialFindsDaemons`, `SequentialStuckByFailureOnly`,
  `SequentialStoppedIsDown` and `SequentialConnectedIsUp`, whatever files, apps and
  daemons fail. The invariant `SInv` says of the one thread inside what each step
  finds (`AtStart`, `AtStop`: which field it has set, which daemons came up), and of
  the rest that the receiver field is the registered receiver (`ReceiverHeld`), the
  interface is the field's (`TunnelHeld`), and the last terminal state posted is
  already true (`Truthful`), although the state itself changes only later. Without
  `Truthful` nothing ties the state to the daemons at the time its Runnable runs.
* `ReindeerVpnServiceProofs`: `TypeCorrect`, and under `~Overlap`
  `SequentialIsWatched`. The invariant is that a session is watched from the moment
  it is in the runner until it is stopped and its interface closed: a timer runs, a
  start command is on its way, or the caller has still to send it (`SessionWatched`),
  and no two threads use the runner (`Exclusive`). Orphans need no part in it: what
  they establish is lost to the object that the invariant is about.
* `SwitcherProofs`: `TypeCorrect`, `OnAlwaysTrue` and `WorkingAlwaysOwed`. The invariant
  `OnInv` looks ahead: if the switch will be on once all updates under way are
  delivered, the service is bound and CONNECTING or CONNECTED. It holds because the
  service tells every change while it is bound, and a new screen begins with "off".
  `OwedInv` looks ahead in the same way at "disabled". It needs two facts more: the
  looper never leads back to INIT, and a switch that is on, or about to be, is that of a
  service that has run, for `disconnect()` disables the switch and leaves the rest to
  the service.
* `RootIpProofs`: `TypeCorrect`, whose strengthening says that a thread that has
  picked an address holds one, and `AloneAsksEachOnce` and `AloneAsksAll` for a
  chain that runs alone. The invariant `ChainOK` counts, for each address, one
  request for its entry in the history and one if the chain began with it, and says
  that what is in the history was asked or is about to be.
* `DownloaderProofs`: `TypeCorrect`, which needs that the task to be put is one of the
  object alive, `LeftoversAccounted` and `RowsAreSettled`. The invariant of the second
  says it of every entry at every step of Main, and of the task that is about to be put
  (`ToPut`). That of the third, `RowsInv`, looks ahead: a row that will be shown as
  being tested once the updates under way are received has a task at work, which will
  tell its end, or one that has failed without a message. It holds because a task tells
  STARTED before and its end after all else, also when it was cancelled in between.
* `BillingProofs`: `TypeCorrect` and `ConsumedAreCredited`. The invariant `Told`
  follows a purchase: what the thread of an inventory has an answer for, what a
  posted or running consumption is about, and what the order page has an answer
  for is credited, unless two threads have shared the callback's field.
* `BillingBooks`: `BillingImplementsLedger` and `CrashesNeedFaults`. Each step of
  `Billing` is a step of `Ledger` or a stutter. The invariant `Sold` says that every
  purchase a thread, a Runnable, an operation or the backend knows of was bought, that
  the store's screen asks for a plan of which nothing is owned, and that a consumption
  is about one purchase, so that it is one step of `Ledger`. `CalmInv` says what holds
  while there was no fault: whatever works does so for a page that is open and
  connected (`Steady`), a page's inventory is asked for, posted or gone through, one of
  the three, so that its thread has the callback's field for itself (`Alone`), and the
  store's screen has an order page that waits, unless a crash took it away (`Awaited`).
  Proving this corrected the property: the second exception of `CrashNeedsFault`, the
  store's answer after a crash, needs three purchases, more than its run has.

Only model-checked: the liveness properties (`Settles`, `StopReachesStopped`,
`HeldExpires`, `CloseClosesInterface`, `RetriesEnd`, `SwitchFollows`, `WorkingEnds`,
`TestEnds`, `ServiceEnds`, `PurchaseSettles`), which are out of the prover's reach.
Where a property's safety part can be told apart it is proved: what is owed is
accounted for (`TerminalStateOwed`, `ConnectedIsWatched`, `WorkingIsOwed`,
`RowsSettle`), and fairness then has only to deliver it.

## 5. Not modelled

* Vendored native code (`jni/`: badvpn, iptables, shadowsocks-libev, libevent,
  openssl, pdnsd, redsocks), which is most of the repository's lines: third-party
  programs that this app starts and kills. `VpnRunner` has them as processes that
  are alive or not.
* libsuperuser, commons-io, images, layout, formatting, analytics.
* The original Shadowsocks activities, the NAT service, profiles and their links,
  which the manifest no longer starts. `stop()` of the binder has no caller in this
  build; `ShadowsocksRunnerActivity` is one more caller of `start`.
* The routes of `startVpn`: a sequential computation over constants without state.
* `ReindeerUtils.reset` with `crashRecovery` and `copyAssets`: shell work on files,
  once per release of the native programs.
* The polling alarm (one request and a notification), the cached app lists (the
  last writer wins, nothing else reads them), the account forms (one request each).
* The age of an order (`OrderFragment.java:318`), compared with its sign reversed,
  so that no order is refused as too old: one comparison that nothing checked here
  depends on. A user with `disconnect_when_expire` off ("kept") is modelled as
  `needClose` treats them, that is, always to be disconnected, although the account
  line (`JV/fragment/SwitcherFragment.java:372`) and the alarm
  (`JV/ShadowsocksConnector.java:267`) read the flag the other way round: such a user
  is not to be disconnected. No text of the repository settles it.
* The payment methods beside the store, which hand over to a web page or another
  app.

Field accesses are sequentially consistent. In `VpnRunner` a new service object is
not created while threads of the old one still run; `ReindeerVpnService` has these
threads, by what they may still establish and not field by field: the daemons of an
orphan beside those of the next object are in no module.
