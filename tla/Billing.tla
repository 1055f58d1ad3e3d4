------------------------------ MODULE Billing -------------------------------
(***************************************************************************)
(* Buying time.  The order page sells a plan through the store's billing   *)
(* service, tells the backend of the purchase and then consumes it, so     *)
(* that the plan can be bought again.  The account page looks for what     *)
(* earlier purchases have left, tells the backend and consumes it.  Each   *)
(* page has a GoogleBilling with an IabHelper of its own, disposed of with *)
(* the page; the helper allows one asynchronous operation at a time, the   *)
(* callback of the account page hands its answer over in a shared field.   *)
(* What the user may do to a page at work, and what may fail, is counted   *)
(* in faults.  Toasts, dialogs and prices are left out.                    *)
(***************************************************************************)
EXTENDS Integers, Sequences

CONSTANTS
  Account,   \* account pages, as many as may be alive or have threads left
  Order,     \* the order page
  Thread,    \* names for the threads that go through an inventory
  Purchase,  \* the purchases that may be made
  SkuOf,     \* per purchase, what is bought
  User,      \* the users that sign in
  MaxFaults  \* bound on the faults

ASSUME BillingAssumption ==
  /\ Order \notin Account /\ SkuOf \in [Purchase -> STRING]
  /\ {"yes", "no"} \cap Purchase = {}
  /\ User # {} /\ MaxFaults \in Nat

VARIABLES
  open,      \* the pages that exist
  setup,     \* per page, how far its helper is set up
  op,        \* per page, the helper's operation in progress
  inv,       \* per page, the purchases that operation is about
  loops,     \* per page and thread, how far it is with an inventory
  param,     \* per page, mConsumeCallback.param
  posts,     \* runnables posted to Main
  order,     \* what the order page is for, and whether it is loaded
  ensure,    \* per purchase, the order page's thread that tells the backend
  store,     \* the store's own screen, on top of the pages
  user,      \* the current user
  owner,     \* per purchase, the user its payload names
  owned,     \* at the store: bought and not consumed
  consumed,  \* at the store: bought and consumed
  credited,  \* at the backend: paid
  shared,    \* history: two threads have used one param
  crash,     \* why the process has crashed, until a page is opened again
  faults     \* faults so far

helperVars == <<setup, op, inv>>
loopVars   == <<loops, param, shared>>
orderVars  == <<order, ensure, store>>
storeVars  == <<owner, owned, consumed, credited>>
vars == <<open, helperVars, loopVars, posts, orderVars, user, storeVars, crash, faults>>

Page == Account \cup {Order}
Sku  == {SkuOf[p] : p \in Purchase}

\* None; bindService called; no such service; refused; done; done, and the service lost.
Setup == {"none", "binding", "unbound", "failed", "done", "dropped"}

\* "stuck": mAsyncInProgress was set by a call that then threw.
Operation == {"none", "ask", "details", "purchase", "stuck", "consume", "consuming"}

Loop == [at : {"idle", "next", "take", "call", "answer", "read"},
         todo : SUBSET Purchase, p : Purchase \cup {"no"}, q : Purchase \cup {"no"}]
NoLoop == [at |-> "idle", todo |-> {}, p |-> "no", q |-> "no"]

Post == [kind : {"inventory", "consume", "paid"}, page : Page, inv : SUBSET Purchase]

NoStore == [at |-> "none"]
Store == {NoStore} \cup [at : {"asking", "bought", "cancelled"}, p : Purchase]

Why == {"no", "disposed", "dropped", "async", "reconnect", "cast", "unbound", "result"}

\* Only the account page goes through an inventory; a purchase is owned or consumed.
TypeOK ==
  /\ open \subseteq Page /\ setup \in [Page -> Setup]
  /\ op \in [Page -> Operation] /\ inv \in [Page -> SUBSET Purchase]
  /\ loops \in [Page -> [Thread -> Loop]] /\ param \in [Page -> Purchase \cup {"yes", "no"}]
  /\ \A t \in Thread : loops[Order][t] = NoLoop
  /\ posts \in Seq(Post)
  /\ order \in [user : User, sku : Sku, loaded : BOOLEAN]
  /\ ensure \in [Purchase -> {"no", "call", "answer"}] /\ store \in Store
  /\ user \in User /\ owner \in [Purchase -> User]
  /\ owned \subseteq Purchase /\ consumed \subseteq Purchase /\ credited \subseteq Purchase
  /\ owned \cap consumed = {}
  /\ shared \in BOOLEAN /\ crash \in Why /\ faults \in 0..MaxFaults

\* The store may still hold purchases of an earlier process, told of or not.
Init ==
  /\ open = {} /\ setup = [g \in Page |-> "none"]
  /\ op = [g \in Page |-> "none"] /\ inv = [g \in Page |-> {}]
  /\ loops = [g \in Page |-> [t \in Thread |-> NoLoop]] /\ param = [g \in Page |-> "no"]
  /\ posts = <<>> /\ user \in User /\ owner \in [Purchase -> User]
  /\ order \in [user : {user}, sku : Sku, loaded : {FALSE}]
  /\ ensure = [p \in Purchase |-> "no"] /\ store = NoStore
  /\ owned \in {P \in SUBSET Purchase : \A p, q \in P : SkuOf[p] = SkuOf[q] => p = q}
  /\ consumed = {} /\ credited \in SUBSET owned
  /\ shared = FALSE /\ crash = "no" /\ faults = 0

Fault == faults < MaxFaults /\ faults' = faults + 1
NoFault == UNCHANGED faults

\* The process ends; the store and the backend keep what they know.
Ends ==
  /\ open' = {} /\ setup' = [g \in Page |-> "none"]
  /\ op' = [g \in Page |-> "none"] /\ inv' = [g \in Page |-> {}]
  /\ loops' = [g \in Page |-> [t \in Thread |-> NoLoop]] /\ param' = [g \in Page |-> "no"]
  /\ posts' = <<>> /\ order' = [order EXCEPT !.loaded = FALSE]
  /\ ensure' = [p \in Purchase |-> "no"]

\* An exception that nothing catches.
Crash(why) == Ends /\ crash' = why /\ UNCHANGED <<store, user, storeVars, shared>>

Main == UNCHANGED crash /\ NoFault

\* Threads and runnables of a page, whether it still exists or not.
Leftover(g) ==
  \/ op[g] \in {"ask", "details", "consume", "consuming"}
  \/ \E t \in Thread : loops[g][t] # NoLoop
  \/ \E i \in DOMAIN posts : posts[i].page = g
  \/ g = Order /\ \E p \in Purchase : ensure[p] # "no"

Busy(g) == Leftover(g) \/ op[g] = "purchase" \/ setup[g] \in {"binding", "dropped"}

-----------------------------------------------------------------------------
(* The pages and their helpers                                             *)

\* Only recreation, no click, reaches a page behind the store's screen.
Shows(g) == g \notin open /\ ~Leftover(g) /\ store = NoStore

\* startSetup binds, or finds no service to bind to.
startSetup(g) ==
  \/ setup' = [setup EXCEPT ![g] = "binding"] /\ NoFault
  \/ setup' = [setup EXCEPT ![g] = "unbound"] /\ Fault

openAccount(g) ==
  /\ Shows(g) /\ startSetup(g)
  /\ open' = open \cup {g} /\ param' = [param EXCEPT ![g] = "no"] /\ crash' = "no"
  /\ UNCHANGED <<op, inv, loops, shared, posts, orderVars, user, storeVars>>

\* PlansFragment's button names the current user in the order.
openOrder ==
  /\ Shows(Order) /\ open' = open \cup {Order} /\ crash' = "no" /\ NoFault
  /\ order' \in [user : {user}, sku : Sku, loaded : {FALSE}]
  /\ UNCHANGED <<helperVars, loopVars, posts, ensure, store, user, storeVars>>

\* The thread of getOrder, each time the page is started; without it there is no button.
getOrder ==
  /\ Order \in open /\ order' = [order EXCEPT !.loaded = TRUE] /\ user' = order.user
  /\ UNCHANGED <<open, helperVars, loopVars, posts, ensure, store, storeVars>> /\ Main

\* Unbinding what was never bound throws; only the account page catches it.
onDestroy(g) ==
  /\ g \in open /\ IF Busy(g) THEN Fault ELSE NoFault
  /\ IF g = Order /\ setup[g] = "unbound" THEN Crash("unbound")
     ELSE /\ open' = open \ {g} /\ setup' = [setup EXCEPT ![g] = "none"]
          /\ op' = [op EXCEPT ![g] = IF @ \in {"purchase", "stuck"} THEN "none" ELSE @]
          /\ UNCHANGED <<inv, loopVars, posts, orderVars, user, storeVars, crash>>

\* The service connects, for the first time or again; the listener asks for the inventory.
onServiceConnected(g) ==
  /\ g \in open /\ setup[g] \in {"binding", "dropped"}
  /\ \/ /\ setup' = [setup EXCEPT ![g] = IF @ = "dropped" THEN "done" ELSE "failed"]
        /\ Fault /\ UNCHANGED <<open, op, inv, loopVars, posts, orderVars, user, storeVars, crash>>
     \/ op[g] # "none" /\ Crash("reconnect") /\ NoFault
     \/ /\ op[g] = "none" /\ op' = [op EXCEPT ![g] = "ask"]
        /\ setup' = [setup EXCEPT ![g] = "done"]
        /\ UNCHANGED <<open, inv, loopVars, posts, orderVars, user, storeVars>> /\ Main

onServiceDisconnected(g) ==
  /\ g \in open /\ setup[g] \in {"failed", "done"} /\ Fault
  /\ setup' = [setup EXCEPT ![g] = IF @ = "done" THEN "dropped" ELSE "binding"]
  /\ UNCHANGED <<open, op, inv, loopVars, posts, orderVars, user, storeVars, crash>>

-----------------------------------------------------------------------------
(* The helper's threads                                                    *)

\* mService and mContext are read at each call: a lost or disposed one throws.
Unusable(g) == g \notin open \/ setup[g] = "dropped"

Unused(g) == Crash(IF g \in open THEN "dropped" ELSE "disposed") /\ NoFault

queryPurchases(g) ==
  /\ op[g] = "ask"
  /\ \/ Unusable(g) /\ Unused(g)
     \/ /\ ~Unusable(g)
        /\ \/ /\ NoFault /\ op' = [op EXCEPT ![g] = "details"]
              /\ inv' = [inv EXCEPT ![g] = owned]
           \/ Fault /\ op' = [op EXCEPT ![g] = "none"] /\ UNCHANGED inv
        /\ UNCHANGED <<open, setup, loopVars, posts, orderVars, user, storeVars, crash>>

\* With nothing owned there may be nothing to ask; the answer is posted to a live page.
querySkuDetails(g) ==
  /\ op[g] = "details"
  /\ \/ Unusable(g) /\ Unused(g)
     \/ /\ Unusable(g) => inv[g] = {}
        /\ op' = [op EXCEPT ![g] = "none"] /\ inv' = [inv EXCEPT ![g] = {}]
        /\ \/ /\ NoFault
              /\ posts' = IF g \notin open THEN posts
                          ELSE Append(posts, [kind |-> "inventory", page |-> g, inv |-> inv[g]])
           \/ Fault /\ UNCHANGED posts
        /\ UNCHANGED <<open, setup, loopVars, orderVars, user, storeVars, crash>>

\* consume's checks, made in the thread.
consume(g) ==
  /\ op[g] = "consume"
  /\ \/ Unusable(g) /\ Unused(g)
     \/ /\ ~Unusable(g) /\ op' = [op EXCEPT ![g] = "consuming"]
        /\ UNCHANGED <<open, setup, inv, loopVars, posts, orderVars, user, storeVars>> /\ Main

\* The store consumes what is owned, or refuses.
consumePurchase(g) ==
  /\ op[g] = "consuming"
  /\ \/ NoFault /\ owned' = owned \ inv[g] /\ consumed' = consumed \cup (inv[g] \cap owned)
     \/ Fault /\ UNCHANGED <<owned, consumed>>
  /\ op' = [op EXCEPT ![g] = "none"] /\ inv' = [inv EXCEPT ![g] = {}]
  /\ UNCHANGED <<open, setup, loopVars, posts, orderVars, user, owner, credited, crash>>

-----------------------------------------------------------------------------
(* The thread that goes through an inventory                               *)

\* A thread for what is in the inventory (alone, the mutant without the two checks below).
GoesThrough(g, P) ==
  IF P = {} THEN UNCHANGED <<loops, shared>>
  ELSE LET free == {t \in Thread : loops[g][t] = NoLoop} IN
       /\ free # {}
       /\ loops' = [loops EXCEPT ![g][CHOOSE t \in free : TRUE] =
                      [NoLoop EXCEPT !.at = "next", !.todo = P]]
       /\ shared' = (shared \/ free # Thread)

\* Nothing without a callback, and nothing once disposed of.
onQueryInventoryFinished(g, P) ==
  IF g \in open /\ g # Order THEN GoesThrough(g, P) ELSE UNCHANGED <<loops, shared>>

Turns(g, t, l) == loops' = [loops EXCEPT ![g][t] = l]

LoopRest == UNCHANGED <<open, helperVars, shared, orderVars, user, owner, owned, consumed, crash>>

\* Mutant: the purchase is not handed over.
PutNothing(g, t) ==
  /\ loops[g][t].at = "next"
  /\ \E p \in loops[g][t].todo :
       Turns(g, t, [loops[g][t] EXCEPT !.at = "take", !.p = p, !.todo = @ \ {p}])
  /\ LoopRest /\ UNCHANGED <<param, posts, credited>> /\ NoFault

\* param = purchase; in the order of the skus, which nothing depends on.
put(g, t) ==
  /\ loops[g][t].at = "next"
  /\ \E p \in loops[g][t].todo :
       /\ Turns(g, t, [loops[g][t] EXCEPT !.at = "take", !.p = p, !.todo = @ \ {p}])
       /\ param' = [param EXCEPT ![g] = p]
  /\ LoopRest /\ UNCHANGED <<posts, credited>> /\ NoFault

\* The callback takes the purchase and leaves false; another thread's answer does not cast.
take(g, t) ==
  /\ loops[g][t].at = "take"
  /\ IF param[g] \notin Purchase THEN Crash("cast") /\ NoFault
     ELSE /\ Turns(g, t, [loops[g][t] EXCEPT !.at = "call", !.q = param[g]])
          /\ param' = [param EXCEPT ![g] = "no"]
          /\ LoopRest /\ UNCHANGED <<posts, credited>> /\ NoFault

\* ensurePayment: answered; or it fails, after or before it was carried out; or, without
\* an activity, it is not made.
ensurePayment(g, t) ==
  /\ loops[g][t].at = "call"
  /\ LET q == loops[g][t].q IN
     \/ /\ g \in open /\ credited' = credited \cup {q} /\ NoFault
        /\ Turns(g, t, [loops[g][t] EXCEPT !.at = "answer"])
     \/ /\ g \in open /\ credited' \in {credited, credited \cup {q}} /\ Fault
        /\ Turns(g, t, [loops[g][t] EXCEPT !.at = "read"])
     \/ /\ g \notin open /\ UNCHANGED credited /\ NoFault
        /\ Turns(g, t, [loops[g][t] EXCEPT !.at = "read"])
  /\ LoopRest /\ UNCHANGED <<param, posts>>

\* Mutant: the answer is not handed back.
ForgetAnswer(g, t) ==
  /\ loops[g][t].at = "answer" /\ Turns(g, t, [loops[g][t] EXCEPT !.at = "read"])
  /\ LoopRest /\ UNCHANGED <<param, posts, credited>> /\ NoFault

\* The answer counts when its user is the current one.
answer(g, t) ==
  /\ loops[g][t].at = "answer" /\ Turns(g, t, [loops[g][t] EXCEPT !.at = "read"])
  /\ param' = IF g \in open /\ owner[loops[g][t].q] = user
              THEN [param EXCEPT ![g] = "yes"] ELSE param
  /\ LoopRest /\ UNCHANGED <<posts, credited>> /\ NoFault

NextSku(l) == IF l.todo = {} THEN NoLoop
              ELSE [l EXCEPT !.at = "next", !.p = "no", !.q = "no"]

\* Mutant: whatever the backend answers, the purchase is consumed.
ReadNothing(g, t) ==
  /\ loops[g][t].at = "read" /\ Turns(g, t, NextSku(loops[g][t]))
  /\ posts' = Append(posts, [kind |-> "consume", page |-> g, inv |-> {loops[g][t].p}])
  /\ LoopRest /\ UNCHANGED <<param, credited>> /\ NoFault

\* The loop reads the answer and posts consumeAsync.
read(g, t) ==
  /\ loops[g][t].at = "read"
  /\ IF param[g] \in Purchase THEN Crash("cast") /\ NoFault
     ELSE /\ Turns(g, t, NextSku(loops[g][t]))
          /\ posts' = IF param[g] = "no" THEN posts
                      ELSE Append(posts, [kind |-> "consume", page |-> g,
                                          inv |-> {loops[g][t].p}])
          /\ LoopRest /\ UNCHANGED <<param, credited>> /\ NoFault

-----------------------------------------------------------------------------
(* The order page                                                          *)

\* The first click only sets up; a later one does nothing while an operation is in
\* progress, and leaves the helper stuck while the service is lost.
pay ==
  /\ Order \in open /\ order.loaded /\ store = NoStore
  /\ \/ setup[Order] = "none" /\ startSetup(Order) /\ UNCHANGED <<op, store, owner>>
     \/ /\ setup[Order] = "dropped" /\ op[Order] = "none" /\ NoFault
        /\ op' = [op EXCEPT ![Order] = "stuck"] /\ UNCHANGED <<setup, store, owner>>
     \/ /\ setup[Order] = "done" /\ op[Order] = "none" /\ NoFault
        /\ op' = [op EXCEPT ![Order] = "purchase"]
        /\ \E p \in Purchase \ (owned \cup consumed) :
             /\ SkuOf[p] = order.sku /\ order.sku \notin {SkuOf[q] : q \in owned}
             /\ store' = [at |-> "asking", p |-> p]
             /\ owner' = [owner EXCEPT ![p] = order.user]
        /\ UNCHANGED setup
  /\ UNCHANGED <<open, inv, loopVars, posts, order, ensure, user, owned, consumed, credited,
                 crash>>

\* The user decides, and the store's screen closes.
decide ==
  /\ store.at = "asking"
  /\ \/ owned' = owned \cup {store.p} /\ store' = [store EXCEPT !.at = "bought"]
     \/ UNCHANGED owned /\ store' = [store EXCEPT !.at = "cancelled"]
  /\ UNCHANGED <<open, helperVars, loopVars, posts, order, ensure, user, owner, consumed,
                 credited>> /\ Main

\* Mutant: the result is not looked at; a cancelled purchase is told of as well.
SuccessAlways ==
  /\ store.at \in {"bought", "cancelled"} /\ store' = NoStore /\ Order \in open
  /\ op' = [op EXCEPT ![Order] = "none"] /\ ensure' = [ensure EXCEPT ![store.p] = "call"]
  /\ UNCHANGED <<open, setup, inv, loopVars, posts, order, user, storeVars>> /\ Main

\* The order page may be gone, or be there again without its GoogleBilling.
onActivityResult ==
  /\ store.at \in {"bought", "cancelled"} /\ store' = NoStore
  /\ \/ /\ Order \notin open /\ NoFault /\ Ends /\ crash' = "result"
        /\ UNCHANGED <<user, storeVars, shared>>
     \/ /\ Order \notin open /\ Main
        /\ UNCHANGED <<open, helperVars, loopVars, posts, order, ensure, user, storeVars>>
     \/ /\ Order \in open /\ op' = [op EXCEPT ![Order] = "none"]
        /\ \/ /\ store.at = "bought" /\ NoFault
              /\ ensure' = [ensure EXCEPT ![store.p] = "call"]
           \/ store.at = "cancelled" /\ NoFault /\ UNCHANGED ensure
           \/ store.at = "bought" /\ Fault /\ UNCHANGED ensure
        /\ UNCHANGED <<open, setup, inv, loopVars, posts, order, user, storeVars, crash>>

\* onSuccessWithOrderString's thread: what fails in it only shows a toast.
onSuccessCall(p) ==
  /\ ensure[p] = "call"
  /\ \/ /\ Order \in open /\ credited' = credited \cup {p} /\ NoFault
        /\ ensure' = [ensure EXCEPT ![p] = "answer"]
     \/ /\ Order \in open /\ credited' \in {credited, credited \cup {p}} /\ Fault
        /\ ensure' = [ensure EXCEPT ![p] = "no"]
     \/ /\ Order \notin open /\ UNCHANGED credited /\ NoFault
        /\ ensure' = [ensure EXCEPT ![p] = "no"]
  /\ UNCHANGED <<open, helperVars, loopVars, posts, order, store, user, owner, owned, consumed,
                 crash>>

onSuccessAnswer(p) ==
  /\ ensure[p] = "answer" /\ ensure' = [ensure EXCEPT ![p] = "no"]
  /\ posts' = IF Order \in open /\ order.user = user
              THEN Append(posts, [kind |-> "paid", page |-> Order, inv |-> {p}]) ELSE posts
  /\ UNCHANGED <<open, helperVars, loopVars, order, store, user, storeVars>> /\ Main

-----------------------------------------------------------------------------
(* Main                                                                    *)

\* The posted consumeAsync: mHelper is null once disposed of, and nothing is caught.
consumeAsync(g, P) ==
  \/ g \notin open /\ Crash("disposed")
  \/ g \in open /\ op[g] # "none" /\ Crash("async")
  \/ /\ g \in open /\ op[g] = "none"
     /\ op' = [op EXCEPT ![g] = "consume"] /\ inv' = [inv EXCEPT ![g] = P]
     /\ posts' = Tail(posts)
     /\ UNCHANGED <<open, setup, loopVars, orderVars, user, storeVars, crash>>

runPost ==
  /\ posts # <<>> /\ NoFault
  /\ \/ /\ Head(posts).kind = "inventory" /\ posts' = Tail(posts)
        /\ onQueryInventoryFinished(Head(posts).page, Head(posts).inv)
        /\ UNCHANGED <<open, helperVars, param, orderVars, user, storeVars, crash>>
     \/ /\ Head(posts).kind \in {"consume", "paid"}
        /\ consumeAsync(Head(posts).page, Head(posts).inv)

\* Another user signs in, or the user signs out.
setCurrentUser ==
  /\ Fault /\ user' \in User \ {user}
  /\ UNCHANGED <<open, helperVars, loopVars, posts, orderVars, storeVars, crash>>

\* The system ends the process.
Kill == Fault /\ open # {} /\ Ends /\ UNCHANGED <<store, user, storeVars, shared, crash>>

-----------------------------------------------------------------------------
Helper(g) == queryPurchases(g) \/ querySkuDetails(g) \/ consume(g) \/ consumePurchase(g)

Goes(g) ==
  \E t \in Thread : put(g, t) \/ take(g, t) \/ ensurePayment(g, t) \/ answer(g, t) \/ read(g, t)

Success == \E p \in Purchase : onSuccessCall(p) \/ onSuccessAnswer(p)

Next ==
  \/ \E g \in Account : openAccount(g)
  \/ openOrder \/ getOrder \/ pay \/ decide \/ onActivityResult
  \/ \E g \in Page : onDestroy(g) \/ onServiceConnected(g) \/ onServiceDisconnected(g)
  \/ \E g \in Page : Helper(g)
  \/ \E g \in Page : Goes(g)
  \/ Success \/ runPost \/ setCurrentUser \/ Kill

Spec == Init /\ [][Next]_vars

\* A page that is left when its work is over.
Leave(g) == ~Busy(g) /\ onDestroy(g)

\* Threads run, Main runs what is posted, the store's service connects and its screen is
\* answered.  The user opens the account page again and again, and leaves it when idle;
\* the page may be unopenable for a while, behind the store's screen.  The backend need
\* not answer: Api.post has a timeout for the connection only, and one post that is not
\* answered holds the lock that the others wait for.
Fairness ==
  /\ WF_vars(\E p \in Purchase : onSuccessAnswer(p))
  /\ WF_vars(runPost) /\ WF_vars(decide \/ onActivityResult)
  /\ \A g \in Page : WF_vars(Helper(g) \/ onServiceConnected(g))
  /\ \A g \in Account :
       /\ \A t \in Thread : WF_vars(put(g, t) \/ take(g, t) \/ answer(g, t) \/ read(g, t))
       /\ WF_vars(Leave(g)) /\ SF_vars(openAccount(g))

FairSpec == Spec /\ Fairness

-----------------------------------------------------------------------------
(* Properties                                                              *)

\* A purchase is consumed only after the backend was told of it (GoogleBilling's loop
\* posts consumeAsync, and OrderFragment calls it, after ensurePayment), whatever is
\* lost, closed or killed in between.  The exception is a page whose billing service
\* has reconnected while an inventory was gone through: two threads then share
\* mConsumeCallback.param, and one reads the other's answer.
ConsumedIsCredited == shared \/ consumed \subseteq credited

\* The process crashes in the billing code only when something failed or a page was left
\* at work.  The exceptions are a second consumeAsync, which needs no fault, and the
\* store's answer to a page that went with that crash.
CrashNeedsFault ==
  [][\/ crash' \in {"no", "async"} \/ faults' > 0
     \/ crash = "async" /\ crash' = "result"]_crash

\* The pages keep the books of the store and of the backend as Ledger promises: nothing
\* is credited that was not bought, by whatever way an answer of the store's screen or of
\* an inventory has come (OrderFragment, GoogleBilling), and nothing is consumed before.
L == INSTANCE Ledger WITH mixed <- shared
ImplementsLedger == L!BooksSpec

\* A purchase does not stay at the store unconsumed while its user is signed in: the
\* account page finds it, tells the backend and consumes it (AccountFragment.onCreate),
\* after finitely many faults.  Two things may hold it up for good: a call of the backend
\* that is never answered, and a second purchase, whose consumeAsync may end the process
\* each time the page is opened.
PurchaseSettles ==
  \/ \E g \in Account, t \in Thread : <>[](loops[g][t].at = "call")
  \/ []<>(crash = "async")
  \/ \A p \in Purchase : []<>(p \notin owned \/ user # owner[p])

\* No operation is started on a helper while another one is in progress: the class comment
\* of IabHelper asks for it, as the second one throws.
OneAtATime == crash # "async"

=============================================================================
