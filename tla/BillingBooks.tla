---------------------------- MODULE BillingBooks ----------------------------
(***************************************************************************)
(* Billing implements Ledger, and crashes only after a fault: what the     *)
(* pages, their helpers and their threads hold is followed back to what    *)
(* the store has sold, and, as long as nothing has failed, to the page     *)
(* that is still open for it.                                              *)
(***************************************************************************)
EXTENDS BillingProofs

Bought == owned \cup consumed

\* Whatever a thread, a runnable or an operation is about was bought.
LoopSold ==
  \A g \in Page :
    /\ param[g] \in Purchase => param[g] \in Bought
    /\ \A t \in Thread :
         /\ loops[g][t].todo \subseteq Bought
         /\ loops[g][t].p \in Purchase => loops[g][t].p \in Bought
         /\ loops[g][t].q \in Purchase => loops[g][t].q \in Bought

\* A consumption is about one purchase.
One(P) == \E p \in Purchase : P = {p}

PostSold ==
  \A i \in 1..Len(posts) :
    posts[i].inv \subseteq Bought /\ (posts[i].kind # "inventory" => One(posts[i].inv))

OpSold ==
  \A g \in Page :
    inv[g] \subseteq Bought /\ (op[g] \in {"consume", "consuming"} => One(inv[g]))

EnsureSold == \A p \in Purchase : ensure[p] # "no" => p \in Bought

\* The store asks for what is not owned, and tells what is.
StoreSold ==
  /\ store.at = "bought" => store.p \in Bought
  /\ store.at = "asking" => \A q \in owned : SkuOf[q] # SkuOf[store.p]

Sold ==
  /\ LoopSold /\ PostSold /\ OpSold /\ EnsureSold /\ StoreSold
  /\ credited \subseteq Bought

\* A step that Ledger allows.
Allowed == [L!BooksNext]_(L!books)

Same == UNCHANGED <<owned, consumed, credited, shared>>

LEMMA SameAllowed == Same => Allowed /\ Bought \subseteq Bought'
BY DEF Same, Allowed, L!books, Bought

\* What was bought stays bought.
LEMMA SoldFrame ==
  ASSUME Sold, Bought \subseteq Bought'
  PROVE  /\ UNCHANGED <<loops, param>> => LoopSold'
         /\ UNCHANGED posts => PostSold'
         /\ UNCHANGED <<op, inv>> => OpSold'
         /\ UNCHANGED ensure => EnsureSold'
         /\ UNCHANGED <<store, owned>> => StoreSold'
         /\ UNCHANGED credited => (credited \subseteq Bought)'
<1>1. UNCHANGED <<loops, param>> => LoopSold'
  BY DEF Sold, LoopSold
<1>2. UNCHANGED posts => PostSold'
  BY DEF Sold, PostSold, One
<1>3. UNCHANGED <<op, inv>> => OpSold'
  BY DEF Sold, OpSold, One
<1>4. UNCHANGED ensure => EnsureSold'
  BY DEF Sold, EnsureSold
<1>5. UNCHANGED <<store, owned>> => StoreSold'
  BY DEF Sold, StoreSold
<1>6. UNCHANGED credited => (credited \subseteq Bought)'
  BY DEF Sold
<1> QED
  BY <1>1, <1>2, <1>3, <1>4, <1>5, <1>6

LEMMA PostedSold ==
  ASSUME PostType, Sold, Bought \subseteq Bought', NEW r \in Post, posts' = Append(posts, r),
         r.inv \subseteq Bought, r.kind # "inventory" => One(r.inv)
  PROVE  PostSold'
<1>2. Len(posts) \in Nat /\ Len(posts') = Len(posts) + 1 /\ posts'[Len(posts) + 1] = r
  BY DEF PostType
<1>3. \A i \in 1..Len(posts) : posts'[i] = posts[i]
  BY DEF PostType
<1>4. \A i \in 1..Len(posts') : i \in 1..Len(posts) \/ i = Len(posts) + 1
  BY <1>2
<1> QED
  BY <1>2, <1>3, <1>4 DEF Sold, PostSold, One

LEMMA TakenSold ==
  ASSUME PostType, Sold, Bought \subseteq Bought', posts # <<>>, posts' = Tail(posts)
  PROVE  PostSold'
<1>2. Len(posts) \in Nat /\ Len(posts') = Len(posts) - 1
  BY DEF PostType
<1>3. \A i \in 1..Len(posts) - 1 : posts'[i] = posts[i + 1]
  BY DEF PostType
<1> SUFFICES ASSUME NEW i \in 1..Len(posts) - 1
             PROVE  /\ posts'[i].inv \subseteq Bought'
                    /\ posts'[i].kind # "inventory" => One(posts'[i].inv)
  BY ZenonT(60), <1>2 DEF PostSold, One
<1>4. i + 1 \in 1..Len(posts)
  BY <1>2
<1> QED
  BY <1>3, <1>4 DEF Sold, PostSold, One

\* The end of the process.
LEMMA EndsSold ==
  ASSUME Sold, Ends, store' \in {store, NoStore}, UNCHANGED <<storeVars, shared>>
  PROVE  Sold' /\ Allowed
<1>0. Same
  BY DEF Same, storeVars
<1>1. Bought \subseteq Bought' /\ Allowed
  BY <1>0, SameAllowed
<1>2. LoopSold'
  BY BillingAssumption DEF Ends, LoopSold, NoLoop
<1>3. PostSold' /\ OpSold' /\ EnsureSold'
  BY DEF Ends, PostSold, OpSold, EnsureSold
<1>4. StoreSold'
  BY <1>0, <1>1 DEF Sold, StoreSold, NoStore, Same
<1> QED
  BY <1>0, <1>1, <1>2, <1>3, <1>4, SoldFrame DEF Sold, Same

LEMMA CrashSold ==
  ASSUME Sold, NEW why, Crash(why)
  PROVE  Sold' /\ Allowed
BY EndsSold DEF Crash

-----------------------------------------------------------------------------
(* The pages and the user                                                  *)

\* Nothing of what was bought or is about to be is touched.
LEMMA PageSold ==
  ASSUME Inv, Sold, \/ \E g \in Account : openAccount(g)
                    \/ openOrder \/ getOrder \/ setCurrentUser
  PROVE  Sold' /\ Allowed
<1>0. Same /\ UNCHANGED <<loops, posts, op, inv, ensure, store>>
  BY ZenonT(60) DEF Same, openAccount, openOrder, getOrder, setCurrentUser, helperVars, loopVars,
                    orderVars, storeVars
<1>1. Bought \subseteq Bought' /\ Allowed
  BY <1>0, SameAllowed
<1>2. \A g \in Page : param'[g] \in Purchase => param'[g] = param[g]
  BY ZenonT(60), BillingAssumption DEF openAccount, openOrder, getOrder, setCurrentUser,
                                       loopVars, Inv, Typed, LoopType
<1>3. LoopSold'
  BY <1>0, <1>1, <1>2 DEF Sold, LoopSold
<1> QED
  BY <1>0, <1>1, <1>3, SoldFrame DEF Sold, Same

LEMMA OnDestroySold ==
  ASSUME Inv, Sold, NEW g \in Page, onDestroy(g)
  PROVE  Sold' /\ Allowed
<1>a. CASE g = Order /\ setup[g] = "unbound"
  BY <1>a, CrashSold DEF onDestroy
<1>b. CASE ~(g = Order /\ setup[g] = "unbound")
  <2>0. /\ op' = [op EXCEPT ![g] = IF @ \in {"purchase", "stuck"} THEN "none" ELSE @]
        /\ UNCHANGED <<inv, loops, param, posts, ensure, store>> /\ Same
    BY <1>b DEF onDestroy, Same, loopVars, orderVars, storeVars
  <2>1. Bought \subseteq Bought' /\ Allowed
    BY <2>0, SameAllowed
  <2>2. OpSold'
    BY <2>0, <2>1 DEF Sold, OpSold, One, Inv, Typed, HelperType
  <2> QED
    BY <2>0, <2>1, <2>2, SoldFrame DEF Sold, Same
<1> QED
  BY <1>a, <1>b

LEMMA ServiceSold ==
  ASSUME Inv, Sold, NEW g \in Page, onServiceConnected(g) \/ onServiceDisconnected(g)
  PROVE  Sold' /\ Allowed
<1>a. CASE Crash("reconnect")
  BY <1>a, CrashSold
<1>b. CASE ~Crash("reconnect")
  <2>0. /\ op' = op \/ op' = [op EXCEPT ![g] = "ask"]
        /\ UNCHANGED <<inv, loops, param, posts, ensure, store>> /\ Same
    BY <1>b DEF onServiceConnected, onServiceDisconnected, Same, loopVars, orderVars, storeVars
  <2>1. Bought \subseteq Bought' /\ Allowed
    BY <2>0, SameAllowed
  <2>2. OpSold'
    BY <2>0, <2>1 DEF Sold, OpSold, One, Inv, Typed, HelperType
  <2> QED
    BY <2>0, <2>1, <2>2, SoldFrame DEF Sold, Same
<1> QED
  BY <1>a, <1>b

LEMMA KillSold ==
  ASSUME Sold, Kill
  PROVE  Sold' /\ Allowed
BY EndsSold DEF Kill

-----------------------------------------------------------------------------
(* The helper's threads                                                    *)

\* An inventory holds what is owned.
LEMMA QuerySold ==
  ASSUME Inv, Sold, NEW g \in Page, queryPurchases(g)
  PROVE  Sold' /\ Allowed
<1>a. CASE Unused(g)
  BY <1>a, CrashSold DEF Unused
<1>b. CASE ~Unused(g)
  <2>0. /\ \/ op' = [op EXCEPT ![g] = "details"] /\ inv' = [inv EXCEPT ![g] = owned]
           \/ op' = [op EXCEPT ![g] = "none"] /\ inv' = inv
        /\ UNCHANGED <<loops, param, posts, ensure, store>> /\ Same
    BY <1>b DEF queryPurchases, Same, loopVars, orderVars, storeVars
  <2>1. Bought \subseteq Bought' /\ Allowed /\ owned \subseteq Bought
    BY <2>0, SameAllowed DEF Bought
  <2>2. OpSold'
    BY <2>0, <2>1 DEF Sold, OpSold, One, Inv, Typed, HelperType
  <2> QED
    BY <2>0, <2>1, <2>2, SoldFrame DEF Sold, Same
<1> QED
  BY <1>a, <1>b

LEMMA DetailsSold ==
  ASSUME Inv, Sold, NEW g \in Page, querySkuDetails(g)
  PROVE  Sold' /\ Allowed
<1>a. CASE Unused(g)
  BY <1>a, CrashSold DEF Unused
<1>b. CASE ~Unused(g)
  <2> DEFINE r == [kind |-> "inventory", page |-> g, inv |-> inv[g]]
  <2>0. /\ op' = [op EXCEPT ![g] = "none"] /\ inv' = [inv EXCEPT ![g] = {}]
        /\ posts' = posts \/ posts' = Append(posts, r)
        /\ UNCHANGED <<loops, param, ensure, store>> /\ Same
    BY <1>b DEF querySkuDetails, Same, loopVars, orderVars, storeVars
  <2>1. Bought \subseteq Bought' /\ Allowed
    BY <2>0, SameAllowed
  <2>2. OpSold'
    BY <2>0, <2>1 DEF Sold, OpSold, One, Inv, Typed, HelperType
  <2>3. r \in Post /\ r.kind = "inventory" /\ r.inv \subseteq Bought /\ PostType
    BY DEF Post, Inv, Typed, HelperType, Sold, OpSold
  <2> HIDE DEF r
  <2>4. PostSold'
    BY <2>0, <2>1, <2>3, PostedSold, SoldFrame
  <2> QED
    BY <2>0, <2>1, <2>2, <2>4, SoldFrame DEF Sold, Same
<1> QED
  BY <1>a, <1>b

\* The store consumes one purchase at a time: it is owned, and told, or it is not
\* owned any more and nothing happens.
LEMMA ConsumeSold ==
  ASSUME Inv, Sold, NEW g \in Page, consume(g) \/ consumePurchase(g)
  PROVE  Sold' /\ Allowed
<1>a. CASE Unused(g)
  BY <1>a, CrashSold DEF Unused
<1>b. CASE consume(g) /\ ~Unused(g)
  <2>0. /\ op[g] = "consume" /\ op' = [op EXCEPT ![g] = "consuming"]
        /\ UNCHANGED <<inv, loops, param, posts, ensure, store>> /\ Same
    BY <1>b DEF consume, Same, loopVars, orderVars, storeVars
  <2>1. Bought \subseteq Bought' /\ Allowed
    BY <2>0, SameAllowed
  <2>2. OpSold'
    BY <2>0, <2>1 DEF Sold, OpSold, One, Inv, Typed, HelperType
  <2> QED
    BY <2>0, <2>1, <2>2, SoldFrame DEF Sold, Same
<1>c. CASE consumePurchase(g)
  <2>0. /\ op[g] = "consuming" /\ op' = [op EXCEPT ![g] = "none"]
        /\ inv' = [inv EXCEPT ![g] = {}]
        /\ \/ owned' = owned \ inv[g] /\ consumed' = consumed \cup (inv[g] \cap owned)
           \/ UNCHANGED <<owned, consumed>>
        /\ UNCHANGED <<loops, param, shared, posts, ensure, store, credited>>
    BY <1>c DEF consumePurchase, loopVars, orderVars
  <2>1. Bought \subseteq Bought' /\ owned' \subseteq owned
    BY <2>0 DEF Bought
  <2>2. PICK p \in Purchase : inv[g] = {p}
    BY <2>0 DEF Sold, OpSold, One
  <2>3. Allowed
    <3>1. CASE UNCHANGED <<owned, consumed>>
      BY <2>0, <3>1, SameAllowed DEF Same
    <3>2. CASE ~UNCHANGED <<owned, consumed>>
      <4>1. p \in owned /\ owned' = owned \ {p} /\ consumed' = consumed \cup {p}
        BY <2>0, <2>2, <3>2
      <4>2. p \in credited \/ shared
        BY <2>0, <2>2 DEF Inv, Told, OpTold
      <4> QED
        BY <2>0, <4>1, <4>2 DEF Allowed, L!BooksNext, L!Consume
    <3> QED
      BY <3>1, <3>2
  <2>4. OpSold'
    BY <2>0, <2>1 DEF Sold, OpSold, One, Inv, Typed, HelperType
  <2>5. StoreSold'
    BY <2>0, <2>1 DEF Sold, StoreSold
  <2> QED
    BY <2>0, <2>1, <2>3, <2>4, <2>5, SoldFrame DEF Sold
<1> QED
  BY <1>a, <1>b, <1>c DEF consume

-----------------------------------------------------------------------------
(* The order page                                                          *)

\* The store's screen comes up for a plan of which nothing is owned.
LEMMA PaySold ==
  ASSUME Inv, Sold, pay
  PROVE  Sold' /\ Allowed
<1>0. /\ op' = op \/ op' = [op EXCEPT ![Order] = "stuck"] \/ op' = [op EXCEPT ![Order] = "purchase"]
      /\ \/ store' = store
         \/ \E p \in Purchase : /\ store' = [at |-> "asking", p |-> p]
                                /\ SkuOf[p] \notin {SkuOf[q] : q \in owned}
      /\ UNCHANGED <<inv, loops, param, posts, ensure>> /\ Same
  <2>1. UNCHANGED <<inv, loops, param, posts, ensure>> /\ Same
    BY DEF pay, Same, loopVars
  <2>2. op' = op \/ op' = [op EXCEPT ![Order] = "stuck"] \/ op' = [op EXCEPT ![Order] = "purchase"]
    BY DEF pay
  <2>3. \/ store' = store
        \/ \E p \in Purchase : /\ store' = [at |-> "asking", p |-> p]
                               /\ SkuOf[p] \notin {SkuOf[q] : q \in owned}
    BY DEF pay
  <2> QED
    BY <2>1, <2>2, <2>3
<1>1. Bought \subseteq Bought' /\ Allowed
  BY <1>0, SameAllowed
<1>2. OpSold'
  BY <1>0, <1>1 DEF Sold, OpSold, One, Inv, Typed, HelperType
<1>3. StoreSold'
  <2>1. CASE store' = store
    BY <1>0, <2>1, SoldFrame, <1>1 DEF Same
  <2>2. CASE store' # store
    <3>1. PICK p \in Purchase : /\ store' = [at |-> "asking", p |-> p]
                                /\ SkuOf[p] \notin {SkuOf[q] : q \in owned}
      BY <1>0, <2>2
    <3>2. \A q \in owned : SkuOf[q] # SkuOf[p]
      BY <3>1
    <3> QED
      BY <1>0, <3>1, <3>2 DEF StoreSold, Same
  <2> QED
    BY <2>1, <2>2
<1> QED
  BY <1>0, <1>1, <1>2, <1>3, SoldFrame DEF Sold, Same

\* The user buys what nobody has bought, or cancels.
LEMMA DecideSold ==
  ASSUME Inv, Sold, decide
  PROVE  Sold' /\ Allowed
<1>0. /\ store \in Store /\ store.at = "asking"
      /\ UNCHANGED <<op, inv, loops, param, shared, posts, ensure, consumed, credited>>
  BY DEF decide, Inv, Typed, OrderType, helperVars, loopVars
<1>1. PICK p \in Purchase : store = [at |-> "asking", p |-> p]
  <2>1. store \in [at : {"asking", "bought", "cancelled"}, p : Purchase]
    BY <1>0 DEF Store, NoStore
  <2> QED
    BY <1>0, <2>1
<1>2. \/ owned' = owned \cup {p} /\ store' = [at |-> "bought", p |-> p]
      \/ owned' = owned /\ store' = [at |-> "cancelled", p |-> p]
  BY <1>1 DEF decide
<1>3. Bought \subseteq Bought'
  BY <1>0, <1>2 DEF Bought
<1>4. StoreSold'
  BY <1>2 DEF StoreSold, Bought
<1>5. Allowed
  <2>1. CASE owned' = owned
    BY <1>0, <2>1, SameAllowed DEF Same
  <2>2. CASE owned' = owned \cup {p}
    <3>1. p \notin owned \cup consumed /\ \A q \in owned : SkuOf[q] # SkuOf[p]
      BY <1>0, <1>1 DEF Inv, Typed, StoreType, Sold, StoreSold
    <3> QED
      BY <1>0, <2>2, <3>1 DEF Allowed, L!BooksNext, L!Buy
  <2> QED
    BY <1>2, <2>1, <2>2
<1> QED
  BY <1>0, <1>3, <1>4, <1>5, SoldFrame DEF Sold

\* Only a purchase that was bought goes to the thread that tells the backend.
LEMMA ResultSold ==
  ASSUME Inv, Sold, onActivityResult
  PROVE  Sold' /\ Allowed
<1>a. CASE Order \notin open /\ Ends /\ crash' = "result"
  BY <1>a, EndsSold DEF onActivityResult, Same, storeVars, loopVars
<1>b. CASE ~(Order \notin open /\ Ends /\ crash' = "result")
  <2>0. /\ store' = NoStore
        /\ op' = op \/ op' = [op EXCEPT ![Order] = "none"]
        /\ ensure' = ensure \/ (store.at = "bought" /\ ensure' = [ensure EXCEPT ![store.p] = "call"])
        /\ UNCHANGED <<inv, loops, param, posts>> /\ Same
    BY <1>b DEF onActivityResult, helperVars, loopVars, storeVars, Same
  <2>1. Bought \subseteq Bought' /\ Allowed
    BY <2>0, SameAllowed
  <2>2. OpSold'
    BY <2>0, <2>1 DEF Sold, OpSold, One, Inv, Typed, HelperType
  <2>3. EnsureSold'
    BY <2>0, <2>1 DEF Sold, EnsureSold, StoreSold, Inv, Typed, OrderType
  <2>4. StoreSold'
    BY <2>0 DEF StoreSold, NoStore
  <2> QED
    BY <2>0, <2>1, <2>2, <2>3, <2>4, SoldFrame DEF Sold, Same
<1> QED
  BY <1>a, <1>b

\* The backend is told of a purchase.
LEMMA Credited ==
  ASSUME Sold, NEW p \in Purchase, p \in Bought, credited' \in {credited, credited \cup {p}},
         UNCHANGED <<owned, consumed, shared>>
  PROVE  Allowed /\ Bought \subseteq Bought' /\ (credited \subseteq Bought)'
<1>1. Bought' = Bought
  BY DEF Bought
<1>2. CASE credited' = credited
  BY <1>1, <1>2, SameAllowed DEF Same, Sold
<1>3. CASE credited' = credited \cup {p}
  BY <1>1, <1>3 DEF Allowed, L!BooksNext, L!Credit, Sold, Bought
<1> QED
  BY <1>1, <1>2, <1>3

LEMMA SuccessSold ==
  ASSUME Inv, Sold, NEW p \in Purchase, onSuccessCall(p) \/ onSuccessAnswer(p)
  PROVE  Sold' /\ Allowed
<1>0. p \in Bought
  BY DEF onSuccessCall, onSuccessAnswer, Sold, EnsureSold
<1>1. CASE onSuccessCall(p)
  <2>0. /\ credited' \in {credited, credited \cup {p}}
        /\ \E e \in {"no", "answer"} : ensure' = [ensure EXCEPT ![p] = e]
        /\ UNCHANGED <<op, inv, loops, param, shared, posts, store, owned, consumed>>
    BY <1>1 DEF onSuccessCall, helperVars, loopVars
  <2>1. Allowed /\ Bought \subseteq Bought' /\ (credited \subseteq Bought)'
    BY <1>0, <2>0, Credited
  <2>2. EnsureSold'
    BY <1>0, <2>0, <2>1 DEF Sold, EnsureSold, Inv, Typed, OrderType
  <2> QED
    BY <2>0, <2>1, <2>2, SoldFrame DEF Sold
<1>2. CASE onSuccessAnswer(p)
  <2> DEFINE r == [kind |-> "paid", page |-> Order, inv |-> {p}]
  <2>0. /\ ensure' = [ensure EXCEPT ![p] = "no"]
        /\ posts' = posts \/ posts' = Append(posts, r)
        /\ UNCHANGED <<op, inv, loops, param, store>> /\ Same
    BY <1>2 DEF onSuccessAnswer, helperVars, loopVars, storeVars, Same
  <2>1. Bought \subseteq Bought' /\ Allowed
    BY <2>0, SameAllowed
  <2>2. EnsureSold'
    BY <2>0, <2>1 DEF Sold, EnsureSold, Inv, Typed, OrderType
  <2>3. r \in Post /\ r.inv \subseteq Bought /\ One(r.inv) /\ PostType
    BY SMTT(60), <1>0 DEF Post, One, Inv, Typed, Page
  <2> HIDE DEF r
  <2>4. PostSold'
    BY <2>0, <2>1, <2>3, PostedSold, SoldFrame
  <2> QED
    BY <2>0, <2>1, <2>2, <2>4, SoldFrame DEF Sold, Same
<1> QED
  BY <1>1, <1>2

-----------------------------------------------------------------------------
(* The thread that goes through an inventory                               *)

\* A thread that turns to l, and leaves v in param.
LEMMA TurnSold ==
  ASSUME Inv, Sold, Bought \subseteq Bought', NEW g \in Page, NEW t \in Thread, NEW l,
         Turns(g, t, l), NEW v, param' = [param EXCEPT ![g] = v], LoopRest,
         l.todo \subseteq Bought, l.p \in Purchase => l.p \in Bought,
         l.q \in Purchase => l.q \in Bought, v \in Purchase => v \in Bought,
         PostSold', (credited \subseteq Bought)'
  PROVE  Sold'
<1>0. UNCHANGED <<op, inv, ensure, store, owned>>
  BY DEF LoopRest, helperVars, orderVars
<1>1. loops' = [loops EXCEPT ![g] = [loops[g] EXCEPT ![t] = l]]
  BY DEF Turns
<1>2. \A h \in Page : \A u \in Thread :
        loops'[h][u] = IF h = g /\ u = t THEN l ELSE loops[h][u]
  BY <1>1 DEF Inv, Typed, LoopType
<1>3. \A h \in Page : param'[h] = IF h = g THEN v ELSE param[h]
  BY DEF Inv, Typed, LoopType
<1>4. LoopSold'
  <2> SUFFICES ASSUME NEW h \in Page
               PROVE  /\ param'[h] \in Purchase => param'[h] \in Bought'
                      /\ \A u \in Thread :
                           /\ loops'[h][u].todo \subseteq Bought'
                           /\ loops'[h][u].p \in Purchase => loops'[h][u].p \in Bought'
                           /\ loops'[h][u].q \in Purchase => loops'[h][u].q \in Bought'
    BY ZenonT(60) DEF LoopSold
  <2>1. param'[h] \in Purchase => param'[h] \in Bought'
    BY <1>3 DEF Sold, LoopSold
  <2>2. ASSUME NEW u \in Thread
        PROVE  /\ loops'[h][u].todo \subseteq Bought'
               /\ loops'[h][u].p \in Purchase => loops'[h][u].p \in Bought'
               /\ loops'[h][u].q \in Purchase => loops'[h][u].q \in Bought'
    <3>1. CASE h = g /\ u = t
      BY <1>2, <3>1
    <3>2. CASE ~(h = g /\ u = t)
      BY <1>2, <3>2 DEF Sold, LoopSold
    <3> QED
      BY <3>1, <3>2
  <2> QED
    BY <2>1, <2>2
<1> QED
  BY <1>0, <1>4, SoldFrame DEF Sold

\* A thread at work.
LEMMA AtWork ==
  ASSUME Inv, Sold, NEW g \in Page, NEW t \in Thread
  PROVE  /\ loops[g][t] \in Loop /\ loops[g][t].todo \subseteq Bought
         /\ loops[g][t].p \in Purchase => loops[g][t].p \in Bought
         /\ loops[g][t].q \in Purchase => loops[g][t].q \in Bought
         /\ param[g] \in Purchase => param[g] \in Bought
         /\ param = [param EXCEPT ![g] = param[g]]
         /\ Bought \subseteq Purchase
<1>1. Bought \subseteq Purchase
  BY DEF Inv, Typed, StoreType, Bought
<1>2. loops[g][t] \in Loop /\ param = [param EXCEPT ![g] = param[g]]
  BY DEF Inv, Typed, LoopType
<1> QED
  BY ZenonT(60), <1>1, <1>2 DEF Sold, LoopSold

\* Handing over, taking, answering and reading leave the books alone.
LEMMA LoopSame ==
  ASSUME LoopRest, UNCHANGED credited, Sold
  PROVE  Same /\ Allowed /\ Bought \subseteq Bought' /\ (credited \subseteq Bought)'
BY SameAllowed DEF LoopRest, Same, Sold, Bought

LEMMA PutSold ==
  ASSUME Inv, Sold, NEW g \in Page, NEW t \in Thread, put(g, t)
  PROVE  Sold' /\ Allowed
<1>1. PICK p \in loops[g][t].todo :
        /\ Turns(g, t, [loops[g][t] EXCEPT !.at = "take", !.p = p, !.todo = @ \ {p}])
        /\ param' = [param EXCEPT ![g] = p]
  BY ZenonT(60) DEF put
<1> DEFINE l == [loops[g][t] EXCEPT !.at = "take", !.p = p, !.todo = @ \ {p}]
<1>2. p \in Bought /\ l.todo \subseteq Bought /\ l.p = p /\ l.q = loops[g][t].q
  BY AtWork DEF Loop
<1>3. LoopRest /\ UNCHANGED <<posts, credited>> /\ Turns(g, t, l)
  BY <1>1 DEF put
<1>4. Allowed /\ Bought \subseteq Bought' /\ (credited \subseteq Bought)'
  BY <1>3, LoopSame
<1>5. PostSold'
  BY <1>3, <1>4, SoldFrame
<1> HIDE DEF l
<1> QED
  BY ZenonT(60), <1>1, <1>2, <1>3, <1>4, <1>5, AtWork, TurnSold

LEMMA TakeSold ==
  ASSUME Inv, Sold, NEW g \in Page, NEW t \in Thread, take(g, t)
  PROVE  Sold' /\ Allowed
<1>a. CASE param[g] \notin Purchase
  BY <1>a, CrashSold DEF take
<1>b. CASE param[g] \in Purchase
  <2> DEFINE l == [loops[g][t] EXCEPT !.at = "call", !.q = param[g]]
  <2>1. /\ l.todo \subseteq Bought /\ (l.p \in Purchase => l.p \in Bought)
        /\ l.q \in Bought
    BY <1>b, AtWork DEF Loop
  <2>2. /\ LoopRest /\ UNCHANGED <<posts, credited>> /\ Turns(g, t, l)
        /\ param' = [param EXCEPT ![g] = "no"]
    BY <1>b DEF take
  <2>3. Allowed /\ Bought \subseteq Bought' /\ (credited \subseteq Bought)' /\ "no" \notin Purchase
    BY <2>2, LoopSame, BillingAssumption
  <2>4. PostSold'
    BY <2>2, <2>3, SoldFrame
  <2> HIDE DEF l
  <2> QED
    BY ZenonT(60), <2>1, <2>2, <2>3, <2>4, AtWork, TurnSold
<1> QED
  BY <1>a, <1>b

LEMMA EnsurePaymentSold ==
  ASSUME Inv, Sold, NEW g \in Page, NEW t \in Thread, ensurePayment(g, t)
  PROVE  Sold' /\ Allowed
<1> DEFINE q == loops[g][t].q
<1>1. PICK a \in {"answer", "read"} : Turns(g, t, [loops[g][t] EXCEPT !.at = a])
  BY ZenonT(60) DEF ensurePayment
<1> DEFINE l == [loops[g][t] EXCEPT !.at = a]
<1>2. q \in Purchase /\ q \in Bought
  BY AtWork DEF ensurePayment, Inv, Typed, LoopType
<1>3. l.todo \subseteq Bought /\ (l.p \in Purchase => l.p \in Bought) /\ l.q \in Bought
  BY <1>2, AtWork DEF Loop
<1>4. LoopRest /\ UNCHANGED <<param, posts>> /\ credited' \in {credited, credited \cup {q}}
  BY DEF ensurePayment
<1>5. Allowed /\ Bought \subseteq Bought' /\ (credited \subseteq Bought)'
  BY <1>2, <1>4, Credited DEF LoopRest
<1>6. PostSold'
  BY <1>4, <1>5, SoldFrame
<1>7. param' = [param EXCEPT ![g] = param[g]] /\ Turns(g, t, l)
  BY <1>1, <1>4, AtWork
<1> HIDE DEF l, q
<1> QED
  BY ZenonT(60), <1>2, <1>3, <1>4, <1>5, <1>6, <1>7, AtWork, TurnSold

LEMMA AnswerSold ==
  ASSUME Inv, Sold, NEW g \in Page, NEW t \in Thread, answer(g, t)
  PROVE  Sold' /\ Allowed
<1> DEFINE l == [loops[g][t] EXCEPT !.at = "read"]
<1>1. /\ l.todo \subseteq Bought /\ (l.p \in Purchase => l.p \in Bought)
      /\ l.q \in Purchase => l.q \in Bought
  BY AtWork DEF Loop
<1>2. LoopRest /\ UNCHANGED <<posts, credited>> /\ Turns(g, t, l)
  BY DEF answer
<1>3. PICK v \in {"yes", param[g]} : param' = [param EXCEPT ![g] = v]
  BY AtWork DEF answer
<1>4. v \in Purchase => v \in Bought
  BY <1>3, AtWork, BillingAssumption
<1>5. Allowed /\ Bought \subseteq Bought' /\ (credited \subseteq Bought)'
  BY <1>2, LoopSame
<1>6. PostSold'
  BY <1>2, <1>5, SoldFrame
<1> HIDE DEF l
<1> QED
  BY ZenonT(60), <1>1, <1>2, <1>3, <1>4, <1>5, <1>6, AtWork, TurnSold

LEMMA ReadSold ==
  ASSUME Inv, Sold, NEW g \in Page, NEW t \in Thread, read(g, t)
  PROVE  Sold' /\ Allowed
<1>a. CASE param[g] \in Purchase
  BY <1>a, CrashSold DEF read
<1>b. CASE param[g] \notin Purchase
  <2> DEFINE l == NextSku(loops[g][t])
             r == [kind |-> "consume", page |-> g, inv |-> {loops[g][t].p}]
  <2>1. l.todo \subseteq Bought /\ l.p = "no" /\ l.q = "no"
    BY AtWork DEF NextSku, NoLoop, Loop
  <2>2. /\ Turns(g, t, l) /\ LoopRest /\ UNCHANGED <<param, credited>>
        /\ posts' = posts \/ posts' = Append(posts, r)
    BY <1>b DEF read
  <2>3. /\ Allowed /\ Bought \subseteq Bought' /\ (credited \subseteq Bought)'
        /\ "no" \notin Purchase /\ PostType /\ param' = [param EXCEPT ![g] = param[g]]
    BY <2>2, LoopSame, AtWork, BillingAssumption DEF Inv, Typed
  <2>4. loops[g][t].p \in Purchase
    BY DEF read, Inv, Typed, LoopType
  <2>5. r \in Post /\ r.inv \subseteq Bought /\ One(r.inv)
    BY <2>4, AtWork DEF Post, One
  <2> HIDE DEF l, r
  <2>6. PostSold'
    BY <2>2, <2>3, <2>5, PostedSold, SoldFrame
  <2> QED
    BY ZenonT(60), <1>b, <2>1, <2>2, <2>3, <2>6, TurnSold
<1> QED
  BY <1>a, <1>b

-----------------------------------------------------------------------------
(* Main, and the refinement                                                *)

\* A thread begins with an inventory of what was bought, and may share a param from then.
LEMMA InventorySold ==
  ASSUME Inv, Sold, NEW g \in Page, NEW P \in SUBSET Bought, onQueryInventoryFinished(g, P),
         posts # <<>>, posts' = Tail(posts),
         UNCHANGED <<open, helperVars, param, orderVars, user, storeVars, crash>>
  PROVE  Sold' /\ Allowed
<1>0. UNCHANGED <<op, inv, param, ensure, store, owned, consumed, credited>>
  BY DEF helperVars, orderVars, storeVars
<1>1. Bought \subseteq Bought' /\ PostType
  BY <1>0 DEF Bought, Inv, Typed
<1>2. PostSold'
  BY <1>1, TakenSold
<1>3. CASE UNCHANGED <<loops, shared>>
  BY <1>0, <1>1, <1>2, <1>3, SameAllowed, SoldFrame DEF Sold, Same
<1>4. CASE ~UNCHANGED <<loops, shared>>
  <2> DEFINE free == {t \in Thread : loops[g][t] = NoLoop}
             begun == [NoLoop EXCEPT !.at = "next", !.todo = P]
  <2>0. /\ free # {} /\ shared' = (shared \/ free # Thread)
        /\ loops' = [loops EXCEPT ![g][CHOOSE t \in free : TRUE] = begun]
    BY <1>4 DEF onQueryInventoryFinished, GoesThrough
  <2>1. PICK t \in free : loops' = [loops EXCEPT ![g] = [loops[g] EXCEPT ![t] = begun]]
    BY ZenonT(60), <2>0
  <2>2. begun.todo = P /\ begun.p = "no" /\ begun.q = "no" /\ "no" \notin Purchase
    BY BillingAssumption DEF NoLoop
  <2> HIDE DEF begun
  <2>3. \A h \in Page : \A u \in Thread :
          loops'[h][u] = begun \/ loops'[h][u] = loops[h][u]
    BY SMTT(60), <2>1 DEF Inv, Typed, LoopType
  <2>4. LoopSold'
    BY <1>0, <1>1, <2>2, <2>3 DEF Sold, LoopSold
  <2>5. Allowed
    <3>1. shared \in BOOLEAN
      BY DEF Inv, Typed, LoopType
    <3>2. shared' = shared \/ shared' = TRUE
      BY ZenonT(60), <2>0, <3>1
    <3> QED
      BY <1>0, <3>2 DEF Allowed, L!BooksNext, L!Mix, L!books
  <2> QED
    BY <1>0, <1>1, <1>2, <2>4, <2>5, SoldFrame DEF Sold
<1> QED
  BY <1>3, <1>4

LEMMA ConsumeAsyncSold ==
  ASSUME Inv, Sold, NEW g \in Page, NEW P \in SUBSET Bought, One(P), consumeAsync(g, P),
         posts # <<>>
  PROVE  Sold' /\ Allowed
<1>a. CASE Crash("disposed") \/ Crash("async")
  BY <1>a, CrashSold
<1>b. CASE ~(Crash("disposed") \/ Crash("async"))
  <2>0. /\ op' = [op EXCEPT ![g] = "consume"] /\ inv' = [inv EXCEPT ![g] = P]
        /\ posts' = Tail(posts)
        /\ UNCHANGED <<loops, param, ensure, store>> /\ Same
    BY <1>b DEF consumeAsync, loopVars, orderVars, storeVars, Same
  <2>1. Bought \subseteq Bought' /\ Allowed /\ PostType
    BY <2>0, SameAllowed DEF Inv, Typed
  <2>2. OpSold'
    BY <2>0, <2>1 DEF Sold, OpSold, One, Inv, Typed, HelperType
  <2>3. PostSold'
    BY <2>0, <2>1, TakenSold
  <2> QED
    BY <2>0, <2>1, <2>2, <2>3, SoldFrame DEF Sold, Same
<1> QED
  BY <1>a, <1>b

LEMMA RunPostSold ==
  ASSUME Inv, Sold, runPost
  PROVE  Sold' /\ Allowed
<1> DEFINE r == Head(posts)
<1>1. PostType /\ posts # <<>>
  BY DEF Inv, Typed, runPost
<1>2. r = posts[1] /\ 1 \in 1..Len(posts) /\ r \in Post
  BY SMTT(60), <1>1 DEF PostType
<1>3. r.page \in Page /\ r.inv \in SUBSET Bought /\ (r.kind # "inventory" => One(r.inv))
  BY <1>2 DEF Post, Sold, PostSold
<1>4. CASE r.kind = "inventory"
  BY ZenonT(60), <1>1, <1>3, <1>4, InventorySold DEF runPost
<1>5. CASE r.kind # "inventory"
  <2>1. consumeAsync(r.page, r.inv)
    BY <1>5 DEF runPost
  <2> HIDE DEF r
  <2> QED
    BY <1>1, <1>3, <1>5, <2>1, ConsumeAsyncSold
<1> QED
  BY <1>4, <1>5

LEMMA InitSold == Init => Sold /\ L!BooksInit
<1> SUFFICES ASSUME Init PROVE Sold /\ L!BooksInit
  OBVIOUS
<1>1. LoopSold
  BY BillingAssumption DEF Init, LoopSold, NoLoop
<1>2. PostSold /\ OpSold /\ EnsureSold /\ StoreSold
  <2>1. PostSold
    BY DEF Init, PostSold
  <2>2. OpSold
    BY DEF Init, OpSold
  <2>3. EnsureSold /\ StoreSold
    BY DEF Init, EnsureSold, StoreSold, NoStore
  <2> QED
    BY <2>1, <2>2, <2>3
<1>3. credited \subseteq Bought
  BY DEF Init, Bought
<1>4. L!BooksInit
  BY DEF Init, L!BooksInit, L!OnePerSku
<1> QED
  BY <1>1, <1>2, <1>3, <1>4 DEF Sold

LEMMA NextSold ==
  ASSUME Inv, Sold, [Next]_vars
  PROVE  Sold' /\ Allowed
<1>1. CASE (\E g \in Account : openAccount(g)) \/ openOrder \/ getOrder \/ setCurrentUser
  BY <1>1, PageSold
<1>2. CASE pay \/ decide \/ onActivityResult
  BY <1>2, PaySold, DecideSold, ResultSold
<1>3. ASSUME NEW g \in Page, onDestroy(g) \/ onServiceConnected(g) \/ onServiceDisconnected(g)
      PROVE  Sold' /\ Allowed
  BY <1>3, OnDestroySold, ServiceSold
<1>4. ASSUME NEW g \in Page, Helper(g) PROVE Sold' /\ Allowed
  BY <1>4, QuerySold, DetailsSold, ConsumeSold DEF Helper
<1>5. ASSUME NEW g \in Page, Goes(g) PROVE Sold' /\ Allowed
  BY <1>5, PutSold, TakeSold, EnsurePaymentSold, AnswerSold, ReadSold DEF Goes
<1>6. CASE Success
  BY <1>6, SuccessSold DEF Success
<1>7. CASE runPost
  BY <1>7, RunPostSold
<1>8. CASE Kill
  BY <1>8, KillSold
<1>9. CASE UNCHANGED vars
  <2>1. UNCHANGED <<loops, param, posts, op, inv, ensure, store>> /\ Same
    BY <1>9 DEF vars, helperVars, loopVars, orderVars, storeVars, Same
  <2>2. Bought \subseteq Bought' /\ Allowed
    BY <2>1, SameAllowed
  <2> QED
    BY <2>1, <2>2, SoldFrame DEF Sold, Same
<1> QED
  BY <1>1, <1>2, <1>3, <1>4, <1>5, <1>6, <1>7, <1>8, <1>9 DEF Next

\* Whatever pages are left, lost, crashed or killed, and in whatever order the store's
\* screen, the inventories and the threads that tell the backend answer (OrderFragment,
\* GoogleBilling, IabHelper), the books change as Ledger allows: the backend is told only
\* of what was bought, and the store consumes one purchase at a time, owned and told.
THEOREM BillingImplementsLedger == Spec => ImplementsLedger
<1>1. Init => Inv /\ Sold /\ L!BooksInit
  BY InitInv, InitSold
<1>2. Inv /\ Sold /\ [Next]_vars => (Inv /\ Sold)' /\ [L!BooksNext]_(L!books)
  BY NextInv, NextSold DEF Allowed
<1> QED
  BY <1>1, <1>2, PTL DEF Spec, ImplementsLedger, L!BooksSpec

-----------------------------------------------------------------------------
(* As long as nothing has failed                                           *)

Through(g) == \E t \in Thread : loops[g][t] # NoLoop
Posts(g) == \E i \in 1..Len(posts) : posts[i].page = g
Tells == \E p \in Purchase : ensure[p] # "no"
Works(g) == op[g] # "none" \/ Through(g) \/ Posts(g) \/ (g = Order /\ Tells)

Asks(g) == op[g] \in {"ask", "details"}
Found(g, i) == i \in 1..Len(posts) /\ posts[i].kind = "inventory" /\ posts[i].page = g

\* Whatever works does so for a page that is open, with the service at hand.
Steady ==
  \A g \in Page : /\ setup[g] \in {"none", "binding", "done"}
                  /\ Works(g) => g \in open /\ setup[g] = "done"

\* A page asks for one inventory: it is asked for, posted or gone through.
Alone ==
  \A g \in Page :
    /\ Asks(g) => ~Through(g) /\ \A i \in 1..Len(posts) : ~Found(g, i)
    /\ \A i \in 1..Len(posts) : Found(g, i) =>
         ~Through(g) /\ \A j \in 1..Len(posts) : Found(g, j) => j = i

\* The store's screen answers the page that waits for it, or the process has crashed.
Awaited ==
  store # NoStore => \/ Order \in open /\ op[Order] = "purchase"
                     \/ crash = "async" /\ open = {}

Calm == ~shared /\ Steady /\ Alone /\ Awaited

\* A step that CrashNeedsFault allows.
Excused == \/ crash' = crash \/ crash' \in {"no", "async"} \/ faults' > 0
           \/ crash = "async" /\ crash' = "result"

LEMMA NotBoth == ASSUME Inv, NoFault PROVE ~Fault
BY BillingAssumption DEF Inv, Typed, EndType, Fault, NoFault

\* No inventory is asked for or found.
LEMMA AloneKept ==
  ASSUME Alone,
         \A g \in Page : /\ Asks(g)' => Asks(g)
                         /\ Through(g)' => Through(g)
                         /\ \A i \in 1..Len(posts') : Found(g, i)' => Found(g, i)
  PROVE  Alone'
<1>1. \A g \in Page : \A i : Found(g, i) => i \in 1..Len(posts)
  BY DEF Found
<1> QED
  BY <1>1 DEF Alone

\* What Alone says of the page g.
LoneInventory(g) ==
  /\ Asks(g) => ~Through(g) /\ \A i \in 1..Len(posts) : ~Found(g, i)
  /\ \A i \in 1..Len(posts) : Found(g, i) =>
       ~Through(g) /\ \A j \in 1..Len(posts) : Found(g, j) => j = i

\* The head of the queue is taken.
LEMMA AloneShifted ==
  ASSUME Alone, NEW g \in Page, Len(posts') \in Nat,
         Asks(g)' => Asks(g), Through(g)' => Through(g),
         \A i \in 1..Len(posts') : Found(g, i)' => Found(g, i + 1)
  PROVE  LoneInventory(g)'
<1>1. Asks(g) => ~Through(g) /\ \A i : ~Found(g, i)
  BY DEF Alone, Found
<1>2. \A i, j : Found(g, i) /\ Found(g, j) => ~Through(g) /\ j = i
  BY DEF Alone, Found
<1>3. Asks(g)' => ~Through(g)' /\ \A i \in 1..Len(posts') : ~Found(g, i)'
  BY <1>1
<1>4. ASSUME NEW i \in 1..Len(posts'), Found(g, i)'
      PROVE  ~Through(g)' /\ \A j \in 1..Len(posts') : Found(g, j)' => j = i
  <2>1. Found(g, i + 1)
    BY <1>4
  <2>2. ~Through(g)
    BY <1>2, <2>1
  <2>3. ASSUME NEW j \in 1..Len(posts'), Found(g, j)' PROVE j = i
    <3>1. Found(g, j + 1)
      BY <2>3
    <3>2. j + 1 = i + 1
      BY <1>2, <2>1, <3>1
    <3> QED
      BY <3>2
  <2> QED
    BY <2>2, <2>3
<1> QED
  BY <1>3, <1>4 DEF LoneInventory

\* Nothing starts to work, no inventory is asked for or found.
LEMMA CalmKept ==
  ASSUME Calm, UNCHANGED <<setup, open, shared>>, Awaited',
         \A g \in Page : /\ Works(g)' => Works(g)
                         /\ Asks(g)' => Asks(g)
                         /\ Through(g)' => Through(g)
                         /\ \A i \in 1..Len(posts') : Found(g, i)' => Found(g, i)
  PROVE  Calm'
<1>1. Steady'
  BY DEF Calm, Steady
<1>2. Alone'
  BY AloneKept DEF Calm
<1> QED
  BY <1>1, <1>2 DEF Calm

LEMMA EndsCalm ==
  ASSUME Ends, ~shared', store' = NoStore \/ crash' = "async"
  PROVE  Calm'
<1>1. \A g \in Page : ~Works(g)'
  BY DEF Ends, Works, Through, Posts, Tells
<1>2. Steady'
  BY <1>1 DEF Steady, Ends
<1>3. Alone'
  BY SMTT(60) DEF Ends, Alone, Asks, Found
<1> QED
  BY <1>2, <1>3 DEF Calm, Awaited, Ends

LEMMA PostedFound ==
  ASSUME PostType, NEW r \in Post, posts' = Append(posts, r), NEW g \in Page
  PROVE  /\ Posts(g)' => Posts(g) \/ r.page = g
         /\ \A i \in 1..Len(posts') :
              Found(g, i)' => \/ Found(g, i)
                              \/ i = Len(posts) + 1 /\ r.kind = "inventory" /\ r.page = g
         /\ Len(posts) \in Nat
<1>2. Len(posts) \in Nat /\ Len(posts') = Len(posts) + 1 /\ posts'[Len(posts) + 1] = r
  BY DEF PostType
<1>3. \A i \in 1..Len(posts) : posts'[i] = posts[i]
  BY DEF PostType
<1>4. \A i \in 1..Len(posts') : i \in 1..Len(posts) \/ i = Len(posts) + 1
  BY <1>2
<1> QED
  BY <1>2, <1>3, <1>4 DEF Posts, Found

LEMMA TakenFound ==
  ASSUME PostType, posts # <<>>, posts' = Tail(posts), NEW g \in Page
  PROVE  /\ Posts(g)' => Posts(g)
         /\ \A i \in 1..Len(posts') : Found(g, i)' => Found(g, i + 1)
<1>2. Len(posts) \in Nat /\ Len(posts') = Len(posts) - 1
  BY DEF PostType
<1>3. \A i \in 1..Len(posts) - 1 : posts'[i] = posts[i + 1]
  BY DEF PostType
<1>4. \A i \in 1..Len(posts') : i + 1 \in 1..Len(posts)
  BY <1>2
<1> QED
  BY <1>2, <1>3, <1>4 DEF Posts, Found

LEMMA OpenCalm ==
  ASSUME Inv, Calm, NoFault, NEW g \in Page, openAccount(g) \/ (openOrder /\ g = Order)
  PROVE  Calm' /\ Excused
<1>0. /\ g \notin open /\ store = NoStore /\ open' = open \cup {g} /\ crash' = "no"
      /\ setup' = [setup EXCEPT ![g] = "binding"] \/ setup' = setup
      /\ UNCHANGED <<op, loops, posts, ensure, store, shared>>
  <2>1. CASE openAccount(g)
    BY <2>1, NotBoth DEF openAccount, Shows, startSetup, orderVars
  <2>2. CASE openOrder /\ g = Order
    BY <2>2 DEF openOrder, Shows, helperVars, loopVars
  <2> QED
    BY <2>1, <2>2
<1>1. \A h \in Page : Works(h)' = Works(h)
  BY <1>0 DEF Works, Through, Posts, Tells
<1>2. Steady'
  BY <1>0, <1>1 DEF Calm, Steady, Inv, Typed, HelperType
<1>3. Alone'
  <2>1. \A h \in Page : /\ Asks(h)' => Asks(h)
                        /\ Through(h)' => Through(h)
                        /\ \A i \in 1..Len(posts') : Found(h, i)' => Found(h, i)
    BY <1>0 DEF Asks, Through, Found
  <2> QED
    BY <2>1, AloneKept DEF Calm
<1> QED
  BY <1>0, <1>2, <1>3 DEF Calm, Awaited, Excused

\* A page is left without a fault only when nothing works for it.
LEMMA OnDestroyCalm ==
  ASSUME Inv, Calm, NoFault, NEW g \in Page, onDestroy(g)
  PROVE  Calm' /\ Excused
<1>0. g \in open /\ ~Busy(g)
  BY NotBoth DEF onDestroy
<1>1. /\ open' = open \ {g} /\ setup' = [setup EXCEPT ![g] = "none"]
      /\ op' = [op EXCEPT ![g] = IF @ \in {"purchase", "stuck"} THEN "none" ELSE @]
      /\ UNCHANGED <<loops, posts, ensure, store, shared, crash>>
  BY DEF onDestroy, Calm, Steady, loopVars, orderVars
<1>2. \A h \in Page : op'[h] = op[h] \/ op'[h] = "none"
  BY SMTT(60), <1>1 DEF Inv, Typed, HelperType
<1>3. op'[g] = "none" /\ ~Through(g) /\ ~Posts(g) /\ ~(g = Order /\ Tells)
  <2>1. op[g] \in {"none", "purchase", "stuck"}
    BY <1>0 DEF Busy, Leftover, Inv, Typed, HelperType, Operation
  <2>2. op'[g] = "none"
    BY <1>1, <2>1 DEF Inv, Typed, HelperType
  <2>3. DOMAIN posts = 1..Len(posts)
    BY SMTT(60) DEF Inv, Typed, PostType
  <2> QED
    BY <1>0, <2>2, <2>3 DEF Busy, Leftover, Through, Posts, Tells
<1>4. \A h \in Page : Works(h)' => Works(h) /\ h # g
  BY <1>1, <1>2, <1>3 DEF Works, Through, Posts, Tells
<1>5. Steady'
  BY <1>1, <1>4 DEF Calm, Steady, Inv, Typed, HelperType
<1>6. Alone'
  <2>1. \A h \in Page : Asks(h)' => Asks(h)
    BY <1>2 DEF Asks
  <2>2. \A h \in Page : /\ Through(h)' => Through(h)
                        /\ \A i \in 1..Len(posts') : Found(h, i)' => Found(h, i)
    BY <1>1 DEF Through, Found
  <2> QED
    BY <2>1, <2>2, AloneKept DEF Calm
<1>7. Awaited'
  BY <1>0, <1>1 DEF Calm, Awaited, Busy, Inv, Typed, HelperType
<1> QED
  BY <1>1, <1>5, <1>6, <1>7 DEF Calm, Excused

\* The service connects to a helper that has not worked yet.
LEMMA ConnectedCalm ==
  ASSUME Inv, Calm, NoFault, NEW g \in Page, onServiceConnected(g)
  PROVE  Calm' /\ Excused
<1>0. g \in open /\ setup[g] = "binding" /\ ~Works(g)
  BY DEF onServiceConnected, Calm, Steady
<1>1. /\ op[g] = "none" /\ op' = [op EXCEPT ![g] = "ask"] /\ setup' = [setup EXCEPT ![g] = "done"]
      /\ UNCHANGED <<open, loops, posts, ensure, store, shared, crash>>
  BY <1>0, NotBoth DEF onServiceConnected, Works, loopVars, orderVars, Main
<1>2. \A h \in Page : h # g => op'[h] = op[h] /\ setup'[h] = setup[h]
  BY <1>1 DEF Inv, Typed, HelperType
<1>3. setup'[g] = "done" /\ op'[g] = "ask"
  BY <1>1 DEF Inv, Typed, HelperType
<1>4. \A h \in Page : h # g => (Works(h)' = Works(h))
  BY <1>1, <1>2 DEF Works, Through, Posts, Tells
<1>5. Steady'
  BY SMTT(60), <1>0, <1>1, <1>2, <1>3, <1>4 DEF Calm, Steady
<1>6. Alone'
  <2>1. ~Through(g) /\ \A i \in 1..Len(posts) : ~Found(g, i)
    BY <1>0 DEF Works, Posts, Found
  <2>2. /\ \A h \in Page : Asks(h)' => Asks(h) \/ h = g
        /\ \A h \in Page : Through(h)' = Through(h)
        /\ Len(posts') = Len(posts) /\ \A h, i : Found(h, i)' = Found(h, i)
    BY <1>1, <1>2 DEF Asks, Through, Found
  <2> QED
    BY ZenonT(60), <2>1, <2>2 DEF Calm, Alone
<1>7. Awaited'
  BY SMTT(60), <1>0, <1>1, <1>2 DEF Calm, Awaited
<1> QED
  BY <1>1, <1>5, <1>6, <1>7 DEF Calm, Excused

\* An operation in progress belongs to an open page.
LEMMA Usable ==
  ASSUME Calm, NEW g \in Page, op[g] # "none"
  PROVE  g \in open /\ ~Unusable(g)
BY ZenonT(60) DEF Calm, Steady, Works, Unusable

\* One operation goes on to the next, or ends.
LEMMA OpCalm ==
  ASSUME Inv, Calm, NoFault, NEW g \in Page,
         queryPurchases(g) \/ consume(g) \/ consumePurchase(g)
  PROVE  Calm' /\ Excused
<1>0. op[g] \in {"ask", "consume", "consuming"} /\ ~Unusable(g)
  BY SMTT(60), Usable DEF queryPurchases, consume, consumePurchase
<1>1. /\ \/ op[g] = "ask" /\ op' = [op EXCEPT ![g] = "details"]
         \/ op' = [op EXCEPT ![g] = "consuming"] \/ op' = [op EXCEPT ![g] = "none"]
      /\ UNCHANGED <<open, setup, loops, posts, ensure, store, shared, crash>>
  BY <1>0 DEF queryPurchases, consume, consumePurchase, loopVars, orderVars, Main
<1>2. \A h \in Page : /\ op'[h] # "none" => op[h] # "none"
                      /\ Asks(h)' => Asks(h)
                      /\ op[h] = "purchase" => op'[h] = "purchase"
  BY SMTT(60), <1>0, <1>1 DEF Asks, Inv, Typed, HelperType
<1>3. \A h \in Page : Works(h)' => Works(h)
  BY ZenonT(60), <1>1, <1>2 DEF Works, Through, Posts, Tells
<1>4. Awaited'
  BY SMTT(60), <1>1, <1>2 DEF Calm, Awaited, Page
<1>5. \A h \in Page : /\ Through(h)' => Through(h)
                      /\ \A i \in 1..Len(posts') : Found(h, i)' => Found(h, i)
  BY ZenonT(60), <1>1 DEF Through, Found
<1> QED
  BY SMTT(60), <1>1, <1>2, <1>3, <1>4, <1>5, CalmKept DEF Excused

LEMMA DetailsCalm ==
  ASSUME Inv, Calm, NoFault, NEW g \in Page, querySkuDetails(g)
  PROVE  Calm' /\ Excused
<1> DEFINE r == [kind |-> "inventory", page |-> g, inv |-> inv[g]]
<1>0. op[g] = "details" /\ ~Unusable(g) /\ g \in open
  BY Usable DEF querySkuDetails
<1>1. /\ op' = [op EXCEPT ![g] = "none"] /\ posts' = Append(posts, r)
      /\ UNCHANGED <<open, setup, loops, ensure, store, shared, crash>>
  BY <1>0, NotBoth DEF querySkuDetails, loopVars, orderVars
<1>2. r \in Post /\ r.kind = "inventory" /\ r.page = g /\ PostType
  BY DEF Post, Inv, Typed, HelperType
<1> HIDE DEF r
<1>3. \A h \in Page : /\ op'[h] = IF h = g THEN "none" ELSE op[h]
                      /\ Through(h)' = Through(h)
  BY <1>1 DEF Through, Inv, Typed, HelperType
<1>4. \A h \in Page : /\ Posts(h)' => Posts(h) \/ h = g
                      /\ \A i \in 1..Len(posts') :
                           Found(h, i)' => Found(h, i) \/ (i = Len(posts) + 1 /\ h = g)
  BY <1>1, <1>2, PostedFound
<1>5. \A h \in Page : Works(h)' => Works(h)
  BY <1>0, <1>1, <1>3, <1>4 DEF Works, Tells
<1>6. Steady'
  BY SMTT(60), <1>1, <1>5 DEF Calm, Steady
<1>7. ~Through(g) /\ \A i : ~Found(g, i)
  BY <1>0 DEF Calm, Alone, Asks, Found
<1>8. Alone'
  <2>1. \A h \in Page : \A i : Found(h, i) => i \in 1..Len(posts)
    BY DEF Found
  <2> SUFFICES ASSUME NEW h \in Page
               PROVE  /\ Asks(h)' => ~Through(h)' /\ \A i \in 1..Len(posts') : ~Found(h, i)'
                      /\ \A i \in 1..Len(posts') : Found(h, i)' =>
                           ~Through(h)' /\ \A j \in 1..Len(posts') : Found(h, j)' => j = i
    BY SMTT(60) DEF Alone
  <2>2. CASE h = g
    BY ZenonT(60), <1>3, <1>4, <1>7, <2>2 DEF Asks
  <2>3. CASE h # g
    BY <1>3, <1>4, <2>1, <2>3 DEF Calm, Alone, Asks
  <2> QED
    BY <2>2, <2>3
<1>9. Awaited'
  BY SMTT(60), <1>0, <1>1, <1>3 DEF Calm, Awaited, Page
<1> QED
  BY SMTT(60), <1>1, <1>6, <1>8, <1>9 DEF Calm, Excused

\* Alone on its param, the thread casts what it has put there itself.
LEMMA GoesCalm ==
  ASSUME Inv, Calm, NoFault, NEW g \in Page, NEW t \in Thread,
         put(g, t) \/ take(g, t) \/ ensurePayment(g, t) \/ answer(g, t) \/ read(g, t)
  PROVE  Calm' /\ Excused
<1> DEFINE r == [kind |-> "consume", page |-> g, inv |-> {loops[g][t].p}]
<1>1. loops[g][t].at # "idle" /\ Through(g)
  <2>1. loops[g][t].at # "idle"
    BY ZenonT(60) DEF put, take, ensurePayment, answer, read
  <2> QED
    BY ZenonT(60), <2>1, Idle DEF Through
<1>2. /\ loops[g][t].at = "take" => param[g] \in Purchase
      /\ loops[g][t].at = "read" => param[g] \notin Purchase
  <2>1. LoopTold
    BY DEF Inv, Told, Calm
  <2>2. loops[g][t].at = "take" => loops[g][t].p \in Purchase
    BY DEF Inv, Typed, LoopType
  <2> QED
    BY <2>1, <2>2, BillingAssumption DEF LoopTold
<1>3. /\ \E l : Turns(g, t, l)
      /\ posts' = posts \/ posts' = Append(posts, r)
      /\ UNCHANGED <<open, setup, op, ensure, store, shared, crash>>
  <2>1. LoopRest
    BY ZenonT(60), <1>2 DEF put, take, ensurePayment, answer, read
  <2>2. \E l : Turns(g, t, l)
    BY ZenonT(60), <1>2 DEF put, take, ensurePayment, answer, read
  <2>3. posts' = posts \/ posts' = Append(posts, r)
    BY ZenonT(60), <1>2 DEF put, take, ensurePayment, answer, read
  <2> QED
    BY SMTT(60), <2>1, <2>2, <2>3 DEF LoopRest, helperVars, orderVars
<1>4. r.kind = "consume" /\ r.page = g /\ (posts' # posts => r \in Post) /\ PostType
  <2>1. CASE read(g, t)
    <3>1. loops[g][t].p \in Purchase
      BY ZenonT(60), <2>1 DEF read, Inv, Typed, LoopType
    <3> QED
      BY ZenonT(60), <3>1 DEF Post, Inv, Typed
  <2>2. CASE ~read(g, t)
    BY ZenonT(60), <1>2, <2>2 DEF put, take, ensurePayment, answer, Inv, Typed
  <2> QED
    BY <2>1, <2>2
<1> HIDE DEF r
<1>5. \A h \in Page : h # g => loops'[h] = loops[h]
  BY SMTT(60), <1>3 DEF Turns, Inv, Typed, LoopType
<1>6. \A h \in Page : Through(h)' => Through(h)
  BY <1>1, <1>5 DEF Through
<1>7. \A h \in Page : /\ Posts(h)' => Posts(h) \/ h = g
                      /\ \A i \in 1..Len(posts') : Found(h, i)' => Found(h, i)
  <2>1. CASE posts' = posts
    BY <2>1 DEF Posts, Found
  <2>2. CASE posts' # posts
    BY SMTT(60), <1>3, <1>4, <2>2, PostedFound
  <2> QED
    BY SMTT(60), <2>1, <2>2
<1>8. \A h \in Page : (Works(h)' => Works(h)) /\ (Asks(h)' => Asks(h))
  BY ZenonT(60), <1>1, <1>3, <1>6, <1>7 DEF Works, Asks, Tells
<1>9. Awaited'
  BY <1>3 DEF Calm, Awaited
<1> QED
  BY SMTT(60), <1>3, <1>6, <1>7, <1>8, <1>9, CalmKept DEF Excused

LEMMA PayCalm ==
  ASSUME Inv, Calm, NoFault, pay
  PROVE  Calm' /\ Excused
<1> Order \in Page
  BY SMTT(60) DEF Page
<1>0. /\ Order \in open /\ store = NoStore
      /\ UNCHANGED <<open, loops, posts, ensure, shared, crash>>
  BY ZenonT(60) DEF pay, loopVars
<1>1. \/ /\ setup[Order] = "none" /\ setup' = [setup EXCEPT ![Order] = "binding"]
         /\ UNCHANGED <<op, store>>
      \/ /\ setup[Order] = "done" /\ op[Order] = "none" /\ setup' = setup
         /\ op' = [op EXCEPT ![Order] = "purchase"]
  BY ZenonT(60), NotBoth DEF pay, startSetup, Calm, Steady
<1>2. \A h \in Page : (h # Order => op'[h] = op[h]) /\ (Asks(h)' => Asks(h))
  BY SMTT(60), <1>1 DEF Asks, Inv, Typed, HelperType
<1>3. \A h \in Page : h # Order => (Works(h)' = Works(h))
  BY ZenonT(60), <1>0, <1>2 DEF Works, Through, Posts, Tells
<1>4. Alone'
  <2>1. \A h \in Page : /\ Through(h)' => Through(h)
                        /\ \A i \in 1..Len(posts') : Found(h, i)' => Found(h, i)
    BY <1>0 DEF Through, Found
  <2> QED
    BY ZenonT(60), <1>2, <2>1, AloneKept DEF Calm
<1>5. CASE /\ setup[Order] = "none" /\ setup' = [setup EXCEPT ![Order] = "binding"]
           /\ UNCHANGED <<op, store>>
  <2>1. ~Works(Order)' /\ setup'[Order] = "binding"
    BY <1>0, <1>5 DEF Calm, Steady, Works, Through, Posts, Tells, Inv, Typed, HelperType
  <2>2. \A h \in Page : h # Order => setup'[h] = setup[h]
    BY SMTT(60), <1>5 DEF Inv, Typed, HelperType
  <2>3. Steady'
    BY ZenonT(60), <1>0, <1>3, <2>1, <2>2 DEF Calm, Steady
  <2> QED
    BY SMTT(60), <1>0, <1>4, <1>5, <2>3 DEF Calm, Awaited, Excused
<1>6. CASE setup[Order] = "done" /\ setup' = setup /\ op' = [op EXCEPT ![Order] = "purchase"]
  <2>1. Steady'
    BY <1>0, <1>3, <1>6 DEF Calm, Steady
  <2>2. op'[Order] = "purchase"
    BY <1>6 DEF Inv, Typed, HelperType
  <2> QED
    BY <1>0, <1>4, <2>1, <2>2 DEF Calm, Awaited, Excused
<1> QED
  BY <1>1, <1>5, <1>6

LEMMA ScreenCalm ==
  ASSUME Inv, Calm, NoFault, getOrder \/ decide
  PROVE  Calm' /\ Excused
<1>1. /\ UNCHANGED <<open, setup, op, loops, posts, ensure, shared, crash>>
      /\ store' # NoStore => store # NoStore
  BY SMTT(60) DEF getOrder, decide, Main, helperVars, loopVars, NoStore
<1>2. \A h \in Page : /\ Works(h)' => Works(h)
                      /\ Asks(h)' => Asks(h)
                      /\ Through(h)' => Through(h)
                      /\ \A i \in 1..Len(posts') : Found(h, i)' => Found(h, i)
  BY <1>1 DEF Works, Asks, Through, Posts, Tells, Found
<1>3. Awaited'
  BY <1>1 DEF Calm, Awaited
<1> QED
  BY <1>1, <1>2, <1>3, CalmKept DEF Excused

\* The page that has waited, or none since the process has crashed.
LEMMA ResultCalm ==
  ASSUME Inv, Calm, NoFault, onActivityResult
  PROVE  Calm' /\ Excused
<1> Order \in Page
  BY DEF Page
<1>0. store # NoStore /\ store' = NoStore
  <2>1. store.at \in {"bought", "cancelled"} /\ store' = NoStore
    BY ZenonT(60) DEF onActivityResult
  <2>2. NoStore.at = "none"
    BY DEF NoStore
  <2> QED
    BY ZenonT(60), <2>1, <2>2
<1>1. CASE Order \notin open /\ Ends /\ crash' = "result" /\ UNCHANGED shared
  <2>1. ~shared' /\ Calm'
    BY <1>0, <1>1, EndsCalm DEF Calm
  <2> QED
    BY <1>0, <1>1, <2>1 DEF Calm, Awaited, Excused
<1>2. CASE ~(Order \notin open /\ Ends /\ crash' = "result" /\ UNCHANGED shared)
  <2>1. /\ UNCHANGED <<open, setup, loops, posts, shared, crash>>
        /\ op' = op \/ op' = [op EXCEPT ![Order] = "none"]
        /\ ensure' = ensure \/ Order \in open
    BY <1>2 DEF onActivityResult, Main, helperVars, loopVars
  <2>2. \A h \in Page : op'[h] \in {op[h], "none"}
    BY <2>1 DEF Inv, Typed, HelperType
  <2>3. Order \in open => Works(Order)
    BY SMTT(60), <1>0 DEF Calm, Awaited, Works
  <2>4. \A h \in Page : /\ Works(h)' => Works(h)
                        /\ Asks(h)' => Asks(h)
                        /\ Through(h)' => Through(h)
                        /\ \A i \in 1..Len(posts') : Found(h, i)' => Found(h, i)
    BY <2>1, <2>2, <2>3 DEF Works, Asks, Through, Posts, Tells, Found
  <2>5. Awaited'
    BY <1>0 DEF Awaited
  <2> QED
    BY SMTT(60), <2>1, <2>4, <2>5, CalmKept DEF Excused
<1> QED
  BY SMTT(60), <1>1, <1>2

LEMMA SuccessCalm ==
  ASSUME Inv, Calm, NoFault, NEW p \in Purchase, onSuccessCall(p) \/ onSuccessAnswer(p)
  PROVE  Calm' /\ Excused
<1> DEFINE r == [kind |-> "paid", page |-> Order, inv |-> {p}]
<1>1. /\ UNCHANGED <<open, setup, op, loops, store, shared, crash>>
      /\ posts' = posts \/ posts' = Append(posts, r)
  BY DEF onSuccessCall, onSuccessAnswer, Main, helperVars, loopVars
<1>2. Works(Order)
  BY DEF onSuccessCall, onSuccessAnswer, Works, Tells
<1>3. r \in Post /\ r.kind = "paid" /\ r.page = Order /\ PostType
  BY DEF Post, Page, Inv, Typed
<1> HIDE DEF r
<1>4. \A h \in Page : /\ Posts(h)' => Posts(h) \/ h = Order
                      /\ \A i \in 1..Len(posts') : Found(h, i)' => Found(h, i)
  <2>1. CASE posts' = posts
    BY <2>1 DEF Posts, Found
  <2>2. CASE posts' # posts
    BY SMTT(60), <1>1, <1>3, <2>2, PostedFound
  <2> QED
    BY SMTT(60), <2>1, <2>2
<1>5. \A h \in Page : (Asks(h)' => Asks(h)) /\ (Through(h)' => Through(h))
  BY <1>1 DEF Asks, Through
<1>6. \A h \in Page : Works(h)' => Works(h)
  BY <1>1, <1>2, <1>4, <1>5 DEF Works
<1>7. Awaited'
  BY <1>1 DEF Calm, Awaited
<1> QED
  BY SMTT(60), <1>1, <1>4, <1>5, <1>6, <1>7, CalmKept DEF Excused

\* The first inventory of a page finds no thread there.
LEMMA InventoryCalm ==
  ASSUME Inv, Calm, NEW g \in Page, Found(g, 1), NEW P, onQueryInventoryFinished(g, P),
         posts # <<>>, posts' = Tail(posts),
         UNCHANGED <<open, helperVars, param, orderVars, user, storeVars, crash>>
  PROVE  Calm' /\ Excused
<1>0. UNCHANGED <<open, setup, op, ensure, store, crash>> /\ PostType
  BY DEF helperVars, orderVars, Inv, Typed
<1>1. /\ ~Through(g) /\ ~Asks(g) /\ \A j : Found(g, j) => j = 1
  BY DEF Calm, Alone, Found
<1>2. ~shared' /\ \A h \in Page : h # g => loops'[h] = loops[h]
  <2>1. CASE UNCHANGED <<loops, shared>>
    BY SMTT(60), <2>1 DEF Calm
  <2>2. CASE ~UNCHANGED <<loops, shared>>
    <3> DEFINE free == {t \in Thread : loops[g][t] = NoLoop}
               begun == [NoLoop EXCEPT !.at = "next", !.todo = P]
    <3>1. /\ shared' = (shared \/ free # Thread)
          /\ loops' = [loops EXCEPT ![g][CHOOSE t \in free : TRUE] = begun]
      BY <2>2 DEF onQueryInventoryFinished, GoesThrough
    <3>2. free = Thread
      BY <1>1 DEF Through
    <3>3. ~shared'
      BY ZenonT(60), <3>1, <3>2 DEF Calm
    <3> HIDE DEF begun, free
    <3>4. \A h \in Page : h # g => loops'[h] = loops[h]
      BY <3>1 DEF Inv, Typed, LoopType
    <3> QED
      BY <3>3, <3>4
  <2> QED
    BY <2>1, <2>2
<1>3. \A h \in Page : /\ Posts(h)' => Posts(h)
                      /\ \A i \in 1..Len(posts') : Found(h, i)' => Found(h, i + 1)
  BY SMTT(60), <1>0, TakenFound
<1>4. /\ Posts(g)
      /\ \A h \in Page : (h # g /\ Through(h)' => Through(h)) /\ (Asks(h)' => Asks(h))
  BY ZenonT(60), <1>0, <1>2 DEF Through, Asks, Found, Posts
<1>5. \A h \in Page : Works(h)' => Works(h)
  BY <1>0, <1>3, <1>4 DEF Works, Tells
<1>6. Steady'
  BY SMTT(60), <1>0, <1>5 DEF Calm, Steady
<1>7. \A i \in 1..Len(posts') : ~Found(g, i)'
  BY SMTT(60), <1>0, <1>1, <1>3 DEF PostType
<1>8. Alone'
  <2>1. LoneInventory(g)'
    BY SMTT(60), <1>1, <1>4, <1>7 DEF LoneInventory
  <2>2. ASSUME NEW h \in Page, h # g PROVE LoneInventory(h)'
    <3>1. Alone /\ Len(posts') \in Nat
      BY <1>0 DEF Calm, PostType
    <3> QED
      BY SMTT(60), <1>3, <1>4, <2>2, <3>1, AloneShifted
  <2> QED
    BY SMTT(60), <2>1, <2>2 DEF Alone, LoneInventory
<1>9. Awaited'
  BY <1>0 DEF Calm, Awaited
<1> QED
  BY <1>0, <1>2, <1>6, <1>8, <1>9 DEF Calm, Excused

LEMMA ConsumeAsyncCalm ==
  ASSUME Inv, Calm, NEW g \in Page, Posts(g), NEW P, consumeAsync(g, P), posts # <<>>
  PROVE  Calm' /\ Excused
<1>0. g \in open /\ PostType
  BY DEF Calm, Steady, Works, Inv, Typed
<1>1. CASE Crash("async")
  BY <1>1, EndsCalm DEF Crash, Calm, Excused
<1>2. CASE ~Crash("async")
  <2>1. /\ op[g] = "none" /\ op' = [op EXCEPT ![g] = "consume"] /\ posts' = Tail(posts)
        /\ UNCHANGED <<open, setup, loops, ensure, store, shared, crash>>
    BY <1>0, <1>2 DEF consumeAsync, loopVars, orderVars
  <2>2. \A h \in Page : /\ (op'[h] = IF h = g THEN "consume" ELSE op[h])
                        /\ (Asks(h)' => Asks(h))
                        /\ (Through(h)' = Through(h))
    BY <2>1 DEF Asks, Through, Inv, Typed, HelperType
  <2>3. \A h \in Page : /\ Posts(h)' => Posts(h)
                        /\ \A i \in 1..Len(posts') : Found(h, i)' => Found(h, i + 1)
    BY SMTT(60), <1>0, <2>1, TakenFound
  <2>4. \A h \in Page : Works(h)' => Works(h)
    BY <2>1, <2>2, <2>3 DEF Works, Tells
  <2>5. Steady'
    BY <2>1, <2>4 DEF Calm, Steady
  <2>6. Alone'
    <3>1. Alone /\ Len(posts') \in Nat
      BY SMTT(60), <1>0, <2>1 DEF Calm, PostType
    <3>2. ASSUME NEW h \in Page PROVE LoneInventory(h)'
      BY <2>2, <2>3, <3>1, AloneShifted
    <3> QED
      BY <3>2 DEF Alone, LoneInventory
  <2>7. Awaited'
    BY <2>1, <2>2 DEF Calm, Awaited, Page
  <2> QED
    BY <2>1, <2>5, <2>6, <2>7 DEF Calm, Excused
<1> QED
  BY SMTT(60), <1>1, <1>2

LEMMA RunPostCalm ==
  ASSUME Inv, Calm, runPost
  PROVE  Calm' /\ Excused
<1> DEFINE r == Head(posts)
<1>1. posts # <<>> /\ r = posts[1] /\ 1 \in 1..Len(posts) /\ r \in Post
  BY DEF Inv, Typed, PostType, runPost
<1>2. r.page \in Page /\ Posts(r.page)
  BY SMTT(60), <1>1 DEF Post, Posts
<1>3. CASE r.kind = "inventory"
  <2>1. Found(r.page, 1)
    BY <1>1, <1>3 DEF Found
  <2> QED
    BY <1>1, <1>2, <1>3, <2>1, InventoryCalm DEF runPost
<1>4. CASE r.kind # "inventory"
  <2>1. consumeAsync(r.page, r.inv)
    BY <1>4 DEF runPost
  <2> HIDE DEF r
  <2> QED
    BY <1>1, <1>2, <2>1, ConsumeAsyncCalm
<1> QED
  BY <1>3, <1>4

CalmInv == faults = 0 => Calm

LEMMA FaultExcused ==
  ASSUME Inv, faults # 0 \/ Fault, Fault \/ NoFault
  PROVE  CalmInv' /\ Excused
BY BillingAssumption DEF Inv, Typed, EndType, Fault, NoFault, CalmInv, Excused

LEMMA NextCounts == Next => Fault \/ NoFault
<1>1. ASSUME NEW g \in Account, openAccount(g) PROVE Fault \/ NoFault
  BY <1>1 DEF openAccount, startSetup
<1>2. ASSUME openOrder \/ getOrder \/ pay \/ decide \/ onActivityResult PROVE Fault \/ NoFault
  BY ZenonT(60), <1>2 DEF openOrder, getOrder, pay, startSetup, decide, onActivityResult, Main
<1>3. ASSUME NEW g \in Page, onDestroy(g) \/ onServiceConnected(g) \/ onServiceDisconnected(g)
      PROVE  Fault \/ NoFault
  BY ZenonT(60), <1>3 DEF onDestroy, onServiceConnected, onServiceDisconnected, Main
<1>4. ASSUME NEW g \in Page, Helper(g) PROVE Fault \/ NoFault
  BY <1>4 DEF Helper, queryPurchases, querySkuDetails, consume, consumePurchase, Unused, Main
<1>5. ASSUME NEW g \in Page, Goes(g) PROVE Fault \/ NoFault
  BY ZenonT(60), <1>5 DEF Goes, put, take, ensurePayment, answer, read
<1>6. ASSUME Success \/ runPost \/ setCurrentUser \/ Kill PROVE Fault \/ NoFault
  BY ZenonT(60), <1>6 DEF Success, onSuccessCall, onSuccessAnswer, runPost, setCurrentUser,
                          Kill, Main
<1> QED
  BY <1>1, <1>2, <1>3, <1>4, <1>5, <1>6 DEF Next

LEMMA InitCalm == Init => CalmInv
<1> SUFFICES ASSUME Init PROVE Calm
  BY DEF CalmInv
<1>1. \A g \in Page : ~Works(g)
  BY DEF Init, Works, Through, Posts, Tells
<1>2. Steady
  BY <1>1 DEF Init, Steady
<1>3. Alone
  <2>1. \A g \in Page : ~Asks(g) /\ \A i : ~Found(g, i)
    BY DEF Init, Asks, Found
  <2> QED
    BY <2>1 DEF Alone
<1> QED
  BY <1>2, <1>3 DEF Init, Calm, Awaited

LEMMA NextCalm ==
  ASSUME Inv, CalmInv, [Next]_vars
  PROVE  CalmInv' /\ Excused
<1>1. CASE UNCHANGED vars
  <2>1. UNCHANGED <<open, setup, op, loops, shared, posts, ensure, store, crash, faults>>
    BY SMTT(60), <1>1 DEF vars, helperVars, loopVars, orderVars
  <2>2. \A h \in Page : /\ Works(h)' => Works(h)
                        /\ Asks(h)' => Asks(h)
                        /\ Through(h)' => Through(h)
                        /\ \A i \in 1..Len(posts') : Found(h, i)' => Found(h, i)
    BY <2>1 DEF Works, Asks, Through, Posts, Tells, Found
  <2>3. Awaited => Awaited'
    BY <2>1 DEF Awaited
  <2> QED
    BY ZenonT(60), <2>1, <2>2, <2>3, CalmKept DEF CalmInv, Excused, Calm
<1>2. CASE Next /\ (faults # 0 \/ Fault)
  BY SMTT(60), <1>2, NextCounts, FaultExcused
<1>3. CASE Next /\ faults = 0 /\ ~Fault
  <2> SUFFICES Calm' /\ Excused
    BY DEF CalmInv
  <2>0. Calm /\ NoFault
    BY <1>3, NextCounts DEF CalmInv
  <2>1. ASSUME NEW g \in Account, openAccount(g) PROVE Calm' /\ Excused
    BY <2>0, <2>1, OpenCalm DEF Page
  <2>2. CASE openOrder \/ getOrder
    BY <2>0, <2>2, OpenCalm, ScreenCalm DEF Page
  <2>3. CASE pay \/ decide \/ onActivityResult
    BY <2>0, <2>3, PayCalm, ScreenCalm, ResultCalm
  <2>4. ASSUME NEW g \in Page, onDestroy(g) \/ onServiceConnected(g) PROVE Calm' /\ Excused
    BY <2>0, <2>4, OnDestroyCalm, ConnectedCalm
  <2>5. ASSUME NEW g \in Page, Helper(g) PROVE Calm' /\ Excused
    BY <2>0, <2>5, OpCalm, DetailsCalm DEF Helper
  <2>6. ASSUME NEW g \in Page, Goes(g) PROVE Calm' /\ Excused
    BY <2>0, <2>6, GoesCalm DEF Goes
  <2>7. CASE Success
    BY <2>0, <2>7, SuccessCalm DEF Success
  <2>8. CASE runPost
    BY <2>0, <2>8, RunPostCalm
  <2>9. ~setCurrentUser /\ ~Kill /\ \A g \in Page : ~onServiceDisconnected(g)
    BY <1>3 DEF onServiceDisconnected, setCurrentUser, Kill
  <2> QED
    BY SMTT(60), <1>3, <2>1, <2>2, <2>3, <2>4, <2>5, <2>6, <2>7, <2>8, <2>9 DEF Next
<1> QED
  BY SMTT(60), <1>1, <1>2, <1>3

\* IabHelper's checkNotDisposed and checkSetupDone, the casts of mConsumeCallback.param,
\* unbindService and the store's answer throw only after something has failed or a page
\* was left at work, for any number of pages, threads and purchases.  What is left is
\* the second consumeAsync, and the answer that finds no page after it.
THEOREM CrashesNeedFaults == Spec => CrashNeedsFault
<1>1. Init => Inv /\ CalmInv
  BY InitInv, InitCalm
<1>2. Inv /\ CalmInv /\ [Next]_vars => (Inv /\ CalmInv)' /\ Excused
  BY NextInv, NextCalm
<1>3. Excused => [\/ crash' \in {"no", "async"} \/ faults' > 0
                  \/ crash = "async" /\ crash' = "result"]_crash
  BY DEF Excused
<1> QED
  BY <1>1, <1>2, <1>3, PTL DEF Spec, CrashNeedsFault

=============================================================================
