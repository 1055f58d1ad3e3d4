--------------------------- MODULE BillingProofs ----------------------------
(***************************************************************************)
(* Type correctness of the purchases, and that what is consumed was told   *)
(* to the backend, for any pages, threads, purchases, users and faults.    *)
(***************************************************************************)
EXTENDS Billing, TLAPS

\* TypeOK in parts, one per group of variables.
HelperType == /\ open \subseteq Page /\ setup \in [Page -> Setup]
              /\ op \in [Page -> Operation] /\ inv \in [Page -> SUBSET Purchase]

\* A thread at work on a purchase knows it.
LoopType ==
  /\ loops \in [Page -> [Thread -> Loop]] /\ param \in [Page -> Purchase \cup {"yes", "no"}]
  /\ shared \in BOOLEAN
  /\ \A t \in Thread : loops[Order][t] = NoLoop
  /\ \A g \in Page : \A t \in Thread :
       /\ loops[g][t].at \in {"take", "call", "answer", "read"} => loops[g][t].p \in Purchase
       /\ loops[g][t].at \in {"call", "answer"} => loops[g][t].q \in Purchase

PostType == posts \in Seq(Post)

OrderType == /\ order \in [user : User, sku : Sku, loaded : BOOLEAN]
             /\ ensure \in [Purchase -> {"no", "call", "answer"}] /\ store \in Store

\* What the store asks about is not bought yet.
StoreType == /\ store.at = "asking" => store.p \notin owned \cup consumed
             /\ user \in User /\ owner \in [Purchase -> User]
             /\ owned \subseteq Purchase /\ consumed \subseteq Purchase
             /\ credited \subseteq Purchase /\ owned \cap consumed = {}

EndType == crash \in Why /\ faults \in 0..MaxFaults

Typed == HelperType /\ LoopType /\ PostType /\ OrderType /\ StoreType /\ EndType

LEMMA Idle == NoLoop.at = "idle"
BY DEF NoLoop

LEMMA TypedIsTypeOK == Typed => TypeOK
BY DEF Typed, HelperType, LoopType, PostType, OrderType, StoreType, EndType, TypeOK

\* What an action leaves alone keeps its type.
LEMMA Frame ==
  ASSUME Typed
  PROVE  /\ UNCHANGED <<open, setup, op, inv>> => HelperType'
         /\ UNCHANGED loopVars => LoopType'
         /\ UNCHANGED posts => PostType'
         /\ UNCHANGED <<order, ensure, store>> => OrderType'
         /\ UNCHANGED <<store, user, storeVars>> => StoreType'
         /\ UNCHANGED crash /\ (Fault \/ NoFault) => EndType'
<1>1. UNCHANGED <<open, setup, op, inv>> => HelperType'
  BY DEF Typed, HelperType
<1>2. UNCHANGED loopVars => LoopType'
  BY DEF Typed, LoopType, loopVars
<1>3. UNCHANGED posts => PostType'
  BY DEF Typed, PostType
<1>4. UNCHANGED <<order, ensure, store>> => OrderType'
  BY DEF Typed, OrderType
<1>5. UNCHANGED <<store, user, storeVars>> => StoreType'
  BY DEF Typed, StoreType, storeVars
<1>6. UNCHANGED crash /\ (Fault \/ NoFault) => EndType'
  BY BillingAssumption DEF Typed, EndType, Fault, NoFault
<1> QED
  BY <1>1, <1>2, <1>3, <1>4, <1>5, <1>6

\* faults stay within their bound, however the process goes on.
LEMMA EndsType ==
  ASSUME Typed, crash' \in Why, Fault \/ NoFault
  PROVE  EndType'
BY BillingAssumption DEF Typed, EndType, Fault, NoFault

\* The state a process leaves when it ends.
LEMMA EndsTyped ==
  ASSUME Typed, Ends, Fault \/ NoFault, crash' \in Why, store' \in {store, NoStore},
         UNCHANGED <<user, storeVars, shared>>
  PROVE  Typed'
<1>1. HelperType'
  BY DEF Ends, HelperType, Setup, Operation
<1>2. LoopType'
  <2>1. NoLoop \in Loop /\ Order \in Page /\ NoLoop.at = "idle"
    BY DEF NoLoop, Loop, Page
  <2>2. loops' \in [Page -> [Thread -> Loop]] /\ param' \in [Page -> Purchase \cup {"yes", "no"}]
    BY <2>1 DEF Ends
  <2>3. \A g \in Page : \A t \in Thread : loops'[g][t] = NoLoop
    BY DEF Ends
  <2>4. shared' \in BOOLEAN
    BY DEF Typed, LoopType
  <2> QED
    BY <2>1, <2>2, <2>3, <2>4 DEF LoopType
<1>3. PostType'
  BY DEF Ends, PostType
<1>4. OrderType'
  BY ZenonT(60) DEF Ends, OrderType, Typed, Store
<1>5. StoreType'
  BY DEF StoreType, Typed, storeVars, NoStore
<1> QED
  BY <1>1, <1>2, <1>3, <1>4, <1>5, EndsType DEF Typed

-----------------------------------------------------------------------------
(* What is told to the backend before it is consumed                       *)

\* A thread alone on its param: it hands over its purchase, and reads its own answer.
LoopTold ==
  \A g \in Page : \A t \in Thread :
    /\ \A u \in Thread : loops[g][t] # NoLoop /\ loops[g][u] # NoLoop => t = u
    /\ loops[g][t].at = "take" => param[g] = loops[g][t].p
    /\ loops[g][t].at \in {"call", "answer"} =>
         loops[g][t].q = loops[g][t].p /\ param[g] = "no"
    /\ loops[g][t].at = "answer" => loops[g][t].p \in credited
    /\ loops[g][t].at = "read" =>
         param[g] \in {"yes", "no"} /\ (param[g] = "yes" => loops[g][t].p \in credited)

PostTold == \A i \in 1..Len(posts) : posts[i].kind # "inventory" => posts[i].inv \subseteq credited

OpTold == \A g \in Page : op[g] \in {"consume", "consuming"} => inv[g] \subseteq credited

EnsureTold == \A p \in Purchase : ensure[p] = "answer" => p \in credited

Told == shared \/ (LoopTold /\ PostTold /\ OpTold /\ EnsureTold /\ consumed \subseteq credited)

Inv == Typed /\ Told

\* What is told stays told.
LEMMA ToldFrame ==
  ASSUME credited \subseteq credited'
  PROVE  /\ LoopTold /\ UNCHANGED <<loops, param>> => LoopTold'
         /\ PostTold /\ UNCHANGED posts => PostTold'
         /\ OpTold /\ UNCHANGED <<op, inv>> => OpTold'
         /\ EnsureTold /\ UNCHANGED ensure => EnsureTold'
         /\ consumed \subseteq credited /\ UNCHANGED consumed => (consumed \subseteq credited)'
<1>1. LoopTold /\ UNCHANGED <<loops, param>> => LoopTold'
  BY DEF LoopTold
<1>2. PostTold /\ UNCHANGED posts => PostTold'
  BY DEF PostTold
<1>3. OpTold /\ UNCHANGED <<op, inv>> => OpTold'
  BY DEF OpTold
<1>4. EnsureTold /\ UNCHANGED ensure => EnsureTold'
  BY DEF EnsureTold
<1> QED
  BY <1>1, <1>2, <1>3, <1>4

\* A runnable posted.
LEMMA Posted ==
  ASSUME PostType, NEW r \in Post, posts' = Append(posts, r), credited \subseteq credited'
  PROVE  /\ PostType'
         /\ PostTold /\ (r.kind # "inventory" => r.inv \subseteq credited) => PostTold'
<1>1. PostType'
  BY DEF PostType
<1>2. Len(posts) \in Nat /\ Len(posts') = Len(posts) + 1 /\ posts'[Len(posts) + 1] = r
  BY DEF PostType
<1>3. \A i \in 1..Len(posts) : posts'[i] = posts[i]
  BY DEF PostType
<1>4. \A i \in 1..Len(posts') : i \in 1..Len(posts) \/ i = Len(posts) + 1
  BY <1>2
<1> QED
  BY <1>1, <1>2, <1>3, <1>4 DEF PostTold

\* A runnable taken from the queue.
LEMMA Taken ==
  ASSUME PostType, posts # <<>>, posts' = Tail(posts), credited \subseteq credited'
  PROVE  PostType' /\ (PostTold => PostTold')
<1>1. PostType'
  BY DEF PostType
<1>2. Len(posts) \in Nat /\ Len(posts') = Len(posts) - 1
  BY DEF PostType
<1>3. \A i \in 1..Len(posts) - 1 : posts'[i] = posts[i + 1]
  BY DEF PostType
<1>4. ASSUME PostTold PROVE PostTold'
  <2> SUFFICES ASSUME NEW i \in 1..Len(posts) - 1, posts'[i].kind # "inventory"
               PROVE  posts'[i].inv \subseteq credited'
    BY ZenonT(60), <1>2 DEF PostTold
  <2>1. i + 1 \in 1..Len(posts)
    BY <1>2
  <2> QED
    BY <1>3, <1>4, <2>1 DEF PostTold
<1> QED
  BY <1>1, <1>4

LEMMA FirstPost ==
  ASSUME PostType, posts # <<>>
  PROVE  /\ Head(posts) \in Post
         /\ PostTold /\ Head(posts).kind # "inventory" => Head(posts).inv \subseteq credited
<1>1. Head(posts) = posts[1] /\ 1 \in 1..Len(posts) /\ Head(posts) \in Post
  BY DEF PostType
<1> QED
  BY <1>1 DEF PostTold

LEMMA EndsInv ==
  ASSUME Inv, Ends, Fault \/ NoFault, crash' \in Why, store' \in {store, NoStore},
         UNCHANGED <<user, storeVars, shared>>
  PROVE  Inv'
<1>1. Typed'
  BY EndsTyped DEF Inv
<1>2. Told'
  <2>1. LoopTold'
    BY DEF Ends, LoopTold, NoLoop
  <2>2. PostTold' /\ OpTold' /\ EnsureTold'
    BY DEF Ends, PostTold, OpTold, EnsureTold
  <2> QED
    BY <2>1, <2>2 DEF Inv, Told, storeVars
<1> QED
  BY <1>1, <1>2 DEF Inv

LEMMA CrashInv ==
  ASSUME Inv, NEW why \in Why, Crash(why), Fault \/ NoFault
  PROVE  Inv'
BY EndsInv DEF Crash, Inv, Typed, OrderType

\* The process starts with nothing under way.
LEMMA InitInv == Init => Inv
<1> SUFFICES ASSUME Init PROVE Inv
  OBVIOUS
<1>1. HelperType /\ PostType /\ StoreType /\ EndType
  BY BillingAssumption
     DEF Init, HelperType, PostType, StoreType, EndType, Setup, Operation, Why, NoStore
<1>2. LoopType
  <2>1. NoLoop \in Loop /\ Order \in Page /\ NoLoop.at = "idle"
    BY DEF NoLoop, Loop, Page
  <2>2. loops \in [Page -> [Thread -> Loop]] /\ param \in [Page -> Purchase \cup {"yes", "no"}]
    BY <2>1 DEF Init
  <2>3. \A g \in Page : \A t \in Thread : loops[g][t] = NoLoop
    BY DEF Init
  <2> QED
    BY ZenonT(60), <2>1, <2>2, <2>3 DEF LoopType, Init
<1>3. OrderType
  BY ZenonT(60) DEF Init, OrderType, Store
<1>4. Told
  <2>1. LoopTold
    BY DEF Init, LoopTold, NoLoop
  <2> QED
    BY <2>1 DEF Init, Told, PostTold, OpTold, EnsureTold
<1> QED
  BY <1>1, <1>2, <1>3, <1>4 DEF Inv, Typed

-----------------------------------------------------------------------------
(* The pages and the user                                                  *)

\* A page whose threads and param stay the same.
LEMMA SameTold ==
  ASSUME LoopTold, NEW h \in Page, NEW u \in Thread, credited \subseteq credited',
         param'[h] = param[h], \A w \in Thread : loops'[h][w] = loops[h][w]
  PROVE  /\ \A w \in Thread : loops'[h][u] # NoLoop /\ loops'[h][w] # NoLoop => u = w
         /\ loops'[h][u].at = "take" => param'[h] = loops'[h][u].p
         /\ loops'[h][u].at \in {"call", "answer"} =>
              loops'[h][u].q = loops'[h][u].p /\ param'[h] = "no"
         /\ loops'[h][u].at = "answer" => loops'[h][u].p \in credited'
         /\ loops'[h][u].at = "read" =>
              /\ param'[h] \in {"yes", "no"}
              /\ param'[h] = "yes" => loops'[h][u].p \in credited'
<1>1. loops'[h][u] = loops[h][u]
  OBVIOUS
<1>2. \A w \in Thread : loops'[h][u] # NoLoop /\ loops'[h][w] # NoLoop => u = w
  BY ZenonT(60) DEF LoopTold
<1>3. /\ loops[h][u].at = "take" => param[h] = loops[h][u].p
      /\ loops[h][u].at \in {"call", "answer"} =>
           loops[h][u].q = loops[h][u].p /\ param[h] = "no"
      /\ loops[h][u].at = "answer" => loops[h][u].p \in credited
      /\ loops[h][u].at = "read" =>
           param[h] \in {"yes", "no"} /\ (param[h] = "yes" => loops[h][u].p \in credited)
  BY ZenonT(60) DEF LoopTold
<1> QED
  BY <1>1, <1>2, <1>3

LEMMA OpenAccountInv ==
  ASSUME Inv, NEW g \in Account, openAccount(g)
  PROVE  Inv'
<1> g \in Page
  BY DEF Page
<1> Typed
  BY DEF Inv
<1>1. HelperType'
  BY DEF Typed, HelperType, openAccount, startSetup, Setup
<1>2. LoopType'
  BY DEF Typed, LoopType, openAccount
<1>3. PostType' /\ OrderType' /\ StoreType'
  BY Frame DEF openAccount, orderVars
<1>4. EndType'
  BY SMTT(60), EndsType DEF openAccount, startSetup, Why
<1>5. ~shared => LoopTold'
  <2> SUFFICES ASSUME LoopTold PROVE LoopTold'
    BY SMTT(60) DEF Inv, Told
  <2>1. \A t \in Thread : loops[g][t] = NoLoop
    BY DEF openAccount, Shows, Leftover
  <2>2. \A h \in Page : h # g => param'[h] = param[h]
    BY DEF openAccount, Typed, LoopType
  <2>3. UNCHANGED <<loops, credited>>
    BY DEF openAccount, storeVars
  <2> SUFFICES ASSUME NEW h \in Page, NEW u \in Thread
               PROVE  /\ \A w \in Thread : loops'[h][u] # NoLoop /\ loops'[h][w] # NoLoop => u = w
                      /\ loops'[h][u].at = "take" => param'[h] = loops'[h][u].p
                      /\ loops'[h][u].at \in {"call", "answer"} =>
                           loops'[h][u].q = loops'[h][u].p /\ param'[h] = "no"
                      /\ loops'[h][u].at = "answer" => loops'[h][u].p \in credited'
                      /\ loops'[h][u].at = "read" =>
                           /\ param'[h] \in {"yes", "no"}
                           /\ param'[h] = "yes" => loops'[h][u].p \in credited'
    BY ZenonT(60) DEF LoopTold
  <2>4. CASE h # g
    BY ZenonT(60), <2>2, <2>3, <2>4, SameTold
  <2>5. CASE h = g
    BY ZenonT(60), <2>1, <2>3, <2>5, Idle
  <2> QED
    BY ZenonT(60), <2>4, <2>5
<1>6. ~shared => PostTold' /\ OpTold' /\ EnsureTold' /\ (consumed \subseteq credited)'
  BY ToldFrame DEF Inv, Told, openAccount, storeVars, orderVars
<1> QED
  BY <1>1, <1>2, <1>3, <1>4, <1>5, <1>6 DEF Inv, Typed, Told, openAccount

LEMMA OrderPageInv ==
  ASSUME Inv, openOrder \/ getOrder
  PROVE  Inv'
<1> Typed /\ Order \in Page
  BY DEF Inv, Page
<1>1. HelperType'
  BY ZenonT(60) DEF Typed, HelperType, openOrder, getOrder, helperVars
<1>2. LoopType' /\ PostType'
  BY ZenonT(60), Frame DEF openOrder, getOrder
<1>3. OrderType' /\ StoreType'
  <2>1. CASE openOrder
    <3>1. order' \in [user : User, sku : Sku, loaded : BOOLEAN]
      BY ZenonT(60), <2>1 DEF openOrder, Typed, StoreType
    <3>2. UNCHANGED <<ensure, store, user, storeVars>>
      BY <2>1 DEF openOrder
    <3> QED
      BY <3>1, <3>2, Frame DEF Typed, OrderType
  <2>2. CASE getOrder
    <3>1. order' \in [user : User, sku : Sku, loaded : BOOLEAN] /\ user' \in User
      BY ZenonT(60), <2>2 DEF getOrder, Typed, OrderType
    <3>2. UNCHANGED <<ensure, store, storeVars>>
      BY <2>2 DEF getOrder
    <3> QED
      BY <3>1, <3>2 DEF Typed, OrderType, StoreType, storeVars
  <2> QED
    BY <2>1, <2>2
<1>4. EndType'
  BY ZenonT(60), EndsType DEF openOrder, getOrder, Why, Main, Typed, EndType
<1>5. ~shared => LoopTold' /\ PostTold' /\ OpTold' /\ EnsureTold' /\ (consumed \subseteq credited)'
  BY ZenonT(60), ToldFrame DEF Inv, Told, openOrder, getOrder, storeVars, loopVars, helperVars
<1>6. UNCHANGED shared
  BY ZenonT(60) DEF openOrder, getOrder, loopVars
<1> QED
  BY <1>1, <1>2, <1>3, <1>4, <1>5, <1>6 DEF Inv, Typed, Told

LEMMA OnDestroyInv ==
  ASSUME Inv, NEW g \in Page, onDestroy(g)
  PROVE  Inv'
<1> Typed
  BY DEF Inv
<1>0. Fault \/ NoFault
  BY DEF onDestroy
<1>a. CASE g = Order /\ setup[g] = "unbound"
  BY <1>0, <1>a, CrashInv DEF onDestroy, Why
<1>b. CASE ~(g = Order /\ setup[g] = "unbound")
  <2>0. /\ open' = open \ {g} /\ setup' = [setup EXCEPT ![g] = "none"]
        /\ op' = [op EXCEPT ![g] = IF @ \in {"purchase", "stuck"} THEN "none" ELSE @]
        /\ UNCHANGED <<inv, loopVars, posts, orderVars, user, storeVars, crash>>
    BY <1>b DEF onDestroy
  <2>1. HelperType'
    BY <2>0 DEF Typed, HelperType, Setup, Operation
  <2>2. LoopType' /\ PostType' /\ OrderType' /\ StoreType' /\ EndType'
    BY <1>0, <2>0, Frame DEF orderVars
  <2>3. OpTold => OpTold'
    BY <2>0 DEF OpTold, Typed, HelperType, storeVars
  <2>4. ~shared => LoopTold' /\ PostTold' /\ EnsureTold' /\ (consumed \subseteq credited)'
    BY <2>0, ToldFrame DEF Inv, Told, storeVars, loopVars, orderVars
  <2> QED
    BY <2>0, <2>1, <2>2, <2>3, <2>4 DEF Inv, Typed, Told, loopVars
<1> QED
  BY <1>a, <1>b

\* Connecting and losing the service change how far the helper is, and start a query.
LEMMA ServiceInv ==
  ASSUME Inv, NEW g \in Page, onServiceConnected(g) \/ onServiceDisconnected(g)
  PROVE  Inv'
<1> Typed
  BY DEF Inv
<1>a. CASE NoFault /\ Crash("reconnect")
  BY <1>a, CrashInv DEF Why
<1>b. CASE ~(NoFault /\ Crash("reconnect"))
  <2>0. /\ setup' \in [Page -> Setup]
        /\ Fault \/ NoFault
        /\ op' = op \/ op' = [op EXCEPT ![g] = "ask"]
        /\ UNCHANGED <<open, inv, loopVars, posts, orderVars, user, storeVars, crash>>
    <3>1. CASE onServiceDisconnected(g)
      BY <3>1 DEF onServiceDisconnected, Typed, HelperType, Setup
    <3>2. CASE onServiceConnected(g)
      <4>1. \E s \in {"failed", "done"} : setup' = [setup EXCEPT ![g] = s]
        BY <1>b, <3>2 DEF onServiceConnected
      <4>2. setup' \in [Page -> Setup]
        BY <4>1 DEF Typed, HelperType, Setup
      <4> QED
        BY <1>b, <3>2, <4>2 DEF onServiceConnected, Main
    <3> QED
      BY <3>1, <3>2
  <2>1. HelperType'
    BY <2>0 DEF Typed, HelperType, Operation
  <2>2. LoopType' /\ PostType' /\ OrderType' /\ StoreType' /\ EndType'
    BY <2>0, Frame DEF orderVars
  <2>3. OpTold => OpTold'
    BY <2>0 DEF OpTold, Typed, HelperType, storeVars
  <2>4. ~shared => LoopTold' /\ PostTold' /\ EnsureTold' /\ (consumed \subseteq credited)'
    BY <2>0, ToldFrame DEF Inv, Told, storeVars, loopVars, orderVars
  <2> QED
    BY <2>0, <2>1, <2>2, <2>3, <2>4 DEF Inv, Typed, Told, loopVars
<1> QED
  BY <1>a, <1>b

LEMMA UserInv ==
  ASSUME Inv, setCurrentUser \/ Kill
  PROVE  Inv'
<1> Typed
  BY DEF Inv
<1>1. CASE setCurrentUser
  <2>1. HelperType' /\ LoopType' /\ PostType' /\ OrderType' /\ EndType'
    BY <1>1, Frame DEF setCurrentUser, helperVars, orderVars
  <2>2. StoreType'
    BY <1>1 DEF setCurrentUser, Typed, StoreType, storeVars, orderVars
  <2>3. ~shared => LoopTold' /\ PostTold' /\ OpTold' /\ EnsureTold' /\ (consumed \subseteq credited)'
    BY <1>1, ToldFrame DEF Inv, Told, setCurrentUser, storeVars, loopVars, helperVars, orderVars
  <2> QED
    BY <1>1, <2>1, <2>2, <2>3 DEF Inv, Typed, Told, setCurrentUser, loopVars
<1>2. CASE Kill
  BY <1>2, EndsInv DEF Kill, Typed, EndType, OrderType
<1> QED
  BY <1>1, <1>2

-----------------------------------------------------------------------------
(* The helper's threads                                                    *)

LEMMA UnusedInv ==
  ASSUME Inv, NEW g \in Page, Unused(g)
  PROVE  Inv'
BY CrashInv DEF Unused, Why

LEMMA QueryInv ==
  ASSUME Inv, NEW g \in Page, queryPurchases(g)
  PROVE  Inv'
<1> Typed
  BY DEF Inv
<1>a. CASE Unused(g)
  BY <1>a, UnusedInv
<1>b. CASE ~Unused(g)
  <2>0. /\ \/ op' = [op EXCEPT ![g] = "details"] /\ inv' = [inv EXCEPT ![g] = owned]
           \/ op' = [op EXCEPT ![g] = "none"] /\ inv' = inv
        /\ Fault \/ NoFault
        /\ UNCHANGED <<open, setup, loopVars, posts, orderVars, user, storeVars, crash>>
    BY <1>b DEF queryPurchases
  <2>1. HelperType'
    BY <2>0 DEF Typed, HelperType, StoreType, Operation
  <2>2. LoopType' /\ PostType' /\ OrderType' /\ StoreType' /\ EndType'
    BY <2>0, Frame DEF orderVars
  <2>3. OpTold => OpTold'
    BY <2>0 DEF OpTold, Typed, HelperType, storeVars
  <2>4. ~shared => LoopTold' /\ PostTold' /\ EnsureTold' /\ (consumed \subseteq credited)'
    BY <2>0, ToldFrame DEF Inv, Told, storeVars, loopVars, orderVars
  <2> QED
    BY <2>0, <2>1, <2>2, <2>3, <2>4 DEF Inv, Typed, Told, loopVars
<1> QED
  BY <1>a, <1>b

LEMMA DetailsInv ==
  ASSUME Inv, NEW g \in Page, querySkuDetails(g)
  PROVE  Inv'
<1> Typed
  BY DEF Inv
<1>a. CASE Unused(g)
  BY <1>a, UnusedInv
<1>b. CASE ~Unused(g)
  <2> DEFINE r == [kind |-> "inventory", page |-> g, inv |-> inv[g]]
  <2>0. /\ op' = [op EXCEPT ![g] = "none"] /\ inv' = [inv EXCEPT ![g] = {}]
        /\ posts' = posts \/ posts' = Append(posts, r)
        /\ Fault \/ NoFault
        /\ UNCHANGED <<open, setup, loopVars, orderVars, user, storeVars, crash>>
    BY <1>b DEF querySkuDetails
  <2>1. HelperType'
    BY <2>0 DEF Typed, HelperType, Operation
  <2>2. LoopType' /\ OrderType' /\ StoreType' /\ EndType'
    BY <2>0, Frame DEF orderVars
  <2>3. r \in Post /\ r.kind = "inventory"
    BY DEF Post, Typed, HelperType
  <2>4. PostType' /\ (PostTold => PostTold')
    <3>1. CASE posts' = posts
      BY <3>1, <2>0, Frame, ToldFrame DEF storeVars
    <3>2. CASE posts' = Append(posts, r)
      BY <3>2, <2>0, <2>3, Posted DEF Typed, storeVars
    <3> QED
      BY <2>0, <3>1, <3>2
  <2>5. OpTold => OpTold'
    BY <2>0 DEF OpTold, Typed, HelperType, storeVars
  <2>6. ~shared => LoopTold' /\ EnsureTold' /\ (consumed \subseteq credited)'
    BY <2>0, ToldFrame DEF Inv, Told, storeVars, loopVars, orderVars
  <2> QED
    BY <2>0, <2>1, <2>2, <2>4, <2>5, <2>6 DEF Inv, Typed, Told, loopVars
<1> QED
  BY <1>a, <1>b

\* The store consumes what the operation is about, and that was told.
LEMMA ConsumeInv ==
  ASSUME Inv, NEW g \in Page, consume(g) \/ consumePurchase(g)
  PROVE  Inv'
<1> Typed
  BY DEF Inv
<1>a. CASE Unused(g)
  BY <1>a, UnusedInv
<1>b. CASE consume(g) /\ ~Unused(g)
  <2>0. /\ op[g] = "consume" /\ op' = [op EXCEPT ![g] = "consuming"] /\ NoFault
        /\ UNCHANGED <<open, setup, inv, loopVars, posts, orderVars, user, storeVars, crash>>
    BY <1>b DEF consume, Main
  <2>1. HelperType'
    BY <2>0 DEF Typed, HelperType, Operation
  <2>2. LoopType' /\ PostType' /\ OrderType' /\ StoreType' /\ EndType'
    BY <2>0, Frame DEF orderVars
  <2>3. OpTold => OpTold'
    BY <2>0 DEF OpTold, Typed, HelperType, storeVars
  <2>4. ~shared => LoopTold' /\ PostTold' /\ EnsureTold' /\ (consumed \subseteq credited)'
    BY <2>0, ToldFrame DEF Inv, Told, storeVars, loopVars, orderVars
  <2> QED
    BY <2>0, <2>1, <2>2, <2>3, <2>4 DEF Inv, Typed, Told, loopVars
<1>c. CASE consumePurchase(g)
  <2>0. /\ op[g] = "consuming" /\ op' = [op EXCEPT ![g] = "none"]
        /\ inv' = [inv EXCEPT ![g] = {}]
        /\ Fault \/ NoFault
        /\ UNCHANGED <<open, setup, loopVars, posts, orderVars, user, owner, credited, crash>>
    BY <1>c DEF consumePurchase
  <2>1. HelperType'
    BY <2>0 DEF Typed, HelperType, Operation
  <2>2. LoopType' /\ PostType' /\ OrderType' /\ EndType'
    BY <2>0, Frame DEF orderVars
  <2>3. StoreType'
    BY <1>c, <2>0 DEF consumePurchase, Typed, StoreType, orderVars
  <2>4. OpTold => OpTold'
    BY <2>0 DEF OpTold, Typed, HelperType
  <2>5. OpTold /\ consumed \subseteq credited => (consumed \subseteq credited)'
    BY <1>c, <2>0 DEF consumePurchase, OpTold
  <2>6. ~shared => LoopTold' /\ PostTold' /\ EnsureTold'
    BY <2>0, ToldFrame DEF Inv, Told, loopVars, orderVars
  <2> QED
    BY <2>0, <2>1, <2>2, <2>3, <2>4, <2>5, <2>6 DEF Inv, Typed, Told, loopVars
<1> QED
  BY <1>a, <1>b, <1>c DEF consume

-----------------------------------------------------------------------------
(* The order page                                                          *)

LEMMA PayInv ==
  ASSUME Inv, pay
  PROVE  Inv'
<1> Typed /\ Order \in Page
  BY SMTT(60) DEF Inv, Page
<1>0. /\ Fault \/ NoFault
      /\ UNCHANGED <<open, inv, loopVars, posts, order, ensure, user, owned, consumed, credited,
                     crash>>
  BY DEF pay, startSetup
<1>1. HelperType'
  <2>1. setup' \in [Page -> Setup]
    BY SMTT(60) DEF pay, startSetup, Typed, HelperType, Setup
  <2>2. op' \in [Page -> Operation]
    BY SMTT(60) DEF pay, Typed, HelperType, Operation
  <2> QED
    BY SMTT(60), <1>0, <2>1, <2>2 DEF Typed, HelperType
<1>2. store' \in Store
  <2>1. CASE UNCHANGED store
    BY <2>1 DEF Typed, OrderType
  <2>2. CASE \E p \in Purchase : store' = [at |-> "asking", p |-> p]
    BY SMTT(60), <2>2 DEF Store
  <2> QED
    BY <2>1, <2>2 DEF pay
<1>3. owner' \in [Purchase -> User]
  BY SMTT(60) DEF pay, Typed, OrderType, StoreType
<1>a. store'.at = "asking" => store'.p \notin owned' \cup consumed'
  <2>1. CASE UNCHANGED store
    BY <1>0, <2>1 DEF Typed, StoreType
  <2>2. CASE \E p \in Purchase \ (owned \cup consumed) : store' = [at |-> "asking", p |-> p]
    BY <1>0, <2>2
  <2> QED
    BY <2>1, <2>2 DEF pay
<1>4. LoopType' /\ PostType' /\ OrderType' /\ StoreType' /\ EndType'
  <2>1. LoopType' /\ PostType' /\ EndType'
    BY <1>0, Frame
  <2>2. OrderType'
    BY <1>0, <1>2 DEF Typed, OrderType
  <2>3. StoreType'
    BY SMTT(60), <1>0, <1>3, <1>a DEF Typed, StoreType
  <2> QED
    BY <2>1, <2>2, <2>3
<1>5. OpTold => OpTold'
  BY <1>0 DEF pay, OpTold, Typed, HelperType
<1>6. ~shared => LoopTold' /\ PostTold' /\ EnsureTold' /\ (consumed \subseteq credited)'
  BY <1>0, ToldFrame DEF Inv, Told, loopVars
<1> QED
  BY <1>0, <1>1, <1>4, <1>5, <1>6 DEF Inv, Typed, Told, loopVars

LEMMA DecideInv ==
  ASSUME Inv, decide
  PROVE  Inv'
<1> Typed
  BY DEF Inv
<1>0. /\ store \in Store /\ store.at = "asking"
      /\ \/ owned' = owned \cup {store.p} /\ store' = [store EXCEPT !.at = "bought"]
         \/ owned' = owned /\ store' = [store EXCEPT !.at = "cancelled"]
  BY DEF decide, Typed, OrderType
<1>1. PICK p \in Purchase : store = [at |-> "asking", p |-> p]
  <2>1. store \in [at : {"asking", "bought", "cancelled"}, p : Purchase]
    BY <1>0 DEF Store, NoStore
  <2> QED
    BY <1>0, <2>1
<1>2. store' \in Store /\ store'.at # "asking" /\ owned' \subseteq owned \cup {p}
  BY <1>0, <1>1 DEF Store
<1>3. StoreType'
  BY <1>1, <1>2 DEF Typed, StoreType, decide
<1>4. HelperType' /\ LoopType' /\ PostType' /\ OrderType' /\ EndType'
  BY <1>2, Frame DEF decide, helperVars, Main, Typed, OrderType
<1>5. ~shared => LoopTold' /\ PostTold' /\ OpTold' /\ EnsureTold' /\ (consumed \subseteq credited)'
  BY ToldFrame DEF Inv, Told, decide, loopVars, helperVars
<1> QED
  BY <1>3, <1>4, <1>5 DEF Inv, Typed, Told, decide, loopVars

LEMMA ResultInv ==
  ASSUME Inv, onActivityResult
  PROVE  Inv'
<1> Typed /\ Order \in Page
  BY SMTT(60) DEF Inv, Page
<1>a. CASE Order \notin open /\ Ends /\ crash' = "result" /\ NoFault
  BY <1>a, EndsInv DEF onActivityResult, Why, loopVars
<1>b. CASE ~(Order \notin open /\ Ends /\ crash' = "result" /\ NoFault)
  <2>0. /\ store' = NoStore
        /\ op' = op \/ op' = [op EXCEPT ![Order] = "none"]
        /\ ensure' = ensure \/ (store.at = "bought" /\ ensure' = [ensure EXCEPT ![store.p] = "call"])
        /\ Fault \/ NoFault
        /\ UNCHANGED <<open, setup, inv, loopVars, posts, order, user, storeVars, crash>>
    BY <1>b DEF onActivityResult, helperVars, Main
  <2>1. HelperType'
    BY <2>0 DEF Typed, HelperType, Operation
  <2>2. LoopType' /\ PostType' /\ EndType'
    BY SMTT(60), <2>0, Frame
  <2>3. OrderType' /\ StoreType'
    BY <2>0 DEF Typed, OrderType, StoreType, Store, NoStore, storeVars
  <2>4. OpTold => OpTold'
    BY <2>0 DEF OpTold, Typed, HelperType, storeVars
  <2>5. EnsureTold => EnsureTold'
    BY <2>0 DEF EnsureTold, Typed, OrderType, storeVars
  <2>6. ~shared => LoopTold' /\ PostTold' /\ (consumed \subseteq credited)'
    BY <2>0, ToldFrame DEF Inv, Told, storeVars, loopVars
  <2> QED
    BY <2>0, <2>1, <2>2, <2>3, <2>4, <2>5, <2>6 DEF Inv, Typed, Told, loopVars
<1> QED
  BY SMTT(60), <1>a, <1>b

\* The thread that tells the backend, and what it posts.
LEMMA SuccessInv ==
  ASSUME Inv, NEW p \in Purchase, onSuccessCall(p) \/ onSuccessAnswer(p)
  PROVE  Inv'
<1> Typed /\ Order \in Page
  BY DEF Inv, Page
<1>1. CASE onSuccessCall(p)
  <2>0. /\ credited' \in {credited, credited \cup {p}}
        /\ \/ ensure' = [ensure EXCEPT ![p] = "answer"] /\ p \in credited'
           \/ ensure' = [ensure EXCEPT ![p] = "no"]
        /\ Fault \/ NoFault
        /\ UNCHANGED <<open, helperVars, loopVars, posts, order, store, user, owner, owned,
                       consumed, crash>>
    BY <1>1 DEF onSuccessCall
  <2>1. HelperType' /\ LoopType' /\ PostType' /\ EndType'
    BY <2>0, Frame DEF helperVars
  <2>2. OrderType' /\ StoreType'
    BY <2>0 DEF Typed, OrderType, StoreType
  <2>3. EnsureTold => EnsureTold'
    BY <2>0 DEF EnsureTold, Typed, OrderType
  <2>4. credited \subseteq credited'
    BY <2>0
  <2>5. ~shared => LoopTold' /\ PostTold' /\ OpTold' /\ (consumed \subseteq credited)'
    BY SMTT(60), <2>0, <2>4, ToldFrame DEF Inv, Told, loopVars, helperVars
  <2> QED
    BY SMTT(60), <2>0, <2>1, <2>2, <2>3, <2>5 DEF Inv, Typed, Told, loopVars
<1>2. CASE onSuccessAnswer(p)
  <2> DEFINE r == [kind |-> "paid", page |-> Order, inv |-> {p}]
  <2>0. /\ ensure[p] = "answer" /\ ensure' = [ensure EXCEPT ![p] = "no"] /\ NoFault
        /\ posts' = posts \/ posts' = Append(posts, r)
        /\ UNCHANGED <<open, helperVars, loopVars, order, store, user, storeVars, crash>>
    BY SMTT(60), <1>2 DEF onSuccessAnswer, Main
  <2>1. HelperType' /\ LoopType' /\ StoreType' /\ EndType'
    BY <2>0, Frame DEF helperVars
  <2>2. OrderType'
    BY <2>0 DEF Typed, OrderType
  <2>3. r \in Post /\ r.inv = {p}
    BY DEF Post
  <2>4. PostType' /\ (PostTold /\ EnsureTold => PostTold')
    <3>1. CASE posts' = posts
      BY SMTT(60), <3>1, <2>0, Frame, ToldFrame DEF storeVars
    <3>2. CASE posts' = Append(posts, r)
      <4>1. EnsureTold => r.inv \subseteq credited
        BY <2>0, <2>3 DEF EnsureTold
      <4> QED
        BY SMTT(60), <3>2, <4>1, <2>0, <2>3, Posted DEF Typed, storeVars
    <3> QED
      BY SMTT(60), <2>0, <3>1, <3>2
  <2>5. EnsureTold => EnsureTold'
    BY SMTT(60), <2>0 DEF EnsureTold, Typed, OrderType, storeVars
  <2>6. ~shared => LoopTold' /\ OpTold' /\ (consumed \subseteq credited)'
    BY SMTT(60), <2>0, ToldFrame DEF Inv, Told, storeVars, loopVars, helperVars
  <2> QED
    BY SMTT(60), <2>0, <2>1, <2>2, <2>4, <2>5, <2>6 DEF Inv, Typed, Told, loopVars
<1> QED
  BY <1>1, <1>2

-----------------------------------------------------------------------------
(* The thread that goes through an inventory                               *)

\* One thread of a page turns to l: what its type and its param then need.
LEMMA TurnType ==
  ASSUME Typed, NEW g \in Page, NEW t \in Thread, NEW l \in Loop, Turns(g, t, l),
         loops[g][t] # NoLoop, shared' = shared,
         NEW v \in Purchase \cup {"yes", "no"}, param' = [param EXCEPT ![g] = v],
         l.at \in {"take", "call", "answer", "read"} => l.p \in Purchase,
         l.at \in {"call", "answer"} => l.q \in Purchase
  PROVE  LoopType'
<1>1. g # Order
  BY DEF Typed, LoopType
<1>2. loops' = [loops EXCEPT ![g] = [loops[g] EXCEPT ![t] = l]]
  BY DEF Turns
<1>3. loops' \in [Page -> [Thread -> Loop]]
  BY <1>2 DEF Typed, LoopType
<1>4. \A h \in Page : \A u \in Thread :
        loops'[h][u] = IF h = g /\ u = t THEN l ELSE loops[h][u]
  BY <1>2 DEF Typed, LoopType
<1>5. param' \in [Page -> Purchase \cup {"yes", "no"}]
  BY SMTT(60) DEF Typed, LoopType
<1>6. \A u \in Thread : loops'[Order][u] = NoLoop
  BY ZenonT(60), <1>1, <1>4 DEF Page, Typed, LoopType
<1>7. \A h \in Page : \A u \in Thread :
        /\ loops'[h][u].at \in {"take", "call", "answer", "read"} => loops'[h][u].p \in Purchase
        /\ loops'[h][u].at \in {"call", "answer"} => loops'[h][u].q \in Purchase
  <2> TAKE h \in Page
  <2> TAKE u \in Thread
  <2>1. CASE h = g /\ u = t
    BY SMTT(60), <1>4, <2>1
  <2>2. CASE ~(h = g /\ u = t)
    BY <1>4, <2>2 DEF Typed, LoopType
  <2> QED
    BY ZenonT(60), <2>1, <2>2
<1>8. shared' \in BOOLEAN
  BY SMTT(60) DEF Typed, LoopType
<1> QED
  BY <1>3, <1>5, <1>6, <1>7, <1>8 DEF LoopType

LEMMA TurnTold ==
  ASSUME Typed, LoopTold, NEW g \in Page, NEW t \in Thread, NEW l \in Loop, Turns(g, t, l),
         loops[g][t] # NoLoop, credited \subseteq credited',
         NEW v \in Purchase \cup {"yes", "no"}, param' = [param EXCEPT ![g] = v],
         l.at = "take" => v = l.p,
         l.at \in {"call", "answer"} => l.q = l.p /\ v = "no",
         l.at = "answer" => l.p \in credited',
         l.at = "read" => v \in {"yes", "no"} /\ (v = "yes" => l.p \in credited')
  PROVE  LoopTold'
<1>2. loops' = [loops EXCEPT ![g] = [loops[g] EXCEPT ![t] = l]]
  BY SMTT(60) DEF Turns
<1>4. \A h \in Page : \A u \in Thread :
        loops'[h][u] = IF h = g /\ u = t THEN l ELSE loops[h][u]
  BY SMTT(60), <1>2 DEF Typed, LoopType
<1>5. \A h \in Page : param'[h] = IF h = g THEN v ELSE param[h]
  BY SMTT(60) DEF Typed, LoopType
<1>6. \A u \in Thread : u # t => loops[g][u] = NoLoop
  BY ZenonT(60) DEF LoopTold
<1>7. NoLoop.at = "idle"
  BY ZenonT(60) DEF NoLoop
<1> SUFFICES ASSUME NEW h \in Page, NEW u \in Thread
             PROVE  /\ \A w \in Thread : loops'[h][u] # NoLoop /\ loops'[h][w] # NoLoop => u = w
                    /\ loops'[h][u].at = "take" => param'[h] = loops'[h][u].p
                    /\ loops'[h][u].at \in {"call", "answer"} =>
                         loops'[h][u].q = loops'[h][u].p /\ param'[h] = "no"
                    /\ loops'[h][u].at = "answer" => loops'[h][u].p \in credited'
                    /\ loops'[h][u].at = "read" =>
                         /\ param'[h] \in {"yes", "no"}
                         /\ param'[h] = "yes" => loops'[h][u].p \in credited'
  BY ZenonT(60) DEF LoopTold
<1>8. CASE h # g
  <2>1. param'[h] = param[h] /\ \A w \in Thread : loops'[h][w] = loops[h][w]
    BY <1>4, <1>5, <1>8
  <2> QED
    BY ZenonT(60), <2>1, SameTold
<1>9. CASE h = g /\ u = t
  BY ZenonT(60), <1>4, <1>5, <1>6, <1>9
<1>10. CASE h = g /\ u # t
  BY ZenonT(60), <1>4, <1>6, <1>7, <1>10
<1> QED
  BY ZenonT(60), <1>8, <1>9, <1>10

\* A step of the thread, given what it turns to and leaves in param.
LEMMA LoopStep ==
  ASSUME Inv, NEW g \in Page, NEW t \in Thread, NEW l \in Loop, Turns(g, t, l),
         loops[g][t] # NoLoop, LoopRest, Fault \/ NoFault,
         credited' \subseteq Purchase, credited \subseteq credited',
         NEW v \in Purchase \cup {"yes", "no"}, param' = [param EXCEPT ![g] = v],
         l.at \in {"take", "call", "answer", "read"} => l.p \in Purchase,
         l.at \in {"call", "answer"} => l.q \in Purchase,
         PostType', ~shared => PostTold',
         ~shared =>
           /\ l.at = "take" => v = l.p
           /\ l.at \in {"call", "answer"} => l.q = l.p /\ v = "no"
           /\ l.at = "answer" => l.p \in credited'
           /\ l.at = "read" => v \in {"yes", "no"} /\ (v = "yes" => l.p \in credited')
  PROVE  Inv'
<1> Typed
  BY SMTT(60) DEF Inv
<1>0. UNCHANGED <<open, helperVars, shared, orderVars, user, owner, owned, consumed, crash>>
  BY SMTT(60) DEF LoopRest
<1>1. HelperType' /\ OrderType' /\ EndType'
  BY SMTT(60), <1>0, Frame DEF helperVars, orderVars
<1>2. LoopType'
  BY ZenonT(60), <1>0, TurnType
<1>3. StoreType'
  BY <1>0 DEF Typed, StoreType, orderVars
<1>4. ~shared => LoopTold'
  BY ZenonT(60), TurnTold DEF Inv, Told
<1>5. ~shared => OpTold' /\ EnsureTold' /\ (consumed \subseteq credited)'
  BY <1>0, ToldFrame DEF Inv, Told, helperVars, orderVars
<1> QED
  BY <1>0, <1>1, <1>2, <1>3, <1>4, <1>5 DEF Inv, Typed, Told

LEMMA PutInv ==
  ASSUME Inv, NEW g \in Page, NEW t \in Thread, put(g, t)
  PROVE  Inv'
<1> Typed
  BY DEF Inv
<1>1. PICK p \in loops[g][t].todo :
        /\ Turns(g, t, [loops[g][t] EXCEPT !.at = "take", !.p = p, !.todo = @ \ {p}])
        /\ param' = [param EXCEPT ![g] = p]
  BY ZenonT(60) DEF put
<1> DEFINE l == [loops[g][t] EXCEPT !.at = "take", !.p = p, !.todo = @ \ {p}]
<1>2. loops[g][t] \in Loop /\ loops[g][t].at = "next"
  BY DEF put, Typed, LoopType
<1>3. p \in Purchase
  BY <1>1, <1>2 DEF Loop
<1>4. l \in Loop /\ l.at = "take" /\ l.p = p
  BY ZenonT(60), <1>2, <1>3 DEF Loop
<1>5. loops[g][t] # NoLoop
  BY <1>2, Idle
<1>6. LoopRest /\ NoFault /\ UNCHANGED <<posts, credited>>
  BY DEF put
<1>7. PostType' /\ (~shared => PostTold') /\ credited' \subseteq Purchase
  BY ZenonT(60), <1>6, Frame, ToldFrame DEF Inv, Told, Typed, StoreType
<1>8. Turns(g, t, l)
  BY <1>1
<1> HIDE DEF l
<1> QED
  BY ZenonT(60), <1>1, <1>3, <1>4, <1>5, <1>6, <1>7, <1>8, LoopStep

LEMMA TakeInv ==
  ASSUME Inv, NEW g \in Page, NEW t \in Thread, take(g, t)
  PROVE  Inv'
<1> Typed
  BY DEF Inv
<1>a. CASE param[g] \notin Purchase
  BY SMTT(60), <1>a, CrashInv DEF take, Why
<1>b. CASE param[g] \in Purchase
  <2> DEFINE l == [loops[g][t] EXCEPT !.at = "call", !.q = param[g]]
  <2>2. loops[g][t] \in Loop /\ loops[g][t].at = "take" /\ loops[g][t].p \in Purchase
    BY DEF take, Typed, LoopType
  <2>4. l \in Loop /\ l.at = "call" /\ l.p = loops[g][t].p /\ l.q = param[g]
    BY ZenonT(60), <1>b, <2>2 DEF Loop
  <2>5. loops[g][t] # NoLoop
    BY <2>2, Idle
  <2>6. /\ Turns(g, t, l) /\ param' = [param EXCEPT ![g] = "no"]
        /\ LoopRest /\ NoFault /\ UNCHANGED <<posts, credited>>
    BY <1>b DEF take
  <2>7. PostType' /\ (~shared => PostTold') /\ credited' \subseteq Purchase
    BY <2>6, Frame, ToldFrame DEF Inv, Told, Typed, StoreType
  <2>8. ~shared => l.q = l.p
    BY <2>2, <2>4 DEF Inv, Told, LoopTold
  <2> HIDE DEF l
  <2> QED
    BY ZenonT(60), <1>b, <2>2, <2>4, <2>5, <2>6, <2>7, <2>8, LoopStep
<1> QED
  BY <1>a, <1>b

\* The call to the backend and its answer.
LEMMA EnsureInv ==
  ASSUME Inv, NEW g \in Page, NEW t \in Thread, ensurePayment(g, t)
  PROVE  Inv'
<1> Typed
  BY DEF Inv
<1> DEFINE q == loops[g][t].q
           answered == [loops[g][t] EXCEPT !.at = "answer"]
           failed == [loops[g][t] EXCEPT !.at = "read"]
<1>1. /\ loops[g][t] \in Loop /\ loops[g][t].at = "call"
      /\ loops[g][t].p \in Purchase /\ q \in Purchase
  BY DEF ensurePayment, Typed, LoopType
<1>2. /\ answered \in Loop /\ answered.at = "answer" /\ answered.p = loops[g][t].p
      /\ answered.q = q
  BY <1>1 DEF Loop
<1>3. failed \in Loop /\ failed.at = "read" /\ failed.p = loops[g][t].p /\ failed.q = q
  BY SMTT(60), <1>1 DEF Loop
<1>4. loops[g][t] # NoLoop
  BY <1>1, Idle
<1>5. /\ LoopRest /\ UNCHANGED <<param, posts>>
      /\ Fault \/ NoFault
      /\ \/ Turns(g, t, answered) /\ credited' = credited \cup {q}
         \/ Turns(g, t, failed) /\ credited' \in {credited, credited \cup {q}}
  BY DEF ensurePayment
<1>6. credited \subseteq credited' /\ credited' \subseteq Purchase
  BY <1>1, <1>5 DEF Typed, StoreType
<1>7. PostType' /\ (~shared => PostTold')
  BY <1>5, <1>6, Frame, ToldFrame DEF Inv, Told
<1>8. param' = [param EXCEPT ![g] = param[g]] /\ param[g] \in Purchase \cup {"yes", "no"}
  BY SMTT(60), <1>5 DEF Typed, LoopType
<1>9. ~shared => q = loops[g][t].p /\ param[g] = "no"
  BY ZenonT(60), <1>1 DEF Inv, Told, LoopTold
<1> HIDE DEF q, answered, failed
<1>10. CASE Turns(g, t, answered) /\ credited' = credited \cup {q}
  <2>1. ~shared => answered.q = answered.p /\ answered.p \in credited'
    BY <1>2, <1>9, <1>10
  <2> QED
    BY ZenonT(60), <1>1, <1>2, <1>4, <1>5, <1>6, <1>7, <1>8, <1>9, <1>10, <2>1, LoopStep
<1>11. CASE Turns(g, t, failed) /\ credited' \in {credited, credited \cup {q}}
  BY ZenonT(60), <1>1, <1>3, <1>4, <1>5, <1>6, <1>7, <1>8, <1>9, <1>11, LoopStep
<1> QED
  BY <1>5, <1>10, <1>11

LEMMA AnswerInv ==
  ASSUME Inv, NEW g \in Page, NEW t \in Thread, answer(g, t)
  PROVE  Inv'
<1> Typed
  BY DEF Inv
<1> DEFINE l == [loops[g][t] EXCEPT !.at = "read"]
<1>1. /\ loops[g][t] \in Loop /\ loops[g][t].at = "answer" /\ loops[g][t].p \in Purchase
  BY DEF answer, Typed, LoopType
<1>2. l \in Loop /\ l.at = "read" /\ l.p = loops[g][t].p
  BY <1>1 DEF Loop
<1>3. loops[g][t] # NoLoop
  BY <1>1, Idle
<1>4. LoopRest /\ NoFault /\ Turns(g, t, l) /\ UNCHANGED <<posts, credited>>
  BY DEF answer
<1>5. PICK v \in {"yes", param[g]} : param' = [param EXCEPT ![g] = v]
  <2>1. param = [param EXCEPT ![g] = param[g]]
    BY DEF Typed, LoopType
  <2> QED
    BY <2>1 DEF answer
<1>6. v \in Purchase \cup {"yes", "no"}
  BY <1>5 DEF Typed, LoopType
<1>7. ~shared => v \in {"yes", "no"} /\ l.p \in credited
  BY <1>1, <1>2, <1>5 DEF Inv, Told, LoopTold
<1>8. PostType' /\ (~shared => PostTold') /\ credited' \subseteq Purchase
  BY <1>4, Frame, ToldFrame DEF Inv, Told, Typed, StoreType
<1> HIDE DEF l
<1> QED
  BY ZenonT(60), <1>1, <1>2, <1>3, <1>4, <1>5, <1>6, <1>7, <1>8, LoopStep

LEMMA ReadInv ==
  ASSUME Inv, NEW g \in Page, NEW t \in Thread, read(g, t)
  PROVE  Inv'
<1> Typed
  BY DEF Inv
<1>a. CASE param[g] \in Purchase
  BY SMTT(60), <1>a, CrashInv DEF read, Why
<1>b. CASE param[g] \notin Purchase
  <2> DEFINE l == NextSku(loops[g][t])
             r == [kind |-> "consume", page |-> g, inv |-> {loops[g][t].p}]
  <2>1. /\ loops[g][t] \in Loop /\ loops[g][t].at = "read" /\ loops[g][t].p \in Purchase
    BY DEF read, Typed, LoopType
  <2>2. l \in Loop /\ l.at \in {"idle", "next"}
    BY ZenonT(60), <2>1 DEF NextSku, NoLoop, Loop
  <2>3. loops[g][t] # NoLoop
    BY <2>1, Idle
  <2>4. /\ Turns(g, t, l) /\ LoopRest /\ NoFault /\ UNCHANGED <<param, credited>>
        /\ posts' = posts \/ (param[g] # "no" /\ posts' = Append(posts, r))
    BY ZenonT(60), <1>b DEF read
  <2>5. r \in Post /\ r.inv = {loops[g][t].p}
    BY SMTT(60), <2>1 DEF Post
  <2>6. ~shared /\ param[g] # "no" => r.inv \subseteq credited
    BY ZenonT(60), <2>1, <2>5 DEF Inv, Told, LoopTold
  <2>7. PostType' /\ (~shared => PostTold')
    <3>1. CASE posts' = posts
      BY ZenonT(60), <3>1, <2>4, Frame, ToldFrame DEF Inv, Told
    <3>2. CASE param[g] # "no" /\ posts' = Append(posts, r)
      BY ZenonT(60), <3>2, <2>4, <2>5, <2>6, Posted DEF Inv, Told, Typed
    <3> QED
      BY ZenonT(60), <2>4, <3>1, <3>2
  <2>8. param' = [param EXCEPT ![g] = param[g]] /\ param[g] \in Purchase \cup {"yes", "no"}
    BY SMTT(60), <2>4 DEF Typed, LoopType
  <2>9. credited' \subseteq Purchase
    BY <2>4 DEF Typed, StoreType
  <2> HIDE DEF l, r
  <2> QED
    BY ZenonT(60), <2>2, <2>3, <2>4, <2>7, <2>8, <2>9, LoopStep
<1> QED
  BY SMTT(60), <1>a, <1>b

-----------------------------------------------------------------------------
(* Main                                                                    *)

\* A thread begins with an inventory: alone, or the param is shared from now on.
LEMMA InventoryInv ==
  ASSUME Inv, NEW g \in Page, NEW P \in SUBSET Purchase, onQueryInventoryFinished(g, P),
         posts # <<>>, posts' = Tail(posts), NoFault,
         UNCHANGED <<open, helperVars, param, orderVars, user, storeVars, crash>>
  PROVE  Inv'
<1> Typed
  BY DEF Inv
<1>1. HelperType' /\ OrderType' /\ StoreType' /\ EndType'
  BY Frame DEF helperVars, orderVars
<1>2. PostType' /\ (PostTold => PostTold')
  BY Taken DEF Typed, storeVars
<1>3. ~shared => OpTold' /\ EnsureTold' /\ (consumed \subseteq credited)'
  BY ToldFrame DEF Inv, Told, helperVars, orderVars, storeVars
<1>4. CASE UNCHANGED <<loops, shared>>
  <2>1. LoopType' /\ (~shared => LoopTold')
    BY <1>4, Frame, ToldFrame DEF Inv, Told, loopVars, storeVars
  <2> QED
    BY SMTT(60), <1>1, <1>2, <1>3, <1>4, <2>1 DEF Inv, Typed, Told
<1>5. CASE ~UNCHANGED <<loops, shared>>
  <2> DEFINE free == {t \in Thread : loops[g][t] = NoLoop}
             begun == [NoLoop EXCEPT !.at = "next", !.todo = P]
  <2>0. /\ g # Order /\ free # {} /\ shared' = (shared \/ free # Thread)
        /\ loops' = [loops EXCEPT ![g][CHOOSE t \in free : TRUE] = begun]
    BY <1>5 DEF onQueryInventoryFinished, GoesThrough
  <2>1. PICK t \in free : loops' = [loops EXCEPT ![g] = [loops[g] EXCEPT ![t] = begun]]
    BY ZenonT(60), <2>0
  <2>2. t \in Thread /\ loops[g][t] = NoLoop
    BY <2>1
  <2>3. begun \in Loop /\ begun.at = "next"
    BY ZenonT(60) DEF NoLoop, Loop
  <2> HIDE DEF begun
  <2>4. \A h \in Page : \A u \in Thread :
          loops'[h][u] = IF h = g /\ u = t THEN begun ELSE loops[h][u]
    BY <2>1, <2>2 DEF Typed, LoopType
  <2>5. loops' \in [Page -> [Thread -> Loop]]
    BY SMTT(60), <2>1, <2>2, <2>3 DEF Typed, LoopType
  <2>6. \A u \in Thread : loops'[Order][u] = NoLoop
    BY ZenonT(60), <2>0, <2>4 DEF Page, Typed, LoopType
  <2>7. LoopType'
    <3>1. shared' \in BOOLEAN /\ param' \in [Page -> Purchase \cup {"yes", "no"}]
      BY SMTT(60), <2>0 DEF Typed, LoopType
    <3>2. \A h \in Page : \A u \in Thread :
            /\ loops'[h][u].at \in {"take", "call", "answer", "read"} => loops'[h][u].p \in Purchase
            /\ loops'[h][u].at \in {"call", "answer"} => loops'[h][u].q \in Purchase
      <4> TAKE h \in Page
      <4> TAKE u \in Thread
      <4>1. CASE h = g /\ u = t
        BY SMTT(60), <2>3, <2>4, <4>1
      <4>2. CASE ~(h = g /\ u = t)
        BY ZenonT(60), <2>4, <4>2 DEF Typed, LoopType
      <4> QED
        BY ZenonT(60), <4>1, <4>2
    <3> QED
      BY ZenonT(60), <2>5, <2>6, <3>1, <3>2 DEF LoopType
  <2>8. ASSUME ~shared' PROVE ~shared /\ LoopTold'
    <3>1. ~shared /\ LoopTold /\ \A u \in Thread : loops[g][u] = NoLoop
      BY ZenonT(60), <2>0, <2>8 DEF Inv, Told
    <3>2. credited' = credited /\ param' = param
      BY DEF storeVars
    <3> SUFFICES ASSUME NEW h \in Page, NEW u \in Thread
                 PROVE  /\ \A w \in Thread : loops'[h][u] # NoLoop /\ loops'[h][w] # NoLoop => u = w
                        /\ loops'[h][u].at = "take" => param'[h] = loops'[h][u].p
                        /\ loops'[h][u].at \in {"call", "answer"} =>
                             loops'[h][u].q = loops'[h][u].p /\ param'[h] = "no"
                        /\ loops'[h][u].at = "answer" => loops'[h][u].p \in credited'
                        /\ loops'[h][u].at = "read" =>
                             /\ param'[h] \in {"yes", "no"}
                             /\ param'[h] = "yes" => loops'[h][u].p \in credited'
      BY ZenonT(60), <3>1 DEF LoopTold
    <3>3. CASE h # g
      <4>1. \A w \in Thread : loops'[h][w] = loops[h][w]
        BY <2>4, <3>3
      <4> QED
        BY ZenonT(60), <3>1, <3>2, <4>1, SameTold
    <3>4. CASE h = g
      <4>1. loops'[h][u] = NoLoop \/ (u = t /\ loops'[h][u] = begun)
        BY ZenonT(60), <2>4, <3>1, <3>4
      <4>2. \A w \in Thread : loops'[h][w] # NoLoop => w = t
        BY <2>4, <3>1, <3>4
      <4>3. loops'[h][u].at \in {"idle", "next"}
        BY <2>3, <4>1, Idle
      <4>4. \A w \in Thread : loops'[h][u] # NoLoop /\ loops'[h][w] # NoLoop => u = w
        BY ZenonT(60), <4>2
      <4> QED
        BY ZenonT(60), <4>3, <4>4
    <3> QED
      BY ZenonT(60), <3>3, <3>4
  <2> QED
    BY <1>1, <1>2, <1>3, <2>7, <2>8 DEF Inv, Typed, Told
<1> QED
  BY <1>4, <1>5

LEMMA ConsumeAsyncInv ==
  ASSUME Inv, NEW g \in Page, NEW P \in SUBSET Purchase, consumeAsync(g, P),
         posts # <<>>, NoFault, PostTold => P \subseteq credited
  PROVE  Inv'
<1> Typed
  BY DEF Inv
<1>a. CASE Crash("disposed") \/ Crash("async")
  BY SMTT(60), <1>a, CrashInv DEF Why
<1>b. CASE ~(Crash("disposed") \/ Crash("async"))
  <2>0. /\ op' = [op EXCEPT ![g] = "consume"] /\ inv' = [inv EXCEPT ![g] = P]
        /\ posts' = Tail(posts)
        /\ UNCHANGED <<open, setup, loopVars, orderVars, user, storeVars, crash>>
    BY <1>b DEF consumeAsync
  <2>1. HelperType'
    BY <2>0 DEF Typed, HelperType, Operation
  <2>2. LoopType' /\ OrderType' /\ StoreType' /\ EndType'
    BY <2>0, Frame DEF orderVars
  <2>3. PostType' /\ (PostTold => PostTold')
    BY SMTT(60), <2>0, Taken DEF Typed, storeVars
  <2>4. OpTold /\ PostTold => OpTold'
    BY SMTT(60), <2>0 DEF OpTold, Typed, HelperType, storeVars
  <2>5. ~shared => LoopTold' /\ EnsureTold' /\ (consumed \subseteq credited)'
    BY <2>0, ToldFrame DEF Inv, Told, storeVars, loopVars, orderVars
  <2> QED
    BY <2>0, <2>1, <2>2, <2>3, <2>4, <2>5 DEF Inv, Typed, Told, loopVars
<1> QED
  BY <1>a, <1>b

LEMMA RunPostInv ==
  ASSUME Inv, runPost
  PROVE  Inv'
<1> DEFINE r == Head(posts)
<1>1. PostType /\ posts # <<>> /\ NoFault
  BY DEF Inv, Typed, runPost
<1>2. r \in Post /\ (PostTold /\ r.kind # "inventory" => r.inv \subseteq credited)
  BY <1>1, FirstPost
<1>3. r.page \in Page /\ r.inv \in SUBSET Purchase
  BY SMTT(60), <1>2 DEF Post
<1>4. CASE r.kind = "inventory"
  BY ZenonT(60), <1>1, <1>3, <1>4, InventoryInv DEF runPost
<1>5. CASE r.kind # "inventory"
  <2>1. consumeAsync(r.page, r.inv)
    BY <1>5 DEF runPost
  <2>2. PostTold => r.inv \subseteq credited
    BY <1>2, <1>5
  <2> HIDE DEF r
  <2> QED
    BY <1>1, <1>3, <2>1, <2>2, ConsumeAsyncInv
<1> QED
  BY <1>4, <1>5

-----------------------------------------------------------------------------
(* The theorems                                                            *)

LEMMA NextInv ==
  ASSUME Inv, [Next]_vars
  PROVE  Inv'
<1>1. ASSUME NEW g \in Account, openAccount(g) PROVE Inv'
  BY <1>1, OpenAccountInv
<1>2. CASE openOrder \/ getOrder
  BY <1>2, OrderPageInv
<1>3. CASE pay \/ decide \/ onActivityResult
  BY <1>3, PayInv, DecideInv, ResultInv
<1>4. ASSUME NEW g \in Page, onDestroy(g) \/ onServiceConnected(g) \/ onServiceDisconnected(g)
      PROVE  Inv'
  BY <1>4, OnDestroyInv, ServiceInv
<1>5. ASSUME NEW g \in Page, Helper(g) PROVE Inv'
  BY <1>5, QueryInv, DetailsInv, ConsumeInv DEF Helper
<1>6. ASSUME NEW g \in Page, Goes(g) PROVE Inv'
  BY <1>6, PutInv, TakeInv, EnsureInv, AnswerInv, ReadInv DEF Goes
<1>7. CASE Success
  BY <1>7, SuccessInv DEF Success
<1>8. CASE runPost
  BY <1>8, RunPostInv
<1>9. CASE setCurrentUser \/ Kill
  BY <1>9, UserInv
<1>10. CASE UNCHANGED vars
  <2> USE <1>10 DEF vars, helperVars, loopVars, orderVars, storeVars
  <2>1. Typed'
    BY Frame DEF Inv, Typed, NoFault
  <2>2. Told'
    BY ToldFrame DEF Inv, Told
  <2> QED
    BY SMTT(60), <2>1, <2>2 DEF Inv
<1> QED
  BY <1>1, <1>2, <1>3, <1>4, <1>5, <1>6, <1>7, <1>8, <1>9, <1>10 DEF Next

\* Every variable keeps its type: only the account page goes through an inventory, and
\* the store never holds a purchase as owned and consumed.
THEOREM TypeCorrect == Spec => []TypeOK
<1>1. Init => Inv
  BY InitInv
<1>2. Inv /\ [Next]_vars => Inv'
  BY NextInv
<1>3. Inv => TypeOK
  BY TypedIsTypeOK DEF Inv
<1> QED
  BY <1>1, <1>2, <1>3, PTL DEF Spec

\* Both consumeAsync calls come after ensurePayment for the same purchase, for any number
\* of pages, purchases, users and faults, unless two threads have shared one param.
THEOREM ConsumedAreCredited == Spec => []ConsumedIsCredited
<1>1. Init => Inv
  BY InitInv
<1>2. Inv /\ [Next]_vars => Inv'
  BY NextInv
<1>3. Inv => ConsumedIsCredited
  BY DEF Inv, Told, ConsumedIsCredited
<1> QED
  BY <1>1, <1>2, <1>3, PTL DEF Spec

=============================================================================
