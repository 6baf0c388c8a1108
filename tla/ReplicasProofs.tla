--------------------------- MODULE ReplicasProofs ---------------------------
(***************************************************************************)
(* Proofs about Replicas, for any threads, copies and bounds, tasks left   *)
(* behind or not: views are private, no retirement is lost, and what has   *)
(* gone holds nothing.  Privacy rests on the original: its entry is never  *)
(* released, so the one document thread that claimed it keeps its claim    *)
(* until it is dead, and nobody is offered it meanwhile.                   *)
(***************************************************************************)
EXTENDS Replicas, DataInduction

(* What TypeOK leaves open, of tasks and views.                            *)
Shape ==
    /\ lock \in Threads \cup {Free}
    /\ task \in [Threads -> [by : Documents \cup {"none"}, key : Bindings \cup {"none"}, lease : Nat]]
    /\ cache \in [Threads -> [Bindings -> [view : Bindings \cup {"none"}, met : Nat]]]
    /\ \A t \in Threads, k \in Bindings : cache[t][k] # NoView => cache[t][k].view \in minted \cup {Original}

(* Where a live thread can be, where an exited one, that whoever parses,   *)
(* or soon will, has a view, and that nobody alive is to be retired.       *)
Stations ==
    /\ \A t \in Threads :
        /\ pc[t] \in {"idle", "view", "register", "claim", "parse"} => t \in alive
        /\ pc[t] \in {"exited", "gone"} => t \notin alive
        /\ pc[t] = "register" => t \in Workers
    /\ \A t \in alive :
        pc[t] \in {"parse", "drain", "release", "recheck", "try"} => cache[t][Key(t)] # NoView
    /\ ToSet(queue) \cap alive = {}

(* What a claim may be of; and the original, never released, is claimed by *)
(* one document thread at most.                                            *)
Claimable ==
    /\ parent[Original] = "none"
    /\ \A k \in Bindings \ entries : held[k] = {}
    /\ \A k \in Bindings : \A h \in held[k] : h[2] \in Copies \/ (k = Original /\ h[2] = Original)
    /\ \A h, g \in held[Original] : h[2] = Original /\ g[2] = Original => h[1] = g[1]

(* An own view is a copy made before, or the original under a claim.       *)
Owns(t, k) == cache[t][k] # NoView /\ cache[t][k].met = 0

(* What a busy thread is at: a worker a chunk of some split, a document    *)
(* thread the document, or a chunk it took back, through the copy it owns  *)
(* in the original's place.  A pair with a view is registered: the         *)
(* original's entry is never released.                                     *)
Busy ==
    /\ \A t \in alive : pc[t] # "idle" => task[t].key \in minted \cup {Original}
    /\ \A w \in Workers \cap alive : pc[w] # "idle" => task[w].lease # 0
    /\ \A d \in Documents \cap alive : pc[d] # "idle" =>
        \/ task[d].key = Original
        \/ Owns(d, Original) /\ cache[d][Original].view = task[d].key
    /\ \A d \in Documents, k \in Bindings : cache[d][k].met = 0
    /\ \A t \in Threads : cache[t][Original] # NoView => Original \in entries

Custody ==
    /\ \A t \in Threads, k \in Bindings : Owns(t, k) =>
        /\ t \in alive
        /\ \/ cache[t][k].view \in minted
           \/ cache[t][k].view = Original /\ <<t, Original>> \in held[Original]

(* Whoever has a claim is alive, or its retirement is still to come.       *)
Owed ==
    \A k \in Bindings : \A h \in held[k] :
        h[1] \in alive \/ pc[h[1]] = "exited" \/ h[1] \in ToSet(queue)

(* The inductive invariant.                                                *)
Inv ==
    /\ TypeOK /\ Shape /\ Stations /\ Busy /\ Claimable
    /\ Custody /\ PrivateViews /\ Owed /\ NoLostRetirement

-----------------------------------------------------------------------------
(* Dropping claims some entries have takes away only those and what was    *)
(* claimed under a released copy; the original's entry stays.              *)
LEMMA Drops ==
    ASSUME Inv, NEW claims \in SUBSET UNION {Claims(k) : k \in Bindings}
    PROVE  LET after == Dropped(claims) IN
           /\ after.entries \subseteq entries /\ after.tables \subseteq tables
           /\ Original \in entries => Original \in after.entries
           /\ after.parent \in [Bindings -> Bindings \cup {"none"}] /\ after.parent[Original] = "none"
           /\ after.held \in [Bindings -> SUBSET (Threads \X Bindings)]
           /\ \A k \in Bindings : after.held[k] \subseteq held[k]
           /\ \A k \in Bindings \ after.entries : after.held[k] = {}
           /\ \A k \in Bindings : \A h \in after.held[k] :
                 [key |-> k, owner |-> h[1], replica |-> h[2]] \notin claims
           /\ \A h \in held[Original] :
                 [key |-> Original, owner |-> h[1], replica |-> h[2]] \notin claims => h \in after.held[Original]
<1>. DEFINE gone == Expand({c.replica : c \in {x \in claims : x.replica # x.key}})
            left(k) == {h \in held[k] : [key |-> k, owner |-> h[1], replica |-> h[2]] \notin claims}
<1>1. \A c \in claims : \E k \in Bindings : \E h \in held[k] : c = [key |-> k, owner |-> h[1], replica |-> h[2]]
    BY DEF Claims
<1>2. \A c \in claims : c.replica # c.key => c.replica # Original
    BY <1>1, ReplicasAssumption DEF Inv, Claimable
<1>3. Original \notin gone
    <2>. DEFINE roots == {c.replica : c \in {x \in claims : x.replica # x.key}}
                children(Set) == {b \in Bindings : parent[b] \in Set}
    <2>1. roots \subseteq Bindings /\ Original \notin roots
        BY <1>1, <1>2 DEF Inv, TypeOK
    <2>2. \A Set \in SUBSET Bindings : children(Set) \subseteq Bindings /\ Original \notin children(Set)
        BY ReplicasAssumption DEF Inv, Claimable
    <2>3. gone = roots \cup children(roots) \cup children(children(roots))
        BY DEF Expand
    <2>. HIDE DEF roots, children
    <2>. QED BY <2>1, <2>2, <2>3
<1>. HIDE DEF gone
<1>4. Dropped(claims) = [entries |-> entries \ gone,
                         held    |-> [k \in Bindings |-> IF k \in gone THEN {} ELSE left(k)],
                         parent  |-> [b \in Bindings |-> IF b \in gone THEN "none" ELSE parent[b]],
                         tables  |-> tables \ gone]
    BY DEF Dropped, gone
<1>5. Original \in Bindings
    BY DEF Bindings
<1>. QED BY <1>3, <1>4, <1>5 DEF Inv, TypeOK, Claimable

LEMMA InitInv == Init => Inv
<1>. SUFFICES ASSUME Init PROVE Inv
    OBVIOUS
<1>1. TypeOK /\ Shape
    BY ReplicasAssumption DEF Init, TypeOK, Shape, Places, NoTask, NoView
<1>2. Stations /\ Claimable
    BY DEF Init, Stations, Claimable, Bindings, ToSet
<1>4. Busy
    <2>1. NoView.met = 0
        BY DEF NoView
    <2>2. \A t \in Threads, k \in Bindings : cache[t][k] = NoView
        BY DEF Init
    <2>3. \A t \in Threads : pc[t] = "idle"
        BY DEF Init
    <2>. QED BY <2>1, <2>2, <2>3 DEF Init, Busy, Bindings, Threads
<1>3. Custody /\ PrivateViews /\ Owed /\ NoLostRetirement
    BY DEF Init, Custody, Owns, PrivateViews, Own, Owed, NoLostRetirement
<1>. QED BY <1>1, <1>2, <1>3, <1>4 DEF Inv
-----------------------------------------------------------------------------
(* A thread that moves, and nobody else, gets to where it goes.            *)
LEMMA Moved ==
    ASSUME TypeOK, NEW t \in Threads, NEW here, NEW there \in Places, Goes(t, here, there)
    PROVE  /\ pc[t] = here /\ pc' \in [Threads -> Places]
           /\ pc'[t] = there /\ \A u \in Threads : u # t => pc'[u] = pc[u]
BY DEF TypeOK, Goes, At

(* A step that leaves the registry and the views alone.                    *)
LEMMA NothingMoves ==
    ASSUME Inv, UNCHANGED <<alive, cache, entries, held, parent, minted>>
    PROVE  Claimable' /\ Custody' /\ PrivateViews'
<1>1. Claimable'
    BY DEF Inv, Claimable
<1>2. Custody'
    BY DEF Inv, Custody, Owns
<1>3. \A t \in Threads : Own(t)' = Own(t)
    BY DEF Own
<1>4. PrivateViews'
    BY <1>3 DEF Inv, PrivateViews
<1>. QED BY <1>1, <1>2, <1>4

(* A step that starts nothing, and leaves the views alone.                 *)
LEMMA StillBusy ==
    ASSUME Inv, UNCHANGED <<alive, task, cache, entries, minted>>,
           \A t \in Threads : pc[t] = "idle" => pc'[t] = "idle"
    PROVE  Busy'
BY DEF Inv, TypeOK, Busy, Owns

(* A thread that starts on something it may be at.                         *)
LEMMA NowBusy ==
    ASSUME Inv, NEW t \in Threads, NEW item,
           item \in [by : Documents \cup {"none"}, key : Bindings \cup {"none"}, lease : Nat],
           item.key \in minted \cup {Original},
           t \in Workers => item.lease # 0,
           t \in Documents => item.key = Original \/ (cache[t][Original].view = item.key /\ cache[t][Original] # NoView),
           task' = [task EXCEPT ![t] = item],
           \A u \in Threads : u # t => pc'[u] = pc[u],
           UNCHANGED <<alive, cache, entries, minted>>
    PROVE  Busy' /\ task' \in [Threads -> [by : Documents \cup {"none"}, key : Bindings \cup {"none"}, lease : Nat]]
<1>1. /\ task' \in [Threads -> [by : Documents \cup {"none"}, key : Bindings \cup {"none"}, lease : Nat]]
      /\ task'[t] = item /\ \A u \in Threads : u # t => task'[u] = task[u]
    BY DEF Inv, Shape
<1>2. Documents \subseteq Threads /\ Workers \subseteq Threads /\ Original \in Bindings
    BY DEF Threads, Bindings
<1>3. alive \subseteq Threads
    BY DEF Inv, TypeOK
<1>4. \A d \in Documents : cache[d][Original].met = 0
    BY <1>2 DEF Inv, Busy
<1>5. \A u \in alive : pc'[u] # "idle" => task'[u].key \in minted' \cup {Original}
    BY <1>1, <1>3 DEF Inv, Busy
<1>6. \A w \in Workers \cap alive : pc'[w] # "idle" => task'[w].lease # 0
    BY <1>1, <1>2 DEF Inv, Busy
<1>7. ASSUME NEW d \in Documents \cap alive, pc'[d] # "idle"
      PROVE  \/ task'[d].key = Original
             \/ Owns(d, Original) /\ cache[d][Original].view = task'[d].key
    <2>1. CASE d = t
        BY <1>1, <1>4, <2>1 DEF Owns
    <2>2. CASE d # t
        BY <1>1, <1>2, <1>7, <2>2 DEF Inv, Busy
    <2>. QED BY <2>1, <2>2
<1>8. Busy'
    BY <1>5, <1>6, <1>7 DEF Inv, Busy, Owns
<1>. QED BY <1>1, <1>8

LEMMA AskDocumentInv ==
    ASSUME Inv, NEW d \in Documents, AskDocument(d) \/ TakeBack(d)
    PROVE  Inv'
<1>. USE DEF Inv
<1>1. "view" \in Places /\ d \in Threads /\ Original \in Bindings /\ (d \in Workers => FALSE)
    BY ReplicasAssumption DEF Places, Threads, Bindings
<1>2. /\ pc[d] = "idle" /\ pc' \in [Threads -> Places] /\ pc'[d] = "view"
      /\ \A u \in Threads : u # d => pc'[u] = pc[u]
    BY <1>1, Moved DEF AskDocument, TakeBack
<1>3. UNCHANGED <<alive, splits, cache, registry, lock, queue, host>>
    BY DEF AskDocument, TakeBack
<1>4. PICK k : /\ task' = [task EXCEPT ![d] = Item(d, k, 0)]
               /\ k = Original \/ (cache[d][Original].view = k /\ cache[d][Original] # NoView)
    BY DEF AskDocument, TakeBack
<1>5. k \in minted \cup {Original} /\ k \in Bindings /\ 0 \in Nat
    BY <1>1, <1>4 DEF Shape, TypeOK, Bindings
<1>6. /\ Busy'
      /\ task' \in [Threads -> [by : Documents \cup {"none"}, key : Bindings \cup {"none"}, lease : Nat]]
    <2>. DEFINE item == Item(d, k, 0)
    <2>1. item \in [by : Documents \cup {"none"}, key : Bindings \cup {"none"}, lease : Nat] /\ item.key = k
        BY <1>5 DEF Item
    <2>2. task' = [task EXCEPT ![d] = item]
        BY <1>4
    <2>. HIDE DEF item
    <2>. QED BY <1>1, <1>2, <1>3, <1>4, <1>5, <2>1, <2>2, NowBusy DEF registry
<1>7. TypeOK' /\ Shape'
    BY <1>2, <1>3, <1>6, ReplicasAssumption DEF registry, TypeOK, Shape
<1>8. Stations'
    <2>1. \A u \in Threads : u # d => Key(u)' = Key(u)
        BY <1>4 DEF Key, Shape
    <2>. QED BY <1>1, <1>2, <1>3, <2>1 DEF Stations, TypeOK
<1>9. Claimable' /\ Custody' /\ PrivateViews'
    BY <1>3, NothingMoves DEF registry
<1>10. Owed'
    BY <1>2, <1>3 DEF Owed, TypeOK, registry
<1>11. NoLostRetirement'
    BY <1>2, <1>3 DEF NoLostRetirement
<1>. QED BY <1>6, <1>7, <1>8, <1>9, <1>10, <1>11

LEMMA StartTaskInv ==
    ASSUME Inv, NEW w \in Workers, NEW d \in Documents, StartTask(w, d)
    PROVE  Inv'
<1>. USE DEF Inv
<1>1. "view" \in Places
    BY DEF Places, Done
<1>2. /\ pc[w] = "idle" /\ pc' \in [Threads -> Places] /\ pc'[w] = "view"
      /\ \A u \in Threads : u # w => pc'[u] = pc[u]
    BY <1>1, Moved DEF StartTask, Threads
<1>. DEFINE k == cache[d][Original].view
<1>0. /\ k \in minted \cup {Original} /\ k \in Bindings /\ splits[d] \in 1..MaxSplits /\ Documents \subseteq Threads
      /\ task' = [task EXCEPT ![w] = Item(d, k, splits[d])]
    BY DEF StartTask, Shape, TypeOK, Threads, Bindings
<1>. HIDE DEF k
<1>9. /\ Busy'
      /\ task' \in [Threads -> [by : Documents \cup {"none"}, key : Bindings \cup {"none"}, lease : Nat]]
    <2>. DEFINE item == Item(d, k, splits[d])
    <2>1. /\ item \in [by : Documents \cup {"none"}, key : Bindings \cup {"none"}, lease : Nat]
          /\ item.key \in minted \cup {Original} /\ item.lease # 0
        BY <1>0, ReplicasAssumption DEF Item
    <2>2. task' = [task EXCEPT ![w] = item]
        BY <1>0
    <2>3. w \in Threads /\ w \notin Documents
        BY ReplicasAssumption DEF Threads
    <2>4. UNCHANGED <<alive, cache, entries, minted>>
        BY DEF StartTask, registry
    <2>. HIDE DEF item
    <2>. QED BY <1>2, <2>1, <2>2, <2>3, <2>4, NowBusy
<1>3. TypeOK'
    BY <1>2, <1>9, ReplicasAssumption DEF StartTask, registry, TypeOK
<1>4. Shape'
    BY <1>9 DEF StartTask, registry, Shape
<1>5. Stations'
    <2>1. \A u \in Threads : u # w => Key(u)' = Key(u)
        BY <1>0, <1>2 DEF Key, Shape, Threads
    <2>3. w \in Threads /\ w \in alive
        BY <1>2 DEF Stations, Threads
    <2>4. /\ alive' = alive /\ alive \subseteq Threads /\ cache' = cache
          /\ queue' = queue
        BY DEF StartTask, registry, TypeOK
    <2>. QED BY <1>2, <2>1, <2>3, <2>4 DEF Stations
<1>6. Claimable' /\ Custody' /\ PrivateViews'
    BY NothingMoves DEF StartTask, registry
<1>7. Owed'
    BY <1>2 DEF StartTask, Owed, TypeOK, registry
<1>8. NoLostRetirement'
    BY <1>2 DEF StartTask, NoLostRetirement, TypeOK, Done
<1>. QED BY <1>3, <1>4, <1>5, <1>6, <1>7, <1>8, <1>9

LEMMA NextSplitInv ==
    ASSUME Inv, NEW d \in Documents, NextSplit(d)
    PROVE  Inv'
<1>. USE DEF Inv
<1>2. UNCHANGED pc
    BY DEF NextSplit
<1>3. TypeOK'
    BY <1>2, ReplicasAssumption DEF NextSplit, registry, TypeOK, NoTask, Done
<1>4. Shape'
    BY <1>2, ReplicasAssumption DEF NextSplit, registry, TypeOK, Shape, NoTask
<1>5. Stations'
    BY <1>2, ReplicasAssumption DEF NextSplit, registry, TypeOK, Shape, Stations, Key, NoTask, Done
<1>9. Busy'
    BY <1>2, StillBusy DEF NextSplit, registry
<1>6. Claimable' /\ Custody' /\ PrivateViews'
    BY NothingMoves DEF NextSplit, registry
<1>7. Owed'
    BY <1>2 DEF NextSplit, Owed, TypeOK, registry
<1>8. NoLostRetirement'
    BY <1>2 DEF NextSplit, NoLostRetirement, TypeOK, Done
<1>. QED BY <1>3, <1>4, <1>5, <1>6, <1>7, <1>8, <1>9

LEMMA CachedInv ==
    ASSUME Inv, NEW t \in Threads, Cached(t)
    PROVE  Inv'
<1>. USE DEF Inv
<1>1. "parse" \in Places
    BY DEF Places, Done
<1>2. /\ pc[t] = "view" /\ pc' \in [Threads -> Places] /\ pc'[t] = "parse"
      /\ \A u \in Threads : u # t => pc'[u] = pc[u]
    BY <1>1, Moved DEF Cached, Threads
<1>3. TypeOK'
    BY <1>2, ReplicasAssumption DEF Cached, registry, TypeOK, NoTask, Done
<1>4. Shape'
    BY <1>2, ReplicasAssumption DEF Cached, registry, TypeOK, Shape, NoTask
<1>5. Stations'
    BY <1>2, ReplicasAssumption DEF Cached, registry, TypeOK, Shape, Stations, Key, Hit
<1>9. Busy'
    BY <1>2, StillBusy DEF Cached, registry
<1>6. Claimable' /\ Custody' /\ PrivateViews'
    BY NothingMoves DEF Cached, registry
<1>7. Owed'
    BY <1>2 DEF Cached, Owed, TypeOK, registry
<1>8. NoLostRetirement'
    BY <1>2 DEF Cached, NoLostRetirement, TypeOK, Done
<1>. QED BY <1>3, <1>4, <1>5, <1>6, <1>7, <1>8, <1>9

LEMMA DrainedInv ==
    ASSUME Inv, NEW t \in Threads, Drained(t)
    PROVE  Inv'
<1>. USE DEF Inv
<1>1. "release" \in Places
    BY DEF Places, Done
<1>2. /\ pc[t] = "drain" /\ pc' \in [Threads -> Places] /\ pc'[t] = "release"
      /\ \A u \in Threads : u # t => pc'[u] = pc[u]
    BY <1>1, Moved DEF Drained, Threads
<1>3. TypeOK'
    BY <1>2, ReplicasAssumption DEF Drained, registry, TypeOK, NoTask, Done
<1>4. Shape'
    BY <1>2, ReplicasAssumption DEF Drained, registry, TypeOK, Shape, NoTask
<1>5. Stations'
    BY <1>2, ReplicasAssumption DEF Drained, registry, TypeOK, Shape, Stations, Key, NoTask, Done
<1>9. Busy'
    BY <1>2, StillBusy DEF Drained, registry
<1>6. Claimable' /\ Custody' /\ PrivateViews'
    BY NothingMoves DEF Drained, registry
<1>7. Owed'
    BY <1>2 DEF Drained, Owed, TypeOK, registry
<1>8. NoLostRetirement'
    BY <1>2 DEF Drained, NoLostRetirement, TypeOK, Done
<1>. QED BY <1>3, <1>4, <1>5, <1>6, <1>7, <1>8, <1>9

LEMMA LetGoInv ==
    ASSUME Inv, NEW t \in Threads, LetGo(t)
    PROVE  Inv'
<1>. USE DEF Inv
<1>1. "recheck" \in Places
    BY DEF Places, Done
<1>2. /\ pc[t] = "release" /\ pc' \in [Threads -> Places] /\ pc'[t] = "recheck"
      /\ \A u \in Threads : u # t => pc'[u] = pc[u]
    BY <1>1, Moved DEF LetGo, Threads
<1>3. TypeOK'
    BY <1>2, ReplicasAssumption DEF LetGo, registry, TypeOK, NoTask, Done
<1>4. Shape'
    BY <1>2, ReplicasAssumption DEF LetGo, registry, TypeOK, Shape, NoTask
<1>5. Stations'
    BY <1>2, ReplicasAssumption DEF LetGo, registry, TypeOK, Shape, Stations, Key, NoTask, Done
<1>9. Busy'
    BY <1>2, StillBusy DEF LetGo, registry
<1>6. Claimable' /\ Custody' /\ PrivateViews'
    BY NothingMoves DEF LetGo, registry
<1>7. Owed'
    BY <1>2 DEF LetGo, Owed, TypeOK, registry
<1>8. NoLostRetirement'
    BY <1>2 DEF LetGo, NoLostRetirement, TypeOK, Done
<1>. QED BY <1>3, <1>4, <1>5, <1>6, <1>7, <1>8, <1>9

LEMMA RecheckInv ==
    ASSUME Inv, NEW t \in Threads, Recheck(t)
    PROVE  Inv'
<1>. USE DEF Inv
<1>1. (IF queue # <<>> THEN "try" ELSE Done(t)) \in Places
    BY DEF Places, Done
<1>2. /\ pc[t] = "recheck" /\ pc' \in [Threads -> Places] /\ pc'[t] = (IF queue # <<>> THEN "try" ELSE Done(t))
      /\ \A u \in Threads : u # t => pc'[u] = pc[u]
    BY <1>1, Moved DEF Recheck, Threads
<1>3. TypeOK'
    BY <1>2, ReplicasAssumption DEF Recheck, registry, TypeOK, NoTask, Done
<1>4. Shape'
    BY <1>2, ReplicasAssumption DEF Recheck, registry, TypeOK, Shape, NoTask
<1>5. Stations'
    BY <1>2, ReplicasAssumption DEF Recheck, registry, TypeOK, Shape, Stations, Key, NoTask, Done
<1>9. Busy'
    BY <1>2, StillBusy DEF Recheck, registry
<1>6. Claimable' /\ Custody' /\ PrivateViews'
    BY NothingMoves DEF Recheck, registry
<1>7. Owed'
    BY <1>2 DEF Recheck, Owed, TypeOK, registry
<1>8. NoLostRetirement'
    BY <1>2 DEF Recheck, NoLostRetirement, TypeOK, Done
<1>. QED BY <1>3, <1>4, <1>5, <1>6, <1>7, <1>8, <1>9

LEMMA TryInv ==
    ASSUME Inv, NEW t \in Threads, Try(t)
    PROVE  Inv'
<1>. USE DEF Inv
<1>1. (IF lock = Free THEN "drain" ELSE Done(t)) \in Places
    BY DEF Places, Done
<1>2. /\ pc[t] = "try" /\ pc' \in [Threads -> Places] /\ pc'[t] = (IF lock = Free THEN "drain" ELSE Done(t))
      /\ \A u \in Threads : u # t => pc'[u] = pc[u]
    BY <1>1, Moved DEF Try, Threads
<1>3. TypeOK'
    BY <1>2, ReplicasAssumption DEF Try, registry, TypeOK, NoTask, Done
<1>4. Shape'
    BY <1>2, ReplicasAssumption DEF Try, registry, TypeOK, Shape, NoTask
<1>5. Stations'
    BY <1>2, ReplicasAssumption DEF Try, registry, TypeOK, Shape, Stations, Key, NoTask, Done
<1>9. Busy'
    BY <1>2, StillBusy DEF Try, registry
<1>6. Claimable' /\ Custody' /\ PrivateViews'
    BY NothingMoves DEF Try, registry
<1>7. Owed'
    BY <1>2 DEF Try, Owed, TypeOK, registry
<1>8. NoLostRetirement'
    <2>1. CASE lock = Free
        BY <1>2, <2>1 DEF Try, NoLostRetirement
    <2>2. CASE lock # Free
        <3>1. lock \in Threads /\ pc[lock] \in {"drain", "release"} /\ lock # t
            BY <1>2, <2>2 DEF Shape, TypeOK
        <3>. QED BY <1>2, <3>1 DEF NoLostRetirement
    <2>. QED BY <2>1, <2>2
<1>. QED BY <1>3, <1>4, <1>5, <1>6, <1>7, <1>8, <1>9

LEMMA EndParseInv ==
    ASSUME Inv, NEW t \in Threads, EndParse(t)
    PROVE  Inv'
<1>. USE DEF Inv
<1>1. "idle" \in Places
    BY DEF Places, Done
<1>2. /\ pc[t] = "parse" /\ pc' \in [Threads -> Places] /\ pc'[t] = "idle"
      /\ \A u \in Threads : u # t => pc'[u] = pc[u]
    BY <1>1, Moved DEF EndParse, Threads
<1>0. /\ task' \in [Threads -> [by : Documents \cup {"none"}, key : Bindings \cup {"none"}, lease : Nat]]
      /\ \A u \in Threads : u # t => task'[u] = task[u]
    <2>1. NoTask \in [by : Documents \cup {"none"}, key : Bindings \cup {"none"}, lease : Nat]
        BY DEF NoTask
    <2>2. task' = [task EXCEPT ![t] = NoTask]
        BY DEF EndParse
    <2>. QED BY <2>1, <2>2 DEF Shape
<1>3. TypeOK'
    BY <1>0, <1>2, ReplicasAssumption DEF EndParse, registry, TypeOK
<1>4. Shape'
    BY <1>0 DEF EndParse, registry, Shape
<1>5. Stations'
    <2>1. \A u \in Threads : u # t => Key(u)' = Key(u)
        BY <1>0 DEF Key
    <2>. QED BY <1>2, <2>1 DEF EndParse, registry, TypeOK, Stations
<1>9. Busy'
    <2>1. \A u \in alive : u \in Threads
        BY DEF TypeOK
    <2>. QED BY <1>0, <1>2, <2>1 DEF EndParse, registry, Busy, Owns
<1>6. Claimable' /\ Custody' /\ PrivateViews'
    BY NothingMoves DEF EndParse, registry
<1>7. Owed'
    BY <1>2 DEF EndParse, Owed, TypeOK, registry
<1>8. NoLostRetirement'
    BY <1>2 DEF EndParse, NoLostRetirement, TypeOK, Done
<1>. QED BY <1>3, <1>4, <1>5, <1>6, <1>7, <1>8, <1>9

LEMMA TouchInv ==
    ASSUME Inv, NEW t \in Threads, Touch(t)
    PROVE  Inv'
<1>. USE DEF Inv
<1>2. UNCHANGED pc
    BY DEF Touch
<1>0. View(t) \in Bindings
    BY DEF Touch, At, View, Key, Stations, Busy, Shape, Threads, Bindings, TypeOK
<1>3. TypeOK'
    BY <1>0, <1>2, ReplicasAssumption DEF Touch, registry, TypeOK, NoTask, Done
<1>4. Shape'
    BY <1>2, ReplicasAssumption DEF Touch, registry, TypeOK, Shape, NoTask
<1>5. Stations'
    BY <1>2, ReplicasAssumption DEF Touch, registry, TypeOK, Shape, Stations, Key, NoTask, Done
<1>9. Busy'
    BY <1>2, StillBusy DEF Touch, registry
<1>6. Claimable' /\ Custody' /\ PrivateViews'
    BY NothingMoves DEF Touch, registry
<1>7. Owed'
    BY <1>2 DEF Touch, Owed, TypeOK, registry
<1>8. NoLostRetirement'
    BY <1>2 DEF Touch, NoLostRetirement, TypeOK, Done
<1>. QED BY <1>3, <1>4, <1>5, <1>6, <1>7, <1>8, <1>9


-----------------------------------------------------------------------------
(* Pruning takes views away and gives none.                                *)
LEMMA Prunes ==
    ASSUME Inv, NEW t \in Threads, cache' = [cache EXCEPT ![t] = Pruned(t)],
           UNCHANGED <<alive, held, minted>>
    PROVE  /\ cache' \in [Threads -> [Bindings -> [view : Bindings \cup {"none"}, met : Nat]]]
           /\ \A u \in Threads, k \in Bindings : cache'[u][k] # NoView => cache'[u][k] = cache[u][k]
           /\ \A u \in Threads : u # t => cache'[u] = cache[u]
           /\ Original \in entries => \A u \in Threads : cache'[u][Original] = cache[u][Original]
           /\ Custody' /\ PrivateViews'
<1>. USE DEF Inv
<1>1. Pruned(t) \in [Bindings -> [view : Bindings \cup {"none"}, met : Nat]]
    BY DEF Pruned, Shape, NoView
<1>2. \A k \in Bindings : Pruned(t)[k] # NoView => Pruned(t)[k] = cache[t][k]
    BY DEF Pruned
<1>3. /\ cache' \in [Threads -> [Bindings -> [view : Bindings \cup {"none"}, met : Nat]]]
      /\ \A u \in Threads : u # t => cache'[u] = cache[u]
      /\ cache'[t] = Pruned(t)
    BY <1>1 DEF Shape
<1>4. \A u \in Threads, k \in Bindings : cache'[u][k] # NoView => cache'[u][k] = cache[u][k]
    BY <1>2, <1>3
<1>5. Custody'
    BY <1>4 DEF Custody, Owns
<1>6. \A u \in Threads : Own(u)' \subseteq Own(u)
    BY <1>4 DEF Own
<1>7. PrivateViews'
    BY <1>6 DEF PrivateViews
<1>8. Original \in entries => \A u \in Threads : cache'[u][Original] = cache[u][Original]
    BY <1>3 DEF Pruned, Bindings
<1>. QED BY <1>3, <1>4, <1>5, <1>7, <1>8

LEMMA ResolveInv ==
    ASSUME Inv, NEW t \in Threads, Resolve(t)
    PROVE  Inv'
<1>. USE DEF Inv
<1>. DEFINE there == IF t \in Workers /\ Pruned(t)[Key(t)] = NoView THEN "register" ELSE "claim"
<1>1. there \in Places
    BY DEF Places
<1>2. /\ pc[t] = "view" /\ pc' \in [Threads -> Places] /\ pc'[t] = there
      /\ \A u \in Threads : u # t => pc'[u] = pc[u]
    BY <1>1, Moved DEF Resolve
<1>3. /\ cache' \in [Threads -> [Bindings -> [view : Bindings \cup {"none"}, met : Nat]]]
      /\ \A u \in Threads, k \in Bindings : cache'[u][k] # NoView => cache'[u][k] = cache[u][k]
      /\ \A u \in Threads : u # t => cache'[u] = cache[u]
      /\ Original \in entries => \A u \in Threads : cache'[u][Original] = cache[u][Original]
      /\ Custody' /\ PrivateViews'
    BY Prunes DEF Resolve, registry
<1>4. TypeOK'
    <2>1. \A u \in Threads, k \in Bindings : cache'[u][k].view \in Bindings \cup {"none"}
        BY <1>3
    <2>. QED BY <1>2, <2>1 DEF Resolve, registry, TypeOK
<1>5. Shape'
    BY <1>2, <1>3 DEF Resolve, registry, Shape
<1>6. Stations'
    <2>1. \A u \in Threads : Key(u)' = Key(u)
        BY DEF Resolve, Key
    <2>. QED BY <1>2, <1>3, <2>1 DEF Resolve, registry, Stations, TypeOK
<1>10. Busy'
    <2>1. \A u \in Threads : cache'[u][Original] # NoView => Original \in entries
        BY <1>3 DEF Busy, Bindings
    <2>2. \A d \in Documents \cap alive : Owns(d, Original) => cache'[d][Original] = cache[d][Original]
        BY <1>3 DEF Busy, Owns, TypeOK
    <2>3. \A d \in Documents, k \in Bindings : cache'[d][k].met = 0
        <3>1. NoView.met = 0
            BY DEF NoView
        <3>. QED BY <1>3, <3>1 DEF Busy, Threads
    <2>. QED BY <1>2, <2>1, <2>2, <2>3 DEF Resolve, registry, Busy, Owns, TypeOK
<1>7. Claimable'
    BY DEF Resolve, registry, Claimable
<1>8. Owed'
    BY <1>2 DEF Resolve, registry, Owed, TypeOK
<1>9. NoLostRetirement'
    BY <1>2 DEF Resolve, NoLostRetirement
<1>. QED BY <1>3, <1>4, <1>5, <1>6, <1>7, <1>8, <1>9, <1>10

LEMMA WarmInv ==
    ASSUME Inv, NEW w \in Workers, NEW d \in Documents, Warm(w, d)
    PROVE  Inv'
<1>. USE DEF Inv
<1>. DEFINE k == cache[d][Original].view
<1>1. "claim" \in Places /\ w \in Threads
    BY DEF Places, Threads
<1>2. /\ pc[w] = "idle" /\ pc' \in [Threads -> Places] /\ pc'[w] = "claim"
      /\ \A u \in Threads : u # w => pc'[u] = pc[u]
    BY <1>1, Moved DEF Warm
<1>3. /\ cache' \in [Threads -> [Bindings -> [view : Bindings \cup {"none"}, met : Nat]]]
      /\ \A u \in Threads, b \in Bindings : cache'[u][b] # NoView => cache'[u][b] = cache[u][b]
      /\ \A u \in Threads : u # w => cache'[u] = cache[u]
      /\ Original \in entries => \A u \in Threads : cache'[u][Original] = cache[u][Original]
      /\ Custody' /\ PrivateViews'
    BY <1>1, Prunes DEF Warm, registry
<1>4. /\ k \in minted \cup {Original} /\ k \in Bindings /\ splits[d] \in 1..MaxSplits
      /\ task' = [task EXCEPT ![w] = Item(d, k, splits[d])]
    BY DEF Warm, Shape, TypeOK, Threads, Bindings
<1>. HIDE DEF k
<1>11. /\ task' \in [Threads -> [by : Documents \cup {"none"}, key : Bindings \cup {"none"}, lease : Nat]]
       /\ task'[w].key = k /\ task'[w].lease # 0
       /\ \A u \in Threads : u # w => task'[u] = task[u]
    <2>. DEFINE item == Item(d, k, splits[d])
    <2>1. /\ item \in [by : Documents \cup {"none"}, key : Bindings \cup {"none"}, lease : Nat]
          /\ item.key = k /\ item.lease # 0
        BY <1>4, ReplicasAssumption DEF Item
    <2>2. task' = [task EXCEPT ![w] = item]
        BY <1>4
    <2>. HIDE DEF item
    <2>. QED BY <1>1, <2>1, <2>2 DEF Shape
<1>5. TypeOK'
    <2>1. \A t \in Threads, b \in Bindings : cache'[t][b].view \in Bindings \cup {"none"}
        BY <1>3
    <2>2. \A u \in Threads : task'[u].key \in Bindings \cup {"none"}
        BY <1>11
    <2>. QED BY <1>1, <1>2, <2>1, <2>2 DEF Warm, registry, TypeOK
<1>6. Shape'
    BY <1>3, <1>11 DEF Warm, registry, Shape
<1>7. Stations'
    <2>1. \A u \in Threads : u # w => Key(u)' = Key(u)
        BY <1>11 DEF Key
    <2>2. w \in alive
        BY <1>1, <1>2 DEF Stations
    <2>. QED BY <1>1, <1>2, <1>3, <2>1, <2>2 DEF Warm, registry, TypeOK, Stations
<1>12. Busy'
    <2>1. \A u \in Threads : cache'[u][Original] # NoView => Original \in entries
        BY <1>3 DEF Busy, Bindings
    <2>2. \A e \in Documents : e # w /\ e \in Threads /\ cache'[e] = cache[e]
        BY <1>3, ReplicasAssumption DEF Threads
    <2>3. UNCHANGED <<alive, entries, minted>> /\ \A u \in alive \cup Workers : u \in Threads
        BY DEF Warm, registry, TypeOK, Threads
    <2>4. \A u \in alive : pc'[u] # "idle" => task'[u].key \in minted \cup {Original}
        BY <1>2, <1>4, <1>11, <2>3 DEF Busy
    <2>5. \A u \in Workers \cap alive : pc'[u] # "idle" => task'[u].lease # 0
        BY <1>2, <1>11, <2>3 DEF Busy
    <2>6. ASSUME NEW e \in Documents \cap alive, pc'[e] # "idle"
          PROVE  \/ task'[e].key = Original
                 \/ Owns(e, Original)' /\ cache'[e][Original].view = task'[e].key
        BY <1>2, <1>11, <2>2, <2>6 DEF Busy, Owns
    <2>. QED BY <2>1, <2>2, <2>3, <2>4, <2>5, <2>6 DEF Busy
<1>8. Claimable'
    BY DEF Warm, registry, Claimable
<1>9. Owed'
    BY <1>1, <1>2 DEF Warm, registry, Owed, TypeOK
<1>10. NoLostRetirement'
    BY <1>2 DEF Warm, NoLostRetirement
<1>. QED BY <1>3, <1>5, <1>6, <1>7, <1>8, <1>9, <1>10, <1>12


-----------------------------------------------------------------------------
(* A first meeting with another thread's view makes it nobody's own.       *)
LEMMA RegisterInv ==
    ASSUME Inv, NEW t \in Threads, Register(t)
    PROVE  Inv'
<1>. USE DEF Inv
<1>. DEFINE k == Key(t)  seen == [view |-> k, met |-> Lease(t)]
<1>1. "drain" \in Places
    BY DEF Places
<1>2. /\ pc[t] = "register" /\ pc' \in [Threads -> Places] /\ pc'[t] = "drain"
      /\ \A u \in Threads : u # t => pc'[u] = pc[u]
    BY <1>1, Moved DEF Register, Acquires
<1>3. /\ lock' = t /\ lock = Free /\ t \in alive /\ t \in Workers /\ t \notin Documents
      /\ k = task[t].key /\ k \in minted \cup {Original} /\ k \in Bindings /\ Lease(t) = task[t].lease /\ Lease(t) \in Nat \ {0}
    BY <1>2, ReplicasAssumption DEF Register, Acquires, Stations, Busy, Shape, TypeOK, Key, Lease, Bindings
<1>. HIDE DEF k
<1>4. /\ cache' \in [Threads -> [Bindings -> [view : Bindings \cup {"none"}, met : Nat]]]
      /\ cache'[t][k] = seen
      /\ \A u \in Threads, b \in Bindings : u # t \/ b # k => cache'[u][b] = cache[u][b]
    BY <1>3 DEF Register, Shape, k
<1>5. seen # NoView /\ seen.met # 0 /\ \A b \in {k} : ~Owns(t, b)'
    <2>1. seen.met = Lease(t) /\ NoView.met = 0
        BY DEF NoView
    <2>. QED BY <1>3, <1>4, <2>1 DEF Owns
<1>6. \A u \in Threads, b \in Bindings : Owns(u, b)' => Owns(u, b) /\ cache'[u][b] = cache[u][b]
    BY <1>4, <1>5 DEF Owns
<1>7. TypeOK'
    <2>1. \A u \in Threads, b \in Bindings : cache'[u][b].view \in Bindings \cup {"none"}
        BY <1>4
    <2>2. entries' \subseteq Bindings
        BY <1>3 DEF Register, TypeOK, k
    <2>. QED BY <1>2, <1>3, <2>1, <2>2, ReplicasAssumption DEF Register, TypeOK
<1>8. Shape'
    BY <1>3, <1>4 DEF Register, Shape
<1>9. Stations'
    <2>1. \A u \in Threads : Key(u)' = Key(u)
        BY DEF Register, Key
    <2>2. cache'[t][Key(t)'] # NoView
        BY <1>4, <1>5, <2>1 DEF k
    <2>3. \A u \in Threads : u # t => cache'[u] = cache[u]
        BY DEF Register, Shape
    <2>. QED BY <1>2, <2>1, <2>2, <2>3 DEF Register, Stations, TypeOK
<1>14. Busy'
    <2>1. \A u \in Threads : cache'[u][Original] # NoView => Original \in entries'
        BY <1>4 DEF Register, Busy, Bindings, k
    <2>2. \A e \in Documents : e # t /\ e \in Threads
        BY <1>3 DEF Threads
    <2>3. \A e \in Documents, b \in Bindings : cache'[e][b] = cache[e][b]
        BY <1>4, <2>2
    <2>4. Original \in Bindings /\ UNCHANGED <<alive, task, minted>> /\ \A u \in alive : u \in Threads
        BY DEF Bindings, Register, TypeOK
    <2>. QED BY <1>2, <2>1, <2>2, <2>3, <2>4 DEF Busy, Owns
<1>10. Claimable' /\ Owed'
    BY <1>2 DEF Register, Claimable, Owed, TypeOK
<1>11. Custody'
    BY <1>6 DEF Register, Custody
<1>12. PrivateViews'
    <2>1. \A u \in Threads : Own(u)' \subseteq Own(u)
        BY <1>6 DEF Own, Owns
    <2>. QED BY <2>1 DEF PrivateViews
<1>13. NoLostRetirement'
    BY <1>2 DEF NoLostRetirement
<1>. QED BY <1>7, <1>8, <1>9, <1>10, <1>11, <1>12, <1>13, <1>14

(* The entry keeps what live threads claimed, so the original is offered   *)
(* only while none of them has it; a copy is offered to one thread ever.   *)
LEMMA ClaimInv ==
    ASSUME Inv, NEW t \in Threads, Claim(t)
    PROVE  Inv'
<1>. USE DEF Inv
<1>. DEFINE k == Key(t)
            dead == {c \in Claims(k) : c.owner \notin alive}
            after == Reclaimed(k)
            kept == {h \in held[k] : h[1] \in alive}
<1>1. "drain" \in Places
    BY DEF Places
<1>2. /\ pc[t] = "claim" /\ pc' \in [Threads -> Places] /\ pc'[t] = "drain"
      /\ \A u \in Threads : u # t => pc'[u] = pc[u]
    BY <1>1, Moved DEF Claim, Acquires
<1>3. lock' = t /\ lock = Free /\ t \in alive /\ k \in Bindings
      /\ k \in minted \cup {Original} /\ minted \subseteq Copies /\ Original \notin Copies
      /\ (t \in Documents /\ k # Original => Owns(t, Original) /\ cache[t][Original].view = k)
    <2>1. lock' = t /\ lock = Free /\ t \in alive
        BY <1>2 DEF Claim, Acquires, Stations
    <2>2. k \in minted \cup {Original}
        BY <1>2, <2>1 DEF Busy, Key
    <2>3. t \in Documents /\ k # Original => Owns(t, Original) /\ cache[t][Original].view = k
        BY <1>2, <2>1 DEF Busy, Key
    <2>. QED BY <2>1, <2>2, <2>3, ReplicasAssumption DEF TypeOK, Bindings
<1>. HIDE DEF k
<1>4. PICK b \in Offers(t, k, kept) :
            /\ entries' = after.entries \cup {k}
            /\ held' = [after.held EXCEPT ![k] = kept \cup {<<t, b>>}]
            /\ parent' = IF b = k THEN after.parent ELSE [after.parent EXCEPT ![b] = k]
            /\ tables' = after.tables
            /\ minted' = IF b = k THEN minted ELSE minted \cup {b}
            /\ cache' = [cache EXCEPT ![t][k] = [view |-> b, met |-> 0]]
    BY DEF Claim, k
<1>5. /\ b \in Bindings /\ b # "none"
      /\ \/ b \in Copies \ minted /\ b # Original
         \/ b = k /\ k = Original /\ ~\E h \in kept : h[2] = Original
         \/ b = k /\ k \in minted /\ Owns(t, Original) /\ cache[t][Original].view = k
    <2>0. "none" \notin Bindings /\ Original \notin Copies /\ Copies \subseteq Bindings
        BY ReplicasAssumption DEF Bindings
    <2>1. CASE b \in Copies \ minted
        BY <2>0, <2>1
    <2>2. CASE t \in Documents /\ b = k /\ ~\E h \in kept : h[2] = k
        BY <1>3, <2>2, ReplicasAssumption DEF Bindings
    <2>. QED BY <1>4, <2>1, <2>2 DEF Offers
<1>6. /\ after.entries \subseteq entries /\ after.tables \subseteq tables
      /\ Original \in entries => Original \in after.entries
      /\ after.parent \in [Bindings -> Bindings \cup {"none"}] /\ after.parent[Original] = "none"
      /\ after.held \in [Bindings -> SUBSET (Threads \X Bindings)]
      /\ \A j \in Bindings : after.held[j] \subseteq held[j]
      /\ \A j \in Bindings \ after.entries : after.held[j] = {}
      /\ \A h \in held[Original] : h[1] \in alive => h \in after.held[Original]
    <2>1. dead \in SUBSET UNION {Claims(j) : j \in Bindings}
        BY <1>3
    <2>2. after = Dropped(dead)
        BY DEF Reclaimed
    <2>. HIDE DEF after
    <2>3. \A h \in held[Original] : h[1] \in alive => [key |-> Original, owner |-> h[1], replica |-> h[2]] \notin dead
        OBVIOUS
    <2>. HIDE DEF dead
    <2>. QED BY <2>1, <2>2, <2>3, Drops
<1>. HIDE DEF after
<1>7. /\ held' \in [Bindings -> SUBSET (Threads \X Bindings)]
      /\ held'[k] = kept \cup {<<t, b>>}
      /\ \A j \in Bindings : j # k => held'[j] = after.held[j]
    BY <1>3, <1>4, <1>5, <1>6 DEF TypeOK
<1>8. \A j \in Bindings : \A h \in held'[j] : h \in held[j] \/ (j = k /\ h = <<t, b>>)
    BY <1>6, <1>7
<1>9. \A h \in held[Original] : h[1] \in alive => h \in held'[Original]
    BY <1>6, <1>7 DEF Bindings
<1>10. /\ cache' \in [Threads -> [Bindings -> [view : Bindings \cup {"none"}, met : Nat]]]
       /\ cache'[t][k] = [view |-> b, met |-> 0] /\ cache'[t][k] # NoView
       /\ \A u \in Threads, j \in Bindings : u # t \/ j # k => cache'[u][j] = cache[u][j]
    <2>. DEFINE own == [view |-> b, met |-> 0]
    <2>1. own # NoView /\ own \in [view : Bindings \cup {"none"}, met : Nat]
        <3>1. own.view = b /\ NoView.view = "none" /\ b # "none" /\ b \in Bindings
            BY <1>5 DEF NoView
        <3>2. own \in [view : Bindings \cup {"none"}, met : Nat]
            BY <1>5
        <3>. HIDE DEF own
        <3>. QED BY <3>1, <3>2
    <2>2. cache' = [cache EXCEPT ![t][k] = own]
        BY <1>4
    <2>. HIDE DEF own
    <2>3. /\ cache' \in [Threads -> [Bindings -> [view : Bindings \cup {"none"}, met : Nat]]]
          /\ cache'[t][k] = own
          /\ \A u \in Threads, j \in Bindings : u # t \/ j # k => cache'[u][j] = cache[u][j]
        BY <1>3, <2>1, <2>2 DEF Shape
    <2>. QED BY <2>1, <2>3 DEF own
<1>11. minted \subseteq minted' /\ minted' \subseteq Copies
    BY <1>4, <1>5 DEF TypeOK
<1>12. parent' \in [Bindings -> Bindings \cup {"none"}] /\ parent'[Original] = "none"
    BY <1>3, <1>4, <1>5, <1>6
<1>13. TypeOK'
    <2>1. \A u \in Threads, j \in Bindings : cache'[u][j].view \in Bindings \cup {"none"}
        BY <1>10
    <2>2. entries' \subseteq Bindings /\ tables' \subseteq Bindings
        BY <1>3, <1>4, <1>6 DEF TypeOK
    <2>. QED BY <1>2, <1>3, <1>7, <1>11, <1>12, <2>1, <2>2, ReplicasAssumption DEF Claim, TypeOK
<1>14. Shape'
    BY <1>3, <1>5, <1>10 DEF Claim, Shape
<1>15. Stations'
    <2>1. \A u \in Threads : Key(u)' = Key(u)
        BY DEF Claim, Key
    <2>2. cache'[t][Key(t)'] # NoView
        BY <1>10, <2>1 DEF k
    <2>3. \A u \in Threads : u # t => cache'[u] = cache[u]
        BY <1>4 DEF Shape
    <2>. QED BY <1>2, <2>1, <2>2, <2>3 DEF Claim, Stations, TypeOK
<1>21. Busy'
    <2>1. Original \in Bindings /\ UNCHANGED <<alive, task>> /\ \A u \in alive : u \in Threads
        BY DEF Bindings, Claim, TypeOK
    <2>2. \A u \in Threads : cache'[u][Original] # NoView => Original \in entries'
        BY <1>4, <1>6, <1>10, <2>1 DEF Busy
    <2>3. \A d \in Documents, j \in Bindings : cache'[d][j].met = 0
        BY <1>10 DEF Busy, Threads
    <2>4. \A u \in alive : pc'[u] # "idle" => task'[u].key \in minted' \cup {Original}
        BY <1>2, <1>11, <2>1 DEF Busy
    <2>5. \A w \in Workers \cap alive : pc'[w] # "idle" => task'[w].lease # 0
        BY <1>2, <2>1 DEF Busy
    <2>6. ASSUME NEW d \in Documents \cap alive, pc'[d] # "idle"
          PROVE  \/ task'[d].key = Original
                 \/ Owns(d, Original)' /\ cache'[d][Original].view = task'[d].key
        <3>1. CASE d = t /\ k = Original
            BY <2>1, <3>1 DEF Key, k
        <3>2. CASE d # t \/ k # Original
            <4>1. cache'[d][Original] = cache[d][Original] /\ pc[d] # "idle"
                BY <1>2, <1>10, <2>1, <2>6, <3>2
            <4>. QED BY <2>1, <4>1 DEF Busy, Owns
        <3>. QED BY <3>1, <3>2
    <2>. QED BY <2>1, <2>2, <2>3, <2>4, <2>5, <2>6 DEF Busy
<1>16. Claimable'
    <2>1. \A j \in Bindings \ entries' : held'[j] = {}
        BY <1>4, <1>6, <1>7
    <2>2. \A j \in Bindings : \A h \in held'[j] : h[2] \in Copies \/ (j = Original /\ h[2] = Original)
        BY <1>3, <1>5, <1>8 DEF Claimable
    <2>3. \A h, g \in held'[Original] : h[2] = Original /\ g[2] = Original => h[1] = g[1]
        <3>1. CASE b = Original
            BY <1>3, <1>5, <1>7, <3>1, ReplicasAssumption
        <3>2. CASE b # Original
            BY <1>8, <3>2 DEF Claimable, Bindings
        <3>. QED BY <3>1, <3>2
    <2>. QED BY <1>12, <2>1, <2>2, <2>3 DEF Claimable
<1>17. Custody'
    <2>1. alive' = alive
        BY DEF Claim
    <2>2. ASSUME NEW u \in Threads, NEW j \in Bindings, Owns(u, j)', u # t \/ j # k
          PROVE  u \in alive /\ \/ cache'[u][j].view \in minted'
                                \/ cache'[u][j].view = Original /\ <<u, Original>> \in held'[Original]
        BY <1>9, <1>10, <1>11, <2>2 DEF Owns, Custody
    <2>3. /\ t \in alive
          /\ \/ cache'[t][k].view \in minted'
             \/ cache'[t][k].view = Original /\ <<t, Original>> \in held'[Original]
        <3>1. cache'[t][k].view = b
            BY <1>10
        <3>2. b \in Copies \ minted /\ b # Original => b \in minted'
            BY <1>3, <1>4
        <3>3. b = k /\ k = Original => <<t, Original>> \in held'[Original]
            BY <1>7
        <3>4. b \in minted => b \in minted'
            BY <1>11
        <3>. QED BY <1>3, <1>5, <3>1, <3>2, <3>3, <3>4
    <2>. QED BY <2>1, <2>2, <2>3 DEF Custody
<1>18. PrivateViews'
    <2>1. \A u \in Threads : Own(u)' \subseteq Own(u) \cup (IF u = t THEN {b} ELSE {})
        BY <1>10 DEF Own
    <2>2. \A u \in Threads : u # t => b \notin Own(u)
        <3>1. ASSUME NEW u \in Threads, NEW j \in Bindings, Owns(u, j), cache[u][j].view = b, u # t
              PROVE  FALSE
            <4>0. u # t /\ Original \in Bindings /\ Original \notin minted
                BY <1>3, <3>1 DEF Bindings
            <4>1. CASE b \notin minted
                <5>1. b = Original /\ <<u, Original>> \in held[Original] /\ u \in alive
                    BY <3>1, <4>1 DEF Custody
                <5>. QED BY <1>3, <1>5, <4>1, <5>1
            <4>2. CASE b \in minted
                <5>1. Owns(t, Original) /\ cache[t][Original].view = b
                    BY <1>5, <4>0, <4>2
                <5>2. b \in Own(t) /\ b \in Own(u)
                    BY <3>1, <4>0, <5>1 DEF Own, Owns
                <5>. QED BY <4>0, <5>2 DEF PrivateViews
            <4>. QED BY <4>1, <4>2
        <3>. QED BY <3>1 DEF Own, Owns
    <2>. QED BY <2>1, <2>2 DEF PrivateViews
<1>19. Owed'
    BY <1>2, <1>3, <1>8 DEF Claim, Owed, TypeOK
<1>20. NoLostRetirement'
    BY <1>2 DEF NoLostRetirement
<1>. QED BY <1>13, <1>14, <1>15, <1>16, <1>17, <1>18, <1>19, <1>20, <1>21


(* Only the claims of the thread that leaves the queue are dropped, and it *)
(* is dead.                                                                *)
LEMMA DrainInv ==
    ASSUME Inv, NEW t \in Threads, Drain(t)
    PROVE  Inv'
<1>. USE DEF Inv
<1>. DEFINE x == Head(queue)
            theirs == {c \in UNION {Claims(k) : k \in entries} : c.owner = x}
            after == Retired(x)
<1>1. /\ x \in Threads /\ Tail(queue) \in Seq(Threads) /\ ToSet(queue) = {x} \cup ToSet(Tail(queue))
      /\ x \notin alive
    <2>1. queue \in Seq(Threads) /\ queue # <<>>
        BY DEF Drain, TypeOK
    <2>2. x \in Threads /\ Tail(queue) \in Seq(Threads) /\ ToSet(queue) = {x} \cup ToSet(Tail(queue))
        BY <2>1, Queued
    <2>. QED BY <2>2 DEF Stations
<1>. HIDE DEF x
<1>2. /\ after.entries \subseteq entries /\ after.tables \subseteq tables
      /\ Original \in entries => Original \in after.entries
      /\ after.parent \in [Bindings -> Bindings \cup {"none"}] /\ after.parent[Original] = "none"
      /\ after.held \in [Bindings -> SUBSET (Threads \X Bindings)]
      /\ \A k \in Bindings : after.held[k] \subseteq held[k]
      /\ \A k \in Bindings \ after.entries : after.held[k] = {}
      /\ \A k \in Bindings : \A h \in after.held[k] : h[1] # x
      /\ \A h \in held[Original] : h[1] \in alive => h \in after.held[Original]
    <2>1. theirs \in SUBSET UNION {Claims(k) : k \in Bindings}
        BY DEF TypeOK
    <2>2. after = Dropped(theirs)
        BY DEF Retired
    <2>. HIDE DEF after
    <2>3. \A h \in held[Original] : h[1] \in alive => [key |-> Original, owner |-> h[1], replica |-> h[2]] \notin theirs
        BY <1>1
    <2>4. \A k \in Bindings : \A h \in held[k] :
            h[1] = x => [key |-> k, owner |-> h[1], replica |-> h[2]] \in theirs
        BY DEF Claimable, Claims
    <2>. HIDE DEF theirs
    <2>5. /\ after.entries \subseteq entries /\ after.tables \subseteq tables
          /\ Original \in entries => Original \in after.entries
          /\ after.parent \in [Bindings -> Bindings \cup {"none"}] /\ after.parent[Original] = "none"
          /\ after.held \in [Bindings -> SUBSET (Threads \X Bindings)]
          /\ \A k \in Bindings : after.held[k] \subseteq held[k]
          /\ \A k \in Bindings \ after.entries : after.held[k] = {}
          /\ \A k \in Bindings : \A h \in after.held[k] : [key |-> k, owner |-> h[1], replica |-> h[2]] \notin theirs
          /\ \A h \in held[Original] :
                [key |-> Original, owner |-> h[1], replica |-> h[2]] \notin theirs => h \in after.held[Original]
        BY <2>1, <2>2, Drops
    <2>6. \A k \in Bindings : \A h \in after.held[k] : h[1] # x
        BY <2>4, <2>5
    <2>. QED BY <2>3, <2>5, <2>6
<1>. HIDE DEF after
<1>3. /\ entries' = after.entries /\ held' = after.held /\ parent' = after.parent /\ tables' = after.tables
      /\ queue' = Tail(queue) /\ pc[t] = "drain"
      /\ UNCHANGED <<alive, pc, task, splits, cache, minted, lock, host>>
    BY DEF Drain, At, after, x
<1>4. TypeOK' /\ Shape'
    BY <1>1, <1>2, <1>3 DEF TypeOK, Shape
<1>5. Stations'
    <2>1. \A u \in Threads : Key(u)' = Key(u)
        BY <1>3 DEF Key
    <2>2. ToSet(queue)' \cap alive' = {}
        BY <1>1, <1>3 DEF Stations
    <2>. QED BY <1>3, <2>1, <2>2 DEF Stations, TypeOK
<1>11. Busy'
    BY <1>2, <1>3 DEF Busy, Owns
<1>6. Claimable'
    <2>1. /\ \A k \in Bindings : \A h \in held'[k] : h \in held[k]
          /\ Original \in Bindings
        BY <1>2, <1>3 DEF Bindings
    <2>2. \A k \in Bindings \ entries' : held'[k] = {}
        BY <1>2, <1>3
    <2>. QED BY <1>2, <1>3, <2>1, <2>2 DEF Claimable
<1>7. Custody'
    BY <1>2, <1>3 DEF Custody, Owns
<1>8. PrivateViews'
    <2>1. \A u \in Threads : Own(u)' = Own(u)
        BY <1>3 DEF Own
    <2>. QED BY <2>1 DEF PrivateViews
<1>9. Owed'
    <2>1. ASSUME NEW k \in Bindings, NEW h \in held'[k]
          PROVE  h[1] \in alive \/ pc[h[1]] = "exited" \/ h[1] \in ToSet(Tail(queue))
        BY <1>1, <1>2, <1>3 DEF Owed
    <2>. QED BY <1>3, <2>1 DEF Owed
<1>10. NoLostRetirement'
    BY <1>3 DEF NoLostRetirement
<1>. QED BY <1>4, <1>5, <1>6, <1>7, <1>8, <1>9, <1>10, <1>11

LEMMA ExitInv ==
    ASSUME Inv, NEW t \in Threads, Exit(t)
    PROVE  Inv'
<1>. USE DEF Inv
<1>1. "exited" \in Places
    BY DEF Places
<1>2. /\ pc[t] = "idle" /\ pc' \in [Threads -> Places] /\ pc'[t] = "exited"
      /\ \A u \in Threads : u # t => pc'[u] = pc[u]
    BY <1>1, Moved DEF Exit
<1>3. /\ cache' \in [Threads -> [Bindings -> [view : Bindings \cup {"none"}, met : Nat]]]
      /\ \A k \in Bindings : cache'[t][k] = NoView
      /\ \A u \in Threads : u # t => cache'[u] = cache[u]
    BY DEF Exit, Shape, NoView
<1>4. alive' = alive \ {t}
    BY DEF Exit
<1>5. TypeOK'
    <2>1. \A u \in Threads, k \in Bindings : cache'[u][k].view \in Bindings \cup {"none"}
        BY <1>3
    <2>. QED BY <1>2, <1>4, <2>1 DEF Exit, registry, TypeOK
<1>6. Shape'
    BY <1>3 DEF Exit, registry, Shape
<1>7. Stations'
    <2>1. \A u \in Threads : Key(u)' = Key(u)
        BY DEF Exit, Key
    <2>2. queue' = queue
        BY DEF Exit
    <2>. QED BY <1>2, <1>3, <1>4, <2>1, <2>2 DEF Exit, registry, Stations, TypeOK
<1>13. Busy'
    <2>1. NoView.met = 0
        BY DEF NoView
    <2>2. \A d \in Documents, k \in Bindings : cache'[d][k].met = 0
        BY <1>3, <2>1 DEF Busy, Threads
    <2>3. \A u \in Threads : cache'[u][Original] # NoView => Original \in entries'
        BY <1>3 DEF Exit, registry, Busy, Bindings
    <2>4. \A u \in alive' : u \in alive /\ u \in Threads /\ u # t
        BY <1>4 DEF TypeOK
    <2>. QED BY <1>2, <1>3, <2>2, <2>3, <2>4 DEF Exit, registry, Busy, Owns
<1>8. Claimable'
    BY DEF Exit, registry, Claimable
<1>9. Custody'
    BY <1>3, <1>4 DEF Exit, registry, Custody, Owns
<1>10. PrivateViews'
    <2>1. \A u \in Threads : Own(u)' \subseteq Own(u)
        BY <1>3 DEF Own
    <2>. QED BY <2>1 DEF PrivateViews
<1>11. Owed'
    BY <1>2, <1>4 DEF Exit, registry, Owed, TypeOK
<1>12. NoLostRetirement'
    BY <1>2 DEF Exit, NoLostRetirement
<1>. QED BY <1>5, <1>6, <1>7, <1>8, <1>9, <1>10, <1>11, <1>12, <1>13

LEMMA FinalizeInv ==
    ASSUME Inv, NEW t \in Threads, Finalize(t)
    PROVE  Inv'
<1>. USE DEF Inv
<1>1. "try" \in Places
    BY DEF Places
<1>2. /\ pc[t] = "exited" /\ pc' \in [Threads -> Places] /\ pc'[t] = "try"
      /\ \A u \in Threads : u # t => pc'[u] = pc[u]
    BY <1>1, Moved DEF Finalize
<1>3. queue' \in Seq(Threads) /\ ToSet(queue') = ToSet(queue) \cup {t} /\ t \notin alive
    BY <1>2, Queued DEF Finalize, TypeOK, Stations
<1>4. TypeOK'
    <2>1. host' \in [Threads -> Threads]
        BY DEF Finalize, TypeOK, Shape
    <2>. QED BY <1>2, <1>3, <2>1 DEF Finalize, registry, TypeOK
<1>5. Shape'
    BY DEF Finalize, registry, Shape
<1>6. Stations'
    <2>1. \A u \in Threads : Key(u)' = Key(u)
        BY DEF Finalize, Key
    <2>2. ToSet(queue)' \cap alive' = {}
        BY <1>3 DEF Finalize, Stations
    <2>. QED BY <1>2, <1>3, <2>1, <2>2 DEF Finalize, registry, Stations, TypeOK
<1>7. Claimable' /\ Custody' /\ PrivateViews'
    BY NothingMoves DEF Finalize, registry
<1>10. Busy'
    BY <1>2, StillBusy DEF Finalize, registry
<1>8. Owed'
    BY <1>2, <1>3 DEF Finalize, registry, Owed, TypeOK
<1>9. NoLostRetirement'
    BY <1>2 DEF NoLostRetirement
<1>. QED BY <1>4, <1>5, <1>6, <1>7, <1>8, <1>9, <1>10

LEMMA StutterInv == Inv /\ UNCHANGED vars => Inv'
<1>. SUFFICES ASSUME Inv, UNCHANGED vars PROVE Inv'
    OBVIOUS
<1>. USE DEF Inv, vars, registry
<1>1. TypeOK' /\ Shape'
    BY DEF TypeOK, Shape
<1>2. Stations'
    <2>1. \A u \in Threads : Key(u)' = Key(u)
        BY DEF Key
    <2>. QED BY <2>1 DEF Stations, TypeOK
<1>3. Claimable' /\ Custody' /\ PrivateViews'
    BY NothingMoves
<1>5. Busy'
    BY StillBusy
<1>4. Owed' /\ NoLostRetirement'
    BY DEF Owed, NoLostRetirement
<1>. QED BY <1>1, <1>2, <1>3, <1>4, <1>5

-----------------------------------------------------------------------------
(* Every behaviour of the registry keeps the inductive invariant.          *)
THEOREM Invariance == Spec => []Inv
<1>1. Init => Inv
    BY InitInv
<1>2. ASSUME Inv, [Next]_vars PROVE Inv'
    <2>1. ASSUME NEW t \in Threads, Step(t) \/ Touch(t) \/ Exit(t) PROVE Inv'
        <3>. USE <1>2
        <3>1. CASE Cached(t)    BY <3>1, CachedInv
        <3>2. CASE Resolve(t)   BY <3>2, ResolveInv
        <3>3. CASE Register(t)  BY <3>3, RegisterInv
        <3>4. CASE Claim(t)     BY <3>4, ClaimInv
        <3>5. CASE EndParse(t)  BY <3>5, EndParseInv
        <3>6. CASE Drain(t)     BY <3>6, DrainInv
        <3>7. CASE Drained(t)   BY <3>7, DrainedInv
        <3>8. CASE LetGo(t)     BY <3>8, LetGoInv
        <3>9. CASE Recheck(t)   BY <3>9, RecheckInv
        <3>10. CASE Try(t)      BY <3>10, TryInv
        <3>11. CASE Finalize(t) BY <3>11, FinalizeInv
        <3>12. CASE Touch(t)    BY <3>12, TouchInv
        <3>13. CASE Exit(t)     BY <3>13, ExitInv
        <3>. QED BY <2>1, <3>1, <3>2, <3>3, <3>4, <3>5, <3>6, <3>7, <3>8, <3>9, <3>10, <3>11, <3>12, <3>13 DEF Step
    <2>2. ASSUME NEW d \in Documents, AskDocument(d) \/ TakeBack(d) PROVE Inv'
        BY <1>2, <2>2, AskDocumentInv
    <2>3. ASSUME NEW d \in Documents, NextSplit(d) PROVE Inv'
        BY <1>2, <2>3, NextSplitInv
    <2>4. ASSUME NEW d \in Documents, NEW w \in Workers, StartTask(w, d) PROVE Inv'
        BY <1>2, <2>4, StartTaskInv
    <2>5. ASSUME NEW d \in Documents, NEW w \in Workers, Warm(w, d) PROVE Inv'
        BY <1>2, <2>5, WarmInv
    <2>6. CASE UNCHANGED vars
        BY <1>2, <2>6, StutterInv
    <2>. QED BY <1>2, <2>1, <2>2, <2>3, <2>4, <2>5, <2>6 DEF Next
<1>. QED BY <1>1, <1>2, PTL DEF Spec

(* The lock is held by whoever drains, and nobody else.                    *)
THEOREM TypeCorrect == Spec => []TypeOK
<1>1. Inv => TypeOK
    BY DEF Inv
<1>. QED BY <1>1, Invariance, PTL

(* No two threads own one view, however they claim, exit and are collected *)
(* and whatever a split leaves running: _mint and _reclaim.                *)
THEOREM Private == Spec => []PrivateViews
<1>1. Inv => PrivateViews
    BY DEF Inv
<1>. QED BY <1>1, Invariance, PTL

(* While a thread is queued for retirement, somebody is on the way to the  *)
(* queue: _release_minting looks again after it let go of the lock.        *)
THEOREM NoneLost == Spec => []NoLostRetirement
<1>1. Inv => NoLostRetirement
    BY DEF Inv
<1>. QED BY <1>1, Invariance, PTL

(* A thread gone and past its turn in the queue has no claim left.         *)
THEOREM NothingLeft == Spec => []GoneHoldsNothing
<1>1. Inv => GoneHoldsNothing
    BY DEF Inv, TypeOK, Stations, Owed, GoneHoldsNothing
<1>. QED BY <1>1, Invariance, PTL

-----------------------------------------------------------------------------
(* A finalizer on another thread interrupts a holder of _MINTING.          *)
Interrupts ==
    \A u, w \in Threads : u # w /\ host[w] = u /\ pc[w] # "gone" => pc[u] \in {"drain", "release"}

(* Nobody moves under a finalizer that runs on it.                         *)
LEMMA MovesAlone ==
    ASSUME Inv, Interrupts, NEW t \in Threads, NEW here, NEW there,
           Goes(t, here, there), here # "gone", host' = host
    PROVE  Interrupts'
<1>1. /\ pc[t] = here /\ Running(t)
      /\ \A u \in Threads : u # t => pc'[u] = pc[u]
    BY DEF Goes, At, Inv, TypeOK
<1>2. ASSUME NEW u \in Threads, NEW w \in Threads, u # w, host[w] = u, pc'[w] # "gone"
      PROVE  pc'[u] \in {"drain", "release"}
    <2>1. pc[w] # "gone"
        BY <1>1, <1>2
    <2>2. u # t
        BY <1>1, <1>2, <2>1 DEF Running
    <2>. QED BY <1>1, <1>2, <2>1, <2>2 DEF Interrupts
<1>. QED BY <1>2 DEF Interrupts

LEMMA FinalizeAlone ==
    ASSUME Inv, Interrupts, NEW t \in Threads, Finalize(t)
    PROVE  Interrupts'
<1>1. PICK h \in {t} \cup ({lock} \ {Free}) : Running(h) /\ host' = [host EXCEPT ![t] = h]
    BY DEF Finalize
<1>2. /\ pc[t] = "exited" /\ Running(t) /\ pc'[t] = "try"
      /\ \A u \in Threads : u # t => pc'[u] = pc[u]
    BY DEF Finalize, Goes, At, Inv, TypeOK
<1>3. h = t \/ (h \in Threads /\ pc[h] \in {"drain", "release"} /\ h # t)
    <2>1. lock \in Threads \cup {Free} /\ \A u \in Threads : lock = u => pc[u] \in {"drain", "release"}
        BY DEF Inv, Shape, TypeOK
    <2>2. ASSUME h # t PROVE h \in Threads /\ pc[h] \in {"drain", "release"}
        <3>1. h = lock /\ lock # Free
            BY <2>2
        <3>. QED BY <2>1, <3>1
    <2>. QED BY <2>2
<1>4. host'[t] = h /\ \A u \in Threads : u # t => host'[u] = host[u]
    BY <1>1 DEF Inv, TypeOK
<1>5. ASSUME NEW u \in Threads, NEW w \in Threads, u # w, host'[w] = u, pc'[w] # "gone"
      PROVE  pc'[u] \in {"drain", "release"}
    <2>1. CASE w = t
        BY <1>2, <1>3, <1>4, <1>5, <2>1
    <2>2. CASE w # t
        <3>1. host[w] = u /\ pc[w] # "gone"
            BY <1>2, <1>4, <1>5, <2>2
        <3>2. u # t
            BY <1>2, <1>5, <3>1 DEF Running
        <3>. QED BY <1>2, <1>5, <3>1, <3>2 DEF Interrupts
    <2>. QED BY <2>1, <2>2
<1>. QED BY <1>5 DEF Interrupts

LEMMA StepAlone ==
    ASSUME Inv, Interrupts, NEW t \in Threads, Step(t) \/ Touch(t) \/ Exit(t)
    PROVE  Interrupts'
<1>1. CASE Finalize(t)
    BY <1>1, FinalizeAlone
<1>2. CASE Touch(t)
    <2>1. UNCHANGED <<pc, host>>
        BY <1>2 DEF Touch
    <2>. QED BY <2>1 DEF Interrupts
<1>3. CASE Cached(t) \/ Resolve(t)
    <2>1. host' = host /\ \E there : Goes(t, "view", there)
        BY <1>3 DEF Cached, Resolve
    <2>. QED BY <2>1, MovesAlone
<1>4. CASE Register(t)
    <2>1. host' = host /\ Goes(t, "register", "drain")
        BY <1>4 DEF Register, Acquires
    <2>. QED BY <2>1, MovesAlone
<1>5. CASE Claim(t)
    <2>1. host' = host /\ Goes(t, "claim", "drain")
        BY <1>5 DEF Claim, Acquires
    <2>. QED BY <2>1, MovesAlone
<1>6. CASE EndParse(t)
    <2>1. host' = host /\ Goes(t, "parse", "idle")
        BY <1>6 DEF EndParse
    <2>. QED BY <2>1, MovesAlone
<1>7. CASE Drain(t)
    <2>1. UNCHANGED <<pc, host>>
        BY <1>7 DEF Drain
    <2>. QED BY <2>1 DEF Interrupts
<1>8. CASE Drained(t)
    <2>1. host' = host /\ Goes(t, "drain", "release")
        BY <1>8 DEF Drained
    <2>. QED BY <2>1, MovesAlone
<1>9. CASE LetGo(t)
    <2>1. host' = host /\ Goes(t, "release", "recheck")
        BY <1>9 DEF LetGo
    <2>. QED BY <2>1, MovesAlone
<1>10. CASE Recheck(t)
    <2>1. host' = host /\ \E there : Goes(t, "recheck", there)
        BY <1>10 DEF Recheck
    <2>. QED BY <2>1, MovesAlone
<1>11. CASE Try(t)
    <2>1. host' = host /\ \E there : Goes(t, "try", there)
        BY <1>11 DEF Try
    <2>. QED BY <2>1, MovesAlone
<1>12. CASE Exit(t)
    <2>1. host' = host /\ Goes(t, "idle", "exited")
        BY <1>12 DEF Exit
    <2>. QED BY <2>1, MovesAlone
<1>. QED BY <1>1, <1>2, <1>3, <1>4, <1>5, <1>6, <1>7, <1>8, <1>9, <1>10, <1>11, <1>12 DEF Step

(* A finalizer at the lock is never interrupted itself, so that it can go  *)
(* on: what NeverAwaitedByFinalizer asks, Try's guard in place of ENABLED. *)
Unawaited == \A u \in Threads : pc[u] = "try" => At(u, "try")

(* retire_thread and _drain_if_free wait for nobody, on whichever thread   *)
(* the collector runs them, tasks left behind or not.                      *)
THEOREM NeverAwaits == Spec => []Unawaited
<1>1. Init => Interrupts
    BY DEF Init, Interrupts
<1>2. ASSUME Inv, Interrupts, [Next]_vars PROVE Interrupts'
    <2>1. ASSUME NEW t \in Threads, Step(t) \/ Touch(t) \/ Exit(t) PROVE Interrupts'
        BY <1>2, <2>1, StepAlone
    <2>2. ASSUME NEW d \in Documents, AskDocument(d) \/ TakeBack(d) PROVE Interrupts'
        <3>1. host' = host /\ Goes(d, "idle", "view") /\ d \in Threads
            BY <2>2 DEF AskDocument, TakeBack, Threads
        <3>. QED BY <1>2, <3>1, MovesAlone
    <2>3. ASSUME NEW d \in Documents, NextSplit(d) PROVE Interrupts'
        <3>1. UNCHANGED <<pc, host>>
            BY <2>3 DEF NextSplit
        <3>. QED BY <1>2, <3>1 DEF Interrupts
    <2>4. ASSUME NEW d \in Documents, NEW w \in Workers, StartTask(w, d) \/ Warm(w, d) PROVE Interrupts'
        <3>1. host' = host /\ w \in Threads /\ \E there : Goes(w, "idle", there)
            BY <2>4 DEF StartTask, Warm, Threads
        <3>. QED BY <1>2, <3>1, MovesAlone
    <2>5. CASE UNCHANGED vars
        BY <1>2, <2>5 DEF Interrupts, vars
    <2>. QED BY <1>2, <2>1, <2>2, <2>3, <2>4, <2>5 DEF Next
<1>3. Interrupts => Unawaited
    BY DEF Interrupts, Unawaited, At, Running
<1>. QED BY <1>1, <1>2, <1>3, Invariance, PTL DEF Spec
-----------------------------------------------------------------------------
(* A copy's memo tables are accounted for, when no document thread leaves  *)
(* running tasks behind.  A document thread that does may exit under them: *)
(* the pair its worker then claims a copy under is adopted by nobody, and  *)
(* no release reaches what the worker derives.                             *)

(* The pairs a claim is made under: the original, and the copies document  *)
(* threads hold.                                                           *)
Standing(k) == k = Original \/ parent[k] = Original

(* A copy is claimed once under the pair it was minted under; and once     *)
(* more as a pair of its own, by its owner, who took back a chunk.         *)
Parents ==
    \A k \in Bindings : \A h \in held[k] :
        /\ {k, h[2]} \subseteq minted \cup {Original}
        /\ h[2] \notin {Original, k} => parent[h[2]] = k /\ Standing(k)
        /\ h[2] = k => k = Original \/ h \in held[Original]
        /\ \A g \in held[k] : g[2] = h[2] => g = h

(* What a thread keeps: views of pairs that were made, its first meetings  *)
(* as they are, and a document thread has none.                            *)
Kept ==
    \A t \in Threads, k \in Bindings : cache[t][k] # NoView =>
        /\ k \in minted \cup {Original}
        /\ cache[t][k].met # 0 => cache[t][k].view = k /\ t \in Workers

(* A document thread about to claim for its document has no view yet that  *)
(* its workers use.                                                        *)
Unviewed ==
    \A d \in Documents : pc[d] = "claim" /\ task[d].key = Original => cache[d][Original] = NoView

(* Whose chunk a worker runs is alive and parses by the same view.         *)
Served ==
    \A w \in Workers : task[w].key # "none" =>
        /\ task[w].by \in Documents \cap alive
        /\ cache[task[w].by][Original] # NoView
        /\ task[w].key = cache[task[w].by][Original].view

(* An own copy is claimed as long as its pair stands.                      *)
OwnHeld ==
    \A t \in Threads, k \in Bindings :
        Owns(t, k) /\ Standing(k) /\ cache[t][k].view # Original => <<t, cache[t][k].view>> \in held[k]

Ledger == Parents /\ Kept /\ Unviewed /\ Served /\ OwnHeld /\ TablesAreClaimed

-----------------------------------------------------------------------------
(* Dropping claims keeps the claims of what stays, and the tables of what  *)
(* stays claimed: a copy goes with its claim or with the pair over it.     *)
LEMMA Releases ==
    ASSUME Inv, Parents, TablesAreClaimed, NEW claims \in SUBSET UNION {Claims(k) : k \in Bindings}
    PROVE  LET after == Dropped(claims)
               stands(k) == k = Original \/ after.parent[k] = Original
           IN
           /\ \A k \in Bindings : \A h \in after.held[k] : h[2] \notin {Original, k} =>
                 after.parent[h[2]] = k /\ stands(k)
           /\ \A k \in Bindings : \A h \in after.held[k] :
                 h[2] = k => k = Original \/ h \in after.held[Original]
           /\ \A b \in after.tables \ {Original} :
                 \E k \in after.entries, t \in Threads : <<t, b>> \in after.held[k]
           /\ \A k \in Bindings : stands(k) => Standing(k)
           /\ \A k \in Bindings : stands(k) =>
                 \A h \in held[k] : [key |-> k, owner |-> h[1], replica |-> h[2]] \notin claims => h \in after.held[k]
           /\ \A k \in Bindings :
                 Standing(k) /\ (\A c \in claims : c.replica = k => c.key = k) => stands(k)
<1>. DEFINE roots == {c.replica : c \in {x \in claims : x.replica # x.key}}
            children(Set) == {b \in Bindings : parent[b] \in Set}
            gone == Expand(roots)
            left(k) == {h \in held[k] : [key |-> k, owner |-> h[1], replica |-> h[2]] \notin claims}
            after == Dropped(claims)
            stands(k) == k = Original \/ after.parent[k] = Original
<1>1. \A c \in claims : \E k \in Bindings : \E h \in held[k] : c = [key |-> k, owner |-> h[1], replica |-> h[2]]
    BY DEF Claims
<1>2. \A k \in Bindings : \A h \in held[k] : h = <<h[1], h[2]>> /\ h[1] \in Threads /\ h[2] \in Bindings
    BY DEF Inv, TypeOK
<1>3. \A b \in roots : \E k \in Bindings : \E h \in held[k] :
        h[2] = b /\ b # k /\ [key |-> k, owner |-> h[1], replica |-> h[2]] \in claims
    <2>1. ASSUME NEW c \in claims, c.replica # c.key
          PROVE  \E k \in Bindings : \E h \in held[k] :
                    h[2] = c.replica /\ c.replica # k /\ [key |-> k, owner |-> h[1], replica |-> h[2]] \in claims
        <3>0. PICK k \in Bindings : \E h \in held[k] : c = [key |-> k, owner |-> h[1], replica |-> h[2]]
            BY <1>1
        <3>1. PICK h \in held[k] : c = [key |-> k, owner |-> h[1], replica |-> h[2]]
            BY <3>0
        <3>2. c.replica = h[2] /\ c.key = k
            BY <3>1
        <3>. QED BY <2>1, <3>1, <3>2
    <2>. QED BY <2>1
<1>4. \A k \in Bindings : \A h \in held[k] :
        [key |-> k, owner |-> h[1], replica |-> h[2]] \in claims /\ h[2] # k => h[2] \in roots
    OBVIOUS
<1>5. /\ Original \in Bindings /\ "none" # Original /\ "none" \notin Bindings /\ parent[Original] = "none"
      /\ roots \subseteq Bindings /\ Original \notin roots
    <2>1. Original \in Bindings /\ "none" # Original /\ "none" \notin Bindings /\ parent[Original] = "none"
        BY ReplicasAssumption DEF Bindings, Inv, Claimable
    <2>2. \A k \in Bindings : \A h \in held[k] : h[2] \in Copies \/ (k = Original /\ h[2] = Original)
        BY DEF Inv, Claimable
    <2>. HIDE DEF roots
    <2>3. ASSUME NEW b \in roots PROVE b \in Bindings /\ b # Original
        <3>1. PICK k \in Bindings : \E h \in held[k] : h[2] = b /\ b # k
            BY <1>3
        <3>2. PICK h \in held[k] : h[2] = b
            BY <3>1
        <3>. QED BY <1>2, <2>2, <3>1, <3>2, ReplicasAssumption
    <2>. QED BY <2>1, <2>3
<1>6. gone = roots \cup children(roots) \cup children(children(roots))
    BY DEF Expand
<1>7. after = [entries |-> entries \ gone,
               held    |-> [k \in Bindings |-> IF k \in gone THEN {} ELSE left(k)],
               parent  |-> [b \in Bindings |-> IF b \in gone THEN "none" ELSE parent[b]],
               tables  |-> tables \ gone]
    BY DEF Dropped
<1>. HIDE DEF roots, after, gone
<1>8. roots \subseteq gone /\ \A b \in Bindings : parent[b] \in roots => b \in gone
    BY <1>6
<1>9. \A b \in gone : b \in roots \/ parent[b] \in gone
    BY <1>6
<1>10. Original \notin gone
    BY <1>5, <1>6
<1>11. \A k \in Bindings : Standing(k) => k \notin gone \/ k \in roots
    BY <1>9, <1>10 DEF Standing
<1>12. /\ after.entries = entries \ gone /\ after.tables = tables \ gone
       /\ \A k \in Bindings : after.held[k] = IF k \in gone THEN {} ELSE left(k)
       /\ \A b \in Bindings : after.parent[b] = IF b \in gone THEN "none" ELSE parent[b]
    BY <1>7
<1>. HIDE DEF children
<1>13. ASSUME NEW k \in Bindings, NEW h \in after.held[k], h[2] \notin {Original, k}
       PROVE  after.parent[h[2]] = k /\ stands(k)
    <2>1. /\ k \notin gone /\ h \in held[k] /\ h[2] \in Bindings
          /\ [key |-> k, owner |-> h[1], replica |-> h[2]] \notin claims
        <3>1. after.held[k] = IF k \in gone THEN {} ELSE left(k)
            BY <1>12
        <3>2. k \notin gone /\ h \in left(k)
            BY <1>13, <3>1
        <3>. QED BY <1>2, <3>2
    <2>2. parent[h[2]] = k /\ Standing(k) /\ \A g \in held[k] : g[2] = h[2] => g = h
        BY <1>13, <2>1 DEF Parents
    <2>3. h[2] \notin roots
        <3>1. ASSUME NEW j \in Bindings, NEW g \in held[j], g[2] = h[2], h[2] # j,
                     [key |-> j, owner |-> g[1], replica |-> g[2]] \in claims
              PROVE  FALSE
            <4>1. j = k
                BY <1>13, <2>2, <3>1 DEF Parents
            <4>2. g = h
                BY <2>2, <3>1, <4>1
            <4>. QED BY <2>1, <3>1, <4>1, <4>2
        <3>. QED BY <1>3, <3>1
    <2>4. h[2] \notin gone
        BY <1>9, <2>1, <2>2, <2>3
    <2>. QED BY <1>12, <2>1, <2>2, <2>4 DEF Standing
<1>18. ASSUME NEW k \in Bindings, NEW h \in after.held[k], h[2] = k, k # Original
       PROVE  h \in after.held[Original]
    <2>1. k \notin gone /\ h \in held[k] /\ k \notin roots
        <3>1. after.held[k] = IF k \in gone THEN {} ELSE left(k)
            BY <1>12
        <3>. QED BY <1>8, <3>1
    <2>2. h \in held[Original]
        BY <1>18, <2>1 DEF Parents
    <2>3. [key |-> Original, owner |-> h[1], replica |-> h[2]] \notin claims
        BY <1>4, <1>5, <1>18, <2>1, <2>2
    <2>. QED BY <1>5, <1>10, <1>12, <2>2, <2>3
<1>14. ASSUME NEW b \in after.tables \ {Original}
       PROVE  \E k \in after.entries, t \in Threads : <<t, b>> \in after.held[k]
    <2>1. b \in tables \ {Original} /\ b \notin gone
        BY <1>12
    <2>2. PICK k \in entries, t \in Threads : <<t, b>> \in held[k] /\ b # k
        <3>1. PICK j \in entries, u \in Threads : <<u, b>> \in held[j]
            BY <2>1 DEF TablesAreClaimed
        <3>2. CASE b # j
            BY <3>1, <3>2
        <3>3. CASE b = j
            <4>1. j \in Bindings /\ <<u, b>>[2] = b
                BY DEF Inv, TypeOK
            <4>2. <<u, b>> \in held[Original]
                BY <2>1, <3>1, <3>3, <4>1 DEF Parents
            <4>3. Original \in entries
                BY <1>5, <4>2 DEF Inv, Claimable
            <4>. QED BY <2>1, <4>2, <4>3
        <3>. QED BY <3>2, <3>3
    <2>3. k \in Bindings
        BY DEF Inv, TypeOK
    <2>4. parent[b] = k /\ Standing(k) /\ b \in Bindings
        <3>1. <<t, b>>[2] = b
            OBVIOUS
        <3>. QED BY <1>2, <2>1, <2>2, <2>3, <3>1 DEF Parents
    <2>5. b # k
        BY <2>2
    <2>6. [key |-> k, owner |-> t, replica |-> b] \notin claims
        <3>1. <<t, b>>[1] = t /\ <<t, b>>[2] = b
            OBVIOUS
        <3>. QED BY <1>4, <1>8, <2>1, <2>2, <2>3, <2>5, <3>1
    <2>7. k \notin gone
        BY <1>8, <1>11, <2>1, <2>3, <2>4
    <2>8. <<t, b>> \in left(k)
        BY <2>2, <2>6
    <2>. QED BY <1>12, <2>2, <2>3, <2>7, <2>8
<1>15. ASSUME NEW k \in Bindings, stands(k)
       PROVE  /\ Standing(k)
              /\ \A h \in held[k] : [key |-> k, owner |-> h[1], replica |-> h[2]] \notin claims => h \in after.held[k]
    <2>1. k \notin gone /\ Standing(k)
        BY <1>5, <1>10, <1>12, <1>15 DEF Standing
    <2>. QED BY <1>12, <2>1
<1>16. ASSUME NEW k \in Bindings, Standing(k), \A c \in claims : c.replica = k => c.key = k
       PROVE  stands(k)
    <2>1. k \notin roots
        BY <1>16 DEF roots
    <2>. QED BY <1>11, <1>12, <1>16, <2>1 DEF Standing
<1>. HIDE DEF stands
<1>17. /\ \A k \in Bindings : \A h \in after.held[k] :
             h[2] \notin {Original, k} => after.parent[h[2]] = k /\ stands(k)
       /\ \A k \in Bindings : \A h \in after.held[k] : h[2] = k => k = Original \/ h \in after.held[Original]
       /\ \A b \in after.tables \ {Original} : \E k \in after.entries, t \in Threads : <<t, b>> \in after.held[k]
       /\ \A k \in Bindings : stands(k) => Standing(k)
       /\ \A k \in Bindings : stands(k) =>
             \A h \in held[k] : [key |-> k, owner |-> h[1], replica |-> h[2]] \notin claims => h \in after.held[k]
       /\ \A k \in Bindings : Standing(k) /\ (\A c \in claims : c.replica = k => c.key = k) => stands(k)
    BY <1>13, <1>14, <1>15, <1>16, <1>18
<1>. QED BY <1>17 DEF stands, after

LEMMA InitLedger == Init => Ledger
<1>. SUFFICES ASSUME Init PROVE Ledger
    OBVIOUS
<1>1. Parents /\ Kept
    BY DEF Init, Parents, Kept
<1>2. Unviewed /\ Served
    BY DEF Init, Unviewed, Served, NoTask, Threads
<1>3. OwnHeld /\ TablesAreClaimed
    BY DEF Init, OwnHeld, Owns, TablesAreClaimed
<1>. QED BY <1>1, <1>2, <1>3 DEF Ledger

-----------------------------------------------------------------------------
(* The pair a thread is busy with stands, and is Original or claimed by    *)
(* the document thread it works for.                                       *)
LEMMA Asked ==
    ASSUME Inv, Ledger, NEW t \in Threads, pc[t] \in {"register", "claim", "parse"}
    PROVE  /\ Key(t) \in minted \cup {Original} /\ Key(t) \in Bindings /\ Standing(Key(t))
           /\ Key(t) # Original => \E d \in Threads : <<d, Key(t)>> \in held[Original]
<1>1. t \in alive
    BY DEF Inv, Stations
<1>2. CASE t \in Documents
    <2>1. t \in Threads /\ Original \in Bindings
        BY <1>2 DEF Threads, Bindings
    <2>2. Key(t) \in minted \cup {Original} /\ Key(t) \in Bindings
        BY <1>1, <2>1 DEF Inv, Busy, TypeOK, Key, Bindings
    <2>3. Key(t) # Original => Owns(t, Original) /\ cache[t][Original].view = Key(t)
        BY <1>1, <1>2 DEF Inv, Busy, Key
    <2>4. Key(t) # Original => <<t, Key(t)>> \in held[Original]
        BY <2>1, <2>3 DEF Ledger, OwnHeld, Standing
    <2>5. ASSUME Key(t) # Original PROVE parent[Key(t)] = Original
        <3>1. <<t, Key(t)>> \in held[Original] /\ <<t, Key(t)>>[2] = Key(t)
            BY <2>4, <2>5
        <3>. QED BY <2>1, <2>5, <3>1 DEF Ledger, Parents
    <2>. QED BY <2>1, <2>2, <2>4, <2>5 DEF Standing
<1>3. CASE t \in Workers \ Documents
    <2>1. Key(t) = task[t].key /\ Key(t) \in minted \cup {Original} /\ Key(t) \in Bindings
        BY <1>1, <1>3 DEF Inv, Busy, TypeOK, Key, Bindings
    <2>2. Key(t) # "none"
        BY <2>1, ReplicasAssumption
    <2>3. PICK d \in Documents : cache[d][Original] # NoView /\ Key(t) = cache[d][Original].view
        BY <1>3, <2>1, <2>2 DEF Ledger, Served
    <2>4. d \in Threads /\ d \notin Workers /\ Original \in Bindings
        BY ReplicasAssumption DEF Threads, Bindings
    <2>5. Owns(d, Original)
        BY <2>3, <2>4 DEF Ledger, Kept, Owns
    <2>6. Key(t) # Original => <<d, Key(t)>> \in held[Original]
        BY <2>3, <2>4, <2>5 DEF Ledger, OwnHeld, Standing
    <2>7. ASSUME Key(t) # Original PROVE parent[Key(t)] = Original
        <3>1. <<d, Key(t)>> \in held[Original] /\ <<d, Key(t)>>[2] = Key(t)
            BY <2>6, <2>7
        <3>. QED BY <2>4, <2>7, <3>1 DEF Ledger, Parents
    <2>. QED BY <2>1, <2>4, <2>6, <2>7 DEF Standing
<1>. QED BY <1>2, <1>3 DEF Threads

(* A step that moves threads about, none of them to a claim, and neither   *)
(* views nor the registry.                                                 *)
LEMMA Quiet ==
    ASSUME Ledger, UNCHANGED <<alive, task, cache, registry>>,
           \A d \in Documents : pc'[d] = "claim" => pc[d] = "claim"
    PROVE  Ledger'
<1>1. Parents'
    BY DEF Ledger, Parents, Standing, registry
<1>2. Kept' /\ minted' = minted
    BY DEF Ledger, Kept, registry
<1>6. Unviewed'
    BY DEF Ledger, Unviewed
<1>3. Served'
    BY DEF Ledger, Served
<1>4. OwnHeld'
    BY DEF Ledger, OwnHeld, Owns, Standing, registry
<1>5. TablesAreClaimed'
    BY DEF Ledger, TablesAreClaimed, registry
<1>. QED BY <1>1, <1>2, <1>3, <1>4, <1>5, <1>6 DEF Ledger

(* A thread that goes elsewhere than to a claim adds none.                 *)
LEMMA Elsewhere ==
    ASSUME Inv, NEW t \in Threads, NEW here, NEW there, Goes(t, here, there), there # "claim"
    PROVE  \A d \in Documents : pc'[d] = "claim" => pc[d] = "claim" /\ d # t
BY DEF Inv, TypeOK, Goes, Threads

LEMMA QuietSteps ==
    ASSUME Inv, Ledger, NEW t \in Threads,
           \/ Cached(t) \/ Drained(t) \/ LetGo(t) \/ Recheck(t) \/ Try(t) \/ Finalize(t)
           \/ t \in Documents /\ NextSplit(t)
    PROVE  Ledger'
<1>. DEFINE quiet == UNCHANGED <<alive, task, cache, registry>>
<1>1. CASE NextSplit(t)
    <2>1. quiet /\ UNCHANGED pc
        BY <1>1 DEF NextSplit
    <2>. QED BY <2>1, Quiet
<1>3. CASE Cached(t)
    <2>1. quiet /\ Goes(t, "view", "parse")
        BY <1>3 DEF Cached
    <2>. QED BY <2>1, Quiet, Elsewhere
<1>4. CASE Drained(t)
    <2>1. quiet /\ Goes(t, "drain", "release")
        BY <1>4 DEF Drained
    <2>. QED BY <2>1, Quiet, Elsewhere
<1>5. CASE LetGo(t)
    <2>1. quiet /\ Goes(t, "release", "recheck")
        BY <1>5 DEF LetGo
    <2>. QED BY <2>1, Quiet, Elsewhere
<1>6. CASE Recheck(t)
    <2>. DEFINE there == IF queue # <<>> THEN "try" ELSE Done(t)
    <2>1. quiet /\ Goes(t, "recheck", there)
        BY <1>6 DEF Recheck
    <2>2. there # "claim"
        BY DEF Done
    <2>. HIDE DEF there
    <2>. QED BY <2>1, <2>2, Quiet, Elsewhere
<1>7. CASE Try(t)
    <2>. DEFINE there == IF lock = Free THEN "drain" ELSE Done(t)
    <2>1. quiet /\ Goes(t, "try", there)
        BY <1>7 DEF Try
    <2>2. there # "claim"
        BY DEF Done
    <2>. HIDE DEF there
    <2>. QED BY <2>1, <2>2, Quiet, Elsewhere
<1>8. CASE Finalize(t)
    <2>1. quiet /\ Goes(t, "exited", "try")
        BY <1>8 DEF Finalize
    <2>. QED BY <2>1, Quiet, Elsewhere
<1>. QED BY <1>1, <1>3, <1>4, <1>5, <1>6, <1>7, <1>8

(* The registry's part of the ledger, over a step that leaves it alone.    *)
LEMMA Unregistered ==
    ASSUME Ledger, UNCHANGED <<held, parent, minted, tables>>, entries \subseteq entries'
    PROVE  Parents' /\ TablesAreClaimed'
<1>1. Parents'
    BY DEF Ledger, Parents, Standing
<1>2. TablesAreClaimed'
    BY DEF Ledger, TablesAreClaimed
<1>. QED BY <1>1, <1>2

LEMMA AskLedger ==
    ASSUME Inv, Ledger, NEW d \in Documents, AskDocument(d) \/ TakeBack(d)
    PROVE  Ledger'
<1>1. /\ Goes(d, "idle", "view") /\ \E item : task' = [task EXCEPT ![d] = item]
      /\ UNCHANGED <<alive, cache, held, parent, minted, tables, entries>>
    BY DEF AskDocument, TakeBack, registry
<1>2. d \in Threads /\ \A w \in Workers : w \in Threads /\ w # d
    BY ReplicasAssumption DEF Threads
<1>3. \A u \in Threads : u # d => task'[u] = task[u]
    BY <1>1 DEF Inv, Shape
<1>4. Served'
    BY <1>1, <1>2, <1>3 DEF Ledger, Served
<1>5. Kept' /\ OwnHeld'
    BY <1>1 DEF Ledger, Kept, OwnHeld, Owns, Standing
<1>6. Unviewed'
    BY <1>1, <1>2, <1>3, Elsewhere DEF Ledger, Unviewed, Threads
<1>. QED BY <1>1, <1>4, <1>5, <1>6, Unregistered DEF Ledger

LEMMA StartTaskLedger ==
    ASSUME Inv, Ledger, NEW w \in Workers, NEW d \in Documents, StartTask(w, d)
    PROVE  Ledger'
<1>. DEFINE k == cache[d][Original].view
<1>1. /\ d \in alive /\ cache[d][Original] # NoView /\ Goes(w, "idle", "view")
      /\ task' = [task EXCEPT ![w] = Item(d, k, splits[d])]
      /\ UNCHANGED <<alive, cache, held, parent, minted, tables, entries>>
    BY DEF StartTask, registry
<1>. HIDE DEF k
<1>2. /\ task'[w].by = d /\ task'[w].key = k
      /\ \A v \in Threads : v # w => task'[v] = task[v]
    BY <1>1 DEF Inv, Shape, Item, Threads
<1>3. Served'
    BY <1>1, <1>2 DEF Ledger, Served, Threads, k
<1>4. Kept' /\ OwnHeld'
    BY <1>1 DEF Ledger, Kept, OwnHeld, Owns, Standing
<1>5. Unviewed'
    <2>1. w \in Threads /\ \A e \in Documents : e \in Threads /\ e # w
        BY ReplicasAssumption DEF Threads
    <2>. QED BY <1>1, <1>2, <2>1, Elsewhere DEF Ledger, Unviewed
<1>. QED BY <1>1, <1>3, <1>4, <1>5, Unregistered DEF Ledger

(* Pruning: what is kept of a thread's views, and of everybody else's.     *)
LEMMA PrunesLedger ==
    ASSUME Inv, Ledger, NEW t \in Threads, cache' = [cache EXCEPT ![t] = Pruned(t)],
           UNCHANGED <<held, parent, minted, tables, entries>>
    PROVE  /\ Kept' /\ OwnHeld' /\ Parents' /\ TablesAreClaimed'
           /\ \A u \in Threads, k \in Bindings : cache'[u][k] # NoView => cache'[u][k] = cache[u][k]
           /\ \A u \in Threads : u # t => cache'[u] = cache[u]
           /\ \A u \in Threads : cache[u][Original] # NoView => cache'[u][Original] = cache[u][Original]
<1>1. \A k \in Bindings : Pruned(t)[k] # NoView => Pruned(t)[k] = cache[t][k]
    BY DEF Pruned
<1>2. /\ \A u \in Threads : u # t => cache'[u] = cache[u]
      /\ cache'[t] = Pruned(t)
    BY DEF Inv, Shape
<1>3. \A u \in Threads, k \in Bindings : cache'[u][k] # NoView => cache'[u][k] = cache[u][k]
    BY <1>1, <1>2
<1>4. Kept'
    BY <1>3 DEF Ledger, Kept
<1>5. OwnHeld'
    BY <1>3 DEF Ledger, OwnHeld, Owns, Standing
<1>6. \A u \in Threads : cache[u][Original] # NoView => cache'[u][Original] = cache[u][Original]
    BY <1>2 DEF Inv, Busy, Pruned, Bindings
<1>. QED BY <1>2, <1>3, <1>4, <1>5, <1>6, Unregistered

LEMMA WarmLedger ==
    ASSUME Inv, Ledger, NEW w \in Workers, NEW d \in Documents, Warm(w, d)
    PROVE  Ledger'
<1>. DEFINE k == cache[d][Original].view
<1>1. /\ d \in alive /\ cache[d][Original] # NoView /\ pc' = [pc EXCEPT ![w] = "claim"]
      /\ task' = [task EXCEPT ![w] = Item(d, k, splits[d])]
      /\ cache' = [cache EXCEPT ![w] = Pruned(w)]
      /\ UNCHANGED <<alive, held, parent, minted, tables, entries>>
    BY DEF Warm, registry, Goes
<1>. HIDE DEF k
<1>2. /\ task'[w].by = d /\ task'[w].key = k
      /\ \A v \in Threads : v # w => task'[v] = task[v]
    BY <1>1 DEF Inv, Shape, Item, Threads
<1>3. w \in Threads /\ \A e \in Documents : e \in Threads /\ e # w
    BY ReplicasAssumption DEF Threads
<1>4. /\ Kept' /\ OwnHeld' /\ Parents' /\ TablesAreClaimed'
      /\ \A e \in Documents : cache'[e] = cache[e]
    BY <1>1, <1>3, PrunesLedger
<1>5. Served'
    BY <1>1, <1>2, <1>4 DEF Ledger, Served, Threads, k
<1>6. Unviewed'
    BY <1>1, <1>2, <1>3, <1>4 DEF Ledger, Unviewed, Inv, TypeOK
<1>. QED BY <1>4, <1>5, <1>6 DEF Ledger

LEMMA ResolveLedger ==
    ASSUME Inv, Ledger, NEW t \in Threads, Resolve(t)
    PROVE  Ledger'
<1>1. /\ cache' = [cache EXCEPT ![t] = Pruned(t)] /\ ~Hit(t)
      /\ \E there : Goes(t, "view", there)
      /\ UNCHANGED <<alive, task, held, parent, minted, tables, entries>>
    BY DEF Resolve, registry
<1>2. /\ Kept' /\ OwnHeld' /\ Parents' /\ TablesAreClaimed'
      /\ \A u \in Threads, k \in Bindings : cache'[u][k] # NoView => cache'[u][k] = cache[u][k]
      /\ \A u \in Threads : u # t => cache'[u] = cache[u]
      /\ \A u \in Threads : cache[u][Original] # NoView => cache'[u][Original] = cache[u][Original]
    BY <1>1, PrunesLedger
<1>3. t \in Documents /\ task[t].key = Original => cache'[t][Original] = NoView
    <2>1. Original \in Bindings
        BY DEF Bindings
    <2>2. t \in Documents /\ task[t].key = Original => cache[t][Original] = NoView
        BY <1>1, <2>1 DEF Hit, Key, Inv, Busy
    <2>. QED BY <1>2, <2>1, <2>2
<1>4. Served'
    BY <1>1, <1>2 DEF Ledger, Served, Threads
<1>5. Unviewed'
    <2>1. \A u \in Threads : u # t => pc'[u] = pc[u]
        BY <1>1 DEF Goes, Inv, TypeOK
    <2>. QED BY <1>1, <1>2, <1>3, <2>1 DEF Ledger, Unviewed, Threads
<1>. QED BY <1>2, <1>4, <1>5 DEF Ledger

LEMMA RegisterLedger ==
    ASSUME Inv, Ledger, NEW t \in Threads, Register(t)
    PROVE  Ledger'
<1>. DEFINE k == Key(t)  seen == [view |-> k, met |-> Lease(t)]
<1>1. /\ cache' = [cache EXCEPT ![t][k] = seen]
      /\ Goes(t, "register", "drain") /\ entries \subseteq entries'
      /\ UNCHANGED <<alive, task, held, parent, minted, tables>>
    BY DEF Register, Acquires
<1>2. pc[t] = "register" /\ t \in alive /\ t \in Workers /\ t \notin Documents /\ Lease(t) = task[t].lease /\ Lease(t) # 0
    BY <1>1, ReplicasAssumption DEF Inv, Stations, Busy, Lease, Goes, At
<1>3. k \in minted \cup {Original} /\ k \in Bindings
    BY <1>2, Asked
<1>4. /\ cache'[t][k] = seen /\ seen.met # 0 /\ seen.view = k
      /\ \A u \in Threads, j \in Bindings : u # t \/ j # k => cache'[u][j] = cache[u][j]
      /\ \A d \in Documents : cache'[d] = cache[d]
    BY <1>1, <1>2, <1>3 DEF Inv, Shape, Threads
<1>. HIDE DEF k, seen
<1>5. Kept'
    <2>1. ASSUME NEW u \in Threads, NEW j \in Bindings, cache'[u][j] # NoView
          PROVE  /\ j \in minted \cup {Original}
                 /\ cache'[u][j].met # 0 => cache'[u][j].view = j /\ u \in Workers
        <3>1. CASE u = t /\ j = k
            BY <1>2, <1>3, <1>4, <3>1
        <3>2. CASE u # t \/ j # k
            BY <1>4, <2>1, <3>2 DEF Ledger, Kept
        <3>. QED BY <3>1, <3>2
    <2>. QED BY <1>1, <2>1 DEF Kept
<1>6. OwnHeld'
    BY <1>1, <1>3, <1>4 DEF Ledger, OwnHeld, Owns, Standing
<1>7. Served'
    BY <1>1, <1>4 DEF Ledger, Served
<1>8. Unviewed'
    BY <1>1, <1>4, Elsewhere DEF Ledger, Unviewed
<1>. QED BY <1>1, <1>5, <1>6, <1>7, <1>8, Unregistered DEF Ledger

LEMMA TouchLedger ==
    ASSUME Inv, Ledger, NEW t \in Threads, Touch(t)
    PROVE  Ledger'
<1>. DEFINE k == Key(t)  b == View(t)
<1>1. pc[t] = "parse" /\ tables' = tables \cup {b}
      /\ UNCHANGED <<alive, pc, task, cache, entries, held, parent, minted>>
    BY DEF Touch, At
<1>2. /\ k \in minted \cup {Original} /\ k \in Bindings /\ Standing(k)
      /\ k # Original => \E d \in Threads : <<d, k>> \in held[Original]
    BY <1>1, Asked
<1>3. cache[t][k] # NoView /\ b = cache[t][k].view
    BY <1>1 DEF Inv, Stations, View
<1>. HIDE DEF k, b
<1>4. b # Original => \E j \in entries, u \in Threads : <<u, b>> \in held[j]
    <2>1. \A j \in Bindings : held[j] # {} => j \in entries
        BY DEF Inv, Claimable
    <2>2. Original \in Bindings
        BY DEF Bindings
    <2>3. CASE cache[t][k].met = 0
        BY <1>2, <1>3, <2>1, <2>3 DEF Ledger, OwnHeld, Owns
    <2>4. CASE cache[t][k].met # 0
        <3>1. b = k
            BY <1>2, <1>3, <2>4 DEF Ledger, Kept
        <3>. QED BY <1>2, <2>1, <2>2, <3>1
    <2>. QED BY <2>3, <2>4
<1>5. TablesAreClaimed'
    BY <1>1, <1>4 DEF Ledger, TablesAreClaimed
<1>6. Parents' /\ Kept' /\ Unviewed'
    BY <1>1 DEF Ledger, Parents, Kept, Unviewed, Standing
<1>7. Served' /\ OwnHeld'
    BY <1>1 DEF Ledger, Served, OwnHeld, Owns, Standing
<1>. QED BY <1>5, <1>6, <1>7 DEF Ledger

LEMMA EndParseLedger ==
    ASSUME Inv, Ledger, NEW t \in Threads, EndParse(t)
    PROVE  Ledger'
<1>1. /\ Goes(t, "parse", "idle")
      /\ task' = [task EXCEPT ![t] = NoTask]
      /\ UNCHANGED <<alive, cache, held, parent, minted, tables, entries>>
    BY DEF EndParse, registry
<1>2. /\ \A w \in Workers : task'[w].key # "none" => task'[w] = task[w]
      /\ \A u \in Threads : u # t => task'[u] = task[u]
    <2>1. NoTask.key = "none"
        BY DEF NoTask
    <2>. QED BY <1>1, <2>1 DEF Inv, Shape, Threads
<1>3. Served'
    BY <1>1, <1>2 DEF Ledger, Served
<1>4. Kept' /\ OwnHeld'
    BY <1>1 DEF Ledger, Kept, OwnHeld, Owns, Standing
<1>5. Unviewed'
    BY <1>1, <1>2, Elsewhere DEF Ledger, Unviewed, Threads
<1>. QED BY <1>1, <1>3, <1>4, <1>5, Unregistered DEF Ledger

(* No task of a document thread outlives it.                               *)
LEMMA ExitLedger ==
    ASSUME Abandons = FALSE, Inv, Ledger, NEW t \in Threads, Exit(t)
    PROVE  Ledger'
<1>1. /\ Goes(t, "idle", "exited") /\ alive' = alive \ {t}
      /\ t \in Documents => Tasks(t) = {}
      /\ cache' = [cache EXCEPT ![t] = [k \in Bindings |-> NoView]]
      /\ UNCHANGED <<task, held, parent, minted, tables, entries>>
    BY DEF Exit, registry
<1>2. /\ \A u \in Threads : u # t => cache'[u] = cache[u]
      /\ \A u \in Threads, k \in Bindings : cache'[u][k] # NoView => cache'[u][k] = cache[u][k]
    BY <1>1 DEF Inv, Shape
<1>3. Kept'
    BY <1>1, <1>2 DEF Ledger, Kept
<1>4. OwnHeld'
    BY <1>1, <1>2 DEF Ledger, OwnHeld, Owns, Standing
<1>5. Served'
    <2>1. \A w \in Workers : task[w].key # "none" => task[w].by # t
        BY <1>1 DEF Ledger, Served, Tasks
    <2>. QED BY <1>1, <1>2, <2>1 DEF Ledger, Served, Threads
<1>6. Unviewed'
    <2>1. \A d \in Documents : pc'[d] = "claim" => pc[d] = "claim" /\ d # t
        BY <1>1, Elsewhere
    <2>. QED BY <1>1, <1>2, <2>1 DEF Ledger, Unviewed, Threads
<1>. QED BY <1>1, <1>3, <1>4, <1>5, <1>6, Unregistered DEF Ledger

(* Only a dead thread's claims are dropped, and nobody alive owns by them. *)
LEMMA DrainLedger ==
    ASSUME Inv, Inv', Ledger, NEW t \in Threads, Drain(t)
    PROVE  Ledger'
<1>. DEFINE x == Head(queue)
            theirs == {c \in UNION {Claims(k) : k \in entries} : c.owner = x}
            after == Dropped(theirs)
            stands(k) == k = Original \/ after.parent[k] = Original
<1>1. /\ entries' = after.entries /\ held' = after.held /\ parent' = after.parent /\ tables' = after.tables
      /\ UNCHANGED <<alive, pc, task, cache, minted>>
    BY DEF Drain, Retired
<1>2. x \notin alive
    <2>1. queue \in Seq(Threads) /\ queue # <<>>
        BY DEF Drain, Inv, TypeOK
    <2>2. x \in ToSet(queue)
        BY <2>1, Queued
    <2>. QED BY <2>2 DEF Inv, Stations
<1>3. theirs \in SUBSET UNION {Claims(k) : k \in Bindings} /\ \A c \in theirs : c.owner = x
    BY DEF Inv, TypeOK
<1>. HIDE DEF x, theirs
<1>4. /\ \A k \in Bindings : after.held[k] \subseteq held[k]
      /\ \A k \in Bindings : \A h \in after.held[k] :
            h[2] \notin {Original, k} => after.parent[h[2]] = k /\ stands(k)
      /\ \A k \in Bindings : \A h \in after.held[k] : h[2] = k => k = Original \/ h \in after.held[Original]
      /\ \A b \in after.tables \ {Original} : \E k \in after.entries, u \in Threads : <<u, b>> \in after.held[k]
      /\ \A k \in Bindings : stands(k) => Standing(k)
      /\ \A k \in Bindings : stands(k) =>
            \A h \in held[k] : [key |-> k, owner |-> h[1], replica |-> h[2]] \notin theirs => h \in after.held[k]
    BY <1>3, Drops, Releases DEF Ledger
<1>. HIDE DEF after
<1>5. \A k : stands(k) <=> Standing(k)'
    BY <1>1 DEF Standing
<1>. HIDE DEF stands
<1>6. Parents'
    <2>1. ASSUME NEW k \in Bindings, NEW h \in held'[k]
          PROVE  /\ h \in held[k]
                 /\ h[2] \notin {Original, k} => parent'[h[2]] = k /\ Standing(k)'
                 /\ h[2] = k => k = Original \/ h \in held'[Original]
        BY <1>1, <1>4, <1>5
    <2>. QED BY <1>1, <2>1 DEF Ledger, Parents
<1>7. TablesAreClaimed'
    BY <1>1, <1>4 DEF TablesAreClaimed
<1>8. OwnHeld'
    <2>1. ASSUME NEW u \in Threads, NEW k \in Bindings, Owns(u, k), Standing(k)', cache[u][k].view # Original
          PROVE  <<u, cache[u][k].view>> \in held'[k]
        <3>1. u \in alive /\ stands(k) /\ Standing(k)
            BY <1>4, <1>5, <2>1 DEF Inv, Custody
        <3>2. <<u, cache[u][k].view>> \in held[k]
            BY <2>1, <3>1 DEF Ledger, OwnHeld
        <3>. DEFINE h == <<u, cache[u][k].view>>
        <3>3. [key |-> k, owner |-> h[1], replica |-> h[2]] \notin theirs
            BY <1>2, <1>3, <3>1
        <3>. QED BY <1>1, <1>4, <3>1, <3>2, <3>3
    <2>. QED BY <1>1, <2>1 DEF OwnHeld, Owns
<1>9. Kept' /\ minted' = minted
    BY <1>1 DEF Ledger, Kept
<1>10. Unviewed'
    BY <1>1 DEF Ledger, Unviewed
<1>11. Served'
    BY <1>1 DEF Ledger, Served
<1>. QED BY <1>6, <1>7, <1>8, <1>9, <1>10, <1>11 DEF Ledger

(* The new claim is under a pair that stands, the copy is new, and what    *)
(* is dropped belongs to the dead.                                         *)
LEMMA ClaimLedger ==
    ASSUME Inv, Inv', Ledger, NEW t \in Threads, Claim(t)
    PROVE  Ledger'
<1>. DEFINE k == Key(t)
            dead == {c \in Claims(k) : c.owner \notin alive}
            after == Dropped(dead)
            kept == {h \in held[k] : h[1] \in alive}
            stands(j) == j = Original \/ after.parent[j] = Original
<1>1. PICK b \in Offers(t, k, kept) :
        /\ entries' = after.entries \cup {k}
        /\ held' = [after.held EXCEPT ![k] = kept \cup {<<t, b>>}]
        /\ parent' = IF b = k THEN after.parent ELSE [after.parent EXCEPT ![b] = k]
        /\ tables' = after.tables
        /\ minted' = IF b = k THEN minted ELSE minted \cup {b}
        /\ cache' = [cache EXCEPT ![t][k] = [view |-> b, met |-> 0]]
    BY DEF Claim, Reclaimed
<1>2. /\ pc[t] = "claim" /\ t \in alive /\ t \in Threads /\ Goes(t, "claim", "drain")
      /\ UNCHANGED <<alive, task>>
    BY DEF Claim, Acquires, Goes, At, Inv, Stations
<1>0. k' = k
    BY DEF Claim, Key
<1>3. k \in minted \cup {Original} /\ k \in Bindings /\ Standing(k)
    BY <1>2, Asked
<1>4. dead \in SUBSET UNION {Claims(j) : j \in Bindings} /\ \A c \in dead : c.key = k /\ c.owner \notin alive
    BY <1>3 DEF Claims
<1>5. b \in Bindings /\ minted \subseteq Copies /\ Original \notin minted
      /\ \/ b \in Copies /\ b \notin minted /\ b # Original /\ b # k
         \/ b = k /\ t \in Documents /\ \A h \in kept : h[2] # k
    <2>1. minted \subseteq Copies /\ Original \notin Copies
        BY ReplicasAssumption DEF Inv, TypeOK
    <2>. HIDE DEF k, kept
    <2>3. CASE b \in Copies \ minted
        BY <1>3, <2>1, <2>3 DEF Bindings
    <2>4. CASE t \in Documents /\ b = k /\ ~\E h \in kept : h[2] = k
        BY <1>3, <2>1, <2>4
    <2>. QED BY <1>1, <2>3, <2>4 DEF Offers
<1>6. /\ \A j \in Bindings : after.held[j] \subseteq held[j]
      /\ after.held \in [Bindings -> SUBSET (Threads \X Bindings)]
      /\ after.parent \in [Bindings -> Bindings \cup {"none"}]
      /\ \A j \in Bindings : \A h \in after.held[j] :
            h[2] \notin {Original, j} => after.parent[h[2]] = j /\ stands(j)
      /\ \A j \in Bindings : \A h \in after.held[j] : h[2] = j => j = Original \/ h \in after.held[Original]
      /\ \A c \in after.tables \ {Original} : \E j \in after.entries, u \in Threads : <<u, c>> \in after.held[j]
      /\ \A j \in Bindings : stands(j) => Standing(j)
      /\ \A j \in Bindings : stands(j) =>
            \A h \in held[j] : [key |-> j, owner |-> h[1], replica |-> h[2]] \notin dead => h \in after.held[j]
      /\ \A j \in Bindings : Standing(j) /\ (\A c \in dead : c.replica = j => c.key = j) => stands(j)
      /\ \A j \in Bindings : \A h \in after.held[j] : [key |-> j, owner |-> h[1], replica |-> h[2]] \notin dead
    <2>. HIDE DEF dead
    <2>. QED BY <1>4, Drops, Releases DEF Ledger
<1>7. kept = after.held[k] /\ stands(k)
    <2>1. stands(k)
        BY <1>3, <1>4, <1>6
    <2>2. \A h \in kept : h \in after.held[k]
        BY <1>3, <1>4, <1>6, <2>1
    <2>3. ASSUME NEW h \in after.held[k] PROVE h \in kept
        <3>. DEFINE c == [key |-> k, owner |-> h[1], replica |-> h[2]]
        <3>1. h \in held[k] /\ c \notin dead
            BY <1>3, <1>6
        <3>2. c \in Claims(k) /\ c.owner = h[1]
            BY <3>1 DEF Claims
        <3>. QED BY <3>1, <3>2
    <2>. QED BY <2>1, <2>2, <2>3
(* A copy its owner claims as a pair is the owner's for the document.      *)
<1>22. b = k /\ k # Original => <<t, b>> \in after.held[Original] /\ cache[t][Original] # NoView
    <2>. SUFFICES ASSUME b = k, k # Original
                  PROVE  <<t, b>> \in after.held[Original] /\ cache[t][Original] # NoView
        OBVIOUS
    <2>1. t \in Documents /\ Original \in Bindings
        BY <1>5 DEF Bindings
    <2>2. Owns(t, Original) /\ cache[t][Original].view = k
        BY <1>2, <2>1 DEF Inv, Busy, Key
    <2>3. <<t, k>> \in held[Original]
        BY <1>2, <2>1, <2>2 DEF Ledger, OwnHeld, Standing
    <2>. DEFINE h == <<t, k>>
    <2>4. [key |-> Original, owner |-> h[1], replica |-> h[2]] \notin dead
        BY <1>2, <1>4
    <2>5. stands(Original)
        OBVIOUS
    <2>. HIDE DEF k, dead, after, stands
    <2>. QED BY <1>6, <2>1, <2>2, <2>3, <2>4, <2>5 DEF Owns
<1>. HIDE DEF after, dead, stands
<1>8. /\ held'[k] = kept \cup {<<t, b>>}
      /\ \A j \in Bindings : j # k => held'[j] = after.held[j]
    BY <1>1, <1>3, <1>6
<1>9. \A j \in Bindings : \A h \in held'[j] : h \in after.held[j] \/ (j = k /\ h = <<t, b>>)
    BY <1>7, <1>8
<1>10. \A j \in Bindings : after.held[j] \subseteq held'[j]
    BY <1>7, <1>8
<1>. HIDE DEF k
<1>11. /\ \A j \in Bindings : j # b \/ b = k => parent'[j] = after.parent[j]
       /\ b # k => parent'[b] = k
    <2>1. CASE b = k
        BY <1>1, <1>5, <2>1
    <2>2. CASE b # k
        BY <1>1, <1>5, <1>6, <2>2
    <2>. QED BY <2>1, <2>2
<1>12. /\ minted \subseteq minted' /\ {k, b} \subseteq minted' \cup {Original}
       /\ \A j \in minted \cup {Original} : j = b => b = k
    BY <1>1, <1>3, <1>5
<1>13. \A j \in minted \cup {Original} : j \in Bindings /\ parent'[j] = after.parent[j]
    BY <1>5, <1>11, <1>12 DEF Bindings
<1>14. \A j \in minted \cup {Original} : stands(j) <=> Standing(j)'
    BY <1>13 DEF stands, Standing
<1>15. Parents'
    <2>1. ASSUME NEW j \in Bindings, NEW h \in after.held[j]
          PROVE  /\ {j, h[2]} \subseteq minted \cup {Original}
                 /\ h[2] \notin {Original, j} => parent'[h[2]] = j /\ Standing(j)'
                 /\ h[2] = j => j = Original \/ h \in held'[Original]
                 /\ \A g \in after.held[j] : g[2] = h[2] => g = h
        <3>1. h \in held[j]
            BY <1>6
        <3>2. {j, h[2]} \subseteq minted \cup {Original}
            BY <3>1 DEF Ledger, Parents
        <3>3. h[2] \notin {Original, j} => parent'[h[2]] = j /\ Standing(j)'
            BY <1>6, <1>13, <1>14, <3>2
        <3>5. h[2] = j => j = Original \/ h \in held'[Original]
            BY <1>6, <1>10 DEF Bindings
        <3>4. \A g \in after.held[j] : g[2] = h[2] => g = h
            BY <1>6, <3>1 DEF Ledger, Parents
        <3>. QED BY <3>2, <3>3, <3>4, <3>5
    <2>2. \A g \in after.held[k] : g[2] # b
        BY <1>3, <1>5, <1>7, <1>12, <2>1
    <2>3. b # k => parent'[b] = k /\ Standing(k)'
        <3>1. Standing(k)'
            BY <1>0, <1>3, <1>7, <1>14
        <3>. QED BY <1>11, <3>1
    <2>6. b = k => k = Original \/ <<t, b>> \in held'[Original]
        BY <1>10, <1>22 DEF Bindings
    <2>4. <<t, b>>[2] = b
        OBVIOUS
    <2>5. ASSUME NEW j \in Bindings, NEW h \in held'[j]
          PROVE  /\ {j, h[2]} \subseteq minted' \cup {Original}
                 /\ h[2] \notin {Original, j} => parent'[h[2]] = j /\ Standing(j)'
                 /\ h[2] = j => j = Original \/ h \in held'[Original]
                 /\ \A g \in held'[j] : g[2] = h[2] => g = h
        <3>1. CASE j = k /\ h = <<t, b>>
            <4>1. h[2] = b
                BY <2>4, <3>1
            <4>2. \A g \in held'[j] : g[2] = b => g = h
                BY <1>9, <2>2, <3>1
            <4>3. {j, h[2]} \subseteq minted' \cup {Original}
                BY <1>12, <3>1, <4>1
            <4>. QED BY <1>0, <2>3, <2>6, <3>1, <4>1, <4>2, <4>3
        <3>2. CASE h \in after.held[j]
            <4>1. \A g \in held'[j] : g[2] = h[2] => g = h
                BY <1>9, <2>1, <2>2, <2>4, <3>2
            <4>. QED BY <1>12, <2>1, <3>2, <4>1
        <3>. QED BY <1>9, <3>1, <3>2
    <2>. QED BY <2>5 DEF Parents
<1>16. TablesAreClaimed'
    <2>1. after.entries \subseteq Bindings
        BY <1>1 DEF Inv, TypeOK
    <2>. QED BY <1>1, <1>6, <1>10, <2>1 DEF TablesAreClaimed
<1>17. /\ cache'[t][k].view = b /\ cache'[t][k].met = 0
       /\ \A u \in Threads, j \in Bindings : u # t \/ j # k => cache'[u][j] = cache[u][j]
       /\ \A u \in Threads : u # t => cache'[u] = cache[u]
    BY <1>1, <1>3 DEF Inv, Shape
<1>18. Kept'
    <2>1. ASSUME NEW u \in Threads, NEW j \in Bindings, cache'[u][j] # NoView
          PROVE  /\ j \in minted \cup {Original}
                 /\ cache'[u][j].met # 0 => cache'[u][j].view = j /\ u \in Workers
        BY <1>3, <1>17, <2>1 DEF Ledger, Kept
    <2>. QED BY <1>12, <2>1 DEF Kept
<1>19. OwnHeld'
    <2>1. ASSUME NEW u \in Threads, NEW j \in Bindings, Owns(u, j)', Standing(j)', cache'[u][j].view # Original
          PROVE  <<u, cache'[u][j].view>> \in held'[j]
        <3>1. CASE u = t /\ j = k
            BY <1>8, <1>17, <3>1
        <3>2. CASE u # t \/ j # k
            <4>1. cache'[u][j] = cache[u][j] /\ Owns(u, j)
                BY <1>17, <2>1, <3>2 DEF Owns
            <4>2. j \in minted \cup {Original} /\ u \in alive
                BY <4>1 DEF Ledger, Kept, Owns, Inv, Custody
            <4>3. stands(j) /\ Standing(j)
                BY <1>6, <1>14, <2>1, <4>2
            <4>. DEFINE h == <<u, cache[u][j].view>>
            <4>4. h \in held[j] /\ h[1] = u
                BY <2>1, <4>1, <4>3 DEF Ledger, OwnHeld
            <4>5. [key |-> j, owner |-> h[1], replica |-> h[2]] \notin dead
                BY <1>4, <4>2, <4>4
            <4>. HIDE DEF h
            <4>6. h \in held'[j]
                BY <1>6, <1>10, <4>3, <4>4, <4>5
            <4>. QED BY <4>1, <4>6 DEF h
        <3>. QED BY <3>1, <3>2
    <2>. QED BY <2>1 DEF OwnHeld
<1>20. Served'
    <2>1. \A d \in Documents : cache[d][Original] # NoView => cache'[d][Original] = cache[d][Original]
        BY <1>2, <1>17 DEF Ledger, Unviewed, Threads, Bindings, Key, k
    <2>. QED BY <1>2, <2>1 DEF Ledger, Served
<1>21. Unviewed'
    <2>1. \A d \in Documents : pc'[d] = "claim" => pc[d] = "claim" /\ d # t
        BY <1>2, Elsewhere
    <2>. QED BY <1>2, <1>17, <2>1 DEF Ledger, Unviewed, Threads
<1>. QED BY <1>15, <1>16, <1>18, <1>19, <1>20, <1>21 DEF Ledger

LEMMA StutterLedger == Ledger /\ UNCHANGED vars => Ledger'
<1>. SUFFICES ASSUME Ledger, UNCHANGED vars PROVE Ledger'
    OBVIOUS
<1>1. UNCHANGED <<alive, task, cache, registry>> /\ UNCHANGED pc
    BY DEF vars, registry
<1>. QED BY <1>1, Quiet

-----------------------------------------------------------------------------
(* Every behaviour whose document threads wait for their tasks keeps the   *)
(* ledger.                                                                 *)
THEOREM Booked ==
    ASSUME Abandons = FALSE
    PROVE  Spec => []Ledger
<1>1. Init => Ledger
    BY InitLedger
<1>2. ASSUME Inv, Inv', Ledger, [Next]_vars PROVE Ledger'
    <2>1. ASSUME NEW t \in Threads, Step(t) \/ Touch(t) \/ Exit(t) PROVE Ledger'
        <3>. USE <1>2
        <3>1. CASE Cached(t) \/ Drained(t) \/ LetGo(t) \/ Recheck(t) \/ Try(t) \/ Finalize(t)
            BY <3>1, QuietSteps
        <3>2. CASE Resolve(t)   BY <3>2, ResolveLedger
        <3>3. CASE Register(t)  BY <3>3, RegisterLedger
        <3>4. CASE Claim(t)     BY <3>4, ClaimLedger
        <3>5. CASE EndParse(t)  BY <3>5, EndParseLedger
        <3>6. CASE Drain(t)     BY <3>6, DrainLedger
        <3>7. CASE Touch(t)     BY <3>7, TouchLedger
        <3>8. CASE Exit(t)      BY <3>8, ExitLedger
        <3>. QED BY <2>1, <3>1, <3>2, <3>3, <3>4, <3>5, <3>6, <3>7, <3>8 DEF Step
    <2>2. ASSUME NEW d \in Documents, AskDocument(d) \/ TakeBack(d) \/ NextSplit(d) PROVE Ledger'
        BY <1>2, <2>2, AskLedger, QuietSteps DEF Threads
    <2>3. ASSUME NEW d \in Documents, NEW w \in Workers, StartTask(w, d) PROVE Ledger'
        BY <1>2, <2>3, StartTaskLedger
    <2>4. ASSUME NEW d \in Documents, NEW w \in Workers, Warm(w, d) PROVE Ledger'
        BY <1>2, <2>4, WarmLedger
    <2>5. CASE UNCHANGED vars
        BY <1>2, <2>5, StutterLedger
    <2>. QED BY <1>2, <2>1, <2>2, <2>3, <2>4, <2>5 DEF Next
<1>. QED BY <1>1, <1>2, Invariance, PTL DEF Spec

(* Every copy some memo still derives for is claimed, so its owner's exit  *)
(* drops what was derived: _claim, _retire and the release of what a copy  *)
(* adopted agree on it.                                                    *)
THEOREM Tabled ==
    ASSUME Abandons = FALSE
    PROVE  Spec => []TablesAreClaimed
<1>1. Ledger => TablesAreClaimed
    BY DEF Ledger
<1>. QED BY <1>1, Booked, PTL
=============================================================================
