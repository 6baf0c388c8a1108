------------------------------ MODULE Replicas ------------------------------
(***************************************************************************)
(* Per-thread replicas of a compiled pair, and how they are retired:       *)
(* parsing/parallel/replicas.py over the release of parsing/caches.py.     *)
(*                                                                         *)
(* A document thread parses the original binding or a copy of it; the      *)
(* workers of its split parse that view, by their first meeting, or copies *)
(* minted under it.  Claims are made under the _MINTING lock; an exited    *)
(* thread's finalizer only queues the thread and takes the lock if it is   *)
(* free, every holder drains the queue before and asks again after it lets *)
(* go.  The grammar half of a pair is minted and released with its binding *)
(* and is left out.                                                        *)
(***************************************************************************)
EXTENDS Integers, Sequences, FiniteSets, SequencesExt

CONSTANTS
    Documents,   \* threads that parse whole documents and split them
    Workers,     \* threads of the pools the splits run on
    Original,    \* the artefact's own binding
    Copies,      \* bound: the bindings replica() may mint
    MaxSplits,   \* bound: the splits of one document thread
    Abandons     \* whether a document thread may leave running tasks behind

Threads == Documents \cup Workers
Bindings == {Original} \cup Copies
Free == "free"

ASSUME ReplicasAssumption ==
    /\ Documents \cap Workers = {} /\ Original \notin Copies
    /\ Free \notin Threads /\ "none" \notin Bindings
    /\ MaxSplits \in Nat \ {0} /\ Abandons \in BOOLEAN

NoView == [view |-> "none", met |-> 0]
NoTask == [by |-> "none", key |-> "none", lease |-> 0]

VARIABLES
    alive,     \* the threads that have not exited
    pc,        \* where a thread, or the finalizer of an exited one, is
    task,      \* Threads -> what it parses: a document, or a chunk and whose,
               \* through which pair, in which split
    splits,    \* Documents -> the number of its current split
    cache,     \* Threads -> its thread-local views, by pair: view, met
    entries,   \* the pairs _REPLICAS has an entry for
    held,      \* Bindings -> the claims of its entry: <<thread, replica>>
    parent,    \* ADOPTED: a minted binding -> the pair it was minted under
    minted,    \* the copies made so far
    tables,    \* the bindings some product memo holds an entry for
    lock,      \* the holder of _MINTING, or Free
    queue,     \* _RETIRING
    host       \* the thread an exited thread's finalizer runs on

vars == <<alive, pc, task, splits, cache, entries, held, parent, minted, tables, lock, queue, host>>
registry == <<entries, held, parent, minted, tables>>

Init ==
    /\ alive = Threads
    /\ pc = [t \in Threads |-> "idle"]
    /\ task = [t \in Threads |-> NoTask]
    /\ splits = [d \in Documents |-> 1]
    /\ cache = [t \in Threads |-> [k \in Bindings |-> NoView]]
    /\ entries = {} /\ held = [k \in Bindings |-> {}]
    /\ parent = [b \in Bindings |-> "none"] /\ minted = {} /\ tables = {}
    /\ lock = Free /\ queue = <<>>
    /\ host = [t \in Threads |-> t]

(* A thread a finalizer runs on goes no further until that finalizer ends. *)
Running(t) == \A u \in Threads \ {t} : host[u] = t => pc[u] = "gone"
At(t, here) == pc[t] = here /\ Running(t)
Goes(t, here, there) == At(t, here) /\ pc' = [pc EXCEPT ![t] = there]

(* The pair a thread's parse is of.                                        *)
Key(t) == task[t].key
View(t) == cache[t][Key(t)].view

(* running_lease: the split whose task a worker runs; a document thread is *)
(* never asked, not even for a chunk it takes back.                        *)
Lease(t) == task[t].lease
Item(d, k, lease) == [by |-> d, key |-> k, lease |-> lease]

-----------------------------------------------------------------------------
(* Mutant: nothing adopted is followed.                                    *)
ExpandNothing(roots) == roots

(* caches.release of the bindings in roots: they and all that was adopted  *)
(* under them lose their memo entries, this registry's among them.         *)
Expand(roots) ==
    LET children(S) == {b \in Bindings : parent[b] \in S}
    IN roots \cup children(roots) \cup children(children(roots))

(* _drop: the claims leave their entries, and what they alone owned is     *)
(* released - never the pair an entry is keyed by.  The registry after it: *)
Dropped(claims) ==
    LET gone == Expand({c.replica : c \in {x \in claims : x.replica # x.key}})
        left(k) == {h \in held[k] : [key |-> k, owner |-> h[1], replica |-> h[2]] \notin claims}
    IN [entries |-> entries \ gone,
        held    |-> [k \in Bindings |-> IF k \in gone THEN {} ELSE left(k)],
        parent  |-> [b \in Bindings |-> IF b \in gone THEN "none" ELSE parent[b]],
        tables  |-> tables \ gone]

Claims(k) == {[key |-> k, owner |-> h[1], replica |-> h[2]] : h \in held[k]}

(* Mutant: the original pair's entry alone is walked.                      *)
RetiredHere(t) == Dropped({c \in Claims(Original) : c.owner = t})

(* _retire: every claim of one thread, over every entry.                   *)
Retired(t) == Dropped({c \in UNION {Claims(k) : k \in entries} : c.owner = t})

(* _reclaim: the claims of exited threads, of one entry.                   *)
Reclaimed(k) == Dropped({c \in Claims(k) : c.owner \notin alive})

-----------------------------------------------------------------------------
(* Parsing.                                                                *)

(* A document thread asks for its view of the original pair.               *)
AskDocument(d) ==
    /\ Goes(d, "idle", "view")
    /\ task' = [task EXCEPT ![d] = Item(d, Original, 0)]
    /\ UNCHANGED <<alive, splits, cache, registry, lock, queue, host>>

(* It takes back a chunk of its split, and asks for its view of the pair   *)
(* the chunk is parsed through: its own view, the original or a copy.      *)
TakeBack(d) ==
    /\ cache[d][Original] # NoView
    /\ Goes(d, "idle", "view")
    /\ task' = [task EXCEPT ![d] = Item(d, cache[d][Original].view, 0)]
    /\ UNCHANGED <<alive, splits, cache, registry, lock, queue, host>>

(* A worker starts a chunk of d's split: it parses through d's view.       *)
StartTask(w, d) ==
    /\ d \in alive /\ cache[d][Original] # NoView
    /\ Goes(w, "idle", "view")
    /\ task' = [task EXCEPT ![w] = Item(d, cache[d][Original].view, splits[d])]
    /\ UNCHANGED <<alive, splits, cache, registry, lock, queue, host>>

(* d's next split starts; the last one's tasks are over unless abandoned.  *)
Tasks(d) == {w \in Workers : task[w].by = d}
NextSplit(d) ==
    /\ d \in alive /\ splits[d] < MaxSplits
    /\ Abandons \/ Tasks(d) = {}
    /\ splits' = [splits EXCEPT ![d] = @ + 1]
    /\ UNCHANGED <<alive, pc, task, cache, registry, lock, queue, host>>

(* _view answers from the cache: an own copy, or the original while the    *)
(* split it was first met in lasts.                                        *)
Hit(t) ==
    cache[t][Key(t)] # NoView /\ cache[t][Key(t)].met \in {0, Lease(t)}

Cached(t) ==
    /\ Goes(t, "view", "parse") /\ Hit(t)
    /\ UNCHANGED <<alive, task, splits, cache, registry, lock, queue, host>>

(* _resolve: prune what the registry lost; a worker's first meeting        *)
(* registers the pair, anything else claims a replica.                     *)
Pruned(t) == [k \in Bindings |-> IF k \in entries THEN cache[t][k] ELSE NoView]

Resolve(t) ==
    /\ At(t, "view") /\ ~Hit(t)
    /\ cache' = [cache EXCEPT ![t] = Pruned(t)]
    /\ Goes(t, "view", IF t \in Workers /\ Pruned(t)[Key(t)] = NoView
                       THEN "register" ELSE "claim")
    /\ UNCHANGED <<alive, task, splits, registry, lock, queue, host>>

(* A warm copies a pair this worker met first: it claims outright.         *)
Warm(w, d) ==
    /\ d \in alive /\ cache[d][Original] # NoView
    /\ LET k == cache[d][Original].view IN
       /\ cache[w][k] = NoView \/ cache[w][k].met # 0
       /\ task' = [task EXCEPT ![w] = Item(d, k, splits[d])]
    /\ Goes(w, "idle", "claim")
    /\ cache' = [cache EXCEPT ![w] = Pruned(w)]
    /\ UNCHANGED <<alive, splits, registry, lock, queue, host>>

Acquires(t, here) == lock = Free /\ lock' = t /\ Goes(t, here, "drain")

(* _register, under the lock.                                              *)
Register(t) ==
    /\ Acquires(t, "register")
    /\ entries' = entries \cup {Key(t)}
    /\ cache' = [cache EXCEPT ![t][Key(t)] = [view |-> Key(t), met |-> Lease(t)]]
    /\ UNCHANGED <<alive, task, splits, held, parent, minted, tables, queue, host>>

(* Mutant: every document thread gets the original.                        *)
OffersOriginal(t, k, entry) == IF t \in Documents THEN {k} ELSE Copies \ minted

(* What a claim on pair k may get: the pair itself for a document thread   *)
(* while no claim of the entry holds it, else a copy minted for the thread.*)
Offers(t, k, entry) ==
    IF t \in Documents /\ ~\E h \in entry : h[2] = k THEN {k} ELSE Copies \ minted

(* _claim, under the lock: drop what dead threads held, register the entry *)
(* again should that have popped it, and record the claim.                 *)
Claim(t) ==
    /\ Acquires(t, "claim")
    /\ LET k == Key(t)
           after == Reclaimed(k)
           kept == {h \in held[k] : h[1] \in alive}
       IN \E b \in Offers(t, k, kept) :
            /\ entries' = after.entries \cup {k}
            /\ held' = [after.held EXCEPT ![k] = kept \cup {<<t, b>>}]
            /\ parent' = IF b = k THEN after.parent ELSE [after.parent EXCEPT ![b] = k]
            /\ tables' = after.tables
            /\ minted' = IF b = k THEN minted ELSE minted \cup {b}
            /\ cache' = [cache EXCEPT ![t][k] = [view |-> b, met |-> 0]]
    /\ UNCHANGED <<alive, task, splits, queue, host>>

(* The parse asks the product memos, which keep what they derive.          *)
Touch(t) ==
    /\ At(t, "parse") /\ View(t) \notin tables
    /\ tables' = tables \cup {View(t)}
    /\ UNCHANGED <<alive, pc, task, splits, cache, entries, held, parent, minted, lock, queue, host>>

EndParse(t) ==
    /\ Goes(t, "parse", "idle")
    /\ task' = [task EXCEPT ![t] = NoTask]
    /\ UNCHANGED <<alive, splits, cache, registry, lock, queue, host>>

-----------------------------------------------------------------------------
(* The lock, and the retirements every holder owes.                        *)

(* _release_minting: one queued thread is retired ...                      *)
Drain(t) ==
    /\ At(t, "drain") /\ queue # <<>>
    /\ queue' = Tail(queue)
    /\ LET after == Retired(Head(queue)) IN
       /\ entries' = after.entries /\ held' = after.held
       /\ parent' = after.parent /\ tables' = after.tables
    /\ UNCHANGED <<alive, pc, task, splits, cache, minted, lock, host>>

(* ... until none is found, and a finalizer may still come in between ...   *)
Drained(t) ==
    /\ Goes(t, "drain", "release") /\ queue = <<>>
    /\ UNCHANGED <<alive, task, splits, cache, registry, lock, queue, host>>

(* Mutant: the lock is never let go.                                       *)
KeepsLock(t) ==
    /\ Goes(t, "release", "recheck")
    /\ UNCHANGED <<alive, task, splits, cache, registry, lock, queue, host>>

(* ... the lock is let go ...                                              *)
LetGo(t) ==
    /\ Goes(t, "release", "recheck")
    /\ lock' = Free
    /\ UNCHANGED <<alive, task, splits, cache, registry, queue, host>>

(* ... and the queue is asked again.                                       *)
Done(t) == IF t \in alive THEN "parse" ELSE "gone"
(* Mutant: it is not.                                                      *)
NoRecheck(t) ==
    /\ Goes(t, "recheck", Done(t))
    /\ UNCHANGED <<alive, task, splits, cache, registry, lock, queue, host>>

Recheck(t) ==
    /\ Goes(t, "recheck", IF queue # <<>> THEN "try" ELSE Done(t))
    /\ UNCHANGED <<alive, task, splits, cache, registry, lock, queue, host>>

(* Mutant: the finalizer waits for the lock.                               *)
TryWaits(t) ==
    /\ lock = Free /\ Goes(t, "try", "drain") /\ lock' = t
    /\ UNCHANGED <<alive, task, splits, cache, registry, queue, host>>

(* _drain_if_free: a lock held elsewhere is drained by its holder.         *)
Try(t) ==
    /\ Goes(t, "try", IF lock = Free THEN "drain" ELSE Done(t))
    /\ lock' = IF lock = Free THEN t ELSE lock
    /\ UNCHANGED <<alive, task, splits, cache, registry, queue, host>>

-----------------------------------------------------------------------------
(* A thread exits: its thread-local cache is gone.                         *)
Exit(t) ==
    /\ t \in Documents => Abandons \/ Tasks(t) = {}
    /\ Goes(t, "idle", "exited")
    /\ alive' = alive \ {t}
    /\ cache' = [cache EXCEPT ![t] = [k \in Bindings |-> NoView]]
    /\ UNCHANGED <<task, splits, registry, lock, queue, host>>

(* Its marker is collected, on the thread itself or on whichever thread    *)
(* the collector runs - the one inside the lock included: retire_thread.   *)
Finalize(t) ==
    /\ Goes(t, "exited", "try")
    /\ queue' = Append(queue, t)
    /\ \E h \in {t} \cup ({lock} \ {Free}) :
        /\ Running(h) /\ host' = [host EXCEPT ![t] = h]
    /\ UNCHANGED <<alive, task, splits, cache, registry, lock>>

-----------------------------------------------------------------------------
(* What a thread goes through once it has started something.               *)
Step(t) ==
    \/ Cached(t) \/ Resolve(t) \/ Register(t) \/ Claim(t) \/ EndParse(t)
    \/ Drain(t) \/ Drained(t) \/ LetGo(t) \/ Recheck(t) \/ Try(t) \/ Finalize(t)

Next ==
    \/ \E t \in Threads : Step(t) \/ Touch(t) \/ Exit(t)
    \/ \E d \in Documents :
        \/ AskDocument(d) \/ TakeBack(d) \/ NextSplit(d)
        \/ \E w \in Workers : StartTask(w, d) \/ Warm(w, d)

Spec == Init /\ [][Next]_vars
-----------------------------------------------------------------------------
(* Types; and the lock is held exactly by the thread that drains the queue *)
(* and has not let go yet.                                                 *)
Places == {"idle", "view", "register", "claim", "parse", "drain", "release", "recheck", "try", "exited", "gone"}
TypeOK ==
    /\ alive \subseteq Threads /\ pc \in [Threads -> Places]
    /\ \A t \in Threads : task[t].key \in Bindings \cup {"none"}
    /\ splits \in [Documents -> 1..MaxSplits]
    /\ \A t \in Threads, k \in Bindings : cache[t][k].view \in Bindings \cup {"none"}
    /\ entries \subseteq Bindings /\ tables \subseteq Bindings /\ minted \subseteq Copies
    /\ held \in [Bindings -> SUBSET (Threads \X Bindings)]
    /\ parent \in [Bindings -> Bindings \cup {"none"}]
    /\ \A t \in Threads : lock = t <=> pc[t] \in {"drain", "release"}
    /\ queue \in Seq(Threads) /\ host \in [Threads -> Threads]

(* A replica belongs to a thread, and to one thread only: no two live      *)
(* threads own the same view, the original included.  Only a first meeting *)
(* reads a view of another thread's.                                       *)
Own(t) == {cache[t][k].view : k \in {x \in Bindings : cache[t][x] # NoView /\ cache[t][x].met = 0}}
PrivateViews == \A t, u \in Threads : t # u => Own(t) \cap Own(u) = {}

(* No retirement is lost between a finalizer that finds the lock taken and *)
(* a holder that has just looked at the queue: while anyone is queued,     *)
(* somebody is still on the way to the queue.                              *)
NoLostRetirement ==
    queue # <<>> => \E t \in Threads : pc[t] \in {"drain", "release", "recheck", "try"}

(* A copy's tables are released with the thread that owns it: every copy   *)
(* some memo still holds is recorded as a claim, which its owner's exit    *)
(* drops.                                                                  *)
TablesAreClaimed ==
    \A b \in tables \ {Original} :
        \E k \in entries, t \in Threads : <<t, b>> \in held[k]

(* An exited thread whose finalizer has ended, and whose turn in the queue *)
(* is over, holds nothing any more: whichever thread its finalizer ran on, *)
(* somebody dropped its claims.                                            *)
GoneHoldsNothing ==
    \A t \in Threads : pc[t] = "gone" /\ t \notin ToSet(queue) =>
        \A k \in Bindings : \A h \in held[k] : h[1] # t

(* A finalizer that interrupts the thread holding _MINTING never waits for *)
(* it: it can always go on, and so can the holder after it.                *)
NeverAwaitedByFinalizer ==
    \A u \in Threads : host[u] # u /\ pc[u] = "try" => ENABLED Try(u)
=============================================================================
