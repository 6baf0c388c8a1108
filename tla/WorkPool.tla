------------------------------ MODULE WorkPool ------------------------------
(***************************************************************************)
(* One phase of a split parse on a worker pool: WorkPool.map of            *)
(* parsing/parallel/pool.py, from the call to the close of the pool.       *)
(*                                                                         *)
(* The calling thread admits items to a bounded ready queue, runs its own  *)
(* share ("beside") once, takes back items nobody started, waits, and      *)
(* leaves with the results, with the earliest refusal, with a bug, or      *)
(* having abandoned the phase.  The worker threads and their queue are     *)
(* concurrent.futures.ThreadPoolExecutor, modelled from its use here: a    *)
(* first-in-first-out queue, a future that can be cancelled only while     *)
(* queued, and a cancelled future that counts as done for wait() only once *)
(* a worker has popped it and notified its waiters.                        *)
(***************************************************************************)
EXTENDS Integers, Sequences, FiniteSets, SequencesExt, FiniteSetsExt

CONSTANTS
    Workers,      \* the pool's worker threads
    ReadyFactor,  \* pending futures admitted per worker (4 in the code)
    MaxItems,     \* bound: items handed to map
    MaxLate,      \* bound: items beside submits late
    Verdicts      \* what running an item can come to, a subset of AllVerdicts

AllVerdicts == {"ok", "refuse", "bug", "blocks"}

ASSUME WorkPoolAssumption ==
    /\ IsFiniteSet(Workers) /\ Workers # {}
    /\ ReadyFactor \in Nat \ {0}
    /\ MaxItems \in Nat /\ MaxLate \in Nat
    /\ Verdicts \subseteq AllVerdicts

(* A result slot: the items' in input order, the late items' after them.   *)
Slot == 0..(MaxItems + MaxLate - 1)
None == -1
Ready == ReadyFactor * Cardinality(Workers)

Statuses == {"unsent", "queued", "running", "cancelled", "notified",
             "ok", "refused", "bug"}
Ended == {"ok", "refused", "bug"}
(* Mutant: a cancelled future never counts as done.                        *)
EndedOnly == Ended
(* What concurrent.futures.wait counts as done.                            *)
Settled == Ended \cup {"notified"}

VARIABLES
    verdict,   \* Slot -> what its item comes to when it runs
    size,      \* len(results): the slots of this phase so far
    items,     \* len(items)
    own,       \* the calling thread still has its beside to run
    next,      \* next_item
    futures,   \* the pending futures, in submission order
    results,   \* the slots whose result is filed
    failures,  \* the slots whose refusal is filed
    pc,        \* where the calling thread is
    todo,      \* what is left of the loop it is in (take_back, cancel)
    spare,     \* take_back's remaining allowance
    back,      \* the slot the calling thread is running itself, or None
    outcome,   \* how map left: its kind, and the slot that decided it
    retired,   \* the pool's _retired, "no" for the code's empty string
    queue,     \* the executor's queue
    status,    \* Slot -> the state of its future
    on,        \* Workers -> the slot a worker runs, or None
    ran        \* Slot -> how often its item was started (history)

callVars == <<verdict, items>>
phaseVars == <<size, own, next, futures, results, failures>>
callerVars == <<pc, todo, spare, back, outcome, retired>>
poolVars == <<queue, status, on, ran>>
vars == <<callVars, phaseVars, callerVars, poolVars>>

Left == {"returned", "refused", "failed", "abandoned"}
NotLeft == [kind |-> "none", at |-> None]
Leave(kind, at) == outcome' = [kind |-> kind, at |-> at]

(* What is left of a sequence when only the members of a set are kept.     *)
Kept(q, S) ==
    LET F[n \in 0..Len(q)] ==
            IF n = 0 THEN <<>> ELSE IF q[n] \in S THEN Append(F[n - 1], q[n]) ELSE F[n - 1]
    IN F[Len(q)]

Init ==
    /\ items \in 0..MaxItems
    /\ own \in BOOLEAN
    /\ verdict \in [Slot -> Verdicts]
    /\ \A s \in Slot : s >= items /\ ~own => verdict[s] = "ok"
    /\ size = items /\ next = 0 /\ futures = <<>>
    /\ results = {} /\ failures = {}
    /\ pc = "loop" /\ todo = <<>> /\ spare = 0 /\ back = None
    /\ outcome = NotLeft /\ retired = "no"
    /\ queue = <<>> /\ status = [s \in Slot |-> "unsent"]
    /\ on = [w \in Workers |-> None] /\ ran = [s \in Slot |-> 0]

-----------------------------------------------------------------------------
(* The calling thread.                                                     *)

(* The head of the phase's loop: is there anything left to do?             *)
Loop ==
    /\ pc = "loop"
    /\ IF next < items \/ futures # <<>> \/ own
       THEN pc' = "admit" /\ UNCHANGED outcome
       ELSE pc' = "left" /\ Leave("returned", None)
    /\ UNCHANGED <<callVars, phaseVars, todo, spare, back, retired, poolVars>>

(* _Phase.send: submit the item of slot s.                                 *)
Send(s) ==
    /\ futures' = Append(futures, s)
    /\ queue' = Append(queue, s)
    /\ status' = [status EXCEPT ![s] = "queued"]

(* Mutant: one item too many.                                              *)
MayAdmitPastEnd == next <= items /\ Len(futures) < Ready
MayAdmit == next < items /\ Len(futures) < Ready

Admit ==
    /\ pc = "admit" /\ MayAdmit
    /\ Send(next)
    /\ next' = next + 1
    /\ UNCHANGED <<callVars, size, own, results, failures, callerVars, on, ran>>

(* Where the loop goes once its own share is done: nothing pending means   *)
(* another turn, or the end of a refused phase, else it waits.             *)
AfterShare(pending, failed) ==
    IF pending # <<>> THEN "wait" ELSE IF failed # {} THEN "drain" ELSE "loop"

Admitted ==
    /\ pc = "admit" /\ ~MayAdmit
    /\ pc' = IF own THEN "beside" ELSE AfterShare(futures, failures)
    /\ own' = FALSE
    /\ UNCHANGED <<callVars, size, next, futures, results, failures, todo, spare, back, outcome, retired, poolVars>>

(* _Phase.submit, called from beside: a late item, sent at once.           *)
BesideSubmits ==
    /\ pc = "beside" /\ size < items + MaxLate
    /\ Send(size)
    /\ size' = size + 1
    /\ UNCHANGED <<callVars, own, next, results, failures, callerVars, on, ran>>

(* What take_back walks: the pending futures, latest slot first.           *)
SlotsDown == [n \in 1..(MaxItems + MaxLate) |-> MaxItems + MaxLate - n]
LatestFirst(fs) == Kept(SlotsDown, ToSet(fs))

BesideReturns ==
    /\ pc = "beside" /\ pc' = "takeback"
    /\ todo' = LatestFirst(futures)
    /\ spare' = Cardinality(Workers) - size
    /\ UNCHANGED <<callVars, phaseVars, back, outcome, retired, poolVars>>

(* beside declines: the phase is abandoned.                                *)
BesideDeclines ==
    /\ pc = "beside" /\ pc' = "cancel"
    /\ todo' = futures
    /\ retired' = "abandoned" /\ Leave("abandoned", None)
    /\ UNCHANGED <<callVars, phaseVars, spare, back, poolVars>>

(* beside refuses: everything queued is cancelled, everything running is   *)
(* waited for, and beside's refusal is what map raises.                    *)
BesideRefuses ==
    /\ pc = "beside" /\ pc' = "unwind"
    /\ todo' = futures
    /\ UNCHANGED <<callVars, phaseVars, spare, back, outcome, retired, poolVars>>

(* Any other exception on the calling thread: the pool is retired, the     *)
(* queue cancelled, and nothing is waited for.                             *)
Fails(at) ==
    /\ pc' = "cancel"
    /\ todo' = futures'
    /\ retired' = "failed" /\ Leave("failed", at)

BesideBreaks ==
    /\ pc = "beside"
    /\ UNCHANGED <<callVars, phaseVars, spare, back, poolVars>>
    /\ Fails(None)

(* Future.cancel: it succeeds only on a future still queued.               *)
Cancelled(s) == [status EXCEPT ![s] = IF @ = "queued" THEN "cancelled" ELSE @]

(* Mutant: an item a worker runs is run here too.                          *)
TakesAnyway(s) == status[s] \in {"queued", "running"}
MayTake(s) == status[s] = "queued"

(* One turn of take_back: cancel the latest pending item and start it here *)
(* when no worker had.                                                     *)
TakeBack ==
    /\ pc = "takeback" /\ spare > 0 /\ todo # <<>>
    /\ LET s == Head(todo) IN
       /\ todo' = Tail(todo)
       /\ status' = Cancelled(s)
       /\ IF MayTake(s)
          THEN /\ spare' = spare - 1
               /\ futures' = Kept(futures, Slot \ {s})
               /\ back' = s /\ pc' = "back"
               /\ ran' = [ran EXCEPT ![s] = @ + 1]
          ELSE UNCHANGED <<spare, futures, back, pc, ran>>
    /\ UNCHANGED <<callVars, size, own, next, results, failures, outcome, retired, queue, on>>

(* The item taken back ends: its result or refusal is filed, a bug leaves. *)
BackEnds ==
    /\ pc = "back" /\ verdict[back] # "blocks"
    /\ back' = None
    /\ UNCHANGED futures
    /\ IF verdict[back] = "bug"
       THEN Fails(back) /\ UNCHANGED <<results, failures>>
       ELSE /\ pc' = "takeback"
            /\ results' = IF verdict[back] = "ok" THEN results \cup {back} ELSE results
            /\ failures' = IF verdict[back] = "refuse" THEN failures \cup {back} ELSE failures
            /\ UNCHANGED <<todo, retired, outcome>>
    /\ UNCHANGED <<callVars, size, own, next, spare, poolVars>>

TookBack ==
    /\ pc = "takeback" /\ (spare <= 0 \/ todo = <<>>)
    /\ pc' = AfterShare(futures, failures)
    /\ todo' = <<>>
    /\ UNCHANGED <<callVars, phaseVars, spare, back, outcome, retired, poolVars>>

(* wait(FIRST_COMPLETED) returns the futures settled by now, and the loop  *)
(* reads them by slot, up to the first that holds a bug.                   *)
Collect ==
    /\ pc = "wait"
    /\ LET done == {s \in ToSet(futures) : status[s] \in Settled}
           bugs == {s \in done : status[s] = "bug"}
           read == {s \in done : \A b \in bugs : s <= b}
       IN /\ done # {}
          /\ futures' = Kept(futures, Slot \ read)
          /\ results' = results \cup {s \in read : status[s] = "ok"}
          /\ failures' = failures \cup {s \in read : status[s] = "refused"}
          /\ IF bugs # {}
             THEN Fails(Min(bugs))
             ELSE /\ pc' = IF failures' # {} THEN "drain" ELSE "loop"
                  /\ todo' = IF failures' # {} THEN futures' ELSE <<>>
                  /\ UNCHANGED <<outcome, retired>>
    /\ UNCHANGED <<callVars, size, own, next, spare, back, poolVars>>

(* _drained, its first loop: cancel what comes after the earliest refusal. *)
DrainCancels ==
    /\ pc = "drain" /\ todo # <<>>
    /\ todo' = Tail(todo)
    /\ status' = IF Head(todo) > Min(failures) THEN Cancelled(Head(todo)) ELSE status
    /\ UNCHANGED <<callVars, phaseVars, pc, spare, back, outcome, retired, queue, on, ran>>

(* Mutant: nothing is waited for.                                          *)
NotAwaited == TRUE
AllSettled == \A s \in ToSet(futures) : status[s] \in Settled

(* _drained, the rest: once everything pending has settled, file every     *)
(* verdict and raise the earliest refusal.  A bug met on the way leaves    *)
(* instead.                                                                *)
Drained ==
    /\ pc = "drain" /\ todo = <<>> /\ AllSettled
    /\ LET read == {s \in ToSet(futures) : status[s] = "refused"}
           bugs == Kept(futures, {s \in Slot : status[s] = "bug"})
       IN /\ failures' = failures \cup read
          /\ results' = results \cup {s \in ToSet(futures) : status[s] = "ok"}
          /\ UNCHANGED futures
          /\ IF bugs # <<>>
             THEN Fails(Head(bugs))
             ELSE /\ pc' = "left" /\ Leave("refused", Min(failures'))
                  /\ UNCHANGED <<todo, retired>>
    /\ UNCHANGED <<callVars, size, own, next, spare, back, poolVars>>

(* The LexicError handler after beside's refusal, and the cancelling both  *)
(* a bug and an abandoned phase do on their way out.                       *)
Cancels ==
    /\ pc \in {"unwind", "cancel"} /\ todo # <<>>
    /\ todo' = Tail(todo)
    /\ status' = Cancelled(Head(todo))
    /\ UNCHANGED <<callVars, phaseVars, pc, spare, back, outcome, retired, queue, on, ran>>

Unwound ==
    /\ pc = "unwind" /\ todo = <<>> /\ AllSettled
    /\ pc' = "left" /\ Leave("refused", None)
    /\ UNCHANGED <<callVars, phaseVars, todo, spare, back, retired, poolVars>>

(* Mutant: a bug waits for its siblings.                                   *)
LeavesWhenSettled ==
    /\ pc = "cancel" /\ todo = <<>> /\ AllSettled
    /\ pc' = "left"
    /\ UNCHANGED <<callVars, phaseVars, todo, spare, back, outcome, retired, poolVars>>

LeavesAtOnce ==
    /\ pc = "cancel" /\ todo = <<>>
    /\ pc' = "left"
    /\ UNCHANGED <<callVars, phaseVars, todo, spare, back, outcome, retired, poolVars>>

(* WorkPool.close: a retired pool cancels its queue and waits for nobody,  *)
(* any other waits for its threads.                                        *)
Close ==
    /\ pc = "left"
    /\ IF retired # "no"
       THEN /\ pc' = "closed" /\ queue' = <<>>
            /\ status' = [s \in Slot |->
                            IF s \in ToSet(queue) /\ status[s] = "queued"
                            THEN "cancelled" ELSE status[s]]
       ELSE pc' = "joining" /\ UNCHANGED <<queue, status>>
    /\ UNCHANGED <<callVars, phaseVars, todo, spare, back, outcome, retired, on, ran>>

Joined ==
    /\ pc = "joining" /\ queue = <<>> /\ \A w \in Workers : on[w] = None
    /\ pc' = "closed"
    /\ UNCHANGED <<callVars, phaseVars, todo, spare, back, outcome, retired, poolVars>>

-----------------------------------------------------------------------------
(* The worker threads.                                                     *)

(* A free worker pops the queue's head: it starts the item, or notifies    *)
(* the waiters of a cancelled one.                                         *)
Pop(w) ==
    /\ on[w] = None /\ queue # <<>>
    /\ LET s == Head(queue) IN
       /\ queue' = Tail(queue)
       /\ IF status[s] = "queued"
          THEN /\ status' = [status EXCEPT ![s] = "running"]
               /\ on' = [on EXCEPT ![w] = s]
               /\ ran' = [ran EXCEPT ![s] = @ + 1]
          ELSE /\ status' = [status EXCEPT ![s] = "notified"]
               /\ UNCHANGED <<on, ran>>
    /\ UNCHANGED <<callVars, phaseVars, callerVars>>

EndOf(v) == CASE v = "refuse" -> "refused" [] v = "bug" -> "bug" [] OTHER -> "ok"

(* A worker's item ends.  An item that blocks is waiting for the caller:   *)
(* nothing but map's leaving releases it.                                  *)
Finish(w) ==
    /\ on[w] # None
    /\ verdict[on[w]] = "blocks" => pc \in {"left", "joining", "closed"}
    /\ status' = [status EXCEPT ![on[w]] = EndOf(verdict[on[w]])]
    /\ on' = [on EXCEPT ![w] = None]
    /\ UNCHANGED <<callVars, phaseVars, callerVars, queue, ran>>

-----------------------------------------------------------------------------
Caller ==
    \/ Loop \/ Admit \/ Admitted
    \/ BesideSubmits \/ BesideReturns \/ BesideDeclines \/ BesideRefuses \/ BesideBreaks
    \/ TakeBack \/ BackEnds \/ TookBack
    \/ Collect \/ DrainCancels \/ Drained
    \/ Cancels \/ Unwound \/ LeavesAtOnce
    \/ Close \/ Joined

Worker(w) == Pop(w) \/ Finish(w)

Next == Caller \/ \E w \in Workers : Worker(w)

(* Threads are scheduled: whoever can go on does.  beside is the caller's  *)
(* own terminating code, and submits finitely often.                       *)
Fairness == WF_vars(Caller) /\ \A w \in Workers : WF_vars(Worker(w))

Spec == Init /\ [][Next]_vars /\ Fairness
-----------------------------------------------------------------------------
OutsideMap == pc \in {"left", "joining", "closed"}
Started == {s \in Slot : ran[s] > 0}
InHand == {s \in Slot : status[s] = "running" \/ back = s}

Contract == INSTANCE PhaseContract WITH
    Window <- Ready,
    started <- Started,
    ended <- Started \ InHand,
    outcome <- IF OutsideMap THEN outcome ELSE NotLeft,
    retired <- IF OutsideMap THEN retired ELSE "no"

(* The phase does what map's docstring promises: at most one run of every  *)
(* item, the earliest refusal, nothing left running by a refused phase,    *)
(* and a retired pool whenever something may still run.                    *)
MeetsContract == Contract!Spec

TypeOK ==
    /\ items \in 0..MaxItems /\ size \in items..(items + MaxLate)
    /\ next \in 0..items /\ own \in BOOLEAN
    /\ futures \in Seq(Slot) /\ queue \in Seq(Slot)
    /\ results \subseteq Slot /\ failures \subseteq Slot
    /\ status \in [Slot -> Statuses] /\ ran \in [Slot -> Nat]
    /\ on \in [Workers -> Slot \cup {None}] /\ back \in Slot \cup {None}
    /\ retired \in {"no", "failed", "abandoned"}
    /\ outcome.kind \in Left \cup {"none"}

(* A pool that is not retired when map leaves is fit to lend again: no     *)
(* item of the phase is queued or running in it.  PoolLease relies on it.  *)
PoolWhole ==
    OutsideMap /\ retired = "no" =>
        \A s \in Slot : status[s] \notin {"queued", "running"}

(* Every item that can end does let map leave and the pool close: no phase *)
(* without an item that waits for its caller is ever stuck.                *)
MapReturns == (\A s \in Slot : verdict[s] # "blocks") => <>(pc = "closed")

(* A bug leaves at once.  A caller waiting on a phase in which some item   *)
(* hit a bug, and none was refused, leaves and gets the pool closed even   *)
(* when a running sibling is itself waiting for that error.                *)
BugLeavesAtOnce ==
    /\ pc = "wait"
    /\ \E s \in ToSet(futures) : status[s] = "bug"
    /\ \A s \in Slot : verdict[s] # "refuse"
    ~> pc = "closed"

(* map's docstring: it raises "the earliest failing item's own refusal",   *)
(* or beside's.                                                            *)
EarliestFailing ==
    OutsideMap /\ outcome.kind = "refused" /\ outcome.at # None =>
        \A s \in Slot : s < outcome.at => verdict[s] # "refuse"
=============================================================================
