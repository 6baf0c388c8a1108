------------------------------ MODULE PoolLease ------------------------------
(***************************************************************************)
(* The cache of warm worker pools: PoolLease, reset_pools and the lending  *)
(* half of WorkPool, in parsing/parallel/pool.py.  Callers on any thread   *)
(* borrow a pool of their width, run phases on it and give it back; a      *)
(* critical section of _IDLE_LOCK is one action, everything outside the    *)
(* lock interleaves.                                                       *)
(*                                                                         *)
(* A phase is what WorkPool.map promises (PhaseContract): it leaves its    *)
(* pool whole, or retires it and may leave its tasks running there.        *)
(***************************************************************************)
EXTENDS Integers, Sequences, FiniteSets, SequencesExt

CONSTANTS
    Callers,    \* threads of control that lease pools
    Widths,     \* worker counts asked for
    Retained,   \* idle pools kept per width (RETAINED)
    Pools,      \* bound: the pools the callers may build
    MaxLease    \* bound: lease numbers given out

ASSUME PoolLeaseAssumption == Retained \in Nat /\ MaxLease \in Nat

None == "none"
ASSUME NoneAssumption == None \notin Pools

VARIABLES
    idle,     \* IDLE_POOLS: Widths -> the waiting pools, latest last
    pc,       \* where a caller is
    width,    \* the width a caller's lease asks for
    mine,     \* the pool a caller holds, or None
    doomed,   \* the pools a caller in reset_pools has still to close
    built,    \* the pools built so far
    closed,   \* the pools shut down
    retired,  \* the pools whose _retired is set
    lease,    \* Pools -> its current lease number
    issued,   \* _LEASES: how many lease numbers were given out
    tasks     \* Pools -> the leases of the tasks running in it

vars == <<idle, pc, width, mine, doomed, built, closed, retired, lease, issued, tasks>>

Init ==
    /\ idle = [w \in Widths |-> <<>>]
    /\ pc = [c \in Callers |-> "out"]
    /\ width \in [Callers -> Widths]
    /\ mine = [c \in Callers |-> None]
    /\ doomed = [c \in Callers |-> {}]
    /\ built = {} /\ closed = {} /\ retired = {}
    /\ lease = [p \in Pools |-> 0] /\ issued = 0
    /\ tasks = [p \in Pools |-> {}]

(* Bound: a caller asks only while a pool and a number are left for it.    *)
Asking == {c \in Callers : pc[c] \in {"cold", "warm"}}
Within ==
    /\ issued + Cardinality(Asking) < MaxLease
    /\ Cardinality(built) + Cardinality({c \in Asking : pc[c] = "cold"}) < Cardinality(Pools)

Goes(c, from, to) == pc[c] = from /\ pc' = [pc EXCEPT ![c] = to]

-----------------------------------------------------------------------------
(* Mutant: the pool taken keeps waiting.                                   *)
Peeked(w) == idle[w]
Popped(w) == Front(idle[w])

(* __enter__: under the lock, the pool returned last is taken, if one      *)
(* waits.                                                                  *)
Take(c, w) ==
    /\ Within
    /\ width' = [width EXCEPT ![c] = w]
    /\ IF idle[w] # <<>>
       THEN /\ Goes(c, "out", "warm")
            /\ mine' = [mine EXCEPT ![c] = Last(idle[w])]
            /\ idle' = [idle EXCEPT ![w] = Popped(w)]
       ELSE Goes(c, "out", "cold") /\ UNCHANGED <<mine, idle>>
    /\ UNCHANGED <<doomed, built, closed, retired, lease, issued, tasks>>

(* Mutant: each pool counts its own leases.                                *)
NumbersPerPool(p) ==
    /\ issued' = issued + 1
    /\ lease' = [lease EXCEPT ![p] = @ + 1]

(* next(_LEASES), given to pool p.                                         *)
Numbers(p) ==
    /\ issued' = issued + 1
    /\ lease' = [lease EXCEPT ![p] = issued + 1]

(* No pool waits: WorkPool(workers) builds one, off the lock.              *)
Build(c) ==
    /\ Goes(c, "cold", "using")
    /\ \E p \in Pools \ built :
        /\ built' = built \cup {p}
        /\ mine' = [mine EXCEPT ![c] = p]
        /\ Numbers(p)
    /\ UNCHANGED <<idle, width, doomed, closed, retired, tasks>>

(* WorkPool.lend, off the lock.                                            *)
Lend(c) ==
    /\ Goes(c, "warm", "using")
    /\ Numbers(mine[c])
    /\ UNCHANGED <<idle, width, mine, doomed, built, closed, retired, tasks>>

(* A phase is running: its tasks carry the lease map read at its start.    *)
(* map raises RuntimeError on a retired pool.                              *)
StartPhase(c) ==
    /\ Goes(c, "using", "mapping")
    /\ mine[c] \notin retired
    /\ tasks' = [tasks EXCEPT ![mine[c]] = @ \cup {lease[mine[c]]}]
    /\ UNCHANGED <<idle, width, mine, doomed, built, closed, retired, lease, issued>>

(* The phase returned or refused: nothing of it is left.                   *)
PhaseDrained(c) ==
    /\ Goes(c, "mapping", "using")
    /\ tasks' = [tasks EXCEPT ![mine[c]] = {}]
    /\ UNCHANGED <<idle, width, mine, doomed, built, closed, retired, lease, issued>>

(* It hit a bug or was abandoned: its tasks may go on.                     *)
PhaseRetires(c) ==
    /\ Goes(c, "mapping", "using")
    /\ retired' = retired \cup {mine[c]}
    /\ UNCHANGED <<idle, width, mine, doomed, built, closed, lease, issued, tasks>>

(* The tasks left behind in a retired pool end on their own.               *)
TasksEnd(p) ==
    /\ p \in retired /\ tasks[p] # {}
    /\ tasks' = [tasks EXCEPT ![p] = {}]
    /\ UNCHANGED <<idle, pc, width, mine, doomed, built, closed, retired, lease, issued>>

(* __exit__ after an exception, or with a retired pool: it is closed.      *)
Condemn(c, raised) ==
    /\ raised \/ mine[c] \in retired
    /\ Goes(c, "using", "closing")
    /\ UNCHANGED <<idle, width, mine, doomed, built, closed, retired, lease, issued, tasks>>

(* Mutant: what became of the pool is not asked.                           *)
FitAlways(c) == TRUE
Fit(c) == mine[c] \notin retired

(* Mutant: the lease forgets its pool before it hands it back.             *)
KeptCleared(c) == [idle EXCEPT ![width[c]] = Append(@, None)]
Kept(c) == [idle EXCEPT ![width[c]] = Append(@, mine[c])]

(* __exit__ otherwise: under the lock, back to the cache if it has room.   *)
GiveBack(c) ==
    /\ Fit(c)
    /\ IF Len(idle[width[c]]) < Retained
       THEN /\ Goes(c, "using", "out")
            /\ idle' = Kept(c)
            /\ mine' = [mine EXCEPT ![c] = None]
       ELSE Goes(c, "using", "closing") /\ UNCHANGED <<idle, mine>>
    /\ UNCHANGED <<width, doomed, built, closed, retired, lease, issued, tasks>>

(* Mutant: a retired pool is waited for as well.                           *)
MayCloseEmpty(p) == tasks[p] = {}

(* WorkPool.close waits for the pool's tasks unless the pool is retired.   *)
MayClose(p) == p \in retired \/ tasks[p] = {}

(* Mutant: the pool is let go unclosed.                                    *)
LetGoMine(c) ==
    /\ Goes(c, "closing", "out")
    /\ mine' = [mine EXCEPT ![c] = None]
    /\ UNCHANGED <<idle, width, doomed, built, closed, retired, lease, issued, tasks>>

CloseMine(c) ==
    /\ Goes(c, "closing", "out")
    /\ MayClose(mine[c])
    /\ closed' = closed \cup {mine[c]}
    /\ mine' = [mine EXCEPT ![c] = None]
    /\ UNCHANGED <<idle, width, doomed, built, retired, lease, issued, tasks>>

-----------------------------------------------------------------------------
Waiting == UNION {ToSet(idle[w]) : w \in Widths}

(* reset_pools: under the lock, every idle pool is taken out ...           *)
Reset(c) ==
    /\ Goes(c, "out", "resetting")
    /\ doomed' = [doomed EXCEPT ![c] = Waiting]
    /\ idle' = [w \in Widths |-> <<>>]
    /\ UNCHANGED <<width, mine, built, closed, retired, lease, issued, tasks>>

(* ... and off the lock each is closed, one after the other.               *)
CloseDoomed(c) ==
    /\ pc[c] = "resetting"
    /\ \E p \in doomed[c] :
        /\ MayClose(p)
        /\ closed' = closed \cup {p}
        /\ doomed' = [doomed EXCEPT ![c] = @ \ {p}]
    /\ UNCHANGED <<idle, pc, width, mine, built, retired, lease, issued, tasks>>

ResetEnds(c) ==
    /\ doomed[c] = {}
    /\ Goes(c, "resetting", "out")
    /\ UNCHANGED <<idle, width, mine, doomed, built, closed, retired, lease, issued, tasks>>

-----------------------------------------------------------------------------
Exits(c) == GiveBack(c) \/ \E raised \in BOOLEAN : Condemn(c, raised)

(* What a caller inside its lease, or inside reset_pools, goes on to.      *)
Proceeds(c) ==
    \/ Build(c) \/ Lend(c) \/ PhaseDrained(c) \/ PhaseRetires(c)
    \/ Exits(c) \/ CloseMine(c) \/ CloseDoomed(c) \/ ResetEnds(c)

Next ==
    \/ \E c \in Callers :
        \/ \E w \in Widths : Take(c, w)
        \/ StartPhase(c) \/ Reset(c) \/ Proceeds(c)
    \/ \E p \in Pools : TasksEnd(p)

(* Threads are scheduled, and a split runs finitely many phases: a caller  *)
(* that can leave its lease again and again does.  Nothing ever has to ask *)
(* for a pool, and a task left in a retired pool need never end.           *)
Fairness == \A c \in Callers : WF_vars(Proceeds(c)) /\ SF_vars(Exits(c))

Spec == Init /\ [][Next]_vars /\ Fairness

-----------------------------------------------------------------------------
Lent(c) == pc[c] \in {"warm", "using", "mapping", "closing"}
Open == built \ closed

TypeOK ==
    /\ idle \in [Widths -> Seq(Pools)]
    /\ pc \in [Callers -> {"out", "cold", "warm", "using", "mapping", "closing", "resetting"}]
    /\ width \in [Callers -> Widths]
    /\ mine \in [Callers -> Pools \cup {None}]
    /\ doomed \in [Callers -> SUBSET Pools]
    /\ built \subseteq Pools /\ closed \subseteq Pools /\ retired \subseteq Pools
    /\ lease \in [Pools -> Nat] /\ issued \in Nat
    /\ tasks \in [Pools -> SUBSET Nat]

(* A pool lent to a caller is open, waits nowhere, is nobody else's ...    *)
LentOnce ==
    \A c \in Callers : Lent(c) =>
        /\ mine[c] \in Open \ Waiting
        /\ \A d \in Callers : mine[c] \notin doomed[d] /\ (Lent(d) /\ mine[d] = mine[c] => d = c)

(* ... what waits is open, waits once, and a width keeps Retained at most  *)
WaitsOnce ==
    /\ \A w \in Widths : Len(idle[w]) <= Retained
    /\ Waiting \subseteq Open
    /\ \A w, v \in Widths : \A i \in 1..Len(idle[w]), j \in 1..Len(idle[v]) :
          idle[w][i] = idle[v][j] => w = v /\ i = j

(* ... and what reset_pools took out is closed by one caller, once.        *)
ResetOnce ==
    \A c \in Callers :
        /\ doomed[c] \subseteq Open \ Waiting
        /\ \A d \in Callers : d # c => doomed[c] \cap doomed[d] = {}

(* PoolLease's docstring: every pool is either lent to exactly one caller  *)
(* or idle in IDLE_POOLS - never held twice, never shut down while held.   *)
OneOwner == LentOnce /\ WaitsOnce /\ ResetOnce

(* And none is dropped unclosed.                                           *)
NoneDropped ==
    \A p \in Open :
        \/ p \in Waiting
        \/ \E c \in Callers : p \in doomed[c] \/ (Lent(c) /\ mine[c] = p)

(* What waits in the cache can be lent as it is: never a pool that failed  *)
(* or was abandoned, and never one with a task still in it - the next      *)
(* split would read the old one's work as its own.                         *)
IdleFit == \A p \in Waiting : p \notin retired /\ tasks[p] = {}

(* A lease number names one split: no two pools carry the same one, and    *)
(* every task running anywhere carries its own pool's.  This is what       *)
(* running_lease() tells one split from the next by.                       *)
OneSplitPerLease ==
    /\ \A p \in Pools : tasks[p] \subseteq {lease[p]}
    /\ \A p, q \in built : lease[p] = lease[q] => p = q

(* A pool taken out of the cache or built is given back or shut down, even *)
(* when the tasks left in it never end.                                    *)
NoPoolStranded == \A p \in Pools : (p \in Open \ Waiting) ~> (p \in Waiting \cup closed)
=============================================================================
