---------------------------- MODULE PhaseContract ----------------------------
(***************************************************************************)
(* What WorkPool.map promises its caller (its docstring in                 *)
(* parsing/parallel/pool.py), with no executor, queue or future in sight:  *)
(* every item runs at most once, here or on a worker; results come back    *)
(* only when every item succeeded; a refusal is the earliest one and       *)
(* leaves nothing running; only a bug or an abandoned phase may leave work *)
(* running, and then the pool is retired; once map has left, nothing       *)
(* starts.                                                                 *)
(***************************************************************************)
EXTENDS Integers, FiniteSets

CONSTANTS Slot, None,
          Window   \* items admitted before anything has to finish

VARIABLES
    verdict,   \* what each slot's item comes to
    items,     \* how many items map was handed
    size,      \* items and late items so far
    started, ended,
    outcome,   \* how map left
    retired    \* whether the pool may be lent again: "no" when it may

vars == <<verdict, items, size, started, ended, outcome, retired>>

Left == outcome.kind # "none"
Good == {"ok", "blocks"}

Init ==
    /\ size = items /\ started = {} /\ ended = {}
    /\ outcome = [kind |-> "none", at |-> None] /\ retired = "no"

AddLate ==
    /\ ~Left
    /\ size' = size + 1
    /\ UNCHANGED <<verdict, items, started, ended, outcome, retired>>

Start(s) ==
    /\ ~Left /\ s < size /\ s \notin started
    /\ started' = started \cup {s}
    /\ UNCHANGED <<verdict, items, size, ended, outcome, retired>>

End(s) ==
    /\ s \in started \ ended
    /\ ended' = ended \cup {s}
    /\ UNCHANGED <<verdict, items, size, started, outcome, retired>>

Leaves(kind, at, mark) ==
    /\ ~Left
    /\ outcome' = [kind |-> kind, at |-> at] /\ retired' = mark
    /\ UNCHANGED <<verdict, items, size, started, ended>>

Return ==
    /\ ended = {s \in Slot : s < size} /\ \A s \in ended : verdict[s] \in Good
    /\ Leaves("returned", None, "no")

(* The refusal of slot s: everything before it ran and succeeded - except  *)
(* that items still behind the admission window may be overtaken by a late *)
(* one.                                                                    *)
Refuse(s) ==
    /\ s \in ended /\ verdict[s] = "refuse" /\ started = ended
    /\ \A t \in started : t < s => verdict[t] \in Good
    /\ s < items \/ items <= Window => \A t \in Slot : t < s => t \in started
    /\ Leaves("refused", s, "no")

RefuseBeside == started = ended /\ Leaves("refused", None, "no")
Fail(at) ==
    /\ at # None => at \in ended /\ verdict[at] = "bug"
    /\ Leaves("failed", at, "failed")
Abandon == Leaves("abandoned", None, "abandoned")

Next ==
    \/ AddLate \/ Return \/ RefuseBeside \/ Abandon
    \/ \E s \in Slot : Start(s) \/ End(s) \/ Refuse(s)
    \/ \E at \in Slot \cup {None} : Fail(at)

Spec == Init /\ [][Next]_vars
=============================================================================
