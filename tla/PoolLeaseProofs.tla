--------------------------- MODULE PoolLeaseProofs ---------------------------
(***************************************************************************)
(* Proofs about PoolLease, for any callers, widths, pools and bounds: its  *)
(* invariants hold in every behaviour.  They are not inductive on their    *)
(* own; what they need besides is Bookkeeping: which pools may still have  *)
(* tasks, and where a pool being reset can be.                             *)
(***************************************************************************)
EXTENDS PoolLease, SequenceTheorems, TLAPS

(* What holds of the pools between two steps, beside the invariants:       *)
Bookkeeping ==
    /\ closed \subseteq built /\ retired \subseteq built
    /\ \A p \in Pools \ built : tasks[p] = {}
    /\ \A c \in Callers :
        /\ pc[c] \in {"warm", "using", "closing"} /\ mine[c] \notin retired => tasks[mine[c]] = {}
        /\ pc[c] \in {"warm", "mapping"} => mine[c] \notin retired
        /\ doomed[c] # {} => pc[c] = "resetting"
    /\ \A p \in Pools : lease[p] <= issued

(* The inductive invariant.                                                *)
Inv ==
    /\ TypeOK /\ OneOwner /\ NoneDropped /\ IdleFit /\ OneSplitPerLease /\ Bookkeeping

(* A pool waits exactly when some width's list holds it at some index.     *)
LEMMA WaitingIndex ==
    ASSUME NEW q \in [Widths -> Seq(Pools)], NEW p
    PROVE  p \in UNION {ToSet(q[w]) : w \in Widths}
              <=> \E w \in Widths : \E i \in 1..Len(q[w]) : q[w][i] = p
<1>1. \A w \in Widths : DOMAIN q[w] = 1..Len(q[w])
    OBVIOUS
<1>. QED BY <1>1 DEF ToSet

(* What taking the last element off a sequence leaves.                     *)
LEMMA TakenLast ==
    ASSUME NEW S, NEW s \in Seq(S), s # <<>>
    PROVE  /\ Len(s) \in Nat \ {0} /\ Last(s) = s[Len(s)] /\ Last(s) \in S
           /\ Front(s) \in Seq(S) /\ Len(Front(s)) = Len(s) - 1
           /\ \A i \in 1..Len(Front(s)) : Front(s)[i] = s[i]
<1>. DEFINE n == Len(s) - 1
<1>1. Len(s) \in Nat \ {0} /\ n \in Nat
    OBVIOUS
<1>2. Last(s) = s[Len(s)] /\ Last(s) \in S
    BY <1>1 DEF Last
<1>3. Front(s) = [i \in 1..n |-> s[i]]
    BY <1>1 DEF Front
<1>4. \A i \in 1..n : s[i] \in S
    BY <1>1
<1>. HIDE DEF n
<1>5. Front(s) \in Seq(S) /\ Len(Front(s)) = n
    BY <1>1, <1>3, <1>4
<1>6. \A i \in 1..n : Front(s)[i] = s[i]
    BY <1>3
<1>. QED BY <1>1, <1>2, <1>5, <1>6 DEF n

(* The pool a caller holds is a pool.                                      *)
LEMMA LentIsPool ==
    ASSUME TypeOK, OneOwner, NEW c \in Callers, Lent(c)
    PROVE  /\ mine[c] \in Pools /\ mine[c] # None /\ mine[c] \in built /\ mine[c] \notin closed
           /\ mine[c] \notin Waiting /\ lease[mine[c]] \in Nat
BY NoneAssumption DEF TypeOK, OneOwner, LentOnce, Open

(* The invariants hold initially: no pool exists.                          *)
LEMMA InitInv == Init => Inv
<1>. SUFFICES ASSUME Init PROVE Inv
    OBVIOUS
<1>1. TypeOK
    BY DEF Init, TypeOK
<1>2. Waiting = {}
    BY DEF Init, Waiting, ToSet
<1>3. LentOnce
    BY DEF Init, LentOnce, Lent
<1>4. WaitsOnce
    BY <1>2, PoolLeaseAssumption DEF Init, WaitsOnce
<1>5. ResetOnce
    BY DEF Init, ResetOnce
<1>6. NoneDropped /\ IdleFit /\ OneSplitPerLease /\ Bookkeeping
    BY <1>2 DEF Init, NoneDropped, IdleFit, OneSplitPerLease, Bookkeeping, Open
<1>. QED BY <1>1, <1>3, <1>4, <1>5, <1>6 DEF Inv, OneOwner

(* A step that moves no pool and opens or ends no loan keeps what is said  *)
(* of where the pools are.                                                 *)
LEMMA NoPoolMoves ==
    ASSUME Inv, UNCHANGED <<idle, mine, doomed, built, closed>>,
           \A d \in Callers : Lent(d)' <=> Lent(d)
    PROVE  OneOwner' /\ NoneDropped' /\ Waiting' = Waiting
<1>1. Waiting' = Waiting
    BY DEF Waiting
<1>2. Open' = Open
    BY DEF Open
<1>3. LentOnce' /\ ResetOnce'
    BY <1>1, <1>2 DEF Inv, OneOwner, LentOnce, ResetOnce
<1>4. WaitsOnce'
    BY <1>1, <1>2 DEF Inv, OneOwner, WaitsOnce
<1>5. NoneDropped'
    BY <1>1, <1>2 DEF Inv, NoneDropped
<1>. QED BY <1>1, <1>3, <1>4, <1>5 DEF OneOwner

LEMMA LendInv ==
    ASSUME Inv, NEW c \in Callers, Lend(c)
    PROVE  Inv'
<1>. USE DEF Inv
<1>1. \A d \in Callers : Lent(d)' <=> Lent(d)
    BY DEF Lend, Goes, Lent, TypeOK
<1>2. OneOwner' /\ NoneDropped' /\ Waiting' = Waiting
    BY <1>1, NoPoolMoves DEF Lend, Numbers
<1>3. Lent(c) => mine[c] \in Pools /\ mine[c] \in built /\ mine[c] \notin Waiting
    BY LentIsPool
<1>4. TypeOK'
    BY <1>3 DEF Lend, Goes, TypeOK, Lent, Numbers
<1>5. IdleFit'
    BY <1>2, <1>3 DEF Lend, Goes, IdleFit, Lent, TypeOK, Numbers
<1>6. OneSplitPerLease'
    BY <1>3 DEF Lend, Goes, OneSplitPerLease, Bookkeeping, Lent, TypeOK, Numbers
<1>7. Bookkeeping'
    BY <1>3, OneOwner DEF Lend, Goes, Bookkeeping, Lent, TypeOK, OneOwner, LentOnce, Numbers
<1>. QED BY <1>2, <1>4, <1>5, <1>6, <1>7

LEMMA StartPhaseInv ==
    ASSUME Inv, NEW c \in Callers, StartPhase(c)
    PROVE  Inv'
<1>. USE DEF Inv
<1>1. \A d \in Callers : Lent(d)' <=> Lent(d)
    BY DEF StartPhase, Goes, Lent, TypeOK
<1>2. OneOwner' /\ NoneDropped' /\ Waiting' = Waiting
    BY <1>1, NoPoolMoves DEF StartPhase
<1>3. Lent(c) => mine[c] \in Pools /\ mine[c] \in built /\ mine[c] \notin Waiting
    BY LentIsPool
<1>4. TypeOK'
    BY <1>3 DEF StartPhase, Goes, TypeOK, Lent
<1>5. IdleFit'
    BY <1>2, <1>3 DEF StartPhase, Goes, IdleFit, Lent, TypeOK
<1>6. OneSplitPerLease'
    BY <1>3 DEF StartPhase, Goes, OneSplitPerLease, Bookkeeping, Lent, TypeOK
<1>7. Bookkeeping'
    BY <1>3, OneOwner DEF StartPhase, Goes, Bookkeeping, Lent, TypeOK, OneOwner, LentOnce
<1>. QED BY <1>2, <1>4, <1>5, <1>6, <1>7

LEMMA PhaseDrainedInv ==
    ASSUME Inv, NEW c \in Callers, PhaseDrained(c)
    PROVE  Inv'
<1>. USE DEF Inv
<1>1. \A d \in Callers : Lent(d)' <=> Lent(d)
    BY DEF PhaseDrained, Goes, Lent, TypeOK
<1>2. OneOwner' /\ NoneDropped' /\ Waiting' = Waiting
    BY <1>1, NoPoolMoves DEF PhaseDrained
<1>3. Lent(c) => mine[c] \in Pools /\ mine[c] \in built /\ mine[c] \notin Waiting
    BY LentIsPool
<1>4. TypeOK'
    BY <1>3 DEF PhaseDrained, Goes, TypeOK, Lent
<1>5. IdleFit'
    BY <1>2, <1>3 DEF PhaseDrained, Goes, IdleFit, Lent, TypeOK
<1>6. OneSplitPerLease'
    BY <1>3 DEF PhaseDrained, Goes, OneSplitPerLease, Bookkeeping, Lent, TypeOK
<1>7. Bookkeeping'
    BY <1>3, OneOwner DEF PhaseDrained, Goes, Bookkeeping, Lent, TypeOK, OneOwner, LentOnce
<1>. QED BY <1>2, <1>4, <1>5, <1>6, <1>7

LEMMA PhaseRetiresInv ==
    ASSUME Inv, NEW c \in Callers, PhaseRetires(c)
    PROVE  Inv'
<1>. USE DEF Inv
<1>1. \A d \in Callers : Lent(d)' <=> Lent(d)
    BY DEF PhaseRetires, Goes, Lent, TypeOK
<1>2. OneOwner' /\ NoneDropped' /\ Waiting' = Waiting
    BY <1>1, NoPoolMoves DEF PhaseRetires
<1>3. Lent(c) => mine[c] \in Pools /\ mine[c] \in built /\ mine[c] \notin Waiting
    BY LentIsPool
<1>4. TypeOK'
    BY <1>3 DEF PhaseRetires, Goes, TypeOK, Lent
<1>5. IdleFit'
    BY <1>2, <1>3 DEF PhaseRetires, Goes, IdleFit, Lent, TypeOK
<1>6. OneSplitPerLease'
    BY <1>3 DEF PhaseRetires, Goes, OneSplitPerLease, Bookkeeping, Lent, TypeOK
<1>7. Bookkeeping'
    BY <1>3, OneOwner DEF PhaseRetires, Goes, Bookkeeping, Lent, TypeOK, OneOwner, LentOnce
<1>. QED BY <1>2, <1>4, <1>5, <1>6, <1>7

LEMMA ResetEndsInv ==
    ASSUME Inv, NEW c \in Callers, ResetEnds(c)
    PROVE  Inv'
<1>. USE DEF Inv
<1>1. \A d \in Callers : Lent(d)' <=> Lent(d)
    BY DEF ResetEnds, Goes, Lent, TypeOK
<1>2. OneOwner' /\ NoneDropped' /\ Waiting' = Waiting
    BY <1>1, NoPoolMoves DEF ResetEnds
<1>3. Lent(c) => mine[c] \in Pools /\ mine[c] \in built /\ mine[c] \notin Waiting
    BY LentIsPool
<1>4. TypeOK'
    BY <1>3 DEF ResetEnds, Goes, TypeOK, Lent
<1>5. IdleFit'
    BY <1>2, <1>3 DEF ResetEnds, Goes, IdleFit, Lent, TypeOK
<1>6. OneSplitPerLease'
    BY <1>3 DEF ResetEnds, Goes, OneSplitPerLease, Bookkeeping, Lent, TypeOK
<1>7. Bookkeeping'
    BY <1>3, OneOwner DEF ResetEnds, Goes, Bookkeeping, Lent, TypeOK, OneOwner, LentOnce
<1>. QED BY <1>2, <1>4, <1>5, <1>6, <1>7

LEMMA CondemnInv ==
    ASSUME Inv, NEW c \in Callers, NEW raised \in BOOLEAN, Condemn(c, raised)
    PROVE  Inv'
<1>. USE DEF Inv
<1>1. \A d \in Callers : Lent(d)' <=> Lent(d)
    BY DEF Condemn, Goes, Lent, TypeOK
<1>2. OneOwner' /\ NoneDropped' /\ Waiting' = Waiting
    BY <1>1, NoPoolMoves DEF Condemn
<1>3. Lent(c) => mine[c] \in Pools /\ mine[c] \in built /\ mine[c] \notin Waiting
    BY LentIsPool
<1>4. TypeOK'
    BY <1>3 DEF Condemn, Goes, TypeOK, Lent
<1>5. IdleFit'
    BY <1>2, <1>3 DEF Condemn, Goes, IdleFit, Lent, TypeOK
<1>6. OneSplitPerLease'
    BY <1>3 DEF Condemn, Goes, OneSplitPerLease, Bookkeeping, Lent, TypeOK
<1>7. Bookkeeping'
    BY <1>3, OneOwner DEF Condemn, Goes, Bookkeeping, Lent, TypeOK, OneOwner, LentOnce
<1>. QED BY <1>2, <1>4, <1>5, <1>6, <1>7

LEMMA TasksEndInv ==
    ASSUME Inv, NEW p \in Pools, TasksEnd(p)
    PROVE  Inv'
<1>. USE DEF Inv
<1>1. OneOwner' /\ NoneDropped' /\ Waiting' = Waiting
    BY NoPoolMoves DEF TasksEnd, Lent
<1>2. TypeOK' /\ OneSplitPerLease' /\ Bookkeeping'
    BY DEF TasksEnd, TypeOK, OneSplitPerLease, Bookkeeping
<1>3. IdleFit'
    BY <1>1 DEF TasksEnd, IdleFit, TypeOK
<1>. QED BY <1>1, <1>2, <1>3

LEMMA StutterInv == Inv /\ UNCHANGED vars => Inv'
<1>. SUFFICES ASSUME Inv, UNCHANGED vars PROVE Inv'
    OBVIOUS
<1>. USE DEF Inv, vars
<1>1. OneOwner' /\ NoneDropped' /\ Waiting' = Waiting
    BY NoPoolMoves DEF Lent
<1>2. TypeOK' /\ OneSplitPerLease' /\ Bookkeeping'
    BY DEF TypeOK, OneSplitPerLease, Bookkeeping
<1>3. IdleFit'
    BY <1>1 DEF IdleFit
<1>. QED BY <1>1, <1>2, <1>3

(* The pool built is a new one: no caller, list or reset has it.           *)
LEMMA BuildInv ==
    ASSUME Inv, NEW c \in Callers, Build(c)
    PROVE  Inv'
<1>. USE DEF Inv
<1>1. PICK p \in Pools \ built :
            /\ built' = built \cup {p} /\ mine' = [mine EXCEPT ![c] = p] /\ Numbers(p)
    BY DEF Build
<1>2. TypeOK'
    BY <1>1 DEF Build, Goes, Numbers, TypeOK
<1>3. Waiting' = Waiting /\ ~Lent(c) /\ p \notin Waiting /\ Open' = Open \cup {p} /\ p \notin Open
    BY <1>1 DEF Build, Goes, Waiting, Lent, Open, OneOwner, WaitsOnce, Bookkeeping
<1>4. \A d \in Callers : mine'[d] = (IF d = c THEN p ELSE mine[d]) /\ (Lent(d)' <=> d = c \/ Lent(d))
    BY <1>1 DEF Build, Goes, Lent, TypeOK
<1>5. \A d \in Callers : p \notin doomed[d]
    BY <1>1 DEF OneOwner, ResetOnce, Open
<1>6. LentOnce'
    BY <1>1, <1>3, <1>4, <1>5 DEF Build, OneOwner, LentOnce
<1>7. WaitsOnce' /\ ResetOnce'
    BY <1>3, <1>5 DEF Build, OneOwner, WaitsOnce, ResetOnce
<1>8. NoneDropped'
    BY <1>3, <1>4 DEF Build, NoneDropped
<1>9. IdleFit'
    BY <1>3 DEF Build, IdleFit
<1>10. OneSplitPerLease'
    BY <1>1 DEF Build, Numbers, OneSplitPerLease, Bookkeeping, TypeOK
<1>11. Bookkeeping'
    BY <1>1, <1>3, <1>4 DEF Build, Goes, Numbers, Bookkeeping, TypeOK, Lent, OneOwner, LentOnce, Open
<1>. QED BY <1>2, <1>6, <1>7, <1>8, <1>9, <1>10, <1>11 DEF OneOwner

(* The pool closed was its caller's alone.                                 *)
LEMMA CloseMineInv ==
    ASSUME Inv, NEW c \in Callers, CloseMine(c)
    PROVE  Inv'
<1>. USE DEF Inv
<1>. DEFINE p == mine[c]
<1>1. Lent(c) /\ p \in Pools /\ p \in built /\ p \notin Waiting
    BY LentIsPool DEF CloseMine, Goes, Lent
<1>2. TypeOK'
    BY <1>1 DEF CloseMine, Goes, TypeOK
<1>3. Waiting' = Waiting /\ Open' = Open \ {p}
    BY DEF CloseMine, Waiting, Open
<1>4. \A d \in Callers : (Lent(d)' <=> d # c /\ Lent(d)) /\ (d # c => mine'[d] = mine[d])
    BY DEF CloseMine, Goes, Lent, TypeOK
<1>5. \A d \in Callers : p \notin doomed[d] /\ (Lent(d) /\ mine[d] = p => d = c)
    BY <1>1 DEF OneOwner, LentOnce
<1>6. LentOnce'
    BY <1>3, <1>4, <1>5 DEF CloseMine, OneOwner, LentOnce
<1>7. WaitsOnce' /\ ResetOnce'
    BY <1>1, <1>3, <1>5 DEF CloseMine, OneOwner, WaitsOnce, ResetOnce
<1>8. NoneDropped'
    BY <1>1, <1>3, <1>4, <1>5 DEF CloseMine, NoneDropped, Open
<1>9. IdleFit' /\ OneSplitPerLease'
    BY <1>3 DEF CloseMine, IdleFit, OneSplitPerLease
<1>10. Bookkeeping'
    BY <1>1, <1>4 DEF CloseMine, Goes, Bookkeeping, TypeOK
<1>. QED BY <1>2, <1>6, <1>7, <1>8, <1>9, <1>10 DEF OneOwner

(* A pool taken out by a reset is nobody else's.                           *)
LEMMA CloseDoomedInv ==
    ASSUME Inv, NEW c \in Callers, CloseDoomed(c)
    PROVE  Inv'
<1>. USE DEF Inv
<1>1. PICK p \in doomed[c] : closed' = closed \cup {p} /\ doomed' = [doomed EXCEPT ![c] = @ \ {p}]
    BY DEF CloseDoomed
<1>2. p \in built /\ p \in Pools /\ p \notin Waiting
    BY DEF OneOwner, ResetOnce, Open, TypeOK
<1>3. Waiting' = Waiting /\ Open' = Open \ {p} /\ \A d \in Callers : Lent(d)' <=> Lent(d)
    BY <1>1 DEF CloseDoomed, Waiting, Open, Lent
<1>4. \A d \in Callers : doomed'[d] = doomed[d] \ {p}
    BY <1>1 DEF OneOwner, ResetOnce, TypeOK
<1>5. \A d \in Callers : Lent(d) => mine[d] # p
    BY DEF OneOwner, LentOnce
<1>6. TypeOK'
    BY <1>1, <1>2 DEF CloseDoomed, TypeOK
<1>7. LentOnce'
    BY <1>3, <1>4, <1>5 DEF CloseDoomed, OneOwner, LentOnce
<1>8. WaitsOnce' /\ ResetOnce'
    BY <1>2, <1>3, <1>4 DEF CloseDoomed, OneOwner, WaitsOnce, ResetOnce
<1>9. NoneDropped'
    BY <1>3, <1>4 DEF CloseDoomed, NoneDropped, Open
<1>10. IdleFit' /\ OneSplitPerLease'
    BY <1>3 DEF CloseDoomed, IdleFit, OneSplitPerLease
<1>11. Bookkeeping'
    BY <1>1, <1>2, <1>4 DEF CloseDoomed, Bookkeeping, TypeOK
<1>. QED BY <1>6, <1>7, <1>8, <1>9, <1>10, <1>11 DEF OneOwner

(* Every waiting pool goes to the caller, and the cache is empty.          *)
LEMMA ResetInv ==
    ASSUME Inv, NEW c \in Callers, Reset(c)
    PROVE  Inv'
<1>. USE DEF Inv
<1>1. Waiting' = {}
    BY DEF Reset, Waiting, ToSet
<1>2. Waiting \subseteq Open /\ Open' = Open
    BY DEF Reset, Open, OneOwner, WaitsOnce
<1>3. \A d \in Callers : (Lent(d)' <=> Lent(d))
                         /\ doomed'[d] = (IF d = c THEN Waiting ELSE doomed[d]) /\ doomed[c] = {}
    BY DEF Reset, Goes, Lent, TypeOK, Bookkeeping
<1>4. TypeOK'
    BY <1>2 DEF Reset, Goes, TypeOK, Open
<1>5. LentOnce'
    BY <1>1, <1>2, <1>3 DEF Reset, OneOwner, LentOnce
<1>6. WaitsOnce'
    BY <1>1, <1>2, PoolLeaseAssumption DEF Reset, WaitsOnce
<1>7. ResetOnce'
    BY <1>1, <1>2, <1>3 DEF Reset, OneOwner, ResetOnce
<1>8. NoneDropped'
    BY <1>1, <1>2, <1>3 DEF Reset, NoneDropped
<1>9. IdleFit' /\ OneSplitPerLease'
    BY <1>1 DEF Reset, IdleFit, OneSplitPerLease
<1>10. Bookkeeping'
    BY <1>3 DEF Reset, Goes, Bookkeeping, TypeOK
<1>. QED BY <1>4, <1>5, <1>6, <1>7, <1>8, <1>9, <1>10 DEF OneOwner

(* The pool taken was the last of its width's list, and waited only there. *)
LEMMA TakeInv ==
    ASSUME Inv, NEW c \in Callers, NEW w \in Widths, Take(c, w)
    PROVE  Inv'
<1>. USE DEF Inv
<1>1. CASE idle[w] = <<>>
    <2>1. \A d \in Callers : Lent(d)' <=> Lent(d)
        BY <1>1 DEF Take, Goes, Lent, TypeOK
    <2>2. OneOwner' /\ NoneDropped' /\ Waiting' = Waiting
        BY <1>1, <2>1, NoPoolMoves DEF Take
    <2>3. Goes(c, "out", "cold") /\ UNCHANGED <<mine, idle, doomed, built, closed, retired, lease, issued, tasks>>
        BY <1>1 DEF Take
    <2>4. TypeOK'
        BY <2>3 DEF Take, Goes, TypeOK
    <2>5. IdleFit' /\ OneSplitPerLease'
        BY <2>2, <2>3 DEF IdleFit, OneSplitPerLease
    <2>6. Bookkeeping'
        BY <2>3 DEF Goes, TypeOK, Bookkeeping
    <2>. QED BY <2>2, <2>4, <2>5, <2>6
<1>2. CASE idle[w] # <<>>
    <2>. DEFINE s == idle[w]  p == Last(s)  r == Front(s)
    <2>1. idle \in [Widths -> Seq(Pools)] /\ s \in Seq(Pools)
        BY DEF TypeOK
    <2>2. /\ Len(s) \in Nat \ {0} /\ p = s[Len(s)] /\ p \in Pools
          /\ r \in Seq(Pools) /\ Len(r) = Len(s) - 1
          /\ \A i \in 1..Len(r) : r[i] = s[i]
        BY <1>2, <2>1, TakenLast
    <2>3. /\ Goes(c, "out", "warm") /\ mine' = [mine EXCEPT ![c] = p]
          /\ idle' = [idle EXCEPT ![w] = r]
        BY <1>2 DEF Take, Popped
    <2>. HIDE DEF r, p
    <2>4. idle' \in [Widths -> Seq(Pools)] /\ idle'[w] = r /\ \A v \in Widths : v # w => idle'[v] = idle[v]
        BY <2>1, <2>2, <2>3
    <2>5. /\ p \in Waiting /\ p \in Open
          /\ \A v \in Widths : \A i \in 1..Len(idle[v]) : idle[v][i] = p => v = w /\ i = Len(s)
        <3>1. Len(s) \in 1..Len(s) /\ idle[w][Len(s)] = p
            BY <2>2
        <3>2. p \in Waiting
            BY <2>1, <3>1, WaitingIndex DEF Waiting
        <3>. QED BY <3>1, <3>2 DEF OneOwner, WaitsOnce
    <2>6. Waiting' = Waiting \ {p}
        <3>1. ASSUME NEW q PROVE q \in Waiting' <=> q \in Waiting /\ q # p
            <4>1. q \in Waiting <=> \E v \in Widths : \E i \in 1..Len(idle[v]) : idle[v][i] = q
                BY <2>1, WaitingIndex DEF Waiting
            <4>2. q \in Waiting' <=> \E v \in Widths : \E i \in 1..Len(idle'[v]) : idle'[v][i] = q
                BY <2>4, WaitingIndex DEF Waiting
            <4>3. \A v \in Widths : \A i \in 1..Len(idle'[v]) :
                     i \in 1..Len(idle[v]) /\ idle'[v][i] = idle[v][i] /\ idle[v][i] # p
                BY <2>2, <2>4, <2>5
            <4>4. \A v \in Widths : \A i \in 1..Len(idle[v]) :
                     idle[v][i] # p => i \in 1..Len(idle'[v]) /\ idle'[v][i] = idle[v][i]
                BY <2>2, <2>4
            <4>5. ASSUME q \in Waiting' PROVE q \in Waiting /\ q # p
                <5>1. PICK v \in Widths : \E i \in 1..Len(idle'[v]) : idle'[v][i] = q
                    BY <4>2, <4>5
                <5>. QED BY <4>1, <4>3, <5>1
            <4>6. ASSUME q \in Waiting, q # p PROVE q \in Waiting'
                <5>1. PICK v \in Widths : \E i \in 1..Len(idle[v]) : idle[v][i] = q
                    BY <4>1, <4>6
                <5>. QED BY <4>2, <4>4, <4>6, <5>1
            <4>. QED BY <4>5, <4>6
        <3>. QED BY <3>1
    <2>7. \A d \in Callers : (Lent(d)' <=> d = c \/ Lent(d)) /\ mine'[d] = (IF d = c THEN p ELSE mine[d])
        BY <2>3 DEF Goes, Lent, TypeOK
    <2>8. ~Lent(c) /\ Open' = Open /\ \A d \in Callers : p \notin doomed[d] /\ (Lent(d) => mine[d] # p)
        BY <2>3, <2>5 DEF Take, Goes, Lent, Open, OneOwner, LentOnce, ResetOnce
    <2>9. TypeOK'
        BY <2>2, <2>3, <2>4 DEF Take, Goes, TypeOK
    <2>10. LentOnce'
        BY <2>5, <2>6, <2>7, <2>8 DEF Take, OneOwner, LentOnce
    <2>11. WaitsOnce'
        <3>1. \A v \in Widths : Len(idle'[v]) <= Retained
            BY <2>2, <2>4, PoolLeaseAssumption DEF OneOwner, WaitsOnce
        <3>2. \A u, v \in Widths : \A i \in 1..Len(idle'[u]), j \in 1..Len(idle'[v]) :
                 idle'[u][i] = idle'[v][j] => u = v /\ i = j
            <4>1. \A v \in Widths : \A i \in 1..Len(idle'[v]) :
                     i \in 1..Len(idle[v]) /\ idle'[v][i] = idle[v][i]
                BY <2>2, <2>4
            <4>. QED BY <4>1 DEF OneOwner, WaitsOnce
        <3>3. Waiting' \subseteq Open'
            BY <2>6, <2>8 DEF OneOwner, WaitsOnce
        <3>. QED BY <3>1, <3>2, <3>3 DEF WaitsOnce
    <2>12. ResetOnce' /\ NoneDropped'
        BY <2>6, <2>7, <2>8 DEF Take, OneOwner, ResetOnce, NoneDropped
    <2>13. IdleFit' /\ OneSplitPerLease'
        BY <2>6 DEF Take, IdleFit, OneSplitPerLease
    <2>14. Bookkeeping'
        BY <2>3, <2>5, <2>7, <2>8 DEF Take, Goes, Bookkeeping, IdleFit, TypeOK
    <2>. QED BY <2>9, <2>10, <2>11, <2>12, <2>13, <2>14 DEF OneOwner
<1>. QED BY <1>1, <1>2

(* The pool given back was its caller's alone, and waits in one place now. *)
LEMMA GiveBackInv ==
    ASSUME Inv, NEW c \in Callers, GiveBack(c)
    PROVE  Inv'
<1>. USE DEF Inv
<1>. DEFINE p == mine[c]  w == width[c]  s == idle[w]
<1>1. pc[c] = "using" /\ Lent(c) /\ w \in Widths
    BY DEF GiveBack, Goes, Lent, TypeOK
<1>2. p \in Pools /\ p \in built /\ p \in Open /\ p \notin Waiting /\ p \notin retired /\ tasks[p] = {}
    BY <1>1, LentIsPool DEF Open, GiveBack, Fit, Bookkeeping
<1>3. CASE ~ (Len(s) < Retained)
    <2>1. \A d \in Callers : Lent(d)' <=> Lent(d)
        BY <1>3 DEF GiveBack, Goes, Lent, TypeOK
    <2>2. OneOwner' /\ NoneDropped' /\ Waiting' = Waiting
        BY <1>3, <2>1, NoPoolMoves DEF GiveBack
    <2>3. TypeOK' /\ IdleFit' /\ OneSplitPerLease'
        BY <1>3, <2>2 DEF GiveBack, Goes, TypeOK, IdleFit, OneSplitPerLease
    <2>4. Bookkeeping'
        BY <1>1, <1>2, <1>3 DEF GiveBack, Goes, TypeOK, Bookkeeping
    <2>. QED BY <2>2, <2>3, <2>4
<1>4. CASE Len(s) < Retained
    <2>. DEFINE r == Append(s, p)
    <2>1. idle \in [Widths -> Seq(Pools)] /\ s \in Seq(Pools)
        BY <1>1 DEF TypeOK
    <2>2. Goes(c, "using", "out") /\ mine' = [mine EXCEPT ![c] = None] /\ idle' = [idle EXCEPT ![w] = r]
        BY <1>4 DEF GiveBack, Kept
    <2>3. /\ r \in Seq(Pools) /\ Len(r) = Len(s) + 1 /\ Len(s) \in Nat /\ r[Len(r)] = p
          /\ \A i \in 1..Len(s) : r[i] = s[i]
        BY <1>2, <2>1
    <2>. HIDE DEF r
    <2>4. idle' \in [Widths -> Seq(Pools)] /\ idle'[w] = r /\ \A v \in Widths : v # w => idle'[v] = idle[v]
        BY <1>1, <2>1, <2>2, <2>3
    <2>5. \A v \in Widths : \A i \in 1..Len(idle[v]) : idle[v][i] # p
        BY <1>2, <2>1, WaitingIndex DEF Waiting
    <2>6. Waiting' = Waiting \cup {p}
        <3>1. ASSUME NEW q PROVE q \in Waiting' <=> q \in Waiting \/ q = p
            <4>1. q \in Waiting <=> \E v \in Widths : \E i \in 1..Len(idle[v]) : idle[v][i] = q
                BY <2>1, WaitingIndex DEF Waiting
            <4>2. q \in Waiting' <=> \E v \in Widths : \E i \in 1..Len(idle'[v]) : idle'[v][i] = q
                BY <2>4, WaitingIndex DEF Waiting
            <4>3. ASSUME NEW v \in Widths, NEW i \in 1..Len(idle[v])
                  PROVE  i \in 1..Len(idle'[v]) /\ idle'[v][i] = idle[v][i]
                <5>1. CASE v = w
                    BY <2>3, <2>4, <5>1
                <5>2. CASE v # w
                    BY <2>4, <5>2
                <5>. QED BY <5>1, <5>2
            <4>4. \A v \in Widths : \A i \in 1..Len(idle'[v]) :
                     (i \in 1..Len(idle[v]) /\ idle'[v][i] = idle[v][i]) \/ idle'[v][i] = p
                BY <2>3, <2>4
            <4>5. Len(r) \in 1..Len(idle'[w]) /\ idle'[w][Len(r)] = p
                BY <2>3, <2>4
            <4>. QED BY <1>1, <4>1, <4>2, <4>3, <4>4, <4>5
        <3>. QED BY <3>1
    <2>7. Open' = Open /\ \A d \in Callers : (Lent(d)' <=> d # c /\ Lent(d)) /\ (d # c => mine'[d] = mine[d])
        BY <2>2 DEF GiveBack, Goes, Lent, Open, TypeOK
    <2>8. \A d \in Callers : p \notin doomed[d] /\ (Lent(d) /\ mine[d] = p => d = c)
        BY <1>1 DEF OneOwner, LentOnce
    <2>9. TypeOK'
        BY <1>1, <2>2, <2>4 DEF GiveBack, Goes, TypeOK
    <2>10. LentOnce'
        BY <2>6, <2>7, <2>8 DEF GiveBack, OneOwner, LentOnce
    <2>11. WaitsOnce'
        <3>1. \A v \in Widths : Len(idle'[v]) <= Retained
            BY <1>1, <1>4, <2>3, <2>4, PoolLeaseAssumption DEF OneOwner, WaitsOnce
        <3>2. \A v \in Widths : \A i \in 1..Len(idle'[v]) :
                 \/ i \in 1..Len(idle[v]) /\ idle'[v][i] = idle[v][i] /\ idle[v][i] # p
                 \/ v = w /\ i = Len(r) /\ idle'[v][i] = p
            BY <2>3, <2>4, <2>5
        <3>3. \A u, v \in Widths : \A i \in 1..Len(idle'[u]), j \in 1..Len(idle'[v]) :
                 idle'[u][i] = idle'[v][j] => u = v /\ i = j
            BY <3>2 DEF OneOwner, WaitsOnce
        <3>4. Waiting' \subseteq Open'
            BY <1>2, <2>6, <2>7 DEF OneOwner, WaitsOnce
        <3>. QED BY <3>1, <3>3, <3>4 DEF WaitsOnce
    <2>12. ResetOnce' /\ NoneDropped'
        BY <2>6, <2>7, <2>8 DEF GiveBack, OneOwner, ResetOnce, NoneDropped
    <2>13. IdleFit' /\ OneSplitPerLease'
        BY <1>2, <2>6 DEF GiveBack, IdleFit, OneSplitPerLease
    <2>14. Bookkeeping'
        BY <2>2, <2>7 DEF GiveBack, Goes, Bookkeeping, TypeOK
    <2>. QED BY <2>9, <2>10, <2>11, <2>12, <2>13, <2>14 DEF OneOwner
<1>. QED BY <1>3, <1>4

-----------------------------------------------------------------------------
LEMMA NextInv == Inv /\ [Next]_vars => Inv'
<1>. SUFFICES ASSUME Inv, [Next]_vars PROVE Inv'
    OBVIOUS
<1>1. ASSUME NEW c \in Callers, NEW w \in Widths, Take(c, w) PROVE Inv'
    BY <1>1, TakeInv
<1>2. ASSUME NEW c \in Callers, StartPhase(c) \/ Reset(c) PROVE Inv'
    BY <1>2, StartPhaseInv, ResetInv
<1>3. ASSUME NEW c \in Callers, Exits(c) PROVE Inv'
    BY <1>3, GiveBackInv, CondemnInv DEF Exits
<1>4. ASSUME NEW c \in Callers, Proceeds(c) PROVE Inv'
    BY <1>3, <1>4, BuildInv, LendInv, PhaseDrainedInv, PhaseRetiresInv, CloseMineInv,
       CloseDoomedInv, ResetEndsInv DEF Proceeds
<1>5. ASSUME NEW p \in Pools, TasksEnd(p) PROVE Inv'
    BY <1>5, TasksEndInv
<1>6. CASE UNCHANGED vars
    BY <1>6, StutterInv
<1>. QED BY <1>1, <1>2, <1>4, <1>5, <1>6 DEF Next

(* The inductive invariant holds in every behaviour of the pool cache.     *)
THEOREM Invariance == Spec => []Inv
BY InitInv, NextInv, PTL DEF Spec

(* However the callers interleave, PoolLease and reset_pools keep the      *)
(* types of their state.                                                   *)
THEOREM TypeCorrect == Spec => []TypeOK
BY Invariance, PTL DEF Inv

(* Every pool is lent to one caller, or waits once in IDLE_POOLS, or is    *)
(* being shut down by one reset_pools; a pool shut down is nobody's.       *)
THEOREM Ownership == Spec => []OneOwner
BY Invariance, PTL DEF Inv

(* No open pool is ever lost: __exit__ and reset_pools leave none that     *)
(* nobody has and nobody closed.                                           *)
THEOREM NothingDropped == Spec => []NoneDropped
BY Invariance, PTL DEF Inv

(* A pool __enter__ can take from IDLE_POOLS is one no phase of which      *)
(* failed or was abandoned, and no task of an earlier split runs in it.    *)
THEOREM Lendable == Spec => []IdleFit
BY Invariance, PTL DEF Inv

(* The number running_lease() answers in a task names the split the task   *)
(* belongs to and no other.                                                *)
THEOREM LeaseNamesSplit == Spec => []OneSplitPerLease
BY Invariance, PTL DEF Inv
=============================================================================
