--------------------------- MODULE WorkPoolProofs ---------------------------
(***************************************************************************)
(* Proofs about WorkPool, for any workers, bounds and verdicts: a phase    *)
(* does what PhaseContract promises, and a pool that is not retired is     *)
(* whole.  Both rest on an account of the slots: whatever was submitted is *)
(* still pending, or filed, or in the caller's hands, until a bug or an    *)
(* abandoned phase gives the account up and retires the pool.              *)
(***************************************************************************)
EXTENDS WorkPool, DataInduction, FiniteSetTheorems

Pending == ToSet(futures)
Sent(s) == s < next \/ (items <= s /\ s < size)
Stations == {"loop", "admit", "beside", "takeback", "back", "wait",
             "drain", "unwind", "cancel", "left", "joining", "closed"}
(* Until something fails, nothing has been cancelled but what the caller   *)
(* runs itself; until the account is given up, nothing is forgotten.       *)
Untroubled == pc \in {"loop", "admit", "beside", "takeback", "back", "wait"}
Accounted == Untroubled \/ pc = "drain"

Shape ==
    /\ verdict \in [Slot -> AllVerdicts] /\ todo \in Seq(Slot) /\ spare \in Int
    /\ pc \in Stations /\ outcome \in [kind : Left \cup {"none"}, at : Slot \cup {None}]
    /\ (back # None) = (pc = "back")
    /\ own => pc \in {"loop", "admit"}

(* A slot's future, its runs and its verdict agree.                        *)
Agree ==
    \A s \in Slot :
        /\ (status[s] = "unsent") = ~Sent(s)
        /\ status[s] \in {"unsent", "queued"} => ran[s] = 0
        /\ status[s] \in Ended \cup {"running"} => ran[s] > 0
        /\ status[s] = "ok" => verdict[s] \in {"ok", "blocks"}
        /\ status[s] = "refused" => verdict[s] = "refuse"
        /\ status[s] = "bug" => verdict[s] = "bug"

(* Each slot waits in the queue once, and runs on one worker or here.      *)
Crew ==
    /\ IsInjective(queue)
    /\ \A s \in ToSet(queue) : status[s] \in {"queued", "cancelled"}
    /\ \A w \in Workers : on[w] # None => status[on[w]] = "running"
    /\ \A v, w \in Workers : on[v] # None /\ on[v] = on[w] => v = w
    /\ back # None => status[back] \in {"cancelled", "notified"} /\ ran[back] > 0

(* What is filed ran here or there, and has ended.                         *)
Filed ==
    /\ \A s \in results : ran[s] > 0 /\ s \notin InHand /\ verdict[s] \in {"ok", "blocks"}
    /\ \A s \in failures : ran[s] > 0 /\ s \notin InHand /\ verdict[s] = "refuse"
    /\ pc \in {"loop", "admit", "beside"} => failures = {}
    /\ pc = "drain" => failures # {}

(* Where every slot is.                                                    *)
Account ==
    /\ \A s \in Pending : Sent(s)
    /\ Accounted => \A s \in Slot : Sent(s) => s \in Pending \cup results \cup failures \cup {back}
    /\ Accounted \/ pc = "unwind" =>
        \A s \in Slot : status[s] \in {"queued", "running"} => s \in Pending
    /\ pc \in {"unwind", "cancel"} => \A s \in Slot : status[s] = "queued" => s \in ToSet(todo)
    /\ OutsideMap => \A s \in Slot : status[s] # "queued" /\ (status[s] = "running" => retired # "no")

(* What was cancelled and by whom: a slot taken back is pending no more,   *)
(* and a drain cancels only what comes after the earliest refusal.         *)
Revoked == {"cancelled", "notified"}
Withdrawn ==
    /\ \A s \in Pending : status[s] \in Revoked => ran[s] = 0
    /\ Untroubled => \A s \in Slot : status[s] \in Revoked => ran[s] > 0
    /\ pc = "drain" => \A s \in Slot : status[s] \in Revoked /\ ran[s] = 0 => s > Min(failures)

(* Late items overtake early ones only behind the window.                  *)
Overtaking ==
    /\ own => size = items /\ Len(futures) = next
    /\ pc = "beside" \/ size > items => (items <= Ready => next = items)

(* How the phase was left, and what that says of the pool.                 *)
Departure ==
    /\ ~OutsideMap /\ pc # "cancel" => retired = "no" /\ outcome = NotLeft
    /\ pc = "cancel" => retired = outcome.kind
    /\ pc = "cancel" \/ (OutsideMap /\ retired # "no") => outcome.kind \in {"failed", "abandoned"}
    /\ OutsideMap => outcome.kind \in Left
    /\ pc = "cancel" /\ outcome.at # None =>
        /\ outcome.kind = "failed" /\ verdict[outcome.at] = "bug"
        /\ ran[outcome.at] > 0 /\ outcome.at \notin InHand

Inv ==
    /\ TypeOK /\ Shape /\ Agree /\ Crew /\ Filed
    /\ Account /\ Withdrawn /\ Overtaking /\ Departure

-----------------------------------------------------------------------------

(* A slot is a natural, and None is none of them; the window is one too.   *)
LEMMA Slots == Slot \subseteq Nat /\ None \notin Slot /\ Ready \in Nat
<1>1. Cardinality(Workers) \in Nat /\ ReadyFactor \in Nat
    BY FS_CardinalityType, WorkPoolAssumption
<1>2. \A m, n \in Nat : m * n \in Nat
    OBVIOUS
<1>. QED BY <1>1, <1>2, WorkPoolAssumption DEF Slot, None, Ready

(* What the type invariant says: of the slots, of what is kept for each    *)
(* slot and worker, and of the counts.                                     *)
LEMMA Within ==
    ASSUME Inv
    PROVE  /\ Pending \subseteq Slot /\ ToSet(queue) \subseteq Slot /\ ToSet(todo) \subseteq Slot
           /\ results \subseteq Slot /\ failures \subseteq Slot /\ back \in Slot \cup {None}
           /\ outcome.at \in Slot \cup {None}
<1>1. Pending \subseteq Slot /\ ToSet(queue) \subseteq Slot /\ ToSet(todo) \subseteq Slot
    BY Queued DEF Inv, TypeOK, Shape, Pending
<1>. QED BY <1>1 DEF Inv, TypeOK, Shape

LEMMA Types ==
    ASSUME Inv
    PROVE  /\ status \in [Slot -> Statuses] /\ ran \in [Slot -> Nat] /\ verdict \in [Slot -> AllVerdicts]
           /\ on \in [Workers -> Slot \cup {None}]
BY DEF Inv, TypeOK, Shape

LEMMA Sizes ==
    ASSUME Inv
    PROVE  items \in Nat /\ size \in Nat /\ next \in Nat /\ items <= size /\ next <= items
BY WorkPoolAssumption DEF Inv, TypeOK

KeptUpTo(q, S, k, F) ==
    F = [n \in 0..k |-> IF n = 0 THEN <<>> ELSE IF q[n] \in S THEN Append(F[n - 1], q[n]) ELSE F[n - 1]]
LEMMA KeptExists ==
    ASSUME NEW T, NEW q \in Seq(T), NEW S
    PROVE  \E F : KeptUpTo(q, S, Len(q), F)
<1>. DEFINE Good == {k \in Nat : \E F : KeptUpTo(q, S, k, F)}
<1>1. 0 \in Good
    <2>1. KeptUpTo(q, S, 0, [n \in 0..0 |-> <<>>]) BY DEF KeptUpTo
    <2>. QED BY <2>1
<1>2. ASSUME NEW k \in Nat, k \in Good PROVE k + 1 \in Good
    <2>1. PICK F : KeptUpTo(q, S, k, F) BY <1>2
    <2>. DEFINE more == IF q[k + 1] \in S THEN Append(F[k], q[k + 1]) ELSE F[k]
                G == [n \in 0..(k + 1) |-> IF n = k + 1 THEN more ELSE F[n]]
    <2>2. ASSUME NEW n \in 0..(k + 1)
          PROVE G[n] = IF n = 0 THEN <<>> ELSE IF q[n] \in S THEN Append(G[n - 1], q[n]) ELSE G[n - 1]
        <3>1. CASE n = k + 1
            BY <3>1
        <3>2. CASE n # k + 1
            <4>1. n \in 0..k BY <3>2
            <4>2. F[n] = IF n = 0 THEN <<>> ELSE IF q[n] \in S THEN Append(F[n - 1], q[n]) ELSE F[n - 1]
                BY <2>1, <4>1 DEF KeptUpTo
            <4>3. G[n] = F[n] /\ (n # 0 => G[n - 1] = F[n - 1]) BY <4>1
            <4>. QED BY <4>2, <4>3
        <3>. QED BY <3>1, <3>2
    <2>3. KeptUpTo(q, S, k + 1, G)
        BY <2>2 DEF KeptUpTo
    <2>. QED BY <2>3
<1>3. \A k \in Nat : k \in Good
    <2>. HIDE DEF Good
    <2>. QED BY <1>1, <1>2, Climb
<1>4. Len(q) \in Nat BY LenProperties
<1>. QED BY <1>3, <1>4

LEMMA KeptIs ==
    ASSUME NEW T, NEW q \in Seq(T), NEW S
    PROVE  /\ Kept(q, S) \in Seq(T)
           /\ ToSet(Kept(q, S)) = ToSet(q) \cap S
<1>. DEFINE F == CHOOSE F : KeptUpTo(q, S, Len(q), F)
            upto(k) == {q[i] : i \in 1..k}
            Good == {k \in Nat : k <= Len(q) => F[k] \in Seq(T) /\ ToSet(F[k]) = upto(k) \cap S}
<1>1. KeptUpTo(q, S, Len(q), F)
    BY KeptExists
<1>2. Kept(q, S) = F[Len(q)]
    BY DEF Kept, KeptUpTo
<1>3. \A n \in 0..Len(q) : F[n] = IF n = 0 THEN <<>> ELSE IF q[n] \in S THEN Append(F[n - 1], q[n]) ELSE F[n - 1]
    BY <1>1 DEF KeptUpTo
<1>. HIDE DEF F
<1>4. Len(q) \in Nat /\ DOMAIN q = 1..Len(q) /\ \A i \in 1..Len(q) : q[i] \in T
    BY LenProperties, ElementOfSeq
<1>5. 0 \in Good
    <2>1. F[0] = <<>>
        BY <1>3, <1>4
    <2>2. <<>> \in Seq(T) /\ ToSet(<<>>) = {} /\ upto(0) = {}
        BY EmptySeq DEF ToSet
    <2>. QED BY <2>1, <2>2
<1>6. ASSUME NEW k \in Nat, k \in Good PROVE k + 1 \in Good
    <2>. SUFFICES ASSUME k + 1 <= Len(q)
                  PROVE F[k + 1] \in Seq(T) /\ ToSet(F[k + 1]) = upto(k + 1) \cap S
        OBVIOUS
    <2>1. F[k] \in Seq(T) /\ ToSet(F[k]) = upto(k) \cap S
        BY <1>6, <1>4
    <2>2. F[k + 1] = IF q[k + 1] \in S THEN Append(F[k], q[k + 1]) ELSE F[k]
        <3>1. k + 1 \in 0..Len(q) /\ k + 1 # 0 /\ (k + 1) - 1 = k
            BY <1>4
        <3>. HIDE DEF upto, Good
        <3>. QED BY <1>3, <3>1
    <2>3. q[k + 1] \in T /\ upto(k + 1) = upto(k) \cup {q[k + 1]}
        BY <1>4
    <2>. HIDE DEF upto, Good
    <2>4. CASE q[k + 1] \in S
        <3>1. Append(F[k], q[k + 1]) \in Seq(T) /\ ToSet(Append(F[k], q[k + 1])) = ToSet(F[k]) \cup {q[k + 1]}
            BY <2>1, <2>3, Queued, AppendProperties
        <3>. QED BY <3>1, <2>1, <2>2, <2>3, <2>4
    <2>5. CASE q[k + 1] \notin S
        BY <2>1, <2>2, <2>3, <2>5
    <2>. QED BY <2>4, <2>5
<1>7. \A k \in Nat : k \in Good
    <2>. HIDE DEF Good
    <2>. QED BY <1>5, <1>6, Climb
<1>8. F[Len(q)] \in Seq(T) /\ ToSet(F[Len(q)]) = upto(Len(q)) \cap S
    <2>1. Len(q) \in Good
        BY <1>4, <1>7
    <2>. HIDE DEF upto
    <2>. QED BY <1>4, <2>1
<1>9. upto(Len(q)) = ToSet(q)
    BY <1>4 DEF ToSet
<1>. HIDE DEF upto
<1>. QED BY <1>2, <1>8, <1>9

(* The head of the loop: whoever leaves with results has nothing pending.  *)
LEMMA StepLoop == ASSUME Inv, Loop PROVE Inv'
<1>1. futures = <<>> => Pending = {}
    BY DEF Pending, ToSet
<1>2. TypeOK'
    <2>1. TypeOK
        BY DEF Inv
    <2>2. UNCHANGED <<items, size, next, own, futures, queue, results, failures, status, ran, on, back, retired>>
        BY DEF Loop, callVars, phaseVars, poolVars
    <2>3. outcome'.kind \in Left \cup {"none"}
        BY <2>1 DEF Loop, Leave, Left, TypeOK
    <2>. QED BY <2>1, <2>2, <2>3 DEF TypeOK
<1>3. Shape'
    BY <1>1, Slots, Within, Types
       DEF Loop, Leave, Left, TypeOK, Shape, Stations, NotLeft, Inv, callVars, phaseVars,
       callerVars, poolVars
<1>4. Agree'
    BY <1>1, Types, Sizes
       DEF Loop, Leave, Left, Agree, Sent, Ended, Inv, callVars, phaseVars, callerVars, poolVars
<1>5. Crew'
    BY <1>1, Slots, Within, Types
       DEF Loop, Leave, Left, Agree, Crew, Inv, callVars, phaseVars, callerVars, poolVars
<1>6. Filed'
    BY <1>1, Within, Slots
       DEF Loop, Leave, Left, Filed, InHand, Ended, Inv, callVars, phaseVars, callerVars, poolVars
<1>7. Account'
    BY <1>1, Within, Types, Sizes
       DEF Loop, Leave, Left, Agree, Account, Pending, Sent, Accounted, Untroubled, OutsideMap,
       Ended, Revoked, Inv, callVars, phaseVars, callerVars, poolVars
<1>8. Withdrawn'
    BY <1>1, Within, Types
       DEF Loop, Leave, Left, Agree, Withdrawn, Pending, Untroubled, Revoked, Ended, Inv, callVars,
       phaseVars, callerVars, poolVars
<1>9. Overtaking'
    BY <1>1, Slots, Sizes
       DEF Loop, Leave, Left, TypeOK, Shape, Overtaking, Inv, callVars, phaseVars, callerVars,
       poolVars
<1>10. Departure'
    BY <1>1, Within, Types, Slots
       DEF Loop, Leave, Left, Agree, Departure, InHand, NotLeft, OutsideMap, Inv, callVars,
       phaseVars, callerVars, poolVars
<1>. QED BY <1>2, <1>3, <1>4, <1>5, <1>6, <1>7, <1>8, <1>9, <1>10 DEF Inv

(* An item is sent: it was not in the queue, and is pending now.           *)
LEMMA StepAdmit == ASSUME Inv, Admit PROVE Inv'
<1>1. next \in Slot /\ next \notin ToSet(queue) /\ futures \in Seq(Slot) /\ queue \in Seq(Slot)
    <2>1. futures \in Seq(Slot) /\ queue \in Seq(Slot) /\ size \in items..(items + MaxLate) /\ next \in 0..items /\ items \in 0..MaxItems
        BY DEF Inv, TypeOK
    <2>2. next \in Slot
        BY <2>1, WorkPoolAssumption DEF Admit, MayAdmit, Slot
    <2>3. status[next] = "unsent"
        BY <2>1, <2>2, WorkPoolAssumption DEF Admit, MayAdmit, Inv, Agree, Sent
    <2>. QED BY <2>1, <2>2, <2>3 DEF Inv, Crew
<1>2. ToSet(futures') = Pending \cup {next} /\ futures' \in Seq(Slot) /\ Len(futures') = Len(futures) + 1
    BY <1>1, Queued, AppendProperties DEF Admit, MayAdmit, Send, Pending
<1>3. ToSet(queue') = ToSet(queue) \cup {next} /\ queue' \in Seq(Slot) /\ IsInjective(queue')
    BY <1>1, Queued, Lined, AppendProperties DEF Admit, MayAdmit, Send, Inv, Crew
<1>4. /\ status[next] = "unsent" /\ status' \in [Slot -> Statuses] /\ status'[next] = "queued"
      /\ \A s \in Slot \ {next} : status'[s] = status[s]
    <2>1. items \in Nat /\ size \in items..(items + MaxLate) /\ next \in 0..items /\ status \in [Slot -> Statuses]
        BY WorkPoolAssumption DEF Inv, TypeOK
    <2>2. status[next] = "unsent"
        BY <1>1, <2>1, WorkPoolAssumption DEF Admit, MayAdmit, Inv, Agree, Sent
    <2>. QED BY <1>1, <2>1, <2>2 DEF Admit, MayAdmit, Send, Statuses
<1>5. \A s \in Slot : Sent(s)' <=> Sent(s) \/ s = next
    <2>1. items \in Nat /\ size \in items..(items + MaxLate) /\ next \in 0..items /\ MaxLate \in Nat
        BY WorkPoolAssumption DEF Inv, TypeOK
    <2>. QED BY <2>1, Slots DEF Admit, MayAdmit, Sent, callVars
<1>6. TypeOK'
    <2>1. TypeOK
        BY DEF Inv
    <2>2. UNCHANGED <<items, size, own, results, failures, ran, on, back, retired, outcome>>
        BY DEF Admit, callVars, callerVars
    <2>3. next' \in 0..items
        BY Sizes DEF Admit, MayAdmit
    <2>. QED BY <1>2, <1>3, <1>4, <2>1, <2>2, <2>3 DEF TypeOK
<1>7. Shape'
    BY <1>1, <1>2, <1>3, <1>4, Slots, Within, Types
       DEF Admit, Send, MayAdmit, TypeOK, Shape, Stations, Left, NotLeft, Inv, callVars, phaseVars,
       callerVars, poolVars
<1>8. Agree'
    <2>1. verdict' = verdict /\ ran' = ran
        BY DEF Admit, callVars
    <2>. QED BY <1>1, <1>4, <1>5, <2>1 DEF Inv, Agree, Ended
<1>9. Crew'
    BY <1>1, <1>2, <1>3, <1>4, Slots, Within, Types
       DEF Admit, Send, MayAdmit, Agree, Crew, Inv, callVars, phaseVars, callerVars, poolVars
<1>10. Filed'
    BY <1>1, <1>2, <1>3, <1>4, Within, Slots
       DEF Admit, Send, MayAdmit, Filed, InHand, Ended, Inv, callVars, phaseVars, callerVars,
       poolVars
<1>11. Account'
    <2>1. pc = "admit" /\ pc' = "admit" /\ back' = back /\ results' = results /\ failures' = failures
        BY DEF Admit, callerVars
    <2>2. \A s \in Pending' : Sent(s)'
        BY <1>1, <1>2, <1>5, Within DEF Inv, Account, Pending
    <2>3. \A s \in Slot : Sent(s)' => s \in (Pending \cup results \cup failures \cup {back})'
        BY <1>2, <1>5, <2>1 DEF Inv, Account, Pending, Accounted, Untroubled
    <2>4. \A s \in Slot : status'[s] \in {"queued", "running"} => s \in Pending'
        BY <1>2, <1>4, <2>1 DEF Inv, Account, Pending, Accounted, Untroubled
    <2>. QED BY <2>1, <2>2, <2>3, <2>4 DEF Account, OutsideMap
<1>12. Withdrawn'
    BY <1>1, <1>2, <1>3, <1>4, Within, Types
       DEF Admit, Send, MayAdmit, Agree, Withdrawn, Pending, Untroubled, Revoked, Ended, Inv,
       callVars, phaseVars, callerVars, poolVars
<1>13. Overtaking'
    BY <1>1, <1>2, <1>3, <1>4, Slots, Sizes
       DEF Admit, Send, MayAdmit, TypeOK, Shape, Overtaking, Inv, callVars, phaseVars, callerVars,
       poolVars
<1>14. Departure'
    BY <1>1, <1>2, <1>3, <1>4, Within, Types, Slots
       DEF Admit, Send, MayAdmit, Agree, Departure, InHand, Left, NotLeft, OutsideMap, Inv,
       callVars, phaseVars, callerVars, poolVars
<1>. QED BY <1>6, <1>7, <1>8, <1>9, <1>10, <1>11, <1>12, <1>13, <1>14 DEF Inv

(* A closed window lets late items in only behind every item.              *)
LEMMA StepAdmitted == ASSUME Inv, Admitted PROVE Inv'
<1>1. futures = <<>> => Pending = {}
    BY DEF Pending, ToSet
<1>2. TypeOK'
    BY <1>1, Slots, Within, Types
       DEF Admitted, MayAdmit, AfterShare, TypeOK, Shape, Statuses, Left, NotLeft, Inv, callVars,
       phaseVars, callerVars, poolVars
<1>3. Shape'
    BY <1>1, Slots, Within, Types
       DEF Admitted, MayAdmit, AfterShare, TypeOK, Shape, Stations, Left, NotLeft, Inv, callVars,
       phaseVars, callerVars, poolVars
<1>4. Agree'
    BY <1>1, Types, Sizes
       DEF Admitted, MayAdmit, AfterShare, Agree, Sent, Ended, Inv, callVars, phaseVars, callerVars,
       poolVars
<1>5. Crew'
    BY <1>1, Slots, Within, Types
       DEF Admitted, MayAdmit, AfterShare, Agree, Crew, Inv, callVars, phaseVars, callerVars,
       poolVars
<1>6. Filed'
    BY <1>1, Within, Slots
       DEF Admitted, MayAdmit, AfterShare, Filed, InHand, Ended, Inv, callVars, phaseVars,
       callerVars, poolVars
<1>7. Account'
    BY <1>1, Within, Types, Sizes
       DEF Admitted, MayAdmit, AfterShare, Agree, Account, Pending, Sent, Accounted, Untroubled,
       OutsideMap, Ended, Revoked, Inv, callVars, phaseVars, callerVars, poolVars
<1>8. Withdrawn'
    BY <1>1, Within, Types
       DEF Admitted, MayAdmit, AfterShare, Agree, Withdrawn, Pending, Untroubled, Revoked, Ended,
       Inv, callVars, phaseVars, callerVars, poolVars
<1>9. Overtaking'
    BY <1>1, Slots, Sizes
       DEF Admitted, MayAdmit, AfterShare, TypeOK, Shape, Overtaking, Inv, callVars, phaseVars,
       callerVars, poolVars
<1>10. Departure'
    BY <1>1, Within, Types, Slots
       DEF Admitted, MayAdmit, AfterShare, Agree, Departure, InHand, Left, NotLeft, OutsideMap, Inv,
       callVars, phaseVars, callerVars, poolVars
<1>. QED BY <1>2, <1>3, <1>4, <1>5, <1>6, <1>7, <1>8, <1>9, <1>10 DEF Inv

(* A late item is sent, like any other.                                    *)
LEMMA StepBesideSubmits == ASSUME Inv, BesideSubmits PROVE Inv'
<1>1. size \in Slot /\ size \notin ToSet(queue) /\ futures \in Seq(Slot) /\ queue \in Seq(Slot)
    <2>1. futures \in Seq(Slot) /\ queue \in Seq(Slot) /\ size \in items..(items + MaxLate) /\ next \in 0..items /\ items \in 0..MaxItems
        BY DEF Inv, TypeOK
    <2>2. size \in Slot
        BY <2>1, WorkPoolAssumption DEF BesideSubmits, Slot
    <2>3. status[size] = "unsent"
        BY <2>1, <2>2, WorkPoolAssumption DEF BesideSubmits, Inv, Agree, Sent
    <2>. QED BY <2>1, <2>2, <2>3 DEF Inv, Crew
<1>2. ToSet(futures') = Pending \cup {size} /\ futures' \in Seq(Slot) /\ Len(futures') = Len(futures) + 1
    BY <1>1, Queued, AppendProperties DEF BesideSubmits, Send, Pending
<1>3. ToSet(queue') = ToSet(queue) \cup {size} /\ queue' \in Seq(Slot) /\ IsInjective(queue')
    BY <1>1, Queued, Lined, AppendProperties DEF BesideSubmits, Send, Inv, Crew
<1>4. /\ status[size] = "unsent" /\ status' \in [Slot -> Statuses] /\ status'[size] = "queued"
      /\ \A s \in Slot \ {size} : status'[s] = status[s]
    <2>1. items \in Nat /\ size \in items..(items + MaxLate) /\ next \in 0..items /\ status \in [Slot -> Statuses]
        BY WorkPoolAssumption DEF Inv, TypeOK
    <2>2. status[size] = "unsent"
        BY <1>1, <2>1, WorkPoolAssumption DEF BesideSubmits, Inv, Agree, Sent
    <2>. QED BY <1>1, <2>1, <2>2 DEF BesideSubmits, Send, Statuses
<1>5. \A s \in Slot : Sent(s)' <=> Sent(s) \/ s = size
    <2>1. items \in Nat /\ size \in items..(items + MaxLate) /\ next \in 0..items /\ MaxLate \in Nat
        BY WorkPoolAssumption DEF Inv, TypeOK
    <2>. QED BY <2>1, Slots DEF BesideSubmits, Sent, callVars
<1>6. TypeOK'
    <2>1. TypeOK
        BY DEF Inv
    <2>2. UNCHANGED <<items, next, own, results, failures, ran, on, back, retired, outcome>>
        BY DEF BesideSubmits, callVars, callerVars
    <2>3. size' \in items..(items + MaxLate)
        BY Sizes, WorkPoolAssumption DEF BesideSubmits
    <2>. QED BY <1>2, <1>3, <1>4, <2>1, <2>2, <2>3 DEF TypeOK
<1>7. Shape'
    BY <1>1, <1>2, <1>3, <1>4, WorkPoolAssumption, Slots, Within, Types
       DEF BesideSubmits, Send, TypeOK, Shape, Stations, Left, NotLeft, Inv, callVars, phaseVars,
       callerVars, poolVars
<1>8. Agree'
    <2>1. verdict' = verdict /\ ran' = ran
        BY DEF BesideSubmits, callVars
    <2>. QED BY <1>1, <1>4, <1>5, <2>1 DEF Inv, Agree, Ended
<1>9. Crew'
    BY <1>1, <1>2, <1>3, <1>4, WorkPoolAssumption, Slots, Within, Types
       DEF BesideSubmits, Send, Agree, Crew, Inv, callVars, phaseVars, callerVars, poolVars
<1>10. Filed'
    BY <1>1, <1>2, <1>3, <1>4, WorkPoolAssumption, Within, Slots
       DEF BesideSubmits, Send, Filed, InHand, Ended, Inv, callVars, phaseVars, callerVars, poolVars
<1>11. Account'
    <2>1. pc = "beside" /\ pc' = "beside" /\ back' = back /\ results' = results /\ failures' = failures
        BY DEF BesideSubmits, callerVars
    <2>2. \A s \in Pending' : Sent(s)'
        BY <1>1, <1>2, <1>5, Within DEF Inv, Account, Pending
    <2>3. \A s \in Slot : Sent(s)' => s \in (Pending \cup results \cup failures \cup {back})'
        BY <1>2, <1>5, <2>1 DEF Inv, Account, Pending, Accounted, Untroubled
    <2>4. \A s \in Slot : status'[s] \in {"queued", "running"} => s \in Pending'
        BY <1>2, <1>4, <2>1 DEF Inv, Account, Pending, Accounted, Untroubled
    <2>. QED BY <2>1, <2>2, <2>3, <2>4 DEF Account, OutsideMap
<1>12. Withdrawn'
    BY <1>1, <1>2, <1>3, <1>4, WorkPoolAssumption, Within, Types
       DEF BesideSubmits, Send, Agree, Withdrawn, Pending, Untroubled, Revoked, Ended, Inv,
       callVars, phaseVars, callerVars, poolVars
<1>13. Overtaking'
    BY <1>1, <1>2, <1>3, <1>4, WorkPoolAssumption, Slots, Sizes
       DEF BesideSubmits, Send, TypeOK, Shape, Overtaking, Inv, callVars, phaseVars, callerVars,
       poolVars
<1>14. Departure'
    BY <1>1, <1>2, <1>3, <1>4, WorkPoolAssumption, Within, Types, Slots
       DEF BesideSubmits, Send, Agree, Departure, InHand, Left, NotLeft, OutsideMap, Inv, callVars,
       phaseVars, callerVars, poolVars
<1>. QED BY <1>6, <1>7, <1>8, <1>9, <1>10, <1>11, <1>12, <1>13, <1>14 DEF Inv

(* Taking back begins.                                                     *)
LEMMA StepBesideReturns == ASSUME Inv, BesideReturns PROVE Inv'
<1>1. SlotsDown \in Seq(Slot)
    BY WorkPoolAssumption DEF SlotsDown, Slot
<1>2. todo' \in Seq(Slot)
    BY <1>1, KeptIs DEF BesideReturns, LatestFirst
<1>3. spare' \in Int
    BY FS_CardinalityType, WorkPoolAssumption, Slots DEF BesideReturns, Inv, TypeOK
<1>4. TypeOK'
    BY <1>2, <1>3, Slots, Within, Types
       DEF BesideReturns, TypeOK, Shape, Statuses, Left, NotLeft, Inv, callVars, phaseVars,
       callerVars, poolVars
<1>5. Shape'
    BY <1>2, <1>3, Slots, Within, Types
       DEF BesideReturns, TypeOK, Shape, Stations, Left, NotLeft, Inv, callVars, phaseVars,
       callerVars, poolVars
<1>6. Agree'
    BY <1>2, <1>3, Types, Sizes
       DEF BesideReturns, Agree, Sent, Ended, Inv, callVars, phaseVars, callerVars, poolVars
<1>7. Crew'
    BY <1>2, <1>3, Slots, Within, Types
       DEF BesideReturns, Agree, Crew, Inv, callVars, phaseVars, callerVars, poolVars
<1>8. Filed'
    BY <1>2, <1>3, Within, Slots
       DEF BesideReturns, Filed, InHand, Ended, Inv, callVars, phaseVars, callerVars, poolVars
<1>9. Account'
    BY <1>2, <1>3, Within, Types, Sizes
       DEF BesideReturns, Agree, Account, Pending, Sent, Accounted, Untroubled, OutsideMap, Ended,
       Revoked, Inv, callVars, phaseVars, callerVars, poolVars
<1>10. Withdrawn'
    BY <1>2, <1>3, Within, Types
       DEF BesideReturns, Agree, Withdrawn, Pending, Untroubled, Revoked, Ended, Inv, callVars,
       phaseVars, callerVars, poolVars
<1>11. Overtaking'
    BY <1>2, <1>3, Slots, Sizes
       DEF BesideReturns, TypeOK, Shape, Overtaking, Inv, callVars, phaseVars, callerVars, poolVars
<1>12. Departure'
    BY <1>2, <1>3, Within, Types, Slots
       DEF BesideReturns, Agree, Departure, InHand, Left, NotLeft, OutsideMap, Inv, callVars,
       phaseVars, callerVars, poolVars
<1>. QED BY <1>4, <1>5, <1>6, <1>7, <1>8, <1>9, <1>10, <1>11, <1>12 DEF Inv

(* An abandoned phase retires the pool.                                    *)
LEMMA StepBesideDeclines == ASSUME Inv, BesideDeclines PROVE Inv'
<1>1. TypeOK'
    BY Slots, Within, Types
       DEF BesideDeclines, Leave, TypeOK, Shape, Statuses, Left, NotLeft, Inv, callVars, phaseVars,
       callerVars, poolVars
<1>2. Shape'
    BY Slots, Within, Types
       DEF BesideDeclines, Leave, TypeOK, Shape, Stations, Left, NotLeft, Inv, callVars, phaseVars,
       callerVars, poolVars
<1>3. Agree'
    BY Types, Sizes
       DEF BesideDeclines, Leave, Agree, Sent, Ended, Inv, callVars, phaseVars, callerVars, poolVars
<1>4. Crew'
    BY Slots, Within, Types
       DEF BesideDeclines, Leave, Agree, Crew, Inv, callVars, phaseVars, callerVars, poolVars
<1>5. Filed'
    BY Within, Slots
       DEF BesideDeclines, Leave, Filed, InHand, Ended, Inv, callVars, phaseVars, callerVars,
       poolVars
<1>6. Account'
    BY Within, Types, Sizes
       DEF BesideDeclines, Leave, Agree, Account, Pending, Sent, Accounted, Untroubled, OutsideMap,
       Ended, Revoked, Inv, callVars, phaseVars, callerVars, poolVars
<1>7. Withdrawn'
    BY Within, Types
       DEF BesideDeclines, Leave, Agree, Withdrawn, Pending, Untroubled, Revoked, Ended, Inv,
       callVars, phaseVars, callerVars, poolVars
<1>8. Overtaking'
    BY Slots, Sizes
       DEF BesideDeclines, Leave, TypeOK, Shape, Overtaking, Inv, callVars, phaseVars, callerVars,
       poolVars
<1>9. Departure'
    BY Within, Types, Slots
       DEF BesideDeclines, Leave, Agree, Departure, InHand, Left, NotLeft, OutsideMap, Inv,
       callVars, phaseVars, callerVars, poolVars
<1>. QED BY <1>1, <1>2, <1>3, <1>4, <1>5, <1>6, <1>7, <1>8, <1>9 DEF Inv

(* A refusal of beside starts to unwind with everything queued in hand.    *)
LEMMA StepBesideRefuses == ASSUME Inv, BesideRefuses PROVE Inv'
<1>1. TypeOK'
    BY Slots, Within, Types
       DEF BesideRefuses, TypeOK, Shape, Statuses, Left, NotLeft, Inv, callVars, phaseVars,
       callerVars, poolVars
<1>2. Shape'
    BY Slots, Within, Types
       DEF BesideRefuses, TypeOK, Shape, Stations, Left, NotLeft, Inv, callVars, phaseVars,
       callerVars, poolVars
<1>3. Agree'
    BY Types, Sizes DEF BesideRefuses, Agree, Sent, Ended, Inv, callVars, phaseVars, callerVars, poolVars
<1>4. Crew'
    BY Slots, Within, Types DEF BesideRefuses, Agree, Crew, Inv, callVars, phaseVars, callerVars, poolVars
<1>5. Filed'
    BY Within, Slots DEF BesideRefuses, Filed, InHand, Ended, Inv, callVars, phaseVars, callerVars, poolVars
<1>6. Account'
    BY Within, Types, Sizes
       DEF BesideRefuses, Agree, Account, Pending, Sent, Accounted, Untroubled, OutsideMap, Ended,
       Revoked, Inv, callVars, phaseVars, callerVars, poolVars
<1>7. Withdrawn'
    BY Within, Types
       DEF BesideRefuses, Agree, Withdrawn, Pending, Untroubled, Revoked, Ended, Inv, callVars,
       phaseVars, callerVars, poolVars
<1>8. Overtaking'
    BY Slots, Sizes DEF BesideRefuses, TypeOK, Shape, Overtaking, Inv, callVars, phaseVars, callerVars, poolVars
<1>9. Departure'
    BY Within, Types, Slots
       DEF BesideRefuses, Agree, Departure, InHand, Left, NotLeft, OutsideMap, Inv, callVars,
       phaseVars, callerVars, poolVars
<1>. QED BY <1>1, <1>2, <1>3, <1>4, <1>5, <1>6, <1>7, <1>8, <1>9 DEF Inv

(* Any other exception retires the pool.                                   *)
LEMMA StepBesideBreaks == ASSUME Inv, BesideBreaks PROVE Inv'
<1>1. TypeOK'
    BY Slots, Within, Types
       DEF BesideBreaks, Fails, Leave, TypeOK, Shape, Statuses, Left, NotLeft, Inv, callVars,
       phaseVars, callerVars, poolVars
<1>2. Shape'
    BY Slots, Within, Types
       DEF BesideBreaks, Fails, Leave, TypeOK, Shape, Stations, Left, NotLeft, Inv, callVars,
       phaseVars, callerVars, poolVars
<1>3. Agree'
    BY Types, Sizes
       DEF BesideBreaks, Fails, Leave, Agree, Sent, Ended, Inv, callVars, phaseVars, callerVars,
       poolVars
<1>4. Crew'
    BY Slots, Within, Types
       DEF BesideBreaks, Fails, Leave, Agree, Crew, Inv, callVars, phaseVars, callerVars, poolVars
<1>5. Filed'
    BY Within, Slots
       DEF BesideBreaks, Fails, Leave, Filed, InHand, Ended, Inv, callVars, phaseVars, callerVars,
       poolVars
<1>6. Account'
    BY Within, Types, Sizes
       DEF BesideBreaks, Fails, Leave, Agree, Account, Pending, Sent, Accounted, Untroubled,
       OutsideMap, Ended, Revoked, Inv, callVars, phaseVars, callerVars, poolVars
<1>7. Withdrawn'
    BY Within, Types
       DEF BesideBreaks, Fails, Leave, Agree, Withdrawn, Pending, Untroubled, Revoked, Ended, Inv,
       callVars, phaseVars, callerVars, poolVars
<1>8. Overtaking'
    BY Slots, Sizes
       DEF BesideBreaks, Fails, Leave, TypeOK, Shape, Overtaking, Inv, callVars, phaseVars,
       callerVars, poolVars
<1>9. Departure'
    BY Within, Types, Slots
       DEF BesideBreaks, Fails, Leave, Agree, Departure, InHand, Left, NotLeft, OutsideMap, Inv,
       callVars, phaseVars, callerVars, poolVars
<1>. QED BY <1>1, <1>2, <1>3, <1>4, <1>5, <1>6, <1>7, <1>8, <1>9 DEF Inv

(* A slot taken back is cancelled, pending no more, and runs here.         *)
LEMMA StepTakes == ASSUME Inv, TakeBack, status[Head(todo)] = "queued" PROVE Inv'
<1>. DEFINE s == Head(todo)
<1>1. todo \in Seq(Slot) /\ todo # <<>> /\ pc = "takeback"
    BY DEF TakeBack, Inv, Shape
<1>2. s \in Slot /\ todo' \in Seq(Slot) /\ ToSet(todo) = {s} \cup ToSet(todo')
    BY <1>1, Queued DEF TakeBack
<1>3. futures' \in Seq(Slot) /\ Pending' = Pending \ {s}
    <2>1. futures \in Seq(Slot) /\ futures' = Kept(futures, Slot \ {s})
        BY DEF TakeBack, MayTake, Inv, TypeOK
    <2>. QED BY <2>1, KeptIs, Within DEF Pending
<1>4. /\ status' \in [Slot -> Statuses] /\ status[s] = "queued" /\ status'[s] = "cancelled"
      /\ \A t \in Slot \ {s} : status'[t] = status[t]
    BY <1>2, Types DEF TakeBack, Cancelled, Statuses
<1>5. /\ back = None /\ back' = s /\ pc = "takeback" /\ pc' = "back" /\ spare' \in Int
      /\ s \notin results \cup failures
    BY <1>2, <1>4 DEF TakeBack, MayTake, Inv, Shape, Agree, Filed
<1>6. /\ ran' \in [Slot -> Nat] /\ ran'[s] = 1
      /\ \A t \in Slot \ {s} : ran'[t] = ran[t]
    <2>1. ran[s] = 0
        BY <1>2, <1>4 DEF Inv, Agree
    <2>2. ran' = [ran EXCEPT ![s] = @ + 1]
        BY <1>2 DEF TakeBack, MayTake
    <2>. QED BY <1>2, <2>1, <2>2, Types
<1>. HIDE DEF s
<1>7. /\ verdict' = verdict /\ items' = items /\ size' = size /\ own' = own /\ next' = next /\ results' = results
      /\ failures' = failures /\ outcome' = outcome /\ retired' = retired /\ queue' = queue /\ on' = on
    BY DEF TakeBack, callVars, phaseVars, callerVars, poolVars
<1>8. TypeOK'
    BY <1>2, <1>3, <1>4, <1>5, <1>6, <1>7, Slots, Within, Types DEF TypeOK, Shape, Statuses, Left, NotLeft, Inv
<1>9. Shape'
    BY <1>2, <1>3, <1>4, <1>5, <1>6, <1>7, Slots, Within, Types DEF TypeOK, Shape, Stations, Left, NotLeft, Inv
<1>10. Agree'
    BY <1>2, <1>4, <1>5, <1>6, <1>7, Types, Sizes DEF Agree, Sent, Ended, Inv
<1>11. Crew'
    <2>1. IsInjective(queue') /\ \A t \in ToSet(queue') : status'[t] \in {"queued", "cancelled"}
        BY <1>4, <1>7, Within DEF Inv, Crew
    <2>2. \A v \in Workers : on'[v] # None => status'[on'[v]] = "running"
        BY <1>2, <1>4, <1>7, Types DEF Inv, Crew
    <2>3. \A u, v \in Workers : on'[u] # None /\ on'[u] = on'[v] => u = v
        BY <1>2, <1>4, <1>7, Types, Slots DEF Inv, Crew
    <2>4. back' # None => status'[back'] \in {"cancelled", "notified"} /\ ran'[back'] > 0
        BY <1>4, <1>5, <1>6, <1>7, Within, Types DEF Inv, Crew
    <2>. QED BY <2>1, <2>2, <2>3, <2>4 DEF Crew
<1>12. Filed'
    BY <1>2, <1>4, <1>5, <1>6, <1>7, Within, Slots DEF Filed, InHand, Ended, Inv
<1>13. Account'
    <2>1. \A t \in Pending' : Sent(t)'
        BY <1>3, <1>7 DEF Inv, Account, Sent
    <2>2. \A t \in Slot : Sent(t)' => t \in (Pending \cup results \cup failures \cup {back})'
        BY <1>3, <1>5, <1>7, Slots DEF Inv, Account, Sent, Accounted, Untroubled
    <2>3. \A t \in Slot : status'[t] \in {"queued", "running"} => t \in Pending'
        BY <1>2, <1>3, <1>4, <1>5 DEF Inv, Account, Accounted, Untroubled
    <2>. QED BY <2>1, <2>2, <2>3, <1>5 DEF Account, OutsideMap
<1>14. Withdrawn'
    <2>1. \A t \in Pending' : status'[t] \in Revoked => ran'[t] = 0
        BY <1>2, <1>3, <1>4, <1>6, Within DEF Inv, Withdrawn
    <2>2. \A t \in Slot : status'[t] \in Revoked => ran'[t] > 0
        BY <1>2, <1>4, <1>5, <1>6 DEF Inv, Withdrawn, Untroubled
    <2>. QED BY <2>1, <2>2, <1>5 DEF Withdrawn
<1>15. Overtaking'
    BY <1>2, <1>3, <1>4, <1>5, <1>6, <1>7, Slots, Sizes DEF TypeOK, Shape, Overtaking, Inv
<1>16. Departure'
    BY <1>2, <1>4, <1>5, <1>6, <1>7, Within, Types, Slots
       DEF Agree, Departure, InHand, Left, NotLeft, OutsideMap, Inv
<1>. QED BY <1>8, <1>9, <1>10, <1>11, <1>12, <1>13, <1>14, <1>15, <1>16 DEF Inv

(* A slot a worker has started is left alone.                              *)
LEMMA StepSkips == ASSUME Inv, TakeBack, status[Head(todo)] # "queued" PROVE Inv'
<1>. DEFINE s == Head(todo)
<1>1. todo \in Seq(Slot) /\ todo # <<>> /\ pc = "takeback"
    BY DEF TakeBack, Inv, Shape
<1>2. s \in Slot /\ todo' \in Seq(Slot) /\ ToSet(todo) = {s} \cup ToSet(todo')
    BY <1>1, Queued DEF TakeBack
<1>3. status' = status /\ spare' = spare /\ futures' = futures /\ back' = back /\ pc' = pc /\ ran' = ran
    BY <1>2, Types DEF TakeBack, MayTake, Cancelled
<1>. HIDE DEF s
<1>4. /\ verdict' = verdict /\ items' = items /\ size' = size /\ own' = own /\ next' = next /\ results' = results
      /\ failures' = failures /\ outcome' = outcome /\ retired' = retired /\ queue' = queue /\ on' = on
    BY DEF TakeBack, callVars, phaseVars, callerVars, poolVars
<1>5. TypeOK'
    BY <1>1, <1>2, <1>3, <1>4, Slots, Within, Types DEF TypeOK, Shape, Statuses, Left, NotLeft, Inv
<1>6. Shape'
    BY <1>1, <1>2, <1>3, <1>4, Slots, Within, Types DEF TypeOK, Shape, Stations, Left, NotLeft, Inv
<1>7. Agree'
    BY <1>1, <1>2, <1>3, <1>4, Types, Sizes DEF Agree, Sent, Ended, Inv
<1>8. Crew'
    BY <1>1, <1>2, <1>3, <1>4, Slots, Within, Types DEF Agree, Crew, Inv
<1>9. Filed'
    BY <1>1, <1>2, <1>3, <1>4, Within, Slots DEF Filed, InHand, Ended, Inv
<1>10. Account'
    BY <1>1, <1>2, <1>3, <1>4, Within, Types, Sizes
       DEF Agree, Account, Pending, Sent, Accounted, Untroubled, OutsideMap, Ended, Revoked, Inv
<1>11. Withdrawn'
    BY <1>1, <1>2, <1>3, <1>4, Within, Types DEF Agree, Withdrawn, Pending, Untroubled, Revoked, Ended, Inv
<1>12. Overtaking'
    BY <1>1, <1>2, <1>3, <1>4, Slots, Sizes DEF TypeOK, Shape, Overtaking, Inv
<1>13. Departure'
    BY <1>1, <1>2, <1>3, <1>4, Within, Types, Slots DEF Agree, Departure, InHand, Left, NotLeft, OutsideMap, Inv
<1>. QED BY <1>5, <1>6, <1>7, <1>8, <1>9, <1>10, <1>11, <1>12, <1>13 DEF Inv

(* A bug in a slot taken back gives the account up.                        *)
LEMMA StepBackBreaks == ASSUME Inv, BackEnds, verdict[back] = "bug" PROVE Inv'
<1>1. pc = "back" /\ pc' = "cancel" /\ back' = None /\ todo' = futures /\ retired' = "failed" /\ outcome' = [kind |-> "failed", at |-> back]
    BY DEF BackEnds, Fails, Leave
<1>2. back \in Slot /\ ran[back] > 0 /\ back \notin Pending /\ status[back] \in {"cancelled", "notified"} /\ verdict[back] = "bug"
    BY <1>1, Within, Slots DEF BackEnds, Inv, Shape, Crew, Withdrawn, Revoked, Untroubled
<1>3. /\ verdict' = verdict /\ items' = items /\ size' = size /\ own' = own /\ next' = next /\ futures' = futures
      /\ results' = results /\ failures' = failures /\ spare' = spare /\ queue' = queue /\ status' = status /\ on' = on
      /\ ran' = ran
    BY DEF BackEnds, callVars, phaseVars, callerVars, poolVars
<1>4. TypeOK'
    BY <1>1, <1>2, <1>3, Slots, Within, Types DEF TypeOK, Shape, Statuses, Left, NotLeft, Inv
<1>5. Shape'
    BY <1>1, <1>2, <1>3, Slots, Within, Types DEF TypeOK, Shape, Stations, Left, NotLeft, Inv
<1>6. Agree'
    BY <1>1, <1>2, <1>3, Types, Sizes DEF Agree, Sent, Ended, Inv
<1>7. Crew'
    BY <1>1, <1>2, <1>3, Slots, Within, Types DEF Agree, Crew, Inv
<1>8. Filed'
    BY <1>1, <1>2, <1>3, Within, Slots DEF Filed, InHand, Ended, Inv
<1>9. Account'
    BY <1>1, <1>2, <1>3, Within, Types, Sizes
       DEF Agree, Account, Pending, Sent, Accounted, Untroubled, OutsideMap, Ended, Revoked, Inv
<1>10. Withdrawn'
    BY <1>1, <1>2, <1>3, Within, Types DEF Agree, Withdrawn, Pending, Untroubled, Revoked, Ended, Inv
<1>11. Overtaking'
    BY <1>1, <1>2, <1>3, Slots, Sizes DEF TypeOK, Shape, Overtaking, Inv
<1>12. Departure'
    BY <1>1, <1>2, <1>3, Within, Types, Slots DEF Agree, Departure, InHand, Left, NotLeft, OutsideMap, Inv
<1>. QED BY <1>4, <1>5, <1>6, <1>7, <1>8, <1>9, <1>10, <1>11, <1>12 DEF Inv

(* A slot taken back ends and is filed.                                    *)
LEMMA StepBackEnds == ASSUME Inv, BackEnds, verdict[back] # "bug" PROVE Inv'
<1>1. pc = "back" /\ pc' = "takeback" /\ back' = None
    BY DEF BackEnds
<1>2. /\ back \in Slot /\ ran[back] > 0 /\ status[back] \in {"cancelled", "notified"}
      /\ verdict[back] \in {"ok", "refuse"}
    BY <1>1, Within, Types, Slots DEF BackEnds, AllVerdicts, Inv, Shape, Crew
<1>3. /\ results' = IF verdict[back] = "ok" THEN results \cup {back} ELSE results
      /\ failures' = IF verdict[back] = "refuse" THEN failures \cup {back} ELSE failures
    BY DEF BackEnds
<1>4. /\ verdict' = verdict /\ items' = items /\ size' = size /\ own' = own /\ next' = next /\ futures' = futures
      /\ spare' = spare /\ todo' = todo /\ retired' = retired /\ outcome' = outcome /\ queue' = queue /\ status' = status
      /\ on' = on /\ ran' = ran
    BY DEF BackEnds, callVars, phaseVars, callerVars, poolVars
<1>5. TypeOK'
    BY <1>1, <1>2, <1>3, <1>4, Slots, Within, Types DEF TypeOK, Shape, Statuses, Left, NotLeft, Inv
<1>6. Shape'
    BY <1>1, <1>2, <1>3, <1>4, Slots, Within, Types DEF TypeOK, Shape, Stations, Left, NotLeft, Inv
<1>7. Agree'
    BY <1>1, <1>2, <1>3, <1>4, Types, Sizes DEF Agree, Sent, Ended, Inv
<1>8. Crew'
    BY <1>1, <1>2, <1>3, <1>4, Slots, Within, Types DEF Agree, Crew, Inv
<1>9. Filed'
    BY <1>1, <1>2, <1>3, <1>4, Within, Slots DEF Filed, InHand, Ended, Inv
<1>10. Account'
    BY <1>1, <1>2, <1>3, <1>4, Within, Types, Sizes
       DEF Agree, Account, Pending, Sent, Accounted, Untroubled, OutsideMap, Ended, Revoked, Inv
<1>11. Withdrawn'
    BY <1>1, <1>2, <1>3, <1>4, Within, Types DEF Agree, Withdrawn, Pending, Untroubled, Revoked, Ended, Inv
<1>12. Overtaking'
    BY <1>1, <1>2, <1>3, <1>4, Slots, Sizes DEF TypeOK, Shape, Overtaking, Inv
<1>13. Departure'
    BY <1>1, <1>2, <1>3, <1>4, Within, Types, Slots DEF Agree, Departure, InHand, Left, NotLeft, OutsideMap, Inv
<1>. QED BY <1>5, <1>6, <1>7, <1>8, <1>9, <1>10, <1>11, <1>12, <1>13 DEF Inv

(* Taking back is over.                                                    *)
LEMMA StepTookBack == ASSUME Inv, TookBack PROVE Inv'
<1>1. futures = <<>> => Pending = {}
    BY DEF Pending, ToSet
<1>2. TypeOK'
    BY <1>1, Slots, Within, Types
       DEF TookBack, AfterShare, TypeOK, Shape, Statuses, Left, NotLeft, Inv, callVars, phaseVars,
       callerVars, poolVars
<1>3. Shape'
    BY <1>1, Slots, Within, Types
       DEF TookBack, AfterShare, TypeOK, Shape, Stations, Left, NotLeft, Inv, callVars, phaseVars,
       callerVars, poolVars
<1>4. Agree'
    BY <1>1, Types, Sizes
       DEF TookBack, AfterShare, Agree, Sent, Ended, Inv, callVars, phaseVars, callerVars, poolVars
<1>5. Crew'
    BY <1>1, Slots, Within, Types
       DEF TookBack, AfterShare, Agree, Crew, Inv, callVars, phaseVars, callerVars, poolVars
<1>6. Filed'
    BY <1>1, Within, Slots
       DEF TookBack, AfterShare, Filed, InHand, Ended, Inv, callVars, phaseVars, callerVars,
       poolVars
<1>7. Account'
    BY <1>1, Within, Types, Sizes
       DEF TookBack, AfterShare, Agree, Account, Pending, Sent, Accounted, Untroubled, OutsideMap,
       Ended, Revoked, Inv, callVars, phaseVars, callerVars, poolVars
<1>8. Withdrawn'
    BY <1>1, Within, Types
       DEF TookBack, AfterShare, Agree, Withdrawn, Pending, Untroubled, Revoked, Ended, Inv,
       callVars, phaseVars, callerVars, poolVars
<1>9. Overtaking'
    BY <1>1, Slots, Sizes
       DEF TookBack, AfterShare, TypeOK, Shape, Overtaking, Inv, callVars, phaseVars, callerVars,
       poolVars
<1>10. Departure'
    BY <1>1, Within, Types, Slots
       DEF TookBack, AfterShare, Agree, Departure, InHand, Left, NotLeft, OutsideMap, Inv, callVars,
       phaseVars, callerVars, poolVars
<1>. QED BY <1>2, <1>3, <1>4, <1>5, <1>6, <1>7, <1>8, <1>9, <1>10 DEF Inv

(* Collecting up to a bug gives the account up.                            *)
LEMMA StepCollectsBug == ASSUME Inv, Collect, \E s \in ToSet(futures) : status[s] = "bug" PROVE Inv'
<1>. DEFINE done == {s \in ToSet(futures) : status[s] \in Settled}
            bugs == {s \in done : status[s] = "bug"}
            read == {s \in done : \A b \in bugs : s <= b}
<1>1. pc = "wait" /\ back = None /\ done \subseteq Pending /\ bugs \subseteq done /\ read \subseteq done
    BY DEF Collect, Inv, Shape, Pending
<1>2. futures' \in Seq(Slot) /\ Pending' = Pending \ read
    <2>1. futures \in Seq(Slot) /\ futures' = Kept(futures, Slot \ read)
        BY DEF Collect, Inv, TypeOK
    <2>2. Kept(futures, Slot \ read) \in Seq(Slot) /\ ToSet(Kept(futures, Slot \ read)) = ToSet(futures) \cap (Slot \ read)
        BY <2>1, KeptIs
    <2>. HIDE DEF done, bugs, read
    <2>. QED BY <2>1, <2>2, Within DEF Pending
<1>3. /\ results' = results \cup {s \in read : status[s] = "ok"}
      /\ failures' = failures \cup {s \in read : status[s] = "refused"}
    BY DEF Collect
<1>4. \A s \in Pending : status[s] \notin Revoked
    BY <1>1, Within DEF Inv, Withdrawn, Untroubled
<1>5. \A s \in read : s \in Slot /\ status[s] \in Ended /\ ran[s] > 0
    <2>1. \A s \in read : s \in Slot /\ status[s] \in Ended
        BY <1>1, <1>4, Within DEF Settled, Revoked
    <2>. QED BY <2>1 DEF Inv, Agree
<1>6. Min(bugs) \in Slot /\ status[Min(bugs)] = "bug" /\ verdict[Min(bugs)] = "bug" /\ bugs # {}
    <2>1. bugs # {} /\ bugs \subseteq Slot
        BY <1>1, Within DEF Settled, Ended
    <2>2. Min(bugs) \in bugs
        BY <2>1, Slots, MinIs
    <2>. QED BY <2>1, <2>2 DEF Inv, Agree
<1>7. /\ pc' = "cancel" /\ todo' = futures' /\ retired' = "failed"
      /\ outcome' = [kind |-> "failed", at |-> Min(bugs)]
    BY <1>6 DEF Collect, Fails, Leave
<1>. HIDE DEF done, bugs, read
<1>8. /\ verdict' = verdict /\ items' = items /\ size' = size /\ own' = own /\ next' = next /\ spare' = spare
      /\ back' = back /\ queue' = queue /\ status' = status /\ on' = on /\ ran' = ran
    BY DEF Collect, callVars, phaseVars, callerVars, poolVars
<1>9. TypeOK'
    BY <1>1, <1>2, <1>3, <1>5, <1>6, <1>7, <1>8, Slots, Within, Types
       DEF TypeOK, Shape, Statuses, Left, NotLeft, Inv
<1>10. Shape'
    BY <1>1, <1>2, <1>3, <1>5, <1>6, <1>7, <1>8, Slots, Within, Types
       DEF TypeOK, Shape, Stations, Left, NotLeft, Inv
<1>11. Agree'
    BY <1>1, <1>2, <1>3, <1>5, <1>6, <1>7, <1>8, Types, Sizes DEF Agree, Sent, Ended, Inv
<1>12. Crew'
    BY <1>1, <1>2, <1>3, <1>5, <1>6, <1>7, <1>8, Slots, Within, Types DEF Agree, Crew, Inv
<1>13. Filed'
    <2>1. \A s \in read : status[s] = "ok" => verdict[s] \in {"ok", "blocks"}
        BY <1>5 DEF Inv, Agree
    <2>2. \A s \in read : status[s] = "refused" => verdict[s] = "refuse"
        BY <1>5 DEF Inv, Agree
    <2>3. \A s \in read : s \notin InHand
        BY <1>1, <1>5, Slots DEF Ended, InHand
    <2>4. InHand' = InHand
        BY <1>8 DEF InHand
    <2>5. \A s \in results' : ran[s] > 0 /\ s \notin InHand' /\ verdict[s] \in {"ok", "blocks"}
        BY <1>3, <1>5, <2>1, <2>3, <2>4 DEF Inv, Filed
    <2>6. \A s \in failures' : ran[s] > 0 /\ s \notin InHand' /\ verdict[s] = "refuse"
        BY <1>3, <1>5, <2>2, <2>3, <2>4 DEF Inv, Filed
    <2>. QED BY <1>1, <1>7, <1>8, <2>5, <2>6 DEF Filed
<1>14. Account'
    BY <1>1, <1>2, <1>3, <1>5, <1>6, <1>7, <1>8, Within, Types, Sizes
       DEF Agree, Account, Pending, Sent, Accounted, Untroubled, OutsideMap, Ended, Revoked, Inv
<1>15. Withdrawn'
    BY <1>1, <1>2, <1>3, <1>5, <1>6, <1>7, <1>8, Within, Types
       DEF Agree, Withdrawn, Pending, Untroubled, Revoked, Ended, Inv
<1>16. Overtaking'
    BY <1>1, <1>2, <1>3, <1>5, <1>6, <1>7, <1>8, Slots, Sizes DEF TypeOK, Shape, Overtaking, Inv
<1>17. Departure'
    <2>1. verdict[Min(bugs)] = "bug" /\ ran[Min(bugs)] > 0 /\ Min(bugs) \notin InHand'
        BY <1>6, <1>7, <1>1, <1>8, Slots DEF Inv, Agree, Ended, InHand
    <2>. QED BY <2>1, <1>6, <1>7, <1>8 DEF Departure, OutsideMap
<1>. QED BY <1>9, <1>10, <1>11, <1>12, <1>13, <1>14, <1>15, <1>16, <1>17 DEF Inv

(* What has settled is filed, and pending no more.                         *)
LEMMA StepCollects == ASSUME Inv, Collect, \A s \in ToSet(futures) : status[s] # "bug" PROVE Inv'
<1>. DEFINE done == {s \in ToSet(futures) : status[s] \in Settled}
            bugs == {s \in done : status[s] = "bug"}
            read == {s \in done : \A b \in bugs : s <= b}
<1>1. pc = "wait" /\ back = None /\ done \subseteq Pending /\ bugs \subseteq done /\ read \subseteq done
    BY DEF Collect, Inv, Shape, Pending
<1>2. futures' \in Seq(Slot) /\ Pending' = Pending \ read
    <2>1. futures \in Seq(Slot) /\ futures' = Kept(futures, Slot \ read)
        BY DEF Collect, Inv, TypeOK
    <2>2. Kept(futures, Slot \ read) \in Seq(Slot) /\ ToSet(Kept(futures, Slot \ read)) = ToSet(futures) \cap (Slot \ read)
        BY <2>1, KeptIs
    <2>. HIDE DEF done, bugs, read
    <2>. QED BY <2>1, <2>2, Within DEF Pending
<1>3. /\ results' = results \cup {s \in read : status[s] = "ok"}
      /\ failures' = failures \cup {s \in read : status[s] = "refused"}
    BY DEF Collect
<1>4. \A s \in Pending : status[s] \notin Revoked
    BY <1>1, Within DEF Inv, Withdrawn, Untroubled
<1>5. \A s \in read : s \in Slot /\ status[s] \in Ended /\ ran[s] > 0
    <2>1. \A s \in read : s \in Slot /\ status[s] \in Ended
        BY <1>1, <1>4, Within DEF Settled, Revoked
    <2>. QED BY <2>1 DEF Inv, Agree
<1>6. bugs = {} /\ read = done
    BY DEF Settled
<1>7. /\ pc' = IF failures' # {} THEN "drain" ELSE "loop"
      /\ todo' = IF failures' # {} THEN futures' ELSE <<>>
      /\ outcome' = outcome /\ retired' = retired
    BY <1>6 DEF Collect
<1>8. \A s \in read : s \in results' \cup failures'
    BY <1>3, <1>5, <1>6, Within DEF Ended
<1>. HIDE DEF done, bugs, read
<1>9. /\ verdict' = verdict /\ items' = items /\ size' = size /\ own' = own /\ next' = next /\ spare' = spare
      /\ back' = back /\ queue' = queue /\ status' = status /\ on' = on /\ ran' = ran
    BY DEF Collect, callVars, phaseVars, callerVars, poolVars
<1>10. TypeOK'
    BY <1>1, <1>2, <1>3, <1>4, <1>5, <1>7, <1>8, <1>9, Slots, Within, Types
       DEF TypeOK, Shape, Statuses, Left, NotLeft, Inv
<1>11. Shape'
    BY <1>1, <1>2, <1>3, <1>4, <1>5, <1>7, <1>8, <1>9, Slots, Within, Types
       DEF TypeOK, Shape, Stations, Left, NotLeft, Inv
<1>12. Agree'
    BY <1>1, <1>2, <1>3, <1>4, <1>5, <1>7, <1>8, <1>9, Types, Sizes DEF Agree, Sent, Ended, Inv
<1>13. Crew'
    BY <1>1, <1>2, <1>3, <1>4, <1>5, <1>7, <1>8, <1>9, Slots, Within, Types DEF Agree, Crew, Inv
<1>14. Filed'
    <2>1. \A s \in read : status[s] = "ok" => verdict[s] \in {"ok", "blocks"}
        BY <1>5 DEF Inv, Agree
    <2>2. \A s \in read : status[s] = "refused" => verdict[s] = "refuse"
        BY <1>5 DEF Inv, Agree
    <2>3. \A s \in read : s \notin InHand
        BY <1>1, <1>5, Slots DEF Ended, InHand
    <2>4. InHand' = InHand
        BY <1>9 DEF InHand
    <2>5. \A s \in results' : ran[s] > 0 /\ s \notin InHand' /\ verdict[s] \in {"ok", "blocks"}
        BY <1>3, <1>5, <2>1, <2>3, <2>4 DEF Inv, Filed
    <2>6. \A s \in failures' : ran[s] > 0 /\ s \notin InHand' /\ verdict[s] = "refuse"
        BY <1>3, <1>5, <2>2, <2>3, <2>4 DEF Inv, Filed
    <2>. QED BY <1>1, <1>7, <1>9, <2>5, <2>6 DEF Filed
<1>15. Account'
    BY <1>1, <1>2, <1>3, <1>4, <1>5, <1>7, <1>8, <1>9, Within, Types, Sizes
       DEF Agree, Account, Pending, Sent, Accounted, Untroubled, OutsideMap, Ended, Revoked, Inv
<1>16. Withdrawn'
    BY <1>1, <1>2, <1>3, <1>4, <1>5, <1>7, <1>8, <1>9, Within, Types
       DEF Agree, Withdrawn, Pending, Untroubled, Revoked, Ended, Inv
<1>17. Overtaking'
    BY <1>1, <1>2, <1>3, <1>4, <1>5, <1>7, <1>8, <1>9, Slots, Sizes DEF TypeOK, Shape, Overtaking, Inv
<1>18. Departure'
    BY <1>1, <1>2, <1>3, <1>4, <1>5, <1>7, <1>8, <1>9, Within, Types, Slots
       DEF Agree, Departure, InHand, Left, NotLeft, OutsideMap, Inv
<1>. QED BY <1>10, <1>11, <1>12, <1>13, <1>14, <1>15, <1>16, <1>17, <1>18 DEF Inv

(* A drain cancels only what comes after the earliest refusal.             *)
LEMMA StepDrainCancels == ASSUME Inv, DrainCancels PROVE Inv'
<1>1. todo \in Seq(Slot) /\ todo # <<>>
    BY DEF DrainCancels, Inv, Shape
<1>2. Head(todo) \in Slot /\ Tail(todo) \in Seq(Slot) /\ ToSet(todo) = {Head(todo)} \cup ToSet(Tail(todo))
    BY <1>1, Queued
<1>3. TypeOK'
    BY <1>2, Slots, Within, Types
       DEF DrainCancels, Cancelled, TypeOK, Shape, Statuses, Left, NotLeft, Inv, callVars,
       phaseVars, callerVars, poolVars
<1>4. Shape'
    BY <1>2, Slots, Within, Types
       DEF DrainCancels, Cancelled, TypeOK, Shape, Stations, Left, NotLeft, Inv, callVars,
       phaseVars, callerVars, poolVars
<1>5. Agree'
    BY <1>2, Types, Sizes
       DEF DrainCancels, Cancelled, Agree, Sent, Ended, Inv, callVars, phaseVars, callerVars,
       poolVars
<1>6. Crew'
    BY <1>2, Slots, Within, Types
       DEF DrainCancels, Cancelled, Agree, Crew, Inv, callVars, phaseVars, callerVars, poolVars
<1>7. Filed'
    BY <1>2, Within, Slots
       DEF DrainCancels, Cancelled, Filed, InHand, Ended, Inv, callVars, phaseVars, callerVars,
       poolVars
<1>8. Account'
    BY <1>2, Within, Types, Sizes
       DEF DrainCancels, Cancelled, Agree, Account, Pending, Sent, Accounted, Untroubled,
       OutsideMap, Ended, Revoked, Inv, callVars, phaseVars, callerVars, poolVars
<1>9. Withdrawn'
    BY <1>2, Within, Types
       DEF DrainCancels, Cancelled, Agree, Withdrawn, Pending, Untroubled, Revoked, Ended, Inv,
       callVars, phaseVars, callerVars, poolVars
<1>10. Overtaking'
    BY <1>2, Slots, Sizes
       DEF DrainCancels, Cancelled, TypeOK, Shape, Overtaking, Inv, callVars, phaseVars, callerVars,
       poolVars
<1>11. Departure'
    BY <1>2, Within, Types, Slots
       DEF DrainCancels, Cancelled, Agree, Departure, InHand, Left, NotLeft, OutsideMap, Inv,
       callVars, phaseVars, callerVars, poolVars
<1>. QED BY <1>3, <1>4, <1>5, <1>6, <1>7, <1>8, <1>9, <1>10, <1>11 DEF Inv

(* A bug met on the way out of a drain gives the account up.               *)
LEMMA StepDrainedBug == ASSUME Inv, Drained, \E s \in ToSet(futures) : status[s] = "bug" PROVE Inv'
<1>. DEFINE bugs == Kept(futures, {s \in Slot : status[s] = "bug"})
            read == {s \in ToSet(futures) : status[s] = "refused"}
            good == {s \in ToSet(futures) : status[s] = "ok"}
<1>1. pc = "drain" /\ todo = <<>> /\ \A s \in Pending : status[s] \in Settled
    BY DEF Drained, AllSettled, Pending
<1>2. /\ results' = results \cup good
      /\ failures' = failures \cup read
      /\ read \subseteq Slot /\ good \subseteq Slot
    BY Within DEF Drained, Pending
<1>3. bugs \in Seq(Slot) /\ ToSet(bugs) = {s \in Pending : status[s] = "bug"}
    BY KeptIs, Within DEF Inv, TypeOK, Pending
<1>4. bugs # <<>> /\ Head(bugs) \in Slot /\ status[Head(bugs)] = "bug" /\ verdict[Head(bugs)] = "bug" /\ back = None
    <2>1. bugs # <<>>
        BY <1>3 DEF Pending, ToSet
    <2>2. Head(bugs) \in ToSet(bugs) /\ Head(bugs) \in Slot
        BY <1>3, <2>1, Queued
    <2>3. status[Head(bugs)] = "bug"
        BY <1>3, <2>2
    <2>. HIDE DEF bugs
    <2>. QED BY <1>1, <2>1, <2>2, <2>3 DEF Inv, Agree, Shape
<1>5. /\ pc' = "cancel" /\ todo' = futures /\ retired' = "failed"
      /\ outcome' = [kind |-> "failed", at |-> Head(bugs)]
    BY <1>4 DEF Drained, Fails, Leave
<1>. HIDE DEF bugs, read, good
<1>6. /\ futures' = futures /\ verdict' = verdict /\ items' = items /\ size' = size /\ own' = own /\ next' = next
      /\ spare' = spare /\ back' = back /\ queue' = queue /\ status' = status /\ on' = on /\ ran' = ran
    BY DEF Drained, callVars, phaseVars, callerVars, poolVars
<1>7. TypeOK'
    BY <1>1, <1>2, <1>4, <1>5, <1>6, Slots, Within, Types DEF TypeOK, Shape, Statuses, Left, NotLeft, Inv
<1>8. Shape'
    BY <1>1, <1>2, <1>4, <1>5, <1>6, Slots, Within, Types DEF TypeOK, Shape, Stations, Left, NotLeft, Inv
<1>9. Agree'
    BY <1>1, <1>2, <1>4, <1>5, <1>6, Types, Sizes DEF Agree, Sent, Ended, Inv
<1>10. Crew'
    BY <1>1, <1>2, <1>4, <1>5, <1>6, Slots, Within, Types DEF Agree, Crew, Inv
<1>11. Filed'
    <2>. USE DEF read, good
    <2>1. \A s \in good : ran[s] > 0 /\ s \notin InHand /\ verdict[s] \in {"ok", "blocks"}
        BY <1>2, <1>4, Slots DEF Inv, Agree, InHand, Ended
    <2>2. \A s \in read : ran[s] > 0 /\ s \notin InHand /\ verdict[s] = "refuse"
        BY <1>2, <1>4, Slots DEF Inv, Agree, InHand, Ended
    <2>3. InHand' = InHand
        BY <1>6 DEF InHand
    <2>4. \A s \in results' : ran[s] > 0 /\ s \notin InHand' /\ verdict[s] \in {"ok", "blocks"}
        BY <1>2, <2>1, <2>3 DEF Inv, Filed
    <2>5. \A s \in failures' : ran[s] > 0 /\ s \notin InHand' /\ verdict[s] = "refuse"
        BY <1>2, <2>2, <2>3 DEF Inv, Filed
    <2>. QED BY <1>5, <1>6, <2>4, <2>5 DEF Filed
<1>12. Account'
    BY <1>1, <1>2, <1>4, <1>5, <1>6, Within, Types, Sizes
       DEF Agree, Account, Pending, Sent, Accounted, Untroubled, OutsideMap, Ended, Revoked, Inv
<1>13. Withdrawn'
    BY <1>1, <1>2, <1>4, <1>5, <1>6, Within, Types
       DEF Agree, Withdrawn, Pending, Untroubled, Revoked, Ended, Inv
<1>14. Overtaking'
    BY <1>1, <1>2, <1>4, <1>5, <1>6, Slots, Sizes DEF TypeOK, Shape, Overtaking, Inv
<1>15. Departure'
    <2>1. verdict[Head(bugs)] = "bug" /\ ran[Head(bugs)] > 0 /\ Head(bugs) \notin InHand'
        BY <1>4, <1>5, <1>1, <1>6, Slots DEF Inv, Agree, Ended, InHand
    <2>. QED BY <2>1, <1>4, <1>5, <1>6 DEF Departure, OutsideMap
<1>. QED BY <1>7, <1>8, <1>9, <1>10, <1>11, <1>12, <1>13, <1>14, <1>15 DEF Inv

(* A drained phase leaves nothing running.                                 *)
LEMMA StepDrained == ASSUME Inv, Drained, \A s \in ToSet(futures) : status[s] # "bug" PROVE Inv'
<1>. DEFINE bugs == Kept(futures, {s \in Slot : status[s] = "bug"})
            read == {s \in ToSet(futures) : status[s] = "refused"}
            good == {s \in ToSet(futures) : status[s] = "ok"}
<1>1. pc = "drain" /\ todo = <<>> /\ \A s \in Pending : status[s] \in Settled
    BY DEF Drained, AllSettled, Pending
<1>2. /\ results' = results \cup good
      /\ failures' = failures \cup read
      /\ read \subseteq Slot /\ good \subseteq Slot
    BY Within DEF Drained, Pending
<1>3. bugs \in Seq(Slot) /\ ToSet(bugs) = {s \in Pending : status[s] = "bug"}
    BY KeptIs, Within DEF Inv, TypeOK, Pending
<1>4. bugs = <<>> /\ back = None
    <2>1. bugs = <<>>
        BY <1>3, Queued DEF Pending
    <2>. QED BY <1>1, <2>1 DEF Inv, Shape
<1>5. /\ pc' = "left" /\ retired' = retired /\ todo' = todo
      /\ outcome' = [kind |-> "refused", at |-> Min(failures')]
    BY <1>4 DEF Drained, Leave
<1>6. Min(failures') \in Slot
    <2>1. failures' # {} /\ failures' \subseteq Slot
        BY <1>1, <1>2, Within DEF Inv, Filed
    <2>. QED BY <2>1, MinIs, Slots
<1>. HIDE DEF bugs, read, good
<1>7. /\ futures' = futures /\ verdict' = verdict /\ items' = items /\ size' = size /\ own' = own /\ next' = next
      /\ spare' = spare /\ back' = back /\ queue' = queue /\ status' = status /\ on' = on /\ ran' = ran
    BY DEF Drained, callVars, phaseVars, callerVars, poolVars
<1>8. TypeOK'
    BY <1>1, <1>2, <1>4, <1>5, <1>6, <1>7, Slots, Within, Types DEF TypeOK, Shape, Statuses, Left, NotLeft, Inv
<1>9. Shape'
    BY <1>1, <1>2, <1>4, <1>5, <1>6, <1>7, Slots, Within, Types DEF TypeOK, Shape, Stations, Left, NotLeft, Inv
<1>10. Agree'
    BY <1>1, <1>2, <1>4, <1>5, <1>6, <1>7, Types, Sizes DEF Agree, Sent, Ended, Inv
<1>11. Crew'
    BY <1>1, <1>2, <1>4, <1>5, <1>6, <1>7, Slots, Within, Types DEF Agree, Crew, Inv
<1>12. Filed'
    <2>. USE DEF read, good
    <2>1. \A s \in good : ran[s] > 0 /\ s \notin InHand /\ verdict[s] \in {"ok", "blocks"}
        BY <1>2, <1>4, Slots DEF Inv, Agree, InHand, Ended
    <2>2. \A s \in read : ran[s] > 0 /\ s \notin InHand /\ verdict[s] = "refuse"
        BY <1>2, <1>4, Slots DEF Inv, Agree, InHand, Ended
    <2>3. InHand' = InHand
        BY <1>7 DEF InHand
    <2>4. \A s \in results' : ran[s] > 0 /\ s \notin InHand' /\ verdict[s] \in {"ok", "blocks"}
        BY <1>2, <2>1, <2>3 DEF Inv, Filed
    <2>5. \A s \in failures' : ran[s] > 0 /\ s \notin InHand' /\ verdict[s] = "refuse"
        BY <1>2, <2>2, <2>3 DEF Inv, Filed
    <2>. QED BY <1>5, <1>7, <2>4, <2>5 DEF Filed
<1>13. Account'
    <2>1. \A s \in Slot : status[s] \notin {"queued", "running"}
        BY <1>1 DEF Inv, Account, Accounted, Settled, Ended
    <2>2. \A s \in Pending' : Sent(s)'
        BY <1>7 DEF Inv, Account, Sent, Pending
    <2>. QED BY <2>1, <2>2, <1>5, <1>7 DEF Account, Accounted, Untroubled
<1>14. Withdrawn'
    BY <1>1, <1>2, <1>4, <1>5, <1>6, <1>7, Within, Types
       DEF Agree, Withdrawn, Pending, Untroubled, Revoked, Ended, Inv
<1>15. Overtaking'
    BY <1>1, <1>2, <1>4, <1>5, <1>6, <1>7, Slots, Sizes DEF TypeOK, Shape, Overtaking, Inv
<1>16. Departure'
    BY <1>1, <1>2, <1>4, <1>5, <1>6, <1>7, Within, Types, Slots
       DEF Agree, Departure, InHand, Left, NotLeft, OutsideMap, Inv
<1>. QED BY <1>8, <1>9, <1>10, <1>11, <1>12, <1>13, <1>14, <1>15, <1>16 DEF Inv

(* One more queued slot is cancelled.                                      *)
LEMMA StepCancels == ASSUME Inv, Cancels PROVE Inv'
<1>1. todo \in Seq(Slot) /\ todo # <<>>
    BY DEF Cancels, Inv, Shape
<1>2. Head(todo) \in Slot /\ Tail(todo) \in Seq(Slot) /\ ToSet(todo) = {Head(todo)} \cup ToSet(Tail(todo))
    BY <1>1, Queued
<1>3. TypeOK'
    BY <1>2, Slots, Within, Types
       DEF Cancels, Cancelled, TypeOK, Shape, Statuses, Left, NotLeft, Inv, callVars, phaseVars,
       callerVars, poolVars
<1>4. Shape'
    BY <1>2, Slots, Within, Types
       DEF Cancels, Cancelled, TypeOK, Shape, Stations, Left, NotLeft, Inv, callVars, phaseVars,
       callerVars, poolVars
<1>5. Agree'
    BY <1>2, Types, Sizes
       DEF Cancels, Cancelled, Agree, Sent, Ended, Inv, callVars, phaseVars, callerVars, poolVars
<1>6. Crew'
    BY <1>2, Slots, Within, Types
       DEF Cancels, Cancelled, Agree, Crew, Inv, callVars, phaseVars, callerVars, poolVars
<1>7. Filed'
    BY <1>2, Within, Slots
       DEF Cancels, Cancelled, Filed, InHand, Ended, Inv, callVars, phaseVars, callerVars, poolVars
<1>8. Account'
    BY <1>2, Within, Types, Sizes
       DEF Cancels, Cancelled, Agree, Account, Pending, Sent, Accounted, Untroubled, OutsideMap,
       Ended, Revoked, Inv, callVars, phaseVars, callerVars, poolVars
<1>9. Withdrawn'
    BY <1>2, Within, Types
       DEF Cancels, Cancelled, Agree, Withdrawn, Pending, Untroubled, Revoked, Ended, Inv, callVars,
       phaseVars, callerVars, poolVars
<1>10. Overtaking'
    BY <1>2, Slots, Sizes
       DEF Cancels, Cancelled, TypeOK, Shape, Overtaking, Inv, callVars, phaseVars, callerVars,
       poolVars
<1>11. Departure'
    BY <1>2, Within, Types, Slots
       DEF Cancels, Cancelled, Agree, Departure, InHand, Left, NotLeft, OutsideMap, Inv, callVars,
       phaseVars, callerVars, poolVars
<1>. QED BY <1>3, <1>4, <1>5, <1>6, <1>7, <1>8, <1>9, <1>10, <1>11 DEF Inv

(* An unwound phase leaves nothing running.                                *)
LEMMA StepUnwound == ASSUME Inv, Unwound PROVE Inv'
<1>1. todo = <<>> => ToSet(todo) = {}
    BY DEF ToSet
<1>2. TypeOK'
    BY <1>1, Slots, Within, Types
       DEF Unwound, AllSettled, Settled, Leave, Left, TypeOK, Shape, Statuses, NotLeft, Inv,
       callVars, phaseVars, callerVars, poolVars
<1>3. Shape'
    BY <1>1, Slots, Within, Types
       DEF Unwound, AllSettled, Settled, Leave, Left, TypeOK, Shape, Stations, NotLeft, Inv,
       callVars, phaseVars, callerVars, poolVars
<1>4. Agree'
    BY <1>1, Types, Sizes
       DEF Unwound, AllSettled, Settled, Leave, Left, Agree, Sent, Ended, Inv, callVars, phaseVars,
       callerVars, poolVars
<1>5. Crew'
    BY <1>1, Slots, Within, Types
       DEF Unwound, AllSettled, Settled, Leave, Left, Agree, Crew, Inv, callVars, phaseVars,
       callerVars, poolVars
<1>6. Filed'
    BY <1>1, Within, Slots
       DEF Unwound, AllSettled, Settled, Leave, Left, Filed, InHand, Ended, Inv, callVars,
       phaseVars, callerVars, poolVars
<1>7. Account'
    BY <1>1, Within, Types, Sizes
       DEF Unwound, AllSettled, Settled, Leave, Left, Agree, Account, Pending, Sent, Accounted,
       Untroubled, OutsideMap, Ended, Revoked, Inv, callVars, phaseVars, callerVars, poolVars
<1>8. Withdrawn'
    BY <1>1, Within, Types
       DEF Unwound, AllSettled, Settled, Leave, Left, Agree, Withdrawn, Pending, Untroubled,
       Revoked, Ended, Inv, callVars, phaseVars, callerVars, poolVars
<1>9. Overtaking'
    BY <1>1, Slots, Sizes
       DEF Unwound, AllSettled, Settled, Leave, Left, TypeOK, Shape, Overtaking, Inv, callVars,
       phaseVars, callerVars, poolVars
<1>10. Departure'
    BY <1>1, Within, Types, Slots
       DEF Unwound, AllSettled, Settled, Leave, Left, Agree, Departure, InHand, NotLeft, OutsideMap,
       Inv, callVars, phaseVars, callerVars, poolVars
<1>. QED BY <1>2, <1>3, <1>4, <1>5, <1>6, <1>7, <1>8, <1>9, <1>10 DEF Inv

(* What is still running is left to a retired pool.                        *)
LEMMA StepLeavesAtOnce == ASSUME Inv, LeavesAtOnce PROVE Inv'
<1>1. todo = <<>> => ToSet(todo) = {}
    BY DEF ToSet
<1>2. TypeOK'
    BY <1>1, Slots, Within, Types
       DEF LeavesAtOnce, Departure, TypeOK, Shape, Statuses, Left, NotLeft, Inv, callVars,
       phaseVars, callerVars, poolVars
<1>3. Shape'
    BY <1>1, Slots, Within, Types
       DEF LeavesAtOnce, Departure, TypeOK, Shape, Stations, Left, NotLeft, Inv, callVars,
       phaseVars, callerVars, poolVars
<1>4. Agree'
    BY <1>1, Types, Sizes
       DEF LeavesAtOnce, Departure, Agree, Sent, Ended, Inv, callVars, phaseVars, callerVars,
       poolVars
<1>5. Crew'
    BY <1>1, Slots, Within, Types
       DEF LeavesAtOnce, Departure, Agree, Crew, Inv, callVars, phaseVars, callerVars, poolVars
<1>6. Filed'
    BY <1>1, Within, Slots
       DEF LeavesAtOnce, Departure, Filed, InHand, Ended, Inv, callVars, phaseVars, callerVars,
       poolVars
<1>7. Account'
    BY <1>1, Within, Types, Sizes
       DEF LeavesAtOnce, Departure, Agree, Account, Pending, Sent, Accounted, Untroubled,
       OutsideMap, Ended, Revoked, Inv, callVars, phaseVars, callerVars, poolVars
<1>8. Withdrawn'
    BY <1>1, Within, Types
       DEF LeavesAtOnce, Departure, Agree, Withdrawn, Pending, Untroubled, Revoked, Ended, Inv,
       callVars, phaseVars, callerVars, poolVars
<1>9. Overtaking'
    BY <1>1, Slots, Sizes
       DEF LeavesAtOnce, Departure, TypeOK, Shape, Overtaking, Inv, callVars, phaseVars, callerVars,
       poolVars
<1>10. Departure'
    BY <1>1, Within, Types, Slots
       DEF LeavesAtOnce, Departure, Agree, InHand, Left, NotLeft, OutsideMap, Inv, callVars,
       phaseVars, callerVars, poolVars
<1>. QED BY <1>2, <1>3, <1>4, <1>5, <1>6, <1>7, <1>8, <1>9, <1>10 DEF Inv

(* Closing cancels what a retired pool still queues.                       *)
LEMMA StepClose == ASSUME Inv, Close PROVE Inv'
<1>1. <<>> \in Seq(Slot) /\ ToSet(<<>>) = {} /\ IsInjective(<<>>)
    BY EmptySeq DEF ToSet, IsInjective
<1>2. /\ status' \in [Slot -> Statuses]
      /\ \A s \in Slot : status'[s] = status[s] \/ (status[s] = "queued" /\ status'[s] = "cancelled")
    BY DEF Close, Inv, TypeOK, Statuses
<1>3. pc = "left" /\ pc' \in {"closed", "joining"}
    BY DEF Close
<1>4. \/ queue' = queue /\ status' = status
      \/ queue' = <<>>
    BY DEF Close
<1>5. /\ verdict' = verdict /\ items' = items /\ size' = size /\ own' = own /\ next' = next /\ futures' = futures
      /\ results' = results /\ failures' = failures /\ todo' = todo /\ spare' = spare /\ back' = back /\ outcome' = outcome
      /\ retired' = retired /\ on' = on /\ ran' = ran
    BY DEF Close, callVars, phaseVars, callerVars, poolVars
<1>6. TypeOK'
    BY <1>1, <1>2, <1>3, <1>4, <1>5, Slots, Within, Types DEF TypeOK, Shape, Statuses, Left, NotLeft, Inv
<1>7. Shape'
    BY <1>1, <1>2, <1>3, <1>4, <1>5, Slots, Within, Types DEF TypeOK, Shape, Stations, Left, NotLeft, Inv
<1>8. Agree'
    BY <1>1, <1>2, <1>3, <1>4, <1>5, Types, Sizes DEF Agree, Sent, Ended, Inv
<1>9. Crew'
    <2>1. IsInjective(queue') /\ \A t \in ToSet(queue') : status'[t] \in {"queued", "cancelled"}
        BY <1>1, <1>2, <1>4, <1>5, Within DEF Inv, Crew
    <2>2. \A v \in Workers : on'[v] # None => status'[on'[v]] = "running"
        BY <1>2, <1>5, Types DEF Inv, Crew
    <2>3. \A u, v \in Workers : on'[u] # None /\ on'[u] = on'[v] => u = v
        BY <1>2, <1>5, Types, Slots DEF Inv, Crew
    <2>4. back' # None => status'[back'] \in {"cancelled", "notified"} /\ ran'[back'] > 0
        BY <1>2, <1>5, Within, Types DEF Inv, Crew
    <2>. QED BY <2>1, <2>2, <2>3, <2>4 DEF Crew
<1>10. Filed'
    BY <1>1, <1>2, <1>3, <1>4, <1>5, Within, Slots DEF Filed, InHand, Ended, Inv
<1>11. Account'
    BY <1>1, <1>2, <1>3, <1>4, <1>5, Within, Types, Sizes
       DEF Agree, Account, Pending, Sent, Accounted, Untroubled, OutsideMap, Ended, Revoked, Inv
<1>12. Withdrawn'
    BY <1>1, <1>2, <1>3, <1>4, <1>5, Within, Types
       DEF Agree, Withdrawn, Pending, Untroubled, Revoked, Ended, Inv
<1>13. Overtaking'
    BY <1>1, <1>2, <1>3, <1>4, <1>5, Slots, Sizes DEF TypeOK, Shape, Overtaking, Inv
<1>14. Departure'
    BY <1>1, <1>2, <1>3, <1>4, <1>5, Within, Types, Slots
       DEF Agree, Departure, InHand, Left, NotLeft, OutsideMap, Inv
<1>. QED BY <1>6, <1>7, <1>8, <1>9, <1>10, <1>11, <1>12, <1>13, <1>14 DEF Inv

(* The threads have ended.                                                 *)
LEMMA StepJoined == ASSUME Inv, Joined PROVE Inv'
<1>1. TypeOK'
    BY Slots, Within, Types
       DEF Joined, TypeOK, Shape, Statuses, Left, NotLeft, Inv, callVars, phaseVars, callerVars,
       poolVars
<1>2. Shape'
    BY Slots, Within, Types
       DEF Joined, TypeOK, Shape, Stations, Left, NotLeft, Inv, callVars, phaseVars, callerVars,
       poolVars
<1>3. Agree'
    BY Types, Sizes DEF Joined, Agree, Sent, Ended, Inv, callVars, phaseVars, callerVars, poolVars
<1>4. Crew'
    BY Slots, Within, Types DEF Joined, Agree, Crew, Inv, callVars, phaseVars, callerVars, poolVars
<1>5. Filed'
    BY Within, Slots DEF Joined, Filed, InHand, Ended, Inv, callVars, phaseVars, callerVars, poolVars
<1>6. Account'
    BY Within, Types, Sizes
       DEF Joined, Agree, Account, Pending, Sent, Accounted, Untroubled, OutsideMap, Ended, Revoked,
       Inv, callVars, phaseVars, callerVars, poolVars
<1>7. Withdrawn'
    BY Within, Types
       DEF Joined, Agree, Withdrawn, Pending, Untroubled, Revoked, Ended, Inv, callVars, phaseVars,
       callerVars, poolVars
<1>8. Overtaking'
    BY Slots, Sizes DEF Joined, TypeOK, Shape, Overtaking, Inv, callVars, phaseVars, callerVars, poolVars
<1>9. Departure'
    BY Within, Types, Slots
       DEF Joined, Agree, Departure, InHand, Left, NotLeft, OutsideMap, Inv, callVars, phaseVars,
       callerVars, poolVars
<1>. QED BY <1>1, <1>2, <1>3, <1>4, <1>5, <1>6, <1>7, <1>8, <1>9 DEF Inv

(* A worker starts the queue's head.                                       *)
LEMMA StepStarts == ASSUME Inv, NEW w \in Workers, Pop(w), status[Head(queue)] = "queued" PROVE Inv'
<1>. DEFINE s == Head(queue)
<1>1. queue \in Seq(Slot) /\ queue # <<>> /\ IsInjective(queue) /\ on[w] = None
    BY DEF Pop, Inv, TypeOK, Crew
<1>2. /\ s \in Slot /\ queue' \in Seq(Slot) /\ ToSet(queue) = {s} \cup ToSet(queue')
      /\ IsInjective(queue') /\ s \notin ToSet(queue')
    BY <1>1, Queued, Lined DEF Pop
<1>3. status[s] \in {"queued", "cancelled"}
    BY <1>2 DEF Inv, Crew
<1>4. /\ status' \in [Slot -> Statuses] /\ s \in Slot /\ status[s] = "queued" /\ status'[s] = "running"
      /\ \A t \in Slot \ {s} : status'[t] = status[t]
    BY <1>2 DEF Pop, Inv, TypeOK, Statuses
<1>5. /\ on' \in [Workers -> Slot \cup {None}] /\ on'[w] = s
      /\ \A v \in Workers \ {w} : on'[v] = on[v]
    BY <1>2 DEF Pop, Inv, TypeOK
<1>6. /\ ran' \in [Slot -> Nat] /\ ran[s] = 0 /\ ran'[s] = 1
      /\ \A t \in Slot \ {s} : ran'[t] = ran[t]
    <2>1. ran[s] = 0
        BY <1>2 DEF Inv, Agree
    <2>2. ran' = [ran EXCEPT ![s] = @ + 1] /\ ran \in [Slot -> Nat]
        BY <1>2, Types DEF Pop
    <2>. QED BY <1>2, <2>1, <2>2
<1>7. s \notin results \cup failures
    BY <1>6 DEF Inv, Filed
<1>. HIDE DEF s
<1>8. /\ verdict' = verdict /\ items' = items /\ size' = size /\ own' = own /\ next' = next /\ futures' = futures
      /\ results' = results /\ failures' = failures /\ pc' = pc /\ todo' = todo /\ spare' = spare /\ back' = back
      /\ outcome' = outcome /\ retired' = retired
    BY DEF Pop, callVars, phaseVars, callerVars, poolVars
<1>9. TypeOK'
    BY <1>2, <1>4, <1>5, <1>6, <1>8, Slots, Within, Types DEF TypeOK, Shape, Statuses, Left, NotLeft, Inv
<1>10. Shape'
    BY <1>2, <1>4, <1>5, <1>6, <1>8, Slots, Within, Types DEF TypeOK, Shape, Stations, Left, NotLeft, Inv
<1>11. Agree'
    BY <1>4, <1>6, <1>8, Types, Sizes DEF Agree, Sent, Ended, Inv
<1>12. Crew'
    <2>1. IsInjective(queue') /\ \A t \in ToSet(queue') : status'[t] \in {"queued", "cancelled"}
        BY <1>2, <1>4, Within DEF Inv, Crew
    <2>2. \A v \in Workers : on'[v] # None => status'[on'[v]] = "running"
        BY <1>4, <1>5, Types DEF Inv, Crew
    <2>3. \A u, v \in Workers : on'[u] # None /\ on'[u] = on'[v] => u = v
        BY <1>4, <1>5, Types, Slots DEF Inv, Crew
    <2>4. back' # None => status'[back'] \in {"cancelled", "notified"} /\ ran'[back'] > 0
        BY <1>4, <1>6, <1>8, Within, Types DEF Inv, Crew
    <2>. QED BY <2>1, <2>2, <2>3, <2>4 DEF Crew
<1>13. Filed'
    BY <1>4, <1>6, <1>7, <1>8, Within, Slots DEF Filed, InHand, Ended, Inv
<1>14. Account'
    BY <1>2, <1>4, <1>5, <1>6, <1>8, Within, Types, Sizes
       DEF Agree, Account, Pending, Sent, Accounted, Untroubled, OutsideMap, Ended, Revoked, Inv
<1>15. Withdrawn'
    BY <1>4, <1>6, <1>8, Within, Types DEF Agree, Withdrawn, Pending, Untroubled, Revoked, Ended, Inv
<1>16. Overtaking'
    BY <1>2, <1>4, <1>5, <1>6, <1>8, Slots, Sizes DEF TypeOK, Shape, Overtaking, Inv
<1>17. Departure'
    <2>1. ASSUME pc = "cancel", outcome.at # None
          PROVE  verdict'[outcome.at] = "bug" /\ ran'[outcome.at] > 0 /\ outcome.at \notin InHand'
        <3>1. outcome.at \in Slot /\ verdict[outcome.at] = "bug" /\ ran[outcome.at] > 0 /\ outcome.at \notin InHand
            BY <2>1, Within DEF Inv, Departure
        <3>. QED BY <3>1, <1>4, <1>6, <1>8 DEF InHand
    <2>. QED BY <2>1, <1>8 DEF Inv, Departure, OutsideMap
<1>. QED BY <1>9, <1>10, <1>11, <1>12, <1>13, <1>14, <1>15, <1>16, <1>17 DEF Inv

(* A worker drops a cancelled head and wakes its waiters.                  *)
LEMMA StepNotifies == ASSUME Inv, NEW w \in Workers, Pop(w), status[Head(queue)] # "queued" PROVE Inv'
<1>. DEFINE s == Head(queue)
<1>1. queue \in Seq(Slot) /\ queue # <<>> /\ IsInjective(queue) /\ on[w] = None
    BY DEF Pop, Inv, TypeOK, Crew
<1>2. /\ s \in Slot /\ queue' \in Seq(Slot) /\ ToSet(queue) = {s} \cup ToSet(queue')
      /\ IsInjective(queue') /\ s \notin ToSet(queue')
    BY <1>1, Queued, Lined DEF Pop
<1>3. status[s] \in {"queued", "cancelled"}
    BY <1>2 DEF Inv, Crew
<1>4. /\ status' \in [Slot -> Statuses] /\ status[s] = "cancelled" /\ status'[s] = "notified"
      /\ \A t \in Slot \ {s} : status'[t] = status[t]
    BY <1>2, <1>3 DEF Pop, Inv, TypeOK, Statuses
<1>. HIDE DEF s
<1>5. /\ verdict' = verdict /\ items' = items /\ size' = size /\ own' = own /\ next' = next /\ futures' = futures
      /\ results' = results /\ failures' = failures /\ pc' = pc /\ todo' = todo /\ spare' = spare /\ back' = back
      /\ outcome' = outcome /\ retired' = retired /\ on' = on /\ ran' = ran
    BY DEF Pop, callVars, phaseVars, callerVars, poolVars
<1>6. TypeOK'
    BY <1>2, <1>4, <1>5, Slots, Within, Types DEF TypeOK, Shape, Statuses, Left, NotLeft, Inv
<1>7. Shape'
    BY <1>2, <1>4, <1>5, Slots, Within, Types DEF TypeOK, Shape, Stations, Left, NotLeft, Inv
<1>8. Agree'
    BY <1>2, <1>4, <1>5, Types, Sizes DEF Agree, Sent, Ended, Inv
<1>9. Crew'
    <2>1. IsInjective(queue') /\ \A t \in ToSet(queue') : status'[t] \in {"queued", "cancelled"}
        BY <1>2, <1>4, Within DEF Inv, Crew
    <2>2. \A v \in Workers : on'[v] # None => status'[on'[v]] = "running"
        BY <1>4, <1>5, Types DEF Inv, Crew
    <2>3. \A u, v \in Workers : on'[u] # None /\ on'[u] = on'[v] => u = v
        BY <1>4, <1>5, Types, Slots DEF Inv, Crew
    <2>4. back' # None => status'[back'] \in {"cancelled", "notified"} /\ ran'[back'] > 0
        BY <1>4, <1>5, Within, Types DEF Inv, Crew
    <2>. QED BY <2>1, <2>2, <2>3, <2>4 DEF Crew
<1>10. Filed'
    BY <1>2, <1>4, <1>5, Within, Slots DEF Filed, InHand, Ended, Inv
<1>11. Account'
    BY <1>2, <1>4, <1>5, Within, Types, Sizes
       DEF Agree, Account, Pending, Sent, Accounted, Untroubled, OutsideMap, Ended, Revoked, Inv
<1>12. Withdrawn'
    BY <1>2, <1>4, <1>5, Within, Types DEF Agree, Withdrawn, Pending, Untroubled, Revoked, Ended, Inv
<1>13. Overtaking'
    BY <1>2, <1>4, <1>5, Slots, Sizes DEF TypeOK, Shape, Overtaking, Inv
<1>14. Departure'
    BY <1>2, <1>4, <1>5, Within, Types, Slots DEF Agree, Departure, InHand, Left, NotLeft, OutsideMap, Inv
<1>. QED BY <1>6, <1>7, <1>8, <1>9, <1>10, <1>11, <1>12, <1>13, <1>14 DEF Inv

(* A worker's item ends.                                                   *)
LEMMA StepFinish == ASSUME Inv, NEW w \in Workers, Finish(w) PROVE Inv'
<1>1. on[w] \in Slot /\ on' = [on EXCEPT ![w] = None] /\ status[on[w]] = "running"
    BY Slots DEF Finish, Inv, TypeOK, Crew
<1>2. /\ status' \in [Slot -> Statuses] /\ status'[on[w]] \in Ended
      /\ status'[on[w]] = "ok" => verdict[on[w]] \in {"ok", "blocks"}
      /\ status'[on[w]] = "refused" => verdict[on[w]] = "refuse"
      /\ status'[on[w]] = "bug" => verdict[on[w]] = "bug"
      /\ \A s \in Slot \ {on[w]} : status'[s] = status[s]
    <2>1. verdict[on[w]] \in AllVerdicts
        BY <1>1 DEF Inv, Shape
    <2>2. status' = [status EXCEPT ![on[w]] = EndOf(verdict[on[w]])] /\ status \in [Slot -> Statuses]
        BY DEF Finish, Inv, TypeOK
    <2>. QED BY <1>1, <2>1, <2>2 DEF EndOf, AllVerdicts, Ended, Statuses
<1>3. /\ verdict' = verdict /\ items' = items /\ size' = size /\ own' = own /\ next' = next /\ futures' = futures
      /\ results' = results /\ failures' = failures /\ pc' = pc /\ todo' = todo /\ spare' = spare /\ back' = back
      /\ outcome' = outcome /\ retired' = retired /\ queue' = queue /\ ran' = ran
    BY DEF Finish, callVars, phaseVars, callerVars, poolVars
<1>4. TypeOK'
    BY <1>1, <1>2, <1>3, Slots, Within, Types DEF TypeOK, Shape, Statuses, Left, NotLeft, Inv
<1>5. Shape'
    BY <1>1, <1>2, <1>3, Slots, Within, Types DEF TypeOK, Shape, Stations, Left, NotLeft, Inv
<1>6. Agree'
    BY <1>1, <1>2, <1>3, Types, Sizes DEF Agree, Sent, Ended, Inv
<1>7. Crew'
    <2>1. IsInjective(queue') /\ \A t \in ToSet(queue') : status'[t] \in {"queued", "cancelled"}
        BY <1>1, <1>2, <1>3, Within DEF Inv, Crew
    <2>2. \A v \in Workers : on'[v] # None => status'[on'[v]] = "running"
        BY <1>1, <1>2, Types DEF Inv, Crew
    <2>3. \A u, v \in Workers : on'[u] # None /\ on'[u] = on'[v] => u = v
        BY <1>1, <1>2, Types, Slots DEF Inv, Crew
    <2>4. back' # None => status'[back'] \in {"cancelled", "notified"} /\ ran'[back'] > 0
        BY <1>1, <1>2, <1>3, Within, Types DEF Inv, Crew
    <2>. QED BY <2>1, <2>2, <2>3, <2>4 DEF Crew
<1>8. Filed'
    BY <1>1, <1>2, <1>3, Within, Slots DEF Filed, InHand, Ended, Inv
<1>9. Account'
    BY <1>1, <1>2, <1>3, Within, Types, Sizes
       DEF Agree, Account, Pending, Sent, Accounted, Untroubled, OutsideMap, Ended, Revoked, Inv
<1>10. Withdrawn'
    BY <1>1, <1>2, <1>3, Within, Types DEF Agree, Withdrawn, Pending, Untroubled, Revoked, Ended, Inv
<1>11. Overtaking'
    BY <1>1, <1>2, <1>3, Slots, Sizes DEF TypeOK, Shape, Overtaking, Inv
<1>12. Departure'
    BY <1>1, <1>2, <1>3, Within, Types, Slots DEF Agree, Departure, InHand, Left, NotLeft, OutsideMap, Inv
<1>. QED BY <1>4, <1>5, <1>6, <1>7, <1>8, <1>9, <1>10, <1>11, <1>12 DEF Inv

LEMMA InitInv == Init => Inv
<1>. SUFFICES ASSUME Init PROVE Inv
    OBVIOUS
<1>1. <<>> \in Seq(Slot) /\ ToSet(<<>>) = {} /\ IsInjective(<<>>) /\ Len(<<>>) = 0
    BY EmptySeq DEF ToSet, IsInjective
<1>2. items \in 0..MaxItems /\ size = items /\ next = 0 /\ items \in Nat
    BY WorkPoolAssumption DEF Init
<1>3. TypeOK
    BY <1>1, <1>2, WorkPoolAssumption DEF Init, TypeOK, Statuses, NotLeft
<1>4. Shape
    <2>1. verdict \in [Slot -> AllVerdicts]
        BY WorkPoolAssumption DEF Init
    <2>. QED BY <1>1, <2>1, Slots DEF Init, Shape, Stations, NotLeft
<1>5. \A s \in Slot : ~Sent(s) /\ status[s] = "unsent" /\ ran[s] = 0
    BY <1>2, Slots DEF Init, Sent
<1>6. Agree
    BY <1>5 DEF Agree, Ended
<1>7. Crew /\ Filed
    BY <1>1, Slots DEF Init, Crew, Filed
<1>8. Account /\ Withdrawn
    BY <1>1, <1>5, Slots DEF Init, Account, Withdrawn, Pending, OutsideMap, Accounted, Untroubled, Revoked
<1>9. Overtaking
    BY <1>1, <1>2 DEF Init, Overtaking
<1>10. Departure
    BY DEF Init, Departure, OutsideMap
<1>. QED BY <1>3, <1>4, <1>6, <1>7, <1>8, <1>9, <1>10 DEF Inv

LEMMA StepInv == Inv /\ [Next]_vars => Inv'
<1>. SUFFICES ASSUME Inv, [Next]_vars PROVE Inv'
    OBVIOUS
<1>1. CASE Loop
    BY <1>1, StepLoop
<1>2. CASE Admit \/ Admitted
    BY <1>2, StepAdmit, StepAdmitted
<1>3. CASE BesideSubmits \/ BesideReturns \/ BesideDeclines \/ BesideRefuses \/ BesideBreaks
    BY <1>3, StepBesideSubmits, StepBesideReturns, StepBesideDeclines, StepBesideRefuses, StepBesideBreaks
<1>4. CASE TakeBack
    BY <1>4, StepTakes, StepSkips
<1>5. CASE BackEnds
    BY <1>5, StepBackBreaks, StepBackEnds
<1>6. CASE TookBack
    BY <1>6, StepTookBack
<1>7. CASE Collect
    BY <1>7, StepCollectsBug, StepCollects
<1>8. CASE DrainCancels \/ Cancels
    BY <1>8, StepDrainCancels, StepCancels
<1>9. CASE Drained
    BY <1>9, StepDrainedBug, StepDrained
<1>10. CASE Unwound \/ LeavesAtOnce \/ Close \/ Joined
    BY <1>10, StepUnwound, StepLeavesAtOnce, StepClose, StepJoined
<1>11. ASSUME NEW w \in Workers, Pop(w) PROVE Inv'
    BY <1>11, StepStarts, StepNotifies
<1>12. ASSUME NEW w \in Workers, Finish(w) PROVE Inv'
    BY <1>12, StepFinish
<1>13. CASE UNCHANGED vars
    <2>1. /\ verdict' = verdict /\ items' = items /\ size' = size /\ own' = own /\ next' = next
          /\ futures' = futures /\ results' = results /\ failures' = failures
          /\ pc' = pc /\ todo' = todo /\ spare' = spare /\ back' = back
          /\ outcome' = outcome /\ retired' = retired
          /\ queue' = queue /\ status' = status /\ on' = on /\ ran' = ran
        BY <1>13 DEF vars, callVars, phaseVars, callerVars, poolVars
    <2>2. TypeOK' /\ Shape' /\ Agree' /\ Crew' /\ Filed'
        BY <2>1 DEF Inv, TypeOK, Shape, Agree, Sent, Crew, Filed, InHand
    <2>3. Account' /\ Withdrawn' /\ Overtaking' /\ Departure'
        BY <2>1
           DEF Inv, Account, Withdrawn, Overtaking, Departure, Pending, Sent, OutsideMap, Accounted,
           Untroubled, InHand
    <2>. QED BY <2>2, <2>3 DEF Inv
<1>. QED BY <1>1, <1>2, <1>3, <1>4, <1>5, <1>6, <1>7, <1>8, <1>9, <1>10, <1>11, <1>12, <1>13
   DEF Next, Caller, Worker

(* The phase stays typed and accounted for.                                *)
THEOREM Accountancy == Spec => []Inv
BY InitInv, StepInv, PTL DEF Spec

(* The states of the phase are well typed, for any workers and bounds.     *)
THEOREM Typed == Spec => []TypeOK
<1>1. Inv => TypeOK
    BY DEF Inv
<1>. QED BY <1>1, Accountancy, PTL

(* A pool that is not retired when map leaves has nothing queued and       *)
(* nothing running: PoolLease may lend it again.                           *)
THEOREM Whole == Spec => []PoolWhole
<1>1. Inv => PoolWhole
    BY DEF Inv, Account, PoolWhole
<1>. QED BY <1>1, Accountancy, PTL

-----------------------------------------------------------------------------
(* A step that starts, ends and grows nothing, and does not leave map, is  *)
(* no step of the contract.                                                *)
LEMMA Unseen ==
    ASSUME verdict' = verdict, items' = items, size' = size,
           Started' = Started, InHand' = InHand, OutsideMap' = OutsideMap,
           OutsideMap => outcome' = outcome /\ retired' = retired
    PROVE  UNCHANGED Contract!vars
BY DEF Contract!vars

LEMMA InitContract == Init => Contract!Init
<1>. SUFFICES ASSUME Init PROVE Contract!Init
    OBVIOUS
<1>1. Started = {} /\ ~OutsideMap /\ size = items
    BY DEF Init, Started, OutsideMap
<1>. QED BY <1>1 DEF Contract!Init, NotLeft

LEMMA LoopKeeps == ASSUME Inv, Loop PROVE [Contract!Next]_(Contract!vars)
<1>1. /\ verdict' = verdict /\ items' = items /\ size' = size /\ retired' = retired
      /\ back' = back /\ status' = status /\ ran' = ran
    BY DEF Loop, callVars, phaseVars, poolVars
<1>2. Started' = Started /\ InHand' = InHand /\ ~OutsideMap /\ pc = "loop"
    BY <1>1 DEF Started, InHand, Loop, OutsideMap
<1>3. CASE pc' = "admit"
    BY <1>1, <1>2, <1>3, Unseen DEF OutsideMap
<1>4. CASE pc' = "left"
    <2>1. next >= items /\ futures = <<>> /\ ~own
        BY <1>2, <1>4, Sizes DEF Loop
    <2>2. outcome' = [kind |-> "returned", at |-> None] /\ OutsideMap' /\ retired' = "no"
        BY <1>1, <1>2, <1>4 DEF Loop, Leave, OutsideMap, Inv, Departure
    <2>3. failures = {} /\ back = None /\ Pending = {}
        BY <1>2, <2>1 DEF Inv, Filed, Shape, Pending, ToSet
    <2>4. \A s \in Slot : s < size => s \in results
        BY <1>2, <2>1, <2>3, Slots, Sizes DEF Inv, Account, Accounted, Untroubled, Sent
    <2>5. \A s \in results : s \in Started \ InHand /\ verdict[s] \in {"ok", "blocks"}
        BY Within DEF Inv, Filed, Started
    <2>6. \A s \in Started : s < size
        BY Slots, Sizes DEF Started, Inv, Agree, Sent
    <2>7. Started \ InHand = {s \in Slot : s < size}
        BY <2>4, <2>5, <2>6 DEF Started
    <2>8. \A s \in Started \ InHand : verdict[s] \in {"ok", "blocks"}
        BY <2>4, <2>5, <2>7
    <2>9. Contract!Return
        BY <1>1, <1>2, <2>2, <2>7, <2>8
           DEF Contract!Return, Contract!Leaves, Contract!Left, Contract!Good, NotLeft
    <2>. QED BY <2>9 DEF Contract!Next
<1>. QED BY <1>2, <1>3, <1>4 DEF Loop

(* The caller's own steps that only look, or cancel what nobody started.   *)
LEMMA Quiet ==
    ASSUME Inv, \/ Admitted \/ BesideReturns \/ BesideDeclines \/ BesideRefuses \/ BesideBreaks
                \/ TookBack \/ Collect \/ DrainCancels \/ Cancels \/ Joined
    PROVE  UNCHANGED Contract!vars
<1>1. /\ verdict' = verdict /\ items' = items /\ size' = size
      /\ back' = back /\ ran' = ran
    BY DEF Admitted, BesideReturns, BesideDeclines, BesideRefuses, BesideBreaks, TookBack, Collect,
           DrainCancels, Cancels, Joined, callVars, phaseVars, callerVars, poolVars
<1>2. \A s \in Slot : status'[s] = "running" <=> status[s] = "running"
    <2>1. CASE status' = status
        BY <2>1
    <2>2. CASE DrainCancels \/ Cancels
        <3>1. todo \in Seq(Slot) /\ todo # <<>>
            BY <2>2 DEF DrainCancels, Cancels, Inv, Shape
        <3>2. Head(todo) \in Slot
            BY <3>1, Queued
        <3>3. status' = status \/ status' = [status EXCEPT ![Head(todo)] = IF @ = "queued" THEN "cancelled" ELSE @]
            BY <2>2 DEF DrainCancels, Cancels, Cancelled
        <3>. QED BY <3>2, <3>3, Types
    <2>. QED BY <2>1, <2>2 DEF Admitted, BesideReturns, BesideDeclines, BesideRefuses, BesideBreaks, TookBack,
                  Collect, Joined, poolVars
<1>3. OutsideMap' = OutsideMap /\ (OutsideMap => outcome' = outcome /\ retired' = retired)
    BY
       DEF Admitted, AfterShare, BesideReturns, BesideDeclines, BesideRefuses, BesideBreaks, Fails,
       TookBack, Collect,
           DrainCancels, Cancels, Joined, callerVars, OutsideMap
<1>4. Started' = Started
    BY <1>1 DEF Started
<1>5. InHand' = InHand
    BY <1>1, <1>2 DEF InHand
<1>. QED BY <1>1, <1>3, <1>4, <1>5, Unseen

LEMMA ClosesQuietly == ASSUME Inv, Close PROVE UNCHANGED Contract!vars
<1>1. /\ verdict' = verdict /\ items' = items /\ size' = size
      /\ back' = back /\ ran' = ran /\ outcome' = outcome /\ retired' = retired
    BY DEF Close, callVars, phaseVars
<1>2. OutsideMap' /\ OutsideMap
    BY DEF Close, OutsideMap
<1>3. \A s \in Slot : status'[s] = "running" <=> status[s] = "running"
    BY DEF Close
<1>4. Started' = Started
    BY <1>1 DEF Started
<1>5. InHand' = InHand
    BY <1>1, <1>3 DEF InHand
<1>. QED BY <1>1, <1>2, <1>4, <1>5, Unseen

(* beside hands in a late item.                                            *)
LEMMA SubmitGrows == ASSUME Inv, BesideSubmits PROVE Contract!AddLate
<1>1. /\ verdict' = verdict /\ items' = items /\ size' = size + 1
      /\ back' = back /\ ran' = ran /\ ~OutsideMap /\ ~OutsideMap'
    BY DEF BesideSubmits, callVars, callerVars, OutsideMap
<1>2. status' = [status EXCEPT ![size] = "queued"]
    BY DEF BesideSubmits, Send
<1>3. status[size] # "running"
    <2>1. size \in Slot
        BY WorkPoolAssumption DEF BesideSubmits, Inv, TypeOK, Slot
    <2>. QED BY <2>1, Sizes DEF Inv, Agree, Sent
<1>4. Started' = Started
    BY <1>1 DEF Started
<1>5. InHand' = InHand
    BY <1>1, <1>2, <1>3, Types DEF InHand
<1>. QED BY <1>1, <1>4, <1>5 DEF Contract!AddLate, Contract!Left, NotLeft

LEMMA AdmitsQuietly == ASSUME Inv, Admit PROVE UNCHANGED Contract!vars
<1>1. /\ verdict' = verdict /\ items' = items /\ size' = size
      /\ back' = back /\ ran' = ran /\ ~OutsideMap /\ OutsideMap' = OutsideMap
    BY DEF Admit, callVars, callerVars, OutsideMap
<1>2. status' = [status EXCEPT ![next] = "queued"]
    BY DEF Admit, Send
<1>3. status[next] # "running"
    <2>1. next \in Slot /\ next < items
        BY WorkPoolAssumption DEF Admit, MayAdmit, Inv, TypeOK, Slot
    <2>. QED BY <2>1, Sizes DEF Inv, Agree, Sent
<1>4. Started' = Started
    BY <1>1 DEF Started
<1>5. InHand' = InHand
    BY <1>1, <1>2, <1>3, Types DEF InHand
<1>. QED BY <1>1, <1>4, <1>5, Unseen

(* A slot nobody had started is started, here or by a worker.              *)
LEMMA Starting ==
    ASSUME Inv, NEW s \in Slot, status[s] = "queued", ran[s] = 0, ~OutsideMap, ~OutsideMap',
           verdict' = verdict, items' = items, size' = size,
           ran' = [ran EXCEPT ![s] = @ + 1], InHand' = InHand \cup {s}, s \notin InHand
    PROVE  Contract!Start(s)
<1>1. s < size
    BY Sizes, Slots DEF Inv, Agree, Sent
<1>2. Started' = Started \cup {s} /\ s \notin Started
    BY Types DEF Started
<1>3. Started' \ InHand' = Started \ InHand
    BY <1>2
<1>. QED BY <1>1, <1>2, <1>3 DEF Contract!Start, Contract!Left, NotLeft

LEMMA TakeStarts == ASSUME Inv, TakeBack PROVE [Contract!Next]_(Contract!vars)
<1>. DEFINE s == Head(todo)
<1>1. /\ verdict' = verdict /\ items' = items /\ size' = size
      /\ ~OutsideMap /\ OutsideMap' = OutsideMap /\ s \in Slot /\ back = None
    <2>1. todo \in Seq(Slot) /\ todo # <<>> /\ pc = "takeback"
        BY DEF TakeBack, Inv, Shape
    <2>2. s \in Slot
        BY <2>1, Queued
    <2>. QED BY <2>1, <2>2 DEF TakeBack, callVars, OutsideMap, Inv, Shape
<1>2. CASE status[s] = "queued"
    <2>1. ran' = [ran EXCEPT ![s] = @ + 1] /\ back' = s /\ status' = [status EXCEPT ![s] = "cancelled"]
        BY <1>1, <1>2, Types DEF TakeBack, MayTake, Cancelled
    <2>2. ran[s] = 0
        BY <1>1, <1>2 DEF Inv, Agree
    <2>. HIDE DEF s
    <2>3. InHand' = InHand \cup {s} /\ s \notin InHand
        BY <1>1, <1>2, <2>1, Types, Slots DEF InHand
    <2>4. Contract!Start(s)
        BY <1>1, <1>2, <2>1, <2>2, <2>3, Starting
    <2>. QED BY <1>1, <2>4 DEF Contract!Next
<1>3. CASE status[s] # "queued"
    <2>1. ran' = ran /\ back' = back /\ status' = status
        BY <1>1, <1>3, Types DEF TakeBack, MayTake, Cancelled
    <2>2. Started' = Started /\ InHand' = InHand
        BY <2>1 DEF Started, InHand
    <2>. QED BY <1>1, <2>2, Unseen
<1>. QED BY <1>2, <1>3

LEMMA PopStarts == ASSUME Inv, NEW w \in Workers, Pop(w) PROVE [Contract!Next]_(Contract!vars)
<1>. DEFINE s == Head(queue)
<1>1. /\ verdict' = verdict /\ items' = items /\ size' = size /\ back' = back
      /\ OutsideMap' = OutsideMap /\ outcome' = outcome /\ retired' = retired
    BY DEF Pop, callVars, phaseVars, callerVars, OutsideMap
<1>2. s \in Slot /\ status[s] \in {"queued", "cancelled"}
    <2>1. queue \in Seq(Slot) /\ queue # <<>>
        BY DEF Pop, Inv, TypeOK
    <2>2. s \in Slot /\ s \in ToSet(queue)
        BY <2>1, Queued
    <2>. QED BY <2>2 DEF Inv, Crew
<1>3. CASE status[s] = "queued"
    <2>1. ran' = [ran EXCEPT ![s] = @ + 1] /\ status' = [status EXCEPT ![s] = "running"]
        BY <1>3 DEF Pop
    <2>. HIDE DEF s
    <2>2. ran[s] = 0 /\ back # s /\ ~OutsideMap
        BY <1>2, <1>3, Slots DEF Inv, Agree, Crew, Account
    <2>3. InHand' = InHand \cup {s} /\ s \notin InHand
        BY <1>1, <1>2, <1>3, <2>1, <2>2, Types DEF InHand
    <2>4. Contract!Start(s)
        BY <1>1, <1>2, <1>3, <2>1, <2>2, <2>3, Starting
    <2>. QED BY <1>2, <2>4 DEF Contract!Next
<1>4. CASE status[s] # "queued"
    <2>1. ran' = ran /\ status' = [status EXCEPT ![s] = "notified"]
        BY <1>4 DEF Pop
    <2>. HIDE DEF s
    <2>2. Started' = Started /\ InHand' = InHand
        BY <1>1, <1>2, <1>4, <2>1, Types DEF Started, InHand
    <2>. QED BY <1>1, <2>2, Unseen
<1>. QED BY <1>3, <1>4

(* What was in somebody's hands ends.                                      *)
LEMMA Ending ==
    ASSUME Inv, NEW s \in Slot, s \in InHand, InHand' = InHand \ {s}, ran' = ran, ran[s] > 0,
           verdict' = verdict, items' = items, size' = size, OutsideMap' = OutsideMap,
           OutsideMap => outcome' = outcome /\ retired' = retired
    PROVE  Contract!End(s)
<1>1. Started' = Started /\ s \in Started
    BY DEF Started
<1>2. Started' \ InHand' = (Started \ InHand) \cup {s}
    BY <1>1
<1>. QED BY <1>1, <1>2 DEF Contract!End

LEMMA FinishEnds == ASSUME Inv, NEW w \in Workers, Finish(w) PROVE Contract!Next
<1>. DEFINE s == on[w]
<1>1. /\ verdict' = verdict /\ items' = items /\ size' = size /\ back' = back /\ ran' = ran
      /\ OutsideMap' = OutsideMap /\ outcome' = outcome /\ retired' = retired
    BY DEF Finish, callVars, phaseVars, callerVars, OutsideMap
<1>2. s \in Slot /\ status[s] = "running" /\ back # s /\ ran[s] > 0
    <2>1. s \in Slot /\ status[s] = "running"
        BY Types DEF Finish, Inv, Crew
    <2>. HIDE DEF s
    <2>2. ran[s] > 0
        BY <2>1 DEF Inv, Agree
    <2>. QED BY <2>1, <2>2, Slots DEF Inv, Crew
<1>3. status' = [status EXCEPT ![s] = EndOf(verdict[s])] /\ EndOf(verdict[s]) # "running"
    BY DEF Finish, EndOf
<1>. HIDE DEF s
<1>4. InHand' = InHand \ {s} /\ s \in InHand
    BY <1>1, <1>2, <1>3, Types DEF InHand
<1>. QED BY <1>1, <1>2, <1>4, Ending DEF Contract!Next

LEMMA BackEndsEnds == ASSUME Inv, BackEnds PROVE Contract!Next
<1>1. /\ verdict' = verdict /\ items' = items /\ size' = size /\ back' = None /\ ran' = ran
      /\ OutsideMap' = OutsideMap /\ ~OutsideMap /\ status' = status
    BY DEF BackEnds, Fails, callVars, poolVars, OutsideMap
<1>2. back \in Slot /\ status[back] # "running" /\ ran[back] > 0
    BY Within DEF BackEnds, Inv, Shape, Crew
<1>3. InHand' = InHand \ {back} /\ back \in InHand
    BY <1>1, <1>2, Slots DEF InHand
<1>. QED BY <1>1, <1>2, <1>3, Ending DEF Contract!Next

(* A refused phase leaves once everything pending has settled: nothing is  *)
(* in anybody's hands.                                                     *)
LEMMA Settles ==
    ASSUME Inv, Accounted \/ pc = "unwind", AllSettled, back = None
    PROVE  InHand = {} /\ \A s \in Slot : status[s] \notin {"queued", "running"}
<1>1. \A s \in Slot : status[s] \notin {"queued", "running"}
    BY DEF AllSettled, Settled, Ended, Inv, Account, Pending
<1>. QED BY <1>1, Slots DEF InHand

(* The earliest refusal: everything before it ran and succeeded, save what *)
(* a late refusal overtook behind the window.                              *)
LEMMA DrainRefuses ==
    ASSUME Inv, Drained, \A s \in ToSet(futures) : status[s] # "bug"
    PROVE  Contract!Next
<1>. DEFINE m == Min(failures')
<1>1. /\ verdict' = verdict /\ items' = items /\ size' = size /\ back' = back /\ ran' = ran /\ status' = status
      /\ pc = "drain" /\ back = None /\ AllSettled
    BY DEF Drained, callVars, poolVars, Inv, Shape
<1>2. /\ pc' = "left" /\ retired' = retired /\ outcome' = [kind |-> "refused", at |-> m]
      /\ failures' = failures \cup {s \in Pending : status[s] = "refused"}
    <2>. DEFINE bugs == Kept(futures, {s \in Slot : status[s] = "bug"})
    <2>1. bugs \in Seq(Slot) /\ ToSet(bugs) = ToSet(futures) \cap {s \in Slot : status[s] = "bug"}
        BY KeptIs DEF Inv, TypeOK
    <2>2. bugs = <<>>
        <3>1. ToSet(bugs) = {}
            BY <2>1
        <3>. HIDE DEF bugs
        <3>. QED BY <2>1, <3>1, Queued
    <2>. QED BY <2>2 DEF Drained, Leave, Pending
<1>3. InHand = {} /\ InHand' = InHand /\ Started' = Started
    BY <1>1, Settles DEF Accounted, InHand, Started
<1>4. m \in failures' /\ m \in Slot /\ (\A s \in failures' : m <= s) /\ (\A s \in failures : s \in failures')
    <2>1. failures' # {} /\ failures' \subseteq Slot
        BY <1>1, <1>2, Within DEF Inv, Filed
    <2>2. failures' \subseteq Nat
        BY <2>1, Slots
    <2>. QED BY <1>2, <2>1, <2>2, MinIs
<1>5. m <= Min(failures)
    <2>1. failures # {} /\ failures \subseteq Nat
        BY <1>1, Within, Slots DEF Inv, Filed
    <2>2. Min(failures) \in failures
        BY <2>1, MinIs
    <2>. QED BY <1>4, <2>2
<1>. HIDE DEF m
<1>6. m \in Started /\ verdict[m] = "refuse"
    <2>1. CASE m \in failures
        BY <1>4, <2>1 DEF Inv, Filed, Started
    <2>2. CASE m \in Pending /\ status[m] = "refused"
        BY <1>4, <2>2 DEF Inv, Agree, Started, Ended
    <2>. QED BY <1>2, <1>4, <2>1, <2>2
<1>7. ASSUME NEW t \in Started, t < m PROVE verdict[t] \in {"ok", "blocks"}
    <2>1. t \in Slot /\ ran[t] > 0 /\ t \notin failures' /\ t # None
        BY <1>4, <1>7, Slots DEF Started
    <2>2. t \in Pending \/ t \in results
        <3>1. Sent(t)
            BY <2>1 DEF Inv, Agree
        <3>. QED BY <1>1, <1>4, <2>1, <3>1 DEF Inv, Account, Accounted
    <2>3. CASE t \in results
        BY <2>3 DEF Inv, Filed
    <2>4. CASE t \in Pending
        <3>1. status[t] \in Settled /\ status[t] # "notified" /\ status[t] # "bug" /\ status[t] # "refused"
            BY <1>1, <1>2, <2>1, <2>4 DEF AllSettled, Pending, Inv, Withdrawn, Revoked
        <3>. QED BY <2>1, <3>1 DEF Settled, Ended, Inv, Agree
    <2>. QED BY <2>2, <2>3, <2>4
<1>8. ASSUME m < items \/ items <= Ready, NEW t \in Slot, t < m PROVE t \in Started
    <2>1. Sent(t)
        <3>1. Sent(m)
            BY <1>4, <1>6 DEF Inv, Agree, Started
        <3>2. size > items /\ items <= Ready => next = items
            BY DEF Inv, Overtaking
        <3>. QED BY <1>4, <1>8, <3>1, <3>2, Slots, Sizes DEF Sent
    <2>2. t \in Pending \cup results \cup failures
        BY <1>1, <2>1, Slots DEF Inv, Account, Accounted
    <2>3. CASE t \in results \cup failures
        BY <2>3 DEF Inv, Filed, Started
    <2>4. CASE t \in Pending
        <3>1. ASSUME status[t] = "notified" PROVE FALSE
            <4>1. ran[t] = 0
                BY <2>4, <3>1 DEF Inv, Withdrawn, Revoked
            <4>2. t > Min(failures)
                BY <1>1, <3>1, <4>1 DEF Inv, Withdrawn, Revoked
            <4>3. Min(failures) \in Nat
                <5>1. failures # {} /\ failures \subseteq Nat
                    BY <1>1, Within, Slots DEF Inv, Filed
                <5>. QED BY <5>1, MinIs
            <4>. QED BY <1>4, <1>5, <1>8, <4>2, <4>3, Slots
        <3>2. status[t] \in Ended
            BY <1>1, <2>4, <3>1 DEF AllSettled, Settled, Pending
        <3>. QED BY <3>2 DEF Inv, Agree, Started
    <2>. QED BY <2>2, <2>3, <2>4
<1>9. ~OutsideMap /\ OutsideMap' /\ retired' = "no"
    BY <1>1, <1>2 DEF OutsideMap, Inv, Departure
<1>10. Contract!Refuse(m)
    <2>1. Started \ InHand = Started /\ Started' \ InHand' = Started
        BY <1>3
    <2>. QED BY <1>1, <1>2, <1>3, <1>6, <1>7, <1>8, <1>9, <2>1
             DEF Contract!Refuse, Contract!Leaves, Contract!Left, Contract!Good, NotLeft
<1>. QED BY <1>4, <1>10 DEF Contract!Next

(* A bug met while draining does not leave yet.                            *)
LEMMA DrainFailsQuietly ==
    ASSUME Inv, Drained, \E s \in ToSet(futures) : status[s] = "bug"
    PROVE  UNCHANGED Contract!vars
<1>1. /\ verdict' = verdict /\ items' = items /\ size' = size /\ back' = back /\ ran' = ran /\ status' = status
    BY DEF Drained, callVars, poolVars
<1>2. Kept(futures, {s \in Slot : status[s] = "bug"}) # <<>>
    <2>1. futures \in Seq(Slot) /\ ToSet(futures) \subseteq Slot
        BY Queued DEF Inv, TypeOK
    <2>2. ToSet(Kept(futures, {s \in Slot : status[s] = "bug"})) = ToSet(futures) \cap {s \in Slot : status[s] = "bug"}
        BY <2>1, KeptIs
    <2>3. ToSet(Kept(futures, {s \in Slot : status[s] = "bug"})) # {}
        BY <2>1, <2>2
    <2>. QED BY <2>3 DEF ToSet
<1>3. ~OutsideMap /\ OutsideMap' = OutsideMap
    BY <1>2 DEF Drained, Fails, OutsideMap
<1>4. Started' = Started /\ InHand' = InHand
    BY <1>1 DEF Started, InHand
<1>. QED BY <1>1, <1>3, <1>4, Unseen

(* beside's own refusal.                                                   *)
LEMMA UnwoundRefuses == ASSUME Inv, Unwound PROVE Contract!RefuseBeside
<1>1. /\ verdict' = verdict /\ items' = items /\ size' = size /\ back' = back /\ ran' = ran /\ status' = status
      /\ pc = "unwind" /\ back = None /\ AllSettled
      /\ outcome' = [kind |-> "refused", at |-> None] /\ retired' = retired
    BY DEF Unwound, Leave, callVars, phaseVars, poolVars, Inv, Shape
<1>2. InHand = {} /\ InHand' = InHand /\ Started' = Started
    BY <1>1, Settles DEF InHand, Started
<1>3. ~OutsideMap /\ OutsideMap' /\ retired' = "no"
    BY <1>1 DEF Unwound, OutsideMap, Inv, Departure
<1>4. Started \ InHand = Started /\ Started' \ InHand' = Started
    BY <1>2
<1>. QED BY <1>1, <1>2, <1>3, <1>4 DEF Contract!RefuseBeside, Contract!Leaves, Contract!Left, NotLeft

(* A bug, or an abandoned phase, leaves with the pool retired.             *)
LEMMA LeavesRetired == ASSUME Inv, LeavesAtOnce PROVE Contract!Next
<1>1. /\ verdict' = verdict /\ items' = items /\ size' = size /\ back' = back /\ ran' = ran /\ status' = status
      /\ outcome' = outcome /\ retired' = retired /\ pc = "cancel" /\ pc' = "left"
    BY DEF LeavesAtOnce, callVars, phaseVars, poolVars
<1>2. ~OutsideMap /\ OutsideMap' /\ retired = outcome.kind /\ outcome.kind \in {"failed", "abandoned"}
    BY <1>1 DEF OutsideMap, Inv, Departure
<1>3. outcome.at \in Slot \cup {None} /\ outcome = [kind |-> outcome.kind, at |-> outcome.at]
    BY DEF Inv, Shape
<1>4. Started' = Started /\ InHand' = InHand
    BY <1>1 DEF Started, InHand
<1>5. outcome.at # None =>
        outcome.kind = "failed" /\ outcome.at \in Started \ InHand /\ verdict[outcome.at] = "bug"
    BY <1>1, <1>3 DEF Inv, Departure, Started
<1>6. CASE outcome.kind = "failed"
    BY <1>1, <1>2, <1>3, <1>4, <1>5, <1>6
       DEF Contract!Next, Contract!Fail, Contract!Leaves, Contract!Left, NotLeft
<1>7. CASE outcome.kind = "abandoned"
    BY <1>1, <1>2, <1>3, <1>4, <1>5, <1>7
       DEF Contract!Next, Contract!Abandon, Contract!Leaves, Contract!Left, NotLeft
<1>. QED BY <1>2, <1>6, <1>7

(* Every step of a phase is a step of the contract, or none.               *)
LEMMA StepContract == Inv /\ [Next]_vars => [Contract!Next]_(Contract!vars)
<1>. SUFFICES ASSUME Inv, [Next]_vars PROVE [Contract!Next]_(Contract!vars)
    OBVIOUS
<1>1. CASE Loop
    BY <1>1, LoopKeeps
<1>2. CASE Admit
    BY <1>2, AdmitsQuietly
<1>3. CASE BesideSubmits
    BY <1>3, SubmitGrows DEF Contract!Next
<1>4. CASE \/ Admitted \/ BesideReturns \/ BesideDeclines \/ BesideRefuses \/ BesideBreaks
           \/ TookBack \/ Collect \/ DrainCancels \/ Cancels \/ Joined
    BY <1>4, Quiet
<1>5. CASE TakeBack
    BY <1>5, TakeStarts
<1>6. CASE BackEnds
    BY <1>6, BackEndsEnds
<1>7. CASE Drained
    BY <1>7, DrainRefuses, DrainFailsQuietly
<1>8. CASE Unwound
    BY <1>8, UnwoundRefuses DEF Contract!Next
<1>9. CASE LeavesAtOnce
    BY <1>9, LeavesRetired
<1>10. CASE Close
    BY <1>10, ClosesQuietly
<1>11. ASSUME NEW w \in Workers, Pop(w) PROVE [Contract!Next]_(Contract!vars)
    BY <1>11, PopStarts
<1>12. ASSUME NEW w \in Workers, Finish(w) PROVE [Contract!Next]_(Contract!vars)
    BY <1>12, FinishEnds
<1>13. CASE UNCHANGED vars
    <2>1. /\ verdict' = verdict /\ items' = items /\ size' = size /\ back' = back /\ ran' = ran /\ status' = status
          /\ outcome' = outcome /\ retired' = retired /\ pc' = pc
        BY <1>13 DEF vars, callVars, phaseVars, callerVars, poolVars
    <2>2. Started' = Started /\ InHand' = InHand /\ OutsideMap' = OutsideMap
        BY <2>1 DEF Started, InHand, OutsideMap
    <2>. QED BY <2>1, <2>2, Unseen
<1>. QED BY <1>1, <1>2, <1>3, <1>4, <1>5, <1>6, <1>7, <1>8, <1>9, <1>10, <1>11, <1>12, <1>13
   DEF Next, Caller, Worker

(* A phase does what map's docstring promises, for any workers, items and  *)
(* verdicts: each item runs at most once; results come only when all       *)
(* succeeded; the refusal raised is the earliest; nothing is left running  *)
(* unless the pool is retired; and nothing starts once map has left.       *)
THEOREM Fulfilled == Spec => MeetsContract
BY InitContract, StepContract, Accountancy, PTL DEF Spec, MeetsContract, Contract!Spec

=============================================================================
