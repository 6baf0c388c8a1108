--------------------------- MODULE DataInduction ---------------------------
(***************************************************************************)
(* Facts about data the proofs keep needing: induction over the naturals,  *)
(* stated of a set and not of a predicate, and the members of a sequence   *)
(* as it grows and shrinks.                                                *)
(***************************************************************************)
EXTENDS Integers, SequencesExt, SequenceTheorems, WellFoundedInduction, TLAPS

Less == {p \in Nat \X Nat : p[1] < p[2]}

(* A set of naturals that is not empty has a least member.                 *)
LEMMA Least ==
    ASSUME NEW S, S \subseteq Nat, S # {}
    PROVE  \E m \in S : \A k \in S : m <= k
<1>1. IsWellFoundedOn(Less, Nat)
    BY NatLessThanWellFounded, Zenon DEF Less, OpToRel
<1>2. PICK m \in S : \A k \in S : ~(<<k, m>> \in Less)
    BY <1>1, WFMin
<1>3. ASSUME NEW k \in S PROVE m <= k
    <2>1. <<k, m>> \notin Less /\ k \in Nat /\ m \in Nat
        BY <1>2
    <2>2. ~(k < m)
        BY <2>1 DEF Less
    <2>. QED BY <2>1, <2>2
<1>. QED BY <1>3

(* The community modules' Min, of a set of naturals, is that member.       *)
LEMMA MinIs ==
    ASSUME NEW S, S \subseteq Nat, S # {}
    PROVE  Min(S) \in S /\ \A k \in S : Min(S) <= k
BY Least DEF Min

(* A set that holds 0, and with each natural the next, holds them all.     *)
LEMMA Climb ==
    ASSUME NEW S, 0 \in S, \A n \in Nat : n \in S => n + 1 \in S
    PROVE  \A n \in Nat : n \in S
<1>. SUFFICES ASSUME Nat \ S # {} PROVE FALSE
    OBVIOUS
<1>1. PICK m \in Nat \ S : \A k \in Nat \ S : m <= k
    BY Least
<1>2. m - 1 \in Nat /\ m - 1 \in S
    BY <1>1
<1>. QED BY <1>1, <1>2

(* What is within a length is within a longer one.                         *)
LEMMA InLonger == ASSUME NEW k \in Nat, NEW n \in Nat, k <= n, NEW i \in 0..k PROVE i \in 0..n
OBVIOUS

(* Induction up to a bound.                                                *)
LEMMA Upwards ==
    ASSUME NEW S, NEW N \in Nat, 0 \in S, \A n \in 0..(N - 1) : n \in S => n + 1 \in S
    PROVE  N \in S
<1>. DEFINE Good == {n \in Nat : n <= N => n \in S}
<1>1. 0 \in Good
    OBVIOUS
<1>2. \A n \in Nat : n \in Good => n + 1 \in Good
    OBVIOUS
<1>3. \A n \in Nat : n \in Good
    <2>. HIDE DEF Good
    <2>. QED BY <1>1, <1>2, Climb
<1>. QED BY <1>3

(* A function defined by recursion over the naturals up to N exists.       *)
Folds(X, N, base, g) ==
    {F \in [0..N -> X] : F[0] = base /\ \A n \in 1..N : F[n] = g[<<n, F[n - 1]>>]}

LEMMA Recursion ==
    ASSUME NEW X, NEW N \in Nat, NEW base \in X, NEW g \in [(1..N) \X X -> X]
    PROVE  Folds(X, N, base, g) # {}
<1>. DEFINE Does(F, j) == F[0] = base /\ \A n \in 1..j : F[n] = g[<<n, F[n - 1]>>]
            Good == {j \in 0..N : \E F \in [0..j -> X] : Does(F, j)}
<1>1. 0 \in Good
    <2>. DEFINE F == [n \in 0..0 |-> base]
    <2>1. F \in [0..0 -> X] /\ Does(F, 0)
        OBVIOUS
    <2>. HIDE DEF F
    <2>2. 0 \in 0..N
        OBVIOUS
    <2>. QED BY <2>1, <2>2
<1>2. ASSUME NEW j \in 0..(N - 1), j \in Good PROVE j + 1 \in Good
    <2>1. PICK F \in [0..j -> X] : Does(F, j)
        BY <1>2
    <2>. DEFINE new == g[<<j + 1, F[j]>>]  G == [n \in 0..(j + 1) |-> IF n = j + 1 THEN new ELSE F[n]]
    <2>2. new \in X
        <3>1. j + 1 \in 1..N /\ F[j] \in X
            BY <2>1
        <3>. QED BY <3>1
    <2>3. G \in [0..(j + 1) -> X]
        BY <2>1, <2>2
    <2>4. \A n \in 0..j : G[n] = F[n]
        OBVIOUS
    <2>5. G[j + 1] = new
        OBVIOUS
    <2>. HIDE DEF G
    <2>6. G[0] = base
        BY <2>1, <2>4
    <2>7. ASSUME NEW n \in 1..(j + 1) PROVE G[n] = g[<<n, G[n - 1]>>]
        <3>1. n - 1 \in 0..j /\ (n = j + 1 \/ n \in 1..j)
            OBVIOUS
        <3>2. G[n - 1] = F[n - 1]
            BY <2>4, <3>1
        <3>3. CASE n = j + 1
            BY <2>5, <3>2, <3>3
        <3>4. CASE n \in 1..j
            <4>1. G[n] = F[n]
                BY <2>4, <3>4
            <4>2. F[n] = g[<<n, F[n - 1]>>]
                BY <2>1, <3>4
            <4>. QED BY <3>2, <4>1, <4>2
        <3>. QED BY <3>1, <3>3, <3>4
    <2>8. j + 1 \in 0..N
        OBVIOUS
    <2>. QED BY <2>3, <2>6, <2>7, <2>8
<1>3. N \in Good
    <2>. HIDE DEF Good
    <2>. QED BY <1>1, <1>2, Upwards
<1>. QED BY <1>3 DEF Folds

(* The members of a sequence, as it grows and shrinks.                     *)
LEMMA Queued ==
    ASSUME NEW S, NEW q \in Seq(S)
    PROVE  /\ ToSet(q) \subseteq S
           /\ \A x \in S : ToSet(Append(q, x)) = ToSet(q) \cup {x}
           /\ q # <<>> => /\ Head(q) \in S /\ Tail(q) \in Seq(S)
                          /\ ToSet(q) = {Head(q)} \cup ToSet(Tail(q))
<1>1. ASSUME NEW x \in S PROVE ToSet(Append(q, x)) = ToSet(q) \cup {x}
    <2>1. DOMAIN q = 1..Len(q) /\ DOMAIN Append(q, x) = 1..(Len(q) + 1)
        OBVIOUS
    <2>2. \A i \in 1..Len(q) : Append(q, x)[i] = q[i]
        OBVIOUS
    <2>3. Append(q, x)[Len(q) + 1] = x /\ Len(q) \in Nat
        OBVIOUS
    <2>. QED BY <2>1, <2>2, <2>3 DEF ToSet
<1>2. ASSUME q # <<>>
      PROVE  Head(q) \in S /\ Tail(q) \in Seq(S) /\ ToSet(q) = {Head(q)} \cup ToSet(Tail(q))
    <2>1. Len(q) \in Nat \ {0} /\ Head(q) = q[1] /\ Head(q) \in S /\ Tail(q) \in Seq(S)
        BY <1>2
    <2>2. DOMAIN q = 1..Len(q) /\ DOMAIN Tail(q) = 1..(Len(q) - 1)
        BY <1>2
    <2>3. \A i \in 1..(Len(q) - 1) : Tail(q)[i] = q[i + 1]
        BY <1>2
    <2>4. \A i \in 1..Len(q) : i = 1 \/ (i - 1 \in 1..(Len(q) - 1) /\ (i - 1) + 1 = i)
        BY <2>1
    <2>5. \A i \in 1..(Len(q) - 1) : i + 1 \in 1..Len(q)
        BY <2>1
    <2>6. ASSUME NEW x PROVE x \in ToSet(q) <=> x = Head(q) \/ x \in ToSet(Tail(q))
        <3>1. x \in ToSet(q) <=> \E i \in 1..Len(q) : q[i] = x
            BY <2>2 DEF ToSet
        <3>2. x \in ToSet(Tail(q)) <=> \E i \in 1..(Len(q) - 1) : q[i + 1] = x
            BY <2>2, <2>3 DEF ToSet
        <3>3. 1 \in 1..Len(q)
            BY <2>1
        <3>. QED BY <2>1, <2>4, <2>5, <3>1, <3>2, <3>3
    <2>. QED BY <2>1, <2>6
<1>3. ToSet(q) \subseteq S
    BY LenProperties, ElementOfSeq DEF ToSet
<1>. QED BY <1>1, <1>2, <1>3

(* A sequence without repetitions stays one as new members join at its end *)
(* and its head leaves, and the head is gone for good.                     *)
LEMMA Lined ==
    ASSUME NEW S, NEW q \in Seq(S), IsInjective(q)
    PROVE  /\ \A x \in S : x \notin ToSet(q) => IsInjective(Append(q, x))
           /\ q # <<>> => IsInjective(Tail(q)) /\ Head(q) \notin ToSet(Tail(q))
<1>1. Len(q) \in Nat /\ DOMAIN q = 1..Len(q)
    BY LenProperties
<1>2. \A i, j \in 1..Len(q) : q[i] = q[j] => i = j
    BY <1>1 DEF IsInjective
<1>3. ASSUME NEW x \in S, x \notin ToSet(q) PROVE IsInjective(Append(q, x))
    <2>1. /\ DOMAIN Append(q, x) = 1..(Len(q) + 1)
          /\ \A i \in 1..Len(q) : Append(q, x)[i] = q[i]
          /\ Append(q, x)[Len(q) + 1] = x
        BY <1>1, AppendProperties, LenProperties
    <2>2. \A i \in 1..Len(q) : q[i] # x
        BY <1>1, <1>3 DEF ToSet
    <2>. QED BY <1>1, <1>2, <2>1, <2>2 DEF IsInjective
<1>4. ASSUME q # <<>> PROVE IsInjective(Tail(q)) /\ Head(q) \notin ToSet(Tail(q))
    <2>1. /\ DOMAIN Tail(q) = 1..(Len(q) - 1) /\ Head(q) = q[1] /\ Len(q) >= 1
          /\ \A i \in 1..(Len(q) - 1) : Tail(q)[i] = q[i + 1]
        BY <1>1, <1>4, HeadTailProperties, LenProperties
    <2>2. \A i \in 1..(Len(q) - 1) : i + 1 \in 1..Len(q) /\ i + 1 # 1
        BY <1>1
    <2>3. 1 \in 1..Len(q)
        BY <1>1, <2>1
    <2>4. IsInjective(Tail(q))
        BY <1>1, <1>2, <2>1, <2>2 DEF IsInjective
    <2>5. Head(q) \notin ToSet(Tail(q))
        BY <1>2, <2>1, <2>2, <2>3 DEF ToSet
    <2>. QED BY <2>4, <2>5
<1>. QED BY <1>3, <1>4
=============================================================================
