-------------------------- MODULE MaskCursorProofs --------------------------
(***************************************************************************)
(* Proofs about MaskCursor, for any tables, texts, spellings and bounds:   *)
(* whoever uses the chart, it keeps the promises proved in                 *)
(* EarleyKernelProofs, and a cursor's chart is in step with its tokens.    *)
(* A rollback is safe only at a column that was marked: what the cursor    *)
(* cuts back to, the end of a token or the mark of a frame of its walk, is *)
(* where the chart ended once and has not been cut below since.  And the   *)
(* chart accepts what the grammar derives, a literal across the ends of    *)
(* two tokens excepted, since a cut at the beginning of a token cuts no    *)
(* token in two.                                                           *)
(***************************************************************************)
EXTENDS MaskCursor, EarleyKernelProofs

(* Sequences joined one after another: FlattenSeq as its recursion has it. *)
FlattenBy(K, ss, S) ==
    /\ FlattenSeq(ss) = K[Len(ss)] /\ K[0] = <<>>
    /\ \A n \in 0..Len(ss) : K[n] \in Seq(S)
    /\ \A n \in 0..(Len(ss) - 1) : K[n + 1] = K[n] \o ss[n + 1]

LEMMA Flattens ==
    ASSUME NEW S, NEW ss \in Seq(Seq(S))
    PROVE  \E K : FlattenBy(K, ss, S)
<1>1. PICK N \in Nat : N = Len(ss)
    BY LenProperties
<1>2. \A n \in 1..N : ss[n] \in Seq(S)
    BY <1>1, ElementOfSeq
<1>. DEFINE g == [p \in (1..N) \X Seq(S) |-> p[2] \o ss[p[1]]]
<1>3. g \in [(1..N) \X Seq(S) -> Seq(S)]
    <2>1. ASSUME NEW n \in 1..N, NEW s \in Seq(S) PROVE s \o ss[n] \in Seq(S)
        BY <1>2, ConcatProperties
    <2>. QED BY <2>1
<1>4. \A n \in 1..N, s \in Seq(S) : g[<<n, s>>] = s \o ss[n]
    OBVIOUS
<1>5. <<>> \in Seq(S)
    OBVIOUS
<1>. HIDE DEF g
<1>6. Folds(Seq(S), N, <<>>, g) # {}
    BY <1>3, <1>5, Recursion
<1>7. PICK G \in [0..N -> Seq(S)] : G[0] = <<>> /\ \A n \in 1..N : G[n] = g[<<n, G[n - 1]>>]
    BY <1>6 DEF Folds
<1>8. \A n \in 1..N : n - 1 \in 0..N /\ G[n] = G[n - 1] \o ss[n]
    <2>. SUFFICES ASSUME NEW n \in 1..N PROVE n - 1 \in 0..N /\ G[n] = G[n - 1] \o ss[n]
        OBVIOUS
    <2>1. n - 1 \in 0..N
        OBVIOUS
    <2>2. G[n - 1] \in Seq(S)
        BY <1>7, <2>1
    <2>. QED BY <1>4, <1>7, <2>1, <2>2
<1>. DEFINE Recurs(F) == F = [i \in 1..Len(ss) |-> IF i = 1 THEN ss[i] ELSE F[i - 1] \o ss[i]]
            R == [i \in 1..N |-> G[i]]
            F == CHOOSE f : Recurs(f)
<1>9. ASSUME NEW i \in 1..N PROVE R[i] = IF i = 1 THEN ss[i] ELSE R[i - 1] \o ss[i]
    <2>1. R[i] = G[i - 1] \o ss[i]
        BY <1>8
    <2>2. CASE i = 1
        <3>1. G[i - 1] = <<>>
            BY <1>7, <2>2
        <3>2. ss[i] \in Seq(S)
            BY <1>2
        <3>. QED BY <2>1, <2>2, <3>1, <3>2, ConcatEmptySeq
    <2>3. CASE i # 1
        <3>1. i - 1 \in 1..N
            BY <2>3
        <3>. QED BY <2>1, <2>3, <3>1
    <2>. QED BY <2>2, <2>3
<1>10. Recurs(R)
    <2>1. R = [i \in 1..N |-> R[i]]
        OBVIOUS
    <2>. HIDE DEF R
    <2>. QED BY <1>1, <1>9, <2>1, Zenon
<1>11. Recurs(F)
    BY <1>10, Zenon
<1>12. CASE N = 0
    <2>1. ss = <<>>
        BY <1>1, <1>12, EmptySeq
    <2>2. FlattenSeq(ss) = ss
        BY <1>1, <1>12 DEF FlattenSeq
    <2>3. FlattenBy([n \in {0} |-> <<>>], ss, S)
        BY <1>1, <1>12, <2>1, <2>2 DEF FlattenBy
    <2>. QED BY <2>3
<1>13. CASE N # 0
    <2>1. FlattenSeq(ss) = F[N]
        BY <1>1, <1>13, Zenon DEF FlattenSeq
    <2>. HIDE DEF F, R
    <2>2. \A i \in 1..N : F[i] = IF i = 1 THEN ss[i] ELSE F[i - 1] \o ss[i]
        BY <1>1, <1>11, Zenon
    <2>3. \A i \in 1..N : F[i] = G[i]
        <3>. DEFINE Same == {j \in 0..N : \A i \in 1..j : F[i] = G[i]}
        <3>1. 0 \in Same
            OBVIOUS
        <3>2. ASSUME NEW j \in 0..(N - 1), j \in Same PROVE j + 1 \in Same
            <4>1. j + 1 \in 1..N /\ j + 1 \in 0..N /\ (j + 1) - 1 = j
                OBVIOUS
            <4>2. F[j + 1] = IF j + 1 = 1 THEN ss[j + 1] ELSE F[j] \o ss[j + 1]
                BY <2>2, <4>1
            <4>3. G[j + 1] = G[j] \o ss[j + 1] /\ ss[j + 1] \in Seq(S)
                BY <1>2, <1>8, <4>1
            <4>4. F[j + 1] = G[j + 1]
                <5>1. CASE j = 0
                    <6>1. G[j] \o ss[j + 1] = ss[j + 1]
                        BY <1>7, <4>3, <5>1, ConcatEmptySeq
                    <6>2. F[j + 1] = ss[j + 1]
                        BY <4>2, <5>1
                    <6>. QED BY <4>3, <6>1, <6>2
                <5>2. CASE j # 0
                    <6>1. F[j] = G[j] /\ j + 1 # 1
                        BY <3>2, <5>2
                    <6>. QED BY <4>2, <4>3, <6>1
                <5>. QED BY <5>1, <5>2
            <4>5. \A i \in 1..(j + 1) : i = j + 1 \/ i \in 1..j
                OBVIOUS
            <4>. QED BY <3>2, <4>1, <4>4, <4>5
        <3>3. N \in Same
            <4>. HIDE DEF Same
            <4>. QED BY <3>1, <3>2, Upwards
        <3>. QED BY <3>3
    <2>4. N \in 1..N
        BY <1>13
    <2>5. FlattenSeq(ss) = G[N]
        BY <2>1, <2>3, <2>4
    <2>6. ASSUME NEW n \in 0..(N - 1) PROVE G[n + 1] = G[n] \o ss[n + 1]
        <3>1. n + 1 \in 1..N /\ (n + 1) - 1 = n
            OBVIOUS
        <3>. QED BY <1>8, <3>1
    <2>. QED BY <1>1, <1>7, <2>5, <2>6 DEF FlattenBy
<1>. QED BY <1>12, <1>13

LEMMA FlattenAppend ==
    ASSUME NEW S, NEW ss \in Seq(Seq(S)), NEW s \in Seq(S)
    PROVE  FlattenSeq(ss) \in Seq(S) /\ FlattenSeq(Append(ss, s)) = FlattenSeq(ss) \o s
<1>1. PICK N \in Nat : N = Len(ss)
    BY LenProperties
<1>1a. PICK tt : tt = Append(ss, s)
    OBVIOUS
<1>2. tt \in Seq(Seq(S)) /\ Len(tt) = N + 1 /\ tt[N + 1] = s /\ \A n \in 1..N : tt[n] = ss[n]
    BY <1>1, <1>1a, AppendProperties
<1>3. PICK K : FlattenBy(K, ss, S)
    BY Flattens
<1>4. PICK L : FlattenBy(L, tt, S)
    BY <1>2, Flattens
<1>5. /\ FlattenSeq(ss) = K[N] /\ K[0] = <<>> /\ \A n \in 0..N : K[n] \in Seq(S)
      /\ \A n \in 0..(N - 1) : K[n + 1] = K[n] \o ss[n + 1]
    BY <1>1, <1>3 DEF FlattenBy
<1>6. /\ FlattenSeq(tt) = L[N + 1] /\ L[0] = <<>>
      /\ \A n \in 0..N : L[n + 1] = L[n] \o tt[n + 1]
    <2>1. (N + 1) - 1 = N
        OBVIOUS
    <2>. QED BY <1>2, <1>4, <2>1 DEF FlattenBy
<1>. DEFINE Same == {j \in 0..N : K[j] = L[j]}
<1>7. 0 \in Same
    BY <1>5, <1>6
<1>8. ASSUME NEW j \in 0..(N - 1), j \in Same PROVE j + 1 \in Same
    <2>1. j + 1 \in 1..N /\ j + 1 \in 0..N /\ j \in 0..N
        OBVIOUS
    <2>2. K[j + 1] = K[j] \o ss[j + 1] /\ L[j + 1] = L[j] \o tt[j + 1] /\ tt[j + 1] = ss[j + 1]
        BY <1>2, <1>5, <1>6, <2>1
    <2>. QED BY <1>8, <2>1, <2>2
<1>9. N \in Same
    <2>. HIDE DEF Same
    <2>. QED BY <1>7, <1>8, Upwards
<1>10. N \in 0..N
    OBVIOUS
<1>. QED BY <1>1a, <1>2, <1>5, <1>6, <1>9, <1>10

(* A sequence cut within the second of the two it was joined of.           *)
LEMMA CutConcat ==
    ASSUME NEW S, NEW s \in Seq(S), NEW t \in Seq(S), NEW n \in 0..Len(t)
    PROVE  SubSeq(s \o t, 1, Len(s) + n) = s \o SubSeq(t, 1, n)
<1>1. PICK L \in Nat, M \in Nat : L = Len(s) /\ M = Len(t) /\ n \in 0..M
    BY LenProperties
<1>2. /\ s \o t \in Seq(S) /\ Len(s \o t) = L + M
      /\ \A i \in 1..(L + M) : (s \o t)[i] = IF i <= L THEN s[i] ELSE t[i - L]
    BY <1>1, ConcatProperties
<1>3. \A i \in 1..(L + n) : i \in 1..(L + M) /\ (s \o t)[i] \in S
    BY <1>1, <1>2, ElementOfSeq
<1>4. PICK u : u = SubSeq(s \o t, 1, L + n)
    OBVIOUS
<1>5. u \in Seq(S) /\ Len(u) = L + n /\ \A i \in 1..(L + n) : u[i] = (s \o t)[i]
    BY <1>1, <1>3, <1>4, SubSeqProperties
<1>6. \A i \in 1..n : i \in 1..M /\ t[i] \in S
    BY <1>1, ElementOfSeq
<1>7. PICK v : v = SubSeq(t, 1, n)
    OBVIOUS
<1>8. v \in Seq(S) /\ Len(v) = n /\ \A i \in 1..n : v[i] = t[i]
    BY <1>1, <1>6, <1>7, SubSeqProperties
<1>9. /\ s \o v \in Seq(S) /\ Len(s \o v) = L + n
      /\ \A i \in 1..(L + n) : (s \o v)[i] = IF i <= L THEN s[i] ELSE v[i - L]
    BY <1>1, <1>8, ConcatProperties
<1>10. ASSUME NEW i \in 1..(L + n) PROVE u[i] = (s \o v)[i]
    <2>1. u[i] = IF i <= L THEN s[i] ELSE t[i - L]
        BY <1>2, <1>3, <1>5
    <2>2. ~(i <= L) => i - L \in 1..n
        BY <1>1
    <2>. QED BY <1>8, <1>9, <2>1, <2>2
<1>11. u = s \o v
    BY <1>5, <1>9, <1>10, SeqEqual
<1>. QED BY <1>1, <1>4, <1>7, <1>11

-----------------------------------------------------------------------------
(* What a list of tokens spells.                                           *)
Letters == UNION {ToSet(Spellings[t]) : t \in Tokens}

LEMMA SpellingIs ==
    ASSUME NEW t \in Tokens
    PROVE  IsList(Spellings[t]) /\ Spellings[t] \in Seq(Letters) /\ Len(Spellings[t]) \in Nat \ {0}
<1>1. IsList(Spellings[t]) /\ Spellings[t] # <<>>
    BY SpellingsAssumption
<1>2. Spellings[t] \in Seq(ToSet(Spellings[t])) /\ ToSet(Spellings[t]) \subseteq Letters
    BY <1>1 DEF IsList, Letters
<1>3. Spellings[t] \in Seq(Letters)
    BY <1>2, SeqMonotonic
<1>. QED BY <1>1, <1>3, EmptySeq

LEMMA SpelledIs ==
    ASSUME NEW ts \in Seq(Tokens)
    PROVE  /\ Spelled(ts) \in Seq(Letters) /\ Spelled(<<>>) = <<>>
           /\ \A t \in Tokens : Spelled(Append(ts, t)) = Spelled(ts) \o Spellings[t]
<1>1. PICK N \in Nat : N = Len(ts) /\ DOMAIN ts = 1..N
    BY LenProperties
<1>2. PICK ss : ss = [k \in DOMAIN ts |-> Spellings[ts[k]]]
    OBVIOUS
<1>3. \A k \in 1..N : ts[k] \in Tokens
    BY <1>1, ElementOfSeq
<1>4. \A k \in 1..N : Spellings[ts[k]] \in Seq(Letters)
    BY <1>3, SpellingIs
<1>5. ss \in Seq(Seq(Letters))
    BY <1>1, <1>2, <1>4, IsASeq
<1>6. Spelled(ts) = FlattenSeq(ss)
    BY <1>2 DEF Spelled
<1>7. Spelled(<<>>) = <<>>
    <2>1. [k \in DOMAIN <<>> |-> Spellings[<<>>[k]]] = <<>>
        OBVIOUS
    <2>2. Len(<<>>) = 0
        OBVIOUS
    <2>. QED BY <2>1, <2>2 DEF Spelled, FlattenSeq
<1>8. ASSUME NEW t \in Tokens PROVE Spelled(Append(ts, t)) = Spelled(ts) \o Spellings[t]
    <2>1. PICK us : us = Append(ts, t)
        OBVIOUS
    <2>2. /\ us \in Seq(Tokens) /\ Len(us) = N + 1 /\ DOMAIN us = 1..(N + 1) /\ us[N + 1] = t
          /\ \A k \in 1..N : us[k] = ts[k]
        BY <1>1, <2>1, AppendProperties, LenProperties
    <2>3. PICK tt : tt = [k \in DOMAIN us |-> Spellings[us[k]]]
        OBVIOUS
    <2>4. Spellings[t] \in Seq(Letters)
        BY SpellingIs
    <2>5. PICK vv : vv = Append(ss, Spellings[t])
        OBVIOUS
    <2>6. /\ vv \in Seq(Seq(Letters)) /\ Len(vv) = N + 1 /\ vv[N + 1] = Spellings[t]
          /\ \A k \in 1..N : vv[k] = ss[k]
        <3>1. Len(ss) = N
            BY <1>1, <1>2, <1>5, LenProperties
        <3>. QED BY <1>5, <2>4, <2>5, <3>1, AppendProperties
    <2>7. \A k \in 1..(N + 1) : us[k] \in Tokens /\ Spellings[us[k]] \in Seq(Letters)
        <3>1. \A k \in 1..(N + 1) : us[k] \in Tokens
            BY <2>2, ElementOfSeq
        <3>. QED BY <3>1, SpellingIs
    <2>8. tt \in Seq(Seq(Letters)) /\ Len(tt) = N + 1
        <3>1. N + 1 \in Nat
            OBVIOUS
        <3>2. tt = [k \in 1..(N + 1) |-> Spellings[us[k]]]
            BY <2>2, <2>3
        <3>3. tt \in Seq(Seq(Letters))
            BY <2>7, <3>1, <3>2, IsASeq
        <3>. QED BY <3>1, <3>2, <3>3, LenProperties
    <2>9. ASSUME NEW k \in 1..(N + 1) PROVE tt[k] = vv[k]
        <3>1. k = N + 1 \/ k \in 1..N
            OBVIOUS
        <3>2. tt[k] = Spellings[us[k]]
            BY <2>2, <2>3
        <3>3. k \in 1..N => ss[k] = Spellings[ts[k]]
            BY <1>1, <1>2
        <3>. QED BY <2>2, <2>6, <3>1, <3>2, <3>3
    <2>10. tt = vv
        BY <2>6, <2>8, <2>9, SeqEqual
    <2>11. Spelled(us) = FlattenSeq(tt)
        BY <2>3 DEF Spelled
    <2>12. FlattenSeq(vv) = FlattenSeq(ss) \o Spellings[t]
        BY <1>5, <2>4, <2>5, FlattenAppend
    <2>. QED BY <1>6, <2>1, <2>10, <2>11, <2>12
<1>9. FlattenSeq(ss) \in Seq(Letters)
    BY <1>5, FlattenAppend, EmptySeq
<1>. QED BY <1>6, <1>7, <1>8, <1>9

(* The first tokens of a list spell the beginning of what it spells, the   *)
(* shorter the fewer they are.                                             *)
FirstOf(ts, k) == Spelled(SubSeq(ts, 1, k))

LEMMA FirstsAre ==
    ASSUME NEW ts \in Seq(Tokens), NEW k \in 0..Len(ts)
    PROVE  /\ FirstOf(ts, k) \in Seq(Letters) /\ FirstOf(ts, Len(ts)) = Spelled(ts) /\ FirstOf(ts, 0) = <<>>
           /\ SubSeq(ts, 1, k) \in Seq(Tokens) /\ Len(SubSeq(ts, 1, k)) = k
           /\ k < Len(ts) => FirstOf(ts, k + 1) = FirstOf(ts, k) \o Spellings[ts[k + 1]]
<1>1. PICK N \in Nat : N = Len(ts) /\ k \in 0..N
    BY LenProperties
<1>2. \A j \in 1..N : ts[j] \in Tokens
    BY <1>1, ElementOfSeq
<1>3. \A j \in 0..N : /\ SubSeq(ts, 1, j) \in Seq(Tokens) /\ Len(SubSeq(ts, 1, j)) = j
                      /\ \A i \in 1..j : SubSeq(ts, 1, j)[i] = ts[i]
    <2>. SUFFICES ASSUME NEW j \in 0..N
                  PROVE  /\ SubSeq(ts, 1, j) \in Seq(Tokens) /\ Len(SubSeq(ts, 1, j)) = j
                         /\ \A i \in 1..j : SubSeq(ts, 1, j)[i] = ts[i]
        OBVIOUS
    <2>1. \A i \in 1..j : ts[i] \in Tokens
        BY <1>2
    <2>. QED BY <2>1, SubSeqProperties
<1>4. FirstOf(ts, k) \in Seq(Letters)
    BY <1>1, <1>3, SpelledIs DEF FirstOf
<1>5. FirstOf(ts, N) = Spelled(ts)
    BY <1>1, SubSeqFull DEF FirstOf
<1>6. FirstOf(ts, 0) = <<>>
    <2>1. SubSeq(ts, 1, 0) = <<>>
        BY SubSeqEmpty
    <2>. QED BY <2>1, SpelledIs DEF FirstOf
<1>7. ASSUME k < N PROVE FirstOf(ts, k + 1) = FirstOf(ts, k) \o Spellings[ts[k + 1]]
    <2>1. k + 1 \in 1..N /\ k + 1 \in 0..N /\ k \in 0..N /\ k + 1 \in 1..(k + 1)
        BY <1>1, <1>7
    <2>2. PICK p, q, t : p = SubSeq(ts, 1, k) /\ q = SubSeq(ts, 1, k + 1) /\ t = ts[k + 1]
        OBVIOUS
    <2>3. p \in Seq(Tokens) /\ Len(p) = k /\ t \in Tokens /\ \A i \in 1..k : p[i] = ts[i]
        BY <1>2, <1>3, <2>1, <2>2
    <2>4. q \in Seq(Tokens) /\ Len(q) = k + 1 /\ \A i \in 1..(k + 1) : q[i] = ts[i]
        BY <1>3, <2>1, <2>2
    <2>5. PICK r : r = Append(p, t)
        OBVIOUS
    <2>6. r \in Seq(Tokens) /\ Len(r) = k + 1 /\ r[k + 1] = t /\ \A i \in 1..k : r[i] = p[i]
        BY <2>3, <2>5, AppendProperties
    <2>7. \A i \in 1..(k + 1) : q[i] = r[i]
        <3>1. \A i \in 1..(k + 1) : i = k + 1 \/ i \in 1..k
            BY <1>1
        <3>. QED BY <2>1, <2>2, <2>3, <2>4, <2>6, <3>1
    <2>8. q = r
        BY <2>4, <2>6, <2>7, SeqEqual
    <2>9. Spelled(r) = Spelled(p) \o Spellings[t]
        BY <2>3, <2>5, SpelledIs
    <2>10. FirstOf(ts, k) = Spelled(p) /\ FirstOf(ts, k + 1) = Spelled(q)
        BY <2>2 DEF FirstOf
    <2>. QED BY <2>2, <2>8, <2>9, <2>10
<1>. QED BY <1>1, <1>3, <1>4, <1>5, <1>6, <1>7

LEMMA FirstsGrow ==
    ASSUME NEW ts \in Seq(Tokens), NEW k \in 0..Len(ts), NEW j \in 0..k
    PROVE  /\ Len(FirstOf(ts, j)) \in Nat /\ Len(FirstOf(ts, k)) \in Nat
           /\ Len(FirstOf(ts, j)) <= Len(FirstOf(ts, k))
           /\ j < k => Len(FirstOf(ts, j)) < Len(FirstOf(ts, k))
           /\ SubSeq(FirstOf(ts, k), 1, Len(FirstOf(ts, j))) = FirstOf(ts, j)
<1>1. PICK N \in Nat : N = Len(ts) /\ k \in 0..N /\ k \in Nat /\ j \in 0..N /\ j \in Nat /\ j <= k
    BY LenProperties
<1>. DEFINE L(i) == Len(FirstOf(ts, i))
            Prefixed(i) == /\ L(j) <= L(i) /\ (j < i => L(j) < L(i))
                           /\ SubSeq(FirstOf(ts, i), 1, L(j)) = FirstOf(ts, j)
            Good == {i \in 0..k : j <= i => Prefixed(i)}
<1>2. \A i \in 0..N : FirstOf(ts, i) \in Seq(Letters) /\ L(i) \in Nat
    <2>1. \A i \in 0..N : FirstOf(ts, i) \in Seq(Letters)
        BY <1>1, FirstsAre
    <2>. QED BY <2>1, LenProperties
<1>3. Prefixed(j)
    <2>1. SubSeq(FirstOf(ts, j), 1, L(j)) = FirstOf(ts, j)
        BY <1>1, <1>2, SubSeqFull
    <2>. QED BY <1>1, <1>2, <2>1
<1>4. 0 \in Good
    <2>1. j <= 0 => j = 0
        BY <1>1
    <2>2. 0 \in 0..k
        BY <1>1
    <2>. HIDE DEF Prefixed
    <2>. QED BY <1>3, <2>1, <2>2
<1>5. ASSUME NEW i \in 0..(k - 1), i \in Good PROVE i + 1 \in Good
    <2>1. i \in 0..N /\ i + 1 \in 0..k /\ i + 1 \in 0..N /\ i < N /\ i + 1 \in 1..N
        BY <1>1
    <2>2. SUFFICES ASSUME j <= i + 1 PROVE Prefixed(i + 1)
        BY <2>1
    <2>3. CASE j = i + 1
        <3>. HIDE DEF Prefixed
        <3>. QED BY <1>3, <2>3
    <2>4. CASE j # i + 1
        <3>1. j <= i /\ Prefixed(i) /\ j < i + 1
            <4>1. j <= i /\ j < i + 1
                BY <1>1, <2>1, <2>2, <2>4
            <4>. QED BY <1>5, <4>1
        <3>2. PICK a, b, s : a = FirstOf(ts, i) /\ b = FirstOf(ts, i + 1) /\ s = Spellings[ts[i + 1]]
            OBVIOUS
        <3>3. b = a \o s /\ a \in Seq(Letters) /\ s \in Seq(Letters) /\ Len(s) \in Nat \ {0} /\ Len(a) \in Nat
            <4>1. ts[i + 1] \in Tokens
                BY <1>1, <2>1, ElementOfSeq
            <4>2. s \in Seq(Letters) /\ Len(s) \in Nat \ {0}
                BY <3>2, <4>1, SpellingIs
            <4>3. b = a \o s
                BY <1>1, <2>1, <3>2, FirstsAre
            <4>. QED BY <1>2, <2>1, <3>2, <4>2, <4>3
        <3>4. Len(b) = Len(a) + Len(s)
            BY <3>3, ConcatProperties
        <3>5. L(j) \in Nat /\ L(j) <= Len(a) /\ L(j) < Len(b)
            BY <1>1, <1>2, <3>1, <3>2, <3>3, <3>4
        <3>6. SubSeq(b, 1, L(j)) = FirstOf(ts, j)
            <4>1. CASE L(j) = 0
                <5>1. FirstOf(ts, j) = <<>>
                    BY <1>1, <1>2, <4>1, EmptySeq
                <5>2. SubSeq(b, 1, 0) = <<>>
                    BY SubSeqEmpty
                <5>. QED BY <4>1, <5>1, <5>2
            <4>2. CASE L(j) # 0
                <5>1. L(j) \in 1..Len(a) /\ 1 \in 1..Len(a)
                    BY <3>3, <3>5, <4>2
                <5>2. SubSeq(b, 1, L(j)) = SubSeq(a, 1, L(j))
                    BY <3>3, <5>1, SubSeqOfConcat1
                <5>. QED BY <3>1, <3>2, <5>2
            <4>. QED BY <4>1, <4>2
        <3>. QED BY <3>1, <3>2, <3>3, <3>5, <3>6
    <2>. QED BY <2>3, <2>4
<1>6. k \in Good
    <2>. HIDE DEF Good
    <2>. QED BY <1>1, <1>4, <1>5, Upwards
<1>. QED BY <1>1, <1>2, <1>6

-----------------------------------------------------------------------------
(* The walk of the trie.  Each frame stands one letter below the last, and *)
(* its mark is where the text ended at the frame above; the text goes on   *)
(* from the committed tokens by the node the walk is at.                   *)
Framed == [node : Seq(Letters), left : SUBSET Letters, mark : Nat]
Entered == [node : Seq(Letters), mark : Nat]
Here(fs, e) == IF e = NoNode THEN fs[Len(fs)].node ELSE e.node

Standing(fs, e, base, ms, w) ==
    /\ fs \in Seq(Framed) /\ fs # <<>> /\ base \in Seq(Letters)
    /\ \A k \in 1..Len(fs) :
        /\ Len(fs[k].node) = k - 1 /\ fs[k].mark \in ms
        /\ fs[k].mark = Len(base) + IF k = 1 THEN 0 ELSE k - 2
        /\ k > 1 => fs[k - 1].node = SubSeq(fs[k].node, 1, k - 2)
    /\ e # NoNode =>
        /\ e \in Entered /\ Len(e.node) = Len(fs) /\ e.mark \in ms
        /\ e.mark = Len(base) + (Len(fs) - 1)
        /\ fs[Len(fs)].node = SubSeq(e.node, 1, Len(fs) - 1)
    /\ w = base \o Here(fs, e)

LEMMA StandingIs ==
    ASSUME NEW fs, NEW e, NEW base, NEW ms, NEW w, Standing(fs, e, base, ms, w)
    PROVE  /\ Len(fs) \in Nat \ {0} /\ DOMAIN fs = 1..Len(fs) /\ \A k \in 1..Len(fs) : fs[k] \in Framed
           /\ Here(fs, e) \in Seq(Letters) /\ Len(base) \in Nat /\ w \in Seq(Letters)
           /\ Len(w) = Len(base) + IF e = NoNode THEN Len(fs) - 1 ELSE Len(fs)
<1>1. Len(fs) \in Nat \ {0} /\ DOMAIN fs = 1..Len(fs) /\ Len(fs) \in 1..Len(fs) /\ Len(base) \in Nat
    <2>1. fs \in Seq(Framed) /\ fs # <<>> /\ base \in Seq(Letters)
        BY DEF Standing
    <2>2. Len(fs) \in Nat \ {0} /\ DOMAIN fs = 1..Len(fs) /\ Len(base) \in Nat
        BY <2>1, EmptySeq, LenProperties
    <2>. QED BY <2>2
<1>2. \A k \in 1..Len(fs) : fs[k] \in Framed
    BY ElementOfSeq DEF Standing
<1>3. Here(fs, e) \in Seq(Letters) /\ Len(Here(fs, e)) = IF e = NoNode THEN Len(fs) - 1 ELSE Len(fs)
    <2>1. fs[Len(fs)].node \in Seq(Letters) /\ Len(fs[Len(fs)].node) = Len(fs) - 1
        BY <1>1, <1>2 DEF Standing, Framed
    <2>2. e # NoNode => e.node \in Seq(Letters) /\ Len(e.node) = Len(fs)
        BY DEF Standing, Entered
    <2>. QED BY <2>1, <2>2 DEF Here
<1>4. w = base \o Here(fs, e) /\ base \in Seq(Letters)
    BY DEF Standing
<1>5. w \in Seq(Letters) /\ Len(w) = Len(base) + Len(Here(fs, e))
    BY <1>3, <1>4, ConcatProperties
<1>. QED BY <1>1, <1>2, <1>3, <1>5

LEMMA WalkStarts ==
    ASSUME NEW base \in Seq(Letters), NEW ms, Len(base) \in ms, NEW left \in SUBSET Letters
    PROVE  Standing(<<[node |-> <<>>, left |-> left, mark |-> Len(base)]>>, NoNode, base, ms, base)
<1>1. PICK f : f = [node |-> <<>>, left |-> left, mark |-> Len(base)]
    OBVIOUS
<1>2. f \in Framed /\ Len(base) \in Nat
    <2>1. Len(base) \in Nat /\ <<>> \in Seq(Letters)
        BY LenProperties
    <2>. QED BY <1>1, <2>1 DEF Framed
<1>3. PICK fs : fs = <<f>>
    OBVIOUS
<1>4. fs \in Seq(Framed) /\ Len(fs) = 1 /\ fs[1] = f /\ fs # <<>>
    BY <1>2, <1>3
<1>5. \A k \in 1..1 : k = 1 /\ ~(k > 1)
    OBVIOUS
<1>6. Len(<<>>) = 0 /\ Here(fs, NoNode) = <<>>
    BY <1>1, <1>4 DEF Here
<1>7. base = base \o <<>>
    BY ConcatEmptySeq
<1>. QED BY <1>1, <1>2, <1>3, <1>4, <1>5, <1>6, <1>7 DEF Standing

(* The walk goes down an edge, a letter at a time ...                      *)
TakenFrom(fs, c) == [fs EXCEPT ![Len(fs)].left = @ \ {c}]
Inward(fs, c, w) == [node |-> Append(fs[Len(fs)].node, c), mark |-> Len(w)]

LEMMA WalkDescends ==
    ASSUME NEW fs, NEW base, NEW ms, NEW w, Standing(fs, NoNode, base, ms, w), Len(w) \in ms,
           NEW c \in Letters, NEW v, v = w \o <<c>>
    PROVE  Standing(TakenFrom(fs, c), Inward(fs, c, w), base, ms \cup {Len(v)}, v)
<1>1. PICK N : N = Len(fs)
    OBVIOUS
<1>1a. PICK gs, e : gs = TakenFrom(fs, c) /\ e = Inward(fs, c, w)
    OBVIOUS
<1>2. /\ N \in Nat \ {0} /\ DOMAIN fs = 1..N /\ N \in 1..N /\ \A k \in 1..N : fs[k] \in Framed
      /\ Len(base) \in Nat /\ w \in Seq(Letters) /\ Len(w) = Len(base) + (N - 1)
    BY <1>1, StandingIs
<1>3. PICK top : top = fs[N].node
    OBVIOUS
<1>4. /\ top \in Seq(Letters) /\ Len(top) = N - 1 /\ w = base \o top /\ base \in Seq(Letters)
    BY <1>1, <1>2, <1>3 DEF Standing, Framed, Here
<1>5. PICK g : g = [fs[N] EXCEPT !.left = @ \ {c}]
    OBVIOUS
<1>6. g \in Framed /\ g.node = fs[N].node /\ g.mark = fs[N].mark
    BY <1>2, <1>5 DEF Framed
<1>7. gs = [fs EXCEPT ![N] = g]
    BY <1>1, <1>1a, <1>2, <1>5 DEF TakenFrom
<1>8. gs \in Seq(Framed) /\ Len(gs) = N /\ \A k \in 1..N : gs[k] = IF k = N THEN g ELSE fs[k]
    <2>1. fs \in Seq(Framed) /\ Len(fs) = N
        BY <1>1 DEF Standing
    <2>2. N \in 1..Len(fs) /\ g \in Framed
        BY <1>2, <1>6, <2>1
    <2>3. PICK hs : hs = [fs EXCEPT ![N] = g]
        OBVIOUS
    <2>4. hs \in Seq(Framed) /\ Len(hs) = Len(fs) /\ \A k \in 1..Len(fs) : hs[k] = IF k = N THEN g ELSE fs[k]
        BY <2>1, <2>2, <2>3, ExceptSeq
    <2>. QED BY <1>7, <2>1, <2>3, <2>4
<1>9. \A k \in 1..N : gs[k].node = fs[k].node /\ gs[k].mark = fs[k].mark
    BY <1>6, <1>8
<1>10. PICK inner : inner = Append(top, c)
    OBVIOUS
<1>11. inner \in Seq(Letters) /\ Len(inner) = N /\ \A i \in 1..(N - 1) : inner[i] = top[i]
    BY <1>2, <1>4, <1>10, AppendProperties
<1>12. top = SubSeq(inner, 1, N - 1)
    <2>1. \A i \in 1..(N - 1) : inner[i] \in Letters
        BY <1>4, <1>11, ElementOfSeq
    <2>2. PICK u : u = SubSeq(inner, 1, N - 1)
        OBVIOUS
    <2>3. PICK M \in Nat : M = N - 1
        BY <1>2
    <2>4. u \in Seq(Letters) /\ Len(u) = M /\ \A i \in 1..M : u[i] = inner[i]
        BY <2>1, <2>2, <2>3, SubSeqProperties
    <2>. QED BY <1>4, <1>11, <2>2, <2>3, <2>4, SeqEqual
<1>13. e = [node |-> inner, mark |-> Len(w)]
    BY <1>1, <1>1a, <1>3, <1>10 DEF Inward
<1>14. e \in Entered /\ e # NoNode /\ e.node = inner /\ e.mark = Len(base) + (N - 1)
    <2>1. Len(w) \in Nat /\ Len(w) # -1
        BY <1>2
    <2>2. e \in Entered /\ e.node = inner /\ e.mark = Len(w)
        <3>1. inner \in Seq(Letters)
            BY <1>11
        <3>2. PICK L : L = Len(w)
            OBVIOUS
        <3>3. L \in Nat /\ e = [node |-> inner, mark |-> L]
            BY <1>13, <2>1, <3>2
        <3>4. PICK r : r = [node |-> inner, mark |-> L]
            OBVIOUS
        <3>5. r \in Entered /\ r.node = inner /\ r.mark = L
            BY <3>1, <3>3, <3>4 DEF Entered
        <3>6. e = r
            BY <3>3, <3>4, Zenon
        <3>. QED BY <3>2, <3>5, <3>6, Zenon
    <2>3. NoNode.mark = -1
        BY DEF NoNode
    <2>. QED BY <1>2, <2>1, <2>2, <2>3
<1>15. v = base \o inner
    <2>1. PICK u : u = <<c>>
        OBVIOUS
    <2>2. u \in Seq(Letters)
        BY <2>1
    <2>3. inner = top \o u
        BY <1>4, <1>10, <2>1, AppendIsConcat
    <2>4. (base \o top) \o u = base \o (top \o u)
        BY <1>4, <2>2, ConcatAssociative, SMTT(40)
    <2>. QED BY <1>4, <2>1, <2>3, <2>4, Zenon
<1>16. \A k \in 1..N :
        /\ Len(fs[k].node) = k - 1 /\ fs[k].mark \in ms
        /\ fs[k].mark = Len(base) + IF k = 1 THEN 0 ELSE k - 2
        /\ k > 1 => fs[k - 1].node = SubSeq(fs[k].node, 1, k - 2)
    BY <1>1 DEF Standing
<1>17. \A k \in 1..N : k > 1 => k - 1 \in 1..N
    BY <1>2
<1>18. gs # <<>>
    BY <1>2, <1>8
<1>19. Here(gs, e) = inner
    BY <1>14 DEF Here
<1>20. gs[N].node = top
    BY <1>2, <1>3, <1>9
<1>21. \A k \in 1..N : k > 1 => gs[k - 1].node = SubSeq(gs[k].node, 1, k - 2)
    BY <1>9, <1>16, <1>17
<1>22. \A k \in 1..N : /\ Len(gs[k].node) = k - 1 /\ gs[k].mark \in ms
                       /\ gs[k].mark = Len(base) + IF k = 1 THEN 0 ELSE k - 2
    BY <1>9, <1>16
<1>23. e.mark \in ms
    BY <1>13
<1>. QED BY <1>1a, <1>4, <1>8, <1>11, <1>12, <1>14, <1>15, <1>18, <1>19, <1>20, <1>21, <1>22, <1>23 DEF Standing

(* ... files a frame for a node it goes on below ...                       *)
LEMMA WalkDeepens ==
    ASSUME NEW fs, NEW e, NEW base, NEW ms, NEW w, Standing(fs, e, base, ms, w), e # NoNode,
           NEW left \in SUBSET Letters, NEW gs,
           gs = Append(fs, [node |-> e.node, left |-> left, mark |-> e.mark])
    PROVE  Standing(gs, NoNode, base, ms, w)
<1>1. PICK N : N = Len(fs)
    OBVIOUS
<1>2. N \in Nat \ {0} /\ Len(base) \in Nat /\ fs \in Seq(Framed) /\ base \in Seq(Letters)
    BY <1>1, StandingIs DEF Standing
<1>3. /\ e \in Entered /\ Len(e.node) = N /\ e.mark \in ms /\ e.mark = Len(base) + (N - 1)
      /\ fs[N].node = SubSeq(e.node, 1, N - 1) /\ w = base \o e.node
    BY <1>1 DEF Standing, Here
<1>4. PICK f : f = [node |-> e.node, left |-> left, mark |-> e.mark]
    OBVIOUS
<1>5. f \in Framed /\ f.node = e.node /\ f.mark = e.mark
    BY <1>3, <1>4 DEF Framed, Entered
<1>6. /\ gs \in Seq(Framed) /\ gs # <<>> /\ Len(gs) = N + 1 /\ gs[N + 1] = f
      /\ \A k \in 1..N : gs[k] = fs[k]
    BY <1>1, <1>2, <1>4, <1>5, AppendProperties
<1>7. \A k \in 1..N :
        /\ Len(fs[k].node) = k - 1 /\ fs[k].mark \in ms
        /\ fs[k].mark = Len(base) + IF k = 1 THEN 0 ELSE k - 2
        /\ k > 1 => fs[k - 1].node = SubSeq(fs[k].node, 1, k - 2)
    BY <1>1 DEF Standing
<1>8. ASSUME NEW k \in 1..(N + 1)
      PROVE  /\ Len(gs[k].node) = k - 1 /\ gs[k].mark \in ms
             /\ gs[k].mark = Len(base) + IF k = 1 THEN 0 ELSE k - 2
             /\ k > 1 => gs[k - 1].node = SubSeq(gs[k].node, 1, k - 2)
    <2>1. CASE k = N + 1
        <3>1. gs[k] = f /\ k - 1 = N /\ k - 2 = N - 1 /\ k # 1 /\ gs[k - 1] = fs[N]
            BY <1>2, <1>6, <2>1
        <3>. QED BY <1>3, <1>5, <3>1
    <2>2. CASE k # N + 1
        <3>1. k \in 1..N /\ (k > 1 => k - 1 \in 1..N)
            BY <1>2, <2>2
        <3>2. gs[k] = fs[k] /\ (k > 1 => gs[k - 1] = fs[k - 1])
            BY <1>6, <3>1
        <3>. QED BY <1>7, <3>1, <3>2
    <2>. QED BY <2>1, <2>2
<1>9. Here(gs, NoNode) = e.node
    BY <1>5, <1>6 DEF Here
<1>. QED BY <1>2, <1>3, <1>6, <1>8, <1>9 DEF Standing

(* ... and comes back up, by a rollback to the mark it took above.  What   *)
(* was committed lies below every such mark.                               *)
Cutting(ms, m) == {c \in ms : c <= m}

LEMMA WalkLeaves ==
    ASSUME NEW fs, NEW e, NEW base, NEW ms, NEW w, Standing(fs, e, base, ms, w), e # NoNode
    PROVE  /\ e.mark \in ms /\ Len(base) <= e.mark /\ e.mark \in Nat
           /\ Standing(fs, NoNode, base, Cutting(ms, e.mark), SubSeq(w, 1, e.mark))
<1>1. PICK N : N = Len(fs)
    OBVIOUS
<1>2. N \in Nat \ {0} /\ Len(base) \in Nat /\ fs \in Seq(Framed) /\ fs # <<>> /\ base \in Seq(Letters)
    BY <1>1, StandingIs DEF Standing
<1>3. /\ e \in Entered /\ Len(e.node) = N /\ e.mark \in ms /\ e.mark = Len(base) + (N - 1)
      /\ fs[N].node = SubSeq(e.node, 1, N - 1) /\ w = base \o e.node
    BY <1>1 DEF Standing, Here
<1>4. \A k \in 1..N :
        /\ Len(fs[k].node) = k - 1 /\ fs[k].mark \in ms
        /\ fs[k].mark = Len(base) + IF k = 1 THEN 0 ELSE k - 2
        /\ k > 1 => fs[k - 1].node = SubSeq(fs[k].node, 1, k - 2)
    BY <1>1 DEF Standing
<1>5. \A k \in 1..N : fs[k].mark \in Cutting(ms, e.mark)
    <2>. SUFFICES ASSUME NEW k \in 1..N PROVE fs[k].mark <= e.mark
        BY <1>4 DEF Cutting
    <2>1. k \in Nat /\ k <= N /\ fs[k].mark = Len(base) + IF k = 1 THEN 0 ELSE k - 2
        BY <1>2, <1>4
    <2>2. e.mark = Len(base) + (N - 1)
        BY <1>3
    <2>. QED BY <1>2, <2>1, <2>2
<1>6. SubSeq(w, 1, e.mark) = base \o fs[N].node
    <2>1. e.node \in Seq(Letters) /\ N - 1 \in 0..Len(e.node)
        BY <1>2, <1>3 DEF Entered
    <2>2. SubSeq(base \o e.node, 1, Len(base) + (N - 1)) = base \o SubSeq(e.node, 1, N - 1)
        BY <1>2, <2>1, CutConcat
    <2>. QED BY <1>3, <2>2
<1>7. e.mark \in Nat /\ Len(base) <= e.mark
    BY <1>2, <1>3
<1>. QED BY <1>1, <1>2, <1>3, <1>4, <1>5, <1>6, <1>7 DEF Standing, Here

LEMMA WalkAscends ==
    ASSUME NEW fs, NEW base, NEW ms, NEW w, Standing(fs, NoNode, base, ms, w), Len(fs) > 1,
           NEW m, m = fs[Len(fs)].mark
    PROVE  /\ m \in ms /\ Len(base) <= m /\ m \in Nat
           /\ Standing(Front(fs), NoNode, base, Cutting(ms, m), SubSeq(w, 1, m))
<1>1. PICK N : N = Len(fs)
    OBVIOUS
<1>2. /\ N \in Nat \ {0} /\ N > 1 /\ Len(base) \in Nat /\ fs \in Seq(Framed) /\ base \in Seq(Letters)
      /\ N \in 1..N /\ \A k \in 1..N : fs[k] \in Framed
    BY <1>1, StandingIs DEF Standing
<1>3. \A k \in 1..N :
        /\ Len(fs[k].node) = k - 1 /\ fs[k].mark \in ms
        /\ fs[k].mark = Len(base) + IF k = 1 THEN 0 ELSE k - 2
        /\ k > 1 => fs[k - 1].node = SubSeq(fs[k].node, 1, k - 2)
    BY <1>1 DEF Standing
<1>4. PICK top : top = fs[N].node
    OBVIOUS
<1>5. /\ top \in Seq(Letters) /\ Len(top) = N - 1 /\ fs[N - 1].node = SubSeq(top, 1, N - 2)
      /\ m = Len(base) + (N - 2) /\ m \in ms /\ w = base \o top
    <2>1. w = base \o top
        BY <1>1, <1>4 DEF Standing, Here
    <2>2. top \in Seq(Letters)
        BY <1>2, <1>4 DEF Framed
    <2>3. N \in 1..N /\ N # 1 /\ N > 1
        BY <1>2
    <2>4. m \in ms /\ m = Len(base) + (N - 2)
        BY <1>1, <1>3, <2>3
    <2>5. Len(top) = N - 1 /\ fs[N - 1].node = SubSeq(top, 1, N - 2)
        BY <1>3, <1>4, <2>3
    <2>. QED BY <2>1, <2>2, <2>4, <2>5
<1>6. m \in Nat /\ Len(base) <= m
    BY <1>2, <1>5
<1>7. PICK gs : gs = Front(fs)
    OBVIOUS
<1>8. PICK M \in Nat : M = N - 1 /\ M # 0 /\ M \in 1..M
    BY <1>2
<1>9. gs \in Seq(Framed) /\ Len(gs) = M /\ gs # <<>> /\ \A k \in 1..M : gs[k] = fs[k]
    <2>1. gs = SubSeq(fs, 1, M)
        BY <1>1, <1>7, <1>8 DEF Front
    <2>2. \A k \in 1..M : fs[k] \in Framed
        BY <1>2, <1>8
    <2>3. gs \in Seq(Framed) /\ Len(gs) = M /\ \A k \in 1..M : gs[k] = fs[k]
        BY <1>8, <2>1, <2>2, SubSeqProperties
    <2>. QED BY <1>8, <2>3
<1>10. \A k \in 1..M : k \in 1..N /\ (k > 1 => k - 1 \in 1..M)
    BY <1>2, <1>8
<1>11. ASSUME NEW k \in 1..M
       PROVE  /\ Len(gs[k].node) = k - 1 /\ gs[k].mark \in Cutting(ms, m)
              /\ gs[k].mark = Len(base) + IF k = 1 THEN 0 ELSE k - 2
              /\ k > 1 => gs[k - 1].node = SubSeq(gs[k].node, 1, k - 2)
    <2>1. gs[k] = fs[k] /\ (k > 1 => gs[k - 1] = fs[k - 1])
        BY <1>9, <1>10
    <2>2. fs[k].mark <= m
        <3>1. k \in Nat /\ k <= N - 1 /\ fs[k].mark = Len(base) + IF k = 1 THEN 0 ELSE k - 2
            BY <1>2, <1>3, <1>8, <1>10
        <3>2. m = Len(base) + (N - 2)
            BY <1>5
        <3>. QED BY <1>2, <3>1, <3>2
    <2>. QED BY <1>3, <1>10, <2>1, <2>2 DEF Cutting
<1>12. SubSeq(w, 1, m) = base \o fs[M].node
    <2>1. N - 2 \in 0..Len(top)
        BY <1>2, <1>5
    <2>2. SubSeq(base \o top, 1, Len(base) + (N - 2)) = base \o SubSeq(top, 1, N - 2)
        BY <1>2, <1>5, <2>1, CutConcat
    <2>. QED BY <1>5, <1>8, <2>2
<1>13. Here(gs, NoNode) = fs[M].node
    BY <1>8, <1>9 DEF Here
<1>. QED BY <1>2, <1>5, <1>6, <1>7, <1>9, <1>11, <1>12, <1>13 DEF Standing

-----------------------------------------------------------------------------
(* What is committed, as a list of tokens.                                 *)
Pairs == Tokens \X Nat

LEMMA HeldIs ==
    ASSUME NEW c \in Seq(Pairs)
    PROVE  /\ Held(c) \in Seq(Tokens) /\ Len(Held(c)) = Len(c)
           /\ \A k \in 1..Len(c) : Held(c)[k] = c[k][1] /\ c[k][1] \in Tokens /\ c[k][2] \in Nat
<1>1. Len(c) \in Nat /\ DOMAIN c = 1..Len(c)
    BY LenProperties
<1>2. \A k \in 1..Len(c) : c[k][1] \in Tokens /\ c[k][2] \in Nat
    BY ElementOfSeq DEF Pairs
<1>3. Held(c) = [k \in 1..Len(c) |-> c[k][1]]
    BY <1>1 DEF Held
<1>4. Held(c) \in Seq(Tokens)
    BY <1>1, <1>2, <1>3, IsASeq
<1>5. Len(Held(c)) = Len(c)
    BY <1>1, <1>3, <1>4, LenProperties
<1>. QED BY <1>2, <1>3, <1>4, <1>5

LEMMA HeldGrows ==
    ASSUME NEW c \in Seq(Pairs), NEW t \in Tokens, NEW n \in Nat
    PROVE  /\ Append(c, <<t, n>>) \in Seq(Pairs) /\ Len(Append(c, <<t, n>>)) = Len(c) + 1
           /\ Append(c, <<t, n>>)[Len(c) + 1] = <<t, n>>
           /\ \A k \in 1..Len(c) : Append(c, <<t, n>>)[k] = c[k]
           /\ Held(Append(c, <<t, n>>)) = Append(Held(c), t)
<1>1. PICK d : d = Append(c, <<t, n>>)
    OBVIOUS
<1>2. PICK N \in Nat : N = Len(c)
    BY LenProperties
<1>3. <<t, n>> \in Pairs
    BY DEF Pairs
<1>4. d \in Seq(Pairs) /\ Len(d) = N + 1 /\ d[N + 1] = <<t, n>> /\ \A k \in 1..N : d[k] = c[k]
    BY <1>1, <1>2, <1>3, AppendProperties
<1>5. PICK h, g, a : h = Held(c) /\ g = Held(d) /\ a = Append(h, t)
    OBVIOUS
<1>6. h \in Seq(Tokens) /\ Len(h) = N /\ \A k \in 1..N : h[k] = c[k][1]
    BY <1>2, <1>5, HeldIs
<1>7. g \in Seq(Tokens) /\ Len(g) = N + 1 /\ \A k \in 1..(N + 1) : g[k] = d[k][1]
    BY <1>4, <1>5, HeldIs
<1>8. a \in Seq(Tokens) /\ Len(a) = N + 1 /\ a[N + 1] = t /\ \A k \in 1..N : a[k] = h[k]
    BY <1>5, <1>6, AppendProperties
<1>9. ASSUME NEW k \in 1..(N + 1) PROVE g[k] = a[k]
    <2>1. CASE k \in 1..N
        <3>1. a[k] = c[k][1]
            BY <1>6, <1>8, <2>1
        <3>2. g[k] = c[k][1]
            BY <1>4, <1>7, <2>1
        <3>. QED BY <3>1, <3>2
    <2>2. CASE k = N + 1
        <3>1. g[k] = <<t, n>>[1]
            BY <1>4, <1>7, <2>2
        <3>. QED BY <1>8, <2>2, <3>1
    <2>. QED BY <2>1, <2>2
<1>10. g = a
    BY <1>7, <1>8, <1>9, SeqEqual
<1>. QED BY <1>1, <1>2, <1>4, <1>5, <1>10

LEMMA HeldCut ==
    ASSUME NEW c \in Seq(Pairs), NEW n \in 0..Len(c)
    PROVE  /\ SubSeq(c, 1, n) \in Seq(Pairs) /\ Len(SubSeq(c, 1, n)) = n
           /\ \A k \in 1..n : SubSeq(c, 1, n)[k] = c[k]
           /\ Held(SubSeq(c, 1, n)) = SubSeq(Held(c), 1, n)
<1>1. PICK N \in Nat : N = Len(c) /\ n \in 0..N
    BY LenProperties
<1>2. \A k \in 1..n : k \in 1..N /\ c[k] \in Pairs
    BY <1>1, ElementOfSeq
<1>3. PICK d : d = SubSeq(c, 1, n)
    OBVIOUS
<1>4. d \in Seq(Pairs) /\ Len(d) = n /\ \A k \in 1..n : d[k] = c[k]
    BY <1>1, <1>2, <1>3, SubSeqProperties
<1>5. PICK h, g, a : h = Held(c) /\ g = Held(d) /\ a = SubSeq(h, 1, n)
    OBVIOUS
<1>6. h \in Seq(Tokens) /\ Len(h) = N /\ \A k \in 1..N : h[k] = c[k][1]
    BY <1>1, <1>5, HeldIs
<1>7. g \in Seq(Tokens) /\ Len(g) = n /\ \A k \in 1..n : g[k] = d[k][1]
    BY <1>4, <1>5, HeldIs
<1>8. \A k \in 1..n : h[k] \in Tokens
    BY <1>2, <1>6, ElementOfSeq
<1>9. a \in Seq(Tokens) /\ Len(a) = n /\ \A k \in 1..n : a[k] = h[k]
    BY <1>1, <1>5, <1>8, SubSeqProperties
<1>10. \A k \in 1..n : g[k] = a[k]
    BY <1>2, <1>4, <1>6, <1>7, <1>9
<1>11. g = a
    BY <1>7, <1>9, <1>10, SeqEqual
<1>. QED BY <1>3, <1>4, <1>5, <1>11

(* How much of two lists a common prefix keeps.                            *)
LEMMA LongestIs ==
    ASSUME NEW S, NEW s \in Seq(S), NEW t \in Seq(S)
    PROVE  /\ Len(LongestCommonPrefix({s, t})) \in Nat
           /\ s = t => Len(s) <= Len(LongestCommonPrefix({s, t}))
<1>1. PICK C : C = CommonPrefixes({s, t})
    OBVIOUS
<1>2. PICK M \in Nat, N \in Nat : M = Len(s) /\ N = Len(t)
    BY LenProperties
<1>3. SubSeq(s, 1, M) = s /\ SubSeq(t, 1, N) = t
    BY <1>2, SubSeqFull
<1>4. \A p \in C : Len(p) \in Nat /\ Len(p) <= M + N
    <2>. SUFFICES ASSUME NEW p \in C PROVE Len(p) \in Nat /\ Len(p) <= M + N
        OBVIOUS
    <2>1. p \in Prefixes(s) \cup Prefixes(t) /\ Len(p) <= Len(s)
        BY <1>1 DEF CommonPrefixes, IsPrefix
    <2>2. \A l \in 0..M : \A i \in 1..l : s[i] \in S
        BY <1>2, ElementOfSeq
    <2>3. \A l \in 0..N : \A i \in 1..l : t[i] \in S
        BY <1>2, ElementOfSeq
    <2>4. \A l \in 0..M : Len(SubSeq(s, 1, l)) \in Nat
        BY <2>2, SubSeqProperties
    <2>5. \A l \in 0..N : Len(SubSeq(t, 1, l)) \in Nat
        BY <2>3, SubSeqProperties
    <2>7. Len(p) \in Nat
        BY <1>2, <2>1, <2>4, <2>5 DEF Prefixes
    <2>. QED BY <1>2, <2>1, <2>7
<1>5. <<>> \in C
    <2>1. Len(<<>>) = 0 /\ SubSeq(<<>>, 1, 0) = <<>>
        BY SubSeqEmpty
    <2>2. SubSeq(s, 1, 0) = <<>> /\ SubSeq(t, 1, 0) = <<>>
        BY SubSeqEmpty
    <2>3. IsPrefix(<<>>, s) /\ IsPrefix(<<>>, t)
        BY <1>2, <2>1, <2>2 DEF IsPrefix
    <2>4. <<>> \in Prefixes(s)
        BY <1>2, <2>2 DEF Prefixes
    <2>. QED BY <1>1, <2>3, <2>4 DEF CommonPrefixes
<1>6. ASSUME s = t PROVE s \in C
    <2>1. s \in Prefixes(s)
        <3>1. M \in 0..M
            OBVIOUS
        <3>. QED BY <1>2, <1>3, <3>1 DEF Prefixes
    <2>2. IsPrefix(s, s)
        BY <1>2 DEF IsPrefix
    <2>. QED BY <1>1, <1>6, <2>1, <2>2 DEF CommonPrefixes
<1>7. \E longest \in C : \A other \in C : Len(other) <= Len(longest)
    <2>1. PICK D : D = {M + N - Len(p) : p \in C}
        OBVIOUS
    <2>2. D \subseteq Nat /\ D # {}
        BY <1>4, <1>5, <2>1
    <2>3. PICK d \in D : \A e \in D : d <= e
        BY <2>2, Least
    <2>4. PICK p \in C : d = M + N - Len(p)
        BY <2>1
    <2>5. \A q \in C : Len(q) <= Len(p)
        <3>. SUFFICES ASSUME NEW q \in C PROVE Len(q) <= Len(p)
            OBVIOUS
        <3>1. d <= M + N - Len(q)
            BY <2>1, <2>3
        <3>2. Len(p) \in Nat /\ Len(q) \in Nat
            BY <1>4
        <3>. QED BY <2>4, <3>1, <3>2
    <2>. QED BY <2>5
<1>8. PICK p : p = LongestCommonPrefix({s, t})
    OBVIOUS
<1>9. p \in C /\ \A other \in C : Len(other) <= Len(p)
    BY <1>1, <1>7, <1>8, Zenon DEF LongestCommonPrefix
<1>. QED BY <1>4, <1>6, <1>8, <1>9

LEMMA StrictIs ==
    ASSUME NEW S, NEW s \in Seq(S), NEW t \in Seq(S), IsStrictPrefix(s, t)
    PROVE  Len(s) < Len(t)
<1>1. Len(s) \in Nat /\ Len(t) \in Nat /\ SubSeq(s, 1, Len(s)) = s /\ SubSeq(t, 1, Len(t)) = t
    BY LenProperties, SubSeqFull
<1>2. Len(s) <= Len(t) /\ SubSeq(s, 1, Len(s)) = SubSeq(t, 1, Len(s)) /\ s # t
    BY DEF IsStrictPrefix, IsPrefix
<1>3. Len(s) # Len(t)
    BY <1>1, <1>2
<1>4. PICK m \in Nat, n \in Nat : m = Len(s) /\ n = Len(t)
    BY <1>1
<1>5. m <= n /\ m # n
    BY <1>2, <1>3, <1>4
<1>. QED BY <1>4, <1>5

(* The record of what is committed: each token with the column it ends at, *)
(* which was marked, and the columns tokens begin at when the chart is a   *)
(* TokenKernel's.                                                          *)
CutOf(c, k) == IF k = 0 THEN 0 ELSE c[k][2]
Base(c) == Spelled(Held(c))

Recorded(c, begins, ms, w, byTokens) ==
    /\ c \in Seq(Pairs) /\ 0 \in ms /\ Len(w) \in ms
    /\ \A k \in 1..Len(c) : c[k][2] = Len(FirstOf(Held(c), k)) /\ c[k][2] \in ms
    /\ begins = IF byTokens THEN {CutOf(c, k - 1) : k \in 1..Len(c)} ELSE {}

Under(b, cut) == {x \in b : x < cut}
Begun(by, b, i) == IF by THEN b \cup {i} ELSE b

LEMMA CutsAre ==
    ASSUME NEW c, NEW b, NEW ms, NEW w, NEW by, Recorded(c, b, ms, w, by), NEW k \in 0..Len(c)
    PROVE  /\ CutOf(c, k) = Len(FirstOf(Held(c), k)) /\ CutOf(c, k) \in ms /\ CutOf(c, k) \in Nat
           /\ CutOf(c, k) <= Len(Base(c)) /\ (k < Len(c) => CutOf(c, k) < Len(Base(c)))
           /\ SubSeq(Base(c), 1, CutOf(c, k)) = FirstOf(Held(c), k)
           /\ \A j \in 0..k : CutOf(c, j) <= CutOf(c, k) /\ (j < k => CutOf(c, j) < CutOf(c, k))
<1>1. PICK N \in Nat : N = Len(c) /\ k \in 0..N
    BY LenProperties DEF Recorded
<1>2. Held(c) \in Seq(Tokens) /\ Len(Held(c)) = N
    BY <1>1, HeldIs DEF Recorded
<1>3. \A j \in 0..N : CutOf(c, j) = Len(FirstOf(Held(c), j)) /\ CutOf(c, j) \in ms
    <2>. SUFFICES ASSUME NEW j \in 0..N PROVE CutOf(c, j) = Len(FirstOf(Held(c), j)) /\ CutOf(c, j) \in ms
        OBVIOUS
    <2>1. CASE j = 0
        <3>1. FirstOf(Held(c), 0) = <<>>
            BY <1>1, <1>2, FirstsAre
        <3>2. Len(<<>>) = 0
            OBVIOUS
        <3>. QED BY <2>1, <3>1, <3>2 DEF CutOf, Recorded
    <2>2. CASE j # 0
        <3>1. j \in 1..N
            BY <2>2
        <3>. QED BY <1>1, <2>2, <3>1 DEF CutOf, Recorded
    <2>. QED BY <2>1, <2>2
<1>4. N \in 0..N /\ FirstOf(Held(c), N) = Base(c)
    BY <1>1, <1>2, FirstsAre DEF Base
<1>5. /\ CutOf(c, k) \in Nat /\ CutOf(c, k) <= Len(Base(c)) /\ (k < N => CutOf(c, k) < Len(Base(c)))
      /\ SubSeq(Base(c), 1, CutOf(c, k)) = FirstOf(Held(c), k)
    <2>1. CutOf(c, k) = Len(FirstOf(Held(c), k))
        BY <1>1, <1>3
    <2>2. /\ Len(FirstOf(Held(c), k)) \in Nat
          /\ Len(FirstOf(Held(c), k)) <= Len(FirstOf(Held(c), N))
          /\ k < N => Len(FirstOf(Held(c), k)) < Len(FirstOf(Held(c), N))
          /\ SubSeq(FirstOf(Held(c), N), 1, Len(FirstOf(Held(c), k))) = FirstOf(Held(c), k)
        BY <1>1, <1>2, <1>4, FirstsGrow
    <2>. QED BY <1>4, <2>1, <2>2
<1>6. ASSUME NEW j \in 0..k PROVE CutOf(c, j) <= CutOf(c, k) /\ (j < k => CutOf(c, j) < CutOf(c, k))
    <2>1. j \in 0..N
        BY <1>1
    <2>2. /\ Len(FirstOf(Held(c), j)) <= Len(FirstOf(Held(c), k))
          /\ j < k => Len(FirstOf(Held(c), j)) < Len(FirstOf(Held(c), k))
        BY <1>1, <1>2, FirstsGrow
    <2>3. CutOf(c, j) = Len(FirstOf(Held(c), j)) /\ CutOf(c, k) = Len(FirstOf(Held(c), k))
        BY <1>1, <1>3, <2>1
    <2>. QED BY <2>2, <2>3
<1>. QED BY <1>1, <1>3, <1>5, <1>6

(* Cut back to the end of a token, or to nothing.                          *)
LEMMA RecordCut ==
    ASSUME NEW c, NEW b, NEW ms, NEW w, NEW by, Recorded(c, b, ms, w, by), w = Base(c),
           NEW n \in 0..Len(c), n < Len(c), NEW cut, cut = CutOf(c, n)
    PROVE  /\ cut \in ms
           /\ SubSeq(w, 1, cut) = Base(SubSeq(c, 1, n))
           /\ Recorded(SubSeq(c, 1, n), Under(b, cut), Cutting(ms, cut), SubSeq(w, 1, cut), by)
<1>1. PICK N \in Nat : N = Len(c) /\ n \in 0..N /\ n < N
    BY LenProperties DEF Recorded
<1>2. c \in Seq(Pairs) /\ Held(c) \in Seq(Tokens) /\ Len(Held(c)) = N
    BY <1>1, HeldIs DEF Recorded
<1>3. PICK d : d = SubSeq(c, 1, n)
    OBVIOUS
<1>4. d \in Seq(Pairs) /\ Len(d) = n /\ Held(d) = SubSeq(Held(c), 1, n) /\ \A k \in 1..n : d[k] = c[k]
    BY <1>1, <1>2, <1>3, HeldCut
<1>5. /\ cut = Len(FirstOf(Held(c), n)) /\ cut \in ms /\ cut \in Nat
      /\ SubSeq(w, 1, cut) = FirstOf(Held(c), n)
      /\ \A j \in 0..n : CutOf(c, j) <= cut /\ (j < n => CutOf(c, j) < cut)
    BY <1>1, CutsAre
<1>6. FirstOf(Held(c), n) = Base(d)
    BY <1>4 DEF FirstOf, Base
<1>7. \A k \in 0..n : CutOf(d, k) = CutOf(c, k)
    BY <1>1, <1>4 DEF CutOf
<1>8. ASSUME NEW k \in 1..n PROVE d[k][2] = Len(FirstOf(Held(d), k)) /\ d[k][2] \in Cutting(ms, cut)
    <2>1. k \in 0..N /\ k \in 1..N /\ k \in 0..n /\ k # 0
        BY <1>1
    <2>2. d[k][2] = CutOf(c, k) /\ CutOf(c, k) \in ms /\ CutOf(c, k) <= cut
        <3>1. d[k][2] = c[k][2] /\ c[k][2] \in ms
            BY <1>1, <1>4, <2>1 DEF Recorded
        <3>2. CutOf(c, k) = c[k][2]
            BY <2>1 DEF CutOf
        <3>. QED BY <1>5, <2>1, <3>1, <3>2
    <2>3. CutOf(c, k) = Len(FirstOf(Held(c), k))
        BY <1>1, <2>1, CutsAre
    <2>4. FirstOf(Held(d), k) = FirstOf(Held(c), k)
        <3>1. PICK h, g : h = Held(c) /\ g = SubSeq(h, 1, n)
            OBVIOUS
        <3>2. n \in 1..N /\ 1 \in 1..N /\ k \in 1..n /\ 1 \in 1..n
            BY <1>1
        <3>3. SubSeq(g, 1, k) = SubSeq(h, 1, k)
            <4>1. 1 + 1 - 1 = 1 /\ 1 + k - 1 = k /\ n - 1 + 1 = n
                BY <1>1, <2>1
            <4>2. SubSeq(SubSeq(h, 1, n), 1, k) = SubSeq(h, 1 + 1 - 1, 1 + k - 1)
                BY <1>2, <3>1, <3>2, <4>1, SubSeqOfSubSeq
            <4>. QED BY <3>1, <4>1, <4>2
        <3>. QED BY <1>4, <3>1, <3>3 DEF FirstOf
    <2>. QED BY <2>2, <2>3, <2>4 DEF Cutting
<1>9. 0 \in Cutting(ms, cut) /\ cut \in Cutting(ms, cut)
    BY <1>5 DEF Recorded, Cutting
<1>10. Under(b, cut) = IF by THEN {CutOf(d, k - 1) : k \in 1..n} ELSE {}
    <2>1. b = IF by THEN {CutOf(c, k - 1) : k \in 1..N} ELSE {}
        BY <1>1 DEF Recorded
    <2>2. CASE by
        <3>1. ASSUME NEW k \in 1..N PROVE CutOf(c, k - 1) < cut <=> k \in 1..n
            <4>1. CASE k \in 1..n
                <5>1. k - 1 \in 0..n /\ k - 1 < n
                    BY <1>1, <4>1
                <5>. QED BY <1>5, <4>1, <5>1
            <4>2. CASE k \notin 1..n
                <5>1. k - 1 \in 0..N /\ n \in 0..(k - 1)
                    BY <1>1, <4>2
                <5>2. CutOf(c, n) <= CutOf(c, k - 1) /\ CutOf(c, k - 1) \in Nat
                    BY <1>1, <5>1, CutsAre
                <5>. QED BY <1>5, <4>2, <5>2
            <4>. QED BY <4>1, <4>2
        <3>2. \A k \in 1..n : k \in 1..N /\ CutOf(d, k - 1) = CutOf(c, k - 1)
            <4>1. \A k \in 1..n : k \in 1..N /\ k - 1 \in 0..n
                BY <1>1
            <4>. QED BY <1>7, <4>1
        <3>3. b = {CutOf(c, k - 1) : k \in 1..N}
            BY <2>1, <2>2
        <3>4. Under(b, cut) = {CutOf(d, k - 1) : k \in 1..n}
            BY <3>1, <3>2, <3>3 DEF Under
        <3>. QED BY <2>2, <3>4
    <2>3. CASE ~by
        BY <2>1, <2>3 DEF Under
    <2>. QED BY <2>2, <2>3
<1>11. Len(SubSeq(w, 1, cut)) = cut
    BY <1>5
<1>. QED BY <1>3, <1>4, <1>5, <1>6, <1>8, <1>9, <1>10, <1>11 DEF Recorded

(* One more token, where the text ends.                                    *)
Onward(w, t) == w \o Spellings[t]
Longer(c, w, t) == Append(c, <<t, Len(w) + Len(Spellings[t])>>)

LEMMA LongerIs ==
    ASSUME NEW c \in Seq(Pairs), NEW w, w = Base(c), NEW t \in Tokens
    PROVE  /\ Base(Longer(c, w, t)) = Onward(w, t) /\ Len(Onward(w, t)) = Len(w) + Len(Spellings[t])
           /\ Longer(c, w, t) \in Seq(Pairs) /\ Held(Longer(c, w, t)) = Append(Held(c), t)
<1>1. Held(c) \in Seq(Tokens)
    BY HeldIs
<1>2. Spellings[t] \in Seq(Letters) /\ w \in Seq(Letters)
    BY <1>1, SpellingIs, SpelledIs DEF Base
<1>3. Len(Onward(w, t)) = Len(w) + Len(Spellings[t]) /\ Len(w) + Len(Spellings[t]) \in Nat
    BY <1>2, ConcatProperties, LenProperties DEF Onward
<1>4. PICK n \in Nat : n = Len(w) + Len(Spellings[t])
    BY <1>3
<1>5. Longer(c, w, t) = Append(c, <<t, n>>)
    BY <1>4 DEF Longer
<1>6. Longer(c, w, t) \in Seq(Pairs) /\ Held(Longer(c, w, t)) = Append(Held(c), t)
    <2>1. PICK a : a = Append(c, <<t, n>>)
        OBVIOUS
    <2>2. a \in Seq(Pairs) /\ Held(a) = Append(Held(c), t)
        BY <2>1, HeldGrows
    <2>. QED BY <1>5, <2>1, <2>2, Zenon
<1>7. Base(Longer(c, w, t)) = Onward(w, t)
    BY <1>1, <1>6, SpelledIs DEF Base, Onward
<1>. QED BY <1>3, <1>6, <1>7

LEMMA RecordGrown ==
    ASSUME NEW c, NEW b, NEW ms, NEW w, NEW by, Recorded(c, b, ms, w, by), w = Base(c), NEW t \in Tokens
    PROVE  Recorded(Longer(c, w, t), Begun(by, b, Len(w)), ms \cup {Len(Onward(w, t))}, Onward(w, t), by)
<1>0. PICK d, w2 : d = Longer(c, w, t) /\ w2 = Onward(w, t)
    OBVIOUS
<1>1. PICK N \in Nat : N = Len(c)
    BY LenProperties DEF Recorded
<1>2. c \in Seq(Pairs) /\ Held(c) \in Seq(Tokens) /\ Len(Held(c)) = N
    BY <1>1, HeldIs DEF Recorded
<1>3. PICK s : s = Spellings[t]
    OBVIOUS
<1>4. s \in Seq(Letters) /\ w \in Seq(Letters) /\ Len(w) \in Nat /\ Len(s) \in Nat
    <2>1. s \in Seq(Letters) /\ w \in Seq(Letters)
        BY <1>2, <1>3, SpellingIs, SpelledIs DEF Base
    <2>. QED BY <2>1, LenProperties
<1>5. Len(w2) = Len(w) + Len(s) /\ Len(w2) \in Nat
    BY <1>0, <1>3, <1>4, ConcatProperties DEF Onward
<1>6. d = Append(c, <<t, Len(w2)>>)
    BY <1>0, <1>3, <1>5 DEF Longer
<1>7. /\ d \in Seq(Pairs) /\ Len(d) = N + 1 /\ d[N + 1] = <<t, Len(w2)>>
      /\ \A k \in 1..N : d[k] = c[k]
      /\ Held(d) = Append(Held(c), t)
    <2>1. PICK n \in Nat : n = Len(w2)
        BY <1>5
    <2>2. d = Append(c, <<t, n>>)
        BY <1>6, <2>1
    <2>3. /\ d \in Seq(Pairs) /\ Len(d) = Len(c) + 1 /\ d[Len(c) + 1] = <<t, n>>
          /\ \A k \in 1..Len(c) : d[k] = c[k]
          /\ Held(d) = Append(Held(c), t)
        <3>1. PICK a : a = Append(c, <<t, n>>)
            OBVIOUS
        <3>2. /\ a \in Seq(Pairs) /\ Len(a) = Len(c) + 1 /\ a[Len(c) + 1] = <<t, n>>
              /\ \A k \in 1..Len(c) : a[k] = c[k]
              /\ Held(a) = Append(Held(c), t)
            BY <1>2, <3>1, HeldGrows
        <3>3. d = a
            BY <2>2, <3>1, Zenon
        <3>. QED BY <3>2, <3>3, Zenon
    <2>. QED BY <1>1, <2>1, <2>3
<1>8. Base(d) = w2
    BY <1>0, <1>2, LongerIs
<1>9. PICK h, g : h = Held(c) /\ g = Held(d)
    OBVIOUS
<1>10. /\ h \in Seq(Tokens) /\ Len(h) = N /\ g \in Seq(Tokens) /\ Len(g) = N + 1
       /\ \A k \in 1..N : g[k] = h[k]
    BY <1>2, <1>7, <1>9, AppendProperties
<1>11. ASSUME NEW k \in 0..N PROVE FirstOf(g, k) = FirstOf(h, k)
    <2>1. \A i \in 1..k : i \in 1..N /\ i \in 1..(N + 1)
        OBVIOUS
    <2>2. \A i \in 1..k : g[i] \in Tokens /\ h[i] \in Tokens
        BY <1>10, <2>1, ElementOfSeq
    <2>3. PICK u, v : u = SubSeq(g, 1, k) /\ v = SubSeq(h, 1, k)
        OBVIOUS
    <2>4. u \in Seq(Tokens) /\ Len(u) = k /\ \A i \in 1..k : u[i] = g[i]
        BY <2>2, <2>3, SubSeqProperties
    <2>5. v \in Seq(Tokens) /\ Len(v) = k /\ \A i \in 1..k : v[i] = h[i]
        BY <2>2, <2>3, SubSeqProperties
    <2>6. u = v
        BY <1>10, <2>1, <2>4, <2>5, SeqEqual
    <2>. QED BY <2>3, <2>6 DEF FirstOf
<1>12. \A k \in 1..N : c[k][2] = Len(FirstOf(h, k)) /\ c[k][2] \in ms
    BY <1>1, <1>9 DEF Recorded
<1>13. ASSUME NEW k \in 1..(N + 1) PROVE d[k][2] = Len(FirstOf(g, k)) /\ d[k][2] \in ms \cup {Len(w2)}
    <2>1. CASE k = N + 1
        <3>1. FirstOf(g, N + 1) = w2
            <4>1. N + 1 \in 0..Len(g)
                BY <1>10
            <4>2. FirstOf(g, Len(g)) = Spelled(g)
                BY <1>10, <4>1, FirstsAre
            <4>. QED BY <1>8, <1>9, <1>10, <4>2 DEF Base
        <3>. QED BY <1>7, <2>1, <3>1
    <2>2. CASE k # N + 1
        <3>1. k \in 1..N /\ k \in 0..N
            BY <2>2
        <3>. QED BY <1>7, <1>11, <1>12, <3>1
    <2>. QED BY <2>1, <2>2
<1>14. Begun(by, b, Len(w)) = IF by THEN {CutOf(d, k - 1) : k \in 1..(N + 1)} ELSE {}
    <2>1. b = IF by THEN {CutOf(c, k - 1) : k \in 1..N} ELSE {}
        BY <1>1 DEF Recorded
    <2>2. CASE by
        <3>1. \A k \in 1..N : k - 1 \in 0..N /\ (k - 1 # 0 => k - 1 \in 1..N)
            OBVIOUS
        <3>2. \A k \in 1..N : CutOf(d, k - 1) = CutOf(c, k - 1)
            BY <1>7, <3>1 DEF CutOf
        <3>3. CutOf(d, N) = Len(w)
            <4>1. CutOf(d, N) = CutOf(c, N)
                <5>1. N # 0 => N \in 1..N
                    OBVIOUS
                <5>. QED BY <1>7, <5>1 DEF CutOf
            <4>2. CutOf(c, N) = Len(FirstOf(Held(c), N)) /\ N \in 0..N
                BY <1>1, CutsAre
            <4>3. FirstOf(Held(c), N) = w
                BY <1>2, <4>2, FirstsAre DEF Base
            <4>. QED BY <4>1, <4>2, <4>3
        <3>4. /\ (N + 1) - 1 = N /\ N + 1 \in 1..(N + 1)
              /\ \A k \in 1..(N + 1) : (k = N + 1) \/ (k \in 1..N)
              /\ \A k \in 1..N : k \in 1..(N + 1)
            OBVIOUS
        <3>5. b = {CutOf(c, k - 1) : k \in 1..N}
            BY <2>1, <2>2
        <3>6. {CutOf(d, k - 1) : k \in 1..(N + 1)} = {CutOf(d, k - 1) : k \in 1..N} \cup {CutOf(d, N)}
            BY <3>4
        <3>7. {CutOf(d, k - 1) : k \in 1..N} = b
            BY <3>2, <3>5
        <3>. QED BY <2>2, <3>3, <3>6, <3>7 DEF Begun
    <2>3. CASE ~by
        BY <2>1, <2>3 DEF Begun
    <2>. QED BY <2>2, <2>3
<1>15. Recorded(d, Begun(by, b, Len(w)), ms \cup {Len(w2)}, w2, by)
    <2>1. 0 \in ms
        BY DEF Recorded
    <2>. QED BY <1>7, <1>9, <1>13, <1>14, <2>1 DEF Recorded
<1>. QED BY <1>0, <1>15

(* What is committed stays recorded when the text moves above it.          *)
LEMMA RecordStands ==
    ASSUME NEW c, NEW b, NEW ms, NEW w, NEW by, Recorded(c, b, ms, w, by),
           NEW ms2, NEW w2, Len(w2) \in ms2, \A m \in ms : m \in Nat /\ m <= Len(Base(c)) => m \in ms2
    PROVE  Recorded(c, b, ms2, w2, by)
<1>1. PICK N \in Nat : N = Len(c)
    BY LenProperties DEF Recorded
<1>2. ASSUME NEW k \in 0..N PROVE CutOf(c, k) \in ms2
    BY <1>1, CutsAre
<1>3. 0 \in ms2 /\ \A k \in 1..N : c[k][2] \in ms2
    <2>1. CutOf(c, 0) \in ms2 /\ \A k \in 1..N : CutOf(c, k) \in ms2
        BY <1>2
    <2>2. CutOf(c, 0) = 0 /\ \A k \in 1..N : CutOf(c, k) = c[k][2]
        BY DEF CutOf
    <2>. QED BY <2>1, <2>2
<1>. QED BY <1>1, <1>3 DEF Recorded

-----------------------------------------------------------------------------
(* The state of a cursor.  While a walk is under way the ids are those     *)
(* committed: nothing is assigned, and neither half of _sync has work.     *)
Book ==
    /\ ids \in Seq(Tokens)
    /\ Recorded(committed, DOMAIN bounds, marks, text, ByTokens)
    /\ frames = <<>> => entering = NoNode /\ text = Base(committed)
    /\ frames # <<>> => /\ call = "mask" /\ ~ByTokens /\ Held(committed) = ids
                       /\ Standing(frames, entering, Base(committed), marks, text)
Whole == Inv /\ (user = "cursor" => Book)

LEMMA Stays == ASSUME Inv, UNCHANGED vars PROVE Inv'
BY ReturnKeeps DEF vars

LEMMA SameTables == ASSUME tables' = tables PROVE ByTokens' = ByTokens
BY DEF ByTokens, TokenArms, Body

LEMMA EdgesAre == ASSUME NEW node \in Seq(Letters) PROVE Edges(node) \subseteq Letters
<1>. SUFFICES ASSUME NEW t \in Tokens, IsStrictPrefix(node, Spellings[t])
              PROVE  Spellings[t][Len(node) + 1] \in Letters
    BY DEF Edges
<1>1. Spellings[t] \in Seq(Letters)
    BY SpellingIs
<1>2. Len(node) < Len(Spellings[t]) /\ Len(node) \in Nat /\ Len(Spellings[t]) \in Nat
    BY <1>1, StrictIs, LenProperties
<1>3. Len(node) + 1 \in 1..Len(Spellings[t])
    BY <1>2
<1>. QED BY <1>1, <1>3, ElementOfSeq

(* The state that a read of the ids, or an assignment, leaves alone.       *)
LEMMA IdleKeeps ==
    ASSUME Inv, Book, UNCHANGED <<vars, committed, frames, entering>>, ids' \in Seq(Tokens),
           frames # <<>> => call' = call /\ ids' = ids
    PROVE  Inv' /\ Book'
<1>1. Inv'
    BY Stays
<1>2. tables' = tables /\ bounds' = bounds /\ marks' = marks /\ text' = text
    BY DEF vars, given
<1>3. ByTokens' = ByTokens
    BY <1>2, SameTables
<1>. QED BY <1>1, <1>2, <1>3 DEF Book

LEMMA AssignKeeps == ASSUME Inv, Book, Assign PROVE Inv' /\ Book'
<1>1. ids' \in Seq(Tokens)
    <2>1. PICK n \in Nat : ids' \in [1..n -> Tokens]
        BY DEF Assign, Generations
    <2>2. ids' = [k \in 1..n |-> ids'[k]] /\ \A k \in 1..n : ids'[k] \in Tokens
        BY <2>1
    <2>. QED BY <2>2, IsASeq
<1>2. frames = <<>>
    BY DEF Assign, Book
<1>. QED BY <1>1, <1>2, IdleKeeps DEF Assign, walk

LEMMA AskKeeps == ASSUME Inv, Book, NEW what, Ask(what) PROVE Inv' /\ Book'
<1>1. frames = <<>> /\ ids' \in Seq(Tokens)
    BY DEF Ask, Book
<1>. QED BY <1>1, IdleKeeps DEF Ask, walk

LEMMA AcceptsKeeps == ASSUME Inv, Book, Accepts PROVE Inv' /\ Book'
<1>1. frames = <<>> /\ ids' \in Seq(Tokens)
    BY DEF Accepts, Book
<1>. QED BY <1>1, IdleKeeps DEF Accepts, walk

LEMMA MaskByTokensKeeps == ASSUME Inv, Book, MaskByTokens PROVE Inv' /\ Book'
<1>1. frames = <<>> /\ ids' \in Seq(Tokens)
    BY DEF MaskByTokens, Book
<1>. QED BY <1>1, IdleKeeps DEF MaskByTokens

(* _sync cuts back to the end of a token it keeps, and _purge drops what   *)
(* began there or later.                                                   *)
LEMMA SyncBackKeeps == ASSUME Inv, Book, SyncBack PROVE Inv' /\ Book'
<1>1. committed \in Seq(Pairs) /\ Held(committed) \in Seq(Tokens) /\ Len(Held(committed)) = Len(committed)
    BY HeldIs DEF Book, Recorded
<1>2. PICK n, N : n = Kept /\ N = Len(committed)
    OBVIOUS
<1>3. n \in Nat /\ N \in Nat /\ (Held(committed) = ids => N <= n)
    <2>1. ids \in Seq(Tokens) /\ N \in Nat
        BY <1>1, <1>2, LenProperties DEF Book
    <2>2. PICK h : h = Held(committed)
        OBVIOUS
    <2>3. n = Len(LongestCommonPrefix({h, ids}))
        BY <1>2, <2>2 DEF Kept
    <2>4. n \in Nat /\ (h = ids => Len(h) <= n)
        BY <1>1, <2>1, <2>2, <2>3, LongestIs
    <2>. QED BY <1>1, <1>2, <2>1, <2>2, <2>4
<1>4. n < N /\ n \in 0..N
    BY <1>2, <1>3 DEF SyncBack
<1>5. frames = <<>> /\ entering = NoNode /\ text = Base(committed)
    BY <1>3, <1>4 DEF Book
<1>6. PICK cut : cut = CutAt(n)
    OBVIOUS
<1>7. cut = CutOf(committed, n)
    BY <1>6 DEF CutAt, CutOf
<1>8. /\ cut \in marks
      /\ SubSeq(text, 1, cut) = Base(SubSeq(committed, 1, n))
      /\ Recorded(SubSeq(committed, 1, n), Under(DOMAIN bounds, cut), Cutting(marks, cut),
                  SubSeq(text, 1, cut), ByTokens)
    <2>1. PICK begins : begins = DOMAIN bounds
        OBVIOUS
    <2>2. Recorded(committed, begins, marks, text, ByTokens)
        BY <2>1 DEF Book
    <2>3. n \in 0..Len(committed) /\ n < Len(committed)
        BY <1>2, <1>4
    <2>4. /\ cut \in marks
          /\ SubSeq(text, 1, cut) = Base(SubSeq(committed, 1, n))
          /\ Recorded(SubSeq(committed, 1, n), Under(begins, cut), Cutting(marks, cut), SubSeq(text, 1, cut), ByTokens)
        BY <1>5, <1>7, <2>2, <2>3, RecordCut
    <2>. QED BY <2>1, <2>4
<1>9. Rollback(cut) /\ bounds' = Purged(cut) /\ committed' = SubSeq(committed, 1, n)
      /\ ids' = ids /\ frames' = frames /\ entering' = entering
    BY <1>2, <1>6 DEF SyncBack, walk
<1>10. Inv'
    BY <1>8, <1>9, RollbackKeeps
<1>11. text' = SubSeq(text, 1, cut) /\ marks' = Cutting(marks, cut) /\ tables' = tables
    BY <1>9 DEF Rollback, Cutting
<1>12. DOMAIN bounds' = Under(DOMAIN bounds, cut)
    BY <1>9 DEF Purged, Under
<1>13. ByTokens' = ByTokens
    BY <1>11, SameTables
<1>. QED BY <1>5, <1>8, <1>9, <1>10, <1>11, <1>12, <1>13 DEF Book

(* ... and goes on, a token at a time, from where the text ends.           *)
LEMMA SyncOnKeeps == ASSUME Inv, Book, SyncOn PROVE Inv' /\ Book'
<1>1. committed \in Seq(Pairs) /\ Held(committed) \in Seq(Tokens) /\ Len(Held(committed)) = Len(committed)
    BY HeldIs DEF Book, Recorded
<1>2. PICK N : N = Len(committed)
    OBVIOUS
<1>3. ids \in Seq(Tokens) /\ N < Len(ids) /\ N \in Nat /\ Len(ids) \in Nat
    <2>1. ids \in Seq(Tokens)
        BY DEF Book
    <2>2. Len(Held(committed)) < Len(ids)
        BY <1>1, <2>1, StrictIs DEF SyncOn
    <2>. QED BY <1>1, <1>2, <2>1, <2>2, LenProperties
<1>4. PICK next : next = ids[N + 1]
    OBVIOUS
<1>5. next \in Tokens
    <2>1. N + 1 \in 1..Len(ids)
        BY <1>3
    <2>. QED BY <1>3, <1>4, <2>1, ElementOfSeq
<1>6. frames = <<>> /\ entering = NoNode /\ text = Base(committed)
    BY DEF Book, SyncOn, IsStrictPrefix
<1>7. PICK n : n = Len(Spellings[next])
    OBVIOUS
<1>8. /\ Extend(Spellings[next])
      /\ bounds' = IF ByTokens THEN Put(bounds, Len(text), [id |-> next, length |-> n]) ELSE bounds
      /\ committed' = Append(committed, <<next, Len(text) + n>>)
      /\ ids' = ids /\ frames' = frames /\ entering' = entering
    BY <1>2, <1>4, <1>7 DEF SyncOn, walk
<1>9. Inv'
    BY <1>5, <1>8, ExtendKeeps, SpellingIs
<1>10. PICK d, w2 : d = Longer(committed, text, next) /\ w2 = Onward(text, next)
    OBVIOUS
<1>12. /\ w2 = Base(d) /\ Len(w2) = Len(text) + n
       /\ Recorded(d, Begun(ByTokens, DOMAIN bounds, Len(text)), marks \cup {Len(w2)}, w2, ByTokens)
    <2>1. PICK begins : begins = DOMAIN bounds
        OBVIOUS
    <2>2. Recorded(committed, begins, marks, text, ByTokens)
        BY <2>1 DEF Book
    <2>3. /\ w2 = Base(d) /\ Len(w2) = Len(text) + Len(Spellings[next])
          /\ Recorded(d, Begun(ByTokens, begins, Len(text)), marks \cup {Len(w2)}, w2, ByTokens)
        <3>1. text = Base(committed)
            BY <1>6
        <3>2. w2 = Base(d) /\ Len(w2) = Len(text) + Len(Spellings[next])
            BY <1>1, <1>5, <1>10, <3>1, LongerIs, Zenon
        <3>4. Recorded(d, Begun(ByTokens, begins, Len(text)), marks \cup {Len(w2)}, w2, ByTokens)
            BY <1>5, <1>10, <2>2, <3>1, RecordGrown
        <3>. QED BY <3>2, <3>4
    <2>. QED BY <1>7, <2>1, <2>3
<1>13. text' = w2 /\ marks' = marks \cup {Len(w2)} /\ tables' = tables /\ committed' = d
    BY <1>7, <1>8, <1>10, <1>12 DEF Extend, Onward, Longer
<1>14. DOMAIN bounds' = Begun(ByTokens, DOMAIN bounds, Len(text))
    BY <1>8 DEF Put, Begun
<1>15. ByTokens' = ByTokens
    BY <1>13, SameTables
<1>. QED BY <1>3, <1>6, <1>8, <1>9, <1>12, <1>13, <1>14, <1>15 DEF Book

-----------------------------------------------------------------------------
(* The walk starts at the end of the committed text, and every step of it  *)
(* leaves what is committed recorded.                                      *)
LEMMA StartWalkKeeps == ASSUME Inv, Book, StartWalk PROVE Inv' /\ Book'
<1>1. /\ Held(committed) = ids /\ call = "mask" /\ ~ByTokens /\ frames = <<>>
      /\ frames' = <<Frame(<<>>, Len(text))>>
      /\ UNCHANGED <<vars, ids, committed, call, entering>>
    BY DEF StartWalk, Synced
<1>2. Inv'
    BY <1>1, Stays
<1>3. entering = NoNode /\ text = Base(committed) /\ Len(text) \in marks
    BY <1>1 DEF Book, Recorded
<1>4. Base(committed) \in Seq(Letters)
    BY HeldIs, SpelledIs DEF Book, Recorded, Base
<1>5. Standing(frames', NoNode, Base(committed), marks, text)
    <2>1. PICK base, left : base = Base(committed) /\ left = Edges(<<>>)
        OBVIOUS
    <2>2. left \in SUBSET Letters /\ base \in Seq(Letters)
        <3>1. <<>> \in Seq(Letters)
            OBVIOUS
        <3>. QED BY <1>4, <2>1, <3>1, EdgesAre
    <2>3. Len(base) \in marks
        BY <1>3, <2>1, Zenon
    <2>4. Standing(<<[node |-> <<>>, left |-> left, mark |-> Len(base)]>>, NoNode, base, marks, base)
        BY <2>2, <2>3, WalkStarts, Zenon
    <2>. QED BY <1>1, <1>3, <2>1, <2>4, Zenon DEF Frame
<1>6. /\ frames' # <<>> /\ ids' = ids /\ committed' = committed /\ bounds' = bounds /\ marks' = marks
      /\ text' = text /\ tables' = tables /\ call' = call /\ entering' = NoNode
    BY <1>1, <1>3 DEF vars, given
<1>7. ByTokens' = ByTokens
    BY <1>6, SameTables
<1>. QED BY <1>1, <1>2, <1>5, <1>6, <1>7 DEF Book

(* What a step of the walk leaves of the record.                           *)
LEMMA WalkRecord ==
    ASSUME Book, UNCHANGED <<tables, bounds, ids, committed, call>>, Len(text') \in marks', frames # <<>>,
           \A m \in marks : m \in Nat /\ m <= Len(Base(committed)) => m \in marks',
           frames' # <<>>, Standing(frames', entering', Base(committed), marks', text')
    PROVE  Book'
<1>1. ByTokens' = ByTokens
    BY SameTables
<1>2. PICK begins, ms2, w2 : begins = DOMAIN bounds /\ ms2 = marks' /\ w2 = text'
    OBVIOUS
<1>3. Recorded(committed, begins, marks, text, ByTokens)
    BY <1>2 DEF Book
<1>4. Len(w2) \in ms2 /\ \A m \in marks : m \in Nat /\ m <= Len(Base(committed)) => m \in ms2
    BY <1>2
<1>5. Recorded(committed, begins, ms2, w2, ByTokens)
    BY <1>3, <1>4, RecordStands
<1>6. Recorded(committed, DOMAIN bounds, marks', text', ByTokens)
    BY <1>2, <1>5
<1>. QED BY <1>1, <1>6 DEF Book

LEMMA DescendKeeps == ASSUME Inv, Book, NEW char, Descend(char) PROVE Inv' /\ Book'
<1>1. /\ frames # <<>> /\ entering = NoNode /\ char \in Top.left /\ Extend(<<char>>)
      /\ entering' = [node |-> Append(Top.node, char), mark |-> Len(text)]
      /\ frames' = [frames EXCEPT ![Len(frames)].left = @ \ {char}]
      /\ UNCHANGED <<bounds, ids, committed, call>>
    BY DEF Descend, Walking
<1>2. Standing(frames, NoNode, Base(committed), marks, text) /\ Len(text) \in marks
    BY <1>1 DEF Book, Recorded
<1>3. char \in Letters
    <2>1. Len(frames) \in 1..Len(frames) /\ \A k \in 1..Len(frames) : frames[k] \in Framed
        BY <1>2, StandingIs
    <2>2. Top = frames[Len(frames)]
        BY DEF Top, Last
    <2>. QED BY <1>1, <2>1, <2>2 DEF Framed
<1>4. IsList(<<char>>)
    <2>1. <<char>> \in Seq(Letters)
        BY <1>3
    <2>. QED BY <2>1, ListIs
<1>5. Inv'
    BY <1>1, <1>4, ExtendKeeps
<1>6. PICK w2 : w2 = text \o <<char>>
    OBVIOUS
<1>7. Len(w2) = Len(text) + Len(<<char>>)
    <2>1. text \in Seq(Letters) /\ <<char>> \in Seq(Letters)
        BY <1>2, <1>3, StandingIs
    <2>. QED BY <1>6, <2>1, ConcatProperties
<1>8. text' = w2 /\ marks' = marks \cup {Len(w2)} /\ tables' = tables
    BY <1>1, <1>6, <1>7 DEF Extend
<1>9. Standing(frames', entering', Base(committed), marks', text')
    <2>1. frames' = TakenFrom(frames, char)
        BY <1>1 DEF TakenFrom
    <2>2. entering' = Inward(frames, char, text)
        BY <1>1 DEF Top, Last, Inward
    <2>3. Standing(TakenFrom(frames, char), Inward(frames, char, text), Base(committed), marks \cup {Len(w2)}, w2)
        BY <1>2, <1>3, <1>6, WalkDescends
    <2>. QED BY <1>8, <2>1, <2>2, <2>3, Zenon
<1>10. frames' # <<>>
    BY <1>9 DEF Standing
<1>. QED BY <1>1, <1>5, <1>8, <1>9, <1>10, WalkRecord

LEMMA DeeperKeeps == ASSUME Inv, Book, Deeper PROVE Inv' /\ Book'
<1>1. /\ entering # NoNode /\ frames' = Append(frames, Frame(entering.node, entering.mark))
      /\ entering' = NoNode /\ UNCHANGED <<vars, ids, committed, call>>
    BY DEF Deeper
<1>2. Inv'
    BY <1>1, Stays
<1>3. frames # <<>> /\ Standing(frames, entering, Base(committed), marks, text) /\ Len(text) \in marks
    BY <1>1 DEF Book, Recorded
<1>4. Edges(entering.node) \in SUBSET Letters
    <2>1. entering.node \in Seq(Letters)
        BY <1>1, <1>3 DEF Standing, Entered
    <2>. QED BY <2>1, EdgesAre
<1>5. Standing(frames', NoNode, Base(committed), marks, text)
    BY <1>1, <1>3, <1>4, WalkDeepens, Zenon DEF Frame
<1>6. frames' # <<>>
    BY <1>5 DEF Standing
<1>7. tables' = tables /\ bounds' = bounds /\ marks' = marks /\ text' = text
    BY <1>1 DEF vars, given
<1>8. Standing(frames', entering', Base(committed), marks', text')
    BY <1>1, <1>5, <1>7
<1>. QED BY <1>1, <1>2, <1>3, <1>6, <1>7, <1>8, WalkRecord

(* A rollback of the walk, to a mark that is not below what is committed.  *)
LEMMA CutRecord ==
    ASSUME Inv, Inv', Book, UNCHANGED <<bounds, ids, committed, call, tables>>, frames # <<>>, entering' = NoNode,
           NEW m \in marks, m \in Nat, Len(Base(committed)) <= m,
           text' = SubSeq(text, 1, m), marks' = Cutting(marks, m),
           Standing(frames', NoNode, Base(committed), Cutting(marks, m), SubSeq(text, 1, m))
    PROVE  Book'
<1>1. Standing(frames', entering', Base(committed), marks', text') /\ frames' # <<>>
    BY DEF Standing
<1>2. Len(Base(committed)) \in Nat
    BY <1>1, StandingIs
<1>3. \A c \in marks : c \in Nat /\ c <= Len(Base(committed)) => c \in marks'
    BY <1>2 DEF Cutting
<1>4. Len(text') \in marks'
    <2>1. m \in marks'
        BY DEF Cutting
    <2>2. text \in Seq(Letters) /\ m <= Len(text)
        <3>1. Standing(frames, entering, Base(committed), marks, text)
            BY DEF Book
        <3>2. m \in 0..TextEnd
            BY DEF Inv, Settled, Topped
        <3>3. m <= TextEnd
            BY <3>2
        <3>. QED BY <3>1, <3>3, StandingIs DEF TextEnd
    <2>3. \A i \in 1..m : i \in 1..Len(text)
        BY <2>2, LenProperties
    <2>4. \A i \in 1..m : text[i] \in Letters
        BY <2>2, <2>3, ElementOfSeq
    <2>5. PICK u : u = SubSeq(text, 1, m)
        OBVIOUS
    <2>6. Len(u) = m
        BY <2>4, <2>5, SubSeqProperties
    <2>. QED BY <2>1, <2>5, <2>6
<1>. QED BY <1>1, <1>3, <1>4, WalkRecord

LEMMA LeaveKeeps == ASSUME Inv, Book, Leave PROVE Inv' /\ Book'
<1>1. /\ entering # NoNode /\ Rollback(entering.mark) /\ entering' = NoNode
      /\ UNCHANGED <<bounds, ids, committed, call, frames>>
    BY DEF Leave
<1>2. frames # <<>> /\ Standing(frames, entering, Base(committed), marks, text)
    BY <1>1 DEF Book
<1>3. PICK m : m = entering.mark
    OBVIOUS
<1>4. m \in marks /\ Len(Base(committed)) <= m /\ m \in Nat
    BY <1>1, <1>2, <1>3, WalkLeaves
<1>5. Standing(frames, NoNode, Base(committed), Cutting(marks, m), SubSeq(text, 1, m))
    BY <1>1, <1>2, <1>3, WalkLeaves, Zenon
<1>6. Inv'
    BY <1>1, <1>3, <1>4, RollbackKeeps
<1>7. text' = SubSeq(text, 1, m) /\ marks' = Cutting(marks, m) /\ tables' = tables
    BY <1>1, <1>3 DEF Rollback, Cutting
<1>. QED BY <1>1, <1>2, <1>4, <1>5, <1>6, <1>7, CutRecord

LEMMA AscendKeeps == ASSUME Inv, Book, Ascend PROVE Inv' /\ Book'
<1>1. /\ frames # <<>> /\ entering = NoNode /\ Len(frames) > 1 /\ Rollback(Top.mark)
      /\ frames' = Front(frames) /\ UNCHANGED <<bounds, ids, committed, call, entering>>
    BY DEF Ascend, Walking
<1>2. Standing(frames, NoNode, Base(committed), marks, text)
    BY <1>1 DEF Book
<1>3. PICK m : m = frames[Len(frames)].mark
    OBVIOUS
<1>4. m = Top.mark
    BY <1>3 DEF Top, Last
<1>5. m \in marks /\ Len(Base(committed)) <= m /\ m \in Nat
    BY <1>1, <1>2, <1>3, WalkAscends
<1>6. Standing(Front(frames), NoNode, Base(committed), Cutting(marks, m), SubSeq(text, 1, m))
    BY <1>1, <1>2, <1>3, WalkAscends, Zenon
<1>7. Inv'
    BY <1>1, <1>4, <1>5, RollbackKeeps
<1>8. text' = SubSeq(text, 1, m) /\ marks' = Cutting(marks, m) /\ tables' = tables
    BY <1>1, <1>4 DEF Rollback, Cutting
<1>. QED BY <1>1, <1>5, <1>6, <1>7, <1>8, CutRecord

(* When the last edge of the root is taken, the text ends where it began.  *)
LEMMA EndWalkKeeps == ASSUME Inv, Book, EndWalk PROVE Inv' /\ Book'
<1>1. /\ frames # <<>> /\ entering = NoNode /\ Len(frames) = 1 /\ frames' = <<>>
      /\ UNCHANGED <<vars, ids, committed, entering>>
    BY DEF EndWalk, Walking
<1>2. Inv'
    BY <1>1, Stays
<1>3. Standing(frames, NoNode, Base(committed), marks, text)
    BY <1>1 DEF Book
<1>4. text = Base(committed)
    <2>1. text = Base(committed) \o frames[1].node /\ Base(committed) \in Seq(Letters)
        BY <1>1, <1>3 DEF Standing, Here
    <2>2. frames[1].node \in Seq(Letters) /\ Len(frames[1].node) = 0
        <3>1. 1 \in 1..Len(frames) /\ frames[1] \in Framed
            BY <1>1, <1>3, StandingIs
        <3>2. Len(frames[1].node) = 1 - 1
            BY <1>3, <3>1 DEF Standing
        <3>. QED BY <3>1, <3>2 DEF Framed
    <2>3. frames[1].node = <<>>
        BY <2>2, EmptySeq
    <2>. QED BY <2>1, <2>3, ConcatEmptySeq
<1>5. /\ ids' = ids /\ committed' = committed /\ bounds' = bounds /\ marks' = marks
      /\ text' = text /\ tables' = tables /\ entering' = NoNode
    BY <1>1 DEF vars, given
<1>6. ByTokens' = ByTokens
    BY <1>5, SameTables
<1>. QED BY <1>1, <1>2, <1>4, <1>5, <1>6 DEF Book

(* The loop of the kernel reads what it was given, and changes none of it. *)
LEMMA KernelKeeps == ASSUME Inv, Book, Kernel PROVE Inv' /\ Book'
<1>0. Next
    BY DEF Kernel, Next
<1>1. Inv'
    BY <1>0, StepKeeps
<1>2. UNCHANGED <<given, marks>> /\ UNCHANGED cursor
    BY DEF Kernel, Close, Predict, AwaitScan, SkipEmpty, Jump, CompleteAll, Scan, Return, client
<1>3. /\ tables' = tables /\ text' = text /\ bounds' = bounds /\ marks' = marks /\ ids' = ids
      /\ committed' = committed /\ call' = call /\ frames' = frames /\ entering' = entering
    BY <1>2 DEF given, cursor, walk
<1>4. ByTokens' = ByTokens
    BY <1>3, SameTables
<1>. QED BY <1>1, <1>3, <1>4 DEF Book

LEMMA CursorKeeps == ASSUME Inv, Book, CursorNext PROVE Inv' /\ Book'
<1>1. CASE Kernel
    BY <1>1, KernelKeeps
<1>2. CASE Assign
    BY <1>2, AssignKeeps
<1>3. CASE \E what \in {"accepts", "mask"} : Ask(what)
    BY <1>3, AskKeeps
<1>4. CASE SyncBack
    BY <1>4, SyncBackKeeps
<1>5. CASE SyncOn
    BY <1>5, SyncOnKeeps
<1>6. CASE Accepts
    BY <1>6, AcceptsKeeps
<1>7. CASE MaskByTokens
    BY <1>7, MaskByTokensKeeps
<1>8. CASE StartWalk
    BY <1>8, StartWalkKeeps
<1>9. CASE \E t \in Tokens, k \in 1..LongestSpelling : k \in DOMAIN Spellings[t] /\ Descend(Spellings[t][k])
    BY <1>9, DescendKeeps
<1>10. CASE Deeper
    BY <1>10, DeeperKeeps
<1>11. CASE Leave
    BY <1>11, LeaveKeeps
<1>12. CASE Ascend
    BY <1>12, AscendKeeps
<1>13. CASE EndWalk
    BY <1>13, EndWalkKeeps
<1>. QED BY <1>1, <1>2, <1>3, <1>4, <1>5, <1>6, <1>7, <1>8, <1>9, <1>10, <1>11, <1>12, <1>13 DEF CursorNext

LEMMA StartHolds == Start => Whole
<1>. SUFFICES ASSUME Start PROVE Whole
    OBVIOUS
<1>1. Inv
    BY InitHolds DEF Start
<1>2. ASSUME user = "cursor" PROVE Book
    <2>1. /\ ids = <<>> /\ committed = <<>> /\ frames = <<>> /\ entering = NoNode
          /\ bounds = <<>> /\ marks = {Len(text)}
        BY DEF Start, Begin, Init
    <2>2. ~recordLinks
        BY <1>2 DEF Start
    <2>3. text = <<>> /\ Len(<<>>) = 0
        BY <2>2 DEF Start, Init
    <2>4. Held(<<>>) = <<>> /\ <<>> \in Seq(Tokens) /\ <<>> \in Seq(Pairs)
        <3>1. <<>> \in Seq(Tokens) /\ <<>> \in Seq(Pairs)
            OBVIOUS
        <3>2. Held(<<>>) \in Seq(Tokens) /\ Len(Held(<<>>)) = 0
            BY <2>3, <3>1, HeldIs
        <3>. QED BY <3>1, <3>2, EmptySeq
    <2>5. Base(<<>>) = <<>>
        BY <2>4, SpelledIs DEF Base
    <2>6. \A k : k \notin 1..0
        OBVIOUS
    <2>7. (IF ByTokens THEN {CutOf(<<>>, k - 1) : k \in 1..0} ELSE {}) = {} /\ DOMAIN <<>> = {}
        BY <2>6
    <2>8. Recorded(committed, DOMAIN bounds, marks, text, ByTokens)
        BY <2>1, <2>3, <2>4, <2>6, <2>7 DEF Recorded
    <2>. QED BY <2>1, <2>3, <2>4, <2>5, <2>8 DEF Book
<1>. QED BY <1>1, <1>2 DEF Whole

LEMMA StepWhole == Whole /\ [Step]_<<vars, cursor, user>> => Whole'
<1>. SUFFICES ASSUME Whole, [Step]_<<vars, cursor, user>> PROVE Whole'
    OBVIOUS
<1>1. Inv /\ user' = user
    BY DEF Whole, Step
<1>2. CASE user \in {"parse", "client"} /\ Next /\ UNCHANGED cursor
    BY <1>1, <1>2, StepKeeps DEF Whole
<1>3. CASE UNCHANGED <<vars, cursor>>
    <2>1. Inv'
        BY <1>1, <1>3, Stays
    <2>2. ASSUME Book PROVE Book'
        <3>1. ids' \in Seq(Tokens) /\ UNCHANGED <<vars, committed, frames, entering>> /\ call' = call /\ ids' = ids
            BY <1>3, <2>2 DEF cursor, walk, Book
        <3>. QED BY <1>1, <2>2, <3>1, IdleKeeps
    <2>. QED BY <1>1, <2>1, <2>2 DEF Whole
<1>4. CASE user = "cursor" /\ CursorNext
    BY <1>1, <1>4, CursorKeeps DEF Whole
<1>. QED BY <1>2, <1>3, <1>4 DEF Step

(* Whoever a chart serves - a parse, a client of the recognizer or a       *)
(* cursor - it is what the kernel needs it to be, and a cursor's record of *)
(* its tokens is true, in a walk of the trie as between two calls.         *)
THEOREM ChartWhole == ChartSpec => []Whole
BY StartHolds, StepWhole, PTL DEF ChartSpec

(* The chart of a cursor is in step with its tokens: between calls, and    *)
(* whenever no branch is explored, it is over exactly what they spell,     *)
(* each recorded where it ends and, by a TokenTermCursor, where it begins  *)
(* - whatever was assigned, cut back and walked meanwhile.                 *)
THEOREM InStep == ChartSpec => []CursorInStep
<1>1. ASSUME Whole PROVE CursorInStep
    <2>. SUFFICES ASSUME Book, frames = <<>>
                  PROVE  /\ text = Spelled(Held(committed))
                         /\ \A k \in DOMAIN committed :
                                committed[k][2] = Len(Spelled(SubSeq(Held(committed), 1, k)))
                         /\ DOMAIN bounds = IF ByTokens THEN {CutAt(k - 1) : k \in DOMAIN committed} ELSE {}
        BY <1>1 DEF Whole, CursorInStep, CommittedInStep
    <2>1. text = Spelled(Held(committed))
        BY DEF Book, Base
    <2>2. DOMAIN committed = 1..Len(committed)
        BY LenProperties DEF Book, Recorded
    <2>3. \A k \in 1..Len(committed) : committed[k][2] = Len(Spelled(SubSeq(Held(committed), 1, k)))
        BY DEF Book, Recorded, FirstOf
    <2>4. DOMAIN bounds = IF ByTokens THEN {CutAt(k - 1) : k \in 1..Len(committed)} ELSE {}
        BY DEF Book, Recorded, CutOf, CutAt
    <2>. QED BY <2>1, <2>2, <2>3, <2>4
<1>. QED BY <1>1, ChartWhole, PTL

(* The types of the chart hold under a cursor's calls as under a client's: *)
(* it cuts back only to columns that were marked.                          *)
THEOREM ChartsTyped == ChartSpec => []TypeOK
<1>1. Whole => TypeOK
    BY InvTyped DEF Whole
<1>. QED BY <1>1, ChartWhole, PTL

(* No item is filed twice in a chart a cursor extends token by token or    *)
(* character by character and cuts back, any more than in a client's.      *)
THEOREM ChartsOnce == ChartSpec => []FiledOnce
<1>1. Whole => FiledOnce
    BY InvOnce DEF Whole
<1>. QED BY <1>1, ChartWhole, PTL

(* A memoised Leo top is what a climb would find, in a chart re-opened at  *)
(* every edge of a trie and cut back at every branch.                      *)
THEOREM ChartsTopsFresh == ChartSpec => []LeoMemoFresh
<1>1. Whole => LeoMemoFresh
    BY InvFresh DEF Whole
<1>. QED BY <1>1, ChartWhole, PTL

-----------------------------------------------------------------------------
(* The tokens of a chart lie in its text, one after the other.             *)
Laid ==
    \A i \in DOMAIN bounds :
        /\ i \in Nat /\ bounds[i].length \in Nat \ {0} /\ i + bounds[i].length <= TextEnd
        /\ \A j \in DOMAIN bounds : i < j => i + bounds[i].length <= j
Serving == IF user = "cursor" THEN Book /\ Laid /\ ~recordLinks ELSE bounds = <<>>
WholeExact == Exact /\ Serving

LEMMA LaidWhole == Laid => TokensWhole
BY DEF Laid, TokensWhole

(* Of a cursor over characters the chart has no tokens, so none to lose    *)
(* when a walk of the trie grows it and cuts it back.                      *)
LEMMA Untokened == ASSUME Book, frames # <<>> \/ ~ByTokens PROVE DOMAIN bounds = {}
BY DEF Book, Recorded

LEMMA StillExact ==
    ASSUME Exact, Laid, UNCHANGED vars
    PROVE  Exact' /\ Laid'
<1>1. Inv'
    BY Stays DEF Exact
<1>2. Exact'
    BY <1>1, QuietExact DEF vars
<1>. QED BY <1>2 DEF Laid, vars, given, TextEnd

LEMMA KernelExact == ASSUME Exact, Laid, Book, Kernel PROVE Exact' /\ Laid'
<1>1. Inv'
    BY KernelKeeps DEF Exact
<1>2. UNCHANGED given
    BY DEF Kernel, Close, Predict, AwaitScan, SkipEmpty, Jump, CompleteAll, Scan, Return, client
<1>3. CASE Close \/ Scan
    BY <1>2, <1>3, ClosingExact DEF Laid, given, TextEnd
<1>4. CASE Return
    <2>1. Exact'
        BY <1>1, <1>4, QuietExact DEF Return
    <2>. QED BY <1>2, <2>1 DEF Laid, given, TextEnd
<1>. QED BY <1>3, <1>4 DEF Kernel

(* A walk of the trie grows the chart by a character ...                   *)
LEMMA DescendExact == ASSUME Exact, Laid, Book, NEW char, Descend(char) PROVE Exact' /\ Laid'
<1>1. frames # <<>> /\ char \in Top.left /\ Extend(<<char>>) /\ bounds' = bounds /\ Inv /\ Inv'
    BY DescendKeeps DEF Descend, Walking, Exact
<1>2. DOMAIN bounds = {}
    BY <1>1, Untokened
<1>3. IsList(<<char>>)
    <2>1. <<char>> \in Seq({char})
        OBVIOUS
    <2>. QED BY <2>1, ListIs
<1>4. Reopened(TextEnd)
    BY <1>1, <1>3, ExtendAdds
<1>5. Agree(TextEnd) /\ TokensWhole' /\ Laid'
    BY <1>1, <1>2, <1>4 DEF Reopened, Agree, TokensWhole, Laid
<1>. QED BY <1>1, <1>3, <1>5, ExtendExact

(* ... and cuts it back.                                                   *)
LEMMA CutExact ==
    ASSUME Exact, Inv', Book, frames # <<>>, bounds' = bounds, ~recordLinks, NEW m \in marks, Rollback(m)
    PROVE  Exact' /\ Laid'
<1>1. DOMAIN bounds = {}
    BY Untokened
<1>2. Reverted(m)
    BY RollbackCuts DEF Exact
<1>3. Agree(m) /\ TokensWhole' /\ Laid'
    BY <1>1, <1>2 DEF Reverted, Agree, TokensWhole, Laid
<1>. QED BY <1>3, RollbackExact

LEMMA LeaveExact == ASSUME Exact, Laid, Book, ~recordLinks, Leave PROVE Exact' /\ Laid'
<1>1. entering # NoNode /\ Rollback(entering.mark) /\ bounds' = bounds
    BY DEF Leave
<1>2. frames # <<>> /\ Standing(frames, entering, Base(committed), marks, text)
    BY <1>1 DEF Book
<1>3. PICK m : m = entering.mark
    OBVIOUS
<1>4. m \in marks
    BY <1>1, <1>2, <1>3, WalkLeaves
<1>5. Inv'
    BY LeaveKeeps DEF Exact
<1>. QED BY <1>1, <1>2, <1>3, <1>4, <1>5, CutExact

LEMMA AscendExact == ASSUME Exact, Laid, Book, ~recordLinks, Ascend PROVE Exact' /\ Laid'
<1>1. frames # <<>> /\ entering = NoNode /\ Len(frames) > 1 /\ Rollback(Top.mark) /\ bounds' = bounds
    BY DEF Ascend, Walking
<1>2. Standing(frames, NoNode, Base(committed), marks, text)
    BY <1>1 DEF Book
<1>3. PICK m : m = frames[Len(frames)].mark
    OBVIOUS
<1>4. m \in marks /\ m = Top.mark
    BY <1>1, <1>2, <1>3, WalkAscends DEF Top, Last
<1>5. Inv'
    BY AscendKeeps DEF Exact
<1>. QED BY <1>1, <1>4, <1>5, CutExact

(* A token is recorded where the text ended, so that it is whole in the    *)
(* text it makes.                                                          *)
LEMMA SyncOnExact == ASSUME Exact, Laid, Book, SyncOn PROVE Exact' /\ Laid'
<1>1. Inv /\ Inv'
    BY SyncOnKeeps DEF Exact
<1>2. PICK next : next = ids[Len(committed) + 1]
    OBVIOUS
<1>3. PICK n : n = Len(Spellings[next])
    OBVIOUS
<1>4. /\ Extend(Spellings[next])
      /\ bounds' = IF ByTokens THEN Put(bounds, TextEnd, [id |-> next, length |-> n]) ELSE bounds
    BY <1>2, <1>3 DEF SyncOn, TextEnd
<1>5. next \in Tokens
    <2>1. committed \in Seq(Pairs) /\ Held(committed) \in Seq(Tokens) /\ Len(Held(committed)) = Len(committed)
        BY HeldIs DEF Book, Recorded
    <2>2. ids \in Seq(Tokens)
        BY DEF Book
    <2>3. Len(committed) < Len(ids) /\ Len(committed) \in Nat /\ Len(ids) \in Nat
        BY <2>1, <2>2, StrictIs, LenProperties DEF SyncOn
    <2>4. Len(committed) + 1 \in 1..Len(ids)
        BY <2>3
    <2>. QED BY <1>2, <2>2, <2>4, ElementOfSeq
<1>6. Spellings[next] \in Seq(Letters) /\ IsList(Spellings[next]) /\ n \in Nat \ {0}
    <2>1. Spellings[next] \in Seq(Letters) /\ IsList(Spellings[next]) /\ Spellings[next] # <<>>
        BY <1>5, SpellingIs, SpellingsAssumption
    <2>. QED BY <1>3, <2>1, EmptySeq, LenProperties
<1>7. Reopened(TextEnd)
    BY <1>1, <1>4, <1>6, ExtendAdds
<1>8. TextEnd' = TextEnd + n /\ TextEnd \in Nat
    <2>1. text' = text \o Spellings[next]
        BY <1>4 DEF Extend
    <2>2. text \in Seq(ToSet(text))
        BY <1>1 DEF Inv, Settled, Shape, Given, IsList
    <2>3. PICK chars : chars = ToSet(text) \cup Letters
        OBVIOUS
    <2>4. ToSet(text) \subseteq chars /\ Letters \subseteq chars
        BY <2>3
    <2>5. text \in Seq(chars) /\ Spellings[next] \in Seq(chars)
        BY <1>6, <2>2, <2>4, SeqMonotonic
    <2>6. Len(text \o Spellings[next]) = Len(text) + Len(Spellings[next]) /\ Len(text) \in Nat
        BY <2>5, ConcatProperties, LenProperties
    <2>. QED BY <1>3, <2>1, <2>6 DEF TextEnd
<1>9. Laid'
    <2>1. CASE ~ByTokens
        BY <1>4, <2>1, Untokened DEF Laid
    <2>2. CASE ByTokens
        <3>1. PICK end, next2 : end = TextEnd /\ next2 = [id |-> next, length |-> n]
            OBVIOUS
        <3>2. next2.length = n /\ bounds' = Put(bounds, end, next2) /\ end \in Nat /\ TextEnd' = end + n
            BY <1>4, <1>8, <2>2, <3>1
        <3>3. DOMAIN bounds' = DOMAIN bounds \cup {end} /\ bounds'[end].length = n
              /\ \A i \in DOMAIN bounds : i # end => bounds'[i] = bounds[i]
            BY <3>2 DEF Put
        <3>4. \A i \in DOMAIN bounds : /\ i \in Nat /\ bounds[i].length \in Nat \ {0} /\ i + bounds[i].length <= end
                                       /\ \A j \in DOMAIN bounds : i < j => i + bounds[i].length <= j
            BY <3>1 DEF Laid
        <3>5. \A i \in DOMAIN bounds : i < end /\ i # end
            BY <3>2, <3>4
        <3>6. ASSUME NEW i \in DOMAIN bounds'
              PROVE  /\ i \in Nat /\ bounds'[i].length \in Nat \ {0} /\ i + bounds'[i].length <= TextEnd'
                     /\ \A j \in DOMAIN bounds' : i < j => i + bounds'[i].length <= j
            <4>1. CASE i = end
                <5>1. \A j \in DOMAIN bounds' : ~(i < j)
                    BY <3>2, <3>3, <3>4, <3>5, <4>1
                <5>. QED BY <1>6, <3>2, <3>3, <4>1, <5>1
            <4>2. CASE i # end
                <5>1. i \in DOMAIN bounds /\ bounds'[i] = bounds[i]
                    BY <3>3, <4>2
                <5>2. i + bounds[i].length <= TextEnd'
                    BY <1>6, <3>2, <3>4, <5>1
                <5>3. \A j \in DOMAIN bounds' : j \in DOMAIN bounds \/ j = end
                    BY <3>3
                <5>. QED BY <3>4, <5>1, <5>2, <5>3
            <4>. QED BY <4>1, <4>2
        <3>. QED BY <3>6 DEF Laid
    <2>. QED BY <2>1, <2>2
<1>10. TokensWhole'
    BY <1>9 DEF Laid, TokensWhole
<1>11. Agree(TextEnd)
    <2>1. PICK end : end = TextEnd
        OBVIOUS
    <2>2. \A i \in 0..(end - 1) : /\ i \in DOMAIN bounds' <=> i \in DOMAIN bounds
                                  /\ i \in DOMAIN bounds => bounds'[i] = bounds[i]
        <3>1. \A i \in 0..(end - 1) : i # end
            BY <1>8, <2>1
        <3>. QED BY <1>4, <2>1, <3>1 DEF Put
    <2>3. end \in 0..TextEnd /\ end \in 0..TextEnd' /\ \A k \in 1..end : text'[k] = text[k]
        BY <1>6, <1>7, <1>8, <2>1 DEF Reopened
    <2>4. Agree(end)
        BY <1>8, <2>1, <2>2, <2>3 DEF Agree
    <2>. QED BY <2>1, <2>4
<1>. QED BY <1>1, <1>4, <1>6, <1>9, <1>10, <1>11, ExtendExact

(* A cut is where a token began, so that it cuts none in two.              *)
LEMMA SyncBackExact == ASSUME Exact, Laid, Book, ~recordLinks, SyncBack PROVE Exact' /\ Laid'
<1>1. Inv /\ Inv'
    BY SyncBackKeeps DEF Exact
<1>2. PICK n, N : n = Kept /\ N = Len(committed)
    OBVIOUS
<1>3. n \in Nat /\ N \in Nat /\ n < N
    <2>1. committed \in Seq(Pairs) /\ Held(committed) \in Seq(Tokens) /\ ids \in Seq(Tokens) /\ N \in Nat
        BY <1>2, HeldIs, LenProperties DEF Book, Recorded
    <2>2. PICK h : h = Held(committed)
        OBVIOUS
    <2>3. n = Len(LongestCommonPrefix({h, ids}))
        BY <1>2, <2>2 DEF Kept
    <2>4. n \in Nat
        BY <2>1, <2>2, <2>3, LongestIs
    <2>. QED BY <1>2, <2>1, <2>4 DEF SyncBack
<1>4. PICK cut : cut = CutAt(n)
    OBVIOUS
<1>5. cut = CutOf(committed, n) /\ Rollback(cut) /\ bounds' = Purged(cut)
    BY <1>2, <1>4 DEF SyncBack, CutAt, CutOf
<1>6. n \in 0..Len(committed) /\ n + 1 \in 1..Len(committed) /\ (n + 1) - 1 = n
    BY <1>2, <1>3
<1>7. cut \in marks
    <2>1. PICK begins : begins = DOMAIN bounds
        OBVIOUS
    <2>2. Recorded(committed, begins, marks, text, ByTokens)
        BY <2>1 DEF Book
    <2>. QED BY <1>5, <1>6, <2>2, CutsAre
<1>8. ByTokens => cut \in DOMAIN bounds
    BY <1>5, <1>6 DEF Book, Recorded
<1>9. Reverted(cut)
    BY <1>1, <1>5, <1>7, RollbackCuts
<1>10. /\ TextEnd' = cut /\ cut \in Nat
       /\ \A i : i \in DOMAIN bounds' <=> i \in DOMAIN bounds /\ i < cut
       /\ \A i \in DOMAIN bounds' : bounds'[i] = bounds[i]
    BY <1>5, <1>9 DEF Reverted, Purged
<1>11. \A i \in DOMAIN bounds' : i + bounds[i].length <= cut
    BY <1>8, <1>10, Untokened DEF Laid
<1>12. Laid'
    <2>1. PICK end : end = TextEnd'
        OBVIOUS
    <2>2. ASSUME NEW i \in DOMAIN bounds'
          PROVE  /\ i \in Nat /\ bounds'[i].length \in Nat \ {0} /\ i + bounds'[i].length <= TextEnd'
                 /\ \A j \in DOMAIN bounds' : i < j => i + bounds'[i].length <= j
        BY <1>10, <1>11 DEF Laid
    <2>. QED BY <2>2 DEF Laid
<1>13. TokensWhole'
    BY <1>12 DEF Laid, TokensWhole
<1>14. Agree(cut)
    <2>1. \A i \in 0..(cut - 1) : i < cut
        BY <1>10
    <2>2. cut \in 0..TextEnd /\ cut \in 0..TextEnd' /\ \A k \in 1..cut : text'[k] = text[k]
        BY <1>9 DEF Reverted
    <2>. QED BY <1>10, <2>1, <2>2 DEF Agree
<1>. QED BY <1>1, <1>5, <1>7, <1>12, <1>13, <1>14, RollbackExact

LEMMA CursorExact == ASSUME Exact, Laid, Book, ~recordLinks, CursorNext PROVE Exact' /\ Laid' /\ recordLinks' = recordLinks
<1>1. CASE Kernel
    BY <1>1, KernelExact DEF Kernel, Close, Predict, AwaitScan, SkipEmpty, Jump, CompleteAll, Scan, Return, client, given
<1>2. CASE Assign \/ (\E what \in {"accepts", "mask"} : Ask(what)) \/ Accepts \/ MaskByTokens \/ StartWalk \/ Deeper \/ EndWalk
    <2>1. UNCHANGED vars
        BY <1>2 DEF Assign, Ask, Accepts, MaskByTokens, StartWalk, Deeper, EndWalk
    <2>. QED BY <2>1, StillExact DEF vars, given
<1>3. CASE SyncBack
    BY <1>3, SyncBackExact DEF SyncBack, Rollback
<1>4. CASE SyncOn
    BY <1>4, SyncOnExact DEF SyncOn, Extend
<1>5. ASSUME NEW char, Descend(char) PROVE Exact' /\ Laid' /\ recordLinks' = recordLinks
    BY <1>5, DescendExact DEF Descend, Extend
<1>6. CASE Leave
    BY <1>6, LeaveExact DEF Leave, Rollback
<1>7. CASE Ascend
    BY <1>7, AscendExact DEF Ascend, Rollback
<1>. QED BY <1>1, <1>2, <1>3, <1>4, <1>5, <1>6, <1>7 DEF CursorNext

LEMMA StartExact == Start => WholeExact
<1>. SUFFICES ASSUME Start PROVE WholeExact
    OBVIOUS
<1>1. Exact /\ bounds = <<>> /\ (user = "cursor" => Book)
    BY InitExact, StartHolds DEF Start, Init, Whole
<1>2. DOMAIN <<>> = {}
    OBVIOUS
<1>3. user = "cursor" => ~recordLinks
    BY DEF Start
<1>. QED BY <1>1, <1>2, <1>3 DEF WholeExact, Serving, Laid

LEMMA StepExact == WholeExact /\ [Step]_<<vars, cursor, user>> => WholeExact'
<1>. SUFFICES ASSUME WholeExact, [Step]_<<vars, cursor, user>> PROVE Exact' /\ Serving'
    BY DEF WholeExact
<1>1. Exact /\ Inv /\ user' = user /\ Whole
    BY DEF WholeExact, Step, Exact, Serving, Whole
<1>2. (user = "cursor" => Book)' /\ Inv'
    BY <1>1, StepWhole DEF Whole
<1>3. CASE user # "cursor" /\ [Next]_vars
    BY <1>1, <1>3, NextExact DEF WholeExact, Serving
<1>4. CASE user = "cursor" /\ CursorNext
    BY <1>1, <1>2, <1>4, CursorExact DEF WholeExact, Serving
<1>5. CASE user = "cursor" /\ UNCHANGED <<vars, cursor>>
    <2>1. Exact' /\ Laid' /\ recordLinks' = recordLinks
        BY <1>1, <1>5, StillExact DEF WholeExact, Serving, vars, given
    <2>. QED BY <1>1, <1>2, <1>5, <2>1 DEF WholeExact, Serving
<1>. QED BY <1>3, <1>4, <1>5 DEF Step

(* Whoever a chart serves, when no call runs it accepts what the grammar   *)
(* derives - of characters and of the tokens that begin among them - with  *)
(* no literal spelled across a place where the text has ended, and no      *)
(* more, after every _sync, every walk of the trie and every rollback.     *)
THEOREM ChartsRecognise == ChartSpec => []Recognises
<1>1. WholeExact => Recognises
    BY ExactRecognises DEF WholeExact
<1>. QED BY <1>1, StartExact, StepExact, PTL DEF ChartSpec

(* Over the tables viable_prefix requires, where no literal is left whole, *)
(* a cursor's chart accepts what a parse of its text anew would; and so    *)
(* does the parse of a whole text, over any tables.                        *)
THEOREM ChartsRecogniseAnew == ChartSpec => []RecognisesAnew
<1>1. WholeExact => RecognisesAnew
    BY ExactRecognises, BreaksIdle DEF WholeExact, Recognises, RecognisesAnew
<1>. QED BY <1>1, StartExact, StepExact, PTL DEF ChartSpec
=============================================================================
