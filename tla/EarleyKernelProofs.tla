------------------------- MODULE EarleyKernelProofs -------------------------
(***************************************************************************)
(* Proofs about EarleyKernel, for any tables, texts and pieces.  First     *)
(* what the loop and the recognizer leave out on a promise: seeds are      *)
(* filed without asking whether they are there, and a memoised Leo top is  *)
(* used without climbing again, also in a chart that was cut back.  Then   *)
(* what the chart is for: it accepts the texts EarleyLanguage derives from *)
(* the grammar, and no others.  Nothing is filed that is not derivable, and*)
(* whatever is derivable and not filed - an arm its gate drops, an item a  *)
(* Leo jump passes by - is accounted for.                                  *)
(***************************************************************************)
EXTENDS EarleyLanguage, DataInduction

(* Lists of items: what is selected, and what is appended unless there.    *)
AmongBy(K, list, T, N) ==
    /\ Among(list, T) = K[N] /\ K[0] = <<>>
    /\ \A n \in 0..(N - 1) : K[n + 1] = IF list[n + 1] \in T THEN Append(K[n], list[n + 1]) ELSE K[n]

LEMMA AmongUnfolds ==
    ASSUME NEW S, NEW list \in Seq(S), NEW T, NEW N \in Nat, N = Len(list)
    PROVE  \E K : AmongBy(K, list, T, N)
<1>. DEFINE Recurs(F) == F = [n \in 0..Len(list) |-> IF n = 0 THEN <<>>
                                ELSE IF list[n] \in T THEN Append(F[n - 1], list[n]) ELSE F[n - 1]]
            K == CHOOSE F : Recurs(F)
            g == [p \in (1..N) \X Seq(S) |-> IF list[p[1]] \in T THEN Append(p[2], list[p[1]]) ELSE p[2]]
<1>1. \A n \in 1..N : list[n] \in S
    BY ElementOfSeq
<1>2. g \in [(1..N) \X Seq(S) -> Seq(S)]
    <2>1. ASSUME NEW n \in 1..N, NEW s \in Seq(S)
          PROVE  (IF list[n] \in T THEN Append(s, list[n]) ELSE s) \in Seq(S)
        BY <1>1, AppendProperties
    <2>. QED BY <2>1
<1>3. \A n \in 1..N, s \in Seq(S) : g[<<n, s>>] = IF list[n] \in T THEN Append(s, list[n]) ELSE s
    OBVIOUS
<1>4. <<>> \in Seq(S)
    OBVIOUS
<1>. HIDE DEF g
<1>4a. Folds(Seq(S), N, <<>>, g) # {}
    BY <1>2, <1>4, Recursion
<1>5. PICK F \in [0..N -> Seq(S)] : F[0] = <<>> /\ \A n \in 1..N : F[n] = g[<<n, F[n - 1]>>]
    BY <1>4a DEF Folds
<1>6. ASSUME NEW n \in 0..N
      PROVE  F[n] = IF n = 0 THEN <<>> ELSE IF list[n] \in T THEN Append(F[n - 1], list[n]) ELSE F[n - 1]
    <2>1. CASE n = 0
        BY <1>5, <2>1
    <2>2. CASE n # 0
        <3>1. n \in 1..N /\ n - 1 \in 0..N
            BY <2>2
        <3>2. F[n - 1] \in Seq(S)
            BY <1>5, <3>1, Zenon
        <3>3. F[n] = g[<<n, F[n - 1]>>]
            BY <1>5, <3>1, Zenon
        <3>. QED BY <1>3, <2>2, <3>1, <3>2, <3>3
    <2>. QED BY <2>1, <2>2
<1>7. F = [n \in 0..N |-> F[n]]
    BY <1>5
<1>8. F = [n \in 0..N |-> IF n = 0 THEN <<>> ELSE IF list[n] \in T THEN Append(F[n - 1], list[n]) ELSE F[n - 1]]
    BY <1>6, <1>7, Zenon
<1>9. Recurs(F)
    BY <1>8, Zenon
<1>10. Recurs(K) /\ Among(list, T) = K[N]
    BY <1>9, Zenon DEF Among
<1>. HIDE DEF K
<1>11. \A n \in 0..N : K[n] = IF n = 0 THEN <<>> ELSE IF list[n] \in T THEN Append(K[n - 1], list[n]) ELSE K[n - 1]
    BY <1>10, Zenon
<1>12. K[0] = <<>>
    BY <1>11
<1>13. ASSUME NEW n \in 0..(N - 1)
       PROVE  K[n + 1] = IF list[n + 1] \in T THEN Append(K[n], list[n + 1]) ELSE K[n]
    <2>1. n + 1 \in 0..N /\ n + 1 # 0 /\ (n + 1) - 1 = n
        OBVIOUS
    <2>. QED BY <1>11, <2>1
<1>14. AmongBy(K, list, T, N)
    BY <1>10, <1>12, <1>13 DEF AmongBy
<1>. QED BY <1>14

LEMMA AmongIs ==
    ASSUME NEW S, NEW list \in Seq(S), NEW T
    PROVE  /\ Among(list, T) \in Seq(S) /\ ToSet(Among(list, T)) = ToSet(list) \cap T
           /\ IsInjective(list) => IsInjective(Among(list, T))
<1>1. PICK N \in Nat : N = Len(list)
    BY LenProperties
<1>1a. PICK K : AmongBy(K, list, T, N)
    BY <1>1, AmongUnfolds, Zenon
<1>2. /\ Among(list, T) = K[N] /\ K[0] = <<>>
      /\ \A n \in 0..(N - 1) : K[n + 1] = IF list[n + 1] \in T THEN Append(K[n], list[n + 1]) ELSE K[n]
    BY <1>1a DEF AmongBy
<1>3. DOMAIN list = 1..N /\ \A n \in 1..N : list[n] \in S
    BY <1>1, LenProperties, ElementOfSeq
<1>. DEFINE Upto(j) == {list[i] : i \in {k \in 1..j : list[k] \in T}}
            Good == {j \in 0..N : /\ K[j] \in Seq(S) /\ ToSet(K[j]) = Upto(j)
                                  /\ IsInjective(list) => IsInjective(K[j])}
<1>4. 0 \in Good
    <2>1. <<>> \in Seq(S) /\ ToSet(<<>>) = {} /\ Upto(0) = {} /\ IsInjective(<<>>)
        BY DEF ToSet, IsInjective
    <2>2. 0 \in 0..N
        OBVIOUS
    <2>. QED BY <1>2, <2>1, <2>2
<1>5. ASSUME NEW j \in 0..(N - 1), j \in Good PROVE j + 1 \in Good
    <2>1. /\ K[j] \in Seq(S) /\ ToSet(K[j]) = Upto(j)
          /\ IsInjective(list) => IsInjective(K[j])
        BY <1>5
    <2>2. j + 1 \in 1..N /\ j + 1 \in 0..N /\ list[j + 1] \in S
        BY <1>3
    <2>3. \A k \in 1..(j + 1) : k = j + 1 \/ k \in 1..j
        OBVIOUS
    <2>4. j + 1 \in 1..(j + 1) /\ \A k \in 1..j : k \in 1..(j + 1)
        OBVIOUS
    <2>5. PICK s, x : s = K[j] /\ x = list[j + 1]
        OBVIOUS
    <2>8. s \in Seq(S) /\ x \in S
        BY <2>1, <2>2, <2>5
    <2>6. CASE x \in T
        <3>1. K[j + 1] = Append(s, x)
            BY <1>2, <2>5, <2>6
        <3>2. Upto(j + 1) = Upto(j) \cup {x}
            BY <2>3, <2>4, <2>5, <2>6
        <3>3. ASSUME IsInjective(list) PROVE x \notin Upto(j)
            <4>1. \A k \in 1..j : k # j + 1 /\ k \in 1..N
                OBVIOUS
            <4>. QED BY <1>3, <2>2, <2>5, <3>3, <4>1 DEF IsInjective
        <3>. HIDE DEF Upto
        <3>4. Append(s, x) \in Seq(S) /\ ToSet(Append(s, x)) = ToSet(s) \cup {x}
            BY <2>8, Queued, AppendProperties
        <3>5. ASSUME IsInjective(list) PROVE IsInjective(Append(s, x))
            <4>1. IsInjective(s) /\ x \notin ToSet(s)
                BY <2>1, <2>5, <3>3, <3>5
            <4>. QED BY <2>8, <4>1, Lined
        <3>6. ToSet(Append(s, x)) = Upto(j + 1)
            BY <2>1, <2>5, <3>2, <3>4, Zenon
        <3>. QED BY <2>2, <3>1, <3>4, <3>5, <3>6
    <2>7. CASE x \notin T
        <3>1. K[j + 1] = K[j]
            BY <1>2, <2>5, <2>7
        <3>2. Upto(j + 1) = Upto(j)
            BY <2>3, <2>4, <2>5, <2>7
        <3>3. ToSet(K[j + 1]) = Upto(j + 1)
            BY <2>1, <3>1, <3>2, Zenon
        <3>. HIDE DEF Upto
        <3>. QED BY <2>1, <2>2, <3>1, <3>3
    <2>. QED BY <2>6, <2>7
<1>6. N \in Good
    <2>. HIDE DEF Good
    <2>. QED BY <1>4, <1>5, Upwards
<1>7. Upto(N) = ToSet(list) \cap T
    BY <1>3 DEF ToSet
<1>. QED BY <1>2, <1>6, <1>7

LEMMA FiledUnfolds ==
    ASSUME NEW S, NEW col \in Seq(S), NEW new \in Seq(S), NEW N \in Nat, N = Len(new)
    PROVE  \E K : /\ Filed(col, new) = K[N] /\ K[0] = col
                  /\ \A n \in 0..(N - 1) : K[n + 1] = IF new[n + 1] \in ToSet(K[n]) THEN K[n] ELSE Append(K[n], new[n + 1])
<1>. DEFINE Recurs(F) == F = [n \in 0..Len(new) |-> IF n = 0 THEN col
                                ELSE IF new[n] \in ToSet(F[n - 1]) THEN F[n - 1] ELSE Append(F[n - 1], new[n])]
            K == CHOOSE F : Recurs(F)
            g == [p \in (1..N) \X Seq(S) |-> IF new[p[1]] \in ToSet(p[2]) THEN p[2] ELSE Append(p[2], new[p[1]])]
<1>1. \A n \in 1..N : new[n] \in S
    BY ElementOfSeq
<1>2. g \in [(1..N) \X Seq(S) -> Seq(S)]
    <2>1. ASSUME NEW n \in 1..N, NEW s \in Seq(S)
          PROVE  (IF new[n] \in ToSet(s) THEN s ELSE Append(s, new[n])) \in Seq(S)
        BY <1>1, AppendProperties
    <2>. QED BY <2>1
<1>3. \A n \in 1..N, s \in Seq(S) : g[<<n, s>>] = IF new[n] \in ToSet(s) THEN s ELSE Append(s, new[n])
    OBVIOUS
<1>. HIDE DEF g
<1>4a. Folds(Seq(S), N, col, g) # {}
    BY <1>2, Recursion
<1>5. PICK F \in [0..N -> Seq(S)] : F[0] = col /\ \A n \in 1..N : F[n] = g[<<n, F[n - 1]>>]
    BY <1>4a DEF Folds
<1>6. ASSUME NEW n \in 0..N
      PROVE  F[n] = IF n = 0 THEN col ELSE IF new[n] \in ToSet(F[n - 1]) THEN F[n - 1] ELSE Append(F[n - 1], new[n])
    <2>1. CASE n = 0
        BY <1>5, <2>1
    <2>2. CASE n # 0
        <3>1. n \in 1..N /\ n - 1 \in 0..N
            BY <2>2
        <3>2. F[n - 1] \in Seq(S)
            BY <1>5, <3>1, Zenon
        <3>3. F[n] = g[<<n, F[n - 1]>>]
            BY <1>5, <3>1, Zenon
        <3>. QED BY <1>3, <2>2, <3>1, <3>2, <3>3
    <2>. QED BY <2>1, <2>2
<1>7. F = [n \in 0..N |-> F[n]]
    BY <1>5
<1>8. F = [n \in 0..N |-> IF n = 0 THEN col ELSE IF new[n] \in ToSet(F[n - 1]) THEN F[n - 1] ELSE Append(F[n - 1], new[n])]
    BY <1>6, <1>7, Zenon
<1>9. Recurs(F)
    BY <1>8, Zenon
<1>10. Recurs(K) /\ Filed(col, new) = K[N]
    BY <1>9, Zenon DEF Filed
<1>. HIDE DEF K
<1>11. \A n \in 0..N : K[n] = IF n = 0 THEN col ELSE IF new[n] \in ToSet(K[n - 1]) THEN K[n - 1] ELSE Append(K[n - 1], new[n])
    BY <1>10, Zenon
<1>12. K[0] = col
    BY <1>11
<1>13. ASSUME NEW n \in 0..(N - 1)
       PROVE  K[n + 1] = IF new[n + 1] \in ToSet(K[n]) THEN K[n] ELSE Append(K[n], new[n + 1])
    <2>1. n + 1 \in 0..N /\ n + 1 # 0 /\ (n + 1) - 1 = n
        OBVIOUS
    <2>. QED BY <1>11, <2>1
<1>. QED BY <1>10, <1>12, <1>13

LEMMA FiledIs ==
    ASSUME NEW S, NEW col \in Seq(S), NEW new \in Seq(S)
    PROVE  /\ Filed(col, new) \in Seq(S) /\ ToSet(Filed(col, new)) = ToSet(col) \cup ToSet(new)
           /\ Len(col) <= Len(Filed(col, new))
           /\ \A i \in 1..Len(col) : Filed(col, new)[i] = col[i]
           /\ IsInjective(col) => IsInjective(Filed(col, new))
<1>1. PICK N \in Nat : N = Len(new)
    BY LenProperties
<1>2. PICK K : /\ Filed(col, new) = K[N] /\ K[0] = col
               /\ \A n \in 0..(N - 1) : K[n + 1] = IF new[n + 1] \in ToSet(K[n]) THEN K[n] ELSE Append(K[n], new[n + 1])
    BY <1>1, FiledUnfolds
<1>3. DOMAIN new = 1..N /\ \A n \in 1..N : new[n] \in S
    BY <1>1, LenProperties, ElementOfSeq
<1>. DEFINE Upto(j) == {new[i] : i \in 1..j}
            Begins(s) == Len(col) <= Len(s) /\ \A i \in 1..Len(col) : s[i] = col[i]
            Good == {j \in 0..N : /\ K[j] \in Seq(S) /\ ToSet(K[j]) = ToSet(col) \cup Upto(j)
                                  /\ Begins(K[j])
                                  /\ IsInjective(col) => IsInjective(K[j])}
<1>4. 0 \in Good
    <2>1. Upto(0) = {} /\ 0 \in 0..N
        OBVIOUS
    <2>2. Len(col) <= Len(col)
        BY LenProperties
    <2>. QED BY <1>2, <2>1, <2>2
<1>5. ASSUME NEW j \in 0..(N - 1), j \in Good PROVE j + 1 \in Good
    <2>1. /\ K[j] \in Seq(S) /\ ToSet(K[j]) = ToSet(col) \cup Upto(j) /\ Begins(K[j])
          /\ IsInjective(col) => IsInjective(K[j])
        BY <1>5
    <2>2. j + 1 \in 1..N /\ j + 1 \in 0..N /\ new[j + 1] \in S
        BY <1>3
    <2>5. PICK s, x : s = K[j] /\ x = new[j + 1]
        OBVIOUS
    <2>3. Upto(j + 1) = Upto(j) \cup {x}
        <3>1. \A k \in 1..(j + 1) : k = j + 1 \/ k \in 1..j
            OBVIOUS
        <3>2. j + 1 \in 1..(j + 1) /\ \A k \in 1..j : k \in 1..(j + 1)
            OBVIOUS
        <3>. QED BY <2>5, <3>1, <3>2
    <2>. HIDE DEF Upto
    <2>6. CASE x \in ToSet(s)
        <3>1. K[j + 1] = K[j]
            BY <1>2, <2>5, <2>6
        <3>2. ToSet(K[j + 1]) = ToSet(col) \cup Upto(j + 1)
            BY <2>1, <2>3, <2>5, <2>6, <3>1
        <3>. QED BY <2>1, <2>2, <3>1, <3>2
    <2>7. CASE x \notin ToSet(s)
        <3>1. K[j + 1] = Append(s, x)
            BY <1>2, <2>5, <2>7
        <3>4. Append(s, x) \in Seq(S) /\ ToSet(Append(s, x)) = ToSet(s) \cup {x}
            BY <2>1, <2>2, <2>5, Queued, AppendProperties
        <3>5. IsInjective(col) => IsInjective(Append(s, x))
            BY <2>1, <2>2, <2>5, <2>7, Lined
        <3>6. ToSet(Append(s, x)) = ToSet(col) \cup Upto(j + 1)
            BY <2>1, <2>3, <2>5, <3>4
        <3>7. Begins(Append(s, x))
            <4>1. s \in Seq(S) /\ x \in S /\ Len(s) \in Nat /\ Len(col) \in Nat /\ Begins(s)
                BY <2>1, <2>2, <2>5, LenProperties
            <4>2. Len(Append(s, x)) = Len(s) + 1 /\ \A i \in 1..Len(s) : Append(s, x)[i] = s[i]
                BY <4>1, AppendProperties
            <4>. QED BY <4>1, <4>2
        <3>. HIDE DEF Begins
        <3>. QED BY <2>2, <3>1, <3>4, <3>5, <3>6, <3>7
    <2>. QED BY <2>6, <2>7
<1>6. N \in Good
    <2>. HIDE DEF Good
    <2>. QED BY <1>4, <1>5, Upwards
<1>7. Upto(N) = ToSet(new)
    BY <1>3 DEF ToSet
<1>. QED BY <1>2, <1>6, <1>7

(* What is advanced, item by item.                                         *)
LEMMA AdvancedIs ==
    ASSUME NEW S, NEW T, NEW items \in Seq(S), \A x \in ToSet(items) : Advance(x) \in T
    PROVE  /\ Advanced(items) \in Seq(T)
           /\ \A y \in ToSet(Advanced(items)) : \E x \in ToSet(items) : y = Advance(x)
<1>1. PICK N \in Nat : N = Len(items) /\ DOMAIN items = 1..N
    BY LenProperties
<1>2. Advanced(items) = [k \in 1..N |-> Advance(items[k])]
    BY <1>1 DEF Advanced
<1>3. \A k \in 1..N : items[k] \in ToSet(items)
    BY <1>1 DEF ToSet
<1>. HIDE DEF Advance
<1>4. \A k \in 1..N : Advance(items[k]) \in T
    BY <1>3
<1>5. Advanced(items) \in Seq(T)
    BY <1>2, <1>4, IsASeq
<1>6. ASSUME NEW y \in ToSet(Advanced(items)) PROVE \E x \in ToSet(items) : y = Advance(x)
    <2>1. PICK k \in 1..N : y = Advance(items[k])
        BY <1>2 DEF ToSet
    <2>. QED BY <1>3, <2>1
<1>. QED BY <1>5, <1>6

(* Two lists without repetitions that share nothing, one after the other.  *)
LEMMA Joined ==
    ASSUME NEW S, NEW a \in Seq(S), NEW b \in Seq(S)
    PROVE  /\ a \o b \in Seq(S) /\ ToSet(a \o b) = ToSet(a) \cup ToSet(b)
           /\ Len(a \o b) = Len(a) + Len(b)
           /\ IsInjective(a) /\ IsInjective(b) /\ ToSet(a) \cap ToSet(b) = {} => IsInjective(a \o b)
<1>1. PICK M \in Nat, N \in Nat : M = Len(a) /\ N = Len(b) /\ DOMAIN a = 1..M /\ DOMAIN b = 1..N
    BY LenProperties
<1>2. /\ a \o b \in Seq(S) /\ Len(a \o b) = M + N
      /\ \A i \in 1..(M + N) : (a \o b)[i] = IF i <= M THEN a[i] ELSE b[i - M]
    BY <1>1, ConcatProperties
<1>3. PICK c : c = a \o b
    OBVIOUS
<1>4. DOMAIN c = 1..(M + N)
    BY <1>2, <1>3, LenProperties
<1>5. ASSUME NEW i \in 1..M PROVE c[i] = a[i] /\ a[i] \in ToSet(a)
    <2>1. i \in 1..(M + N) /\ i <= M
        OBVIOUS
    <2>2. a[i] \in ToSet(a)
        BY <1>1 DEF ToSet
    <2>. QED BY <1>2, <1>3, <2>1, <2>2
<1>6. ASSUME NEW i \in (M + 1)..(M + N) PROVE c[i] = b[i - M] /\ i - M \in 1..N /\ b[i - M] \in ToSet(b)
    <2>1. i \in 1..(M + N) /\ ~(i <= M) /\ i - M \in 1..N
        OBVIOUS
    <2>2. b[i - M] \in ToSet(b)
        BY <1>1, <2>1 DEF ToSet
    <2>. QED BY <1>2, <1>3, <2>1, <2>2
<1>7. \A i \in 1..(M + N) : i \in 1..M \/ i \in (M + 1)..(M + N)
    OBVIOUS
<1>8. ToSet(c) = ToSet(a) \cup ToSet(b)
    <2>1. \A i \in 1..(M + N) : c[i] \in ToSet(a) \cup ToSet(b)
        BY <1>5, <1>6, <1>7
    <2>2. \A i \in 1..M : i \in 1..(M + N) /\ c[i] = a[i]
        BY <1>5
    <2>3. \A i \in 1..N : i + M \in 1..(M + N) /\ c[i + M] = b[i]
        BY <1>6
    <2>4. \A x : x \in ToSet(c) <=> \E i \in 1..(M + N) : c[i] = x
        BY <1>4 DEF ToSet
    <2>5. \A x : x \in ToSet(a) <=> \E i \in 1..M : a[i] = x
        BY <1>1 DEF ToSet
    <2>6. \A x : x \in ToSet(b) <=> \E i \in 1..N : b[i] = x
        BY <1>1 DEF ToSet
    <2>7. ToSet(c) \subseteq ToSet(a) \cup ToSet(b)
        BY <2>1, <2>4
    <2>8. ToSet(a) \subseteq ToSet(c)
        BY <2>2, <2>4, <2>5
    <2>9. ToSet(b) \subseteq ToSet(c)
        BY <2>3, <2>4, <2>6
    <2>. QED BY <2>7, <2>8, <2>9
<1>9. ASSUME IsInjective(a), IsInjective(b), ToSet(a) \cap ToSet(b) = {} PROVE IsInjective(c)
    <2>1. \A i, j \in 1..M : a[i] = a[j] => i = j
        BY <1>1, <1>9 DEF IsInjective
    <2>2. \A i, j \in 1..N : b[i] = b[j] => i = j
        BY <1>1, <1>9 DEF IsInjective
    <2>3. ASSUME NEW i \in 1..(M + N), NEW j \in 1..(M + N), c[i] = c[j] PROVE i = j
        <3>1. CASE i \in 1..M /\ j \in 1..M
            BY <1>5, <2>1, <2>3, <3>1
        <3>2. CASE i \in (M + 1)..(M + N) /\ j \in (M + 1)..(M + N)
            <4>1. i - M = j - M
                BY <1>6, <2>2, <2>3, <3>2
            <4>. QED BY <4>1
        <3>3. CASE i \in 1..M /\ j \in (M + 1)..(M + N)
            BY <1>5, <1>6, <1>9, <2>3, <3>3
        <3>4. CASE i \in (M + 1)..(M + N) /\ j \in 1..M
            BY <1>5, <1>6, <1>9, <2>3, <3>4
        <3>. QED BY <1>7, <3>1, <3>2, <3>3, <3>4
    <2>. QED BY <1>4, <2>3 DEF IsInjective
<1>. QED BY <1>1, <1>2, <1>3, <1>8, <1>9

-----------------------------------------------------------------------------
(* Induction over the columns of a chart, and what is computed by climbing *)
(* from a column and a rule to those of an earlier column.                 *)
LEMMA ColumnInduction ==
    ASSUME NEW L \in Nat, NEW R, NEW P,
           \A x \in (0..L) \X R : (\A y \in (0..L) \X R : y[1] < x[1] => y \in P) => x \in P
    PROVE  \A x \in (0..L) \X R : x \in P
<1>. DEFINE Good == {n \in 0..(L + 1) : \A x \in (0..L) \X R : x[1] < n => x \in P}
<1>1. 0 \in Good
    OBVIOUS
<1>2. ASSUME NEW n \in 0..L, n \in Good PROVE n + 1 \in Good
    <2>1. n + 1 \in 0..(L + 1)
        OBVIOUS
    <2>2. ASSUME NEW x \in (0..L) \X R, x[1] < n + 1 PROVE x \in P
        <3>1. ASSUME NEW y \in (0..L) \X R, y[1] < x[1] PROVE y \in P
            <4>1. y[1] < n
                BY <2>2, <3>1
            <4>. QED BY <1>2, <4>1
        <3>. QED BY <3>1
    <2>. QED BY <2>1, <2>2
<1>3. L + 1 \in Good
    <2>1. L + 1 \in Nat /\ (L + 1) - 1 = L
        OBVIOUS
    <2>. HIDE DEF Good
    <2>. QED BY <1>1, <1>2, <2>1, Upwards
<1>4. \A x \in (0..L) \X R : x[1] < L + 1
    OBVIOUS
<1>. QED BY <1>3, <1>4

(* One climb: a halt answers at once, any other place asks the one above.  *)
ClimbsTo(x, F, halts, stop, above, step) ==
    IF x \in halts THEN stop[x] ELSE step[<<x, F[above[x]]>>]

Climbing(D, V, halts, stop, above, step) ==
    {F \in [D -> V] : \A x \in D : F[x] = ClimbsTo(x, F, halts, stop, above, step)}

LEMMA ClimbExists ==
    ASSUME NEW L \in Nat, NEW R, NEW D, D = (0..L) \X R, NEW V, NEW halts,
           NEW stop \in [D -> V], NEW above \in [D -> D], NEW step \in [D \X V -> V],
           \A x \in D \ halts : above[x][1] < x[1]
    PROVE  Climbing(D, V, halts, stop, above, step) # {}
<1>. DEFINE X == [D -> V]
            Once(F) == [x \in D |-> ClimbsTo(x, F, halts, stop, above, step)]
            g == [p \in (1..(L + 2)) \X X |-> Once(p[2])]
<1>1. \A F \in X : Once(F) \in X
    BY DEF ClimbsTo
<1>2. g \in [(1..(L + 2)) \X X -> X]
    <2>. HIDE DEF Once
    <2>. QED BY <1>1
<1>3. \A n \in 1..(L + 2), F \in X : g[<<n, F>>] = Once(F)
    OBVIOUS
<1>. HIDE DEF g, X
<1>4. L + 2 \in Nat /\ stop \in X
    BY DEF X
<1>5. Folds(X, L + 2, stop, g) # {}
    BY <1>2, <1>4, Recursion
<1>6. PICK K \in [0..(L + 2) -> X] : \A n \in 1..(L + 2) : K[n] = g[<<n, K[n - 1]>>]
    BY <1>5 DEF Folds
<1>7. ASSUME NEW n \in 0..(L + 1) PROVE K[n + 1] = Once(K[n]) /\ K[n] \in X
    <2>1. n + 1 \in 1..(L + 2) /\ n \in 0..(L + 2) /\ (n + 1) - 1 = n
        OBVIOUS
    <2>2. K[n] \in X /\ K[n + 1] = g[<<n + 1, K[n]>>]
        BY <1>6, <2>1
    <2>. QED BY <1>3, <2>1, <2>2
<1>8. ASSUME NEW n \in 0..(L + 1), NEW x \in D
      PROVE  K[n + 1][x] = ClimbsTo(x, K[n], halts, stop, above, step)
    <2>1. K[n + 1] = [y \in D |-> ClimbsTo(y, K[n], halts, stop, above, step)]
        BY <1>7
    <2>. QED BY ONLY <2>1, x \in D
<1>. DEFINE Good == {n \in 0..(L + 1) : \A x \in D : x[1] < n => K[n + 1][x] = K[n][x]}
<1>9. 0 \in Good
    OBVIOUS
<1>10. ASSUME NEW n \in 0..L, n \in Good PROVE n + 1 \in Good
    <2>1. n + 1 \in 0..(L + 1) /\ n \in 0..(L + 1)
        OBVIOUS
    <2>2. ASSUME NEW x \in D, x[1] < n + 1 PROVE K[(n + 1) + 1][x] = K[n + 1][x]
        <3>1. /\ K[(n + 1) + 1][x] = ClimbsTo(x, K[n + 1], halts, stop, above, step)
              /\ K[n + 1][x] = ClimbsTo(x, K[n], halts, stop, above, step)
            BY <1>8, <2>1
        <3>2. CASE x \in halts
            BY <3>1, <3>2 DEF ClimbsTo
        <3>3. CASE x \notin halts
            <4>1. above[x] \in D /\ above[x][1] < n
                BY <2>2, <3>3
            <4>2. K[n + 1][above[x]] = K[n][above[x]]
                BY <1>10, <4>1
            <4>. QED BY <3>1, <3>3, <4>2 DEF ClimbsTo
        <3>. QED BY <3>2, <3>3
    <2>. QED BY <2>1, <2>2
<1>11. L + 1 \in Good
    <2>1. L + 1 \in Nat /\ (L + 1) - 1 = L
        OBVIOUS
    <2>. HIDE DEF Good
    <2>. QED BY <1>9, <1>10, <2>1, Upwards
<1>12. PICK F : F = K[L + 1]
    OBVIOUS
<1>13. L + 1 \in 0..(L + 1) /\ \A x \in D : x[1] < L + 1
    OBVIOUS
<1>14. F \in [D -> V]
    BY <1>7, <1>12, <1>13 DEF X
<1>15. \A x \in D : F[x] = ClimbsTo(x, F, halts, stop, above, step)
    <2>. SUFFICES ASSUME NEW x \in D PROVE F[x] = ClimbsTo(x, F, halts, stop, above, step)
        OBVIOUS
    <2>1. K[(L + 1) + 1][x] = F[x]
        BY <1>11, <1>12, <1>13
    <2>2. K[(L + 1) + 1][x] = ClimbsTo(x, F, halts, stop, above, step)
        BY <1>8, <1>12, <1>13
    <2>. QED BY <2>1, <2>2
<1>. QED BY <1>14, <1>15 DEF Climbing

-----------------------------------------------------------------------------
(* The chart as a state: what its columns may hold.                        *)
Items(i) == {it \in (DOMAIN tables.arms) \X Nat \X (0..i) : it[2] <= Len(Body(it[1]))}
TextEnd == Len(text)

Given == tables \in CompiledTables(IF recordLinks THEN Tables ELSE Growable) /\ IsList(text)

Shape ==
    /\ Given /\ TextEnd <= MaxText
    /\ DOMAIN cols = 0..TextEnd /\ DOMAIN predicted = 0..TextEnd /\ DOMAIN leo = 0..TextEnd
    /\ \A i \in 0..TextEnd : cols[i] \in Seq(Items(i))
    /\ pos \in 0..TextEnd /\ at \in 1..(Len(cols[pos]) + 1) /\ junction \in {-1, pos}

(* Every seed stands in its own column, and its rule is predicted there.   *)
Seeded ==
    \A i \in 0..TextEnd : \A it \in ToSet(cols[i]) :
        it[2] = 0 => it[3] = i /\ RuleOf(it) \in predicted[i]

(* The record of the rules whose every arm is filed is exact at each mark  *)
(* the text has grown past, and at a junction while it is being closed.    *)
Topped ==
    /\ \A i \in DOMAIN topped : i \in 0..TextEnd /\ topped[i] \subseteq predicted[i]
    /\ marks \subseteq 0..TextEnd
    /\ \A m \in marks : m # TextEnd => m \in DOMAIN topped /\ topped[m] = predicted[m]
    /\ junction = pos => pos \in DOMAIN topped /\ topped[pos] = predicted[pos]
    /\ idle => pos = TextEnd /\ junction = -1 /\ at > Len(cols[pos])
    /\ ~idle => \A m \in marks : m = TextEnd \/ m < pos \/ m = junction

(* At the end of the text no gate passes: what was seeded there is what is *)
(* always seeded, or belongs to a rule all of whose arms are.              *)
Ended ==
    \A it \in ToSet(cols[TextEnd]) :
        it[2] = 0 => \/ AnyChar \in tables.gates[it[1]]
                     \/ TextEnd \in DOMAIN topped /\ RuleOf(it) \in topped[TextEnd]

(* The top of a climb as the columns alone determine it.                   *)
Columns == (0..TextEnd) \X Rules(tables.arms)
SoleAt(x) == Sole(x[1], x[2])
Halts == {x \in Columns : SoleAt(x) = NoItem \/ Origin(SoleAt(x)) = x[1]}
Above(x) == <<Origin(SoleAt(x)), RuleOf(SoleAt(x))>>
TopFrom(x, top) ==
    IF x \in Halts THEN NoItem
    ELSE IF top[Above(x)] = NoItem THEN Advance(SoleAt(x)) ELSE top[Above(x)]
TopOf[x \in Columns] == TopFrom(x, TopOf)

(* What is memoised is that top, in columns nothing will be filed into.    *)
Memos ==
    \A i \in 0..TextEnd : \A r \in DOMAIN leo[i] : r \in Rules(tables.arms) /\ leo[i][r] = TopOf[<<i, r>>]
Closed ==
    \A i \in 0..TextEnd : DOMAIN leo[i] # {} =>
        \/ i < pos
        \/ i = pos /\ at > Len(cols[pos]) /\ pos \in DOMAIN topped /\ predicted[pos] \subseteq topped[pos]

Settled == Shape /\ Seeded /\ Topped /\ Ended /\ FiledOnce
Inv == Settled /\ Memos /\ Closed

-----------------------------------------------------------------------------
LEMMA ListIs == ASSUME NEW S, NEW s \in Seq(S) PROVE IsList(s)
<1>1. s \in Seq(ToSet(s))
    <2>1. \A i \in 1..Len(s) : s[i] \in ToSet(s)
        BY LenProperties DEF ToSet
    <2>2. Len(s) \in Nat /\ s = [i \in 1..Len(s) |-> s[i]]
        BY LenProperties
    <2>. QED BY <2>1, <2>2, IsASeq
<1>. QED BY <1>1 DEF IsList

LEMMA Compiles ==
    ASSUME Given
    PROVE  /\ Len(tables.arms) \in Nat /\ DOMAIN tables.arms = 1..Len(tables.arms)
           /\ \A a \in DOMAIN tables.arms : Len(Body(a)) \in Nat
           /\ TextEnd \in Nat
<1>1. IsTables(tables)
    BY KernelAssumption DEF Given
<1>2. \A s : IsList(s) => Len(s) \in Nat /\ DOMAIN s = 1..Len(s)
    BY LenProperties DEF IsList
<1>3. IsList(text)
    BY DEF Given
<1>. QED BY <1>1, <1>2, <1>3, LenProperties DEF IsTables, Body, TextEnd

LEMMA Tabled ==
    ASSUME Shape
    PROVE  /\ Len(tables.arms) \in Nat /\ DOMAIN tables.arms = 1..Len(tables.arms)
           /\ \A a \in DOMAIN tables.arms : Len(Body(a)) \in Nat
           /\ TextEnd \in Nat
BY Compiles DEF Shape

(* An item that is not complete may be advanced, and is no seed then.      *)
LEMMA Moves ==
    ASSUME Shape, NEW i, NEW it \in Items(i), ~Complete(it)
    PROVE  Advance(it) \in Items(i) /\ Advance(it)[2] # 0 /\ Origin(Advance(it)) = Origin(it)
<1>1. /\ it = <<it[1], it[2], it[3]>> /\ it[1] \in DOMAIN tables.arms /\ it[2] \in Nat /\ it[3] \in 0..i
      /\ it[2] <= Len(Body(it[1])) /\ it[2] # Len(Body(it[1])) /\ Len(Body(it[1])) \in Nat
    BY Tabled DEF Items, Complete
<1>2. it[2] + 1 \in Nat /\ it[2] + 1 <= Len(Body(it[1])) /\ it[2] + 1 # 0
    BY <1>1
<1>3. PICK d : d = it[2] + 1
    OBVIOUS
<1>4. <<it[1], d, it[3]>> \in Items(i)
    BY <1>1, <1>2, <1>3 DEF Items
<1>. QED BY <1>2, <1>3, <1>4 DEF Advance, Origin

(* The seeds of some arms.                                                 *)
LEMMA SeedsAre ==
    ASSUME Given, NEW A, A \subseteq DOMAIN tables.arms, NEW i \in Nat
    PROVE  /\ SeedsOf(A, i) \in Seq(Items(i)) /\ IsInjective(SeedsOf(A, i))
           /\ \A it \in ToSet(SeedsOf(A, i)) : it \in Items(i) /\ it[1] \in A /\ it[2] = 0 /\ it[3] = i
<1>1. PICK D : D = DOMAIN tables.arms
    OBVIOUS
<1>2. PICK list : list = [a \in D |-> a]
    OBVIOUS
<1>3. list \in Seq(D) /\ DOMAIN list = D
    BY <1>1, <1>2, Compiles, IsASeq
<1>4. ToSet(list) = D /\ IsInjective(list)
    BY <1>2, <1>3 DEF ToSet, IsInjective
<1>5. PICK arms : arms = ArmList(A)
    OBVIOUS
<1>6. arms \in Seq(D) /\ ToSet(arms) = A /\ IsInjective(arms)
    <2>1. arms = Among(list, A)
        BY <1>1, <1>2, <1>5, Zenon DEF ArmList
    <2>2. D \cap A = A
        BY <1>1
    <2>3. Among(list, A) \in Seq(D) /\ ToSet(Among(list, A)) = ToSet(list) \cap A
        BY <1>3, AmongIs
    <2>4. IsInjective(Among(list, A))
        BY <1>3, <1>4, AmongIs
    <2>. QED BY <1>4, <2>1, <2>2, <2>3, <2>4
<1>7. PICK N \in Nat : DOMAIN arms = 1..N
    BY <1>6, LenProperties
<1>8. SeedsOf(A, i) = [k \in 1..N |-> <<arms[k], 0, i>>]
    BY <1>5, <1>7 DEF SeedsOf
<1>9. \A k \in 1..N : arms[k] \in A
    BY <1>6, <1>7 DEF ToSet
<1>10. ASSUME NEW k \in 1..N PROVE <<arms[k], 0, i>> \in Items(i)
    <2>1. arms[k] \in DOMAIN tables.arms
        BY <1>9
    <2>2. 0 <= Len(Body(arms[k]))
        BY <2>1, Compiles
    <2>. QED BY <2>1, <2>2 DEF Items
<1>11. SeedsOf(A, i) \in Seq(Items(i))
    BY <1>8, <1>10, IsASeq
<1>12. IsInjective(SeedsOf(A, i))
    BY <1>6, <1>7, <1>8 DEF IsInjective
<1>13. ASSUME NEW it \in ToSet(SeedsOf(A, i)) PROVE it \in Items(i) /\ it[1] \in A /\ it[2] = 0 /\ it[3] = i
    <2>1. PICK k \in 1..N : it = <<arms[k], 0, i>>
        BY <1>8 DEF ToSet
    <2>. QED BY <1>9, <1>10, <2>1
<1>. QED BY <1>11, <1>12, <1>13

(* What waits in a column.                                                 *)
LEMMA Waits ==
    ASSUME Shape, NEW i \in 0..TextEnd, NEW r
    PROVE  /\ Waiting(i, r) \in Seq(Items(i))
           /\ \A it \in ToSet(Waiting(i, r)) : it \in Items(i) /\ it \in ToSet(cols[i]) /\ ~Complete(it)
<1>1. cols[i] \in Seq(Items(i))
    BY DEF Shape
<1>2. PICK T : T = {it \in ToSet(cols[i]) : FacesRule(it, r)}
    OBVIOUS
<1>3. Among(cols[i], T) \in Seq(Items(i)) /\ ToSet(Among(cols[i], T)) = ToSet(cols[i]) \cap T
    BY <1>1, AmongIs
<1>4. ToSet(cols[i]) \subseteq Items(i)
    BY <1>1, Queued
<1>. QED BY <1>2, <1>3, <1>4 DEF Waiting, FacesRule

(* The sole waiter of a column, when there is one.                         *)
SolesRight ==
    \A x \in Columns : SoleAt(x) # NoItem =>
        /\ SoleAt(x) \in Items(x[1]) /\ Advance(SoleAt(x)) \in Items(x[1])
        /\ Advance(SoleAt(x))[2] # 0 /\ Origin(SoleAt(x)) \in 0..x[1]
        /\ Above(x) \in Columns

LEMMA Soles == Shape => SolesRight
<1>. SUFFICES ASSUME Shape, NEW x \in Columns, SoleAt(x) # NoItem
              PROVE  /\ SoleAt(x) \in Items(x[1]) /\ Advance(SoleAt(x)) \in Items(x[1])
                     /\ Advance(SoleAt(x))[2] # 0 /\ Origin(SoleAt(x)) \in 0..x[1]
                     /\ Above(x) \in Columns
    BY DEF SolesRight
<1>1. x[1] \in 0..TextEnd /\ TextEnd \in Nat
    BY Tabled DEF Columns
<1>2. PICK wl : wl = Waiting(x[1], x[2])
    OBVIOUS
<1>3. wl \in Seq(Items(x[1])) /\ \A it \in ToSet(wl) : it \in Items(x[1]) /\ ~Complete(it)
    BY <1>1, <1>2, Waits
<1>4. Len(wl) = 1 /\ SoleAt(x) = wl[1]
    BY <1>2 DEF SoleAt, Sole, SoleOf
<1>5. wl[1] \in ToSet(wl)
    BY <1>3, <1>4, LenProperties DEF ToSet
<1>6. SoleAt(x) \in Items(x[1]) /\ ~Complete(SoleAt(x))
    BY <1>3, <1>4, <1>5
<1>7. Origin(SoleAt(x)) \in 0..x[1] /\ RuleOf(SoleAt(x)) \in Rules(tables.arms)
    BY <1>6 DEF Items, Origin, RuleOf, Rules
<1>8. Above(x) \in Columns
    BY <1>1, <1>7 DEF Above, Columns
<1>. QED BY <1>6, <1>7, <1>8, Moves

(* The climb on the columns alone: it exists, it goes down a column at each*)
(* step, and its top is an item of the column it starts at or an earlier.  *)
TopsRight ==
    \A x \in Columns :
        /\ TopOf[x] = TopFrom(x, TopOf)
        /\ x \notin Halts => Above(x) \in Columns /\ Above(x)[1] < x[1]
        /\ TopOf[x] # NoItem => TopOf[x] \in Items(x[1]) /\ TopOf[x][2] # 0

LEMMA ItemsGrow ==
    ASSUME NEW i, NEW j \in Int, i \in Int, i <= j, NEW it \in Items(i)
    PROVE  it \in Items(j)
<1>1. 0..i \subseteq 0..j
    OBVIOUS
<1>. QED BY <1>1 DEF Items

LEMMA Tops == Shape => TopsRight
<1>. SUFFICES ASSUME Shape PROVE TopsRight
    OBVIOUS
<1>. DEFINE V == Nat \X Nat \X Nat
            stop == [x \in Columns |-> NoItem]
            above == [x \in Columns |-> IF x \in Halts THEN x ELSE Above(x)]
            Step(x, v) == IF x \in Halts THEN NoItem ELSE IF v = NoItem THEN Advance(SoleAt(x)) ELSE v
            step == [p \in Columns \X V |-> Step(p[1], p[2])]
<1>1. SolesRight
    BY Soles
<1>2. \A x \in Columns \ Halts : SoleAt(x) # NoItem /\ Above(x) \in Columns /\ Above(x)[1] < x[1]
    <2>. SUFFICES ASSUME NEW x \in Columns, x \notin Halts
                  PROVE  SoleAt(x) # NoItem /\ Above(x) \in Columns /\ Above(x)[1] < x[1]
        OBVIOUS
    <2>1. SoleAt(x) # NoItem /\ Origin(SoleAt(x)) # x[1]
        BY DEF Halts
    <2>2. Origin(SoleAt(x)) \in 0..x[1] /\ Above(x) \in Columns /\ x[1] \in Int
        BY <1>1, <2>1, Tabled DEF SolesRight, Columns
    <2>3. Above(x)[1] = Origin(SoleAt(x))
        BY DEF Above
    <2>. QED BY <2>1, <2>2, <2>3
<1>3. NoItem \in V /\ \A x \in Columns \ Halts : Advance(SoleAt(x)) \in V
    <2>1. NoItem \in V
        BY DEF NoItem
    <2>2. ASSUME NEW x \in Columns \ Halts PROVE Advance(SoleAt(x)) \in V
        <3>1. Advance(SoleAt(x)) \in Items(x[1]) /\ x[1] \in Nat
            BY <1>1, <1>2, Tabled DEF SolesRight, Columns
        <3>2. \A a \in DOMAIN tables.arms : a \in Nat
            BY Tabled
        <3>. QED BY <3>1, <3>2 DEF Items
    <2>. QED BY <2>1, <2>2
<1>. HIDE DEF V
<1>4. stop \in [Columns -> V] /\ above \in [Columns -> Columns]
    BY <1>2, <1>3
<1>5. step \in [Columns \X V -> V]
    <2>1. \A x \in Columns, v \in V : Step(x, v) \in V
        BY <1>3
    <2>. HIDE DEF Step
    <2>. QED BY <2>1
<1>6. \A x \in Columns \ Halts : above[x][1] < x[1] /\ above[x] = Above(x)
    BY <1>2
<1>7. \A x \in Columns, v \in V : step[<<x, v>>] = Step(x, v) /\ stop[x] = NoItem
    OBVIOUS
<1>. HIDE DEF step, stop, above
<1>8. TextEnd \in Nat /\ Columns = (0..TextEnd) \X Rules(tables.arms)
    BY Tabled DEF Columns
<1>9. Climbing(Columns, V, Halts, stop, above, step) # {}
    <2>1. \A x \in Columns \ Halts : above[x][1] < x[1]
        BY <1>6
    <2>2. PICK L, R, D, H : L \in Nat /\ L = TextEnd /\ D = Columns /\ D = (0..L) \X R /\ H = Halts
        BY <1>8
    <2>3. stop \in [D -> V] /\ above \in [D -> D] /\ step \in [D \X V -> V]
        BY <1>4, <1>5, <2>2
    <2>4. \A x \in D \ H : above[x][1] < x[1]
        BY <2>1, <2>2
    <2>5. Climbing(D, V, H, stop, above, step) # {}
        BY <2>2, <2>3, <2>4, ClimbExists
    <2>. QED BY <2>2, <2>5
<1>10. PICK F \in [Columns -> V] : \A x \in Columns : F[x] = ClimbsTo(x, F, Halts, stop, above, step)
    BY <1>9 DEF Climbing
<1>11. ASSUME NEW x \in Columns PROVE F[x] = TopFrom(x, F)
    <2>1. CASE x \in Halts
        BY <1>7, <1>10, <2>1, <1>3 DEF ClimbsTo, TopFrom
    <2>2. CASE x \notin Halts
        <3>1. F[x] = step[<<x, F[above[x]]>>]
            BY <1>10, <2>2 DEF ClimbsTo
        <3>2. above[x] = Above(x) /\ Above(x) \in Columns
            BY <1>2, <1>6, <2>2
        <3>3. F[x] = Step(x, F[Above(x)])
            BY <1>7, <1>10, <3>1, <3>2
        <3>. QED BY <2>2, <3>3 DEF TopFrom
    <2>. QED BY <2>1, <2>2
<1>12. F = [x \in Columns |-> TopFrom(x, F)]
    BY <1>10, <1>11
<1>13. TopOf = [x \in Columns |-> TopFrom(x, TopOf)]
    BY <1>12, Zenon DEF TopOf
<1>14. \A x \in Columns : TopOf[x] = TopFrom(x, TopOf)
    BY <1>13, Zenon
<1>. DEFINE P == {x \in Columns : TopOf[x] # NoItem => TopOf[x] \in Items(x[1]) /\ TopOf[x][2] # 0}
<1>15. ASSUME NEW x \in Columns, \A y \in Columns : y[1] < x[1] => y \in P PROVE x \in P
    <2>. SUFFICES ASSUME TopOf[x] # NoItem PROVE TopOf[x] \in Items(x[1]) /\ TopOf[x][2] # 0
        OBVIOUS
    <2>1. x \notin Halts /\ TopOf[x] = IF TopOf[Above(x)] = NoItem THEN Advance(SoleAt(x)) ELSE TopOf[Above(x)]
        BY <1>14 DEF TopFrom
    <2>2. Above(x) \in P /\ Above(x)[1] < x[1] /\ SoleAt(x) # NoItem /\ Above(x) \in Columns
        BY <1>2, <1>15, <2>1
    <2>3. CASE TopOf[Above(x)] = NoItem
        BY <1>1, <2>1, <2>2, <2>3 DEF SolesRight
    <2>4. CASE TopOf[Above(x)] # NoItem
        <3>1. TopOf[Above(x)] \in Items(Above(x)[1]) /\ TopOf[Above(x)][2] # 0
            BY <2>2, <2>4
        <3>2. Above(x)[1] \in Int /\ x[1] \in Int
            BY <2>2, <1>8
        <3>. QED BY <2>1, <2>2, <2>4, <3>1, <3>2, ItemsGrow
    <2>. QED BY <2>3, <2>4
<1>16. \A x \in Columns : x \in P
    <2>. HIDE DEF P
    <2>. QED BY <1>8, <1>15, ColumnInduction
<1>. QED BY <1>2, <1>14, <1>16 DEF TopsRight

(* leo_resolve, memos and all, finds the top the columns determine, and    *)
(* every top it would memoise is one.                                      *)
ResolvesRight ==
    \A x \in Columns :
        /\ LeoResolve(x).top = TopOf[x]
        /\ \A m \in LeoResolve(x).memos :
            m[1] \in 0..x[1] /\ m[2] \in Rules(tables.arms) /\ m[3] = TopOf[<<m[1], m[2]>>]

LEMMA Resolves == Shape /\ Memos => ResolvesRight
<1>. SUFFICES ASSUME Shape, Memos PROVE ResolvesRight
    OBVIOUS
<1>. DEFINE T == Nat \X Nat \X Nat
            Rs == Rules(tables.arms)
            M == Nat \X Rs \X T
            V == [top : T, memos : SUBSET M]
            Known(x) == x[2] \in DOMAIN leo[x[1]]
            H == {x \in Columns : Known(x) \/ x \in Halts}
            Stopped(x) == IF Known(x) THEN [top |-> leo[x[1]][x[2]], memos |-> {}] ELSE Stop(x[1], x[2])
            stop == [x \in Columns |-> IF x \in H THEN Stopped(x) ELSE Stop(x[1], x[2])]
            above == [x \in Columns |-> IF x \in H THEN x ELSE Above(x)]
            Step(x, v) == Found(x[1], x[2], IF v.top = NoItem THEN Advance(SoleAt(x)) ELSE v.top, v.memos)
            step == [p \in Columns \X V |-> IF p[1] \in H THEN Stop(p[1][1], p[1][2]) ELSE Step(p[1], p[2])]
            Turn(x, F) == MemoOr(x[1], x[2], Resolved(x[1], x[2], SoleAt(x), F[Above(x)]))
<1>1. SolesRight /\ TopsRight
    BY Soles, Tops
<1>2. \A x \in Columns : x[1] \in 0..TextEnd /\ x[1] \in Nat /\ x[2] \in Rs /\ x = <<x[1], x[2]>>
    BY Tabled DEF Columns
<1>3. NoItem \in T /\ \A i \in Nat : \A it \in Items(i) : it \in T
    <2>1. NoItem \in T
        BY DEF NoItem
    <2>2. \A a \in DOMAIN tables.arms : a \in Nat
        BY Tabled
    <2>3. ASSUME NEW i \in Nat, NEW it \in Items(i) PROVE it \in T
        BY <2>2 DEF Items
    <2>. QED BY <2>1, <2>3
<1>4. \A x \in Columns : TopOf[x] \in T
    BY <1>1, <1>2, <1>3 DEF TopsRight
<1>5. \A x \in Columns : Known(x) => leo[x[1]][x[2]] = TopOf[x]
    BY <1>2 DEF Memos
<1>6. \A x \in Columns \ H : /\ ~Known(x) /\ x \notin Halts /\ SoleAt(x) # NoItem
                             /\ Above(x) \in Columns /\ Above(x)[1] < x[1] /\ Advance(SoleAt(x)) \in T
    <2>. SUFFICES ASSUME NEW x \in Columns, x \notin H
                  PROVE  /\ ~Known(x) /\ x \notin Halts /\ SoleAt(x) # NoItem
                         /\ Above(x) \in Columns /\ Above(x)[1] < x[1] /\ Advance(SoleAt(x)) \in T
        OBVIOUS
    <2>1. ~Known(x) /\ x \notin Halts
        OBVIOUS
    <2>2. SoleAt(x) # NoItem
        BY <2>1 DEF Halts
    <2>3. Advance(SoleAt(x)) \in Items(x[1])
        BY <1>1, <2>2 DEF SolesRight
    <2>. QED BY <1>1, <1>2, <1>3, <2>1, <2>2, <2>3 DEF TopsRight
<1>7. \A i \in Nat, r \in Rs : Stop(i, r) \in V
    <2>. SUFFICES ASSUME NEW i \in Nat, NEW r \in Rs PROVE Stop(i, r) \in V
        OBVIOUS
    <2>1. <<i, r, NoItem>> \in M
        BY <1>3
    <2>. HIDE DEF T, M
    <2>. QED BY <1>3, <2>1 DEF Stop
<1>8. stop \in [Columns -> V]
    <2>1. \A x \in Columns : Stopped(x) \in V /\ Stop(x[1], x[2]) \in V
        <3>. SUFFICES ASSUME NEW x \in Columns PROVE Stopped(x) \in V /\ Stop(x[1], x[2]) \in V
            OBVIOUS
        <3>1. Known(x) => leo[x[1]][x[2]] \in T
            BY <1>4, <1>5
        <3>2. Stop(x[1], x[2]) \in V
            BY <1>2, <1>7
        <3>. HIDE DEF T, M, Known
        <3>. QED BY <3>1, <3>2
    <2>. HIDE DEF V, Stopped, H
    <2>. QED BY <2>1
<1>9. above \in [Columns -> Columns]
    <2>. HIDE DEF H
    <2>. QED BY <1>6
<1>10. \A x \in Columns \ H, v \in V : Step(x, v) \in V
    <2>. SUFFICES ASSUME NEW x \in Columns \ H, NEW v \in V PROVE Step(x, v) \in V
        OBVIOUS
    <2>. DEFINE top == IF v.top = NoItem THEN Advance(SoleAt(x)) ELSE v.top
    <2>1. top \in T /\ v.memos \subseteq M
        BY <1>6
    <2>. HIDE DEF top
    <2>2. <<x[1], x[2], top>> \in M
        BY <1>2, <2>1
    <2>. HIDE DEF M, T
    <2>3. Found(x[1], x[2], top, v.memos) \in V
        BY <2>1, <2>2 DEF Found
    <2>. QED BY <2>3 DEF top
<1>11. step \in [Columns \X V -> V]
    <2>1. ASSUME NEW x \in Columns, NEW v \in V
          PROVE  (IF x \in H THEN Stop(x[1], x[2]) ELSE Step(x, v)) \in V
        <3>. HIDE DEF V, H, Step
        <3>. QED BY <1>2, <1>7, <1>10
    <2>. HIDE DEF V, H, Step
    <2>. QED BY <2>1
<1>12. \A x \in Columns : x \notin H => above[x] = Above(x)
    <2>. HIDE DEF H
    <2>. QED OBVIOUS
<1>13. \A x \in Columns : x \in H => stop[x] = Stopped(x)
    <2>. HIDE DEF H, Stopped
    <2>. QED OBVIOUS
<1>14. \A x \in Columns, v \in V : x \notin H => step[<<x, v>>] = Step(x, v)
    <2>. HIDE DEF H, Step, V
    <2>. QED OBVIOUS
<1>15. \A x \in Columns : x \in H => (Known(x) \/ x \in Halts)
    OBVIOUS
<1>. HIDE DEF step, stop, above, H, V
<1>16. PICK F \in [Columns -> V] : \A x \in Columns : F[x] = ClimbsTo(x, F, H, stop, above, step)
    <2>1. PICK L, R, D : L \in Nat /\ L = TextEnd /\ D = Columns /\ D = (0..L) \X R
        BY Tabled DEF Columns
    <2>2. stop \in [D -> V] /\ above \in [D -> D] /\ step \in [D \X V -> V]
        BY <1>8, <1>9, <1>11, <2>1
    <2>3. \A x \in D \ H : above[x][1] < x[1]
        BY <1>6, <1>12, <2>1
    <2>4. Climbing(D, V, H, stop, above, step) # {}
        BY <2>1, <2>2, <2>3, ClimbExists
    <2>. QED BY <2>1, <2>4 DEF Climbing
<1>17. ASSUME NEW x \in Columns PROVE F[x] = Turn(x, F)
    <2>1. CASE Known(x)
        <3>1. x \in H
            BY <2>1 DEF H
        <3>2. F[x] = Stopped(x)
            BY <1>13, <1>16, <3>1 DEF ClimbsTo
        <3>. QED BY <2>1, <3>2 DEF MemoOr
    <2>2. CASE ~Known(x) /\ x \in Halts
        <3>1. x \in H
            BY <2>2 DEF H
        <3>2. F[x] = Stop(x[1], x[2])
            BY <1>13, <1>16, <2>2, <3>1 DEF ClimbsTo
        <3>3. SoleAt(x) = NoItem \/ Origin(SoleAt(x)) = x[1]
            BY <2>2 DEF Halts
        <3>. QED BY <2>2, <3>2, <3>3 DEF MemoOr, Resolved
    <2>3. CASE ~Known(x) /\ x \notin Halts
        <3>1. x \notin H
            BY <1>15, <2>3
        <3>2. above[x] = Above(x) /\ Above(x) \in Columns
            BY <1>6, <1>12, <3>1
        <3>3. F[x] = Step(x, F[Above(x)])
            <4>1. F[Above(x)] \in V
                BY <1>16, <3>2
            <4>2. F[x] = step[<<x, F[Above(x)]>>]
                BY <1>16, <3>1, <3>2 DEF ClimbsTo
            <4>. QED BY <1>14, <3>1, <4>1, <4>2
        <3>4. ~(SoleAt(x) = NoItem \/ Origin(SoleAt(x)) = x[1])
            BY <2>3 DEF Halts
        <3>. QED BY <2>3, <3>3, <3>4 DEF MemoOr, Resolved
    <2>. QED BY <2>1, <2>2, <2>3
<1>. DEFINE Recurs(U) ==
                U = [x \in (0..Len(text)) \X Rules(tables.arms) |->
                        LET sole == Sole(x[1], x[2])
                        IN MemoOr(x[1], x[2], Resolved(x[1], x[2], sole, U[<<Origin(sole), RuleOf(sole)>>]))]
            K == CHOOSE U : Recurs(U)
<1>18. F = [x \in Columns |-> Turn(x, F)]
    <2>. HIDE DEF Turn
    <2>. QED BY <1>16, <1>17
<1>19. Recurs(F)
    BY <1>18, Zenon DEF Columns, TextEnd, SoleAt, Above
<1>20. Recurs(K) /\ \A x : LeoResolve(x) = K[x]
    BY <1>19, Zenon DEF LeoResolve
<1>. HIDE DEF K
<1>21. K = [x \in Columns |-> Turn(x, K)]
    BY <1>20, Zenon DEF Columns, TextEnd, SoleAt, Above
<1>22. \A x \in Columns : K[x] = Turn(x, K)
    <2>. HIDE DEF Turn
    <2>. QED BY <1>21, Zenon
<1>. DEFINE Tells(x, v) ==
                /\ v.top = TopOf[x]
                /\ \A m \in v.memos : m[1] \in 0..x[1] /\ m[2] \in Rs /\ m[3] = TopOf[<<m[1], m[2]>>]
            P == {x \in Columns : Tells(x, K[x])}
<1>23. ASSUME NEW x \in Columns, \A y \in Columns : y[1] < x[1] => y \in P PROVE x \in P
    <2>1. K[x] = Turn(x, K) /\ TopOf[x] = TopFrom(x, TopOf)
        BY <1>1, <1>22 DEF TopsRight
    <2>2. CASE Known(x)
        <3>1. K[x] = [top |-> leo[x[1]][x[2]], memos |-> {}]
            BY <2>1, <2>2 DEF MemoOr
        <3>. QED BY <1>5, <2>2, <3>1
    <2>3. CASE ~Known(x) /\ x \in Halts
        <3>1. K[x] = Stop(x[1], x[2])
            BY <2>1, <2>3 DEF MemoOr, Resolved, Halts
        <3>2. TopOf[x] = NoItem
            BY <2>1, <2>3 DEF TopFrom
        <3>3. K[x].top = NoItem /\ K[x].memos = {<<x[1], x[2], NoItem>>}
            BY <3>1 DEF Stop
        <3>. QED BY <1>2, <3>2, <3>3
    <2>4. CASE ~Known(x) /\ x \notin Halts
        <3>1. x \notin H
            BY <1>15, <2>4
        <3>2. Above(x) \in Columns /\ Above(x)[1] < x[1]
            BY <1>6, <3>1
        <3>3. PICK v : v = K[Above(x)]
            OBVIOUS
        <3>4. Tells(Above(x), v)
            BY <1>23, <3>2, <3>3
        <3>5. PICK top : top = IF v.top = NoItem THEN Advance(SoleAt(x)) ELSE v.top
            OBVIOUS
        <3>6. K[x] = Found(x[1], x[2], top, v.memos)
            BY <2>1, <2>4, <3>3, <3>5 DEF MemoOr, Resolved, Halts
        <3>7. TopOf[x] = top
            BY <2>1, <2>4, <3>4, <3>5 DEF TopFrom
        <3>8. K[x].top = top /\ K[x].memos = v.memos \cup {<<x[1], x[2], top>>}
            BY <3>6 DEF Found
        <3>9. ASSUME NEW m \in K[x].memos
              PROVE  m[1] \in 0..x[1] /\ m[2] \in Rs /\ m[3] = TopOf[<<m[1], m[2]>>]
            <4>1. CASE m = <<x[1], x[2], top>>
                BY <1>2, <3>7, <4>1
            <4>2. CASE m \in v.memos
                <5>1. m[1] \in 0..Above(x)[1] /\ m[2] \in Rs /\ m[3] = TopOf[<<m[1], m[2]>>]
                    BY <3>4, <4>2
                <5>2. Above(x)[1] \in Nat /\ x[1] \in Nat
                    BY <1>2, <3>2
                <5>3. m[1] \in 0..x[1]
                    BY <3>2, <5>1, <5>2
                <5>. QED BY <5>1, <5>3
            <4>. QED BY <3>8, <4>1, <4>2
        <3>. QED BY <3>7, <3>8, <3>9
    <2>. QED BY <2>2, <2>3, <2>4
<1>24. \A x \in Columns : x \in P
    <2>1. PICK L, R : L \in Nat /\ L = TextEnd /\ Columns = (0..L) \X R
        BY Tabled DEF Columns
    <2>. HIDE DEF P
    <2>. QED BY <1>23, <2>1, ColumnInduction
<1>. QED BY <1>20, <1>24 DEF ResolvesRight

(* So a memo that is the top of its climb is what climbing again finds.    *)
LEMMA MemosFresh == Shape /\ Memos => LeoMemoFresh
<1>. SUFFICES ASSUME Shape, Memos, NEW i \in DOMAIN cols, NEW r \in DOMAIN leo[i]
              PROVE  leo[i][r] = LET sole == Sole(i, r)
                                 IN Resolved(i, r, sole, LeoResolve(<<Origin(sole), RuleOf(sole)>>)).top
    BY DEF LeoMemoFresh
<1>1. TopsRight /\ ResolvesRight
    BY Tops, Resolves
<1>2. PICK x : x = <<i, r>>
    OBVIOUS
<1>3. x \in Columns /\ leo[i][r] = TopOf[x] /\ x[1] = i /\ x[2] = r
    BY <1>2 DEF Shape, Memos, Columns
<1>4. SoleAt(x) = Sole(i, r) /\ Above(x) = <<Origin(Sole(i, r)), RuleOf(Sole(i, r))>>
    BY <1>3 DEF SoleAt, Above
<1>5. TopOf[x] = TopFrom(x, TopOf) /\ (x \notin Halts => Above(x) \in Columns)
    BY <1>1, <1>3 DEF TopsRight
<1>6. CASE x \in Halts
    <2>1. SoleAt(x) = NoItem \/ Origin(SoleAt(x)) = i
        BY <1>3, <1>6 DEF Halts
    <2>2. \A above : Resolved(i, r, SoleAt(x), above) = Stop(i, r)
        BY <2>1 DEF Resolved
    <2>3. Stop(i, r).top = NoItem
        BY DEF Stop
    <2>. QED BY <1>3, <1>4, <1>5, <1>6, <2>2, <2>3 DEF TopFrom
<1>7. CASE x \notin Halts
    <2>1. ~(SoleAt(x) = NoItem \/ Origin(SoleAt(x)) = i)
        BY <1>3, <1>7 DEF Halts
    <2>2. LeoResolve(Above(x)).top = TopOf[Above(x)]
        BY <1>1, <1>5, <1>7 DEF ResolvesRight
    <2>3. \A above : Resolved(i, r, SoleAt(x), above).top
                     = IF above.top = NoItem THEN Advance(SoleAt(x)) ELSE above.top
        BY <2>1 DEF Resolved, Found
    <2>. QED BY <1>3, <1>4, <1>5, <1>7, <2>2, <2>3 DEF TopFrom
<1>. QED BY <1>6, <1>7

(* As long as the columns up to one stay as they are, so do their climbs.  *)
LEMMA TopsStay ==
    ASSUME Shape, Shape', tables' = tables,
           NEW c \in Int, \A j \in 0..TextEnd : j <= c => j \in 0..TextEnd' /\ cols'[j] = cols[j]
    PROVE  \A x \in Columns : x[1] <= c => x \in Columns' /\ TopOf'[x] = TopOf[x]
<1>1. TopsRight /\ TopsRight'
    <2>1. Shape' => TopsRight'
        BY Tops, PTL
    <2>. QED BY <2>1, Tops
<1>. DEFINE P == {x \in Columns : x[1] <= c => x \in Columns' /\ TopOf'[x] = TopOf[x]}
<1>2. PICK L, R : L \in Nat /\ L = TextEnd /\ R = Rules(tables.arms) /\ Columns = (0..L) \X R
    BY Tabled DEF Columns
<1>3. ASSUME NEW x \in Columns, \A y \in Columns : y[1] < x[1] => y \in P PROVE x \in P
    <2>. SUFFICES ASSUME x[1] <= c PROVE x \in Columns' /\ TopOf'[x] = TopOf[x]
        OBVIOUS
    <2>1. x[1] \in 0..TextEnd' /\ cols'[x[1]] = cols[x[1]] /\ x[2] \in R /\ x = <<x[1], x[2]>>
        BY <1>2
    <2>2. x \in Columns'
        BY <1>2, <2>1 DEF Columns
    <2>3. PICK i, r : i = x[1] /\ r = x[2]
        OBVIOUS
    <2>4. Sole(i, r)' = Sole(i, r)
        BY <2>1, <2>3 DEF Sole, SoleOf, Waiting, FacesRule, Complete, Facing, Body
    <2>5. SoleAt(x)' = SoleAt(x)
        BY <2>3, <2>4 DEF SoleAt
    <2>6. Above(x)' = Above(x)
        BY <2>5 DEF Above, RuleOf
    <2>7. x \in Halts <=> x \in Halts'
        BY <2>2, <2>5 DEF Halts
    <2>8. TopOf'[x] = TopFrom(x, TopOf)' /\ TopOf[x] = TopFrom(x, TopOf)
        BY <1>1, <2>2 DEF TopsRight
    <2>9. CASE x \in Halts
        BY <2>2, <2>7, <2>8, <2>9 DEF TopFrom
    <2>10. CASE x \notin Halts
        <3>1. Above(x) \in Columns /\ Above(x)[1] < x[1]
            BY <1>1, <2>10 DEF TopsRight
        <3>2. Above(x)[1] <= c
            BY <1>2, <3>1
        <3>3. TopOf'[Above(x)] = TopOf[Above(x)]
            BY <1>3, <3>1, <3>2
        <3>. QED BY <2>2, <2>5, <2>6, <2>7, <2>8, <2>10, <3>3 DEF TopFrom
    <2>. QED BY <2>9, <2>10
<1>4. \A x \in Columns : x \in P
    <2>. HIDE DEF P
    <2>. QED BY <1>2, <1>3, ColumnInduction
<1>. QED BY <1>4

(* What leo holds after a climb's memos are kept.                          *)
Keeps(leo2, x) ==
    /\ DOMAIN leo2 = 0..TextEnd
    /\ \A i \in 0..TextEnd : \A r \in DOMAIN leo2[i] :
        /\ r \in Rules(tables.arms) /\ leo2[i][r] = TopOf[<<i, r>>]
        /\ DOMAIN leo[i] # {} \/ i <= x[1]

LEMMA Memoises ==
    ASSUME Shape, Memos, NEW x \in Columns, NEW leo2, leo2 = Memoised(LeoResolve(x).memos)
    PROVE  Keeps(leo2, x)
<1>1. PICK memos : memos = LeoResolve(x).memos
    OBVIOUS
<1>2. \A m \in memos : m[1] \in 0..x[1] /\ m[2] \in Rules(tables.arms) /\ m[3] = TopOf[<<m[1], m[2]>>]
    BY <1>1, Resolves DEF ResolvesRight
<1>3. DOMAIN leo = 0..TextEnd
    BY DEF Shape
<1>4. DOMAIN leo2 = 0..TextEnd
    BY <1>1, <1>3 DEF Memoised
<1>5. ASSUME NEW i \in 0..TextEnd, NEW r \in DOMAIN leo2[i]
      PROVE  /\ r \in Rules(tables.arms) /\ leo2[i][r] = TopOf[<<i, r>>]
             /\ DOMAIN leo[i] # {} \/ i <= x[1]
    <2>. DEFINE added == {m[2] : m \in {n \in memos : n[1] = i}}
    <2>1. leo2[i] = [s \in DOMAIN leo[i] \cup added |->
                        IF s \in DOMAIN leo[i] THEN leo[i][s]
                        ELSE (CHOOSE m \in memos : m[1] = i /\ m[2] = s)[3]]
        BY <1>1, <1>3 DEF Memoised
    <2>2. CASE r \in DOMAIN leo[i]
        BY <2>1, <2>2 DEF Memos
    <2>3. CASE r \notin DOMAIN leo[i]
        <3>1. r \in added
            BY <2>1, <2>3
        <3>2. PICK n \in memos : n[1] = i /\ n[2] = r
            BY <3>1
        <3>3. PICK m : m = CHOOSE k \in memos : k[1] = i /\ k[2] = r
            OBVIOUS
        <3>4. m \in memos /\ m[1] = i /\ m[2] = r
            BY <3>2, <3>3
        <3>5. leo2[i][r] = m[3]
            BY <2>1, <2>3, <3>1, <3>3
        <3>6. i <= x[1]
            <4>1. x[1] \in 0..TextEnd /\ TextEnd \in Nat
                BY Tabled DEF Columns
            <4>2. i \in 0..x[1]
                BY <1>2, <3>4
            <4>. QED BY <4>1, <4>2
        <3>. QED BY <1>2, <3>4, <3>5, <3>6
    <2>. QED BY <2>2, <2>3
<1>. QED BY <1>4, <1>5 DEF Keeps

-----------------------------------------------------------------------------
(* A visit changes one column, the one being closed, and what is predicted *)
(* there: it may file what is new of any item, and seeds of rules it       *)
(* predicts - all their arms at a junction, the gated ones elsewhere.      *)
Visit(c, p) ==
    /\ Visiting /\ at' = at + 1 /\ UNCHANGED <<given, junction, pos, idle, marks>>
    /\ c \in Seq(Items(pos)) /\ IsInjective(c) /\ Len(cols[pos]) <= Len(c)
    /\ DOMAIN cols' = 0..TextEnd /\ DOMAIN predicted' = 0..TextEnd /\ DOMAIN leo' = 0..TextEnd
    /\ \A i \in 0..TextEnd : cols'[i] = IF i = pos THEN c ELSE cols[i]
    /\ \A i \in 0..TextEnd : predicted'[i] = IF i = pos THEN predicted[i] \cup p ELSE predicted[i]
    /\ DOMAIN topped' = DOMAIN topped
    /\ \A i \in DOMAIN topped : topped'[i] = IF i = junction THEN predicted'[i] ELSE topped[i]
    /\ \A it \in ToSet(c) : it[2] = 0 =>
        \/ it \in ToSet(cols[pos])
        \/ /\ it[3] = pos /\ RuleOf(it) \in predicted'[pos]
           /\ pos = junction \/ pos # TextEnd \/ AnyChar \in tables.gates[it[1]]

LEMMA Visits == ASSUME Settled, NEW c, NEW p, Visit(c, p) PROVE Settled'
<1>. USE DEF Settled, Visit
<1>1. tables' = tables /\ text' = text /\ TextEnd' = TextEnd /\ pos' = pos /\ junction' = junction /\ idle' = idle
      /\ marks' = marks /\ recordLinks' = recordLinks
    BY DEF given, TextEnd
<1>2. \A i : Items(i)' = Items(i)
    BY <1>1 DEF Items, Body
<1>3. \A it : RuleOf(it)' = RuleOf(it)
    BY <1>1 DEF RuleOf
<1>4. pos \in 0..TextEnd /\ TextEnd \in Nat /\ ~idle /\ at <= Len(cols[pos]) /\ Len(c) \in Nat /\ Len(cols[pos]) \in Nat
    <2>1. cols[pos] \in Seq(Items(pos)) /\ pos \in 0..TextEnd
        BY DEF Shape
    <2>. QED BY <2>1, Tabled, LenProperties DEF Visiting
<1>5. Shape'
    <2>1. \A i \in 0..TextEnd : cols'[i] \in Seq(Items(i))
        BY DEF Shape
    <2>2. at' \in 1..(Len(cols'[pos]) + 1)
        BY <1>4 DEF Shape
    <2>. QED BY <1>1, <1>2, <2>1, <2>2 DEF Shape, Given
<1>6. \A i \in 0..TextEnd : predicted[i] \subseteq predicted'[i]
    OBVIOUS
<1>7. Seeded'
    <2>. SUFFICES ASSUME NEW i \in 0..TextEnd, NEW it \in ToSet(cols'[i]), it[2] = 0
                  PROVE  it[3] = i /\ RuleOf(it) \in predicted'[i]
        BY <1>1, <1>3 DEF Seeded
    <2>1. CASE it \in ToSet(cols[i])
        BY <1>6, <2>1 DEF Seeded
    <2>2. CASE it \notin ToSet(cols[i])
        <3>1. i = pos
            BY <2>2
        <3>. QED BY <1>4, <2>2, <3>1
    <2>. QED BY <2>1, <2>2
<1>8. Topped'
    <2>1. \A i \in DOMAIN topped' : i \in 0..TextEnd' /\ topped'[i] \subseteq predicted'[i]
        <3>1. \A i \in DOMAIN topped : i \in 0..TextEnd /\ topped[i] \subseteq predicted[i]
            BY DEF Topped
        <3>. QED BY <1>1, <1>6, <3>1
    <2>2. ASSUME NEW m \in marks, m # TextEnd PROVE m \in DOMAIN topped' /\ topped'[m] = predicted'[m]
        <3>1. m \in 0..TextEnd /\ m \in DOMAIN topped /\ topped[m] = predicted[m] /\ (m < pos \/ m = junction)
            BY <1>4, <2>2 DEF Topped
        <3>2. CASE m = junction
            BY <3>1, <3>2
        <3>3. CASE m # junction
            BY <1>4, <3>1, <3>3
        <3>. QED BY <3>2, <3>3
    <2>3. junction' = pos' => pos' \in DOMAIN topped' /\ topped'[pos'] = predicted'[pos']
        BY <1>1 DEF Topped
    <2>. QED BY <1>1, <1>4, <2>1, <2>2, <2>3 DEF Topped
<1>9. Ended'
    <2>. SUFFICES ASSUME NEW it \in ToSet(cols'[TextEnd]), it[2] = 0
                  PROVE  \/ AnyChar \in tables.gates[it[1]]
                         \/ TextEnd \in DOMAIN topped' /\ RuleOf(it) \in topped'[TextEnd]
        BY <1>1, <1>3 DEF Ended
    <2>1. CASE it \in ToSet(cols[TextEnd])
        <3>1. \A i \in DOMAIN topped : topped[i] \subseteq topped'[i]
            <4>1. \A i \in DOMAIN topped : i \in 0..TextEnd /\ topped[i] \subseteq predicted[i]
                BY DEF Topped
            <4>. QED BY <1>6, <4>1
        <3>. QED BY <2>1, <3>1 DEF Ended
    <2>2. CASE it \notin ToSet(cols[TextEnd])
        <3>1. pos = TextEnd /\ it \in ToSet(c)
            BY <1>4, <2>2
        <3>2. RuleOf(it) \in predicted'[TextEnd] /\ (TextEnd = junction \/ AnyChar \in tables.gates[it[1]])
            BY <2>2, <3>1
        <3>3. TextEnd = junction => TextEnd \in DOMAIN topped /\ topped'[TextEnd] = predicted'[TextEnd]
            BY <3>1 DEF Topped
        <3>. QED BY <3>2, <3>3
    <2>. QED BY <2>1, <2>2
<1>10. FiledOnce'
    BY DEF FiledOnce, Shape
<1>. QED BY <1>5, <1>7, <1>8, <1>9, <1>10

(* While a column is being closed, what is memoised lies before it.        *)
LEMMA Remembers ==
    ASSUME Inv, Shape', Visiting, UNCHANGED <<given, pos>>,
           \A i \in 0..TextEnd : i # pos => cols'[i] = cols[i],
           leo' = leo \/ \E x \in Columns : x[1] < pos /\ leo' = Memoised(LeoResolve(x).memos)
    PROVE  Memos' /\ Closed'
<1>. USE DEF Settled, Inv
<1>1. tables' = tables /\ text' = text /\ TextEnd' = TextEnd /\ pos' = pos
    BY DEF given, TextEnd
<1>2. pos \in 0..TextEnd /\ TextEnd \in Nat /\ at <= Len(cols[pos]) /\ at \in Int /\ Len(cols[pos]) \in Int
    <2>1. cols[pos] \in Seq(Items(pos)) /\ pos \in 0..TextEnd /\ at \in 1..(Len(cols[pos]) + 1)
        BY DEF Shape
    <2>. QED BY <2>1, Tabled, LenProperties DEF Visiting
<1>3. \A i \in 0..TextEnd : DOMAIN leo[i] # {} => i < pos
    BY <1>2 DEF Closed
<1>4. \A i \in 0..TextEnd : \A r \in DOMAIN leo'[i] :
          r \in Rules(tables.arms) /\ leo'[i][r] = TopOf[<<i, r>>] /\ i < pos
    <2>1. CASE leo' = leo
        BY <1>3, <2>1 DEF Memos
    <2>2. ASSUME NEW x \in Columns, x[1] < pos, leo' = Memoised(LeoResolve(x).memos)
          PROVE  \A i \in 0..TextEnd : \A r \in DOMAIN leo'[i] :
                     r \in Rules(tables.arms) /\ leo'[i][r] = TopOf[<<i, r>>] /\ i < pos
        <3>1. PICK leo2 : leo2 = leo'
            OBVIOUS
        <3>2. \A i \in 0..TextEnd : \A r \in DOMAIN leo2[i] :
                  /\ r \in Rules(tables.arms) /\ leo2[i][r] = TopOf[<<i, r>>]
                  /\ DOMAIN leo[i] # {} \/ i <= x[1]
            <4>1. leo2 = Memoised(LeoResolve(x).memos)
                BY <2>2, <3>1
            <4>2. Keeps(leo2, x)
                BY <4>1, Memoises
            <4>. QED BY <4>2 DEF Keeps
        <3>3. ASSUME NEW i \in 0..TextEnd, NEW r \in DOMAIN leo2[i]
              PROVE  r \in Rules(tables.arms) /\ leo2[i][r] = TopOf[<<i, r>>] /\ i < pos
            <4>1. x[1] \in Int /\ pos \in Int
                BY <1>2 DEF Columns
            <4>2. i <= x[1] => i < pos
                BY <2>2, <4>1
            <4>. QED BY <1>3, <3>2, <4>2
        <3>. QED BY <3>1, <3>3
    <2>. QED BY <2>1, <2>2
<1>5. \A x \in Columns : x[1] < pos => TopOf'[x] = TopOf[x]
    <2>1. PICK c \in Int : c = pos - 1
        BY <1>2
    <2>2. \A j \in 0..TextEnd : j <= c => j \in 0..TextEnd' /\ cols'[j] = cols[j]
        BY <1>1, <1>2, <2>1
    <2>3. \A x \in Columns : x[1] <= c => TopOf'[x] = TopOf[x]
        BY <1>1, <2>2, TopsStay
    <2>4. \A x \in Columns : x[1] \in Int
        BY <1>2 DEF Columns
    <2>. QED BY <1>2, <2>1, <2>3, <2>4
<1>6. ASSUME NEW i \in 0..TextEnd, NEW r \in DOMAIN leo'[i]
      PROVE  r \in Rules(tables.arms) /\ leo'[i][r] = TopOf'[<<i, r>>]
    <2>1. <<i, r>> \in Columns /\ <<i, r>>[1] < pos
        BY <1>4 DEF Columns
    <2>. QED BY <1>4, <1>5, <2>1
<1>7. Memos'
    BY <1>1, <1>6 DEF Memos
<1>8. \A i \in 0..TextEnd : DOMAIN leo'[i] # {} => i < pos
    BY <1>4
<1>9. Closed'
    BY <1>1, <1>8 DEF Closed
<1>. QED BY <1>7, <1>9

(* Predict: no column and rule is seeded twice.                            *)
LEMMA SeedsNew ==
    ASSUME Settled, Visiting, NEW r, NEW seeds, seeds = Seeds(r)
    PROVE  /\ seeds \in Seq(Items(pos)) /\ IsInjective(seeds)
           /\ \A it \in ToSet(seeds) :
                 /\ it \in Items(pos) /\ it[2] = 0 /\ it[3] = pos /\ RuleOf(it) = r /\ r \notin predicted[pos]
                 /\ pos = junction \/ pos # TextEnd \/ AnyChar \in tables.gates[it[1]]
<1>1. Shape /\ Given /\ pos \in Nat
    BY Tabled DEF Settled, Shape
<1>2. ASSUME NEW A, A \subseteq ArmsOf(r), seeds = SeedsOf(A, pos)
      PROVE  /\ seeds \in Seq(Items(pos)) /\ IsInjective(seeds)
             /\ \A it \in ToSet(seeds) : it \in Items(pos) /\ it[1] \in A /\ it[2] = 0 /\ it[3] = pos /\ RuleOf(it) = r
    <2>1. A \subseteq DOMAIN tables.arms
        BY <1>2 DEF ArmsOf
    <2>2. /\ seeds \in Seq(Items(pos)) /\ IsInjective(seeds)
          /\ \A it \in ToSet(seeds) : it \in Items(pos) /\ it[1] \in A /\ it[2] = 0 /\ it[3] = pos
        BY <1>1, <1>2, <2>1, SeedsAre
    <2>3. \A it : it[1] \in A => RuleOf(it) = r
        BY <1>2 DEF ArmsOf, RuleOf
    <2>. QED BY <2>2, <2>3
<1>3. CASE r \in predicted[pos]
    <2>1. seeds = <<>>
        BY <1>3 DEF Seeds
    <2>2. ToSet(<<>>) = {} /\ IsInjective(<<>>) /\ <<>> \in Seq(Items(pos))
        BY DEF ToSet, IsInjective
    <2>. QED BY <2>1, <2>2
<1>4. CASE r \notin predicted[pos] /\ pos = junction
    <2>1. seeds = SeedsOf(ArmsOf(r), pos)
        BY <1>4 DEF Seeds, EveryArm
    <2>. QED BY <1>2, <1>4, <2>1
<1>5. CASE r \notin predicted[pos] /\ pos # junction
    <2>1. PICK A : A = {a \in ArmsOf(r) : Passes(a, text, pos)}
        OBVIOUS
    <2>2. seeds = SeedsOf(A, pos)
        BY <1>5, <2>1 DEF Seeds, Gated
    <2>3. \A a \in A : pos # TextEnd \/ AnyChar \in tables.gates[a]
        <3>1. ~(TextEnd < TextEnd)
            BY <1>1, Tabled
        <3>. QED BY <2>1, <3>1 DEF Passes, TextEnd
    <2>4. \A it \in ToSet(seeds) : pos # TextEnd \/ AnyChar \in tables.gates[it[1]]
        BY <1>2, <2>1, <2>2, <2>3
    <2>5. A \subseteq ArmsOf(r)
        BY <2>1
    <2>. QED BY <1>2, <1>5, <2>2, <2>4, <2>5
<1>. QED BY <1>3, <1>4, <1>5

LEMMA Visited ==
    ASSUME Shape, Visiting
    PROVE  /\ Item \in Items(pos) /\ Item \in ToSet(cols[pos]) /\ cols[pos] \in Seq(Items(pos))
           /\ pos \in 0..TextEnd /\ TextEnd \in Nat /\ Item[3] \in 0..pos /\ RuleOf(Item) \in Rules(tables.arms)
<1>1. cols[pos] \in Seq(Items(pos)) /\ pos \in 0..TextEnd /\ TextEnd \in Nat /\ at \in 1..Len(cols[pos])
    BY Tabled, LenProperties DEF Shape, Visiting
<1>2. Item \in ToSet(cols[pos])
    BY <1>1, LenProperties DEF Item, ToSet
<1>3. Item \in Items(pos)
    BY <1>1, <1>2, Queued
<1>4. Item[3] \in 0..pos /\ RuleOf(Item) \in Rules(tables.arms)
    BY <1>3 DEF Items, RuleOf, Rules
<1>. QED BY <1>1, <1>2, <1>3, <1>4

(* A visit that predicts nothing files only what was advanced.             *)
LEMMA QuietVisits ==
    ASSUME Settled, Visiting, at' = at + 1, UNCHANGED <<client, predicted>>,
           NEW new \in Seq(Items(pos)), \A it \in ToSet(new) : it[2] # 0,
           cols' = [cols EXCEPT ![pos] = Filed(@, new)], DOMAIN leo' = 0..TextEnd
    PROVE  Settled' /\ \A i \in 0..TextEnd : i # pos => cols'[i] = cols[i]
<1>1. Shape
    BY DEF Settled
<1>2. cols[pos] \in Seq(Items(pos)) /\ pos \in 0..TextEnd /\ TextEnd \in Nat
    BY <1>1, Visited
<1>3. PICK c : c = Filed(cols[pos], new)
    OBVIOUS
<1>4. /\ c \in Seq(Items(pos)) /\ ToSet(c) = ToSet(cols[pos]) \cup ToSet(new)
      /\ Len(cols[pos]) <= Len(c)
    BY <1>2, <1>3, FiledIs
<1>5. IsInjective(c)
    <2>1. IsInjective(cols[pos])
        BY <1>2 DEF Settled, Shape, FiledOnce
    <2>. QED BY <1>2, <1>3, <2>1, FiledIs
<1>6. \A i \in 0..TextEnd : cols'[i] = IF i = pos THEN c ELSE cols[i]
    BY <1>1, <1>3 DEF Shape
<1>7. DOMAIN cols' = 0..TextEnd
    BY <1>1 DEF Shape
<1>8. \A it \in ToSet(c) : it[2] = 0 => it \in ToSet(cols[pos])
    BY <1>4
<1>9. UNCHANGED <<given, junction, pos, idle, marks>> /\ topped' = topped /\ predicted' = predicted
    BY DEF client
<1>10. /\ DOMAIN predicted' = 0..TextEnd
       /\ \A i \in 0..TextEnd : predicted'[i] = IF i = pos THEN predicted[i] \cup {} ELSE predicted[i]
    BY <1>1, <1>9 DEF Shape
<1>11. \A i \in DOMAIN topped : topped'[i] = IF i = junction THEN predicted'[i] ELSE topped[i]
    <2>1. \A i \in DOMAIN topped : i = junction => topped[i] = predicted[i]
        <3>1. junction \in {-1, pos} /\ \A i \in DOMAIN topped : i # -1
            BY <1>1, <1>2 DEF Settled, Shape, Topped
        <3>. QED BY <3>1 DEF Settled, Topped
    <2>. QED BY <1>9, <2>1
<1>12. Settled'
    <2>1. Visit(c, {})
        BY <1>4, <1>5, <1>6, <1>7, <1>8, <1>9, <1>10, <1>11 DEF Visit
    <2>. QED BY <2>1, Visits
<1>. QED BY <1>6, <1>12

LEMMA PredictKeeps == ASSUME Inv, Predict PROVE Inv'
<1>. DEFINE r == Facing(Item).name
<1>1. /\ Visiting /\ ~Complete(Item) /\ Shape /\ Settled /\ at' = at + 1
      /\ UNCHANGED <<given, leo, groups, leoLinks, junction, pos, idle, marks>>
    BY DEF Predict, Inv, Settled
<1>2. /\ cols' = [cols EXCEPT ![pos] = Filed(@ \o Seeds(r), PastEmpty(r))]
      /\ predicted' = [predicted EXCEPT ![pos] = @ \cup {r}]
      /\ topped' = IF pos = junction /\ r \notin predicted[pos] THEN Put(topped, pos, topped[pos] \cup {r}) ELSE topped
    BY DEF Predict
<1>. HIDE DEF r
<1>3. Item \in Items(pos) /\ cols[pos] \in Seq(Items(pos)) /\ pos \in 0..TextEnd /\ TextEnd \in Nat
    BY <1>1, Visited
<1>4. PICK seeds, past : seeds = Seeds(r) /\ past = PastEmpty(r)
    OBVIOUS
<1>5. /\ seeds \in Seq(Items(pos)) /\ IsInjective(seeds)
      /\ \A it \in ToSet(seeds) :
            /\ it \in Items(pos) /\ it[2] = 0 /\ it[3] = pos /\ RuleOf(it) = r /\ r \notin predicted[pos]
            /\ pos = junction \/ pos # TextEnd \/ AnyChar \in tables.gates[it[1]]
    BY <1>1, <1>4, SeedsNew
<1>6. past \in Seq(Items(pos)) /\ \A it \in ToSet(past) : it[2] # 0
    <2>1. CASE past = <<>>
        BY <2>1 DEF ToSet
    <2>2. CASE past # <<>>
        <3>1. PICK moved : moved = Advance(Item)
            OBVIOUS
        <3>2. past = <<moved>> /\ moved \in Items(pos) /\ moved[2] # 0
            BY <1>1, <1>3, <1>4, <2>2, <3>1, Moves DEF PastEmpty
        <3>. QED BY <3>2 DEF ToSet
    <2>. QED BY <2>1, <2>2
<1>7. PICK begun : begun = cols[pos] \o seeds
    OBVIOUS
<1>8. IsInjective(cols[pos]) /\ ToSet(cols[pos]) \cap ToSet(seeds) = {}
    <2>1. IsInjective(cols[pos])
        BY <1>1, <1>3 DEF Settled, Shape, FiledOnce
    <2>2. ASSUME NEW it \in ToSet(cols[pos]), it \in ToSet(seeds) PROVE FALSE
        <3>1. it[2] = 0 /\ RuleOf(it) = r /\ r \notin predicted[pos]
            BY <1>5, <2>2
        <3>2. RuleOf(it) \in predicted[pos]
            BY <1>1, <1>3, <3>1 DEF Settled, Seeded
        <3>. QED BY <3>1, <3>2
    <2>. QED BY <2>1, <2>2
<1>9. /\ begun \in Seq(Items(pos)) /\ ToSet(begun) = ToSet(cols[pos]) \cup ToSet(seeds)
      /\ Len(begun) = Len(cols[pos]) + Len(seeds)
    BY <1>3, <1>5, <1>7, Joined
<1>10. IsInjective(begun)
    BY <1>3, <1>5, <1>7, <1>8, Joined
<1>11. PICK c : c = Filed(begun, past)
    OBVIOUS
<1>12. c \in Seq(Items(pos)) /\ ToSet(c) = ToSet(begun) \cup ToSet(past) /\ Len(begun) <= Len(c)
    BY <1>6, <1>9, <1>11, FiledIs
<1>13. IsInjective(c)
    BY <1>6, <1>9, <1>10, <1>11, FiledIs
<1>14. Len(cols[pos]) <= Len(c)
    <2>1. Len(cols[pos]) \in Nat /\ Len(seeds) \in Nat /\ Len(c) \in Nat
        BY <1>3, <1>5, <1>12, LenProperties
    <2>. QED BY <1>9, <1>12, <2>1
<1>15. DOMAIN cols' = 0..TextEnd /\ \A i \in 0..TextEnd : cols'[i] = IF i = pos THEN c ELSE cols[i]
    BY <1>1, <1>2, <1>4, <1>7, <1>11 DEF Shape
<1>16. /\ DOMAIN predicted' = 0..TextEnd
       /\ \A i \in 0..TextEnd : predicted'[i] = IF i = pos THEN predicted[i] \cup {r} ELSE predicted[i]
    BY <1>1, <1>2 DEF Shape
<1>17. DOMAIN leo' = 0..TextEnd
    BY <1>1 DEF Shape
<1>18. /\ DOMAIN topped' = DOMAIN topped
       /\ \A i \in DOMAIN topped : topped'[i] = IF i = junction THEN predicted'[i] ELSE topped[i]
    <2>1. /\ junction = pos => pos \in DOMAIN topped /\ topped[pos] = predicted[pos]
          /\ \A i \in DOMAIN topped : i = junction => i = pos
        BY <1>1, <1>3 DEF Settled, Shape, Topped
    <2>2. CASE pos = junction /\ r \notin predicted[pos]
        BY <1>2, <1>3, <1>16, <2>1, <2>2 DEF Put
    <2>3. CASE ~(pos = junction /\ r \notin predicted[pos])
        BY <1>2, <1>3, <1>16, <2>1, <2>3
    <2>. QED BY <2>2, <2>3
<1>19. \A it \in ToSet(c) : it[2] = 0 =>
          \/ it \in ToSet(cols[pos])
          \/ /\ it[3] = pos /\ RuleOf(it) \in predicted'[pos]
             /\ pos = junction \/ pos # TextEnd \/ AnyChar \in tables.gates[it[1]]
    <2>1. r \in predicted'[pos]
        BY <1>3, <1>16
    <2>. QED BY <1>5, <1>6, <1>9, <1>12, <2>1
<1>20. Settled'
    <2>1. Visit(c, {r})
        BY <1>1, <1>12, <1>13, <1>14, <1>15, <1>16, <1>17, <1>18, <1>19 DEF Visit
    <2>. QED BY <1>1, <2>1, Visits
<1>21. Memos' /\ Closed'
    <2>1. Shape' /\ leo' = leo /\ UNCHANGED <<given, pos>>
        BY <1>1, <1>20 DEF Settled
    <2>. QED BY <1>1, <1>15, <2>1, Remembers
<1>. QED BY <1>20, <1>21 DEF Inv

(* A visit that only passes on.                                            *)
LEMMA PassesKeep ==
    ASSUME Inv, Visiting, at' = at + 1, UNCHANGED <<client, cols, predicted, leo>>
    PROVE  Inv'
<1>1. Shape /\ Settled
    BY DEF Inv, Settled
<1>2. PICK c : c = cols[pos]
    OBVIOUS
<1>3. c \in Seq(Items(pos)) /\ pos \in 0..TextEnd /\ IsInjective(c)
    BY <1>1, <1>2, Visited DEF Settled, Shape, FiledOnce
<1>4. Len(cols[pos]) <= Len(c)
    BY <1>2, <1>3, LenProperties
<1>5. UNCHANGED <<given, junction, pos, idle, marks>> /\ topped' = topped
    BY DEF client
<1>6. /\ DOMAIN cols' = 0..TextEnd /\ DOMAIN predicted' = 0..TextEnd /\ DOMAIN leo' = 0..TextEnd
      /\ \A i \in 0..TextEnd : cols'[i] = IF i = pos THEN c ELSE cols[i]
      /\ \A i \in 0..TextEnd : predicted'[i] = IF i = pos THEN predicted[i] \cup {} ELSE predicted[i]
    BY <1>1, <1>2 DEF Shape
<1>7. \A i \in DOMAIN topped : topped'[i] = IF i = junction THEN predicted'[i] ELSE topped[i]
    <2>1. /\ junction = pos => pos \in DOMAIN topped /\ topped[pos] = predicted[pos]
          /\ \A i \in DOMAIN topped : i = junction => i = pos
        BY <1>1, <1>3 DEF Settled, Shape, Topped
    <2>. QED BY <1>5, <2>1
<1>8. Settled'
    <2>1. Visit(c, {})
        BY <1>2, <1>3, <1>4, <1>5, <1>6, <1>7 DEF Visit
    <2>. QED BY <1>1, <2>1, Visits
<1>9. Memos' /\ Closed'
    <2>1. Shape' /\ UNCHANGED <<given, pos>>
        BY <1>5, <1>8 DEF Settled
    <2>. QED BY <2>1, Remembers
<1>. QED BY <1>8, <1>9 DEF Inv

(* Where a completion climbs from, and where to.                           *)
LEMMA ClimbsFrom ==
    ASSUME Inv, Completing, NEW x, x = <<Origin(Item), RuleOf(Item)>>
    PROVE  /\ x \in Columns /\ x[1] < pos
           /\ LeoResolve(x).top # NoItem => LeoResolve(x).top \in Items(pos) /\ LeoResolve(x).top[2] # 0
<1>1. Shape /\ Memos /\ Visiting /\ Origin(Item) < pos
    BY DEF Inv, Settled, Completing
<1>2. /\ pos \in 0..TextEnd /\ TextEnd \in Nat /\ Item[3] \in 0..pos /\ RuleOf(Item) \in Rules(tables.arms)
    BY <1>1, Visited
<1>3. x \in Columns /\ x[1] < pos /\ x[1] \in Int
    BY <1>1, <1>2 DEF Columns, Origin
<1>4. LeoResolve(x).top = TopOf[x]
    BY <1>1, <1>3, Resolves DEF ResolvesRight
<1>5. ASSUME TopOf[x] # NoItem PROVE TopOf[x] \in Items(pos) /\ TopOf[x][2] # 0
    <2>1. TopOf[x] \in Items(x[1]) /\ TopOf[x][2] # 0
        BY <1>1, <1>3, <1>5, Tops DEF TopsRight
    <2>2. x[1] <= pos /\ pos \in Int
        BY <1>2, <1>3
    <2>. QED BY <1>3, <2>1, <2>2, ItemsGrow
<1>. QED BY <1>3, <1>4, <1>5

LEMMA JumpKeeps == ASSUME Inv, Jump PROVE Inv'
<1>1. PICK x : x = <<Origin(Item), RuleOf(Item)>>
    OBVIOUS
<1>2. PICK top : top = LeoResolve(x).top
    OBVIOUS
<1>3. /\ Completing /\ Visiting /\ Shape /\ Settled /\ Memos /\ at' = at + 1 /\ UNCHANGED <<client, predicted>>
      /\ top # NoItem /\ cols' = [cols EXCEPT ![pos] = Filed(@, <<top>>)]
      /\ leo' = Memoised(LeoResolve(x).memos)
    BY <1>1, <1>2 DEF Jump, JumpTo, ItsClimb, Completing, Inv, Settled
<1>4. x \in Columns /\ x[1] < pos /\ top \in Items(pos) /\ top[2] # 0
    BY <1>1, <1>2, <1>3, ClimbsFrom
<1>5. PICK new : new = <<top>>
    OBVIOUS
<1>6. new \in Seq(Items(pos)) /\ \A it \in ToSet(new) : it[2] # 0
    BY <1>4, <1>5 DEF ToSet
<1>7. DOMAIN leo' = 0..TextEnd
    <2>1. PICK leo2 : leo2 = leo'
        OBVIOUS
    <2>2. leo2 = Memoised(LeoResolve(x).memos)
        BY <1>3, <2>1
    <2>3. Keeps(leo2, x)
        BY <1>3, <1>4, <2>2, Memoises
    <2>. QED BY <2>1, <2>3 DEF Keeps
<1>8. Settled' /\ \A i \in 0..TextEnd : i # pos => cols'[i] = cols[i]
    BY <1>3, <1>5, <1>6, <1>7, QuietVisits
<1>9. Memos' /\ Closed'
    <2>1. Shape' /\ UNCHANGED <<given, pos>>
        BY <1>3, <1>8 DEF Settled, client
    <2>. QED BY <1>3, <1>4, <1>8, <2>1, Remembers
<1>. QED BY <1>8, <1>9 DEF Inv

LEMMA CompleteAllKeeps == ASSUME Inv, CompleteAll PROVE Inv'
<1>1. PICK x : x = <<Origin(Item), RuleOf(Item)>>
    OBVIOUS
<1>2. PICK waiters : waiters = Waiters
    OBVIOUS
<1>3. /\ Completing /\ Visiting /\ Shape /\ Settled /\ Memos /\ at' = at + 1 /\ UNCHANGED <<client, predicted>>
      /\ cols' = [cols EXCEPT ![pos] = Filed(@, Advanced(waiters))]
      /\ leo' = leo \/ leo' = Memoised(LeoResolve(x).memos)
    BY <1>1, <1>2 DEF CompleteAll, Refused, ItsClimb, Completing, Inv, Settled
<1>4. x \in Columns /\ x[1] < pos
    BY <1>1, <1>3, ClimbsFrom
<1>5. pos \in 0..TextEnd /\ TextEnd \in Nat /\ x[1] \in 0..TextEnd
    BY <1>3, <1>4, Visited DEF Columns
<1>6. /\ waiters \in Seq(Items(x[1]))
      /\ \A it \in ToSet(waiters) : it \in Items(x[1]) /\ ~Complete(it)
    BY <1>1, <1>2, <1>3, <1>5, Waits DEF Waiters
<1>7. \A it \in ToSet(waiters) : Advance(it) \in Items(pos) /\ Advance(it)[2] # 0
    <2>. SUFFICES ASSUME NEW it \in ToSet(waiters) PROVE Advance(it) \in Items(pos) /\ Advance(it)[2] # 0
        OBVIOUS
    <2>1. PICK moved : moved = Advance(it)
        OBVIOUS
    <2>2. moved \in Items(x[1]) /\ moved[2] # 0
        BY <1>3, <1>6, <2>1, Moves
    <2>3. x[1] \in Int /\ pos \in Int /\ x[1] <= pos
        BY <1>4, <1>5
    <2>. QED BY <2>1, <2>2, <2>3, ItemsGrow
<1>8. PICK new : new = Advanced(waiters)
    OBVIOUS
<1>9. new \in Seq(Items(pos)) /\ \A it \in ToSet(new) : it[2] # 0
    <2>1. /\ new \in Seq(Items(pos))
          /\ \A y \in ToSet(new) : \E it \in ToSet(waiters) : y = Advance(it)
        BY <1>6, <1>7, <1>8, AdvancedIs
    <2>. QED BY <1>7, <2>1
<1>10. DOMAIN leo' = 0..TextEnd
    <2>1. CASE leo' = leo
        BY <1>3, <2>1 DEF Shape
    <2>2. CASE leo' = Memoised(LeoResolve(x).memos)
        <3>1. PICK leo2 : leo2 = leo'
            OBVIOUS
        <3>2. Keeps(leo2, x)
            BY <1>3, <1>4, <2>2, <3>1, Memoises
        <3>. QED BY <3>1, <3>2 DEF Keeps
    <2>. QED BY <1>3, <2>1, <2>2
<1>11. Settled' /\ \A i \in 0..TextEnd : i # pos => cols'[i] = cols[i]
    BY <1>3, <1>8, <1>9, <1>10, QuietVisits
<1>12. Memos' /\ Closed'
    <2>1. Shape' /\ UNCHANGED <<given, pos>>
        BY <1>3, <1>11 DEF Settled, client
    <2>. QED BY <1>3, <1>4, <1>11, <2>1, Remembers
<1>. QED BY <1>11, <1>12 DEF Inv

(* The scan files only what was advanced, into later columns.              *)
LEMMA ScanKeeps == ASSUME Inv, Scan PROVE Inv'
<1>. USE DEF Settled, Inv
<1>1. /\ ~idle /\ at > Len(cols[pos]) /\ pos < TextEnd /\ pos' = pos + 1 /\ at' = 1 /\ junction' = -1
      /\ tables' = tables /\ text' = text /\ TextEnd' = TextEnd /\ recordLinks' = recordLinks
      /\ UNCHANGED <<given, predicted, leo, topped, idle, marks>>
      /\ cols' = [j \in DOMAIN cols |-> IF j > pos THEN Filed(cols[j], Advanced(LandingAt(j))) ELSE cols[j]]
    BY DEF Scan, given, TextEnd
<1>2. pos \in 0..TextEnd /\ TextEnd \in Nat /\ pos + 1 \in 0..TextEnd /\ pos + 1 \in Nat
    BY <1>1, Tabled DEF Shape
<1>3. DOMAIN cols = 0..TextEnd /\ \A i \in 0..TextEnd : cols[i] \in Seq(Items(i)) /\ IsInjective(cols[i])
    BY DEF Shape, FiledOnce
<1>4. \A i : Items(i)' = Items(i)
    BY <1>1 DEF Items, Body
<1>5. \A it : RuleOf(it)' = RuleOf(it)
    BY <1>1 DEF RuleOf
<1>6. DOMAIN cols' = 0..TextEnd /\ \A i \in 0..TextEnd : i <= pos => cols'[i] = cols[i]
    BY <1>1, <1>2, <1>3
<1>7. ASSUME NEW j \in 0..TextEnd, j > pos
      PROVE  /\ cols'[j] \in Seq(Items(j)) /\ IsInjective(cols'[j])
             /\ \A it \in ToSet(cols'[j]) : it[2] = 0 => it \in ToSet(cols[j])
    <2>1. PICK T : T = {it \in ToSet(cols[pos]) : FacesTerm(it) /\ Lands(Facing(it), pos) = j}
        OBVIOUS
    <2>2. PICK list : list = LandingAt(j)
        OBVIOUS
    <2>3. list = Among(cols[pos], T)
        BY <2>1, <2>2 DEF LandingAt
    <2>4. list \in Seq(Items(pos)) /\ ToSet(list) = ToSet(cols[pos]) \cap T
        BY <1>2, <1>3, <2>3, AmongIs
    <2>5. ToSet(list) \subseteq Items(pos)
        BY <2>4, Queued
    <2>6. ASSUME NEW it \in ToSet(list) PROVE Advance(it) \in Items(j) /\ Advance(it)[2] # 0
        <3>1. it \in Items(pos) /\ ~Complete(it)
            BY <2>1, <2>4, <2>5 DEF FacesTerm
        <3>2. PICK moved : moved = Advance(it)
            OBVIOUS
        <3>3. moved \in Items(pos) /\ moved[2] # 0
            BY <3>1, <3>2, Moves
        <3>4. pos \in Int /\ j \in Int /\ pos <= j
            BY <1>2, <1>7
        <3>. QED BY <3>2, <3>3, <3>4, ItemsGrow
    <2>7. PICK new : new = Advanced(list)
        OBVIOUS
    <2>8. new \in Seq(Items(j)) /\ \A y \in ToSet(new) : \E it \in ToSet(list) : y = Advance(it)
        BY <2>4, <2>6, <2>7, AdvancedIs
    <2>9. PICK c : c = Filed(cols[j], new)
        OBVIOUS
    <2>10. c \in Seq(Items(j)) /\ ToSet(c) = ToSet(cols[j]) \cup ToSet(new)
        BY <1>3, <2>8, <2>9, FiledIs
    <2>11. IsInjective(c)
        BY <1>3, <2>8, <2>9, FiledIs
    <2>12. cols'[j] = c
        BY <1>1, <1>3, <1>7, <2>2, <2>7, <2>9
    <2>13. \A it \in ToSet(c) : it[2] = 0 => it \in ToSet(cols[j])
        BY <2>6, <2>8, <2>10
    <2>. QED BY <2>10, <2>11, <2>12, <2>13
<1>8. \A i \in 0..TextEnd : /\ cols'[i] \in Seq(Items(i)) /\ IsInjective(cols'[i])
                         /\ \A it \in ToSet(cols'[i]) : it[2] = 0 => it \in ToSet(cols[i])
    <2>. SUFFICES ASSUME NEW i \in 0..TextEnd
                  PROVE  /\ cols'[i] \in Seq(Items(i)) /\ IsInjective(cols'[i])
                         /\ \A it \in ToSet(cols'[i]) : it[2] = 0 => it \in ToSet(cols[i])
        OBVIOUS
    <2>1. i <= pos \/ i > pos
        BY <1>2
    <2>. QED BY <1>3, <1>6, <1>7, <2>1
<1>9. Shape'
    <2>1. at' \in 1..(Len(cols'[pos + 1]) + 1)
        BY <1>1, <1>2, <1>8, LenProperties
    <2>2. Given'
        BY <1>1 DEF Given, Shape
    <2>. QED BY <1>1, <1>2, <1>4, <1>6, <1>8, <2>1, <2>2 DEF Shape
<1>10. Seeded'
    BY <1>1, <1>5, <1>8 DEF Seeded
<1>11. Topped'
    <2>1. \A m \in marks : m = TextEnd \/ m < pos + 1 \/ m = -1
        <3>1. \A m \in marks : m \in 0..TextEnd /\ (m = TextEnd \/ m < pos \/ m = junction)
            BY <1>1 DEF Topped
        <3>2. junction \in {-1, pos}
            BY DEF Shape
        <3>. QED BY <1>2, <3>1, <3>2
    <2>2. -1 # pos + 1
        BY <1>2
    <2>. QED BY <1>1, <2>1, <2>2 DEF Topped
<1>12. Ended'
    <2>1. \A it \in ToSet(cols'[TextEnd]) : it[2] = 0 => it \in ToSet(cols[TextEnd])
        BY <1>2, <1>8
    <2>. QED BY <1>1, <1>5, <2>1 DEF Ended
<1>13. FiledOnce'
    BY <1>6, <1>8 DEF FiledOnce
<1>14. ASSUME NEW i \in 0..TextEnd, NEW r \in DOMAIN leo[i]
       PROVE  /\ i < pos + 1
              /\ r \in Rules(tables.arms) /\ leo[i][r] = TopOf'[<<i, r>>]
    <2>1. i <= pos /\ i < pos + 1
        BY <1>2 DEF Closed
    <2>2. r \in Rules(tables.arms) /\ leo[i][r] = TopOf[<<i, r>>]
        BY DEF Memos
    <2>3. <<i, r>> \in Columns /\ <<i, r>>[1] <= pos
        BY <2>1, <2>2 DEF Columns
    <2>4. PICK c \in Int : c = pos
        BY <1>2
    <2>5. \A j \in 0..TextEnd : j <= c => j \in 0..TextEnd' /\ cols'[j] = cols[j]
        BY <1>1, <1>6, <2>4
    <2>6. \A x \in Columns : x[1] <= c => TopOf'[x] = TopOf[x]
        BY <1>1, <1>9, <2>5, TopsStay
    <2>. QED BY <2>1, <2>2, <2>3, <2>4, <2>6
<1>15. Memos' /\ Closed'
    BY <1>1, <1>14 DEF Memos, Closed
<1>. QED BY <1>9, <1>10, <1>11, <1>12, <1>13, <1>15

(* Nothing of the chart changes, and the call goes on or returns.          *)
LEMMA ReturnKeeps ==
    ASSUME Inv, UNCHANGED <<given, cols, predicted, leo, topped, pos, at, marks>>,
           \/ junction' = junction /\ idle' = idle
           \/ at > Len(cols[pos]) /\ pos = TextEnd /\ idle' = TRUE /\ junction' = -1
    PROVE  Inv'
<1>. USE DEF Settled, Inv
<1>1. /\ tables' = tables /\ recordLinks' = recordLinks /\ text' = text /\ TextEnd' = TextEnd
      /\ UNCHANGED <<cols, predicted, leo, topped, pos, at, marks>>
    BY DEF given, TextEnd
<1>2. \A i : Items(i)' = Items(i)
    BY <1>1 DEF Items, Body
<1>3. \A it : RuleOf(it)' = RuleOf(it)
    BY <1>1 DEF RuleOf
<1>4. pos # -1 /\ TextEnd \in Nat
    BY Tabled DEF Shape
<1>5. Shape'
    BY <1>1, <1>2 DEF Shape, Given
<1>6. Seeded' /\ Topped' /\ Ended' /\ FiledOnce'
    BY <1>1, <1>3, <1>4 DEF Seeded, Topped, Ended, FiledOnce
<1>7. \A x \in Columns : TopOf'[x] = TopOf[x]
    <2>1. PICK c \in Int : c = TextEnd
        BY <1>4
    <2>2. \A j \in 0..TextEnd : j <= c => j \in 0..TextEnd' /\ cols'[j] = cols[j]
        BY <1>1
    <2>3. \A x \in Columns : x[1] <= c => TopOf'[x] = TopOf[x]
        BY <1>1, <1>5, <2>2, TopsStay
    <2>4. \A x \in Columns : x[1] <= c
        BY <2>1, <1>4 DEF Columns
    <2>. QED BY <2>3, <2>4
<1>8. Memos'
    <2>. SUFFICES ASSUME NEW i \in 0..TextEnd, NEW r \in DOMAIN leo[i]
                  PROVE  r \in Rules(tables.arms) /\ leo[i][r] = TopOf'[<<i, r>>]
        <3>. HIDE DEF Inv, Settled
        <3>. QED BY <1>1 DEF Memos
    <2>1. r \in Rules(tables.arms) /\ leo[i][r] = TopOf[<<i, r>>] /\ <<i, r>> \in Columns
        BY DEF Memos, Columns
    <2>. QED BY <1>7, <2>1
<1>9. Closed'
    BY <1>1 DEF Closed
<1>. QED BY <1>5, <1>6, <1>8, <1>9

(* The arms a close dropped at the end of the text are none of those that  *)
(* are there; where all are, there are none.                               *)
LEMMA LateNew ==
    ASSUME Settled, idle, NEW late, late = Late(TextEnd)
    PROVE  /\ late \in Seq(Items(TextEnd)) /\ IsInjective(late) /\ ToSet(late) \cap ToSet(cols[TextEnd]) = {}
           /\ \A it \in ToSet(late) : it[2] = 0 /\ it[3] = TextEnd /\ RuleOf(it) \in predicted[TextEnd]
           /\ TextEnd \in DOMAIN topped /\ predicted[TextEnd] \subseteq topped[TextEnd] => late = <<>>
<1>1. Given /\ TextEnd \in Nat
    BY Tabled DEF Settled, Shape
<1>2. PICK rules : rules = predicted[TextEnd] \ (IF TextEnd \in DOMAIN topped THEN topped[TextEnd] ELSE {})
    OBVIOUS
<1>3. PICK A : A = {a \in DOMAIN tables.arms : tables.arms[a].rule \in rules /\ AnyChar \notin tables.gates[a]}
    OBVIOUS
<1>4. late = SeedsOf(A, TextEnd)
    BY <1>2, <1>3 DEF Late, DroppedArms
<1>5. /\ late \in Seq(Items(TextEnd)) /\ IsInjective(late)
      /\ \A it \in ToSet(late) : it \in Items(TextEnd) /\ it[1] \in A /\ it[2] = 0 /\ it[3] = TextEnd
    <2>1. A \subseteq DOMAIN tables.arms
        BY <1>3
    <2>. QED BY <1>1, <1>4, <2>1, SeedsAre
<1>6. \A it \in ToSet(late) : RuleOf(it) \in rules /\ AnyChar \notin tables.gates[it[1]]
    BY <1>3, <1>5 DEF RuleOf
<1>7. ASSUME NEW it \in ToSet(late), it \in ToSet(cols[TextEnd]) PROVE FALSE
    <2>1. TextEnd \in DOMAIN topped /\ RuleOf(it) \in topped[TextEnd]
        BY <1>5, <1>6, <1>7 DEF Settled, Ended
    <2>. QED BY <1>2, <1>6, <1>7, <2>1
<1>8. ASSUME TextEnd \in DOMAIN topped, predicted[TextEnd] \subseteq topped[TextEnd] PROVE late = <<>>
    <2>1. rules = {}
        BY <1>2, <1>8
    <2>2. ToSet(late) = {}
        BY <1>6, <2>1
    <2>3. Len(late) \in Nat /\ DOMAIN late = 1..Len(late)
        BY <1>5, LenProperties
    <2>4. 1 \notin DOMAIN late
        BY <2>2 DEF ToSet
    <2>5. Len(late) = 0
        BY <2>3, <2>4
    <2>. QED BY <1>5, <2>5
<1>. QED BY <1>2, <1>5, <1>6, <1>7, <1>8

LEMMA ExtendKeeps ==
    ASSUME Inv, NEW piece, IsList(piece), Extend(piece)
    PROVE  Inv'
<1>. USE DEF Settled, Inv
<1>1. PICK n, end : n = TextEnd /\ end = TextEnd + Len(piece)
    OBVIOUS
<1>2. /\ idle /\ piece # <<>> /\ end <= MaxText /\ text' = text \o piece
      /\ cols' = [Grown(cols, end, <<>>) EXCEPT ![n] = @ \o Late(n)]
      /\ predicted' = Grown(predicted, end, {}) /\ leo' = Grown(leo, end, <<>>)
      /\ topped' = Put(topped, n, (IF n \in DOMAIN topped THEN topped[n] ELSE {}) \cup predicted[n])
      /\ junction' = n /\ pos' = n /\ at' = Len(cols[n]) + 1
      /\ idle' = FALSE /\ marks' = marks \cup {end} /\ tables' = tables /\ recordLinks' = recordLinks
    BY <1>1 DEF Extend, TextEnd
<1>3. n \in Nat /\ n = TextEnd /\ pos = n
    BY <1>1, <1>2, Tabled DEF Topped
<1>4. IsList(text') /\ TextEnd' = end /\ end \in Nat /\ end > n
    <2>1. PICK chars : chars = ToSet(text) \cup ToSet(piece)
        OBVIOUS
    <2>2. text \in Seq(ToSet(text)) /\ piece \in Seq(ToSet(piece))
        BY DEF Shape, Given, IsList
    <2>3. text \in Seq(chars) /\ piece \in Seq(chars)
        <3>1. ToSet(text) \subseteq chars /\ ToSet(piece) \subseteq chars
            BY <2>1
        <3>. QED BY <2>2, <3>1, SeqMonotonic
    <2>4. Len(piece) \in Nat \ {0}
        BY <1>2, <2>3, EmptySeq, LenProperties
    <2>5. text \o piece \in Seq(chars) /\ Len(text \o piece) = Len(text) + Len(piece)
        BY <2>3, ConcatProperties
    <2>6. IsList(text \o piece)
        BY <2>5, ListIs
    <2>. QED BY <1>1, <1>2, <1>3, <2>4, <2>5, <2>6 DEF TextEnd
<1>5. \A i : Items(i)' = Items(i)
    BY <1>2 DEF Items, Body
<1>6. \A it : RuleOf(it)' = RuleOf(it)
    BY <1>2 DEF RuleOf
<1>7. PICK late : late = Late(TextEnd)
    OBVIOUS
<1>8. /\ late \in Seq(Items(n)) /\ IsInjective(late) /\ ToSet(late) \cap ToSet(cols[n]) = {}
      /\ \A it \in ToSet(late) : it[2] = 0 /\ it[3] = n /\ RuleOf(it) \in predicted[n]
      /\ n \in DOMAIN topped /\ predicted[n] \subseteq topped[n] => late = <<>>
    BY <1>2, <1>3, <1>7, LateNew
<1>9. cols[n] \in Seq(Items(n)) /\ IsInjective(cols[n])
    BY <1>3 DEF Shape, FiledOnce
<1>10. PICK c : c = cols[n] \o late
    OBVIOUS
<1>11. c \in Seq(Items(n)) /\ ToSet(c) = ToSet(cols[n]) \cup ToSet(late) /\ Len(c) = Len(cols[n]) + Len(late)
    BY <1>8, <1>9, <1>10, Joined
<1>12. IsInjective(c)
    BY <1>8, <1>9, <1>10, Joined
<1>13. /\ DOMAIN cols' = 0..end /\ cols'[n] = c
       /\ \A i \in 0..end : i < n => cols'[i] = cols[i]
       /\ \A i \in 0..end : i > n => cols'[i] = <<>>
    <2>1. DOMAIN cols = 0..n
        BY <1>3 DEF Shape
    <2>2. PICK g : g = Grown(cols, end, <<>>)
        OBVIOUS
    <2>3. /\ DOMAIN g = 0..end
          /\ \A i \in 0..end : g[i] = IF i \in 0..n THEN cols[i] ELSE <<>>
        BY <2>1, <2>2 DEF Grown
    <2>4. cols' = [g EXCEPT ![n] = @ \o late]
        BY <1>2, <1>3, <1>7, <2>2
    <2>5. n \in 0..end
        BY <1>3, <1>4
    <2>6. DOMAIN cols' = 0..end /\ cols'[n] = g[n] \o late /\ \A i \in 0..end : i # n => cols'[i] = g[i]
        BY <2>3, <2>4, <2>5
    <2>7. g[n] = cols[n]
        BY <1>3, <2>3, <2>5
    <2>8. \A i \in 0..end : (i < n => i \in 0..n /\ i # n) /\ (i > n => i \notin 0..n /\ i # n)
        BY <1>3, <1>4
    <2>. QED BY <1>10, <2>3, <2>6, <2>7, <2>8
<1>14. /\ DOMAIN predicted' = 0..end /\ DOMAIN leo' = 0..end
       /\ \A i \in 0..n : predicted'[i] = predicted[i] /\ leo'[i] = leo[i]
       /\ \A i \in 0..end : i > n => leo'[i] = <<>>
    <2>1. DOMAIN predicted = 0..n /\ DOMAIN leo = 0..n
        BY <1>3 DEF Shape
    <2>2. \A i \in 0..n : i \in 0..end
        BY <1>3, <1>4
    <2>3. \A i \in 0..end : i > n => i \notin 0..n
        BY <1>3
    <2>. QED BY <1>2, <2>1, <2>2, <2>3 DEF Grown
<1>15. \A i \in 0..end : (i \in 0..n /\ i < n) \/ (i = n /\ i \in 0..n) \/ i > n
    BY <1>3, <1>4
<1>16. \A i \in 0..end : cols'[i] \in Seq(Items(i)) /\ IsInjective(cols'[i])
    <2>1. \A i \in 0..n : cols[i] \in Seq(Items(i)) /\ IsInjective(cols[i])
        BY <1>3 DEF Shape, FiledOnce
    <2>2. \A i : <<>> \in Seq(Items(i))
        OBVIOUS
    <2>3. IsInjective(<<>>)
        BY DEF IsInjective
    <2>. QED BY <1>11, <1>12, <1>13, <1>15, <2>1, <2>2, <2>3
<1>17. Shape'
    <2>1. Len(cols[n]) \in Nat /\ Len(late) \in Nat /\ Len(cols'[n]) = Len(cols[n]) + Len(late)
        BY <1>8, <1>9, <1>11, <1>13, LenProperties
    <2>2. at' \in 1..(Len(cols'[n]) + 1)
        BY <1>2, <2>1
    <2>3. Given'
        BY <1>2, <1>4 DEF Shape, Given
    <2>4. n \in 0..end
        BY <1>3, <1>4
    <2>. QED BY <1>2, <1>4, <1>5, <1>13, <1>14, <1>16, <2>2, <2>3, <2>4 DEF Shape
<1>18. Seeded'
    <2>. SUFFICES ASSUME NEW i \in 0..end, NEW it \in ToSet(cols'[i]), it[2] = 0
                  PROVE  it[3] = i /\ RuleOf(it) \in predicted'[i]
        BY <1>4, <1>6 DEF Seeded
    <2>1. i <= n
        <3>1. ToSet(<<>>) = {}
            BY DEF ToSet
        <3>. QED BY <1>3, <1>13, <1>15, <3>1
    <2>2. CASE it \in ToSet(cols[i])
        BY <1>3, <1>14, <1>15, <2>1, <2>2 DEF Seeded
    <2>3. CASE it \notin ToSet(cols[i])
        <3>1. i = n
            <4>1. i < n => cols'[i] = cols[i]
                BY <1>13
            <4>2. i < n \/ i = n
                BY <1>3, <2>1
            <4>. QED BY <2>3, <4>1, <4>2
        <3>2. it \in ToSet(late)
            BY <1>11, <1>13, <2>3, <3>1
        <3>3. n \in 0..n
            BY <1>3
        <3>. QED BY <1>8, <1>14, <3>1, <3>2, <3>3
    <2>. QED BY <2>2, <2>3
<1>19. /\ n \in DOMAIN topped' /\ topped'[n] = predicted'[n]
       /\ DOMAIN topped' = DOMAIN topped \cup {n}
       /\ \A i \in DOMAIN topped : i # n => topped'[i] = topped[i]
    <2>1. n \in DOMAIN topped => topped[n] \subseteq predicted[n]
        BY DEF Topped
    <2>2. /\ DOMAIN topped' = DOMAIN topped \cup {n}
          /\ topped'[n] = (IF n \in DOMAIN topped THEN topped[n] ELSE {}) \cup predicted[n]
          /\ \A i \in DOMAIN topped : i # n => topped'[i] = topped[i]
        BY <1>2 DEF Put
    <2>3. n \in 0..n
        BY <1>3
    <2>. QED BY <1>14, <2>1, <2>2, <2>3
<1>20. Topped'
    <2>1. \A i \in DOMAIN topped' : i \in 0..end /\ topped'[i] \subseteq predicted'[i]
        <3>1. \A i \in DOMAIN topped : i \in 0..n /\ i \in 0..end /\ topped[i] \subseteq predicted[i]
            BY <1>3, <1>4 DEF Topped
        <3>2. n \in 0..end
            BY <1>3, <1>4
        <3>. QED BY <1>14, <1>19, <3>1, <3>2
    <2>2. marks' \subseteq 0..end /\ \A m \in marks : m \in 0..n
        <3>1. marks \subseteq 0..n
            BY <1>3 DEF Topped
        <3>2. 0..n \subseteq 0..end /\ end \in 0..end
            BY <1>3, <1>4
        <3>. QED BY <1>2, <3>1, <3>2
    <2>3. ASSUME NEW m \in marks', m # end PROVE m \in DOMAIN topped' /\ topped'[m] = predicted'[m]
        <3>1. m \in marks /\ m \in 0..n
            BY <1>2, <2>2, <2>3
        <3>2. CASE m = n
            BY <1>19, <3>2
        <3>3. CASE m # n
            <4>1. m \in DOMAIN topped /\ topped[m] = predicted[m]
                BY <1>3, <3>1, <3>3 DEF Topped
            <4>. QED BY <1>14, <1>19, <3>1, <3>3, <4>1
        <3>. QED BY <3>2, <3>3
    <2>4. \A m \in marks' : m = end \/ m < n \/ m = n
        <3>1. \A m \in 0..n : m < n \/ m = n
            BY <1>3
        <3>. QED BY <1>2, <2>2, <3>1
    <2>. QED BY <1>2, <1>4, <1>19, <2>1, <2>2, <2>3, <2>4 DEF Topped
<1>21. Ended'
    <2>1. cols'[end] = <<>>
        BY <1>4, <1>13
    <2>2. ToSet(<<>>) = {}
        BY DEF ToSet
    <2>. QED BY <1>4, <2>1, <2>2 DEF Ended
<1>22. FiledOnce'
    BY <1>13, <1>16 DEF FiledOnce
<1>23. \A i \in 0..end : DOMAIN leo'[i] # {} => i \in 0..n /\ DOMAIN leo[i] # {}
    <2>1. DOMAIN <<>> = {}
        OBVIOUS
    <2>. QED BY <1>14, <1>15, <2>1
<1>24. ASSUME DOMAIN leo[n] # {} PROVE cols'[n] = cols[n] /\ predicted[n] \subseteq topped'[n]
    <2>1. n \in DOMAIN topped /\ predicted[n] \subseteq topped[n]
        <3>1. n \in 0..TextEnd /\ ~(n < n)
            BY <1>3
        <3>. QED BY <1>3, <1>24, <3>1 DEF Closed
    <2>2. late = <<>>
        BY <1>8, <2>1
    <2>3. c = cols[n]
        BY <1>9, <1>10, <2>2, ConcatEmptySeq
    <2>4. n \in 0..n
        BY <1>3
    <2>. QED BY <1>13, <1>14, <1>19, <2>3, <2>4
<1>25. Closed'
    <2>. SUFFICES ASSUME NEW i \in 0..end, DOMAIN leo'[i] # {}
                  PROVE  \/ i < n
                         \/ i = n /\ at' > Len(cols'[n]) /\ n \in DOMAIN topped' /\ predicted'[n] \subseteq topped'[n]
        BY <1>2, <1>4 DEF Closed
    <2>1. i \in 0..n /\ DOMAIN leo[i] # {}
        BY <1>23
    <2>2. CASE i = n
        <3>1. cols'[n] = cols[n]
            BY <1>24, <2>1, <2>2
        <3>2. Len(cols[n]) + 1 > Len(cols[n])
            BY <1>9, LenProperties
        <3>. QED BY <1>2, <1>19, <2>2, <3>1, <3>2
    <2>3. CASE i # n
        BY <1>3, <2>1, <2>3
    <2>. QED BY <2>2, <2>3
<1>26. Memos'
    <2>. SUFFICES ASSUME NEW i \in 0..end, NEW r \in DOMAIN leo'[i]
                  PROVE  r \in Rules(tables.arms) /\ leo'[i][r] = TopOf'[<<i, r>>]
        BY <1>2, <1>4 DEF Memos
    <2>1. i \in 0..n /\ DOMAIN leo[i] # {} /\ leo'[i] = leo[i] /\ i \in Int
        BY <1>14, <1>23
    <2>2. r \in Rules(tables.arms) /\ leo[i][r] = TopOf[<<i, r>>] /\ <<i, r>> \in Columns
        BY <1>3, <2>1 DEF Memos, Columns
    <2>3. \A j \in 0..TextEnd : j <= i => j \in 0..TextEnd' /\ cols'[j] = cols[j]
        <3>. SUFFICES ASSUME NEW j \in 0..n, j <= i PROVE j \in 0..end /\ cols'[j] = cols[j]
            BY <1>3, <1>4
        <3>1. j \in 0..end /\ (j < n \/ (j = n /\ i = n))
            <4>1. i \in 0..n
                BY <2>1
            <4>. QED BY <1>3, <1>4, <4>1
        <3>. QED BY <1>13, <1>24, <2>1, <3>1
    <2>4. \A x \in Columns : x[1] <= i => TopOf'[x] = TopOf[x]
        BY <1>2, <1>17, <2>1, <2>3, TopsStay
    <2>5. <<i, r>>[1] <= i
        BY <2>1
    <2>. QED BY <2>1, <2>2, <2>4, <2>5
<1>. QED BY <1>17, <1>18, <1>20, <1>21, <1>22, <1>25, <1>26

LEMMA RollbackKeeps ==
    ASSUME Inv, NEW m \in marks, Rollback(m)
    PROVE  Inv'
<1>. USE DEF Settled, Inv
<1>1. /\ idle /\ m < TextEnd /\ text' = SubSeq(text, 1, m)
      /\ cols' = [i \in 0..m |-> cols[i]] /\ predicted' = [i \in 0..m |-> predicted[i]]
      /\ leo' = [i \in 0..m |-> leo[i]]
      /\ topped' = [i \in {c \in DOMAIN topped : c <= m} |-> topped[i]]
      /\ pos' = m /\ at' = Len(cols[m]) + 1 /\ marks' = {c \in marks : c <= m}
      /\ tables' = tables /\ recordLinks' = recordLinks /\ junction' = junction /\ idle' = idle
    BY DEF Rollback, Cut, TopsTo, ToppedTo, TextEnd
<1>2. m \in 0..TextEnd /\ TextEnd \in Nat /\ m \in DOMAIN topped /\ topped[m] = predicted[m] /\ junction = -1 /\ pos = TextEnd
    <2>1. TextEnd \in Nat /\ m \in 0..TextEnd
        BY Tabled DEF Topped
    <2>. QED BY <1>1, <2>1 DEF Topped
<1>3. m \in Nat /\ m \in 0..m /\ 0..m \subseteq 0..TextEnd
    BY <1>2
<1>4. IsList(text') /\ TextEnd' = m
    <2>1. text \in Seq(ToSet(text))
        BY DEF Shape, Given, IsList
    <2>2. \A i \in 1..m : i \in 1..Len(text) /\ text[i] \in ToSet(text)
        BY <1>2, <2>1, ElementOfSeq DEF TextEnd
    <2>3. SubSeq(text, 1, m) \in Seq(ToSet(text))
        BY <1>2, <1>3, <2>1, <2>2, SubSeqProperties DEF TextEnd
    <2>3a. IsList(SubSeq(text, 1, m))
        BY <2>3, ListIs
    <2>4. Len(SubSeq(text, 1, m)) = m
        BY <1>2, <1>3, <2>1, SubSeqProperties DEF TextEnd
    <2>. QED BY <1>1, <2>3a, <2>4 DEF TextEnd
<1>5. \A i : Items(i)' = Items(i)
    BY <1>1 DEF Items, Body
<1>6. \A it : RuleOf(it)' = RuleOf(it)
    BY <1>1 DEF RuleOf
<1>7. /\ DOMAIN cols' = 0..m /\ DOMAIN predicted' = 0..m /\ DOMAIN leo' = 0..m
      /\ \A i \in 0..m : cols'[i] = cols[i] /\ predicted'[i] = predicted[i] /\ leo'[i] = leo[i]
    BY <1>1
<1>8. \A i \in 0..m : i \in 0..TextEnd /\ cols[i] \in Seq(Items(i)) /\ IsInjective(cols[i])
    BY <1>3 DEF Shape, FiledOnce
<1>9. /\ DOMAIN topped' = {c \in DOMAIN topped : c <= m} /\ m \in DOMAIN topped'
      /\ \A i \in DOMAIN topped' : topped'[i] = topped[i]
    BY <1>1, <1>2, <1>3
<1>10. Shape'
    <2>1. at' \in 1..(Len(cols'[m]) + 1)
        BY <1>1, <1>3, <1>7, <1>8, LenProperties
    <2>2. Given'
        BY <1>1, <1>4 DEF Shape, Given
    <2>3. m <= MaxText
        BY <1>2, KernelAssumption DEF Shape
    <2>. QED BY <1>1, <1>2, <1>3, <1>4, <1>5, <1>7, <1>8, <2>1, <2>2, <2>3 DEF Shape
<1>11. Seeded'
    BY <1>4, <1>6, <1>7, <1>8 DEF Seeded
<1>12. Topped'
    <2>1. \A i \in DOMAIN topped' : i \in 0..m /\ topped'[i] \subseteq predicted'[i]
        <3>1. \A i \in DOMAIN topped : i \in 0..TextEnd /\ topped[i] \subseteq predicted[i]
            BY DEF Topped
        <3>2. \A i \in 0..TextEnd : i <= m => i \in 0..m
            BY <1>3
        <3>. QED BY <1>7, <1>9, <3>1, <3>2
    <2>2. marks' \subseteq 0..m
        <3>1. \A c \in 0..TextEnd : c <= m => c \in 0..m
            BY <1>3
        <3>2. marks \subseteq 0..TextEnd
            BY DEF Topped
        <3>. QED BY <1>1, <3>1, <3>2
    <2>3. ASSUME NEW k \in marks', k # m PROVE k \in DOMAIN topped' /\ topped'[k] = predicted'[k]
        <3>1. k \in marks /\ k <= m /\ k # TextEnd
            BY <1>1, <1>2, <2>3
        <3>2. k \in DOMAIN topped /\ topped[k] = predicted[k]
            BY <3>1 DEF Topped
        <3>. QED BY <1>7, <1>9, <2>2, <3>1, <3>2
    <2>4. Len(cols[m]) + 1 > Len(cols[m])
        BY <1>3, <1>8, LenProperties
    <2>5. -1 # m
        BY <1>3
    <2>. QED BY <1>1, <1>2, <1>3, <1>4, <1>7, <2>1, <2>2, <2>3, <2>4, <2>5 DEF Topped
<1>13. Ended'
    <2>. SUFFICES ASSUME NEW it \in ToSet(cols[m]), it[2] = 0
                  PROVE  m \in DOMAIN topped' /\ RuleOf(it) \in topped'[m]
        BY <1>1, <1>3, <1>4, <1>6, <1>7 DEF Ended
    <2>1. RuleOf(it) \in predicted[m]
        BY <1>2 DEF Seeded
    <2>. QED BY <1>2, <1>9, <2>1
<1>14. FiledOnce'
    BY <1>7, <1>8 DEF FiledOnce
<1>15. Closed'
    <2>. SUFFICES ASSUME NEW i \in 0..m
                  PROVE  \/ i < m
                         \/ i = m /\ at' > Len(cols'[m]) /\ m \in DOMAIN topped' /\ predicted'[m] \subseteq topped'[m]
        BY <1>1, <1>4 DEF Closed
    <2>1. CASE i = m
        <3>1. Len(cols[m]) + 1 > Len(cols[m])
            BY <1>3, <1>8, LenProperties
        <3>. QED BY <1>1, <1>2, <1>3, <1>7, <1>9, <2>1, <3>1
    <2>2. CASE i # m
        BY <1>3, <2>2
    <2>. QED BY <2>1, <2>2
<1>16. Memos'
    <2>1. \A x \in Columns : x[1] <= m => TopOf'[x] = TopOf[x]
        <3>1. PICK c \in Int : c = m
            BY <1>3
        <3>2. \A j \in 0..TextEnd : j <= c => j \in 0..TextEnd' /\ cols'[j] = cols[j]
            BY <1>2, <1>3, <1>4, <1>7, <3>1
        <3>3. \A x \in Columns : x[1] <= c => TopOf'[x] = TopOf[x]
            BY <1>1, <1>10, <3>2, TopsStay
        <3>. QED BY <3>1, <3>3
    <2>. SUFFICES ASSUME NEW i \in 0..m, NEW r \in DOMAIN leo'[i]
                  PROVE  r \in Rules(tables.arms) /\ leo'[i][r] = TopOf'[<<i, r>>]
        BY <1>1, <1>4 DEF Memos
    <2>2. r \in DOMAIN leo[i] /\ leo'[i] = leo[i] /\ i \in 0..TextEnd /\ i <= m
        BY <1>3, <1>7
    <2>3. r \in Rules(tables.arms) /\ leo[i][r] = TopOf[<<i, r>>] /\ <<i, r>> \in Columns
        BY <2>2 DEF Memos, Columns
    <2>4. <<i, r>>[1] <= m
        BY <2>2
    <2>. QED BY <2>1, <2>2, <2>3, <2>4
<1>. QED BY <1>10, <1>11, <1>12, <1>13, <1>14, <1>15, <1>16

-----------------------------------------------------------------------------
LEMMA InitHolds == Init => Inv
<1>. SUFFICES ASSUME Init PROVE Inv
    OBVIOUS
<1>0. /\ tables \in CompiledTables(IF recordLinks THEN Tables ELSE Growable)
      /\ text \in IF recordLinks THEN Texts ELSE {<<>>}
      /\ topped = <<>> /\ junction = -1 /\ pos = 0 /\ at = 1 /\ idle = FALSE /\ marks = {TextEnd}
    BY DEF Init, TextEnd
<1>1. Given /\ TextEnd <= MaxText /\ TextEnd \in Nat
    <2>1. CASE recordLinks
        <3>1. text \in Texts /\ IsList(text) /\ Len(text) <= MaxText
            BY <1>0, <2>1, KernelAssumption
        <3>. QED BY <1>0, <3>1, LenProperties DEF Given, TextEnd, IsList
    <2>2. CASE ~recordLinks
        <3>1. text = <<>>
            BY <1>0, <2>2
        <3>2. Len(<<>>) = 0 /\ IsList(<<>>)
            BY DEF IsList
        <3>. QED BY <1>0, <3>1, <3>2, KernelAssumption DEF Given, TextEnd
    <2>. QED BY <2>1, <2>2
<1>2. PICK A : A = {a \in ArmsOf(tables.start) : Passes(a, text, 0)}
    OBVIOUS
<1>3. PICK seeds : seeds = Gated(tables.start, text, 0)
    OBVIOUS
<1>4. seeds = SeedsOf(A, 0)
    BY <1>2, <1>3 DEF Gated
<1>5. A \subseteq DOMAIN tables.arms
    BY <1>2 DEF ArmsOf
<1>6. /\ seeds \in Seq(Items(0)) /\ IsInjective(seeds)
      /\ \A it \in ToSet(seeds) : it \in Items(0) /\ it[1] \in A /\ it[2] = 0 /\ it[3] = 0
    BY <1>1, <1>4, <1>5, SeedsAre
<1>7. \A it \in ToSet(seeds) : RuleOf(it) = tables.start /\ Passes(it[1], text, 0)
    BY <1>2, <1>6 DEF ArmsOf, RuleOf
<1>8. /\ DOMAIN cols = 0..TextEnd /\ DOMAIN predicted = 0..TextEnd /\ DOMAIN leo = 0..TextEnd
      /\ \A i \in 0..TextEnd : cols[i] = IF i = 0 THEN seeds ELSE <<>>
      /\ \A i \in 0..TextEnd : predicted[i] = IF i = 0 THEN {tables.start} ELSE {}
      /\ \A i \in 0..TextEnd : leo[i] = <<>>
    <2>1. /\ cols = [i \in 0..TextEnd |-> IF i = 0 THEN seeds ELSE <<>>]
          /\ predicted = [i \in 0..TextEnd |-> IF i = 0 THEN {tables.start} ELSE {}]
          /\ leo = [i \in 0..TextEnd |-> <<>>]
        BY <1>3 DEF Init, TextEnd
    <2>. QED BY <2>1
<1>9. 0 \in 0..TextEnd /\ cols[0] = seeds
    <2>1. 0 \in 0..TextEnd
        BY <1>1
    <2>. QED BY <1>8, <2>1
<1>10. \A i : <<>> \in Seq(Items(i)) /\ IsInjective(<<>>) /\ ToSet(<<>>) = {}
    BY DEF IsInjective, ToSet
<1>11. Shape
    <2>1. ASSUME NEW i \in 0..TextEnd PROVE cols[i] \in Seq(Items(i))
        <3>1. CASE i = 0
            BY <1>6, <1>8, <3>1
        <3>2. CASE i # 0
            BY <1>8, <1>10, <3>2
        <3>. QED BY <3>1, <3>2
    <2>2. at \in 1..(Len(cols[pos]) + 1)
        BY <1>0, <1>6, <1>9, LenProperties
    <2>. QED BY <1>0, <1>1, <1>8, <1>9, <2>1, <2>2 DEF Shape
<1>12. Seeded
    BY <1>6, <1>7, <1>8, <1>10 DEF Seeded
<1>13. Topped
    BY <1>0, <1>1 DEF Topped
<1>14. Ended
    <2>. SUFFICES ASSUME NEW it \in ToSet(cols[TextEnd]), it[2] = 0 PROVE AnyChar \in tables.gates[it[1]]
        BY DEF Ended
    <2>1. TextEnd = 0 /\ it \in ToSet(seeds)
        <3>1. cols[TextEnd] = IF TextEnd = 0 THEN seeds ELSE <<>>
            BY <1>1, <1>8
        <3>. QED BY <1>10, <3>1
    <2>2. ~(0 < 0)
        OBVIOUS
    <2>. QED BY <1>7, <2>1, <2>2 DEF Passes, TextEnd
<1>15. FiledOnce
    BY <1>6, <1>8, <1>10 DEF FiledOnce
<1>16. Memos /\ Closed
    <2>1. DOMAIN <<>> = {}
        OBVIOUS
    <2>. QED BY <1>8, <2>1 DEF Memos, Closed
<1>. QED BY <1>11, <1>12, <1>13, <1>14, <1>15, <1>16 DEF Inv, Settled

LEMMA StepKeeps == Inv /\ [Next]_vars => Inv'
<1>. SUFFICES ASSUME Inv, [Next]_vars PROVE Inv'
    OBVIOUS
<1>1. CASE Predict
    BY <1>1, PredictKeeps
<1>2. CASE AwaitScan
    BY <1>2, PassesKeep DEF AwaitScan
<1>3. CASE SkipEmpty
    BY <1>3, PassesKeep DEF SkipEmpty
<1>4. CASE Jump
    BY <1>4, JumpKeeps
<1>5. CASE CompleteAll
    BY <1>5, CompleteAllKeeps
<1>6. CASE Scan
    BY <1>6, ScanKeeps
<1>7. CASE Return
    BY <1>7, ReturnKeeps DEF Return, TextEnd
<1>8. CASE \E piece \in Pieces : Extend(piece) /\ UNCHANGED bounds
    BY <1>8, ExtendKeeps, KernelAssumption
<1>9. CASE \E m \in Marks : m \in marks /\ Rollback(m) /\ UNCHANGED bounds
    BY <1>9, RollbackKeeps
<1>10. CASE UNCHANGED vars
    BY <1>10, ReturnKeeps DEF vars
<1>. QED BY <1>1, <1>2, <1>3, <1>4, <1>5, <1>6, <1>7, <1>8, <1>9, <1>10 DEF Next, Close

(* Run, extended and cut in any order, the chart keeps its promises: what  *)
(* _seed, _reopen, rollback and leo_resolve each count on the others for.  *)
THEOREM Invariant == Spec => []Inv
BY InitHolds, StepKeeps, PTL DEF Spec

LEMMA InvTyped == Inv => TypeOK
<1>1. ASSUME Inv PROVE TypeOK
    <2>1. Shape /\ Seeded /\ Topped
        BY <1>1 DEF Inv, Settled
    <2>2. ASSUME NEW i \in 0..TextEnd, NEW it \in ToSet(cols[i])
          PROVE  /\ it[1] \in DOMAIN tables.arms /\ it[2] \in 0..Len(Body(it[1])) /\ it[3] \in 0..i
                 /\ it[2] = 0 => it[3] = i /\ RuleOf(it) \in predicted[i]
        <3>1. it \in Items(i)
            BY <2>1, Queued DEF Shape
        <3>2. /\ it[1] \in DOMAIN tables.arms /\ it[2] \in Nat /\ it[2] <= Len(Body(it[1])) /\ it[3] \in 0..i
              /\ Len(Body(it[1])) \in Nat
            BY <2>1, <3>1, Tabled DEF Items
        <3>. QED BY <2>1, <3>2 DEF Seeded
    <2>. QED BY <2>1, <2>2 DEF TypeOK, Shape, Given, Topped, TextEnd
<1>. QED BY <1>1

LEMMA InvOnce == Inv => FiledOnce
BY DEF Inv, Settled

LEMMA InvFresh == Inv => LeoMemoFresh
BY MemosFresh DEF Inv, Settled

(* The types of the chart, which say more: every item of a column is an    *)
(* arm, a place in it and an earlier column, a seed stands in its own      *)
(* column and its rule is predicted there, the record of topped rules is   *)
(* of rules predicted, and a mark is a column of the chart.                *)
THEOREM Typed == Spec => []TypeOK
BY Invariant, InvTyped, PTL

(* No item is filed twice in a column, whatever the texts and the tables,  *)
(* and however often the chart is grown, re-opened and cut: _seed and      *)
(* _file_seeds append without asking.                                      *)
THEOREM Once == Spec => []FiledOnce
BY Invariant, InvOnce, PTL

(* A memoised Leo top is at all times what climbing the chart as it stands *)
(* would find: leo_resolve may trust it in a chart grown and cut since.    *)
THEOREM TopsFresh == Spec => []LeoMemoFresh
BY Invariant, InvFresh, PTL

-----------------------------------------------------------------------------
(* Which rules may vanish: the loop, unfolded.                             *)
NullableBy(K, arms, N) ==
    /\ N = Len(arms) /\ DOMAIN arms = 1..N /\ NullableRules(arms) = K[N] /\ K[0] = {}
    /\ \A n \in 0..(N - 1) : K[n + 1] = WithNullable(arms, K[n])

LEMMA NullablesUnfold ==
    ASSUME NEW arms, NEW N \in Nat, N = Len(arms), DOMAIN arms = 1..N
    PROVE  \E K : NullableBy(K, arms, N)
<1>. DEFINE X == SUBSET Rules(arms)
            Recurs(F) == F = [n \in 0..Len(arms) |-> IF n = 0 THEN {} ELSE WithNullable(arms, F[n - 1])]
            K == CHOOSE F : Recurs(F)
            g == [p \in (1..N) \X X |-> WithNullable(arms, p[2])]
<1>1. \A s \in X : WithNullable(arms, s) \in X
    BY DEF WithNullable, Rules
<1>2. g \in [(1..N) \X X -> X] /\ {} \in X
    <2>. HIDE DEF X
    <2>1. g \in [(1..N) \X X -> X]
        BY <1>1
    <2>. QED BY <2>1 DEF X
<1>3. \A n \in 1..N, s \in X : g[<<n, s>>] = WithNullable(arms, s)
    OBVIOUS
<1>. HIDE DEF g, X
<1>4. Folds(X, N, {}, g) # {}
    BY <1>2, Recursion
<1>5. PICK F \in [0..N -> X] : F[0] = {} /\ \A n \in 1..N : F[n] = g[<<n, F[n - 1]>>]
    BY <1>4 DEF Folds
<1>6. ASSUME NEW n \in 0..N PROVE F[n] = IF n = 0 THEN {} ELSE WithNullable(arms, F[n - 1])
    <2>1. CASE n = 0
        BY <1>5, <2>1
    <2>2. CASE n # 0
        <3>1. n \in 1..N /\ n - 1 \in 0..N
            BY <2>2
        <3>2. F[n - 1] \in X
            BY <1>5, <3>1, Zenon
        <3>3. F[n] = g[<<n, F[n - 1]>>]
            BY <1>5, <3>1, Zenon
        <3>. QED BY <1>3, <2>2, <3>1, <3>2, <3>3
    <2>. QED BY <2>1, <2>2
<1>7. F = [n \in 0..N |-> IF n = 0 THEN {} ELSE WithNullable(arms, F[n - 1])]
    BY <1>5, <1>6
<1>8. Recurs(F)
    BY <1>7, Zenon
<1>9. Recurs(K) /\ NullableRules(arms) = K[N]
    BY <1>8, Zenon DEF NullableRules
<1>. HIDE DEF K
<1>10. \A n \in 0..N : K[n] = IF n = 0 THEN {} ELSE WithNullable(arms, K[n - 1])
    BY <1>9, Zenon
<1>11. K[0] = {}
    BY <1>10
<1>12. ASSUME NEW n \in 0..(N - 1) PROVE K[n + 1] = WithNullable(arms, K[n])
    <2>1. n + 1 \in 0..N /\ n + 1 # 0 /\ (n + 1) - 1 = n
        OBVIOUS
    <2>. QED BY <1>10, <2>1
<1>13. NullableBy(K, arms, N)
    BY <1>9, <1>11, <1>12 DEF NullableBy
<1>. QED BY <1>13

Nulls == NullableRules(tables.arms)
LEMMA NullsUnfold == ASSUME Given PROVE \E N \in Nat : \E K : NullableBy(K, tables.arms, N)
<1>1. PICK N \in Nat : N = Len(tables.arms) /\ DOMAIN tables.arms = 1..N
    BY Compiles
<1>2. \E K : NullableBy(K, tables.arms, N)
    BY <1>1, NullablesUnfold, Zenon
<1>. QED BY <1>2

Firsts == FirstSets(tables.arms, Nulls)

(* What compile_tables promises of the tables a parse reads.               *)
LEMMA SolvedIs ==
    ASSUME Given
    PROVE  /\ tables.gates = [a \in DOMAIN tables.arms |-> Gate(tables.arms[a], Nulls, Firsts)]
           /\ tables.empties = EmptyArms(tables.arms, Nulls)
           /\ \A a \in DOMAIN tables.arms : ArmNullable(tables.arms[a], Nulls) => tables.arms[a].rule \in Nulls
           /\ \A a \in DOMAIN tables.arms : {tables.arms[a].rule} \X ArmFirst(tables.arms[a], Nulls, Firsts) \subseteq Firsts
           /\ tables.start \in Rules(tables.arms)
<1>1. IsTables(tables)
    BY KernelAssumption DEF Given
<1>. QED BY <1>1 DEF IsTables, Solved, Nulls, Firsts, Gates

(* A rule that may vanish has an arm that may.                             *)
LEMMA NullableArm ==
    ASSUME Given, NEW r \in Nulls
    PROVE  \E a \in ArmsOf(r) : ArmNullable(tables.arms[a], Nulls)
<1>1. PICK N \in Nat : \E K : NullableBy(K, tables.arms, N)
    BY NullsUnfold
<1>2. PICK K : /\ DOMAIN tables.arms = 1..N /\ Nulls = K[N] /\ K[0] = {}
               /\ \A n \in 0..(N - 1) : K[n + 1] = WithNullable(tables.arms, K[n])
    BY <1>1 DEF NullableBy, Nulls
<1>. DEFINE Shown == {s \in Nulls : \E a \in ArmsOf(s) : ArmNullable(tables.arms[a], Nulls)}
            Good == {n \in 0..N : K[n] \subseteq Shown}
<1>3. 0 \in Good
    BY <1>2
<1>4. ASSUME NEW n \in 0..(N - 1), n \in Good PROVE n + 1 \in Good
    <2>1. K[n + 1] = K[n] \cup {tables.arms[a].rule : a \in {b \in DOMAIN tables.arms : ArmNullable(tables.arms[b], K[n])}}
        BY <1>2 DEF WithNullable
    <2>2. ASSUME NEW a \in DOMAIN tables.arms, ArmNullable(tables.arms[a], K[n])
          PROVE  tables.arms[a].rule \in Shown
        <3>1. K[n] \subseteq Nulls
            BY <1>4
        <3>2. ArmNullable(tables.arms[a], Nulls)
            BY <2>2, <3>1 DEF ArmNullable
        <3>3. tables.arms[a].rule \in Nulls
            BY <3>2, SolvedIs
        <3>. QED BY <3>2, <3>3 DEF ArmsOf
    <2>3. n + 1 \in 0..N
        OBVIOUS
    <2>. QED BY <1>4, <2>1, <2>2, <2>3
<1>5. N \in Good
    <2>. HIDE DEF Good
    <2>. QED BY <1>3, <1>4, Upwards
<1>. QED BY <1>2, <1>5

LEMMA EmptiesIs ==
    ASSUME Given, NEW r
    PROVE  /\ Empties(r) = {a \in ArmsOf(r) : ArmNullable(tables.arms[a], Nulls)}
           /\ Empties(r) # {} <=> r \in Nulls
<1>1. /\ DOMAIN tables.empties = Rules(tables.arms)
      /\ \A s \in Rules(tables.arms) :
            tables.empties[s] = {a \in DOMAIN tables.arms : tables.arms[a].rule = s /\ ArmNullable(tables.arms[a], Nulls)}
    BY SolvedIs DEF EmptyArms
<1>2. \A a \in DOMAIN tables.arms : tables.arms[a].rule \in Rules(tables.arms)
    BY DEF Rules
<1>3. Empties(r) = {a \in ArmsOf(r) : ArmNullable(tables.arms[a], Nulls)}
    BY <1>1, <1>2 DEF Empties, ArmsOf
<1>4. ASSUME NEW a \in Empties(r) PROVE r \in Nulls
    BY <1>3, SolvedIs DEF ArmsOf
<1>. QED BY <1>3, <1>4, NullableArm

-----------------------------------------------------------------------------
(* Facts, as items of columns.                                             *)
LEMMA FactIs ==
    ASSUME Given
    PROVE  /\ \A j \in Points : \A it \in Items(j) : <<it, j>> \in Facts
           /\ \A f \in Facts : f[2] \in Points /\ f[1] \in Items(f[2]) /\ f = <<f[1], f[2]>>
<1>0. Points = 0..TextEnd /\ TextEnd \in Nat /\ \A a \in DOMAIN tables.arms : Len(Body(a)) \in Nat
    BY Compiles DEF Points, TextEnd
<1>1. ASSUME NEW j \in Points PROVE ItemsTo(j) = Items(j)
    <2>1. ASSUME NEW it \in Items(j) PROVE it \in ItemsTo(j)
        <3>1. it \in {it[1]} \X (0..Len(Body(it[1]))) \X (0..j) /\ it[1] \in DOMAIN tables.arms
            BY <1>0 DEF Items
        <3>. QED BY <3>1 DEF ItemsTo
    <2>2. ASSUME NEW it \in ItemsTo(j) PROVE it \in Items(j)
        <3>1. PICK a \in DOMAIN tables.arms : it \in {a} \X (0..Len(Body(a))) \X (0..j)
            BY DEF ItemsTo
        <3>. QED BY <1>0, <3>1 DEF Items
    <2>. QED BY <2>1, <2>2
<1>2. ASSUME NEW j \in Points, NEW it \in Items(j) PROVE <<it, j>> \in Facts
    <2>1. <<it, j>> \in ItemsTo(j) \X {j}
        BY <1>1
    <2>. QED BY <2>1 DEF Facts
<1>3. ASSUME NEW f \in Facts PROVE f[2] \in Points /\ f[1] \in Items(f[2]) /\ f = <<f[1], f[2]>>
    <2>1. PICK j \in Points : f \in ItemsTo(j) \X {j}
        BY DEF Facts
    <2>. QED BY <1>1, <2>1
<1>. QED BY <1>2, <1>3

(* A rule that may vanish spans the empty text everywhere.                 *)
LEMMA NullFacts ==
    ASSUME Given, NEW D \in SUBSET Facts, Deduced(Input, D), NEW i \in Points, NEW r \in Nulls
    PROVE  \E a \in ArmsOf(r) : <<<<a, Len(Body(a)), i>>, i>> \in D
<1>1. PICK N \in Nat : \E K : NullableBy(K, tables.arms, N)
    BY NullsUnfold
<1>2. PICK K : /\ DOMAIN tables.arms = 1..N /\ Nulls = K[N] /\ K[0] = {}
               /\ \A n \in 0..(N - 1) : K[n + 1] = WithNullable(tables.arms, K[n])
    BY <1>1 DEF NullableBy, Nulls
<1>. DEFINE Spanned(s) == \E a \in ArmsOf(s) : <<<<a, Len(Body(a)), i>>, i>> \in D
            Good == {n \in 0..N : \A s \in K[n] : Spanned(s)}
<1>3. 0 \in Good
    BY <1>2
<1>4. ASSUME NEW n \in 0..(N - 1), n \in Good PROVE n + 1 \in Good
    <2>1. K[n + 1] = K[n] \cup {tables.arms[a].rule : a \in {b \in DOMAIN tables.arms : ArmNullable(tables.arms[b], K[n])}}
        BY <1>2 DEF WithNullable
    <2>2. ASSUME NEW a \in DOMAIN tables.arms, ArmNullable(tables.arms[a], K[n])
          PROVE  <<<<a, Len(Body(a)), i>>, i>> \in D
        <3>1. PICK L \in Nat : L = Len(Body(a)) /\ DOMAIN Body(a) = 1..L
            <4>1. IsList(tables.arms[a].body)
                BY KernelAssumption DEF Given, IsTables
            <4>. QED BY <4>1, LenProperties DEF IsList, Body
        <3>. DEFINE Far == {d \in 0..L : <<<<a, d, i>>, i>> \in D}
        <3>2. 0 \in Far
            BY DEF Deduced
        <3>3. ASSUME NEW d \in 0..(L - 1), d \in Far PROVE d + 1 \in Far
            <4>1. PICK it : it = <<a, d, i>>
                OBVIOUS
            <4>2. <<it, i>> \in D /\ it[1] = a /\ it[2] = d /\ it[3] = i
                BY <3>3, <4>1
            <4>3. d + 1 \in 1..L /\ d # L
                OBVIOUS
            <4>4. ~Complete(it) /\ IsRule(Facing(it)) /\ Facing(it).name \in K[n]
                BY <2>2, <3>1, <4>2, <4>3 DEF Complete, Facing, ArmNullable, Body
            <4>5. PICK b \in ArmsOf(Facing(it).name) : <<<<b, Len(Body(b)), i>>, i>> \in D
                BY <1>4, <4>4
            <4>6. PICK g : g = <<b, Len(Body(b)), i>>
                OBVIOUS
            <4>7. <<g, i>> \in D /\ Complete(g) /\ FacesRule(it, RuleOf(g)) /\ Origin(g) = i
                BY <4>4, <4>5, <4>6 DEF Complete, FacesRule, RuleOf, ArmsOf, Origin
            <4>8. <<Advance(it), i>> \in D
                BY <4>2, <4>7 DEF Deduced
            <4>. QED BY <4>2, <4>3, <4>8 DEF Advance
        <3>4. L \in Far
            <4>. HIDE DEF Far
            <4>. QED BY <3>2, <3>3, Upwards
        <3>. QED BY <3>1, <3>4
    <2>3. n + 1 \in 0..N
        OBVIOUS
    <2>4. \A s \in K[n + 1] : Spanned(s)
        BY <1>4, <2>1, <2>2 DEF ArmsOf
    <2>. QED BY <2>3, <2>4
<1>5. N \in Good
    <2>. HIDE DEF Good
    <2>. QED BY <1>3, <1>4, Upwards
<1>. QED BY <1>2, <1>5

-----------------------------------------------------------------------------
(* A literal stands at a place of a text.                                  *)
StandsThere(s, t, n, i, j) ==
    IsPrefix(s, SubSeq(t, i + 1, n)) /\ i + Len(s) = j <=> SubSeq(t, i + 1, j) = s

LEMMA PrefixThere ==
    ASSUME NEW U, NEW s \in Seq(U), NEW t \in Seq(U), NEW n \in Nat, n = Len(t), NEW i \in 0..n, NEW j \in (i + 1)..n
    PROVE  StandsThere(s, t, n, i, j)
<1>1. PICK L \in Nat : L = Len(s)
    BY LenProperties
<1>2. \A k \in 1..n : t[k] \in U
    BY ElementOfSeq
<1>3. PICK u : u = SubSeq(t, i + 1, n)
    OBVIOUS
<1>4. i \in Int /\ j \in Int /\ i + 1 \in Int /\ (\A k \in (i + 1)..n : k \in 1..n) /\ (\A k \in (i + 1)..j : k \in 1..n)
    OBVIOUS
<1>5. u \in Seq(U) /\ Len(u) = n - i /\ \A k \in 1..(n - i) : u[k] = t[i + k]
    <2>1. PICK m \in Int : m = i + 1
        BY <1>4
    <2>2. (\A k \in m..n : t[k] \in U) /\ u = SubSeq(t, m, n) /\ n \in Int
        BY <1>2, <1>4, <1>3, <2>1
    <2>3. u \in Seq(U) /\ Len(u) = (IF m <= n THEN n - m + 1 ELSE 0)
          /\ \A k \in 1..(n - m + 1) : u[k] = t[m + k - 1]
        BY <2>2, SubSeqProperties
    <2>4. Len(u) = n - i
        BY <1>4, <2>1, <2>3
    <2>5. ASSUME NEW k \in 1..(n - i) PROVE u[k] = t[i + k]
        <3>1. k \in 1..(n - m + 1) /\ m + k - 1 = i + k
            BY <1>4, <2>1
        <3>. QED BY <2>3, <3>1
    <2>. QED BY <2>3, <2>4, <2>5
<1>6. PICK v : v = SubSeq(t, i + 1, j)
    OBVIOUS
<1>7. v \in Seq(U) /\ Len(v) = j - i /\ \A k \in 1..(j - i) : v[k] = t[i + k]
    <2>1. PICK m \in Int : m = i + 1
        BY <1>4
    <2>2. (\A k \in m..j : t[k] \in U) /\ v = SubSeq(t, m, j) /\ j \in Int
        BY <1>2, <1>4, <1>6, <2>1
    <2>3. v \in Seq(U) /\ Len(v) = (IF m <= j THEN j - m + 1 ELSE 0)
          /\ \A k \in 1..(j - m + 1) : v[k] = t[m + k - 1]
        BY <2>2, SubSeqProperties
    <2>4. Len(v) = j - i
        BY <1>4, <2>1, <2>3
    <2>5. ASSUME NEW k \in 1..(j - i) PROVE v[k] = t[i + k]
        <3>1. k \in 1..(j - m + 1) /\ m + k - 1 = i + k
            BY <1>4, <2>1
        <3>. QED BY <2>3, <3>1
    <2>. QED BY <2>3, <2>4, <2>5
<1>8. SubSeq(s, 1, L) = s
    BY <1>1, SubSeqFull
<1>9. ASSUME L <= n - i
      PROVE  SubSeq(u, 1, L) \in Seq(U) /\ Len(SubSeq(u, 1, L)) = L /\ \A k \in 1..L : SubSeq(u, 1, L)[k] = t[i + k]
    <2>1. \A k \in 1..L : k \in 1..(n - i)
        BY <1>9
    <2>2. \A k \in 1..L : u[k] \in U
        BY <1>5, <2>1, ElementOfSeq
    <2>3. SubSeq(u, 1, L) \in Seq(U) /\ Len(SubSeq(u, 1, L)) = L /\ \A k \in 1..L : SubSeq(u, 1, L)[k] = u[k]
        BY <2>2, SubSeqProperties
    <2>. QED BY <1>5, <2>1, <2>3
<1>10. ASSUME IsPrefix(s, u), i + L = j PROVE v = s
    <2>1. L <= n - i /\ SubSeq(u, 1, L) = s
        BY <1>1, <1>5, <1>8, <1>10 DEF IsPrefix
    <2>2. L = j - i
        BY <1>10
    <2>3. Len(v) = Len(s) /\ \A k \in 1..Len(v) : v[k] = s[k]
        BY <1>1, <1>7, <1>9, <2>1, <2>2
    <2>. QED BY <1>7, <2>3, SeqEqual
<1>11. ASSUME v = s PROVE IsPrefix(s, u) /\ i + L = j
    <2>1. L = j - i /\ L <= n - i
        BY <1>1, <1>7, <1>11
    <2>2. SubSeq(u, 1, L) = s
        <3>1. PICK p : p = SubSeq(u, 1, L)
            OBVIOUS
        <3>2. p \in Seq(U) /\ Len(p) = Len(s) /\ \A k \in 1..Len(p) : p[k] = s[k]
            BY <1>1, <1>7, <1>9, <1>11, <2>1, <3>1
        <3>. QED BY <3>1, <3>2, SeqEqual
    <2>3. i + L = j
        BY <2>1
    <2>. QED BY <1>1, <1>5, <1>8, <2>1, <2>2, <2>3 DEF IsPrefix
<1>. QED BY <1>1, <1>3, <1>6, <1>10, <1>11 DEF StandsThere

(* Where a run ends.                                                       *)
IsRunEnd(w, n, i, chars, j) ==
    /\ j \in i..n /\ \A k \in (i + 1)..j : w[k] \in chars
    /\ j < n => w[j + 1] \notin chars

LEMMA RunEnds ==
    ASSUME Given, NEW i \in 0..TextEnd, NEW chars
    PROVE  \A j \in i..TextEnd : RunEnd(i, chars) = j <=> IsRunEnd(text, TextEnd, i, chars, j)
<1>0. TextEnd \in Nat
    BY Compiles
<1>1. PICK n \in Nat, c \in Nat : n = TextEnd /\ c = i
    BY <1>0
<1>. DEFINE S == {j \in c..n : j = n \/ text[j + 1] \notin chars}
            Is(j) == IsRunEnd(text, n, c, chars, j)
<1>2. S \subseteq Nat /\ n \in S
    BY <1>0, <1>1
<1>3. PICK m \in S : \A k \in S : m <= k
    BY <1>2, Least
<1>4. Is(m)
    <2>1. m \in c..n
        OBVIOUS
    <2>2. ASSUME NEW k \in (c + 1)..m PROVE text[k] \in chars
        <3>1. k - 1 \in c..n /\ k - 1 < m /\ (k - 1) + 1 = k /\ k - 1 # n
            BY <2>1
        <3>2. k - 1 \notin S
            BY <1>2, <1>3, <3>1
        <3>. QED BY <3>1, <3>2
    <2>3. m < n => text[m + 1] \notin chars
        BY <2>1
    <2>. QED BY <2>1, <2>2, <2>3 DEF IsRunEnd
<1>5. ASSUME NEW j, NEW k, Is(j), Is(k) PROVE ~(j < k)
    <2>. SUFFICES ASSUME j < k PROVE FALSE
        OBVIOUS
    <2>1. j \in c..n /\ k \in c..n
        BY <1>5 DEF IsRunEnd
    <2>2. j + 1 \in (c + 1)..k /\ j < n
        BY <2>1
    <2>. QED BY <1>5, <2>2 DEF IsRunEnd
<1>6. \A j : Is(j) => j = m
    <2>. SUFFICES ASSUME NEW j, Is(j) PROVE j = m
        OBVIOUS
    <2>1. ~(j < m) /\ ~(m < j)
        BY <1>4, <1>5
    <2>2. j \in Int /\ m \in Int
        BY <1>4 DEF IsRunEnd
    <2>. QED BY <2>1, <2>2
<1>7. RunEnd(i, chars) = CHOOSE j \in c..n : /\ \A k \in (c + 1)..j : text[k] \in chars
                                             /\ j < n => text[j + 1] \notin chars
    BY <1>1 DEF RunEnd, TextEnd
<1>8. Is(RunEnd(i, chars))
    <2>1. \E j \in c..n : (\A k \in (c + 1)..j : text[k] \in chars) /\ (j < n => text[j + 1] \notin chars)
        BY <1>4 DEF IsRunEnd
    <2>. QED BY <1>7, <2>1, Zenon DEF IsRunEnd
<1>. QED BY <1>1, <1>6, <1>8

(* The scan lands where the terminal ends.                                 *)
LEMMA LandsIs ==
    ASSUME Given, NEW a \in DOMAIN tables.arms, NEW sym \in ToSet(Body(a)), ~IsRule(sym),
           NEW i \in 0..TextEnd, NEW j \in (i + 1)..TextEnd, Unbroken(Input, i, j)
    PROVE  Lands(sym, i) = j <=> j \in TermEnds(sym, Input, i)
<1>0. TextEnd \in Nat /\ i \in Int /\ j \in Int /\ i < j /\ j <= TextEnd /\ j # -1 /\ j \in i..TextEnd
    BY Compiles
<1>1. IsSymbol(sym) /\ IsList(text)
    BY KernelAssumption DEF Given, IsTables, Body
<1>2. /\ Input.chars = text /\ Input.tokens = bounds /\ Size(Input) = TextEnd
    BY DEF Input, Size, TextEnd
<1>. HIDE DEF Input
<1>3. CASE sym.kind = "class"
    <2>1. j \in TermEnds(sym, Input, i) <=> j = i + 1 /\ text[j] \in sym.chars
        BY <1>2, <1>3 DEF TermEnds
    <2>2. Lands(sym, i) = IF text[i + 1] \in sym.chars THEN i + 1 ELSE -1
        BY <1>3 DEF Lands
    <2>. QED BY <1>0, <2>1, <2>2
<1>4. CASE sym.kind = "literal"
    <2>1. j \in TermEnds(sym, Input, i) <=> SubSeq(text, i + 1, j) = sym.string
        BY <1>2, <1>4 DEF TermEnds
    <2>2. Lands(sym, i) = IF IsPrefix(sym.string, SubSeq(text, i + 1, TextEnd)) THEN i + Len(sym.string) ELSE -1
        BY <1>4 DEF Lands, TextEnd
    <2>3. PICK U : sym.string \in Seq(U) /\ text \in Seq(U)
        <3>1. sym.string \in Seq(ToSet(sym.string)) /\ text \in Seq(ToSet(text))
            BY <1>1, <1>4 DEF IsSymbol, IsList
        <3>2. PICK U : U = ToSet(sym.string) \cup ToSet(text)
            OBVIOUS
        <3>3. sym.string \in Seq(U) /\ text \in Seq(U)
            BY <3>1, <3>2, SeqMonotonic
        <3>. QED BY <3>3
    <2>4. TextEnd = Len(text)
        BY DEF TextEnd
    <2>5. PICK s, t : s = sym.string /\ t = text
        OBVIOUS
    <2>5a. PICK n \in Nat : n = TextEnd
        BY <1>0
    <2>6. IsPrefix(s, SubSeq(t, i + 1, n)) /\ i + Len(s) = j <=> SubSeq(t, i + 1, j) = s
        <3>1. s \in Seq(U) /\ t \in Seq(U) /\ n = Len(t) /\ i \in 0..n /\ j \in (i + 1)..n
            BY <1>0, <2>3, <2>4, <2>5, <2>5a
        <3>2. StandsThere(s, t, n, i, j)
            BY <3>1, PrefixThere, Zenon
        <3>. QED BY <3>2 DEF StandsThere
    <2>. QED BY <1>0, <2>1, <2>2, <2>5, <2>5a, <2>6
<1>5. CASE sym.kind = "run"
    <2>1. j \in TermEnds(sym, Input, i) <=> /\ j - i >= sym.lo /\ \A k \in (i + 1)..j : text[k] \in sym.chars
                                            /\ j < TextEnd => text[j + 1] \notin sym.chars
        BY <1>2, <1>5 DEF TermEnds
    <2>2. Lands(sym, i) = IF RunEnd(i, sym.chars) - i >= sym.lo THEN RunEnd(i, sym.chars) ELSE -1
        BY <1>5 DEF Lands
    <2>3. RunEnd(i, sym.chars) = j <=> IsRunEnd(text, TextEnd, i, sym.chars, j)
        BY <1>0, RunEnds
    <2>. QED BY <1>0, <2>1, <2>2, <2>3 DEF IsRunEnd
<1>6. CASE sym.kind = "token"
    <2>1. j \in TermEnds(sym, Input, i) <=> i \in DOMAIN bounds /\ bounds[i].id \in sym.ids /\ j = i + bounds[i].length
        BY <1>2, <1>6 DEF TermEnds
    <2>2. Lands(sym, i) = IF i \in DOMAIN bounds /\ bounds[i].id \in sym.ids THEN i + bounds[i].length ELSE -1
        BY <1>6 DEF Lands
    <2>. QED BY <1>0, <2>1, <2>2
<1>. QED BY <1>1, <1>3, <1>4, <1>5, <1>6 DEF IsSymbol, IsRule

(* Every arm that is to be seeded is.                                      *)
LEMMA SeedsHave ==
    ASSUME Given, NEW A, A \subseteq DOMAIN tables.arms, NEW i \in Nat
    PROVE  ToSet(SeedsOf(A, i)) = {<<a, 0, i>> : a \in A}
<1>1. PICK D : D = DOMAIN tables.arms
    OBVIOUS
<1>2. PICK list : list = [a \in D |-> a]
    OBVIOUS
<1>3. list \in Seq(D) /\ DOMAIN list = D
    BY <1>1, <1>2, Compiles, IsASeq
<1>4. ToSet(list) = D
    BY <1>2, <1>3 DEF ToSet
<1>5. PICK arms : arms = ArmList(A)
    OBVIOUS
<1>6. arms \in Seq(D) /\ ToSet(arms) = A
    <2>1. arms = Among(list, A)
        BY <1>1, <1>2, <1>5, Zenon DEF ArmList
    <2>2. Among(list, A) \in Seq(D) /\ ToSet(Among(list, A)) = ToSet(list) \cap A
        BY <1>3, AmongIs
    <2>. QED BY <1>1, <1>4, <2>1, <2>2
<1>7. PICK N \in Nat : DOMAIN arms = 1..N
    BY <1>6, LenProperties
<1>8. SeedsOf(A, i) = [k \in 1..N |-> <<arms[k], 0, i>>]
    BY <1>5, <1>7 DEF SeedsOf
<1>9. A = {arms[k] : k \in 1..N}
    BY <1>6, <1>7 DEF ToSet
<1>10. ToSet(SeedsOf(A, i)) = {<<arms[k], 0, i>> : k \in 1..N}
    BY <1>8 DEF ToSet
<1>. QED BY <1>9, <1>10

(* Every item that is to be advanced is.                                   *)
LEMMA AdvancedHas ==
    ASSUME NEW S, NEW items \in Seq(S)
    PROVE  ToSet(Advanced(items)) = {Advance(x) : x \in ToSet(items)}
<1>1. PICK N \in Nat : DOMAIN items = 1..N
    BY LenProperties
<1>2. Advanced(items) = [k \in 1..N |-> Advance(items[k])]
    BY <1>1 DEF Advanced
<1>3. ToSet(items) = {items[k] : k \in 1..N}
    BY <1>1 DEF ToSet
<1>. HIDE DEF Advance
<1>4. ToSet(Advanced(items)) = {Advance(items[k]) : k \in 1..N}
    BY <1>2 DEF ToSet
<1>. QED BY <1>3, <1>4

(* What a step leaves alone when the tables stay.                          *)
LEMMA TablesStay ==
    ASSUME tables' = tables
    PROVE  /\ \A it : /\ Complete(it)' = Complete(it) /\ Facing(it)' = Facing(it) /\ RuleOf(it)' = RuleOf(it)
                      /\ FacesTerm(it)' = FacesTerm(it) /\ \A r : FacesRule(it, r)' = FacesRule(it, r)
           /\ \A i : Items(i)' = Items(i)
           /\ \A r : ArmsOf(r)' = ArmsOf(r)
           /\ Nulls' = Nulls
BY DEF Complete, Facing, RuleOf, FacesTerm, FacesRule, Items, ArmsOf, Nulls, Body

LEMMA SameFacts ==
    ASSUME UNCHANGED <<tables, text, bounds, marks>>
    PROVE  Facts' = Facts /\ \A D : Deduced(Input, D)' = Deduced(Input, D)
<1>1. Points' = Points /\ Input' = Input
    BY DEF Points, Input
<1>2. \A sym, i : TermEnds(sym, Input, i)' = TermEnds(sym, Input, i)
    BY <1>1 DEF TermEnds, Size, Unbroken
<1>3. Facts' = Facts
    BY <1>1 DEF Facts, ItemsTo, Body
<1>4. \A D : Deduced(Input, D)' = Deduced(Input, D)
    BY <1>1, <1>2, TablesStay DEF Deduced
<1>. QED BY <1>3, <1>4

LEMMA Follows ==
    ASSUME NEW D, Deduced(Input, D)
    PROVE  /\ \A a \in DOMAIN tables.arms, i \in Points : <<<<a, 0, i>>, i>> \in D
           /\ \A it, i, j : <<it, i>> \in D /\ FacesTerm(it) /\ j \in TermEnds(Facing(it), Input, i)
                    => <<Advance(it), j>> \in D
           /\ \A it, g, j : <<it, Origin(g)>> \in D /\ <<g, j>> \in D /\ Complete(g) /\ FacesRule(it, RuleOf(g))
                    => <<Advance(it), j>> \in D
<1>1. \A a \in DOMAIN tables.arms, i \in Points : <<<<a, 0, i>>, i>> \in D
    BY DEF Deduced
<1>2. ASSUME NEW it, NEW i, NEW j, <<it, i>> \in D, FacesTerm(it), j \in TermEnds(Facing(it), Input, i)
      PROVE  <<Advance(it), j>> \in D
    <2>1. PICK f \in D : f = <<it, i>>
        BY <1>2
    <2>2. f[1] = it /\ f[2] = i
        BY <2>1
    <2>. QED BY <1>2, <2>1, <2>2 DEF Deduced
<1>3. ASSUME NEW it, NEW g, NEW j, <<it, Origin(g)>> \in D, <<g, j>> \in D, Complete(g), FacesRule(it, RuleOf(g))
      PROVE  <<Advance(it), j>> \in D
    <2>1. PICK f \in D, h \in D : f = <<it, Origin(g)>> /\ h = <<g, j>>
        BY <1>3
    <2>2. f[1] = it /\ f[2] = Origin(g) /\ h[1] = g /\ h[2] = j
        BY <2>1
    <2>. QED BY <1>3, <2>1, <2>2 DEF Deduced
<1>. QED BY <1>1, <1>2, <1>3

LEMMA WaitsAre ==
    ASSUME Shape, NEW i \in 0..TextEnd, NEW r
    PROVE  Waiting(i, r) \in Seq(Items(i)) /\ ToSet(Waiting(i, r)) = {it \in ToSet(cols[i]) : FacesRule(it, r)}
<1>1. cols[i] \in Seq(Items(i))
    BY DEF Shape
<1>2. PICK T : T = {it \in ToSet(cols[i]) : FacesRule(it, r)}
    OBVIOUS
<1>3. Among(cols[i], T) \in Seq(Items(i)) /\ ToSet(Among(cols[i], T)) = ToSet(cols[i]) \cap T
    BY <1>1, AmongIs
<1>. QED BY <1>2, <1>3 DEF Waiting

(* The sole waiter is the only one that waits.                             *)
SoleRight(x) ==
    /\ SoleAt(x) \in ToSet(cols[x[1]]) /\ FacesRule(SoleAt(x), x[2]) /\ Complete(Advance(SoleAt(x)))
    /\ \A w \in ToSet(cols[x[1]]) : FacesRule(w, x[2]) => w = SoleAt(x)

LEMMA SoleIs == ASSUME Shape, NEW x \in Columns, SoleAt(x) # NoItem PROVE SoleRight(x)
<1>1. x[1] \in 0..TextEnd
    BY DEF Columns
<1>2. PICK wl : wl = Waiting(x[1], x[2])
    OBVIOUS
<1>3. wl \in Seq(Items(x[1])) /\ ToSet(wl) = {it \in ToSet(cols[x[1]]) : FacesRule(it, x[2])}
    BY <1>1, <1>2, WaitsAre
<1>4. Len(wl) = 1 /\ SoleAt(x) = wl[1] /\ Complete(Advance(wl[1]))
    BY <1>2 DEF SoleAt, Sole, SoleOf
<1>5. ToSet(wl) = {wl[1]}
    <2>1. DOMAIN wl = 1..1
        BY <1>3, <1>4, LenProperties
    <2>2. 1..1 = {1}
        OBVIOUS
    <2>. QED BY <2>1, <2>2 DEF ToSet
<1>. QED BY <1>3, <1>4, <1>5 DEF SoleRight

-----------------------------------------------------------------------------
(* Nothing is filed that the grammar does not derive: every set of facts   *)
(* that holds its own consequences holds the chart.                        *)
SoundIn(D) == \A i \in 0..TextEnd : \A it \in ToSet(cols[i]) : <<it, i>> \in D
Sound == \A i \in 0..TextEnd : \A it \in ToSet(cols[i]) : Derivable(Input, <<it, i>>)

LEMMA SoundIs == Sound <=> \A D \in SUBSET Facts : Deduced(Input, D) => SoundIn(D)
BY DEF Sound, SoundIn, Derivable

Reached(x, j, D) == \E g : <<g, j>> \in D /\ Complete(g) /\ Origin(g) = x[1] /\ RuleOf(g) = x[2]

(* The top of a chain spans what a completion at its foot spans.           *)
LEMMA TopsSound ==
    ASSUME Shape, NEW D, Deduced(Input, D), SoundIn(D), NEW j
    PROVE  \A x \in Columns : Reached(x, j, D) /\ TopOf[x] # NoItem => <<TopOf[x], j>> \in D
<1>. DEFINE P == {x \in Columns : Reached(x, j, D) /\ TopOf[x] # NoItem => <<TopOf[x], j>> \in D}
<1>1. TopsRight /\ TextEnd \in Nat
    BY Tops, Tabled
<1>2. ASSUME NEW x \in Columns, \A y \in Columns : y[1] < x[1] => y \in P PROVE x \in P
    <2>. SUFFICES ASSUME NEW g, <<g, j>> \in D, Complete(g), Origin(g) = x[1], RuleOf(g) = x[2], TopOf[x] # NoItem
                  PROVE  <<TopOf[x], j>> \in D
        BY DEF Reached
    <2>1. /\ TopOf[x] = TopFrom(x, TopOf)
          /\ x \notin Halts => Above(x) \in Columns /\ Above(x)[1] < x[1]
        BY <1>1 DEF TopsRight
    <2>2. x \notin Halts /\ TopOf[x] = IF TopOf[Above(x)] = NoItem THEN Advance(SoleAt(x)) ELSE TopOf[Above(x)]
        BY <2>1 DEF TopFrom
    <2>3. SoleAt(x) # NoItem /\ Above(x) \in P
        BY <1>2, <2>1, <2>2 DEF Halts
    <2>4. SoleRight(x)
        BY <2>3, SoleIs
    <2>5. <<SoleAt(x), Origin(g)>> \in D
        BY <2>4 DEF SoundIn, SoleRight, Columns
    <2>6. <<Advance(SoleAt(x)), j>> \in D
        BY <2>4, <2>5, Follows DEF SoleRight
    <2>7. Reached(Above(x), j, D)
        <3>1. Origin(Advance(SoleAt(x))) = Origin(SoleAt(x)) /\ RuleOf(Advance(SoleAt(x))) = RuleOf(SoleAt(x))
            BY DEF Advance, Origin, RuleOf
        <3>2. Above(x)[1] = Origin(SoleAt(x)) /\ Above(x)[2] = RuleOf(SoleAt(x))
            BY DEF Above
        <3>. QED BY <2>4, <2>6, <3>1, <3>2 DEF Reached, SoleRight
    <2>. QED BY <2>2, <2>3, <2>6, <2>7
<1>3. Columns = (0..TextEnd) \X Rules(tables.arms)
    BY DEF Columns
<1>4. \A x \in Columns : x \in P
    <2>. HIDE DEF P
    <2>. QED BY <1>1, <1>2, <1>3, ColumnInduction
<1>. QED BY <1>4

-----------------------------------------------------------------------------
(* What each step files, as a set.                                         *)
Adds(new) ==
    /\ \A i \in 0..TextEnd : i # pos => cols'[i] = cols[i]
    /\ ToSet(cols'[pos]) = ToSet(cols[pos]) \cup new
    /\ Len(cols[pos]) <= Len(cols'[pos])
    /\ \A k \in 1..Len(cols[pos]) : cols'[pos][k] = cols[pos][k]

LEMMA FiledAdds ==
    ASSUME Shape, NEW new \in Seq(Items(pos)), cols' = [cols EXCEPT ![pos] = Filed(@, new)]
    PROVE  Adds(ToSet(new))
<1>1. cols[pos] \in Seq(Items(pos)) /\ pos \in 0..TextEnd /\ DOMAIN cols = 0..TextEnd
    BY DEF Shape
<1>2. PICK c : c = Filed(cols[pos], new)
    OBVIOUS
<1>3. /\ ToSet(c) = ToSet(cols[pos]) \cup ToSet(new) /\ Len(cols[pos]) <= Len(c)
      /\ \A k \in 1..Len(cols[pos]) : c[k] = cols[pos][k]
    BY <1>1, <1>2, FiledIs
<1>4. \A i \in 0..TextEnd : cols'[i] = IF i = pos THEN c ELSE cols[i]
    BY <1>1, <1>2
<1>. QED BY <1>1, <1>3, <1>4 DEF Adds

Sowing(r) == IF pos = junction THEN ArmsOf(r) ELSE {a \in ArmsOf(r) : Passes(a, text, pos)}
SeedSet(r) == IF r \in predicted[pos] THEN {} ELSE {<<a, 0, pos>> : a \in Sowing(r)}
PastSet(r) == IF r \in Nulls THEN {Advance(Item)} ELSE {}

LEMMA SeedsAdd ==
    ASSUME Shape, NEW r
    PROVE  Seeds(r) \in Seq(Items(pos)) /\ ToSet(Seeds(r)) = SeedSet(r)
<1>1. Given /\ pos \in Nat /\ Sowing(r) \subseteq DOMAIN tables.arms
    BY Tabled DEF Shape, Sowing, ArmsOf
<1>2. CASE r \in predicted[pos]
    BY <1>2 DEF Seeds, SeedSet, ToSet
<1>3. CASE r \notin predicted[pos]
    <2>0. PICK A : A = Sowing(r) /\ A \subseteq DOMAIN tables.arms
        BY <1>1
    <2>1. PICK p \in Nat : A = Sowing(r) /\ A \subseteq DOMAIN tables.arms /\ p = pos
        BY <1>1, <2>0
    <2>2. Seeds(r) = SeedsOf(A, p)
        BY <1>3, <2>1 DEF Seeds, EveryArm, Gated, Sowing
    <2>3. SeedsOf(A, p) \in Seq(Items(p)) /\ ToSet(SeedsOf(A, p)) = {<<a, 0, p>> : a \in A}
        BY <1>1, <2>1, SeedsAre, SeedsHave
    <2>. QED BY <1>3, <2>1, <2>2, <2>3 DEF SeedSet
<1>. QED BY <1>2, <1>3

LEMMA PredictAdds ==
    ASSUME Inv, Predict, NEW r, r = Facing(Item).name
    PROVE  Adds(SeedSet(r) \cup PastSet(r)) /\ predicted' = [predicted EXCEPT ![pos] = @ \cup {r}]
<1>1. /\ Visiting /\ ~Complete(Item) /\ Shape /\ Given
      /\ cols' = [cols EXCEPT ![pos] = Filed(@ \o Seeds(r), PastEmpty(r))]
      /\ predicted' = [predicted EXCEPT ![pos] = @ \cup {r}]
    BY DEF Predict, Inv, Settled, Shape
<1>2. Item \in Items(pos) /\ cols[pos] \in Seq(Items(pos)) /\ pos \in 0..TextEnd /\ TextEnd \in Nat /\ DOMAIN cols = 0..TextEnd
    BY <1>1, Visited DEF Shape
<1>3. PICK seeds, past : seeds = Seeds(r) /\ past = PastEmpty(r)
    OBVIOUS
<1>4. seeds \in Seq(Items(pos)) /\ ToSet(seeds) = SeedSet(r)
    BY <1>1, <1>3, SeedsAdd
<1>5. past \in Seq(Items(pos)) /\ ToSet(past) = PastSet(r)
    <2>1. PICK moved : moved = Advance(Item)
        OBVIOUS
    <2>2. moved \in Items(pos)
        BY <1>1, <1>2, <2>1, Moves
    <2>3. past = IF r \in Nulls THEN <<moved>> ELSE <<>>
        BY <1>1, <1>3, <2>1, EmptiesIs DEF PastEmpty
    <2>. QED BY <2>1, <2>2, <2>3 DEF PastSet, ToSet
<1>6. PICK begun : begun = cols[pos] \o seeds
    OBVIOUS
<1>7. /\ begun \in Seq(Items(pos)) /\ ToSet(begun) = ToSet(cols[pos]) \cup ToSet(seeds)
      /\ Len(begun) = Len(cols[pos]) + Len(seeds)
    BY <1>2, <1>4, <1>6, Joined
<1>8. PICK c : c = Filed(begun, past)
    OBVIOUS
<1>9. /\ c \in Seq(Items(pos)) /\ ToSet(c) = ToSet(begun) \cup ToSet(past) /\ Len(begun) <= Len(c)
      /\ \A k \in 1..Len(begun) : c[k] = begun[k]
    BY <1>5, <1>7, <1>8, FiledIs
<1>10. Len(cols[pos]) \in Nat /\ Len(seeds) \in Nat /\ Len(c) \in Nat
    BY <1>2, <1>4, <1>9, LenProperties
<1>11. ASSUME NEW k \in 1..Len(cols[pos]) PROVE c[k] = cols[pos][k]
    <2>1. k \in 1..(Len(cols[pos]) + Len(seeds)) /\ k <= Len(cols[pos])
        BY <1>10
    <2>2. begun[k] = cols[pos][k]
        BY <1>2, <1>4, <1>6, <2>1, ConcatProperties
    <2>. QED BY <1>7, <1>9, <2>1, <2>2
<1>12. Len(cols[pos]) <= Len(c)
    BY <1>7, <1>9, <1>10
<1>13. \A i \in 0..TextEnd : cols'[i] = IF i = pos THEN c ELSE cols[i]
    BY <1>1, <1>2, <1>3, <1>6, <1>8
<1>14. ToSet(c) = ToSet(cols[pos]) \cup (SeedSet(r) \cup PastSet(r))
    BY <1>4, <1>5, <1>7, <1>9
<1>. QED BY <1>1, <1>2, <1>11, <1>12, <1>13, <1>14 DEF Adds

LEMMA JumpAdds ==
    ASSUME Inv, Jump, NEW x, x = <<Origin(Item), RuleOf(Item)>>
    PROVE  x \in Columns /\ x[1] < pos /\ TopOf[x] # NoItem /\ Adds({TopOf[x]})
<1>1. PICK top : top = LeoResolve(x).top
    OBVIOUS
<1>2. /\ Completing /\ Shape /\ Memos /\ top # NoItem /\ cols' = [cols EXCEPT ![pos] = Filed(@, <<top>>)]
    BY <1>1 DEF Jump, JumpTo, ItsClimb, Inv, Settled
<1>3. x \in Columns /\ x[1] < pos /\ top \in Items(pos)
    BY <1>1, <1>2, ClimbsFrom
<1>4. top = TopOf[x]
    BY <1>1, <1>2, <1>3, Resolves DEF ResolvesRight
<1>5. PICK new : new = <<top>>
    OBVIOUS
<1>6. new \in Seq(Items(pos)) /\ ToSet(new) = {top}
    BY <1>3, <1>5 DEF ToSet
<1>7. Adds(ToSet(new))
    BY <1>2, <1>5, <1>6, FiledAdds
<1>. QED BY <1>2, <1>3, <1>4, <1>6, <1>7

WaitingSet(i, r) == {it \in ToSet(cols[i]) : FacesRule(it, r)}

LEMMA CompleteAdds ==
    ASSUME Inv, CompleteAll, NEW x, x = <<Origin(Item), RuleOf(Item)>>
    PROVE  x \in Columns /\ x[1] < pos /\ Adds({Advance(w) : w \in WaitingSet(x[1], x[2])})
<1>1. PICK waiters : waiters = Waiters
    OBVIOUS
<1>2. Completing /\ Shape /\ cols' = [cols EXCEPT ![pos] = Filed(@, Advanced(waiters))]
    BY <1>1 DEF CompleteAll, Inv, Settled
<1>3. x \in Columns /\ x[1] < pos
    BY <1>2, ClimbsFrom
<1>4. pos \in 0..TextEnd /\ TextEnd \in Nat /\ x[1] \in 0..TextEnd
    BY <1>2, <1>3, Visited DEF Columns, Completing
<1>5. waiters = Waiting(x[1], x[2])
    BY <1>1 DEF Waiters
<1>6. waiters \in Seq(Items(x[1])) /\ ToSet(waiters) = WaitingSet(x[1], x[2])
    BY <1>2, <1>4, <1>5, WaitsAre DEF WaitingSet
<1>7. \A it \in ToSet(waiters) : Advance(it) \in Items(pos)
    <2>. SUFFICES ASSUME NEW it \in ToSet(waiters) PROVE Advance(it) \in Items(pos)
        OBVIOUS
    <2>1. it \in Items(x[1]) /\ ~Complete(it)
        BY <1>6, Queued DEF WaitingSet, FacesRule
    <2>2. PICK moved : moved = Advance(it)
        OBVIOUS
    <2>3. moved \in Items(x[1])
        BY <1>2, <2>1, <2>2, Moves
    <2>4. x[1] \in Int /\ pos \in Int /\ x[1] <= pos
        BY <1>3, <1>4
    <2>. QED BY <2>2, <2>3, <2>4, ItemsGrow
<1>8. PICK new : new = Advanced(waiters)
    OBVIOUS
<1>9. new \in Seq(Items(pos)) /\ ToSet(new) = {Advance(w) : w \in ToSet(waiters)}
    <2>1. new \in Seq(Items(pos))
        BY <1>6, <1>7, <1>8, AdvancedIs
    <2>. QED BY <1>6, <1>8, <2>1, AdvancedHas
<1>10. Adds(ToSet(new))
    BY <1>2, <1>8, <1>9, FiledAdds
<1>. QED BY <1>3, <1>6, <1>9, <1>10

LEMMA FacingIs ==
    ASSUME Given, NEW i, NEW it \in Items(i), ~Complete(it)
    PROVE  it[1] \in DOMAIN tables.arms /\ Facing(it) \in ToSet(Body(it[1])) /\ it[2] + 1 \in DOMAIN Body(it[1])
<1>1. it[1] \in DOMAIN tables.arms /\ it[2] \in Nat /\ it[2] <= Len(Body(it[1]))
    BY DEF Items
<1>2. IsList(Body(it[1]))
    BY <1>1, KernelAssumption DEF Given, IsTables, Body
<1>3. Len(Body(it[1])) \in Nat /\ DOMAIN Body(it[1]) = 1..Len(Body(it[1]))
    BY <1>2, LenProperties DEF IsList
<1>4. it[2] + 1 \in 1..Len(Body(it[1]))
    BY <1>1, <1>3 DEF Complete
<1>. QED BY <1>1, <1>3, <1>4 DEF Facing, ToSet

Landed(i, j) == {it \in ToSet(cols[i]) : FacesTerm(it) /\ j \in TermEnds(Facing(it), Input, i)}

(* Beyond the column the loop is at, the text has ended nowhere but where  *)
(* it does.                                                                *)
LEMMA UnbrokenAhead == ASSUME Inv, NEW j \in 0..TextEnd, pos < j PROVE Unbroken(Input, pos, j)
<1>1. TextEnd \in Nat /\ pos \in 0..TextEnd /\ junction \in {-1, pos}
    BY Tabled DEF Inv, Settled, Shape
<1>2. /\ marks \subseteq 0..TextEnd
      /\ \A m \in marks : m = TextEnd \/ m <= pos
    BY <1>1 DEF Inv, Settled, Topped
<1>3. ASSUME NEW k \in (pos + 1)..(j - 1) PROVE k \notin marks
    BY <1>1, <1>2
<1>. QED BY <1>3 DEF Unbroken, Input

LEMMA ScanAdds ==
    ASSUME Inv, Scan
    PROVE  \A j \in 0..TextEnd :
              /\ j <= pos => cols'[j] = cols[j]
              /\ j > pos => ToSet(cols'[j]) = ToSet(cols[j]) \cup {Advance(it) : it \in Landed(pos, j)}
<1>1. Shape /\ pos < TextEnd /\ cols' = [j \in DOMAIN cols |-> IF j > pos THEN Filed(cols[j], Advanced(LandingAt(j))) ELSE cols[j]]
    BY DEF Scan, Inv, Settled, TextEnd
<1>2. pos \in 0..TextEnd /\ TextEnd \in Nat /\ DOMAIN cols = 0..TextEnd /\ Given
    BY <1>1, Tabled DEF Shape
<1>3. ASSUME NEW j \in 0..TextEnd, j > pos
      PROVE  ToSet(cols'[j]) = ToSet(cols[j]) \cup {Advance(it) : it \in Landed(pos, j)}
    <2>1. PICK T : T = {it \in ToSet(cols[pos]) : FacesTerm(it) /\ Lands(Facing(it), pos) = j}
        OBVIOUS
    <2>2. PICK list : list = LandingAt(j)
        OBVIOUS
    <2>3. cols[pos] \in Seq(Items(pos)) /\ cols[j] \in Seq(Items(j))
        BY <1>1, <1>2 DEF Shape
    <2>4. list \in Seq(Items(pos)) /\ ToSet(list) = T
        <3>1. list = Among(cols[pos], T)
            BY <2>1, <2>2 DEF LandingAt
        <3>2. list \in Seq(Items(pos)) /\ ToSet(list) = ToSet(cols[pos]) \cap T
            BY <2>3, <3>1, AmongIs
        <3>. QED BY <2>1, <3>2
    <2>5. T = Landed(pos, j)
        <3>. SUFFICES ASSUME NEW it \in ToSet(cols[pos]), FacesTerm(it)
                      PROVE  Lands(Facing(it), pos) = j <=> j \in TermEnds(Facing(it), Input, pos)
            BY <2>1 DEF Landed
        <3>1. it \in Items(pos) /\ ~Complete(it) /\ ~IsRule(Facing(it))
            BY <2>3, Queued DEF FacesTerm
        <3>2. PICK a \in DOMAIN tables.arms : Facing(it) \in ToSet(Body(a))
            BY <1>2, <3>1, FacingIs
        <3>3. j \in (pos + 1)..TextEnd
            BY <1>2, <1>3
        <3>4. Unbroken(Input, pos, j)
            BY <1>2, <1>3, UnbrokenAhead
        <3>. QED BY <1>2, <3>1, <3>2, <3>3, <3>4, LandsIs
    <2>6. ASSUME NEW it \in ToSet(list) PROVE Advance(it) \in Items(j)
        <3>1. it \in Items(pos) /\ ~Complete(it)
            BY <2>1, <2>3, <2>4, Queued DEF FacesTerm
        <3>2. PICK moved : moved = Advance(it)
            OBVIOUS
        <3>3. moved \in Items(pos)
            BY <1>1, <3>1, <3>2, Moves
        <3>4. pos \in Int /\ j \in Int /\ pos <= j
            BY <1>2, <1>3
        <3>. QED BY <3>2, <3>3, <3>4, ItemsGrow
    <2>7. PICK new : new = Advanced(list)
        OBVIOUS
    <2>8. new \in Seq(Items(j)) /\ ToSet(new) = {Advance(it) : it \in ToSet(list)}
        <3>1. new \in Seq(Items(j))
            BY <2>4, <2>6, <2>7, AdvancedIs
        <3>. QED BY <2>4, <2>7, <3>1, AdvancedHas
    <2>9. PICK c : c = Filed(cols[j], new)
        OBVIOUS
    <2>10. ToSet(c) = ToSet(cols[j]) \cup ToSet(new)
        BY <2>3, <2>8, <2>9, FiledIs
    <2>11. cols'[j] = c
        BY <1>1, <1>2, <1>3, <2>2, <2>7, <2>9
    <2>. QED BY <2>4, <2>5, <2>8, <2>10, <2>11
<1>4. \A j \in 0..TextEnd : j <= pos => cols'[j] = cols[j]
    BY <1>1, <1>2
<1>. QED BY <1>3, <1>4

(* What a step files is in every set of facts that holds its consequences. *)
LEMMA AddsSound ==
    ASSUME Shape, NEW D, SoundIn(D), TextEnd' = TextEnd, NEW new, Adds(new), \A it \in new : <<it, pos>> \in D
    PROVE  SoundIn(D)'
<1>1. pos \in 0..TextEnd
    BY DEF Shape
<1>. SUFFICES ASSUME NEW i \in 0..TextEnd, NEW it \in ToSet(cols'[i]) PROVE <<it, i>> \in D
    BY DEF SoundIn
<1>. QED BY <1>1 DEF SoundIn, Adds

LEMMA PredictSound ==
    ASSUME Inv, Predict, NEW D \in SUBSET Facts, Deduced(Input, D), SoundIn(D)
    PROVE  SoundIn(D)'
<1>1. PICK r : r = Facing(Item).name
    OBVIOUS
<1>2. Visiting /\ ~Complete(Item) /\ IsRule(Facing(Item)) /\ Shape /\ Given /\ TextEnd' = TextEnd
    BY DEF Predict, Inv, Settled, Shape, given, TextEnd
<1>3. Item \in ToSet(cols[pos]) /\ pos \in 0..TextEnd /\ Points = 0..TextEnd
    BY <1>2, Visited DEF Points, TextEnd
<1>4. \A it \in SeedSet(r) : <<it, pos>> \in D
    <2>1. Sowing(r) \subseteq DOMAIN tables.arms
        BY DEF Sowing, ArmsOf
    <2>. QED BY <1>3, <2>1, Follows DEF SeedSet
<1>5. ASSUME r \in Nulls PROVE <<Advance(Item), pos>> \in D
    <2>1. PICK a \in ArmsOf(r) : <<<<a, Len(Body(a)), pos>>, pos>> \in D
        BY <1>2, <1>3, <1>5, NullFacts
    <2>2. PICK g : g = <<a, Len(Body(a)), pos>>
        OBVIOUS
    <2>3. <<g, pos>> \in D /\ Complete(g) /\ RuleOf(g) = r /\ Origin(g) = pos
        BY <2>1, <2>2 DEF Complete, RuleOf, ArmsOf, Origin
    <2>4. <<Item, Origin(g)>> \in D /\ FacesRule(Item, RuleOf(g))
        BY <1>1, <1>2, <1>3, <2>3 DEF SoundIn, FacesRule
    <2>. QED BY <2>3, <2>4, Follows
<1>6. Adds(SeedSet(r) \cup PastSet(r))
    BY <1>1, PredictAdds
<1>7. \A it \in SeedSet(r) \cup PastSet(r) : <<it, pos>> \in D
    BY <1>4, <1>5 DEF PastSet
<1>. QED BY <1>2, <1>6, <1>7, AddsSound

(* The item being completed reaches its own place.                         *)
LEMMA ItemReaches ==
    ASSUME Inv, Completing, NEW D, SoundIn(D), NEW x, x = <<Origin(Item), RuleOf(Item)>>
    PROVE  Reached(x, pos, D) /\ <<Item, pos>> \in D
<1>1. Shape /\ Visiting /\ Complete(Item)
    BY DEF Completing, Inv, Settled
<1>2. Item \in ToSet(cols[pos]) /\ pos \in 0..TextEnd
    BY <1>1, Visited
<1>3. <<Item, pos>> \in D
    BY <1>2 DEF SoundIn
<1>4. x[1] = Origin(Item) /\ x[2] = RuleOf(Item)
    OBVIOUS
<1>. QED BY <1>1, <1>3, <1>4 DEF Reached

LEMMA JumpSound ==
    ASSUME Inv, Jump, NEW D \in SUBSET Facts, Deduced(Input, D), SoundIn(D)
    PROVE  SoundIn(D)'
<1>1. PICK x : x = <<Origin(Item), RuleOf(Item)>>
    OBVIOUS
<1>2. Completing /\ Shape /\ TextEnd' = TextEnd
    BY DEF Jump, Inv, Settled, client, given, TextEnd
<1>3. x \in Columns /\ TopOf[x] # NoItem /\ Adds({TopOf[x]})
    BY <1>1, JumpAdds
<1>4. Reached(x, pos, D)
    BY <1>1, <1>2, ItemReaches
<1>5. <<TopOf[x], pos>> \in D
    BY <1>2, <1>3, <1>4, TopsSound
<1>. QED BY <1>2, <1>3, <1>5, AddsSound

LEMMA CompleteSound ==
    ASSUME Inv, CompleteAll, NEW D \in SUBSET Facts, Deduced(Input, D), SoundIn(D)
    PROVE  SoundIn(D)'
<1>1. PICK x : x = <<Origin(Item), RuleOf(Item)>>
    OBVIOUS
<1>2. Completing /\ Shape /\ TextEnd' = TextEnd /\ Complete(Item)
    BY DEF CompleteAll, Completing, Inv, Settled, client, given, TextEnd
<1>3. x \in Columns /\ Adds({Advance(w) : w \in WaitingSet(x[1], x[2])})
    BY <1>1, CompleteAdds
<1>4. <<Item, pos>> \in D
    BY <1>1, <1>2, ItemReaches
<1>5. ASSUME NEW w \in WaitingSet(x[1], x[2]) PROVE <<Advance(w), pos>> \in D
    <2>1. w \in ToSet(cols[x[1]]) /\ FacesRule(w, x[2]) /\ x[1] \in 0..TextEnd
        BY <1>3 DEF WaitingSet, Columns
    <2>2. <<w, Origin(Item)>> \in D /\ FacesRule(w, RuleOf(Item))
        BY <1>1, <2>1 DEF SoundIn
    <2>. QED BY <1>2, <1>4, <2>2, Follows
<1>6. \A it \in {Advance(w) : w \in WaitingSet(x[1], x[2])} : <<it, pos>> \in D
    BY <1>5
<1>. QED BY <1>2, <1>3, <1>6, AddsSound

LEMMA ScanSound ==
    ASSUME Inv, Scan, NEW D \in SUBSET Facts, Deduced(Input, D), SoundIn(D)
    PROVE  SoundIn(D)'
<1>1. Shape /\ TextEnd' = TextEnd /\ TextEnd \in Nat /\ pos \in 0..TextEnd
    BY Tabled DEF Scan, Inv, Settled, Shape, given, TextEnd
<1>. SUFFICES ASSUME NEW j \in 0..TextEnd, NEW it \in ToSet(cols'[j]) PROVE <<it, j>> \in D
    BY <1>1 DEF SoundIn
<1>2. j <= pos \/ j > pos
    BY <1>1
<1>3. CASE it \in ToSet(cols[j])
    BY <1>3 DEF SoundIn
<1>4. CASE it \notin ToSet(cols[j])
    <2>1. PICK from \in Landed(pos, j) : it = Advance(from)
        BY <1>2, <1>4, ScanAdds
    <2>2. <<from, pos>> \in D
        BY <1>1, <2>1 DEF Landed, SoundIn
    <2>. QED BY <2>1, <2>2, Follows DEF Landed
<1>. QED BY <1>3, <1>4

-----------------------------------------------------------------------------
(* Two texts that agree up to a place, and the tokens that begin before it.*)
Agree(c) ==
    /\ c \in 0..TextEnd /\ c \in 0..TextEnd' /\ \A k \in 1..c : text'[k] = text[k]
    /\ \A i \in 0..(c - 1) : /\ i \in DOMAIN bounds' <=> i \in DOMAIN bounds
                             /\ i \in DOMAIN bounds => bounds'[i] = bounds[i]

LEMMA SlicesAgree ==
    ASSUME Given, Given', NEW i \in Nat, NEW j \in Nat, i < j, j <= TextEnd, j <= TextEnd',
           \A k \in 1..j : text'[k] = text[k]
    PROVE  SubSeq(text', i + 1, j) = SubSeq(text, i + 1, j)
<1>1. PICK w1, w2 : w1 = text /\ w2 = text'
    OBVIOUS
<1>2. w1 \in Seq(ToSet(w1)) /\ Len(w1) = TextEnd /\ w2 \in Seq(ToSet(w2)) /\ Len(w2) = TextEnd'
    BY <1>1 DEF Given, IsList, TextEnd
<1>3. PICK S : S = ToSet(w1) \cup ToSet(w2)
    OBVIOUS
<1>4. w1 \in Seq(S) /\ w2 \in Seq(S) /\ Len(w1) \in Nat /\ Len(w2) \in Nat
    <2>1. ToSet(w1) \subseteq S /\ ToSet(w2) \subseteq S
        BY <1>3
    <2>. QED BY <1>2, <2>1, SeqMonotonic, LenProperties
<1>5. PICK m \in Int : m = i + 1
    OBVIOUS
<1>6. \A k \in m..j : w1[k] \in S /\ w2[k] \in S /\ w2[k] = w1[k]
    <2>1. \A k \in m..j : k \in 1..j /\ k \in 1..Len(w1) /\ k \in 1..Len(w2)
        BY <1>2, <1>4, <1>5
    <2>2. \A k \in m..j : w1[k] \in S /\ w2[k] \in S
        BY <1>4, <2>1, ElementOfSeq
    <2>. QED BY <1>1, <2>1, <2>2
<1>7. PICK s1, s2 : s1 = SubSeq(w1, m, j) /\ s2 = SubSeq(w2, m, j)
    OBVIOUS
<1>8. /\ s1 \in Seq(S) /\ Len(s1) = (IF m <= j THEN j - m + 1 ELSE 0)
      /\ \A k \in 1..(j - m + 1) : s1[k] = w1[m + k - 1]
    BY <1>6, <1>7, SubSeqProperties
<1>9. /\ s2 \in Seq(S) /\ Len(s2) = (IF m <= j THEN j - m + 1 ELSE 0)
      /\ \A k \in 1..(j - m + 1) : s2[k] = w2[m + k - 1]
    BY <1>6, <1>7, SubSeqProperties
<1>10. \A k \in 1..(j - m + 1) : m + k - 1 \in m..j
    OBVIOUS
<1>11. m <= j
    BY <1>5
<1>12. \A k \in 1..Len(s1) : s1[k] = s2[k]
    BY <1>6, <1>8, <1>9, <1>10, <1>11
<1>13. s1 = s2
    BY <1>8, <1>9, <1>12, SeqEqual
<1>. QED BY <1>1, <1>5, <1>7, <1>13

(* Two inputs broken at the same places before one.                        *)
SameBreaks(c) == \A k \in 0..(c - 1) : k \in marks' <=> k \in marks

LEMMA TermsKept ==
    ASSUME Given, Given', tables' = tables, ~HasRuns, NEW c, Agree(c), SameBreaks(c),
           NEW a \in DOMAIN tables.arms, NEW sym \in ToSet(Body(a)), ~IsRule(sym), NEW i \in 0..c, NEW j \in 0..c
    PROVE  j \in TermEnds(sym, Input, i)' <=> j \in TermEnds(sym, Input, i)
<1>1. IsSymbol(sym) /\ sym.kind # "run"
    BY KernelAssumption DEF Given, IsTables, HasRuns, Body
<1>2. TextEnd \in Nat /\ TextEnd' \in Nat
    <2>1. TextEnd \in Nat
        BY Compiles
    <2>2. IsList(text')
        BY DEF Given
    <2>. QED BY <2>1, <2>2, LenProperties DEF TextEnd, IsList
<1>3. /\ Input.chars = text /\ Input.tokens = bounds /\ Size(Input) = TextEnd /\ Input.breaks = marks
      /\ Input'.chars = text' /\ Input'.tokens = bounds' /\ Size(Input)' = TextEnd' /\ Input'.breaks = marks'
    BY DEF Input, Size, TextEnd
<1>4. c \in Nat /\ c <= TextEnd /\ c <= TextEnd'
    BY <1>2 DEF Agree
<1>. HIDE DEF Input
<1>. DEFINE Whole(breaks, m, n) == \A k \in (m + 1)..(n - 1) : k \notin breaks
<1>5. j \in TermEnds(sym, Input, i) <=>
          /\ j \in (i + 1)..TextEnd
          /\ CASE sym.kind = "class" -> j = i + 1 /\ text[j] \in sym.chars
               [] sym.kind = "literal" -> SubSeq(text, i + 1, j) = sym.string /\ Whole(marks, i, j)
               [] sym.kind = "token" -> i \in DOMAIN bounds /\ bounds[i].id \in sym.ids /\ j = i + bounds[i].length
    BY <1>1, <1>3 DEF TermEnds, IsSymbol, IsRule, Unbroken
<1>6. j \in TermEnds(sym, Input, i)' <=>
          /\ j \in (i + 1)..TextEnd'
          /\ CASE sym.kind = "class" -> j = i + 1 /\ text'[j] \in sym.chars
               [] sym.kind = "literal" -> SubSeq(text', i + 1, j) = sym.string /\ Whole(marks', i, j)
               [] sym.kind = "token" -> i \in DOMAIN bounds' /\ bounds'[i].id \in sym.ids /\ j = i + bounds'[i].length
    BY <1>1, <1>3 DEF TermEnds, IsSymbol, IsRule, Unbroken
<1>7. (j \in (i + 1)..TextEnd' <=> i < j) /\ (j \in (i + 1)..TextEnd <=> i < j)
    BY <1>2, <1>4
<1>8. i < j => j \in 1..c /\ i \in 0..(c - 1)
    BY <1>4
<1>9. i < j => text'[j] = text[j] /\ (i \in DOMAIN bounds' <=> i \in DOMAIN bounds) /\ (i \in DOMAIN bounds => bounds'[i] = bounds[i])
    BY <1>8 DEF Agree
<1>10. CASE sym.kind = "class"
    BY <1>5, <1>6, <1>7, <1>9, <1>10
<1>11. CASE sym.kind = "token"
    BY <1>5, <1>6, <1>7, <1>9, <1>11
<1>12. ASSUME i < j PROVE Whole(marks', i, j) <=> Whole(marks, i, j)
    <2>1. \A k \in (i + 1)..(j - 1) : k \in 0..(c - 1)
        BY <1>4
    <2>. QED BY <2>1 DEF SameBreaks
<1>13. ASSUME i < j PROVE SubSeq(text', i + 1, j) = SubSeq(text, i + 1, j)
    <2>1. j <= c
        BY <1>4
    <2>. QED BY <1>4, <1>13, <2>1, SlicesAgree DEF Agree
<1>14. CASE sym.kind = "literal"
    <2>. HIDE DEF Whole
    <2>. QED BY <1>5, <1>6, <1>7, <1>12, <1>13, <1>14
<1>. QED BY <1>1, <1>10, <1>11, <1>14 DEF IsSymbol, IsRule

(* An advanced fact is a fact, as far as the text goes.                    *)
LEMMA FactsMove ==
    ASSUME Given, NEW it, NEW i, <<it, i>> \in Facts, ~Complete(it), NEW j \in Points, i <= j
    PROVE  <<Advance(it), j>> \in Facts
<1>1. i \in Points /\ it \in Items(i) /\ Points = 0..TextEnd /\ TextEnd \in Nat
    BY FactIs, Compiles DEF Points, TextEnd
<1>2. /\ it = <<it[1], it[2], it[3]>> /\ it[1] \in DOMAIN tables.arms /\ it[2] \in Nat /\ it[3] \in 0..i
      /\ it[2] <= Len(Body(it[1])) /\ it[2] # Len(Body(it[1])) /\ Len(Body(it[1])) \in Nat
    BY <1>1, Compiles DEF Items, Complete
<1>3. PICK d : d = it[2] + 1
    OBVIOUS
<1>4. d \in Nat /\ d <= Len(Body(it[1])) /\ it[3] \in 0..j
    BY <1>1, <1>2, <1>3
<1>5. PICK moved : moved = Advance(it)
    OBVIOUS
<1>6. moved = <<it[1], d, it[3]>>
    BY <1>3, <1>5 DEF Advance
<1>7. moved \in Items(j)
    BY <1>2, <1>4, <1>6 DEF Items
<1>. QED BY <1>5, <1>7, FactIs

LEMMA SeedFacts ==
    ASSUME Given, NEW a \in DOMAIN tables.arms, NEW i \in Points
    PROVE  <<<<a, 0, i>>, i>> \in Facts
<1>1. <<a, 0, i>> \in Items(i)
    BY Compiles DEF Items, Points
<1>. QED BY <1>1, FactIs

(* To hold its consequences, said of items and of places.                  *)
LEMMA FactsOf ==
    ASSUME Given, NEW D, D \subseteq Facts,
           \A a \in DOMAIN tables.arms, i \in Points : <<<<a, 0, i>>, i>> \in D,
           \A it, i, j : <<it, i>> \in D /\ FacesTerm(it) /\ j \in TermEnds(Facing(it), Input, i) => <<Advance(it), j>> \in D,
           \A it, g, j : <<it, Origin(g)>> \in D /\ <<g, j>> \in D /\ Complete(g) /\ FacesRule(it, RuleOf(g))
                    => <<Advance(it), j>> \in D
    PROVE  Deduced(Input, D)
<1>1. \A f \in D : f = <<f[1], f[2]>>
    BY FactIs
<1>2. ASSUME NEW f \in D, FacesTerm(f[1]), NEW j \in TermEnds(Facing(f[1]), Input, f[2]) PROVE <<Advance(f[1]), j>> \in D
    <2>1. <<f[1], f[2]>> \in D
        BY <1>1
    <2>. QED BY <1>2, <2>1
<1>3. ASSUME NEW f \in D, NEW g \in D, Complete(g[1]), FacesRule(f[1], RuleOf(g[1])), Origin(g[1]) = f[2]
      PROVE  <<Advance(f[1]), g[2]>> \in D
    <2>1. <<f[1], Origin(g[1])>> \in D /\ <<g[1], g[2]>> \in D
        BY <1>1, <1>3
    <2>. QED BY <1>3, <2>1
<1>. QED BY <1>2, <1>3 DEF Deduced

(* What the loop has done for the items behind it: each that faces a rule  *)
(* has it predicted, and is advanced at once past one that may vanish;     *)
(* each that completes has advanced all that waited on it, or the top of   *)
(* its chain is there.                                                     *)
Passed(x, j) ==
    \/ \A w \in ToSet(cols[x[1]]) : FacesRule(w, x[2]) => Advance(w) \in ToSet(cols[j])
    \/ TopOf[x] # NoItem /\ TopOf[x] \in ToSet(cols[j])
HandledAhead(it, i) ==
    \A r : FacesRule(it, r) => r \in predicted[i] /\ (r \in Nulls => Advance(it) \in ToSet(cols[i]))
Handled(it, i) ==
    HandledAhead(it, i) /\ (Complete(it) /\ Origin(it) < i => Passed(<<Origin(it), RuleOf(it)>>, i))
Behind(i, k) == i < pos \/ (i = pos /\ k < at)
AllHandled == \A i \in 0..TextEnd : \A k \in DOMAIN cols[i] : Behind(i, k) => Handled(cols[i][k], i)

(* Terminals have been scanned from every closed column; of a rule that is *)
(* predicted every arm stands there that its gate lets pass, and every arm *)
(* where all are recorded to.                                              *)
Scanned ==
    \A i \in 0..TextEnd : i < pos => \A it \in ToSet(cols[i]) :
        FacesTerm(it) => \A j \in TermEnds(Facing(it), Input, i) : Advance(it) \in ToSet(cols[j])
Sown == \A i \in 0..TextEnd : \A r \in predicted[i] : \A a \in ArmsOf(r) :
            <<a, 0, i>> \in ToSet(cols[i]) \/ ~Passes(a, text, i)
SownWhole == \A i \in DOMAIN topped : \A r \in topped[i] : \A a \in ArmsOf(r) : <<a, 0, i>> \in ToSet(cols[i])
StartPredicted == tables.start \in predicted[0]
TokensWhole == \A i \in DOMAIN bounds : i \in Nat /\ i + bounds[i].length <= TextEnd
(* The text's end is one of the places where it has ended; and over tables *)
(* with runs it never grew.                                                *)
Ungrown ==
    /\ TextEnd \in marks
    /\ HasRuns /\ ~recordLinks => TextEnd = 0
    /\ recordLinks => marks = {TextEnd}
Worked == AllHandled /\ Scanned /\ Sown /\ SownWhole /\ StartPredicted /\ TokensWhole /\ Ungrown

-----------------------------------------------------------------------------
(* What an arm may begin with.                                             *)
Vanished(it) == \A k \in 1..it[2] : IsRule(Body(it[1])[k]) /\ Body(it[1])[k].name \in Nulls
FirstOfArm(a) == ArmFirst(tables.arms[a], Nulls, Firsts)
Opens(a, o) == AnyChar \in FirstOfArm(a) \/ text[o + 1] \in FirstOfArm(a)

LEMMA FirstRead ==
    ASSUME Given, NEW i, NEW it \in Items(i), ~Complete(it), Vanished(it)
    PROVE  /\ IsRule(Facing(it)) => \A c : <<Facing(it).name, c>> \in Firsts => c \in FirstOfArm(it[1])
           /\ ~IsRule(Facing(it)) => TermFirst(Facing(it)) \subseteq FirstOfArm(it[1])
<1>1. it[2] + 1 \in DOMAIN Body(it[1]) /\ it[2] \in Nat
    BY FacingIs DEF Items
<1>2. PICK k : k = it[2] + 1 /\ k \in DOMAIN Body(it[1])
    BY <1>1
<1>3. Facing(it) = Body(it[1])[k]
    BY <1>2 DEF Facing
<1>4. \A m \in 1..(k - 1) : IsRule(Body(it[1])[m]) /\ Body(it[1])[m].name \in Nulls
    BY <1>1, <1>2 DEF Vanished
<1>. DEFINE Part(n) == IF IsRule(Body(it[1])[n]) THEN {f[2] : f \in {g \in Firsts : g[1] = Body(it[1])[n].name}}
                       ELSE TermFirst(Body(it[1])[n])
            read == {n \in DOMAIN Body(it[1]) : \A m \in 1..(n - 1) : IsRule(Body(it[1])[m]) /\ Body(it[1])[m].name \in Nulls}
<1>5. FirstOfArm(it[1]) = UNION {Part(n) : n \in read}
    BY DEF FirstOfArm, ArmFirst, Body
<1>6. k \in read
    BY <1>2, <1>4
<1>. HIDE DEF read
<1>7. Part(k) \subseteq FirstOfArm(it[1])
    BY <1>5, <1>6
<1>8. ASSUME IsRule(Facing(it)), NEW c, <<Facing(it).name, c>> \in Firsts PROVE c \in FirstOfArm(it[1])
    <2>1. PICK g \in Firsts : g = <<Facing(it).name, c>>
        BY <1>8
    <2>2. g[1] = Body(it[1])[k].name /\ g[2] = c
        BY <1>3, <2>1
    <2>3. c \in Part(k)
        BY <1>3, <1>8, <2>2
    <2>. QED BY <1>7, <2>3
<1>. QED BY <1>3, <1>7, <1>8

(* A terminal that ends somewhere begins with what it may.                 *)
LEMMA TermOpens ==
    ASSUME Given, NEW sym, IsSymbol(sym), ~IsRule(sym), NEW i \in 0..TextEnd, NEW j \in TermEnds(sym, Input, i)
    PROVE  AnyChar \in TermFirst(sym) \/ text[i + 1] \in TermFirst(sym)
<1>1. /\ Input.chars = text /\ Size(Input) = TextEnd /\ TextEnd \in Nat
    BY Compiles DEF Input, Size, TextEnd
<1>2. j \in (i + 1)..TextEnd /\ i + 1 \in (i + 1)..j /\ i \in Int /\ j \in Int
    BY <1>1 DEF TermEnds
<1>. HIDE DEF Input
<1>3. CASE sym.kind = "class"
    BY <1>1, <1>3 DEF TermEnds, TermFirst
<1>4. CASE sym.kind = "run"
    BY <1>1, <1>2, <1>4 DEF TermEnds, TermFirst
<1>5. CASE sym.kind = "token"
    BY <1>5 DEF TermFirst
<1>6. CASE sym.kind = "literal"
    <2>1. SubSeq(text, i + 1, j) = sym.string /\ TermFirst(sym) = {Head(sym.string)}
        BY <1>1, <1>6 DEF TermEnds, TermFirst
    <2>2. text \in Seq(ToSet(text)) /\ Len(text) = TextEnd
        BY DEF Given, IsList, TextEnd
    <2>3. PICK m \in Int : m = i + 1
        BY <1>2
    <2>4. \A k \in m..j : text[k] \in ToSet(text)
        <3>1. \A k \in m..j : k \in 1..TextEnd
            BY <1>1, <1>2, <2>3
        <3>. QED BY <2>2, <3>1, ElementOfSeq
    <2>5. /\ SubSeq(text, m, j) \in Seq(ToSet(text)) /\ Len(SubSeq(text, m, j)) = (IF m <= j THEN j - m + 1 ELSE 0)
          /\ \A k \in 1..(j - m + 1) : SubSeq(text, m, j)[k] = text[m + k - 1]
        BY <1>2, <2>4, SubSeqProperties
    <2>6. m <= j /\ 1 \in 1..(j - m + 1) /\ m + 1 - 1 = i + 1
        BY <1>2, <2>3
    <2>7. PICK s : s = SubSeq(text, m, j)
        OBVIOUS
    <2>8. s[1] = text[i + 1] /\ s = sym.string
        BY <2>1, <2>3, <2>5, <2>6, <2>7
    <2>9. Head(s) = s[1]
        <3>1. s \in Seq(ToSet(text)) /\ Len(s) = j - m + 1
            BY <2>5, <2>6, <2>7
        <3>2. Len(s) # 0
            BY <1>2, <2>3, <2>6, <3>1
        <3>3. s # <<>>
            BY <3>1, <3>2, EmptySeq
        <3>. QED BY <3>1, <3>3, HeadTailProperties
    <2>. QED BY <2>1, <2>8, <2>9
<1>. QED BY <1>3, <1>4, <1>5, <1>6 DEF IsSymbol, IsRule

(* No gate drops an arm that is needed.                                    *)
LEMMA GatesLet ==
    ASSUME Given, NEW a \in DOMAIN tables.arms
    PROVE  /\ \A o \in 0..TextEnd : o < TextEnd /\ Opens(a, o) => Passes(a, text, o)
           /\ ArmNullable(tables.arms[a], Nulls) => AnyChar \in tables.gates[a]
<1>1. tables.gates[a] = IF ArmNullable(tables.arms[a], Nulls) THEN {AnyChar} ELSE FirstOfArm(a)
    BY SolvedIs DEF Gate, FirstOfArm
<1>. QED BY <1>1 DEF Opens, Passes, TextEnd

LEMMA VanishedWhole ==
    ASSUME Given, NEW i, NEW it \in Items(i), Complete(it), Vanished(it)
    PROVE  ArmNullable(tables.arms[it[1]], Nulls) /\ RuleOf(it) \in Nulls /\ AnyChar \in tables.gates[it[1]]
<1>1. it[1] \in DOMAIN tables.arms /\ it[2] = Len(Body(it[1]))
    BY DEF Items, Complete
<1>2. DOMAIN Body(it[1]) = 1..Len(Body(it[1]))
    <2>1. IsList(Body(it[1]))
        BY <1>1, KernelAssumption DEF Given, IsTables, Body
    <2>. QED BY <2>1, LenProperties DEF IsList
<1>3. ArmNullable(tables.arms[it[1]], Nulls)
    BY <1>1, <1>2 DEF Vanished, ArmNullable, Body
<1>. QED BY <1>1, <1>3, SolvedIs, GatesLet DEF RuleOf

(* What accounts for a fact in a chart that is done: that it spans what it *)
(* may, and, where its rule is predicted, that the chart holds it, or a    *)
(* gate rightly dropped its arm, or a jump passed it by.                   *)
FitsSpan(it, j) == IF j = Origin(it) THEN Vanished(it) ELSE Opens(it[1], Origin(it))
Muted(it, j) == j = Origin(it) /\ ~Passes(it[1], text, j)
Hidden(it, j) ==
    /\ Complete(it) /\ Origin(it) < j
    /\ TopOf[<<Origin(it), RuleOf(it)>>] # NoItem /\ TopOf[<<Origin(it), RuleOf(it)>>] \in ToSet(cols[j])
InChart(it, j) == it \in ToSet(cols[j]) \/ Muted(it, j) \/ Hidden(it, j)
Account(it, j) == FitsSpan(it, j) /\ (RuleOf(it) \in predicted[Origin(it)] => InChart(it, j))
Accounted == {f \in Facts : Account(f[1], f[2])}

Done == /\ Shape /\ Seeded /\ Scanned /\ Sown /\ StartPredicted /\ pos = TextEnd
        /\ \A i \in 0..TextEnd : \A it \in ToSet(cols[i]) : Handled(it, i)

LEMMA AccountedIs ==
    ASSUME Given
    PROVE  \A it, j : <<it, j>> \in Accounted <=> <<it, j>> \in Facts /\ Account(it, j)
<1>. SUFFICES ASSUME NEW it, NEW j PROVE <<it, j>> \in Accounted <=> <<it, j>> \in Facts /\ Account(it, j)
    OBVIOUS
<1>1. PICK f : f = <<it, j>>
    OBVIOUS
<1>2. f[1] = it /\ f[2] = j
    BY <1>1
<1>3. f \in Accounted <=> f \in Facts /\ Account(f[1], f[2])
    BY DEF Accounted
<1>. QED BY <1>1, <1>2, <1>3

LEMMA FactParts ==
    ASSUME Given, NEW it, NEW j, <<it, j>> \in Facts
    PROVE  /\ it \in Items(j) /\ j \in 0..TextEnd /\ j \in Points /\ TextEnd \in Nat /\ Origin(it) \in 0..j /\ Origin(it) \in 0..TextEnd
           /\ it[1] \in DOMAIN tables.arms /\ it[2] \in Nat
<1>1. Points = 0..TextEnd /\ TextEnd \in Nat
    BY Compiles DEF Points, TextEnd
<1>2. it \in Items(j) /\ j \in Points
    BY FactIs
<1>. QED BY <1>1, <1>2 DEF Items, Origin

LEMMA Moved ==
    ASSUME NEW it, NEW i, it \in Items(i)
    PROVE  /\ Origin(Advance(it)) = Origin(it) /\ RuleOf(Advance(it)) = RuleOf(it) /\ Advance(it)[1] = it[1]
           /\ Vanished(it) /\ IsRule(Facing(it)) /\ Facing(it).name \in Nulls => Vanished(Advance(it))
<1>1. Advance(it)[1] = it[1] /\ Advance(it)[2] = it[2] + 1 /\ Advance(it)[3] = it[3] /\ it[2] \in Nat
    BY DEF Advance, Items
<1>2. \A k \in 1..(it[2] + 1) : k \in 1..it[2] \/ k = it[2] + 1
    BY <1>1
<1>. HIDE DEF Advance
<1>. QED BY <1>1, <1>2 DEF Origin, RuleOf, Vanished, Facing

(* The empty span of an arm is a fact that is accounted for.               *)
LEMMA SeedsAccounted ==
    ASSUME Done, NEW a \in DOMAIN tables.arms, NEW i \in Points
    PROVE  <<<<a, 0, i>>, i>> \in Accounted
<1>1. Given
    BY DEF Done, Shape
<1>2. PICK it : it = <<a, 0, i>>
    OBVIOUS
<1>3. it[1] = a /\ it[2] = 0 /\ Origin(it) = i /\ RuleOf(it) = tables.arms[a].rule
    BY <1>2 DEF Origin, RuleOf
<1>4. FitsSpan(it, i)
    BY <1>3 DEF FitsSpan, Vanished
<1>5. ASSUME RuleOf(it) \in predicted[i] PROVE InChart(it, i)
    <2>1. a \in ArmsOf(RuleOf(it)) /\ i \in 0..TextEnd
        BY <1>3 DEF ArmsOf, Points, TextEnd
    <2>2. it \in ToSet(cols[i]) \/ ~Passes(a, text, i)
        BY <1>2, <1>5, <2>1 DEF Done, Sown
    <2>. QED BY <1>3, <2>2 DEF InChart, Muted
<1>6. Account(it, i)
    BY <1>3, <1>4, <1>5 DEF Account
<1>. QED BY <1>1, <1>2, <1>6, AccountedIs, SeedFacts

(* So is what a terminal spans after a fact that is.                       *)
LEMMA TermsAccounted ==
    ASSUME Done, NEW it, NEW i, NEW j, <<it, i>> \in Accounted, FacesTerm(it), j \in TermEnds(Facing(it), Input, i)
    PROVE  <<Advance(it), j>> \in Accounted
<1>1. Given /\ <<it, i>> \in Facts /\ Account(it, i)
    BY AccountedIs DEF Done, Shape
<1>2. /\ it \in Items(i) /\ i \in 0..TextEnd /\ TextEnd \in Nat /\ Origin(it) \in 0..i /\ Origin(it) \in 0..TextEnd
      /\ it[1] \in DOMAIN tables.arms /\ ~Complete(it) /\ ~IsRule(Facing(it))
    BY <1>1, FactParts DEF FacesTerm
<1>3. j \in (i + 1)..TextEnd
    BY DEF TermEnds, Input, Size, TextEnd
<1>3a. j \in Points /\ i <= j /\ Origin(it) # j /\ i < TextEnd /\ Origin(it) < TextEnd /\ i \in Int
    BY <1>2, <1>3 DEF Points, TextEnd
<1>4. <<Advance(it), j>> \in Facts
    BY <1>1, <1>2, <1>3a, FactsMove
<1>5. Facing(it) \in ToSet(Body(it[1])) /\ IsSymbol(Facing(it))
    <2>1. Facing(it) \in ToSet(Body(it[1]))
        BY <1>1, <1>2, FacingIs
    <2>. QED BY <1>1, <1>2, <2>1, KernelAssumption DEF Given, IsTables, Body
<1>6. Opens(it[1], Origin(it))
    <2>1. CASE i = Origin(it)
        <3>1. Vanished(it)
            BY <1>1, <2>1 DEF Account, FitsSpan
        <3>2. AnyChar \in TermFirst(Facing(it)) \/ text[i + 1] \in TermFirst(Facing(it))
            BY <1>1, <1>2, <1>5, TermOpens
        <3>3. TermFirst(Facing(it)) \subseteq FirstOfArm(it[1])
            BY <1>1, <1>2, <3>1, FirstRead
        <3>. QED BY <2>1, <3>2, <3>3 DEF Opens
    <2>2. CASE i # Origin(it)
        BY <1>1, <2>2 DEF Account, FitsSpan
    <2>. QED BY <2>1, <2>2
<1>7. Passes(it[1], text, Origin(it))
    BY <1>1, <1>2, <1>3a, <1>6, GatesLet
<1>8. ASSUME RuleOf(it) \in predicted[Origin(it)] PROVE Advance(it) \in ToSet(cols[j])
    <2>1. InChart(it, i) /\ ~Hidden(it, i) /\ ~Muted(it, i)
        BY <1>1, <1>2, <1>7, <1>8 DEF Account, Hidden, Muted
    <2>2. it \in ToSet(cols[i])
        BY <2>1 DEF InChart
    <2>. QED BY <1>2, <1>3a, <2>2 DEF Done, Scanned
<1>9. Account(Advance(it), j)
    BY <1>2, <1>3a, <1>6, <1>8, Moved DEF Account, FitsSpan, InChart
<1>. QED BY <1>1, <1>4, <1>9, AccountedIs

(* What a completed rule lets an item span is accounted for in the chart.  *)
LEMMA Completes ==
    ASSUME Done, NEW it, NEW h, NEW j, <<it, Origin(h)>> \in Facts, <<h, j>> \in Facts,
           Complete(h), FacesRule(it, RuleOf(h)), Origin(h) < j,
           it \in ToSet(cols[Origin(h)]), h \in ToSet(cols[j]) \/ Hidden(h, j)
    PROVE  Advance(it) \in ToSet(cols[j]) \/ Hidden(Advance(it), j)
<1>1. PICK x : x = <<Origin(h), RuleOf(h)>>
    OBVIOUS
<1>2. Given /\ Shape
    BY DEF Done, Shape
<1>3. /\ h \in Items(j) /\ j \in 0..TextEnd /\ TextEnd \in Nat /\ h[1] \in DOMAIN tables.arms
      /\ it \in Items(Origin(h)) /\ Origin(it) \in 0..Origin(h) /\ Origin(h) \in 0..j
    BY <1>2, FactParts
<1>4. x \in Columns /\ x[1] = Origin(h) /\ x[2] = RuleOf(h)
    BY <1>1, <1>3 DEF Columns, RuleOf, Rules
<1>5. CASE \A w \in ToSet(cols[x[1]]) : FacesRule(w, x[2]) => Advance(w) \in ToSet(cols[j])
    BY <1>4, <1>5
<1>6. CASE TopOf[x] # NoItem /\ TopOf[x] \in ToSet(cols[j])
    <2>1. TopsRight
        BY <1>2, Tops
    <2>2. x \notin Halts /\ TopOf[x] = IF TopOf[Above(x)] = NoItem THEN Advance(SoleAt(x)) ELSE TopOf[Above(x)]
        BY <1>4, <1>6, <2>1 DEF TopsRight, TopFrom
    <2>3. SoleAt(x) # NoItem
        BY <1>4, <2>2 DEF Halts
    <2>4. SoleRight(x)
        BY <1>2, <1>4, <2>3, SoleIs
    <2>5. SoleAt(x) = it /\ Complete(Advance(it))
        BY <1>4, <2>4 DEF SoleRight
    <2>6. Above(x) = <<Origin(it), RuleOf(it)>>
        BY <2>5 DEF Above
    <2>7. Origin(Advance(it)) = Origin(it) /\ RuleOf(Advance(it)) = RuleOf(it)
        BY <1>3, Moved
    <2>8. Origin(it) < j
        BY <1>3
    <2>9. CASE TopOf[Above(x)] = NoItem
        BY <1>6, <2>2, <2>5, <2>9
    <2>10. CASE TopOf[Above(x)] # NoItem
        BY <1>6, <2>2, <2>5, <2>6, <2>7, <2>8, <2>10 DEF Hidden
    <2>. QED BY <2>9, <2>10
<1>7. CASE h \in ToSet(cols[j])
    <2>1. Passed(x, j)
        BY <1>1, <1>3, <1>7 DEF Done, Handled
    <2>. QED BY <1>5, <1>6, <2>1 DEF Passed
<1>8. CASE Hidden(h, j)
    BY <1>1, <1>6, <1>8 DEF Hidden
<1>. QED BY <1>7, <1>8

LEMMA RulesAccounted ==
    ASSUME Done, NEW it, NEW h, NEW j, <<it, Origin(h)>> \in Accounted, <<h, j>> \in Accounted,
           Complete(h), FacesRule(it, RuleOf(h))
    PROVE  <<Advance(it), j>> \in Accounted
<1>1. PICK k : k = Origin(h)
    OBVIOUS
<1>2. /\ Given /\ <<it, k>> \in Facts /\ <<h, j>> \in Facts /\ Account(it, k) /\ Account(h, j)
    BY <1>1, AccountedIs DEF Done, Shape
<1>3. /\ it \in Items(k) /\ k \in 0..TextEnd /\ TextEnd \in Nat /\ Origin(it) \in 0..k /\ it[1] \in DOMAIN tables.arms
      /\ h \in Items(j) /\ j \in 0..TextEnd /\ j \in Points /\ Origin(h) \in 0..j /\ h[1] \in DOMAIN tables.arms
    BY <1>2, FactParts
<1>4. k <= j /\ k \in Int /\ j \in Int /\ Origin(it) <= k /\ Origin(it) \in Int
    BY <1>1, <1>3
<1>5. ~Complete(it) /\ IsRule(Facing(it)) /\ Facing(it).name = RuleOf(h)
    BY DEF FacesRule
<1>6. <<Advance(it), j>> \in Facts
    BY <1>2, <1>3, <1>4, <1>5, FactsMove
<1>7. ASSUME j = k PROVE RuleOf(h) \in Nulls
    <2>1. Vanished(h)
        BY <1>1, <1>2, <1>7 DEF Account, FitsSpan
    <2>. QED BY <1>2, <1>3, <2>1, VanishedWhole
<1>8. FitsSpan(Advance(it), j)
    <2>1. CASE j = Origin(it)
        <3>1. k = j /\ Vanished(it)
            <4>1. k = j
                BY <1>4, <2>1
            <4>. QED BY <1>2, <2>1, <4>1 DEF Account, FitsSpan
        <3>. QED BY <1>3, <1>5, <1>7, <2>1, <3>1, Moved DEF FitsSpan
    <2>2. CASE j # Origin(it) /\ k # Origin(it)
        BY <1>2, <1>3, <2>2, Moved DEF Account, FitsSpan
    <2>3. CASE j # Origin(it) /\ k = Origin(it)
        <3>1. Vanished(it) /\ Opens(h[1], k)
            BY <1>1, <1>2, <2>3 DEF Account, FitsSpan
        <3>2. \A c : c \in FirstOfArm(h[1]) => <<RuleOf(h), c>> \in Firsts
            BY <1>2, <1>3, SolvedIs DEF FirstOfArm, RuleOf
        <3>3. \A c : c \in FirstOfArm(h[1]) => c \in FirstOfArm(it[1])
            BY <1>2, <1>3, <1>5, <3>1, <3>2, FirstRead
        <3>4. Opens(it[1], k)
            BY <3>1, <3>3 DEF Opens
        <3>. QED BY <1>3, <2>3, <3>4, Moved DEF FitsSpan
    <2>. QED BY <2>1, <2>2, <2>3
<1>9. ASSUME RuleOf(it) \in predicted[Origin(it)] PROVE InChart(Advance(it), j)
    <2>1. InChart(it, k) /\ ~Hidden(it, k)
        BY <1>2, <1>5, <1>9 DEF Account, Hidden
    <2>2. CASE Muted(it, k)
        <3>1. k = Origin(it) /\ ~Passes(it[1], text, k)
            BY <2>2 DEF Muted
        <3>2. CASE j = k
            BY <1>3, <3>1, <3>2, Moved DEF InChart, Muted
        <3>3. CASE j # k
            <4>1. Opens(it[1], k) /\ k < TextEnd
                <5>1. k < TextEnd
                    BY <1>3, <1>4, <3>3
                <5>. QED BY <1>3, <1>8, <3>1, <3>3, <5>1, Moved DEF FitsSpan
            <4>. QED BY <1>2, <1>3, <3>1, <4>1, GatesLet
        <3>. QED BY <3>2, <3>3
    <2>3. CASE it \in ToSet(cols[k])
        <3>1. RuleOf(h) \in predicted[k] /\ (RuleOf(h) \in Nulls => Advance(it) \in ToSet(cols[k]))
            BY <1>3, <2>3 DEF Done, Handled, HandledAhead
        <3>2. CASE j = k
            BY <1>7, <3>1, <3>2 DEF InChart
        <3>3. CASE j # k
            <4>1. InChart(h, j) /\ ~Muted(h, j) /\ k < j
                BY <1>1, <1>2, <1>4, <3>1, <3>3 DEF Account, Muted
            <4>2. h \in ToSet(cols[j]) \/ Hidden(h, j)
                BY <4>1 DEF InChart
            <4>. QED BY <1>1, <1>2, <2>3, <4>1, <4>2, Completes DEF InChart
        <3>. QED BY <3>2, <3>3
    <2>. QED BY <2>1, <2>2, <2>3 DEF InChart
<1>10. Account(Advance(it), j)
    BY <1>3, <1>8, <1>9, Moved DEF Account
<1>. QED BY <1>2, <1>6, <1>10, AccountedIs

(* So every derivable fact of a predicted rule is accounted for, and a     *)
(* derived text is accepted.                                               *)
LEMMA DerivesAccepts == ASSUME Done, Derives(Input) PROVE AcceptItems # {}
<1>1. Given /\ Shape
    BY DEF Done, Shape
<1>2. Accounted \in SUBSET Facts
    BY DEF Accounted
<1>3. Deduced(Input, Accounted)
    <2>1. \A a \in DOMAIN tables.arms, i \in Points : <<<<a, 0, i>>, i>> \in Accounted
        BY SeedsAccounted
    <2>2. \A it, i, j : <<it, i>> \in Accounted /\ FacesTerm(it) /\ j \in TermEnds(Facing(it), Input, i)
                => <<Advance(it), j>> \in Accounted
        BY TermsAccounted
    <2>3. \A it, g, j : <<it, Origin(g)>> \in Accounted /\ <<g, j>> \in Accounted /\ Complete(g) /\ FacesRule(it, RuleOf(g))
                => <<Advance(it), j>> \in Accounted
        BY RulesAccounted
    <2>. QED BY <1>1, <1>2, <2>1, <2>2, <2>3, FactsOf
<1>4. PICK a \in ArmsOf(tables.start) : Derivable(Input, <<<<a, Len(Body(a)), 0>>, Len(text)>>)
    BY DEF Derives
<1>5. PICK it : it = <<a, Len(Body(a)), 0>>
    OBVIOUS
<1>6. PICK n : n = TextEnd
    OBVIOUS
<1>7. <<it, n>> \in Accounted
    BY <1>2, <1>3, <1>4, <1>5, <1>6 DEF Derivable, TextEnd
<1>8. /\ it[1] = a /\ it[2] = Len(Body(a)) /\ Origin(it) = 0 /\ RuleOf(it) = tables.start /\ Complete(it)
    BY <1>5 DEF Origin, RuleOf, ArmsOf, Complete
<1>9. <<it, n>> \in Facts /\ Account(it, n)
    BY <1>1, <1>7, AccountedIs
<1>10. InChart(it, n)
    BY <1>8, <1>9 DEF Account, Done, StartPredicted
<1>11. ~Muted(it, n)
    <2>. SUFFICES ASSUME n = 0 PROVE Passes(a, text, n)
        BY <1>8 DEF Muted
    <2>1. Vanished(it)
        BY <1>8, <1>9 DEF Account, FitsSpan
    <2>2. it \in Items(n)
        BY <1>1, <1>9, FactParts
    <2>. QED BY <1>1, <1>8, <2>1, <2>2, VanishedWhole DEF Passes
<1>12. ~Hidden(it, n)
    <2>. SUFFICES ASSUME TopOf[<<0, tables.start>>] # NoItem PROVE FALSE
        BY <1>8 DEF Hidden
    <2>1. PICK x : x = <<0, tables.start>>
        OBVIOUS
    <2>2. x \in Columns /\ x[1] = 0
        BY <1>1, <2>1, SolvedIs, Compiles DEF Columns
    <2>3. TopsRight
        BY <1>1, Tops
    <2>4. Above(x) \in Columns /\ Above(x)[1] < 0
        BY <2>1, <2>2, <2>3 DEF TopsRight, TopFrom
    <2>. QED BY <1>1, <2>4, Compiles DEF Columns
<1>13. it \in ToSet(cols[n])
    BY <1>10, <1>11, <1>12 DEF InChart
<1>. QED BY <1>6, <1>8, <1>13 DEF AcceptItems, TextEnd

-----------------------------------------------------------------------------
(* What is handled stays handled, while the columns before it stay and its *)
(* own only grows.                                                         *)
LEMMA HandledStays ==
    ASSUME Shape, Shape', tables' = tables, NEW i \in 0..TextEnd, i \in 0..TextEnd',
           \A o \in 0..TextEnd : o < i => o \in 0..TextEnd' /\ cols'[o] = cols[o],
           ToSet(cols[i]) \subseteq ToSet(cols'[i]), predicted[i] \subseteq predicted'[i],
           NEW it \in Items(i), Handled(it, i)
    PROVE  Handled(it, i)'
<1>1. TextEnd \in Nat /\ i \in Int
    BY Tabled
<1>2. /\ Complete(it)' = Complete(it) /\ Facing(it)' = Facing(it) /\ RuleOf(it)' = RuleOf(it)
      /\ Nulls' = Nulls /\ \A w, r : FacesRule(w, r)' = FacesRule(w, r)
    BY TablesStay
<1>3. HandledAhead(it, i)'
    BY <1>2 DEF Handled, HandledAhead
<1>4. ASSUME Complete(it), Origin(it) < i PROVE Passed(<<Origin(it), RuleOf(it)>>, i)'
    <2>1. PICK x : x = <<Origin(it), RuleOf(it)>>
        OBVIOUS
    <2>2. it[1] \in DOMAIN tables.arms /\ Origin(it) \in 0..i
        BY DEF Items, Origin
    <2>3. x \in Columns /\ x[1] = Origin(it)
        BY <1>1, <2>1, <2>2 DEF Columns, RuleOf, Rules
    <2>4. PICK c \in Int : c = i - 1
        BY <1>1
    <2>5. \A o \in 0..TextEnd : o <= c => o \in 0..TextEnd' /\ cols'[o] = cols[o]
        BY <1>1, <2>4
    <2>6. x[1] <= c /\ x[1] \in 0..TextEnd
        BY <1>1, <1>4, <2>2, <2>3, <2>4
    <2>7. cols'[x[1]] = cols[x[1]] /\ TopOf'[x] = TopOf[x]
        BY <2>3, <2>5, <2>6, TopsStay
    <2>8. Passed(x, i)
        BY <1>4, <2>1 DEF Handled
    <2>9. Passed(x, i)'
        BY <1>2, <2>7, <2>8 DEF Passed
    <2>10. x = <<Origin(it), RuleOf(it)'>>
        BY <1>2, <2>1
    <2>. QED BY <2>9, <2>10
<1>. QED BY <1>2, <1>3, <1>4 DEF Handled

LEMMA NextHandled ==
    ASSUME \A i \in 0..TextEnd' : \A k \in DOMAIN cols'[i] : Behind(i, k)' => \A it : it = cols'[i][k] => Handled(it, i)'
    PROVE  AllHandled'
<1>. SUFFICES ASSUME NEW i \in 0..TextEnd', NEW k \in DOMAIN cols'[i], Behind(i, k)' PROVE Handled(cols[i][k], i)'
    BY DEF AllHandled
<1>1. PICK it : it = cols'[i][k]
    OBVIOUS
<1>2. Handled(it, i)'
    BY <1>1
<1>. QED BY <1>1, <1>2 DEF Handled, HandledAhead, Passed

(* A visit handles its item, and disturbs nothing that was done.           *)
LEMMA VisitWorks ==
    ASSUME Inv, Inv', Worked, Visiting, at' = at + 1, UNCHANGED <<given, pos, marks>>, NEW new, Adds(new),
           \A i \in 0..TextEnd : predicted[i] \subseteq predicted'[i],
           NEW visited, visited = Item, NEW p, p = pos, Handled(visited, p)', Sown', SownWhole'
    PROVE  Worked'
<1>1. /\ Shape /\ Shape' /\ tables' = tables /\ text' = text /\ bounds' = bounds /\ TextEnd' = TextEnd /\ pos' = pos
      /\ TextEnd \in Nat /\ pos \in 0..TextEnd /\ marks' = marks /\ recordLinks' = recordLinks
    BY Tabled DEF Inv, Settled, given, TextEnd, Shape
<1>2. at \in 1..Len(cols[pos]) /\ Len(cols[pos]) \in Nat
    BY <1>1, LenProperties DEF Visiting, Shape
<1>3. \A i \in 0..TextEnd : i # pos => cols'[i] = cols[i]
    BY DEF Adds
<1>4. \A i \in 0..TextEnd : ToSet(cols[i]) \subseteq ToSet(cols'[i])
    BY <1>3 DEF Adds
<1>5. ASSUME NEW i \in 0..TextEnd, i <= pos, NEW k \in DOMAIN cols[i], Behind(i, k), NEW it, it = cols[i][k]
      PROVE  Handled(it, i)'
    <2>1. Handled(it, i)
        BY <1>5 DEF Worked, AllHandled
    <2>2. \A o \in 0..TextEnd : o < i => o \in 0..TextEnd' /\ cols'[o] = cols[o]
        BY <1>1, <1>3, <1>5
    <2>3. it \in Items(i)
        <3>1. it \in ToSet(cols[i])
            BY <1>5 DEF ToSet
        <3>. QED BY <1>1, <3>1, Queued DEF Shape
    <2>. QED BY <1>1, <1>4, <2>1, <2>2, <2>3, HandledStays
<1>6. AllHandled'
    <2>. SUFFICES ASSUME NEW i \in 0..TextEnd, NEW k \in DOMAIN cols'[i], Behind(i, k)', NEW it, it = cols'[i][k]
                  PROVE  Handled(it, i)'
        BY <1>1, NextHandled
    <2>1. CASE i < pos
        <3>1. cols'[i] = cols[i] /\ Behind(i, k) /\ i <= pos
            BY <1>1, <1>3, <2>1 DEF Behind
        <3>. QED BY <1>5, <3>1
    <2>2. CASE i = pos /\ k = at
        BY <1>2, <2>2 DEF Adds, Item
    <2>3. CASE i = pos /\ k # at
        <3>1. k < at + 1 /\ k \in 1..Len(cols'[pos])
            <4>1. cols'[pos] \in Seq(Items(pos)')
                BY <1>1 DEF Shape
            <4>. QED BY <1>1, <2>3, <4>1, LenProperties DEF Behind
        <3>2. k < at /\ k \in 1..Len(cols[pos])
            BY <1>2, <2>3, <3>1
        <3>3. k \in DOMAIN cols[pos] /\ Behind(pos, k) /\ cols'[pos][k] = cols[pos][k] /\ pos <= pos
            <4>1. cols[pos] \in Seq(Items(pos))
                BY <1>1 DEF Shape
            <4>. QED BY <1>1, <3>2, <4>1, LenProperties DEF Behind, Adds
        <3>. QED BY <1>1, <1>5, <2>3, <3>3
    <2>4. i < pos \/ i = pos
        BY <1>1 DEF Behind
    <2>. QED BY <2>1, <2>2, <2>3, <2>4
<1>7. Scanned'
    <2>. SUFFICES ASSUME NEW i \in 0..TextEnd, i < pos, NEW it \in ToSet(cols'[i]), FacesTerm(it)',
                         NEW j \in TermEnds(Facing(it), Input, i)'
                  PROVE  Advance(it) \in ToSet(cols'[j])
        BY <1>1 DEF Scanned, Advance
    <2>1. it \in ToSet(cols[i]) /\ FacesTerm(it) /\ j \in TermEnds(Facing(it), Input, i)
        <3>1. cols'[i] = cols[i]
            BY <1>1, <1>3
        <3>2. Facing(it)' = Facing(it) /\ Input' = Input /\ FacesTerm(it)' = FacesTerm(it)
            BY <1>1, TablesStay DEF Input
        <3>. QED BY <3>1, <3>2 DEF TermEnds, Size, Unbroken
    <2>2. Advance(it) \in ToSet(cols[j])
        BY <2>1 DEF Worked, Scanned
    <2>3. j \in 0..TextEnd
        BY <1>1, <2>1 DEF TermEnds, Input, Size, TextEnd
    <2>. QED BY <1>4, <2>2, <2>3
<1>8. StartPredicted' /\ TokensWhole' /\ Ungrown'
    <2>1. 0 \in 0..TextEnd
        BY <1>1
    <2>. QED BY <1>1, <2>1 DEF Worked, StartPredicted, TokensWhole, Ungrown, HasRuns, Body
<1>. QED BY <1>6, <1>7, <1>8 DEF Worked

LEMMA SownStays ==
    ASSUME Sown, SownWhole, UNCHANGED <<tables, text, predicted, topped>>, \A i \in DOMAIN topped : i \in 0..TextEnd,
           \A i \in 0..TextEnd : ToSet(cols[i]) \subseteq ToSet(cols'[i])
    PROVE  Sown' /\ SownWhole'
<1>1. TextEnd' = TextEnd /\ \A r : ArmsOf(r)' = ArmsOf(r)
    BY DEF TextEnd, ArmsOf
<1>. QED BY <1>1 DEF Sown, SownWhole, Passes

(* A visit that predicts nothing.                                          *)
LEMMA QuietWorks ==
    ASSUME Inv, Inv', Worked, Visiting, at' = at + 1, UNCHANGED <<client, predicted>>, NEW new, Adds(new),
           NEW visited, visited = Item, NEW p, p = pos, Handled(visited, p)'
    PROVE  Worked'
<1>1. UNCHANGED <<given, pos, marks>> /\ topped' = topped /\ tables' = tables /\ text' = text
    BY DEF client, given
<1>2. \A i \in 0..TextEnd : ToSet(cols[i]) \subseteq ToSet(cols'[i])
    BY DEF Adds
<1>3. \A i \in DOMAIN topped : i \in 0..TextEnd
    BY DEF Inv, Settled, Topped
<1>4. Sown' /\ SownWhole'
    BY <1>1, <1>2, <1>3, SownStays DEF Worked
<1>. QED BY <1>1, <1>4, VisitWorks

LEMMA PassWorks ==
    ASSUME Inv, Inv', Worked, Visiting, at' = at + 1, UNCHANGED <<client, cols, predicted>>,
           FacesTerm(Item) \/ (Complete(Item) /\ Origin(Item) = pos)
    PROVE  Worked'
<1>1. Shape /\ tables' = tables /\ pos \in Int
    BY Tabled DEF Inv, Settled, client, given, Shape
<1>2. Adds({})
    BY <1>1, LenProperties DEF Adds, Shape
<1>3. PICK it, i : it = Item /\ i = pos
    OBVIOUS
<1>4. Handled(it, i)'
    <2>1. \A r : ~FacesRule(it, r)
        BY <1>3 DEF FacesTerm, FacesRule
    <2>2. ~(Complete(it) /\ Origin(it) < i)
        BY <1>1, <1>3 DEF FacesTerm
    <2>3. Complete(it)' = Complete(it) /\ \A r : FacesRule(it, r)' = FacesRule(it, r)
        BY <1>1, TablesStay
    <2>. QED BY <2>1, <2>2, <2>3 DEF Handled, HandledAhead
<1>. QED BY <1>2, <1>3, <1>4, QuietWorks

LEMMA PredictWorks == ASSUME Inv, Worked, Predict PROVE Worked'
<1>1. PICK r : r = Facing(Item).name
    OBVIOUS
<1>2. PICK it, p : it = Item /\ p = pos
    OBVIOUS
<1>3. /\ Visiting /\ at' = at + 1 /\ UNCHANGED <<given, pos, marks>> /\ ~Complete(it) /\ IsRule(Facing(it)) /\ Facing(it).name = r
      /\ topped' = IF pos = junction /\ r \notin predicted[pos] THEN Put(topped, pos, topped[pos] \cup {r}) ELSE topped
    BY <1>1, <1>2 DEF Predict
<1>4. Inv' /\ Shape /\ tables' = tables /\ text' = text /\ TextEnd' = TextEnd
    BY PredictKeeps, <1>3 DEF Inv, Settled, given, TextEnd
<1>5. /\ pos \in 0..TextEnd /\ DOMAIN predicted = 0..TextEnd /\ p \in 0..TextEnd
      /\ \A i \in DOMAIN topped : i \in 0..TextEnd /\ topped[i] \subseteq predicted[i]
      /\ pos = junction => pos \in DOMAIN topped /\ topped[pos] = predicted[pos]
    BY <1>2, <1>4 DEF Shape, Inv, Settled, Topped
<1>6. PICK new : new = SeedSet(r) \cup PastSet(r)
    OBVIOUS
<1>7. Adds(new) /\ predicted' = [predicted EXCEPT ![pos] = @ \cup {r}]
    BY <1>1, <1>6, PredictAdds
<1>8. /\ \A i \in 0..TextEnd : predicted'[i] = IF i = pos THEN predicted[i] \cup {r} ELSE predicted[i]
      /\ \A i \in 0..TextEnd : ToSet(cols[i]) \subseteq ToSet(cols'[i])
    BY <1>5, <1>7 DEF Adds
<1>9. Handled(it, p)'
    <2>1. /\ Complete(it)' = Complete(it) /\ Nulls' = Nulls /\ \A s : FacesRule(it, s)' = FacesRule(it, s)
        BY <1>4, TablesStay
    <2>2. r \in predicted'[p] /\ (r \in Nulls => Advance(it) \in ToSet(cols'[p]))
        BY <1>2, <1>5, <1>6, <1>7, <1>8 DEF Adds, PastSet
    <2>3. \A s : FacesRule(it, s) => s = r
        BY <1>3 DEF FacesRule
    <2>4. Advance(it)' = Advance(it)
        BY DEF Advance
    <2>. QED BY <1>3, <2>1, <2>2, <2>3, <2>4 DEF Handled, HandledAhead
<1>10. ASSUME r \notin predicted[pos], NEW a \in ArmsOf(r)
       PROVE  /\ <<a, 0, pos>> \in ToSet(cols'[pos]) \/ ~Passes(a, text, pos)
              /\ pos = junction => <<a, 0, pos>> \in ToSet(cols'[pos])
    <2>1. a \in Sowing(r) => <<a, 0, pos>> \in ToSet(cols'[pos])
        BY <1>6, <1>7, <1>10 DEF Adds, SeedSet
    <2>. QED BY <2>1 DEF Sowing
<1>11. Sown'
    <2>. SUFFICES ASSUME NEW i \in 0..TextEnd, NEW s \in predicted'[i], NEW a \in ArmsOf(s)
                  PROVE  <<a, 0, i>> \in ToSet(cols'[i]) \/ ~Passes(a, text, i)
        BY <1>4 DEF Sown, ArmsOf, Passes
    <2>1. CASE s \in predicted[i]
        BY <1>8, <2>1 DEF Worked, Sown
    <2>2. CASE s \notin predicted[i]
        BY <1>8, <1>10, <2>2
    <2>. QED BY <2>1, <2>2
<1>12. SownWhole'
    <2>. SUFFICES ASSUME NEW i \in DOMAIN topped', NEW s \in topped'[i], NEW a \in ArmsOf(s)
                  PROVE  <<a, 0, i>> \in ToSet(cols'[i])
        BY <1>4 DEF SownWhole, ArmsOf
    <2>1. CASE i \in DOMAIN topped /\ s \in topped[i]
        BY <1>5, <1>8, <2>1 DEF Worked, SownWhole
    <2>2. CASE ~(i \in DOMAIN topped /\ s \in topped[i])
        <3>1. pos = junction /\ r \notin predicted[pos] /\ topped' = Put(topped, pos, topped[pos] \cup {r})
            BY <1>3, <2>2
        <3>2. DOMAIN topped' = DOMAIN topped \cup {pos} /\ \A j \in DOMAIN topped' : topped'[j] = IF j = pos THEN topped[pos] \cup {r} ELSE topped[j]
            BY <3>1 DEF Put
        <3>3. i = pos /\ s = r
            BY <1>5, <2>2, <3>1, <3>2
        <3>. QED BY <1>10, <3>1, <3>3
    <2>. QED BY <2>1, <2>2
<1>. QED BY <1>2, <1>3, <1>4, <1>7, <1>8, <1>9, <1>11, <1>12, VisitWorks

(* A completion hands on to those that waited, or to the top of its chain. *)
LEMMA HandedOn ==
    ASSUME Inv, Inv', Worked, Completing, at' = at + 1, UNCHANGED <<client, predicted>>,
           NEW x, x = <<Origin(Item), RuleOf(Item)>>, x \in Columns, x[1] < pos, NEW new, Adds(new),
           \/ TopOf[x] # NoItem /\ TopOf[x] \in new
           \/ \A w \in WaitingSet(x[1], x[2]) : Advance(w) \in new
    PROVE  Worked'
<1>1. PICK it, p : it = Item /\ p = pos
    OBVIOUS
<1>2. /\ Shape /\ Shape' /\ tables' = tables /\ TextEnd' = TextEnd /\ pos \in 0..TextEnd /\ TextEnd \in Nat
      /\ Visiting /\ Complete(it) /\ x[1] \in 0..TextEnd
    BY <1>1, Tabled DEF Inv, Settled, client, given, TextEnd, Completing, Shape, Columns
<1>3. /\ Complete(it)' = Complete(it) /\ RuleOf(it)' = RuleOf(it) /\ \A w, r : FacesRule(w, r)' = FacesRule(w, r)
    BY <1>2, TablesStay
<1>4. TopOf'[x] = TopOf[x]
    <2>1. PICK c \in Int : c = x[1]
        BY <1>2
    <2>2. \A o \in 0..TextEnd : o <= c => o \in 0..TextEnd' /\ cols'[o] = cols[o]
        BY <1>2, <2>1 DEF Adds
    <2>3. x[1] <= c
        BY <2>1
    <2>. QED BY <1>2, <2>2, <2>3, TopsStay
<1>5. ToSet(cols'[p]) = ToSet(cols[p]) \cup new /\ cols'[x[1]] = cols[x[1]]
    BY <1>1, <1>2 DEF Adds
<1>6. Passed(x, p)'
    <2>1. CASE TopOf[x] # NoItem /\ TopOf[x] \in new
        BY <1>4, <1>5, <2>1 DEF Passed
    <2>2. CASE \A w \in WaitingSet(x[1], x[2]) : Advance(w) \in new
        <3>1. \A w \in ToSet(cols'[x[1]]) : FacesRule(w, x[2])' => Advance(w) \in ToSet(cols'[p])
            BY <1>3, <1>5, <2>2 DEF WaitingSet
        <3>. QED BY <3>1 DEF Passed, Advance
    <2>. QED BY <2>1, <2>2
<1>7. Handled(it, p)'
    <2>1. \A r : ~FacesRule(it, r)'
        BY <1>2, <1>3 DEF FacesRule
    <2>2. x = <<Origin(it), RuleOf(it)'>>
        BY <1>1, <1>3
    <2>. QED BY <1>6, <2>1, <2>2 DEF Handled, HandledAhead
<1>. QED BY <1>1, <1>2, <1>7, QuietWorks

LEMMA JumpWorks == ASSUME Inv, Worked, Jump PROVE Worked'
<1>1. PICK x : x = <<Origin(Item), RuleOf(Item)>>
    OBVIOUS
<1>2. PICK new : new = {TopOf[x]}
    OBVIOUS
<1>3. x \in Columns /\ x[1] < pos /\ TopOf[x] # NoItem /\ Adds(new)
    BY <1>1, <1>2, JumpAdds
<1>4. Inv' /\ Completing /\ at' = at + 1 /\ UNCHANGED <<client, predicted>>
    BY JumpKeeps DEF Jump
<1>. QED BY <1>1, <1>2, <1>3, <1>4, HandedOn

LEMMA CompleteWorks == ASSUME Inv, Worked, CompleteAll PROVE Worked'
<1>1. PICK x : x = <<Origin(Item), RuleOf(Item)>>
    OBVIOUS
<1>2. PICK new : new = {Advance(w) : w \in WaitingSet(x[1], x[2])}
    OBVIOUS
<1>3. x \in Columns /\ x[1] < pos /\ Adds(new)
    BY <1>1, <1>2, CompleteAdds
<1>4. Inv' /\ Completing /\ at' = at + 1 /\ UNCHANGED <<client, predicted>>
    BY CompleteAllKeeps DEF CompleteAll
<1>. QED BY <1>1, <1>2, <1>3, <1>4, HandedOn

(* The scan goes on from a column that is done.                            *)
LEMMA ScanWorks == ASSUME Inv, Worked, Scan PROVE Worked'
<1>1. /\ at > Len(cols[pos]) /\ pos < TextEnd /\ pos' = pos + 1 /\ at' = 1
      /\ tables' = tables /\ text' = text /\ bounds' = bounds /\ TextEnd' = TextEnd
      /\ predicted' = predicted /\ topped' = topped /\ marks' = marks /\ recordLinks' = recordLinks
    BY DEF Scan, given, TextEnd
<1>2. Inv' /\ Shape /\ Shape' /\ pos \in 0..TextEnd /\ TextEnd \in Nat /\ \A i \in DOMAIN topped : i \in 0..TextEnd
    BY ScanKeeps, Tabled DEF Inv, Settled, Shape, Topped
<1>3. /\ \A j \in 0..TextEnd : j <= pos => cols'[j] = cols[j]
      /\ \A j \in 0..TextEnd : j > pos => ToSet(cols'[j]) = ToSet(cols[j]) \cup {Advance(it) : it \in Landed(pos, j)}
    BY ScanAdds
<1>4. \A j \in 0..TextEnd : ToSet(cols[j]) \subseteq ToSet(cols'[j])
    <2>1. \A j \in 0..TextEnd : j <= pos \/ j > pos
        BY <1>2
    <2>. QED BY <1>3, <2>1
<1>5. AllHandled'
    <2>. SUFFICES ASSUME NEW i \in 0..TextEnd, NEW k \in DOMAIN cols'[i], Behind(i, k)', NEW it, it = cols'[i][k]
                  PROVE  Handled(it, i)'
        BY <1>1, NextHandled
    <2>1. i < pos \/ i = pos
        <3>1. cols'[i] \in Seq(Items(i)')
            BY <1>1, <1>2 DEF Shape
        <3>2. k \in Nat \ {0}
            BY <3>1, LenProperties
        <3>. QED BY <1>1, <1>2, <3>2 DEF Behind
    <2>2. cols'[i] = cols[i] /\ cols[i] \in Seq(Items(i)) /\ i <= pos
        BY <1>2, <1>3, <2>1 DEF Shape
    <2>3. Behind(i, k)
        <3>1. k \in 1..Len(cols[i]) /\ Len(cols[i]) \in Nat /\ at \in Int
            BY <1>2, <2>2, LenProperties DEF Shape
        <3>. QED BY <1>1, <2>1, <3>1 DEF Behind
    <2>4. Handled(it, i) /\ it \in Items(i)
        <3>1. it \in ToSet(cols[i])
            BY <2>2 DEF ToSet
        <3>. QED BY <2>2, <2>3, <3>1, Queued DEF Worked, AllHandled
    <2>5. \A o \in 0..TextEnd : o < i => o \in 0..TextEnd' /\ cols'[o] = cols[o]
        BY <1>1, <1>2, <1>3, <2>1
    <2>. QED BY <1>1, <1>2, <1>4, <2>4, <2>5, HandledStays
<1>6. Scanned'
    <2>. SUFFICES ASSUME NEW i \in 0..TextEnd, i < pos + 1, NEW it \in ToSet(cols'[i]), FacesTerm(it)',
                         NEW j \in TermEnds(Facing(it), Input, i)'
                  PROVE  Advance(it) \in ToSet(cols'[j])
        BY <1>1 DEF Scanned, Advance
    <2>1. i <= pos
        BY <1>2
    <2>2. it \in ToSet(cols[i]) /\ FacesTerm(it) /\ j \in TermEnds(Facing(it), Input, i)
        <3>1. cols'[i] = cols[i]
            BY <1>3, <2>1
        <3>2. Facing(it)' = Facing(it) /\ Input' = Input /\ FacesTerm(it)' = FacesTerm(it)
            BY <1>1, TablesStay DEF Input
        <3>. QED BY <3>1, <3>2 DEF TermEnds, Size, Unbroken
    <2>3. j \in (i + 1)..TextEnd /\ j \in 0..TextEnd
        BY <1>2, <2>2 DEF TermEnds, Input, Size, TextEnd
    <2>4. CASE i < pos
        <3>1. Advance(it) \in ToSet(cols[j])
            BY <2>2, <2>4 DEF Worked, Scanned
        <3>. QED BY <1>4, <2>3, <3>1
    <2>5. CASE i = pos
        <3>1. it \in Landed(pos, j) /\ j > pos
            BY <1>2, <2>2, <2>3, <2>5 DEF Landed
        <3>. QED BY <1>3, <2>3, <3>1
    <2>. QED BY <1>2, <2>1, <2>4, <2>5
<1>7. Sown' /\ SownWhole'
    BY <1>1, <1>2, <1>4, SownStays DEF Worked
<1>8. StartPredicted' /\ TokensWhole' /\ Ungrown'
    BY <1>1 DEF Worked, StartPredicted, TokensWhole, Ungrown, HasRuns, Body
<1>. QED BY <1>5, <1>6, <1>7, <1>8 DEF Worked

(* A return, and a step that leaves the chart alone.                       *)
LEMMA ReturnWorks ==
    ASSUME Inv, Inv', Worked, UNCHANGED <<given, cols, predicted, topped, pos, at, marks>>
    PROVE  Worked'
<1>1. /\ tables' = tables /\ text' = text /\ bounds' = bounds /\ TextEnd' = TextEnd /\ Shape /\ Shape'
      /\ UNCHANGED <<cols, predicted, topped, pos, at, marks, recordLinks>>
    BY DEF given, TextEnd, Inv, Settled
<1>2. AllHandled'
    <2>. SUFFICES ASSUME NEW i \in 0..TextEnd, NEW k \in DOMAIN cols[i], Behind(i, k), NEW it, it = cols[i][k]
                  PROVE  Handled(it, i)'
        BY <1>1, NextHandled DEF Behind
    <2>1. Handled(it, i)
        BY DEF Worked, AllHandled
    <2>2. it \in ToSet(cols[i]) /\ cols[i] \in Seq(Items(i))
        BY <1>1 DEF ToSet, Shape
    <2>3. it \in Items(i)
        BY <2>2, Queued
    <2>. QED BY <1>1, <2>1, <2>3, HandledStays
<1>3. Scanned'
    <2>. SUFFICES ASSUME NEW i \in 0..TextEnd, i < pos, NEW it \in ToSet(cols[i]), FacesTerm(it)',
                         NEW j \in TermEnds(Facing(it), Input, i)'
                  PROVE  Advance(it) \in ToSet(cols[j])
        BY <1>1 DEF Scanned, Advance
    <2>1. Facing(it)' = Facing(it) /\ Input' = Input /\ FacesTerm(it)' = FacesTerm(it)
        BY <1>1, TablesStay DEF Input
    <2>2. FacesTerm(it) /\ j \in TermEnds(Facing(it), Input, i)
        BY <2>1 DEF TermEnds, Size, Unbroken
    <2>. QED BY <2>2 DEF Worked, Scanned
<1>4. Sown' /\ SownWhole'
    BY <1>1, SownStays DEF Worked, Inv, Settled, Topped
<1>5. StartPredicted' /\ TokensWhole' /\ Ungrown'
    BY <1>1 DEF Worked, StartPredicted, TokensWhole, Ungrown, HasRuns, Body
<1>. QED BY <1>2, <1>3, <1>4, <1>5 DEF Worked

-----------------------------------------------------------------------------
(* What extend leaves of the chart, and what it adds to its last column.   *)
LateArms(n) ==
    {a \in DOMAIN tables.arms : /\ tables.arms[a].rule \in predicted[n] \ (IF n \in DOMAIN topped THEN topped[n] ELSE {})
                                /\ AnyChar \notin tables.gates[a]}
Reopened(n) ==
    /\ n \in Nat /\ n = TextEnd /\ n = pos /\ TextEnd' \in Nat /\ n < TextEnd' /\ at > Len(cols[n])
    /\ \A k \in 1..n : text'[k] = text[k]
    /\ ~HasRuns /\ marks' = marks \cup {TextEnd'}
    /\ idle /\ ~recordLinks /\ tables' = tables /\ pos' = n /\ at' = Len(cols[n]) + 1
    /\ \A i \in 0..n : i < n => cols'[i] = cols[i]
    /\ \A i \in 0..TextEnd' : i > n => cols'[i] = <<>> /\ predicted'[i] = {}
    /\ ToSet(cols'[n]) = ToSet(cols[n]) \cup {<<a, 0, n>> : a \in LateArms(n)}
    /\ \A k \in 1..Len(cols[n]) : cols'[n][k] = cols[n][k]
    /\ \A i \in 0..n : predicted'[i] = predicted[i]
    /\ DOMAIN topped' = DOMAIN topped \cup {n} /\ topped'[n] = predicted[n]
    /\ \A i \in DOMAIN topped : i # n => topped'[i] = topped[i]

LEMMA ExtendAdds ==
    ASSUME Inv, NEW piece, IsList(piece), Extend(piece)
    PROVE  Reopened(TextEnd)
<1>. USE DEF Settled, Inv
<1>1. PICK n, end : n = TextEnd /\ end = TextEnd + Len(piece)
    OBVIOUS
<1>2. /\ idle /\ ~recordLinks /\ piece # <<>> /\ text' = text \o piece
      /\ cols' = [Grown(cols, end, <<>>) EXCEPT ![n] = @ \o Late(n)]
      /\ predicted' = Grown(predicted, end, {})
      /\ topped' = Put(topped, n, (IF n \in DOMAIN topped THEN topped[n] ELSE {}) \cup predicted[n])
      /\ pos' = n /\ at' = Len(cols[n]) + 1 /\ tables' = tables /\ ~HasRuns /\ marks' = marks \cup {end}
    BY <1>1 DEF Extend, TextEnd
<1>3. n \in Nat /\ n = TextEnd /\ pos = n /\ at > Len(cols[n]) /\ Given
    BY <1>1, <1>2, Tabled DEF Topped, Shape
<1>4. TextEnd' = end /\ end \in Nat /\ end > n /\ \A k \in 1..n : text'[k] = text[k]
    <2>1. PICK chars : chars = ToSet(text) \cup ToSet(piece)
        OBVIOUS
    <2>2. text \in Seq(ToSet(text)) /\ piece \in Seq(ToSet(piece))
        BY DEF Shape, Given, IsList
    <2>3. text \in Seq(chars) /\ piece \in Seq(chars)
        <3>1. ToSet(text) \subseteq chars /\ ToSet(piece) \subseteq chars
            BY <2>1
        <3>. QED BY <2>2, <3>1, SeqMonotonic
    <2>4. Len(piece) \in Nat \ {0} /\ n = Len(text)
        BY <1>2, <1>3, <2>3, EmptySeq, LenProperties DEF TextEnd
    <2>5. Len(text \o piece) = Len(text) + Len(piece)
          /\ \A k \in 1..(Len(text) + Len(piece)) : (text \o piece)[k] = IF k <= Len(text) THEN text[k] ELSE piece[k - Len(text)]
        BY <2>3, ConcatProperties
    <2>6. \A k \in 1..n : k \in 1..(Len(text) + Len(piece)) /\ k <= Len(text)
        BY <1>3, <2>4
    <2>7. end = Len(text) + Len(piece) /\ end \in Nat /\ end > n
        BY <1>1, <1>3, <2>4 DEF TextEnd
    <2>8. \A k \in 1..n : text'[k] = text[k]
        BY <1>2, <2>5, <2>6
    <2>9. TextEnd' = Len(text')
        BY DEF TextEnd
    <2>. QED BY <1>2, <2>5, <2>7, <2>8, <2>9
<1>5. PICK late : late = Late(n)
    OBVIOUS
<1>6. late \in Seq(Items(n)) /\ ToSet(late) = {<<a, 0, n>> : a \in LateArms(n)}
    <2>1. late \in Seq(Items(n))
        BY <1>2, <1>3, <1>5, LateNew
    <2>2. late = SeedsOf(LateArms(n), n)
        BY <1>5 DEF Late, DroppedArms, LateArms
    <2>3. LateArms(n) \subseteq DOMAIN tables.arms
        BY DEF LateArms
    <2>. QED BY <1>3, <2>1, <2>2, <2>3, SeedsHave
<1>7. cols[n] \in Seq(Items(n))
    BY <1>3 DEF Shape
<1>8. PICK c : c = cols[n] \o late
    OBVIOUS
<1>9. /\ ToSet(c) = ToSet(cols[n]) \cup ToSet(late)
      /\ \A k \in 1..Len(cols[n]) : c[k] = cols[n][k]
    <2>1. Len(cols[n]) \in Nat /\ Len(late) \in Nat
        BY <1>6, <1>7, LenProperties
    <2>2. \A k \in 1..(Len(cols[n]) + Len(late)) : c[k] = IF k <= Len(cols[n]) THEN cols[n][k] ELSE late[k - Len(cols[n])]
        BY <1>6, <1>7, <1>8, ConcatProperties
    <2>3. \A k \in 1..Len(cols[n]) : k \in 1..(Len(cols[n]) + Len(late)) /\ k <= Len(cols[n])
        BY <2>1
    <2>4. \A k \in 1..Len(cols[n]) : c[k] = cols[n][k]
        BY <2>2, <2>3
    <2>. QED BY <1>6, <1>7, <1>8, <2>4, Joined
<1>10. /\ cols'[n] = c
       /\ \A i \in 0..n : i < n => cols'[i] = cols[i]
       /\ \A i \in 0..end : i > n => cols'[i] = <<>>
    <2>1. DOMAIN cols = 0..n
        BY <1>3 DEF Shape
    <2>2. PICK g : g = Grown(cols, end, <<>>)
        OBVIOUS
    <2>3. /\ DOMAIN g = 0..end
          /\ \A i \in 0..end : g[i] = IF i \in 0..n THEN cols[i] ELSE <<>>
        BY <2>1, <2>2 DEF Grown
    <2>4. cols' = [g EXCEPT ![n] = @ \o late]
        BY <1>2, <1>5, <2>2
    <2>5. n \in 0..end /\ \A i \in 0..n : i \in 0..end
        BY <1>3, <1>4
    <2>6. cols'[n] = g[n] \o late /\ \A i \in 0..end : i # n => cols'[i] = g[i]
        BY <2>3, <2>4, <2>5
    <2>7. g[n] = cols[n]
        BY <1>3, <2>3, <2>5
    <2>8. \A i \in 0..end : (i < n => i \in 0..n /\ i # n) /\ (i > n => i \notin 0..n /\ i # n)
        BY <1>3, <1>4
    <2>. QED BY <1>8, <2>3, <2>5, <2>6, <2>7, <2>8
<1>11. /\ \A i \in 0..n : predicted'[i] = predicted[i]
       /\ \A i \in 0..end : i > n => predicted'[i] = {}
    <2>1. DOMAIN predicted = 0..n
        BY <1>3 DEF Shape
    <2>2. \A i \in 0..n : i \in 0..end
        BY <1>3, <1>4
    <2>3. \A i \in 0..end : i > n => i \notin 0..n
        BY <1>3
    <2>. QED BY <1>2, <2>1, <2>2, <2>3 DEF Grown
<1>12. /\ DOMAIN topped' = DOMAIN topped \cup {n} /\ topped'[n] = predicted[n]
       /\ \A i \in DOMAIN topped : i # n => topped'[i] = topped[i]
    <2>1. n \in DOMAIN topped => topped[n] \subseteq predicted[n]
        BY DEF Topped
    <2>2. topped'[n] = (IF n \in DOMAIN topped THEN topped[n] ELSE {}) \cup predicted[n]
        BY <1>2 DEF Put
    <2>3. DOMAIN topped' = DOMAIN topped \cup {n} /\ \A i \in DOMAIN topped : i # n => topped'[i] = topped[i]
        BY <1>2 DEF Put
    <2>. QED BY <2>1, <2>2, <2>3
<1>13. n = TextEnd
    BY <1>1
<1>. HIDE DEF Inv, Settled
<1>14. \A i \in 0..TextEnd' : i > n => cols'[i] = <<>> /\ predicted'[i] = {}
    BY <1>4, <1>10, <1>11
<1>15. Reopened(n)
    BY <1>2, <1>3, <1>4, <1>6, <1>9, <1>10, <1>11, <1>12, <1>14 DEF Reopened
<1>. QED BY <1>13, <1>15

(* What rollback leaves.                                                   *)
Reverted(m) ==
    /\ m \in Nat /\ TextEnd \in Nat /\ m < TextEnd /\ TextEnd' = m /\ pos' = m /\ at' = Len(cols[m]) + 1
    /\ pos = TextEnd /\ at > Len(cols[TextEnd])
    /\ \A k \in 1..m : text'[k] = text[k]
    /\ m \in marks /\ marks' = {c \in marks : c <= m}
    /\ idle /\ tables' = tables
    /\ \A i \in 0..m : cols'[i] = cols[i] /\ predicted'[i] = predicted[i]
    /\ DOMAIN topped' = {c \in DOMAIN topped : c <= m}
    /\ \A i \in DOMAIN topped' : topped'[i] = topped[i]

LEMMA RollbackCuts ==
    ASSUME Inv, NEW m \in marks, Rollback(m)
    PROVE  Reverted(m)
<1>. USE DEF Settled, Inv
<1>1. /\ idle /\ m < TextEnd /\ text' = SubSeq(text, 1, m)
      /\ cols' = [i \in 0..m |-> cols[i]] /\ predicted' = [i \in 0..m |-> predicted[i]]
      /\ topped' = [i \in {c \in DOMAIN topped : c <= m} |-> topped[i]]
      /\ pos' = m /\ at' = Len(cols[m]) + 1 /\ tables' = tables /\ marks' = {c \in marks : c <= m}
    BY DEF Rollback, Cut, ToppedTo, TextEnd
<1>2. m \in 0..TextEnd /\ TextEnd \in Nat /\ pos = TextEnd /\ at > Len(cols[pos]) /\ text \in Seq(ToSet(text))
    BY <1>1, Tabled DEF Topped, Shape, Given, IsList
<1>3. m \in Nat
    BY <1>2
<1>4. TextEnd' = m /\ \A k \in 1..m : text'[k] = text[k]
    <2>1. PICK one \in Int : one = 1
        OBVIOUS
    <2>2. \A k \in one..m : text[k] \in ToSet(text)
        <3>1. \A k \in one..m : k \in 1..Len(text)
            BY <1>2, <2>1 DEF TextEnd
        <3>. QED BY <1>2, <3>1, ElementOfSeq
    <2>3. /\ Len(SubSeq(text, one, m)) = (IF one <= m THEN m - one + 1 ELSE 0)
          /\ \A k \in 1..(m - one + 1) : SubSeq(text, one, m)[k] = text[one + k - 1]
        BY <1>2, <1>3, <2>2, SubSeqProperties
    <2>4. Len(SubSeq(text, 1, m)) = m
        BY <1>3, <2>1, <2>3
    <2>5. \A k \in 1..m : k \in 1..(m - one + 1) /\ one + k - 1 = k
        BY <1>3, <2>1
    <2>6. \A k \in 1..m : SubSeq(text, 1, m)[k] = text[k]
        BY <2>1, <2>3, <2>5
    <2>. QED BY <1>1, <2>4, <2>6 DEF TextEnd
<1>. HIDE DEF Inv, Settled
<1>. QED BY <1>1, <1>2, <1>3, <1>4 DEF Reverted

-----------------------------------------------------------------------------
(* Where a text was cut or grown, a terminal that began before the place   *)
(* ends before it.                                                         *)
LEMMA TermsWithin ==
    ASSUME Given', tables' = tables, ~HasRuns, NEW c \in Nat, c <= TextEnd', TextEnd' \in Nat, c \in marks',
           \A i \in 0..(c - 1) : i \in DOMAIN bounds' => i + bounds'[i].length <= c,
           NEW a \in DOMAIN tables.arms, NEW sym \in ToSet(Body(a)), ~IsRule(sym), NEW i \in Nat, i < c,
           NEW j \in TermEnds(sym, Input, i)'
    PROVE  j \in 0..c
<1>1. IsSymbol(sym) /\ sym.kind # "run"
    BY KernelAssumption DEF Given, IsTables, HasRuns, Body
<1>2. Input'.chars = text' /\ Input'.tokens = bounds' /\ Size(Input)' = TextEnd' /\ Input'.breaks = marks'
    BY DEF Input, Size, TextEnd
<1>. HIDE DEF Input
<1>3. /\ j \in (i + 1)..TextEnd'
      /\ CASE sym.kind = "class" -> j = i + 1 /\ text'[j] \in sym.chars
           [] sym.kind = "literal" -> \A k \in (i + 1)..(j - 1) : k \notin marks'
           [] sym.kind = "token" -> i \in DOMAIN bounds' /\ bounds'[i].id \in sym.ids /\ j = i + bounds'[i].length
    BY <1>1, <1>2 DEF TermEnds, IsSymbol, IsRule, Unbroken
<1>4. i \in 0..(c - 1)
    OBVIOUS
<1>5. CASE sym.kind = "class"
    BY <1>3, <1>5
<1>6. CASE sym.kind = "token"
    BY <1>3, <1>4, <1>6
<1>7. CASE sym.kind = "literal"
    <2>1. c \notin (i + 1)..(j - 1)
        BY <1>3, <1>7
    <2>. QED BY <1>3, <2>1
<1>. QED BY <1>1, <1>5, <1>6, <1>7 DEF IsSymbol, IsRule

(* What an item of a column faces, when it faces a terminal.               *)
LEMMA TermOfItem ==
    ASSUME Shape, NEW i \in 0..TextEnd, NEW it \in ToSet(cols[i]), FacesTerm(it)
    PROVE  /\ it \in Items(i) /\ it[1] \in DOMAIN tables.arms /\ Facing(it) \in ToSet(Body(it[1]))
           /\ ~IsRule(Facing(it)) /\ ~Complete(it)
<1>1. it \in Items(i) /\ ~Complete(it) /\ ~IsRule(Facing(it)) /\ Given
    BY Queued DEF Shape, FacesTerm
<1>. QED BY <1>1, FacingIs

(* Neither call breaks a text before the place it works at.                *)
LEMMA BreaksAdded == ASSUME NEW n, Reopened(n) PROVE SameBreaks(n)
<1>1. \A k \in 0..(n - 1) : k # TextEnd'
    BY DEF Reopened
<1>. QED BY <1>1 DEF Reopened, SameBreaks

LEMMA BreaksCut == ASSUME NEW m, Reverted(m) PROVE SameBreaks(m)
<1>1. \A k \in 0..(m - 1) : k <= m
    BY DEF Reverted
<1>. QED BY <1>1 DEF Reverted, SameBreaks

LEMMA ExtendWorks ==
    ASSUME Inv, Inv', Worked, recordLinks' = recordLinks, NEW n, Reopened(n), Agree(n), TokensWhole'
    PROVE  Worked'
<1>1. Shape /\ Shape' /\ Given /\ Given' /\ \A i \in DOMAIN topped : i \in 0..n
    BY DEF Inv, Settled, Shape, Reopened, Topped
<1>2. /\ n \in Nat /\ n = TextEnd /\ n = pos /\ TextEnd' \in Nat /\ n < TextEnd' /\ at > Len(cols[n])
      /\ idle /\ ~recordLinks /\ tables' = tables /\ pos' = n /\ at' = Len(cols[n]) + 1 /\ n \in 0..n
      /\ ~HasRuns /\ marks' = marks \cup {TextEnd'} /\ n \in marks'
      /\ \A i \in 0..n : i \in 0..TextEnd' /\ (i < n \/ i = n)
    BY DEF Reopened, Worked, Ungrown
<1>3. /\ \A i \in 0..n : i < n => cols'[i] = cols[i]
      /\ \A i \in 0..TextEnd' : i > n => cols'[i] = <<>> /\ predicted'[i] = {}
      /\ \A i \in 0..n : predicted'[i] = predicted[i]
      /\ ToSet(cols'[n]) = ToSet(cols[n]) \cup {<<a, 0, n>> : a \in LateArms(n)}
      /\ \A k \in 1..Len(cols[n]) : cols'[n][k] = cols[n][k]
    BY DEF Reopened
<1>4. \A i \in 0..n : ToSet(cols[i]) \subseteq ToSet(cols'[i])
    BY <1>2, <1>3
<1>5. AllHandled'
    <2>. SUFFICES ASSUME NEW i \in 0..TextEnd', NEW k \in DOMAIN cols'[i], Behind(i, k)', NEW it, it = cols'[i][k]
                  PROVE  Handled(it, i)'
        BY NextHandled
    <2>1. i \in 0..n /\ k \in Nat \ {0}
        <3>1. cols'[i] \in Seq(Items(i)')
            BY <1>1 DEF Shape
        <3>. QED BY <1>2, <3>1, LenProperties DEF Behind
    <2>2. cols[i] \in Seq(Items(i)) /\ Len(cols[i]) \in Nat /\ at \in Int
        BY <1>1, <1>2, <2>1, LenProperties DEF Shape
    <2>3. k \in DOMAIN cols[i] /\ it = cols[i][k] /\ Behind(i, k)
        <3>1. CASE i < n
            BY <1>2, <1>3, <2>1, <3>1 DEF Behind
        <3>2. CASE i = n
            <4>1. k \in 1..Len(cols[n])
                BY <1>2, <2>1, <2>2, <3>2 DEF Behind
            <4>2. k \in DOMAIN cols[n] /\ k < at
                BY <1>2, <2>2, <3>2, <4>1, LenProperties
            <4>. QED BY <1>2, <1>3, <3>2, <4>1, <4>2 DEF Behind
        <3>. QED BY <1>2, <2>1, <3>1, <3>2
    <2>4. Handled(it, i) /\ it \in Items(i)
        <3>1. it \in ToSet(cols[i])
            BY <2>3 DEF ToSet
        <3>. QED BY <1>2, <2>1, <2>2, <2>3, <3>1, Queued DEF Worked, AllHandled
    <2>5. \A o \in 0..TextEnd : o < i => o \in 0..TextEnd' /\ cols'[o] = cols[o]
        BY <1>2, <1>3, <2>1
    <2>6. i \in 0..TextEnd /\ predicted[i] \subseteq predicted'[i] /\ ToSet(cols[i]) \subseteq ToSet(cols'[i])
        BY <1>2, <1>3, <1>4, <2>1
    <2>. QED BY <1>1, <1>2, <2>4, <2>5, <2>6, HandledStays
<1>6. Scanned'
    <2>. SUFFICES ASSUME NEW i \in 0..TextEnd', i < n, NEW it \in ToSet(cols'[i]), FacesTerm(it)',
                         NEW sym, sym = Facing(it), NEW j \in TermEnds(sym, Input, i)'
                  PROVE  Advance(it) \in ToSet(cols'[j])
        <3>1. \A it : Facing(it)' = Facing(it)
            BY <1>2, TablesStay
        <3>. QED BY <1>2, <3>1 DEF Scanned, Advance
    <2>1. i \in 0..n /\ i \in 0..TextEnd /\ i \in Nat
        BY <1>2
    <2>2. it \in ToSet(cols[i]) /\ FacesTerm(it)
        BY <1>2, <1>3, <2>1, TablesStay
    <2>3. it[1] \in DOMAIN tables.arms /\ sym \in ToSet(Body(it[1])) /\ ~IsRule(sym)
        BY <1>1, <2>1, <2>2, TermOfItem
    <2>4. \A k \in 0..(n - 1) : k \in DOMAIN bounds' => k + bounds'[k].length <= n
        BY <1>2 DEF Agree, Worked, TokensWhole
    <2>5. j \in 0..n
        BY <1>1, <1>2, <2>1, <2>3, <2>4, TermsWithin
    <2>6. j \in TermEnds(sym, Input, i)
        BY <1>1, <1>2, <2>1, <2>3, <2>5, BreaksAdded, TermsKept
    <2>7. Advance(it) \in ToSet(cols[j])
        BY <1>2, <2>1, <2>2, <2>6 DEF Worked, Scanned
    <2>. QED BY <1>4, <2>5, <2>7
<1>7. ASSUME NEW r \in predicted[n], NEW a \in ArmsOf(r) PROVE <<a, 0, n>> \in ToSet(cols'[n])
    <2>1. CASE AnyChar \in tables.gates[a]
        <3>1. <<a, 0, n>> \in ToSet(cols[n])
            BY <1>2, <1>7, <2>1 DEF Worked, Sown, Passes
        <3>. QED BY <1>2, <1>4, <3>1
    <2>2. CASE n \in DOMAIN topped /\ r \in topped[n]
        <3>1. <<a, 0, n>> \in ToSet(cols[n])
            BY <1>7, <2>2 DEF Worked, SownWhole
        <3>. QED BY <1>2, <1>4, <3>1
    <2>3. CASE AnyChar \notin tables.gates[a] /\ ~(n \in DOMAIN topped /\ r \in topped[n])
        <3>1. a \in LateArms(n)
            BY <1>7, <2>3 DEF LateArms, ArmsOf
        <3>. QED BY <1>3, <3>1
    <2>. QED BY <2>1, <2>2, <2>3
<1>8. Sown'
    <2>. SUFFICES ASSUME NEW i \in 0..TextEnd', NEW r \in predicted'[i], NEW a \in ArmsOf(r)
                  PROVE  <<a, 0, i>> \in ToSet(cols'[i]) \/ ~Passes(a, text', i)
        BY <1>2 DEF Sown, ArmsOf, Passes
    <2>1. i \in 0..n /\ r \in predicted[i]
        BY <1>2, <1>3
    <2>2. CASE i = n
        BY <1>7, <2>1, <2>2
    <2>3. CASE i # n
        <3>1. i < n /\ text'[i + 1] = text[i + 1] /\ i < Len(text) /\ i < Len(text')
            <4>1. i < n /\ i + 1 \in 1..n
                BY <1>2, <2>1, <2>3
            <4>. QED BY <1>2, <4>1 DEF Reopened, TextEnd
        <3>2. <<a, 0, i>> \in ToSet(cols[i]) \/ ~Passes(a, text, i)
            BY <1>2, <2>1 DEF Worked, Sown
        <3>. QED BY <1>3, <2>1, <3>1, <3>2 DEF Passes
    <2>. QED BY <2>2, <2>3
<1>9. SownWhole'
    <2>. SUFFICES ASSUME NEW i \in DOMAIN topped', NEW r \in topped'[i], NEW a \in ArmsOf(r)
                  PROVE  <<a, 0, i>> \in ToSet(cols'[i])
        BY <1>2 DEF SownWhole, ArmsOf
    <2>1. CASE i = n
        BY <1>7, <2>1 DEF Reopened
    <2>2. CASE i # n
        <3>1. i \in DOMAIN topped /\ r \in topped[i] /\ i \in 0..n
            BY <1>1, <2>2 DEF Reopened
        <3>2. <<a, 0, i>> \in ToSet(cols[i])
            BY <3>1 DEF Worked, SownWhole
        <3>. QED BY <1>4, <3>1, <3>2
    <2>. QED BY <2>1, <2>2
<1>10. StartPredicted'
    <2>1. 0 \in 0..n
        BY <1>2
    <2>. QED BY <1>2, <1>3, <2>1 DEF Worked, StartPredicted
<1>11. Ungrown'
    BY <1>2 DEF Ungrown, HasRuns, Body
<1>. QED BY <1>5, <1>6, <1>8, <1>9, <1>10, <1>11 DEF Worked

LEMMA RollbackWorks ==
    ASSUME Inv, Inv', Worked, recordLinks' = recordLinks, ~recordLinks, NEW m, Reverted(m), Agree(m), TokensWhole'
    PROVE  Worked'
<1>1. Shape /\ Shape' /\ Given /\ Given' /\ \A i \in DOMAIN topped : i \in 0..TextEnd
    BY DEF Inv, Settled, Shape, Topped
<1>2. /\ m \in Nat /\ TextEnd \in Nat /\ m < TextEnd /\ TextEnd' = m /\ pos' = m /\ at' = Len(cols[m]) + 1
      /\ pos = TextEnd /\ tables' = tables /\ m \in marks' /\ m \in marks
      /\ \A i \in 0..m : cols'[i] = cols[i] /\ predicted'[i] = predicted[i] /\ i \in 0..TextEnd /\ i < pos
    BY DEF Reverted
<1>2a. ~HasRuns
    BY <1>2 DEF Worked, Ungrown
<1>3. AllHandled'
    <2>. SUFFICES ASSUME NEW i \in 0..m, NEW k \in DOMAIN cols'[i], NEW it, it = cols'[i][k] PROVE Handled(it, i)'
        BY <1>2, NextHandled
    <2>1. it = cols[i][k] /\ k \in DOMAIN cols[i] /\ Behind(i, k) /\ cols[i] \in Seq(Items(i))
        BY <1>1, <1>2 DEF Behind, Shape
    <2>2. it \in ToSet(cols[i])
        BY <2>1 DEF ToSet
    <2>3. Handled(it, i) /\ it \in Items(i)
        BY <1>2, <2>1, <2>2, Queued DEF Worked, AllHandled
    <2>4. \A o \in 0..TextEnd : o < i => o \in 0..TextEnd' /\ cols'[o] = cols[o]
        BY <1>2
    <2>. QED BY <1>1, <1>2, <2>3, <2>4, HandledStays
<1>4. Scanned'
    <2>. SUFFICES ASSUME NEW i \in 0..m, i < m, NEW it \in ToSet(cols'[i]), FacesTerm(it)',
                         NEW sym, sym = Facing(it), NEW j \in TermEnds(sym, Input, i)'
                  PROVE  Advance(it) \in ToSet(cols'[j])
        <3>1. \A it : Facing(it)' = Facing(it)
            BY <1>2, TablesStay
        <3>. QED BY <1>2, <3>1 DEF Scanned, Advance
    <2>1. it \in ToSet(cols[i]) /\ FacesTerm(it) /\ i \in Nat
        BY <1>2, TablesStay
    <2>2. it[1] \in DOMAIN tables.arms /\ sym \in ToSet(Body(it[1])) /\ ~IsRule(sym)
        BY <1>1, <1>2, <2>1, TermOfItem
    <2>3. \A k \in 0..(m - 1) : k \in DOMAIN bounds' => k + bounds'[k].length <= m
        BY <1>2 DEF TokensWhole
    <2>4. j \in 0..m
        BY <1>1, <1>2, <1>2a, <2>1, <2>2, <2>3, TermsWithin
    <2>5. j \in TermEnds(sym, Input, i)
        BY <1>1, <1>2, <1>2a, <2>2, <2>4, BreaksCut, TermsKept
    <2>6. Advance(it) \in ToSet(cols[j])
        BY <1>2, <2>1, <2>5 DEF Worked, Scanned
    <2>. QED BY <1>2, <2>4, <2>6
<1>5. Sown'
    <2>. SUFFICES ASSUME NEW i \in 0..m, NEW r \in predicted[i], NEW a \in ArmsOf(r), Passes(a, text', i)
                  PROVE  <<a, 0, i>> \in ToSet(cols[i])
        BY <1>2 DEF Sown, ArmsOf, Passes
    <2>1. Passes(a, text, i)
        <3>1. CASE i = m
            BY <1>2, <3>1 DEF Passes, TextEnd
        <3>2. CASE i # m
            <4>1. i + 1 \in 1..m /\ i < TextEnd
                BY <1>2, <3>2
            <4>2. text'[i + 1] = text[i + 1] /\ i < Len(text)
                BY <4>1 DEF Reverted, TextEnd
            <4>. QED BY <4>2 DEF Passes
        <3>. QED BY <3>1, <3>2
    <2>. QED BY <1>2, <2>1 DEF Worked, Sown
<1>6. SownWhole'
    <2>. SUFFICES ASSUME NEW i \in DOMAIN topped', NEW r \in topped'[i], NEW a \in ArmsOf(r)
                  PROVE  <<a, 0, i>> \in ToSet(cols'[i])
        BY <1>2 DEF SownWhole, ArmsOf
    <2>1. i \in DOMAIN topped /\ r \in topped[i] /\ i <= m
        BY DEF Reverted
    <2>2. i \in 0..m
        BY <1>1, <1>2, <2>1
    <2>. QED BY <1>2, <2>1, <2>2 DEF Worked, SownWhole
<1>7. StartPredicted'
    <2>1. 0 \in 0..m
        BY <1>2
    <2>. QED BY <1>2, <2>1 DEF Worked, StartPredicted
<1>8. Ungrown'
    BY <1>2, <1>2a DEF Ungrown, HasRuns, Body
<1>. QED BY <1>3, <1>4, <1>5, <1>6, <1>7, <1>8 DEF Worked

(* The consequences of a set of facts over the next text.                  *)
LEMMA FollowsNext ==
    ASSUME tables' = tables, NEW D, Deduced(Input, D)'
    PROVE  /\ \A a \in DOMAIN tables.arms, i \in Points' : <<<<a, 0, i>>, i>> \in D
           /\ \A it, i, j, sym : <<it, i>> \in D /\ FacesTerm(it) /\ sym = Facing(it) /\ j \in TermEnds(sym, Input, i)'
                    => <<Advance(it), j>> \in D
           /\ \A it, g, j : <<it, Origin(g)>> \in D /\ <<g, j>> \in D /\ Complete(g) /\ FacesRule(it, RuleOf(g))
                    => <<Advance(it), j>> \in D
<1>0. /\ \A it : /\ Complete(it)' = Complete(it) /\ Facing(it)' = Facing(it) /\ RuleOf(it)' = RuleOf(it)
                 /\ FacesTerm(it)' = FacesTerm(it) /\ \A r : FacesRule(it, r)' = FacesRule(it, r)
    BY TablesStay
<1>1. \A a \in DOMAIN tables.arms, i \in Points' : <<<<a, 0, i>>, i>> \in D
    BY DEF Deduced
<1>2. ASSUME NEW it, NEW i, NEW j, NEW sym, <<it, i>> \in D, FacesTerm(it), sym = Facing(it), j \in TermEnds(sym, Input, i)'
      PROVE  <<Advance(it), j>> \in D
    <2>1. PICK f \in D : f = <<it, i>>
        BY <1>2
    <2>2. f[1] = it /\ f[2] = i
        BY <2>1
    <2>3. FacesTerm(f[1])' => \A k \in TermEnds(Facing(f[1]), Input, f[2])' : <<Advance(f[1]), k>> \in D
        BY DEF Deduced, Advance
    <2>4. FacesTerm(f[1])' /\ j \in TermEnds(Facing(f[1]), Input, f[2])'
        BY <1>0, <1>2, <2>2 DEF TermEnds, Unbroken
    <2>. QED BY <2>2, <2>3, <2>4
<1>3. ASSUME NEW it, NEW g, NEW j, <<it, Origin(g)>> \in D, <<g, j>> \in D, Complete(g), FacesRule(it, RuleOf(g))
      PROVE  <<Advance(it), j>> \in D
    <2>1. PICK f \in D, h \in D : f = <<it, Origin(g)>> /\ h = <<g, j>>
        BY <1>3
    <2>2. f[1] = it /\ f[2] = Origin(g) /\ h[1] = g /\ h[2] = j
        BY <2>1
    <2>3. Complete(h[1])' /\ FacesRule(f[1], RuleOf(h[1]))' /\ Origin(h[1]) = f[2] => <<Advance(f[1]), h[2]>> \in D
        BY DEF Deduced, Advance, Origin
    <2>4. Complete(h[1])' /\ FacesRule(f[1], RuleOf(h[1]))'
        BY <1>3, <2>2 DEF Complete, FacesRule, RuleOf, Facing, Body
    <2>. QED BY <2>2, <2>3, <2>4
<1>. QED BY <1>1, <1>2, <1>3

LEMMA NextFacts ==
    ASSUME Given, Given', tables' = tables, NEW it, NEW j
    PROVE  /\ <<it, j>> \in Facts <=> it \in Items(j) /\ j \in 0..TextEnd
           /\ <<it, j>> \in Facts' <=> it \in Items(j) /\ j \in 0..TextEnd'
<1>. DEFINE f == <<it, j>>
<1>0. f[1] = it /\ f[2] = j /\ Points = 0..TextEnd /\ Points' = 0..TextEnd'
    BY DEF Points, TextEnd
<1>1. /\ \A k \in Points : \A x \in Items(k) : <<x, k>> \in Facts
      /\ \A g \in Facts : g[2] \in Points /\ g[1] \in Items(g[2])
    BY FactIs
<1>2. Facts = UNION {ItemsTo(k) \X {k} : k \in Points}
    BY DEF Facts
<1>3. Facts' = UNION {ItemsTo(k) \X {k} : k \in Points'}
    BY DEF Facts, ItemsTo, Body
<1>4. \A k : f \in ItemsTo(k) \X {k} <=> it \in ItemsTo(j) /\ k = j
    BY <1>0
<1>5. \A k : it \in ItemsTo(j) <=> it \in Items(j)
    <2>0. \A a \in DOMAIN tables.arms : Len(Body(a)) \in Nat
        BY Compiles
    <2>1. ASSUME it \in Items(j) PROVE it \in ItemsTo(j)
        <3>1. it \in {it[1]} \X (0..Len(Body(it[1]))) \X (0..j) /\ it[1] \in DOMAIN tables.arms
            BY <2>0, <2>1 DEF Items
        <3>. QED BY <3>1 DEF ItemsTo
    <2>2. ASSUME it \in ItemsTo(j) PROVE it \in Items(j)
        <3>1. PICK a \in DOMAIN tables.arms : it \in {a} \X (0..Len(Body(a))) \X (0..j)
            BY <2>2 DEF ItemsTo
        <3>. QED BY <2>0, <3>1 DEF Items
    <2>. QED BY <2>1, <2>2
<1>6. f \in Facts <=> it \in ItemsTo(j) /\ j \in Points
    BY <1>2, <1>4
<1>7. f \in Facts' <=> it \in ItemsTo(j) /\ j \in Points'
    BY <1>3, <1>4
<1>. QED BY <1>0, <1>5, <1>6, <1>7

(* A chart that is grown holds what the grown text derives: the facts of   *)
(* the grown text that are facts of the old one hold the consequences they *)
(* had.                                                                    *)
LEMMA ExtendSound ==
    ASSUME Inv, Inv', Sound, NEW n, Reopened(n), Agree(n)
    PROVE  Sound'
<1>1. Shape /\ Given /\ Given'
    BY DEF Inv, Settled, Shape
<1>2. /\ n \in Nat /\ n = TextEnd /\ TextEnd' \in Nat /\ n < TextEnd' /\ ~HasRuns /\ tables' = tables
      /\ Points = 0..n /\ Points' = 0..TextEnd' /\ Points \subseteq Points'
    BY DEF Reopened, Points, TextEnd
<1>. SUFFICES ASSUME NEW D \in SUBSET Facts', Deduced(Input, D)', NEW i \in 0..TextEnd', NEW it \in ToSet(cols'[i])
              PROVE  <<it, i>> \in D
    BY DEF Sound, Derivable
<1>3. PICK C : C = D \cap Facts
    OBVIOUS
<1>4. C \subseteq Facts /\ C \subseteq D
    BY <1>3
<1>5. \A a \in DOMAIN tables.arms, k \in Points : <<<<a, 0, k>>, k>> \in C
    BY <1>1, <1>2, <1>3, FollowsNext, SeedFacts
<1>6. ASSUME NEW x, NEW k, NEW j, <<x, k>> \in C, FacesTerm(x), j \in TermEnds(Facing(x), Input, k)
      PROVE  <<Advance(x), j>> \in C
    <2>1. x \in Items(k) /\ k \in 0..n /\ k \in Int /\ <<x, k>> \in Facts /\ ~Complete(x) /\ ~IsRule(Facing(x))
        BY <1>1, <1>2, <1>4, <1>6, FactParts DEF FacesTerm
    <2>2. j \in (k + 1)..n
        BY <1>2, <1>6 DEF TermEnds, Input, Size, TextEnd
    <2>3. j \in Points /\ j \in 0..n /\ k <= j
        BY <1>2, <2>1, <2>2
    <2>4. <<Advance(x), j>> \in Facts
        BY <1>1, <2>1, <2>3, FactsMove
    <2>5. PICK sym : sym = Facing(x)
        OBVIOUS
    <2>6. x[1] \in DOMAIN tables.arms /\ sym \in ToSet(Body(x[1])) /\ ~IsRule(sym)
        BY <1>1, <2>1, <2>5, FacingIs
    <2>7. j \in TermEnds(sym, Input, k)'
        BY <1>1, <1>2, <1>6, <2>1, <2>3, <2>5, <2>6, BreaksAdded, TermsKept
    <2>8. <<Advance(x), j>> \in D
        BY <1>2, <1>4, <1>6, <2>5, <2>7, FollowsNext
    <2>. QED BY <1>3, <2>4, <2>8
<1>7. ASSUME NEW x, NEW g, NEW j, <<x, Origin(g)>> \in C, <<g, j>> \in C, Complete(g), FacesRule(x, RuleOf(g))
      PROVE  <<Advance(x), j>> \in C
    <2>1. <<x, Origin(g)>> \in Facts /\ <<g, j>> \in Facts /\ ~Complete(x)
        BY <1>4, <1>7 DEF FacesRule
    <2>2. j \in Points /\ Origin(g) \in 0..j /\ j \in Int
        BY <1>1, <1>2, <2>1, FactParts
    <2>3. <<Advance(x), j>> \in Facts
        <3>1. Origin(g) <= j
            BY <2>2
        <3>. QED BY <1>1, <2>1, <2>2, <3>1, FactsMove
    <2>4. <<Advance(x), j>> \in D
        BY <1>2, <1>4, <1>7, FollowsNext
    <2>. QED BY <1>3, <2>3, <2>4
<1>8. Deduced(Input, C)
    BY <1>1, <1>4, <1>5, <1>6, <1>7, FactsOf
<1>9. SoundIn(C)
    BY <1>4, <1>8 DEF Sound, SoundIn, Derivable
<1>10. i \in 0..n
    <2>1. i > n => cols'[i] = <<>>
        BY DEF Reopened
    <2>2. ToSet(<<>>) = {}
        BY DEF ToSet
    <2>. QED BY <1>2, <2>1, <2>2
<1>11. CASE it \in ToSet(cols[i])
    BY <1>2, <1>4, <1>9, <1>10, <1>11 DEF SoundIn
<1>12. CASE it \notin ToSet(cols[i])
    <2>1. i = n
        <3>1. i < n => cols'[i] = cols[i]
            BY <1>10 DEF Reopened
        <3>. QED BY <1>2, <1>10, <1>12, <3>1
    <2>2. PICK a \in LateArms(n) : it = <<a, 0, n>>
        BY <1>12, <2>1 DEF Reopened
    <2>3. a \in DOMAIN tables.arms /\ n \in Points'
        BY <1>2 DEF LateArms
    <2>. QED BY <1>2, <2>1, <2>2, <2>3, FollowsNext
<1>. QED BY <1>11, <1>12

(* A chart that is cut holds what the cut text derives: with every fact    *)
(* past the cut, the facts of the cut text hold the consequences they had  *)
(* in the whole one.                                                       *)
LEMMA RollbackSound ==
    ASSUME Inv, Inv', Sound, ~HasRuns, NEW m, Reverted(m), Agree(m)
    PROVE  Sound'
<1>1. Shape /\ Given /\ Given'
    BY DEF Inv, Settled, Shape
<1>2. /\ m \in Nat /\ TextEnd \in Nat /\ m < TextEnd /\ TextEnd' = m /\ tables' = tables
      /\ Points = 0..TextEnd /\ Points' = 0..m /\ Points' \subseteq Points
    BY DEF Reverted, Points, TextEnd
<1>. SUFFICES ASSUME NEW D \in SUBSET Facts', Deduced(Input, D)', NEW i \in 0..m, NEW it \in ToSet(cols'[i])
              PROVE  <<it, i>> \in D
    BY <1>2 DEF Sound, Derivable
<1>3. PICK past : past = {f \in Facts : f[2] > m}
    OBVIOUS
<1>4. PICK E : E = D \cup past
    OBVIOUS
<1>5. /\ \A x, j : <<x, j>> \in past <=> <<x, j>> \in Facts /\ j > m
      /\ \A x, j : <<x, j>> \in D => <<x, j>> \in Facts /\ j \in 0..m
    <2>1. \A x, j : <<x, j>> \in past <=> <<x, j>> \in Facts /\ j > m
        <3>. SUFFICES ASSUME NEW x, NEW j PROVE <<x, j>> \in past <=> <<x, j>> \in Facts /\ j > m
            OBVIOUS
        <3>1. PICK f : f = <<x, j>>
            OBVIOUS
        <3>2. f \in past <=> f \in Facts /\ f[2] > m
            BY <1>3
        <3>. QED BY <3>1, <3>2
    <2>2. ASSUME NEW x, NEW j, <<x, j>> \in D PROVE <<x, j>> \in Facts /\ j \in 0..m
        <3>1. x \in Items(j) /\ j \in 0..m
            BY <1>1, <1>2, <2>2, NextFacts
        <3>2. j \in 0..TextEnd
            BY <1>2, <3>1
        <3>. QED BY <1>1, <1>2, <3>1, <3>2, NextFacts
    <2>. QED BY <2>1, <2>2
<1>6. E \subseteq Facts
    <2>1. D \subseteq Facts
        <3>. SUFFICES ASSUME NEW f \in D PROVE f \in Facts
            OBVIOUS
        <3>1. Facts' = UNION {ItemsTo(k) \X {k} : k \in Points'} /\ Facts = UNION {ItemsTo(k) \X {k} : k \in Points}
            BY <1>2 DEF Facts, ItemsTo, Body
        <3>. QED BY <1>2, <3>1
    <2>. QED BY <1>3, <1>4, <2>1
<1>7. \A a \in DOMAIN tables.arms, k \in Points : <<<<a, 0, k>>, k>> \in E
    <2>. SUFFICES ASSUME NEW a \in DOMAIN tables.arms, NEW k \in Points PROVE <<<<a, 0, k>>, k>> \in E
        OBVIOUS
    <2>1. CASE k > m
        BY <1>1, <1>4, <1>5, <2>1, SeedFacts
    <2>2. CASE ~(k > m)
        <3>1. k \in Points'
            BY <1>2, <2>2
        <3>. QED BY <1>2, <1>4, <3>1, FollowsNext
    <2>. QED BY <2>1, <2>2
<1>8. \A x, j : <<x, j>> \in E /\ ~(j > m) => <<x, j>> \in D
    BY <1>4, <1>5
<1>9. ASSUME NEW x, NEW k, NEW j, <<x, k>> \in E, FacesTerm(x), j \in TermEnds(Facing(x), Input, k)
      PROVE  <<Advance(x), j>> \in E
    <2>1. x \in Items(k) /\ k \in 0..TextEnd /\ k \in Int /\ <<x, k>> \in Facts /\ ~Complete(x) /\ ~IsRule(Facing(x))
        BY <1>1, <1>2, <1>6, <1>9, FactParts DEF FacesTerm
    <2>2. j \in (k + 1)..TextEnd
        BY <1>2, <1>9 DEF TermEnds, Input, Size, TextEnd
    <2>3. j \in Points /\ k <= j /\ j \in Int
        BY <1>2, <2>1, <2>2
    <2>4. CASE j > m
        <3>1. <<Advance(x), j>> \in Facts
            BY <1>1, <2>1, <2>3, FactsMove
        <3>. QED BY <1>4, <1>5, <2>4, <3>1
    <2>5. CASE ~(j > m)
        <3>1. j \in 0..m /\ k \in 0..m /\ ~(k > m)
            BY <1>2, <2>1, <2>2, <2>3, <2>5
        <3>2. PICK sym : sym = Facing(x)
            OBVIOUS
        <3>3. x[1] \in DOMAIN tables.arms /\ sym \in ToSet(Body(x[1])) /\ ~IsRule(sym)
            BY <1>1, <2>1, <3>2, FacingIs
        <3>4. j \in TermEnds(sym, Input, k)'
            BY <1>1, <1>2, <1>9, <3>1, <3>2, <3>3, BreaksCut, TermsKept
        <3>5. <<Advance(x), j>> \in D
            BY <1>2, <1>8, <1>9, <3>1, <3>2, <3>4, FollowsNext
        <3>. QED BY <1>4, <3>5
    <2>. QED BY <2>4, <2>5
<1>10. ASSUME NEW x, NEW g, NEW j, <<x, Origin(g)>> \in E, <<g, j>> \in E, Complete(g), FacesRule(x, RuleOf(g))
       PROVE  <<Advance(x), j>> \in E
    <2>1. <<x, Origin(g)>> \in Facts /\ <<g, j>> \in Facts /\ ~Complete(x)
        BY <1>6, <1>10 DEF FacesRule
    <2>2. j \in Points /\ Origin(g) \in 0..j /\ j \in Int
        BY <1>1, <1>2, <2>1, FactParts
    <2>3. Origin(g) <= j /\ Origin(g) \in Int
        BY <2>2
    <2>4. CASE j > m
        <3>1. <<Advance(x), j>> \in Facts
            BY <1>1, <2>1, <2>2, <2>3, FactsMove
        <3>. QED BY <1>4, <1>5, <2>4, <3>1
    <2>5. CASE ~(j > m)
        <3>1. ~(Origin(g) > m)
            BY <1>2, <2>2, <2>3, <2>5
        <3>2. <<x, Origin(g)>> \in D /\ <<g, j>> \in D
            BY <1>8, <1>10, <2>5, <3>1
        <3>3. <<Advance(x), j>> \in D
            BY <1>2, <1>10, <3>2, FollowsNext
        <3>. QED BY <1>4, <3>3
    <2>. QED BY <2>4, <2>5
<1>11. Deduced(Input, E)
    BY <1>1, <1>6, <1>7, <1>9, <1>10, FactsOf
<1>12. it \in ToSet(cols[i]) /\ i \in 0..TextEnd /\ ~(i > m)
    BY <1>2 DEF Reverted
<1>13. <<it, i>> \in E
    BY <1>6, <1>11, <1>12 DEF Sound, Derivable
<1>. QED BY <1>8, <1>12, <1>13

-----------------------------------------------------------------------------
(* A chart that is exact, and the steps that keep it so.                   *)
Exact == Inv /\ Sound /\ Worked

LEMMA SoundKept ==
    ASSUME UNCHANGED <<tables, text, bounds, marks>>, Sound,
           \A D \in SUBSET Facts : Deduced(Input, D) /\ SoundIn(D) => SoundIn(D)'
    PROVE  Sound'
<1>1. Facts' = Facts /\ \A D : Deduced(Input, D)' = Deduced(Input, D)
    BY SameFacts
<1>2. \A D \in SUBSET Facts : Deduced(Input, D) => SoundIn(D)'
    BY SoundIs
<1>. SUFFICES ASSUME NEW i \in 0..TextEnd', NEW it \in ToSet(cols'[i]), NEW D \in SUBSET Facts', Deduced(Input, D)'
              PROVE  <<it, i>> \in D
    BY DEF Sound, Derivable
<1>3. SoundIn(D)'
    BY <1>1, <1>2
<1>. QED BY <1>3 DEF SoundIn

LEMMA ClosingExact == ASSUME Exact, Close \/ Scan PROVE Exact'
<1>. USE DEF Exact
<1>1. UNCHANGED <<tables, text, bounds, marks>> /\ TextEnd' = TextEnd
    BY DEF Close, Predict, AwaitScan, SkipEmpty, Jump, CompleteAll, Scan, client, given, TextEnd
<1>2. CASE Predict
    BY <1>1, <1>2, PredictKeeps, PredictWorks, PredictSound, SoundKept
<1>3. CASE Jump
    BY <1>1, <1>3, JumpKeeps, JumpWorks, JumpSound, SoundKept
<1>4. CASE CompleteAll
    BY <1>1, <1>4, CompleteAllKeeps, CompleteWorks, CompleteSound, SoundKept
<1>5. CASE Scan
    BY <1>1, <1>5, ScanKeeps, ScanWorks, ScanSound, SoundKept
<1>6. CASE AwaitScan \/ SkipEmpty
    <2>1. /\ Visiting /\ at' = at + 1 /\ UNCHANGED <<client, cols, predicted>>
          /\ FacesTerm(Item) \/ (Complete(Item) /\ Origin(Item) = pos)
        BY <1>6 DEF AwaitScan, SkipEmpty
    <2>2. Inv'
        BY <1>6, PassesKeep DEF AwaitScan, SkipEmpty
    <2>3. Worked'
        BY <2>1, <2>2, PassWorks
    <2>4. \A D \in SUBSET Facts : Deduced(Input, D) /\ SoundIn(D) => SoundIn(D)'
        BY <1>1, <2>1 DEF SoundIn
    <2>. QED BY <1>1, <2>2, <2>3, <2>4, SoundKept
<1>. QED BY <1>2, <1>3, <1>4, <1>5, <1>6 DEF Close

LEMMA QuietExact ==
    ASSUME Exact, Inv', UNCHANGED <<given, cols, predicted, topped, pos, at, marks>>
    PROVE  Exact'
<1>1. UNCHANGED <<tables, text, bounds, marks>> /\ TextEnd' = TextEnd /\ cols' = cols
    BY DEF given, TextEnd
<1>2. \A D \in SUBSET Facts : Deduced(Input, D) /\ SoundIn(D) => SoundIn(D)'
    BY <1>1 DEF SoundIn
<1>3. Sound'
    BY <1>1, <1>2, SoundKept DEF Exact
<1>. QED BY <1>3, ReturnWorks DEF Exact

LEMMA ExtendExact ==
    ASSUME Exact, Inv', NEW piece, IsList(piece), Extend(piece), Agree(TextEnd), TokensWhole'
    PROVE  Exact'
<1>1. Reopened(TextEnd) /\ recordLinks' = recordLinks
    BY ExtendAdds DEF Exact, Extend
<1>2. PICK n : n = TextEnd
    OBVIOUS
<1>3. Reopened(n) /\ Agree(n)
    BY <1>1, <1>2
<1>. QED BY <1>1, <1>3, ExtendSound, ExtendWorks DEF Exact

LEMMA RollbackExact ==
    ASSUME Exact, Inv', ~recordLinks, NEW m \in marks, Rollback(m), Agree(m), TokensWhole'
    PROVE  Exact'
<1>1. Reverted(m) /\ recordLinks' = recordLinks
    BY RollbackCuts DEF Exact, Rollback
<1>2. ~HasRuns
    BY <1>1 DEF Exact, Worked, Ungrown, Reverted
<1>. QED BY <1>1, <1>2, RollbackSound, RollbackWorks DEF Exact

(* The chart begins with the start rule's arms that its gate lets pass,    *)
(* each of which spans nothing.                                            *)
LEMMA InitExact == Init => Exact
<1>. SUFFICES ASSUME Init PROVE Exact
    OBVIOUS
<1>1. Inv /\ Given /\ TextEnd \in Nat
    BY InitHolds, Tabled DEF Inv, Settled, Shape
<1>2. PICK A : A = {a \in ArmsOf(tables.start) : Passes(a, text, 0)}
    OBVIOUS
<1>3. A \subseteq DOMAIN tables.arms
    BY <1>2 DEF ArmsOf
<1>4. /\ bounds = <<>> /\ topped = <<>> /\ pos = 0 /\ at = 1 /\ marks = {TextEnd} /\ (~recordLinks => TextEnd = 0)
      /\ cols = [i \in 0..TextEnd |-> IF i = 0 THEN SeedsOf(A, 0) ELSE <<>>]
      /\ predicted = [i \in 0..TextEnd |-> IF i = 0 THEN {tables.start} ELSE {}]
    BY <1>2 DEF Init, TextEnd, Gated
<1>5. ToSet(SeedsOf(A, 0)) = {<<a, 0, 0>> : a \in A} /\ ToSet(<<>>) = {} /\ DOMAIN <<>> = {}
    BY <1>1, <1>3, SeedsHave DEF ToSet
<1>6. \A i \in 0..TextEnd : ToSet(cols[i]) = IF i = 0 THEN {<<a, 0, 0>> : a \in A} ELSE {}
    <2>. SUFFICES ASSUME NEW i \in 0..TextEnd PROVE ToSet(cols[i]) = IF i = 0 THEN {<<a, 0, 0>> : a \in A} ELSE {}
        OBVIOUS
    <2>1. cols[i] = IF i = 0 THEN SeedsOf(A, 0) ELSE <<>>
        BY <1>4
    <2>. QED BY <1>5, <2>1
<1>7. Sound
    <2>. SUFFICES ASSUME NEW i \in 0..TextEnd, NEW it \in ToSet(cols[i]), NEW D \in SUBSET Facts, Deduced(Input, D)
                  PROVE  <<it, i>> \in D
        BY DEF Sound, Derivable
    <2>1. i = 0
        BY <1>6
    <2>2. PICK a \in A : it = <<a, 0, 0>>
        BY <1>6, <2>1
    <2>3. 0 \in Points
        BY <1>1 DEF Points, TextEnd
    <2>. QED BY <1>3, <2>1, <2>2, <2>3, Follows
<1>8. AllHandled
    <2>. SUFFICES ASSUME NEW i \in 0..TextEnd, NEW k \in DOMAIN cols[i], Behind(i, k) PROVE FALSE
        BY DEF AllHandled
    <2>1. cols[i] \in Seq(Items(i))
        BY <1>1 DEF Inv, Settled, Shape
    <2>2. k \in 1..Len(cols[i]) /\ Len(cols[i]) \in Nat
        BY <2>1, LenProperties
    <2>. QED BY <1>4, <2>2 DEF Behind
<1>9. Scanned
    BY <1>4 DEF Scanned
<1>10. Sown
    <2>. SUFFICES ASSUME NEW i \in 0..TextEnd, NEW r \in predicted[i], NEW a \in ArmsOf(r), Passes(a, text, i)
                  PROVE  <<a, 0, i>> \in ToSet(cols[i])
        BY DEF Sown
    <2>1. i = 0 /\ r = tables.start
        BY <1>4
    <2>2. a \in A
        BY <1>2, <2>1
    <2>. QED BY <1>6, <2>1, <2>2
<1>11. SownWhole
    BY <1>4, <1>5 DEF SownWhole
<1>12. StartPredicted
    BY <1>1, <1>4 DEF StartPredicted
<1>13. TokensWhole
    BY <1>4, <1>5 DEF TokensWhole
<1>14. Ungrown
    BY <1>4 DEF Ungrown
<1>. QED BY <1>1, <1>7, <1>8, <1>9, <1>10, <1>11, <1>12, <1>13, <1>14 DEF Exact, Worked

(* What an exact chart answers when no call runs.                          *)
LEMMA ExactRecognises == Exact => Recognises
<1>. SUFFICES ASSUME Exact, idle PROVE AcceptItems # {} <=> Derives(Input)
    BY DEF Recognises
<1>1. Shape /\ Given /\ Seeded /\ pos = TextEnd /\ at > Len(cols[TextEnd]) /\ TextEnd \in Nat
    BY Tabled DEF Exact, Inv, Settled, Topped, Shape
<1>2. Done
    <2>. SUFFICES ASSUME NEW i \in 0..TextEnd, NEW it \in ToSet(cols[i]) PROVE Handled(it, i)
        BY <1>1 DEF Done, Exact, Worked
    <2>1. cols[i] \in Seq(Items(i)) /\ cols[TextEnd] \in Seq(Items(TextEnd))
        BY <1>1 DEF Shape
    <2>2. PICK k \in DOMAIN cols[i] : it = cols[i][k]
        BY DEF ToSet
    <2>3. Behind(i, k)
        <3>1. at \in Nat
            BY <1>1, <2>1, LenProperties DEF Shape
        <3>2. k \in 1..Len(cols[i]) /\ Len(cols[i]) \in Nat
            BY <2>1, LenProperties
        <3>. QED BY <1>1, <3>1, <3>2 DEF Behind
    <2>. QED BY <2>2, <2>3 DEF Exact, Worked, AllHandled
<1>3. Derives(Input) => AcceptItems # {}
    BY <1>2, DerivesAccepts
<1>4. ASSUME NEW it \in AcceptItems PROVE Derives(Input)
    <2>1. it \in ToSet(cols[TextEnd]) /\ Complete(it) /\ RuleOf(it) = tables.start /\ Origin(it) = 0
        BY <1>4 DEF AcceptItems, TextEnd
    <2>2. it \in Items(TextEnd)
        BY <1>1, <2>1, Queued DEF Shape
    <2>3. it = <<it[1], Len(Body(it[1])), 0>> /\ it[1] \in ArmsOf(tables.start)
        BY <2>1, <2>2 DEF Items, Complete, Origin, RuleOf, ArmsOf
    <2>4. Derivable(Input, <<it, TextEnd>>)
        BY <1>1, <2>1 DEF Exact, Sound
    <2>. QED BY <2>3, <2>4 DEF Derives, TextEnd
<1>. QED BY <1>3, <1>4

LEMMA NextExact == Exact /\ bounds = <<>> /\ [Next]_vars => (Exact /\ bounds = <<>>)'
<1>. SUFFICES ASSUME Exact, bounds = <<>>, [Next]_vars PROVE Exact' /\ bounds' = <<>>
    OBVIOUS
<1>1. Inv' /\ Inv
    BY StepKeeps DEF Exact
<1>2. bounds' = bounds
    <2>1. CASE Close
        BY <2>1 DEF Close, Predict, AwaitScan, SkipEmpty, Jump, CompleteAll, client, given
    <2>2. CASE Scan \/ Return
        BY <2>2 DEF Scan, Return, given
    <2>3. CASE UNCHANGED vars
        BY <2>3 DEF vars, given
    <2>. QED BY <2>1, <2>2, <2>3 DEF Next
<1>3. TokensWhole' /\ DOMAIN bounds = {} /\ bounds' = <<>>
    BY <1>2 DEF TokensWhole
<1>4. CASE Close \/ Scan
    BY <1>3, <1>4, ClosingExact
<1>5. CASE Return \/ UNCHANGED vars
    <2>1. UNCHANGED <<given, cols, predicted, topped, pos, at, marks>>
        BY <1>5 DEF Return, vars
    <2>. QED BY <1>1, <1>3, <2>1, QuietExact
<1>6. ASSUME NEW piece \in Pieces, Extend(piece) PROVE Exact'
    <2>1. IsList(piece)
        BY KernelAssumption
    <2>2. Reopened(TextEnd)
        BY <1>1, <1>6, <2>1, ExtendAdds
    <2>3. Agree(TextEnd)
        BY <1>2, <2>2 DEF Reopened, Agree
    <2>. QED BY <1>1, <1>3, <1>6, <2>1, <2>3, ExtendExact
<1>7. ASSUME NEW m \in Marks, m \in marks, Rollback(m) PROVE Exact'
    <2>1. ~recordLinks
        BY <1>7 DEF Marks
    <2>2. Reverted(m)
        BY <1>1, <1>7, RollbackCuts
    <2>3. Agree(m)
        BY <1>2, <2>2 DEF Reverted, Agree
    <2>. QED BY <1>1, <1>3, <1>7, <2>1, <2>3, RollbackExact
<1>. QED BY <1>3, <1>4, <1>5, <1>6, <1>7 DEF Next

(* Where no literal can be broken, a parse anew derives what this one does.*)
LEMMA BreaksIdle ==
    ASSUME Exact, recordLinks \/ CharGranular
    PROVE  Derives(Input) <=> Derives(Anew)
<1>1. Given /\ TextEnd \in Nat /\ Shape
    BY Tabled DEF Exact, Inv, Settled, Shape
<1>2. \A it, i, j : <<it, i>> \in Facts /\ FacesTerm(it) =>
            (j \in TermEnds(Facing(it), Input, i) <=> j \in TermEnds(Facing(it), Anew, i))
    <2>. SUFFICES ASSUME NEW it, NEW i, NEW j, <<it, i>> \in Facts, FacesTerm(it)
                  PROVE  j \in TermEnds(Facing(it), Input, i) <=> j \in TermEnds(Facing(it), Anew, i)
        OBVIOUS
    <2>1. it \in Items(i) /\ i \in 0..TextEnd /\ ~Complete(it) /\ it[1] \in DOMAIN tables.arms
        BY <1>1, FactParts DEF FacesTerm
    <2>2. Facing(it) \in ToSet(Body(it[1]))
        BY <1>1, <2>1, FacingIs
    <2>3. CASE Facing(it).kind # "literal"
        <3>1. Size(Input) = Len(text) /\ Size(Anew) = Len(text) /\ Input.chars = text /\ Anew.chars = text
              /\ Input.tokens = bounds /\ Anew.tokens = bounds
            BY DEF Input, Anew, Size
        <3>2. Facing(it).kind \in {"class", "run", "token"}
            BY <1>1, <2>1, <2>2, <2>3, KernelAssumption DEF Given, Shape, IsTables, Body, IsSymbol, IsRule, FacesTerm
        <3>3. CASE Facing(it).kind = "class"
            BY <3>1, <3>3 DEF TermEnds
        <3>4. CASE Facing(it).kind = "run"
            BY <3>1, <3>4 DEF TermEnds
        <3>5. CASE Facing(it).kind = "token"
            BY <3>1, <3>5 DEF TermEnds
        <3>. QED BY <3>2, <3>3, <3>4, <3>5
    <2>4. CASE Facing(it).kind = "literal"
        <3>1. recordLinks
            BY <2>1, <2>2, <2>4 DEF CharGranular
        <3>2. marks \subseteq {TextEnd}
            BY <3>1 DEF Exact, Worked, Ungrown
        <3>3. \A k \in (i + 1)..TextEnd : Unbroken(Input, i, k) /\ Unbroken(Anew, i, k)
            BY <1>1, <2>1, <3>2 DEF Unbroken, Input, Anew
        <3>4. Size(Input) = TextEnd /\ Size(Anew) = TextEnd
            BY DEF Size, Input, Anew, TextEnd
        <3>. QED BY <2>4, <3>3, <3>4 DEF TermEnds, Input, Anew
    <2>. QED BY <2>3, <2>4
<1>3. ASSUME NEW D \in SUBSET Facts PROVE Deduced(Input, D) <=> Deduced(Anew, D)
    <2>1. \A f \in D : f = <<f[1], f[2]>>
        BY <1>1, FactIs
    <2>2. \A f \in D : FacesTerm(f[1]) =>
              \A j : j \in TermEnds(Facing(f[1]), Input, f[2]) <=> j \in TermEnds(Facing(f[1]), Anew, f[2])
        BY <1>2, <2>1
    <2>. QED BY <2>2 DEF Deduced
<1>. QED BY <1>3 DEF Derives, Derivable

(* Whatever the tables and the text, and in whatever order the chart is    *)
(* run, grown and cut, it accepts what the tables derive with no literal   *)
(* spelled across a place where the text once ended, and no more.          *)
THEOREM Recognition == Spec => []Recognises
<1>1. Init => Exact /\ bounds = <<>>
    BY InitExact DEF Init
<1>. QED BY <1>1, NextExact, ExactRecognises, PTL DEF Spec

(* Over tables whose terminals are single characters (or runs, over which  *)
(* no chart grows), and in a parse of a whole text over any, what it       *)
(* accepts is what a parse of the same text anew derives.                  *)
THEOREM RecognitionAnew == Spec => []RecognisesAnew
<1>1. Init => Exact /\ bounds = <<>>
    BY InitExact DEF Init
<1>2. Exact => RecognisesAnew
    BY ExactRecognises, BreaksIdle DEF Recognises, RecognisesAnew
<1>. QED BY <1>1, <1>2, NextExact, PTL DEF Spec
=============================================================================
