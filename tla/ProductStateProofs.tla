------------------------- MODULE ProductStateProofs -------------------------
(***************************************************************************)
(* Proof that ProductState's log does what TransactionStack says, for any  *)
(* values, keys and bounds.                                                *)
(***************************************************************************)
EXTENDS ProductState, DataInduction

(* A sequence of n members, whatever they are.                             *)
Row(s, n) == n \in Nat /\ s = [i \in 1..n |-> s[i]]

LEMMA RowSeq ==
    ASSUME NEW s, NEW n, Row(s, n), NEW S, \A i \in 1..n : s[i] \in S
    PROVE  s \in Seq(S) /\ Len(s) = n
<1>1. s \in [1..n -> S]
    BY DEF Row
<1>. QED BY <1>1 DEF Row

LEMMA SeqRow ==
    ASSUME NEW S, NEW s \in Seq(S)
    PROVE  Row(s, Len(s)) /\ \A i \in 1..Len(s) : s[i] \in S
BY LenProperties, ElementOfSeq DEF Row

(* The first a members.                                                    *)
LEMMA RowCut ==
    ASSUME NEW s, NEW n, Row(s, n), NEW a \in 0..n
    PROVE  SubSeq(s, 1, a) = [i \in 1..a |-> s[i]] /\ Row(SubSeq(s, 1, a), a)
<1>. DEFINE S == {s[i] : i \in 1..n}
<1>0. \A i \in 1..n : s[i] \in S
    OBVIOUS
<1>. HIDE DEF S
<1>1. s \in Seq(S) /\ Len(s) = n
    BY <1>0, RowSeq
<1>2. a \in 0..Len(s) /\ a \in Nat /\ n \in Nat
    BY <1>1 DEF Row
<1>3. /\ SubSeq(s, 1, a) \in Seq(S)
      /\ Len(SubSeq(s, 1, a)) = a
      /\ \A i \in 1..a : SubSeq(s, 1, a)[i] = s[i]
    BY <1>1, <1>2, SubSeqProperties
<1>4. Row(SubSeq(s, 1, a), a)
    BY <1>3, SeqRow
<1>5. SubSeq(s, 1, a) = [i \in 1..a |-> s[i]]
    BY <1>3, <1>4 DEF Row
<1>. QED BY <1>4, <1>5

LEMMA RowAppend ==
    ASSUME NEW s, NEW n, Row(s, n), NEW x
    PROVE  /\ Row(Append(s, x), n + 1) /\ Append(s, x)[n + 1] = x
           /\ \A i \in 1..n : Append(s, x)[i] = s[i]
           /\ SubSeq(Append(s, x), 1, n) = s
           /\ Front(Append(s, x)) = s /\ Last(Append(s, x)) = x
           /\ Len(s) = n /\ Len(Append(s, x)) = n + 1
<1>. DEFINE S == {s[i] : i \in 1..n} \cup {x}  t == Append(s, x)
<1>1. s \in Seq(S) /\ Len(s) = n /\ n \in Nat
    BY RowSeq DEF Row
<1>. HIDE DEF S
<1>2. x \in S
    BY DEF S
<1>3. /\ t \in Seq(S) /\ Len(t) = n + 1 /\ t[n + 1] = x
      /\ \A i \in 1..n : t[i] = s[i]
    BY <1>1, <1>2, AppendProperties
<1>. HIDE DEF t
<1>4. Row(t, n + 1)
    BY <1>3, SeqRow
<1>5. SubSeq(t, 1, n) = [i \in 1..n |-> t[i]]
    BY <1>1, <1>4, RowCut
<1>6. SubSeq(t, 1, n) = s
    BY <1>3, <1>5 DEF Row
<1>7. Front(t) = s
    BY <1>1, <1>3, <1>6 DEF Front
<1>8. Last(t) = x
    BY <1>3 DEF Last
<1>. QED BY <1>1, <1>3, <1>4, <1>6, <1>7, <1>8 DEF t

(* t is the first d members of r.                                          *)
Begins(t, r, d) == Row(t, d) /\ \A i \in 1..d : t[i] = r[i]

LEMMA BeginsCut ==
    ASSUME NEW r, NEW c, Row(r, c), NEW d \in 0..c
    PROVE  Begins(SubSeq(r, 1, d), r, d) /\ \A t : Begins(t, r, d) => t = SubSeq(r, 1, d)
<1>. DEFINE z == SubSeq(r, 1, d)
<1>1. z = [i \in 1..d |-> r[i]] /\ Row(z, d)
    BY RowCut
<1>. HIDE DEF z
<1>2. \A i \in 1..d : z[i] = r[i]
    BY <1>1
<1>3. \A t : Begins(t, r, d) => t = z
    BY <1>1 DEF Begins, Row
<1>. QED BY <1>1, <1>2, <1>3 DEF z, Begins

(* One member of a sequence changes, and of its first d.                   *)
LEMMA RowPatch ==
    ASSUME NEW r, NEW c, Row(r, c), NEW d \in 0..c, NEW t, Begins(t, r, d), NEW n \in 1..d, NEW x
    PROVE  /\ t[n] = r[n] /\ Row([r EXCEPT ![n] = x], c)
           /\ Begins([t EXCEPT ![n] = x], [r EXCEPT ![n] = x], d)
<1>. DEFINE z == [r EXCEPT ![n] = x]  y == [t EXCEPT ![n] = x]
<1>1. Row(z, c) /\ c \in Nat /\ \A i \in 1..c : z[i] = IF i = n THEN x ELSE r[i]
    BY DEF Row
<1>2. Row(y, d) /\ \A i \in 1..d : y[i] = IF i = n THEN x ELSE t[i]
    BY DEF Begins, Row
<1>3. \A i \in 1..d : i \in 1..c
    BY <1>1
<1>. HIDE DEF z, y
<1>4. Begins(y, z, d)
    BY <1>1, <1>2, <1>3 DEF Begins
<1>. QED BY <1>1, <1>4 DEF z, y, Begins

-----------------------------------------------------------------------------
(* A state of the builders, shaped: p sequences and q mappings.            *)
State(s, m, o) == [sequences |-> s, mappings |-> m, overwritten |-> o]
Shaped(w, p, q) ==
    /\ w = State(w.sequences, w.mappings, w.overwritten)
    /\ Row(w.sequences, p) /\ Row(w.mappings, q)

(* The builders that are older than a mark of a and b.                     *)
Cut(w, a, b) == [w EXCEPT !.sequences = SubSeq(@, 1, a), !.mappings = SubSeq(@, 1, b)]

(* A mutation of a builder among a sequences and b mappings.               *)
Fits(e, a, b) ==
    \/ e[1] = "append" /\ e[2] \in 1..a
    \/ e[1] \in {"insert", "replace"} /\ e[2] \in 1..b

LEMMA Fields ==
    ASSUME NEW s, NEW m, NEW o
    PROVE  State(s, m, o).sequences = s /\ State(s, m, o).mappings = m /\ State(s, m, o).overwritten = o
BY DEF State

LEMMA Patched ==
    ASSUME NEW s, NEW m, NEW o, NEW x
    PROVE  /\ [State(s, m, o) EXCEPT !.sequences = x] = State(x, m, o)
           /\ [State(s, m, o) EXCEPT !.mappings = x] = State(s, x, o)
           /\ [State(s, m, o) EXCEPT !.overwritten = x] = State(s, m, x)
BY DEF State

LEMMA CutState ==
    ASSUME NEW s, NEW m, NEW o, NEW a, NEW b
    PROVE  Cut(State(s, m, o), a, b) = State(SubSeq(s, 1, a), SubSeq(m, 1, b), o)
<1>. DEFINE r == State(s, m, o)  sa == SubSeq(s, 1, a)  mb == SubSeq(m, 1, b)
<1>1. r.sequences = s /\ r.mappings = m
    BY Fields
<1>. HIDE DEF r
<1>2. Cut(r, a, b) = [[r EXCEPT !.sequences = sa] EXCEPT !.mappings = mb]
    <2>1. Cut(r, a, b) = [[r EXCEPT !.sequences = SubSeq(r.sequences, 1, a)] EXCEPT !.mappings = SubSeq(r.mappings, 1, b)]
        BY DEF Cut
    <2>. HIDE DEF sa, mb
    <2>2. SubSeq(r.sequences, 1, a) = sa /\ SubSeq(r.mappings, 1, b) = mb
        BY <1>1 DEF sa, mb
    <2>. QED BY <2>1, <2>2
<1>. HIDE DEF sa, mb
<1>3. [[r EXCEPT !.sequences = sa] EXCEPT !.mappings = mb] = State(sa, mb, o)
    <2>1. [r EXCEPT !.sequences = sa] = State(sa, m, o)
        BY Patched DEF r
    <2>2. [State(sa, m, o) EXCEPT !.mappings = mb] = State(sa, mb, o)
        BY Patched
    <2>. QED BY <2>1, <2>2
<1>. QED BY <1>2, <1>3 DEF r, sa, mb

LEMMA UndoneAppend ==
    ASSUME NEW s, NEW m, NEW o, NEW n
    PROVE  Undone(State(s, m, o), "append", n) = State([s EXCEPT ![n] = Front(s[n])], m, o)
BY DEF State, Undone

LEMMA UndoneInsert ==
    ASSUME NEW s, NEW m, NEW o, NEW n
    PROVE  Undone(State(s, m, o), "insert", n) = State(s, [m EXCEPT ![n] = Popped(m[n])], o)
BY DEF State, Undone

LEMMA UndoneReplace ==
    ASSUME NEW s, NEW m, NEW o, NEW n
    PROVE  Undone(State(s, m, o), "replace", n) = State(s, [m EXCEPT ![n] = PutBack(m[n], Last(o))], Front(o))
BY DEF State, Undone

LEMMA CutIs ==
    ASSUME NEW s, NEW m, NEW o, NEW p, NEW q, Row(s, p), Row(m, q), NEW a \in 0..p, NEW b \in 0..q
    PROVE  /\ Shaped(State(s, m, o), p, q) /\ Shaped(Cut(State(s, m, o), a, b), a, b)
           /\ \A sa, mb : Begins(sa, s, a) /\ Begins(mb, m, b) => Cut(State(s, m, o), a, b) = State(sa, mb, o)
<1>. DEFINE sc == SubSeq(s, 1, a)  mc == SubSeq(m, 1, b)
<1>1. Cut(State(s, m, o), a, b) = State(sc, mc, o)
    BY CutState
<1>2. /\ Row(sc, a) /\ \A sa : Begins(sa, s, a) => sa = sc
      /\ Row(mc, b) /\ \A mb : Begins(mb, m, b) => mb = mc
    BY BeginsCut DEF Begins
<1>. HIDE DEF sc, mc
<1>3. Shaped(State(s, m, o), p, q)
    BY Fields DEF Shaped
<1>4. Shaped(State(sc, mc, o), a, b)
    BY <1>2, Fields DEF Shaped
<1>. QED BY <1>1, <1>2, <1>3, <1>4

LEMMA CutTo ==
    ASSUME NEW s, NEW m, NEW o, NEW p, NEW q, Row(s, p), Row(m, q), NEW a \in 0..p, NEW b \in 0..q,
           NEW sa, Begins(sa, s, a), NEW mb, Begins(mb, m, b)
    PROVE  Cut(State(s, m, o), a, b) = State(sa, mb, o)
<1>1. sa = SubSeq(s, 1, a) /\ mb = SubSeq(m, 1, b)
    BY BeginsCut
<1>2. Cut(State(s, m, o), a, b) = State(SubSeq(s, 1, a), SubSeq(m, 1, b), o)
    BY CutState
<1>. QED BY <1>1, <1>2

(* Undoing a mutation keeps the builders there are, and is the same before *)
(* and after the younger ones are cut off.                                 *)
LEMMA UndoneCut ==
    ASSUME NEW w, NEW p, NEW q, Shaped(w, p, q), NEW a \in 0..p, NEW b \in 0..q, NEW e, Fits(e, a, b)
    PROVE  /\ Shaped(Undone(w, e[1], e[2]), p, q)
           /\ Undone(Cut(w, a, b), e[1], e[2]) = Cut(Undone(w, e[1], e[2]), a, b)
<1>. DEFINE s == w.sequences  m == w.mappings  o == w.overwritten  n == e[2]
            sa == SubSeq(s, 1, a)  mb == SubSeq(m, 1, b)
<1>1. w = State(s, m, o) /\ Row(s, p) /\ Row(m, q) /\ p \in Nat /\ q \in Nat
    BY DEF Shaped, Row
<1>2. Begins(sa, s, a) /\ Begins(mb, m, b)
    BY <1>1, BeginsCut
<1>. HIDE DEF s, m, o, sa, mb
<1>3. Cut(w, a, b) = State(sa, mb, o)
    BY <1>1, <1>2, CutIs
<1>4. CASE e[1] = "append"
    <2>. DEFINE x == Front(s[n])
    <2>1. n \in 1..a
        BY <1>4 DEF Fits
    <2>2. x = Front(sa[n])
        <3>1. sa[n] = s[n]
            BY <1>2, <2>1 DEF Begins
        <3>. QED BY <3>1
    <2>. HIDE DEF x
    <2>3. Row([s EXCEPT ![n] = x], p) /\ Begins([sa EXCEPT ![n] = x], [s EXCEPT ![n] = x], a)
        BY <1>1, <1>2, <2>1, RowPatch
    <2>4. Undone(w, "append", n) = State([s EXCEPT ![n] = x], m, o)
        BY <1>1, UndoneAppend DEF x
    <2>5. Undone(Cut(w, a, b), "append", n) = State([sa EXCEPT ![n] = x], mb, o)
        BY <1>3, <2>2, UndoneAppend
    <2>. QED BY <1>1, <1>2, <1>4, <2>3, <2>4, <2>5, CutIs
<1>5. CASE e[1] = "insert"
    <2>. DEFINE x == Popped(m[n])
    <2>1. n \in 1..b
        BY <1>5 DEF Fits
    <2>2. x = Popped(mb[n])
        <3>1. mb[n] = m[n]
            BY <1>2, <2>1 DEF Begins
        <3>. QED BY <3>1
    <2>. HIDE DEF x
    <2>3. Row([m EXCEPT ![n] = x], q) /\ Begins([mb EXCEPT ![n] = x], [m EXCEPT ![n] = x], b)
        BY <1>1, <1>2, <2>1, RowPatch
    <2>4. Undone(w, "insert", n) = State(s, [m EXCEPT ![n] = x], o)
        BY <1>1, UndoneInsert DEF x
    <2>5. Undone(Cut(w, a, b), "insert", n) = State(sa, [mb EXCEPT ![n] = x], o)
        BY <1>3, <2>2, UndoneInsert
    <2>. QED BY <1>1, <1>2, <1>5, <2>3, <2>4, <2>5, CutIs
<1>6. CASE e[1] = "replace"
    <2>. DEFINE x == PutBack(m[n], Last(o))
    <2>1. n \in 1..b
        BY <1>6 DEF Fits
    <2>2. x = PutBack(mb[n], Last(o))
        <3>1. mb[n] = m[n]
            BY <1>2, <2>1 DEF Begins
        <3>. QED BY <3>1
    <2>. HIDE DEF x
    <2>3. Row([m EXCEPT ![n] = x], q) /\ Begins([mb EXCEPT ![n] = x], [m EXCEPT ![n] = x], b)
        BY <1>1, <1>2, <2>1, RowPatch
    <2>4. Undone(w, "replace", n) = State(s, [m EXCEPT ![n] = x], Front(o))
        BY <1>1, UndoneReplace DEF x
    <2>5. Undone(Cut(w, a, b), "replace", n) = State(sa, [mb EXCEPT ![n] = x], Front(o))
        BY <1>3, <2>2, UndoneReplace
    <2>. QED BY <1>1, <1>2, <1>6, <2>3, <2>4, <2>5, CutIs
<1>. QED BY <1>4, <1>5, <1>6 DEF Fits

(* A cut of a cut, and one that cuts nothing.                              *)
LEMMA CutCut ==
    ASSUME NEW w, NEW p, NEW q, Shaped(w, p, q), NEW a \in 0..p, NEW b \in 0..q, NEW c \in 0..a, NEW d \in 0..b
    PROVE  Cut(Cut(w, a, b), c, d) = Cut(w, c, d) /\ Cut(w, p, q) = w /\ Shaped(Cut(w, a, b), a, b)
<1>. DEFINE s == w.sequences  m == w.mappings  o == w.overwritten
            sa == SubSeq(s, 1, a)  mb == SubSeq(m, 1, b)  sc == SubSeq(sa, 1, c)  md == SubSeq(mb, 1, d)
<1>1. w = State(s, m, o) /\ Row(s, p) /\ Row(m, q) /\ p \in Nat /\ q \in Nat /\ c \in 0..p /\ d \in 0..q
    BY DEF Shaped, Row
<1>2. Begins(sa, s, a) /\ Begins(mb, m, b)
    BY <1>1, BeginsCut
<1>3. Begins(sc, sa, c) /\ Begins(md, mb, d)
    BY <1>2, BeginsCut DEF Begins
<1>. HIDE DEF s, m, o, sa, mb, sc, md
<1>4. Begins(sc, s, c) /\ Begins(md, m, d)
    BY <1>2, <1>3 DEF Begins
<1>5. Begins(s, s, p) /\ Begins(m, m, q) /\ p \in 0..p /\ q \in 0..q
    BY <1>1 DEF Begins
<1>6. Cut(w, a, b) = State(sa, mb, o) /\ Cut(w, c, d) = State(sc, md, o) /\ Cut(w, p, q) = w
    BY <1>1, <1>2, <1>4, <1>5, CutIs
<1>7. Row(sa, a) /\ Row(mb, b)
    BY <1>2 DEF Begins
<1>9. Cut(State(sa, mb, o), c, d) = State(sc, md, o)
    <2>1. /\ Cut(State(sa, mb, o), c, d) = State(SubSeq(sa, 1, c), SubSeq(mb, 1, d), o)
          /\ sc = SubSeq(sa, 1, c) /\ md = SubSeq(mb, 1, d)
        BY CutState DEF sc, md
    <2>. QED BY <2>1
<1>8. Shaped(Cut(w, a, b), a, b)
    BY <1>1, CutIs
<1>. QED BY <1>6, <1>8, <1>9

-----------------------------------------------------------------------------
(* The log undone down to a length: UndoneTo of any state and any log.     *)
Rewinds(w, lg, l, F) ==
    F = [n \in l..Len(lg) |-> IF n = Len(lg) THEN w ELSE Undone(F[n + 1], lg[n + 1][1], lg[n + 1][2])]
Rewound(w, lg, l) == (CHOOSE F : Rewinds(w, lg, l, F))[l]

LEMMA RewindsExists ==
    ASSUME NEW w, NEW lg, Len(lg) \in Nat, NEW l \in 0..Len(lg)
    PROVE  \E F : Rewinds(w, lg, l, F)
<1>. DEFINE N == Len(lg)  Good == {j \in Nat : j <= N => \E F : Rewinds(w, lg, N - j, F)}
            Back(n, x) == Undone(x, lg[n + 1][1], lg[n + 1][2])
<1>0. N \in Nat /\ l \in 0..N
    OBVIOUS
<1>1. \A k, F : Rewinds(w, lg, k, F) <=> F = [n \in k..N |-> IF n = N THEN w ELSE Back(n, F[n + 1])]
    BY DEF Rewinds
<1>. HIDE DEF N, Back
<1>2. 0 \in Good
    <2>. DEFINE F == [n \in N..N |-> w]
    <2>1. F = [n \in N..N |-> IF n = N THEN w ELSE Back(n, F[n + 1])]
        BY <1>0
    <2>. HIDE DEF F
    <2>2. Rewinds(w, lg, N, F)
        BY <1>1, <2>1
    <2>3. N - 0 = N
        BY <1>0
    <2>. QED BY <2>2, <2>3
<1>3. ASSUME NEW j \in Nat, j \in Good PROVE j + 1 \in Good
    <2>. SUFFICES ASSUME j + 1 <= N PROVE \E F : Rewinds(w, lg, N - (j + 1), F)
        OBVIOUS
    <2>. DEFINE k == N - j
    <2>1. k \in 1..N /\ N - (j + 1) = k - 1 /\ k - 1 \in Nat
        BY <1>0
    <2>2. PICK F : Rewinds(w, lg, k, F)
        BY <1>0, <1>3, <2>1
    <2>. HIDE DEF k
    <2>. DEFINE first == Back(k - 1, F[k])
                G == [n \in (k - 1)..N |-> IF n = k - 1 THEN first ELSE F[n]]
    <2>3. /\ G[k - 1] = first /\ k - 1 # N /\ (k - 1) + 1 = k
          /\ \A n \in k..N : G[n] = F[n] /\ n # k - 1 /\ (n # N => n + 1 \in k..N)
          /\ \A n \in (k - 1)..N : n = k - 1 \/ n \in k..N
          /\ k \in k..N
        BY <1>0, <2>1
    <2>4. \A n \in k..N : F[n] = IF n = N THEN w ELSE Back(n, F[n + 1])
        <3>1. F = [n \in k..N |-> IF n = N THEN w ELSE Back(n, F[n + 1])]
            BY <1>1, <2>2
        <3>. HIDE DEF Good
        <3>. QED BY ONLY <3>1
    <2>5. G = [n \in (k - 1)..N |-> G[n]]
        OBVIOUS
    <2>. HIDE DEF G
    <2>6. \A n \in (k - 1)..N : G[n] = IF n = N THEN w ELSE Back(n, G[n + 1])
        BY <2>3, <2>4
    <2>7. G = [n \in (k - 1)..N |-> IF n = N THEN w ELSE Back(n, G[n + 1])]
        BY <2>5, <2>6
    <2>8. Rewinds(w, lg, k - 1, G)
        BY <1>1, <2>7
    <2>. QED BY <2>1, <2>8
<1>4. \A j \in Nat : j \in Good
    <2>. HIDE DEF Good
    <2>. QED BY <1>2, <1>3, Climb
<1>5. N - l \in Nat /\ N - l <= N /\ N - (N - l) = l
    BY <1>0
<1>. QED BY <1>4, <1>5

LEMMA RewindsOnce ==
    ASSUME NEW w, NEW lg, Len(lg) \in Nat, NEW l \in 0..Len(lg), NEW k \in l..Len(lg),
           NEW F, Rewinds(w, lg, l, F), NEW G, Rewinds(w, lg, k, G)
    PROVE  F[k] = G[k]
<1>. DEFINE N == Len(lg)  Good == {j \in Nat : j <= N - k => F[N - j] = G[N - j]}
            Back(n, x) == Undone(x, lg[n + 1][1], lg[n + 1][2])
<1>0. N \in Nat /\ l \in 0..N /\ k \in l..N
    OBVIOUS
<1>1. /\ \A n \in l..N : F[n] = IF n = N THEN w ELSE Back(n, F[n + 1])
      /\ \A n \in k..N : G[n] = IF n = N THEN w ELSE Back(n, G[n + 1])
    BY DEF Rewinds
<1>. HIDE DEF N, Back
<1>2. 0 \in Good
    <2>1. N - 0 = N /\ N \in l..N /\ N \in k..N
        BY <1>0
    <2>2. F[N] = w /\ G[N] = w
        BY <1>1, <2>1
    <2>. QED BY <2>1, <2>2
<1>3. ASSUME NEW j \in Nat, j \in Good PROVE j + 1 \in Good
    <2>. SUFFICES ASSUME j + 1 <= N - k PROVE F[N - (j + 1)] = G[N - (j + 1)]
        OBVIOUS
    <2>. DEFINE n == N - (j + 1)
    <2>1. n \in k..N /\ n \in l..N /\ n # N /\ n + 1 = N - j /\ j <= N - k
        BY <1>0
    <2>2. F[N - j] = G[N - j]
        BY <1>3, <2>1
    <2>. HIDE DEF n
    <2>3. F[n] = Back(n, F[n + 1]) /\ G[n] = Back(n, G[n + 1])
        BY <1>1, <2>1
    <2>. QED BY <2>1, <2>2, <2>3 DEF n
<1>4. \A j \in Nat : j \in Good
    <2>. HIDE DEF Good
    <2>. QED BY <1>2, <1>3, Climb
<1>5. N - k \in Nat /\ N - (N - k) = k
    BY <1>0
<1>. QED BY <1>4, <1>5

Unwinds(w, lg) ==
    /\ Rewound(w, lg, Len(lg)) = w
    /\ \A n \in 0..(Len(lg) - 1) :
        Rewound(w, lg, n) = Undone(Rewound(w, lg, n + 1), lg[n + 1][1], lg[n + 1][2])

LEMMA RewoundIs == ASSUME NEW w, NEW lg, Len(lg) \in Nat PROVE Unwinds(w, lg)
<1>. DEFINE N == Len(lg)  The(l) == CHOOSE F : Rewinds(w, lg, l, F)
<1>1. \A l \in 0..N : Rewinds(w, lg, l, The(l)) /\ Rewound(w, lg, l) = The(l)[l]
    BY RewindsExists DEF Rewound
<1>. HIDE DEF The
<1>2. Rewound(w, lg, N) = w
    <2>1. N \in 0..N
        OBVIOUS
    <2>. QED BY <1>1, <2>1 DEF Rewinds
<1>3. ASSUME NEW n \in 0..(N - 1)
      PROVE  Rewound(w, lg, n) = Undone(Rewound(w, lg, n + 1), lg[n + 1][1], lg[n + 1][2])
    <2>1. n \in 0..N /\ n + 1 \in 0..N /\ n + 1 \in n..N /\ n \in n..N /\ n # N
        OBVIOUS
    <2>2. Rewinds(w, lg, n, The(n)) /\ Rewinds(w, lg, n + 1, The(n + 1))
        BY <1>1, <2>1
    <2>3. The(n)[n + 1] = The(n + 1)[n + 1]
        BY <2>1, <2>2, RewindsOnce
    <2>4. The(n)[n] = Undone(The(n)[n + 1], lg[n + 1][1], lg[n + 1][2])
        BY <2>1, <2>2 DEF Rewinds
    <2>. QED BY <1>1, <2>1, <2>3, <2>4
<1>. QED BY <1>2, <1>3 DEF Unwinds

(* A mutation and its log entry: what the entry undoes, nothing sees.      *)
LEMMA RewoundAppend ==
    ASSUME NEW w, NEW v, NEW lg, NEW e, Row(lg, Len(lg)), Undone(v, e[1], e[2]) = w, NEW n \in 0..Len(lg)
    PROVE  Rewound(v, Append(lg, e), n) = Rewound(w, lg, n)
<1>. DEFINE N == Len(lg)  more == Append(lg, e)
            Good == {j \in Nat : j <= N => Rewound(v, more, N - j) = Rewound(w, lg, N - j)}
<1>1. /\ N \in Nat /\ Len(more) = N + 1 /\ N + 1 \in Nat /\ (N + 1) - 1 = N
      /\ more[N + 1] = e /\ \A i \in 1..N : more[i] = lg[i]
    BY RowAppend DEF Row
<1>. HIDE DEF more
<1>2. /\ Rewound(v, more, N + 1) = v
      /\ \A i \in 0..N : Rewound(v, more, i) = Undone(Rewound(v, more, i + 1), more[i + 1][1], more[i + 1][2])
    <2>1. Unwinds(v, more)
        BY <1>1, RewoundIs
    <2>. QED BY <1>1, <2>1 DEF Unwinds
<1>3. /\ Rewound(w, lg, N) = w
      /\ \A i \in 0..(N - 1) : Rewound(w, lg, i) = Undone(Rewound(w, lg, i + 1), lg[i + 1][1], lg[i + 1][2])
    <2>1. Unwinds(w, lg)
        BY <1>1, RewoundIs
    <2>. QED BY <2>1 DEF Unwinds
<1>. HIDE DEF N
<1>4. 0 \in Good
    <2>1. N - 0 = N /\ N \in 0..N
        BY <1>1
    <2>2. Rewound(v, more, N) = Undone(v, e[1], e[2])
        BY <1>1, <1>2, <2>1
    <2>. QED BY <1>3, <2>1, <2>2
<1>5. ASSUME NEW j \in Nat, j \in Good PROVE j + 1 \in Good
    <2>. SUFFICES ASSUME j + 1 <= N PROVE Rewound(v, more, N - (j + 1)) = Rewound(w, lg, N - (j + 1))
        OBVIOUS
    <2>. DEFINE i == N - (j + 1)
    <2>1. i \in 0..(N - 1) /\ i \in 0..N /\ i + 1 = N - j /\ j <= N /\ i + 1 \in 1..N
        BY <1>1
    <2>2. Rewound(v, more, N - j) = Rewound(w, lg, N - j)
        BY <1>5, <2>1
    <2>. HIDE DEF i
    <2>3. /\ Rewound(v, more, i) = Undone(Rewound(v, more, i + 1), more[i + 1][1], more[i + 1][2])
          /\ Rewound(w, lg, i) = Undone(Rewound(w, lg, i + 1), lg[i + 1][1], lg[i + 1][2])
        BY <1>2, <1>3, <2>1
    <2>4. more[i + 1] = lg[i + 1]
        BY <1>1, <2>1
    <2>. QED BY <2>1, <2>2, <2>3, <2>4 DEF i
<1>6. \A j \in Nat : j \in Good
    <2>. HIDE DEF Good
    <2>. QED BY <1>4, <1>5, Climb
<1>7. N - n \in Nat /\ N - (N - n) = n /\ N - n <= N
    BY <1>1 DEF N
<1>. QED BY <1>6, <1>7 DEF more

AllFit(lg, p, q) == Row(lg, Len(lg)) /\ \A i \in 1..Len(lg) : Fits(lg[i], p, q)

(* Undone in two goes, and the builders younger than a mark cut in between.*)
LEMMA RewoundCut ==
    ASSUME NEW w, NEW p, NEW q, Shaped(w, p, q), NEW a \in 0..p, NEW b \in 0..q,
           NEW lg, AllFit(lg, a, b), NEW n \in 0..Len(lg)
    PROVE  Shaped(Rewound(w, lg, n), p, q) /\ Rewound(Cut(w, a, b), lg, n) = Cut(Rewound(w, lg, n), a, b)
<1>. DEFINE N == Len(lg)  R(i) == Rewound(w, lg, i)  C(i) == Rewound(Cut(w, a, b), lg, i)
            Good == {j \in Nat : j <= N => Shaped(R(N - j), p, q) /\ C(N - j) = Cut(R(N - j), a, b)}
<1>1. N \in Nat
    BY DEF AllFit, Row
<1>2. /\ R(N) = w /\ C(N) = Cut(w, a, b)
      /\ \A i \in 0..(N - 1) : /\ R(i) = Undone(R(i + 1), lg[i + 1][1], lg[i + 1][2])
                              /\ C(i) = Undone(C(i + 1), lg[i + 1][1], lg[i + 1][2])
    <2>. DEFINE x == Cut(w, a, b)
    <2>1. Unwinds(w, lg) /\ Unwinds(x, lg)
        BY <1>1, RewoundIs
    <2>. HIDE DEF Good, x
    <2>. QED BY <2>1 DEF Unwinds, x
<1>3. n \in 0..N /\ \A i \in 1..N : Fits(lg[i], a, b)
    BY DEF AllFit
<1>. HIDE DEF N, R, C
<1>4. 0 \in Good
    <2>1. N - 0 = N
        BY <1>1
    <2>. QED BY <1>2, <2>1
<1>5. ASSUME NEW j \in Nat, j \in Good PROVE j + 1 \in Good
    <2>. SUFFICES ASSUME j + 1 <= N
                  PROVE  Shaped(R(N - (j + 1)), p, q) /\ C(N - (j + 1)) = Cut(R(N - (j + 1)), a, b)
        OBVIOUS
    <2>. DEFINE i == N - (j + 1)
    <2>1. i \in 0..(N - 1) /\ i + 1 = N - j /\ j <= N /\ i + 1 \in 1..N
        BY <1>1
    <2>2. Shaped(R(N - j), p, q) /\ C(N - j) = Cut(R(N - j), a, b)
        BY <1>5, <2>1
    <2>. HIDE DEF i
    <2>3. /\ R(i) = Undone(R(i + 1), lg[i + 1][1], lg[i + 1][2])
          /\ C(i) = Undone(C(i + 1), lg[i + 1][1], lg[i + 1][2])
        BY <1>2, <2>1
    <2>4. Fits(lg[i + 1], a, b) /\ Shaped(R(i + 1), p, q) /\ C(i + 1) = Cut(R(i + 1), a, b)
        BY <1>3, <2>1, <2>2
    <2>5. Shaped(R(i), p, q) /\ C(i) = Cut(R(i), a, b)
        BY <2>3, <2>4, UndoneCut
    <2>. QED BY <2>5 DEF i
<1>6. \A j \in Nat : j \in Good
    <2>. HIDE DEF Good
    <2>. QED BY <1>4, <1>5, Climb
<1>7. N - n \in Nat /\ N - (N - n) = n /\ N - n <= N
    BY <1>1, <1>3
<1>8. Shaped(R(n), p, q) /\ C(n) = Cut(R(n), a, b)
    BY <1>6, <1>7
<1>. QED BY <1>8 DEF R, C

LEMMA RewoundAgain ==
    ASSUME NEW w, NEW lg, Row(lg, Len(lg)), NEW m \in 0..Len(lg), NEW n \in 0..m
    PROVE  Rewound(Rewound(w, lg, m), SubSeq(lg, 1, m), n) = Rewound(w, lg, n)
<1>. DEFINE N == Len(lg)  less == SubSeq(lg, 1, m)  R(i) == Rewound(w, lg, i)  C(i) == Rewound(R(m), less, i)
            Good == {j \in Nat : j <= m => C(m - j) = R(m - j)}
<1>1. N \in Nat /\ m \in 0..N /\ n \in 0..m
    BY DEF Row
<1>2. Begins(less, lg, m)
    BY BeginsCut
<1>3. Len(less) = m
    <2>. DEFINE S == {less[i] : i \in 1..m}
    <2>1. \A i \in 1..m : less[i] \in S
        OBVIOUS
    <2>. HIDE DEF S
    <2>. QED BY <1>2, <2>1, RowSeq DEF Begins
<1>4. /\ C(m) = R(m)
      /\ \A i \in 0..(m - 1) : C(i) = Undone(C(i + 1), less[i + 1][1], less[i + 1][2])
    <2>. DEFINE x == R(m)
    <2>. HIDE DEF x, less
    <2>1. Len(less) \in Nat
        BY <1>1, <1>3
    <2>2. Unwinds(x, less)
        BY <2>1, RewoundIs
    <2>. QED BY <1>3, <2>2 DEF Unwinds, x
<1>5. \A i \in 0..(N - 1) : R(i) = Undone(R(i + 1), lg[i + 1][1], lg[i + 1][2])
    <2>1. Unwinds(w, lg)
        BY <1>1, RewoundIs
    <2>. QED BY <2>1 DEF Unwinds
<1>6. \A i \in 1..m : less[i] = lg[i]
    BY <1>2 DEF Begins
<1>. HIDE DEF N, R, C, less
<1>7. 0 \in Good
    <2>1. m - 0 = m
        BY <1>1
    <2>. QED BY <1>4, <2>1
<1>8. ASSUME NEW j \in Nat, j \in Good PROVE j + 1 \in Good
    <2>. SUFFICES ASSUME j + 1 <= m PROVE C(m - (j + 1)) = R(m - (j + 1))
        OBVIOUS
    <2>. DEFINE i == m - (j + 1)
    <2>1. i \in 0..(m - 1) /\ i \in 0..(N - 1) /\ i + 1 = m - j /\ j <= m /\ i + 1 \in 1..m
        BY <1>1
    <2>2. C(m - j) = R(m - j)
        BY <1>8, <2>1
    <2>. HIDE DEF i
    <2>3. less[i + 1] = lg[i + 1] /\ C(i + 1) = R(i + 1)
        BY <1>6, <2>1, <2>2
    <2>4. C(i) = R(i)
        BY <1>4, <1>5, <2>1, <2>3
    <2>. QED BY <2>4 DEF i
<1>9. \A j \in Nat : j \in Good
    <2>. HIDE DEF Good
    <2>. QED BY <1>7, <1>8, Climb
<1>10. m - n \in Nat /\ m - (m - n) = n /\ m - n <= m
    BY <1>1
<1>. QED BY <1>9, <1>10 DEF C, R, less

-----------------------------------------------------------------------------
(* What a mark saw, of any state and any log, and how what happens after   *)
(* the mark leaves it: a logged mutation, a builder begun, and the return  *)
(* to a later mark.                                                        *)
At(w, lg, mark) == Cut(Rewound(w, lg, mark.mutations), mark.sequences, mark.mappings)
Fitting(mark, lg, p, q) ==
    /\ mark.mutations \in 0..Len(lg) /\ mark.sequences \in 0..p /\ mark.mappings \in 0..q
    /\ \A i \in 1..mark.mutations : Fits(lg[i], mark.sequences, mark.mappings)

LEMMA AtAppend ==
    ASSUME NEW w, NEW v, NEW lg, NEW e, Row(lg, Len(lg)), Undone(v, e[1], e[2]) = w,
           NEW mark, mark.mutations \in 0..Len(lg)
    PROVE  At(v, Append(lg, e), mark) = At(w, lg, mark)
BY RewoundAppend DEF At

LEMMA AtGrown ==
    ASSUME NEW v, NEW p, NEW q, Shaped(v, p, q), NEW a \in 0..p, NEW b \in 0..q,
           NEW lg, AllFit(lg, a, b), NEW mark, Fitting(mark, lg, a, b)
    PROVE  At(v, lg, mark) = At(Cut(v, a, b), lg, mark)
<1>. DEFINE n == mark.mutations  c == mark.sequences  d == mark.mappings  x == Rewound(v, lg, n)
<1>1. n \in 0..Len(lg) /\ c \in 0..a /\ d \in 0..b /\ Row(lg, Len(lg))
    BY DEF Fitting, AllFit
<1>. HIDE DEF n, c, d
<1>2. Shaped(x, p, q) /\ Rewound(Cut(v, a, b), lg, n) = Cut(x, a, b)
    BY <1>1, RewoundCut
<1>. HIDE DEF x
<1>3. Cut(Cut(x, a, b), c, d) = Cut(x, c, d)
    BY <1>1, <1>2, CutCut
<1>. QED BY <1>2, <1>3 DEF At, n, c, d, x

LEMMA AtNow ==
    ASSUME NEW w, NEW p, NEW q, Shaped(w, p, q), NEW lg, Len(lg) \in Nat,
           NEW mark, mark.mutations = Len(lg), mark.sequences = p, mark.mappings = q
    PROVE  At(w, lg, mark) = w
<1>1. Rewound(w, lg, Len(lg)) = w
    BY RewoundIs DEF Unwinds
<1>2. p \in 0..p /\ q \in 0..q
    BY DEF Shaped, Row
<1>3. Cut(w, p, q) = w
    BY <1>2, CutCut
<1>. QED BY <1>1, <1>3 DEF At

LEMMA AtRolled ==
    ASSUME NEW w, NEW p, NEW q, Shaped(w, p, q), NEW lg, AllFit(lg, p, q), NEW top, Fitting(top, lg, p, q)
    PROVE  /\ Shaped(At(w, lg, top), top.sequences, top.mappings)
           /\ AllFit(SubSeq(lg, 1, top.mutations), top.sequences, top.mappings)
           /\ Len(SubSeq(lg, 1, top.mutations)) = top.mutations
           /\ Begins(SubSeq(lg, 1, top.mutations), lg, top.mutations)
           /\ \A mark : /\ mark.mutations \in 0..top.mutations
                        /\ mark.sequences \in 0..top.sequences /\ mark.mappings \in 0..top.mappings
                => At(At(w, lg, top), SubSeq(lg, 1, top.mutations), mark) = At(w, lg, mark)
<1>. DEFINE m == top.mutations  a == top.sequences  b == top.mappings
            x == Rewound(w, lg, m)  less == SubSeq(lg, 1, m)
<1>1. m \in 0..Len(lg) /\ a \in 0..p /\ b \in 0..q /\ \A i \in 1..m : Fits(lg[i], a, b)
    BY DEF Fitting
<1>2. Row(lg, Len(lg)) /\ p \in 0..p /\ q \in 0..q
    BY DEF AllFit, Shaped, Row
<1>. HIDE DEF m, a, b
<1>3. Shaped(x, p, q)
    BY <1>1, <1>2, RewoundCut
<1>4. Begins(less, lg, m)
    BY <1>1, <1>2, BeginsCut
<1>5. Len(less) = m
    <2>. DEFINE S == {less[i] : i \in 1..m}
    <2>1. \A i \in 1..m : less[i] \in S
        OBVIOUS
    <2>. HIDE DEF S
    <2>. QED BY <1>4, <2>1, RowSeq DEF Begins
<1>6. AllFit(less, a, b)
    BY <1>1, <1>4, <1>5 DEF AllFit, Begins
<1>. HIDE DEF x
<1>7. Shaped(Cut(x, a, b), a, b)
    <2>1. a \in 0..a /\ b \in 0..b
        BY <1>1, <1>2, <1>3 DEF Shaped, Row
    <2>. QED BY <1>1, <1>3, <2>1, CutCut
<1>8. ASSUME NEW n \in 0..m, NEW c \in 0..a, NEW d \in 0..b
      PROVE  Cut(Rewound(Cut(x, a, b), less, n), c, d) = Cut(Rewound(w, lg, n), c, d)
    <2>. DEFINE y == Rewound(x, less, n)
    <2>1. y = Rewound(w, lg, n)
        BY <1>1, <1>2, RewoundAgain DEF x
    <2>. HIDE DEF less
    <2>2. Shaped(y, p, q) /\ Rewound(Cut(x, a, b), less, n) = Cut(y, a, b)
        <3>1. n \in 0..Len(less)
            BY <1>5
        <3>. QED BY <1>1, <1>3, <1>6, <3>1, RewoundCut
    <2>. HIDE DEF y
    <2>3. Cut(Cut(y, a, b), c, d) = Cut(y, c, d)
        BY <1>1, <2>2, CutCut
    <2>. QED BY <2>1, <2>2, <2>3
<1>9. \A mark : mark.mutations \in 0..m /\ mark.sequences \in 0..a /\ mark.mappings \in 0..b
        => At(At(w, lg, top), less, mark) = At(w, lg, mark)
    <2>1. At(w, lg, top) = Cut(x, a, b)
        BY DEF At, x, m, a, b
    <2>. QED BY <1>8, <2>1 DEF At
<1>10. Shaped(At(w, lg, top), a, b)
    BY <1>7 DEF At, x, m, a, b
<1>. QED BY <1>4, <1>5, <1>6, <1>9, <1>10 DEF m, a, b, less

-----------------------------------------------------------------------------
(* The account of a transaction: the builders are sequences of builders,   *)
(* an index says where each key is; every log entry is of a builder there  *)
(* is, and one older than a mark of a builder older than it; the marks are *)
(* nested, and what each saw was sound too.                                *)
Map(p, e, k) == [policy |-> p, entries |-> e, keys |-> k]
Indexed(map) ==
    /\ map = Map(map.policy, map.entries, map.keys)
    /\ Row(map.entries, Len(map.entries)) /\ map.keys = [k \in DOMAIN map.keys |-> map.keys[k]]
    /\ \A k \in DOMAIN map.keys : map.keys[k] \in 1..Len(map.entries) /\ map.entries[map.keys[k]][1] = k
    /\ \A i \in 1..Len(map.entries) :
        map.entries[i][1] \in DOMAIN map.keys /\ map.keys[map.entries[i][1]] = i
Sound(w) ==
    /\ Shaped(w, Len(w.sequences), Len(w.mappings)) /\ Row(w.overwritten, Len(w.overwritten))
    /\ \A s \in 1..Len(w.sequences) : Row(w.sequences[s], Len(w.sequences[s]))
    /\ \A m \in 1..Len(w.mappings) : Indexed(w.mappings[m])

Rows == Row(verdicts, Len(verdicts)) /\ Row(marks, Len(marks))
LogFits == AllFit(log, Len(sequences), Len(mappings))
MarkFits(mark) == Fitting(mark, log, Len(sequences), Len(mappings)) /\ mark.verdicts \in 0..Len(verdicts)
Within(mark, other) ==
    /\ mark.mutations <= other.mutations /\ mark.sequences <= other.sequences
    /\ mark.mappings <= other.mappings /\ mark.verdicts <= other.verdicts
Nested ==
    /\ \A k \in 1..Len(marks) : MarkFits(marks[k]) /\ Sound(AtMark(marks[k]))
    /\ \A j, k \in 1..Len(marks) : j < k => Within(marks[j], marks[k])
    /\ marks = <<>> => log = <<>>
Inv == Rows /\ Sound(Working) /\ LogFits /\ Nested

LEMMA RowLen ==
    ASSUME NEW s, NEW n, Row(s, n)
    PROVE  n \in Nat /\ Len(s) = n /\ DOMAIN s = 1..n
<1>. DEFINE S == {s[i] : i \in 1..n}
<1>1. \A i \in 1..n : s[i] \in S
    OBVIOUS
<1>. HIDE DEF S
<1>2. s \in Seq(S) /\ Len(s) = n
    BY <1>1, RowSeq
<1>. QED BY <1>2, LenProperties

LEMMA RowEmpty == Row(<<>>, 0) /\ Len(<<>>) = 0 /\ \A s : Row(s, 0) => s = <<>>
<1>1. Row(<<>>, 0) /\ Len(<<>>) = 0
    BY DEF Row
<1>2. ASSUME NEW s, Row(s, 0) PROVE s = <<>>
    <2>1. s = [i \in 1..0 |-> s[i]] /\ <<>> = [i \in 1..0 |-> <<>>[i]]
        BY <1>1, <1>2 DEF Row
    <2>2. 1..0 = {}
        OBVIOUS
    <2>. QED BY <2>1, <2>2
<1>. QED BY <1>1, <1>2

LEMMA SoundIs ==
    ASSUME NEW s, NEW m, NEW o
    PROVE  Sound(State(s, m, o)) <=>
            /\ Row(s, Len(s)) /\ Row(m, Len(m)) /\ Row(o, Len(o))
            /\ \A i \in 1..Len(s) : Row(s[i], Len(s[i]))
            /\ \A i \in 1..Len(m) : Indexed(m[i])
<1>1. /\ State(s, m, o).sequences = s /\ State(s, m, o).mappings = m /\ State(s, m, o).overwritten = o
    BY Fields
<1>. DEFINE w == State(s, m, o)
<1>2. w = State(w.sequences, w.mappings, w.overwritten)
    BY <1>1
<1>3. w.sequences = s /\ w.mappings = m /\ w.overwritten = o
    BY <1>1
<1>. HIDE DEF w
<1>4. Sound(w) <=>
            /\ Row(s, Len(s)) /\ Row(m, Len(m)) /\ Row(o, Len(o))
            /\ \A i \in 1..Len(s) : Row(s[i], Len(s[i]))
            /\ \A i \in 1..Len(m) : Indexed(m[i])
    BY <1>2, <1>3 DEF Sound, Shaped
<1>. QED BY <1>4 DEF w

LEMMA WorkingIs ==
    /\ Working = State(sequences, mappings, overwritten)
    /\ Working' = State(sequences', mappings', overwritten')
    /\ \A mark : AtMark(mark) = At(Working, log, mark)
BY DEF Working, State, AtMark, UndoneTo, At, Cut, Rewound, Rewinds

(* What each open mark saw.                                                *)
Was == [k \in DOMAIN marks |-> AtMark(marks[k])]

LEMMA WasIs ==
    ASSUME Row(marks, Len(marks))
    PROVE  Was = [k \in 1..Len(marks) |-> At(Working, log, marks[k])]
<1>1. DOMAIN marks = 1..Len(marks)
    BY RowLen
<1>. QED BY <1>1, WorkingIs DEF Was

LEMMA WasNext ==
    ASSUME Row(marks', Len(marks'))
    PROVE  Was' = [k \in 1..Len(marks') |-> At(Working', log', marks'[k])]
<1>1. DOMAIN marks' = 1..Len(marks')
    BY RowLen
<1>2. Was' = [k \in DOMAIN marks' |-> At(Working', log', marks'[k])]
    BY DEF Was, Working, State, AtMark, UndoneTo, At, Cut, Rewound, Rewinds
<1>. QED BY <1>1, <1>2

(* A step that opens and closes no transaction, and after which each mark  *)
(* saw what it saw.                                                        *)
LEMMA Carried ==
    ASSUME Inv, marks' = marks, Was' = Was, Sound(Working)', LogFits', Row(verdicts', Len(verdicts')),
           Len(sequences) <= Len(sequences'), Len(mappings) <= Len(mappings'), Len(verdicts) <= Len(verdicts'),
           Len(log) <= Len(log'), \A i \in 1..Len(log) : log'[i] = log[i], marks = <<>> => log' = <<>>
    PROVE  Inv'
<1>. DEFINE K == Len(marks)
<1>1. /\ Row(marks, K) /\ Row(marks', K) /\ Len(marks') = K /\ K \in Nat
      /\ \A k \in 1..K : marks'[k] = marks[k]
    BY RowLen DEF Inv, Rows
<1>2. /\ Len(sequences) \in Nat /\ Len(sequences') \in Nat /\ Len(mappings) \in Nat /\ Len(mappings') \in Nat
      /\ Len(verdicts) \in Nat /\ Len(verdicts') \in Nat /\ Len(log) \in Nat /\ Len(log') \in Nat
    <2>1. Sound(State(sequences, mappings, overwritten)) /\ Sound(State(sequences', mappings', overwritten'))
        BY WorkingIs DEF Inv
    <2>2. Row(sequences, Len(sequences)) /\ Row(sequences', Len(sequences')) /\ Row(mappings, Len(mappings)) /\ Row(mappings', Len(mappings'))
        BY <2>1, SoundIs
    <2>3. Row(verdicts, Len(verdicts)) /\ Row(verdicts', Len(verdicts')) /\ Row(log, Len(log)) /\ Row(log', Len(log'))
        BY DEF Inv, Rows, LogFits, AllFit
    <2>. QED BY <2>2, <2>3 DEF Row
<1>3. ASSUME NEW k \in 1..K PROVE MarkFits(marks[k])' /\ Sound(AtMark(marks[k]))'
    <2>1. MarkFits(marks[k]) /\ Sound(AtMark(marks[k]))
        BY <1>3 DEF Inv, Nested
    <2>2. MarkFits(marks[k])'
        <3>. DEFINE mark == marks[k]
        <3>1. /\ mark.mutations \in 0..Len(log) /\ mark.sequences \in 0..Len(sequences)
              /\ mark.mappings \in 0..Len(mappings) /\ mark.verdicts \in 0..Len(verdicts)
              /\ \A i \in 1..mark.mutations : Fits(log[i], mark.sequences, mark.mappings)
            BY <2>1 DEF MarkFits, Fitting
        <3>. HIDE DEF mark
        <3>2. /\ mark.mutations \in 0..Len(log') /\ mark.sequences \in 0..Len(sequences')
              /\ mark.mappings \in 0..Len(mappings') /\ mark.verdicts \in 0..Len(verdicts')
            <4>1. mark.mutations \in 0..Len(log')
                BY <1>2, <3>1, InLonger
            <4>2. mark.sequences \in 0..Len(sequences')
                BY <1>2, <3>1, InLonger
            <4>3. mark.mappings \in 0..Len(mappings')
                BY <1>2, <3>1, InLonger
            <4>4. mark.verdicts \in 0..Len(verdicts')
                BY <1>2, <3>1, InLonger
            <4>. QED BY <4>1, <4>2, <4>3, <4>4
        <3>3. \A i \in 1..mark.mutations : Fits(log'[i], mark.sequences, mark.mappings)
            <4>1. \A i \in 1..mark.mutations : i \in 1..Len(log)
                BY <1>2, <3>1
            <4>. QED BY <3>1, <4>1
        <3>4. marks'[k] = mark
            BY <1>1, <1>3 DEF mark
        <3>. QED BY <3>2, <3>3, <3>4 DEF MarkFits, Fitting
    <2>3. Sound(AtMark(marks[k]))'
        <3>1. k \in DOMAIN marks /\ (k \in DOMAIN marks)'
            BY <1>1, <1>3, RowLen
        <3>2. Was[k] = AtMark(marks[k]) /\ Was'[k] = AtMark(marks[k])'
            BY <3>1 DEF Was
        <3>3. AtMark(marks[k])' = AtMark(marks[k])
            BY <3>2
        <3>. QED BY <2>1, <3>3
    <2>. QED BY <2>2, <2>3
<1>4. \A k \in 1..Len(marks') : MarkFits(marks[k])' /\ Sound(AtMark(marks[k]))'
    BY <1>1, <1>3
<1>5. Nested'
    <2>1. \A j, k \in 1..Len(marks) : j < k => Within(marks[j], marks[k])
        BY DEF Inv, Nested
    <2>2. \A j, k \in 1..Len(marks') : j < k => Within(marks'[j], marks'[k])
        BY <2>1
    <2>. QED BY <1>4, <2>2 DEF Nested, Within
<1>6. Rows'
    BY DEF Inv, Rows
<1>. QED BY <1>5, <1>6 DEF Inv

(* A builder begun or a verdict noted: nothing to log.                     *)
LEMMA Grown ==
    ASSUME Inv, marks' = marks, log' = log, Sound(Working)', Row(verdicts', Len(verdicts')),
           Cut(Working', Len(sequences), Len(mappings)) = Working,
           Len(sequences) <= Len(sequences'), Len(mappings) <= Len(mappings'), Len(verdicts) <= Len(verdicts')
    PROVE  Inv' /\ Was' = Was
<1>. DEFINE p == Len(sequences)  q == Len(mappings)  p2 == Len(sequences')  q2 == Len(mappings')
            v == Working'
<1>1. Shaped(v, p2, q2) /\ p \in 0..p2 /\ q \in 0..q2
    <2>1. Sound(State(sequences, mappings, overwritten)) /\ Sound(State(sequences', mappings', overwritten'))
        BY WorkingIs DEF Inv
    <2>2. Row(sequences, p) /\ Row(sequences', p2) /\ Row(mappings, q) /\ Row(mappings', q2)
        BY <2>1, SoundIs
    <2>3. Shaped(State(sequences', mappings', overwritten'), p2, q2)
        BY <2>2, Fields DEF Shaped
    <2>. QED BY <2>2, <2>3, WorkingIs DEF Row
<1>2. AllFit(log, p, q)
    BY DEF Inv, LogFits
<1>3. ASSUME NEW k \in 1..Len(marks) PROVE At(v, log, marks[k]) = At(Working, log, marks[k])
    <2>1. Fitting(marks[k], log, p, q)
        BY DEF Inv, Nested, MarkFits
    <2>2. At(v, log, marks[k]) = At(Cut(v, p, q), log, marks[k])
        BY <1>1, <1>2, <2>1, AtGrown
    <2>. QED BY <2>2
<1>4. Was' = Was
    <2>1. Row(marks, Len(marks)) /\ Row(marks', Len(marks'))
        BY DEF Inv, Rows
    <2>2. /\ Was = [k \in 1..Len(marks) |-> At(Working, log, marks[k])]
          /\ Was' = [k \in 1..Len(marks) |-> At(Working', log, marks[k])]
        BY <2>1, WasIs, WasNext
    <2>. QED BY <1>3, <2>2
<1>5. LogFits'
    <2>1. \A e : Fits(e, p, q) => Fits(e, p2, q2)
        BY <1>1 DEF Fits, Shaped, Row
    <2>. QED BY <1>2, <2>1 DEF LogFits, AllFit
<1>6. Len(log) <= Len(log') /\ (\A i \in 1..Len(log) : log'[i] = log[i]) /\ (marks = <<>> => log' = <<>>)
    BY DEF Inv, Nested, LogFits, AllFit, Row
<1>. QED BY <1>4, <1>5, <1>6, Carried

(* A logged mutation.                                                      *)
LEMMA Mutated ==
    ASSUME Inv, NEW kind, NEW slot, marks' = marks, verdicts' = verdicts, Sound(Working)',
           log' = Logged(kind, slot), Fits(<<kind, slot>>, Len(sequences), Len(mappings)),
           Len(sequences') = Len(sequences), Len(mappings') = Len(mappings),
           marks # <<>> => Undone(Working', kind, slot) = Working
    PROVE  Inv' /\ Was' = Was
<1>. DEFINE p == Len(sequences)  q == Len(mappings)  e == <<kind, slot>>  N == Len(log)
<1>1. AllFit(log, p, q) /\ Row(log, N) /\ N \in Nat /\ Row(marks, Len(marks)) /\ Row(marks', Len(marks'))
    BY DEF Inv, LogFits, AllFit, Rows, Row
<1>2. CASE marks = <<>>
    <2>1. log' = log /\ log = <<>> /\ N = 0
        BY <1>1, <1>2, RowEmpty DEF Logged, Inv, Nested
    <2>2. Len(marks) = 0
        BY <1>2, RowEmpty
    <2>3. /\ Was = [k \in 1..Len(marks) |-> At(Working, log, marks[k])]
          /\ Was' = [k \in 1..Len(marks) |-> At(Working', log', marks[k])]
        BY <1>1, WasIs, WasNext
    <2>4. Was' = Was
        BY <2>2, <2>3
    <2>5. LogFits'
        BY <1>1, <2>1 DEF LogFits
    <2>6. Row(verdicts', Len(verdicts')) /\ Len(sequences) <= Len(sequences') /\ Len(mappings) <= Len(mappings')
          /\ Len(verdicts) <= Len(verdicts')
        <3>1. Row(verdicts, Len(verdicts)) /\ Sound(State(sequences, mappings, overwritten))
            BY WorkingIs DEF Inv, Rows
        <3>2. Len(sequences) \in Nat /\ Len(mappings) \in Nat /\ Len(verdicts) \in Nat
            BY <3>1, SoundIs DEF Row
        <3>. QED BY <3>1, <3>2
    <2>7. Len(log) <= Len(log') /\ (\A i \in 1..Len(log) : log'[i] = log[i]) /\ log' = <<>>
        BY <1>1, <2>1
    <2>. QED BY <1>2, <2>4, <2>5, <2>6, <2>7, Carried
<1>3. CASE marks # <<>>
    <2>1. log' = Append(log, e)
        BY <1>3 DEF Logged
    <2>2. Row(log', N + 1) /\ Len(log') = N + 1 /\ log'[N + 1] = e /\ \A i \in 1..N : log'[i] = log[i]
        BY <1>1, <2>1, RowAppend
    <2>3. Undone(Working', e[1], e[2]) = Working
        BY <1>3
    <2>4. ASSUME NEW k \in 1..Len(marks) PROVE At(Working', log', marks[k]) = At(Working, log, marks[k])
        <3>1. marks[k].mutations \in 0..Len(log)
            BY <2>4 DEF Inv, Nested, MarkFits, Fitting
        <3>. DEFINE v == Working'  w == Working  mark == marks[k]
        <3>2. mark.mutations \in 0..Len(log) /\ Undone(v, e[1], e[2]) = w
            BY <2>3, <3>1
        <3>. HIDE DEF v, w, mark, e
        <3>3. At(v, Append(log, e), mark) = At(w, log, mark)
            BY <1>1, <3>2, AtAppend
        <3>. QED BY <2>1, <3>3 DEF v, w, mark
    <2>5. Was' = Was
        <3>1. /\ Was = [k \in 1..Len(marks) |-> At(Working, log, marks[k])]
              /\ Was' = [k \in 1..Len(marks) |-> At(Working', log', marks[k])]
            BY <1>1, WasIs, WasNext
        <3>. QED BY <2>4, <3>1
    <2>6. LogFits'
        <3>1. \A i \in 1..(N + 1) : i = N + 1 \/ i \in 1..N
            BY <1>1
        <3>2. \A i \in 1..(N + 1) : Fits(log'[i], p, q)
            BY <1>1, <2>2, <3>1 DEF AllFit
        <3>3. AllFit(log', p, q)
            BY <2>2, <3>2 DEF AllFit
        <3>. QED BY <3>3 DEF LogFits
    <2>7. Row(verdicts', Len(verdicts')) /\ Len(sequences) <= Len(sequences') /\ Len(mappings) <= Len(mappings')
          /\ Len(verdicts) <= Len(verdicts')
        <3>1. Row(verdicts, Len(verdicts)) /\ Sound(State(sequences, mappings, overwritten))
            BY WorkingIs DEF Inv, Rows
        <3>2. Len(sequences) \in Nat /\ Len(mappings) \in Nat /\ Len(verdicts) \in Nat
            BY <3>1, SoundIs DEF Row
        <3>. QED BY <3>1, <3>2
    <2>8. Len(log) <= Len(log')
        BY <1>1, <2>2
    <2>. QED BY <1>3, <2>2, <2>5, <2>6, <2>7, <2>8, Carried
<1>. QED BY <1>2, <1>3

LEMMA OfMap ==
    ASSUME NEW p, NEW e, NEW k
    PROVE  /\ Map(p, e, k).policy = p /\ Map(p, e, k).entries = e /\ Map(p, e, k).keys = k
           /\ \A i, old : PutBack(Map(p, e, k), <<i, old>>) = Map(p, [e EXCEPT ![i] = old], k)
BY DEF Map, PutBack

LEMMA PoppedMap ==
    ASSUME NEW p, NEW e, NEW k
    PROVE  Popped(Map(p, e, k)) = Map(p, Front(e), Unkeyed(k, Last(e)[1]))
<1>. DEFINE map == Map(p, e, k)
<1>1. map.entries = e /\ map.keys = k
    BY OfMap
<1>2. Popped(map) = [[map EXCEPT !.entries = Front(map.entries)] EXCEPT !.keys = Unkeyed(map.keys, Last(map.entries)[1])]
    <2>. HIDE DEF map
    <2>. QED BY DEF Popped
<1>. DEFINE f == Front(e)  g == Unkeyed(k, Last(e)[1])
<1>. HIDE DEF f, g
<1>3. [[Map(p, e, k) EXCEPT !.entries = f] EXCEPT !.keys = g] = Map(p, f, g)
    <2>1. [Map(p, e, k) EXCEPT !.entries = f] = Map(p, f, k)
        BY DEF Map
    <2>2. [Map(p, f, k) EXCEPT !.keys = g] = Map(p, f, g)
        BY DEF Map
    <2>. QED BY <2>1, <2>2
<1>4. Front(map.entries) = f /\ Unkeyed(map.keys, Last(map.entries)[1]) = g
    <2>. HIDE DEF map
    <2>. QED BY <1>1 DEF f, g
<1>. QED BY <1>2, <1>3, <1>4 DEF f, g

LEMMA IndexedMap ==
    ASSUME NEW p, NEW e, NEW ks
    PROVE  Indexed(Map(p, e, ks)) <=>
            /\ Row(e, Len(e)) /\ ks = [k \in DOMAIN ks |-> ks[k]]
            /\ \A k \in DOMAIN ks : ks[k] \in 1..Len(e) /\ e[ks[k]][1] = k
            /\ \A i \in 1..Len(e) : e[i][1] \in DOMAIN ks /\ ks[e[i][1]] = i
<1>. DEFINE map == Map(p, e, ks)
<1>1. map.policy = p /\ map.entries = e /\ map.keys = ks /\ map = Map(map.policy, map.entries, map.keys)
    BY OfMap
<1>. HIDE DEF map
<1>2. Indexed(map) <=>
            /\ Row(e, Len(e)) /\ ks = [k \in DOMAIN ks |-> ks[k]]
            /\ \A k \in DOMAIN ks : ks[k] \in 1..Len(e) /\ e[ks[k]][1] = k
            /\ \A i \in 1..Len(e) : e[i][1] \in DOMAIN ks /\ ks[e[i][1]] = i
    BY <1>1 DEF Indexed
<1>. QED BY <1>2 DEF map

(* What a builder becomes, and what undoing that makes of it.              *)
LEMMA Inserting ==
    ASSUME NEW map, Indexed(map), NEW key, key \notin DOMAIN map.keys, NEW v,
           NEW map2, map2 = Map(map.policy, Append(map.entries, <<key, v>>), With(map.keys, key, Len(map.entries) + 1))
    PROVE  Indexed(map2) /\ Popped(map2) = map
<1>. DEFINE e == map.entries  n == Len(e)  ks == map.keys  e2 == Append(e, <<key, v>>)  ks2 == With(ks, key, n + 1)
<1>1. /\ Row(e, n) /\ n \in Nat /\ ks = [k \in DOMAIN ks |-> ks[k]] /\ map = Map(map.policy, e, ks)
      /\ \A k \in DOMAIN ks : ks[k] \in 1..n /\ e[ks[k]][1] = k
      /\ \A i \in 1..n : e[i][1] \in DOMAIN ks /\ ks[e[i][1]] = i
    BY DEF Indexed, Row
<1>2. /\ Row(e2, n + 1) /\ Len(e2) = n + 1 /\ e2[n + 1] = <<key, v>> /\ \A i \in 1..n : e2[i] = e[i]
      /\ Front(e2) = e /\ Last(e2) = <<key, v>>
    <2>. DEFINE pair == <<key, v>>
    <2>1. Row(e, n)
        BY <1>1
    <2>. HIDE DEF e, n, pair
    <2>2. /\ Row(Append(e, pair), n + 1) /\ Append(e, pair)[n + 1] = pair
          /\ \A i \in 1..n : Append(e, pair)[i] = e[i]
          /\ Front(Append(e, pair)) = e /\ Last(Append(e, pair)) = pair
          /\ Len(Append(e, pair)) = n + 1
        BY <2>1, RowAppend
    <2>. QED BY <2>2 DEF pair
<1>3. DOMAIN ks2 = DOMAIN ks \cup {key} /\ ks2[key] = n + 1 /\ \A k \in DOMAIN ks : ks2[k] = ks[k]
    BY DEF With
<1>4. ks2 = [k \in DOMAIN ks2 |-> ks2[k]]
    BY DEF With
<1>5. map2.policy = map.policy /\ map2.entries = e2 /\ map2.keys = ks2 /\ map2 = Map(map.policy, e2, ks2)
    BY DEF Map
<1>6. Unkeyed(ks2, key) = ks
    <2>1. DOMAIN ks2 \ {key} = DOMAIN ks
        BY <1>3
    <2>2. Unkeyed(ks2, key) = [k \in DOMAIN ks |-> ks2[k]]
        BY <2>1 DEF Unkeyed
    <2>. HIDE DEF ks2
    <2>. QED BY <1>1, <1>3, <2>2
<1>. HIDE DEF e, n, ks, e2, ks2
<1>7. Indexed(map2)
    <2>1. \A i \in 1..(n + 1) : i = n + 1 \/ i \in 1..n
        BY <1>1
    <2>2. \A k \in DOMAIN ks2 : ks2[k] \in 1..(n + 1) /\ e2[ks2[k]][1] = k
        <3>1. n + 1 \in 1..(n + 1) /\ \A i \in 1..n : i \in 1..(n + 1)
            BY <1>1
        <3>2. e2[n + 1][1] = key
            BY <1>2
        <3>3. \A k \in DOMAIN ks : ks2[k] \in 1..(n + 1) /\ e2[ks2[k]][1] = k
            BY <1>1, <1>2, <1>3, <3>1
        <3>. QED BY <1>3, <3>1, <3>2, <3>3
    <2>3. \A i \in 1..(n + 1) : e2[i][1] \in DOMAIN ks2 /\ ks2[e2[i][1]] = i
        <3>1. e2[n + 1][1] = key
            BY <1>2
        <3>2. ASSUME NEW i \in 1..n PROVE e2[i][1] \in DOMAIN ks2 /\ ks2[e2[i][1]] = i
            <4>1. e2[i] = e[i]
                BY <1>2
            <4>2. e[i][1] \in DOMAIN ks /\ ks[e[i][1]] = i
                BY <1>1
            <4>. QED BY <1>3, <4>1, <4>2
        <3>3. e2[n + 1][1] \in DOMAIN ks2 /\ ks2[e2[n + 1][1]] = n + 1
            BY <1>3, <3>1
        <3>. QED BY <2>1, <3>2, <3>3
    <2>4. Indexed(Map(map.policy, e2, ks2))
        BY <1>2, <1>4, <2>2, <2>3, IndexedMap
    <2>. QED BY <1>5, <2>4
<1>8. Popped(map2) = map
    <2>1. Popped(Map(map.policy, e2, ks2)) = Map(map.policy, Front(e2), Unkeyed(ks2, Last(e2)[1]))
        BY PoppedMap
    <2>2. Last(e2)[1] = key
        BY <1>2
    <2>. QED BY <1>1, <1>2, <1>5, <1>6, <2>1, <2>2
<1>. QED BY <1>7, <1>8

(* e2 is e, but for what it holds at one place.                            *)
Changed(e2, e, at, x) == Row(e2, Len(e)) /\ \A i \in 1..Len(e) : e2[i] = IF i = at THEN x ELSE e[i]

LEMMA Replacing ==
    ASSUME NEW map, Indexed(map), NEW key \in DOMAIN map.keys, NEW v,
           NEW e2, Changed(e2, map.entries, map.keys[key], <<key, v>>)
    PROVE  /\ Indexed(Map(map.policy, e2, map.keys))
           /\ PutBack(Map(map.policy, e2, map.keys), <<map.keys[key], map.entries[map.keys[key]]>>) = map
<1>. DEFINE at == map.keys[key]  map2 == Map(map.policy, e2, map.keys)
<1>. DEFINE e == map.entries  n == Len(e)  ks == map.keys  old == e[at]
<1>1. /\ Row(e, n) /\ n \in Nat /\ ks = [k \in DOMAIN ks |-> ks[k]] /\ map = Map(map.policy, e, ks)
      /\ \A k \in DOMAIN ks : ks[k] \in 1..n /\ e[ks[k]][1] = k
      /\ \A i \in 1..n : e[i][1] \in DOMAIN ks /\ ks[e[i][1]] = i
    BY DEF Indexed, Row
<1>2. at \in 1..n /\ e[at][1] = key
    BY <1>1
<1>3. Row(e2, n) /\ (\A i \in 1..n : e2[i] = IF i = at THEN <<key, v>> ELSE e[i]) /\ [e2 EXCEPT ![at] = old] = e
    <2>1. Row(e2, n) /\ \A i \in 1..n : e2[i] = IF i = at THEN <<key, v>> ELSE e[i]
        BY DEF Changed
    <2>. DEFINE z == [e2 EXCEPT ![at] = old]
    <2>2. z = [i \in 1..n |-> z[i]] /\ \A i \in 1..n : z[i] = IF i = at THEN old ELSE e2[i]
        BY <2>1 DEF Row
    <2>3. e = [i \in 1..n |-> e[i]]
        BY <1>1 DEF Row
    <2>. HIDE DEF z, e, n, at
    <2>4. \A i \in 1..n : z[i] = e[i]
        BY <2>1, <2>2
    <2>5. z = e
        BY <2>2, <2>3, <2>4
    <2>. QED BY <2>1, <2>5 DEF z
<1>4. Len(e2) = n
    BY <1>3, RowLen
<1>5. map2.policy = map.policy /\ map2.entries = e2 /\ map2.keys = ks /\ map2 = Map(map.policy, e2, ks)
    BY DEF Map
<1>6. PutBack(map2, <<at, old>>) = Map(map.policy, [e2 EXCEPT ![at] = old], ks)
    <2>. HIDE DEF e, ks, old
    <2>. QED BY <1>5, OfMap
<1>. HIDE DEF e, n, ks, old, at, map2
<1>7. \A i \in 1..n : e2[i][1] = e[i][1]
    BY <1>2, <1>3
<1>8. Indexed(map2)
    <2>1. \A k \in DOMAIN ks : ks[k] \in 1..n /\ e2[ks[k]][1] = k
        BY <1>1, <1>7
    <2>2. \A i \in 1..n : e2[i][1] \in DOMAIN ks /\ ks[e2[i][1]] = i
        BY <1>1, <1>7
    <2>3. Indexed(Map(map.policy, e2, ks))
        <3>1. Row(e2, Len(e2)) /\ ks = [k \in DOMAIN ks |-> ks[k]]
            BY <1>1, <1>3, <1>4
        <3>2. /\ \A k \in DOMAIN ks : ks[k] \in 1..Len(e2) /\ e2[ks[k]][1] = k
              /\ \A i \in 1..Len(e2) : e2[i][1] \in DOMAIN ks /\ ks[e2[i][1]] = i
            BY <1>4, <2>1, <2>2
        <3>. QED BY <3>1, <3>2, IndexedMap
    <2>. QED BY <1>5, <2>3
<1>. QED BY <1>1, <1>3, <1>6, <1>8 DEF e, old, at, map2

-----------------------------------------------------------------------------
(* What the account says of what there is.                                 *)
LEMMA There ==
    ASSUME Inv
    PROVE  /\ Row(sequences, Len(sequences)) /\ Row(mappings, Len(mappings)) /\ Row(overwritten, Len(overwritten))
           /\ Len(sequences) \in Nat /\ Len(mappings) \in Nat /\ Len(overwritten) \in Nat
           /\ \A i \in 1..Len(sequences) : Row(sequences[i], Len(sequences[i]))
           /\ \A i \in 1..Len(mappings) : Indexed(mappings[i])
           /\ Row(verdicts, Len(verdicts)) /\ Len(verdicts) \in Nat
           /\ Shaped(Working, Len(sequences), Len(mappings)) /\ Cut(Working, Len(sequences), Len(mappings)) = Working
           /\ DOMAIN sequences = 1..Len(sequences) /\ DOMAIN mappings = 1..Len(mappings)
<1>1. Sound(State(sequences, mappings, overwritten)) /\ Row(verdicts, Len(verdicts))
    BY WorkingIs DEF Inv, Rows
<1>2. /\ Row(sequences, Len(sequences)) /\ Row(mappings, Len(mappings)) /\ Row(overwritten, Len(overwritten))
      /\ \A i \in 1..Len(sequences) : Row(sequences[i], Len(sequences[i]))
      /\ \A i \in 1..Len(mappings) : Indexed(mappings[i])
    BY <1>1, SoundIs
<1>3. /\ Len(sequences) \in Nat /\ Len(mappings) \in Nat /\ Len(overwritten) \in Nat /\ Len(verdicts) \in Nat
      /\ DOMAIN sequences = 1..Len(sequences) /\ DOMAIN mappings = 1..Len(mappings)
    BY <1>1, <1>2, RowLen
<1>4. Shaped(Working, Len(sequences), Len(mappings))
    <2>1. Shaped(State(sequences, mappings, overwritten), Len(sequences), Len(mappings))
        BY <1>2, Fields DEF Shaped
    <2>. QED BY <2>1, WorkingIs
<1>5. Cut(Working, Len(sequences), Len(mappings)) = Working
    <2>1. Len(sequences) \in 0..Len(sequences) /\ Len(mappings) \in 0..Len(mappings)
        BY <1>3
    <2>. QED BY <1>4, <2>1, CutCut
<1>. QED BY <1>1, <1>2, <1>3, <1>4, <1>5

(* A verdict is noted.                                                     *)
LEMMA StepNoted ==
    ASSUME Inv, NEW key, verdicts' = Append(verdicts, key), UNCHANGED <<lanes, log, overwritten, marks>>
    PROVE  Inv' /\ Was' = Was
<1>1. Working' = Working /\ sequences' = sequences /\ mappings' = mappings /\ log' = log /\ marks' = marks
    BY DEF lanes, Working
<1>2. Row(verdicts', Len(verdicts')) /\ Len(verdicts) <= Len(verdicts')
    BY There, RowAppend
<1>3. Sound(Working)'
    BY <1>1 DEF Inv
<1>4. /\ Cut(Working', Len(sequences), Len(mappings)) = Working
      /\ Len(sequences) <= Len(sequences') /\ Len(mappings) <= Len(mappings')
    BY <1>1, There
<1>. QED BY <1>1, <1>2, <1>3, <1>4, Grown

(* A builder is begun.                                                     *)
LEMMA Lengthened ==
    ASSUME NEW r, Row(r, Len(r)), NEW x
    PROVE  /\ Row(Append(r, x), Len(Append(r, x))) /\ Len(Append(r, x)) = Len(r) + 1 /\ Begins(r, Append(r, x), Len(r))
           /\ Len(r) \in 0..Len(Append(r, x)) /\ Len(r) <= Len(Append(r, x))
           /\ \A i \in 1..Len(Append(r, x)) : Append(r, x)[i] = IF i = Len(r) + 1 THEN x ELSE r[i]
           /\ \A i \in 1..Len(Append(r, x)) : i # Len(r) + 1 => i \in 1..Len(r)
<1>. DEFINE z == Append(r, x)  n == Len(r)
<1>1. n \in Nat /\ Row(z, n + 1) /\ Len(z) = n + 1 /\ z[n + 1] = x /\ \A i \in 1..n : z[i] = r[i]
    <2>1. n \in Nat /\ Row(r, n)
        BY RowLen
    <2>. QED BY <2>1, RowAppend
<1>. HIDE DEF z
<1>2. Begins(r, z, n)
    BY <1>1 DEF Begins
<1>3. \A i \in 1..(n + 1) : i = n + 1 \/ i \in 1..n
    BY <1>1
<1>. HIDE DEF n
<1>4. n \in 0..Len(z) /\ n <= Len(z)
    BY <1>1
<1>. QED BY <1>1, <1>2, <1>3, <1>4 DEF z, n

LEMMA StepBeginSequence == ASSUME Inv, BeginSequence PROVE Inv' /\ Was' = Was
<1>. DEFINE s == Append(sequences, <<>>)
<1>1. /\ sequences' = s /\ mappings' = mappings /\ verdicts' = verdicts /\ log' = log
      /\ overwritten' = overwritten /\ marks' = marks
    BY DEF BeginSequence
<1>2. /\ Row(s, Len(s)) /\ Begins(sequences, s, Len(sequences)) /\ Len(sequences) \in 0..Len(s)
      /\ \A i \in 1..Len(s) : s[i] = <<>> \/ (i \in 1..Len(sequences) /\ s[i] = sequences[i])
      /\ Len(sequences) <= Len(s)
    BY There, Lengthened
<1>. HIDE DEF s
<1>3. \A i \in 1..Len(s) : Row(s[i], Len(s[i]))
    BY <1>2, There, RowEmpty
<1>4. Sound(State(s, mappings, overwritten))
    BY <1>2, <1>3, There, SoundIs
<1>5. Cut(State(s, mappings, overwritten), Len(sequences), Len(mappings)) = State(sequences, mappings, overwritten)
    <2>1. Begins(mappings, mappings, Len(mappings)) /\ Len(mappings) \in 0..Len(mappings)
        BY There DEF Begins
    <2>2. Row(s, Len(s)) /\ Row(mappings, Len(mappings))
        BY <1>2, There
    <2>. QED BY <1>2, <2>1, <2>2, CutTo
<1>6. Working' = State(s, mappings, overwritten) /\ Sound(Working)'
    BY <1>1, <1>4, WorkingIs
<1>7. Cut(Working', Len(sequences), Len(mappings)) = Working
    BY <1>5, <1>6, WorkingIs
<1>8. /\ Len(sequences) <= Len(sequences') /\ Len(mappings) <= Len(mappings') /\ Len(verdicts) <= Len(verdicts')
      /\ Row(verdicts', Len(verdicts'))
    BY <1>1, <1>2, There
<1>. QED BY <1>1, <1>6, <1>7, <1>8, Grown

LEMMA StepBeginMapping == ASSUME Inv, NEW policy \in Policies, BeginMapping(policy) PROVE Inv' /\ Was' = Was
<1>. DEFINE new == [policy |-> policy, entries |-> <<>>, keys |-> <<>>]  m == Append(mappings, new)
<1>1. /\ sequences' = sequences /\ mappings' = m /\ verdicts' = verdicts /\ log' = log
      /\ overwritten' = overwritten /\ marks' = marks
    BY DEF BeginMapping
<1>2. Indexed(new)
    <2>1. new = Map(policy, <<>>, <<>>)
        BY DEF Map
    <2>2. <<>> = [k \in DOMAIN <<>> |-> <<>>[k]] /\ DOMAIN <<>> = {} /\ 1..0 = {}
        OBVIOUS
    <2>3. Indexed(Map(policy, <<>>, <<>>))
        BY <2>2, RowEmpty, IndexedMap
    <2>. QED BY <2>1, <2>3
<1>. HIDE DEF new
<1>3. /\ Row(m, Len(m)) /\ Begins(mappings, m, Len(mappings)) /\ Len(mappings) \in 0..Len(m)
      /\ \A i \in 1..Len(m) : m[i] = new \/ (i \in 1..Len(mappings) /\ m[i] = mappings[i])
      /\ Len(mappings) <= Len(m)
    BY There, Lengthened
<1>. HIDE DEF m
<1>4. \A i \in 1..Len(m) : Indexed(m[i])
    BY <1>2, <1>3, There
<1>5. Sound(State(sequences, m, overwritten))
    BY <1>3, <1>4, There, SoundIs
<1>6. Cut(State(sequences, m, overwritten), Len(sequences), Len(mappings)) = State(sequences, mappings, overwritten)
    <2>1. Begins(sequences, sequences, Len(sequences)) /\ Len(sequences) \in 0..Len(sequences)
        BY There DEF Begins
    <2>2. Row(m, Len(m)) /\ Row(sequences, Len(sequences))
        BY <1>3, There
    <2>. QED BY <1>3, <2>1, <2>2, CutTo
<1>7. Working' = State(sequences, m, overwritten) /\ Sound(Working)'
    BY <1>1, <1>5, WorkingIs
<1>8. Cut(Working', Len(sequences), Len(mappings)) = Working
    BY <1>6, <1>7, WorkingIs
<1>9. /\ Len(sequences) <= Len(sequences') /\ Len(mappings) <= Len(mappings') /\ Len(verdicts) <= Len(verdicts')
      /\ Row(verdicts', Len(verdicts'))
    BY <1>1, <1>3, There
<1>. QED BY <1>1, <1>7, <1>8, <1>9, Grown

LEMMA StepAppendSequence ==
    ASSUME Inv, NEW s \in DOMAIN sequences, NEW v, AppendSequence(s, v)
    PROVE  Inv' /\ Was' = Was
<1>. DEFINE x == Append(sequences[s], v)  z == [sequences EXCEPT ![s] = x]
<1>1. /\ sequences' = z /\ mappings' = mappings /\ verdicts' = verdicts /\ log' = Logged("append", s)
      /\ overwritten' = overwritten /\ marks' = marks
    BY DEF AppendSequence
<1>2. s \in 1..Len(sequences) /\ Row(sequences[s], Len(sequences[s]))
    BY There
<1>3. Row(x, Len(x)) /\ Front(x) = sequences[s]
    BY <1>2, RowAppend, RowLen
<1>. HIDE DEF x
<1>4. Row(z, Len(sequences)) /\ z[s] = x /\ (\A i \in 1..Len(sequences) : i # s => z[i] = sequences[i])
      /\ [z EXCEPT ![s] = sequences[s]] = sequences
    BY <1>2, There DEF Row
<1>. HIDE DEF z
<1>5. Len(z) = Len(sequences)
    BY <1>4, RowLen
<1>6. Sound(State(z, mappings, overwritten))
    <2>1. \A i \in 1..Len(z) : Row(z[i], Len(z[i]))
        BY <1>3, <1>4, <1>5, There
    <2>. QED BY <1>4, <1>5, <2>1, There, SoundIs
<1>7. Working' = State(z, mappings, overwritten) /\ Sound(Working)'
    BY <1>1, <1>6, WorkingIs
<1>8. Undone(Working', "append", s) = Working
    <2>1. Undone(State(z, mappings, overwritten), "append", s) = State([z EXCEPT ![s] = Front(z[s])], mappings, overwritten)
        BY UndoneAppend
    <2>2. [z EXCEPT ![s] = Front(z[s])] = sequences
        BY <1>3, <1>4
    <2>. QED BY <1>7, <2>1, <2>2, WorkingIs
<1>9. Fits(<<"append", s>>, Len(sequences), Len(mappings))
    BY <1>2 DEF Fits
<1>10. Len(sequences') = Len(sequences) /\ Len(mappings') = Len(mappings)
    BY <1>1, <1>5
<1>. QED BY <1>1, <1>7, <1>8, <1>9, <1>10, Mutated

(* A mapping changes: what that is of all the builders.                    *)
LEMMA MappingChanged ==
    ASSUME Inv, NEW m \in 1..Len(mappings), NEW map, Indexed(map), mappings' = [mappings EXCEPT ![m] = map],
           sequences' = sequences, Row(overwritten', Len(overwritten'))
    PROVE  /\ Sound(Working)' /\ Len(sequences') = Len(sequences) /\ Len(mappings') = Len(mappings)
           /\ Working' = State(sequences, mappings', overwritten')
           /\ mappings'[m] = map /\ [mappings' EXCEPT ![m] = mappings[m]] = mappings
<1>. DEFINE z == [mappings EXCEPT ![m] = map]
<1>1. Row(z, Len(mappings)) /\ z[m] = map /\ (\A i \in 1..Len(mappings) : i # m => z[i] = mappings[i])
      /\ [z EXCEPT ![m] = mappings[m]] = mappings
    BY There DEF Row
<1>2. mappings' = z
    OBVIOUS
<1>. HIDE DEF z
<1>3. Len(z) = Len(mappings)
    BY <1>1, RowLen
<1>4. Sound(State(sequences, z, overwritten'))
    <2>1. \A i \in 1..Len(z) : Indexed(z[i])
        BY <1>1, <1>3, There
    <2>. QED BY <1>1, <1>3, <2>1, There, SoundIs
<1>5. Working' = State(sequences, z, overwritten') /\ Sound(Working)'
    BY <1>2, <1>4, WorkingIs
<1>. QED BY <1>1, <1>2, <1>3, <1>5

LEMMA InsertMakes ==
    ASSUME Inv, NEW m \in DOMAIN mappings, NEW key, NEW v, InsertKey(m, key, v)
    PROVE  mappings' = [mappings EXCEPT ![m] = Map(mappings[m].policy, Append(mappings[m].entries, <<key, v>>),
                                                   With(mappings[m].keys, key, Len(mappings[m].entries) + 1))]
<1>. DEFINE map == mappings[m]  e == Append(map.entries, <<key, v>>)  ks == With(map.keys, key, Len(map.entries) + 1)
<1>0. m \in 1..Len(mappings) /\ Indexed(map)
    BY There
<1>1. map = Map(map.policy, map.entries, map.keys)
    BY <1>0 DEF Indexed
<1>2. mappings' = [mappings EXCEPT ![m] = [map EXCEPT !.entries = e, !.keys = ks]]
    BY <1>0, There DEF InsertKey, Row
<1>. HIDE DEF e, ks
<1>3. ASSUME NEW f, NEW g PROVE [map EXCEPT !.entries = f, !.keys = g] = Map(map.policy, f, g)
    <2>. DEFINE p == map.policy  h == map.entries  k == map.keys
    <2>1. map = Map(p, h, k)
        BY <1>1
    <2>. HIDE DEF p, h, k, map
    <2>2. [map EXCEPT !.entries = f] = Map(p, f, k)
        BY <2>1 DEF Map
    <2>3. [Map(p, f, k) EXCEPT !.keys = g] = Map(p, f, g)
        BY DEF Map
    <2>4. [map EXCEPT !.entries = f, !.keys = g] = [[map EXCEPT !.entries = f] EXCEPT !.keys = g]
        OBVIOUS
    <2>. QED BY <2>2, <2>3, <2>4 DEF p
<1>4. [map EXCEPT !.entries = e, !.keys = ks] = Map(map.policy, e, ks)
    BY <1>3
<1>5. mappings' = [mappings EXCEPT ![m] = Map(map.policy, e, ks)]
    BY <1>2, <1>4
<1>. QED BY <1>5 DEF e, ks

LEMMA StepInsertKey ==
    ASSUME Inv, NEW m \in DOMAIN mappings, NEW key, NEW v, InsertKey(m, key, v)
    PROVE  Inv' /\ Was' = Was
<1>. DEFINE map == mappings[m]  e == Append(map.entries, <<key, v>>)  ks == With(map.keys, key, Len(map.entries) + 1)
            map2 == Map(map.policy, e, ks)
<1>1. /\ sequences' = sequences /\ verdicts' = verdicts /\ log' = Logged("insert", m)
      /\ overwritten' = overwritten /\ marks' = marks /\ key \notin DOMAIN map.keys
    BY DEF InsertKey
<1>2. m \in 1..Len(mappings) /\ Indexed(map)
    BY There
<1>3. Indexed(map2) /\ Popped(map2) = map
    BY <1>1, <1>2, Inserting
<1>4. mappings' = [mappings EXCEPT ![m] = map2]
    BY InsertMakes
<1>. HIDE DEF map2, e, ks
<1>5. /\ Sound(Working)' /\ Len(sequences') = Len(sequences) /\ Len(mappings') = Len(mappings)
      /\ Working' = State(sequences, mappings', overwritten') /\ mappings'[m] = map2
      /\ [mappings' EXCEPT ![m] = mappings[m]] = mappings
    BY <1>1, <1>2, <1>3, <1>4, There, MappingChanged
<1>6. Undone(Working', "insert", m) = Working
    <2>. DEFINE z == mappings'
    <2>. HIDE DEF z
    <2>1. Undone(State(sequences, z, overwritten), "insert", m) = State(sequences, [z EXCEPT ![m] = Popped(z[m])], overwritten)
        BY UndoneInsert
    <2>2. [z EXCEPT ![m] = Popped(z[m])] = mappings
        BY <1>3, <1>5 DEF z
    <2>. QED BY <1>1, <1>5, <2>1, <2>2, WorkingIs DEF z
<1>7. Fits(<<"insert", m>>, Len(sequences), Len(mappings))
    BY <1>2 DEF Fits
<1>. QED BY <1>1, <1>5, <1>6, <1>7, Mutated

LEMMA ReplaceMakes ==
    ASSUME Inv, NEW m \in DOMAIN mappings, NEW key, NEW v, ReplaceDuplicate(m, key, v)
    PROVE  mappings' = [mappings EXCEPT ![m] = Map(mappings[m].policy,
                            [mappings[m].entries EXCEPT ![mappings[m].keys[key]] = <<key, v>>], mappings[m].keys)]
<1>. DEFINE map == mappings[m]  at == map.keys[key]  e == [map.entries EXCEPT ![at] = <<key, v>>]
<1>0. m \in 1..Len(mappings) /\ Indexed(map)
    BY There
<1>1. map = Map(map.policy, map.entries, map.keys)
    BY <1>0 DEF Indexed
<1>2. mappings' = [mappings EXCEPT ![m] = [map EXCEPT !.entries = e]]
    BY <1>0, There DEF ReplaceDuplicate, Row
<1>. HIDE DEF e, at
<1>3. \A f : [map EXCEPT !.entries = f] = Map(map.policy, f, map.keys)
    BY <1>1 DEF Map
<1>4. [map EXCEPT !.entries = e] = Map(map.policy, e, map.keys)
    BY <1>3
<1>5. mappings' = [mappings EXCEPT ![m] = Map(map.policy, e, map.keys)]
    BY <1>2, <1>4
<1>. QED BY <1>5 DEF e, at

LEMMA StepReplace ==
    ASSUME Inv, NEW m \in DOMAIN mappings, NEW key, NEW v, ReplaceDuplicate(m, key, v)
    PROVE  Inv' /\ Was' = Was
<1>. DEFINE map == mappings[m]  at == map.keys[key]  e == [map.entries EXCEPT ![at] = <<key, v>>]
            map2 == Map(map.policy, e, map.keys)  old == <<at, map.entries[at]>>
<1>1. /\ sequences' = sequences /\ verdicts' = verdicts /\ log' = Logged("replace", m)
      /\ overwritten' = WrittenOver(m, key) /\ marks' = marks /\ key \in DOMAIN map.keys
    BY DEF ReplaceDuplicate
<1>2. m \in 1..Len(mappings) /\ Indexed(map)
    BY There
<1>3. Indexed(map2) /\ PutBack(map2, old) = map
    <2>1. at = map.keys[key]
        OBVIOUS
    <2>2. key \in DOMAIN map.keys /\ old = <<at, map.entries[at]>>
        BY <1>1
    <2>. HIDE DEF at, map2, old, map
    <2>3. at \in 1..Len(map.entries)
        BY <1>2, <2>1, <2>2 DEF Indexed
    <2>4. Changed(e, map.entries, at, <<key, v>>)
        BY <1>2, <2>3 DEF Indexed, Row, Changed
    <2>6. Changed(e, map.entries, map.keys[key], <<key, v>>)
        BY <2>1, <2>4
    <2>. HIDE DEF e
    <2>5. map2 = Map(map.policy, e, map.keys)
        BY DEF map2
    <2>7. /\ Indexed(Map(map.policy, e, map.keys))
          /\ PutBack(Map(map.policy, e, map.keys), <<map.keys[key], map.entries[map.keys[key]]>>) = map
        BY <1>2, <2>2, <2>6, Replacing
    <2>. QED BY <2>1, <2>2, <2>5, <2>7
<1>4. mappings' = [mappings EXCEPT ![m] = map2]
    BY ReplaceMakes
<1>5. Row(overwritten', Len(overwritten')) /\ (marks # <<>> => Last(overwritten') = old /\ Front(overwritten') = overwritten)
    <2>1. CASE marks = <<>>
        BY <1>1, <2>1, There DEF WrittenOver
    <2>2. CASE marks # <<>>
        <3>1. overwritten' = Append(overwritten, old)
            BY <1>1, <2>2 DEF WrittenOver
        <3>. HIDE DEF old
        <3>. QED BY <3>1, There, RowAppend
    <2>. QED BY <2>1, <2>2
<1>. HIDE DEF map2, e, at, old
<1>6. /\ Sound(Working)' /\ Len(sequences') = Len(sequences) /\ Len(mappings') = Len(mappings)
      /\ Working' = State(sequences, mappings', overwritten') /\ mappings'[m] = map2
      /\ [mappings' EXCEPT ![m] = mappings[m]] = mappings
    BY <1>1, <1>2, <1>3, <1>4, <1>5, MappingChanged
<1>7. ASSUME marks # <<>> PROVE Undone(Working', "replace", m) = Working
    <2>. DEFINE z == mappings'  o == overwritten'
    <2>. HIDE DEF z, o
    <2>1. Undone(State(sequences, z, o), "replace", m) = State(sequences, [z EXCEPT ![m] = PutBack(z[m], Last(o))], Front(o))
        BY UndoneReplace
    <2>2. [z EXCEPT ![m] = PutBack(z[m], Last(o))] = mappings /\ Front(o) = overwritten
        BY <1>3, <1>5, <1>6, <1>7 DEF z, o
    <2>. QED BY <1>6, <2>1, <2>2, WorkingIs DEF z, o
<1>8. Fits(<<"replace", m>>, Len(sequences), Len(mappings))
    BY <1>2 DEF Fits
<1>. QED BY <1>1, <1>6, <1>7, <1>8, Mutated

(* A transaction opens.                                                    *)
LEMMA StepMark ==
    ASSUME Inv, Mark
    PROVE  Inv' /\ Was' = [k \in 1..(Len(marks) + 1) |-> IF k = Len(marks) + 1 THEN Working ELSE Was[k]]
<1>. DEFINE K == Len(marks)
            new == [mutations |-> Len(log), sequences |-> Len(sequences), mappings |-> Len(mappings),
                    verdicts |-> Len(verdicts), depth |-> Len(marks)]
<1>1. /\ marks' = Append(marks, new) /\ sequences' = sequences /\ mappings' = mappings /\ verdicts' = verdicts
      /\ log' = log /\ overwritten' = overwritten /\ Working' = Working
    BY DEF Mark, lanes, Working
<1>2. /\ new.mutations = Len(log) /\ new.sequences = Len(sequences) /\ new.mappings = Len(mappings)
      /\ new.verdicts = Len(verdicts)
    OBVIOUS
<1>. HIDE DEF new
<1>3. /\ Row(marks, K) /\ K \in Nat /\ Row(log, Len(log)) /\ Len(log) \in Nat
      /\ AllFit(log, Len(sequences), Len(mappings))
    BY RowLen DEF Inv, Rows, LogFits, AllFit
<1>4. /\ Row(marks', K + 1) /\ Len(marks') = K + 1 /\ marks'[K + 1] = new /\ \A k \in 1..K : marks'[k] = marks[k]
    BY <1>1, <1>3, RowAppend
<1>5. At(Working, log, new) = Working
    BY <1>2, <1>3, There, AtNow
<1>6. \A k \in 1..(K + 1) : k = K + 1 \/ (k \in 1..K /\ k # K + 1)
    BY <1>3
<1>7. /\ Was = [k \in 1..K |-> At(Working, log, marks[k])]
      /\ Was' = [k \in 1..(K + 1) |-> At(Working, log, marks'[k])]
    BY <1>1, <1>3, <1>4, WasIs, WasNext
<1>8. \A k \in 1..K : Was[k] = At(Working, log, marks[k]) /\ Was[k] = AtMark(marks[k])
    BY <1>7, WorkingIs
<1>9. Was' = [k \in 1..(K + 1) |-> IF k = K + 1 THEN Working ELSE Was[k]]
    BY <1>4, <1>5, <1>6, <1>7, <1>8
<1>10. ASSUME NEW k \in 1..Len(marks') PROVE MarkFits(marks[k])' /\ Sound(AtMark(marks[k]))'
    <2>1. Was'[k] = AtMark(marks[k])'
        <3>1. (k \in DOMAIN marks)'
            BY <1>4, <1>10, RowLen
        <3>. QED BY <3>1 DEF Was
    <2>2. CASE k = K + 1
        <3>1. AtMark(marks[k])' = Working
            BY <1>4, <1>9, <1>10, <2>1, <2>2
        <3>2. Fitting(new, log, Len(sequences), Len(mappings)) /\ new.verdicts \in 0..Len(verdicts)
            BY <1>2, <1>3, There DEF Fitting, AllFit
        <3>3. MarkFits(marks[k])'
            BY <1>1, <1>4, <2>2, <3>2 DEF MarkFits
        <3>. QED BY <3>1, <3>3 DEF Inv
    <2>3. CASE k # K + 1
        <3>1. k \in 1..K
            BY <1>4, <1>6, <1>10, <2>3
        <3>2. MarkFits(marks[k]) /\ Sound(AtMark(marks[k])) /\ marks'[k] = marks[k]
            BY <1>4, <3>1 DEF Inv, Nested
        <3>3. AtMark(marks[k])' = AtMark(marks[k])
            BY <1>4, <1>8, <1>9, <1>10, <2>1, <2>3, <3>1
        <3>4. MarkFits(marks[k])'
            BY <1>1, <3>2 DEF MarkFits
        <3>. QED BY <3>2, <3>3, <3>4
    <2>. QED BY <2>2, <2>3
<1>11. ASSUME NEW j \in 1..Len(marks'), NEW k \in 1..Len(marks'), j < k PROVE Within(marks'[j], marks'[k])
    <2>1. j \in 1..K
        BY <1>3, <1>4, <1>11
    <2>2. CASE k = K + 1
        <3>1. MarkFits(marks[j])
            BY <2>1 DEF Inv, Nested
        <3>. DEFINE mark == marks[j]
        <3>2. /\ mark.mutations \in 0..Len(log) /\ mark.sequences \in 0..Len(sequences)
              /\ mark.mappings \in 0..Len(mappings) /\ mark.verdicts \in 0..Len(verdicts)
            BY <3>1 DEF MarkFits, Fitting
        <3>. HIDE DEF mark
        <3>3. Within(mark, new)
            <4>1. /\ mark.mutations <= Len(log) /\ mark.sequences <= Len(sequences)
                  /\ mark.mappings <= Len(mappings) /\ mark.verdicts <= Len(verdicts)
                BY <3>2
            <4>. QED BY <1>2, <4>1 DEF Within
        <3>. QED BY <1>4, <2>1, <2>2, <3>3 DEF mark
    <2>3. CASE k # K + 1
        <3>1. k \in 1..K
            BY <1>4, <1>6, <2>3
        <3>2. Within(marks[j], marks[k])
            BY <1>11, <2>1, <3>1 DEF Inv, Nested
        <3>. QED BY <1>4, <2>1, <3>1, <3>2
    <2>. QED BY <2>2, <2>3
<1>12. marks' # <<>>
    BY <1>3, <1>4, RowEmpty
<1>13. Nested'
    BY <1>10, <1>11, <1>12 DEF Nested, Within
<1>14. Rows' /\ Sound(Working)' /\ LogFits'
    BY <1>1, <1>3, <1>4, There DEF Inv, Rows, LogFits
<1>. QED BY <1>9, <1>13, <1>14 DEF Inv

(* The newest transaction closes: what the others need.                    *)
LEMMA Dropped ==
    ASSUME NEW r, Row(r, Len(r)), r # <<>>
    PROVE  /\ Len(r) - 1 \in Nat /\ Len(r) \in 1..Len(r) /\ Begins(Front(r), r, Len(r) - 1)
           /\ Len(Front(r)) = Len(r) - 1 /\ Front(r) = SubSeq(r, 1, Len(r) - 1) /\ Last(r) = r[Len(r)]
<1>. DEFINE n == Len(r)
<1>1. n \in Nat /\ n # 0
    BY RowLen, RowEmpty
<1>2. n - 1 \in 0..n /\ n - 1 \in Nat /\ n \in 1..n
    BY <1>1
<1>3. Begins(SubSeq(r, 1, n - 1), r, n - 1)
    BY <1>2, BeginsCut
<1>4. Front(r) = SubSeq(r, 1, n - 1) /\ Last(r) = r[n]
    BY DEF Front, Last
<1>5. Len(SubSeq(r, 1, n - 1)) = n - 1
    BY <1>3, RowLen DEF Begins
<1>. QED BY <1>2, <1>3, <1>4, <1>5

LEMMA Closed ==
    ASSUME Inv, marks # <<>>, marks' = Front(marks), Sound(Working)', LogFits', Row(verdicts', Len(verdicts')),
           marks' = <<>> => log' = <<>>,
           marks' # <<>> => \A k \in 1..(Len(marks) - 1) :
                /\ Fitting(marks[k], log', Len(sequences'), Len(mappings'))
                /\ marks[k].verdicts \in 0..Len(verdicts')
                /\ At(Working', log', marks[k]) = At(Working, log, marks[k])
    PROVE  Inv' /\ Was' = [k \in 1..(Len(marks) - 1) |-> Was[k]]
<1>. DEFINE K == Len(marks)  J == Len(marks) - 1
<1>1. Row(marks, K) /\ K \in Nat /\ K # 0
    BY RowLen, RowEmpty DEF Inv, Rows
<1>2. /\ J \in Nat /\ Row(marks', J) /\ Len(marks') = J /\ \A k \in 1..J : marks'[k] = marks[k] /\ k \in 1..K
    BY <1>1, Dropped DEF Begins
<1>. HIDE DEF K, J
<1>3. ASSUME NEW k \in 1..J
      PROVE  /\ Fitting(marks[k], log', Len(sequences'), Len(mappings'))
             /\ marks[k].verdicts \in 0..Len(verdicts')
             /\ At(Working', log', marks[k]) = At(Working, log, marks[k])
    <2>1. marks' # <<>>
        BY <1>2, <1>3, RowEmpty
    <2>. QED BY <2>1 DEF J
<1>4. /\ Was = [k \in 1..K |-> At(Working, log, marks[k])]
      /\ Was' = [k \in 1..J |-> At(Working', log', marks'[k])]
    BY <1>1, <1>2, WasIs, WasNext DEF K
<1>5. Was' = [k \in 1..J |-> Was[k]]
    BY <1>2, <1>3, <1>4
<1>6. ASSUME NEW k \in 1..J PROVE MarkFits(marks[k])' /\ Sound(AtMark(marks[k]))'
    <2>1. k \in 1..K /\ marks'[k] = marks[k]
        BY <1>2
    <2>2. (k \in DOMAIN marks)' /\ k \in DOMAIN marks
        BY <1>1, <1>2, <2>1, RowLen
    <2>3. Was'[k] = AtMark(marks[k])' /\ Was[k] = AtMark(marks[k])
        BY <2>2 DEF Was
    <2>4. AtMark(marks[k])' = AtMark(marks[k])
        BY <1>5, <2>3
    <2>5. Sound(AtMark(marks[k]))
        BY <2>1 DEF Inv, Nested, K
    <2>6. MarkFits(marks[k])'
        BY <1>3, <2>1 DEF MarkFits
    <2>. QED BY <2>4, <2>5, <2>6
<1>7. Nested'
    <2>1. \A j, k \in 1..J : j < k => Within(marks'[j], marks'[k])
        BY <1>2 DEF Inv, Nested, K
    <2>2. \A k \in 1..Len(marks') : MarkFits(marks[k])' /\ Sound(AtMark(marks[k]))'
        BY <1>2, <1>6
    <2>. QED BY <1>2, <2>1, <2>2 DEF Nested, Within
<1>8. Rows'
    BY <1>2 DEF Rows
<1>. QED BY <1>5, <1>7, <1>8 DEF Inv, J

LEMMA StepCommit ==
    ASSUME Inv, Commit
    PROVE  Inv' /\ Was' = [k \in 1..(Len(marks) - 1) |-> Was[k]]
<1>1. /\ marks # <<>> /\ marks' = Front(marks) /\ log' = Kept(marks', log)
      /\ overwritten' = Kept(marks', overwritten) /\ sequences' = sequences /\ mappings' = mappings /\ verdicts' = verdicts
    BY DEF Commit, lanes
<1>2. marks' = <<>> => log' = <<>> /\ overwritten' = <<>>
    BY <1>1 DEF Kept
<1>3. marks' # <<>> => log' = log /\ overwritten' = overwritten
    BY <1>1 DEF Kept
<1>4. Row(overwritten', Len(overwritten')) /\ LogFits'
    <2>1. AllFit(<<>>, Len(sequences), Len(mappings))
        BY RowEmpty DEF AllFit
    <2>2. AllFit(log, Len(sequences), Len(mappings))
        BY DEF Inv, LogFits
    <2>3. Row(<<>>, Len(<<>>))
        BY RowEmpty
    <2>. QED BY <1>1, <1>2, <1>3, <2>1, <2>2, <2>3, There DEF LogFits
<1>5. Sound(Working)'
    <2>1. Sound(State(sequences', mappings', overwritten'))
        BY <1>1, <1>4, There, SoundIs
    <2>. QED BY <2>1, WorkingIs
<1>6. marks' # <<>> => \A k \in 1..(Len(marks) - 1) :
            /\ Fitting(marks[k], log', Len(sequences'), Len(mappings'))
            /\ marks[k].verdicts \in 0..Len(verdicts')
            /\ At(Working', log', marks[k]) = At(Working, log, marks[k])
    <2>. SUFFICES ASSUME marks' # <<>>, NEW k \in 1..(Len(marks) - 1)
                  PROVE  /\ Fitting(marks[k], log', Len(sequences'), Len(mappings'))
                         /\ marks[k].verdicts \in 0..Len(verdicts')
                         /\ At(Working', log', marks[k]) = At(Working, log, marks[k])
        OBVIOUS
    <2>1. k \in 1..Len(marks)
        BY <1>1, Dropped DEF Inv, Rows
    <2>2. MarkFits(marks[k])
        BY <2>1 DEF Inv, Nested
    <2>3. Working' = Working
        BY <1>1, <1>3 DEF Working
    <2>. QED BY <1>1, <1>3, <2>2, <2>3 DEF MarkFits
<1>. QED BY <1>1, <1>2, <1>4, <1>5, <1>6, There, Closed

LEMMA StepRollback ==
    ASSUME Inv, Rollback
    PROVE  /\ Inv' /\ Was' = [k \in 1..(Len(marks) - 1) |-> Was[k]]
           /\ sequences' = Was[Len(marks)].sequences /\ mappings' = Was[Len(marks)].mappings
           /\ verdicts' = SubSeq(verdicts, 1, marks[Len(marks)].verdicts)
           /\ marks' = Front(marks) /\ marks # <<>>
<1>. DEFINE K == Len(marks)  top == marks[K]  p == Len(sequences)  q == Len(mappings)
            w == Working  u == At(w, log, top)  less == SubSeq(log, 1, top.mutations)
<1>1. /\ marks # <<>> /\ marks' = Front(marks) /\ Last(marks) = top
      /\ K - 1 \in Nat /\ K \in 1..K /\ \A k \in 1..(K - 1) : k \in 1..K /\ k < K
    BY Dropped DEF Inv, Rows, Rollback
<1>2. AtMark(top) = u /\ Was[K] = u
    <2>1. Was = [k \in 1..K |-> At(w, log, marks[k])]
        BY WasIs DEF Inv, Rows
    <2>. QED BY <1>1, <2>1, WorkingIs
<1>3. /\ sequences' = u.sequences /\ mappings' = u.mappings /\ verdicts' = SubSeq(verdicts, 1, top.verdicts)
      /\ log' = Kept(marks', less) /\ overwritten' = Kept(marks', u.overwritten)
    BY <1>1, <1>2 DEF Rollback
<1>4. MarkFits(top) /\ Sound(u)
    BY <1>1, <1>2 DEF Inv, Nested
<1>5. Shaped(w, p, q) /\ AllFit(log, p, q) /\ Fitting(top, log, p, q) /\ top.verdicts \in 0..Len(verdicts)
    BY <1>4, There DEF Inv, LogFits, MarkFits
<1>6. /\ Shaped(u, top.sequences, top.mappings) /\ AllFit(less, top.sequences, top.mappings)
      /\ Len(less) = top.mutations /\ Begins(less, log, top.mutations)
      /\ \A mark : /\ mark.mutations \in 0..top.mutations
                   /\ mark.sequences \in 0..top.sequences /\ mark.mappings \in 0..top.mappings
           => At(u, less, mark) = At(w, log, mark)
    <2>. HIDE DEF w, top, p, q
    <2>1. Shaped(At(w, log, top), top.sequences, top.mappings)
        BY <1>5, AtRolled
    <2>3. AllFit(SubSeq(log, 1, top.mutations), top.sequences, top.mappings)
        BY <1>5, AtRolled
    <2>4. Begins(SubSeq(log, 1, top.mutations), log, top.mutations)
        BY <1>5, AtRolled
    <2>5. Len(SubSeq(log, 1, top.mutations)) = top.mutations
        BY <2>4, RowLen DEF Begins
    <2>2. ASSUME NEW mark, mark.mutations \in 0..top.mutations,
                 mark.sequences \in 0..top.sequences, mark.mappings \in 0..top.mappings
          PROVE  At(At(w, log, top), SubSeq(log, 1, top.mutations), mark) = At(w, log, mark)
        BY <1>5, <2>2, AtRolled
    <2>. QED BY <2>1, <2>2, <2>3, <2>4, <2>5 DEF u, less
<1>. HIDE DEF top, u, less, w
<1>7. Len(sequences') = top.sequences /\ Len(mappings') = top.mappings
    BY <1>3, <1>6, RowLen DEF Shaped
<1>8. Len(verdicts') = top.verdicts /\ Row(verdicts', Len(verdicts'))
    <2>1. Begins(SubSeq(verdicts, 1, top.verdicts), verdicts, top.verdicts)
        BY <1>5, There, BeginsCut
    <2>2. Row(verdicts', top.verdicts)
        BY <1>3, <2>1 DEF Begins
    <2>. QED BY <2>2, RowLen
<1>9. marks' = <<>> => log' = <<>> /\ overwritten' = <<>>
    BY <1>3 DEF Kept
<1>10. marks' # <<>> => log' = less /\ overwritten' = u.overwritten
    BY <1>3 DEF Kept
<1>11. u = State(u.sequences, u.mappings, u.overwritten)
    BY <1>6 DEF Shaped
<1>12. Sound(Working)'
    <2>1. Row(overwritten', Len(overwritten'))
        <3>1. Row(u.overwritten, Len(u.overwritten))
            BY <1>4 DEF Sound
        <3>. QED BY <1>9, <1>10, <3>1, RowEmpty
    <2>2. Sound(State(u.sequences, u.mappings, u.overwritten))
        BY <1>4, <1>11
    <2>3. Sound(State(u.sequences, u.mappings, overwritten'))
        BY <2>1, <2>2, SoundIs
    <2>4. Sound(State(sequences', mappings', overwritten'))
        BY <1>3, <2>3
    <2>. QED BY <2>4, WorkingIs
<1>13. LogFits'
    <2>1. AllFit(<<>>, top.sequences, top.mappings)
        BY RowEmpty DEF AllFit
    <2>. QED BY <1>6, <1>7, <1>9, <1>10, <2>1 DEF LogFits
<1>14. marks' # <<>> => \A k \in 1..(Len(marks) - 1) :
            /\ Fitting(marks[k], log', Len(sequences'), Len(mappings'))
            /\ marks[k].verdicts \in 0..Len(verdicts')
            /\ At(Working', log', marks[k]) = At(Working, log, marks[k])
    <2>. SUFFICES ASSUME marks' # <<>>, NEW k \in 1..(Len(marks) - 1)
                  PROVE  /\ Fitting(marks[k], log', Len(sequences'), Len(mappings'))
                         /\ marks[k].verdicts \in 0..Len(verdicts')
                         /\ At(Working', log', marks[k]) = At(Working, log, marks[k])
        OBVIOUS
    <2>. DEFINE mark == marks[k]
    <2>1. MarkFits(mark) /\ Within(mark, top)
        BY <1>1 DEF Inv, Nested, top
    <2>. HIDE DEF mark
    <2>2. /\ mark.mutations \in 0..top.mutations /\ mark.sequences \in 0..top.sequences
          /\ mark.mappings \in 0..top.mappings /\ mark.verdicts \in 0..top.verdicts
        <3>1. /\ mark.mutations \in Nat /\ mark.sequences \in Nat /\ mark.mappings \in Nat /\ mark.verdicts \in Nat
            <4>1. Len(log) \in Nat
                BY <1>5, RowLen DEF AllFit
            <4>. QED BY <2>1, <4>1, There DEF MarkFits, Fitting
        <3>2. /\ top.mutations \in Nat /\ top.sequences \in Nat /\ top.mappings \in Nat /\ top.verdicts \in Nat
            <4>1. Len(log) \in Nat
                BY <1>5, RowLen DEF AllFit
            <4>. QED BY <1>5, <4>1, There DEF Fitting
        <3>. QED BY <2>1, <3>1, <3>2 DEF Within
    <2>3. Working' = u
        BY <1>3, <1>10, <1>11, WorkingIs
    <2>4. At(Working', log', mark) = At(w, log, mark)
        BY <1>6, <1>10, <2>2, <2>3
    <2>5. Fitting(mark, less, top.sequences, top.mappings)
        <3>1. \A i \in 1..mark.mutations : Fits(log[i], mark.sequences, mark.mappings)
            BY <2>1 DEF MarkFits, Fitting
        <3>2. \A i \in 1..mark.mutations : less[i] = log[i]
            <4>1. top.mutations \in Nat
                <5>1. Len(log) \in Nat
                    BY <1>5, RowLen DEF AllFit
                <5>. QED BY <1>5, <5>1 DEF Fitting
            <4>2. \A i \in 1..mark.mutations : i \in 1..top.mutations
                BY <2>2, <4>1
            <4>. QED BY <1>6, <4>2 DEF Begins
        <3>. QED BY <1>6, <2>2, <3>1, <3>2 DEF Fitting
    <2>. QED BY <1>7, <1>8, <1>10, <2>2, <2>4, <2>5 DEF mark, w
<1>15. Inv' /\ Was' = [k \in 1..(Len(marks) - 1) |-> Was[k]]
    BY <1>1, <1>8, <1>9, <1>12, <1>13, <1>14, Closed
<1>. QED BY <1>1, <1>2, <1>3, <1>15 DEF top

LEMMA Begun == Init => Inv
<1>. SUFFICES ASSUME Init PROVE Inv
    OBVIOUS
<1>1. /\ sequences = <<>> /\ mappings = <<>> /\ verdicts = <<>> /\ log = <<>> /\ overwritten = <<>> /\ marks = <<>>
    BY DEF Init
<1>2. Row(<<>>, Len(<<>>)) /\ Len(<<>>) = 0
    BY RowEmpty
<1>3. Sound(State(<<>>, <<>>, <<>>))
    BY <1>2, SoundIs
<1>4. Sound(Working)
    BY <1>1, <1>3, WorkingIs
<1>5. Rows /\ LogFits
    BY <1>1, <1>2 DEF Rows, LogFits, AllFit
<1>6. Nested
    BY <1>1, <1>2 DEF Nested
<1>. QED BY <1>4, <1>5, <1>6 DEF Inv

-----------------------------------------------------------------------------
(* What the caller of the parse can tell, and what each open mark saw of   *)
(* it.                                                                     *)
Face(s, views, v) == [seqs |-> s, maps |-> views, verdicts |-> v]
Views(m) == [i \in DOMAIN m |-> Entries(m[i])]
Built == Shown(sequences, mappings, verdicts)
Saw(w, v, mark) == Shown(w.sequences, w.mappings, SubSeq(v, 1, mark.verdicts))
Saved == [k \in DOMAIN marks |-> Saw(Was[k], verdicts, marks[k])]

LEMMA Faced ==
    ASSUME NEW s, NEW m, NEW v
    PROVE  /\ Shown(s, m, v) = Face(s, Views(m), v)
           /\ Shown(s, m, v).seqs = s /\ Shown(s, m, v).maps = Views(m) /\ Shown(s, m, v).verdicts = v
BY DEF Shown, Face, Views

LEMMA SavedIs ==
    /\ Saved = [k \in DOMAIN marks |->
                LET was == AtMark(marks[k])
                IN Shown(was.sequences, was.mappings, SubSeq(verdicts, 1, marks[k].verdicts))]
    /\ Saved' = [k \in DOMAIN marks |->
                LET was == AtMark(marks[k])
                IN Shown(was.sequences, was.mappings, SubSeq(verdicts, 1, marks[k].verdicts))]'
<1>1. \A k \in DOMAIN marks : Was[k] = AtMark(marks[k])
    BY DEF Was
<1>2. \A k \in DOMAIN marks' : Was'[k] = AtMark(marks[k])'
    BY DEF Was
<1>. QED BY <1>1, <1>2 DEF Saved, Saw

(* A cut of verdicts, of more of them and of fewer.                        *)
LEMMA CutVerdicts ==
    ASSUME NEW r, Row(r, Len(r)), NEW n \in 0..Len(r)
    PROVE  /\ \A x : SubSeq(Append(r, x), 1, n) = SubSeq(r, 1, n)
           /\ \A m \in n..Len(r) : SubSeq(SubSeq(r, 1, m), 1, n) = SubSeq(r, 1, n)
           /\ SubSeq(r, 1, Len(r)) = r
<1>1. Len(r) \in Nat /\ n \in Nat
    BY RowLen
<1>2. Begins(SubSeq(r, 1, n), r, n)
    BY BeginsCut
<1>3. ASSUME NEW x PROVE SubSeq(Append(r, x), 1, n) = SubSeq(r, 1, n)
    <2>. DEFINE z == Append(r, x)
    <2>1. Row(z, Len(z)) /\ Begins(r, z, Len(r)) /\ Len(r) \in 0..Len(z)
        BY Lengthened
    <2>. HIDE DEF z
    <2>2. \A i \in 1..n : i \in 1..Len(r)
        BY <1>1
    <2>3. Begins(SubSeq(r, 1, n), z, n)
        BY <1>2, <2>1, <2>2 DEF Begins
    <2>4. n \in 0..Len(z)
        BY <1>1, <2>1
    <2>. QED BY <2>1, <2>3, <2>4, BeginsCut DEF z
<1>4. ASSUME NEW m \in n..Len(r) PROVE SubSeq(SubSeq(r, 1, m), 1, n) = SubSeq(r, 1, n)
    <2>. DEFINE z == SubSeq(r, 1, m)
    <2>1. m \in 0..Len(r) /\ n \in 0..m /\ \A i \in 1..n : i \in 1..m
        BY <1>1
    <2>2. Begins(z, r, m)
        BY <2>1, BeginsCut
    <2>. HIDE DEF z
    <2>3. Begins(SubSeq(r, 1, n), z, n) /\ Row(z, m)
        BY <1>2, <2>1, <2>2 DEF Begins
    <2>. QED BY <2>1, <2>3, BeginsCut DEF z
<1>5. SubSeq(r, 1, Len(r)) = r
    <2>1. Begins(r, r, Len(r)) /\ Len(r) \in 0..Len(r)
        BY <1>1 DEF Begins
    <2>. QED BY <2>1, BeginsCut
<1>. QED BY <1>3, <1>4, <1>5

LEMMA SavedKept ==
    ASSUME Inv, marks' = marks, Was' = Was,
           verdicts' = verdicts \/ \E x : verdicts' = Append(verdicts, x)
    PROVE  Saved' = Saved
<1>1. \A k \in DOMAIN marks : marks[k].verdicts \in 0..Len(verdicts)
    BY RowLen DEF Inv, Rows, Nested, MarkFits
<1>2. ASSUME NEW n \in 0..Len(verdicts) PROVE SubSeq(verdicts', 1, n) = SubSeq(verdicts, 1, n)
    <2>1. Row(verdicts, Len(verdicts))
        BY There
    <2>2. \A x : SubSeq(Append(verdicts, x), 1, n) = SubSeq(verdicts, 1, n)
        BY <2>1, CutVerdicts
    <2>. QED BY <2>2
<1>3. \A k \in DOMAIN marks : Saw(Was[k], verdicts', marks[k]) = Saw(Was[k], verdicts, marks[k])
    BY <1>1, <1>2 DEF Saw
<1>4. Saved' = [k \in DOMAIN marks |-> Saw(Was[k], verdicts', marks[k])]
    BY DEF Saved, Saw
<1>. QED BY <1>3, <1>4 DEF Saved

LEMMA SavedOpened ==
    ASSUME Inv, Mark
    PROVE  Saved' = Append(Saved, Built)
<1>. DEFINE K == Len(marks)
<1>1. Row(marks, K) /\ K \in Nat /\ DOMAIN marks = 1..K
    BY RowLen DEF Inv, Rows
<1>2. /\ Inv' /\ Was' = [k \in 1..(K + 1) |-> IF k = K + 1 THEN Working ELSE Was[k]] /\ verdicts' = verdicts
    BY StepMark DEF Mark
<1>3. /\ Row(marks', K + 1) /\ marks'[K + 1].verdicts = Len(verdicts) /\ \A k \in 1..K : marks'[k] = marks[k]
    BY <1>1, RowAppend DEF Mark
<1>4. DOMAIN marks' = 1..(K + 1)
    BY <1>3, RowLen
<1>. HIDE DEF K
<1>5. Saved = [k \in 1..K |-> Saw(Was[k], verdicts, marks[k])] /\ Row(Saved, K)
    BY <1>1 DEF Saved, Row
<1>6. Saved' = [k \in 1..(K + 1) |-> Saw(Was'[k], verdicts, marks'[k])]
    BY <1>2, <1>4 DEF Saved, Saw
<1>7. Saw(Was'[K + 1], verdicts, marks'[K + 1]) = Built
    <2>1. Was'[K + 1] = Working /\ SubSeq(verdicts, 1, Len(verdicts)) = verdicts
        <3>1. Len(verdicts) \in 0..Len(verdicts) /\ K + 1 \in 1..(K + 1)
            BY <1>1, There
        <3>. QED BY <1>2, <3>1, There, CutVerdicts
    <2>2. Working.sequences = sequences /\ Working.mappings = mappings
        BY DEF Working
    <2>. QED BY <1>3, <2>1, <2>2 DEF Saw, Built
<1>8. \A k \in 1..K : k \in 1..(K + 1) /\ k # K + 1
    BY <1>1
<1>9. \A k \in 1..K : Was'[k] = Was[k] /\ marks'[k] = marks[k]
    BY <1>2, <1>3, <1>8
<1>10. Row(Append(Saved, Built), K + 1) /\ Append(Saved, Built)[K + 1] = Built
       /\ \A k \in 1..K : Append(Saved, Built)[k] = Saved[k]
    BY <1>5, RowAppend
<1>11. \A k \in 1..(K + 1) : k = K + 1 \/ k \in 1..K
    BY <1>1
<1>12. ASSUME NEW k \in 1..(K + 1) PROVE Saw(Was'[k], verdicts, marks'[k]) = Append(Saved, Built)[k]
    <2>1. CASE k = K + 1
        BY <1>7, <1>10, <2>1
    <2>2. CASE k \in 1..K
        BY <1>5, <1>9, <1>10, <2>2
    <2>. QED BY <1>11, <2>1, <2>2
<1>. QED BY <1>6, <1>10, <1>12 DEF Row

LEMMA SavedClosed ==
    ASSUME Inv, marks # <<>>, marks' = Front(marks), Was' = [k \in 1..(Len(marks) - 1) |-> Was[k]],
           verdicts' = verdicts \/ verdicts' = SubSeq(verdicts, 1, marks[Len(marks)].verdicts)
    PROVE  Saved # <<>> /\ Len(Saved) = Len(marks) /\ Saved' = SubSeq(Saved, 1, Len(Saved) - 1)
<1>. DEFINE K == Len(marks)  J == Len(marks) - 1
<1>1. Row(marks, K) /\ K \in Nat /\ DOMAIN marks = 1..K /\ J \in Nat /\ J \in 0..K /\ K \in 1..K
    BY RowLen, Dropped DEF Inv, Rows
<1>2. Row(marks', J) /\ DOMAIN marks' = 1..J /\ \A k \in 1..J : marks'[k] = marks[k] /\ k \in 1..K /\ k < K
    BY Dropped, RowLen DEF Inv, Rows, Begins
<1>3. Was' = [k \in 1..J |-> Was[k]] /\ (verdicts' = verdicts \/ verdicts' = SubSeq(verdicts, 1, marks[K].verdicts))
    OBVIOUS
<1>. HIDE DEF K, J
<1>4. Saved = [k \in 1..K |-> Saw(Was[k], verdicts, marks[k])] /\ Row(Saved, K)
    BY <1>1 DEF Saved, Row
<1>5. Saved' = [k \in 1..J |-> Saw(Was'[k], verdicts', marks'[k])]
    BY <1>2 DEF Saved, Saw
<1>6. ASSUME NEW k \in 1..J PROVE Saw(Was'[k], verdicts', marks'[k]) = Saved[k]
    <2>. DEFINE n == marks[k].verdicts  m == marks[K].verdicts
    <2>1. n \in 0..Len(verdicts) /\ m \in 0..Len(verdicts) /\ n <= m
        BY <1>1, <1>2 DEF Inv, Nested, MarkFits, Within, K
    <2>2. m \in n..Len(verdicts)
        BY <2>1, There
    <2>. HIDE DEF n, m
    <2>3. SubSeq(verdicts', 1, n) = SubSeq(verdicts, 1, n)
        <3>1. Row(verdicts, Len(verdicts))
            BY There
        <3>2. \A i \in n..Len(verdicts) : SubSeq(SubSeq(verdicts, 1, i), 1, n) = SubSeq(verdicts, 1, n)
            BY <2>1, <3>1, CutVerdicts
        <3>. QED BY <1>3, <2>2, <3>2 DEF m
    <2>4. marks'[k] = marks[k] /\ Was'[k] = Was[k] /\ k \in 1..K
        BY <1>2, <1>3
    <2>5. Saw(Was'[k], verdicts', marks'[k]) = Saw(Was[k], verdicts, marks[k])
        BY <2>3, <2>4 DEF Saw, n
    <2>. QED BY <1>4, <2>4, <2>5
<1>7. Saved' = [k \in 1..J |-> Saved[k]]
    BY <1>5, <1>6
<1>8. SubSeq(Saved, 1, J) = [k \in 1..J |-> Saved[k]] /\ Len(Saved) = K
    BY <1>1, <1>4, RowCut, RowLen
<1>9. Saved # <<>>
    <2>1. K # 0
        BY <1>1
    <2>. QED BY <1>8, <2>1, RowEmpty
<1>. QED BY <1>7, <1>8, <1>9 DEF K, J

-----------------------------------------------------------------------------
(* Steps of the transactions, as the parse takes them.                     *)
LEMMA Opens ==
    ASSUME Saved' = Append(Saved, Built), Built' = Built
    PROVE  Transactions!Open
BY SavedIs DEF Transactions!Open, Built

LEMMA Keeps ==
    ASSUME Saved # <<>>, Saved' = SubSeq(Saved, 1, Len(Saved) - 1), Built' = Built
    PROVE  Transactions!Keep
BY SavedIs DEF Transactions!Keep, Transactions!Close, Built

LEMMA Abandons ==
    ASSUME Saved # <<>>, Saved' = SubSeq(Saved, 1, Len(Saved) - 1), Built' = Saved[Len(Saved)]
    PROVE  Transactions!Abandon
BY SavedIs DEF Transactions!Abandon, Transactions!Close, Transactions!Newest, Built

LEMMA Builds ==
    ASSUME Saved' = Saved,
           \/ Built' = [Built EXCEPT !.seqs = Append(@, <<>>)]
           \/ \E p \in Policies : Built' = [Built EXCEPT !.maps = Append(@, [policy |-> p, entries |-> <<>>])]
           \/ \E s \in DOMAIN Built.seqs, v \in Values : Built' = [Built EXCEPT !.seqs[s] = Append(@, v)]
           \/ \E m \in DOMAIN Built.maps, k \in Keys, v \in Values :
                Built' = [Built EXCEPT !.maps[m] = Transactions!Inserted(@, k, v),
                                       !.verdicts = IF Transactions!Refused(Built.maps[m], k) THEN Append(@, k) ELSE @]
           \/ \E k \in Keys : Built' = [Built EXCEPT !.verdicts = Append(@, k)]
    PROVE  Transactions!Build
<1>1. (UNCHANGED [k \in DOMAIN marks |->
                LET was == AtMark(marks[k])
                IN Shown(was.sequences, was.mappings, SubSeq(verdicts, 1, marks[k].verdicts))])
    BY SavedIs
<1>. QED BY <1>1 DEF Transactions!Build, Transactions!Policies, Policies, Built

(* What the caller can tell of a builder begun or changed.                 *)
LEMMA Refaced ==
    ASSUME NEW s, NEW e, NEW v, NEW x
    PROVE  /\ [Face(s, e, v) EXCEPT !.seqs = x] = Face(x, e, v)
           /\ [Face(s, e, v) EXCEPT !.maps = x] = Face(s, x, v)
           /\ [Face(s, e, v) EXCEPT !.verdicts = x] = Face(s, e, x)
BY DEF Face

LEMMA ViewsAppend ==
    ASSUME NEW m, Row(m, Len(m)), NEW x
    PROVE  Views(Append(m, x)) = Append(Views(m), Entries(x))
<1>. DEFINE n == Len(m)  z == Append(m, x)  y == Append(Views(m), Entries(x))
<1>1. n \in Nat /\ DOMAIN m = 1..n /\ Row(m, n)
    BY RowLen
<1>2. Row(z, n + 1) /\ z[n + 1] = x /\ \A i \in 1..n : z[i] = m[i]
    BY <1>1, RowAppend
<1>3. Row(Views(m), n) /\ \A i \in 1..n : Views(m)[i] = Entries(m[i])
    BY <1>1 DEF Views, Row
<1>4. Row(y, n + 1) /\ y[n + 1] = Entries(x) /\ \A i \in 1..n : y[i] = Views(m)[i]
    BY <1>3, RowAppend
<1>. HIDE DEF z, y, n
<1>5. DOMAIN z = 1..(n + 1)
    BY <1>2, RowLen
<1>6. Views(z) = [i \in 1..(n + 1) |-> Entries(z[i])]
    BY <1>5 DEF Views
<1>7. \A i \in 1..(n + 1) : i = n + 1 \/ i \in 1..n
    BY <1>1
<1>8. \A i \in 1..(n + 1) : Entries(z[i]) = y[i]
    BY <1>2, <1>3, <1>4, <1>7
<1>9. y = [i \in 1..(n + 1) |-> y[i]]
    BY <1>4 DEF Row
<1>10. Views(z) = y
    BY <1>6, <1>8, <1>9
<1>. QED BY <1>10 DEF z, y

ViewsChange(m, i, x) ==
    /\ Views([m EXCEPT ![i] = x]) = [Views(m) EXCEPT ![i] = Entries(x)]
    /\ Views(m)[i] = Entries(m[i]) /\ DOMAIN Views(m) = 1..Len(m)

LEMMA ViewsChanged ==
    ASSUME NEW m, Row(m, Len(m)), NEW i \in 1..Len(m), NEW x
    PROVE  ViewsChange(m, i, x)
<1>. DEFINE z == [m EXCEPT ![i] = x]  y == [Views(m) EXCEPT ![i] = Entries(x)]  n == Len(m)
<1>1. DOMAIN m = 1..n /\ DOMAIN z = 1..n
    BY RowLen
<1>2. Views(m) = [j \in 1..n |-> Entries(m[j])] /\ Views(z) = [j \in 1..n |-> Entries(z[j])]
    BY <1>1 DEF Views
<1>3. y = [j \in 1..n |-> IF j = i THEN Entries(x) ELSE Entries(m[j])]
    BY <1>2
<1>4. \A j \in 1..n : z[j] = IF j = i THEN x ELSE m[j]
    BY <1>1
<1>. HIDE DEF z, n
<1>5. \A j \in 1..n : Entries(z[j]) = IF j = i THEN Entries(x) ELSE Entries(m[j])
    BY <1>4
<1>6. Views(z) = y
    BY <1>2, <1>3, <1>5
<1>. QED BY <1>2, <1>6 DEF z, n, ViewsChange

(* What the promise makes of a key that arrives is what the builder does.  *)
LEMMA InsertedNew ==
    ASSUME NEW map, Indexed(map), NEW key, key \notin DOMAIN map.keys, NEW v, NEW ks
    PROVE  /\ Transactions!Inserted(Entries(map), key, v) = Entries(Map(map.policy, Append(map.entries, <<key, v>>), ks))
           /\ ~Transactions!Refused(Entries(map), key)
<1>1. Entries(map).entries = map.entries /\ Entries(map).policy = map.policy
    BY DEF Entries
<1>2. DOMAIN map.entries = 1..Len(map.entries)
    BY RowLen DEF Indexed
<1>3. Transactions!HeldAt(Entries(map), key) = {}
    BY <1>1, <1>2 DEF Transactions!HeldAt, Indexed
<1>4. Transactions!Inserted(Entries(map), key, v) = [Entries(map) EXCEPT !.entries = Append(map.entries, <<key, v>>)]
    BY <1>1, <1>3 DEF Transactions!Inserted
<1>. DEFINE e == Append(map.entries, <<key, v>>)
<1>. HIDE DEF e
<1>5. [Entries(map) EXCEPT !.entries = e] = Entries(Map(map.policy, e, ks))
    BY DEF Entries, Map
<1>. QED BY <1>3, <1>4, <1>5 DEF Transactions!Refused, e

LEMMA InsertedOver ==
    ASSUME NEW map, Indexed(map), map.policy = "last", NEW key \in DOMAIN map.keys, NEW v,
           NEW e2, Changed(e2, map.entries, map.keys[key], <<key, v>>)
    PROVE  /\ Transactions!Inserted(Entries(map), key, v) = Entries(Map(map.policy, e2, map.keys))
           /\ ~Transactions!Refused(Entries(map), key)
<1>. DEFINE e == map.entries  n == Len(e)  at == map.keys[key]
<1>1. Entries(map).entries = e /\ Entries(map).policy = map.policy
    BY DEF Entries
<1>2. DOMAIN e = 1..n
    BY RowLen DEF Indexed
<1>3. at \in 1..n /\ \A i \in 1..n : e[i][1] = key <=> i = at
    BY DEF Indexed
<1>4. Transactions!HeldAt(Entries(map), key) # {}
    BY <1>1, <1>2, <1>3 DEF Transactions!HeldAt
<1>5. Transactions!Inserted(Entries(map), key, v)
        = [Entries(map) EXCEPT !.entries = [i \in DOMAIN e |-> IF e[i][1] = key THEN <<key, v>> ELSE e[i]]]
    BY <1>1, <1>4 DEF Transactions!Inserted
<1>6. [i \in DOMAIN e |-> IF e[i][1] = key THEN <<key, v>> ELSE e[i]] = e2
    <2>1. e2 = [i \in 1..n |-> e2[i]] /\ \A i \in 1..n : e2[i] = IF i = at THEN <<key, v>> ELSE e[i]
        BY DEF Changed, Row
    <2>. HIDE DEF e, n, at
    <2>. QED BY <1>2, <1>3, <2>1
<1>7. [Entries(map) EXCEPT !.entries = e2] = Entries(Map(map.policy, e2, map.keys))
    BY DEF Entries, Map
<1>. QED BY <1>5, <1>6, <1>7 DEF Transactions!Refused, Entries

-----------------------------------------------------------------------------
(* Each action of the parse, as a step of the transactions.                *)
LEMMA BuildsSequence == ASSUME Inv, BeginSequence PROVE Transactions!Build
<1>1. Saved' = Saved
    BY StepBeginSequence, SavedKept DEF BeginSequence
<1>2. Built = Face(sequences, Views(mappings), verdicts)
    BY Faced DEF Built
<1>3. Built' = Face(Append(sequences, <<>>), Views(mappings), verdicts)
    BY Faced DEF Built, BeginSequence
<1>4. Built.seqs = sequences
    BY Faced DEF Built
<1>5. Built' = [Built EXCEPT !.seqs = Append(Built.seqs, <<>>)]
    <2>. DEFINE x == Append(sequences, <<>>)  e == Views(mappings)
    <2>. HIDE DEF x, e
    <2>1. [Face(sequences, e, verdicts) EXCEPT !.seqs = x] = Face(x, e, verdicts)
        BY DEF Face
    <2>. QED BY <1>2, <1>3, <1>4, <2>1 DEF x, e
<1>. QED BY <1>1, <1>5, Builds

LEMMA BuildsMember ==
    ASSUME Inv, NEW s \in DOMAIN sequences, NEW v \in Values, AppendSequence(s, v)
    PROVE  Transactions!Build
<1>1. Saved' = Saved
    BY StepAppendSequence, SavedKept DEF AppendSequence
<1>. DEFINE z == [sequences EXCEPT ![s] = Append(sequences[s], v)]
<1>2. Built = Face(sequences, Views(mappings), verdicts) /\ Built.seqs = sequences
    BY Faced DEF Built
<1>3. Built' = Face(z, Views(mappings), verdicts)
    BY Faced DEF Built, AppendSequence
<1>4. [Built EXCEPT !.seqs[s] = Append(@, v)] = [Built EXCEPT !.seqs = z]
    <2>1. [Built EXCEPT !.seqs[s] = Append(@, v)] = [Built EXCEPT !.seqs = [Built.seqs EXCEPT ![s] = Append(Built.seqs[s], v)]]
        OBVIOUS
    <2>2. [Built.seqs EXCEPT ![s] = Append(Built.seqs[s], v)] = z
        BY <1>2
    <2>. HIDE DEF z
    <2>. QED BY <2>1, <2>2
<1>. HIDE DEF z
<1>5. Built' = [Built EXCEPT !.seqs[s] = Append(@, v)]
    BY <1>2, <1>3, <1>4, Refaced
<1>. QED BY <1>1, <1>2, <1>5, Builds

LEMMA BuildsMapping ==
    ASSUME Inv, NEW p \in Policies, BeginMapping(p)
    PROVE  Transactions!Build
<1>. DEFINE new == [policy |-> p, entries |-> <<>>, keys |-> <<>>]  shown == [policy |-> p, entries |-> <<>>]
<1>1. Saved' = Saved
    BY StepBeginMapping, SavedKept DEF BeginMapping
<1>2. Built = Face(sequences, Views(mappings), verdicts) /\ Built.maps = Views(mappings)
    BY Faced DEF Built
<1>3. Entries(new) = shown
    BY DEF Entries
<1>4. mappings' = Append(mappings, new)
    BY DEF BeginMapping
<1>. HIDE DEF new, shown
<1>5. Views(mappings') = Append(Views(mappings), shown)
    BY <1>3, <1>4, There, ViewsAppend
<1>6. Built' = Face(sequences, Views(mappings'), verdicts)
    BY Faced DEF Built, BeginMapping
<1>7. Built' = [Built EXCEPT !.maps = Append(Built.maps, shown)]
    <2>. DEFINE e == Views(mappings)  x == Append(e, shown)
    <2>. HIDE DEF x, e
    <2>1. [Face(sequences, e, verdicts) EXCEPT !.maps = x] = Face(sequences, x, verdicts)
        BY DEF Face
    <2>. QED BY <1>2, <1>5, <1>6, <2>1 DEF x, e
<1>. QED BY <1>1, <1>7, Builds DEF shown

LEMMA BuildsEntry ==
    ASSUME Inv, NEW m \in DOMAIN mappings, NEW k \in Keys, NEW v \in Values, NEW map2,
           mappings' = [mappings EXCEPT ![m] = map2], sequences' = sequences, verdicts' = verdicts, Saved' = Saved,
           Transactions!Inserted(Entries(mappings[m]), k, v) = Entries(map2), ~Transactions!Refused(Entries(mappings[m]), k)
    PROVE  Transactions!Build
<1>. DEFINE x == Entries(map2)  z == [Views(mappings) EXCEPT ![m] = x]
<1>1. Built = Face(sequences, Views(mappings), verdicts) /\ Built.maps = Views(mappings)
    BY Faced DEF Built
<1>2. Built.maps[m] = Entries(mappings[m]) /\ m \in DOMAIN Built.maps /\ Views(mappings') = z
    <2>1. m \in 1..Len(mappings)
        BY There
    <2>2. Row(mappings, Len(mappings))
        BY There
    <2>3. /\ Views([mappings EXCEPT ![m] = map2]) = [Views(mappings) EXCEPT ![m] = Entries(map2)]
          /\ Views(mappings)[m] = Entries(mappings[m]) /\ DOMAIN Views(mappings) = 1..Len(mappings)
        <3>1. ViewsChange(mappings, m, map2)
            BY <2>1, <2>2, ViewsChanged
        <3>. QED BY <3>1 DEF ViewsChange
    <2>. QED BY <1>1, <2>1, <2>3
<1>3. Built' = Face(sequences, Views(mappings'), verdicts)
    BY Faced DEF Built
<1>. DEFINE y == Transactions!Inserted(Built.maps[m], k, v)
            r == IF Transactions!Refused(Built.maps[m], k) THEN Append(Built.verdicts, k) ELSE Built.verdicts
<1>4. y = x /\ r = verdicts
    BY <1>2, Faced DEF Built
<1>5. [Built EXCEPT !.maps[m] = y, !.verdicts = r] = [[Built EXCEPT !.maps = [Built.maps EXCEPT ![m] = y]] EXCEPT !.verdicts = r]
    <2>. HIDE DEF y, r
    <2>. QED OBVIOUS
<1>6. [Built.maps EXCEPT ![m] = y] = z
    <2>. HIDE DEF x, y
    <2>. QED BY <1>1, <1>4
<1>7. Built' = [Built EXCEPT !.maps[m] = y, !.verdicts = r]
    <2>. HIDE DEF x, y, z, r
    <2>1. [Built EXCEPT !.maps = z] = Face(sequences, z, verdicts)
        BY <1>1, Refaced
    <2>2. [Face(sequences, z, verdicts) EXCEPT !.verdicts = verdicts] = Face(sequences, z, verdicts)
        BY DEF Face
    <2>. QED BY <1>2, <1>3, <1>4, <1>5, <1>6, <2>1, <2>2
<1>8. Built' = [Built EXCEPT !.maps[m] = Transactions!Inserted(@, k, v),
                             !.verdicts = IF Transactions!Refused(Built.maps[m], k) THEN Append(@, k) ELSE @]
    BY <1>7
<1>. QED BY <1>2, <1>8, Builds

LEMMA BuildsInsert ==
    ASSUME Inv, NEW m \in DOMAIN mappings, NEW k \in Keys, NEW v \in Values, InsertKey(m, k, v)
    PROVE  Transactions!Build
<1>. DEFINE map == mappings[m]  ks == With(map.keys, k, Len(map.entries) + 1)
            map2 == Map(map.policy, Append(map.entries, <<k, v>>), ks)
<1>1. Saved' = Saved
    BY StepInsertKey, SavedKept DEF InsertKey
<1>2. Indexed(map) /\ k \notin DOMAIN map.keys /\ sequences' = sequences /\ verdicts' = verdicts
    BY There DEF InsertKey
<1>3. mappings' = [mappings EXCEPT ![m] = map2]
    BY InsertMakes
<1>4. Transactions!Inserted(Entries(map), k, v) = Entries(map2) /\ ~Transactions!Refused(Entries(map), k)
    <2>. HIDE DEF map, ks, map2
    <2>1. /\ Transactions!Inserted(Entries(map), k, v) = Entries(Map(map.policy, Append(map.entries, <<k, v>>), ks))
          /\ ~Transactions!Refused(Entries(map), k)
        BY <1>2, InsertedNew
    <2>. QED BY <2>1 DEF map2
<1>. HIDE DEF map2
<1>. QED BY <1>1, <1>2, <1>3, <1>4, BuildsEntry

LEMMA BuildsReplace ==
    ASSUME Inv, NEW m \in DOMAIN mappings, NEW k \in Keys, NEW v \in Values, ReplaceDuplicate(m, k, v)
    PROVE  Transactions!Build
<1>. DEFINE map == mappings[m]  e2 == [map.entries EXCEPT ![map.keys[k]] = <<k, v>>]
            map2 == Map(map.policy, e2, map.keys)
<1>1. Saved' = Saved
    BY StepReplace, SavedKept DEF ReplaceDuplicate
<1>2. Indexed(map) /\ k \in DOMAIN map.keys /\ map.policy = "last" /\ sequences' = sequences /\ verdicts' = verdicts
    BY There DEF ReplaceDuplicate
<1>3. mappings' = [mappings EXCEPT ![m] = map2]
    BY ReplaceMakes
<1>4. Changed(e2, map.entries, map.keys[k], <<k, v>>)
    BY <1>2 DEF Indexed, Row, Changed
<1>. HIDE DEF e2
<1>5. Transactions!Inserted(Entries(map), k, v) = Entries(map2) /\ ~Transactions!Refused(Entries(map), k)
    BY <1>2, <1>4, InsertedOver
<1>. HIDE DEF map2
<1>. QED BY <1>1, <1>2, <1>3, <1>5, BuildsEntry

LEMMA BuildsVerdict ==
    ASSUME Inv, NEW k \in Keys, verdicts' = Append(verdicts, k), UNCHANGED <<lanes, log, overwritten, marks>>
    PROVE  Transactions!Build
<1>1. Saved' = Saved
    BY StepNoted, SavedKept
<1>2. Built = Face(sequences, Views(mappings), verdicts) /\ Built.verdicts = verdicts
    BY Faced DEF Built
<1>3. Built' = Face(sequences, Views(mappings), Append(verdicts, k))
    BY Faced DEF Built, lanes
<1>4. Built' = [Built EXCEPT !.verdicts = Append(Built.verdicts, k)]
    <2>. DEFINE x == Append(verdicts, k)  e == Views(mappings)
    <2>. HIDE DEF x, e
    <2>1. [Face(sequences, e, verdicts) EXCEPT !.verdicts = x] = Face(sequences, e, x)
        BY DEF Face
    <2>. QED BY <1>2, <1>3, <2>1 DEF x, e
<1>. QED BY <1>1, <1>4, Builds

LEMMA BeginsEmpty == Init => Transactions!Init
<1>. SUFFICES ASSUME Init PROVE Transactions!Init
    OBVIOUS
<1>1. sequences = <<>> /\ mappings = <<>> /\ verdicts = <<>> /\ marks = <<>>
    BY DEF Init
<1>2. Row(Views(<<>>), 0) /\ Row(Saved, 0)
    <2>1. DOMAIN <<>> = 1..0
        BY RowEmpty, RowLen
    <2>. QED BY <1>1, <2>1 DEF Views, Saved, Row
<1>3. Views(<<>>) = <<>> /\ Saved = <<>>
    BY <1>2, RowEmpty
<1>4. Shown(<<>>, <<>>, <<>>) = Transactions!Empty
    BY <1>3, Faced DEF Face, Transactions!Empty
<1>. QED BY <1>1, <1>3, <1>4, SavedIs DEF Transactions!Init

LEMMA StepOpens == ASSUME Inv, Mark PROVE Transactions!Open
<1>1. Built' = Built
    BY DEF Mark, Built, lanes
<1>. QED BY <1>1, SavedOpened, Opens

LEMMA StepKeeps == ASSUME Inv, Commit PROVE Transactions!Keep
<1>1. Built' = Built /\ marks # <<>> /\ marks' = Front(marks) /\ verdicts' = verdicts
    BY DEF Commit, Built, lanes
<1>2. Was' = [k \in 1..(Len(marks) - 1) |-> Was[k]]
    BY StepCommit
<1>. QED BY <1>1, <1>2, SavedClosed, Keeps

LEMMA StepAbandons == ASSUME Inv, Rollback PROVE Transactions!Abandon
<1>. DEFINE K == Len(marks)
<1>1. /\ Was' = [k \in 1..(K - 1) |-> Was[k]]
      /\ sequences' = Was[K].sequences /\ mappings' = Was[K].mappings
      /\ verdicts' = SubSeq(verdicts, 1, marks[K].verdicts) /\ marks' = Front(marks) /\ marks # <<>>
    BY StepRollback
<1>2. Saved # <<>> /\ Len(Saved) = K /\ Saved' = SubSeq(Saved, 1, Len(Saved) - 1)
    BY <1>1, SavedClosed
<1>3. K \in DOMAIN marks
    BY <1>1, Dropped, RowLen DEF Inv, Rows
<1>4. Saved[K] = Saw(Was[K], verdicts, marks[K])
    BY <1>3 DEF Saved
<1>5. Built' = Saved[K]
    BY <1>1, <1>4 DEF Built, Saw
<1>. QED BY <1>2, <1>5, Abandons

(* Every action keeps the account, and is a step of the transactions.      *)
LEMMA Steps ==
    ASSUME Inv, [Next]_vars
    PROVE  Inv' /\ [Transactions!Next]_<<Built, Saved>>
<1>1. CASE BeginSequence
    BY <1>1, StepBeginSequence, BuildsSequence DEF Transactions!Next
<1>2. CASE \E p \in Policies : BeginMapping(p)
    BY <1>2, StepBeginMapping, BuildsMapping DEF Transactions!Next
<1>3. CASE \E s \in DOMAIN sequences, v \in Values : AppendSequence(s, v)
    BY <1>3, StepAppendSequence, BuildsMember DEF Transactions!Next
<1>4. CASE \E m \in DOMAIN mappings, k \in Keys : RefuseDuplicate(m, k)
    BY <1>4, StepNoted, BuildsVerdict DEF Transactions!Next, RefuseDuplicate
<1>5. CASE \E m \in DOMAIN mappings, k \in Keys, v \in Values : InsertKey(m, k, v)
    BY <1>5, StepInsertKey, BuildsInsert DEF Transactions!Next
<1>6. CASE \E m \in DOMAIN mappings, k \in Keys, v \in Values : ReplaceDuplicate(m, k, v)
    BY <1>6, StepReplace, BuildsReplace DEF Transactions!Next
<1>7. CASE \E k \in Keys : Record(k)
    BY <1>7, StepNoted, BuildsVerdict DEF Transactions!Next, Record
<1>8. CASE Mark
    BY <1>8, StepMark, StepOpens DEF Transactions!Next
<1>9. CASE Commit
    BY <1>9, StepCommit, StepKeeps DEF Transactions!Next
<1>10. CASE Rollback
    BY <1>10, StepRollback, StepAbandons DEF Transactions!Next
<1>11. CASE UNCHANGED vars
    <2>1. UNCHANGED <<sequences, mappings, verdicts, log, overwritten, marks>>
        BY <1>11 DEF vars, lanes
    <2>2. Working' = Working /\ Cut(Working', Len(sequences), Len(mappings)) = Working
        BY <2>1, There DEF Working
    <2>3. Sound(Working)' /\ Row(verdicts', Len(verdicts'))
        BY <2>1, <2>2, There DEF Inv
    <2>4. Inv' /\ Was' = Was
        BY <2>1, <2>2, <2>3, There, Grown
    <2>5. Saved' = Saved /\ Built' = Built
        BY <2>1, <2>4, SavedKept DEF Built
    <2>. QED BY <2>4, <2>5
<1>. QED BY <1>1, <1>2, <1>3, <1>4, <1>5, <1>6, <1>7, <1>8, <1>9, <1>10, <1>11 DEF Next

-----------------------------------------------------------------------------
(* The account holds in every state of the product: the log describes the  *)
(* builders there are, and no mark reaches past the mark after it.         *)
THEOREM Accounted == Spec => []Inv
<1>1. Inv /\ [Next]_vars => Inv'
    BY Steps
<1>. QED BY Begun, <1>1, PTL DEF Spec

(* Speculation is invisible once abandoned, whatever was built inside it,  *)
(* however transactions nest, and with any values, keys and bounds.        *)
THEOREM RolledBack == Spec => RollsBackExactly
<1>. DEFINE shown == Shown(sequences, mappings, verdicts)
            saw == [k \in DOMAIN marks |->
                        LET was == AtMark(marks[k])
                        IN Shown(was.sequences, was.mappings, SubSeq(verdicts, 1, marks[k].verdicts))]
<1>1. Inv /\ [Next]_vars => [Transactions!Next]_<<shown, saw>>
    <2>. SUFFICES ASSUME Inv, [Next]_vars PROVE [Transactions!Next]_<<shown, saw>>
        OBVIOUS
    <2>1. [Transactions!Next]_<<Built, Saved>>
        BY Steps
    <2>2. Saved = saw /\ Saved' = saw' /\ Built = shown /\ Built' = shown'
        BY SavedIs DEF Built
    <2>. HIDE DEF saw, shown
    <2>. QED BY <2>1, <2>2
<1>2. Init => Transactions!Init
    BY BeginsEmpty
<1>. QED BY Accounted, <1>1, <1>2, PTL DEF Spec, RollsBackExactly, Transactions!Spec
=============================================================================
