--------------------------- MODULE PdaPredicates ---------------------------
(***************************************************************************)
(* What the predictive parser knows of a grammar before it decides         *)
(* anything (pda/analysis/predicates, and the fixpoints of analysis): which *)
(* parts derive nothing, the characters a part can begin with, hold, or be *)
(* lengthened by once complete, and those that can come after it.          *)
(*                                                                         *)
(* d is the analysis as far as it has been solved.  Token atoms are left   *)
(* out.                                                                    *)
(***************************************************************************)
EXTENDS GrammarShapes

Known(table, rule) == IF rule \in DOMAIN table THEN table[rule] ELSE EveryChar

RECURSIVE AtomNullable(_, _)
ItemNullable(d, item) == item.lo = 0 \/ AtomNullable(d, item.atom)
SeqNullable(d, items) == \A item \in ToSet(items) : ItemNullable(d, item)
AtomNullable(d, atom) ==
    CASE IsLiteral(atom) -> atom.text = <<>>
      [] IsClass(atom)   -> FALSE
      [] IsRef(atom)     -> atom.rule \in d.nullable
      [] IsGroup(atom)   -> \E arm \in ToSet(atom.arms) : SeqNullable(d, arm)

After(items, k) == SubSeq(items, k + 1, Len(items))
(* The items up to the first that cannot derive nothing.                   *)
Leads(d, items) == {k \in DOMAIN items : \A m \in 1..(k - 1) : ItemNullable(d, items[m])}
Solid(d, items) == {k \in Leads(d, items) : ~ItemNullable(d, items[k])}

-----------------------------------------------------------------------------
(* FIRST, and hard FIRST, to which what may be absent contributes nothing. *)
RECURSIVE AtomFirst(_, _), AtomHard(_, _)
SeqFirst(d, items) == UnionOf({AtomFirst(d, items[k].atom) : k \in Leads(d, items)})
AtomFirst(d, atom) ==
    CASE IsLiteral(atom) -> Chars({atom.text[k] : k \in {1} \cap DOMAIN atom.text})
      [] IsClass(atom)   -> atom.set
      [] IsRef(atom)     -> Known(d.first, atom.rule)
      [] IsGroup(atom)   -> UnionOf({SeqFirst(d, arm) : arm \in ToSet(atom.arms)})
SeqHard(d, items) == UnionOf({AtomHard(d, items[k].atom) : k \in Solid(d, items)})
AtomHard(d, atom) ==
    CASE IsLiteral(atom) \/ IsClass(atom) -> AtomFirst(d, atom)
      [] IsRef(atom)   -> Known(d.hard, atom.rule)
      [] IsGroup(atom) -> UnionOf({SeqHard(d, arm) : arm \in ToSet(atom.arms)})

(* ALPHABET; what a negated class holds is not enumerated.                 *)
RECURSIVE AtomAlphabet(_, _)
SeqAlphabet(d, items) == UnionOf({AtomAlphabet(d, item.atom) : item \in ToSet(items)})
AtomAlphabet(d, atom) ==
    CASE IsLiteral(atom) -> Chars(ToSet(atom.text))
      [] IsClass(atom)   -> IF atom.set.negated THEN EveryChar ELSE atom.set
      [] IsRef(atom)     -> Known(d.alphabet, atom.rule)
      [] IsGroup(atom)   -> UnionOf({SeqAlphabet(d, arm) : arm \in ToSet(atom.arms)})

-----------------------------------------------------------------------------
(* EXTEND: the characters at which a complete match can go on and still be *)
(* one.                                                                    *)
RECURSIVE AtomExtension(_, _)
ItemExtension(d, item) ==
    LET first == AtomFirst(d, item.atom)
        ext == AtomExtension(d, item.atom)
    IN CASE item.hi = 0 -> NoChar
         [] item.hi = 1 -> IF item.lo = 1 THEN ext ELSE UnionOf({ext, first})
         [] item.hi \notin {0, 1} /\ (AtomNullable(d, item.atom) \/ Overlaps(ext, first)) ->
                AtomAlphabet(d, item.atom)
         [] OTHER -> IF item.hi = item.lo THEN ext ELSE UnionOf({ext, first})
SeqExtension(d, items) ==
    IF \E k \in DOMAIN items : Overlaps(ItemExtension(d, items[k]), SeqFirst(d, After(items, k)))
    THEN SeqAlphabet(d, items)
    ELSE UnionOf({ItemExtension(d, items[k]) : k \in {m \in DOMAIN items : SeqNullable(d, After(items, m))}})
ArmsExtension(d, arms) ==
    UnionOf(UNION {
        LET others == {arms[i] : i \in DOMAIN arms \ {j}}
            first == SeqFirst(d, arms[j])
        IN {SeqExtension(d, arms[j])}
             \cup {first : arm \in {o \in others : SeqNullable(d, o)}}
             \cup {SeqAlphabet(d, arms[j]) : arm \in {o \in others : Overlaps(SeqFirst(d, o), first)}}
        : j \in DOMAIN arms})
AtomExtension(d, atom) ==
    CASE IsLiteral(atom) \/ IsClass(atom) -> NoChar
      [] IsRef(atom)   -> Known(d.extend, atom.rule)
      [] IsGroup(atom) -> ArmsExtension(d, atom.arms)

-----------------------------------------------------------------------------
(* What can come after item k of an arm whose own continuation is tail:    *)
(* every such character, those of what must come next, and those of        *)
(* authored structure, the next copy of an optional run not being one.     *)
ContAt(d, items, k, tail) ==
    UnionOf({SeqFirst(d, After(items, k))} \cup {t \in {tail} : SeqNullable(d, After(items, k))})
HardContAt(d, items, k, tail) ==
    IF SeqNullable(d, After(items, k)) THEN tail ELSE SeqHard(d, After(items, k))
(* An item that may not repeat is authored structure; whether one that may *)
(* not even be there is depends on who asks.                               *)
Structural(d, rest, tail, copies) ==
    LET authored == {m \in Leads(d, rest) : ~ItemNullable(d, rest[m]) \/ rest[m].hi \in copies}
    IN UnionOf({AtomFirst(d, rest[m].atom) : m \in authored} \cup {t \in {tail} : SeqNullable(d, rest)})
StructuralContAt(d, items, k, tail) == Structural(d, After(items, k), tail, {0, 1})
StructuralFeed(d, items, k, tail) == Structural(d, After(items, k), tail, {1})

Passes == {"soft", "hard", "structural"}
Continuation(pass, d, items, k, tail) ==
    CASE pass = "soft"       -> ContAt(d, items, k, tail)
      [] pass = "hard"       -> HardContAt(d, items, k, tail)
      [] pass = "structural" -> StructuralContAt(d, items, k, tail)

(* Only the soft pass counts another copy of a repeated item as coming     *)
(* after it.                                                               *)
(* Mutant: not even that pass.                                             *)
EffectiveOnce(pass, d, items, k, tail) == Continuation(pass, d, items, k, tail)
Effective(pass, d, items, k, tail) ==
    UnionOf({Continuation(pass, d, items, k, tail)}
        \cup {f \in {AtomFirst(d, items[k].atom)} : pass = "soft" /\ Repeats(items[k])})

(* feed_seq: what each reference of an arm passes to its target's FOLLOW.  *)
FeedTo(pass, d, items, k, tail) ==
    IF pass = "structural" THEN StructuralFeed(d, items, k, tail) ELSE Effective(pass, d, items, k, tail)
RECURSIVE Feeds(_, _, _, _)
Feeds(pass, d, items, tail) ==
    UNION {LET eff == FeedTo(pass, d, items, k, tail)
               atom == items[k].atom
           IN CASE IsRef(atom)   -> {<<atom.rule, eff>>}
                [] IsGroup(atom) -> UNION {Feeds(pass, d, arm, eff) : arm \in ToSet(atom.arms)}
                [] OTHER         -> {}
           : k \in DOMAIN items}
Fed(pass, d) ==
    LET tgt == d.follow[pass]
        feeds == UNION {UNION {Feeds(pass, d, arm, tgt[n]) : arm \in ToSet(d.rules[n])} : n \in DOMAIN d.rules}
    IN [n \in DOMAIN d.rules |-> UnionOf({tgt[n]} \cup {feed[2] : feed \in {f \in feeds : f[1] = n}})]

-----------------------------------------------------------------------------
(* GrammarAnalysis.__init__: each kind of fact to a fixpoint, the later    *)
(* ones over the earlier.                                                  *)
Grown(kind, d) ==
    LET ByArm(Of(_, _)) == [n \in DOMAIN d.rules |-> UnionOf({Of(d, arm) : arm \in ToSet(d.rules[n])})]
    IN CASE kind = "nullable" ->
                [d EXCEPT !.nullable = {n \in DOMAIN d.rules : \E arm \in ToSet(d.rules[n]) : SeqNullable(d, arm)}]
         [] kind = "begins" ->
                [d EXCEPT !.first = ByArm(SeqFirst), !.hard = ByArm(SeqHard), !.alphabet = ByArm(SeqAlphabet)]
         [] kind = "goes on" ->
                [d EXCEPT !.extend = [n \in DOMAIN d.rules |-> ArmsExtension(d, d.rules[n])],
                          !.follow = [pass \in Passes |-> Fed(pass, d)]]
RECURSIVE Solved(_, _)
SolvedFrom(kind, d, more) == IF more = d THEN d ELSE Solved(kind, more)
Solved(kind, d) == SolvedFrom(kind, d, Grown(kind, d))

Unsolved(ast) ==
    LET rules == RuleMap(ast)
        none == [n \in DOMAIN rules |-> NoChar]
    IN [rules |-> rules, start |-> ast.start, nullable |-> {}, first |-> none, hard |-> none,
        alphabet |-> none, extend |-> none,
        follow |-> [pass \in Passes |-> [none EXCEPT ![ast.start] = Chars({Eof})]]]
Predicates(ast) == Solved("goes on", Solved("begins", Solved("nullable", Unsolved(ast))))
=============================================================================
