---------------------------- MODULE EarleyForest ----------------------------
(***************************************************************************)
(* What a finished chart says: the forest read back from the families the  *)
(* kernel kept (kernel/forest/families.py, kernel/loop/leo.py) and the     *)
(* single tree the fast path builds of it (kernel/forest/fasttree.py).     *)
(*                                                                         *)
(* Both are compared with the derivations of the text, defined from the    *)
(* grammar alone: no gate, no Leo item, no group.                          *)
(***************************************************************************)
EXTENDS EarleyLanguage

-----------------------------------------------------------------------------
(* The reference: where the derivations of a rule that begin at a column   *)
(* end, in an input of characters and the tokens that begin among them.    *)
SymEnds(sym, w, i, spans) ==
    IF IsRule(sym) THEN spans[<<sym.name, i>>] ELSE TermEnds(sym, w, i)
BodyEnds(body, w, i, spans) ==
    FoldLeft(LAMBDA ends, sym : UNION {SymEnds(sym, w, j, spans) : j \in ends}, {i}, body)

RECURSIVE Derived(_, _, _)
Derived(arms, w, spans) ==
    LET more == [x \in DOMAIN spans |->
                    UNION {BodyEnds(arms[a].body, w, x[2], spans) : a \in {c \in DOMAIN arms : arms[c].rule = x[1]}}]
    IN IF more = spans THEN spans ELSE Derived(arms, w, more)

Spans(arms, w) == Derived(arms, w, [x \in Rules(arms) \X (0..Size(w)) |-> {}])

(* The families of a handle: every way to split its span between the       *)
(* symbols before the dot and the last of them.                            *)
TrueFamilies(h, spans) ==
    LET it == h[1]
        end == h[2]
        sym == Body(it[1])[it[2]]
        before == SubSeq(Body(it[1]), 1, it[2] - 1)
        children(m) ==
            IF IsRule(sym)
            THEN {<<a, Len(Body(a)), m>> : a \in {b \in DOMAIN tables.arms :
                    tables.arms[b].rule = sym.name /\ end \in BodyEnds(Body(b), Input, m, spans)}}
            ELSE IF end \in TermEnds(sym, Input, m) THEN {<<>>} ELSE {}
    IN IF it[2] = 0 THEN {}
       ELSE UNION {{<<<<it[1], it[2] - 1, it[3]>>, m, c>> : c \in children(m)} :
                   m \in BodyEnds(before, Input, it[3], spans)}

(* The handles a family leads to: its child and what precedes it.          *)
Under(h, family) ==
    {<<family[1], family[2]>>} \cup (IF family[3] = <<>> THEN {} ELSE {<<family[3], h[2]>>})

(* The forest: every handle some derivation passes, with its families.     *)
RECURSIVE TrueForest(_, _, _)
TrueForest(known, fresh, spans) ==
    IF fresh = {} THEN known
    ELSE LET now == known @@ [h \in fresh |-> TrueFamilies(h, spans)]
             next == UNION {UNION {Under(h, f) : f \in now[h]} : h \in fresh}
         IN TrueForest(now, next \ DOMAIN now, spans)

RECURSIVE Reached(_, _, _)
Reached(forest, found, fresh) ==
    IF fresh = {} THEN found
    ELSE LET next == UNION {UNION {Under(h, f) : f \in forest[h]} : h \in fresh}
         IN Reached(forest, found \cup fresh, next \ (found \cup fresh))

Roots(spans) ==
    {<<<<a, Len(Body(a)), 0>>, Len(text)>> : a \in {b \in DOMAIN tables.arms :
        tables.arms[b].rule = tables.start /\ Len(text) \in BodyEnds(Body(b), Input, 0, spans)}}

-----------------------------------------------------------------------------
(* expand_chain: the families a jump skipped, filed from the bottom of the *)
(* chain to its top.                                                       *)
RECURSIVE ExpandChain(_, _, _, _)
ExpandChain(all, top, end, family) ==
    LET adv == Advance(family[1])
        filed == WithFamily(all, <<adv, end>>, family)
        next == <<Head(Waiting(family[1][3], RuleOf(adv))), Origin(adv), adv>>
    IN IF adv = top THEN filed ELSE ExpandChain(filed, top, end, next)

(* Mutant: a chain is expanded only under a top nothing is filed for.      *)
ExpandMissing(all, top) ==
    IF top \in DOMAIN all THEN all
    ELSE FoldLeft(LAMBDA l, bottom : ExpandChain(l, top[1], top[2], bottom), all, leoLinks[top])
(* expand_leo.                                                             *)
ExpandLeo(all, top) ==
    FoldLeft(LAMBDA l, bottom : ExpandChain(l, top[1], top[2], bottom), all, leoLinks[top])

(* to_chart expands every deferred chain before it reads.                  *)
Expanded == FoldSet(LAMBDA top, all : ExpandLeo(all, top), links, DOMAIN leoLinks)

(* FamilyTable: a key that promoted has its first family, then those its   *)
(* group's completions stand for, then what Leo's expansion appended.      *)
FromGroup(pred, completions) ==
    SelectSeq([k \in DOMAIN completions |-> <<pred, Origin(completions[k]), completions[k]>>],
              LAMBDA f : pred \in ToSet(Waiting(f[2], Facing(pred).name)))
Led(first, joined) == <<first>> \o SelectSeq(joined, LAMBDA f : f # first)
Then(led, families) == led \o SelectSeq(families, LAMBDA f : f \notin ToSet(led))
ReadBucket(bucket, pred, end) ==
    IF ~bucket.promoted THEN bucket.families
    ELSE Then(Led(Head(bucket.families), FromGroup(pred, groups[<<Facing(pred).name, end>>])),
              Tail(bucket.families))
Read(all, h) ==
    IF h \notin DOMAIN all THEN <<>>
    ELSE ReadBucket(all[h], <<h[1][1], h[1][2] - 1, h[1][3]>>, h[2])

-----------------------------------------------------------------------------
(* empty_tree: a rule with one empty derivation needs no families.         *)
RECURSIVE EmptyTrees(_)
EmptyTrees(known) ==
    LET more == {r \in Rules(tables.arms) :
                    \E a \in Empties(r) :
                        Empties(r) = {a} /\ \A k \in DOMAIN Body(a) : Body(a)[k].name \in known}
    IN IF more \subseteq known THEN known ELSE EmptyTrees(known \cup more)

(* sole_chain: the children of a completed item, or a miss where a key on  *)
(* the way to the arm's start has no family or several.                    *)
Miss == [found |-> FALSE, children |-> {}]
RECURSIVE SoleChain(_, _, _), SoleLink(_, _, _, _)
SoleChain(all, h, children) ==
    IF h[1][2] = 0 THEN [found |-> TRUE, children |-> children]
    ELSE SoleLink(all, h, Read(all, h), children)
SoleLink(all, h, families, children) ==
    IF Len(families) # 1 THEN Miss
    ELSE SoleChain(all, <<families[1][1], families[1][2]>>,
                   children \cup (IF families[1][3] = <<>> THEN {} ELSE {<<families[1][3], h[2]>>}))

(* FastTree.build: a chain is expanded only when its top is reached; the   *)
(* first key that does not name one family abandons the build.             *)
RECURSIVE FastTree(_, _, _, _), Pending(_, _, _, _, _)
FastTree(all, built, stack, empty) ==
    IF stack = <<>> THEN TRUE
    ELSE LET h == Head(stack) IN
         IF h \in built \/ (Origin(h[1]) = h[2] /\ RuleOf(h[1]) \in empty)
         THEN FastTree(all, built, Tail(stack), empty)
         ELSE LET now == IF h \in DOMAIN leoLinks THEN ExpandLeo(all, h) ELSE all
              IN Pending(now, built, stack, empty, SoleChain(now, h, {}))
Pending(all, built, stack, empty, chain) ==
    /\ chain.found
    /\ FastTree(all, built \cup {Head(stack)}, SetToSeq(chain.children) \o Tail(stack), empty)

-----------------------------------------------------------------------------
(* A rule may begin what is left of a text when some derivation of it      *)
(* reads all of it and wants more, or nothing more (every rule derives     *)
(* some text).                                                             *)
RECURSIVE Begun(_, _, _, _)
Begun(arms, w, spans, known) ==
    LET Reads(a, i) ==
            \E k \in 0..Len(arms[a].body) :
                \E m \in BodyEnds(SubSeq(arms[a].body, 1, k), w, i, spans) :
                    \/ m = Size(w)
                    \/ /\ k < Len(arms[a].body) /\ IsRule(arms[a].body[k + 1])
                       /\ <<arms[a].body[k + 1].name, m>> \in known
        more == {<<arms[a].rule, i>> : <<a, i>> \in
                    {x \in (DOMAIN arms) \X (0..Size(w)) : Reads(x[1], x[2])}}
    IN IF more \subseteq known THEN known ELSE Begun(arms, w, spans, known \cup more)

(* However the text was grown and cut back, the chart accepts it when and  *)
(* only when the start rule derives it with no literal spelled across a    *)
(* break, and its frontier is alive - what a mask asks of it - when and    *)
(* only when some continuation is accepted that is appended from here,     *)
(* save on a chart over nothing that was never extended, whose start rule  *)
(* is seeded for the end of the input.                                     *)
ChartExact ==
    idle =>
        LET spans == Spans(tables.arms, Input)
            start == <<tables.start, 0>>
        IN /\ AcceptItems # {} <=> Len(text) \in spans[start]
           /\ ~recordLinks /\ (text # <<>> \/ 0 \in DOMAIN topped) =>
                (FrontierViable <=> start \in Begun(tables.arms, Input, spans, {}))

-----------------------------------------------------------------------------
ReadsForest(all, forest) ==
    \A h \in DOMAIN forest : LET read == Read(all, h)
                             IN ToSet(read) = forest[h] /\ Len(read) = Cardinality(forest[h])

(* The forest is the text's derivations, neither more nor fewer, and each  *)
(* once: from every accepting item, every handle a derivation passes is    *)
(* read with exactly its families.  Gates, Leo jumps, promoted groups and  *)
(* the skipped empty completions must all cancel out; one family too few   *)
(* is a meaning nobody is told of, one twice an ambiguity that is not.     *)
FamiliesExact ==
    Finished =>
        LET spans == Spans(tables.arms, Input)
        IN ReadsForest(Expanded, TrueForest(<<>>, Roots(spans), spans))

SoleBelow(forest, h) ==
    \A k \in Reached(forest, {}, {h}) : k[1][2] > 0 => Cardinality(forest[k]) = 1

(* The fast path answers exactly when there is one derivation: though it   *)
(* expands a Leo chain only on reaching its top, it never takes a span for *)
(* unambiguous because the rest of its families are still deferred.        *)
FastTreeOnlyWhenSole ==
    Finished =>
        LET spans == Spans(tables.arms, Input)
            forest == TrueForest(<<>>, Roots(spans), spans)
        IN \A h \in Roots(spans) :
            FastTree(links, {}, <<h>>, EmptyTrees({})) <=> SoleBelow(forest, h)
=============================================================================
