--------------------------- MODULE AuthoredForest ---------------------------
(***************************************************************************)
(* A chart over the tables of an authored grammar, against the grammar as  *)
(* it was authored: groups inline, quantifiers unexpanded, no run.         *)
(***************************************************************************)
EXTENDS EarleyForest, Normalize

CONSTANT Authored   \* of some of the Tables, the grammar they were made of

ASSUME AuthoredAssumption == DOMAIN Authored \subseteq DOMAIN Tables

-----------------------------------------------------------------------------
(* The reference: how many readings of a span a grammar gives - none, one  *)
(* or Several (2) - as the least fixpoint of the counts of its parts.      *)
Capped(n) == IF n > 2 THEN 2 ELSE n
Sum(counts) == FoldSet(LAMBDA x, n : Capped(n + x[2]), 0, counts)
Total(Count(_), set) == Sum({<<x, Count(x)>> : x \in set})

Lies(atom, w, i, j) ==
    CASE IsLiteral(atom) -> SubSeq(w, i + 1, j) = atom.text
      [] IsClass(atom)   -> j = i + 1 /\ Has(atom.set, w[j])

RECURSIVE AtomWays(_, _, _, _, _), CopyWays(_, _, _, _, _, _), ArmWays(_, _, _, _, _)
AtomWays(atom, w, i, j, known) ==
    CASE IsRef(atom)   -> known[<<atom.rule, i, j>>]
      [] IsGroup(atom) -> Total(LAMBDA arm : ArmWays(arm, w, i, j, known), ToSet(atom.arms))
      [] OTHER         -> IF Lies(atom, w, i, j) THEN 1 ELSE 0
CopyWays(atom, n, w, i, j, known) ==
    IF n = 0 THEN IF i = j THEN 1 ELSE 0
    ELSE Total(LAMBDA m : AtomWays(atom, w, i, m, known) * CopyWays(atom, n - 1, w, m, j, known), i..j)
(* Copies past one for every character, were the unit empty, only repeat. *)
ItemWays(item, w, i, j, known) ==
    LET most == IF UnlimitedItem(item) THEN item.lo + (j - i) + 1 ELSE item.hi
    IN Total(LAMBDA n : CopyWays(item.atom, n, w, i, j, known), item.lo..most)
ArmWays(items, w, i, j, known) ==
    IF items = <<>> THEN IF i = j THEN 1 ELSE 0
    ELSE Total(LAMBDA m : ItemWays(Head(items), w, i, m, known) * ArmWays(Tail(items), w, m, j, known), i..j)

RECURSIVE WaysFrom(_, _, _)
WaysFrom(rules, w, known) ==
    LET more == [x \in DOMAIN known |->
                    Total(LAMBDA arm : ArmWays(arm, w, x[2], x[3], known), ToSet(rules[x[1]]))]
    IN IF more = known THEN known ELSE WaysFrom(rules, w, more)
Readings(ast, w) ==
    LET rules == RuleMap(ast)
        spans == {<<r, i, j>> \in (DOMAIN rules) \X (0..Len(w)) \X (0..Len(w)) : i <= j}
    IN WaysFrom(rules, w, [x \in spans |-> 0])[<<ast.start, 0, Len(w)>>]

-----------------------------------------------------------------------------
SoleTree ==
    \E it \in AcceptItems :
        AcceptItems = {it} /\ FastTree(links, {}, <<<<it, Len(text)>>>>, EmptyTrees({}))

(* What was authored is what is parsed: the chart of the normalised        *)
(* grammar, its runs collapsed or not, accepts exactly the texts the       *)
(* authored one derives, and finds a single tree exactly where the author  *)
(* wrote a single reading - a collapsed run hides no second one, nor does  *)
(* a rule that two equal quantifiers share add one.                        *)
ReadsAsAuthored ==
    Finished =>
        \A g \in {k \in DOMAIN Authored : Tables[k] = tables} :
            LET ways == Readings(Authored[g], text)
            IN (AcceptItems # {} <=> ways > 0) /\ (SoleTree <=> ways = 1)
=============================================================================
