------------------------------ MODULE Readings ------------------------------
(***************************************************************************)
(* What a grammar reads, the parser aside: where a derivation of a part of *)
(* it that begins at an offset of a text may end, and the tree of a span   *)
(* under the order the split trusts, leftmost-longest.  No grammar read    *)
(* here is left-recursive, and none reads one span by two of its arms.     *)
(*                                                                         *)
(* A tree is a rule's node, its items the runs of what each item of the    *)
(* arm read, or a leaf of characters.                                      *)
(***************************************************************************)
EXTENDS OpaqueInteriors

Over(rules, string) == [rules |-> rules, text |-> string]

RECURSIVE AtomEnds(_, _, _), CopyEnds(_, _, _, _), MoreEnds(_, _, _), ArmEnds(_, _, _)
AtomEnds(atom, over, at) ==
    CASE IsLiteral(atom) -> IF StartsWith(over.text, atom.text, at) THEN {at + Len(atom.text)} ELSE {}
      [] IsClass(atom)   -> IF at < Len(over.text) /\ Has(atom.set, CharAt(over.text, at)) THEN {at + 1} ELSE {}
      [] OTHER           -> UNION {ArmEnds(arm, over, at) : arm \in ToSet(Below(atom, over.rules))}
CopyEnds(atom, n, over, from) ==
    IF n = 0 THEN from
    ELSE CopyEnds(atom, n - 1, over, UNION {AtomEnds(atom, over, at) : at \in from})
MoreEnds(atom, over, from) ==
    LET more == from \cup UNION {AtomEnds(atom, over, at) : at \in from}
    IN IF more = from THEN from ELSE MoreEnds(atom, over, more)
ItemEnds(item, over, at) ==
    LET least == CopyEnds(item.atom, item.lo, over, {at})
    IN IF UnlimitedItem(item) THEN MoreEnds(item.atom, over, least)
       ELSE UNION {CopyEnds(item.atom, n, over, least) : n \in 0..(item.hi - item.lo)}
ArmEnds(items, over, at) ==
    IF items = <<>> THEN {at}
    ELSE UNION {ArmEnds(Tail(items), over, m) : m \in ItemEnds(Head(items), over, at)}

Derives(rule, over) == Len(over.text) \in AtomEnds(To(rule), over, 0)

-----------------------------------------------------------------------------
Leaf(chars) == [rule |-> "", chars |-> chars, items |-> <<>>]
Node(rule, items) == [rule |-> rule, chars |-> <<>>, items |-> items]

(* to_text.                                                                *)
RECURSIVE SpelledOf(_)
RunText(run) == FlattenSeq([n \in DOMAIN run |-> SpelledOf(run[n])])
SpelledOf(tree) == tree.chars \o FlattenSeq([k \in DOMAIN tree.items |-> RunText(tree.items[k])])

(* What is left of an item once it has read a copy.                        *)
Rest(item) ==
    [item EXCEPT !.lo = Max({0, @ - 1}), !.hi = IF @ = Unlimited THEN @ ELSE @ - 1]
Reading(items, over, at, to) == to \in ArmEnds(items, over, at)

(* LeftmostLongest.slot: of the ways to carve a span, each boundary as far *)
(* right as lets the rest be read, the first of them first.                *)
RECURSIVE AtomTree(_, _, _, _), RunTree(_, _, _, _), ArmTree(_, _, _, _)
AtomTree(atom, over, at, to) ==
    IF IsLiteral(atom) \/ IsClass(atom) THEN Leaf(SubSeq(over.text, at + 1, to))
    ELSE Node(IF IsRef(atom) THEN atom.rule ELSE "",
              ArmTree(SelectSeq(Below(atom, over.rules), LAMBDA a : Reading(a, over, at, to))[1], over, at, to))
RunTree(item, over, at, to) ==
    LET far == Max({m \in AtomEnds(item.atom, over, at) :
                        (m > at \/ item.lo > 0) /\ Reading(<<Rest(item)>>, over, m, to)})
    IN IF at = to /\ item.lo = 0 THEN <<>>
       ELSE <<AtomTree(item.atom, over, at, far)>> \o RunTree(Rest(item), over, far, to)
ArmTree(items, over, at, to) ==
    LET far == Max({m \in ItemEnds(Head(items), over, at) : Reading(Tail(items), over, m, to)})
    IN IF items = <<>> THEN <<>>
       ELSE <<RunTree(Head(items), over, at, far)>> \o ArmTree(Tail(items), over, far, to)

(* A parse of a whole text under a rule: its tree, if it has one.          *)
Parse(rule, over) ==
    IF Derives(rule, over) THEN {AtomTree(To(rule), over, 0, Len(over.text))} ELSE {}
=============================================================================
