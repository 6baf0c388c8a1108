--------------------------- MODULE GrammarShapes ---------------------------
(***************************************************************************)
(* The grammar IR as its analyses read it, and parallel/discovery/shapes:  *)
(* what one item spells, whether it repeats, what every arm of a rule      *)
(* carries at one end, and which characters a derivation can emit -        *)
(* anywhere, first, last, or before its last.                              *)
(*                                                                         *)
(* Every question a proof of the split asks is conservative in one         *)
(* direction: a rule met again on its own path, or one no grammar holds,   *)
(* answers whatever the proof cannot use.                                  *)
(***************************************************************************)
EXTENDS Integers, SequencesExt, FiniteSetsExt

(* CharSet: a finite set of characters, or all but a finite set.  The end  *)
(* of the text counts as a character that only a finite set can hold.      *)
Eof == ""
Chars(set) == [negated |-> FALSE, chars |-> set]
AllBut(set) == [negated |-> TRUE, chars |-> set]
NoChar == Chars({})
EveryChar == AllBut({})

Has(cs, c) == IF cs.negated THEN c \notin cs.chars \cup {Eof} ELSE c \in cs.chars

UnionOf(sets) ==
    LET finite == UNION {cs.chars : cs \in {s \in sets : ~s.negated}}
        wide == {cs.chars : cs \in {s \in sets : s.negated}}
    IN IF wide = {} THEN Chars(finite)
       ELSE AllBut({c \in UNION wide : \A chars \in wide : c \in chars} \ finite)

Without(cs, chars) == IF cs.negated THEN AllBut(cs.chars \cup chars) ELSE Chars(cs.chars \ chars)

Subtract(cs, other) ==
    CASE ~other.negated               -> Without(cs, other.chars)
      [] ~cs.negated /\ other.negated -> Chars(cs.chars \cap (other.chars \cup {Eof}))
      [] cs.negated /\ other.negated  -> Chars(other.chars \ cs.chars)
Meeting(one, other) == Subtract(one, Subtract(one, other))

Overlaps(one, other) ==
    CASE one.negated /\ other.negated   -> TRUE
      [] one.negated /\ ~other.negated  -> ~(other.chars \subseteq one.chars \cup {Eof})
      [] ~one.negated /\ other.negated  -> ~(one.chars \subseteq other.chars \cup {Eof})
      [] ~one.negated /\ ~other.negated -> one.chars \cap other.chars # {}

-----------------------------------------------------------------------------
(* IrItem, its quantifier and its atom; a rule is its arms.                *)
Unlimited == -1
Repeated(atom, lo, hi) == [atom |-> atom, lo |-> lo, hi |-> hi]
Once(atom) == Repeated(atom, 1, 1)
Maybe(atom) == Repeated(atom, 0, 1)
Many(atom) == Repeated(atom, 0, Unlimited)
Several(atom) == Repeated(atom, 1, Unlimited)

Spelling(string) == [kind |-> "literal", text |-> string]
OneOf(chars) == [kind |-> "class", set |-> Chars(chars)]
NoneOf(chars) == [kind |-> "class", set |-> AllBut(chars)]
To(rule) == [kind |-> "rule", rule |-> rule]
Group(arms) == [kind |-> "group", arms |-> arms]

IsLiteral(atom) == atom.kind = "literal"
IsClass(atom) == atom.kind = "class"
IsRef(atom) == atom.kind = "rule"
IsGroup(atom) == atom.kind = "group"

Unit(item) == item.lo = 1 /\ item.hi = 1
UnlimitedItem(item) == item.hi = Unlimited
Repeats(item) == item.hi = Unlimited \/ item.hi > 1

Rule(name, body) == [name |-> name, body |-> body]
Ast(start, rules) == [start |-> start, rules |-> rules]
RuleMap(ast) ==
    [n \in {ast.rules[k].name : k \in DOMAIN ast.rules} |->
        (CHOOSE r \in ToSet(ast.rules) : r.name = n).body]

(* What stands below a group or a reference, and the path to it.           *)
Below(atom, rules) == IF IsGroup(atom) THEN atom.arms ELSE rules[atom.rule]
PathTo(atom, path) == IF IsGroup(atom) THEN path ELSE path \cup {atom.rule}
Unknown(atom, rules) == IsRef(atom) /\ atom.rule \notin DOMAIN rules
Blocked(atom, rules, path) == Unknown(atom, rules) \/ (IsRef(atom) /\ atom.rule \in path)
Items(arms) == UNION {ToSet(arms[k]) : k \in DOMAIN arms}

-----------------------------------------------------------------------------
(* literal_char, literal_text: the one spelling an item carries among      *)
(* noise, followed through rules of one arm; <<>> for none.                *)
RECURSIVE SpelledBy(_, _, _)
SpelledBy(item, rules, single) ==
    LET atom == item.atom
        arm == rules[atom.rule][1]
        spelled == SelectSeq([k \in DOMAIN arm |-> SpelledBy(arm[k], rules, single)],
                             LAMBDA s : s # <<>>)
    IN CASE ~Unit(item)     -> <<>>
         [] Unit(item) /\ IsLiteral(atom) ->
                IF single /\ Len(atom.text) # 1 THEN <<>> ELSE atom.text
         [] Unit(item) /\ IsRef(atom) ->
                IF Unknown(atom, rules) \/ Len(rules[atom.rule]) # 1 \/ Len(spelled) # 1
                THEN <<>> ELSE spelled[1]
         [] OTHER           -> <<>>
LiteralChar(item, rules) == SpelledBy(item, rules, TRUE)
LiteralText(item, rules) == SpelledBy(item, rules, FALSE)

(* edge_char: the one character every arm carries where Of looks for it.   *)
Agreed(found) == IF Cardinality(found) = 1 THEN CHOOSE x \in found : TRUE ELSE <<>>

(* derives_empty, arm_empty.                                               *)
RECURSIVE DerivesEmpty(_, _, _)
DerivesEmpty(item, rules, path) ==
    LET atom == item.atom
    IN \/ item.lo = 0
       \/ IsLiteral(atom) /\ atom.text = <<>>
       \/ (IsRef(atom) \/ IsGroup(atom)) /\
            \/ Blocked(atom, rules, path)
            \/ \E arm \in ToSet(Below(atom, rules)) :
                    \A inner \in ToSet(arm) : DerivesEmpty(inner, rules, PathTo(atom, path))
ArmEmpty(items, rules) == \A item \in ToSet(items) : DerivesEmpty(item, rules, {})

-----------------------------------------------------------------------------
(* emits, rule_emits: whether an item can emit a character outside the     *)
(* hidden rules.                                                           *)
RECURSIVE Emits(_, _, _, _, _)
Emits(item, c, rules, hidden, path) ==
    LET atom == item.atom
    IN CASE IsLiteral(atom) -> c \in ToSet(atom.text)
         [] IsClass(atom)   -> Has(atom.set, c)
         [] IsRef(atom) /\ atom.rule \in hidden -> FALSE
         [] Unknown(atom, rules) -> TRUE
         [] IsRef(atom) /\ atom.rule \in path \ hidden -> FALSE
         [] OTHER -> \E inner \in Items(Below(atom, rules)) :
                        Emits(inner, c, rules, hidden, PathTo(atom, path))

(* leads_with.                                                             *)
RECURSIVE LeadsWith(_, _, _, _)
LeadsWith(items, c, rules, path) ==
    \E k \in DOMAIN items :
        /\ \A m \in 1..(k - 1) : DerivesEmpty(items[m], rules, {})
        /\ LET atom == items[k].atom
           IN CASE IsLiteral(atom) -> atom.text # <<>> /\ Head(atom.text) = c
                [] IsClass(atom)   -> Has(atom.set, c)
                [] Blocked(atom, rules, path) -> TRUE
                [] OTHER -> \E arm \in ToSet(Below(atom, rules)) :
                                LeadsWith(arm, c, rules, PathTo(atom, path))

(* emit_charset: every character of an item's derivations.                 *)
RECURSIVE EmitSet(_, _, _, _)
EmitSet(item, rules, path, hidden) ==
    LET atom == item.atom
    IN CASE IsLiteral(atom) -> Chars(ToSet(atom.text))
         [] IsClass(atom)   -> atom.set
         [] IsRef(atom) /\ atom.rule \in hidden -> NoChar
         [] Blocked(atom, rules, path) /\ ~(IsRef(atom) /\ atom.rule \in hidden) -> EveryChar
         [] OTHER -> UnionOf({EmitSet(inner, rules, PathTo(atom, path), hidden) :
                                inner \in Items(Below(atom, rules))})

-----------------------------------------------------------------------------
(* first_charset and last_charset are one walk in two directions: up to    *)
(* the first item that cannot vanish.                                      *)
Outward(items, last) == IF last THEN Reverse(items) ELSE items
Edge(string, last) == IF last THEN string[Len(string)] ELSE Head(string)

RECURSIVE EdgeSet(_, _, _, _), ItemEdge(_, _, _, _)
EdgeSet(items, last, rules, path) ==
    LET seen == Outward(items, last)
        read == {k \in DOMAIN seen : \A m \in 1..(k - 1) : DerivesEmpty(seen[m], rules, {})}
    IN UnionOf({ItemEdge(seen[k], last, rules, path) : k \in read})
ItemEdge(item, last, rules, path) ==
    LET atom == item.atom
    IN CASE IsLiteral(atom) -> IF atom.text = <<>> THEN NoChar ELSE Chars({Edge(atom.text, last)})
         [] IsClass(atom)   -> atom.set
         [] Blocked(atom, rules, path) -> EveryChar
         [] OTHER -> UnionOf({EdgeSet(arm, last, rules, PathTo(atom, path)) :
                                arm \in ToSet(Below(atom, rules))})
FirstSet(items, rules, path) == EdgeSet(items, FALSE, rules, path)
LastSet(items, rules, path) == EdgeSet(items, TRUE, rules, path)

(* interior: every character a rule can emit before its own last one.      *)
RECURSIVE ArmInterior(_, _, _)
ArmInterior(items, rules, path) ==
    LET last == items[Len(items)]
        atom == last.atom
        tail == CASE Repeats(last)  -> EmitSet(last, rules, {}, {})
                  [] ~Repeats(last) /\ IsLiteral(atom) ->
                        Chars(ToSet(SubSeq(atom.text, 1, Len(atom.text) - 1)))
                  [] ~Repeats(last) /\ IsClass(atom) -> NoChar
                  [] ~Repeats(last) /\ Blocked(atom, rules, path) -> EveryChar
                  [] OTHER -> UnionOf({ArmInterior(arm, rules, PathTo(atom, path)) :
                                        arm \in ToSet(Below(atom, rules))})
    IN IF items = <<>> THEN NoChar
       ELSE UnionOf({EmitSet(items[k], rules, {}, {}) : k \in 1..(Len(items) - 1)} \cup {tail})
Interior(rule, rules) ==
    IF rule \notin DOMAIN rules THEN EveryChar
    ELSE UnionOf({ArmInterior(arm, rules, {rule}) : arm \in ToSet(rules[rule])})

SoleChar(cs) == IF ~cs.negated THEN Agreed({<<c>> : c \in cs.chars}) ELSE <<>>

(* exact_text: the one text an item always derives; <<>> for none.         *)
RECURSIVE ExactText(_, _, _)
ExactText(item, rules, path) ==
    LET atom == item.atom
        parts == [k \in DOMAIN rules[atom.rule][1] |->
                    ExactText(rules[atom.rule][1][k], rules, path \cup {atom.rule})]
    IN CASE ~Unit(item) -> <<>>
         [] Unit(item) /\ IsLiteral(atom) -> atom.text
         [] Unit(item) /\ IsRef(atom) ->
                IF Blocked(atom, rules, path) \/ Len(rules[atom.rule]) # 1 \/ <<>> \in ToSet(parts)
                THEN <<>> ELSE FlattenSeq(parts)
         [] OTHER -> <<>>

-----------------------------------------------------------------------------
(* rule_spells, arm_spells, item_spells: whether a derivation contains a   *)
(* mark.  A mark of two characters may also be assembled where two items,  *)
(* or two copies of one, meet; a wider one is never excluded.              *)
MarkArity == 2

Meets(before, after, mark, rules, path) ==
    Has(LastSet(before, rules, path), mark[1]) /\ Has(FirstSet(after, rules, path), mark[2])

Within(mark, string) ==
    \E k \in 0..(Len(string) - Len(mark)) : SubSeq(string, k + 1, k + Len(mark)) = mark

RECURSIVE ItemSpells(_, _, _, _, _), ArmSpells(_, _, _, _, _)
ItemSpells(item, mark, rules, hidden, path) ==
    LET atom == item.atom
        assembled == Repeats(item) /\ Has(ItemEdge(item, TRUE, rules, path), mark[1])
                                   /\ Has(ItemEdge(item, FALSE, rules, path), mark[2])
    IN CASE Len(mark) = 1 -> Emits(item, mark[1], rules, hidden, path)
         [] Len(mark) > MarkArity -> TRUE
         [] OTHER ->
              \/ assembled
              \/ IsLiteral(atom) /\ Within(mark, atom.text)
              \/ IsGroup(atom) /\ \E arm \in ToSet(atom.arms) : ArmSpells(arm, mark, rules, hidden, path)
              \/ IsRef(atom) /\ atom.rule \notin hidden /\
                    \/ Unknown(atom, rules)
                    \/ /\ atom.rule \notin path
                       /\ \E arm \in ToSet(rules[atom.rule]) :
                            ArmSpells(arm, mark, rules, hidden, path \cup {atom.rule})
ArmSpells(items, mark, rules, hidden, path) ==
    \/ \E item \in ToSet(items) : ItemSpells(item, mark, rules, hidden, path)
    \/ Len(mark) = MarkArity /\ \E k \in 1..(Len(items) - 1) :
            Meets(SubSeq(items, 1, k), SubSeq(items, k + 1, Len(items)), mark, rules, path)
    \/ Len(mark) > MarkArity /\ items # <<>>
RuleSpells(rule, mark, rules, hidden, path) ==
    \/ Len(mark) > MarkArity
    \/ \E arm \in ToSet(rules[rule]) : ArmSpells(arm, mark, rules, hidden, path)
=============================================================================
