-------------------------- MODULE OpaqueInteriors --------------------------
(***************************************************************************)
(* parallel/discovery/interiors: the delimited regions a structural scan   *)
(* must skip and not read, which of them a pairing of delimiters from the  *)
(* left reads exactly, and where one that opens at a position ends.        *)
(*                                                                         *)
(* A text is a sequence of characters, and an offset the number of them    *)
(* before a place.  A region opens with its arm's first item; closes is    *)
(* the place of the item that closes it, and closing is empty for a region *)
(* that runs to the end of the text.                                       *)
(***************************************************************************)
EXTENDS GrammarShapes

CharAt(string, at) == string[at + 1]
StartsWith(string, spelling, at) ==
    /\ at + Len(spelling) <= Len(string)
    /\ SubSeq(string, at + 1, at + Len(spelling)) = spelling

Region(rule, arm, opening, closing, escape, closes) ==
    [rule |-> rule, arm |-> arm, opening |-> opening, closing |-> closing,
     escape |-> escape, closes |-> closes]
Symmetric(region) == region.opening = region.closing
(* The first item a scan reads again: only a distinct closer stays visible.*)
Resumes(region) ==
    IF region.closing # <<>> /\ ~Symmetric(region) THEN region.closes ELSE region.closes + 1

-----------------------------------------------------------------------------
(* _escape_char: what the first arm that leads with a character leads with,*)
(* an arm that is led by a reference being asked of what it refers to.     *)
RECURSIVE EscapeChar(_, _, _)
EscapeChar(rule, rules, seen) ==
    LET InArm(arm) ==
            LET lead == IF Len(arm) >= 2 THEN LiteralChar(arm[1], rules) ELSE <<>>
            IN IF lead = <<>> /\ arm # <<>> /\ IsRef(arm[1].atom)
               THEN EscapeChar(arm[1].atom.rule, rules, seen \cup {rule}) ELSE lead
        found == SelectSeq([k \in DOMAIN rules[rule] |-> InArm(rules[rule][k])],
                           LAMBDA escape : escape # <<>>)
    IN IF rule \notin DOMAIN rules \/ rule \in seen \/ found = <<>> THEN <<>> ELSE found[1]

(* _opacity, _body_escape: the escape that keeps the items before a closer *)
(* opaque - none if they cannot spell it - as a set; {} if they are not.   *)
Opacity(inner, closing, rules) ==
    LET spelling == {item \in inner : Emits(item, closing[1], rules, {}, {})}
        escapes == {IF IsRef(item.atom) THEN EscapeChar(item.atom.rule, rules, {}) ELSE <<>> :
                        item \in spelling}
    IN CASE spelling = {} -> {<<>>}
         [] spelling # {} /\ Len(closing) = 1 /\ Cardinality(escapes) = 1 -> escapes \ {<<>>}
         [] OTHER -> {}

(* _trailing_literal: the spelling every arm below a reference ends with.  *)
RECURSIVE TrailingLiteral(_, _, _)
TrailingLiteral(item, rules, seen) ==
    LET name == item.atom.rule
        Ending(arm) ==
            CASE arm = <<>> -> <<>>
              [] arm # <<>> /\ IsLiteral(arm[Len(arm)].atom) -> arm[Len(arm)].atom.text
              [] OTHER -> TrailingLiteral(arm[Len(arm)], rules, seen \cup {name})
    IN IF ~IsRef(item.atom) \/ Blocked(item.atom, rules, seen) THEN <<>>
       ELSE Agreed({Ending(arm) : arm \in ToSet(rules[name])})

(* _tail_content: what a closer's own rule spells before it.               *)
TailContent(item, rules) ==
    IF ~IsRef(item.atom) \/ Unknown(item.atom, rules) THEN {}
    ELSE UNION {ToSet(Front(arm)) : arm \in {a \in ToSet(rules[item.atom.rule]) : a # <<>>}}

(* _closed_at, _arm_interior: the region an arm delimits, if it does: by   *)
(* its own spelling again, by another at its end, or by the text's end.    *)
ClosedAt(arm, spelling, k, inner, rules) ==
    {Region(arm.rule, arm.at, arm.opening, spelling, escape, k) : escape \in Opacity(inner, spelling, rules)}
Before(arm, k) == {arm.items[j] : j \in 2..(k - 1)}
ByItsOwn(arm, again, rules) ==
    IF again = {} THEN {} ELSE ClosedAt(arm, arm.opening, Min(again), Before(arm, Min(again)), rules)
ByAnother(arm, closing, rules) ==
    IF closing \in {<<>>, arm.opening} THEN {}
    ELSE ClosedAt(arm, closing, Len(arm.items),
                  Before(arm, Len(arm.items)) \cup TailContent(Last(arm.items), rules), rules)
Ending(item, rules) ==
    IF LiteralText(item, rules) # <<>> THEN LiteralText(item, rules) ELSE TrailingLiteral(item, rules, {})
OrElse(one, other) == IF one # {} THEN one ELSE other
Again(arm, rules) == {k \in 2..Len(arm.items) : LiteralText(arm.items[k], rules) = arm.opening}

OpenedBy(arm, rules) ==
    CASE arm.opening = <<>> -> {}
      [] arm.opening # <<>> /\ Len(arm.items) > 2 ->
            OrElse(ByItsOwn(arm, Again(arm, rules), rules),
                   ByAnother(arm, Ending(Last(arm.items), rules), rules))
      [] OTHER -> IF IsLiteral(arm.items[1].atom) /\ UnlimitedItem(Last(arm.items))
                  THEN {Region(arm.rule, arm.at, arm.opening, <<>>, <<>>, 2)} ELSE {}
ArmRegions(name, at, items, rules) ==
    IF Len(items) < 2 THEN {}
    ELSE OpenedBy([rule |-> name, at |-> at, items |-> items, opening |-> LiteralText(items[1], rules)], rules)

(* interior_shapes, in the order of the grammar's definitions.             *)
RuleRegions(rule, rules) ==
    FlattenSeq([k \in DOMAIN rule.body |-> SetToSeq(ArmRegions(rule.name, k, rule.body[k], rules))])
InteriorShapes(ast) == FlattenSeq([n \in DOMAIN ast.rules |-> RuleRegions(ast.rules[n], RuleMap(ast))])

-----------------------------------------------------------------------------
(* What a scan still reads once regions are skipped: their delimiters, and *)
(* everything that is in none.                                             *)
Visible(name, rules, regions) ==
    {place \in UNION {{k} \X DOMAIN rules[name][k] : k \in DOMAIN rules[name]} :
        \A r \in regions : r.rule = name /\ r.arm = place[1] => place[2] \notin 2..(Resumes(r) - 1)}

RECURSIVE RefsOf(_)
RefsOf(atom) ==
    CASE IsRef(atom)   -> {atom.rule}
      [] IsGroup(atom) -> UNION {RefsOf(item.atom) : item \in Items(atom.arms)}
      [] OTHER         -> {}

RECURSIVE Reached(_, _, _, _)
Reached(names, rules, regions, skip) ==
    LET next == UNION {UNION {RefsOf(rules[n][p[1]][p[2]].atom) : p \in Visible(n, rules, regions)} : n \in names}
        more == names \cup {n \in next : n \in DOMAIN rules \ {skip}}
    IN IF more = names THEN names ELSE Reached(more, rules, regions, skip)

(* _precise: a sibling closed by a character reads one closed by nothing.  *)
Precise(regions) ==
    {r \in regions : r.closing # <<>> \/ ~\E q \in regions : q.closing # <<>> /\ q.opening = r.opening}

(* _decided_by: siblings a longest-first reading tells apart from a region.*)
DecidedBy(regions, region) ==
    {o.rule : o \in {q \in regions : /\ q.opening[1] = region.opening[1]
                                     /\ \/ q.opening # region.opening
                                        \/ q.rule \notin {p.rule : p \in Precise(regions)}}}

(* _sole_opener: nothing else a scan reads spells the region's lead.       *)
SoleOpener(ast, region, regions) ==
    LET rules == RuleMap(ast)
        lead == region.opening[1]
        openings == {<<r.rule, r.arm, 1>> : r \in regions}
        instances == {r.opening \o r.closing : r \in {q \in regions : q.closing # <<>>}}
        names == Reached({ast.start} \cap (DOMAIN rules \ {region.rule}), rules, regions, region.rule)
    IN \A name \in names \ DecidedBy(regions, region) : \A place \in Visible(name, rules, regions) :
        LET item == rules[name][place[1]][place[2]]
            spelled == LiteralText(item, rules)
        IN \/ ~Emits(item, lead, rules, DOMAIN rules, {})
           \/ <<name>> \o place \in openings /\ (spelled = <<>> \/ spelled[1] # lead)
           \/ spelled \in instances

(* _certified, interiors: every shape is skipped, and what fails dropped,  *)
(* until the skipped regions certify each other.                           *)
RECURSIVE Certified(_, _)
Certified(ast, regions) ==
    LET all == ToSet(regions)
        deciding == {p.rule : p \in Precise(all)}
        kept == SelectSeq(regions, LAMBDA r : r.rule \notin deciding \/ SoleOpener(ast, r, all))
    IN IF Len(kept) = Len(regions) THEN kept ELSE Certified(ast, kept)
Interiors(ast) == Certified(ast, InteriorShapes(ast))
InteriorRules(ast) == {r.rule : r \in ToSet(Interiors(ast))}

(* hides: whether the region's own span can spell one of the marks.        *)
Hides(rules, region, marks) ==
    \E k \in 1..(Resumes(region) - 1), mark \in marks :
        ItemSpells(rules[region.rule][region.arm][k], mark, rules, {}, {})

-----------------------------------------------------------------------------
(* skip_delimited: where the region opened here ends - past its closer if  *)
(* that is its opening too, at its closer otherwise; here, if it is not.   *)
Escaped(string, start, escape, at) ==
    LET run == {n \in 0..(at - start - 1) :
                    \A m \in 1..n : at - m > start /\ <<CharAt(string, at - m)>> = escape}
    IN escape # <<>> /\ Max(run) % 2 = 1

SkipDelimited(string, start, region) ==
    LET ends == {at \in (start + Len(region.opening))..Len(string) :
                    /\ StartsWith(string, region.closing, at)
                    /\ ~Escaped(string, start, region.escape, at)}
    IN CASE Len(region.opening) > 1 /\ ~StartsWith(string, region.opening, start) -> start
         [] region.closing = region.escape \/ ends = {} -> Len(string)
         [] OTHER -> Min(ends) + (IF Symmetric(region) THEN Len(region.closing) ELSE 0)

(* skip_opaque over skip_table: the longest opening that stands here wins. *)
SkipOpaque(string, at, regions) ==
    LET here == SelectSeq(regions, LAMBDA r : r \in Precise(ToSet(regions))
                                                /\ StartsWith(string, r.opening, at))
        longest == Max({Len(r.opening) : r \in ToSet(here)})
    IN IF here = <<>> THEN at
       ELSE SkipDelimited(string, at, SelectSeq(here, LAMBDA r : Len(r.opening) = longest)[1])
=============================================================================
