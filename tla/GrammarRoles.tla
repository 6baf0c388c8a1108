---------------------------- MODULE GrammarRoles ----------------------------
(***************************************************************************)
(* parallel/discovery/anchors and parallel/roles: which characters a text  *)
(* can only hold as punctuation, and what they do there - which pair up    *)
(* around something, which separate the units of a repetition, and which   *)
(* end them.  A mark is a spelling: a sequence of characters.              *)
(***************************************************************************)
EXTENDS Normalize

Distinct(list) ==
    FoldLeft(LAMBDA kept, x : IF x \in ToSet(kept) THEN kept ELSE Append(kept, x), <<>>, list)

(* SITE_EMITS: what every atom that is no reference can emit.              *)
RECURSIVE AtomSites(_)
AtomSites(atom) ==
    CASE IsLiteral(atom) -> IF atom.text = <<>> THEN {} ELSE {Chars(ToSet(atom.text))}
      [] IsClass(atom)   -> {atom.set}
      [] IsGroup(atom)   -> UNION {AtomSites(item.atom) : item \in Items(atom.arms)}
      [] OTHER           -> {}

(* _run_chars: whatever a maximal-munch run would swallow.                 *)
RunChars(ast) ==
    LET arms == Interned(Normal(ast).arms)
    IN UNION {RunShape(rule, arms) : rule \in Candidates(arms)}

(* anchors: held by some finite site, by no co-finite one, and by no run.  *)
Anchors(ast) ==
    LET sites == UNION {AtomSites(item.atom) : item \in UNION {Items(r.body) : r \in ToSet(ast.rules)}}
        named == UNION {s.chars : s \in {t \in sites : ~t.negated}}
    IN {c \in named : \A s \in sites : s.negated => ~Has(s, c)} \ RunChars(ast)

-----------------------------------------------------------------------------
(* _anchor_chars, _anchor_char, _anchor_marks: one item's anchors.         *)
AnchorChars(item, anchors) ==
    LET atom == item.atom
        held == CASE IsLiteral(atom) /\ Len(atom.text) = 1    -> ToSet(atom.text)
                  [] IsClass(atom) /\ ~atom.set.negated       -> atom.set.chars
                  [] OTHER                                    -> {}
    IN IF Unit(item) /\ held \subseteq anchors THEN held ELSE {}
AnchorChar(item, anchors) == Agreed({<<c>> : c \in AnchorChars(item, anchors)})
AnchorMarks(item, anchors) ==
    LET atom == item.atom
    IN {<<c>> : c \in AnchorChars(item, anchors)} \cup
       (IF Unit(item) /\ IsLiteral(atom) /\ Len(atom.text) > 1 /\ ToSet(atom.text) \subseteq anchors
        THEN {atom.text} ELSE {})

(* _arm_pair: the arm's first anchor and its last, around something.       *)
ArmPair(items, anchors) ==
    LET opener == AnchorChar(items[1], anchors)
        closers == {k \in 2..Len(items) : AnchorChar(items[k], anchors) # <<>>}
        closer == AnchorChar(items[Max(closers)], anchors)
        delimited == \E k \in 2..(Max(closers) - 1) : IsRef(items[k].atom) \/ IsGroup(items[k].atom)
    IN IF Len(items) > 2 /\ opener # <<>> /\ closers # {} /\ closer # opener /\ delimited
       THEN {<<opener[1], closer[1]>>} ELSE {}

(* _lead_info, _body_leads: the marks that lead every arm, and the one rule*)
(* that spells them; {} if some arm is led by none.                        *)
NoLead == ""
RECURSIVE LeadInfo(_, _, _, _), BodyLeads(_, _, _, _)
LeadInfo(item, rules, anchors, seen) ==
    LET marks == AnchorMarks(item, anchors)
    IN CASE marks # {} -> {[marks |-> marks, lead |-> NoLead]}
         [] marks = {} /\ IsRef(item.atom) /\ Unit(item) /\ ~Blocked(item.atom, rules, seen) ->
                {[found EXCEPT !.lead = item.atom.rule] :
                    found \in BodyLeads(rules[item.atom.rule], rules, anchors, seen \cup {item.atom.rule})}
         [] OTHER -> {}
BodyLeads(body, rules, anchors, seen) ==
    LET Info(k) == IF body[k] = <<>> THEN {} ELSE LeadInfo(body[k][1], rules, anchors, seen)
        infos == UNION {Info(k) : k \in DOMAIN body}
        leads == {info.lead : info \in infos}
    IN IF \E k \in DOMAIN body : Info(k) = {} THEN {}
       ELSE {[marks |-> UNION {info.marks : info \in infos},
              lead |-> IF Cardinality(leads) = 1 THEN CHOOSE lead \in leads : TRUE ELSE NoLead]}

(* _repeated_separators: a record for each mark that leads a repetition.   *)
Inline == ""
LeadRecords(container, atom, info) ==
    LET marks == SortSeq(Listed(info.marks), LAMBDA one, other : Len(one) < Len(other))
    IN [k \in DOMAIN marks |->
            [mark |-> marks[k], container |-> container, lead |-> info.lead,
             item |-> IF IsRef(atom) THEN atom.rule ELSE Inline]]
OfAny(container, atom, found) ==
    IF found = {} THEN <<>> ELSE LeadRecords(container, atom, CHOOSE info \in found : TRUE)
RepeatedSeparators(container, item, rules, anchors) ==
    IF UnlimitedItem(item) /\ (IsGroup(item.atom) \/ (IsRef(item.atom) /\ ~Unknown(item.atom, rules)))
    THEN OfAny(container, item.atom, BodyLeads(Below(item.atom, rules), rules, anchors, {}))
    ELSE <<>>

-----------------------------------------------------------------------------
(* _item_edge, _body_edge: the one anchor every arm of a unit ends with.   *)
RECURSIVE EdgeMark(_, _, _, _), BodyEdge(_, _, _, _)
BodyEdge(body, rules, anchors, seen) ==
    IF <<>> \in ToSet(body) THEN <<>>
    ELSE Agreed({EdgeMark(arm[Len(arm)], rules, anchors, seen) : arm \in ToSet(body)})
EdgeMark(item, rules, anchors, seen) ==
    LET atom == item.atom
        last == atom.text[Len(atom.text)]
        alone == \A k \in DOMAIN atom.text : k < Len(atom.text) => atom.text[k] # last
    IN CASE AnchorChar(item, anchors) # <<>> -> AnchorChar(item, anchors)
         [] IsLiteral(atom) -> IF Unit(item) /\ Len(atom.text) > 1 /\ last \in anchors /\ alone
                               THEN <<last>> ELSE <<>>
         [] IsRef(atom) -> IF ~Unit(item) \/ Blocked(atom, rules, seen) THEN <<>>
                           ELSE BodyEdge(rules[atom.rule], rules, anchors, seen \cup {atom.rule})
         [] OTHER -> <<>>

(* arm_tail, agreed_tail: the spelling every arm ends with, want long.     *)
Sole(cs) == IF cs.negated THEN <<>> ELSE Agreed({<<c>> : c \in cs.chars})
RECURSIVE ArmTail(_, _, _, _), OpenTail(_, _, _, _), AgreedTail(_, _, _, _)
AgreedTail(body, want, rules, path) == Agreed({ArmTail(arm, want, rules, path) : arm \in ToSet(body)})
ArmTail(items, want, rules, path) ==
    LET whole == ExactText(items[Len(items)], rules, path)
        head == ArmTail(Front(items), want - Len(whole), rules, path)
    IN CASE items = <<>> \/ want <= 0 -> <<>>
         [] items # <<>> /\ want > 0 /\ Len(whole) >= want -> SubSeq(whole, Len(whole) - want + 1, Len(whole))
         [] items # <<>> /\ want > 0 /\ Len(whole) \in 1..(want - 1) ->
                IF head # <<>> THEN head \o whole ELSE <<>>
         [] OTHER -> OpenTail(items, want, rules, path)
OpenTail(items, want, rules, path) ==
    LET last == items[Len(items)]
        name == last.atom.rule
        below == IF IsRef(last.atom) /\ Unit(last) /\ ~Blocked(last.atom, rules, path)
                 THEN AgreedTail(rules[name], want, rules, path \cup {name})
                 ELSE <<>>
    IN IF below # <<>> THEN below
       ELSE IF want = 1 THEN Sole(LastSet(items, rules, path)) ELSE <<>>

(* _ending_alphabet: every character a unit may end with, if all anchors.  *)
EndingAlphabet(unit, rules, anchors) ==
    LET ends == UnionOf({LastSet(arm, rules, {unit}) : arm \in ToSet(rules[unit])})
    IN IF ends.negated \/ ~(ends.chars \subseteq anchors) THEN {} ELSE {<<c>> : c \in ends.chars}

(* _edge_marks: the ways a unit's end is marked, each a set of spellings.  *)
EdgeMarks(unit, rules, anchors) ==
    Distinct(SelectSeq(
        <<{BodyEdge(rules[unit], rules, anchors, {unit})},
          {AgreedTail(rules[unit], MarkArity, rules, {unit})},
          EndingAlphabet(unit, rules, anchors)>>,
        LAMBDA marks : marks \notin {{}, {<<>>}} /\ \A mark \in marks : ToSet(mark) \subseteq anchors))

(* _terminators: one record for each repetition of a rule and each mark.   *)
EndRecords(container, unit, marks) ==
    [k \in DOMAIN marks |-> [mark |-> marks[k], container |-> container, unit |-> unit]]
Terminators(container, item, rules, anchors) ==
    IF ~UnlimitedItem(item) \/ ~IsRef(item.atom) \/ Unknown(item.atom, rules) THEN <<>>
    ELSE EndRecords(container, item.atom.rule, EdgeMarks(item.atom.rule, rules, anchors))

-----------------------------------------------------------------------------
(* _derive_roles: an anchor that pairs marks nothing else.                 *)
ItemsOf(ast) ==
    FlattenSeq([n \in DOMAIN ast.rules |->
        FlattenSeq([k \in DOMAIN ast.rules[n].body |->
            [j \in DOMAIN ast.rules[n].body[k] |->
                [rule |-> ast.rules[n].name, item |-> ast.rules[n].body[k][j]]]])])
PairsOf(ast, anchors) ==
    UNION {UNION {ArmPair(arm, anchors) : arm \in ToSet(r.body)} : r \in ToSet(ast.rules)}
Free(mark, pairs) == \A pair \in pairs : {pair[1], pair[2]} \cap ToSet(mark) = {}

Separating(sites, rules, anchors) ==
    Distinct(FlattenSeq([n \in DOMAIN sites |->
        RepeatedSeparators(sites[n].rule, sites[n].item, rules, anchors)]))
Ended(sites, rules, anchors) ==
    Distinct(FlattenSeq([n \in DOMAIN sites |->
        Terminators(sites[n].rule, sites[n].item, rules, anchors)]))
RolesOf(pairs, separating, ended) ==
    [pairs |-> pairs,
     records |-> SelectSeq(separating, LAMBDA r : Free(r.mark, pairs)),
     terminators |-> SelectSeq([k \in DOMAIN ended |-> [ended[k] EXCEPT !.mark = {m \in @ : Free(m, pairs)}]],
                               LAMBDA r : r.mark # {})]
RolesUnder(ast, rules, anchors) ==
    RolesOf(PairsOf(ast, anchors), Separating(ItemsOf(ast), rules, anchors), Ended(ItemsOf(ast), rules, anchors))
Roles(ast) == RolesUnder(ast, RuleMap(ast), Anchors(ast))
=============================================================================
