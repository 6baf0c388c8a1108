----------------------------- MODULE SplitPlans -----------------------------
(***************************************************************************)
(* parallel/planner with plan/split, plan/speculation and stitch/safety:   *)
(* the ways a grammar's texts may be cut into pieces that parse alone, and *)
(* the proofs that license each.  A plan ends units with a mark, puts a    *)
(* mark between them, or proposes where one opens and lets the pieces'     *)
(* parses decide.                                                          *)
(***************************************************************************)
EXTENDS GrammarRoles, OpaqueInteriors

-----------------------------------------------------------------------------
(* pair_rules: opener, closer and the first rule whose arm they enclose.   *)
PairRules(ast) ==
    LET rules == RuleMap(ast)
        Closers(arm) == SelectSeq([k \in 1..(Len(arm) - 1) |-> LiteralChar(arm[k + 1], rules)],
                                  LAMBDA s : s # <<>>)
        OfArm(name, arm) ==
            LET opener == LiteralChar(arm[1], rules)
                closers == Closers(arm)
            IN IF Len(arm) < 3 THEN <<>>
               ELSE IF opener = <<>> \/ closers = <<>> \/ Last(closers) = opener THEN <<>>
               ELSE <<[opener |-> opener[1], closer |-> Last(closers)[1], rule |-> name]>>
        all == FlattenSeq([n \in DOMAIN ast.rules |-> FlattenSeq(
                    [k \in DOMAIN ast.rules[n].body |-> OfArm(ast.rules[n].name, ast.rules[n].body[k])])])
    IN FoldLeft(LAMBDA kept, p : IF \E q \in ToSet(kept) : q.opener = p.opener THEN kept
                                 ELSE Append(kept, p), <<>>, all)

(* _protected: the rules whose punctuation the depth of the scan accounts. *)
Protected(ast, roles) ==
    {p.rule : p \in {q \in ToSet(PairRules(ast)) : <<q.opener, q.closer>> \in roles.pairs}}

(* owner_excludes: no unit can spell the separator outside those.          *)
OwnerExcludes(ast, protected, owner, separator) ==
    LET rules == RuleMap(ast)
    IN owner \in DOMAIN rules
       /\ (owner \in protected \/ ~RuleSpells(owner, separator, rules, protected, {owner}))

(* mark_overlap: which of two overlapping occurrences of a doubled mark is *)
(* real - the earlier, the later, or that no reading can say.              *)
MarkOverlap(ast, owner, mark) ==
    LET rules == RuleMap(ast)
        ends == \E arm \in ToSet(rules[owner]) : Has(LastSet(arm, rules, {owner}), mark[1])
        begins == \E arm \in ToSet(rules[owner]) : Has(FirstSet(arm, rules, {owner}), mark[2])
    IN IF Len(mark) < 2 \/ (Len(mark) >= 2 /\ mark[1] # mark[2]) THEN [decided |-> TRUE, trailing |-> FALSE]
       ELSE IF owner \notin DOMAIN rules \/ (ends /\ begins) THEN [decided |-> FALSE, trailing |-> FALSE]
       ELSE [decided |-> TRUE, trailing |-> ends]

-----------------------------------------------------------------------------
(* _ends_once, _final_edge, _spells_edge: every arm spells the mark as its *)
(* last thing and nowhere before, reading what a scan reads of it.         *)
Scope(rules, protected, opaque) == [rules |-> rules, protected |-> protected, opaque |-> opaque]
Scanned(name, k, scope) ==
    LET items == scope.rules[name][k]
        region == SelectSeq(scope.opaque, LAMBDA r : r.rule = name /\ r.arm = k)
    IN IF region = <<>> THEN items ELSE SubSeq(items, Resumes(region[1]), Len(items))

RECURSIVE EndsOnce(_, _, _, _), FinalEdge(_, _, _, _), SpellsEdge(_, _, _, _)
(* Mutant: what an arm spells before its end is not asked.                 *)
EndsAtLast(name, mark, scope, path) ==
    \A k \in DOMAIN scope.rules[name] :
        LET items == Scanned(name, k, scope)
        IN items # <<>> /\ Unit(Last(items)) /\ FinalEdge(items, mark, scope, path)
EndsOnce(name, mark, scope, path) ==
    \A k \in DOMAIN scope.rules[name] :
        LET items == Scanned(name, k, scope)
        IN /\ items # <<>> /\ Unit(Last(items))
           /\ ~ArmSpells(Front(items), mark, scope.rules, scope.protected, path)
           /\ FinalEdge(items, mark, scope, path)
FinalEdge(items, mark, scope, path) ==
    LET head == Front(items)
        last == Last(items)
    IN IF SpellsEdge(last, mark, scope, path)
       THEN Len(mark) = 1 \/ ~Meets(head, <<last>>, mark, scope.rules, path)
       ELSE /\ Len(mark) = MarkArity /\ ExactText(last, scope.rules, path) = Tail(mark)
            /\ ~ArmEmpty(head, scope.rules)
            /\ SoleChar(LastSet(head, scope.rules, path)) = <<mark[1]>>
SpellsEdge(last, mark, scope, path) ==
    LET atom == last.atom
    IN \/ /\ IsLiteral(atom)
          /\ {at \in DOMAIN atom.text : StartsWith(atom.text, mark, at - 1)} = {Len(atom.text) - Len(mark) + 1}
       \/ /\ IsRef(atom) /\ ~Blocked(atom, scope.rules, path)
          /\ EndsOnce(atom.rule, mark, scope, path \cup {atom.rule})

(* _unit_anchored: the region can only open where a unit does.             *)
UnitAnchored(rules, owner, region) ==
    LET leading == {arm \in ToSet(rules[owner]) : LeadsWith(arm, region.opening[1], rules, {owner})}
    IN /\ region.escape = <<>>
       /\ \/ region.rule = owner
          \/ leading = {<<Once(To(region.rule))>>}

(* mark_interiors: the regions a scan for an owner's marks skips.          *)
MarkInteriors(ast, roles, owner, marks) ==
    IF roles.pairs # {} THEN <<>>
    ELSE SelectSeq(InteriorShapes(ast),
            LAMBDA r : /\ Hides(RuleMap(ast), r, marks)
                       /\ r \in ToSet(Interiors(ast)) \/ UnitAnchored(RuleMap(ast), owner, r))

(* terminates_once.                                                        *)
TerminatesOnce(ast, roles, owner, mark) ==
    /\ MarkOverlap(ast, owner, mark).decided
    /\ EndsOnce(owner, mark,
                Scope(RuleMap(ast), Protected(ast, roles), MarkInteriors(ast, roles, owner, {mark})), {owner})

(* bounds_units: no unit emits a mark before its own last character.       *)
BoundsUnits(ast, owner, marks) ==
    LET rules == RuleMap(ast)
    IN /\ \A mark \in marks : Len(mark) = 1
       /\ \A arm \in ToSet(rules[owner]) : ~ArmEmpty(arm, rules)
       /\ ~Overlaps(Interior(owner, rules), Chars({mark[1] : mark \in marks}))

-----------------------------------------------------------------------------
(* unit_prefix: what a unit announces itself with - a head, noise, and one *)
(* character neither of them holds.                                        *)
UnitPrefix(unit, mark, rules, skipped) ==
    LET items == rules[unit][1]
        vital == {k \in 2..Len(items) : ~DerivesEmpty(items[k], rules, {})}
        place == Min(vital)
        head == EmitSet(items[1], rules, {}, skipped)
        noise == Without(UnionOf({EmitSet(items[k], rules, {}, skipped) : k \in 2..(place - 1)}), {mark})
        opens == FirstSet(<<items[place]>>, rules, {})
        found == [head |-> head, noise |-> noise, literal |-> SoleChar(opens), place |-> place]
    IN IF \/ Len(rules[unit]) # 1 \/ Len(items) < 2
          \/ (items # <<>> /\ DerivesEmpty(items[1], rules, {})) \/ vital = {}
       THEN {}
       ELSE IF SoleChar(opens) = <<>> \/ Overlaps(UnionOf({head, noise}), opens) \/ Has(head, mark)
            THEN {} ELSE {found}

(* leads_once: an arm that carries the mark leads with it, and goes on with*)
(* no head.                                                                *)
AfterLeadMark(items, mark, rules, path) ==
    LET spelled == IF items = <<>> THEN <<>> ELSE LiteralText(items[1], rules)
    IN IF spelled = <<>> \/ (spelled # <<>> /\ (spelled[1] # mark \/ mark \in ToSet(Tail(spelled)))) THEN {}
       ELSE IF Len(spelled) > 1 THEN {Chars({spelled[2]})} ELSE {FirstSet(Tail(items), rules, path)}
Carries(items, mark, rules, path) == \E item \in ToSet(items) : Emits(item, mark, rules, {}, path)
LeadsOnce(name, proof, rules, path) ==
    LET Beyond(arm) == AfterLeadMark(arm, proof.mark, rules, path)
    IN /\ \E arm \in ToSet(rules[name]) : Beyond(arm) # {}
       /\ \A arm \in ToSet(rules[name]) :
            /\ Beyond(arm) = {} => ~Carries(arm, proof.mark, rules, path)
            /\ \A after \in Beyond(arm) : /\ ~after.negated /\ ~Overlaps(after, proof.found.head)
                                         /\ ~Carries(Tail(arm), proof.mark, rules, path)

(* _guards: a rule no reading of a prefix can have entered.                *)
Guards(name, proof, rules, path) ==
    LET allowed == UnionOf({proof.found.head, proof.found.noise})
        opens == IF Len(rules[name]) = 1 THEN FirstSet(rules[name][1], rules, path) ELSE NoChar
        entered == UnionOf({FirstSet(arm, rules, path) : arm \in ToSet(rules[name])})
    IN /\ ~Overlaps(entered, allowed) /\ ~Overlaps(opens, allowed)
       /\ \/ name \in proof.skipped
          \/ \A arm \in ToSet(rules[name]) : ~Carries(arm, proof.mark, rules, path)
          \/ EndsOnce(name, <<proof.mark>>, Scope(rules, {}, <<>>), path \cup {name})
          \/ LeadsOnce(name, proof, rules, path)

(* _reaches_literal: the inside of a unit might spell a prefix.            *)
RECURSIVE ReachesLiteral(_, _, _, _)
ReachesLiteral(item, proof, rules, path) ==
    LET atom == item.atom
    IN /\ Emits(item, proof.found.literal[1], rules, {}, path)
       /\ CASE IsGroup(atom) -> \E inner \in Items(atom.arms) : ReachesLiteral(inner, proof, rules, path)
            [] IsRef(atom) ->
                \/ Blocked(atom, rules, path)
                \/ /\ ~Guards(atom.rule, proof, rules, path)
                   /\ \E inner \in Items(rules[atom.rule]) :
                        ReachesLiteral(inner, proof, rules, path \cup {atom.rule})
            [] OTHER -> TRUE

Unclosed(ast) == {r.rule : r \in {q \in ToSet(InteriorShapes(ast)) : ~Symmetric(q)}}

(* unit_boundary: the prefix, if nothing inside a unit can spell one.      *)
UnitBoundary(ast, unit, mark) ==
    LET rules == RuleMap(ast)
        Proof(found, certified) == [found |-> found, mark |-> mark, skipped |-> certified]
    IN {found \in UnitPrefix(unit, mark, rules, Unclosed(ast)) :
            \A k \in DOMAIN rules[unit][1] \ {found.place} :
                ~ReachesLiteral(rules[unit][1][k], Proof(found, InteriorRules(ast)), rules, {unit})}

-----------------------------------------------------------------------------
(* continues: what a unit of this rule may still go on with once it could  *)
(* have ended.                                                             *)
RECURSIVE Continues(_, _, _), ArmContinues(_, _, _), ItemContinues(_, _, _)
ArmContinues(items, rules, path) ==
    UnionOf(UNION {{FirstSet(SubSeq(items, k + 1, Len(items)), rules, path),
                    ItemContinues(items[k], rules, path)} :
                    k \in {j \in DOMAIN items : ArmEmpty(SubSeq(items, j + 1, Len(items)), rules)}})
ItemContinues(item, rules, path) ==
    LET atom == item.atom
    IN UnionOf({IF Repeats(item) THEN ItemEdge(item, FALSE, rules, path) ELSE NoChar}
               \cup (CASE IsRef(atom)   -> {Continues(atom.rule, rules, path)}
                       [] IsGroup(atom) -> {ArmContinues(arm, rules, path) : arm \in ToSet(atom.arms)}
                       [] OTHER         -> {}))
Continues(name, rules, path) ==
    IF name \notin DOMAIN rules \/ name \in path THEN EveryChar
    ELSE UnionOf({ArmContinues(arm, rules, path \cup {name}) : arm \in ToSet(rules[name])})

(* _derive_openings: what only a unit can open with, in a grammar a        *)
(* predictive descent decides at every turn.                               *)
Openings(ast, unit, predictive) ==
    LET rules == RuleMap(ast)
        Alone(opening) ==
            /\ ~opening.negated /\ opening.chars \subseteq Anchors(ast)
            /\ ~Overlaps(opening, Continues(unit, rules, {}))
        Marking(opening) == IF Alone(opening) THEN {<<c>> : c \in opening.chars} ELSE {}
    IN IF \/ unit \notin DOMAIN rules \/ ~predictive
          \/ (unit \in DOMAIN rules /\ \E arm \in ToSet(rules[unit]) : ArmEmpty(arm, rules))
       THEN {}
       ELSE Marking(UnionOf({FirstSet(arm, rules, {unit}) : arm \in ToSet(rules[unit])}))

-----------------------------------------------------------------------------
(* Scanner: what a scan counts, and the marks it reports at depth 0.       *)
Scanner(pairs, marks, opaque) ==
    LET openers == {pair[1] : pair \in pairs}
        closers == {pair[2] : pair \in pairs}
    IN [openers |-> openers, closers |-> closers, opaque |-> opaque,
        marks |-> {mark \in marks : ToSet(mark) \cap (openers \cup closers) = {}}]
MarksOf(roles) ==
    {r.mark : r \in ToSet(roles.records)} \cup UNION {r.mark : r \in ToSet(roles.terminators)}

(* SplitPlan.                                                              *)
Plan(kind, scanner, marks, owner) ==
    [kind |-> kind, scanner |-> scanner, marks |-> marks, owner |-> owner, wrappers |-> <<>>,
     sep |-> <<>>, skip |-> {}, trailing |-> FALSE, bound |-> {}]
Terminated(plan) == plan.kind # "separated"
Opening(plan) == plan.kind = "opening"
SoleMark(plan) == Agreed(plan.marks)

UnitRef(item) == IF IsRef(item.atom) /\ Unit(item) THEN {item.atom.rule} ELSE {}
SingleArm(name, rules) == name \in DOMAIN rules /\ Len(rules[name]) = 1

(* A start that is nothing but a repeated rule, and that rule.             *)
RepeatedUnit(ast, rules) ==
    IF ~SingleArm(ast.start, rules) THEN {}
    ELSE LET items == rules[ast.start][1]
         IN {i.atom.rule : i \in {j \in ToSet(items) : Len(items) = 1 /\ UnlimitedItem(j) /\ IsRef(j.atom)}}

(* _terminated_plans.                                                      *)
TerminatedPlans(ast, roles) ==
    LET its == SelectSeq(roles.terminators, LAMBDA r : r.unit \in RepeatedUnit(ast, RuleMap(ast))
                                                        /\ r.container = ast.start)
    IN [k \in DOMAIN its |->
            Plan("terminated",
                 Scanner(roles.pairs, MarksOf(roles), MarkInteriors(ast, roles, its[k].unit, its[k].mark)),
                 its[k].mark, its[k].unit)]

(* _wrapper_chain: sole references from the start to the container, with   *)
(* nothing after them that cannot vanish.                                  *)
RECURSIVE WrapperChain(_, _, _, _)
WrapperChain(current, target, rules, seen) ==
    IF current = target THEN {<<>>}
    ELSE IF ~SingleArm(current, rules) \/ current \in seen THEN {}
    ELSE LET items == rules[current][1]
             child == IF items = <<>> THEN {} ELSE UnitRef(items[1])
         IN IF \E k \in 2..Len(items) : ~UnlimitedItem(items[k]) \/ items[k].lo # 0 THEN {}
            ELSE UNION {{<<current>> \o rest : rest \in WrapperChain(c, target, rules, seen \cup {current})} :
                            c \in child}

(* lead_skip: the finite characters a lead may hold beside its mark.       *)
AtomChars(atom) ==
    CASE IsLiteral(atom) -> ToSet(atom.text)
      [] IsClass(atom)   -> IF atom.set.negated THEN {} ELSE atom.set.chars
      [] OTHER           -> {}
LeadSkip(name, mark, rules) ==
    LET Of(atom) == AtomChars(atom) \cup
                    (IF IsRef(atom) /\ ~Unknown(atom, rules)
                     THEN UNION {AtomChars(i.atom) : i \in Items(rules[atom.rule])} ELSE {})
    IN IF Len(rules[name]) # 1 THEN {}
       ELSE UNION {Of(rules[name][1][k].atom) : k \in 2..Len(rules[name][1])} \ ToSet(mark)

(* _plan_for: a unit, and copies of a mark and that unit.                  *)
PlanFor(ast, roles, sep) ==
    LET rules == RuleMap(ast)
        items == rules[sep.container][1]
        step == rules[sep.item][1]
        unit == UnitRef(items[1])
        Leads == IF sep.lead # NoLead THEN UnitRef(step[1]) = {sep.lead}
                 ELSE step[1].atom = Spelling(sep.mark)
        shaped == /\ SingleArm(sep.container, rules) /\ Len(items) = 2
                  /\ unit # {} /\ items[2].atom = To(sep.item)
                  /\ SingleArm(sep.item, rules) /\ Len(step) = 2 /\ UnitRef(step[2]) = unit /\ Leads
        Of(chain) == [Plan("separated", Scanner(roles.pairs, MarksOf(roles), <<>>), {sep.mark},
                           items[1].atom.rule)
                        EXCEPT !.wrappers = chain, !.sep = <<sep>>,
                               !.skip = IF sep.lead = NoLead THEN {} ELSE LeadSkip(sep.lead, sep.mark, rules)]
    IN IF sep.item \notin DOMAIN rules THEN <<>>
       ELSE IF ~shaped THEN <<>>
       ELSE SetToSeq({Of(chain) : chain \in WrapperChain(ast.start, sep.container, rules, {})})

SeparatedPlans(ast, roles) ==
    FlattenSeq([k \in DOMAIN roles.records |-> PlanFor(ast, roles, roles.records[k])])

(* _speculative_plans: the scan proposes, the pieces decide.               *)
SpeculativePlans(ast, roles, predictive) ==
    LET Of(unit, marks) == Plan("opening", Scanner(roles.pairs, marks, <<>>), marks, unit)
    IN SelectSeq(SetToSeq({Of(u, Openings(ast, u, predictive)) : u \in RepeatedUnit(ast, RuleMap(ast))}),
                 LAMBDA plan : plan.marks # {})

(* split_plans.                                                            *)
OfferedPlans(ast, roles, predictive) ==
    LET Preferred(one, other) == IF one # <<>> THEN one ELSE other
    IN Preferred(TerminatedPlans(ast, roles), SeparatedPlans(ast, roles))
        \o SpeculativePlans(ast, roles, predictive)

(* certified_plan: as it is to be used, or nothing.                        *)
ExcludedPlan(ast, roles, plan, mark, overlap) ==
    IF OwnerExcludes(ast, Protected(ast, roles), plan.owner, mark) /\ overlap.decided
    THEN <<[plan EXCEPT !.trailing = overlap.trailing]>> ELSE <<>>
BoundedPlan(plan, bound) == IF bound = {} THEN <<>> ELSE <<[plan EXCEPT !.bound = bound]>>
EndingPlan(ast, roles, plan, mark) ==
    IF \/ mark # <<>> /\ TerminatesOnce(ast, roles, plan.owner, mark)
       \/ BoundsUnits(ast, plan.owner, plan.marks)
    THEN <<plan>>
    ELSE BoundedPlan(plan, IF Len(mark) = 1 THEN UnitBoundary(ast, plan.owner, mark[1]) ELSE {})
CertifiedPlan(ast, roles, plan) ==
    CASE plan.kind = "opening" -> <<plan>>
      [] plan.kind = "separated" ->
            ExcludedPlan(ast, roles, plan, SoleMark(plan), MarkOverlap(ast, plan.owner, SoleMark(plan)))
      [] plan.kind = "terminated" -> EndingPlan(ast, roles, plan, SoleMark(plan))

(* safe_plans.                                                             *)
CertifiedPlans(ast, roles, offered) ==
    FlattenSeq([k \in DOMAIN offered |-> CertifiedPlan(ast, roles, offered[k])])
PlansUnder(ast, roles, predictive) == CertifiedPlans(ast, roles, OfferedPlans(ast, roles, predictive))
SafePlans(ast, predictive) == PlansUnder(ast, Roles(ast), predictive)
=============================================================================
