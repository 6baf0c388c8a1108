---------------------------- MODULE RegionStitch ----------------------------
(***************************************************************************)
(* parallel/stitch - plan, tasks, merge and the routes of model: how a     *)
(* region's rule repeats its items, the stand-in a divided region leaves   *)
(* where it is held, and the tree its pieces make in the stand-in's place. *)
(*                                                                         *)
(* A model's children are its tree's items, numbered as in the arm.  What  *)
(* may be missing is a set of at most one thing.                           *)
(***************************************************************************)
EXTENDS RegionPartition, Readings

SoleArm(rule, rules) ==
    IF rule \in DOMAIN rules /\ Len(rules[rule]) = 1 THEN rules[rule][1] ELSE <<>>
RefAt(arm, k) ==
    IF k \in DOMAIN arm /\ IsRef(arm[k].atom) THEN {arm[k].atom.rule} ELSE {}

(* The separator of a tail: a repeated rule of one arm, a separator and    *)
(* then the head again.                                                    *)
TailSeparators(arm, k, head, rules) ==
    {LiteralChar(SoleArm(tail, rules)[1], rules) : tail \in {t \in RefAt(arm, k) :
        /\ UnlimitedItem(arm[k])
        /\ Len(SoleArm(t, rules)) = 2 /\ RefAt(SoleArm(t, rules), 2) = {head}}} \ {<<>>}

(* _candidate, _direct_candidate: the recurrence an arm's item names, and  *)
(* the one the arm itself is.                                              *)
Recurrence(arm, k, at, rules) ==
    {[head |-> head, headAt |-> k, tail |-> tail, separator |-> separator[1], at |-> at] :
        <<head, tail, separator>> \in UNION {{h} \X RefAt(arm, k + 1) \X TailSeparators(arm, k + 1, h, rules) :
                                                h \in RefAt(arm, k)}}
Configured(arm, rules) ==
    UNION {UNION {Recurrence(SoleArm(items, rules), 1, k, rules) :
                    items \in {i \in RefAt(arm, k) : Len(SoleArm(i, rules)) = 2}} : k \in DOMAIN arm}
Direct(arm, rules) == UNION {Recurrence(arm, k, 0, rules) : k \in DOMAIN arm}

(* _finite_chars, of the item before a recurrence.                         *)
RECURSIVE FiniteChars(_, _, _)
FiniteChars(atom, rules, path) ==
    CASE IsLiteral(atom) -> ToSet(atom.text)
      [] IsClass(atom)   -> IF atom.set.negated THEN {} ELSE atom.set.chars
      [] IsRef(atom) /\ ~Blocked(atom, rules, path) ->
            UNION {FiniteChars(item.atom, rules, path \cup {atom.rule}) : item \in Items(rules[atom.rule])}
      [] OTHER           -> {}

(* derive_plan: where the items stand and the rule that has them - the     *)
(* region's own, at 0, if it is the recurrence -, and the references just  *)
(* around them, at 0 when there is none.                                   *)
RegionPlan(rule, arm, found, last, rules) ==
    LET first == IF found.at = 0 THEN found.headAt ELSE found.at
        Slot(k) == IF RefAt(arm, k) = {} THEN 0 ELSE k
    IN [rule |-> rule, head |-> found.head, tail |-> found.tail, separator |-> found.separator,
        items |-> found.at, headAt |-> found.headAt,
        itemsRule |-> IF found.at = 0 THEN rule ELSE arm[found.at].atom.rule,
        begin |-> Slot(first - 1), end |-> Slot(last + 1),
        skip |-> IF first = 1 THEN {} ELSE FiniteChars(arm[first - 1].atom, rules, {})]
PlanOf(rule, arm, configured, direct, rules) ==
    CASE Cardinality(configured) = 1 ->
            {RegionPlan(rule, arm, found, found.at, rules) : found \in configured}
      [] Cardinality(configured) # 1 /\ Cardinality(direct) = 1 ->
            {RegionPlan(rule, arm, found, found.headAt + 1, rules) : found \in direct}
      [] OTHER -> {}
DerivePlan(rule, rules) ==
    PlanOf(rule, SoleArm(rule, rules), Configured(SoleArm(rule, rules), rules),
           Direct(SoleArm(rule, rules), rules), rules)

(* bound_works: the divisions that are safe to join again, with the plan   *)
(* of their rule: no head may spell the separator outside the brackets and *)
(* interiors the region scan sees.                                         *)
DepthOwned(ast) == {p.rule : p \in ToSet(PairRules(ast))} \cup InteriorRules(ast)
SafeRegionPlans(ast, rules, owned) ==
    [rule \in DOMAIN rules |-> {plan \in DerivePlan(rule, rules) :
                                    OwnerExcludes(ast, owned, plan.head, <<plan.separator>>)}]
RegionPlans(ast) == SafeRegionPlans(ast, RuleMap(ast), DepthOwned(ast))
Work(division, plan) == [region |-> division.region, cuts |-> division.cuts, plan |-> plan, stand |-> {}]
BoundWorks(plans, string, divisions) ==
    LET Works(division) ==
            {Work(division, plan) : plan \in {p \in plans[division.region.rule] :
                \A at \in ToSet(division.region.marks) : CharAt(string, at) = p.separator}}
    IN FlattenSeq([k \in DOMAIN divisions |-> SetToSeq(Works(divisions[k]))])

-----------------------------------------------------------------------------
(* region_items, head_rest: a region's items node, and its head and tails; *)
(* an item that may be repeated has no one model.                          *)
ItemsNode(tree, plan) == IF plan.items = 0 THEN tree ELSE tree.items[plan.items][1]
HeadOf(items, plan) == items.items[plan.headAt]
TailsOf(items, plan) == items.items[plan.headAt + 1]
Shaped(plan, rules) == ~Repeats(rules[plan.itemsRule][1][plan.headAt])
WithTails(items, plan, tails) == [items EXCEPT !.items[plan.headAt + 1] = tails]
Headed(tail, head) == [tail EXCEPT !.items[2] = head]

(* _needle: the items node a stand-in is read as in the region's brackets. *)
Wrapped(string, region, inner) ==
    <<CharAt(string, region.opener)>> \o inner \o <<CharAt(string, region.closer)>>
Needles(work, witness, string, rules) ==
    IF ~Shaped(work.plan, rules) THEN {}
    ELSE {ItemsNode(tree, work.plan) :
            tree \in Parse(work.plan.rule, Over(rules, Wrapped(string, work.region, witness)))}

(* _unique: a stand-in's text nowhere else where it is held.               *)
(* Mutant: what other stand-ins there spell is not looked at.              *)
Spells(string, part) == \E at \in 0..Len(string) : StartsWith(string, part, at)
UniqueOutside(spelled, outside, taken) == ~Spells(outside, spelled)
Unique(spelled, outside, taken) ==
    /\ ~Spells(outside, spelled)
    /\ \A other \in taken : ~Spells(other, spelled) /\ ~Spells(spelled, other)

(* _place: the first of the drawn heads that may stand in for a region.    *)
StandIn(witness, needle) == [witness |-> witness, needle |-> needle]
StandIns(work, drawn, string, rules) ==
    FlattenSeq([n \in DOMAIN drawn |-> SetToSeq({StandIn(drawn[n], needle) :
                                                    needle \in Needles(work, drawn[n], string, rules)})])
Placed(work, outside, taken, drawn, string, rules) ==
    LET fit == SelectSeq(StandIns(work, drawn, string, rules), LAMBDA s : Unique(SpelledOf(s.needle), outside, taken))
    IN IF fit = <<>> THEN {} ELSE {Head(fit)}

(* assign_witnesses, one round of it: every region's stand-in, or none.    *)
Blank(works) == [k \in DOMAIN works |-> <<>>]
HeldWith(works, k) == <<Holder(works, k), IF Holder(works, k) = 0 THEN 0 ELSE PieceOf(works, k).piece>>
Assign(works, streams, string, rules) ==
    LET Beside(done, k) ==
            UNION {{SpelledOf(s.needle) : s \in done[j]} : j \in {i \in DOMAIN done : HeldWith(works, i) = HeldWith(works, k)}}
    IN FoldLeft(LAMBDA done, k : Append(done, Placed(works[k], HolderText(string, works, k, Blank(works)),
                                                     Beside(done, k), streams[works[k].plan.head], string, rules)),
                <<>>, [k \in DOMAIN works |-> k])

-----------------------------------------------------------------------------
(* sole_routes: the places below a tree's root that hold a node; a route   *)
(* is a sequence of an item's number and the number in its run.            *)
RECURSIVE Routes(_, _)
Routes(tree, node) ==
    (IF tree = node THEN {<<>>} ELSE {})
        \cup UNION {UNION {{<<<<k, n>>>> \o route : route \in Routes(tree.items[k][n], node)} :
                            n \in DOMAIN tree.items[k]} : k \in DOMAIN tree.items}
SoleRoute(tree, node) == IF Cardinality(Routes(tree, node)) = 1 THEN Routes(tree, node) \ {<<>>} ELSE {}

(* held_route, _item_at: only the item of a piece that holds it.           *)
Beyond(base, item, needle) ==
    {base \o route : route \in IF item = needle THEN {<<>>} ELSE SoleRoute(item, needle)}
HeldRoute(tree, plan, item, needle) ==
    LET items == ItemsNode(tree, plan)
        base == IF plan.items = 0 THEN <<>> ELSE <<<<plan.items, 1>>>>
    IN IF item = 1 THEN Beyond(base \o <<<<plan.headAt, 1>>>>, HeadOf(items, plan)[1], needle)
       ELSE IF item - 1 > Len(TailsOf(items, plan)) THEN {}
       ELSE Beyond(base \o <<<<plan.headAt + 1, item - 1>>, <<2, 1>>>>,
                   TailsOf(items, plan)[item - 1].items[2][1], needle)

(* model_at, splice.                                                       *)
RECURSIVE At(_, _), Spliced(_, _, _)
At(tree, route) == IF route = <<>> THEN tree ELSE At(tree.items[route[1][1]][route[1][2]], Tail(route))
Spliced(tree, route, node) ==
    IF route = <<>> THEN node
    ELSE [tree EXCEPT !.items[route[1][1]][route[1][2]] = Spliced(@, Tail(route), node)]

-----------------------------------------------------------------------------
(* _boundary_lead: the separator at a cut, and the noise the later piece   *)
(* read after its own opener.                                              *)
(* Mutant: the separator alone.                                            *)
SeparatorAlone(work, later, string, cut) == <<work.plan.separator>>
BoundaryLead(work, later, string, cut) ==
    LET begin == RunText(later.items[work.plan.begin])
        opener == CharAt(string, work.region.opener)
        after == Min({o \in (cut + 1)..Len(string) :
                        o = Len(string) \/ CharAt(string, o) = opener \/ CharAt(string, o) \notin work.plan.skip})
    IN CASE work.plan.begin = 0 -> <<work.plan.separator>>
         [] work.plan.begin # 0 /\ later.items[work.plan.begin] = <<>> -> SubSeq(string, cut + 1, after)
         [] OTHER -> <<work.plan.separator>> \o
                        (IF begin # <<>> /\ Head(begin) = opener THEN Tail(begin) ELSE begin)

(* _template_lead, template_tail: a tail some piece read with that lead.   *)
TemplateLead(tail, plan) ==
    LET spelled == RunText(tail.items[1])
    IN IF StartsWith(spelled, <<plan.separator>>, 0) THEN spelled ELSE <<plan.separator>> \o spelled
Templates(tails, lead, plan) == SelectSeq(tails, LAMBDA tail : TemplateLead(tail, plan) = lead)

(* _shallow_tail: the sole tail of two stand-ins read about that lead.     *)
ShallowTails(work, lead, witness, string, rules) ==
    UNION {{tail \in ToSet(TailsOf(items, work.plan)) : Len(TailsOf(items, work.plan)) = 1} :
            items \in Needles(work, witness \o lead \o witness, string, rules)}

(* _joint_tail: the tail that puts a later piece's head after a cut.       *)
JointTails(work, later, templates, lead, witness, string, rules) ==
    {Headed(tail, HeadOf(ItemsNode(later, work.plan), work.plan)) : tail \in
        IF Templates(templates, lead, work.plan) # <<>> THEN {Templates(templates, lead, work.plan)[1]}
        ELSE ShallowTails(work, lead, witness, string, rules)}

(* _merge_items, _joined_tails.                                            *)
Merged(work, models, witness, string, rules) ==
    LET items == [p \in DOMAIN models |-> ItemsNode(models[p], work.plan)]
        tails == [p \in DOMAIN models |-> TailsOf(items[p], work.plan)]
        Joint(p) == JointTails(work, models[p], FlattenSeq(tails),
                               BoundaryLead(work, models[p], string, work.cuts[p - 1]), witness, string, rules)
        Join(done, p) == {t \o <<joint>> \o tails[p] : <<t, joint>> \in done \X Joint(p)}
    IN {WithTails(items[1], work.plan, all) :
            all \in FoldLeft(Join, {tails[1]}, [k \in DOMAIN work.cuts |-> k + 1])}

-----------------------------------------------------------------------------
(* _joined: an edge's text, the holder's beyond the bracket and the piece's*)
(* within it.                                                              *)
Spots(string, c) == {k \in DOMAIN string : string[k] = c}
EdgeText(outer, inner, bracket, opening) ==
    LET outside == Spots(outer, bracket)
        inside == Spots(inner, bracket)
    IN IF opening
       THEN (IF outside = {} THEN <<>> ELSE SubSeq(outer, 1, Min(outside)))
                \o (IF inside = {} THEN inner ELSE SubSeq(inner, Min(inside) + 1, Len(inner)))
       ELSE (IF inside = {} THEN inner ELSE SubSeq(inner, 1, Max(inside)))
                \o (IF outside = {} THEN <<>> ELSE SubSeq(outer, Max(outside) + 1, Len(outer)))

(* _splits, _true_edge: one slot or the other, or the first that spells it *)
(* of the two divided at the bracket.                                      *)
Splits(outer, inner, opening) ==
    LET Upto(one, other, n) == SubSeq(one.items, 1, n) \o SubSeq(other.items, n + 1, Len(other.items))
    IN [n \in 1..(Len(inner.items) + 1) |->
            <<[outer EXCEPT !.items = IF opening THEN Upto(outer, inner, n - 1) ELSE Upto(inner, outer, n - 1)]>>]
TrueEdges(outer, inner, bracket, opening) ==
    LET candidates == <<outer, inner>> \o
            (IF outer # <<>> /\ inner # <<>> /\ outer[1].rule = inner[1].rule
             THEN Splits(outer[1], inner[1], opening) ELSE <<>>)
        spelling == SelectSeq(candidates, LAMBDA run :
                        RunText(run) = EdgeText(RunText(outer), RunText(inner), bracket, opening))
    IN IF spelling = <<>> THEN {} ELSE {spelling[1]}

(* _laid: a stand-in's node with the items its pieces made and its edges.  *)
Edges(work, node, piece, slot, bracket, opening, rules) ==
    CASE slot = 0 -> {<<>>}
      [] slot # 0 /\ Repeats(rules[work.plan.rule][1][slot]) -> {}
      [] OTHER -> TrueEdges(node.items[slot], piece.items[slot], bracket, opening)
WithRun(node, slot, run) == IF slot = 0 THEN node ELSE [node EXCEPT !.items[slot] = run]
WithItems(node, plan, items) ==
    IF plan.items # 0 THEN WithRun(node, plan.items, <<items>>)
    ELSE WithTails(WithRun(node, plan.headAt, HeadOf(items, plan)), plan, TailsOf(items, plan))
Laid(done, node, string, rules) ==
    {WithRun(WithRun(WithItems(node, done.work.plan, done.items), done.work.plan.begin, begin),
             done.work.plan.end, end) :
        begin \in Edges(done.work, node, done.first, done.work.plan.begin,
                        CharAt(string, done.work.region.opener), TRUE, rules),
        end \in Edges(done.work, node, done.last, done.work.plan.end,
                      CharAt(string, done.work.region.closer), FALSE, rules)}

(* _attach: every region a unit holds, laid over its stand-in there.       *)
Up(plan) == IF plan.items = 0 THEN <<>> ELSE <<<<plan.items, 1>>>>
Stands(route, plan) == Len(route) > Len(Up(plan)) /\ IsSuffix(Up(plan), route)
Above(route, plan) == SubSeq(route, 1, Len(route) - Len(Up(plan)))
LaidAt(tree, route, done, string, rules) ==
    {Spliced(tree, route, node) : node \in Laid(done, At(tree, route), string, rules)}
AttachedAll(tree, held, routes, string, rules) ==
    LET Lay(trees, n) ==
            UNION {UNION {LaidAt(t, Above(route, held[n].work.plan), held[n], string, rules) :
                            route \in {r \in routes[n] : Stands(r, held[n].work.plan)}} : t \in trees}
    IN FoldLeft(Lay, {tree}, [n \in DOMAIN held |-> n])
=============================================================================
