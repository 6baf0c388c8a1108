--------------------------- MODULE PdaConflicts ---------------------------
(***************************************************************************)
(* Which rules predictive descent may run (GrammarAnalysis._classify, with *)
(* conflicts, demote, gates/leftrec and gates/greedy): every choice of an  *)
(* arm and every choice to go on with a loop is settled by one character,  *)
(* by a window of a few, or by the order of the split; else it is a        *)
(* conflict, and its rule is tried in order or left to the Earley engine.  *)
(*                                                                         *)
(* The grammar is one a document is parsed by, not the inside of an        *)
(* island; every rule of it is semantic, so no gate skips noise.  The      *)
(* gates that skip a run by its shape (gates/structured) are left out:     *)
(* they need a loop that leads another's content.  A decision is named by  *)
(* its place in the rule.                                                  *)
(***************************************************************************)
EXTENDS PdaWindows

(* lift_optional_nullables.                                                *)
LiftOptionalNullables(ast) ==
    LET nullable == Solved("nullable", Unsolved(ast)).nullable
        lifted(item) ==
            IF IsRef(item.atom) /\ item.atom.rule \in nullable /\ item.lo = 0 /\ item.hi = 1
            THEN [item EXCEPT !.lo = 1] ELSE item
        rule(r) == [r EXCEPT !.body = [i \in DOMAIN @ |-> [k \in DOMAIN @[i] |-> lifted(@[i][k])]]]
    IN [ast EXCEPT !.rules = [n \in DOMAIN @ |-> rule(@[n])]]

WithWindows(d) ==
    [rules |-> d.rules, start |-> d.start, nullable |-> d.nullable, first |-> d.first, hard |-> d.hard,
     alphabet |-> d.alphabet, extend |-> d.extend, follow |-> d.follow,
     windows |-> [k \in Widths |-> FollowWindows(d.rules, d.start, k)]]

-----------------------------------------------------------------------------
(* left_recursive_names.                                                   *)
RECURSIVE Corners(_, _)
Corners(a, items) ==
    UNION {LET atom == items[k].atom
           IN CASE IsRef(atom)   -> {atom.rule}
                [] IsGroup(atom) -> UNION {Corners(a, arm) : arm \in ToSet(atom.arms)}
                [] OTHER         -> {}
           : k \in Leads(a, items)}
RECURSIVE Reached(_, _)
Reached(a, names) ==
    LET more == names \cup UNION {Corners(a, arm) : arm \in UNION {ToSet(a.rules[n]) : n \in names \cap DOMAIN a.rules}}
    IN IF more = names THEN names ELSE Reached(a, more)
LeftRecursive(a) ==
    {n \in DOMAIN a.rules : n \in Reached(a, UNION {Corners(a, arm) : arm \in ToSet(a.rules[n])})}

-----------------------------------------------------------------------------
(* The alternations of a rule, its body and the groups in it, each with    *)
(* what comes after it.                                                    *)
Body(a, rule) ==
    [at |-> <<>>, arms |-> a.rules[rule], conts |-> [pass \in Passes |-> a.follow[pass][rule]], body |-> TRUE]
RECURSIVE GroupsIn(_, _)
GroupsIn(a, site) ==
    UNION {LET items == site.arms[i]
               group(k) == [at |-> site.at \o <<i, k>>, arms |-> items[k].atom.arms, body |-> FALSE,
                            conts |-> [pass \in Passes |-> Effective(pass, a, items, k, site.conts[pass])]]
           IN UNION {{group(k)} \cup GroupsIn(a, group(k)) : k \in {m \in DOMAIN items : IsGroup(items[m].atom)}}
           : i \in DOMAIN site.arms}
Alternations(a, rule) == {Body(a, rule)} \cup GroupsIn(a, Body(a, rule))
Places(a, rule) ==
    UNION {UNION {{[at |-> site.at \o <<i, k>>, rule |-> rule, items |-> site.arms[i], k |-> k,
                    conts |-> site.conts, body |-> site.body] : k \in DOMAIN site.arms[i]}
                  : i \in DOMAIN site.arms} : site \in Alternations(a, rule)}

(* arm_conflicts: the gate that picks an arm, and whether none does.       *)
ArmVerdict(a, rule, site) ==
    LET arms == site.arms
        first == [i \in DOMAIN arms |-> SeqFirst(a, arms[i])]
        overlap == \E i, j \in DOMAIN arms : i < j /\ Overlaps(first[i], first[j])
        gate == IF overlap THEN Gate(a.rules, arms, FollowDepths(site.conts["soft"])) ELSE <<>>
        greedy == /\ \E i \in DOMAIN arms : SeqNullable(a, arms[i])
                  /\ \E i \in DOMAIN arms : ~SeqNullable(a, arms[i]) /\ Overlaps(first[i], site.conts["soft"])
        deep == IF greedy /\ site.body THEN Gate(a.rules, arms, WindowDepths(a, rule)) ELSE <<>>
        chosen == IF deep # <<>> THEN deep ELSE gate
    IN [windows |-> [i \in DOMAIN chosen |-> WindowsOf(chosen[i])],
        hard |-> (overlap /\ gate = <<>>) \/ (greedy /\ deep = <<>>)]

-----------------------------------------------------------------------------
(* gates/greedy: a unit of items that all end in one terminator, closed by *)
(* more of it, which the order of the split reads as long as it goes.      *)
SoleArm(rules, atom) ==
    IF IsRef(atom) /\ ~Unknown(atom, rules) /\ Len(rules[atom.rule]) = 1 THEN rules[atom.rule] ELSE <<>>
RECURSIVE SpellingOf(_, _)
SpellingOf(rules, items) ==
    LET spelled(item) ==
            CASE ~Unit(item) -> {}
              [] Unit(item) /\ IsLiteral(item.atom) -> {item.atom.text}
              [] OTHER -> UNION {SpellingOf(rules, arm) : arm \in ToSet(SoleArm(rules, item.atom))}
    IN IF \E k \in DOMAIN items : spelled(items[k]) = {} THEN {}
       ELSE {FlattenSeq([k \in DOMAIN items |-> CHOOSE s \in spelled(items[k]) : TRUE])}
(* The characters of items whose every atom is finite; {} for unknown.  No *)
(* recursive rule is asked about: the code gives one up at a depth.        *)
RECURSIVE FiniteAlphabet(_, _)
FiniteAlphabet(rules, items) ==
    LET held(item) ==
            CASE IsClass(item.atom)   -> {c \in {item.atom.set} : ~c.negated}
              [] IsLiteral(item.atom) -> {Chars(ToSet(item.atom.text))}
              [] IsRef(item.atom) /\ ~Unknown(item.atom, rules) ->
                    FiniteAlphabet(rules, FlattenSeq(rules[item.atom.rule]))
              [] OTHER -> {}
    IN IF \E k \in DOMAIN items : held(items[k]) = {} THEN {}
       ELSE {UnionOf(UNION {held(items[k]) : k \in DOMAIN items})}
Starts(rules, items) ==
    LET lead == {k \in DOMAIN items : \A m \in 1..(k - 1) : items[m].lo = 0}
    IN FiniteAlphabet(rules, SubSeq(items, 1, Cardinality(lead)))

UnitShape(a, items, k) ==
    {shape \in {[body |-> Front(arm), term |-> Last(arm), mark |-> mark, tail |-> tail] :
                    arm \in {x \in ToSet(SoleArm(a.rules, items[k].atom)) : Len(x) > 1},
                    mark \in UNION {SpellingOf(a.rules, <<Last(x)>>) :
                                        x \in {y \in ToSet(SoleArm(a.rules, items[k].atom)) : Len(y) > 1}},
                    tail \in IF Len(items) = 2 THEN SpellingOf(a.rules, <<items[2]>>) ELSE {}} :
        /\ UnlimitedItem(items[k]) /\ k = 1
        /\ Len(shape.mark) = 1 /\ shape.tail # <<>> /\ ToSet(shape.tail) = ToSet(shape.mark)
        /\ \A item \in ToSet(shape.body) : item.lo = 0 /\ ~AtomNullable(a, item.atom)
        /\ \E held \in FiniteAlphabet(a.rules, shape.body) : ~Has(held, shape.mark[1])}

(* Where a unit that is named once stands: in the start rule, or alone     *)
(* under a rule that does.                                                 *)
Occurrence(a, unit) ==
    LET arm == SoleArm(a.rules, To(a.start))[1]
        within(k) == IF IsRef(arm[k].atom) /\ arm[k].atom.rule = unit THEN {arm[k]}
                     ELSE {inner[1] : inner \in {x \in ToSet(SoleArm(a.rules, arm[k].atom)) :
                                /\ Unit(arm[k]) /\ RuleReferences(a.rules, arm[k].atom.rule) = 1
                                /\ Len(x) = 1 /\ IsRef(x[1].atom) /\ x[1].atom.rule = unit}}
    IN IF SoleArm(a.rules, To(a.start)) = <<>> THEN {}
       ELSE UNION {{[before |-> SubSeq(arm, 1, k - 1), outer |-> outer, after |-> After(arm, k)] :
                        outer \in within(k)} : k \in DOMAIN arm}

NoSpec == [tail |-> <<>>, close |-> <<>>, starters |-> {}]
GreedyGates(a, rule, items, k) ==
    UNION {LET begins == UnionOf(Starts(a.rules, shape.body) \cup {Chars(ToSet(shape.mark))})
               starts == Starts(a.rules, found.after)
               clear == \E s \in starts : ~Overlaps(s, begins)
           IN CASE found.after = <<>> -> {[NoSpec EXCEPT !.tail = shape.tail]}
                [] found.after # <<>> /\ clear -> {[NoSpec EXCEPT !.tail = shape.tail, !.starters = starts]}
                [] found.after # <<>> /\ starts = {} -> {}
                [] OTHER -> {[NoSpec EXCEPT !.tail = shape.tail, !.close = close] :
                                close \in SpellingOf(a.rules, found.after)}
           : shape \in UnitShape(a, items, k),
             found \in {f \in Occurrence(a, rule) :
                            /\ RuleReferences(a.rules, rule) = 1
                            /\ f.outer.lo <= 1 /\ UnlimitedItem(f.outer)
                            /\ SpellingOf(a.rules, f.before) # {}}}

-----------------------------------------------------------------------------
(* _loop_conflict, soft_gap_conflict and _stop_set: how going on with a    *)
(* loop, or not, is decided.                                               *)
Verdict(kind, spec) == [kind |-> kind, spec |-> spec]
DemoteLoop(a, loop) ==
    LET sides == LoopSides(loop.items, loop.k)
        near == Gate(a.rules, sides, FollowDepths(loop.conts["soft"]))
        deep == Gate(a.rules, sides, ArmFinalLoopDepths(a, loop.items, loop.k, loop.rule))
        gates == GreedyGates(a, loop.rule, loop.items, loop.k)
    IN IF near # <<>> THEN Verdict("window", WindowsOf(near[1]))
       ELSE IF deep # <<>> THEN Verdict("window", WindowsOf(deep[1]))
       ELSE IF gates # {} THEN Verdict("greedy", gates) ELSE Verdict("attempt", {})
StopSet(a, loop, first) ==
    LET items == loop.items
        k == loop.k
        rest == After(items, k)
        gap == Subtract(StructuralContAt(a, items, k, loop.conts["structural"]), loop.conts["hard"])
        exits == Meeting(first, HardContAt(a, items, k, loop.conts["hard"]))
        settled == exits = NoChar \/ (loop.body /\ StopExitSettles(a, items, k, loop.rule, exits))
    IN IF SeqNullable(a, rest) /\ Overlaps(first, gap) THEN Verdict("escapes", {})
       ELSE IF settled THEN Verdict("stop", {}) ELSE Verdict("deferred", {})
LoopVerdict(a, loop) ==
    LET item == loop.items[loop.k]
        first == AtomFirst(a, item.atom)
        hard(tail) == HardContAt(a, loop.items, loop.k, loop.conts[tail])
        gap == Subtract(ContAt(a, loop.items, loop.k, loop.conts["soft"]), hard("hard"))
        structural == Subtract(StructuralContAt(a, loop.items, loop.k, loop.conts["structural"]), hard("hard"))
    IN IF ~UnlimitedItem(item) /\ item.hi <= item.lo THEN Verdict("counted", {})
       ELSE IF AtomNullable(a, item.atom) /\ (UnlimitedItem(item) \/ item.hi - item.lo > 1) THEN Verdict("endless", {})
       ELSE IF Overlaps(first, hard("soft")) /\ UnlimitedItem(item) /\ IsClass(item.atom) THEN StopSet(a, loop, first)
       ELSE IF Overlaps(first, hard("soft")) \/ (Overlaps(first, gap) /\ Overlaps(first, structural))
            THEN DemoteLoop(a, loop)
       ELSE Verdict("stop", {})

(* same_ref_extent_split.                                                  *)
ExtentWidth == 5
ExtentSplit(a, items, k) ==
    /\ k < Len(items) /\ IsRef(items[k].atom) /\ IsRef(items[k + 1].atom)
    /\ items[k].atom = items[k + 1].atom /\ items[k].lo > 0 /\ items[k + 1].lo > 0
    /\ LET prefixes == RuleFirst(a.rules, ExtentWidth, items[k].atom.rule)
           complete == {Len(p.seen) : p \in {q \in prefixes : q.state = "END"}}
       IN IF complete = {} THEN \E p \in prefixes : p.state = "UNK"
          ELSE \E p \in prefixes : Len(p.seen) > Min(complete) /\ p.state # "UNK"

-----------------------------------------------------------------------------
(* _settle: a stop set kept back is granted where no carving can be told   *)
(* from another, or the rule's match is its longest.                       *)
RECURSIVE TextOnly(_)
TextOnly(arms) ==
    \A item \in Items(arms) : ~IsRef(item.atom) /\ (IsGroup(item.atom) => TextOnly(item.atom.arms))
Fixed(item) == item.hi = item.lo
GreedyExact(a, arms) ==
    /\ \A i \in DOMAIN arms : Len(arms[i]) > 1
    /\ \A i, j \in DOMAIN arms : i < j => ~Overlaps(SeqFirst(a, arms[i]), SeqFirst(a, arms[j]))
    /\ \A i \in DOMAIN arms : \A k \in DOMAIN arms[i] :
        LET item == arms[i][k]
            rest == After(arms[i], k)
            first == AtomFirst(a, item.atom)
        IN /\ IsLiteral(item.atom) \/ IsClass(item.atom)
           /\ \/ rest = <<>> \/ Fixed(item)
              \/ ~Overlaps(first, SeqFirst(a, rest))
              \/ /\ Len(rest) = 1 /\ rest[1].lo = 0 /\ ~Fixed(rest[1])
                 /\ Subtract(first, AtomFirst(a, rest[1].atom)) = NoChar

(* _classify: what is known of one rule, from what decides its arms and    *)
(* its loops.                                                              *)
Invisible(a, rule) == TextOnly(a.rules[rule]) /\ ~Overlaps(a.extend[rule], a.follow["soft"][rule])
LongestMatch(a, rule) == TextOnly(a.rules[rule]) /\ GreedyExact(a, a.rules[rule])
Kinds(loops) == {l.verdict.kind : l \in loops}
KeptBack(a, rule, loops) == "deferred" \in Kinds(loops) /\ ~Invisible(a, rule)
Covered(arms, loops) == "attempt" \in Kinds(loops) \/ \E x \in arms : x.verdict.hard
Uncovered(a, rule, loops) ==
    \/ {"endless", "escapes"} \cap Kinds(loops) # {}
    \/ KeptBack(a, rule, loops) /\ ~LongestMatch(a, rule)
    \/ \E p \in Places(a, rule) : Unknown(p.items[p.k].atom, a.rules) \/ ExtentSplit(a, p.items, p.k)
ClassifiedBy(a, rule, arms, loops) ==
    [conflict |-> Covered(arms, loops) \/ Uncovered(a, rule, loops),
     attempt |-> Covered(arms, loops) /\ ~Uncovered(a, rule, loops),
     longest |-> KeptBack(a, rule, loops) /\ LongestMatch(a, rule),
     arms |-> {<<x.site.at, x.verdict.windows>> : x \in arms},
     loops |-> {<<l.at, l.verdict>> : l \in loops}]
Classified(a, rule) ==
    ClassifiedBy(a, rule,
        {[site |-> s, verdict |-> ArmVerdict(a, rule, s)] : s \in Alternations(a, rule)},
        {[at |-> p.at, verdict |-> LoopVerdict(a, p)] : p \in Places(a, rule)})
LeftConflict == [conflict |-> TRUE, attempt |-> FALSE, longest |-> FALSE, arms |-> {}, loops |-> {}]
Taxonomy(a) ==
    [n \in DOMAIN a.rules |-> IF n \in LeftRecursive(a) THEN LeftConflict ELSE Classified(a, n)]

Classifying(a) == [a |-> a, taxonomy |-> Taxonomy(a)]
GrammarAnalysis(ast) == Classifying(WithWindows(Predicates(ast)))
Conflicts(analysis) == {n \in DOMAIN analysis.taxonomy : analysis.taxonomy[n].conflict}
(* speculation's _conflicted.                                              *)
Predictive(ast) == Conflicts(GrammarAnalysis(LiftOptionalNullables(ast))) = {}
=============================================================================
