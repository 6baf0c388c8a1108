----------------------------- MODULE Normalize -----------------------------
(***************************************************************************)
(* parsing/earley/normalize and parsing/earley/lexruns: from the grammar   *)
(* IR to the arms EarleyTables compiles.  Inline groups become rules,      *)
(* quantified items become right-recursive rules, and a minted repetition  *)
(* of single characters that nothing it may be followed by can begin       *)
(* becomes one maximal-munch run.                                          *)
(*                                                                         *)
(* A name is a tuple: <<rule>> as authored, else what the rule was minted  *)
(* for.  A minted quantifier is named for its unit and bounds, so that one *)
(* repeated is one rule (the run's memo); a group for where it stands.     *)
(***************************************************************************)
EXTENDS EarleyTables, GrammarShapes

CONSTANT Alphabet   \* the characters a text may hold

Synthetic(name) == Len(name) > 1
Grp(path) == <<"grp", path>>
Rep(unit, lo, hi) == <<"rep", unit, lo, hi>>
Opt(unit, k) == <<"opt", unit, k>>

(* HoistItem: a group becomes a reference that keeps its quantifier.       *)
Hoist(item, path) ==
    CASE IsGroup(item.atom) -> [item EXCEPT !.atom = To(Grp(path))]
      [] IsRef(item.atom)   -> [item EXCEPT !.atom = To(<<item.atom.rule>>)]
      [] OTHER              -> item
HoistArms(arms, path) ==
    [k \in DOMAIN arms |-> [j \in DOMAIN arms[k] |-> Hoist(arms[k][j], path \o <<k, j>>)]]

Places(arms) == UNION {{k} \X DOMAIN arms[k] : k \in DOMAIN arms}

RECURSIVE GroupRules(_, _)
GroupRules(arms, path) ==
    UNION {LET atom == arms[k][j].atom
               here == path \o <<k, j>>
           IN IF IsGroup(atom)
              THEN {Rule(Grp(here), HoistArms(atom.arms, here))} \cup GroupRules(atom.arms, here)
              ELSE {} : <<k, j>> \in Places(arms)}

FlattenGroups(ast) ==
    UNION {LET rule == ast.rules[n]
           IN {Rule(<<rule.name>>, HoistArms(rule.body, <<n>>))} \cup GroupRules(rule.body, <<n>>) :
           n \in DOMAIN ast.rules}

-----------------------------------------------------------------------------
(* DesugarItem: what stands for an item, a unit or the rule of its bounds. *)
Desugared(item) == IF Unit(item) THEN item ELSE Once(To(Rep(item.atom, item.lo, item.hi)))

Copies(atom, n) == [k \in 1..n |-> Once(atom)]
Optional(body) == <<<<>>, body>>

(* Expand: the right-recursive body for the copies of a unit.              *)
Repeat(unit, lo, hi) ==
    LET self == Once(To(Rep(unit, lo, hi)))
    IN CASE hi = Unlimited /\ lo = 0 -> Optional(<<Once(unit), self>>)
         [] hi = Unlimited /\ lo = 1 -> <<<<Once(unit)>>, <<Once(unit), self>>>>
         [] hi = Unlimited /\ lo > 1 -> <<<<Once(unit), Once(To(Rep(unit, lo - 1, Unlimited)))>>>>
         [] lo = 0 /\ hi = 1         -> Optional(<<Once(unit)>>)
         [] lo = hi                  -> <<Copies(unit, lo)>>
         [] OTHER                    -> <<Append(Copies(unit, lo), Once(To(Opt(unit, hi - lo))))>>

(* OptChain: none to k copies, as optionals nested to the right.           *)
Chain(unit, k) ==
    Optional(IF k = 1 THEN <<Once(unit)>> ELSE <<Once(unit), Once(To(Opt(unit, k - 1)))>>)

(* What an item mints: the rule of its bounds and those its body needs.    *)
RECURSIVE Minted(_)
Minted(name) ==
    LET body == CASE name[1] = "rep" -> Repeat(name[2], name[3], name[4])
                  [] name[1] = "opt" -> Chain(name[2], name[3])
                  [] OTHER           -> <<>>
        needs == {item.atom.rule : item \in {i \in Items(body) : IsRef(i.atom)}}
    IN IF body = <<>> THEN {}
       ELSE {Rule(name, body)} \cup
            UNION {Minted(n) : n \in {m \in needs : m[1] \in {"rep", "opt"} /\ m # name
                                        /\ m[2] = name[2]}}

DesugarQuantifiers(rules) ==
    LET quantified == UNION {{i \in Items(r.body) : ~Unit(i)} : r \in rules}
    IN {Rule(r.name, [k \in DOMAIN r.body |->
                        [j \in DOMAIN r.body[k] |-> Desugared(r.body[k][j])]]) : r \in rules}
       \cup UNION {Minted(Rep(i.atom, i.lo, i.hi)) : i \in quantified}

(* compile_tables' reading of a normal atom: _symbol_of, expand_atom.  A   *)
(* negated class is no set of characters the tables can hold.              *)
SymbolOf(item) ==
    LET atom == item.atom
    IN CASE IsRef(atom)     -> Ref(atom.rule)
         [] IsLiteral(atom) -> Literal(atom.text)
         [] IsClass(atom)   -> IF atom.set.negated THEN Wide(Alphabet \ atom.set.chars)
                               ELSE Class(atom.set.chars)

Listed(set) == FoldSet(LAMBDA x, list : Append(list, x), <<>>, set)

Normal(ast) ==
    LET rules == Listed(DesugarQuantifiers(FlattenGroups(ast)))
        Arms(rule) == [k \in DOMAIN rule.body |->
                        [rule |-> rule.name,
                         body |-> [j \in DOMAIN rule.body[k] |-> SymbolOf(rule.body[k][j])]]]
    IN [start |-> <<ast.start>>,
        arms |-> FlattenSeq([n \in DOMAIN rules |-> Arms(rules[n])])]

-----------------------------------------------------------------------------
(* lexruns: FOLLOW, as FirstSets gives FIRST - a relation between rules    *)
(* and characters, poisoned by AnyChar.                                    *)
SymFirst(sym, first) == IF IsRule(sym) THEN {f[2] : f \in {g \in first : g[1] = sym.name}} ELSE TermFirst(sym)
Vanishing(sym, nullable) == IsRule(sym) /\ sym.name \in nullable

(* Every reference in an arm, with what may begin right after it, and      *)
(* whether all that follows it may vanish.                                 *)
After(body, k, nullable, first) ==
    UNION {SymFirst(body[j], first) :
            j \in {i \in (k + 1)..Len(body) : \A m \in (k + 1)..(i - 1) : Vanishing(body[m], nullable)}}
Ends(body, k, nullable) == \A m \in (k + 1)..Len(body) : Vanishing(body[m], nullable)

Referred(arm) == {k \in DOMAIN arm.body : IsRule(arm.body[k])}
Occurrences(arms) == UNION {{a} \X Referred(arms[a]) : a \in DOMAIN arms}

FollowSets(arms, nullable, first) ==
    LET direct == UNION {{arms[o[1]].body[o[2]].name} \X After(arms[o[1]].body, o[2], nullable, first) :
                            o \in Occurrences(arms)}
        edges == {<<arms[o[1]].rule, arms[o[1]].body[o[2]].name>> :
                    o \in {p \in Occurrences(arms) : Ends(arms[p[1]].body, p[2], nullable)}}
    IN FoldLeft(LAMBDA follow, k :
                    follow \cup {<<e[2], f[2]>> : <<e, f>> \in {x \in edges \X follow : x[1][1] = x[2][1]}},
                direct, arms)

(* _rule_charset: the characters a rule matches one at a time, if no text  *)
(* of one character has two derivations below it.                          *)
None == {}
TermChars(sym) ==
    CASE sym.kind = "literal" -> IF Len(sym.string) = 1 THEN ToSet(sym.string) ELSE None
      [] sym.kind = "class"   -> IF sym.wide THEN None ELSE sym.chars
      [] OTHER                -> None

Apart(sets) == \A j, k \in DOMAIN sets : j < k => sets[j] \cap sets[k] = {}

BodiesOf(arms, rule) ==
    LET its == SelectSeq(arms, LAMBDA arm : arm.rule = rule)
    IN [k \in DOMAIN its |-> its[k].body]

RECURSIVE RuleCharset(_, _, _)
RuleCharset(rule, arms, visiting) ==
    LET bodies == BodiesOf(arms, rule)
        sets == [k \in DOMAIN bodies |->
                    IF Len(bodies[k]) # 1 THEN None
                    ELSE IF IsRule(bodies[k][1])
                    THEN RuleCharset(bodies[k][1].name, arms, visiting \cup {rule})
                    ELSE TermChars(bodies[k][1])]
    IN IF rule \in visiting \/ None \in ToSet(sets) \/ ~Apart(sets) THEN None
       ELSE UNION ToSet(sets)

(* _run_shape: the characters of a star or plus rule's unit, or None.      *)
RunShape(rule, arms) ==
    LET bodies == SortSeq(BodiesOf(arms, rule), LAMBDA one, other : Len(one) < Len(other))
        unit == bodies[2][1]
    IN IF ~(Len(bodies) = 2 /\ Len(bodies[2]) = 2 /\ bodies[2][2] = Ref(rule)
                /\ bodies[1] \in {<<>>, <<unit>>})
       THEN None
       ELSE IF IsRule(unit) THEN RuleCharset(unit.name, arms, {}) ELSE TermChars(unit)

(* Mutant: a run is collapsed whatever may follow it.                      *)
SafeAnywhere(chars, follow) == TRUE
(* A shorter match than the maximal one can be asked of it by nothing.     *)
Safe(chars, follow) == AnyChar \notin follow /\ follow \cap chars = {}

Candidates(arms) ==
    LET nullable == NullableRules(arms)
        follow == FollowSets(arms, nullable, FirstSets(arms, nullable))
    IN {r \in Rules(arms) :
            /\ Synthetic(r)
            /\ LET chars == RunShape(r, arms)
               IN chars # None /\ Safe(chars, {f[2] : f \in {g \in follow : g[1] = r}})}

(* _compile_run_rule: the empty arm if the shape has one, and the run.     *)
RunArms(rule, arms) ==
    LET arm(body) == [rule |-> rule, body |-> body]
        run == arm(<<RunOf(RunShape(rule, arms), 1)>>)
    IN IF <<>> \in ToSet(BodiesOf(arms, rule)) THEN <<arm(<<>>), run>> ELSE <<run>>

(* recognition_tables: collapse_runs with every run licensed.              *)
CollapseRuns(normal) ==
    LET arms == Interned(normal.arms)
        runs == Candidates(arms)
    IN [start |-> normal.start,
        arms |-> SelectSeq(arms, LAMBDA arm : arm.rule \notin runs)
                    \o FlattenSeq(Listed({RunArms(r, arms) : r \in runs}))]
=============================================================================
