----------------------------- MODULE MCAuthored -----------------------------
(* Authored grammars beside those MCEarley writes in normal form: each is  *)
(* compiled as normalised, and again with its runs collapsed.              *)
EXTENDS MCEarley, AuthoredForest

OfA == OneOf({"a"})
OfB == OneOf({"b"})
Either == OneOf({"a", "b"})
Txt(one, two) == Spelling(<<one, two>>)
Just(items) == Rule("S", <<items>>)
Lone(rule) == Ast("S", <<rule>>)
Besides(rule, armsOfT) == Ast("S", <<rule, Rule("T", armsOfT)>>)
InT == To("T")

Grammars == <<
    Lone(Just(<<Many(OfA), Once(OfB), Many(OfA)>>)),             \* one run, twice
    Lone(Just(<<Many(OfA), Maybe(OfA), Once(OfB)>>)),            \* a run refused
    Lone(Just(<<Several(NoneOf({"a"})), Once(OfA)>>)),           \* too wide to hold
    Lone(Just(<<Many(Group(<<<<Maybe(OfA)>>, <<Once(OfB)>>>>)), Once(Txt("a", "b"))>>)),
    Lone(Just(<<Repeated(OfA, 2, Unlimited), Repeated(OfB, 0, 2)>>)),
    Lone(Just(<<Repeated(Group(<<<<Once(OfA), Maybe(Group(<<<<Once(OfB)>>, <<Once(Txt("b", "b"))>>>>))>>>>), 1, 3)>>)),
    Lone(Rule("S", <<<<Repeated(OfB, 2, 2), Many(OfA)>>, <<Once(OfB), Several(OfB)>>, <<Several(OfA)>>>>)),
    Besides(Just(<<Several(InT)>>), <<<<Once(OfA)>>, <<Once(OfB)>>>>),     \* a unit rule
    Besides(Just(<<Several(InT)>>), <<<<Once(OfA)>>, <<Once(Either)>>>>),     \* ... ambiguous
    Besides(Just(<<Once(InT), Once(OfA)>>), <<<<Once(OfB), Many(OfA)>>>>), \* asked by the owner
    Besides(Just(<<Once(InT), Once(OfB)>>), <<<<Once(OfB), Many(OfA)>>, <<Many(OfA)>>>>)
    >>

MCAlphabet == {"a", "b"}
Tabled == AllOf([g \in DOMAIN Grammars |-> Normal(Grammars[g])])
            \o AllOf([g \in DOMAIN Grammars |-> CollapseRuns(Normal(Grammars[g]))])
MCTables == Forests \o Tabled
MCAuthors ==
    [k \in (Len(Forests) + 1)..Len(MCTables) |->
        Grammars[1 + ((k - Len(Forests) - 1) % Len(Grammars))]]
=============================================================================
