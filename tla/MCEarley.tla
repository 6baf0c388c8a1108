------------------------------ MODULE MCEarley ------------------------------
(* The grammars and the texts the Earley runs parse.                       *)
EXTENDS EarleyForest

a == Class({"a"})
b == Class({"b"})
Named(name) == Ref(<<name>>)
S == Named("S")
T == Named("T")
Arm(rule, body) == [rule |-> <<rule>>, body |-> body]
From(bodiesOfS, bodiesOfT) ==
    [start |-> <<"S">>,
     arms |-> [k \in DOMAIN bodiesOfS |-> Arm("S", bodiesOfS[k])]
                \o [k \in DOMAIN bodiesOfT |-> Arm("T", bodiesOfT[k])]]

Plain == <<
    From(<<<<a, S>>, <<b>>>>, <<>>),                    \* right recursion
    From(<<<<a, S>>, <<T>>>>, <<<<a, T>>, <<b>>>>),     \* two chains to one top
    From(<<<<a, T>>, <<a, b>>>>, <<<<b, S>>, <<b>>>>),  \* through two rules
    From(<<<<a, S>>, <<>>>>, <<>>),                     \* ... that may be empty
    From(<<<<S, S>>, <<a>>>>, <<>>),                    \* every split
    From(<<<<S, S>>, <<a>>, <<>>>>, <<>>),              \* ... and empty ones
    From(<<<<S>>, <<a>>, <<>>>>, <<>>),                 \* a cycle
    From(<<<<T, S, a>>, <<b>>>>, <<<<>>, <<b>>>>),      \* hidden left recursion
    From(<<<<a, S, a>>, <<b, S, b>>, <<>>>>, <<>>),     \* palindromes
    From(<<<<a, S>>, <<a, S, b, S>>, <<b>>>>, <<>>),    \* the dangling else
    From(<<<<T, b>>, <<S, T>>>>, <<<<a>>, <<T, a>>, <<>>>>),
    From(<<<<T, T>>, <<b>>>>, <<<<a>>, <<a, S>>>>)      \* promoted, and Leo's
    >>

(* A key some of whose families are its group's and one Leo's: at the last *)
(* split only one of S's arms still waits for R.                           *)
Mixed ==
    [start |-> <<"Z">>,
     arms |-> <<Arm("Z", <<S>>), Arm("S", <<Named("A"), Named("R")>>), Arm("S", <<Named("B"), Named("R")>>),
                Arm("A", <<a>>), Arm("A", <<Named("A"), a>>), Arm("B", <<a>>), Arm("B", <<a, a>>),
                Arm("R", <<T>>), Arm("T", <<a>>), Arm("T", <<T, a>>)>>]

(* Terminals of other widths; only a parse of the whole text takes these.  *)
Lexed == <<
    From(<<<<Literal(<<"a", "b">>), S>>, <<a>>, <<b, S>>, <<>>>>, <<>>),
    From(<<<<RunOf({"a"}, 1), T>>, <<a>>>>, <<<<b, S>>, <<b>>>>),
    From(<<<<Wide({"a", "b"}), S>>, <<b>>>>, <<>>)
    >>
AllOf(normals) == [g \in DOMAIN normals |-> Compiled(normals[g])]
Forests == AllOf(Plain \o Lexed \o <<Mixed>>)

Words(n) == UNION {[1..k -> {"a", "b"}] : k \in 0..n}
OneShot == Words(4)
Steps == Words(2) \ {<<>>}
=============================================================================
